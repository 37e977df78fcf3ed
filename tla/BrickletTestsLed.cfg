SPECIFICATION Spec
INVARIANT LedDefectRejected
