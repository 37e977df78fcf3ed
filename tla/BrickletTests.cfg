SPECIFICATION Spec
INVARIANTS
    AcceptsOnlyConforming
    KeysAsDeclared
