CONSTANTS
    UploadTimeout <- MCUploadTimeout
    DownloadTimeout <- MCDownloadTimeout
    OldStamps <- MCOldStamps
    RunStart <- MCRunStart
SPECIFICATION Spec
INVARIANTS VerdictSound
PROPERTIES HandshakeEnds ImplementsHandshake
