CONSTANTS
    MaxComponent <- MCMaxComponent
    MaxUsers <- MCMaxUsers
    FlashAttempts <- MCFlashAttempts
SPECIFICATION Spec
INVARIANTS
    TypeOK
    ReportComplete
    FirmwareCurrent
    UsersReadyForTags
    ExitZeroMeansPassed
PROPERTIES
    LedVerdict
