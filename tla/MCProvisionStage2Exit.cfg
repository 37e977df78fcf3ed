CONSTANTS
    MaxComponent <- MCMaxComponent
    MaxUsers <- MCMaxUsers
    FlashAttempts <- MCFlashAttempts
SPECIFICATION Spec
INVARIANT
    ExitStatusTruthful
