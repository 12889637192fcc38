SPECIFICATION Spec
CONSTANTS
    Fingerprints <- MCFingerprints
    Descriptions <- MCDescriptions
    MaxTasks = 3
    OpModulus = 2
    Clients = {c1, c2}
    PreVerdict <- MCPreVerdict
    PostVerdict <- MCPostVerdict
    Loaded <- MCLoaded
    UiInjected = TRUE
    TimeoutMode = "timeout_deny"
    NULL = null
SYMMETRY Symmetry
CONSTRAINT CallsUnderTwoTasks
INVARIANTS
    RootAnchored
    ExecutedWithConsent
    TrustStaysInItsTask
    CountMatchesLog
CHECK_DEADLOCK FALSE
