SPECIFICATION Spec
CONSTANTS
    Users = {u1, u2}
    MaxTokens = 2
    MaxJobs = 2
    None = None
INVARIANTS
    OneIdentity
    SignedOutIsSignedOut
    DashboardIsGuarded
    KeptAlive
PROPERTY
    TokenIsRenewed
