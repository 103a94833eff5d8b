SPECIFICATION Spec
CONSTANTS
    Usernames <- MCUsernames
    Roles <- MCRoles
    NoRole = ""
    Keys <- MCKeys
    OwnedKeys <- MCOwnedKeys
    Passwords <- MCPasswords
    Sessions <- MCSessions
    RawConfigs <- MCRawConfigs
    MaxAuthTries = 4
INVARIANTS
    TypeOK
    RolesFollowCredential
    DecisionMatchesCredential
    SessionsReachAHandler
    UnauthenticatedOnlyWherePublic
    PasswordOfferedWhenUseful
PROPERTY
    RefinesAccess
