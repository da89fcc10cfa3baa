CONSTANTS
    Revision = 10
    MaxParentRetries = 2
    MaxModalRetries = 1
    u1 = u1
    u2 = u2
    n1 = n1
    n2 = n2
    Other = Other
    t1 = t1
    t2 = t2
    Tokens = {t1, t2}
    NoToken = NoToken
    SelfHostToken = t2
    Packs <- MCPacks
    NoName = NoName
    SettingsFile = SettingsFile
    LayoutFile = LayoutFile
    FileNames <- MCFileNames
    Uids = {u1, u2}
    Names = {n1, n2}
    MaxImportedFiles = 2
    UserNames <- MCUserNames
    LegacyProfiles <- MCOneLegacyProfile

SPECIFICATION Spec

INVARIANT
    ImportedSettingsKept
