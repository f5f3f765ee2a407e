SPECIFICATION Spec
CONSTANTS
    s1 = s1
    s2 = s2
    Addresses <- MCAddresses
    Contents <- MCContents
    Envs <- MCEnvs
    Argvs <- MCArgvs
    Lexemes <- MCLexemes
    U16Max = 3
    IntMax = 4
    U32Max = 9
    ULongMax = 9
    MaxEdits = 1
INVARIANTS
    TypeOK
    EditsSurviveSaves
    LaunchSettingsStay
PROPERTIES
    ReconnectsToLastSwitch
