CONSTANTS
    normal <- MCnormal
    MaxLength = 36
    Texts <- MCTexts
    Rules <- MCRules
    Encrypt <- MCEncrypt
    K <- MCK
    OtherK <- MCOtherK
    OP <- MCOP
    amf <- MCamf
    Rand <- MCRand
    SQN <- MCSQN
    MaxSQN = 7
    MaxChallenges = 5
    MaxFaults = 2
SPECIFICATION Spec
INVARIANTS InBounds FieldsInPlace SwapCommutes SessionIsShared
PROPERTIES EncodeThenDecode NetworkIsAnswered Authenticates
CHECK_DEADLOCK FALSE
