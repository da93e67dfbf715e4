CONSTANTS
    k1 = k1
    k2 = k2
    x1 = x1
    o1 = o1
    o2 = o2
    BadKey = BadKey
    FullKeys <- MCFullKeys
    Uncompressed <- MCUncompressed
    XKeys <- MCXKeys
    Opaque <- MCOpaque
    OpaqueCtx <- MCOpaqueCtx
    SpkInputs = {}
    ScriptSigInputs = {}
    WitnessInputs = {}
    StackItems = {}
    OpaqueWits <- MCOpaqueWits

SPECIFICATION DescSpec

\* the round trip and the spend are one-shot: every run ends
CHECK_DEADLOCK FALSE

INVARIANTS
    RoundTripLaw
