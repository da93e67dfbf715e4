CONSTANTS
    k1 = k1
    k2 = k2
    x1 = x1
    o1 = o1
    o2 = o2
    o3 = o3
    o4 = o4
    o5 = o5
    o6 = o6
    BadKey = BadKey
    NoOpCount = NoOpCount
    FullKeys <- MCFullKeys
    Uncompressed <- MCUncompressed
    XKeys <- MCXKeys
    Opaque <- MCOpaque
    OpaqueCtx <- MCOpaqueCtx
    SpkInputs = {}
    ScriptSigInputs = {}
    WitnessInputs = {}
    StackItems = {}
    OpsSat <- MCOpsSat
    FreeVerify <- MCFreeVerify
    ScriptSize <- MCScriptSize
    MsKeys <- MCMsKeys
    SighashTypes <- MCSighashTypes
    MsWitnesses <- MCMsWitnesses

SPECIFICATION CovSpec

INVARIANT
    MissingItemNamed
