CONSTANTS
    k1 = k1
    k2 = k2
    x1 = x1
    o1 = o1
    o2 = o2
    BadKey = BadKey
    FullKeys <- MCFullKeys
    Uncompressed <- MCUncompressed
    XKeys <- MCXKeys
    Opaque <- MCOpaque
    OpaqueCtx <- MCOpaqueCtx
    SpkInputs <- MCSpkInputs
    ScriptSigInputs <- MCScriptSigInputs
    WitnessInputs <- MCWitnessInputs
    StackItems <- MCStackItems

SPECIFICATION Spec

\* from_txdata is one call that returns: once it has, the model stops.
CHECK_DEADLOCK FALSE

INVARIANTS
    TypeOK
    KeyScriptCommitted
    SpendDataAccounted
    KeyDiscipline
