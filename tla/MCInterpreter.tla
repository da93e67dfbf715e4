--------------------------- MODULE MCInterpreter ---------------------------
(***************************************************************************)
(* A small instance of Interpreter: two full keys (one uncompressed), one  *)
(* x-only key, an unparseable key body, two opaque miniscripts (one for    *)
(* the pre-taproot contexts, one for Tap only).  The inputs are every      *)
(* output shape the classifier distinguishes, built over these, and every  *)
(* scriptSig and witness whose top elements range over all the byte        *)
(* strings an honest or a tampered spend of those outputs can carry.       *)
(***************************************************************************)
EXTENDS Interpreter

CONSTANTS k1, k2, x1, o1, o2

MCFullKeys == {k1, k2}
MCUncompressed == {k2}
MCXKeys == {x1}
MCOpaque == {o1, o2}

MCOpaqueCtx == [o \in {o1, o2} |->
                    IF o = o1 THEN {"Legacy", "Segwitv0", "Bare"} ELSE {"Tap"}]

\* scripts
SO1 == MsScript(MsOpaque(o1))
SO2 == MsScript(MsOpaque(o2))
STrue == Encode(MsTrue)
SCov == CovScriptBytes(k1, MsOpaque(o1))
SPkU == Encode(PkK(k2))
SPkX == Encode(PkK(x1))
WpkhK1 == P2wpkh(PubkeyHash(k1))
WpkhK2 == P2wpkh(PubkeyHash(k2))
WshO1 == P2wsh(Sha256(SO1))
WshPkU == P2wsh(Sha256(SPkU))
CbO2 == ControlBlockBytes(x1, SO2)
CbTrue == ControlBlockBytes(x1, STrue)

MCSpkInputs ==
    { P2pk(k1), P2pk(k2), P2pk(BadKey),
      P2pkh(PubkeyHash(k1)), P2pkh(PubkeyHash(k2)),
      WpkhK1, WpkhK2,
      WshO1, WshPkU, P2wsh(Sha256(SCov)), P2wsh(Sha256(STrue)),
      P2tr(x1), P2tr(TapOutputKey(x1, SO2)), P2tr(TapOutputKey(x1, STrue)), P2tr(BadKey),
      P2sh(Hash160(SO1)), P2sh(Hash160(SPkU)), P2sh(Hash160(STrue)),
      P2sh(Hash160(WpkhK1)), P2sh(Hash160(WpkhK2)), P2sh(Hash160(WshO1)),
      SO1, SO2, JunkBytes }

\* the byte strings that may be on top of a stack
Pieces ==
    { KeyBytes(k1), KeyBytes(k2), KeyBytes(x1), SigBytes, OneByte, EmptyBytes,
      AnnexBytes, SO1, SO2, SCov, SPkU, WpkhK1, WpkhK2, WshO1, CbO2, CbTrue }

\* what may lie directly under the top of a witness (a tap script, a key)
Lower == { SigBytes, KeyBytes(k1), OneByte, SO2, SPkX }

MCStackItems == Pieces \cup Lower

MCScriptSigInputs ==
    {<<>>} \cup {<<a>> : a \in Pieces \cup {OP_1, OP_OTHER}}
           \cup {<<SigBytes, a>> : a \in Pieces \cup {OP_1}}

MCWitnessInputs ==
    {<<>>} \cup {<<a>> : a \in Pieces}
           \cup {<<b, a>> : b \in Lower, a \in Pieces}
           \cup {<<SigBytes, b, a>> : b \in Lower, a \in Pieces}
=============================================================================
