------------------------- MODULE InterpreterProofs -------------------------
(***************************************************************************)
(* Proofs about the classification step of Interpreter, for every value of *)
(* the constants: a classified non-covenant spend is committed to by the   *)
(* spent output (KeyScriptCommitted), and its keys and scripts have the    *)
(* encoding of their context (KeyDiscipline).                              *)
(*                                                                         *)
(* The inputs never change and res is either Pending or the result of      *)
(* from_txdata on them, so both invariants reduce to facts about           *)
(* from_txdata, proved one branch at a time.                               *)
(***************************************************************************)
EXTENDS Interpreter, TLAPS, SequenceTheorems

\* a result that passes KeyScriptCommitted for output pk
CommitOK(r, pk) ==
    r.ok = TRUE /\ r.val.inner.kind # "CovScript" => CommittedBy(r.val.inner, pk)

(* Popping a stack s with x pushed on it gives x and leaves s.            *)
LEMMA PopPushed ==
    ASSUME NEW T, NEW s \in Seq(T), NEW x
    PROVE  /\ s \o <<x>> # <<>>
           /\ Top(s \o <<x>>) = x
           /\ Pop(s \o <<x>>) = s
<1>. DEFINE U == T \cup {x}
<1>1. s \in Seq(U) /\ <<x>> \in Seq(U)
      OBVIOUS
<1>2. /\ s \o <<x>> \in Seq(U)
      /\ Len(s \o <<x>>) = Len(s) + 1
      /\ \A i \in 1 .. Len(s) + 1 : (s \o <<x>>)[i] = IF i <= Len(s) THEN s[i] ELSE x
      BY <1>1, ConcatProperties
<1>3. Len(s) \in Nat
      BY LenProperties
<1>4. /\ SubSeq(s \o <<x>>, 1, Len(s)) \in Seq(U)
      /\ Len(SubSeq(s \o <<x>>, 1, Len(s))) = Len(s)
      /\ \A i \in 1 .. Len(s) : SubSeq(s \o <<x>>, 1, Len(s))[i] = s[i]
      BY <1>2, <1>3, SubSeqProperties
<1>5. SubSeq(s \o <<x>>, 1, Len(s)) = s
      BY <1>1, <1>4, SeqEqual
<1>. QED  BY <1>2, <1>3, <1>5 DEF Top, Pop

(* Re-encoding what parse_insane returned gives back the bytes it parsed,  *)
(* for any well-formed byte string and any context.                        *)
LEMMA ParseEncode ==
    ASSUME NEW ctx, NEW d, WellFormed(d), ParseInsane(ctx, d).ok = TRUE
    PROVE  Encode(ParseInsane(ctx, d).val) = d
<1>1. CASE d.t = "p2pk"
      <2>1. d = P2pk(d.key) /\ d.key \notin XKeys
            BY <1>1 DEF WellFormed
      <2>2. MsValid(PkK(d.key), ctx)
            BY <1>1 DEF ParseInsane, Ok, Err
      <2>3. d.key \in FullKeys
            BY <2>1, <2>2 DEF MsValid, PkK, CompressedKeys
      <2>. QED  BY <1>1, <2>1, <2>3 DEF ParseInsane, Ok, Err, Encode, PkK, P2pk, MsValid
<1>2. CASE d.t = "p2pkh"
      BY <1>2 DEF WellFormed, ParseInsane, Ok, Err, Encode, PkH, P2pkh
<1>3. CASE d.t = "ms"
      BY <1>3 DEF WellFormed, ParseInsane, Ok, Err
<1>4. CASE d.t \notin {"p2pk", "p2pkh", "ms"}
      BY <1>4 DEF ParseInsane, Ok, Err
<1>. QED  BY <1>1, <1>2, <1>3, <1>4

(* Parsing a script from a stack element yields a result whose ok flag is *)
(* a Boolean.                                                              *)
LEMMA ScriptParseBoolean ==
    ASSUME NEW ctx, NEW elem
    PROVE  /\ ParseInsane(ctx, elem.d).ok \in BOOLEAN
           /\ script_from_stack_elem(ctx, elem).ok \in BOOLEAN
BY DEF ParseInsane, script_from_stack_elem, Ok, Err

(* Per branch of from_txdata: a key or script it classifies is the one the *)
(* output commits to.                                                      *)
LEMMA PayToPubkeyCommitted ==
    ASSUME NEW pk, NEW S, NEW W, WellFormed(pk), pk.t = "p2pk"
    PROVE  CommitOK(PayToPubkey(pk, S, W), pk)
<1>1. pk = P2pk(pk.key)
      BY DEF WellFormed
<1>. QED  BY <1>1 DEF CommitOK, PayToPubkey, pk_from_slice, Classified, InnerPublicKey,
                   FullKey, Ok, Err, CommittedBy, KeyBytes

LEMMA PayToPubkeyHashCommitted ==
    ASSUME NEW pk, NEW S, NEW W
    PROVE  CommitOK(PayToPubkeyHash(pk, S, W), pk)
BY DEF CommitOK, PayToPubkeyHash, pk_from_stack_elem, pk_from_slice, Classified,
       InnerPublicKey, FullKey, Ok, Err, CommittedBy

LEMMA PayToWitnessPubkeyHashCommitted ==
    ASSUME NEW pk, NEW S, NEW W
    PROVE  CommitOK(PayToWitnessPubkeyHash(pk, S, W), pk)
BY DEF CommitOK, PayToWitnessPubkeyHash, pk_from_stack_elem, pk_from_slice, Classified,
       InnerPublicKey, FullKey, Ok, Err, CommittedBy

LEMMA PayToWitnessScriptHashCommitted ==
    ASSUME NEW pk, NEW S, NEW W
    PROVE  CommitOK(PayToWitnessScriptHash(pk, S, W), pk)
BY DEF CommitOK, PayToWitnessScriptHash, cov_components_from_stackelem, Classified,
       InnerScript, InnerCov, NoChecks, Ok, Err, CommittedBy

LEMMA PayToTaprootCommitted ==
    ASSUME NEW pk, NEW S, NEW W, WellFormed(pk), pk.t = "p2tr"
    PROVE  CommitOK(PayToTaproot(pk, S, W), pk)
<1>1. pk = P2tr(pk.out)
      BY DEF WellFormed
<1>2. CommitOK(TapScriptSpend(pk.out, W), pk)
      <2>. DEFINE cb  == Top(W)
                  r   == script_from_stack_elem("Tap", Top(Pop(W)))
      <2>1. r.ok \in BOOLEAN
            BY ScriptParseBoolean
      <2>2. SUFFICES ASSUME r.ok = TRUE,
                            cb.e = "push", cb.d.t = "cb",
                            VerifyTaprootCommitment(cb.d, pk.out, Encode(r.val))
                     PROVE  CommittedBy(InnerScript(NoChecks(r.val, "xonly"), "Tr"), pk)
            BY <2>1 DEF CommitOK, TapScriptSpend, Classified, Ok, Err
      <2>3. pk.out = TapOutputKey(cb.d.internal, Encode(r.val))
            BY <2>2 DEF VerifyTaprootCommitment
      <2>. QED  BY <1>1, <2>3 DEF CommittedBy, InnerScript, NoChecks, TapOutputKey, P2tr
<1>. QED  BY <1>1, <1>2 DEF CommitOK, PayToTaproot, Classified, InnerPublicKey, XOnlyKey,
                            Ok, Err, CommittedBy

LEMMA PayToScriptHashCommitted ==
    ASSUME NEW pk, NEW S, NEW W
    PROVE  CommitOK(PayToScriptHash(pk, S, W), pk)
<1>1. ASSUME NEW elem, NEW S1
      PROVE  CommitOK(ShLegacy(pk, elem, S1, W), pk)
      BY DEF CommitOK, ShLegacy, Classified, InnerScript, NoChecks, Ok, Err, CommittedBy
<1>2. ASSUME NEW slice, NEW S1, pk = P2sh(Hash160(slice))
      PROVE  /\ CommitOK(ShWrappedWpkh(slice, S1, W), pk)
             /\ CommitOK(ShWrappedWsh(slice, S1, W), pk)
      BY <1>2 DEF CommitOK, ShWrappedWpkh, ShWrappedWsh, pk_from_stack_elem,
                  pk_from_slice, Classified, InnerScript, InnerPublicKey, NoChecks,
                  FullKey, Ok, Err, CommittedBy
<1>. QED  BY <1>1, <1>2 DEF PayToScriptHash, CommitOK, Err

LEMMA BareScriptCommitted ==
    ASSUME NEW pk, NEW S, NEW W, WellFormed(pk)
    PROVE  CommitOK(BareScript(pk, S, W), pk)
<1>1. ParseInsane("Bare", pk).ok = TRUE => Encode(ParseInsane("Bare", pk).val) = pk
      BY ParseEncode
<1>2. ParseInsane("Bare", pk).ok \in BOOLEAN
      BY DEF ParseInsane, Ok, Err
<1>. QED  BY <1>1, <1>2 DEF Err, CommitOK, BareScript, Classified, InnerScript, NoChecks, Ok,
                     CommittedBy

(* from_txdata as a whole: each output shape goes to its branch.           *)
LEMMA FromTxdataCommitted ==
    ASSUME NEW pk, NEW ssig, NEW wit, WellFormed(pk)
    PROVE  CommitOK(from_txdata(pk, ssig, wit), pk)
<1>. DEFINE S == ScriptSigStack(ssig)
            W == WitnessStack(wit)
<1>1. CASE ~ScriptSigParses(ssig)
      BY <1>1 DEF from_txdata, CommitOK, Err
<1>2. CASE ScriptSigParses(ssig)
      <2>1. CASE pk.t = "p2pk"
            BY <1>2, <2>1, PayToPubkeyCommitted DEF from_txdata
      <2>2. CASE pk.t = "p2pkh"
            BY <1>2, <2>2, PayToPubkeyHashCommitted DEF from_txdata
      <2>3. CASE pk.t = "p2wpkh"
            BY <1>2, <2>3, PayToWitnessPubkeyHashCommitted DEF from_txdata
      <2>4. CASE pk.t = "p2wsh"
            BY <1>2, <2>4, PayToWitnessScriptHashCommitted DEF from_txdata
      <2>5. CASE pk.t = "p2tr"
            BY <1>2, <2>5, PayToTaprootCommitted DEF from_txdata
      <2>6. CASE pk.t = "p2sh"
            BY <1>2, <2>6, PayToScriptHashCommitted DEF from_txdata
      <2>7. CASE pk.t \notin {"p2pk", "p2pkh", "p2wpkh", "p2wsh", "p2tr", "p2sh"}
            BY <1>2, <2>7, BareScriptCommitted DEF from_txdata
      <2>. QED  BY <2>1, <2>2, <2>3, <2>4, <2>5, <2>6, <2>7
<1>. QED  BY <1>1, <1>2

(* The inductive invariant: the inputs are those of the call and the       *)
(* result is either not yet computed or from_txdata of the inputs.         *)
IInv ==
    /\ spk \in SpkInputs
    /\ scriptSig \in ScriptSigInputs
    /\ witness \in WitnessInputs
    /\ res \in {Pending, from_txdata(spk, scriptSig, witness)}

LEMMA IInvInductive == Spec => []IInv
<1>1. Init => IInv
      BY DEF Init, IInv
<1>2. IInv /\ [Next]_vars => IInv'
      BY DEF IInv, Next, Classify, vars
<1>. QED  BY <1>1, <1>2, PTL DEF Spec

(* KeyScriptCommitted for every instance: from_txdata never returns a key  *)
(* or script (other than a covenant's) that the spent output does not      *)
(* commit to, whatever scriptSig and witness the spender supplies.         *)
THEOREM KeyScriptCommittedInvariant == Spec => []KeyScriptCommitted
<1>1. IInv => KeyScriptCommitted
      <2>. SUFFICES ASSUME IInv PROVE KeyScriptCommitted
           OBVIOUS
      <2>1. WellFormed(spk)
            BY InputAssumption DEF IInv
      <2>2. CASE res = Pending
            BY <2>2 DEF KeyScriptCommitted, Pending
      <2>3. CASE res = from_txdata(spk, scriptSig, witness)
            BY <2>1, <2>3, FromTxdataCommitted DEF KeyScriptCommitted, CommitOK
      <2>. QED  BY <2>2, <2>3 DEF IInv
<1>. QED  BY <1>1, IInvInductive, PTL

\* a result that passes KeyDiscipline
DiscOK(r) == r.ok = TRUE => Disciplined(r.val.inner)

(* A key read from a slice or a stack element is a full key, compressed    *)
(* when compression was required.                                          *)
LEMMA PkFromSliceKey ==
    ASSUME NEW d, NEW rc \in BOOLEAN
    PROVE  LET r == pk_from_slice(d, rc)
           IN  /\ r.ok \in BOOLEAN
               /\ r.ok = TRUE => /\ r.val \in FullKeys
                                 /\ rc => r.val \in CompressedKeys
BY DEF pk_from_slice, Ok, Err, CompressedKeys

LEMMA PkFromElemKey ==
    ASSUME NEW elem, NEW rc \in BOOLEAN
    PROVE  LET r == pk_from_stack_elem(elem, rc)
           IN  /\ r.ok \in BOOLEAN
               /\ r.ok = TRUE => /\ r.val \in FullKeys
                                 /\ rc => r.val \in CompressedKeys
BY PkFromSliceKey DEF pk_from_stack_elem, Err

(* A script parsed from a stack element is admissible in the context it    *)
(* was parsed under.                                                       *)
LEMMA ScriptFromElemValid ==
    ASSUME NEW ctx, NEW elem
    PROVE  LET r == script_from_stack_elem(ctx, elem)
           IN  /\ r.ok \in BOOLEAN
               /\ r.ok = TRUE => MsValid(r.val, ctx)
<1>1. CASE elem.e = "push"
      <2>1. LET p == ParseInsane(ctx, elem.d)
            IN  /\ p.ok \in BOOLEAN
                /\ p.ok = TRUE => MsValid(p.val, ctx)
            <3>1. MsValid(PkH(elem.d.h), ctx)
                  BY DEF MsValid, PkH
            <3>. QED  BY <3>1 DEF ParseInsane, Ok, Err
      <2>. QED  BY <1>1, <2>1 DEF script_from_stack_elem
<1>2. CASE elem.e # "push"
      <2>1. MsValid(MsTrue, ctx) /\ MsValid(MsFalse, ctx)
            BY DEF MsValid, MsTrue, MsFalse
      <2>. QED  BY <1>2, <2>1 DEF script_from_stack_elem, Ok
<1>. QED  BY <1>1, <1>2

LEMMA CovComponentsValid ==
    ASSUME NEW elem
    PROVE  LET c == cov_components_from_stackelem(elem)
           IN  /\ c.ok \in BOOLEAN
               /\ c.ok = TRUE => c.val.pk \in FullKeys /\ MsValid(c.val.ms, "Segwitv0")
BY DEF cov_components_from_stackelem, Ok, Err

(* Per branch of from_txdata: the Inner it returns is disciplined.         *)
LEMMA PayToPubkeyDisciplined ==
    ASSUME NEW pk, NEW S, NEW W
    PROVE  DiscOK(PayToPubkey(pk, S, W))
<1>1. LET r == pk_from_slice(KeyBytes(pk.key), FALSE)
      IN  r.ok \in BOOLEAN /\ (r.ok = TRUE => r.val \in FullKeys)
      BY PkFromSliceKey
<1>. QED  BY <1>1 DEF DiscOK, PayToPubkey, Classified, InnerPublicKey, FullKey, Ok, Err,
                     Disciplined

LEMMA PayToPubkeyHashDisciplined ==
    ASSUME NEW pk, NEW S, NEW W
    PROVE  DiscOK(PayToPubkeyHash(pk, S, W))
<1>1. LET r == pk_from_stack_elem(Top(S), FALSE)
      IN  r.ok \in BOOLEAN /\ (r.ok = TRUE => r.val \in FullKeys)
      BY PkFromElemKey
<1>. QED  BY <1>1 DEF DiscOK, PayToPubkeyHash, Classified, InnerPublicKey, FullKey, Ok,
                     Err, Disciplined

LEMMA PayToWitnessPubkeyHashDisciplined ==
    ASSUME NEW pk, NEW S, NEW W
    PROVE  DiscOK(PayToWitnessPubkeyHash(pk, S, W))
<1>1. LET r == pk_from_stack_elem(Top(W), TRUE)
      IN  r.ok \in BOOLEAN /\ (r.ok = TRUE => r.val \in FullKeys /\ r.val \in CompressedKeys)
      BY PkFromElemKey
<1>. QED  BY <1>1 DEF DiscOK, PayToWitnessPubkeyHash, Classified, InnerPublicKey, FullKey,
                     Ok, Err, Disciplined

LEMMA PayToWitnessScriptHashDisciplined ==
    ASSUME NEW pk, NEW S, NEW W
    PROVE  DiscOK(PayToWitnessScriptHash(pk, S, W))
<1>1. LET c == cov_components_from_stackelem(Top(W))
      IN  c.ok \in BOOLEAN /\ (c.ok = TRUE => c.val.pk \in FullKeys /\ MsValid(c.val.ms, "Segwitv0"))
      BY CovComponentsValid
<1>2. LET r == script_from_stack_elem("Segwitv0", Top(W))
      IN  r.ok \in BOOLEAN /\ (r.ok = TRUE => MsValid(r.val, "Segwitv0"))
      BY ScriptFromElemValid
<1>. QED  BY <1>1, <1>2 DEF DiscOK, PayToWitnessScriptHash, Classified, InnerScript,
                           InnerCov, NoChecks, FullKey, Ok, Err, Disciplined, ContextOf

LEMMA PayToTaprootDisciplined ==
    ASSUME NEW pk, NEW S, NEW W
    PROVE  DiscOK(PayToTaproot(pk, S, W))
<1>1. LET r == script_from_stack_elem("Tap", Top(Pop(W)))
      IN  r.ok \in BOOLEAN /\ (r.ok = TRUE => MsValid(r.val, "Tap"))
      BY ScriptFromElemValid
<1>2. DiscOK(TapScriptSpend(pk.out, W))
      BY <1>1 DEF DiscOK, TapScriptSpend, Classified, InnerScript, NoChecks, Ok, Err,
                  Disciplined, ContextOf
<1>. QED  BY <1>2 DEF DiscOK, PayToTaproot, Classified, InnerPublicKey, XOnlyKey, Ok, Err,
                     Disciplined

LEMMA PayToScriptHashDisciplined ==
    ASSUME NEW pk, NEW S, NEW W
    PROVE  DiscOK(PayToScriptHash(pk, S, W))
<1>1. ASSUME NEW elem, NEW S1
      PROVE  DiscOK(ShLegacy(pk, elem, S1, W))
      <2>1. LET r == script_from_stack_elem("Legacy", elem)
            IN  r.ok \in BOOLEAN /\ (r.ok = TRUE => MsValid(r.val, "Legacy"))
            BY ScriptFromElemValid
      <2>. QED  BY <2>1 DEF DiscOK, ShLegacy, Classified, InnerScript, NoChecks, Ok, Err,
                           Disciplined, ContextOf
<1>2. ASSUME NEW slice, NEW S1
      PROVE  DiscOK(ShWrappedWpkh(slice, S1, W))
      <2>1. LET r == pk_from_stack_elem(Top(W), TRUE)
            IN  r.ok \in BOOLEAN /\ (r.ok = TRUE => r.val \in FullKeys /\ r.val \in CompressedKeys)
            BY PkFromElemKey
      <2>. QED  BY <2>1 DEF DiscOK, ShWrappedWpkh, Classified, InnerPublicKey, FullKey, Ok,
                           Err, Disciplined
<1>3. ASSUME NEW slice, NEW S1
      PROVE  DiscOK(ShWrappedWsh(slice, S1, W))
      <2>1. LET r == script_from_stack_elem("Segwitv0", Top(W))
            IN  r.ok \in BOOLEAN /\ (r.ok = TRUE => MsValid(r.val, "Segwitv0"))
            BY ScriptFromElemValid
      <2>. QED  BY <2>1 DEF DiscOK, ShWrappedWsh, Classified, InnerScript, NoChecks, Ok,
                           Err, Disciplined, ContextOf
<1>. QED  BY <1>1, <1>2, <1>3 DEF PayToScriptHash, DiscOK, Err

LEMMA BareScriptDisciplined ==
    ASSUME NEW pk, NEW S, NEW W
    PROVE  DiscOK(BareScript(pk, S, W))
<1>1. LET r == ParseInsane("Bare", pk)
      IN  r.ok \in BOOLEAN /\ (r.ok = TRUE => MsValid(r.val, "Bare"))
      <2>1. MsValid(PkH(pk.h), "Bare")
            BY DEF MsValid, PkH
      <2>. QED  BY <2>1 DEF ParseInsane, Ok, Err
<1>. QED  BY <1>1 DEF DiscOK, BareScript, Classified, InnerScript, NoChecks, Ok, Err,
                     Disciplined, ContextOf

LEMMA FromTxdataDisciplined ==
    ASSUME NEW pk, NEW ssig, NEW wit
    PROVE  DiscOK(from_txdata(pk, ssig, wit))
<1>1. CASE ~ScriptSigParses(ssig)
      BY <1>1 DEF from_txdata, DiscOK, Err
<1>2. CASE ScriptSigParses(ssig)
      BY <1>2, PayToPubkeyDisciplined, PayToPubkeyHashDisciplined,
         PayToWitnessPubkeyHashDisciplined, PayToWitnessScriptHashDisciplined,
         PayToTaprootDisciplined, PayToScriptHashDisciplined, BareScriptDisciplined
      DEF from_txdata
<1>. QED  BY <1>1, <1>2

(* KeyDiscipline for every instance: a segwit v0 key spend never yields an *)
(* uncompressed key, a taproot spend yields x-only keys, and every script  *)
(* from_txdata re-parses is admissible in the context of its output shape. *)
THEOREM KeyDisciplineInvariant == Spec => []KeyDiscipline
<1>1. IInv => KeyDiscipline
      <2>. SUFFICES ASSUME IInv PROVE KeyDiscipline
           OBVIOUS
      <2>1. CASE res = Pending
            BY <2>1 DEF KeyDiscipline, Pending
      <2>2. CASE res = from_txdata(spk, scriptSig, witness)
            BY <2>2, FromTxdataDisciplined DEF KeyDiscipline, DiscOK
      <2>. QED  BY <2>1, <2>2 DEF IInv
<1>. QED  BY <1>1, IInvInductive, PTL

=============================================================================
