----------------------- MODULE InterpreterTypeProofs -----------------------
(***************************************************************************)
(* Type correctness of from_txdata for every value of the constants: the   *)
(* call returns one of the errors the code names, or an Inner whose keys   *)
(* are full keys or the output key of a taproot input, and whose scripts   *)
(* are ASTs parse_insane can build from the input bytes.                   *)
(*                                                                         *)
(* The stacks from_txdata builds hold only pushes of input items and the   *)
(* two constant elements, so every element a branch reads is typed; each  *)
(* branch is then typed by the helpers it calls.                           *)
(***************************************************************************)
EXTENDS InterpreterProofs

\* the elements of a stack built from the inputs
StackElems == {Push(d) : d \in StackItems} \cup {Satisfied, Dissatisfied}

\* a result from_txdata can return
ResOK(r) ==
    \/ r.ok = FALSE /\ r.err \in Errors
    \/ r.ok = TRUE /\ r.val.inner \in Inners

(* The top of a non-empty stack of T, and the element under it, are in T.  *)
LEMMA TopTyped ==
    ASSUME NEW T, NEW s \in Seq(T), s # <<>>
    PROVE  /\ Top(s) \in T
           /\ Len(s) >= 2 => Top(Pop(s)) \in T
<1>1. Len(s) \in Nat /\ Len(s) # 0
      BY EmptySeq, LenProperties
<1>2. Top(s) \in T
      BY <1>1, ElementOfSeq DEF Top
<1>3. ASSUME Len(s) >= 2 PROVE Top(Pop(s)) \in T
      <2>1. /\ Pop(s) \in Seq(T)
            /\ Len(Pop(s)) = Len(s) - 1
            /\ \A i \in 1 .. Len(s) - 1 : Pop(s)[i] = s[i]
            BY <1>1, <1>3, SubSeqProperties DEF Pop
      <2>2. Top(Pop(s)) = s[Len(s) - 1]
            BY <1>1, <1>3, <2>1 DEF Top
      <2>. QED  BY <1>1, <1>3, <2>2, ElementOfSeq
<1>. QED  BY <1>2, <1>3

(* The stacks from_txdata builds from its inputs hold stack elements.      *)
LEMMA StacksTyped ==
    ASSUME NEW ssig \in ScriptSigInputs, ScriptSigParses(ssig),
           NEW wit \in WitnessInputs
    PROVE  /\ ScriptSigStack(ssig) \in Seq(StackElems)
           /\ WitnessStack(wit) \in Seq(StackElems)
<1>1. ssig \in Seq(StackItems \cup {OP_1, OP_OTHER}) /\ wit \in Seq(StackItems)
      BY InputAssumption
<1>2. ASSUME NEW d \in StackItems PROVE ElementFrom(d) \in StackElems
      BY DEF ElementFrom, StackElems
<1>3. ASSUME NEW i \in StackItems \cup {OP_1, OP_OTHER}, ElementFromInstruction(i).ok
      PROVE  ElementFromInstruction(i).val \in StackElems
      <2>1. CASE i = OP_1
            BY <2>1 DEF ElementFromInstruction, Ok, StackElems
      <2>2. CASE i # OP_1 /\ i # OP_OTHER /\ MinimalPush(i)
            <3>1. ElementFromInstruction(i) = Ok(ElementFrom(i))
                  BY <2>2 DEF ElementFromInstruction
            <3>2. i \in StackItems
                  BY <2>2
            <3>. QED  BY <3>1, <3>2, <1>2 DEF Ok
      <2>3. CASE i # OP_1 /\ ~(i # OP_OTHER /\ MinimalPush(i))
            <3>1. ElementFromInstruction(i) = Err("ExpectedPush")
                  BY <2>3 DEF ElementFromInstruction
            <3>. QED  BY <3>1, <1>3 DEF Err
      <2>. QED  BY <2>1, <2>2, <2>3
<1>4. Len(ssig) \in Nat /\ Len(wit) \in Nat
      BY <1>1, LenProperties
<1>5. \A i \in 1 .. Len(ssig) : /\ ssig[i] \in StackItems \cup {OP_1, OP_OTHER}
                               /\ ElementFromInstruction(ssig[i]).ok
      BY <1>1, ElementOfSeq DEF ScriptSigParses
<1>6. \A i \in 1 .. Len(wit) : wit[i] \in StackItems
      BY <1>1, ElementOfSeq
<1>7. ScriptSigStack(ssig) \in [1 .. Len(ssig) -> StackElems]
      BY <1>3, <1>5 DEF ScriptSigStack
<1>8. WitnessStack(wit) \in [1 .. Len(wit) -> StackElems]
      BY <1>2, <1>6 DEF WitnessStack
<1>. QED  BY <1>4, <1>7, <1>8, SeqDef

(* parse_insane on an input byte string returns an AST of InputMs or a     *)
(* ParseError.                                                             *)
LEMMA ParseInsaneTyped ==
    ASSUME NEW ctx, NEW d \in SpkInputs \cup StackItems
    PROVE  LET r == ParseInsane(ctx, d)
           IN  \/ r.ok = FALSE /\ r.err = "ParseError"
               \/ r.ok = TRUE /\ r.val \in InputMs
<1>1. MsValid(PkK(d.key), ctx) => d.key \in FullKeys \cup XKeys
      BY DEF MsValid, PkK, CompressedKeys
<1>2. d.t = "p2pkh" => PkH(d.h) \in InputMs
      BY DEF InputMs, MsOver, InputHashes
<1>3. d.t = "ms" => d.ms \in InputMs
      BY InputAssumption
<1>4. d.key \in FullKeys \cup XKeys => PkK(d.key) \in InputMs
      BY DEF InputMs, MsOver
<1>. QED  BY <1>1, <1>2, <1>3, <1>4 DEF ParseInsane, Ok, Err

(* A script read from a stack element is an AST of InputMs or a ParseError.*)
LEMMA ScriptFromElemTyped ==
    ASSUME NEW ctx, NEW elem \in StackElems
    PROVE  LET r == script_from_stack_elem(ctx, elem)
           IN  \/ r.ok = FALSE /\ r.err = "ParseError"
               \/ r.ok = TRUE /\ r.val \in InputMs
<1>1. MsTrue \in InputMs /\ MsFalse \in InputMs
      BY DEF InputMs, MsOver
<1>2. CASE elem.e = "push"
      <2>1. PICK d \in StackItems : elem = Push(d)
            BY <1>2 DEF StackElems, Satisfied, Dissatisfied
      <2>. QED  BY <2>1, ParseInsaneTyped DEF script_from_stack_elem, Push
<1>3. CASE elem.e # "push"
      BY <1>1, <1>3 DEF script_from_stack_elem, Ok
<1>. QED  BY <1>2, <1>3

(* A key read from a stack element is a full key, or the read fails with   *)
(* one of the two key errors.                                              *)
LEMMA PkFromElemTyped ==
    ASSUME NEW elem, NEW rc \in BOOLEAN
    PROVE  LET r == pk_from_stack_elem(elem, rc)
           IN  \/ r.ok = FALSE /\ r.err \in {"PubkeyParseError", "UncompressedPubkey"}
               \/ r.ok = TRUE /\ r.val \in FullKeys
BY DEF pk_from_stack_elem, pk_from_slice, Ok, Err

(* The components of a covenant read from a stack element are a full key  *)
(* and an AST of InputMs.                                                  *)
LEMMA CovComponentsTyped ==
    ASSUME NEW elem \in StackElems
    PROVE  LET c == cov_components_from_stackelem(elem)
           IN  /\ c.ok \in BOOLEAN
               /\ c.ok = TRUE => c.val.pk \in FullKeys /\ c.val.ms \in InputMs
<1>1. CASE elem.e = "push"
      <2>1. PICK d \in StackItems : elem = Push(d)
            BY <1>1 DEF StackElems, Satisfied, Dissatisfied
      <2>2. d.t = "cov" => d.ms \in InputMs
            BY InputAssumption
      <2>. QED  BY <2>1, <2>2 DEF cov_components_from_stackelem, Push, Ok, Err
<1>2. CASE elem.e # "push"
      BY <1>2 DEF cov_components_from_stackelem, Err
<1>. QED  BY <1>1, <1>2

(* Per branch of from_txdata, on an output of the inputs and stacks built  *)
(* from them: the result is typed.                                         *)
LEMMA PayToPubkeyTyped ==
    ASSUME NEW pk, NEW S, NEW W
    PROVE  ResOK(PayToPubkey(pk, S, W))
BY DEF ResOK, PayToPubkey, pk_from_slice, KeyBytes, Classified, InnerPublicKey, FullKey,
       Ok, Err, Errors, Inners, BitcoinKeys, PubkeyTypes

LEMMA PayToPubkeyHashTyped ==
    ASSUME NEW pk, NEW S \in Seq(StackElems), NEW W
    PROVE  ResOK(PayToPubkeyHash(pk, S, W))
<1>1. LET r == pk_from_stack_elem(Top(S), FALSE)
      IN  \/ r.ok = FALSE /\ r.err \in {"PubkeyParseError", "UncompressedPubkey"}
          \/ r.ok = TRUE /\ r.val \in FullKeys
      BY PkFromElemTyped
<1>. QED  BY <1>1 DEF ResOK, PayToPubkeyHash, Classified, InnerPublicKey, FullKey, Ok, Err,
                     Errors, Inners, BitcoinKeys, PubkeyTypes

LEMMA PayToWitnessPubkeyHashTyped ==
    ASSUME NEW pk, NEW S, NEW W \in Seq(StackElems)
    PROVE  ResOK(PayToWitnessPubkeyHash(pk, S, W))
<1>1. LET r == pk_from_stack_elem(Top(W), TRUE)
      IN  \/ r.ok = FALSE /\ r.err \in {"PubkeyParseError", "UncompressedPubkey"}
          \/ r.ok = TRUE /\ r.val \in FullKeys
      BY PkFromElemTyped
<1>. QED  BY <1>1 DEF ResOK, PayToWitnessPubkeyHash, Classified, InnerPublicKey, FullKey,
                     Ok, Err, Errors, Inners, BitcoinKeys, PubkeyTypes

LEMMA PayToWitnessScriptHashTyped ==
    ASSUME NEW pk, NEW S, NEW W \in Seq(StackElems)
    PROVE  ResOK(PayToWitnessScriptHash(pk, S, W))
<1>1. CASE S # <<>> \/ W = <<>>
      BY <1>1 DEF ResOK, PayToWitnessScriptHash, Err, Errors
<1>2. CASE S = <<>> /\ W # <<>>
      <2>1. Top(W) \in StackElems
            BY <1>2, TopTyped
      <2>2. LET c == cov_components_from_stackelem(Top(W))
            IN  /\ c.ok \in BOOLEAN
                /\ c.ok = TRUE => c.val.pk \in FullKeys /\ c.val.ms \in InputMs
            BY <2>1, CovComponentsTyped
      <2>3. LET r == script_from_stack_elem("Segwitv0", Top(W))
            IN  \/ r.ok = FALSE /\ r.err = "ParseError"
                \/ r.ok = TRUE /\ r.val \in InputMs
            BY <2>1, ScriptFromElemTyped
      <2>. QED  BY <1>2, <2>2, <2>3 DEF ResOK, PayToWitnessScriptHash, Classified,
                     InnerScript, InnerCov, NoChecks, FullKey, Ok, Err, Errors, Inners,
                     BitcoinKeys, ScriptTypes
<1>. QED  BY <1>1, <1>2

LEMMA PayToTaprootTyped ==
    ASSUME NEW pk \in SpkInputs, pk.t = "p2tr", NEW S, NEW W \in Seq(StackElems)
    PROVE  ResOK(PayToTaproot(pk, S, W))
<1>1. CASE S # <<>> \/ pk.out = BadKey \/ HasAnnex(W) \/ W = <<>>
      BY <1>1 DEF ResOK, PayToTaproot, Err, Errors
<1>2. CASE S = <<>> /\ pk.out # BadKey /\ ~HasAnnex(W) /\ W # <<>> /\ Len(W) = 1
      <2>1. XOnlyKey(pk.out) \in BitcoinKeys
            BY <1>2 DEF XOnlyKey, BitcoinKeys, XOutputKeys
      <2>. QED  BY <1>2, <2>1 DEF ResOK, PayToTaproot, Classified, InnerPublicKey, Ok,
                                 Inners, PubkeyTypes
<1>3. CASE S = <<>> /\ pk.out # BadKey /\ ~HasAnnex(W) /\ W # <<>> /\ Len(W) # 1
      <2>0. Len(W) \in Nat /\ Len(W) # 0 /\ Len(W) # 1
            BY <1>3, EmptySeq, LenProperties
      <2>1. Len(W) >= 2
            BY <2>0, SMTT(20)
      <2>2. Top(W) \in StackElems /\ Top(Pop(W)) \in StackElems
            BY <1>3, <2>1, TopTyped, Zenon
      <2>3. LET r == script_from_stack_elem("Tap", Top(Pop(W)))
            IN  \/ r.ok = FALSE /\ r.err = "ParseError"
                \/ r.ok = TRUE /\ r.val \in InputMs
            BY <2>2, ScriptFromElemTyped
      <2>4. ResOK(TapScriptSpend(pk.out, W))
            BY <2>3 DEF ResOK, TapScriptSpend, Classified, InnerScript, NoChecks, Ok, Err,
                        Errors, Inners, ScriptTypes
      <2>. QED  BY <1>3, <2>4 DEF PayToTaproot
<1>. QED  BY <1>1, <1>2, <1>3

LEMMA PayToScriptHashTyped ==
    ASSUME NEW pk, NEW S \in Seq(StackElems), NEW W \in Seq(StackElems)
    PROVE  ResOK(PayToScriptHash(pk, S, W))
<1>1. ASSUME NEW elem \in StackElems, NEW S1
      PROVE  ResOK(ShLegacy(pk, elem, S1, W))
      <2>1. LET r == script_from_stack_elem("Legacy", elem)
            IN  \/ r.ok = FALSE /\ r.err = "ParseError"
                \/ r.ok = TRUE /\ r.val \in InputMs
            BY ScriptFromElemTyped
      <2>. QED  BY <2>1 DEF ResOK, ShLegacy, Classified, InnerScript, NoChecks, Ok, Err,
                           Errors, Inners, ScriptTypes
<1>2. ASSUME NEW slice, NEW S1
      PROVE  ResOK(ShWrappedWpkh(slice, S1, W))
      <2>1. LET r == pk_from_stack_elem(Top(W), TRUE)
            IN  \/ r.ok = FALSE /\ r.err \in {"PubkeyParseError", "UncompressedPubkey"}
                \/ r.ok = TRUE /\ r.val \in FullKeys
            BY PkFromElemTyped
      <2>. QED  BY <2>1 DEF ResOK, ShWrappedWpkh, Classified, InnerPublicKey, FullKey, Ok,
                           Err, Errors, Inners, BitcoinKeys, PubkeyTypes
<1>3. ASSUME NEW slice, NEW S1
      PROVE  ResOK(ShWrappedWsh(slice, S1, W))
      <2>1. CASE W = <<>>
            BY <2>1 DEF ResOK, ShWrappedWsh, Err, Errors
      <2>2. CASE W # <<>>
            <3>1. Top(W) \in StackElems
                  BY <2>2, TopTyped, Zenon
            <3>2. LET r == script_from_stack_elem("Segwitv0", Top(W))
                  IN  \/ r.ok = FALSE /\ r.err = "ParseError"
                      \/ r.ok = TRUE /\ r.val \in InputMs
                  BY <3>1, ScriptFromElemTyped
            <3>. QED  BY <2>2, <3>2 DEF ResOK, ShWrappedWsh, Classified, InnerScript,
                                       NoChecks, Ok, Err, Errors, Inners, ScriptTypes
      <2>. QED  BY <2>1, <2>2
<1>4. CASE S = <<>>
      BY <1>4 DEF ResOK, PayToScriptHash, Err, Errors
<1>5. CASE S # <<>>
      <2>1. Top(S) \in StackElems
            BY <1>5, TopTyped, Zenon
      <2>. QED  BY <1>1, <1>2, <1>3, <1>5, <2>1 DEF ResOK, PayToScriptHash, Err, Errors
<1>. QED  BY <1>4, <1>5

LEMMA BareScriptTyped ==
    ASSUME NEW pk \in SpkInputs, NEW S, NEW W
    PROVE  ResOK(BareScript(pk, S, W))
<1>1. LET r == ParseInsane("Bare", pk)
      IN  \/ r.ok = FALSE /\ r.err = "ParseError"
          \/ r.ok = TRUE /\ r.val \in InputMs
      BY ParseInsaneTyped
<1>. QED  BY <1>1 DEF ResOK, BareScript, Classified, InnerScript, NoChecks, Ok, Err,
                     Errors, Inners, ScriptTypes

(* from_txdata on the inputs returns a typed result.                       *)
LEMMA FromTxdataTyped ==
    ASSUME NEW pk \in SpkInputs, NEW ssig \in ScriptSigInputs, NEW wit \in WitnessInputs
    PROVE  ResOK(from_txdata(pk, ssig, wit))
<1>1. CASE ~ScriptSigParses(ssig)
      BY <1>1 DEF from_txdata, ResOK, Err, Errors
<1>2. CASE ScriptSigParses(ssig)
      <2>. DEFINE S == ScriptSigStack(ssig)
                  W == WitnessStack(wit)
      <2>1. S \in Seq(StackElems) /\ W \in Seq(StackElems)
            BY <1>2, StacksTyped
      <2>2. /\ ResOK(PayToPubkey(pk, S, W))
            /\ ResOK(PayToPubkeyHash(pk, S, W))
            /\ ResOK(PayToWitnessPubkeyHash(pk, S, W))
            /\ ResOK(PayToWitnessScriptHash(pk, S, W))
            /\ pk.t = "p2tr" => ResOK(PayToTaproot(pk, S, W))
            /\ ResOK(PayToScriptHash(pk, S, W))
            /\ ResOK(BareScript(pk, S, W))
            BY <2>1, PayToPubkeyTyped, PayToPubkeyHashTyped, PayToWitnessPubkeyHashTyped,
               PayToWitnessScriptHashTyped, PayToTaprootTyped, PayToScriptHashTyped,
               BareScriptTyped
      <2>. QED  BY <1>2, <2>2 DEF from_txdata
<1>. QED  BY <1>1, <1>2

(* TypeOK for every instance: the inputs never change, and from_txdata      *)
(* returns only the errors the code names, or an Inner whose keys are full *)
(* keys or a taproot input's output key and whose scripts are ASTs parsed  *)
(* from the input bytes (NoChecks tagged with the key form).               *)
THEOREM TypeOKInvariant == Spec => []TypeOK
<1>1. IInv => TypeOK
      <2>. SUFFICES ASSUME IInv PROVE TypeOK
           OBVIOUS
      <2>1. ResOK(from_txdata(spk, scriptSig, witness))
            BY FromTxdataTyped DEF IInv
      <2>. QED  BY <2>1 DEF IInv, TypeOK, ResOK
<1>. QED  BY <1>1, IInvInductive, PTL

=============================================================================
