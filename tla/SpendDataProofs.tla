----------------------------- MODULE SpendDataProofs -----------------------------
(***************************************************************************)
(* SpendDataAccounted for every instance: Interpreter::from_txdata leaves  *)
(* on the returned stack exactly the spend data it did not consume, and   *)
(* requires the unused side to hold exactly what the shape allows.  The   *)
(* proof is one lemma per branch over arbitrary stacks S (the scriptSig)  *)
(* and W (the witness), on top of the inductive invariant IInv.           *)
(***************************************************************************)
EXTENDS InterpreterProofs, SequenceTheorems

\* a result that passes SpendDataAccounted for the stacks S and W
AccOK(r, S, W) ==
    r.ok = TRUE =>
        LET a == Accounting(r.val.inner)
        IN IF a.side = "scriptSig"
           THEN /\ Len(S) >= a.popped
                /\ r.val.stack = SubSeq(S, 1, Len(S) - a.popped)
                /\ Len(W) = a.other
           ELSE /\ Len(W) >= a.popped
                /\ r.val.stack = SubSeq(W, 1, Len(W) - a.popped)
                /\ Len(S) = a.other

(* Popping a stack is the prefix one or two shorter; the whole stack is    *)
(* its own prefix.                                                          *)
LEMMA PopPrefix ==
    ASSUME NEW T, NEW s \in Seq(T)
    PROVE  /\ Len(s) \in Nat
           /\ s = <<>> <=> Len(s) = 0
           /\ SubSeq(s, 1, Len(s)) = s
           /\ Len(s) >= 1 => /\ Pop(s) = SubSeq(s, 1, Len(s) - 1)
                             /\ Pop(s) \in Seq(T)
                             /\ Len(Pop(s)) = Len(s) - 1
           /\ Len(s) >= 2 => Pop(Pop(s)) = SubSeq(s, 1, Len(s) - 2)
<1>1. Len(s) \in Nat /\ (s = <<>> <=> Len(s) = 0)
      BY EmptySeq, LenProperties
<1>2. SubSeq(s, 1, Len(s)) = s
      BY SubSeqFull
<1>3. ASSUME Len(s) >= 1
      PROVE  /\ Pop(s) = SubSeq(s, 1, Len(s) - 1)
             /\ Pop(s) \in Seq(T)
             /\ Len(Pop(s)) = Len(s) - 1
      <2>1. \A i \in 1 .. Len(s) - 1 : s[i] \in T
            BY <1>1, LenProperties
      <2>2. /\ SubSeq(s, 1, Len(s) - 1) \in Seq(T)
            /\ Len(SubSeq(s, 1, Len(s) - 1)) = IF 1 <= Len(s) - 1 THEN Len(s) - 1 ELSE 0
            BY <1>1, <2>1, SubSeqProperties
      <2>3. (IF 1 <= Len(s) - 1 THEN Len(s) - 1 ELSE 0) = Len(s) - 1
            <3>1. ASSUME NEW x \in Nat, x >= 1 PROVE (IF 1 <= x - 1 THEN x - 1 ELSE 0) = x - 1
                  BY <3>1
            <3>. QED  BY <1>1, <1>3, <3>1, Zenon
      <2>4. Pop(s) = SubSeq(s, 1, Len(s) - 1)
            BY DEF Pop
      <2>. QED  BY <2>2, <2>3, <2>4, Zenon
<1>4. ASSUME Len(s) >= 2
      PROVE  Pop(Pop(s)) = SubSeq(s, 1, Len(s) - 2)
      <2>1. Pop(s) = SubSeq(s, 1, Len(s) - 1) /\ Len(Pop(s)) = Len(s) - 1
            BY <1>3, <1>4
      <2>2. SubSeq(SubSeq(s, 1, Len(s) - 1), 1, Len(s) - 2) = SubSeq(s, 1, Len(s) - 2)
            BY <1>1, <1>4, SubSeqOfSubSeq
      <2>. QED  BY <2>1, <2>2 DEF Pop
<1>. QED  BY <1>1, <1>2, <1>3, <1>4

(* How each Inner a branch returns is accounted.                          *)
LEMMA AccountingOf ==
    ASSUME NEW k, NEW m
    PROVE  /\ Accounting(InnerPublicKey(k, "Pk")) = [side |-> "scriptSig", popped |-> 0, other |-> 0]
           /\ Accounting(InnerPublicKey(k, "Pkh")) = [side |-> "scriptSig", popped |-> 1, other |-> 0]
           /\ Accounting(InnerPublicKey(k, "Wpkh")) = [side |-> "witness", popped |-> 1, other |-> 0]
           /\ Accounting(InnerPublicKey(k, "ShWpkh")) = [side |-> "witness", popped |-> 1, other |-> 1]
           /\ Accounting(InnerPublicKey(k, "Tr")) = [side |-> "witness", popped |-> 0, other |-> 0]
           /\ Accounting(InnerScript(m, "Bare")) = [side |-> "scriptSig", popped |-> 0, other |-> 0]
           /\ Accounting(InnerScript(m, "Sh")) = [side |-> "scriptSig", popped |-> 1, other |-> 0]
           /\ Accounting(InnerScript(m, "Wsh")) = [side |-> "witness", popped |-> 1, other |-> 0]
           /\ Accounting(InnerScript(m, "ShWsh")) = [side |-> "witness", popped |-> 1, other |-> 1]
           /\ Accounting(InnerScript(m, "Tr")) = [side |-> "witness", popped |-> 2, other |-> 0]
           /\ Accounting(InnerCov(k, m)) = [side |-> "witness", popped |-> 1, other |-> 0]
BY DEF Accounting, InnerPublicKey, InnerScript, InnerCov

(* A classification whose stack and stack lengths match its accounting   *)
(* passes AccOK.                                                            *)
LEMMA ClassifiedAccounted ==
    ASSUME NEW inner, NEW stk, NEW code, NEW S, NEW W, NEW sd, NEW p, NEW o,
           Accounting(inner) = [side |-> sd, popped |-> p, other |-> o],
           sd = "scriptSig" => Len(S) >= p /\ stk = SubSeq(S, 1, Len(S) - p) /\ Len(W) = o,
           sd # "scriptSig" => Len(W) >= p /\ stk = SubSeq(W, 1, Len(W) - p) /\ Len(S) = o
    PROVE  AccOK(Classified(inner, stk, code), S, W)
BY DEF AccOK, Classified, Ok

(* A result that is not a classification passes AccOK.                    *)
LEMMA NotOkAccounted ==
    ASSUME NEW r, NEW S, NEW W, r.ok # TRUE
    PROVE  AccOK(r, S, W)
BY DEF AccOK

(* Per branch of from_txdata: the returned stack is the unconsumed data.   *)
LEMMA PayToWitnessPubkeyHashAccounted ==
    ASSUME NEW pk, NEW T, NEW S \in Seq(T), NEW W \in Seq(T)
    PROVE  AccOK(PayToWitnessPubkeyHash(pk, S, W), S, W)
<1>1. pk_from_stack_elem(Top(W), TRUE).ok \in BOOLEAN
      BY PkFromElemKey
<1>2. ASSUME S = <<>>, W # <<>>, NEW k, NEW c
      PROVE  AccOK(Classified(InnerPublicKey(k, "Wpkh"), Pop(W), c), S, W)
      <2>1. Len(S) = 0 /\ Len(W) >= 1 /\ Pop(W) = SubSeq(W, 1, Len(W) - 1)
            BY <1>2, PopPrefix
      <2>2. Accounting(InnerPublicKey(k, "Wpkh")) = [side |-> "witness", popped |-> 1, other |-> 0]
            BY AccountingOf
      <2>. QED  BY <2>1, <2>2, ClassifiedAccounted, Zenon
<1>. QED  BY <1>1, <1>2, NotOkAccounted DEF PayToWitnessPubkeyHash, Err

LEMMA PayToPubkeyAccounted ==
    ASSUME NEW pk, NEW T, NEW S \in Seq(T), NEW W \in Seq(T)
    PROVE  AccOK(PayToPubkey(pk, S, W), S, W)
<1>1. pk_from_slice(KeyBytes(pk.key), FALSE).ok \in BOOLEAN
      BY PkFromSliceKey
<1>2. ASSUME W = <<>>, NEW k, NEW c
      PROVE  AccOK(Classified(InnerPublicKey(k, "Pk"), S, c), S, W)
      <2>1. Len(W) = 0 /\ Len(S) >= 0 /\ S = SubSeq(S, 1, Len(S) - 0)
            BY <1>2, PopPrefix
      <2>2. Accounting(InnerPublicKey(k, "Pk")) = [side |-> "scriptSig", popped |-> 0, other |-> 0]
            BY AccountingOf
      <2>. QED  BY <2>1, <2>2, ClassifiedAccounted, Zenon
<1>. QED  BY <1>1, <1>2, NotOkAccounted DEF PayToPubkey, Err

LEMMA PayToPubkeyHashAccounted ==
    ASSUME NEW pk, NEW T, NEW S \in Seq(T), NEW W \in Seq(T)
    PROVE  AccOK(PayToPubkeyHash(pk, S, W), S, W)
<1>1. pk_from_stack_elem(Top(S), FALSE).ok \in BOOLEAN
      BY PkFromElemKey
<1>2. ASSUME W = <<>>, S # <<>>, NEW k, NEW c
      PROVE  AccOK(Classified(InnerPublicKey(k, "Pkh"), Pop(S), c), S, W)
      <2>1. Len(W) = 0 /\ Len(S) >= 1 /\ Pop(S) = SubSeq(S, 1, Len(S) - 1)
            BY <1>2, PopPrefix
      <2>2. Accounting(InnerPublicKey(k, "Pkh")) = [side |-> "scriptSig", popped |-> 1, other |-> 0]
            BY AccountingOf
      <2>. QED  BY <2>1, <2>2, ClassifiedAccounted, Zenon
<1>. QED  BY <1>1, <1>2, NotOkAccounted DEF PayToPubkeyHash, Err

LEMMA PayToWitnessScriptHashAccounted ==
    ASSUME NEW pk, NEW T, NEW S \in Seq(T), NEW W \in Seq(T)
    PROVE  AccOK(PayToWitnessScriptHash(pk, S, W), S, W)
<1>1. /\ cov_components_from_stackelem(Top(W)).ok \in BOOLEAN
      /\ script_from_stack_elem("Segwitv0", Top(W)).ok \in BOOLEAN
      BY CovComponentsValid, ScriptFromElemValid
<1>2. ASSUME S = <<>>, W # <<>>
      PROVE  Len(S) = 0 /\ Len(W) >= 1 /\ Pop(W) = SubSeq(W, 1, Len(W) - 1)
      BY <1>2, PopPrefix
<1>3. ASSUME S = <<>>, W # <<>>, NEW k, NEW m, NEW c
      PROVE  AccOK(Classified(InnerCov(k, m), Pop(W), c), S, W)
      <2>1. Accounting(InnerCov(k, m)) = [side |-> "witness", popped |-> 1, other |-> 0]
            BY AccountingOf
      <2>. QED  BY <1>2, <1>3, <2>1, ClassifiedAccounted, Zenon
<1>4. ASSUME S = <<>>, W # <<>>, NEW m, NEW c
      PROVE  AccOK(Classified(InnerScript(m, "Wsh"), Pop(W), c), S, W)
      <2>1. Accounting(InnerScript(m, "Wsh")) = [side |-> "witness", popped |-> 1, other |-> 0]
            BY AccountingOf
      <2>. QED  BY <1>2, <1>4, <2>1, ClassifiedAccounted, Zenon
<1>. QED  BY <1>1, <1>3, <1>4, NotOkAccounted DEF PayToWitnessScriptHash, Err

LEMMA PayToTaprootAccounted ==
    ASSUME NEW pk, NEW T, NEW S \in Seq(T), NEW W \in Seq(T)
    PROVE  AccOK(PayToTaproot(pk, S, W), S, W)
<1>1. ASSUME S = <<>>, W # <<>>, Len(W) = 1, NEW k, NEW c
      PROVE  AccOK(Classified(InnerPublicKey(k, "Tr"), W, c), S, W)
      <2>1. Len(S) = 0 /\ Len(W) >= 0 /\ W = SubSeq(W, 1, Len(W) - 0)
            BY <1>1, PopPrefix
      <2>2. Accounting(InnerPublicKey(k, "Tr")) = [side |-> "witness", popped |-> 0, other |-> 0]
            BY AccountingOf
      <2>. QED  BY <2>1, <2>2, ClassifiedAccounted, Zenon
<1>2. ASSUME S = <<>>, W # <<>>, Len(W) # 1
      PROVE  AccOK(TapScriptSpend(pk.out, W), S, W)
      <2>1. script_from_stack_elem("Tap", Top(Pop(W))).ok \in BOOLEAN
            BY ScriptFromElemValid
      <2>2. ASSUME NEW m, NEW c
            PROVE  AccOK(Classified(InnerScript(m, "Tr"), Pop(Pop(W)), c), S, W)
            <3>a. /\ Len(W) \in Nat /\ (W = <<>> <=> Len(W) = 0)
                  /\ Len(S) \in Nat /\ (S = <<>> <=> Len(S) = 0)
                  BY PopPrefix
            <3>b. ASSUME NEW x \in Nat, x # 0, x # 1 PROVE x >= 2
                  BY <3>b
            <3>0. Len(S) = 0 /\ Len(W) >= 2
                  BY <1>2, <3>a, <3>b, Zenon
            <3>1. Len(S) = 0 /\ Len(W) >= 2 /\ Pop(Pop(W)) = SubSeq(W, 1, Len(W) - 2)
                  BY <3>0, PopPrefix
            <3>2. Accounting(InnerScript(m, "Tr")) = [side |-> "witness", popped |-> 2, other |-> 0]
                  BY AccountingOf
            <3>. QED  BY <3>1, <3>2, ClassifiedAccounted, Zenon
      <2>. QED  BY <2>1, <2>2, NotOkAccounted DEF TapScriptSpend, Err
<1>. QED  BY <1>1, <1>2, NotOkAccounted DEF PayToTaproot, Err

LEMMA PayToScriptHashAccounted ==
    ASSUME NEW pk, NEW T, NEW S \in Seq(T), NEW W \in Seq(T)
    PROVE  AccOK(PayToScriptHash(pk, S, W), S, W)
<1>1. ASSUME S # <<>>
      PROVE  /\ Len(S) >= 1 /\ Pop(S) = SubSeq(S, 1, Len(S) - 1)
             /\ Len(Pop(S)) = Len(S) - 1 /\ Len(W) \in Nat /\ (W = <<>> <=> Len(W) = 0)
             /\ (Len(W) >= 1 => Pop(W) = SubSeq(W, 1, Len(W) - 1))
             /\ Pop(S) \in Seq(T)
      BY <1>1, PopPrefix
<1>2. ASSUME S # <<>>, NEW elem
      PROVE  AccOK(ShLegacy(pk, elem, Pop(S), W), S, W)
      <2>1. script_from_stack_elem("Legacy", elem).ok \in BOOLEAN
            BY ScriptFromElemValid
      <2>2. ASSUME W = <<>>, NEW m, NEW c
            PROVE  AccOK(Classified(InnerScript(m, "Sh"), Pop(S), c), S, W)
            <3>1. Len(W) = 0 /\ Len(S) >= 1 /\ Pop(S) = SubSeq(S, 1, Len(S) - 1)
                  BY <1>1, <1>2, <2>2
            <3>2. Accounting(InnerScript(m, "Sh")) = [side |-> "scriptSig", popped |-> 1, other |-> 0]
                  BY AccountingOf
            <3>. QED  BY <3>1, <3>2, ClassifiedAccounted, Zenon
      <2>. QED  BY <2>1, <2>2, NotOkAccounted DEF ShLegacy, Err
<1>3. ASSUME S # <<>>, NEW slice
      PROVE  AccOK(ShWrappedWpkh(slice, Pop(S), W), S, W)
      <2>1. pk_from_stack_elem(Top(W), TRUE).ok \in BOOLEAN
            BY PkFromElemKey
      <2>2. ASSUME W # <<>>, Pop(S) = <<>>, NEW k, NEW c
            PROVE  AccOK(Classified(InnerPublicKey(k, "ShWpkh"), Pop(W), c), S, W)
            <3>1. Len(S) = 1 /\ Len(W) >= 1 /\ Pop(W) = SubSeq(W, 1, Len(W) - 1)
                  BY <1>1, <1>3, <2>2, EmptySeq
            <3>2. Accounting(InnerPublicKey(k, "ShWpkh")) = [side |-> "witness", popped |-> 1, other |-> 1]
                  BY AccountingOf
            <3>. QED  BY <3>1, <3>2, ClassifiedAccounted, Zenon
      <2>. QED  BY <2>1, <2>2, NotOkAccounted DEF ShWrappedWpkh, Err
<1>4. ASSUME S # <<>>, NEW slice
      PROVE  AccOK(ShWrappedWsh(slice, Pop(S), W), S, W)
      <2>1. script_from_stack_elem("Segwitv0", Top(W)).ok \in BOOLEAN
            BY ScriptFromElemValid
      <2>2. ASSUME W # <<>>, Pop(S) = <<>>, NEW m, NEW c
            PROVE  AccOK(Classified(InnerScript(m, "ShWsh"), Pop(W), c), S, W)
            <3>1. Len(S) = 1 /\ Len(W) >= 1 /\ Pop(W) = SubSeq(W, 1, Len(W) - 1)
                  BY <1>1, <1>4, <2>2, EmptySeq
            <3>2. Accounting(InnerScript(m, "ShWsh")) = [side |-> "witness", popped |-> 1, other |-> 1]
                  BY AccountingOf
            <3>. QED  BY <3>1, <3>2, ClassifiedAccounted, Zenon
      <2>. QED  BY <2>1, <2>2, NotOkAccounted DEF ShWrappedWsh, Err
<1>. QED  BY <1>2, <1>3, <1>4, NotOkAccounted DEF PayToScriptHash, Err

LEMMA BareScriptAccounted ==
    ASSUME NEW pk, NEW T, NEW S \in Seq(T), NEW W \in Seq(T)
    PROVE  AccOK(BareScript(pk, S, W), S, W)
<1>1. ParseInsane("Bare", pk).ok \in BOOLEAN
      BY DEF ParseInsane, Ok, Err
<1>2. ASSUME W = <<>>, NEW m, NEW c
      PROVE  AccOK(Classified(InnerScript(m, "Bare"), S, c), S, W)
      <2>1. Len(W) = 0 /\ Len(S) >= 0 /\ S = SubSeq(S, 1, Len(S) - 0)
            BY <1>2, PopPrefix
      <2>2. Accounting(InnerScript(m, "Bare")) = [side |-> "scriptSig", popped |-> 0, other |-> 0]
            BY AccountingOf
      <2>. QED  BY <2>1, <2>2, ClassifiedAccounted, Zenon
<1>. QED  BY <1>1, <1>2, NotOkAccounted DEF BareScript, Err

(* The stacks from_txdata builds are sequences as long as their inputs.   *)
LEMMA StacksOfInputs ==
    ASSUME NEW X, NEW ssig \in Seq(X), NEW wit \in Seq(X)
    PROVE  /\ ScriptSigStack(ssig) \in Seq({ScriptSigStack(ssig)[i] : i \in 1..Len(ssig)})
           /\ Len(ScriptSigStack(ssig)) = Len(ssig)
           /\ WitnessStack(wit) \in Seq({WitnessStack(wit)[i] : i \in 1..Len(wit)})
           /\ Len(WitnessStack(wit)) = Len(wit)
<1>1. Len(ssig) \in Nat /\ Len(wit) \in Nat
      BY LenProperties
<1>. QED  BY <1>1 DEF ScriptSigStack, WitnessStack

(* from_txdata as a whole: each output shape goes to its branch.           *)
LEMMA FromTxdataAccounted ==
    ASSUME NEW pk, NEW X, NEW ssig \in Seq(X), NEW wit \in Seq(X)
    PROVE  AccOK(from_txdata(pk, ssig, wit), ScriptSigStack(ssig), WitnessStack(wit))
<1>. DEFINE S == ScriptSigStack(ssig)
            W == WitnessStack(wit)
            TS == {S[i] : i \in 1..Len(ssig)}
            TW == {W[i] : i \in 1..Len(wit)}
<1>1. S \in Seq(TS \cup TW) /\ W \in Seq(TS \cup TW)
      <2>1. S \in Seq(TS) /\ W \in Seq(TW)
            BY StacksOfInputs
      <2>. QED  BY <2>1, SeqMonotonic
<1>2. CASE ~ScriptSigParses(ssig)
      BY <1>2, NotOkAccounted DEF from_txdata, Err
<1>3. CASE ScriptSigParses(ssig)
      <2>1. CASE pk.t = "p2pk"
            BY <1>1, <1>3, <2>1, PayToPubkeyAccounted DEF from_txdata
      <2>2. CASE pk.t = "p2pkh"
            BY <1>1, <1>3, <2>2, PayToPubkeyHashAccounted DEF from_txdata
      <2>3. CASE pk.t = "p2wpkh"
            BY <1>1, <1>3, <2>3, PayToWitnessPubkeyHashAccounted DEF from_txdata
      <2>4. CASE pk.t = "p2wsh"
            BY <1>1, <1>3, <2>4, PayToWitnessScriptHashAccounted DEF from_txdata
      <2>5. CASE pk.t = "p2tr"
            BY <1>1, <1>3, <2>5, PayToTaprootAccounted DEF from_txdata
      <2>6. CASE pk.t = "p2sh"
            BY <1>1, <1>3, <2>6, PayToScriptHashAccounted DEF from_txdata
      <2>7. CASE pk.t \notin {"p2pk", "p2pkh", "p2wpkh", "p2wsh", "p2tr", "p2sh"}
            BY <1>1, <1>3, <2>7, BareScriptAccounted DEF from_txdata
      <2>. QED  BY <2>1, <2>2, <2>3, <2>4, <2>5, <2>6, <2>7
<1>. QED  BY <1>2, <1>3

(* SpendDataAccounted for every instance: whenever from_txdata classifies *)
(* a spend, the stack it returns is the input stack of the spend's side    *)
(* minus exactly the elements the spend type consumes, and the other side  *)
(* holds exactly what the shape allows, whatever scriptSig and witness the *)
(* spender supplies.                                                       *)
THEOREM SpendDataAccountedInvariant == Spec => []SpendDataAccounted
<1>1. IInv => SpendDataAccounted
      <2>. SUFFICES ASSUME IInv PROVE SpendDataAccounted
           OBVIOUS
      <2>. DEFINE X == StackItems \cup {OP_1, OP_OTHER}
      <2>1. scriptSig \in Seq(X) /\ witness \in Seq(X)
            <3>1. witness \in Seq(StackItems)
                  BY InputAssumption DEF IInv
            <3>. QED  BY <3>1, InputAssumption, SeqMonotonic DEF IInv
      <2>2. Len(ScriptSigStack(scriptSig)) = Len(scriptSig)
            /\ Len(WitnessStack(witness)) = Len(witness)
            BY <2>1, StacksOfInputs
      <2>3. CASE res = Pending
            BY <2>3 DEF SpendDataAccounted, Pending
      <2>4. CASE res = from_txdata(spk, scriptSig, witness)
            <3>1. AccOK(res, ScriptSigStack(scriptSig), WitnessStack(witness))
                  BY <2>1, <2>4, FromTxdataAccounted
            <3>. QED  BY <2>2, <3>1 DEF AccOK, SpendDataAccounted
      <2>. QED  BY <2>3, <2>4 DEF IInv
<1>. QED  BY <1>1, IInvInductive, PTL

=============================================================================
