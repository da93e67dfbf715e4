--------------------------- MODULE CovenantProofs ---------------------------
(***************************************************************************)
(* Proofs about the covenant descriptor of Covenant: its type invariant    *)
(* and that the interpreter, given the spend get_satisfaction built,       *)
(* recovers the covenant and the stack layout the preamble reads, for      *)
(* every set of keys, miniscripts, sighash types and inner witnesses.      *)
(***************************************************************************)
EXTENDS Covenant, InterpreterProofs, SequenceTheorems

\* a covenant descriptor the program can hold: new() and from_str check the
\* key and that the miniscript is a valid Segwitv0 one
ValidCov(d) == d \in Descs /\ MsValid(d.ms, "Segwitv0")

\* the spend get_satisfaction(d, s) returned
Spent(d, s) ==
    /\ s \in Satisfiers
    /\ get_satisfaction(d, s).ok = TRUE
    /\ spk = script_pubkey(d)
    /\ scriptSig = <<>>
    /\ witness = get_satisfaction(d, s).val

(* The inductive invariant: the type invariant; a held descriptor is      *)
(* valid; nothing is classified before a spend is built; a built spend is *)
(* the one get_satisfaction returned for the held descriptor and the      *)
(* satisfier recorded; and the result, once there, is from_txdata of it.  *)
CIInv ==
    /\ CovTypeOK
    /\ desc = NoDesc \/ ValidCov(desc)
    /\ spk = NoSpk => res = Pending
    /\ spk # NoSpk => desc # NoDesc /\ Spent(desc, sat)
    /\ res \in {Pending, from_txdata(spk, scriptSig, witness)}

(***************************************************************************)
(* The witness stack.                                                      *)
(***************************************************************************)
\* the eleven sighash items satisfy pushes after the covenant signature
CovItems(g) == [i \in 1..Len(WitnessOrder) |-> ItemBytes(WitnessOrder[i], g)]

(* The witness stack of a witness is a sequence of the stack elements of  *)
(* its items, one per item.                                                *)
LEMMA WitnessStackSeq ==
    ASSUME NEW T, NEW V \in Seq(T)
    PROVE  /\ WitnessStack(V) \in Seq({ElementFrom(u) : u \in T})
           /\ Len(WitnessStack(V)) = Len(V)
           /\ \A i \in 1..Len(V) : WitnessStack(V)[i] = ElementFrom(V[i])
BY DEF WitnessStack

(* The top of the witness stack is its last item, and popping it leaves   *)
(* the stack of the items before it.                                       *)
LEMMA WitnessStackAppend ==
    ASSUME NEW T, NEW V \in Seq(T), NEW x
    PROVE  /\ WitnessStack(V \o <<x>>) # <<>>
           /\ Top(WitnessStack(V \o <<x>>)) = ElementFrom(x)
           /\ Pop(WitnessStack(V \o <<x>>)) = WitnessStack(V)
<1>. DEFINE U == T \cup {x}
            E == {ElementFrom(u) : u \in U}
<1>1. V \in Seq(U) /\ <<x>> \in Seq(U)
      OBVIOUS
<1>2. /\ V \o <<x>> \in Seq(U)
      /\ Len(V \o <<x>>) = Len(V) + 1
      /\ \A i \in 1 .. Len(V) + 1 : (V \o <<x>>)[i] = IF i <= Len(V) THEN V[i] ELSE x
      BY <1>1, ConcatProperties
<1>3. /\ WitnessStack(V \o <<x>>) \in Seq(E)
      /\ Len(WitnessStack(V \o <<x>>)) = Len(V) + 1
      /\ \A i \in 1..Len(V) + 1 : WitnessStack(V \o <<x>>)[i] = ElementFrom((V \o <<x>>)[i])
      BY <1>2, WitnessStackSeq
<1>4. /\ WitnessStack(V) \in Seq(E)
      /\ Len(WitnessStack(V)) = Len(V)
      /\ \A i \in 1..Len(V) : WitnessStack(V)[i] = ElementFrom(V[i])
      BY <1>1, WitnessStackSeq
<1>5. <<ElementFrom(x)>> \in Seq(E)
      OBVIOUS
<1>6. /\ WitnessStack(V) \o <<ElementFrom(x)>> \in Seq(E)
      /\ Len(WitnessStack(V) \o <<ElementFrom(x)>>) = Len(V) + 1
      /\ \A i \in 1 .. Len(V) + 1 : (WitnessStack(V) \o <<ElementFrom(x)>>)[i] =
             IF i <= Len(V) THEN WitnessStack(V)[i] ELSE ElementFrom(x)
      BY <1>4, <1>5, ConcatProperties
<1>7. \A i \in 1 .. Len(V) + 1 :
          WitnessStack(V \o <<x>>)[i] = (WitnessStack(V) \o <<ElementFrom(x)>>)[i]
      BY <1>2, <1>3, <1>4, <1>6
<1>8. WitnessStack(V \o <<x>>) = WitnessStack(V) \o <<ElementFrom(x)>>
      BY <1>3, <1>6, <1>7, SeqEqual
<1>. QED
     BY <1>4, <1>8, PopPushed

(* The stack of the witness satisfy builds, signature, sighash items and  *)
(* inner witness M, holds the signature first, the items in wire order    *)
(* after it, and the stack of M above them.                                *)
LEMMA CovStackLayout ==
    ASSUME NEW g, NEW T, NEW M \in Seq(T)
    PROVE  LET st == WitnessStack(<<CovSig(g)>> \o CovItems(g) \o M)
           IN /\ Len(st) = 1 + Len(WireOrder) + Len(M)
              /\ st[1] = Push(CovSig(g))
              /\ \A i \in 1..Len(WireOrder) : st[1 + i] = Push(ItemBytes(WireOrder[i], g))
              /\ SubSeq(st, 2 + Len(WireOrder), Len(st)) = WitnessStack(M)
<1>. DEFINE I  == CovItems(g)
            P  == <<CovSig(g)>> \o I
            V  == P \o M
            U  == T \cup {CovSig(g)} \cup {I[i] : i \in 1..11}
            E  == {ElementFrom(u) : u \in U}
            st == WitnessStack(V)
<1>0. Len(M) \in Nat
      BY LenProperties
<1>1. Len(WitnessOrder) = 11 /\ WireOrder = WitnessOrder
      BY DEF WitnessOrder, WireOrder
<1>2. /\ I \in Seq(U)
      /\ Len(I) = 11
      /\ \A i \in 1..11 : I[i] = ItemBytes(WitnessOrder[i], g)
      BY <1>1 DEF CovItems
<1>3. /\ P \in Seq(U)
      /\ Len(P) = 12
      /\ P[1] = CovSig(g)
      /\ \A i \in 1..11 : P[1 + i] = I[i]
      <2>1. <<CovSig(g)>> \in Seq(U) /\ Len(<<CovSig(g)>>) = 1 /\ <<CovSig(g)>>[1] = CovSig(g)
            OBVIOUS
      <2>2. /\ P \in Seq(U)
            /\ Len(P) = 1 + Len(I)
            /\ \A i \in 1 .. 1 + Len(I) : P[i] = IF i <= 1 THEN <<CovSig(g)>>[i] ELSE I[i - 1]
            <3>1. I \in Seq(U) /\ <<CovSig(g)>> \in Seq(U)
                  BY <1>2, <2>1
            <3>2. /\ P \in Seq(U)
                  /\ Len(P) = Len(<<CovSig(g)>>) + Len(I)
                  /\ \A i \in 1 .. Len(<<CovSig(g)>>) + Len(I) :
                        P[i] = IF i <= Len(<<CovSig(g)>>) THEN <<CovSig(g)>>[i]
                               ELSE I[i - Len(<<CovSig(g)>>)]
                  BY <3>1, ConcatProperties, Zenon DEF P
            <3>. QED
                 BY <3>2, <2>1
      <2>. QED
           BY <1>2, <2>1, <2>2
<1>4. /\ V \in Seq(U)
      /\ Len(V) = 12 + Len(M)
      /\ \A i \in 1 .. 12 + Len(M) : V[i] = IF i <= 12 THEN P[i] ELSE M[i - 12]
      <2>1. M \in Seq(U)
            OBVIOUS
      <2>. QED
           BY <1>3, <2>1, ConcatProperties
<1>5. /\ Len(st) = 12 + Len(M)
      /\ \A i \in 1..12 + Len(M) : st[i] = ElementFrom(V[i])
      BY <1>4, WitnessStackSeq
<1>10. st \in Seq(E)
      BY <1>4, WitnessStackSeq
<1>6. /\ ElementFrom(CovSig(g)) = Push(CovSig(g))
      /\ \A n : ElementFrom(ItemBytes(n, g)) = Push(ItemBytes(n, g))
      BY DEF ElementFrom, OneByte, EmptyBytes, CovSig, ItemBytes
<1>7. st[1] = Push(CovSig(g))
      <2>1. V[1] = CovSig(g)
            BY <1>3, <1>4
      <2>2. st[1] = ElementFrom(V[1])
            BY <1>0, <1>5
      <2>. QED
           BY <2>1, <2>2, <1>6
<1>8. \A i \in 1..Len(WireOrder) : st[1 + i] = Push(ItemBytes(WireOrder[i], g))
      <2>. SUFFICES ASSUME NEW i \in 1..11
                    PROVE  st[1 + i] = Push(ItemBytes(WitnessOrder[i], g))
           BY <1>1
      <2>1. V[1 + i] = ItemBytes(WitnessOrder[i], g)
            BY <1>2, <1>3, <1>4
      <2>2. 1 + i \in 1 .. 12 + Len(M)
            BY <1>0
      <2>3. st[1 + i] = ElementFrom(V[1 + i])
            BY <2>2, <1>5
      <2>. QED
           BY <2>1, <2>3, <1>6
<1>9. SubSeq(st, 2 + Len(WireOrder), Len(st)) = WitnessStack(M)
      <2>. DEFINE Sub == SubSeq(st, 13, 12 + Len(M))
      <2>1. \A i \in 13 .. 12 + Len(M) : st[i] \in E
            BY <1>5, <1>10, ElementOfSeq
      <2>2. /\ Sub \in Seq(E)
            /\ Len(Sub) = Len(M)
            /\ \A i \in 1 .. Len(M) : Sub[i] = st[12 + i]
            BY <2>1, SubSeqProperties
      <2>3. /\ WitnessStack(M) \in Seq(E)
            /\ Len(WitnessStack(M)) = Len(M)
            /\ \A i \in 1..Len(M) : WitnessStack(M)[i] = ElementFrom(M[i])
            <3>1. M \in Seq(U)
                  OBVIOUS
            <3>. QED
                 BY <3>1, WitnessStackSeq
      <2>4. \A i \in 1 .. Len(M) : Sub[i] = WitnessStack(M)[i]
            <3>. SUFFICES ASSUME NEW i \in 1 .. Len(M)
                          PROVE  Sub[i] = WitnessStack(M)[i]
                 OBVIOUS
            <3>1. 12 + i \in 1 .. 12 + Len(M) /\ ~(12 + i <= 12) /\ (12 + i) - 12 = i
                  BY <1>0
            <3>2. V[12 + i] = M[i]
                  BY <3>1, <1>4
            <3>3. st[12 + i] = ElementFrom(V[12 + i])
                  BY <3>1, <1>5
            <3>. QED
                 BY <2>2, <2>3, <3>2, <3>3
      <2>5. Sub = WitnessStack(M)
            BY <2>2, <2>3, <2>4, SeqEqual
      <2>6. 2 + Len(WireOrder) = 13
            BY DEF WireOrder
      <2>7. Len(st) = 12 + Len(M)
            BY <1>5
      <2>. QED
           BY <2>5, <2>6, <2>7
<1>11. Len(WireOrder) = 11
       BY DEF WireOrder
<1>12. WitnessStack(<<CovSig(g)>> \o CovItems(g) \o M) = st
       OBVIOUS
<1>13. Len(st) = 1 + Len(WireOrder) + Len(M)
       BY <1>0, <1>5, <1>11
<1>. QED
     BY <1>7, <1>8, <1>9, <1>12, <1>13, Zenon

(* When get_satisfaction succeeds, the satisfier held a signature whose   *)
(* hash type is its sighash item's, and the witness is the signature, the *)
(* sighash items, the inner witness and the explicit script, in order.    *)
LEMMA GetSatisfactionOk ==
    ASSUME NEW d, NEW s \in Satisfiers, get_satisfaction(d, s).ok = TRUE
    PROVE  /\ s.sighashTy = s.sig
           /\ get_satisfaction(d, s).val =
                 (<<CovSig(s.sig)>> \o CovItems(s.sig) \o s.msWit) \o <<explicit_script(d)>>
<1>1. satisfy(d, s).ok = TRUE
      BY DEF get_satisfaction, Ok
<1>. DEFINE missing == {i \in 1..Len(SighashItems) : SighashItems[i] \notin s.has}
<1>2. missing = {}
      BY <1>1 DEF satisfy
<1>3. s.sig # "none"
      BY <1>1, <1>2 DEF satisfy, Err
<1>4. s.sighashTy = s.sig
      BY <1>1, <1>2, <1>3 DEF satisfy, Err
<1>5. s.msOk
      BY <1>1, <1>2, <1>3, <1>4 DEF satisfy, Err
<1>6. satisfy(d, s) =
         Ok(<<CovSig(s.sig)>>
            \o [i \in 1..Len(WitnessOrder) |-> ItemBytes(WitnessOrder[i], s.sighashTy)]
            \o s.msWit)
      BY <1>2, <1>3, <1>4, <1>5 DEF satisfy
<1>8. CovItems(s.sig) =
         [i \in 1..Len(WitnessOrder) |-> ItemBytes(WitnessOrder[i], s.sighashTy)]
      BY <1>4 DEF CovItems
<1>7. get_satisfaction(d, s) = Ok(satisfy(d, s).val \o <<explicit_script(d)>>)
      BY <1>1 DEF get_satisfaction
<1>9. satisfy(d, s).val = <<CovSig(s.sig)>> \o CovItems(s.sig) \o s.msWit
      BY <1>6, <1>8 DEF Ok
<1>10. get_satisfaction(d, s).val = satisfy(d, s).val \o <<explicit_script(d)>>
       BY <1>7 DEF Ok
<1>. QED
     BY <1>4, <1>9, <1>10, Zenon

(* from_txdata on the output of a valid covenant descriptor, an empty     *)
(* scriptSig and a witness whose last item is the descriptor's explicit   *)
(* script takes the covenant branch of the p2wsh case: it recovers the    *)
(* key and miniscript, pops the script and signs the post-codeseparator   *)
(* script.                                                                 *)
LEMMA CovClassified ==
    ASSUME NEW d, ValidCov(d), NEW T, NEW V \in Seq(T)
    PROVE  from_txdata(script_pubkey(d), <<>>, V \o <<explicit_script(d)>>) =
             Classified(InnerCov(FullKey(d.pk), NoChecks(d.ms, "full")),
                        WitnessStack(V), PostCodesepScript)
<1>. DEFINE E    == explicit_script(d)
            W    == WitnessStack(V \o <<E>>)
            spkd == script_pubkey(d)
            cov  == cov_components_from_stackelem(Top(W))
<1>1. W # <<>> /\ Top(W) = ElementFrom(E) /\ Pop(W) = WitnessStack(V)
      BY WitnessStackAppend
<1>2. ElementFrom(E) = Push(E)
      BY DEF ElementFrom, OneByte, EmptyBytes, explicit_script, CovScriptBytes, Push
<1>3. cov = Ok([pk |-> d.pk, ms |-> d.ms])
      BY <1>1, <1>2 DEF cov_components_from_stackelem, Push, explicit_script,
                        CovScriptBytes, ValidCov, Descs
<1>4. ScriptSigParses(<<>>) /\ ScriptSigStack(<<>>) = <<>>
      BY DEF ScriptSigParses, ScriptSigStack
<1>5. spkd.t = "p2wsh"
      BY DEF script_pubkey, P2wsh
<1>6. from_txdata(spkd, <<>>, V \o <<E>>) = PayToWitnessScriptHash(spkd, <<>>, W)
      BY <1>4, <1>5 DEF from_txdata
<1>7. cov.ok = TRUE =>
         PayToWitnessScriptHash(spkd, <<>>, W) =
           Classified(InnerCov(FullKey(cov.val.pk), NoChecks(cov.val.ms, "full")),
                      Pop(W), PostCodesepScript)
      BY <1>1 DEF PayToWitnessScriptHash
<1>8. cov.ok = TRUE /\ cov.val.pk = d.pk /\ cov.val.ms = d.ms
      BY <1>3 DEF Ok
<1>. QED
     BY <1>1, <1>6, <1>7, <1>8

\* CovSpendRecovered for the result r of classifying the spend of d with s
Recovered(r, d, s) ==
    r.ok = TRUE =>
        LET st == r.val.stack
        IN /\ r.val.inner = InnerCov(FullKey(d.pk), NoChecks(d.ms, "full"))
           /\ r.val.code = PostCodesepScript
           /\ Len(st) >= 1 + Len(WireOrder)
           /\ st[1] = Push(CovSig(s.sig))
           /\ \A i \in 1..Len(WireOrder) : st[1 + i] = Push(ItemBytes(WireOrder[i], s.sig))
           /\ SubSeq(st, 2 + Len(WireOrder), Len(st)) = WitnessStack(s.msWit)

(* The interpreter, given the spend get_satisfaction built for a valid    *)
(* covenant descriptor, accepts it and recovers the covenant and the      *)
(* stack layout the preamble reads.                                        *)
LEMMA CovSpend ==
    ASSUME NEW d, ValidCov(d), NEW s \in Satisfiers, get_satisfaction(d, s).ok = TRUE
    PROVE  LET r == from_txdata(script_pubkey(d), <<>>, get_satisfaction(d, s).val)
           IN r.ok = TRUE /\ Recovered(r, d, s)
<1>. DEFINE g == s.sig
            M == s.msWit
            X == {M[i] : i \in DOMAIN M}
            U == X \cup {CovSig(g)} \cup {CovItems(g)[i] : i \in 1..11}
            V == <<CovSig(g)>> \o CovItems(g) \o M
            r == from_txdata(script_pubkey(d), <<>>, get_satisfaction(d, s).val)
<1>1. M \in Seq(X)
      BY CovWitAssumption DEF Satisfiers
<1>2. V \in Seq(U)
      <2>1. CovItems(g) \in Seq(U) /\ <<CovSig(g)>> \in Seq(U) /\ M \in Seq(U)
            BY <1>1 DEF CovItems, WitnessOrder
      <2>2. <<CovSig(g)>> \o CovItems(g) \in Seq(U)
            BY <2>1, ConcatProperties
      <2>. QED
           BY <2>1, <2>2, ConcatProperties
<1>3. get_satisfaction(d, s).val = V \o <<explicit_script(d)>>
      BY GetSatisfactionOk
<1>4. r = Classified(InnerCov(FullKey(d.pk), NoChecks(d.ms, "full")),
                     WitnessStack(V), PostCodesepScript)
      BY <1>2, <1>3, CovClassified
<1>5. LET st == WitnessStack(V)
      IN /\ Len(st) = 1 + Len(WireOrder) + Len(M)
         /\ st[1] = Push(CovSig(g))
         /\ \A i \in 1..Len(WireOrder) : st[1 + i] = Push(ItemBytes(WireOrder[i], g))
         /\ SubSeq(st, 2 + Len(WireOrder), Len(st)) = WitnessStack(M)
      BY <1>1, CovStackLayout
<1>6. Len(M) \in Nat
      BY <1>1, LenProperties
<1>7. r.ok = TRUE /\ r.val.stack = WitnessStack(V) /\ r.val.code = PostCodesepScript
      /\ r.val.inner = InnerCov(FullKey(d.pk), NoChecks(d.ms, "full"))
      BY <1>4 DEF Classified, Ok
<1>8. Len(WitnessStack(V)) >= 1 + Len(WireOrder)
      <2>1. Len(WireOrder) = 11
            BY DEF WireOrder
      <2>. QED
           BY <1>5, <1>6, <2>1
<1>. QED
     BY <1>5, <1>7, <1>8, Zenon DEF Recovered

(***************************************************************************)
(* Construction and satisfaction results.                                  *)
(***************************************************************************)
\* a construction either builds a valid descriptor or returns a typed error
BuiltOK(r) ==
    \/ r.ok = TRUE /\ ValidCov(r.val)
    \/ r.ok = FALSE /\ r.err \in CovErrors

(* new() on a key and a valid Segwitv0 miniscript builds that descriptor  *)
(* or fails with one of its limit errors.                                  *)
LEMMA NewBuilt ==
    ASSUME NEW pk \in FullKeys, NEW ms \in CovMs, MsValid(ms, "Segwitv0")
    PROVE  BuiltOK(new(pk, ms))
<1>1. new(pk, ms) \in {Err("ImpossibleSatisfaction"), Err("ScriptSizeTooLarge"),
                       Ok([pk |-> pk, ms |-> ms])}
      BY DEF new
<1>. QED
     BY <1>1 DEF BuiltOK, Ok, Err, CovErrors, ValidCov, Descs

(* from_str builds a valid descriptor or fails with a typed error.         *)
LEMMA FromTreeBuilt ==
    ASSUME NEW name, NEW pk \in FullKeys \cup {BadKey}, NEW ms \in CovMs
    PROVE  BuiltOK(from_tree(name, pk, ms))
<1>1. \/ from_tree(name, pk, ms) \in {Err("Unexpected"), Err("KeyParse"), Err("MiniscriptParse")}
      \/ /\ from_tree(name, pk, ms) = Ok([pk |-> pk, ms |-> ms])
         /\ pk \in FullKeys
         /\ MsValid(ms, "Segwitv0")
      BY DEF from_tree, MsFromTree
<1>. QED
     BY <1>1 DEF BuiltOK, Ok, Err, CovErrors, ValidCov, Descs

(* parse_insane of a script builds a valid descriptor or fails with a     *)
(* typed error.                                                            *)
LEMMA ParseInsaneBuilt ==
    ASSUME NEW d \in {CovScriptBytes(pk, ms) : pk \in FullKeys \cup {BadKey}, ms \in CovMs}
                     \cup {JunkBytes}
    PROVE  BuiltOK(parse_insane(d))
<1>1. CASE d.t # "cov" \/ d.pk \notin FullKeys \/ ~MsValid(d.ms, "Segwitv0")
      <2>1. parse_insane(d) \in {Err("BadCovDescriptor"), Err("ParseError")}
            BY <1>1 DEF parse_insane
      <2>. QED
           BY <2>1 DEF BuiltOK, Err, CovErrors
<1>2. CASE d.t = "cov" /\ d.pk \in FullKeys /\ MsValid(d.ms, "Segwitv0")
      <2>1. d.ms \in CovMs
            BY <1>2 DEF CovScriptBytes, JunkBytes
      <2>2. parse_insane(d) = new(d.pk, d.ms)
            BY <1>2 DEF parse_insane
      <2>. QED
           BY <1>2, <2>1, <2>2, NewBuilt
<1>. QED
     BY <1>1, <1>2

(* get_satisfaction either succeeds or fails with a typed error.           *)
LEMMA GetSatisfactionResult ==
    ASSUME NEW d, NEW s
    PROVE  \/ get_satisfaction(d, s).ok = TRUE
           \/ get_satisfaction(d, s).ok = FALSE /\ get_satisfaction(d, s).err \in CovErrors
<1>. DEFINE missing == {i \in 1..Len(SighashItems) : SighashItems[i] \notin s.has}
<1>1. \/ satisfy(d, s).ok = TRUE
      \/ satisfy(d, s).ok = FALSE /\ satisfy(d, s).err \in CovErrors
      <2>1. CASE missing # {}
            <3>1. satisfy(d, s).ok = FALSE /\ satisfy(d, s).err = "MissingSighashItem"
                  BY <2>1 DEF satisfy
            <3>. QED
                 BY <3>1 DEF CovErrors
      <2>2. CASE missing = {}
            <3>1. \/ \E e \in {"MissingCovSignature", "CovenantSighashTypeMismatch",
                                  "CouldNotSatisfy"} : satisfy(d, s) = Err(e)
                  \/ satisfy(d, s).ok = TRUE
                  BY <2>2 DEF satisfy, Ok
            <3>. QED
                 BY <3>1 DEF Err, CovErrors
      <2>. QED
           BY <2>1, <2>2
<1>. QED
     BY <1>1 DEF get_satisfaction, Ok

(***************************************************************************)
(* The inductive invariant.                                                *)
(***************************************************************************)
(* The initial state satisfies CIInv.                                      *)
LEMMA CIInit ==
    CovInit => CIInv
BY DEF CovInit, CIInv, CovTypeOK, NoErr, NoDesc, NoSat, NoFek

(* A construction, taken when no descriptor is held, keeps CIInv when it  *)
(* builds a valid descriptor or returns a typed error.                     *)
LEMMA CIBuilt ==
    ASSUME CIInv, desc = NoDesc, NEW r, BuiltOK(r), Built(r),
           UNCHANGED <<sat, fek, spk, scriptSig, witness, res>>
    PROVE  CIInv'
<1>1. spk = NoSpk /\ res = Pending
      BY DEF CIInv
<1>2. CASE r.ok = TRUE
      <2>1. desc' = r.val /\ err' = NoErr /\ ValidCov(desc')
            BY <1>2 DEF Built, BuiltOK
      <2>. QED
           BY <1>1, <2>1 DEF CIInv, CovTypeOK, ValidCov
<1>3. CASE r.ok = FALSE
      <2>1. desc' = NoDesc /\ err' = r /\ r.err \in CovErrors
            BY <1>3 DEF Built, BuiltOK
      <2>. QED
           BY <1>1, <1>3, <2>1 DEF CIInv, CovTypeOK
<1>. QED
     BY <1>2, <1>3 DEF BuiltOK

(* get_satisfaction keeps CIInv: on success the spend it records is the   *)
(* one it returned for the held descriptor and the satisfier, on an error *)
(* only the error and the satisfier change.                                *)
LEMMA CIGetSatisfaction ==
    ASSUME CIInv, GetSatisfaction
    PROVE  CIInv'
<1>1. PICK s \in Satisfiers :
         LET w == get_satisfaction(desc, s)
         IN /\ sat' = s
            /\ IF w.ok
               THEN /\ spk' = script_pubkey(desc)
                    /\ scriptSig' = <<>>
                    /\ witness' = w.val
                    /\ err' = NoErr
               ELSE /\ err' = w
                    /\ UNCHANGED <<spk, scriptSig, witness>>
      BY DEF GetSatisfaction
<1>. DEFINE w == get_satisfaction(desc, s)
<1>2. /\ desc \in Descs /\ ValidCov(desc)
      /\ spk = NoSpk /\ res = Pending
      /\ UNCHANGED <<desc, fek, res>>
      BY DEF GetSatisfaction, CIInv, CovTypeOK, ValidCov, NoDesc, Descs
<1>3. CASE w.ok = TRUE
      <2>1. /\ sat' = s /\ spk' = script_pubkey(desc) /\ scriptSig' = <<>>
            /\ witness' = w.val /\ err' = NoErr
            BY <1>1, <1>3
      <2>2. script_pubkey(desc) # NoSpk
            BY DEF script_pubkey, P2wsh, NoSpk
      <2>3. Spent(desc, sat)'
            BY <1>2, <1>3, <2>1 DEF Spent
      <2>4. desc' # NoDesc /\ spk' \in {script_pubkey(d) : d \in Descs}
            BY <1>2, <2>1 DEF Descs, NoDesc
      <2>5. CovTypeOK'
            BY <1>2, <2>1, <2>4 DEF CIInv, CovTypeOK
      <2>. QED
           BY <1>2, <2>1, <2>2, <2>3, <2>4, <2>5 DEF CIInv
<1>4. CASE w.ok # TRUE
      <2>1. w.ok = FALSE /\ w.err \in CovErrors
            BY <1>4, GetSatisfactionResult
      <2>2. sat' = s /\ err' = w /\ UNCHANGED <<spk, scriptSig, witness>>
            BY <1>1, <2>1
      <2>. QED
           BY <1>2, <2>1, <2>2 DEF CIInv, CovTypeOK
<1>. QED
     BY <1>3, <1>4

(* Classifying the recorded spend keeps CIInv: its result is from_txdata *)
(* of the spend, which CovSpend shows is accepted.                         *)
LEMMA CIClassifySpend ==
    ASSUME CIInv, ClassifySpend
    PROVE  CIInv'
<1>1. /\ spk # NoSpk /\ res = Pending
      /\ res' = from_txdata(spk, scriptSig, witness)
      /\ UNCHANGED <<spk, scriptSig, witness, desc, err, sat, fek>>
      BY DEF ClassifySpend, Classify, covVars
<1>2. ValidCov(desc) /\ Spent(desc, sat)
      BY <1>1 DEF CIInv
<1>3. from_txdata(spk, scriptSig, witness).ok = TRUE
      BY <1>2, CovSpend DEF Spent
<1>4. Spent(desc, sat)'
      BY <1>1, <1>2 DEF Spent
<1>. QED
     BY <1>1, <1>2, <1>3, <1>4 DEF CIInv, CovTypeOK

(* CIInv holds in every state of the covenant descriptor's life.          *)
LEMMA CIInvInductive ==
    CovSpec => []CIInv
<1>1. CovInit => CIInv
      BY CIInit
<1>2. CIInv /\ [CovNext]_allVars => CIInv'
      <2>. SUFFICES ASSUME CIInv, [CovNext]_allVars
                    PROVE  CIInv'
           OBVIOUS
      <2>1. CASE New
            <3>1. PICK pk \in FullKeys, ms \in {m \in CovMs : MsValid(m, "Segwitv0")} :
                     Built(new(pk, ms))
                  BY <2>1 DEF New
            <3>2. BuiltOK(new(pk, ms))
                  BY NewBuilt
            <3>. QED
                 BY <2>1, <3>1, <3>2, CIBuilt DEF New
      <2>2. CASE FromTree
            <3>1. PICK name \in {"elcovwsh", "covwsh"}, pk \in FullKeys \cup {BadKey},
                       ms \in CovMs : Built(from_tree(name, pk, ms))
                  BY <2>2 DEF FromTree
            <3>2. BuiltOK(from_tree(name, pk, ms))
                  BY FromTreeBuilt
            <3>. QED
                 BY <2>2, <3>1, <3>2, CIBuilt DEF FromTree
      <2>3. CASE ParseInsaneScript
            <3>1. PICK d \in {CovScriptBytes(pk, ms) : pk \in FullKeys \cup {BadKey}, ms \in CovMs}
                             \cup {JunkBytes} :
                     Built(parse_insane(d))
                  BY <2>3 DEF ParseInsaneScript
            <3>2. BuiltOK(parse_insane(d))
                  BY ParseInsaneBuilt
            <3>. QED
                 BY <2>3, <3>1, <3>2, CIBuilt DEF ParseInsaneScript
      <2>4. CASE GetSatisfaction
            BY <2>4, CIGetSatisfaction
      <2>5. CASE ClassifySpend
            BY <2>5, CIClassifySpend
      <2>6. CASE ForEachKey
            <3>1. /\ desc # NoDesc
                  /\ fek' \in [pred : SUBSET FullKeys, ans : BOOLEAN]
                  /\ UNCHANGED <<desc, err, sat, spk, scriptSig, witness, res>>
                  BY <2>6 DEF ForEachKey, for_each_key
            <3>. QED
                 BY <3>1 DEF CIInv, CovTypeOK, Spent
      <2>7. CASE UNCHANGED allVars
            BY <2>7 DEF CIInv, CovTypeOK, Spent, allVars
      <2>. QED
           BY <2>1, <2>2, <2>3, <2>4, <2>5, <2>6, <2>7 DEF CovNext
<1>. QED
     BY <1>1, <1>2, PTL DEF CovSpec

(***************************************************************************)
(* The theorems.                                                           *)
(***************************************************************************)
(* CovTypeOK for every instance: the held descriptor, the error of the    *)
(* last construction or satisfaction, the satisfier, the for_each_key     *)
(* answer, the output and the interpreter's result keep their types       *)
(* whatever order new, from_str, parse_insane, get_satisfaction (with its *)
(* retries), the interpreter and for_each_key are called in.              *)
THEOREM CovTypeOKInvariant ==
    CovSpec => []CovTypeOK
BY CIInvInductive, PTL DEF CIInv

(* CovSpendRecovered for every instance: whenever the interpreter accepts *)
(* the spend get_satisfaction built (cov.rs satisfy, then inner.rs        *)
(* from_txdata on the p2wsh output), it recovers the covenant key and     *)
(* miniscript, signs the post-codeseparator script, and the stack holds   *)
(* the covenant signature, the eleven sighash items in wire order with    *)
(* the signature's hash type, then the inner witness.                     *)
THEOREM CovSpendRecoveredInvariant ==
    CovSpec => []CovSpendRecovered
<1>1. CIInv => CovSpendRecovered
      <2>. SUFFICES ASSUME CIInv, res.ok = TRUE
                    PROVE  Recovered(res, desc, sat)
           BY DEF CovSpendRecovered, Recovered
      <2>1. res # Pending
            BY DEF Pending
      <2>2. res = from_txdata(spk, scriptSig, witness) /\ spk # NoSpk
            BY <2>1 DEF CIInv
      <2>3. ValidCov(desc) /\ Spent(desc, sat)
            BY <2>2 DEF CIInv
      <2>. QED
           BY <2>2, <2>3, CovSpend DEF Spent
<1>. QED
     BY <1>1, CIInvInductive, PTL

(* new on a key and an inner miniscript o decides as the ceilings say,     *)
(* for any op count, free-verify flag and size the constants give o.       *)
LEMMA NewDecides ==
    ASSUME NEW pk, NEW o \in Opaque
    PROVE  LET r  == new(pk, MsOpaque(o))
               fv == IF FreeVerify[o] THEN 1 ELSE 0
           IN  /\ r.ok = WithinLimits(o)
               /\ ~r.ok => r.err = IF \/ OpsSat[o] = NoOpCount
                                      \/ OpsSat[o] + 24 - fv > MAX_OPS_PER_SCRIPT
                                   THEN "ImpossibleSatisfaction"
                                   ELSE "ScriptSizeTooLarge"
<1>1. /\ FreeVerify[o] \in BOOLEAN
      /\ ScriptSize[o] \in Nat
      /\ OpsSat[o] \in Nat \cup {NoOpCount}
      /\ NoOpCount \notin Nat
      BY CovAssumption
<1>2. MsOpaque(o).id = o
      BY DEF MsOpaque
<1>. QED  BY <1>1, <1>2 DEF new, WithinLimits, Ok, Err, MAX_OPS_PER_SCRIPT, MAX_SCRIPT_SIZE

(* NewEnforcesLimits for every instance: whichever constructor built the   *)
(* covenant the program holds, CovenantDescriptor::new accepts it exactly  *)
(* when it is within the 201-op and 10000-byte ceilings, and otherwise     *)
(* names the ceiling it breaks, the op count first.                        *)
THEOREM NewEnforcesLimitsInvariant ==
    CovSpec => []NewEnforcesLimits
<1>1. CovTypeOK => NewEnforcesLimits
      <2>. SUFFICES ASSUME CovTypeOK, desc # NoDesc
                    PROVE  NewEnforcesLimits
           BY DEF NewEnforcesLimits
      <2>1. PICK pk \in FullKeys, o \in Opaque : desc = [pk |-> pk, ms |-> MsOpaque(o)]
            BY DEF CovTypeOK, Descs, CovMs
      <2>2. desc.ms = MsOpaque(o) /\ desc.ms.id = o
            BY <2>1 DEF MsOpaque
      <2>. QED  BY <2>1, <2>2, NewDecides DEF NewEnforcesLimits
<1>. QED  BY <1>1, CovTypeOKInvariant, PTL

=============================================================================
