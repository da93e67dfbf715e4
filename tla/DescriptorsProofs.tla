-------------------------- MODULE DescriptorsProofs --------------------------
(***************************************************************************)
(* Proofs about the Bare and Pkh descriptors of Descriptors, for every     *)
(* value of the constants: what the constructors and parsers may hold      *)
(* (DescTypeOK), that a descriptor's Display parses back to it with its    *)
(* own parser (ParsedBack), and that the honest spend get_satisfaction     *)
(* builds is accepted by Interpreter::from_txdata with the descriptor's    *)
(* own script code (HonestSpendAccepted, SighashCodeAgrees).               *)
(*                                                                         *)
(* A descriptor is built once (every constructor is guarded by desc =      *)
(* NoDesc) and everything after it (the text, its reparse, the spend and   *)
(* its classification) is a function of it, so the inductive invariant     *)
(* DIInv records each of those as that function; the theorems then reduce *)
(* to facts about the parsers, the satisfier and from_txdata.             *)
(***************************************************************************)
EXTENDS Descriptors, InterpreterProofs, SequenceTheorems

\* the descriptors a Bare or Pkh constructor, or a parser, may return
ValidDesc(d) ==
    /\ d \in Descs
    /\ d.kind = "Bare" => MsValid(d.ms, "Bare")

\* the scriptSig an honest satisfier produces for d
HonestScriptSig(d, ssig) ==
    \E s \in Satisfiers : get_satisfaction(d, s).ok = TRUE /\ ssig = get_satisfaction(d, s).val

(* The inductive invariant: the descriptor is one a constructor returns,   *)
(* the text is its Display, the reparse is a parser applied to the text,   *)
(* the spend is its script_pubkey with an honest scriptSig and no witness, *)
(* and the result is Pending or from_txdata of the spend.                  *)
DIInv ==
    /\ desc = NoDesc \/ ValidDesc(desc)
    /\ text # NoText => desc.kind \in Spendable /\ text = to_string(desc)
    /\ parsed # NoParse =>
          /\ text # NoText
          /\ parsed.by \in Parsers
          /\ parsed.r = Parse(parsed.by, text)
    /\ spk = NoSpk => res = Pending
    /\ spk # NoSpk =>
          /\ desc.kind \in Spendable
          /\ spk = script_pubkey(desc)
          /\ HonestScriptSig(desc, scriptSig)
    /\ witness = <<>>
    /\ res \in {Pending, from_txdata(spk, scriptSig, witness)}

\* a constructor's or parser's result: Ok of a valid descriptor, or an error
ResultValid(r) == r.ok \in BOOLEAN /\ (r.ok = TRUE => ValidDesc(r.val))

\* the argument lists of the descriptor strings the parsers are given
ArgLists == {<<>>} \cup {<<a>> : a \in ArgTexts}

(* Bare::new returns a valid descriptor for each miniscript the text of a  *)
(* key, a key hash or an opaque script parses to.                          *)
LEMMA BareNewValid ==
    ASSUME NEW ms \in {PkK(k) : k \in FullKeys \cup XKeys} \cup
                      {PkH(PubkeyHash(k)) : k \in FullKeys} \cup {MsOpaque(o) : o \in Opaque}
    PROVE  ResultValid(BareNew(ms))
<1>1. CASE MsValid(ms, "Bare")
      <2>1. ms \in DescMs
            BY <1>1, KeyAssumption DEF MsValid, PkK, PkH, MsOpaque, DescMs
      <2>. QED  BY <1>1, <2>1 DEF ResultValid, BareNew, Ok, ValidDesc, Descs, BareDesc
<1>2. CASE ~MsValid(ms, "Bare")
      BY <1>2 DEF ResultValid, BareNew, Err
<1>. QED  BY <1>1, <1>2

(* The miniscript parser, on the argument list of a descriptor string,     *)
(* returns the miniscript of a key, a key hash or an opaque script.        *)
LEMMA MsFromTreeOf ==
    ASSUME NEW tr, tr.args \in ArgLists
    PROVE  LET r == MsFromTree(tr)
           IN  /\ r.ok \in BOOLEAN
               /\ r.ok = TRUE =>
                     r.val \in {PkK(k) : k \in FullKeys \cup XKeys} \cup
                               {PkH(PubkeyHash(k)) : k \in FullKeys} \cup
                               {MsOpaque(o) : o \in Opaque}
<1>1. CASE tr.args = <<>>
      BY <1>1 DEF MsFromTree, Err
<1>2. CASE tr.args # <<>>
      <2>1. PICK a \in ArgTexts : tr.args = <<a>>
            BY <1>2 DEF ArgLists
      <2>. QED  BY <2>1 DEF MsFromTree, Ok, Err, ArgTexts, KeyText, HashText, OpaqueText
<1>. QED  BY <1>1, <1>2

LEMMA BareFromTreeValid ==
    ASSUME NEW tr, tr.args \in ArgLists, tr.name.el \in Nat
    PROVE  ResultValid(BareFromTree(tr))
<1>. DEFINE sub == MsFromTree(Tree(Name(tr.name.el - 1, tr.name.base), tr.args))
<1>1. Tree(Name(tr.name.el - 1, tr.name.base), tr.args).args \in ArgLists
      BY DEF Tree
<1>2. sub.ok \in BOOLEAN /\ (sub.ok = TRUE =>
          sub.val \in {PkK(k) : k \in FullKeys \cup XKeys} \cup
                      {PkH(PubkeyHash(k)) : k \in FullKeys} \cup {MsOpaque(o) : o \in Opaque})
      BY <1>1, MsFromTreeOf
<1>3. sub.ok = TRUE => ResultValid(BareNew(sub.val))
      BY <1>2, BareNewValid
<1>. QED  BY <1>2, <1>3 DEF BareFromTree, ResultValid, Err

LEMMA PkhFromTreeValid ==
    ASSUME NEW tr
    PROVE  ResultValid(PkhFromTree(tr))
BY DEF PkhFromTree, ResultValid, Ok, Err, ValidDesc, Descs, PkhDesc

LEMMA PreTaprootFromTreeValid ==
    ASSUME NEW tr, tr.args \in ArgLists, tr.name.el \in Nat
    PROVE  ResultValid(PreTaprootFromTree(tr))
<1>. DEFINE un == tr.name.el = 0 /\ Len(tr.args) = 1
<1>1. CASE un /\ tr.name.base = "pkh"
      BY <1>1, PkhFromTreeValid DEF PreTaprootFromTree
<1>2. CASE un /\ tr.name.base \in {"wpkh", "sh", "wsh"}
      BY <1>2 DEF PreTaprootFromTree, ResultValid, Ok, ValidDesc, Descs, Delegated
<1>3. CASE ~(un /\ tr.name.base = "pkh") /\ ~(un /\ tr.name.base \in {"wpkh", "sh", "wsh"})
      BY <1>3, BareFromTreeValid DEF PreTaprootFromTree
<1>. QED  BY <1>1, <1>2, <1>3

(* Every parser, on every descriptor string it may be given, returns a     *)
(* valid descriptor or an error (a panic is not Ok either).                *)
LEMMA ParseValid ==
    ASSUME NEW by \in Parsers, NEW t \in TextInputs
    PROVE  ResultValid(Parse(by, t))
<1>1. /\ t.tree.args \in ArgLists
      /\ t.tree.name.el \in 0..1
      /\ t.ck \in {"ok", "bad"}
      BY DEF TextInputs, Text, Tree, Name, ArgLists
<1>2. CASE t.ck = "bad"
      <2>1. ~verify_checksum(t).ok /\ ResultValid(verify_checksum(t))
            BY <1>2 DEF verify_checksum, ResultValid, Err
      <2>. QED  BY <2>1 DEF Parse, Parsers, PreTaprootFromStr, BareFromStr, PkhFromStr
<1>3. CASE t.ck = "ok"
      <2>1. verify_checksum(t) = Ok(t.tree)
            BY <1>3 DEF verify_checksum
      <2>2. ResultValid(PreTaprootFromStr(t))
            BY <1>1, <2>1, PreTaprootFromTreeValid DEF PreTaprootFromStr, Ok
      <2>3. ResultValid(PkhFromStr(t))
            BY <2>1, PkhFromTreeValid DEF PkhFromStr, Ok
      <2>4. ResultValid(BareFromStr(t))
            <3>. DEFINE n == t.tree.name
                        tr == Tree(IF n.el > 0 THEN Name(n.el - 1, n.base) ELSE Name(0, Garbled),
                                   t.tree.args)
            <3>1. tr.args \in ArgLists /\ tr.name.el \in Nat
                  BY <1>1 DEF Tree, Name
            <3>2. ResultValid(BareFromTree(tr))
                  BY <3>1, BareFromTreeValid
            <3>3. ResultValid(Panicked)
                  BY DEF ResultValid, Panicked
            <3>. QED  BY <2>1, <3>2, <3>3 DEF BareFromStr, Ok
      <2>. QED  BY <2>2, <2>3, <2>4 DEF Parse, Parsers
<1>. QED  BY <1>1, <1>2, <1>3

(* The Display of a Bare descriptor parses back to it through              *)
(* PreTaprootDescriptor::from_str, of a Pkh descriptor through             *)
(* Pkh::from_str: the round trip of each fragment a Bare may hold.         *)
LEMMA RoundTrip ==
    ASSUME NEW d, ValidDesc(d), d.kind \in Spendable
    PROVE  Parse(OwnParser[d.kind], to_string(d)) = Ok(d)
<1>1. CASE d.kind = "Pkh"
      <2>1. PICK k \in FullKeys : d = PkhDesc(k)
            BY <1>1 DEF ValidDesc, Descs, BareDesc, PkhDesc, Delegated
      <2>2. to_string(d) = Text(Tree(Name(1, "pkh"), <<KeyText(k)>>), "ok")
            BY <2>1 DEF to_string, PkhDesc
      <2>3. verify_checksum(to_string(d)) = Ok(Tree(Name(1, "pkh"), <<KeyText(k)>>))
            BY <2>2 DEF verify_checksum, Text
      <2>4. PkhFromTree(Tree(Name(1, "pkh"), <<KeyText(k)>>)) = Ok(d)
            BY <2>1 DEF PkhFromTree, Tree, KeyText
      <2>5. PkhFromStr(to_string(d)) = Ok(d)
            BY <2>3, <2>4 DEF PkhFromStr, Ok
      <2>. QED  BY <1>1, <2>5 DEF Parse, OwnParser
<1>2. CASE d.kind = "Bare"
      <2>1. PICK ms \in DescMs : d = BareDesc(ms)
            BY <1>2 DEF ValidDesc, Descs, BareDesc, PkhDesc, Delegated
      <2>2. MsValid(ms, "Bare")
            BY <1>2, <2>1 DEF ValidDesc, BareDesc
      \* the tree of the Display: the fragment's tree with one "el" more
      <2>3. to_string(d) = Text(Tree(Name(1, MsDisplay(ms).name.base), MsDisplay(ms).args), "ok")
            BY <2>1 DEF to_string, BareDesc, MsDisplay, Tree, Name
      <2>4. MsFromTree(Tree(Name(0, MsDisplay(ms).name.base), MsDisplay(ms).args)) = Ok(ms)
            <3>1. CASE \E k \in FullKeys : ms = PkK(k)
                  <4>1. PICK k \in FullKeys : ms = PkK(k)
                        BY <3>1
                  <4>2. MsDisplay(ms) = Tree(Name(0, "pk"), <<KeyText(k)>>)
                        BY <4>1 DEF MsDisplay, PkK
                  <4>3. MsFromTree(Tree(Name(0, "pk"), <<KeyText(k)>>)) = Ok(PkK(k))
                        BY DEF MsFromTree, Tree, Name, KeyText
                  <4>. QED  BY <4>1, <4>2, <4>3 DEF Tree, Name
            <3>2. CASE \E k \in FullKeys : ms = PkH(PubkeyHash(k))
                  <4>1. PICK k \in FullKeys : ms = PkH(PubkeyHash(k))
                        BY <3>2
                  <4>2. MsDisplay(ms) = Tree(Name(0, "pkh"), <<HashText(PubkeyHash(k))>>)
                        BY <4>1 DEF MsDisplay, PkH
                  <4>3. MsFromTree(Tree(Name(0, "pkh"), <<HashText(PubkeyHash(k))>>)) = Ok(PkH(PubkeyHash(k)))
                        BY DEF MsFromTree, Tree, Name, HashText
                  <4>. QED  BY <4>1, <4>2, <4>3 DEF Tree, Name
            <3>3. CASE \E o \in Opaque : ms = MsOpaque(o)
                  <4>1. PICK o \in Opaque : ms = MsOpaque(o)
                        BY <3>3
                  <4>2. MsDisplay(ms) = Tree(Name(0, "ms"), <<OpaqueText(o)>>)
                        BY <4>1 DEF MsDisplay, MsOpaque
                  <4>3. MsFromTree(Tree(Name(0, "ms"), <<OpaqueText(o)>>)) = Ok(MsOpaque(o))
                        BY DEF MsFromTree, Tree, Name, OpaqueText
                  <4>. QED  BY <4>1, <4>2, <4>3 DEF Tree, Name
            <3>. QED  BY <3>1, <3>2, <3>3 DEF DescMs
      <2>5. BareFromTree(Tree(Name(1, MsDisplay(ms).name.base), MsDisplay(ms).args)) = Ok(d)
            <3>1. BareNew(ms) = Ok(d)
                  BY <2>1, <2>2 DEF BareNew
            <3>. DEFINE tr == Tree(Name(1, MsDisplay(ms).name.base), MsDisplay(ms).args)
            <3>2. tr.name.el = 1
                  BY DEF Tree, Name
            <3>3. Tree(Name(tr.name.el - 1, tr.name.base), tr.args)
                    = Tree(Name(0, MsDisplay(ms).name.base), MsDisplay(ms).args)
                  BY <3>2 DEF Tree, Name
            <3>4. MsFromTree(Tree(Name(tr.name.el - 1, tr.name.base), tr.args)) = Ok(ms)
                  BY <2>4, <3>3
            <3>. DEFINE sub == MsFromTree(Tree(Name(tr.name.el - 1, tr.name.base), tr.args))
            <3>6. sub.ok = TRUE /\ sub.val = ms
                  BY <3>4 DEF Ok
            <3>8. ~(tr.name.el = 0)
                  BY <3>2
            <3>7. BareFromTree(tr) = IF ~sub.ok THEN sub ELSE BareNew(sub.val)
                  BY <3>8, Zenon DEF BareFromTree
            <3>5. BareFromTree(tr) = BareNew(ms)
                  BY <3>6, <3>7, Zenon
            <3>. QED  BY <3>1, <3>5
      <2>6. PreTaprootFromTree(Tree(Name(1, MsDisplay(ms).name.base), MsDisplay(ms).args)) = Ok(d)
            <3>1. Name(1, MsDisplay(ms).name.base).el # 0
                  BY DEF Name
            <3>. QED  BY <2>5, <3>1 DEF PreTaprootFromTree, Tree
      <2>. QED  BY <1>2, <2>3, <2>6 DEF Parse, OwnParser, PreTaprootFromStr, verify_checksum,
                                       Text, Ok
<1>. QED  BY <1>1, <1>2 DEF Spendable

\* what HonestSpendAccepted and SighashCodeAgrees require of the result r
\* of classifying the honest spend of d
HonestOK(r, d) ==
    /\ r.ok = TRUE
    /\ SpendOf(r.val.inner, d)
    /\ r.val.inner.kind = "PublicKey" => r.val.stack = <<Push(SigBytes)>>
    /\ r.val.code = script_code(d)
    /\ r.val.inner.kind = "Script" => Encode(r.val.inner.ms.ms) = explicit_script(d)

(* The p2pkh branch on a non-empty scriptSig stack whose top is the key   *)
(* the output's hash commits to.                                           *)
LEMMA PkhBranch ==
    ASSUME NEW k, NEW pk, NEW T, T # <<>>, pk_from_stack_elem(Top(T), FALSE) = Ok(k),
           pk = P2pkh(PubkeyHash(k))
    PROVE  PayToPubkeyHash(pk, T, <<>>)
             = Classified(InnerPublicKey(FullKey(k), "Pkh"), Pop(T), pk)
<1>1. PayToPubkeyHash(pk, T, <<>>)
        = LET r == pk_from_stack_elem(Top(T), FALSE)
          IN  IF ~r.ok THEN r
              ELSE IF pk = P2pkh(PubkeyHash(r.val))
                   THEN Classified(InnerPublicKey(FullKey(r.val), "Pkh"), Pop(T), pk)
                   ELSE Err("IncorrectPubkeyHash")
      BY DEF PayToPubkeyHash
<1>2. Ok(k).ok = TRUE /\ Ok(k).val = k
      BY DEF Ok
<1>. QED  BY <1>1, <1>2

(* A p2pkh output spent with <sig> <key> for the key whose hash it holds   *)
(* is a Pkh key spend of that key, leaving the signature.                  *)
LEMMA PkhKeySpend ==
    ASSUME NEW k \in FullKeys
    PROVE  from_txdata(P2pkh(PubkeyHash(k)), <<SigBytes, KeyBytes(k)>>, <<>>)
             = Classified(InnerPublicKey(FullKey(k), "Pkh"), <<Push(SigBytes)>>,
                          P2pkh(PubkeyHash(k)))
<1>. DEFINE Stk == <<Push(SigBytes), Push(KeyBytes(k))>>
<1>0. /\ ElementFromInstruction(SigBytes) = Ok(Push(SigBytes))
      /\ ElementFromInstruction(KeyBytes(k)) = Ok(Push(KeyBytes(k)))
      BY DEF ElementFromInstruction, MinimalPush, ElementFrom, SigBytes, KeyBytes, OP_1,
             OP_OTHER, OneByte, EmptyBytes
<1>1. ScriptSigParses(<<SigBytes, KeyBytes(k)>>)
      BY <1>0 DEF ScriptSigParses, Ok
<1>2. ScriptSigStack(<<SigBytes, KeyBytes(k)>>) = Stk
      BY <1>0 DEF ScriptSigStack, Ok
<1>3. WitnessStack(<<>>) = <<>>
      BY DEF WitnessStack
<1>4. Top(Stk) = Push(KeyBytes(k)) /\ Pop(Stk) = <<Push(SigBytes)>> /\ Stk # <<>>
      <2>1. Stk = <<Push(SigBytes)>> \o <<Push(KeyBytes(k))>>
            OBVIOUS
      <2>2. <<Push(SigBytes)>> \in Seq({Push(SigBytes)})
            OBVIOUS
      <2>. QED  BY <2>1, <2>2, PopPushed
<1>5. pk_from_stack_elem(Push(KeyBytes(k)), FALSE) = Ok(k)
      BY DEF pk_from_stack_elem, pk_from_slice, Push, KeyBytes
<1>6. PayToPubkeyHash(P2pkh(PubkeyHash(k)), Stk, <<>>)
        = Classified(InnerPublicKey(FullKey(k), "Pkh"), <<Push(SigBytes)>>, P2pkh(PubkeyHash(k)))
      BY <1>4, <1>5, PkhBranch
<1>. QED  BY <1>1, <1>2, <1>3, <1>6 DEF from_txdata, P2pkh

(* A p2pk output spent with <sig> is a Pk key spend of its key, leaving    *)
(* the signature.                                                          *)
LEMMA PkKeySpend ==
    ASSUME NEW k \in FullKeys
    PROVE  from_txdata(P2pk(k), <<SigBytes>>, <<>>)
             = Classified(InnerPublicKey(FullKey(k), "Pk"), <<Push(SigBytes)>>, P2pk(k))
<1>0. ElementFromInstruction(SigBytes) = Ok(Push(SigBytes))
      BY DEF ElementFromInstruction, MinimalPush, ElementFrom, SigBytes, OP_1, OP_OTHER,
             OneByte, EmptyBytes
<1>1. ScriptSigParses(<<SigBytes>>)
      BY <1>0 DEF ScriptSigParses, Ok
<1>2. ScriptSigStack(<<SigBytes>>) = <<Push(SigBytes)>>
      BY <1>0 DEF ScriptSigStack, Ok
<1>3. WitnessStack(<<>>) = <<>>
      BY DEF WitnessStack
<1>4. pk_from_slice(KeyBytes(P2pk(k).key), FALSE) = Ok(k)
      BY DEF pk_from_slice, KeyBytes, P2pk
<1>5. PayToPubkey(P2pk(k), <<Push(SigBytes)>>, <<>>)
        = Classified(InnerPublicKey(FullKey(k), "Pk"), <<Push(SigBytes)>>, P2pk(k))
      <2>1. PayToPubkey(P2pk(k), <<Push(SigBytes)>>, <<>>)
              = LET r == pk_from_slice(KeyBytes(P2pk(k).key), FALSE)
                IN  IF ~r.ok THEN r
                    ELSE Classified(InnerPublicKey(FullKey(r.val), "Pk"), <<Push(SigBytes)>>,
                                    P2pk(k))
            BY DEF PayToPubkey
      <2>2. Ok(k).ok = TRUE /\ Ok(k).val = k
            BY DEF Ok
      <2>. QED  BY <1>4, <2>1, <2>2
<1>. QED  BY <1>1, <1>2, <1>3, <1>5 DEF from_txdata, P2pk

(* A bare output of an opaque script valid in BareCtx, spent with the      *)
(* scriptSig of a satisfier's witness, is a Bare script spend of it.       *)
LEMMA OpaqueScriptSpend ==
    ASSUME NEW o \in Opaque, MsValid(MsOpaque(o), "Bare"), NEW w \in OpaqueWits
    PROVE  LET ssig == witness_to_scriptsig(w)
           IN  from_txdata(MsScript(MsOpaque(o)), ssig, <<>>)
                 = Classified(InnerScript(NoChecks(MsOpaque(o), "full"), "Bare"),
                              ScriptSigStack(ssig), MsScript(MsOpaque(o)))
<1>. DEFINE ssig == witness_to_scriptsig(w)
            spk0 == MsScript(MsOpaque(o))
<1>1. ScriptSigParses(ssig)
      <2>1. \A i \in 1 .. Len(w) : w[i] # OP_OTHER
            <3>. DEFINE X == {w[i] : i \in DOMAIN w} \ {OP_1, OP_OTHER}
            <3>1. w \in Seq(X)
                  BY DescWitAssumption
            <3>2. \A i \in 1 .. Len(w) : w[i] \in X
                  BY <3>1, ElementOfSeq
            <3>. QED  BY <3>2
      <2>2. ASSUME NEW x, x # OP_OTHER
            PROVE  ElementFromInstruction(IF x = OneByte THEN OP_1 ELSE x).ok
            BY <2>2 DEF ElementFromInstruction, MinimalPush, Ok, OP_1, OP_OTHER, OneByte
      <2>3. Len(w) \in Nat
            BY DescWitAssumption, LenProperties
      <2>4. Len(ssig) = Len(w) /\ \A i \in 1 .. Len(w) :
                ssig[i] = IF w[i] = OneByte THEN OP_1 ELSE w[i]
            BY <2>3 DEF witness_to_scriptsig
      <2>. QED  BY <2>1, <2>2, <2>4 DEF ScriptSigParses
<1>2. WitnessStack(<<>>) = <<>>
      BY DEF WitnessStack
<1>3. ParseInsane("Bare", spk0) = Ok(MsOpaque(o))
      BY DEF ParseInsane, MsScript, MsOpaque
<1>4. BareScript(spk0, ScriptSigStack(ssig), <<>>)
        = Classified(InnerScript(NoChecks(MsOpaque(o), "full"), "Bare"), ScriptSigStack(ssig), spk0)
      <2>1. BareScript(spk0, ScriptSigStack(ssig), <<>>)
              = LET r == ParseInsane("Bare", spk0)
                IN  IF ~r.ok THEN r
                    ELSE Classified(InnerScript(NoChecks(r.val, "full"), "Bare"),
                                    ScriptSigStack(ssig), spk0)
            BY DEF BareScript
      <2>2. Ok(MsOpaque(o)).ok = TRUE /\ Ok(MsOpaque(o)).val = MsOpaque(o)
            BY DEF Ok
      <2>. QED  BY <1>3, <2>1, <2>2
<1>5. spk0.t = "ms"
      BY DEF MsScript
<1>. QED  BY <1>1, <1>2, <1>4, <1>5 DEF from_txdata

(* The honest spend of each descriptor is classified as a spend of it, for *)
(* every satisfier that can satisfy it: one case per shape of descriptor.  *)
LEMMA HonestSpend ==
    ASSUME NEW d, ValidDesc(d), d.kind \in Spendable,
           NEW s \in Satisfiers, get_satisfaction(d, s).ok = TRUE
    PROVE  HonestOK(from_txdata(script_pubkey(d), get_satisfaction(d, s).val, <<>>), d)
<1>1. CASE d.kind = "Pkh"
      <2>1. PICK k \in FullKeys : d = PkhDesc(k)
            BY <1>1 DEF ValidDesc, Descs, BareDesc, PkhDesc, Delegated
      <2>2. get_satisfaction(d, s).val = <<SigBytes, KeyBytes(k)>>
            BY <1>1, <2>1 DEF get_satisfaction, PkhSatisfaction, PkhDesc, Ok, Err
      <2>3. script_pubkey(d) = P2pkh(PubkeyHash(k)) /\ script_code(d) = P2pkh(PubkeyHash(k))
            BY <1>1, <2>1 DEF script_pubkey, script_code, PkhSpk, PkhDesc
      <2>. DEFINE R == Classified(InnerPublicKey(FullKey(k), "Pkh"), <<Push(SigBytes)>>,
                                  P2pkh(PubkeyHash(k)))
      <2>4. from_txdata(script_pubkey(d), get_satisfaction(d, s).val, <<>>) = R
            BY <2>2, <2>3, PkhKeySpend
      <2>5. HonestOK(R, d)
            BY <1>1, <2>1, <2>3 DEF HonestOK, Classified, Ok, SpendOf, InnerPublicKey, PkhDesc
      <2>. QED  BY <2>4, <2>5
<1>2. CASE d.kind = "Bare"
      <2>1. PICK ms \in DescMs : d = BareDesc(ms)
            BY <1>2 DEF ValidDesc, Descs, BareDesc, PkhDesc, Delegated
      <2>2. /\ script_pubkey(d) = Encode(ms)
            /\ script_code(d) = Encode(ms)
            /\ explicit_script(d) = Encode(ms)
            /\ d.ms = ms
            BY <2>1 DEF script_pubkey, script_code, explicit_script, BareSpk, BareDesc
      <2>3. LET w == MsSatisfy(ms, s)
            IN  w.ok = TRUE /\ get_satisfaction(d, s).val = witness_to_scriptsig(w.val)
            BY <2>1 DEF get_satisfaction, BareDesc, Ok, Err, MsSatisfy
      <2>4. CASE \E k \in FullKeys : ms = PkK(k)
            <3>1. PICK k \in FullKeys : ms = PkK(k)
                  BY <2>4
            <3>2. get_satisfaction(d, s).val = <<SigBytes>>
                  <4>1. MsSatisfy(ms, s) = Ok(<<SigBytes>>)
                        BY <2>3, <3>1 DEF MsSatisfy, PkK, Ok, Err
                  <4>. QED  BY <2>3, <4>1 DEF witness_to_scriptsig, Ok, SigBytes, OneByte
            <3>3. Encode(ms) = P2pk(k)
                  BY <3>1 DEF Encode, PkK
            <3>. DEFINE R == Classified(InnerPublicKey(FullKey(k), "Pk"), <<Push(SigBytes)>>,
                                        P2pk(k))
            <3>4. from_txdata(script_pubkey(d), get_satisfaction(d, s).val, <<>>) = R
                  BY <2>2, <3>2, <3>3, PkKeySpend
            <3>5. HonestOK(R, d)
                  BY <1>2, <2>2, <3>1, <3>3 DEF HonestOK, Classified, Ok, SpendOf, InnerPublicKey, PkK
            <3>. QED  BY <3>4, <3>5
      <2>5. CASE \E k \in FullKeys : ms = PkH(PubkeyHash(k))
            <3>1. PICK h : ms = PkH(h)
                  BY <2>5
            <3>2. \E k \in s.sigs : PubkeyHash(k) = h
                  BY <2>3, <3>1 DEF MsSatisfy, PkH, Ok, Err
            <3>. DEFINE kc == CHOOSE k \in s.sigs : PubkeyHash(k) = h
            <3>3. kc \in FullKeys /\ PubkeyHash(kc) = h
                  BY <3>2 DEF Satisfiers
            <3>4. MsSatisfy(ms, s) = Ok(<<SigBytes, KeyBytes(kc)>>)
                  BY <3>1, <3>2 DEF MsSatisfy, PkH
            <3>5. get_satisfaction(d, s).val = <<SigBytes, KeyBytes(kc)>>
                  BY <2>3, <3>4 DEF witness_to_scriptsig, Ok, SigBytes, KeyBytes, OneByte
            <3>6. Encode(ms) = P2pkh(PubkeyHash(kc))
                  BY <3>1, <3>3 DEF Encode, PkH
            <3>. DEFINE R == Classified(InnerPublicKey(FullKey(kc), "Pkh"), <<Push(SigBytes)>>,
                                        P2pkh(PubkeyHash(kc)))
            <3>7. from_txdata(script_pubkey(d), get_satisfaction(d, s).val, <<>>) = R
                  BY <2>2, <3>3, <3>5, <3>6, PkhKeySpend
            <3>8. HonestOK(R, d)
                  <4>1. d.ms.frag = "pk_h" /\ d.ms.hash = PubkeyHash(kc)
                        BY <2>2, <3>1, <3>3 DEF PkH
                  <4>2. SpendOf(InnerPublicKey(FullKey(kc), "Pkh"), d)
                        BY <1>2, <4>1 DEF SpendOf, InnerPublicKey, FullKey
                  <4>. QED  BY <2>2, <3>6, <4>2 DEF HonestOK, Classified, Ok, InnerPublicKey
            <3>. QED  BY <3>7, <3>8
      <2>6. CASE \E o \in Opaque : ms = MsOpaque(o)
            <3>1. PICK o \in Opaque : ms = MsOpaque(o)
                  BY <2>6
            <3>2. MsValid(MsOpaque(o), "Bare")
                  BY <1>2, <2>2, <3>1 DEF ValidDesc
            <3>3. PICK w \in OpaqueWits : get_satisfaction(d, s).val = witness_to_scriptsig(w)
                  <4>1. s.opq # {}
                        BY <2>3, <3>1 DEF MsSatisfy, MsOpaque, Err
                  <4>2. PICK w \in OpaqueWits : s.opq = {w}
                        BY <4>1 DEF Satisfiers
                  <4>3. MsSatisfy(ms, s) = Ok(w)
                        BY <3>1, <4>2 DEF MsSatisfy, MsOpaque
                  <4>. QED  BY <2>3, <4>3 DEF Ok
            <3>4. Encode(ms) = MsScript(MsOpaque(o))
                  BY <3>1 DEF Encode, MsOpaque
            <3>. DEFINE R == Classified(InnerScript(NoChecks(MsOpaque(o), "full"), "Bare"),
                                        ScriptSigStack(witness_to_scriptsig(w)),
                                        MsScript(MsOpaque(o)))
            <3>5. from_txdata(script_pubkey(d), get_satisfaction(d, s).val, <<>>) = R
                  BY <2>2, <3>2, <3>3, <3>4, OpaqueScriptSpend
            <3>6. HonestOK(R, d)
                  BY <1>2, <2>2, <3>1, <3>4
                  DEF HonestOK, Classified, Ok, SpendOf, InnerScript, NoChecks, MsOpaque
            <3>. QED  BY <3>5, <3>6
      <2>. QED  BY <2>4, <2>5, <2>6 DEF DescMs
<1>. QED  BY <1>1, <1>2 DEF Spendable

(* A construction step on an empty slot leaves DIInv true when what it    *)
(* builds is valid: nothing else has happened yet.                        *)
LEMMA BuiltPreserves ==
    ASSUME DIInv, desc = NoDesc, NEW r, ResultValid(r), Built(r),
           UNCHANGED <<text, parsed, spk, scriptSig, witness, res>>
    PROVE  DIInv'
<1>1. text = NoText /\ parsed = NoParse /\ spk = NoSpk /\ res = Pending
      BY DEF DIInv, NoDesc, Spendable
<1>2. desc' = NoDesc \/ ValidDesc(desc')
      BY DEF Built, ResultValid
<1>. QED  BY <1>1, <1>2 DEF DIInv

LEMMA DIInvInductive == DescSpec => []DIInv
<1>1. DescInit => DIInv
      BY DEF DescInit, DIInv, NoText, NoParse, NoSpk
<1>2. DIInv /\ [DescNext]_allVars => DIInv'
      <2>. SUFFICES ASSUME DIInv, [DescNext]_allVars PROVE DIInv'
           OBVIOUS
      <2>1. CASE NewBare
            <3>1. PICK ms \in DescMs : Built(BareNew(ms))
                  BY <2>1 DEF NewBare
            <3>2. ResultValid(BareNew(ms))
                  BY BareNewValid DEF DescMs
            <3>. QED  BY <2>1, <3>1, <3>2, BuiltPreserves DEF NewBare
      <2>2. CASE NewPkh
            <3>1. PICK pk \in FullKeys : Built(Ok(PkhDesc(pk)))
                  BY <2>2 DEF NewPkh
            <3>2. ResultValid(Ok(PkhDesc(pk)))
                  BY DEF ResultValid, Ok, ValidDesc, Descs, PkhDesc
            <3>. QED  BY <2>2, <3>1, <3>2, BuiltPreserves DEF NewPkh
      <2>3. CASE ParseText
            <3>1. PICK by \in Parsers, t \in TextInputs : Built(Parse(by, t))
                  BY <2>3 DEF ParseText
            <3>2. ResultValid(Parse(by, t))
                  BY ParseValid
            <3>. QED  BY <2>3, <3>1, <3>2, BuiltPreserves DEF ParseText
      <2>4. CASE Display
            BY <2>4 DEF Display, DIInv, NoText, NoParse
      <2>5. CASE Reparse
            BY <2>5 DEF Reparse, DIInv, NoParse
      <2>6. CASE GetSatisfaction
            <3>1. PICK s \in Satisfiers :
                    LET w == get_satisfaction(desc, s)
                    IN IF w.ok
                       THEN /\ spk' = script_pubkey(desc)
                            /\ scriptSig' = w.val
                            /\ err' = NoErr
                       ELSE /\ err' = w
                            /\ UNCHANGED <<spk, scriptSig>>
                  BY <2>6 DEF GetSatisfaction
            <3>2. res = Pending /\ desc.kind \in Spendable
                  BY <2>6 DEF GetSatisfaction, DIInv
            <3>3. CASE get_satisfaction(desc, s).ok
                  <4>1. HonestScriptSig(desc, scriptSig')
                        BY <3>1, <3>3 DEF HonestScriptSig
                  <4>. QED  BY <2>6, <3>1, <3>2, <3>3, <4>1 DEF GetSatisfaction, DIInv
            <3>4. CASE ~get_satisfaction(desc, s).ok
                  BY <2>6, <3>1, <3>4 DEF GetSatisfaction, DIInv
            <3>. QED  BY <3>3, <3>4
      <2>7. CASE ClassifySpend
            <3>1. /\ spk # NoSpk /\ res' = from_txdata(spk, scriptSig, witness)
                  /\ UNCHANGED <<desc, text, parsed, spk, scriptSig, witness>>
                  BY <2>7 DEF ClassifySpend, Classify, descVars
            <3>2. HonestScriptSig(desc, scriptSig)' = HonestScriptSig(desc, scriptSig)
                  BY <3>1 DEF HonestScriptSig
            <3>. QED  BY <3>1, <3>2 DEF DIInv
      <2>8. CASE UNCHANGED allVars
            BY <2>8 DEF allVars, DIInv
      <2>. QED  BY <2>1, <2>2, <2>3, <2>4, <2>5, <2>6, <2>7, <2>8 DEF DescNext
<1>. QED  BY <1>1, <1>2, PTL DEF DescSpec

(* DescTypeOK for every instance: whichever of Bare::new, Pkh::new,        *)
(* PreTaprootDescriptor::from_str, Bare::from_str or Pkh::from_str built   *)
(* the descriptor, a Bare holds a miniscript valid in BareCtx and a Pkh a  *)
(* full key, and the text is the Display of such a descriptor.             *)
THEOREM DescTypeOKInvariant == DescSpec => []DescTypeOK
<1>1. DIInv => DescTypeOK
      <2>. SUFFICES ASSUME DIInv PROVE DescTypeOK
           OBVIOUS
      <2>1. desc \in Descs \cup {NoDesc} /\ (desc.kind = "Bare" => MsValid(desc.ms, "Bare"))
            BY DEF DIInv, ValidDesc, NoDesc
      <2>2. text \in TextsOf \cup {NoText}
            BY DEF DIInv, ValidDesc, TextsOf, NoDesc, Spendable
      <2>3. parsed = NoParse \/ parsed.by \in Parsers
            BY DEF DIInv
      <2>. QED  BY <2>1, <2>2, <2>3 DEF DescTypeOK
<1>. QED  BY <1>1, DIInvInductive, PTL

(* ParsedBack for every instance: the Display of any Bare descriptor       *)
(* parses back to it through PreTaprootDescriptor::from_str, and of any    *)
(* Pkh descriptor through Pkh::from_str.                                   *)
THEOREM ParsedBackInvariant == DescSpec => []ParsedBack
<1>1. DIInv => ParsedBack
      <2>. SUFFICES ASSUME DIInv, parsed # NoParse, parsed.by = OwnParser[desc.kind]
                    PROVE  parsed.r = Ok(desc)
           BY DEF ParsedBack
      <2>1. /\ parsed.r = Parse(parsed.by, text)
            /\ text = to_string(desc)
            /\ desc.kind \in Spendable
            BY DEF DIInv
      <2>2. ValidDesc(desc)
            BY <2>1 DEF DIInv, NoDesc, Spendable
      <2>. QED  BY <2>1, <2>2, RoundTrip
<1>. QED  BY <1>1, DIInvInductive, PTL

(* The classification of the honest spend, once it has happened, is the   *)
(* one HonestSpend describes.                                              *)
LEMMA ClassifiedHonest ==
    ASSUME DIInv, res # Pending
    PROVE  HonestOK(res, desc)
<1>1. spk # NoSpk /\ res = from_txdata(spk, scriptSig, <<>>)
      BY DEF DIInv
<1>2. /\ desc.kind \in Spendable
      /\ ValidDesc(desc)
      /\ spk = script_pubkey(desc)
      BY <1>1 DEF DIInv, NoDesc, Spendable
<1>3. PICK s \in Satisfiers : get_satisfaction(desc, s).ok = TRUE
                               /\ scriptSig = get_satisfaction(desc, s).val
      BY <1>1 DEF DIInv, HonestScriptSig
<1>. QED  BY <1>1, <1>2, <1>3, HonestSpend

(* HonestSpendAccepted for every instance: the spend get_satisfaction      *)
(* builds for a Bare or Pkh descriptor, from any satisfier that can sign   *)
(* it, is accepted by from_txdata as a spend of that descriptor, and a key *)
(* spend leaves exactly the signature on the stack.                        *)
THEOREM HonestSpendAcceptedInvariant == DescSpec => []HonestSpendAccepted
<1>1. DIInv => HonestSpendAccepted
      BY ClassifiedHonest DEF HonestSpendAccepted, HonestOK
<1>. QED  BY <1>1, DIInvInductive, PTL

(* SighashCodeAgrees for every instance: the signer (script_code) and the *)
(* verifier (the script code from_txdata returns) hash the same script,    *)
(* and a script spend's parsed script re-encodes to explicit_script.       *)
THEOREM SighashCodeAgreesInvariant == DescSpec => []SighashCodeAgrees
<1>1. DIInv => SighashCodeAgrees
      BY ClassifiedHonest DEF SighashCodeAgrees, HonestOK
<1>. QED  BY <1>1, DIInvInductive, PTL

=============================================================================
