----------------------------- MODULE Descriptors -----------------------------
(***************************************************************************)
(* The Bare and Pkh descriptors of descriptor/bare.rs and the pre-taproot  *)
(* dispatcher of descriptor/pretaproot.rs: construction, Display, parsing  *)
(* (PreTaprootDescriptor::from_str, Bare::from_str, Pkh::from_str), and    *)
(* the honest spend get_satisfaction builds, which the interpreter then    *)
(* classifies.  The state follows the descriptor round trip of            *)
(* fuzz/fuzz_targets/roundtrip_descriptor.rs: a descriptor is built or     *)
(* parsed, displayed, and the text parsed again.                           *)
(*                                                                         *)
(* A descriptor string is abstracted to its expression tree and checksum:  *)
(* the node name is its number of leading "el" namespace prefixes and the  *)
(* rest of the name; an argument is the text of a key, a key hash or an    *)
(* opaque sub-script.                                                      *)
(***************************************************************************)
EXTENDS Interpreter

CONSTANTS OpaqueWits   \* witnesses a satisfier may hold for an opaque script

\* a satisfaction is a Vec<Vec<u8>>: a sequence of byte strings, no opcode
ASSUME DescWitAssumption ==
    \A w \in OpaqueWits : w \in Seq({w[i] : i \in DOMAIN w} \ {OP_1, OP_OTHER})

VARIABLES
    desc,      \* the descriptor held, or NoDesc
    text,      \* the last Display of desc, or NoText
    parsed,    \* the last parse of text: the parser used and its result
    err        \* the error of the last parse or satisfaction, or NoErr

descVars == <<desc, text, parsed, err>>
allVars == <<desc, text, parsed, err, spk, scriptSig, witness, res>>

NoDesc == [kind |-> "none"]
NoText == [t |-> "notext"]
NoParse == [by |-> "none"]
NoErr == [ok |-> TRUE]
NoSpk == [t |-> "none"]

BareDesc(ms) == [kind |-> "Bare", ms |-> ms]
PkhDesc(pk) == [kind |-> "Pkh", pk |-> pk]
\* Wpkh, Sh and Wsh: parsed by code outside this model
Delegated(name) == [kind |-> "Delegated", name |-> name]

KeyText(k) == [a |-> "key", k |-> k]
HashText(h) == [a |-> "hash", h |-> h]
OpaqueText(o) == [a |-> "opaque", o |-> o]
Name(el, base) == [el |-> el, base |-> base]
Tree(name, args) == [name |-> name, args |-> args]
Text(tree, ck) == [tree |-> tree, ck |-> ck]
\* what remains of a name without "el" after its first two characters
Garbled == "garbled"
\* a name of fewer than two bytes (or whose second byte is inside a UTF-8
\* character): the slice desc_str[2..] of such a body panics
ShortBody == "short"
\* the outcome of a panic: not an Err the caller can match on
Panicked == [ok |-> FALSE, err |-> "panic"]

(***************************************************************************)
(* Miniscript text (outside this model): the fragments and their aliases.  *)
(***************************************************************************)
MsDisplay(ms) ==
    CASE ms.frag = "pk_k" -> Tree(Name(0, "pk"), <<KeyText(ms.key)>>)
      [] ms.frag = "pk_h" -> Tree(Name(0, "pkh"), <<HashText(ms.hash)>>)
      [] OTHER            -> Tree(Name(0, "ms"), <<OpaqueText(ms.id)>>)

MsFromTree(tr) ==
    LET arg == tr.args[1]
    IN IF tr.name.el # 0 \/ Len(tr.args) # 1 THEN Err("Unexpected")
       ELSE IF tr.name.base \in {"pk", "c:pk_k"} /\ arg.a = "key" THEN Ok(PkK(arg.k))
       ELSE IF tr.name.base \in {"pkh", "c:pk_h"} /\ arg.a = "hash" THEN Ok(PkH(arg.h))
       ELSE IF tr.name.base = "ms" /\ arg.a = "opaque" THEN Ok(MsOpaque(arg.o))
       ELSE Err("Unexpected")

\* checksum::verify_checksum: a present checksum must match
verify_checksum(t) == IF t.ck = "bad" THEN Err("BadDescriptor") ELSE Ok(t.tree)

(***************************************************************************)
(* bare.rs                                                                 *)
(***************************************************************************)
\* Bare::new: BareCtx::top_level_checks
BareNew(ms) == IF MsValid(ms, "Bare") THEN Ok(BareDesc(ms)) ELSE Err("ContextError")

\* Display for Bare and Pkh: "el" then the body, then the checksum
to_string(d) ==
    IF d.kind = "Bare"
    THEN LET t == MsDisplay(d.ms)
         IN Text(Tree(Name(t.name.el + 1, t.name.base), t.args), "ok")
    ELSE Text(Tree(Name(1, "pkh"), <<KeyText(d.pk)>>), "ok")

BareFromTreeNoStrip(tr) ==
    IF tr.name.el = 0 THEN Err("Unexpected")
    ELSE LET sub == MsFromTree(tr)
         IN IF ~sub.ok THEN sub ELSE BareNew(sub.val)

\* FromTree for Bare: strip "el", parse the miniscript, top-level checks, new
BareFromTree(tr) ==
    IF tr.name.el = 0 THEN Err("Unexpected")
    ELSE LET sub == MsFromTree(Tree(Name(tr.name.el - 1, tr.name.base), tr.args))
         IN IF ~sub.ok THEN sub ELSE BareNew(sub.val)

\* FromStr for Bare: the tree of the string from its third character on
BareFromStr(t) ==
    LET s == verify_checksum(t)
        n == s.val.name
    IN IF ~s.ok THEN s
       ELSE IF n.el = 0 /\ n.base = ShortBody THEN Panicked
       ELSE BareFromTree(Tree(IF n.el > 0 THEN Name(n.el - 1, n.base) ELSE Name(0, Garbled),
                              s.val.args))

PkhFromTreeNoKeyParse(tr) ==
    IF tr.name # Name(1, "pkh") \/ Len(tr.args) # 1 THEN Err("Unexpected")
    ELSE IF tr.args[1].a # "key" THEN Err("KeyParse")
    ELSE Ok(PkhDesc(tr.args[1].k))

\* FromTree for Pkh: the node "elpkh" with one key
PkhFromTree(tr) ==
    IF tr.name # Name(1, "pkh") \/ Len(tr.args) # 1 THEN Err("Unexpected")
    ELSE IF tr.args[1].a # "key" \/ tr.args[1].k \notin FullKeys THEN Err("KeyParse")
    ELSE Ok(PkhDesc(tr.args[1].k))

PkhFromStr(t) ==
    LET s == verify_checksum(t) IN IF ~s.ok THEN s ELSE PkhFromTree(s.val)

(***************************************************************************)
(* pretaproot.rs: Pkh, Wpkh, Sh, Wsh by exact name and arity, else Bare.   *)
(***************************************************************************)
PreTaprootFromTree(tr) ==
    LET un == tr.name.el = 0 /\ Len(tr.args) = 1
    IN CASE un /\ tr.name.base = "pkh" -> PkhFromTree(tr)
         [] un /\ tr.name.base \in {"wpkh", "sh", "wsh"} -> Ok(Delegated(tr.name.base))
         [] OTHER -> BareFromTree(tr)

PreTaprootFromStr(t) ==
    LET s == verify_checksum(t) IN IF ~s.ok THEN s ELSE PreTaprootFromTree(s.val)

Parsers == {"PreTaproot", "Bare", "Pkh"}
Parse(by, t) ==
    CASE by = "PreTaproot" -> PreTaprootFromStr(t)
      [] by = "Bare"       -> BareFromStr(t)
      [] by = "Pkh"        -> PkhFromStr(t)

(***************************************************************************)
(* Satisfaction.  A satisfier holds signatures for the keys in sigs (and  *)
(* knows the key behind each of their hashes) and at most one witness for *)
(* the opaque scripts (opq is empty or a singleton).                       *)
(***************************************************************************)
Satisfiers == [sigs : SUBSET FullKeys, opq : {{}} \cup {{w} : w \in OpaqueWits}]

\* Miniscript::satisfy (outside this model)
MsSatisfy(ms, s) ==
    CASE ms.frag = "pk_k" ->
            IF ms.key \in s.sigs THEN Ok(<<SigBytes>>) ELSE Err("CouldNotSatisfy")
      [] ms.frag = "pk_h" ->
            IF \E k \in s.sigs : PubkeyHash(k) = ms.hash
            THEN Ok(<<SigBytes, KeyBytes(CHOOSE k \in s.sigs : PubkeyHash(k) = ms.hash)>>)
            ELSE Err("CouldNotSatisfy")
      [] OTHER -> IF s.opq # {} THEN Ok(CHOOSE w \in s.opq : TRUE) ELSE Err("CouldNotSatisfy")

\* util::witness_to_scriptsig: a script boolean is pushed as a small integer
witness_to_scriptsig(w) == [i \in 1..Len(w) |-> IF w[i] = OneByte THEN OP_1 ELSE w[i]]

\* Pkh::get_satisfaction: scriptSig <sig> <key>
PkhSatisfactionSwapped(d, s) ==
    IF d.pk \in s.sigs THEN Ok(<<KeyBytes(d.pk), SigBytes>>) ELSE Err("MissingSig")
PkhSatisfaction(d, s) ==
    IF d.pk \in s.sigs THEN Ok(<<SigBytes, KeyBytes(d.pk)>>) ELSE Err("MissingSig")

\* get_satisfaction: the scriptSig (the witness is empty for both)
get_satisfaction(d, s) ==
    IF d.kind = "Pkh" THEN PkhSatisfaction(d, s)
    ELSE LET w == MsSatisfy(d.ms, s)
         IN IF w.ok THEN Ok(witness_to_scriptsig(w.val)) ELSE w

\* Bare::spk, which inner_script and ecdsa_sighash_script_code return too
BareSpk(d) == Encode(d.ms)
\* Pkh::spk, which inner_script and ecdsa_sighash_script_code return too
PkhSpk(d) == P2pkh(PubkeyHash(d.pk))

\* PreTaprootDescriptor::script_pubkey, dispatched to the variant
script_pubkey(d) == IF d.kind = "Pkh" THEN PkhSpk(d) ELSE BareSpk(d)
\* PreTaprootDescriptor::explicit_script: the variant's inner_script
explicit_script(d) == IF d.kind = "Pkh" THEN PkhSpk(d) ELSE BareSpk(d)
\* PreTaprootDescriptor::script_code: the variant's ecdsa_sighash_script_code
script_code(d) == IF d.kind = "Pkh" THEN PkhSpk(d) ELSE BareSpk(d)

(***************************************************************************)
(* The specification: build or parse a descriptor, display it, parse the  *)
(* text again, and spend the output.                                       *)
(***************************************************************************)
\* the miniscripts a Bare descriptor may be built from
DescMs ==
    {PkK(k) : k \in FullKeys} \cup {PkH(PubkeyHash(k)) : k \in FullKeys} \cup
    {MsOpaque(o) : o \in Opaque}
Bases == {"pk", "c:pk_k", "pkh", "c:pk_h", "wpkh", "sh", "wsh", "ms"}
ArgTexts ==
    {KeyText(k) : k \in FullKeys \cup XKeys} \cup
    {HashText(PubkeyHash(k)) : k \in FullKeys} \cup {OpaqueText(o) : o \in Opaque}
\* descriptor strings given to a parser, valid checksum or not
TextInputs ==
    {Text(Tree(Name(el, b), <<a>>), ck) : el \in 0..1, b \in Bases, a \in ArgTexts,
                                          ck \in {"ok", "bad"}} \cup
    {Text(Tree(Name(0, ShortBody), <<>>), "ok")}
Spendable == {"Bare", "Pkh"}

DescInit ==
    /\ desc = NoDesc
    /\ text = NoText
    /\ parsed = NoParse
    /\ err = NoErr
    /\ spk = NoSpk
    /\ scriptSig = <<>>
    /\ witness = <<>>
    /\ res = Pending

Built(r) ==
    /\ desc' = IF r.ok THEN r.val ELSE desc
    /\ err' = IF r.ok THEN NoErr ELSE r

\* Bare::new on a miniscript
NewBare ==
    /\ desc = NoDesc
    /\ \E ms \in DescMs : Built(BareNew(ms))
    /\ UNCHANGED <<text, parsed, spk, scriptSig, witness, res>>

\* Pkh::new on a key (no checks)
NewPkh ==
    /\ desc = NoDesc
    /\ \E pk \in FullKeys : Built(Ok(PkhDesc(pk)))
    /\ UNCHANGED <<text, parsed, spk, scriptSig, witness, res>>

\* from_str of PreTaprootDescriptor, Bare or Pkh on an input string
ParseText ==
    /\ desc = NoDesc
    /\ \E by \in Parsers, t \in TextInputs : Built(Parse(by, t))
    /\ UNCHANGED <<text, parsed, spk, scriptSig, witness, res>>

\* Display
Display ==
    /\ desc.kind \in Spendable
    /\ text = NoText
    /\ text' = to_string(desc)
    /\ UNCHANGED <<desc, parsed, err, spk, scriptSig, witness, res>>

\* from_str of the displayed string
Reparse ==
    /\ text # NoText
    /\ parsed = NoParse
    /\ \E by \in Parsers : parsed' = [by |-> by, r |-> Parse(by, text)]
    /\ UNCHANGED <<desc, text, err, spk, scriptSig, witness, res>>

\* DescriptorTrait::get_satisfaction; the spend is script_pubkey with the scriptSig
GetSatisfaction ==
    /\ desc.kind \in Spendable
    /\ spk = NoSpk
    /\ \E s \in Satisfiers :
          LET w == get_satisfaction(desc, s)
          IN IF w.ok
             THEN /\ spk' = script_pubkey(desc)
                  /\ scriptSig' = w.val
                  /\ err' = NoErr
             ELSE /\ err' = w
                  /\ UNCHANGED <<spk, scriptSig>>
    /\ UNCHANGED <<desc, text, parsed, witness, res>>

\* the interpreter classifies the spend
ClassifySpend ==
    /\ spk # NoSpk
    /\ Classify
    /\ UNCHANGED descVars

DescNext ==
    \/ NewBare \/ NewPkh \/ ParseText \/ Display \/ Reparse
    \/ GetSatisfaction \/ ClassifySpend

DescSpec == DescInit /\ [][DescNext]_allVars
(***************************************************************************)
(* Properties.                                                             *)
(***************************************************************************)
Descs == {BareDesc(ms) : ms \in DescMs} \cup {PkhDesc(k) : k \in FullKeys} \cup
         {Delegated(b) : b \in {"wpkh", "sh", "wsh"}}
TextsOf == {to_string(d) : d \in {e \in Descs : e.kind \in Spendable}}

\* Type invariant: a held descriptor is one the constructors and parsers
\* can return (a Pkh holds a full key, a Bare a miniscript valid in BareCtx).
DescTypeOK ==
    /\ desc \in Descs \cup {NoDesc}
    /\ desc.kind = "Bare" => MsValid(desc.ms, "Bare")
    /\ text \in TextsOf \cup {NoText}
    /\ parsed = NoParse \/ parsed.by \in Parsers

\* The parser a descriptor's own Display is meant for.
OwnParser == [Bare |-> "PreTaproot", Pkh |-> "Pkh"]

\* Display then parse reads back the same descriptor: a Bare descriptor's
\* string through PreTaprootDescriptor::from_str, a Pkh's through
\* Pkh::from_str (the round trip of fuzz_targets/roundtrip_descriptor.rs).
ParsedBack ==
    parsed # NoParse /\ parsed.by = OwnParser[desc.kind] => parsed.r = Ok(desc)

\* The round-trip law for the pre-taproot dispatcher: parsing the Display
\* of any pre-taproot descriptor with PreTaprootDescriptor::from_str gives
\* that descriptor back.
RoundTripLaw ==
    parsed # NoParse /\ parsed.by = "PreTaproot" => parsed.r = Ok(desc)

\* Bare::from_str reads back the Display of a Bare descriptor.
BareFromStrRoundTrip ==
    parsed # NoParse /\ parsed.by = "Bare" /\ desc.kind = "Bare" => parsed.r = Ok(desc)

\* The inner the interpreter must find for an output of descriptor d.
SpendOf(inner, d) ==
    IF d.kind = "Pkh" THEN inner = InnerPublicKey(FullKey(d.pk), "Pkh")
    ELSE CASE d.ms.frag = "pk_k" -> inner = InnerPublicKey(FullKey(d.ms.key), "Pk")
           [] d.ms.frag = "pk_h" -> /\ inner.kind = "PublicKey" /\ inner.ty = "Pkh"
                                    /\ inner.key.form = "full"
                                    /\ PubkeyHash(inner.key.key) = d.ms.hash
           [] OTHER -> inner = InnerScript(NoChecks(d.ms, "full"), "Bare")

\* A spend built by get_satisfaction from the descriptor's script_pubkey is
\* accepted by Interpreter::from_txdata as a spend of that descriptor, and
\* for key spends the stack left to check is the single signature.
HonestSpendAccepted ==
    res # Pending =>
        /\ res.ok = TRUE
        /\ SpendOf(res.val.inner, desc)
        /\ res.val.inner.kind = "PublicKey" => res.val.stack = <<Push(SigBytes)>>

\* The signer and the verifier hash the same script: for an honest spend
\* the script code Interpreter::from_txdata returns for the sighash is the
\* descriptor's script_code, and a script spend's parsed script re-encodes
\* to the descriptor's explicit_script.
SighashCodeAgrees ==
    res # Pending /\ res.ok = TRUE =>
        /\ res.val.code = script_code(desc)
        /\ res.val.inner.kind = "Script" => Encode(res.val.inner.ms.ms) = explicit_script(desc)

\* No string makes a parser panic: every malformed descriptor string
\* (here one whose checksum-verified body is shorter than two bytes, given
\* to Bare::from_str) comes back as an Err (spec: every error is returned).
NoPanic ==
    /\ err # Panicked
    /\ parsed = NoParse \/ parsed.r # Panicked

=============================================================================
