---------------------------- MODULE Interpreter ----------------------------
(***************************************************************************)
(* The transaction interpreter's classification step, interpreter::inner:: *)
(* from_txdata.  Given the spent output's scriptPubKey, the input's        *)
(* scriptSig and its witness, it decides the spend shape, re-parses the    *)
(* revealed script under the matching context and returns an Inner, the    *)
(* residual stack and the script code for the sighash, or an error.        *)
(*                                                                         *)
(* The call keeps no state between invocations; the model holds one call:  *)
(* its inputs (any of the input sets the constants enumerate) and its      *)
(* result, Pending until the single Classify step computes it.             *)
(***************************************************************************)
EXTENDS ScriptData

CONSTANTS
    SpkInputs,        \* scriptPubKeys the call may be given
    ScriptSigInputs,  \* scriptSigs, as sequences of instructions
    WitnessInputs,    \* witnesses, as sequences of byte strings
    StackItems        \* the byte strings that occur in scriptSigs and witnesses

\* the hashes a pk_h can hold: a key's, or whatever 20 bytes a p2pkh script
\* or a pk_h fragment of an input carries, since parse_insane takes them as
\* they are
InputHashes ==
    {PubkeyHash(k) : k \in FullKeys \cup XKeys} \cup
    {d.h : d \in {e \in SpkInputs \cup StackItems : e.t = "p2pkh"}} \cup
    {d.ms.hash : d \in {e \in SpkInputs \cup StackItems :
                            e.t \in {"ms", "cov"} /\ e.ms.frag = "pk_h"}}
\* the ASTs parse_insane can return on the inputs
InputMs == MsOver(InputHashes)

\* byte strings are well formed, and a script that is a miniscript or a
\* covenant encodes an AST of the model's fragments over the instance's keys
ASSUME InputAssumption ==
    /\ \A d \in SpkInputs \cup StackItems : WellFormed(d)
    /\ \A d \in SpkInputs \cup StackItems : d.t \in {"ms", "cov"} => d.ms \in InputMs
    /\ ScriptSigInputs \subseteq Seq(StackItems \cup {OP_1, OP_OTHER})
    /\ WitnessInputs \subseteq Seq(StackItems)

VARIABLES spk, scriptSig, witness, res
vars == <<spk, scriptSig, witness, res>>

\* no result yet: the call has not returned
Pending == [ok |-> FALSE, err |-> "Pending"]

(***************************************************************************)
(* Inner, BitcoinKey and the NoChecks re-expression of a parsed script.    *)
(***************************************************************************)
FullKey(k) == [form |-> "full", key |-> k]
XOnlyKey(k) == [form |-> "xonly", key |-> k]
\* to_no_checks_ms: the AST with every key (and key hash) tagged by its form
NoChecks(m, form) == [ms |-> m, keyform |-> form]

InnerPublicKey(bk, ty) == [kind |-> "PublicKey", key |-> bk, ty |-> ty]
InnerScript(nm, ty) == [kind |-> "Script", ms |-> nm, ty |-> ty]
InnerCov(bk, nm) == [kind |-> "CovScript", key |-> bk, ms |-> nm]

PubkeyTypes == {"Pk", "Pkh", "Wpkh", "ShWpkh", "Tr"}
ScriptTypes == {"Bare", "Sh", "Wsh", "ShWsh", "Tr"}
NoScriptCode == [t |-> "nocode"]

Classified(inner, stack, code) ==
    Ok([inner |-> inner, stack |-> stack, code |-> code])

(***************************************************************************)
(* Helpers of inner.rs.                                                    *)
(***************************************************************************)
pk_from_slice(d, require_compressed) ==
    IF d.t = "key" /\ d.key \in FullKeys
    THEN IF require_compressed /\ d.key \in Uncompressed
         THEN Err("UncompressedPubkey")
         ELSE Ok(d.key)
    ELSE Err("PubkeyParseError")

pk_from_stack_elem(elem, require_compressed) ==
    IF elem.e = "push" THEN pk_from_slice(elem.d, require_compressed)
    ELSE Err("PubkeyParseError")

script_from_stack_elem(ctx, elem) ==
    CASE elem.e = "push"      -> ParseInsane(ctx, elem.d)
      [] elem.e = "satisfied" -> Ok(MsTrue)
      [] OTHER                -> Ok(MsFalse)

\* CovenantDescriptor::parse_cov_components: preamble match, then a Segwitv0 miniscript
cov_components_from_stackelem(elem) ==
    IF /\ elem.e = "push"
       /\ elem.d.t = "cov"
       /\ elem.d.pk \in FullKeys
       /\ MsValid(elem.d.ms, "Segwitv0")
    THEN Ok([pk |-> elem.d.pk, ms |-> elem.d.ms])
    ELSE Err("BadCovDescriptor")

HasAnnex(W) ==
    /\ Len(W) >= 2
    /\ Top(W).e = "push"
    /\ Top(W).d = AnnexBytes

\* ControlBlock::verify_taproot_commitment
VerifyTaprootCommitment(cb, outputKey, tapScript) ==
    outputKey = TapOutputKey(cb.internal, tapScript)

(***************************************************************************)
(* The branches of from_txdata, one per output shape, in the order the     *)
(* code tries them.  S is the scriptSig stack and W the witness stack.     *)
(***************************************************************************)
PayToPubkey(pk, S, W) ==
    IF W # <<>> THEN Err("NonEmptyWitness")
    ELSE LET r == pk_from_slice(KeyBytes(pk.key), FALSE)
         IN IF ~r.ok THEN r
            ELSE Classified(InnerPublicKey(FullKey(r.val), "Pk"), S, pk)

PayToPubkeyHashNoCode(pk, S, W) ==
    IF W # <<>> THEN Err("NonEmptyWitness")
    ELSE IF S = <<>> THEN Err("UnexpectedStackEnd")
    ELSE LET r == pk_from_stack_elem(Top(S), FALSE)
         IN IF ~r.ok THEN r
            ELSE IF pk = P2pkh(PubkeyHash(r.val))
                 THEN Classified(InnerPublicKey(FullKey(r.val), "Pkh"), Pop(S), NoScriptCode)
                 ELSE Err("IncorrectPubkeyHash")

PayToPubkeyHash(pk, S, W) ==
    IF W # <<>> THEN Err("NonEmptyWitness")
    ELSE IF S = <<>> THEN Err("UnexpectedStackEnd")
    ELSE LET r == pk_from_stack_elem(Top(S), FALSE)
         IN IF ~r.ok THEN r
            ELSE IF pk = P2pkh(PubkeyHash(r.val))
                 THEN Classified(InnerPublicKey(FullKey(r.val), "Pkh"), Pop(S), pk)
                 ELSE Err("IncorrectPubkeyHash")

PayToWitnessPubkeyHash(pk, S, W) ==
    IF S # <<>> THEN Err("NonEmptyScriptSig")
    ELSE IF W = <<>> THEN Err("UnexpectedStackEnd")
    ELSE LET r == pk_from_stack_elem(Top(W), TRUE)
         IN IF ~r.ok THEN r
            ELSE IF pk = P2wpkh(PubkeyHash(r.val))
                 THEN Classified(InnerPublicKey(FullKey(r.val), "Wpkh"), Pop(W),
                                 P2pkh(PubkeyHash(r.val)))
                 ELSE Err("IncorrectWPubkeyHash")

\* mutant: the witness script parsed under the Legacy context
PayToWitnessScriptHashLegacyCtx(pk, S, W) ==
    IF S # <<>> THEN Err("NonEmptyScriptSig")
    ELSE IF W = <<>> THEN Err("UnexpectedStackEnd")
    ELSE LET cov == cov_components_from_stackelem(Top(W))
             r   == script_from_stack_elem("Legacy", Top(W))
         IN IF cov.ok
            THEN Classified(InnerCov(FullKey(cov.val.pk), NoChecks(cov.val.ms, "full")),
                            Pop(W), PostCodesepScript)
            ELSE IF ~r.ok THEN r
            ELSE IF pk = P2wsh(Sha256(Encode(r.val)))
                 THEN Classified(InnerScript(NoChecks(r.val, "full"), "Wsh"), Pop(W),
                                 Encode(r.val))
                 ELSE Err("IncorrectWScriptHash")

PayToWitnessScriptHash(pk, S, W) ==
    IF S # <<>> THEN Err("NonEmptyScriptSig")
    ELSE IF W = <<>> THEN Err("UnexpectedStackEnd")
    ELSE LET cov == cov_components_from_stackelem(Top(W))
             r   == script_from_stack_elem("Segwitv0", Top(W))
         IN IF cov.ok
            THEN Classified(InnerCov(FullKey(cov.val.pk), NoChecks(cov.val.ms, "full")),
                            Pop(W), PostCodesepScript)
            ELSE IF ~r.ok THEN r
            ELSE IF pk = P2wsh(Sha256(Encode(r.val)))
                 THEN Classified(InnerScript(NoChecks(r.val, "full"), "Wsh"), Pop(W),
                                 Encode(r.val))
                 ELSE Err("IncorrectWScriptHash")

\* script spend: the control block on top, the tap script under it
TapScriptSpend(outputKey, W) ==
    LET cb  == Top(W)
        tap == Top(Pop(W))
        r   == script_from_stack_elem("Tap", tap)
    IN IF cb.e # "push" THEN Err("UnexpectedStackElementPush")
       ELSE IF cb.d.t # "cb" THEN Err("ControlBlockParse")
       ELSE IF ~r.ok THEN r
       ELSE IF VerifyTaprootCommitment(cb.d, outputKey, Encode(r.val))
            THEN Classified(InnerScript(NoChecks(r.val, "xonly"), "Tr"), Pop(Pop(W)),
                            Encode(r.val))
            ELSE Err("ControlBlockVerificationError")

\* mutant: the key-spend output key wrapped as a full key
PayToTaprootFullKey(pk, S, W) ==
    IF S # <<>> THEN Err("NonEmptyScriptSig")
    ELSE IF pk.out = BadKey THEN Err("XOnlyPublicKeyParseError")
    ELSE IF HasAnnex(W) THEN Err("TapAnnexUnsupported")
    ELSE IF W = <<>> THEN Err("UnexpectedStackEnd")
    ELSE IF Len(W) = 1
         THEN Classified(InnerPublicKey(FullKey(pk.out), "Tr"), W, NoScriptCode)
    ELSE TapScriptSpend(pk.out, W)

PayToTaproot(pk, S, W) ==
    IF S # <<>> THEN Err("NonEmptyScriptSig")
    ELSE IF pk.out = BadKey THEN Err("XOnlyPublicKeyParseError")
    ELSE IF HasAnnex(W) THEN Err("TapAnnexUnsupported")
    ELSE IF W = <<>> THEN Err("UnexpectedStackEnd")
    ELSE IF Len(W) = 1
         THEN Classified(InnerPublicKey(XOnlyKey(pk.out), "Tr"), W, NoScriptCode)
    ELSE TapScriptSpend(pk.out, W)

\* p2sh-wrapped wpkh: slice is the 22-byte redeem script 0 <20 bytes>
ShWrappedWpkh(slice, S1, W) ==
    IF W = <<>> THEN Err("UnexpectedStackEnd")
    ELSE IF S1 # <<>> THEN Err("NonEmptyScriptSig")
    ELSE LET r == pk_from_stack_elem(Top(W), TRUE)
         IN IF ~r.ok THEN r
            ELSE IF slice = P2wpkh(PubkeyHash(r.val))
                 THEN Classified(InnerPublicKey(FullKey(r.val), "ShWpkh"), Pop(W),
                                 P2pkh(PubkeyHash(r.val)))
                 ELSE Err("IncorrectWScriptHash")

\* mutant: the witness script is not compared with the redeem script
ShWrappedWshNoHashCheck(slice, S1, W) ==
    IF W = <<>> THEN Err("UnexpectedStackEnd")
    ELSE IF S1 # <<>> THEN Err("NonEmptyScriptSig")
    ELSE LET r == script_from_stack_elem("Segwitv0", Top(W))
         IN IF ~r.ok THEN r
            ELSE Classified(InnerScript(NoChecks(r.val, "full"), "ShWsh"), Pop(W),
                            Encode(r.val))

\* mutant: the scriptSig is not required to hold only the redeem script
ShWrappedWshNoScriptSigCheck(slice, S1, W) ==
    IF W = <<>> THEN Err("UnexpectedStackEnd")
    ELSE LET r == script_from_stack_elem("Segwitv0", Top(W))
         IN IF ~r.ok THEN r
            ELSE IF slice = P2wsh(Sha256(Encode(r.val)))
                 THEN Classified(InnerScript(NoChecks(r.val, "full"), "ShWsh"), Pop(W),
                                 Encode(r.val))
                 ELSE Err("IncorrectWScriptHash")

\* p2sh-wrapped wsh: slice is the 34-byte redeem script 0 <32 bytes>
ShWrappedWsh(slice, S1, W) ==
    IF W = <<>> THEN Err("UnexpectedStackEnd")
    ELSE IF S1 # <<>> THEN Err("NonEmptyScriptSig")
    ELSE LET r == script_from_stack_elem("Segwitv0", Top(W))
         IN IF ~r.ok THEN r
            ELSE IF slice = P2wsh(Sha256(Encode(r.val)))
                 THEN Classified(InnerScript(NoChecks(r.val, "full"), "ShWsh"), Pop(W),
                                 Encode(r.val))
                 ELSE Err("IncorrectWScriptHash")

\* normal p2sh, the redeem script parsed in Legacy context
ShLegacy(pk, elem, S1, W) ==
    LET r == script_from_stack_elem("Legacy", elem)
    IN IF ~r.ok THEN r
       ELSE IF W # <<>> THEN Err("NonEmptyWitness")
       ELSE IF pk = P2sh(Hash160(Encode(r.val)))
            THEN Classified(InnerScript(NoChecks(r.val, "full"), "Sh"), S1, Encode(r.val))
            ELSE Err("IncorrectScriptHash")

PayToScriptHash(pk, S, W) ==
    IF S = <<>> THEN Err("UnexpectedStackEnd")
    ELSE LET elem == Top(S)
             S1   == Pop(S)
         IN IF elem.e = "push"
            THEN IF pk # P2sh(Hash160(elem.d)) THEN Err("IncorrectScriptHash")
                 ELSE IF elem.d.t = "p2wpkh" THEN ShWrappedWpkh(elem.d, S1, W)
                 ELSE IF elem.d.t = "p2wsh" THEN ShWrappedWsh(elem.d, S1, W)
                 ELSE ShLegacy(pk, elem, S1, W)
            ELSE ShLegacy(pk, elem, S1, W)

BareScript(pk, S, W) ==
    IF W # <<>> THEN Err("NonEmptyWitness")
    ELSE LET r == ParseInsane("Bare", pk)
         IN IF ~r.ok THEN r
            ELSE Classified(InnerScript(NoChecks(r.val, "full"), "Bare"), S, pk)

\* the collect of inner.rs:166-170 fails at the first instruction that fails
ScriptSigParses(ssig) == \A i \in 1..Len(ssig) : ElementFromInstruction(ssig[i]).ok
ScriptSigStack(ssig) == [i \in 1..Len(ssig) |-> ElementFromInstruction(ssig[i]).val]
WitnessStack(wit) == [i \in 1..Len(wit) |-> ElementFrom(wit[i])]

from_txdata(pk, ssig, wit) ==
    IF ~ScriptSigParses(ssig) THEN Err("ExpectedPush")
    ELSE LET S == ScriptSigStack(ssig)
             W == WitnessStack(wit)
         IN CASE pk.t = "p2pk"   -> PayToPubkey(pk, S, W)
              [] pk.t = "p2pkh"  -> PayToPubkeyHash(pk, S, W)
              [] pk.t = "p2wpkh" -> PayToWitnessPubkeyHash(pk, S, W)
              [] pk.t = "p2wsh"  -> PayToWitnessScriptHash(pk, S, W)
              [] pk.t = "p2tr"   -> PayToTaproot(pk, S, W)
              [] pk.t = "p2sh"   -> PayToScriptHash(pk, S, W)
              [] OTHER           -> BareScript(pk, S, W)

(***************************************************************************)
(* The specification: one call.                                            *)
(***************************************************************************)
Init ==
    /\ spk \in SpkInputs
    /\ scriptSig \in ScriptSigInputs
    /\ witness \in WitnessInputs
    /\ res = Pending

Classify ==
    /\ res = Pending
    /\ res' = from_txdata(spk, scriptSig, witness)
    /\ UNCHANGED <<spk, scriptSig, witness>>

Next == Classify

Spec == Init /\ [][Next]_vars

(***************************************************************************)
(* Properties.                                                             *)
(***************************************************************************)
Errors == {"ExpectedPush", "NonEmptyWitness", "NonEmptyScriptSig",
           "UnexpectedStackEnd", "PubkeyParseError", "UncompressedPubkey",
           "IncorrectPubkeyHash", "IncorrectWPubkeyHash", "IncorrectWScriptHash",
           "IncorrectScriptHash", "ParseError", "XOnlyPublicKeyParseError",
           "TapAnnexUnsupported", "UnexpectedStackElementPush",
           "ControlBlockParse", "ControlBlockVerificationError"}

\* the x-only output keys the inputs carry
XOutputKeys == {d.out : d \in {e \in SpkInputs : e.t = "p2tr"}} \ {BadKey}
BitcoinKeys == [form : {"full"}, key : FullKeys] \cup [form : {"xonly"}, key : XOutputKeys]
Inners ==
    [kind : {"PublicKey"}, key : BitcoinKeys, ty : PubkeyTypes] \cup
    [kind : {"Script"}, ms : [ms : InputMs, keyform : {"full", "xonly"}], ty : ScriptTypes] \cup
    [kind : {"CovScript"}, key : BitcoinKeys, ms : [ms : InputMs, keyform : {"full"}]]

(* Type correctness of from_txdata: the inputs never change, and the call  *)
(* returns one of the errors the code names, or an Inner over full keys,   *)
(* taproot output keys and ASTs parse_insane builds from the input bytes.  *)
TypeOK ==
    /\ spk \in SpkInputs
    /\ scriptSig \in ScriptSigInputs
    /\ witness \in WitnessInputs
    /\ \/ res = Pending
       \/ res.ok = FALSE /\ res.err \in Errors
       \/ res.ok = TRUE /\ res.val.inner \in Inners

(* The output script an honest descriptor for the classified Inner has:    *)
(* every hash the spend reveals a preimage of, nested as the shape nests.  *)
CommittedBy(inner, pk) ==
    CASE inner.kind = "PublicKey" ->
           LET k == inner.key.key
           IN (CASE inner.ty = "Pk"     -> pk = P2pk(k)
                 [] inner.ty = "Pkh"    -> pk = P2pkh(PubkeyHash(k))
                 [] inner.ty = "Wpkh"   -> pk = P2wpkh(PubkeyHash(k))
                 [] inner.ty = "ShWpkh" -> pk = P2sh(Hash160(P2wpkh(PubkeyHash(k))))
                 [] inner.ty = "Tr"     -> pk = P2tr(k))
      [] inner.kind = "Script" ->
           LET s == Encode(inner.ms.ms)
           IN (CASE inner.ty = "Bare"  -> pk = s
                 [] inner.ty = "Sh"    -> pk = P2sh(Hash160(s))
                 [] inner.ty = "Wsh"   -> pk = P2wsh(Sha256(s))
                 [] inner.ty = "ShWsh" -> pk = P2sh(Hash160(P2wsh(Sha256(s))))
                 [] inner.ty = "Tr"    -> pk = P2tr(TapOutputKey(pk.out.internal, s)))
      [] inner.kind = "CovScript" ->
           pk = P2wsh(Sha256(CovScriptBytes(inner.key.key, inner.ms.ms)))

(* SpendCommitted: whenever from_txdata classifies a spend, the key or     *)
(* script it returns is the one the spent output commits to, through every *)
(* layer of hashing (p2sh over p2wsh over the witness script, the taproot  *)
(* tweak over the tap leaf).  A missed hash comparison in any branch lets  *)
(* a spend present a script of its own choosing.                          *)
SpendCommitted ==
    res.ok = TRUE => CommittedBy(res.val.inner, spk)

(* How many elements each spend type pops, from which stack it returns the *)
(* rest, and how long the other stack must be.                             *)
Accounting(inner) ==
    LET Acc(side, popped, other) == [side |-> side, popped |-> popped, other |-> other]
        PkAcc == [Pk |-> Acc("scriptSig", 0, 0), Pkh |-> Acc("scriptSig", 1, 0),
                  Wpkh |-> Acc("witness", 1, 0), ShWpkh |-> Acc("witness", 1, 1),
                  Tr |-> Acc("witness", 0, 0)]
        MsAcc == [Bare |-> Acc("scriptSig", 0, 0), Sh |-> Acc("scriptSig", 1, 0),
                  Wsh |-> Acc("witness", 1, 0), ShWsh |-> Acc("witness", 1, 1),
                  Tr |-> Acc("witness", 2, 0)]
    IN CASE inner.kind = "PublicKey" -> PkAcc[inner.ty]
         [] inner.kind = "Script"    -> MsAcc[inner.ty]
         [] OTHER                    -> Acc("witness", 1, 0)

(* SpendDataAccounted: on success the residual stack is exactly the input  *)
(* stack of the spend's side minus the elements the classification popped, *)
(* and the other side held exactly what the shape allows (nothing, or the  *)
(* lone redeem script).  Data left on the unused side would be ignored by  *)
(* the interpreter but change the transaction (a malleability vector).     *)
SpendDataAccounted ==
    res.ok = TRUE =>
        LET a == Accounting(res.val.inner)
        IN IF a.side = "scriptSig"
           THEN /\ Len(scriptSig) >= a.popped
                /\ res.val.stack = SubSeq(ScriptSigStack(scriptSig), 1, Len(scriptSig) - a.popped)
                /\ Len(witness) = a.other
           ELSE /\ Len(witness) >= a.popped
                /\ res.val.stack = SubSeq(WitnessStack(witness), 1, Len(witness) - a.popped)
                /\ Len(scriptSig) = a.other

ContextOf == [Bare |-> "Bare", Sh |-> "Legacy", Wsh |-> "Segwitv0",
              ShWsh |-> "Segwitv0", Tr |-> "Tap"]

\* the key encodings and context admissibility of a classified Inner
Disciplined(i) ==
    CASE i.kind = "PublicKey" ->
           IF i.ty = "Tr" THEN i.key.form = "xonly"
           ELSE /\ i.key.form = "full"
                /\ i.key.key \in FullKeys
                /\ i.ty \in {"Wpkh", "ShWpkh"} => i.key.key \in CompressedKeys
      [] i.kind = "Script" ->
           /\ i.ms.keyform = IF i.ty = "Tr" THEN "xonly" ELSE "full"
           /\ MsValid(i.ms.ms, ContextOf[i.ty])
      [] OTHER ->
           /\ i.key.form = "full" /\ i.key.key \in FullKeys
           /\ i.ms.keyform = "full" /\ MsValid(i.ms.ms, "Segwitv0")

(* KeyDiscipline: the keys of a classified spend have the encoding its     *)
(* context requires: segwit v0 key spends use compressed keys, taproot     *)
(* uses x-only keys, and a revealed script is admissible in the context of *)
(* its shape, with its keys tagged full or x-only accordingly when it is   *)
(* re-expressed without a static context (to_no_checks_ms).                *)
KeyDiscipline ==
    res.ok = TRUE => Disciplined(res.val.inner)

(* KeyScriptCommitted: SpendCommitted for every spend type but the        *)
(* covenant: the ten branches that compare a hash against the output.      *)
KeyScriptCommitted ==
    res.ok = TRUE /\ res.val.inner.kind # "CovScript" => CommittedBy(res.val.inner, spk)

SafetyInv == KeyScriptCommitted /\ SpendDataAccounted /\ KeyDiscipline

(* The bytes consensus hashes for a scriptSig push: OP_1 pushes 0x01. *)
RawBytes(instr) == IF instr = OP_1 THEN OneByte ELSE instr

(* ConsensusScriptHash: the script a classified script spend hands to the  *)
(* evaluator is the one whose raw bytes consensus hashes against the       *)
(* output (the witness script, the redeem script, the tap leaf).  The code *)
(* hashes the re-encoding of what it parsed instead, and parses the one-   *)
(* byte item 0x01 as the sentinel Satisfied, i.e. as the script OP_TRUE.   *)
ConsensusScriptHash ==
    res.ok = TRUE /\ res.val.inner.kind = "Script" =>
        CASE res.val.inner.ty = "Wsh"   -> spk = P2wsh(Sha256(Top(witness)))
          [] res.val.inner.ty = "Sh"    -> spk = P2sh(Hash160(RawBytes(Top(scriptSig))))
          [] res.val.inner.ty = "ShWsh" -> Top(scriptSig) = P2wsh(Sha256(Top(witness)))
          [] res.val.inner.ty = "Tr"    -> spk.out.leaf = Top(Pop(witness))
          [] OTHER                      -> TRUE

=============================================================================
