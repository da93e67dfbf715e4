------------------------------ MODULE Covenant ------------------------------
(***************************************************************************)
(* The covenant descriptor of descriptor/covenants/cov.rs and its life:    *)
(* it is built (new, from_tree, or parse_insane of a script), satisfied    *)
(* with a satisfier that may lack items (get_satisfaction, retried with    *)
(* more data after an error), and the resulting spend is classified by     *)
(* the interpreter (Interpreter!Classify on spk, scriptSig, witness).      *)
(* Its keys can be checked with for_each_key at any time.                  *)
(*                                                                         *)
(* A covenant's inner miniscript is one of the opaque ones of ScriptData,  *)
(* with the op count, free-verify flag, size and keys that new() and       *)
(* for_each_key read.                                                      *)
(***************************************************************************)
EXTENDS Interpreter

CONSTANTS
    OpsSat,         \* OpsSat[o]: ms.ext.ops_count_sat, or NoOpCount
    NoOpCount,      \* ops_count_sat = None: the script cannot be satisfied
    FreeVerify,     \* FreeVerify[o]: ms.ext.has_free_verify
    ScriptSize,     \* ScriptSize[o]: ms.script_size()
    MsKeys,         \* MsKeys[o]: the keys inside o
    SighashTypes,   \* sighash types a signature or the sighash item can carry
    MsWitnesses     \* satisfactions the inner miniscript may get from a satisfier

MAX_OPS_PER_SCRIPT == 201
MAX_SCRIPT_SIZE == 10000

ASSUME CovAssumption ==
    /\ NoOpCount \notin Nat
    /\ OpsSat \in [Opaque -> Nat \cup {NoOpCount}]
    /\ FreeVerify \in [Opaque -> BOOLEAN]
    /\ ScriptSize \in [Opaque -> Nat]
    /\ MsKeys \in [Opaque -> SUBSET FullKeys]

\* a satisfaction is a Vec<Vec<u8>>: a sequence of byte strings
ASSUME CovWitAssumption ==
    \A w \in MsWitnesses : w \in Seq({w[i] : i \in DOMAIN w})

VARIABLES
    desc,       \* the covenant descriptor held, or NoDesc
    err,        \* the result of the last construction or satisfaction, if an error
    sat,        \* the satisfier of the last get_satisfaction, or NoSat
    fek         \* the predicate and answer of the last for_each_key, or NoFek

covVars == <<desc, err, sat, fek>>
allVars == <<desc, err, sat, fek, spk, scriptSig, witness, res>>

NoDesc == [t |-> "nodesc"]
NoErr == [ok |-> TRUE]
NoSat == [t |-> "nosat"]
NoFek == [t |-> "nofek"]
CovMs == {MsOpaque(o) : o \in Opaque}

(***************************************************************************)
(* Construction.                                                           *)
(***************************************************************************)
\* mutant: the op ceiling compared with >= instead of >
newOpsOffByOne(pk, ms) ==
    LET o  == ms.id
        fv == IF FreeVerify[o] THEN 1 ELSE 0
    IN IF OpsSat[o] = NoOpCount THEN Err("ImpossibleSatisfaction")
       ELSE IF OpsSat[o] + 24 - fv >= MAX_OPS_PER_SCRIPT THEN Err("ImpossibleSatisfaction")
       ELSE IF ScriptSize[o] + (58 - fv) > MAX_SCRIPT_SIZE THEN Err("ScriptSizeTooLarge")
       ELSE Ok([pk |-> pk, ms |-> ms])

\* CovenantDescriptor::new: the op count and size of ms plus the preamble
new(pk, ms) ==
    LET o  == ms.id
        fv == IF FreeVerify[o] THEN 1 ELSE 0
    IN IF OpsSat[o] = NoOpCount THEN Err("ImpossibleSatisfaction")
       ELSE IF OpsSat[o] + 24 - fv > MAX_OPS_PER_SCRIPT THEN Err("ImpossibleSatisfaction")
       ELSE IF ScriptSize[o] + (58 - fv) > MAX_SCRIPT_SIZE THEN Err("ScriptSizeTooLarge")
       ELSE Ok([pk |-> pk, ms |-> ms])

\* Miniscript::from_tree and Segwitv0::top_level_checks: ms on its own is a
\* valid top-level Segwitv0 script within the consensus limits
MsFromTree(ms) ==
    /\ MsValid(ms, "Segwitv0")
    /\ OpsSat[ms.id] # NoOpCount => OpsSat[ms.id] <= MAX_OPS_PER_SCRIPT
    /\ ScriptSize[ms.id] <= MAX_SCRIPT_SIZE

\* mutant: the key text is not parsed as a key
from_treeNoKeyCheck(name, pkText, ms) ==
    IF name # "elcovwsh" THEN Err("Unexpected")
    ELSE IF ~MsFromTree(ms) THEN Err("MiniscriptParse")
    ELSE Ok([pk |-> pkText, ms |-> ms])

\* FromTree for CovenantDescriptor: name and arity, key, miniscript
from_tree(name, pkText, ms) ==
    IF name # "elcovwsh" THEN Err("Unexpected")
    ELSE IF pkText \notin FullKeys THEN Err("KeyParse")
    ELSE IF ~MsFromTree(ms) THEN Err("MiniscriptParse")
    ELSE Ok([pk |-> pkText, ms |-> ms])

\* parse_cov_components then new: the preamble, then a Segwitv0 miniscript
parse_insane(d) ==
    IF d.t # "cov" \/ d.pk \notin FullKeys THEN Err("BadCovDescriptor")
    ELSE IF ~MsValid(d.ms, "Segwitv0") THEN Err("ParseError")
    ELSE new(d.pk, d.ms)

(***************************************************************************)
(* Satisfaction.                                                           *)
(***************************************************************************)
\* the satisfier lookups of satisfy, in the order the code makes them, and
\* the index each reports in MissingSighashItem when it fails
SighashItems == <<"nVersion", "hashPrevouts", "hashSequence", "hashIssuances",
                  "outpoint", "scriptCode", "value", "nSequence", "outputs",
                  "nLocktime", "sighashu32">>
MissingIndex == <<1, 1, 3, 3, 4, 5, 6, 7, 8, 9, 10>>
\* the order of the items in the witness vector satisfy builds
WitnessOrder == <<"nVersion", "hashPrevouts", "hashSequence", "hashIssuances",
                  "outpoint", "scriptCode", "value", "nSequence", "outputs",
                  "nLocktime", "sighashu32">>
ItemNames == {SighashItems[i] : i \in 1..Len(SighashItems)}

\* serialised witness items: the covenant signature and the sighash components
CovSig(ty) == [t |-> "covsig", ty |-> ty]
ItemBytes(n, st) ==
    IF n = "sighashu32" THEN [t |-> "item", n |-> n, v |-> st]
    ELSE IF n = "outputs" THEN [t |-> "item", n |-> "hashOutputs"]
    ELSE [t |-> "item", n |-> n]

\* a satisfier: the lookups that answer, the hash type of the signature it
\* holds for the covenant key (or "none"), its sighash item, and whether it
\* satisfies the inner miniscript, with which witness
Satisfiers ==
    [has : {ItemNames} \cup {ItemNames \ {n} : n \in ItemNames},
     sig : SighashTypes \cup {"none"}, sighashTy : SighashTypes,
     msOk : BOOLEAN, msWit : MsWitnesses]

\* mutant: the signature's hash type is not compared with the sighash item
satisfyNoTypeCheck(d, s) ==
    LET missing == {i \in 1..Len(SighashItems) : SighashItems[i] \notin s.has}
        first   == CHOOSE i \in missing : \A j \in missing : i <= j
    IN IF missing # {}
       THEN [ok |-> FALSE, err |-> "MissingSighashItem", idx |-> MissingIndex[first]]
       ELSE IF s.sig = "none" THEN Err("MissingCovSignature")
       ELSE IF ~s.msOk THEN Err("CouldNotSatisfy")
       ELSE Ok(<<CovSig(s.sig)>>
               \o [i \in 1..Len(WitnessOrder) |-> ItemBytes(WitnessOrder[i], s.sighashTy)]
               \o s.msWit)

\* CovenantDescriptor::satisfy
satisfy(d, s) ==
    LET missing == {i \in 1..Len(SighashItems) : SighashItems[i] \notin s.has}
        first   == CHOOSE i \in missing : \A j \in missing : i <= j
    IN IF missing # {}
       THEN [ok |-> FALSE, err |-> "MissingSighashItem", idx |-> MissingIndex[first]]
       ELSE IF s.sig = "none" THEN Err("MissingCovSignature")
       ELSE IF s.sighashTy # s.sig THEN Err("CovenantSighashTypeMismatch")
       ELSE IF ~s.msOk THEN Err("CouldNotSatisfy")
       ELSE Ok(<<CovSig(s.sig)>>
               \o [i \in 1..Len(WitnessOrder) |-> ItemBytes(WitnessOrder[i], s.sighashTy)]
               \o s.msWit)

\* explicit_script, script_pubkey, get_satisfaction
explicit_script(d) == CovScriptBytes(d.pk, d.ms)
script_pubkey(d) == P2wsh(Sha256(explicit_script(d)))
get_satisfaction(d, s) ==
    LET w == satisfy(d, s)
    IN IF ~w.ok THEN w ELSE Ok(w.val \o <<explicit_script(d)>>)

\* ForEachKey: pred on the covenant key, then ms.for_any_key(pred)
for_each_key(d, pred) ==
    d.pk \in pred /\ \E k \in MsKeys[d.ms.id] : k \in pred

(***************************************************************************)
(* The specification.                                                      *)
(***************************************************************************)
NoSpk == [t |-> "none"]

CovInit ==
    /\ desc = NoDesc
    /\ err = NoErr
    /\ sat = NoSat
    /\ fek = NoFek
    /\ spk = NoSpk
    /\ scriptSig = <<>>
    /\ witness = <<>>
    /\ res = Pending

\* the descriptor a construction built, or the error it returned
Built(r) ==
    /\ desc' = IF r.ok THEN r.val ELSE desc
    /\ err' = IF r.ok THEN NoErr ELSE r

\* CovenantDescriptor::new on a key and a Segwitv0 miniscript
New ==
    /\ desc = NoDesc
    /\ \E pk \in FullKeys, ms \in {m \in CovMs : MsValid(m, "Segwitv0")} :
          Built(new(pk, ms))
    /\ UNCHANGED <<sat, fek, spk, scriptSig, witness, res>>

\* CovenantDescriptor::from_str of a descriptor string with a valid checksum
FromTree ==
    /\ desc = NoDesc
    /\ \E name \in {"elcovwsh", "covwsh"}, pk \in FullKeys \cup {BadKey}, ms \in CovMs :
          Built(from_tree(name, pk, ms))
    /\ UNCHANGED <<sat, fek, spk, scriptSig, witness, res>>

\* CovenantDescriptor::parse_insane of a script
ParseInsaneScript ==
    /\ desc = NoDesc
    /\ \E d \in {CovScriptBytes(pk, ms) : pk \in FullKeys \cup {BadKey}, ms \in CovMs}
                \cup {JunkBytes} :
          Built(parse_insane(d))
    /\ UNCHANGED <<sat, fek, spk, scriptSig, witness, res>>

\* DescriptorTrait::get_satisfaction: on success the spend is the output
\* script_pubkey with an empty scriptSig and the witness; on an error the
\* caller may retry with a satisfier that holds more.
GetSatisfaction ==
    /\ desc # NoDesc
    /\ spk = NoSpk
    /\ \E s \in Satisfiers :
          LET w == get_satisfaction(desc, s)
          IN /\ sat' = s
             /\ IF w.ok
                THEN /\ spk' = script_pubkey(desc)
                     /\ scriptSig' = <<>>
                     /\ witness' = w.val
                     /\ err' = NoErr
                ELSE /\ err' = w
                     /\ UNCHANGED <<spk, scriptSig, witness>>
    /\ UNCHANGED <<desc, fek, res>>

\* the interpreter classifies the spend
ClassifySpend ==
    /\ spk # NoSpk
    /\ Classify
    /\ UNCHANGED covVars

\* ForEachKey::for_each_key with a predicate accepting the keys in pred
ForEachKey ==
    /\ desc # NoDesc
    /\ \E pred \in SUBSET FullKeys : fek' = [pred |-> pred, ans |-> for_each_key(desc, pred)]
    /\ UNCHANGED <<desc, err, sat, spk, scriptSig, witness, res>>

CovNext ==
    \/ New \/ FromTree \/ ParseInsaneScript
    \/ GetSatisfaction \/ ClassifySpend \/ ForEachKey

CovSpec == CovInit /\ [][CovNext]_allVars

(***************************************************************************)
(* Properties.                                                             *)
(***************************************************************************)
Descs == [pk : FullKeys, ms : CovMs]
CovErrors == {"ImpossibleSatisfaction", "ScriptSizeTooLarge", "Unexpected", "KeyParse",
              "MiniscriptParse", "BadCovDescriptor", "ParseError", "MissingSighashItem",
              "MissingCovSignature", "CovenantSighashTypeMismatch", "CouldNotSatisfy"}

CovTypeOK ==
    /\ desc \in Descs \cup {NoDesc}
    /\ \/ err = NoErr
       \/ err.ok = FALSE /\ err.err \in CovErrors
    /\ sat \in Satisfiers \cup {NoSat}
    /\ fek \in {NoFek} \cup [pred : SUBSET FullKeys, ans : BOOLEAN]
    /\ spk \in {NoSpk} \cup {script_pubkey(d) : d \in Descs}
    /\ \/ res = Pending
       \/ res.ok \in BOOLEAN

\* the wire order of the covenant witness items (BIP 143 with the Elements
\* hashIssuances after hashSequence, hashOutputs from the outputs)
WireOrder == <<"nVersion", "hashPrevouts", "hashSequence", "hashIssuances",
               "outpoint", "scriptCode", "value", "nSequence", "outputs",
               "nLocktime", "sighashu32">>

(* CovSpendRecovered: when the interpreter accepts the spend that          *)
(* get_satisfaction built for the descriptor, it recovers the covenant key *)
(* and miniscript, returns the post-codeseparator script as the code the   *)
(* covenant key signs, and leaves a stack laid out as the preamble reads   *)
(* it: the covenant signature, the eleven sighash items in wire order with *)
(* the signature's own hash type as the last, then the miniscript witness. *)
CovSpendRecovered ==
    res.ok = TRUE =>
        LET st == res.val.stack
        IN /\ res.val.inner = InnerCov(FullKey(desc.pk), NoChecks(desc.ms, "full"))
           /\ res.val.code = PostCodesepScript
           /\ Len(st) >= 1 + Len(WireOrder)
           /\ st[1] = Push(CovSig(sat.sig))
           /\ \A i \in 1..Len(WireOrder) : st[1 + i] = Push(ItemBytes(WireOrder[i], sat.sig))
           /\ SubSeq(st, 2 + Len(WireOrder), Len(st)) = WitnessStack(sat.msWit)

\* the ceilings of the covenant script over inner miniscript o: its op count
\* plus the 24-op preamble (one less with a free verify) at most
\* MAX_OPS_PER_SCRIPT, its size plus the 58-byte preamble at most MAX_SCRIPT_SIZE
WithinLimits(o) ==
    LET fv == IF FreeVerify[o] THEN 1 ELSE 0
    IN /\ OpsSat[o] # NoOpCount
       /\ OpsSat[o] + 24 - fv <= MAX_OPS_PER_SCRIPT
       /\ ScriptSize[o] + 58 - fv <= MAX_SCRIPT_SIZE

(* CovLimits: every covenant descriptor the program holds satisfies the    *)
(* invariant of the type: the op count of its miniscript plus the 24-op    *)
(* preamble (less one for a free verify) is within MAX_OPS_PER_SCRIPT, and *)
(* its size plus the preamble within MAX_SCRIPT_SIZE, whichever of new,    *)
(* from_str or parse_insane built it.                                      *)
CovLimits == desc # NoDesc => WithinLimits(desc.ms.id)

(* NewEnforcesLimits: on every covenant the program comes to hold, by any  *)
(* of its constructors, new decides as the ceilings say: it accepts        *)
(* exactly when the script is within both, the ceiling itself included,    *)
(* and refuses with ImpossibleSatisfaction when the op count is unknown or *)
(* over, else with ScriptSizeTooLarge (cov.rs:113-135).  from_tree, which  *)
(* skips new, brings covenants on both sides of each ceiling.              *)
NewEnforcesLimits ==
    desc # NoDesc =>
        LET o  == desc.ms.id
            r  == new(desc.pk, desc.ms)
            fv == IF FreeVerify[o] THEN 1 ELSE 0
        IN /\ r.ok = WithinLimits(o)
           /\ ~r.ok => r.err = IF \/ OpsSat[o] = NoOpCount
                                  \/ OpsSat[o] + 24 - fv > MAX_OPS_PER_SCRIPT
                               THEN "ImpossibleSatisfaction"
                               ELSE "ScriptSizeTooLarge"

\* the BIP 143 item number of each lookup (3b, hashIssuances, reports 3)
ItemNumber == [n \in ItemNames |->
                 CASE n = "nVersion" -> 1 [] n = "hashPrevouts" -> 2
                   [] n = "hashSequence" -> 3 [] n = "hashIssuances" -> 3
                   [] n = "outpoint" -> 4 [] n = "scriptCode" -> 5
                   [] n = "value" -> 6 [] n = "nSequence" -> 7
                   [] n = "outputs" -> 8 [] n = "nLocktime" -> 9
                   [] n = "sighashu32" -> 10]

(* MissingItemNamed: a MissingSighashItem(n) error from satisfy names, by  *)
(* its BIP 143 number, the item the satisfier could not supply.            *)
MissingItemNamed ==
    err.ok = FALSE /\ err.err = "MissingSighashItem" =>
        \A n \in ItemNames \ sat.has : err.idx = ItemNumber[n]

(* ForEachKeyAll: for_each_key answers whether the predicate holds for     *)
(* every key of the descriptor, the covenant key and each key of its       *)
(* miniscript.                                                             *)
ForEachKeyAll ==
    fek # NoFek =>
        fek.ans = (desc.pk \in fek.pred /\ MsKeys[desc.ms.id] \subseteq fek.pred)

=============================================================================
