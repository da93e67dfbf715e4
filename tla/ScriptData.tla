----------------------------- MODULE ScriptData -----------------------------
(***************************************************************************)
(* Abstract byte strings of the transaction-data boundary: keys, scripts,  *)
(* hashes and stack elements, with the script contexts that decide which   *)
(* miniscripts parse.  A byte string is a record tagged by its shape; two  *)
(* strings are equal iff their records are, so hash160 and sha256 are     *)
(* modelled as collision-free (injective) constructors.  Nothing here has  *)
(* state: it is the vocabulary shared by the interpreter, the descriptors  *)
(* and the covenant modules.                                               *)
(***************************************************************************)
EXTENDS Naturals, Sequences

CONSTANTS
    FullKeys,       \* secp256k1 keys serialised in full (33 or 65 bytes)
    Uncompressed,   \* the FullKeys serialised uncompressed (65 bytes)
    XKeys,          \* x-only keys (32 bytes)
    BadKey,         \* 33 bytes that are not a point: a p2pk body that fails to parse
    Opaque,         \* miniscripts whose inner structure no property looks at
    OpaqueCtx       \* OpaqueCtx[o]: the contexts under which o parses

Contexts == {"Legacy", "Segwitv0", "Tap", "Bare"}

ASSUME KeyAssumption ==
    /\ Uncompressed \subseteq FullKeys
    /\ FullKeys \cap XKeys = {}
    /\ BadKey \notin FullKeys \cup XKeys
    /\ OpaqueCtx \in [Opaque -> SUBSET Contexts]

CompressedKeys == FullKeys \ Uncompressed

(***************************************************************************)
(* Miniscript ASTs (Miniscript<Pk, Ctx>).  c:pk_k and c:pk_h are kept      *)
(* explicit because their encodings are exactly the p2pk and p2pkh output  *)
(* shapes; True and False are what the Satisfied and Dissatisfied stack    *)
(* sentinels parse to.  A pk_h parsed from a script holds only the hash.   *)
(***************************************************************************)
PkK(k) == [frag |-> "pk_k", key |-> k]
PkH(h) == [frag |-> "pk_h", hash |-> h]
MsTrue == [frag |-> "true"]
MsFalse == [frag |-> "false"]
MsOpaque(o) == [frag |-> "opaque", id |-> o]


(* Context admissibility of parse_insane: Legacy and Bare take any full    *)
(* key, Segwitv0 only compressed ones, Tap only x-only ones.               *)
MsValid(m, ctx) ==
    CASE m.frag = "pk_k"   -> \/ ctx \in {"Legacy", "Bare"} /\ m.key \in FullKeys
                              \/ ctx = "Segwitv0" /\ m.key \in CompressedKeys
                              \/ ctx = "Tap" /\ m.key \in XKeys
      [] m.frag = "opaque" -> ctx \in OpaqueCtx[m.id]
      [] OTHER             -> TRUE

(***************************************************************************)
(* Byte strings.                                                           *)
(***************************************************************************)
KeyBytes(k) == [t |-> "key", key |-> k]
SigBytes == [t |-> "sig"]
OneByte == [t |-> "one"]          \* the single byte 0x01
EmptyBytes == [t |-> "empty"]     \* the empty string
AnnexBytes == [t |-> "annex"]     \* starts with TAPROOT_ANNEX_PREFIX 0x50
JunkBytes == [t |-> "junk"]

Hash160(d) == [hf |-> "hash160", of |-> d]
Sha256(d) == [hf |-> "sha256", of |-> d]
PubkeyHash(k) == Hash160(KeyBytes(k))

\* the ASTs over keys of the instance whose pk_h fragments hold a hash of H
MsOver(H) ==
    {PkK(k) : k \in FullKeys \cup XKeys} \cup
    {PkH(h) : h \in H} \cup
    {MsTrue, MsFalse} \cup {MsOpaque(o) : o \in Opaque}

P2pk(k) == [t |-> "p2pk", key |-> k]
P2pkh(h) == [t |-> "p2pkh", h |-> h]
P2wpkh(h) == [t |-> "p2wpkh", h |-> h]
P2wsh(h) == [t |-> "p2wsh", h |-> h]
P2sh(h) == [t |-> "p2sh", h |-> h]
P2tr(out) == [t |-> "p2tr", out |-> out]
MsScript(m) == [t |-> "ms", ms |-> m]
\* a covenant script: ms, then the fixed CHECKSIGFROMSTACK preamble on pk
CovScriptBytes(pk, m) == [t |-> "cov", pk |-> pk, ms |-> m]
\* the output key that commits internal key x to the tap leaf script s
TapOutputKey(x, s) == [internal |-> x, leaf |-> s]
ControlBlockBytes(x, s) == [t |-> "cb", internal |-> x, leaf |-> s]
\* the script OP_CODESEPARATOR ... that the covenant key signs
PostCodesepScript == [t |-> "postcodesep"]

(* Miniscript::encode *)
Encode(m) ==
    CASE m.frag = "pk_k" /\ m.key \in FullKeys -> P2pk(m.key)
      [] m.frag = "pk_h"                       -> P2pkh(m.hash)
      [] OTHER                                 -> MsScript(m)

(* Results of fallible operations (Rust's Result). *)
Ok(v) == [ok |-> TRUE, val |-> v]
Err(e) == [ok |-> FALSE, err |-> e]

(* Miniscript::parse_insane under a context: the AST whose encoding the    *)
(* bytes are, if it is admissible in ctx.                                  *)
ParseInsane(ctx, d) ==
    CASE d.t = "p2pk" /\ MsValid(PkK(d.key), ctx) -> Ok(PkK(d.key))
      [] d.t = "p2pkh"                            -> Ok(PkH(d.h))
      [] d.t = "ms" /\ MsValid(d.ms, ctx)         -> Ok(d.ms)
      [] OTHER                                    -> Err("ParseError")

(***************************************************************************)
(* Stack elements (interpreter::stack::Element) and their construction     *)
(* from witness items and scriptSig instructions.  Not under src/: the     *)
(* mapping [0x01] -> Satisfied, [] -> Dissatisfied is that of the crate's   *)
(* stack module.                                                           *)
(***************************************************************************)
Push(d) == [e |-> "push", d |-> d]
Satisfied == [e |-> "satisfied"]
Dissatisfied == [e |-> "dissatisfied"]

ElementFrom(d) ==
    IF d = OneByte THEN Satisfied
    ELSE IF d = EmptyBytes THEN Dissatisfied
    ELSE Push(d)

\* scriptSig instructions other than pushes
OP_1 == [op |-> "OP_PUSHNUM_1"]
OP_OTHER == [op |-> "other"]

\* instructions_minimal: a push of the one byte 0x01 must be written OP_1
MinimalPush(d) == d # OneByte

\* instructions_minimal, then Element::from_instruction: OP_1 and a minimal
\* push give an element; any other opcode or a non-minimal push ExpectedPush
ElementFromInstruction(i) ==
    IF i = OP_1 THEN Ok(Satisfied)
    ELSE IF i # OP_OTHER /\ MinimalPush(i) THEN Ok(ElementFrom(i))
    ELSE Err("ExpectedPush")

(* Shape well-formedness of a byte string: its record is built by the      *)
(* constructor its tag names; a p2pk body is 33 or 65 bytes, never the 32  *)
(* of an x-only key.                                                       *)
WellFormed(d) ==
    CASE d.t = "p2pk"   -> d = P2pk(d.key) /\ d.key \notin XKeys
      [] d.t = "p2pkh"  -> d = P2pkh(d.h)
      [] d.t = "p2wpkh" -> d = P2wpkh(d.h)
      [] d.t = "p2wsh"  -> d = P2wsh(d.h)
      [] d.t = "p2sh"   -> d = P2sh(d.h)
      [] d.t = "p2tr"   -> d = P2tr(d.out)
      [] d.t = "ms"     -> d = Encode(d.ms)
      [] OTHER          -> TRUE

(* Stacks pop from the end (Vec::pop). *)
Top(s) == s[Len(s)]
Pop(s) == SubSeq(s, 1, Len(s) - 1)
=============================================================================
