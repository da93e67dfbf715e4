# TLA+ models of elements-miniscript: interpreter, covenant and pre-taproot descriptors

These modules model the parts of elements-miniscript that are under `src/`:

- the transaction interpreter's classification of a spend (`src/src/interpreter/inner.rs`);
- the covenant descriptor (`src/src/descriptor/covenants/cov.rs`);
- the Bare and Pkh descriptors (`src/src/descriptor/bare.rs`);
- the pre-taproot dispatcher (`src/src/descriptor/pretaproot.rs`);
- the round trip the fuzz target exercises (`src/fuzz/fuzz_targets/roundtrip_descriptor.rs`).

The modules are checked with TLC on small instances. TLAPS proves, for every instance, every invariant the passing runs check. `PROJECT.json` is the machine-readable index of all of it: components, runs, mutants, the line map, findings, hazards and theorems.

## The system and how its parts interact

A *descriptor* names an output script. The crate does four things with one:
- it parses the descriptor from text (`from_str`, or `from_tree` on an expression tree whose node names carry an `el` namespace prefix);
- it prints it (`Display`, followed by a checksum);
- it builds the output script (`script_pubkey`, `explicit_script`);
- it builds a spend (`get_satisfaction`: a scriptSig and a witness, assembled from what a `Satisfier` supplies).

The *interpreter* goes the other way. `Interpreter::from_txdata(spk, scriptSig, witness)` takes an output script and the spending data, and classifies them as one of three `Inner` kinds:
- a key spend (`PublicKey`: p2pk, p2pkh, p2wpkh, sh-wpkh, taproot key spend);
- a script spend (`Script`: bare, p2sh, p2wsh, sh-wsh, tapscript);
- a covenant spend (`CovScript`).

With the classification it returns the stack left for the satisfaction check and the script code. The two directions meet in the models: each descriptor module feeds the spend that `get_satisfaction` builds into `from_txdata` and checks what comes back.

The covenant descriptor (`elcovwsh(pk, ms)`) is a p2wsh script made of two parts:
- a Segwitv0 miniscript `ms`;
- a fixed CHECKSIGFROMSTACK preamble on `pk`.

Spending it takes the covenant signature and eleven sighash-preimage items, in a fixed wire order, on top of the miniscript's own witness.

## Modules

| Module | Models | State / actions |
|---|---|---|
| `ScriptData` | shared vocabulary, no variables | See below. |
| `Interpreter` | `inner.rs` | Variables `spk, scriptSig, witness, res`. `Init` picks the inputs; `Classify` is one call of `from_txdata`. |
| `Covenant` (EXTENDS Interpreter) | `cov.rs` | Adds `desc, err, sat, fek`. Actions: `New`, `FromTree`, `ParseInsaneScript`, `GetSatisfaction`, `ClassifySpend`, `ForEachKey`. |
| `Descriptors` (EXTENDS Interpreter) | `bare.rs`, `pretaproot.rs`, the fuzz round trip | Adds `desc, text, parsed, err`. Actions: `NewBare`, `NewPkh`, `ParseText`, `Display`, `Reparse`, `GetSatisfaction`, `ClassifySpend`. |
| `InterpreterProofs` | TLAPS proofs about `Interpreter` | — |
| `InterpreterTypeProofs` | TLAPS proof of `TypeOK` of `Interpreter` | — |
| `SpendDataProofs` | TLAPS proof of `SpendDataAccounted` | — |
| `CovenantProofs` | TLAPS proofs of `CovTypeOK`, `NewEnforcesLimits` and `CovSpendRecovered` | — |
| `DescriptorsProofs` | TLAPS proofs of `DescTypeOK`, `ParsedBack`, `HonestSpendAccepted`, `SighashCodeAgrees` | — |
| `MCInterpreter`, `MCCovenant`, `MCDescriptors` | the TLC instances | — |

### ScriptData

Byte strings are records tagged by their shape. `Hash160` and `Sha256` are injective constructors, so a hash collision is outside the model.

Miniscripts are reduced to the fragments a property tells apart:
- `pk_k` and `pk_h`, whose encodings are exactly the p2pk and p2pkh output shapes;
- `true` and `false`, which are what the stack elements Satisfied and Dissatisfied parse to;
- opaque sub-scripts, each with the set of contexts it is valid in.

The miniscript core (`parse_insane`, `encode`, the context checks and `stack::Element`) is not under `src/`. It is modelled from the spec and marked `spec_modelled` in the map.

### Interpreter

`from_txdata` is one operator whose `CASE` has one arm per output shape, in the order of the code. Each arm is its own operator:
- `PayToPubkey`
- `PayToPubkeyHash`
- `PayToWitnessPubkeyHash`
- `PayToWitnessScriptHash`, including the covenant recognition at inner.rs:240
- `PayToTaproot` with `TapScriptSpend`
- `PayToScriptHash` with `ShWrappedWpkh`, `ShWrappedWsh` and `ShLegacy`
- `BareScript`

Every guard and every early error return of `from_txdata` and its helpers is kept, in its order, for the byte strings the model distinguishes. The scriptSig is a sequence of instructions; `OP_1` and the non-push `OP_OTHER` are distinguished from pushes. Parsing it (inner.rs:166-170) is `ScriptSigParses` and `ScriptSigStack`: `instructions_minimal` rejects a push of the single byte `0x01` (`MinimalPush`; the other minimal-push rules concern byte strings the model does not tell apart), and `Element::from_instruction` rejects a non-push; either gives `ExpectedPush` (`ElementFromInstruction`). The witness is a sequence of byte strings. `Inner`, `BitcoinKey` and `to_no_checks_ms` are records.

### Covenant

The construction operators follow the code:
- `new` has the 201-op and 10000-byte ceilings, with the free-verify adjustment (`WithinLimits`).
- `from_tree` and `parse_insane` are translated from their own code. In particular, `from_tree` does not call `new`.

`satisfy` follows the code:
- the eleven satisfier lookups, in their order, with the `MissingSighashItem` number each one reports;
- the covenant signature lookup and the sighash-type comparison;
- the witness vector in the code's order, with `hashOutputs` computed from the outputs;
- the inner miniscript's witness appended.

`get_satisfaction` appends the explicit script. The action `ClassifySpend` then runs the interpreter on the result.

### Descriptors

A descriptor string is abstracted to its expression tree and checksum flag. A node name is the number of leading `el` prefixes plus the rest of the name. This is enough to express the prefix handling of every parser:
- `Bare::from_str` drops two characters;
- `Bare::from_tree` requires and strips `el`;
- `Pkh::from_tree` requires `elpkh`;
- the dispatcher matches `pkh` / `wpkh` / `sh` / `wsh` exactly, by name and arity, and falls back to Bare.

The Wpkh, Sh and Wsh parsers are not under `src/`. The dispatcher's arms for them return an opaque `Delegated` descriptor.

`ShortBody` is a checksum-valid string whose body is shorter than two bytes. `Bare::from_str` slices it with `desc_str[2..]`, which panics. The model records this as the outcome `Panicked`, which is not an error a caller can match on.

`BareSpk` and `PkhSpk` are the `spk` of each variant. Each variant's `inner_script` and `ecdsa_sighash_script_code` return that `spk`. The dispatcher's `script_pubkey`, `explicit_script` and `script_code` select the variant.

## Runs

| Run | Config | Expect | What it shows |
|---|---|---|---|
| interp_safety | `MCInterpreter.cfg` | pass | See below. |
| interp_cov_commit | `MCInterpreter_cov.cfg` | violation of `SpendCommitted` | A p2wsh spend whose witness script parses as a covenant is classified `CovScript` without its hash being compared with the output (inner.rs:240). |
| interp_raw_hash | `MCInterpreter_raw.cfg` | violation of `ConsensusScriptHash` | The stack element Satisfied (a scriptSig `OP_1`, or the witness item `0x01`) becomes the script `OP_TRUE`, and its re-encoding 0x51, not the revealed bytes, is hashed against the output (inner.rs:66). TLC's trace: a scriptSig `OP_1` against `p2sh(hash160(0x51))` is classified as the script True, though consensus takes the pushed 0x01 as the redeem script and rejects the spend. |
| cov_lifecycle | `MCCovenant.cfg` | pass | See below. |
| cov_limits | `MCCovenant_CovLimits.cfg` | violation of `CovLimits` | `from_tree` accepts a 202-op covenant that `new` rejects (cov.rs:281). |
| cov_missing_item | `MCCovenant_MissingItemNamed.cfg` | violation of `MissingItemNamed` | A missing `hashPrevouts` is reported as item 1, the number of `nVersion` (cov.rs:152). |
| cov_for_each_key | `MCCovenant_ForEachKeyAll.cfg` | violation of `ForEachKeyAll` | `for_each_key` uses `for_any_key` on the inner miniscript, so it answers true although one key is rejected (cov.rs:439, against spec line 49). |
| desc_roundtrip | `MCDescriptors.cfg` | pass | See below. |
| desc_pkh_dispatch | `MCDescriptors_RoundTripLaw.cfg` | violation of `RoundTripLaw` | The Display `elpkh(K)` of a Pkh goes to the Bare fallback and is rejected (pretaproot.rs:208, bare.rs:346). No string ever parses to a Pkh. |
| desc_bare_short_panic | `MCDescriptors_NoPanic.cfg` | violation of `NoPanic` | `Bare::from_str` panics on a checksum-valid body shorter than two bytes instead of returning an error (bare.rs:143). |
| desc_bare_from_str | `MCDescriptors_BareFromStrRoundTrip.cfg` | violation of `BareFromStrRoundTrip` | `Bare::from_str` strips `el` and then `from_tree` requires it again, so every Bare Display is rejected (bare.rs:143). |

**interp_safety** checks `TypeOK`, `KeyScriptCommitted`, `SpendDataAccounted` and `KeyDiscipline`:
- A non-covenant classification names a key or script that the output commits to (hash, or encoding).
- The returned stack is exactly the spend data that was not consumed, and the other stack has the required length.
- Keys have the encoding of their context: compressed in segwit v0, x-only in taproot, and uncompressed accepted in legacy.
- The result is an error the code names, or an Inner over full keys, the taproot output key and ASTs parsed from the inputs (`TypeOK`).

**cov_lifecycle** checks `CovTypeOK`, `NewEnforcesLimits` and `CovSpendRecovered`.

`NewEnforcesLimits`: for the covenant held (built by `new`, or parsed by `from_tree` / `parse_insane`, which do not check the limits), `new` on its key and miniscript succeeds exactly when the miniscript is within the ceilings (`WithinLimits`: a satisfaction exists, ops + 24 − free-verify ≤ 201, size + 58 − free-verify ≤ 10000), and a rejection names the right error: `ImpossibleSatisfaction` for the op ceiling, `ScriptSizeTooLarge` for the size. The instance's miniscripts sit on both sides of each ceiling, so an off-by-one in either comparison is caught. It is stated over the held covenant, so that it is a property of the run's states.

`CovSpendRecovered`: every covenant that is built or parsed, and every successful satisfaction of it, gives a spend that the interpreter classifies as that covenant. The classification carries:
- the post-codesep script code;
- the covenant signature on top;
- the eleven items in the wire order of spec §4.3;
- the miniscript witness below them.

**desc_roundtrip** checks `DescTypeOK`, `ParsedBack`, `HonestSpendAccepted` and `SighashCodeAgrees`:
- A Bare Display reads back through the dispatcher.
- A Pkh Display reads back through `Pkh::from_str`.
- Every honest spend from `get_satisfaction` is accepted by `from_txdata` with the descriptor's key or script. A bare `c:pk_k` / `c:pk_h` is accepted as a p2pk / p2pkh key spend, because it has that shape.
- After an honest spend, the script code that `from_txdata` returns for the sighash is the descriptor's `script_code`. A script spend's parsed script re-encodes to the descriptor's `explicit_script`. So the signer and the verifier hash the same script.

Every property of a passing run has a mutant in `PROJECT.json`. A mutant is a plausible bug in the mapped code, and TLC finds the property violated under it:

| Mutant | Plausible bug |
|---|---|
| `PayToTaprootFullKey` | A full key for the taproot key spend. |
| `ShWrappedWshNoHashCheck` | The redeem-script hash check dropped. |
| `ShWrappedWshNoScriptSigCheck` | The empty-scriptSig check dropped. |
| `PayToWitnessScriptHashLegacyCtx` | The witness script parsed under Legacy. |
| `from_treeNoKeyCheck` | The key parse check dropped. |
| `satisfyNoTypeCheck` | The sighash-type comparison dropped. |
| `PkhFromTreeNoKeyParse` | Any key text accepted. |
| `BareFromTreeNoStrip` | `el` not stripped. |
| `PkhSatisfactionSwapped` | Key pushed before signature. |
| `PayToPubkeyHashNoCode` | The p2pkh branch returns no script code, as the taproot key spend does. |
| `newOpsOffByOne` | `>=` instead of `>` in `new`'s op check: a covenant at exactly 201 ops is rejected. |

## Bounds and why they suffice

**MCInterpreter.** The instance has:
- two full keys, one of them uncompressed;
- one x-only key;
- a 33-byte body that is not a point;
- two opaque scripts, one of which is Tap-only.

The spk inputs are all 24 output shapes the classifier distinguishes, built over these. The scriptSigs and witnesses have up to three items. Their top items range over every byte string that an honest or a tampered spend of those outputs carries: keys of every kind, signatures, `0x01`, the empty item, an annex, every script, and control blocks. So every branch and every error return of `from_txdata` is reached (305,856 states).

**MCCovenant.** The opaque miniscripts sit at the edges of `new`:
- 177 ops, which reaches 201 exactly;
- 178 ops with a free verify, which also reaches 201;
- 178 ops without one, which is 202;
- no satisfaction at all;
- a script 8 bytes over the size ceiling;
- a script that is Tap-only.

Satisfiers lack each sighash item in turn, carry either sighash type, and fail or succeed on the inner miniscript.

**MCDescriptors.** Input strings cover every name in the model (with and without `el`), each argument kind (full key, x-only key, key hash, opaque script), and good and bad checksums. The opaque witnesses include `0x01` and the empty item, which `witness_to_scriptsig` turns into `OP_1` and `OP_0`. A Bare spend that pushed `0x01` as it is would be rejected by `instructions_minimal`, so `HonestSpendAccepted` fails if that conversion is dropped.

The code has no loops over data that these bounds would cut short. Each operation is a single pass over at most a few stack items.

## Fairness

None is assumed and no liveness is claimed. Per spec §6 the code is synchronous and side-effect free: every operation is one call that returns. The models are one-shot, so the descriptor runs disable deadlock checking (`CHECK_DEADLOCK FALSE`): a finished round trip has nothing left to do.

## What is proved (TLAPS: `InterpreterProofs`, `InterpreterTypeProofs`, `SpendDataProofs`, `CovenantProofs`, `DescriptorsProofs`)

The eleven theorems rest on these assumptions:
- `KeyAssumption` (ScriptData): key sets are disjoint as the code's byte lengths make them, and `OpaqueCtx` is a function.
- `InputAssumption` (Interpreter): every output script and stack item is `WellFormed`, so its record is built by the constructor its tag names and a p2pk body is never an x-only key. A miniscript or covenant byte string encodes an AST of the model's fragments over the instance's keys (`InputMs`). The hash of a `pk_h` in it may be any hash. `InputHashes` collects the hashes the inputs carry, and `InputMs == MsOver(InputHashes)`.
- `CovAssumption` (Covenant): op counts are naturals or `NoOpCount`, sizes naturals, free-verify flags Booleans, and the inner keys full keys.
- `CovWitAssumption` (Covenant): a witness a satisfier returns for the inner miniscript is a sequence of byte strings. In the code it is a `Vec<Vec<u8>>`.
- `DescWitAssumption` (Descriptors): an opaque satisfaction is a sequence of byte strings and holds no opcode. In the code it is a `Vec<Vec<u8>>`, which `witness_to_scriptsig` turns into pushes.

TLC evaluates each assumption on the run of the module that declares it.

**The theorems.**
- `KeyScriptCommittedInvariant`: `Spec => []KeyScriptCommitted`, for every set of keys, scripts and inputs.
- `KeyDisciplineInvariant`: `Spec => []KeyDiscipline`.
- `TypeOKInvariant`: `Spec => []TypeOK`.
- `SpendDataAccountedInvariant`: `Spec => []SpendDataAccounted`.
- `CovTypeOKInvariant` and `CovSpendRecoveredInvariant`: `CovSpec => []CovTypeOK` and `CovSpec => []CovSpendRecovered`.
- `NewEnforcesLimitsInvariant`: `CovSpec => []NewEnforcesLimits`, for every op count, size and free-verify flag. It rests on the lemma `NewDecides`, which states what `new` returns for any key and opaque miniscript, and on `CovTypeOK` for the held covenant.
- `DescTypeOKInvariant`, `ParsedBackInvariant`, `HonestSpendAcceptedInvariant` and `SighashCodeAgreesInvariant`: `DescSpec => []P` for each of the four properties of the `desc_roundtrip` run.

**Why an inductive invariant is needed.** `KeyScriptCommitted` alone is not inductive, because it says nothing about a `Pending` result. The inductive invariant `IInv` says that the inputs are in their sets and that `res` is `Pending` or equals `from_txdata` of the inputs. `IInvInductive` proves `Spec => []IInv`.

**How the proof goes.**
- Each theorem reduces to a lemma about `from_txdata`: `FromTxdataCommitted` / `FromTxdataDisciplined`. It is proved with one lemma per branch: `PayToPubkeyCommitted` … `BareScriptCommitted`, and the matching `…Disciplined` lemmas.
- The key fact is `ParseEncode`: re-encoding what `parse_insane` returned gives back the parsed bytes. This is why a check of the hash of a re-encoding is a check of the output's commitment.
- `KeyDiscipline` rests on `PkFromSliceKey`, `PkFromElemKey`, `ScriptFromElemValid` and `CovComponentsValid`. These say what key or context a helper can return.

**The typing proof** (`InterpreterTypeProofs`). It uses the same `IInv`, and `FromTxdataTyped` states `ResOK` of `from_txdata` on the inputs. The facts it needs:
- `StacksTyped`: the stacks built from a scriptSig that parses (every instruction is `OP_1` or a minimal push), and from a witness, hold only pushes of input items, `Satisfied` and `Dissatisfied` (`StackElems`).
- `TopTyped`: the top of a non-empty stack, and the element under it, are in the stack's element set. The taproot script spend reads that element, and `Len(W) >= 2` there follows from the guards before it.
- `ParseInsaneTyped`, `ScriptFromElemTyped`, `PkFromElemTyped` and `CovComponentsTyped`: each helper returns an AST of `InputMs` or a full key, or an error the code names.
- One lemma per branch.

A taproot key spend is typed because the output key is not `BadKey`, which is checked before it.

`TypeOK` used to allow only `pk_h` of a key's hash. That was wrong for the code, since `parse_insane` takes the 20 bytes of a p2pkh script as they are. `Inners` now admits the hashes of `InputHashes`.

**The stack-accounting proof.** It uses the same `IInv`. `FromTxdataAccounted` states `AccOK`: for arbitrary stacks `S` and `W`, a classification's stack is the prefix of its side that `Accounting` predicts, and the other side has the length `Accounting` predicts. It has one lemma per branch. They rest on these lemmas:
- `PopPrefix`: `Pop` is the prefix one shorter, `Pop(Pop(s))` the prefix two shorter, and `s` its own prefix. It is proved from `SubSeqProperties`, `SubSeqFull` and `SubSeqOfSubSeq` of `SequenceTheorems`.
- `AccountingOf`: the accounting of each Inner.
- `ClassifiedAccounted` and `NotOkAccounted`.
- `StacksOfInputs`: the stacks built from the inputs are as long as the inputs.

**The covenant proof.** `CovSpendRecovered` relates the result to the descriptor and the satisfier, and it says nothing while the result is `Pending`. So it is not inductive. The inductive invariant `CIInv` adds these facts:
- a held descriptor is valid: a full key and a valid Segwitv0 miniscript (`ValidCov`);
- no result exists before a spend is built;
- a built spend is exactly what `get_satisfaction(desc, sat)` returned (`Spent`): the p2wsh output, an empty scriptSig and the witness;
- the result is `Pending` or `from_txdata` of that spend.

The argument, one lemma per step:
- `GetSatisfactionOk`: a successful `get_satisfaction` means the two hash types agreed. The witness is the signature, the eleven items, the inner witness, then the explicit script.
- `CovClassified`: `from_txdata` on such a spend takes the covenant branch of the p2wsh case. `WitnessStackAppend` pops the explicit script.
- `CovStackLayout`: the remaining stack has the layout `CovSpendRecovered` states. It is proved from `ConcatProperties`, `SubSeqProperties` and `SeqEqual`.
- `CovSpend` combines the three. `NewBuilt`, `FromTreeBuilt`, `ParseInsaneBuilt` and `GetSatisfactionResult` type the results of the other calls, and `CIInvInductive` proves `CovSpec => []CIInv`.

**The descriptor proof.** The inductive invariant `DIInv` says:
- a held descriptor is valid;
- a displayed text is `to_string` of a spendable descriptor;
- a parse result is what its parser returns on that text;
- a built spend is the one `get_satisfaction` returned for one of the satisfiers;
- the result is `Pending` or `from_txdata` of the spend.

The argument:
- `RoundTrip` and `ParseValid`: the parser that accepts the displayed name gives the descriptor back.
- `HonestSpend`: the spend is accepted. It has one case for Pkh and one for each Bare shape (`pk_k`, `pk_h`, opaque), built on the branch lemmas `PkhKeySpend`, `PkKeySpend` and `OpaqueScriptSpend`.
- `PopPushed` (in `InterpreterProofs`): `Top` and `Pop` of a pushed stack. Both proof modules use it.

**Only model-checked.** The violation runs: each shows, on one instance, that the code breaks a property the spec states, and a counterexample needs no proof.

No action property is stated. The steps are single calls with guards that only keep a run to one call of each kind, so a statement about a step would restate its guard.

No liveness property is stated, so there is nothing of TLC's reach that TLAPS would miss on that count. No module uses RECURSIVE.

## Findings

`PROJECT.json` lists eight, each reproduced by a violation run:
- covenant recognition skips the p2wsh hash check;
- the script hash is computed on the re-encoding, not on the consensus bytes;
- `from_tree` bypasses `new`'s limits;
- the `MissingSighashItem` number is wrong for hashPrevouts;
- `for_each_key` has any-key semantics;
- `Bare::from_str` rejects Bare's own Display;
- the dispatcher cannot produce a Pkh;
- `Bare::from_str` panics on a body shorter than two bytes.

## Not modelled

- The miniscript type system and the Wpkh / Sh / Wsh descriptors. They are not under `src/`; only their interface is modelled.
- The pre-taproot dispatcher's Wpkh, Sh and Wsh arms return an opaque `Delegated` descriptor, and an unparseable string is `Garbled`. No property depends on what is inside them.
- The checksum codec and the expression parser. Strings are abstracted to trees plus a checksum flag, so the byte-slicing panic of `desc_str[2..]` is represented by the one input `ShortBody` and its outcome `Panicked`.
- Signature verification, sighash computation, `max_satisfaction_weight`, `address` / `blind_addr`, `translate_pk` and `sanity_check`. These are cryptography or arithmetic over sizes that no property here tells apart.
- The fuzz target itself. It reads an undeclared variable `output` at line 27, so as written it does not compile. The round-trip law it tests is what `ParsedBack`, `RoundTripLaw` and `BareFromStrRoundTrip` check.
