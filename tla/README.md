# TLA+ specifications for Akita

Akita is a lattice-based polynomial commitment scheme written in Rust. This
directory holds TLA+ models of the parts of it whose correctness is a matter of
*order and state*: the Fiat-Shamir protocol between prover and verifier, the
nonce stream that travels with a proof, the caches of NTT prefixes that
threads share, the planner's memoised search, and the places where the tools
around the scheme keep files that several processes may touch. Beside them stand
the sequential algorithms whose result two parts of the program must agree on
byte for byte or address for address: digits, packed storage, the code of the
terminal response, the layout of a witness, the pairing of setup and witness.
The models are checked with TLC on small instances. The safety properties of the
stateful components, the fold protocol among them, and of three of the sequential
algorithms are also proved with TLAPS for every instance, and three components are
shown to implement a short abstract specification.

Paths below are relative to `crates/`.

## 1. Inventory of the system

| Part | State it keeps | Operations | Talks to | Hard behaviour |
|---|---|---|---|---|
| `akita-prover/src/protocol` | transcript, nonce writer, current level, growing proof | `batched_prove`: `prove_root`, then `prove_suffix` level by level, then `prove_terminal_suffix` | derives the grinding plan from the schedule; writes nonces; ships the proof | about 20 optional parts per level, a bounded search for a fold response that must leave no trace when it fails |
| `akita-verifier/src/protocol`, `stages` | transcript, nonce reader, `SuffixVerifierState` | `batched_verify`: shape checks, `verify_root`, `verify_suffix`, `verify_terminal_suffix` | replays what the prover did from the proof alone | must make the same absorptions and draws as code written separately; state handed over between levels |
| `akita-types/src/transcript_grinding_plan.rs` | none (a derived list of runs) | `derive_transcript_grinding_plan` | consumed by both cursors | a third, independent description of the same order |
| `akita-types/src/transcript_grinding/replay.rs` | plan cursor, bit cursor, packed bytes | `write`, `grind`, `write_fold_response`, `record_fold_challenges`, `finish`, `from_bytes`, `reader`, `read`, ... | called at every query of both sides | two cursors that move at different moments of one call |
| `akita-types/src/proof` | none (wire format, presence rules) | serialize, deserialize, `stage3_for_mode` | between the two sides | optional parts decided by the neighbour's parameters |
| `akita-setup` | one matrix file per seed, one prefix-registry file per request, a mutex and a lock file | `new_prover_setup`, `load_prover_setup`, `save_prover_setup` | file system, other processes | inspect-then-replace by several callers, partial saves, power loss |
| `akita-sis-estimator/src/work_cache.rs` | one immutable result file per work id, temporary files | `WorkCache::store`, `load` | file system, other workers | races to publish, crashes, reuse of a dead process's temporary names |
| `akita-planner/src/emit/publish.rs` | destinations, stage and backup siblings | `publish_generated_outputs` | file system, `rustfmt` | one of several renames fails, the rollback fails, the process is killed |
| `akita-planner/src/schedule_params`, `planner.rs` | frontier per successor geometry, a bounded memo of suffix states with two queues | `find_schedule`, the suffix search, `ScheduleMemo::insert` | candidates of a level, selection policies | dominance, lower bounds and evictions must not lose the optimum |
| `akita-planner/src/emit/mod.rs` | a shared counter, per-worker results | `bounded_parallel_filter_map` | table rendering | workers stop on an error or a panic at different moments |
| `akita-schedules`, `akita-config` | generated tables, caches keyed by table | resolve a schedule, bind the instance descriptor | prover, verifier | cache identity |
| `akita-prover/src/compute/cpu/prepared.rs` | a map from key to once-cell under a mutex, a profile per ring dimension | `prepare_ntt_slot_on_prepared`, `drop_built_ntt_slots` | prover threads | builds outside the lock, sharing of larger cells, failed growth, release while in use |
| `akita-types/src/ntt_cache.rs`, `prepared_artifact.rs`, `akita-verifier` terminal check | NTT prefixes with an optional tail, behind a mutex | `prepare`, `install_trusted`, `mat_vec_i16` | verifier, prepared artifacts | overwriting install beside growing prepare; two backends that need tails at different widths |
| `akita-types/src/golomb_rice.rs`, `proof/tail_segments.rs` | none | encode, decode and price the terminal response | prover's search, wire, planner | three tests of "fits" in three places |
| `akita-types/src/sis/decomposition_digits.rs`, `akita-algebra/src/ring/cyclotomic/decomposition.rs` | none | how many balanced digits, and the digits | commitment, verifier's gadget | the borders of the range in words of three widths |
| `akita-prover/src/backend/packed_digits` | staging buffer, packed bytes | writer, views, ranges, iterator | witness of a fold | steps that do not match the blocks |
| `akita-prover/src/backend/poly_helpers` | 16- and 32-bit accumulators | decompose-fold of a tile | fold prover | flush before a 16-bit sum wraps |
| `akita-algebra/src/offset_eq` | none | equality sums over address families | verifier's weights | seven paths for one value |
| `akita-types/src/witness.rs`, `layout` | none (a derived layout) | build, emit, measure | prover, verifier, planner | gaps, uneven chunks, tails of different rings |
| `akita-types/src/setup_contribution`, `commitment_slicing.rs` | none (a derived plan) | products, relation weights, tensors, packed scan, index weights | prover and verifier | five descriptions of one pairing |
| `akita-transcript`, `akita-sumcheck` | sponge; round state | absorb, draw; prove/verify a sumcheck | both sides | order of events |
| `akita-algebra`, `-challenges`, `-witness`, `-serialization`, `-error`, `-pcs` | none of protocol interest | arithmetic, sampling, encodings | everything | arithmetic identities |

What makes the modelled parts correct:

- **Protocol.** The plan, the prover and the verifier describe one order of
  events in three places. They must agree for every legal schedule; a challenge
  must come after what it tests; every message must be bound by a later
  challenge; a proof with other parts than the schedule calls for must be
  refused; an honest proof must be accepted.
- **Nonce stream.** `finish` must notice every entry that was skipped,
  whatever errors a caller ignored on the way. A stream must have one encoding.
- **Setup cache.** A returned setup covers its request whatever was on disk;
  racing callers never take capacity from the shared matrix; a failing save
  neither blocks nor corrupts.
- **Prover NTT cache.** A returned slot covers its request; a failed growth
  neither fails nor evicts anything smaller; nothing is built twice; at rest only
  the largest prefix is kept.
- **Work cache.** Two successful stores of one id never disagree; a published
  result is never replaced.
- **Verifier NTT cache.** A verification never fails because of what is or is
  not cached, and its product is exact for its width.
- **Planner.** No schedule of the domain beats the one found.
- **Parallel map.** The result is that of a sequential map, and no failure is
  lost.
- **Algorithms.** Every fast path computes what the plain definition says, and
  what one side accepts the other side can read.
- **Publication.** Either every output is replaced or every original is back,
  and no kill, and no reuse of names, destroys an original.

The hazards behind these properties, each at its line, are listed in
`PROJECT.json`.

## 2. Modules

| Module | Models | Used by |
|---|---|---|
| `GrindingPlan` | legal fold schedules and the plan derived from them | `FoldProver` |
| `FoldProver` | the prover's transcript, step by step | `FoldVerifier` |
| `FoldVerifier` | the verifier's replay of a given proof | `FoldProtocol` |
| `FoldProtocol` | prover, channel and verifier together; the protocol's properties | `FoldTranscript` |
| `FoldTranscript` | no code of its own: the run a schedule prescribes, and the inductive invariant | `FoldProtocolProofs`, `MCFoldProtocol` |
| `NonceStream` | writer, stream and reader of the packed nonces | `NonceStreamProofs`, `MCNonceStream` |
| `SetupStore` | the setup disk cache and its callers | `SetupStoreProofs`, `MCSetupStore` |
| `WorkCache` | the work-result cache and its workers | `WorkCacheProofs`, `MCWorkCache` |
| `PublishBatch` | batches of generated files | `PlannerProofs`, `MCPublishBatch` |
| `PublishRace` | two publishers of the same files at once | its run |
| `PreparedNtt` | the prover's NTT prefix cache and its callers | `PreparedNttProofs`, `MCPreparedNtt` |
| `VerifierNtt` | the verifier's NTT prefix cache, its artifacts and users | `VerifierNttProofs`, `MCVerifierNtt` |
| `ParallelMap` | the emitter's parallel ordered map | `PlannerProofs`, its run |
| `SuffixSearch` | the planner's suffix search with frontier and memo | `PlannerProofs`, `SuffixOptimum` |
| `SuffixOptimum` | no code of its own: the search without frontier, bounds and memo, and the properties that compare the two | `MCSuffixSearch` |
| `WriteOnce`, `GrowOnly`, `AtomicBatch` | abstract specifications: what `WorkCache`, `SetupStore` and `PublishBatch` promise | these three |
| `Calls`, `Arith` | one call of a sequential algorithm; integer helpers | the modules below |
| `TailCodec` | Golomb-Rice code of the terminal response | `AlgorithmProofs`, `MCAlgorithms` |
| `Digits` | balanced digits, their number, acceptance of a source | `MCAlgorithms` |
| `PackedDigits` | packed digit storage | `AlgorithmProofs`, `MCAlgorithms` |
| `DecomposeFold` | the fold of digit planes by sparse challenges | `AlgorithmProofs`, `MCAlgorithms` |
| `OffsetEq`, `TensorPair` | equality sums over address families and pairs of them | `MCAlgorithms` |
| `WitnessLayout` | rows of the relation and addresses of the witness | `SetupWeights` |
| `SetupWeights` | the pairing of setup cells and witness planes | `MCAlgorithms` |

A `*Proofs` module extends its component and TLAPS (`PlannerProofs` and
`AlgorithmProofs` extend several components each, whose names are distinct for this
reason: `SearchSpec`, `MapSpec`, `FoldSpec`, `PackedSpec`, `TailSpec`); an `MC*`
module gives the constants their values. Definitions introduced as faulty (`LockNothing`,
`FitsTooWide`, `BatchBeforePayload`, ...) are not part of any specification:
each stands for a plausible mistake in the definition that follows it, and
substituting it must make some property fail. They document what a property is
sensitive to.

The three refinements (`ImplementsWriteOnce`, `ImplementsGrowOnly`,
`ImplementsAtomicBatch`) map the files and the callers' states to a few variables
of the abstract specification. They contain the step properties that a reader
would otherwise look for one by one: a published result is never replaced and
all promises agree; a grant covers what was asked, and the capacity shrinks only by loss
or by a caller that could not read it; all outputs change together, and only a killed batch or one that reports
a failed rollback may leave a mixture.

### 2.1 The fold protocol

A *schedule* is the public shape of a proof: nonterminal levels, root first, and
a terminal. A level is a record of what decides its control flow: opening method,
groups (polynomials, arity, blocks), whether it opens a setup prefix, whether its
relation is compressed, the security route (L-infinity, L2 direct, L2 Gram), the
number of product stages and the rounds of its sumchecks. `Legal` is
`FoldSchedule::validate_structure` together with the execution rules on opening
methods. Level `l` is the code's absolute level `l - 1`.

A *transcript* is the sequence of its events: `absorb` or `draw`, a site
`<<level, name, index, round>>`, and whether the value is the one the prover
meant. Steps of prover and verifier correspond to functions: `ProveRoot` to
`prove_root`/`prepare_root`, `ProveClaims` to `prepare_suffix`, `ProveEor` to
`prove_extension_opening_reduction`, `RejectNonce` and `CommitNonce` to the joint
nonce search of `fold_grind.rs`, `SwitchRing` to `ring_switch_finalize`,
`ProveStage1`, `ProveNorm`, `ProveStage2` and `ProveStage3` to the stages of
`prove_fold`, and their `Verify...` counterparts likewise. A query that is not
the next one of the plan takes the side to `off_plan`, which stands for the
cursor's error.

Values are abstracted to *good* and *bad*. The verifier's equations pass as long
as it has used only good values; once it has used a bad one (`vtaint`) each
later step may pass or reject. This is deliberately weaker than the real
verifier: what the model shows to be rejected is rejected by control flow alone,
and what the algebra must catch is stated as "the change is in the transcript
before a challenge" (`ChangeIsBound`).

The channel (`Ship`, `AlterMessage`, `AlterNonce`, `TogglePart`, `SwapBinding`,
`ResizeStream`, `ResizeFolds`) is not code of the repository. It hands over the
proof as it is, or with one difference.

### 2.2 The nonce stream

A plan is a list of runs with a site, a width and a multiplicity. A word is the
function of its bits and the stream the function of its bit positions, so that
OR-ing, masking and offsets are what the code does, and byte borders appear only
as the rounded-up capacity. The writer's and the reader's calls are actions with
arbitrary sites and values. In the code the plan cursor moves *before* the site,
the width and the proof-of-work search are checked; a refused call therefore
leaves the plan ahead of the bits, and the model lets callers continue after
that. `FromBytes` is any byte string off the wire.

### 2.3 The setup cache

A matrix file is its number of field elements (the seed fixes the contents), or
`Absent`, or `Bad` for whatever a load refuses. A registry file is `Absent`,
`Bad`, `Stale` (other slots than required) or `Good`. The process mutex and the
file lock are always taken in this order and released together, hence one lock.
Inspecting and replacing the matrix are separate steps under the lock, the
registry is written after its release, loads take no lock. Any operation may
fail. At the inspection the code tells two failures apart (`lib.rs:373-391`): if the
matrix cannot be opened the save fails (`SaveFails`), while an error met in reading
a matrix that did open counts as an invalid matrix, which is replaced
(`MisreadMatrix`) even if it was valid and larger. A failed generation
(`GenerateFails`) fails the call; a caller may be killed, which frees its lock; a power loss stops everyone
and may turn any renamed file into `Bad`, since nothing is synced. A failed save
of a *repair* fails the load and leads to regeneration; a failed save of a
generated setup is only a warning. `Init` admits any matrix, and registries left
by an earlier release.

### 2.4 The work cache

One action per system call of `store`: look up, create the temporary
(`create_new`), write and sync, hard-link, remove, and re-read on
`AlreadyExists`. Names of temporaries are pid and nonce; a crash resets the
nonce, so a successor under the same pid meets the remains of its predecessor.
`load` is the look-up part of `store`; on its own it changes nothing.

### 2.5 Publication

A batch stages its outputs, formats and syncs them, plans backups for the
destinations that exist, refuses to start if a planned backup name is taken,
then per output moves the destination to its backup and the stage file to the
destination. A failure rolls back in reverse order; failures of the rollback are
collected and the rollback goes on. Contents are batch numbers. A kill may happen
between any two operations; the next batch may get the same names. Batches
follow each other in this model.

`PublishRace` lets two processes publish the same destinations at once, which
nothing in the code excludes. Their stage and backup names differ, so it keeps
only the steps that touch destinations. The comment of
`publish_generated_outputs` (`akita-planner/src/emit/publish.rs:76`) says "A
publish failure restores every destination already replaced by this batch";
`FailuresRestore` states what this means for the files that were there before,
and the run refutes it (section 3).

### 2.6 The prover's NTT cache

A call of `prepare_ntt_slot_on_prepared` is a thread with a requested size. Its
steps are the critical sections of the code: `Find` or `Insert` under the mutex,
`BeginBuild`, `FinishBuild` or `Join` for `OnceLock::get_or_init`, `Retain` under
the mutex after a success, `RecordProfile`, and `Discard` under the mutex after a
failure. A foreign failure leads back to `lookup`. One ring dimension and domain
are modelled, because every filter in the code compares both. A call inserts one
cell at most (a second round only follows a failure of somebody else's cell), so
a cell is named by its inserter; this gives the identity that `Arc::ptr_eq` tests.
`build_ntt_slot_for_key` depends on the key and the immutable setup alone, so
`Buildable` is a set of sizes. `Release` is `drop_built_ntt_slots`; its comment
asks for "a quiescent lifecycle boundary" only for callers "that need an empty
cache", so the model lets it happen at any moment. After a release in the middle
of a call, that call's late `Retain` can evict a newer smaller slot while its own
is no longer in the map; the only cost is a rebuild, and for this reason
`BuiltOnce` and `KeepsServing` speak of runs without a release. A builder that
panics (poisoned mutex, an uninitialised cell retried) is not modelled, nor is the
dispatch error for an unsupported ring dimension, which returns before any state
is touched.

### 2.7 The verifier's NTT cache

A prefix has a base and, when the CRT primes of its backend do not suffice for its
width, a tail with one more prime. `Warm` and `LookUp` are the two `prepare` calls
of a verification, each under the mutex with the build included; `Multiply` is
`mat_vec_i16` on the prefix it holds. `Install` puts an artifact, always scalar,
over whatever the slot holds. The IFMA52 and scalar backends need tails from
different widths, and a product takes a tail when its own backend calls for one:
`NoCallFails` is the statement that all these conditions fit together in every
order of installations and look-ups, also on a machine of the other backend.

### 2.8 The planner's search

A state is what `SuffixState` is: a level, a length, the basis the witness was
opened in (`lb`), the moment of the response model (`None` when the model is off or at
the root), a dimension ceiling and the topology with, after an offloaded edge, a
prefix. Below the root a candidate's inner basis is `lb` and its opening basis no
smaller, and it names the moments under which it is derived; the memo keeps states
apart that differ in either. How a fold changes the moment is the constant operator
`NextMoment`. `Enter`, `Batch`, `Visit`, `SearchDirect`, `SearchOffloaded`, `Price`,
`NextBatch` and `Finish` are the phases of one activation of the recursive search,
with an explicit stack; `Hit` is the memo. The frontier keeps per successor
geometry what no other schedule dominates; lower bounds skip an edge; the memo has
two queues with quotas and second chances. Candidates and their sizes are the
input, since the formulas behind them (`candidate.rs`, `response_model.rs`) only
supply numbers. The reference, `AllSchedules` of `SuffixOptimum`, is the recursion
without frontier, bounds and memo.

`OptimumFound` compares the selected schedule with the whole domain by the numbers of
`complete_schedule_score`, and by the descriptor with the schedules of the candidates
that `prune::level_candidates` keeps. The distinction is needed: a candidate that is
larger in a coordinate the objective then does not see (its setup under a larger one,
say) is dropped even if its descriptor is smaller, so that among schedules of equal
numbers the descriptor need not be the smallest of the whole domain. Whether the
formulas of the planner produce such a pair of candidates is not modelled.

### 2.9 The parallel map

Workers claim indices from an atomic counter; a worker stops at its first error or
panic; the caller joins them in spawn order, returns at the first failure and the
thread scope waits for the rest. Each item maps to a value, to nothing, to an
error or to a panic, in every combination.

### 2.10 Sequential algorithms

A call is a record of the algorithm, its input and the results of its stages
(`Calls`). `Init` starts any call of any algorithm; the stages of a call are the
places where one part of the program hands its result to another (search to
encoder to decoder, layout to emission to measurement to setup weights), so that
a property compares what separately written functions say.

- `TailCodec`. Payloads are bit sequences, integers are zigzag-mapped and
  Golomb-Rice coded, with the sparse low bits, the quotient limit, the padding
  and the planner's price. One corner is set apart as `BeyondLimit`: on the L2
  route without low bits the search accepts `i16::MIN` and the decoder's quotient
  limit, computed from `i16::MAX`, is one short, so `TailDelivered` does not
  claim that such a response is decoded.
- `Digits`. The words of 128, 64 and 32 bits become words of 8, 7 and 6 bits; a
  digit's basis is at least 4 (policies start at `log_basis` 3, and with basis 2
  no digit is positive), and the modulus leaves the room at the end of the word
  that the configured fields leave. `num_digits_for_linf_cap` is compared where
  its signed width is below the field's. `balanced_decompose_pow2_with_carry` has
  no caller and is left out.
- `PackedDigits`. Storage is the set of its set bits; blocks have 4 digits
  instead of 64 and bytes 4 bits. Callers of the writer stop at the first error.
- `DecomposeFold`. `i16` becomes a type with largest value 7; the 32-bit sums are
  unbounded, as the norm bounds of a schedule keep them small. Vector kernels are
  taken to do what the scalar ones do.
- `OffsetEq`, `TensorPair`. Field elements are integers modulo 5; the caps that
  select paths are scaled down so that every path is taken. The dense left path checks
  the addresses of the first family against the length even if its weight is zero, before
  it looks whether the families share their destinations (`FirstLeaves`); `LeftExact`
  allows that refusal.
- `WitnessLayout`. A digit is the tuple that says which digit it is. The prover's
  emission, the addresses used by the weights of the relation and the planner's
  length are built from their own source.
- `SetupWeights`. A term is a setup cell, its lane in the native ring, the address
  of the plane it multiplies, the row of the relation and the fold digit.
  Prover products, prover weights, the verifier's tensors, its packed scan and its
  weight of a single index must give the same bag of terms. A has exactly
  `positions * inner digits` columns; the code only requires at least as many, and
  the prover's views take `a_col_len` for the stride where the verifier's weights
  take the product, so the two agree for schedules that meet this with equality.
  `d_start` of `layout/params.rs` counts physical instead of logical rows of B,
  which its comment does not say; only tests call it.

## 3. Runs

| Run | Question | Instance | States |
|---|---|---|---|
| `WorkCache` | can racing, crashing workers disagree or replace a result? | 2 workers, 2 results, 2 stores per life, 2 faults | 15 thousand, up to symmetry |
| `NonceStream` | can a skipped, misplaced or unread bit survive `finish`? | 5 runs of widths 1, 0, 2, 0, 1, one of them a fold group of three entries; 6 bit positions, 2-bit words | 6 thousand |
| `SetupStore` | can callers lose capacity or get too small a setup, and does every call return? | 2 callers, requests of three sizes, 2 calls, 2 faults | 330 thousand |
| `PublishBatch` | can an original be lost, or a batch be half done? | 2 outputs, 3 batches, 2 name keys, 3 faults | 20 thousand, up to symmetry |
| `PublishRace` (violation) | does a failed batch restore the originals when two run at once? | 2 publishers, 2 outputs, 2 faults | counterexample |
| `PreparedNtt` | can sharing, failed growth or a release give a wrong, missing or doubled slot, and does every request return? | 3 calls, 3 sizes of which 2 can be built, 1 release | 55 thousand |
| `VerifierNtt` | can an installation break a running verification? | 2 verifications, 3 widths, 2 heights, both backends, 2 installations of any artifact | 59 thousand, up to symmetry |
| `ParallelMap` | is the result that of a sequential map? | 3 items of every kind, up to 3 workers | 26 thousand |
| `SuffixSearch` | do frontier, bounds and memo lose the optimum? | 6912 searches of up to 5 folds, three policies | 1.2 million |
| `SuffixBudget` (violation) | does the search fail only if no schedule exists? | the searches with a tight setup budget | counterexample |
| `Fold` | do plan, prover and verifier agree, is an honest proof accepted, and what happens to a proof with one difference? | 324 schedules of 1 to 4 levels; every single change on the 102 of up to 3 levels | 469 thousand |
| `Algorithms` | does every path of every algorithm compute its definition, and do both sides agree? | all calls of the families in `MCAlgorithms` | 363 thousand |

What the runs check, beside the refinements:

- `NonceStream`: `FinishedIsComplete` (a finished stream holds every planned
  value at its place), `NoSlackBits` (one encoding), `RoundTrip`.
- `SetupStore`: `NextLoadHits` (after fault-free calls the next load needs no
  generation), `CallReturns`.
- `PublishBatch`: `SettledKept` (what a batch that ended found or made is still
  there, also after kills and reuse of names).
- `PreparedNtt`: `ReturnedCovers`, `FailureIsOwn` (nobody fails for another's
  size), `BuiltOnce`, `OneSlotLeft`, `EveryCallReturns`.
- `VerifierNtt`: `NoCallFails`, `ProductsExact`.
- `ParallelMap`: `OrderIsInputOrder`, `FailuresReported`, `CallEnds`.
- `SuffixSearch`: `OptimumFound`, `QueuesNameEntries`.
- `Fold`: `NeverOffPlan` (all queries are the plan's next), `Lockstep` (both
  transcripts agree event for event), `BoundBeforeDrawn`, `ChangeIsBound`,
  `AcceptedShape`, `HandoverFits`, `HonestAccepted`.
- `Algorithms`: `TailDelivered`, `TailCanonical`, `TailPriced`; `DigitsExact`;
  `PackedExact`; `FoldExact`; `AffineExact`, `PairExact`, `LeftExact`;
  `WitnessPlaced`, `WitnessMeasured`; `SetupPaired`.

The type invariants and the inductive invariants of the proved components
are theorems for all instances and are not repeated as invariants of their runs;
nor are `StoresAgree`, `ResultImmutable`, `ShrinksOnlyUnread`, `WithinBytes` and
`KeepsServing`.

Two runs end in a counterexample:

- `PublishRace`. Whether a destination needs a backup is decided for all outputs
  (`publish.rs:172`) before the first is moved. A second publisher that looks while
  the first has moved a destination away plans no backup for it; the first fails
  and restores the original; the second replaces it, fails at a later output and
  rolls back by deleting. Both report a failure with a clean rollback, and the
  original is gone. The generator is normally run by one process at a time.
- `SuffixBudget`. `frontier.rs:740` compares terminal schedules by payload alone
  before `child_choice` applies `setup_field_budget` (`suffix_dp.rs:314`). A
  terminal over the budget can dominate one within it, and the search then returns
  `UnsupportedSchedule`, which `akita-planner/README.md:152-153` reserves for "when
  no valid complete schedule exists in the audited fold domain". `SuffixSearch`
  therefore checks `OptimumFound` on budgets that no dominating terminal exceeds.

Why the bounds are enough for the questions asked:

- *WorkCache.* A disagreement needs two workers and two results. Two faults
  allow a crash that leaves a partial temporary and a further failure of its
  successor; the second store of a life lets one worker both publish and lose.
- *NonceStream.* The plan has every kind of run (proof of work with and without
  bits, response, fold group), a width above one, a multiplicity above one, and
  ends two positions before the capacity, so that overruns, padding and skipped
  entries are all possible.
- *SetupStore.* Three sizes distinguish "smaller", "equal" and "larger" from both
  callers' view, a plain request needs no slots, two calls race or follow each
  other, `Init` admits what earlier ones left, two faults combine a failed save with a
  power loss.
- *PublishBatch.* Two outputs are one published and one not yet; three batches
  over two keys make a later batch reuse a killed one's names while an older
  backup is still there; three faults allow kill, failure and failed rollback.
- *PreparedNtt.* Three calls are an inserter, a second holder of its cell, and a
  larger request that fails or a late one that inserts the same key again. Three
  sizes have one below and one above the middle; the largest cannot be built. The
  proofs cover any number of calls.
- *VerifierNtt.* Width 1 needs no tail, width 2 one with IFMA52 only, width 3 is out
  of reach for IFMA52 and needs a scalar tail. Two heights make a slot that is too
  short, two installations one before and one between the steps of a verification.
- *ParallelMap.* Three items on three workers are a failing one, one before and one
  behind it, on threads joined in any relation to the failure.
- *SuffixSearch.* The memo holds 2 direct and 1 prefixed entry and probes once, so
  that searches of five folds evict, re-enter and meet second chances; payloads
  and setup sizes are chosen so that dominance and bounds both prune. Two bases and
  two moments make states that differ in nothing else; folds of one level differ in
  the moment they lead to, in the security route, or in the size of the D image alone,
  and in some searches each of these decides. Level pruning
  compares padded setup lengths while the moment behind an offloaded edge depends on the
  natural one; in the candidates it compares here, lengths that pad alike are equal.
- *Algorithms.* Every width of the code is a constant and is scaled so that its
  border lies inside the enumerated inputs: bytes of 3 bits and `i16` with maximum
  15 for the tail (responses of 1 to 11 coefficients, payloads off the wire of up
  to 4 bytes), words of 8, 7 and 6 bits with moduli 29, 61, 113 and 241, blocks of
  4 digits, ring dimension 4 with narrow sums up to 7. The paths' thresholds
  (`LowBitsCap`, `HighBitsCap`, `FastRowsMin`, `RotatedWeight`) are small enough for
  each path to be taken. Levels have one to three groups in rings of 2, 4 and 8,
  with 1 to 4 chunks, uneven slices, compression and both opening methods; two
  compression maps and scans of 3 rings.
- *Fold.* Schedules cover: one polynomial and a mixed root, packing and
  trace levels, every route, prefix and compression setting, extension degrees
  1, 2 and 4, with and without product stages. The prefix group has another arity
  than the witness group so that a mix-up shows. A fourth level gives a middle
  trace level with trace neighbours on both sides; nothing in the code looks
  further than one level ahead or back. Two tries stand for the search limit.

`CHECK_DEADLOCK FALSE` is set everywhere: proofs and algorithms end, and calls,
faults and batches are bounded, so every model may stop.

### Fairness

Four liveness properties are stated. `CallReturns` assumes weak fairness of
every caller's own steps: a thread that can take its next step takes it. The
lock needs no fairness of its own, since with finitely many calls it ends up
free; kills and power losses are never assumed. `EveryCallReturns` likewise
assumes weak fairness of each call's own steps once it has begun: its mutex
is never held across a build, a build ends, and finitely many calls can only
insert finitely many failing cells. No call is forced to begin and no release to
happen. `CallEnds` assumes weak fairness of the caller and of every spawned
worker, that is, that the operating system runs a thread that can run; mapping one
item ends. `HonestAccepted` assumes that as long as nothing is altered prover,
verifier and delivery go on (`WF_vars(tamper = "none" /\ Next)`); both sides are
straight-line programs without waiting.

## 4. Proofs

The eight `*Proofs` modules prove, for every value of the constants that
satisfies the named assumptions, an inductive invariant of each component
(`Init => IInv`, `IInv /\ [Next]_vars => IInv'`) and from it the safety properties
its run checks. The three refinements are proved as well: the initial states map to
initial states, and under `IInv` every step maps to a step of the abstract
specification or leaves its variables alone. `PROJECT.json` lists the 49 theorems a
reader should know of; 28 of the 40 properties of the passing runs are among them.

**WorkCache** (`WorkCacheAssumption`: file states other than results are
distinct). `StoresAgree` alone is not inductive: a worker that has linked and not
yet returned has decided the outcome without being acknowledged. `OneWinner`
counts it as a winner and ties all winners to the content of the destination;
`LinkedIsWritten` says that what is about to be linked is complete and the
worker's own, which needs `NonceOfStep` to name the file. `ResultImmutable` is
then a property of single steps. For the refinement of `WriteOnce`
(`WorkCacheIsWriteOnce`), `Link` sets the register; a return of Ok is a promise,
and `OneWinner` is what makes it a promise of the same value as all before it
(`ReturnsPromise`).

**NonceStream** (`PlanAssumption`: what `GrindingPlan::new` enforces - a run that
holds bits is a single entry - with the total as the running sum of widths). The
key is that the bit offset never exceeds the offset at which the current run
starts (`WriterBehindPlan`, `ReaderBehindPlan`), and that *equality* means that
nothing was skipped (`WriterExact`, `ReaderExact`). An ignored error makes the
inequality strict for an entry that has bits, and it stays strict, so the final
comparison of the bit cursor with the total detects it. `CleanAbove` keeps the
positions above the offset zero, which OR-ing needs.

**SetupStore** (`SetupAssumption`: distinct file states, positive sizes).
`LockHeld` gives mutual exclusion between inspection and replacement, from which
`InspectionHolds` (the decision to replace is still right when it is carried out)
follows; `ShrinksOnlyUnread` rests on it: a valid matrix gives way to a smaller one only
to the holder of the lock, after a read error on that matrix. That is what
`specs/flat-public-matrix-and-exact-ntt-cache.md` promises ("a monotone max-join
and cannot shrink under racing small and large requests") as far as the code keeps it:
races alone never shrink the matrix, a read error during the inspection may. `MemoryCovers` and `DiskCovers` carry
the sizes through the load, repair and save paths. In the refinement of `GrowOnly`
(`SetupStoreIsGrowOnly`) the three ways a call returns are grants
(`ReturnGrants`, from `MemoryCovers` and `ReadyIdle`), and replacing the matrix is
a step that grows, by `InspectionHolds`, or the `Overwrite` of the one caller that
could not read it, while nobody else changes the capacity.

**PublishBatch** (in `PlannerProofs`; `PublishAssumption`: at least one output, `Absent` is not a
number). `Recoverable` says where the original of every output is, by the two flags
of its `StagedOutput`: at the destination, in the backup the batch holds, or nowhere
(`Accounted`). The rollback follows the flags from the last output to the first, so
below the index outputs are still accounted for and above it they are rolled back.
`StagedWaits` and `PublishedSoFar` carry what the publishing loop needs: the stage
file is still the batch's, and the planned backup paths are free, which is what
keeps a batch that reuses the names of a killed one from overwriting a backup
(`SettledKept`; it also needs that what is settled is older than the open batch).
The refinement of `AtomicBatch` (`PublishBatchIsAtomic`) maps the last replacement
to the switch of all destinations.

**PreparedNtt** (`NttAssumption`: sizes are naturals, `None` is not a call).
`BuiltOnce` is not inductive: whether a second cell of a size may be inserted
depends on what has become of the first. `NothingLost` says that a built cell, and
an unfinished one that was evicted, are covered by a built slot of the map, so that
an insertion proves there is no live cell of that size. It survives `Retain`
because what evicts is itself built, hence served (`ServeStep`, which also is
`KeepsServing`). `InserterHolds` ties a cell to its inserter, so that a failed one
is out of the map when its inserter has returned (`FailedIsGone`), and
`EvictedBelow` records that its inserter has already cleared what is smaller; the
two give `OneSlotLeft` at rest, with releases.

**VerifierNtt** (`NttAssumption`: the IFMA52 thresholds are at most the scalar ones).
A slot may hold a prefix of either backend, since artifacts are scalar and whatever
the slot held is replaced. `Sound` says what is true of both: the primes reach the
width, and a width for which the plan of this machine needs no tail has none in its
slot. `Fits` adds the lengths; it is established by `prepare` (`ServedFits`), it
implies that the product accepts the prefix (`FitsMultiplies`) and that it is exact
(`FitsExact`), and an installation cannot take it from a call that holds its prefix.

**ParallelMap** (in `PlannerProofs`; `MapAssumption`: any number of items, at least one worker).
`OrderIsInputOrder` and `FailuresReported` speak of a call that has returned; what they
rest on is where every item is in the meantime. A claimed index is at the worker that
maps it or, once, among the values of one worker (`ClaimedOnce`), since a claim reads
the counter and moves it in one step. A claimed item that fails is being mapped or has
stopped a worker, and the workers that stopped without one found no item left
(`FailuresKept`). So if all joined handles were good (`JoinedInv`), every index was
claimed and mapped, the output is exactly the values, each once, and sorting by index
puts it in input order. Conversely, the loop is left at a failure only, and a panic the
loop did not reach comes out of the scope. The loop of a single worker has an
invariant of its own (`SequentialInv`).

**Planner search** (in `PlannerProofs`; `CapacityAssumption`: both quotas of the memo are
positive; `PaddedAssumption`: padded lengths are naturals). `MemoQueuesNameEntries` is
about the memo: for every search and every capacity its queues name exactly its
entries, each once, within their quotas. It needs what one turn of the eviction's
second chance does to a queue (the front is dropped or moves to the back), by induction
over the probes. The other three theorems are about the costs, and say why a dominated
suffix is never needed, without following the search: `AlignmentOrderExact` (comparing
proof bytes and the alignment at which the next byte begins is the same as comparing
the cost below *every* parent, whatever nonce bits it adds); `DominanceKeptByParents`
(what extends a dominated schedule extends the dominating one, and the order between
the two holds again above the edge); `DominanceKeepsObjective` (at the root the order
implies that of the objective). `DominanceKeptByParents` assumes `Unbudgeted`, no
setup budget: with one it is false, and the run `SuffixBudget` is the counterexample.
That the whole search, with its lower bounds and evictions, returns the optimum is
left to TLC.

**Fold protocol** (`ScheduleAssumption`: the schedules are ones `validate_structure`
accepts - any number of levels, groups, polynomials, blocks, product stages and rounds,
any power of two as extension degree -
and `TriesAssumption`: the nonce search tries at least once). All the safety properties
of the protocol are proved, for schedules of any length. The argument has five parts.

1. *The run as an expression.* `FoldTranscript` writes the transcript of a whole run as
   one expression of the schedule: a level is the concatenation of its steps' events
   (`Section`), the run that of its levels (`Before`, `Full`). `FullCovers` is the heart
   of the matter: the queries of the run are the plan, in order and in number. It is
   built from one lemma per step (`Covers` relates a list of events to a piece of plan,
   `CoversConcat` joins two), and is where `derive_transcript_grinding_plan` and
   the prover's code, written in different crates, meet.
2. *The prover* (`ProverAt`). At every step it has written `Reached`, the run up to that
   step, its cursor is the number of queries in it, and it has shipped what is due
   (`Sent`). The step is `Located`: a level has a norm stage, a reduction, a setup stage
   only if the schedule says so.
3. *The channel* (`WireInv`). What a single change leaves true, by kind of change.
4. *The verifier* (`VerifierAt`, `CheckedInv`). Its transcript is `Reached` up to the
   values it was given, and holds a bad value exactly if it has read one: from the
   messages in `Heard`, or from the stream up to its cursor (`ReplayAt`). `Lockstep`
   alone is not inductive, since it says nothing of changed proofs, on which the
   verifier must stay on plan too. `CheckedInv` keeps what the verifier has found out
   about optional parts and what it carries to the next level. Neither half
   can do without the other: without `CheckedInv` the verifier might read a stage the
   schedule does not have, and without `ReplayAt` nothing says where it is.
5. *The properties.* `NeverOffPlan` and `Lockstep` follow from the place each side is
   at. `AcceptedShape` needs that at the end every level has been checked and that a
   part that was added or removed lies at some level. `ChangeIsBound` needs that
   everything in a proof is heard somewhere (`HonestIsHeard`) and that after every
   message but the terminal response there is a query. `BoundBeforeDrawn` is a property
   of the run: messages and queries of each step are classified by name, and the order
   of the steps gives the order of the events.

The definitions folded over here (the rounds of a sumcheck, the stages of a level, the
levels of a schedule) need induction over naturals. The library's induction theorems
take an operator as a parameter, which the installed backends do not instantiate;
`SetInduction` states induction for a *set* of naturals instead, proved from the
least-element principle (`WFMin`), and each use defines the set of numbers for which
its claim holds. To be reasoned about in this way, `PolyCount` sums by a recursive
function, a cursor counts queries by cardinality, and the events of each step have a
name of their own. The four parts of `IInv` were
checked with TLC before they were proved, on the schedules of up to two levels and
those of three over the quadratic extension, with every single change (170 thousand
states). `MCFoldProtocol` extends `FoldTranscript`, so they can be checked again.

**Decompose-fold** (in `AlgorithmProofs`; `FoldAssumption`: any ring dimension, number of
blocks, width of the narrow accumulators and weight from which rotations are tabled;
planes whose coefficients keep to the stated bound, challenges with distinct positions).
`FoldInv` says of a tile after any number of blocks that wide and narrow accumulators
together hold the sum over the blocks done, and that the tile's running bound bounds what
the narrow ones hold. `FoldIsExact` alone is not inductive, since it speaks of the tile
after its last flush. For each of the four plans of a challenge (rotation table, narrow,
chunks, wide) a lemma says what the kernel adds; for the chunks, that they cut the
challenge without loss and that each fits beside the bound after its flush. It follows
that no narrow sum wraps, for every source and challenge (`FoldTilesHold`). Sums over a
range are recursive functions; splitting, bounding and exchanging them are lemmas.

**Packed digits** (in `AlgorithmProofs`; `PackedAssumption`: a digit is at most a byte wide
and a block is a whole number of bytes). `PackedInv` says of a writer after any turn of
its loop: what it has flushed is the encoding of the digits below its flush position,
what it stages are the digits that follow, and every digit so far is within the smallest
and largest it remembers, which is why `finish` refuses what the width cannot
hold. The readers (view, range, iterator with any step sizes) are shown to return the
slice that was asked for. Bytes are sets of bits, so the encoding rests on two facts
about powers of two: that bits below a power add up to less than it, and that a number
below it has one set of bits. Powers are cardinalities of sets of subsets here.

**Terminal response** (in `AlgorithmProofs`; `TailAssumption`: any byte width and `i16`
maximum, coefficients are integers, a scheduled cap or scale is positive, and a cap that is
used as a bound of the coefficients is within `i16`). `TailInv` names the stages of a call
on either side. The theorems on it rest on four groups of lemmas.

1. *Codes in payloads.* `Lies` says that a code stands at an offset of a payload. The loop
   of `read_unary_ones`, which skips whole bytes, and the decoding loop are shown to
   return exactly what lies there, by induction over their turns. `DecodePayloadExact`
   states both directions: the decoder returns values if and only if the payload keeps to
   the budget, their codes lie one behind the other in it, each within the quotient limit
   and the range of an `i16`, and the padding is canonical.
2. *Delivery.* What the search accepts fits the scheduled width and the quotient limit
   (`AcceptedFits`, `AcceptedQuotient`), so it is encoded, and by the first group decoded to
   itself. The exception is `BeyondLimit` of section 2.10, which the proof cannot avoid.
3. *Canonical form.* A payload is determined by the values that lie in it, since what
   follows them is zero and its length is that of the bytes they need; so the
   verifier accepts only what the encoder writes, padding included.
4. *Price.* `TailIsPriced` is the inequality of Cauchy and Schwarz (the sum of absolute
   values is at most the root of number times energy), the exactness of the integer
   square root and the rounding of sums of quotients, for every number of coefficients.

**Only model-checked.**

- `HonestAccepted`, `CallReturns`, `EveryCallReturns` and `CallEnds`, since the prover
  does not handle fairness.
- Two publishers at once, a counterexample.
- `OptimumFound`: its reference enumerates all schedules by a `RECURSIVE` operator, which
  the proof manager does not accept beside its SMT backend. What its proof would need of
  the costs is proved; that pruning, bounds and memo together leave a best schedule is
  not.
- `DigitsExact`: the saturating powers of `Digits` are a `RECURSIVE` operator, and its
  carries are folds with an operator argument, which the backends do not instantiate.
- `PairExact` and `LeftExact`: `TensorPair` declares `RECURSIVE` operators for its
  automaton over carries.
- `AffineExact`: equality sums over products of a list of field elements modulo a prime,
  by seven paths; it would need a theory of these products in the proof manager first.
- `WitnessPlaced`, `WitnessMeasured`, `SetupPaired`: layouts and bags of terms built by
  folds over sequences of groups, chunks and tails.

## 5. Not modelled

- *Arithmetic.* Field, ring and NTT arithmetic, vector kernels, sumcheck
  polynomials and commitment products are identities over large primes, beyond both
  tools. This, with generated tables, tests, benches and examples, is by far the
  larger part of the repository's lines, which is why the share of mapped lines
  stays small.
- *Numbers behind decisions.* The grinding bits of a query, the candidates of a
  planner level and their sizes, the lattice estimates. The models take them as
  inputs.
- *Distribution* of sampled challenges.
- *The sponge* is the sequence of its events; `ChallengeAudit` exists only under the
  `logging-transcript` feature.
- *Byte layout* of proofs and setup files beyond the presence rules and the tail.
- *The reduced-evaluation functionals* and the values of the setup weights: only
  which cell meets which plane in which row is modelled.
- *The prover's compression NTT cache*, which is a copy of the pattern of
  `PreparedNtt` with its own lock, and the *catalog caches*, which are filled once
  from constants.
- Generated schedule tables, benches, examples, fuzz targets, scripts, profiling
  and the book are data or tooling.

## 6. Plan

1. *Done:* the stateful components (work cache, nonce stream, setup cache,
   publication, both NTT caches, parallel map, planner search), the fold protocol
   with its plan, the algorithms of section 2.10, three abstract specifications with
   their refinements, and the proofs of section 4.
2. *Next modules:* the prover's `compression_cache.rs`; the two catalog caches of
   `akita-schedules`; grinding widths and soundness accounting of a plan run; the
   setup-prefix registry (`proof/setup_prefix.rs`).
3. *Abstract specifications:* a list of values that `NonceStream` implements.
4. *Proofs:* `DigitsExact`, with the powers and carries of `Digits` written as recursive
   functions in the way of `TailCodec`; then the layouts (`WitnessPlaced`,
   `WitnessMeasured`); then the planner's optimum, from the three theorems about
   dominance and an invariant of the search's stack.
