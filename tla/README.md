# A TLA+ verification of the DPDK flow router

This directory specifies the core of the flow router in TLA+, checks the
specifications with TLC on small instances, and proves the most important
properties with TLAPS for every value of the constants. `PROJECT.json` lists the
components, the runs, the theorems, the hazards and, for every definition, the
source lines it models. Paths below are relative to `src/`.

## 1. The system

The process forwards packets between two TAP ports. A Go control plane owns the
lifecycle and the rules; a C library under it owns the DPDK resources and the
packet path. The threads are:

* the **owner**, one OS thread (`control/dataplane/dataplane.go`, `Runtime.owner`),
  which initializes the EAL, configures the rules, sets up ports and mempool, runs
  worker 0 itself, joins the others, tears everything down and cleans up;
* up to four **workers** (`dataplane/native/dp_worker.c`), one per lcore, each with
  one RX and one TX queue, which poll, parse, look up, act and transmit;
* any number of goroutines that call the **rule API** (`control/dataplane/rules.go`)
  and so become **publishers** inside the native library (`dp_lookup.c`);
* the **signal goroutine** of `cmd/flow-router/main.go`, which reloads the rules on
  SIGHUP and requests a stop on SIGINT and SIGTERM.

| Component | State | Operations | Interacts through | What is hard |
|---|---|---|---|---|
| rule publication, `dp_lookup.c` | active pointer, snapshots, QSBR variable, writer lock, counters | configure, publish, teardown; register, quiescent, unregister | an atomic pointer and QSBR counters shared with workers; a mutex shared by publishers and owner | a worker uses a snapshot that was replaced meanwhile; readers that idle, start or stop during a grace period; failing builds |
| workers and run control, `dp_worker.c` | per-worker flags and result, `dp.stop`, live counters | launch, poll, stop, join | `dp.stop`, rules | one launch or one worker fails while others run; stop before the run |
| packet path, `dp_worker.c`, `dp_tx.c` | the burst array, mbuf ownership, 16 counters | process, compact, transmit, complete | nothing shared with other workers | in-place compaction, partial transmission |
| parser and action, `dp_parser.c`, `dp_action.c` | the packet | parse, rewrite | packet metadata | lengths at their limits, checksum order |
| lifecycle, `dp_runtime.c`, `dp_port.c`, `dataplane.go` | EAL, ports, pool, flags, errors | init, setup, run, teardown, cleanup | ordered calls | any call may fail; what is left behind must be released in order or kept on purpose |
| rules file and tables, `rules.go`, `binding_linux.go`, `dp_lookup.c` | the document, temporary C arrays, hash and LPM tables, action store | parse, validate, build, look up, free | one rule set in four representations | three validators in two languages; builds that fail at any rule; action indices and prefixes at their limits |
| statistics, `dp_runtime.c` | a counter block per worker | sum, copy | read by the owner after the join | a report while or after workers fail |
| rule API, `rules.go` | `rulesMu`, `rulesOpen`, `currentRules`, `generation` | Replace, Add, Delete, RulesGeneration | mutex, `ready` channel, native publish | two copies of the rules; calls before, during and after the run |
| signals, `main.go` | one-place channel | reload, stop | Runtime methods | dropped signals |

What makes them correct is stated in section 4. The threading contract the models
rely on is the one of `dp_api.h:101-105`: only `dp_publish_rules` and
`dp_dataplane_request_stop` are called from other threads than the owner.

## 2. Modules

| Module | Models | Notes |
|---|---|---|
| `QSBR` | `rte_rcu_qsbr` (external) | the shared accesses of the calls `dp_lookup.c` makes; `thread_online` and `quiescent` are two accesses, load and store |
| `SafeReclamation` | what publication promises | abstract: an object is reclaimed only when it is neither current nor held |
| `RulePublication` | `dp_lookup.c`, `dp_worker_run`, `dp_dataplane_run`, teardown, cleanup | extends `QSBR`; one step per access another thread can see; refines `SafeReclamation`. `PublishEnters` is a call of `dp_publish_rules`, which has no guard of its own before the lock; the run of this module alone calls it under the contract of `PublishCall` (not during `dp_configure_rules`, which takes no lock) |
| `PacketBurst` | `dp_process_packet`, the burst loop, `dp_complete_tx` | one worker; a verdict is one step |
| `PacketHeaders` | `dp_parser.c`, `dp_apply_action` | a frame is its lengths and the fields the control flow depends on |
| `Lifecycle` | `Runtime.owner`, `finishLifecycle` and the native calls under them | every call may fail, those of the interface `cleanupAPI` (teardown, statistics, cleanup) included; their errors are combined as `finishLifecycle` does it |
| `RuntimeRules` | the publishing goroutines of `rules.go` and `Runtime.owner`, each native step being a step of `RulePublication` | composition: extends `RulePublication`. A goroutine enters by `PublishEnters`, with `rulesMu` and `rulesOpen` alone in front of it: the contract of `PublishCall` is shown, not assumed |
| `RuleFormat` | a rule as text, as Go value and as C struct, and the checks on each | operators only |
| `RuleTables` | `LoadRulesFile`, `newRuleArrays`, `dp_snapshot_build`, `dp_snapshot_free`, `dp_lookup_packet` | extends `RuleFormat`; one call at a time, with each allocation (the two C arrays, the tables, the stores) a step that may fail |
| `WorkerStats` | `setup_workers`, the workers' counters, `dp_dataplane_get_stats`, `GetStats` | |
| `LinearRuleTable` | what the rule API promises | abstract: one table, each call atomic |
| `RuleStore` | `rules.go`, the part of `owner` that opens and closes the API, and the checks of `dp_snapshot_build` | refines `LinearRuleTable` |
| `SignalLoop` | the signal goroutine | sees the runtime through Ready, ReplaceRules, Stop and Done |
| `MC*` | model values and bounds | |
| `*_proofs` | theorems | extend the module they are about and TLAPS |

Variables keep the names of the fields and locals they stand for. Control points
(`pc`, `wpc`, `ppc`, `opc`, `owner`, `loop`) name the place in the function. Actions
named after a function model all of it; the others name a part of it.
Definitions introduced by a comment that starts with "Mutation:" are deliberately
wrong variants of the definition that follows. No specification uses them: each was
put in the place of the correct one to see that a property notices.

Abstractions, and why they keep what matters:

* A snapshot is its generation in `RulePublication` and `RuntimeRules`. In `RuleStore`,
  which is about concurrent edits, a rule is a key and an action and validity is
  membership in given sets. `RuleTables` has the content: keys, prefixes, actions, text.
* An address has four octets of `OctetBits` bits, and a rewrite mask is the set of its
  fields. The text of an address is the list of octets it names and whether it is
  written IPv4-mapped, which is all `net.ParseIP` and `net.ParseCIDR` make of it here.
* `rte_hash` is a finite map that may refuse a key for lack of room; `rte_lpm` is one
  with longest-prefix lookup and a limited number of tbl8 groups, one for each /24
  that has a longer prefix. Both refuse a name that is in use.
* `dp.stats.rules_*` are written under the writer lock and read by the owner after
  teardown, so they change in the step of the access next to them. For the same
  reason the counters a worker leaves behind for the owner (`registered_readers`,
  `reader_registered`, `result`) change in one step with `active_workers`.
* The memory is sequentially consistent. The orders the code asks for (release and
  acquire on the pointer, full barriers inside `rte_rcu`) make the accesses of the
  protocol appear in program order; `dp.stop` is relaxed and carries no data.
* 64-bit counters and generations are unbounded: they cannot wrap in practice.
* In `PacketHeaders`, `payload_len` and the shortened `total_length` are converted to
  `uint16_t` and would wrap; the proofs show that the checks before them leave nothing
  to wrap (`NoWrap`, `ShrunkLength`). Comparisons that the code makes in `int` or wider
  are on exact integers. A checksum field is what was received, zero, or a sum, and a sum
  is a record of what it covers, the checksum field included.
* `RuleStore` gives `validateRules` and `dp_snapshot_build` the same sets of invalid keys
  and actions: its question is whether what one call leaves behind is valid for the
  next. Whether the two validators, and that of the file, draw the line at the same
  place is the question of `RuleTables` (`ValidatorsAgree`), where each has its own
  definition.

## 3. Runs

| Run | Instance | Distinct states | Checks |
|---|---|---|---|
| `publication_safety` | 2 workers of 3 reader slots, 2 publishers, 1 call each | 457 122 | 7 properties, `RunInv`, the inductive invariant of the proofs, 1 action property, refinement of `SafeReclamation` |
| `runtime_rules_safety` | 2 workers, 2 goroutines, 1 call each | 683 176 | `EntryCoversNative`, `GenerationsAgree`, and `RuntimeInv`, the inductive invariant of the proofs |
| `runtime_rules_liveness` | 2 workers, 1 goroutine | 108 000 | `CallsReturn`, `StopEnds` |
| `rule_tables` | octets of 1 bit, 2 flows, 3 routes, 2 tbl8 groups, 3 publications | 8 277 | verdicts, ownership, agreement of the validators |
| `rule_tables_tbl8` | the same, 1 publication | | `RoutesFit`, violated (section 7) |
| `worker_stats` | 3 lcores with sparse ids, every enabled set, main lcore and socket layout; 1 burst and 1 empty poll per worker | 2 703 822 | queues, final report |
| `packet_burst` | 3 mbufs, bursts of up to 3, 2 polls | 1 125 574 | ownership, order, statistics |
| `rule_store` | 2 callers, 2 calls each; 3 flow keys (one invalid), 1 route key, 2 actions (one invalid), capacity 2 and 1 | 432 380 | copies, admission, linearizability |
| `signal_loop` | channel of 1, 2 edits of the file | 3 285 | `ReloadNotMissed`, `LoopReturns` |
| `signal_loop_stop` | the same | 3 285 | `TermStops`, violated (section 7) |
| `lifecycle` | 2 ports, the code's own number | 525 | release order, arguments, errors, `StopFinishes`, `ReadyReturns` |
| `packet_headers` | 23 000 frames around every limit, all 15 masks | 40 150 | bounds, nesting, checksums |

Why the bounds are enough to see the interesting cases:

* Two publishers contend for the lock, and the second one's grace period follows the
  first one's, so a stale token of one period meets the next. With two workers one can
  read the old snapshot while the other starts, idles, fails or stops. One reader slot
  stays unused, as in the program, whose capacity exceeds the number of workers.
* Two workers with one goroutine show every state of the readers during a grace period
  and the contention of a caller with the owner for `rulesMu`; contention between two
  goroutines is in the safety run of `RuntimeRules`.
* With octets of one bit an address has four bits, so a prefix can end inside, at and
  after the third octet, where `rte_lpm` changes its tables. The documents, snapshots
  and C arrays have one representative of every check that can fail (count, protocol,
  address, prefix, depth, mask, duplicate, reserved bytes) and several that pass, with
  flows and routes together, nested prefixes and prefixes with host bits. Three
  publications suffice for a failure between two successes, when the generation, and
  with it the names of the tables, is used again. Packets to every destination
  address, of matching and other sources, ports and protocols, are looked up in every state.
* Three lcores with ids 1, 3 and 6 and any of them as the main lcore tell worker, queue
  and lcore numbers apart.
* Two polls let stale entries of the first burst meet the second one; three packets
  allow a survivor before, between and after dropped ones, and a TX call that takes
  none, some or all.
* Two calls per caller let each see the effect of the other's first call. Capacities 2
  and 1 are reached and exceeded, and the snapshots include an over-full one and ones
  with duplicate keys.
* Every length comparison of the parser has frames on both sides of it and at equality.

The systems terminate, so deadlock checking is off; where termination is the claim, a
liveness property says so. Symmetry is used for publishers, callers and mbufs, in
runs without liveness properties only.

## 4. Properties

**Publication.** `MemorySafe`: no worker dereferences a freed snapshot and the QSBR
variable is allocated when used. `HeapOwned`: each allocated snapshot has exactly one
pointer that will free it. `PublishIsSynchronous`: a reported generation is the
oldest in use. `ReclaimAccounting`: the counters agree outside the critical section.
`CleanupSafe`: the EAL is closed last. `TeardownNeverBusy`: the live counters are
balanced on every path, so teardown never refuses. `FailureReported`: `dp_dataplane_run` returns an
error exactly when a launch or a worker has failed, whatever it joins first or last. `MonotonicReads`: generations do not go back.
`ReclaimsSafely`: refinement.

**Go over C.** `EntryCoversNative`: a goroutine inside `dp_publish_rules` meets neither
configuration nor teardown nor the copy of the statistics, so the writer lock is not the
only thing that protects the QSBR variable, and the plain counters of `dp.stats` are not
raced for. `GenerationsAgree`: outside the mutex the Go generation is the active one,
after failures too. `CallsReturn`, `StopEnds`: liveness across `ready`, `rulesMu`, the
writer lock and the grace period.

**Tables.** `VerdictsFollowRules`: each packet gets the action that the text of the rules
(or the caller's numbers) asks for, read octet by octet and bit by bit in `Meant`, which shares
only the powers of two with the model; this holds in the active snapshot and in the one being
retired. `ObjectsOwned`: no table, action store or temporary array is left by any failure
and no table name is used twice. `ValidatorsAgree`: the file parser, `validateRules` and
`dp_snapshot_build` accept the same rules.

**Workers.** `QueuesExclusive`, and `ReportExact`: the report of the control plane equals
what went over the wire, obeys the conservation laws and is final.

**Packets.** `ExactOwnership`, `OrderPreserved`, and `StatsConserved`, the five laws of
`docs/architecture.md`. `ReadsInBounds`, `MetaUsable`, `RewriteInBounds`:
no length that wraps or is not checked leads outside the data. `ChecksumsFresh`: both
fields hold sums over what is sent with the fields themselves zero, the L4 sum over
exactly the L4 bytes.

**Lifecycle.** `PoolOutlivesPorts`, `EalOutlivesAll`: the order of release under partial
failure. `ArgumentsOutliveEal`: argv is freed only when no EAL can refer to it.
`CleanupAccepted`: the rule of `finishLifecycle` (clean up when teardown
succeeded) and the guard of `dp_runtime_cleanup` agree. `ErrorsReported`: an error is
returned if and only if some call failed, that of the statistics included. `SuccessMeansReleased`: what is printed after
success is true. `StopFinishes`, `ReadyReturns`.

**Rule API.** `CopiesAgree`, `NeverRejected` (a rule set that passed the Go checks, or
was derived by Delete without them, is never refused for its content), `Linearizable`.

**Signals.** `ReloadNotMissed`: although signals are dropped, the file is read after the
last SIGHUP. `LoopReturns`.

### Fairness

* Workers, goroutines inside a call, and the owner are threads the scheduler keeps
  running: weak fairness of each one's steps (`RuntimeRules`). Nobody has to call the
  rule API or to stop.
* `sync.Mutex` hands itself over to a waiter that has been passed over for a
  millisecond: strong fairness of taking `rulesMu`, for callers and owner
  (`RuntimeRules`). The writer lock needs none: `rulesMu` lets one goroutine at a time
  come to it, and the owner comes to it when no goroutine can.
* Go's `select` chooses at random among ready cases: strong fairness of the `Done` case
  (`SignalLoop`).
* The run of the workers ends only after a stop or a failure: no fairness for it
  without one (`Lifecycle`, `SignalLoop`).

## 5. Proofs

Eight modules hold theorems; all are checked by `tlapm` with the SMT, Zenon and PTL
backends. Each theorem on a component holds for every value of its constants under the
named assumptions of its module, which TLC evaluates in the component's run:

| Module | Assumptions |
|---|---|
| `RulePublication`, `RuntimeRules` | between one and `ReaderCapacity` workers; the names `Owner` and `Free` are no publishers |
| `RuleStore` | flow and route keys are different things; capacities are numbers; the empty rule set is one; NULL is no rule set; "none" and "owner" are no callers |
| `RuleTables` | an octet has at least one bit; rules come in arrays; octets, depths and ports are unsigned and addresses given as numbers fit their width; the decoder knows no other rewrite fields than the four; a packet that reaches the lookup is TCP or UDP (`dp_parse_packet` lets no other through) |
| `WorkerStats` | lcore ids are a finite set of numbers |
| `PacketBurst` | a burst size of at least one; "none" is no mbuf |
| `PacketHeaders` | the fields of a frame fit their widths |

The bounds on the numbers of calls, polls and publications are arbitrary naturals.

**`RulePublication_proofs`**, for any number of workers, publishers, calls and any
capacity. The first inductive invariant is
`IInv == TypeOK /\ LockInv /\ ReaderInv /\ OwnerInv /\ RulesInv /\ CountInv /\ GraceInv /\ SeenInv /\ HeapOwned`.
The heart is `GraceInv`: a burst in progress reads the active snapshot, or the one a
publisher is retiring, and then that publisher, once it has its token, will find the
reader's counter below the token and has not removed the reader from the set it waits
for. It needs `ReaderInv` (a worker in its loop is registered and online and has stored only
tokens that were issued: a stale store cannot reach the current token), `LockInv`
(at most one publisher is retiring), `RulesInv` (the retired snapshot is the previous
generation, nothing exists outside configure and teardown) and `OwnerInv` (no worker is
alive when the owner withdraws the rules). `MemorySafety`, `HeapOwnership`,
`SynchronousPublication`, `ExactAccounting`, `SafeCleanup` follow from it;
`MonotonicGenerations` is an action property proved from it, and `Refinement` shows that
`SafeSpec` implements `SafeReclamation` with `live <- heap`, `current <- active_rules`,
`held <-` the snapshots of bursts in progress.

`RunInv` adds `StoppedInv` and `ResultInv`. `active_workers` and `registered_readers` are
the cardinalities of the sets of workers between the increment and the decrement, so
they are zero once nobody runs, and `TeardownAccepted` follows: teardown never finds a
busy worker, whichever launch or registration failed. `ResultInv` follows a failed launch
through the rest of the run and a negative result from the worker that wrote it to the
join that reads it, and says that nothing else makes `first_error` negative; both
directions of `FailuresReported` follow.

**`RuntimeRules_proofs`**. The runtime calls `dp_publish_rules` without the guard of
`PublishCall`; that the calls satisfy it is part of what is proved. From `RuntimeInv`, a
step of the Go runtime is a step of `RulePublication` or leaves its variables alone
(`RuntimeStep`), so `SafeRSpec => SafeSpec` (`RuntimeImplementsNative`) and every theorem
on publication holds under the runtime (`RuntimeMemorySafety` states two of them).
`RuntimeInv` adds to the invariants of publication who holds `rulesMu` (`MutexInv`), which native call the owner can
be in while the entry is open (`PhaseInv`), and that the Go generation lags behind only
on account of the one goroutine whose exchange has happened and whose return has not
(`GenerationInv`). `EntryProtects` and `GenerationAgreement` follow.

**`RuleStore_proofs`**, for any keys, validity checks, capacities and callers. `StoreInv`
says that a rule set on its way to `dp_publish_rules` is valid, though the Delete calls do
not validate (a valid rule set without one of its rules is valid: lemmas on the sequences
that `slices.Delete` and append give), and that it is the effect of its call on the
current rules. `CopyAgreement` and `PublicationsAccepted` follow. `RuleApiLinearizable` is
the refinement of `LinearRuleTable`, step by step: the exchange is the step that takes
effect, every refusal is a failure without effect, everything else stutters.

**`RuleTables_proofs`**, for any width of an octet, any capacities, any rules files, Go
snapshots and C arrays. First the validators. The powers of two are a recursive function; that they satisfy
their equation is proved by induction, stated for a set of numbers (a set that does not
contain all of them misses a least one), which needs no operator parameter. Clearing
host bits twice is clearing them once (`NetworkOfNetwork`), so what `net.ParseCIDR` returns
passes the checks of `validateRules` and of `dp_snapshot_build`, and the rest of the three
validators is compared rule by rule (`LoadedRulesValid`, `BuiltRulesValid`,
`RefusedRulesInvalid`). `TablesInv` then says what the heap holds at each point:
the objects of the active generation, of the one in its grace period, and the kinds
allocated so far for the next one (`HeapInv`); and that the keys in the tables under
construction are those of the rules passed so far (`BuildInv`). `ObjectOwnership` and
`ValidatorAgreement` follow.

Then the content. An address is compared as text (four octets, bit by bit) by `Meant` and
as a number (with its host bits cleared) by the tables; both are quotients by powers of
two. `OctetsOfText` and `NumberOfOctets` show that conversion to a number loses nothing,
`BitOfOctets` that a bit of an octet is the bit of the number, `TopBits` that the leading
bits agree exactly when the quotients do, `SameNetwork` that the quotients agree exactly
when the networks do. With them `LookupMeant` shows that a complete snapshot gives a packet the action
that its rules ask for: a flow rule before any route, and of the matching routes the
longest (a nonempty finite set of depths has a greatest, `LongestExists`).
`ContentInv` is the inductive part: the C arrays say what the argument says, after `i`
turns of the loops the tables hold the first `i` rules, each index leading to that rule's
action, and a snapshot is exchanged only when it is complete, so the active one and the
one in its grace period always are. `VerdictCorrectness` follows from `ContentInv`
and from `TablesInv`, which keeps the objects of both alive.

**`WorkerStats_proofs`**, for any lcores, workers and traffic. `setup_workers` takes the
enabled lcores in ascending order; that the k-th one exists and differs from the others
is shown by the rank of an lcore, the number of enabled ones below it (`QueueOwnership`).
`CountInv` states the conservation laws of one worker with the packets it still holds as
extra terms; `WireInv` says that the sums over all workers are the packets that crossed
the wire. The sum is a recursive function over the contexts; what it does when one
context changes is proved by induction (`Total` and the lemmas above it). `ExactReport`
follows.

**`Lifecycle_proofs`**, whichever calls fail. `LifeInv` says for each control point what
is held (`HeldInv`), which of it is gone during the teardown (`TeardownInv`), where a
failure is recorded until it is combined into what Wait returns (`ErrorInv`) and what has been counted (`ReleaseInv`). The six safety
properties of the lifecycle follow.

**`PacketBurst_proofs`**, for any pool, burst size and number of polls. `BurstInv` adds to
the properties what holds in the middle of a burst: the conservation laws with the
packets not yet processed and the survivors not yet settled as extra terms; unprocessed
packets still sit in their RX slots, behind every survivor in arrival order.
`MbufOwnership`, `TransmitOrder` and `Conservation` follow.

**`PacketHeaders_proofs`**, for every set of frames. `ParserBounds`, `ParserNesting`,
`RewriteBounds` and `FreshChecksums` unfold the parser's checks in order. That
`total_len` is at least the header length keeps `payload_len` from wrapping (`NoWrap`), and
that a datagram fits the payload keeps the shortened `total_length` of a UDP rewrite
from it (`ShrunkLength`).

**Only model-checked:** the liveness properties (`CallsReturn`, `StopEnds`, `StopFinishes`,
`ReadyReturns`, `LoopReturns`, `ReloadNotMissed`), since fairness is beyond this prover.

## 6. Not modelled

* The syntax of JSON (unknown fields, trailing values): `encoding/json` decides it, and
  the outcome is a refused file, which `RuleTables` has for other reasons.
* `rte_hash` placement: that a key finds no room is a possible outcome of every
  insertion, so no property says that 1024 flows always fit.
* Wrap-around of 64-bit counters and generations.
* The self-tests in `dp_test.h`, `dp_tx.c`, `dp_runtime.c` and `dp_port.c`; the failures
  their hooks inject are outcomes the models have anyway.
* Scripts, benchmarks, flag parsing and printing.
* DPDK itself: `rte_rcu`, hash, LPM, ethdev, mempool and EAL appear as what the code
  observes.

## 7. Disagreements between documents and code

`SignalLoopStop.cfg` checks `TermStops`, after
`docs/goals/006-007-dynamic-rules-qsbr.md:238`, which says that SIGTERM and SIGINT remain
in charge of stopping. TLC refutes it: the channel of `main.go:28` holds one signal, and
`os/signal` drops a signal that finds the channel full. With a SIGHUP waiting there, a
SIGTERM is lost; the goroutine takes the SIGHUP, reloads and waits again, and nobody asks
the runtime to stop. The same channel is harmless for reloads (`ReloadNotMissed`), since
the signal that fills it is either a SIGHUP that will be handled later or a stop.

`RuleTablesTbl8.cfg` checks `RoutesFit`, after
`docs/goals/004-005-static-lookup-action-rewrite.md:429`, which gives the route table
1024 rules. TLC refutes it: `dp_lookup.c:88` creates the table with 256 tbl8 groups, and
every /24 that holds a longer prefix takes one. A rule set of 257 such routes in 257
different /24s is within the documented number and passes all three validators, and
`rte_lpm_add` refuses it with `-ENOSPC`. The instance has the same proportions: three
routes, two groups. The failure is clean (`ObjectsOwned`, `CopiesAgree`): the old rules
stay in force.

An observation that no run contradicts: `snapshot_freed` and its companions are set
by the first reclamation of a publication already, so they say that teardown freed the
last snapshot only together with an error-free return.

## 8. Plan

Done, in this order: publication and its proofs; the packet path, the parser and their
proofs; the rule API, the lifecycle and the signals; the composition of the Go runtime
with the native publication; rule formats and tables; workers and statistics; then the
proofs of all of these.

Every safety property that a passing run checks is now stated by a theorem; what stays
with TLC is liveness.
