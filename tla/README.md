# Verification of the concurrent core of b70_ai_things

The repository is a lab for serving language models on two Intel Arc B70
cards. Most of it is evidence, journals and numerical kernels. What carries
protocol state of its own is small and hard to test: the two-card all-reduce
that replaces oneCCL, the host-RAM park of conversations, the expert-parallel
transport, and the scripts that lease and recover the cards. This directory
models those parts in TLA+ and checks them with TLC. Every safety property that
a passing run checks is also proved with TLAPS, for every value of the constants
or under a hypothesis section 5 gives the reason for.

## 1. Inventory

| Part | Source | State | Operations | What is hard |
|---|---|---|---|---|
| Eager-async all-reduce | `src/vllm/contrib/vllm_push_allreduce/119_xpu_push_ar_eager_async.cpp` | call counter, ring of scratch slots, ring of cross-card events, `g_done`, two device queues per rank | `ar_ea_setup`, `ar_ea_exchange`, `do_ea` | six engines (2 hosts, 2 immediate lists, 2 torch queues) with one host sync per call; event latches that are reset by their consumer |
| Engagement | `_push_ar_patch.py`, `118_xpu_push_ar_graph.cpp` `ar_exchange` | socket, opened handles, `_push_ar_ready` per rank | `_lazy_init`, `ar_setup_torch`, `ar_exchange`, `all_reduce` routing | two processes must take the same decision although each step can fail on one of them |
| Host-barrier all-reduce | 118 `do_ar`, `ar_barrier` | two words of shared memory, one scratch per rank | `do_ar` | reuse of the barrier and of the scratch by the next call |
| Capturable all-reduce | 118 `do_ar_graph` | one event and one scratch per rank | `do_ar_graph` replayed | consumer reset against the next signal |
| Park index | `src/vllm/flashnext/kvoffload/index.py` | LRU of conversations, tail records, pins, running set | `store`, `find`, `lookup_key`, `discard`, `pin`, `unpin`, `set_running` | long sequences of calls at the slot and byte limits; superseded records; partial failure after a store |
| Parking scheduler | `kvoffload/parking.py`, `policy.py` | pending tails, plans, tail choices, transfer jobs, GPU pins, CPU pool | scheduler callbacks | state kept between scheduling steps while other requests store and evict |
| Expert-parallel transport | `src/vllm/flashnext/plugins/b70_ep_xpu/csrc/`, `prefill_ep.py`, `hooks.py` | a counter and a flag per layer and card, error words, one inbox and one psum region | `ep_moe` (eager), graph replay, prefill dispatch, return and sync | timeouts that go on with what the region holds, wrap of 32-bit counters, regions shared by all layers |
| Leases and recovery | `src/bin/gpu-run`, `cpu-run`, `xe-reset`, `dd-watchdog` | flocks, owner files, service state | acquire, run, reset | signals, children that keep a lock, reset while a lease is held |
| Everything else | kernels, quantisation, model tooling, evaluation, vendored trees | none or numerical | - | not protocol state; listed in PROJECT.json as not modelled |

The parts meet as follows. `all_reduce` of the patch runs the engagement once
and then chooses per tensor between the host-barrier, the capturable and the
oneCCL collective; the gather shim runs the eager exchange inside its first
call and then uses the eager-async transport. The scheduler calls the park
index from vLLM's single scheduler thread and passes what `store` releases to
the CPU pool, whose conversation policy evicts on its own when other stores
need room. The decode sidecar and the prefill path of the expert-parallel
plugin use the same kernels with regions and counters of their own.

## 2. Modules

| Module | Models | Composes |
|---|---|---|
| `AllReduce` | the contract of a two-rank sum all-reduce | - |
| `EagerAllReduce` | `do_ea` | implements `AllReduce` |
| `EagerAllReduce_proofs` | theorems about `EagerAllReduce` | extends it |
| `EagerExchange` | `ar_ea_exchange` in front of the first calls | extends `EagerAllReduce` |
| `PushArExchange` | `_lazy_init`, `ar_setup_torch`, `ar_exchange`, `all_reduce` | - |
| `PushArExchange_proofs` | theorems about `PushArExchange` | extends it |
| `HostBarrierAllReduce` | `do_ar`, `ar_barrier` | - |
| `HostBarrierAllReduce_proofs` | theorems about `HostBarrierAllReduce` | extends it |
| `GraphAllReduce` | `do_ar_graph` | - |
| `ParkIndex`, `MCParkIndex` | `ParkIndex` of `index.py`, and its instance | - |
| `ParkIndex_proofs` | theorems about `ParkIndex` | extends it |
| `ParkingScheduler`, `MCParkingScheduler` | `ParkingScheduler` of `parking.py`, the CPU pool with `ConversationCachePolicy` of `policy.py`, and two instances | an instance of `ParkIndex` |
| `ParkingScheduler_proofs` | theorems about `ParkingScheduler` | extends it; an instance of `ParkIndex_proofs` |
| `EpTransport` | `moe_ep.cpp`, `prefill_ep.cpp`, `ep_kernels.cpp` | - |
| `EpTransport_proofs` | theorems about `EpTransport` | extends it |

**EagerAllReduce.** `host[r]` is the host thread's place in `do_ea`
(`idle`, `input` for the optional `ew.wait()`, `sync` for
`zeEventHostSynchronize`); `imm[r]` is the command the in-order immediate list
is at; `qsub`/`qdone` count the commands submitted to and completed by torch's
in-order queue, of which call *c* contributes number 2*c* (the input barrier)
and 2*c*+1 (the reduce). Each `zeCommandListAppend...` of the source is one
action, the copy and the reduce two, so that a torn read is visible: while a
copy runs its slot holds `None`. `ev[r][i]` is the latch of slot *i* that rank
*r* signals. A payload is abstracted to the number of its call: a sum is right
exactly when both its terms carry the number of the call. Both values of
`ASYNC_HOSTWAIT_INPUT` are initial states, and a rank's process may die at any
step.

**EagerExchange** adds the straight-line exchange of each rank over one socket,
and the loop in which each rank creates and host-resets the events of every
slot, one step per slot. **PushArExchange** gives each rank its script of
steps; `Faults` names the steps that may fail in an instance. Only the result
of opening the peer's memory is exchanged, a failed status exchange is looked
at after both halves were tried, and every other failure returns at once and
leaves the socket open. **HostBarrierAllReduce** has one action per access to
the barrier words. **GraphAllReduce** is one sequential stream per rank.

**ParkIndex.** A turn is the token sequence of a finished request; since the
last sampled token is never fed it parks all tokens but the last. A chained
block hash is modelled by the prefix it covers, so the tail key
(`parent_hash`, `tail_ids`) is the parked prefix, and the conversation is the
first block. Records are named by their place in `rec` because the code
compares them by identity: superseded records stay in `entry.records`, and
`_unlink_record` pops by key from `by_tail` but by identity from `by_parent`.
The `OrderedDict` `by_conv` is its keys with their order: `by_conv[c]` is the set
of parked conversations used less recently than *c*, so that moving one to the
end and deleting some are set operations. A sum of bytes over entries is the
number of (conversation, byte) pairs. `_plan_victims` is the set of candidates
for which dropping the older candidates alone does not make room, which is
where the loop of the code stops. Refused stores change nothing and are no action. The index is
driven at its interface: any sequence of `store`, `discard`, `find`, pins and
running marks.

**ParkingScheduler.** A request is `new`, `waiting`, `loading`, `running` or
`done`; `raised` is the exception of `_load_tail`. A scheduling attempt is
either `get_num_new_matched_tokens` alone (the request could not be allocated,
or is told to ask again) or the same with `update_state_after_alloc`, and the
difference is what `_tail_choice` keeps from one attempt to the next.
Upstream's own hit is loaded by a job of its own; a chosen tail by
`_load_tail`. The job's `seen` records whether the step that started it looked
its chunks up, which is not the case for a choice kept from an earlier attempt.
`request_finished` includes `register_tail`, which the connector calls just
before it. `_prepare_pending_tails` is one pass over the queue in which nothing
else runs; every exit of `_prepare_one` is an action: refused, already
resident, a copy job, aborted (`prepare_store` returns None or raises, which it
may whatever the pool holds). The index is the instance `Index` of `ParkIndex`
and its variables are the scheduler's. A chunk of the pool is `[of, ready]`,
where `of` is the token sequence it was computed from; keys of a tail do not
contain it, as in the code. `evict` returns every set of keys that may go:
whole conversations in some order until there is room, then single chunks that
belong to none. The order itself is open because vLLM touches it on every
lookup. `tail_pins` counts the holds on the GPU blocks of a tail. A request has
no prefix on the GPU and no limit on new tokens, the pool of GPU blocks is bound
before the first request (without it the code only warns and holds nothing), and
vLLM's own scheduler (what it hits, stores and loads, and when copies end) is
external.

**EpTransport.** Each card executes in order what the host has queued: `pc1`,
`n1` is card 1's next kernel and the call it belongs to; card 0 has a
dispatching stream (`pcd`, `nd`) and one that waits and adds (`pc0`, `n0`),
which are the same stream unless `PushSide`. `mode` is the way calls are made:
`eager` waits for both queues after every call and looks at the words of its
layer, `prefill` queues ahead and looks at them before the next dispatch of
the layer or at a `Sync`, `replay` queues without looking. Counters and flags
are words modulo 2 * `Half`; `ep_wait` compares signed differences. `Timeout1`
and `Timeout0` may happen whenever the flag is not there yet: the spin bound is
a number of polls, unrelated to any other event. A payload is the number of its
call, `None` while it is written or after a read that overlapped a write. The
arithmetic of the experts and the weights of the router are left out, and
`ep_route_dispatch` is the bump and the dispatch in one kernel.

Definitions introduced by a comment "Fault:" are faulty variants of the
definition that follows them. No specification uses them; each one, put in the
place of that definition, makes the property PROJECT.json pairs it with fail.

## 3. Runs

| Run | Instance | Shows |
|---|---|---|
| `eager_ring` | ring 2, 5 calls, either rank may die; 15,888 states | type, `NoSignalLost`, `ReducesItsOwnCall`, `PushReadsUnreducedInput`, `RanksWithinOneCall`, liveness `CallReturns`, refinement `ImplementsAllReduce` |
| `eager_exchange` | ring 2, 2 calls | **violation** of `NoSignalLost`: late host reset wipes the peer's first signal |
| `push_ar_exchange` | failures up to the status exchange and of rank 0's pool, 3 open attempts; 2,840 states | `EngagedTogether`, `SameTransport`, `BarrierReadyBeforeUse`, liveness `EveryRankDecides` |
| `push_ar_exchange_faults` | failures before and after the status exchange, none in reading the status | **violation** of `EngagedTogether` |
| `host_barrier` | 5 calls; 730 states | `NobodyPassesEarly`, `NeverReducesOldPayload`, `RanksWithinOneCall`, liveness `CallReturns` |
| `graph_ar` | 2 calls | **violation** of `NoSignalLost` |
| `park_index` | 3 conversations, 6 turns, 7 prompts, 2 slots, 6 chunks, 3 stores; 41,784 states | `StoreMakesRoom`, `ProtectedConversationsStay`, `EvictsOldestFirst`, `ReleasesWhatItDrops`, `ReachableIsParked`, `FindsLongestStrictPrefix` |
| `park_index_discard` | the same instance | **violation** of `ParkedConversationHasTail` |
| `ep_transport` | 2 layers, counters of one bit, 4 calls, one stream, all three modes; 143,895 states | `SumsItsOwnCall`, `RegionsExclusive`, `ReturnsOwnSum`, liveness `QueuedReturnsFinish` |
| `parking_scheduler` | 4 requests of 2 conversations, 2 slots, 3 chunks, blocks of 2 tokens; 90,123 states | `CopiedBlocksAreHeld`, `LoadsReadWhatWasFound`, `EvictsWholeConversations`, `RunningConversationsStay`, liveness `TailBlocksReleased` |
| `parking_stale_choice` | the same instance | **violation** of `LoadsReadResidentChunks` |
| `parking_twins` | 3 requests of one conversation, two of which end at the same position | **violation** of `LoadsItsOwnTokens` |

**Bounds.** Five calls over two slots use each slot at least twice and let the
ranks be one call apart in every phase; the code's default ring is 4, and the
theorems cover it and every other ring of two or more slots. Three attempts
to open a handle stand for the code's 25: one success, one failure, the last
failure. Five calls through the barrier reverse its sense five times. Three
stores reach an eviction by slots, an eviction of two conversations by bytes,
a supersede, and a discard after each; the instance was also checked with four
stores (571,032 states, no error). A counter of one bit has wrapped after the
second call of a layer, so two calls through each of two layers meet both a
wrapped and an unwrapped comparison and every hand-over from one layer to the
next; five calls were checked as well (413,044 states, no error), and the
theorems cover every width and every number of layers and calls. In
`parking_scheduler` the requests are a turn that ends with its block, two that
extend it and end inside a block at the same place, and another conversation;
three chunks hold any one turn and not two conversations, so that both the index
and the pool have to evict, old choices are loaded and lost plans are met. The
instance was also checked with four and five chunks (112,171 and 115,314 states,
no error). Deadlock checking is off because ranks may stop
calling, may die, and the bounds end every behaviour.

**A ring of one slot.** `ar_ea_setup` accepts it (`g_ring = ring < 1 ? 1 : ring`).
With `Ring = 1` the same instance violates `NoSignalLost` and
`ReducesItsOwnCall`; this is the faulty variant `OneSlotOf`.

**Fairness.** `EagerAllReduce`: the devices of a living rank execute what was
submitted to them, and a host returns from a wait that is over; nothing obliges
a rank to make another call or to live. `HostBarrierAllReduce`: a rank inside a
call keeps running it (it spins or waits for its own kernels).
`PushArExchange`: straight-line code keeps running. `EpTransport`: card 0
executes what is queued on it, and only card 0: card 1 may stop at any kernel,
and it is the bound on the spin that lets `QueuedReturnsFinish` hold
nevertheless. `ParkingScheduler`: `has_pending_push_work` keeps the engine
stepping while tails are queued, and the worker reports every copy it was
given. No fairness is assumed on a
call being made, on a peer, or on a failure not happening.

## 4. What the violations show

1. *Late event reset* (119, line 225). A rank resets the events it has just
   created while its peer, whose exchange is over, may already have signalled
   call 0. The comment at line 54 claims that no signal is ever reset away.
2. *Engagement is agreed only half-way* (118, lines 151 to 178). Failures after
   the status exchange are not told to the peer; the comment at line 126 says
   one rank can never engage while its peer falls back.
3. *Consumer reset in the captured path* (118, line 227). `docs/P2P_GPU.md` line
   1263 argues that a drift below one all-reduce makes it race-free; the
   counterexample stays within one call.
4. *Discard after supersede* (`index.py`, line 196). The older records stay in
   `entry.records`, so a discard leaves a conversation that holds a slot, cannot
   be found, owns keys that were already released, and counts the totals of all
   its earlier turns.
5. *Twins* (`parking.py`, line 75). The keys of a tail name the conversation, the
   end, the group and the kind. Two requests with the same first block, for which
   a common system prompt suffices, that end at the same position have the same
   keys. The second is found "already resident" (line 531), but its record is
   linked with its tokens and a load plan, so the turn that follows it matches
   token by token and loads what the first one computed. `index.py` line 4 says
   that a hit requires the tail token ids to match.
6. *An old choice* (`parking.py`, line 591), with a turn that ends on a block
   boundary. A request chooses the tail and is not allocated. Its pin keeps the
   record in the index, but the pool does not look at these pins: the full-block
   store of another conversation evicts the chunks of this one, and a third
   request stores the full block again. vLLM then hits exactly up to the tail's
   end, the early return keeps the choice, its plan is still there, and
   `_load_tail` asks for a recurrent state that is no longer in the pool (16 steps).
   `policy.py` line 3 says that a conversation is invalid if its GDN page is gone
   and its attention blocks remain, and `index.py` line 12 that pinned records
   stay. A tail that ends inside a block cannot be loaded this way, and a tail
   found in the same step is always there: that is `LoadsReadWhatWasFound`.

Four further behaviours were met while modelling and have no run.

* *One barrier per call* (118, line 197). The push of call *c*+1 overwrites the
  scratch the slower rank still reduces call *c* from: with two calls TLC refutes
  `ReducesItsOwnCall` of `HostBarrierAllReduce`. The file calls
  the path "proven" (line 10) and claims nothing about back-to-back calls.
* *Push on a side stream.* With `PushSide = TRUE` and the bounds of
  `ep_transport`, TLC refutes `SumsItsOwnCall` in seven steps.
  `_SIDE0.wait_stream(main0)` (`prefill_ep.py`, line 262) orders the side stream
  after the main one; nothing orders the main stream's `ep_wait`
  (`prefill_ep.cpp`, line 244) after the side stream's bump. Reading the counter
  before the bump, it accepts the answer to the layer's previous call, or the
  initial zero, and no error word is written. The comment at lines 11 and 12
  says that torch ops on either card order naturally against these kernels.
  The option is off by default; the passing run and the theorems have it off.
* *A lost plan.* A request chooses a tail and is not allocated; another turn of
  the conversation is stored and supersedes that tail; vLLM then reports a hit
  that ends exactly there. `get_num_new_matched_tokens` returns early without
  clearing the choice, and `_load_tail` raises (line 671). The model reaches
  `raised` this way in `parking_scheduler`.
* *A pin left behind.* In the same situation `_release_tail_pin` looks the key up
  in `by_tail`, does not find the superseded record, and its pin stays: the
  conversation is protected from eviction for as long as it is parked.

## 5. Proofs

`EagerAllReduce_proofs` proves, for every `MaxCalls`:

* `TypeCorrect`: `Spec => []TypeOK`, for every ring;
* `PushReadsUnreducedInputHolds`, for every ring;
* `NoSignalLostHolds`, `ReducesItsOwnCallHolds`, `RanksWithinOneCallHolds` and
  `Refinement` (`Spec => ImplementsAllReduce`), for every ring of at least two
  slots (`ASSUME Ring >= 2` in the theorem; the module itself only assumes what
  `ar_ea_setup` guarantees).

None of the properties is inductive. The invariant `IInv` joins `TypeOK` with
three parts. `EnginesInv` ties the host, the immediate list and the queue of a
rank to its call counter: which command of which call each of them is at, hence
how many commands the queue has been given and has completed. `EventsInv` says
that the latches set are those of the calls signalled and not yet consumed.
`PayloadsInv` says that the payloads pushed and not yet reduced are whole in
their slots. A rank signals call *c* only after it consumed call *c*-1, and
pushes call *c* only after its queue went past its own reduce of call *c*-1, so
at most two consecutive calls are in a ring at a time; two slots keep
consecutive calls apart (`ConsecutiveSlots`), and one slot does not. The part
on engines and types needs no assumption on the ring. Every part is proved
preserved action by action; the refinement maps a finished copy to the peer's
data being published, a finished reduce to the call being finished, and
everything else to a stutter.

`HostBarrierAllReduce_proofs` proves, for every `MaxCalls`, `TypeCorrect`,
`NobodyPassesEarlyHolds`, `NeverReducesOldPayloadHolds` and
`RanksWithinOneCallHolds`. Its `IInv` counts passages of the barrier: the ranks
are at most one passage apart and the one behind is still spinning
(`PassagesInv`); a rank's local sense differs from the shared one exactly when
it is behind (`SenseInv`); the count is two while a rank opens the barrier, and
otherwise the number of ranks that wait for the next passage (`CountInv`); a
scratch nobody pushes to holds the last payload pushed (`ScratchInv`).

`EpTransport_proofs` proves `EpTypeCorrect` for either value of `PushSide`, and
`EpSumsItsOwnCall`, `EpRegionsExclusive` and `EpReturnsOwnSum` from the
assumption `PushSide = FALSE`, for every number of layers, every counter width
and every number of calls. The argument has two levels, because a timeout
voids the protocol and the error words have to make up for it. While no error
word is set (`CleanInv`), the cards are in lock step: card 1 is at the call
card 0 waits for or at the next one (`LockStep`), so a layer's counters and
flags differ by at most one, and since they differ by at most one the signed
comparison modulo 2 * `Half` tells "answered" from "not yet" for every `Half`
of at least one (`Comparison`); the flags say which payloads are whole in the
regions (`Doorbells`, `Payloads`). The other parts hold whatever timed out:
`QueueInv` bounds what the cards have executed by what is queued and keeps card
0's dispatch at most one call ahead of its add, `FlagInv` says that a flag
follows the counter of the card that stores it, `InboxInv` that the inbox holds
the last call dispatched, and `HostInv` what the host has seen: an eager call
starts on drained queues with every error word clear, so an error during it can
only be in its own layer's words. `ErrorsStay` (no step of a card clears an
error word) and one case per action (`CardIInv`, `HostIInv`) give
`EpInvariance`.

`PushArExchange_proofs` proves `TypeCorrect` and `BarrierReady` for every set of
failing steps and every number of attempts, and `ExchangeAgrees`
(`EngagedTogether`) and `CollectivesMatch` (`SameTransport`) from the hypothesis
`Faults \cap Late = {}`, where `Late` names the steps whose failure lets the
peer go on to engage: reading the peer's status, the shared memory, receiving and
opening the event pool, and the events (rank 1 cannot get past a pool that rank 0
failed to make or send). The hypothesis is tight: TLC refutes
`EngagedTogether` for each one of the five steps alone. `OnScript` says that each
rank is at a step of its own script. `BarrierOrder` follows the barrier from its
creation by rank 0 to its use. `Agreement` gives, for each place of rank 1, the
places of rank 0 and what is on the socket: before the statuses
(`BeforeStatus`), when rank 1 has read rank 0's status or never will
(`StatusRead`), and afterwards, when both decide from the same two values and
rank 1 passes the event pool only after rank 0 has nothing left to fail
(`AfterStatus`). `RouteTaken` says that a call takes the route of the decision.

`ParkIndex_proofs` proves all seven properties of the run, for every set of
turns and prompts, block size, number of slots and budget: `TypeCorrect`,
`ReachableParked`, `FindCorrect`, `StoresMakeRoom`, `ProtectedStay`,
`OldestGoFirst` and `ReleasesExactly`. `IndexInv` says that records carry turns
and counts of pins, that `by_conv` is a strict total order of finitely many
conversations, that an entry holds records of its own conversation and keys that
turns of it have, and `ReachableIsParked`. The search by blocks finds the longest
strict prefix because a prefix of a prompt that ends in a block shares the whole
blocks before it (`MatchBlock`), and the largest end among finitely many exists
(`LargestExists`). A store makes room because dropping more never hurts
(`FitsMonotone`): were it not to fit after dropping the victims, some candidate
would not be a victim, and the oldest such candidate (`OldestExists`) has
exactly victims below it, so it would have to be one (`VictimsMakeRoom`). What a
store releases is exactly what no parked conversation owns any more because a key
determines its conversation (`KeysNameConversation`). Only finite sets and their
cardinalities are used, so no induction over sums or sequences is needed beyond
the library's theorems.

`ParkingScheduler_proofs` proves, for every finite set of requests, wherever
their turns end, and every limit: `TypeCorrect` (which bounds the pool),
`CopiesHeld`, `LoadsFound`, `RunningStay` and `WholeConversationsGo`.
`SchedulerAssumption` states what the code gives: positive sizes, and a turn that
extends its prompt and covers a block. The index's lemmas are used through the
instance `P` of `ParkIndex_proofs`, whose assumption is derived from
`SchedulerAssumption` (`IndexAssumed`). `SchedulerInv` joins `IndexInv` with
five parts. `TailsHeld`: a tail is in the queue or in one store job, never in
both, and its blocks are held exactly while it is in one of them. `NotedRun`: the
conversation of a noted request is marked running. `PoolInv`: the pool keeps its
size, and a job's chunks are resident, not ready and of no other job, so that
neither an eviction nor a second job touches them. `ChoicesOK`: only keys of tails
are chosen. `LoadsReadWhatWasFound` is itself inductive with these: a load that
was looked up starts on complete chunks, which are in use and so not evictable
until it ends; one that was not looked up ends where upstream hits, on a block
boundary (`HitsAligned`, `ChosenFacts`). An eviction
takes whole conversations because two conversations have no key in common
(`KeysApart`).

Both invariants were checked by TLC before they were proved: `IndexInv` on the
instance of `park_index`, `SchedulerInv` on instances of the scheduler with pools
of different sizes, block-aligned turns included.

Only model-checked: the liveness properties `CallReturns` (of both transports),
`EveryRankDecides`, `QueuedReturnsFinish` and `TailBlocksReleased`, since fairness
and ENABLED are outside the prover. `GraphAllReduce` and `EagerExchange` have no
theorems: what their sources claim is what their runs refute.

## 6. Not modelled, and why

Device and driver behaviour beyond latched events, in-order queues and
completion of commands is taken as documented by Level Zero; memory-ordering
effects across PCIe are not modelled. The arithmetic of the reduce and of the
experts and the element types are left out. A peer process that dies during an
exchange (its socket then reads as closed) is not modelled; one that dies during
calls is, in `EagerAllReduce`. Of the expert-parallel plugin the recording of
graphs, the warm-up page touches and the residency probe are left out: they run
once, before any call. The scripts that lease and reset the cards are listed as
hazards and not modelled yet.

The modelled parts are a small share of the repository's lines. By far the
largest part is numerical kernels, quantisation and weight conversion, patched
copies of third-party engine and model files (`src/sglang/patches`,
`src/vllm/patches`, `src/vllm/nvfp4`), tasks for evaluating models
(`src/evals`), and the recorded evidence of campaigns. Kernels and conversions
have no state between calls; the patched files carry the state of vLLM and
SGLang, of which the repository's own change is a few lines each; the evaluation
tasks are programs for a model to work on, not parts of the system. PROJECT.json
lists these parts with their reasons.

## 7. Plan

1. Done: the push all-reduce family with its contract and engagement, the park
   index, the parking scheduler with the conversation policy, the
   expert-parallel transport; the proofs of every safety property the passing
   runs check.
2. `GraphAllReduce` and `EagerExchange`: what holds of them nevertheless, as
   theorems (which signals cannot be lost, and under which order of the two
   ranks the exchange is safe).
3. `Leases`: the locks of `gpu-run` and `cpu-run` with timeouts, signals and
   children that outlive their wrapper; `xe-reset` on top of them.
