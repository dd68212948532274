# Verification of the io_v2 components of gvsoc-core

This directory holds TLA+ models of the components of gvsoc-core that speak the
`io_v2` memory protocol - the interconnect, the cache, the protocol adapters and the
in-order core with its load/store unit - and of the platform interrupt controller,
the TLC configurations that check them, and TLAPS proofs about all twelve models.
Every definition names, in `PROJECT.json` under `map`, the lines of `src/` it stands for.

## 1. The system

gvsoc-core is the model library of GVSoC, an event-driven simulator of embedded
SoCs. A platform is a graph of components written in C++, instantiated and wired
by Python generators. The simulation engine (clock engines, ports, the `io_v2`
header) is in another repository; what the models here rely on is listed in
section 2.

| Component | State it keeps | Operations | What makes it correct |
|---|---|---|---|
| `limiter_v2` | emission slot, byte counters, one parked chunk, an owed retry, a clock event | `input_req`, `event_handler`, `output_resp`, `output_retry`, `reset` | no byte lost or sent twice, one answer per request, chunks in order, no lost wake-up |
| `splitter_v2` | current burst, phase and chunk counters, one stuck chunk per output, an owed retry | `input_req`, `issue_phases`, `after_chunk_completion`, `finalize_parent`, `output_resp`, `output_retry`, `reset` | phases in order, exact chunk count, aligned chunks, errors not masked |
| `log_ico_v2` | a pending bit per master and bank, round-robin pointers, the FSM event | `input_req`, `fsm_handler`, `pick_winner`, decoding, `reset` | no denied master forgotten, fair arbitration, no more than two elections per bank and cycle |
| `router_v2_backpressure` | watermarks, one parked request per input, deny bits, in-flight pool, proxy waiter | `req_muxed`, `forward`, `send_handler`, `resp_muxed`, `retry_muxed`, proxy commands | a granted request is in one place and moves on, a denied master is called |
| `io_v2_clock_bridge` | four FIFO stages with events in two clock domains, an owed retry | `in_req`, `out_resp`, four stage handlers, `reset` | FIFO order, bounded occupancy, no stage without its event |
| `demux_v2`, `rw_splitter_v2` | the output that denied last | `input_req`, `output_resp`, `output_retry`, `reset` | the master is woken, and only by an output it waits for |
| `remapper_v2` | an owed retry; the address lives in the request | the same | an address is remapped once |
| `router_v2_bandwidth`, `router_v2_untimed` | a queue of granted requests per input, stalled outputs (bandwidth); in-flight pool, proxy waiter | `req_muxed`, `forward_inline`, `drain_queue`, `resp_muxed`, `retry_muxed`, proxy commands | a granted request is in one place, translated once, and its answer finds its master through several beats |
| `router_v2_beat` | burst table, a FIFO and an open burst per input, a lock and a stall per output and channel, round-robin pointer, FSM event | `req_muxed`, `fsm_handler`, `forward_beat`, `wake_denied_masters`, `resp_muxed`, `retry_muxed`, proxy commands | a slot belongs to one burst from its first beat to its last answer, locks and stalls name the right input |
| `cache_v4` | lines, one refill and its owner, a queue of waiting requests, two retry flags, the replacement register | `input_req`, `handle_req`, `refill`, `refill_resp`, `refill_retry`, `fsm_handler`, flush and enable wires, `reset` | a tag is over its own bytes, one refill at a time, every waiting request served |
| `io_v2_beat_adapter` | bytes routed per request, a queue of beats with their ready cycles, the FSM event | `req_handler`, `resp_handler`, `retry_handler`, `schedule_chunk`, `fsm_handler`, `reset` | every byte sent once and in order, one last beat, no beat without its event |
| ISS v2, in-order core | scoreboard, one parked release, task list, commit queue, free entries and state of the accesses, wfi and fence flags | `instr_event`, task handlers, `data_req`, `data_response`, `data_retry`, fence, wfi, interrupts | no register released early or never, every access retires and commits in order, a fence waits for all of them |
| `plic` | priorities, levels, and per context enables, pending and claimed sources, copied priorities, a line | device lines, register writes, claim, complete | the line is up while a source waits, levels are followed, the highest priority is claimed |
| `memory_v3`, loaders, traffic generators | memory contents, watermarks | read, write, atomics | slave or master of the components above |
| v1 interconnect, caches v1 to v3, the instruction semantics of the ISS, clint, devices, gdbserver, dumpers, co-simulation | | | not modelled, see section 8 |

**How components interact.** A master calls `req()` on its slave and gets DONE
(answered now), GRANTED (a `resp()` will come) or DENIED (not taken; the slave
owes a `retry()`, in which the master re-issues). The simulator is single
threaded, but these calls *nest*: a slave that calls `resp()` or `retry()` runs
the master's code, which may call `req()` on the same slave before the slave's
handler has executed its last lines. Clock events are the only other way into a
component. The proxy commands of the routers come from another thread, which
holds the engine lock except while it waits.

**What is hard.** Almost every component is a small amount of state and a large
number of orders in which its handlers can be entered: inline answers mixed with
late ones, denials in the middle of a burst, a master that refills a slot from
inside `resp()`, an event that is still enqueued when its reason is gone, a
retry that is owed from several places. The forty places of the code where this
bites are listed under `hazards`, with the properties that would notice. The
repository's tests cover one order each.

## 2. What is assumed of the code outside this repository

These are the definitions marked `external` in the map.

* *Master.* It issues from the engine or from inside a callback. Once a request
  is denied it waits for `retry()` and re-issues it there. Where the tests'
  masters behave differently the module says so: those of `PassThrough`, `Cache`
  and `RouterInline` go on issuing after a denial, and so do those of
  `RouterBackpressure` when `EagerMasters` is TRUE. The masters of `LogIco` in `Eager`
  issue new requests inside a `retry()`, as `splitter_v2` does with its next burst.
  In `RouterBackpressure` the address of a denied request is either written again before
  it is re-issued (`MastersRestore`: the stub master of the tests calls `set_addr`), or is
  what the router left in it (`limiter_v2` and `splitter_v2` re-send their sub-request as
  it is).
  A master of the beat router has one burst of several beats under way, one whose first
  beat was denied included: this is the rule of router_v2_beat.cpp:544-548, on which
  `active_multi_beat_slot` relies.
* *Slave.* It answers `req()` with any of the three statuses, whenever it likes,
  and `resp()` comes in any order; where the code distinguishes the beats of an
  answer it may come in several. A slave that denied owes a `retry()`, and except
  in `RouterBeat` it goes on denying until it makes it; several models also let it
  retry when it owes nothing. Slaves do not call back from inside `req()`, and the
  slaves of the beat router never answer DONE (the code asserts it).
* *Clock engine.* `enqueue(n)` runs the event n cycles later, in an order with
  the other events of that cycle that the models leave open. An event enqueued
  with no delay runs at the end of the current cycle. Of two enqueues of one
  event the earlier date stays (`BeatAdapter` allows either date to stay, since
  there the code does enqueue an event that is already enqueued). Every event due in a cycle runs before the next.
  The two engines of the bridge tick independently.
* *Hart and software.* They write the registers of the interrupt controller in any
  order. The constants `Given` and `Disciplined` say which sources software enables
  where, and that it changes a priority only while the source is disabled.
* *Reset* is that of the whole platform: masters and slaves forget too. What the
  code does not clear (the limiter's event, the FSM event of the logarithmic
  interconnect, that of the cache) survives it. The routers and the interrupt
  controller have no reset; that of the core is not modelled, since it is not given
  while accesses are in flight.

## 3. The modules

| Module | Models | Remarks |
|---|---|---|
| `IoService` | the promise of an io_v2 component to its master | abstract: accepted bytes, each served once, one answer, denied requests re-issued in `retry()` only; a request without bytes is answered at once, and only a reset drops one |
| `FifoChannel` | a channel that keeps the order | abstract |
| `Limiter` | `limiter_v2.cpp` | `pc`, `cont` and `parent` are the call stack; `paced` stands for `next_req_timestamp`, `event` for the event |
| `Splitter` | `splitter_v2.cpp` | `next_output` and `cursor` are the loop of `issue_phases`; `ret` is what `input_req` returns to |
| `LogIco` | `log_ico_v2.cpp` | masks are sets of bits; what the winner re-issues is forwarded in `Elect`, what else arrives before its `retry()` returns (`RetryReturns`) in `MasterForwarded` |
| `RouterBackpressure` | `router_v2_backpressure.cpp`, `proxy_command.hpp` | a request has a fixed input and duration; `addr` is the address it is issued with next, `route` the mapping it was decoded to (`pending_mapping_id` while it is parked); `handler` and `cb` are the call stack |
| `ClockBridge` | `io_v2_clock_bridge.cpp`, parametric mode | deadlines are relative to the current cycle of their own engine |
| `PassThrough` | `demux_v2.cpp`, `rw_splitter_v2.cpp`, `remapper_v2.cpp` | one state machine, a latch and an inline forward; `kind` picks the component, which differ in route and address |
| `RouterInline` | `router_v2_bandwidth.cpp`, `router_v2_untimed.cpp`, `proxy_command.hpp` | `variant` picks the router; `handler` holds the walk of `retry_muxed` and the nested drains |
| `RouterBeat` | `router_v2_beat.cpp`, `proxy_command.hpp` | beat k of burst b is `<<b, k>>`; `handler`, `wake` and `cb` are the call stack, `wake` being the loop of `wake_denied_masters` |
| `Cache` | `cache_v4.cpp` | the bytes of a line are represented by the line they were fetched for, the victim of a refill is any way |
| `CacheLru` | the replacement register of `cache_v4.cpp` | operators only |
| `BeatAdapter` | `io_v2_beat_adapter.cpp` | ready cycles are relative to the current one; instance of `IoService` |
| `IssCore` | `exec_inorder.cpp`, `lsu_v2.cpp`, the scoreboard of `regfile.hpp`, the wake-up of `irq_riscv.cpp` | any program over a set of instructions; `current_insn` may be redirected when `instr_event` begins (an exception, an interrupt); `phase` is the place in `instr_event`; times are relative; an access that split in two keeps what is left to send |
| `Plic` | `plic.cpp` | bit vectors are sets of sources |
| `LimiterRouterBeatProofs`, `SplitterIssProofs`, `RouterLogIcoProofs`, `RouterBackpressureProofs`, `ClockBridgeProofs`, `PassThroughPlicProofs`, `CacheProofs`, `BeatAdapterProofs` | | the proofs of section 7. `LimiterRouterBeatProofs`, `SplitterIssProofs`, `RouterLogIcoProofs` (with `RouterInline`) and `PassThroughPlicProofs` hold those of two components each, one after the other; that is why `RouterBeat`, `IssCore`, `LogIco` and `Plic` prefix the names every module has (`BeatInv`, `IssInit`, `LogIcoNext`, `PlicTypeOK`) |
| `MC*` | | the instances of section 4 |

State variables and operators keep the names of the C++ members and methods
where there is one. A handler that calls out is one action up to the call; the
part after it is another action, enabled only when the callback has returned,
so that no other handler can run in between (`pc`, `handler`, `cb`). A
handler that does not call out is one action. Definitions named `Slip...` are
what the definition after them would be with a plausible mistake in it: no
specification uses them, they serve to show that the properties can fail.

Two variables record what the code loses, so that the properties can say that
nothing else is lost: `misled` in `RouterBackpressure` (answers given to a stale
proxy waiter, section 5) and `dropped` in `ClockBridge` (transactions a slave
denied, which the bridge does not re-send).

Left out everywhere: payload data, traces, statistics, and the latency
annotation of answers, which no handler's decision depends on.
`RouterBackpressure` leaves out the separate read and write channels, which `RouterBeat`
has; `RouterBackpressure`, `RouterInline`, `PassThrough` and `Cache` keep the rewritten
address. A router with `bandwidth = 0` is one whose requests have
duration 0.

## 4. The runs

All bounds are values of CONSTANTS in the `.cfg` files and in the `MC` modules.
In every module `Inv` (`LogIcoInv`, `IssInv`, `BeatInv`) is the conjunction of the type invariant and the named parts
the handlers keep up between them (`NoOvertaking`, `TwoPerBank`, `DeadlinesSpaced`,
`TagUnique`, `StreamOrder`, ...): what the inductive invariants of the proofs are
built on. `Progress` is the conjunction of a module's liveness properties.

| Run | Instance | Shows |
|---|---|---|
| `limiter` | requests of 1 and 5 bytes, 2 bytes per cycle, one bad byte | the byte count that decides on the answer is exact through splits, denials, replays and re-entrant requests; a parked chunk is not overtaken; no lost wake-up, the event is armed; refinement of `IoService`; granted requests answered, denied masters called back |
| `splitter` | a 4-byte input over two 2-byte outputs; a misaligned burst of 1 + 4 + 2 bytes with an error, a misaligned single phase, an empty request | pending count exact and one phase at a time (`PhaseExact`), chunks aligned, refinement of `IoService`, liveness |
| `log_ico` | 3 masters, 2 banks, addresses 1 and 6 (different banks), words of 1 and 2 bytes, one denied request per master, one master that issues new requests inside a `retry()` | bits and denied requests agree, the FSM is armed while one waits, at most two elections per bank and cycle with one access each for the masters that issue nothing new inside a `retry()`, round robin, every denied request served; decoding is a bijection and interleaves words, for 1 to 8 banks of four words |
| `router` | 2 inputs and 2 outputs under two loads: three requests, two of them competing at one input; or a request, an invalid one and a proxy thread on one output. Durations 1 and 2; one address is translated to that of the other mapping, masters restore it | a granted request is parked or in flight, never both or neither; parked requests have an event or an owed retry, deny bits stand for owed retries, the event always finds a request, a waiting proxy thread can be signalled (`Woken`); what the first input and the proxy thread were granted is answered |
| `router_inline` | both routers; 2 inputs, 2 outputs, 4 requests (two behind each other at one input, one invalid), answers of several beats, a proxy thread | the in-flight record is in place at every beat, the proxy command of the bandwidth router ends with the last; a granted request is queued or below and translated only below; nobody waits without a retry to come; liveness of the first input, of denied masters and of the proxy thread |
| `router_beat` | 2 inputs, one output with two channels, 2 slots; a write of two beats, a read, a single write and an invalid burst of two beats, a proxy thread | slots, snapshots of `is_last` and open bursts agree with the beats that carry them; FIFO bytes exact and within the limit; locks and stalls are true of the inputs they name (`OutputsCurrent`); FIFOs have their event, denied masters something to wait for |
| `clock_bridge` | 3 requests, depth 2, delays 1 and 2, a slave that may deny | no request lost or duplicated, deadlines spaced, every stage armed, FIFO forward path (refinement of `FifoChannel`), refinement of `IoService`; a granted request is answered unless the slave denied it, a denied master called back |
| `pass_through` | demultiplexer with 4 outputs, read/write splitter, remapper whose window overlaps its target; 3 requests, 4 addresses of 3 bits | the one remembered output is enough to wake the master; addresses are remapped exactly once |
| `cache` | one set of one or two ways, 3 requests to 2 lines, flushes, enabling and reset at any time | a line in one way only, no tag over the bytes of another line, one refill, of the head of the queue; a granted request is in one place; every wait has its wake-up; the queue drains unless the master keeps issuing; the replacement register has period 255 and picks every way about equally often (associativities up to 8) |
| `beat_adapter` | requests of 5 and 1 bytes, beats of 2, answers inline, whole or in chunks of 2, latencies 0 and 6 | what waits for a master continues what it got, without gap or overlap; the event is armed for the head of the queue; refinement of `IoService`; a granted request is given back |
| `iss_core` | programs of loads, stores, split accesses, computations, jumps, fences and wfi over two registers; one or two accesses in flight; any slave, or, with split accesses, slaves that never deny and answer in a later cycle | a register is invalid exactly from dispatch to the cycle after the access retired, a dependent instruction waits for it (`LoadUse`); each access holds one instruction of the commit queue and is in the task list once when it waits for the core, asleep or not; a fence is passed only when everything before it has committed; a core in wfi stops its event only when nothing waits for it (`SleepsIdle`) |
| `plic` | 4 devices, bit vectors with room for a fifth, 2 contexts without a common source, priorities 0 and 1 | the line to a hart is up exactly while a source waits; what is pending is what is enabled and up; the claim returns the highest priority although it compares copies; a source that nothing comes before is taken |

*Why the bounds are enough.* Each instance has one competitor more than the state
of the component can hold (a second request for a one-request slot, a third
transaction for a depth of two, a third master for an arbiter that must skip
one, a third burst for two slots, a second line for the ways of a set,
a third access for two entries, a second release for one slot), bursts with a first, a middle and a last part, and every mixture of the
three statuses. All counters are bounded by the constants, so no state
constraint is used. The proofs of section 7 remove the bounds, for safety.

Deadlock is checked in every run: a platform can always tick or reset.

## 5. Where the code and its documentation disagree

Each of these has a configuration of its own, in which TLC finds the documented
property violated. They are not among the runs of `PROJECT.json`, which are the
properties the code has.

* `MCRouterRetry.cfg` (`DeniedRetried`, a lost wake-up). `retry_muxed` forwards the
  parked request and so ends the window in which the input denies, but unlike
  `send_handler` it does not call `retry()`. A master that was denied by the
  one-pending rule in that window waits for ever, under the fairness of section 6.
  The comment of `send_handler` (router_v2_backpressure.cpp:509-513) says why the
  call is needed.
* `MCRouterTranslated.cfg` (`Woken`). `req_muxed` writes the translated address into the
  master's own request (router_v2_backpressure.cpp:411), and a denied inline forward
  leaves it there (:451-468), where the bandwidth and the untimed router restore it
  (router_v2_bandwidth.cpp:319, router_v2_untimed.cpp:251). A master that re-sends the
  same object, as `limiter_v2` and `splitter_v2` do, is translated and decoded again. In
  the run it gets to the other output and leaves the bit of the first one set; the
  `retry()` of the first then forwards a later request that waits for its event
  (`retry_muxed`), and `send_handler` finds no request. `Woken` needs masters that write
  the address again, or mappings whose translated addresses decode to themselves.
* `MCLogIcoEager.cfg` (`TwoAccesses`). While the FSM runs, the logarithmic interconnect
  forwards whatever arrives (log_ico_v2.cpp:242-261), not only what the winner had denied.
  A master that issues new requests inside `retry()` can get them to any bank any
  number of times, without an election for them, where log_ico_v2.cpp:36-38 says that each
  bank serves at most one master per cycle. Three masters get to one bank in the run. What
  holds is `LogIcoInv`: two elections per cycle, and by that two accesses of the masters
  that only re-issue what was denied.
* `MCRouterBeatAtomic.cfg` (`BurstAtomicity`). The lock of a channel of the beat router
  records the input, not the burst. When a burst ends, `resp_muxed` releases the lock
  although a later burst of the same input has been forwarded there, and another input
  starts inside it, where the header (router_v2_beat.cpp:41-42) promises burst
  atomicity. The slots keep the answers apart all the same (`SlotsExact`).
* `MCIssCoreLate.cfg` (`Retires`, a livelock). Of two accesses that come due in one
  cycle the second takes `next_retire_cycle` as its date and moves it one further
  (lsu_v2.cpp:526), so that it is put off again each time until another instruction
  retires. lsu_v2.hpp:160-164 promises one write-back per cycle. With one access at a
  time every access retires, asleep or not (`MCIssCoreMemory.cfg`, which passes).
* `MCIssCoreInline.cfg` (`BothBeats`). When the first part of a split access is
  answered in its own cycle, its entry has been given back before it is marked
  (lsu_v2.cpp:422): the second part is not sent, and the mark is met by the next access,
  where lsu_v2.cpp:401-402 says that the entry is not freed there.
* `MCIssCoreDenied.cfg` (`NoneLost`). A second part that is denied is not sent again by
  `data_retry`, where lsu_v2.cpp:497-498 says that the retry leads back to
  `data_response`.
* `MCIssCoreMixed.cfg` (`HeldExact`). A second part that is answered in its own cycle
  ends the access inside `fire_misaligned_second`, and its instruction stays in the
  commit queue (lsu_v2.cpp:515-518).
* `MCIssCoreAsleep.cfg` (`AsleepIdle`). A core that sleeps in wfi has its event disabled
  (exec_inorder.cpp:568). An answer that comes then, and is put off to a later cycle,
  enqueues its task all the same (lsu_v2.cpp:127), and the access retires only after the
  next interrupt. What `retain_check` does give is `SleepsIdle`: nothing waits when the
  event is stopped.
* `MCPlicShared.cfg` (`LevelTriggered`). Only the first context that enables a source
  hears of its line (plic.cpp:193), although interrupts are level-triggered
  (plic.cpp:175).

The following have no configuration of their own; most are listed as hazards, with
the property that holds instead.

* A recycled in-flight record of the backpressure router keeps the `proxy_waiter` of a
  finished proxy command, and the answer of a master's request is given to that. The
  model has it; `misled` collects the requests concerned. The other routers clear the
  field.
* With a master that issues on after a denial, the walk of `retry_muxed` takes a request
  delayed by the bandwidth for a denied one and forwards it early: with `EagerMasters`
  TRUE `Woken` fails, since the event then finds no request.
* The re-armed election of the logarithmic interconnect and the one of the end of the
  cycle can both elect a master for a bank in one cycle; at most two elections is what
  holds.
* A refill of the cache that is answered after a flush brings its line back. A refill
  whose request carries no data leaves the tag of the victim over the new bytes: with a
  request in `NoData` the invariant of `Cache` fails.
* The untimed router ends a proxy command at the first beat of its answer.
* The threshold register of a context of the interrupt controller (plic.cpp:87-88) is
  stored and never compared with.
* In the beat router an invalid burst of several beats frees its slot while a
  continuation may be queued with its index (needs an input FIFO of more than one beat);
  a write beat within `width` but larger than `max_input_pending_size` is denied even by
  an empty FIFO, and nothing is then in the router whose end would wake its master; a
  master denied because a proxy command holds the last slot is not woken by the answer
  to that command; a proxy command denied for lack of a slot is signalled only by a `retry()` of an
  output; and single-beat bursts issued in the middle of a longer one (`Alongside`) can
  wait for the channel their own input's burst must first leave.
* The beat adapter never answers a request of size 0, and gives more than
  ceil(size / beat width) beats when a slave's chunks are not whole beats.
* Four more concern the number of cycles something takes, which the models do not count
  where no decision depends on it: a replayed chunk of the limiter is not paced, so two
  chunks can leave in one cycle; two inputs of the backpressure router can forward to
  one output in one cycle, since the watermark set by the first is visible after the
  clock edge only; the depth gate of the bridge does not count what the slave holds; and
  an arrival in the bridge in the cycle in which the head is due moves the event of the
  head to the next cycle.

## 6. Fairness

Liveness is checked under `FairSpec` and only says what the scheduling of the
simulator gives: calls return (weak fairness of the steps of the call stack; in `LogIco` a master goes on
issuing inside its `retry()` for a while, but not for ever), the
clock engine runs what is due and goes on (strong fairness where other events can
keep interrupting it, since an engine does get to the next cycle), a slave
answers what it granted, makes the retry it owes, and does not deny the same
request for ever. The last is an assumption on slaves that no component can do
without: strong fairness of the accepting outcome. Nothing is assumed of a
master's own requests; it has to re-issue in `retry()` only. `PassThrough` does not
need slaves that accept.

Some limits of the code show here. In the backpressure, bandwidth and untimed routers
only the first input is sure to be served, since the walk of `retry_muxed` starts there
each time. In the demultiplexer the master is always woken, but one request can starve
when its output is busy each time the master re-issues. In the cache, what the master
sends from inside `resp()` is served before the queue and can start a refill each time,
so `QueueDrains` excepts masters that never stop. For the beat router only safety is
checked, `Woken` in place of liveness: its instance is too large for a liveness check
in a few minutes. For the in-order core too, since `Retires` fails (section 5). The
liveness of `plic` assumes a hart that claims while its line is up (weak fairness of
the claim).

## 7. What is proved

Every theorem holds for every value of the constants that satisfies the named
assumptions of its module, which TLC evaluates in the runs; a theorem that needs more
says so with an ASSUME of its own. In each module a strengthening (`IInv` or the like)
is shown to hold initially and to be kept by every action, one step per action, and
the theorems follow from it.

**Limiter** (`LimiterAssumption`, `NoneAssumption`: sizes and bandwidth above zero, any
placement of errors).

* `BytesConservedHolds`: `remaining_size` of a request is the number of its bytes
  no slave has answered. The count alone is not inductive: that a chunk takes
  exactly its size off the set of unanswered bytes needs chunks that are
  non-empty, inside the request, pairwise disjoint and below what is not emitted.
  `IInv` is the conjunction of these (`SlotShape`, `ChunkShape`, `ChunksApart`)
  with the types of the variables involved and `CallShape`: a request about to be
  answered is granted and has no byte left. Lemmas give what a sent chunk, an answered
  chunk and an accepted request do to the set `Unserved`, and finite-set theorems carry
  that over to its cardinality.
* `TypeCorrect`, of which the only hard part is that the counters never go below
  zero, which is what `IInv` says, and `InvHolds`, which adds that a parked chunk is
  not overtaken and that the event is armed. The last is kept only together with where
  the call stack is: `WillArm` says at which of its points the arming is still to come.
* `Refinement`: `Spec => ServiceSpec`. Each action is, under the mapping, an
  acceptance, a denial, the serving of a set of bytes, an answer, a retry, a reset
  or a stutter; `IInv` provides that the served bytes were still to do and that an
  answered request has none left.
* `WakeupHeldHolds`: whenever the engine is back in control, a denied master has
  its retry recorded and something is in flight that leads to it. The strengthening
  `WInv` says the same of every point of the call stack.

In this and the two other refinements `ServiceSpec` also says that a step which is not
`reset` is not the `Reset` of `IoService`: no handler drops a request it has accepted.

**Splitter** (`SplitterAssumption`, `NoneAssumption`: any number of outputs, any widths,
any bursts).

* `InvHolds`: the pending count is the number of chunks that are out and not answered,
  no chunk of a phase is out while another phase is, chunks do not cross the boundary of
  an output, and a denied master is owed its retry. The count is again a cardinality, so
  `IInv` has the places of the chunks as sets that are pairwise apart, the shape of the
  burst (what is issued plus what is left is the burst) and what each point of the loop
  of `issue_phases` has done so far.
* `Refinement`: `Spec => ServiceSpec`. The bytes still to do are those of the chunks not
  answered and those not issued; a lemma gives what issuing a chunk and answering one do
  to that set, and that it is empty when `finalize_parent` runs.

**Logarithmic interconnect** (`LogIcoAssumption`: any number of masters, any power of two
of banks up to 256).

* `RoundRobinHolds`: a master that stays pending comes closer to the head of the scan
  with each election. From the lemma on `pick_winner`: it returns the pending master
  closest to the pointer, which is the least number of steps of the scan (`LeastNat`).
* `LogIcoInvHolds`, for any number of requests a master may have denied at once and any
  masters in `Eager`: every denied request has its bit, the FSM is armed while a bit is
  set, and a bank has at most two elections in a cycle. That bound is not
  inductive: `ElectionBound` says that a bank has had one election at most before the end
  of the cycle and two after it, less the one that an event which is due, or a loop that
  has not passed the bank, is still to make. When a
  master holds one denied request at a time (`MaxDenied = 1`) a bit is set *only* for a
  denied request, and the masters outside `Eager` are served at most once per election: an
  election calls one master, whose one denied request is of the elected bank. With several
  denied requests per master two of them share a bit, and a master can bring requests of
  other banks into its election: neither part holds. For the masters in `Eager` there is
  no bound (section 5).
* `DecodeBijectiveHolds`: bank and offset determine the address, for every interleaving
  width `LogIcoAssumption` admits (words of up to 256 bytes) and up to eight banks.

**Clock bridge** (`BridgeAssumption`: any depth and delays).

* `InvHolds`: a granted request is in one place, deadlines are spaced, each stage with a
  transaction has its event no later than its head is due, and a denied master is owed
  a retry somebody will make. The proof is in two layers. The one about time looks at
  each stage by itself (`QueueShape`): what `enqueue_in`, the pop of a handler and a
  tick do to a queue of deadlines, and that the event is armed in every stage but those
  the running handler is still going to reschedule. The one about requests looks at
  the sequences of names only: they are pairwise apart, without repetitions, and
  together with what is below they are the granted requests.
* `ForwardFifoHolds`: the two forward stages, in two clock domains, implement one
  `FifoChannel`.
* `Refinement`: `Spec => ServiceSpec`.

**Demultiplexer, read/write splitter, remapper** (`PassThroughAssumption`,
`PowersPositive`).

* `InvHolds`: `WakeupHeld` - the single latch `denied_output` is enough, although the
  master keeps issuing and several outputs may have denied it - and `RemappedOnce`.
* `NoSpuriousRetryHolds`, an action property, from the same invariant: the `retry()` of an
  output that denied none of the waiting requests is not passed on. This one is in no
  run.

**Bandwidth and untimed router** (any number of inputs, outputs and requests).

* `InvHolds`: a granted request is queued or below, once, and its in-flight record is in
  place at each beat. A walk of `retry_muxed` is interrupted by every callback it makes,
  in which masters send again, so the invariant says at each of its points which queues
  the walk has still to come to and which one it is draining.
* `WokenHolds`: nobody waits without a retry to come, from the same invariant.

**Backpressure router** (`RouterAssumption`; any number of inputs, outputs and requests,
all durations and latencies). Both theorems assume `~EagerMasters` and `AddressesKept`: a
denied request is issued again with its own address, or with a translated one that decodes
to the same mapping. With masters that go on issuing after a denial, and with addresses
that change the mapping, `Woken` does not hold (section 5).

* `InvHolds`: a granted request is parked at its own input or in flight, never both or
  neither, except for the answers that a stale waiter takes.
* `WokenHolds`: a parked request has its event or a retry to come, the event always finds
  a request, deny bits are owed a retry, and a waiting proxy thread can be signalled.

  The event would find nothing if the walk of `retry_muxed` forwarded a request whose
  event is still enqueued, so the invariant has to say whose the deny bits of an input
  are: with a request parked there, that request's, and then its event is over
  (`BitsParked`); with none, those of the one request its master has denied,
  which is of the mapping the request decodes to again (`BitsDenied`). What could break this is a master that is called with its bit still
  set and has its request delayed. `send_handler` does call it so, but only in the cycle
  of the denial, when the delay is zero, and the output, which owes a retry, denies
  again (`BitsFresh`, `OwnBit`).

**Beat router** (`RouterBeatAssumption`; any numbers of inputs, outputs and slots, any
bursts, beats and sizes, answers in any order, shared or separate channels). Both theorems
assume `InvalidAlone`: a burst of several beats that decodes to nothing is a write of
which two beats do not fit in the FIFO of its input. Without it a freed slot can still be
named by a queued beat (section 5).

* `BeatInvHolds`: the slot a beat carries is that of its own burst until the last answer
  of the burst, and there is one snapshot of `is_last` for each beat below (`SlotsExact`);
  a granted beat is in one place, and a FIFO holds the bytes it counts, within its limit
  (`GrantedHeld`); locks and stalls are true of the inputs they name (`OutputsCurrent`).
* `WokenHolds`, with `Wakeable`: every valid beat fits in an empty FIFO, and the proxy
  thread does not compete for the only slot. Then a FIFO with beats has its event, and a
  denied master has a beat or a burst to come that wakes it. `Wakeable` is needed: section
  5 has the two cases in which the code forgets the master.

  Ten parts make up the inductive invariant besides the types, the locks and the stalls.
  What a master may have accepted, denied and open at once (`Rounds`, `Flags`) gives that
  the open slot of an input is that of its one burst under way (`ActiveOK`). `SlotsOK`
  says of a slot in use what burst has it and why it may not be freed yet: a beat of it is
  granted or more are to come. A FIFO is in issue order, and behind a beat that is not the
  last of its burst the next one follows or is still to be sent (`FifosOK`): this is why
  the snapshot of the last beat is the last of its slot (`LastsOK`), although answers pop
  them in another order than the beats were forwarded. The head that `retry_muxed`
  re-issues is the one that was denied since `fsm_handler` skips an input whose head is
  stalled (`StallsOK`, `StalledWhere`). `Unlocked` releases a lock without asking for which burst, and
  `LockOwned` is kept because a lock that is left still has the burst of its input there.

  `pending_bytes` is a sum over a sequence. `Counted` says that *some* function is the
  sequence of partial sums and ends in the count: such a function is extended when a beat
  is queued and shifted when one is forwarded, without induction; that it is the sum
  `FifoBytes` computes follows from the least index at which two such functions differ
  (`CountedIs`). The size of the set of beats of a slot is used only through adding and
  removing one element.

  For `WokenHolds` the invariant says at every point of the call stack what the theorem
  says when nothing runs: an input that was denied is still ahead of the wake-up loop
  (`wake`), or there is something that will start the loop again (`Awaited`), and
  `fsm_event` may be off with a FIFO not empty only while `fsm_handler` itself runs.

**Interrupt controller** (`PlicAssumption`: any number of devices, contexts, word
lengths and priorities).

* `LineExactHolds`: the line to a hart is up exactly while a source waits for it,
  whatever software does (neither `Given` nor `Disciplined` is used). Each handler ends
  by recomputing the line of the context it touched from `context_best_pending`. The
  strengthening `Shape` gives the types; the lemma behind it is `BestPending`: the
  search finds a waiting source whenever there is one, since one with the best copied
  priority exists (`WinnerExists`, from the well-foundedness of the naturals).
* `LevelTriggeredHolds`: what is pending in a context is what it enables and whose line
  is up, and only that is claimed, when no two contexts are given a common source
  (`GivenApart`). The strengthening says that a context enables only what it was given,
  so that the first context that enables a source is the only one.
* `ClaimsHighestHolds`: a claim returns a source of the highest priority, when software
  is disciplined; the copies that are compared are then exact for enabled sources.

**Cache** (`CacheAssumption`; any requests, lines, sets and ways, and any way as the victim
of a refill).

* `CacheSafe`, for all requests: no two ways hold one tag (`TagUnique`); one refill is in
  flight, and what it left in the cache for `refill_resp` is that of the head of the queue
  (`RefillOwner`); whoever waits has what ends the wait (`Armed`); a granted request is in
  the queue or at the slave, once (`GrantedHeld`).
* `InvHolds`, when every request carries data (`NoData = {}`): with these, no tag stands
  over the bytes of another line (`LineOwned`). Without that assumption it does not hold
  (section 5).

  `TagUnique` is not inductive: a refill writes its tag when it is answered, long after the
  lookup that missed. `LinesOK` says that every tag is in its own set and that the one being
  refilled is in no line until then, and `OwnerOK` that the refill in progress is that of
  the head of the queue. A flush, a switch or a reset between the two only takes tags away
  (`DropTags`). Two parts hold inside a callback too where the invariant speaks of the time
  between handlers (`WaitsOK`).

**Beat adapter** (`BeatAdapterAssumption`: any requests with at least one byte, any beat
width, chunks and latencies).

* `InvHolds`: the beats of a request that wait in the queue continue what its master got,
  without gap or overlap; first and last are marked where they are; a slave that cuts its
  answers at the beats makes exactly ceil(size / beat width) of them; the event is enqueued
  for the head of the queue, and no time is later than a latency explains.
* `Refinement`: `Spec => ServiceSpec`.

  The queue is a FIFO over all requests, whatever the ready cycles, so chunks of several
  requests alternate in it. `Stream` and `Chain` say of one request, wherever its beats
  are, that they follow each other in the queue as in its data, start after what was sent
  and end before what the slave still owes. The marks (`Marked`) and the number of beats
  (`Counted`) are about each beat by itself. `Timed` is about the event: enqueued whenever a
  beat waits and the handler is not running, no later than the head is ready. That no time
  exceeds what a latency explains rests on the arithmetic with which `schedule_chunk`
  spreads the beats of a chunk (`Spacing`).

**In-order core** (`IssCoreAssumption`: any instructions and registers, any number of
accesses in flight and latencies). The four theorems assume `SplitServed`: the memory of a
core that may split accesses does not deny a request and does not answer it in the call
itself. Cores that never split have any memory. The configurations `MCIssCoreInline`,
`MCIssCoreDenied` and `MCIssCoreMixed` of section 5 show what fails otherwise.

* `IssInvHolds`: the scoreboard is what the accesses in flight and the parked release will
  write (`ScoreboardExact`); an access in flight is in the commit queue once (`HeldExact`)
  and, when it waits for the core, in the task list once; a core that is not in wfi has its
  event, and one in wfi with an empty list has it stopped (`TasksArmed`); an entry is given back when all of its access was sent
  (`BothBeats`).
* `LoadUseHolds`, an action property: an instruction is not dispatched in the cycle in
  which a register it uses landed.
* `FenceOrderedHolds`, an action property: a fence is passed only with no access in the
  commit queue.
* `SleepsIdleHolds`, an action property: when `retain_check` stops the event of a core in
  wfi, no access waits in the task list and no register for its release. The tasks that
  wait are in the list (`TasksArmed`), and the list is empty then. That nothing waits
  *while* the core sleeps is not true of the code (`MCIssCoreAsleep.cfg`).

  That the scoreboard stays exact when an access retires needs that no two accesses write
  the same register and none writes what is about to be released (`Masks`): the scoreboard
  is a set, not a count. That the one slot for a release is enough needs that one access
  retires in a cycle, and that what landed in this cycle is in the slot until the next
  (`Landed`). The counts of `HeldExact` and `TasksArmed` are proved as "once" and "absent"
  (`QueueOnce`, `FreeOnce`, `TasksOnce`), which the lemmas on joined queues, tails and
  insertions carry through each handler, and become cardinalities at the end
  (`CountOnce`, `InFlightCount`). The entry a new access takes is free because the list of
  free entries and the accesses in flight are apart.

*Only model-checked.* Liveness (`Progress`, `DeniedServed`, `MasterWoken`,
`QueueDrains`, `GrantedAnswered`, `FirstTaken`): the prover has no fairness or ENABLED.
`EveryWayReplaced`, which is about the whole orbit of a register, computed by recursion.
The other invariants and action properties of the runs, and the refinements, are all
proved.

## 8. What is not modelled

The first-generation interconnect and caches (replaced by the v2 files), the
instruction semantics of the ISS (wide pure functions, largely generated), its
prefetcher and debug unit, what it does in a trap, the first ISS, the vector units, devices, gdbserver, dumpers,
co-simulation wrappers and Python generators: see `components` for each reason.
The transparent bridge (`sync_only`) has no state. Zero-sized requests to the
limiter and to the beat adapter, windows at the top of the address space, and numbers of banks that are
not powers of two are excluded by named assumptions. `memory_v3`, the loader and the
traffic generators are masters and slaves whose behaviour the environment actions of
the models already allow; they have no handshake state of their own beyond it.
Bandwidth in cycles is not measured: pacing is an event that is due or not.

## 9. Plan

Every `io_v2` component of the interconnect, the cache, the two protocol adapters, the
load/store unit of the in-order core and the interrupt controller have a module. What is
left, in this order:

1. `RouterBackpressure` with the separate channels.
2. Compositions: `RouterBeat` in front of a `BeatAdapter`, `Limiter` behind a
   `ClockBridge`, each against `IoService`.
3. Further components: the timer of `clint.cpp` (its interrupt is never early and late by
   less than a tick, for clocks not slower than `mtime`); `dramsys_v2.cpp`, whose
   `rspCallback` stops at a drained head that nothing drains afterwards (:391-393);
   `loader_v2.cpp`, whose `retry()` re-sends a chunk that was granted; the dependencies
   and the chaining of the vector unit; halting in the debug unit; the packet codec of
   the gdb server; the prefetcher.

## 10. Running

    tlc -workers 2 -config MCLimiter.cfg MCLimiter      # any run of PROJECT.json
    tlc -workers 2 -config MCRouterRetry.cfg MCRouterBackpressure   # section 5
    tlapm LimiterRouterBeatProofs.tla                   # any module named ...Proofs
