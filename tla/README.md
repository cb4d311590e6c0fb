# embarch-core in TLA+

embarch-core is the service that owns an embedded bench: the debug probe, the serial
ports, the dev-bench board and the device under test (DUT). Clients flash and reset the
DUT, talk to its consoles, record its signals and run studies on it over HTTP. Several
clients (agents, people, CI) share one bench, so most of what can go wrong here is a
matter of who may use which piece of hardware, for how long, and what Core later says
happened.

This directory models that part of the program: the locks, the lease, the flashes, the
serial dialogs, the captures and taps, the dev-bench link, the two study executors, and the
stream files and records that Core keeps of them and reads back. Source paths are relative to the repository
root; `api.rs:637` stands for `src/src/api.rs`, line 637, here and in the modules.

Contents: [components](#components) · [modules](#modules-and-the-code) ·
[runs](#runs) · [fairness](#fairness) · [proofs](#proofs) ·
[disagreements with the code's own words](#disagreements) ·
[not modelled](#not-modelled) · [plan](#plan)

## Components

How the parts fit together. Every HTTP handler is a tokio task; work on hardware is done
in a blocking closure (`spawn_blocking`) or, for captures and signal taps, in a thread of
its own. A client that hangs up makes the server drop the handler's future at the await
it stands at; closures and threads know nothing of it.

| component | state | operations | hard behaviour | correct when |
|---|---|---|---|---|
| **hw_lock** (`api.rs`) | a tokio mutex and the holder string beside it | acquire for at most 500 ms or 503; guard drops | time-outs and hang-ups at both awaits, closure outlives its handler | holder string and permit agree, no wakeup lost, every waiter is answered, attended operations exclude each other, every guard goes |
| **Lease** (`lease.rs`) | one slot: token, TTL, expiry | take, renew, release, admit, view | expiry noticed lazily, holder crashes, Core restarts | indistinguishable from a lease that ends at its deadline |
| **Flashing** (`hardware.rs`, `flash_backend.rs`, `chip_resolve.rs`) | none of its own | choose a program, plan an erase, write | what is refused when something is already erased; probes that come and go between two looks | nothing is erased that may not be, or before the request is sure not to be refused |
| **Bench** (`api.rs`, `hardware.rs`, `bootload.rs`) | image log, outpost manifest slot, enrollment | flash, bootload, enroll, gate | gate checked before the wait for the lock, failures between two records | records true when written, manifest never survives a bootload, a kept lease ends up alone |
| **study_lock** (`study.rs`, `host_study.rs`) | the lock, `host_cancel`, `host_prompt`, the dev-bench port | POST /study, POST /host-studies, hello, cancel, prompt answer | three kinds of holders, each with its own way of letting go; hang-ups at four awaits | one session at a time, slots are the holder's, the lock is freed |
| **Captures** (`capture.rs`, `api.rs`, `exchange.rs`) | registry, threads, job channels, port claims | POST, GET, DELETE capture; exchange through or beside a capture | port lost and reopened with jobs queued, DELETE waits and then removes by name | a refused command was not written, a recorded port is claimed, all let go |
| **Streams** (`stream_store.rs`, `outpost_manifest.rs`, `study.rs`) | two raw segments, arrival sidecar | append, rotate, stamp; align, rebase | rotation, failed and torn appends, sidecar that does not rotate | loss is said, what is served is the tail, stamps are right or absent |
| **Bench-study run** (`study.rs`, `dev_bench_link.rs`) | run loop, watchdog, events file, job registry | receive a frame, time out, seal, finish, fail | frames lost singly and in pairs, a babbling bench, each write may fail, kill and restart | a working bench is not timed out, completed implies recorded, every run ends |
| **Host-study executor** (`host_study.rs`) | step list, prompt, cancel flag, record | walk, repeat, delay, wait, exchange, prompt, teardown | cancel and answers at any poll, panics, failing writes | teardown runs once and whole, accepted answers count, record is true |
| **Tap threads** (`study.rs`, `host_study.rs`) | a thread, a stop flag and a claim per signal | open, claim, read, stop, say how it ended | a port that is lost, a DELETE of a study's tap, a study that ends meanwhile | an open port is claimed, an early end is said, nobody else's record goes |
| **Pre-flight** (`outpost_preflight.rs`, `study.rs`) | none: a read under hw_lock | clear the port, wait for a header, reset, wait again, judge | headers left over from an earlier firmware, flashes before and after | the header judged is the one of the firmware on the board |
| **Serial dialogs** (`exchange.rs`, `instrument.rs`, `serial.rs`) | when each instrument was last spoken to | write, read to a marker or a deadline; flush line; pacing; log | a marker in pieces or in the echo, writes and flushes that outlast their time, a late answer to the flush line | a read ends early at a marker only, a step outlasts its time by what the port takes for a line and one poll, and the reply is the command's |
| **dev-bench link** (`dev_bench_link.rs`) | receive buffer, channel, reader thread | open, recv, take_frame, drop | lost bytes, stray delimiters, frames in pieces, a thread that outlives its link | whole frames once and in order, damage is contained |
| **Trace decoding and load** (`outpost_manifest.rs`, `outpost_load.rs`) | the live decoder's position | decode each frame, render the file, sum | wrapping counters, bad, overlong and missing frames, gaps, a file that has rotated | what is rendered is what was pushed live; only time is summed in which a subject ran, unless frames are missing |
| **Study results** (`study.rs`, `stream_store.rs`) | study directories, a cache of summaries, an event channel | list, status, steps, streams, events, sweep | each read beside the writer, a sweep or a kill, without a lock; an index rewritten in place | a cached summary is true, what is served is what the index says, newest kept |
| **Line counts** (`host_counts.rs`) | none | split, stamp, attribute to a pass | a line over several records, records without a row, passes that end at the same instant | each line is counted once, in the pass it came in |
| **Live reads** (`live.rs`) | whether the DUT's core runs | mem-read, core-state; beside flash and reset | a read that fails half-way, a halt or a resume that fails, requests that stop and start one core | the core is left as it was found, and the answer says so truly; words are read of a stopped core; a core that ran is let run again |

They interact as follows.

* A request that changes the bench passes the **lease** gate (a middleware, once), then
  waits for **hw_lock**, then does its work in a closure, then writes the **image log** and
  the **manifest**. `Bench` composes these.
* A **live read** takes hw_lock too, stops the core if it was running, and lets it run again
  before it looks at what it read. `Live` composes the reads with the lock and with the
  requests that reset the DUT.
* A study or a hello takes **study_lock** and with it the dev-bench link. A bench study's
  pre-flight takes hw_lock for a moment (`Preflight` composes it with flashes); instrument
  queries look at study_lock before they wait for hw_lock. hw_lock is taken under study_lock (by
  the identity gate, the pre-flight, and each exchange step of a host study), for 500 ms at
  most, and never the other way round.
* A **capture** takes neither lock, only its port, which it claims by name in the same table
  (`TapPorts`) that a study's taps use and that bootload and exchanges look at. `Taps` composes
  captures, exchanges, DELETEs and both kinds of taps on one signal.
* A study's **run loop** feeds its streams to the **stream store**, its results to the events
  file and its end to the job registry, and has its frames from the **link**. A **host study** has its own executor, with the same
  registry and file format, and the two slots that are guarded by study_lock.

PROJECT.json lists the same components with their state, and every hazard at its line.

## Modules and the code

Each module translates the code named in its header; `map` in PROJECT.json gives the lines
of each definition. An action is a stretch of code between two points at which others can
act: an await, a lock, a blocking call, a thread's poll. `\* Mutant:` marks operators that
no specification uses; each is a plausible mistake that breaks one of the properties, and
stands beside the definition it varies.

| module | models | abstracts |
|---|---|---|
| `HwLock` | `acquire_hw_lock`, `HwGuard`, a handler's awaits and its closure | which route; the queue's order |
| `EagerLease` | what `lease.rs` promises | time: a countdown |
| `Lease` | `LeaseSlot`, one action per method (each runs under the slot's mutex) | holder names, wall clock |
| `Bench` | gate, flash, bootload, enroll, image log, manifest slot, on top of `HwLock` | lease time (see `Lease`), images: a request is its own image |
| `Live` | `with_core`, `read_ranges`, `read_core_state`, and what flash and reset do to the core, on top of `HwLock` | words and registers; the DUT is its core, running or halted |
| `StudyLock` | every taker of study_lock with each early return and hang-up, the link as an exclusive port, cancel and prompt slot | what a study does while it runs |
| `Captures` | POST, the capture thread, exchange through it or directly, DELETE, claims | bytes: reads are counted, not kept |
| `Taps` | a bench study's reader threads and a host study's `StudyTaps`, on top of `Captures` | one signal |
| `Preflight` | `run_outpost_preflight`, `check` and the flashes beside it, on top of `HwLock` | a header is the image that sent it; other frames are all alike |
| `Flashing` | `hardware::flash` step by step, `plan_erase`, `discover`, `run` | addresses, families; what the vendors' tools do inside |
| `Dialogs` | `exchange_with`, `write_with_deadline`, the port's flush, `talk`, pacing, `resolve_port_waiting`, the log's read loop | time in ticks of a read poll; a few kinds of bytes |
| `FrameLink`, `Link` | a link of whole frames; `DevBenchLink` with its thread, channel and buffer | COBS and postcard: the bytes of one message decode, others do not |
| `Streams` | `SegmentedFile`, `ArrivalLog`, `offset_for`, `rebase` | values: a byte is a delimiter or not, a record's time is its number |
| `RenderedRows` | `write_stream_record`, CSV segments with a header each, `read_capture` | a row is a number |
| `OutpostRender` | `render` of the live segment, `LiveDecoder` of all payloads, the unwrapped counter, the row of the index | a frame is whole, half, long, bad, or a header; its one record is a count |
| `OutpostLoad` | clock choice, gaps, spans, extents, sums | parsing; one cycle is a microsecond |
| `Results` | what each read route answers of a results directory | a directory is the number of its last write |
| `HostCounts` | `split_lines`, `stamp_of` over the rows that were kept, `render`, `render_counts_for` | the pattern is one byte |
| `StudyRun` | `run_study_to_completion`, `recv` and its deadline, `EventsJsonWriter`, `finish_job`, `fail_job`, status before and after a restart | payloads; the dev-bench from what the loop expects of it |
| `HostStudy` | `walk`, `run_repeat`, `run_step`, `execute`, `run_job`, prompt, answer, cancel | what a step does; a Repeat is laid out as a step followed by its passes |

Composition: `Preflight` and `Taps` extend `HwLock` and `Captures`. `Bench` and `Live` have `HwLock` by `INSTANCE` and conjoin its actions with
their own, so that every one of their steps is a step of the lock or leaves it alone (for
`Live` that is a lemma, and HwLock's proved invariant is used through it). `Lease` has `EagerLease` by `INSTANCE ... WITH
lease <- Live` and implements it. `Link` has `FrameLink` likewise, with
queue <- the frames in the bytes under way. `StudyRun` and `HostStudy` go on where `StudyLock`
has the single stage "running".

`Flashing`, `RenderedRows`, `OutpostRender`, `OutpostLoad`, `Results` and `HostCounts` have no
variables: they translate functions, and state what is true of them for every input of a
small domain. `Bench` extends `Flashing`, whose flash is the one write of its closure; the MC
modules of the streams and host-study runs instantiate the others. TLC looks at them in the
initial states (`Init => ...`).

`Bench` and `Live` have one history variable, `beside`, that no action of the code reads: it is
the writers (of `Live`: the requests) whose closure ran beside another's, because a hang-up had
let go of hw_lock. What an overlap can spoil is stated of everybody else.

A few choices that carry weight:

* **Permits are handed over.** A freed tokio semaphore passes its permit to the first
  waiter before anybody polls, so `permit` may belong to a request that is still "waiting".
  The hang-up of such a waiter must pass the permit on, and `LeaveQueue` does.
* **Guards drop field by field.** `HwGuard::drop` clears the holder string first, the
  permit goes after; `HostHold` drops prompt, cancel and lock in turn; a capture thread's
  locals drop in reverse order. Each of these is a step of its own.
* **Dropped futures are actions.** `LeaveQueue`, `LeaveWork`, `LeaveStudy`, `LeaveHello`, and
  `LeaveHost` are hang-ups; an orphaned closure ends in `OpEnds` or `OrphanEnds`.
* **The lease's clock is its countdown.** `Tick` lowers `left`; nothing else in the slot
  happens by itself, as in the code, where expiry is a comparison made by the next call.
* **StudyRun has no clock either.** `left` is what is left to the loop's deadline, a frame's
  `age` and the bench's `elapsed` count up. `Tick` cannot pass a frame's `Latency` or a good
  bench's own timeout: those are the assumptions under which the watchdog must keep still.
  "astray" is every bench without them: reset, stuck, slow or unplugged.
* **Merged frames.** A delimiter lost between two frames makes one undecodable frame of
  them; the code attributes it to the tap whose number stands at its head, if that can be
  read. `excused` holds taps whose loss thereby becomes invisible, and taps whose StreamOpen
  was lost. The run shows that there are no others.
* **A kill is an action** wherever something is persisted: `Restart` in Lease, Bench, StudyRun
  and HostStudy. What a restarted Core says of a study is `StatusFromDisk`.

## Runs

Each run finishes within two minutes with two workers. A cfg that is named after a module of the
table above gives its constants as sets of model values and runs the module itself; one that is
named after an MC module goes with that module, which defines the constants that need more.

| run | cfg | bounds | what it shows |
|---|---|---|---|
| preflight | MCPreflight | a pre-flight and two flashes, of which the study and one flash may hang up; 2 frames in the port's buffer | the header judged is that of the board; every waiter gets the lock or its 503, even behind an operation that never ends; where operations end, every guard is let go and a pre-flight ends |
| lease | Lease | 3 tokens, MAX_TTL_S = 3 ticks, TTLs 0..4 | the lazy slot gives the eager lease's answers; dead tokens stay dead |
| bench | MCBench | a flash, whose client may hang up, a bootload, an enroller and 1 lease token; flashes: 56 requests, two probes, 729 installations, targets of two banks with up to 9 algorithms | records are true when written; a bootload unbinds the manifest; a flash erases what it may and only once nothing is left to refuse; under a lease that is kept, everybody else's operations come to an end |
| live | MCLive | 2 reads that stop the core, 1 that looks on, 1 flash or reset; all may hang up | the core is left as found, also by a read that failed half-way; a core that ran is let run again, whatever overlaps |
| studylock | StudyLock | 2 bench studies, 2 host studies, 1 hello, all may hang up | one session at a time; cancel and prompt slot are the runner's; the lock is freed, with one exception |
| studylock_owner | StudyLockOwner | the same | that exception: a counterexample to "Some(study_id) while a study is in flight" |
| streams | MCStreams | 5 records of 4 shapes, segment of 6 bytes; load: histories of 4 steps, a gap and a frame missing anywhere; traces: 4 frames, rotated or one append lost; rows: 3 records, 2 failed writes | loss is said and the tail is served; stamps and rebased rows are true, from a lagging sidecar too; sums are of time that ran; live rows, rendered rows and the index agree |
| studyrun | MCStudyRun | 3 steps, 1 tap and log lines, 2 frames under way, 2 ruined frames to the limit | watchdog, record, reason and status are right; every loss a frame can tell is marked; a run ends |
| hoststudy | MCHostStudy | 5 entries with a Repeat of two prompts, a teardown of two; results: the moments of a directory's life, pairs and triples of reads; consoles of 3 bytes with any rows missing | teardown, answers, record and cancel are right; a study ends; what is read back of studies is true; lines are counted once |
| dialogs | MCDialogs | two dialogs of four kinds, a device that says up to 5 cells of 3 kinds, a port that outlasts a write's time by up to 2 ticks | a marker is found however the reads cut it; a read ends early at a marker only; a step outlasts its time by no more than the port did and a poll; the reply is the command's |
| link | Link | 3 messages, 2 links, 2 faults, 1 unplugging, with a thread or without | the link implements one of whole frames; damage is contained; what arrived is delivered |
| taps | Taps | a capture, a host study's tap, a bench study's tap, an exchange and DELETEs on one signal | a refused command was not written; an open port is claimed; ports are let go; early ends are said; a study drops its own record only |

Why the bounds are enough, and where they stop:

* *preflight*: three is the least with an owner of hw_lock, a waiter the permit is passed to,
  and one it is not. One flash writes the mode the study wants and says so at boot only (so
  that a reset is needed), the other one that must be refused and repeats its header. Two
  frames hold an old header with something behind it. One image of each kind is not one of
  every kind: an image that fits and repeats its header is the Factory's case without flags.
* *lease*: with three tokens a lease is taken, ends and is taken again twice, once after an
  expiry and once after a restart; a TTL of 3 separates renewing to less, to more, and at the
  last tick. Proved for all values. That a holder that crashed frees the bench in the end is
  part of the refinement: the eager lease ends at its deadline, whoever lives.
* *bench*: one request of each kind that writes a record, and one that changes the key they
  are kept under. The flash can be abandoned and started again, so that its abandoned closure meets
  one of its own kind and one of the other. With the bootload abandoned too there are three times
  as many states; the records are proved right for any hang-ups, the lease's taking of the
  bench is checked with this one.
  The targets have each combination of alias, access and core in two banks, and algorithms
  that fit one, both, or none of them, with and without a default.
* *live*: two reads that stop the core, so that one could find it stopped by the other; a
  request that starts it; and a read that never touches it. All may hang up, and so run beside
  each other, four closures at once. Both properties are proved for any number of each.
* *studylock*: two of each kind, so that each kind can find its own kind and the other in
  the lock. Proved for any number; liveness is the run's alone.
* *streams*: a segment of 6 bytes and records of 1 to 3 rotate twice within five records, with
  a record that ends a frame, one that begins one, one with a whole frame and one with one
  and a half; each alignment of a frame to the cut occurs. Three records of two rows rotate a
  file of a header and two rows twice. Four steps of a schedule hold a span with a gap, or a frame
  that never arrived, at its start, inside, and at its end. Four frames of a trace leave a rotated
  file with a header or without, and frames on either side of a lost append.
* *studyrun*: three steps because the delay of the second one is what the window must hold,
  and the third tells a stop at the last step from one before; a delay of 3 is longer than
  timeout and grace together, else forgetting it would go unseen. `MaxUndecodable` is 2 for
  the code's 10: the second ruined frame ends the run and the first does not. `Grace` is 2
  and `Latency` 1: what matters is that the grace exceeds a frame's time on the link.
  `MaxWire` = 2 holds the two frames that can merge. One tap and the log lines give a bench
  something to babble and a frame something to merge with; that a loss is put down to
  *another* tap than the one that had it (which `excused` allows for) needs two taps, and is
  not reached.
* *hoststudy*: three bytes of a console hold two lines over any cutting into records, of which one
  straddles two of them. A step of every kind, tolerated and not, with and without a delay, a Repeat
  whose second pass a failure of the first must skip, and a prompt in the teardown, where a
  cancel must be without effect.
* *dialogs*: two, because pacing and what is left in a port's buffer go from one to the next.
  Five cells hold an echo, a prompt of two cells before or behind it, and the end of a line.
  Timeouts of two ticks separate the first read, the last, and the one after. `MaxOverrun` = 2 lets
  a port take more than a read poll too long, in the write and in the flush behind it.
* *link*: three messages so that a fault has one before, one hit and one behind; two links for
  the thread of the first to meet the port of the second. A fault of any length is one fault.
* *taps*: one of each kind; every pair of them shares the signal, its port, its claim and its
  place in the registry. Two captures of different kinds are the least for an old one's close to
  overlap a new one's start. A cap of 2 reads lets a marker be appended to a full buffer.

Runs with `CHECK_DEADLOCK FALSE` have systems that really stop: a finite set of requests
(preflight, taps), a device or a source that falls silent (dialogs, link, streams), a study
that is over (studyrun, hoststudy).

Each property of a passing run has a mutant in PROJECT.json: one definition changed the way
a mistake in the code would change it, under which TLC finds that property violated.

## Fairness

* `HwLock`: a woken future is polled, the 500 ms timer fires, a drop runs to its end (`Grant`,
  `Refuse`, `ReleasePermit`), and nothing else. A client need not call, a granted handler need not
  spawn, an operation need not end: that `WaitersAreAnswered` holds even so is its point.
* `Preflight` has that fairness and no more, so that a flash, a listen or a reset may hang for ever
  in its run. What needs them to end has it as the premise of its formula: `GuardsAreReleased`
  that closures end and handlers resume (`OpsFinish`), `PreflightsEnd` that the closures' own
  steps go on (`WorkGoesOn`: the budgets of listening pass, each tool, probe call and serial read has a timeout).
* `Lease` and `Live` have safety properties alone and assume none. `Bench`: an operation under
  way ends, in success or failure, which `LeaseTakesTheBench` rests on.
* `StudyLock`: `Proceed`, that is handlers, closures and tasks go on; a running study ends
  because its watchdog, prompt timeouts and finite steps end it, which `StudyRun`'s `RunsEnd`
  and `HostStudy`'s `StudyEnds` show. Nobody is made to call or to hang up.
* `Captures` and `Taps`: handlers go on, timers fire, drops run to their end, and the deadline
  `max_s` comes. A job ends because an exchange does: `EndsInTime` of Dialogs bounds it by its own
  time and what the port takes for the line, so that this assumes of a port that it takes a line
  in the end or reports an error. A study ends because its run loop's deadlines and its executor's
  budgets see to it. A port need not come back, and nobody need DELETE.
* `Link`: the thread reads on, the loop calls recv until it gives the link up, and Drop waits
  for the thread. The bench need not send.
* `Dialogs` has safety properties alone: time is counted, and `EndsInTime` is a bound on it, with
  what the port took beyond a write's time (`overrun`) as a part of the bound.
* `StudyRun`: time passes; a bench keeps its times or goes astray; the loop takes a frame that
  is there; and a deadline that stays passed is seen. The last rests on recv, which looks at
  its deadline whenever its buffer has no whole frame, and on a link that is slower than the
  loop. A babbling stuck bench may send stream frames or log lines for ever; `RunsEnd` is about that.
  `LinkFails`, `Garble`, `Restart` are never fair.
* `HostStudy`: the executor's thread runs. Sleeps, waits and prompt deadlines are *not* fair in
  `CancelTakesHold`, which must hold though a sleep lasts for hours: the thread polls the flag
  every 20 ms. `StudyEnds` has the timers' fairness as its premise.

## Proofs

`tlapm` proves these for every value of the constants, from the named assumptions of the
module (distinctness of the null values; a positive MAX_TTL_S; disjoint kinds of session).

**HwLock_proofs.** HwLock is run as a part of Preflight, Bench and Live, and proved by itself. The inductive invariant `IInv` is `TypeOK` and four parts, each of which is
one idea: `PermitMatchesPhase` (whoever is between grant and release owns the permit, and its
owner is not idle), `HolderMatchesPhase` (the string names exactly the guarded handler),
`OpMatchesPhase` (a closure belongs to a working handler or to one that left) and
`NoLostWakeup`. None of the safety properties is inductive alone: that abandoned operations
are the only unlocked ones needs to know where a handler without a closure can be, and
`NoLostWakeup` needs to know that every owner of the permit will still release it. From it:
`HolderIsOwner`, `Exclusion` (attended operations never overlap, unlocked ones are
abandoned), `NoWakeupIsLost`, and `SerializedWhenNobodyLeaves`: under `MayLeave = {}` at most
one operation runs at a time, so that hang-ups are the *only* way to break the serialization
AppState documents. The last one adds the invariant `gone = {}`.

**Admission_proofs** has the three machines that admit a caller, each for itself: to the bench, to
`study_lock`, and to a serial port.

*Lease.* `LeaseTypeCorrect`; `ImplementsEagerLease`, the refinement with `lease <- Live`,
step by step: each method maps to the abstract method of the same name, and `Tick` to the
abstract tick, at which a lease with one tick left vanishes. The lemma it
rests on is `LiveIsStable`: clearing a dead lease does not change which lease is live.
`DeadStayDead` is the action property that a token that was live once never is again; it
needs `slot.token \in used` from the type invariant, since a fresh token is drawn outside
`used`.

*study_lock.* `LockIInv` is `LockTypeOK`, `OneSessionAtATime` (which is nearly inductive by
itself) and two parts that say in which stages of its study a slot can be filled
(`CancelMatchesStage`, `PromptMatchesStage`). Those carry the proof of `SlotsAreTheRunners`: that
the slots are the *lock's* study's follows from their study being inside and
`OneSessionAtATime`.

*Captures and taps.* The parts of `IInv`: `QueuesAreSound` and `WrittenOnce` (where a job can be, and
that it is never both in a queue and settled), `PortIsTheReaders` (who has the port open, whose
the claim is, and who can be between the two) and `EndsAreKept` (what each record says of how its
reader ended). From them `RefusedStayUnwritten`, `ClaimsCoverOpenPorts`, `PortIsExclusive`,
`CutTapsAreTruncated` and `PostedCapturesStay`, for any number of captures, taps and exchanges.

**Bench_proofs** assumes nothing of the clients: any of them may hang up. Each step but a restart is
one of hw_lock's or leaves it alone, so its invariant, proved in HwLock_proofs, is the first part of
`IInv`; it gives that a closure which starts beside another one starts beside an abandoned one, and
the model then puts both in `beside`. `WritersMeet` says that this finds every pair: two writers under
way have both run beside another's. `ProgressMatchesOp` says how far a closure can be,
`BoardIsTheWriters` that from its last byte to its answer the image of a writer that was alone is the
DUT's, and `BootloadUnbinds` that a bootload under way, if alone, has no manifest bound. `RecordsAreTrue`
is read off them. Without the exception the formula is false, and `HardwareSerialized` is the reason.

Its second part is about `Flashing`, and assumes nothing but that a target has finitely many
regions. A flash is a sequence, so the lemmas say where its steps are: `RefusedAt` (what
`UpToRefusal` leaves), `EraseIs` (the erases are those of the regions, whatever their order),
`ErasesBetween`, and `RefusedGated`, `WritesGated` and `ToolGated` for the three shapes a flash
has. `PlansAreWhole` and `TouchIsGated` go through the guards of `flash`, `plan_erase` and `run` one
after the other, `ProgramsAreRight` through those of `discover`. `AnyFlashIsPlanned` puts them together,
and `FlashesAreAlwaysRight` is the property of the run, which it implies.

**Live_proofs** assumes nothing of the clients either. `LockInit` and `LockNext` carry HwLock's
inductive invariant over: each step of `Live` is one of the lock's or leaves its variables alone.
`ClosuresMeet` says that of two closures under way, of which one touches the core, the other is in
`beside`, and `CoreMatchesAt` what a read that is not may count on at each point of its closure:
whoever disturbs it is none of those beside it, since there is none, and a handler's step touches no
core. `CoreIsLeftAsFound` and `ReadsSeeAStoppedCore` follow. Neither is inductive alone: that the
core is as it was found at the end needs to know that it is stopped in between. `CoreRunsAgain` has
no exception: `LetRun` is inductive with `IInv`, since a closure stops a running core only
to let it run again, and one that found it stopped by another leaves that to the other.

**Preflight_proofs** extends HwLock_proofs. `ImplementsHwLock` is the step simulation: each step of the
composition is one of the lock's or leaves it alone, so that HwLock's theorems hold here too,
and `PIInv` starts from HwLock's `IInv`. It adds `PlacesAreRight` (who can be at which place of
a closure, and that whoever is gone has a closure running or never asks again, hence `gone`
only grows: `GoneStays`) and `LooksAreClean` (what is in the port, read or judged under a guard
is the board's). The heart is `NoFlashRuns`: a flash that nobody abandoned owns the permit, the
study under its guard does too, so there is none; then `PortIsTheBoards` says that no other
step brings a foreign header. `HeaderIsTheBoards` follows. It is not inductive alone, since
what will be read is in the port before it is read.

**Serial_proofs** has what comes over a serial port: the dialogs, the files that are kept of a
stream, and the dev-bench link, each for itself.

*Dialogs.* The four theorems hold for any kinds of dialog, command, marker, device and times.
`DialogIInv` has `TimesAddUp` (the time a step took and the time it has left are its budget, and what
it took beyond that is the port's `overrun`),
`PaceIsKept` (the clock that pace looks at says how long ago the last exchange came to its
end), `SearchIsWhole` (`search_from` and `matched_end`, kept from read to read, are those of a
search of all that was read, which rests on the lemma `SearchGoesOn`: more bytes move neither
the echo nor a marker that was found, and only make a new one appear), `AnswerIsRight`, and
`RepliesStayApart` (as long as the device is tidy, what it said to the flush line has been read
when the command goes out, and what is read after that is what it said to the command).
`StepsEndInTime`, `OnlyMarkersEndEarly`, `RepliesAreTheCommands` and `LinesArePaced` follow. That an
instrument's interval is kept (`Paced`, and so `LinesArePaced`) is proved only; no run checks it.

*Streams*, for any payloads, any size of a segment and any number of records. The parts of
`StreamIInv`: `FilesHold` (what is served is the end of what was accepted unless a torn append
left bytes behind, and all of it unless a segment was deleted), `TimesAscend`, and one part for
each kind of sidecar. `FramesAreNoted` says that the rows of a trace, of which any may be
missing, are about the frames of *all* that was ever accepted, though the log itself keeps
no more of them than a count of pending bytes and a number. It rests on `FramesConcat`: cutting bytes
into frames payload by payload, with only the length of the last, unfinished one carried over,
gives the frames of the whole. `BytesAreNoted` says that the rows of a text are disjoint and
have the time of every byte they name. From these `LossIsAlwaysSaid`, and
`StampsAreAlwaysRight`, which is where the two readers are: `WithoutHoles` and `KeptIs` say that the rows
before the first hole are numbered as they stand, and `CapturedIs` that the difference of what the
log says was captured and what is left is what was deleted, or less when rows are missing, in
which case a byte's time is too early and never too late (`TimesAscend` is there for that).
`LossIsSaid` is not inductive: that `~truncated` means that nothing is missing needs `FilesHold`.

*Link*, for messages of any length, any number of them, and any number of faults and links.
The state of the link is three buffers one behind the other, and everything is said of their
concatenation, `Pipeline`. The lemmas come in two layers. The first is about bytes alone: `Run` (what
follows the last delimiter) and `Decoded` change with one byte more as `RunOfAppend` and
`DecodedOfAppend` say; with them and `BytesInduction` follow `Split` (cut at a delimiter, a sequence
decodes piece by piece), `Taken` (`TakeFrame` takes the first frame and no byte of the second),
`CutIs` (a front that is lost costs the frames in it, and makes junk, or a message that junk had run
into, of the one it cut) and `AscendingFrames` (bytes in order decode to frames in order). The
second is `LinkIInv`: `OneReader` (only the present link has a thread in its loop, which is
what the join in `Drop` is for), `Sent` (bytes are in the order of the messages, and
whatever was delivered comes before them), `BegunWhole` (an undamaged message is under way with
exactly the bytes that were sent of it) and `Accounted` (which is `DamageIsContained`).
`DamageIsContained` alone is not inductive: that the delimiter completes a frame needs `BegunWhole`, and
that no byte goes to an older thread `OneReader`. From the invariant: `DamageIsAlwaysContained`, and
`LinkIsWhole`, the refinement with `queue <- Decoded(Pipeline)`: the thread, `Fill` and `RecvFails`
stutter (`BytesArePassedOn`), a byte that arrives is `Arrive` or a stutter, `TakeFrame` is
`Deliver` and `CloseLink` is `Cut`.

**StudyRun_proofs** needs `NoiseAssumption` (a run tolerates at least one undecodable frame)
beside the assumptions on times. `IInv` follows the frames from the bench to the record:
`WireIsInOrder` (results are under way in the order of the steps, none twice, and nothing behind
the StudyDone), `RecordIsInOrder` and `ResultsAreUnderWay` (each result is in the record, lost, or on the wire),
`StopIsUnderWay`, `LossIsUnderWay` (each loss of a tap is marked, excused, or its close is under
way), `NewsIsInTime` (what the loop waits for, a result under way or the step at the bench, comes
before its deadline, which makes `WorkingBenchIsNotTimedOut` inductive), `CompletedIsWhole` and `EndsAgree`. `NoFalseTimeout`,
`CompletedRecordIsTrue`, `StopReasonIsRight` and the action property `EndsStay` are read off it, for
any number of steps, any delays and timeouts, and any number of taps.

**HostStudy_proofs** is about any list of steps with its repeats, and any teardown. `PlaceIsRight` says
where the executor can be in each stage, `RecordsAreInOrder` that records have ascending places in their
list and none is of a step still to come, `NothingIsSkipped` that every place before the
executor's has its record, `PromptIsAsked` and `FileIsKept` what the slot and the
file hold, and `EndIsTold` that "completed" says what happened. `TeardownAlwaysRuns`,
`AnswersCount` and `HostRecordIsTrue` follow. A cancel that falls before a Repeat without passes at
the end of the steps skips nothing and is still called a cancel: `RecordIsTrue` has that case
(`SkipsNothing`), which the proof asked for and the run's study does not contain.
It also proves two parts of `Results` for inputs of any size. `WhatIsListedStays` rests on
`PlacesAreApart`: directories that have a path each have a place each in the order of age and
path, the places from 1 to their number, so that what `CHOOSE` takes for a place is there.
`EventsStayInOrder` is an induction on the events and polls of a subscriber: the events that
wait come after those it has seen, and each event of its study waits, was seen, or was lost
between what it has seen and what it will see (`LostBetween`).

Induction over data is done without the library's induction theorems, which take an
operator as a parameter: the lemma `SetInduction` is induction over a *set* of numbers, proved
from `WFMin` (a well-founded relation has minimal elements), and the sets are
comprehensions such as "the lengths for which every sequence has a run". It reaches recursive functions
(`Frames`, `Decoded`), not RECURSIVE operators.

Only model-checked: all liveness (its proofs need ENABLED, which the prover does not
handle), and `LoadIsRight`, `RenderingsAreRight` and `ResultsAreRight`, which TLC evaluates over
bounded inputs: these say what recursive definitions compute from a whole file, and have no
steps to go by; of `ResultsAreRight`, what it says of retention and of live events is proved
apart. Every
safety invariant and action property of a state machine that a passing run checks is proved.

## Disagreements

Shown by a run (a finding in PROJECT.json):

* `studylock_owner`: a client that hangs up on POST /study before its 202 leaves study_lock
  held for good (`study.rs:1424`); everything that needs the lock is refused until a restart.

Stated in the modules in the code's own words, and false of the model. No run checks these; each
is an invariant, and TLC has a counterexample when it is added to the cfg named here.

* `HardwareSerialized` (MCPreflight): a hang-up drops hw_lock's guard while the closure still
  drives the hardware (`api.rs:637`), against "serializes access to the physical probe/serial
  connections" (`api.rs:18-20`). The theorems `Exclusion` and `SerializedWhenNobodyLeaves` say how
  far it goes, and `beside` in `Bench` and `Live` what it spoils.
* `LogSaysTheBoard` (MCBench): a flash that fails midway leaves the image log naming the previous
  image (`api.rs:649`), against "the record says what is on the board". `RecordsAreTrueWhenMade`
  speaks of entries as they are made.
* `NeverAChipErase` (MCBench): J-Link Commander's `erase`, which `jlink_script` writes for `erase:
  true` (`flash_backend.rs:503`), erases the whole chip; "`erase` must never become a chip erase in
  any backend" (`flash_backend.rs:661`). `FlashesAreRight` is about the regions that probe-rs erases.
* `FrameIndicesAgree` (MCStreams): render is given the live segment alone (`study.rs:2381`), and the
  live decoder every payload, those too whose append failed; after a rotation a frame has one index
  live and another rendered, and may be rendered without the header that went with the front,
  against `outpost_manifest.rs:522-537`. `RenderedWasLive`, a part of `RenderingsAreRight`, says what
  agrees all the same.
* `CoverageTellsAll` (MCStreams): a frame of a trace that is lost or damaged on the link leaves no
  row, and `decode_with_cap` looks for no hole in the frames' numbers, so that a span over it is
  summed and the coverage line says nothing; against `outpost_load.rs:141-142`. `LoadIsRight` excepts
  just the spans that such records are missing from.
* `IndexStaysReadable` (MCHostStudy): `update_index` rewrites the index in place
  (`stream_store.rs:283`), and every stream route answers 500 while it does (and for good, if Core
  is killed there), against "never rewritten" (`stream_store.rs:139-140`). `ResultsAreRight` has the
  500 then and only then.
* `LostRowsGoUntimed` (MCHostStudy): a line whose sidecar row was lost gets the time of the row before
  (`host_counts.rs:91`), and may be counted in the wrong pass, against "untimed, never mis-timed"
  (`stream_store.rs:804-809`). `ResultsAreRight` is about all other lines.
* `ExchangesEndInTime` (MCDialogs): `port.flush()` has no deadline (`exchange.rs:357`,
  `instrument.rs:132`), and `write_with_deadline` looks at its own on a stall only
  (`exchange.rs:329`), so that an exchange and hw_lock may go on past "`timeout` plus one read poll"
  (`exchange.rs:344-345`). `EndsInTime` says that nothing but the port's own taking of the line makes
  it longer.

Met while reading or modelling, and kept in the models as the code has them:

*Locks and what they guard*

* *Live.* A hang-up frees hw_lock for a second request in the middle of a read: its
  resume starts the core under the first one's words, or its reset starts a core that the
  first then leaves "halted", against "every word read halted is good" (`live.rs:9`);
  `LeftAsFound` and `WordsAreReadHalted` except the reads that this happened to (`beside`).
  And a read whose halt timed out returns without `run()` (`live.rs:199`, `443`): a core that
  does as it was told after all stays stopped, though "a core that was running is let run
  again" (`live.rs:9-10`). Whether it can is up to probe-rs and the debug hardware, so the
  model allows it (`StopsLate`) and `LeftAsFound` and `CoreIsLetRun` are stated until such a failure. If both
  the read and the resume fail, mem-read reports the read's error alone (`live.rs:216`).
* *Image log.* A flash whose client left leaves the log naming the previous image, like one
  that fails (`api.rs:648-649`). The log's `lease_holder` is whoever holds the lease when the flash answers
  (`api.rs:655`), and its hash is of the file as it was before the flash opened it again
  (`api.rs:638`).
* *Manifest.* A bootload finds the chip whose manifest to drop through the enrollment row
  (`api.rs:830-831`); a DUT unenrolled between flash and bootload keeps a stale manifest.
* *Bootload* opens its port by a name found earlier, which may be another device's by then, and
  looks at the taps' claims once, at its start.
* *Pre-flight.* A flash may come between the pre-flight's release of hw_lock and StudyStart, so
  that the study may run on another firmware than the one judged. The instrument route looks
  at study_lock before it awaits hw_lock (`api.rs:1720`), so that a study may start between.
* *Hello.* A hello that was hung up on frees study_lock while its handshake still has the
  dev-bench port open (`study.rs:1248`, `994`); the next session finds the port busy.

*Flashing*

* The J-Link script has one path per process (`flash_backend.rs:411`): an abandoned flash and
  its successor write the same file.
* `nrfutil` is not told the base address of a `bin` image; J-Link is, or refuses without one.
* A tool named by its environment variable that cannot be executed here is passed over in
  silence for one on the PATH.
* Without a `probe_serial` the probe is chosen anew for the gate and for the flash, and the
  vendor's tool chooses for itself; `FlashesAreRight` has "if the request names it".

*Dialogs*

* An instrument that answers the flush line with more than one line, or later than
  FLUSH_WAIT, has that taken for the reply (`instrument.rs:118`). An exchange that ended in an
  error does not count for the pacing, and a port lost during the flush is not looked at.
* A console's reply that is exactly as long as the limit is said to be truncated.

*Captures and taps*

* DELETE waits up to two seconds for the capture it looked up and then removes the signal's
  record by name (`api.rs:1898`), so also a newer capture's, which records on with nobody
  able to reach it; against `capture.rs:416`. `OthersRecordsStay` excepts DELETEs.
* The capture thread's claim goes before its port (`capture.rs:364`), though the doc of
  `TapClaim` (`study.rs:105`) has it the other way round; a bench tap's port is open before it
  is claimed (`study.rs:2706-2790`). `OpenPortsAreClaimed` is about the time between.
* A DELETE on a host study's tap has the study's record say "stopped" and not truncated,
  though the study went on (`host_study.rs:1046-1068`).
* `StudyTaps::shutdown` says that the ports are closed when it returns; it waits two seconds.
* A study's taps are checked against running captures at submission only.

*Link and run loop*

* `drain_reader` reports that the port failed before the frames that were read ahead of the
  failure are looked at (`dev_bench_link.rs:586-607`); a StudyDone among them comes too late.
* *Reason of an early stop.* When the stopping step's own result was lost, an earlier tolerated
  failure is named as the reason (`study.rs:3227`, `3311-3335`). `StopIsPutDownRight` has
  "every result received" as its premise for that reason.
* *Lost results.* A completed study's record can lack a step whose frame was lost, and nothing
  in events.json says so; `RecordIsTrue` makes the exception explicit.
* *Merged frames.* Of two frames that arrive as one, only the first one's tap is marked. A
  LogLine that cannot be decoded costs the reserved dev-bench log tap a line, but that tap is
  never in `open_taps` and so is never marked (`study.rs:2139-2166`).
* *Stale comments in `study.rs`.* `finish_job` mentions `completed: false` as a normal end, but
  the loop turns it into an error and `fail_job`; `finish_streams` says that a failed study's
  partial file has its streams, but only `finish` writes them; an undecodable frame is said
  to become the failure's reason, and does not.

*Streams, traces, load*

* `offset_for` accepts offset 0 whenever lengths agree (`outpost_manifest.rs:267`), and render
  sees the live segment alone, so that a rotated trace of equal-length
  frames is stamped with earlier frames' times; against `outpost_manifest.rs:217`.
  `StampsAreRight` is about a trace that has not rotated, and about bytes.
* `verify_declared_records` (`study.rs:2261-2337`) reads the live segment only: damage in the
  segment before it is not in the report.
* The arrivals' sidecar and the capture's two segments are read one after another
  (`study.rs:4466`); a rotation between them may drop a segment from the answer, and a writer
  that is still appending makes offsets too small. `StampsAreRight` has what remains true.
* Rows are stamped when they are written, not with the record's time (`study.rs:2845-2851`), and
  a row that does not fit is dropped without a word.
* Live and rendered cycle columns may differ by a wrap where the first frame before it was too
  long for the live decoder. A bad frame counts as lost too, a half one as both good and bad,
  and a reset of the DUT as up to 255 lost ones. One stamped frame makes a trace "timed".
* A gap of no length at a span's own boundary is not seen to cross it.

*Results*

* `unique_stem` may give two streams one stem ("a b", then "a_b-2", then "a?b").
* A host study never sweeps, though the sweep is "once per submitted study"; equal mtimes are
  ordered by path, which may put the running study's directory last; a removal that fails
  midway makes a broken directory the newest.
* At the common boundary of two Repeats a line goes to the last pass of the first.

*Host study*

* A panic inside the teardown skips the rest of it, though the doc says that a teardown always
  runs whole. A cancel accepted during the teardown has no effect. A step is announced even if
  writing its record failed; `RecordIsTrue` has that exception.

## Not modelled

* *Bytes and formats*: COBS, postcard, JSON rendering, SCPI, the bootloader's frames, the wire
  format of a trace. They are functions of their input.
* *External tools*: probe-rs, nrfutil, J-Link, serial drivers. Each is one operation that may
  fail at any point.
* *The dev-bench's firmware* is not in the repository; StudyRun has what the loop expects
  of it, and everything else under "astray".
* *Process start, service control, elevation, log files, the API token*: sequential I/O without
  state that is shared with anything modelled.
* *The table of SoC names* (`chip_resolve.rs`): data that is looked up once.
* *Order of a mutex's queue*: no property depends on it. *Memory ordering* of the atomics:
  the flags are single words, set once, and polled.
* *hw_lock and study_lock in one module*: hw_lock is waited for under study_lock for 500 ms at
  most and study_lock is never waited for at all, so that they cannot block each other; what
  can come between looking at one and taking the other is among the disagreements above.

## Plan

Done: HwLock, Lease and EagerLease, Bench, Flashing, Live, Preflight, StudyLock, Captures and
Taps, Dialogs, FrameLink and Link, Streams, RenderedRows, OutpostRender, OutpostLoad, StudyRun,
HostStudy, Results, HostCounts; proofs for every one of them that is a state machine.

Next, in this order:

1. A reader of a rotated capture beside its writer, segment by segment.
2. A second tap in StudyRun, so that a loss can be put down to the wrong one.

Runs are kept to one per question.
