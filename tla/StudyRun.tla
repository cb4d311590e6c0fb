------------------------------ MODULE StudyRun ------------------------------
(***************************************************************************)
(* One bench study of embarch-core from its 202 to its record              *)
(* (src/src/study.rs, run_study_to_completion): the frames the dev-bench   *)
(* sends, the watchdog, the writer of events.json, the job registry, and   *)
(* the status a client is given, also by a Core that was restarted.        *)
(*                                                                         *)
(* The dev-bench is not in the repository: what it sends and when is taken *)
(* from what the loop expects of it.  It runs the steps in order, each for *)
(* its delay and then up to its timeout, and stops at a step that did not  *)
(* pass unless that one is tolerated.  Bytes lost on the link ruin a frame *)
(* or, if a delimiter is among them, two that then arrive as one.          *)
(***************************************************************************)
EXTENDS Naturals, Sequences, SequencesExt

CONSTANTS
    Delay, Timeout,     \* delay_before_ms and timeout_ms of each step
    Tolerant,           \* the steps with continue_on_fail
    Grace,              \* WATCHDOG_GRACE_MS
    Latency,            \* how long a frame may be on its way to the loop
    Tap, NoTap,         \* streams of the study that come over the link
    MaxUndecodable,     \* MAX_UNDECODABLE_FRAMES
    MaxWire             \* bound: frames under way at once

ASSUME StepAssumption ==
    /\ Timeout \in Seq(Nat) /\ Timeout # <<>>
    /\ Delay \in [DOMAIN Timeout -> Nat]
    /\ Tolerant \subseteq DOMAIN Timeout
ASSUME TimeAssumption == Latency \in Nat /\ Grace \in Nat /\ Latency < Grace
ASSUME NoTapAssumption == NoTap \notin Tap
ASSUME NoiseAssumption == MaxUndecodable \in Nat \ {0}

VARIABLES
    bench,          \* the dev-bench: its step, for how long, and its stage
    tapStage,       \* each stream, as the bench has it
    wire,           \* frames between the bench and the loop
    garbled,        \* steps (and StudyDone, after the last) lost on the link
    lost,           \* taps some of whose records were lost on the way
    excused,        \* those of them whose loss the frames cannot tell
    core,           \* where run_study_to_completion is
    next,           \* next_expected
    left,           \* what is left until deadline
    openTaps,       \* open_taps
    marked,         \* taps with mark_lost_at_source
    undecodable,    \* undecodable_frames
    stopping,       \* last_stopping_step, 0 if none
    outcome,        \* what the loop broke with
    writer,         \* EventsJsonWriter: the steps and streams it was given
    disk,           \* the events file, with what it says once it is complete
    job             \* the job's status in the registry

linkVars == <<bench, tapStage, wire, garbled, lost, excused>>
loopVars == <<next, left, openTaps, marked, undecodable, stopping, outcome>>
vars == <<linkVars, loopVars, core, writer, disk, job>>

Step == DOMAIN Timeout
Last1 == Len(Timeout) + 1       \* stands for StudyDone among the steps
Frame(kind, step, tap, flag) ==
    [kind |-> kind, step |-> step, tap |-> tap, flag |-> flag, age |-> 0]
OnWire == [kind : {"result", "done", "open", "chunk", "close", "log", "bad"}, step : 1 .. Last1,
           tap : Tap \cup {NoTap}, flag : BOOLEAN, age : 0 .. Latency]

TypeOK ==
    /\ bench \in [step : Step, elapsed : Nat,
                  stage : {"running", "passed", "stopped", "done", "astray"}]
    /\ bench.elapsed <= Delay[bench.step] + Timeout[bench.step]
    /\ tapStage \in [Tap -> {"new", "open", "closed"}]
    /\ wire \in Seq(OnWire)
    /\ \A k \in DOMAIN wire :
          /\ wire[k].kind = "result" => wire[k].step \in Step
          /\ wire[k].kind \in {"open", "chunk", "close"} => wire[k].tap \in Tap
    /\ garbled \subseteq 1 .. Last1
    /\ lost \cup excused \subseteq Tap
    /\ core \in {"setup", "receiving", "sealed", "renamed", "over", "dead"}
    /\ next \in 1 .. Last1 /\ left \in Nat
    /\ openTaps \cup marked \subseteq Tap
    /\ undecodable \in 0 .. MaxUndecodable
    /\ stopping \in {0} \cup Step
    /\ outcome \in {"none", "completed", "stopped", "missing", "timeout", "noise", "link",
                    "write", "tap"}
    /\ writer \in [steps : Seq(Step), streams : SUBSET Tap]
    /\ disk \in [file : {"missing", "partial", "final"}, steps : Seq(Step), streams : SUBSET Tap]
    /\ job \in {"running", "completed", "failed", "none"}

Init ==
    /\ bench = [step |-> 1, elapsed |-> 0, stage |-> "running"]
    /\ tapStage = [t \in Tap |-> "new"]
    /\ wire = <<>>
    /\ garbled = {} /\ lost = {} /\ excused = {}
    /\ core = "setup"
    /\ next = 1
    /\ left = 0
    /\ openTaps = {} /\ marked = {} /\ undecodable = 0 /\ stopping = 0
    /\ outcome = "none"
    /\ writer = [steps |-> <<>>, streams |-> {}]
    /\ disk = [file |-> "missing", steps |-> <<>>, streams |-> {}]
    /\ job = "running"

-----------------------------------------------------------------------------
(* The dev-bench and the link                                              *)

coreVars == <<loopVars, core, writer, disk, job>>

\* The loop listens; what the bench does before and after is of no account.
Waiting == core = "receiving" /\ outcome = "none"

Send(f) == Waiting /\ Len(wire) < MaxWire /\ wire' = Append(wire, f)

BenchReports(ok) ==
    LET i == bench.step IN
    /\ bench.stage = "running"
    /\ bench.elapsed >= Delay[i]
    /\ Send(Frame("result", i, NoTap, ok))
    /\ bench' = [step |-> IF (ok \/ i \in Tolerant) /\ i # Len(Timeout) THEN i + 1 ELSE i,
                 elapsed |-> 0,
                 stage |-> IF ~ok /\ i \notin Tolerant THEN "stopped"
                           ELSE IF i = Len(Timeout) THEN "passed" ELSE "running"]
    /\ UNCHANGED <<tapStage, garbled, lost, excused, coreVars>>

BenchIsDone ==
    /\ bench.stage \in {"passed", "stopped"}
    /\ \A t \in Tap : tapStage[t] # "open"
    /\ Send(Frame("done", Last1, NoTap, bench.stage = "passed"))
    /\ bench' = [bench EXCEPT !.stage = "done"]
    /\ UNCHANGED <<tapStage, garbled, lost, excused, coreVars>>

\* Reset, stuck, slow or unplugged: its steps get no further.
BenchGoesAstray ==
    /\ Waiting /\ bench.stage \notin {"done", "astray"}
    /\ bench' = [bench EXCEPT !.stage = "astray", !.elapsed = 0]
    /\ UNCHANGED <<tapStage, wire, garbled, lost, excused, coreVars>>

\* StreamOpen, any number of StreamChunkBatch, StreamClose with what the bench
\* itself had to drop; a stuck bench may go on with them for ever.
BenchStreams(t) ==
    /\ bench.stage # "done"
    /\ \/ /\ tapStage[t] = "new"
          /\ Send(Frame("open", 1, t, TRUE))
          /\ tapStage' = [tapStage EXCEPT ![t] = "open"]
          /\ UNCHANGED lost
       \/ /\ tapStage[t] = "open"
          /\ Send(Frame("chunk", 1, t, TRUE))
          /\ UNCHANGED <<tapStage, lost>>
       \/ /\ tapStage[t] = "open"
          /\ \E dropped \in BOOLEAN :
                /\ Send(Frame("close", 1, t, dropped))
                /\ lost' = IF dropped THEN lost \cup {t} ELSE lost
          /\ tapStage' = [tapStage EXCEPT ![t] = "closed"]
    /\ UNCHANGED <<bench, garbled, excused, coreVars>>

\* A LogLine, which the loop keeps but which means nothing to it.
BenchLogs ==
    /\ bench.stage # "done"
    /\ Send(Frame("log", 1, NoTap, TRUE))
    /\ UNCHANGED <<bench, tapStage, garbled, lost, excused, coreVars>>

\* Which tap the remains of a frame name: undecodable_stream_id.
Names(f) == IF f.kind = "chunk" THEN {f.tap, NoTap} ELSE {NoTap}

\* Bytes of one frame are lost, or of two and the delimiter between them.
Garble(i, j) ==
    /\ Waiting /\ j \in {i, i + 1}
    /\ LET those == {wire[k] : k \in i .. j}
           about(kinds) == {f.tap : f \in {g \in those : g.kind \in kinds}}
       IN  /\ "bad" \notin {f.kind : f \in those}
           /\ garbled' = garbled \cup {f.step : f \in {g \in those : g.kind \in {"result", "done"}}}
           /\ lost' = lost \cup about({"chunk"})
           /\ \E named \in Names(wire[i]) :
                /\ wire' = SubSeq(wire, 1, i - 1)
                            \o <<[Frame("bad", 1, named, TRUE) EXCEPT !.age = wire[j].age]>>
                            \o SubSeq(wire, j + 1, Len(wire))
                /\ excused' = excused \cup about({"open"})
                                \cup (IF named = NoTap THEN {}
                                      ELSE about({"chunk", "close"}) \ {named})
    /\ UNCHANGED <<bench, tapStage, coreVars>>

\* Time passes, but no frame takes longer than Latency, and no bench that is not
\* astray longer than a step's delay and timeout.
Tick ==
    /\ Waiting /\ left > 0
    /\ \A f \in ToSet(wire) : f.age < Latency
    /\ bench.stage \notin {"passed", "stopped"}
    /\ bench.stage = "running" => bench.elapsed < Delay[bench.step] + Timeout[bench.step]
    /\ left' = left - 1
    /\ bench' = IF bench.stage = "running" THEN [bench EXCEPT !.elapsed = @ + 1] ELSE bench
    /\ wire' = [k \in DOMAIN wire |-> [wire[k] EXCEPT !.age = @ + 1]]
    /\ UNCHANGED <<tapStage, garbled, lost, excused, next, openTaps, marked, undecodable,
                   stopping, outcome, core, writer, disk, job>>

-----------------------------------------------------------------------------
(* The run loop                                                            *)

\* Mutant: the delay is not part of the window.
NextDeadlineUndelayed(i) ==
    Grace + (IF i \in Step THEN Timeout[i] ELSE Timeout[Len(Timeout)])

\* next_deadline: of the step outstanding, or of StudyDone after the last.
NextDeadline(i) ==
    Grace + (IF i \in Step THEN Delay[i] + Timeout[i] ELSE Timeout[Len(Timeout)])

Emptied == [steps |-> <<>>, streams |-> {}]

\* The results directory, streams/ or events.json cannot be made.
SetupFails ==
    /\ core = "setup"
    /\ core' = "over"
    /\ job' = "failed"
    /\ UNCHANGED <<linkVars, loopVars, writer, disk>>

\* The events file is begun and the first signal taps are opened, which may
\* fail; setting up takes no time to speak of.
Start ==
    /\ core = "setup"
    /\ core' = "receiving"
    /\ disk' = [disk EXCEPT !.file = "partial"]
    /\ left' = NextDeadline(1)
    /\ outcome' \in {"none", "tap"}
    /\ UNCHANGED <<linkVars, next, openTaps, marked, undecodable, stopping, writer, job>>

Got(kind) == Waiting /\ wire # <<>> /\ Head(wire).kind = kind /\ wire' = Tail(wire)
LinkOtherThanWire == UNCHANGED <<bench, tapStage, garbled, lost, excused>>

\* Mutant: the first failure is remembered, not the last.
StoppingAfterFirst(f) == IF f.flag \/ stopping # 0 THEN stopping ELSE f.step

\* last_stopping_step: any outcome but a pass is taken to have stopped the study.
StoppingAfter(f) == IF f.flag THEN stopping ELSE f.step

\* The step now open is the one after the step that finished.
AdvanceStepCounters(i) == i + 1

\* Recorded, announced, counted; the signal taps follow the step, and the
\* watchdog is set anew.
GetResult ==
    LET f == Head(wire) IN
    /\ Got("result")
    /\ \/ /\ writer' = [writer EXCEPT !.steps = Append(@, f.step)]
          /\ stopping' = StoppingAfter(f)
          /\ next' = AdvanceStepCounters(f.step)
          /\ \/ left' = NextDeadline(next') /\ UNCHANGED outcome
             \/ outcome' = "tap" /\ UNCHANGED left
       \/ outcome' = "write" /\ UNCHANGED <<writer, stopping, next, left>>
    /\ LinkOtherThanWire
    /\ UNCHANGED <<openTaps, marked, undecodable, core, disk, job>>

\* early_stop_reason, if the study did not complete.
GetDone ==
    /\ Got("done")
    /\ outcome' = IF Head(wire).flag THEN "completed"
                  ELSE IF stopping # 0 THEN "stopped" ELSE "missing"
    /\ LinkOtherThanWire
    /\ UNCHANGED <<next, left, openTaps, marked, undecodable, stopping, core, writer, disk, job>>

\* Mutant: whatever the bench says, the watchdog is set anew.
GetStreamPatiently ==
    LET f == Head(wire) IN
    /\ Waiting /\ wire # <<>> /\ f.kind \in {"open", "chunk", "close", "log"}
    /\ wire' = Tail(wire)
    /\ openTaps' = CASE f.kind = "open" -> openTaps \cup {f.tap}
                     [] f.kind = "close" -> openTaps \ {f.tap}
                     [] OTHER -> openTaps
    /\ marked' = IF f.kind = "close" /\ f.flag THEN marked \cup {f.tap} ELSE marked
    /\ left' = NextDeadline(next)
    /\ LinkOtherThanWire
    /\ UNCHANGED <<next, undecodable, stopping, outcome, core, writer, disk, job>>

\* Records are kept whether or not their tap is open, and a StreamClose says
\* what the bench dropped.  The watchdog goes on.
GetStream ==
    LET f == Head(wire) IN
    /\ Waiting /\ wire # <<>> /\ f.kind \in {"open", "chunk", "close", "log"}
    /\ wire' = Tail(wire)
    /\ openTaps' = CASE f.kind = "open" -> openTaps \cup {f.tap}
                     [] f.kind = "close" -> openTaps \ {f.tap}
                     [] OTHER -> openTaps
    /\ marked' = IF f.kind = "close" /\ f.flag THEN marked \cup {f.tap} ELSE marked
    /\ LinkOtherThanWire
    /\ UNCHANGED <<next, left, undecodable, stopping, outcome, core, writer, disk, job>>

\* Mutant: a frame that names no tap marks none.
MarksNamed(named) == {named} \ {NoTap}

\* The tap that a ruined frame names, or every open one.
Marks(named) == IF named = NoTap THEN openTaps ELSE {named}

\* A ruined frame costs the frame; too many cost the link.
GetBad ==
    /\ Got("bad")
    /\ marked' = marked \cup Marks(Head(wire).tap)
    /\ undecodable' = undecodable + 1
    /\ outcome' = IF undecodable + 1 >= MaxUndecodable THEN "noise" ELSE "none"
    /\ LinkOtherThanWire
    /\ UNCHANGED <<next, left, openTaps, stopping, core, writer, disk, job>>

\* The deadline is over and no whole frame is in the loop's buffer; one may
\* still be on its way there.
DeadlinePasses ==
    /\ Waiting
    /\ left = 0
    /\ outcome' = "timeout"
    /\ UNCHANGED <<linkVars, next, left, openTaps, marked, undecodable, stopping,
                   core, writer, disk, job>>

LinkFails ==
    /\ Waiting
    /\ outcome' = "link"
    /\ UNCHANGED <<linkVars, next, left, openTaps, marked, undecodable, stopping,
                   core, writer, disk, job>>

-----------------------------------------------------------------------------
(* The end of a run                                                        *)

\* The signal taps stop, and finish_streams hands the writer what each tap
\* lost, on every way out.
Seal ==
    /\ core = "receiving" /\ outcome # "none"
    /\ writer' = [writer EXCEPT !.streams = marked]
    /\ core' = "sealed"
    /\ UNCHANGED <<linkVars, loopVars, disk, job>>

\* Mutant: the job is completed before its file is.
FinishLast ==
    /\ core = "sealed" /\ outcome = "completed"
    /\ job' = "completed"
    /\ core' = "renamed"
    /\ UNCHANGED <<linkVars, loopVars, writer, disk>>

\* EventsJsonWriter::finish: the rest is written, and the file gets its name.
Finish ==
    /\ core = "sealed" /\ outcome = "completed"
    /\ disk' = [file |-> "final", steps |-> writer.steps, streams |-> writer.streams]
    /\ writer' = Emptied
    /\ core' = "renamed"
    /\ UNCHANGED <<linkVars, loopVars, job>>

FinishFails ==
    /\ core = "sealed" /\ outcome = "completed"
    /\ job' = "failed"
    /\ core' = "over"
    /\ writer' = Emptied
    /\ UNCHANGED <<linkVars, loopVars, disk>>

Complete ==
    /\ core = "renamed"
    /\ job' = "completed"
    /\ core' = "over"
    /\ UNCHANGED <<linkVars, loopVars, writer, disk>>

FailJob ==
    /\ core = "sealed" /\ outcome # "completed"
    /\ job' = "failed"
    /\ core' = "over"
    /\ UNCHANGED <<linkVars, loopVars, writer, disk>>

\* Core is killed, and started again: a study is not resumed.
Restart ==
    /\ core # "dead"
    /\ core' = "dead"
    /\ job' = "none"
    /\ writer' = Emptied
    /\ UNCHANGED <<linkVars, loopVars, disk>>

\* study_status_from_disk
StatusFromDisk ==
    CASE disk.file = "final" -> "completed"
      [] disk.file = "partial" -> "interrupted"
      [] OTHER -> "unknown"

\* GET /study/{id}: the registry's word, or else the disk's.
Status == IF job = "none" THEN StatusFromDisk ELSE job

-----------------------------------------------------------------------------

BenchStep ==
    \/ \E ok \in BOOLEAN : BenchReports(ok)
    \/ BenchIsDone
    \/ BenchGoesAstray

LoopStep == GetResult \/ GetDone \/ GetStream \/ GetBad

EndStep ==
    \/ SetupFails
    \/ Start
    \/ Seal
    \/ Finish
    \/ FinishFails
    \/ Complete
    \/ FailJob

Next ==
    \/ BenchStep
    \/ \E t \in Tap : BenchStreams(t)
    \/ BenchLogs
    \/ \E i, j \in DOMAIN wire : Garble(i, j)
    \/ Tick
    \/ LoopStep
    \/ DeadlinePasses
    \/ LinkFails
    \/ EndStep
    \/ Restart

Spec == Init /\ [][Next]_vars

(* Time passes, a bench keeps its times or goes astray, and the loop       *)
(* handles what it has: the link is slower than the loop, so that recv     *)
(* finds no whole frame now and then and looks at its deadline.            *)
FairSpec ==
    /\ Spec
    /\ WF_vars(Tick) /\ WF_vars(BenchStep) /\ WF_vars(LoopStep)
    /\ WF_vars(DeadlinePasses) /\ WF_vars(EndStep)

-----------------------------------------------------------------------------
(* Properties                                                              *)

\* The watchdog never ends the study of a bench that keeps its steps' delays
\* and timeouts, as long as the link lost none of its results.
WorkingBenchIsNotTimedOut ==
    outcome = "timeout" => bench.stage = "astray" \/ garbled # {}

Ascending(s) == \A k, l \in DOMAIN s : k < l => s[k] < s[l]

\* A study said to be completed, by this Core or one started later, has its
\* file, with each step in order, but for results that the link lost; and the
\* file says of every tap that lost records, at the bench or on the link, that
\* it is truncated, but for a frame lost in one with another tap's name, and for
\* a tap whose StreamOpen was lost.
RecordIsTrue ==
    /\ TypeOK
    /\ Status = "completed" =>
          /\ disk.file = "final"
          /\ ToSet(disk.steps) = Step \ garbled
          /\ Ascending(disk.steps)
          /\ lost \ excused \subseteq disk.streams

\* Once a client was told how a study ended, it is not told otherwise: after a
\* restart a failed study may only be less known.
EndsStayTrue ==
    [][/\ Status = "completed" => Status' = "completed"
       /\ Status = "failed" => Status' \in {"failed", "interrupted", "unknown"}
       /\ Status \in {"interrupted", "unknown"} => Status' = Status]_vars

\* With every result received, an early stop is put down to the step at which
\* the bench stopped, and no result is said to be missing.
StopIsPutDownRight ==
    garbled = {} =>
        /\ outcome = "stopped" => bench.stage \in {"stopped", "done"} /\ stopping = bench.step
        /\ outcome # "missing"

\* A study ends, however long a babbling bench goes on: study_lock is held
\* until it does.
RunsEnd == core = "receiving" ~> core \in {"over", "dead"}

=============================================================================
