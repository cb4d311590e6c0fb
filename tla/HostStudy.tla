----------------------------- MODULE HostStudy ------------------------------
(***************************************************************************)
(* One host study of embarch-core (src/src/host_study.rs): the executor    *)
(* that walks the steps and then the teardown, the record it keeps, the    *)
(* prompt that people answer, and the cancel.                              *)
(*                                                                         *)
(* A Repeat stands in the list as a step of kind "repeat", for its own     *)
(* delay, followed by the steps of each of its passes: run_repeat looks at *)
(* the cancel flag before each of them as walk does.  Instrument steps are *)
(* exchanges here.  Pass markers and signal taps are left out; the lock    *)
(* and its slots are those of StudyLock, the taps' captures of Captures.   *)
(***************************************************************************)
EXTENDS Naturals, Sequences, SequencesExt

CONSTANTS
    Steps, Teardown     \* sequences of [kind, delay, tolerant]

StepType == [kind : {"wait", "exchange", "prompt", "repeat"},
             delay : BOOLEAN,       \* delay_before_ms > 0
             tolerant : BOOLEAN]    \* continue_on_fail

ASSUME ListAssumption == Steps \in Seq(StepType) /\ Teardown \in Seq(StepType)

VARIABLES
    list, at, stage,    \* where the executor is
    ran,                \* the StepRecords so far, the last one on its way
    completed,          \* RunEnd.completed
    cancel,             \* the cancel flag
    cancellable,        \* host_cancel names this study
    slot,               \* host_prompt
    prompts,            \* CoreBackend.prompts
    accepted,           \* what was answered 200, and to which prompt
    writeErr,           \* write_err
    announced,          \* how many HostStepCompleted were sent
    disk,               \* the events file
    job                 \* the job's status in the registry

walkVars == <<list, at, stage, ran, completed>>
promptVars == <<slot, prompts, accepted>>
cancelVars == <<cancel, cancellable>>
fileVars == <<writeErr, announced, disk, job>>
vars == <<walkVars, promptVars, cancelVars, fileVars>>

Lists == [steps |-> Steps, teardown |-> Teardown]
Step == Lists[list][at]
AnswerType == {"confirmed", "prompt_cancelled"}
DetailType == AnswerType \cup {"passed", "failed", "cancelled", "prompt_timed_out"}
RecordType == [list : DOMAIN Lists, at : Nat, detail : DetailType, id : Nat]
NoPrompt == [id |-> 0, answer |-> "none"]

TypeOK ==
    /\ list \in DOMAIN Lists /\ at \in 1 .. Len(Lists[list]) + 1
    /\ stage \in {"starting", "between", "delaying", "acting", "prompting", "writing",
                  "announcing", "sealing", "releasing", "unwinding", "over", "dead"}
    /\ ran \in Seq(RecordType)
    /\ slot \in [id : 0 .. prompts, answer : AnswerType \cup {"none"}]
    /\ prompts \in Nat
    /\ accepted \subseteq [id : 1 .. prompts, answer : AnswerType]
    /\ {completed, cancel, cancellable, writeErr} \subseteq BOOLEAN
    /\ announced \in 0 .. Len(ran)
    /\ disk \in [file : {"missing", "partial", "final"}, steps : Seq(RecordType),
                 completed : BOOLEAN]
    /\ job \in {"running", "completed", "failed", "none"}

Init ==
    /\ list = "steps" /\ at = 1 /\ stage = "starting"
    /\ ran = <<>>
    /\ completed = TRUE
    /\ cancel = FALSE /\ cancellable = TRUE
    /\ slot = NoPrompt /\ prompts = 0
    /\ accepted = {}
    /\ writeErr = FALSE /\ announced = 0
    /\ disk = [file |-> "missing", steps |-> <<>>, completed |-> FALSE]
    /\ job = "running"

-----------------------------------------------------------------------------
(* The executor: walk, run_repeat and run_step                             *)

\* run_job begins the record; without one nothing runs.
Start ==
    /\ stage = "starting"
    /\ \/ /\ stage' = "between"
          /\ disk' = [disk EXCEPT !.file = "partial"]
          /\ UNCHANGED job
       \/ /\ stage' = "releasing"
          /\ job' = "failed"
          /\ UNCHANGED disk
    /\ UNCHANGED <<list, at, ran, completed, promptVars, cancelVars, writeErr, announced>>

\* Mutant: a cancel stops the teardown too.
CancelledAnywhere == cancel

\* The flag that the list's walk is given: the teardown has none.
Cancelled == list = "steps" /\ cancel

GoTo(l, i) == list' = l /\ at' = i /\ stage' = "between"

\* The end of a list: of the steps, whatever ended them, the teardown follows.
LeaveList ==
    IF list = "steps" THEN GoTo("teardown", 1)
    ELSE stage' = "sealing" /\ UNCHANGED <<list, at>>

ListEnds ==
    /\ stage = "between" /\ at > Len(Lists[list])
    /\ LeaveList
    /\ UNCHANGED <<ran, completed, promptVars, cancelVars, fileVars>>

SkipsRest ==
    /\ stage = "between" /\ at <= Len(Lists[list])
    /\ Cancelled
    /\ completed' = FALSE
    /\ LeaveList
    /\ UNCHANGED <<ran, promptVars, cancelVars, fileVars>>

StartStep ==
    /\ stage = "between" /\ at <= Len(Lists[list])
    /\ ~Cancelled
    /\ IF Step.delay THEN stage' = "delaying" /\ UNCHANGED <<list, at>>
       ELSE IF Step.kind = "repeat" THEN GoTo(list, at + 1)
       ELSE stage' = "acting" /\ UNCHANGED <<list, at>>
    /\ UNCHANGED <<ran, completed, promptVars, cancelVars, fileVars>>

Made(detail, id) ==
    /\ ran' = Append(ran, [list |-> list, at |-> at, detail |-> detail, id |-> id])
    /\ stage' = "writing"
    /\ UNCHANGED <<list, at, completed>>

DelayEnds ==
    /\ stage = "delaying"
    /\ IF Step.kind = "repeat" THEN GoTo(list, at + 1)
       ELSE stage' = "acting" /\ UNCHANGED <<list, at>>
    /\ UNCHANGED <<ran, completed, promptVars, cancelVars, fileVars>>

\* sleep_for sees the flag; a Repeat that is cancelled so has no record.
DelayCancelled ==
    /\ stage = "delaying" /\ Cancelled
    /\ IF Step.kind = "repeat"
       THEN completed' = FALSE /\ LeaveList /\ UNCHANGED ran
       ELSE Made("cancelled", 0)
    /\ UNCHANGED <<promptVars, cancelVars, fileVars>>

WaitEnds ==
    /\ stage = "acting" /\ Step.kind = "wait"
    /\ Made("passed", 0)
    /\ UNCHANGED <<promptVars, cancelVars, fileVars>>

WaitCancelled ==
    /\ stage = "acting" /\ Step.kind = "wait" /\ Cancelled
    /\ Made("cancelled", 0)
    /\ UNCHANGED <<promptVars, cancelVars, fileVars>>

\* Nothing stops an exchange; "failed" is a TimedOut as well as a Fail.
Exchange ==
    /\ stage = "acting" /\ Step.kind = "exchange"
    /\ \E detail \in {"passed", "failed"} : Made(detail, 0)
    /\ UNCHANGED <<promptVars, cancelVars, fileVars>>

\* A panic in a step ends the steps; in the teardown nothing catches it.
Panic ==
    /\ stage = "acting" /\ Step.kind = "exchange"
    /\ completed' = FALSE
    /\ IF list = "steps" THEN LeaveList
       ELSE stage' = "unwinding" /\ UNCHANGED <<list, at>>
    /\ UNCHANGED <<ran, promptVars, cancelVars, fileVars>>

\* CoreBackend::prompt
Publish ==
    /\ stage = "acting" /\ Step.kind = "prompt"
    /\ prompts' = prompts + 1
    /\ slot' = [id |-> prompts + 1, answer |-> "none"]
    /\ stage' = "prompting"
    /\ UNCHANGED <<list, at, ran, completed, accepted, cancelVars, fileVars>>

Resolve(detail) ==
    /\ Made(detail, prompts)
    /\ slot' = NoPrompt
    /\ UNCHANGED <<prompts, accepted, cancelVars, fileVars>>

\* wait_for_answer: an answer first, then the flag, then the deadline, and the
\* slot cleared under the lock of the look.  The flag is not under that lock: a
\* sleep or a prompt may run out just after a cancel that it did not see.
PromptAnswered ==
    /\ stage = "prompting" /\ slot.answer # "none"
    /\ Resolve(slot.answer)

\* Mutant: a tolerated prompt is not given the flag.
PromptCancelledUntolerated ==
    /\ stage = "prompting" /\ slot.answer = "none" /\ Cancelled
    /\ ~Step.tolerant
    /\ Resolve("cancelled")

PromptCancelled ==
    /\ stage = "prompting" /\ slot.answer = "none" /\ Cancelled
    /\ Resolve("cancelled")

\* Mutant: the deadline is looked at before the answer.
PromptTimesOutAnyway ==
    /\ stage = "prompting"
    /\ Resolve("prompt_timed_out")

\* Mutant: a prompt of the teardown has no deadline.
PromptTimesOutInSteps ==
    /\ stage = "prompting" /\ slot.answer = "none"
    /\ list = "steps"
    /\ Resolve("prompt_timed_out")

PromptTimesOut ==
    /\ stage = "prompting" /\ slot.answer = "none"
    /\ Resolve("prompt_timed_out")

\* Mutant: continue_on_fail holds for a cancelled step too.
StopsUnlessTolerant ==
    /\ list = "steps"
    /\ Last(ran).detail \notin {"passed", "confirmed"}
    /\ ~Step.tolerant

\* stop_reason, which the teardown never asks for.
Stops ==
    /\ list = "steps"
    /\ Last(ran).detail \notin {"passed", "confirmed"}
    /\ Last(ran).detail = "cancelled" \/ ~Step.tolerant

\* on_step, first half: the record is written and flushed, or write_err is set;
\* what a file with a hole holds after it is not followed.
WriteStep ==
    /\ stage = "writing"
    /\ \/ /\ ~writeErr
          /\ disk' = [disk EXCEPT !.steps = Append(@, Last(ran))]
          /\ UNCHANGED writeErr
       \/ writeErr' = TRUE /\ UNCHANGED disk
    /\ stage' = "announcing"
    /\ UNCHANGED <<list, at, ran, completed, promptVars, cancelVars, announced, job>>

\* Second half: the event is sent, and the walk goes on or stops.
Announce ==
    /\ stage = "announcing"
    /\ announced' = announced + 1
    /\ IF Stops
       THEN completed' = FALSE /\ LeaveList
       ELSE UNCHANGED completed /\ GoTo(list, at + 1)
    /\ UNCHANGED <<ran, promptVars, cancelVars, writeErr, disk, job>>

-----------------------------------------------------------------------------
(* The end of the job                                                      *)

\* HostEventsWriter::finish: the rest of the file, and its name.
FinishRecord == disk' = [disk EXCEPT !.file = "final", !.completed = completed]

\* run_job after execute: a study that was stopped is "completed" too, and its
\* record says that it was.
Seal ==
    /\ stage = "sealing"
    /\ \/ /\ ~writeErr
          /\ FinishRecord
          /\ job' = "completed"
       \/ /\ job' = "failed"        \* write_err, or finish itself fails
          /\ UNCHANGED disk
    /\ stage' = "releasing"
    /\ UNCHANGED <<list, at, ran, completed, promptVars, cancelVars, writeErr, announced>>

\* JobHold::drop
Release ==
    /\ stage = "releasing"
    /\ slot' = NoPrompt
    /\ cancellable' = FALSE
    /\ stage' = "over"
    /\ UNCHANGED <<list, at, ran, completed, prompts, accepted, cancel,
                   fileVars>>

\* A panic outside the steps drops the hold first and fails the job after.
Unwind ==
    /\ stage = "unwinding"
    /\ IF cancellable
       THEN slot' = NoPrompt /\ cancellable' = FALSE /\ UNCHANGED <<stage, job>>
       ELSE job' = "failed" /\ stage' = "over" /\ UNCHANGED <<slot, cancellable>>
    /\ UNCHANGED <<list, at, ran, completed, prompts, accepted, cancel,
                   writeErr, announced, disk>>

\* Core is killed, and started again.
Restart ==
    /\ stage # "dead"
    /\ stage' = "dead"
    /\ slot' = NoPrompt /\ cancellable' = FALSE /\ job' = "none"
    /\ UNCHANGED <<list, at, ran, completed, prompts, accepted, cancel,
                   writeErr, announced, disk>>

-----------------------------------------------------------------------------
(* People                                                                  *)

\* record_answer: the prompt an answer names is the one waiting, and unanswered.
Waits(p) == p = slot.id /\ slot.answer = "none"

\* Anybody may answer any prompt that was ever published, at any time; an answer
\* that is refused changes nothing.
Answer(p, a) ==
    /\ Waits(p)
    /\ slot' = [slot EXCEPT !.answer = a]
    /\ accepted' = accepted \cup {[id |-> p, answer |-> a]}
    /\ UNCHANGED <<walkVars, prompts, cancelVars, fileVars>>

\* cancel_study_handler
Cancel ==
    /\ cancellable /\ ~cancel
    /\ cancel' = TRUE
    /\ UNCHANGED <<walkVars, promptVars, cancellable, fileVars>>

-----------------------------------------------------------------------------

Timer == DelayEnds \/ WaitEnds \/ PromptTimesOut

Executor ==
    \/ Start
    \/ ListEnds
    \/ SkipsRest
    \/ StartStep
    \/ DelayCancelled
    \/ WaitCancelled
    \/ Exchange
    \/ Publish
    \/ PromptAnswered
    \/ PromptCancelled
    \/ WriteStep
    \/ Announce
    \/ Seal
    \/ Release
    \/ Unwind

Next ==
    \/ Timer
    \/ Executor
    \/ Panic
    \/ Restart
    \/ Cancel
    \/ \E p \in 1 .. prompts, a \in AnswerType : Answer(p, a)

Spec == Init /\ [][Next]_vars

(* The executor's thread runs; sleeps and deadlines, an hour long some     *)
(* of them, need not end.                                                  *)
FairSpec == Spec /\ WF_vars(Executor)

-----------------------------------------------------------------------------
(* Properties                                                              *)

Recorded(l) == {i \in DOMAIN Lists[l] : Lists[l][i].kind # "repeat"}
Places(l) == {ran[k].at : k \in {m \in DOMAIN ran : ran[m].list = l}}

\* Whatever ended the steps, a run that is over has run each step of its
\* teardown, once, in order and after all others ("Teardown runs on every exit");
\* only a panic in the teardown itself, or no record to begin with, prevents it.
TeardownRuns ==
    stage \in {"sealing", "releasing"} /\ disk.file # "missing" =>
        /\ Places("teardown") = Recorded("teardown")
        /\ \A k, m \in DOMAIN ran : k < m /\ ran[k].list = "teardown" =>
              ran[m].list = "teardown" /\ ran[k].at < ran[m].at

\* An answer that was accepted is what its own prompt's record says, and no
\* record says an answer that was not.
AcceptedAnswersCount ==
    \A k \in DOMAIN ran :
        /\ \A a \in accepted : a.id = ran[k].id => ran[k].detail = a.answer
        /\ ran[k].detail \in AnswerType => \E a \in accepted : a.id = ran[k].id

\* The study is over with that step's record.
EndsStudy(r) ==
    /\ r.list = "steps" /\ r.detail \notin {"passed", "confirmed"}
    /\ r.detail = "cancelled" \/ ~Steps[r.at].tolerant

\* A cancel may also fall before a Repeat without passes at the end of the steps.
SkipsNothing == cancel /\ Steps # <<>> /\ Last(Steps).kind = "repeat"

\* What was announced survives a kill of Core, unless it could not be written;
\* a record that got its name has every step that ran; and it says "completed"
\* if each of the steps ran to its own end and none stopped the study, and only
\* if so.
RecordIsTrue ==
    /\ TypeOK
    /\ ~writeErr => announced <= Len(disk.steps)
    /\ disk.file = "final" =>
        /\ disk.steps = ran
        /\ LET whole == /\ Places("steps") = Recorded("steps")
                        /\ \A k \in DOMAIN ran : ~EndsStudy(ran[k])
           IN  /\ disk.completed => whole
               /\ ~disk.completed => ~whole \/ SkipsNothing

\* A cancel brings the teardown though no sleep and no prompt ever runs out.
CancelTakesHold ==
    cancel /\ list = "steps" /\ disk.file # "missing" ~> list = "teardown" \/ stage = "dead"

\* A study ends, answered or not, if its sleeps and deadlines do.
StudyEnds == WF_vars(Timer) => <>(stage \in {"over", "dead"})
=============================================================================
