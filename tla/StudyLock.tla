----------------------------- MODULE StudyLock -----------------------------
(***************************************************************************)
(* study_lock of embarch-core (src/src/study.rs, host_study.rs): one bench *)
(* study, host study or hello at a time.  Modelled with it are what its    *)
(* holder alone may use: the dev-bench link, a serial port one thread of   *)
(* the system can have open, and the two slots of a host study, host_cancel*)
(* and host_prompt.                                                        *)
(*                                                                         *)
(* A hello and a host study hold the lock through a value whose drop lets  *)
(* it go.  A bench study's handler holds it through a string it clears     *)
(* itself, on each early return and, once the study runs, in its task.     *)
(***************************************************************************)
CONSTANTS
    BenchStudy,     \* the ids of POST /study
    HostStudy,      \* the ids of POST /host-studies
    Hello,          \* callers of GET /dev-bench/hello
    NoOne,          \* a free lock, an empty slot
    MayLeave        \* whose client may hang up before the answer

Session == BenchStudy \cup HostStudy \cup Hello

ASSUME SessionAssumption ==
    /\ NoOne \notin Session
    /\ MayLeave \subseteq Session
    /\ BenchStudy \cap HostStudy = {}
    /\ BenchStudy \cap Hello = {}
    /\ HostStudy \cap Hello = {}

VARIABLES
    lock,       \* study_lock
    at,         \* where each session's handler, and then its task, is
    opening,    \* sessions with a blocking closure that opens or uses the link
    linked,     \* sessions that have the dev-bench port open
    cancelSlot, \* host_cancel: the study a cancel would reach
    prompt      \* host_prompt: the study that waits for a person

lockVars == <<lock, at, opening, linked, cancelSlot, prompt>>

Outside == {"idle", "rejected", "left", "over"}
LinkStages == {"opening", "linked", "starting"}
DropStages == {"dropPrompt", "dropCancel", "dropLock"}
Inside == {"setup", "running", "freeing"} \cup LinkStages \cup DropStages

LockTypeOK ==
    /\ lock \in Session \cup {NoOne}
    /\ at \in [Session -> Inside \cup Outside]
    /\ \A s \in Hello : at[s] \in {"idle", "setup", "opening", "freeing"}
    /\ \A s \in HostStudy : at[s] \notin LinkStages \cup {"freeing", "left", "rejected"}
    /\ \A s \in BenchStudy : at[s] \notin DropStages
    /\ opening \subseteq BenchStudy \cup Hello
    /\ linked \subseteq BenchStudy \cup Hello
    /\ cancelSlot \in HostStudy \cup {NoOne}
    /\ prompt \in HostStudy \cup {NoOne}

LockInit ==
    /\ lock = NoOne
    /\ at = [s \in Session |-> "idle"]
    /\ opening = {}
    /\ linked = {}
    /\ cancelSlot = NoOne
    /\ prompt = NoOne

Go(s, stage) == at' = [at EXCEPT ![s] = stage]

\* A hello may be called again; a study's id is never used again.
Done(s) == Go(s, IF s \in Hello THEN "idle" ELSE "over")

-----------------------------------------------------------------------------
(* Taking the lock                                                         *)

TakeLock(s) ==
    /\ at[s] = "idle" /\ s \notin opening
    /\ lock = NoOne
    /\ lock' = s
    /\ Go(s, "setup")
    /\ UNCHANGED <<opening, linked, cancelSlot, prompt>>

\* Mutant: a host study's JobHold is made before its lock is taken, so that a
\* refused one drops it too.
RefuseWithHold(s) ==
    /\ at[s] = "idle" /\ s \notin opening
    /\ lock # NoOne
    /\ Go(s, IF s \in HostStudy THEN "dropPrompt" ELSE "over")
    /\ UNCHANGED <<lock, opening, linked, cancelSlot, prompt>>

\* 409, naming the holder.
Refuse(s) ==
    /\ at[s] = "idle" /\ s \notin opening
    /\ lock # NoOne
    /\ Done(s)
    /\ UNCHANGED <<lock, opening, linked, cancelSlot, prompt>>

-----------------------------------------------------------------------------
(* Bench studies and hellos: the handler                                   *)

\* The port cannot be resolved, the identity gate refuses, or the handshake
\* fails (its closure closed the port): the lock is let go at the return.
GiveUp(s) ==
    /\ s \in BenchStudy \cup Hello
    /\ at[s] \in {"setup", "opening"}
    /\ opening' = opening \ {s}
    /\ linked' = linked \ {s}
    /\ lock' = NoOne
    /\ Done(s)
    /\ UNCHANGED <<cancelSlot, prompt>>

\* Resolved and past the gate: a blocking closure goes to open the link.
StartOpening(s) ==
    /\ s \in BenchStudy \cup Hello
    /\ at[s] = "setup"
    /\ opening' = opening \cup {s}
    /\ Go(s, "opening")
    /\ UNCHANGED <<lock, linked, cancelSlot, prompt>>

\* The closure has the port open, and goes on to Hello and HelloAck.
OpenPort(s) ==
    /\ s \in opening \ linked
    /\ linked = {}
    /\ linked' = {s}
    /\ UNCHANGED <<lock, at, opening, cancelSlot, prompt>>

\* HelloAck: a hello closes the link and answers; a study keeps it for its
\* outpost pre-flight, if it wants one.
Handshaken(s) ==
    /\ at[s] = "opening" /\ s \in linked
    /\ opening' = opening \ {s}
    /\ IF s \in Hello
       THEN Go(s, "freeing") /\ linked' = linked \ {s}
       ELSE Go(s, "linked") /\ UNCHANGED linked
    /\ UNCHANGED <<lock, cancelSlot, prompt>>

\* The version gate and StudyStart, in one blocking closure.
StartStudy(s) ==
    /\ at[s] = "linked"
    /\ opening' = opening \cup {s}
    /\ Go(s, "starting")
    /\ UNCHANGED <<lock, linked, cancelSlot, prompt>>

\* Pre-flight or version gate refuse: the lock is cleared first, and the link
\* closes when the handler's locals drop.
Reject(s) ==
    /\ at[s] \in {"linked", "starting"}
    /\ opening' = opening \ {s}
    /\ lock' = NoOne
    /\ Go(s, "rejected")
    /\ UNCHANGED <<linked, cancelSlot, prompt>>

CloseRejected(s) ==
    /\ at[s] = "rejected"
    /\ linked' = linked \ {s}
    /\ Go(s, "over")
    /\ UNCHANGED <<lock, opening, cancelSlot, prompt>>

\* StudyStart is out: 202, and the task owns the link and the lock.
Accept(s) ==
    /\ at[s] = "starting"
    /\ opening' = opening \ {s}
    /\ Go(s, "running")
    /\ UNCHANGED <<lock, linked, cancelSlot, prompt>>

-----------------------------------------------------------------------------
(* A running study, of either kind, ends: it completed, failed or panicked *)

EndBenchStudy(s) ==
    /\ s \in BenchStudy
    /\ at[s] = "running"
    /\ linked' = linked \ {s}
    /\ Go(s, "freeing")
    /\ UNCHANGED <<lock, opening, cancelSlot, prompt>>

\* Mutant: whoever ends frees nothing.
FreeNothing(s) ==
    /\ at[s] = "freeing"
    /\ Done(s)
    /\ UNCHANGED <<lock, opening, linked, cancelSlot, prompt>>

Free(s) ==
    /\ at[s] = "freeing"
    /\ lock' = NoOne
    /\ Done(s)
    /\ UNCHANGED <<opening, linked, cancelSlot, prompt>>

\* Signals checked and taps started: the cancel slot is set, the task started.
Launch(s) ==
    /\ s \in HostStudy
    /\ at[s] = "setup"
    /\ cancelSlot' = s
    /\ Go(s, "running")
    /\ UNCHANGED <<lock, opening, linked, prompt>>

Publish(s) ==
    /\ s \in HostStudy
    /\ at[s] = "running"
    /\ prompt' = s
    /\ UNCHANGED <<lock, at, opening, linked, cancelSlot>>

\* Answered, timed out or cancelled: the waiting study clears its own prompt.
Resolve(s) ==
    /\ at[s] = "running"
    /\ prompt = s
    /\ prompt' = NoOne
    /\ UNCHANGED <<lock, at, opening, linked, cancelSlot>>

\* The job's thread ends, or the handler returns early: JobHold drops.
EndHostStudy(s) ==
    /\ s \in HostStudy
    /\ at[s] \in {"setup", "running"}
    /\ Go(s, "dropPrompt")
    /\ UNCHANGED <<lock, opening, linked, cancelSlot, prompt>>

DropPrompt(s) ==
    /\ at[s] = "dropPrompt"
    /\ prompt' = NoOne
    /\ Go(s, "dropCancel")
    /\ UNCHANGED <<lock, opening, linked, cancelSlot>>

\* Mutant: the lock is let go before the cancel slot.
DropCancelLast(s) ==
    /\ at[s] = "dropCancel"
    /\ lock' = NoOne
    /\ Go(s, "dropLock")
    /\ UNCHANGED <<opening, linked, cancelSlot, prompt>>

DropCancel(s) ==
    /\ at[s] = "dropCancel"
    /\ cancelSlot' = NoOne
    /\ Go(s, "dropLock")
    /\ UNCHANGED <<lock, opening, linked, prompt>>

DropLock(s) ==
    /\ at[s] = "dropLock"
    /\ lock' = NoOne
    /\ Done(s)
    /\ UNCHANGED <<opening, linked, cancelSlot, prompt>>

-----------------------------------------------------------------------------
(* A client hangs up: the handler's future is dropped at its await.  What  *)
(* it owned drops with it; a blocking closure runs to its end.             *)

\* Nothing in a bench study's handler clears the lock when it is dropped.
LeaveStudy(s) ==
    /\ s \in MayLeave \cap BenchStudy
    /\ at[s] \in {"setup"} \cup LinkStages
    /\ linked' = IF s \in opening THEN linked ELSE linked \ {s}
    /\ Go(s, "left")
    /\ UNCHANGED <<lock, opening, cancelSlot, prompt>>

\* HelloHold drops.
LeaveHello(s) ==
    /\ s \in MayLeave \cap Hello
    /\ at[s] \in {"setup", "opening"}
    /\ lock' = NoOne
    /\ Go(s, "idle")
    /\ UNCHANGED <<opening, linked, cancelSlot, prompt>>

LeaveHost(s) ==
    /\ s \in MayLeave \cap HostStudy
    /\ at[s] = "setup"
    /\ Go(s, "dropPrompt")
    /\ UNCHANGED <<lock, opening, linked, cancelSlot, prompt>>

\* A closure whose handler is gone ends, and closes the link it had.
OrphanEnds(s) ==
    /\ s \in opening
    /\ at[s] \in {"left", "idle"}
    /\ opening' = opening \ {s}
    /\ linked' = linked \ {s}
    /\ UNCHANGED <<lock, at, cancelSlot, prompt>>

-----------------------------------------------------------------------------

\* What a session's own code does once it has the lock.
Proceed(s) ==
    \/ GiveUp(s)
    \/ StartOpening(s)
    \/ OpenPort(s)
    \/ Handshaken(s)
    \/ StartStudy(s)
    \/ Reject(s)
    \/ CloseRejected(s)
    \/ Accept(s)
    \/ EndBenchStudy(s)
    \/ Free(s)
    \/ Launch(s)
    \/ EndHostStudy(s)
    \/ DropPrompt(s)
    \/ DropCancel(s)
    \/ DropLock(s)
    \/ OrphanEnds(s)

Step(s) ==
    \/ TakeLock(s)
    \/ Refuse(s)
    \/ Proceed(s)
    \/ Publish(s)
    \/ Resolve(s)
    \/ LeaveStudy(s)
    \/ LeaveHello(s)
    \/ LeaveHost(s)

LockNext == \E s \in Session : Step(s)

LockSpec == LockInit /\ [][LockNext]_lockVars

(* Handlers and tasks go on; a link is silent only up to its watchdog, a   *)
(* person only up to the prompt's timeout, and a study's steps are finite. *)
FairLockSpec == LockSpec /\ \A s \in Session : WF_lockVars(Proceed(s))

-----------------------------------------------------------------------------
(* Properties                                                              *)

\* At most one study or hello is under way, and study_lock names it: no
\* session is between taking the lock and letting it go but the lock's own.
OneSessionAtATime == \A s \in Session : at[s] \in Inside => lock = s

\* A cancel and an answer reach the running host study or nobody: neither slot
\* outlives its study, and no ended or refused study takes them away from it.
SlotsBelongToRunner ==
    /\ cancelSlot \in {NoOne, lock}
    /\ prompt \in {NoOne, lock}
    /\ \A s \in HostStudy : at[s] = "running" => cancelSlot = s

\* study_lock is Some(study_id) only "while a study is in flight" (StudyLock).
LockHasOwner == \A s \in Session : lock = s => at[s] \in Inside

\* Every session lets the lock go, so that the next one can have the bench,
\* whoever else hung up, was refused or failed on the way.  The one exception
\* is a bench study whose client left before its 202.
LockIsFreed == \A s \in Session : lock = s ~> lock # s \/ at[s] = "left"

-----------------------------------------------------------------------------
(* The inductive invariant: which stages a slot's study may be in          *)

CancelMatchesStage ==
    /\ cancelSlot # NoOne => at[cancelSlot] \in {"running", "dropPrompt", "dropCancel"}
    /\ \A s \in HostStudy : at[s] = "running" => cancelSlot = s

PromptMatchesStage ==
    prompt # NoOne => at[prompt] \in {"running", "dropPrompt"}

LockIInv == LockTypeOK /\ OneSessionAtATime /\ CancelMatchesStage /\ PromptMatchesStage
=============================================================================
