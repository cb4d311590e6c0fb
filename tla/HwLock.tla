------------------------------- MODULE HwLock -------------------------------
(***************************************************************************)
(* The hardware lock of embarch-core (src/src/api.rs): hw_lock, the holder *)
(* string beside it, and the life of one request that takes them.          *)
(*                                                                         *)
(* A handler awaits the lock for at most HW_LOCK_WAIT_MS, names itself in  *)
(* hw_holder, hands its hardware work to a blocking thread and awaits it.  *)
(* An HwGuard lives in the handler's future, so it goes when the future    *)
(* goes: at the handler's return, or when the client hangs up and the      *)
(* server drops the future at its await point.  The blocking thread knows  *)
(* nothing of either and runs to its end.                                  *)
(***************************************************************************)

CONSTANTS
    Request,     \* requests that take hw_lock, each standing for its route
    NoRequest,   \* nobody: a free permit, an empty holder string
    MayLeave     \* the requests whose client may hang up before the answer

ASSUME NoRequestAssumption == NoRequest \notin Request
ASSUME MayLeaveAssumption == MayLeave \subseteq Request

VARIABLES
    permit,      \* who owns the tokio mutex, assigned by it and polled later
    hwHolder,    \* hw_holder: whom a refused caller is told about
    phase,       \* where each request's handler is
    op,          \* where each request's blocking closure is
    gone         \* requests whose handler was dropped while its closure ran

vars == <<permit, hwHolder, phase, op, gone>>

Phase == {"idle", "waiting", "guarded", "working", "closing"}
OpState == {"none", "running", "ended"}

TypeOK ==
    /\ permit \in Request \cup {NoRequest}
    /\ hwHolder \in Request \cup {NoRequest}
    /\ phase \in [Request -> Phase]
    /\ op \in [Request -> OpState]
    /\ gone \subseteq Request

Init ==
    /\ permit = NoRequest
    /\ hwHolder = NoRequest
    /\ phase = [r \in Request |-> "idle"]
    /\ op = [r \in Request |-> "none"]
    /\ gone = {}

-----------------------------------------------------------------------------
(* The tokio mutex: a freed permit goes straight to a waiter if there is   *)
(* one, so it is never both free and awaited.  Its queue is first come     *)
(* first served; no property here depends on which waiter is next.         *)

Waiters == {r \in Request : phase[r] = "waiting" /\ permit # r}

PassOn(leaving) ==
    permit' \in (IF Waiters \ leaving = {} THEN {NoRequest} ELSE Waiters \ leaving)

-----------------------------------------------------------------------------
(* acquire_hw_lock                                                         *)

\* The handler starts to await the lock, and has it at once if it is free.
Ask(r) ==
    /\ phase[r] = "idle"
    /\ op[r] = "none"
    /\ phase' = [phase EXCEPT ![r] = "waiting"]
    /\ permit' = IF permit = NoRequest THEN r ELSE permit
    /\ gone' = gone \ {r}
    /\ UNCHANGED <<hwHolder, op>>

\* The future is polled with the permit its own: it names itself the holder.
Grant(r) ==
    /\ phase[r] = "waiting"
    /\ permit = r
    /\ hwHolder' = r
    /\ phase' = [phase EXCEPT ![r] = "guarded"]
    /\ UNCHANGED <<permit, op, gone>>

\* Mutant: the wait has no timeout.
NeverRefuse(r) == FALSE /\ r \in Request /\ UNCHANGED vars

\* HW_LOCK_WAIT_MS passed: 503, in the words of hw_holder, which it only reads.
Refuse(r) ==
    /\ r \in Waiters
    /\ phase' = [phase EXCEPT ![r] = "idle"]
    /\ UNCHANGED <<permit, hwHolder, op, gone>>

-----------------------------------------------------------------------------
(* The handler under its guard                                             *)

\* A check of the handler's own fails with the guard held; nothing was done.
Bail(r) ==
    /\ phase[r] = "guarded"
    /\ hwHolder' = NoRequest
    /\ phase' = [phase EXCEPT ![r] = "closing"]
    /\ UNCHANGED <<permit, op, gone>>

\* spawn_blocking: from here the hardware is being used.
Spawn(r) ==
    /\ phase[r] = "guarded"
    /\ phase' = [phase EXCEPT ![r] = "working"]
    /\ op' = [op EXCEPT ![r] = "running"]
    /\ UNCHANGED <<permit, hwHolder, gone>>

\* The closure returns; with no handler left its result is thrown away.
OpEnds(r) ==
    /\ op[r] = "running"
    /\ op' = [op EXCEPT ![r] = IF r \in gone THEN "none" ELSE "ended"]
    /\ UNCHANGED <<permit, hwHolder, phase, gone>>

\* The handler resumes, answers, and its guard starts to drop: the holder
\* string goes first, the permit after it.
Answer(r) ==
    /\ phase[r] = "working"
    /\ op[r] = "ended"
    /\ op' = [op EXCEPT ![r] = "none"]
    /\ hwHolder' = NoRequest
    /\ phase' = [phase EXCEPT ![r] = "closing"]
    /\ UNCHANGED <<permit, gone>>

\* The guard's permit field drops.
ReleasePermit(r) ==
    /\ phase[r] = "closing"
    /\ phase' = [phase EXCEPT ![r] = "idle"]
    /\ PassOn({})
    /\ UNCHANGED <<hwHolder, op, gone>>

-----------------------------------------------------------------------------
(* The client hangs up and the server drops the handler's future, which    *)
(* can only be at an await: for the lock, or for the blocking closure.     *)

LeaveQueue(r) ==
    /\ r \in MayLeave
    /\ phase[r] = "waiting"
    /\ phase' = [phase EXCEPT ![r] = "idle"]
    /\ IF permit = r THEN PassOn({r}) ELSE UNCHANGED permit
    /\ UNCHANGED <<hwHolder, op, gone>>

\* Mutant: a dropped future does not drop its guard.
LeaveWorkLeaks(r) ==
    /\ r \in MayLeave
    /\ phase[r] = "working"
    /\ phase' = [phase EXCEPT ![r] = "idle"]
    /\ gone' = gone \cup {r}
    /\ op' = [op EXCEPT ![r] = IF @ = "ended" THEN "none" ELSE @]
    /\ UNCHANGED <<permit, hwHolder>>

LeaveWork(r) ==
    /\ r \in MayLeave
    /\ phase[r] = "working"
    /\ hwHolder' = NoRequest
    /\ phase' = [phase EXCEPT ![r] = "closing"]
    /\ gone' = gone \cup {r}
    /\ op' = [op EXCEPT ![r] = IF @ = "ended" THEN "none" ELSE @]
    /\ UNCHANGED permit

-----------------------------------------------------------------------------

Step(r) ==
    \/ Ask(r)
    \/ Grant(r)
    \/ Refuse(r)
    \/ Bail(r)
    \/ Spawn(r)
    \/ OpEnds(r)
    \/ Answer(r)
    \/ ReleasePermit(r)
    \/ LeaveQueue(r)
    \/ LeaveWork(r)

Next == \E r \in Request : Step(r)

Spec == Init /\ [][Next]_vars

(* The runtime polls a woken future, the timer fires, and drop runs to its *)
(* end.  A client need not call, nor hang up.                              *)
Fairness ==
    \A r \in Request :
        /\ WF_vars(Grant(r))
        /\ WF_vars(Refuse(r))
        /\ WF_vars(ReleasePermit(r))

FairSpec == Spec /\ Fairness

(* No hardware operation hangs for ever, and its handler sees it end. *)
OpsFinish ==
    \A r \in Request :
        /\ WF_vars(OpEnds(r))
        /\ WF_vars(Answer(r))
        /\ WF_vars(Bail(r) \/ Spawn(r))

-----------------------------------------------------------------------------
(* Properties                                                              *)

\* The holder string never names anyone but the permit's owner, and a handler
\* under its guard always finds its own name there: a holder string cannot
\* outlive the guard that set it, nor be cleared by somebody else's (HwGuard).
HolderNamesOwner ==
    /\ hwHolder \in {NoRequest, permit}
    /\ \A r \in Request : phase[r] \in {"guarded", "working"} => hwHolder = r

\* Nobody waits for a lock that nobody holds, whatever mix of refusals,
\* hang-ups and releases came before.
NoLostWakeup == permit = NoRequest => Waiters = {}

\* Hardware operations whose client is still there never overlap.
AttendedOpsExclusive ==
    \A r, s \in Request :
        /\ op[r] = "running" /\ r \notin gone
        /\ op[s] = "running" /\ s \notin gone
        => r = s

\* An operation that nobody awaits is the only kind that runs without the
\* lock: every other running one is its owner's.
UnlockedOpsAreAbandoned ==
    \A r \in Request : op[r] = "running" /\ permit # r => r \in gone

\* hw_lock serializes access to the physical connections (AppState's doc):
\* at most one hardware operation runs at a time.  Not so once a client hangs up.
HardwareSerialized ==
    \A r, s \in Request : op[r] = "running" /\ op[s] = "running" => r = s

\* A caller is never left waiting without an answer, even behind an operation
\* that hangs: it gets the lock or its 503.
WaitersAreAnswered ==
    \A r \in Request : phase[r] = "waiting" ~> phase[r] # "waiting"

\* A guard is let go once the operation under it ends, whether or not its
\* client stayed for the answer.
GuardsAreReleased ==
    OpsFinish => \A r \in Request : hwHolder = r ~> hwHolder # r

-----------------------------------------------------------------------------
(* The inductive invariant                                                 *)

PermitMatchesPhase ==
    /\ \A r \in Request :
        phase[r] \in {"guarded", "working", "closing"} => permit = r
    /\ permit \in Request => phase[permit] # "idle"

HolderMatchesPhase ==
    /\ \A r \in Request : phase[r] \in {"guarded", "working"} => hwHolder = r
    /\ hwHolder \in Request => phase[hwHolder] \in {"guarded", "working"}

OpMatchesPhase ==
    \A r \in Request :
        /\ phase[r] = "working" => op[r] # "none" /\ r \notin gone
        /\ phase[r] \in {"waiting", "guarded"} => op[r] = "none" /\ r \notin gone
        /\ op[r] # "none" /\ phase[r] # "working" => op[r] = "running" /\ r \in gone

IInv ==
    /\ TypeOK
    /\ PermitMatchesPhase
    /\ HolderMatchesPhase
    /\ OpMatchesPhase
    /\ NoLostWakeup
=============================================================================
