---------------------------- MODULE Live_proofs ----------------------------
(***************************************************************************)
(* Proofs about Live, for any set of requests of any kinds, whichever      *)
(* clients hang up.  What they need of hw_lock is the invariant of module  *)
(* HwLock, whose proof is taken from HwLock_proofs.                        *)
(***************************************************************************)
EXTENDS Live, TLAPS

Lock == INSTANCE HwLock_proofs

\* The invariant and the steps of the lock are the same under either name.
LEMMA SameLock ==
    /\ Hw!IInv <=> Lock!IInv
    /\ Hw!Init <=> Lock!Init
    /\ Hw!Next <=> Lock!Next
<1>1. Hw!IInv <=> Lock!IInv
    BY DEF Hw!IInv, Lock!IInv, Hw!TypeOK, Lock!TypeOK, Hw!Phase, Lock!Phase,
       Hw!OpState, Lock!OpState, Hw!PermitMatchesPhase, Lock!PermitMatchesPhase,
       Hw!HolderMatchesPhase, Lock!HolderMatchesPhase, Hw!OpMatchesPhase,
       Lock!OpMatchesPhase, Hw!NoLostWakeup, Lock!NoLostWakeup, Hw!Waiters, Lock!Waiters
<1>2. Hw!Init <=> Lock!Init
    BY DEF Hw!Init, Lock!Init
<1>3. ASSUME NEW r \in Request PROVE Hw!Step(r) <=> Lock!Step(r)
    BY DEF Hw!Step, Lock!Step, Hw!Ask, Lock!Ask, Hw!Grant, Lock!Grant, Hw!Refuse,
       Lock!Refuse, Hw!Bail, Lock!Bail, Hw!Spawn, Lock!Spawn, Hw!OpEnds, Lock!OpEnds,
       Hw!Answer, Lock!Answer, Hw!ReleasePermit, Lock!ReleasePermit, Hw!LeaveQueue,
       Lock!LeaveQueue, Hw!LeaveWork, Lock!LeaveWork, Hw!PassOn, Lock!PassOn,
       Hw!Waiters, Lock!Waiters
<1> QED
    BY <1>1, <1>2, <1>3 DEF Hw!Next, Lock!Next

\* Every step of a live read is one of its handler's or leaves the lock alone.
LEMMA LockStep ==
    ASSUME [Next]_vars
    PROVE  Hw!Next \/ UNCHANGED hwVars
<1>1. CASE UNCHANGED vars
    BY <1>1 DEF vars
<1>2. CASE StopsLate
    BY <1>2 DEF StopsLate
<1>3. ASSUME NEW r \in Request, Step(r) PROVE Hw!Next \/ UNCHANGED hwVars
    <2>1. CASE Handle(r) \/ Spawn(r) \/ LeaveWork(r) \/ OpEnds(r) \/ Answer(r)
        BY <2>1 DEF Handle, Spawn, LeaveWork, OpEnds, Answer, Hw!Next, Hw!Step
    <2>2. CASE ~(Handle(r) \/ Spawn(r) \/ LeaveWork(r) \/ OpEnds(r) \/ Answer(r))
        BY <1>3, <2>2 DEF Step, NoCore, Find, Halt, HaltTimesOut, Read, Resume,
           ResumeFails, Peek, StopForFlash, Reset, ResetFails, Runs
    <2> QED
        BY <2>1, <2>2
<1> QED
    BY <1>1, <1>2, <1>3 DEF Next

LEMMA LockInit == Init => Hw!IInv
BY Lock!InitIInv, SameLock, RequestAssumption DEF Init

LEMMA LockNext == Hw!IInv /\ [Next]_vars => Hw!IInv'
<1> SUFFICES ASSUME Hw!IInv, [Next]_vars PROVE Hw!IInv'
    OBVIOUS
<1>1. [Lock!Next]_(Lock!vars)
    BY LockStep, SameLock DEF hwVars, Lock!vars
<1>2. Lock!IInv'
    BY <1>1, Lock!NextIInv, SameLock, RequestAssumption
<1>3. (Hw!IInv <=> Lock!IInv)'
    BY SameLock, PTL
<1> QED
    BY <1>2, <1>3

-----------------------------------------------------------------------------
(* Closures beside each other                                              *)

\* A handler about to spawn its closure owns the lock, and every closure there
\* is runs and is one that nobody awaits.
LEMMA OnlyOrphansRun ==
    ASSUME Hw!IInv, NEW r \in Request, phase[r] = "guarded"
    PROVE  op[r] = "none" /\ \A s \in Request : op[s] # "none" => s \in Orphans
BY DEF Hw!IInv, Hw!TypeOK, Hw!PermitMatchesPhase, Hw!OpMatchesPhase, Orphans

LEMMA InitIInv == Init => IInv
<1> SUFFICES ASSUME Init PROVE IInv
    OBVIOUS
<1>1. Hw!IInv /\ Hw!TypeOK
    BY LockInit DEF Hw!IInv
<1>2. TypeOK
    BY <1>1 DEF Init, TypeOK, At, RunState
<1>3. AtMatchesOp /\ ClosuresMeet /\ CoreMatchesAt
    BY KindAssumption
    DEF Init, Hw!Init, AtMatchesOp, ClosuresMeet, CoreMatchesAt, CoreKnown, Reading
<1> QED
    BY <1>1, <1>2, <1>3 DEF IInv, Init, RunState

\* Steps of the handler: none of them touches the core, and what a closure
\* found out goes when the closure's record does.
LEMMA HandlerNext ==
    ASSUME IInv, Hw!IInv', NEW r \in Request,
           Handle(r) \/ Spawn(r) \/ LeaveWork(r) \/ OpEnds(r) \/ Answer(r)
    PROVE  IInv'
<1> USE KindAssumption DEF IInv
<1>1. ClosuresMeet'
    <2>1. CASE Spawn(r)
        <3>1. phase[r] = "guarded" /\ op' = [op EXCEPT ![r] = "running"] /\ op \in [Request -> Hw!OpState]
            BY <2>1 DEF Spawn, Hw!Spawn, Hw!IInv, Hw!TypeOK
        <3>2. ASSUME NEW s \in Request, NEW t \in Request, s # t, op'[s] # "none", op'[t] # "none",
                     t \in Touching
              PROVE  s \in beside'
            <4>1. CASE s # r /\ t # r
                BY <2>1, <3>1, <3>2, <4>1 DEF ClosuresMeet, Spawn
            <4>2. CASE s = r
                BY <2>1, <3>1, <3>2, <4>2, OnlyOrphansRun DEF Spawn
            <4>3. CASE t = r
                BY <2>1, <3>1, <3>2, <4>3, OnlyOrphansRun DEF Spawn
            <4> QED
                BY <4>1, <4>2, <4>3
        <3> QED
            BY <3>2 DEF ClosuresMeet
    <2>2. CASE Handle(r)
        BY <2>2 DEF ClosuresMeet, Handle, Hw!Ask, Hw!Grant, Hw!Refuse, Hw!Bail,
           Hw!ReleasePermit, Hw!LeaveQueue
    <2>3. CASE LeaveWork(r) \/ OpEnds(r) \/ Answer(r)
        <3>1. op \in [Request -> Hw!OpState]
            BY DEF Hw!IInv, Hw!TypeOK
        <3>2. \A s \in Request : op'[s] # "none" => op[s] # "none" /\ (s \in beside => s \in beside')
            BY <2>3, <3>1
            DEF LeaveWork, OpEnds, Answer, Forget, Hw!LeaveWork, Hw!OpEnds, Hw!Answer
        <3> QED
            BY <3>2 DEF ClosuresMeet
    <2> QED
        BY <2>1, <2>2, <2>3
<1>2. TypeOK'
    <2>1. beside' \subseteq Request
        BY DEF TypeOK, Handle, Spawn, LeaveWork, OpEnds, Answer, Forget, Orphans
    <2>2. at' \in [Request -> At] /\ found' \in [Request -> RunState \cup {"unknown"}]
        BY DEF TypeOK, Handle, Spawn, LeaveWork, OpEnds, Answer, Forget, At
    <2>3. UNCHANGED <<core, mishap>>
        BY DEF Handle, Spawn, LeaveWork, OpEnds, Answer
    <2> QED
        BY <2>1, <2>2, <2>3 DEF TypeOK, Hw!IInv
<1>3. AtMatchesOp'
    <2>1. CASE Handle(r) \/ Spawn(r)
        BY <2>1 DEF Handle, Spawn, AtMatchesOp, TypeOK, Hw!TypeOK, Hw!IInv, Hw!OpMatchesPhase,
           Hw!Ask, Hw!Grant, Hw!Refuse, Hw!Bail, Hw!Spawn, Hw!ReleasePermit, Hw!LeaveQueue
    <2>2. CASE LeaveWork(r)
        BY <2>2 DEF LeaveWork, Forget, AtMatchesOp, TypeOK, Hw!TypeOK, Hw!LeaveWork
    <2>3. CASE OpEnds(r)
        BY <2>3 DEF OpEnds, Forget, AtMatchesOp, TypeOK, Hw!TypeOK, Hw!OpEnds
    <2>4. CASE Answer(r)
        BY <2>4 DEF Answer, Forget, AtMatchesOp, TypeOK, Hw!TypeOK, Hw!Answer
    <2> QED
        BY <2>1, <2>2, <2>3, <2>4
<1>4. CoreMatchesAt'
    <2>1. ASSUME NEW s \in Request, s \notin beside', s \in beside
          PROVE  found'[s] = "unknown" /\ at'[s] = "begun"
        <3>1. CASE Handle(r) \/ Spawn(r)
            BY <2>1, <3>1 DEF Handle, Spawn
        <3>2. CASE LeaveWork(r) \/ OpEnds(r) \/ Answer(r)
            BY <2>1, <3>2 DEF LeaveWork, OpEnds, Answer, Forget, TypeOK
        <3> QED
            BY <3>1, <3>2
    <2>2. UNCHANGED <<core, mishap>>
        BY DEF Handle, Spawn, LeaveWork, OpEnds, Answer
    <2>3. \A s \in Request : (at'[s] = at[s] /\ found'[s] = found[s])
                             \/ (at'[s] = "begun" /\ found'[s] = "unknown")
        BY DEF Handle, Spawn, LeaveWork, OpEnds, Answer, Forget, TypeOK
    <2>4. Reading \subseteq Request
        BY DEF Reading
    <2> QED
        BY <2>1, <2>2, <2>3, <2>4 DEF CoreMatchesAt, CoreKnown
<1> QED
    BY <1>1, <1>2, <1>3, <1>4 DEF Handle, Spawn, LeaveWork, OpEnds, Answer

\* Steps of the closure: what one operation does to the core disturbs no other
\* that is by itself, because there is none.
LEMMA ClosureNext ==
    ASSUME IInv, NEW r \in Request, UNCHANGED hwVars,
           \/ NoCore(r) \/ Find(r) \/ Halt(r) \/ HaltTimesOut(r) \/ Read(r)
           \/ Resume(r) \/ ResumeFails(r) \/ Peek(r)
           \/ StopForFlash(r) \/ Reset(r) \/ ResetFails(r)
    PROVE  IInv'
<1> USE KindAssumption DEF IInv
<1>0. beside' = beside
    BY DEF NoCore, Find, Halt, HaltTimesOut, Read, Resume, ResumeFails, Peek, StopForFlash,
       Reset, ResetFails, Runs
<1>1. Hw!IInv' /\ ClosuresMeet'
    BY <1>0 DEF hwVars, ClosuresMeet, Hw!IInv, Hw!TypeOK, Hw!PermitMatchesPhase,
       Hw!HolderMatchesPhase, Hw!OpMatchesPhase, Hw!NoLostWakeup, Hw!Waiters
<1>2. op[r] = "running" /\ (core' # core => r \in Touching)
    BY DEF Touching, NoCore, Find, Halt, HaltTimesOut, Read, Resume, ResumeFails, Peek,
       StopForFlash, Reset, ResetFails, Runs, AtMatchesOp
<1>3. TypeOK'
    BY <1>0, <1>1 DEF TypeOK, NoCore, Find, Halt, HaltTimesOut, Read, Resume, ResumeFails,
       Peek, StopForFlash, Reset, ResetFails, Runs, Outcome, At, RunState, Hw!IInv
<1>4. AtMatchesOp'
    BY <1>2 DEF hwVars, TypeOK, AtMatchesOp, Reading, NoCore, Find, Halt, HaltTimesOut,
       Read, Resume, ResumeFails, Peek, StopForFlash, Reset, ResetFails, Runs, Outcome
<1>5. \A s \in Reading \ beside : s # r /\ op[s] # "none" => UNCHANGED core
    BY <1>2 DEF Reading, ClosuresMeet
<1>6. \A s \in Request \ {r} : at'[s] = at[s] /\ found'[s] = found[s]
    BY DEF TypeOK, NoCore, Find, Halt, HaltTimesOut, Read, Resume, ResumeFails, Peek,
       StopForFlash, Reset, ResetFails, Runs
<1>7. \A s \in Request : op[s] = "none" => at[s] = "begun" /\ found[s] = "unknown"
    BY DEF AtMatchesOp
<1>8. mishap => mishap'
    BY DEF NoCore, Find, Halt, HaltTimesOut, Read, Resume, ResumeFails, Peek,
       StopForFlash, Reset, ResetFails
<1>9. ASSUME NEW s \in Reading \ beside, s # r PROVE CoreKnown(s)'
    <2>1. s \in Request
        BY DEF Reading
    <2>2. CoreKnown(s)
        BY DEF CoreMatchesAt
    <2>3. CASE op[s] = "none"
        BY <1>6, <1>7, <1>9, <2>1, <2>3 DEF CoreKnown
    <2>4. CASE op[s] # "none"
        BY <1>5, <1>6, <1>8, <1>9, <2>1, <2>2, <2>4 DEF CoreKnown
    <2> QED
        BY <2>3, <2>4
<1>10. ASSUME r \in Reading \ beside PROVE CoreKnown(r)'
    <2>1. r \notin Resetting /\ CoreKnown(r)
        BY <1>10 DEF Reading, CoreMatchesAt
    <2>2. CASE NoCore(r) \/ Find(r)
        BY <2>1, <2>2 DEF NoCore, Find, Runs, AtMatchesOp, TypeOK, CoreKnown, RunState
    <2>3. CASE Halt(r) \/ HaltTimesOut(r)
        BY <2>1, <2>3 DEF Halt, HaltTimesOut, Runs, AtMatchesOp, TypeOK, CoreKnown, RunState
    <2>4. CASE Read(r) \/ Peek(r)
        BY <2>1, <2>4 DEF Read, Peek, Runs, TypeOK, CoreKnown
    <2>5. CASE Resume(r) \/ ResumeFails(r)
        BY <2>1, <2>5 DEF Resume, ResumeFails, Runs, Outcome, AtMatchesOp, TypeOK, CoreKnown, RunState
    <2> QED
        BY <2>1, <2>2, <2>3, <2>4, <2>5 DEF StopForFlash, Reset, ResetFails
<1>11. CoreMatchesAt'
    BY <1>0, <1>9, <1>10 DEF CoreMatchesAt
<1> QED
    BY <1>1, <1>3, <1>4, <1>11
    DEF NoCore, Find, Halt, HaltTimesOut, Read, Resume, ResumeFails, Peek, StopForFlash,
        Reset, ResetFails

LEMMA NextIInv == IInv /\ [Next]_vars => IInv'
<1> SUFFICES ASSUME IInv, [Next]_vars PROVE IInv'
    OBVIOUS
<1>1. Hw!IInv'
    BY LockNext DEF IInv
<1>2. CASE UNCHANGED <<hwVars, at, found, beside>> /\ (UNCHANGED vars \/ StopsLate)
    <2>1. core' \in {core, "halted"} /\ UNCHANGED mishap
        BY <1>2 DEF vars, StopsLate
    <2>2. TypeOK'
        BY <1>1, <1>2, <2>1 DEF IInv, TypeOK, hwVars, Hw!IInv, RunState
    <2>3. AtMatchesOp' /\ ClosuresMeet'
        BY <1>2 DEF IInv, AtMatchesOp, ClosuresMeet, hwVars
    <2>4. CoreMatchesAt' /\ (core = "stopping" => mishap)'
        BY <1>2
        DEF IInv, CoreMatchesAt, CoreKnown, vars, hwVars, StopsLate, AtMatchesOp, TypeOK,
            RunState, Reading
    <2> QED
        BY <1>1, <2>2, <2>3, <2>4 DEF IInv
<1>3. ASSUME NEW r \in Request, Handle(r) \/ Spawn(r) \/ LeaveWork(r) \/ OpEnds(r) \/ Answer(r)
      PROVE  IInv'
    BY <1>1, <1>3, HandlerNext
<1>4. ASSUME NEW r \in Request, Step(r),
             ~(Handle(r) \/ Spawn(r) \/ LeaveWork(r) \/ OpEnds(r) \/ Answer(r))
      PROVE  IInv'
    <2>1. UNCHANGED hwVars
        BY <1>4 DEF Step, NoCore, Find, Halt, HaltTimesOut, Read, Resume, ResumeFails,
           Peek, StopForFlash, Reset, ResetFails, Runs
    <2> QED
        BY <1>4, <2>1, ClosureNext DEF Step
<1>5. CASE UNCHANGED vars \/ StopsLate
    BY <1>2, <1>5 DEF vars, StopsLate, hwVars
<1> QED
    BY <1>3, <1>4, <1>5 DEF Next

\* The invariant that ties the lock, the closures and the core together.
THEOREM Inductive == Spec => []IInv
BY InitIInv, NextIInv, PTL DEF Spec

\* A live read answers with the state in which the core still is, and leaves
\* the core as it found it, whoever else reads, flashes, resets or hangs up, but
\* for reads beside which another's closure touched the core.
THEOREM CoreIsLeftAsFound == Spec => []LeftAsFound
<1>1. IInv => LeftAsFound
    BY DEF IInv, CoreMatchesAt, CoreKnown, LeftAsFound
<1> QED
    BY <1>1, Inductive, PTL

\* Words and registers are read of a stopped core only, with that exception.
THEOREM ReadsSeeAStoppedCore == Spec => []WordsAreReadHalted
<1>1. IInv => WordsAreReadHalted
    BY KindAssumption
    DEF IInv, CoreMatchesAt, CoreKnown, WordsAreReadHalted, Reading
<1> QED
    BY <1>1, Inductive, PTL

\* A core that ran is stopped only while somebody's closure has it stopped and
\* will let it run, however the closures of abandoned requests mix with others.
THEOREM CoreRunsAgain == Spec => CoreIsLetRun
<1>1. Init /\ core = "running" => LetRun
    BY DEF Init, LetRun
<1>2. IInv /\ LetRun /\ [Next]_vars => LetRun'
    <2> SUFFICES ASSUME IInv, LetRun, [Next]_vars, ~mishap', core' = "halted"
                 PROVE  \E s \in Request : Stops(s)'
        BY DEF LetRun
    <2> USE KindAssumption
    <2>1. at \in [Request -> At] /\ op \in [Request -> Hw!OpState] /\ found \in [Request -> RunState \cup {"unknown"}]
        BY DEF IInv, TypeOK, Hw!TypeOK
    <2>2. CASE UNCHANGED vars
        BY <2>2 DEF vars, hwVars, LetRun, Stops
    <2>3. ~StopsLate
        BY DEF StopsLate, IInv
    <2>4. ASSUME NEW r \in Request, Step(r) PROVE \E s \in Request : Stops(s)'
        <3>1. CASE Halt(r)
            <4>1. CASE found[r] = "running"
                <5>1. Stops(r)'
                    BY <2>1, <3>1, <4>1 DEF Halt, Runs, hwVars, Stops
                <5> QED
                    BY <5>1
            <4>2. CASE found[r] # "running"
                <5>1. PICK s \in Request : Stops(s)
                    BY <3>1, <4>2 DEF Halt, LetRun
                <5>2. s # r
                    BY <3>1, <4>2, <5>1 DEF Halt, Runs, Stops
                <5>3. Stops(s)'
                    BY <2>1, <3>1, <5>1, <5>2 DEF Halt, Runs, hwVars, Stops
                <5> QED
                    BY <5>3
            <4> QED
                BY <4>1, <4>2
        <3>2. CASE StopForFlash(r)
            <4>1. Stops(r)'
                BY <2>1, <3>2 DEF StopForFlash, Runs, hwVars, Stops
            <4> QED
                BY <4>1
        <3>3. ASSUME UNCHANGED <<core, mishap>>, \A s \in Request : Stops(s) => Stops(s)'
              PROVE  \E s \in Request : Stops(s)'
            BY <3>3 DEF LetRun
        <3>4. CASE Handle(r) \/ Spawn(r) \/ LeaveWork(r) \/ OpEnds(r) \/ Answer(r)
            <4>1. UNCHANGED <<core, mishap>>
                BY <3>4 DEF Handle, Spawn, LeaveWork, OpEnds, Answer
            <4>2. ASSUME NEW s \in Request, Stops(s) PROVE Stops(s)'
                <5>1. op[s] = "running" /\ at[s] \notin {"ok", "failed"}
                    BY <4>2 DEF Stops
                <5>2. CASE Handle(r)
                    BY <4>2, <5>2 DEF Handle, Hw!Ask, Hw!Grant, Hw!Refuse, Hw!Bail,
                       Hw!ReleasePermit, Hw!LeaveQueue, Stops
                <5>3. CASE Spawn(r)
                    BY <2>1, <4>2, <5>3 DEF Spawn, Hw!Spawn, Stops
                <5>4. CASE LeaveWork(r)
                    BY <2>1, <4>2, <5>4 DEF LeaveWork, Forget, Hw!LeaveWork, Stops
                <5>5. CASE OpEnds(r)
                    <6>1. s # r
                        BY <5>1, <5>5 DEF OpEnds
                    <6> QED
                        BY <2>1, <4>2, <5>5, <6>1 DEF OpEnds, Forget, Hw!OpEnds, Stops
                <5>6. CASE Answer(r)
                    <6>1. s # r
                        BY <5>1, <5>6 DEF Answer, Hw!Answer
                    <6> QED
                        BY <2>1, <4>2, <5>6, <6>1 DEF Answer, Forget, Hw!Answer, Stops
                <5> QED
                    BY <3>4, <5>2, <5>3, <5>4, <5>5, <5>6
            <4> QED
                BY <3>3, <4>1, <4>2
        <3>5. CASE NoCore(r) \/ Find(r) \/ Read(r) \/ Peek(r)
            <4>1. UNCHANGED <<core, mishap>>
                BY <3>5 DEF NoCore, Find, Read, Peek
            <4>2. ASSUME NEW s \in Request, Stops(s) PROVE Stops(s)'
                BY <2>1, <3>5, <4>2 DEF NoCore, Find, Read, Peek, Runs, hwVars, Stops
            <4> QED
                BY <3>3, <4>1, <4>2
        <3>6. CASE Resume(r)
            <4>1. found[r] # "running" /\ UNCHANGED <<core, mishap, found>>
                BY <3>6 DEF Resume
            <4>2. at[r] # "erasing"
                BY <3>6 DEF Resume, Runs
            <4>3. ASSUME NEW s \in Request, Stops(s) PROVE Stops(s)'
                <5>1. s # r
                    BY <4>1, <4>2, <4>3 DEF Stops
                <5> QED
                    BY <2>1, <3>6, <4>3, <5>1 DEF Resume, Runs, hwVars, Stops
            <4> QED
                BY <3>3, <4>1, <4>3
        <3>7. CASE HaltTimesOut(r) \/ ResumeFails(r) \/ ResetFails(r)
            BY <3>7 DEF HaltTimesOut, ResumeFails, ResetFails
        <3>8. CASE Reset(r)
            BY <3>8 DEF Reset
        <3> QED
            BY <2>4, <3>1, <3>2, <3>4, <3>5, <3>6, <3>7, <3>8 DEF Step
    <2> QED
        BY <2>2, <2>3, <2>4 DEF Next
<1> QED
    BY <1>1, <1>2, Inductive, PTL DEF Spec, CoreIsLetRun
=============================================================================
