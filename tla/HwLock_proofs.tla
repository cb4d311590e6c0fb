--------------------------- MODULE HwLock_proofs ---------------------------
(***************************************************************************)
(* Proofs about HwLock, for any set of requests and any set of clients     *)
(* that may hang up.  IInv says where the permit, the holder string and    *)
(* each closure can be for each phase of a handler; every other safety     *)
(* property is read off it.                                                *)
(***************************************************************************)
EXTENDS HwLock, TLAPS

\* Handing the permit on leaves it with a waiter that stays, or with nobody
\* when there is none.
LEMMA PassOnToAWaiter ==
    ASSUME NEW L, PassOn(L)
    PROVE  \/ permit' \in Waiters \ L
           \/ permit' = NoRequest /\ Waiters \ L = {}
BY DEF PassOn

\* The invariant holds at the start: nobody has called yet.
LEMMA InitIInv == Init => IInv
BY NoRequestAssumption
   DEF Init, IInv, TypeOK, PermitMatchesPhase, HolderMatchesPhase, OpMatchesPhase,
       NoLostWakeup, Waiters, Phase, OpState

\* Every step of every handler, of the runtime and of a client preserves it.
LEMMA NextIInv == IInv /\ [Next]_vars => IInv'
<1> SUFFICES ASSUME IInv, [Next]_vars PROVE IInv'
    OBVIOUS
<1> USE NoRequestAssumption, MayLeaveAssumption
    DEF IInv, TypeOK, PermitMatchesPhase, HolderMatchesPhase, OpMatchesPhase,
        NoLostWakeup, Waiters, Phase, OpState
<1>1. ASSUME NEW r \in Request, Ask(r) PROVE IInv'
    <2>1. TypeOK'
        BY <1>1 DEF Ask
    <2>2. PermitMatchesPhase'
        BY <1>1 DEF Ask
    <2>3. HolderMatchesPhase'
        BY <1>1 DEF Ask
    <2>4. OpMatchesPhase'
        BY <1>1 DEF Ask
    <2>5. NoLostWakeup'
        BY <1>1 DEF Ask
    <2> QED
        BY <2>1, <2>2, <2>3, <2>4, <2>5
<1>2. ASSUME NEW r \in Request, Grant(r) PROVE IInv'
    <2>1. TypeOK'
        BY <1>2 DEF Grant
    <2>2. PermitMatchesPhase'
        BY <1>2 DEF Grant
    <2>3. HolderMatchesPhase'
        BY <1>2 DEF Grant
    <2>4. OpMatchesPhase'
        BY <1>2 DEF Grant
    <2>5. NoLostWakeup'
        BY <1>2 DEF Grant
    <2> QED
        BY <2>1, <2>2, <2>3, <2>4, <2>5
<1>3. ASSUME NEW r \in Request, Refuse(r) PROVE IInv'
    BY <1>3 DEF Refuse
<1>4. ASSUME NEW r \in Request, Bail(r) PROVE IInv'
    BY <1>4 DEF Bail
<1>5. ASSUME NEW r \in Request, Spawn(r) PROVE IInv'
    BY <1>5 DEF Spawn
<1>6. ASSUME NEW r \in Request, OpEnds(r) PROVE IInv'
    BY <1>6 DEF OpEnds
<1>7. ASSUME NEW r \in Request, Answer(r) PROVE IInv'
    BY <1>7 DEF Answer
<1>8. ASSUME NEW r \in Request, ReleasePermit(r) PROVE IInv'
    BY <1>8, PassOnToAWaiter DEF ReleasePermit
<1>9. ASSUME NEW r \in Request, LeaveQueue(r) PROVE IInv'
    BY <1>9, PassOnToAWaiter DEF LeaveQueue
<1>10. ASSUME NEW r \in Request, LeaveWork(r) PROVE IInv'
    BY <1>10 DEF LeaveWork
<1>11. CASE UNCHANGED vars
    BY <1>11 DEF vars
<1> QED
    BY <1>1, <1>2, <1>3, <1>4, <1>5, <1>6, <1>7, <1>8, <1>9, <1>10, <1>11
    DEF Next, Step

\* The lock, the holder string, the handlers and their closures always agree.
THEOREM Inductive == Spec => []IInv
BY InitIInv, NextIInv, PTL DEF Spec

\* A holder string never outlives the guard that set it, and never names
\* anyone but the permit's owner (HwGuard's promise).
THEOREM HolderIsOwner == Spec => []HolderNamesOwner
<1>1. IInv => HolderNamesOwner
    BY NoRequestAssumption
    DEF IInv, TypeOK, PermitMatchesPhase, HolderMatchesPhase, HolderNamesOwner
<1> QED
    BY <1>1, Inductive, PTL

\* Operations whose client stays never overlap, and only abandoned ones run
\* without the lock.
THEOREM Exclusion == Spec => [](AttendedOpsExclusive /\ UnlockedOpsAreAbandoned)
<1>1. IInv => AttendedOpsExclusive /\ UnlockedOpsAreAbandoned
    BY DEF IInv, TypeOK, PermitMatchesPhase, OpMatchesPhase, OpState,
           AttendedOpsExclusive, UnlockedOpsAreAbandoned
<1> QED
    BY <1>1, Inductive, PTL

\* Nobody waits for a lock that nobody holds.
THEOREM NoWakeupIsLost == Spec => []NoLostWakeup
<1>1. IInv => NoLostWakeup
    BY DEF IInv
<1> QED
    BY <1>1, Inductive, PTL

\* Where no client hangs up, hw_lock does what AppState's documentation says:
\* hardware operations run one at a time.
THEOREM SerializedWhenNobodyLeaves ==
    ASSUME MayLeave = {}
    PROVE  Spec => []HardwareSerialized
<1> DEFINE NobodyGone == gone = {}
<1>1. Init => NobodyGone
    BY DEF Init
<1>2. NobodyGone /\ [Next]_vars => NobodyGone'
    <2> SUFFICES ASSUME NobodyGone, [Next]_vars PROVE NobodyGone'
        OBVIOUS
    <2>1. CASE UNCHANGED vars
        BY <2>1 DEF vars
    <2>2. ASSUME NEW r \in Request, Step(r) PROVE NobodyGone'
        BY <2>2, MayLeave = {}
        DEF Step, Ask, Grant, Refuse, Bail, Spawn, OpEnds, Answer, ReleasePermit,
            LeaveQueue, LeaveWork
    <2> QED
        BY <2>1, <2>2 DEF Next
<1>3. IInv /\ NobodyGone => HardwareSerialized
    BY DEF IInv, TypeOK, PermitMatchesPhase, OpMatchesPhase, OpState, HardwareSerialized
<1> QED
    BY <1>1, <1>2, <1>3, Inductive, PTL DEF Spec
=============================================================================
