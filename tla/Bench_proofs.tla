---------------------------- MODULE Bench_proofs ----------------------------
(***************************************************************************)
(* Proofs about Bench, for any requests, routes and leases, and whichever  *)
(* clients hang up.  What they need of hw_lock is the invariant of module  *)
(* HwLock, whose proof is taken from HwLock_proofs; a restart is the one   *)
(* step that is not the lock's.                                            *)
(* And about Flashing: what one flash does, for any image, machine and     *)
(* target.                                                                 *)
(***************************************************************************)
EXTENDS Bench, FiniteSetTheorems, SequenceTheorems, WellFoundedInduction, TLAPS

Lock == INSTANCE HwLock_proofs

\* The invariant and the steps of the lock are the same under either name.
LEMMA SameLock ==
    /\ Hw!IInv <=> Lock!IInv
    /\ Hw!Init <=> Lock!Init
    /\ Hw!Next <=> Lock!Next
<1>1. Hw!IInv <=> Lock!IInv
    BY DEF Hw!IInv, Lock!IInv, Hw!TypeOK, Lock!TypeOK, Hw!Phase, Lock!Phase,
       Hw!OpState, Lock!OpState, Hw!PermitMatchesPhase, Lock!PermitMatchesPhase,
       Hw!HolderMatchesPhase, Lock!HolderMatchesPhase, Hw!OpMatchesPhase,
       Lock!OpMatchesPhase, Hw!NoLostWakeup, Lock!NoLostWakeup, Hw!Waiters, Lock!Waiters
<1>2. Hw!Init <=> Lock!Init
    BY DEF Hw!Init, Lock!Init
<1>3. ASSUME NEW r \in Request PROVE Hw!Step(r) <=> Lock!Step(r)
    BY DEF Hw!Step, Lock!Step, Hw!Ask, Lock!Ask, Hw!Grant, Lock!Grant, Hw!Refuse,
       Lock!Refuse, Hw!Bail, Lock!Bail, Hw!Spawn, Lock!Spawn, Hw!OpEnds, Lock!OpEnds,
       Hw!Answer, Lock!Answer, Hw!ReleasePermit, Lock!ReleasePermit, Hw!LeaveQueue,
       Lock!LeaveQueue, Hw!LeaveWork, Lock!LeaveWork, Hw!PassOn, Lock!PassOn,
       Hw!Waiters, Lock!Waiters
<1> QED
    BY <1>1, <1>2, <1>3 DEF Hw!Next, Lock!Next

\* A step of the bench is a step of hw_lock, leaves it alone, or starts Core.
LEMMA LockStep ==
    ASSUME [Next]_vars
    PROVE  Hw!Next \/ UNCHANGED hwVars \/ Restart
<1>1. CASE UNCHANGED vars
    BY <1>1 DEF vars
<1>2. ASSUME NEW t \in Token, TakeLease(t) PROVE UNCHANGED hwVars
    BY <1>2 DEF TakeLease
<1>3. CASE EndLease
    BY <1>3 DEF EndLease
<1>4. ASSUME NEW r \in Request, Step(r) PROVE Hw!Next \/ UNCHANGED hwVars
    <2>1. CASE Contend(r) \/ LeaveWork(r) \/ Depart(r) \/ Spawn(r) \/ Succeed(r) \/ Fail(r)
                  \/ Answer(r)
        BY <2>1 DEF Contend, LeaveWork, Depart, Spawn, Succeed, Fail, Answer, Hw!Next, Hw!Step
    <2>2. CASE \/ \E p \in Token \cup {NoToken} : Enter(r, p)
               \/ Abort(r) \/ StartWrite(r) \/ Land(r)
        BY <2>2 DEF Enter, Abort, StartWrite, Land
    <2> QED
        BY <1>4, <2>1, <2>2 DEF Step
<1> QED
    BY <1>1, <1>2, <1>3, <1>4 DEF Next

LEMMA LockInit == Init => Hw!IInv
BY Lock!InitIInv, SameLock, RequestAssumption DEF Init

LEMMA LockNext == Hw!IInv /\ [Next]_vars => Hw!IInv'
<1> SUFFICES ASSUME Hw!IInv, [Next]_vars PROVE Hw!IInv'
    OBVIOUS
<1>1. (Hw!IInv <=> Lock!IInv)'
    BY SameLock, PTL
<1>2. CASE Hw!Next \/ UNCHANGED hwVars
    <2>1. [Lock!Next]_(Lock!vars)
        BY <1>2, SameLock DEF hwVars, Lock!vars
    <2> QED
        BY <1>1, <2>1, Lock!NextIInv, SameLock, RequestAssumption
<1>3. CASE Restart
    BY <1>3, RequestAssumption
    DEF Restart, Hw!IInv, Hw!TypeOK, Hw!Phase, Hw!OpState, Hw!PermitMatchesPhase,
        Hw!HolderMatchesPhase, Hw!OpMatchesPhase, Hw!NoLostWakeup, Hw!Waiters
<1> QED
    BY <1>2, <1>3, LockStep

-----------------------------------------------------------------------------
(* Writers beside each other                                               *)

\* A handler about to spawn its closure owns the lock, and every closure that
\* runs is one that nobody awaits.
LEMMA OnlyOrphansRun ==
    ASSUME Hw!IInv, NEW r \in Request, phase[r] = "guarded",
           NEW s \in Request, op[s] # "none"
    PROVE  op[s] = "running" /\ s # r
BY DEF Hw!IInv, Hw!TypeOK, Hw!PermitMatchesPhase, Hw!OpMatchesPhase

\* Only a closure that starts brings two writers together, and it has them all
\* remember that.
LEMMA WritersMeetNext ==
    ASSUME IInv, Hw!IInv', [Next]_vars
    PROVE  WritersMeet'
<1> USE ImageAssumption DEF IInv
<1>1. CASE UNCHANGED <<op, beside>>
    BY <1>1 DEF WritersMeet
<1>2. ASSUME NEW r \in Request, Spawn(r) PROVE WritersMeet'
    <2>1. phase[r] = "guarded" /\ op' = [op EXCEPT ![r] = "running"] /\ op \in [Request -> Hw!OpState]
        BY <1>2 DEF Spawn, Hw!Spawn, Hw!IInv, Hw!TypeOK
    <2>2. ASSUME NEW s \in Writer, NEW t \in Writer, op'[s] # "none", op'[t] # "none", s # t
          PROVE  s \in beside'
        <3>1. CASE s # r /\ t # r
            <4>1. s \in beside
                BY <2>1, <2>2, <3>1 DEF WritersMeet
            <4> QED
                BY <1>2, <4>1 DEF Spawn
        <3>2. CASE s = r \/ t = r
            <4>1. r \in Writer /\ \A w \in {s, t} \ {r} : w \in Orphans
                BY <2>1, <2>2, <3>2, OnlyOrphansRun DEF Orphans
            <4>2. Orphans # {}
                BY <2>2, <4>1
            <4> QED
                BY <1>2, <4>1, <4>2 DEF Spawn
        <3> QED
            BY <3>1, <3>2
    <2> QED
        BY <2>2 DEF WritersMeet
<1>3. ASSUME NEW r \in Request, LeaveWork(r) \/ Succeed(r) \/ Fail(r) \/ Answer(r)
      PROVE  WritersMeet'
    <2>1. op \in [Request -> Hw!OpState]
        BY DEF Hw!IInv, Hw!TypeOK
    <2>2. \A s \in Request : op'[s] # "none" => op[s] # "none"
        BY <1>3, <2>1
        DEF LeaveWork, Succeed, Fail, Answer, Hw!LeaveWork, Hw!OpEnds, Hw!Answer
    <2>3. \A s \in Request : op'[s] # "none" /\ s \in beside => s \in beside'
        <3>1. CASE LeaveWork(r)
            BY <2>1, <3>1 DEF LeaveWork, Hw!LeaveWork
        <3>2. CASE Succeed(r) \/ Fail(r)
            BY <2>1, <3>2 DEF Succeed, Fail, Hw!OpEnds
        <3>3. CASE Answer(r)
            BY <2>1, <3>3 DEF Answer, Hw!Answer
        <3> QED
            BY <1>3, <3>1, <3>2, <3>3
    <2> QED
        BY <2>2, <2>3 DEF WritersMeet
<1>4. CASE Restart
    BY <1>4 DEF Restart, WritersMeet
<1>5. ASSUME NEW r \in Request, Step(r) PROVE WritersMeet'
    <2>1. CASE Contend(r) \/ Depart(r)
        BY <1>1, <2>1 DEF Contend, Depart, Hw!Ask, Hw!Grant, Hw!Bail, Hw!Refuse,
           Hw!ReleasePermit, Hw!LeaveQueue
    <2>2. CASE (\E p \in Token \cup {NoToken} : Enter(r, p)) \/ Abort(r)
        BY <1>1, <2>2 DEF Enter, Abort, hwVars
    <2>3. CASE StartWrite(r) \/ Land(r)
        BY <1>1, <2>3 DEF StartWrite, Land, hwVars
    <2> QED
        BY <1>2, <1>3, <1>5, <2>1, <2>2, <2>3 DEF Step
<1> QED
    BY <1>1, <1>4, <1>5 DEF Next, TakeLease, EndLease, vars, hwVars

LEMMA InitIInv == Init => IInv
<1> SUFFICES ASSUME Init PROVE IInv
    OBVIOUS
<1>1. Hw!IInv /\ Hw!TypeOK
    BY LockInit DEF Hw!IInv
<1>2. TypeOK
    BY <1>1 DEF Init, TypeOK
<1>3. ProgressMatchesOp /\ WritersMeet /\ BoardIsTheWriters /\ BootloadUnbinds
    BY ImageAssumption
    DEF Init, Hw!Init, ProgressMatchesOp, WritersMeet, BoardIsTheWriters, BootloadUnbinds,
        Writer
<1> QED
    BY <1>1, <1>2, <1>3 DEF IInv

\* Steps that neither begin nor end a closure, nor touch the DUT or its records.
LEMMA QuietNext ==
    ASSUME IInv, Hw!IInv', WritersMeet',
           UNCHANGED <<op, progress, row, beside, board, images, manifest>>
    PROVE  IInv'
BY DEF IInv, TypeOK, Hw!IInv, ProgressMatchesOp, BoardIsTheWriters, BootloadUnbinds

\* A client that hangs up leaves its closure as it is, or nothing.
LEMMA LeaveNext ==
    ASSUME IInv, Hw!IInv', WritersMeet', NEW r \in Request, LeaveWork(r)
    PROVE  IInv'
<1> USE ImageAssumption DEF IInv, LeaveWork, Hw!LeaveWork, gateVars, recordVars
<1>1. op[r] \in {"running", "ended"}
    BY DEF Hw!IInv, Hw!TypeOK, Hw!OpMatchesPhase, Hw!OpState
<1>2. TypeOK'
    BY DEF TypeOK, Hw!IInv
<1>3. ProgressMatchesOp'
    BY <1>1 DEF ProgressMatchesOp, TypeOK, Hw!TypeOK
<1>4. BoardIsTheWriters' /\ BootloadUnbinds'
    BY <1>1 DEF BoardIsTheWriters, BootloadUnbinds, TypeOK, Writer
<1> QED
    BY <1>2, <1>3, <1>4

\* A closure starts with nothing written.
LEMMA SpawnNext ==
    ASSUME IInv, Hw!IInv', WritersMeet', NEW r \in Request, Spawn(r)
    PROVE  IInv'
<1> USE ImageAssumption DEF IInv, Spawn, Hw!Spawn, gateVars, recordVars
<1>1. op[r] = "none" /\ progress[r] = "todo"
    BY DEF Hw!IInv, Hw!TypeOK, Hw!OpMatchesPhase, ProgressMatchesOp
<1>2. TypeOK'
    <2>1. beside' \subseteq Writer
        BY DEF TypeOK, Orphans
    <2>2. Hw!TypeOK'
        BY DEF Hw!IInv
    <2>3. row' \in [Request -> BOOLEAN]
        BY DEF TypeOK
    <2>4. UNCHANGED <<progress, images, manifest>>
        OBVIOUS
    <2> QED
        BY <2>1, <2>2, <2>3, <2>4 DEF TypeOK
<1>3. ProgressMatchesOp'
    BY <1>1 DEF ProgressMatchesOp, TypeOK, Hw!TypeOK
<1>4. BoardIsTheWriters'
    BY DEF BoardIsTheWriters
<1>5. BootloadUnbinds'
    BY <1>1 DEF BootloadUnbinds, TypeOK, Writer
<1> QED
    BY <1>2, <1>3, <1>4, <1>5

\* A write takes the image off the DUT, and nobody else's record speaks of it
\* any more: no other writer has one to make.
LEMMA StartWriteNext ==
    ASSUME IInv, Hw!IInv', WritersMeet', NEW r \in Request, StartWrite(r)
    PROVE  IInv'
<1> USE ImageAssumption DEF IInv, StartWrite, hwVars, gateVars
<1>1. r \in Writer /\ op[r] = "running" /\ progress[r] = "todo"
    OBVIOUS
<1>2. TypeOK'
    BY DEF TypeOK, Hw!IInv
<1>3. ProgressMatchesOp'
    BY <1>1 DEF ProgressMatchesOp, TypeOK, Hw!TypeOK
<1>4. \A s \in Writer \ beside : progress'[s] \notin {"landed", "ok"}
    BY <1>1 DEF WritersMeet, ProgressMatchesOp, TypeOK
<1>5. BootloadUnbinds'
    BY DEF BootloadUnbinds, TypeOK, Writer
<1> QED
    BY <1>2, <1>3, <1>4, <1>5 DEF BoardIsTheWriters

\* The image lands.
LEMMA LandNext ==
    ASSUME IInv, Hw!IInv', WritersMeet', NEW r \in Request, Land(r)
    PROVE  IInv'
<1> USE ImageAssumption DEF IInv, Land, hwVars, gateVars
<1>1. r \in Writer /\ op[r] = "running"
    BY DEF ProgressMatchesOp
<1>2. TypeOK'
    BY DEF TypeOK, Hw!IInv
<1>3. ProgressMatchesOp'
    BY <1>1 DEF ProgressMatchesOp, TypeOK, Hw!TypeOK
<1>4. \A s \in Writer \ beside : progress'[s] \in {"landed", "ok"} => s = r
    BY <1>1 DEF WritersMeet, ProgressMatchesOp, TypeOK
<1>5. BootloadUnbinds'
    BY DEF BootloadUnbinds, TypeOK, Writer
<1> QED
    BY <1>2, <1>3, <1>4, <1>5 DEF BoardIsTheWriters

\* A closure ends: what it wrote stays written.
LEMMA EndNext ==
    ASSUME IInv, Hw!IInv', WritersMeet', NEW r \in Request, Succeed(r) \/ Fail(r)
    PROVE  IInv'
<1> USE ImageAssumption DEF IInv, Succeed, Fail, Hw!OpEnds, gateVars, recordVars
<1>1. op[r] = "running"
    OBVIOUS
<1>2. TypeOK'
    <2>1. progress' \in [Request -> {"todo", "writing", "landed", "ok", "failed"}]
        BY DEF TypeOK
    <2>2. images' \in [ImageKey -> Writer \cup {NoRequest}]
        BY DEF TypeOK, ImageKey, Writer
    <2>3. UNCHANGED <<row, manifest>>
        OBVIOUS
    <2> QED
        BY <2>1, <2>2, <2>3 DEF TypeOK, Hw!IInv
<1>3. ProgressMatchesOp'
    BY <1>1 DEF ProgressMatchesOp, TypeOK, Hw!TypeOK
<1>4. BoardIsTheWriters'
    BY <1>1 DEF BoardIsTheWriters, TypeOK
<1>5. BootloadUnbinds'
    BY DEF BootloadUnbinds, TypeOK, Writer
<1> QED
    BY <1>2, <1>3, <1>4, <1>5

\* A handler answers: a manifest that is bound now was not written over, for
\* no bootload is under way.
LEMMA AnswerNext ==
    ASSUME IInv, Hw!IInv', WritersMeet', NEW r \in Request, Answer(r)
    PROVE  IInv'
<1> USE ImageAssumption DEF IInv, Answer, Hw!Answer, gateVars
<1>1. op[r] = "ended"
    OBVIOUS
<1>2. TypeOK'
    <2>1. progress' \in [Request -> {"todo", "writing", "landed", "ok", "failed"}]
        BY DEF TypeOK
    <2>2. images' \in [ImageKey -> Writer \cup {NoRequest}]
        BY DEF TypeOK, ImageKey, Writer
    <2>3. manifest' \in Flash \cup {NoRequest}
        BY DEF TypeOK
    <2> QED
        BY <2>1, <2>2, <2>3 DEF TypeOK, Hw!IInv
<1>3. ProgressMatchesOp'
    BY <1>1 DEF ProgressMatchesOp, TypeOK, Hw!TypeOK
<1>4. BoardIsTheWriters'
    BY DEF BoardIsTheWriters, TypeOK
<1>5. BootloadUnbinds'
    <2>1. CASE r \in Flash
        <3>1. \A b \in Bootload : progress'[b] = "writing" => b \in beside'
            BY <1>1, <2>1 DEF WritersMeet, ProgressMatchesOp, TypeOK, Hw!IInv, Hw!TypeOK, Writer
        <3> QED
            BY <3>1 DEF BootloadUnbinds
    <2>2. CASE r \notin Flash
        BY <2>2 DEF BootloadUnbinds, TypeOK, Writer
    <2> QED
        BY <2>1, <2>2
<1> QED
    BY <1>2, <1>3, <1>4, <1>5

\* Core starts with nothing under way and no records.
LEMMA RestartNext ==
    ASSUME IInv, Hw!IInv', WritersMeet', Restart
    PROVE  IInv'
BY ImageAssumption DEF IInv, Restart, TypeOK, Hw!IInv, ProgressMatchesOp, BoardIsTheWriters,
   BootloadUnbinds, Writer

LEMMA NextIInv ==
    ASSUME IInv, [Next]_vars
    PROVE  IInv'
<1>1. Hw!IInv' /\ WritersMeet'
    BY LockNext, WritersMeetNext DEF IInv
<1>2. ASSUME NEW t \in Token, TakeLease(t) PROVE IInv'
    BY <1>1, <1>2, QuietNext DEF TakeLease, hwVars, recordVars
<1>3. CASE EndLease
    BY <1>1, <1>3, QuietNext DEF EndLease, hwVars, recordVars
<1>4. ASSUME NEW r \in Request, Step(r) PROVE IInv'
    <2>1. ASSUME NEW p, Enter(r, p) PROVE IInv'
        BY <1>1, <2>1, QuietNext DEF Enter, hwVars, recordVars
    <2>2. CASE Abort(r)
        BY <1>1, <2>2, QuietNext DEF Abort, hwVars, recordVars
    <2>3. CASE Contend(r)
        BY <1>1, <2>3, QuietNext DEF Contend, Hw!Ask, Hw!Grant, Hw!Bail, recordVars
    <2>4. CASE Depart(r)
        BY <1>1, <2>4, QuietNext
        DEF Depart, Hw!Refuse, Hw!ReleasePermit, Hw!LeaveQueue, recordVars
    <2> QED
        BY <1>1, <1>4, <2>1, <2>2, <2>3, <2>4, LeaveNext, SpawnNext, StartWriteNext, LandNext,
           EndNext, AnswerNext
        DEF Step
<1>5. CASE Restart
    BY <1>1, <1>5, RestartNext
<1>6. CASE UNCHANGED vars
    BY <1>1, <1>6, QuietNext DEF vars, hwVars, recordVars
<1> QED
    BY <1>2, <1>3, <1>4, <1>5, <1>6 DEF Next

-----------------------------------------------------------------------------

\* However restarts, leases, enrollments, hang-ups and failures come, hw_lock's
\* invariant holds, and each writer remembers that another's closure ran beside
\* its own; one that none did finds its image on the DUT until it has answered,
\* and a bootload among them writes an enrolled DUT with no manifest bound.
THEOREM Inductive == Spec => []IInv
<1>1. IInv /\ [Next]_vars => IInv'
    BY NextIInv
<1> QED
    BY <1>1, InitIInv, PTL DEF Spec

\* The image log and the manifest slot say what is on the DUT whenever they are
\* written, and no image is bootloaded under the manifest of another, but for the
\* writers whose closure ran beside an abandoned one's.
THEOREM RecordsAreTrue == Spec => RecordsAreTrueWhenMade
<1> DEFINE A ==
        /\ \A k \in ImageKey :
            images'[k] \notin beside \cup {images[k], NoRequest} => images'[k] = board
        /\ manifest' \notin beside \cup {manifest, NoRequest} => manifest' = board
        /\ \A b \in Bootload \ beside :
            board' = b /\ board # b /\ row[b] => manifest' = NoRequest
<1>1. IInv /\ [Next]_vars => A
    <2> SUFFICES ASSUME IInv, [Next]_vars PROVE A
        OBVIOUS
    <2> USE ImageAssumption
    <2>1. CASE UNCHANGED recordVars
        BY <2>1 DEF recordVars
    <2>2. ASSUME NEW r \in Request, StartWrite(r) PROVE A
        BY <2>2 DEF StartWrite, Writer
    <2>3. ASSUME NEW r \in Request, Land(r) PROVE A
        BY <2>3 DEF Land, IInv, BootloadUnbinds
    <2>4. ASSUME NEW r \in Request, Succeed(r) PROVE A
        <3>1. r \in Bootload \ beside => board = r
            BY <2>4 DEF Succeed, IInv, BoardIsTheWriters, Writer
        <3>2. UNCHANGED <<board, manifest>>
            BY <2>4 DEF Succeed
        <3>3. \A k \in ImageKey : images'[k] \in beside \cup {images[k], board}
            BY <2>4, <3>1 DEF Succeed, IInv, TypeOK
        <3> QED
            BY <3>2, <3>3
    <2>5. ASSUME NEW r \in Request, Answer(r) PROVE A
        <3>1. r \in Flash \ beside /\ progress[r] = "ok" => board = r
            BY DEF IInv, BoardIsTheWriters, Writer
        <3>2. UNCHANGED board
            BY <2>5 DEF Answer
        <3>3. \A k \in ImageKey : images'[k] \in beside \cup {images[k], board}
            BY <2>5, <3>1 DEF Answer, IInv, TypeOK
        <3>4. manifest' \in beside \cup {manifest, NoRequest, board}
            BY <2>5, <3>1 DEF Answer
        <3> QED
            BY <3>2, <3>3, <3>4
    <2>6. CASE Restart
        BY <2>6 DEF Restart
    <2> QED
        BY <2>1, <2>2, <2>3, <2>4, <2>5, <2>6
        DEF Next, vars, Step, TakeLease, EndLease, Enter, Abort, Contend, LeaveWork, Depart,
            Spawn, Fail, recordVars
<1>2. IInv /\ [Next]_vars => [A]_vars
    BY <1>1
<1> QED
    BY <1>2, Inductive, PTL DEF Spec, RecordsAreTrueWhenMade

-----------------------------------------------------------------------------
(* A flash's steps                                                         *)

\* A step in front of others.
LEMMA StepFirst ==
    ASSUME NEW T, NEW s \in Seq(T), NEW a \in T
    PROVE  /\ <<a>> \o s \in Seq(T) /\ Len(<<a>> \o s) = Len(s) + 1 /\ Len(s) \in Nat
           /\ (<<a>> \o s)[1] = a
           /\ \A i \in 1 .. Len(s) : (<<a>> \o s)[i + 1] = s[i]
<1>1. <<a>> \in Seq(T) /\ Len(<<a>>) = 1 /\ <<a>>[1] = a
    OBVIOUS
<1> DEFINE b == <<a>>
           t == b \o s
<1> HIDE DEF b
<1>2. /\ t \in Seq(T) /\ Len(t) = Len(b) + Len(s) /\ Len(s) \in Nat
      /\ \A i \in 1 .. Len(b) + Len(s) : t[i] = IF i <= Len(b) THEN b[i] ELSE s[i - Len(b)]
    BY <1>1, ConcatProperties, LenProperties DEF b
<1>3. Len(b) = 1 /\ b[1] = a
    BY <1>1 DEF b
<1>4. t[1] = a
    BY <1>2, <1>3
<1>5. ASSUME NEW i \in 1 .. Len(s) PROVE t[i + 1] = s[i]
    <2>1. i + 1 \in 1 .. Len(b) + Len(s) /\ ~(i + 1 <= Len(b)) /\ i + 1 - Len(b) = i
        BY <1>2, <1>3
    <2> QED
        BY <1>2, <2>1
<1>6. Len(t) = Len(s) + 1
    BY <1>2, <1>3
<1> QED
    BY <1>2, <1>4, <1>5, <1>6 DEF b

\* Steps without a refusal are all taken.
LEMMA NothingRefused ==
    ASSUME NEW s, \A i \in DOMAIN s : s[i].do # "refuse"
    PROVE  UpToRefusal(s) = s
BY DEF UpToRefusal

\* The first refusal is the last step, and the ones before it are taken.
LEMMA RefusedAt ==
    ASSUME NEW T, NEW s \in Seq(T), NEW k \in 1 .. Len(s), s[k].do = "refuse",
           \A j \in 1 .. k - 1 : s[j].do # "refuse"
    PROVE  /\ DOMAIN UpToRefusal(s) = 1 .. k
           /\ \A j \in 1 .. k : UpToRefusal(s)[j] = s[j]
<1> DEFINE refusals == {i \in DOMAIN s : s[i].do = "refuse"}
           first == CHOOSE i \in refusals : \A j \in refusals : i <= j
<1>1. DOMAIN s = 1 .. Len(s) /\ Len(s) \in Nat
    BY LenProperties
<1>2. k \in refusals
    BY <1>1
<1>3. ASSUME NEW j \in refusals PROVE k <= j
    BY <1>1
<1>4. first \in refusals /\ \A j \in refusals : first <= j
    BY <1>2, <1>3
<1>5. first = k
    BY <1>1, <1>2, <1>3, <1>4
<1>6. UpToRefusal(s) = SubSeq(s, 1, k)
    BY <1>2, <1>5 DEF UpToRefusal
<1>7. SubSeq(s, 1, k) = [i \in 1 .. k |-> s[i]]
    BY <1>1, SubSeqProperties
<1> QED
    BY <1>6, <1>7

\* A flash that is refused before it does more than open and close a probe.
Untouched(u) ==
    /\ Doing(u, "refuse") # {}
    /\ Doing(u, "erase") = {} /\ Doing(u, "write") = {} /\ Doing(u, "spawn") = {}
    /\ ErasedBy(u) = {}

LEMMA RefusedInTime ==
    ASSUME NEW T, NEW s \in Seq(T), NEW k \in 1 .. Len(s), s[k].do = "refuse",
           \A j \in 1 .. k - 1 : s[j].do \in {"gate", "open", "close"}
    PROVE  Untouched(UpToRefusal(s))
<1> DEFINE u == UpToRefusal(s)
<1>1. DOMAIN u = 1 .. k /\ \A j \in 1 .. k : u[j] = s[j]
    BY RefusedAt
<1> HIDE DEF u
<1>2. \A j \in 1 .. k : j = k \/ j \in 1 .. k - 1
    BY LenProperties
<1>3. k \in Doing(u, "refuse")
    BY <1>1 DEF Doing
<1>4. Doing(u, "erase") = {} /\ Doing(u, "write") = {} /\ Doing(u, "spawn") = {}
    BY <1>1, <1>2 DEF Doing
<1>5. ErasedBy(u) = {}
    BY <1>4 DEF ErasedBy
<1> QED
    BY <1>3, <1>4, <1>5 DEF Untouched, u

\* The erases of a finite set of regions, in some order.
LEMMA EraseIs ==
    ASSUME NEW regions, IsFiniteSet(regions)
    PROVE  LET steps == {Do("erase", Addresses(r)) : r \in regions}
           IN  Erase(regions) \in Seq(steps) /\ {Erase(regions)[i] : i \in DOMAIN Erase(regions)} = steps
<1> DEFINE steps == {Do("erase", Addresses(r)) : r \in regions}
           g == [r \in regions |-> Do("erase", Addresses(r))]
           n == Cardinality(steps)
<1>1. g \in Surjection(regions, steps)
    BY DEF Surjection
<1> HIDE DEF g
<1>2. IsFiniteSet(steps)
    BY <1>1, FS_Surjection
<1> HIDE DEF steps
<1>3. n \in Nat /\ ExistsBijection(1 .. n, steps)
    BY <1>2, FS_CardinalityType
<1>4. \E f \in [1 .. n -> steps] : IsInjective(f)
    BY <1>3 DEF ExistsBijection, Bijection, Injection
<1> DEFINE q == SetToSeq(steps)
<1>5. q \in [1 .. n -> steps] /\ IsInjective(q)
    BY <1>4 DEF SetToSeq
<1> HIDE DEF q
<1>6. q \in Injection(1 .. n, steps)
    BY <1>5 DEF Injection
<1>7. IsFiniteSet(1 .. n) /\ Cardinality(1 .. n) = n
    BY <1>3, FS_Interval
<1> HIDE DEF n
<1>8. q \in Surjection(1 .. n, steps)
    BY <1>2, <1>6, <1>7, FS_Injection DEF n
<1>9. {q[i] : i \in DOMAIN q} = steps
    BY <1>8 DEF Surjection
<1>10. q \in Seq(steps)
    BY <1>3, <1>5
<1> QED
    BY <1>9, <1>10 DEF Erase, q, steps

-----------------------------------------------------------------------------
(* Flashes with probe-rs                                                   *)

\* Steps that start and end a flash with erases between.
LEMMA ErasesBetween ==
    ASSUME NEW T, NEW a \in T, NEW b \in T, NEW c \in T, NEW d \in T, NEW e \in Seq(T),
           a.do = "gate", b.do = "open", c.do = "write", d.do = "reset",
           \A i \in 1 .. Len(e) : e[i].do = "erase"
    PROVE  LET u == UpToRefusal(<<a>> \o (<<b>> \o (e \o <<c, d>>)))
           IN  /\ Doing(u, "refuse") = {}
               /\ ErasedBy(u) = UNION {e[i].arg : i \in DOMAIN e}
               /\ \A i \in Doing(u, "erase"), j \in Doing(u, "write") : i < j
<1> DEFINE n == Len(e)
           last == <<c, d>>
           p == e \o last
           q == <<b>> \o p
           s == <<a>> \o q
<1>1. last \in Seq(T) /\ Len(last) = 2 /\ last[1] = c /\ last[2] = d
    OBVIOUS
<1>2. n \in Nat /\ DOMAIN e = 1 .. n
    BY LenProperties
<1> HIDE DEF last
<1>3. /\ p \in Seq(T) /\ Len(p) = n + Len(last)
      /\ \A i \in 1 .. n + Len(last) : p[i] = IF i <= n THEN e[i] ELSE last[i - n]
    <2>1. last \in Seq(T) /\ e \in Seq(T)
        BY <1>1
    <2> QED
        BY <2>1, ConcatProperties, SMTT(20)
<1> HIDE DEF p, n
<1>4. Len(p) = n + 2 /\ p[n + 1] = c /\ p[n + 2] = d /\ \A i \in 1 .. n : p[i] = e[i]
    <2>1. n + 1 \in 1 .. n + Len(last) /\ ~(n + 1 <= n) /\ n + 1 - n = 1
        BY <1>1, <1>2
    <2>2. n + 2 \in 1 .. n + Len(last) /\ ~(n + 2 <= n) /\ n + 2 - n = 2
        BY <1>1, <1>2
    <2>3. ASSUME NEW i \in 1 .. n PROVE p[i] = e[i]
        BY <1>1, <1>2, <1>3
    <2>4. p[n + 1] = last[1] /\ p[n + 2] = last[2]
        <3>1. ASSUME NEW k \in 1 .. n + Len(last), ~(k <= n) PROVE p[k] = last[k - n]
            BY <1>3, <3>1, Zenon
        <3>2. p[n + 1] = last[(n + 1) - n] /\ p[n + 2] = last[(n + 2) - n]
            BY <2>1, <2>2, <3>1
        <3>3. (n + 1) - n = 1 /\ (n + 2) - n = 2
            BY <1>2
        <3>4. last[(n + 1) - n] = last[1] /\ last[(n + 2) - n] = last[2]
            BY <3>3, Zenon
        <3> QED
            BY <3>2, <3>4, Zenon
    <2>5. Len(p) = n + 2
        BY <1>1, <1>3
    <2> QED
        BY <1>1, <2>3, <2>4, <2>5
<1>5. /\ q \in Seq(T) /\ Len(q) = Len(p) + 1 /\ q[1] = b
      /\ \A i \in 1 .. Len(p) : q[i + 1] = p[i]
    BY <1>3, StepFirst
<1> HIDE DEF q
<1>6. /\ s \in Seq(T) /\ Len(s) = Len(q) + 1 /\ s[1] = a
      /\ \A i \in 1 .. Len(q) : s[i + 1] = q[i]
    BY <1>5, StepFirst
<1> HIDE DEF s
<1>7. DOMAIN s = 1 .. n + 4
    BY <1>2, <1>4, <1>5, <1>6, LenProperties
<1>8. s[2] = b /\ s[n + 3] = c /\ s[n + 4] = d
    <2>1. s[1 + 1] = q[1]
        BY <1>2, <1>4, <1>5, <1>6
    <2>2. ASSUME NEW k \in {n + 1, n + 2} PROVE s[k + 2] = p[k]
        <3>1. k \in 1 .. Len(p) /\ k + 1 \in 1 .. Len(q) /\ k + 2 = (k + 1) + 1
            BY <1>2, <1>4, <1>5
        <3>2. q[k + 1] = p[k] /\ s[(k + 1) + 1] = q[k + 1]
            BY <1>5, <1>6, <3>1
        <3> QED
            BY <3>1, <3>2
    <2>3. n + 3 = (n + 1) + 2 /\ n + 4 = (n + 2) + 2 /\ 1 + 1 = 2
        BY <1>2
    <2>4. s[(n + 1) + 2] = p[n + 1] /\ s[(n + 2) + 2] = p[n + 2]
        BY <2>2
    <2> QED
        BY <1>4, <1>5, <2>1, <2>3, <2>4
<1>9. ASSUME NEW i \in 1 .. n PROVE s[i + 2] = e[i] /\ s[i + 2].do = "erase"
    <2>1. i \in 1 .. Len(p) /\ i + 1 \in 1 .. Len(q) /\ i + 2 = (i + 1) + 1
        BY <1>2, <1>4, <1>5
    <2>2. q[i + 1] = p[i] /\ s[(i + 1) + 1] = q[i + 1] /\ p[i] = e[i]
        BY <1>4, <1>5, <1>6, <2>1
    <2> QED
        BY <2>1, <2>2 DEF n
<1>10. ASSUME NEW i \in 1 .. n + 4
       PROVE  \/ i = 1 /\ s[i].do = "gate"
              \/ i = 2 /\ s[i].do = "open"
              \/ i - 2 \in 1 .. n /\ s[i] = e[i - 2] /\ s[i].do = "erase"
              \/ i = n + 3 /\ s[i].do = "write"
              \/ i = n + 4 /\ s[i].do = "reset"
    <2>1. i = 1 \/ i = 2 \/ i - 2 \in 1 .. n \/ i = n + 3 \/ i = n + 4
        BY <1>2
    <2>2. CASE i - 2 \in 1 .. n
        <3>1. s[(i - 2) + 2] = e[i - 2] /\ s[(i - 2) + 2].do = "erase"
            BY <1>9, <2>2
        <3>2. (i - 2) + 2 = i
            BY <1>2
        <3> QED
            BY <2>2, <3>1, <3>2
    <2> QED
        BY <1>6, <1>8, <2>1, <2>2
<1>11. UpToRefusal(s) = s
    BY <1>7, <1>10, NothingRefused
<1>12. Doing(s, "refuse") = {}
    BY <1>7, <1>10 DEF Doing
<1>13. Doing(s, "erase") = {i + 2 : i \in 1 .. n}
    <2>1. ASSUME NEW i \in Doing(s, "erase") PROVE i \in {k + 2 : k \in 1 .. n}
        <3>1. i \in 1 .. n + 4 /\ i - 2 \in 1 .. n /\ i = (i - 2) + 2
            BY <1>2, <1>7, <1>10, <2>1 DEF Doing
        <3> QED
            BY <3>1
    <2>2. ASSUME NEW k \in 1 .. n PROVE k + 2 \in Doing(s, "erase")
        <3>1. k + 2 \in DOMAIN s
            BY <1>2, <1>7
        <3> QED
            BY <1>9, <3>1 DEF Doing
    <2> QED
        BY <2>1, <2>2
<1>14. ErasedBy(s) = UNION {e[i].arg : i \in DOMAIN e}
    <2>1. {s[k].arg : k \in Doing(s, "erase")} = {e[i].arg : i \in 1 .. n}
        <3>1. ASSUME NEW k \in Doing(s, "erase") PROVE s[k].arg \in {e[i].arg : i \in 1 .. n}
            BY <1>9, <1>13
        <3>2. ASSUME NEW i \in 1 .. n PROVE e[i].arg \in {s[k].arg : k \in Doing(s, "erase")}
            BY <1>9, <1>13
        <3> QED
            BY <3>1, <3>2
    <2> QED
        BY <1>2, <2>1 DEF ErasedBy
<1>15. ASSUME NEW i \in Doing(s, "erase"), NEW j \in Doing(s, "write") PROVE i < j
    <2>1. i - 2 \in 1 .. n /\ i \in Int
        BY <1>2, <1>13
    <2>2. j = n + 3
        BY <1>7, <1>10 DEF Doing
    <2> QED
        BY <1>2, <2>1, <2>2
<1> QED
    BY <1>11, <1>12, <1>14, <1>15 DEF s, q, p, last

\* A flash with probe-rs of any target whose regions are finitely many.
LEMMA PlansAreWhole ==
    ASSUME NEW f, NEW target, IsFiniteSet(target.regions)
    PROVE  ErasesWhatItMay(f, target)
<1> DEFINE steps == FlashOf(f, "probe-rs", {"mine"}, {"mine"}, target)
           may == UNION {Addresses(r) : r \in Erasable(target.regions)}
           probe == ResolveProbe({"mine"}, f.named)
           gate == Do("gate", probe)
           opened == Do("open", probe)
           refuse == Do("refuse", {})
           write == Do("write", {})
           reset == Do("reset", {})
           kept == Erasable(target.regions)
           erases == {Do("erase", Addresses(r)) : r \in kept}
           T == {gate, opened, refuse, write, reset} \cup erases
           end == <<write, reset>>
<1>1. /\ gate.do = "gate" /\ opened.do = "open" /\ refuse.do = "refuse"
      /\ write.do = "write" /\ reset.do = "reset" /\ gate.arg = probe /\ opened.arg = probe
    BY DEF Do
<1>2. {gate, opened, refuse, write, reset} \subseteq T /\ erases \subseteq T
    OBVIOUS
<1> HIDE DEF probe, T
<1>3. /\ <<refuse>> \in Seq(T) /\ Len(<<refuse>>) = 1 /\ <<refuse>>[1] = refuse
      /\ end \in Seq(T) /\ <<>> \in Seq(T)
    BY <1>2
<1> HIDE DEF gate, opened, refuse, write, reset, end
<1>4. steps = UpToRefusal(IF probe = Refused THEN RefuseIt
                          ELSE <<gate>> \o
                              (IF Parses(f.format)
                               THEN IF probe = Refused THEN RefuseIt
                                    ELSE <<opened>> \o WithProbeRs(f, target)
                               ELSE RefuseIt))
    <2>1. "probe-rs" # Refused /\ "probe-rs" \notin Tool
        BY DEF Refused, Tool
    <2> QED
        BY <1>1, <2>1 DEF FlashOf, Then, gate, opened, probe
<1>5. RefuseIt = <<refuse>>
    BY DEF RefuseIt, refuse
<1> HIDE DEF steps
<1>6. Untouched(steps) => ErasesWhatItMay(f, target)
    BY DEF Untouched, ErasesWhatItMay, steps
<1>7. CASE probe = Refused
    <2>1. Untouched(UpToRefusal(<<refuse>>))
        <3> DEFINE s == <<refuse>>
        <3>1. s \in Seq(T) /\ 1 \in 1 .. Len(s) /\ s[1].do = "refuse" /\ 1 .. 1 - 1 = {}
            BY <1>1, <1>3
        <3> HIDE DEF s
        <3> QED
            BY <3>1, RefusedInTime DEF s
    <2> QED
        BY <1>4, <1>5, <1>6, <1>7, <2>1
<1>8. CASE probe # Refused /\ ~Parses(f.format)
    <2> DEFINE s == <<gate>> \o <<refuse>>
    <2>1. s \in Seq(T) /\ Len(s) = 2 /\ s[1] = gate /\ s[2] = refuse
        BY <1>2, <1>3, StepFirst
    <2> HIDE DEF s
    <2>2. 2 \in 1 .. Len(s) /\ s[2].do = "refuse" /\ \A j \in 1 .. 2 - 1 : s[j].do \in {"gate", "open", "close"}
        BY <1>1, <2>1
    <2>3. Untouched(UpToRefusal(s))
        BY <2>1, <2>2, RefusedInTime
    <2> QED
        BY <1>4, <1>5, <1>6, <1>8, <2>3 DEF s
<1>9. CASE probe # Refused /\ Parses(f.format)
    <2>1. steps = UpToRefusal(<<gate>> \o (<<opened>> \o WithProbeRs(f, target)))
        BY <1>4, <1>9
    <2>2. WithProbeRs(f, target) =
            (IF f.erase THEN EraseAll(target.regions, target.algorithms) ELSE <<>>) \o end
        BY DEF WithProbeRs, end, write, reset
    <2>3. ASSUME NEW e \in Seq(T), \A i \in 1 .. Len(e) : e[i].do = "erase",
                 WithProbeRs(f, target) = e \o end,
                 UNION {e[i].arg : i \in DOMAIN e} = IF f.erase THEN may ELSE {}
          PROVE  ErasesWhatItMay(f, target)
        <3>1. /\ Doing(steps, "refuse") = {}
              /\ ErasedBy(steps) = UNION {e[i].arg : i \in DOMAIN e}
              /\ \A i \in Doing(steps, "erase"), j \in Doing(steps, "write") : i < j
            <4>1. steps = UpToRefusal(<<gate>> \o (<<opened>> \o (e \o <<write, reset>>)))
                BY <2>1, <2>3 DEF end
            <4>2. {gate, opened, write, reset} \subseteq T
                BY <1>2
            <4> QED
                <5>1. gate \in T /\ opened \in T /\ write \in T /\ reset \in T
                    BY <4>2
                <5> DEFINE u == UpToRefusal(<<gate>> \o (<<opened>> \o (e \o <<write, reset>>)))
                <5>2. /\ Doing(u, "refuse") = {}
                      /\ ErasedBy(u) = UNION {e[i].arg : i \in DOMAIN e}
                      /\ \A i \in Doing(u, "erase"), j \in Doing(u, "write") : i < j
                    BY <1>1, <2>3, <5>1, ErasesBetween, ZenonT(20)
                <5> HIDE DEF u
                <5> QED
                    BY <4>1, <5>2 DEF u
        <3> QED
            BY <2>3, <3>1 DEF ErasesWhatItMay, steps
    <2>4. CASE ~f.erase
        <3>1. WithProbeRs(f, target) = <<>> \o end
            BY <2>2, <2>4
        <3>2. Len(<<>>) = 0 /\ DOMAIN <<>> = {} /\ 1 .. 0 = {}
            OBVIOUS
        <3>3. UNION {<<>>[i].arg : i \in DOMAIN <<>>} = {}
            BY <3>2
        <3> QED
            BY <1>3, <2>3, <2>4, <3>1, <3>2, <3>3
    <2>5. CASE f.erase /\ EraseAll(target.regions, target.algorithms) = Erase(kept)
        <3> DEFINE e == Erase(kept)
        <3>1. IsFiniteSet(kept)
            BY FS_Subset DEF Erasable
        <3>2. e \in Seq(erases) /\ {e[i] : i \in DOMAIN e} = erases
            BY <3>1, EraseIs
        <3> HIDE DEF e
        <3>3. e \in Seq(T) /\ DOMAIN e = 1 .. Len(e)
            BY <1>2, <3>2, SeqMonotonic, LenProperties
        <3>4. ASSUME NEW i \in 1 .. Len(e) PROVE e[i].do = "erase"
            <4>1. e[i] \in erases
                BY <3>2, <3>3
            <4> QED
                BY <4>1 DEF Do
        <3>5. UNION {e[i].arg : i \in DOMAIN e} = may
            <4>1. {e[i].arg : i \in DOMAIN e} = {x.arg : x \in erases}
                BY <3>2
            <4>2. {x.arg : x \in erases} = {Addresses(r) : r \in kept}
                <5>1. \A r \in kept : Do("erase", Addresses(r)).arg = Addresses(r)
                    BY DEF Do
                <5> QED
                    BY <5>1
            <4> QED
                BY <4>1, <4>2
        <3>6. WithProbeRs(f, target) = e \o end
            BY <2>2, <2>5 DEF e
        <3> QED
            BY <2>3, <2>5, <3>3, <3>4, <3>5, <3>6
    <2>6. CASE f.erase /\ EraseAll(target.regions, target.algorithms) = RefuseIt
        <3> DEFINE p == <<refuse>> \o end
                   q == <<opened>> \o p
                   s == <<gate>> \o q
        <3>1. p \in Seq(T) /\ Len(p) = Len(end) + 1 /\ p[1] = refuse /\ Len(end) \in Nat
            BY <1>2, <1>3, StepFirst
        <3> HIDE DEF p
        <3>2. q \in Seq(T) /\ Len(q) = Len(p) + 1 /\ q[1] = opened /\ \A i \in 1 .. Len(p) : q[i + 1] = p[i]
            BY <1>2, <3>1, StepFirst
        <3> HIDE DEF q
        <3>3. s \in Seq(T) /\ Len(s) = Len(q) + 1 /\ s[1] = gate /\ \A i \in 1 .. Len(q) : s[i + 1] = q[i]
            BY <1>2, <3>2, StepFirst
        <3> HIDE DEF s
        <3>4. 3 \in 1 .. Len(s) /\ s[2] = opened /\ s[3] = refuse
            <4>1. 1 \in 1 .. Len(p) /\ 1 \in 1 .. Len(q) /\ 2 \in 1 .. Len(q) /\ 3 \in 1 .. Len(s)
                BY <3>1, <3>2, <3>3
            <4>2. q[1 + 1] = p[1] /\ s[1 + 1] = q[1] /\ s[2 + 1] = q[2]
                BY <3>2, <3>3, <4>1
            <4> QED
                BY <3>1, <3>2, <4>1, <4>2
        <3>5. s[3].do = "refuse" /\ \A j \in 1 .. 3 - 1 : s[j].do \in {"gate", "open", "close"}
            BY <1>1, <3>3, <3>4
        <3>6. Untouched(UpToRefusal(s))
            BY <3>3, <3>4, <3>5, RefusedInTime
        <3>7. steps = UpToRefusal(s)
            BY <1>5, <2>1, <2>2, <2>6 DEF s, q, p
        <3> QED
            BY <1>6, <3>6, <3>7
    <2> QED
        BY <2>4, <2>5, <2>6 DEF EraseAll
<1> QED
    BY <1>7, <1>8, <1>9

-----------------------------------------------------------------------------
(* What any flash may touch                                                *)

\* TouchesWhatItGated, of a sequence of steps.
Gated(f, u) ==
    /\ Doing(u, "refuse") # {} =>
          Doing(u, "erase") \cup Doing(u, "write") \cup Doing(u, "spawn") = {}
    /\ \A i \in Doing(u, "open") :
          u[1].do = "gate" /\ (f.named # None => u[i].arg = u[1].arg)
    /\ \A i \in Doing(u, "spawn") :
          Cardinality(Doing(SubSeq(u, 1, i), "open")) = Cardinality(Doing(SubSeq(u, 1, i), "close"))

\* A flash that is refused before it has done more than open and close its probe.
LEMMA RefusedGated ==
    ASSUME NEW f, NEW T, NEW s \in Seq(T), NEW k \in 1 .. Len(s), s[k].do = "refuse",
           \A j \in 1 .. k - 1 : s[j].do \in {"gate", "open", "close"},
           \A j \in 1 .. k - 1 :
                s[j].do = "open" => s[1].do = "gate" /\ (f.named # None => s[j].arg = s[1].arg)
    PROVE  Gated(f, UpToRefusal(s))
<1> DEFINE u == UpToRefusal(s)
<1>1. DOMAIN u = 1 .. k /\ \A j \in 1 .. k : u[j] = s[j]
    BY RefusedAt
<1>2. Untouched(u)
    BY RefusedInTime
<1> HIDE DEF u
<1>3. ASSUME NEW i \in Doing(u, "open")
      PROVE  u[1].do = "gate" /\ (f.named # None => u[i].arg = u[1].arg)
    <2>1. i \in 1 .. k /\ u[i] = s[i] /\ s[i].do = "open"
        BY <1>1, <1>3 DEF Doing
    <2>2. i \in 1 .. k - 1 /\ 1 \in 1 .. k
        BY <2>1, LenProperties
    <2> QED
        BY <1>1, <2>1, <2>2
<1> QED
    BY <1>2, <1>3 DEF Untouched, Gated, u

\* Where a flash with one probe opened has its steps, before others.
LEMMA OpenedSteps ==
    ASSUME NEW T, NEW a \in T, NEW b \in T, NEW e \in Seq(T)
    PROVE  LET s == <<a>> \o (<<b>> \o e)
           IN  /\ s \in Seq(T) /\ Len(s) = Len(e) + 2 /\ Len(e) \in Nat /\ DOMAIN s = 1 .. Len(e) + 2
               /\ s[1] = a /\ s[2] = b
               /\ \A i \in 1 .. Len(e) : s[i + 2] = e[i]
<1> DEFINE q == <<b>> \o e
           s == <<a>> \o q
<1>1. /\ q \in Seq(T) /\ Len(q) = Len(e) + 1 /\ Len(e) \in Nat /\ q[1] = b
      /\ \A i \in 1 .. Len(e) : q[i + 1] = e[i]
    BY StepFirst
<1> HIDE DEF q
<1>2. s \in Seq(T) /\ Len(s) = Len(q) + 1 /\ s[1] = a /\ \A i \in 1 .. Len(q) : s[i + 1] = q[i]
    BY <1>1, StepFirst
<1> HIDE DEF s
<1>3. Len(s) = Len(e) + 2 /\ DOMAIN s = 1 .. Len(e) + 2
    BY <1>1, <1>2, LenProperties
<1>4. s[2] = b
    <2>1. 1 \in 1 .. Len(q) /\ 1 + 1 = 2
        BY <1>1
    <2>2. s[1 + 1] = q[1]
        BY <1>2, <2>1
    <2> QED
        BY <1>1, <2>1, <2>2
<1>5. ASSUME NEW i \in 1 .. Len(e) PROVE s[i + 2] = e[i]
    <2>1. i + 1 \in 1 .. Len(q) /\ (i + 1) + 1 = i + 2
        BY <1>1
    <2>2. s[(i + 1) + 1] = q[i + 1] /\ q[i + 1] = e[i]
        BY <1>1, <1>2, <2>1
    <2> QED
        BY <2>1, <2>2
<1> QED
    BY <1>1, <1>2, <1>3, <1>4, <1>5 DEF s, q

\* A flash that is not refused and starts no tool.
LEMMA WritesGated ==
    ASSUME NEW f, NEW T, NEW a \in T, NEW b \in T, NEW e \in Seq(T), a.do = "gate", b.do = "open",
           f.named # None => b.arg = a.arg,
           \A i \in 1 .. Len(e) : e[i].do \in {"erase", "write", "reset"}
    PROVE  Gated(f, UpToRefusal(<<a>> \o (<<b>> \o e)))
<1> DEFINE s == <<a>> \o (<<b>> \o e)
<1>1. /\ Len(e) \in Nat /\ DOMAIN s = 1 .. Len(e) + 2 /\ s[1] = a /\ s[2] = b
      /\ \A i \in 1 .. Len(e) : s[i + 2] = e[i]
    BY OpenedSteps
<1> HIDE DEF s
<1>2. ASSUME NEW i \in 1 .. Len(e) + 2
      PROVE  i = 1 \/ i = 2 \/ s[i].do \in {"erase", "write", "reset"}
    <2> SUFFICES ASSUME i # 1, i # 2 PROVE s[i].do \in {"erase", "write", "reset"}
        OBVIOUS
    <2>1. i - 2 \in 1 .. Len(e) /\ (i - 2) + 2 = i
        BY <1>1
    <2>2. s[(i - 2) + 2] = e[i - 2] /\ e[i - 2].do \in {"erase", "write", "reset"}
        BY <1>1, <2>1
    <2> QED
        BY <2>1, <2>2
<1>3. \A i \in DOMAIN s : s[i].do # "refuse" /\ s[i].do # "spawn" /\ (s[i].do = "open" => i = 2)
    BY <1>1, <1>2
<1>4. UpToRefusal(s) = s
    BY <1>3, NothingRefused
<1>5. Doing(s, "refuse") = {} /\ Doing(s, "spawn") = {}
    BY <1>3 DEF Doing
<1>6. ASSUME NEW i \in Doing(s, "open") PROVE i = 2
    BY <1>3 DEF Doing
<1>7. \A i \in Doing(s, "open") : s[1].do = "gate" /\ (f.named # None => s[i].arg = s[1].arg)
    BY <1>1, <1>6
<1> QED
    BY <1>4, <1>5, <1>7 DEF Gated, s

\* A flash that closes its probe again and starts a tool.
LEMMA ToolGated ==
    ASSUME NEW f, NEW T, NEW a \in T, NEW b \in T, NEW c \in T, NEW d \in T, NEW e \in Seq(T),
           a.do = "gate", b.do = "open", c.do = "close", d.do = "spawn",
           f.named # None => b.arg = a.arg,
           \A i \in 1 .. Len(e) : e[i].do \in {"erase", "write", "reset"}
    PROVE  Gated(f, UpToRefusal(<<a>> \o (<<b>> \o (<<c>> \o (<<d>> \o e)))))
<1> DEFINE q == <<c>> \o (<<d>> \o e)
           s == <<a>> \o (<<b>> \o q)
<1>1. /\ q \in Seq(T) /\ Len(q) = Len(e) + 2 /\ Len(e) \in Nat /\ q[1] = c /\ q[2] = d
      /\ \A i \in 1 .. Len(e) : q[i + 2] = e[i]
    BY OpenedSteps
<1> HIDE DEF q
<1>2. /\ s \in Seq(T) /\ Len(s) = Len(q) + 2 /\ DOMAIN s = 1 .. Len(q) + 2 /\ s[1] = a /\ s[2] = b
      /\ \A i \in 1 .. Len(q) : s[i + 2] = q[i]
    BY <1>1, OpenedSteps
<1> HIDE DEF s
<1>3. s[3] = c /\ s[4] = d
    <2>1. 1 \in 1 .. Len(q) /\ 2 \in 1 .. Len(q) /\ 1 + 2 = 3 /\ 2 + 2 = 4
        BY <1>1
    <2>2. s[1 + 2] = q[1] /\ s[2 + 2] = q[2]
        BY <1>2, <2>1
    <2> QED
        BY <1>1, <2>1, <2>2
<1>4. ASSUME NEW i \in DOMAIN s
      PROVE  i \in 1 .. 4 \/ s[i].do \in {"erase", "write", "reset"}
    <2> SUFFICES ASSUME i \notin 1 .. 4 PROVE s[i].do \in {"erase", "write", "reset"}
        OBVIOUS
    <2>1. i - 4 \in 1 .. Len(e) /\ i - 2 \in 1 .. Len(q) /\ (i - 2) + 2 = i /\ (i - 4) + 2 = i - 2
        BY <1>1, <1>2
    <2>2. s[(i - 2) + 2] = q[i - 2] /\ q[(i - 4) + 2] = e[i - 4] /\ e[i - 4].do \in {"erase", "write", "reset"}
        BY <1>1, <1>2, <2>1
    <2> QED
        BY <2>1, <2>2
<1>5. 1 .. 4 = {1, 2, 3, 4}
    OBVIOUS
<1>6. ASSUME NEW i \in DOMAIN s
      PROVE  /\ s[i].do # "refuse"
             /\ s[i].do = "open" <=> i = 2
             /\ s[i].do = "close" <=> i = 3
             /\ s[i].do = "spawn" <=> i = 4
    <2>1. CASE i \in 1 .. 4
        BY <1>2, <1>3, <1>5, <2>1
    <2>2. CASE i \notin 1 .. 4
        BY <1>4, <1>5, <2>2
    <2> QED
        BY <2>1, <2>2
<1>7. UpToRefusal(s) = s /\ Doing(s, "refuse") = {}
    BY <1>6, NothingRefused DEF Doing
<1>8. \A i \in Doing(s, "open") : s[1].do = "gate" /\ (f.named # None => s[i].arg = s[1].arg)
    BY <1>2, <1>6 DEF Doing
<1>9. ASSUME NEW i \in Doing(s, "spawn")
      PROVE  Cardinality(Doing(SubSeq(s, 1, i), "open")) = Cardinality(Doing(SubSeq(s, 1, i), "close"))
    <2>1. i = 4
        BY <1>6, <1>9 DEF Doing
    <2> DEFINE t == SubSeq(s, 1, 4)
    <2>2. t = [k \in 1 .. 4 |-> s[k]]
        BY <1>1, <1>2, SubSeqProperties
    <2> HIDE DEF t
    <2>3. {1, 2, 3, 4} \subseteq DOMAIN s
        BY <1>1, <1>2
    <2>4. Doing(t, "open") = {2} /\ Doing(t, "close") = {3}
        BY <1>5, <1>6, <2>2, <2>3 DEF Doing
    <2>5. Cardinality({2}) = 1 /\ Cardinality({3}) = 1
        BY FS_Singleton
    <2> QED
        BY <2>1, <2>4, <2>5 DEF t
<1> QED
    BY <1>7, <1>8, <1>9 DEF Gated, s, q

\* Any flash, whatever is plugged in at its gate and when it opens the probe.
LEMMA TouchIsGated ==
    ASSUME NEW f, NEW backend, NEW atGate, NEW atOpen, NEW target, IsFiniteSet(target.regions)
    PROVE  TouchesWhatItGated(f, backend, atGate, atOpen, target)
<1> DEFINE g == ResolveProbe(atGate, f.named)
           o == ResolveProbe(atOpen, f.named)
           gate == Do("gate", g)
           opened == Do("open", o)
           close == Do("close", {})
           spawn == Do("spawn", f.named)
           erase == Do("erase", WholeChip(target))
           refuse == Do("refuse", {})
           write == Do("write", {})
           reset == Do("reset", {})
           kept == Erasable(target.regions)
           erases == {Do("erase", Addresses(r)) : r \in kept}
           T == {gate, opened, close, spawn, erase, refuse, write, reset} \cup erases
           end == <<write, reset>>
           steps == FlashOf(f, backend, atGate, atOpen, target)
<1>1. Gated(f, steps) => TouchesWhatItGated(f, backend, atGate, atOpen, target)
    BY DEF Gated, TouchesWhatItGated
<1>2. f.named # None /\ g # Refused /\ o # Refused => o = g
    BY DEF ResolveProbe
<1>3. /\ gate.do = "gate" /\ opened.do = "open" /\ close.do = "close" /\ spawn.do = "spawn"
      /\ refuse.do = "refuse" /\ gate.arg = g /\ opened.arg = o
    BY DEF Do
<1>4. erase.do = "erase" /\ write.do = "write" /\ reset.do = "reset"
    BY DEF Do
<1>5. RefuseIt = <<refuse>>
    BY DEF RefuseIt
<1> HIDE DEF g, o
<1>6. steps = UpToRefusal(IF g = Refused THEN RefuseIt
                          ELSE <<gate>> \o
                              (CASE backend = Refused -> RefuseIt
                                 [] backend \in Tool ->
                                      IF o = Refused THEN RefuseIt
                                      ELSE <<opened>> \o (<<close>> \o RunTool(backend, f, target))
                                 [] OTHER ->
                                      IF Parses(f.format)
                                      THEN IF o = Refused THEN RefuseIt
                                           ELSE <<opened>> \o WithProbeRs(f, target)
                                      ELSE RefuseIt))
    BY <1>3 DEF FlashOf, Then, g, o
<1>7. Refused \notin Tool
    BY DEF Refused, Tool
<1>8. /\ gate \in T /\ opened \in T /\ close \in T /\ spawn \in T /\ refuse \in T
      /\ erase \in T /\ write \in T /\ reset \in T /\ erases \subseteq T
    OBVIOUS
<1> HIDE DEF T
<1>9. /\ <<refuse>> \in Seq(T) /\ Len(<<refuse>>) = 1 /\ <<refuse>>[1] = refuse
      /\ end \in Seq(T) /\ Len(end) = 2 /\ end[1] = write /\ end[2] = reset /\ <<>> \in Seq(T)
    BY <1>8
<1>10. ASSUME NEW tool PROVE \/ RunTool(tool, f, target) = <<refuse>>
                             \/ \E e \in Seq(T) : /\ RunTool(tool, f, target) = <<spawn>> \o e
                                                  /\ \A i \in 1 .. Len(e) : e[i].do \in {"erase", "write", "reset"}
    <2> DEFINE runs == ToolRuns(tool, f, target)
    <2>1. CASE ~Stages(f.format) \/ runs = RefuseIt
        BY <1>5, <2>1 DEF RunTool
    <2>2. CASE ~(~Stages(f.format) \/ runs = RefuseIt)
        <3>1. RunTool(tool, f, target) = <<spawn>> \o runs
            BY <2>2 DEF RunTool
        <3>2. runs = <<write>> \/ runs = <<erase>> \o end \/ runs = <<>> \o end
            BY <2>2 DEF ToolRuns
        <3> HIDE DEF runs
        <3>3. CASE runs = <<write>>
            <4>1. runs \in Seq(T) /\ Len(runs) = 1 /\ runs[1] = write
                BY <1>8, <3>3
            <4> QED
                BY <1>4, <3>1, <4>1
        <3>4. CASE runs = <<erase>> \o end
            <4>1. /\ runs \in Seq(T) /\ Len(runs) = 3 /\ runs[1] = erase
                  /\ \A i \in 1 .. 2 : runs[i + 1] = end[i]
                BY <1>8, <1>9, <3>4, StepFirst
            <4>2. runs[1 + 1] = write /\ runs[2 + 1] = reset
                BY <1>9, <4>1
            <4>3. ASSUME NEW i \in 1 .. 3 PROVE i = 1 \/ i = 2 \/ i = 3
                OBVIOUS
            <4>4. \A i \in 1 .. Len(runs) : runs[i].do \in {"erase", "write", "reset"}
                BY <1>4, <4>1, <4>2, <4>3
            <4> QED
                BY <3>1, <4>1, <4>4
        <3>5. CASE runs = <<>> \o end
            <4>1. runs = end
                BY <1>9, <3>5
            <4>2. \A i \in 1 .. Len(runs) : runs[i].do \in {"erase", "write", "reset"}
                BY <1>4, <1>9, <4>1
            <4> QED
                BY <1>9, <3>1, <4>1, <4>2
        <3> QED
            BY <3>2, <3>3, <3>4, <3>5
    <2> QED
        BY <2>1, <2>2
<1> HIDE DEF gate, opened, close, spawn, erase, refuse, write, reset, end, steps
<1>11. ASSUME NEW s \in Seq(T), NEW k \in 1 .. Len(s), s[k].do = "refuse",
              \A j \in 1 .. k - 1 : s[j].do \in {"gate", "open", "close"},
              \A j \in 1 .. k - 1 :
                 s[j].do = "open" => s[1].do = "gate" /\ (f.named # None => s[j].arg = s[1].arg),
              steps = UpToRefusal(s)
       PROVE  Gated(f, steps)
    BY <1>11, RefusedGated
<1>12. CASE g = Refused
    <2>1. steps = UpToRefusal(<<refuse>>)
        BY <1>5, <1>6, <1>12
    <2> DEFINE s == <<refuse>>
    <2>2. s \in Seq(T) /\ 1 \in 1 .. Len(s) /\ s[1].do = "refuse" /\ 1 .. 1 - 1 = {}
        BY <1>3, <1>9
    <2> HIDE DEF s
    <2>3. Gated(f, steps)
        BY <1>11, <2>1, <2>2 DEF s
    <2> QED
        BY <1>1, <2>3
<1>13. CASE steps = UpToRefusal(<<gate>> \o <<refuse>>)
    <2> DEFINE s == <<gate>> \o <<refuse>>
    <2>1. s \in Seq(T) /\ Len(s) = 2 /\ s[1] = gate /\ s[2] = refuse
        BY <1>8, <1>9, StepFirst
    <2> HIDE DEF s
    <2>2. 2 \in 1 .. Len(s) /\ s[2].do = "refuse" /\ \A j \in 1 .. 2 - 1 : s[j].do = "gate"
        BY <1>3, <2>1
    <2>3. Gated(f, steps)
        BY <1>11, <1>13, <2>1, <2>2 DEF s
    <2> QED
        BY <1>1, <2>3
<1>14. CASE /\ g # Refused /\ o # Refused
            /\ \E tool : steps = UpToRefusal(<<gate>> \o (<<opened>> \o (<<close>> \o RunTool(tool, f, target))))
    <2>1. PICK tool : steps = UpToRefusal(<<gate>> \o (<<opened>> \o (<<close>> \o RunTool(tool, f, target))))
        BY <1>14
    <2>2. f.named # None => opened.arg = gate.arg
        BY <1>2, <1>3, <1>14
    <2>3. CASE RunTool(tool, f, target) = <<refuse>>
        <3> DEFINE e == <<close>> \o <<refuse>>
                   s == <<gate>> \o (<<opened>> \o e)
        <3>1. e \in Seq(T) /\ Len(e) = 2 /\ e[1] = close /\ e[2] = refuse
            BY <1>8, <1>9, StepFirst
        <3> HIDE DEF e
        <3>2. /\ s \in Seq(T) /\ Len(s) = Len(e) + 2 /\ s[1] = gate /\ s[2] = opened
              /\ \A i \in 1 .. Len(e) : s[i + 2] = e[i]
            <4>1. gate \in T /\ opened \in T /\ e \in Seq(T)
                BY <1>8, <3>1
            <4> QED
                BY <4>1, OpenedSteps
        <3> HIDE DEF s
        <3>3. s[1 + 2] = close /\ s[2 + 2] = refuse
            <4>1. 1 \in 1 .. Len(e) /\ 2 \in 1 .. Len(e)
                BY <3>1
            <4> QED
                BY <3>1, <3>2, <4>1
        <3>4. 4 \in 1 .. Len(s) /\ s[4].do = "refuse" /\ s[3] = close
            BY <1>3, <3>1, <3>2, <3>3
        <3>5. ASSUME NEW j \in 1 .. 4 - 1 PROVE j = 1 \/ j = 2 \/ j = 3
            OBVIOUS
        <3>6. \A j \in 1 .. 4 - 1 : s[j].do \in {"gate", "open", "close"}
            BY <1>3, <3>2, <3>4, <3>5
        <3>7. ASSUME NEW j \in 1 .. 4 - 1, s[j].do = "open"
              PROVE  s[1].do = "gate" /\ (f.named # None => s[j].arg = s[1].arg)
            <4>1. j = 2
                BY <1>3, <3>2, <3>4, <3>5, <3>7
            <4> QED
                BY <1>3, <2>2, <3>2, <4>1
        <3>8. steps = UpToRefusal(s)
            BY <2>1, <2>3 DEF s, e
        <3>9. Gated(f, steps)
            BY <1>11, <3>2, <3>4, <3>6, <3>7, <3>8
        <3> QED
            BY <1>1, <3>9
    <2>4. ASSUME NEW e \in Seq(T), RunTool(tool, f, target) = <<spawn>> \o e,
                 \A i \in 1 .. Len(e) : e[i].do \in {"erase", "write", "reset"}
          PROVE  TouchesWhatItGated(f, backend, atGate, atOpen, target)
        <3> DEFINE u == UpToRefusal(<<gate>> \o (<<opened>> \o (<<close>> \o (<<spawn>> \o e))))
        <3>1. Gated(f, u)
            BY <1>3, <1>8, <2>2, <2>4, ToolGated, ZenonT(20)
        <3> HIDE DEF u
        <3>2. steps = u
            BY <2>1, <2>4 DEF u
        <3> QED
            BY <1>1, <3>1, <3>2
    <2> QED
        BY <1>10, <2>3, <2>4
<1>15. CASE g # Refused /\ o # Refused /\ steps = UpToRefusal(<<gate>> \o (<<opened>> \o WithProbeRs(f, target)))
    <2>1. WithProbeRs(f, target) =
            (IF f.erase THEN EraseAll(target.regions, target.algorithms) ELSE <<>>) \o end
        BY DEF WithProbeRs, end, write, reset
    <2>2. EraseAll(target.regions, target.algorithms) \in {<<refuse>>, Erase(kept)}
        BY <1>5 DEF EraseAll
    <2>3. f.named # None => opened.arg = gate.arg
        BY <1>2, <1>3, <1>15
    <2>4. ASSUME NEW e \in Seq(T), \A i \in 1 .. Len(e) : e[i].do \in {"erase", "write", "reset"},
                 WithProbeRs(f, target) = e
          PROVE  TouchesWhatItGated(f, backend, atGate, atOpen, target)
        <3> DEFINE u == UpToRefusal(<<gate>> \o (<<opened>> \o e))
        <3>1. Gated(f, u)
            BY <1>3, <1>8, <2>3, <2>4, WritesGated, ZenonT(20)
        <3> HIDE DEF u
        <3>2. steps = u
            BY <1>15, <2>4 DEF u
        <3> QED
            BY <1>1, <3>1, <3>2
    <2>6. CASE WithProbeRs(f, target) = <<>> \o end
        <3>1. <<>> \o end = end
            BY <1>9
        <3>2. \A i \in 1 .. Len(end) : end[i].do \in {"erase", "write", "reset"}
            BY <1>4, <1>9
        <3> QED
            BY <1>9, <2>4, <2>6, <3>1, <3>2
    <2>7. CASE WithProbeRs(f, target) = Erase(kept) \o end
        <3> DEFINE e == Erase(kept)
                   s == e \o end
        <3>1. IsFiniteSet(kept)
            BY FS_Subset DEF Erasable
        <3>2. e \in Seq(erases) /\ {e[i] : i \in DOMAIN e} = erases
            BY <3>1, EraseIs
        <3> HIDE DEF e
        <3>3. e \in Seq(T) /\ DOMAIN e = 1 .. Len(e) /\ Len(e) \in Nat
            BY <1>8, <3>2, SeqMonotonic, LenProperties
        <3>4. ASSUME NEW i \in 1 .. Len(e) PROVE e[i].do = "erase"
            <4>1. e[i] \in erases
                BY <3>2, <3>3
            <4> QED
                BY <4>1 DEF Do
        <3>5. end \in Seq(T)
            BY <1>9
        <3>6. /\ s \in Seq(T) /\ Len(s) = Len(e) + Len(end)
              /\ \A i \in 1 .. Len(e) + Len(end) : s[i] = IF i <= Len(e) THEN e[i] ELSE end[i - Len(e)]
            BY <3>3, <3>5, ConcatProperties, LenProperties
        <3> HIDE DEF s
        <3>7. ASSUME NEW i \in 1 .. Len(s) PROVE s[i].do \in {"erase", "write", "reset"}
            <4>1. CASE i <= Len(e)
                <5>1. i \in 1 .. Len(e) /\ s[i] = e[i]
                    BY <3>3, <3>6, <4>1
                <5> QED
                    BY <3>4, <5>1
            <4>2. CASE ~(i <= Len(e))
                <5>1. s[i] = end[i - Len(e)] /\ i - Len(e) \in {1, 2}
                    BY <1>9, <3>3, <3>6, <4>2
                <5> QED
                    BY <1>4, <1>9, <5>1
            <4> QED
                BY <4>1, <4>2
        <3> QED
            BY <2>4, <2>7, <3>6, <3>7 DEF s, e
    <2>5. CASE WithProbeRs(f, target) = <<refuse>> \o end
        <3> DEFINE e == <<refuse>> \o end
                   s == <<gate>> \o (<<opened>> \o e)
        <3>1. e \in Seq(T) /\ Len(e) = 3 /\ e[1] = refuse
            <4>1. refuse \in T /\ end \in Seq(T)
                BY <1>8, <1>9
            <4>2. e \in Seq(T) /\ Len(e) = Len(end) + 1 /\ e[1] = refuse
                BY <4>1, StepFirst
            <4> QED
                BY <1>9, <4>2
        <3> HIDE DEF e
        <3>2. /\ s \in Seq(T) /\ Len(s) = Len(e) + 2 /\ s[1] = gate /\ s[2] = opened
              /\ \A i \in 1 .. Len(e) : s[i + 2] = e[i]
            <4>1. gate \in T /\ opened \in T /\ e \in Seq(T)
                BY <1>8, <3>1
            <4> QED
                BY <4>1, OpenedSteps
        <3> HIDE DEF s
        <3>3. s[1 + 2] = refuse
            <4>1. 1 \in 1 .. Len(e)
                BY <3>1
            <4> QED
                BY <3>1, <3>2, <4>1
        <3>4. 3 \in 1 .. Len(s) /\ s[3].do = "refuse"
            BY <1>3, <3>1, <3>2, <3>3
        <3>5. ASSUME NEW j \in 1 .. 3 - 1 PROVE j = 1 \/ j = 2
            OBVIOUS
        <3>6. \A j \in 1 .. 3 - 1 : s[j].do \in {"gate", "open", "close"}
            BY <1>3, <3>2, <3>5
        <3>7. ASSUME NEW j \in 1 .. 3 - 1, s[j].do = "open"
              PROVE  s[1].do = "gate" /\ (f.named # None => s[j].arg = s[1].arg)
            <4>1. j = 2
                BY <1>3, <3>2, <3>5, <3>7
            <4> QED
                BY <1>3, <2>3, <3>2, <4>1
        <3>8. steps = UpToRefusal(s)
            BY <1>15, <2>5 DEF s, e
        <3>9. Gated(f, steps)
            BY <1>11, <3>2, <3>4, <3>6, <3>7, <3>8
        <3> QED
            BY <1>1, <3>9
    <2> QED
        BY <2>1, <2>2, <2>5, <2>6, <2>7
<1>16. CASE g # Refused /\ backend = Refused
    <2>1. steps = UpToRefusal(<<gate>> \o RefuseIt)
        BY <1>6, <1>7, <1>16
    <2> QED
        BY <1>5, <1>13, <2>1
<1>17. CASE g # Refused /\ backend \in Tool
    <2>1. steps = UpToRefusal(<<gate>> \o (IF o = Refused THEN RefuseIt
                                          ELSE <<opened>> \o (<<close>> \o RunTool(backend, f, target))))
        BY <1>6, <1>7, <1>17
    <2> QED
        BY <1>5, <1>13, <1>14, <1>17, <2>1
<1>18. CASE g # Refused /\ backend # Refused /\ backend \notin Tool
    <2>1. steps = UpToRefusal(<<gate>> \o (IF Parses(f.format)
                                          THEN IF o = Refused THEN RefuseIt
                                               ELSE <<opened>> \o WithProbeRs(f, target)
                                          ELSE RefuseIt))
        BY <1>6, <1>18
    <2> QED
        BY <1>5, <1>13, <1>15, <1>18, <2>1
<1> QED
    BY <1>12, <1>16, <1>17, <1>18

-----------------------------------------------------------------------------
(* The program that writes                                                 *)

\* The first of a pair or a triple that will do is one that will.
LEMMA FirstIsGood ==
    ASSUME NEW n \in Nat, NEW order, DOMAIN order = 1 .. n, NEW good, FirstOf(order, good) # None
    PROVE  FirstOf(order, good) \in good /\ \E i \in 1 .. n : FirstOf(order, good) = order[i]
<1> DEFINE at == {i \in DOMAIN order : order[i] \in good}
           first == CHOOSE i \in at : \A j \in at : i <= j
<1>1. at # {} /\ FirstOf(order, good) = order[first]
    BY DEF FirstOf
<1>2. at \subseteq Nat /\ at # {}
    BY <1>1
<1>3. \E i \in at : \A j \in at : i <= j
    <2>1. PICK i \in at : \A j \in at : ~(<<j, i>> \in OpToRel(<, Nat))
        BY <1>2, WFMin, NatLessThanWellFounded
    <2>2. ASSUME NEW j \in at PROVE i <= j
        <3>1. i \in Nat /\ j \in Nat
            BY <1>2
        <3>2. ~(<<j, i>> \in OpToRel(<, Nat))
            BY <2>1
        <3> HIDE DEF at
        <3>3. ~(j < i)
            BY <3>1, <3>2 DEF OpToRel
        <3> QED
            BY <3>1, <3>3
    <2> QED
        BY <2>2
<1>4. first \in at
    BY <1>3
<1> QED
    BY <1>1, <1>4

\* For any chip, request for a tool, and installation.
LEMMA ProgramsAreRight ==
    ASSUME NEW chip, NEW forced, NEW installed
    PROVE  ProgramIsRight(chip, forced, installed)
<1> DEFINE here == {t \in Tool : ToolIsHere(installed, t)}
           found == FirstOf(PreferredFor(chip), here)
           backend == Discover(chip, forced, installed)
           places == <<"env", "path", "known">>
<1>1. DOMAIN places = 1 .. 3 /\ 3 \in Nat
    OBVIOUS
<1>2. ASSUME NEW tool, ToolIsHere(installed, tool)
      PROVE  installed[tool][Locate(installed, tool)] = "usable"
    <2> DEFINE good == {p \in Place : installed[tool][p] = "usable"}
    <2>1. Locate(installed, tool) = FirstOf(places, good)
        BY DEF Locate
    <2>2. FirstOf(places, good) # None
        BY <1>2, <2>1 DEF ToolIsHere
    <2> HIDE DEF places, good
    <2>3. FirstOf(places, good) \in good
        BY <1>1, <2>2, FirstIsGood
    <2> QED
        BY <2>1, <2>3 DEF good
<1>3. found = None \/ found \in here
    <2>1. \E n \in Nat : DOMAIN PreferredFor(chip) = 1 .. n
        <3>1. PreferredFor(chip) = <<"nrfutil", "jlink">> \/ PreferredFor(chip) = <<>>
            BY DEF PreferredFor
        <3>2. DOMAIN <<"nrfutil", "jlink">> = 1 .. 2 /\ DOMAIN <<>> = 1 .. 0
            OBVIOUS
        <3> QED
            BY <3>1, <3>2
    <2> HIDE DEF here
    <2> QED
        BY <2>1, FirstIsGood
<1>4. "probe-rs" \notin Tool /\ Refused \notin Tool /\ Refused # "probe-rs" /\ None # "probe-rs" /\ None \notin Tool
    BY DEF Tool, Refused, None
<1>5. here \subseteq Tool
    OBVIOUS
<1> HIDE DEF here
<1>6. backend = CASE forced = "probe-rs" -> "probe-rs"
          [] forced \in Tool -> IF ToolIsHere(installed, forced) THEN forced ELSE Refused
          [] forced \notin Tool \cup {None, "probe-rs"} -> Refused
          [] forced = None /\ ~RequiresVendorTool(chip) -> "probe-rs"
          [] OTHER -> IF found = None THEN Refused ELSE found
    BY DEF Discover, here
<1> HIDE DEF found, backend
<1>7. RequiresVendorTool(chip) /\ backend = "probe-rs" => forced = "probe-rs"
    BY <1>3, <1>4, <1>5, <1>6
<1>8. backend \in Tool => ToolIsHere(installed, backend)
    <2>1. backend \in Tool => (backend = forced /\ ToolIsHere(installed, forced)) \/ backend \in here
        BY <1>3, <1>4, <1>6
    <2> QED
        BY <2>1 DEF here
<1> QED
    BY <1>2, <1>7, <1>8 DEF ProgramIsRight, backend

-----------------------------------------------------------------------------
(* Every flash is well planned                                             *)

\* A bank has one region or none.
LEMMA BanksAreFinite ==
    ASSUME NEW from, NEW to, NEW bank \in Bank(from, to)
    PROVE  IsFiniteSet(bank)
<1>1. bank = {} \/ \E r : bank = {r}
    BY DEF Bank
<1> QED
    BY <1>1, FS_EmptySet, FS_Singleton

\* Of a target with finitely many regions: a flash with probe-rs is refused before
\* anything is erased, or erases exactly what it may, and that before it writes; any
\* flash, whatever program there is and whichever probes at the gate and later,
\* leaves the DUT alone if it is refused, opens the probe it was gated on if its
\* request names one, and has closed it before a tool is started.  And no family
\* that needs its vendor's tool is left to probe-rs unasked, nor a tool started from
\* a file that cannot be (flash, plan_erase, discover, run).
THEOREM AnyFlashIsPlanned ==
    /\ \A f, target : IsFiniteSet(target.regions) => ErasesWhatItMay(f, target)
    /\ \A f, backend, atGate, atOpen, target :
          IsFiniteSet(target.regions) => TouchesWhatItGated(f, backend, atGate, atOpen, target)
    /\ \A chip, forced, installed : ProgramIsRight(chip, forced, installed)
BY PlansAreWhole, TouchIsGated, ProgramsAreRight

\* In particular every flash that Flashing enumerates, which is what the run looks at.
THEOREM FlashesAreAlwaysRight == Spec => []FlashesAreRight
<1>1. ASSUME NEW f, NEW regions \in Regions, NEW algorithms
      PROVE  ErasesWhatItMay(f, [regions |-> regions, algorithms |-> algorithms])
    <2>1. PICK low \in Bank(0, 2), high \in Bank(2, 3) : regions = low \cup high
        BY DEF Regions
    <2>2. IsFiniteSet(regions)
        BY <2>1, BanksAreFinite, FS_Union
    <2> DEFINE target == [regions |-> regions, algorithms |-> algorithms]
    <2>3. IsFiniteSet(target.regions)
        BY <2>2
    <2> HIDE DEF target
    <2>4. ErasesWhatItMay(f, target)
        BY <2>3, AnyFlashIsPlanned
    <2> QED
        BY <2>4 DEF target
<1>2. IsFiniteSet(ATarget.regions)
    BY FS_EmptySet DEF ATarget
<1>3. FlashesAreRight
    BY <1>1, <1>2, AnyFlashIsPlanned DEF FlashesAreWellPlanned, FlashesAreRight
<1> QED
    BY <1>3, PTL
=============================================================================
