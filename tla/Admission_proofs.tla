-------------------------- MODULE Admission_proofs --------------------------
(***************************************************************************)
(* Proofs about the machines that admit a caller, each for itself: the     *)
(* bench lease (Lease), for any tokens and any MAX_TTL_S; study_lock       *)
(* (StudyLock), for any studies and hellos and any clients that hang up;   *)
(* and taps with the captures below them (Taps), for any captures,         *)
(* exchanges, DELETEs and studies on a signal and any max_bytes: who has   *)
(* the port open and claims it, what happens to a queued command, and what *)
(* a host study says of its tap.                                           *)
(***************************************************************************)
EXTENDS Lease, StudyLock, Taps, SequenceTheorems, TLAPS

-----------------------------------------------------------------------------
(* The lease: the lazy slot implements EagerLease                          *)

\* What live() returns is an empty slot or a lease with time left.
LEMMA LiveType ==
    ASSUME LeaseTypeOK
    PROVE  /\ Live \in {Empty} \cup [token : Token, ttl : 1 .. MaxTtl, left : 1 .. MaxTtl]
           /\ Live # Empty => Live = slot /\ Live.token \in used
           /\ Live = Empty <=> slot.left = 0
           /\ Live = Empty <=> Live.token = NoToken
BY NoTokenAssumption, MaxTtlAssumption DEF LeaseTypeOK, Live, Empty

\* Clearing a dead lease leaves a slot in which the same lease is live.
LEMMA LiveIsStable ==
    ASSUME LeaseTypeOK, slot' = Live
    PROVE  Live' = Live
<1>1. CASE slot.left > 0
    BY <1>1 DEF Live
<1>2. CASE ~(slot.left > 0)
    BY <1>2 DEF Live, Empty
<1> QED
    BY <1>1, <1>2

LEMMA LeaseTypeInit == LeaseInit => LeaseTypeOK
BY DEF LeaseInit, LeaseTypeOK, Said, Empty

LEMMA LeaseTypeNext == LeaseTypeOK /\ [LeaseNext]_leaseVars => LeaseTypeOK'
<1> SUFFICES ASSUME LeaseTypeOK, [LeaseNext]_leaseVars PROVE LeaseTypeOK'
    OBVIOUS
<1> USE NoTokenAssumption, MaxTtlAssumption
<1>1. ASSUME NEW what \in Said, Find(what, Live.token) \/ Find(what, NoToken)
      PROVE  LeaseTypeOK'
    BY <1>1, LiveType DEF Find, Tell, LeaseTypeOK, Empty, Live
<1>2. ASSUME NEW named \in BOOLEAN, NEW d \in Asked, NEW t \in Token, Take(named, d, t)
      PROVE  LeaseTypeOK'
    <2>1. CASE Find("held", Live.token)
        BY <1>1, <2>1 DEF Said
    <2>2. CASE ~(named /\ TtlOk(d)) /\ Tell("invalid", NoToken) /\ UNCHANGED <<slot, used>>
        BY <2>2 DEF Tell, LeaseTypeOK, Said
    <2>3. CASE /\ TtlOk(d)
               /\ slot' = [token |-> t, ttl |-> d, left |-> d]
               /\ used' = used \cup {t}
               /\ Tell("granted", t)
        BY <2>3 DEF TtlOk, Tell, LeaseTypeOK, Said
    <2> QED
        BY <1>2, <2>1, <2>2, <2>3 DEF Take
<1>3. ASSUME NEW p \in Presented, NEW d, RenewFor(p, d) PROVE LeaseTypeOK'
    <2>1. CASE Find("no_lease", NoToken) \/ Find("held", Live.token) \/ Find("invalid", NoToken)
        BY <1>1, <2>1 DEF Said
    <2>2. CASE /\ Live # Empty /\ p = Live.token /\ TtlOk(d)
               /\ slot' = [slot EXCEPT !.ttl = d, !.left = d]
               /\ Tell("done", p)
               /\ UNCHANGED used
        <3>1. slot' = [token |-> slot.token, ttl |-> d, left |-> d] /\ slot.token \in Token \cap used
            BY <2>2, LiveType DEF LeaseTypeOK, Empty
        <3>2. slot' \in [token : Token, ttl : 1 .. MaxTtl, left : 0 .. MaxTtl] /\ slot'.token \in used
            BY <2>2, <3>1 DEF TtlOk
        <3>3. p \in Token
            BY <2>2, <3>1, LiveType
        <3> QED
            BY <2>2, <3>2, <3>3 DEF Tell, LeaseTypeOK, Said
    <2> QED
        BY <1>3, <2>1, <2>2 DEF RenewFor
<1>4. ASSUME NEW p \in Presented, Release(p) PROVE LeaseTypeOK'
    <2>1. CASE Find("no_lease", NoToken) \/ Find("held", Live.token)
        BY <1>1, <2>1 DEF Said
    <2>2. CASE slot' = Empty /\ Tell("done", p) /\ UNCHANGED used
        BY <2>2 DEF Tell, LeaseTypeOK, Said, Presented, Empty
    <2> QED
        BY <1>4, <2>1, <2>2 DEF Release
<1>5. ASSUME NEW p \in Presented, AdmitHolder(p) PROVE LeaseTypeOK'
    BY <1>1, <1>5 DEF AdmitHolder, Said
<1>6. ASSUME View PROVE LeaseTypeOK'
    BY <1>1, <1>6 DEF View, Said
<1>7. ASSUME Tick PROVE LeaseTypeOK'
    BY <1>7 DEF Tick, LeaseTypeOK, Empty
<1>8. ASSUME Restart PROVE LeaseTypeOK'
    BY <1>8 DEF Restart, Tell, LeaseTypeOK, Said, Empty
<1>9. CASE UNCHANGED leaseVars
    BY <1>9 DEF leaseVars, LeaseTypeOK
<1> QED
    BY <1>2, <1>3, <1>4, <1>5, <1>6, <1>7, <1>8, <1>9 DEF LeaseNext, Renew

\* The slot, the answers and the tokens drawn keep their types.
THEOREM LeaseTypeCorrect == LeaseSpec => []LeaseTypeOK
BY LeaseTypeInit, LeaseTypeNext, PTL DEF LeaseSpec

\* A method that only looked is a method of EagerLease that only looked.
LEMMA FindMaps ==
    ASSUME LeaseTypeOK, NEW what, NEW t, Find(what, t)
    PROVE  /\ UNCHANGED <<Live, used>>
           /\ Eager!Say(what, t)
BY LiveIsStable DEF Find, Tell, Eager!Say

\* A slot filled for d, 1 to MaxTtl, holds a live lease.
LEMMA FilledIsLive ==
    ASSUME LeaseTypeOK, NEW t \in Token, NEW d, TtlOk(d),
           slot' = [token |-> t, ttl |-> d, left |-> d]
    PROVE  Live' = Eager!NewLease(t, d)
BY MaxTtlAssumption DEF TtlOk, Live, Eager!NewLease

LEMMA EagerInit == LeaseInit => Eager!Init
BY DEF LeaseInit, Live, Empty, Eager!Init, Eager!NoLease

LEMMA EagerNext == LeaseTypeOK /\ [LeaseNext]_leaseVars => [Eager!Next]_(Eager!vars)
<1> SUFFICES ASSUME LeaseTypeOK, [LeaseNext]_leaseVars PROVE Eager!Next \/ UNCHANGED Eager!vars
    BY DEF Eager!vars
<1> USE NoTokenAssumption, MaxTtlAssumption
<1>0. /\ Live # Empty <=> Eager!Held
      /\ \A d : TtlOk(d) <=> Eager!TtlOk(d)
    BY LiveType DEF Eager!Held, TtlOk, Eager!TtlOk
<1>1. ASSUME NEW named \in BOOLEAN, NEW d \in Asked, NEW t \in Token, Take(named, d, t)
      PROVE  Eager!Take(named, d, t)
    <2>1. CASE ~(named /\ TtlOk(d)) /\ Tell("invalid", NoToken) /\ UNCHANGED <<slot, used>>
        BY <2>1, <1>0 DEF Eager!Take, Tell, Eager!Say, Live
    <2>2. CASE named /\ TtlOk(d) /\ Live # Empty /\ Find("held", Live.token)
        BY <2>2, <1>0, FindMaps DEF Eager!Take
    <2>3. CASE /\ named /\ TtlOk(d) /\ Live = Empty
               /\ t \in Token \ used
               /\ slot' = [token |-> t, ttl |-> d, left |-> d]
               /\ used' = used \cup {t}
               /\ Tell("granted", t)
        BY <2>3, <1>0, FilledIsLive DEF Eager!Take, Tell, Eager!Say
    <2> QED
        BY <1>1, <2>1, <2>2, <2>3 DEF Take
<1>2. ASSUME NEW p \in Presented, NEW d, RenewFor(p, d) PROVE Eager!RenewFor(p, d)
    <2>1. CASE Live = Empty /\ Find("no_lease", NoToken)
        BY <2>1, <1>0, FindMaps DEF Eager!RenewFor
    <2>2. CASE Live # Empty /\ p # Live.token /\ Find("held", Live.token)
        BY <2>2, <1>0, FindMaps DEF Eager!RenewFor
    <2>3. CASE Live # Empty /\ p = Live.token /\ ~TtlOk(d) /\ Find("invalid", NoToken)
        BY <2>3, <1>0, FindMaps DEF Eager!RenewFor
    <2>4. CASE /\ Live # Empty /\ p = Live.token /\ TtlOk(d)
               /\ slot' = [slot EXCEPT !.ttl = d, !.left = d]
               /\ Tell("done", p)
               /\ UNCHANGED used
        <3>1. slot' = [token |-> p, ttl |-> d, left |-> d] /\ p \in Token
            BY <2>4, LiveType DEF LeaseTypeOK, Empty
        <3> QED
            BY <2>4, <3>1, <1>0, FilledIsLive DEF Eager!RenewFor, Tell, Eager!Say
    <2> QED
        BY <1>2, <2>1, <2>2, <2>3, <2>4 DEF RenewFor
<1>3. ASSUME NEW p \in Presented, Release(p) PROVE Eager!Release(p)
    <2>1. CASE Live = Empty /\ Find("no_lease", NoToken)
        BY <2>1, <1>0, FindMaps DEF Eager!Release
    <2>2. CASE Live # Empty /\ p # Live.token /\ Find("held", Live.token)
        BY <2>2, <1>0, FindMaps DEF Eager!Release
    <2>3. CASE /\ Live # Empty /\ p = Live.token
               /\ slot' = Empty
               /\ Tell("done", p)
               /\ UNCHANGED used
        BY <2>3, <1>0 DEF Eager!Release, Tell, Eager!Say, Live, Empty, Eager!NoLease
    <2> QED
        BY <1>3, <2>1, <2>2, <2>3 DEF Release
<1>4. ASSUME NEW p \in Presented, AdmitHolder(p) PROVE Eager!Admit(p)
    BY <1>4, <1>0, FindMaps DEF AdmitHolder, Eager!Admit
<1>5. ASSUME View PROVE Eager!View
    BY <1>5, <1>0, FindMaps DEF View, Eager!View
<1>6. ASSUME Tick PROVE Eager!Tick
    BY <1>6, <1>0 DEF Tick, Eager!Tick, Live, Empty, Eager!NoLease, LeaseTypeOK
<1>7. ASSUME Restart PROVE Eager!Restart
    BY <1>7 DEF Restart, Eager!Restart, Tell, Eager!Say, Live, Empty, Eager!NoLease
<1>8. CASE UNCHANGED leaseVars
    BY <1>8 DEF leaseVars, Live, Eager!vars
<1>9. Presented \subseteq Eager!Presented /\ Asked = Eager!Asked
    BY DEF Presented, Eager!Presented, Asked, Eager!Asked
<1>10. ASSUME NEW p \in Presented, Renew(p) PROVE Eager!Renew(p)
    BY <1>2, <1>9, <1>10 DEF Renew, Eager!Renew
<1> QED
    BY <1>1, <1>3, <1>4, <1>5, <1>6, <1>7, <1>8, <1>9, <1>10
    DEF LeaseNext, Eager!Next

\* The lazily evaluated slot gives every caller the answers of a lease that
\* vanishes at the instant it expires.
THEOREM ImplementsEagerLease == LeaseSpec => EagerSpec
BY EagerInit, EagerNext, LeaseTypeCorrect, PTL DEF LeaseSpec, EagerSpec, Eager!Spec

\* No call, and no passing of time, makes a token live that once was not.
LEMMA StepKeepsTheDeadDead ==
    ASSUME LeaseTypeOK, [LeaseNext]_leaseVars, NEW t \in used, Live.token # t
    PROVE  Live'.token # t
<1> USE NoTokenAssumption, MaxTtlAssumption
<1>1. CASE Live' = Live
    BY <1>1
<1>2. CASE slot' = Live
    BY <1>2, LiveIsStable
<1>3. ASSUME NEW d, slot' = [slot EXCEPT !.ttl = d, !.left = d], Live # Empty
      PROVE  Live'.token # t
    BY <1>3, LiveType DEF LeaseTypeOK, Live, Empty
<1>4. CASE Tick
    BY <1>4 DEF Tick, LeaseTypeOK, Live, Empty
<1>5. CASE slot' = Empty
    BY <1>5 DEF LeaseTypeOK, Live, Empty
<1>6. ASSUME NEW s \in Token \ used, NEW d, slot' = [token |-> s, ttl |-> d, left |-> d]
      PROVE  Live'.token # t
    BY <1>6 DEF LeaseTypeOK, Live, Empty
<1>7. CASE UNCHANGED slot
    BY <1>7 DEF Live
<1> QED
    BY <1>1, <1>2, <1>3, <1>4, <1>5, <1>6, <1>7
    DEF LeaseNext, leaseVars, Take, Renew, RenewFor, Release, AdmitHolder, View, Find, Restart

\* A lease that has expired, was released or was lost to a restart is over.
THEOREM DeadStayDead == LeaseSpec => DeadTokensStayDead
<1>1. LeaseTypeOK /\ [LeaseNext]_leaseVars
        => [\A t \in used : Live.token # t => Live'.token # t]_leaseVars
    BY StepKeepsTheDeadDead
<1> QED
    BY <1>1, LeaseTypeCorrect, PTL DEF LeaseSpec, DeadTokensStayDead

-----------------------------------------------------------------------------
(* study_lock, and what only its holder may use                            *)

\* Nobody has called yet.
LEMMA StudyLockInit == LockInit => LockIInv
BY SessionAssumption
   DEF LockInit, LockIInv, LockTypeOK, OneSessionAtATime, CancelMatchesStage, PromptMatchesStage,
       Session, Inside, Outside, LinkStages, DropStages

\* Every step of every session preserves the invariant.
LEMMA StudyLockNext == LockIInv /\ [LockNext]_lockVars => LockIInv'
<1> SUFFICES ASSUME LockIInv, [LockNext]_lockVars PROVE LockIInv'
    OBVIOUS
<1> USE SessionAssumption
    DEF LockIInv, LockTypeOK, OneSessionAtATime, CancelMatchesStage, PromptMatchesStage,
        Session, Inside, Outside, LinkStages, DropStages, Go, Done
<1>1. ASSUME NEW s \in Session, TakeLock(s) PROVE LockIInv'
    BY <1>1 DEF TakeLock
<1>2. ASSUME NEW s \in Session, Refuse(s) PROVE LockIInv'
    BY <1>2 DEF Refuse
<1>3. ASSUME NEW s \in Session, GiveUp(s) PROVE LockIInv'
    BY <1>3 DEF GiveUp
<1>4. ASSUME NEW s \in Session, StartOpening(s) PROVE LockIInv'
    BY <1>4 DEF StartOpening
<1>5. ASSUME NEW s \in Session, OpenPort(s) PROVE LockIInv'
    BY <1>5 DEF OpenPort
<1>6. ASSUME NEW s \in Session, Handshaken(s) PROVE LockIInv'
    BY <1>6 DEF Handshaken
<1>7. ASSUME NEW s \in Session, StartStudy(s) PROVE LockIInv'
    BY <1>7 DEF StartStudy
<1>8. ASSUME NEW s \in Session, Reject(s) PROVE LockIInv'
    BY <1>8 DEF Reject
<1>9. ASSUME NEW s \in Session, CloseRejected(s) PROVE LockIInv'
    BY <1>9 DEF CloseRejected
<1>10. ASSUME NEW s \in Session, Accept(s) PROVE LockIInv'
    BY <1>10 DEF Accept
<1>11. ASSUME NEW s \in Session, EndBenchStudy(s) PROVE LockIInv'
    BY <1>11 DEF EndBenchStudy
<1>12. ASSUME NEW s \in Session, Free(s) PROVE LockIInv'
    BY <1>12 DEF Free
<1>13. ASSUME NEW s \in Session, Launch(s) PROVE LockIInv'
    BY <1>13 DEF Launch
<1>14. ASSUME NEW s \in Session, EndHostStudy(s) PROVE LockIInv'
    BY <1>14 DEF EndHostStudy
<1>15. ASSUME NEW s \in Session, DropPrompt(s) PROVE LockIInv'
    BY <1>15 DEF DropPrompt
<1>16. ASSUME NEW s \in Session, DropCancel(s) PROVE LockIInv'
    BY <1>16 DEF DropCancel
<1>17. ASSUME NEW s \in Session, DropLock(s) PROVE LockIInv'
    BY <1>17 DEF DropLock
<1>18. ASSUME NEW s \in Session, OrphanEnds(s) PROVE LockIInv'
    BY <1>18 DEF OrphanEnds
<1>19. ASSUME NEW s \in Session, Publish(s) PROVE LockIInv'
    BY <1>19 DEF Publish
<1>20. ASSUME NEW s \in Session, Resolve(s) PROVE LockIInv'
    BY <1>20 DEF Resolve
<1>21. ASSUME NEW s \in Session, LeaveStudy(s) PROVE LockIInv'
    BY <1>21 DEF LeaveStudy
<1>22. ASSUME NEW s \in Session, LeaveHello(s) PROVE LockIInv'
    BY <1>22 DEF LeaveHello
<1>23. ASSUME NEW s \in Session, LeaveHost(s) PROVE LockIInv'
    BY <1>23 DEF LeaveHost
<1>24. CASE UNCHANGED lockVars
    BY <1>24 DEF lockVars
<1> QED
    BY <1>1, <1>2, <1>3, <1>4, <1>5, <1>6, <1>7, <1>8, <1>9, <1>10, <1>11, <1>12,
       <1>13, <1>14, <1>15, <1>16, <1>17, <1>18, <1>19, <1>20, <1>21, <1>22, <1>23, <1>24
    DEF LockNext, Step, Proceed

\* The stages, the lock and the slots always agree.
THEOREM StudyLockInductive == LockSpec => []LockIInv
BY StudyLockInit, StudyLockNext, PTL DEF LockSpec

\* One study or hello at a time, and study_lock names it.
THEOREM OneAtATime == LockSpec => []OneSessionAtATime
<1>1. LockIInv => OneSessionAtATime
    BY DEF LockIInv
<1> QED
    BY <1>1, StudyLockInductive, PTL

\* A cancel or an answer reaches the running host study or nobody.
THEOREM SlotsAreTheRunners == LockSpec => []SlotsBelongToRunner
<1>1. LockIInv => SlotsBelongToRunner
    BY SessionAssumption
    DEF LockIInv, LockTypeOK, OneSessionAtATime, CancelMatchesStage, PromptMatchesStage,
        SlotsBelongToRunner, Session, Inside, DropStages
<1> QED
    BY <1>1, StudyLockInductive, PTL

-----------------------------------------------------------------------------
(* Captures and taps: the invariant                                        *)

CaptureState == {"none", "refused"} \cup Posting \cup Recording \cup Ended \cup Closing
Answers == {"nothing", "away", "ended", "not_opened", "late", "reply"}

TypeOK ==
    /\ owner \in {Nobody} \cup Capture \cup Exchange \cup Bench
    /\ claims \subseteq Capture \cup Bench
    /\ registry \in Capture \cup {Nobody}
    /\ state \in [Capture -> CaptureState]
    /\ held \in [Capture -> Nat]
    /\ stopping \subseteq Capture
    /\ jobs \in [Capture -> Seq(Exchange)]
    /\ busy \in [Capture -> Exchange \cup {Nobody}]
    /\ exchange \in [Exchange -> [stage : {"idle", "sending", "sent", "direct", "open"},
                                  with : Capture \cup {Nobody}]]
    /\ \A x \in Exchange : exchange[x].stage = "sending" => exchange[x].with \in Capture
    /\ told \in [Exchange -> Answers]
    /\ written \subseteq Exchange
    /\ deleting \in [Delete -> Capture \cup {Nobody}]
    /\ tap \in [Bench -> {"none", "admitted", "opened", "tapping", "joining", "over"}]
    /\ reader \in [Bench -> {"none", "reading", "ended"}]
    /\ run \in [Host -> {"none", "starting", "tapping", "waiting", "over"}]
    /\ endedAs \in [Host -> CaptureState]
    /\ cut \subseteq Host
    /\ said \in [Host -> {"nothing", "whole", "truncated"}]

\* A command is in one channel at most, once, and has not been written; it is
\* there for a caller that waits for it or gave up.
Queued(x) == \E c \in Capture : x \in ToSet(jobs[c])
Once(s) == \A i, j \in DOMAIN s : s[i] = s[j] => i = j

QueuesAreSound ==
    /\ \A c \in Capture : Once(jobs[c])
    /\ \A c, d \in Capture : c # d => ToSet(jobs[c]) \cap ToSet(jobs[d]) = {}
    /\ \A c \in Capture, x \in Exchange : x \in ToSet(jobs[c]) =>
            \/ exchange[x] = Via("sent", c)
            \/ exchange[x] = Idle /\ told[x] = "late"

NotYetWritten(x) ==
    \/ Queued(x)
    \/ exchange[x].stage \in {"sending", "direct"}
    \/ exchange[x] = Idle /\ told[x] = "nothing"

WrittenOnce ==
    \A x \in Exchange :
        /\ exchange[x].stage # "idle" => told[x] = "nothing"
        /\ exchange[x].stage = "idle" => exchange[x] = Idle
        /\ NotYetWritten(x) => x \notin written
        /\ told[x] \in {"away", "ended", "not_opened"} => x \notin written /\ ~Queued(x)
        /\ exchange[x].stage \in {"sending", "direct"} => ~Queued(x)
        /\ exchange[x] = Idle /\ told[x] = "nothing" => ~Queued(x)
        /\ \A c \in Capture : busy[c] = x => x \in written

\* Whoever reads the port or writes to it has it open, and claims it in time.
PortIsTheReaders ==
    /\ \A c \in Capture :
        /\ state[c] = "running" => owner = c
        /\ busy[c] # Nobody => state[c] = "running"
        /\ state[c] \in {"claimed"} \cup Recording \cup Ended => c \in claims
    /\ \A x \in Exchange : exchange[x].stage = "open" => owner = x
    /\ \A b \in Bench :
        /\ reader[b] = "reading" => owner = b /\ tap[b] \in {"opened", "tapping", "joining"}
        /\ owner = b => reader[b] = "reading"
        /\ tap[b] \in {"tapping", "joining"} => b \in claims

\* A host study that is tapping has started its capture, one that was cut has
\* seen it end, and no capture ends as stopped that nobody stopped.
EndsAreKept ==
    \A h \in Host :
        /\ run[h] = "tapping" => state[h] \in Recording \cup Ended \cup Closing
        /\ h \in cut => state[h] \in Ended \cup Closing /\ endedAs[h] # "stopped"
        /\ endedAs[h] = "stopped" => h \in stopping

IInv ==
    /\ TypeOK
    /\ QueuesAreSound
    /\ WrittenOnce
    /\ PortIsTheReaders
    /\ EndsAreKept

-----------------------------------------------------------------------------

LEMMA InitIInv == TapInit => IInv
<1> USE CaptureAssumption, StudyAssumption
<1>1. TapInit => TypeOK
    BY DEF TapInit, Init, TypeOK, CaptureState, Answers, Via, Idle
<1>2. TapInit => QueuesAreSound /\ WrittenOnce
    BY DEF TapInit, Init, QueuesAreSound, WrittenOnce, Queued, NotYetWritten, Once, ToSet, Via, Idle
<1>3. TapInit => PortIsTheReaders /\ EndsAreKept
    BY DEF TapInit, Init, PortIsTheReaders, EndsAreKept, Recording, Ended, Closing, Via, Idle
<1> QED
    BY <1>1, <1>2, <1>3 DEF IInv

\* Every variable keeps its type.
LEMMA TypeNext == TypeOK /\ [TapNext]_allVars => TypeOK'
<1> SUFFICES ASSUME TypeOK, [TapNext]_allVars PROVE TypeOK'
    OBVIOUS
<1> USE CaptureAssumption, StudyAssumption
    DEF TypeOK, CaptureState, Answers, Posting, Recording, Ended, Closing, Via, Idle
<1>0. ASSUME NEW c \in Capture, Finish(c) PROVE state' \in [Capture -> CaptureState]
    <2>1. \E s \in {"stopped", "expired", "byte_cap"} : state' = [state EXCEPT ![c] = s]
        BY <1>0 DEF Finish, To
    <2> QED
        BY <2>1
<1>1. ASSUME NEW c \in Capture, Alone(Check(c)) PROVE TypeOK'
    BY <1>1 DEF Check, To, Alone, tapVars, vars, captureVars, exchangeVars
<1>2. ASSUME NEW c \in Capture, Alone(Claim(c)) PROVE TypeOK'
    BY <1>2 DEF Claim, To, Alone, tapVars, vars, captureVars, exchangeVars
<1>3. ASSUME NEW c \in Capture, Alone(StartFails(c)) PROVE TypeOK'
    BY <1>3 DEF StartFails, To, Alone, tapVars, vars, captureVars, exchangeVars
<1>4. ASSUME NEW c \in Capture, Alone(Start(c)) PROVE TypeOK'
    BY <1>4 DEF Start, To, Alone, tapVars, vars, captureVars, exchangeVars
<1>5. ASSUME NEW c \in Capture, Alone(Finish(c)) PROVE TypeOK'
    BY <1>0, <1>5 DEF Finish, Alone, tapVars, exchangeVars
<1>6. ASSUME NEW c \in Capture, Alone(Read(c)) PROVE TypeOK'
    BY <1>6 DEF Read, To, Alone, tapVars, vars, captureVars, exchangeVars
<1>7. ASSUME NEW c \in Capture, Alone(LosePort(c)) PROVE TypeOK'
    BY <1>7 DEF LosePort, Lose, To, Alone, tapVars, vars, captureVars, exchangeVars
<1>8. ASSUME NEW c \in Capture, Alone(RefuseJobs(c)) PROVE TypeOK'
    BY <1>8 DEF RefuseJobs, Answer, Alone, tapVars, vars, captureVars, exchangeVars
<1>9. ASSUME NEW c \in Capture, Alone(Reopen(c)) PROVE TypeOK'
    BY <1>9 DEF Reopen, To, Alone, tapVars, vars, captureVars, exchangeVars
<1>10. ASSUME NEW c \in Capture, Alone(RunJob(c)) PROVE TypeOK'
    BY <1>10 DEF RunJob, To, Alone, tapVars, vars, captureVars, exchangeVars
<1>11. ASSUME NEW c \in Capture, Alone(JobDone(c)) PROVE TypeOK'
    <2>1. /\ owner' \in {owner, Nobody}
          /\ state' \in [Capture -> CaptureState]
          /\ held' \in [Capture -> Nat]
        <3>1. CASE UNCHANGED <<owner, state>> /\ held' \in {held, [held EXCEPT ![c] = @ + 1]}
            BY <3>1
        <3>2. CASE Lose(c)
            BY <3>2 DEF Lose, To
        <3> QED
            BY <1>11, <3>1, <3>2 DEF JobDone, Alone
    <2>2. busy' \in [Capture -> Exchange \cup {Nobody}] /\ told' \in [Exchange -> Answers]
        BY <1>11 DEF JobDone, Answer, Alone
    <2> QED
        BY <1>11, <2>1, <2>2 DEF JobDone, Answer, Alone, tapVars
<1>12. ASSUME NEW c \in Capture, Alone(Unclaim(c)) PROVE TypeOK'
    BY <1>12 DEF Unclaim, Answer, To, Alone, tapVars, vars, captureVars, exchangeVars
<1>13. ASSUME NEW c \in Capture, Alone(Close(c)) PROVE TypeOK'
    BY <1>13 DEF Close, To, Alone, tapVars, vars, captureVars, exchangeVars
<1>14. ASSUME NEW x \in Exchange, Alone(Look(x)) PROVE TypeOK'
    BY <1>14 DEF Look, Running, Alone, tapVars, vars, captureVars, exchangeVars
<1>15. ASSUME NEW x \in Exchange, Alone(Send(x)) PROVE TypeOK'
    <2> DEFINE c == exchange[x].with
    <2>0. c \in Capture /\ exchange[x].stage = "sending"
        BY <1>15 DEF Send, Alone
    <2>1. CASE state[c] \in Recording \cup Ended
        <3>1. /\ jobs' = [jobs EXCEPT ![c] = Append(@, x)]
              /\ exchange' = [exchange EXCEPT ![x] = Via("sent", c)]
            BY <1>15, <2>1 DEF Send, Alone
        <3>2. jobs' \in [Capture -> Seq(Exchange)]
            BY <2>0, <3>1
        <3>3. \A y \in Exchange : exchange'[y].stage = "sending" => exchange'[y].with \in Capture
            BY <3>1
        <3>4. exchange' \in [Exchange -> [stage : {"idle", "sending", "sent", "direct", "open"},
                                  with : Capture \cup {Nobody}]]
            BY <2>0, <3>1
        <3> QED
            BY <1>15, <2>1, <3>2, <3>3, <3>4 DEF Send, Alone, tapVars
    <2>2. CASE state[c] \notin Recording \cup Ended
        <3>1. Say(x, "ended") /\ UNCHANGED jobs
            BY <1>15, <2>2 DEF Send, Alone
        <3> QED
            BY <1>15, <3>1 DEF Send, Say, Alone, tapVars
    <2> QED
        BY <2>1, <2>2
<1>16. ASSUME NEW x \in Exchange, Alone(TimeOut(x)) PROVE TypeOK'
    BY <1>16 DEF TimeOut, Say, Alone, tapVars, vars, captureVars, exchangeVars
<1>17. ASSUME NEW x \in Exchange, Alone(OpenDirect(x)) PROVE TypeOK'
    BY <1>17 DEF OpenDirect, Alone, tapVars, vars, captureVars, exchangeVars
<1>18. ASSUME NEW x \in Exchange, Alone(DirectFails(x)) PROVE TypeOK'
    BY <1>18 DEF DirectFails, Say, Alone, tapVars, vars, captureVars, exchangeVars
<1>19. ASSUME NEW x \in Exchange, Alone(DirectDone(x)) PROVE TypeOK'
    BY <1>19 DEF DirectDone, Say, Alone, tapVars, vars, captureVars, exchangeVars
<1>20. ASSUME NEW d \in Delete, Alone(Stop(d)) PROVE TypeOK'
    BY <1>20 DEF Stop, Alone, tapVars, vars, captureVars, exchangeVars
<1>21. ASSUME NEW d \in Delete, Alone(RemoveRecord(d)) PROVE TypeOK'
    BY <1>21 DEF RemoveRecord, Alone, tapVars, vars, captureVars, exchangeVars
<1>22. ASSUME NEW b \in Bench, AdmitTap(b) PROVE TypeOK'
    BY <1>22 DEF AdmitTap, vars, captureVars, exchangeVars
<1>23. ASSUME NEW b \in Bench, OpenTap(b) PROVE TypeOK'
    BY <1>23 DEF OpenTap, vars, captureVars, exchangeVars
<1>24. ASSUME NEW b \in Bench, NeverOpens(b) PROVE TypeOK'
    BY <1>24 DEF NeverOpens, vars, captureVars, exchangeVars
<1>25. ASSUME NEW b \in Bench, ClaimTap(b) PROVE TypeOK'
    BY <1>25 DEF ClaimTap, vars, captureVars, exchangeVars
<1>26. ASSUME NEW b \in Bench, ReaderEnds(b) PROVE TypeOK'
    BY <1>26 DEF ReaderEnds, vars, captureVars, exchangeVars
<1>27. ASSUME NEW b \in Bench, EndScope(b) PROVE TypeOK'
    BY <1>27 DEF EndScope, vars, captureVars, exchangeVars
<1>28. ASSUME NEW b \in Bench, Join(b) PROVE TypeOK'
    BY <1>28 DEF Join, vars, captureVars, exchangeVars
<1>29. ASSUME NEW h \in Host, HostCheck(h) PROVE TypeOK'
    BY <1>29 DEF HostCheck, To, vars, captureVars, exchangeVars
<1>30. ASSUME NEW h \in Host, HostRefused(h) PROVE TypeOK'
    BY <1>30 DEF HostRefused, StartFails, To, vars, captureVars, exchangeVars
<1>31. ASSUME NEW h \in Host, HostStart(h) PROVE TypeOK'
    BY <1>31 DEF HostStart, Start, To, vars, captureVars, exchangeVars
<1>32. ASSUME NEW h \in Host, TapFinishes(h) PROVE TypeOK'
    BY <1>0, <1>32 DEF TapFinishes, Finish, exchangeVars
<1>33. ASSUME NEW h \in Host, Shutdown(h) PROVE TypeOK'
    BY <1>33 DEF Shutdown, To, vars, captureVars, exchangeVars
<1>34. ASSUME NEW h \in Host, FinishTaps(h) PROVE TypeOK'
    BY <1>34 DEF FinishTaps, RecordAfter, vars, captureVars, exchangeVars
<1>35. CASE UNCHANGED allVars
    BY <1>35 DEF allVars, vars, captureVars, exchangeVars, tapVars
<1> QED
    BY <1>1, <1>2, <1>3, <1>4, <1>5, <1>6, <1>7, <1>8, <1>9, <1>10, <1>11, <1>12, <1>13,
       <1>14, <1>15, <1>16, <1>17, <1>18, <1>19, <1>20, <1>21, <1>22, <1>23, <1>24, <1>25,
       <1>26, <1>27, <1>28, <1>29, <1>30, <1>31, <1>32, <1>33, <1>34, <1>35
    DEF TapNext, BenchStep, HostStep, PostStep, ThreadGoesOn, ExchangeStep, Alone

-----------------------------------------------------------------------------
(* Queued commands                                                         *)

\* A command that is sent joins the others.
LEMMA QueueAppend ==
    ASSUME NEW s \in Seq(Exchange), Once(s), NEW x \in Exchange, x \notin ToSet(s)
    PROVE  Once(Append(s, x)) /\ ToSet(Append(s, x)) = ToSet(s) \cup {x}
<1>1. DOMAIN Append(s, x) = DOMAIN s \cup {Len(s) + 1} /\ Append(s, x)[Len(s) + 1] = x
    OBVIOUS
<1>2. \A i \in DOMAIN s : Append(s, x)[i] = s[i]
    OBVIOUS
<1> QED
    BY <1>1, <1>2 DEF Once, ToSet

\* The first command is taken, and the others stay.
LEMMA QueueTail ==
    ASSUME NEW s \in Seq(Exchange), Once(s), s # <<>>
    PROVE  /\ Once(Tail(s)) /\ Head(s) \in ToSet(s)
           /\ ToSet(Tail(s)) = ToSet(s) \ {Head(s)}
<1>1. Len(s) \in Nat \ {0} /\ DOMAIN s = 1 .. Len(s) /\ Head(s) = s[1]
    OBVIOUS
<1>2. DOMAIN Tail(s) = 1 .. Len(s) - 1 /\ \A i \in 1 .. Len(s) - 1 : Tail(s)[i] = s[i + 1]
    OBVIOUS
<1>3. Once(Tail(s)) /\ Head(s) \in ToSet(s)
    BY <1>1, <1>2 DEF Once, ToSet
<1>4. \A y \in ToSet(Tail(s)) : y \in ToSet(s) /\ y # Head(s)
    BY <1>1, <1>2 DEF Once, ToSet
<1>5. ASSUME NEW y \in ToSet(s), y # Head(s) PROVE y \in ToSet(Tail(s))
    <2>1. PICK i \in 1 .. Len(s) : s[i] = y
        BY <1>1, <1>5 DEF ToSet
    <2>2. i - 1 \in 1 .. Len(s) - 1 /\ Tail(s)[i - 1] = y
        BY <1>1, <1>2, <1>5, <2>1
    <2> QED
        BY <1>2, <2>2 DEF ToSet
<1> QED
    BY <1>3, <1>4, <1>5

LEMMA QueueEmpty == ToSet(<<>>) = {} /\ Once(<<>>)
BY DEF ToSet, Once

\* What an answer does to each exchange: nothing, or its end.
LEMMA AnswerEffect ==
    ASSUME NEW X, NEW what, Answer(X, what)
    PROVE  \A x \in Exchange :
                IF x \in X /\ exchange[x].stage = "sent"
                THEN told'[x] = what /\ exchange'[x] = Idle
                ELSE told'[x] = told[x] /\ exchange'[x] = exchange[x]
BY DEF Answer

queueVars == <<jobs, busy, exchange, told, written>>

\* The steps that have to do with commands, and all the others.
LEMMA QueueStep ==
    ASSUME [TapNext]_allVars
    PROVE  \/ UNCHANGED queueVars
           \/ \E c \in Capture : RefuseJobs(c) \/ RunJob(c) \/ JobDone(c) \/ Unclaim(c)
           \/ \E x \in Exchange : ExchangeStep(x)
<1> USE DEF queueVars, vars, captureVars, exchangeVars
<1>1. ASSUME NEW b \in Bench, BenchStep(b) PROVE UNCHANGED queueVars
    BY <1>1 DEF BenchStep, AdmitTap, OpenTap, NeverOpens, ClaimTap, ReaderEnds, EndScope, Join
<1>2. ASSUME NEW h \in Host, HostStep(h) PROVE UNCHANGED queueVars
    BY <1>2 DEF HostStep, HostCheck, Alone, Claim, HostRefused, StartFails, HostStart, Start,
       TapFinishes, Finish, Shutdown, FinishTaps
<1>3. ASSUME NEW c, PostStep(c) \/ Finish(c) PROVE UNCHANGED queueVars
    BY <1>3 DEF PostStep, Check, Claim, StartFails, Start, Finish
<1>4. ASSUME NEW c, Read(c) \/ LosePort(c) \/ Reopen(c) \/ Close(c) PROVE UNCHANGED queueVars
    BY <1>4 DEF Read, LosePort, Reopen, Close
<1>5. ASSUME NEW d, Stop(d) \/ RemoveRecord(d) PROVE UNCHANGED queueVars
    BY <1>5 DEF Stop, RemoveRecord
<1>6. CASE UNCHANGED allVars
    BY <1>6 DEF allVars
<1> QED
    BY <1>1, <1>2, <1>3, <1>4, <1>5, <1>6 DEF TapNext, Alone, ThreadGoesOn

\* Queues that lose commands, and whose others wait as before, stay sound.
LEMMA QueuesStaySound ==
    ASSUME QueuesAreSound,
           \A c \in Capture : Once(jobs'[c]) /\ ToSet(jobs'[c]) \subseteq ToSet(jobs[c]),
           \A c \in Capture, x \in Exchange : x \in ToSet(jobs'[c]) =>
                exchange'[x] = exchange[x] /\ told'[x] = told[x]
    PROVE  QueuesAreSound'
<1>1. \A c, d \in Capture : c # d => ToSet(jobs'[c]) \cap ToSet(jobs'[d]) = {}
    BY DEF QueuesAreSound
<1>2. ASSUME NEW c \in Capture, NEW x \in Exchange, x \in ToSet(jobs'[c])
      PROVE  exchange'[x] = Via("sent", c) \/ (exchange'[x] = Idle /\ told'[x] = "late")
    BY <1>2 DEF QueuesAreSound
<1> QED
    BY <1>1, <1>2 DEF QueuesAreSound, Via, Idle

LEMMA QueuesNext == IInv /\ [TapNext]_allVars => QueuesAreSound' /\ WrittenOnce'
<1> SUFFICES ASSUME IInv, [TapNext]_allVars PROVE QueuesAreSound' /\ WrittenOnce'
    OBVIOUS
<1>t. TypeOK /\ TypeOK'
    BY TypeNext DEF IInv
<1> USE CaptureAssumption DEF IInv, QueuesAreSound, WrittenOnce, NotYetWritten, Queued
<1>1. CASE UNCHANGED queueVars
    BY <1>1 DEF queueVars
<1>2. ASSUME NEW c \in Capture, RefuseJobs(c) \/ Unclaim(c)
      PROVE  QueuesAreSound' /\ WrittenOnce'
    <2>1. jobs' = [jobs EXCEPT ![c] = <<>>] /\ UNCHANGED <<busy, written>>
        BY <1>2 DEF RefuseJobs, Unclaim
    <2>2. \A d \in Capture : jobs'[d] = IF d = c THEN <<>> ELSE jobs[d]
        BY <1>t, <2>1 DEF TypeOK
    <2>3. \A x \in Exchange :
            IF x \in ToSet(jobs[c]) /\ exchange[x].stage = "sent"
            THEN told'[x] \in {"away", "late"} /\ exchange'[x] = Idle
            ELSE told'[x] = told[x] /\ exchange'[x] = exchange[x]
        BY <1>2, AnswerEffect DEF RefuseJobs, Unclaim
    <2>4. QueuesAreSound'
        <3>1. \A d \in Capture : Once(jobs'[d]) /\ ToSet(jobs'[d]) \subseteq ToSet(jobs[d])
            BY <2>2, QueueEmpty
        <3>2. ASSUME NEW d \in Capture, NEW x \in Exchange, x \in ToSet(jobs'[d])
              PROVE  exchange'[x] = exchange[x] /\ told'[x] = told[x]
            <4>1. d # c /\ x \in ToSet(jobs[d])
                BY <2>2, <3>2, QueueEmpty
            <4>2. x \notin ToSet(jobs[c])
                BY <4>1
            <4> QED
                BY <2>3, <4>2
        <3> QED
            BY <3>1, <3>2, QueuesStaySound
    <2>5. WrittenOnce'
        BY <2>1, <2>2, <2>3, QueueEmpty DEF Via, Idle
    <2> QED
        BY <2>4, <2>5
<1>3. ASSUME NEW c \in Capture, RunJob(c) PROVE QueuesAreSound' /\ WrittenOnce'
    <2>1. jobs[c] \in Seq(Exchange) /\ jobs[c] # <<>> /\ Once(jobs[c])
        BY <1>t, <1>3 DEF RunJob, TypeOK
    <2>2. PICK x \in Exchange : x = Head(jobs[c]) /\ x \in ToSet(jobs[c])
        BY <2>1, QueueTail
    <2>3. \A d \in Capture :
            /\ Once(jobs'[d])
            /\ ToSet(jobs'[d]) = IF d = c THEN ToSet(jobs[c]) \ {x} ELSE ToSet(jobs[d])
        <3>1. \A d \in Capture : jobs'[d] = IF d = c THEN Tail(jobs[c]) ELSE jobs[d]
            BY <1>t, <1>3 DEF RunJob, TypeOK
        <3>2. Once(Tail(jobs[c])) /\ ToSet(Tail(jobs[c])) = ToSet(jobs[c]) \ {x}
            BY <2>1, <2>2, QueueTail
        <3> QED
            BY <3>1, <3>2
    <2>4. /\ written' = written \cup {x}
          /\ UNCHANGED <<exchange, told>>
          /\ \A d \in Capture : busy'[d] = IF d = c THEN x ELSE busy[d]
        BY <1>t, <1>3, <2>2 DEF RunJob, TypeOK
    <2>5. ~Queued(x)'
        BY <2>2, <2>3
    <2>6. QueuesAreSound'
        BY <2>2, <2>3, <2>4
    <2>7. WrittenOnce'
        BY <2>2, <2>3, <2>4, <2>5 DEF Via, Idle
    <2> QED
        BY <2>6, <2>7
<1>4. ASSUME NEW c \in Capture, JobDone(c) PROVE QueuesAreSound' /\ WrittenOnce'
    <2>1. /\ UNCHANGED <<jobs, written>>
          /\ busy[c] \in Exchange \cap written
          /\ \A d \in Capture : busy'[d] \in {busy[d], Nobody}
        BY <1>t, <1>4 DEF JobDone, TypeOK
    <2>2. \A x \in Exchange :
            IF x = busy[c] /\ exchange[x].stage = "sent"
            THEN told'[x] = "reply" /\ exchange'[x] = Idle
            ELSE told'[x] = told[x] /\ exchange'[x] = exchange[x]
        BY <1>4, AnswerEffect DEF JobDone
    <2>3. ~Queued(busy[c])
        BY <2>1
    <2>4. QueuesAreSound'
        BY <2>1, <2>2, <2>3
    <2>5. WrittenOnce'
        BY <2>1, <2>2, <2>3 DEF Via, Idle
    <2> QED
        BY <2>4, <2>5
<1>5. ASSUME NEW x \in Exchange, Look(x) PROVE QueuesAreSound' /\ WrittenOnce'
    <2>1. /\ UNCHANGED <<jobs, busy, told, written>>
          /\ exchange[x] = Idle /\ told[x] = "nothing"
          /\ exchange'[x].stage \in {"sending", "direct"}
          /\ \A y \in Exchange \ {x} : exchange'[y] = exchange[y]
        BY <1>t, <1>5 DEF Look, TypeOK, Via, captureVars
    <2>2. QueuesAreSound' /\ WrittenOnce'
        BY <2>1 DEF Via, Idle
    <2> QED
        BY <2>2
<1>6. ASSUME NEW x \in Exchange, Send(x) PROVE QueuesAreSound' /\ WrittenOnce'
    <2>c. PICK c \in Capture : c = exchange[x].with
        BY <1>t, <1>6 DEF Send, TypeOK
    <2>0. /\ exchange[x].stage = "sending" /\ UNCHANGED <<busy, written>>
          /\ jobs[c] \in Seq(Exchange) /\ Once(jobs[c]) /\ ~Queued(x)
        BY <1>t, <1>6 DEF Send, TypeOK
    <2>1. CASE state[c] \in Recording \cup Ended
        <3>1. /\ jobs' = [jobs EXCEPT ![c] = Append(@, x)]
              /\ exchange' = [exchange EXCEPT ![x] = Via("sent", c)]
              /\ UNCHANGED told
            BY <1>6, <2>c, <2>1 DEF Send
        <3>2. \A d \in Capture :
                /\ Once(jobs'[d])
                /\ ToSet(jobs'[d]) = IF d = c THEN ToSet(jobs[c]) \cup {x} ELSE ToSet(jobs[d])
            <4>1. \A d \in Capture : jobs'[d] = IF d = c THEN Append(jobs[c], x) ELSE jobs[d]
                BY <1>t, <3>1 DEF TypeOK
            <4>2. Once(Append(jobs[c], x)) /\ ToSet(Append(jobs[c], x)) = ToSet(jobs[c]) \cup {x}
                BY <2>c, <2>0, QueueAppend
            <4> QED
                BY <4>1, <4>2
        <3>3. \A y \in Exchange : exchange'[y] = IF y = x THEN Via("sent", c) ELSE exchange[y]
            BY <1>t, <3>1 DEF TypeOK
        <3>4. QueuesAreSound'
            <4>1. \A d, e \in Capture : d # e => ToSet(jobs'[d]) \cap ToSet(jobs'[e]) = {}
                BY <2>c, <2>0, <3>2
            <4>2. ASSUME NEW d \in Capture, NEW y \in Exchange, y \in ToSet(jobs'[d]) 
                  PROVE  exchange'[y] = Via("sent", d) \/ (exchange'[y] = Idle /\ told'[y] = "late")
                <5>1. CASE y = x
                    BY <2>c, <2>0, <3>2, <3>3, <4>2, <5>1
                <5>2. CASE y # x
                    BY <2>c, <2>0, <3>1, <3>2, <3>3, <4>2, <5>2
                <5> QED
                    BY <5>1, <5>2
            <4> QED
                BY <3>2, <4>1, <4>2
        <3>5. WrittenOnce'
            BY <2>c, <2>0, <3>1, <3>2, <3>3 DEF Via, Idle
        <3> QED
            BY <3>4, <3>5
    <2>2. CASE state[c] \notin Recording \cup Ended
        <3>1. UNCHANGED jobs /\ Say(x, "ended")
            BY <1>6, <2>c, <2>2 DEF Send
        <3>2. \A y \in Exchange : IF y = x THEN told'[y] = "ended" /\ exchange'[y] = Idle
                                 ELSE told'[y] = told[y] /\ exchange'[y] = exchange[y]
            BY <1>t, <3>1 DEF Say, TypeOK
        <3>3. QueuesAreSound'
            <4>1. \A d \in Capture : jobs'[d] = jobs[d] /\ x \notin ToSet(jobs[d])
                BY <2>0, <3>1
            <4>2. \A d \in Capture : Once(jobs'[d])
                BY <4>1
            <4> QED
                BY <3>2, <4>1, <4>2, QueuesStaySound
        <3>4. WrittenOnce'
            BY <2>0, <3>1, <3>2 DEF Via, Idle
        <3> QED
            BY <3>3, <3>4
    <2> QED
        BY <2>1, <2>2
<1>7. ASSUME NEW x \in Exchange, NEW what \in {"late", "not_opened", "reply"}, Say(x, what),
             UNCHANGED <<jobs, busy, written>>,
             what = "late" => exchange[x].stage = "sent",
             what = "not_opened" => exchange[x].stage = "direct",
             what = "reply" => exchange[x].stage = "open"
      PROVE  QueuesAreSound' /\ WrittenOnce'
    <2>1. \A y \in Exchange : IF y = x THEN told'[y] = what /\ exchange'[y] = Idle
                             ELSE told'[y] = told[y] /\ exchange'[y] = exchange[y]
        BY <1>t, <1>7 DEF Say, TypeOK
    <2> QED
        BY <1>7, <2>1 DEF Via, Idle
<1>8. ASSUME NEW x \in Exchange, OpenDirect(x) PROVE QueuesAreSound' /\ WrittenOnce'
    <2>1. /\ UNCHANGED <<jobs, busy, told>>
          /\ exchange[x].stage = "direct" /\ written' = written \cup {x}
          /\ \A y \in Exchange : exchange'[y] = IF y = x THEN Via("open", Nobody) ELSE exchange[y]
        BY <1>t, <1>8 DEF OpenDirect, TypeOK
    <2> QED
        BY <2>1 DEF Via, Idle
<1>9. ASSUME NEW x \in Exchange, TimeOut(x) \/ DirectFails(x) \/ DirectDone(x)
      PROVE  QueuesAreSound' /\ WrittenOnce'
    BY <1>7, <1>9 DEF TimeOut, DirectFails, DirectDone, captureVars
<1> QED
    BY QueueStep, <1>1, <1>2, <1>3, <1>4, <1>5, <1>6, <1>8, <1>9 DEF ExchangeStep

-----------------------------------------------------------------------------
(* The port and its claims                                                 *)

portVars == <<owner, claims, state, busy, exchange, tap, reader>>

\* Every step leaves the port with who reads it or writes to it.
LEMMA PortNext == IInv /\ [TapNext]_allVars => PortIsTheReaders'
<1> SUFFICES ASSUME IInv, [TapNext]_allVars PROVE PortIsTheReaders'
    OBVIOUS
<1>t. TypeOK /\ PortIsTheReaders
    BY DEF IInv
<1> USE CaptureAssumption, StudyAssumption
    DEF PortIsTheReaders, TypeOK, Posting, Recording, Ended, Closing, CaptureState, Via, Idle,
        Alone, vars, captureVars, exchangeVars, tapVars
<1>1. CASE UNCHANGED portVars
    BY <1>t, <1>1 DEF portVars
<1>2. ASSUME NEW c \in Capture, Check(c) \/ Claim(c) \/ StartFails(c) \/ Start(c),
             UNCHANGED <<tap, reader>>
      PROVE  PortIsTheReaders'
    <2>1. CASE Check(c)
        BY <1>t, <1>2, <2>1 DEF Check, To
    <2>2. CASE Claim(c)
        BY <1>t, <1>2, <2>2 DEF Claim, To
    <2>3. CASE StartFails(c)
        BY <1>t, <1>2, <2>3 DEF StartFails, To
    <2>4. CASE Start(c)
        BY <1>t, <1>2, <2>4 DEF Start, To
    <2> QED
        BY <1>2, <2>1, <2>2, <2>3, <2>4
<1>3. ASSUME NEW c \in Capture, Finish(c), UNCHANGED <<tap, reader>> PROVE PortIsTheReaders'
    <2>1. \E s \in Ended : state' = [state EXCEPT ![c] = s]
        BY <1>3 DEF Finish, To
    <2> QED
        BY <1>t, <1>3, <2>1 DEF Finish, AtTop
<1>4. ASSUME NEW c \in Capture, Alone(ThreadGoesOn(c)) PROVE PortIsTheReaders'
    <2>1. CASE Read(c) \/ RefuseJobs(c)
        <3>1. \A x \in Exchange : exchange'[x].stage = "open" => exchange[x].stage = "open"
            BY <2>1, AnswerEffect DEF Read, RefuseJobs
        <3>2. UNCHANGED <<owner, claims, state, busy>>
            BY <2>1 DEF Read, RefuseJobs
        <3> QED
            BY <1>t, <1>4, <3>1, <3>2
    <2>2. CASE LosePort(c)
        BY <1>t, <1>4, <2>2 DEF LosePort, Lose, To, AtTop
    <2>3. CASE Reopen(c)
        BY <1>t, <1>4, <2>3 DEF Reopen, To, AtTop
    <2>4. CASE RunJob(c)
        BY <1>t, <1>4, <2>4 DEF RunJob
    <2>5. CASE JobDone(c)
        <3>1. CASE UNCHANGED <<owner, state>>
            BY <1>t, <1>4, <2>5, <3>1 DEF JobDone, Answer
        <3>2. CASE Lose(c)
            BY <1>t, <1>4, <2>5, <3>2 DEF JobDone, Lose, To, Answer
        <3> QED
            BY <2>5, <3>1, <3>2 DEF JobDone
    <2>6. CASE Unclaim(c)
        BY <1>t, <1>4, <2>6 DEF Unclaim, To, Answer
    <2>7. CASE Close(c)
        BY <1>t, <1>4, <2>7 DEF Close, To
    <2> QED
        BY <1>4, <2>1, <2>2, <2>3, <2>4, <2>5, <2>6, <2>7 DEF ThreadGoesOn
<1>5. ASSUME NEW x \in Exchange, Alone(ExchangeStep(x)) PROVE PortIsTheReaders'
    <2>1. CASE Look(x)
        BY <1>t, <1>5, <2>1 DEF Look
    <2>2. CASE Send(x) \/ TimeOut(x) \/ DirectFails(x)
        <3>1. \E e : /\ exchange' = [exchange EXCEPT ![x] = e]
                     /\ e.stage # "open"
            BY <2>2 DEF Send, TimeOut, DirectFails, Say
        <3>2. UNCHANGED <<owner, claims, state, busy>>
            BY <2>2 DEF Send, TimeOut, DirectFails
        <3> QED
            BY <1>t, <1>5, <3>1, <3>2
    <2>4. CASE OpenDirect(x)
        BY <1>t, <1>5, <2>4 DEF OpenDirect
    <2>5. CASE DirectDone(x)
        BY <1>t, <1>5, <2>5 DEF DirectDone, Say
    <2> QED
        BY <1>5, <2>1, <2>2, <2>4, <2>5 DEF ExchangeStep
<1>6. ASSUME NEW d \in Delete, Alone(Stop(d)) \/ Alone(RemoveRecord(d)) PROVE UNCHANGED portVars
    BY <1>6 DEF Stop, RemoveRecord, portVars
<1>7. ASSUME NEW b \in Bench, BenchStep(b) PROVE PortIsTheReaders'
    <2>1. CASE AdmitTap(b) \/ NeverOpens(b)
        BY <1>t, <1>7, <2>1 DEF AdmitTap, NeverOpens
    <2>2. CASE OpenTap(b)
        BY <1>t, <1>7, <2>2 DEF OpenTap
    <2>3. CASE ClaimTap(b)
        BY <1>t, <1>7, <2>3 DEF ClaimTap
    <2>4. CASE ReaderEnds(b)
        BY <1>t, <1>7, <2>4 DEF ReaderEnds
    <2>5. CASE EndScope(b)
        BY <1>t, <1>7, <2>5 DEF EndScope
    <2>6. CASE Join(b)
        BY <1>t, <1>7, <2>6 DEF Join
    <2> QED
        BY <1>7, <2>1, <2>2, <2>3, <2>4, <2>5, <2>6 DEF BenchStep
<1>8. ASSUME NEW h \in Host, HostStep(h) PROVE PortIsTheReaders'
    <2>1. CASE HostCheck(h)
        BY <1>t, <1>8, <2>1 DEF HostCheck, To
    <2>2. CASE Alone(Claim(h)) \/ HostRefused(h) \/ HostStart(h)
        BY <1>2, <2>2 DEF HostRefused, HostStart
    <2>3. CASE TapFinishes(h)
        BY <1>3, <2>3 DEF TapFinishes
    <2>4. CASE Shutdown(h) \/ FinishTaps(h)
        BY <1>1, <2>4 DEF Shutdown, FinishTaps, portVars
    <2> QED
        BY <1>8, <2>1, <2>2, <2>3, <2>4 DEF HostStep
<1>9. CASE UNCHANGED allVars
    BY <1>1, <1>9 DEF allVars, portVars
<1> QED
    BY <1>1, <1>2, <1>3, <1>4, <1>5, <1>6, <1>7, <1>8, <1>9 DEF TapNext, PostStep

-----------------------------------------------------------------------------
(* The ends of host studies' taps                                          *)

\* Once a capture has started it goes on or ends, and it does not start again.
LEMMA CapturesEndOnce ==
    ASSUME IInv, [TapNext]_allVars, NEW c \in Capture
    PROVE  /\ state[c] \in Recording \cup Ended \cup Closing
                => state'[c] \in Recording \cup Ended \cup Closing
           /\ state[c] \in Ended \cup Closing => state'[c] \in Ended \cup Closing
<1> USE CaptureAssumption, StudyAssumption DEF Recording, Ended, Closing
<1> DEFINE Onward(s, t) ==
        /\ s \in Recording \cup Ended \cup Closing => t \in Recording \cup Ended \cup Closing
        /\ s \in Ended \cup Closing => t \in Ended \cup Closing
    Steps == UNCHANGED state \/ \E d \in Capture : \E s : /\ state' = [state EXCEPT ![d] = s]
                                                         /\ Onward(state[d], s)
<1>t. TypeOK /\ PortIsTheReaders
    BY DEF IInv
<1>1. ASSUME NEW d \in Capture, \/ Check(d) \/ Claim(d) \/ StartFails(d) \/ Start(d)
                                \/ Finish(d) \/ Unclaim(d) \/ Close(d)
      PROVE  Steps
    BY <1>1 DEF Check, Claim, StartFails, Start, Finish, AtTop, Unclaim, Close, To
<1>2. ASSUME NEW d \in Capture, LosePort(d) \/ Reopen(d) \/ JobDone(d) PROVE Steps
    BY <1>t, <1>2 DEF LosePort, Reopen, JobDone, Lose, AtTop, To, PortIsTheReaders
<1>3. ASSUME NEW d \in Capture, ThreadGoesOn(d) PROVE Steps
    BY <1>1, <1>2, <1>3 DEF ThreadGoesOn, Read, RefuseJobs, RunJob
<1>4. ASSUME NEW x, ExchangeStep(x) PROVE Steps
    BY <1>4 DEF ExchangeStep, Look, Send, TimeOut, OpenDirect, DirectFails, DirectDone, captureVars
<1>5. ASSUME NEW d, Stop(d) \/ RemoveRecord(d) PROVE Steps
    BY <1>5 DEF Stop, RemoveRecord
<1>6. ASSUME NEW b \in Bench, BenchStep(b) PROVE Steps
    BY <1>6 DEF BenchStep, AdmitTap, OpenTap, NeverOpens, ClaimTap, ReaderEnds, EndScope, Join,
       vars, captureVars
<1>7. ASSUME NEW h \in Host, HostStep(h) PROVE Steps
    <2>1. \/ UNCHANGED state
          \/ Claim(h) \/ StartFails(h) \/ Start(h) \/ Finish(h)
          \/ state[h] = "none" /\ \E s : state' = [state EXCEPT ![h] = s]
        BY <1>7 DEF HostStep, HostCheck, HostRefused, HostStart, TapFinishes, Shutdown, FinishTaps,
           Alone, To
    <2> QED
        BY <1>1, <2>1
<1>8. Steps
    BY <1>1, <1>3, <1>4, <1>5, <1>6, <1>7
    DEF TapNext, Alone, PostStep, allVars, vars, captureVars
<1> QED
    BY <1>t, <1>8 DEF TypeOK

\* A stop flag that is set stays set.
LEMMA StopsStay == [TapNext]_allVars => stopping \subseteq stopping'
<1> SUFFICES ASSUME [TapNext]_allVars PROVE stopping \subseteq stopping'
    OBVIOUS
<1> USE DEF vars, captureVars
<1>1. ASSUME NEW c, PostStep(c) \/ Finish(c) \/ ThreadGoesOn(c) PROVE UNCHANGED stopping
    BY <1>1 DEF PostStep, Check, Claim, StartFails, Start, Finish, ThreadGoesOn, Read, LosePort,
       RefuseJobs, Reopen, RunJob, JobDone, Unclaim, Close
<1>2. ASSUME NEW x, ExchangeStep(x) PROVE UNCHANGED stopping
    BY <1>2 DEF ExchangeStep, Look, Send, TimeOut, OpenDirect, DirectFails, DirectDone
<1>3. ASSUME NEW d, Stop(d) \/ RemoveRecord(d) PROVE stopping \subseteq stopping'
    BY <1>3 DEF Stop, RemoveRecord
<1>4. ASSUME NEW b, BenchStep(b) PROVE UNCHANGED stopping
    BY <1>4 DEF BenchStep, AdmitTap, OpenTap, NeverOpens, ClaimTap, ReaderEnds, EndScope, Join
<1>5. ASSUME NEW h, HostStep(h) PROVE stopping \subseteq stopping'
    BY <1>1, <1>5 DEF HostStep, HostCheck, HostRefused, HostStart, TapFinishes, Shutdown,
       FinishTaps, Alone, PostStep
<1> QED
    BY <1>1, <1>2, <1>3, <1>4, <1>5 DEF TapNext, Alone, allVars

\* Only six steps change how far a host study is, or what it remembers and says
\* of its tap's end.
LEMMA EndsStep ==
    ASSUME [TapNext]_allVars
    PROVE  \/ UNCHANGED <<run, endedAs, cut, said>>
           \/ \E h \in Host : \/ HostCheck(h) \/ HostRefused(h) \/ HostStart(h)
                             \/ TapFinishes(h) \/ Shutdown(h) \/ FinishTaps(h)
<1>1. ASSUME NEW b \in Bench, BenchStep(b) PROVE UNCHANGED <<run, endedAs, cut, said>>
    BY <1>1 DEF BenchStep, AdmitTap, OpenTap, NeverOpens, ClaimTap, ReaderEnds, EndScope, Join
<1> QED
    BY <1>1 DEF TapNext, HostStep, allVars, tapVars, Alone

LEMMA EndsNext == IInv /\ [TapNext]_allVars => EndsAreKept'
<1> SUFFICES ASSUME IInv, [TapNext]_allVars PROVE EndsAreKept'
    OBVIOUS
<1>t. TypeOK /\ EndsAreKept /\ Host \subseteq Capture
    BY StudyAssumption DEF IInv
<1>c. /\ stopping \subseteq stopping'
      /\ \A h \in Host :
            /\ state[h] \in Recording \cup Ended \cup Closing
                 => state'[h] \in Recording \cup Ended \cup Closing
            /\ state[h] \in Ended \cup Closing => state'[h] \in Ended \cup Closing
    BY <1>t, StopsStay, CapturesEndOnce
<1> USE DEF EndsAreKept
<1>1. CASE UNCHANGED <<run, endedAs, cut>>
    BY <1>t, <1>c, <1>1
<1>2. ASSUME NEW h \in Host, HostCheck(h) \/ HostRefused(h) PROVE EndsAreKept'
    BY <1>t, <1>c, <1>2 DEF HostCheck, HostRefused, TypeOK
<1>3. ASSUME NEW h \in Host, HostStart(h) PROVE EndsAreKept'
    <2>1. state'[h] \in Recording
        BY <1>t, <1>3 DEF HostStart, Start, To, TypeOK, Recording
    <2> QED
        BY <1>t, <1>c, <1>3, <2>1 DEF HostStart, TypeOK
<1>4. ASSUME NEW h \in Host, TapFinishes(h) PROVE EndsAreKept'
    <2>1. /\ state[h] \in Recording
          /\ state'[h] = "stopped" => h \in stopping
        BY <1>t, <1>4 DEF TapFinishes, Finish, AtTop, To, TypeOK
    <2>2. h \notin cut
        BY <1>t, <2>1 DEF Recording, Ended, Closing
    <2> QED
        BY <1>t, <1>c, <1>4, <2>1, <2>2 DEF TapFinishes, TypeOK
<1>5. ASSUME NEW h \in Host, Shutdown(h) PROVE EndsAreKept'
    <2>1. h \in cut' /\ h \notin cut => state[h] \in Ended \cup Closing /\ h \notin stopping
        BY <1>t, <1>5, CaptureAssumption DEF Shutdown, Running
    <2> QED
        BY <1>t, <1>c, <1>5, <2>1 DEF Shutdown, TypeOK
<1>6. ASSUME NEW h \in Host, FinishTaps(h) PROVE EndsAreKept'
    BY <1>t, <1>c, <1>6 DEF FinishTaps, TypeOK
<1> QED
    BY EndsStep, <1>1, <1>2, <1>3, <1>4, <1>5, <1>6

-----------------------------------------------------------------------------

\* Every step of a capture, an exchange, a DELETE or a study preserves it all.
LEMMA NextIInv == IInv /\ [TapNext]_allVars => IInv'
BY TypeNext, QueuesNext, PortNext, EndsNext DEF IInv

\* Ports, claims, channels and what is said of taps always agree.
THEOREM Inductive == TapSpec => []IInv
BY InitIInv, NextIInv, PTL DEF TapSpec

\* An exchange that was told that its command was not written never has it
\* written, also not later, when the port is back.
THEOREM RefusedStayUnwritten == TapSpec => []RefusedMeansNotWritten
<1>1. IInv => RefusedMeansNotWritten
    BY DEF IInv, WrittenOnce, RefusedMeansNotWritten
<1> QED
    BY <1>1, Inductive, PTL

\* POST /bootload sees no port as free that a recording capture or a bench
\* study's claimed tap has open.
THEOREM ClaimsCoverOpenPorts == TapSpec => []OpenPortsAreClaimed
<1>1. IInv => OpenPortsAreClaimed
    BY DEF IInv, PortIsTheReaders, OpenPortsAreClaimed
<1> QED
    BY <1>1, Inductive, PTL

\* Two never read or write one port: a capture that reads, an exchange that
\* opened the port itself and a bench study's reader keep one another out.
OneUserOfThePort ==
    \A o \in Capture \cup Exchange \cup Bench :
        \/ o \in Capture /\ state[o] = "running"
        \/ o \in Exchange /\ exchange[o].stage = "open"
        \/ o \in Bench /\ reader[o] = "reading"
        => owner = o

\* The port's one owner is the one who uses it, whatever was lost and reopened.
THEOREM PortIsExclusive == TapSpec => []OneUserOfThePort
<1>1. IInv => OneUserOfThePort
    BY DEF IInv, PortIsTheReaders, OneUserOfThePort
<1> QED
    BY <1>1, Inductive, PTL

\* A host study's record says that a tap was over before its study was.
THEOREM CutTapsAreTruncated == TapSpec => EarlyEndsAreSaid
<1> DEFINE Says == \A h \in cut : said'[h] # said[h] => said'[h] = "truncated"
<1>1. IInv /\ [TapNext]_allVars => [Says]_allVars
    <2> SUFFICES ASSUME IInv, [TapNext]_allVars PROVE Says
        OBVIOUS
    <2>1. TypeOK /\ EndsAreKept
        BY DEF IInv
    <2>2. ASSUME NEW h \in Host, FinishTaps(h) PROVE Says
        BY <2>1, <2>2 DEF FinishTaps, Whole, TypeOK, EndsAreKept
    <2> QED
        BY EndsStep, <2>2 DEF HostCheck, HostRefused, HostStart, TapFinishes, Shutdown
<1> QED
    BY <1>1, Inductive, PTL DEF TapSpec, EarlyEndsAreSaid

\* No study takes the record of a capture that somebody POSTed: only a DELETE
\* does, while it records.
THEOREM PostedCapturesStay == TapSpec => OthersRecordsStay
<1> DEFINE Stays == \A c \in Capture \ Host :
                        Running(c) /\ registry = c /\ registry' # c => deleting' # deleting
<1>1. IInv /\ [TapNext]_allVars => [Stays]_allVars
    <2> SUFFICES ASSUME IInv, [TapNext]_allVars PROVE Stays
        OBVIOUS
    <2> USE DEF vars, captureVars
    <2>t. TypeOK
        BY DEF IInv
    <2>1. ASSUME NEW c, PostStep(c) \/ Finish(c) \/ ThreadGoesOn(c) PROVE Stays
        BY <2>1 DEF PostStep, Check, Claim, StartFails, Start, Finish, ThreadGoesOn, Read,
           LosePort, RefuseJobs, Reopen, RunJob, JobDone, Unclaim, Close
    <2>2. ASSUME NEW x, ExchangeStep(x) PROVE Stays
        BY <2>2 DEF ExchangeStep, Look, Send, TimeOut, OpenDirect, DirectFails, DirectDone
    <2>3. ASSUME NEW d \in Delete, Stop(d) PROVE Stays
        BY <2>3 DEF Stop
    <2>4. ASSUME NEW d \in Delete, RemoveRecord(d) PROVE Stays
        BY <2>t, <2>4 DEF RemoveRecord, TypeOK
    <2>5. ASSUME NEW b, BenchStep(b) PROVE Stays
        BY <2>5 DEF BenchStep, AdmitTap, OpenTap, NeverOpens, ClaimTap, ReaderEnds, EndScope, Join
    <2>6. ASSUME NEW h \in Host, HostStep(h) PROVE Stays
        BY <2>1, <2>6 DEF HostStep, HostCheck, HostRefused, HostStart, TapFinishes, Shutdown,
           FinishTaps, RecordAfter, Alone, PostStep
    <2> QED
        BY <2>1, <2>2, <2>3, <2>4, <2>5, <2>6 DEF TapNext, Alone, allVars
<1> QED
    BY <1>1, Inductive, PTL DEF TapSpec, OthersRecordsStay
=============================================================================
