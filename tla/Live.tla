-------------------------------- MODULE Live --------------------------------
(***************************************************************************)
(* The live reads of embarch-core (src/src/live.rs): mem-read and          *)
(* core-state, which stop the DUT's core to look at it and let it run      *)
(* again, beside the requests that reset it (src/src/hardware.rs), all     *)
(* under hw_lock (module HwLock).                                          *)
(*                                                                         *)
(* Whether the core executes is all that is kept of the DUT.  Nothing but  *)
(* the probe starts or stops it here: a debugger of somebody else's, or a  *)
(* breakpoint, may have stopped it before.  The identity gate's own halts  *)
(* are embarch-topology's and are over when these begin.                   *)
(***************************************************************************)
CONSTANTS
    Request, NoRequest, MayLeave,   \* as in HwLock
    Halting,    \* mem-read, and core-state with halt
    Peeking,    \* core-state without halt, which reads what a running core shows
    Resetting   \* reset, and a flash, which ends with a reset

ASSUME RequestAssumption == NoRequest \notin Request /\ MayLeave \subseteq Request
ASSUME KindAssumption ==
    /\ Halting \subseteq Request /\ Peeking \subseteq Request /\ Resetting \subseteq Request
    /\ Halting \cap Peeking = {} /\ (Halting \cup Peeking) \cap Resetting = {}

VARIABLES
    permit, hwHolder, phase, op, gone,  \* HwLock's
    core,       \* the DUT's core; "stopping" if it was told to and has not yet
    at,         \* how far each request's closure has come
    found,      \* the state each read found, and says it left; or not yet
    mishap,     \* a halt, a resume or a flash failed, and its request said so
    beside      \* ghost: requests with whose closure another's ran, and touched the core

hwVars == <<permit, hwHolder, phase, op, gone>>
vars == <<hwVars, core, at, found, mishap, beside>>

Hw == INSTANCE HwLock

Reading == Halting \cup Peeking
Touching == Halting \cup Resetting
RunState == {"running", "halted"}
At == {"begun", "erasing", "found", "stopped", "read", "unread", "ok", "failed"}

TypeOK ==
    /\ Hw!TypeOK
    /\ core \in RunState \cup {"stopping"}
    /\ at \in [Request -> At]
    /\ found \in [Request -> RunState \cup {"unknown"}]
    /\ mishap \in BOOLEAN
    /\ beside \subseteq Request

Init ==
    /\ Hw!Init
    /\ core \in RunState
    /\ at = [r \in Request |-> "begun"]
    /\ found = [r \in Request |-> "unknown"]
    /\ mishap = FALSE
    /\ beside = {}

-----------------------------------------------------------------------------
(* The handler: HwLock's actions                                           *)

\* The lock and the guard.
Handle(r) ==
    /\ \/ Hw!Ask(r) \/ Hw!Grant(r) \/ Hw!Refuse(r) \/ Hw!Bail(r)
       \/ Hw!ReleasePermit(r) \/ Hw!LeaveQueue(r)
    /\ UNCHANGED <<core, at, found, mishap, beside>>

\* The closures that run: with hw_lock r's, only abandoned ones.
Orphans == {w \in Request : op[w] = "running"}

\* The closure starts, perhaps beside one that nobody awaits any more.
Spawn(r) ==
    /\ Hw!Spawn(r)
    /\ beside' = beside \cup (IF Orphans \cap Touching # {} THEN {r} ELSE {})
                         \cup (IF r \in Touching THEN Orphans ELSE {})
    /\ UNCHANGED <<core, at, found, mishap>>

\* What r found out goes, told or not.
Forget(r) ==
    /\ at' = [at EXCEPT ![r] = "begun"]
    /\ found' = [found EXCEPT ![r] = "unknown"]
    /\ beside' = beside \ {r}

\* The client hangs up on the closure, and the answer it may have goes too.
LeaveWork(r) ==
    /\ Hw!LeaveWork(r)
    /\ IF op[r] = "ended" THEN Forget(r) ELSE UNCHANGED <<at, found, beside>>
    /\ UNCHANGED <<core, mishap>>

\* The closure returns; with no handler left its answer is thrown away.
OpEnds(r) ==
    /\ Hw!OpEnds(r)
    /\ at[r] \in {"ok", "failed"}
    /\ IF r \in gone THEN Forget(r) ELSE UNCHANGED <<at, found, beside>>
    /\ UNCHANGED <<core, mishap>>

Answer(r) ==
    /\ Hw!Answer(r)
    /\ Forget(r)
    /\ UNCHANGED <<core, mishap>>

-----------------------------------------------------------------------------
(* The closure: with_core, then read_ranges or read_core_state             *)

Runs(r, from, to) ==
    /\ op[r] = "running" /\ at[r] \in from
    /\ \E t \in to : at' = [at EXCEPT ![r] = t]
    /\ UNCHANGED <<hwVars, beside>>

\* The gate refuses, the probe cannot be opened, or the target not attached to.
NoCore(r) ==
    /\ Runs(r, {"begun"}, {"failed"})
    /\ UNCHANGED <<core, found, mishap>>

\* DHCSR says what state the core is in.
Find(r) ==
    /\ r \in Reading
    /\ Runs(r, {"begun"}, {"found"})
    /\ found' = [found EXCEPT ![r] = IF core = "halted" THEN "halted" ELSE "running"]
    /\ UNCHANGED <<core, mishap>>

\* A core that was found halted is read as it is.
Halt(r) ==
    /\ r \in Halting
    /\ Runs(r, {"found"}, {"stopped"})
    /\ core' = IF found[r] = "running" THEN "halted" ELSE core
    /\ UNCHANGED <<found, mishap>>

\* HALT_TIMEOUT passes and the read is refused; a core in Stop mode may do as
\* it was told when it wakes up.
HaltTimesOut(r) ==
    /\ r \in Halting /\ found[r] = "running"
    /\ Runs(r, {"found"}, {"failed"})
    /\ core' \in {core, "stopping"}
    /\ mishap' = TRUE
    /\ UNCHANGED found

StopsLate ==
    /\ core = "stopping"
    /\ core' = "halted"
    /\ UNCHANGED <<hwVars, at, found, mishap, beside>>

\* The ranges, or the registers and SCB_ICSR; the first that fails is the last.
Read(r) ==
    /\ Runs(r, {"stopped"}, {"read", "unread"})
    /\ UNCHANGED <<core, found, mishap>>

Outcome(r) == IF at[r] = "read" THEN "ok" ELSE "failed"

\* Mutant: a read that failed returns at once.
ResumeIfRead(r) ==
    /\ Runs(r, {"read", "unread"}, {Outcome(r)})
    /\ core' = IF at[r] = "read" /\ found[r] = "running" THEN "running" ELSE core
    /\ UNCHANGED <<found, mishap>>

\* Mutant: a core that was found halted is let run too.
ResumeAlways(r) ==
    /\ Runs(r, {"read", "unread"}, {Outcome(r)})
    /\ core' = "running"
    /\ UNCHANGED <<found, mishap>>

\* Whatever became of the read, a core that was running is let run again, and
\* only then are the two results looked at.
Resume(r) ==
    /\ Runs(r, {"read", "unread"}, {Outcome(r)})
    /\ core' = IF found[r] = "running" THEN "running" ELSE core
    /\ UNCHANGED <<found, mishap>>

ResumeFails(r) ==
    /\ found[r] = "running"
    /\ Runs(r, {"read", "unread"}, {"failed"})
    /\ mishap' = TRUE
    /\ UNCHANGED <<core, found>>

\* PC samples of a running core, none of a halted one, and DHCSR once more.
Peek(r) ==
    /\ r \in Peeking
    /\ Runs(r, {"found"}, {"ok", "failed"})
    /\ UNCHANGED <<core, found, mishap>>

\* probe-rs's flasher stops the core and never lets it run.
StopForFlash(r) ==
    /\ r \in Resetting
    /\ Runs(r, {"begun"}, {"erasing"})
    /\ core' = "halted"
    /\ UNCHANGED <<found, mishap>>

\* The core executes from its reset vector, whether or not it was stopped; a
\* request to stop may outlive it.
Reset(r) ==
    /\ r \in Resetting
    /\ Runs(r, {"begun", "erasing"}, {"ok"})
    /\ core' \in {"running"} \cup ({core} \cap {"stopping"})
    /\ UNCHANGED <<found, mishap>>

\* A flash fails midway, or in the reset that ends it.
ResetFails(r) ==
    /\ r \in Resetting
    /\ Runs(r, {"erasing"}, {"failed"})
    /\ mishap' = TRUE
    /\ UNCHANGED <<core, found>>

Step(r) ==
    \/ Handle(r) \/ Spawn(r) \/ LeaveWork(r) \/ OpEnds(r) \/ Answer(r)
    \/ NoCore(r) \/ Find(r) \/ Halt(r) \/ HaltTimesOut(r) \/ Read(r)
    \/ Resume(r) \/ ResumeFails(r) \/ Peek(r)
    \/ StopForFlash(r) \/ Reset(r) \/ ResetFails(r)

Next == StopsLate \/ \E r \in Request : Step(r)

Spec == Init /\ [][Next]_vars

-----------------------------------------------------------------------------
(* Properties                                                              *)

\* Every word and register is read of a stopped core ("every word read halted
\* is good"), but by a read beside which another's closure touched the core: its
\* client, or the other's, had hung up.  It follows from IInv below.
WordsAreReadHalted ==
    \A r \in Halting \ beside : at[r] = "stopped" => core = "halted"

\* A read leaves the core in the state in which it found it, and the core is
\* still in it when the answer says so; also after a read that failed half-way,
\* until a halt, a resume or a flash has failed, and with the same exception.
LeftAsFound ==
    ~mishap => \A r \in Reading \ beside :
        at[r] \in {"ok", "failed"} /\ found[r] # "unknown" => core = found[r]

\* The closures that have the core stopped, and will let it run again.
Stops(r) ==
    /\ op[r] = "running"
    /\ \/ at[r] = "erasing"
       \/ at[r] \in {"stopped", "read", "unread"} /\ found[r] = "running"

LetRun == ~mishap /\ core = "halted" => \E r \in Request : Stops(r)

\* "A core that was running is let run again": one that runs when Core starts is
\* never stopped but by a closure that is under way, however many are, with or
\* without their clients, and whoever of them stops or starts it meanwhile;
\* until a halt, a resume or a flash has failed.
CoreIsLetRun == core = "running" => []LetRun

-----------------------------------------------------------------------------
(* The inductive invariant                                                 *)

AtMatchesOp ==
    \A r \in Request :
        /\ op[r] = "none" => at[r] = "begun"
        /\ op[r] = "ended" => at[r] \in {"ok", "failed"}
        /\ at[r] = "begun" => found[r] = "unknown"
        /\ at[r] = "erasing" => r \in Resetting
        /\ at[r] \in {"stopped", "read", "unread"} => r \in Halting
        /\ found[r] # "unknown" => r \in Reading
        /\ at[r] \in {"found", "stopped", "read", "unread"} => found[r] # "unknown"

\* Two closures of which one touches the core have run beside each other.
ClosuresMeet ==
    \A r, s \in Request :
        r # s /\ op[r] # "none" /\ op[s] # "none" /\ s \in Touching => r \in beside

\* What a read that is by itself may count on: a core it stopped, or found
\* stopped, is so until it lets it run.
CoreKnown(r) ==
    /\ at[r] = "stopped" => core = "halted"
    /\ at[r] = "found" /\ found[r] = "halted" => core = "halted"
    /\ ~mishap /\ found[r] # "unknown" =>
        core = IF at[r] \in {"stopped", "read", "unread"} THEN "halted" ELSE found[r]

CoreMatchesAt == \A r \in Reading \ beside : CoreKnown(r)

IInv ==
    /\ Hw!IInv
    /\ TypeOK
    /\ AtMatchesOp
    /\ ClosuresMeet
    /\ CoreMatchesAt
    /\ core = "stopping" => mishap
=============================================================================
