------------------------------- MODULE Bench -------------------------------
(***************************************************************************)
(* The bench of embarch-core (src/src/api.rs, lease.rs, bootload.rs,       *)
(* outpost_manifest.rs): requests that pass the lease's gate, contend for  *)
(* hw_lock (module HwLock) and rewrite the DUT, and the two records Core   *)
(* keeps of what it put there: the image log and the outpost manifest.     *)
(*                                                                         *)
(* A request stands for its image: board = r says that r's image is the    *)
(* one on the DUT.  Leases are known here by their token alone; module     *)
(* Lease has their time, and a lease may end at any moment.  Both records  *)
(* are kept for one chip, the DUT's, whose row in the enrollment table     *)
(* tells a bootload which chip it is writing.  What the one write of a     *)
(* flash consists of is module Flashing's.                                 *)
(***************************************************************************)
EXTENDS Flashing
CONSTANTS
    Request, NoRequest, MayLeave,   \* as in HwLock
    Flash,      \* flash requests; each may carry its image's outpost manifest
    Bootload,   \* bootload requests
    Roster,     \* requests that enroll or unenroll the DUT
    Token,      \* lease tokens; each is drawn at most once
    NoToken,    \* no lease, or no lease header
    Partial     \* a DUT whose flash was begun and not finished

Writer == Flash \cup Bootload

ASSUME RequestAssumption == NoRequest \notin Request /\ MayLeave \subseteq Request
ASSUME ImageAssumption == Writer \subseteq Request /\ Partial \notin Writer

VARIABLES
    permit, hwHolder, phase, op, gone,  \* HwLock's
    lease,      \* the live lease's token
    used,       \* the tokens drawn so far
    inside,     \* requests past the gate, until their handler is gone
    under,      \* the lease each of them was admitted under
    progress,   \* how far each request's closure has come
    row,        \* whether each bootload found the DUT's row
    enrolled,   \* whether the DUT has a row
    beside,     \* ghost: writers whose closure ran while another's did
    board,      \* the image on the DUT
    images,     \* ImageLog: under the DUT's chip, and under its role's name
    manifest    \* ManifestSlot: whose manifest is bound to the DUT's chip

hwVars == <<permit, hwHolder, phase, op, gone>>
gateVars == <<lease, used, inside, under>>
recordVars == <<board, images, manifest>>
vars == <<hwVars, gateVars, progress, row, enrolled, beside, recordVars>>

Hw == INSTANCE HwLock

ImageKey == {"chip", "role"}

Init ==
    /\ Hw!Init
    /\ lease = NoToken
    /\ used = {}
    /\ inside = {}
    /\ under = [r \in Request |-> NoToken]
    /\ progress = [r \in Request |-> "todo"]
    /\ row = [r \in Request |-> FALSE]
    /\ enrolled = TRUE
    /\ beside = {}
    /\ board = NoRequest
    /\ images = [k \in ImageKey |-> NoRequest]
    /\ manifest = NoRequest

-----------------------------------------------------------------------------
(* The lease and its gate                                                  *)

TakeLease(t) ==
    /\ lease = NoToken
    /\ t \in Token \ used
    /\ lease' = t
    /\ used' = used \cup {t}
    /\ UNCHANGED <<hwVars, inside, under, progress, row, enrolled, beside, recordVars>>

\* Its token releases it, or its TTL runs out.
EndLease ==
    /\ lease # NoToken
    /\ lease' = NoToken
    /\ UNCHANGED <<hwVars, used, inside, under, progress, row, enrolled, beside, recordVars>>

\* Mutant: the gate lets everybody through.
EnterUngated(r, p) ==
    /\ r \notin inside /\ op[r] = "none"
    /\ inside' = inside \cup {r}
    /\ under' = [under EXCEPT ![r] = IF p = lease THEN p ELSE NoToken]
    /\ UNCHANGED <<hwVars, lease, used, progress, row, enrolled, beside, recordVars>>

\* lease_middleware admits the request before its handler starts to read the
\* body, and never looks again.
Enter(r, p) ==
    /\ r \notin inside /\ op[r] = "none"
    /\ lease \in {NoToken, p}
    /\ inside' = inside \cup {r}
    /\ under' = [under EXCEPT ![r] = lease]
    /\ UNCHANGED <<hwVars, lease, used, progress, row, enrolled, beside, recordVars>>

\* A bad body, or a client that leaves while it is read.
Abort(r) ==
    /\ r \in inside /\ phase[r] = "idle"
    /\ inside' = inside \ {r}
    /\ UNCHANGED <<hwVars, lease, used, under, progress, row, enrolled, beside, recordVars>>

-----------------------------------------------------------------------------
(* The handler: HwLock's actions, and what the closure and the answer do   *)
(* to the board and its records                                            *)

\* Steps that concern the lock alone, with the handler still there after them.
Contend(r) ==
    /\ r \in inside
    /\ Hw!Ask(r) \/ Hw!Grant(r) \/ Hw!Bail(r)
    /\ UNCHANGED <<gateVars, progress, row, enrolled, beside, recordVars>>

\* The client hangs up on the closure, and the result it may have goes too.
LeaveWork(r) ==
    /\ Hw!LeaveWork(r)
    /\ progress' = [progress EXCEPT ![r] = IF op[r] = "ended" THEN "todo" ELSE @]
    /\ beside' = IF op[r] = "ended" THEN beside \ {r} ELSE beside
    /\ UNCHANGED <<gateVars, row, enrolled, recordVars>>

\* Steps after which the handler is gone.
Depart(r) ==
    /\ Hw!Refuse(r) \/ Hw!ReleasePermit(r) \/ Hw!LeaveQueue(r)
    /\ inside' = inside \ {r}
    /\ UNCHANGED <<lease, used, under, progress, row, enrolled, beside, recordVars>>

\* The writers whose closure runs: with hw_lock r's, only abandoned ones.
Orphans == {w \in Writer : op[w] = "running"}

\* The closure starts, perhaps beside one that nobody awaits any more; a
\* bootload's first reads the DUT's row.
Spawn(r) ==
    /\ Hw!Spawn(r)
    /\ row' = [row EXCEPT ![r] = r \in Bootload /\ enrolled]
    /\ beside' = IF r \in Writer /\ Orphans # {} THEN beside \cup Orphans \cup {r} ELSE beside
    /\ UNCHANGED <<gateVars, progress, enrolled, recordVars>>

\* Mutant: a bootload clears the manifest of no chip.
StartWriteKeeping(r) ==
    /\ r \in Writer /\ op[r] = "running" /\ progress[r] = "todo"
    /\ progress' = [progress EXCEPT ![r] = "writing"]
    /\ board' = Partial
    /\ UNCHANGED <<hwVars, gateVars, row, enrolled, beside, images, manifest>>

\* The first byte that is erased or written, by a flash only behind the board
\* identity gate, which wants an enrolled DUT; a bootload's on_writing just
\* before it clears the manifest of the chip in the DUT's row.
StartWrite(r) ==
    /\ r \in Writer /\ op[r] = "running" /\ progress[r] = "todo"
    /\ r \in Flash => enrolled
    /\ progress' = [progress EXCEPT ![r] = "writing"]
    /\ board' = Partial
    /\ manifest' = IF row[r] THEN NoRequest ELSE manifest
    /\ UNCHANGED <<hwVars, gateVars, row, enrolled, beside, images>>

\* The image is complete; the reset that ends the operation is still to come.
Land(r) ==
    /\ op[r] = "running" /\ progress[r] = "writing"
    /\ progress' = [progress EXCEPT ![r] = "landed"]
    /\ board' = r
    /\ UNCHANGED <<hwVars, gateVars, row, enrolled, beside, images, manifest>>

Enrolls == ~enrolled /\ enrolled' = TRUE
Unenrolls == enrolled /\ enrolled' = FALSE

\* The closure ends well; a bootload's logs its image itself.
Succeed(r) ==
    /\ Hw!OpEnds(r)
    /\ progress[r] = IF r \in Writer THEN "landed" ELSE "todo"
    /\ progress' = [progress EXCEPT ![r] = IF r \in gone THEN "todo" ELSE "ok"]
    /\ IF r \in Roster THEN Enrolls \/ Unenrolls ELSE UNCHANGED enrolled
    /\ images' = IF r \in Bootload
                 THEN [images EXCEPT ![IF row[r] THEN "chip" ELSE "role"] = r]
                 ELSE images
    /\ beside' = beside \ (gone \cap {r})
    /\ UNCHANGED <<gateVars, row, board, manifest>>

\* The closure ends in an error, before it wrote anything, midway, or on the
\* final reset.
Fail(r) ==
    /\ Hw!OpEnds(r)
    /\ progress[r] \in {"todo", "writing", "landed"}
    /\ progress' = [progress EXCEPT ![r] = IF r \in gone THEN "todo" ELSE "failed"]
    /\ beside' = beside \ (gone \cap {r})
    /\ UNCHANGED <<gateVars, row, enrolled, recordVars>>

\* The handler resumes; a flash that succeeded logs its image and binds or
\* clears the chip's manifest before its guard drops.
Answer(r) ==
    /\ Hw!Answer(r)
    /\ IF r \in Flash /\ progress[r] = "ok"
       THEN /\ images' = [images EXCEPT !["chip"] = r]
            /\ manifest' \in {r, NoRequest}
       ELSE UNCHANGED <<images, manifest>>
    /\ progress' = [progress EXCEPT ![r] = "todo"]
    /\ beside' = beside \ {r}
    /\ UNCHANGED <<gateVars, row, enrolled, board>>

\* Core is stopped and started: threads, lock, lease and records are gone,
\* and the DUT is left as it was.
Restart ==
    /\ permit' = NoRequest
    /\ hwHolder' = NoRequest
    /\ phase' = [r \in Request |-> "idle"]
    /\ op' = [r \in Request |-> "none"]
    /\ gone' = {}
    /\ lease' = NoToken
    /\ inside' = {}
    /\ images' = [k \in ImageKey |-> NoRequest]
    /\ manifest' = NoRequest
    /\ progress' = [r \in Request |-> "todo"]
    /\ beside' = {}
    /\ UNCHANGED <<used, under, row, enrolled, board>>

Step(r) ==
    \/ \E p \in Token \cup {NoToken} : Enter(r, p)
    \/ Abort(r)
    \/ Contend(r)
    \/ LeaveWork(r)
    \/ Depart(r)
    \/ Spawn(r)
    \/ StartWrite(r)
    \/ Land(r)
    \/ Succeed(r)
    \/ Fail(r)
    \/ Answer(r)

Next ==
    \/ \E t \in Token : TakeLease(t)
    \/ EndLease
    \/ \E r \in Request : Step(r)
    \/ Restart

Spec == Init /\ [][Next]_vars

(* Hardware operations end: every tool and wait under them has a timeout.  *)
FairSpec ==
    /\ Spec
    /\ \A r \in Request : WF_vars(StartWrite(r) \/ Land(r) \/ Succeed(r) \/ Fail(r))

-----------------------------------------------------------------------------
(* Properties                                                              *)

\* A record is true when it is made, and an image bootloaded to a DUT with a
\* row never lands with the manifest of an earlier flash still bound, which
\* describes firmware that is gone.  Hang-ups included: only the writers whose
\* closure ran beside another's, which its client had hung up on, are excepted.
RecordsAreTrueWhenMade ==
    [][/\ \A k \in ImageKey :
            images'[k] \notin beside \cup {images[k], NoRequest} => images'[k] = board
       /\ manifest' \notin beside \cup {manifest, NoRequest} => manifest' = board
       /\ \A b \in Bootload \ beside :
            board' = b /\ board # b /\ row[b] => manifest' = NoRequest]_vars

\* "The record says what is on the board" (flash's comment on ImageLog): when
\* no closure runs, the chip's entry is the image that the DUT has.  Not so after a
\* flash that failed midway.
LogSaysTheBoard ==
    images["chip"] # NoRequest /\ (\A r \in Request : op[r] = "none")
        => images["chip"] = board

\* One session holds the whole bench: under a lease that is kept, everybody
\* else's operations come to an end, also those the gate had let in before.
LeaseTakesTheBench ==
    \A t \in Token :
        <>[](lease = t)
            => <>[](\A r \in Request : op[r] = "running" => under[r] = t)

\* What the one write of a flash consists of is right whatever is asked of it
\* (Flashing's FlashesAreWellPlanned, which is about no variable, and is looked at
\* once, in the initial states).
FlashesAreRight == Init => FlashesAreWellPlanned

\* No flash erases the chip, with whichever program (Flashing's OptionBytesAreLeft);
\* not so with J-Link Commander.
NeverAChipErase == Init => OptionBytesAreLeft

-----------------------------------------------------------------------------
(* The inductive invariant                                                 *)

TypeOK ==
    /\ Hw!TypeOK
    /\ progress \in [Request -> {"todo", "writing", "landed", "ok", "failed"}]
    /\ row \in [Request -> BOOLEAN]
    /\ images \in [ImageKey -> Writer \cup {NoRequest}]
    /\ manifest \in Flash \cup {NoRequest}
    /\ beside \subseteq Writer

\* How far a closure has come is forgotten with it, and only a writer's writes.
ProgressMatchesOp ==
    \A r \in Request :
        /\ op[r] = "none" => progress[r] = "todo"
        /\ op[r] = "ended" => progress[r] \in {"ok", "failed"}
        /\ op[r] = "running" => progress[r] \in {"todo", "writing", "landed"}
        /\ progress[r] \in {"writing", "landed"} => r \in Writer

\* Two writers under way have run beside each other.
WritersMeet ==
    \A r, s \in Writer : op[r] # "none" /\ op[s] # "none" /\ r # s => r \in beside

\* From its last byte to its answer, the image of a writer is the DUT's.
BoardIsTheWriters ==
    \A r \in Writer \ beside : progress[r] \in {"landed", "ok"} => board = r

\* While a bootload writes an enrolled DUT no manifest is bound to it.
BootloadUnbinds ==
    \A b \in Bootload \ beside : row[b] /\ progress[b] = "writing" => manifest = NoRequest

IInv ==
    /\ Hw!IInv
    /\ TypeOK
    /\ ProgressMatchesOp
    /\ WritersMeet
    /\ BoardIsTheWriters
    /\ BootloadUnbinds
=============================================================================
