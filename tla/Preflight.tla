----------------------------- MODULE Preflight -----------------------------
(***************************************************************************)
(* The outpost pre-flight of POST /study (src/src/outpost_preflight.rs,    *)
(* run_outpost_preflight of study.rs): a request of HwLock that reads a    *)
(* header frame off the DUT's trace port, resetting the DUT if it says     *)
(* nothing, and refuses a study whose outpost mode it does not meet; and   *)
(* the flashes it contends with.                                           *)
(*                                                                         *)
(* A flash stands for its image: board = f says that f's image is on the   *)
(* DUT.  A frame on the port is a header, known by the image that sent it, *)
(* or anything else: another frame, or one that fails its CRC.             *)
(***************************************************************************)
EXTENDS HwLock, Naturals, Sequences

CONSTANTS
    Study,      \* POST /study with an outpost mode requirement
    Flash,      \* POST /flash
    Factory,    \* the image the DUT had before
    Blank,      \* a DUT that a flash has erased and not yet written
    Other,      \* a frame that is no header
    Flags,      \* what each image's header says of its mode
    Wanted,     \* required_set
    Unwanted,   \* required_clear
    Repeats,    \* the images whose header interval is not 0
    MaxFrames   \* what the port's driver buffers

Image == Flash \cup {Factory}

ASSUME PreflightAssumption ==
    /\ Study \cup Flash \subseteq Request
    /\ Study \cap Flash = {}
    /\ Factory \notin Request /\ Blank \notin Image /\ Other \notin Image
    /\ Repeats \subseteq Image
    /\ MaxFrames \in Nat \ {0}

VARIABLES
    board,      \* the image on the DUT
    wire,       \* the frames in the trace port's buffer
    at,         \* how far each study's pre-flight, and each flash, has come
    reading     \* the header each pre-flight read

dutVars == <<board, wire, at, reading>>
allVars == <<vars, dutVars>>

Closure == {"begun", "open", "listening", "silent", "listening again", "read", "failed"}
Verdict == {"fits", "mismatch", "unreadable", "started", "over"}

PreflightTypeOK ==
    /\ TypeOK
    /\ board \in Image \cup {Blank}
    /\ wire \in Seq(Image \cup {Other}) /\ Len(wire) <= MaxFrames
    /\ at \in [Request -> Closure \cup Verdict \cup {"erased", "written"}]
    /\ reading \in [Study -> Image \cup {Other}]

PreflightInit ==
    /\ Init
    /\ board = Factory
    /\ wire = <<>>
    /\ at = [r \in Request |-> "begun"]
    /\ reading = [s \in Study |-> Other]

-----------------------------------------------------------------------------
(* The DUT and its trace port                                              *)

\* A frame that finds the buffer full is lost.
Sent(frame) == IF Len(wire) < MaxFrames THEN Append(wire, frame) ELSE wire

\* A booted image sends its header at once.
Booted(image) == IF image = Blank THEN wire ELSE Sent(image)

\* The header's interval comes round, or the outpost traces something.
Emit ==
    /\ board \in Image /\ Len(wire) < MaxFrames
    /\ \E frame \in {Other} \cup ({board} \cap Repeats) : wire' = Sent(frame)
    /\ UNCHANGED <<vars, board, at, reading>>

-----------------------------------------------------------------------------
(* The handlers: HwLock's actions                                          *)

\* A request that was refused may come again.
Contend(r) ==
    /\ \/ at[r] = "begun" /\ (Ask(r) \/ Grant(r) \/ Refuse(r) \/ Spawn(r))
       \/ at[r] = "begun" /\ r \notin Study /\ Bail(r)
       \/ ReleasePermit(r) \/ LeaveQueue(r)
    /\ UNCHANGED dutVars

\* The closure of a handler that is gone goes on, and its verdict with it.
LeaveOp(r) ==
    /\ LeaveWork(r)
    /\ at' = [at EXCEPT ![r] = IF op[r] = "ended" THEN "over" ELSE @]
    /\ UNCHANGED <<board, wire, reading>>

Ends(r) ==
    /\ OpEnds(r)
    /\ at[r] \in {"read", "written", "failed"}
    /\ at' = [at EXCEPT ![r] = IF r \in gone THEN "over" ELSE @]
    /\ UNCHANGED <<board, wire, reading>>

\* OutpostModeRequirement's unmet: what is missing, what must not be there.
Missing(image) == Wanted \ Flags[image]
Present(image) == Unwanted \cap Flags[image]
SatisfiedBy(image) == Missing(image) = {} /\ Present(image) = {}

\* 502, or 412 naming both masks, or the study goes on.
Judge(s) ==
    CASE at[s] = "failed" -> "unreadable"
      [] at[s] = "read" /\ SatisfiedBy(reading[s]) -> "fits"
      [] OTHER -> "mismatch"

Answers(r) ==
    /\ Answer(r)
    /\ at' = [at EXCEPT ![r] = IF r \in Study THEN Judge(r) ELSE "over"]
    /\ UNCHANGED <<board, wire, reading>>

\* The guard is gone, and the version gate and StudyStart come without it.
StartStudy(s) ==
    /\ at[s] = "fits" /\ phase[s] = "idle"
    /\ at' = [at EXCEPT ![s] = "started"]
    /\ UNCHANGED <<vars, board, wire, reading>>

-----------------------------------------------------------------------------
(* read_header, in the study's blocking closure                            *)

Runs(s, from, to) ==
    /\ op[s] = "running" /\ at[s] = from
    /\ at' = [at EXCEPT ![s] = to]
    /\ UNCHANGED vars

\* The signal has no declared route, or one via dev-bench, or no port; the port
\* does not open or clear, the read fails, or the reset does: nothing is read.
Fails(s) ==
    /\ s \in Study
    /\ at[s] \notin {"read", "failed"}
    /\ Runs(s, at[s], "failed")
    /\ UNCHANGED <<board, wire, reading>>

Open(s) ==
    /\ s \in Study
    /\ Runs(s, "begun", "open")
    /\ UNCHANGED <<board, wire, reading>>

\* Mutant: a buffer that would not clear is only warned about.
ClearNothing(s) ==
    /\ Runs(s, "open", "listening")
    /\ UNCHANGED <<board, wire, reading>>

\* Frames from before the port was cleared may be another image's.
Clear(s) ==
    /\ Runs(s, "open", "listening")
    /\ wire' = <<>>
    /\ UNCHANGED <<board, reading>>

\* listen: a header ends it, any other frame costs itself.
Listen(s) ==
    /\ at[s] \in {"listening", "listening again"} /\ wire # <<>>
    /\ wire' = Tail(wire)
    /\ IF Head(wire) \in Image
       THEN Runs(s, at[s], "read") /\ reading' = [reading EXCEPT ![s] = Head(wire)]
       ELSE Runs(s, at[s], at[s]) /\ UNCHANGED reading
    /\ UNCHANGED board

\* Mutant: the second listen has no budget.
BudgetEndsOnce(s) ==
    /\ Runs(s, "listening", "silent")
    /\ UNCHANGED <<board, wire, reading>>

\* LISTEN_BUDGET or POST_RESET_BUDGET is over; silence after a reset is an error.
BudgetEnds(s) ==
    /\ \/ Runs(s, "listening", "silent")
       \/ Runs(s, "listening again", "failed")
    /\ UNCHANGED <<board, wire, reading>>

\* One reset, with the port still open and its buffer as it is.
Reset(s) ==
    /\ Runs(s, "silent", "listening again")
    /\ wire' = Booted(board)
    /\ UNCHANGED <<board, reading>>

PreflightStep(s) ==
    Fails(s) \/ Open(s) \/ Clear(s) \/ Listen(s) \/ BudgetEnds(s) \/ Reset(s)

-----------------------------------------------------------------------------
(* A flash's closure                                                       *)

Erase(f) ==
    /\ f \in Flash
    /\ Runs(f, "begun", "erased")
    /\ board' = Blank
    /\ UNCHANGED <<wire, reading>>

Write(f) ==
    /\ Runs(f, "erased", "written")
    /\ board' = f
    /\ wire' = Booted(f)
    /\ UNCHANGED reading

FlashFails(f) ==
    /\ f \in Flash
    /\ Runs(f, "begun", "failed") \/ Runs(f, "erased", "failed")
    /\ UNCHANGED <<board, wire, reading>>

FlashStep(f) == Erase(f) \/ Write(f) \/ FlashFails(f)

-----------------------------------------------------------------------------

PreflightNext ==
    \/ Emit
    \/ \E r \in Request :
        \/ Contend(r) \/ LeaveOp(r) \/ Ends(r) \/ Answers(r)
        \/ PreflightStep(r) \/ FlashStep(r)
    \/ \E s \in Study : StartStudy(s)

\* What a handler and its closure do of themselves.
Proceed(r) ==
    \/ Contend(r) /\ (Grant(r) \/ Refuse(r) \/ Spawn(r) \/ Bail(r) \/ ReleasePermit(r))
    \/ Ends(r) \/ Answers(r)
    \/ Open(r) \/ Clear(r) \/ BudgetEnds(r) \/ Reset(r)
    \/ FlashStep(r)

(* Only the lock's own wait, timer and drop are fair: a listen, a reset or *)
(* a flash may hang for ever, and its handler with it.                     *)
PreflightSpec == PreflightInit /\ [][PreflightNext]_allVars /\ Fairness

(* A listen's budget ends, and a flash and a reset come to an end. *)
WorkGoesOn == \A r \in Request : WF_allVars(Proceed(r))

-----------------------------------------------------------------------------
(* Properties                                                              *)

\* A pre-flight that has read a header has read the one of the firmware on the
\* board, and its verdict is true of it, until its guard is let go; whatever
\* was flashed before, and as long as no client hangs up on a flash.  After that
\* a flash may come before StudyStart.
HeaderIsOfTheBoard ==
    \A s \in Study \ gone :
        phase[s] \in {"working", "closing"} /\ Flash \cap gone = {} =>
            /\ at[s] = "read" => reading[s] = board
            /\ at[s] = "fits" => Wanted \subseteq Flags[board] /\ Unwanted \cap Flags[board] = {}

\* A DUT that keeps quiet, or sends its header only when it boots, costs the
\* study a bounded wait and at most one reset: every pre-flight comes to an end,
\* unless the port, the probe or a flash before it hangs.
PreflightsEnd ==
    WorkGoesOn => \A s \in Study : op[s] = "running" ~> op[s] # "running"
=============================================================================
