--------------------------- MODULE Preflight_proofs -------------------------
(***************************************************************************)
(* Proofs about Preflight, for any studies, flashes, images and masks: the *)
(* requests keep to HwLock, whose invariant says that a flash which nobody *)
(* abandoned does not run beside a pre-flight; so the board stays what it  *)
(* is while a pre-flight looks (LooksAreClean).                            *)
(***************************************************************************)
EXTENDS Preflight, HwLock_proofs

-----------------------------------------------------------------------------
(* The inductive invariant                                                 *)

\* Who is at which place.
PlacesAreRight ==
    \A r \in Request :
        /\ at[r] \in {"open", "listening", "silent", "listening again", "read"} => r \in Study
        /\ at[r] \in {"erased", "written"} => r \in Flash
        /\ r \in gone => op[r] = "running" \/ at[r] = "over"

\* A study that holds its guard finds on the port, once that was cleared, only
\* what the board sends.
LooksAreClean ==
    \A s \in Study \ gone : phase[s] \in {"working", "closing"} /\ Flash \cap gone = {} =>
        /\ at[s] \in {"listening", "silent", "listening again"} =>
              \A k \in DOMAIN wire : wire[k] \in {Other, board}
        /\ at[s] = "read" => reading[s] = board
        /\ at[s] = "fits" => SatisfiedBy(board)

PIInv ==
    /\ IInv
    /\ PreflightTypeOK
    /\ PlacesAreRight
    /\ LooksAreClean

-----------------------------------------------------------------------------
(* The lock                                                                *)

\* What a request does here, it does in HwLock.
LEMMA StepsOfHwLock == [PreflightNext]_allVars => [Next]_vars
BY DEF PreflightNext, Emit, Contend, LeaveOp, Ends, Answers, PreflightStep, FlashStep, Fails, Open,
   Clear, Listen, BudgetEnds, Reset, Erase, Write, FlashFails, Runs, StartStudy, Next, Step, allVars,
   vars

\* Pre-flights and flashes keep to the hardware lock: whatever HwLock promises
\* holds for them.
THEOREM ImplementsHwLock == PreflightSpec => Spec
<1>1. PreflightInit => Init
    BY DEF PreflightInit
<1> QED
    BY <1>1, StepsOfHwLock, PTL DEF PreflightSpec, Spec

-----------------------------------------------------------------------------
(* The port                                                                *)

LEMMA Buffering ==
    ASSUME NEW S, NEW w \in Seq(S), NEW f \in S
    PROVE  /\ Append(w, f) \in Seq(S) /\ Len(Append(w, f)) = Len(w) + 1
           /\ \A k \in DOMAIN Append(w, f) : Append(w, f)[k] = f \/ (k \in DOMAIN w /\ Append(w, f)[k] = w[k])
<1>1. DOMAIN Append(w, f) = 1 .. Len(w) + 1 /\ DOMAIN w = 1 .. Len(w) /\ Len(w) \in Nat
    OBVIOUS
<1>2. Append(w, f)[Len(w) + 1] = f /\ \A k \in 1 .. Len(w) : Append(w, f)[k] = w[k]
    OBVIOUS
<1>3. \A k \in DOMAIN Append(w, f) : Append(w, f)[k] = f \/ (k \in DOMAIN w /\ Append(w, f)[k] = w[k])
    BY <1>1, <1>2
<1>4. Append(w, f) \in Seq(S) /\ Len(Append(w, f)) = Len(w) + 1
    OBVIOUS
<1> QED
    BY <1>3, <1>4

LEMMA FirstOnThePort ==
    ASSUME NEW S, NEW w \in Seq(S), w # <<>>
    PROVE  Head(w) = w[1] /\ 1 \in DOMAIN w
OBVIOUS

LEMMA Shifting ==
    ASSUME NEW S, NEW w \in Seq(S), w # <<>>
    PROVE  \A k \in DOMAIN Tail(w) : k + 1 \in DOMAIN w /\ Tail(w)[k] = w[k + 1]
OBVIOUS

WireTyped == wire \in Seq(Image \cup {Other}) /\ Len(wire) <= MaxFrames

\* What becomes of the port's buffer: nothing new is in it but the board's
\* header, or no header.
Buffered ==
    /\ WireTyped'
    /\ \A k \in DOMAIN wire' : wire'[k] \in {Other, board'} \cap (Image \cup {Other})
          \/ \E m \in DOMAIN wire : wire[m] = wire'[k]

LEMMA SentIsBuffered ==
    ASSUME WireTyped, NEW f \in (Image \cup {Other}), f \in {Other, board'}, wire' = Sent(f)
    PROVE  Buffered
<1>1. CASE Len(wire) < MaxFrames
    <2>1. wire' = Append(wire, f) /\ wire \in Seq(Image \cup {Other}) /\ Len(wire) \in Nat
        BY <1>1 DEF Sent, WireTyped
    <2>2. /\ wire' \in Seq(Image \cup {Other}) /\ Len(wire') = Len(wire) + 1
          /\ \A k \in DOMAIN wire' : wire'[k] = f \/ (k \in DOMAIN wire /\ wire'[k] = wire[k])
        BY <2>1, Buffering
    <2>3. Len(wire') <= MaxFrames
        BY <1>1, <2>1, <2>2, PreflightAssumption
    <2> QED
        BY <2>2, <2>3 DEF Buffered, WireTyped
<1>2. CASE ~(Len(wire) < MaxFrames)
    BY <1>2 DEF Sent, Buffered, WireTyped
<1> QED
    BY <1>1, <1>2
-----------------------------------------------------------------------------
(* The invariant holds at the start                                        *)

LEMMA InitPIInv == PreflightInit => PIInv
<1> SUFFICES ASSUME PreflightInit PROVE PIInv
    OBVIOUS
<1>1. IInv /\ TypeOK
    BY InitIInv DEF PreflightInit, IInv
<1>2. wire = <<>> /\ Len(wire) = 0 /\ wire \in Seq(Image \cup {Other})
    BY DEF PreflightInit
<1>3. board \in Image /\ at \in [Request -> Closure] /\ reading \in [Study -> {Other}]
    BY DEF PreflightInit, Image, Closure
<1>4. PreflightTypeOK
    BY <1>1, <1>2, <1>3, PreflightAssumption DEF PreflightTypeOK
<1>5. PlacesAreRight /\ LooksAreClean
    BY PreflightAssumption DEF PreflightInit, Init, PlacesAreRight, LooksAreClean
<1> QED
    BY <1>1, <1>4, <1>5 DEF PIInv

-----------------------------------------------------------------------------
(* The types                                                               *)

Place == Closure \cup Verdict \cup {"erased", "written"}

\* A step moves one request to another place, or none.
Moves(r) == \E p \in Place : at' = [at EXCEPT ![r] = p]

LEMMA NextTyped == PIInv /\ PreflightNext => PreflightTypeOK'
<1> SUFFICES ASSUME PIInv, PreflightNext PROVE PreflightTypeOK'
    OBVIOUS
<1>1. TypeOK'
    BY StepsOfHwLock, NextIInv DEF PIInv, IInv
<1>2. PreflightTypeOK /\ WireTyped
    BY DEF PIInv, PreflightTypeOK, WireTyped
<1>3. /\ at \in [Request -> Place] /\ board \in Image \cup {Blank}
      /\ reading \in [Study -> Image \cup {Other}] /\ Study \subseteq Request
    BY <1>2, PreflightAssumption DEF PreflightTypeOK, Place
<1>4. (UNCHANGED at \/ \E r \in Request : Moves(r)) => at' \in [Request -> Place]
    BY <1>3 DEF Moves
<1>5. UNCHANGED wire => WireTyped'
    BY <1>2 DEF WireTyped
<1>6. SUFFICES at' \in [Request -> Place] /\ board' \in Image \cup {Blank}
               /\ reading' \in [Study -> Image \cup {Other}] /\ WireTyped'
    BY <1>1, <1>6 DEF PreflightTypeOK, WireTyped, Place
<1>7. CASE Emit
    <2>1. PICK f \in {Other} \cup ({board} \cap Repeats) : wire' = Sent(f)
        BY <1>7 DEF Emit
    <2>2. f \in Image \cup {Other} /\ f \in {Other, board'}
        BY <2>1, <1>7, PreflightAssumption DEF Emit
    <2>3. WireTyped'
        BY <2>1, <2>2, <1>2, SentIsBuffered DEF Buffered
    <2> QED
        BY <1>7, <2>3, <1>4, <1>3 DEF Emit
<1>8. ASSUME NEW r \in Request, Contend(r) PROVE at' \in [Request -> Place]
        /\ board' \in Image \cup {Blank} /\ reading' \in [Study -> Image \cup {Other}] /\ WireTyped'
    BY <1>8, <1>3, <1>4, <1>5 DEF Contend, dutVars
<1>9. ASSUME NEW r \in Request, LeaveOp(r) \/ Ends(r) \/ Answers(r)
      PROVE at' \in [Request -> Place]
        /\ board' \in Image \cup {Blank} /\ reading' \in [Study -> Image \cup {Other}] /\ WireTyped'
    <2>1. "over" \in Place /\ Judge(r) \in Place /\ at[r] \in Place
        BY <1>3 DEF Place, Verdict, Judge
    <2>2. Moves(r)
        BY <1>9, <2>1 DEF Moves, LeaveOp, Ends, Answers
    <2> QED
        BY <1>9, <2>2, <1>3, <1>4, <1>5 DEF LeaveOp, Ends, Answers
<1>10. ASSUME NEW r \in Request, PreflightStep(r)
      PROVE at' \in [Request -> Place]
        /\ board' \in Image \cup {Blank} /\ reading' \in [Study -> Image \cup {Other}] /\ WireTyped'
    <2>1. Moves(r)
        BY <1>10, <1>3 DEF Moves, PreflightStep, Fails, Open, Clear, Listen, BudgetEnds, Reset, Runs, Place,
           Closure
    <2>2. UNCHANGED board
        BY <1>10 DEF PreflightStep, Fails, Open, Clear, Listen, BudgetEnds, Reset
    <2>3. CASE Fails(r) \/ Open(r) \/ BudgetEnds(r)
        BY <2>1, <2>2, <2>3, <1>3, <1>4, <1>5 DEF Fails, Open, BudgetEnds
    <2>4. CASE Clear(r)
        <3>1. wire' = <<>> /\ Len(wire') = 0 /\ wire' \in Seq(Image \cup {Other})
            BY <2>4 DEF Clear
        <3>2. WireTyped'
            BY <3>1, PreflightAssumption DEF WireTyped
        <3> QED
            BY <2>1, <2>2, <2>4, <3>2, <1>3, <1>4 DEF Clear
    <2>5. CASE Listen(r)
        <3>1. wire' = Tail(wire) /\ wire # <<>> /\ wire \in Seq(Image \cup {Other})
            BY <2>5, <1>2 DEF Listen, WireTyped
        <3>2. wire' \in Seq(Image \cup {Other}) /\ Len(wire') = Len(wire) - 1 /\ Len(wire) \in Nat
            BY <3>1
        <3>3. WireTyped'
            BY <3>2, <1>2, PreflightAssumption DEF WireTyped
        <3>4. UNCHANGED reading \/ \E h \in Image : reading' = [reading EXCEPT ![r] = h]
            BY <2>5 DEF Listen
        <3>5. reading' \in [Study -> Image \cup {Other}]
            BY <3>4, <1>3
        <3> QED
            BY <2>1, <2>2, <3>3, <3>5, <1>3, <1>4
    <2>6. CASE Reset(r)
        <3>1. WireTyped'
            <4>1. CASE board = Blank
                BY <4>1, <2>6, <1>5 DEF Reset, Booted
            <4>2. CASE board # Blank
                BY <4>2, <2>2, <2>6, <1>2, <1>3, SentIsBuffered DEF Reset, Booted, Buffered
            <4> QED
                BY <4>1, <4>2
        <3> QED
            BY <2>1, <2>2, <2>6, <3>1, <1>3, <1>4 DEF Reset
    <2> QED
        BY <1>10, <2>3, <2>4, <2>5, <2>6 DEF PreflightStep
<1>11. ASSUME NEW r \in Request, FlashStep(r)
      PROVE at' \in [Request -> Place]
        /\ board' \in Image \cup {Blank} /\ reading' \in [Study -> Image \cup {Other}] /\ WireTyped'
    <2>1. Moves(r) /\ UNCHANGED reading
        BY <1>11, <1>3 DEF Moves, FlashStep, Erase, Write, FlashFails, Runs, Place, Closure
    <2>2. CASE Erase(r) \/ FlashFails(r)
        BY <2>1, <2>2, <1>3, <1>4, <1>5 DEF Erase, FlashFails
    <2>3. CASE Write(r)
        <3>1. r \in Flash
            BY <2>3 DEF Write, Runs, PIInv, PlacesAreRight
        <3>2. r \in Image /\ r # Blank /\ board' = r
            BY <3>1, <2>3, PreflightAssumption DEF Image, Write
        <3>3. WireTyped'
            BY <3>2, <2>3, <1>2, SentIsBuffered DEF Write, Booted, Buffered
        <3> QED
            BY <2>1, <3>2, <3>3, <1>3, <1>4
    <2> QED
        BY <1>11, <2>2, <2>3 DEF FlashStep
<1>12. ASSUME NEW s \in Study, StartStudy(s)
      PROVE at' \in [Request -> Place]
        /\ board' \in Image \cup {Blank} /\ reading' \in [Study -> Image \cup {Other}] /\ WireTyped'
    <2>1. "started" \in Place /\ s \in Request
        BY <1>3 DEF Place, Verdict
    <2>2. Moves(s)
        BY <2>1, <1>12 DEF StartStudy, Moves
    <2> QED
        BY <1>12, <2>1, <2>2, <1>3, <1>4, <1>5 DEF StartStudy
<1> QED
    BY <1>7, <1>8, <1>9, <1>10, <1>11, <1>12 DEF PreflightNext
-----------------------------------------------------------------------------
(* The places, and who is gone                                             *)

\* An abandoned request asks no more, so whoever is gone stays gone.
LEMMA GoneStays == PIInv /\ PreflightNext => gone \subseteq gone'
<1> SUFFICES ASSUME PIInv, PreflightNext PROVE gone \subseteq gone'
    OBVIOUS
<1>1. ASSUME NEW r \in Request, at[r] = "begun", Ask(r) PROVE gone \subseteq gone'
    BY <1>1 DEF Ask, PIInv, PlacesAreRight
<1>2. ASSUME NEW r \in Request, Contend(r) PROVE gone \subseteq gone'
    BY <1>1, <1>2 DEF Contend, Grant, Refuse, Spawn, Bail, ReleasePermit, LeaveQueue
<1> QED
    BY <1>2 DEF PreflightNext, Emit, LeaveOp, LeaveWork, Ends, OpEnds, Answers, Answer, PreflightStep,
       FlashStep, Fails, Open, Clear, Listen, BudgetEnds, Reset, Erase, Write, FlashFails, Runs,
       StartStudy, vars

LEMMA NextPlaces == PIInv /\ PreflightNext => PlacesAreRight'
<1> SUFFICES ASSUME PIInv, PreflightNext PROVE PlacesAreRight'
    OBVIOUS
<1>1. /\ at \in [Request -> Closure \cup Verdict \cup {"erased", "written"}]
      /\ op \in [Request -> OpState] /\ Study \cup Flash \subseteq Request /\ Study \cap Flash = {}
    BY PreflightAssumption DEF PIInv, PreflightTypeOK, TypeOK
<1>2. PlacesAreRight /\ gone \subseteq Request
    BY DEF PIInv, PreflightTypeOK, TypeOK
<1>3. OpMatchesPhase
    BY DEF PIInv, IInv
<1>4. CASE Emit
    BY <1>4, <1>2 DEF Emit, PlacesAreRight, vars
<1>5. ASSUME NEW r \in Request, Contend(r) PROVE PlacesAreRight'
    <2>1. UNCHANGED at
        BY <1>5 DEF Contend, dutVars
    <2>2. gone' \subseteq gone
        BY <1>5 DEF Contend, Ask, Grant, Refuse, Spawn, Bail, ReleasePermit, LeaveQueue
    <2>3. UNCHANGED op \/ (phase[r] = "guarded" /\ op' = [op EXCEPT ![r] = "running"])
        BY <1>5 DEF Contend, Ask, Grant, Refuse, Spawn, Bail, ReleasePermit, LeaveQueue
    <2>4. \A q \in Request : op[q] = "running" => op'[q] = "running"
        BY <2>3, <1>1
    <2> QED
        BY <2>1, <2>2, <2>4, <1>2 DEF PlacesAreRight
<1>6. ASSUME NEW r \in Request, LeaveOp(r) PROVE PlacesAreRight'
    <2>1. op[r] \in {"running", "ended"} /\ gone' = gone \cup {r}
        BY <1>6, <1>3, <1>1 DEF LeaveOp, LeaveWork, OpMatchesPhase, OpState
    <2>2. op[r] = "running" => op'[r] = "running"
        BY <1>6, <1>1 DEF LeaveOp, LeaveWork
    <2>3. op[r] = "ended" => at'[r] = "over"
        BY <1>6, <1>1 DEF LeaveOp
    <2>4. \A q \in Request \ {r} : at'[q] = at[q] /\ op'[q] = op[q]
        BY <1>6, <1>1 DEF LeaveOp, LeaveWork
    <2>5. at'[r] \in {at[r], "over"}
        BY <1>6, <1>1 DEF LeaveOp
    <2> QED
        BY <2>1, <2>2, <2>3, <2>4, <2>5, <1>2 DEF PlacesAreRight
<1>7. ASSUME NEW r \in Request, Ends(r) PROVE PlacesAreRight'
    <2>1. \A q \in Request \ {r} : at'[q] = at[q] /\ op'[q] = op[q]
        BY <1>7, <1>1 DEF Ends, OpEnds
    <2>2. at'[r] = IF r \in gone THEN "over" ELSE at[r]
        BY <1>7, <1>1 DEF Ends
    <2>3. UNCHANGED gone
        BY <1>7 DEF Ends, OpEnds
    <2> QED
        BY <2>1, <2>2, <2>3, <1>2 DEF PlacesAreRight
<1>8. ASSUME NEW r \in Request, Answers(r) PROVE PlacesAreRight'
    <2>1. \A q \in Request \ {r} : at'[q] = at[q] /\ op'[q] = op[q]
        BY <1>8, <1>1 DEF Answers, Answer
    <2>2. at'[r] \in {"unreadable", "fits", "mismatch", "over"}
        BY <1>8, <1>1 DEF Answers, Judge
    <2>3. r \notin gone /\ UNCHANGED gone
        BY <1>8, <1>3 DEF Answers, Answer, OpMatchesPhase
    <2> QED
        BY <2>1, <2>2, <2>3, <1>2 DEF PlacesAreRight
<1>9. ASSUME NEW r \in Request, PreflightStep(r) \/ FlashStep(r) PROVE PlacesAreRight'
    <2>1. UNCHANGED vars /\ op[r] = "running"
        BY <1>9 DEF PreflightStep, FlashStep, Fails, Open, Clear, Listen, BudgetEnds, Reset, Erase, Write,
           FlashFails, Runs
    <2>2. \A q \in Request \ {r} : at'[q] = at[q]
        BY <1>9, <1>1 DEF PreflightStep, FlashStep, Fails, Open, Clear, Listen, BudgetEnds, Reset, Erase,
           Write, FlashFails, Runs
    <2>3. CASE PreflightStep(r)
        <3>1. r \in Study
            BY <2>3, <1>2 DEF PreflightStep, Fails, Open, Clear, Listen, BudgetEnds, Reset, Runs,
               PlacesAreRight
        <3>2. at'[r] \notin {"erased", "written"}
            BY <2>3, <1>1, <1>2, <3>1 DEF PreflightStep, Fails, Open, Clear, Listen, BudgetEnds, Reset,
               Runs, PlacesAreRight
        <3> QED
            BY <3>1, <3>2, <2>1, <2>2, <1>2 DEF PlacesAreRight, vars
    <2>4. CASE FlashStep(r)
        <3>1. r \in Flash
            BY <2>4, <1>2 DEF FlashStep, Erase, Write, FlashFails, Runs, PlacesAreRight
        <3>2. at'[r] \in {"erased", "written", "failed"}
            BY <2>4, <1>1 DEF FlashStep, Erase, Write, FlashFails, Runs
        <3> QED
            BY <3>1, <3>2, <2>1, <2>2, <1>2 DEF PlacesAreRight, vars
    <2> QED
        BY <1>9, <2>3, <2>4
<1>10. ASSUME NEW s \in Study, StartStudy(s) PROVE PlacesAreRight'
    <2>1. s \in Request /\ UNCHANGED <<op, gone>> /\ at' = [at EXCEPT ![s] = "started"]
        BY <1>10, <1>1 DEF StartStudy, vars
    <2>2. s \in gone => op[s] = "running"
        BY <1>10, <1>2, <2>1 DEF StartStudy, PlacesAreRight
    <2> QED
        BY <2>1, <2>2, <1>1, <1>2 DEF PlacesAreRight
<1> QED
    BY <1>4, <1>5, <1>6, <1>7, <1>8, <1>9, <1>10 DEF PreflightNext
-----------------------------------------------------------------------------
(* What a pre-flight looks at                                              *)

\* Who holds the guard keeps every flash that was not abandoned off the board.
LEMMA NoFlashRuns ==
    ASSUME PIInv, NEW s \in Study \ gone, phase[s] \in {"working", "closing"}, Flash \cap gone = {},
           NEW f \in Flash
    PROVE  op[f] # "running"
<1> SUFFICES ASSUME op[f] = "running" PROVE FALSE
    OBVIOUS
<1>1. s \in Request /\ f \in Request /\ s # f /\ f \notin gone
    BY PreflightAssumption
<1>2. phase[f] = "working"
    BY <1>1 DEF PIInv, IInv, OpMatchesPhase
<1>3. permit = s /\ permit = f
    BY <1>1, <1>2 DEF PIInv, IInv, PermitMatchesPhase
<1> QED
    BY <1>1, <1>3

OnlyTheBoards == \A k \in DOMAIN wire' : wire'[k] \in {Other, board} \/ \E m \in DOMAIN wire : wire[m] = wire'[k]

\* Short of a flash the board stays, and the port gets nothing but its frames.
LEMMA PortIsTheBoards ==
    ASSUME PIInv, PreflightNext, \A f \in Request : ~FlashStep(f)
    PROVE  UNCHANGED board /\ OnlyTheBoards
<1>1. WireTyped /\ board \in Image \cup {Blank}
    BY DEF PIInv, PreflightTypeOK, WireTyped
<1>2. UNCHANGED wire => OnlyTheBoards
    BY DEF OnlyTheBoards
<1>3. Buffered /\ UNCHANGED board => OnlyTheBoards
    BY DEF OnlyTheBoards, Buffered
<1>4. CASE Emit
    <2>1. PICK f \in {Other} \cup ({board} \cap Repeats) : wire' = Sent(f)
        BY <1>4 DEF Emit
    <2>2. f \in Image \cup {Other} /\ f \in {Other, board'}
        BY <2>1, <1>4, PreflightAssumption DEF Emit
    <2>3. Buffered
        BY <2>1, <2>2, <1>1, SentIsBuffered
    <2> QED
        BY <1>4, <2>3, <1>3 DEF Emit
<1>5. ASSUME NEW r \in Request, Contend(r) \/ LeaveOp(r) \/ Ends(r) \/ Answers(r) PROVE UNCHANGED board /\ OnlyTheBoards
    BY <1>5, <1>2 DEF Contend, LeaveOp, Ends, Answers, dutVars
<1>6. ASSUME NEW r \in Request, PreflightStep(r) PROVE UNCHANGED board /\ OnlyTheBoards
    <2>1. UNCHANGED board
        BY <1>6 DEF PreflightStep, Fails, Open, Clear, Listen, BudgetEnds, Reset
    <2>2. CASE Fails(r) \/ Open(r) \/ BudgetEnds(r)
        BY <2>2, <2>1, <1>2 DEF Fails, Open, BudgetEnds
    <2>3. CASE Clear(r)
        BY <2>3, <2>1 DEF Clear, OnlyTheBoards
    <2>4. CASE Listen(r)
        <3>1. wire' = Tail(wire) /\ wire # <<>> /\ wire \in Seq(Image \cup {Other})
            BY <2>4, <1>1 DEF Listen, WireTyped
        <3>2. \A k \in DOMAIN wire' : k + 1 \in DOMAIN wire /\ wire'[k] = wire[k + 1]
            BY <3>1, Shifting
        <3> QED
            BY <3>2, <2>1 DEF OnlyTheBoards
    <2>5. CASE Reset(r)
        <3>1. CASE board = Blank
            BY <3>1, <2>1, <2>5, <1>2 DEF Reset, Booted
        <3>2. CASE board # Blank
            BY <3>2, <2>1, <2>5, <1>1, <1>3, SentIsBuffered DEF Reset, Booted
        <3> QED
            BY <3>1, <3>2
    <2> QED
        BY <1>6, <2>2, <2>3, <2>4, <2>5 DEF PreflightStep
<1>7. ASSUME NEW s \in Study, StartStudy(s) PROVE UNCHANGED board /\ OnlyTheBoards
    BY <1>7, <1>2 DEF StartStudy
<1> QED
    BY <1>4, <1>5, <1>6, <1>7 DEF PreflightNext

\* What LooksAreClean says of a study that holds its guard.
Clean(s) ==
    /\ at[s] \in {"listening", "silent", "listening again"} => \A k \in DOMAIN wire : wire[k] \in {Other, board}
    /\ at[s] = "read" => reading[s] = board
    /\ at[s] = "fits" => SatisfiedBy(board)

LEMMA StaysClean ==
    ASSUME NEW s \in Study, Clean(s), UNCHANGED board, OnlyTheBoards, at'[s] = at[s],
           reading'[s] = reading[s]
    PROVE  Clean(s)'
<1>1. SatisfiedBy(board) => SatisfiedBy(board)'
    BY DEF SatisfiedBy, Missing, Present
<1>2. ASSUME \A k \in DOMAIN wire : wire[k] \in {Other, board}, NEW k \in DOMAIN wire' PROVE wire'[k] \in {Other, board'}
    BY <1>2 DEF OnlyTheBoards
<1> QED
    BY <1>1, <1>2 DEF Clean

\* The pre-flight's own steps.
LEMMA LooksClean ==
    ASSUME PIInv, NEW s \in Study, PreflightStep(s), Clean(s), UNCHANGED board, OnlyTheBoards
    PROVE  Clean(s)'
<1>1. /\ at \in [Request -> Closure \cup Verdict \cup {"erased", "written"}]
      /\ reading \in [Study -> Image \cup {Other}] /\ s \in Request /\ Other \notin Image
    BY PreflightAssumption DEF PIInv, PreflightTypeOK
<1>2. wire \in Seq(Image \cup {Other})
    BY DEF PIInv, PreflightTypeOK
<1>3. CASE Fails(s) \/ Open(s)
    <2>1. at'[s] \in {"failed", "open"}
        BY <1>3, <1>1 DEF Fails, Open, Runs
    <2> QED
        BY <2>1 DEF Clean
<1>4. CASE Clear(s)
    <2>1. at'[s] = "listening" /\ wire' = <<>>
        BY <1>4, <1>1 DEF Clear, Runs
    <2>2. DOMAIN wire' = {}
        BY <2>1
    <2> QED
        BY <2>1, <2>2 DEF Clean
<1>5. CASE Listen(s)
    <2>1. wire # <<>> /\ at[s] \in {"listening", "listening again"}
        BY <1>5 DEF Listen
    <2>2. Head(wire) = wire[1] /\ 1 \in DOMAIN wire
        BY <2>1, <1>2, FirstOnThePort
    <2>3. Head(wire) \in {Other, board}
        BY <2>1, <2>2 DEF Clean
    <2>4. CASE Head(wire) \in Image
        <3>1. at'[s] = "read" /\ reading'[s] = Head(wire)
            BY <2>4, <1>5, <1>1 DEF Listen, Runs
        <3>2. Head(wire) = board
            BY <2>3, <2>4, <1>1
        <3> QED
            BY <3>1, <3>2 DEF Clean
    <2>5. CASE Head(wire) \notin Image
        <3>1. at'[s] = at[s] /\ UNCHANGED reading
            BY <2>5, <1>5, <1>1 DEF Listen, Runs
        <3> QED
            BY <3>1, StaysClean
    <2> QED
        BY <2>4, <2>5
<1>6. CASE BudgetEnds(s) \/ Reset(s)
    <2>1. at[s] \in {"listening", "silent", "listening again"} /\ at'[s] \in {"silent", "failed", "listening again"}
        BY <1>6, <1>1 DEF BudgetEnds, Reset, Runs
    <2>2. \A k \in DOMAIN wire' : wire'[k] \in {Other, board'}
        BY <2>1 DEF Clean, OnlyTheBoards
    <2> QED
        BY <2>1, <2>2 DEF Clean
<1> QED
    BY <1>3, <1>4, <1>5, <1>6 DEF PreflightStep
\* A study under its guard was under it before, or has only just got to work.
LEMMA NextClean ==
    ASSUME PIInv, PreflightNext, NEW s \in Study \ gone, phase[s] \in {"working", "closing"},
           Flash \cap gone = {}, s \notin gone', phase'[s] \in {"working", "closing"}
    PROVE  Clean(s)'
<1>1. /\ at \in [Request -> Closure \cup Verdict \cup {"erased", "written"}] /\ s \in Request
      /\ phase \in [Request -> Phase] /\ s \in Study
    BY PreflightAssumption DEF PIInv, PreflightTypeOK, TypeOK
<1>2. Clean(s)
    BY DEF PIInv, LooksAreClean, Clean
<1>3. \A f \in Request : ~FlashStep(f)
    <2> SUFFICES ASSUME NEW f \in Request, FlashStep(f) PROVE FALSE
        OBVIOUS
    <2>1. f \in Flash /\ op[f] = "running"
        BY DEF FlashStep, Erase, Write, FlashFails, Runs, PIInv, PlacesAreRight
    <2> QED
        BY <2>1, NoFlashRuns
<1>4. UNCHANGED board /\ OnlyTheBoards
    BY <1>3, PortIsTheBoards
<1>5. CASE Emit
    BY <1>5, <1>1, <1>2, <1>4, StaysClean DEF Emit
<1>6. ASSUME NEW r \in Request, Contend(r) PROVE Clean(s)'
    BY <1>6, <1>1, <1>2, <1>4, StaysClean DEF Contend, dutVars
<1>7. ASSUME NEW r \in Request, LeaveOp(r) PROVE Clean(s)'
    <2>1. r # s
        BY <1>7 DEF LeaveOp, LeaveWork
    <2>2. at'[s] = at[s] /\ UNCHANGED reading
        BY <2>1, <1>7, <1>1 DEF LeaveOp
    <2> QED
        BY <2>2, <1>1, <1>2, <1>4, StaysClean
<1>8. ASSUME NEW r \in Request, Ends(r) PROVE Clean(s)'
    <2>1. at'[s] = at[s] /\ UNCHANGED reading
        BY <1>8, <1>1 DEF Ends
    <2> QED
        BY <2>1, <1>1, <1>2, <1>4, StaysClean
<1>9. ASSUME NEW r \in Request, Answers(r) PROVE Clean(s)'
    <2>1. CASE r # s
        <3>1. at'[s] = at[s] /\ UNCHANGED reading
            BY <2>1, <1>9, <1>1 DEF Answers
        <3> QED
            BY <3>1, <1>1, <1>2, <1>4, StaysClean
    <2>2. CASE r = s
        <3>1. at'[s] = Judge(s)
            BY <2>2, <1>9, <1>1 DEF Answers
        <3>2. Judge(s) \in {"fits", "mismatch", "unreadable"}
            BY DEF Judge
        <3>3. Judge(s) = "fits" => at[s] = "read" /\ SatisfiedBy(reading[s])
            BY DEF Judge
        <3>4. Judge(s) = "fits" => SatisfiedBy(board)'
            BY <3>3, <1>2, <1>4 DEF Clean, SatisfiedBy, Missing, Present
        <3> QED
            BY <3>1, <3>2, <3>4 DEF Clean
    <2> QED
        BY <2>1, <2>2
<1>10. ASSUME NEW r \in Request, PreflightStep(r) PROVE Clean(s)'
    <2>1. CASE r = s
        BY <2>1, <1>10, <1>1, <1>2, <1>4, LooksClean
    <2>2. CASE r # s
        <3>1. at'[s] = at[s]
            BY <2>2, <1>10, <1>1 DEF PreflightStep, Fails, Open, Clear, Listen, BudgetEnds, Reset, Runs
        <3>2. reading'[s] = reading[s]
            BY <2>2, <1>10, <1>1
            DEF PreflightStep, Fails, Open, Clear, Listen, BudgetEnds, Reset, PIInv, PreflightTypeOK
        <3> QED
            BY <3>1, <3>2, <1>1, <1>2, <1>4, StaysClean
    <2> QED
        BY <2>1, <2>2
<1>11. ASSUME NEW t \in Study, StartStudy(t) PROVE Clean(s)'
    <2>1. t # s
        BY <1>11 DEF StartStudy
    <2>2. at'[s] = at[s] /\ UNCHANGED reading
        BY <2>1, <1>11, <1>1 DEF StartStudy
    <2> QED
        BY <2>2, <1>1, <1>2, <1>4, StaysClean
<1> QED
    BY <1>3, <1>5, <1>6, <1>7, <1>8, <1>9, <1>10, <1>11 DEF PreflightNext

LEMMA NextLooks == PIInv /\ PreflightNext => LooksAreClean'
<1> SUFFICES ASSUME PIInv, PreflightNext, NEW s \in Study, s \notin gone',
                    phase'[s] \in {"working", "closing"}, Flash \cap gone' = {}
             PROVE  Clean(s)'
    BY DEF LooksAreClean, Clean
<1>1. s \notin gone /\ Flash \cap gone = {}
    BY GoneStays
<1>2. CASE phase[s] \in {"working", "closing"}
    BY <1>1, <1>2, NextClean
<1>3. CASE phase[s] \notin {"working", "closing"}
    <2>1. s \in Request /\ phase \in [Request -> Phase]
        BY PreflightAssumption DEF PIInv, PreflightTypeOK, TypeOK
    <2>2. at[s] = "begun" /\ UNCHANGED at
        <3>1. phase'[s] # phase[s]
            BY <1>3
        <3>2. PICK r \in Request : Contend(r) \/ LeaveOp(r) \/ Answers(r)
            BY <3>1
            DEF PreflightNext, Emit, Ends, OpEnds, PreflightStep, FlashStep, Fails, Open, Clear, Listen,
                BudgetEnds, Reset, Erase, Write, FlashFails, Runs, StartStudy, vars
        <3>3. CASE LeaveOp(r) \/ Answers(r)
            BY <1>3, <2>1, <3>3 DEF LeaveOp, LeaveWork, Answers, Answer
        <3>4. CASE Contend(r)
            <4>1. at[r] = "begun" \/ phase'[r] = "idle"
                BY <2>1, <3>4 DEF Contend, ReleasePermit, LeaveQueue, PIInv, PreflightTypeOK, TypeOK
            <4>2. r = s
                BY <2>1, <3>1, <3>4
                DEF Contend, Ask, Grant, Refuse, Spawn, Bail, ReleasePermit, LeaveQueue
            <4> QED
                BY <3>4, <4>1, <4>2 DEF Contend, dutVars
        <3> QED
            BY <3>2, <3>3, <3>4
    <2> QED
        BY <2>2 DEF Clean
<1> QED
    BY <1>2, <1>3

-----------------------------------------------------------------------------
(* The theorems                                                            *)

LEMMA NextPIInv == PIInv /\ [PreflightNext]_allVars => PIInv'
<1>1. PIInv /\ PreflightNext => PIInv'
    BY StepsOfHwLock, NextIInv, NextTyped, NextPlaces, NextLooks DEF PIInv
<1>2. PIInv /\ UNCHANGED allVars => PIInv'
    <2> SUFFICES ASSUME PIInv, UNCHANGED allVars PROVE PIInv'
        OBVIOUS
    <2>1. IInv'
        BY StepsOfHwLock, NextIInv DEF PIInv
    <2>2. PreflightTypeOK' /\ PlacesAreRight'
        BY DEF PIInv, PreflightTypeOK, TypeOK, PlacesAreRight, allVars, vars, dutVars
    <2>3. LooksAreClean'
        BY DEF PIInv, LooksAreClean, SatisfiedBy, Missing, Present, allVars, vars, dutVars
    <2> QED
        BY <2>1, <2>2, <2>3 DEF PIInv
<1> QED
    BY <1>1, <1>2

\* The lock, the places of the pre-flights and flashes, and the frames on the
\* trace port always agree.
THEOREM PreflightInductive == PreflightSpec => []PIInv
BY InitPIInv, NextPIInv, PTL DEF PreflightSpec

\* A pre-flight reads, and judges, the firmware that is on the board, as long as
\* no client hung up on a flash: hw_lock keeps every other flash away, and the
\* cleared port holds no frame from before.
THEOREM HeaderIsTheBoards == PreflightSpec => []HeaderIsOfTheBoard
<1>1. PIInv => HeaderIsOfTheBoard
    BY DEF PIInv, LooksAreClean, HeaderIsOfTheBoard, SatisfiedBy, Missing, Present
<1> QED
    BY <1>1, PreflightInductive, PTL
=============================================================================
