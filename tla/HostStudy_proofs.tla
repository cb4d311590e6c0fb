--------------------------- MODULE HostStudy_proofs --------------------------
(***************************************************************************)
(* What HostStudy promises, proved for any steps and any teardown.  The    *)
(* inductive invariant ties the place of the executor to what has run      *)
(* (PlaceIsRight, RecordsAreInOrder, NothingIsSkipped), the prompt that    *)
(* waits to the answers accepted (PromptIsAsked), what runs to what is     *)
(* written (FileIsKept), and how the steps ended to what is said of it     *)
(* (EndIsTold).                                                            *)
(*                                                                         *)
(* And what Results says of the studies on disk, for any directories that  *)
(* are swept and any events that a subscriber hears or loses.              *)
(***************************************************************************)
EXTENDS HostStudy, Results, FiniteSetTheorems, SequenceTheorems, WellFoundedInduction, TLAPS

-----------------------------------------------------------------------------
(* The inductive invariant                                                 *)

\* The step at `at` has run, and its record is on its way.
Midway == stage \in {"writing", "announcing"}

\* Where the executor is in its list.
PlaceIsRight ==
    /\ stage = "delaying" => at \in DOMAIN Lists[list]
    /\ stage \in {"acting", "prompting", "writing", "announcing"} => at \in Recorded(list)
    /\ stage = "starting" => list = "steps" /\ at = 1 /\ disk.file = "missing" /\ ran = <<>>
    /\ stage = "sealing" \/ (stage = "releasing" /\ disk.file # "missing") =>
          list = "teardown" /\ at = Len(Teardown) + 1

\* Records are of steps, in their order, the teardown's after the others, and
\* none is of a step still to come.
RecordsAreInOrder ==
    /\ \A k \in DOMAIN ran : ran[k].at \in Recorded(ran[k].list)
    /\ \A k, m \in DOMAIN ran : k < m =>
          /\ ran[k].list = "teardown" => ran[m].list = "teardown"
          /\ ran[k].list = ran[m].list => ran[k].at < ran[m].at
    /\ list = "steps" => \A k \in DOMAIN ran : ran[k].list = "steps"
    /\ Midway => Len(ran) > 0 /\ ran[Len(ran)].list = list /\ ran[Len(ran)].at = at
    /\ stage # "dead" => \A k \in DOMAIN ran : ran[k].list = list =>
          ran[k].at < at \/ (Midway /\ k = Len(ran))

\* Each step before `at` has its record.
NothingIsSkipped ==
    stage # "dead" => \A i \in Recorded(list) : i < at =>
        \E k \in DOMAIN ran : ran[k].list = list /\ ran[k].at = i

\* The slot is the prompt that waits, which is the last one, and an answer in it
\* is the one accepted for it.
PromptIsAsked ==
    /\ slot = NoPrompt \/ (stage = "prompting" /\ slot.id = prompts)
    /\ stage = "prompting" => slot.id = prompts /\ prompts > 0
    /\ \A k \in DOMAIN ran : ran[k].id <= prompts /\ (stage = "prompting" => ran[k].id # prompts)
    /\ stage = "prompting" =>
          /\ \A a \in accepted : a.id = prompts => a.answer = slot.answer
          /\ slot.answer # "none" => \E a \in accepted : a.id = prompts
    /\ AcceptedAnswersCount

\* What is announced is written, and what is written has run.
FileIsKept ==
    /\ stage # "dead" => announced + (IF Midway THEN 1 ELSE 0) = Len(ran)
    /\ stage = "starting" => disk.steps = <<>>
    /\ ~writeErr => announced <= Len(disk.steps)
    /\ ~writeErr /\ stage = "writing" => ran = Append(disk.steps, ran[Len(ran)])
    /\ ~writeErr /\ stage \notin {"writing", "dead"} => disk.steps = ran

\* Each of the steps ran to its own end, and none ended the study.
Whole ==
    /\ \A i \in Recorded("steps") : \E k \in DOMAIN ran : ran[k].list = "steps" /\ ran[k].at = i
    /\ \A k \in DOMAIN ran : ~EndsStudy(ran[k])

\* While the steps last none of them ended the study but the one that is just
\* recorded; how they ended is not changed by the teardown.
EndIsTold ==
    /\ list = "steps" => completed
    /\ list = "steps" /\ stage # "dead" =>
          \A k \in DOMAIN ran : EndsStudy(ran[k]) => Midway /\ k = Len(ran)
    /\ list = "teardown" /\ stage \notin {"unwinding", "over", "dead"} =>
          /\ completed => Whole
          /\ ~completed => ~Whole \/ SkipsNothing
    /\ disk.file = "final" =>
          /\ stage \in {"releasing", "over", "dead"} /\ disk.steps = ran
          /\ disk.completed => Whole
          /\ ~disk.completed => ~Whole \/ SkipsNothing

IInv ==
    /\ TypeOK
    /\ PlaceIsRight
    /\ RecordsAreInOrder
    /\ NothingIsSkipped
    /\ PromptIsAsked
    /\ FileIsKept
    /\ EndIsTold

-----------------------------------------------------------------------------
(* The lists, and what steps there are                                     *)

LEMMA ListFacts ==
    /\ DOMAIN Lists = {"steps", "teardown"} /\ Lists["steps"] = Steps /\ Lists["teardown"] = Teardown
    /\ \A l \in {"steps", "teardown"} :
          /\ Lists[l] \in Seq(StepType) /\ Len(Lists[l]) \in Nat
          /\ DOMAIN Lists[l] = 1 .. Len(Lists[l])
          /\ \A i \in Recorded(l) : i \in DOMAIN Lists[l] /\ i \in Nat
<1>1. DOMAIN Lists = {"steps", "teardown"} /\ Lists["steps"] = Steps /\ Lists["teardown"] = Teardown
    BY DEF Lists
<1>2. \A l \in {"steps", "teardown"} :
          /\ Lists[l] \in Seq(StepType) /\ Len(Lists[l]) \in Nat
          /\ DOMAIN Lists[l] = 1 .. Len(Lists[l])
    BY <1>1, ListAssumption
<1> QED
    BY <1>1, <1>2 DEF Recorded

\* The executor leaves the steps for the teardown: at their end, or because of a
\* cancel, or of a panic in one of them.
Leaves ==
    /\ list = "steps" /\ GoTo("teardown", 1)
    /\ \/ at = Len(Steps) + 1 /\ UNCHANGED completed
       \/ at \in DOMAIN Steps /\ (cancel \/ at \in Recorded("steps")) /\ completed' = FALSE

\* It moves without a record.
Moves ==
    /\ stage \in {"between", "delaying", "acting"}
    /\ UNCHANGED <<ran, promptVars, cancelVars, fileVars>>
    /\ \/ /\ at \in DOMAIN Lists[list] /\ stage' \in {"delaying", "acting"}
          /\ stage' = "acting" => at \in Recorded(list)
          /\ UNCHANGED <<list, at, completed>>
       \/ /\ at \in DOMAIN Lists[list] /\ at \notin Recorded(list)
          /\ GoTo(list, at + 1) /\ UNCHANGED completed
       \/ Leaves
       \/ /\ list = "teardown" /\ at = Len(Teardown) + 1 /\ stage' = "sealing"
          /\ UNCHANGED <<list, at, completed>>
       \/ list = "teardown" /\ stage' = "unwinding" /\ completed' = FALSE /\ UNCHANGED <<list, at>>

\* It records a step, with the answer of its prompt or without any.
Records(detail, id) ==
    /\ stage \in {"delaying", "acting", "prompting"} /\ at \in Recorded(list)
    /\ Made(detail, id)
    /\ slot' = NoPrompt
    /\ UNCHANGED <<prompts, accepted, cancelVars, fileVars>>
    /\ \/ stage # "prompting" /\ id = 0 /\ detail \notin AnswerType
       \/ /\ stage = "prompting" /\ id = prompts
          /\ IF slot.answer = "none" THEN detail \notin AnswerType ELSE detail = slot.answer

Answers(p, a) == p \in 1 .. prompts /\ a \in AnswerType /\ Answer(p, a)

LEMMA MoveCases ==
    ASSUME TypeOK, PlaceIsRight,
           ListEnds \/ SkipsRest \/ StartStep \/ DelayEnds \/ Panic
             \/ (DelayCancelled /\ Step.kind = "repeat")
    PROVE  Moves
<1> USE ListFacts DEF LeaveList, GoTo, Moves, Leaves, Recorded, Cancelled, Step
<1>t. list \in {"steps", "teardown"} /\ at \in 1 .. Len(Lists[list]) + 1
    BY DEF TypeOK
<1>d. stage = "delaying" => at \in DOMAIN Lists[list]
    BY DEF PlaceIsRight
<1>1. CASE ListEnds
    <2>1. at = Len(Lists[list]) + 1
        BY <1>1, <1>t DEF ListEnds
    <2> QED
        BY <1>1, <1>t, <2>1 DEF ListEnds
<1>2. CASE SkipsRest
    BY <1>2, <1>t DEF SkipsRest
<1>3. CASE StartStep
    BY <1>3, <1>t DEF StartStep
<1>4. CASE DelayEnds
    BY <1>4, <1>t, <1>d DEF DelayEnds
<1>5. CASE Panic
    BY <1>5, <1>t DEF Panic, PlaceIsRight
<1>6. CASE DelayCancelled /\ Step.kind = "repeat"
    BY <1>6, <1>t, <1>d DEF DelayCancelled
<1> QED
    BY <1>1, <1>2, <1>3, <1>4, <1>5, <1>6

LEMMA RecordCases ==
    ASSUME TypeOK, PlaceIsRight, PromptIsAsked,
           \/ WaitEnds \/ WaitCancelled \/ Exchange \/ PromptAnswered \/ PromptCancelled \/ PromptTimesOut
           \/ DelayCancelled /\ Step.kind # "repeat"
    PROVE  \E detail \in DetailType, id \in Nat : Records(detail, id)
<1> USE DEF Records, Recorded, Step, AnswerType, DetailType
<1>t. list \in {"steps", "teardown"} /\ prompts \in Nat /\ slot.answer \in AnswerType \cup {"none"}
    BY ListFacts DEF TypeOK
<1>1. CASE WaitEnds \/ WaitCancelled \/ Exchange
    <2>1. stage = "acting" /\ at \in Recorded(list) /\ slot = NoPrompt
        BY <1>1 DEF WaitEnds, WaitCancelled, Exchange, PlaceIsRight, PromptIsAsked
    <2>2. PICK detail \in {"passed", "failed", "cancelled"} : Made(detail, 0)
        BY <1>1 DEF WaitEnds, WaitCancelled, Exchange
    <2>3. UNCHANGED <<promptVars, cancelVars, fileVars>>
        BY <1>1 DEF WaitEnds, WaitCancelled, Exchange
    <2> QED
        BY <2>1, <2>2, <2>3 DEF promptVars
<1>2. CASE PromptAnswered \/ PromptCancelled \/ PromptTimesOut
    <2>1. stage = "prompting" /\ at \in Recorded(list)
        BY <1>2 DEF PromptAnswered, PromptCancelled, PromptTimesOut, PlaceIsRight
    <2>2. PICK detail \in DetailType :
            /\ Resolve(detail)
            /\ IF slot.answer = "none" THEN detail \notin AnswerType ELSE detail = slot.answer
        BY <1>2, <1>t DEF PromptAnswered, PromptCancelled, PromptTimesOut
    <2> QED
        BY <1>t, <2>1, <2>2 DEF Resolve
<1>3. CASE DelayCancelled /\ Step.kind # "repeat"
    <2>1. stage = "delaying" /\ at \in Recorded(list) /\ slot = NoPrompt
        BY <1>3 DEF DelayCancelled, PlaceIsRight, PromptIsAsked
    <2>2. Made("cancelled", 0) /\ UNCHANGED <<promptVars, cancelVars, fileVars>>
        BY <1>3 DEF DelayCancelled
    <2> QED
        BY <2>1, <2>2 DEF promptVars
<1> QED
    BY <1>1, <1>2, <1>3

\* Next, as the proofs go through it.
LEMMA NextParts ==
    ASSUME TypeOK, PlaceIsRight, PromptIsAsked, [Next]_vars
    PROVE  \/ Moves
           \/ \E detail \in DetailType, id \in Nat : Records(detail, id)
           \/ Start \/ Publish \/ WriteStep \/ Announce \/ Seal \/ Release \/ Unwind \/ Restart
           \/ Cancel \/ \E p, a : Answers(p, a)
           \/ UNCHANGED vars
BY MoveCases, RecordCases DEF Next, Timer, Executor, Answers

\* TypeOK in parts.
PlaceTyped ==
    /\ list \in {"steps", "teardown"} /\ at \in 1 .. Len(Lists[list]) + 1
    /\ stage \in {"starting", "between", "delaying", "acting", "prompting", "writing",
                  "announcing", "sealing", "releasing", "unwinding", "over", "dead"}
FlagsTyped == {completed, cancel, cancellable, writeErr} \subseteq BOOLEAN
PromptTyped ==
    /\ slot \in [id : 0 .. prompts, answer : AnswerType \cup {"none"}]
    /\ prompts \in Nat
    /\ accepted \subseteq [id : 1 .. prompts, answer : AnswerType]
RecordTyped ==
    /\ ran \in Seq(RecordType)
    /\ announced \in 0 .. Len(ran)
    /\ disk \in [file : {"missing", "partial", "final"}, steps : Seq(RecordType),
                 completed : BOOLEAN]
    /\ job \in {"running", "completed", "failed", "none"}

LEMMA TypeParts ==
    /\ TypeOK <=> PlaceTyped /\ FlagsTyped /\ PromptTyped /\ RecordTyped
    /\ TypeOK' <=> PlaceTyped' /\ FlagsTyped' /\ PromptTyped' /\ RecordTyped'
BY ListFacts DEF TypeOK, PlaceTyped, FlagsTyped, PromptTyped, RecordTyped

LEMMA InitIInv == Init => IInv
<1> SUFFICES ASSUME Init PROVE IInv
    OBVIOUS
<1> USE ListFacts DEF Init, NoPrompt
<1>1. TypeOK
    <2>0. FlagsTyped
        BY DEF FlagsTyped
    <2>1. PlaceTyped
        BY DEF PlaceTyped
    <2>2. PromptTyped
        BY DEF PromptTyped
    <2>3. RecordTyped
        BY DEF RecordTyped
    <2> QED
        BY <2>0, <2>1, <2>2, <2>3, TypeParts
<1>2. PlaceIsRight /\ RecordsAreInOrder /\ NothingIsSkipped
    BY DEF PlaceIsRight, RecordsAreInOrder, NothingIsSkipped, Midway, Recorded
<1>3. PromptIsAsked /\ FileIsKept /\ EndIsTold
    BY DEF PromptIsAsked, AcceptedAnswersCount, FileIsKept, EndIsTold, Midway
<1> QED
    BY <1>1, <1>2, <1>3 DEF IInv

\* A sequence that is longer by one.
LEMMA Appending ==
    ASSUME NEW S, NEW s \in Seq(S), NEW r \in S
    PROVE  /\ Append(s, r) \in Seq(S) /\ Len(Append(s, r)) = Len(s) + 1 /\ Len(s) \in Nat
           /\ DOMAIN Append(s, r) = DOMAIN s \cup {Len(s) + 1}
           /\ \A k \in DOMAIN s : k \in Nat /\ k <= Len(s) /\ Append(s, r)[k] = s[k]
           /\ Append(s, r)[Len(s) + 1] = r
OBVIOUS

\* A step's record.
LEMMA RecordEffect ==
    ASSUME TypeOK, NEW detail \in DetailType, NEW id \in Nat, Records(detail, id)
    PROVE  /\ ran' \in Seq(RecordType) /\ Len(ran') = Len(ran) + 1 /\ Len(ran) \in Nat
           /\ ran' = Append(ran, ran'[Len(ran')])
           /\ DOMAIN ran' = DOMAIN ran \cup {Len(ran) + 1}
           /\ \A k \in DOMAIN ran : k \in Nat /\ k <= Len(ran) /\ ran'[k] = ran[k]
           /\ ran'[Len(ran) + 1] = [list |-> list, at |-> at, detail |-> detail, id |-> id]
           /\ stage' = "writing" /\ UNCHANGED <<list, at, completed>>
<1>1. [list |-> list, at |-> at, detail |-> detail, id |-> id] \in RecordType
    BY ListFacts DEF TypeOK, RecordType
<1>2. /\ ran \in Seq(RecordType) /\ stage' = "writing" /\ UNCHANGED <<list, at, completed>>
      /\ ran' = Append(ran, [list |-> list, at |-> at, detail |-> detail, id |-> id])
    BY DEF TypeOK, Records, Made
<1> QED
    BY <1>1, <1>2, Appending

LEMMA TypeNext == IInv /\ [Next]_vars => TypeOK'
<1> SUFFICES ASSUME IInv, [Next]_vars PROVE TypeOK'
    OBVIOUS
<1>t. /\ TypeOK /\ PlaceIsRight /\ PromptIsAsked /\ FileIsKept /\ RecordsAreInOrder
      /\ PlaceTyped /\ FlagsTyped /\ PromptTyped /\ RecordTyped
    BY TypeParts DEF IInv
<1>f. FlagsTyped'
    BY <1>t DEF FlagsTyped, Next, Timer, Executor, Start, ListEnds, SkipsRest, StartStep, DelayEnds,
       DelayCancelled, WaitEnds, WaitCancelled, Exchange, Panic, Publish, PromptAnswered,
       PromptCancelled, PromptTimesOut, Resolve, Made, WriteStep, Announce, Seal, Release, Unwind,
       Restart, Answer, Cancel, cancelVars, fileVars, walkVars, vars
<1>1. CASE Moves
    <2>1. PlaceTyped'
        BY <1>1, <1>t, ListFacts DEF Moves, Leaves, GoTo, PlaceTyped
    <2>2. PromptTyped' /\ RecordTyped'
        BY <1>1, <1>t DEF Moves, Leaves, PromptTyped, RecordTyped, promptVars, fileVars
    <2> QED
        BY <1>f, <2>1, <2>2, TypeParts
<1>2. ASSUME NEW detail \in DetailType, NEW id \in Nat, Records(detail, id) PROVE TypeOK'
    <2>1. PlaceTyped'
        BY <1>2, <1>t, RecordEffect DEF PlaceTyped
    <2>2. PromptTyped'
        BY <1>2, <1>t DEF Records, PromptTyped, NoPrompt
    <2>3. RecordTyped'
        <3>1. ran' \in Seq(RecordType) /\ Len(ran') = Len(ran) + 1 /\ Len(ran) \in Nat
            BY <1>2, <1>t, RecordEffect
        <3>2. UNCHANGED <<announced, disk, job>>
            BY <1>2 DEF Records, fileVars
        <3> QED
            BY <1>t, <3>1, <3>2 DEF RecordTyped
    <2> QED
        BY <1>f, <2>1, <2>2, <2>3, TypeParts
<1>3. CASE Start \/ Seal \/ Release \/ Unwind \/ Restart
    <2>1. PlaceTyped'
        BY <1>3, <1>t DEF Start, Seal, Release, Unwind, Restart, PlaceTyped
    <2>2. PromptTyped'
        BY <1>3, <1>t DEF Start, Seal, Release, Unwind, Restart, PromptTyped, NoPrompt, promptVars
    <2>3. RecordTyped'
        BY <1>3, <1>t DEF Start, Seal, Release, Unwind, Restart, RecordTyped, FlagsTyped, FinishRecord,
           fileVars
    <2> QED
        BY <1>f, <2>1, <2>2, <2>3, TypeParts
<1>4. CASE Publish
    BY <1>4, <1>f, <1>t, TypeParts DEF Publish, PlaceTyped, PromptTyped, RecordTyped, fileVars
<1>5. CASE WriteStep
    <2>1. Len(ran) > 0 /\ Last(ran) \in RecordType
        BY <1>5, <1>t DEF WriteStep, RecordsAreInOrder, Midway, RecordTyped, Last
    <2>2. RecordTyped'
        <3>1. UNCHANGED <<ran, announced, job>>
            BY <1>5 DEF WriteStep
        <3>2. CASE UNCHANGED disk
            BY <1>t, <3>1, <3>2 DEF RecordTyped
        <3>3. CASE disk' = [disk EXCEPT !.steps = Append(@, Last(ran))]
            <4>1. disk.steps \in Seq(RecordType)
                BY <1>t DEF RecordTyped
            <4>2. Append(disk.steps, Last(ran)) \in Seq(RecordType)
                BY <2>1, <4>1
            <4> QED
                BY <1>t, <3>1, <3>3, <4>2 DEF RecordTyped
        <3> QED
            BY <1>5, <3>2, <3>3 DEF WriteStep
    <2> QED
        BY <1>5, <1>f, <1>t, <2>2, TypeParts DEF WriteStep, PlaceTyped, PromptTyped, promptVars
<1>6. CASE Announce
    <2>1. announced + 1 = Len(ran) /\ at \in Recorded(list)
        BY <1>6, <1>t DEF Announce, FileIsKept, Midway, PlaceIsRight
    <2>2. PlaceTyped'
        BY <1>6, <1>t, <2>1, ListFacts DEF Announce, LeaveList, GoTo, PlaceTyped
    <2>3. RecordTyped'
        BY <1>6, <1>t, <2>1 DEF Announce, RecordTyped
    <2> QED
        BY <1>6, <1>f, <1>t, <2>2, <2>3, TypeParts DEF Announce, PromptTyped, promptVars
<1>7. ASSUME NEW p, NEW a, Answers(p, a) PROVE TypeOK'
    BY <1>7, <1>f, <1>t, TypeParts
       DEF Answers, Answer, PlaceTyped, PromptTyped, RecordTyped, walkVars, fileVars
<1>8. CASE Cancel \/ UNCHANGED vars
    BY <1>8, <1>f, <1>t, TypeParts
       DEF Cancel, PlaceTyped, PromptTyped, RecordTyped, vars, walkVars, promptVars, fileVars
<1> QED
    BY <1>1, <1>2, <1>3, <1>4, <1>5, <1>6, <1>7, <1>8, <1>t, NextParts

LEMMA PlaceNext == IInv /\ [Next]_vars => PlaceIsRight'
<1> SUFFICES ASSUME IInv, [Next]_vars PROVE PlaceIsRight'
    OBVIOUS
<1> USE DEF Recorded
<1>t. TypeOK /\ PlaceIsRight /\ PromptIsAsked /\ PlaceTyped /\ RecordTyped
    BY TypeParts DEF IInv
<1>1. CASE Moves
    <2>1. disk' = disk
        BY <1>1 DEF Moves, fileVars
    <2> QED
        BY <1>1, <1>t, <2>1, ListFacts DEF Moves, Leaves, GoTo, PlaceIsRight, PlaceTyped
<1>2. ASSUME NEW detail \in DetailType, NEW id \in Nat, Records(detail, id) PROVE PlaceIsRight'
    BY <1>2, <1>t DEF Records, Made, PlaceIsRight
<1>3. CASE Start \/ Seal \/ Release \/ Unwind \/ Restart
    BY <1>3, <1>t DEF Start, Seal, Release, Unwind, Restart, PlaceIsRight, RecordTyped
<1>4. CASE Publish \/ WriteStep
    BY <1>4, <1>t DEF Publish, WriteStep, PlaceIsRight
<1>5. CASE Announce
    BY <1>5, <1>t, ListFacts DEF Announce, LeaveList, GoTo, PlaceIsRight, PlaceTyped, Stops
<1>6. CASE Cancel \/ (\E p, a : Answers(p, a)) \/ UNCHANGED vars
    BY <1>6, <1>t DEF Cancel, Answers, Answer, PlaceIsRight, vars, walkVars, fileVars
<1> QED
    BY <1>1, <1>2, <1>3, <1>4, <1>5, <1>6, <1>t, NextParts

LEMMA PromptNext == IInv /\ [Next]_vars => PromptIsAsked'
<1> SUFFICES ASSUME IInv, [Next]_vars PROVE PromptIsAsked'
    OBVIOUS
<1>t. TypeOK /\ PlaceIsRight /\ PromptIsAsked /\ PlaceTyped /\ RecordTyped /\ PromptTyped
    BY TypeParts DEF IInv
<1>r. \A k \in DOMAIN ran : ran[k].id \in Nat
    <2>1. ran \in Seq(RecordType)
        BY <1>t DEF RecordTyped
    <2>2. \A k \in DOMAIN ran : ran[k] \in RecordType
        BY <2>1
    <2> QED
        BY <2>2 DEF RecordType
<1>1. CASE Moves
    BY <1>1, <1>t DEF Moves, Leaves, GoTo, PromptIsAsked, AcceptedAnswersCount, promptVars, NoPrompt,
       PlaceTyped
<1>2. ASSUME NEW detail \in DetailType, NEW id \in Nat, Records(detail, id) PROVE PromptIsAsked'
    <2>1. /\ DOMAIN ran' = DOMAIN ran \cup {Len(ran) + 1}
          /\ \A k \in DOMAIN ran : ran'[k] = ran[k]
          /\ ran'[Len(ran) + 1].id = id /\ ran'[Len(ran) + 1].detail = detail
          /\ stage' = "writing"
        <3>1. /\ DOMAIN ran' = DOMAIN ran \cup {Len(ran) + 1}
              /\ \A k \in DOMAIN ran : ran'[k] = ran[k]
              /\ ran'[Len(ran) + 1] = [list |-> list, at |-> at, detail |-> detail, id |-> id]
              /\ stage' = "writing"
            BY <1>2, <1>t, RecordEffect
        <3> QED
            BY <3>1
    <2>2. slot' = NoPrompt /\ UNCHANGED <<prompts, accepted>> /\ prompts \in Nat
        BY <1>2, <1>t DEF Records, PromptTyped
    <2>3. \A a \in accepted : a.id \in 1 .. prompts /\ a.answer \in AnswerType
        BY <1>t DEF PromptTyped
    <2>4. /\ \A a \in accepted : a.id = id => detail = a.answer
          /\ detail \in AnswerType => \E a \in accepted : a.id = id
          /\ id <= prompts
        <3>1. CASE stage # "prompting" /\ id = 0 /\ detail \notin AnswerType
            BY <2>2, <2>3, <3>1
        <3>2. CASE /\ stage = "prompting" /\ id = prompts
                   /\ IF slot.answer = "none" THEN detail \notin AnswerType ELSE detail = slot.answer
            <4>1. /\ \A a \in accepted : a.id = prompts => a.answer = slot.answer
                  /\ slot.answer # "none" => \E a \in accepted : a.id = prompts
                BY <1>t, <3>2 DEF PromptIsAsked
            <4> QED
                BY <2>2, <2>3, <3>2, <4>1 DEF AnswerType
        <3> QED
            BY <1>2, <3>1, <3>2 DEF Records
    <2>5. AcceptedAnswersCount'
        BY <1>t, <2>1, <2>2, <2>4 DEF PromptIsAsked, AcceptedAnswersCount
    <2> QED
        BY <1>t, <2>1, <2>2, <2>4, <2>5 DEF PromptIsAsked
<1>3. CASE Publish
    <2>1. /\ UNCHANGED <<ran, accepted>> /\ prompts' = prompts + 1 /\ prompts \in Nat
          /\ slot' = [id |-> prompts + 1, answer |-> "none"] /\ stage' = "prompting"
        BY <1>3, <1>t DEF Publish, PromptTyped
    <2>2. \A k \in DOMAIN ran : ran[k].id <= prompts /\ ran[k].id \in Nat
        BY <1>r, <1>t DEF PromptIsAsked
    <2>3. \A a \in accepted : a.id \in 1 .. prompts
        BY <1>t DEF PromptTyped
    <2>4. \A k \in DOMAIN ran : ran[k].id <= prompts' /\ ran[k].id # prompts'
        BY <2>1, <2>2
    <2>5. \A a \in accepted : a.id # prompts'
        BY <2>1, <2>3
    <2>6. prompts' > 0
        BY <2>1
    <2> QED
        BY <1>t, <2>1, <2>4, <2>5, <2>6 DEF PromptIsAsked, AcceptedAnswersCount
<1>4. ASSUME NEW p, NEW a, Answers(p, a) PROVE PromptIsAsked'
    <2>1. /\ p = slot.id /\ slot.answer = "none" /\ p \in 1 .. prompts /\ a \in AnswerType
          /\ UNCHANGED <<ran, stage, prompts>>
          /\ slot' = [slot EXCEPT !.answer = a]
          /\ accepted' = accepted \cup {[id |-> p, answer |-> a]}
        BY <1>4 DEF Answers, Answer, Waits, walkVars
    <2>2. prompts \in Nat /\ \A e \in accepted : e.answer # "none"
        BY <1>t DEF PromptTyped, AnswerType
    <2>3. stage = "prompting" /\ p = prompts
        BY <1>t, <2>1, <2>2 DEF PromptIsAsked, NoPrompt
    <2>4. slot'.id = slot.id /\ slot'.answer = a
        BY <1>t, <2>1 DEF PromptTyped
    <2>5. \A e \in accepted : e.id # p
        BY <1>t, <2>1, <2>2, <2>3 DEF PromptIsAsked
    <2>6. AcceptedAnswersCount'
        BY <1>t, <2>1, <2>3 DEF PromptIsAsked, AcceptedAnswersCount
    <2>7. /\ \A e \in accepted' : e.id = prompts => e.answer = a
          /\ \E e \in accepted' : e.id = prompts
        <3>1. PICK r : r = [id |-> p, answer |-> a]
            OBVIOUS
        <3>2. r.id = prompts /\ r.answer = a /\ accepted' = accepted \cup {r}
            BY <2>1, <2>3, <3>1
        <3> QED
            BY <2>3, <2>5, <3>2
    <2> QED
        BY <1>t, <2>1, <2>3, <2>4, <2>6, <2>7 DEF PromptIsAsked
<1>5. CASE Start \/ Seal \/ WriteStep \/ Announce
    BY <1>5, <1>t DEF Start, Seal, WriteStep, Announce, LeaveList, GoTo, PromptIsAsked,
       AcceptedAnswersCount, promptVars, NoPrompt
<1>6. CASE Release \/ Unwind \/ Restart
    BY <1>6, <1>t DEF Release, Unwind, Restart, PromptIsAsked, AcceptedAnswersCount, NoPrompt
<1>7. CASE Cancel \/ UNCHANGED vars
    BY <1>7, <1>t DEF Cancel, PromptIsAsked, AcceptedAnswersCount, vars, walkVars, promptVars
<1> QED
    BY <1>1, <1>2, <1>3, <1>4, <1>5, <1>6, <1>7, <1>t, NextParts

LEMMA FileNext == IInv /\ [Next]_vars => FileIsKept'
<1> SUFFICES ASSUME IInv, [Next]_vars PROVE FileIsKept'
    OBVIOUS
<1> USE DEF Midway
<1>t. /\ TypeOK /\ PlaceIsRight /\ PromptIsAsked /\ FileIsKept /\ RecordsAreInOrder
      /\ ran \in Seq(RecordType) /\ Len(ran) \in Nat /\ announced \in Nat
      /\ disk \in [file : {"missing", "partial", "final"}, steps : Seq(RecordType),
                   completed : BOOLEAN]
    BY DEF IInv, TypeOK
<1>d. disk.steps \in Seq(RecordType) /\ Len(disk.steps) \in Nat
    BY <1>t
<1>1. CASE Moves
    BY <1>1, <1>t DEF Moves, Leaves, GoTo, FileIsKept, fileVars
<1>2. ASSUME NEW detail \in DetailType, NEW id \in Nat, Records(detail, id) PROVE FileIsKept'
    <2>1. /\ Len(ran') = Len(ran) + 1 /\ ran' = Append(ran, ran'[Len(ran')]) /\ stage' = "writing"
          /\ stage \in {"delaying", "acting", "prompting"} /\ UNCHANGED <<writeErr, announced, disk>>
        BY <1>2, <1>t, RecordEffect DEF Records, fileVars
    <2> QED
        BY <1>t, <2>1 DEF FileIsKept
<1>3. CASE WriteStep
    <2>1. /\ stage = "writing" /\ stage' = "announcing" /\ UNCHANGED <<ran, announced>>
          /\ \/ writeErr' = TRUE
             \/ ~writeErr /\ ~writeErr' /\ disk' = [disk EXCEPT !.steps = Append(@, Last(ran))]
        BY <1>3 DEF WriteStep
    <2>2. announced + 1 = Len(ran)
        BY <1>t, <2>1 DEF FileIsKept
    <2>3. CASE ~writeErr /\ ~writeErr' /\ disk' = [disk EXCEPT !.steps = Append(@, Last(ran))]
        <3>1. disk'.steps = ran
            BY <1>t, <2>1, <2>3 DEF FileIsKept, Last
        <3> QED
            BY <1>t, <2>1, <2>2, <3>1 DEF FileIsKept
    <2> QED
        BY <2>1, <2>2, <2>3 DEF FileIsKept
<1>4. CASE Announce
    <2>1. /\ stage = "announcing" /\ stage' \in {"between", "sealing"} /\ announced' = announced + 1
          /\ UNCHANGED <<ran, writeErr, disk>>
        BY <1>4 DEF Announce, LeaveList, GoTo
    <2> QED
        BY <1>t, <2>1 DEF FileIsKept
<1>5. CASE Start \/ Seal
    <2>1. disk'.steps = disk.steps /\ UNCHANGED <<ran, writeErr, announced>>
        BY <1>5, <1>t DEF Start, Seal, FinishRecord
    <2>2. stage \notin {"writing", "announcing", "dead"} /\ stage' \in {"between", "releasing"}
        BY <1>5 DEF Start, Seal
    <2> QED
        BY <1>t, <2>1, <2>2 DEF FileIsKept
<1>6. CASE Publish \/ Release \/ Unwind \/ Restart
    BY <1>6, <1>t, <1>d DEF Publish, Release, Unwind, Restart, FileIsKept, fileVars
<1>7. CASE Cancel \/ (\E p, a : Answers(p, a)) \/ UNCHANGED vars
    BY <1>7, <1>t DEF Cancel, Answers, Answer, FileIsKept, vars, walkVars, fileVars
<1> QED
    BY <1>1, <1>2, <1>3, <1>4, <1>5, <1>6, <1>7, <1>t, NextParts

LEMMA OrderNext == IInv /\ [Next]_vars => RecordsAreInOrder'
<1> SUFFICES ASSUME IInv, [Next]_vars PROVE RecordsAreInOrder'
    OBVIOUS
<1> USE DEF Midway
<1>t. /\ TypeOK /\ PlaceIsRight /\ PromptIsAsked /\ RecordsAreInOrder /\ PlaceTyped
      /\ ran \in Seq(RecordType) /\ Len(ran) \in Nat
    BY TypeParts DEF IInv, RecordTyped
<1>r. \A k \in DOMAIN ran : ran[k].list \in {"steps", "teardown"} /\ ran[k].at \in Nat /\ k \in Nat
    <2>1. \A k \in DOMAIN ran : ran[k] \in RecordType /\ k \in Nat
        BY <1>t
    <2> QED
        BY <2>1, ListFacts DEF RecordType
<1>1. ASSUME UNCHANGED ran,
             \/ stage' = "dead" /\ UNCHANGED <<list, at>>
             \/ stage \notin {"writing", "announcing", "dead"} /\ UNCHANGED <<list, at>>
                /\ stage' \notin {"writing", "announcing", "dead"}
             \/ stage = "writing" /\ stage' = "announcing" /\ UNCHANGED <<list, at>>
             \/ UNCHANGED <<list, at, stage>>
             \/ /\ stage \notin {"starting", "dead"} /\ stage' = "between"
                /\ \/ list = "steps" /\ list' = "teardown"
                   \/ list' = list /\ at' = at + 1
      PROVE  RecordsAreInOrder'
    <2>1. CASE UNCHANGED <<list, at>>
        BY <1>1, <1>t, <1>r, <2>1 DEF RecordsAreInOrder
    <2>2. CASE /\ stage \notin {"starting", "dead"} /\ stage' = "between"
               /\ list = "steps" /\ list' = "teardown"
        BY <1>1, <1>t, <1>r, <2>2 DEF RecordsAreInOrder
    <2>3. CASE /\ stage \notin {"starting", "dead"} /\ stage' = "between"
               /\ list' = list /\ at' = at + 1
        <3>1. \A k \in DOMAIN ran : ran[k].list = list => ran[k].at < at \/ ran[k].at = at
            BY <1>t, <2>3 DEF RecordsAreInOrder
        <3>2. at \in Nat
            BY <1>t, ListFacts DEF PlaceTyped
        <3>3. \A k \in DOMAIN ran : ran[k].list = list => ran[k].at < at'
            BY <1>r, <2>3, <3>1, <3>2
        <3> QED
            BY <1>1, <1>t, <2>3, <3>3 DEF RecordsAreInOrder
    <2> QED
        BY <1>1, <2>1, <2>2, <2>3
<1>2. ASSUME NEW detail \in DetailType, NEW id \in Nat, Records(detail, id) PROVE RecordsAreInOrder'
    <2>1. /\ DOMAIN ran' = DOMAIN ran \cup {Len(ran) + 1} /\ Len(ran') = Len(ran) + 1
          /\ \A k \in DOMAIN ran : k <= Len(ran) /\ ran'[k] = ran[k]
          /\ ran'[Len(ran) + 1] = [list |-> list, at |-> at, detail |-> detail, id |-> id]
          /\ stage' = "writing" /\ UNCHANGED <<list, at>>
        BY <1>2, <1>t, RecordEffect
    <2>2. ran'[Len(ran) + 1].list = list /\ ran'[Len(ran) + 1].at = at
        BY <2>1
    <2>3. at \in Recorded(list) /\ stage \in {"delaying", "acting", "prompting"}
        BY <1>2 DEF Records
    <2>4. \A k \in DOMAIN ran : ran[k].list = list => ran[k].at < at
        BY <1>t, <2>3 DEF RecordsAreInOrder
    <2>5. \A k \in DOMAIN ran : ran[k].list = "teardown" => list = "teardown"
        BY <1>t DEF RecordsAreInOrder, PlaceTyped
    <2>6. \A k, m \in DOMAIN ran' : k < m =>
            /\ ran'[k].list = "teardown" => ran'[m].list = "teardown"
            /\ ran'[k].list = ran'[m].list => ran'[k].at < ran'[m].at
        <3> SUFFICES ASSUME NEW k \in DOMAIN ran', NEW m \in DOMAIN ran', k < m
                     PROVE  /\ ran'[k].list = "teardown" => ran'[m].list = "teardown"
                            /\ ran'[k].list = ran'[m].list => ran'[k].at < ran'[m].at
            OBVIOUS
        <3>1. k \in DOMAIN ran
            BY <1>t, <1>r, <2>1
        <3>2. CASE m \in DOMAIN ran
            BY <1>t, <2>1, <3>1, <3>2 DEF RecordsAreInOrder
        <3>3. CASE m = Len(ran) + 1
            BY <2>1, <2>2, <2>4, <2>5, <3>1, <3>3
        <3> QED
            BY <2>1, <3>2, <3>3
    <2>7. list = "steps" => \A k \in DOMAIN ran' : ran'[k].list = "steps"
        BY <1>t, <2>1, <2>2 DEF RecordsAreInOrder
    <2>8. \A k \in DOMAIN ran' : ran'[k].at \in Recorded(ran'[k].list)
        BY <1>t, <2>1, <2>2, <2>3 DEF RecordsAreInOrder
    <2>9. \A k \in DOMAIN ran' : ran'[k].list = list => ran'[k].at < at \/ k = Len(ran')
        BY <2>1, <2>4
    <2> QED
        BY <1>t, <2>1, <2>2, <2>6, <2>7, <2>8, <2>9 DEF RecordsAreInOrder, Recorded
<1>3. CASE Moves
    BY <1>1, <1>3 DEF Moves, Leaves, GoTo
<1>4. CASE Announce
    BY <1>1, <1>4 DEF Announce, LeaveList, GoTo, Stops
<1>5. CASE Start \/ Seal \/ Publish \/ WriteStep \/ Release \/ Unwind \/ Restart
    BY <1>1, <1>5 DEF Start, Seal, Publish, WriteStep, Release, Unwind, Restart
<1>6. CASE Cancel \/ (\E p, a : Answers(p, a)) \/ UNCHANGED vars
    BY <1>1, <1>6 DEF Cancel, Answers, Answer, vars, walkVars
<1> QED
    BY <1>2, <1>3, <1>4, <1>5, <1>6, <1>t, NextParts

LEMMA NothingNext == IInv /\ [Next]_vars => NothingIsSkipped'
<1> SUFFICES ASSUME IInv, [Next]_vars PROVE NothingIsSkipped'
    OBVIOUS
<1> USE DEF Midway
<1>t. /\ TypeOK /\ PlaceIsRight /\ PromptIsAsked /\ RecordsAreInOrder /\ NothingIsSkipped /\ PlaceTyped
      /\ ran \in Seq(RecordType) /\ Len(ran) \in Nat
    BY TypeParts DEF IInv, RecordTyped
<1>a. at \in Nat /\ \A l \in {"steps", "teardown"} : \A i \in Recorded(l) : i \in 1 .. Len(Lists[l])
    BY <1>t, ListFacts DEF PlaceTyped
<1>1. ASSUME UNCHANGED <<ran, list, at>>, stage # "dead" \/ stage' = "dead" PROVE NothingIsSkipped'
    BY <1>1, <1>t DEF NothingIsSkipped
<1>2. ASSUME NEW detail \in DetailType, NEW id \in Nat, Records(detail, id) PROVE NothingIsSkipped'
    <2>1. /\ DOMAIN ran' = DOMAIN ran \cup {Len(ran) + 1}
          /\ \A k \in DOMAIN ran : ran'[k] = ran[k]
          /\ UNCHANGED <<list, at>>
        BY <1>2, <1>t, RecordEffect
    <2>2. stage # "dead"
        BY <1>2 DEF Records
    <2> QED
        BY <1>t, <2>1, <2>2 DEF NothingIsSkipped
\* Past a Repeat, or past what has its record.
<1>3. ASSUME UNCHANGED ran, list' = list, at' = at + 1, stage # "dead",
             at \notin Recorded(list) \/ \E k \in DOMAIN ran : ran[k].list = list /\ ran[k].at = at
      PROVE  NothingIsSkipped'
    <2>1. \A i \in Recorded(list) : i < at + 1 => i < at \/ i = at
        BY <1>a, <1>t DEF PlaceTyped
    <2> QED
        BY <1>3, <1>t, <2>1 DEF NothingIsSkipped
<1>4. ASSUME list' = "teardown", at' = 1 PROVE NothingIsSkipped'
    <2>1. \A i \in Recorded("teardown") : ~(i < 1)
        BY <1>a
    <2> QED
        BY <1>4, <2>1 DEF NothingIsSkipped
<1>5. CASE Moves
    BY <1>1, <1>3, <1>4, <1>5 DEF Moves, Leaves, GoTo
<1>6. CASE Announce
    <2>1. stage = "announcing" /\ \E k \in DOMAIN ran : ran[k].list = list /\ ran[k].at = at
        BY <1>6, <1>t DEF Announce, RecordsAreInOrder
    <2> QED
        BY <1>3, <1>4, <1>6, <2>1 DEF Announce, LeaveList, GoTo, Stops
<1>7. CASE Start \/ Seal \/ Publish \/ WriteStep \/ Release \/ Unwind \/ Restart
    BY <1>1, <1>7 DEF Start, Seal, Publish, WriteStep, Release, Unwind, Restart
<1>8. CASE Cancel \/ (\E p, a : Answers(p, a)) \/ UNCHANGED vars
    BY <1>1, <1>8, <1>t DEF Cancel, Answers, Answer, NothingIsSkipped, vars, walkVars
<1> QED
    BY <1>2, <1>5, <1>6, <1>7, <1>8, <1>t, NextParts

\* How the steps ended is settled when they are left.
LEMMA LeavingTells ==
    ASSUME IInv, Leaves, UNCHANGED ran, stage \in {"between", "delaying", "acting"}
    PROVE  /\ completed' => Whole
           /\ ~completed' => ~Whole \/ SkipsNothing
<1>t. /\ PlaceTyped /\ PlaceIsRight /\ RecordsAreInOrder /\ NothingIsSkipped /\ EndIsTold
      /\ list = "steps" /\ completed
    BY TypeParts DEF IInv, EndIsTold, Leaves
<1>s. /\ Lists["steps"] = Steps /\ Len(Steps) \in Nat /\ DOMAIN Steps = 1 .. Len(Steps)
      /\ \A i \in Recorded("steps") : i \in 1 .. Len(Steps)
    BY ListFacts
<1>1. CASE at = Len(Steps) + 1 /\ UNCHANGED completed
    <2>1. \A i \in Recorded("steps") : i < at
        BY <1>1, <1>s
    <2>2. \A k \in DOMAIN ran : ~EndsStudy(ran[k])
        BY <1>t DEF EndIsTold, Midway
    <2> QED
        BY <1>1, <1>t, <2>1, <2>2 DEF NothingIsSkipped, Whole
<1>2. CASE at \in DOMAIN Steps /\ (cancel \/ at \in Recorded("steps")) /\ completed' = FALSE
    <2>1. \A k \in DOMAIN ran : ran[k].list = "steps" => ran[k].at < at
        BY <1>t DEF RecordsAreInOrder, Midway
    <2>2. ASSUME NEW i \in Recorded("steps"), at <= i PROVE ~Whole
        <3>1. \A k \in DOMAIN ran : ~(ran[k].list = "steps" /\ ran[k].at = i)
            BY <1>s, <1>2, <2>1, <2>2
        <3> QED
            BY <3>1 DEF Whole
    <2>3. CASE at \in Recorded("steps")
        BY <1>s, <1>2, <2>2, <2>3
    <2>4. CASE cancel /\ at \notin Recorded("steps")
        <3>1. Len(Steps) \in DOMAIN Steps /\ at <= Len(Steps) /\ Steps # <<>>
            BY <1>s, <1>2
        <3>2. CASE Len(Steps) \in Recorded("steps")
            BY <1>2, <2>2, <3>1, <3>2
        <3>3. CASE Len(Steps) \notin Recorded("steps")
            <4>1. Steps[Len(Steps)].kind = "repeat"
                BY <1>s, <3>1, <3>3 DEF Recorded
            <4> QED
                BY <1>2, <2>4, <3>1, <4>1 DEF SkipsNothing, Last
        <3> QED
            BY <3>2, <3>3, <1>2
    <2> QED
        BY <1>2, <2>3, <2>4
<1> QED
    BY <1>1, <1>2 DEF Leaves

\* What Whole and SkipsNothing say outlasts a step that leaves the steps' records alone.
LEMMA WholeStays ==
    ASSUME UNCHANGED ran \/ (/\ DOMAIN ran' = DOMAIN ran \cup {Len(ran) + 1}
                             /\ \A k \in DOMAIN ran : ran'[k] = ran[k]
                             /\ ran'[Len(ran) + 1].list = "teardown"),
           cancel => cancel'
    PROVE  /\ Whole <=> Whole'
           /\ SkipsNothing => SkipsNothing'
<1>1. SkipsNothing => SkipsNothing'
    BY DEF SkipsNothing
<1>2. CASE UNCHANGED ran
    BY <1>1, <1>2 DEF Whole
<1>3. CASE /\ DOMAIN ran' = DOMAIN ran \cup {Len(ran) + 1}
           /\ \A k \in DOMAIN ran : ran'[k] = ran[k]
           /\ ran'[Len(ran) + 1].list = "teardown"
    <2>1. \A k \in DOMAIN ran' : k \in DOMAIN ran \/ ran'[k].list = "teardown"
        BY <1>3
    <2>2. \A k \in DOMAIN ran : ran'[k].list = ran[k].list /\ ran'[k].at = ran[k].at
              /\ (EndsStudy(ran'[k]) <=> EndsStudy(ran[k]))
        BY <1>3
    <2>3. \A k \in DOMAIN ran' : ran'[k].list = "teardown" => ~EndsStudy(ran'[k])
        BY DEF EndsStudy
    <2> QED
        BY <1>1, <1>3, <2>1, <2>2, <2>3 DEF Whole
<1> QED
    BY <1>2, <1>3

LEMMA EndNext == IInv /\ [Next]_vars => EndIsTold'
<1> SUFFICES ASSUME IInv, [Next]_vars PROVE EndIsTold'
    OBVIOUS
<1> USE DEF Midway
<1>t. /\ TypeOK /\ PlaceIsRight /\ PromptIsAsked /\ FileIsKept /\ RecordsAreInOrder /\ EndIsTold
      /\ PlaceTyped /\ RecordTyped /\ Len(ran) \in Nat
    BY TypeParts DEF IInv, RecordTyped
<1>c. cancel => cancel'
    BY <1>t, NextParts DEF Moves, Records, Start, Publish, WriteStep, Announce, Seal, Release, Unwind,
       Restart, Cancel, Answers, Answer, vars, cancelVars
<1>f. stage \notin {"releasing", "over", "dead"} => disk.file # "final"
    BY <1>t DEF EndIsTold
<1>1. ASSUME UNCHANGED <<ran, list, completed, disk>>,
             stage \in {"writing", "announcing"} => 
                \/ stage' \in {stage, "dead"}
                \/ stage = "writing" /\ stage' = "announcing",
             stage \in {"unwinding", "over", "dead"} => stage' \in {"unwinding", "over", "dead"},
             disk.file = "final" => stage' \in {"releasing", "over", "dead"},
             stage = "dead" => stage' = "dead"
      PROVE  EndIsTold'
    BY <1>1, <1>t, <1>c, WholeStays DEF EndIsTold
<1>2. ASSUME NEW detail \in DetailType, NEW id \in Nat, Records(detail, id) PROVE EndIsTold'
    <2>1. /\ DOMAIN ran' = DOMAIN ran \cup {Len(ran) + 1} /\ Len(ran') = Len(ran) + 1
          /\ \A k \in DOMAIN ran : ran'[k] = ran[k]
          /\ ran'[Len(ran) + 1] = [list |-> list, at |-> at, detail |-> detail, id |-> id]
          /\ stage' = "writing" /\ UNCHANGED <<list, completed>>
        BY <1>2, <1>t, RecordEffect
    <2>2. stage \in {"delaying", "acting", "prompting"} /\ UNCHANGED disk /\ disk.file # "final"
        BY <1>2, <1>f DEF Records, fileVars
    <2>3. CASE list = "steps"
        <3>1. \A k \in DOMAIN ran' : EndsStudy(ran'[k]) => k = Len(ran')
            BY <1>t, <2>1, <2>2, <2>3 DEF EndIsTold
        <3> QED
            BY <1>t, <2>1, <2>2, <2>3, <3>1 DEF EndIsTold
    <2>4. CASE list = "teardown"
        <3>1. ran'[Len(ran) + 1].list = "teardown"
            BY <2>1, <2>4
        <3>2. (Whole <=> Whole') /\ (SkipsNothing => SkipsNothing')
            BY <1>c, <2>1, <3>1, WholeStays
        <3> QED
            BY <1>t, <2>1, <2>2, <2>4, <3>2 DEF EndIsTold
    <2> QED
        BY <1>t, <2>3, <2>4 DEF PlaceTyped
\* The steps are left.
<1>3. ASSUME UNCHANGED <<ran, disk>>, list = "steps", list' = "teardown", stage' = "between",
             disk.file # "final",
             completed' => Whole, ~completed' => ~Whole \/ SkipsNothing
      PROVE  EndIsTold'
    BY <1>3, <1>c, WholeStays DEF EndIsTold
<1>4. CASE Moves
    <2>1. stage \in {"between", "delaying", "acting"} /\ UNCHANGED <<ran, disk>> /\ disk.file # "final"
        BY <1>4, <1>f DEF Moves, fileVars
    <2>2. CASE Leaves
        BY <1>3, <2>1, <2>2, LeavingTells DEF Leaves, GoTo
    <2>3. CASE list = "teardown" /\ stage' = "unwinding" /\ UNCHANGED list
        BY <2>1, <2>3 DEF EndIsTold
    <2> QED
        BY <1>1, <1>4, <2>1, <2>2, <2>3 DEF Moves, GoTo
<1>5. CASE Announce
    <2>1. /\ stage = "announcing" /\ UNCHANGED <<ran, disk>> /\ disk.file # "final"
          /\ Len(ran) > 0 /\ ran[Len(ran)].list = list /\ ran[Len(ran)].at = at
          /\ Len(ran) \in DOMAIN ran
        BY <1>5, <1>f, <1>t DEF Announce, RecordsAreInOrder, RecordTyped
    <2>2. list = "steps" => (Stops <=> EndsStudy(ran[Len(ran)]))
        BY <2>1, ListFacts DEF Stops, EndsStudy, Last, Step
    <2>3. CASE Stops
        <3>1. /\ list = "steps" /\ list' = "teardown" /\ stage' = "between" /\ completed' = FALSE
            BY <1>5, <2>3 DEF Announce, LeaveList, GoTo, Stops
        <3>2. ~Whole
            BY <2>1, <2>2, <2>3, <3>1 DEF Whole
        <3> QED
            BY <1>3, <2>1, <3>1, <3>2
    <2>4. CASE ~Stops
        <3>1. UNCHANGED <<list, completed>> /\ stage' = "between"
            BY <1>5, <2>4 DEF Announce, GoTo
        <3>2. list = "steps" => \A k \in DOMAIN ran : ~EndsStudy(ran[k])
            BY <1>t, <2>1, <2>2, <2>4 DEF EndIsTold
        <3> QED
            BY <1>t, <1>c, <2>1, <3>1, <3>2, WholeStays DEF EndIsTold
    <2> QED
        BY <2>3, <2>4
<1>6. CASE Seal
    <2>1. /\ stage = "sealing" /\ stage' = "releasing" /\ UNCHANGED <<ran, list, completed>>
          /\ list = "teardown"
        BY <1>6, <1>t DEF Seal, PlaceIsRight
    <2>2. CASE UNCHANGED disk
        BY <1>1, <1>f, <2>1, <2>2
    <2>3. CASE ~writeErr /\ disk' = [disk EXCEPT !.file = "final", !.completed = completed]
        <3>1. disk'.steps = ran /\ disk'.completed = completed
            BY <1>t, <2>1, <2>3 DEF FileIsKept, RecordTyped
        <3> QED
            BY <1>t, <1>c, <2>1, <3>1, WholeStays DEF EndIsTold
    <2> QED
        BY <1>6, <2>2, <2>3 DEF Seal, FinishRecord
<1>7. CASE Start
    <2>1. /\ disk'.file # "final" /\ UNCHANGED <<ran, list, completed>> /\ list = "steps" /\ ran = <<>>
        BY <1>7, <1>f, <1>t DEF Start, PlaceIsRight, RecordTyped
    <2> QED
        BY <1>t, <2>1 DEF EndIsTold
<1>8. CASE WriteStep
    <2>1. /\ disk'.file # "final" /\ UNCHANGED <<ran, list, completed>>
          /\ stage = "writing" /\ stage' = "announcing"
        BY <1>8, <1>f, <1>t DEF WriteStep, RecordTyped
    <2> QED
        BY <1>t, <1>c, <2>1, WholeStays DEF EndIsTold
<1>9. CASE Publish \/ Release \/ Unwind \/ Restart
    <2>1. UNCHANGED <<ran, list, completed, disk>>
        BY <1>9 DEF Publish, Release, Unwind, Restart, fileVars
    <2>2. CASE Publish
        BY <1>1, <1>f, <2>1, <2>2 DEF Publish
    <2>3. CASE Release
        BY <1>1, <2>1, <2>3 DEF Release
    <2>4. CASE Unwind
        BY <1>1, <1>f, <2>1, <2>4 DEF Unwind
    <2>5. CASE Restart
        <3>1. stage' = "dead"
            BY <2>5 DEF Restart
        <3> QED
            BY <1>1, <2>1, <3>1
    <2> QED
        BY <1>9, <2>2, <2>3, <2>4, <2>5
<1>10. CASE Cancel \/ (\E p, a : Answers(p, a)) \/ UNCHANGED vars
    <2>1. UNCHANGED <<ran, list, completed, disk, stage>>
        BY <1>10 DEF Cancel, Answers, Answer, vars, walkVars, fileVars
    <2> QED
        BY <1>t, <1>c, <2>1, WholeStays DEF EndIsTold
<1> QED
    BY <1>2, <1>4, <1>5, <1>6, <1>7, <1>8, <1>9, <1>10, <1>t, NextParts

-----------------------------------------------------------------------------
(* The invariant, and what it is for                                       *)

LEMMA NextIInv == IInv /\ [Next]_vars => IInv'
BY TypeNext, PlaceNext, OrderNext, NothingNext, PromptNext, FileNext, EndNext DEF IInv

\* The place of the executor, its records, its prompt and its file go together
\* throughout, whatever people do.
THEOREM Inductive == Spec => []IInv
BY InitIInv, NextIInv, PTL DEF Spec

\* "Teardown runs on every exit" (execute, host_study.rs): each step of it, once,
\* in order and after all others.
THEOREM TeardownAlwaysRuns == Spec => []TeardownRuns
<1>1. ASSUME IInv, stage \in {"sealing", "releasing"}, disk.file # "missing"
      PROVE  /\ Places("teardown") = Recorded("teardown")
             /\ \A k, m \in DOMAIN ran : k < m /\ ran[k].list = "teardown" =>
                   ran[m].list = "teardown" /\ ran[k].at < ran[m].at
    <2>t. PlaceIsRight /\ RecordsAreInOrder /\ NothingIsSkipped
        BY <1>1 DEF IInv
    <2>1. list = "teardown" /\ at = Len(Teardown) + 1
        BY <1>1, <2>t DEF PlaceIsRight
    <2>2. \A i \in Recorded("teardown") : i < at
        BY <2>1, ListFacts
    <2>3. \A i \in Recorded("teardown") :
            \E k \in DOMAIN ran : ran[k].list = "teardown" /\ ran[k].at = i
        BY <1>1, <2>t, <2>1, <2>2 DEF NothingIsSkipped
    <2>4. \A k \in DOMAIN ran : ran[k].at \in Recorded(ran[k].list)
        BY <2>t DEF RecordsAreInOrder
    <2>5. Places("teardown") = Recorded("teardown")
        BY <2>3, <2>4 DEF Places
    <2>6. \A k, m \in DOMAIN ran : k < m /\ ran[k].list = "teardown" =>
            ran[m].list = "teardown" /\ ran[k].at < ran[m].at
        BY <2>t DEF RecordsAreInOrder
    <2> QED
        BY <2>5, <2>6
<1>2. IInv => TeardownRuns
    BY <1>1 DEF TeardownRuns
<1> QED
    BY <1>2, Inductive, PTL

\* The record of a prompt says the answer that was answered 200, and no other
\* (wait_for_answer and record_answer).
THEOREM AnswersCount == Spec => []AcceptedAnswersCount
<1>1. IInv => AcceptedAnswersCount
    BY DEF IInv, PromptIsAsked
<1> QED
    BY <1>1, Inductive, PTL

\* The events file has what was announced, and once it has its name, all that ran
\* and how it ended.
THEOREM HostRecordIsTrue == Spec => []RecordIsTrue
<1>1. ASSUME IInv PROVE RecordIsTrue
    <2>t. TypeOK /\ FileIsKept /\ EndIsTold /\ RecordsAreInOrder
        BY <1>1 DEF IInv
    <2>1. ~writeErr => announced <= Len(disk.steps)
        BY <2>t DEF FileIsKept
    <2>2. (Places("steps") = Recorded("steps") /\ \A k \in DOMAIN ran : ~EndsStudy(ran[k])) <=> Whole
        <3>1. \A k \in DOMAIN ran : ran[k].list = "steps" => ran[k].at \in Recorded("steps")
            BY <2>t DEF RecordsAreInOrder
        <3> QED
            BY <3>1 DEF Places, Whole
    <2>3. disk.file = "final" =>
            /\ disk.steps = ran
            /\ disk.completed => Whole
            /\ ~disk.completed => ~Whole \/ SkipsNothing
        BY <2>t DEF EndIsTold
    <2> QED
        BY <2>t, <2>1, <2>2, <2>3 DEF RecordIsTrue
<1> QED
    BY <1>1, Inductive, PTL

-----------------------------------------------------------------------------
(* Directories by their age                                                *)

\* Results directories: finitely many, with a path each.
AreDirectories(dirs) ==
    /\ IsFiniteSet(dirs)
    /\ dirs \subseteq [path : Int, mtime : Int]
    /\ \A d, e \in dirs : d.path = e.path => d = e

IsNewer(d, e) == d.mtime > e.mtime \/ (d.mtime = e.mtime /\ d.path < e.path)
PlaceOf(dirs, d) == Cardinality({e \in dirs : IsNewer(e, d)}) + 1

\* Every directory has a place of its own.
LEMMA PlacesAreApart ==
    ASSUME NEW dirs, AreDirectories(dirs)
    PROVE  [d \in dirs |-> PlaceOf(dirs, d)] \in Bijection(dirs, 1 .. Cardinality(dirs))
<1> DEFINE place == [d \in dirs |-> PlaceOf(dirs, d)]
           n == Cardinality(dirs)
           Before(d) == {e \in dirs : IsNewer(e, d)}
<1>1. n \in Nat /\ IsFiniteSet(dirs)
    BY FS_CardinalityType DEF AreDirectories
<1>2. ASSUME NEW d \in dirs PROVE d.mtime \in Int /\ d.path \in Int
    BY DEF AreDirectories
<1>3. ASSUME NEW d \in dirs, NEW e \in dirs, d # e PROVE IsNewer(d, e) \/ IsNewer(e, d)
    <2>1. d.path # e.path
        BY <1>3 DEF AreDirectories
    <2>2. d.mtime \in Int /\ e.mtime \in Int /\ d.path \in Int /\ e.path \in Int
        BY <1>2
    <2> QED
        BY <2>1, <2>2 DEF IsNewer
<1>4. ASSUME NEW d \in dirs, NEW e \in dirs, NEW x \in dirs, IsNewer(x, d), IsNewer(d, e) PROVE IsNewer(x, e)
    <2>1. /\ d.mtime \in Int /\ e.mtime \in Int /\ x.mtime \in Int
          /\ d.path \in Int /\ e.path \in Int /\ x.path \in Int
        BY <1>2
    <2> QED
        BY <1>4, <2>1 DEF IsNewer
<1>5. ASSUME NEW d \in dirs PROVE ~IsNewer(d, d)
    BY <1>2 DEF IsNewer
<1>6. ASSUME NEW d \in dirs
      PROVE  IsFiniteSet(Before(d)) /\ Cardinality(Before(d)) \in Nat /\ Cardinality(Before(d)) < n
    <2>1. Before(d) \in SUBSET dirs /\ Before(d) # dirs
        BY <1>5
    <2>2. IsFiniteSet(Before(d)) /\ Cardinality(Before(d)) <= n /\ Cardinality(Before(d)) # n
        <3> HIDE DEF Before
        <3> QED
            BY <1>1, <2>1, FS_Subset
    <2>3. Cardinality(Before(d)) \in Nat
        BY <2>2, FS_CardinalityType
    <2> QED
        BY <1>1, <2>2, <2>3
<1>7. ASSUME NEW d \in dirs, NEW e \in dirs, IsNewer(d, e)
      PROVE  Cardinality(Before(d)) < Cardinality(Before(e))
    <2>1. Before(d) \in SUBSET Before(e)
        BY <1>4, <1>7
    <2>2. d \in Before(e) /\ d \notin Before(d)
        BY <1>5, <1>7
    <2> HIDE DEF Before
    <2>3. Cardinality(Before(d)) <= Cardinality(Before(e)) /\ Cardinality(Before(d)) # Cardinality(Before(e))
        BY <1>6, <2>1, <2>2, FS_Subset
    <2> QED
        BY <1>6, <2>3
<1>8. ASSUME NEW d \in dirs PROVE place[d] = Cardinality(Before(d)) + 1
    BY DEF PlaceOf
<1> HIDE DEF Before
<1>9. place \in [dirs -> 1 .. n]
    <2>1. \A d \in dirs : place[d] \in 1 .. n
        BY <1>1, <1>6, <1>8
    <2> QED
        BY <2>1
<1>10. \A d, e \in dirs : place[d] = place[e] => d = e
    <2> SUFFICES ASSUME NEW d \in dirs, NEW e \in dirs, d # e PROVE place[d] # place[e]
        OBVIOUS
    <2> QED
        BY <1>3, <1>6, <1>7, <1>8
<1> HIDE DEF place
<1>11. place \in Injection(dirs, 1 .. n)
    BY <1>9, <1>10 DEF Injection, IsInjective
<1>12. IsFiniteSet(1 .. n) /\ Cardinality(1 .. n) = n
    BY <1>1, FS_Interval
<1>13. place \in Surjection(dirs, 1 .. n)
    <2> DEFINE places == 1 .. n
    <2>1. place \in Injection(dirs, places) /\ IsFiniteSet(places) /\ Cardinality(dirs) = Cardinality(places)
        BY <1>11, <1>12
    <2> HIDE DEF places, n
    <2>2. place \in Surjection(dirs, places)
        BY <2>1, FS_Injection
    <2> QED
        BY <2>2 DEF places
<1> QED
    BY <1>11, <1>13 DEF Bijection, place

\* The newest ones have the first places.
LEMMA NewestAre ==
    ASSUME NEW dirs, AreDirectories(dirs), NEW keep \in Nat
    PROVE  /\ Newest(dirs, keep) = {d \in dirs : PlaceOf(dirs, d) <= keep}
           /\ dirs # {} => ByAge(dirs)[1] \in dirs /\ PlaceOf(dirs, ByAge(dirs)[1]) = 1
<1> DEFINE n == Cardinality(dirs)
           order == ByAge(dirs)
           place == [d \in dirs |-> PlaceOf(dirs, d)]
           shown == Min({keep, n})
<1>1. n \in Nat
    BY FS_CardinalityType DEF AreDirectories
<1>2. place \in Bijection(dirs, 1 .. n)
    BY PlacesAreApart
<1>3. order = [k \in 1 .. n |-> CHOOSE d \in dirs : PlaceOf(dirs, d) = k]
    BY DEF ByAge, PlaceOf, IsNewer
<1>4. ASSUME NEW k \in 1 .. n PROVE order[k] \in dirs /\ PlaceOf(dirs, order[k]) = k
    <2>1. \E d \in dirs : PlaceOf(dirs, d) = k
        BY <1>2 DEF Bijection, Surjection
    <2>2. order[k] = CHOOSE d \in dirs : PlaceOf(dirs, d) = k
        BY <1>3
    <2> HIDE DEF order
    <2> QED
        BY <2>1, <2>2
<1>5. ASSUME NEW d \in dirs PROVE PlaceOf(dirs, d) \in 1 .. n /\ order[PlaceOf(dirs, d)] = d
    <2>1. PlaceOf(dirs, d) = place[d] /\ place[d] \in 1 .. n
        BY <1>2 DEF Bijection, Injection
    <2> DEFINE k == PlaceOf(dirs, d)
    <2>2. order[k] \in dirs /\ place[order[k]] = place[d]
        BY <1>4, <2>1
    <2>3. \A a, b \in dirs : place[a] = place[b] => a = b
        BY <1>2 DEF Bijection, Injection, IsInjective
    <2> HIDE DEF place, k, order
    <2>4. order[k] = d
        BY <2>2, <2>3
    <2> QED
        BY <2>1, <2>4 DEF k
<1>6. shown = IF keep <= n THEN keep ELSE n
    BY <1>1 DEF Min
<1>7. order \in Seq(dirs) /\ Len(order) = n
    <2>1. \A k \in 1 .. n : order[k] \in dirs
        BY <1>4
    <2> QED
        BY <1>1, <1>3, <2>1
<1> HIDE DEF order, shown
<1>8. SubSeq(order, 1, shown) = [k \in 1 .. shown |-> order[k]]
    BY <1>1, <1>6, <1>7, SubSeqProperties
<1>9. Newest(dirs, keep) = {order[k] : k \in 1 .. shown}
    <2>1. Newest(dirs, keep) = ToSet(SubSeq(order, 1, shown))
        BY DEF Newest, order, shown
    <2>2. ToSet([k \in 1 .. shown |-> order[k]]) = {order[k] : k \in 1 .. shown}
        BY DEF ToSet
    <2> QED
        BY <1>8, <2>1, <2>2
<1>10. ASSUME NEW d \in Newest(dirs, keep) PROVE d \in dirs /\ PlaceOf(dirs, d) <= keep
    <2>1. PICK k \in 1 .. shown : d = order[k]
        BY <1>9
    <2>2. k \in 1 .. n /\ k <= keep
        BY <1>1, <1>6
    <2> QED
        BY <1>4, <2>1, <2>2
<1>11. ASSUME NEW d \in dirs, PlaceOf(dirs, d) <= keep PROVE d \in Newest(dirs, keep)
    <2> DEFINE k == PlaceOf(dirs, d)
    <2>1. k \in 1 .. n /\ order[k] = d /\ k <= keep
        BY <1>5, <1>11
    <2> HIDE DEF k
    <2>2. k \in 1 .. shown
        BY <1>1, <1>6, <2>1
    <2> QED
        BY <1>9, <2>1, <2>2
<1>12. Newest(dirs, keep) = {d \in dirs : PlaceOf(dirs, d) <= keep}
    BY <1>10, <1>11
<1>13. ASSUME dirs # {} PROVE ByAge(dirs)[1] \in dirs /\ PlaceOf(dirs, ByAge(dirs)[1]) = 1
    <2>1. n # 0
        BY <1>13, FS_EmptySet DEF AreDirectories
    <2>2. 1 \in 1 .. n
        BY <1>1, <2>1
    <2> QED
        BY <1>4, <2>2 DEF order
<1> QED
    BY <1>12, <1>13

\* For any directories, and any that cannot be removed, whose mtime becomes that of
\* the sweep: what is listed and the newest outlive a sweep, and a directory that
\* could not be removed is one more row of the listing at most (study_result_dirs,
\* sweep_study_results, studies_handler).
THEOREM WhatIsListedStays ==
    ASSUME NEW dirs, AreDirectories(dirs), NEW keep \in Nat, NEW stuck, IsFiniteSet(stuck),
           NEW now \in Int
    PROVE  Outlives(dirs, keep, stuck, now)
<1> DEFINE newest == Newest(dirs, keep)
           left == SweepLeaves(dirs, keep, stuck, now)
           tried == {e \in dirs \ newest : e.path \in stuck}
           touched == {[d EXCEPT !.mtime = now] : d \in tried}
<1>1. newest = {d \in dirs : PlaceOf(dirs, d) <= keep}
    BY NewestAre
<1>2. keep # 0 => left = newest \cup touched
    BY DEF SweepLeaves
<1>3. keep = 0 => left = dirs
    BY DEF SweepLeaves
<1>4. ASSUME NEW d \in touched
      PROVE  d \in [path : Int, mtime : Int] /\ d.path \in stuck /\ \E e \in tried : d = [e EXCEPT !.mtime = now] /\ d.path = e.path
    <2>1. PICK e \in tried : d = [e EXCEPT !.mtime = now]
        OBVIOUS
    <2>2. e \in [path : Int, mtime : Int] /\ e.path \in stuck
        BY DEF AreDirectories
    <2> QED
        BY <2>1, <2>2
<1> HIDE DEF newest, left
<1>5. dirs # {} => ByAge(dirs)[1] \in left
    <2>1. dirs # {} => ByAge(dirs)[1] \in dirs /\ PlaceOf(dirs, ByAge(dirs)[1]) = 1
        BY NewestAre
    <2> QED
        BY <1>1, <1>2, <1>3, <2>1
<1>6. Listed(dirs, keep) \subseteq left
    BY <1>2, <1>3 DEF Listed, newest
<1>7. AreDirectories(left)
    <2>1. CASE keep = 0
        BY <1>3, <2>1
    <2>2. CASE keep # 0
        <3>1. IsFiniteSet(tried) /\ IsFiniteSet(newest)
            BY <1>1, FS_Subset DEF AreDirectories
        <3>2. IsFiniteSet(touched)
            <4> DEFINE f == [d \in tried |-> [d EXCEPT !.mtime = now]]
            <4>1. f \in Surjection(tried, touched)
                BY DEF Surjection
            <4> HIDE DEF tried, touched, f
            <4> QED
                BY <3>1, <4>1, FS_Surjection
        <3>3. IsFiniteSet(left)
            <4> HIDE DEF touched
            <4> QED
                BY <1>2, <2>2, <3>1, <3>2, FS_Union
        <3>4. left \subseteq [path : Int, mtime : Int]
            BY <1>1, <1>2, <1>4, <2>2 DEF AreDirectories
        <3>5. ASSUME NEW d \in left, NEW e \in left, d.path = e.path PROVE d = e
            <4>1. \A x \in newest, y \in tried : x.path # y.path
                BY <1>1 DEF AreDirectories
            <4>2. \A x, y \in newest : x.path = y.path => x = y
                BY <1>1 DEF AreDirectories
            <4>3. \A x, y \in tried : x.path = y.path => x = y
                BY DEF AreDirectories
            <4>4. d \in newest \/ d \in touched
                BY <1>2, <2>2
            <4>5. e \in newest \/ e \in touched
                BY <1>2, <2>2
            <4> HIDE DEF tried, touched
            <4> QED
                BY <1>4, <3>5, <4>1, <4>2, <4>3, <4>4, <4>5
        <3> QED
            BY <3>3, <3>4, <3>5 DEF AreDirectories
    <2> QED
        BY <2>1, <2>2
<1>8. Listed(left, keep) \subseteq left
    BY <1>7, NewestAre DEF Listed
<1> DEFINE new == Listed(left, keep) \ dirs
<1>9. new \subseteq touched
    BY <1>1, <1>2, <1>3, <1>8
<1>10. Cardinality(new) <= Cardinality(stuck)
    <2> DEFINE f == [d \in new |-> d.path]
    <2>1. \A d \in new : d.path \in stuck
        BY <1>4, <1>9
    <2>2. \A d, e \in new : d.path = e.path => d = e
        BY <1>7, <1>8 DEF AreDirectories
    <2> HIDE DEF new
    <2>3. f \in Injection(new, stuck)
        BY <2>1, <2>2 DEF Injection, IsInjective
    <2> HIDE DEF f
    <2> QED
        BY <2>3, FS_Injection
<1> QED
    BY <1>5, <1>6, <1>10 DEF Outlives, left

-----------------------------------------------------------------------------
(* A subscriber to live events                                             *)

\* Induction on the steps, which are counted from 0.
LEMMA SetInduction ==
    ASSUME NEW S, 0 \in S, \A n \in Nat : n \in S => n + 1 \in S
    PROVE  Nat \subseteq S
<1> SUFFICES ASSUME Nat \ S # {} PROVE FALSE
    OBVIOUS
<1>1. PICK m \in Nat \ S : \A n \in Nat \ S : ~(<<n, m>> \in OpToRel(<, Nat))
    BY WFMin, NatLessThanWellFounded
<1>2. m - 1 \in Nat /\ m - 1 < m
    OBVIOUS
<1>3. m - 1 \in S
    BY <1>1, <1>2 DEF OpToRel
<1> QED
    BY <1>2, <1>3

\* The events that n steps can have sent, and what can be told of them
SentBy(n) == [study : {"own", "other"}, n : 1 .. n]
News(n) == [lagged : Nat, n : 0 .. n]

\* An element, and what one more at the end changes.
LEMMA OneOf ==
    ASSUME NEW T, NEW s \in Seq(T), NEW i \in DOMAIN s
    PROVE  s[i] \in T
OBVIOUS

LEMMA OneMore ==
    ASSUME NEW T, NEW s \in Seq(T), NEW x \in T
    PROVE  /\ Len(s) \in Nat /\ DOMAIN s = 1 .. Len(s)
           /\ Append(s, x) \in Seq(T) /\ DOMAIN Append(s, x) = 1 .. Len(s) + 1
           /\ Append(s, x)[Len(s) + 1] = x
           /\ \A i \in 1 .. Len(s) : Append(s, x)[i] = s[i]
BY AppendProperties, LenProperties

\* What waits for a subscriber and what it has seen, after n steps.
SubscriberType(queue, missed, seen, n) ==
    /\ queue \in Seq(SentBy(n))
    /\ missed \in Nat
    /\ seen \in Seq(News(n))

\* Events are in the order they were sent in, those that wait after those seen.
EventsAscend(queue, seen) ==
    /\ \A i, j \in DOMAIN queue : i < j => queue[i].n < queue[j].n
    /\ \A i, j \in Received(seen) : i < j => seen[i].n < seen[j].n
    /\ \A i \in Received(seen), j \in DOMAIN queue : seen[i].n < queue[j].n

\* Only events of its study are told.
EventsAreMine(queue, seen, mine) ==
    /\ \A i \in Received(seen) : seen[i].n \in mine
    /\ \A j \in DOMAIN queue : queue[j].study = "own" => queue[j].n \in mine

\* An event that was lost is older than all that wait, and its loss has been told
\* in its place, or will be before any more.
LostBetween(queue, missed, seen, own) ==
    /\ \A j \in DOMAIN queue : own < queue[j].n
    /\ \/ missed > 0 /\ \A g \in Received(seen) : seen[g].n < own
       \/ \E m \in DOMAIN seen \ Received(seen) : \A g \in Received(seen) : g < m <=> seen[g].n < own

EventsAccounted(queue, missed, seen, mine) ==
    \A own \in mine :
        \/ \E j \in DOMAIN queue : queue[j].n = own /\ queue[j].study = "own"
        \/ \E g \in Received(seen) : seen[g].n = own
        \/ LostBetween(queue, missed, seen, own)

SubscriberInv(sub, mine, n) ==
    /\ sub = [queue |-> sub.queue, missed |-> sub.missed, seen |-> sub.seen]
    /\ SubscriberType(sub.queue, sub.missed, sub.seen, n)
    /\ EventsAscend(sub.queue, sub.seen)
    /\ EventsAreMine(sub.queue, sub.seen, mine)
    /\ EventsAccounted(sub.queue, sub.missed, sub.seen, mine)

LEMMA SubscriberTells ==
    ASSUME NEW sub, NEW n \in Nat, NEW mine \in SUBSET (1 .. n), SubscriberInv(sub, mine, n)
    PROVE  LossesAreTold(sub.seen, mine)
<1> DEFINE s == sub.seen
           q == sub.queue
           got == Received(s)
<1>1. /\ EventsAscend(q, s) /\ EventsAreMine(q, s, mine) /\ EventsAccounted(q, sub.missed, s, mine)
      /\ q \in Seq(SentBy(n)) /\ s \in Seq(News(n))
    BY DEF SubscriberInv, SubscriberType
<1>2. ASSUME NEW k \in got, NEW own \in mine, own < s[k].n
      PROVE  \/ \E m \in got : s[m].n = own
             \/ \E m \in DOMAIN s \ got : \A g \in got : g < m <=> s[g].n < own
    <2>1. s[k].n \in 0 .. n /\ own \in 1 .. n
        <3>1. k \in DOMAIN s
            BY DEF Received
        <3>2. s[k] \in News(n)
            BY <1>1, <3>1, OneOf
        <3> QED
            BY <3>2 DEF News
    <2>2. ASSUME NEW j \in DOMAIN q, q[j].n = own PROVE FALSE
        <3>1. s[k].n < q[j].n
            BY <1>1, <1>2 DEF EventsAscend
        <3> QED
            BY <1>2, <2>1, <2>2, <3>1
    <2>3. CASE LostBetween(q, sub.missed, s, own)
        <3>1. ~(s[k].n < own)
            BY <1>2, <2>1
        <3> QED
            BY <1>2, <2>3, <3>1 DEF LostBetween
    <2> QED
        BY <1>1, <1>2, <2>2, <2>3 DEF EventsAccounted
<1> QED
    BY <1>1, <1>2 DEF LossesAreTold, EventsAscend, EventsAreMine

LEMMA NothingHeard == SubscriberInv(NoEvents, {}, 0)
BY DEF SubscriberInv, NoEvents, SubscriberType, EventsAscend, EventsAreMine, EventsAccounted, Received

\* More events may have been sent than a subscriber knows.
LEMMA HeardOfMore ==
    ASSUME NEW queue, NEW missed, NEW seen, NEW n \in Nat, SubscriberType(queue, missed, seen, n)
    PROVE  SubscriberType(queue, missed, seen, n + 1)
<1>1. SentBy(n) \subseteq SentBy(n + 1)
    BY DEF SentBy
<1>2. News(n) \subseteq News(n + 1)
    BY DEF News
<1>3. queue \in Seq(SentBy(n + 1))
    BY <1>1, SeqMonotonic DEF SubscriberType
<1>4. seen \in Seq(News(n + 1))
    BY <1>2, SeqMonotonic DEF SubscriberType
<1> QED
    BY <1>3, <1>4 DEF SubscriberType

\* A loss is told before anything else.
LEMMA LossIsHeard ==
    ASSUME NEW queue, NEW missed, NEW seen, NEW n \in Nat, NEW mine \in SUBSET (1 .. n),
           SubscriberType(queue, missed, seen, n), EventsAscend(queue, seen),
           EventsAreMine(queue, seen, mine), EventsAccounted(queue, missed, seen, mine),
           missed > 0
    PROVE  LET more == Append(seen, [lagged |-> missed, n |-> 0])
           IN  /\ SubscriberType(queue, 0, more, n) /\ EventsAscend(queue, more)
               /\ EventsAreMine(queue, more, mine) /\ EventsAccounted(queue, 0, more, mine)
<1> DEFINE told == [lagged |-> missed, n |-> 0]
           more == Append(seen, told)
           len == Len(seen)
<1>1. /\ queue \in Seq(SentBy(n)) /\ missed \in Nat
      /\ seen \in Seq(News(n))
    BY DEF SubscriberType
<1>2. told \in News(n) /\ told.lagged = missed
    BY <1>1 DEF News
<1> HIDE DEF told
<1>3. /\ more \in Seq(News(n)) /\ DOMAIN more = 1 .. len + 1 /\ len \in Nat
      /\ more[len + 1] = told /\ DOMAIN seen = 1 .. len
      /\ \A i \in 1 .. len : more[i] = seen[i]
    BY <1>1, <1>2, OneMore
<1> HIDE DEF more, len
<1>4. Received(more) = Received(seen) /\ len + 1 \in DOMAIN more \ Received(more)
    BY <1>2, <1>3 DEF Received
<1>5. \A g \in Received(seen) : more[g] = seen[g] /\ g \in 1 .. len
    BY <1>3 DEF Received
<1>6. SubscriberType(queue, 0, more, n)
    BY <1>1, <1>3 DEF SubscriberType
<1>7. EventsAscend(queue, more) /\ EventsAreMine(queue, more, mine)
    BY <1>4, <1>5 DEF EventsAscend, EventsAreMine
<1>8. ASSUME NEW own \in mine, LostBetween(queue, missed, seen, own)
      PROVE  LostBetween(queue, 0, more, own)
    <2>1. \A j \in DOMAIN queue : own < queue[j].n
        BY <1>8 DEF LostBetween
    <2>2. CASE \A g \in Received(seen) : seen[g].n < own
        <3>1. \A g \in Received(more) : g < len + 1 /\ more[g].n < own
            BY <1>3, <1>4, <1>5, <2>2
        <3> QED
            BY <1>4, <2>1, <3>1 DEF LostBetween
    <2>3. ASSUME NEW m \in DOMAIN seen \ Received(seen),
                 \A g \in Received(seen) : g < m <=> seen[g].n < own
          PROVE  LostBetween(queue, 0, more, own)
        <3>1. m \in DOMAIN more \ Received(more)
            BY <1>3, <1>4
        <3>2. \A g \in Received(more) : g < m <=> more[g].n < own
            BY <1>4, <1>5, <2>3
        <3> QED
            BY <2>1, <3>1, <3>2 DEF LostBetween
    <2> QED
        BY <1>8, <2>2, <2>3 DEF LostBetween
<1>9. EventsAccounted(queue, 0, more, mine)
    BY <1>4, <1>5, <1>8 DEF EventsAccounted
<1> QED
    BY <1>6, <1>7, <1>9 DEF more, told

\* The oldest event is told, or passed over.
LEMMA EventIsHeard ==
    ASSUME NEW queue, NEW missed, NEW seen, NEW more, NEW n \in Nat, NEW mine \in SUBSET (1 .. n),
           SubscriberType(queue, missed, seen, n), EventsAscend(queue, seen),
           EventsAreMine(queue, seen, mine), EventsAccounted(queue, missed, seen, mine),
           missed = 0, queue # <<>>,
           more = IF Head(queue).study = "own" THEN Append(seen, [lagged |-> 0, n |-> Head(queue).n])
                  ELSE seen
    PROVE  /\ SubscriberType(Tail(queue), missed, more, n) /\ EventsAscend(Tail(queue), more)
           /\ EventsAreMine(Tail(queue), more, mine) /\ EventsAccounted(Tail(queue), missed, more, mine)
<1> DEFINE rest == Tail(queue)
           len == Len(seen)
           first == queue[1]
           told == [lagged |-> 0, n |-> first.n]
           waiting == Len(queue)
<1>1. /\ queue \in Seq(SentBy(n))
      /\ seen \in Seq(News(n))
    BY DEF SubscriberType
<1>2. /\ rest \in Seq(SentBy(n)) /\ waiting \in Nat /\ waiting >= 1
      /\ DOMAIN queue = 1 .. waiting /\ DOMAIN rest = 1 .. waiting - 1
      /\ \A j \in 1 .. waiting - 1 : rest[j] = queue[j + 1]
      /\ Head(queue) = first
    BY <1>1
<1>3. first \in SentBy(n) /\ 1 \in DOMAIN queue
    <2>1. 1 \in DOMAIN queue
        BY <1>2
    <2> QED
        BY <1>1, <2>1, OneOf DEF first
<1>4. first.n \in 1 .. n /\ told \in News(n) /\ told.lagged = 0 /\ told.n = first.n
    BY <1>3 DEF SentBy, News
<1> HIDE DEF rest, waiting, told, first
<1>5. /\ len \in Nat /\ DOMAIN seen = 1 .. len /\ more \in Seq(News(n))
      /\ \A i \in 1 .. len : more[i] = seen[i]
      /\ IF first.study = "own" THEN DOMAIN more = 1 .. len + 1 /\ more[len + 1] = told
         ELSE more = seen
    <2>1. CASE first.study = "own"
        <3>1. more = Append(seen, told)
            BY <1>2, <2>1 DEF told
        <3>2. seen \in Seq(News(n)) /\ told \in News(n)
            BY <1>1, <1>4
        <3>3. /\ len \in Nat /\ DOMAIN seen = 1 .. len /\ more \in Seq(News(n))
              /\ DOMAIN more = 1 .. len + 1 /\ more[len + 1] = told
              /\ \A i \in 1 .. len : more[i] = seen[i]
            BY <3>1, <3>2, OneMore
        <3> QED
            BY <2>1, <3>3
    <2>2. CASE first.study # "own"
        BY <1>1, <1>2, <2>2
    <2> QED
        BY <2>1, <2>2
<1> HIDE DEF len
<1>6. \A g \in Received(seen) : g \in Received(more) /\ more[g] = seen[g] /\ g \in 1 .. len
    <2>1. 1 .. len \subseteq DOMAIN more
        BY <1>5
    <2> QED
        BY <1>5, <2>1 DEF Received
<1>7. \A g \in Received(more) : g \in Received(seen) \/ (g = len + 1 /\ first.study = "own" /\ more[g] = told)
    <2> SUFFICES ASSUME NEW g \in Received(more), g \notin Received(seen)
                 PROVE  g = len + 1 /\ first.study = "own" /\ more[g] = told
        OBVIOUS
    <2>1. g \in DOMAIN more /\ more[g].lagged = 0
        BY DEF Received
    <2>2. g \notin 1 .. len
        BY <1>5, <2>1 DEF Received
    <2> QED
        BY <1>5, <2>1, <2>2
<1>8. \A m \in DOMAIN seen \ Received(seen) : m \in DOMAIN more \ Received(more) /\ m \in 1 .. len
    BY <1>5 DEF Received
<1>9. \A g \in Received(seen) : seen[g].n \in Nat /\ seen[g].n < first.n
    <2>1. ASSUME NEW g \in Received(seen) PROVE seen[g].n \in Nat
        <3>1. g \in DOMAIN seen
            BY DEF Received
        <3>2. seen[g] \in News(n)
            BY <1>1, <3>1, OneOf
        <3> QED
            BY <3>2 DEF News
    <2>2. \A g \in Received(seen) : seen[g].n < first.n
        BY <1>3 DEF EventsAscend, first
    <2> QED
        BY <2>1, <2>2
<1>10. \A j \in DOMAIN rest : j + 1 \in DOMAIN queue /\ rest[j] = queue[j + 1] /\ first.n < rest[j].n
    <2>1. \A j \in DOMAIN rest : j + 1 \in DOMAIN queue /\ rest[j] = queue[j + 1] /\ 1 < j + 1
        BY <1>2
    <2> QED
        BY <1>3, <2>1 DEF EventsAscend, first
<1>11. \A j \in DOMAIN queue : j = 1 \/ (j - 1 \in DOMAIN rest /\ rest[j - 1] = queue[j])
    <2> SUFFICES ASSUME NEW j \in DOMAIN queue, j # 1
                 PROVE  j - 1 \in DOMAIN rest /\ rest[j - 1] = queue[j]
        OBVIOUS
    <2>1. j - 1 \in 1 .. waiting - 1 /\ (j - 1) + 1 = j
        BY <1>2
    <2> QED
        BY <1>2, <2>1
<1>12. SubscriberType(rest, missed, more, n)
    BY <1>2, <1>5 DEF SubscriberType
<1>13. EventsAscend(rest, more)
    <2>1. ASSUME NEW i \in DOMAIN rest, NEW j \in DOMAIN rest, i < j PROVE rest[i].n < rest[j].n
        <3>1. i \in 1 .. waiting - 1 /\ j \in 1 .. waiting - 1
            BY <1>2
        <3>2. i + 1 < j + 1
            BY <1>2, <2>1, <3>1
        <3> QED
            BY <1>10, <3>2 DEF EventsAscend
    <2>2. ASSUME NEW i \in Received(more), NEW j \in Received(more), i < j PROVE more[i].n < more[j].n
        <3>1. CASE j \in Received(seen)
            <4>1. i \in Received(seen)
                <5>1. i # len + 1
                    BY <1>5, <1>6, <2>2, <3>1
                <5> QED
                    BY <1>7, <5>1
            <4> QED
                BY <1>6, <2>2, <3>1, <4>1 DEF EventsAscend
        <3>2. CASE j \notin Received(seen)
            <4>1. j = len + 1 /\ more[j] = told
                BY <1>7, <3>2
            <4>2. i \in Received(seen)
                BY <1>5, <1>7, <2>2, <4>1
            <4> QED
                BY <1>4, <1>6, <1>9, <4>1, <4>2
        <3> QED
            BY <3>1, <3>2
    <2>3. ASSUME NEW i \in Received(more), NEW j \in DOMAIN rest PROVE more[i].n < rest[j].n
        <3>1. CASE i \in Received(seen)
            BY <1>6, <1>10, <3>1 DEF EventsAscend
        <3>2. CASE i \notin Received(seen)
            BY <1>4, <1>7, <1>10, <3>2
        <3> QED
            BY <3>1, <3>2
    <2> QED
        BY <2>1, <2>2, <2>3 DEF EventsAscend
<1>14. EventsAreMine(rest, more, mine)
    <2>1. ASSUME NEW i \in Received(more) PROVE more[i].n \in mine
        <3>1. CASE i \in Received(seen)
            BY <1>6, <3>1 DEF EventsAreMine
        <3>2. CASE i \notin Received(seen)
            BY <1>3, <1>4, <1>7, <3>2 DEF EventsAreMine, first
        <3> QED
            BY <3>1, <3>2
    <2> QED
        BY <1>10, <2>1 DEF EventsAreMine
<1>15. EventsAccounted(rest, missed, more, mine)
    <2> SUFFICES ASSUME NEW own \in mine
                 PROVE  \/ \E j \in DOMAIN rest : rest[j].n = own /\ rest[j].study = "own"
                        \/ \E g \in Received(more) : more[g].n = own
                        \/ LostBetween(rest, missed, more, own)
        BY DEF EventsAccounted
    <2>1. CASE \E j \in DOMAIN queue : queue[j].n = own /\ queue[j].study = "own"
        <3>1. PICK j \in DOMAIN queue : queue[j].n = own /\ queue[j].study = "own"
            BY <2>1
        <3>2. CASE j = 1
            <4>1. first.study = "own" /\ first.n = own
                BY <3>1, <3>2 DEF first
            <4>2. len + 1 \in Received(more) /\ more[len + 1].n = own
                BY <1>4, <1>5, <4>1 DEF Received
            <4> QED
                BY <4>2
        <3>3. CASE j # 1
            BY <1>11, <3>1, <3>3
        <3> QED
            BY <3>2, <3>3
    <2>2. CASE \E g \in Received(seen) : seen[g].n = own
        BY <1>6, <2>2
    <2>3. CASE LostBetween(queue, missed, seen, own)
        <3>1. own < first.n /\ own \in 1 .. n
            BY <1>3, <2>3 DEF LostBetween, first
        <3>2. \A j \in DOMAIN rest : own < rest[j].n
            BY <1>10, <2>3 DEF LostBetween
        <3>3. PICK m \in DOMAIN seen \ Received(seen) : \A g \in Received(seen) : g < m <=> seen[g].n < own
            BY <2>3 DEF LostBetween
        <3>4. m \in DOMAIN more \ Received(more) /\ m \in 1 .. len
            BY <1>8
        <3>5. ASSUME NEW g \in Received(more) PROVE g < m <=> more[g].n < own
            <4>1. CASE g \in Received(seen)
                BY <1>6, <3>3, <4>1
            <4>2. CASE g \notin Received(seen)
                <5>1. g = len + 1 /\ more[g].n = first.n
                    BY <1>4, <1>7, <4>2
                <5>2. ~(g < m)
                    BY <1>5, <3>4, <5>1
                <5>3. ~(first.n < own)
                    BY <1>4, <3>1
                <5> QED
                    BY <5>1, <5>2, <5>3
            <4> QED
                BY <4>1, <4>2
        <3> QED
            BY <3>2, <3>4, <3>5 DEF LostBetween
    <2> QED
        BY <2>1, <2>2, <2>3 DEF EventsAccounted
<1> QED
    BY <1>12, <1>13, <1>14, <1>15 DEF rest

\* The oldest event is lost.
LEMMA EventIsLost ==
    ASSUME NEW queue, NEW missed, NEW seen, NEW n \in Nat, NEW mine \in SUBSET (1 .. n),
           SubscriberType(queue, missed, seen, n), EventsAscend(queue, seen),
           EventsAreMine(queue, seen, mine), EventsAccounted(queue, missed, seen, mine),
           queue # <<>>
    PROVE  /\ SubscriberType(Tail(queue), missed + 1, seen, n) /\ EventsAscend(Tail(queue), seen)
           /\ EventsAreMine(Tail(queue), seen, mine)
           /\ EventsAccounted(Tail(queue), missed + 1, seen, mine)
<1> DEFINE rest == Tail(queue)
           waiting == Len(queue)
           first == queue[1]
<1>1. /\ queue \in Seq(SentBy(n)) /\ missed \in Nat /\ missed + 1 \in Nat /\ missed + 1 > 0
      /\ seen \in Seq(News(n))
    BY DEF SubscriberType
<1>2. /\ rest \in Seq(SentBy(n)) /\ waiting \in Nat /\ waiting >= 1
      /\ DOMAIN queue = 1 .. waiting /\ DOMAIN rest = 1 .. waiting - 1
      /\ \A j \in 1 .. waiting - 1 : rest[j] = queue[j + 1]
    BY <1>1
<1> HIDE DEF rest, waiting
<1>3. 1 \in DOMAIN queue
    BY <1>2
<1>4. first.n \in 1 .. n
    <2>1. first \in SentBy(n)
        BY <1>1, <1>3, OneOf
    <2> QED
        BY <2>1 DEF SentBy
<1>5. \A j \in DOMAIN rest : j + 1 \in DOMAIN queue /\ rest[j] = queue[j + 1] /\ first.n < rest[j].n
    <2>1. \A j \in DOMAIN rest : j + 1 \in DOMAIN queue /\ rest[j] = queue[j + 1] /\ 1 < j + 1
        BY <1>2
    <2> QED
        BY <1>3, <2>1 DEF EventsAscend
<1>6. \A j \in DOMAIN queue : j = 1 \/ (j - 1 \in DOMAIN rest /\ rest[j - 1] = queue[j])
    <2> SUFFICES ASSUME NEW j \in DOMAIN queue, j # 1
                 PROVE  j - 1 \in DOMAIN rest /\ rest[j - 1] = queue[j]
        OBVIOUS
    <2>1. j - 1 \in 1 .. waiting - 1 /\ (j - 1) + 1 = j
        BY <1>2
    <2> QED
        BY <1>2, <2>1
<1>7. SubscriberType(rest, missed + 1, seen, n)
    BY <1>1, <1>2 DEF SubscriberType
<1>8. EventsAscend(rest, seen)
    <2>1. ASSUME NEW i \in DOMAIN rest, NEW j \in DOMAIN rest, i < j PROVE rest[i].n < rest[j].n
        <3>1. i \in 1 .. waiting - 1 /\ j \in 1 .. waiting - 1
            BY <1>2
        <3>2. i + 1 < j + 1
            BY <1>2, <2>1, <3>1
        <3> QED
            BY <1>5, <3>2 DEF EventsAscend
    <2> QED
        BY <1>5, <2>1 DEF EventsAscend
<1>9. EventsAreMine(rest, seen, mine)
    BY <1>5 DEF EventsAreMine
<1>10. EventsAccounted(rest, missed + 1, seen, mine)
    <2> SUFFICES ASSUME NEW own \in mine
                 PROVE  \/ \E j \in DOMAIN rest : rest[j].n = own /\ rest[j].study = "own"
                        \/ \E g \in Received(seen) : seen[g].n = own
                        \/ LostBetween(rest, missed + 1, seen, own)
        BY DEF EventsAccounted
    <2>1. CASE \E j \in DOMAIN queue : queue[j].n = own /\ queue[j].study = "own"
        <3>1. PICK j \in DOMAIN queue : queue[j].n = own /\ queue[j].study = "own"
            BY <2>1
        <3>2. CASE j = 1
            <4>1. \A k \in DOMAIN rest : own < rest[k].n
                BY <1>5, <3>1, <3>2
            <4>2. \A g \in Received(seen) : seen[g].n < own
                BY <1>3, <3>1, <3>2 DEF EventsAscend
            <4> QED
                BY <1>1, <4>1, <4>2 DEF LostBetween
        <3>3. CASE j # 1
            BY <1>6, <3>1, <3>3
        <3> QED
            BY <3>2, <3>3
    <2>2. CASE \E g \in Received(seen) : seen[g].n = own
        BY <2>2
    <2>3. CASE LostBetween(queue, missed, seen, own)
        <3>1. \A j \in DOMAIN rest : own < rest[j].n
            BY <1>5, <2>3 DEF LostBetween
        <3> QED
            BY <1>1, <2>3, <3>1 DEF LostBetween
    <2> QED
        BY <2>1, <2>2, <2>3 DEF EventsAccounted
<1> QED
    BY <1>7, <1>8, <1>9, <1>10 DEF rest

\* A new event waits behind the others.
LEMMA EventWaits ==
    ASSUME NEW queue, NEW missed, NEW seen, NEW n \in Nat, NEW mine \in SUBSET (1 .. n),
           SubscriberType(queue, missed, seen, n), EventsAscend(queue, seen),
           EventsAreMine(queue, seen, mine), EventsAccounted(queue, missed, seen, mine),
           NEW event, event \in SentBy(n + 1), event.n = n + 1,
           NEW mineNow, mineNow = IF event.study = "own" THEN mine \cup {n + 1} ELSE mine
    PROVE  LET longer == Append(queue, event)
           IN  /\ SubscriberType(longer, missed, seen, n + 1) /\ EventsAscend(longer, seen)
               /\ EventsAreMine(longer, seen, mineNow) /\ EventsAccounted(longer, missed, seen, mineNow)
<1> DEFINE longer == Append(queue, event)
           waiting == Len(queue)
<1>1. /\ queue \in Seq(SentBy(n)) /\ missed \in Nat /\ seen \in Seq(News(n))
    BY DEF SubscriberType
<1>2. SubscriberType(queue, missed, seen, n + 1)
    BY HeardOfMore
<1>3. /\ waiting \in Nat /\ DOMAIN queue = 1 .. waiting
      /\ longer \in Seq(SentBy(n + 1)) /\ DOMAIN longer = 1 .. waiting + 1
      /\ longer[waiting + 1] = event
      /\ \A j \in 1 .. waiting : longer[j] = queue[j]
    BY <1>2, OneMore DEF SubscriberType
<1> HIDE DEF longer, waiting
<1>4. \A j \in DOMAIN queue : queue[j].n \in 1 .. n
    <2> SUFFICES ASSUME NEW j \in DOMAIN queue PROVE queue[j].n \in 1 .. n
        OBVIOUS
    <2>1. queue[j] \in SentBy(n)
        BY <1>1, OneOf
    <2> QED
        BY <2>1 DEF SentBy
<1>5. \A g \in Received(seen) : seen[g].n \in 0 .. n
    <2> SUFFICES ASSUME NEW g \in Received(seen) PROVE seen[g].n \in 0 .. n
        OBVIOUS
    <2>1. g \in DOMAIN seen
        BY DEF Received
    <2>2. seen[g] \in News(n)
        BY <1>1, <2>1, OneOf
    <2> QED
        BY <2>2 DEF News
<1>6. \A j \in DOMAIN longer : \/ j \in DOMAIN queue /\ longer[j] = queue[j]
                               \/ j = waiting + 1 /\ longer[j] = event
    BY <1>3
<1>7. \A j \in DOMAIN queue : j \in DOMAIN longer /\ longer[j] = queue[j] /\ j < waiting + 1
    BY <1>3
<1>8. SubscriberType(longer, missed, seen, n + 1)
    BY <1>2, <1>3 DEF SubscriberType
<1>9. EventsAscend(longer, seen)
    <2>1. ASSUME NEW i \in DOMAIN longer, NEW j \in DOMAIN longer, i < j PROVE longer[i].n < longer[j].n
        <3>1. i \in DOMAIN queue /\ longer[i] = queue[i]
            BY <1>3, <2>1
        <3>2. CASE j \in DOMAIN queue
            BY <1>7, <2>1, <3>1, <3>2 DEF EventsAscend
        <3>3. CASE j \notin DOMAIN queue
            BY <1>4, <1>6, <3>1, <3>3
        <3> QED
            BY <3>2, <3>3
    <2>2. ASSUME NEW i \in Received(seen), NEW j \in DOMAIN longer PROVE seen[i].n < longer[j].n
        <3>1. CASE j \in DOMAIN queue
            BY <1>7, <3>1 DEF EventsAscend
        <3>2. CASE j \notin DOMAIN queue
            BY <1>5, <1>6, <3>2
        <3> QED
            BY <3>1, <3>2
    <2> QED
        BY <2>1, <2>2 DEF EventsAscend
<1>10. EventsAreMine(longer, seen, mineNow)
    BY <1>6 DEF EventsAreMine
<1>11. EventsAccounted(longer, missed, seen, mineNow)
    <2>1. ASSUME NEW own \in mine
          PROVE  \/ \E j \in DOMAIN longer : longer[j].n = own /\ longer[j].study = "own"
                 \/ \E g \in Received(seen) : seen[g].n = own
                 \/ LostBetween(longer, missed, seen, own)
        <3>1. CASE LostBetween(queue, missed, seen, own)
            <4>1. \A j \in DOMAIN longer : own < longer[j].n
                <5> SUFFICES ASSUME NEW j \in DOMAIN longer PROVE own < longer[j].n
                    OBVIOUS
                <5>1. CASE j \in DOMAIN queue
                    BY <1>7, <3>1, <5>1 DEF LostBetween
                <5>2. CASE j \notin DOMAIN queue
                    BY <1>6, <5>2
                <5> QED
                    BY <5>1, <5>2
            <4> QED
                BY <3>1, <4>1 DEF LostBetween
        <3> QED
            BY <1>7, <3>1 DEF EventsAccounted
    <2>2. ASSUME NEW own \in mineNow, own \notin mine
          PROVE  \E j \in DOMAIN longer : longer[j].n = own /\ longer[j].study = "own"
        <3>1. own = n + 1 /\ event.study = "own"
            BY <2>2
        <3>2. waiting + 1 \in DOMAIN longer
            BY <1>3
        <3> QED
            BY <1>3, <3>1, <3>2
    <2> QED
        BY <2>1, <2>2 DEF EventsAccounted
<1> QED
    BY <1>8, <1>9, <1>10, <1>11 DEF longer

\* What a poll makes of a loss, and of an event.
LEMMA PollOf ==
    ASSUME NEW q, NEW m \in Nat, NEW s
    PROVE  LET sub == [queue |-> q, missed |-> m, seen |-> s]
           IN  /\ m > 0 => Poll(sub, "own") = [queue |-> q, missed |-> 0,
                                              seen |-> Append(s, [lagged |-> m, n |-> 0])]
               /\ m = 0 /\ q # <<>> =>
                     Poll(sub, "own") = [queue |-> Tail(q), missed |-> m,
                                         seen |-> IF Head(q).study = "own"
                                                  THEN Append(s, [lagged |-> 0, n |-> Head(q).n]) ELSE s]
<1> DEFINE sub == [queue |-> q, missed |-> m, seen |-> s]
<1>1. sub.queue = q /\ sub.missed = m /\ sub.seen = s
    OBVIOUS
<1>2. ASSUME m > 0
      PROVE  Poll(sub, "own") = [queue |-> q, missed |-> 0, seen |-> Append(s, [lagged |-> m, n |-> 0])]
    <2>1. Poll(sub, "own") = [sub EXCEPT !.missed = 0, !.seen = Append(@, [lagged |-> m, n |-> 0])]
        BY <1>1, <1>2 DEF Poll
    <2> QED
        BY <2>1
<1>3. ASSUME m = 0, q # <<>>
      PROVE  Poll(sub, "own") = [queue |-> Tail(q), missed |-> m,
                                 seen |-> IF Head(q).study = "own"
                                          THEN Append(s, [lagged |-> 0, n |-> Head(q).n]) ELSE s]
    <2>1. Poll(sub, "own") = [sub EXCEPT !.queue = Tail(q),
                                         !.seen = IF Head(q).study = "own"
                                                  THEN Append(@, [lagged |-> 0, n |-> Head(q).n]) ELSE @]
        BY <1>1, <1>3 DEF Poll
    <2> QED
        BY <2>1
<1> QED
    BY <1>2, <1>3

\* One event or poll
LEMMA HeardNext ==
    ASSUME NEW n \in Nat, NEW kind \in {"own", "other", "poll"},
           NEW buffer, buffer \in Nat \ {0}, NEW sub, NEW mine, mine \in SUBSET (1 .. n), SubscriberInv(sub, mine, n),
           NEW mineNow, mineNow = IF kind = "own" THEN mine \cup {n + 1} ELSE mine
    PROVE  SubscriberInv(Hears(sub, kind, n + 1, buffer), mineNow, n + 1)
<1> DEFINE queue == sub.queue
           missed == sub.missed
           seen == sub.seen
           next == Hears(sub, kind, n + 1, buffer)
<1>1. /\ sub = [queue |-> queue, missed |-> missed, seen |-> seen]
      /\ SubscriberType(queue, missed, seen, n) /\ EventsAscend(queue, seen)
      /\ EventsAreMine(queue, seen, mine) /\ EventsAccounted(queue, missed, seen, mine)
      /\ sub.queue = queue /\ sub.missed = missed /\ sub.seen = seen
    BY DEF SubscriberInv
<1>2. mine \in SUBSET (1 .. n + 1)
    OBVIOUS
<1> HIDE DEF queue, missed, seen
<1>3. CASE kind = "poll"
    <2>1. next = Poll(sub, "own") /\ mineNow = mine
        BY <1>3 DEF Hears
    <2>2. ASSUME NEW q, NEW m, NEW s, next = [queue |-> q, missed |-> m, seen |-> s],
                 SubscriberType(q, m, s, n), EventsAscend(q, s), EventsAreMine(q, s, mine),
                 EventsAccounted(q, m, s, mine)
          PROVE  SubscriberInv(next, mine, n + 1)
        <3>1. SubscriberType(q, m, s, n + 1)
            BY <2>2, HeardOfMore
        <3>2. next.queue = q /\ next.missed = m /\ next.seen = s
            BY <2>2
        <3> HIDE DEF next
        <3> QED
            BY <2>2, <3>1, <3>2 DEF SubscriberInv
    <2>3. CASE missed > 0
        <3> DEFINE s == Append(seen, [lagged |-> missed, n |-> 0])
        <3>1. next = [queue |-> queue, missed |-> 0, seen |-> s]
            <4>1. missed \in Nat
                BY <1>1 DEF SubscriberType
            <4>2. Poll([queue |-> queue, missed |-> missed, seen |-> seen], "own")
                    = [queue |-> queue, missed |-> 0, seen |-> s]
                BY <2>3, <4>1, PollOf
            <4> QED
                BY <1>1, <2>1, <4>2
        <3>2. /\ SubscriberType(queue, 0, s, n) /\ EventsAscend(queue, s)
              /\ EventsAreMine(queue, s, mine) /\ EventsAccounted(queue, 0, s, mine)
            BY <1>1, <2>3, LossIsHeard
        <3> HIDE DEF s, next
        <3>3. SubscriberInv(next, mine, n + 1)
            BY <2>2, <3>1, <3>2
        <3> QED
            BY <2>1, <3>3 DEF next
    <2>4. CASE missed = 0 /\ queue # <<>>
        <3> DEFINE s == IF Head(queue).study = "own"
                        THEN Append(seen, [lagged |-> 0, n |-> Head(queue).n]) ELSE seen
        <3>1. next = [queue |-> Tail(queue), missed |-> missed, seen |-> s]
            <4>1. missed \in Nat
                BY <1>1 DEF SubscriberType
            <4>2. Poll([queue |-> queue, missed |-> missed, seen |-> seen], "own")
                    = [queue |-> Tail(queue), missed |-> missed, seen |-> s]
                BY <2>4, <4>1, PollOf
            <4> QED
                BY <1>1, <2>1, <4>2
        <3> HIDE DEF next
        <3>2. /\ SubscriberType(Tail(queue), missed, s, n) /\ EventsAscend(Tail(queue), s)
              /\ EventsAreMine(Tail(queue), s, mine) /\ EventsAccounted(Tail(queue), missed, s, mine)
            BY <1>1, <2>4, EventIsHeard, ZenonT(20)
        <3> HIDE DEF s
        <3>3. SubscriberInv(next, mine, n + 1)
            BY <2>2, <3>1, <3>2
        <3> QED
            BY <2>1, <3>3 DEF next
    <2>5. CASE missed = 0 /\ queue = <<>>
        <3>1. next = [queue |-> queue, missed |-> missed, seen |-> seen]
            BY <1>1, <2>1, <2>5 DEF Poll
        <3> HIDE DEF next
        <3>2. SubscriberInv(next, mine, n + 1)
            BY <1>1, <2>2, <3>1
        <3> QED
            BY <2>1, <3>2 DEF next
    <2> QED
        <3>1. missed \in Nat
            BY <1>1 DEF SubscriberType
        <3> QED
            BY <2>3, <2>4, <2>5, <3>1
<1>4. CASE kind # "poll"
    <2> DEFINE event == [study |-> kind, n |-> n + 1]
    <2>1. next = Broadcast(sub, event, buffer)
        BY <1>4 DEF Hears
    <2>2. event \in SentBy(n + 1) /\ event.n = n + 1 /\ event.study = kind
        BY <1>4 DEF SentBy
    <2>3. mineNow = IF event.study = "own" THEN mine \cup {n + 1} ELSE mine
        BY <2>2
    <2> HIDE DEF event, next
    <2>4. ASSUME NEW q, NEW m, SubscriberType(q, m, seen, n), EventsAscend(q, seen),
                 EventsAreMine(q, seen, mine), EventsAccounted(q, m, seen, mine),
                 next = [queue |-> Append(q, event), missed |-> m, seen |-> seen]
          PROVE  SubscriberInv(next, mineNow, n + 1)
        <3> DEFINE longer == Append(q, event)
        <3>1. /\ SubscriberType(longer, m, seen, n + 1) /\ EventsAscend(longer, seen)
              /\ EventsAreMine(longer, seen, mineNow) /\ EventsAccounted(longer, m, seen, mineNow)
            BY <2>2, <2>3, <2>4, EventWaits, ZenonT(20)
        <3> HIDE DEF longer
        <3>2. next.queue = longer /\ next.missed = m /\ next.seen = seen
            BY <2>4 DEF longer
        <3>3. next = [queue |-> longer, missed |-> m, seen |-> seen]
            BY <2>4 DEF longer
        <3> QED
            BY <3>1, <3>2, <3>3 DEF SubscriberInv
    <2>5. CASE Len(queue) < buffer
        <3>1. next = [queue |-> Append(queue, event), missed |-> missed, seen |-> seen]
            BY <1>1, <2>1, <2>5 DEF Broadcast
        <3>2. SubscriberInv(next, mineNow, n + 1)
            BY <1>1, <2>4, <3>1
        <3> QED
            BY <3>2 DEF next
    <2>6. CASE ~(Len(queue) < buffer)
        <3>1. next = [queue |-> Append(Tail(queue), event), missed |-> missed + 1, seen |-> seen]
            BY <1>1, <2>1, <2>6 DEF Broadcast
        <3>2. queue # <<>>
            BY <2>6
        <3>3. /\ SubscriberType(Tail(queue), missed + 1, seen, n) /\ EventsAscend(Tail(queue), seen)
              /\ EventsAreMine(Tail(queue), seen, mine)
              /\ EventsAccounted(Tail(queue), missed + 1, seen, mine)
            BY <1>1, <3>2, EventIsLost
        <3>4. SubscriberInv(next, mineNow, n + 1)
            BY <2>4, <3>1, <3>3
        <3> QED
            BY <3>4 DEF next
    <2> QED
        BY <2>5, <2>6
<1> QED
    BY <1>3, <1>4

\* For a study's subscriber with a buffer of any size, and any sequence of events
\* and polls: it gets its study's events alone, in order and once, and each one that
\* it does not get is told of as lost, between those before and those after it
\* (study_events_handler).
THEOREM EventsStayInOrder ==
    ASSUME NEW N \in Nat, NEW schedule \in [1 .. N -> {"own", "other", "poll"}],
           NEW buffer, buffer \in Nat \ {0}, NEW sub, sub[0] = NoEvents,
           \A n \in 1 .. N : sub[n] = Hears(sub[n - 1], schedule[n], n, buffer)
    PROVE  \A n \in 0 .. N : LossesAreTold(sub[n].seen, {k \in 1 .. n : schedule[k] = "own"})
<1> DEFINE Mine(n) == {k \in 1 .. n : schedule[k] = "own"}
           S == {n \in Nat : n <= N => SubscriberInv(sub[n], Mine(n), n)}
<1>1. 0 \in S
    <2>1. Mine(0) = {}
        OBVIOUS
    <2> QED
        BY <2>1, NothingHeard
<1>2. ASSUME NEW n \in Nat, n \in S PROVE n + 1 \in S
    <2> SUFFICES ASSUME n + 1 <= N PROVE SubscriberInv(sub[n + 1], Mine(n + 1), n + 1)
        OBVIOUS
    <2>1. n <= N /\ n + 1 \in 1 .. N /\ (n + 1) - 1 = n
        OBVIOUS
    <2>2. SubscriberInv(sub[n], Mine(n), n) /\ schedule[n + 1] \in {"own", "other", "poll"}
        BY <1>2, <2>1
    <2>3. sub[n + 1] = Hears(sub[n], schedule[n + 1], n + 1, buffer)
        BY <2>1
    <2>4. /\ Mine(n + 1) = IF schedule[n + 1] = "own" THEN Mine(n) \cup {n + 1} ELSE Mine(n)
          /\ Mine(n) \in SUBSET (1 .. n)
        OBVIOUS
    <2> HIDE DEF Mine, S
    <2>5. SubscriberInv(Hears(sub[n], schedule[n + 1], n + 1, buffer), Mine(n + 1), n + 1)
        <3> DEFINE before == sub[n]
                   kind == schedule[n + 1]
                   mine == Mine(n)
                   mineNow == Mine(n + 1)
        <3>1. SubscriberInv(before, mine, n) /\ kind \in {"own", "other", "poll"}
            BY <2>2
        <3>2. mineNow = (IF kind = "own" THEN mine \cup {n + 1} ELSE mine) /\ mine \in SUBSET (1 .. n)
            BY <2>4
        <3> HIDE DEF before, kind, mine, mineNow
        <3>3. SubscriberInv(Hears(before, kind, n + 1, buffer), mineNow, n + 1)
            BY <3>1, <3>2, HeardNext
        <3> QED
            BY <3>3 DEF before, kind, mineNow
    <2> QED
        BY <2>3, <2>5
<1>3. Nat \subseteq S
    <2> HIDE DEF S
    <2> QED
        BY <1>1, <1>2, SetInduction
<1>4. ASSUME NEW n \in 0 .. N PROVE LossesAreTold(sub[n].seen, Mine(n))
    <2>1. n \in Nat /\ n <= N
        OBVIOUS
    <2>2. SubscriberInv(sub[n], Mine(n), n)
        BY <1>3, <2>1
    <2>3. Mine(n) \in SUBSET (1 .. n)
        OBVIOUS
    <2> HIDE DEF Mine
    <2> QED
        BY <2>1, <2>2, <2>3, SubscriberTells
<1> QED
    BY <1>4
=============================================================================
