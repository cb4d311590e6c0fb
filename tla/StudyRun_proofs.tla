--------------------------- MODULE StudyRun_proofs ---------------------------
(***************************************************************************)
(* What StudyRun promises, proved for any steps, times, taps and bounds.   *)
(* The inductive invariant says what the loop may still count on from the  *)
(* frames under way: the results of all the steps it has not heard of      *)
(* (ResultsAreUnderWay), the one that says why the bench stopped           *)
(* (StopIsUnderWay), something that resets the watchdog or ends the run in *)
(* time (NewsIsInTime), and the frames that make it mark a tap whose       *)
(* records were lost (LossIsUnderWay).                                     *)
(***************************************************************************)
EXTENDS StudyRun, SequenceTheorems, TLAPS

-----------------------------------------------------------------------------
(* The inductive invariant                                                 *)

Result(k) == wire[k].kind = "result"

\* The bench has sent the result of step s.
Reported(s) ==
    \/ s < bench.step
    \/ s = bench.step /\ bench.stage \in {"passed", "stopped", "done"}

\* Results are under way in the order of the steps, none of them twice, and
\* after the StudyDone comes nothing.
WireIsInOrder ==
    /\ \A k \in DOMAIN wire : Result(k) =>
          /\ next <= wire[k].step /\ wire[k].step <= bench.step
          /\ bench.stage = "running" => wire[k].step < bench.step
          /\ wire[k].step \notin garbled
    /\ \A k, l \in DOMAIN wire : k < l /\ Result(k) /\ Result(l) => wire[k].step < wire[l].step
    /\ \A k \in DOMAIN wire : wire[k].kind = "done" =>
          /\ k = Len(wire)
          /\ wire[k].step = Last1
          /\ bench.stage = "done"
          /\ wire[k].flag => bench.step = Len(Timeout)
    /\ bench.stage = "passed" => bench.step = Len(Timeout)
    /\ bench.stage = "running" => next <= bench.step /\ \A s \in garbled : s < bench.step

\* What is recorded came in order, and before what is expected.
RecordIsInOrder ==
    /\ Ascending(writer.steps)
    /\ \A k \in DOMAIN writer.steps : writer.steps[k] < next /\ writer.steps[k] \notin garbled

\* Each result is recorded, lost or under way, and so is the StudyDone.
ResultsAreUnderWay ==
    Waiting =>
        /\ \A s \in Step : Reported(s) =>
              \/ s \in garbled
              \/ \E k \in DOMAIN writer.steps : writer.steps[k] = s
              \/ \E k \in DOMAIN wire : Result(k) /\ wire[k].step = s
        /\ bench.stage = "done" =>
              Last1 \in garbled \/ \E k \in DOMAIN wire : wire[k].kind = "done"

StopShows ==
    \/ \E k \in DOMAIN wire : Result(k) /\ wire[k].step = bench.step /\ ~wire[k].flag
    \/ stopping = bench.step /\ \A k \in DOMAIN wire : ~Result(k)

\* The result at which the bench stopped is the last one recorded, or the
\* last one under way.
StopIsUnderWay ==
    /\ Waiting /\ garbled = {} =>
        /\ \A k \in DOMAIN wire : wire[k].kind = "done" /\ ~wire[k].flag => StopShows
        /\ bench.stage = "stopped" => StopShows
    /\ outcome = "stopped" /\ garbled = {} => bench.stage = "done" /\ stopping = bench.step
    /\ outcome = "missing" => garbled # {}

\* The bench has until the deadline for the step that is awaited, and Grace more.
StepIsInTime ==
    /\ bench.stage = "running" /\ bench.step = next
    /\ Grace + Delay[next] + Timeout[next] <= left + bench.elapsed

\* What the loop waits for is under way and has Grace from when it was sent.
FrameIsInTime ==
    \E k \in DOMAIN wire :
        /\ (Result(k) /\ wire[k].step = next) \/ wire[k].kind = "done"
        /\ Grace <= left + wire[k].age

\* The bench is between its last result and its StudyDone, which takes no time.
EndIsInTime ==
    /\ bench.stage \in {"passed", "stopped"}
    /\ \A k \in DOMAIN wire : ~Result(k)
    /\ Grace <= left

NewsIsInTime ==
    /\ Waiting /\ garbled = {} /\ bench.stage # "astray" =>
          StepIsInTime \/ FrameIsInTime \/ EndIsInTime
    /\ WorkingBenchIsNotTimedOut

\* The tap is among the open ones when the loop comes to frame k.
OpenAt(t, k) ==
    /\ t \in openTaps \/ \E m \in DOMAIN wire : m < k /\ wire[m].kind = "open" /\ wire[m].tap = t
    /\ ~\E m \in DOMAIN wire : m < k /\ wire[m].kind = "close" /\ wire[m].tap = t

\* At frame k the loop marks the tap.
MarksAt(t, k) ==
    \/ wire[k].kind = "close" /\ wire[k].tap = t /\ wire[k].flag
    \/ wire[k].kind = "bad" /\ wire[k].tap = t
    \/ wire[k].kind = "bad" /\ wire[k].tap = NoTap /\ OpenAt(t, k)

\* A tap that lost records, is marked, or will be.
LossIsUnderWay ==
    Waiting =>
        /\ lost \subseteq excused \cup marked \cup {t \in Tap : \E k \in DOMAIN wire : MarksAt(t, k)}
        /\ \A k \in DOMAIN wire : wire[k].kind \in {"chunk", "close"} =>
              wire[k].tap \in excused \/ OpenAt(wire[k].tap, k)
        /\ \A t \in Tap : tapStage[t] = "open" => t \in excused \/ OpenAt(t, Len(wire) + 1)
        /\ \A k \in DOMAIN wire : wire[k].kind = "close" => tapStage[wire[k].tap] = "closed"

\* Each step but those the link lost, in order.
Whole(steps) == Ascending(steps) /\ ToSet(steps) = Step \ garbled

\* What becomes of a study that completed.
CompletedIsWhole ==
    /\ outcome = "completed" /\ core = "receiving" =>
          Whole(writer.steps) /\ lost \subseteq excused \cup marked
    /\ outcome = "completed" /\ core = "sealed" =>
          Whole(writer.steps) /\ lost \subseteq excused \cup writer.streams
    /\ disk.file = "final" => Whole(disk.steps) /\ lost \subseteq excused \cup disk.streams

\* Core's place, its file and its registry.
EndsAgree ==
    /\ core = "setup" =>
          /\ bench = [step |-> 1, elapsed |-> 0, stage |-> "running"]
          /\ wire = <<>> /\ next = 1 /\ outcome = "none" /\ undecodable = 0
          /\ lost = {} /\ writer.steps = <<>>
          /\ \A t \in Tap : tapStage[t] = "new"
    /\ job = "none" <=> core = "dead"
    /\ job = "running" <=> core \notin {"over", "dead"}
    /\ job = "completed" => disk.file = "final"
    /\ job = "failed" => disk.file # "final"
    /\ core \in {"sealed", "renamed"} => outcome # "none"
    /\ core = "renamed" => disk.file = "final"
    /\ disk.file = "final" => core \in {"renamed", "over", "dead"}
    /\ Waiting => undecodable < MaxUndecodable

IInv ==
    /\ TypeOK
    /\ WireIsInOrder
    /\ RecordIsInOrder
    /\ ResultsAreUnderWay
    /\ StopIsUnderWay
    /\ NewsIsInTime
    /\ LossIsUnderWay
    /\ CompletedIsWhole
    /\ EndsAgree

-----------------------------------------------------------------------------
(* What each kind of step does to the frames under way, by their places    *)

\* Sending adds a frame at the end.
LEMMA Sending ==
    ASSUME NEW S, NEW w \in Seq(S), NEW f \in S
    PROVE  /\ Append(w, f) \in Seq(S) /\ Len(Append(w, f)) = Len(w) + 1
           /\ DOMAIN Append(w, f) = DOMAIN w \cup {Len(w) + 1}
           /\ \A k \in DOMAIN w : k <= Len(w) /\ Append(w, f)[k] = w[k]
           /\ Append(w, f)[Len(w) + 1] = f
OBVIOUS

\* Taking the first frame moves the others up.
LEMMA Taking ==
    ASSUME NEW S, NEW w \in Seq(S), w # <<>>
    PROVE  /\ Tail(w) \in Seq(S) /\ Len(Tail(w)) = Len(w) - 1
           /\ 1 \in DOMAIN w /\ Head(w) = w[1] /\ w[1] \in S
           /\ \A k \in DOMAIN Tail(w) : k + 1 \in DOMAIN w /\ Tail(w)[k] = w[k + 1]
           /\ \A k \in DOMAIN w :
                k = 1 \/ (k > 1 /\ k - 1 \in DOMAIN Tail(w) /\ Tail(w)[k - 1] = w[k])
<1>1. Tail(w) \in Seq(S) /\ Len(Tail(w)) = Len(w) - 1
    OBVIOUS
<1>2. \A k \in 1 .. Len(w) - 1 : Tail(w)[k] = w[k + 1]
    OBVIOUS
<1>3. DOMAIN w = 1 .. Len(w) /\ DOMAIN Tail(w) = 1 .. Len(w) - 1 /\ Len(w) \in Nat
    BY <1>1
<1>4. 1 \in DOMAIN w /\ Head(w) = w[1] /\ w[1] \in S
    OBVIOUS
<1>5. \A k \in DOMAIN Tail(w) : k + 1 \in DOMAIN w /\ Tail(w)[k] = w[k + 1]
    BY <1>2, <1>3
<1>6. \A k \in DOMAIN w :
        k = 1 \/ (k > 1 /\ k - 1 \in DOMAIN Tail(w) /\ Tail(w)[k - 1] = w[k])
    BY <1>2, <1>3
<1> QED
    BY <1>1, <1>4, <1>5, <1>6

\* What is before and after a stretch of a sequence, and what puts it together.
LEMMA Parting ==
    ASSUME NEW S, NEW w \in Seq(S), NEW i \in 1 .. Len(w), NEW j \in i .. Len(w)
    PROVE  /\ SubSeq(w, 1, i - 1) \in Seq(S) /\ Len(SubSeq(w, 1, i - 1)) = i - 1
           /\ \A k \in 1 .. i - 1 : SubSeq(w, 1, i - 1)[k] = w[k]
           /\ SubSeq(w, j + 1, Len(w)) \in Seq(S) /\ Len(SubSeq(w, j + 1, Len(w))) = Len(w) - j
           /\ \A k \in 1 .. Len(w) - j : SubSeq(w, j + 1, Len(w))[k] = w[k + j]
OBVIOUS

LEMMA Joining ==
    ASSUME NEW S, NEW a \in Seq(S), NEW b \in S, NEW c \in Seq(S)
    PROVE  /\ a \o <<b>> \o c \in Seq(S)
           /\ Len(a \o <<b>> \o c) = Len(a) + 1 + Len(c)
           /\ \A k \in 1 .. Len(a) : (a \o <<b>> \o c)[k] = a[k]
           /\ (a \o <<b>> \o c)[Len(a) + 1] = b
           /\ \A k \in 1 .. Len(c) : (a \o <<b>> \o c)[Len(a) + 1 + k] = c[k]
OBVIOUS

\* Where one frame replaces those from i to j, the later ones move up.
LEMMA Moving ==
    ASSUME wire \in Seq(OnWire), NEW i \in 1 .. Len(wire), NEW j \in i .. Len(wire),
           wire' \in Seq(OnWire), Len(wire') = (i - 1) + 1 + (Len(wire) - j),
           \A k \in 1 .. i - 1 : wire'[k] = wire[k],
           \A k \in 1 .. Len(wire) - j : wire'[(i - 1) + 1 + k] = wire[k + j]
    PROVE  /\ Len(wire') = Len(wire) - (j - i) /\ i \in DOMAIN wire'
           /\ \A k \in DOMAIN wire' :
                /\ k < i => k \in DOMAIN wire /\ wire'[k] = wire[k]
                /\ k > i => k + (j - i) \in DOMAIN wire /\ wire'[k] = wire[k + (j - i)]
           /\ \A k \in DOMAIN wire :
                /\ k < i => k \in DOMAIN wire' /\ wire'[k] = wire[k]
                /\ k > j => k - (j - i) \in DOMAIN wire' /\ wire'[k - (j - i)] = wire[k]
<1>1. Len(wire) \in Nat /\ i \in Nat /\ j \in Nat /\ 0 < i /\ i <= j /\ j <= Len(wire)
    OBVIOUS
<1>2. DOMAIN wire = 1 .. Len(wire) /\ DOMAIN wire' = 1 .. Len(wire')
    OBVIOUS
<1>3. Len(wire') = Len(wire) - (j - i) /\ i \in 1 .. Len(wire')
    BY <1>1
<1>4. ASSUME NEW k \in 1 .. Len(wire'), k > i
      PROVE  k + (j - i) \in 1 .. Len(wire) /\ wire'[k] = wire[k + (j - i)]
    <2>1. k - i \in 1 .. Len(wire) - j
        BY <1>1, <1>3, <1>4
    <2>2. (i - 1) + 1 + (k - i) = k /\ (k - i) + j = k + (j - i)
        BY <1>1, <1>3
    <2>3. wire'[k] = wire[k + (j - i)]
        BY <2>1, <2>2
    <2> QED
        BY <1>1, <1>3, <1>4, <2>3
<1>5. ASSUME NEW k \in 1 .. Len(wire), k > j
      PROVE  k - (j - i) \in 1 .. Len(wire') /\ wire'[k - (j - i)] = wire[k]
    <2>1. k - j \in 1 .. Len(wire) - j
        BY <1>1, <1>5
    <2>2. (i - 1) + 1 + (k - j) = k - (j - i) /\ (k - j) + j = k
        BY <1>1
    <2>3. wire'[k - (j - i)] = wire[k]
        BY <2>1, <2>2
    <2> QED
        BY <1>1, <1>3, <1>5, <2>3
<1>6. \A k \in 1 .. Len(wire') : k < i => k \in 1 .. Len(wire) /\ wire'[k] = wire[k]
    BY <1>1, <1>3
<1>7. \A k \in 1 .. Len(wire) : k < i => k \in 1 .. Len(wire') /\ wire'[k] = wire[k]
    BY <1>1, <1>3
<1> QED
    BY <1>2, <1>3, <1>4, <1>5, <1>6, <1>7

\* Time makes the frames older.
LEMMA Ageing ==
    ASSUME TypeOK, Tick
    PROVE  /\ wire' \in Seq(OnWire) /\ DOMAIN wire' = DOMAIN wire /\ Len(wire') = Len(wire)
           /\ \A k \in DOMAIN wire :
                /\ wire[k] \in OnWire
                /\ wire'[k] = [wire[k] EXCEPT !.age = @ + 1]
<1>1. wire \in Seq(OnWire) /\ wire' = [k \in DOMAIN wire |-> [wire[k] EXCEPT !.age = @ + 1]]
    BY DEF TypeOK, Tick
<1>2. DOMAIN wire = 1 .. Len(wire) /\ Len(wire) \in Nat /\ \A k \in DOMAIN wire : wire[k] \in OnWire
    BY <1>1
<1>3. \A k \in DOMAIN wire : wire[k].age < Latency
    BY <1>1, <1>2 DEF Tick, ToSet
<1>4. \A k \in DOMAIN wire : wire'[k] \in OnWire
    <2> SUFFICES ASSUME NEW k \in DOMAIN wire PROVE wire'[k] \in OnWire
        OBVIOUS
    <2>1. wire[k] \in OnWire /\ wire[k].age + 1 \in 0 .. Latency
        BY <1>2, <1>3, TimeAssumption DEF OnWire
    <2>2. wire'[k] = [wire[k] EXCEPT !.age = @ + 1]
        BY <1>1
    <2> QED
        BY <2>1, <2>2 DEF OnWire
<1>5. wire' \in Seq(OnWire) /\ Len(wire') = Len(wire) /\ DOMAIN wire' = DOMAIN wire
    BY <1>1, <1>2, <1>4
<1> QED
    BY <1>1, <1>2, <1>5

\* The bench sends a frame, and nothing becomes of those under way before.
LEMMA SendEffect ==
    ASSUME TypeOK, NEW f \in OnWire, Send(f)
    PROVE  /\ wire' \in Seq(OnWire) /\ Len(wire') = Len(wire) + 1 /\ Len(wire) \in Nat
           /\ DOMAIN wire' = DOMAIN wire \cup {Len(wire) + 1}
           /\ \A k \in DOMAIN wire : k <= Len(wire) /\ wire'[k] = wire[k]
           /\ wire'[Len(wire) + 1] = f
<1>1. wire \in Seq(OnWire) /\ wire' = Append(wire, f)
    BY DEF TypeOK, Send
<1> QED
    BY <1>1, Sending

\* The loop takes the first frame.
LEMMA TakeEffect ==
    ASSUME TypeOK, wire # <<>>, wire' = Tail(wire)
    PROVE  /\ wire' \in Seq(OnWire) /\ Len(wire') = Len(wire) - 1 /\ Len(wire) \in Nat
           /\ 1 \in DOMAIN wire /\ Head(wire) = wire[1] /\ wire[1] \in OnWire
           /\ \A k \in DOMAIN wire' : k \in Nat /\ k + 1 \in DOMAIN wire /\ wire'[k] = wire[k + 1]
           /\ \A k \in DOMAIN wire :
                k = 1 \/ (k > 1 /\ k - 1 \in DOMAIN wire' /\ wire'[k - 1] = wire[k])
<1>1. wire \in Seq(OnWire)
    BY DEF TypeOK
<1> QED
    BY <1>1, Taking

\* The taps of the frames i to j, if they are of those kinds.
TapsOf(i, j, kinds) == {f.tap : f \in {g \in {wire[k] : k \in i .. j} : g.kind \in kinds}}

\* Of the frames i to j remains one that cannot be read, with the name of a tap
\* or of none.
LEMMA GarbleEffect ==
    ASSUME TypeOK, NEW i \in DOMAIN wire, NEW j \in DOMAIN wire, Garble(i, j)
    PROVE  /\ wire' \in Seq(OnWire) /\ Len(wire') = Len(wire) - (j - i) /\ Len(wire) \in Nat
           /\ j \in {i, i + 1} /\ i \in DOMAIN wire'
           /\ wire'[i].kind = "bad" /\ wire[i].kind # "bad" /\ wire[j].kind # "bad"
           /\ \A k \in DOMAIN wire' :
                /\ k < i => k \in DOMAIN wire /\ wire'[k] = wire[k]
                /\ k > i => k + (j - i) \in DOMAIN wire /\ wire'[k] = wire[k + (j - i)]
           /\ \A k \in DOMAIN wire :
                /\ k < i => k \in DOMAIN wire' /\ wire'[k] = wire[k]
                /\ k > j => k - (j - i) \in DOMAIN wire' /\ wire'[k - (j - i)] = wire[k]
           /\ \E named \in Names(wire[i]) :
                /\ wire'[i].tap = named
                /\ excused' = excused \cup TapsOf(i, j, {"open"})
                                \cup (IF named = NoTap THEN {}
                                      ELSE TapsOf(i, j, {"chunk", "close"}) \ {named})
<1>1. j \in {i, i + 1} /\ wire[i] \in OnWire /\ wire[j] \in OnWire /\ wire \in Seq(OnWire)
    BY DEF Garble, TypeOK
<1>2. PICK named \in Names(wire[i]) :
        /\ wire' = SubSeq(wire, 1, i - 1)
                    \o <<[Frame("bad", 1, named, TRUE) EXCEPT !.age = wire[j].age]>>
                    \o SubSeq(wire, j + 1, Len(wire))
        /\ excused' = excused \cup TapsOf(i, j, {"open"})
                        \cup (IF named = NoTap THEN {}
                              ELSE TapsOf(i, j, {"chunk", "close"}) \ {named})
    BY DEF Garble, TapsOf
<1> DEFINE bad == [Frame("bad", 1, named, TRUE) EXCEPT !.age = wire[j].age]
           before == SubSeq(wire, 1, i - 1)
           after == SubSeq(wire, j + 1, Len(wire))
<1>3. named \in Tap \cup {NoTap} /\ 1 \in 1 .. Last1
    <2>1. wire[i].tap \in Tap \cup {NoTap}
        BY <1>1 DEF OnWire
    <2>2. named \in Tap \cup {NoTap}
        BY <2>1 DEF Names
    <2>3. 1 \in 1 .. Last1
        BY StepAssumption DEF Last1
    <2> QED
        BY <2>2, <2>3
<1>4. bad \in OnWire /\ bad.kind = "bad" /\ bad.tap = named
    BY <1>1, <1>3 DEF Frame, OnWire
<1>5. {i, j} \subseteq i .. j /\ Len(wire) \in Nat /\ i \in 1 .. Len(wire) /\ j \in i .. Len(wire)
    BY <1>1
<1>6. wire[i].kind # "bad" /\ wire[j].kind # "bad"
    BY <1>5 DEF Garble
<1>7. /\ before \in Seq(OnWire) /\ Len(before) = i - 1
      /\ \A k \in 1 .. i - 1 : before[k] = wire[k]
      /\ after \in Seq(OnWire) /\ Len(after) = Len(wire) - j
      /\ \A k \in 1 .. Len(wire) - j : after[k] = wire[k + j]
    BY <1>1, <1>5, Parting
<1>8. wire' = before \o <<bad>> \o after
    BY <1>2
<1> HIDE DEF bad, before, after
<1>9. /\ wire' \in Seq(OnWire) /\ Len(wire') = Len(before) + 1 + Len(after)
      /\ \A k \in 1 .. Len(before) : wire'[k] = before[k]
      /\ wire'[Len(before) + 1] = bad
      /\ \A k \in 1 .. Len(after) : wire'[Len(before) + 1 + k] = after[k]
    <2>1. before \in Seq(OnWire) /\ bad \in OnWire /\ after \in Seq(OnWire)
        BY <1>4, <1>7
    <2> QED
        BY <1>8, <2>1, Joining
<1>10. /\ Len(wire') = (i - 1) + 1 + (Len(wire) - j) /\ wire'[i] = bad
       /\ \A k \in 1 .. i - 1 : wire'[k] = wire[k]
       /\ \A k \in 1 .. Len(wire) - j : wire'[(i - 1) + 1 + k] = wire[k + j]
    <2>1. i \in Nat /\ (i - 1) + 1 = i
        BY <1>5
    <2>2. Len(wire') = (i - 1) + 1 + (Len(wire) - j) /\ wire'[i] = bad
        BY <1>7, <1>9, <2>1
    <2>3. \A k \in 1 .. i - 1 : wire'[k] = wire[k]
        BY <1>7, <1>9
    <2>4. ASSUME NEW k \in 1 .. Len(wire) - j PROVE wire'[(i - 1) + 1 + k] = wire[k + j]
        <3>1. wire'[Len(before) + 1 + k] = after[k] /\ after[k] = wire[k + j]
            BY <1>7, <1>9
        <3> QED
            BY <1>7, <3>1
    <2> QED
        BY <2>2, <2>3, <2>4
<1>11. /\ Len(wire') = Len(wire) - (j - i) /\ i \in DOMAIN wire'
       /\ \A k \in DOMAIN wire' :
            /\ k < i => k \in DOMAIN wire /\ wire'[k] = wire[k]
            /\ k > i => k + (j - i) \in DOMAIN wire /\ wire'[k] = wire[k + (j - i)]
       /\ \A k \in DOMAIN wire :
            /\ k < i => k \in DOMAIN wire' /\ wire'[k] = wire[k]
            /\ k > j => k - (j - i) \in DOMAIN wire' /\ wire'[k - (j - i)] = wire[k]
    <2>1. wire \in Seq(OnWire) /\ wire' \in Seq(OnWire)
        BY <1>1, <1>9
    <2> QED
        BY <1>5, <1>10, <2>1, Moving
<1> QED
    BY <1>1, <1>2, <1>4, <1>5, <1>6, <1>9, <1>10, <1>11
-----------------------------------------------------------------------------
(* Types                                                                   *)

LEMMA InitIInv == Init => IInv
<1> SUFFICES ASSUME Init PROVE IInv
    OBVIOUS
<1> USE StepAssumption, TimeAssumption, NoTapAssumption, NoiseAssumption DEF Init
<1>1. Step = 1 .. Len(Timeout) /\ Len(Timeout) \in Nat \ {0} /\ 1 \in Step
    BY DEF Step
<1>2. TypeOK
    BY <1>1 DEF TypeOK, Last1
<1>3. ~Waiting /\ wire = <<>> /\ DOMAIN wire = {} /\ outcome = "none"
    BY DEF Waiting
<1>4. /\ WireIsInOrder /\ ResultsAreUnderWay /\ StopIsUnderWay /\ NewsIsInTime
      /\ LossIsUnderWay /\ CompletedIsWhole
    BY <1>3 DEF WireIsInOrder, ResultsAreUnderWay, StopIsUnderWay, NewsIsInTime,
       WorkingBenchIsNotTimedOut, LossIsUnderWay, CompletedIsWhole
<1>5. RecordIsInOrder /\ EndsAgree
    BY <1>3 DEF RecordIsInOrder, Ascending, EndsAgree
<1> QED
    BY <1>2, <1>4, <1>5 DEF IInv

\* Which frames there can be.
FramesFit ==
    \A k \in DOMAIN wire :
        /\ wire[k].kind = "result" => wire[k].step \in Step
        /\ wire[k].kind \in {"open", "chunk", "close"} => wire[k].tap \in Tap

\* TypeOK in parts, one for each process.
BenchTyped ==
    /\ bench \in [step : Step, elapsed : Nat,
                  stage : {"running", "passed", "stopped", "done", "astray"}]
    /\ bench.elapsed <= Delay[bench.step] + Timeout[bench.step]
TapsTyped == tapStage \in [Tap -> {"new", "open", "closed"}]
WireTyped == wire \in Seq(OnWire) /\ FramesFit
LossTyped == garbled \subseteq 1 .. Last1 /\ lost \cup excused \subseteq Tap
WatchTyped == next \in 1 .. Last1 /\ left \in Nat
LoopTyped ==
    /\ openTaps \cup marked \subseteq Tap
    /\ undecodable \in 0 .. MaxUndecodable
    /\ stopping \in {0} \cup Step
    /\ outcome \in {"none", "completed", "stopped", "missing", "timeout", "noise", "link",
                    "write", "tap"}
WriterTyped == writer \in [steps : Seq(Step), streams : SUBSET Tap]
EndTyped ==
    /\ core \in {"setup", "receiving", "sealed", "renamed", "over", "dead"}
    /\ disk \in [file : {"missing", "partial", "final"}, steps : Seq(Step), streams : SUBSET Tap]
    /\ job \in {"running", "completed", "failed", "none"}

LEMMA TypeParts ==
    /\ TypeOK <=> /\ BenchTyped /\ TapsTyped /\ WireTyped /\ LossTyped
                  /\ WatchTyped /\ LoopTyped /\ WriterTyped /\ EndTyped
    /\ TypeOK' <=> /\ BenchTyped' /\ TapsTyped' /\ WireTyped' /\ LossTyped'
                   /\ WatchTyped' /\ LoopTyped' /\ WriterTyped' /\ EndTyped'
BY DEF TypeOK, BenchTyped, TapsTyped, WireTyped, FramesFit, LossTyped, WatchTyped, LoopTyped,
   WriterTyped, EndTyped

\* What is left alone keeps its type.
LEMMA TypesStay ==
    /\ UNCHANGED bench => (BenchTyped => BenchTyped')
    /\ UNCHANGED tapStage => (TapsTyped => TapsTyped')
    /\ UNCHANGED wire => (WireTyped => WireTyped')
    /\ UNCHANGED <<garbled, lost, excused>> => (LossTyped => LossTyped')
    /\ UNCHANGED <<next, left>> => (WatchTyped => WatchTyped')
    /\ UNCHANGED <<openTaps, marked, undecodable, stopping, outcome>> => (LoopTyped => LoopTyped')
    /\ UNCHANGED writer => (WriterTyped => WriterTyped')
    /\ UNCHANGED <<core, disk, job>> => (EndTyped => EndTyped')
BY DEF BenchTyped, TapsTyped, WireTyped, FramesFit, LossTyped, WatchTyped, LoopTyped,
   WriterTyped, EndTyped

LEMMA FrameIsOnWire ==
    ASSUME NEW kind \in {"result", "done", "open", "chunk", "close", "log", "bad"},
           NEW step \in 1 .. Last1, NEW tap \in Tap \cup {NoTap}, NEW flag \in BOOLEAN
    PROVE  /\ Frame(kind, step, tap, flag) \in OnWire
           /\ Frame(kind, step, tap, flag).kind = kind /\ Frame(kind, step, tap, flag).step = step
           /\ Frame(kind, step, tap, flag).tap = tap /\ Frame(kind, step, tap, flag).flag = flag
           /\ Frame(kind, step, tap, flag).age = 0
BY TimeAssumption DEF Frame, OnWire

\* A frame that fits joins those that do.
LEMMA SendFits ==
    ASSUME TypeOK, NEW f \in OnWire, Send(f),
           f.kind = "result" => f.step \in Step,
           f.kind \in {"open", "chunk", "close"} => f.tap \in Tap
    PROVE  WireTyped'
<1>1. FramesFit
    BY DEF TypeOK, FramesFit
<1> QED
    BY <1>1, SendEffect DEF WireTyped, FramesFit

LEMMA TakeFits ==
    ASSUME TypeOK, wire # <<>>, wire' = Tail(wire)
    PROVE  /\ WireTyped' /\ Head(wire) \in OnWire
           /\ Head(wire).kind = "result" => Head(wire).step \in Step
           /\ Head(wire).kind \in {"open", "chunk", "close"} => Head(wire).tap \in Tap
<1>1. FramesFit
    BY DEF TypeOK, FramesFit
<1> QED
    BY <1>1, TakeEffect DEF WireTyped, FramesFit

LEMMA GarbleFits ==
    ASSUME TypeOK, NEW i \in DOMAIN wire, NEW j \in DOMAIN wire, Garble(i, j)
    PROVE  WireTyped'
<1>1. FramesFit
    BY DEF TypeOK, FramesFit
<1>2. ASSUME NEW k \in DOMAIN wire'
      PROVE  wire'[k].kind = "bad" \/ \E m \in DOMAIN wire : wire'[k] = wire[m]
    <2>1. k < i \/ k = i \/ k > i
        BY GarbleEffect
    <2>2. \A m \in DOMAIN wire' :
            /\ m < i => m \in DOMAIN wire /\ wire'[m] = wire[m]
            /\ m > i => m + (j - i) \in DOMAIN wire /\ wire'[m] = wire[m + (j - i)]
        BY GarbleEffect
    <2>3. wire'[i].kind = "bad"
        BY GarbleEffect
    <2>4. CASE k < i
        BY <2>2, <2>4
    <2>5. CASE k > i
        BY <2>2, <2>5
    <2> QED
        BY <2>1, <2>3, <2>4, <2>5
<1>3. wire' \in Seq(OnWire)
    BY GarbleEffect
<1> QED
    BY <1>1, <1>2, <1>3 DEF WireTyped, FramesFit

LEMMA TickFits ==
    ASSUME TypeOK, Tick
    PROVE  WireTyped'
<1>1. FramesFit
    BY DEF TypeOK, FramesFit
<1> QED
    BY <1>1, Ageing DEF WireTyped, FramesFit, OnWire

\* What the loss of frames i to j does besides: their results count as lost, and
\* so do the records of their taps, which the remains name, or no tap.
LEMMA GarbleLosses ==
    ASSUME TypeOK, NEW i \in DOMAIN wire, NEW j \in DOMAIN wire, Garble(i, j)
    PROVE  /\ garbled' = garbled \cup
                {wire[k].step : k \in {m \in {i, j} : wire[m].kind \in {"result", "done"}}}
           /\ lost' = lost \cup {wire[k].tap : k \in {m \in {i, j} : wire[m].kind = "chunk"}}
           /\ excused \subseteq excused'
           /\ \A k \in {i, j} : wire[k].kind = "open" => wire[k].tap \in excused'
           /\ \A k \in {i, j} : wire[k].kind \in {"chunk", "close"} =>
                wire'[i].tap \in {NoTap, wire[k].tap} \/ wire[k].tap \in excused'
           /\ LossTyped'
<1>1. j \in {i, i + 1} /\ wire \in Seq(OnWire) /\ LossTyped /\ FramesFit
    BY DEF Garble, TypeOK, FramesFit, LossTyped
<1>2. wire[i] \in OnWire /\ wire[j] \in OnWire
    BY <1>1
<1>3. i .. j = {i, j}
    BY <1>1
<1>4. ASSUME NEW kinds
      PROVE  TapsOf(i, j, kinds) = {wire[k].tap : k \in {m \in {i, j} : wire[m].kind \in kinds}}
    BY <1>3 DEF TapsOf
<1>5. /\ garbled' = garbled \cup {f.step : f \in
                        {g \in {wire[k] : k \in i .. j} : g.kind \in {"result", "done"}}}
      /\ lost' = lost \cup TapsOf(i, j, {"chunk"})
    BY DEF Garble, TapsOf
<1>6. /\ garbled' = garbled \cup
          {wire[k].step : k \in {m \in {i, j} : wire[m].kind \in {"result", "done"}}}
      /\ lost' = lost \cup {wire[k].tap : k \in {m \in {i, j} : wire[m].kind = "chunk"}}
    BY <1>3, <1>4, <1>5
<1>7. PICK named \in Names(wire[i]) :
        /\ wire'[i].tap = named
        /\ excused' = excused \cup TapsOf(i, j, {"open"})
                        \cup (IF named = NoTap THEN {}
                              ELSE TapsOf(i, j, {"chunk", "close"}) \ {named})
    BY GarbleEffect
<1>8. /\ excused \subseteq excused'
      /\ \A k \in {i, j} : wire[k].kind = "open" => wire[k].tap \in excused'
      /\ \A k \in {i, j} : wire[k].kind \in {"chunk", "close"} =>
            named \in {NoTap, wire[k].tap} \/ wire[k].tap \in excused'
      /\ excused' \subseteq Tap
    BY <1>1, <1>4, <1>7 DEF FramesFit, LossTyped
<1>9. LossTyped'
    <2>1. \A k \in {i, j} : wire[k].step \in 1 .. Last1
        BY <1>2 DEF OnWire
    <2>2. garbled' \subseteq 1 .. Last1
        BY <1>1, <1>6, <2>1 DEF LossTyped
    <2>3. lost' \subseteq Tap
        BY <1>1, <1>6 DEF FramesFit, LossTyped
    <2> QED
        BY <1>8, <2>2, <2>3 DEF LossTyped
<1> QED
    BY <1>6, <1>7, <1>8, <1>9

LEMMA TypeNext == TypeOK /\ EndsAgree /\ [Next]_vars => TypeOK'
<1> SUFFICES ASSUME TypeOK, EndsAgree, [Next]_vars PROVE TypeOK'
    OBVIOUS
<1> USE DEF vars, linkVars, loopVars, coreVars, LinkOtherThanWire
<1>s. Step = 1 .. Len(Timeout) /\ Len(Timeout) \in Nat \ {0} /\ Last1 = Len(Timeout) + 1
    BY StepAssumption DEF Step, Last1
<1>b. \A i \in Step : Delay[i] \in Nat /\ Timeout[i] \in Nat
    BY StepAssumption DEF Step
<1>t. /\ BenchTyped /\ TapsTyped /\ WireTyped /\ LossTyped
      /\ WatchTyped /\ LoopTyped /\ WriterTyped /\ EndTyped
    BY TypeParts
<1> USE TypeParts, TypesStay
<1> HIDE DEF TypeOK
<1>1. ASSUME NEW ok \in BOOLEAN, BenchReports(ok) PROVE TypeOK'
    <2> DEFINE f == Frame("result", bench.step, NoTap, ok)
    <2>1. bench.step \in Step /\ bench.step \in 1 .. Last1
        BY <1>s, <1>t DEF BenchTyped
    <2>2. f \in OnWire /\ f.kind = "result" /\ f.step = bench.step
        BY <2>1, TimeAssumption DEF Frame, OnWire
    <2>3. Send(f)
        BY <1>1 DEF BenchReports
    <2>4. WireTyped'
        <3> HIDE DEF f
        <3> QED
            BY <2>1, <2>2, <2>3, SendFits
    <2>5. /\ bench'.elapsed = 0 /\ bench'.step \in Step
          /\ bench' \in [step : Step, elapsed : Nat,
                         stage : {"running", "passed", "stopped", "done", "astray"}]
        BY <1>1, <1>s, <2>1 DEF BenchReports
    <2>6. BenchTyped'
        BY <1>b, <2>5 DEF BenchTyped
    <2> QED
        BY <1>1, <1>t, <2>4, <2>6 DEF BenchReports
<1>2. ASSUME BenchIsDone PROVE TypeOK'
    <2> DEFINE f == Frame("done", Last1, NoTap, bench.stage = "passed")
    <2>1. f \in OnWire /\ f.kind = "done"
        BY <1>s, TimeAssumption DEF Frame, OnWire
    <2>2. Send(f)
        BY <1>2 DEF BenchIsDone
    <2>3. WireTyped'
        <3> HIDE DEF f
        <3> QED
            BY <2>1, <2>2, SendFits
    <2>4. BenchTyped'
        BY <1>2, <1>t DEF BenchIsDone, BenchTyped
    <2> QED
        BY <1>2, <1>t, <2>3, <2>4 DEF BenchIsDone
<1>3. ASSUME BenchGoesAstray PROVE TypeOK'
    <2>1. BenchTyped'
        <3>1. bench' = [bench EXCEPT !.stage = "astray", !.elapsed = 0]
            BY <1>3 DEF BenchGoesAstray
        <3>2. Delay[bench.step] + Timeout[bench.step] \in Nat /\ bench.step \in Step
            BY <1>b, <1>t DEF BenchTyped
        <3> QED
            <4>1. bench'.elapsed = 0 /\ bench'.step = bench.step
                BY <1>t, <3>1 DEF BenchTyped
            <4>2. bench' \in [step : Step, elapsed : Nat,
                              stage : {"running", "passed", "stopped", "done", "astray"}]
                BY <1>t, <3>1 DEF BenchTyped
            <4> QED
                BY <3>2, <4>1, <4>2 DEF BenchTyped
    <2> QED
        BY <1>3, <1>t, <2>1 DEF BenchGoesAstray
<1>4. ASSUME NEW t \in Tap, BenchStreams(t) PROVE TypeOK'
    <2>1. ASSUME NEW kind \in {"open", "chunk", "close"}, NEW flag \in BOOLEAN,
                 Send(Frame(kind, 1, t, flag))
          PROVE  WireTyped'
        <3> DEFINE f == Frame(kind, 1, t, flag)
        <3>1. f \in OnWire /\ f.kind = kind /\ f.tap = t
            <4>1. 1 \in 1 .. Last1
                BY <1>s
            <4> QED
                BY <4>1, FrameIsOnWire
        <3>2. Send(f)
            BY <2>1
        <3> HIDE DEF f
        <3> QED
            BY <3>1, <3>2, SendFits
    <2>2. WireTyped'
        BY <1>4, <2>1 DEF BenchStreams
    <2>3. TapsTyped' /\ LossTyped'
        BY <1>4, <1>t DEF BenchStreams, TapsTyped, LossTyped
    <2> QED
        BY <1>4, <1>t, <2>2, <2>3 DEF BenchStreams
<1>5. ASSUME BenchLogs PROVE TypeOK'
    <2> DEFINE f == Frame("log", 1, NoTap, TRUE)
    <2>1. f \in OnWire /\ f.kind = "log"
        BY <1>s, TimeAssumption DEF Frame, OnWire
    <2>2. Send(f)
        BY <1>5 DEF BenchLogs
    <2>3. WireTyped'
        <3> HIDE DEF f
        <3> QED
            BY <2>1, <2>2, SendFits
    <2> QED
        BY <1>5, <1>t, <2>3 DEF BenchLogs
<1>6. ASSUME NEW i \in DOMAIN wire, NEW j \in DOMAIN wire, Garble(i, j) PROVE TypeOK'
    <2>1. WireTyped' /\ LossTyped'
        BY <1>6, GarbleFits, GarbleLosses
    <2> QED
        BY <1>6, <1>t, <2>1 DEF Garble
<1>7. ASSUME Tick PROVE TypeOK'
    <2>1. WireTyped'
        BY <1>7, TickFits
    <2>2. WatchTyped'
        BY <1>7, <1>t DEF Tick, WatchTyped
    <2>3. BenchTyped'
        <3>1. CASE bench.stage = "running"
            <4>1. bench' = [bench EXCEPT !.elapsed = @ + 1]
                BY <1>7, <3>1 DEF Tick
            <4>2. bench.elapsed < Delay[bench.step] + Timeout[bench.step]
                BY <1>7, <3>1 DEF Tick
            <4> QED
                BY <1>b, <1>t, <4>1, <4>2 DEF BenchTyped
        <3>2. CASE bench.stage # "running"
            BY <1>7, <1>t, <3>2 DEF Tick
        <3> QED
            BY <3>1, <3>2
    <2> QED
        BY <1>7, <1>t, <2>1, <2>2, <2>3 DEF Tick
<1>8. ASSUME GetResult PROVE TypeOK'
    <2>1. wire # <<>> /\ wire' = Tail(wire) /\ Head(wire).kind = "result"
        BY <1>8 DEF GetResult, Got
    <2>2. WireTyped' /\ Head(wire).step \in Step
        BY <2>1, TakeFits
    <2>3. /\ writer' \in {writer, [writer EXCEPT !.steps = Append(@, Head(wire).step)]}
          /\ stopping' \in {stopping, Head(wire).step}
          /\ next' \in {next, Head(wire).step + 1}
          /\ left' \in {left, NextDeadline(next')}
          /\ outcome' \in {outcome, "tap", "write"}
        BY <1>8 DEF GetResult, StoppingAfter, AdvanceStepCounters
    <2>4. WatchTyped'
        <3>1. next' \in 1 .. Last1
            BY <1>s, <1>t, <2>2, <2>3 DEF WatchTyped
        <3>2. NextDeadline(next') \in Nat
            BY <1>s, <1>b, <3>1, TimeAssumption DEF NextDeadline
        <3> QED
            BY <1>t, <2>3, <3>1, <3>2 DEF WatchTyped
    <2>5. WriterTyped'
        BY <1>t, <2>2, <2>3 DEF WriterTyped
    <2>6. LoopTyped'
        BY <1>8, <1>t, <2>2, <2>3 DEF GetResult, LoopTyped
    <2> QED
        BY <1>8, <1>t, <2>2, <2>4, <2>5, <2>6 DEF GetResult
<1>9. ASSUME GetDone PROVE TypeOK'
    <2>1. WireTyped'
        BY <1>9, TakeFits DEF GetDone, Got
    <2>2. LoopTyped'
        BY <1>9, <1>t DEF GetDone, LoopTyped
    <2> QED
        BY <1>9, <1>t, <2>1, <2>2 DEF GetDone
<1>10. ASSUME GetStream PROVE TypeOK'
    <2>1. wire # <<>> /\ wire' = Tail(wire)
        BY <1>10 DEF GetStream
    <2>2. WireTyped' /\ (Head(wire).kind \in {"open", "chunk", "close"} => Head(wire).tap \in Tap)
        BY <2>1, TakeFits
    <2>3. LoopTyped'
        BY <1>10, <1>t, <2>2 DEF GetStream, LoopTyped
    <2> QED
        BY <1>10, <1>t, <2>2, <2>3 DEF GetStream
<1>11. ASSUME GetBad PROVE TypeOK'
    <2>1. wire # <<>> /\ wire' = Tail(wire)
        BY <1>11 DEF GetBad, Got
    <2>2. WireTyped' /\ Head(wire).tap \in Tap \cup {NoTap}
        BY <2>1, TakeFits DEF OnWire
    <2>3. LoopTyped'
        <3>1. marked' \subseteq Tap
            BY <1>11, <1>t, <2>2 DEF GetBad, Marks, LoopTyped
        <3>2. undecodable' \in 0 .. MaxUndecodable
            BY <1>11, <1>t, NoiseAssumption DEF GetBad, Got, EndsAgree, LoopTyped
        <3> QED
            BY <1>11, <1>t, <3>1, <3>2 DEF GetBad, LoopTyped
    <2> QED
        BY <1>11, <1>t, <2>2, <2>3 DEF GetBad
<1>12. ASSUME DeadlinePasses \/ LinkFails PROVE TypeOK'
    <2>1. LoopTyped'
        BY <1>12, <1>t DEF DeadlinePasses, LinkFails, LoopTyped
    <2> QED
        BY <1>12, <1>t, <2>1 DEF DeadlinePasses, LinkFails
<1>13. ASSUME Start PROVE TypeOK'
    <2>1. WatchTyped'
        <3>1. NextDeadline(1) \in Nat
            BY <1>s, <1>b, TimeAssumption DEF NextDeadline
        <3> QED
            BY <1>13, <1>t, <3>1 DEF Start, WatchTyped
    <2>2. LoopTyped' /\ EndTyped'
        BY <1>13, <1>t DEF Start, LoopTyped, EndTyped
    <2> QED
        BY <1>13, <1>t, <2>1, <2>2 DEF Start
<1>14. ASSUME SetupFails \/ Complete \/ FailJob PROVE TypeOK'
    <2>1. EndTyped'
        BY <1>14, <1>t DEF SetupFails, Complete, FailJob, EndTyped
    <2> QED
        BY <1>14, <1>t, <2>1 DEF SetupFails, Complete, FailJob
<1>15. ASSUME Seal \/ Finish \/ FinishFails \/ Restart PROVE TypeOK'
    <2>1. CASE Seal
        BY <1>t, <2>1 DEF Seal, WriterTyped, EndTyped, LoopTyped
    <2>2. Emptied \in [steps : Seq(Step), streams : SUBSET Tap]
        BY DEF Emptied
    <2>3. CASE Finish
        BY <1>t, <2>2, <2>3 DEF Finish, WriterTyped, EndTyped
    <2>4. CASE FinishFails \/ Restart
        BY <1>t, <2>2, <2>4 DEF FinishFails, Restart, WriterTyped, EndTyped
    <2> QED
        BY <1>15, <2>1, <2>3, <2>4
<1>16. CASE UNCHANGED vars
    BY <1>t, <1>16
<1> QED
    BY <1>1, <1>2, <1>3, <1>4, <1>5, <1>6, <1>7, <1>8, <1>9, <1>10, <1>11, <1>12, <1>13, <1>14,
       <1>15, <1>16 DEF Next, BenchStep, LoopStep, EndStep

-----------------------------------------------------------------------------
(* Core, its file and its registry                                         *)

\* What bench, link and time do, they do while the loop listens.
LinkStep ==
    \/ \E ok \in BOOLEAN : BenchReports(ok)
    \/ BenchIsDone
    \/ BenchGoesAstray
    \/ \E t \in Tap : BenchStreams(t)
    \/ BenchLogs
    \/ \E i, j \in DOMAIN wire : Garble(i, j)
    \/ Tick

LEMMA LinkKeeps ==
    LinkStep => /\ Waiting /\ Waiting'
                /\ UNCHANGED <<next, openTaps, marked, undecodable, stopping, outcome, core,
                               writer, disk, job>>
                /\ Tick \/ UNCHANGED left
BY DEF LinkStep, BenchReports, BenchIsDone, BenchGoesAstray, BenchStreams, BenchLogs, Garble, Tick,
   Send, Waiting, coreVars, loopVars

LEMMA LoopKeeps ==
    LoopStep => /\ Waiting /\ wire # <<>> /\ wire' = Tail(wire)
                /\ LinkOtherThanWire /\ UNCHANGED <<core, disk, job>>
BY DEF LoopStep, GetResult, GetDone, GetStream, GetBad, Got

\* Next, as the proofs go through it.
LEMMA NextParts ==
    [Next]_vars => \/ LinkStep
                   \/ LoopStep
                   \/ DeadlinePasses \/ LinkFails
                   \/ EndStep
                   \/ Restart
                   \/ UNCHANGED vars
BY DEF Next, LinkStep, BenchStep

LEMMA EndsNext == IInv /\ [Next]_vars => EndsAgree'
<1> SUFFICES ASSUME IInv, [Next]_vars PROVE EndsAgree'
    OBVIOUS
<1>e. EndsAgree
    BY DEF IInv
<1>t. TypeOK
    BY DEF IInv
<1>1. CASE LinkStep
    BY <1>1, <1>e, LinkKeeps DEF EndsAgree, Waiting
<1>2. CASE LoopStep
    <2>1. core = "receiving" /\ UNCHANGED <<core, disk, job>>
        BY <1>2, LoopKeeps DEF Waiting
    <2>2. Waiting' => undecodable' < MaxUndecodable
        <3>1. TypeOK'
            BY TypeNext DEF IInv
        <3>2. CASE GetBad
            BY <3>1, <3>2, NoiseAssumption DEF GetBad, Waiting, TypeOK
        <3>3. CASE GetResult \/ GetDone \/ GetStream
            BY <1>e, <3>3 DEF GetResult, GetDone, GetStream, Got, EndsAgree, Waiting
        <3> QED
            BY <1>2, <3>2, <3>3 DEF LoopStep
    <2> QED
        BY <1>e, <2>1, <2>2 DEF EndsAgree
<1>3. CASE DeadlinePasses \/ LinkFails
    BY <1>3, <1>e DEF DeadlinePasses, LinkFails, EndsAgree, Waiting
<1>4. CASE SetupFails
    BY <1>4, <1>e DEF SetupFails, EndsAgree, Waiting, linkVars, loopVars
<1>s. CASE Start
    <2>1. disk'.file = "partial" /\ core' = "receiving" /\ job' = job /\ core = "setup"
        BY <1>s, <1>t DEF Start, TypeOK
    <2> QED
        BY <1>s, <1>e, <2>1, NoiseAssumption DEF Start, EndsAgree, Waiting
<1>5. CASE Seal \/ Finish \/ FinishFails
    BY <1>5, <1>e DEF Seal, Finish, FinishFails, EndsAgree, Waiting, linkVars, loopVars
<1>6. CASE Complete \/ FailJob \/ Restart
    BY <1>6, <1>e DEF Complete, FailJob, Restart, EndsAgree, Waiting, linkVars, loopVars
<1>7. CASE UNCHANGED vars
    BY <1>7, <1>e DEF EndsAgree, Waiting, vars, linkVars, loopVars
<1> QED
    BY <1>1, <1>2, <1>3, <1>4, <1>s, <1>5, <1>6, <1>7, NextParts DEF EndStep

\* Once outside of Waiting, nothing changes that a completed study's file is about.
LEMMA CompletedNext == IInv /\ [Next]_vars => CompletedIsWhole'
<1> SUFFICES ASSUME IInv, [Next]_vars PROVE CompletedIsWhole'
    OBVIOUS
<1> USE DEF Whole, linkVars, loopVars
<1>c. CompletedIsWhole /\ EndsAgree /\ TypeOK /\ TypeOK'
    BY TypeNext DEF IInv
<1>1. CASE LinkStep
    <2>1. outcome' = "none" /\ core' = "receiving" /\ disk'.file # "final"
        BY <1>1, <1>c, LinkKeeps DEF EndsAgree, Waiting
    <2> QED
        BY <2>1 DEF CompletedIsWhole
<1>2. CASE LoopStep
    <2>1. core' = "receiving" /\ disk'.file # "final" /\ UNCHANGED <<garbled, lost, excused>>
        BY <1>2, <1>c, LoopKeeps DEF EndsAgree, Waiting, LinkOtherThanWire
    <2>2. ASSUME outcome' = "completed"
          PROVE  Whole(writer.steps)' /\ lost' \subseteq excused' \cup marked'
        <3>1. GetDone /\ Head(wire).kind = "done" /\ Head(wire).flag /\ UNCHANGED <<writer, marked>>
            BY <1>2, <2>2 DEF LoopStep, GetResult, GetDone, GetStream, GetBad, Got, Waiting
        <3>2. 1 \in DOMAIN wire /\ Head(wire) = wire[1] /\ Len(wire) = 1 /\ DOMAIN wire = {1}
            <4>1. wire # <<>> /\ wire' = Tail(wire)
                BY <1>2, LoopKeeps
            <4>2. 1 \in DOMAIN wire /\ Head(wire) = wire[1] /\ wire \in Seq(OnWire)
                BY <1>c, <4>1, TakeEffect DEF TypeOK
            <4>3. Len(wire) = 1
                BY <3>1, <4>2 DEF IInv, WireIsInOrder
            <4> QED
                BY <4>2, <4>3
        <3>3. Waiting /\ bench.stage = "done" /\ bench.step = Len(Timeout)
            BY <1>2, <3>1, <3>2, LoopKeeps DEF IInv, WireIsInOrder
        <3>4. \A s \in Step : Reported(s)
            BY <3>3, StepAssumption DEF Step, Reported
        <3>5. \A s \in Step \ garbled : \E k \in DOMAIN writer.steps : writer.steps[k] = s
            BY <3>1, <3>2, <3>3, <3>4 DEF IInv, ResultsAreUnderWay, Result
        <3>6. \A k \in DOMAIN writer.steps : writer.steps[k] \in Step \ garbled
            BY <1>c DEF IInv, RecordIsInOrder, TypeOK
        <3>7. Whole(writer.steps)
            BY <3>5, <3>6 DEF IInv, RecordIsInOrder, ToSet
        <3>8. lost \subseteq excused \cup marked
            BY <3>1, <3>2, <3>3 DEF IInv, LossIsUnderWay, MarksAt
        <3> QED
            BY <2>1, <3>1, <3>7, <3>8
    <2> QED
        BY <2>1, <2>2 DEF CompletedIsWhole
<1>3. CASE DeadlinePasses \/ LinkFails
    BY <1>3, <1>c DEF DeadlinePasses, LinkFails, CompletedIsWhole, EndsAgree, Waiting
<1>4. CASE SetupFails \/ Start
    <2>1. outcome = "none" /\ disk.file # "final" /\ disk'.file # "final" /\ core' # "sealed"
        BY <1>4, <1>c DEF SetupFails, Start, EndsAgree, TypeOK
    <2>2. outcome' # "completed"
        BY <1>4, <2>1 DEF SetupFails, Start
    <2> QED
        BY <2>1, <2>2 DEF CompletedIsWhole
<1>5. CASE Seal
    BY <1>5, <1>c DEF Seal, CompletedIsWhole, EndsAgree, TypeOK
<1>6. CASE Finish
    BY <1>6, <1>c DEF Finish, CompletedIsWhole
<1>7. CASE FinishFails \/ Complete \/ FailJob \/ Restart
    BY <1>7, <1>c DEF FinishFails, Complete, FailJob, Restart, CompletedIsWhole
<1>8. CASE UNCHANGED vars
    BY <1>8, <1>c DEF CompletedIsWhole, vars
<1> QED
    BY <1>1, <1>2, <1>3, <1>4, <1>5, <1>6, <1>7, <1>8, NextParts DEF EndStep

-----------------------------------------------------------------------------
(* The order of the results                                                *)

\* A result that is sent, and what becomes of the bench.
LEMMA ReportEffect ==
    ASSUME TypeOK, NEW ok \in BOOLEAN, BenchReports(ok)
    PROVE  \E f \in OnWire :
              /\ Send(f) /\ f.kind = "result" /\ f.step = bench.step /\ f.flag = ok /\ f.age = 0
              /\ bench.stage = "running" /\ bench'.stage \in {"running", "passed", "stopped"}
              /\ bench'.step \in {bench.step, bench.step + 1}
              /\ bench'.stage = "running" <=> bench'.step = bench.step + 1
              /\ bench'.stage = "passed" => bench'.step = Len(Timeout)
              /\ bench'.stage = "stopped" => ~ok
              /\ UNCHANGED <<garbled, coreVars>>
<1> DEFINE f == Frame("result", bench.step, NoTap, ok)
<1>1. /\ bench.step \in Nat /\ bench.step + 1 # bench.step /\ bench.step \in 1 .. Last1
    <2>1. bench.step \in Step /\ Step = 1 .. Len(Timeout) /\ Len(Timeout) \in Nat
        BY StepAssumption DEF TypeOK, Step
    <2> QED
        BY <2>1 DEF Last1
<1>2. f \in OnWire /\ f.kind = "result" /\ f.step = bench.step /\ f.flag = ok /\ f.age = 0
    BY <1>1, TimeAssumption DEF Frame, OnWire
<1>3. Send(f) /\ bench.stage = "running" /\ UNCHANGED <<garbled, coreVars>>
    BY DEF BenchReports
<1>4. /\ bench'.stage \in {"running", "passed", "stopped"}
      /\ bench'.step \in {bench.step, bench.step + 1}
      /\ bench'.stage = "running" <=> bench'.step = bench.step + 1
      /\ bench'.stage = "passed" => bench'.step = Len(Timeout)
      /\ bench'.stage = "stopped" => ~ok
    BY <1>1 DEF BenchReports
<1> QED
    BY <1>2, <1>3, <1>4

\* The StudyDone.
LEMMA DoneEffect ==
    ASSUME TypeOK, BenchIsDone
    PROVE  \E f \in OnWire :
              /\ Send(f) /\ f.kind = "done" /\ f.step = Last1 /\ f.age = 0
              /\ f.flag = (bench.stage = "passed")
              /\ bench.stage \in {"passed", "stopped"}
              /\ bench'.stage = "done" /\ bench'.step = bench.step
              /\ UNCHANGED <<garbled, coreVars>>
<1> DEFINE f == Frame("done", Last1, NoTap, bench.stage = "passed")
<1>1. Last1 \in 1 .. Last1
    BY StepAssumption DEF Last1
<1>2. /\ f \in OnWire /\ f.kind = "done" /\ f.step = Last1 /\ f.age = 0
      /\ f.flag = (bench.stage = "passed")
    BY <1>1, TimeAssumption DEF Frame, OnWire
<1> QED
    BY <1>2 DEF BenchIsDone, TypeOK

\* All else that the bench sends.
LEMMA QuietEffect ==
    ASSUME (\E t \in Tap : BenchStreams(t)) \/ BenchLogs
    PROVE  \E f \in OnWire :
              /\ Send(f) /\ f.kind \in {"open", "chunk", "close", "log"}
              /\ bench.stage # "done" /\ UNCHANGED <<bench, garbled, coreVars>>
<1>1. 1 \in 1 .. Last1
    BY StepAssumption DEF Last1
<1>2. \A kind \in {"open", "chunk", "close"}, t \in Tap, flag \in BOOLEAN :
        Frame(kind, 1, t, flag) \in OnWire /\ Frame(kind, 1, t, flag).kind = kind
    BY <1>1, TimeAssumption DEF Frame, OnWire
<1>3. Frame("log", 1, NoTap, TRUE) \in OnWire /\ Frame("log", 1, NoTap, TRUE).kind = "log"
    BY <1>1, TimeAssumption DEF Frame, OnWire
<1> QED
    BY <1>2, <1>3 DEF BenchStreams, BenchLogs

\* The place that frame k had, before those from i to j became one.
Origin(k, i, j) == IF k < i THEN k ELSE k + (j - i)

LEMMA Origins ==
    ASSUME TypeOK, NEW i \in DOMAIN wire, NEW j \in DOMAIN wire, Garble(i, j)
    PROVE  /\ \A k \in DOMAIN wire' : wire'[k].kind # "bad" =>
                /\ Origin(k, i, j) \in DOMAIN wire
                /\ wire'[k] = wire[Origin(k, i, j)]
                /\ Origin(k, i, j) \notin {i, j}
           /\ \A k, l \in DOMAIN wire' : k < l => Origin(k, i, j) < Origin(l, i, j)
<1>0. i \in Nat
    BY DEF TypeOK
<1>1. /\ i \in Nat /\ j \in {i, i + 1} /\ wire'[i].kind = "bad" /\ wire' \in Seq(OnWire)
      /\ \A k \in DOMAIN wire' :
            /\ k < i => k \in DOMAIN wire /\ wire'[k] = wire[k]
            /\ k > i => k + (j - i) \in DOMAIN wire /\ wire'[k] = wire[k + (j - i)]
    BY <1>0, GarbleEffect
<1>2. \A k \in DOMAIN wire' : k \in Nat
    BY <1>1
<1>3. ASSUME NEW k \in DOMAIN wire', wire'[k].kind # "bad"
      PROVE  /\ Origin(k, i, j) \in DOMAIN wire /\ wire'[k] = wire[Origin(k, i, j)]
             /\ Origin(k, i, j) \notin {i, j}
    <2>1. k \in Nat /\ (k < i \/ k > i)
        BY <1>1, <1>2, <1>3
    <2> QED
        <3>1. CASE k < i
            BY <1>1, <2>1, <3>1 DEF Origin
        <3>2. CASE k > i
            <4>1. Origin(k, i, j) = k + (j - i) /\ k + (j - i) > i /\ k + (j - i) > j
                BY <1>1, <2>1, <3>2 DEF Origin
            <4> QED
                BY <1>1, <3>2, <4>1
        <3> QED
            BY <2>1, <3>1, <3>2
<1>4. \A k, l \in DOMAIN wire' : k < l => Origin(k, i, j) < Origin(l, i, j)
    BY <1>1, <1>2 DEF Origin
<1> QED
    BY <1>3, <1>4

LEMMA OrderNext == IInv /\ [Next]_vars => WireIsInOrder'
<1> SUFFICES ASSUME IInv, [Next]_vars PROVE WireIsInOrder'
    OBVIOUS
<1> USE DEF Result
<1>t. TypeOK /\ WireIsInOrder /\ BenchTyped /\ WireTyped /\ WatchTyped /\ LossTyped
    BY TypeParts DEF IInv
<1>s. Step = 1 .. Len(Timeout) /\ Len(Timeout) \in Nat \ {0} /\ Last1 = Len(Timeout) + 1
    BY StepAssumption DEF Step, Last1
<1>b. bench.step \in Nat /\ next \in Nat /\ garbled \subseteq Nat
    BY <1>s, <1>t DEF BenchTyped, WatchTyped, LossTyped
<1>w. \A k \in DOMAIN wire : k \in Nat /\ wire[k].step \in Nat /\ wire[k].flag \in BOOLEAN
    <2>1. wire \in Seq(OnWire)
        BY <1>t DEF WireTyped
    <2>2. \A k \in DOMAIN wire : k \in Nat /\ wire[k] \in OnWire
        BY <2>1
    <2> QED
        BY <1>s, <2>2 DEF OnWire
<1>1. ASSUME NEW ok \in BOOLEAN, BenchReports(ok) PROVE WireIsInOrder'
    <2>1. PICK f \in OnWire :
            /\ Send(f) /\ f.kind = "result" /\ f.step = bench.step
            /\ bench.stage = "running" /\ bench'.stage # "done"
            /\ bench'.step \in {bench.step, bench.step + 1}
            /\ bench'.stage = "running" => bench'.step = bench.step + 1
            /\ bench'.stage = "passed" => bench'.step = Len(Timeout)
            /\ UNCHANGED <<next, garbled>>
        BY <1>1, <1>t, ReportEffect DEF coreVars, loopVars
    <2>2. /\ DOMAIN wire' = DOMAIN wire \cup {Len(wire) + 1} /\ Len(wire) \in Nat
          /\ \A k \in DOMAIN wire : k <= Len(wire) /\ wire'[k] = wire[k]
          /\ wire'[Len(wire) + 1] = f
        BY <1>t, <2>1, SendEffect
    <2>3. \A k \in DOMAIN wire : Result(k) => wire[k].step < bench.step
        BY <1>t, <2>1 DEF WireIsInOrder
    <2> QED
        BY <1>t, <1>b, <1>w, <2>1, <2>2, <2>3 DEF WireIsInOrder
<1>2. ASSUME BenchIsDone PROVE WireIsInOrder'
    <2>1. PICK f \in OnWire :
            /\ Send(f) /\ f.kind = "done" /\ f.step = Last1 /\ f.flag = (bench.stage = "passed")
            /\ bench.stage \in {"passed", "stopped"}
            /\ bench'.step = bench.step /\ bench'.stage = "done" /\ UNCHANGED <<next, garbled>>
        BY <1>2, <1>t, DoneEffect DEF coreVars, loopVars
    <2>2. /\ DOMAIN wire' = DOMAIN wire \cup {Len(wire) + 1} /\ Len(wire') = Len(wire) + 1
          /\ \A k \in DOMAIN wire : k <= Len(wire) /\ wire'[k] = wire[k]
          /\ wire'[Len(wire) + 1] = f
        BY <1>t, <2>1, SendEffect
    <2> QED
        BY <1>t, <1>b, <1>w, <2>1, <2>2 DEF WireIsInOrder
<1>3. ASSUME BenchGoesAstray PROVE WireIsInOrder'
    <2>1. /\ bench'.step = bench.step /\ bench'.stage = "astray" /\ bench.stage # "done"
          /\ UNCHANGED <<wire, next, garbled>>
        BY <1>3, <1>t DEF BenchGoesAstray, BenchTyped, coreVars, loopVars
    <2> QED
        BY <1>t, <2>1 DEF WireIsInOrder
<1>4. ASSUME (\E t \in Tap : BenchStreams(t)) \/ BenchLogs PROVE WireIsInOrder'
    <2>1. PICK f \in OnWire :
            /\ Send(f) /\ f.kind \notin {"result", "done"}
            /\ bench.stage # "done" /\ UNCHANGED <<bench, next, garbled>>
        BY <1>4, QuietEffect DEF coreVars, loopVars
    <2>2. /\ DOMAIN wire' = DOMAIN wire \cup {Len(wire) + 1}
          /\ \A k \in DOMAIN wire : wire'[k] = wire[k]
          /\ wire'[Len(wire) + 1] = f
        BY <1>t, <2>1, SendEffect
    <2> QED
        BY <1>t, <2>1, <2>2 DEF WireIsInOrder
<1>5. ASSUME NEW i \in DOMAIN wire, NEW j \in DOMAIN wire, Garble(i, j) PROVE WireIsInOrder'
    <2> DEFINE o(k) == Origin(k, i, j)
    <2>1. /\ \A k \in DOMAIN wire' : wire'[k].kind # "bad" =>
                o(k) \in DOMAIN wire /\ wire'[k] = wire[o(k)] /\ o(k) \notin {i, j}
          /\ \A k, l \in DOMAIN wire' : k < l => o(k) < o(l)
        BY <1>t, <1>5, Origins
    <2>2. /\ garbled' = garbled \cup
                {wire[k].step : k \in {m \in {i, j} : wire[m].kind \in {"result", "done"}}}
          /\ UNCHANGED <<bench, next>>
        BY <1>t, <1>5, GarbleLosses DEF Garble, coreVars, loopVars
    <2>3. \A k, l \in DOMAIN wire : Result(k) /\ Result(l) /\ wire[k].step = wire[l].step => k = l
        BY <1>t, <1>w DEF WireIsInOrder
    <2>4. \A k, l \in DOMAIN wire : Result(k) /\ wire[l].kind = "done" => wire[k].step # wire[l].step
        BY <1>s, <1>t, <1>b, <1>w DEF WireIsInOrder, BenchTyped
    <2>5. \A k \in DOMAIN wire' : wire'[k].kind = "result" => wire'[k].step \notin garbled'
        BY <1>t, <2>1, <2>2, <2>3, <2>4 DEF WireIsInOrder
    <2>6. \A k \in DOMAIN wire' : wire'[k].kind = "done" => k = Len(wire')
        <3>1. SUFFICES ASSUME NEW k \in DOMAIN wire', wire'[k].kind = "done" PROVE k = Len(wire')
            OBVIOUS
        <3>2. /\ wire' \in Seq(OnWire) /\ Len(wire') = Len(wire) - (j - i) /\ Len(wire) \in Nat
              /\ j \in {i, i + 1} /\ i \in DOMAIN wire'
            BY <1>t, <1>5, GarbleEffect
        <3>3. o(k) = Len(wire) /\ o(k) \notin {i, j}
            BY <1>t, <2>1, <3>1 DEF WireIsInOrder
        <3>4. k \in 1 .. Len(wire') /\ i \in 1 .. Len(wire')
            BY <3>2
        <3> QED
            <4>1. PICK v \in Nat, w \in Nat : v = Len(wire') /\ w = Len(wire)
                BY <3>2
            <4>2. /\ i \in Nat /\ k \in Nat /\ k \in 1 .. v /\ i \in 1 .. v
                  /\ v = w - (j - i) /\ j \in {i, i + 1}
                BY <3>2, <3>4, <4>1
            <4>3. v <= w
                BY <4>2
            <4>4. CASE k < i
                <5>1. o(k) = k
                    BY <4>4 DEF Origin
                <5> QED
                    BY <3>3, <4>1, <4>2, <4>3, <4>4, <5>1
            <4>5. CASE ~(k < i)
                <5>1. k + (j - i) = w
                    BY <3>3, <4>1, <4>5 DEF Origin
                <5> QED
                    BY <4>1, <4>2, <5>1
            <4> QED
                BY <4>4, <4>5
    <2>7. bench.stage = "running" => \A s \in garbled' : s < bench.step
        BY <1>t, <2>2 DEF WireIsInOrder
    <2> QED
        BY <1>t, <2>1, <2>2, <2>5, <2>6, <2>7 DEF WireIsInOrder
<1>6. ASSUME Tick PROVE WireIsInOrder'
    <2>1. /\ bench'.step = bench.step /\ bench'.stage = bench.stage
          /\ UNCHANGED <<next, garbled>>
        BY <1>6, <1>t DEF Tick, BenchTyped
    <2>2. /\ DOMAIN wire' = DOMAIN wire /\ Len(wire') = Len(wire)
          /\ \A k \in DOMAIN wire : /\ wire'[k].kind = wire[k].kind /\ wire'[k].step = wire[k].step
                                    /\ wire'[k].flag = wire[k].flag
        BY <1>t, <1>6, Ageing DEF OnWire
    <2> QED
        BY <1>t, <2>1, <2>2 DEF WireIsInOrder
<1>7. CASE LoopStep
    <2>1. wire # <<>> /\ wire' = Tail(wire) /\ UNCHANGED <<bench, garbled>>
        BY <1>7, LoopKeeps DEF LinkOtherThanWire
    <2>2. /\ Len(wire') = Len(wire) - 1 /\ 1 \in DOMAIN wire /\ Head(wire) = wire[1]
          /\ \A k \in DOMAIN wire' : k \in Nat /\ k + 1 \in DOMAIN wire /\ wire'[k] = wire[k + 1]
        BY <1>t, <2>1, TakeEffect
    <2>3. \A k \in DOMAIN wire' : 1 < k + 1
        <3>1. wire' \in Seq(OnWire)
            BY <1>t, <2>1, TakeEffect
        <3> QED
            BY <3>1
    <2>4. \/ next' = next
          \/ next' = wire[1].step + 1 /\ Result(1)
        BY <1>7, <2>2 DEF LoopStep, GetResult, GetDone, GetStream, GetBad, Got, AdvanceStepCounters
    <2>5. \A k \in DOMAIN wire' : wire'[k].kind = "result" => next' <= wire'[k].step
        BY <1>t, <1>b, <1>w, <2>2, <2>3, <2>4 DEF WireIsInOrder
    <2>6. bench.stage = "running" => next' <= bench.step
        BY <1>t, <1>b, <1>w, <2>2, <2>4 DEF WireIsInOrder
    <2>7. \A k, l \in DOMAIN wire' : k < l => k + 1 < l + 1
        BY <2>2
    <2>8. \A k \in DOMAIN wire' : wire'[k].kind = "done" => k = Len(wire')
        BY <1>t, <2>2 DEF WireIsInOrder
    <2> QED
        BY <1>t, <2>1, <2>2, <2>5, <2>6, <2>7, <2>8 DEF WireIsInOrder
<1>8. ASSUME UNCHANGED <<bench, wire, next, garbled>> PROVE WireIsInOrder'
    BY <1>8, <1>t DEF WireIsInOrder
<1>9. CASE LinkStep
    BY <1>1, <1>2, <1>3, <1>4, <1>5, <1>6, <1>9 DEF LinkStep
<1>10. CASE DeadlinePasses \/ LinkFails \/ EndStep \/ Restart \/ UNCHANGED vars
    BY <1>8, <1>10 DEF DeadlinePasses, LinkFails, EndStep, SetupFails, Start, Seal, Finish,
       FinishFails, Complete, FailJob, Restart, vars, linkVars, loopVars
<1> QED
    BY <1>7, <1>9, <1>10, NextParts

\* A frame that is not among those from i to j has a place afterwards.
LEMMA Kept ==
    ASSUME TypeOK, NEW i \in DOMAIN wire, NEW j \in DOMAIN wire, Garble(i, j)
    PROVE  \A k \in DOMAIN wire : k \notin {i, j} =>
                \E m \in DOMAIN wire' : Origin(m, i, j) = k /\ wire'[m] = wire[k]
<1>0. wire \in Seq(OnWire) /\ \A k \in DOMAIN wire : k \in Nat
    BY DEF TypeOK
<1>1. /\ j \in {i, i + 1}
      /\ \A k \in DOMAIN wire :
            /\ k < i => k \in DOMAIN wire' /\ wire'[k] = wire[k]
            /\ k > j => k - (j - i) \in DOMAIN wire' /\ wire'[k - (j - i)] = wire[k]
    BY <1>0, GarbleEffect
<1> SUFFICES ASSUME NEW k \in DOMAIN wire, k \notin {i, j}
             PROVE  \E m \in DOMAIN wire' : Origin(m, i, j) = k /\ wire'[m] = wire[k]
    OBVIOUS
<1>2. CASE k < i
    BY <1>1, <1>2 DEF Origin
<1>3. CASE k > j
    <2>1. ~(k - (j - i) < i) /\ k - (j - i) + (j - i) = k
        <3>1. i \in Nat /\ j \in Nat /\ k \in Nat /\ (j = i \/ j = i + 1)
            BY <1>0, <1>1
        <3> QED
            BY <1>3, <3>1
    <2> QED
        BY <1>1, <1>3, <2>1 DEF Origin
<1> QED
    BY <1>0, <1>1, <1>2, <1>3

LEMMA RecordNext == IInv /\ [Next]_vars => RecordIsInOrder'
<1> SUFFICES ASSUME IInv, [Next]_vars PROVE RecordIsInOrder'
    OBVIOUS
<1> USE DEF Result
<1>t. TypeOK /\ WireIsInOrder /\ RecordIsInOrder /\ WriterTyped
    BY TypeParts DEF IInv
<1>s. Step = 1 .. Len(Timeout) /\ Len(Timeout) \in Nat \ {0} /\ Last1 = Len(Timeout) + 1
    BY StepAssumption DEF Step, Last1
<1>n. next \in Nat /\ next <= Last1
    BY <1>s, <1>t DEF TypeOK
<1>w. /\ writer.steps \in Seq(Step)
      /\ \A k \in DOMAIN writer.steps : writer.steps[k] \in Step /\ writer.steps[k] < next
    BY <1>t DEF WriterTyped, RecordIsInOrder
<1>1. CASE UNCHANGED <<writer, next, garbled>>
    BY <1>1, <1>t DEF RecordIsInOrder, Ascending
<1>2. ASSUME NEW i \in DOMAIN wire, NEW j \in DOMAIN wire, Garble(i, j) PROVE RecordIsInOrder'
    <2>1. UNCHANGED <<writer, next>>
        BY <1>2 DEF Garble, coreVars, loopVars
    <2>2. garbled' = garbled \cup
            {wire[k].step : k \in {m \in {i, j} : wire[m].kind \in {"result", "done"}}}
        BY <1>2, <1>t, GarbleLosses
    <2>3. \A k \in DOMAIN wire : wire[k].kind \in {"result", "done"} =>
            \A m \in DOMAIN writer.steps : writer.steps[m] # wire[k].step
        <3>1. \A k \in DOMAIN wire : wire[k].kind = "result" =>
                wire[k].step \in Step /\ next <= wire[k].step
            BY <1>t DEF WireIsInOrder, TypeOK
        <3>2. \A k \in DOMAIN wire : wire[k].kind = "done" => wire[k].step = Last1
            BY <1>t DEF WireIsInOrder
        <3> QED
            BY <1>s, <1>n, <1>w, <3>1, <3>2
    <2> QED
        BY <1>t, <2>1, <2>2, <2>3 DEF RecordIsInOrder, Ascending
<1>3. CASE GetResult
    <2>1. wire # <<>> /\ UNCHANGED garbled
        BY <1>3, LoopKeeps DEF LoopStep, LinkOtherThanWire
    <2>2. 1 \in DOMAIN wire /\ Head(wire) = wire[1] /\ Result(1)
        BY <1>3, <1>t, <2>1 DEF GetResult, Got, TypeOK
    <2>3. CASE UNCHANGED <<writer, next>>
        BY <1>1, <2>1, <2>3
    <2>4. CASE /\ writer' = [writer EXCEPT !.steps = Append(@, wire[1].step)]
               /\ next' = wire[1].step + 1
        <3>1. wire[1].step \in Step /\ next <= wire[1].step /\ wire[1].step \notin garbled
            BY <1>t, <2>2 DEF WireIsInOrder, TypeOK
        <3>2. writer'.steps = Append(writer.steps, wire[1].step)
            BY <1>t, <2>4 DEF WriterTyped
        <3>3. /\ DOMAIN writer'.steps = DOMAIN writer.steps \cup {Len(writer.steps) + 1}
              /\ \A k \in DOMAIN writer.steps :
                    k <= Len(writer.steps) /\ writer'.steps[k] = writer.steps[k]
              /\ writer'.steps[Len(writer.steps) + 1] = wire[1].step
            BY <1>w, <3>1, <3>2, Sending
        <3>4. \A k \in DOMAIN writer'.steps :
                writer'.steps[k] < next' /\ writer'.steps[k] \notin garbled'
            <4>1. \A k \in DOMAIN writer.steps : writer.steps[k] < next /\ writer.steps[k] \notin garbled
                BY <1>t DEF RecordIsInOrder
            <4>2. \A s \in Step : s < next => s < wire[1].step + 1
                BY <1>s, <1>n, <3>1
            <4>3. ASSUME NEW k \in DOMAIN writer.steps
                  PROVE  writer'.steps[k] < next' /\ writer'.steps[k] \notin garbled'
                BY <1>w, <2>1, <2>4, <3>3, <4>1, <4>2, <4>3
            <4>4. /\ writer'.steps[Len(writer.steps) + 1] < next'
                  /\ writer'.steps[Len(writer.steps) + 1] \notin garbled'
                BY <1>s, <2>1, <2>4, <3>1, <3>3
            <4> QED
                BY <3>3, <4>3, <4>4
        <3>5. \A k, l \in DOMAIN writer'.steps : k < l => writer'.steps[k] < writer'.steps[l]
            <4>1. SUFFICES ASSUME NEW k \in DOMAIN writer'.steps, NEW l \in DOMAIN writer'.steps, k < l
                           PROVE  writer'.steps[k] < writer'.steps[l]
                OBVIOUS
            <4>2. k \in DOMAIN writer.steps
                BY <1>w, <3>3, <4>1
            <4>3. CASE l \in DOMAIN writer.steps
                BY <1>t, <3>3, <4>1, <4>2, <4>3 DEF RecordIsInOrder, Ascending
            <4>4. CASE l = Len(writer.steps) + 1
                BY <1>s, <1>n, <1>w, <3>1, <3>3, <4>2, <4>4
            <4> QED
                BY <3>3, <4>3, <4>4
        <3> QED
            BY <3>4, <3>5 DEF RecordIsInOrder, Ascending
    <2> QED
        BY <1>3, <2>2, <2>3, <2>4 DEF GetResult, AdvanceStepCounters
<1>4. CASE Finish \/ FinishFails \/ Restart
    <2>1. writer'.steps = <<>>
        BY <1>4 DEF Finish, FinishFails, Restart, Emptied
    <2> QED
        BY <2>1 DEF RecordIsInOrder, Ascending
<1>5. CASE Seal
    <2>1. writer'.steps = writer.steps /\ UNCHANGED <<next, garbled>>
        BY <1>5, <1>t DEF Seal, WriterTyped, linkVars, loopVars
    <2> QED
        BY <1>t, <2>1 DEF RecordIsInOrder, Ascending
<1>6. CASE LinkStep
    <2>1. UNCHANGED <<writer, next>>
        BY <1>6, LinkKeeps
    <2>2. UNCHANGED garbled \/ \E i, j \in DOMAIN wire : Garble(i, j)
        BY <1>6 DEF LinkStep, BenchReports, BenchIsDone, BenchGoesAstray, BenchStreams,
           BenchLogs, Tick
    <2> QED
        BY <1>1, <1>2, <2>1, <2>2
<1>7. CASE GetDone \/ GetStream \/ GetBad \/ DeadlinePasses \/ LinkFails \/ SetupFails
           \/ Start \/ Complete \/ FailJob \/ UNCHANGED vars
    BY <1>1, <1>7 DEF GetDone, GetStream, GetBad, DeadlinePasses, LinkFails, SetupFails, Start,
       Complete, FailJob, LinkOtherThanWire, vars, linkVars, loopVars
<1> QED
    BY <1>3, <1>4, <1>5, <1>6, <1>7, NextParts DEF LoopStep, EndStep

LEMMA UnderWayNext == IInv /\ [Next]_vars => ResultsAreUnderWay'
<1> SUFFICES ASSUME IInv, [Next]_vars, Waiting' PROVE ResultsAreUnderWay'
    BY DEF ResultsAreUnderWay
<1> USE DEF Result
<1>t. TypeOK /\ WireIsInOrder /\ BenchTyped /\ WriterTyped /\ EndsAgree
    BY TypeParts DEF IInv
<1>s. Step = 1 .. Len(Timeout) /\ Len(Timeout) \in Nat \ {0} /\ Last1 = Len(Timeout) + 1
    BY StepAssumption DEF Step, Last1
<1>b. bench.step \in Nat
    BY <1>s, <1>t DEF BenchTyped
<1> DEFINE Known(s) == s \in garbled \/ \E k \in DOMAIN writer.steps : writer.steps[k] = s
           Coming(s) == \E k \in DOMAIN wire : Result(k) /\ wire[k].step = s
           DoneComes == \E k \in DOMAIN wire : wire[k].kind = "done"
<1>i. Waiting => /\ \A s \in Step : Reported(s) => Known(s) \/ Coming(s)
                 /\ bench.stage = "done" => Last1 \in garbled \/ DoneComes
    BY DEF IInv, ResultsAreUnderWay
<1>p. SUFFICES /\ \A s \in Step : Reported(s)' => Known(s)' \/ Coming(s)'
               /\ bench'.stage = "done" => Last1 \in garbled' \/ DoneComes'
    BY DEF ResultsAreUnderWay
<1>1. ASSUME NEW f \in OnWire, Send(f), UNCHANGED <<writer, garbled>>,
             \A s \in Step : Reported(s)' => Reported(s) \/ (f.kind = "result" /\ f.step = s),
             bench'.stage = "done" => bench.stage = "done" \/ f.kind = "done"
      PROVE  /\ \A s \in Step : Reported(s)' => Known(s)' \/ Coming(s)'
             /\ bench'.stage = "done" => Last1 \in garbled' \/ DoneComes'
    <2>1. /\ DOMAIN wire' = DOMAIN wire \cup {Len(wire) + 1}
          /\ \A k \in DOMAIN wire : wire'[k] = wire[k]
          /\ wire'[Len(wire) + 1] = f
        BY <1>1, <1>t, SendEffect
    <2>2. Waiting
        BY <1>1 DEF Send
    <2>3. \A s \in Step : Known(s) => Known(s)'
        BY <1>1
    <2>4. \A s \in Step : Coming(s) => Coming(s)'
        BY <2>1
    <2>5. DoneComes => DoneComes'
        BY <2>1
    <2>6. \A s \in Step : f.kind = "result" /\ f.step = s => Coming(s)'
        BY <2>1
    <2>7. f.kind = "done" => DoneComes'
        BY <2>1
    <2> QED
        BY <1>1, <1>i, <2>2, <2>3, <2>4, <2>5, <2>6, <2>7
<1>2. ASSUME NEW ok \in BOOLEAN, BenchReports(ok)
      PROVE  /\ \A s \in Step : Reported(s)' => Known(s)' \/ Coming(s)'
             /\ bench'.stage = "done" => Last1 \in garbled' \/ DoneComes'
    <2>1. PICK f \in OnWire :
            /\ Send(f) /\ f.kind = "result" /\ f.step = bench.step
            /\ bench'.step \in {bench.step, bench.step + 1} /\ bench'.stage # "done"
            /\ bench'.step = bench.step + 1 => bench'.stage = "running"
            /\ UNCHANGED <<writer, garbled>>
        BY <1>2, <1>t, ReportEffect DEF coreVars
    <2>2. \A s \in Step : Reported(s)' => Reported(s) \/ bench.step = s
        BY <1>s, <1>b, <2>1 DEF Reported
    <2> QED
        BY <1>1, <2>1, <2>2
<1>3. ASSUME BenchIsDone
      PROVE  /\ \A s \in Step : Reported(s)' => Known(s)' \/ Coming(s)'
             /\ bench'.stage = "done" => Last1 \in garbled' \/ DoneComes'
    <2>1. PICK f \in OnWire :
            /\ Send(f) /\ f.kind = "done" /\ bench.stage \in {"passed", "stopped"}
            /\ bench'.step = bench.step /\ UNCHANGED <<writer, garbled>>
        BY <1>3, <1>t, DoneEffect DEF coreVars
    <2>2. \A s \in Step : Reported(s)' => Reported(s)
        BY <2>1 DEF Reported
    <2> QED
        BY <1>1, <2>1, <2>2
<1>4. ASSUME BenchGoesAstray \/ Tick
      PROVE  /\ \A s \in Step : Reported(s)' => Known(s)' \/ Coming(s)'
             /\ bench'.stage = "done" => Last1 \in garbled' \/ DoneComes'
    <2>1. Waiting /\ UNCHANGED <<writer, garbled>>
        BY <1>4 DEF BenchGoesAstray, Tick, coreVars, loopVars
    <2>2. bench'.step = bench.step /\ bench'.stage \in {bench.stage, "astray"}
        BY <1>4, <1>t DEF BenchGoesAstray, Tick, BenchTyped
    <2>3. \A s \in Step : Reported(s)' => Reported(s)
        BY <2>2 DEF Reported
    <2>4. /\ DOMAIN wire' = DOMAIN wire
          /\ \A k \in DOMAIN wire : wire'[k].kind = wire[k].kind /\ wire'[k].step = wire[k].step
        <3>1. CASE Tick
            BY <1>t, <3>1, Ageing DEF OnWire
        <3>2. CASE BenchGoesAstray
            BY <3>2 DEF BenchGoesAstray
        <3> QED
            BY <1>4, <3>1, <3>2
    <2> QED
        BY <1>i, <2>1, <2>2, <2>3, <2>4
<1>5. ASSUME NEW i \in DOMAIN wire, NEW j \in DOMAIN wire, Garble(i, j)
      PROVE  /\ \A s \in Step : Reported(s)' => Known(s)' \/ Coming(s)'
             /\ bench'.stage = "done" => Last1 \in garbled' \/ DoneComes'
    <2>1. Waiting /\ UNCHANGED <<bench, writer>>
        BY <1>5 DEF Garble, coreVars, loopVars
    <2>2. garbled' = garbled \cup
            {wire[k].step : k \in {m \in {i, j} : wire[m].kind \in {"result", "done"}}}
        BY <1>5, <1>t, GarbleLosses
    <2>3. \A k \in DOMAIN wire : k \notin {i, j} => \E m \in DOMAIN wire' : wire'[m] = wire[k]
        BY <1>5, <1>t, Kept
    <2>4. \A s \in Step : Known(s) \/ Coming(s) => Known(s)' \/ Coming(s)'
        BY <2>1, <2>2, <2>3
    <2>5. DoneComes => Last1 \in garbled' \/ DoneComes'
        BY <1>t, <2>2, <2>3 DEF WireIsInOrder
    <2> QED
        BY <1>i, <2>1, <2>2, <2>4, <2>5 DEF Reported
<1>6. CASE LoopStep
    <2>1. Waiting /\ wire # <<>> /\ wire' = Tail(wire) /\ UNCHANGED <<bench, garbled>>
        BY <1>6, LoopKeeps DEF LinkOtherThanWire
    <2>2. /\ 1 \in DOMAIN wire /\ Head(wire) = wire[1]
          /\ \A k \in DOMAIN wire : k = 1 \/ (k - 1 \in DOMAIN wire' /\ wire'[k - 1] = wire[k])
        BY <1>t, <2>1, TakeEffect
    <2>3. wire[1].kind # "done"
        BY <1>6, <2>2 DEF LoopStep, GetResult, GetDone, GetStream, GetBad, Got, Waiting
    <2>4. DoneComes => DoneComes'
        BY <2>2, <2>3
    <2>5. ASSUME NEW s \in Step, Known(s) \/ Coming(s) PROVE Known(s)' \/ Coming(s)'
        <3>1. CASE wire[1].kind # "result"
            <4>1. UNCHANGED writer
                BY <1>6, <2>2, <3>1 DEF LoopStep, GetResult, GetDone, GetStream, GetBad, Got
            <4> QED
                BY <2>1, <2>2, <2>5, <3>1, <4>1
        <3>2. CASE wire[1].kind = "result"
            <4>1. writer' = [writer EXCEPT !.steps = Append(@, wire[1].step)]
                BY <1>6, <2>2, <3>2 DEF LoopStep, GetResult, GetDone, GetStream, GetBad, Got,
                   Waiting
            <4>2. writer'.steps = Append(writer.steps, wire[1].step) /\ wire[1].step \in Step
                  /\ writer.steps \in Seq(Step)
                BY <1>t, <2>2, <3>2, <4>1 DEF WriterTyped, TypeOK
            <4>3. /\ DOMAIN writer'.steps = DOMAIN writer.steps \cup {Len(writer.steps) + 1}
                  /\ \A k \in DOMAIN writer.steps : writer'.steps[k] = writer.steps[k]
                  /\ writer'.steps[Len(writer.steps) + 1] = wire[1].step
                BY <4>2, Sending
            <4>4. Known(s) \/ wire[1].step = s => Known(s)'
                BY <2>1, <4>3
            <4> QED
                BY <2>2, <2>5, <4>4
        <3> QED
            BY <3>1, <3>2
    <2> QED
        BY <1>i, <2>1, <2>4, <2>5 DEF Reported
<1>7. CASE Start
    <2>1. bench'.step = 1 /\ bench'.stage = "running"
        BY <1>7, <1>t DEF Start, EndsAgree, linkVars
    <2> QED
        BY <1>s, <2>1 DEF Reported
<1>8. CASE UNCHANGED <<bench, wire, garbled, writer>> /\ Waiting
    BY <1>8, <1>i DEF Reported
<1>9. CASE LinkStep
    <2>1. ASSUME (\E t \in Tap : BenchStreams(t)) \/ BenchLogs
          PROVE  /\ \A s \in Step : Reported(s)' => Known(s)' \/ Coming(s)'
                 /\ bench'.stage = "done" => Last1 \in garbled' \/ DoneComes'
        <3>1. PICK f \in OnWire : Send(f) /\ UNCHANGED <<bench, writer, garbled>>
            BY <2>1, QuietEffect DEF coreVars
        <3> QED
            BY <1>1, <3>1 DEF Reported
    <2> QED
        BY <1>2, <1>3, <1>4, <1>5, <1>9, <2>1 DEF LinkStep
<1>10. CASE DeadlinePasses \/ LinkFails \/ SetupFails \/ Seal \/ Finish \/ FinishFails
            \/ Complete \/ FailJob \/ Restart
    <2>1. ~Waiting'
        BY <1>10, <1>t DEF DeadlinePasses, LinkFails, SetupFails, Seal, Finish, FinishFails,
           Complete,
           FailJob, Restart, Waiting
    <2> QED
        BY <2>1
<1>11. CASE UNCHANGED vars
    BY <1>8, <1>11 DEF vars, linkVars, loopVars, Waiting
<1> QED
    BY <1>6, <1>7, <1>9, <1>10, <1>11, NextParts DEF EndStep

-----------------------------------------------------------------------------
(* The reason of an early stop                                             *)

\* While every result arrives, the reason stays on its way or where it is kept.
StopIsOnTheWay ==
    /\ \A k \in DOMAIN wire : wire[k].kind = "done" /\ ~wire[k].flag => StopShows
    /\ bench.stage = "stopped" => StopShows

LEMMA StopOnTheWayNext ==
    IInv /\ [Next]_vars /\ Waiting /\ Waiting' /\ garbled' = {} => StopIsOnTheWay'
<1> SUFFICES ASSUME IInv, [Next]_vars, Waiting, Waiting', garbled' = {} PROVE StopIsOnTheWay'
    OBVIOUS
<1> USE DEF Result
<1>t. TypeOK /\ WireIsInOrder /\ BenchTyped
    BY TypeParts DEF IInv
<1>n. /\ bench.step \in Nat
      /\ \A k \in DOMAIN wire : k \in Nat /\ wire[k].step \in Nat /\ wire[k].flag \in BOOLEAN
    <2>1. wire \in Seq(OnWire) /\ bench.step \in Nat
        BY <1>t, StepAssumption DEF TypeOK, BenchTyped, Step
    <2>2. \A k \in DOMAIN wire : k \in Nat /\ wire[k] \in OnWire
        BY <2>1
    <2>3. Last1 \in Nat
        BY StepAssumption DEF Last1
    <2> QED
        BY <2>1, <2>2, <2>3 DEF OnWire
<1>i. garbled = {} => StopIsOnTheWay
    BY DEF IInv, StopIsUnderWay, StopIsOnTheWay
<1>1. ASSUME NEW f \in OnWire, Send(f), f.kind # "result",
             bench'.step = bench.step, UNCHANGED <<stopping, garbled>>
      PROVE  /\ DOMAIN wire' = DOMAIN wire \cup {Len(wire) + 1}
             /\ \A k \in DOMAIN wire : wire'[k] = wire[k]
             /\ wire'[Len(wire) + 1] = f
             /\ StopShows => StopShows'
    <2>1. /\ DOMAIN wire' = DOMAIN wire \cup {Len(wire) + 1}
          /\ \A k \in DOMAIN wire : wire'[k] = wire[k]
          /\ wire'[Len(wire) + 1] = f
        BY <1>1, <1>t, SendEffect
    <2> QED
        BY <1>1, <2>1 DEF StopShows
<1>2. ASSUME NEW ok \in BOOLEAN, BenchReports(ok) PROVE StopIsOnTheWay'
    <2>1. PICK f \in OnWire :
            /\ Send(f) /\ f.kind = "result" /\ f.step = bench.step /\ f.flag = ok
            /\ bench.stage = "running" /\ bench'.stage \in {"running", "passed", "stopped"}
            /\ bench'.step \in {bench.step, bench.step + 1}
            /\ bench'.stage = "running" <=> bench'.step = bench.step + 1
            /\ bench'.stage = "stopped" => ~ok
        BY <1>2, <1>t, ReportEffect
    <2>2. /\ DOMAIN wire' = DOMAIN wire \cup {Len(wire) + 1}
          /\ \A k \in DOMAIN wire : wire'[k] = wire[k]
          /\ wire'[Len(wire) + 1] = f
        BY <1>t, <2>1, SendEffect
    <2>3. \A k \in DOMAIN wire' : wire'[k].kind # "done"
        BY <1>t, <2>1, <2>2 DEF WireIsInOrder
    <2>4. bench'.stage = "stopped" => StopShows'
        BY <2>1, <2>2 DEF StopShows
    <2> QED
        BY <2>3, <2>4 DEF StopIsOnTheWay
<1>3. ASSUME BenchIsDone PROVE StopIsOnTheWay'
    <2>1. PICK f \in OnWire :
            /\ Send(f) /\ f.kind = "done" /\ f.flag = (bench.stage = "passed")
            /\ bench.stage \in {"passed", "stopped"}
            /\ bench'.step = bench.step /\ bench'.stage = "done" /\ UNCHANGED <<stopping, garbled>>
        BY <1>3, <1>t, DoneEffect DEF coreVars, loopVars
    <2>2. /\ DOMAIN wire' = DOMAIN wire \cup {Len(wire) + 1}
          /\ \A k \in DOMAIN wire : wire'[k] = wire[k]
          /\ wire'[Len(wire) + 1] = f
          /\ StopShows => StopShows'
        BY <1>1, <2>1
    <2>3. \A k \in DOMAIN wire : wire[k].kind # "done"
        BY <1>t, <2>1 DEF WireIsInOrder
    <2>4. ~f.flag => bench.stage = "stopped"
        BY <2>1
    <2>5. ~f.flag => StopShows'
        BY <1>i, <2>1, <2>2, <2>4 DEF StopIsOnTheWay
    <2> QED
        BY <2>1, <2>2, <2>3, <2>5 DEF StopIsOnTheWay
<1>4. ASSUME (\E t \in Tap : BenchStreams(t)) \/ BenchLogs PROVE StopIsOnTheWay'
    <2>1. PICK f \in OnWire :
            /\ Send(f) /\ f.kind \in {"open", "chunk", "close", "log"}
            /\ UNCHANGED <<bench, stopping, garbled>>
        BY <1>4, QuietEffect DEF coreVars, loopVars
    <2> QED
        BY <1>1, <1>i, <2>1 DEF StopIsOnTheWay
<1>5. ASSUME BenchGoesAstray PROVE StopIsOnTheWay'
    <2>1. bench.stage # "done" /\ bench'.stage = "astray" /\ wire' = wire
        BY <1>5, <1>t DEF BenchGoesAstray, BenchTyped
    <2> QED
        BY <1>t, <2>1 DEF WireIsInOrder, StopIsOnTheWay
<1>6. ASSUME Tick PROVE StopIsOnTheWay'
    <2>1. /\ bench'.step = bench.step /\ bench'.stage = bench.stage
          /\ UNCHANGED <<stopping, garbled>>
        BY <1>6, <1>t DEF Tick, BenchTyped
    <2>2. /\ DOMAIN wire' = DOMAIN wire
          /\ \A k \in DOMAIN wire : /\ wire'[k].kind = wire[k].kind /\ wire'[k].step = wire[k].step
                                    /\ wire'[k].flag = wire[k].flag
        BY <1>t, <1>6, Ageing DEF OnWire
    <2>3. StopShows => StopShows'
        BY <2>1, <2>2 DEF StopShows
    <2> QED
        BY <1>i, <2>1, <2>2, <2>3 DEF StopIsOnTheWay
<1>7. ASSUME NEW i \in DOMAIN wire, NEW j \in DOMAIN wire, Garble(i, j) PROVE StopIsOnTheWay'
    <2>1. UNCHANGED <<bench, stopping>>
        BY <1>7 DEF Garble, coreVars, loopVars
    <2>2. garbled' = garbled \cup
            {wire[k].step : k \in {m \in {i, j} : wire[m].kind \in {"result", "done"}}}
        BY <1>7, <1>t, GarbleLosses
    <2>3. garbled = {} /\ \A k \in {i, j} : wire[k].kind \notin {"result", "done"}
        BY <2>2
    <2>4. \A k \in DOMAIN wire : k \notin {i, j} => \E m \in DOMAIN wire' : wire'[m] = wire[k]
        BY <1>7, <1>t, Kept
    <2>5. \A k \in DOMAIN wire' : wire'[k].kind # "bad" =>
            \E m \in DOMAIN wire : wire'[k] = wire[m]
        BY <1>7, <1>t, Origins
    <2>6. StopShows => StopShows'
        BY <2>1, <2>3, <2>4, <2>5 DEF StopShows
    <2> QED
        BY <1>i, <2>1, <2>3, <2>5, <2>6 DEF StopIsOnTheWay
<1>8. CASE LoopStep
    <2>1. wire # <<>> /\ wire' = Tail(wire) /\ UNCHANGED <<bench, garbled>>
        BY <1>8, LoopKeeps DEF LinkOtherThanWire
    <2>2. /\ 1 \in DOMAIN wire /\ Head(wire) = wire[1]
          /\ \A k \in DOMAIN wire' : k + 1 \in DOMAIN wire /\ 1 < k + 1 /\ wire'[k] = wire[k + 1]
          /\ \A k \in DOMAIN wire : k = 1 \/ (k - 1 \in DOMAIN wire' /\ wire'[k - 1] = wire[k])
        <3>1. \A k \in DOMAIN wire' : 1 < k + 1
            <4>1. wire' \in Seq(OnWire)
                BY <1>t, <2>1, TakeEffect
            <4> QED
                BY <4>1
        <3> QED
            BY <1>t, <2>1, <3>1, TakeEffect
    <2>3. ASSUME StopShows PROVE StopShows'
        <3>1. CASE wire[1].kind # "result"
            <4>1. UNCHANGED stopping
                BY <1>8, <2>2, <3>1 DEF LoopStep, GetResult, GetDone, GetStream, GetBad, Got
            <4> QED
                <5>1. ASSUME NEW k \in DOMAIN wire, Result(k), wire[k].step = bench.step, ~wire[k].flag
                      PROVE  StopShows'
                    <6>1. k - 1 \in DOMAIN wire' /\ wire'[k - 1] = wire[k]
                        BY <2>2, <3>1, <5>1
                    <6> QED
                        BY <2>1, <5>1, <6>1 DEF StopShows
                <5>2. ASSUME stopping = bench.step, \A k \in DOMAIN wire : ~Result(k) PROVE StopShows'
                    <6>1. \A k \in DOMAIN wire' : wire'[k].kind # "result"
                        BY <2>2, <5>2
                    <6> QED
                        BY <2>1, <4>1, <5>2, <6>1 DEF StopShows
                <5> QED
                    BY <2>3, <5>1, <5>2 DEF StopShows
        <3>2. CASE wire[1].kind = "result"
            <4>1. PICK k \in DOMAIN wire : Result(k) /\ wire[k].step = bench.step /\ ~wire[k].flag
                BY <2>2, <2>3, <3>2 DEF StopShows
            <4>2. CASE k = 1
                <5>1. stopping' = bench.step
                    BY <1>8, <2>2, <3>2, <4>1, <4>2 DEF LoopStep, GetResult, GetDone, GetStream,
                       GetBad,
                       Got, StoppingAfter, Waiting
                <5>2. \A m \in DOMAIN wire' : wire'[m].kind # "result"
                    BY <1>n, <1>t, <2>2, <3>2, <4>1, <4>2 DEF WireIsInOrder
                <5> QED
                    BY <2>1, <5>1, <5>2 DEF StopShows
            <4>3. CASE k # 1
                <5>1. k - 1 \in DOMAIN wire' /\ wire'[k - 1] = wire[k]
                    BY <2>2, <4>3
                <5> QED
                    BY <2>1, <4>1, <5>1 DEF StopShows
            <4> QED
                BY <4>2, <4>3
        <3> QED
            BY <3>1, <3>2
    <2> QED
        BY <1>i, <2>1, <2>2, <2>3 DEF StopIsOnTheWay
<1>9. CASE LinkStep
    BY <1>2, <1>3, <1>4, <1>5, <1>6, <1>7, <1>9 DEF LinkStep
<1>10. CASE DeadlinePasses \/ LinkFails \/ EndStep \/ Restart
    BY <1>10 DEF DeadlinePasses, LinkFails, EndStep, SetupFails, Start, Seal, Finish, FinishFails,
       Complete, FailJob, Restart, Waiting
<1>11. CASE UNCHANGED vars
    BY <1>11, <1>i DEF vars, linkVars, loopVars, StopIsOnTheWay, StopShows
<1> QED
    BY <1>8, <1>9, <1>10, <1>11, NextParts

LEMMA StopNext == IInv /\ [Next]_vars => StopIsUnderWay'
<1> SUFFICES ASSUME IInv, [Next]_vars PROVE StopIsUnderWay'
    OBVIOUS
<1>t. TypeOK /\ WireIsInOrder /\ EndsAgree /\ StopIsUnderWay
    BY DEF IInv
<1>n. bench.step # 0
    BY <1>t, StepAssumption DEF TypeOK, Step
<1>1. Waiting' /\ garbled' = {} => StopIsOnTheWay'
    <2>1. CASE Waiting
        BY <2>1, StopOnTheWayNext
    <2>2. CASE ~Waiting /\ Waiting'
        <3>1. Start
            BY <2>2, LinkKeeps, LoopKeeps, NextParts DEF DeadlinePasses, LinkFails, EndStep,
               SetupFails,
               Seal, Finish, FinishFails, Complete, FailJob, Restart, vars, linkVars, loopVars, Waiting
        <3>2. wire' = <<>> /\ bench'.stage = "running"
            BY <1>t, <3>1 DEF Start, EndsAgree, linkVars
        <3> QED
            BY <3>2 DEF StopIsOnTheWay
    <2> QED
        BY <2>1, <2>2
<1>2. ASSUME outcome' \in {"stopped", "missing"}, garbled' = {}
      PROVE  outcome' = "stopped" /\ bench'.stage = "done" /\ stopping' = bench'.step
    <2>1. CASE LinkStep
        BY <1>2, <2>1, LinkKeeps DEF Waiting
    <2>2. CASE LoopStep
        <3>1. /\ GetDone /\ Head(wire).kind = "done" /\ ~Head(wire).flag
              /\ outcome' = (IF stopping # 0 THEN "stopped" ELSE "missing")
            BY <1>2, <2>2 DEF LoopStep, GetResult, GetDone, GetStream, GetBad, Got, Waiting
        <3>2. Waiting /\ wire # <<>> /\ wire' = Tail(wire) /\ UNCHANGED <<bench, garbled, stopping>>
            BY <2>2, <3>1, LoopKeeps DEF LinkOtherThanWire, GetDone
        <3>3. 1 \in DOMAIN wire /\ Head(wire) = wire[1] /\ wire \in Seq(OnWire)
            BY <1>t, <3>2, TakeEffect DEF TypeOK
        <3>4. Len(wire) = 1 /\ bench.stage = "done"
            BY <1>t, <3>1, <3>3 DEF WireIsInOrder
        <3>5. DOMAIN wire = {1}
            BY <3>3, <3>4
        <3>6. StopShows
            BY <1>t, <1>2, <3>1, <3>2, <3>3 DEF StopIsUnderWay
        <3>7. stopping = bench.step
            BY <3>1, <3>3, <3>5, <3>6 DEF StopShows, Result
        <3> QED
            BY <1>n, <3>1, <3>2, <3>4, <3>7
    <2>3. CASE DeadlinePasses \/ LinkFails \/ EndStep \/ Restart \/ UNCHANGED vars
        <3>1. outcome' = outcome /\ UNCHANGED <<bench, stopping, garbled>>
            BY <1>2, <2>3 DEF DeadlinePasses, LinkFails, EndStep, SetupFails, Start, Seal, Finish,
               FinishFails, Complete, FailJob, Restart, vars, linkVars, loopVars
        <3> QED
            BY <1>t, <1>2, <3>1 DEF StopIsUnderWay
    <2> QED
        BY <2>1, <2>2, <2>3, NextParts
<1> QED
    BY <1>1, <1>2 DEF StopIsUnderWay, StopIsOnTheWay

-----------------------------------------------------------------------------
(* The watchdog                                                            *)

LEMMA NewsStayInTime ==
    ASSUME IInv, [Next]_vars, Waiting', garbled' = {}, bench'.stage # "astray"
    PROVE  StepIsInTime' \/ FrameIsInTime' \/ EndIsInTime'
<1> DEFINE InTime == StepIsInTime \/ FrameIsInTime \/ EndIsInTime
<1> USE DEF Result
<1>t. TypeOK /\ WireIsInOrder /\ BenchTyped /\ WatchTyped /\ WriterTyped
    BY TypeParts DEF IInv
<1>s. /\ Step = 1 .. Len(Timeout) /\ Len(Timeout) \in Nat \ {0} /\ Last1 = Len(Timeout) + 1
      /\ \A i \in Step : Delay[i] \in Nat /\ Timeout[i] \in Nat
      /\ Grace \in Nat /\ Latency \in Nat
    BY StepAssumption, TimeAssumption DEF Step, Last1
<1>n. /\ bench.step \in Step /\ bench.elapsed \in Nat /\ next \in 1 .. Last1 /\ left \in Nat
      /\ bench.elapsed <= Delay[bench.step] + Timeout[bench.step]
    BY <1>t DEF BenchTyped, WatchTyped
<1>w. \A k \in DOMAIN wire : k \in Nat /\ wire[k].step \in Nat /\ wire[k].age \in Nat
    <2>1. wire \in Seq(OnWire)
        BY <1>t DEF TypeOK
    <2>2. \A k \in DOMAIN wire : k \in Nat /\ wire[k] \in OnWire
        BY <2>1
    <2> QED
        BY <1>s, <2>2 DEF OnWire
<1>i. Waiting /\ garbled = {} /\ bench.stage # "astray" => InTime
    BY DEF IInv, NewsIsInTime
<1>1. ASSUME NEW f \in OnWire, Send(f)
      PROVE  /\ DOMAIN wire' = DOMAIN wire \cup {Len(wire) + 1}
             /\ \A k \in DOMAIN wire : wire'[k] = wire[k]
             /\ wire'[Len(wire) + 1] = f /\ Len(wire) + 1 \in DOMAIN wire'
             /\ Waiting
             /\ UNCHANGED <<next, left>> /\ FrameIsInTime => FrameIsInTime'
    <2>1. /\ DOMAIN wire' = DOMAIN wire \cup {Len(wire) + 1}
          /\ \A k \in DOMAIN wire : wire'[k] = wire[k]
          /\ wire'[Len(wire) + 1] = f
        BY <1>1, <1>t, SendEffect
    <2> QED
        BY <1>1, <2>1 DEF FrameIsInTime, Send
<1>2. ASSUME NEW ok \in BOOLEAN, BenchReports(ok) PROVE FrameIsInTime'
    <2>1. PICK f \in OnWire :
            /\ Send(f) /\ f.kind = "result" /\ f.step = bench.step /\ f.age = 0
            /\ bench.stage = "running" /\ UNCHANGED <<garbled, next, left>>
        BY <1>2, <1>t, ReportEffect DEF coreVars, loopVars
    <2>2. StepIsInTime \/ FrameIsInTime
        BY <1>1, <1>i, <2>1 DEF EndIsInTime
    <2>3. CASE StepIsInTime
        <3>1. Grace <= left /\ bench.step = next
            <4>1. /\ bench.step = next /\ next \in Step
                  /\ Grace + Delay[next] + Timeout[next] <= left + bench.elapsed
                  /\ bench.elapsed <= Delay[next] + Timeout[next]
                BY <1>n, <2>3 DEF StepIsInTime
            <4>2. Delay[next] \in Nat /\ Timeout[next] \in Nat
                BY <1>s, <4>1
            <4>3. PICK d \in Nat, t \in Nat, e \in Nat : d = Delay[next] /\ t = Timeout[next] /\ e = bench.elapsed
                BY <1>n, <4>2
            <4>4. Grace + d + t <= left + e /\ e <= d + t
                BY <4>1, <4>3
            <4>5. Grace <= left
                BY <1>n, <1>s, <4>4
            <4> QED
                BY <4>1, <4>5
        <3> QED
            BY <1>1, <1>n, <1>s, <2>1, <3>1 DEF FrameIsInTime
    <2> QED
        BY <1>1, <2>1, <2>2, <2>3
<1>3. ASSUME BenchIsDone PROVE FrameIsInTime'
    <2>1. PICK f \in OnWire :
            /\ Send(f) /\ f.kind = "done" /\ f.age = 0 /\ bench.stage \in {"passed", "stopped"}
            /\ UNCHANGED <<garbled, next, left>>
        BY <1>3, <1>t, DoneEffect DEF coreVars, loopVars
    <2>2. FrameIsInTime \/ EndIsInTime
        BY <1>1, <1>i, <2>1 DEF StepIsInTime
    <2>3. CASE EndIsInTime
        BY <1>1, <1>n, <1>s, <2>1, <2>3 DEF EndIsInTime, FrameIsInTime
    <2> QED
        BY <1>1, <2>1, <2>2, <2>3
<1>4. ASSUME (\E t \in Tap : BenchStreams(t)) \/ BenchLogs PROVE InTime'
    <2>1. PICK f \in OnWire :
            /\ Send(f) /\ f.kind \in {"open", "chunk", "close", "log"}
            /\ UNCHANGED <<bench, garbled, next, left>>
        BY <1>4, QuietEffect DEF coreVars, loopVars
    <2>2. InTime
        BY <1>1, <1>i, <2>1
    <2>3. StepIsInTime => StepIsInTime'
        BY <2>1 DEF StepIsInTime
    <2>4. EndIsInTime => EndIsInTime'
        BY <1>1, <2>1 DEF EndIsInTime
    <2> QED
        BY <1>1, <2>1, <2>2, <2>3, <2>4
<1>5. ASSUME NEW i \in DOMAIN wire, NEW j \in DOMAIN wire, Garble(i, j) PROVE InTime'
    <2>1. Waiting /\ UNCHANGED <<bench, next, left>>
        BY <1>5 DEF Garble, coreVars, loopVars
    <2>2. garbled' = garbled \cup
            {wire[k].step : k \in {m \in {i, j} : wire[m].kind \in {"result", "done"}}}
        BY <1>5, <1>t, GarbleLosses
    <2>3. garbled = {} /\ \A k \in {i, j} : wire[k].kind \notin {"result", "done"}
        BY <2>2
    <2>4. InTime
        BY <1>i, <2>1, <2>3
    <2>5. \A k \in DOMAIN wire : k \notin {i, j} => \E m \in DOMAIN wire' : wire'[m] = wire[k]
        BY <1>5, <1>t, Kept
    <2>6. FrameIsInTime => FrameIsInTime'
        <3> SUFFICES ASSUME FrameIsInTime PROVE FrameIsInTime'
            OBVIOUS
        <3>1. PICK k \in DOMAIN wire :
                /\ (Result(k) /\ wire[k].step = next) \/ wire[k].kind = "done"
                /\ Grace <= left + wire[k].age
            BY DEF FrameIsInTime
        <3>2. PICK m \in DOMAIN wire' : wire'[m] = wire[k]
            BY <2>3, <2>5, <3>1
        <3> QED
            BY <2>1, <3>1, <3>2 DEF FrameIsInTime
    <2>7. \A k \in DOMAIN wire' : wire'[k].kind # "bad" =>
            \E m \in DOMAIN wire : wire'[k] = wire[m]
        BY <1>5, <1>t, Origins
    <2>8. EndIsInTime => EndIsInTime'
        BY <2>1, <2>7 DEF EndIsInTime
    <2>9. StepIsInTime => StepIsInTime'
        BY <2>1 DEF StepIsInTime
    <2> QED
        BY <2>4, <2>6, <2>8, <2>9
<1>6. ASSUME Tick PROVE InTime'
    <2>1. /\ bench'.step = bench.step /\ bench'.stage = bench.stage /\ Waiting
          /\ bench.stage \notin {"passed", "stopped"}
          /\ bench.stage = "running" => bench'.elapsed = bench.elapsed + 1
          /\ left' = left - 1 /\ UNCHANGED <<next, garbled>>
        BY <1>6, <1>t DEF Tick, BenchTyped
    <2>2. /\ DOMAIN wire' = DOMAIN wire
          /\ \A k \in DOMAIN wire : /\ wire'[k].kind = wire[k].kind /\ wire'[k].step = wire[k].step
                                    /\ wire'[k].age = wire[k].age + 1
        BY <1>t, <1>6, Ageing DEF OnWire
    <2>3. StepIsInTime \/ FrameIsInTime
        BY <1>i, <2>1 DEF EndIsInTime
    <2>4. StepIsInTime => StepIsInTime'
        <3> SUFFICES ASSUME StepIsInTime PROVE StepIsInTime'
            OBVIOUS
        <3>1. /\ bench.stage = "running" /\ bench.step = next /\ next \in Step
              /\ Grace + Delay[next] + Timeout[next] <= left + bench.elapsed
            BY <1>n DEF StepIsInTime
        <3>2. left + bench.elapsed = left' + bench'.elapsed
            BY <1>n, <2>1, <3>1
        <3> QED
            BY <2>1, <3>1, <3>2 DEF StepIsInTime
    <2>5. FrameIsInTime => FrameIsInTime'
        <3> SUFFICES ASSUME FrameIsInTime PROVE FrameIsInTime'
            OBVIOUS
        <3>1. PICK k \in DOMAIN wire :
                /\ (Result(k) /\ wire[k].step = next) \/ wire[k].kind = "done"
                /\ Grace <= left + wire[k].age
            BY DEF FrameIsInTime
        <3>2. left + wire[k].age = left' + wire'[k].age
            BY <1>n, <1>w, <2>1, <2>2
        <3> QED
            BY <2>1, <2>2, <3>1, <3>2 DEF FrameIsInTime
    <2> QED
        BY <2>3, <2>4, <2>5
<1>7. CASE LoopStep
    <2>1. Waiting /\ wire # <<>> /\ wire' = Tail(wire) /\ UNCHANGED <<bench, garbled>>
        BY <1>7, LoopKeeps DEF LinkOtherThanWire
    <2>2. /\ 1 \in DOMAIN wire /\ Head(wire) = wire[1]
          /\ \A k \in DOMAIN wire' : k + 1 \in DOMAIN wire /\ 1 < k + 1 /\ wire'[k] = wire[k + 1]
          /\ \A k \in DOMAIN wire : k = 1 \/ (k - 1 \in DOMAIN wire' /\ wire'[k - 1] = wire[k])
        <3>1. \A k \in DOMAIN wire' : 1 < k + 1
            <4>1. wire' \in Seq(OnWire)
                BY <1>t, <2>1, TakeEffect
            <4> QED
                BY <4>1
        <3> QED
            BY <1>t, <2>1, <3>1, TakeEffect
    <2>3. InTime
        BY <1>i, <2>1
    <2>4. CASE wire[1].kind # "result"
        <3>1. wire[1].kind # "done" /\ UNCHANGED <<next, left>>
            BY <1>7, <2>2, <2>4 DEF LoopStep, GetResult, GetDone, GetStream, GetBad, Got, Waiting
        <3>2. FrameIsInTime => FrameIsInTime'
            BY <2>2, <2>4, <3>1 DEF FrameIsInTime
        <3>3. EndIsInTime => EndIsInTime'
            BY <2>1, <2>2, <3>1 DEF EndIsInTime
        <3>4. StepIsInTime => StepIsInTime'
            BY <2>1, <3>1 DEF StepIsInTime
        <3> QED
            BY <2>3, <3>2, <3>3, <3>4
    <2>5. CASE wire[1].kind = "result"
        <3>0. PICK s \in Step : s = wire[1].step
            BY <1>t, <2>2, <2>5 DEF TypeOK
        <3>1. /\ next' = s + 1 /\ left' = NextDeadline(next')
              /\ writer' = [writer EXCEPT !.steps = Append(@, s)]
            BY <1>7, <2>2, <2>5, <3>0 DEF LoopStep, GetResult, GetDone, GetStream, GetBad, Got,
               Waiting, AdvanceStepCounters
        <3>2. /\ s <= bench.step /\ (bench.stage = "running" => s < bench.step)
              /\ \A k \in DOMAIN wire' : wire'[k].kind = "result" => s < wire'[k].step
            BY <1>t, <2>2, <2>5, <3>0 DEF WireIsInOrder
        <3>3. Grace <= left' /\ left' \in Nat
              /\ (next' \in Step => left' = Grace + (Delay[next'] + Timeout[next']))
            BY <1>s, <3>1, <3>2 DEF NextDeadline
        <3>4. CASE bench.stage = "done"
            <4>1. \E k \in DOMAIN wire : wire[k].kind = "done"
                BY <2>1, <3>4 DEF IInv, ResultsAreUnderWay
            <4>2. \E k \in DOMAIN wire' : wire'[k].kind = "done"
                BY <2>2, <2>5, <4>1
            <4>3. \A k \in DOMAIN wire' : wire'[k].age \in Nat
                BY <1>w, <2>2
            <4> QED
                BY <1>s, <3>3, <4>2, <4>3 DEF FrameIsInTime
        <3>5. CASE bench.stage # "done" /\ bench.step = s
            <4>1. bench.stage \in {"passed", "stopped"}
                BY <1>t, <1>n, <1>s, <2>1, <3>2, <3>5 DEF BenchTyped
            <4>2. \A k \in DOMAIN wire' : wire'[k].kind = "result" => wire'[k].step <= bench.step
                BY <1>t, <2>2 DEF WireIsInOrder
            <4>3. \A k \in DOMAIN wire' : wire'[k].kind # "result"
                BY <1>s, <1>n, <1>w, <2>2, <3>2, <3>5, <4>2
            <4> QED
                BY <2>1, <3>3, <4>1, <4>3 DEF EndIsInTime
        <3>6. CASE bench.stage # "done" /\ bench.step = s + 1 /\ bench.stage = "running"
            <4>1. next' \in Step /\ bench' = bench /\ next' = bench.step
                BY <1>n, <2>1, <3>1, <3>6
            <4> QED
                <5>1. Delay[next'] \in Nat /\ Timeout[next'] \in Nat /\ bench'.elapsed \in Nat
                    BY <1>n, <1>s, <4>1
                <5>2. left' = Grace + (Delay[next'] + Timeout[next'])
                    BY <3>3, <4>1
                <5>3. PICK d \in Nat, t \in Nat, e \in Nat :
                        d = Delay[next'] /\ t = Timeout[next'] /\ e = bench'.elapsed
                    BY <5>1
                <5>4. left' = Grace + (d + t)
                    BY <5>2, <5>3
                <5>5. Grace + d + t <= left' + e
                    BY <1>s, <5>4
                <5> QED
                    BY <3>6, <4>1, <5>3, <5>5 DEF StepIsInTime
        <3>7. CASE Reported(s + 1) /\ s + 1 \in Step
            <4>1. ~\E k \in DOMAIN writer'.steps : writer'.steps[k] = s + 1
                <5>1. RecordIsInOrder'
                    BY RecordNext
                <5> QED
                    BY <1>s, <3>1, <3>2, <5>1 DEF RecordIsInOrder
            <4>2. \E k \in DOMAIN wire' : wire'[k].kind = "result" /\ wire'[k].step = s + 1
                <5>1. ResultsAreUnderWay' /\ Reported(s + 1)'
                    BY <2>1, <3>7, UnderWayNext DEF Reported
                <5>2. s + 1 \notin garbled'
                    OBVIOUS
                <5> QED
                    BY <3>7, <4>1, <5>1, <5>2 DEF ResultsAreUnderWay
            <4>3. \A k \in DOMAIN wire' : wire'[k].age \in Nat
                BY <1>w, <2>2
            <4> QED
                BY <1>s, <3>1, <3>3, <4>2, <4>3 DEF FrameIsInTime
        <3> QED
            BY <1>n, <1>s, <1>t, <2>1, <3>2, <3>4, <3>5, <3>6, <3>7 DEF Reported, BenchTyped
    <2> QED
        BY <2>4, <2>5
<1>8. CASE Start
    <2>1. bench' = [step |-> 1, elapsed |-> 0, stage |-> "running"] /\ next' = 1
          /\ left' = NextDeadline(1)
        BY <1>8 DEF Start, IInv, EndsAgree, linkVars
    <2>2. left' = Grace + (Delay[1] + Timeout[1])
        BY <1>s, <2>1 DEF NextDeadline
    <2> QED
        BY <1>s, <2>1, <2>2 DEF StepIsInTime
<1>9. CASE BenchGoesAstray
    BY <1>9, <1>t DEF BenchGoesAstray, BenchTyped
<1>10. CASE LinkStep
    BY <1>2, <1>3, <1>4, <1>5, <1>6, <1>9, <1>10 DEF LinkStep
<1>11. CASE DeadlinePasses \/ LinkFails \/ SetupFails \/ Seal \/ Finish \/ FinishFails
            \/ Complete \/ FailJob \/ Restart
    BY <1>11 DEF DeadlinePasses, LinkFails, SetupFails, Seal, Finish, FinishFails, Complete,
       FailJob,
       Restart, IInv, EndsAgree, Waiting
<1>12. CASE UNCHANGED vars
    BY <1>12, <1>i DEF vars, linkVars, loopVars, Waiting, StepIsInTime, FrameIsInTime, EndIsInTime
<1> QED
    BY <1>7, <1>8, <1>10, <1>11, <1>12, NextParts DEF EndStep

LEMMA NewsNext == IInv /\ [Next]_vars => NewsIsInTime'
<1> SUFFICES ASSUME IInv, [Next]_vars PROVE NewsIsInTime'
    OBVIOUS
<1>t. TypeOK /\ NewsIsInTime
    BY DEF IInv
<1>1. ASSUME outcome' = "timeout", bench'.stage # "astray", garbled' = {} PROVE FALSE
    <2>1. CASE LinkStep
        BY <1>1, <2>1, LinkKeeps DEF Waiting
    <2>2. CASE LoopStep
        BY <1>1, <2>2 DEF LoopStep, GetResult, GetDone, GetStream, GetBad, Got, Waiting
    <2>3. CASE LinkFails \/ EndStep \/ Restart \/ UNCHANGED vars
        <3>1. outcome = "timeout" /\ UNCHANGED <<bench, garbled>>
            BY <1>1, <2>3 DEF LinkFails, EndStep, SetupFails, Start, Seal, Finish, FinishFails,
               Complete, FailJob, Restart, vars, linkVars, loopVars
        <3> QED
            BY <1>t, <1>1, <3>1 DEF NewsIsInTime, WorkingBenchIsNotTimedOut
    <2>4. CASE DeadlinePasses
        <3>1. Waiting /\ left = 0 /\ UNCHANGED <<bench, garbled>>
            BY <2>4 DEF DeadlinePasses, linkVars
        <3>2. StepIsInTime \/ FrameIsInTime \/ EndIsInTime
            BY <1>t, <1>1, <3>1 DEF NewsIsInTime
        <3>3. /\ \A i \in Step : Delay[i] \in Nat /\ Timeout[i] \in Nat
              /\ Grace \in Nat /\ Latency \in Nat /\ Latency < Grace
            BY StepAssumption, TimeAssumption DEF Step
        <3>4. CASE StepIsInTime
            <4>1. /\ bench.step \in Step /\ bench.elapsed \in Nat
                  /\ bench.elapsed <= Delay[bench.step] + Timeout[bench.step]
                BY <1>t DEF TypeOK
            <4> QED
                BY <3>1, <3>3, <3>4, <4>1 DEF StepIsInTime
        <3>5. CASE FrameIsInTime
            <4>1. wire \in Seq(OnWire)
                BY <1>t DEF TypeOK
            <4>2. \A k \in DOMAIN wire : wire[k] \in OnWire
                BY <4>1
            <4>3. \A k \in DOMAIN wire : wire[k].age \in 0 .. Latency
                BY <4>2 DEF OnWire
            <4> QED
                BY <3>1, <3>3, <3>5, <4>3 DEF FrameIsInTime
        <3>6. CASE EndIsInTime
            BY <3>1, <3>3, <3>6 DEF EndIsInTime
        <3> QED
            BY <3>2, <3>4, <3>5, <3>6
    <2> QED
        BY <2>1, <2>2, <2>3, <2>4, NextParts
<1> QED
    BY <1>1, NewsStayInTime DEF NewsIsInTime, WorkingBenchIsNotTimedOut

-----------------------------------------------------------------------------
(* The taps that lost records                                              *)

\* A tap that is open, or whose records or StreamClose are under way, will be open
\* when the loop comes to them, or is excused.
OpenInTime ==
    /\ \A k \in DOMAIN wire : wire[k].kind \in {"chunk", "close"} =>
          wire[k].tap \in excused \/ OpenAt(wire[k].tap, k)
    /\ \A t \in Tap : tapStage[t] = "open" => t \in excused \/ OpenAt(t, Len(wire) + 1)
    /\ \A k \in DOMAIN wire : wire[k].kind = "close" => tapStage[wire[k].tap] = "closed"

MarkedInTime == \A t \in lost : t \in excused \cup marked \/ \E k \in DOMAIN wire : MarksAt(t, k)

LEMMA LossParts ==
    /\ LossTyped => (LossIsUnderWay <=> (Waiting => OpenInTime /\ MarkedInTime))
    /\ LossTyped' => (LossIsUnderWay' <=> (Waiting' => OpenInTime' /\ MarkedInTime'))
BY DEF LossIsUnderWay, OpenInTime, MarkedInTime, LossTyped

\* A frame at the end changes nothing for those before.
LEMMA SendKeepsOpen ==
    ASSUME TypeOK, NEW f \in OnWire, Send(f), UNCHANGED openTaps
    PROVE  /\ DOMAIN wire' = DOMAIN wire \cup {Len(wire) + 1} /\ Len(wire') = Len(wire) + 1
           /\ \A k \in DOMAIN wire : k <= Len(wire) /\ wire'[k] = wire[k]
           /\ wire'[Len(wire) + 1] = f /\ Len(wire) \in Nat
           /\ \A t : \A k \in 1 .. Len(wire) + 1 : OpenAt(t, k) <=> OpenAt(t, k)'
           /\ \A t : \A k \in DOMAIN wire : MarksAt(t, k) => MarksAt(t, k)'
<1>1. /\ DOMAIN wire' = DOMAIN wire \cup {Len(wire) + 1} /\ Len(wire') = Len(wire) + 1
      /\ \A k \in DOMAIN wire : k <= Len(wire) /\ wire'[k] = wire[k]
      /\ wire'[Len(wire) + 1] = f /\ Len(wire) \in Nat
    BY SendEffect
<1>2. DOMAIN wire = 1 .. Len(wire)
    BY DEF TypeOK
<1>3. \A k \in 1 .. Len(wire) + 1 : \A m \in DOMAIN wire' : m < k => m \in DOMAIN wire
    BY <1>1, <1>2
<1>4. ASSUME NEW t, NEW k \in 1 .. Len(wire) + 1 PROVE OpenAt(t, k) <=> OpenAt(t, k)'
    BY <1>1, <1>3 DEF OpenAt
<1>5. ASSUME NEW t, NEW k \in DOMAIN wire PROVE MarksAt(t, k) => MarksAt(t, k)'
    BY <1>1, <1>2, <1>4 DEF MarksAt
<1> QED
    BY <1>1, <1>4, <1>5

\* Nor does a loss, but for a tap whose StreamOpen is lost.
LEMMA GarbleKeepsOpen ==
    ASSUME TypeOK, NEW i \in DOMAIN wire, NEW j \in DOMAIN wire, Garble(i, j),
           NEW t \in Tap, t \notin excused'
    PROVE  /\ \A k \in 1 .. Len(wire') + 1 : OpenAt(t, Origin(k, i, j)) => OpenAt(t, k)'
           /\ \A x \in {i, j} : OpenAt(t, x) => OpenAt(t, i)'
<1> DEFINE o(k) == Origin(k, i, j)
<1>1. /\ wire \in Seq(OnWire) /\ wire' \in Seq(OnWire) /\ i \in Nat /\ j \in Nat /\ j \in {i, i + 1}
      /\ UNCHANGED openTaps
    <2>1. wire \in Seq(OnWire)
        BY DEF TypeOK
    <2>2. i \in Nat /\ j \in Nat
        BY <2>1
    <2> QED
        BY <2>1, <2>2, GarbleEffect DEF Garble, coreVars, loopVars
<1>2. /\ \A k \in DOMAIN wire : k \in Nat
      /\ \A k \in DOMAIN wire' : k \in Nat
    BY <1>1
<1>3. \A k, l \in Nat : k < l <=> o(k) < o(l)
    BY <1>1 DEF Origin
<1>4. o(i) = j /\ \A x \in {i, j} : x <= j
    BY <1>1 DEF Origin
<1>5. \A k \in DOMAIN wire' : wire'[k].kind # "bad" =>
        /\ o(k) \in DOMAIN wire /\ wire'[k] = wire[o(k)] /\ o(k) \notin {i, j}
    BY Origins
<1>6. \A k \in DOMAIN wire : k \notin {i, j} => \E m \in DOMAIN wire' : o(m) = k /\ wire'[m] = wire[k]
    BY Kept
<1>7. \A k \in DOMAIN wire : wire[k].kind = "open" /\ wire[k].tap = t => k \notin {i, j}
    BY GarbleLosses
<1>d. j - i \in {0, 1}
    BY <1>1
<1>o. \A k \in Nat : o(k) \in Nat
    BY <1>1, <1>d DEF Origin
<1> HIDE DEF o
<1>8. ASSUME NEW k \in Nat, NEW x \in Nat, OpenAt(t, x),
             x <= o(k), \A m \in DOMAIN wire' : m < k /\ wire'[m].kind # "bad" => o(m) < x
      PROVE  OpenAt(t, k)'
    <2>1. ASSUME NEW m \in DOMAIN wire, m < x, wire[m].kind = "open", wire[m].tap = t
          PROVE  \E n \in DOMAIN wire' : n < k /\ wire'[n].kind = "open" /\ wire'[n].tap = t
        <3>1. PICK n \in DOMAIN wire' : o(n) = m /\ wire'[n] = wire[m]
            BY <1>6, <1>7, <2>1
        <3>2. o(k) \in Nat
            BY <1>o
        <3>3. o(n) < o(k)
            BY <1>2, <1>8, <2>1, <3>1, <3>2
        <3>4. n < k
            BY <1>2, <1>3, <1>8, <3>3
        <3> QED
            BY <2>1, <3>1, <3>4
    <2>2. ASSUME NEW m \in DOMAIN wire', m < k, wire'[m].kind = "close", wire'[m].tap = t
          PROVE  FALSE
        <3>1. o(m) \in DOMAIN wire /\ wire'[m] = wire[o(m)] /\ o(m) < x
            BY <1>5, <1>8, <2>2
        <3> QED
            BY <1>8, <2>2, <3>1 DEF OpenAt
    <2> QED
        BY <1>1, <1>8, <2>1, <2>2 DEF OpenAt
<1>9. ASSUME NEW k \in 1 .. Len(wire') + 1, OpenAt(t, o(k)) PROVE OpenAt(t, k)'
    <2>1. k \in Nat /\ o(k) \in Nat
        BY <1>1, <1>o
    <2>2. \A m \in DOMAIN wire' : m < k => o(m) < o(k)
        BY <1>2, <1>3, <2>1
    <2> QED
        BY <1>8, <1>9, <2>1, <2>2
<1>10. ASSUME NEW x \in {i, j}, OpenAt(t, x) PROVE OpenAt(t, i)'
    <2>1. \A m \in DOMAIN wire' : m < i => o(m) < x
        BY <1>1, <1>2 DEF o, Origin
    <2> QED
        BY <1>1, <1>4, <1>8, <1>10, <2>1
<1> QED
    BY <1>9, <1>10 DEF o

\* What is sent: a tap's frames only while it is open, its StreamClose the last.
LEMMA SendKeepsLoss ==
    ASSUME TypeOK, OpenInTime, MarkedInTime, NEW f \in OnWire, Send(f),
           UNCHANGED <<openTaps, marked, excused>>,
           f.kind \in {"chunk", "close"} => f.tap \in Tap /\ tapStage[f.tap] = "open",
           f.kind = "close" => tapStage'[f.tap] = "closed",
           \A t \in Tap :
              \/ tapStage'[t] = tapStage[t]
              \/ f.kind = "close" /\ t = f.tap
              \/ f.kind = "open" /\ t = f.tap /\ tapStage[t] = "new",
           lost' = lost \/ (lost' = lost \cup {f.tap} /\ f.kind = "close" /\ f.flag)
    PROVE  OpenInTime' /\ MarkedInTime'
<1>1. /\ DOMAIN wire' = DOMAIN wire \cup {Len(wire) + 1} /\ Len(wire') = Len(wire) + 1
      /\ \A k \in DOMAIN wire : k <= Len(wire) /\ wire'[k] = wire[k]
      /\ wire'[Len(wire) + 1] = f /\ Len(wire) \in Nat
      /\ \A t : \A k \in 1 .. Len(wire) + 1 : OpenAt(t, k) <=> OpenAt(t, k)'
      /\ \A t : \A k \in DOMAIN wire : MarksAt(t, k) => MarksAt(t, k)'
    BY SendKeepsOpen
<1>2. DOMAIN wire = 1 .. Len(wire) /\ Len(wire) + 1 \in 1 .. Len(wire) + 1
    BY <1>1 DEF TypeOK
<1>n. PICK n \in Nat : n = Len(wire) + 1
    BY <1>1
<1>3. /\ \A k \in DOMAIN wire : wire[k].kind \in {"chunk", "close"} => wire[k].tap \in Tap
      /\ tapStage \in [Tap -> {"new", "open", "closed"}]
    BY DEF TypeOK
<1>4. ASSUME NEW k \in DOMAIN wire', wire'[k].kind \in {"chunk", "close"}, NEW t, t = wire'[k].tap
      PROVE  t \in excused' \/ OpenAt(t, k)'
    <2>1. CASE k \in DOMAIN wire
        <3>1. wire[k].kind \in {"chunk", "close"} /\ t = wire[k].tap
            BY <1>1, <1>4, <2>1
        <3>2. t \in excused \/ OpenAt(t, k)
            BY <2>1, <3>1 DEF OpenInTime
        <3> QED
            BY <1>1, <1>2, <2>1, <3>2
    <2>2. CASE k = n
        <3>1. t = f.tap /\ (t \in excused \/ OpenAt(t, n))
            BY <1>1, <1>n, <1>4, <2>2 DEF OpenInTime
        <3> QED
            BY <1>1, <1>2, <1>n, <2>2, <3>1
    <2> QED
        BY <1>1, <1>n, <2>1, <2>2
<1>5. ASSUME NEW t \in Tap, tapStage'[t] = "open", t \notin excused
      PROVE  OpenAt(t, n + 1)'
    <2>1. ~(f.kind = "close" /\ t = f.tap)
        BY <1>5
    <2>2. CASE tapStage[t] = "open"
        <3>1. OpenAt(t, n)
            BY <1>n, <1>5, <2>2 DEF OpenInTime
        <3>2. OpenAt(t, n)'
            BY <1>1, <1>2, <1>n, <3>1
        <3>3. \A m \in DOMAIN wire' : m < n + 1 <=> m < n \/ m = n
            BY <1>1, <1>2, <1>n
        <3> QED
            BY <1>1, <1>n, <2>1, <3>2, <3>3 DEF OpenAt
    <2>3. CASE f.kind = "open" /\ t = f.tap /\ tapStage[t] = "new"
        <3>1. \A m \in DOMAIN wire : ~(wire[m].kind = "close" /\ wire[m].tap = t)
            BY <2>3 DEF OpenInTime
        <3>2. \A m \in DOMAIN wire' : ~(wire'[m].kind = "close" /\ wire'[m].tap = t)
            BY <1>1, <2>3, <3>1
        <3>3. n \in DOMAIN wire' /\ n < n + 1 /\ wire'[n] = f
            BY <1>1, <1>n
        <3> QED
            BY <2>3, <3>2, <3>3 DEF OpenAt
    <2> QED
        BY <1>5, <2>1, <2>2, <2>3
<1>6. ASSUME NEW k \in DOMAIN wire', wire'[k].kind = "close"
      PROVE  tapStage'[wire'[k].tap] = "closed"
    <2>1. CASE k \in DOMAIN wire
        <3>1. wire'[k].tap \in Tap /\ tapStage[wire'[k].tap] = "closed"
            BY <1>1, <1>3, <1>6, <2>1 DEF OpenInTime
        <3> QED
            BY <3>1
    <2>2. CASE k = Len(wire) + 1
        BY <1>1, <1>6, <2>2
    <2> QED
        BY <1>1, <2>1, <2>2
<1>7. ASSUME NEW t \in lost', t \notin excused' \cup marked'
      PROVE  \E k \in DOMAIN wire' : MarksAt(t, k)'
    <2>1. CASE t \in lost
        BY <1>1, <1>7, <2>1 DEF MarkedInTime
    <2>2. CASE f.kind = "close" /\ f.flag /\ t = f.tap
        <3>1. n \in DOMAIN wire' /\ MarksAt(t, n)'
            BY <1>1, <1>n, <2>2 DEF MarksAt
        <3> QED
            BY <3>1
    <2> QED
        BY <1>7, <2>1, <2>2
<1>8. n + 1 = Len(wire') + 1
    BY <1>1, <1>n
<1>9. OpenInTime'
    BY <1>4, <1>5, <1>6, <1>8 DEF OpenInTime
<1> QED
    BY <1>7, <1>9 DEF MarkedInTime
\* What the link loses leaves behind a frame that marks its taps.
LEMMA GarbleKeepsLoss ==
    ASSUME TypeOK, OpenInTime, MarkedInTime, NEW i \in DOMAIN wire, NEW j \in DOMAIN wire,
           Garble(i, j)
    PROVE  OpenInTime' /\ MarkedInTime'
<1>1. /\ wire \in Seq(OnWire) /\ wire' \in Seq(OnWire) /\ i \in Nat /\ j \in Nat /\ j \in {i, i + 1}
      /\ Len(wire') = Len(wire) - (j - i) /\ i \in DOMAIN wire' /\ wire'[i].kind = "bad"
      /\ wire[i].kind # "bad" /\ wire[j].kind # "bad"
      /\ UNCHANGED <<openTaps, marked, tapStage>>
    <2>1. wire \in Seq(OnWire)
        BY DEF TypeOK
    <2>2. i \in Nat /\ j \in Nat
        BY <2>1
    <2>3. UNCHANGED <<openTaps, marked, tapStage>>
        BY DEF Garble, coreVars, loopVars
    <2>4. /\ wire' \in Seq(OnWire) /\ j \in {i, i + 1}
          /\ Len(wire') = Len(wire) - (j - i) /\ i \in DOMAIN wire' /\ wire'[i].kind = "bad"
          /\ wire[i].kind # "bad" /\ wire[j].kind # "bad"
        BY GarbleEffect
    <2> QED
        BY <2>1, <2>2, <2>3, <2>4
<1>w. /\ Len(wire) \in Nat /\ Len(wire') \in Nat /\ DOMAIN wire' = 1 .. Len(wire')
      /\ i <= Len(wire')
    BY <1>1
<1>2. /\ \A k \in DOMAIN wire : wire[k].kind \in {"chunk", "close"} => wire[k].tap \in Tap
      /\ \A k \in DOMAIN wire' : k \in 1 .. Len(wire') + 1 /\ k \in Nat
    <2>1. \A k \in DOMAIN wire : wire[k].kind \in {"chunk", "close"} => wire[k].tap \in Tap
        BY DEF TypeOK
    <2>2. \A k \in 1 .. Len(wire') : k \in 1 .. Len(wire') + 1 /\ k \in Nat
        BY <1>w
    <2> QED
        BY <1>w, <2>1, <2>2
<1>3. /\ excused \subseteq excused'
      /\ lost' = lost \cup {wire[k].tap : k \in {m \in {i, j} : wire[m].kind = "chunk"}}
      /\ \A k \in {i, j} : wire[k].kind \in {"chunk", "close"} =>
            wire'[i].tap \in {NoTap, wire[k].tap} \/ wire[k].tap \in excused'
    BY GarbleLosses
<1>4. \A k \in DOMAIN wire' : wire'[k].kind # "bad" =>
        /\ Origin(k, i, j) \in DOMAIN wire /\ wire'[k] = wire[Origin(k, i, j)]
    BY Origins
<1>5. \A t \in Tap : t \notin excused' =>
        /\ \A k \in 1 .. Len(wire') + 1 : OpenAt(t, Origin(k, i, j)) => OpenAt(t, k)'
        /\ \A x \in {i, j} : OpenAt(t, x) => OpenAt(t, i)'
    BY GarbleKeepsOpen
<1>6. ASSUME NEW k \in DOMAIN wire', wire'[k].kind \in {"chunk", "close"}, NEW t, t = wire'[k].tap
      PROVE  t \in excused' \/ OpenAt(t, k)'
    <2>1. PICK x \in DOMAIN wire : x = Origin(k, i, j) /\ wire'[k] = wire[x]
        BY <1>4, <1>6
    <2>2. t \in Tap /\ (t \in excused \/ OpenAt(t, x))
        BY <1>2, <1>6, <2>1 DEF OpenInTime
    <2> QED
        BY <1>2, <1>3, <1>5, <2>1, <2>2
<1>n. PICK n \in Nat : n = Len(wire') + 1
    BY <1>w
<1>o. n \in 1 .. Len(wire') + 1 /\ Origin(n, i, j) = Len(wire) + 1
    <2>1. Len(wire') = Len(wire) - (j - i) /\ i \in Nat /\ j \in Nat
        BY <1>1
    <2>2. PICK w \in Nat, v \in Nat : w = Len(wire) /\ v = Len(wire')
        BY <1>w
    <2>3. v = w - (j - i) /\ i <= v /\ n = v + 1
        BY <1>w, <1>n, <2>1, <2>2
    <2>n. i \in Nat /\ j \in Nat
        BY <2>1
    <2>4. n \in 1 .. v + 1 /\ ~(n < i)
        BY <2>n, <2>3
    <2>5. n + (j - i) = w + 1
        BY <2>n, <2>3
    <2> QED
        BY <2>2, <2>4, <2>5 DEF Origin
<1>7. ASSUME NEW t \in Tap, tapStage'[t] = "open", t \notin excused'
      PROVE  OpenAt(t, n)'
    BY <1>1, <1>3, <1>5, <1>o, <1>7 DEF OpenInTime
<1>8. ASSUME NEW k \in DOMAIN wire', wire'[k].kind = "close"
      PROVE  tapStage'[wire'[k].tap] = "closed"
    BY <1>1, <1>4, <1>8 DEF OpenInTime
<1>9. ASSUME NEW t \in Tap, t \notin excused', NEW x \in {i, j},
             wire[x].kind \in {"chunk", "close"}, wire[x].tap = t
      PROVE  MarksAt(t, i)'
    <2>1. wire'[i].tap \in {NoTap, t}
        BY <1>3, <1>9
    <2>2. OpenAt(t, i)'
        BY <1>3, <1>5, <1>9 DEF OpenInTime
    <2> QED
        BY <1>1, <2>1, <2>2 DEF MarksAt
<1>10. ASSUME NEW t \in lost', t \notin excused' \cup marked'
       PROVE  \E k \in DOMAIN wire' : MarksAt(t, k)'
    <2>1. CASE t \notin lost
        BY <1>1, <1>2, <1>3, <1>9, <1>10, <2>1
    <2>2. CASE t \in lost
        <3>1. PICK x \in DOMAIN wire : MarksAt(t, x)
            BY <1>1, <1>3, <1>10, <2>2 DEF MarkedInTime
        <3>2. t \in Tap
            BY <2>2 DEF TypeOK
        <3>3. CASE x \in {i, j}
            BY <1>1, <1>9, <1>10, <3>1, <3>2, <3>3 DEF MarksAt
        <3>4. CASE x \notin {i, j}
            <4>1. PICK k \in DOMAIN wire' : Origin(k, i, j) = x /\ wire'[k] = wire[x]
                BY <3>4, Kept
            <4>2. OpenAt(t, x) => OpenAt(t, k)'
                BY <1>2, <1>5, <1>10, <3>2, <4>1
            <4>3. MarksAt(t, k)'
                BY <3>1, <4>1, <4>2 DEF MarksAt
            <4> QED
                BY <4>3
        <3> QED
            BY <3>3, <3>4
    <2> QED
        BY <2>1, <2>2
<1>11. OpenInTime'
    BY <1>6, <1>7, <1>8, <1>n DEF OpenInTime
<1> QED
    BY <1>10, <1>11 DEF MarkedInTime

\* What the loop makes of the first frame.
LEMMA TakeMarks ==
    ASSUME TypeOK, LoopStep, NEW f, f = Head(wire)
    PROVE  /\ openTaps' = IF f.kind = "open" THEN openTaps \cup {f.tap}
                          ELSE IF f.kind = "close" THEN openTaps \ {f.tap} ELSE openTaps
           /\ marked \subseteq marked'
           /\ f.kind = "close" /\ f.flag => f.tap \in marked'
           /\ f.kind = "bad" /\ f.tap # NoTap => f.tap \in marked'
           /\ f.kind = "bad" /\ f.tap = NoTap => openTaps \subseteq marked'
<1>1. CASE GetResult \/ GetDone
    BY <1>1 DEF GetResult, GetDone, Got
<1>2. CASE GetStream
    BY <1>2 DEF GetStream
<1>3. CASE GetBad
    BY <1>3 DEF GetBad, Got, Marks
<1> QED
    BY <1>1, <1>2, <1>3 DEF LoopStep

LEMMA TakeKeepsLoss ==
    ASSUME TypeOK, OpenInTime, MarkedInTime, LoopStep
    PROVE  OpenInTime' /\ MarkedInTime'
<1>1. /\ wire' \in Seq(OnWire) /\ Len(wire') = Len(wire) - 1 /\ Len(wire) \in Nat
      /\ 1 \in DOMAIN wire /\ Head(wire) = wire[1] /\ wire[1] \in OnWire
      /\ \A k \in DOMAIN wire' : k \in Nat /\ k + 1 \in DOMAIN wire /\ wire'[k] = wire[k + 1]
      /\ \A k \in DOMAIN wire :
            k = 1 \/ (k > 1 /\ k - 1 \in DOMAIN wire' /\ wire'[k - 1] = wire[k])
      /\ UNCHANGED <<tapStage, lost, excused>>
    BY LoopKeeps, TakeEffect DEF LinkOtherThanWire
<1>2. PICK f : f = wire[1]
    OBVIOUS
<1>3. /\ openTaps' = IF f.kind = "open" THEN openTaps \cup {f.tap}
                     ELSE IF f.kind = "close" THEN openTaps \ {f.tap} ELSE openTaps
      /\ marked \subseteq marked'
      /\ f.kind = "close" /\ f.flag => f.tap \in marked'
      /\ f.kind = "bad" /\ f.tap # NoTap => f.tap \in marked'
      /\ f.kind = "bad" /\ f.tap = NoTap => openTaps \subseteq marked'
    BY <1>1, <1>2, TakeMarks
<1>4. \A k \in DOMAIN wire : k \in Nat /\ k >= 1
    BY DEF TypeOK
<1>5. ASSUME NEW t, NEW k \in Nat, k >= 1, OpenAt(t, k + 1) PROVE OpenAt(t, k)'
    <2>1. ~(f.kind = "close" /\ f.tap = t)
        <3>1. 1 < k + 1
            BY <1>5
        <3> QED
            BY <1>1, <1>2, <1>5, <3>1 DEF OpenAt
    <2>2. ASSUME NEW m \in DOMAIN wire, m < k + 1, wire[m].kind = "open", wire[m].tap = t
          PROVE  \/ t \in openTaps'
                 \/ \E x \in DOMAIN wire' : x < k /\ wire'[x].kind = "open" /\ wire'[x].tap = t
        <3>1. CASE m = 1
            BY <1>2, <1>3, <2>2, <3>1
        <3>2. CASE m > 1 /\ m - 1 \in DOMAIN wire' /\ wire'[m - 1] = wire[m]
            <4>1. m - 1 < k
                BY <1>4, <2>2
            <4> QED
                BY <2>2, <3>2, <4>1
        <3> QED
            BY <1>1, <3>1, <3>2
    <2>3. ASSUME NEW m \in DOMAIN wire', m < k, wire'[m].kind = "close", wire'[m].tap = t
          PROVE  FALSE
        <3>1. m + 1 \in DOMAIN wire /\ wire'[m] = wire[m + 1] /\ m + 1 < k + 1
            BY <1>1, <2>3
        <3> QED
            BY <1>5, <2>3, <3>1 DEF OpenAt
    <2>4. t \in openTaps => t \in openTaps'
        BY <1>3, <2>1
    <2> QED
        BY <1>5, <2>2, <2>3, <2>4 DEF OpenAt
<1>6. ASSUME NEW k \in DOMAIN wire', wire'[k].kind \in {"chunk", "close"}, NEW t, t = wire'[k].tap
      PROVE  t \in excused' \/ OpenAt(t, k)'
    <2>1. k \in Nat /\ k >= 1 /\ k + 1 \in DOMAIN wire /\ wire'[k] = wire[k + 1]
        BY <1>1
    <2>2. t \in excused \/ OpenAt(t, k + 1)
        BY <1>6, <2>1 DEF OpenInTime
    <2> QED
        BY <1>1, <1>5, <2>1, <2>2
<1>n. PICK n \in Nat : n = Len(wire) /\ n >= 1 /\ n = Len(wire') + 1
    BY <1>1
<1>7. ASSUME NEW t \in Tap, tapStage'[t] = "open", t \notin excused'
      PROVE  OpenAt(t, n)'
    <2>1. OpenAt(t, n + 1)
        BY <1>1, <1>n, <1>7 DEF OpenInTime
    <2> QED
        BY <1>5, <1>n, <2>1
<1>8. ASSUME NEW k \in DOMAIN wire', wire'[k].kind = "close"
      PROVE  tapStage'[wire'[k].tap] = "closed"
    BY <1>1, <1>8 DEF OpenInTime
<1>9. ASSUME NEW t \in lost', t \notin excused' \cup marked'
      PROVE  \E k \in DOMAIN wire' : MarksAt(t, k)'
    <2>1. PICK x \in DOMAIN wire : MarksAt(t, x)
        BY <1>1, <1>3, <1>9 DEF MarkedInTime
    <2>2. t \in Tap /\ t # NoTap
        BY <1>1, <1>9, NoTapAssumption DEF TypeOK
    <2>3. x # 1
        <3>1. SUFFICES ASSUME x = 1 PROVE FALSE
            OBVIOUS
        <3>2. CASE f.kind = "close" /\ f.tap = t /\ f.flag
            BY <1>3, <1>9, <3>2
        <3>3. CASE f.kind = "bad" /\ f.tap = t
            BY <1>3, <1>9, <2>2, <3>3
        <3>4. CASE f.kind = "bad" /\ f.tap = NoTap /\ OpenAt(t, x)
            <4>1. \A m \in DOMAIN wire : ~(m < x)
                BY <1>4, <3>1
            <4>2. t \in openTaps
                BY <3>4, <4>1 DEF OpenAt
            <4> QED
                BY <1>3, <1>9, <3>4, <4>2
        <3> QED
            BY <1>2, <2>1, <3>1, <3>2, <3>3, <3>4 DEF MarksAt
    <2>4. PICK k \in Nat : k = x - 1 /\ k >= 1 /\ k + 1 = x
        BY <1>4, <2>3
    <2>5. k \in DOMAIN wire' /\ wire'[k] = wire[x]
        BY <1>1, <2>3, <2>4
    <2>6. OpenAt(t, x) => OpenAt(t, k)'
        BY <1>5, <2>4
    <2>7. MarksAt(t, k)'
        BY <2>1, <2>5, <2>6 DEF MarksAt
    <2> QED
        BY <2>5, <2>7
<1>10. OpenInTime'
    BY <1>6, <1>7, <1>8, <1>n DEF OpenInTime
<1> QED
    BY <1>9, <1>10 DEF MarkedInTime

LEMMA LossNext == IInv /\ [Next]_vars => LossIsUnderWay'
<1> SUFFICES ASSUME IInv, [Next]_vars PROVE LossIsUnderWay'
    OBVIOUS
<1>t. TypeOK /\ LossIsUnderWay /\ EndsAgree /\ LossTyped /\ LossTyped'
    BY TypeNext, TypeParts DEF IInv
<1> SUFFICES ASSUME Waiting' PROVE OpenInTime' /\ MarkedInTime'
    BY <1>t, LossParts
<1>1. CASE Start
    <2>1. /\ wire = <<>> /\ wire' = wire /\ lost' = lost /\ tapStage' = tapStage
          /\ lost = {} /\ \A t \in Tap : tapStage[t] = "new"
        BY <1>1, <1>t DEF Start, EndsAgree, linkVars
    <2>2. DOMAIN wire' = {}
        BY <2>1
    <2> QED
        BY <2>1, <2>2 DEF OpenInTime, MarkedInTime
<1>2. CASE (EndStep /\ ~Start) \/ Restart \/ DeadlinePasses \/ LinkFails
    <2>1. core' # "receiving" \/ outcome' # "none"
        BY <1>2, <1>t DEF EndStep, SetupFails, Seal, Finish, FinishFails, Complete, FailJob,
           Restart,
           DeadlinePasses, LinkFails
    <2> QED
        BY <2>1 DEF Waiting
<1>3. CASE UNCHANGED vars
    <2>1. Waiting
        BY <1>3 DEF Waiting, vars, loopVars
    <2> QED
        BY <1>t, <1>3, <2>1, LossParts DEF OpenInTime, MarkedInTime, MarksAt, OpenAt, vars,
           linkVars, loopVars
<1>4. CASE LoopStep
    BY <1>4, <1>t, LoopKeeps, LossParts, TakeKeepsLoss
<1>5. CASE LinkStep
    <2>w. /\ Waiting /\ OpenInTime /\ MarkedInTime /\ UNCHANGED <<openTaps, marked>>
          /\ tapStage \in [Tap -> {"new", "open", "closed"}]
        BY <1>5, <1>t, LinkKeeps, LossParts DEF TypeOK
    <2>1. ASSUME NEW ok \in BOOLEAN, BenchReports(ok) PROVE OpenInTime' /\ MarkedInTime'
        <3>1. PICK f \in OnWire : Send(f) /\ f.kind = "result"
            BY <1>t, <2>1, ReportEffect
        <3>2. UNCHANGED <<tapStage, lost, excused>>
            BY <2>1 DEF BenchReports
        <3> QED
            BY <1>t, <2>w, <3>1, <3>2, SendKeepsLoss
    <2>2. CASE BenchIsDone
        <3>1. PICK f \in OnWire : Send(f) /\ f.kind = "done"
            BY <1>t, <2>2, DoneEffect
        <3>2. UNCHANGED <<tapStage, lost, excused>>
            BY <2>2 DEF BenchIsDone
        <3> QED
            BY <1>t, <2>w, <3>1, <3>2, SendKeepsLoss
    <2>3. CASE BenchLogs
        <3>1. PICK f \in OnWire : Send(f) /\ f.kind = "log"
            <4>1. 1 \in 1 .. Last1
                BY StepAssumption DEF Last1
            <4>2. Frame("log", 1, NoTap, TRUE) \in OnWire /\ Frame("log", 1, NoTap, TRUE).kind = "log"
                BY <4>1, TimeAssumption DEF Frame, OnWire
            <4> QED
                BY <2>3, <4>2 DEF BenchLogs
        <3>2. UNCHANGED <<tapStage, lost, excused>>
            BY <2>3 DEF BenchLogs
        <3> QED
            BY <1>t, <2>w, <3>1, <3>2, SendKeepsLoss
    <2>4. ASSUME NEW t \in Tap, BenchStreams(t) PROVE OpenInTime' /\ MarkedInTime'
        <3>1. PICK f \in OnWire :
                /\ Send(f) /\ f.tap = t /\ f.kind \in {"open", "chunk", "close"}
                /\ f.kind = "open" => tapStage[t] = "new"
                /\ f.kind \in {"chunk", "close"} => tapStage[t] = "open"
                /\ tapStage' = CASE f.kind = "open" -> [tapStage EXCEPT ![t] = "open"]
                                 [] f.kind = "chunk" -> tapStage
                                 [] OTHER -> [tapStage EXCEPT ![t] = "closed"]
                /\ lost' = IF f.kind = "close" /\ f.flag THEN lost \cup {t} ELSE lost
            <4>1. 1 \in 1 .. Last1
                BY StepAssumption DEF Last1
            <4>2. CASE /\ tapStage[t] = "new"
                       /\ Send(Frame("open", 1, t, TRUE))
                       /\ tapStage' = [tapStage EXCEPT ![t] = "open"]
                       /\ UNCHANGED lost
                <5>1. /\ Frame("open", 1, t, TRUE) \in OnWire
                      /\ Frame("open", 1, t, TRUE).kind = "open"
                      /\ Frame("open", 1, t, TRUE).tap = t
                    BY <4>1, TimeAssumption DEF Frame, OnWire
                <5> QED
                    BY <4>2, <5>1
            <4>3. CASE /\ tapStage[t] = "open"
                       /\ Send(Frame("chunk", 1, t, TRUE))
                       /\ UNCHANGED <<tapStage, lost>>
                <5>1. /\ Frame("chunk", 1, t, TRUE) \in OnWire
                      /\ Frame("chunk", 1, t, TRUE).kind = "chunk"
                      /\ Frame("chunk", 1, t, TRUE).tap = t
                    BY <4>1, TimeAssumption DEF Frame, OnWire
                <5> QED
                    BY <4>3, <5>1
            <4>4. ASSUME NEW dropped \in BOOLEAN,
                         /\ tapStage[t] = "open"
                         /\ Send(Frame("close", 1, t, dropped))
                         /\ lost' = IF dropped THEN lost \cup {t} ELSE lost
                         /\ tapStage' = [tapStage EXCEPT ![t] = "closed"]
                  PROVE  \E f \in OnWire :
                            /\ Send(f) /\ f.tap = t /\ f.kind = "close" /\ f.flag = dropped
                BY <4>1, <4>4, FrameIsOnWire
            <4> QED
                BY <2>4, <4>2, <4>3, <4>4 DEF BenchStreams
        <3>2. UNCHANGED excused
            BY <2>4 DEF BenchStreams
        <3>3. /\ f.kind = "close" => tapStage'[f.tap] = "closed"
              /\ \A x \in Tap : \/ tapStage'[x] = tapStage[x]
                                \/ f.kind = "close" /\ x = f.tap
                                \/ f.kind = "open" /\ x = f.tap /\ tapStage[x] = "new"
              /\ lost' = lost \/ (lost' = lost \cup {f.tap} /\ f.kind = "close" /\ f.flag)
              /\ f.kind \in {"chunk", "close"} => f.tap \in Tap /\ tapStage[f.tap] = "open"
            BY <2>w, <3>1
        <3> QED
            BY <1>t, <2>w, <3>1, <3>2, <3>3, SendKeepsLoss
    <2>5. CASE BenchGoesAstray
        BY <2>5, <2>w DEF BenchGoesAstray, coreVars, loopVars, OpenInTime, MarkedInTime, MarksAt,
           OpenAt
    <2>6. CASE Tick
        <3>1. /\ DOMAIN wire' = DOMAIN wire /\ Len(wire') = Len(wire)
              /\ \A k \in DOMAIN wire :
                    wire[k] \in OnWire /\ wire'[k] = [wire[k] EXCEPT !.age = @ + 1]
            BY <1>t, <2>6, Ageing
        <3>2. \A k \in DOMAIN wire : /\ wire'[k].kind = wire[k].kind /\ wire'[k].tap = wire[k].tap
                                     /\ wire'[k].flag = wire[k].flag
            BY <3>1 DEF OnWire
        <3>3. UNCHANGED <<tapStage, lost, excused>>
            BY <2>6 DEF Tick
        <3>4. \A t, k : OpenAt(t, k) => OpenAt(t, k)'
            BY <2>w, <3>1, <3>2 DEF OpenAt
        <3>5. \A t, k : k \in DOMAIN wire /\ MarksAt(t, k) => MarksAt(t, k)'
            BY <3>2, <3>4 DEF MarksAt
        <3>6. MarkedInTime'
            BY <2>w, <3>1, <3>3, <3>5 DEF MarkedInTime
        <3>7. OpenInTime'
            <4>n. PICK n : n = Len(wire) + 1
                OBVIOUS
            <4>1. ASSUME NEW k \in DOMAIN wire', wire'[k].kind \in {"chunk", "close"},
                         NEW t, t = wire'[k].tap
                  PROVE  t \in excused' \/ OpenAt(t, k)'
                BY <2>w, <3>1, <3>2, <3>3, <3>4, <4>1 DEF OpenInTime
            <4>2. ASSUME NEW t \in Tap, tapStage'[t] = "open", t \notin excused'
                  PROVE  OpenAt(t, n)'
                BY <2>w, <3>3, <3>4, <4>n, <4>2 DEF OpenInTime
            <4>3. \A k \in DOMAIN wire' : wire'[k].kind = "close" => tapStage'[wire'[k].tap] = "closed"
                BY <2>w, <3>1, <3>2, <3>3 DEF OpenInTime
            <4> QED
                BY <3>1, <4>n, <4>1, <4>2, <4>3 DEF OpenInTime
        <3> QED
            BY <3>6, <3>7
    <2>7. ASSUME NEW i \in DOMAIN wire, NEW j \in DOMAIN wire, Garble(i, j)
          PROVE  OpenInTime' /\ MarkedInTime'
        BY <1>t, <2>w, <2>7, GarbleKeepsLoss
    <2> QED
        BY <1>5, <2>1, <2>2, <2>3, <2>4, <2>5, <2>6, <2>7 DEF LinkStep
<1> QED
    BY <1>1, <1>2, <1>3, <1>4, <1>5, NextParts

-----------------------------------------------------------------------------
(* The invariant, and what it is for                                       *)

LEMMA NextIInv == IInv /\ [Next]_vars => IInv'
<1>1. IInv => TypeOK /\ EndsAgree
    BY DEF IInv
<1> QED
    BY <1>1, TypeNext, OrderNext, RecordNext, UnderWayNext, StopNext, NewsNext, LossNext,
       CompletedNext,
       EndsNext DEF IInv

\* The invariant holds throughout: at every moment of a study the loop can count
\* on the frames under way for what it does not know yet.
THEOREM Inductive == Spec => []IInv
BY InitIInv, NextIInv, PTL DEF Spec

\* No study of a bench that keeps its steps' delays and timeouts is ended by the
\* watchdog (next_deadline, study.rs), if none of its results was lost.
THEOREM NoFalseTimeout == Spec => []WorkingBenchIsNotTimedOut
<1>1. IInv => WorkingBenchIsNotTimedOut
    BY DEF IInv, NewsIsInTime
<1> QED
    BY <1>1, Inductive, PTL

\* A study said to be completed has a whole file, whichever Core says so, and the
\* file confesses every tap's loss that the frames can tell.
THEOREM CompletedRecordIsTrue == Spec => []RecordIsTrue
<1>1. ASSUME IInv PROVE RecordIsTrue
    <2>1. TypeOK /\ EndsAgree /\ CompletedIsWhole
        BY <1>1 DEF IInv
    <2>2. Status = "completed" => disk.file = "final"
        BY <2>1 DEF EndsAgree, Status, StatusFromDisk
    <2>3. disk.file = "final" =>
            /\ ToSet(disk.steps) = Step \ garbled /\ Ascending(disk.steps)
            /\ lost \subseteq excused \cup disk.streams
        BY <2>1 DEF CompletedIsWhole, Whole
    <2>4. disk.file = "final" => lost \ excused \subseteq disk.streams
        BY <2>3
    <2> QED
        BY <2>1, <2>2, <2>3, <2>4 DEF RecordIsTrue
<1> QED
    BY <1>1, Inductive, PTL

\* early_stop_reason names the step at which the bench stopped, if every result
\* came through.
THEOREM StopReasonIsRight == Spec => []StopIsPutDownRight
<1>1. ASSUME IInv PROVE StopIsPutDownRight
    BY <1>1 DEF IInv, StopIsUnderWay, StopIsPutDownRight
<1> QED
    BY <1>1, Inductive, PTL

\* What a client was told of a study's end stays true, across a restart too.
THEOREM EndsStay == Spec => EndsStayTrue
<1>1. IInv /\ [Next]_vars =>
        [/\ Status = "completed" => Status' = "completed"
         /\ Status = "failed" => Status' \in {"failed", "interrupted", "unknown"}
         /\ Status \in {"interrupted", "unknown"} => Status' = Status]_vars
    <2> SUFFICES ASSUME IInv, Next
                 PROVE  /\ Status = "completed" => Status' = "completed"
                        /\ Status = "failed" => Status' \in {"failed", "interrupted", "unknown"}
                        /\ Status \in {"interrupted", "unknown"} => Status' = Status
        OBVIOUS
    <2>e. EndsAgree /\ TypeOK
        BY DEF IInv
    <2>1. CASE LinkStep \/ LoopStep \/ DeadlinePasses \/ LinkFails
        <3>1. UNCHANGED <<job, disk>>
            BY <2>1, LinkKeeps, LoopKeeps DEF DeadlinePasses, LinkFails
        <3> QED
            BY <3>1, <2>e DEF Status, StatusFromDisk, EndsAgree, TypeOK
    <2>2. CASE SetupFails \/ Start \/ Seal \/ Finish \/ FinishFails \/ Complete \/ FailJob
        <3>1. job = "running" /\ job' \in {"running", "completed", "failed"}
            BY <2>2, <2>e DEF SetupFails, Start, Seal, Finish, FinishFails, Complete, FailJob,
               EndsAgree
        <3> QED
            BY <3>1 DEF Status
    <2>3. CASE Restart
        <3>1. job' = "none" /\ UNCHANGED disk /\ job # "none"
            BY <2>3, <2>e DEF Restart, EndsAgree
        <3> QED
            BY <3>1, <2>e DEF Status, StatusFromDisk, EndsAgree, TypeOK
    <2> QED
        BY <2>1, <2>2, <2>3, NextParts DEF EndStep, Next, BenchStep, LinkStep
<1> QED
    BY <1>1, Inductive, PTL DEF Spec, EndsStayTrue
=============================================================================
