---------------------------- MODULE Serial_proofs ----------------------------
(***************************************************************************)
(* Proofs about what comes over a serial port.                             *)
(*                                                                         *)
(* Dialogs, for any kinds of dialog, command, marker, device and times:    *)
(* how long a dialog takes, what ends it early, and whose bytes its reply  *)
(* is.  Streams, for any records and any size of a segment: what the store *)
(* and its sidecar say of what was lost, and when what is left arrived.    *)
(* Link, for any number and length of messages, faults and links: frames   *)
(* arrive once and in order, and damage stays where it was done.           *)
(***************************************************************************)
EXTENDS Dialogs, Streams, Link, FiniteSetTheorems, SequenceTheorems, WellFoundedInduction, TLAPS

-----------------------------------------------------------------------------
(* Induction over a set of numbers, and sequences                          *)

LEMMA SetInduction ==
    ASSUME NEW S, 0 \in S, \A n \in Nat : n \in S => n + 1 \in S
    PROVE  Nat \subseteq S
<1> SUFFICES ASSUME Nat \ S # {} PROVE FALSE
    OBVIOUS
<1>1. PICK m \in Nat \ S : \A n \in Nat \ S : ~(<<n, m>> \in OpToRel(<, Nat))
    BY WFMin, NatLessThanWellFounded
<1>2. m - 1 \in Nat /\ m - 1 < m
    OBVIOUS
<1>3. m - 1 \in S
    BY <1>1, <1>2 DEF OpToRel
<1> QED
    BY <1>2, <1>3

Begun(start) == [done |-> <<>>, pending |-> start]
Fed(f, start, bytes, k) ==
    f = [n \in 0 .. k |-> IF n = 0 THEN Begun(start) ELSE Feed(f[n - 1], bytes[n])]

\* A sequence that is not empty is what is before its last element, and that element.
LEMMA FrontAndLast ==
    ASSUME NEW T, NEW s \in Seq(T), NEW n \in Nat, Len(s) = n + 1
    PROVE  /\ SubSeq(s, 1, n) \in Seq(T) /\ Len(SubSeq(s, 1, n)) = n
           /\ s[n + 1] \in T
           /\ s = Append(SubSeq(s, 1, n), s[n + 1])
<1> DEFINE r == SubSeq(s, 1, n)
           e == s[n + 1]
<1>1. e \in T /\ \A i \in 1 .. n : s[i] \in T
    BY ElementOfSeq
<1>2. r \in Seq(T) /\ Len(r) = n /\ \A i \in 1 .. n : r[i] = s[i]
    BY <1>1, SubSeqProperties
<1>3. Append(r, e) \in Seq(T) /\ Len(Append(r, e)) = n + 1
      /\ \A i \in 1 .. n + 1 : Append(r, e)[i] = s[i]
    <2> HIDE DEF r, e
    <2>1. /\ Append(r, e) \in Seq(T) /\ Len(Append(r, e)) = n + 1
          /\ \A i \in 1 .. n : Append(r, e)[i] = r[i]
          /\ Append(r, e)[n + 1] = e
        BY <1>1, <1>2, AppendProperties
    <2> QED
        BY <1>2, <2>1 DEF e
<1>4. s = Append(r, e)
    BY <1>3, SeqEqual
<1> QED
    BY <1>1, <1>2, <1>4

\* An element is appended to the second of two sequences, or to both.
LEMMA ConcatAppend ==
    ASSUME NEW T, NEW x \in Seq(T), NEW y \in Seq(T), NEW e \in T
    PROVE  x \o Append(y, e) = Append(x \o y, e)
<1>1. <<e>> \in Seq(T) /\ x \o y \in Seq(T)
    OBVIOUS
<1>2. Append(y, e) = y \o <<e>> /\ Append(x \o y, e) = (x \o y) \o <<e>>
    BY <1>1, AppendIsConcat
<1>3. (x \o y) \o <<e>> = x \o (y \o <<e>>)
    BY <1>1, ConcatAssociative
<1> QED
    BY <1>2, <1>3, Zenon

-----------------------------------------------------------------------------
(* Dialogs: the invariant                                                  *)

Cells == Cell \cup Byte \cup {NewLine}
Stage == {"idle", "finding", "log", "pace_flush", "pace_command", "done", "failed"}
            \cup Exchanging
Seen == {"seen", "seen_truncated"}
Ends == Seen \cup {"truncated", "late"}     \* what a read loop comes to
DialogAnswers == {"none", "not_written", "cut", "perhaps_written", "written", "lost"} \cup Ends

PlacesOK ==
    /\ kind \in Dialog
    /\ step \in Stage
    /\ afterEcho \in BOOLEAN
    /\ answer \in DialogAnswers
    /\ pause \in {0, 1}
    /\ draining \in BOOLEAN /\ untidy \in BOOLEAN

NumbersOK ==
    /\ left \in Nat /\ wait \in Nat /\ spent \in Nat /\ overrun \in Nat /\ dialogs \in Nat
    /\ sent \in 0 .. Len(Line)
    /\ lastSent \in 0 .. MinInterval /\ rest \in 0 .. MinInterval
    /\ fresh \in 0 .. FlushWait

BytesOK ==
    /\ got \in Seq(Cells) /\ inbox \in Seq(Cells)
    /\ flushed \in Seq(Cells) /\ replied \in Seq(Cells)
    /\ searchFrom \in Nat \cup {None} /\ matchedEnd \in Nat \cup {None}

DialogTypeOK == PlacesOK /\ NumbersOK /\ BytesOK

\* What a step says of the dialog it belongs to.
KindMatchesStep ==
    /\ step \in {"pace_flush", "flush", "pace_command", "command"} => kind \in Instrument
    /\ step = "console" => kind = "console"
    /\ step = "log" => kind = "log"
    /\ afterEcho /\ step # "idle" => kind = "console"

UpToFlushWait(k) == IF k <= FlushWait THEN k ELSE FlushWait

\* The time a step took and the time it has left are its budget, and what its
\* port took for the line after that.
TimesAddUp ==
    /\ step \in Exchanging \cup {"finding"} => spent + left = Budget + overrun
    /\ step = "log" =>
          /\ wait = LogPoll
          /\ spent + left = Timeout \/ (left = 0 /\ spent <= Timeout + LogPoll)
    /\ Reading => wait = 1
    /\ draining => step \in Exchanging /\ sent = Len(Line)
    /\ step = "flush" => fresh = UpToFlushWait(spent)

\* What pace goes by is the time since the last exchange came to its end.
PaceIsKept ==
    /\ rest = lastSent
    /\ step \in {"flush", "command"} => rest = MinInterval

\* The search that goes on from read to read is a search of all that was read.
SearchStart(bytes, behindEcho) ==
    IF behindEcho THEN After(Find(bytes, Command, 0), Command) ELSE 0

IsSearchOf(bytes, marker, behindEcho, from, end) ==
    /\ from = SearchStart(bytes, behindEcho)
    /\ end = None <=> Markers(bytes, marker, behindEcho) = {}
    /\ end # None => \E j \in Markers(bytes, marker, behindEcho) : end = j + Len(marker)

SearchIsWhole ==
    /\ step \in Exchanging \cup {"pace_command", "done"} /\ kind # "log" =>
          IsSearchOf(got, Marker, afterEcho, searchFrom, matchedEnd)
    /\ step \in Exchanging => Len(got) < MaxRead

\* An answer says whether the marker was found, and an early one is earned.
AnswerIsRight ==
    ReadBack =>
        /\ answer \in Seen <=> matchedEnd # None
        /\ step = "done" /\ left > 0 /\ Len(got) < MaxRead =>
              /\ matchedEnd # None /\ inbox = <<>>
              /\ pause = 1 \/ LineEnds(got, matchedEnd)

\* As long as the device is tidy, all it said to the flush line is read by the
\* time the command goes out, and it will not say more.
FlushIsOver == NewLine \in ToSet(flushed) \/ fresh = FlushWait

RepliesStayApart ==
    /\ step = "finding" => flushed = <<>> /\ replied = <<>>
    /\ kind \in Instrument /\ ~untidy =>
          /\ step \in {"pace_flush", "flush", "pace_command"} => replied = <<>>
          /\ step = "pace_flush" \/ (step = "flush" /\ sent = 0) =>
                inbox = <<>> /\ flushed = <<>>
          /\ step = "flush" => got \o inbox = flushed /\ Len(flushed) < MaxRead
          /\ step = "pace_command" /\ answer # "lost" => inbox = <<>> /\ FlushIsOver
          /\ step = "command" /\ sent < Len(Line) =>
                /\ got = <<>> /\ replied = <<>>
                /\ answer # "lost" => inbox = <<>> /\ FlushIsOver
          /\ step = "command" /\ sent = Len(Line) => got \o inbox = replied
          /\ ReadBack /\ step = "done" => IsPrefix(got, replied)

DialogIInv ==
    /\ DialogTypeOK
    /\ KindMatchesStep
    /\ TimesAddUp
    /\ EndsInTime
    /\ PaceIsKept
    /\ SearchIsWhole
    /\ AnswerIsRight
    /\ RepliesStayApart

-----------------------------------------------------------------------------
(* Minima, and where a needle is in a reply                                *)

\* A set of numbers has a least one, and it is what Min says.
LEMMA MinIsLeast ==
    ASSUME NEW T, T \subseteq Nat, T # {}
    PROVE  Min(T) \in T /\ \A n \in T : Min(T) <= n
<1>1. PICK m \in T : \A n \in T : ~(<<n, m>> \in OpToRel(<, Nat))
    BY WFMin, NatLessThanWellFounded
<1>2. \A n \in T : ~(n < m)
    BY <1>1 DEF OpToRel
<1>3. \A n \in T : m <= n
    BY <1>2
<1> QED
    BY <1>3 DEF Min

LEMMA MinOfTwo ==
    ASSUME NEW a \in Nat, NEW b \in Nat
    PROVE  Min({a, b}) = IF a <= b THEN a ELSE b
BY MinIsLeast

LEMMA MaxOfThree ==
    ASSUME NEW a \in Nat, NEW b \in Nat, NEW c \in Nat
    PROVE  Max({a, b, c}) \in Nat /\ Max({a, b, c}) >= a /\ Max({a, b, c}) >= b
               /\ Max({a, b, c}) >= c
<1>1. \E x \in {a, b, c} : \A y \in {a, b, c} : x >= y
    OBVIOUS
<1>2. Max({a, b, c}) \in {a, b, c} /\ \A y \in {a, b, c} : Max({a, b, c}) >= y
    BY <1>1 DEF Max
<1> QED
    BY <1>2

\* What find compares at one place.
LEMMA HasIsPrefix ==
    ASSUME NEW hay \in Seq(Cells), NEW needle \in Seq(Cells), needle # <<>>, NEW i \in Nat
    PROVE  IsPrefix(needle, SubSeq(hay, i + 1, Len(hay))) <=> Has(hay, needle, i)
<1> DEFINE suffix == SubSeq(hay, i + 1, Len(hay))
<1>1. SubSeq(needle, 1, Len(needle)) = needle /\ Len(needle) \in Nat \ {0}
    BY SubSeqFull
<1>2. Len(suffix) = IF i + 1 <= Len(hay) THEN Len(hay) - i ELSE 0
    BY SubSeqProperties, \A k \in i + 1 .. Len(hay) : hay[k] \in Cells
<1>3. ASSUME i + Len(needle) <= Len(hay)
      PROVE  SubSeq(suffix, 1, Len(needle)) = SubSeq(hay, i + 1, i + Len(needle))
    BY <1>1, <1>3, SubSeqOfSubSeq, i + 1 \in 1 .. Len(hay), Len(hay) \in 1 .. Len(hay)
<1>4. CASE i + Len(needle) <= Len(hay)
    <2>1. Len(suffix) >= Len(needle)
        BY <1>1, <1>2, <1>4
    <2>2. Has(hay, needle, i) <=> SubSeq(suffix, 1, Len(needle)) = needle
        BY <1>3, <1>4 DEF Has
    <2> HIDE DEF suffix
    <2>3. IsPrefix(needle, suffix)
            <=> SubSeq(needle, 1, Len(needle)) = SubSeq(suffix, 1, Len(needle))
        BY <2>1 DEF IsPrefix
    <2>4. IsPrefix(needle, suffix) <=> needle = SubSeq(suffix, 1, Len(needle))
        BY ONLY <2>3, <1>1
    <2> QED
        BY <2>2, <2>4 DEF suffix
<1>5. CASE ~(i + Len(needle) <= Len(hay))
    BY <1>1, <1>2, <1>5 DEF IsPrefix, Has
<1> QED
    BY <1>4, <1>5

\* find returns the first place at or after from, or None.
LEMMA FindIs ==
    ASSUME NEW hay \in Seq(Cells), NEW needle \in Seq(Cells), needle # <<>>, NEW from \in Nat
    PROVE  LET f == Find(hay, needle, from)
           IN  /\ f = None => \A i \in Nat : i >= from => ~Has(hay, needle, i)
               /\ f # None => /\ f \in Nat /\ f >= from /\ Has(hay, needle, f)
                              /\ \A i \in Nat : i >= from /\ Has(hay, needle, i) => f <= i
<1> DEFINE hits == {i \in from .. Len(hay) - 1 : IsPrefix(needle, SubSeq(hay, i + 1, Len(hay)))}
<1>1. hits \subseteq Nat /\ Len(needle) \in Nat \ {0}
    OBVIOUS
<1>2. \A i \in Nat : i \in hits <=> i >= from /\ Has(hay, needle, i)
    BY <1>1, HasIsPrefix DEF Has
<1>3. Find(hay, needle, from) = IF hits = {} THEN None ELSE Min(hits)
    BY DEF Find
<1>4. CASE hits = {}
    BY <1>2, <1>3, <1>4
<1>5. CASE hits # {}
    <2>1. Min(hits) \in hits /\ \A i \in hits : Min(hits) <= i
        BY <1>1, <1>5, MinIsLeast
    <2>2. Min(hits) \in Nat /\ Min(hits) # None
        BY <1>1, <2>1, DialogsAssumption
    <2> HIDE DEF hits
    <2> QED
        BY <1>2, <1>3, <1>5, <2>1, <2>2
<1> QED
    BY <1>4, <1>5

\* What is in a reply stays there when more is read, and nothing else comes to
\* be within what was read.
LEMMA HasOfConcat ==
    ASSUME NEW a \in Seq(Cells), NEW b \in Seq(Cells), NEW needle \in Seq(Cells),
           needle # <<>>, NEW i \in Nat
    PROVE  /\ Has(a, needle, i) => Has(a \o b, needle, i)
           /\ i + Len(needle) <= Len(a) /\ Has(a \o b, needle, i) => Has(a, needle, i)
<1>1. Len(a \o b) = Len(a) + Len(b) /\ Len(needle) \in Nat \ {0}
    BY ConcatProperties
<1>2. ASSUME i + Len(needle) <= Len(a)
      PROVE  SubSeq(a \o b, i + 1, i + Len(needle)) = SubSeq(a, i + 1, i + Len(needle))
    BY <1>1, <1>2, SubSeqOfConcat1
<1> QED
    BY <1>1, <1>2 DEF Has

LEMMA PrefixOfConcat ==
    ASSUME NEW a \in Seq(Cells), NEW b \in Seq(Cells), NEW n \in 0 .. Len(b)
    PROVE  IsPrefix(a \o SubSeq(b, 1, n), a \o b)
<1> DEFINE h == a \o SubSeq(b, 1, n)
           t == a \o b
<1>1. SubSeq(b, 1, n) \in Seq(Cells) /\ Len(SubSeq(b, 1, n)) = n
    BY SubSeqProperties, \A i \in 1 .. n : b[i] \in Cells
<1>2. h \in Seq(Cells) /\ t \in Seq(Cells) /\ Len(h) = Len(a) + n /\ Len(t) = Len(a) + Len(b)
    BY <1>1, ConcatProperties
<1>3. \A i \in 1 .. Len(h) : h[i] = t[i]
    BY <1>1, <1>2, ConcatProperties, SubSeqProperties
<1> HIDE DEF h, t
<1>4. SubSeq(h, 1, Len(h)) = h
    BY <1>2, SubSeqFull
<1>5. /\ SubSeq(t, 1, Len(h)) \in Seq(Cells) /\ Len(SubSeq(t, 1, Len(h))) = Len(h)
      /\ \A i \in 1 .. Len(h) : SubSeq(t, 1, Len(h))[i] = t[i]
    BY <1>2, SubSeqProperties, \A i \in 1 .. Len(h) : t[i] \in Cells
<1>6. SubSeq(t, 1, Len(h)) = h
    BY <1>2, <1>3, <1>5, SeqEqual
<1> QED
    BY <1>2, <1>4, <1>6 DEF IsPrefix, h, t

LEMMA AppendOfConcat ==
    ASSUME NEW a \in Seq(Cells), NEW b \in Seq(Cells), NEW c \in Cells
    PROVE  a \o Append(b, c) = Append(a \o b, c)
    BY ConcatAppend

LEMMA FindStays ==
    ASSUME NEW a \in Seq(Cells), NEW b \in Seq(Cells), NEW needle \in Seq(Cells),
           needle # <<>>, Find(a, needle, 0) # None
    PROVE  Find(a \o b, needle, 0) = Find(a, needle, 0)
<1> DEFINE f == Find(a, needle, 0)
           g == Find(a \o b, needle, 0)
<1>1. f \in Nat /\ Has(a, needle, f) /\ \A i \in Nat : Has(a, needle, i) => f <= i
    BY FindIs
<1>2. Has(a \o b, needle, f) /\ a \o b \in Seq(Cells)
    BY <1>1, HasOfConcat, ConcatProperties
<1>3. g \in Nat /\ Has(a \o b, needle, g) /\ g <= f
    BY <1>1, <1>2, FindIs
<1>4. g + Len(needle) <= Len(a)
    BY <1>1, <1>3 DEF Has
<1>5. f <= g
    BY <1>1, <1>3, <1>4, HasOfConcat
<1> QED
    BY <1>1, <1>3, <1>5

-----------------------------------------------------------------------------
(* The search that goes on from read to read                               *)

LEMMA LinesAre ==
    /\ Command \in Seq(Cells) /\ Command # <<>> /\ Len(Command) \in Nat \ {0}
    /\ Marker \in Seq(Cells) /\ Marker # <<>> /\ Len(Marker) \in Nat \ {0}
    /\ Len(Line) = IF step = "flush" THEN 1 ELSE Len(Command) + 1
    /\ Len(Line') = IF step' = "flush" THEN 1 ELSE Len(Command) + 1
<1>1. Seq(Cell) \subseteq Seq(Cells)
    BY SeqMonotonic DEF Cells
<1>2. <<NewLine>> \in Seq(Cells) /\ <<NewLine>> # <<>> /\ Len(<<NewLine>>) = 1
    BY DEF Cells
<1>3. Command \in Seq(Cells) /\ Command # <<>> /\ Until \in Seq(Cells) /\ Until # <<>>
    BY <1>1, DialogsAssumption
<1>4. Len(Append(Command, NewLine)) = Len(Command) + 1 /\ Len(Command) \in Nat \ {0}
    BY <1>3
<1>5. Len(Until) \in Nat \ {0}
    BY <1>3
<1> QED
    BY <1>2, <1>3, <1>4, <1>5 DEF Marker, Line

\* Where the search starts is behind the first echo.
LEMMA CommenceIs ==
    ASSUME NEW h \in Seq(Cells), NEW echo \in BOOLEAN
    PROVE  /\ SearchStart(h, echo) \in Nat \cup {None}
           /\ \A j \in Nat :
                 SearchStart(h, echo) # None /\ SearchStart(h, echo) <= j
                 <=> (echo => \E i \in 0 .. j : Has(h, Command, i) /\ i + Len(Command) <= j)
<1> DEFINE f == Find(h, Command, 0)
<1>1. /\ f = None => \A i \in Nat : ~Has(h, Command, i)
      /\ f # None => /\ f \in Nat /\ Has(h, Command, f)
                     /\ \A i \in Nat : Has(h, Command, i) => f <= i
    BY FindIs, LinesAre
<1>2. None \notin Nat /\ Len(Command) \in Nat
    BY DialogsAssumption, LinesAre
<1>3. SearchStart(h, echo) = IF ~echo THEN 0 ELSE IF f = None THEN None ELSE f + Len(Command)
    BY DEF SearchStart, After
<1> HIDE DEF f
<1> QED
    BY <1>1, <1>2, <1>3

LEMMA MarkersAre ==
    ASSUME NEW h \in Seq(Cells), NEW marker \in Seq(Cells), marker # <<>>, NEW echo \in BOOLEAN
    PROVE  /\ Markers(h, marker, echo) \subseteq Nat
           /\ \A j \in Nat : j \in Markers(h, marker, echo)
                 <=> /\ Has(h, marker, j)
                     /\ SearchStart(h, echo) # None /\ SearchStart(h, echo) <= j
<1>1. \A j \in Nat : Has(h, marker, j) => j \in 0 .. Len(h)
    BY DEF Has
<1> QED
    BY <1>1, CommenceIs DEF Markers

\* Before anything is read there is nothing to be found.
LEMMA NothingIsFound ==
    ASSUME NEW marker \in Seq(Cells), marker # <<>>, NEW echo \in BOOLEAN
    PROVE  IsSearchOf(<<>>, marker, echo, IF echo THEN None ELSE 0, None)
<1>1. <<>> \in Seq(Cells) /\ Len(marker) \in Nat \ {0} /\ Len(Command) \in Nat \ {0}
    BY LinesAre
<1>2. \A i \in Nat : ~Has(<<>>, marker, i) /\ ~Has(<<>>, Command, i)
    BY <1>1 DEF Has
<1>3. Markers(<<>>, marker, echo) = {}
    BY <1>2 DEF Markers
<1>4. Find(<<>>, Command, 0) = None
    BY <1>1, <1>2, FindIs, LinesAre
<1> QED
    BY <1>3, <1>4 DEF IsSearchOf, SearchStart, After

\* What ReadSome makes of the search so far.
FromEcho(bytes, from) ==
    IF from = None THEN After(Find(bytes, Command, 0), Command) ELSE from

MatchedEnd(bytes, marker, from, end) ==
    IF end # None THEN end
    ELSE IF FromEcho(bytes, from) = None THEN None
    ELSE After(Find(bytes, marker, FromEcho(bytes, from)), marker)

\* More is read: the search so far and a look at the whole come to a search of
\* the whole.
LEMMA SearchGoesOn ==
    ASSUME NEW a \in Seq(Cells), NEW b \in Seq(Cells), NEW marker \in Seq(Cells), marker # <<>>,
           NEW echo \in BOOLEAN, NEW from \in Nat \cup {None}, NEW end \in Nat \cup {None},
           IsSearchOf(a, marker, echo, from, end)
    PROVE  LET newEnd == MatchedEnd(a \o b, marker, from, end)
           IN  /\ IsSearchOf(a \o b, marker, echo, FromEcho(a \o b, from), newEnd)
               /\ newEnd \in Nat \cup {None}
<1> DEFINE h == a \o b
           fromEcho == FromEcho(h, from)
           newEnd == MatchedEnd(h, marker, from, end)
<1>0. /\ fromEcho = IF from = None THEN After(Find(h, Command, 0), Command) ELSE from
      /\ newEnd = IF end # None THEN end ELSE IF fromEcho = None THEN None
                  ELSE After(Find(h, marker, fromEcho), marker)
    BY DEF FromEcho, MatchedEnd
<1> SUFFICES IsSearchOf(h, marker, echo, fromEcho, newEnd) /\ newEnd \in Nat \cup {None}
    OBVIOUS
<1> HIDE DEF fromEcho, newEnd
<1>1. h \in Seq(Cells) /\ Len(marker) \in Nat \ {0}
    BY ConcatProperties
<1>2. fromEcho = SearchStart(h, echo)
    <2>1. CASE ~echo
        BY <1>0, <2>1, DialogsAssumption DEF IsSearchOf, SearchStart
    <2>2. CASE echo /\ from = None
        BY <1>0, <2>2 DEF SearchStart
    <2>3. CASE echo /\ from # None
        <3>1. Find(a, Command, 0) # None
            BY <2>3 DEF IsSearchOf, SearchStart, After
        <3>2. Find(h, Command, 0) = Find(a, Command, 0)
            BY <3>1, FindStays, LinesAre
        <3> QED
            BY <1>0, <2>3, <3>2 DEF IsSearchOf, SearchStart
    <2> QED
        BY <2>1, <2>2, <2>3
<1>3. CASE end # None
    <2>1. PICK j \in Markers(a, marker, echo) : end = j + Len(marker)
        BY <1>3 DEF IsSearchOf
    <2>2. j \in Nat /\ Has(a, marker, j) /\ from # None /\ from <= j
        BY <2>1, MarkersAre DEF IsSearchOf
    <2>3. Has(h, marker, j) /\ fromEcho = from
        BY <1>0, <2>2, HasOfConcat
    <2>4. SearchStart(h, echo) # None /\ SearchStart(h, echo) <= j
        BY <1>2, <2>2, <2>3
    <2>5. j \in Markers(h, marker, echo)
        BY <1>1, <2>2, <2>3, <2>4, MarkersAre
    <2> QED
        BY <1>0, <1>2, <1>3, <2>1, <2>5 DEF IsSearchOf
<1>4. CASE end = None /\ fromEcho = None
    BY <1>0, <1>1, <1>2, <1>4, MarkersAre DEF IsSearchOf
<1>5. CASE end = None /\ fromEcho # None
    <2> DEFINE f == Find(h, marker, fromEcho)
    <2>1. fromEcho \in Nat
        BY <1>1, <1>2, <1>5, CommenceIs
    <2>2. /\ f = None => \A i \in Nat : i >= fromEcho => ~Has(h, marker, i)
          /\ f # None => f \in Nat /\ f >= fromEcho /\ Has(h, marker, f)
        BY <1>1, <2>1, FindIs
    <2>3. CASE f = None
        <3>1. newEnd = None
            BY <1>0, <1>5, <2>3 DEF After
        <3>2. Markers(h, marker, echo) = {}
            BY <1>1, <1>2, <1>5, <2>2, <2>3, MarkersAre, <2>1
        <3> QED
            BY <1>2, <3>1, <3>2 DEF IsSearchOf
    <2>4. CASE f # None
        <3>1. newEnd = f + Len(marker) /\ newEnd \in Nat /\ newEnd # None
            BY <1>0, <1>1, <1>5, <2>2, <2>4, DialogsAssumption DEF After
        <3>2. f \in Markers(h, marker, echo)
            BY <1>1, <1>2, <1>5, <2>1, <2>2, <2>4, MarkersAre
        <3> QED
            BY <1>2, <3>1, <3>2 DEF IsSearchOf
    <2> QED
        BY <2>3, <2>4
<1> QED
    BY <1>3, <1>4, <1>5

-----------------------------------------------------------------------------
(* Time, and what a read loop comes to                                     *)

LEMMA SpendIs ==
    ASSUME DialogTypeOK, NEW k \in Nat, Spend(k)
    PROVE  /\ left' = IF k > left THEN 0 ELSE left - k
           /\ spent' = spent + k
           /\ fresh' = IF fresh + k <= FlushWait THEN fresh + k ELSE FlushWait
           /\ left' \in Nat /\ spent' \in Nat /\ fresh' \in 0 .. FlushWait
<1>1. left \in Nat /\ spent \in Nat /\ fresh \in Nat /\ FlushWait \in Nat
    BY DialogsAssumption DEF DialogTypeOK, NumbersOK
<1>2. Min({fresh + k, FlushWait}) = IF fresh + k <= FlushWait THEN fresh + k ELSE FlushWait
    BY <1>1, MinOfTwo
<1> QED
    BY <1>1, <1>2 DEF Spend

LEMMA AgeIs ==
    ASSUME DialogTypeOK, NEW k \in Nat, Age(k)
    PROVE  /\ lastSent' = IF lastSent + k <= MinInterval THEN lastSent + k ELSE MinInterval
           /\ rest' = IF rest + k <= MinInterval THEN rest + k ELSE MinInterval
           /\ lastSent' \in 0 .. MinInterval /\ rest' \in 0 .. MinInterval
<1>1. lastSent \in Nat /\ rest \in Nat /\ MinInterval \in Nat
    BY DialogsAssumption DEF DialogTypeOK, NumbersOK
<1>2. \A n \in Nat : Min({n, MinInterval}) = IF n <= MinInterval THEN n ELSE MinInterval
    BY <1>1, MinOfTwo
<1> QED
    BY <1>1, <1>2 DEF Age

LEMMA VerdictIs ==
    ASSUME NEW bytes \in Seq(Cells), NEW end, NEW silent \in BOOLEAN, NEW budget \in Nat
    PROVE  LET v == Verdict(bytes, end, silent, budget)
               ready == silent \/ LineEnds(bytes, end) \/ budget = 0
               room == Len(bytes) < MaxRead
           IN  /\ ~room /\ end # None => v = "seen_truncated"
               /\ ~room /\ end = None => v = "truncated"
               /\ room /\ end # None /\ ready => v = "seen"
               /\ room /\ end = None /\ budget = 0 => v = "late"
               /\ room /\ end # None /\ ~ready => v = ""
               /\ room /\ end = None /\ budget # 0 => v = ""
<1> DEFINE v == Verdict(bytes, end, silent, budget)
           ready == silent \/ LineEnds(bytes, end) \/ budget = 0
           room == Len(bytes) < MaxRead
<1>1. Len(bytes) >= MaxRead <=> ~room
    BY DialogsAssumption
<1>2. ~room /\ end # None => v = "seen_truncated"
    BY <1>1, Zenon DEF Verdict
<1>3. ~room /\ end = None => v = "truncated"
    BY <1>1, Zenon DEF Verdict
<1>4. room /\ end # None /\ ready => v = "seen"
    BY <1>1, Zenon DEF Verdict
<1>5. room /\ end = None /\ budget = 0 => v = "late"
    BY <1>1, Zenon DEF Verdict
<1>6. room /\ end # None /\ ~ready => v = ""
    BY <1>1, Zenon DEF Verdict
<1>7. room /\ end = None /\ budget # 0 => v = ""
    BY <1>1, Zenon DEF Verdict
<1> HIDE DEF v, ready, room
<1>8. /\ ~room /\ end # None => v = "seen_truncated"
      /\ ~room /\ end = None => v = "truncated"
      /\ room /\ end # None /\ ready => v = "seen"
      /\ room /\ end = None /\ budget = 0 => v = "late"
      /\ room /\ end # None /\ ~ready => v = ""
      /\ room /\ end = None /\ budget # 0 => v = ""
    BY ONLY <1>2, <1>3, <1>4, <1>5, <1>6, <1>7, Zenon
<1> QED
    BY ONLY <1>8, Zenon DEF v, ready, room

\* A pass after which another one follows, and the ones that end the loop.
LEMMA LoopGoesOn ==
    ASSUME NEW bytes \in Seq(Cells), NEW end, NEW silent \in BOOLEAN, NEW budget \in Nat,
           Verdict(bytes, end, silent, budget) = ""
    PROVE  Len(bytes) < MaxRead /\ budget # 0
<1> DEFINE v == Verdict(bytes, end, silent, budget)
<1>1. v # "seen_truncated" /\ v # "truncated" /\ v # "seen" /\ v # "late"
    BY Zenon
<1>2. CASE end # None
    BY <1>1, <1>2, VerdictIs, Zenon
<1>3. CASE end = None
    BY <1>1, <1>3, VerdictIs, Zenon
<1> QED
    BY <1>2, <1>3, Zenon

LEMMA LoopEnds ==
    ASSUME NEW bytes \in Seq(Cells), NEW end, NEW silent \in BOOLEAN, NEW budget \in Nat,
           Verdict(bytes, end, silent, budget) # ""
    PROVE  /\ Verdict(bytes, end, silent, budget) \in Ends
           /\ Verdict(bytes, end, silent, budget) \in Seen <=> end # None
<1> DEFINE v == Verdict(bytes, end, silent, budget)
           ready == silent \/ LineEnds(bytes, end) \/ budget = 0
<1>1. ASSUME NEW word, NEW found, found # None => word = "seen" \/ word = "seen_truncated",
             found = None => word = "truncated" \/ word = "late"
      PROVE  word \in Ends /\ (word \in Seen <=> found # None)
    BY ONLY <1>1 DEF Ends, Seen
<1>2. CASE ~(Len(bytes) < MaxRead) /\ end # None
    <2>1. v = "seen_truncated"
        BY <1>2, VerdictIs, Zenon
    <2> QED
        BY <1>1, <1>2, <2>1, Zenon
<1>3. CASE ~(Len(bytes) < MaxRead) /\ end = None
    <2>1. v = "truncated"
        BY <1>3, VerdictIs, Zenon
    <2> QED
        BY <1>1, <1>3, <2>1, Zenon
<1>4. CASE Len(bytes) < MaxRead /\ end # None
    <2>1. ~ready => v = ""
        BY <1>4, VerdictIs, Zenon
    <2>2. ready => v = "seen"
        BY <1>4, VerdictIs, Zenon
    <2> HIDE DEF ready
    <2>3. v = "seen"
        BY <2>1, <2>2, Zenon
    <2> QED
        BY <1>1, <1>4, <2>3, Zenon
<1>5. CASE Len(bytes) < MaxRead /\ end = None
    <2>1. budget # 0 => v = ""
        BY <1>5, VerdictIs, Zenon
    <2>2. budget = 0 => v = "late"
        BY <1>5, VerdictIs, Zenon
    <2>3. v = "late"
        BY <2>1, <2>2, Zenon
    <2> QED
        BY <1>1, <1>5, <2>3, Zenon
<1> QED
    BY <1>2, <1>3, <1>4, <1>5, Zenon

LEMMA LoopEndsEarly ==
    ASSUME NEW bytes \in Seq(Cells), NEW end, NEW silent \in BOOLEAN, NEW budget \in Nat,
           Verdict(bytes, end, silent, budget) # "", Len(bytes) < MaxRead, budget # 0
    PROVE  end # None /\ (silent \/ LineEnds(bytes, end))
BY VerdictIs, Zenon

\* One pass of the read loop: what it reads follows on what was read, and the
\* search and the verdict are of the whole.
LEMMA ReadIs ==
    ASSUME DialogIInv, (\E k \in 0 .. 1 : ReadSome(k)) \/ ReadNothing
    PROVE  \E k \in 0 .. 1, silent \in BOOLEAN :
              /\ step \in Exchanging /\ sent = Len(Line) /\ ~draining
              /\ got' \in Seq(Cells) /\ inbox' = <<>>
              /\ \/ got' = got \o inbox
                 \/ Len(got') = MaxRead /\ IsPrefix(got', got \o inbox)
              /\ IsSearchOf(got', Marker, afterEcho, searchFrom', matchedEnd')
              /\ {searchFrom', matchedEnd'} \subseteq Nat \cup {None}
              /\ Spend(k) /\ Pass(Verdict(got', matchedEnd', silent, left'), k)
              /\ pause' \in {0, 1} /\ (silent => pause' = 1)
              /\ UNCHANGED <<kind, afterEcho, wait, sent, draining, overrun, dialogs, flushed,
                             replied, untidy>>
<1>1. /\ got \in Seq(Cells) /\ inbox \in Seq(Cells) /\ pause \in {0, 1} /\ afterEcho \in BOOLEAN
      /\ searchFrom \in Nat \cup {None} /\ matchedEnd \in Nat \cup {None}
      /\ Len(got) \in Nat /\ Len(inbox) \in Nat /\ MaxRead \in Nat
    <2>1. /\ got \in Seq(Cells) /\ inbox \in Seq(Cells) /\ pause \in {0, 1} /\ afterEcho \in BOOLEAN
          /\ searchFrom \in Nat \cup {None} /\ matchedEnd \in Nat \cup {None}
        BY DEF DialogIInv, DialogTypeOK, PlacesOK, BytesOK
    <2> QED
        BY <2>1, DialogsAssumption
<1>2. step \in Exchanging /\ sent = Len(Line) /\ ~draining /\ kind # "log"
    BY DEF ReadSome, ReadNothing, Reading, DialogIInv, KindMatchesStep, Exchanging, Instrument
<1>3. IsSearchOf(got, Marker, afterEcho, searchFrom, matchedEnd) /\ Len(got) < MaxRead
    BY <1>2 DEF DialogIInv, SearchIsWhole
<1>4. CASE \E k \in 0 .. 1 : ReadSome(k)
    <2>1. PICK k \in 0 .. 1 : ReadSome(k)
        BY <1>4
    <2> DEFINE n == Min({Len(inbox), MaxRead - Len(got)})
               b == SubSeq(inbox, 1, n)
    <2>2. n = IF Len(inbox) <= MaxRead - Len(got) THEN Len(inbox) ELSE MaxRead - Len(got)
        BY <1>1, <1>3, MaxRead - Len(got) \in Nat, MinOfTwo
    <2> HIDE DEF n
    <2>3. b \in Seq(Cells) /\ Len(b) = n /\ n \in Nat
        BY <1>1, <1>3, <2>2, SubSeqProperties, \A i \in 1 .. n : inbox[i] \in Cells
    <2>4. \/ b = inbox
          \/ Len(got \o b) = MaxRead /\ IsPrefix(got \o b, got \o inbox)
        <3>1. CASE Len(inbox) <= MaxRead - Len(got)
            BY <1>1, <2>2, <3>1, SubSeqFull
        <3>2. CASE Len(inbox) > MaxRead - Len(got)
            <4>1. n = MaxRead - Len(got) /\ n \in 0 .. Len(inbox)
                BY <1>1, <1>3, <2>2, <3>2
            <4>2. IsPrefix(got \o b, got \o inbox)
                BY <1>1, <4>1, PrefixOfConcat
            <4>3. Len(got \o b) = Len(got) + n
                BY <1>1, <2>3, ConcatProperties
            <4> QED
                BY <1>1, <4>1, <4>2, <4>3
        <3> HIDE DEF b
        <3> QED
            BY <1>1, <3>1, <3>2
    <2>5. /\ got' = got \o b /\ inbox' = <<>>
          /\ searchFrom' = FromEcho(got \o b, searchFrom)
          /\ matchedEnd' = MatchedEnd(got \o b, Marker, searchFrom, matchedEnd)
          /\ Spend(k) /\ Pass(Verdict(got', matchedEnd', FALSE, left'), k)
          /\ UNCHANGED <<kind, afterEcho, wait, sent, draining, overrun, dialogs, pause, flushed,
                         replied, untidy>>
        BY <2>1 DEF ReadSome, Search, FromEcho, MatchedEnd, n, writeVars
    <2> HIDE DEF b
    <2>6. /\ IsSearchOf(got \o b, Marker, afterEcho, searchFrom', matchedEnd')
          /\ matchedEnd' \in Nat \cup {None}
        <3>1. Marker \in Seq(Cells) /\ Marker # <<>>
            BY LinesAre
        <3> QED
            BY ONLY <1>1, <1>3, <2>3, <2>5, <3>1, SearchGoesOn
    <2>7. got \o b \in Seq(Cells)
        BY <1>1, <2>3, ConcatProperties
    <2>8. searchFrom' \in Nat \cup {None}
        BY <1>1, <2>6, <2>7, CommenceIs DEF IsSearchOf
    <2> WITNESS k \in 0 .. 1, FALSE \in BOOLEAN
    <2> QED
        BY <1>1, <1>2, <2>4, <2>5, <2>6, <2>7, <2>8
<1>5. CASE ReadNothing
    <2>1. wait = 1
        BY <1>2, <1>5 DEF ReadNothing, DialogIInv, TimesAddUp
    <2>2. /\ inbox = <<>> /\ pause' = 1 /\ Spend(1)
          /\ Pass(Verdict(got, matchedEnd, TRUE, left'), 1)
          /\ UNCHANGED <<kind, afterEcho, wait, sent, draining, overrun, got, searchFrom,
                         matchedEnd, inbox, dialogs, flushed, replied, untidy>>
        BY <2>1, <1>5 DEF ReadNothing, searchVars, writeVars
    <2>3. /\ got' = got \o inbox /\ got' \in Seq(Cells) /\ inbox' = <<>>
          /\ IsSearchOf(got', Marker, afterEcho, searchFrom', matchedEnd')
          /\ {searchFrom', matchedEnd'} \subseteq Nat \cup {None}
          /\ Pass(Verdict(got', matchedEnd', TRUE, left'), 1)
        BY <1>1, <1>3, <2>2, ConcatEmptySeq
    <2> WITNESS 1 \in 0 .. 1, TRUE \in BOOLEAN
    <2> QED
        BY <1>2, <2>2, <2>3
<1> QED
    BY <1>4, <1>5

-----------------------------------------------------------------------------
(* The invariant holds                                                     *)

LEMMA Numbers ==
    DialogTypeOK => /\ left \in Nat /\ wait \in Nat /\ spent \in Nat /\ dialogs \in Nat
              /\ overrun \in Nat
              /\ sent \in Nat /\ lastSent \in Nat /\ rest \in Nat /\ fresh \in Nat
BY LinesAre, DialogsAssumption DEF DialogTypeOK, PlacesOK, NumbersOK, BytesOK

LEMMA Bytes ==
    DialogTypeOK => /\ got \in Seq(Cells) /\ inbox \in Seq(Cells)
              /\ flushed \in Seq(Cells) /\ replied \in Seq(Cells)
              /\ Len(got) \in Nat /\ Len(inbox) \in Nat /\ Len(flushed) \in Nat
              /\ searchFrom \in Nat \cup {None} /\ matchedEnd \in Nat \cup {None}
<1> SUFFICES ASSUME DialogTypeOK PROVE Bytes!2
    OBVIOUS
<1>1. /\ got \in Seq(Cells) /\ inbox \in Seq(Cells)
      /\ flushed \in Seq(Cells) /\ replied \in Seq(Cells)
      /\ searchFrom \in Nat \cup {None} /\ matchedEnd \in Nat \cup {None}
    BY DEF DialogTypeOK, PlacesOK, NumbersOK, BytesOK
<1>2. Len(got) \in Nat /\ Len(inbox) \in Nat /\ Len(flushed) \in Nat
    BY <1>1
<1> QED
    BY <1>1, <1>2

LEMMA Kinds ==
    DialogTypeOK => kind \in {"console", "query", "set", "log"} /\ afterEcho \in BOOLEAN
BY DialogsAssumption DEF DialogTypeOK, PlacesOK, NumbersOK, BytesOK

LEMMA Durations ==
    /\ Timeout \in Nat \ {0} /\ PortWait \in Nat /\ FlushWait \in Nat \ {0}
    /\ MinInterval \in Nat /\ LogPoll \in Nat \ {0} /\ MaxRead \in Nat \ {0}
BY DialogsAssumption

LEMMA BudgetIs ==
    /\ step = "flush" => Budget = FlushWait
    /\ step = "finding" => Budget = PortWait
    /\ step \notin {"flush", "finding"} => Budget = Timeout
    /\ step' = "flush" => Budget' = FlushWait
    /\ step' = "finding" => Budget' = PortWait
    /\ step' \notin {"flush", "finding"} => Budget' = Timeout
BY DEF Budget

LEMMA PartOfSum ==
    ASSUME NEW a \in Nat, NEW b \in Nat, NEW c \in Nat, NEW d \in Nat, a + b = c + d
    PROVE  a <= c + d
OBVIOUS

LEMMA WithinLonger ==
    ASSUME NEW a \in Nat, NEW b \in Nat, NEW c \in Nat, NEW d \in Nat, a <= b + d, c >= b
    PROVE  a <= c + d
OBVIOUS

LEMMA DialogInitIInv == DialogInit => DialogIInv
<1> SUFFICES ASSUME DialogInit PROVE DialogIInv
    OBVIOUS
<1> USE DEF DialogInit
<1>1. DialogTypeOK
    <2>1. <<>> \in Seq(Cells) /\ 0 \in 0 .. Len(Line)
        BY LinesAre
    <2>2. PlacesOK
        BY DEF PlacesOK, Stage, DialogAnswers
    <2>3. NumbersOK
        BY <2>1, Durations DEF NumbersOK
    <2>4. BytesOK
        BY <2>1 DEF BytesOK
    <2> QED
        BY <2>2, <2>3, <2>4 DEF DialogTypeOK
<1>2. KindMatchesStep /\ PaceIsKept
    BY DEF KindMatchesStep, PaceIsKept
<1>3. TimesAddUp
    BY DEF TimesAddUp, Reading, Exchanging
<1>4. EndsInTime
    BY DEF EndsInTime
<1>5. SearchIsWhole /\ AnswerIsRight /\ RepliesStayApart
    BY DEF SearchIsWhole, AnswerIsRight, RepliesStayApart, Exchanging, ReadBack
<1> QED
    BY <1>1, <1>2, <1>3, <1>4, <1>5 DEF DialogIInv

LEMMA SpeakIInv ==
    ASSUME DialogIInv, NEW cell \in Cell, Speak(cell)
    PROVE  DialogIInv'
<1>0. /\ cell \in Cells /\ step \notin Over \cup {"finding"} /\ answer # "lost"
      /\ inbox' = Append(inbox, cell) /\ pause' = 0
      /\ UNCHANGED <<kind, step, afterEcho, wait, sent, draining, overrun, got, searchFrom,
                     matchedEnd, answer, dialogs, left, spent, lastSent, rest, fresh>>
    BY DEF Speak, Cells, clocks, searchVars, writeVars
<1>1. DialogTypeOK'
    <2>1. inbox' \in Seq(Cells) /\ Append(replied, cell) \in Seq(Cells)
          /\ Append(flushed, cell) \in Seq(Cells)
        BY <1>0, Bytes, AppendProperties DEF DialogIInv
    <2>2. replied' \in Seq(Cells) /\ flushed' \in Seq(Cells) /\ untidy' \in BOOLEAN
        BY <2>1, Bytes DEF DialogIInv, Speak, DialogTypeOK, PlacesOK
    <2> QED
        BY <1>0, <2>1, <2>2 DEF DialogIInv, DialogTypeOK, PlacesOK, NumbersOK, BytesOK, Line
<1>2. KindMatchesStep'
    BY <1>0 DEF DialogIInv, KindMatchesStep
<1>3. TimesAddUp'
    BY <1>0 DEF DialogIInv, TimesAddUp, Reading, Line, Budget
<1>4. EndsInTime'
    BY <1>0 DEF DialogIInv, EndsInTime, Budget
<1>5. PaceIsKept'
    BY <1>0 DEF DialogIInv, PaceIsKept
<1>6. SearchIsWhole'
    BY <1>0 DEF DialogIInv, SearchIsWhole, Marker
<1>7. AnswerIsRight'
    BY <1>0 DEF DialogIInv, AnswerIsRight, ReadBack, Over
<1>8. RepliesStayApart'
    <2> SUFFICES ASSUME kind \in Instrument, ~untidy' PROVE RepliesStayApart'
        BY <1>0 DEF RepliesStayApart, Over, Instrument
    <2>1. got \o inbox' = Append(got \o inbox, cell)
        BY <1>0, Bytes, AppendOfConcat DEF DialogIInv
    <2>2. CASE step = "command" /\ sent = Len(Line) /\ replied' = Append(replied, cell)
               /\ UNCHANGED <<flushed, untidy>>
        <3>1. got \o inbox = replied
            BY <2>2 DEF DialogIInv, RepliesStayApart
        <3>2. got \o inbox' = replied' /\ ~(sent < Len(Line))
            BY <2>1, <2>2, <3>1, LinesAre
        <3>3. Line' = Line
            BY <1>0 DEF Line
        <3> QED
            BY <1>0, <2>2, <3>2, <3>3 DEF RepliesStayApart, ReadBack
    <2>3. CASE /\ \/ step = "flush" /\ sent = Len(Line)
                  \/ step = "pace_command"
                  \/ step = "command" /\ sent < Len(Line)
               /\ untidy' = (untidy \/ NewLine \in ToSet(flushed) \/ fresh >= FlushWait
                                \/ Len(flushed) + 1 >= MaxRead)
               /\ flushed' = Append(flushed, cell)
               /\ UNCHANGED replied
        <3>1. ~untidy /\ ~(NewLine \in ToSet(flushed)) /\ ~(fresh >= FlushWait)
              /\ ~(Len(flushed) + 1 >= MaxRead)
            BY <2>3
        <3>2. ~FlushIsOver
            BY <3>1, Durations DEF FlushIsOver
        <3>3. Len(flushed') = Len(flushed) + 1 /\ Len(flushed') < MaxRead
            BY <1>0, <2>3, <3>1, Bytes, Durations, AppendProperties DEF DialogIInv
        <3>4. step = "flush" /\ sent = Len(Line)
            BY <1>0, <2>3, <3>1, <3>2 DEF DialogIInv, RepliesStayApart
        <3>5. sent # 0
            BY <3>4, LinesAre
        <3> QED
            BY <1>0, <2>1, <2>3, <3>1, <3>3, <3>4, <3>5 DEF DialogIInv, RepliesStayApart, ReadBack
    <2>4. CASE untidy' = TRUE
        BY <2>4
    <2> QED
        BY <2>2, <2>3, <2>4 DEF Speak
<1> QED
    BY <1>1, <1>2, <1>3, <1>4, <1>5, <1>6, <1>7, <1>8 DEF DialogIInv

LEMMA BeginIInv ==
    ASSUME DialogIInv, NEW k \in Dialog, Begin(k)
    PROVE  DialogIInv'
<1>0. /\ kind' = k /\ step' = "finding" /\ afterEcho' \in BOOLEAN /\ (afterEcho' => k = "console")
      /\ left' = PortWait /\ spent' = 0 /\ overrun' = 0 /\ dialogs' = dialogs + 1
      /\ got' = <<>> /\ sent' = 0 /\ inbox' = <<>> /\ answer' = "none"
      /\ searchFrom' = None /\ matchedEnd' = None
      /\ flushed' = <<>> /\ replied' = <<>> /\ untidy' = FALSE
      /\ ~draining /\ UNCHANGED <<wait, draining, lastSent, rest, pause, fresh>>
    BY DEF Begin, Over, Exchanging, DialogIInv, TimesAddUp
<1>1. DialogTypeOK'
    <2>1. <<>> \in Seq(Cells) /\ 0 \in 0 .. Len(Line')
        BY LinesAre
    <2>2. dialogs' \in Nat /\ PortWait \in Nat
        BY <1>0, Numbers, Durations DEF DialogIInv
    <2>3. PlacesOK'
        BY <1>0 DEF DialogIInv, DialogTypeOK, PlacesOK, Stage, DialogAnswers
    <2>4. NumbersOK'
        BY <1>0, <2>1, <2>2 DEF DialogIInv, DialogTypeOK, NumbersOK
    <2>5. BytesOK'
        BY <1>0, <2>1 DEF BytesOK
    <2> QED
        BY <2>3, <2>4, <2>5 DEF DialogTypeOK
<1>2. KindMatchesStep'
    BY <1>0 DEF KindMatchesStep
<1>3. TimesAddUp'
    BY <1>0, Durations, BudgetIs DEF TimesAddUp, Reading, Exchanging
<1>4. EndsInTime'
    BY <1>0, Durations, BudgetIs DEF EndsInTime
<1>5. PaceIsKept'
    BY <1>0 DEF DialogIInv, PaceIsKept
<1>6. SearchIsWhole'
    BY <1>0 DEF SearchIsWhole, Exchanging
<1>7. AnswerIsRight'
    BY <1>0 DEF AnswerIsRight, ReadBack
<1>8. RepliesStayApart'
    BY <1>0 DEF RepliesStayApart, ReadBack
<1> QED
    BY <1>1, <1>2, <1>3, <1>4, <1>5, <1>6, <1>7, <1>8 DEF DialogIInv

LEMMA AbsentIInv ==
    ASSUME DialogIInv, Absent
    PROVE  DialogIInv'
<1>0. /\ step = "finding" /\ spent + left = PortWait + overrun /\ rest = lastSent
      /\ flushed = <<>> /\ replied = <<>> /\ left \in Nat /\ spent \in Nat
      /\ overrun \in Nat /\ ~draining
    BY BudgetIs, Numbers DEF Absent, DialogIInv, TimesAddUp, PaceIsKept, RepliesStayApart, Exchanging
<1>1. /\ \/ /\ left > 0 /\ left' = left - 1 /\ spent' = spent + 1
            /\ step' = step /\ answer' = answer
         \/ step' = "failed" /\ answer' = "not_written" /\ left' = left /\ spent' = spent
      /\ left' \in Nat /\ spent' \in Nat /\ fresh' \in 0 .. FlushWait
      /\ lastSent' \in 0 .. MinInterval /\ rest' = lastSent'
      /\ UNCHANGED <<kind, afterEcho, wait, sent, draining, overrun, got, searchFrom, matchedEnd,
                     inbox, dialogs, pause, flushed, replied, untidy>>
    <2>1. UNCHANGED <<kind, afterEcho, wait, sent, draining, overrun, got, searchFrom, matchedEnd,
                      inbox, dialogs, pause, flushed, replied, untidy>>
        BY DEF Absent, searchVars, writeVars
    <2>2. CASE left > 0 /\ Elapse(1) /\ UNCHANGED <<step, answer>>
        <3>1. DialogTypeOK /\ Spend(1) /\ Age(1)
            BY <2>2 DEF DialogIInv, Elapse
        <3>2. /\ left' = (IF 1 > left THEN 0 ELSE left - 1) /\ spent' = spent + 1
              /\ left' \in Nat /\ spent' \in Nat /\ fresh' \in 0 .. FlushWait
            BY <3>1, SpendIs
        <3>3. lastSent' \in 0 .. MinInterval /\ rest' = lastSent'
            BY <1>0, <3>1, AgeIs
        <3> QED
            BY <1>0, <2>1, <2>2, <3>2, <3>3
    <2>3. CASE step' = "failed" /\ answer' = "not_written" /\ UNCHANGED clocks
        BY <1>0, <2>1, <2>3 DEF DialogIInv, DialogTypeOK, NumbersOK, clocks
    <2> QED
        BY <2>2, <2>3 DEF Absent
<1>2. DialogTypeOK'
    <2>1. PlacesOK'
        BY <1>1 DEF DialogIInv, DialogTypeOK, PlacesOK, Stage, DialogAnswers
    <2>2. NumbersOK'
        BY <1>0, <1>1, LinesAre DEF DialogIInv, DialogTypeOK, NumbersOK
    <2>3. BytesOK'
        BY <1>1 DEF DialogIInv, DialogTypeOK, BytesOK
    <2> QED
        BY <2>1, <2>2, <2>3 DEF DialogTypeOK
<1>3. KindMatchesStep'
    BY <1>0, <1>1 DEF DialogIInv, KindMatchesStep
<1>4. TimesAddUp'
    BY <1>0, <1>1, BudgetIs DEF TimesAddUp, Reading, Exchanging
<1>5. EndsInTime'
    <2>1. spent' <= PortWait + overrun'
        BY <1>0, <1>1
    <2>2. step' = "failed" => spent' <= Max({PortWait, FlushWait, Timeout}) + overrun'
        <3> DEFINE longest == Max({PortWait, FlushWait, Timeout})
        <3>1. longest \in Nat /\ longest >= PortWait /\ PortWait \in Nat
            BY MaxOfThree, Durations
        <3> HIDE DEF longest
        <3>2. spent' <= longest + overrun'
            BY <1>0, <1>1, <2>1, <3>1
        <3> QED
            BY <3>2 DEF longest
    <2> QED
        BY <1>0, <1>1, <2>1, <2>2, BudgetIs DEF EndsInTime
<1>6. PaceIsKept'
    BY <1>0, <1>1 DEF PaceIsKept
<1>7. SearchIsWhole' /\ AnswerIsRight' /\ RepliesStayApart'
    BY <1>0, <1>1 DEF SearchIsWhole, AnswerIsRight, RepliesStayApart, ReadBack, Exchanging
<1> QED
    BY <1>2, <1>3, <1>4, <1>5, <1>6, <1>7 DEF DialogIInv

LEMMA OpenIInv ==
    ASSUME DialogIInv, Open
    PROVE  DialogIInv'
<1>0. /\ step = "finding" /\ flushed = <<>> /\ replied = <<>> /\ rest = lastSent
      /\ (afterEcho => kind = "console") /\ ~draining
    BY DEF Open, DialogIInv, PaceIsKept, RepliesStayApart, KindMatchesStep, TimesAddUp, Exchanging
<1>1. /\ \/ kind = "console" /\ step' = "console" /\ left' = Timeout /\ wait' = 1
         \/ kind = "log" /\ step' = "log" /\ left' = Timeout /\ wait' = LogPoll
         \/ kind \in Instrument /\ step' = "pace_flush" /\ left' = 0 /\ wait' = 1
      /\ spent' = 0 /\ overrun' = 0 /\ sent' = 0 /\ got' = <<>>
      /\ searchFrom' = (IF afterEcho THEN None ELSE 0) /\ matchedEnd' = None
      /\ UNCHANGED <<kind, afterEcho, draining, answer, dialogs, lastSent, rest, pause, fresh,
                     flushed, replied, untidy>>
    <2>1. CASE kind = "console"
        BY <2>1 DEF Open, Commence
    <2>2. CASE kind = "log"
        BY <2>2 DEF Open, Commence, Instrument
    <2>3. CASE kind \in Instrument
        BY <2>3 DEF Open, Commence, Instrument
    <2> QED
        BY <2>1, <2>2, <2>3, Kinds DEF DialogIInv, Instrument
<1>2. inbox' = <<>> \/ (kind \in {"console", "log"} /\ \E cell \in Cells : inbox' = <<cell>>)
    BY DEF Open, Cells
<1>3. DialogTypeOK'
    <2>1. PlacesOK'
        BY <1>1 DEF DialogIInv, DialogTypeOK, PlacesOK, Stage, Exchanging
    <2>2. NumbersOK'
        BY <1>1, LinesAre, Durations DEF DialogIInv, DialogTypeOK, NumbersOK
    <2>3. inbox' \in Seq(Cells) /\ <<>> \in Seq(Cells)
        <3>1. CASE inbox' = <<>>
            BY <3>1
        <3>2. CASE \E cell \in Cells : inbox' = <<cell>>
            <4>1. PICK cell \in Cells : inbox' = <<cell>>
                BY <3>2
            <4> QED
                BY <4>1
        <3> QED
            BY <1>2, <3>1, <3>2
    <2>4. BytesOK'
        BY <1>1, <2>3, Kinds DEF DialogIInv, DialogTypeOK, BytesOK
    <2> QED
        BY <2>1, <2>2, <2>4 DEF DialogTypeOK
<1>4. KindMatchesStep'
    BY <1>0, <1>1 DEF KindMatchesStep, Instrument
<1>5. TimesAddUp'
    <2>1. ~Reading'
        BY <1>1, LinesAre DEF Reading
    <2> QED
        BY <1>0, <1>1, <2>1, BudgetIs, Durations DEF TimesAddUp, Exchanging
<1>6. EndsInTime'
    BY <1>1, BudgetIs, Durations DEF EndsInTime
<1>7. PaceIsKept'
    BY <1>0, <1>1 DEF PaceIsKept
<1>8. SearchIsWhole'
    <2>1. IsSearchOf(<<>>, Marker, afterEcho, searchFrom', None)
        BY <1>1, NothingIsFound, LinesAre, Kinds DEF DialogIInv
    <2>2. Marker' = Marker
        BY <1>1 DEF Marker
    <2>3. Len(got') < MaxRead
        BY <1>1, Durations
    <2> QED
        BY <1>1, <2>1, <2>2, <2>3 DEF SearchIsWhole, Exchanging
<1>9. AnswerIsRight'
    BY <1>1 DEF AnswerIsRight, ReadBack
<1>10. RepliesStayApart'
    BY <1>0, <1>1, <1>2 DEF RepliesStayApart, ReadBack, Instrument
<1> QED
    BY <1>3, <1>4, <1>5, <1>6, <1>7, <1>8, <1>9, <1>10 DEF DialogIInv

LEMMA PaceIInv ==
    ASSUME DialogIInv, Pace
    PROVE  DialogIInv'
<1>0. /\ step \in {"pace_flush", "pace_command"} /\ kind \in Instrument /\ ~afterEcho
      /\ rest = lastSent /\ lastSent \in 0 .. MinInterval
      /\ fresh \in 0 .. FlushWait /\ DialogTypeOK /\ ~draining
    BY Kinds DEF Pace, DialogIInv, KindMatchesStep, PaceIsKept, DialogTypeOK, NumbersOK, Instrument,
                 TimesAddUp, Exchanging
<1>1. UNCHANGED <<kind, afterEcho, wait, draining, answer, inbox, dialogs, flushed, replied,
                  untidy>>
    BY DEF Pace
<1>2. CASE lastSent < MinInterval
    <2>1. /\ Age(1) /\ fresh' = Min({fresh + 1, FlushWait})
          /\ UNCHANGED <<step, left, spent, overrun, sent, got, searchFrom, matchedEnd, pause>>
        BY <1>2 DEF Pace, searchVars
    <2>2. lastSent' \in 0 .. MinInterval /\ rest' = lastSent'
        BY <1>0, <2>1, AgeIs
    <2>3. fresh' \in 0 .. FlushWait /\ (fresh = FlushWait => fresh' = FlushWait)
        BY <1>0, <2>1, MinOfTwo, Durations
    <2>4. DialogTypeOK'
        <3>1. PlacesOK'
            BY <1>0, <1>1, <2>1 DEF DialogTypeOK, PlacesOK
        <3>2. NumbersOK'
            BY <1>0, <1>1, <2>1, <2>2, <2>3 DEF DialogTypeOK, NumbersOK, Line
        <3>3. BytesOK'
            BY <1>0, <1>1, <2>1 DEF DialogTypeOK, BytesOK
        <3> QED
            BY <3>1, <3>2, <3>3 DEF DialogTypeOK
    <2>5. KindMatchesStep'
        BY <1>1, <2>1 DEF DialogIInv, KindMatchesStep
    <2>6. TimesAddUp'
        BY <1>0, <1>1, <2>1 DEF TimesAddUp, Reading, Exchanging
    <2>7. EndsInTime'
        BY <1>0, <1>1, <2>1 DEF DialogIInv, EndsInTime
    <2>8. PaceIsKept'
        BY <1>0, <2>1, <2>2 DEF PaceIsKept
    <2>9. SearchIsWhole'
        BY <1>1, <2>1 DEF DialogIInv, SearchIsWhole, Marker
    <2>10. AnswerIsRight'
        BY <1>0, <1>1, <2>1 DEF DialogIInv, AnswerIsRight, ReadBack
    <2>11. RepliesStayApart'
        BY <1>0, <1>1, <2>1, <2>3 DEF DialogIInv, RepliesStayApart, ReadBack, FlushIsOver
    <2> QED
        BY <2>4, <2>5, <2>6, <2>7, <2>8, <2>9, <2>10, <2>11 DEF DialogIInv
<1>3. CASE ~(lastSent < MinInterval)
    <2>1. /\ \/ step = "pace_flush" /\ step' = "flush" /\ left' = FlushWait /\ fresh' = 0
             \/ step = "pace_command" /\ step' = "command" /\ left' = Timeout /\ fresh' = fresh
          /\ spent' = 0 /\ overrun' = 0 /\ sent' = 0 /\ got' = <<>>
          /\ searchFrom' = 0 /\ matchedEnd' = None
          /\ UNCHANGED <<lastSent, rest, pause>>
        BY <1>0, <1>3 DEF Pace, Commence
    <2>2. rest' = MinInterval /\ lastSent' = MinInterval
        BY <1>0, <1>3, <2>1, Durations
    <2>3. sent' < Len(Line')
        BY <2>1, LinesAre
    <2>4. DialogTypeOK'
        <3>1. PlacesOK'
            BY <1>0, <1>1, <2>1 DEF DialogTypeOK, PlacesOK, Stage, Exchanging
        <3>2. NumbersOK'
            BY <1>0, <1>1, <2>1, <2>2, <2>3, Durations, LinesAre DEF DialogTypeOK, NumbersOK
        <3>3. BytesOK'
            BY <1>0, <1>1, <2>1 DEF DialogTypeOK, BytesOK
        <3> QED
            BY <3>1, <3>2, <3>3 DEF DialogTypeOK
    <2>5. KindMatchesStep'
        BY <1>0, <1>1, <2>1 DEF KindMatchesStep
    <2>6. TimesAddUp'
        BY <1>0, <1>1, <2>1, <2>3, BudgetIs, Durations
           DEF TimesAddUp, Reading, Exchanging, UpToFlushWait
    <2>7. EndsInTime'
        BY <2>1, BudgetIs, Durations DEF EndsInTime
    <2>8. PaceIsKept'
        BY <2>2 DEF PaceIsKept
    <2>9. SearchIsWhole'
        <3>1. IsSearchOf(<<>>, Marker, FALSE, 0, None)
            BY NothingIsFound, LinesAre
        <3>2. Marker' = Marker /\ afterEcho' = FALSE
            BY <1>0, <1>1, Kinds DEF Marker
        <3>3. Len(got') < MaxRead
            BY <2>1, Durations
        <3> QED
            BY <2>1, <3>1, <3>2, <3>3 DEF SearchIsWhole
    <2>10. AnswerIsRight'
        BY <2>1 DEF AnswerIsRight, ReadBack
    <2>11. RepliesStayApart'
        <3>1. got' \o <<>> = <<>> /\ Len(<<>>) < MaxRead
            BY <2>1, Durations
        <3>2. CASE step = "pace_flush"
            BY <1>0, <1>1, <2>1, <2>3, <3>1, <3>2 DEF DialogIInv, RepliesStayApart, ReadBack
        <3>3. CASE step = "pace_command"
            BY <1>0, <1>1, <2>1, <2>3, <3>1, <3>3
               DEF DialogIInv, RepliesStayApart, ReadBack, FlushIsOver
        <3> QED
            BY <1>0, <3>2, <3>3
    <2> QED
        BY <2>4, <2>5, <2>6, <2>7, <2>8, <2>9, <2>10, <2>11 DEF DialogIInv
<1> QED
    BY <1>2, <1>3

\* A step fails: no later than it has to, and with nothing read.
LEMMA FailIInv ==
    ASSUME DialogIInv, step # "idle", step' = "failed", answer' \in DialogAnswers,
           left' \in Nat, spent' \in Nat, wait' \in Nat, sent' \in 0 .. Len(Line'),
           fresh' \in 0 .. FlushWait, lastSent' \in 0 .. MinInterval, rest' = lastSent',
           overrun' \in Nat, draining' = FALSE,
           \/ spent' <= PortWait + overrun'
           \/ spent' <= FlushWait + overrun'
           \/ spent' <= Timeout + overrun',
           UNCHANGED <<kind, afterEcho, got, searchFrom, matchedEnd, inbox, dialogs,
                       pause, flushed, replied, untidy>>
    PROVE  DialogIInv'
<1>1. DialogTypeOK'
    <2>1. PlacesOK'
        BY DEF DialogIInv, DialogTypeOK, PlacesOK, Stage
    <2>2. NumbersOK'
        BY DEF DialogIInv, DialogTypeOK, NumbersOK
    <2>3. BytesOK'
        BY DEF DialogIInv, DialogTypeOK, BytesOK
    <2> QED
        BY <2>1, <2>2, <2>3 DEF DialogTypeOK
<1>2. KindMatchesStep'
    BY DEF DialogIInv, KindMatchesStep
<1>3. TimesAddUp'
    BY DEF TimesAddUp, Reading, Exchanging
<1>4. EndsInTime'
    <2> DEFINE longest == Max({PortWait, FlushWait, Timeout})
    <2>1. PortWait \in Nat /\ FlushWait \in Nat /\ Timeout \in Nat
        BY Durations
    <2>2. longest \in Nat /\ longest >= PortWait /\ longest >= FlushWait /\ longest >= Timeout
        BY ONLY <2>1, MaxOfThree
    <2>3. EndsInTime' <=> \/ spent' <= longest + overrun'
                          \/ kind' = "log" /\ spent' <= Timeout + LogPoll
        BY DEF EndsInTime
    <2> HIDE DEF longest
    <2>4. CASE spent' <= PortWait + overrun'
        <3>1. spent' <= longest + overrun'
            BY ONLY <2>1, <2>2, <2>4, spent' \in Nat, overrun' \in Nat, WithinLonger
        <3> QED
            BY <2>3, <3>1
    <2>5. CASE spent' <= FlushWait + overrun'
        <3>1. spent' <= longest + overrun'
            BY ONLY <2>1, <2>2, <2>5, spent' \in Nat, overrun' \in Nat, WithinLonger
        <3> QED
            BY <2>3, <3>1
    <2>6. CASE spent' <= Timeout + overrun'
        <3>1. spent' <= longest + overrun'
            BY ONLY <2>1, <2>2, <2>6, spent' \in Nat, overrun' \in Nat, WithinLonger
        <3> QED
            BY <2>3, <3>1
    <2> QED
        BY <2>4, <2>5, <2>6
<1>5. PaceIsKept'
    BY DEF PaceIsKept
<1>6. SearchIsWhole' /\ AnswerIsRight'
    BY DEF SearchIsWhole, AnswerIsRight, ReadBack, Exchanging
<1>7. RepliesStayApart'
    BY DEF RepliesStayApart, ReadBack
<1> QED
    BY <1>1, <1>2, <1>3, <1>4, <1>5, <1>6, <1>7 DEF DialogIInv

\* An exchange comes to its end.
LEMMA ConcludeIInv ==
    ASSUME DialogIInv, step \in Exchanging, NEW what, what \in Ends \cup {"written", "lost"},
           Conclude(what),
           what = "written" => step = "command",
           what \notin {"written", "lost"} => (what \in Seen <=> matchedEnd' # None),
           what \notin {"written", "lost"} /\ left' > 0 /\ Len(got') < MaxRead =>
                /\ matchedEnd' # None /\ inbox' = <<>>
                /\ pause' = 1 \/ LineEnds(got', matchedEnd'),
           BytesOK', IsSearchOf(got', Marker, afterEcho, searchFrom', matchedEnd'),
           left' \in Nat, spent' \in Nat, wait' \in Nat, sent' = Len(Line),
           fresh' \in 0 .. FlushWait, pause' \in {0, 1}, overrun \in Nat,
           spent' <= Budget + overrun + 1, draining' = FALSE,
           step = "flush" /\ ~untidy /\ what # "lost" =>
                inbox' = <<>> /\ (NewLine \in ToSet(flushed) \/ fresh' = FlushWait),
           step = "command" /\ ~untidy /\ what \notin {"written", "lost"} =>
                IsPrefix(got', replied),
           UNCHANGED <<kind, afterEcho, overrun, dialogs, flushed, replied, untidy>>
    PROVE  DialogIInv'
<1>1. /\ answer' = what /\ rest' = lastSent'
      /\ lastSent' \in 0 .. MinInterval
      /\ step' = IF step = "flush" THEN "pace_command" ELSE "done"
    BY Durations DEF Conclude, Mark, DialogIInv, PaceIsKept, DialogTypeOK, NumbersOK
<1>2. DialogTypeOK'
    <2>1. PlacesOK'
        BY <1>1 DEF DialogIInv, DialogTypeOK, PlacesOK, Stage, DialogAnswers
    <2>2. sent' \in 0 .. Len(Line')
        BY <1>1, LinesAre
    <2>3. NumbersOK'
        BY <1>1, <2>2 DEF DialogIInv, DialogTypeOK, NumbersOK
    <2> QED
        BY <2>1, <2>3 DEF DialogTypeOK
<1>3. KindMatchesStep'
    BY <1>1 DEF DialogIInv, KindMatchesStep, Exchanging, Instrument
<1>4. TimesAddUp'
    BY <1>1 DEF TimesAddUp, Reading, Exchanging
<1>5. EndsInTime'
    <2>1. kind # "log" /\ (step = "flush" => spent' <= FlushWait + overrun' + 1)
            /\ (step # "flush" => spent' <= Timeout + overrun' + 1)
        BY BudgetIs DEF DialogIInv, KindMatchesStep, Exchanging, Instrument
    <2>2. kind' # "log"
        BY <2>1
    <2>3. CASE step = "flush"
        BY <1>1, <2>1, <2>3 DEF EndsInTime
    <2>4. CASE step # "flush"
        <3>1. step' = "done" /\ spent' <= Timeout + overrun' + 1
            BY <1>1, <2>1, <2>4
        <3>2. Timeout + overrun' + 1 = Timeout + (overrun' + 1)
            BY Durations
        <3> QED
            BY <2>2, <3>1, <3>2 DEF EndsInTime
    <2> QED
        BY <2>3, <2>4
<1>6. PaceIsKept'
    BY <1>1 DEF PaceIsKept
<1>7. SearchIsWhole'
    <2>1. Marker' = Marker
        BY DEF Marker
    <2> QED
        BY <1>1, <2>1 DEF SearchIsWhole, Exchanging
<1>8. AnswerIsRight'
    BY <1>1 DEF AnswerIsRight, ReadBack
<1>9. RepliesStayApart'
    <2> SUFFICES ASSUME kind \in Instrument, ~untidy PROVE RepliesStayApart'
        BY <1>1 DEF RepliesStayApart
    <2>1. CASE step = "flush"
        BY <1>1, <2>1 DEF DialogIInv, RepliesStayApart, ReadBack, FlushIsOver
    <2>2. CASE step # "flush"
        <3>1. step = "command"
            BY <2>2 DEF DialogIInv, KindMatchesStep, Exchanging, Instrument
        <3> QED
            BY <1>1, <3>1 DEF RepliesStayApart, ReadBack
    <2> QED
        BY <2>1, <2>2
<1> QED
    BY <1>2, <1>3, <1>4, <1>5, <1>6, <1>7, <1>8, <1>9 DEF DialogIInv

\* The time that passes in a call to write or to flush the line: before the
\* deadline it is what was left at most, and after it an overrun.
TimePasses(k) ==
    /\ Elapse(k)
    /\ \/ k <= left /\ overrun' = overrun
       \/ left = 0 /\ overrun' = overrun + k

LEMMA OutlastIs ==
    ASSUME NEW k \in Nat, Outlast(k)
    PROVE  TimePasses(k)
BY DEF Outlast, TimePasses

LEMMA TimeIs ==
    ASSUME DialogIInv, step \in Exchanging, NEW k \in Nat, TimePasses(k)
    PROVE  /\ left' \in Nat /\ spent' \in Nat /\ overrun' \in Nat
           /\ spent' + left' = Budget + overrun'
           /\ fresh' \in 0 .. FlushWait /\ (fresh = FlushWait => fresh' = FlushWait)
           /\ step = "flush" => fresh' = UpToFlushWait(spent')
           /\ lastSent' \in 0 .. MinInterval /\ rest' = lastSent'
           /\ step \in {"flush", "command"} => rest' = MinInterval
<1>1. /\ DialogTypeOK /\ spent \in Nat /\ left \in Nat /\ overrun \in Nat
      /\ spent + left = Budget + overrun /\ fresh \in 0 .. FlushWait
      /\ step = "flush" => fresh = UpToFlushWait(spent)
      /\ rest = lastSent /\ (step \in {"flush", "command"} => rest = MinInterval)
    BY Numbers DEF DialogIInv, DialogTypeOK, NumbersOK, TimesAddUp, PaceIsKept
<1>2. /\ left' = (IF k > left THEN 0 ELSE left - k) /\ spent' = spent + k
      /\ fresh' = IF fresh + k <= FlushWait THEN fresh + k ELSE FlushWait
      /\ left' \in Nat /\ spent' \in Nat /\ fresh' \in 0 .. FlushWait
    BY <1>1, SpendIs DEF TimePasses, Elapse
<1>3. overrun' \in Nat /\ spent' + left' = Budget + overrun'
    <2>1. Budget \in Nat
        BY BudgetIs, Durations
    <2>2. CASE k <= left /\ overrun' = overrun
        BY <1>1, <1>2, <2>1, <2>2
    <2>3. CASE left = 0 /\ overrun' = overrun + k
        BY <1>1, <1>2, <2>1, <2>3
    <2> QED
        BY <2>2, <2>3 DEF TimePasses
<1>4. /\ fresh = FlushWait => fresh' = FlushWait
      /\ step = "flush" => fresh' = UpToFlushWait(spent')
    BY <1>1, <1>2, Durations DEF UpToFlushWait
<1>5. /\ lastSent' \in 0 .. MinInterval /\ rest' = lastSent'
      /\ step \in {"flush", "command"} => rest' = MinInterval
    BY <1>1, AgeIs, Durations DEF TimePasses, Elapse
<1> QED
    BY <1>2, <1>3, <1>4, <1>5

\* The line goes out, and is flushed once it is whole.
LEMMA WriteGoesOn ==
    ASSUME DialogIInv, Writing, answer # "lost", NEW k \in Nat, TimePasses(k),
           sent' \in sent .. Len(Line), wait' \in Nat, draining' \in BOOLEAN,
           draining' <=> sent' = Len(Line),
           UNCHANGED <<kind, step, afterEcho, got, searchFrom, matchedEnd, answer, inbox, dialogs,
                       pause, flushed, replied, untidy>>
    PROVE  DialogIInv'
<1>1. /\ step \in Exchanging /\ sent < Len(Line) /\ sent \in Nat /\ DialogTypeOK
    BY Numbers DEF Writing, DialogIInv
<1>2. /\ left' \in Nat /\ spent' \in Nat /\ overrun' \in Nat
      /\ spent' + left' = Budget + overrun'
      /\ fresh' \in 0 .. FlushWait /\ (fresh = FlushWait => fresh' = FlushWait)
      /\ step = "flush" => fresh' = UpToFlushWait(spent')
    BY <1>1, TimeIs
<1>3. /\ lastSent' \in 0 .. MinInterval /\ rest' = lastSent'
      /\ step \in {"flush", "command"} => rest' = MinInterval
    BY <1>1, TimeIs
<1>4. Line' = Line /\ Budget' = Budget /\ Marker' = Marker /\ Budget \in Nat
    BY BudgetIs, Durations DEF Line, Budget, Marker
<1>5. DialogTypeOK'
    <2>1. PlacesOK'
        BY DEF DialogIInv, DialogTypeOK, PlacesOK
    <2>2. NumbersOK'
        BY <1>1, <1>2, <1>3, <1>4, LinesAre DEF DialogIInv, DialogTypeOK, NumbersOK
    <2>3. BytesOK'
        BY DEF DialogIInv, DialogTypeOK, BytesOK
    <2> QED
        BY <2>1, <2>2, <2>3 DEF DialogTypeOK
<1>6. KindMatchesStep'
    BY DEF DialogIInv, KindMatchesStep
<1>7. TimesAddUp'
    BY <1>1, <1>2, <1>4 DEF TimesAddUp, Reading, Exchanging
<1>8. EndsInTime'
    <2>1. spent' <= Budget + overrun'
        <3>1. /\ Budget \in Nat /\ overrun' \in Nat /\ spent' \in Nat /\ left' \in Nat
              /\ spent' + left' = Budget + overrun'
            BY <1>2, <1>4, Zenon
        <3> QED
            BY ONLY <3>1, PartOfSum
    <2> QED
        BY <1>1, <1>4, <2>1 DEF EndsInTime, Exchanging
<1>9. PaceIsKept'
    BY <1>3 DEF PaceIsKept
<1>10. SearchIsWhole'
    BY <1>4 DEF DialogIInv, SearchIsWhole
<1>11. AnswerIsRight'
    BY <1>1 DEF AnswerIsRight, ReadBack, Exchanging
<1>12. RepliesStayApart'
    <2> SUFFICES ASSUME kind \in Instrument, ~untidy PROVE RepliesStayApart'
        BY <1>1 DEF RepliesStayApart, Exchanging
    <2>1. CASE step = "flush"
        <3>0. sent = 0
            BY <1>1, <2>1, LinesAre
        <3>1. inbox = <<>> /\ flushed = <<>> /\ got \o inbox = flushed
            BY <2>1, <3>0 DEF DialogIInv, RepliesStayApart
        <3> QED
            BY <2>1, <3>1 DEF DialogIInv, RepliesStayApart, ReadBack
    <2>2. CASE step = "command"
        <3>1. got = <<>> /\ replied = <<>> /\ inbox = <<>> /\ FlushIsOver
            BY <1>1, <2>2 DEF DialogIInv, RepliesStayApart
        <3>2. FlushIsOver'
            BY <1>2, <3>1 DEF FlushIsOver
        <3>3. <<>> \o <<>> = <<>>
            OBVIOUS
        <3> QED
            BY <1>4, <2>2, <3>1, <3>2, <3>3 DEF RepliesStayApart, ReadBack
    <2> QED
        BY <1>1, <2>1, <2>2 DEF DialogIInv, KindMatchesStep, Exchanging, Instrument
<1> QED
    BY <1>5, <1>6, <1>7, <1>8, <1>9, <1>10, <1>11, <1>12 DEF DialogIInv

\* What an exchange took so far, as FailIInv wants it.
LEMMA TakenSoFar ==
    ASSUME step \in Exchanging, NEW took \in Nat, NEW more \in Nat, NEW late \in Nat,
           took + more = Budget + late
    PROVE  took <= FlushWait + late \/ took <= Timeout + late
BY BudgetIs, Durations DEF Exchanging

LEMMA WriteIInv ==
    ASSUME DialogIInv, NEW n \in 1 .. Len(Command) + 1, NEW k \in Nat, Write(n, k)
    PROVE  DialogIInv'
<1>1. /\ Writing /\ answer # "lost" /\ n \in 1 .. Len(Line) - sent /\ Outlast(k)
      /\ sent' = sent + n /\ draining' = (sent' = Len(Line)) /\ wait' = left
      /\ UNCHANGED <<kind, step, afterEcho, got, searchFrom, matchedEnd, answer, inbox, dialogs,
                     pause, flushed, replied, untidy>>
    BY DEF Write, searchVars
<1>2. sent \in Nat /\ Len(Line) \in Nat /\ left \in Nat
    BY LinesAre, Numbers DEF DialogIInv
<1>3. /\ sent' \in sent .. Len(Line) /\ wait' \in Nat
      /\ draining' \in BOOLEAN /\ (draining' <=> sent' = Len(Line))
    <2>1. sent' \in sent .. Len(Line) /\ wait' \in Nat
        BY <1>1, <1>2
    <2>2. draining' \in BOOLEAN /\ (draining' <=> sent' = Len(Line))
        BY <1>1, Zenon
    <2> QED
        BY <2>1, <2>2, Zenon
<1>4. TimePasses(k)
    BY <1>1, OutlastIs
<1> QED
    BY <1>1, <1>3, <1>4, WriteGoesOn

LEMMA StallIInv ==
    ASSUME DialogIInv, NEW k \in Nat, Stall(k)
    PROVE  DialogIInv'
<1>1. /\ Writing /\ answer # "lost" /\ k <= left /\ Elapse(k) /\ wait' = left
      /\ UNCHANGED <<kind, afterEcho, sent, draining, overrun, got, searchFrom, matchedEnd, inbox,
                     dialogs, pause, flushed, replied, untidy>>
    BY DEF Stall, searchVars
<1>2. /\ step \in Exchanging /\ sent \in Nat /\ sent < Len(Line) /\ Len(Line) \in Nat
      /\ wait' \in Nat /\ ~draining
    BY <1>1, LinesAre, Numbers DEF DialogIInv, Writing, TimesAddUp
<1>3. TimePasses(k)
    BY <1>1 DEF TimePasses
<1>4. CASE UNCHANGED <<step, answer>>
    <2>1. sent' \in sent .. Len(Line) /\ sent' # Len(Line)
        BY <1>1, <1>2
    <2>2. draining' = draining /\ ~draining /\ draining \in BOOLEAN
        BY <1>1, <1>2 DEF DialogIInv, DialogTypeOK, PlacesOK
    <2>3. draining' \in BOOLEAN /\ (draining' <=> sent' = Len(Line))
        BY <2>1, <2>2, Zenon
    <2> QED
        BY <1>1, <1>2, <1>3, <1>4, <2>1, <2>3, WriteGoesOn
<1>5. CASE Fail(IF sent = 0 THEN "not_written" ELSE "cut")
    <2>1. /\ left' \in Nat /\ spent' \in Nat /\ overrun' \in Nat
          /\ spent' + left' = Budget + overrun'
          /\ fresh' \in 0 .. FlushWait /\ lastSent' \in 0 .. MinInterval /\ rest' = lastSent'
        BY <1>2, <1>3, TimeIs
    <2>2. spent' <= FlushWait + overrun' \/ spent' <= Timeout + overrun'
        BY ONLY <1>2, <2>1, TakenSoFar
    <2>3. sent' \in 0 .. Len(Line')
        BY <1>1, <1>2, <1>5, LinesAre DEF Fail
    <2>4. step # "idle" /\ step' = "failed" /\ answer' \in DialogAnswers /\ draining' = FALSE
        BY <1>1, <1>2, <1>5 DEF Fail, DialogAnswers, Exchanging, DialogIInv, DialogTypeOK, PlacesOK
    <2> QED
        BY <1>1, <1>2, <2>1, <2>2, <2>3, <2>4, FailIInv
<1> QED
    BY <1>4, <1>5 DEF Stall

\* A call that fails takes no more time.
LEMMA FailsAtOnce ==
    ASSUME DialogIInv, step \in Exchanging, step' = "failed", answer' \in DialogAnswers,
           draining' = FALSE,
           UNCHANGED <<kind, afterEcho, wait, sent, overrun, got, searchFrom, matchedEnd, inbox,
                       dialogs, left, lastSent, spent, rest, pause, fresh, flushed, replied,
                       untidy>>
    PROVE  DialogIInv'
<1>1. /\ left \in Nat /\ spent \in Nat /\ overrun \in Nat /\ wait \in Nat
      /\ spent + left = Budget + overrun
    BY Numbers DEF DialogIInv, TimesAddUp
<1>2. spent <= FlushWait + overrun \/ spent <= Timeout + overrun
    BY ONLY <1>1, step \in Exchanging, TakenSoFar
<1>3. sent' \in 0 .. Len(Line')
    <2>1. sent <= Len(Command) + 1 /\ sent \in Nat
        BY LinesAre, Numbers DEF DialogIInv, DialogTypeOK, NumbersOK
    <2> QED
        BY <2>1, LinesAre
<1>4. /\ fresh' \in 0 .. FlushWait /\ lastSent' \in 0 .. MinInterval /\ rest' = lastSent'
      /\ step # "idle"
    BY DEF DialogIInv, DialogTypeOK, NumbersOK, PaceIsKept, Exchanging
<1> QED
    BY <1>1, <1>2, <1>3, <1>4, FailIInv

LEMMA WriteFailsIInv ==
    ASSUME DialogIInv, WriteFails
    PROVE  DialogIInv'
<1>1. /\ step \in Exchanging /\ sent < Len(Line) /\ sent \in Nat
      /\ step' = "failed" /\ answer' \in DialogAnswers
      /\ UNCHANGED <<kind, afterEcho, wait, sent, draining, overrun, got, searchFrom, matchedEnd,
                     inbox, dialogs, left, lastSent, spent, rest, pause, fresh, flushed, replied,
                     untidy>>
    BY Numbers DEF WriteFails, Writing, Fail, DialogAnswers, searchVars, writeVars, ghosts,
                   DialogIInv
<1>2. draining = FALSE
    BY <1>1, LinesAre DEF DialogIInv, TimesAddUp, DialogTypeOK, PlacesOK
<1> QED
    BY <1>1, <1>2, FailsAtOnce

LEMMA FlushFailsIInv ==
    ASSUME DialogIInv, FlushFails
    PROVE  DialogIInv'
<1>1. step \in Exchanging
    BY DEF FlushFails, DialogIInv, TimesAddUp
<1>2. /\ step' = "failed" /\ answer' \in DialogAnswers /\ draining' = FALSE
      /\ UNCHANGED <<kind, afterEcho, wait, sent, overrun, got, searchFrom, matchedEnd, inbox,
                     dialogs, left, lastSent, spent, rest, pause, fresh, flushed, replied,
                     untidy>>
    BY DEF FlushFails, Fail, DialogAnswers, searchVars, ghosts
<1> QED
    BY <1>1, <1>2, FailsAtOnce

LEMMA DrainIInv ==
    ASSUME DialogIInv, Drain
    PROVE  DialogIInv'
<1>1. /\ draining /\ step \in Exchanging /\ sent = Len(Line) /\ sent # 0 /\ ~(sent < Len(Line))
      /\ UNCHANGED <<kind, step, afterEcho, wait, sent, draining, got, searchFrom, matchedEnd,
                     answer, inbox, dialogs, pause, flushed, replied, untidy>>
    BY LinesAre DEF Drain, searchVars, DialogIInv, TimesAddUp
<1>2. TimePasses(1)
    BY OutlastIs DEF Drain
<1>3. /\ left' \in Nat /\ spent' \in Nat /\ overrun' \in Nat
      /\ spent' + left' = Budget + overrun'
      /\ fresh' \in 0 .. FlushWait
      /\ step = "flush" => fresh' = UpToFlushWait(spent')
      /\ lastSent' \in 0 .. MinInterval /\ rest' = lastSent'
      /\ step \in {"flush", "command"} => rest' = MinInterval
    BY <1>1, <1>2, TimeIs
<1>4. Line' = Line /\ Budget' = Budget /\ Marker' = Marker /\ Budget \in Nat
    BY <1>1, BudgetIs, Durations DEF Line, Budget, Marker
<1>5. DialogTypeOK'
    <2>1. PlacesOK'
        BY <1>1 DEF DialogIInv, DialogTypeOK, PlacesOK
    <2>2. NumbersOK'
        BY <1>1, <1>3, <1>4 DEF DialogIInv, DialogTypeOK, NumbersOK
    <2>3. BytesOK'
        BY <1>1 DEF DialogIInv, DialogTypeOK, BytesOK
    <2> QED
        BY <2>1, <2>2, <2>3 DEF DialogTypeOK
<1>6. KindMatchesStep'
    BY <1>1 DEF DialogIInv, KindMatchesStep
<1>7. TimesAddUp'
    BY <1>1, <1>3, <1>4 DEF TimesAddUp, Reading, Exchanging
<1>8. EndsInTime'
    <2>1. spent' <= Budget + overrun'
        <3>1. /\ Budget \in Nat /\ overrun' \in Nat /\ spent' \in Nat /\ left' \in Nat
              /\ spent' + left' = Budget + overrun'
            BY <1>3, <1>4, Zenon
        <3> QED
            BY ONLY <3>1, PartOfSum
    <2> QED
        BY <1>1, <1>4, <2>1 DEF EndsInTime, Exchanging
<1>9. PaceIsKept'
    BY <1>1, <1>3 DEF PaceIsKept
<1>10. SearchIsWhole'
    BY <1>1, <1>4 DEF DialogIInv, SearchIsWhole
<1>11. AnswerIsRight'
    BY <1>1 DEF AnswerIsRight, ReadBack, Exchanging
<1>12. RepliesStayApart'
    BY <1>1, <1>4 DEF DialogIInv, RepliesStayApart, ReadBack, Exchanging
<1> QED
    BY <1>5, <1>6, <1>7, <1>8, <1>9, <1>10, <1>11, <1>12 DEF DialogIInv

LEMMA DrainedIInv ==
    ASSUME DialogIInv, Drained
    PROVE  DialogIInv'
<1>1. /\ draining /\ draining' = FALSE /\ step \in Exchanging /\ sent = Len(Line) /\ sent # 0
      /\ ~(sent < Len(Line)) /\ DialogTypeOK
      /\ UNCHANGED <<kind, afterEcho, sent, overrun, got, searchFrom, matchedEnd, inbox, dialogs,
                     left, spent, pause, fresh, flushed, replied, untidy>>
    BY LinesAre DEF Drained, searchVars, DialogIInv, TimesAddUp
<1>2. CASE Unread /\ Conclude("written") /\ UNCHANGED wait
    <2>1. step = "command" /\ kind # "log"
        BY <1>2 DEF Unread
    <2>2. IsSearchOf(got', Marker, afterEcho, searchFrom', matchedEnd')
        <3>1. IsSearchOf(got, Marker, afterEcho, searchFrom, matchedEnd)
            BY <1>1, <2>1 DEF DialogIInv, SearchIsWhole
        <3> QED
            BY <1>1, <3>1
    <2>3. BytesOK'
        BY <1>1 DEF DialogTypeOK, BytesOK
    <2>4. /\ pause' \in {0, 1} /\ wait' \in Nat /\ left' \in Nat /\ spent' \in Nat
          /\ fresh' \in 0 .. FlushWait /\ sent' = Len(Line) /\ overrun \in Nat
        BY <1>1, <1>2, Numbers DEF DialogTypeOK, PlacesOK, NumbersOK
    <2>5. spent' <= Budget + overrun + 1
        BY <1>1, <2>4, BudgetIs, Durations DEF DialogIInv, TimesAddUp
    <2> QED
        BY <1>1, <1>2, <2>1, <2>2, <2>3, <2>4, <2>5, ConcludeIInv
<1>3. CASE wait' = 1 /\ UNCHANGED <<step, answer, lastSent, rest>>
    <2>1. Line' = Line /\ Budget' = Budget /\ Marker' = Marker
        BY <1>1, <1>3 DEF Line, Budget, Marker
    <2>2. DialogTypeOK'
        BY <1>1, <1>3, <2>1 DEF DialogTypeOK, PlacesOK, NumbersOK, BytesOK
    <2>3. KindMatchesStep'
        BY <1>1, <1>3 DEF DialogIInv, KindMatchesStep
    <2>4. TimesAddUp'
        BY <1>1, <1>3, <2>1 DEF DialogIInv, TimesAddUp, Reading, Exchanging
    <2>5. EndsInTime'
        BY <1>1, <1>3, <2>1 DEF DialogIInv, EndsInTime
    <2>6. PaceIsKept'
        BY <1>1, <1>3 DEF DialogIInv, PaceIsKept
    <2>7. SearchIsWhole'
        BY <1>1, <1>3, <2>1 DEF DialogIInv, SearchIsWhole
    <2>8. AnswerIsRight'
        BY <1>1, <1>3 DEF AnswerIsRight, ReadBack, Exchanging
    <2>9. RepliesStayApart'
        BY <1>1, <1>3, <2>1 DEF DialogIInv, RepliesStayApart, ReadBack, Exchanging
    <2> QED
        BY <2>2, <2>3, <2>4, <2>5, <2>6, <2>7, <2>8, <2>9 DEF DialogIInv
<1> QED
    BY <1>2, <1>3 DEF Drained

LEMMA FoundIsThere ==
    ASSUME NEW h \in Seq(Cells), NEW echo, Markers(h, <<NewLine>>, echo) # {}
    PROVE  NewLine \in ToSet(h)
<1>1. PICK j \in 0 .. Len(h) : Has(h, <<NewLine>>, j)
    BY DEF Markers
<1>2. j + 1 \in 1 .. Len(h) /\ SubSeq(h, j + 1, j + 1) = <<NewLine>>
    BY <1>1 DEF Has
<1>3. SubSeq(h, j + 1, j + 1)[1] = h[j + 1]
    <2>1. j + 1 \in Int /\ \A i \in j + 1 .. j + 1 : h[i] \in Cells
        BY <1>2
    <2>2. \A i \in 1 .. (j + 1) - (j + 1) + 1 :
              SubSeq(h, j + 1, j + 1)[i] = h[j + 1 + i - 1]
        BY ONLY <2>1, SubSeqProperties
    <2> QED
        BY <1>1, <2>2
<1>4. h[j + 1] = <<NewLine>>[1]
    BY <1>2, <1>3
<1>5. <<NewLine>>[1] = NewLine
    OBVIOUS
<1> QED
    BY <1>2, <1>4, <1>5 DEF ToSet

LEMMA ReadIInv ==
    ASSUME DialogIInv, (\E k \in 0 .. 1 : ReadSome(k)) \/ ReadNothing
    PROVE  DialogIInv'
<1> DEFINE Continues(k, silent) ==
              /\ step \in Exchanging /\ sent = Len(Line) /\ ~draining
              /\ got' \in Seq(Cells) /\ inbox' = <<>>
              /\ \/ got' = got \o inbox
                 \/ Len(got') = MaxRead /\ IsPrefix(got', got \o inbox)
              /\ IsSearchOf(got', Marker, afterEcho, searchFrom', matchedEnd')
              /\ {searchFrom', matchedEnd'} \subseteq Nat \cup {None}
              /\ Spend(k) /\ Pass(Verdict(got', matchedEnd', silent, left'), k)
              /\ pause' \in {0, 1} /\ (silent => pause' = 1)
              /\ UNCHANGED <<kind, afterEcho, wait, sent, draining, overrun, dialogs, flushed,
                             replied, untidy>>
<1>1. PICK k \in 0 .. 1, silent \in BOOLEAN : Continues(k, silent)
    BY ReadIs
<1> DEFINE v == Verdict(got', matchedEnd', silent, left')
<1>2. /\ step \in Exchanging /\ sent = Len(Line) /\ ~draining /\ inbox' = <<>>
      /\ got' = got \o inbox \/ (Len(got') = MaxRead /\ IsPrefix(got', got \o inbox))
      /\ IsSearchOf(got', Marker, afterEcho, searchFrom', matchedEnd')
      /\ Spend(k) /\ Pass(v, k)
      /\ pause' \in {0, 1} /\ (silent => pause' = 1)
      /\ UNCHANGED <<kind, afterEcho, wait, sent, draining, overrun, dialogs, flushed, replied,
                     untidy>>
    BY <1>1
<1>3. got' \in Seq(Cells) /\ searchFrom' \in Nat \cup {None} /\ matchedEnd' \in Nat \cup {None}
    BY <1>1
<1> HIDE DEF Continues
<1>4. /\ DialogTypeOK /\ spent \in Nat /\ left \in Nat /\ wait \in Nat /\ fresh \in 0 .. FlushWait
      /\ overrun \in Nat /\ spent + left = Budget + overrun
      /\ (step = "flush" => fresh = UpToFlushWait(spent))
      /\ k \in {0, 1}
    BY <1>2, Numbers DEF DialogIInv, TimesAddUp, DialogTypeOK, NumbersOK
<1>5. BytesOK'
    <2>1. inbox' \in Seq(Cells)
        BY <1>2
    <2> QED
        BY <1>2, <1>3, <1>4, <2>1 DEF DialogTypeOK, BytesOK
<1>6. /\ left' = (IF k > left THEN 0 ELSE left - k) /\ spent' = spent + k
      /\ fresh' = (IF fresh + k <= FlushWait THEN fresh + k ELSE FlushWait)
      /\ left' \in Nat /\ spent' \in Nat /\ fresh' \in 0 .. FlushWait
    BY <1>2, <1>4, SpendIs
<1>7. /\ v \in Ends \cup {""}
      /\ v = "" => Len(got') < MaxRead /\ left' # 0
      /\ v # "" =>
            /\ v \in Seen <=> matchedEnd' # None
            /\ Len(got') < MaxRead /\ left' # 0 =>
                  matchedEnd' # None /\ (silent \/ LineEnds(got', matchedEnd'))
    <2>1. silent \in BOOLEAN /\ left' \in Nat
        BY <1>6
    <2>2. v = "" => Len(got') < MaxRead /\ left' # 0
        BY ONLY <1>3, <2>1, LoopGoesOn
    <2>3. v # "" => v \in Ends /\ (v \in Seen <=> matchedEnd' # None)
        BY ONLY <1>3, <2>1, LoopEnds
    <2>4. v # "" /\ Len(got') < MaxRead /\ left' # 0 =>
             matchedEnd' # None /\ (silent \/ LineEnds(got', matchedEnd'))
        BY ONLY <1>3, <2>1, LoopEndsEarly
    <2> HIDE DEF v
    <2> QED
        BY <2>2, <2>3, <2>4
<1>8. Len(got \o inbox) \in Nat /\ Len(got') \in Nat /\ got' \o <<>> = got' /\ IsPrefix(got', got')
    BY <1>3, <1>4, Bytes, ConcatEmptySeq DEF IsPrefix
<1> HIDE DEF v
<1>9. CASE v = ""
    <2>1. Age(k) /\ UNCHANGED <<step, answer>> /\ Len(got') < MaxRead /\ left' # 0
        BY <1>2, <1>7, <1>9 DEF Pass
    <2>2. got' = got \o inbox
        BY <1>2, <1>8, <2>1, Durations
    <2>3. Line' = Line /\ Budget' = Budget /\ Marker' = Marker
        BY <1>2, <2>1 DEF Line, Budget, Marker
    <2>4. /\ lastSent' \in 0 .. MinInterval /\ rest' = lastSent'
          /\ step \in {"flush", "command"} => rest' = MinInterval
        BY <1>4, <2>1, AgeIs, Durations DEF DialogIInv, PaceIsKept
    <2>5. /\ left' = left - k /\ spent' + left' = Budget + overrun
          /\ step = "flush" => fresh' = UpToFlushWait(spent')
        BY <1>4, <1>6, <2>1, BudgetIs, Durations DEF UpToFlushWait
    <2>6. DialogTypeOK'
        <3>1. PlacesOK'
            BY <1>2, <1>4, <2>1 DEF DialogTypeOK, PlacesOK
        <3>2. NumbersOK'
            BY <1>2, <1>4, <1>6, <2>3, <2>4 DEF DialogTypeOK, NumbersOK
        <3> QED
            BY <1>5, <3>1, <3>2 DEF DialogTypeOK
    <2>7. KindMatchesStep'
        BY <1>2, <2>1 DEF DialogIInv, KindMatchesStep
    <2>8. TimesAddUp'
        <3>1. wait = 1
            BY <1>2 DEF DialogIInv, TimesAddUp, Reading
        <3> QED
            BY <1>2, <2>1, <2>3, <2>5, <3>1 DEF TimesAddUp, Exchanging
    <2>9. EndsInTime'
        BY <1>2, <1>6, <2>1, <2>3, <2>5, Durations, BudgetIs DEF EndsInTime, Exchanging
    <2>10. PaceIsKept'
        BY <2>1, <2>4 DEF PaceIsKept
    <2>11. SearchIsWhole'
        BY <1>2, <2>1, <2>3 DEF SearchIsWhole
    <2>12. AnswerIsRight'
        BY <1>2, <2>1 DEF AnswerIsRight, ReadBack, Exchanging
    <2>13. RepliesStayApart'
        <3> SUFFICES ASSUME kind \in Instrument, ~untidy PROVE RepliesStayApart'
            BY <1>2, <2>1 DEF RepliesStayApart, Exchanging
        <3>1. sent' # 0 /\ sent' = Len(Line')
            BY <1>2, <2>3, LinesAre
        <3>2. sent' \in Nat /\ ~(sent' < Len(Line'))
            BY <1>2, <1>4, <3>1, Numbers
        <3>3. CASE step = "flush"
            BY <1>2, <1>8, <2>1, <2>2, <3>1, <3>3 DEF DialogIInv, RepliesStayApart, ReadBack
        <3>4. CASE step = "command"
            BY <1>2, <1>8, <2>1, <2>2, <3>2, <3>4 DEF DialogIInv, RepliesStayApart, ReadBack
        <3> QED
            BY <1>2, <3>3, <3>4 DEF DialogIInv, KindMatchesStep, Exchanging, Instrument
    <2> QED
        BY <2>6, <2>7, <2>8, <2>9, <2>10, <2>11, <2>12, <2>13 DEF DialogIInv
<1>10. CASE v # ""
    <2>1. Conclude(v) /\ v \in Ends /\ v \notin {"written", "lost"}
        BY <1>2, <1>7, <1>10 DEF Pass, Ends, Seen
    <2>2. spent' <= Budget + overrun + 1
        BY <1>4, <1>6, BudgetIs, Durations
    <2>3. ASSUME step = "flush", ~untidy
          PROVE  NewLine \in ToSet(flushed) \/ fresh' = FlushWait
        <3>1. kind \in Instrument /\ got \o inbox = flushed /\ Len(flushed) < MaxRead
            BY <2>3 DEF DialogIInv, KindMatchesStep, RepliesStayApart
        <3>2. got' = flushed
            BY <1>2, <1>8, <3>1, Durations DEF IsPrefix
        <3>3. CASE matchedEnd' = None
            <4>1. left' = 0
                BY <1>7, <1>8, <1>10, <3>1, <3>2, <3>3, Durations
            <4> QED
                BY <1>4, <1>6, <2>3, <4>1, BudgetIs, Durations DEF UpToFlushWait
        <3>4. CASE matchedEnd' # None
            <4>1. Markers(got', Marker, afterEcho) # {} /\ Marker = <<NewLine>>
                BY <1>2, <3>1, <3>4 DEF IsSearchOf, Marker, Instrument
            <4> QED
                BY <1>3, <3>2, <4>1, FoundIsThere
        <3> QED
            BY <3>3, <3>4
    <2>4. ASSUME step = "command", ~untidy
          PROVE  IsPrefix(got', replied)
        <3>1. kind \in Instrument /\ got \o inbox = replied
            BY <1>2, <2>4 DEF DialogIInv, KindMatchesStep, RepliesStayApart
        <3> QED
            BY <1>2, <1>8, <3>1
    <2>5. left' > 0 /\ Len(got') < MaxRead =>
              /\ matchedEnd' # None /\ inbox' = <<>>
              /\ pause' = 1 \/ LineEnds(got', matchedEnd')
        <3>1. left' > 0 => left' # 0
            BY <1>6
        <3> QED
            BY <1>2, <1>7, <1>10, <3>1, Zenon
    <2>6. v \in Seen <=> matchedEnd' # None
        BY <1>7, <1>10
    <2>7. sent' = Len(Line) /\ wait' \in Nat
        BY <1>2, <1>4
    <2>8. draining' = FALSE /\ overrun' = overrun /\ overrun \in Nat
        BY <1>2, <1>4 DEF DialogTypeOK, PlacesOK
    <2> QED
        BY <1>2, <1>5, <1>6, <2>1, <2>2, <2>3, <2>4, <2>5, <2>6, <2>7, <2>8, ConcludeIInv
<1> QED
    BY <1>9, <1>10

LEMMA LoseDeviceIInv ==
    ASSUME DialogIInv, LoseDevice
    PROVE  DialogIInv'
<1>1. /\ step \in Exchanging /\ sent = Len(Line) /\ Conclude("lost") /\ ~draining
      /\ UNCHANGED <<kind, afterEcho, wait, sent, draining, overrun, got, searchFrom, matchedEnd,
                     inbox, dialogs, left, spent, pause, fresh, flushed, replied, untidy>>
    BY DEF LoseDevice, Reading, searchVars, writeVars
<1>2. /\ DialogTypeOK /\ spent \in Nat /\ left \in Nat /\ wait \in Nat /\ overrun \in Nat
      /\ spent + left = Budget + overrun /\ fresh \in 0 .. FlushWait /\ pause \in {0, 1}
    BY <1>1, Numbers DEF DialogIInv, TimesAddUp, DialogTypeOK, NumbersOK, PlacesOK
<1>3. IsSearchOf(got, Marker, afterEcho, searchFrom, matchedEnd)
    BY <1>1 DEF DialogIInv, SearchIsWhole, KindMatchesStep, Exchanging, Instrument
<1>4. IsSearchOf(got', Marker, afterEcho, searchFrom', matchedEnd')
    BY <1>1, <1>3
<1>5. BytesOK'
    BY <1>1, <1>2 DEF DialogTypeOK, BytesOK
<1>6. spent' <= Budget + overrun + 1
    BY <1>1, <1>2, BudgetIs, Durations
<1>7. draining' = FALSE /\ wait' \in Nat /\ left' \in Nat /\ spent' \in Nat /\ sent' = Len(Line)
      /\ fresh' \in 0 .. FlushWait /\ pause' \in {0, 1} /\ overrun \in Nat
    BY <1>1, <1>2 DEF DialogTypeOK, PlacesOK
<1> QED
    BY <1>1, <1>4, <1>5, <1>6, <1>7, ConcludeIInv

\* A log has no search and no pace.
LEMMA LogIInv ==
    ASSUME DialogIInv, LogStep
    PROVE  DialogIInv'
<1>1. /\ step = "log" /\ kind = "log" /\ wait = LogPoll /\ ~afterEcho
      /\ spent + left = Timeout \/ (left = 0 /\ spent <= Timeout + LogPoll)
      /\ ~draining
      /\ UNCHANGED <<kind, afterEcho, wait, sent, draining, overrun, searchFrom, matchedEnd,
                     dialogs, flushed, replied, untidy>>
    BY Kinds DEF DialogIInv, KindMatchesStep, TimesAddUp, LogStep, LogFull, LogSome, LogNothing, LogFails,
                 LogOver, Unmarked, searchVars, writeVars, Exchanging
<1>2. /\ DialogTypeOK /\ spent \in Nat /\ left \in Nat /\ wait \in Nat /\ rest = lastSent
      /\ got \in Seq(Cells) /\ inbox \in Seq(Cells) /\ Len(got) \in Nat /\ Len(inbox) \in Nat
    BY Numbers, Bytes DEF DialogIInv, PaceIsKept
<1>3. /\ step' \in {"log", "done", "failed"} /\ answer' \in DialogAnswers /\ pause' \in {0, 1}
      /\ step' = "log" => answer' = answer
    BY <1>2 DEF LogStep, LogFull, LogSome, LogNothing, LogFails, LogOver, DialogAnswers, Ends,
                DialogTypeOK, PlacesOK
<1>4. \/ UNCHANGED <<left, spent, lastSent, rest, fresh>>
      \/ left > 0 /\ \E k \in 0 .. LogPoll : Elapse(k)
    BY <1>1, Durations DEF LogStep, LogFull, LogSome, LogNothing, LogFails, LogOver, clocks
<1>5. /\ left' \in Nat /\ spent' \in Nat /\ fresh' \in 0 .. FlushWait
      /\ lastSent' \in 0 .. MinInterval /\ rest' = lastSent'
      /\ spent' + left' = Timeout \/ left' = 0
      /\ spent' <= Timeout + LogPoll
    <2>1. CASE UNCHANGED <<left, spent, lastSent, rest, fresh>>
        <3>1. Timeout \in Nat /\ LogPoll \in Nat
            BY Durations
        <3>2. spent <= Timeout + LogPoll
            BY <1>1, <1>2, <3>1
        <3> QED
            BY <1>1, <1>2, <2>1, <3>2 DEF DialogTypeOK, NumbersOK
    <2>2. CASE left > 0 /\ \E k \in 0 .. LogPoll : Elapse(k)
        <3>1. PICK k \in 0 .. LogPoll : Elapse(k)
            BY <2>2
        <3>2. /\ left' = (IF k > left THEN 0 ELSE left - k) /\ spent' = spent + k
              /\ left' \in Nat /\ spent' \in Nat /\ fresh' \in 0 .. FlushWait
            BY <1>2, <3>1, SpendIs DEF Elapse
        <3>3. lastSent' \in 0 .. MinInterval /\ rest' = lastSent'
            BY <1>2, <3>1, AgeIs DEF Elapse
        <3>4. spent' + left' = Timeout \/ left' = 0
            BY <1>1, <1>2, <2>2, <3>2, Durations
        <3>5. spent' <= Timeout + LogPoll
            BY <1>1, <1>2, <2>2, <3>2, Durations
        <3> QED
            BY <3>2, <3>3, <3>4, <3>5
    <2> QED
        BY <1>4, <2>1, <2>2
<1>6. got' \in Seq(Cells) /\ inbox' \in Seq(Cells)
    <2>1. CASE UNCHANGED <<got, inbox>>
        BY <1>2, <2>1
    <2>2. CASE \E k \in 0 .. LogPoll : LogSome(k)
        <3> DEFINE room == MaxRead - Len(got)
                   n == Min({Len(inbox), room})
        <3>1. /\ room \in Nat /\ inbox' = <<>> /\ got' = got \o SubSeq(inbox, 1, n)
            BY <1>2, <2>2, Durations DEF LogSome
        <3>2. n \in Nat /\ n <= Len(inbox)
            BY <1>2, <3>1, MinOfTwo
        <3> HIDE DEF n
        <3>3. SubSeq(inbox, 1, n) \in Seq(Cells)
            BY <1>2, <3>2, SubSeqProperties, \A i \in 1 .. n : inbox[i] \in Cells
        <3>4. got \o SubSeq(inbox, 1, n) \in Seq(Cells)
            BY <1>2, <3>3, ConcatProperties
        <3> QED
            BY <3>1, <3>4
    <2> QED
        BY <2>1, <2>2 DEF LogStep, LogFull, LogNothing, LogFails, LogOver
<1>7. DialogTypeOK'
    <2>1. PlacesOK'
        BY <1>1, <1>2, <1>3 DEF DialogTypeOK, PlacesOK, Stage
    <2>2. sent' \in 0 .. Len(Line')
        BY <1>1, <1>2, <1>3 DEF DialogTypeOK, NumbersOK, Line
    <2>3. NumbersOK'
        BY <1>1, <1>2, <1>5, <2>2 DEF DialogTypeOK, NumbersOK
    <2>4. BytesOK'
        BY <1>1, <1>2, <1>6 DEF DialogTypeOK, BytesOK
    <2> QED
        BY <2>1, <2>3, <2>4 DEF DialogTypeOK
<1>8. KindMatchesStep'
    BY <1>1, <1>3 DEF KindMatchesStep
<1>9. TimesAddUp'
    BY <1>1, <1>3, <1>5 DEF TimesAddUp, Reading, Exchanging
<1>10. EndsInTime'
    BY <1>1, <1>3, <1>5 DEF EndsInTime
<1>11. PaceIsKept'
    BY <1>3, <1>5 DEF PaceIsKept
<1>12. SearchIsWhole' /\ AnswerIsRight' /\ RepliesStayApart'
    BY <1>1, <1>3 DEF SearchIsWhole, AnswerIsRight, RepliesStayApart, ReadBack, Exchanging,
                      Instrument
<1> QED
    BY <1>7, <1>8, <1>9, <1>10, <1>11, <1>12 DEF DialogIInv

LEMMA DialogNextIInv ==
    ASSUME DialogIInv, [DialogNext]_dialogVars
    PROVE  DialogIInv'
<1>1. CASE UNCHANGED dialogVars
    <2>1. /\ UNCHANGED <<kind, step, afterEcho, answer, draining, pause, untidy>>
          /\ UNCHANGED <<left, wait, spent, overrun, dialogs, sent, lastSent, rest, fresh>>
          /\ UNCHANGED <<got, inbox, flushed, replied, searchFrom, matchedEnd>>
        BY <1>1 DEF dialogVars, writeVars, searchVars, ghosts
    <2>2. Line' = Line /\ Budget' = Budget /\ Marker' = Marker
        BY <2>1 DEF Line, Budget, Marker
    <2>3. DialogTypeOK'
        BY <2>1, <2>2 DEF DialogIInv, DialogTypeOK, PlacesOK, NumbersOK, BytesOK
    <2>4. KindMatchesStep' /\ TimesAddUp' /\ EndsInTime' /\ PaceIsKept'
        BY <2>1, <2>2 DEF DialogIInv, KindMatchesStep, TimesAddUp, EndsInTime, PaceIsKept, Reading
    <2>5. SearchIsWhole' /\ AnswerIsRight'
        BY <2>1, <2>2 DEF DialogIInv, SearchIsWhole, AnswerIsRight, ReadBack
    <2>6. RepliesStayApart'
        BY <2>1, <2>2 DEF DialogIInv, RepliesStayApart, ReadBack, FlushIsOver
    <2> QED
        BY <2>3, <2>4, <2>5, <2>6 DEF DialogIInv
<1>2. ASSUME NEW cell \in Cell, Speak(cell) PROVE DialogIInv'
    BY <1>2, SpeakIInv
<1>3. ASSUME NEW k \in Dialog, Begin(k) PROVE DialogIInv'
    BY <1>3, BeginIInv
<1>4. /\ 0 .. Max({Timeout, FlushWait}) \subseteq Nat
      /\ 0 .. Max({Timeout, FlushWait, MaxOverrun}) \subseteq Nat
    OBVIOUS
<1>5. ASSUME NEW n \in 1 .. Len(Command) + 1,
             NEW k \in 0 .. Max({Timeout, FlushWait, MaxOverrun}), Write(n, k)
      PROVE  DialogIInv'
    BY <1>4, <1>5, WriteIInv
<1>6. ASSUME NEW k \in 0 .. Max({Timeout, FlushWait}), Stall(k)
      PROVE  DialogIInv'
    BY <1>4, <1>6, StallIInv
<1> QED
    BY <1>1, <1>2, <1>3, <1>5, <1>6, AbsentIInv, OpenIInv, PaceIInv, WriteFailsIInv, DrainIInv,
       DrainedIInv, FlushFailsIInv, ReadIInv, LoseDeviceIInv, LogIInv DEF DialogNext

\* However the device cuts up what it says, and whatever fails, the search, the
\* times and the replies are what the invariant says.
THEOREM DialogInductive == DialogSpec => []DialogIInv
<1>1. DialogIInv /\ [DialogNext]_dialogVars => DialogIInv'
    BY DialogNextIInv
<1> QED
    BY <1>1, DialogInitIInv, PTL DEF DialogSpec

\* Each step of a dialog ends within its budget, what its port took for the line
\* after that, and one read poll.
THEOREM StepsEndInTime == DialogSpec => []EndsInTime
<1>1. DialogIInv => EndsInTime
    BY DEF DialogIInv
<1> QED
    BY <1>1, DialogInductive, PTL

\* An exchange that ends before its time has found its marker, and has not cut
\* off what follows on it.
THEOREM OnlyMarkersEndEarly == DialogSpec => []EarlyEndsAreEarned
<1>1. DialogIInv => EarlyEndsAreEarned
    <2> SUFFICES ASSUME DialogIInv, ReadBack, step = "done", left > 0, Len(got) < MaxRead
                 PROVE  /\ Markers(got, Marker, afterEcho) # {} /\ inbox = <<>>
                        /\ \/ pause = 1
                           \/ \E j \in Markers(got, Marker, afterEcho), n \in 1 .. Len(got) :
                                 n > j + 1 /\ got[n] = NewLine
        BY DEF EarlyEndsAreEarned
    <2>1. /\ matchedEnd # None /\ inbox = <<>>
          /\ pause = 1 \/ LineEnds(got, matchedEnd)
        BY DEF DialogIInv, AnswerIsRight
    <2>2. PICK j \in Markers(got, Marker, afterEcho) : matchedEnd = j + Len(Marker)
        BY <2>1 DEF DialogIInv, SearchIsWhole, IsSearchOf, ReadBack
    <2>3. got \in Seq(Cells) /\ Len(got) \in Nat /\ j \in Nat /\ Len(Marker) \in Nat \ {0}
        BY Bytes, LinesAre, <2>2 DEF DialogIInv, Markers
    <2>4. ASSUME LineEnds(got, matchedEnd)
          PROVE  \E n \in 1 .. Len(got) : n > j + 1 /\ got[n] = NewLine
        <3> DEFINE tail == SubSeq(got, matchedEnd + 1, Len(got))
        <3>1. matchedEnd \in Nat /\ matchedEnd > j
            BY <2>2, <2>3
        <3>2. /\ tail \in Seq(Cells)
              /\ Len(tail) = IF matchedEnd + 1 <= Len(got) THEN Len(got) - matchedEnd ELSE 0
              /\ \A i \in 1 .. Len(got) - matchedEnd : tail[i] = got[matchedEnd + i]
            BY <2>3, <3>1, SubSeqProperties,
               \A i \in matchedEnd + 1 .. Len(got) : got[i] \in Cells
        <3>3. PICK m \in DOMAIN tail : tail[m] = NewLine
            BY <2>4 DEF LineEnds, ToSet
        <3> HIDE DEF tail
        <3>4. m \in 1 .. Len(tail)
            BY <3>2
        <3>5. m \in Nat \ {0} /\ matchedEnd + m <= Len(got) /\ got[matchedEnd + m] = NewLine
            BY <2>3, <3>1, <3>2, <3>3, <3>4
        <3> QED
            BY <2>3, <3>1, <3>5, matchedEnd + m \in 1 .. Len(got), matchedEnd + m > j + 1
    <2> QED
        BY <2>1, <2>2, <2>4
<1> QED
    BY <1>1, DialogInductive, PTL

\* What is reported of a reply is what a look at the whole of it says, and a
\* tidy instrument's reply is to the command.
THEOREM RepliesAreTheCommands == DialogSpec => []ReplyIsTheCommands
<1>1. DialogIInv => ReplyIsTheCommands
    <2> SUFFICES ASSUME DialogIInv, ReadBack
                 PROVE  /\ answer \in Seen <=> Markers(got, Marker, afterEcho) # {}
                        /\ step = "done" /\ kind = "query" /\ ~untidy => IsPrefix(got, replied)
        BY DEF ReplyIsTheCommands, Seen
    <2>1. matchedEnd = None <=> Markers(got, Marker, afterEcho) = {}
        BY DEF DialogIInv, SearchIsWhole, IsSearchOf, ReadBack
    <2>2. answer \in Seen <=> matchedEnd # None
        BY DEF DialogIInv, AnswerIsRight
    <2>3. step = "done" /\ kind = "query" /\ ~untidy => IsPrefix(got, replied)
        BY DEF DialogIInv, RepliesStayApart, Instrument
    <2> QED
        BY <2>1, <2>2, <2>3
<1> QED
    BY <1>1, DialogInductive, PTL

\* No line goes to an instrument sooner than min_interval after the last
\* exchange with it.
THEOREM LinesArePaced == DialogSpec => Paced
<1>1. DialogIInv /\ [DialogNext]_dialogVars =>
        [(step \in {"flush", "command"} /\ sent = 0 /\ sent' > 0) => (rest >= MinInterval)]_dialogVars
    BY Durations DEF DialogIInv, PaceIsKept
<1> QED
    BY <1>1, DialogInductive, PTL DEF DialogSpec, Paced

-----------------------------------------------------------------------------
(* Streams: the frames of a run of bytes                                   *)


LEMMA FedExists ==
    ASSUME NEW start, NEW bytes
    PROVE  \A k \in Nat : \E f : Fed(f, start, bytes, k)
<1> DEFINE S == {k \in Nat : \E f : Fed(f, start, bytes, k)}
<1>1. 0 \in S
    <2> DEFINE f == [n \in 0 .. 0 |-> Begun(start)]
    <2>1. Fed(f, start, bytes, 0)
        BY DEF Fed
    <2> QED
        BY <2>1
<1>2. ASSUME NEW n \in Nat, n \in S PROVE n + 1 \in S
    <2>1. PICK f : Fed(f, start, bytes, n)
        BY <1>2
    <2> DEFINE g == [i \in 0 .. n + 1 |-> IF i <= n THEN f[i] ELSE Feed(f[n], bytes[n + 1])]
    <2>2. \A i \in 0 .. n : g[i] = f[i]
        OBVIOUS
    <2>3. \A i \in 0 .. n : f[i] = IF i = 0 THEN Begun(start) ELSE Feed(f[i - 1], bytes[i])
        BY <2>1 DEF Fed
    <2>4. g[n + 1] = Feed(g[n], bytes[n + 1])
        BY <2>2
    <2>5. \A i \in 0 .. n + 1 : g[i] = IF i = 0 THEN Begun(start) ELSE Feed(g[i - 1], bytes[i])
        <3> SUFFICES ASSUME NEW i \in 0 .. n + 1
                     PROVE  g[i] = IF i = 0 THEN Begun(start) ELSE Feed(g[i - 1], bytes[i])
            OBVIOUS
        <3>1. CASE i = n + 1
            BY <2>4, <3>1
        <3>2. CASE i \in 0 .. n
            <4>1. i # 0 => i - 1 \in 0 .. n
                BY <3>2
            <4> HIDE DEF g
            <4> QED
                BY <2>2, <2>3, <3>2, <4>1
        <3> QED
            BY <3>1, <3>2
    <2>6. Fed(g, start, bytes, n + 1)
        <3>1. g = [i \in 0 .. n + 1 |-> g[i]]
            OBVIOUS
        <3> HIDE DEF g
        <3> QED
            BY <2>5, <3>1, Zenon DEF Fed
    <2> QED
        BY <2>6
<1> HIDE DEF S
<1>3. Nat \subseteq S
    BY <1>1, <1>2, SetInduction
<1> QED
    BY <1>3 DEF S

\* Frames is the last value of the function that feeds one byte after the other.
LEMMA FramesIs ==
    ASSUME NEW start, NEW bytes, Len(bytes) \in Nat
    PROVE  \E f : Fed(f, start, bytes, Len(bytes)) /\ Frames(start, bytes) = f[Len(bytes)]
<1> DEFINE upTo == CHOOSE f : Fed(f, start, bytes, Len(bytes))
<1>1. Fed(upTo, start, bytes, Len(bytes))
    BY FedExists, Zenon
<1>2. Frames(start, bytes) = upTo[Len(bytes)]
    BY DEF Frames, Fed, Begun
<1> QED
    BY <1>1, <1>2

\* Two such functions agree on a common beginning of their bytes.
LEMMA FedAgree ==
    ASSUME NEW start, NEW f, NEW g, NEW s, NEW t, NEW k \in Nat, NEW l \in Nat, NEW m \in Nat,
           m <= k, m <= l, Fed(f, start, s, k), Fed(g, start, t, l),
           \A i \in 1 .. m : s[i] = t[i]
    PROVE  f[m] = g[m]
<1> DEFINE S == {n \in Nat : n <= m => f[n] = g[n]}
<1>1. /\ \A n \in 0 .. k : f[n] = IF n = 0 THEN Begun(start) ELSE Feed(f[n - 1], s[n])
      /\ \A n \in 0 .. l : g[n] = IF n = 0 THEN Begun(start) ELSE Feed(g[n - 1], t[n])
    BY DEF Fed
<1>2. 0 \in S
    BY <1>1
<1>3. ASSUME NEW n \in Nat, n \in S PROVE n + 1 \in S
    <2> SUFFICES ASSUME n + 1 <= m PROVE f[n + 1] = g[n + 1]
        OBVIOUS
    <2>1. f[n] = g[n] /\ s[n + 1] = t[n + 1]
        BY <1>3
    <2>2. f[n + 1] = Feed(f[n], s[n + 1]) /\ g[n + 1] = Feed(g[n], t[n + 1])
        <3>1. n + 1 \in 0 .. k /\ n + 1 \in 0 .. l /\ n + 1 # 0 /\ n + 1 - 1 = n
            OBVIOUS
        <3> QED
            BY <1>1, <3>1
    <2> QED
        BY <2>1, <2>2
<1> HIDE DEF S
<1>4. Nat \subseteq S
    BY <1>2, <1>3, SetInduction
<1> QED
    BY <1>4 DEF S

\* No bytes, no frames.
LEMMA FramesOfNothing ==
    ASSUME NEW start
    PROVE  Frames(start, <<>>) = Begun(start)
<1>1. PICK f : Fed(f, start, <<>>, Len(<<>>)) /\ Frames(start, <<>>) = f[Len(<<>>)]
    BY FramesIs
<1> QED
    BY <1>1 DEF Fed

\* Frames takes its bytes one at a time ...
LEMMA FramesAppend ==
    ASSUME NEW start, NEW s \in Seq(TimedByte), NEW b \in TimedByte
    PROVE  Frames(start, Append(s, b)) = Feed(Frames(start, s), b)
<1> DEFINE t == Append(s, b)
<1>1. /\ Len(s) \in Nat /\ Len(t) = Len(s) + 1 /\ t[Len(t)] = b
      /\ \A i \in 1 .. Len(s) : t[i] = s[i]
    BY AppendProperties
<1> HIDE DEF t
<1>2. PICK f : Fed(f, start, s, Len(s)) /\ Frames(start, s) = f[Len(s)]
    BY <1>1, FramesIs
<1>3. PICK g : Fed(g, start, t, Len(t)) /\ Frames(start, t) = g[Len(t)]
    BY <1>1, FramesIs
<1>4. g[Len(t)] = Feed(g[Len(s)], b)
    <2>1. \A n \in 0 .. Len(t) : g[n] = IF n = 0 THEN Begun(start) ELSE Feed(g[n - 1], t[n])
        BY <1>3 DEF Fed
    <2>2. Len(t) \in 0 .. Len(t) /\ Len(t) # 0 /\ Len(t) - 1 = Len(s)
        BY <1>1
    <2> QED
        BY <1>1, <2>1, <2>2
<1>5. g[Len(s)] = f[Len(s)]
    BY <1>1, <1>2, <1>3, FedAgree
<1> QED
    BY <1>2, <1>3, <1>4, <1>5 DEF t

Chunk == [len : Nat \ {0}, at : 1 .. MaxRecords]
Count == [done : Seq(Chunk), pending : Nat]

\* What one byte adds to the frames and to the count.
LEMMA FeedTyped ==
    ASSUME NEW acc \in Count, NEW b \in TimedByte
    PROVE  /\ Feed(acc, b) \in Count
           /\ Len(Feed(acc, b).done) + Feed(acc, b).pending <= Len(acc.done) + acc.pending + 1
           /\ Feed(acc, b).pending <= acc.pending + 1
<1>1. acc.done \in Seq(Chunk) /\ acc.pending \in Nat /\ Len(acc.done) \in Nat
      /\ acc = [done |-> acc.done, pending |-> acc.pending]
    BY DEF Count
<1>2. CASE b.v # 0
    <2>1. Feed(acc, b) = [done |-> acc.done, pending |-> acc.pending + 1]
        BY <1>1, <1>2 DEF Feed, Count
    <2> QED
        BY <1>1, <2>1 DEF Count
<1>3. CASE b.v = 0 /\ acc.pending = 0
    BY <1>1, <1>3 DEF Feed
<1>4. CASE b.v = 0 /\ acc.pending # 0
    <2> DEFINE c == [len |-> acc.pending, at |-> b.at]
    <2>1. Feed(acc, b) = [done |-> Append(acc.done, c), pending |-> 0]
        BY <1>1, <1>4 DEF Feed
    <2>2. c \in Chunk
        BY <1>1, <1>4 DEF Chunk, TimedByte
    <2> HIDE DEF c
    <2>3. Append(acc.done, c) \in Seq(Chunk) /\ Len(Append(acc.done, c)) = Len(acc.done) + 1
        BY <1>1, <2>2, AppendProperties
    <2> QED
        BY <1>1, <1>4, <2>1, <2>3 DEF Count
<1> QED
    BY <1>2, <1>3, <1>4


\* There are never more frames than bytes.
LEMMA FramesTyped ==
    ASSUME NEW start \in Nat, NEW bytes \in Seq(TimedByte)
    PROVE  /\ Frames(start, bytes) \in Count
           /\ Len(Frames(start, bytes).done) + Frames(start, bytes).pending <= start + Len(bytes)
<1> DEFINE Typed(s) == /\ Frames(start, s) \in Count
                       /\ Len(Frames(start, s).done) + Frames(start, s).pending <= start + Len(s)
           S == {n \in Nat : \A s \in Seq(TimedByte) : Len(s) = n => Typed(s)}
<1>1. 0 \in S
    <2>1. ASSUME NEW s \in Seq(TimedByte), Len(s) = 0 PROVE Typed(s)
        <3>1. s = <<>>
            BY <2>1
        <3>2. Begun(start) \in Count /\ Len(Begun(start).done) = 0 /\ Begun(start).pending = start
            BY EmptySeq DEF Begun, Count
        <3> QED
            BY <3>1, <3>2, FramesOfNothing
    <2> QED
        BY <2>1
<1>2. ASSUME NEW n \in Nat, n \in S PROVE n + 1 \in S
    <2>1. ASSUME NEW s \in Seq(TimedByte), Len(s) = n + 1 PROVE Typed(s)
        <3> DEFINE r == SubSeq(s, 1, n)
                   e == s[n + 1]
        <3>1. r \in Seq(TimedByte) /\ e \in TimedByte /\ Len(r) = n /\ s = Append(r, e)
            BY <2>1, FrontAndLast
        <3> HIDE DEF r, e
        <3> DEFINE x == Frames(start, r)
                   y == Feed(x, e)
        <3>2. x \in Count /\ Len(x.done) + x.pending <= start + n
            BY <1>2, <3>1
        <3>3. Frames(start, s) = y
            BY <3>1, FramesAppend
        <3>4. y \in Count /\ Len(y.done) + y.pending <= Len(x.done) + x.pending + 1
            BY <3>1, <3>2, FeedTyped
        <3> HIDE DEF x, y
        <3>5. x \in Count /\ y \in Count
            BY <3>2, <3>4
        <3>6. /\ Len(x.done) \in Nat /\ x.pending \in Nat
              /\ Len(y.done) \in Nat /\ y.pending \in Nat
            BY <3>5 DEF Count
        <3>7. Len(y.done) + y.pending <= start + Len(s)
            <4>1. Len(x.done) + x.pending <= start + n
                BY <3>2
            <4>2. Len(y.done) + y.pending <= Len(x.done) + x.pending + 1
                BY <3>4
            <4> DEFINE a == Len(x.done)
                       b == x.pending
                       c == Len(y.done)
                       d == y.pending
            <4>3. a \in Nat /\ b \in Nat /\ c \in Nat /\ d \in Nat
                BY <3>6
            <4>4. a + b <= start + n /\ c + d <= a + b + 1
                BY <4>1, <4>2
            <4> HIDE DEF a, b, c, d
            <4>5. c + d <= start + (n + 1)
                BY <4>3, <4>4
            <4> QED
                BY <2>1, <4>5 DEF c, d
        <3> QED
            BY <3>3, <3>5, <3>7
    <2> QED
        BY <2>1
<1> HIDE DEF S
<1>3. Nat \subseteq S
    BY <1>1, <1>2, SetInduction
<1> QED
    BY <1>3 DEF S

\* The frames that are done already do not matter to the next byte.
LEMMA FeedShifts ==
    ASSUME NEW done \in Seq(Chunk), NEW acc \in Count, NEW b \in TimedByte
    PROVE  Feed([done |-> done \o acc.done, pending |-> acc.pending], b)
             = [done |-> done \o Feed(acc, b).done, pending |-> Feed(acc, b).pending]
<1>1. acc.done \in Seq(Chunk) /\ acc.pending \in Nat
      /\ acc = [done |-> acc.done, pending |-> acc.pending]
    BY DEF Count
<1>2. CASE b.v # 0
    BY <1>1, <1>2 DEF Feed
<1>3. CASE b.v = 0 /\ acc.pending = 0
    BY <1>1, <1>3 DEF Feed
<1>4. CASE b.v = 0 /\ acc.pending # 0
    <2> DEFINE c == [len |-> acc.pending, at |-> b.at]
    <2>1. c \in Chunk
        BY <1>1, <1>4 DEF Chunk, TimedByte
    <2>2. Feed(acc, b) = [done |-> Append(acc.done, c), pending |-> 0]
        BY <1>1, <1>4 DEF Feed
    <2>3. Feed([done |-> done \o acc.done, pending |-> acc.pending], b)
            = [done |-> Append(done \o acc.done, c), pending |-> 0]
        BY <1>1, <1>4 DEF Feed
    <2> HIDE DEF c
    <2>4. Append(done \o acc.done, c) = done \o Append(acc.done, c)
        <3>1. <<c>> \in Seq(Chunk)
            BY <2>1
        <3>2. Append(acc.done, c) = acc.done \o <<c>>
            BY <1>1, <2>1, AppendIsConcat
        <3>3. done \o acc.done \in Seq(Chunk)
            BY <1>1, ConcatProperties
        <3>4. Append(done \o acc.done, c) = (done \o acc.done) \o <<c>>
            BY <2>1, <3>3, AppendIsConcat
        <3> QED
            BY <1>1, <3>1, <3>2, <3>4, ConcatAssociative
    <2> QED
        BY <2>2, <2>3, <2>4
<1> QED
    BY <1>2, <1>3, <1>4

\* ... or a payload at a time: the sidecar, which keeps only how much of a frame is
\* pending, finds the frames that it would find in all bytes together.
LEMMA FramesConcat ==
    ASSUME NEW start \in Nat, NEW a \in Seq(TimedByte), NEW b \in Seq(TimedByte)
    PROVE  Frames(start, a \o b) =
              [done |-> Frames(start, a).done \o Frames(Frames(start, a).pending, b).done,
               pending |-> Frames(Frames(start, a).pending, b).pending]
<1> DEFINE x == Frames(start, a)
           Others(s) == Frames(x.pending, s)
           Follows(s) == Frames(start, a \o s) = [done |-> x.done \o Others(s).done,
                                                  pending |-> Others(s).pending]
           S == {n \in Nat : \A s \in Seq(TimedByte) : Len(s) = n => Follows(s)}
<1>1. x \in Count /\ x.done \in Seq(Chunk) /\ x.pending \in Nat
    BY FramesTyped DEF Count
<1> HIDE DEF x
<1>2. 0 \in S
    <2>1. ASSUME NEW s \in Seq(TimedByte), Len(s) = 0 PROVE Follows(s)
        <3>1. s = <<>> /\ a \o s = a
            BY <2>1, ConcatEmptySeq
        <3>2. Others(s) = [done |-> <<>>, pending |-> x.pending]
            BY <3>1, FramesOfNothing DEF Begun
        <3>3. x.done \o <<>> = x.done
            BY <1>1, ConcatEmptySeq
        <3>4. x = [done |-> x.done, pending |-> x.pending]
            BY <1>1 DEF Count
        <3>5. Frames(start, a \o s) = x
            BY <3>1 DEF x
        <3> HIDE DEF Others
        <3>6. Others(s).done = <<>> /\ Others(s).pending = x.pending
            BY <3>2
        <3> QED
            BY <3>3, <3>4, <3>5, <3>6
    <2> HIDE DEF Follows
    <2> QED
        BY <2>1
<1>3. ASSUME NEW n \in Nat, n \in S PROVE n + 1 \in S
    <2>1. ASSUME NEW s \in Seq(TimedByte), Len(s) = n + 1 PROVE Follows(s)
        <3> DEFINE r == SubSeq(s, 1, n)
                   e == s[n + 1]
        <3>1. r \in Seq(TimedByte) /\ e \in TimedByte /\ Len(r) = n /\ s = Append(r, e)
            BY <2>1, FrontAndLast
        <3> HIDE DEF r, e
        <3>2. Follows(r)
            BY <1>3, <3>1
        <3>3. Others(r) \in Count
            BY <1>1, <3>1, FramesTyped
        <3>4. a \o s = Append(a \o r, e) /\ a \o r \in Seq(TimedByte)
            <4>1. <<e>> \in Seq(TimedByte) /\ a \o r \in Seq(TimedByte)
                BY <3>1, ConcatProperties
            <4>2. s = r \o <<e>>
                BY <3>1, AppendIsConcat
            <4>3. Append(a \o r, e) = (a \o r) \o <<e>>
                BY <4>1, AppendIsConcat
            <4> QED
                BY <4>1, <4>2, <4>3, ConcatAssociative
        <3>5. Frames(start, a \o s) = Feed(Frames(start, a \o r), e)
            <4>1. Frames(start, Append(a \o r, e)) = Feed(Frames(start, a \o r), e)
                BY <3>1, <3>4, FramesAppend
            <4> QED
                BY <3>4, <4>1, Zenon
        <3>6. Others(s) = Feed(Others(r), e)
            BY <3>1, FramesAppend
        <3>7. Feed([done |-> x.done \o Others(r).done, pending |-> Others(r).pending], e)
                = [done |-> x.done \o Feed(Others(r), e).done,
                   pending |-> Feed(Others(r), e).pending]
            BY <1>1, <3>1, <3>3, FeedShifts
        <3> QED
            BY <3>2, <3>5, <3>6, <3>7
    <2> HIDE DEF Follows
    <2> QED
        BY <2>1
<1> HIDE DEF S
<1>4. Nat \subseteq S
    BY <1>2, <1>3, SetInduction
<1>5. Follows(b)
    <2> HIDE DEF Follows
    <2>1. Len(b) \in S
        BY <1>4
    <2> QED
        BY <2>1 DEF S
<1> QED
    BY <1>5 DEF x

-----------------------------------------------------------------------------
(* The invariant                                                           *)

\* s is what t ends with.
EndOf(s, t) ==
    /\ Len(s) <= Len(t)
    /\ \A i \in DOMAIN s : s[i] = t[i + (Len(t) - Len(s))]

\* What the segments hold of what was accepted.
FilesHold ==
    /\ torn => writeFailed
    /\ ~writeFailed => accepted = arrived
    /\ Len(accepted) <= Len(arrived)
    /\ ~torn => EndOf(Served, accepted)
    /\ ~torn /\ ~truncated => Served = accepted

\* Bytes are in the order they arrived in.
TimesAscend ==
    /\ \A i \in DOMAIN accepted : accepted[i].at <= clock
    /\ \A i, j \in DOMAIN accepted : i <= j => accepted[i].at <= accepted[j].at

\* A row of a trace is about the frame of its number, and no frame has two.
FramesAreNoted ==
    LET frames == Frames(0, accepted) IN
    arrivalKind = "frames" =>
        /\ pending = frames.pending /\ nextKey = Len(frames.done)
        /\ \A i \in DOMAIN rows :
              /\ rows[i].key + (Len(rows) - i) < nextKey
              /\ frames.done[rows[i].key + 1] = [len |-> rows[i].len, at |-> rows[i].at]
        /\ \A i, j \in DOMAIN rows : i < j => rows[i].key + (j - i) <= rows[j].key

\* A row of a text is about the bytes from its offset on, and no byte has two.
BytesAreNoted ==
    arrivalKind = "bytes" =>
        /\ pending = 0 /\ nextKey = Len(accepted)
        /\ \A i \in DOMAIN rows :
              /\ rows[i].key + rows[i].len <= nextKey
              /\ \A k \in rows[i].key + 1 .. rows[i].key + rows[i].len :
                    accepted[k].at = rows[i].at
        /\ \A i, j \in DOMAIN rows : i < j => rows[i].key + rows[i].len <= rows[j].key

StreamIInv == StreamTypeOK /\ FilesHold /\ TimesAscend /\ FramesAreNoted /\ BytesAreNoted

-----------------------------------------------------------------------------

\* The types of the files, and of what is served of them.
LEMMA StreamTypes ==
    ASSUME StreamTypeOK
    PROVE  /\ arrived \in Seq(TimedByte) /\ accepted \in Seq(TimedByte)
           /\ previous \in Seq(TimedByte) /\ live \in Seq(TimedByte)
           /\ Len(arrived) \in Nat /\ Len(accepted) \in Nat
           /\ Len(previous) \in Nat /\ Len(live) \in Nat
           /\ Served \in Seq(TimedByte) /\ Len(Served) = Len(previous) + Len(live)
<1>1. /\ arrived \in Seq(TimedByte) /\ accepted \in Seq(TimedByte)
      /\ previous \in Seq(TimedByte) /\ live \in Seq(TimedByte)
    BY DEF StreamTypeOK
<1> QED
    BY <1>1, ConcatProperties DEF Served

\* Every byte of a payload has the time of its record.
LEMMA StampedIs ==
    ASSUME NEW p \in Payload, NEW t \in 1 .. MaxRecords
    PROVE  /\ Stamped(p, t) \in Seq(TimedByte)
           /\ Len(Stamped(p, t)) = Len(p) /\ Len(p) \in Nat \ {0}
           /\ \A i \in 1 .. Len(p) : Stamped(p, t)[i].at = t
<1>1. p \in Seq({0, 1}) /\ p # <<>>
    BY PayloadAssumption
<1>2. Len(p) \in Nat \ {0} /\ DOMAIN p = 1 .. Len(p) /\ \A i \in 1 .. Len(p) : p[i] \in {0, 1}
    BY <1>1, EmptySeq, LenProperties, ElementOfSeq
<1>3. Stamped(p, t) = [i \in 1 .. Len(p) |-> [v |-> p[i], at |-> t]]
    BY <1>2 DEF Stamped
<1>4. \A i \in 1 .. Len(p) : [v |-> p[i], at |-> t] \in TimedByte
    BY <1>2 DEF TimedByte
<1> QED
    BY <1>2, <1>3, <1>4

\* The end of a file stays its end when both grow.
LEMMA EndOfConcat ==
    ASSUME NEW s \in Seq(TimedByte), NEW t \in Seq(TimedByte), NEW b \in Seq(TimedByte), EndOf(s, t)
    PROVE  EndOf(s \o b, t \o b)
<1>1. /\ s \o b \in Seq(TimedByte) /\ Len(s \o b) = Len(s) + Len(b)
      /\ t \o b \in Seq(TimedByte) /\ Len(t \o b) = Len(t) + Len(b)
      /\ \A i \in 1 .. Len(s) + Len(b) :
            (s \o b)[i] = IF i <= Len(s) THEN s[i] ELSE b[i - Len(s)]
      /\ \A i \in 1 .. Len(t) + Len(b) :
            (t \o b)[i] = IF i <= Len(t) THEN t[i] ELSE b[i - Len(t)]
    BY ConcatProperties
<1>2. /\ Len(s) \in Nat /\ Len(t) \in Nat /\ Len(b) \in Nat /\ Len(s) <= Len(t)
      /\ \A i \in 1 .. Len(s) : s[i] = t[i + (Len(t) - Len(s))]
    BY DEF EndOf
<1>3. ASSUME NEW i \in 1 .. Len(s) + Len(b)
      PROVE  (s \o b)[i] = (t \o b)[i + (Len(t) - Len(s))]
    <2>1. CASE i <= Len(s)
        <3>1. i + (Len(t) - Len(s)) \in 1 .. Len(t) /\ i \in 1 .. Len(s)
            BY <1>2, <2>1
        <3> QED
            BY <1>1, <1>2, <3>1
    <2>2. CASE i > Len(s)
        <3>1. /\ i + (Len(t) - Len(s)) \in Len(t) + 1 .. Len(t) + Len(b)
              /\ i + (Len(t) - Len(s)) - Len(t) = i - Len(s)
            BY <1>2, <2>2
        <3> QED
            BY <1>1, <1>2, <2>2, <3>1
    <2> QED
        BY <1>2, <2>1, <2>2
<1> QED
    BY <1>1, <1>2, <1>3, LenProperties DEF EndOf

\* A front that is deleted leaves an end.
LEMMA EndOfEnd ==
    ASSUME NEW s \in Seq(TimedByte), NEW r \in Seq(TimedByte), NEW t \in Seq(TimedByte), EndOf(r \o s, t)
    PROVE  EndOf(s, t)
<1>1. /\ Len(r \o s) = Len(r) + Len(s) /\ r \o s \in Seq(TimedByte)
      /\ \A i \in 1 .. Len(r) + Len(s) :
            (r \o s)[i] = IF i <= Len(r) THEN r[i] ELSE s[i - Len(r)]
    BY ConcatProperties
<1>2. /\ Len(r) \in Nat /\ Len(s) \in Nat /\ Len(t) \in Nat
      /\ DOMAIN (r \o s) = 1 .. Len(r) + Len(s) /\ DOMAIN s = 1 .. Len(s)
    BY <1>1, LenProperties
<1>3. /\ Len(r) + Len(s) <= Len(t)
      /\ \A i \in 1 .. Len(r) + Len(s) : (r \o s)[i] = t[i + (Len(t) - (Len(r) + Len(s)))]
    BY <1>1, <1>2, Zenon DEF EndOf
<1>4. ASSUME NEW i \in 1 .. Len(s) PROVE s[i] = t[i + (Len(t) - Len(s))]
    <2>1. /\ Len(r) + i \in 1 .. Len(r) + Len(s) /\ ~(Len(r) + i <= Len(r))
          /\ Len(r) + i - Len(r) = i
          /\ Len(r) + i + (Len(t) - (Len(r) + Len(s))) = i + (Len(t) - Len(s))
        BY <1>2
    <2>2. (r \o s)[Len(r) + i] = s[i]
        BY <1>1, <2>1
    <2> QED
        BY <1>3, <2>1, <2>2
<1>5. Len(s) <= Len(t)
    BY <1>2, <1>3
<1> QED
    BY <1>2, <1>4, <1>5 DEF EndOf

\* A file is an end of itself.
LEMMA EndOfItself ==
    ASSUME NEW s \in Seq(TimedByte)
    PROVE  EndOf(s, s)
BY DEF EndOf

\* EndOf is IsSuffix of the community modules.
LEMMA EndOfIsSuffix ==
    ASSUME NEW s \in Seq(TimedByte), NEW t \in Seq(TimedByte), EndOf(s, t)
    PROVE  IsSuffix(s, t)
<1> DEFINE rs == Reverse(s)
           rt == Reverse(t)
<1>1. /\ Len(s) \in Nat /\ Len(t) \in Nat /\ Len(s) <= Len(t)
      /\ \A i \in 1 .. Len(s) : s[i] = t[i + (Len(t) - Len(s))]
    BY DEF EndOf
<1>2. /\ rs \in Seq(TimedByte) /\ Len(rs) = Len(s) /\ \A i \in 1 .. Len(s) : rs[i] = s[Len(s) - i + 1]
    <2>1. \A i \in 1 .. Len(s) : s[Len(s) - i + 1] \in TimedByte
        BY ElementOfSeq
    <2>2. rs = [i \in 1 .. Len(s) |-> s[Len(s) - i + 1]]
        BY DEF Reverse
    <2> QED
        BY <2>1, <2>2
<1>3. /\ rt \in Seq(TimedByte) /\ Len(rt) = Len(t) /\ \A i \in 1 .. Len(t) : rt[i] = t[Len(t) - i + 1]
    <2>1. \A i \in 1 .. Len(t) : t[Len(t) - i + 1] \in TimedByte
        BY ElementOfSeq
    <2>2. rt = [i \in 1 .. Len(t) |-> t[Len(t) - i + 1]]
        BY DEF Reverse
    <2> QED
        BY <2>1, <2>2
<1>4. \A i \in 1 .. Len(s) : rs[i] = rt[i]
    <2> SUFFICES ASSUME NEW i \in 1 .. Len(s) PROVE rs[i] = rt[i]
        OBVIOUS
    <2>1. Len(s) - i + 1 \in 1 .. Len(s) /\ i \in 1 .. Len(t)
          /\ Len(s) - i + 1 + (Len(t) - Len(s)) = Len(t) - i + 1
        BY <1>1
    <2> QED
        BY <1>1, <1>2, <1>3, <2>1
<1> HIDE DEF rs, rt
<1>5. SubSeq(rs, 1, Len(rs)) = SubSeq(rt, 1, Len(rs))
    <2>1. \A i \in 1 .. Len(s) : rs[i] \in TimedByte /\ rt[i] \in TimedByte
        BY <1>1, <1>2, <1>3, ElementOfSeq
    <2> DEFINE u == SubSeq(rs, 1, Len(s))
               w == SubSeq(rt, 1, Len(s))
    <2>2. u \in Seq(TimedByte) /\ Len(u) = Len(s) /\ \A i \in 1 .. Len(s) : u[i] = rs[i]
        BY <1>1, <2>1, SubSeqProperties
    <2>3. w \in Seq(TimedByte) /\ Len(w) = Len(s) /\ \A i \in 1 .. Len(s) : w[i] = rt[i]
        BY <1>1, <2>1, SubSeqProperties
    <2> HIDE DEF u, w
    <2>4. u = w
        BY <1>4, <2>2, <2>3, SeqEqual
    <2> QED
        BY <1>2, <2>4 DEF u, w
<1> QED
    BY <1>1, <1>2, <1>3, <1>5 DEF IsSuffix, IsPrefix, rs, rt

FilesTyped ==
    /\ accepted \in Seq(TimedByte) /\ previous \in Seq(TimedByte) /\ live \in Seq(TimedByte)
    /\ liveLen \in 0 .. Len(live)
    /\ truncated \in BOOLEAN /\ writeFailed \in BOOLEAN /\ torn \in BOOLEAN

\* The live segment, too, is what the capture ends with.
LEMMA LiveIsEnd ==
    ASSUME FilesTyped, FilesHold, ~torn
    PROVE  EndOf(live, accepted) /\ (previous = <<>> => Served = live)
<1>1. live \in Seq(TimedByte) /\ previous \in Seq(TimedByte) /\ accepted \in Seq(TimedByte)
    BY DEF FilesTyped
<1>2. EndOf(previous \o live, accepted)
    BY DEF FilesHold, Served
<1>3. EndOf(live, accepted)
    BY <1>1, <1>2, EndOfEnd
<1>4. <<>> \o live = live
    BY <1>1, ConcatEmptySeq
<1> QED
    BY <1>3, <1>4 DEF Served

\* A payload that is written whole, after a rotation or without one.
LEMMA AppendWholeFiles ==
    ASSUME FilesTyped, FilesHold, arrived \in Seq(TimedByte),
           NEW p, NEW bytes \in Seq(TimedByte), Len(bytes) > 0, AppendWhole(p, bytes),
           arrived' = arrived \o bytes
    PROVE  FilesTyped' /\ FilesHold'
<1>1. /\ accepted \in Seq(TimedByte) /\ previous \in Seq(TimedByte) /\ live \in Seq(TimedByte)
      /\ Len(live) \in Nat /\ Len(bytes) \in Nat /\ liveLen \in 0 .. Len(live)
      /\ Len(accepted) \in Nat /\ Len(arrived) \in Nat
    BY DEF FilesTyped
<1>2. /\ live \o bytes \in Seq(TimedByte) /\ Len(live \o bytes) = Len(live) + Len(bytes)
      /\ accepted \o bytes \in Seq(TimedByte) /\ Len(accepted \o bytes) = Len(accepted) + Len(bytes)
      /\ Len(arrived \o bytes) = Len(arrived) + Len(bytes)
      /\ Served \in Seq(TimedByte)
    BY <1>1, ConcatProperties DEF Served
<1>3. accepted' = accepted \o bytes /\ writeFailed' = writeFailed /\ torn' = torn
    BY DEF AppendWhole
<1>4. Served' = previous' \o live'
    BY DEF Served
<1>5. /\ torn' => writeFailed'
      /\ ~writeFailed' => accepted' = arrived'
      /\ Len(accepted') <= Len(arrived')
    BY <1>1, <1>2, <1>3 DEF FilesHold
<1>6. CASE MustRotate(p)
    <2>1. /\ previous' = live /\ live' = bytes /\ liveLen' = Len(bytes)
          /\ truncated' = (truncated \/ previous # <<>>)
        BY <1>6 DEF AppendWhole, Rotate
    <2>2. Served' = live \o bytes
        BY <1>4, <2>1
    <2>3. ~torn => EndOf(live \o bytes, accepted \o bytes)
        BY <1>1, LiveIsEnd, EndOfConcat
    <2>4. ~torn /\ ~truncated' => live \o bytes = accepted \o bytes
        BY <2>1, LiveIsEnd DEF FilesHold
    <2>5. FilesTyped'
        BY <1>1, <1>2, <1>3, <2>1 DEF FilesTyped
    <2>6. /\ ~torn' => EndOf(Served', accepted')
          /\ ~torn' /\ ~truncated' => Served' = accepted'
        BY <1>3, <2>2, <2>3, <2>4
    <2> QED
        BY <1>5, <2>5, <2>6 DEF FilesHold, EndOf
<1>7. CASE ~MustRotate(p)
    <2>1. /\ previous' = previous /\ live' = live \o bytes /\ liveLen' = liveLen + Len(bytes)
          /\ truncated' = truncated
        BY <1>7 DEF AppendWhole
    <2>2. Served' = Served \o bytes
        <3>1. previous \in Seq(TimedByte) /\ live \in Seq(TimedByte) /\ bytes \in Seq(TimedByte)
            BY <1>1
        <3>2. (previous \o live) \o bytes = previous \o (live \o bytes)
            BY <3>1, ConcatAssociative, SMTT(30)
        <3> QED
            BY <1>4, <2>1, <3>2 DEF Served
    <2>3. ~torn => EndOf(Served \o bytes, accepted \o bytes)
        BY <1>1, <1>2, EndOfConcat DEF FilesHold
    <2>4. ~torn /\ ~truncated' => Served \o bytes = accepted \o bytes
        BY <2>1 DEF FilesHold
    <2>5. FilesTyped'
        BY <1>1, <1>2, <1>3, <2>1 DEF FilesTyped
    <2>6. /\ ~torn' => EndOf(Served', accepted')
          /\ ~torn' /\ ~truncated' => Served' = accepted'
        BY <1>3, <2>2, <2>3, <2>4
    <2> QED
        BY <1>5, <2>5, <2>6 DEF FilesHold, EndOf
<1> QED
    BY <1>6, <1>7

\* A payload that is written in part.
LEMMA AppendFailsFiles ==
    ASSUME FilesTyped, FilesHold, arrived \in Seq(TimedByte),
           NEW p, NEW bytes \in Seq(TimedByte), Len(bytes) > 0, AppendFails(p, bytes),
           arrived' = arrived \o bytes
    PROVE  FilesTyped' /\ FilesHold'
<1>1. /\ accepted \in Seq(TimedByte) /\ previous \in Seq(TimedByte) /\ live \in Seq(TimedByte)
      /\ Len(live) \in Nat /\ Len(bytes) \in Nat /\ liveLen \in 0 .. Len(live)
      /\ Len(accepted) \in Nat /\ Len(arrived) \in Nat
    BY DEF FilesTyped
<1>2. PICK n \in 0 .. Len(bytes) - 1 :
        /\ IF MustRotate(p)
           THEN Rotate /\ live' = SubSeq(bytes, 1, n) /\ liveLen' = 0
           ELSE /\ live' = live \o SubSeq(bytes, 1, n)
                /\ UNCHANGED <<previous, truncated, liveLen>>
        /\ torn' = (torn \/ n > 0)
    BY DEF AppendFails
<1> DEFINE some == SubSeq(bytes, 1, n)
<1>3. some \in Seq(TimedByte) /\ Len(some) = n
    <2>1. \A i \in 1 .. n : bytes[i] \in TimedByte
        BY <1>1, ElementOfSeq
    <2> QED
        BY <1>1, <2>1, SubSeqProperties
<1>4. n = 0 => some = <<>>
    BY <1>3, EmptySeq
<1> HIDE DEF some
<1>5. /\ live \o some \in Seq(TimedByte) /\ Len(live \o some) = Len(live) + n
      /\ Len(arrived \o bytes) = Len(arrived) + Len(bytes)
    BY <1>1, <1>3, ConcatProperties
<1>6. accepted' = accepted /\ writeFailed' = TRUE
    BY DEF AppendFails
<1>7. Served' = previous' \o live'
    BY DEF Served
<1>8. Len(accepted') <= Len(arrived')
    BY <1>1, <1>5, <1>6 DEF FilesHold
<1>9. torn' \in BOOLEAN /\ (~torn' => ~torn /\ some = <<>>)
    <2>1. n > 0 \/ n = 0
        BY <1>1
    <2>2. torn' = (torn \/ n > 0)
        BY <1>2, Zenon
    <2>3. torn \in BOOLEAN
        BY DEF FilesTyped
    <2> QED
        BY <1>4, <2>1, <2>2, <2>3, Zenon
<1>10. live \o <<>> = live
    BY <1>1, ConcatEmptySeq
<1>11. CASE MustRotate(p)
    <2>1. /\ previous' = live /\ live' = some /\ liveLen' = 0
          /\ truncated' = (truncated \/ previous # <<>>)
        BY <1>2, <1>11 DEF Rotate, some
    <2>2. ~torn' => Served' = live /\ ~torn
        BY <1>7, <1>9, <1>10, <2>1
    <2>3. /\ ~torn' => EndOf(Served', accepted')
          /\ ~torn' /\ ~truncated' => Served' = accepted'
        BY <1>6, <2>1, <2>2, LiveIsEnd DEF FilesHold
    <2>4. FilesTyped'
        BY <1>1, <1>3, <1>6, <1>9, <2>1 DEF FilesTyped
    <2> QED
        BY <1>6, <1>8, <2>3, <2>4 DEF FilesHold, EndOf
<1>12. CASE ~MustRotate(p)
    <2>1. /\ previous' = previous /\ live' = live \o some /\ liveLen' = liveLen
          /\ truncated' = truncated
        BY <1>2, <1>12 DEF some
    <2>2. ~torn' => Served' = Served /\ ~torn
        BY <1>7, <1>9, <1>10, <2>1 DEF Served
    <2>3. /\ ~torn' => EndOf(Served', accepted')
          /\ ~torn' /\ ~truncated' => Served' = accepted'
        BY <1>6, <2>1, <2>2 DEF FilesHold
    <2>4. FilesTyped'
        BY <1>1, <1>2, <1>5, <1>6, <1>9, <2>1 DEF FilesTyped
    <2> QED
        BY <1>6, <1>8, <2>3, <2>4 DEF FilesHold, EndOf
<1> QED
    BY <1>11, <1>12

\* A rotation that fails at its rename, or at its new file.
LEMMA RotateFailsFiles ==
    ASSUME FilesTyped, FilesHold, arrived \in Seq(TimedByte),
           NEW p, NEW bytes \in Seq(TimedByte), Len(bytes) > 0, RotateFails(p),
           arrived' = arrived \o bytes
    PROVE  FilesTyped' /\ FilesHold'
<1>1. /\ accepted \in Seq(TimedByte) /\ previous \in Seq(TimedByte) /\ live \in Seq(TimedByte)
      /\ Len(bytes) \in Nat /\ Len(accepted) \in Nat /\ Len(arrived) \in Nat
      /\ Len(arrived \o bytes) = Len(arrived) + Len(bytes)
    BY ConcatProperties DEF FilesTyped
<1>2. /\ accepted' = accepted /\ live' = live /\ liveLen' = liveLen /\ torn' = torn
      /\ writeFailed' = TRUE
      /\ truncated' = (truncated \/ previous' # previous)
      /\ previous' = previous \/ previous' = <<>>
    BY DEF RotateFails
<1>3. Len(accepted') <= Len(arrived')
    BY <1>1, <1>2 DEF FilesHold
<1>4. FilesTyped'
    BY <1>2, EmptySeq DEF FilesTyped
<1>5. Served' = previous' \o live'
    BY DEF Served
<1>6. CASE previous' = previous
    <2>1. Served' = Served
        BY <1>2, <1>5, <1>6 DEF Served
    <2> QED
        BY <1>2, <1>3, <1>4, <1>6, <2>1 DEF FilesHold, EndOf
<1>7. CASE previous' = <<>> /\ previous' # previous
    <2>1. Served' = live
        BY <1>1, <1>2, <1>5, <1>7, ConcatEmptySeq
    <2>2. /\ ~torn' => EndOf(Served', accepted')
          /\ truncated'
        BY <1>2, <1>7, <2>1, LiveIsEnd
    <2> QED
        BY <1>2, <1>3, <1>4, <2>2 DEF FilesHold, EndOf
<1> QED
    BY <1>2, <1>6, <1>7

\* Adding a record that is no earlier leaves the bytes in order.
LEMMA TimesNext ==
    ASSUME TimesAscend, accepted \in Seq(TimedByte), clock \in Nat,
           NEW bytes \in Seq(TimedByte), \A i \in 1 .. Len(bytes) : bytes[i].at = clock + 1,
           clock' = clock + 1, accepted' \in {accepted, accepted \o bytes}
    PROVE  TimesAscend'
<1>1. /\ Len(accepted) \in Nat /\ Len(bytes) \in Nat
      /\ DOMAIN accepted = 1 .. Len(accepted)
      /\ DOMAIN (accepted \o bytes) = 1 .. Len(accepted) + Len(bytes)
      /\ \A i \in 1 .. Len(accepted) + Len(bytes) :
            (accepted \o bytes)[i] = IF i <= Len(accepted) THEN accepted[i]
                                     ELSE bytes[i - Len(accepted)]
    BY ConcatProperties, LenProperties
<1>2. \A i \in 1 .. Len(accepted) : accepted[i].at \in Nat
    <2>1. \A i \in 1 .. Len(accepted) : accepted[i] \in TimedByte
        BY ElementOfSeq
    <2> QED
        BY <2>1, BoundAssumption DEF TimedByte
<1>3. /\ \A i \in 1 .. Len(accepted) : accepted[i].at <= clock
      /\ \A i, j \in 1 .. Len(accepted) : i <= j => accepted[i].at <= accepted[j].at
    BY <1>1 DEF TimesAscend
<1>4. CASE accepted' = accepted
    BY <1>1, <1>2, <1>3, <1>4 DEF TimesAscend
<1>5. CASE accepted' = accepted \o bytes
    <2> DEFINE D == 1 .. Len(accepted) + Len(bytes)
    <2>1. \A i \in D : accepted'[i].at = IF i <= Len(accepted) THEN accepted[i].at ELSE clock + 1
        <3> SUFFICES ASSUME NEW i \in D
                     PROVE  accepted'[i].at = IF i <= Len(accepted) THEN accepted[i].at ELSE clock + 1
            OBVIOUS
        <3>1. CASE i <= Len(accepted)
            BY <1>1, <1>5, <3>1
        <3>2. CASE ~(i <= Len(accepted))
            <4>1. i - Len(accepted) \in 1 .. Len(bytes)
                BY <1>1, <3>2
            <4> QED
                BY <1>1, <1>5, <3>2, <4>1
        <3> QED
            BY <3>1, <3>2
    <2>2. DOMAIN accepted' = D
        BY <1>1, <1>5
    <2>3. ASSUME NEW i \in D PROVE accepted'[i].at <= clock'
        BY <1>1, <1>2, <1>3, <2>1
    <2>4. ASSUME NEW i \in D, NEW j \in D, i <= j PROVE accepted'[i].at <= accepted'[j].at
        <3>1. CASE j <= Len(accepted)
            BY <1>1, <1>3, <2>1, <2>4, <3>1
        <3>2. CASE ~(j <= Len(accepted))
            BY <1>1, <1>2, <1>3, <2>1, <2>4, <3>2
        <3> QED
            BY <3>1, <3>2
    <2> QED
        BY <2>2, <2>3, <2>4 DEF TimesAscend
<1> QED
    BY <1>4, <1>5

\* Counting the frames of a record gives the next rows their numbers.
LEMMA FramesNext ==
    ASSUME arrivalKind = "frames", arrivalKind' = "frames", FramesAreNoted,
           accepted \in Seq(TimedByte), rows \in Seq(Row),
           NEW bytes \in Seq(TimedByte), accepted' = accepted \o bytes, NoteFrames(bytes)
    PROVE  /\ FramesAreNoted' /\ rows' \in Seq(Row)
           /\ pending' \in Nat /\ nextKey' \in Nat /\ pending' + nextKey' <= Len(accepted')
<1> DEFINE old == Frames(0, accepted)
           fed == Frames(pending, bytes)
           all == Frames(0, accepted')
           new == [i \in DOMAIN fed.done |->
                    [key |-> nextKey + i - 1, at |-> fed.done[i].at, len |-> fed.done[i].len]]
           M == Len(rows)
           N == Len(fed.done)
           K == Len(old.done)
<1>1. /\ pending = old.pending /\ nextKey = K
      /\ \A i \in DOMAIN rows :
            /\ rows[i].key + (M - i) < nextKey
            /\ old.done[rows[i].key + 1] = [len |-> rows[i].len, at |-> rows[i].at]
      /\ \A i, j \in DOMAIN rows : i < j => rows[i].key + (j - i) <= rows[j].key
    BY DEF FramesAreNoted
<1>2. pending' = fed.pending /\ nextKey' = nextKey + Len(new) /\ rows' \in {rows, rows \o new}
    BY DEF NoteFrames
<1>3. old \in Count
    BY FramesTyped
<1>4. old.done \in Seq(Chunk) /\ old.pending \in Nat /\ K \in Nat
    BY <1>3 DEF Count
<1>5. fed \in Count
    BY <1>1, <1>4, FramesTyped
<1>6. fed.done \in Seq(Chunk) /\ fed.pending \in Nat /\ N \in Nat /\ DOMAIN fed.done = 1 .. N
    BY <1>5, LenProperties DEF Count
<1>7. all = [done |-> old.done \o fed.done, pending |-> fed.pending]
    BY <1>1, FramesConcat
<1>8. all.pending + Len(all.done) <= Len(accepted') /\ Len(accepted') \in Nat
    <2>1. accepted \o bytes \in Seq(TimedByte) /\ Len(accepted \o bytes) \in Nat
        BY ConcatProperties
    <2>2. /\ Frames(0, accepted \o bytes) \in Count
          /\ Len(Frames(0, accepted \o bytes).done) + Frames(0, accepted \o bytes).pending
                <= 0 + Len(accepted \o bytes)
        BY <2>1, FramesTyped
    <2>3. all \in Count /\ Len(all.done) + all.pending <= 0 + Len(accepted')
        BY <2>2
    <2>4. Len(all.done) \in Nat /\ all.pending \in Nat
        BY <2>3 DEF Count
    <2> QED
        BY <2>1, <2>3, <2>4
<1>K. K = Len(old.done) /\ N = Len(fed.done) /\ M = Len(rows)
    OBVIOUS
<1> HIDE DEF fed, old, all, K, N, M
<1>9. /\ Len(old.done \o fed.done) = K + N
      /\ \A i \in 1 .. K + N :
            (old.done \o fed.done)[i] = IF i <= K THEN old.done[i] ELSE fed.done[i - K]
    BY <1>4, <1>6, <1>K, ConcatProperties
<1>10. /\ all.pending = fed.pending /\ Len(all.done) = K + N
       /\ \A i \in 1 .. K : all.done[i] = old.done[i]
       /\ \A i \in 1 .. N : all.done[K + i] = fed.done[i]
    <2>1. all.done = old.done \o fed.done /\ all.pending = fed.pending
        BY <1>7
    <2>2. \A i \in 1 .. K : i \in 1 .. K + N /\ i <= K
        BY <1>4, <1>6
    <2>3. \A i \in 1 .. N : K + i \in 1 .. K + N /\ ~(K + i <= K) /\ K + i - K = i
        BY <1>4, <1>6
    <2>4. \A i \in 1 .. K : (old.done \o fed.done)[i] = old.done[i]
        BY <1>9, <2>2
    <2>5. \A i \in 1 .. N : (old.done \o fed.done)[K + i] = fed.done[i]
        <3> SUFFICES ASSUME NEW m \in 1 .. N
                     PROVE  (old.done \o fed.done)[K + m] = fed.done[m]
            OBVIOUS
        <3> DEFINE k == K + m
        <3>1. k \in 1 .. K + N /\ ~(k <= K) /\ k - K = m
            BY <1>4, <1>6
        <3> HIDE DEF k
        <3>2. (old.done \o fed.done)[k] = IF k <= K THEN old.done[k] ELSE fed.done[k - K]
            BY <1>9, <3>1
        <3> QED
            BY <3>1, <3>2 DEF k
    <2> QED
        BY <1>9, <2>1, <2>4, <2>5
<1>11. /\ new \in Seq(Row) /\ Len(new) = N
       /\ \A i \in 1 .. N : /\ new[i].key = K + i - 1
                            /\ fed.done[i] = [len |-> new[i].len, at |-> new[i].at]
    <2>1. \A i \in 1 .. N : fed.done[i] \in Chunk
        BY <1>6, ElementOfSeq
    <2>2. \A i \in 1 .. N : [key |-> K + i - 1, at |-> fed.done[i].at, len |-> fed.done[i].len] \in Row
        <3>1. \A i \in 1 .. N : fed.done[i].at \in 1 .. MaxRecords /\ fed.done[i].len \in Nat \ {0}
            BY <2>1 DEF Chunk
        <3>2. \A i \in 1 .. N : K + i - 1 \in Nat
            BY <1>4, <1>6
        <3> QED
            BY <3>1, <3>2 DEF Row
    <2>3. new = [i \in 1 .. N |-> [key |-> K + i - 1, at |-> fed.done[i].at, len |-> fed.done[i].len]]
        BY <1>1, <1>6
    <2>4. new \in Seq(Row) /\ Len(new) = N
        <3> HIDE DEF new
        <3> QED
            BY <1>6, <2>2, <2>3
    <2>5. \A i \in 1 .. N : fed.done[i] = [len |-> fed.done[i].len, at |-> fed.done[i].at]
        BY <2>1 DEF Chunk
    <2>6. \A i \in 1 .. N : /\ new[i].key = K + i - 1
                            /\ new[i].at = fed.done[i].at /\ new[i].len = fed.done[i].len
        BY <2>3
    <2> QED
        BY <2>4, <2>5, <2>6
<1> HIDE DEF new
<1>12. /\ M \in Nat /\ DOMAIN rows = 1 .. M
       /\ \A i \in 1 .. M : rows[i] \in Row
       /\ \A i \in 1 .. M : rows[i].key \in Nat
    <2>1. M \in Nat /\ DOMAIN rows = 1 .. M
        BY <1>K, LenProperties
    <2>2. \A i \in 1 .. M : rows[i] \in Row
        BY <1>K, ElementOfSeq
    <2> QED
        BY <2>1, <2>2 DEF Row
<1>13. nextKey' = K + N
    BY <1>1, <1>2, <1>11
<1>14. rows' \in Seq(Row) /\ FramesAreNoted'
    <2>1. CASE rows' = rows
        <3>1. ASSUME NEW i \in 1 .. M
              PROVE  /\ rows[i].key + (M - i) < K + N
                     /\ all.done[rows[i].key + 1] = [len |-> rows[i].len, at |-> rows[i].at]
            <4>1. rows[i].key + (M - i) < K
                BY <1>1, <1>12
            <4>2. rows[i].key + 1 \in 1 .. K
                BY <1>4, <1>12, <4>1
            <4>3. rows[i].key + (M - i) < K + N
                BY <1>4, <1>6, <1>12, <4>1
            <4>4. all.done[rows[i].key + 1] = old.done[rows[i].key + 1]
                BY <1>10, <4>2
            <4> QED
                BY <1>1, <1>12, <4>3, <4>4
        <3> QED
            BY <1>1, <1>2, <1>10, <1>12, <1>13, <2>1, <3>1, SMTT(30) DEF FramesAreNoted, all
    <2>2. CASE rows' = rows \o new
        <3>1. /\ rows' \in Seq(Row) /\ Len(rows') = M + N /\ DOMAIN rows' = 1 .. M + N
              /\ \A i \in 1 .. M + N : rows'[i] = IF i <= M THEN rows[i] ELSE new[i - M]
            BY <1>6, <1>11, <1>12, <1>K, <2>2, ConcatProperties, LenProperties
        <3>2. ASSUME NEW i \in 1 .. M PROVE rows'[i] = rows[i]
            BY <1>6, <1>12, <3>1
        <3>3. ASSUME NEW i \in M + 1 .. M + N
              PROVE  i - M \in 1 .. N /\ rows'[i] = new[i - M] /\ rows'[i].key = K + (i - M) - 1
            <4>1. i - M \in 1 .. N /\ i \in 1 .. M + N /\ ~(i <= M)
                BY <1>6, <1>12
            <4> QED
                BY <1>11, <3>1, <4>1
        <3>4. ASSUME NEW i \in 1 .. M + N
              PROVE  /\ rows'[i].key + (M + N - i) < K + N
                     /\ all.done[rows'[i].key + 1] = [len |-> rows'[i].len, at |-> rows'[i].at]
            <4>1. CASE i \in 1 .. M
                <5>1. rows[i].key + (M - i) < K
                    BY <1>1, <1>12, <4>1
                <5>2. rows[i].key + 1 \in 1 .. K /\ rows[i].key \in Nat
                    BY <1>4, <1>12, <4>1, <5>1
                <5>3. rows[i].key + (M + N - i) < K + N
                    BY <1>4, <1>6, <1>12, <4>1, <5>1, <5>2
                <5>4. all.done[rows[i].key + 1] = [len |-> rows[i].len, at |-> rows[i].at]
                    BY <1>1, <1>10, <1>12, <4>1, <5>2
                <5> QED
                    BY <3>2, <4>1, <5>3, <5>4
            <4>2. CASE i \in M + 1 .. M + N
                <5>1. /\ i - M \in 1 .. N /\ rows'[i] = new[i - M] /\ rows'[i].key = K + (i - M) - 1
                    BY <3>3, <4>2
                <5>2. K + (i - M) - 1 + 1 = K + (i - M) /\ K + (i - M) - 1 + (M + N - i) < K + N
                    BY <1>4, <1>6, <1>12
                <5>3. all.done[K + (i - M)] = fed.done[i - M]
                    BY <1>10, <5>1
                <5> QED
                    BY <1>11, <5>1, <5>2, <5>3
            <4> QED
                BY <1>6, <1>12, <4>1, <4>2
        <3>5. ASSUME NEW i \in 1 .. M + N, NEW j \in 1 .. M + N, i < j
              PROVE  rows'[i].key + (j - i) <= rows'[j].key
            <4>1. CASE j \in 1 .. M
                <5>1. i \in 1 .. M
                    BY <1>6, <1>12, <3>5, <4>1
                <5> QED
                    BY <1>1, <1>12, <3>2, <3>5, <4>1, <5>1
            <4>2. CASE j \in M + 1 .. M + N
                <5>1. rows'[j].key = K + (j - M) - 1
                    BY <3>3, <4>2
                <5>2. CASE i \in 1 .. M
                    <6>1. rows[i].key + (M - i) < K /\ rows[i].key \in Nat /\ rows'[i] = rows[i]
                        BY <1>1, <1>12, <3>2, <5>2
                    <6> QED
                        BY <1>4, <1>6, <1>12, <5>1, <6>1, SMTT(30)
                <5>3. CASE i \in M + 1 .. M + N
                    <6>1. rows'[i].key = K + (i - M) - 1
                        BY <3>3, <5>3
                    <6> QED
                        BY <1>4, <1>6, <1>12, <5>1, <6>1
                <5> QED
                    BY <1>6, <1>12, <5>2, <5>3
            <4> QED
                BY <1>6, <1>12, <4>1, <4>2
        <3> QED
            <4>1. pending' = all.pending /\ nextKey' = Len(all.done) /\ nextKey' = K + N
                BY <1>2, <1>10, <1>13
            <4>2. \A i \in DOMAIN rows' :
                    /\ rows'[i].key + (Len(rows') - i) < nextKey'
                    /\ all.done[rows'[i].key + 1] = [len |-> rows'[i].len, at |-> rows'[i].at]
                <5>1. Len(rows') = M + N /\ DOMAIN rows' = 1 .. M + N /\ nextKey' = K + N
                    BY <3>1, <4>1
                <5>2. ASSUME NEW i \in 1 .. M + N
                      PROVE  /\ rows'[i].key + (Len(rows') - i) < nextKey'
                             /\ all.done[rows'[i].key + 1]
                                    = [len |-> rows'[i].len, at |-> rows'[i].at]
                    <6>1. rows'[i].key + (M + N - i) < K + N
                        BY <3>4
                    <6>2. all.done[rows'[i].key + 1] = [len |-> rows'[i].len, at |-> rows'[i].at]
                        BY <3>4
                    <6>3. rows'[i].key + (Len(rows') - i) < nextKey'
                        <7>1. Len(rows') - i = M + N - i
                            BY <1>6, <1>12, <5>1
                        <7> QED
                            BY <5>1, <6>1, <7>1, Zenon
                    <6> QED
                        BY <6>2, <6>3
                <5> QED
                    BY <5>1, <5>2, Zenon
            <4>3. \A i, j \in DOMAIN rows' : i < j => rows'[i].key + (j - i) <= rows'[j].key
                BY <3>1, <3>5
            <4> QED
                BY <3>1, <4>1, <4>2, <4>3, Zenon DEF FramesAreNoted, all
    <2> QED
        BY <1>2, <2>1, <2>2
<1>15. pending' = all.pending /\ nextKey' = Len(all.done)
    BY <1>2, <1>10, <1>13
<1> QED
    BY <1>2, <1>4, <1>6, <1>8, <1>10, <1>13, <1>14, <1>15

\* A record of a text gets a row for the bytes it added.
LEMMA BytesNext ==
    ASSUME arrivalKind = "bytes", arrivalKind' = "bytes", BytesAreNoted,
           accepted \in Seq(TimedByte), rows \in Seq(Row),
           NEW bytes \in Seq(TimedByte), Len(bytes) > 0,
           \A i \in 1 .. Len(bytes) : bytes[i].at = bytes[1].at,
           accepted' = accepted \o bytes, NoteBytes(bytes)
    PROVE  /\ BytesAreNoted' /\ rows' \in Seq(Row)
           /\ pending' = 0 /\ nextKey' = Len(accepted')
<1> DEFINE row == [key |-> nextKey, at |-> bytes[1].at, len |-> Len(bytes)]
           K == Len(accepted)
           B == Len(bytes)
           M == Len(rows)
<1>1. /\ pending = 0 /\ nextKey = K
      /\ \A i \in DOMAIN rows :
            /\ rows[i].key + rows[i].len <= nextKey
            /\ \A k \in rows[i].key + 1 .. rows[i].key + rows[i].len : accepted[k].at = rows[i].at
      /\ \A i, j \in DOMAIN rows : i < j => rows[i].key + rows[i].len <= rows[j].key
    BY DEF BytesAreNoted
<1>2. pending' = pending /\ nextKey' = nextKey + B /\ rows' \in {rows, Append(rows, row)}
    BY DEF NoteBytes
<1>3. /\ K \in Nat /\ B \in Nat /\ B > 0 /\ M \in Nat /\ DOMAIN rows = 1 .. M
      /\ Len(accepted') = K + B
      /\ \A i \in 1 .. K + B : accepted'[i] = IF i <= K THEN accepted[i] ELSE bytes[i - K]
    BY ConcatProperties, LenProperties
<1>4. \A i \in 1 .. M : rows[i] \in Row
    BY ElementOfSeq
<1>5. \A i \in 1 .. M : rows[i].key \in Nat /\ rows[i].len \in Nat \ {0}
    BY <1>4 DEF Row
<1>6. bytes[1] \in TimedByte
    BY <1>3, ElementOfSeq
<1>7. row \in Row /\ row.key = K /\ row.len = B /\ row.at = bytes[1].at
    <2>1. bytes[1].at \in 1 .. MaxRecords
        BY <1>6 DEF TimedByte
    <2> QED
        BY <1>1, <1>3, <2>1 DEF Row
<1> HIDE DEF row, K, B, M
<1>8. ASSUME NEW i \in 1 .. M
      PROVE  /\ rows[i].key + rows[i].len <= K /\ rows[i].key + rows[i].len <= K + B
             /\ \A k \in rows[i].key + 1 .. rows[i].key + rows[i].len : accepted'[k].at = rows[i].at
    <2>1. rows[i].key + rows[i].len <= K
        BY <1>1, <1>3
    <2>2. ASSUME NEW k \in rows[i].key + 1 .. rows[i].key + rows[i].len
          PROVE  accepted'[k].at = rows[i].at
        <3>1. k \in 1 .. K + B /\ k <= K
            BY <1>3, <1>5, <2>1
        <3>2. accepted'[k] = accepted[k]
            BY <1>3, <3>1
        <3>3. accepted[k].at = rows[i].at
            BY <1>1, <1>3
        <3> QED
            BY <3>2, <3>3
    <2>3. rows[i].key + rows[i].len <= K + B
        BY <1>3, <1>5, <2>1
    <2> QED
        BY <2>1, <2>2, <2>3
<1>9. pending' = 0 /\ nextKey' = K + B
    BY <1>1, <1>2
<1>10. CASE rows' = rows
    <2>1. \A i \in 1 .. M : rows[i].key + rows[i].len <= K + B
        BY <1>8
    <2>2. \A i \in DOMAIN rows' :
            /\ rows'[i].key + rows'[i].len <= nextKey'
            /\ \A k \in rows'[i].key + 1 .. rows'[i].key + rows'[i].len : accepted'[k].at = rows'[i].at
        BY <1>3, <1>8, <1>9, <1>10, <2>1, ZenonT(40)
    <2>3. \A i, j \in DOMAIN rows' : i < j => rows'[i].key + rows'[i].len <= rows'[j].key
        BY <1>1, <1>10
    <2> QED
        BY <1>3, <1>9, <1>10, <2>2, <2>3 DEF BytesAreNoted
<1>11. CASE rows' = Append(rows, row)
    <2>1. /\ rows' \in Seq(Row) /\ Len(rows') = M + 1 /\ DOMAIN rows' = 1 .. M + 1
          /\ \A i \in 1 .. M : rows'[i] = rows[i]
          /\ rows'[M + 1] = row
        BY <1>7, <1>11, AppendProperties, LenProperties DEF M
    <2>2. \A i \in 1 .. M + 1 : i \in 1 .. M \/ i = M + 1
        <3>1. M \in Nat
            BY <1>3
        <3> QED
            BY ONLY <3>1
    <2>3. ASSUME NEW i \in 1 .. M + 1
          PROVE  /\ rows'[i].key + rows'[i].len <= K + B
                 /\ \A k \in rows'[i].key + 1 .. rows'[i].key + rows'[i].len :
                        accepted'[k].at = rows'[i].at
        <3>1. CASE i \in 1 .. M
            <4>1. rows[i].key + rows[i].len <= K + B
                BY <1>8, <3>1
            <4>2. rows'[i] = rows[i]
                BY <2>1, <3>1
            <4> QED
                BY <1>8, <3>1, <4>1, <4>2, Zenon
        <3>2. CASE i = M + 1
            <4>1. rows'[i] = row
                BY <2>1, <3>2
            <4>2. ASSUME NEW k \in K + 1 .. K + B PROVE accepted'[k].at = bytes[1].at
                <5>1. k \in 1 .. K + B /\ ~(k <= K) /\ k - K \in 1 .. B
                    BY <1>3
                <5>2. accepted'[k] = bytes[k - K]
                    BY <1>3, <5>1
                <5>3. bytes[k - K].at = bytes[1].at
                    BY <5>1 DEF B
                <5> QED
                    BY <5>2, <5>3
            <4>3. K + B <= K + B
                BY <1>3
            <4> QED
                BY <1>7, <4>1, <4>2, <4>3, Zenon
        <3> QED
            BY <2>2, <3>1, <3>2
    <2>4. ASSUME NEW i \in 1 .. M + 1, NEW j \in 1 .. M + 1, i < j
          PROVE  rows'[i].key + rows'[i].len <= rows'[j].key
        <3>1. i \in 1 .. M
            BY <1>3, <2>4
        <3>2. rows'[i] = rows[i]
            BY <2>1, <3>1
        <3>3. CASE j \in 1 .. M
            <4>1. rows'[j] = rows[j]
                BY <2>1, <3>3
            <4> QED
                BY <1>1, <1>3, <2>4, <3>1, <3>2, <3>3, <4>1
        <3>4. CASE j = M + 1
            <4>1. rows'[j].key = K
                BY <1>7, <2>1, <3>4
            <4> QED
                BY <1>8, <3>1, <3>2, <4>1
        <3> QED
            BY <2>2, <3>3, <3>4
    <2>5. \A i \in DOMAIN rows' :
            /\ rows'[i].key + rows'[i].len <= nextKey'
            /\ \A k \in rows'[i].key + 1 .. rows'[i].key + rows'[i].len : accepted'[k].at = rows'[i].at
        BY <1>9, <2>1, <2>3, Zenon
    <2>6. \A i, j \in DOMAIN rows' : i < j => rows'[i].key + rows'[i].len <= rows'[j].key
        BY <2>1, <2>4, Zenon
    <2> QED
        BY <1>3, <1>9, <2>1, <2>5, <2>6 DEF BytesAreNoted
<1> QED
    BY <1>2, <1>3, <1>9, <1>10, <1>11

-----------------------------------------------------------------------------

\* The invariant holds at first.
LEMMA StreamBegins == ASSUME StreamInit PROVE StreamIInv
<1>1. StreamTypeOK
    <2>1. <<>> \in Seq(TimedByte) /\ <<>> \in Seq(Row) /\ Len(<<>>) = 0
        OBVIOUS
    <2>2. \A file \in {arrived, accepted, previous, live} : file \in Seq(TimedByte)
        BY <2>1 DEF StreamInit
    <2>3. /\ liveLen \in 0 .. Len(live) /\ clock \in 0 .. MaxRecords
          /\ pending \in 0 .. Len(arrived) /\ nextKey \in 0 .. Len(arrived)
        BY <2>1, BoundAssumption DEF StreamInit
    <2> QED
        BY <2>1, <2>2, <2>3 DEF StreamInit, StreamTypeOK
<1>2. Served = <<>>
    BY DEF StreamInit, Served
<1>3. FilesHold
    <2>1. EndOf(<<>>, <<>>)
        BY DEF EndOf
    <2> QED
        BY <1>2, <2>1 DEF StreamInit, FilesHold
<1>4. TimesAscend
    BY DEF StreamInit, TimesAscend
<1>5. FramesAreNoted
    BY FramesOfNothing DEF StreamInit, FramesAreNoted, Begun
<1>6. BytesAreNoted
    BY DEF StreamInit, BytesAreNoted
<1> QED
    BY <1>1, <1>3, <1>4, <1>5, <1>6 DEF StreamIInv

\* A record keeps the invariant, whatever fails of its appends.
LEMMA ArriveIInv ==
    ASSUME StreamIInv, NEW p \in Payload, Arrive(p)
    PROVE  StreamIInv'
<1> DEFINE bytes == Stamped(p, clock + 1)
<1>1. /\ clock < MaxRecords /\ clock' = clock + 1 /\ arrived' = arrived \o bytes /\ arrivalKind' = arrivalKind
      /\ \/ AppendWhole(p, bytes) /\ NoteArrival(bytes)
         \/ AppendFails(p, bytes) /\ UNCHANGED sidecarVars
         \/ RotateFails(p) /\ UNCHANGED sidecarVars
    BY DEF Arrive
<1>2. /\ arrivalKind \in {"frames", "bytes"} /\ clock \in 0 .. MaxRecords /\ rows \in Seq(Row)
      /\ pending \in 0 .. Len(arrived) /\ nextKey \in 0 .. Len(arrived)
      /\ liveLen \in 0 .. Len(live)
      /\ truncated \in BOOLEAN /\ writeFailed \in BOOLEAN /\ torn \in BOOLEAN
    BY DEF StreamIInv, StreamTypeOK
<1>3. /\ arrived \in Seq(TimedByte) /\ accepted \in Seq(TimedByte)
      /\ previous \in Seq(TimedByte) /\ live \in Seq(TimedByte) /\ Len(arrived) \in Nat
    BY StreamTypes DEF StreamIInv
<1>4. clock + 1 \in 1 .. MaxRecords /\ clock \in Nat
    BY <1>1, <1>2, BoundAssumption
<1>5. /\ bytes \in Seq(TimedByte) /\ Len(bytes) \in Nat \ {0}
      /\ \A i \in 1 .. Len(bytes) : bytes[i].at = clock + 1
    BY <1>4, StampedIs
<1> HIDE DEF bytes
<1>6. \A i \in 1 .. Len(bytes) : bytes[i].at = bytes[1].at
    <2>1. 1 \in 1 .. Len(bytes)
        BY <1>5
    <2> QED
        BY <1>5, <2>1
<1>7. FilesTyped' /\ FilesHold'
    <2>1. FilesTyped /\ FilesHold /\ Len(bytes) > 0
        BY <1>2, <1>3, <1>5 DEF FilesTyped, StreamIInv
    <2> QED
        BY <1>1, <1>3, <1>5, <2>1, AppendWholeFiles, AppendFailsFiles, RotateFailsFiles
<1>8. accepted' \in {accepted, accepted \o bytes}
    BY <1>1 DEF AppendWhole, AppendFails, RotateFails
<1>9. TimesAscend'
    BY <1>1, <1>3, <1>4, <1>5, <1>8, TimesNext DEF StreamIInv
<1>10. arrived' \in Seq(TimedByte) /\ Len(arrived') \in Nat /\ Len(arrived) <= Len(arrived')
    <2>1. arrived \o bytes \in Seq(TimedByte) /\ Len(arrived \o bytes) = Len(arrived) + Len(bytes)
        BY <1>3, <1>5, ConcatProperties
    <2> QED
        BY <1>1, <1>3, <1>5, <2>1
<1>11. Len(accepted') \in Nat /\ Len(accepted') <= Len(arrived')
    BY <1>7 DEF FilesTyped, FilesHold
<1>12. /\ FramesAreNoted' /\ BytesAreNoted' /\ rows' \in Seq(Row)
       /\ pending' \in 0 .. Len(arrived') /\ nextKey' \in 0 .. Len(arrived')
    <2>1. CASE AppendWhole(p, bytes) /\ NoteArrival(bytes) /\ arrivalKind = "frames"
        <3>1. accepted' = accepted \o bytes /\ NoteFrames(bytes)
            BY <2>1 DEF AppendWhole, NoteArrival
        <3>2. /\ FramesAreNoted' /\ rows' \in Seq(Row)
              /\ pending' \in Nat /\ nextKey' \in Nat /\ pending' + nextKey' <= Len(accepted')
            BY <1>1, <1>2, <1>3, <1>5, <2>1, <3>1, FramesNext DEF StreamIInv
        <3>3. BytesAreNoted'
            BY <1>1, <2>1 DEF BytesAreNoted
        <3> QED
            BY <1>10, <1>11, <3>2, <3>3
    <2>2. CASE AppendWhole(p, bytes) /\ NoteArrival(bytes) /\ arrivalKind = "bytes"
        <3>1. accepted' = accepted \o bytes /\ NoteBytes(bytes)
            BY <2>2 DEF AppendWhole, NoteArrival
        <3>2. /\ BytesAreNoted' /\ rows' \in Seq(Row)
              /\ pending' = 0 /\ nextKey' = Len(accepted')
            <4>1. arrivalKind' = "bytes" /\ Len(bytes) > 0 /\ BytesAreNoted
                BY <1>1, <1>5, <2>2 DEF StreamIInv
            <4> QED
                BY <1>2, <1>3, <1>5, <1>6, <2>2, <3>1, <4>1, BytesNext
        <3>3. FramesAreNoted'
            BY <1>1, <2>2 DEF FramesAreNoted
        <3> QED
            BY <1>10, <1>11, <3>2, <3>3
    <2>3. CASE (AppendFails(p, bytes) \/ RotateFails(p)) /\ UNCHANGED sidecarVars
        <3>1. /\ accepted' = accepted /\ arrivalKind' = arrivalKind
              /\ pending' = pending /\ nextKey' = nextKey /\ rows' = rows
            BY <1>1, <2>3 DEF AppendFails, RotateFails, sidecarVars
        <3>2. FramesAreNoted'
            BY <3>1 DEF FramesAreNoted, StreamIInv
        <3>3. BytesAreNoted'
            BY <3>1 DEF BytesAreNoted, StreamIInv
        <3> QED
            BY <1>2, <1>3, <1>10, <3>1, <3>2, <3>3
    <2> QED
        BY <1>1, <1>2, <2>1, <2>2, <2>3
<1>13. StreamTypeOK'
    BY <1>1, <1>2, <1>4, <1>7, <1>10, <1>12, BoundAssumption DEF StreamTypeOK, FilesTyped
<1> QED
    BY <1>7, <1>9, <1>12, <1>13 DEF StreamIInv

\* The invariant holds in every state that the store, however its appends fail,
\* can reach.
THEOREM StreamsInductive == StreamSpec => []StreamIInv
<1>1. StreamInit => StreamIInv
    BY StreamBegins
<1>2. StreamIInv /\ [StreamNext]_streamVars => StreamIInv'
    <2> SUFFICES ASSUME StreamIInv, [StreamNext]_streamVars PROVE StreamIInv'
        OBVIOUS
    <2>1. CASE StreamNext
        BY <2>1, ArriveIInv DEF StreamNext
    <2>2. CASE UNCHANGED streamVars
        BY <2>2 DEF streamVars, rawVars, sidecarVars, StreamIInv, StreamTypeOK, FilesHold, Served, EndOf,
                    TimesAscend, FramesAreNoted, BytesAreNoted
    <2> QED
        BY <2>1, <2>2
<1> QED
    BY <1>1, <1>2, PTL DEF StreamSpec

\* The invariant says that loss is said.
LEMMA LossIsSaidHolds == ASSUME StreamIInv PROVE LossIsSaid
<1>1. /\ Served \in Seq(TimedByte) /\ accepted \in Seq(TimedByte)
      /\ Len(Served) \in Nat /\ Len(arrived) \in Nat
    BY StreamTypes DEF StreamIInv
<1>2. ~torn => IsSuffix(Served, accepted)
    BY <1>1, EndOfIsSuffix DEF StreamIInv, FilesHold
<1>3. ~RefTruncated => Served = arrived
    BY DEF RefTruncated, StreamIInv, FilesHold
<1>4. Len(Served) < Len(arrived) => RefTruncated
    BY <1>1, <1>3
<1> QED
    BY <1>2, <1>4 DEF LossIsSaid, StreamIInv

\* LossIsSaid, which the run of MCStreams checks: a file that does not serve all that
\* arrived says so, and serves the end of what it took, for every record size,
\* segment size and number of records.
THEOREM LossIsAlwaysSaid == StreamSpec => []LossIsSaid
<1>1. StreamIInv => LossIsSaid
    BY LossIsSaidHolds
<1> QED
    BY <1>1, StreamsInductive, PTL

-----------------------------------------------------------------------------
(* The readers                                                             *)

LEMMA MaxIs ==
    ASSUME NEW T \in SUBSET Int, NEW m \in T, \A x \in T : x <= m
    PROVE  Max(T) = m
<1>1. m \in T /\ \A y \in T : m >= y
    OBVIOUS
<1>2. Max(T) \in T /\ \A y \in T : Max(T) >= y
    BY <1>1, Zenon DEF Max
<1>3. Max(T) <= m /\ Max(T) >= m /\ Max(T) \in Int /\ m \in Int
    BY <1>2
<1> QED
    BY <1>3

\* The difference of two sizes, saturated.
LEMMA MaxWithZero ==
    ASSUME NEW x \in Int
    PROVE  Max({0, x}) = IF x > 0 THEN x ELSE 0
<1>1. CASE x > 0
    <2>1. x \in {0, x} /\ {0, x} \in SUBSET Int /\ \A y \in {0, x} : y <= x
        BY <1>1
    <2>2. Max({0, x}) = x
        BY <2>1, MaxIs
    <2> QED
        BY <1>1, <2>2
<1>2. CASE ~(x > 0)
    <2>1. 0 \in {0, x} /\ {0, x} \in SUBSET Int /\ \A y \in {0, x} : y <= 0
        BY <1>2
    <2>2. Max({0, x}) = 0
        BY <2>1, MaxIs
    <2> QED
        BY <1>2, <2>2
<1> QED
    BY <1>1, <1>2

\* A set of numbers from 1 on, without holes, counts up to its size.
LEMMA WithoutHoles ==
    ASSUME NEW M \in Nat, NEW S \in SUBSET (1 .. M),
           \A i, j \in 1 .. M : i < j /\ j \in S => i \in S
    PROVE  Cardinality(S) \in 0 .. M /\ S = 1 .. Cardinality(S)
<1> DEFINE T == (1 .. M + 1) \ S
<1>1. M + 1 \in T /\ T \subseteq Nat /\ T # {}
    OBVIOUS
<1> HIDE DEF T
<1>2. PICK k \in T : \A n \in T : ~(<<n, k>> \in OpToRel(<, Nat))
    BY <1>1, WFMin, NatLessThanWellFounded
<1>3. k \in 1 .. M + 1 /\ k \notin S
    BY DEF T
<1>4. \A n \in T : ~(n < k)
    BY <1>1, <1>2 DEF OpToRel
<1>5. S = 1 .. k - 1
    <2>1. ASSUME NEW i \in 1 .. k - 1 PROVE i \in S
        <3>1. i \in 1 .. M + 1 /\ i < k
            BY <1>3
        <3> QED
            BY <1>4, <3>1 DEF T
    <2>2. ASSUME NEW i \in S PROVE i \in 1 .. k - 1
        <3>1. i \in 1 .. M
            OBVIOUS
        <3>2. ~(k < i)
            <4>1. k < i => k \in 1 .. M
                BY <1>3, <3>1
            <4> QED
                BY <1>3, <3>1, <4>1
        <3>3. k # i
            BY <1>3
        <3> QED
            BY <1>3, <3>1, <3>2, <3>3
    <2> QED
        BY <2>1, <2>2
<1>6. Cardinality(1 .. k - 1) = k - 1
    <2>1. 1 \in Int /\ k - 1 \in Int
        BY <1>3
    <2>2. Cardinality(1 .. k - 1) = IF 1 > k - 1 THEN 0 ELSE k - 1 - 1 + 1
        BY <2>1, FS_Interval
    <2> QED
        BY <1>3, <2>2
<1> QED
    BY <1>3, <1>5, <1>6

\* ArrivalIndex::read keeps the rows whose number is their frame's.
LEMMA KeptIs ==
    ASSUME arrivalKind = "frames", FramesAreNoted, StreamTypeOK
    PROVE  /\ Len(Kept) \in 0 .. Len(rows) /\ Len(Kept) <= nextKey
           /\ \A i \in 1 .. Len(Kept) : Kept[i] = rows[i] /\ rows[i].key = i - 1
<1> DEFINE M == Len(rows)
           S == {i \in DOMAIN rows : rows[i].key = i - 1}
           m == Cardinality(S)
<1>1. rows \in Seq(Row) /\ nextKey \in Nat
    BY StreamTypes DEF StreamTypeOK
<1>2. M \in Nat /\ DOMAIN rows = 1 .. M /\ \A i \in 1 .. M : rows[i] \in Row
    BY <1>1, LenProperties, ElementOfSeq
<1>3. \A i \in 1 .. M : rows[i].key \in Nat
    BY <1>2 DEF Row
<1>4. /\ \A i \in 1 .. M : rows[i].key + (M - i) < nextKey
      /\ \A i, j \in 1 .. M : i < j => rows[i].key + (j - i) <= rows[j].key
    BY <1>2 DEF FramesAreNoted
<1>5. S \in SUBSET (1 .. M)
    BY <1>2
<1>6. ASSUME NEW i \in 1 .. M, NEW j \in 1 .. M, i < j, j \in S PROVE i \in S
    <2>1. rows[j].key = j - 1 /\ rows[i].key + (j - i) <= rows[j].key
        BY <1>4, <1>6
    <2>2. rows[i].key <= i - 1
        BY <1>2, <1>3, <2>1
    <2>3. rows[i].key >= i - 1
        <3>1. CASE i = 1
            BY <1>3, <3>1
        <3>2. CASE i # 1
            <4>1. 1 \in 1 .. M /\ 1 < i
                BY <1>2, <3>2
            <4>2. rows[1].key + (i - 1) <= rows[i].key
                BY <1>4, <4>1
            <4> QED
                BY <1>3, <4>1, <4>2
        <3> QED
            BY <3>1, <3>2
    <2> QED
        BY <1>2, <1>3, <2>2, <2>3
<1> HIDE DEF S
<1>7. m \in 0 .. M /\ S = 1 .. m
    BY <1>2, <1>5, <1>6, WithoutHoles
<1> HIDE DEF m
<1>8. Kept = SubSeq(rows, 1, m)
    BY DEF Kept, m, S
<1>9. Len(Kept) = m /\ \A i \in 1 .. m : Kept[i] = rows[i]
    <2>1. \A i \in 1 .. m : rows[i] \in Row
        BY <1>2, <1>7
    <2>2. m \in Int
        BY <1>2, <1>7
    <2>3. /\ Len(SubSeq(rows, 1, m)) = IF 1 <= m THEN m - 1 + 1 ELSE 0
          /\ \A i \in 1 .. m - 1 + 1 : SubSeq(rows, 1, m)[i] = rows[1 + i - 1]
        BY <2>1, <2>2, SubSeqProperties
    <2> QED
        BY <1>7, <1>8, <2>2, <2>3
<1>10. \A i \in 1 .. m : rows[i].key = i - 1
    BY <1>7 DEF S
<1>11. m <= nextKey
    <2>1. CASE m = 0
        BY <1>1, <2>1
    <2>2. CASE m # 0
        <3>1. m \in 1 .. m /\ m \in 1 .. M
            BY <1>2, <1>7, <2>2
        <3>2. rows[m].key = m - 1 /\ rows[m].key + (M - m) < nextKey
            BY <1>4, <1>10, <3>1
        <3> QED
            BY <1>1, <1>2, <3>1, <3>2
    <2> QED
        BY <2>1, <2>2
<1> QED
    BY <1>7, <1>9, <1>10, <1>11

\* What render stamps the frames of a live segment with that holds the whole log.
LEMMA FramesStamped ==
    ASSUME StreamIInv, arrivalKind = "frames", ~torn, previous = <<>>, ~truncated
    PROVE  StampsAreTrue
<1> DEFINE fed == Frames(0, live)
           N == Len(fed.done)
           m == Len(Kept)
           chunks == Chunks(live)
<1>1. live \in Seq(TimedByte) /\ live = accepted
    <2>1. FilesTyped
        BY StreamTypes DEF StreamIInv, StreamTypeOK, FilesTyped
    <2> QED
        BY <2>1, LiveIsEnd DEF StreamIInv, FilesHold, FilesTyped
<1>2. rows \in Seq(Row) /\ nextKey \in Nat
    BY StreamTypes DEF StreamIInv, StreamTypeOK
<1>3. /\ nextKey = N
      /\ \A i \in 1 .. Len(rows) :
            fed.done[rows[i].key + 1] = [len |-> rows[i].len, at |-> rows[i].at]
    BY <1>1, <1>2, LenProperties DEF StreamIInv, FramesAreNoted
<1>4. /\ m \in Nat /\ Len(rows) \in Nat /\ m <= Len(rows) /\ m <= N
      /\ \A i \in 1 .. m : Kept[i] = rows[i] /\ rows[i].key = i - 1
    BY <1>2, <1>3, KeptIs DEF StreamIInv
<1>5. fed \in Count
    BY <1>1, FramesTyped
<1>6. fed.done \in Seq(Chunk) /\ N \in Nat /\ fed.pending \in Nat
    BY <1>5 DEF Count
<1>7. chunks = fed.done \/ chunks = Append(fed.done, [len |-> fed.pending, at |-> 0])
    BY DEF Chunks
<1> HIDE DEF fed, chunks
<1>8. Len(chunks) \in Nat /\ N <= Len(chunks) /\ \A i \in 1 .. N : chunks[i] = fed.done[i]
    <2>1. CASE chunks = fed.done
        BY <1>6, <2>1
    <2>2. CASE chunks = Append(fed.done, [len |-> fed.pending, at |-> 0])
        <3> DEFINE c == [len |-> fed.pending, at |-> 0]
                   T == Chunk \cup {c}
        <3>1. fed.done \in Seq(T) /\ c \in T
            <4>1. \A i \in 1 .. Len(fed.done) : fed.done[i] \in Chunk
                BY <1>6, ElementOfSeq
            <4> QED
                BY <1>6, <4>1
        <3> HIDE DEF c, T
        <3>2. /\ Len(Append(fed.done, c)) = N + 1
              /\ \A i \in 1 .. N : Append(fed.done, c)[i] = fed.done[i]
            BY <3>1, AppendProperties
        <3>3. chunks = Append(fed.done, c)
            BY <2>2 DEF c
        <3> QED
            BY <1>6, <3>2, <3>3
    <2> QED
        BY <1>7, <2>1, <2>2
<1>9. Offsets(Kept, chunks) \subseteq {0}
    <2>1. m - Len(chunks) \in Int /\ ~(m - Len(chunks) > 0)
        BY <1>4, <1>6, <1>8
    <2>2. Max({0, m - Len(chunks)}) = 0
        BY <2>1, MaxWithZero
    <2> QED
        BY <2>2, Zenon DEF Offsets
<1>10. ASSUME NEW i \in DOMAIN chunks, i <= m, i \in 1 .. Len(chunks)
       PROVE  Kept[i].at = chunks[i].at
    <2>1. i \in 1 .. m /\ i \in 1 .. N /\ i \in 1 .. Len(rows)
        BY <1>4, <1>6, <1>10
    <2>2. fed.done[i] = [len |-> rows[i].len, at |-> rows[i].at]
        <3>1. rows[i].key + 1 = i
            BY <1>4, <2>1
        <3> QED
            BY <1>3, <2>1, <3>1
    <2> QED
        BY <1>4, <1>8, <2>1, <2>2
<1>11. ASSUME NEW off \in Offsets(Kept, chunks), NEW i \in DOMAIN chunks, off + i <= Len(Kept)
       PROVE  Kept[off + i].at = chunks[i].at
    <2>1. off = 0
        BY <1>9
    <2>2. i \in 1 .. Len(chunks)
        <3>1. DOMAIN chunks = 1 .. Len(chunks)
            <4>1. CASE chunks = fed.done
                BY <1>6, <4>1, LenProperties
            <4>2. CASE chunks = Append(fed.done, [len |-> fed.pending, at |-> 0])
                BY <1>6, <4>2
            <4> QED
                BY <1>7, <4>1, <4>2
        <3> QED
            BY <3>1
    <2>3. off + i = i
        BY <1>8, <2>1, <2>2
    <2>4. i <= m
        BY <1>11, <2>3
    <2>5. Kept[i].at = chunks[i].at
        BY <1>10, <2>2, <2>4
    <2> QED
        BY <2>3, <2>5
<1> QED
    BY <1>11 DEF StampsAreTrue, chunks

\* How long a log of a text says that the capture was.
LEMMA CapturedIs ==
    ASSUME arrivalKind = "bytes", BytesAreNoted, rows \in Seq(Row), nextKey \in Nat,
           NEW n \in 0 .. Len(rows)
    PROVE  LET log == SubSeq(rows, 1, n)
               captured == Max({0} \cup {r.key + r.len : r \in ToSet(log)})
           IN  /\ ToSet(log) = {rows[i] : i \in 1 .. n}
               /\ captured \in 0 .. nextKey
               /\ \A r \in ToSet(log) : r.key + r.len <= captured
               /\ n = Len(rows) /\ LastRowKept => captured = nextKey
<1> DEFINE log == SubSeq(rows, 1, n)
           ends == {r.key + r.len : r \in ToSet(log)}
           last == IF n = 0 THEN 0 ELSE rows[n].key + rows[n].len
<1>1. Len(rows) \in Nat /\ n \in Nat /\ n <= Len(rows) /\ DOMAIN rows = 1 .. Len(rows)
    BY LenProperties
<1>2. \A i \in 1 .. Len(rows) : rows[i] \in Row
    BY ElementOfSeq
<1>3. \A i \in 1 .. Len(rows) : rows[i].key \in Nat /\ rows[i].len \in Nat
    BY <1>2 DEF Row
<1>4. /\ \A i \in 1 .. Len(rows) : rows[i].key + rows[i].len <= nextKey
      /\ \A i, j \in 1 .. Len(rows) : i < j => rows[i].key + rows[i].len <= rows[j].key
    BY <1>1 DEF BytesAreNoted
<1>5. ToSet(log) = {rows[i] : i \in 1 .. n}
    <2>1. \A i \in 1 .. n : rows[i] \in Row
        BY <1>1, <1>2
    <2>2. /\ log \in Seq(Row) /\ Len(log) = IF 1 <= n THEN n - 1 + 1 ELSE 0
          /\ \A i \in 1 .. n - 1 + 1 : log[i] = rows[1 + i - 1]
        BY <1>1, <2>1, SubSeqProperties
    <2>3. log \in Seq(Row) /\ Len(log) = n /\ \A i \in 1 .. n : log[i] = rows[i]
        BY <1>1, <2>2
    <2> HIDE DEF log
    <2>4. DOMAIN log = 1 .. n
        BY <2>3, LenProperties
    <2> QED
        BY <2>3, <2>4 DEF ToSet
<1> HIDE DEF log
<1>6. ends = {rows[i].key + rows[i].len : i \in 1 .. n}
    BY <1>5
<1> HIDE DEF ends
<1>7. last \in {0} \cup ends
    <2>1. CASE n = 0
        BY <2>1
    <2>2. CASE n # 0
        <3>1. n \in 1 .. n
            BY <1>1, <2>2
        <3> QED
            BY <1>6, <2>2, <3>1
    <2> QED
        BY <2>1, <2>2
<1>8. ASSUME NEW x \in {0} \cup ends PROVE x \in Int /\ x <= last
    <2>1. CASE x = 0
        <3>1. last \in Nat
            <4>1. n # 0 => n \in 1 .. Len(rows)
                BY <1>1
            <4> QED
                BY <1>3, <4>1
        <3> QED
            BY <2>1, <3>1
    <2>2. CASE x # 0
        <3>1. PICK i \in 1 .. n : x = rows[i].key + rows[i].len
            BY <1>6, <2>2
        <3>2. i \in 1 .. Len(rows) /\ n \in 1 .. Len(rows) /\ n # 0
            BY <1>1, <3>1
        <3>3. CASE i = n
            BY <1>3, <3>1, <3>2, <3>3
        <3>4. CASE i # n
            <4>1. i < n
                BY <1>1, <3>1, <3>4
            <4>2. rows[i].key + rows[i].len <= rows[n].key
                BY <1>4, <3>2, <4>1
            <4> QED
                BY <1>3, <3>1, <3>2, <4>2
        <3> QED
            BY <3>3, <3>4
    <2> QED
        BY <2>1, <2>2
<1> HIDE DEF last
<1>9. Max({0} \cup ends) = last
    <2>1. {0} \cup ends \in SUBSET Int
        BY <1>8
    <2> QED
        BY <1>7, <1>8, <2>1, MaxIs
<1>10. last \in 0 .. nextKey
    <2>1. CASE n = 0
        BY <2>1 DEF last
    <2>2. CASE n # 0
        <3>1. n \in 1 .. Len(rows)
            BY <1>1, <2>2
        <3> QED
            BY <1>3, <1>4, <2>2, <3>1 DEF last
    <2> QED
        BY <2>1, <2>2
<1>11. \A r \in ToSet(log) : r.key + r.len <= last
    BY <1>8 DEF ends
<1>12. ASSUME n = Len(rows), LastRowKept PROVE last = nextKey
    <2>1. CASE n = 0
        <3>1. rows = <<>>
            BY <1>12, <2>1, EmptySeq
        <3> QED
            BY <1>12, <2>1, <3>1 DEF last, LastRowKept
    <2>2. CASE n # 0
        <3>1. rows # <<>>
            BY <1>12, <2>2
        <3> QED
            BY <1>12, <2>2, <3>1 DEF last, LastRowKept, Last
    <2> QED
        BY <2>1, <2>2
<1> QED
    BY <1>5, <1>9, <1>10, <1>11, <1>12 DEF log, ends

\* What rebase_byte_arrivals makes of a log of a text, all of it or an earlier state.
LEMMA BytesStamped ==
    ASSUME StreamIInv, arrivalKind = "bytes", ~torn, NEW n \in 0 .. Len(rows),
           NEW r \in Rebase(SubSeq(rows, 1, n), Len(Served)),
           NEW i \in r.key + 1 .. r.key + r.len
    PROVE  /\ i \in DOMAIN Served /\ Served[i].at >= r.at
           /\ n = Len(rows) /\ LastRowKept => Served[i].at = r.at
<1> DEFINE log == SubSeq(rows, 1, n)
           captured == Max({0} \cup {q.key + q.len : q \in ToSet(log)})
           rawLen == Len(Served)
           deleted == Max({0, captured - rawLen})
           start(q) == Max({0, q.key - deleted})
           gone == nextKey - rawLen
<1>1. /\ rows \in Seq(Row) /\ nextKey \in Nat /\ rawLen \in Nat
      /\ Served \in Seq(TimedByte) /\ accepted \in Seq(TimedByte)
    BY StreamTypes DEF StreamIInv, StreamTypeOK
<1>2. /\ nextKey = Len(accepted) /\ DOMAIN rows = 1 .. Len(rows) /\ Len(rows) \in Nat
      /\ \A k \in DOMAIN rows : \A b \in rows[k].key + 1 .. rows[k].key + rows[k].len :
            accepted[b].at = rows[k].at
    BY <1>1, LenProperties DEF StreamIInv, BytesAreNoted
<1>3. /\ DOMAIN Served = 1 .. rawLen /\ rawLen <= nextKey
      /\ \A k \in 1 .. rawLen : Served[k] = accepted[k + gone]
    BY <1>1, <1>2, LenProperties DEF StreamIInv, FilesHold, EndOf
<1>4. \A k, l \in 1 .. nextKey : k <= l => accepted[k].at <= accepted[l].at
    BY <1>1, <1>2, LenProperties DEF StreamIInv, TimesAscend
<1>5. /\ ToSet(log) = {rows[k] : k \in 1 .. n}
      /\ captured \in 0 .. nextKey
      /\ \A q \in ToSet(log) : q.key + q.len <= captured
      /\ n = Len(rows) /\ LastRowKept => captured = nextKey
    BY <1>1, CapturedIs DEF StreamIInv
<1>6. \E q \in ToSet(log) :
        /\ q.key + q.len > deleted
        /\ r = [key |-> start(q), at |-> q.at, len |-> q.key + q.len - deleted - start(q)]
    BY DEF Rebase
<1> HIDE DEF log, captured, rawLen
<1>7. deleted = IF captured - rawLen > 0 THEN captured - rawLen ELSE 0
    BY <1>1, <1>5, MaxWithZero
<1>8. deleted \in Nat /\ deleted <= gone /\ captured - deleted <= rawLen
      /\ (captured = nextKey => deleted = gone)
    BY <1>1, <1>3, <1>5, <1>7
<1> HIDE DEF deleted
<1>9. PICK k \in 1 .. n :
        /\ rows[k].key + rows[k].len > deleted
        /\ r = [key |-> start(rows[k]), at |-> rows[k].at,
                len |-> rows[k].key + rows[k].len - deleted - start(rows[k])]
    BY <1>5, <1>6
<1> DEFINE q == rows[k]
           s == start(q)
<1>10. k \in DOMAIN rows /\ q \in ToSet(log)
    <2>1. k \in 1 .. Len(rows)
        BY <1>2
    <2>2. rows[k] \in {rows[l] : l \in 1 .. n}
        OBVIOUS
    <2> QED
        BY <1>2, <1>5, <2>1, <2>2
<1>11. q.key \in Nat /\ q.len \in Nat /\ q.key + q.len <= captured
    <2>1. q \in Row
        BY <1>1, <1>2, <1>10, ElementOfSeq
    <2> QED
        BY <1>5, <1>10, <2>1 DEF Row
<1>12. s = IF q.key - deleted > 0 THEN q.key - deleted ELSE 0
    BY <1>8, <1>11, MaxWithZero
<1>13. r.key = s /\ r.at = q.at /\ r.len = q.key + q.len - deleted - s
    BY <1>9
<1> HIDE DEF q, s
<1>14. i \in s + 1 .. q.key + q.len - deleted
    BY <1>8, <1>11, <1>12, <1>13, SMTT(30)
<1>15. i \in 1 .. rawLen
    <2>1. s \in Nat
        BY <1>8, <1>11, <1>12
    <2>2. i \in Int /\ i >= 1 /\ i <= q.key + q.len - deleted
        BY <1>8, <1>11, <1>14, <2>1
    <2>3. q.key + q.len - deleted <= rawLen
        BY <1>1, <1>5, <1>8, <1>11
    <2> QED
        BY <1>1, <1>8, <1>11, <2>2, <2>3
<1>16. i + deleted \in q.key + 1 .. q.key + q.len
    BY <1>8, <1>11, <1>12, <1>14, SMTT(30)
<1>17. accepted[i + deleted].at = r.at
    BY <1>2, <1>10, <1>13, <1>16 DEF q
<1>18. i + deleted \in 1 .. nextKey /\ i + gone \in 1 .. nextKey /\ i + deleted <= i + gone
    BY <1>1, <1>3, <1>5, <1>8, <1>11, <1>15, <1>16
<1>19. Served[i] = accepted[i + gone]
    BY <1>3, <1>15
<1>20. accepted[i + deleted].at <= accepted[i + gone].at
    BY <1>4, <1>18
<1>21. Served[i].at >= r.at
    <2>1. accepted[i + deleted].at \in Int /\ accepted[i + gone].at \in Int
        <3>1. accepted[i + deleted] \in TimedByte /\ accepted[i + gone] \in TimedByte
            BY <1>1, <1>2, <1>18, ElementOfSeq
        <3> QED
            BY <3>1 DEF TimedByte
    <2> QED
        BY <1>17, <1>19, <1>20, <2>1
<1>22. ASSUME n = Len(rows), LastRowKept PROVE Served[i].at = r.at
    <2>1. deleted = gone
        BY <1>5, <1>8, <1>22
    <2> QED
        BY <1>17, <1>19, <2>1
<1> QED
    BY <1>3, <1>15, <1>21, <1>22

\* StampsAreRight, which the run of MCStreams checks: for every record size, segment
\* size and number of records, a stamp that the readers give is the arrival's.
THEOREM StampsAreAlwaysRight == StreamSpec => []StampsAreRight
<1>1. StreamIInv => StampsAreRight
    BY FramesStamped, BytesStamped DEF StampsAreRight
<1> QED
    BY <1>1, StreamsInductive, PTL

-----------------------------------------------------------------------------
(* The bytes after the last delimiter                                      *)

ByteSeq == Seq(WireByte)
FrameSeq == Seq(Message \cup {Junk})

IsRun(r, s) ==
    /\ Len(r) <= Len(s)
    /\ \A i \in 1 .. Len(r) : r[i] = s[Len(s) - Len(r) + i] /\ r[i] # Zero
    /\ Len(r) < Len(s) => s[Len(s) - Len(r)] = Zero

Run(s) == CHOOSE r \in ByteSeq : IsRun(r, s)

\* A byte goes on with the run, a delimiter ends it.
LEMMA RunAppend ==
    ASSUME NEW s \in ByteSeq, NEW r \in ByteSeq, NEW b \in WireByte, IsRun(r, s)
    PROVE  IsRun(IF b = Zero THEN <<>> ELSE Append(r, b), Append(s, b))
<1> DEFINE t == Append(s, b)
           q == Append(r, b)
           n == Len(s)
           l == Len(r)
<1>1. /\ n \in Nat /\ Len(t) = n + 1 /\ t[n + 1] = b
      /\ \A i \in 1 .. n : t[i] = s[i]
    BY AppendProperties DEF ByteSeq
<1>2. /\ l \in Nat /\ Len(q) = l + 1 /\ q[l + 1] = b
      /\ \A i \in 1 .. l : q[i] = r[i]
    BY AppendProperties DEF ByteSeq
<1>3. /\ l <= n
      /\ \A i \in 1 .. l : r[i] = s[n - l + i] /\ r[i] # Zero
      /\ l < n => s[n - l] = Zero
    BY DEF IsRun
<1> HIDE DEF t, q, n, l
<1>4. CASE b = Zero
    <2>1. IsRun(<<>>, t)
        BY <1>1, <1>4 DEF IsRun
    <2> QED
        BY <1>4, <2>1 DEF t
<1>5. CASE b # Zero
    <2>1. ASSUME NEW i \in 1 .. l + 1 PROVE q[i] = t[n + 1 - (l + 1) + i] /\ q[i] # Zero
        <3>1. CASE i \in 1 .. l
            <4>1. n - l + i \in 1 .. n /\ n + 1 - (l + 1) + i = n - l + i
                BY <1>1, <1>2, <1>3, <3>1
            <4> QED
                BY <1>1, <1>2, <1>3, <3>1, <4>1
        <3>2. CASE i = l + 1
            <4>1. n + 1 - (l + 1) + i = n + 1
                BY <1>1, <1>2, <3>2
            <4> QED
                BY <1>1, <1>2, <1>5, <3>2, <4>1
        <3> QED
            BY <1>2, <3>1, <3>2
    <2>2. l + 1 < n + 1 => t[n + 1 - (l + 1)] = Zero
        <3> SUFFICES ASSUME l < n PROVE t[n - l] = Zero
            BY <1>1, <1>2
        <3>1. n - l \in 1 .. n
            BY <1>1, <1>2
        <3> QED
            BY <1>1, <1>3, <3>1
    <2>3. l + 1 <= n + 1
        BY <1>1, <1>2, <1>3
    <2>4. IsRun(q, t)
        BY <1>1, <1>2, <2>1, <2>2, <2>3 DEF IsRun
    <2> QED
        BY <1>5, <2>4 DEF q, t
<1> QED
    BY <1>4, <1>5

\* Every sequence of bytes has a run ...
LEMMA RunExists == \A s \in ByteSeq : \E r \in ByteSeq : IsRun(r, s)
<1> DEFINE HasRun(s) == \E r \in ByteSeq : IsRun(r, s)
           S == {n \in Nat : \A s \in ByteSeq : Len(s) = n => HasRun(s)}
<1>1. 0 \in S
    <2>1. ASSUME NEW s \in ByteSeq, Len(s) = 0 PROVE HasRun(s)
        <3>1. <<>> \in ByteSeq /\ IsRun(<<>>, s)
            BY <2>1 DEF IsRun, ByteSeq
        <3> QED
            BY <3>1
    <2> QED
        BY <2>1
<1>2. ASSUME NEW n \in Nat, n \in S PROVE n + 1 \in S
    <2>1. ASSUME NEW s \in ByteSeq, Len(s) = n + 1 PROVE HasRun(s)
        <3> DEFINE f == SubSeq(s, 1, n)
                   e == s[n + 1]
        <3>1. f \in ByteSeq /\ e \in WireByte /\ Len(f) = n /\ s = Append(f, e)
            BY <2>1, FrontAndLast DEF ByteSeq
        <3> HIDE DEF f, e
        <3>2. PICK r \in ByteSeq : IsRun(r, f)
            BY <1>2, <3>1
        <3>3. IsRun(IF e = Zero THEN <<>> ELSE Append(r, e), s)
            BY <3>1, <3>2, RunAppend
        <3>4. <<>> \in ByteSeq /\ Append(r, e) \in ByteSeq
            BY <3>1 DEF ByteSeq
        <3> QED
            BY <3>3, <3>4
    <2> HIDE DEF HasRun
    <2> QED
        BY <2>1
<1> HIDE DEF S
<1>3. Nat \subseteq S
    BY <1>1, <1>2, SetInduction
<1> HIDE DEF HasRun
<1>4. ASSUME NEW s \in ByteSeq PROVE HasRun(s)
    <2>1. Len(s) \in Nat
        BY DEF ByteSeq
    <2> QED
        BY <1>3, <2>1 DEF S
<1> QED
    BY <1>4 DEF HasRun

\* ... and Run is it ...
LEMMA RunIs ==
    ASSUME NEW s \in ByteSeq
    PROVE  Run(s) \in ByteSeq /\ IsRun(Run(s), s) /\ Len(Run(s)) \in 0 .. Len(s)
<1>1. Run(s) \in ByteSeq /\ IsRun(Run(s), s)
    BY RunExists DEF Run
<1>2. Len(Run(s)) \in Nat /\ Len(s) \in Nat
    BY <1>1 DEF ByteSeq
<1> QED
    BY <1>1, <1>2 DEF IsRun

\* ... for there is only one.
LEMMA RunUnique ==
    ASSUME NEW s \in ByteSeq, NEW r \in ByteSeq, IsRun(r, s)
    PROVE  Run(s) = r
<1> DEFINE q == Run(s)
           n == Len(s)
           k == Len(q)
           l == Len(r)
<1>1. q \in ByteSeq /\ IsRun(q, s)
    BY RunIs
<1> HIDE DEF q
<1>2. /\ n \in Nat /\ k \in Nat /\ l \in Nat
      /\ DOMAIN q = 1 .. k /\ DOMAIN r = 1 .. l
    BY <1>1, LenProperties DEF ByteSeq
<1>3. /\ k <= n /\ (k < n => s[n - k] = Zero)
      /\ \A i \in 1 .. k : q[i] = s[n - k + i] /\ q[i] # Zero
    BY <1>1 DEF IsRun
<1>4. /\ l <= n /\ (l < n => s[n - l] = Zero)
      /\ \A i \in 1 .. l : r[i] = s[n - l + i] /\ r[i] # Zero
    BY DEF IsRun
<1>k. Len(q) = k /\ Len(r) = l
    OBVIOUS
<1> HIDE DEF n, k, l
<1>5. ~(k < l)
    <2> SUFFICES ASSUME k < l PROVE FALSE
        OBVIOUS
    <2>1. l - k \in 1 .. l /\ n - l + (l - k) = n - k /\ k < n
        BY <1>2, <1>4
    <2> QED
        BY <1>3, <1>4, <2>1
<1>6. ~(l < k)
    <2> SUFFICES ASSUME l < k PROVE FALSE
        OBVIOUS
    <2>1. k - l \in 1 .. k /\ n - k + (k - l) = n - l /\ l < n
        BY <1>2, <1>3
    <2> QED
        BY <1>3, <1>4, <2>1
<1>7. k = l
    BY <1>2, <1>5, <1>6
<1>8. \A i \in 1 .. k : q[i] = r[i]
    BY <1>3, <1>4, <1>7
<1>9. q = r
    BY <1>1, <1>7, <1>8, <1>k, SeqEqual DEF ByteSeq
<1> QED
    BY <1>9 DEF q

\* The run after one more byte.
LEMMA RunOfAppend ==
    ASSUME NEW s \in ByteSeq, NEW b \in WireByte
    PROVE  Run(Append(s, b)) = IF b = Zero THEN <<>> ELSE Append(Run(s), b)
<1> DEFINE q == IF b = Zero THEN <<>> ELSE Append(Run(s), b)
<1>1. Run(s) \in ByteSeq /\ IsRun(Run(s), s)
    BY RunIs
<1>2. IsRun(q, Append(s, b))
    BY <1>1, RunAppend
<1>3. q \in ByteSeq /\ Append(s, b) \in ByteSeq
    BY <1>1 DEF ByteSeq
<1> HIDE DEF q
<1>4. Run(Append(s, b)) = q
    BY <1>2, <1>3, RunUnique
<1> QED
    BY <1>4 DEF q

-----------------------------------------------------------------------------
(* The frames of a run of bytes                                            *)

\* What Decoded counts with.
Counts(f, bytes, k) ==
    f = [n \in 0 .. k |->
            IF n = 0 THEN <<>>
            ELSE IF EndsFrame(bytes, n) THEN Append(f[n - 1], Decode(bytes, n))
            ELSE f[n - 1]]

\* Decoded is the last value of a function that looks at one byte after the other.
LEMMA CountsExist ==
    ASSUME NEW bytes
    PROVE  \A k \in Nat : \E f : Counts(f, bytes, k)
<1> DEFINE S == {k \in Nat : \E f : Counts(f, bytes, k)}
           More(x, n) == IF EndsFrame(bytes, n) THEN Append(x, Decode(bytes, n)) ELSE x
<1>1. 0 \in S
    <2> DEFINE f == [n \in 0 .. 0 |-> <<>>]
    <2>1. Counts(f, bytes, 0)
        BY DEF Counts
    <2> QED
        BY <2>1
<1>2. ASSUME NEW n \in Nat, n \in S PROVE n + 1 \in S
    <2>1. PICK f : Counts(f, bytes, n)
        BY <1>2
    <2> DEFINE g == [i \in 0 .. n + 1 |-> IF i <= n THEN f[i] ELSE More(f[n], n + 1)]
    <2>2. \A i \in 0 .. n : g[i] = f[i]
        OBVIOUS
    <2>3. \A i \in 0 .. n : f[i] = IF i = 0 THEN <<>> ELSE More(f[i - 1], i)
        BY <2>1 DEF Counts
    <2>4. g[n + 1] = More(g[n], n + 1)
        BY <2>2
    <2> HIDE DEF More
    <2>5. \A i \in 0 .. n + 1 : g[i] = IF i = 0 THEN <<>> ELSE More(g[i - 1], i)
        <3> SUFFICES ASSUME NEW i \in 0 .. n + 1
                     PROVE  g[i] = IF i = 0 THEN <<>> ELSE More(g[i - 1], i)
            OBVIOUS
        <3>1. CASE i = n + 1
            BY <2>4, <3>1
        <3>2. CASE i \in 0 .. n
            <4>1. i # 0 => i - 1 \in 0 .. n
                BY <3>2
            <4> HIDE DEF g
            <4> QED
                BY <2>2, <2>3, <3>2, <4>1
        <3> QED
            BY <3>1, <3>2
    <2>6. Counts(g, bytes, n + 1)
        <3>1. g = [i \in 0 .. n + 1 |-> g[i]]
            OBVIOUS
        <3> HIDE DEF g
        <3>2. g = [i \in 0 .. n + 1 |-> IF i = 0 THEN <<>> ELSE More(g[i - 1], i)]
            BY <2>5, <3>1, Zenon
        <3> QED
            BY <3>2 DEF Counts, More
    <2> QED
        BY <2>6
<1> HIDE DEF S
<1>3. Nat \subseteq S
    BY <1>1, <1>2, SetInduction
<1> QED
    BY <1>3 DEF S

\* Decoded is that value.
LEMMA DecodedIs ==
    ASSUME NEW bytes, Len(bytes) \in Nat
    PROVE  \E f : Counts(f, bytes, Len(bytes)) /\ Decoded(bytes) = f[Len(bytes)]
<1> DEFINE upTo == CHOOSE f : Counts(f, bytes, Len(bytes))
<1>1. Counts(upTo, bytes, Len(bytes))
    BY CountsExist, Zenon
<1>2. Decoded(bytes) = upTo[Len(bytes)]
    BY DEF Decoded, Counts
<1> QED
    BY <1>1, <1>2

\* Whether a frame ends somewhere, and which, is a matter of the bytes up to there.
LEMMA DecodeAgrees ==
    ASSUME NEW s, NEW t, NEW n \in Nat, \A i \in 1 .. n : s[i] = t[i]
    PROVE  /\ EndsFrame(s, n) <=> EndsFrame(t, n)
           /\ n > 1 => Decode(s, n) = Decode(t, n)
<1>1. EndsFrame(s, n) <=> EndsFrame(t, n)
    BY DEF EndsFrame
<1>2. ASSUME n > 1 PROVE Decode(s, n) = Decode(t, n)
    <2>1. Size \in Nat \ {0}
        BY LinkAssumption
    <2> DEFINE start == n - Size
    <2>2. s[n - 1] = t[n - 1]
        BY <1>2
    <2>3. CASE start > 0
        <3>1. start # 1 => s[start - 1] = t[start - 1]
            BY <2>1, <2>3
        <3>2. \A k \in 1 .. Size : s[start + k - 1] = t[start + k - 1]
            <4> SUFFICES ASSUME NEW k \in 1 .. Size PROVE s[start + k - 1] = t[start + k - 1]
                OBVIOUS
            <4>1. start + k - 1 \in 1 .. n
                BY <2>1, <2>3
            <4> QED
                BY <4>1
        <3> QED
            BY <2>2, <2>3, <3>1, <3>2 DEF Decode
    <2>4. CASE ~(start > 0)
        BY <2>4 DEF Decode
    <2> QED
        BY <2>3, <2>4
<1> QED
    BY <1>1, <1>2

\* Two such functions agree on a common beginning of their bytes.
LEMMA CountsAgree ==
    ASSUME NEW f, NEW g, NEW s, NEW t, NEW k \in Nat, NEW l \in Nat, NEW m \in Nat,
           m <= k, m <= l, Counts(f, s, k), Counts(g, t, l),
           \A i \in 1 .. m : s[i] = t[i]
    PROVE  f[m] = g[m]
<1> DEFINE S == {n \in Nat : n <= m => f[n] = g[n]}
<1>1. /\ \A n \in 0 .. k : f[n] = IF n = 0 THEN <<>>
                                  ELSE IF EndsFrame(s, n) THEN Append(f[n - 1], Decode(s, n))
                                  ELSE f[n - 1]
      /\ \A n \in 0 .. l : g[n] = IF n = 0 THEN <<>>
                                  ELSE IF EndsFrame(t, n) THEN Append(g[n - 1], Decode(t, n))
                                  ELSE g[n - 1]
    BY DEF Counts
<1>2. 0 \in S
    BY <1>1
<1>3. ASSUME NEW n \in Nat, n \in S PROVE n + 1 \in S
    <2> SUFFICES ASSUME n + 1 <= m PROVE f[n + 1] = g[n + 1]
        OBVIOUS
    <2>1. f[n] = g[n]
        BY <1>3
    <2>2. n + 1 \in 0 .. k /\ n + 1 \in 0 .. l /\ n + 1 # 0 /\ n + 1 - 1 = n
        OBVIOUS
    <2>3. /\ f[n + 1] = IF EndsFrame(s, n + 1) THEN Append(f[n], Decode(s, n + 1)) ELSE f[n]
          /\ g[n + 1] = IF EndsFrame(t, n + 1) THEN Append(g[n], Decode(t, n + 1)) ELSE g[n]
        BY <1>1, <2>2
    <2>4. \A i \in 1 .. n + 1 : s[i] = t[i]
        OBVIOUS
    <2>5. /\ EndsFrame(s, n + 1) <=> EndsFrame(t, n + 1)
          /\ n + 1 > 1 => Decode(s, n + 1) = Decode(t, n + 1)
        BY <2>4, DecodeAgrees
    <2>6. EndsFrame(s, n + 1) => n + 1 > 1
        BY DEF EndsFrame
    <2> QED
        BY <2>1, <2>3, <2>5, <2>6
<1> HIDE DEF S
<1>4. Nat \subseteq S
    BY <1>2, <1>3, SetInduction
<1> QED
    BY <1>4 DEF S

\* No bytes, no frames.
LEMMA DecodedOfNothing == Decoded(<<>>) = <<>>
<1>1. PICK f : Counts(f, <<>>, Len(<<>>)) /\ Decoded(<<>>) = f[Len(<<>>)]
    BY DecodedIs
<1> QED
    BY <1>1 DEF Counts

\* The message whose bytes these are.
Frame(r) ==
    IF Len(r) = Size /\ r[1].of > 0 /\ \A k \in 1 .. Size : r[k] = [of |-> r[1].of, nth |-> k]
    THEN r[1].of ELSE Junk

Whole(bytes, start, m) ==
    /\ start > 0 /\ (start = 1 \/ bytes[start - 1] = Zero)
    /\ m > 0 /\ \A k \in 1 .. Size : bytes[start + k - 1] = Encoded(m, k)

\* Decode, with its condition under a name.
LEMMA DecodeIs ==
    ASSUME NEW bytes, NEW end
    PROVE  Decode(bytes, end) =
              IF Whole(bytes, end - Size, bytes[end - 1].of) THEN bytes[end - 1].of ELSE Junk
    BY Zenon DEF Decode, Whole

\* What a delimiter decodes is the run before it.
LEMMA DecodeRun ==
    ASSUME NEW t \in ByteSeq, NEW n \in Nat, NEW e, e = n + 1, Len(t) = e,
           NEW r \in ByteSeq, Len(r) <= n, Len(r) > 0,
           \A i \in 1 .. Len(r) : r[i] = t[n - Len(r) + i] /\ r[i] # Zero,
           Len(r) < n => t[n - Len(r)] = Zero
    PROVE  Decode(t, e) = Frame(r)
<1> DEFINE l == Len(r)
           start == e - Size
           m == t[e - 1].of
           Fits == /\ start > 0 /\ (start = 1 \/ t[start - 1] = Zero)
                   /\ m > 0 /\ \A k \in 1 .. Size : t[start + k - 1] = Encoded(m, k)
           Full == /\ l = Size /\ r[1].of > 0
                   /\ \A k \in 1 .. Size : r[k] = [of |-> r[1].of, nth |-> k]
<1>1. Size \in Nat \ {0} /\ l \in Nat
    BY LinkAssumption DEF ByteSeq
<1>2. \A k \in 1 .. Size : Encoded(m, k) = [of |-> m, nth |-> k]
    BY <1>1 DEF Encoded
<1>3. \A i \in 1 .. l : r[i] = t[n - l + i] /\ r[i] # Zero
    OBVIOUS
<1>4. l <= n /\ l > 0 /\ (l < n => t[n - l] = Zero)
    OBVIOUS
<1>5. Decode(t, e) = IF Fits THEN m ELSE Junk
    BY DecodeIs, Zenon DEF Whole
<1>m. m = t[n].of /\ start = n + 1 - Size
    <2>1. e - 1 = n
        OBVIOUS
    <2>2. m = t[n].of
        BY <2>1, Zenon
    <2>3. start = n + 1 - Size
        BY <1>1
    <2> QED
        BY <2>2, <2>3
<1>6. Frame(r) = IF Full THEN r[1].of ELSE Junk
    BY DEF Frame
<1> HIDE DEF l, m, start
<1>7. ASSUME Fits PROVE Full /\ m = r[1].of
    <2>1. \A k \in 1 .. Size : t[start + k - 1] = [of |-> m, nth |-> k] /\ t[start + k - 1] # Zero
        BY <1>2, <1>7 DEF Zero
    <2>2. ~(l < Size)
        <3> SUFFICES ASSUME l < Size PROVE FALSE
            OBVIOUS
        <3> DEFINE k == n - l + 1 - start
        <3>1. k \in 1 .. Size /\ start + k - 1 = n - l /\ l < n
            BY <1>m, <1>1, <1>4, <1>7
        <3> HIDE DEF k
        <3> QED
            BY <1>4, <2>1, <3>1
    <2>3. ~(l > Size)
        <3> SUFFICES ASSUME l > Size PROVE FALSE
            OBVIOUS
        <3>1. l - Size \in 1 .. l /\ n - l + (l - Size) = start - 1 /\ start # 1
            BY <1>m, <1>1, <1>4
        <3> QED
            BY <1>3, <1>7, <3>1
    <2>4. l = Size
        BY <1>1, <2>2, <2>3
    <2>5. \A k \in 1 .. Size : r[k] = [of |-> m, nth |-> k]
        <3> SUFFICES ASSUME NEW k \in 1 .. Size PROVE r[k] = [of |-> m, nth |-> k]
            OBVIOUS
        <3>1. n - l + k = start + k - 1
            BY <1>1, <1>m, <2>4
        <3> QED
            BY <1>3, <2>1, <2>4, <3>1
    <2>6. r[1].of = m
        <3>1. 1 \in 1 .. Size
            BY <1>1
        <3>2. r[1] = [of |-> m, nth |-> 1]
            BY <2>5, <3>1, Zenon
        <3> QED
            BY <3>2
    <2> QED
        BY <1>7, <2>4, <2>5, <2>6
<1>8. ASSUME Full PROVE Fits
    <2>1. start > 0 /\ start - 1 = n - l
        BY <1>m, <1>1, <1>4, <1>8
    <2>2. start = 1 \/ t[start - 1] = Zero
        BY <1>m, <1>1, <1>4, <2>1
    <2>3. \A k \in 1 .. Size : t[start + k - 1] = [of |-> r[1].of, nth |-> k]
        <3> SUFFICES ASSUME NEW k \in 1 .. Size PROVE t[start + k - 1] = [of |-> r[1].of, nth |-> k]
            OBVIOUS
        <3>1. n - l + k = start + k - 1 /\ k \in 1 .. l
            BY <1>1, <1>m, <1>8, <2>1
        <3> QED
            BY <1>3, <1>8, <3>1
    <2>4. m = r[1].of
        <3>1. Size \in 1 .. Size /\ start + Size - 1 = n
            BY <1>1, <1>m
        <3>2. t[n] = [of |-> r[1].of, nth |-> Size]
            BY <2>3, <3>1
        <3> QED
            BY <1>m, <3>2
    <2> QED
        <3>1. start > 0 /\ m > 0
            BY <1>8, <2>1, <2>4
        <3>2. \A k \in 1 .. Size : t[start + k - 1] = Encoded(m, k)
            BY <1>2, <2>3, <2>4, ZenonT(30)
        <3> QED
            BY <2>2, <3>1, <3>2, Zenon
<1> QED
    BY <1>5, <1>6, <1>7, <1>8, Zenon

\* The frames after one more byte: a delimiter after a run that is not empty ends one.
LEMMA DecodedOfAppend ==
    ASSUME NEW s \in ByteSeq, NEW b \in WireByte
    PROVE  Decoded(Append(s, b)) =
              IF b = Zero /\ Run(s) # <<>> THEN Append(Decoded(s), Frame(Run(s))) ELSE Decoded(s)
<1> DEFINE t == Append(s, b)
           r == Run(s)
           n == Len(s)
<1>1. /\ n \in Nat /\ Len(t) = n + 1 /\ t[n + 1] = b /\ t \in ByteSeq
      /\ \A i \in 1 .. n : t[i] = s[i]
    BY AppendProperties DEF ByteSeq
<1>2. r \in ByteSeq /\ IsRun(r, s) /\ Len(r) \in 0 .. n
    BY RunIs
<1>3. /\ \A i \in 1 .. Len(r) : r[i] = s[n - Len(r) + i] /\ r[i] # Zero
      /\ Len(r) < n => s[n - Len(r)] = Zero
    BY <1>2 DEF IsRun
<1>n. Len(s) = n
    OBVIOUS
<1> HIDE DEF t, r, n
<1>4. PICK f : Counts(f, s, n) /\ Decoded(s) = f[n]
    BY <1>1, <1>n, DecodedIs
<1>5. PICK g : Counts(g, t, Len(t)) /\ Decoded(t) = g[Len(t)]
    BY <1>1, DecodedIs
<1>6. g[n + 1] = IF EndsFrame(t, n + 1) THEN Append(g[n], Decode(t, n + 1)) ELSE g[n]
    <2> DEFINE More(x, k) == IF EndsFrame(t, k) THEN Append(x, Decode(t, k)) ELSE x
    <2>1. \A k \in 0 .. Len(t) : g[k] = IF k = 0 THEN <<>> ELSE More(g[k - 1], k)
        BY <1>5 DEF Counts
    <2>2. n + 1 \in 0 .. Len(t) /\ n + 1 # 0 /\ n + 1 - 1 = n
        BY <1>1
    <2> HIDE DEF More
    <2>4. ASSUME NEW k \in 0 .. Len(t), k = n + 1 PROVE g[n + 1] = More(g[n], n + 1)
        <3>1. g[k] = IF k = 0 THEN <<>> ELSE More(g[k - 1], k)
            BY <2>1, Zenon
        <3>2. k # 0 /\ k - 1 = n
            BY <1>1, <2>4
        <3>3. g[k] = More(g[n], k)
            BY <3>1, <3>2, Zenon
        <3> QED
            BY <2>4, <3>3, Zenon
    <2> QED
        BY <2>2, <2>4 DEF More
<1>7. g[n] = f[n]
    BY <1>1, <1>4, <1>5, CountsAgree
<1>8. Len(r) > 0 <=> r # <<>>
    BY <1>2, EmptySeq DEF ByteSeq
<1>9. Len(r) > 0 => n > 0 /\ t[n] # Zero
    <2> SUFFICES ASSUME Len(r) > 0 PROVE n > 0 /\ t[n] # Zero
        OBVIOUS
    <2>1. Len(r) \in 1 .. Len(r) /\ n - Len(r) + Len(r) = n /\ n \in 1 .. n /\ n > 0
        BY <1>1, <1>2
    <2>2. r[Len(r)] = s[n - Len(r) + Len(r)] /\ r[Len(r)] # Zero
        BY <1>3, <2>1
    <2>3. s[n] # Zero
        BY <2>1, <2>2
    <2>4. t[n] = s[n]
        BY <1>1, <2>1
    <2> QED
        BY <2>1, <2>3, <2>4
<1>10. ~(Len(r) > 0) /\ n > 0 => t[n] = Zero
    <2> SUFFICES ASSUME ~(Len(r) > 0), n > 0 PROVE t[n] = Zero
        OBVIOUS
    <2>1. Len(r) = 0 /\ n - Len(r) = n /\ n \in 1 .. n /\ Len(r) < n
        BY <1>1, <1>2
    <2>2. s[n] = Zero
        BY <1>3, <2>1
    <2>3. t[n] = s[n]
        BY <1>1, <2>1
    <2> QED
        BY <2>2, <2>3
<1>11. EndsFrame(t, n + 1) <=> b = Zero /\ Len(r) > 0
    <2>1. EndsFrame(t, n + 1) <=> n > 0 /\ b = Zero /\ t[n] # Zero
        <3>1. n + 1 - 1 = n /\ (n + 1 > 1 <=> n > 0)
            BY <1>1
        <3> QED
            BY <1>1, <3>1 DEF EndsFrame
    <2> QED
        BY <1>9, <1>10, <2>1
<1>12. Len(r) > 0 => Decode(t, n + 1) = Frame(r)
    <2> SUFFICES ASSUME Len(r) > 0 PROVE Decode(t, n + 1) = Frame(r)
        OBVIOUS
    <2>1. \A i \in 1 .. Len(r) : r[i] = t[n - Len(r) + i] /\ r[i] # Zero
        <3> SUFFICES ASSUME NEW i \in 1 .. Len(r)
                     PROVE  r[i] = t[n - Len(r) + i] /\ r[i] # Zero
            OBVIOUS
        <3>1. n - Len(r) + i \in 1 .. n
            BY <1>1, <1>2
        <3> QED
            BY <1>1, <1>3, <3>1
    <2>2. Len(r) < n => t[n - Len(r)] = Zero
        <3> SUFFICES ASSUME Len(r) < n PROVE t[n - Len(r)] = Zero
            OBVIOUS
        <3>1. n - Len(r) \in 1 .. n
            BY <1>1, <1>2
        <3> QED
            BY <1>1, <1>3, <3>1
    <2>3. Len(r) <= n
        BY <1>1, <1>2
    <2> QED
        <3> DEFINE e == n + 1
        <3>1. n \in Nat /\ t \in ByteSeq /\ r \in ByteSeq
            BY <1>1, <1>2
        <3>2. e = n + 1 /\ Len(t) = e
            BY <1>1
        <3> HIDE DEF e
        <3>3. Decode(t, e) = Frame(r)
            BY <2>1, <2>2, <2>3, <3>1, <3>2, DecodeRun, ZenonT(30)
        <3> QED
            BY <3>2, <3>3, Zenon
<1>13. Decoded(t) = IF b = Zero /\ r # <<>> THEN Append(Decoded(s), Frame(r)) ELSE Decoded(s)
    BY <1>1, <1>4, <1>5, <1>6, <1>7, <1>8, <1>11, <1>12
<1> QED
    BY <1>13 DEF t, r

\* Induction over bytes, by their number.
LEMMA BytesInduction ==
    ASSUME NEW S, <<>> \in S, \A s \in ByteSeq, b \in WireByte : s \in S => Append(s, b) \in S
    PROVE  ByteSeq \subseteq S
<1> DEFINE N == {n \in Nat : \A s \in ByteSeq : Len(s) = n => s \in S}
<1>1. 0 \in N
    BY EmptySeq DEF ByteSeq
<1>2. ASSUME NEW n \in Nat, n \in N PROVE n + 1 \in N
    <2>1. ASSUME NEW s \in ByteSeq, Len(s) = n + 1 PROVE s \in S
        <3> DEFINE f == SubSeq(s, 1, n)
                   e == s[n + 1]
        <3>1. f \in ByteSeq /\ e \in WireByte /\ Len(f) = n /\ s = Append(f, e)
            BY <2>1, FrontAndLast DEF ByteSeq
        <3> HIDE DEF f, e
        <3> QED
            BY <1>2, <3>1
    <2> QED
        BY <2>1
<1> HIDE DEF N
<1>3. Nat \subseteq N
    BY <1>1, <1>2, SetInduction
<1>4. ASSUME NEW s \in ByteSeq PROVE s \in S
    <2>1. Len(s) \in Nat
        BY DEF ByteSeq
    <2> QED
        BY <1>3, <2>1 DEF N
<1> QED
    BY <1>4

\* Sequences of bytes.
LEMMA BytesOf ==
    /\ <<>> \in ByteSeq
    /\ \A s \in ByteSeq, b \in WireByte : Append(s, b) \in ByteSeq
    /\ \A x, y \in ByteSeq : x \o y \in ByteSeq
    BY DEF ByteSeq

\* Sequences of frames.
LEMMA FramesOf ==
    /\ <<>> \in FrameSeq
    /\ \A d \in FrameSeq, f \in Message \cup {Junk} : Append(d, f) \in FrameSeq
    /\ \A x, y \in FrameSeq : x \o y \in FrameSeq
    BY DEF FrameSeq


\* A run is a message or junk.
LEMMA FrameTyped == ASSUME NEW r \in ByteSeq PROVE Frame(r) \in Message \cup {Junk}
<1>1. Size \in Nat \ {0} /\ MaxMessages \in Nat
    BY LinkAssumption, LinkBoundsAssumption
<1>2. CASE Len(r) = Size
    <2>1. r[1] \in WireByte
        BY <1>1, <1>2 DEF ByteSeq
    <2>2. r[1].of \in 0 .. MaxMessages
        BY <2>1 DEF WireByte
    <2> DEFINE o == r[1].of
    <2>3. o > 0 => o \in Message
        BY <1>1, <2>2 DEF Message
    <2> HIDE DEF o
    <2> QED
        BY <2>3 DEF Frame, o
<1>3. CASE Len(r) # Size
    BY <1>3 DEF Frame
<1> QED
    BY <1>2, <1>3

\* No bytes, no run.
LEMMA RunOfNothing == Run(<<>>) = <<>>
<1>1. Run(<<>>) \in ByteSeq /\ Len(Run(<<>>)) \in 0 .. Len(<<>>)
    BY BytesOf, RunIs
<1> QED
    BY <1>1, EmptySeq DEF ByteSeq

\* Decoded gives frames.
LEMMA DecodedTyped == ASSUME NEW s \in ByteSeq PROVE Decoded(s) \in FrameSeq
<1> DEFINE S == {y \in ByteSeq : Decoded(y) \in FrameSeq}
<1>1. <<>> \in S
    BY BytesOf, DecodedOfNothing, FramesOf
<1>2. ASSUME NEW y \in ByteSeq, NEW b \in WireByte, y \in S PROVE Append(y, b) \in S
    <2>1. Append(y, b) \in ByteSeq /\ Run(y) \in ByteSeq
        BY BytesOf, RunIs
    <2>2. Frame(Run(y)) \in Message \cup {Junk} /\ Decoded(y) \in FrameSeq
        BY <1>2, <2>1, FrameTyped
    <2>3. Append(Decoded(y), Frame(Run(y))) \in FrameSeq
        BY <2>2, FramesOf
    <2> QED
        BY <2>1, <2>2, <2>3, DecodedOfAppend
<1> HIDE DEF S
<1>3. ByteSeq \subseteq S
    BY <1>1, <1>2, BytesInduction
<1> QED
    BY <1>3 DEF S

\* Behind a delimiter, or nothing, bytes are what they are by themselves.
LEMMA Split ==
    ASSUME NEW x \in ByteSeq, Run(x) = <<>>, NEW y \in ByteSeq
    PROVE  Decoded(x \o y) = Decoded(x) \o Decoded(y) /\ Run(x \o y) = Run(y)
<1> DEFINE S == {z \in ByteSeq : Decoded(x \o z) = Decoded(x) \o Decoded(z) /\ Run(x \o z) = Run(z)}
<1>d. Decoded(x) \in FrameSeq
    BY DecodedTyped
<1>1. <<>> \in S
    <2>1. x \o <<>> = x /\ Decoded(x) \o <<>> = Decoded(x)
        BY <1>d, ConcatEmptySeq DEF ByteSeq, FrameSeq
    <2> QED
        BY <2>1, BytesOf, DecodedOfNothing, RunOfNothing
<1>2. ASSUME NEW z \in ByteSeq, NEW b \in WireByte, z \in S PROVE Append(z, b) \in S
    <2> DEFINE d == Decoded(x)
               e == Decoded(z)
               r == Run(z)
               f == Frame(r)
    <2>1. /\ Append(z, b) \in ByteSeq /\ r \in ByteSeq /\ x \o z \in ByteSeq /\ e \in FrameSeq
          /\ f \in Message \cup {Junk}
        BY BytesOf, RunIs, DecodedTyped, FrameTyped
    <2>2. Decoded(x \o z) = d \o e /\ Run(x \o z) = r
        BY <1>2
    <2>3. x \o Append(z, b) = Append(x \o z, b)
        BY ConcatAppend DEF ByteSeq
    <2>4. d \o Append(e, f) = Append(d \o e, f)
        BY <1>d, <2>1, ConcatAppend DEF FrameSeq
    <2>5. Decoded(Append(z, b)) = IF b = Zero /\ r # <<>> THEN Append(e, f) ELSE e
        BY DecodedOfAppend
    <2>6. Decoded(Append(x \o z, b)) =
              IF b = Zero /\ r # <<>> THEN Append(d \o e, f) ELSE d \o e
        BY <2>1, <2>2, DecodedOfAppend
    <2>7. Run(Append(z, b)) = IF b = Zero THEN <<>> ELSE Append(r, b)
        BY RunOfAppend
    <2>8. Run(Append(x \o z, b)) = IF b = Zero THEN <<>> ELSE Append(r, b)
        BY <2>1, <2>2, RunOfAppend
    <2>9. d = Decoded(x)
        OBVIOUS
    <2> HIDE DEF d, e, r, f
    <2>10. Decoded(x \o Append(z, b)) = d \o Decoded(Append(z, b))
        <3>1. CASE b = Zero /\ r # <<>>
            BY <2>3, <2>4, <2>5, <2>6, <3>1
        <3>2. CASE ~(b = Zero /\ r # <<>>)
            BY <2>3, <2>5, <2>6, <3>2
        <3> QED
            BY <3>1, <3>2
    <2> QED
        BY <2>1, <2>3, <2>7, <2>8, <2>9, <2>10
<1> HIDE DEF S
<1>3. ByteSeq \subseteq S
    BY <1>1, <1>2, BytesInduction
<1> QED
    BY <1>3 DEF S

\* What is left of the frames when bytes in front are dropped: d are gone, r stay,
\* and one more may be new.
Loses(whole, kept, d, r) ==
    /\ whole = d \o r
    /\ kept = r \/ (d # <<>> /\ \E f \in Message \cup {Junk} : kept = <<f>> \o r)

CutAt(x, y, d, r) ==
    /\ Loses(Decoded(x \o y), Decoded(y), d, r)
    /\ \/ r = <<>> /\ Decoded(y) = <<>> /\ Run(x \o y) = Run(x) \o Run(y)
       \/ Run(x \o y) = Run(y)

\* Bytes that lose their front lose the frames in it, and the frame that was cut is
\* junk, or the message that had been ruined by what was before it.
LEMMA CutIs ==
    ASSUME NEW x \in ByteSeq, NEW y \in ByteSeq
    PROVE  \E d, r \in FrameSeq : CutAt(x, y, d, r)
<1> DEFINE S == {z \in ByteSeq : \E d, r \in FrameSeq : CutAt(x, z, d, r)}
<1>1. <<>> \in S
    <2>1. Decoded(x) \in FrameSeq /\ <<>> \in FrameSeq /\ <<>> \in ByteSeq /\ Run(x) \in ByteSeq
        BY DecodedTyped, BytesOf, FramesOf, RunIs
    <2>2. /\ x \o <<>> = x /\ Decoded(x) \o <<>> = Decoded(x) /\ Run(x) \o <<>> = Run(x)
        BY <2>1, ConcatEmptySeq DEF ByteSeq, FrameSeq
    <2>3. CutAt(x, <<>>, Decoded(x), <<>>)
        BY <2>2, DecodedOfNothing, RunOfNothing DEF CutAt, Loses
    <2> QED
        BY <2>1, <2>3
<1>2. ASSUME NEW z \in ByteSeq, NEW b \in WireByte, z \in S PROVE Append(z, b) \in S
    <2>1. PICK d \in FrameSeq, r \in FrameSeq : CutAt(x, z, d, r)
        BY <1>2
    <2> DEFINE w == x \o z
               t == Append(z, b)
               p == Run(w)
               q == Run(z)
    <2>2. /\ w \in ByteSeq /\ t \in ByteSeq /\ p \in ByteSeq /\ q \in ByteSeq /\ Run(x) \in ByteSeq
          /\ Decoded(w) \in FrameSeq /\ Decoded(z) \in FrameSeq
          /\ Frame(p) \in Message \cup {Junk} /\ Frame(q) \in Message \cup {Junk}
        BY BytesOf, RunIs, DecodedTyped, FrameTyped
    <2>3. x \o t = Append(w, b)
        BY ConcatAppend DEF ByteSeq
    <2>4. /\ Decoded(t) = IF b = Zero /\ q # <<>> THEN Append(Decoded(z), Frame(q)) ELSE Decoded(z)
          /\ Run(t) = IF b = Zero THEN <<>> ELSE Append(q, b)
        BY DecodedOfAppend, RunOfAppend
    <2>5. /\ Decoded(Append(w, b)) =
                IF b = Zero /\ p # <<>> THEN Append(Decoded(w), Frame(p)) ELSE Decoded(w)
          /\ Run(Append(w, b)) = IF b = Zero THEN <<>> ELSE Append(p, b)
        BY <2>2, DecodedOfAppend, RunOfAppend
    <2>6. /\ Loses(Decoded(w), Decoded(z), d, r)
          /\ \/ r = <<>> /\ Decoded(z) = <<>> /\ p = Run(x) \o q
             \/ p = q
        BY <2>1 DEF CutAt
    <2>7. t \in ByteSeq /\ (\E dd, rr \in FrameSeq : CutAt(x, t, dd, rr)) => t \in S
        OBVIOUS
    <2> SUFFICES t \in S
        OBVIOUS
    <2> HIDE DEF w, t, p, q, S
    <2>8. CASE p = q
        <3>1. CASE b = Zero /\ q # <<>>
            <4> DEFINE f == Frame(q)
                       rr == Append(r, f)
            <4>1. rr \in FrameSeq /\ f \in Message \cup {Junk}
                BY <2>2, FramesOf
            <4>2. Append(Decoded(w), f) = d \o rr
                <5>1. d \o rr = Append(d \o r, f)
                    BY <2>2, ConcatAppend DEF FrameSeq
                <5> QED
                    BY <2>6, <5>1 DEF Loses
            <4>3. ASSUME NEW g \in Message \cup {Junk}, Decoded(z) = <<g>> \o r
                  PROVE  Append(Decoded(z), f) = <<g>> \o rr
                <5>1. <<g>> \in FrameSeq
                    BY DEF FrameSeq
                <5> QED
                    BY <2>2, <4>3, <5>1, ConcatAppend DEF FrameSeq
            <4>4. Decoded(t) = Append(Decoded(z), f) /\ Decoded(Append(w, b)) = Append(Decoded(w), f)
                BY <2>4, <2>5, <2>8, <3>1
            <4> HIDE DEF f, rr
            <4>5. Loses(Append(Decoded(w), f), Append(Decoded(z), f), d, rr)
                <5>1. CASE Decoded(z) = r
                    BY <4>2, <5>1 DEF Loses, rr
                <5>2. CASE d # <<>> /\ \E g \in Message \cup {Junk} : Decoded(z) = <<g>> \o r
                    BY <4>2, <4>3, <5>2 DEF Loses
                <5> QED
                    BY <2>6, <5>1, <5>2 DEF Loses
            <4>6. Run(Append(w, b)) = Run(t)
                BY <2>4, <2>5, <3>1
            <4>7. CutAt(x, t, d, rr)
                BY <2>3, <4>4, <4>5, <4>6 DEF CutAt
            <4> QED
                BY <2>2, <2>7, <4>1, <4>7
        <3>2. CASE ~(b = Zero /\ q # <<>>)
            <4>1. Decoded(t) = Decoded(z) /\ Decoded(Append(w, b)) = Decoded(w)
                BY <2>4, <2>5, <2>8, <3>2
            <4>2. Run(Append(w, b)) = Run(t)
                BY <2>4, <2>5, <2>8
            <4>3. CutAt(x, t, d, r)
                BY <2>3, <2>6, <4>1, <4>2 DEF CutAt
            <4> QED
                BY <2>2, <2>7, <4>3
        <3> QED
            BY <3>1, <3>2
    <2>9. CASE r = <<>> /\ Decoded(z) = <<>> /\ p = Run(x) \o q
        <3>1. Decoded(w) = d
            <4>1. d \o <<>> = d
                BY ConcatEmptySeq DEF FrameSeq
            <4> QED
                BY <2>6, <2>9, <4>1 DEF Loses
        <3>2. CASE b = Zero
            <4>1. Run(Append(w, b)) = Run(t)
                BY <2>4, <2>5, <3>2
            <4>2. CASE q = <<>>
                <5> DEFINE dd == Decoded(Append(w, b))
                <5>1. dd \in FrameSeq /\ <<>> \in FrameSeq /\ dd \o <<>> = dd
                    <6>1. Append(w, b) \in ByteSeq
                        BY <2>2, BytesOf
                    <6>2. dd \in FrameSeq
                        BY <6>1, DecodedTyped
                    <6> HIDE DEF dd
                    <6> QED
                        BY <6>2, FramesOf, ConcatEmptySeq DEF FrameSeq
                <5>2. Decoded(t) = <<>>
                    BY <2>4, <2>9, <4>2
                <5>3. CutAt(x, t, dd, <<>>)
                    BY <2>3, <4>1, <5>1, <5>2 DEF CutAt, Loses
                <5> HIDE DEF dd
                <5> QED
                    BY <2>2, <2>7, <5>1, <5>3
            <4>3. CASE q # <<>>
                <5> DEFINE dd == Append(d, Frame(p))
                           f == Frame(q)
                <5>1. p # <<>>
                    BY <2>2, <2>9, <4>3, ConcatEqualIffEmpty DEF ByteSeq
                <5>2. dd \in FrameSeq /\ dd # <<>> /\ dd \o <<>> = dd
                    <6>1. dd \in FrameSeq /\ dd # <<>>
                        <7> DEFINE e == Frame(p)
                        <7>1. e \in Message \cup {Junk}
                            BY <2>2
                        <7> HIDE DEF e
                        <7>2. Append(d, e) \in FrameSeq /\ Append(d, e) # <<>>
                            BY <7>1, FramesOf, AppendProperties DEF FrameSeq
                        <7> QED
                            BY <7>2 DEF e
                    <6> HIDE DEF dd
                    <6> QED
                        BY <6>1, ConcatEmptySeq DEF FrameSeq
                <5>3. Decoded(Append(w, b)) = dd
                    BY <2>5, <3>1, <3>2, <5>1
                <5>4. Decoded(t) = <<f>> \o <<>> /\ f \in Message \cup {Junk}
                    <6>1. Decoded(t) = Append(<<>>, f)
                        BY <2>4, <2>9, <3>2, <4>3
                    <6>2. f \in Message \cup {Junk}
                        BY <2>2
                    <6> HIDE DEF f
                    <6>3. Append(<<>>, f) = <<f>> /\ <<f>> \o <<>> = <<f>>
                        OBVIOUS
                    <6> QED
                        BY <6>1, <6>2, <6>3
                <5> HIDE DEF dd, f
                <5>5. CutAt(x, t, dd, <<>>)
                    BY <2>3, <4>1, <5>2, <5>3, <5>4 DEF CutAt, Loses
                <5> QED
                    BY <2>2, <2>7, <5>2, <5>5, FramesOf
            <4> QED
                BY <4>2, <4>3
        <3>3. CASE b # Zero
            <4>1. Decoded(t) = <<>> /\ Decoded(Append(w, b)) = d
                BY <2>4, <2>5, <2>9, <3>1, <3>3
            <4>2. Run(Append(w, b)) = Run(x) \o Run(t)
                <5>1. Run(x) \o Append(q, b) = Append(Run(x) \o q, b)
                    BY <2>2, ConcatAppend DEF ByteSeq
                <5> QED
                    BY <2>4, <2>5, <2>9, <3>3, <5>1
            <4>3. d \o <<>> = d
                BY ConcatEmptySeq DEF FrameSeq
            <4>4. CutAt(x, t, d, <<>>)
                BY <2>3, <4>1, <4>2, <4>3 DEF CutAt, Loses
            <4> QED
                BY <2>2, <2>7, <4>4, FramesOf
        <3> QED
            BY <3>2, <3>3
    <2> QED
        BY <2>6, <2>8, <2>9
<1> HIDE DEF S
<1>3. ByteSeq \subseteq S
    BY <1>1, <1>2, BytesInduction
<1> QED
    BY <1>3 DEF S

-----------------------------------------------------------------------------
(* The frame recv takes                                                    *)

LEMMA FrameEndIs ==
    ASSUME NEW bytes \in ByteSeq
    PROVE  /\ FrameEnd(bytes) \in 0 .. Len(bytes)
           /\ FrameEnd(bytes) # 0 =>
                 /\ EndsFrame(bytes, FrameEnd(bytes))
                 /\ \A k \in 1 .. FrameEnd(bytes) - 1 : ~EndsFrame(bytes, k)
<1> DEFINE ends == {k \in DOMAIN bytes : EndsFrame(bytes, k)}
<1>1. Len(bytes) \in Nat /\ DOMAIN bytes = 1 .. Len(bytes)
    BY LenProperties DEF ByteSeq
<1>2. CASE ends = {}
    <2>1. FrameEnd(bytes) = 0
        BY <1>2 DEF FrameEnd
    <2> QED
        BY <1>1, <2>1
<1>3. CASE ends # {}
    <2>1. ends \subseteq Nat
        BY <1>1
    <2>2. PICK m \in ends : \A n \in ends : ~(<<n, m>> \in OpToRel(<, Nat))
        BY <1>3, <2>1, WFMin, NatLessThanWellFounded
    <2>3. \A n \in ends : m <= n
        <3> SUFFICES ASSUME NEW n \in ends PROVE m <= n
            OBVIOUS
        <3>1. m \in Nat /\ n \in Nat
            BY <2>1
        <3>2. ~(<<n, m>> \in OpToRel(<, Nat))
            BY <2>2
        <3> HIDE DEF ends
        <3>3. ~(n < m)
            BY <3>1, <3>2 DEF OpToRel
        <3> QED
            BY <3>1, <3>3
    <2>4. Min(ends) \in ends /\ \A n \in ends : Min(ends) <= n
        BY <2>2, <2>3 DEF Min
    <2>5. FrameEnd(bytes) = Min(ends)
        BY <1>3 DEF FrameEnd
    <2> DEFINE e == FrameEnd(bytes)
    <2>6. e \in 1 .. Len(bytes) /\ EndsFrame(bytes, e)
        BY <1>1, <2>4, <2>5
    <2>7. ASSUME NEW k \in 1 .. e - 1 PROVE ~EndsFrame(bytes, k)
        <3>1. k \in DOMAIN bytes /\ ~(e <= k)
            BY <1>1, <2>6
        <3> QED
            BY <2>4, <2>5, <3>1
    <2> QED
        BY <2>6, <2>7
<1> QED
    BY <1>2, <1>3

\* Up to the first end there is one frame, and nothing after it.
LEMMA FirstFrameIs ==
    ASSUME NEW bytes \in ByteSeq, FrameEnd(bytes) # 0
    PROVE  LET first == SubSeq(bytes, 1, FrameEnd(bytes))
           IN  /\ first \in ByteSeq /\ Run(first) = <<>>
               /\ Decoded(first) = <<Decode(bytes, FrameEnd(bytes))>>
<1> DEFINE e == FrameEnd(bytes)
           first == SubSeq(bytes, 1, e)
<1>e. e = FrameEnd(bytes)
    OBVIOUS
<1>1. /\ Len(bytes) \in Nat /\ e \in 1 .. Len(bytes) /\ EndsFrame(bytes, e)
      /\ \A k \in 1 .. e - 1 : ~EndsFrame(bytes, k)
    BY FrameEndIs, LenProperties DEF ByteSeq
<1> HIDE DEF e
<1>2. first \in ByteSeq /\ Len(first) = e /\ \A i \in 1 .. e : first[i] = bytes[i]
    <2>1. \A i \in 1 .. e : bytes[i] \in WireByte
        BY <1>1, ElementOfSeq DEF ByteSeq
    <2> QED
        BY <1>1, <2>1, SubSeqProperties DEF ByteSeq
<1> HIDE DEF first
<1>3. PICK f : Counts(f, bytes, Len(bytes))
    BY <1>1, CountsExist
<1>4. PICK g : Counts(g, first, e) /\ Decoded(first) = g[e]
    BY <1>1, <1>2, DecodedIs
<1>5. g[e] = f[e]
    BY <1>1, <1>2, <1>3, <1>4, CountsAgree
<1>6. \A n \in 0 .. Len(bytes) :
          f[n] = IF n = 0 THEN <<>>
                 ELSE IF EndsFrame(bytes, n) THEN Append(f[n - 1], Decode(bytes, n))
                 ELSE f[n - 1]
    BY <1>3 DEF Counts
<1>7. f[e - 1] = <<>>
    <2> DEFINE S == {k \in Nat : k < e => f[k] = <<>>}
    <2>1. 0 \in S
        BY <1>1, <1>6
    <2>2. ASSUME NEW k \in Nat, k \in S PROVE k + 1 \in S
        <3> SUFFICES ASSUME k + 1 < e PROVE f[k + 1] = <<>>
            OBVIOUS
        <3> DEFINE n == k + 1
        <3>1. /\ n \in 0 .. Len(bytes) /\ n # 0 /\ n \in 1 .. e - 1 /\ n - 1 = k /\ f[k] = <<>>
            BY <1>1, <2>2
        <3> HIDE DEF n
        <3>2. ~EndsFrame(bytes, n)
            BY <1>1, <3>1
        <3>3. f[n] = f[n - 1]
            BY <1>6, <3>1, <3>2
        <3>4. f[n] = <<>>
            BY <3>1, <3>3, Zenon
        <3> QED
            BY <3>4 DEF n
    <2> HIDE DEF S
    <2>3. Nat \subseteq S
        BY <2>1, <2>2, SetInduction
    <2>4. e - 1 \in Nat /\ e - 1 < e
        BY <1>1
    <2> QED
        BY <2>3, <2>4 DEF S
<1>8. f[e] = Append(<<>>, Decode(bytes, e))
    <2>1. e \in 0 .. Len(bytes) /\ e # 0
        BY <1>1
    <2>2. f[e] = Append(f[e - 1], Decode(bytes, e))
        BY <1>1, <1>6, <2>1
    <2> QED
        BY <1>7, <2>2, Zenon
<1>9. Append(<<>>, Decode(bytes, e)) = <<Decode(bytes, e)>>
    <2> DEFINE d == Decode(bytes, e)
    <2> HIDE DEF d
    <2>1. Append(<<>>, d) = <<d>>
        OBVIOUS
    <2> QED
        BY <2>1 DEF d
<1>10. Decoded(first) = <<Decode(bytes, e)>>
    BY <1>4, <1>5, <1>8, <1>9, Zenon
<1>11. Run(first) = <<>>
    <2> DEFINE h == SubSeq(first, 1, e - 1)
               b == first[e]
    <2>1. e - 1 \in Nat /\ e - 1 + 1 = e
        BY <1>1
    <2>2. h \in ByteSeq /\ b \in WireByte /\ first = Append(h, b)
        BY <1>2, <2>1, FrontAndLast DEF ByteSeq
    <2>3. b = Zero
        BY <1>1, <1>2 DEF EndsFrame
    <2> HIDE DEF h, b
    <2>4. Run(Append(h, b)) = <<>>
        BY <2>2, <2>3, RunOfAppend
    <2> QED
        BY <2>2, <2>4, Zenon
<1> QED
    BY <1>2, <1>10, <1>11 DEF first, e

\* recv takes the first frame, and leaves all the others.
LEMMA Taken ==
    ASSUME NEW bytes \in ByteSeq, FrameEnd(bytes) # 0, NEW y \in ByteSeq
    PROVE  LET end == FrameEnd(bytes)
               others == SubSeq(bytes, end + 1, Len(bytes))
           IN  /\ others \in ByteSeq /\ Decode(bytes, end) \in Message \cup {Junk}
               /\ Decoded(bytes \o y) = <<Decode(bytes, end)>> \o Decoded(others \o y)
               /\ Run(bytes \o y) = Run(others \o y)
               /\ \E first \in ByteSeq : /\ bytes \o y = first \o (others \o y)
                                      /\ Decoded(first) = <<Decode(bytes, end)>>
<1> DEFINE end == FrameEnd(bytes)
           first == SubSeq(bytes, 1, end)
           others == SubSeq(bytes, end + 1, Len(bytes))
           d == Decode(bytes, end)
<1>1. first \in ByteSeq /\ Run(first) = <<>> /\ Decoded(first) = <<d>>
    BY FirstFrameIs
<1>2. Len(bytes) \in Nat /\ end \in 1 .. Len(bytes)
    BY FrameEndIs, LenProperties DEF ByteSeq
<1>3. others \in ByteSeq
    <2> HIDE DEF end
    <2>1. \A i \in end + 1 .. Len(bytes) : bytes[i] \in WireByte
        BY <1>2, ElementOfSeq DEF ByteSeq
    <2> QED
        BY <1>2, <2>1, SubSeqProperties DEF ByteSeq
<1>4. first \o others = bytes
    <2> HIDE DEF end
    <2>1. SubSeq(bytes, 1, end) \o SubSeq(bytes, end + 1, Len(bytes)) = SubSeq(bytes, 1, Len(bytes))
        BY <1>2, ConcatAdjacentSubSeq DEF ByteSeq
    <2>2. SubSeq(bytes, 1, Len(bytes)) = bytes
        BY SubSeqFull DEF ByteSeq
    <2> QED
        BY <2>1, <2>2, Zenon
<1> HIDE DEF first, others, d
<1>5. bytes \o y = first \o (others \o y)
    <2>1. (first \o others) \o y = first \o (others \o y)
        BY <1>1, <1>3, ConcatAssociative DEF ByteSeq
    <2> QED
        BY <1>4, <2>1, Zenon
<1>6. others \o y \in ByteSeq
    BY <1>3, BytesOf
<1>7. /\ Decoded(first \o (others \o y)) = <<d>> \o Decoded(others \o y)
      /\ Run(first \o (others \o y)) = Run(others \o y)
    <2>1. /\ Decoded(first \o (others \o y)) = Decoded(first) \o Decoded(others \o y)
          /\ Run(first \o (others \o y)) = Run(others \o y)
        BY <1>1, <1>6, Split
    <2> QED
        BY <1>1, <2>1, Zenon
<1>8. d \in Message \cup {Junk}
    <2>1. <<d>> \in FrameSeq
        BY <1>1, DecodedTyped
    <2>2. 1 \in 1 .. Len(<<d>>) /\ <<d>>[1] = d
        OBVIOUS
    <2> QED
        BY <2>1, <2>2, ElementOfSeq DEF FrameSeq
<1> QED
    BY <1>1, <1>3, <1>5, <1>7, <1>8 DEF d, others

-----------------------------------------------------------------------------
(* The order of bytes and of frames                                        *)

Before(a, b) == a.of < b.of \/ (a.of = b.of /\ a.nth < b.nth)
Ascending(s) ==
    \A i, j \in 1 .. Len(s) : i < j /\ s[i].of > 0 /\ s[j].of > 0 => Before(s[i], s[j])

\* A run that is a message ends in its last byte.
LEMMA FrameEndsRun ==
    ASSUME NEW r \in ByteSeq, Frame(r) # Junk
    PROVE  /\ Len(r) = Size /\ Size \in Nat \ {0} /\ Frame(r) \in Message
           /\ r[Size] = [of |-> Frame(r), nth |-> Size]
<1>1. Size \in Nat \ {0} /\ Frame(r) \in Message
    BY LinkAssumption, FrameTyped
<1>2. /\ Len(r) = Size /\ \A k \in 1 .. Size : r[k] = [of |-> r[1].of, nth |-> k]
      /\ Frame(r) = r[1].of
    BY DEF Frame
<1>3. Size \in 1 .. Size
    BY <1>1
<1>4. r[Size] = [of |-> r[1].of, nth |-> Size]
    BY <1>2, <1>3, Zenon
<1>5. r[Size] = [of |-> Frame(r), nth |-> Size]
    BY <1>2, <1>4, Zenon
<1> QED
    BY <1>1, <1>2, <1>5

\* A frame that decodes has its last byte among those before the run.
FramesAt(s) ==
    \A i \in 1 .. Len(Decoded(s)) :
        Decoded(s)[i] # Junk =>
            \E j \in 1 .. Len(s) - Len(Run(s)) : s[j] = [of |-> Decoded(s)[i], nth |-> Size]

\* The last byte of a run is the last byte.
LEMMA LastOfRun ==
    ASSUME NEW s \in ByteSeq, Run(s) # <<>>
    PROVE  Len(s) \in Nat \ {0} /\ Len(Run(s)) \in 1 .. Len(s) /\ s[Len(s)] = Run(s)[Len(Run(s))]
<1> DEFINE r == Run(s)
           l == Len(r)
           n == Len(s)
<1>1. r \in ByteSeq /\ IsRun(r, s) /\ l \in 0 .. n
    BY RunIs
<1>2. n \in Nat /\ l > 0
    BY <1>1, EmptySeq DEF ByteSeq
<1>3. \A i \in 1 .. l : r[i] = s[n - l + i]
    BY <1>1 DEF IsRun
<1> HIDE DEF l, n, r
<1>4. l \in 1 .. l /\ n - l + l = n
    BY <1>1, <1>2
<1>5. r[l] = s[n]
    BY <1>3, <1>4
<1> QED
    BY <1>1, <1>2, <1>5 DEF l, n, r

\* The last byte of every message that is decoded is among the bytes, before the run.
LEMMA FramesAreAt == \A s \in ByteSeq : FramesAt(s)
<1> DEFINE S == {s \in ByteSeq : FramesAt(s)}
<1>1. <<>> \in S
    BY BytesOf, DecodedOfNothing DEF FramesAt
<1>2. ASSUME NEW s \in ByteSeq, NEW b \in WireByte, s \in S PROVE Append(s, b) \in S
    <2> DEFINE t == Append(s, b)
               r == Run(s)
               n == Len(s)
               l == Len(r)
               D == Decoded(s)
               E == Decoded(t)
               q == Run(t)
    <2>1. /\ n \in Nat /\ t \in ByteSeq /\ Len(t) = n + 1 /\ \A i \in 1 .. n : t[i] = s[i]
          /\ r \in ByteSeq /\ l \in 0 .. n /\ D \in FrameSeq /\ Len(D) \in Nat
        BY AppendProperties, RunIs, DecodedTyped DEF ByteSeq, FrameSeq
    <2>2. \A i \in 1 .. Len(D) :
              D[i] # Junk => \E j \in 1 .. n - l : s[j] = [of |-> D[i], nth |-> Size]
        BY <1>2 DEF FramesAt
    <2>3. E = IF b = Zero /\ r # <<>> THEN Append(D, Frame(r)) ELSE D
        BY DecodedOfAppend
    <2>4. q = IF b = Zero THEN <<>> ELSE Append(r, b)
        BY RunOfAppend
    <2>5. Len(q) = IF b = Zero THEN 0 ELSE l + 1
        <3>1. Len(Append(r, b)) = l + 1
            BY <2>1, AppendProperties DEF ByteSeq
        <3> HIDE DEF l
        <3> QED
            BY <2>4, <3>1
    <2>6. r # <<>> => n > 0 /\ s[n] = r[l] /\ l > 0
        BY <2>1, LastOfRun
    <2>7. n - l \in Nat /\ 1 .. n - l \subseteq 1 .. n + 1 - Len(q)
        <3> HIDE DEF n, l, q
        <3> QED
            BY <2>1, <2>5
    <2>8. Frame(r) # Junk => l = Size /\ r[Size] = [of |-> Frame(r), nth |-> Size]
        BY <2>1, FrameEndsRun
    <2>9. ASSUME FramesAt(t) PROVE t \in S
        BY <2>1, <2>9
    <2>f. Frame(r) \in Message \cup {Junk}
        BY <2>1, FrameTyped
    <2> DEFINE d == Frame(r)
    <2>10. FramesAt(t) <=> \A i \in 1 .. Len(E) :
              E[i] # Junk => \E j \in 1 .. Len(t) - Len(q) : t[j] = [of |-> E[i], nth |-> Size]
        BY DEF FramesAt
    <2> SUFFICES t \in S
        OBVIOUS
    <2> HIDE DEF t, r, n, l, D, E, q, S, d
    <2>11. ASSUME NEW i \in 1 .. Len(D), D[i] # Junk
           PROVE  \E j \in 1 .. Len(t) - Len(q) : t[j] = [of |-> D[i], nth |-> Size]
        <3>1. PICK j \in 1 .. n - l : s[j] = [of |-> D[i], nth |-> Size]
            BY <2>2, <2>11
        <3>2. j \in 1 .. n + 1 - Len(q) /\ j \in 1 .. n
            BY <2>1, <2>7, <3>1
        <3>3. t[j] = s[j]
            BY <2>1, <3>2
        <3>4. t[j] = [of |-> D[i], nth |-> Size]
            BY <3>1, <3>3, Zenon
        <3>5. j \in 1 .. Len(t) - Len(q)
            BY <2>1, <3>2
        <3> QED
            BY <3>4, <3>5
    <2>12. CASE b = Zero /\ r # <<>>
        <3>1. E = Append(D, d) /\ Len(E) = Len(D) + 1 /\ E[Len(D) + 1] = d
              /\ \A i \in 1 .. Len(D) : E[i] = D[i]
            <4>1. d \in Message \cup {Junk}
                BY <2>f DEF d
            <4>2. E = Append(D, d)
                BY <2>3, <2>12 DEF d
            <4> QED
                BY <2>1, <4>1, <4>2, AppendProperties DEF FrameSeq
        <3>2. ASSUME NEW i \in 1 .. Len(E), E[i] # Junk
              PROVE  \E j \in 1 .. Len(t) - Len(q) : t[j] = [of |-> E[i], nth |-> Size]
            <4>1. CASE i \in 1 .. Len(D)
                <5>1. E[i] = D[i]
                    BY <3>1, <4>1
                <5>2. PICK j \in 1 .. Len(t) - Len(q) : t[j] = [of |-> D[i], nth |-> Size]
                    BY <2>11, <3>2, <4>1, <5>1
                <5>3. t[j] = [of |-> E[i], nth |-> Size]
                    BY <5>1, <5>2, Zenon
                <5> QED
                    BY <5>3
            <4>2. CASE i = Len(D) + 1
                <5>1. E[i] = d
                    BY <3>1, <4>2
                <5>2. l = Size /\ r[Size] = [of |-> d, nth |-> Size]
                    BY <2>8, <3>2, <5>1 DEF d
                <5>3. n \in 1 .. n /\ n \in 1 .. Len(t) - Len(q)
                    BY <2>1, <2>5, <2>6, <2>12
                <5>4. t[n] = r[Size]
                    BY <2>1, <2>6, <2>12, <5>2, <5>3
                <5>5. t[n] = [of |-> E[i], nth |-> Size]
                    BY <5>1, <5>2, <5>4, Zenon
                <5> QED
                    BY <5>3, <5>5
            <4> QED
                BY <2>1, <3>1, <4>1, <4>2
        <3> QED
            BY <2>9, <2>10, <3>2, Zenon
    <2>13. CASE ~(b = Zero /\ r # <<>>)
        <3>1. E = D
            BY <2>3, <2>13
        <3> QED
            BY <2>9, <2>10, <2>11, <3>1, Zenon
    <2> QED
        BY <2>12, <2>13
<1> HIDE DEF S
<1>3. ByteSeq \subseteq S
    BY <1>1, <1>2, BytesInduction
<1> QED
    BY <1>3 DEF S

InOrder(frames) == WholeLink!InOrder(frames)

\* InOrder, by positions.
LEMMA InOrderIs ==
    ASSUME NEW d \in FrameSeq
    PROVE  InOrder(d) <=>
              \A i, j \in 1 .. Len(d) : i < j /\ d[i] # Junk /\ d[j] # Junk => d[i] < d[j]
<1>1. DOMAIN d = 1 .. Len(d)
    BY LenProperties DEF FrameSeq
<1> QED
    BY <1>1 DEF InOrder, WholeLink!InOrder

\* A front of bytes in order is in order.
LEMMA AscendingFront ==
    ASSUME NEW s \in ByteSeq, NEW b \in WireByte, Ascending(Append(s, b))
    PROVE  Ascending(s)
<1>1. /\ Len(s) \in Nat /\ Len(Append(s, b)) = Len(s) + 1
      /\ \A i \in 1 .. Len(s) : Append(s, b)[i] = s[i]
    BY AppendProperties DEF ByteSeq
<1> SUFFICES ASSUME NEW i \in 1 .. Len(s), NEW j \in 1 .. Len(s), i < j, s[i].of > 0, s[j].of > 0
             PROVE  Before(s[i], s[j])
    BY DEF Ascending
<1> DEFINE t == Append(s, b)
<1>2. i \in 1 .. Len(t) /\ j \in 1 .. Len(t) /\ t[i] = s[i] /\ t[j] = s[j]
    BY <1>1
<1>3. \A k, m \in 1 .. Len(t) : k < m /\ t[k].of > 0 /\ t[m].of > 0 => Before(t[k], t[m])
    BY DEF Ascending
<1> HIDE DEF t
<1> QED
    BY <1>2, <1>3

\* Bytes that ascend have frames that do.
LEMMA AscendingFrames ==
    ASSUME NEW x \in ByteSeq, Ascending(x)
    PROVE  InOrder(Decoded(x))
<1> DEFINE S == {s \in ByteSeq : Ascending(s) => InOrder(Decoded(s))}
<1>1. <<>> \in S
    <2>1. InOrder(<<>>)
        BY DEF InOrder, WholeLink!InOrder
    <2> QED
        BY <2>1, BytesOf, DecodedOfNothing
<1>2. ASSUME NEW s \in ByteSeq, NEW b \in WireByte, s \in S PROVE Append(s, b) \in S
    <2> DEFINE t == Append(s, b)
               r == Run(s)
               D == Decoded(s)
               d == Frame(r)
    <2>1. t \in ByteSeq /\ D \in FrameSeq /\ r \in ByteSeq /\ d \in Message \cup {Junk} /\ Len(D) \in Nat
        BY BytesOf, RunIs, DecodedTyped, FrameTyped DEF FrameSeq
    <2> SUFFICES ASSUME Ascending(t) PROVE InOrder(Decoded(t))
        BY <2>1
    <2>2. Ascending(s) /\ InOrder(D)
        BY <1>2, AscendingFront
    <2>3. Decoded(t) = IF b = Zero /\ r # <<>> THEN Append(D, d) ELSE D
        BY DecodedOfAppend
    <2>4. CASE b = Zero /\ r # <<>>
        <3> DEFINE E == Append(D, d)
                   n == Len(s)
                   l == Len(r)
        <3>1. E \in FrameSeq /\ Len(E) = Len(D) + 1 /\ E[Len(D) + 1] = d
              /\ \A i \in 1 .. Len(D) : E[i] = D[i]
            <4> HIDE DEF D, d
            <4> QED
                BY <2>1, AppendProperties, FramesOf DEF FrameSeq
        <3>2. \A i, j \in 1 .. Len(D) : i < j /\ D[i] # Junk /\ D[j] # Junk => D[i] < D[j]
            BY <2>1, <2>2, InOrderIs
        <3>3. n \in Nat \ {0} /\ l \in 1 .. n /\ s[n] = r[l]
            BY <2>4, LastOfRun
        <3>4. \A i \in 1 .. Len(D) :
                  D[i] # Junk => \E j \in 1 .. n - l : s[j] = [of |-> D[i], nth |-> Size]
            BY FramesAreAt DEF FramesAt
        <3>5. d # Junk => l = Size /\ d \in Message /\ r[Size] = [of |-> d, nth |-> Size]
            BY <2>1, FrameEndsRun
        <3>6. \A i, j \in 1 .. n : i < j /\ s[i].of > 0 /\ s[j].of > 0 => Before(s[i], s[j])
            BY <2>2 DEF Ascending
        <3>7. \A i \in 1 .. Len(D) : D[i] # Junk => D[i] \in Message
            <4> SUFFICES ASSUME NEW i \in 1 .. Len(D), D[i] # Junk PROVE D[i] \in Message
                OBVIOUS
            <4>1. D[i] \in Message \cup {Junk}
                BY <2>1, ElementOfSeq DEF FrameSeq
            <4> QED
                BY <4>1
        <3>8. Decoded(t) = E
            BY <2>3, <2>4
        <3>m. (\A m \in Message : m \in Nat /\ m > 0) /\ Size \in Nat
            BY LinkAssumption, LinkBoundsAssumption DEF Message
        <3> HIDE DEF t, r, D, d, E, n, l
        <3>9. ASSUME NEW i \in 1 .. Len(D), D[i] # Junk, d # Junk PROVE D[i] < d
            <4>1. PICK j \in 1 .. n - l : s[j] = [of |-> D[i], nth |-> Size]
                BY <3>4, <3>9
            <4>2. s[n] = [of |-> d, nth |-> Size]
                BY <3>3, <3>5, <3>9
            <4>3. s[j].of = D[i] /\ s[j].nth = Size /\ s[n].of = d /\ s[n].nth = Size
                BY <4>1, <4>2
            <4>4. D[i] \in Nat /\ D[i] > 0 /\ d \in Nat /\ d > 0
                BY <3>5, <3>7, <3>9, <3>m
            <4>5. j \in 1 .. n /\ n \in 1 .. n /\ j < n
                BY <3>3, <4>1
            <4>6. s[j].of > 0 /\ s[n].of > 0
                BY <4>3, <4>4
            <4>7. Before(s[j], s[n])
                BY <3>6, <4>5, <4>6
            <4>8. s[j].of < s[n].of \/ s[j].nth < s[n].nth
                BY <4>7 DEF Before
            <4>9. D[i] < d \/ Size < Size
                BY <4>3, <4>8
            <4> QED
                BY <3>m, <4>9
        <3>10. ASSUME NEW i \in 1 .. Len(E), NEW j \in 1 .. Len(E), i < j, E[i] # Junk, E[j] # Junk
               PROVE  E[i] < E[j]
            <4>1. i \in 1 .. Len(D) /\ E[i] = D[i]
                BY <2>1, <3>1, <3>10
            <4>2. CASE j \in 1 .. Len(D)
                BY <3>1, <3>2, <3>10, <4>1, <4>2
            <4>3. CASE j = Len(D) + 1
                <5>1. E[j] = d
                    BY <3>1, <4>3
                <5> QED
                    BY <3>9, <3>10, <4>1, <5>1
            <4> QED
                BY <2>1, <3>1, <4>2, <4>3
        <3>11. InOrder(E)
            BY <3>1, <3>10, InOrderIs
        <3> QED
            BY <3>8, <3>11
    <2>5. CASE ~(b = Zero /\ r # <<>>)
        BY <2>2, <2>3, <2>5
    <2> QED
        BY <2>4, <2>5
<1> HIDE DEF S
<1>3. ByteSeq \subseteq S
    BY <1>1, <1>2, BytesInduction
<1> QED
    BY <1>3 DEF S

\* What was given to the loop is less than all that is still on its way.
Precede(d, s) ==
    \A k \in 1 .. Len(d) : d[k] # Junk => \A i \in 1 .. Len(s) : s[i].of > 0 => d[k] < s[i].of

\* Frames before bytes in order, with what these decode to, are in order.
LEMMA AllInOrder ==
    ASSUME NEW d \in FrameSeq, NEW s \in ByteSeq, InOrder(d), Ascending(s), Precede(d, s)
    PROVE  InOrder(d \o Decoded(s))
<1> DEFINE e == Decoded(s)
           w == d \o e
<1>1. e \in FrameSeq /\ InOrder(e)
    BY DecodedTyped, AscendingFrames
<1>2. \A i \in 1 .. Len(e) :
          e[i] # Junk => \E j \in 1 .. Len(s) - Len(Run(s)) : s[j] = [of |-> e[i], nth |-> Size]
    BY FramesAreAt DEF FramesAt
<1>3. Len(s) \in Nat /\ Len(Run(s)) \in 0 .. Len(s)
    BY RunIs DEF ByteSeq
<1> HIDE DEF e
<1>4. /\ w \in FrameSeq /\ Len(d) \in Nat /\ Len(e) \in Nat /\ Len(w) = Len(d) + Len(e)
      /\ \A i \in 1 .. Len(d) + Len(e) : w[i] = IF i <= Len(d) THEN d[i] ELSE e[i - Len(d)]
    BY <1>1, ConcatProperties DEF FrameSeq
<1>m. \A m \in Message : m \in Nat /\ m > 0
    BY LinkBoundsAssumption DEF Message
<1>5. ASSUME NEW k \in 1 .. Len(d), NEW i \in 1 .. Len(e), d[k] # Junk, e[i] # Junk
      PROVE  d[k] < e[i]
    <2>1. PICK j \in 1 .. Len(s) - Len(Run(s)) : s[j] = [of |-> e[i], nth |-> Size]
        BY <1>2, <1>5
    <2>2. s[j].of = e[i] /\ j \in 1 .. Len(s)
        BY <1>3, <2>1
    <2>3. e[i] \in Message \cup {Junk}
        BY <1>1, ElementOfSeq DEF FrameSeq
    <2>4. e[i] > 0
        <3>1. e[i] \in Message
            BY <1>5, <2>3
        <3> QED
            BY <1>m, <3>1
    <2> QED
        BY <1>5, <2>2, <2>4 DEF Precede
<1>6. /\ \A i, j \in 1 .. Len(d) : i < j /\ d[i] # Junk /\ d[j] # Junk => d[i] < d[j]
      /\ \A i, j \in 1 .. Len(e) : i < j /\ e[i] # Junk /\ e[j] # Junk => e[i] < e[j]
    BY <1>1, InOrderIs
<1> HIDE DEF w
<1>7. ASSUME NEW i \in 1 .. Len(w), NEW j \in 1 .. Len(w), i < j, w[i] # Junk, w[j] # Junk
      PROVE  w[i] < w[j]
    <2>1. CASE j <= Len(d)
        <3>1. /\ i \in 1 .. Len(d) /\ j \in 1 .. Len(d)
              /\ i \in 1 .. Len(d) + Len(e) /\ j \in 1 .. Len(d) + Len(e) /\ i <= Len(d)
            BY <1>4, <1>7, <2>1
        <3>2. w[i] = d[i] /\ w[j] = d[j]
            BY <1>4, <2>1, <3>1
        <3> QED
            BY <1>6, <1>7, <3>1, <3>2
    <2>2. CASE i <= Len(d) /\ ~(j <= Len(d))
        <3>1. /\ i \in 1 .. Len(d) /\ j - Len(d) \in 1 .. Len(e)
              /\ i \in 1 .. Len(d) + Len(e) /\ j \in 1 .. Len(d) + Len(e)
            BY <1>4, <2>2
        <3>2. w[i] = d[i] /\ w[j] = e[j - Len(d)]
            BY <1>4, <2>2, <3>1
        <3> QED
            BY <1>5, <1>7, <3>1, <3>2
    <2>3. CASE ~(i <= Len(d))
        <3>1. /\ i - Len(d) \in 1 .. Len(e) /\ j - Len(d) \in 1 .. Len(e) /\ ~(j <= Len(d))
              /\ i \in 1 .. Len(d) + Len(e) /\ j \in 1 .. Len(d) + Len(e)
              /\ i - Len(d) < j - Len(d)
            BY <1>4, <1>7, <2>3
        <3>2. w[i] = e[i - Len(d)] /\ w[j] = e[j - Len(d)]
            BY <1>4, <2>3, <3>1
        <3> QED
            BY <1>6, <1>7, <3>1, <3>2
    <2> QED
        BY <2>1, <2>2, <2>3
<1> QED
    BY <1>4, <1>7, InOrderIs DEF w, e

-----------------------------------------------------------------------------
(* The invariant                                                           *)

\* Only the link that is open, or closing, has a thread in its loop, and what it
\* handed over is on its way only as long as there is one to take it.
OneReader ==
    /\ reading \subseteq {links} /\ (reading # {} => threaded)
    /\ port = "closed" => reading = {} /\ buf = <<>>
    /\ ~threaded \/ port = "closed" => channel = <<>>

\* The bytes of messages come in the order they are sent in, and none before it
\* is sent; what was given to the loop comes before them all.
Sent(s, d, m, p) ==
    /\ Ascending(s) /\ InOrder(d) /\ Precede(d, s)
    /\ \A i \in 1 .. Len(s) : s[i].of > 0 => s[i].of < m \/ (s[i].of = m /\ s[i].nth <= p)
    /\ \A k \in 1 .. Len(d) : d[k] # Junk => d[k] < m \/ (d[k] = m /\ p = Size)

\* The message the bench is in the middle of is whole so far.
BegunWhole(s, m, p) ==
    Len(Run(s)) = p /\ \A k \in 1 .. p : Run(s)[k] = [of |-> m, nth |-> k]

Accounted(d, s, m, e) == {n \in Message : n < m} \subseteq e \cup ToSet(d \o Decoded(s))

LinkIInv ==
    /\ LinkTypeOK
    /\ OneReader
    /\ Sent(Pipeline, delivered, mid, pos)
    /\ mid \notin excused => BegunWhole(Pipeline, mid, pos)
    /\ Accounted(delivered, Pipeline, mid, excused)

\* The types of what is on its way.
LEMMA PipelineTyped ==
    ASSUME LinkTypeOK
    PROVE  /\ Pipeline \in ByteSeq /\ buf \in ByteSeq /\ channel \in ByteSeq /\ driver \in ByteSeq
           /\ delivered \in FrameSeq /\ mid \in Nat /\ pos \in Nat /\ pos <= Size /\ mid > 0
<1>1. buf \in ByteSeq /\ channel \in ByteSeq /\ driver \in ByteSeq /\ delivered \in FrameSeq
    BY DEF LinkTypeOK, ByteSeq, FrameSeq
<1>2. Pipeline \in ByteSeq
    BY <1>1, BytesOf DEF Pipeline
<1>3. mid \in Nat /\ pos \in Nat /\ pos <= Size /\ mid > 0
    BY LinkAssumption, LinkBoundsAssumption DEF LinkTypeOK
<1> QED
    BY <1>1, <1>2, <1>3

\* What is sent is bytes.
LEMMA WireBytes ==
    /\ Zero \in WireByte /\ Noise \in WireByte
    /\ \A m \in Message, k \in 1 .. Size + 1 : Encoded(m, k) \in WireByte
<1>1. Size \in Nat \ {0} /\ MaxMessages \in Nat
    BY LinkAssumption, LinkBoundsAssumption
<1>2. Zero \in WireByte
    BY <1>1 DEF Zero, WireByte
<1>3. Noise \in WireByte
    BY <1>1 DEF Noise, WireByte
<1>4. ASSUME NEW m \in Message, NEW k \in 1 .. Size + 1 PROVE Encoded(m, k) \in WireByte
    <2>1. ~(k > Size) => [of |-> m, nth |-> k] \in WireByte
        BY <1>1 DEF WireByte, Message
    <2> QED
        BY <1>2, <2>1 DEF Encoded
<1> QED
    BY <1>2, <1>3, <1>4

\* Every step keeps the types.
LEMMA LinkTypes ==
    ASSUME LinkTypeOK, [LinkNext]_linkVars
    PROVE  LinkTypeOK'
<1> USE DEF LinkTypeOK
<1>b. /\ Size \in Nat \ {0} /\ MaxMessages \in Nat /\ MaxFaults \in Nat /\ MaxLinks \in Nat
      /\ Message = 1 .. MaxMessages
    BY LinkAssumption, LinkBoundsAssumption DEF Message
<1>a. \A s \in Seq(WireByte), b \in WireByte : Append(s, b) \in Seq(WireByte)
    OBVIOUS
<1>c. \A s, t \in Seq(WireByte) : s \o t \in Seq(WireByte)
    OBVIOUS
<1>e. <<>> \in Seq(WireByte)
    OBVIOUS
<1>n. Sending /\ NextByte => mid' \in 1 .. MaxMessages + 1 /\ pos' \in 0 .. Size
    BY <1>b DEF Sending, NextByte
<1>f. faults < MaxFaults => faults + 1 \in 0 .. MaxFaults
    BY <1>b
<1>1. CASE SendByte
    <2>1. Encoded(mid, pos + 1) \in WireByte
        BY <1>1, <1>b, WireBytes DEF SendByte, Sending
    <2>2. driver' \in Seq(WireByte)
        BY <1>1, <1>a, <2>1 DEF SendByte
    <2> QED
        BY <1>1, <1>n, <2>2 DEF SendByte, endVars, threadVars
<1>2. CASE LoseByte
    <2>1. excused' \subseteq 1 .. MaxMessages + 1
        <3>1. mid \in 1 .. MaxMessages + 1 /\ mid + 1 \in 1 .. MaxMessages + 1
            BY <1>2, <1>b DEF LoseByte, Sending
        <3> QED
            BY <1>2, <3>1 DEF LoseByte
    <2>2. faults' \in 0 .. MaxFaults
        BY <1>2, <1>f DEF LoseByte
    <2> QED
        BY <1>2, <1>n, <2>1, <2>2 DEF LoseByte, endVars, threadVars
<1>3. CASE StrayZero
    <2>1. driver' \in Seq(WireByte)
        BY <1>3, <1>a, WireBytes DEF StrayZero
    <2>2. faults' \in 0 .. MaxFaults
        BY <1>3, <1>f DEF StrayZero
    <2>3. excused' \subseteq 1 .. MaxMessages + 1
        BY <1>3 DEF StrayZero
    <2> QED
        BY <1>3, <2>1, <2>2, <2>3 DEF StrayZero, endVars, threadVars
<1>4. CASE Reset
    <2>1. driver' \in Seq(WireByte)
        BY <1>4, <1>a, WireBytes DEF Reset
    <2>2. faults' \in 0 .. MaxFaults
        BY <1>4, <1>f DEF Reset
    <2>3. mid \in 1 .. MaxMessages + 1 /\ mid + 1 \in 1 .. MaxMessages + 1 /\ 0 \in 0 .. Size
        BY <1>4, <1>b DEF Reset, Sending
    <2>4. excused' \subseteq 1 .. MaxMessages + 1
        BY <1>4, <2>3 DEF Reset
    <2> QED
        BY <1>4, <2>1, <2>2, <2>3, <2>4 DEF Reset, endVars, threadVars
<1>5. CASE Unplug
    BY <1>5 DEF Unplug, endVars, threadVars, benchVars
<1>6. CASE OpenLink
    <2>1. links + 1 \in 0 .. MaxLinks /\ links + 1 \in 1 .. MaxLinks
        BY <1>6, <1>b DEF OpenLink
    <2>2. reading' \subseteq 1 .. MaxLinks
        BY <1>6, <2>1 DEF OpenLink
    <2> QED
        BY <1>6, <1>e, <2>1, <2>2 DEF OpenLink, benchVars
<1>7. CASE Drop
    BY <1>7 DEF Drop, benchVars, threadVars
<1>8. CASE CloseLink
    <2>1. {m \in Message : m < mid /\ m \notin ToSet(delivered)} \subseteq 1 .. MaxMessages + 1
        BY <1>b
    <2>2. (IF pos > 0 THEN {mid} ELSE {}) \subseteq 1 .. MaxMessages + 1
        OBVIOUS
    <2>3. excused' \subseteq 1 .. MaxMessages + 1
        BY <1>8, <2>1, <2>2 DEF CloseLink
    <2> QED
        BY <1>8, <1>e, <2>3 DEF CloseLink, benchVars, threadVars
<1>9. ASSUME NEW l \in 1 .. MaxLinks, ThreadStep(l) PROVE LinkTypeOK'
    <2>1. CASE ThreadReads(l)
        <3>1. driver' \in Seq(WireByte)
            BY <1>e, <2>1 DEF ThreadReads
        <3>2. channel' \in Seq(WireByte) /\ reading' \subseteq 1 .. MaxLinks
            BY <1>c, <2>1 DEF ThreadReads
        <3> QED
            BY <2>1, <3>1, <3>2 DEF ThreadReads, benchVars
    <2>2. CASE ThreadFails(l)
        <3>1. failed' \in BOOLEAN /\ reading' \subseteq 1 .. MaxLinks
            BY <2>2 DEF ThreadFails
        <3> QED
            BY <2>2, <3>1 DEF ThreadFails, benchVars
    <2>3. CASE ThreadStops(l)
        <3>1. reading' \subseteq 1 .. MaxLinks
            BY <2>3 DEF ThreadStops
        <3> QED
            BY <2>3, <3>1 DEF ThreadStops, benchVars
    <2> QED
        BY <1>9, <2>1, <2>2, <2>3 DEF ThreadStep
<1>10. CASE TakeFrame
    <2>1. FrameEnd(buf) # 0 /\ buf \in ByteSeq /\ <<>> \in ByteSeq
        BY <1>10, <1>e DEF TakeFrame, FirstFrame, ByteSeq
    <2>2. /\ Decode(buf, FrameEnd(buf)) \in Message \cup {Junk}
          /\ SubSeq(buf, FrameEnd(buf) + 1, Len(buf)) \in ByteSeq
        BY <2>1, Taken
    <2> DEFINE f == Decode(buf, FrameEnd(buf))
               r == SubSeq(buf, FrameEnd(buf) + 1, Len(buf))
    <2>3. delivered' = Append(delivered, f) /\ buf' = r
        BY <1>10 DEF TakeFrame, FirstFrame, RestAfter
    <2> HIDE DEF f, r
    <2>4. f \in Message \cup {Junk} /\ r \in Seq(WireByte)
        BY <2>2 DEF f, r, ByteSeq
    <2>5. delivered' \in Seq(Message \cup {Junk})
        BY <2>3, <2>4
    <2> QED
        BY <1>10, <2>3, <2>4, <2>5 DEF TakeFrame, benchVars, threadVars
<1>11. CASE Fill
    <2>1. buf' \in Seq(WireByte) /\ driver' \in Seq(WireByte) /\ channel' \in Seq(WireByte)
        BY <1>11, <1>c, <1>e DEF Fill
    <2> QED
        BY <1>11, <2>1 DEF Fill, benchVars, threadVars
<1>12. CASE RecvFails
    <2>1. buf' \in Seq(WireByte) /\ channel' \in Seq(WireByte)
        BY <1>12, <1>c, <1>e DEF RecvFails
    <2> QED
        BY <1>12, <2>1 DEF RecvFails, benchVars, threadVars
<1>13. CASE UNCHANGED linkVars
    BY <1>13 DEF linkVars, benchVars, endVars, threadVars
<1> QED
    BY <1>1, <1>2, <1>3, <1>4, <1>5, <1>6, <1>7, <1>8, <1>9, <1>10, <1>11, <1>12, <1>13
       DEF LinkNext, RecvStep

\* Every step keeps to one reader.
LEMMA Readers ==
    ASSUME LinkTypeOK, OneReader, [LinkNext]_linkVars
    PROVE  OneReader'
<1> USE DEF OneReader
<1>1. CASE SendByte \/ LoseByte \/ StrayZero \/ Reset \/ UNCHANGED linkVars
    <2>1. UNCHANGED <<port, threaded, reading, channel, buf, links>>
        BY <1>1 DEF SendByte, LoseByte, StrayZero, Reset, linkVars, endVars, threadVars
    <2> QED
        BY <2>1
<1>2. CASE Unplug
    BY <1>2 DEF Unplug, endVars, threadVars
<1>3. CASE OpenLink
    BY <1>3 DEF OpenLink
<1>4. CASE Drop
    BY <1>4 DEF Drop, threadVars
<1>5. CASE CloseLink
    BY <1>5 DEF CloseLink, Joined, threadVars
<1>6. ASSUME NEW l \in 1 .. MaxLinks, ThreadStep(l) PROVE OneReader'
    <2>1. CASE ThreadReads(l)
        <3>1. l = links /\ port # "closed" /\ threaded
            BY <2>1 DEF ThreadReads
        <3> QED
            BY <2>1, <3>1 DEF ThreadReads
    <2>2. CASE ThreadFails(l)
        BY <2>2 DEF ThreadFails
    <2>3. CASE ThreadStops(l)
        BY <2>3 DEF ThreadStops
    <2> QED
        BY <1>6, <2>1, <2>2, <2>3 DEF ThreadStep
<1>7. CASE TakeFrame
    BY <1>7 DEF TakeFrame, threadVars
<1>8. CASE Fill
    BY <1>8 DEF Fill, threadVars
<1>9. CASE RecvFails
    BY <1>9 DEF RecvFails, threadVars
<1> QED
    BY <1>1, <1>2, <1>3, <1>4, <1>5, <1>6, <1>7, <1>8, <1>9 DEF LinkNext, RecvStep

\* The steps that pass bytes on, or none.
Quiet ==
    \/ Unplug \/ OpenLink \/ Drop \/ Fill \/ RecvFails \/ UNCHANGED linkVars
    \/ \E l \in 1 .. MaxLinks : ThreadStep(l)

\* The thread, Fill and the other steps of the program but TakeFrame and CloseLink
\* lose no byte, double none and change no order.
LEMMA BytesArePassedOn ==
    ASSUME LinkTypeOK, OneReader, Quiet
    PROVE  Pipeline' = Pipeline /\ UNCHANGED <<mid, pos, delivered, excused>>
<1>t. buf \in ByteSeq /\ channel \in ByteSeq /\ driver \in ByteSeq
    BY PipelineTyped
<1>e. \A s \in ByteSeq : <<>> \o s = s /\ s \o <<>> = s
    BY ConcatEmptySeq DEF ByteSeq
<1>a. (buf \o channel) \o driver = buf \o (channel \o driver)
    BY <1>t, ConcatAssociative DEF ByteSeq
<1>1. ASSUME UNCHANGED <<buf, channel, driver>> PROVE Pipeline' = Pipeline
    BY <1>1 DEF Pipeline
<1>2. CASE Unplug \/ Drop \/ UNCHANGED linkVars
    BY <1>1, <1>2 DEF Unplug, Drop, linkVars, endVars, threadVars, benchVars
<1>3. CASE OpenLink
    <2>1. UNCHANGED <<buf, channel, driver, mid, pos, delivered, excused>>
        BY <1>3 DEF OpenLink, OneReader, benchVars
    <2> QED
        BY <1>1, <2>1
<1>4. CASE Fill
    <2>1. UNCHANGED <<mid, pos, delivered, excused>>
        BY <1>4 DEF Fill, benchVars
    <2>2. CASE ~threaded
        <3>1. buf' = buf \o driver /\ driver' = <<>> /\ channel' = <<>> /\ channel = <<>>
            BY <1>4, <2>2 DEF Fill, OneReader
        <3>2. Pipeline' = buf \o driver
            <4>1. Pipeline' = ((buf \o driver) \o <<>>) \o <<>>
                BY <3>1 DEF Pipeline
            <4>2. buf \o driver \in ByteSeq
                BY <1>t, BytesOf
            <4> QED
                BY <1>e, <4>1, <4>2
        <3>3. Pipeline = buf \o driver
            <4>1. Pipeline = (buf \o <<>>) \o driver
                BY <3>1 DEF Pipeline
            <4> QED
                BY <1>e, <1>t, <4>1
        <3> QED
            BY <2>1, <3>2, <3>3
    <2>3. CASE threaded
        <3>1. buf' = buf \o channel /\ channel' = <<>> /\ driver' = driver
            BY <1>4, <2>3 DEF Fill
        <3>2. Pipeline' = ((buf \o channel) \o <<>>) \o driver
            BY <3>1 DEF Pipeline
        <3>3. buf \o channel \in ByteSeq
            BY <1>t, BytesOf
        <3>4. Pipeline' = Pipeline
            BY <1>e, <3>2, <3>3 DEF Pipeline
        <3> QED
            BY <2>1, <3>4
    <2> QED
        BY <2>2, <2>3
<1>5. CASE RecvFails
    <2>1. UNCHANGED <<mid, pos, delivered, excused, driver>>
        BY <1>5 DEF RecvFails, benchVars
    <2>2. CASE buf' = buf \o channel /\ channel' = <<>>
        <3>2. Pipeline' = ((buf \o channel) \o <<>>) \o driver
            BY <2>1, <2>2 DEF Pipeline
        <3>3. buf \o channel \in ByteSeq
            BY <1>t, BytesOf
        <3>4. Pipeline' = Pipeline
            BY <1>e, <3>2, <3>3 DEF Pipeline
        <3> QED
            BY <2>1, <3>4
    <2>3. CASE UNCHANGED <<buf, channel>>
        BY <1>1, <2>1, <2>3
    <2> QED
        BY <1>5, <2>2, <2>3 DEF RecvFails
<1>6. ASSUME NEW l \in 1 .. MaxLinks, ThreadStep(l)
      PROVE  Pipeline' = Pipeline /\ UNCHANGED <<mid, pos, delivered, excused>>
    <2>1. CASE ThreadReads(l)
        <3>1. l = links /\ port # "closed"
            BY <2>1 DEF ThreadReads, OneReader
        <3>2. /\ buf' = buf /\ channel' = channel \o driver /\ driver' = <<>>
              /\ UNCHANGED <<mid, pos, delivered, excused>>
            BY <2>1, <3>1 DEF ThreadReads, benchVars
        <3>3. Pipeline' = (buf \o (channel \o driver)) \o <<>>
            BY <3>2 DEF Pipeline
        <3>4. buf \o (channel \o driver) \in ByteSeq
            BY <1>t, BytesOf
        <3>5. Pipeline' = Pipeline
            BY <1>a, <1>e, <3>3, <3>4 DEF Pipeline
        <3> QED
            BY <3>2, <3>5
    <2>2. CASE ThreadFails(l) \/ ThreadStops(l)
        <3>1. UNCHANGED <<buf, channel, driver, mid, pos, delivered, excused>>
            BY <2>2 DEF ThreadFails, ThreadStops, benchVars
        <3> QED
            BY <1>1, <3>1
    <2> QED
        BY <1>6, <2>1, <2>2 DEF ThreadStep
<1> QED
    BY <1>2, <1>3, <1>4, <1>5, <1>6 DEF Quiet

-----------------------------------------------------------------------------
(* The order under each kind of step                                       *)

\* The next byte of a message, or one that is nobody's.
LEMMA SentGrows ==
    ASSUME NEW s \in ByteSeq, NEW d \in FrameSeq, NEW b \in WireByte,
           NEW m \in Nat, NEW p \in Nat, p <= Size, NEW n \in Nat, NEW q \in Nat, Sent(s, d, m, p),
           \/ b.of = 0 /\ ((n = m /\ q = p) \/ (n = m + 1 /\ q = 0))
           \/ b.of = m /\ b.nth = p + 1 /\ p < Size /\ n = m /\ q = p + 1
    PROVE  Sent(Append(s, b), d, n, q)
<1> DEFINE t == Append(s, b)
           l == Len(s)
<1>1. /\ l \in Nat /\ t \in ByteSeq /\ Len(t) = l + 1 /\ t[l + 1] = b
      /\ \A i \in 1 .. l : t[i] = s[i]
    BY AppendProperties, BytesOf DEF ByteSeq
<1>b. Size \in Nat /\ b.of \in Nat /\ b.nth \in Nat
    BY LinkAssumption, LinkBoundsAssumption DEF WireByte
<1>s. \A i \in 1 .. l : s[i].of \in Nat /\ s[i].nth \in Nat
    <2> SUFFICES ASSUME NEW i \in 1 .. l PROVE s[i].of \in Nat /\ s[i].nth \in Nat
        OBVIOUS
    <2>1. s[i] \in WireByte
        BY ElementOfSeq DEF ByteSeq
    <2> QED
        BY <2>1, LinkAssumption, LinkBoundsAssumption DEF WireByte
<1>d. \A k \in 1 .. Len(d) : d[k] # Junk => d[k] \in Nat
    <2> SUFFICES ASSUME NEW k \in 1 .. Len(d), d[k] # Junk PROVE d[k] \in Nat
        OBVIOUS
    <2>1. d[k] \in Message \cup {Junk}
        BY ElementOfSeq DEF FrameSeq
    <2> QED
        BY <2>1, LinkBoundsAssumption DEF Message
<1>2. \A i, j \in 1 .. l : i < j /\ s[i].of > 0 /\ s[j].of > 0 => Before(s[i], s[j])
    BY DEF Sent, Ascending
<1>3. InOrder(d)
    BY DEF Sent
<1>4. \A k \in 1 .. Len(d) : d[k] # Junk => \A i \in 1 .. l : s[i].of > 0 => d[k] < s[i].of
    BY DEF Sent, Precede
<1>5. \A i \in 1 .. l : s[i].of > 0 => s[i].of < m \/ (s[i].of = m /\ s[i].nth <= p)
    BY DEF Sent
<1>6. \A k \in 1 .. Len(d) : d[k] # Junk => d[k] < m \/ (d[k] = m /\ p = Size)
    BY DEF Sent
<1> HIDE DEF t, l
<1>7. ASSUME NEW i \in 1 .. Len(t), NEW j \in 1 .. Len(t), i < j, t[i].of > 0, t[j].of > 0
      PROVE  Before(t[i], t[j])
    <2>1. i \in 1 .. l /\ t[i] = s[i]
        BY <1>1, <1>7
    <2>2. CASE j \in 1 .. l
        BY <1>1, <1>2, <1>7, <2>1, <2>2
    <2>3. CASE j = l + 1
        <3>1. t[j] = b
            BY <1>1, <2>3
        <3>2. b.of > 0
            BY <1>7, <3>1
        <3>3. b.of = m /\ b.nth = p + 1
            BY <3>2
        <3>4. s[i].of < m \/ (s[i].of = m /\ s[i].nth <= p)
            BY <1>5, <1>7, <2>1
        <3>5. s[i].nth \in Nat
            BY <1>s, <2>1
        <3>6. s[i].of < b.of \/ (s[i].of = b.of /\ s[i].nth < b.nth)
            BY <3>3, <3>4, <3>5
        <3> QED
            BY <2>1, <3>1, <3>6 DEF Before
    <2> QED
        BY <1>1, <2>2, <2>3
<1>8. ASSUME NEW k \in 1 .. Len(d), d[k] # Junk, NEW i \in 1 .. Len(t), t[i].of > 0
      PROVE  d[k] < t[i].of
    <2>1. CASE i \in 1 .. l
        BY <1>1, <1>4, <1>8, <2>1
    <2>2. CASE i = l + 1
        <3>1. t[i] = b
            BY <1>1, <2>2
        <3>2. b.of = m /\ p < Size
            BY <1>8, <3>1
        <3>3. d[k] < m
            BY <1>6, <1>8, <1>b, <3>2
        <3> QED
            BY <3>1, <3>2, <3>3
    <2> QED
        BY <1>1, <2>1, <2>2
<1>9. ASSUME NEW i \in 1 .. Len(t), t[i].of > 0
      PROVE  t[i].of < n \/ (t[i].of = n /\ t[i].nth <= q)
    <2>1. CASE i \in 1 .. l
        <3>1. s[i].of > 0 /\ t[i] = s[i] /\ s[i].of \in Nat /\ s[i].nth \in Nat
            BY <1>1, <1>9, <1>s, <2>1
        <3>2. s[i].of < m \/ (s[i].of = m /\ s[i].nth <= p)
            BY <1>5, <2>1, <3>1
        <3> DEFINE o == s[i].of
                   h == s[i].nth
        <3>3. o < n \/ (o = n /\ h <= q)
            <4> HIDE DEF o, h
            <4>1. o \in Nat /\ h \in Nat /\ (o < m \/ (o = m /\ h <= p))
                BY <3>1, <3>2 DEF o, h
            <4> QED
                BY <4>1
        <3> QED
            BY <3>1, <3>3
    <2>2. CASE i = l + 1
        <3>1. t[i] = b
            BY <1>1, <2>2
        <3>2. b.of = n /\ b.nth = q
            BY <1>9, <3>1
        <3> QED
            BY <1>b, <3>1, <3>2
    <2> QED
        BY <1>1, <2>1, <2>2
<1>10. ASSUME NEW k \in 1 .. Len(d), d[k] # Junk PROVE d[k] < n \/ (d[k] = n /\ q = Size)
    <2> DEFINE c == d[k]
    <2>1. c \in Nat /\ (c < m \/ (c = m /\ p = Size))
        BY <1>6, <1>10, <1>d
    <2> HIDE DEF c
    <2>2. c < n \/ (c = n /\ q = Size)
        BY <1>b, <2>1
    <2> QED
        BY <2>2 DEF c
<1>11. Ascending(t) /\ Precede(d, t)
    BY <1>7, <1>8 DEF Ascending, Precede
<1> QED
    BY <1>3, <1>9, <1>10, <1>11 DEF Sent, t

\* The bench goes on, whatever becomes of the byte.
LEMMA SentLater ==
    ASSUME NEW s \in ByteSeq, NEW d \in FrameSeq, NEW m \in Nat, NEW p \in Nat, p <= Size,
           NEW n \in Nat, NEW q \in Nat, Sent(s, d, m, p),
           (n = m /\ q = p + 1 /\ p < Size) \/ (n = m + 1 /\ q = 0)
    PROVE  Sent(s, d, n, q)
<1>b. Size \in Nat
    BY LinkAssumption
<1>s. \A i \in 1 .. Len(s) : s[i].of \in Nat /\ s[i].nth \in Nat
    <2> SUFFICES ASSUME NEW i \in 1 .. Len(s) PROVE s[i].of \in Nat /\ s[i].nth \in Nat
        OBVIOUS
    <2>1. s[i] \in WireByte
        BY ElementOfSeq DEF ByteSeq
    <2> QED
        BY <2>1, LinkAssumption, LinkBoundsAssumption DEF WireByte
<1>d. \A k \in 1 .. Len(d) : d[k] # Junk => d[k] \in Nat
    <2> SUFFICES ASSUME NEW k \in 1 .. Len(d), d[k] # Junk PROVE d[k] \in Nat
        OBVIOUS
    <2>1. d[k] \in Message \cup {Junk}
        BY ElementOfSeq DEF FrameSeq
    <2> QED
        BY <2>1, LinkBoundsAssumption DEF Message
<1>1. ASSUME NEW i \in 1 .. Len(s), s[i].of > 0
      PROVE  s[i].of < n \/ (s[i].of = n /\ s[i].nth <= q)
    <2> DEFINE o == s[i].of
               h == s[i].nth
    <2>1. o \in Nat /\ h \in Nat /\ (o < m \/ (o = m /\ h <= p))
        BY <1>s, <1>1 DEF Sent
    <2> HIDE DEF o, h
    <2>2. o < n \/ (o = n /\ h <= q)
        BY <2>1
    <2> QED
        BY <2>2 DEF o, h
<1>2. ASSUME NEW k \in 1 .. Len(d), d[k] # Junk PROVE d[k] < n \/ (d[k] = n /\ q = Size)
    <2> DEFINE c == d[k]
    <2>1. c \in Nat /\ (c < m \/ (c = m /\ p = Size))
        BY <1>2, <1>d DEF Sent
    <2> HIDE DEF c
    <2>2. c < n \/ (c = n /\ q = Size)
        BY <1>b, <2>1
    <2> QED
        BY <2>2 DEF c
<1> QED
    BY <1>1, <1>2 DEF Sent

\* Bytes in front are dropped.
LEMMA SentBehind ==
    ASSUME NEW x \in ByteSeq, NEW y \in ByteSeq, NEW d \in FrameSeq, NEW m, NEW p,
           Sent(x \o y, d, m, p)
    PROVE  Sent(y, d, m, p)
<1> DEFINE w == x \o y
           a == Len(x)
<1>1. /\ a \in Nat /\ Len(y) \in Nat /\ Len(w) = a + Len(y)
      /\ \A i \in 1 .. a + Len(y) : w[i] = IF i <= a THEN x[i] ELSE y[i - a]
    BY ConcatProperties DEF ByteSeq
<1>s. Sent(w, d, m, p)
    OBVIOUS
<1> HIDE DEF w, a
<1>2. ASSUME NEW i \in 1 .. Len(y) PROVE i + a \in 1 .. Len(w) /\ w[i + a] = y[i]
    <2>1. i + a \in 1 .. a + Len(y) /\ ~(i + a <= a) /\ i + a - a = i
        BY <1>1
    <2> DEFINE k == i + a
    <2>2. k \in 1 .. a + Len(y) /\ ~(k <= a) /\ k - a = i
        BY <1>1
    <2> HIDE DEF k
    <2>3. w[k] = y[k - a]
        BY <1>1, <2>2
    <2>4. w[k] = y[i]
        BY <2>2, <2>3, Zenon
    <2> QED
        BY <1>1, <2>1, <2>4 DEF k
<1>3. Ascending(y)
    <2> SUFFICES ASSUME NEW i \in 1 .. Len(y), NEW j \in 1 .. Len(y), i < j,
                        y[i].of > 0, y[j].of > 0
                 PROVE  Before(y[i], y[j])
        BY DEF Ascending
    <2> DEFINE k == i + a
               l == j + a
    <2>1. k \in 1 .. Len(w) /\ l \in 1 .. Len(w) /\ k < l /\ w[k] = y[i] /\ w[l] = y[j]
        BY <1>1, <1>2
    <2> HIDE DEF k, l
    <2> QED
        BY <1>s, <2>1 DEF Sent, Ascending
<1>4. ASSUME NEW i \in 1 .. Len(y), y[i].of > 0
      PROVE  /\ \A k \in 1 .. Len(d) : d[k] # Junk => d[k] < y[i].of
             /\ y[i].of < m \/ (y[i].of = m /\ y[i].nth <= p)
    <2> DEFINE j == i + a
    <2>1. j \in 1 .. Len(w) /\ w[j] = y[i]
        BY <1>2
    <2> HIDE DEF j
    <2> QED
        BY <1>s, <1>4, <2>1 DEF Sent, Precede
<1> QED
    BY <1>3, <1>4, <1>s DEF Sent, Precede

\* The loop takes the first frame.
LEMMA SentTaken ==
    ASSUME NEW x \in ByteSeq, NEW y \in ByteSeq, NEW d \in FrameSeq, NEW m \in Nat, NEW p \in Nat,
           p <= Size, NEW f \in Message \cup {Junk}, NEW r \in FrameSeq,
           Sent(x \o y, d, m, p), Decoded(x) = <<f>>, Decoded(x \o y) = <<f>> \o r
    PROVE  Sent(y, Append(d, f), m, p)
<1> DEFINE w == x \o y
           a == Len(x)
           e == Append(d, f)
           c == Len(d)
<1>1. /\ a \in Nat /\ Len(y) \in Nat /\ Len(w) = a + Len(y) /\ w \in ByteSeq
      /\ \A i \in 1 .. a + Len(y) : w[i] = IF i <= a THEN x[i] ELSE y[i - a]
    BY ConcatProperties DEF ByteSeq
<1>2. Sent(y, d, m, p)
    BY SentBehind
<1>3. /\ c \in Nat /\ e \in FrameSeq /\ Len(e) = c + 1 /\ e[c + 1] = f
      /\ \A k \in 1 .. c : e[k] = d[k]
    BY AppendProperties DEF FrameSeq
<1>4. InOrder(e)
    <2>1. InOrder(d \o (<<f>> \o r))
        BY <1>1, AllInOrder DEF Sent
    <2>2. <<f>> \in FrameSeq
        BY DEF FrameSeq
    <2>3. d \o (<<f>> \o r) = (d \o <<f>>) \o r
        BY <2>2, ConcatAssociative DEF FrameSeq
    <2>4. e = d \o <<f>>
        BY AppendIsConcat DEF FrameSeq
    <2> HIDE DEF e
    <2> DEFINE z == e \o r
    <2>5. InOrder(z)
        BY <2>1, <2>3, <2>4, Zenon
    <2>6. /\ z \in FrameSeq /\ Len(r) \in Nat /\ Len(z) = Len(e) + Len(r)
          /\ \A i \in 1 .. Len(e) + Len(r) : z[i] = IF i <= Len(e) THEN e[i] ELSE r[i - Len(e)]
        <3>1. e \in FrameSeq
            BY <1>3
        <3> QED
            BY <3>1, ConcatProperties DEF FrameSeq
    <2> HIDE DEF z, c
    <2>7. \A i \in 1 .. Len(e) : i \in 1 .. Len(z) /\ z[i] = e[i]
        BY <1>3, <2>6
    <2>8. \A i, j \in 1 .. Len(z) : i < j /\ z[i] # Junk /\ z[j] # Junk => z[i] < z[j]
        BY <2>5, <2>6, InOrderIs
    <2>9. \A i, j \in 1 .. Len(e) : i < j /\ e[i] # Junk /\ e[j] # Junk => e[i] < e[j]
        BY <2>7, <2>8
    <2> QED
        BY <1>3, <2>9, InOrderIs
<1>5. ASSUME f # Junk
      PROVE  /\ \A i \in 1 .. Len(y) : y[i].of > 0 => f < y[i].of
             /\ f < m \/ (f = m /\ p = Size)
    <2>0. Size \in Nat /\ f \in Nat /\ f > 0
        BY <1>5, LinkAssumption, LinkBoundsAssumption DEF Message
    <2>1. Len(<<f>>) = 1 /\ <<f>>[1] = f
        OBVIOUS
    <2>2. Len(Run(x)) \in 0 .. a
        BY RunIs
    <2>3. \E j \in 1 .. a - Len(Run(x)) : x[j] = [of |-> f, nth |-> Size]
        <3>1. \A i \in 1 .. Len(Decoded(x)) : Decoded(x)[i] # Junk =>
                \E j \in 1 .. a - Len(Run(x)) : x[j] = [of |-> Decoded(x)[i], nth |-> Size]
            BY FramesAreAt DEF FramesAt
        <3> HIDE DEF a
        <3>2. 1 \in 1 .. Len(Decoded(x)) /\ Decoded(x)[1] = f
            BY <2>1
        <3> QED
            BY <1>5, <3>1, <3>2
    <2>4. PICK j \in 1 .. a - Len(Run(x)) : x[j] = [of |-> f, nth |-> Size]
        BY <2>3
    <2> HIDE DEF w, a
    <2>5. j \in 1 .. a /\ j \in 1 .. a + Len(y) /\ j <= a
        BY <1>1, <2>2
    <2>6. w[j] = x[j]
        BY <1>1, <2>5
    <2>7. w[j].of = f /\ w[j].nth = Size
        BY <2>4, <2>6
    <2>8. Sent(w, d, m, p)
        BY DEF w
    <2>9. f < m \/ (f = m /\ p = Size)
        <3>1. w[j].of < m \/ (w[j].of = m /\ w[j].nth <= p)
            BY <1>1, <2>0, <2>5, <2>7, <2>8 DEF Sent
        <3> QED
            BY <2>0, <2>7, <3>1
    <2>10. ASSUME NEW i \in 1 .. Len(y), y[i].of > 0 PROVE f < y[i].of
        <3> DEFINE k == i + a
        <3>1. k \in 1 .. a + Len(y) /\ ~(k <= a) /\ k - a = i /\ j < k
            BY <1>1, <2>5
        <3> HIDE DEF k
        <3>2. w[k] = y[k - a]
            BY <1>1, <3>1
        <3>3. w[k] = y[i]
            BY <3>1, <3>2, Zenon
        <3>4. Before(w[j], w[k])
            BY <1>1, <2>0, <2>5, <2>7, <2>8, <2>10, <3>1, <3>3 DEF Sent, Ascending
        <3>5. y[i] \in WireByte
            BY ElementOfSeq DEF ByteSeq
        <3>6. y[i].nth \in 0 .. Size
            BY <3>5 DEF WireByte
        <3>7. f < y[i].of \/ Size < y[i].nth
            BY <2>7, <3>3, <3>4 DEF Before
        <3> QED
            BY <2>0, <3>6, <3>7
    <2> QED
        BY <2>9, <2>10
<1>6. ASSUME NEW k \in 1 .. Len(e), e[k] # Junk
      PROVE  /\ \A i \in 1 .. Len(y) : y[i].of > 0 => e[k] < y[i].of
             /\ e[k] < m \/ (e[k] = m /\ p = Size)
    <2> HIDE DEF e, c
    <2>1. CASE k \in 1 .. c
        <3>1. e[k] = d[k] /\ k \in 1 .. Len(d)
            BY <1>3, <2>1 DEF c
        <3> QED
            BY <1>2, <1>6, <3>1 DEF Sent, Precede
    <2>2. CASE k = c + 1
        <3>1. e[k] = f
            BY <1>3, <2>2
        <3> QED
            BY <1>5, <1>6, <3>1
    <2> QED
        BY <1>3, <2>1, <2>2
<1>7. Precede(e, y)
    BY <1>6 DEF Precede
<1> QED
    BY <1>2, <1>4, <1>6, <1>7 DEF Sent

-----------------------------------------------------------------------------
(* What is begun, and what is accounted for                                *)

LEMMA BegunGrows ==
    ASSUME NEW s \in ByteSeq, NEW m, NEW p \in Nat, NEW b \in WireByte,
           b = [of |-> m, nth |-> p + 1], BegunWhole(s, m, p)
    PROVE  BegunWhole(Append(s, b), m, p + 1)
<1> DEFINE r == Run(s)
           q == Append(r, b)
<1>1. b # Zero
    <2>1. b.nth = p + 1 /\ Zero.nth = 0
        BY DEF Zero
    <2>2. p + 1 # 0
        OBVIOUS
    <2> QED
        BY <2>1, <2>2
<1>2. Run(Append(s, b)) = q
    BY <1>1, RunOfAppend
<1>3. r \in ByteSeq /\ Len(r) = p /\ \A k \in 1 .. p : r[k] = [of |-> m, nth |-> k]
    BY RunIs DEF BegunWhole
<1> HIDE DEF r
<1>4. Len(q) = p + 1 /\ q[p + 1] = b /\ \A k \in 1 .. p : q[k] = r[k]
    BY <1>3, AppendProperties DEF ByteSeq
<1> HIDE DEF q
<1>5. ASSUME NEW k \in 1 .. p + 1 PROVE q[k] = [of |-> m, nth |-> k]
    <2>1. CASE k \in 1 .. p
        BY <1>3, <1>4, <2>1
    <2>2. CASE k = p + 1
        BY <1>4, <2>2
    <2> QED
        BY <2>1, <2>2
<1> QED
    BY <1>2, <1>4, <1>5 DEF BegunWhole

\* A delimiter begins a message.
LEMMA BegunAnew ==
    ASSUME NEW s \in ByteSeq, NEW m PROVE BegunWhole(Append(s, Zero), m, 0)
<1>1. Run(Append(s, Zero)) = <<>>
    BY RunOfAppend, WireBytes
<1> QED
    BY <1>1 DEF BegunWhole

\* Where the front was lost, a message that has not begun has not begun.
LEMMA BegunBehind ==
    ASSUME NEW x \in ByteSeq, NEW y \in ByteSeq, NEW m, BegunWhole(x \o y, m, 0)
    PROVE  BegunWhole(y, m, 0)
<1>1. Run(x \o y) = <<>>
    <2>1. x \o y \in ByteSeq
        BY BytesOf
    <2>2. Run(x \o y) \in ByteSeq /\ Len(Run(x \o y)) = 0
        BY <2>1, RunIs DEF BegunWhole
    <2> DEFINE r == Run(x \o y)
    <2> HIDE DEF r
    <2>3. r \in ByteSeq /\ Len(r) = 0
        BY <2>2 DEF r
    <2>4. r = <<>>
        BY <2>3, EmptySeq DEF ByteSeq
    <2> QED
        BY <2>4 DEF r
<1>2. PICK d \in FrameSeq, r \in FrameSeq : CutAt(x, y, d, r)
    BY CutIs
<1>3. Run(x) \in ByteSeq /\ Run(y) \in ByteSeq
    BY RunIs
<1>4. Run(y) = <<>>
    <2>1. CASE Run(x \o y) = Run(y)
        BY <1>1, <2>1
    <2>2. CASE Run(x \o y) = Run(x) \o Run(y)
        <3>1. Run(x) \o Run(y) = <<>>
            BY <1>1, <2>2, Zenon
        <3> DEFINE a == Run(x)
                   c == Run(y)
        <3> HIDE DEF a, c
        <3>2. a \in Seq(WireByte) /\ c \in Seq(WireByte) /\ a \o c = <<>>
            BY <1>3, <3>1 DEF a, c, ByteSeq
        <3>3. c = <<>>
            BY <3>2, ConcatEqualIffEmpty
        <3> QED
            BY <3>3 DEF c
    <2> QED
        BY <1>2, <2>1, <2>2 DEF CutAt
<1> QED
    BY <1>4 DEF BegunWhole

\* A message whose bytes are all there is the frame that its delimiter ends.
LEMMA BegunIsTheFrame ==
    ASSUME NEW s \in ByteSeq, NEW m \in Nat, m > 0, BegunWhole(s, m, Size)
    PROVE  Run(s) # <<>> /\ Frame(Run(s)) = m
<1>1. Size \in Nat \ {0} /\ Len(Run(s)) = Size
    BY LinkAssumption DEF BegunWhole
<1>2. \A k \in 1 .. Size : Run(s)[k] = [of |-> m, nth |-> k]
    BY DEF BegunWhole
<1>3. 1 \in 1 .. Size
    BY <1>1
<1>4. Run(s)[1] = [of |-> m, nth |-> 1]
    BY <1>2, <1>3, Zenon
<1>5. Run(s)[1].of = m
    BY <1>4
<1>6. Run(s) # <<>>
    BY <1>1
<1>7. \A k \in 1 .. Size : Run(s)[k] = [of |-> Run(s)[1].of, nth |-> k]
    BY <1>2, <1>5, Zenon
<1>8. Run(s)[1].of > 0
    BY <1>5
<1> QED
    BY <1>1, <1>5, <1>6, <1>7, <1>8 DEF Frame

\* The elements of two sequences.
LEMMA ToSetConcat ==
    ASSUME NEW T, NEW x \in Seq(T), NEW y \in Seq(T)
    PROVE  ToSet(x \o y) = ToSet(x) \cup ToSet(y)
<1> DEFINE w == x \o y
<1>1. /\ w \in Seq(T) /\ Len(x) \in Nat /\ Len(y) \in Nat /\ Len(w) = Len(x) + Len(y)
      /\ \A i \in 1 .. Len(x) + Len(y) : w[i] = IF i <= Len(x) THEN x[i] ELSE y[i - Len(x)]
    BY ConcatProperties
<1>2. DOMAIN w = 1 .. Len(x) + Len(y) /\ DOMAIN x = 1 .. Len(x) /\ DOMAIN y = 1 .. Len(y)
    BY <1>1, LenProperties
<1> HIDE DEF w
<1>3. ASSUME NEW e \in ToSet(w) PROVE e \in ToSet(x) \cup ToSet(y)
    <2>1. PICK i \in 1 .. Len(x) + Len(y) : e = w[i]
        BY <1>2, <1>3 DEF ToSet
    <2>2. CASE i <= Len(x)
        <3>1. i \in DOMAIN x /\ e = x[i]
            BY <1>1, <1>2, <2>1, <2>2
        <3> QED
            BY <3>1 DEF ToSet
    <2>3. CASE ~(i <= Len(x))
        <3>1. i - Len(x) \in DOMAIN y /\ e = y[i - Len(x)]
            BY <1>1, <1>2, <2>1, <2>3
        <3> QED
            BY <3>1 DEF ToSet
    <2> QED
        BY <2>2, <2>3
<1>4. ASSUME NEW e \in ToSet(x) PROVE e \in ToSet(w)
    <2>1. PICK i \in 1 .. Len(x) : e = x[i]
        BY <1>2, <1>4 DEF ToSet
    <2>2. i \in DOMAIN w /\ e = w[i]
        BY <1>1, <1>2, <2>1
    <2> QED
        BY <2>2 DEF ToSet
<1>5. ASSUME NEW e \in ToSet(y) PROVE e \in ToSet(w)
    <2>1. PICK i \in 1 .. Len(y) : e = y[i]
        BY <1>2, <1>5 DEF ToSet
    <2> DEFINE k == i + Len(x)
    <2>2. k \in 1 .. Len(x) + Len(y) /\ ~(k <= Len(x)) /\ k - Len(x) = i
        BY <1>1
    <2> HIDE DEF k
    <2>3. w[k] = y[k - Len(x)]
        BY <1>1, <2>2
    <2>4. w[k] = e
        BY <2>1, <2>2, <2>3, Zenon
    <2> QED
        BY <1>2, <2>2, <2>4 DEF ToSet
<1> QED
    BY <1>3, <1>4, <1>5 DEF w

\* The elements after one more frame.
LEMMA ToSetFrames ==
    ASSUME NEW d \in FrameSeq, NEW f \in Message \cup {Junk}
    PROVE  ToSet(<<f>>) = {f} /\ ToSet(Append(d, f)) = ToSet(d) \cup {f}
<1>1. <<f>> \in Seq(Message \cup {Junk})
    OBVIOUS
<1>2. ToSet(<<f>>) = {f}
    BY DEF ToSet
<1>3. ToSet(d \o <<f>>) = ToSet(d) \cup ToSet(<<f>>)
    BY <1>1, ToSetConcat, ZenonT(30) DEF FrameSeq
<1>4. Append(d, f) = d \o <<f>>
    BY AppendIsConcat DEF FrameSeq
<1> QED
    BY <1>2, <1>3, <1>4

\* A byte loses no frame, and a delimiter behind a whole message completes it.
LEMMA AccountedGrows ==
    ASSUME NEW s \in ByteSeq, NEW d \in FrameSeq, NEW b \in WireByte, NEW m \in Nat, NEW e,
           Accounted(d, s, m, e)
    PROVE  /\ Accounted(d, Append(s, b), m, e)
           /\ b = Zero /\ m > 0 /\ BegunWhole(s, m, Size) => Accounted(d, Append(s, b), m + 1, e)
<1> DEFINE D == Decoded(s)
           E == Decoded(Append(s, b))
           f == Frame(Run(s))
<1>1. Run(s) \in ByteSeq /\ D \in FrameSeq /\ f \in Message \cup {Junk} /\ Append(s, b) \in ByteSeq
    BY RunIs, DecodedTyped, FrameTyped, BytesOf
<1>2. E = IF b = Zero /\ Run(s) # <<>> THEN Append(D, f) ELSE D
    BY DecodedOfAppend
<1>3. b = Zero /\ m > 0 /\ BegunWhole(s, m, Size) => E = Append(D, f) /\ f = m
    BY <1>2, BegunIsTheFrame
<1>4. E \in FrameSeq
    BY <1>1, DecodedTyped
<1>5. \A k \in Message : k < m => k \in e \cup ToSet(d \o D)
    BY DEF Accounted
<1>6. Accounted(d, Append(s, b), m, e) <=> \A k \in Message : k < m => k \in e \cup ToSet(d \o E)
    BY DEF Accounted
<1>7. Accounted(d, Append(s, b), m + 1, e) <=>
          \A k \in Message : k < m + 1 => k \in e \cup ToSet(d \o E)
    BY DEF Accounted
<1>m. \A k \in Message : k \in Nat
    BY LinkBoundsAssumption DEF Message
<1> HIDE DEF D, E, f
<1>8. ToSet(d \o D) = ToSet(d) \cup ToSet(D) /\ ToSet(d \o E) = ToSet(d) \cup ToSet(E)
    BY <1>1, <1>4, ToSetConcat DEF FrameSeq
<1>9. ToSet(Append(D, f)) = ToSet(D) \cup {f}
    BY <1>1, ToSetFrames
<1>10. ToSet(D) \subseteq ToSet(E)
    BY <1>2, <1>9
<1>11. \A k \in Message : k < m => k \in e \cup ToSet(d \o E)
    BY <1>5, <1>8, <1>10
<1>12. ASSUME b = Zero, m > 0, BegunWhole(s, m, Size), NEW k \in Message, k < m + 1
       PROVE  k \in e \cup ToSet(d \o E)
    <2>1. k < m \/ k = m
        BY <1>12, <1>m
    <2>2. CASE k = m
        <3>1. E = Append(D, f) /\ f = m
            BY <1>3, <1>12
        <3> QED
            BY <1>8, <1>9, <2>2, <3>1
    <2> QED
        BY <1>11, <2>1, <2>2
<1> QED
    BY <1>6, <1>7, <1>11, <1>12

-----------------------------------------------------------------------------
(* Every step keeps the invariant                                          *)

LEMMA BytesArrive ==
    ASSUME LinkTypeOK, NEW b \in WireByte, driver' = Append(driver, b), UNCHANGED <<buf, channel>>
    PROVE  Pipeline' = Append(Pipeline, b)
<1>1. buf \o channel \in ByteSeq /\ driver \in ByteSeq
    BY PipelineTyped, BytesOf
<1>2. Pipeline' = (buf \o channel) \o Append(driver, b)
    BY DEF Pipeline
<1> DEFINE x == buf \o channel
<1> HIDE DEF x
<1>3. x \o Append(driver, b) = Append(x \o driver, b)
    BY <1>1, ConcatAppend DEF x, ByteSeq
<1> QED
    BY <1>2, <1>3 DEF x, Pipeline

\* What TakeFrame takes from the pipeline, and gives to the loop.
LEMMA FrameIsTaken ==
    ASSUME LinkTypeOK, TakeFrame
    PROVE  /\ UNCHANGED <<mid, pos, excused>>
           /\ \E x \in ByteSeq, f \in Message \cup {Junk} :
                 /\ Pipeline = x \o Pipeline' /\ Decoded(x) = <<f>>
                 /\ Decoded(Pipeline) = <<f>> \o Decoded(Pipeline')
                 /\ Run(Pipeline') = Run(Pipeline)
                 /\ delivered' = Append(delivered, f)
<1> DEFINE end == FrameEnd(buf)
           others == SubSeq(buf, end + 1, Len(buf))
           f == Decode(buf, end)
           y == channel \o driver
<1>1. UNCHANGED <<mid, pos, excused, channel, driver>>
    BY DEF TakeFrame, benchVars
<1>2. end # 0 /\ delivered' = Append(delivered, f) /\ buf' = others
    BY DEF TakeFrame, FirstFrame, RestAfter
<1>3. buf \in ByteSeq /\ channel \in ByteSeq /\ driver \in ByteSeq /\ y \in ByteSeq
    BY PipelineTyped, BytesOf
<1>4. /\ others \in ByteSeq /\ f \in Message \cup {Junk}
      /\ Decoded(buf \o y) = <<f>> \o Decoded(others \o y)
      /\ Run(buf \o y) = Run(others \o y)
      /\ \E x \in ByteSeq : buf \o y = x \o (others \o y) /\ Decoded(x) = <<f>>
    BY <1>2, <1>3, Taken
<1> HIDE DEF end, others, f
<1>5. Pipeline = buf \o y
    BY <1>3, ConcatAssociative, SMTT(30) DEF ByteSeq, Pipeline
<1>6. Pipeline' = others \o y
    <2>1. Pipeline' = (others \o channel) \o driver
        BY <1>1, <1>2 DEF Pipeline
    <2> QED
        <3>1. (others \o channel) \o driver = others \o (channel \o driver)
            <4>1. others \in Seq(WireByte) /\ channel \in Seq(WireByte) /\ driver \in Seq(WireByte)
                BY <1>3, <1>4 DEF ByteSeq
            <4> QED
                BY <4>1, ConcatAssociative, SMTT(30)
        <3> QED
            BY <2>1, <3>1, Zenon
<1> HIDE DEF y
<1>7. PICK x \in ByteSeq : buf \o y = x \o (others \o y) /\ Decoded(x) = <<f>>
    BY <1>4
<1>8. Pipeline = x \o Pipeline'
    BY <1>5, <1>6, <1>7, Zenon
<1>9. Decoded(Pipeline) = <<f>> \o Decoded(Pipeline') /\ Run(Pipeline') = Run(Pipeline)
    BY <1>4, <1>5, <1>6, Zenon
<1> QED
    BY <1>1, <1>2, <1>4, <1>7, <1>8, <1>9

\* What CloseLink leaves on its way.
LEMMA LinkCloses ==
    ASSUME LinkTypeOK, CloseLink
    PROVE  /\ UNCHANGED <<mid, pos, delivered>>
           /\ Pipeline' = driver /\ Pipeline = (buf \o channel) \o driver
<1>1. UNCHANGED <<mid, pos, delivered, driver>> /\ buf' = <<>> /\ channel' = <<>>
    BY DEF CloseLink, benchVars
<1>2. Pipeline' = (<<>> \o <<>>) \o driver
    BY <1>1 DEF Pipeline
<1>3. driver \in ByteSeq
    BY PipelineTyped
<1>4. <<>> \o <<>> = <<>> /\ <<>> \o driver = driver
    BY <1>3, ConcatEmptySeq DEF ByteSeq
<1>5. Pipeline' = driver
    BY <1>2, <1>4, Zenon
<1> QED
    BY <1>1, <1>5 DEF Pipeline

\* Every step keeps the invariant.
LEMMA LinkSteps ==
    ASSUME LinkIInv, [LinkNext]_linkVars
    PROVE  LinkIInv'
<1>1. LinkTypeOK /\ OneReader /\ LinkTypeOK' /\ OneReader'
    BY LinkTypes, Readers DEF LinkIInv
<1>2. /\ Pipeline \in ByteSeq /\ delivered \in FrameSeq
      /\ mid \in Nat /\ pos \in Nat /\ pos <= Size /\ mid > 0
    BY <1>1, PipelineTyped
<1>3. /\ Sent(Pipeline, delivered, mid, pos)
      /\ mid \notin excused => BegunWhole(Pipeline, mid, pos)
      /\ Accounted(delivered, Pipeline, mid, excused)
    BY DEF LinkIInv
<1>b. Size \in Nat \ {0} /\ Message = 1 .. MaxMessages /\ MaxMessages \in Nat
    BY LinkAssumption, LinkBoundsAssumption DEF Message
<1> DEFINE P == Pipeline
           Goal == /\ Sent(P', delivered', mid', pos')
                   /\ mid' \notin excused' => BegunWhole(P', mid', pos')
                   /\ Accounted(delivered', P', mid', excused')
<1>g. Goal => LinkIInv'
    BY <1>1 DEF LinkIInv
<1>m. \A d, s, m, e1, e2 : Accounted(d, s, m, e1) /\ e1 \subseteq e2 => Accounted(d, s, m, e2)
    BY DEF Accounted
<1>4. CASE SendByte
    <2> DEFINE b == Encoded(mid, pos + 1)
    <2>1. b \in WireByte
        BY <1>2, <1>4, <1>b, WireBytes DEF SendByte, Sending
    <2>2. /\ driver' = Append(driver, b) /\ UNCHANGED <<buf, channel, delivered, excused>>
          /\ NextByte
        BY <1>4 DEF SendByte, endVars
    <2>z. Zero.of = 0
        BY DEF Zero
    <2>3. CASE pos = Size
        <3>1. b = Zero /\ mid' = mid + 1 /\ pos' = 0
            BY <1>2, <1>b, <2>2, <2>3 DEF NextByte, Encoded
        <3> HIDE DEF b
        <3>2. P' = Append(Pipeline, b)
            BY <1>1, <2>1, <2>2, BytesArrive
        <3>3. Sent(Append(Pipeline, b), delivered, mid + 1, 0)
            BY <1>2, <1>3, <2>1, <2>z, <3>1, SentGrows
        <3>4. BegunWhole(Append(Pipeline, b), mid + 1, 0)
            BY <1>2, <3>1, BegunAnew
        <3>5. Accounted(delivered, Append(Pipeline, b), mid + 1, excused)
            <4>1. CASE mid \in excused
                <5>1. Accounted(delivered, Append(Pipeline, b), mid, excused)
                    BY <1>2, <1>3, <2>1, AccountedGrows
                <5>2. \A n \in Message : n < mid + 1 => n < mid \/ n = mid
                    BY <1>2, <1>b
                <5> QED
                    BY <4>1, <5>1, <5>2 DEF Accounted
            <4>2. CASE mid \notin excused
                BY <1>2, <1>3, <2>1, <2>3, <3>1, <4>2, AccountedGrows
            <4> QED
                BY <4>1, <4>2
        <3> HIDE DEF P
        <3>6. Goal
            BY <2>2, <3>1, <3>2, <3>3, <3>4, <3>5
        <3> QED
            BY <1>g, <3>6 DEF P
    <2>4. CASE pos # Size
        <3>1. /\ b = [of |-> mid, nth |-> pos + 1] /\ mid' = mid /\ pos' = pos + 1 /\ pos < Size
            BY <1>2, <1>b, <2>2, <2>4 DEF NextByte, Encoded
        <3> HIDE DEF b
        <3>2. P' = Append(Pipeline, b)
            BY <1>1, <2>1, <2>2, BytesArrive
        <3>3. Sent(Append(Pipeline, b), delivered, mid, pos + 1)
            <4>1. b.of = mid /\ b.nth = pos + 1
                BY <3>1
            <4>2. pos + 1 \in Nat
                BY <1>2
            <4> QED
                BY <1>2, <1>3, <2>1, <3>1, <4>1, <4>2, SentGrows
        <3>4. mid \notin excused => BegunWhole(Append(Pipeline, b), mid, pos + 1)
            BY <1>2, <1>3, <2>1, <3>1, BegunGrows
        <3>5. Accounted(delivered, Append(Pipeline, b), mid, excused)
            BY <1>2, <1>3, <2>1, AccountedGrows
        <3> HIDE DEF P
        <3>6. Goal
            BY <2>2, <3>1, <3>2, <3>3, <3>4, <3>5
        <3> QED
            BY <1>g, <3>6 DEF P
    <2> QED
        BY <2>3, <2>4
<1>5. CASE LoseByte
    <2>1. /\ UNCHANGED <<buf, channel, driver, delivered>> /\ NextByte
          /\ excused' = excused \cup {mid} \cup (IF pos = Size THEN {mid + 1} ELSE {})
        BY <1>5 DEF LoseByte, endVars
    <2>2. P' = Pipeline
        BY <2>1 DEF Pipeline
    <2>3. /\ mid' \in excused'
          /\ (mid' = mid /\ pos' = pos + 1 /\ pos < Size) \/ (mid' = mid + 1 /\ pos' = 0)
        BY <1>2, <1>b, <2>1 DEF NextByte
    <2>4. Sent(Pipeline, delivered, mid', pos')
        BY <1>2, <1>3, <2>3, SentLater
    <2>5. Accounted(delivered, Pipeline, mid', excused')
        <3>1. \A n \in Message : n < mid' => n < mid \/ n = mid
            BY <1>2, <1>b, <2>3
        <3> QED
            BY <1>3, <2>1, <3>1 DEF Accounted
    <2> HIDE DEF P
    <2>6. Goal
        BY <2>1, <2>2, <2>3, <2>4, <2>5
    <2> QED
        BY <1>g, <2>6 DEF P
<1>6. CASE StrayZero
    <2>1. /\ driver' = Append(driver, Zero) /\ UNCHANGED <<buf, channel, delivered, mid, pos>>
          /\ excused' = IF pos > 0 THEN excused \cup {mid} ELSE excused
        BY <1>6 DEF StrayZero, endVars
    <2>2. P' = Append(Pipeline, Zero)
        BY <1>1, <2>1, WireBytes, BytesArrive
    <2>3. Sent(Append(Pipeline, Zero), delivered, mid, pos)
        <3>1. Zero.of = 0
            BY DEF Zero
        <3> QED
            BY <1>2, <1>3, <3>1, WireBytes, SentGrows
    <2>4. mid \notin excused' => BegunWhole(Append(Pipeline, Zero), mid, pos)
        <3>1. mid \notin excused' => pos = 0
            BY <1>2, <2>1
        <3>2. BegunWhole(Append(Pipeline, Zero), mid, 0)
            BY <1>2, BegunAnew
        <3> QED
            BY <3>1, <3>2
    <2>5. Accounted(delivered, Append(Pipeline, Zero), mid, excused')
        <3>1. Accounted(delivered, Append(Pipeline, Zero), mid, excused)
            BY <1>2, <1>3, WireBytes, AccountedGrows
        <3>2. excused \subseteq excused'
            BY <2>1
        <3> QED
            BY <1>m, <3>1, <3>2
    <2> HIDE DEF P
    <2>6. Goal
        BY <2>1, <2>2, <2>3, <2>4, <2>5
    <2> QED
        BY <1>g, <2>6 DEF P
<1>7. CASE Reset
    <2>1. /\ driver' = Append(driver, Noise) /\ UNCHANGED <<buf, channel, delivered>>
          /\ mid' = mid + 1 /\ pos' = 0 /\ excused' = excused \cup {mid, mid + 1}
        BY <1>7 DEF Reset, endVars
    <2>2. P' = Append(Pipeline, Noise)
        BY <1>1, <2>1, WireBytes, BytesArrive
    <2>3. Sent(Append(Pipeline, Noise), delivered, mid + 1, 0)
        <3>1. Noise.of = 0
            BY DEF Noise
        <3> QED
            BY <1>2, <1>3, <3>1, WireBytes, SentGrows
    <2>4. mid' \in excused'
        BY <2>1
    <2>5. Accounted(delivered, Append(Pipeline, Noise), mid + 1, excused')
        <3>1. Accounted(delivered, Append(Pipeline, Noise), mid, excused)
            BY <1>2, <1>3, WireBytes, AccountedGrows
        <3>2. \A n \in Message : n < mid + 1 => n < mid \/ n = mid
            BY <1>2, <1>b
        <3> QED
            BY <2>1, <3>1, <3>2 DEF Accounted
    <2> HIDE DEF P
    <2>6. Goal
        BY <2>1, <2>2, <2>3, <2>4, <2>5
    <2> QED
        BY <1>g, <2>6 DEF P
<1>8. CASE TakeFrame
    <2>1. PICK x \in ByteSeq, f \in Message \cup {Junk} :
              /\ Pipeline = x \o Pipeline' /\ Decoded(x) = <<f>>
              /\ Decoded(Pipeline) = <<f>> \o Decoded(Pipeline')
              /\ Run(Pipeline') = Run(Pipeline)
              /\ delivered' = Append(delivered, f)
        BY <1>1, <1>8, FrameIsTaken
    <2>2. UNCHANGED <<mid, pos, excused>>
        BY <1>1, <1>8, FrameIsTaken
    <2> DEFINE y == Pipeline'
               r == Decoded(y)
    <2>3. y \in ByteSeq
        <3>1. buf' \in ByteSeq /\ channel' \in ByteSeq /\ driver' \in ByteSeq
            BY <1>1 DEF LinkTypeOK, ByteSeq
        <3> QED
            BY <3>1, BytesOf DEF Pipeline
    <2>4. r \in FrameSeq
        BY <2>3, DecodedTyped
    <2>5. /\ Pipeline = x \o y /\ Decoded(x \o y) = <<f>> \o r /\ Run(y) = Run(Pipeline)
        BY <2>1
    <2> HIDE DEF y
    <2>6. Sent(x \o y, delivered, mid, pos)
        BY <1>3, <2>5, Zenon
    <2>7. Sent(y, Append(delivered, f), mid, pos)
        BY <1>2, <2>1, <2>3, <2>4, <2>5, <2>6, SentTaken
    <2>8. mid \notin excused => BegunWhole(y, mid, pos)
        BY <1>3, <2>5 DEF BegunWhole
    <2>9. Accounted(Append(delivered, f), y, mid, excused)
        <3>1. Append(delivered, f) \o r = delivered \o (<<f>> \o r)
            <4>1. <<f>> \in Seq(Message \cup {Junk})
                OBVIOUS
            <4>2. Append(delivered, f) = delivered \o <<f>>
                BY <1>2, AppendIsConcat DEF FrameSeq
            <4>3. (delivered \o <<f>>) \o r = delivered \o (<<f>> \o r)
                BY <1>2, <2>4, <4>1, ConcatAssociative DEF FrameSeq
            <4> QED
                BY <4>2, <4>3, Zenon
        <3>2. Append(delivered, f) \o Decoded(y) = delivered \o Decoded(Pipeline)
            BY <2>5, <3>1, Zenon
        <3> QED
            BY <1>3, <3>2 DEF Accounted
    <2>10. Goal
        BY <2>1, <2>2, <2>7, <2>8, <2>9 DEF y
    <2> QED
        BY <1>g, <2>10
<1>9. CASE CloseLink
    <2> DEFINE x == buf \o channel
    <2>1. UNCHANGED <<mid, pos, delivered>> /\ Pipeline' = driver /\ Pipeline = x \o driver
        BY <1>1, <1>9, LinkCloses
    <2>2. x \in ByteSeq /\ driver \in ByteSeq
        BY <1>1, PipelineTyped, BytesOf
    <2>3. excused' = excused \cup {m \in Message : m < mid /\ m \notin ToSet(delivered)}
                          \cup (IF pos > 0 THEN {mid} ELSE {})
        BY <1>9 DEF CloseLink
    <2> HIDE DEF x
    <2>4. Sent(driver, delivered, mid, pos)
        <3>1. Sent(x \o driver, delivered, mid, pos)
            BY <1>3, <2>1, Zenon
        <3> QED
            BY <1>2, <2>2, <3>1, SentBehind
    <2>5. mid \notin excused' => BegunWhole(driver, mid, pos)
        <3> SUFFICES ASSUME mid \notin excused' PROVE BegunWhole(driver, mid, pos)
            OBVIOUS
        <3>1. mid \notin excused /\ pos = 0
            BY <1>2, <2>3
        <3>2. BegunWhole(x \o driver, mid, 0)
            BY <1>3, <2>1, <3>1, Zenon
        <3>3. BegunWhole(driver, mid, 0)
            BY <2>2, <3>2, BegunBehind
        <3> QED
            BY <3>1, <3>3, Zenon
    <2>6. Accounted(delivered, driver, mid, excused')
        <3>1. Decoded(driver) \in FrameSeq
            BY <2>2, DecodedTyped
        <3>2. ToSet(delivered) \subseteq ToSet(delivered \o Decoded(driver))
            BY <1>2, <3>1, ToSetConcat DEF FrameSeq
        <3> QED
            BY <2>3, <3>2 DEF Accounted
    <2> HIDE DEF P
    <2>7. P' = driver
        BY <2>1 DEF P
    <2>8. Goal
        BY <2>1, <2>4, <2>5, <2>6, <2>7
    <2> QED
        BY <1>g, <2>8
<1>10. CASE Quiet
    <2>1. Pipeline' = Pipeline /\ UNCHANGED <<mid, pos, delivered, excused>>
        BY <1>1, <1>10, BytesArePassedOn
    <2> HIDE DEF P
    <2>2. P' = Pipeline
        BY <2>1 DEF P
    <2>3. Goal
        BY <1>3, <2>1, <2>2
    <2> QED
        BY <1>g, <2>3
<1> QED
    BY <1>4, <1>5, <1>6, <1>7, <1>8, <1>9, <1>10 DEF LinkNext, Quiet, RecvStep

\* The invariant holds at first.
LEMMA LinkBegins == LinkInit => LinkIInv
<1> SUFFICES ASSUME LinkInit PROVE LinkIInv
    OBVIOUS
<1> USE DEF LinkInit
<1>1. LinkTypeOK
    <2>1. /\ Size \in Nat \ {0} /\ MaxMessages \in Nat /\ MaxFaults \in Nat
          /\ MaxLinks \in Nat
        BY LinkAssumption, LinkBoundsAssumption
    <2>2. 1 \in 1 .. MaxMessages + 1 /\ 0 \in 0 .. Size /\ 0 \in 0 .. MaxFaults /\ 0 \in 0 .. MaxLinks
        BY <2>1
    <2>3. <<>> \in Seq(WireByte) /\ <<>> \in Seq(Message \cup {Junk})
        OBVIOUS
    <2> QED
        BY <2>2, <2>3 DEF LinkTypeOK
<1>2. OneReader
    BY DEF OneReader
<1>3. Pipeline = <<>>
    BY DEF Pipeline
<1>4. Sent(<<>>, <<>>, mid, pos)
    BY DEF Sent, Ascending, Precede, InOrder, WholeLink!InOrder
<1>5. BegunWhole(<<>>, mid, pos)
    BY RunOfNothing DEF BegunWhole
<1>6. Accounted(<<>>, <<>>, mid, excused)
    BY LinkBoundsAssumption DEF Accounted, Message
<1> QED
    BY <1>1, <1>2, <1>3, <1>4, <1>5, <1>6, Zenon DEF LinkIInv

\* The invariant holds in every state of the link, for every number and size of
\* messages, however many bytes are lost or stray, and however often it is opened.
THEOREM LinkInductive == LinkSpec => []LinkIInv
<1>1. LinkInit => LinkIInv
    BY LinkBegins
<1>2. LinkIInv /\ [LinkNext]_linkVars => LinkIInv'
    BY LinkSteps
<1> QED
    BY <1>1, <1>2, PTL DEF LinkSpec

\* DamageIsContained, which the run of MCLink checks: "an undecodable frame costs
\* the frame, not the link".  Every message whose own bytes or delimiters were not
\* damaged, and that was not under way at a close, reaches the loop or is on its way.
THEOREM DamageIsAlwaysContained == LinkSpec => []DamageIsContained
<1>1. LinkIInv => DamageIsContained
    BY DEF LinkIInv, Accounted, DamageIsContained
<1> QED
    BY <1>1, LinkInductive, PTL

-----------------------------------------------------------------------------
(* The link implements the link of whole frames                            *)

LEMMA Behind ==
    ASSUME NEW T, NEW x \in Seq(T), NEW y \in Seq(T)
    PROVE  SubSeq(x \o y, Len(x) + 1, Len(x \o y)) = y
<1> DEFINE a == Len(x)
           c == Len(y)
<1>1. a \in Nat /\ c \in Nat /\ x \o y \in Seq(T) /\ Len(x \o y) = a + c
    BY ConcatProperties
<1>2. CASE c = 0
    <2>1. y = <<>>
        BY <1>2, EmptySeq
    <2>2. SubSeq(x \o y, a + 1, a + c) = <<>>
        <3> HIDE DEF a, c
        <3>1. a + 1 \in Int /\ a + c \in Int /\ a + c < a + 1
            BY <1>1, <1>2
        <3> QED
            BY <3>1, SubSeqEmpty
    <2> QED
        BY <1>1, <2>1, <2>2
<1>3. CASE c # 0
    <2>1. a + 1 \in a + 1 .. a + c /\ a + c \in a + 1 .. a + c
        BY <1>1, <1>3
    <2>2. SubSeq(x \o y, a + 1, a + c) = SubSeq(y, a + 1 - a, a + c - a)
        BY <2>1, SubSeqOfConcat2
    <2>3. a + 1 - a = 1 /\ a + c - a = c
        BY <1>1
    <2>4. SubSeq(y, 1, c) = y
        BY SubSeqFull
    <2>5. SubSeq(x \o y, a + 1, a + c) = y
        BY <2>2, <2>3, <2>4, Zenon
    <2> QED
        BY <1>1, <2>5
<1> QED
    BY <1>2, <1>3

\* An unopened link has no frames on their way.
LEMMA WholeInit == LinkInit => WholeLink!Init
    BY DecodedOfNothing DEF LinkInit, WholeLink!Init, Pipeline

\* Every step of the link of bytes is a step of the link of whole frames, or none.
LEMMA WholeStep ==
    ASSUME LinkIInv, LinkIInv', [LinkNext]_linkVars
    PROVE  [WholeLink!Next]_(WholeLink!vars)
<1>1. LinkTypeOK /\ OneReader
    BY DEF LinkIInv
<1>2. Pipeline \in ByteSeq /\ delivered \in FrameSeq /\ Decoded(Pipeline) \in FrameSeq
    BY <1>1, PipelineTyped, DecodedTyped
<1>3. Pipeline' \in ByteSeq /\ delivered' \in FrameSeq
    <2>1. buf' \in ByteSeq /\ channel' \in ByteSeq /\ driver' \in ByteSeq /\ delivered' \in FrameSeq
        BY DEF LinkIInv, LinkTypeOK, ByteSeq, FrameSeq
    <2> QED
        BY <2>1, BytesOf DEF Pipeline
<1>4. InOrder(delivered' \o Decoded(Pipeline'))
    <2> DEFINE p == Pipeline'
               d == delivered'
    <2>1. p \in ByteSeq /\ d \in FrameSeq /\ Sent(p, d, mid', pos')
        BY <1>3 DEF LinkIInv
    <2> HIDE DEF p, d
    <2>2. InOrder(d \o Decoded(p))
        BY <2>1, AllInOrder DEF Sent
    <2> QED
        BY <2>2 DEF p, d
<1> DEFINE Q == Decoded(Pipeline)
<1>s. Q' = Q /\ delivered' = delivered => UNCHANGED WholeLink!vars
    BY DEF WholeLink!vars
<1>5. ASSUME NEW b \in WireByte, Pipeline' = Append(Pipeline, b), delivered' = delivered
      PROVE  [WholeLink!Next]_(WholeLink!vars)
    <2>1. Q' = IF b = Zero /\ Run(Pipeline) # <<>> THEN Append(Q, Frame(Run(Pipeline))) ELSE Q
        BY <1>2, <1>5, DecodedOfAppend
    <2>2. CASE b = Zero /\ Run(Pipeline) # <<>>
        <3> DEFINE f == Frame(Run(Pipeline))
        <3>1. f \in Message \cup {Junk}
            BY <1>2, RunIs, FrameTyped
        <3>2. Q' = Append(Q, f)
            BY <2>1, <2>2
        <3>3. WholeLink!Arrive(f)
            BY <1>4, <1>5, <3>2 DEF WholeLink!Arrive, InOrder
        <3> HIDE DEF f
        <3> QED
            BY <3>1, <3>3 DEF WholeLink!Next
    <2>3. CASE ~(b = Zero /\ Run(Pipeline) # <<>>)
        BY <1>5, <1>s, <2>1, <2>3
    <2> QED
        BY <2>2, <2>3
<1>6. CASE SendByte
    <2>1. Encoded(mid, pos + 1) \in WireByte
        <3>1. mid \in Message /\ pos + 1 \in 1 .. Size + 1
            BY <1>1, <1>6, LinkAssumption DEF SendByte, Sending, LinkTypeOK
        <3> QED
            BY <3>1, WireBytes
    <2>2. driver' = Append(driver, Encoded(mid, pos + 1)) /\ UNCHANGED <<buf, channel, delivered>>
        BY <1>6 DEF SendByte, endVars
    <2> QED
        BY <1>1, <1>5, <2>1, <2>2, BytesArrive
<1>7. CASE StrayZero
    <2>1. driver' = Append(driver, Zero) /\ UNCHANGED <<buf, channel, delivered>>
        BY <1>7 DEF StrayZero, endVars
    <2> QED
        BY <1>1, <1>5, <2>1, WireBytes, BytesArrive
<1>8. CASE Reset
    <2>1. driver' = Append(driver, Noise) /\ UNCHANGED <<buf, channel, delivered>>
        BY <1>8 DEF Reset, endVars
    <2> QED
        BY <1>1, <1>5, <2>1, WireBytes, BytesArrive
<1>9. CASE LoseByte
    <2>1. UNCHANGED <<buf, channel, driver, delivered>>
        BY <1>9 DEF LoseByte, endVars
    <2>2. Pipeline' = Pipeline
        BY <2>1 DEF Pipeline
    <2> QED
        BY <1>s, <2>1, <2>2
<1>10. CASE Quiet
    <2>1. Pipeline' = Pipeline /\ UNCHANGED delivered
        BY <1>1, <1>10, BytesArePassedOn
    <2> QED
        BY <1>s, <2>1
<1>11. CASE TakeFrame
    <2>1. PICK f \in Message \cup {Junk} :
              Q = <<f>> \o Q' /\ delivered' = Append(delivered, f)
        BY <1>1, <1>11, FrameIsTaken
    <2>2. Q' \in FrameSeq
        BY <1>3, DecodedTyped
    <2> DEFINE r == Q'
    <2>3. Q = <<f>> \o r /\ r \in FrameSeq
        BY <2>1, <2>2
    <2> HIDE DEF Q, r
    <2>4. Q # <<>> /\ Head(Q) = f /\ Tail(Q) = r
        BY <2>3 DEF FrameSeq
    <2> QED
        BY <2>1, <2>4 DEF WholeLink!Next, WholeLink!Deliver, Q, r
<1>12. CASE CloseLink
    <2> DEFINE x == buf \o channel
               y == driver
    <2>1. UNCHANGED delivered /\ Pipeline' = y /\ Pipeline = x \o y
        BY <1>1, <1>12, LinkCloses
    <2>2. x \in ByteSeq /\ y \in ByteSeq
        BY <1>1, PipelineTyped, BytesOf
    <2> HIDE DEF x, y
    <2>3. PICK d \in FrameSeq, r \in FrameSeq : CutAt(x, y, d, r)
        BY <2>2, CutIs
    <2>4. /\ Q = d \o r
          /\ Q' = r \/ (d # <<>> /\ \E f \in Message \cup {Junk} : Q' = <<f>> \o r)
        BY <2>1, <2>3 DEF CutAt, Loses
    <2> DEFINE n == Len(d)
               R == Q'
    <2>5. n \in 0 .. Len(Q) /\ SubSeq(Q, n + 1, Len(Q)) = r /\ (d # <<>> => n > 0)
        <3>1. n \in Nat /\ Len(r) \in Nat /\ Len(d \o r) = n + Len(r) /\ (d # <<>> => n > 0)
            BY EmptySeq, ConcatProperties DEF FrameSeq
        <3>2. SubSeq(d \o r, n + 1, Len(d \o r)) = r
            BY Behind DEF FrameSeq
        <3> HIDE DEF n, Q
        <3> QED
            BY <2>4, <3>1, <3>2
    <2>6. WholeLink!Cut(n)
        <3>1. R = r \/ \E f \in Message \cup {Junk} : n > 0 /\ R = <<f>> \o r
            BY <2>4, <2>5
        <3>2. InOrder(delivered \o R)
            BY <1>4, <2>1
        <3> HIDE DEF n
        <3> QED
            BY <2>1, <2>5, <3>1, <3>2 DEF WholeLink!Cut, InOrder
    <2> HIDE DEF n
    <2> QED
        BY <2>5, <2>6 DEF WholeLink!Next
<1> QED
    BY <1>6, <1>7, <1>8, <1>9, <1>10, <1>11, <1>12 DEF LinkNext, Quiet, RecvStep

\* WholeFrames, which the run of MCLink checks: the link with its thread, channel and
\* buffer implements the link of whole frames, so what recv gives the loop comes once
\* and in the order it was sent, and a link opened anew is robbed by no older thread.
THEOREM LinkIsWhole == LinkSpec => WholeFrames
<1>1. LinkInit => WholeLink!Init
    BY WholeInit
<1>2. LinkIInv /\ LinkIInv' /\ [LinkNext]_linkVars => [WholeLink!Next]_(WholeLink!vars)
    BY WholeStep
<1> QED
    BY <1>1, <1>2, LinkInductive, PTL DEF LinkSpec, WholeFrames, WholeLink!Spec
==============================================================================
