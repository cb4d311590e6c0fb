------------------------------ MODULE Dialogs ------------------------------
(***************************************************************************)
(* Core's talk with a device over a serial port (src/src/exchange.rs,      *)
(* instrument.rs, serial.rs): a console's command and its reply, an        *)
(* instrument's flush line, command and reply, and a console's log.  Each  *)
(* dialog holds hw_lock, so that they come one after the other; they are   *)
(* with one device, and pacing holds across them.                          *)
(*                                                                         *)
(* Time goes in ticks of READ_POLL, which is a little more than QUIET_GAP; *)
(* IDLE_SLEEP is no time.  A port may take the rest of a line a byte at a  *)
(* time after the deadline, and flushing it has no deadline at all.  The   *)
(* device says what it wants when it wants.                                *)
(***************************************************************************)
EXTENDS Naturals, Sequences, SequencesExt, FiniteSetsExt

CONSTANTS
    Dialog,         \* the kinds of dialog: "console", "query", "set", "log"
    Cell,           \* what a console's bytes tell apart
    Byte,           \* what an instrument's and a log's do
    NewLine,        \* the cell that ends a line, and an instrument's terminators
    Command, Until, \* the line of a dialog, without its ending; a console's marker
    Timeout, PortWait, FlushWait, MinInterval,  \* in ticks
    LogPoll,        \* the ticks a log's read waits
    MaxRead,        \* the ceiling on what one exchange reads, in cells
    MaxCells, MaxDialogs,   \* how much the device says, how many dialogs there are
    MaxOverrun,     \* the ticks that writing and flushing take past a deadline
    None            \* not found

ASSUME DialogsAssumption ==
    /\ Dialog \subseteq {"console", "query", "set", "log"}
    /\ Timeout \in Nat \ {0} /\ FlushWait \in Nat \ {0} /\ LogPoll \in Nat \ {0}
    /\ PortWait \in Nat /\ MinInterval \in Nat /\ MaxOverrun \in Nat
    /\ MaxRead \in Nat \ {0} /\ None \notin Nat
    /\ Until \in Seq(Cell) \ {<<>>} /\ Command \in Seq(Cell) \ {<<>>}

VARIABLES
    kind,       \* what kind of dialog it is
    step,       \* where it is
    afterEcho,  \* match_after_echo
    left,       \* the ticks until the step's deadline
    wait,       \* the port's per-call timeout, in ticks
    sent,       \* how much of the line went out
    draining,   \* port.flush() is under way
    got,        \* what the exchange read
    searchFrom, matchedEnd,     \* exchange_with's
    answer,     \* what the last exchange came to
    lastSent,   \* the ticks since the instrument was marked, as far as they matter
    inbox,      \* what the device said and Core has not read
    dialogs,    \* the dialogs begun so far
    spent,      \* the ticks the step has taken
    overrun,    \* those that writing and flushing took after its deadline
    rest,       \* the ticks since an exchange with the device came to its end
    pause,      \* the ticks since the device spoke: 0 or 1
    fresh,      \* the ticks since the flush line's exchange began, to FLUSH_WAIT
    flushed,    \* what the device said to the flush line
    replied,    \* what it said to the command
    untidy      \* it said more to the flush line than one line in FLUSH_WAIT

searchVars == <<searchFrom, matchedEnd>>
writeVars == <<wait, sent, draining, overrun>>
ghosts == <<spent, rest, pause, fresh, flushed, replied, untidy>>
clocks == <<left, spent, lastSent, rest, fresh>>
dialogVars == <<kind, step, afterEcho, writeVars, got, searchVars, answer, inbox, dialogs,
                left, lastSent, ghosts>>

Exchanging == {"console", "flush", "command"}   \* within exchange_with
Instrument == {"query", "set"}
Over == {"idle", "done", "failed"}

\* The line of a step: the flush line is the terminator alone.
Line == IF step = "flush" THEN <<NewLine>> ELSE Append(Command, NewLine)
Marker == IF kind = "console" THEN Until ELSE <<NewLine>>
Budget == CASE step = "flush" -> FlushWait
            [] step = "finding" -> PortWait
            [] OTHER -> Timeout

\* find: the index, from 0, where needle starts in hay at or after from.
Find(hay, needle, from) ==
    LET hits == {i \in from .. Len(hay) - 1 : IsPrefix(needle, SubSeq(hay, i + 1, Len(hay)))}
    IN  IF hits = {} THEN None ELSE Min(hits)

After(found, needle) == IF found = None THEN None ELSE found + Len(needle)

DialogInit ==
    /\ kind \in Dialog /\ step = "idle" /\ afterEcho = TRUE
    /\ left = 0 /\ wait = 1 /\ sent = 0 /\ draining = FALSE /\ overrun = 0
    /\ got = <<>> /\ searchFrom = None /\ matchedEnd = None
    /\ answer = "none"
    /\ lastSent = MinInterval
    /\ inbox = <<>> /\ dialogs = 0
    /\ spent = 0 /\ rest = MinInterval /\ pause = 1 /\ fresh = FlushWait
    /\ flushed = <<>> /\ replied = <<>> /\ untidy = FALSE

\* Durations saturate where nothing looks any further.
Spend(k) ==
    /\ left' = IF k > left THEN 0 ELSE left - k
    /\ spent' = spent + k
    /\ fresh' = Min({fresh + k, FlushWait})

Age(k) ==
    /\ lastSent' = Min({lastSent + k, MinInterval})
    /\ rest' = Min({rest + k, MinInterval})

Elapse(k) == Spend(k) /\ Age(k)

-----------------------------------------------------------------------------
(* The device                                                              *)

\* It says a cell more, to the last line it heard or to one before it.
Speak(cell) ==
    /\ Len(inbox) + Len(got) + (IF step = "command" THEN Len(flushed) ELSE 0) < MaxCells
    /\ step \notin Over \cup {"finding"} /\ answer # "lost"
    /\ cell \in IF kind = "console" THEN Cell ELSE Byte
    /\ inbox' = Append(inbox, cell)
    /\ pause' = 0
    /\ \/ /\ step = "command" /\ sent = Len(Line)
          /\ replied' = Append(replied, cell)
          /\ UNCHANGED <<flushed, untidy>>
       \/ /\ \/ step = "flush" /\ sent = Len(Line)
             \/ step = "pace_command"
             \/ step = "command" /\ sent < Len(Line)
          /\ untidy' = (untidy \/ NewLine \in ToSet(flushed) \/ fresh >= FlushWait
                            \/ Len(flushed) + 1 >= MaxRead)
          /\ flushed' = Append(flushed, cell)
          /\ UNCHANGED replied
       \/ /\ untidy' = TRUE
          /\ UNCHANGED <<flushed, replied>>
    /\ UNCHANGED <<kind, step, afterEcho, writeVars, got, searchVars, answer, dialogs, clocks>>

-----------------------------------------------------------------------------
(* Opening the port                                                        *)

\* A dialog begins once hw_lock is its own.
Begin(k) ==
    /\ step \in Over /\ dialogs < MaxDialogs
    /\ kind' = k /\ step' = "finding"
    /\ \/ afterEcho' = FALSE
       \/ k = "console" /\ afterEcho' = TRUE
    /\ left' = PortWait /\ spent' = 0 /\ overrun' = 0
    /\ dialogs' = dialogs + 1
    /\ got' = <<>> /\ sent' = 0 /\ inbox' = <<>> /\ answer' = "none"
    /\ searchFrom' = None /\ matchedEnd' = None
    /\ flushed' = <<>> /\ replied' = <<>> /\ untidy' = FALSE
    /\ UNCHANGED <<wait, draining, lastSent, rest, pause, fresh>>

\* resolve_port_waiting, find_port_waiting: the port is not enumerated, and
\* is looked for again until the wait is over; or it is ambiguous.
Absent ==
    /\ step = "finding"
    /\ \/ left > 0 /\ Elapse(1) /\ UNCHANGED <<step, answer>>
       \/ step' = "failed" /\ answer' = "not_written" /\ UNCHANGED clocks
    /\ UNCHANGED <<kind, afterEcho, writeVars, got, searchVars, inbox, dialogs,
                   pause, flushed, replied, untidy>>

\* The exchange that a step runs begins.
Commence(s, budget) ==
    /\ step' = s
    /\ left' = budget /\ spent' = 0 /\ overrun' = 0
    /\ sent' = 0 /\ got' = <<>>
    /\ searchFrom' = IF afterEcho THEN None ELSE 0
    /\ matchedEnd' = None

\* Pending input is dropped; a console's may be kept, and a log's is.
Open ==
    /\ step = "finding"
    /\ CASE kind = "console" -> Commence("console", Timeout)
         [] kind = "log" -> Commence("log", Timeout)
         [] kind \in Instrument -> Commence("pace_flush", 0)
    /\ wait' = IF kind = "log" THEN LogPoll ELSE 1
    /\ \/ inbox' = <<>>
       \/ \E cell \in Byte : kind \in {"console", "log"} /\ inbox' = <<cell>>
    /\ UNCHANGED <<kind, afterEcho, draining, answer, dialogs, lastSent, rest, pause, fresh,
                   flushed, replied, untidy>>

\* pace: sleeps out what is left of min_interval.
Pace ==
    /\ step \in {"pace_flush", "pace_command"}
    /\ IF lastSent < MinInterval
       THEN /\ Age(1)
            /\ fresh' = Min({fresh + 1, FlushWait})
            /\ UNCHANGED <<step, left, spent, overrun, sent, got, searchVars, pause>>
       ELSE /\ IF step = "pace_flush" THEN Commence("flush", FlushWait)
                                      ELSE Commence("command", Timeout)
            /\ fresh' = IF step = "pace_flush" THEN 0 ELSE fresh
            /\ UNCHANGED <<lastSent, rest, pause>>
    /\ UNCHANGED <<kind, afterEcho, wait, draining, answer, inbox, dialogs, flushed, replied,
                   untidy>>

-----------------------------------------------------------------------------
(* write_with_deadline, and the flush behind it                            *)

\* To a port that went away nothing is written any more.
Writing == step \in Exchanging /\ sent < Len(Line)

Fail(why) == step' = "failed" /\ answer' = why

\* mark_exchanged.
Mark == lastSent' = IF kind \in Instrument THEN 0 ELSE lastSent

\* An exchange has come to its end, and the step with it; after the flush
\* line's comes the command.
Conclude(what) ==
    /\ answer' = what
    /\ step' = IF step = "flush" THEN "pace_command" ELSE "done"
    /\ Mark
    /\ rest' = IF kind \in Instrument THEN 0 ELSE rest

\* A set that is not acknowledged has no reply.
Unread == kind = "set" /\ step = "command"

\* k ticks pass in a call that takes what is left, or that is late already.
Outlast(k) ==
    /\ Elapse(k)
    /\ IF left = 0 THEN overrun + k <= MaxOverrun /\ overrun' = overrun + k
                   ELSE k <= left /\ UNCHANGED overrun

\* The port takes n cells more.  A write that moves is never given up: the
\* deadline is looked at when one stalls, and a late call may take a
\* millisecond for each byte.  Once the line is whole the port is flushed.
Write(n, k) ==
    /\ Writing /\ answer # "lost" /\ n \in 1 .. Len(Line) - sent
    /\ Outlast(k)
    /\ sent' = sent + n /\ draining' = (sent' = Len(Line))
    /\ wait' = left
    /\ UNCHANGED <<kind, step, afterEcho, got, searchVars, answer, inbox, dialogs, pause,
                   flushed, replied, untidy>>

\* A throttled device; past the deadline the write is given up.
Stall(k) ==
    /\ Writing /\ answer # "lost" /\ k <= left
    /\ Elapse(k)
    /\ IF k = left THEN Fail(IF sent = 0 THEN "not_written" ELSE "cut")
                   ELSE UNCHANGED <<step, answer>>
    /\ wait' = left
    /\ UNCHANGED <<kind, afterEcho, sent, draining, overrun, got, searchVars, inbox, dialogs,
                   pause, flushed, replied, untidy>>

WriteFails ==
    /\ Writing
    /\ Fail(IF sent = 0 THEN "not_written" ELSE "cut")
    /\ UNCHANGED <<kind, afterEcho, writeVars, got, searchVars, inbox, dialogs, left,
                   lastSent, ghosts>>

\* flush() waits for the port to send what it took, however long that is.
Drain ==
    /\ draining
    /\ Outlast(1)
    /\ UNCHANGED <<kind, step, afterEcho, wait, sent, draining, got, searchVars, answer, inbox,
                   dialogs, pause, flushed, replied, untidy>>

\* Then what is read back is polled for.
Drained ==
    /\ draining /\ draining' = FALSE
    /\ IF Unread THEN Conclude("written") /\ UNCHANGED wait
                 ELSE wait' = 1 /\ UNCHANGED <<step, answer, lastSent, rest>>
    /\ UNCHANGED <<kind, afterEcho, sent, overrun, got, searchVars, inbox, dialogs, left,
                   spent, pause, fresh, flushed, replied, untidy>>

FlushFails ==
    /\ draining /\ draining' = FALSE
    /\ Fail("perhaps_written")
    /\ UNCHANGED <<kind, afterEcho, wait, sent, overrun, got, searchVars, inbox, dialogs, left,
                   lastSent, ghosts>>

-----------------------------------------------------------------------------
(* The read loop of exchange_with                                          *)

Reading == step \in Exchanging /\ sent = Len(Line) /\ ~draining

\* Mutant: the marker is looked for in what this read brought alone.
SearchLatest(bytes, fromEcho) ==
    IF fromEcho = None THEN None
    ELSE After(Find(bytes, Marker, Max({fromEcho, Len(got)})), Marker)

Search(bytes, fromEcho) ==
    IF fromEcho = None THEN None ELSE After(Find(bytes, Marker, fromEcho), Marker)

\* Mutant: the first prompt ends the read.
LineEndsAtOnce(bytes, end) == TRUE

\* After a marker in mid-line the rest of its line is read too.
LineEnds(bytes, end) == NewLine \in ToSet(SubSeq(bytes, end + 1, Len(bytes)))

\* Mutant: the deadline is looked at when nothing came.
VerdictWhenSilent(bytes, end, silent, budget) ==
    CASE Len(bytes) >= MaxRead -> IF end # None THEN "seen_truncated" ELSE "truncated"
      [] Len(bytes) < MaxRead /\ end # None /\ (silent \/ LineEnds(bytes, end)) -> "seen"
      [] Len(bytes) < MaxRead /\ end = None /\ silent /\ budget = 0 -> "late"
      [] OTHER -> ""

\* What a pass comes to, "" if another one follows.
Verdict(bytes, end, silent, budget) ==
    CASE Len(bytes) >= MaxRead -> IF end # None THEN "seen_truncated" ELSE "truncated"
      [] Len(bytes) < MaxRead /\ end # None /\ (silent \/ LineEnds(bytes, end) \/ budget = 0) -> "seen"
      [] Len(bytes) < MaxRead /\ end = None /\ budget = 0 -> "late"
      [] OTHER -> ""

Pass(verdict, k) ==
    IF verdict = "" THEN Age(k) /\ UNCHANGED <<step, answer>> ELSE Conclude(verdict)

\* The read returns what the port has, as far as the reply may grow.
ReadSome(k) ==
    LET bytes == got \o SubSeq(inbox, 1, Min({Len(inbox), MaxRead - Len(got)}))
        fromEcho == IF searchFrom = None THEN After(Find(bytes, Command, 0), Command)
                                         ELSE searchFrom
        end == IF matchedEnd = None THEN Search(bytes, fromEcho) ELSE matchedEnd
    IN
    /\ Reading /\ inbox # <<>>
    /\ got' = bytes /\ inbox' = <<>>
    /\ searchFrom' = fromEcho /\ matchedEnd' = end
    /\ Spend(k)
    /\ Pass(Verdict(bytes, end, FALSE, left'), k)
    /\ UNCHANGED <<kind, afterEcho, writeVars, dialogs, pause, flushed, replied, untidy>>

\* The port's timeout passes: READ_POLL is more than QUIET_GAP.
ReadNothing ==
    /\ Reading /\ inbox = <<>>
    /\ pause' = 1
    /\ Spend(wait)
    /\ Pass(Verdict(got, matchedEnd, TRUE, left'), wait)
    /\ UNCHANGED <<kind, afterEcho, writeVars, got, searchVars, inbox, dialogs,
                   flushed, replied, untidy>>

\* The port goes away after the line was written: no error.
LoseDevice ==
    /\ Reading
    /\ Conclude("lost")
    /\ UNCHANGED <<kind, afterEcho, writeVars, got, searchVars, inbox, dialogs, left,
                   spent, pause, fresh, flushed, replied, untidy>>

-----------------------------------------------------------------------------
(* The read loop of /serial-log                                            *)

Unmarked ==
    UNCHANGED <<kind, afterEcho, writeVars, searchVars, dialogs, flushed, replied, untidy>>

LogFull ==
    /\ step = "log" /\ left > 0 /\ Len(got) >= MaxRead
    /\ step' = "done" /\ answer' = "truncated"
    /\ UNCHANGED <<got, inbox, clocks, pause>> /\ Unmarked

LogSome(k) ==
    LET room == MaxRead - Len(got) IN
    /\ step = "log" /\ left > 0 /\ room > 0 /\ inbox # <<>> /\ k \in 0 .. LogPoll
    /\ Elapse(k)
    /\ got' = got \o SubSeq(inbox, 1, Min({Len(inbox), room}))
    /\ inbox' = <<>>
    /\ IF Len(inbox) > room THEN step' = "done" /\ answer' = "truncated"
                            ELSE UNCHANGED <<step, answer>>
    /\ UNCHANGED pause /\ Unmarked

LogNothing ==
    /\ step = "log" /\ left > 0 /\ Len(got) < MaxRead /\ inbox = <<>>
    /\ Elapse(wait) /\ pause' = 1
    /\ UNCHANGED <<step, answer, got, inbox>> /\ Unmarked

LogFails ==
    /\ step = "log"
    /\ step' = "failed" /\ answer' = "lost"
    /\ UNCHANGED <<got, inbox, clocks, pause>> /\ Unmarked

LogOver ==
    /\ step = "log" /\ left = 0
    /\ step' = "done" /\ answer' = "late"
    /\ UNCHANGED <<got, inbox, clocks, pause>> /\ Unmarked

-----------------------------------------------------------------------------

LogStep ==
    \/ LogFull
    \/ \E k \in 0 .. LogPoll : LogSome(k)
    \/ LogNothing
    \/ LogFails
    \/ LogOver

DialogNext ==
    \/ \E cell \in Cell : Speak(cell)
    \/ \E k \in Dialog : Begin(k)
    \/ Absent
    \/ Open
    \/ Pace
    \/ \E n \in 1 .. Len(Command) + 1, k \in 0 .. Max({Timeout, FlushWait, MaxOverrun}) :
          Write(n, k)
    \/ \E k \in 0 .. Max({Timeout, FlushWait}) : Stall(k)
    \/ WriteFails
    \/ Drain
    \/ Drained
    \/ FlushFails
    \/ \E k \in 0 .. 1 : ReadSome(k)
    \/ ReadNothing
    \/ LoseDevice
    \/ LogStep

DialogSpec == DialogInit /\ [][DialogNext]_dialogVars

-----------------------------------------------------------------------------
(* Properties                                                              *)

Has(bytes, needle, i) ==
    /\ i + Len(needle) <= Len(bytes)
    /\ SubSeq(bytes, i + 1, i + Len(needle)) = needle

\* Where the marker is in the whole reply; behind an echo, if it has to be.
Markers(bytes, marker, behindEcho) ==
    {j \in 0 .. Len(bytes) :
        /\ Has(bytes, marker, j)
        /\ behindEcho => \E i \in 0 .. j : Has(bytes, Command, i) /\ i + Len(Command) <= j}

ReadBack == step \in {"pace_command", "done"} /\ kind # "log" /\ answer \notin {"written", "lost"}

\* until_seen is what a look at the whole reply would say, however its bytes
\* were cut up by the reads: a prompt that was printed before the echo of the
\* command is not the command's.  And an instrument that answers the flush line
\* with at most one line, in time, has its reply to the command taken for that and
\* nothing else.
ReplyIsTheCommands ==
    ReadBack =>
        /\ answer \in {"seen", "seen_truncated"} <=> Markers(got, Marker, afterEcho) # {}
        /\ step = "done" /\ kind = "query" /\ ~untidy => IsPrefix(got, replied)

\* Before its time an exchange ends at a marker alone, and not in the middle
\* of what follows on it in one burst: the line is over or the port is quiet.
EarlyEndsAreEarned ==
    ReadBack /\ step = "done" /\ left > 0 /\ Len(got) < MaxRead =>
        /\ Markers(got, Marker, afterEcho) # {} /\ inbox = <<>>
        /\ \/ pause = 1
           \/ \E j \in Markers(got, Marker, afterEcho), n \in 1 .. Len(got) :
                 n > j + 1 /\ got[n] = NewLine

\* What an exchange takes past its time is what its port took for the line, and
\* at most one read poll more: neither a device that says nothing nor one that
\* never stops keeps the reads going.  A wait for a port ends with its time, and
\* a log with one read more.
EndsInTime ==
    /\ step \in {"finding", "console", "flush", "command"} => spent <= Budget + overrun
    /\ step = "pace_command" => spent <= FlushWait + overrun + 1
    /\ step = "log" => spent <= Timeout + LogPoll
    /\ step = "done" => spent <= Timeout + IF kind = "log" THEN LogPoll ELSE overrun + 1
    /\ step = "failed" =>
          \/ spent <= Max({PortWait, FlushWait, Timeout}) + overrun
          \/ kind = "log" /\ spent <= Timeout + LogPoll

\* "One `timeout` covers the write and the read together, so an exchange ends
\* within `timeout` plus one read poll": so says exchange_with, and hw_lock
\* would not be held for longer.  Not so with a port that is slow to take a line.
ExchangesEndInTime ==
    step \in Exchanging \cup {"done"} /\ kind # "log" => spent <= Budget + 1

\* No line goes to an instrument before min_interval has passed since the last
\* exchange with it came to its end, this dialog's or one before it.
Paced ==
    [][(step \in {"flush", "command"} /\ sent = 0 /\ sent' > 0) => (rest >= MinInterval)]_dialogVars
=============================================================================
