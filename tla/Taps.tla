-------------------------------- MODULE Taps --------------------------------
(***************************************************************************)
(* The studies' own taps on a signal (study.rs, StudyTaps of               *)
(* host_study.rs) beside the captures, exchanges and DELETEs of Captures.  *)
(*                                                                         *)
(* A bench study reads the signal's port with a thread of its own: no      *)
(* record, no jobs, and the port claimed once the thread is up.  A host    *)
(* study's tap is a capture that the study starts, stops, and says the end *)
(* of in its record; DELETE and the exchanges reach it like any other.     *)
(* study_lock lets one study have taps at a time.                          *)
(***************************************************************************)
EXTENDS Captures

CONSTANTS
    Bench,      \* bench studies that tap the signal
    Host        \* host studies that tap it, and their captures

ASSUME StudyAssumption ==
    /\ Host \subseteq Capture
    /\ Bench \cap (Capture \cup Exchange \cup {Nobody}) = {}

VARIABLES
    tap,        \* where each bench study is with its tap
    reader,     \* what each bench study's reader thread does
    run,        \* where each host study is
    endedAs,    \* the State that each host study's capture ended in, until it is said
    cut,        \* host studies whose capture was over, undeleted, before they were
    said        \* what each host study's record says of its tap

tapVars == <<tap, reader, run, endedAs, cut, said>>
allVars == <<vars, tapVars>>

Study == Bench \cup Host
Alone(a) == a /\ UNCHANGED tapVars

TapInit ==
    /\ Init
    /\ tap = [b \in Bench |-> "none"]
    /\ reader = [b \in Bench |-> "none"]
    /\ run = [h \in Host |-> "none"]
    /\ endedAs = [h \in Host |-> "none"]
    /\ cut = {}
    /\ said = [h \in Host |-> "nothing"]

-----------------------------------------------------------------------------
(* Bench studies                                                           *)

\* study_lock: no study is between its admission and its end.
Unlocked ==
    /\ \A b \in Bench : tap[b] \in {"none", "over"}
    /\ \A h \in Host : run[h] \in {"none", "over"}

\* POST /study: a capture that runs by now refuses it, a later one does not.
AdmitTap(b) ==
    /\ tap[b] = "none" /\ Unlocked
    /\ tap' = [tap EXCEPT ![b] = IF Running(registry) THEN "over" ELSE "admitted"]
    /\ UNCHANGED <<vars, reader, run, endedAs, cut, said>>

\* The scope's first step: the port opens, what it had buffered is thrown
\* away, and the reader thread starts.
OpenTap(b) ==
    /\ tap[b] = "admitted" /\ owner = Nobody
    /\ owner' = b
    /\ tap' = [tap EXCEPT ![b] = "opened"]
    /\ reader' = [reader EXCEPT ![b] = "reading"]
    /\ UNCHANGED <<claims, registry, state, held, stopping, jobs, busy, exchangeVars, deleting>>
    /\ UNCHANGED <<run, endedAs, cut, said>>

\* The port does not open, which fails the study, or the study ends before
\* the scope.
NeverOpens(b) ==
    /\ tap[b] = "admitted"
    /\ tap' = [tap EXCEPT ![b] = "over"]
    /\ UNCHANGED <<vars, reader, run, endedAs, cut, said>>

\* The claim comes after the thread.
ClaimTap(b) ==
    /\ tap[b] = "opened"
    /\ claims' = claims \cup {b}
    /\ tap' = [tap EXCEPT ![b] = "tapping"]
    /\ UNCHANGED <<owner, registry, state, held, stopping, jobs, busy, exchangeVars, deleting>>
    /\ UNCHANGED <<reader, run, endedAs, cut, said>>

\* read_signal_tap returns and drops the port: a read failed, or it saw the
\* flag.  Nothing opens the port again for this tap.
ReaderEnds(b) ==
    /\ reader[b] = "reading"
    /\ reader' = [reader EXCEPT ![b] = "ended"]
    /\ owner' = Nobody
    /\ UNCHANGED <<claims, registry, state, held, stopping, jobs, busy, exchangeVars, deleting>>
    /\ UNCHANGED <<tap, run, endedAs, cut, said>>

\* Mutant: the claim is dropped as the thread is asked to stop.
EndScopeUnclaiming(b) ==
    /\ tap[b] = "tapping"
    /\ tap' = [tap EXCEPT ![b] = "joining"]
    /\ claims' = claims \ {b}
    /\ UNCHANGED <<owner, registry, state, held, stopping, jobs, busy, exchangeVars, deleting>>
    /\ UNCHANGED <<reader, run, endedAs, cut, said>>

\* The scope's last step is over, or the study, and the thread is told.
EndScope(b) ==
    /\ tap[b] = "tapping"
    /\ tap' = [tap EXCEPT ![b] = "joining"]
    /\ UNCHANGED <<vars, reader, run, endedAs, cut, said>>

\* The thread is joined, and the claim drops.
Join(b) ==
    /\ tap[b] = "joining" /\ reader[b] = "ended"
    /\ claims' = claims \ {b}
    /\ tap' = [tap EXCEPT ![b] = "over"]
    /\ reader' = [reader EXCEPT ![b] = "none"]
    /\ UNCHANGED <<owner, registry, state, held, stopping, jobs, busy, exchangeVars, deleting>>
    /\ UNCHANGED <<run, endedAs, cut, said>>

-----------------------------------------------------------------------------
(* Host studies                                                            *)

\* StudyTaps::start looks at the claims, not at the registry, before it
\* claims the port; then Claim, and Start or StartFails.
HostCheck(h) ==
    /\ run[h] = "none" /\ state[h] = "none" /\ Unlocked
    /\ To(h, IF claims # {} THEN "refused" ELSE "checked")
    /\ run' = [run EXCEPT ![h] = IF claims # {} THEN "over" ELSE "starting"]
    /\ UNCHANGED <<owner, claims, registry, held, stopping, jobs, busy, exchangeVars, deleting>>
    /\ UNCHANGED <<tap, reader, endedAs, cut, said>>

\* The tap could not be started, and the study never begins.
HostRefused(h) ==
    /\ run[h] = "starting"
    /\ StartFails(h)
    /\ run' = [run EXCEPT ![h] = "over"]
    /\ UNCHANGED <<tap, reader, endedAs, cut, said>>

HostStart(h) ==
    /\ run[h] = "starting"
    /\ Start(h)
    /\ run' = [run EXCEPT ![h] = "tapping"]
    /\ UNCHANGED <<tap, reader, endedAs, cut, said>>

\* The thread ends as any capture's does, and its State stays.
TapFinishes(h) ==
    /\ Finish(h)
    /\ endedAs' = [endedAs EXCEPT ![h] = IF run[h] = "over" THEN @ ELSE state'[h]]
    /\ UNCHANGED <<tap, reader, run, cut, said>>

\* StudyTaps::shutdown, by finish or by the drop.
Shutdown(h) ==
    /\ run[h] = "tapping"
    /\ run' = [run EXCEPT ![h] = "waiting"]
    /\ stopping' = stopping \cup {h}
    /\ cut' = IF Running(h) \/ h \in stopping THEN cut ELSE cut \cup {h}
    /\ UNCHANGED <<owner, claims, registry, state, held, jobs, busy, exchangeVars, deleting>>
    /\ UNCHANGED <<tap, reader, endedAs, said>>

\* Mutant: a tap whose thread is over was heard to its end.
WholeOnceOver(h) == ~Running(h)

\* `stopped` is the normal end; any other State is truncated in the record.
Whole(h) == endedAs[h] = "stopped"

\* Mutant: the signal's record goes, whosever it is by now.
RecordAfterAny(h) == IF h \in Host THEN Nobody ELSE registry

\* Only the study's own capture leaves the registry.
RecordAfter(h) == IF registry = h THEN Nobody ELSE registry

\* The thread is over, or was not within two seconds, in a job or an opener;
\* the study keeps nothing of its taps but what its record says.
FinishTaps(h) ==
    /\ run[h] = "waiting"
    /\ Running(h) => busy[h] # Nobody \/ state[h] = "reopening"
    /\ run' = [run EXCEPT ![h] = "over"]
    /\ registry' = RecordAfter(h)
    /\ said' = [said EXCEPT ![h] = IF Whole(h) THEN "whole" ELSE "truncated"]
    /\ endedAs' = [endedAs EXCEPT ![h] = "none"]
    /\ cut' = cut \ {h}
    /\ UNCHANGED <<owner, claims, state, held, stopping, jobs, busy, exchangeVars, deleting>>
    /\ UNCHANGED <<tap, reader>>

-----------------------------------------------------------------------------

BenchStep(b) ==
    \/ AdmitTap(b)
    \/ OpenTap(b)
    \/ NeverOpens(b)
    \/ ClaimTap(b)
    \/ ReaderEnds(b)
    \/ EndScope(b)
    \/ Join(b)

HostStep(h) ==
    \/ HostCheck(h)
    \/ Alone(Claim(h))
    \/ HostRefused(h)
    \/ HostStart(h)
    \/ TapFinishes(h)
    \/ Shutdown(h)
    \/ FinishTaps(h)

TapNext ==
    \/ \E b \in Bench : BenchStep(b)
    \/ \E h \in Host : HostStep(h)
    \/ \E c \in Capture \ Host : Alone(PostStep(c)) \/ Alone(Finish(c))
    \/ \E c \in Capture : Alone(ThreadGoesOn(c))
    \/ \E x \in Exchange : Alone(ExchangeStep(x))
    \/ \E d \in Delete : Alone(Stop(d)) \/ Alone(RemoveRecord(d))

TapSpec == TapInit /\ [][TapNext]_allVars

(* Handlers go on, timers fire and drops run to their end; a deadline      *)
(* comes, and a thread that is at the top of its loop sees it; an exchange *)
(* through a capture ends (Dialogs).  Studies end: their run loop's        *)
(* deadlines and the executor's budgets see to that.                       *)
TapFairness ==
    /\ \A c \in Capture :
        /\ WF_allVars(Alone(JobDone(c)))
        /\ WF_allVars(Alone(Unclaim(c))) /\ WF_allVars(Alone(Close(c)))
    /\ \A c \in Capture \ Host :
        /\ WF_allVars(Alone(Claim(c) \/ StartFails(c) \/ Start(c)))
        /\ WF_allVars(Alone(Finish(c)))
    /\ \A b \in Bench :
        /\ WF_allVars(OpenTap(b) \/ NeverOpens(b)) /\ WF_allVars(ClaimTap(b))
        /\ WF_allVars(EndScope(b)) /\ WF_allVars(Join(b))
        /\ WF_allVars(tap[b] = "joining" /\ ReaderEnds(b))
    /\ \A h \in Host :
        /\ WF_allVars(Alone(Claim(h)) \/ HostRefused(h) \/ HostStart(h))
        /\ WF_allVars(TapFinishes(h))

FairTapSpec == TapSpec /\ TapFairness

-----------------------------------------------------------------------------
(* Properties                                                              *)

\* "POST /bootload never sees the port as free while the thread still has it
\* open": a capture's port is claimed while it records, and a bench study's
\* from its claim on until the port is closed.
OpenPortsAreClaimed ==
    /\ \A c \in Capture : owner = c /\ state[c] \in Recording => c \in claims
    /\ \A b \in Bench : owner = b /\ tap[b] # "opened" => b \in claims

\* No capture and no study keeps a port or its claim: not a capture somebody
\* forgot, one that lost its port or was never started, nor a tap whose reader
\* died in the middle of its study.
PortsAreLetGo ==
    \A o \in Capture \cup Bench :
        (o \in claims \/ owner = o) ~> (o \notin claims /\ owner # o)

\* A host study's record says that a tap ended before its study did, unless a
\* DELETE is what ended it.
EarlyEndsAreSaid ==
    [][\A h \in cut : said'[h] # said[h] => said'[h] = "truncated"]_allVars

\* A capture that somebody POSTed stays in the registry while it records,
\* whatever studies come and go on its signal, until a DELETE's turn.
OthersRecordsStay ==
    [][\A c \in Capture \ Host :
        Running(c) /\ registry = c /\ registry' # c => deleting' # deleting]_allVars
=============================================================================
