------------------------------ MODULE Captures ------------------------------
(***************************************************************************)
(* The background captures of one signal in embarch-core                   *)
(* (src/src/capture.rs, the capture routes of api.rs, TapPorts of          *)
(* study.rs): POST starts a thread that owns the signal's serial port      *)
(* until it is stopped or at a limit, exchanges on the signal go through   *)
(* that thread, and DELETE stops it and drops its record.                  *)
(*                                                                         *)
(* A Capture is one POST and, once it succeeds, its thread.  The routes    *)
(* take no common lock, and an exchange whose client hung up goes on       *)
(* beside the next one, so everybody's steps interleave; Taps composes     *)
(* them with the studies' taps on the signal.                              *)
(***************************************************************************)
EXTENDS Naturals, Sequences, SequencesExt

CONSTANTS
    Capture,    \* POSTs, and the captures they start
    Exchange,   \* exchanges on the signal
    Delete,     \* DELETEs
    Nobody,     \* a free port, no record
    MaxBytes    \* max_bytes, in reads

ASSUME CaptureAssumption ==
    /\ Capture \cap Exchange = {}
    /\ Nobody \notin Capture \cup Exchange
    /\ MaxBytes \in Nat \ {0}

VARIABLES
    owner,      \* who has the serial port open: the OS lets one do so
    claims,     \* tap_ports: the captures that claim the port by name
    registry,   \* CaptureRegistry: the signal's capture
    state,      \* each POST's progress, then its capture's State
    held,       \* how much a recording capture's buffer holds, markers included
    stopping,   \* captures whose stop flag is set
    jobs,       \* each capture's channel of exchanges
    busy,       \* the exchange each capture's thread is running
    exchange,   \* where each exchange is, and with which capture
    told,       \* what each exchange was answered
    written,    \* exchanges whose command went out to the DUT
    deleting    \* the capture each DELETE waits for

captureVars == <<owner, claims, registry, state, held, stopping, jobs, busy>>
exchangeVars == <<exchange, told, written>>
vars == <<captureVars, exchangeVars, deleting>>

Posting == {"checked", "claimed"}
Recording == {"running", "reopening"}       \* State::running
Ended == {"stopped", "expired", "byte_cap"}
Closing == {"unclaimed", "closed"}          \* the ended thread's locals drop

Running(c) == c # Nobody /\ state[c] \in Recording
Via(stage, c) == [stage |-> stage, with |-> c]
Idle == Via("idle", Nobody)

Init ==
    /\ owner = Nobody
    /\ claims = {}
    /\ registry = Nobody
    /\ state = [c \in Capture |-> "none"]
    /\ held = [c \in Capture |-> 0]
    /\ stopping = {}
    /\ jobs = [c \in Capture |-> <<>>]
    /\ busy = [c \in Capture |-> Nobody]
    /\ exchange = [x \in Exchange |-> Idle]
    /\ told = [x \in Exchange |-> "nothing"]
    /\ written = {}
    /\ deleting = [d \in Delete |-> Nobody]

To(c, s) == state' = [state EXCEPT ![c] = s]

-----------------------------------------------------------------------------
(* POST /signals/{name}/capture                                            *)

\* The handler's own checks; the claim and the start look again later.
Check(c) ==
    /\ state[c] = "none"
    /\ To(c, IF Running(registry) \/ claims # {} THEN "refused" ELSE "checked")
    /\ UNCHANGED <<owner, claims, registry, held, stopping, jobs, busy, exchangeVars, deleting>>

Claim(c) ==
    /\ state[c] = "checked"
    /\ claims' = claims \cup {c}
    /\ To(c, "claimed")
    /\ UNCHANGED <<owner, registry, held, stopping, jobs, busy, exchangeVars, deleting>>

\* A capture is running, or the port does not open: the claim drops.
StartFails(c) ==
    /\ state[c] = "claimed"
    /\ claims' = claims \ {c}
    /\ To(c, "refused")
    /\ UNCHANGED <<owner, registry, held, stopping, jobs, busy, exchangeVars, deleting>>

\* Under the registry's lock: nothing runs, the port opens, the thread starts
\* and the record replaces the last one.
Start(c) ==
    /\ state[c] = "claimed"
    /\ ~Running(registry) /\ owner = Nobody
    /\ owner' = c
    /\ registry' = c
    /\ To(c, "running")
    /\ UNCHANGED <<claims, held, stopping, jobs, busy, exchangeVars, deleting>>

-----------------------------------------------------------------------------
(* thread_main: the top of the loop, then one of its branches              *)

AtTop(c) == state[c] \in Recording /\ busy[c] = Nobody

Finish(c) ==
    /\ AtTop(c)
    /\ \/ c \in stopping /\ To(c, "stopped")
       \/ To(c, "expired")
       \/ held[c] >= MaxBytes /\ To(c, "byte_cap")
    /\ held' = [held EXCEPT ![c] = 0]
    /\ UNCHANGED <<owner, claims, registry, stopping, jobs, busy, exchangeVars, deleting>>

\* The flag may be set, the deadline pass and a job be sent just after they
\* were looked for.
Read(c) ==
    /\ AtTop(c) /\ state[c] = "running"
    /\ held[c] < MaxBytes
    /\ held' = [held EXCEPT ![c] = @ + 1]
    /\ UNCHANGED <<owner, claims, registry, state, stopping, jobs, busy, exchangeVars, deleting>>

\* The port is let go, and the buffer gets a marker that no cap refuses.
Lose(c) ==
    /\ owner' = Nobody
    /\ held' = [held EXCEPT ![c] = @ + 1]
    /\ To(c, "reopening")

\* The read fails, perhaps after jobs that filled the buffer.
LosePort(c) ==
    /\ AtTop(c) /\ state[c] = "running"
    /\ held[c] <= MaxBytes
    /\ Lose(c)
    /\ UNCHANGED <<claims, registry, stopping, jobs, busy, exchangeVars, deleting>>

\* The answer to an exchange, thrown away if its caller gave up.
Answer(X, what) ==
    LET waiting == {x \in X : exchange[x].stage = "sent"}
    IN  /\ told' = [x \in Exchange |-> IF x \in waiting THEN what ELSE told[x]]
        /\ exchange' = [x \in Exchange |-> IF x \in waiting THEN Idle ELSE exchange[x]]

\* Mutant: the refused jobs stay in the channel.
RefuseJobsKeeping(c) ==
    /\ AtTop(c) /\ state[c] = "reopening" /\ jobs[c] # <<>>
    /\ held[c] < MaxBytes
    /\ Answer(ToSet(jobs[c]), "away")
    /\ UNCHANGED <<captureVars, written, deleting>>

\* Port away: every queued job is told that nothing was written.
RefuseJobs(c) ==
    /\ AtTop(c) /\ state[c] = "reopening" /\ jobs[c] # <<>>
    /\ held[c] < MaxBytes
    /\ Answer(ToSet(jobs[c]), "away")
    /\ jobs' = [jobs EXCEPT ![c] = <<>>]
    /\ UNCHANGED <<owner, claims, registry, state, held, stopping, busy, written, deleting>>

\* The opener succeeds; a marker again.
Reopen(c) ==
    /\ AtTop(c) /\ state[c] = "reopening" /\ owner = Nobody
    /\ held[c] < MaxBytes
    /\ owner' = c
    /\ held' = [held EXCEPT ![c] = @ + 1]
    /\ To(c, "running")
    /\ UNCHANGED <<claims, registry, stopping, jobs, busy, exchangeVars, deleting>>

\* run_job: the command goes out, and its reply is read into the buffer too.
RunJob(c) ==
    /\ state[c] = "running" /\ busy[c] = Nobody /\ jobs[c] # <<>>
    /\ busy' = [busy EXCEPT ![c] = Head(jobs[c])]
    /\ jobs' = [jobs EXCEPT ![c] = Tail(@)]
    /\ written' = written \cup {Head(jobs[c])}
    /\ UNCHANGED <<owner, claims, registry, state, held, stopping, exchange, told, deleting>>

\* The reply's bytes are appended as far as the cap lets them.
JobDone(c) ==
    /\ busy[c] # Nobody
    /\ Answer({busy[c]}, "reply")
    /\ busy' = [busy EXCEPT ![c] = Nobody]
    /\ \/ /\ held[c] < MaxBytes
          /\ held' = [held EXCEPT ![c] = @ + 1]
          /\ UNCHANGED <<owner, state>>
       \/ Lose(c)
       \/ UNCHANGED <<owner, state, held>>
    /\ UNCHANGED <<claims, registry, stopping, jobs, written, deleting>>

\* Mutant: an ended thread forgets its claim.
UnclaimNothing(c) ==
    /\ state[c] \in Ended
    /\ To(c, "unclaimed")
    /\ Answer(ToSet(jobs[c]), "late")
    /\ UNCHANGED <<owner, claims, registry, held, stopping, jobs, busy, written, deleting>>

\* thread_main returns, and its parameters drop last to first: the claim, then
\* the channel, whose jobs' callers get no answer.
Unclaim(c) ==
    /\ state[c] \in Ended
    /\ claims' = claims \ {c}
    /\ To(c, "unclaimed")
    /\ Answer(ToSet(jobs[c]), "late")
    /\ jobs' = [jobs EXCEPT ![c] = <<>>]
    /\ UNCHANGED <<owner, registry, held, stopping, busy, written, deleting>>

\* And after them the port.
Close(c) ==
    /\ state[c] = "unclaimed"
    /\ owner' = IF owner = c THEN Nobody ELSE owner
    /\ To(c, "closed")
    /\ UNCHANGED <<claims, registry, held, stopping, jobs, busy, exchangeVars, deleting>>

-----------------------------------------------------------------------------
(* POST /signals/{name}/exchange, and a host study's exchange steps        *)

Say(x, what) ==
    /\ told' = [told EXCEPT ![x] = what]
    /\ exchange' = [exchange EXCEPT ![x] = Idle]

Look(x) ==
    /\ exchange[x] = Idle /\ told[x] = "nothing"
    /\ exchange' = [exchange EXCEPT ![x] =
                        IF Running(registry) THEN Via("sending", registry)
                                             ELSE Via("direct", Nobody)]
    /\ UNCHANGED <<captureVars, told, written, deleting>>

\* The channel is open for as long as the thread has not returned.
Send(x) ==
    LET c == exchange[x].with IN
    /\ exchange[x].stage = "sending"
    /\ IF state[c] \in Recording \cup Ended
       THEN /\ jobs' = [jobs EXCEPT ![c] = Append(@, x)]
            /\ exchange' = [exchange EXCEPT ![x] = Via("sent", c)]
            /\ UNCHANGED told
       ELSE Say(x, "ended") /\ UNCHANGED jobs
    /\ UNCHANGED <<owner, claims, registry, state, held, stopping, busy, written, deleting>>

\* timeout_ms and JOB_SLACK are over; the job stays in the channel.
TimeOut(x) ==
    /\ exchange[x].stage = "sent"
    /\ Say(x, "late")
    /\ UNCHANGED <<captureVars, written, deleting>>

\* No capture was running: the exchange opens the port itself.
OpenDirect(x) ==
    /\ exchange[x].stage = "direct"
    /\ owner = Nobody
    /\ owner' = x
    /\ exchange' = [exchange EXCEPT ![x] = Via("open", Nobody)]
    /\ written' = written \cup {x}
    /\ UNCHANGED <<claims, registry, state, held, stopping, jobs, busy, told, deleting>>

DirectFails(x) ==
    /\ exchange[x].stage = "direct"
    /\ Say(x, "not_opened")
    /\ UNCHANGED <<captureVars, written, deleting>>

DirectDone(x) ==
    /\ exchange[x].stage = "open"
    /\ owner' = Nobody
    /\ Say(x, "reply")
    /\ UNCHANGED <<claims, registry, state, held, stopping, jobs, busy, written, deleting>>

-----------------------------------------------------------------------------
(* DELETE /signals/{name}/capture                                          *)

Stop(d) ==
    /\ deleting[d] = Nobody /\ registry # Nobody
    /\ deleting' = [deleting EXCEPT ![d] = registry]
    /\ stopping' = stopping \cup {registry}
    /\ UNCHANGED <<owner, claims, registry, state, held, jobs, busy, exchangeVars>>

\* The capture ended, or did not within two seconds, in a job or an opener:
\* whichever record the signal has by now is dropped.
RemoveRecord(d) ==
    LET c == deleting[d] IN
    /\ c # Nobody
    /\ Running(c) => busy[c] # Nobody \/ state[c] = "reopening"
    /\ registry' = Nobody
    /\ deleting' = [deleting EXCEPT ![d] = Nobody]
    /\ UNCHANGED <<owner, claims, state, held, stopping, jobs, busy, exchangeVars>>

-----------------------------------------------------------------------------

PostStep(c) == Check(c) \/ Claim(c) \/ StartFails(c) \/ Start(c)

\* What a thread does beside ending by itself.
ThreadGoesOn(c) ==
    \/ Read(c)
    \/ LosePort(c)
    \/ RefuseJobs(c)
    \/ Reopen(c)
    \/ RunJob(c)
    \/ JobDone(c)
    \/ Unclaim(c)
    \/ Close(c)

ExchangeStep(x) ==
    \/ Look(x)
    \/ Send(x)
    \/ TimeOut(x)
    \/ OpenDirect(x)
    \/ DirectFails(x)
    \/ DirectDone(x)

-----------------------------------------------------------------------------
(* Properties                                                              *)

\* An exchange that was told its command could not be written never had it
\* written, not even when the port came back with the job still queued.
RefusedMeansNotWritten ==
    \A x \in Exchange : told[x] \in {"away", "ended", "not_opened"} => x \notin written
=============================================================================
