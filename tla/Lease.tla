------------------------------- MODULE Lease -------------------------------
(***************************************************************************)
(* LeaseSlot of embarch-core (src/src/lease.rs).  The slot is evaluated    *)
(* lazily: time passes it by, an expired lease stays in it until somebody  *)
(* asks, and every method that needs the live lease first clears a dead    *)
(* one (live).  Each method runs under the slot's own mutex, so it is one  *)
(* action.                                                                 *)
(***************************************************************************)
EXTENDS Naturals

CONSTANTS
    Token,      \* the random tokens; each is drawn at most once
    NoToken,    \* a request without the header, and an empty slot
    MaxTtl      \* MAX_TTL_S, in ticks

ASSUME NoTokenAssumption == NoToken \notin Token
ASSUME MaxTtlAssumption == MaxTtl \in Nat \ {0}

VARIABLES
    slot,       \* Option<Lease>: token, ttl_s, and expires as the time left
    used,       \* the tokens drawn so far
    reply       \* the last answer: what it said, and of which lease

leaseVars == <<slot, used, reply>>

Empty == [token |-> NoToken, ttl |-> 0, left |-> 0]

TtlOk(d) == d \in 1 .. MaxTtl       \* check_ttl
Asked == 0 .. MaxTtl + 1
Presented == Token \cup {NoToken}

Said == {"nothing", "granted", "held", "no_lease", "invalid", "done", "admitted"}

LeaseTypeOK ==
    /\ slot \in {Empty} \cup [token : Token, ttl : 1 .. MaxTtl, left : 0 .. MaxTtl]
    /\ used \subseteq Token
    /\ slot.token \in used \cup {NoToken}
    /\ reply \in [said : Said, of : Token \cup {NoToken}]

LeaseInit ==
    /\ slot = Empty
    /\ used = {}
    /\ reply = [said |-> "nothing", of |-> NoToken]

-----------------------------------------------------------------------------

\* live: the lease in the slot, or none if it has expired.  What it returns
\* is also what it leaves in the slot.
Live == IF slot.left > 0 THEN slot ELSE Empty

Tell(what, t) == reply' = [said |-> what, of |-> t]

\* The answer of a method that looked at the live lease and changed nothing.
Find(what, t) ==
    /\ slot' = Live
    /\ Tell(what, t)
    /\ UNCHANGED used

\* A bad request is refused before the slot is looked at.
Take(named, d, t) ==
    \/ /\ ~(named /\ TtlOk(d))
       /\ Tell("invalid", NoToken)
       /\ UNCHANGED <<slot, used>>
    \/ /\ named /\ TtlOk(d) /\ Live # Empty
       /\ Find("held", Live.token)
    \/ /\ named /\ TtlOk(d) /\ Live = Empty
       /\ t \in Token \ used
       /\ slot' = [token |-> t, ttl |-> d, left |-> d]
       /\ used' = used \cup {t}
       /\ Tell("granted", t)

\* Mutant: the slot is not cleared of a dead lease before its token is checked.
RenewForDead(p, d) ==
    \/ /\ slot = Empty
       /\ Find("no_lease", NoToken)
    \/ /\ slot # Empty /\ p # slot.token
       /\ Find("held", slot.token)
    \/ /\ slot # Empty /\ p = slot.token /\ TtlOk(d)
       /\ slot' = [slot EXCEPT !.ttl = d, !.left = d]
       /\ Tell("done", p)
       /\ UNCHANGED used

\* Mutant: the token is not checked.
RenewForAnybody(p, d) ==
    \/ /\ Live = Empty
       /\ Find("no_lease", NoToken)
    \/ /\ Live # Empty /\ TtlOk(d)
       /\ slot' = [slot EXCEPT !.ttl = d, !.left = d]
       /\ Tell("done", p)
       /\ UNCHANGED used

RenewFor(p, d) ==
    \/ /\ Live = Empty
       /\ Find("no_lease", NoToken)
    \/ /\ Live # Empty /\ p # Live.token
       /\ Find("held", Live.token)
    \/ /\ Live # Empty /\ p = Live.token /\ ~TtlOk(d)
       /\ Find("invalid", NoToken)
    \/ /\ Live # Empty /\ p = Live.token /\ TtlOk(d)
       /\ slot' = [slot EXCEPT !.ttl = d, !.left = d]
       /\ Tell("done", p)
       /\ UNCHANGED used

\* With no ttl_s the lease's own TTL is asked for again.
Renew(p) == RenewFor(p, Live.ttl) \/ \E d \in Asked : RenewFor(p, d)

Release(p) ==
    \/ /\ Live = Empty
       /\ Find("no_lease", NoToken)
    \/ /\ Live # Empty /\ p # Live.token
       /\ Find("held", Live.token)
    \/ /\ Live # Empty /\ p = Live.token
       /\ slot' = Empty
       /\ Tell("done", p)
       /\ UNCHANGED used

AdmitHolder(p) ==
    IF Live = Empty \/ p = Live.token
    THEN Find("admitted", Live.token)
    ELSE Find("held", Live.token)

View ==
    IF Live # Empty THEN Find("held", Live.token) ELSE Find("no_lease", NoToken)

-----------------------------------------------------------------------------
(* The environment: time, and Core that restarts.                          *)

Tick ==
    /\ slot.left > 0
    /\ slot' = [slot EXCEPT !.left = @ - 1]
    /\ UNCHANGED <<used, reply>>

Restart ==
    /\ slot' = Empty
    /\ Tell("nothing", NoToken)
    /\ UNCHANGED used

LeaseNext ==
    \/ \E named \in BOOLEAN, d \in Asked, t \in Token : Take(named, d, t)
    \/ \E p \in Presented : Renew(p) \/ Release(p) \/ AdmitHolder(p)
    \/ View
    \/ Tick
    \/ Restart

LeaseSpec == LeaseInit /\ [][LeaseNext]_leaseVars

-----------------------------------------------------------------------------
(* Properties                                                              *)

(* No sequence of calls can tell the lazy slot from a lease that vanishes  *)
(* the instant it expires: every answer is the one EagerLease would give.  *)
Eager == INSTANCE EagerLease WITH lease <- Live
EagerSpec == Eager!Spec

\* A token that is not live any more (expired, released, restarted away)
\* never opens the bench again: nothing revives a lease.
DeadTokensStayDead ==
    [][\A t \in used : Live.token # t => Live'.token # t]_leaseVars
=============================================================================
