----------------------------- MODULE EagerLease -----------------------------
(***************************************************************************)
(* What the bench lease of embarch-core promises (src/src/lease.rs, module *)
(* documentation and LeaseError): one session holds the bench, only its    *)
(* token renews or releases it, everybody else is refused by name, and the *)
(* lease is gone at the very instant its TTL has run out.  Module Lease    *)
(* has the code, which forgets an expired lease only when somebody asks.   *)
(***************************************************************************)
EXTENDS Naturals

CONSTANTS
    Token,      \* the random tokens; each is drawn at most once
    NoToken,    \* a request without the header, and the absence of a lease
    MaxTtl      \* MAX_TTL_S, in ticks

VARIABLES
    lease,      \* the live lease: its token, its TTL and the time left of it
    used,       \* the tokens drawn so far
    reply       \* the last answer: what it said, and of which lease

vars == <<lease, used, reply>>

NoLease == [token |-> NoToken, ttl |-> 0, left |-> 0]
NewLease(t, d) == [token |-> t, ttl |-> d, left |-> d]
Held == lease.token # NoToken
TtlOk(d) == d \in 1 .. MaxTtl
Asked == 0 .. MaxTtl + 1            \* TTLs a caller may name, both bad ends too
Presented == Token \cup {NoToken}   \* tokens a caller may present

Said == {"nothing", "granted", "held", "no_lease", "invalid", "done", "admitted"}

TypeOK ==
    /\ lease \in {NoLease} \cup [token : Token, ttl : 1 .. MaxTtl, left : 1 .. MaxTtl]
    /\ used \subseteq Token
    /\ Held => lease.token \in used
    /\ reply \in [said : Said, of : Token \cup {NoToken}]

Init ==
    /\ lease = NoLease
    /\ used = {}
    /\ reply = [said |-> "nothing", of |-> NoToken]

Say(what, t) == reply' = [said |-> what, of |-> t]

-----------------------------------------------------------------------------

Take(named, d, t) ==
    \/ /\ ~(named /\ TtlOk(d))
       /\ Say("invalid", NoToken)
       /\ UNCHANGED <<lease, used>>
    \/ /\ named /\ TtlOk(d) /\ Held
       /\ Say("held", lease.token)
       /\ UNCHANGED <<lease, used>>
    \/ /\ named /\ TtlOk(d) /\ ~Held
       /\ t \in Token \ used
       /\ lease' = NewLease(t, d)
       /\ used' = used \cup {t}
       /\ Say("granted", t)

RenewFor(p, d) ==
    \/ /\ ~Held
       /\ Say("no_lease", NoToken)
       /\ UNCHANGED <<lease, used>>
    \/ /\ Held /\ p # lease.token
       /\ Say("held", lease.token)
       /\ UNCHANGED <<lease, used>>
    \/ /\ Held /\ p = lease.token /\ ~TtlOk(d)
       /\ Say("invalid", NoToken)
       /\ UNCHANGED <<lease, used>>
    \/ /\ Held /\ p = lease.token /\ TtlOk(d)
       /\ lease' = NewLease(p, d)
       /\ Say("done", p)
       /\ UNCHANGED used

Renew(p) == RenewFor(p, lease.ttl) \/ \E d \in Asked : RenewFor(p, d)

Release(p) ==
    \/ /\ ~Held
       /\ Say("no_lease", NoToken)
       /\ UNCHANGED <<lease, used>>
    \/ /\ Held /\ p # lease.token
       /\ Say("held", lease.token)
       /\ UNCHANGED <<lease, used>>
    \/ /\ Held /\ p = lease.token
       /\ lease' = NoLease
       /\ Say("done", p)
       /\ UNCHANGED used

\* A hardware route's gate: the live lease's token, or no lease at all.
Admit(p) ==
    /\ IF ~Held \/ p = lease.token
       THEN Say("admitted", lease.token)
       ELSE Say("held", lease.token)
    /\ UNCHANGED <<lease, used>>

View ==
    /\ IF Held THEN Say("held", lease.token) ELSE Say("no_lease", NoToken)
    /\ UNCHANGED <<lease, used>>

Tick ==
    /\ Held
    /\ lease' = IF lease.left = 1 THEN NoLease ELSE [lease EXCEPT !.left = @ - 1]
    /\ UNCHANGED <<used, reply>>

Restart ==
    /\ lease' = NoLease
    /\ Say("nothing", NoToken)
    /\ UNCHANGED used

Next ==
    \/ \E named \in BOOLEAN, d \in Asked, t \in Token : Take(named, d, t)
    \/ \E p \in Presented : Renew(p) \/ Release(p) \/ Admit(p)
    \/ View
    \/ Tick
    \/ Restart

Spec == Init /\ [][Next]_vars
=============================================================================
