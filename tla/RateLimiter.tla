---------------------------- MODULE RateLimiter -----------------------------
(***************************************************************************)
(* The fixed-window rate limit of one client on one path: the dependency   *)
(* rate_limiter (api/deps.py) over CacheBackend.allow_request              *)
(* (cache/redis.py).  The counter is a key of Redis; INCR and EXPIRE are   *)
(* two commands, and other requests of the client, or the end of the       *)
(* process, can come in between.                                           *)
(*                                                                         *)
(* The counter is kept up to Limit + 1: the code compares it with 1 and    *)
(* with the limit.                                                         *)
(***************************************************************************)
EXTENDS Naturals

CONSTANTS Handlers,  \* requests of the client that can be handled at a time
          Limit,     \* rate_limit_requests
          Window,    \* rate_limit_window_seconds, in ticks
          Losses     \* bound: how often a process or its connection dies

ASSUME LimiterAssumption ==
    /\ Limit \in Nat \ {0}
    /\ Window \in Nat \ {0}
    /\ Losses \in Nat

VARIABLES count,    \* the counter, 0 while the key does not exist
          ttl,      \* ticks until the key expires, 0 while it has no expiry
          phase,    \* where a request is
          granted,  \* requests let through since the key was created
          losses    \* losses that may still come

vars == <<count, ttl, phase, granted, losses>>

Phase == {"idle",      \* no request
          "first",     \* its INCR returned 1, its EXPIRE is to come
          "allowed",   \* goes on to the endpoint
          "limited"}   \* 429

TypeOK ==
    /\ count \in 0 .. Limit + 1
    /\ ttl \in 0 .. Window
    /\ phase \in [Handlers -> Phase]
    /\ granted \in Nat
    /\ losses \in 0 .. Losses

Init ==
    /\ count = 0
    /\ ttl = 0
    /\ phase = [h \in Handlers |-> "idle"]
    /\ granted = 0
    /\ losses = Losses

-----------------------------------------------------------------------------
Move(h, to) == phase' = [phase EXCEPT ![h] = to]

Up(n) == IF n <= Limit THEN n + 1 ELSE n

\* Mutant: one request too many.
PermittedOneMore(n) == n <= Limit + 1
Permitted(n) == n <= Limit

\* Mutant: each request sets the expiry.
IncrSliding(h) ==
    /\ phase[h] = "idle"
    /\ count' = Up(count)
    /\ IF Permitted(Up(count))
       THEN Move(h, "first")
       ELSE Move(h, "limited")
    /\ UNCHANGED <<ttl, granted, losses>>

\* INCR.  Only the request that created the key sets its expiry.
Incr(h) ==
    /\ phase[h] = "idle"
    /\ count' = Up(count)
    /\ IF count = 0
       THEN Move(h, "first") /\ UNCHANGED granted
       ELSE IF Permitted(Up(count))
            THEN Move(h, "allowed") /\ granted' = granted + 1
            ELSE Move(h, "limited") /\ UNCHANGED granted
    /\ UNCHANGED <<ttl, losses>>

\* Mutant: the expiry is not set.
ExpireNothing(h) ==
    /\ phase[h] = "first"
    /\ granted' = granted + 1
    /\ Move(h, "allowed")
    /\ UNCHANGED <<count, ttl, losses>>

\* EXPIRE, then the comparison: 1 is within every limit.
Expire(h) ==
    /\ phase[h] = "first"
    /\ ttl' = Window
    /\ granted' = granted + 1
    /\ Move(h, "allowed")
    /\ UNCHANGED <<count, losses>>

Respond(h) ==
    /\ phase[h] \in {"allowed", "limited"}
    /\ Move(h, "idle")
    /\ UNCHANGED <<count, ttl, granted, losses>>

\* The process dies, or its connection to Redis breaks, between INCR and EXPIRE:
\* the request fails and nobody sets the expiry.
Lose(h) ==
    /\ phase[h] = "first"
    /\ losses > 0
    /\ losses' = losses - 1
    /\ Move(h, "idle")
    /\ UNCHANGED <<count, ttl, granted>>

\* Redis counts down, and deletes the key at 0.
Tick ==
    /\ ttl > 0
    /\ ttl' = ttl - 1
    /\ IF ttl = 1
       THEN count' = 0 /\ granted' = 0
       ELSE UNCHANGED <<count, granted>>
    /\ UNCHANGED <<phase, losses>>

Next ==
    \/ \E h \in Handlers : Incr(h) \/ Expire(h) \/ Respond(h) \/ Lose(h)
    \/ Tick

Spec == Init /\ [][Next]_vars

\* Time passes, and a request that has begun is handled to its end.  Nobody has
\* to send one.
FairSpec == /\ Spec
            /\ WF_vars(Tick)
            /\ \A h \in Handlers : WF_vars(Expire(h) \/ Respond(h))

-----------------------------------------------------------------------------
(* Properties.                                                             *)

\* In the life of one counter at most Limit requests go through, however the
\* requests of the client overlap.
AtMostLimit == granted <= Limit

\* A window is opened by one request: no other is about to set the expiry, and
\* none sets it on a counter that has one, or that is gone.
OneOpener ==
    /\ \A g, h \in Handlers : phase[g] = "first" /\ phase[h] = "first" => g = h
    /\ \A h \in Handlers : phase[h] = "first" => count > 0 /\ ttl = 0

\* INCR and EXPIRE are not atomic, and no later request sets the expiry: a counter
\* without one is about to get it, unless a process died between the two.
ExpiryIsComing ==
    count > 0 /\ ttl = 0 =>
        losses < Losses \/ \E h \in Handlers : phase[h] = "first"

\* docs/architecture.md: a "fixed-window counter": a client that is over the
\* limit is let through again when the window has passed, with the same
\* exception: then it is refused for ever.
WindowEnds == count > Limit ~> (count = 0 \/ losses < Losses)
=============================================================================
