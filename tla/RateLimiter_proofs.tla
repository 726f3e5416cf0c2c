------------------------- MODULE RateLimiter_proofs -------------------------
(***************************************************************************)
(* The rate limit for any number of overlapping requests, any limit and    *)
(* any window.                                                             *)
(***************************************************************************)
EXTENDS RateLimiter, TLAPS

LEMMA LimiterFacts ==
    /\ Limit \in Nat /\ 0 < Limit
    /\ Window \in Nat /\ 0 < Window
    /\ Losses \in Nat
BY LimiterAssumption

\* A missing key has no expiry, and the request that opened the window will be let
\* through, too.
RoomForOpener ==
    /\ ttl > 0 => count > 0
    /\ granted <= count
    /\ \A h \in Handlers : phase[h] = "first" => granted < count /\ granted < Limit

LimiterInv == TypeOK /\ OneOpener /\ AtMostLimit /\ RoomForOpener

LEMMA LimiterInit == Init => LimiterInv
BY LimiterFacts DEF Init, LimiterInv, TypeOK, OneOpener, AtMostLimit, RoomForOpener, Phase

LEMMA LimiterStep ==
  ASSUME LimiterInv, [Next]_vars
  PROVE  LimiterInv'
<1> USE LimiterFacts DEF LimiterInv, TypeOK, OneOpener, AtMostLimit, RoomForOpener, Phase
<1>1. ASSUME NEW h \in Handlers, Incr(h) PROVE LimiterInv'
  <2>1. CASE count = 0
    BY <1>1, <2>1 DEF Incr, Move, Up
  <2>2. CASE count # 0 /\ Permitted(Up(count))
    BY <1>1, <2>2 DEF Incr, Move, Up, Permitted
  <2>3. CASE count # 0 /\ ~Permitted(Up(count))
    BY <1>1, <2>3 DEF Incr, Move, Up, Permitted
  <2> QED
    BY <2>1, <2>2, <2>3
<1>2. ASSUME NEW h \in Handlers, Expire(h) PROVE LimiterInv'
  BY <1>2 DEF Expire, Move
<1>3. ASSUME NEW h \in Handlers, Respond(h) PROVE LimiterInv'
  BY <1>3 DEF Respond, Move
<1>4. ASSUME NEW h \in Handlers, Lose(h) PROVE LimiterInv'
  BY <1>4 DEF Lose, Move
<1>5. CASE Tick
  BY <1>5 DEF Tick
<1>6. CASE UNCHANGED vars
  BY <1>6 DEF vars
<1> QED
  BY <1>1, <1>2, <1>3, <1>4, <1>5, <1>6 DEF Next

LEMMA LimiterAlways == Spec => []LimiterInv
<1>1. LimiterInv /\ [Next]_vars => LimiterInv'
  BY LimiterStep
<1> QED
  BY <1>1, LimiterInit, PTL DEF Spec

\* cache/redis.py, allow_request: however the client's requests overlap, and
\* whatever processes are lost, at most Limit of them pass in one window.
THEOREM NeverOverLimit == Spec => []AtMostLimit
<1>1. LimiterInv => AtMostLimit
  BY DEF LimiterInv
<1> QED
  BY <1>1, LimiterAlways, PTL

\* cache/redis.py, allow_request: the test "count == 1" makes one request the
\* opener of each window.
THEOREM WindowHasOneOpener == Spec => []OneOpener
<1>1. LimiterInv => OneOpener
  BY DEF LimiterInv
<1> QED
  BY <1>1, LimiterAlways, PTL

\* cache/redis.py, allow_request: no counter is left for ever without an expiry
\* but by a process that dies; this is what a window that ends rests on.
THEOREM ExpiryFollows == Spec => []ExpiryIsComing
<1>1. Init => ExpiryIsComing
  BY DEF Init, ExpiryIsComing
<1>2. LimiterInv /\ ExpiryIsComing /\ [Next]_vars => ExpiryIsComing'
  <2> SUFFICES ASSUME LimiterInv, ExpiryIsComing, [Next]_vars PROVE ExpiryIsComing'
    OBVIOUS
  <2> USE LimiterFacts DEF LimiterInv, TypeOK, OneOpener, ExpiryIsComing, Phase
  <2>1. ASSUME NEW h \in Handlers, Incr(h) PROVE ExpiryIsComing'
    BY <2>1 DEF Incr, Move, Up
  <2>2. ASSUME NEW h \in Handlers, Expire(h) PROVE ExpiryIsComing'
    BY <2>2 DEF Expire, Move
  <2>3. ASSUME NEW h \in Handlers, Respond(h) \/ Lose(h) PROVE ExpiryIsComing'
    BY <2>3 DEF Respond, Lose, Move
  <2>4. CASE Tick
    BY <2>4 DEF Tick
  <2>5. CASE UNCHANGED vars
    BY <2>5 DEF vars
  <2> QED
    BY <2>1, <2>2, <2>3, <2>4, <2>5 DEF Next
<1> QED
  BY <1>1, <1>2, LimiterAlways, PTL DEF Spec
=============================================================================
