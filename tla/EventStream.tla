----------------------------- MODULE EventStream -----------------------------
(***************************************************************************)
(* The live feed of a run (api/v1/ws.py) on top of the executor that       *)
(* publishes it.                                                           *)
(*                                                                         *)
(* A follower opens the socket of a run, its subscription to the channel   *)
(* of the run begins later, and from then on every event that is published *)
(* waits for it ("inbox") until the endpoint's loop sends it on.  Nothing  *)
(* is kept for those who subscribe later, a publication that fails is      *)
(* swallowed, and a client that hangs up is noticed at the next send only. *)
(***************************************************************************)
EXTENDS RunExecution

CONSTANTS Followers,    \* one call of stream_run each
          Environment,  \* settings.environment
          MaxLost       \* bound: how many publications may fail

ASSUME StreamAssumption ==
    /\ Environment \in {"local", "test", "staging", "production"}
    /\ MaxLost \in Nat

VARIABLES sock,   \* where the follower's call of stream_run is
          topic,  \* its run_id
          since,  \* events published on its channel before it subscribed
          inbox,  \* messages of its subscription it has not read
          sent,   \* frames it has sent to its client
          here,   \* the client has not hung up
          lost    \* <<run, index>> of the events whose publication failed

feeds == <<sock, topic, since, inbox, sent, here>>
streamVars == <<feeds, lost>>
allVars == <<vars, streamVars>>

\* What the query parameter "token" holds.
Token == {"absent", "access", "refresh", "expired"}

SockState == {"new",        \* no call yet
              "accepted",   \* handshake done, not subscribed
              "streaming",  \* in the loop over pubsub.listen()
              "refused",    \* closed with 1008
              "closed"}     \* the call is over, the subscription dropped

StreamTypeOK ==
    /\ TypeOK
    /\ sock \in [Followers -> SockState]
    /\ topic \in [Followers -> Runs]
    /\ since \in [Followers -> Nat]
    /\ inbox \in [Followers -> Seq(Event)]
    /\ sent \in [Followers -> Seq(Event)]
    /\ here \in [Followers -> BOOLEAN]
    /\ lost \subseteq Runs \X Nat

StreamInit ==
    /\ Init
    /\ sock = [f \in Followers |-> "new"]
    /\ topic \in [Followers -> Runs]
    /\ since = [f \in Followers |-> 0]
    /\ inbox = [f \in Followers |-> << >>]
    /\ sent = [f \in Followers |-> << >>]
    /\ here = [f \in Followers |-> TRUE]
    /\ lost = {}

-----------------------------------------------------------------------------
\* A token has to be a valid access token; only on a developer's machine may it
\* be missing.
Authorized(token) ==
    IF token = "absent" THEN Environment = "local" ELSE token = "access"

Open(f) ==
    /\ sock[f] = "new"
    /\ \E token \in Token :
         sock' = [sock EXCEPT ![f] = IF Authorized(token) THEN "accepted" ELSE "refused"]
    /\ UNCHANGED <<vars, topic, since, inbox, sent, here, lost>>

Subscribe(f) ==
    /\ sock[f] = "accepted"
    /\ sock' = [sock EXCEPT ![f] = "streaming"]
    /\ since' = [since EXCEPT ![f] = Len(events[topic[f]])]
    /\ UNCHANGED <<vars, topic, inbox, sent, here, lost>>

\* Mutant: the newest message is sent first.
ForwardNewest(f) ==
    /\ sock[f] = "streaming"
    /\ inbox[f] # << >>
    /\ inbox' = [inbox EXCEPT ![f] = SubSeq(@, 1, Len(@) - 1)]
    /\ sent' = [sent EXCEPT ![f] = Append(@, inbox[f][Len(inbox[f])])]
    /\ UNCHANGED <<vars, sock, topic, since, here, lost>>

\* The next message goes to the client.  The send to one that hung up raises
\* WebSocketDisconnect, and the finally block drops the subscription.
Forward(f) ==
    /\ sock[f] = "streaming"
    /\ inbox[f] # << >>
    /\ inbox' = [inbox EXCEPT ![f] = Tail(@)]
    /\ \/ /\ here[f]
          /\ sent' = [sent EXCEPT ![f] = Append(@, Head(inbox[f]))]
          /\ UNCHANGED sock
       \/ /\ ~here[f]
          /\ sock' = [sock EXCEPT ![f] = "closed"]
          /\ UNCHANGED sent
    /\ UNCHANGED <<vars, topic, since, here, lost>>

HangUp(f) ==
    /\ sock[f] \in {"accepted", "streaming"}
    /\ here[f]
    /\ here' = [here EXCEPT ![f] = FALSE]
    /\ UNCHANGED <<vars, sock, topic, since, inbox, sent, lost>>

\* The connection to the cache fails: any exception ends the loop.
Break(f) ==
    /\ sock[f] = "streaming"
    /\ sock' = [sock EXCEPT ![f] = "closed"]
    /\ inbox' = [inbox EXCEPT ![f] = << >>]
    /\ UNCHANGED <<vars, topic, since, sent, here, lost>>

\* An event the step of the executor publishes reaches every subscription of
\* its channel, or, when the publication fails, none.
Deliver ==
    LET news == {r \in Runs : events'[r] # events[r]}
        Latest(r) == events'[r][Len(events'[r])]
    IN  \/ /\ inbox' = [f \in Followers |->
                          IF sock[f] = "streaming" /\ topic[f] \in news
                          THEN Append(inbox[f], Latest(topic[f])) ELSE inbox[f]]
           /\ UNCHANGED lost
        \/ /\ news # {}
           /\ Cardinality(lost) < MaxLost
           /\ lost' = lost \cup {<<r, Len(events'[r])>> : r \in news}
           /\ UNCHANGED inbox

Published(A) == A /\ Deliver /\ UNCHANGED <<suites, sock, topic, since, sent, here>>

Feed(f) == Open(f) \/ Subscribe(f) \/ Forward(f) \/ HangUp(f) \/ Break(f)

StreamNext ==
    \/ Published(ExecNext)
    \/ \E f \in Followers : Feed(f)

StreamSpec == StreamInit /\ [][StreamNext]_allVars

\* The scheduler of the workers and the event loop of the API keep going.
FairStream ==
    /\ StreamSpec
    /\ \A w \in Workers : WF_allVars(Published(Progress(w)))
    /\ \A f \in Followers : WF_allVars(Forward(f))

-----------------------------------------------------------------------------
(* Properties.                                                             *)

\* A follower whose last frame is a verdict is told the truth: the run has that
\* status in the database, with finished_at.  And if it was there from the start
\* and no publication failed, it has seen the whole run: run.started first, and
\* one step.completed for each row of step_results, nothing twice, nothing late.
FramesTellTheRun ==
    \A f \in Followers : \A i \in DOMAIN sent[f] :
        LET r == topic[f]
            Seen == {k \in 1 .. i : sent[f][k] = Completed}
        IN  sent[f][i] \in {Finished("passed"), Finished("failed")} =>
              /\ i = Len(sent[f])
              /\ finished[r] /\ sent[f][i].status = status[r]
              /\ since[f] = 0 /\ (\A p \in lost : p[1] # r) =>
                   /\ sent[f][1] = Started
                   /\ Cardinality(Seen) = Cardinality(RowsOf(r))

\* The run ended without an event, or the feed of f did.
Silenced(f) ==
    \/ sock[f] = "closed" \/ ~here[f] \/ lost # {}
    \/ \E k \in {"crash", "shutdown", "timeout", "db", "locked"} : budget[k] < Budget[k]

\* Who subscribes before a run has ended hears its end, unless the worker, a
\* publication or the connection fails: raising steps and repeated deliveries do
\* not keep a follower waiting.
FollowersSeeTheEnd ==
    \A f \in Followers :
        (sock[f] = "streaming" /\ \A i \in DOMAIN events[topic[f]] :
                                     events[topic[f]][i].event # "run.finished")
          ~> (Silenced(f) \/ \E i \in DOMAIN sent[f] : sent[f][i].event = "run.finished")
=============================================================================
