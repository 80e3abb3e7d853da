-------------------------- MODULE RealtimeDelivery --------------------------
(***************************************************************************)
(* Realtime events: the outbox a service publishes to, the dispatcher of   *)
(* every pod that is woken by PostgreSQL, the WebSocket connections it     *)
(* sends to, and the delivery rows an unacknowledged event is replayed     *)
(* from when its subscriber connects again.                                *)
(*                                                                         *)
(* One action is one statement with the computation around it.  The list   *)
(* of a pod's connections is behind a lock that a dispatch holds from its  *)
(* first connection to its last, so that connections come and go between   *)
(* dispatches only.                                                        *)
(***************************************************************************)
EXTENDS Naturals, Sequences

CONSTANTS
  Users,        \* subscribers: users and stations, by the id of their token
  Pods,         \* processes of the backend
  Conns,        \* WebSocket connections, each used again after it closed
  UserOf,       \* the user_id of a connection
  PodOf,        \* the pod a connection is accepted by
  Channels,
  Admitted,     \* the channels the access rules admit a user to
  Kinds,        \* what is published: channel, audience, durable
  ReplayLimit,  \* LIMIT of replay_pending
  MaxEvents,    \* bound: rows inserted into the outbox
  MaxFaults     \* bound: statements that fail, publishers cut off, purges

Events == 1..MaxEvents

ASSUME TopologyAssumption ==
  /\ UserOf \in [Conns -> Users]
  /\ PodOf \in [Conns -> Pods]
  /\ Admitted \in [Users -> SUBSET Channels]

ASSUME KindAssumption ==
  /\ Kinds \subseteq [channel : Channels, audience : SUBSET Users, durable : BOOLEAN]
  /\ Kinds # {}

ASSUME BoundAssumption ==
  /\ ReplayLimit \in Nat \ {0}
  /\ MaxEvents \in Nat
  /\ MaxFaults \in Nat

VARIABLES
  outbox,      \* realtime_outbox: how far a row has come
  kind,        \* and what it holds
  deliveries,  \* realtime_deliveries: ack_at of an event and a subscriber
  listener,    \* the PgListener of a pod
  inbox,       \* the notifications a pod has not looked at
  work,        \* the dispatch a pod is busy with
  members,     \* a pod's list of connections
  phase,       \* of a connection
  subs,        \* subscriptions of a connection
  out,         \* frames on their way to the client of a connection
  acks,        \* acknowledgements on their way from the clients
  received,    \* history: the events a subscriber has received
  faults       \* history: faults so far

database == <<outbox, kind, deliveries>>
dispatch == <<listener, inbox, work>>
sockets == <<members, phase, subs, out>>
clients == <<acks, received>>
vars == <<database, dispatch, sockets, clients, faults>>

-----------------------------------------------------------------------------
(* an uncommitted row is invisible; a row is gone when its insertion was     *)
(* rolled back and when it has been purged                                   *)
Stages == {"unused", "inserted", "stored", "gone"}

(* a listener that could not connect at the start of its pod is dead *)
Listening == {"starting", "up", "down", "dead"}

(* a connection is registered, replays what is pending, and only then reads  *)
(* frames; one whose socket is lost stays listed until its task removes it   *)
Phases == {"closed", "registered", "open", "lost"}

Idle == [event |-> 0, rest |-> <<>>, sending |-> FALSE]

TypeOK ==
  /\ outbox \in [Events -> Stages]
  /\ kind \in [Events -> Kinds]
  /\ deliveries \in [Events -> [Users -> {"none", "pending", "acked"}]]
  /\ listener \in [Pods -> Listening]
  /\ inbox \in [Pods -> Seq(Events)]
  /\ work \in [Pods -> [event : 0..MaxEvents, rest : Seq(Conns), sending : BOOLEAN]]
  /\ members \in [Pods -> Seq(Conns)]
  /\ phase \in [Conns -> Phases]
  /\ subs \in [Conns -> SUBSET Channels]
  /\ out \in [Conns -> Seq(Events)]
  /\ acks \in SUBSET (Events \X Users)
  /\ received \in [Users -> SUBSET Events]
  /\ faults \in Nat

Init ==
  /\ outbox = [e \in Events |-> "unused"]
  /\ kind \in [Events -> Kinds]
  /\ deliveries = [e \in Events |-> [u \in Users |-> "none"]]
  /\ listener = [p \in Pods |-> "starting"]
  /\ inbox = [p \in Pods |-> <<>>]
  /\ work = [p \in Pods |-> Idle]
  /\ members = [p \in Pods |-> <<>>]
  /\ phase = [c \in Conns |-> "closed"]
  /\ subs = [c \in Conns |-> {}]
  /\ out = [c \in Conns |-> <<>>]
  /\ acks = {}
  /\ received = [u \in Users |-> {}]
  /\ faults = 0

(* a statement fails, and the code goes on *)
Fault ==
  /\ faults < MaxFaults
  /\ faults' = faults + 1

NoFault == UNCHANGED faults

-----------------------------------------------------------------------------
(* OutboxService::publish: an insertion in a transaction of its own, whose   *)
(* commit fires the trigger.  Ids are drawn in order at the insertion.       *)

Insert(e) ==
  /\ outbox[e] = "unused"
  /\ \A d \in Events : d < e => outbox[d] # "unused"
  /\ outbox' = [outbox EXCEPT ![e] = "inserted"]
  /\ UNCHANGED <<kind, deliveries, dispatch, sockets, clients, faults>>

Commit(e) ==
  /\ outbox[e] = "inserted"
  /\ outbox' = [outbox EXCEPT ![e] = "stored"]
  /\ inbox' = [p \in Pods |->
                 IF listener[p] = "up" THEN Append(inbox[p], e) ELSE inbox[p]]
  /\ UNCHANGED <<kind, deliveries, listener, work, sockets, clients, faults>>

Rollback(e) ==
  /\ outbox[e] = "inserted"
  /\ outbox' = [outbox EXCEPT ![e] = "gone"]
  /\ Fault
  /\ UNCHANGED <<kind, deliveries, dispatch, sockets, clients>>

(* cleanup: the retention window has passed, and the delivery rows cascade *)
Purge(e) ==
  /\ outbox[e] = "stored"
  /\ outbox' = [outbox EXCEPT ![e] = "gone"]
  /\ deliveries' = [deliveries EXCEPT ![e] = [u \in Users |-> "none"]]
  /\ Fault
  /\ UNCHANGED <<kind, dispatch, sockets, clients>>

-----------------------------------------------------------------------------
(* The dispatcher of a pod *)

StartListener(p) ==
  /\ listener[p] = "starting"
  /\ \/ listener' = [listener EXCEPT ![p] = "up"] /\ NoFault
     \/ listener' = [listener EXCEPT ![p] = "dead"] /\ Fault
  /\ UNCHANGED <<database, inbox, work, sockets, clients>>

(* the connection to PostgreSQL drops, with or without what it had buffered *)
LoseListener(p) ==
  /\ listener[p] = "up"
  /\ listener' = [listener EXCEPT ![p] = "down"]
  /\ \E kept \in {<<>>, inbox[p]} : inbox' = [inbox EXCEPT ![p] = kept]
  /\ UNCHANGED <<database, work, sockets, clients, faults>>

ResumeListener(p) ==
  /\ listener[p] = "down"
  /\ listener' = [listener EXCEPT ![p] = "up"]
  /\ UNCHANGED <<database, inbox, work, sockets, clients, faults>>

(* the row is fetched, and the connections of the pod are listed *)
Fetch(p) ==
  LET e == Head(inbox[p])
  IN
  /\ work[p] = Idle
  /\ listener[p] \in {"up", "down"}
  /\ inbox[p] # <<>>
  /\ inbox' = [inbox EXCEPT ![p] = Tail(@)]
  /\ \/ /\ outbox[e] = "stored"
        /\ members[p] # <<>>
        /\ work' = [work EXCEPT ![p] =
                      [event |-> e, rest |-> members[p], sending |-> FALSE]]
        /\ NoFault
     \/ /\ outbox[e] # "stored" \/ members[p] = <<>>
        /\ UNCHANGED work
        /\ NoFault
     \/ UNCHANGED work /\ Fault
  /\ UNCHANGED <<database, listener, sockets, clients>>

(* faulty: the audience of an event is not looked at *)
WantedByAnyone(c, e) == kind[e].channel \in subs[c]

(* matches_channel and passes_audience_filter *)
Wanted(c, e) ==
  /\ kind[e].channel \in subs[c]
  /\ UserOf[c] \in kind[e].audience

NextConn(p) ==
  LET e == work[p].event
      rest == Tail(work[p].rest)
  IN work' = [work EXCEPT ![p] =
                IF rest = <<>> THEN Idle
                ELSE [event |-> e, rest |-> rest, sending |-> FALSE]]

(* the frame is dropped when nothing writes to the socket any more *)
Enqueue(c, e) ==
  out' = IF phase[c] \in {"registered", "open"}
         THEN [out EXCEPT ![c] = Append(@, e)]
         ELSE out

(* faulty: a connection that does not want the event ends the dispatch *)
SkipRest(p) ==
  /\ work[p] # Idle /\ ~work[p].sending
  /\ ~Wanted(Head(work[p].rest), work[p].event)
  /\ work' = [work EXCEPT ![p] = Idle]
  /\ UNCHANGED <<database, listener, inbox, sockets, clients, faults>>

Skip(p) ==
  /\ work[p] # Idle /\ ~work[p].sending
  /\ ~Wanted(Head(work[p].rest), work[p].event)
  /\ NextConn(p)
  /\ UNCHANGED <<database, listener, inbox, sockets, clients, faults>>

(* faulty: a delivery that exists is written again *)
InsertedAnew(e, u) == [deliveries EXCEPT ![e][u] = "pending"]

(* insert_delivery: ON CONFLICT DO NOTHING *)
Inserted(e, u) ==
  [deliveries EXCEPT ![e][u] = IF @ = "none" THEN "pending" ELSE @]

(* faulty: an event is only tracked once it has been sent *)
TrackAfter(p) ==
  LET c == Head(work[p].rest)
      e == work[p].event
  IN
  /\ work[p] # Idle /\ ~work[p].sending
  /\ kind[e].durable /\ Wanted(c, e)
  /\ Enqueue(c, e)
  /\ work' = [work EXCEPT ![p].sending = TRUE]
  /\ UNCHANGED <<database, listener, inbox, members, phase, subs, clients, faults>>

(* a delivery row for a durable event; the outcome is ignored *)
Track(p) ==
  LET c == Head(work[p].rest)
      e == work[p].event
  IN
  /\ work[p] # Idle /\ ~work[p].sending
  /\ kind[e].durable /\ Wanted(c, e)
  /\ \/ outbox[e] = "stored" /\ deliveries' = Inserted(e, UserOf[c]) /\ NoFault
     \/ outbox[e] # "stored" /\ UNCHANGED deliveries /\ NoFault
     \/ UNCHANGED deliveries /\ Fault
  /\ work' = [work EXCEPT ![p].sending = TRUE]
  /\ UNCHANGED <<outbox, kind, listener, inbox, sockets, clients>>

Send(p) ==
  LET c == Head(work[p].rest)
      e == work[p].event
  IN
  /\ work[p] # Idle
  /\ work[p].sending \/ (~kind[e].durable /\ Wanted(c, e))
  /\ Enqueue(c, e)
  /\ NextConn(p)
  /\ UNCHANGED <<database, listener, inbox, members, phase, subs, clients, faults>>

-----------------------------------------------------------------------------
(* A connection *)

Connect(c) ==
  LET p == PodOf[c]
  IN
  /\ phase[c] = "closed"
  /\ work[p] = Idle
  /\ phase' = [phase EXCEPT ![c] = "registered"]
  /\ members' = [members EXCEPT ![p] = Append(@, c)]
  /\ UNCHANGED <<database, dispatch, subs, out, clients, faults>>

(* the first ReplayLimit of a set of events, by id: the only sequence of    *)
(* them that leaves nothing out but what comes after its last               *)
Oldest(due) ==
  {s \in UNION {[1..n -> due] : n \in 0..ReplayLimit} :
     /\ \A i, j \in DOMAIN s : i < j => s[i] < s[j]
     /\ \A e \in due : \/ \E i \in DOMAIN s : s[i] = e
                       \/ Len(s) = ReplayLimit /\ s[ReplayLimit] < e}

(* faulty: only what the connection is subscribed to is replayed *)
PendingOnChannels(c) ==
  Oldest({e \in Events : /\ deliveries[e][UserOf[c]] = "pending"
                         /\ kind[e].channel \in subs[c]})

(* replay_pending *)
Pending(c) == Oldest({e \in Events : deliveries[e][UserOf[c]] = "pending"})

Replay(c) ==
  /\ phase[c] = "registered"
  /\ phase' = [phase EXCEPT ![c] = "open"]
  /\ \/ \E pending \in Pending(c) : out' = [out EXCEPT ![c] = @ \o pending]
        /\ NoFault
     \/ UNCHANGED out /\ Fault
  /\ UNCHANGED <<database, dispatch, members, subs, clients>>

(* the dispatcher holds a connection while it looks at it *)
Held(c) ==
  LET p == PodOf[c]
  IN work[p].sending /\ Head(work[p].rest) = c

Subscribe(c, channel) ==
  /\ phase[c] = "open"
  /\ channel \in Admitted[UserOf[c]] \ subs[c]
  /\ ~Held(c)
  /\ subs' = [subs EXCEPT ![c] = @ \cup {channel}]
  /\ UNCHANGED <<database, dispatch, members, phase, out, clients, faults>>

Unsubscribe(c, channel) ==
  /\ phase[c] = "open"
  /\ channel \in subs[c]
  /\ ~Held(c)
  /\ subs' = [subs EXCEPT ![c] = @ \ {channel}]
  /\ UNCHANGED <<database, dispatch, members, phase, out, clients, faults>>

(* the client acknowledges an event as it receives it, durable or not *)
Receive(c) ==
  LET e == Head(out[c])
      u == UserOf[c]
  IN
  /\ phase[c] = "open"
  /\ out[c] # <<>>
  /\ out' = [out EXCEPT ![c] = Tail(@)]
  /\ received' = [received EXCEPT ![u] = @ \cup {e}]
  /\ acks' = acks \cup {<<e, u>>}
  /\ UNCHANGED <<database, dispatch, members, phase, subs, faults>>

(* faulty: an acknowledgement stands for everything before it *)
MarkedUpTo(e, u) ==
  [d \in Events |-> [v \in Users |->
     IF d <= e /\ v = u /\ deliveries[d][v] = "pending"
     THEN "acked" ELSE deliveries[d][v]]]

(* mark_acked *)
Marked(e, u) ==
  [deliveries EXCEPT ![e][u] = IF @ = "pending" THEN "acked" ELSE @]

Acknowledge(e, u) ==
  /\ <<e, u>> \in acks
  /\ acks' = acks \ {<<e, u>>}
  /\ \/ deliveries' = Marked(e, u) /\ NoFault
     \/ UNCHANGED deliveries /\ Fault
  /\ UNCHANGED <<outbox, kind, dispatch, sockets, received>>

(* what was under way in either direction may be lost with the socket; a     *)
(* read task that outlives its connection still handles what it was sent     *)
Drop(c) ==
  /\ phase[c] \in {"registered", "open"}
  /\ phase' = [phase EXCEPT ![c] = "lost"]
  /\ out' = [out EXCEPT ![c] = <<>>]
  /\ \E lost \in SUBSET {a \in acks : a[2] = UserOf[c]} : acks' = acks \ lost
  /\ UNCHANGED <<database, dispatch, members, subs, received, faults>>

Without(s, i) == SubSeq(s, 1, i - 1) \o SubSeq(s, i + 1, Len(s))

(* faulty: the list is changed under a dispatch *)
RemoveAtOnce(c) ==
  LET p == PodOf[c]
  IN
  /\ phase[c] = "lost"
  /\ phase' = [phase EXCEPT ![c] = "closed"]
  /\ subs' = [subs EXCEPT ![c] = {}]
  /\ \E i \in DOMAIN members[p] :
       members[p][i] = c /\ members' = [members EXCEPT ![p] = Without(@, i)]
  /\ UNCHANGED <<database, dispatch, out, clients, faults>>

Remove(c) ==
  LET p == PodOf[c]
  IN
  /\ phase[c] = "lost"
  /\ work[p] = Idle
  /\ phase' = [phase EXCEPT ![c] = "closed"]
  /\ subs' = [subs EXCEPT ![c] = {}]
  /\ \E i \in DOMAIN members[p] :
       members[p][i] = c /\ members' = [members EXCEPT ![p] = Without(@, i)]
  /\ UNCHANGED <<database, dispatch, out, clients, faults>>

(* a pod stops and starts: everything it kept in memory is gone *)
Restart(p) ==
  LET mine == {c \in Conns : PodOf[c] = p}
  IN
  /\ listener' = [listener EXCEPT ![p] = "starting"]
  /\ inbox' = [inbox EXCEPT ![p] = <<>>]
  /\ work' = [work EXCEPT ![p] = Idle]
  /\ members' = [members EXCEPT ![p] = <<>>]
  /\ phase' = [c \in Conns |-> IF c \in mine THEN "closed" ELSE phase[c]]
  /\ subs' = [c \in Conns |-> IF c \in mine THEN {} ELSE subs[c]]
  /\ out' = [c \in Conns |-> IF c \in mine THEN <<>> ELSE out[c]]
  /\ \E lost \in SUBSET {a \in acks : \E c \in mine : UserOf[c] = a[2]} :
       acks' = acks \ lost
  /\ Fault
  /\ UNCHANGED <<database, received>>

-----------------------------------------------------------------------------
Publishing(e) == Insert(e) \/ Commit(e) \/ Rollback(e) \/ Purge(e)

Listen(p) == StartListener(p) \/ LoseListener(p) \/ ResumeListener(p)

Dispatch(p) == Fetch(p) \/ Skip(p) \/ Track(p) \/ Send(p)

Serve(c) ==
  \/ Connect(c) \/ Replay(c) \/ Receive(c) \/ Drop(c) \/ Remove(c)
  \/ \E channel \in Channels : Subscribe(c, channel) \/ Unsubscribe(c, channel)

Next ==
  \/ \E e \in Events : Publishing(e)
  \/ \E p \in Pods : Listen(p) \/ Dispatch(p) \/ Restart(p)
  \/ \E c \in Conns : Serve(c)
  \/ \E e \in Events, u \in Users : Acknowledge(e, u)

Spec == Init /\ [][Next]_vars

(* Tasks that can run do run, the network delivers what it does not lose,    *)
(* and an acknowledgement that arrived is handled.                           *)
Fairness ==
  /\ \A p \in Pods : WF_vars(Dispatch(p))
  /\ \A c \in Conns : WF_vars(Replay(c)) /\ WF_vars(Receive(c))
  /\ \A e \in Events, u \in Users : WF_vars(Acknowledge(e, u))

FairSpec == Spec /\ Fairness

-----------------------------------------------------------------------------
(* Properties *)

Listed(c, list) == \E i \in DOMAIN list : list[i] = c

(* A dispatch visits only connections its pod still lists, and a connection  *)
(* that closed leaves no subscription and no frame to the one that takes its *)
(* place.                                                                    *)
ListIntact ==
  /\ \A c \in Conns :
       /\ phase[c] = "closed" => subs[c] = {} /\ out[c] = <<>>
       /\ phase[c] # "closed" <=> Listed(c, members[PodOf[c]])
  /\ \A p \in Pods, c \in Conns :
       Listed(c, work[p].rest) => PodOf[c] = p /\ Listed(c, members[p])

Sent(c, e) == \E i \in DOMAIN out[c] : out[c][i] = e

(* An event reaches only those it is for: a subscriber the access rules      *)
(* admit to its channel and its audience includes, whether it was sent live  *)
(* or replayed from a delivery row on another connection or pod.             *)
OnlyAudience ==
  \A c \in Conns, e \in Events :
    (Sent(c, e) \/ e \in received[UserOf[c]]) =>
      /\ kind[e].channel \in Admitted[UserOf[c]]
      /\ UserOf[c] \in kind[e].audience

(* A delivery is acknowledged only by the subscriber that received it, so    *)
(* that no event is taken off the replay before it arrived.                  *)
AckedWasReceived ==
  \A e \in Events, u \in Users : deliveries[e][u] = "acked" => e \in received[u]

(* A durable event leaves with its delivery row written: whatever happens to *)
(* the socket, a subscriber it was sent to finds it on the next connection.  *)
SentIsTracked ==
  faults = 0 =>
    \A c \in Conns, e \in Events :
      (kind[e].durable /\ (Sent(c, e) \/ e \in received[UserOf[c]]))
        => deliveries[e][UserOf[c]] # "none"

(* An acknowledgement is final: a second connection or another pod that is   *)
(* dispatching the same event does not make it pending again.                *)
AckIsFinal ==
  [][\A e \in Events, u \in Users :
       deliveries[e][u] = "acked" =>
         deliveries'[e][u] = "acked" \/ outbox'[e] = "gone"]_vars

NextUp(e, u) ==
  /\ deliveries[e][u] = "pending"
  /\ \A d \in Events : d < e => deliveries[d][u] # "pending"

(* A subscriber that connects gets what is pending: its oldest event is      *)
(* replayed and acknowledged unless the socket is lost again.                *)
ReplayedIsAcked ==
  \A c \in Conns, e \in Events :
    (phase[c] = "registered" /\ NextUp(e, UserOf[c]))
      ~> \/ ~NextUp(e, UserOf[c])
         \/ phase[c] \notin {"registered", "open"}
         \/ faults > 0

Notified(c, e) == \E i \in DOMAIN inbox[PodOf[c]] : inbox[PodOf[c]][i] = e

Subscribed(c, e) == phase[c] = "open" /\ Wanted(c, e)

(* An event a pod was notified of reaches every connection subscribed to it  *)
(* there, unless the connection or the listener is lost in between.          *)
NotifiedIsDelivered ==
  \A c \in Conns, e \in Events :
    (Notified(c, e) /\ Subscribed(c, e))
      ~> \/ e \in received[UserOf[c]]
         \/ ~Subscribed(c, e)
         \/ listener[PodOf[c]] # "up"
         \/ faults > 0

(* nothing is under way, and the subscriber is back on all its channels *)
Settled(c) ==
  /\ phase[c] = "open" /\ out[c] = <<>> /\ acks = {}
  /\ subs[c] = Admitted[UserOf[c]]
  /\ \A p \in Pods : listener[p] = "up" /\ inbox[p] = <<>> /\ work[p] = Idle

(* A durable event that a station missed while its socket was down is        *)
(* replayed to it once it has connected again.                               *)
MissedIsReplayed ==
  \A c \in Conns, e \in Events :
    (Settled(c) /\ outbox[e] = "stored" /\ kind[e].durable
       /\ kind[e].channel \in Admitted[UserOf[c]] /\ UserOf[c] \in kind[e].audience)
      => e \in received[UserOf[c]]
=============================================================================
