----------------------- MODULE RealtimeDelivery_proof -----------------------
(***************************************************************************)
(* Theorems about RealtimeDelivery for every set of subscribers, pods and  *)
(* connections, every kind of event and every bound.                       *)
(*                                                                         *)
(* The invariants that matter speak of events that arrived.  What makes    *)
(* them inductive is the way an event takes: the dispatch that is sending  *)
(* it, the frames on their way, the acknowledgements on theirs.            *)
(***************************************************************************)
EXTENDS RealtimeDelivery, SequenceTheorems, TLAPS

USE DEF database, dispatch, sockets, clients

(* A pod that is busy has an event and a connection to look at. *)
Busy ==
  \A p \in Pods :
    work[p] # Idle => work[p].event \in Events /\ work[p].rest # <<>>

Inv == TypeOK /\ Busy

-----------------------------------------------------------------------------
(* Sequences *)

(* A prefix of what is pending is a sequence of events. *)
LEMMA PendingType ==
  ASSUME NEW c \in Conns, NEW s \in Pending(c)
  PROVE  /\ s \in Seq(Events)
         /\ \A i \in DOMAIN s : deliveries[s[i]][UserOf[c]] = "pending"
<1>. DEFINE due == {e \in Events : deliveries[e][UserOf[c]] = "pending"}
<1>1. PICK n \in 0..ReplayLimit : s \in [1..n -> due]
  BY DEF Pending, Oldest
<1>2. n \in Nat
  BY BoundAssumption
<1>3. s \in Seq(due)
  BY <1>1, <1>2
<1>. QED
  BY <1>3

(* A list without one of its elements is a list. *)
LEMMA WithoutType ==
  ASSUME NEW S, NEW s \in Seq(S), NEW i \in DOMAIN s
  PROVE  Without(s, i) \in Seq(S)
BY DEF Without

(* The tail of a list that is not empty is a list of the same things. *)
LEMMA TailType ==
  ASSUME NEW S, NEW s \in Seq(S), s # <<>>
  PROVE  /\ Tail(s) \in Seq(S)
         /\ Head(s) \in S
         /\ Head(s) = s[1] /\ 1 \in DOMAIN s
         /\ \A i \in DOMAIN Tail(s) : i + 1 \in DOMAIN s /\ Tail(s)[i] = s[i + 1]
OBVIOUS

Written(e, u, ack) == [deliveries EXCEPT ![e][u] = ack]

(* A write to one delivery row changes that row. *)
LEMMA RowWritten ==
  ASSUME TypeOK, NEW e \in Events, NEW u \in Users,
         NEW ack \in {"none", "pending", "acked"},
         deliveries' = Written(e, u, ack)
  PROVE  /\ deliveries' \in [Events -> [Users -> {"none", "pending", "acked"}]]
         /\ \A f \in Events, v \in Users :
              deliveries'[f][v] = IF f = e /\ v = u THEN ack ELSE deliveries[f][v]
<1>. DEFINE Acks == {"none", "pending", "acked"}
            row == [deliveries[e] EXCEPT ![u] = ack]
<1>1. deliveries \in [Events -> [Users -> Acks]] /\ deliveries[e] \in [Users -> Acks]
  BY DEF TypeOK
<1>2. row \in [Users -> Acks] /\ \A v \in Users : row[v] = IF v = u THEN ack ELSE deliveries[e][v]
  BY <1>1
<1>3. deliveries' = [deliveries EXCEPT ![e] = row]
  BY DEF Written
<1>. HIDE DEF row
<1>4. deliveries' \in [Events -> [Users -> Acks]]
  BY <1>1, <1>2, <1>3
<1>5. \A f \in Events : deliveries'[f] = IF f = e THEN row ELSE deliveries[f]
  BY <1>1, <1>3
<1>. QED
  BY <1>2, <1>4, <1>5

(* insert_delivery creates a row, and leaves one that exists alone. *)
LEMMA InsertedRow ==
  ASSUME TypeOK, NEW e \in Events, NEW u \in Users, deliveries' = Inserted(e, u)
  PROVE  /\ deliveries' \in [Events -> [Users -> {"none", "pending", "acked"}]]
         /\ deliveries'[e][u] # "none"
         /\ \A f \in Events, v \in Users :
              \/ deliveries'[f][v] = deliveries[f][v]
              \/ f = e /\ v = u /\ deliveries[f][v] = "none" /\ deliveries'[f][v] = "pending"
<1>. DEFINE ack == IF deliveries[e][u] = "none" THEN "pending" ELSE deliveries[e][u]
<1>1. ack \in {"none", "pending", "acked"}
  BY DEF TypeOK
<1>2. deliveries' = Written(e, u, ack)
  BY DEF Inserted, Written
<1>. HIDE DEF ack
<1>3. /\ deliveries' \in [Events -> [Users -> {"none", "pending", "acked"}]]
      /\ \A f \in Events, v \in Users :
           deliveries'[f][v] = IF f = e /\ v = u THEN ack ELSE deliveries[f][v]
  BY <1>1, <1>2, RowWritten
<1>. QED
  BY <1>1, <1>3 DEF ack

(* mark_acked acknowledges a pending row, and no other. *)
LEMMA MarkedRow ==
  ASSUME TypeOK, NEW e \in Events, NEW u \in Users, deliveries' = Marked(e, u)
  PROVE  /\ deliveries' \in [Events -> [Users -> {"none", "pending", "acked"}]]
         /\ \A f \in Events, v \in Users :
              \/ deliveries'[f][v] = deliveries[f][v]
              \/ f = e /\ v = u /\ deliveries[f][v] = "pending" /\ deliveries'[f][v] = "acked"
<1>. DEFINE ack == IF deliveries[e][u] = "pending" THEN "acked" ELSE deliveries[e][u]
<1>1. ack \in {"none", "pending", "acked"}
  BY DEF TypeOK
<1>2. deliveries' = Written(e, u, ack)
  BY DEF Marked, Written
<1>. HIDE DEF ack
<1>3. /\ deliveries' \in [Events -> [Users -> {"none", "pending", "acked"}]]
      /\ \A f \in Events, v \in Users :
           deliveries'[f][v] = IF f = e /\ v = u THEN ack ELSE deliveries[f][v]
  BY <1>1, <1>2, RowWritten
<1>. QED
  BY <1>1, <1>3 DEF ack

-----------------------------------------------------------------------------
(* Types *)

(* A pod that has looked at a connection turns to the next one. *)
LEMMA NextConnType ==
  ASSUME Inv, NEW p \in Pods, work[p] # Idle, NextConn(p)
  PROVE  /\ work' \in [Pods -> [event : 0..MaxEvents, rest : Seq(Conns),
                                sending : BOOLEAN]]
         /\ Busy'
<1>. DEFINE W == [event : 0..MaxEvents, rest : Seq(Conns), sending : BOOLEAN]
            rest == Tail(work[p].rest)
            new == IF rest = <<>> THEN Idle
                   ELSE [event |-> work[p].event, rest |-> rest, sending |-> FALSE]
<1>1. work \in [Pods -> W]
  BY DEF Inv, TypeOK
<1>2. work[p] \in W /\ work[p].rest # <<>> /\ work[p].event \in Events
  BY <1>1 DEF Inv, Busy
<1>3. rest \in Seq(Conns)
  BY <1>2, TailType
<1>4. Idle \in W
  BY BoundAssumption DEF Idle
<1>5. new \in W /\ (new # Idle => new.event \in Events /\ new.rest # <<>>)
  BY <1>2, <1>3, <1>4
<1>6. work' = [work EXCEPT ![p] = new]
  BY DEF NextConn
<1>7. work' \in [Pods -> W]
  BY <1>1, <1>5, <1>6
<1>8. ASSUME NEW q \in Pods, work'[q] # Idle
      PROVE  work'[q].event \in Events /\ work'[q].rest # <<>>
  <2>1. CASE q = p
    BY <1>1, <1>5, <1>6, <1>8, <2>1
  <2>2. CASE q # p
    BY <1>1, <1>6, <1>8, <2>2 DEF Inv, Busy
  <2>. QED
    BY <2>1, <2>2
<1>. QED
  BY <1>7, <1>8 DEF Busy

(* The frame a connection is sent keeps the queues well typed. *)
LEMMA EnqueueType ==
  ASSUME TypeOK, NEW c \in Conns, NEW e \in Events, Enqueue(c, e)
  PROVE  out' \in [Conns -> Seq(Events)]
<1>1. Append(out[c], e) \in Seq(Events)
  BY DEF TypeOK
<1>. QED
  BY <1>1 DEF TypeOK, Enqueue

-----------------------------------------------------------------------------
(* Every step keeps the types. *)

LEMMA InitType == Init => Inv
BY BoundAssumption DEF Init, Inv, TypeOK, Busy, Stages, Listening, Phases, Idle

LEMMA PublishingType ==
  ASSUME Inv, NEW e \in Events, Publishing(e)
  PROVE  Inv'
<1>. USE DEF Inv, TypeOK, Busy, Stages, Fault
<1>1. CASE Insert(e)
  BY <1>1 DEF Insert
<1>2. CASE Commit(e)
  <2>1. inbox' \in [Pods -> Seq(Events)]
    BY <1>2 DEF Commit
  <2>. QED
    BY <1>2, <2>1 DEF Commit
<1>3. CASE Rollback(e)
  BY <1>3 DEF Rollback
<1>4. CASE Purge(e)
  <2>1. deliveries' \in [Events -> [Users -> {"none", "pending", "acked"}]]
    BY <1>4 DEF Purge
  <2>. QED
    BY <1>4, <2>1 DEF Purge
<1>. QED
  BY <1>1, <1>2, <1>3, <1>4 DEF Publishing

LEMMA ListenType ==
  ASSUME Inv, NEW p \in Pods, Listen(p)
  PROVE  Inv'
<1>. USE DEF Inv, TypeOK, Busy, Listening, Fault, NoFault
<1>1. CASE StartListener(p)
  <2>1. PICK l \in Listening : listener' = [listener EXCEPT ![p] = l]
    BY <1>1 DEF StartListener
  <2>2. listener' \in [Pods -> Listening]
    BY <2>1
  <2>3. faults' \in Nat
    BY <1>1 DEF StartListener
  <2>. QED
    BY <1>1, <2>2, <2>3 DEF StartListener
<1>2. CASE LoseListener(p)
  <2>1. inbox' \in [Pods -> Seq(Events)]
    <3>1. PICK kept \in {<<>>, inbox[p]} : inbox' = [inbox EXCEPT ![p] = kept]
      BY <1>2 DEF LoseListener
    <3>2. <<>> \in Seq(Events) /\ inbox[p] \in Seq(Events)
      OBVIOUS
    <3>. QED
      BY <3>1, <3>2
  <2>. QED
    BY <1>2, <2>1 DEF LoseListener
<1>3. CASE ResumeListener(p)
  BY <1>3 DEF ResumeListener
<1>. QED
  BY <1>1, <1>2, <1>3 DEF Listen

LEMMA DispatchType ==
  ASSUME Inv, NEW p \in Pods, Dispatch(p)
  PROVE  Inv'
<1>. DEFINE W == [event : 0..MaxEvents, rest : Seq(Conns), sending : BOOLEAN]
<1>. USE DEF Inv
<1>1. work \in [Pods -> W] /\ Idle \in W
  BY BoundAssumption DEF TypeOK, Idle
<1>2. CASE Fetch(p)
  <2>. DEFINE e == Head(inbox[p])
              new == [event |-> e, rest |-> members[p], sending |-> FALSE]
  <2>1. inbox[p] \in Seq(Events) /\ inbox[p] # <<>>
    BY <1>2 DEF Fetch, TypeOK
  <2>2. e \in Events /\ Tail(inbox[p]) \in Seq(Events)
    BY <2>1, TailType
  <2>3. inbox' \in [Pods -> Seq(Events)]
    BY <1>2, <2>2 DEF Fetch, TypeOK
  <2>4. \/ work' = work
        \/ work' = [work EXCEPT ![p] = new] /\ members[p] # <<>>
    BY <1>2 DEF Fetch
  <2>5. new \in W
    BY <2>2, BoundAssumption DEF TypeOK, Events
  <2>6. work' \in [Pods -> W]
    BY <1>1, <2>4, <2>5
  <2>6a. Busy'
    <3>1. ASSUME NEW q \in Pods, work'[q] # Idle
          PROVE  work'[q].event \in Events /\ work'[q].rest # <<>>
      <4>1. CASE work'[q] = work[q]
        BY <3>1, <4>1 DEF Busy
      <4>2. CASE work'[q] # work[q]
        BY <1>1, <2>2, <2>4, <4>2
      <4>. QED
        BY <4>1, <4>2
    <3>. QED
      BY <3>1 DEF Busy
  <2>7. faults' \in Nat
    BY <1>2 DEF Fetch, Fault, NoFault, TypeOK
  <2>. QED
    BY <1>2, <2>3, <2>6, <2>6a, <2>7 DEF Fetch, TypeOK
<1>3. CASE Skip(p)
  <2>1. work' \in [Pods -> W] /\ Busy'
    BY <1>3, NextConnType DEF Skip
  <2>. QED
    BY <1>3, <2>1 DEF Skip, TypeOK
<1>4. CASE Track(p)
  <2>1. work[p] # Idle /\ work' = [work EXCEPT ![p].sending = TRUE]
    BY <1>4 DEF Track
  <2>2. work' \in [Pods -> W] /\ Busy'
    BY <1>1, <2>1 DEF Busy
  <2>3. deliveries' \in [Events -> [Users -> {"none", "pending", "acked"}]]
    <3>1. /\ work[p].event \in Events
          /\ UserOf[Head(work[p].rest)] \in Users
      BY <1>1, <2>1, TailType, TopologyAssumption DEF Busy
    <3>. QED
      BY <1>4, <3>1, InsertedRow DEF Track, TypeOK
  <2>4. faults' \in Nat
    BY <1>4 DEF Track, Fault, NoFault, TypeOK
  <2>. QED
    BY <1>4, <2>2, <2>3, <2>4 DEF Track, TypeOK
<1>5. CASE Send(p)
  <2>. DEFINE c == Head(work[p].rest)
              e == work[p].event
  <2>1. work[p] # Idle /\ NextConn(p) /\ Enqueue(c, e)
    BY <1>5 DEF Send
  <2>2. work' \in [Pods -> W] /\ Busy'
    BY <2>1, NextConnType
  <2>3. e \in Events /\ c \in Conns
    BY <1>1, <2>1, TailType DEF Busy
  <2>4. out' \in [Conns -> Seq(Events)]
    BY <2>1, <2>3, EnqueueType
  <2>. QED
    BY <1>5, <2>2, <2>4 DEF Send, TypeOK
<1>. QED
  BY <1>2, <1>3, <1>4, <1>5 DEF Dispatch

LEMMA ServeType ==
  ASSUME Inv, NEW c \in Conns, Serve(c)
  PROVE  Inv'
<1>. USE TopologyAssumption DEF Inv, TypeOK, Busy, Phases, Fault, NoFault
<1>1. CASE Connect(c)
  BY <1>1 DEF Connect
<1>2. CASE Replay(c)
  <2>1. out' \in [Conns -> Seq(Events)]
    <3>1. CASE UNCHANGED out
      BY <3>1
    <3>2. ASSUME NEW pending \in Pending(c), out' = [out EXCEPT ![c] = @ \o pending]
          PROVE  out' \in [Conns -> Seq(Events)]
      <4>1. out[c] \o pending \in Seq(Events)
        BY PendingType
      <4>. QED
        BY <3>2, <4>1
    <3>. QED
      BY <1>2, <3>1, <3>2 DEF Replay
  <2>2. faults' \in Nat /\ phase' \in [Conns -> Phases]
    BY <1>2 DEF Replay
  <2>. QED
    BY <1>2, <2>1, <2>2 DEF Replay
<1>3. CASE Receive(c)
  <2>1. Head(out[c]) \in Events /\ Tail(out[c]) \in Seq(Events)
    BY <1>3, TailType DEF Receive
  <2>. QED
    BY <1>3, <2>1 DEF Receive
<1>4. CASE Drop(c)
  BY <1>4 DEF Drop
<1>5. CASE Remove(c)
  <2>1. PICK i \in DOMAIN members[PodOf[c]] :
          members' = [members EXCEPT ![PodOf[c]] = Without(@, i)]
    BY <1>5 DEF Remove
  <2>2. members' \in [Pods -> Seq(Conns)]
    BY <2>1, WithoutType
  <2>. QED
    BY <1>5, <2>2 DEF Remove
<1>6. ASSUME NEW channel \in Channels, Subscribe(c, channel) \/ Unsubscribe(c, channel)
      PROVE  Inv'
  <2>1. PICK new \in SUBSET Channels : subs' = [subs EXCEPT ![c] = new]
    <3>1. UserOf[c] \in Users /\ Admitted[UserOf[c]] \in SUBSET Channels
      OBVIOUS
    <3>2. subs[c] \cup {channel} \in SUBSET Channels /\ subs[c] \ {channel} \in SUBSET Channels
      OBVIOUS
    <3>. QED
      BY <1>6, <3>2 DEF Subscribe, Unsubscribe
  <2>2. subs' \in [Conns -> SUBSET Channels]
    BY <2>1
  <2>. QED
    BY <1>6, <2>2 DEF Subscribe, Unsubscribe
<1>. QED
  BY <1>1, <1>2, <1>3, <1>4, <1>5, <1>6 DEF Serve

LEMMA AcknowledgeType ==
  ASSUME Inv, NEW e \in Events, NEW u \in Users, Acknowledge(e, u)
  PROVE  Inv'
<1>1. deliveries' \in [Events -> [Users -> {"none", "pending", "acked"}]]
  BY MarkedRow DEF Acknowledge, Inv, TypeOK
<1>2. faults' \in Nat /\ acks' \in SUBSET (Events \X Users)
  BY DEF Acknowledge, Fault, NoFault, Inv, TypeOK
<1>. QED
  BY <1>1, <1>2 DEF Acknowledge, Inv, TypeOK, Busy

LEMMA RestartType ==
  ASSUME Inv, NEW p \in Pods, Restart(p)
  PROVE  Inv'
<1>1. Idle \in [event : 0..MaxEvents, rest : Seq(Conns), sending : BOOLEAN]
  BY BoundAssumption DEF Idle
<1>2. /\ <<>> \in Seq(Conns) /\ <<>> \in Seq(Events)
      /\ \A S : {} \in SUBSET S
  OBVIOUS
<1>. QED
  BY <1>1, <1>2 DEF Restart, Fault, Inv, TypeOK, Busy, Listening, Phases

LEMMA NextType ==
  ASSUME Inv, [Next]_vars
  PROVE  Inv'
<1>1. CASE Next
  BY <1>1, PublishingType, ListenType, DispatchType, ServeType,
     AcknowledgeType, RestartType DEF Next
<1>2. CASE UNCHANGED vars
  BY <1>2 DEF vars, Inv, TypeOK, Busy
<1>. QED
  BY <1>1, <1>2

(* Every reachable state is well typed, and a busy pod has something to do. *)
THEOREM TypeCorrect == Spec => []Inv
BY InitType, NextType, PTL DEF Spec

-----------------------------------------------------------------------------
(* What a step can do *)

(* What an event holds never changes. *)
LEMMA KindFixed ==
  ASSUME [Next]_vars
  PROVE  kind' = kind
BY ZenonT(40) DEF Next, vars, Publishing, Insert, Commit, Rollback, Purge,
       Listen, StartListener, LoseListener, ResumeListener,
       Dispatch, Fetch, Skip, Track, Send, Restart, Acknowledge,
       Serve, Connect, Replay, Receive, Drop, Remove, Subscribe, Unsubscribe

(* Faults are counted. *)
LEMMA FaultsCounted ==
  ASSUME Inv, [Next]_vars
  PROVE  faults' = faults \/ faults' = faults + 1
BY DEF Next, vars, Publishing, Insert, Commit, Rollback, Purge,
       Listen, StartListener, LoseListener, ResumeListener,
       Dispatch, Fetch, Skip, Track, Send, Restart, Acknowledge,
       Serve, Connect, Replay, Receive, Drop, Remove, Subscribe, Unsubscribe,
       Fault, NoFault

(* A delivery row changes when a dispatch tracks it, when its subscriber     *)
(* acknowledges it, and when its event is purged.                            *)
LEMMA RowChanges ==
  ASSUME Inv, [Next]_vars, NEW e \in Events, NEW u \in Users,
         deliveries'[e][u] # deliveries[e][u]
  PROVE  \/ /\ deliveries[e][u] = "none" /\ deliveries'[e][u] = "pending"
            /\ \E p \in Pods :
                 Track(p) /\ e = work[p].event /\ u = UserOf[Head(work[p].rest)]
         \/ /\ deliveries[e][u] = "pending" /\ deliveries'[e][u] = "acked"
            /\ <<e, u>> \in acks /\ UNCHANGED received
         \/ /\ deliveries'[e][u] = "none" /\ outbox'[e] = "gone"
            /\ faults' = faults + 1
<1>. USE DEF Inv
<1>1. CASE UNCHANGED deliveries
  BY <1>1
<1>2. ASSUME NEW f \in Events, Purge(f)
      PROVE  /\ deliveries'[e][u] = "none" /\ outbox'[e] = "gone"
             /\ faults' = faults + 1
  BY <1>2 DEF Purge, Fault, TypeOK
<1>3. ASSUME NEW p \in Pods, Track(p)
      PROVE  /\ deliveries[e][u] = "none" /\ deliveries'[e][u] = "pending"
             /\ e = work[p].event /\ u = UserOf[Head(work[p].rest)]
  <2>. DEFINE f == work[p].event
              v == UserOf[Head(work[p].rest)]
  <2>1. f \in Events /\ v \in Users /\ TypeOK
    BY <1>3, TailType, TopologyAssumption DEF Track, TypeOK, Busy
  <2>2. deliveries' = Inserted(f, v) \/ UNCHANGED deliveries
    BY <1>3 DEF Track
  <2>. HIDE DEF f, v, Inv
  <2>3. deliveries' = Inserted(f, v) =>
          \A g \in Events, w \in Users :
            \/ deliveries'[g][w] = deliveries[g][w]
            \/ /\ g = f /\ w = v
               /\ deliveries[g][w] = "none" /\ deliveries'[g][w] = "pending"
    BY <2>1, InsertedRow
  <2>. QED
    BY <2>2, <2>3 DEF f, v
<1>4. ASSUME NEW f \in Events, NEW v \in Users, Acknowledge(f, v)
      PROVE  /\ deliveries[e][u] = "pending" /\ deliveries'[e][u] = "acked"
             /\ <<e, u>> \in acks /\ UNCHANGED received
  <2>1. deliveries' = Marked(f, v) /\ <<f, v>> \in acks /\ UNCHANGED received
    BY <1>4 DEF Acknowledge
  <2>. QED
    BY <2>1, MarkedRow, SMTT(30)
<1>5. \/ UNCHANGED deliveries
      \/ \E f \in Events : Purge(f)
      \/ \E p \in Pods : Track(p)
      \/ \E f \in Events, v \in Users : Acknowledge(f, v)
  BY DEF Next, vars, Publishing, Insert, Commit, Rollback,
         Listen, StartListener, LoseListener, ResumeListener,
         Dispatch, Fetch, Skip, Send, Restart,
         Serve, Connect, Replay, Receive, Drop, Remove, Subscribe, Unsubscribe
<1>. QED
  BY <1>1, <1>2, <1>3, <1>4, <1>5

(* A subscriber receives only what is on its way to one of its connections. *)
LEMMA ReceivedWasSent ==
  ASSUME Inv, [Next]_vars, NEW u \in Users, NEW e \in received'[u]
  PROVE  \/ e \in received[u]
         \/ /\ \E c \in Conns : UserOf[c] = u /\ Sent(c, e)
            /\ UNCHANGED <<deliveries, faults>>
<1>1. CASE UNCHANGED received
  BY <1>1
<1>2. ASSUME NEW c \in Conns, Receive(c), e \notin received[u]
      PROVE  UserOf[c] = u /\ Sent(c, e) /\ UNCHANGED <<deliveries, faults>>
  <2>1. out[c] \in Seq(Events) /\ out[c] # <<>>
    BY <1>2 DEF Receive, Inv, TypeOK
  <2>2. Head(out[c]) = out[c][1] /\ 1 \in DOMAIN out[c]
    BY <2>1, TailType
  <2>3. received' = [received EXCEPT ![UserOf[c]] = @ \cup {Head(out[c])}]
    BY <1>2 DEF Receive
  <2>4. UserOf[c] = u /\ e = Head(out[c])
    BY <1>2, <2>3, SMTT(30) DEF Inv, TypeOK
  <2>. QED
    BY <1>2, <2>2, <2>4 DEF Receive, Sent
<1>3. UNCHANGED received \/ \E c \in Conns : Receive(c)
  BY DEF Next, vars, Publishing, Insert, Commit, Rollback, Purge,
         Listen, StartListener, LoseListener, ResumeListener,
         Dispatch, Fetch, Skip, Track, Send, Restart, Acknowledge,
         Serve, Connect, Replay, Drop, Remove, Subscribe, Unsubscribe
<1>. QED
  BY <1>1, <1>2, <1>3

(* A frame is put on its way by a dispatch, or by the replay of a pending    *)
(* delivery.                                                                 *)
LEMMA SentBy ==
  ASSUME Inv, [Next]_vars, NEW c \in Conns, NEW e \in Events, Sent(c, e)'
  PROVE  \/ Sent(c, e)
         \/ /\ \E p \in Pods :
                 Send(p) /\ e = work[p].event /\ c = Head(work[p].rest)
            /\ UNCHANGED <<deliveries, faults>>
         \/ /\ deliveries[e][UserOf[c]] = "pending"
            /\ UNCHANGED <<deliveries, faults>>
<1>1. PICK i \in DOMAIN out'[c] : out'[c][i] = e
  BY DEF Sent
<1>2. CASE out'[c] = out[c]
  BY <1>1, <1>2 DEF Sent
<1>3. CASE out'[c] = <<>>
  BY <1>1, <1>3
<1>4. ASSUME NEW p \in Pods, Send(p), out'[c] # out[c]
      PROVE  Sent(c, e) \/ (e = work[p].event /\ c = Head(work[p].rest))
  <2>. DEFINE d == Head(work[p].rest)
              f == work[p].event
  <2>1. f \in Events /\ d \in Conns
    BY <1>4, TailType DEF Send, Inv, TypeOK, Busy, Idle
  <2>2. out' = [out EXCEPT ![d] = Append(@, f)]
    BY <1>4 DEF Send, Enqueue
  <2>. HIDE DEF d, f
  <2>3. c = d /\ out'[c] = Append(out[c], f) /\ out[c] \in Seq(Events)
    BY <1>4, <2>1, <2>2 DEF Inv, TypeOK
  <2>4. (i \in DOMAIN out[c] /\ out[c][i] = e) \/ e = f
    BY <1>1, <2>1, <2>3
  <2>. QED
    BY <2>3, <2>4 DEF Sent, d, f
<1>5. ASSUME NEW d \in Conns, Replay(d), out'[c] # out[c]
      PROVE  \/ Sent(c, e)
             \/ /\ deliveries[e][UserOf[c]] = "pending"
                /\ UNCHANGED <<deliveries, faults>>
  <2>1. PICK s \in Pending(d) :
          out' = [out EXCEPT ![d] = @ \o s] /\ UNCHANGED <<deliveries, faults>>
    BY <1>5 DEF Replay, NoFault
  <2>2. c = d /\ out'[c] = out[c] \o s /\ out[c] \in Seq(Events)
    BY <1>5, <2>1 DEF Inv, TypeOK
  <2>3. /\ s \in Seq(Events)
        /\ \A j \in DOMAIN s : deliveries[s[j]][UserOf[c]] = "pending"
    BY <2>1, <2>2, PendingType
  <2>4. \/ i \in DOMAIN out[c] /\ out[c][i] = e
        \/ \E j \in DOMAIN s : s[j] = e
    <3>1. CASE i \in DOMAIN out[c]
      BY <1>1, <2>2, <2>3, <3>1
    <3>2. CASE i \notin DOMAIN out[c]
      <4>1. i - Len(out[c]) \in DOMAIN s /\ s[i - Len(out[c])] = e
        BY <1>1, <2>2, <2>3, <3>2
      <4>. QED
        BY <4>1
    <3>. QED
      BY <3>1, <3>2
  <2>. QED
    BY <2>1, <2>3, <2>4 DEF Sent
<1>6. ASSUME NEW d \in Conns, Receive(d)
      PROVE  Sent(c, e)
  <2>1. out' = [out EXCEPT ![d] = Tail(@)] /\ out[d] # <<>>
    BY <1>6 DEF Receive
  <2>2. c # d => out'[c] = out[c]
    BY <2>1 DEF Inv, TypeOK
  <2>3. c = d => i + 1 \in DOMAIN out[c] /\ out[c][i + 1] = e
    BY <1>1, <2>1, TailType, SMTT(30) DEF Inv, TypeOK
  <2>. QED
    BY <1>1, <2>2, <2>3 DEF Sent
<1>7. \/ out'[c] = out[c]
      \/ out'[c] = <<>>
      \/ \E p \in Pods : Send(p)
      \/ \E d \in Conns : Replay(d) \/ Receive(d)
  <2>1. ASSUME NEW d \in Conns, Drop(d)
        PROVE  out'[c] = out[c] \/ out'[c] = <<>>
    BY <2>1 DEF Drop, Inv, TypeOK
  <2>2. ASSUME NEW p \in Pods, Restart(p)
        PROVE  out'[c] = out[c] \/ out'[c] = <<>>
    BY <2>2 DEF Restart
  <2>. QED
    BY <2>1, <2>2 DEF Next, vars, Publishing, Insert, Commit, Rollback, Purge,
         Listen, StartListener, LoseListener, ResumeListener,
         Dispatch, Fetch, Skip, Track, Acknowledge,
         Serve, Connect, Remove, Subscribe, Unsubscribe
<1>8. ASSUME NEW p \in Pods, Send(p)
      PROVE  UNCHANGED <<deliveries, faults>>
  BY <1>8 DEF Send
<1>. QED
  BY <1>2, <1>3, <1>4, <1>5, <1>6, <1>7, <1>8

(* A dispatch turns to sending an event only when it has tracked it. *)
LEMMA SendingBegins ==
  ASSUME Inv, [Next]_vars, NEW p \in Pods, work'[p].sending
  PROVE  \/ work'[p] = work[p] /\ work[p] # Idle
         \/ /\ Track(p)
            /\ work'[p].event = work[p].event /\ work'[p].rest = work[p].rest
<1>1. CASE work'[p] = work[p]
  BY <1>1 DEF Idle
<1>2. ASSUME NEW q \in Pods, Fetch(q) \/ Skip(q) \/ Send(q) \/ Restart(q),
             work'[p] # work[p]
      PROVE  FALSE
  BY <1>2, SMTT(30) DEF Fetch, Skip, Send, Restart, NextConn, Idle, Inv, TypeOK
<1>3. ASSUME NEW q \in Pods, Track(q), work'[p] # work[p]
      PROVE  /\ Track(p)
             /\ work'[p].event = work[p].event /\ work'[p].rest = work[p].rest
  BY <1>3, ZenonT(40) DEF Track, Inv, TypeOK
<1>4. \/ work'[p] = work[p]
      \/ \E q \in Pods : Fetch(q) \/ Skip(q) \/ Send(q) \/ Restart(q) \/ Track(q)
  BY DEF Next, vars, Publishing, Insert, Commit, Rollback, Purge,
         Listen, StartListener, LoseListener, ResumeListener,
         Dispatch, Acknowledge, Serve, Connect, Replay, Receive, Drop, Remove,
         Subscribe, Unsubscribe
<1>. QED
  BY <1>1, <1>2, <1>3, <1>4

(* A dispatch is busy with an event that was in the outbox when it began. *)
LEMMA BusyBegins ==
  ASSUME Inv, [Next]_vars, NEW p \in Pods, work'[p] # Idle
  PROVE  \/ work[p] # Idle /\ work'[p].event = work[p].event
         \/ outbox[work'[p].event] = "stored" /\ UNCHANGED outbox
<1>1. CASE work'[p] = work[p]
  BY <1>1
<1>2. ASSUME NEW q \in Pods, Fetch(q), work'[p] # work[p]
      PROVE  outbox[work'[p].event] = "stored" /\ UNCHANGED outbox
  BY <1>2 DEF Fetch, Inv, TypeOK
<1>3. ASSUME NEW q \in Pods, Skip(q) \/ Send(q) \/ Track(q) \/ Restart(q),
             work'[p] # work[p]
      PROVE  work[p] # Idle /\ work'[p].event = work[p].event
  BY <1>3 DEF Skip, Send, Track, Restart, NextConn, Inv, TypeOK
<1>4. \/ work'[p] = work[p]
      \/ \E q \in Pods : Fetch(q) \/ Skip(q) \/ Send(q) \/ Restart(q) \/ Track(q)
  BY DEF Next, vars, Publishing, Insert, Commit, Rollback, Purge,
         Listen, StartListener, LoseListener, ResumeListener,
         Dispatch, Acknowledge, Serve, Connect, Replay, Receive, Drop, Remove,
         Subscribe, Unsubscribe
<1>. QED
  BY <1>1, <1>2, <1>3, <1>4

-----------------------------------------------------------------------------
(* Acknowledgements *)

(* An acknowledgement that is final stays so, until its event is purged. *)
LEMMA AckStep ==
  ASSUME Inv, [Next]_vars, NEW e \in Events, NEW u \in Users,
         deliveries[e][u] = "acked"
  PROVE  deliveries'[e][u] = "acked" \/ outbox'[e] = "gone"
BY RowChanges

(* No order of dispatches on any number of pods and connections makes an     *)
(* acknowledged delivery pending again.                                      *)
THEOREM AcknowledgementsAreFinal == Spec => AckIsFinal
<1>1. Inv /\ [Next]_vars =>
        [\A e \in Events, u \in Users :
           deliveries[e][u] = "acked" =>
             deliveries'[e][u] = "acked" \/ outbox'[e] = "gone"]_vars
  BY AckStep
<1>. QED
  BY <1>1, TypeCorrect, PTL DEF Spec, AckIsFinal

(* What is acknowledged, and what is on its way to be, has been received. *)
AckInv ==
  /\ AckedWasReceived
  /\ \A e \in Events, u \in Users : <<e, u>> \in acks => e \in received[u]

(* An acknowledgement is sent by the subscriber that receives the event. *)
LEMMA AckSent ==
  ASSUME Inv, [Next]_vars, NEW e \in Events, NEW u \in Users,
         <<e, u>> \in acks', <<e, u>> \notin acks
  PROVE  e \in received'[u]
<1>1. ASSUME NEW c \in Conns, Receive(c)
      PROVE  e \in received'[u]
  <2>1. u = UserOf[c] /\ e = Head(out[c])
    BY <1>1, SMTT(30) DEF Receive
  <2>. QED
    BY <1>1, <2>1 DEF Receive, Inv, TypeOK
<1>2. (\E c \in Conns : Receive(c)) \/ acks' \subseteq acks
  BY DEF Next, vars, Publishing, Insert, Commit, Rollback, Purge,
         Listen, StartListener, LoseListener, ResumeListener,
         Dispatch, Fetch, Skip, Track, Send, Restart, Acknowledge,
         Serve, Connect, Replay, Drop, Remove, Subscribe, Unsubscribe
<1>. QED
  BY <1>1, <1>2

(* What was received stays received. *)
LEMMA ReceivedGrows ==
  ASSUME Inv, [Next]_vars, NEW u \in Users
  PROVE  received[u] \subseteq received'[u]
<1>1. ASSUME NEW c \in Conns, Receive(c)
      PROVE  received[u] \subseteq received'[u]
  BY <1>1 DEF Receive, Inv, TypeOK
<1>2. (\E c \in Conns : Receive(c)) \/ UNCHANGED received
  BY DEF Next, vars, Publishing, Insert, Commit, Rollback, Purge,
         Listen, StartListener, LoseListener, ResumeListener,
         Dispatch, Fetch, Skip, Track, Send, Restart, Acknowledge,
         Serve, Connect, Replay, Drop, Remove, Subscribe, Unsubscribe
<1>. QED
  BY <1>1, <1>2

(* A delivery is acknowledged only once its subscriber has received it,      *)
(* whatever is lost, replayed or restarted in between.                       *)
THEOREM AcknowledgedWasReceived == Spec => []AckedWasReceived
<1>1. Init => AckInv
  BY DEF Init, AckInv, AckedWasReceived
<1>2. Inv /\ AckInv /\ [Next]_vars => AckInv'
  <2>. SUFFICES ASSUME Inv, AckInv, [Next]_vars, NEW e \in Events, NEW u \in Users
                PROVE  /\ deliveries'[e][u] = "acked" => e \in received'[u]
                       /\ <<e, u>> \in acks' => e \in received'[u]
    BY DEF AckInv, AckedWasReceived
  <2>1. received[u] \subseteq received'[u]
    BY ReceivedGrows
  <2>2. ASSUME deliveries'[e][u] = "acked"
        PROVE  e \in received'[u]
    BY <2>1, <2>2, RowChanges DEF AckInv, AckedWasReceived
  <2>3. ASSUME <<e, u>> \in acks'
        PROVE  e \in received'[u]
    BY <2>1, <2>3, AckSent DEF AckInv
  <2>. QED
    BY <2>2, <2>3
<1>3. AckInv => AckedWasReceived
  BY DEF AckInv
<1>. QED
  BY <1>1, <1>2, <1>3, TypeCorrect, PTL DEF Spec

-----------------------------------------------------------------------------
(* Audience *)

IsFor(e, u) == kind[e].channel \in Admitted[u] /\ u \in kind[e].audience

(* An event is for its subscriber at every place on its way. *)
Addressed ==
  /\ OnlyAudience
  /\ \A c \in Conns : subs[c] \subseteq Admitted[UserOf[c]]
  /\ \A e \in Events, u \in Users :
       deliveries[e][u] # "none" \/ e \in received[u] => IsFor(e, u)
  /\ \A p \in Pods :
       work[p].sending => IsFor(work[p].event, UserOf[Head(work[p].rest)])

(* A subscription is one the access rules admit. *)
LEMMA Admission ==
  ASSUME Inv, [Next]_vars, NEW c \in Conns, subs[c] \subseteq Admitted[UserOf[c]]
  PROVE  subs'[c] \subseteq Admitted[UserOf[c]]
<1>1. ASSUME NEW d \in Conns, NEW channel \in Channels,
             Subscribe(d, channel) \/ Unsubscribe(d, channel)
      PROVE  subs'[c] \subseteq Admitted[UserOf[c]]
  <2>1. subs \in [Conns -> SUBSET Channels]
    BY DEF Inv, TypeOK
  <2>2. CASE Subscribe(d, channel)
    BY <2>1, <2>2 DEF Subscribe
  <2>3. CASE Unsubscribe(d, channel)
    BY <2>1, <2>3 DEF Unsubscribe
  <2>. QED
    BY <1>1, <2>2, <2>3
<1>2. ASSUME NEW d \in Conns, Remove(d)
      PROVE  subs'[c] = subs[c] \/ subs'[c] = {}
  BY <1>2 DEF Remove, Inv, TypeOK
<1>3. ASSUME NEW p \in Pods, Restart(p)
      PROVE  subs'[c] = subs[c] \/ subs'[c] = {}
  BY <1>3, SMTT(30) DEF Restart
<1>4. \/ subs'[c] = subs[c] \/ subs'[c] = {}
      \/ \E d \in Conns, channel \in Channels :
           Subscribe(d, channel) \/ Unsubscribe(d, channel)
  BY <1>2, <1>3 DEF Next, vars, Publishing, Insert, Commit, Rollback, Purge,
         Listen, StartListener, LoseListener, ResumeListener,
         Dispatch, Fetch, Skip, Track, Send, Acknowledge,
         Serve, Connect, Replay, Receive, Drop
<1>. QED
  BY <1>1, <1>4

(* A connection that an event is tracked for or sent to may have it. *)
LEMMA WantedIsFor ==
  ASSUME Inv, Addressed, NEW p \in Pods, Track(p) \/ Send(p)
  PROVE  IsFor(work[p].event, UserOf[Head(work[p].rest)])
<1>1. Head(work[p].rest) \in Conns
  BY TailType DEF Track, Send, Inv, TypeOK, Busy
<1>2. CASE work[p].sending
  BY <1>2 DEF Addressed
<1>3. CASE ~work[p].sending
  <2>1. Wanted(Head(work[p].rest), work[p].event)
    BY <1>3 DEF Track, Send
  <2>. QED
    BY <1>1, <2>1 DEF Wanted, Addressed, IsFor
<1>. QED
  BY <1>2, <1>3

(* An event reaches only subscribers the access rules admit to its channel   *)
(* and its audience includes.                                                *)
THEOREM OnlyTheAudience == Spec => []OnlyAudience
<1>1. Init => Addressed
  <2>. SUFFICES ASSUME Init PROVE Addressed
    OBVIOUS
  <2>1. \A c \in Conns, e \in Events : ~Sent(c, e)
    BY DEF Init, Sent
  <2>2. \A e \in Events, u \in Users : deliveries[e][u] = "none" /\ e \notin received[u]
    BY DEF Init
  <2>3. \A p \in Pods : ~work[p].sending
    BY DEF Init, Idle
  <2>4. \A c \in Conns : subs[c] = {}
    BY DEF Init
  <2>. QED
    BY <2>1, <2>2, <2>3, <2>4, TopologyAssumption DEF Addressed, OnlyAudience
<1>2. Inv /\ Addressed /\ [Next]_vars => Addressed'
  <2>. SUFFICES ASSUME Inv, Addressed, [Next]_vars
                PROVE  Addressed'
    OBVIOUS
  <2>1. \A e, u : IsFor(e, u)' <=> IsFor(e, u)
    BY KindFixed DEF IsFor
  <2>2. ASSUME NEW c \in Conns
        PROVE  subs'[c] \subseteq Admitted[UserOf[c]]
    BY Admission DEF Addressed
  <2>3. ASSUME NEW p \in Pods, work'[p].sending
        PROVE  IsFor(work'[p].event, UserOf[Head(work'[p].rest)])
    BY <2>3, SendingBegins, WantedIsFor DEF Addressed
  <2>4. ASSUME NEW e \in Events, NEW u \in Users,
               deliveries'[e][u] # "none" \/ e \in received'[u]
        PROVE  IsFor(e, u)
    <3>1. CASE e \in received'[u]
      BY <3>1, ReceivedWasSent DEF Addressed, OnlyAudience, IsFor
    <3>2. CASE deliveries'[e][u] # "none"
      <4>1. CASE deliveries[e][u] # "none"
        BY <4>1 DEF Addressed
      <4>2. CASE deliveries[e][u] = "none"
        <5>1. PICK p \in Pods :
                Track(p) /\ e = work[p].event /\ u = UserOf[Head(work[p].rest)]
          BY <3>2, <4>2, RowChanges
        <5>. QED
          BY <5>1, WantedIsFor
      <4>. QED
        BY <4>1, <4>2
    <3>. QED
      BY <2>4, <3>1, <3>2
  <2>5. ASSUME NEW c \in Conns, NEW e \in Events, Sent(c, e)'
        PROVE  IsFor(e, UserOf[c])
    <3>1. UserOf[c] \in Users
      BY TopologyAssumption
    <3>. QED
      BY <2>5, <3>1, SentBy, WantedIsFor DEF Addressed, OnlyAudience, IsFor
  <2>6. OnlyAudience'
    BY <2>1, <2>4, <2>5, KindFixed, TopologyAssumption DEF OnlyAudience, IsFor
  <2>. QED
    BY <2>1, <2>2, <2>3, <2>4, <2>6 DEF Addressed
<1>3. Addressed => OnlyAudience
  BY DEF Addressed
<1>. QED
  BY <1>1, <1>2, <1>3, TypeCorrect, PTL DEF Spec

-----------------------------------------------------------------------------
(* Durability *)

HasRow(e, u) == deliveries[e][u] # "none"

(* As long as nothing failed and nothing was purged, a busy pod has an event *)
(* that is stored, and one that is about to be sent has its delivery row.    *)
Tracked ==
  faults = 0 =>
    /\ \A p \in Pods : work[p] # Idle => outbox[work[p].event] = "stored"
    /\ \A p \in Pods :
         work[p].sending => HasRow(work[p].event, UserOf[Head(work[p].rest)])

TrackInv == SentIsTracked /\ Tracked

(* A stored event stays stored, unless it is purged. *)
LEMMA StoredStays ==
  ASSUME Inv, [Next]_vars, NEW e \in Events, outbox[e] = "stored"
  PROVE  outbox'[e] = "stored" \/ faults' # faults
<1>1. ASSUME NEW f \in Events, Insert(f) \/ Commit(f) \/ Rollback(f)
      PROVE  outbox'[e] = "stored"
  BY <1>1 DEF Insert, Commit, Rollback, Inv, TypeOK
<1>2. ASSUME NEW f \in Events, Purge(f)
      PROVE  faults' # faults
  BY <1>2, SMTT(30) DEF Purge, Fault, Inv, TypeOK
<1>3. \/ \E f \in Events : Insert(f) \/ Commit(f) \/ Rollback(f) \/ Purge(f)
      \/ UNCHANGED outbox
  BY DEF Next, vars, Publishing, Listen, StartListener, LoseListener,
         ResumeListener, Dispatch, Fetch, Skip, Track, Send, Restart, Acknowledge,
         Serve, Connect, Replay, Receive, Drop, Remove, Subscribe, Unsubscribe
<1>. QED
  BY <1>1, <1>2, <1>3

(* A delivery row stays, unless its event is purged. *)
LEMMA RowStays ==
  ASSUME Inv, [Next]_vars, NEW e \in Events, NEW u \in Users, HasRow(e, u)
  PROVE  HasRow(e, u)' \/ faults' # faults
<1>1. faults + 1 # faults
  BY DEF Inv, TypeOK
<1>. QED
  BY <1>1, RowChanges DEF HasRow

(* Tracking an event that is stored leaves a row behind, if it does not fail. *)
LEMMA TrackedHasRow ==
  ASSUME Inv, NEW p \in Pods, Track(p), outbox[work[p].event] = "stored"
  PROVE  HasRow(work[p].event, UserOf[Head(work[p].rest)])' \/ faults' # faults
<1>. DEFINE e == work[p].event
            u == UserOf[Head(work[p].rest)]
<1>1. TypeOK /\ e \in Events /\ u \in Users
  BY TailType, TopologyAssumption DEF Track, Inv, TypeOK, Busy
<1>2. deliveries' = Inserted(e, u) \/ faults' # faults
  BY DEF Track, Fault, Inv, TypeOK
<1>. HIDE DEF e, u
<1>3. deliveries' = Inserted(e, u) => deliveries'[e][u] # "none"
  BY <1>1, InsertedRow
<1>4. work'[p].event = e /\ work'[p].rest = work[p].rest
  BY DEF Track, Inv, TypeOK, e
<1>. QED
  BY <1>2, <1>3, <1>4 DEF HasRow, e, u

(* An event that was sent while nothing failed has its delivery row, so that *)
(* its subscriber finds it again whatever happens to the connection.         *)
THEOREM SentEventsAreTracked == Spec => []SentIsTracked
<1>1. Init => TrackInv
  <2>. SUFFICES ASSUME Init PROVE TrackInv
    OBVIOUS
  <2>1. \A c \in Conns, e \in Events : ~Sent(c, e) /\ received[UserOf[c]] = {}
    BY TopologyAssumption DEF Init, Sent
  <2>2. \A p \in Pods : work[p] = Idle /\ ~work[p].sending
    BY DEF Init, Idle
  <2>. QED
    BY <2>1, <2>2 DEF TrackInv, Tracked, SentIsTracked
<1>2. Inv /\ TrackInv /\ [Next]_vars => TrackInv'
  <2>. SUFFICES ASSUME Inv, TrackInv, [Next]_vars, faults' = 0
                PROVE  TrackInv'
    BY DEF TrackInv, Tracked, SentIsTracked
  <2>1. faults = 0 /\ faults' = faults
    BY FaultsCounted DEF Inv, TypeOK
  <2>2. ASSUME NEW p \in Pods, work'[p] # Idle
        PROVE  outbox'[work'[p].event] = "stored"
    BY <2>1, <2>2, BusyBegins, StoredStays DEF TrackInv, Tracked, Inv, Busy
  <2>3. ASSUME NEW p \in Pods, work'[p].sending
        PROVE  HasRow(work[p].event, UserOf[Head(work[p].rest)])'
    <3>1. CASE work'[p] = work[p] /\ work[p] # Idle
      <4>1. work[p].event \in Events /\ UserOf[Head(work[p].rest)] \in Users
        BY <3>1, TailType, TopologyAssumption DEF Inv, TypeOK, Busy
      <4>2. HasRow(work[p].event, UserOf[Head(work[p].rest)])
        BY <2>1, <2>3, <3>1 DEF TrackInv, Tracked
      <4>. QED
        BY <2>1, <3>1, <4>1, <4>2, RowStays DEF HasRow
    <3>2. CASE Track(p)
      <4>1. outbox[work[p].event] = "stored"
        BY <2>1, <3>2 DEF TrackInv, Tracked, Track
      <4>. QED
        BY <2>1, <3>2, <4>1, TrackedHasRow
    <3>. QED
      BY <2>3, <3>1, <3>2, SendingBegins
  <2>4. ASSUME NEW c \in Conns, NEW e \in Events, kind'[e].durable,
               Sent(c, e)' \/ e \in received'[UserOf[c]]
        PROVE  HasRow(e, UserOf[c])'
    <3>1. UserOf[c] \in Users /\ kind[e].durable
      BY <2>4, KindFixed, TopologyAssumption
    <3>2. ASSUME NEW d \in Conns, UserOf[d] = UserOf[c],
                 Sent(d, e) \/ e \in received[UserOf[d]]
          PROVE  HasRow(e, UserOf[c])'
      <4>1. HasRow(e, UserOf[c])
        BY <2>1, <3>1, <3>2 DEF TrackInv, SentIsTracked, HasRow
      <4>. QED
        BY <2>1, <3>1, <4>1, RowStays
    <3>3. CASE e \in received'[UserOf[c]]
      BY <3>1, <3>2, <3>3, ReceivedWasSent
    <3>4. CASE Sent(c, e)'
      <4>1. ASSUME NEW p \in Pods, Send(p), e = work[p].event,
                   c = Head(work[p].rest)
            PROVE  HasRow(e, UserOf[c])
        <5>1. work[p].sending
          BY <3>1, <4>1 DEF Send
        <5>. QED
          BY <2>1, <4>1, <5>1 DEF TrackInv, Tracked
      <4>2. deliveries[e][UserOf[c]] = "pending" => HasRow(e, UserOf[c])
        BY DEF HasRow
      <4>3. Sent(c, e) \/ HasRow(e, UserOf[c])
        BY <3>4, <4>1, <4>2, SentBy
      <4>. QED
        BY <2>1, <3>1, <3>2, <4>3, RowStays
    <3>. QED
      BY <2>4, <3>3, <3>4
  <2>5. SentIsTracked'
    BY <2>4 DEF SentIsTracked, HasRow
  <2>6. Tracked'
    BY <2>2, <2>3 DEF Tracked
  <2>. QED
    BY <2>5, <2>6 DEF TrackInv
<1>3. TrackInv => SentIsTracked
  BY DEF TrackInv
<1>. QED
  BY <1>1, <1>2, <1>3, TypeCorrect, PTL DEF Spec

-----------------------------------------------------------------------------
(* The list of connections *)

Unique(list) == \A i, j \in DOMAIN list : list[i] = list[j] => i = j

(* A pod lists each of its connections once. *)
Lists ==
  \A p \in Pods :
    /\ Unique(members[p])
    /\ \A c \in Conns : Listed(c, members[p]) => PodOf[c] = p

(* Nothing is on its way to a connection that is lost. *)
Quiet == \A c \in Conns : phase[c] \in {"closed", "lost"} => out[c] = <<>>

ListInv == ListIntact /\ Lists /\ Quiet

(* Taking an element out of a list takes out that element only. *)
LEMMA WithoutElement ==
  ASSUME NEW S, NEW s \in Seq(S), Unique(s), NEW i \in DOMAIN s
  PROVE  /\ Unique(Without(s, i))
         /\ \A x : Listed(x, Without(s, i)) <=> Listed(x, s) /\ x # s[i]
<1>. DEFINE t == Without(s, i)
            At(j) == IF j < i THEN j ELSE j + 1
<1>0. i \in 1..Len(s) /\ Len(s) \in Nat /\ DOMAIN s = 1..Len(s)
  OBVIOUS
<1>1. /\ t \in Seq(S) /\ Len(t) = Len(s) - 1
      /\ \A j \in DOMAIN t : At(j) \in DOMAIN s /\ At(j) # i /\ t[j] = s[At(j)]
  <2>. DEFINE a == SubSeq(s, 1, i - 1)
              b == SubSeq(s, i + 1, Len(s))
  <2>1. /\ a \in Seq(S) /\ Len(a) = i - 1
        /\ \A j \in 1..(i - 1) : a[j] = s[j]
    BY <1>0
  <2>2. /\ b \in Seq(S) /\ Len(b) = Len(s) - i
        /\ \A j \in 1..(Len(s) - i) : b[j] = s[j + i]
    BY <1>0
  <2>3. t = a \o b
    BY DEF Without
  <2>. HIDE DEF a, b, t
  <2>4. t \in Seq(S) /\ Len(t) = Len(s) - 1 /\ DOMAIN t = 1..(Len(s) - 1)
    <3>1. t \in Seq(S) /\ Len(t) = Len(a) + Len(b) /\ DOMAIN t = 1..Len(t)
      BY <2>1, <2>2, <2>3, ConcatProperties, LenProperties
    <3>. QED
      BY <1>0, <2>1, <2>2, <3>1
  <2>5. ASSUME NEW j \in 1..(Len(s) - 1)
        PROVE  At(j) \in DOMAIN s /\ At(j) # i /\ t[j] = s[At(j)]
    <3>1. CASE j < i
      BY <1>0, <2>1, <2>2, <2>3, <3>1
    <3>2. CASE j >= i
      <4>1. t[j] = b[j - (i - 1)]
        BY <1>0, <2>1, <2>2, <2>3, <3>2, SMTT(30)
      <4>2. b[j - (i - 1)] = s[j - (i - 1) + i]
        BY <1>0, <2>2, <3>2
      <4>. QED
        BY <1>0, <3>2, <4>1, <4>2
    <3>. QED
      BY <1>0, <3>1, <3>2
  <2>. QED
    BY <2>4, <2>5
<1>2. \A k \in DOMAIN s : k # i => \E j \in DOMAIN t : At(j) = k
  <2>. SUFFICES ASSUME NEW k \in DOMAIN s, k # i
                PROVE  \E j \in DOMAIN t : At(j) = k
    OBVIOUS
  <2>1. CASE k < i
    <3>1. k \in DOMAIN t /\ At(k) = k
      BY <1>1, <2>1
    <3>. QED
      BY <3>1
  <2>2. CASE k > i
    <3>1. k - 1 \in DOMAIN t /\ At(k - 1) = k
      BY <1>1, <2>2
    <3>. QED
      BY <3>1
  <2>. QED
    BY <2>1, <2>2
<1>3. \A j, k \in DOMAIN t : At(j) = At(k) => j = k
  BY <1>1
<1>. HIDE DEF t, At
<1>4. Unique(t)
  BY <1>1, <1>3 DEF Unique
<1>5. ASSUME NEW x, Listed(x, t)
      PROVE  Listed(x, s) /\ x # s[i]
  BY <1>1, <1>5 DEF Listed, Unique
<1>6. ASSUME NEW x, Listed(x, s), x # s[i]
      PROVE  Listed(x, t)
  BY <1>1, <1>2, <1>6 DEF Listed
<1>. QED
  BY <1>4, <1>5, <1>6 DEF t

(* Putting a new element at the end of a list adds that element only. *)
LEMMA AppendElement ==
  ASSUME NEW S, NEW s \in Seq(S), Unique(s), NEW y \in S, ~Listed(y, s)
  PROVE  /\ Unique(Append(s, y))
         /\ \A x : Listed(x, Append(s, y)) <=> Listed(x, s) \/ x = y
<1>1. /\ Len(Append(s, y)) = Len(s) + 1 /\ Append(s, y) \in Seq(S)
      /\ Append(s, y)[Len(s) + 1] = y
      /\ \A i \in DOMAIN s : i # Len(s) + 1 /\ Append(s, y)[i] = s[i]
      /\ DOMAIN Append(s, y) = DOMAIN s \cup {Len(s) + 1}
  OBVIOUS
<1>. QED
  BY <1>1 DEF Unique, Listed

(* A connection that is lost has nothing on its way, and one that is closed  *)
(* has no subscriptions either.                                              *)
LEMMA ClosedStep ==
  ASSUME Inv, ListIntact, Quiet, [Next]_vars, NEW c \in Conns,
         phase'[c] \in {"closed", "lost"}
  PROVE  /\ out'[c] = <<>>
         /\ phase'[c] = "closed" => subs'[c] = {}
<1>1. ASSUME NEW d \in Conns, Serve(d)
      PROVE  out'[c] = <<>> /\ (phase'[c] = "closed" => subs'[c] = {})
  <2>. USE DEF Inv, TypeOK, ListIntact, Quiet
  <2>1. CASE Connect(d)
    BY <1>1, <2>1 DEF Connect
  <2>2. CASE Replay(d)
    <3>1. c # d /\ phase'[c] = phase[c] /\ subs'[c] = subs[c]
      BY <2>2 DEF Replay
    <3>2. out'[c] = out[c]
      BY <2>2, <3>1 DEF Replay
    <3>. QED
      BY <3>1, <3>2
  <2>3. CASE Receive(d)
    BY <2>3 DEF Receive
  <2>4. CASE Drop(d)
    BY <2>4 DEF Drop
  <2>5. CASE Remove(d)
    <3>1. out' = out /\ phase[d] = "lost" /\ subs' = [subs EXCEPT ![d] = {}]
          /\ phase' = [phase EXCEPT ![d] = "closed"]
      BY <2>5 DEF Remove
    <3>2. out[c] = <<>>
      BY <3>1
    <3>. QED
      BY <3>1, <3>2
  <2>6. ASSUME NEW channel \in Channels,
               Subscribe(d, channel) \/ Unsubscribe(d, channel)
        PROVE  out'[c] = <<>> /\ (phase'[c] = "closed" => subs'[c] = {})
    <3>1. phase' = phase /\ out' = out /\ phase[d] = "open"
      BY <2>6 DEF Subscribe, Unsubscribe
    <3>2. c # d
      BY <3>1
    <3>3. CASE Subscribe(d, channel)
      BY <3>1, <3>2, <3>3 DEF Subscribe
    <3>4. CASE Unsubscribe(d, channel)
      BY <3>1, <3>2, <3>4 DEF Unsubscribe
    <3>. QED
      BY <2>6, <3>3, <3>4
  <2>. QED
    BY <1>1, <2>1, <2>2, <2>3, <2>4, <2>5, <2>6 DEF Serve
<1>2. ASSUME NEW p \in Pods, Send(p)
      PROVE  out'[c] = <<>> /\ (phase'[c] = "closed" => subs'[c] = {})
  BY <1>2, ZenonT(40) DEF Send, Enqueue, Inv, TypeOK, ListIntact, Quiet
<1>3. ASSUME NEW p \in Pods, Restart(p)
      PROVE  out'[c] = <<>> /\ (phase'[c] = "closed" => subs'[c] = {})
  BY <1>3 DEF Restart, Inv, TypeOK, ListIntact, Quiet
<1>4. \/ UNCHANGED <<phase, subs, out>>
      \/ \E d \in Conns : Serve(d)
      \/ \E p \in Pods : Send(p) \/ Restart(p)
  BY DEF Next, vars, Publishing, Insert, Commit, Rollback, Purge,
         Listen, StartListener, LoseListener, ResumeListener,
         Dispatch, Fetch, Skip, Track, Acknowledge
<1>5. CASE UNCHANGED <<phase, subs, out>>
  BY <1>5 DEF ListIntact, Quiet
<1>. QED
  BY <1>1, <1>2, <1>3, <1>4, <1>5

(* How a step may change the lists: a connection that was in none is put in  *)
(* that of its pod, one is taken out of it, or a pod loses all of them.      *)
LEMMA ListChanges ==
  ASSUME Inv, ListInv, [Next]_vars
  PROVE  \/ /\ UNCHANGED members
            /\ \A c \in Conns : phase'[c] = "closed" <=> phase[c] = "closed"
         \/ \E d \in Conns : Connect(d)
         \/ \E d \in Conns : Remove(d)
         \/ \E p \in Pods : Restart(p)
<1>1. ASSUME NEW d \in Conns, Replay(d) \/ Drop(d)
      PROVE  /\ UNCHANGED members
             /\ \A c \in Conns : phase'[c] = "closed" <=> phase[c] = "closed"
  BY <1>1, SMTT(30) DEF Replay, Drop, Inv, TypeOK
<1>2. \/ UNCHANGED <<members, phase>>
      \/ \E d \in Conns : Connect(d) \/ Remove(d) \/ Replay(d) \/ Drop(d)
      \/ \E p \in Pods : Restart(p)
  BY DEF Next, vars, Publishing, Insert, Commit, Rollback, Purge,
         Listen, StartListener, LoseListener, ResumeListener,
         Dispatch, Fetch, Skip, Track, Send, Acknowledge,
         Serve, Receive, Subscribe, Unsubscribe
<1>. QED
  BY <1>1, <1>2

InList(c) == phase[c] # "closed" <=> Listed(c, members[PodOf[c]])

(* The lists hold the connections that are not closed, each once. *)
LEMMA ListStep ==
  ASSUME Inv, ListInv, [Next]_vars
  PROVE  Lists' /\ \A c \in Conns : InList(c)'
<1>. USE DEF Inv, TypeOK
<1>0. /\ Lists
      /\ \A c \in Conns : InList(c) /\ PodOf[c] \in Pods
  BY TopologyAssumption DEF ListInv, ListIntact, InList
<1>1. CASE /\ UNCHANGED members
           /\ \A c \in Conns : phase'[c] = "closed" <=> phase[c] = "closed"
  BY <1>0, <1>1 DEF Lists, InList
<1>2. ASSUME NEW d \in Conns, Connect(d)
      PROVE  Lists' /\ \A c \in Conns : InList(c)'
  <2>. DEFINE q == PodOf[d]
              new == Append(members[q], d)
  <2>1. /\ phase[d] = "closed" /\ phase' = [phase EXCEPT ![d] = "registered"]
        /\ members' = [members EXCEPT ![q] = new]
    BY <1>2 DEF Connect
  <2>2. ~Listed(d, members[q]) /\ Unique(members[q]) /\ q \in Pods
    BY <1>0, <2>1 DEF InList, Lists
  <2>3. Unique(new) /\ \A x : Listed(x, new) <=> Listed(x, members[q]) \/ x = d
    BY <2>2, AppendElement
  <2>. HIDE DEF new
  <2>4. \A p \in Pods : members'[p] = IF p = q THEN new ELSE members[p]
    BY <2>1
  <2>5. Lists'
    BY <1>0, <2>3, <2>4 DEF Lists
  <2>6. \A c \in Conns : phase'[c] # "closed" <=> phase[c] # "closed" \/ c = d
    BY <2>1
  <2>. QED
    BY <1>0, <2>3, <2>4, <2>5, <2>6 DEF InList
<1>3. ASSUME NEW d \in Conns, Remove(d)
      PROVE  Lists' /\ \A c \in Conns : InList(c)'
  <2>. DEFINE q == PodOf[d]
  <2>1. /\ phase[d] = "lost" /\ phase' = [phase EXCEPT ![d] = "closed"]
    BY <1>3 DEF Remove
  <2>2. PICK i \in DOMAIN members[q] :
          /\ members[q][i] = d
          /\ members' = [members EXCEPT ![q] = Without(members[q], i)]
    BY <1>3 DEF Remove
  <2>. DEFINE new == Without(members[q], i)
  <2>3. Unique(members[q]) /\ q \in Pods /\ members[q] \in Seq(Conns)
    BY <1>0 DEF Lists
  <2>4. Unique(new) /\ \A x : Listed(x, new) <=> Listed(x, members[q]) /\ x # d
    BY <2>2, <2>3, WithoutElement
  <2>. HIDE DEF new
  <2>5. \A p \in Pods : members'[p] = IF p = q THEN new ELSE members[p]
    BY <2>2 DEF new
  <2>6. Lists'
    BY <1>0, <2>4, <2>5 DEF Lists
  <2>7. \A c \in Conns : phase'[c] # "closed" <=> phase[c] # "closed" /\ c # d
    BY <2>1
  <2>. QED
    BY <1>0, <2>4, <2>5, <2>6, <2>7 DEF InList
<1>4. ASSUME NEW q \in Pods, Restart(q)
      PROVE  Lists' /\ \A c \in Conns : InList(c)'
  <2>1. /\ \A p \in Pods : members'[p] = IF p = q THEN <<>> ELSE members[p]
        /\ \A c \in Conns :
             phase'[c] = IF PodOf[c] = q THEN "closed" ELSE phase[c]
    BY <1>4 DEF Restart
  <2>2. Unique(<<>>) /\ \A x : ~Listed(x, <<>>)
    BY DEF Unique, Listed
  <2>3. ASSUME NEW p \in Pods
        PROVE  /\ Unique(members'[p])
               /\ \A c \in Conns : Listed(c, members'[p]) => PodOf[c] = p
    <3>1. CASE members'[p] = <<>>
      BY <2>2, <3>1
    <3>2. CASE members'[p] = members[p]
      BY <1>0, <3>2 DEF Lists
    <3>. QED
      BY <2>1, <3>1, <3>2
  <2>4. ASSUME NEW c \in Conns
        PROVE  phase'[c] # "closed" <=> Listed(c, members'[PodOf[c]])
    <3>1. CASE PodOf[c] = q
      <4>1. phase'[c] = "closed" /\ members'[PodOf[c]] = <<>>
        BY <2>1, <3>1
      <4>. QED
        BY <2>2, <4>1
    <3>2. CASE PodOf[c] # q
      <4>1. phase'[c] = phase[c] /\ members'[PodOf[c]] = members[PodOf[c]]
        BY <1>0, <2>1, <3>2
      <4>. QED
        BY <1>0, <4>1 DEF InList
    <3>. QED
      BY <3>1, <3>2
  <2>. QED
    BY <2>3, <2>4 DEF Lists, InList
<1>. QED
  BY <1>1, <1>2, <1>3, <1>4, ListChanges

(* What a dispatch has still to visit is what it had to visit before, or the *)
(* list of its pod as it is.                                                 *)
LEMMA RestShrinks ==
  ASSUME Inv, [Next]_vars, NEW p \in Pods, NEW c \in Conns,
         Listed(c, work'[p].rest)
  PROVE  Listed(c, work[p].rest) \/ (Listed(c, members[p]) /\ UNCHANGED members)
<1>0. ~Listed(c, <<>>)
  BY DEF Listed
<1>1. CASE work'[p].rest = work[p].rest
  BY <1>1
<1>2. ASSUME NEW q \in Pods, Fetch(q), work'[p] # work[p]
      PROVE  Listed(c, members[p]) /\ UNCHANGED members
  BY <1>2 DEF Fetch, Inv, TypeOK
<1>3. ASSUME NEW q \in Pods, Skip(q) \/ Send(q), work'[p] # work[p]
      PROVE  Listed(c, work[p].rest)
  <2>1. q = p /\ work[p] # Idle /\ NextConn(p)
    BY <1>3 DEF Skip, Send, NextConn, Inv, TypeOK
  <2>2. work'[p].rest = Tail(work[p].rest) \/ work'[p].rest = <<>>
    BY <2>1 DEF NextConn, Idle, Inv, TypeOK
  <2>3. work[p].rest \in Seq(Conns) /\ work[p].rest # <<>>
    BY <2>1 DEF Inv, TypeOK, Busy
  <2>. DEFINE rest == work[p].rest
  <2>4. \A i \in DOMAIN Tail(rest) : i + 1 \in DOMAIN rest /\ Tail(rest)[i] = rest[i + 1]
    BY <2>3, TailType
  <2>. HIDE DEF rest
  <2>5. Listed(c, Tail(rest)) => Listed(c, rest)
    BY <2>4 DEF Listed
  <2>. QED
    BY <1>0, <2>2, <2>5 DEF rest
<1>4. ASSUME NEW q \in Pods, Track(q) \/ Restart(q)
      PROVE  work'[p].rest = work[p].rest \/ work'[p].rest = <<>>
  <2>1. CASE Track(q)
    BY <2>1 DEF Track, Inv, TypeOK
  <2>2. CASE Restart(q)
    BY <2>2 DEF Restart, Idle, Inv, TypeOK
  <2>. QED
    BY <1>4, <2>1, <2>2
<1>5. \/ work'[p] = work[p]
      \/ \E q \in Pods : Fetch(q) \/ Skip(q) \/ Send(q) \/ Track(q) \/ Restart(q)
  BY DEF Next, vars, Publishing, Insert, Commit, Rollback, Purge,
         Listen, StartListener, LoseListener, ResumeListener,
         Dispatch, Acknowledge, Serve, Connect, Replay, Receive, Drop, Remove,
         Subscribe, Unsubscribe
<1>. QED
  BY <1>0, <1>1, <1>2, <1>3, <1>4, <1>5

(* The list of a pod does not change while it is busy, but for a connection  *)
(* that is added before the dispatch, or a pod that stops.                   *)
LEMMA BusyListStays ==
  ASSUME Inv, ListInv, [Next]_vars, NEW p \in Pods, NEW c \in Conns,
         Listed(c, work[p].rest), Listed(c, work'[p].rest), Listed(c, members[p])
  PROVE  Listed(c, members'[p])
<1>. USE DEF Inv, TypeOK
<1>0. work[p] # Idle /\ work'[p] # Idle
  <2>1. ~Listed(c, <<>>) /\ Idle.rest = <<>>
    BY DEF Listed, Idle
  <2>. QED
    BY <2>1
<1>1. ASSUME NEW d \in Conns, Connect(d) \/ Remove(d)
      PROVE  members'[p] = members[p]
  <2>1. PodOf[d] # p
    BY <1>0, <1>1 DEF Connect, Remove
  <2>. QED
    BY <1>1, <2>1 DEF Connect, Remove
<1>2. ASSUME NEW q \in Pods, Restart(q)
      PROVE  members'[p] = members[p]
  <2>1. p # q
    BY <1>0, <1>2 DEF Restart
  <2>. QED
    BY <1>2, <2>1 DEF Restart
<1>. QED
  BY <1>1, <1>2, ListChanges

(* A dispatch visits only connections its pod still lists, and a connection  *)
(* that closed leaves nothing to the one that takes its place: the lock on   *)
(* the list is enough, for any number of connections that come and go.       *)
THEOREM ListsStayIntact == Spec => []ListIntact
<1>1. Init => ListInv
  <2>. SUFFICES ASSUME Init PROVE ListInv
    OBVIOUS
  <2>1. \A x : ~Listed(x, <<>>)
    BY DEF Listed
  <2>2. \A p \in Pods : members[p] = <<>> /\ work[p].rest = <<>>
    BY DEF Init, Idle
  <2>3. \A c \in Conns :
          phase[c] = "closed" /\ subs[c] = {} /\ out[c] = <<>> /\ PodOf[c] \in Pods
    BY TopologyAssumption DEF Init
  <2>. QED
    BY <2>1, <2>2, <2>3 DEF ListInv, ListIntact, Lists, Quiet, Unique
<1>2. Inv /\ ListInv /\ [Next]_vars => ListInv'
  <2>. SUFFICES ASSUME Inv, ListInv, [Next]_vars
                PROVE  ListInv'
    OBVIOUS
  <2>1. Lists' /\ \A c \in Conns : InList(c)'
    BY ListStep
  <2>2. ASSUME NEW c \in Conns, phase'[c] \in {"closed", "lost"}
        PROVE  out'[c] = <<>> /\ (phase'[c] = "closed" => subs'[c] = {})
    BY <2>2, ClosedStep DEF ListInv
  <2>3. ASSUME NEW p \in Pods, NEW c \in Conns, Listed(c, work'[p].rest)
        PROVE  PodOf[c] = p /\ Listed(c, members'[p])
    <3>1. CASE Listed(c, work[p].rest)
      BY <2>3, <3>1, BusyListStays DEF ListInv, ListIntact
    <3>2. CASE Listed(c, members[p]) /\ UNCHANGED members
      BY <3>2 DEF ListInv, Lists
    <3>. QED
      BY <2>3, <3>1, <3>2, RestShrinks
  <2>. QED
    BY <2>1, <2>2, <2>3 DEF ListInv, ListIntact, Quiet, InList, Listed
<1>3. ListInv => ListIntact
  BY DEF ListInv
<1>. QED
  BY <1>1, <1>2, <1>3, TypeCorrect, PTL DEF Spec
=============================================================================
