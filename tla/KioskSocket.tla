---------------------------- MODULE KioskSocket ----------------------------
(***************************************************************************)
(* The realtime connection of a kiosk: KioskRealtimeClient, a WebSocket    *)
(* that is replaced whenever somebody signs in or out and dialled again    *)
(* when it is lost, and the flag by which the rest of the kiosk knows of   *)
(* it.                                                                     *)
(*                                                                         *)
(* JavaScript runs one callback at a time, so what a method does is a      *)
(* function on the client's fields and callers apply several of them in    *)
(* one step.  The browser's side of a socket (opening, losing, reporting   *)
(* that it closed) is a step each.  A generation number is only ever       *)
(* compared with the latest: fresh is the socket of the latest generation, *)
(* NoSocket once disconnect has begun a generation without a socket.           *)
(***************************************************************************)
EXTENDS Naturals, FiniteSets

CONSTANTS
    Sockets,   \* socket objects alive at a time, reused once closed
    Channels,  \* channels a kiosk subscribes to
    NoSocket

ASSUME SocketAssumption == NoSocket \notin Sockets

VARIABLES
    rt,          \* the fields of the client, with the sockets it created
    wsConnected  \* what the provider shows and polls by

socketVars == <<rt, wsConnected>>

(* dialling, open, closed by the kiosk or by the network but not reported  *)
(* by the browser yet                                                      *)
SocketStates == {"free", "connecting", "open", "shut", "lost"}

Clients == [sock: [Sockets -> SocketStates],
            heard: [Sockets -> SUBSET Channels],  \* frames sent so far ask for
            ws: Sockets \cup {NoSocket},
            fresh: Sockets \cup {NoSocket},
            intentionalClose: BOOLEAN,
            disposed: BOOLEAN,
            timer: BOOLEAN,
            subscriptions: SUBSET Channels]

NewClient == [sock |-> [s \in Sockets |-> "free"],
              heard |-> [s \in Sockets |-> {}],
              ws |-> NoSocket, fresh |-> NoSocket, intentionalClose |-> FALSE,
              disposed |-> FALSE, timer |-> FALSE, subscriptions |-> {}]

Free(c, s) == c.sock[s] = "free"
Live(c, s) == c.sock[s] \in {"connecting", "open"}
Current(c, s) == c.fresh = s /\ c.ws = s

(* faulty: a socket that is still dialling is left alone                   *)
ShutOpen(c) ==
  IF c.ws = NoSocket \/ c.sock[c.ws] # "open" THEN c.sock
  ELSE [c.sock EXCEPT ![c.ws] = "shut"]

(* a socket that was told to close: its report is still to come *)
Shut(c) == IF c.ws = NoSocket THEN c.sock ELSE [c.sock EXCEPT ![c.ws] = "shut"]

(***************************************************************************)
(* The methods, as functions on the client.                                *)
(***************************************************************************)
Disconnect(c) ==
  [c EXCEPT !.disposed = TRUE, !.fresh = NoSocket, !.timer = FALSE,
            !.intentionalClose = c.intentionalClose \/ c.ws # NoSocket,
            !.sock = Shut(c), !.ws = NoSocket]

(* closing the previous socket raises and clears the flag at once *)
Connect(c, s) ==
  [c EXCEPT !.disposed = FALSE, !.timer = FALSE,
            !.intentionalClose = c.ws = NoSocket /\ c.intentionalClose,
            !.sock = [Shut(c) EXCEPT ![s] = "connecting"],
            !.heard = [c.heard EXCEPT ![s] = {}],
            !.ws = s, !.fresh = s]

(* the frames say what is new and what is gone, and go to an open socket *)
ResetSubscriptions(c, channels) ==
  LET removed == c.subscriptions \ channels
      added == channels \ c.subscriptions
      told == c.ws # NoSocket /\ c.sock[c.ws] = "open"
  IN [c EXCEPT !.subscriptions = channels,
               !.heard = IF told
                         THEN [c.heard EXCEPT
                                 ![c.ws] = (c.heard[c.ws] \ removed) \cup added]
                         ELSE c.heard]

(* connectWs of the provider *)
ConnectWs(c, s, channels) ==
  Connect(Disconnect(ResetSubscriptions(c, channels)), s)

(* the first free socket stands for the object the browser creates *)
Created(c) == CHOOSE s \in Sockets : Free(c, s)
CanCreate(c) == \E s \in Sockets : Free(c, s)

(***************************************************************************)
(* The browser's side.                                                     *)
(***************************************************************************)
(* faulty: nothing is asked for while a close is expected                   *)
OpenedSilently(c, s) ==
  [c EXCEPT !.sock = [c.sock EXCEPT ![s] = "open"],
            !.heard = IF Current(c, s) /\ ~c.intentionalClose
                      THEN [c.heard EXCEPT ![s] = c.subscriptions]
                      ELSE c.heard]

Opened(c, s) ==
  [c EXCEPT !.sock = [c.sock EXCEPT ![s] = "open"],
            !.heard = IF Current(c, s)
                      THEN [c.heard EXCEPT ![s] = c.subscriptions]
                      ELSE c.heard]

Lost(c, s) == [c EXCEPT !.sock = [c.sock EXCEPT ![s] = "lost"]]

(* a report that the latest generation expects nothing of is dropped; the *)
(* first one after a disconnect is taken for the disconnect's own          *)
Swallowed(c, s) == c.fresh # s \/ c.intentionalClose

Reported(c, s) ==
  LET gone == [c EXCEPT !.sock = [c.sock EXCEPT ![s] = "free"]]
  IN IF c.fresh # s
     THEN gone
     ELSE [gone EXCEPT !.ws = IF c.ws = s THEN NoSocket ELSE c.ws,
                       !.fresh = NoSocket,
                       !.intentionalClose = FALSE,
                       !.timer = c.timer \/ (~c.intentionalClose /\ ~c.disposed)]

SocketOpens(s) ==
  /\ rt.sock[s] = "connecting"
  /\ rt' = Opened(rt, s)
  /\ wsConnected' = (wsConnected \/ Current(rt, s))

(* the network, the server, or a failed handshake *)
SocketIsLost(s) ==
  /\ Live(rt, s)
  /\ rt' = Lost(rt, s)
  /\ UNCHANGED wsConnected

SocketReports(s) ==
  /\ rt.sock[s] \in {"shut", "lost"}
  /\ rt' = Reported(rt, s)
  /\ wsConnected' = (wsConnected /\ Swallowed(rt, s))

(* the timer of scheduleReconnect *)
Reconnects ==
  /\ rt.timer
  /\ CanCreate(rt)
  /\ rt' = Connect(rt, Created(rt))
  /\ UNCHANGED wsConnected

(***************************************************************************)
(* The client alone: a provider that connects with any channels, and       *)
(* disconnects when its device is no longer registered.                    *)
(***************************************************************************)
CallConnectWs(channels) ==
  /\ CanCreate(rt)
  /\ rt' = ConnectWs(rt, Created(rt), channels)
  /\ UNCHANGED wsConnected

CallDisconnect ==
  /\ rt' = Disconnect(rt)
  /\ UNCHANGED wsConnected

SocketInit == rt = NewClient /\ wsConnected = FALSE

SocketNext ==
  \/ \E channels \in SUBSET Channels : CallConnectWs(channels)
  \/ CallDisconnect
  \/ \E s \in Sockets : SocketOpens(s) \/ SocketIsLost(s) \/ SocketReports(s)
  \/ Reconnects

SocketSpec == SocketInit /\ [][SocketNext]_socketVars

(***************************************************************************)
(* Properties                                                              *)
(***************************************************************************)
SocketTypeOK == rt \in Clients /\ wsConnected \in BOOLEAN

(* No socket is left behind: the one that is open or dialling is the one   *)
(* the client holds, across sign-ins, sign-outs and reconnections.         *)
OneLiveSocket ==
  \A s \in Sockets : Live(rt, s) => rt.ws = s

(* The frames sent on the open socket ask for exactly the channels the     *)
(* client wants, whether they changed before or after it opened.           *)
HeardIsWanted ==
  \A s \in Sockets :
     Current(rt, s) /\ rt.sock[s] = "open" => rt.heard[s] = rt.subscriptions

(* realtime.ts of onDisconnect: "Fires when the socket closes unexpectedly *)
(* (not intentional disconnect)".                                          *)
CloseIsReported ==
  [][\A s \in Sockets :
        rt.sock[s] = "lost" /\ Current(rt, s) /\ rt'.sock[s] = "free"
          => ~wsConnected']_socketVars
=============================================================================
