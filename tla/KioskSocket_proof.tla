-------------------------- MODULE KioskSocket_proof --------------------------
(***************************************************************************)
(* Proofs about KioskSocket: whatever the network does, and however often  *)
(* the kiosk is signed in and out, the client holds the only live socket   *)
(* and the server has been asked for the channels the client wants.        *)
(***************************************************************************)
EXTENDS KioskSocket, TLAPS

(* every method keeps the fields of a client what they are                 *)
LEMMA NewTyped == NewClient \in Clients
  BY DEF NewClient, Clients, SocketStates

LEMMA ShutTyped ==
  ASSUME NEW c \in Clients
  PROVE  Shut(c) \in [Sockets -> SocketStates]
  BY DEF Shut, Clients, SocketStates

LEMMA DisconnectTyped ==
  ASSUME NEW c \in Clients
  PROVE  Disconnect(c) \in Clients
  BY ShutTyped DEF Disconnect, Clients

LEMMA ConnectTyped ==
  ASSUME NEW c \in Clients, NEW s \in Sockets
  PROVE  Connect(c, s) \in Clients
  <1>1. [Shut(c) EXCEPT ![s] = "connecting"] \in [Sockets -> SocketStates]
    BY ShutTyped DEF SocketStates
  <1>2. [c.heard EXCEPT ![s] = {}] \in [Sockets -> SUBSET Channels]
    BY DEF Clients
  <1> QED
    BY <1>1, <1>2 DEF Connect, Clients

LEMMA ResetTyped ==
  ASSUME NEW c \in Clients, NEW channels \in SUBSET Channels
  PROVE  ResetSubscriptions(c, channels) \in Clients
  BY DEF ResetSubscriptions, Clients

LEMMA CreatedIsFree ==
  ASSUME NEW c, CanCreate(c)
  PROVE  Created(c) \in Sockets /\ Free(c, Created(c))
  BY DEF CanCreate, Created

(* the invariant, of one client                                            *)
Sound(c) ==
  /\ c \in Clients
  /\ \A s \in Sockets : Live(c, s) => c.ws = s
  /\ \A s \in Sockets :
        Current(c, s) /\ c.sock[s] = "open" => c.heard[s] = c.subscriptions

(* the socket that is dialled is the only one that is live                 *)
LEMMA ConnectSound ==
  ASSUME NEW c, Sound(c), NEW s \in Sockets
  PROVE  Sound(Connect(c, s))
  <1>1. Connect(c, s) \in Clients
    BY ConnectTyped DEF Sound
  <1>2. Connect(c, s).ws = s /\ Connect(c, s).sock[s] = "connecting"
    BY ShutTyped DEF Connect, Sound, Clients
  <1>3. ASSUME NEW t \in Sockets, t # s
        PROVE  ~Live(Connect(c, s), t)
    <2>1. Connect(c, s).sock[t] = Shut(c)[t]
      BY <1>3, ShutTyped DEF Connect, Sound, Clients
    <2>2. Shut(c)[t] \notin {"connecting", "open"}
      BY SocketAssumption DEF Shut, Sound, Clients, Live
    <2> QED
      BY <2>1, <2>2 DEF Live
  <1> QED
    BY <1>1, <1>2, <1>3 DEF Sound, Live, Current

(* nothing is live once the client has let go of its socket                *)
LEMMA DisconnectSound ==
  ASSUME NEW c, Sound(c)
  PROVE  Sound(Disconnect(c))
  <1>1. Disconnect(c) \in Clients /\ Disconnect(c).fresh = NoSocket
    BY DisconnectTyped DEF Sound, Disconnect, Clients
  <1>2. ASSUME NEW t \in Sockets
        PROVE  ~Live(Disconnect(c), t)
    <2>1. Disconnect(c).sock[t] = Shut(c)[t]
      BY DEF Disconnect, Sound, Clients
    <2>2. Shut(c)[t] \notin {"connecting", "open"}
      BY SocketAssumption DEF Shut, Sound, Clients, Live
    <2> QED
      BY <2>1, <2>2 DEF Live
  <1> QED
    BY <1>1, <1>2, SocketAssumption DEF Sound, Current

LEMMA ResetSound ==
  ASSUME NEW c, Sound(c), NEW channels \in SUBSET Channels
  PROVE  Sound(ResetSubscriptions(c, channels))
  <1> DEFINE r == ResetSubscriptions(c, channels)
  <1>1. r \in Clients
    BY ResetTyped DEF Sound
  <1>2. r.sock = c.sock /\ r.ws = c.ws /\ r.fresh = c.fresh
          /\ r.subscriptions = channels
    BY DEF ResetSubscriptions, Sound, Clients
  <1>3. ASSUME NEW s \in Sockets, Current(c, s), c.sock[s] = "open"
        PROVE  r.heard[s] = channels
    <2>1. c.ws = s /\ c.ws # NoSocket /\ c.heard[s] = c.subscriptions
      BY <1>3, SocketAssumption DEF Current, Sound
    <2>2. r.heard = [c.heard EXCEPT ![s] =
             (c.heard[s] \ (c.subscriptions \ channels))
               \cup (channels \ c.subscriptions)]
      BY <1>3, <2>1 DEF ResetSubscriptions, Sound, Clients
    <2>3. r.heard[s] = (c.subscriptions \ (c.subscriptions \ channels))
                         \cup (channels \ c.subscriptions)
      BY <2>1, <2>2 DEF Sound, Clients
    <2> QED
      BY <2>3
  <1> HIDE DEF r
  <1>4. Sound(r)
    BY <1>1, <1>2, <1>3 DEF Sound, Live, Current
  <1> QED
    BY <1>4 DEF r

LEMMA OpenedSound ==
  ASSUME NEW c, Sound(c), NEW s \in Sockets, c.sock[s] = "connecting"
  PROVE  Sound(Opened(c, s))
  <1> DEFINE o == Opened(c, s)
  <1>1. o \in Clients
    BY DEF Opened, Sound, Clients, SocketStates
  <1>2. o.ws = c.ws /\ o.fresh = c.fresh /\ o.subscriptions = c.subscriptions
    BY DEF Opened, Sound, Clients
  <1>3. o.sock = [c.sock EXCEPT ![s] = "open"] /\ c.sock \in [Sockets -> SocketStates]
    BY DEF Opened, Sound, Clients
  <1>4. c.ws = s
    BY DEF Sound, Live
  <1>5. Current(c, s) => o.heard[s] = c.subscriptions
    BY DEF Opened, Sound, Clients
  <1> HIDE DEF o
  <1>6. Sound(o)
    BY <1>1, <1>2, <1>3, <1>4, <1>5 DEF Sound, Live, Current
  <1> QED
    BY <1>6 DEF o

LEMMA LostSound ==
  ASSUME NEW c, Sound(c), NEW s \in Sockets
  PROVE  Sound(Lost(c, s))
  <1> DEFINE l == Lost(c, s)
  <1>1. l \in Clients
    BY DEF Lost, Sound, Clients, SocketStates
  <1>2. /\ l.ws = c.ws /\ l.fresh = c.fresh /\ l.subscriptions = c.subscriptions
        /\ l.heard = c.heard
    BY DEF Lost, Sound, Clients
  <1>3. l.sock = [c.sock EXCEPT ![s] = "lost"] /\ c.sock \in [Sockets -> SocketStates]
    BY DEF Lost, Sound, Clients
  <1> HIDE DEF l
  <1>4. Sound(l)
    BY <1>1, <1>2, <1>3 DEF Sound, Live, Current
  <1> QED
    BY <1>4 DEF l

LEMMA ReportedSound ==
  ASSUME NEW c, Sound(c), NEW s \in Sockets, c.sock[s] \in {"shut", "lost"}
  PROVE  Sound(Reported(c, s))
  <1> DEFINE r == Reported(c, s)
  <1>1. r \in Clients
    BY DEF Reported, Sound, Clients, SocketStates
  <1>2. /\ r.subscriptions = c.subscriptions /\ r.heard = c.heard
        /\ r.ws = c.ws \/ c.ws = s
        /\ r.fresh = c.fresh \/ r.fresh = NoSocket
    BY DEF Reported, Sound, Clients
  <1>3. r.sock = [c.sock EXCEPT ![s] = "free"] /\ c.sock \in [Sockets -> SocketStates]
    BY DEF Reported, Sound, Clients
  <1>4. \A t \in Sockets : t # s /\ r.ws = t => c.ws = t
    BY SocketAssumption DEF Reported, Sound, Clients
  <1> HIDE DEF r
  <1>5. Sound(r)
    BY <1>1, <1>2, <1>3, <1>4, SocketAssumption DEF Sound, Live, Current
  <1> QED
    BY <1>5 DEF r

LEMMA ConnectWsSound ==
  ASSUME NEW c, Sound(c), NEW s \in Sockets, NEW channels \in SUBSET Channels
  PROVE  Sound(ConnectWs(c, s, channels))
  BY ResetSound, DisconnectSound, ConnectSound DEF ConnectWs

LEMMA InitSound ==
  ASSUME SocketInit
  PROVE  Sound(rt)
  BY NewTyped DEF SocketInit, Sound, NewClient, Live, Current

(* a socket that is closed and reported may be created anew                *)
LEMMA SoundStep ==
  ASSUME Sound(rt), [SocketNext]_socketVars
  PROVE  Sound(rt')
  <1>1. ASSUME NEW channels \in SUBSET Channels, CallConnectWs(channels)
        PROVE  Sound(rt')
    BY <1>1, CreatedIsFree, ConnectWsSound DEF CallConnectWs
  <1>2. CASE CallDisconnect
    BY <1>2, DisconnectSound DEF CallDisconnect
  <1>3. ASSUME NEW s \in Sockets, SocketOpens(s)
        PROVE  Sound(rt')
    BY <1>3, OpenedSound DEF SocketOpens
  <1>4. ASSUME NEW s \in Sockets, SocketIsLost(s)
        PROVE  Sound(rt')
    BY <1>4, LostSound DEF SocketIsLost
  <1>5. ASSUME NEW s \in Sockets, SocketReports(s)
        PROVE  Sound(rt')
    BY <1>5, ReportedSound DEF SocketReports
  <1>6. CASE Reconnects
    BY <1>6, CreatedIsFree, ConnectSound DEF Reconnects
  <1>7. CASE UNCHANGED socketVars
    BY <1>7 DEF socketVars
  <1> QED
    BY <1>1, <1>2, <1>3, <1>4, <1>5, <1>6, <1>7 DEF SocketNext

SocketInv == Sound(rt)

LEMMA AlwaysSound == SocketSpec => []SocketInv
  <1>1. SocketInit => SocketInv
    BY InitSound DEF SocketInv
  <1>2. SocketInv /\ [SocketNext]_socketVars => SocketInv'
    BY SoundStep DEF SocketInv
  <1> QED
    BY <1>1, <1>2, PTL DEF SocketSpec

(* Through any number of sign-ins, losses and reconnections, a socket that *)
(* is dialling or open is the one the client holds: none leaks.            *)
THEOREM TheLiveSocketIsHeld == SocketSpec => []OneLiveSocket
  <1>1. SocketInv => OneLiveSocket
    BY DEF SocketInv, Sound, OneLiveSocket
  <1> QED
    BY <1>1, AlwaysSound, PTL

(* What the server was asked for on the open socket is what the client     *)
(* wants, for any channels and any order of calls and callbacks.           *)
THEOREM WantedChannelsAreHeard == SocketSpec => []HeardIsWanted
  <1>1. SocketInv => HeardIsWanted
    BY DEF SocketInv, Sound, HeardIsWanted
  <1> QED
    BY <1>1, AlwaysSound, PTL
=============================================================================
