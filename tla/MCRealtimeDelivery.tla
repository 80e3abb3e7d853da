------------------------- MODULE MCRealtimeDelivery -------------------------
(***************************************************************************)
(* The instances of RealtimeDelivery that TLC checks: a station, known by  *)
(* a connection to each of two pods, and a second subscriber.              *)
(***************************************************************************)
EXTENDS RealtimeDelivery

CONSTANTS u1, u2, p1, p2, c1, c2, c3, staff

(* a station that is connected to both pods *)
TwoConns == [c \in {c1, c2} |-> u1]
TwoPods == [c \in {c1, c2} |-> IF c = c2 THEN p2 ELSE p1]

(* two subscribers of one pod *)
Neighbours == [c \in {c1, c3} |-> IF c = c3 THEN u2 ELSE u1]
OnePod == [c \in {c1, c3} |-> p1]

(* the station alone *)
OneConn == [c \in {c1} |-> u1]
ItsPod == [c \in {c1} |-> p1]

AdmittedAll == [u \in Users |-> {staff}]

ForOne == [channel |-> staff, audience |-> {u1}, durable |-> TRUE]
Fleeting == [channel |-> staff, audience |-> Users, durable |-> FALSE]

OneKind == {ForOne}
TwoKinds == {ForOne, Fleeting}
=============================================================================
