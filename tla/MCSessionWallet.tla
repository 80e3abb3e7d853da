-------------------------- MODULE MCSessionWallet --------------------------
(***************************************************************************)
(* The instances of SessionWallet that TLC checks.                         *)
(***************************************************************************)
EXTENDS SessionWallet, TLC

(* one player owns every wallet: the cases of interest are his calls racing *)
OnePlayer == CHOOSE player \in Players : TRUE
MCOwner == [b \in Balances |-> OnePlayer]

(* minutes are sold on one wallet only, the other just runs down *)
Sold == CHOOSE b \in Balances : TRUE
OneCredit == [b \in Balances |-> IF b = Sold THEN Credits ELSE 0]
NoCredit == [b \in Balances |-> 0]

SerialCalls == CallNames \ {"reconcile"}

(* the other calls share every step but their first with one of these, or *)
(* are a single statement                                                 *)
RacingCalls == {"start", "heartbeat", "end", "reconcile", "recharge"}

PlayCalls == {"staffStart", "heartbeat", "poll"}

(* slots, stations and session ids are interchangeable *)
Symmetry == Permutations(Requests) \cup Permutations(Sessions)
              \cup Permutations(Devices)
=============================================================================
