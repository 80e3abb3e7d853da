---------------------------- MODULE SessionMeter ----------------------------
(***************************************************************************)
(* What gaming sessions promise to the players and to the venue, without   *)
(* requests, caches or clocks: a session is a meter that runs on one       *)
(* prepaid wallet.                                                         *)
(*   - Minutes leave a wallet only through a meter that was opened on it.  *)
(*   - A meter shows no more than what its wallet has already paid.        *)
(*   - A closed meter is never touched again.                              *)
(*   - A wallet gains minutes only through the sale of a plan.             *)
(* SessionWallet implements this specification.                            *)
(***************************************************************************)
EXTENDS Naturals

CONSTANTS
  Wallets,   \* prepaid wallets
  Meters,    \* session ids
  Plan,      \* minutes sold at a time
  Opening,   \* minutes on every wallet at the beginning
  Nobody     \* the wallet of a meter that was never opened

VARIABLES
  left,      \* minutes left on each wallet
  phase,     \* "none", "open" or "ended"
  payer,     \* the wallet each meter runs on
  shown,     \* minutes each meter shows
  paid       \* minutes taken from the payer for each meter

meters == <<left, phase, payer, shown, paid>>

Init ==
  /\ left = [w \in Wallets |-> Opening]
  /\ phase = [m \in Meters |-> "none"]
  /\ payer = [m \in Meters |-> Nobody]
  /\ shown = [m \in Meters |-> 0]
  /\ paid = [m \in Meters |-> 0]

Start(m, w) ==
  /\ phase[m] = "none"
  /\ phase' = [phase EXCEPT ![m] = "open"]
  /\ payer' = [payer EXCEPT ![m] = w]
  /\ shown' = [shown EXCEPT ![m] = 0]
  /\ UNCHANGED <<left, paid>>

(* any amount; a wallet that holds less than what is owed is emptied *)
Pay(m) ==
  LET minutes == paid'[m] - paid[m]
  IN
  /\ phase[m] # "none"
  /\ minutes > 0
  /\ paid' = [paid EXCEPT ![m] = paid'[m]]
  /\ left' = [left EXCEPT ![payer[m]] = IF @ > minutes THEN @ - minutes ELSE 0]
  /\ UNCHANGED <<phase, payer, shown>>

Show(m, minutes) ==
  /\ phase[m] = "open"
  /\ shown' = [shown EXCEPT ![m] = minutes]
  /\ UNCHANGED <<left, phase, payer, paid>>

Stop(m, minutes) ==
  /\ phase[m] = "open"
  /\ phase' = [phase EXCEPT ![m] = "ended"]
  /\ shown' = [shown EXCEPT ![m] = minutes]
  /\ UNCHANGED <<left, payer, paid>>

(* minutes that are no longer usable are forfeited *)
Sell(w) ==
  /\ \E kept \in {0, left[w]} : left' = [left EXCEPT ![w] = kept + Plan]
  /\ UNCHANGED <<phase, payer, shown, paid>>

Next ==
  \/ \E m \in Meters, w \in Wallets : Start(m, w)
  \/ \E m \in Meters : Pay(m)
  \/ \E m \in Meters : \E minutes \in 0..paid[m] : Show(m, minutes) \/ Stop(m, minutes)
  \/ \E w \in Wallets : Sell(w)

Spec == Init /\ [][Next]_meters
=============================================================================
