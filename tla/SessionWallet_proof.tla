------------------------ MODULE SessionWallet_proof ------------------------
(***************************************************************************)
(* Theorems about SessionWallet for every number of players, wallets,      *)
(* stations, sessions and concurrent requests, and every value of the      *)
(* other constants.                                                        *)
(*                                                                         *)
(* The inductive invariant is IInv.  Its heart is Covers: what a request   *)
(* carries in its locals as already recorded (seen) or to be recorded      *)
(* (total) never exceeds what has been charged to the wallet for that      *)
(* session.  Charges only grow, so other requests cannot invalidate it.    *)
(* Carries says which locals are set at which statement.  From it follow   *)
(* that the services implement the meter of SessionMeter and, with         *)
(* LedgerInv, that the ledger is complete: LedgerInv balances every        *)
(* session and every wallet with what the requests are yet to enter.       *)
(*                                                                         *)
(* What holds of calls that do not overlap comes last: one invariant for   *)
(* what a request has found (FoundInv), one for the snapshots (FreshInv),  *)
(* one for the stations (RightInv) and one for the bills (BillInv).        *)
(***************************************************************************)
EXTENDS SessionWallet, Totals, TLAPS

USE DEF rows, caches, ledger, history

(* What keeps the locals of the requests valid: rows of usage_sessions keep  *)
(* their wallet once they are inserted, and charges only grow.               *)
Grows ==
  \A s \in Sessions :
    /\ debited[s] <= debited'[s]
    /\ session[s].phase # "none" =>
         session'[s].phase # "none" /\ session'[s].bal = session[s].bal

-----------------------------------------------------------------------------
(* Control *)

(* The empty locals of an idle request are well typed. *)
LEMMA NoLocalsType == NoLocals \in Locals
BY NoneAssumption
DEF NoLocals, Locals, Ops, Enders, Steps, BlankRow, WalletRow, Status, Phase

(* An idle request relies on nothing. *)
LEMMA IdleCarries ==
  ASSUME NEW sessions, NEW charges
  PROVE  Carries(sessions, "idle", NoLocals) /\ Covers(charges, "idle", NoLocals)
BY DEF Carries, Covers, Stage, Metered, RawSteps, EnrichedSteps, Starting,
       Charging, Charged, Serving, Selling, Enders

(* Move changes the control of one request and keeps its type. *)
LEMMA MoveStep ==
  ASSUME TypeOK, NEW r \in Requests, NEW to \in Steps, NEW new \in Locals,
         Move(r, to, new)
  PROVE  /\ pc' \in [Requests -> Steps]
         /\ loc' \in [Requests -> Locals]
         /\ pc'[r] = to
         /\ loc'[r] = IF to = "idle" THEN NoLocals ELSE new
         /\ \A q \in Requests \ {r} : pc'[q] = pc[q] /\ loc'[q] = loc[q]
BY NoLocalsType DEF Move, TypeOK

(* What a request relies on stays true while the rows grow. *)
LEMMA CarriesGrows ==
  ASSUME Grows, NEW step \in Steps, NEW l \in Locals,
         Carries(session, step, l)
  PROVE  Carries(session', step, l)
<1>1. ASSUME l.sid \in Sessions, session[l.sid].phase # "none"
      PROVE  /\ session'[l.sid].phase # "none"
             /\ session'[l.sid].bal = session[l.sid].bal
  BY <1>1 DEF Grows
<1>2. Stage(step, l) \in Charging => Metered(step, l)
  BY DEF Metered
<1>3. QED
  BY <1>1, <1>2 DEF Carries

(* What a request is to record stays charged while charges grow. *)
LEMMA CoversGrows ==
  ASSUME DataTypeOK, DataTypeOK', Grows, NEW step \in Steps, NEW l \in Locals,
         Carries(session, step, l), Covers(debited, step, l)
  PROVE  Covers(debited', step, l)
<1>1. l.seen \in Nat /\ l.total \in Nat
  BY DEF Locals
<1>2. ASSUME l.sid \in Sessions
      PROVE  /\ debited[l.sid] \in Nat /\ debited'[l.sid] \in Nat
             /\ debited[l.sid] <= debited'[l.sid]
  BY <1>2 DEF Grows, DataTypeOK
<1>3. Metered(step, l) => l.sid \in Sessions
  BY DEF Carries
<1>4. Stage(step, l) = "charge" => Metered(step, l)
  BY DEF Metered, Charging
<1>5. QED
  BY <1>1, <1>2, <1>3, <1>4 DEF Covers

(* The step of one request preserves the invariant when the rows grow and    *)
(* the request carries what its next statement relies on.                    *)
LEMMA MoveInv ==
  ASSUME IInv, NEW r \in Requests, NEW to \in Steps, NEW new \in Locals,
         Move(r, to, new), DataTypeOK', Grows,
         \A s \in Sessions : Payable(s)', RecordedWasCharged',
         to # "idle" => /\ Carries(session', to, new)
                        /\ Covers(debited', to, new)
  PROVE  IInv'
<1>1. /\ pc' \in [Requests -> Steps]
      /\ loc' \in [Requests -> Locals]
      /\ pc'[r] = to
      /\ loc'[r] = IF to = "idle" THEN NoLocals ELSE new
      /\ \A q \in Requests \ {r} : pc'[q] = pc[q] /\ loc'[q] = loc[q]
  BY MoveStep DEF IInv
<1>2. ASSUME NEW q \in Requests
      PROVE  Carries(session', pc'[q], loc'[q]) /\ Covers(debited', pc'[q], loc'[q])
  <2>1. CASE q = r
    BY <1>1, <2>1, IdleCarries
  <2>2. CASE q # r
    <3>1. /\ Carries(session, pc[q], loc[q]) /\ Covers(debited, pc[q], loc[q])
          /\ pc[q] \in Steps /\ loc[q] \in Locals /\ DataTypeOK
      BY DEF IInv, TypeOK
    <3>2. QED
      BY <1>1, <2>2, <3>1, CarriesGrows, CoversGrows
  <2>3. QED
    BY <2>1, <2>2
<1>3. QED
  BY <1>1, <1>2 DEF IInv, TypeOK

(* A step that leaves the sessions and the charges alone. *)
LEMMA StillRows ==
  ASSUME IInv, UNCHANGED <<session, debited>>
  PROVE  Grows /\ (\A s \in Sessions : Payable(s)') /\ RecordedWasCharged'
BY DEF Grows, IInv, Payable, RecordedWasCharged, TypeOK, DataTypeOK

(* The step of a request that leaves the sessions and the charges alone. *)
LEMMA StillMoveInv ==
  ASSUME IInv, NEW r \in Requests, NEW to \in Steps, NEW new \in Locals,
         Move(r, to, new), DataTypeOK', UNCHANGED <<session, debited>>,
         to # "idle" => Carries(session, to, new) /\ Covers(debited, to, new)
  PROVE  IInv'
BY StillRows, MoveInv

(* A request that answers relies on nothing any more. *)
LEMMA ReplyInv ==
  ASSUME IInv, NEW r \in Requests, Reply(r), DataTypeOK',
         UNCHANGED <<session, debited>>
  PROVE  IInv'
<1>1. loc[r] \in Locals /\ "idle" \in Steps
  BY DEF IInv, TypeOK, Steps
<1>2. QED
  BY <1>1, StillMoveInv DEF Reply

(* A request that arrives is in the state its first statement relies on. *)
LEMMA ArriveInv ==
  ASSUME IInv, NEW r \in Requests, NEW call, NEW to \in Steps,
         NEW new \in Locals, to # "idle", Arrive(r, call, to, new), DataTypeOK',
         UNCHANGED <<session, debited>>,
         Carries(session, to, new), Covers(debited, to, new)
  PROVE  IInv'
<1>1. Move(r, to, new)
  BY DEF Arrive, Move
<1>2. QED
  BY <1>1, StillMoveInv

(* A step of the environment leaves the requests where they are. *)
LEMMA EnvironmentInv ==
  ASSUME IInv, DataTypeOK', UNCHANGED <<session, debited, pc, loc>>
  PROVE  IInv'
BY StillRows DEF IInv, TypeOK

(* The facts each action starts from. *)
LEMMA Now ==
  ASSUME IInv, NEW r \in Requests
  PROVE  /\ DataTypeOK
         /\ pc[r] \in Steps
         /\ loc[r] \in Locals
         /\ Carries(session, pc[r], loc[r])
         /\ Covers(debited, pc[r], loc[r])
BY DEF IInv, TypeOK

USE DEF Stage, Metered, RawSteps, EnrichedSteps, Starting, Charging, Charged,
        Serving, Selling, Enders

-----------------------------------------------------------------------------
(* Cached reads *)

(* A hit of balance:raw hands over a row that was stored. *)
LEMMA RawHitInv ==
  ASSUME IInv, NEW r \in Requests, RawHit(r)
  PROVE  IInv'
<1> DEFINE new == [loc[r] EXCEPT !.row = rawCache[loc[r].bal]]
<1> DEFINE to == loc[r].next
<1>1. new \in Locals /\ to \in Steps
  BY Now DEF RawHit, Carries, DataTypeOK, Locals, Steps
<1>2. Move(r, to, new) /\ UNCHANGED <<session, debited>>
  BY DEF RawHit
<1>3. DataTypeOK'
  BY Now DEF RawHit, DataTypeOK
<1>4. to # "idle" => Carries(session, to, new)
  BY Now DEF RawHit, Carries, Locals
<1>5. to # "idle" => Covers(debited, to, new)
  BY Now DEF RawHit, Carries, Covers, Locals
<1> HIDE DEF new, to
<1>6. QED
  BY <1>1, <1>2, <1>3, <1>4, <1>5, StillMoveInv

(* A miss reads the row of a wallet. *)
LEMMA RawMissInv ==
  ASSUME IInv, NEW r \in Requests, RawMiss(r)
  PROVE  IInv'
<1> DEFINE new == [loc[r] EXCEPT !.row = wallet[loc[r].bal]]
<1> DEFINE to == "rawFill"
<1>1. new \in Locals /\ to \in Steps
  BY Now DEF RawMiss, Carries, DataTypeOK, Locals, Steps
<1>2. Move(r, to, new) /\ UNCHANGED <<session, debited>>
  BY DEF RawMiss
<1>3. DataTypeOK'
  BY Now DEF RawMiss, DataTypeOK
<1>4. to # "idle" => Carries(session, to, new)
  BY Now DEF RawMiss, Carries, Locals
<1>5. to # "idle" => Covers(debited, to, new)
  BY Now DEF RawMiss, Carries, Covers, Locals
<1> HIDE DEF new, to
<1>6. QED
  BY <1>1, <1>2, <1>3, <1>4, <1>5, StillMoveInv

(* The row read is stored. *)
LEMMA RawFillInv ==
  ASSUME IInv, NEW r \in Requests, RawFill(r)
  PROVE  IInv'
<1> DEFINE new == loc[r]
<1> DEFINE to == loc[r].next
<1>1. new \in Locals /\ to \in Steps
  BY Now DEF RawFill, Carries, DataTypeOK, Locals, Steps
<1>2. Move(r, to, new) /\ UNCHANGED <<session, debited>>
  BY DEF RawFill
<1>3. DataTypeOK'
  BY Now DEF RawFill, DataTypeOK, Locals
<1>4. to # "idle" => Carries(session, to, new)
  BY Now DEF RawFill, Carries, Locals
<1>5. to # "idle" => Covers(debited, to, new)
  BY Now DEF RawFill, Carries, Covers, Locals
<1> HIDE DEF new, to
<1>6. QED
  BY <1>1, <1>2, <1>3, <1>4, <1>5, StillMoveInv

(* A hit of session:enriched. *)
LEMMA EnrichedHitInv ==
  ASSUME IInv, NEW r \in Requests, EnrichedHit(r)
  PROVE  IInv'
<1> DEFINE new == [loc[r] EXCEPT !.snap = openCache[loc[r].sid]]
<1> DEFINE to == loc[r].next
<1>1. new \in Locals /\ to \in Steps
  BY Now DEF EnrichedHit, Carries, DataTypeOK, Locals, Steps
<1>2. Move(r, to, new) /\ UNCHANGED <<session, debited>>
  BY DEF EnrichedHit
<1>3. DataTypeOK'
  BY Now DEF EnrichedHit, DataTypeOK
<1>4. to # "idle" => Carries(session, to, new)
  BY Now DEF EnrichedHit, Carries, Locals
<1>5. to # "idle" => Covers(debited, to, new)
  BY Now DEF EnrichedHit, Carries, Covers, Locals
<1> HIDE DEF new, to
<1>6. QED
  BY <1>1, <1>2, <1>3, <1>4, <1>5, StillMoveInv

(* A miss reads the session. *)
LEMMA EnrichedMissInv ==
  ASSUME IInv, NEW r \in Requests, EnrichedMiss(r)
  PROVE  IInv'
<1> DEFINE new == [loc[r] EXCEPT !.snap = session[loc[r].sid].phase]
<1> DEFINE to == "enrichedFill"
<1>a. loc[r].sid \in Sessions /\ loc[r] \in Locals
  BY Now DEF EnrichedMiss, Carries
<1>b. session[loc[r].sid].phase \in Phase
  BY <1>a, Now DEF DataTypeOK, SessionRow
<1>1. new \in Locals /\ to \in Steps
  BY <1>a, <1>b DEF Locals, Steps
<1>2. Move(r, to, new) /\ UNCHANGED <<session, debited>>
  BY DEF EnrichedMiss
<1>3. DataTypeOK'
  BY Now DEF EnrichedMiss, DataTypeOK
<1>4. to # "idle" => Carries(session, to, new)
  BY Now DEF EnrichedMiss, Carries, Locals
<1>5. to # "idle" => Covers(debited, to, new)
  BY Now DEF EnrichedMiss, Carries, Covers, Locals
<1> HIDE DEF new, to
<1>6. QED
  BY <1>1, <1>2, <1>3, <1>4, <1>5, StillMoveInv

(* The session read is stored. *)
LEMMA EnrichedFillInv ==
  ASSUME IInv, NEW r \in Requests, EnrichedFill(r)
  PROVE  IInv'
<1> DEFINE new == loc[r]
<1> DEFINE to == loc[r].next
<1>1. new \in Locals /\ to \in Steps
  BY Now DEF EnrichedFill, Carries, DataTypeOK, Locals, Steps
<1>2. Move(r, to, new) /\ UNCHANGED <<session, debited>>
  BY DEF EnrichedFill
<1>3. DataTypeOK'
  BY Now DEF EnrichedFill, DataTypeOK, Locals
<1>4. to # "idle" => Carries(session, to, new)
  BY Now DEF EnrichedFill, Carries, Locals
<1>5. to # "idle" => Covers(debited, to, new)
  BY Now DEF EnrichedFill, Carries, Covers, Locals
<1> HIDE DEF new, to
<1>6. QED
  BY <1>1, <1>2, <1>3, <1>4, <1>5, StillMoveInv

-----------------------------------------------------------------------------
(* Starting a session *)

(* start_for_player goes on with a valid balance. *)
LEMMA AdmitInv ==
  ASSUME IInv, NEW r \in Requests, Admit(r)
  PROVE  IInv'
<1> DEFINE new == loc[r]
<1> DEFINE to == "activeCheck"
<1>1. new \in Locals /\ to \in Steps
  BY Now DEF Admit, Carries, DataTypeOK, Locals, Steps
<1>2. (Move(r, to, new) \/ Reply(r)) /\ UNCHANGED <<session, debited>>
  BY DEF Admit
<1>3. DataTypeOK'
  BY Now DEF Admit, DataTypeOK
<1>4. Carries(session, to, new)
  BY Now DEF Admit, Carries, Locals, DataTypeOK
<1>5. Covers(debited, to, new)
  BY Now DEF Admit, Carries, Covers, Locals
<1> HIDE DEF new, to
<1>6. QED
  BY <1>1, <1>2, <1>3, <1>4, <1>5, StillMoveInv, ReplyInv

(* start fixes the start time. *)
LEMMA ActiveCheckInv ==
  ASSUME IInv, NEW r \in Requests, ActiveCheck(r)
  PROVE  IInv'
<1> DEFINE new == [loc[r] EXCEPT !.at = clock, !.next = "access"]
<1> DEFINE to == "raw"
<1>a. clock \in Nat /\ loc[r] \in Locals
  BY Now DEF DataTypeOK
<1>1. new \in Locals /\ to \in Steps
  BY <1>a DEF Locals, Steps
<1>2. (Move(r, to, new) \/ Reply(r)) /\ UNCHANGED <<session, debited>>
  BY DEF ActiveCheck
<1>3. DataTypeOK'
  BY Now DEF ActiveCheck, DataTypeOK
<1>4. Carries(session, to, new)
  BY Now DEF ActiveCheck, Carries, Locals, DataTypeOK
<1>5. Covers(debited, to, new)
  BY Now DEF ActiveCheck, Carries, Covers, Locals
<1> HIDE DEF new, to
<1>6. QED
  BY <1>1, <1>2, <1>3, <1>4, <1>5, StillMoveInv, ReplyInv

(* start reads the balance once more. *)
LEMMA AccessInv ==
  ASSUME IInv, NEW r \in Requests, Access(r)
  PROVE  IInv'
<1> DEFINE new == [loc[r] EXCEPT !.next = "insert"]
<1> DEFINE to == "raw"
<1>1. new \in Locals /\ to \in Steps
  BY Now DEF Access, Carries, DataTypeOK, Locals, Steps
<1>2. (Move(r, to, new) \/ Reply(r)) /\ UNCHANGED <<session, debited>>
  BY DEF Access
<1>3. DataTypeOK'
  BY Now DEF Access, DataTypeOK
<1>4. Carries(session, to, new)
  BY Now DEF Access, Carries, Locals, DataTypeOK
<1>5. Covers(debited, to, new)
  BY Now DEF Access, Carries, Covers, Locals
<1> HIDE DEF new, to
<1>6. QED
  BY <1>1, <1>2, <1>3, <1>4, <1>5, StillMoveInv, ReplyInv

(* start answers. *)
LEMMA OccupyInv ==
  ASSUME IInv, NEW r \in Requests, Occupy(r)
  PROVE  IInv'
<1>1. DataTypeOK'
  BY Now DEF Occupy, DataTypeOK
<1>2. QED
  BY <1>1, ReplyInv DEF Occupy

-----------------------------------------------------------------------------
(* Heartbeat and poll *)

(* The session is read for the write-through. *)
LEMMA RefreshInv ==
  ASSUME IInv, NEW r \in Requests, Refresh(r)
  PROVE  IInv'
<1> DEFINE new == [loc[r] EXCEPT !.snap = session[loc[r].sid].phase]
<1> DEFINE to == "writeThrough"
<1>a. loc[r].sid \in Sessions /\ loc[r] \in Locals
  BY Now DEF Refresh, Carries
<1>b. session[loc[r].sid].phase \in Phase
  BY <1>a, Now DEF DataTypeOK, SessionRow
<1>1. new \in Locals /\ to \in Steps
  BY <1>a, <1>b DEF Locals, Steps
<1>2. Move(r, to, new) /\ UNCHANGED <<session, debited>>
  BY DEF Refresh
<1>3. DataTypeOK'
  BY Now DEF Refresh, DataTypeOK, Phase
<1>4. to # "idle" => Carries(session, to, new)
  BY Now DEF Refresh, Carries, Locals
<1>5. to # "idle" => Covers(debited, to, new)
  BY Now DEF Refresh, Carries, Covers, Locals
<1> HIDE DEF new, to
<1>6. QED
  BY <1>1, <1>2, <1>3, <1>4, <1>5, StillMoveInv

(* The poll ends the session or answers. *)
LEMMA ProjectInv ==
  ASSUME IInv, NEW r \in Requests, Project(r)
  PROVE  IInv'
<1> DEFINE new == loc[r]
<1> DEFINE to == "autoEnd"
<1>1. new \in Locals /\ to \in Steps
  BY Now DEF Project, Carries, DataTypeOK, Locals, Steps
<1>2. (Move(r, to, new) \/ Reply(r)) /\ UNCHANGED <<session, debited>>
  BY DEF Project
<1>3. DataTypeOK'
  BY Now DEF Project, DataTypeOK
<1>4. Carries(session, to, new)
  BY Now DEF Project, Carries, Locals, DataTypeOK
<1>5. Covers(debited, to, new)
  BY Now DEF Project, Carries, Covers, Locals
<1> HIDE DEF new, to
<1>6. QED
  BY <1>1, <1>2, <1>3, <1>4, <1>5, StillMoveInv, ReplyInv

(* auto_end_expired fixes the end time. *)
LEMMA AutoEndInv ==
  ASSUME IInv, NEW r \in Requests, AutoEnd(r)
  PROVE  IInv'
<1> DEFINE new == [NoLocals EXCEPT !.op = "staffEnd", !.sid = loc[r].sid, !.at = clock, !.next = "endCheck"]
<1> DEFINE to == "enriched"
<1>1. new \in Locals /\ to \in Steps
  <2>1. loc[r].sid \in Sessions /\ clock \in Nat
    BY Now DEF AutoEnd, Carries, DataTypeOK
  <2>2. new \in Locals
    BY <2>1, NoLocalsType DEF Locals, Ops, Steps
  <2>3. to \in Steps
    BY DEF Steps
  <2>4. QED
    BY <2>2, <2>3
<1>2. (Move(r, to, new) \/ Reply(r)) /\ UNCHANGED <<session, debited>>
  BY DEF AutoEnd
<1>3. DataTypeOK'
  BY Now DEF AutoEnd, DataTypeOK
<1>4. Carries(session, to, new)
  BY Now DEF AutoEnd, Carries, Locals, DataTypeOK
<1>5. Covers(debited, to, new)
  BY Now DEF AutoEnd, Carries, Covers, Locals
<1> HIDE DEF new, to
<1>6. QED
  BY <1>1, <1>2, <1>3, <1>4, <1>5, StillMoveInv, ReplyInv

-----------------------------------------------------------------------------
(* Ending a session *)

(* Answering with the balance relies on the wallet of the session only. *)
LEMMA ShowBalanceInv ==
  ASSUME IInv, NEW r \in Requests, ShowBalance(r), DataTypeOK',
         UNCHANGED <<session, debited>>,
         loc[r].sid \in Sessions, session[loc[r].sid].phase # "none"
  PROVE  IInv'
<1> DEFINE new == [NoLocals EXCEPT !.op = "end", !.next = "idle",
                                   !.bal = session[loc[r].sid].bal]
<1>1. session[loc[r].sid].bal \in Balances
  BY DEF IInv, Payable
<1>2. new \in Locals /\ "raw" \in Steps
  <2>1. new \in Locals
    BY <1>1, NoLocalsType DEF Locals, Ops, Steps
  <2>2. "raw" \in Steps
    BY DEF Steps
  <2>3. QED
    BY <2>1, <2>2
<1>3. Carries(session, "raw", new) /\ Covers(debited, "raw", new)
  <2>1. Carries(session, "raw", new)
    BY <1>1, NoLocalsType DEF Carries, Locals
  <2>2. Covers(debited, "raw", new)
    BY <1>1, NoLocalsType DEF Covers, Locals
  <2>3. QED
    BY <2>1, <2>2
<1>4. Move(r, "raw", new)
  BY DEF ShowBalance
<1> HIDE DEF new
<1>5. QED
  BY <1>2, <1>3, <1>4, StillMoveInv

(* A replayed end is answered, an open session is handed to end(). *)
LEMMA ReplayCheckInv ==
  ASSUME IInv, NEW r \in Requests, ReplayCheck(r)
  PROVE  IInv'
<1> DEFINE new == [loc[r] EXCEPT !.next = "endCheck"]
<1>1. /\ loc[r].sid \in Sessions /\ session[loc[r].sid].phase # "none"
      /\ new \in Locals /\ "enriched" \in Steps
  BY Now DEF ReplayCheck, Carries, Locals, Steps
<1>2. DataTypeOK' /\ UNCHANGED <<session, debited>>
  BY Now DEF ReplayCheck, DataTypeOK
<1>3. CASE ShowBalance(r)
  BY <1>1, <1>2, <1>3, ShowBalanceInv
<1>4. CASE Move(r, "enriched", new)
  <2>1. Carries(session, "enriched", new) /\ Covers(debited, "enriched", new)
    BY Now DEF ReplayCheck, Carries, Covers, Locals
  <2> HIDE DEF new
  <2>2. QED
    BY <1>1, <1>2, <1>4, <2>1, StillMoveInv
<1>5. QED
  BY <1>3, <1>4 DEF ReplayCheck

(* The station is released and the call answers. *)
LEMMA ReleaseInv ==
  ASSUME IInv, NEW r \in Requests, Release(r)
  PROVE  IInv'
<1>1. DataTypeOK' /\ UNCHANGED <<session, debited>>
  BY Now DEF Release, DataTypeOK
<1>2. loc[r].sid \in Sessions /\ session[loc[r].sid].phase # "none"
  BY Now DEF Release, Carries
<1>3. CASE ShowBalance(r)
  BY <1>1, <1>2, <1>3, ShowBalanceInv
<1>4. CASE Reply(r)
  BY <1>1, <1>4, ReplyInv
<1>5. QED
  BY <1>3, <1>4 DEF Release

-----------------------------------------------------------------------------
(* Changes of a wallet *)

(* The sale is entered in the ledger. *)
LEMMA AppendTopupInv ==
  ASSUME IInv, NEW r \in Requests, AppendTopup(r)
  PROVE  IInv'
<1> DEFINE new == loc[r]
<1> DEFINE to == "sync"
<1>1. new \in Locals /\ to \in Steps
  BY Now DEF AppendTopup, Carries, DataTypeOK, Locals, Steps
<1>2. Move(r, to, new) /\ UNCHANGED <<session, debited>>
  BY DEF AppendTopup
<1>a. loc[r].bal \in Balances /\ loc[r].minutes \in Nat
  BY Now DEF AppendTopup, Carries, Locals
<1>b. topup' \in [Balances -> Nat]
  BY <1>a, Now DEF AppendTopup, DataTypeOK
<1>3. DataTypeOK'
  BY <1>b, Now DEF AppendTopup, DataTypeOK
<1>4. to # "idle" => Carries(session, to, new)
  BY Now DEF AppendTopup, Carries, Locals
<1>5. to # "idle" => Covers(debited, to, new)
  BY Now DEF AppendTopup, Carries, Covers, Locals
<1> HIDE DEF new, to
<1>6. QED
  BY <1>1, <1>2, <1>3, <1>4, <1>5, StillMoveInv

(* A stale wallet is marked. *)
LEMMA ExpireInv ==
  ASSUME IInv, NEW r \in Requests, Expire(r)
  PROVE  IInv'
<1> DEFINE new == loc[r]
<1> DEFINE to == "reread"
<1>1. new \in Locals /\ to \in Steps
  BY Now DEF Expire, Carries, DataTypeOK, Locals, Steps
<1>2. Move(r, to, new) /\ UNCHANGED <<session, debited>>
  BY DEF Expire
<1>3. DataTypeOK'
  <2> DEFINE b == loc[r].bal
  <2> DEFINE row == [wallet[b] EXCEPT !.status = "expired"]
  <2>1. b \in Balances /\ wallet \in [Balances -> WalletRow]
    BY Now DEF Expire, Carries, DataTypeOK, Stage, Selling, RawSteps, EnrichedSteps
  <2>2. row \in WalletRow
    BY <2>1 DEF WalletRow, Status
  <2>3. wallet' = [wallet EXCEPT ![b] = row]
    BY DEF Expire
  <2> HIDE DEF row
  <2>4. wallet' \in [Balances -> WalletRow]
    BY <2>1, <2>2, <2>3
  <2>5. QED
    BY <2>4, Now DEF Expire, DataTypeOK
<1>4. to # "idle" => Carries(session, to, new)
  BY Now DEF Expire, Carries, Locals
<1>5. to # "idle" => Covers(debited, to, new)
  BY Now DEF Expire, Carries, Covers, Locals
<1> HIDE DEF new, to
<1>6. QED
  BY <1>1, <1>2, <1>3, <1>4, <1>5, StillMoveInv

(* The expired row is read back. *)
LEMMA RereadInv ==
  ASSUME IInv, NEW r \in Requests, Reread(r)
  PROVE  IInv'
<1> DEFINE new == [loc[r] EXCEPT !.row = wallet[loc[r].bal]]
<1> DEFINE to == "sync"
<1>1. new \in Locals /\ to \in Steps
  BY Now DEF Reread, Carries, DataTypeOK, Locals, Steps
<1>2. Move(r, to, new) /\ UNCHANGED <<session, debited>>
  BY DEF Reread
<1>3. DataTypeOK'
  BY Now DEF Reread, DataTypeOK
<1>4. to # "idle" => Carries(session, to, new)
  BY Now DEF Reread, Carries, Locals
<1>5. to # "idle" => Covers(debited, to, new)
  BY Now DEF Reread, Carries, Covers, Locals
<1> HIDE DEF new, to
<1>6. QED
  BY <1>1, <1>2, <1>3, <1>4, <1>5, StillMoveInv

-----------------------------------------------------------------------------
(* Operators on rows *)

(* A deduction leaves a balance row, never below zero. *)
LEMMA DeductedType ==
  ASSUME NEW row \in WalletRow, NEW minutes \in Nat
  PROVE  Deducted(row, minutes) \in WalletRow
<1> DEFINE rem == NonNeg(row.rem - minutes)
<1> DEFINE status == IF row.rem - minutes <= 0 THEN "exhausted" ELSE row.status
<1>1. rem \in Nat /\ status \in Status
  BY DEF WalletRow, Status, NonNeg
<1>2. Deducted(row, minutes) = [row EXCEPT !.rem = rem, !.status = status]
  BY DEF Deducted, WalletRow
<1> HIDE DEF rem, status
<1>3. QED
  BY <1>1, <1>2 DEF WalletRow

(* What a session owes is a number of minutes. *)
LEMMA ConsumptionType ==
  ASSUME NEW row \in WalletRow, NEW start \in Nat, NEW end \in Nat
  PROVE  Consumption(row, start, end) \in Nat
<1>1. row.rate \in Nat /\ NonNeg(end - start) \in Nat
  BY DEF WalletRow, NonNeg
<1>2. QED
  BY <1>1 DEF Consumption

(* The minutes owed so far are a number: the locals the sum uses are set. *)
LEMMA OwedType ==
  ASSUME IInv, NEW r \in Requests, pc[r] = "charge"
  PROVE  Owed(r) \in Nat
<1>1. /\ loc[r].sid \in Sessions
      /\ loc[r].row \in WalletRow
      /\ loc[r].op # "heartbeat" => loc[r].at \in Nat
  BY Now DEF Carries, Locals
<1>2. session[loc[r].sid].start \in Nat /\ clock \in Nat
  BY <1>1, Now DEF DataTypeOK, SessionRow
<1>3. QED
  BY <1>1, <1>2, ConsumptionType DEF Owed

-----------------------------------------------------------------------------
(* Charging a session *)

(* With nothing new to charge the total is what was recorded before. *)
LEMMA ChargeNothingInv ==
  ASSUME IInv, NEW r \in Requests, ChargeNothing(r)
  PROVE  IInv'
<1> DEFINE new == [loc[r] EXCEPT !.total = Owed(r)]
<1> DEFINE to == AfterCharge(r)
<1>1. /\ loc[r] \in Locals /\ loc[r].sid \in Sessions
      /\ session[loc[r].sid].phase # "none"
      /\ loc[r].op \in {"heartbeat", "end", "staffEnd"}
      /\ loc[r].op # "heartbeat" => loc[r].at \in Nat
      /\ loc[r].seen \in Nat /\ loc[r].seen <= debited[loc[r].sid]
  BY Now DEF ChargeNothing, Carries, Covers, Locals
<1>2. Owed(r) \in Nat /\ Owed(r) <= loc[r].seen
  BY OwedType DEF ChargeNothing
<1>3. debited[loc[r].sid] \in Nat
  BY <1>1, Now DEF DataTypeOK
<1>4. new \in Locals /\ to \in {"refresh", "close"} /\ to \in Steps
  BY <1>1, <1>2 DEF AfterCharge, Locals, Steps
<1>5. Move(r, to, new) /\ UNCHANGED <<session, debited>> /\ DataTypeOK'
  BY Now DEF ChargeNothing, DataTypeOK
<1>6. Carries(session, to, new)
  BY <1>1, <1>4 DEF Carries, Locals, AfterCharge
<1>7. Covers(debited, to, new)
  BY <1>1, <1>2, <1>3, <1>4 DEF Covers, Locals
<1> HIDE DEF new, to
<1>8. QED
  BY <1>4, <1>5, <1>6, <1>7, StillMoveInv

(* Minutes are charged before they are recorded: total is covered by the     *)
(* charge this very step makes.                                              *)
LEMMA TakeInv ==
  ASSUME IInv, NEW r \in Requests, NEW minutes \in Nat, NEW total \in Nat,
         Take(r, minutes, total), pc[r] \in Charging,
         total <= debited[loc[r].sid] + minutes
  PROVE  IInv'
<1> DEFINE updated == Deducted(wallet[loc[r].bal], minutes)
<1> DEFINE new == [loc[r] EXCEPT !.row = updated, !.minutes = minutes,
                                 !.total = total]
<1>1. /\ loc[r] \in Locals /\ loc[r].sid \in Sessions
      /\ loc[r].bal \in Balances
      /\ session[loc[r].sid].phase # "none"
      /\ loc[r].op \in Enders \cup {"heartbeat"}
      /\ loc[r].op \in Enders => loc[r].at \in Nat
  BY Now DEF Carries, Locals
<1>2. updated \in WalletRow
  BY <1>1, Now, DeductedType DEF DataTypeOK
<1>3. new \in Locals /\ "sync" \in Steps
  <2>1. new \in Locals
    BY <1>1, <1>2 DEF Locals
  <2>2. "sync" \in Steps
    BY DEF Steps
  <2>3. QED
    BY <2>1, <2>2
<1>4. Move(r, "sync", new) /\ session' = session
  BY DEF Take
<1>5. /\ debited' \in [Sessions -> Nat]
      /\ debited'[loc[r].sid] = debited[loc[r].sid] + minutes
      /\ \A s \in Sessions : debited[s] <= debited'[s]
  BY <1>1, Now DEF Take, DataTypeOK
<1>6. wallet' \in [Balances -> WalletRow]
  BY <1>1, <1>2, Now DEF Take, DataTypeOK
<1>7. DataTypeOK'
  BY <1>5, <1>6, Now DEF Take, DataTypeOK
<1>8. Grows /\ (\A s \in Sessions : Payable(s)')
  BY <1>4, <1>5 DEF Grows, Payable, IInv
<1>9. RecordedWasCharged'
  <2>1. ASSUME NEW s \in Sessions
        PROVE  session[s].used <= debited'[s]
    <3>1. session[s].used \in Nat /\ debited[s] \in Nat /\ debited'[s] \in Nat
      BY <1>5, Now DEF DataTypeOK, SessionRow
    <3>2. QED
      BY <1>5, <3>1 DEF IInv, RecordedWasCharged
  <2>2. QED
    BY <1>4, <2>1 DEF RecordedWasCharged
<1>10. Carries(session', "sync", new)
  BY <1>1, <1>4 DEF Carries, Locals
<1>11. Covers(debited', "sync", new)
  BY <1>1, <1>5 DEF Covers, Locals
<1> HIDE DEF new
<1>12. QED
  BY <1>3, <1>4, <1>7, <1>8, <1>9, <1>10, <1>11, MoveInv

(* What was seen and what is taken now make up the total to be recorded. *)
LEMMA ChargeDeltaInv ==
  ASSUME IInv, NEW r \in Requests, ChargeDelta(r)
  PROVE  IInv'
<1>1. /\ loc[r].sid \in Sessions
      /\ loc[r].seen \in Nat /\ loc[r].seen <= debited[loc[r].sid]
  BY Now DEF ChargeDelta, Carries, Covers, Locals
<1>2. debited[loc[r].sid] \in Nat
  BY <1>1, Now DEF DataTypeOK
<1>3. Owed(r) \in Nat /\ Owed(r) > loc[r].seen
  BY OwedType DEF ChargeDelta
<1>4. /\ Owed(r) - loc[r].seen \in Nat
      /\ Owed(r) <= debited[loc[r].sid] + (Owed(r) - loc[r].seen)
  BY <1>1, <1>2, <1>3
<1>5. Take(r, Owed(r) - loc[r].seen, Owed(r)) /\ pc[r] \in Charging
  BY DEF ChargeDelta
<1>6. QED
  BY <1>3, <1>4, <1>5, TakeInv

(* The total a client reports is taken in full before it is recorded. *)
LEMMA SettleInv ==
  ASSUME IInv, NEW r \in Requests, Settle(r)
  PROVE  IInv'
<1>1. /\ loc[r] \in Locals /\ loc[r].sid \in Sessions
      /\ session[loc[r].sid].phase # "none"
      /\ loc[r].op = "reconcile"
      /\ loc[r].at \in Nat /\ loc[r].total \in Nat
  BY Now DEF Settle, Carries, Locals
<1>2. debited[loc[r].sid] \in Nat
  BY <1>1, Now DEF DataTypeOK
<1>3. CASE Take(r, loc[r].total, loc[r].total)
  BY <1>1, <1>2, <1>3, TakeInv DEF Settle
<1>4. CASE /\ loc[r].total = 0
           /\ Move(r, "close", loc[r])
           /\ UNCHANGED <<clock, rows, caches, ledger, history>>
  <2>1. DataTypeOK' /\ "close" \in Steps /\ UNCHANGED <<session, debited>>
    BY <1>4, Now DEF DataTypeOK, Steps
  <2>2. Carries(session, "close", loc[r])
    BY <1>1 DEF Carries
  <2>3. Covers(debited, "close", loc[r])
    BY <1>1, <1>2, <1>4 DEF Covers
  <2>4. QED
    BY <1>1, <1>4, <2>1, <2>2, <2>3, StillMoveInv
<1>5. QED
  BY <1>3, <1>4 DEF Settle

(* The row an UPDATE returned is written through, then the ledger follows. *)
LEMMA SyncCacheInv ==
  ASSUME IInv, NEW r \in Requests, SyncCache(r)
  PROVE  IInv'
<1>1. /\ loc[r] \in Locals /\ loc[r].bal \in Balances
      /\ loc[r].row \in WalletRow /\ pc[r] = "sync"
  BY Now DEF SyncCache, Carries, Locals
<1>2. rawCache' \in [Balances -> WalletRow \cup {None}]
  BY <1>1, Now DEF SyncCache, DataTypeOK
<1>3. openCache' \in [Sessions -> Phase]
  BY Now DEF SyncCache, DataTypeOK, Phase
<1>4. DataTypeOK' /\ UNCHANGED <<session, debited>>
  BY <1>2, <1>3, Now DEF SyncCache, DataTypeOK
<1>5. CASE Reply(r)
  BY <1>4, <1>5, ReplyInv
<1>6. CASE /\ loc[r].op \notin {"recharge", "sweep"}
           /\ Move(r, "ledger", loc[r])
  <2>1. loc[r].op \in Enders \cup {"heartbeat"}
    BY <1>1, <1>6, Now DEF Carries, Locals, Ops
  <2>2. Carries(session, "ledger", loc[r])
    BY <1>1, <2>1, Now DEF Carries
  <2>3. Covers(debited, "ledger", loc[r])
    BY <1>1, <2>1, Now DEF Covers
  <2>4. "ledger" \in Steps
    BY DEF Steps
  <2>5. QED
    BY <1>1, <1>4, <1>6, <2>2, <2>3, <2>4, StillMoveInv
<1>7. QED
  BY <1>5, <1>6 DEF SyncCache

(* The ledger row is appended, and the request still carries its total. *)
LEMMA AppendUsageInv ==
  ASSUME IInv, NEW r \in Requests, AppendUsage(r)
  PROVE  IInv'
<1> DEFINE to == IF loc[r].op = "reconcile" THEN "close" ELSE "record"
<1>1. /\ loc[r] \in Locals /\ pc[r] = "ledger" /\ loc[r].minutes \in Nat
      /\ loc[r].sid \in Sessions
  BY Now DEF AppendUsage, Carries, Locals
<1>2. loc[r].op \in Enders \cup {"heartbeat"}
  BY <1>1, Now DEF Carries
<1>3. usage' \in [Sessions -> Nat]
  BY <1>1, Now DEF AppendUsage, DataTypeOK
<1>4. DataTypeOK' /\ UNCHANGED <<session, debited>> /\ Move(r, to, loc[r])
  BY <1>3, Now DEF AppendUsage, DataTypeOK
<1>5. to \in Steps /\ Carries(session, to, loc[r])
  BY <1>1, <1>2, Now DEF Carries, Steps
<1>6. Covers(debited, to, loc[r])
  BY <1>1, <1>2, Now DEF Covers
<1> HIDE DEF to
<1>7. QED
  BY <1>1, <1>4, <1>5, <1>6, StillMoveInv

(* The UPDATE of usage_sessions records no more than what was charged. *)
LEMMA RecordUsedInv ==
  ASSUME IInv, NEW r \in Requests, RecordUsed(r)
  PROVE  IInv'
<1> DEFINE s == loc[r].sid
<1>1. /\ loc[r] \in Locals /\ s \in Sessions /\ pc[r] = "record"
      /\ loc[r].op \in {"heartbeat", "end", "staffEnd"}
      /\ loc[r].op # "heartbeat" => loc[r].at \in Nat
      /\ loc[r].total \in Nat /\ loc[r].total <= debited[s]
  BY Now DEF RecordUsed, Carries, Covers, Locals
<1>2. CASE /\ Open(s)
           /\ session' = [session EXCEPT ![s].used = loc[r].total]
           /\ Move(r, AfterCharge(r), loc[r])
  <2>1. session' \in [Sessions -> SessionRow]
    <3> DEFINE row == [session[s] EXCEPT !.used = loc[r].total]
    <3>1. session \in [Sessions -> SessionRow]
      BY Now DEF DataTypeOK
    <3>2. row \in SessionRow
      BY <1>1, <3>1 DEF SessionRow
    <3>3. session' = [session EXCEPT ![s] = row]
      BY <1>2
    <3> HIDE DEF row
    <3>4. QED
      BY <3>1, <3>2, <3>3
  <2>2. \A t \in Sessions :
          /\ session'[t].phase = session[t].phase
          /\ session'[t].bal = session[t].bal
          /\ session'[t].used = IF t = s THEN loc[r].total ELSE session[t].used
    BY <1>1, <1>2, Now DEF DataTypeOK, SessionRow
  <2>3. DataTypeOK' /\ debited' = debited
    BY <2>1, Now DEF RecordUsed, DataTypeOK
  <2>a. \A t \in Sessions : /\ debited[t] \in Nat /\ Payable(t)
                            /\ session[t].used <= debited[t]
    BY Now DEF DataTypeOK, IInv, RecordedWasCharged
  <2>b. Grows
    BY <2>2, <2>3, <2>a DEF Grows
  <2>c. \A t \in Sessions : Payable(t)'
    BY <2>2, <2>a DEF Payable
  <2>d. RecordedWasCharged'
    BY <1>1, <2>2, <2>3, <2>a DEF RecordedWasCharged
  <2>4. Grows /\ (\A t \in Sessions : Payable(t)') /\ RecordedWasCharged'
    BY <2>b, <2>c, <2>d
  <2>5. AfterCharge(r) \in {"refresh", "close"} /\ AfterCharge(r) \in Steps
    BY DEF AfterCharge, Steps
  <2>6. session'[s].phase # "none"
    BY <1>1, <1>2, <2>2 DEF Open
  <2>7. Carries(session', AfterCharge(r), loc[r])
    BY <1>1, <2>5, <2>6 DEF Carries, AfterCharge
  <2>8. Covers(debited', AfterCharge(r), loc[r])
    BY <1>1, <2>3, <2>5 DEF Covers
  <2>9. QED
    BY <1>1, <1>2, <2>3, <2>4, <2>5, <2>7, <2>8, MoveInv
<1>3. CASE ~Open(s) /\ Reply(r) /\ UNCHANGED session
  <2>1. DataTypeOK' /\ UNCHANGED <<session, debited>>
    BY <1>3, Now DEF RecordUsed, DataTypeOK
  <2>2. QED
    BY <1>3, <2>1, ReplyInv
<1>4. QED
  BY <1>2, <1>3 DEF RecordUsed

-----------------------------------------------------------------------------
(* Starting and ending a session *)

(* A new session is open on a wallet and has used nothing. *)
LEMMA InsertInv ==
  ASSUME IInv, NEW r \in Requests, Insert(r)
  PROVE  IInv'
<1> DEFINE new == [NoLocals EXCEPT !.op = "start", !.dev = loc[r].dev]
<1>1. /\ loc[r] \in Locals /\ loc[r].bal \in Balances
      /\ loc[r].dev \in Devices /\ loc[r].at \in Nat
  BY Now DEF Insert, Carries
<1>2. PICK s \in Sessions :
        /\ session[s].phase = "none"
        /\ session' = [session EXCEPT ![s] =
             [phase |-> "open", bal |-> loc[r].bal, dev |-> loc[r].dev,
              start |-> loc[r].at, end |-> None, used |-> 0]]
        /\ openCache' = [openCache EXCEPT ![s] = "none"]
        /\ Move(r, "occupy", new)
  BY DEF Insert
<1>3. session' \in [Sessions -> SessionRow]
  BY <1>1, <1>2, Now DEF DataTypeOK, SessionRow, Phase
<1>4. openCache' \in [Sessions -> Phase]
  BY <1>2, Now DEF DataTypeOK, Phase
<1>5. DataTypeOK' /\ debited' = debited
  BY <1>3, <1>4, Now DEF Insert, DataTypeOK
<1>6. \A t \in Sessions : debited[t] \in Nat
  BY Now DEF DataTypeOK
<1>7. Grows /\ (\A t \in Sessions : Payable(t)') /\ RecordedWasCharged'
  <2>1. ASSUME NEW t \in Sessions
        PROVE  t # s => session'[t] = session[t]
    BY <1>2, Now DEF DataTypeOK
  <2>2. session'[s].used = 0 /\ session'[s].bal = loc[r].bal
    BY <1>2, Now DEF DataTypeOK
  <2>3. QED
    BY <1>1, <1>2, <1>5, <1>6, <2>1, <2>2
    DEF Grows, Payable, RecordedWasCharged, IInv
<1>8. new \in Locals /\ "occupy" \in Steps
  <2>1. "start" \in Ops /\ "occupy" \in Steps
    BY DEF Ops, Steps
  <2>2. loc[r].dev \in Devices \cup {None}
    BY <1>1
  <2>3. QED
    BY <2>1, <2>2, NoLocalsType DEF Locals
<1>9. Carries(session', "occupy", new) /\ Covers(debited', "occupy", new)
  BY DEF Carries, Covers
<1> HIDE DEF new
<1>10. QED
  BY <1>2, <1>5, <1>7, <1>8, <1>9, MoveInv

(* end() reads the wallet and the minutes recorded so far from the row. *)
LEMMA EndCheckInv ==
  ASSUME IInv, NEW r \in Requests, EndCheck(r)
  PROVE  IInv'
<1> DEFINE row == session[loc[r].sid]
<1> DEFINE end == IF loc[r].at = None THEN clock ELSE loc[r].at
<1> DEFINE charging == IF loc[r].op = "reconcile" THEN "settle" ELSE "charge"
<1> DEFINE new == [loc[r] EXCEPT !.bal = row.bal, !.seen = row.used,
                                 !.at = end, !.next = charging]
<1>1. /\ loc[r] \in Locals /\ loc[r].sid \in Sessions
      /\ row.phase # "none" /\ loc[r].op \in Enders
  BY Now DEF EndCheck, Carries
<1>2. /\ row.bal \in Balances /\ row.used \in Nat
      /\ row.used <= debited[loc[r].sid]
  BY <1>1, Now DEF IInv, Payable, RecordedWasCharged, DataTypeOK, SessionRow
<1>3. end \in Nat
  BY <1>1, Now DEF DataTypeOK, Locals
<1>4. charging \in Charging /\ charging \in Steps /\ "raw" \in Steps
  BY DEF Steps
<1>5. new \in Locals
  BY <1>1, <1>2, <1>3, <1>4 DEF Locals
<1>6. /\ Move(r, "raw", new) \/ Reply(r)
      /\ UNCHANGED <<session, debited>>
  BY DEF EndCheck
<1>7. DataTypeOK'
  BY Now DEF EndCheck, DataTypeOK
<1>8. Carries(session, "raw", new)
  BY <1>1, <1>2, <1>3, <1>4 DEF Carries, Locals
<1>9. Covers(debited, "raw", new)
  BY <1>1, <1>2, <1>4 DEF Covers, Locals
<1> HIDE DEF new
<1>10. QED
  BY <1>4, <1>5, <1>6, <1>7, <1>8, <1>9, StillMoveInv, ReplyInv

(* The total a session is closed with was charged before. *)
LEMMA CloseInv ==
  ASSUME IInv, NEW r \in Requests, Close(r)
  PROVE  IInv'
<1> DEFINE s == loc[r].sid
<1>1. /\ loc[r] \in Locals /\ s \in Sessions /\ pc[r] = "close"
      /\ loc[r].at \in Nat
      /\ loc[r].total \in Nat /\ loc[r].total <= debited[s]
  BY Now, SMTT(30) DEF Close, Carries, Covers, Locals
<1>2. CASE /\ Open(s)
           /\ session' = [session EXCEPT ![s].phase = "ended",
                                         ![s].end = loc[r].at,
                                         ![s].used = loc[r].total]
           /\ Move(r, "refresh", loc[r])
  <2> DEFINE closed == [session[s] EXCEPT !.phase = "ended", !.end = loc[r].at,
                                          !.used = loc[r].total]
  <2>e. session[s] \in SessionRow /\ session \in [Sessions -> SessionRow]
    BY <1>1, Now DEF DataTypeOK
  <2>f. closed \in SessionRow
    BY <1>1, <2>e DEF SessionRow, Phase
  <2>g. session' = [session EXCEPT ![s] = closed]
    BY <1>1, <1>2, <2>e DEF SessionRow
  <2>1. session' \in [Sessions -> SessionRow]
    BY <1>1, <2>e, <2>f, <2>g
  <2>2. \A t \in Sessions :
          /\ session'[t].phase = IF t = s THEN "ended" ELSE session[t].phase
          /\ session'[t].bal = session[t].bal
          /\ session'[t].used = IF t = s THEN loc[r].total ELSE session[t].used
    BY <1>1, <1>2, Now DEF DataTypeOK, SessionRow
  <2>3. DataTypeOK' /\ debited' = debited
    BY <2>1, Now DEF Close, DataTypeOK
  <2>4. session[s].phase = "open"
    BY <1>2 DEF Open
  <2>a. \A t \in Sessions : /\ debited[t] \in Nat /\ Payable(t)
                            /\ session[t].used <= debited[t]
    BY Now DEF DataTypeOK, IInv, RecordedWasCharged
  <2>b. Grows
    BY <2>2, <2>3, <2>a DEF Grows
  <2>c. \A t \in Sessions : Payable(t)'
    BY <2>2, <2>4, <2>a DEF Payable
  <2>d. RecordedWasCharged'
    BY <1>1, <2>2, <2>3, <2>a DEF RecordedWasCharged
  <2>5. Grows /\ (\A t \in Sessions : Payable(t)') /\ RecordedWasCharged'
    BY <2>b, <2>c, <2>d
  <2>6. Carries(session', "refresh", loc[r]) /\ "refresh" \in Steps
    BY <1>1, <2>2 DEF Carries, Steps
  <2>7. Covers(debited', "refresh", loc[r])
    BY DEF Covers
  <2>8. QED
    BY <1>1, <1>2, <2>3, <2>5, <2>6, <2>7, MoveInv
<1>3. CASE ~Open(s) /\ Reply(r) /\ UNCHANGED session
  <2>1. DataTypeOK' /\ UNCHANGED <<session, debited>>
    BY <1>3, Now DEF Close, DataTypeOK
  <2>2. QED
    BY <1>3, <2>1, ReplyInv
<1>4. QED
  BY <1>2, <1>3, SMTT(30) DEF Close

(* The snapshot is stored, and the call answers, ends or releases. *)
LEMMA WriteThroughInv ==
  ASSUME IInv, NEW r \in Requests, WriteThrough(r)
  PROVE  IInv'
<1>1. /\ loc[r] \in Locals /\ loc[r].sid \in Sessions
      /\ session[loc[r].sid].phase # "none" /\ loc[r].snap \in Phase
  BY Now DEF WriteThrough, Carries, Locals
<1>2. openCache' \in [Sessions -> Phase]
  BY <1>1, Now DEF WriteThrough, DataTypeOK
<1>3. DataTypeOK' /\ UNCHANGED <<session, debited>>
  BY <1>2, Now DEF WriteThrough, DataTypeOK
<1>4. ASSUME NEW to \in {"release", "autoEnd"}, Move(r, to, loc[r])
      PROVE  IInv'
  <2>1. Carries(session, to, loc[r]) /\ Covers(debited, to, loc[r])
    BY <1>1, <1>4 DEF Carries, Covers
  <2>2. to \in Steps
    BY <1>4 DEF Steps
  <2>3. QED
    BY <1>1, <1>3, <1>4, <2>1, <2>2, StillMoveInv
<1>5. QED
  BY <1>3, <1>4, ReplyInv DEF WriteThrough

-----------------------------------------------------------------------------
(* Recharging a wallet *)

(* The UPDATE of a recharge yields a balance row and counts the sale. *)
LEMMA RechargeInv ==
  ASSUME IInv, NEW r \in Requests, Recharge(r)
  PROVE  IInv'
<1> DEFINE b == loc[r].bal
<1> DEFINE kept == IF loc[r].carry THEN wallet[b].rem ELSE 0
<1>1. /\ loc[r] \in Locals /\ b \in Balances /\ loc[r].at \in Nat
      /\ loc[r].op = "recharge"
  BY Now DEF Recharge, Carries
<1>2. PICK rate \in Rates :
        LET updated == [rem |-> kept + Credits, status |-> "active",
                        expiry |-> loc[r].at, rate |-> rate]
        IN /\ wallet' = [wallet EXCEPT ![b] = updated]
           /\ Move(r, "credit", [loc[r] EXCEPT !.row = updated,
                                               !.minutes = Credits])
  BY DEF Recharge
<1> DEFINE updated == [rem |-> kept + Credits, status |-> "active",
                       expiry |-> loc[r].at, rate |-> rate]
<1> DEFINE new == [loc[r] EXCEPT !.row = updated, !.minutes = Credits]
<1>3. kept \in Nat
  BY <1>1, Now DEF DataTypeOK, WalletRow
<1>4. updated \in WalletRow /\ Credits \in Nat
  BY <1>1, <1>2, <1>3, NumberAssumption DEF WalletRow, Status
<1>5. new \in Locals /\ "credit" \in Steps
  <2>1. new \in Locals
    BY <1>1, <1>4 DEF Locals
  <2>2. "credit" \in Steps
    BY DEF Steps
  <2>3. QED
    BY <2>1, <2>2
<1>6. Move(r, "credit", new) /\ UNCHANGED <<session, debited>>
  BY <1>2 DEF Recharge
<1>a. wallet' = [wallet EXCEPT ![b] = updated]
  BY <1>2
<1>b. credited' = [credited EXCEPT ![b] = @ + Credits]
  BY DEF Recharge
<1> HIDE DEF updated
<1>c. /\ wallet \in [Balances -> WalletRow]
      /\ credited \in [Balances -> Nat]
  BY Now DEF DataTypeOK
<1>d. wallet' \in [Balances -> WalletRow]
  BY <1>4, <1>a, <1>c
<1>e. credited' \in [Balances -> Nat]
  <2>1. b \in Balances /\ credited[b] + Credits \in Nat
    BY <1>1, <1>4, <1>c
  <2> HIDE DEF b
  <2>2. QED
    BY <2>1, <1>b, <1>c
<1>7. wallet' \in [Balances -> WalletRow] /\ credited' \in [Balances -> Nat]
  BY <1>d, <1>e
<1>8. DataTypeOK'
  BY <1>7, Now DEF Recharge, DataTypeOK
<1>9. Carries(session, "credit", new) /\ Covers(debited, "credit", new)
  <2>1. new.op = "recharge" /\ new.bal \in Balances
    BY <1>1 DEF Locals
  <2> HIDE DEF new
  <2>2. QED
    BY <2>1 DEF Carries, Covers
<1> HIDE DEF new
<1>10. QED
  BY <1>5, <1>6, <1>8, <1>9, StillMoveInv

-----------------------------------------------------------------------------
(* Arrivals *)

(* A start by the player, on a new or on his open session. *)
LEMMA BeginStartInv ==
  ASSUME IInv, NEW r \in Requests, NEW b \in Balances, NEW d \in Devices,
         BeginStart(r, b, d)
  PROVE  IInv'
<1> DEFINE locals == [NoLocals EXCEPT !.op = "start", !.bal = b, !.dev = d]
<1>1. DataTypeOK' /\ UNCHANGED <<session, debited>>
  BY Now DEF BeginStart, DataTypeOK
<1>2. ASSUME NEW c \in Balances, NEW next \in {"admit", "idle"},
             Arrive(r, "start", "raw", [locals EXCEPT !.bal = c, !.next = next])
      PROVE  IInv'
  <2> DEFINE new == [locals EXCEPT !.bal = c, !.next = next]
  <2>1. new \in Locals /\ "raw" \in Steps
    <3>1. new \in Locals
      BY <1>2, NoLocalsType DEF Locals, Ops, Steps
    <3>2. "raw" \in Steps
      BY DEF Steps
    <3>3. QED
      BY <3>1, <3>2
  <2>2. Carries(session, "raw", new) /\ Covers(debited, "raw", new)
    <3>1. Carries(session, "raw", new)
      BY <1>2, NoLocalsType DEF Carries, Locals
    <3>2. Covers(debited, "raw", new)
      BY <1>2, NoLocalsType DEF Covers, Locals
    <3>3. QED
      BY <3>1, <3>2
  <2>3. Arrive(r, "start", "raw", new)
    BY <1>2
  <2> HIDE DEF new
  <2>4. QED
    BY <1>1, <2>1, <2>2, <2>3, ArriveInv
<1>3. CASE Arrive(r, "start", "raw", [locals EXCEPT !.next = "admit"])
  <2>1. [locals EXCEPT !.next = "admit"] = [locals EXCEPT !.bal = b, !.next = "admit"]
    BY NoLocalsType DEF Locals
  <2>2. Arrive(r, "start", "raw", [locals EXCEPT !.bal = b, !.next = "admit"])
    BY <1>3, <2>1
  <2> HIDE DEF locals
  <2>3. QED
    BY <1>2, <2>2
<1>4. CASE \E s \in LatestOf(Owner[b]) :
             Arrive(r, "start", "raw",
                    [locals EXCEPT !.bal = session[s].bal, !.next = "idle"])
  <2>1. PICK s \in LatestOf(Owner[b]) :
          Arrive(r, "start", "raw",
                 [locals EXCEPT !.bal = session[s].bal, !.next = "idle"])
    BY <1>4
  <2>2. s \in Sessions /\ session[s].phase = "open"
    BY DEF LatestOf, OpenOf, Open
  <2>3. session[s].bal \in Balances
    BY <2>2 DEF IInv, Payable
  <2> HIDE DEF locals
  <2>4. QED
    BY <1>2, <2>1, <2>3
<1>5. QED
  BY <1>3, <1>4 DEF BeginStart

(* A start at the counter. *)
LEMMA BeginStaffStartInv ==
  ASSUME IInv, NEW r \in Requests, NEW b \in Balances, NEW d \in Devices,
         BeginStaffStart(r, b, d)
  PROVE  IInv'
<1> DEFINE new == [NoLocals EXCEPT !.op = "start", !.bal = b, !.dev = d]
<1>1. DataTypeOK' /\ UNCHANGED <<session, debited>>
  BY Now DEF BeginStaffStart, DataTypeOK
<1>2. b \in Balances /\ d \in Devices
  OBVIOUS
<1>3. new \in Locals /\ "activeCheck" \in Steps
  <2>1. new \in Locals
    BY <1>2, NoLocalsType DEF Locals, Ops, Steps
  <2>2. "activeCheck" \in Steps
    BY DEF Steps
  <2>3. QED
    BY <2>1, <2>2
<1>4. Carries(session, "activeCheck", new) /\ Covers(debited, "activeCheck", new)
  <2>1. Carries(session, "activeCheck", new)
    BY <1>2, NoLocalsType DEF Carries, Locals
  <2>2. Covers(debited, "activeCheck", new)
    BY <1>2, NoLocalsType DEF Covers, Locals
  <2>3. QED
    BY <2>1, <2>2
<1>5. \E call \in CallNames : Arrive(r, call, "activeCheck", new)
  BY DEF BeginStaffStart, CallNames
<1> HIDE DEF new
<1>6. QED
  BY <1>1, <1>3, <1>4, <1>5, ArriveInv

(* A heartbeat has seen no more than was charged. *)
LEMMA BeginHeartbeatInv ==
  ASSUME IInv, NEW r \in Requests, NEW s \in Sessions,
         BeginHeartbeat(r, s)
  PROVE  IInv'
<1> DEFINE new == [NoLocals EXCEPT !.op = "heartbeat", !.sid = s,
                            !.bal = session[s].bal,
                            !.seen = session[s].used, !.next = "charge"]
<1>1. DataTypeOK' /\ UNCHANGED <<session, debited>>
  BY Now DEF BeginHeartbeat, DataTypeOK
<1>2. /\ session[s].phase # "none" /\ session[s].bal \in Balances
      /\ session[s].used \in Nat /\ session[s].used <= debited[s]
  BY Now DEF BeginHeartbeat, Open, IInv, Payable, RecordedWasCharged, DataTypeOK, SessionRow
<1>3. new \in Locals /\ "raw" \in Steps
  <2>1. new \in Locals
    BY <1>2, NoLocalsType DEF Locals, Ops, Steps
  <2>2. "raw" \in Steps
    BY DEF Steps
  <2>3. QED
    BY <2>1, <2>2
<1>4. Carries(session, "raw", new) /\ Covers(debited, "raw", new)
  <2>1. Carries(session, "raw", new)
    BY <1>2, NoLocalsType DEF Carries, Locals
  <2>2. Covers(debited, "raw", new)
    BY <1>2, NoLocalsType DEF Covers, Locals
  <2>3. QED
    BY <2>1, <2>2
<1>5. \E call \in CallNames : Arrive(r, call, "raw", new)
  BY DEF BeginHeartbeat, CallNames
<1> HIDE DEF new
<1>6. QED
  BY <1>1, <1>3, <1>4, <1>5, ArriveInv

(* A poll. *)
LEMMA BeginPollInv ==
  ASSUME IInv, NEW r \in Requests, NEW player \in Players,
         BeginPoll(r, player)
  PROVE  IInv'
<1>1. DataTypeOK' /\ UNCHANGED <<session, debited>>
  BY Now DEF BeginPoll, DataTypeOK
<1>2. PICK s \in LatestOf(player) :
        Arrive(r, "poll", "raw",
               [NoLocals EXCEPT !.op = "poll", !.sid = s,
                                !.bal = session[s].bal,
                                !.seen = session[s].used, !.next = "project"])
  BY DEF BeginPoll
<1> DEFINE new == [NoLocals EXCEPT !.op = "poll", !.sid = s,
                                   !.bal = session[s].bal,
                                   !.seen = session[s].used, !.next = "project"]
<1>3. s \in Sessions /\ session[s].phase = "open"
  BY DEF LatestOf, OpenOf, Open
<1>4. session[s].bal \in Balances /\ session[s].used \in Nat
  BY <1>3, Now DEF IInv, Payable, DataTypeOK, SessionRow
<1>5. new \in Locals /\ "raw" \in Steps
  <2>1. new \in Locals
    BY <1>3, <1>4, NoLocalsType DEF Locals, Ops, Steps
  <2>2. "raw" \in Steps
    BY DEF Steps
  <2>3. QED
    BY <2>1, <2>2
<1>6. Carries(session, "raw", new) /\ Covers(debited, "raw", new)
  <2>1. Carries(session, "raw", new)
    BY <1>3, <1>4, NoLocalsType DEF Carries, Locals
  <2>2. Covers(debited, "raw", new)
    BY <1>3, <1>4, NoLocalsType DEF Covers, Locals
  <2>3. QED
    BY <2>1, <2>2
<1>7. Arrive(r, "poll", "raw", new)
  BY <1>2
<1> HIDE DEF new
<1>8. QED
  BY <1>1, <1>5, <1>6, <1>7, ArriveInv

(* An end by the player. *)
LEMMA BeginEndInv ==
  ASSUME IInv, NEW r \in Requests, NEW s \in Sessions,
         BeginEnd(r, s)
  PROVE  IInv'
<1> DEFINE new == [NoLocals EXCEPT !.op = "end", !.sid = s, !.next = "replayCheck"]
<1>1. DataTypeOK' /\ UNCHANGED <<session, debited>>
  BY Now DEF BeginEnd, DataTypeOK
<1>2. session[s].phase # "none"
  BY DEF BeginEnd
<1>3. new \in Locals /\ "enriched" \in Steps
  <2>1. new \in Locals
    BY <1>2, NoLocalsType DEF Locals, Ops, Steps
  <2>2. "enriched" \in Steps
    BY DEF Steps
  <2>3. QED
    BY <2>1, <2>2
<1>4. Carries(session, "enriched", new) /\ Covers(debited, "enriched", new)
  <2>1. Carries(session, "enriched", new)
    BY <1>2, NoLocalsType DEF Carries, Locals
  <2>2. Covers(debited, "enriched", new)
    BY <1>2, NoLocalsType DEF Covers, Locals
  <2>3. QED
    BY <2>1, <2>2
<1>5. \E call \in CallNames : Arrive(r, call, "enriched", new)
  BY DEF BeginEnd, CallNames
<1> HIDE DEF new
<1>6. QED
  BY <1>1, <1>3, <1>4, <1>5, ArriveInv

(* An end at the counter, with or without a total of the client. *)
LEMMA BeginStaffEndInv ==
  ASSUME IInv, NEW r \in Requests, NEW s \in Sessions, BeginStaffEnd(r, s)
  PROVE  IInv'
<1>1. DataTypeOK' /\ UNCHANGED <<session, debited>>
  BY Now DEF BeginStaffEnd, DataTypeOK
<1>2. session[s].phase # "none"
  BY DEF BeginStaffEnd
<1>3. CASE Arrive(r, "staffEnd", "enriched",
                  [NoLocals EXCEPT !.op = "staffEnd", !.sid = s, !.next = "endCheck"])
  <2> DEFINE new == [NoLocals EXCEPT !.op = "staffEnd", !.sid = s, !.next = "endCheck"]
  <2>1. new \in Locals /\ "enriched" \in Steps
    <3>1. new \in Locals
      BY NoLocalsType DEF Locals, Ops, Steps
    <3>2. "enriched" \in Steps
      BY DEF Steps
    <3>3. QED
      BY <3>1, <3>2
  <2>2. Carries(session, "enriched", new) /\ Covers(debited, "enriched", new)
    <3>1. Carries(session, "enriched", new)
      BY <1>2, NoLocalsType DEF Carries, Locals
    <3>2. Covers(debited, "enriched", new)
      BY <1>2, NoLocalsType DEF Covers, Locals
    <3>3. QED
      BY <3>1, <3>2
  <2>3. Arrive(r, "staffEnd", "enriched", new)
    BY <1>3
  <2> HIDE DEF new
  <2>4. QED
    BY <1>1, <2>1, <2>2, <2>3, ArriveInv
<1>4. ASSUME NEW m \in ClientTotals,
             Arrive(r, "reconcile", "enriched",
                    [NoLocals EXCEPT !.op = "reconcile", !.sid = s, !.total = m,
                                     !.next = "endCheck"])
      PROVE  IInv'
  <2> DEFINE new == [NoLocals EXCEPT !.op = "reconcile", !.sid = s, !.total = m,
                                     !.next = "endCheck"]
  <2>1. new \in Locals /\ "enriched" \in Steps
    <3>1. new \in Locals
      BY NumberAssumption, NoLocalsType DEF Locals, Ops, Steps
    <3>2. "enriched" \in Steps
      BY DEF Steps
    <3>3. QED
      BY <3>1, <3>2
  <2>2. Carries(session, "enriched", new) /\ Covers(debited, "enriched", new)
    <3>1. Carries(session, "enriched", new)
      BY <1>2, NoLocalsType DEF Carries, Locals
    <3>2. Covers(debited, "enriched", new)
      BY <1>2, NoLocalsType DEF Covers, Locals
    <3>3. QED
      BY <3>1, <3>2
  <2>3. Arrive(r, "reconcile", "enriched", new)
    BY <1>4
  <2> HIDE DEF new
  <2>4. QED
    BY <1>1, <2>1, <2>2, <2>3, ArriveInv
<1>5. QED
  BY <1>3, <1>4 DEF BeginStaffEnd

(* A recharge fixes what it carries forward and until when. *)
LEMMA BeginRechargeInv ==
  ASSUME IInv, NEW r \in Requests, NEW b \in Balances, BeginRecharge(r, b)
  PROVE  IInv'
<1> DEFINE carry == CarriesForward(wallet[b], clock)
<1> DEFINE at == IF b \in HappyHours /\ carry THEN wallet[b].expiry
                 ELSE clock + Validity
<1> DEFINE new == [NoLocals EXCEPT !.op = "recharge", !.bal = b, !.carry = carry,
                                   !.at = at]
<1>1. rawCache' \in [Balances -> WalletRow \cup {None}]
  BY Now DEF BeginRecharge, DataTypeOK
<1>2. DataTypeOK' /\ UNCHANGED <<session, debited>>
  BY <1>1, Now DEF BeginRecharge, DataTypeOK
<1>3. at \in Nat
  BY Now, NumberAssumption DEF DataTypeOK, WalletRow
<1>4. carry \in BOOLEAN
  BY DEF CarriesForward
<1>5. Arrive(r, "recharge", "recharge", new)
  BY DEF BeginRecharge
<1> HIDE DEF carry, at
<1>6. new \in Locals /\ "recharge" \in Steps
  <2>1. new \in Locals
    BY <1>3, <1>4, NoLocalsType DEF Locals, Ops, Steps
  <2>2. "recharge" \in Steps
    BY DEF Steps
  <2>3. QED
    BY <2>1, <2>2
<1>7. Carries(session, "recharge", new) /\ Covers(debited, "recharge", new)
  <2>1. Carries(session, "recharge", new)
    BY <1>3, NoLocalsType DEF Carries, Locals
  <2>2. Covers(debited, "recharge", new)
    BY <1>3, NoLocalsType DEF Covers, Locals
  <2>3. QED
    BY <2>1, <2>2
<1> HIDE DEF new
<1>8. QED
  BY <1>2, <1>5, <1>6, <1>7, ArriveInv

(* A sweep. *)
LEMMA BeginSweepInv ==
  ASSUME IInv, NEW r \in Requests, NEW b \in Balances,
         BeginSweep(r, b)
  PROVE  IInv'
<1> DEFINE new == [NoLocals EXCEPT !.op = "sweep", !.bal = b]
<1>1. DataTypeOK' /\ UNCHANGED <<session, debited>>
  BY Now DEF BeginSweep, DataTypeOK
<1>2. b \in Balances
  OBVIOUS
<1>3. new \in Locals /\ "expire" \in Steps
  <2>1. new \in Locals
    BY <1>2, NoLocalsType DEF Locals, Ops, Steps
  <2>2. "expire" \in Steps
    BY DEF Steps
  <2>3. QED
    BY <2>1, <2>2
<1>4. Carries(session, "expire", new) /\ Covers(debited, "expire", new)
  <2>1. Carries(session, "expire", new)
    BY <1>2, NoLocalsType DEF Carries, Locals
  <2>2. Covers(debited, "expire", new)
    BY <1>2, NoLocalsType DEF Covers, Locals
  <2>3. QED
    BY <2>1, <2>2
<1>5. \E call \in CallNames : Arrive(r, call, "expire", new)
  BY DEF BeginSweep, CallNames
<1> HIDE DEF new
<1>6. QED
  BY <1>1, <1>3, <1>4, <1>5, ArriveInv

-----------------------------------------------------------------------------
(* The environment *)

(* Time passes. *)
LEMMA TickInv ==
  ASSUME IInv, Tick
  PROVE  IInv'
<1>1. DataTypeOK'
  BY DEF IInv, TypeOK, DataTypeOK, Tick
<1>2. QED
  BY <1>1, EnvironmentInv DEF Tick

(* A snapshot of a balance is lost. *)
LEMMA EvictRawInv ==
  ASSUME IInv, NEW b \in Balances, EvictRaw(b)
  PROVE  IInv'
<1>1. DataTypeOK'
  BY DEF IInv, TypeOK, DataTypeOK, EvictRaw
<1>2. QED
  BY <1>1, EnvironmentInv DEF EvictRaw

(* A snapshot of a session is lost. *)
LEMMA EvictEnrichedInv ==
  ASSUME IInv, NEW s \in Sessions, EvictEnriched(s)
  PROVE  IInv'
<1>1. DataTypeOK'
  BY DEF IInv, TypeOK, DataTypeOK, EvictEnriched, Phase
<1>2. QED
  BY <1>1, EnvironmentInv DEF EvictEnriched

(* A request that is cut off leaves its rows behind and carries nothing. *)
LEMMA AbortInv ==
  ASSUME IInv, NEW r \in Requests, Abort(r)
  PROVE  IInv'
<1>1. DataTypeOK'
  BY DEF IInv, TypeOK, DataTypeOK, Abort
<1>2. QED
  BY <1>1, ReplyInv DEF Abort

-----------------------------------------------------------------------------
(* The theorems *)

(* The empty tables and caches satisfy the invariant. *)
LEMMA InitInv == Init => IInv
<1> SUFFICES ASSUME Init PROVE IInv
  OBVIOUS
<1>1. DataTypeOK
  BY NumberAssumption, NoneAssumption
  DEF Init, DataTypeOK, WalletRow, Status, SessionRow, NoSession, Phase
<1>2. TypeOK
  BY <1>1, NoLocalsType DEF Init, TypeOK, Steps
<1>3. \A s \in Sessions : Payable(s)
  BY DEF Init, Payable, NoSession
<1>4. RecordedWasCharged
  BY DEF Init, RecordedWasCharged, NoSession
<1>5. QED
  BY <1>2, <1>3, <1>4, IdleCarries DEF Init, IInv

(* One case per action: every step of the system preserves IInv. *)
LEMMA NextInv == IInv /\ [Next]_vars => IInv'
<1> SUFFICES ASSUME IInv, [Next]_vars PROVE IInv'
  OBVIOUS
<1>1. ASSUME NEW r \in Requests, Begin(r)
      PROVE  IInv'
  BY <1>1, BeginStartInv, BeginStaffStartInv, BeginHeartbeatInv, BeginPollInv,
     BeginEndInv, BeginStaffEndInv, BeginRechargeInv, BeginSweepInv
  DEF Begin
<1>2. ASSUME NEW r \in Requests, ReadCached(r)
      PROVE  IInv'
  BY <1>2, RawHitInv, RawMissInv, RawFillInv, EnrichedHitInv, EnrichedMissInv,
     EnrichedFillInv
  DEF ReadCached
<1>3. ASSUME NEW r \in Requests, StartStep(r)
      PROVE  IInv'
  BY <1>3, AdmitInv, ActiveCheckInv, AccessInv, InsertInv, OccupyInv
  DEF StartStep
<1>4. ASSUME NEW r \in Requests, ChargeStep(r)
      PROVE  IInv'
  BY <1>4, ChargeNothingInv, ChargeDeltaInv, SyncCacheInv, AppendUsageInv,
     RecordUsedInv
  DEF ChargeStep
<1>5. ASSUME NEW r \in Requests, SessionStep(r)
      PROVE  IInv'
  BY <1>5, RefreshInv, WriteThroughInv, ProjectInv, AutoEndInv, ReplayCheckInv,
     EndCheckInv, SettleInv, CloseInv, ReleaseInv
  DEF SessionStep
<1>6. ASSUME NEW r \in Requests, WalletStep(r)
      PROVE  IInv'
  BY <1>6, RechargeInv, AppendTopupInv, ExpireInv, RereadInv
  DEF WalletStep
<1>7. ASSUME Environment
      PROVE  IInv'
  BY <1>7, TickInv, EvictRawInv, EvictEnrichedInv, AbortInv DEF Environment
<1>8. CASE UNCHANGED vars
  <2>1. DataTypeOK'
    BY <1>8 DEF vars, IInv, TypeOK, DataTypeOK
  <2>2. QED
    BY <1>8, <2>1, EnvironmentInv DEF vars
<1>9. QED
  BY <1>1, <1>2, <1>3, <1>4, <1>5, <1>6, <1>7, <1>8 DEF Next, Continue

(* IInv holds in every reachable state. *)
THEOREM Invariance == Spec => []IInv
<1>1. Init => IInv
  BY InitInv
<1>2. IInv /\ [Next]_vars => IInv'
  BY NextInv
<1>3. QED
  BY <1>1, <1>2, PTL DEF Spec

(* Every variable keeps its type: no balance below zero, no ledger or charge *)
(* that is not a number of minutes, no request outside its handler.          *)
THEOREM TypeCorrect == Spec => []TypeOK
<1>1. IInv => TypeOK
  BY DEF IInv
<1>2. QED
  BY <1>1, Invariance, PTL

(* timeCreditsConsumed never exceeds what deduct_minutes charged for the     *)
(* session, however heartbeats, polls, ends, reconciliations and lost        *)
(* requests interleave.                                                      *)
THEOREM RecordedMinutesWereCharged == Spec => []RecordedWasCharged
<1>1. IInv => RecordedWasCharged
  BY DEF IInv
<1>2. QED
  BY <1>1, Invariance, PTL

-----------------------------------------------------------------------------
(* Wallets *)

(* Only deductions, recharges and expiry sweeps update a wallet. *)
LEMMA WalletWriters ==
  ASSUME [Next]_vars, wallet' # wallet
  PROVE  \E r \in Requests :
           \/ ChargeDelta(r) \/ Settle(r) \/ Recharge(r) \/ Expire(r)
<1>1. ASSUME NEW r \in Requests, Begin(r) \/ Continue(r)
      PROVE  ChargeDelta(r) \/ Settle(r) \/ Recharge(r) \/ Expire(r)
  <2>1. CASE Begin(r)
    BY <2>1 DEF Begin, BeginStart, BeginStaffStart, BeginHeartbeat, BeginPoll,
                BeginEnd, BeginStaffEnd, BeginRecharge, BeginSweep
  <2>2. CASE ReadCached(r)
    BY <2>2 DEF ReadCached, RawHit, RawMiss, RawFill, EnrichedHit,
                EnrichedMiss, EnrichedFill
  <2>3. CASE StartStep(r)
    BY <2>3 DEF StartStep, Admit, ActiveCheck, Access, Insert, Occupy
  <2>4. CASE ChargeStep(r)
    BY <2>4, SMTT(30) DEF ChargeStep, ChargeNothing, SyncCache, AppendUsage, RecordUsed
  <2>5. CASE SessionStep(r)
    BY <2>5 DEF SessionStep, Refresh, WriteThrough, Project, AutoEnd,
                ReplayCheck, EndCheck, Close, Release
  <2>6. CASE WalletStep(r)
    BY <2>6 DEF WalletStep, AppendTopup, Reread
  <2>7. \/ Begin(r) \/ ReadCached(r) \/ StartStep(r) \/ ChargeStep(r)
        \/ SessionStep(r) \/ WalletStep(r)
    BY <1>1, Zenon DEF Continue
  <2>8. QED
    BY <2>1, <2>2, <2>3, <2>4, <2>5, <2>6, <2>7, ZenonT(40)
<1>2. ~Environment
  BY DEF Environment, Tick, EvictRaw, EvictEnriched, Abort
<1>3. ~UNCHANGED vars
  BY DEF vars
<1>4. QED
  BY <1>1, <1>2, <1>3 DEF Next

(* A deduction that empties a wallet exhausts it. *)
LEMMA TakeLeavesMinutes ==
  ASSUME IInv, ActiveHasMinutes, NEW r \in Requests, NEW minutes \in Nat,
         NEW total, Take(r, minutes, total), pc[r] \in Charging
  PROVE  ActiveHasMinutes'
<1> DEFINE b == loc[r].bal
<1>1. /\ b \in Balances /\ wallet[b] \in WalletRow
      /\ wallet \in [Balances -> WalletRow]
  BY Now DEF Carries, DataTypeOK
<1>2. wallet' = [wallet EXCEPT ![b] = Deducted(wallet[b], minutes)]
  BY DEF Take
<1>3. LET row == Deducted(wallet[b], minutes)
      IN  row.status = "active" => row.rem > 0
  BY <1>1 DEF Deducted, NonNeg, WalletRow
<1> HIDE DEF b
<1>4. QED
  BY <1>1, <1>2, <1>3 DEF ActiveHasMinutes

(* An active wallet is never empty: a deduction to zero, a recharge and an   *)
(* expiry sweep of the same row leave it exhausted, filled or expired in     *)
(* whatever order they reach the table.                                      *)
THEOREM ActiveWalletsHaveMinutes == Spec => []ActiveHasMinutes
<1>1. Init => ActiveHasMinutes
  <2> SUFFICES ASSUME Init, NEW b \in Balances PROVE wallet[b].rem > 0
    BY DEF ActiveHasMinutes
  <2>1. wallet[b].rem = FirstMinutes
    BY DEF Init
  <2>2. QED
    BY <2>1, NumberAssumption
<1>2. IInv /\ ActiveHasMinutes /\ [Next]_vars => ActiveHasMinutes'
  <2> SUFFICES ASSUME IInv, ActiveHasMinutes, [Next]_vars
               PROVE  ActiveHasMinutes'
    OBVIOUS
  <2>1. CASE wallet' = wallet
    BY <2>1 DEF ActiveHasMinutes
  <2>2. CASE wallet' # wallet
    <3>1. PICK r \in Requests :
            ChargeDelta(r) \/ Settle(r) \/ Recharge(r) \/ Expire(r)
      BY <2>2, WalletWriters
    <3>2. wallet \in [Balances -> WalletRow]
      BY Now DEF DataTypeOK
    <3>3. CASE ChargeDelta(r)
      <4>1. Owed(r) \in Nat /\ loc[r].seen \in Nat
        BY <3>3, OwedType, Now DEF ChargeDelta, Locals
      <4>2. Owed(r) - loc[r].seen \in Nat
        BY <3>3, <4>1 DEF ChargeDelta
      <4>3. Take(r, Owed(r) - loc[r].seen, Owed(r)) /\ pc[r] \in Charging
        BY <3>3 DEF ChargeDelta
      <4>4. QED
        BY <4>2, <4>3, TakeLeavesMinutes
    <3>4. CASE Settle(r)
      <4>1. loc[r].total \in Nat /\ pc[r] \in Charging
        BY <3>4, Now DEF Settle, Locals
      <4>2. Take(r, loc[r].total, loc[r].total)
        BY <2>2, <3>4 DEF Settle
      <4>3. QED
        BY <4>1, <4>2, TakeLeavesMinutes
    <3>5. CASE Recharge(r)
      <4> DEFINE kept == IF loc[r].carry THEN wallet[loc[r].bal].rem ELSE 0
      <4>1. loc[r].bal \in Balances
        BY <3>5, Now DEF Recharge, Carries
      <4>2. PICK rate \in Rates :
              wallet' = [wallet EXCEPT ![loc[r].bal] =
                [rem |-> kept + Credits, status |-> "active",
                 expiry |-> loc[r].at, rate |-> rate]]
        BY <3>5 DEF Recharge
      <4>3. kept \in Nat
        BY <3>2, <4>1 DEF WalletRow
      <4>4. kept + Credits > 0
        BY <4>3, NumberAssumption
      <4> HIDE DEF kept
      <4>5. QED
        BY <3>2, <4>1, <4>2, <4>4 DEF ActiveHasMinutes
    <3>6. CASE Expire(r)
      <4>1. wallet' = [wallet EXCEPT ![loc[r].bal].status = "expired"]
        BY <3>6 DEF Expire
      <4>2. QED
        BY <3>2, <4>1 DEF ActiveHasMinutes, WalletRow
    <3>7. QED
      BY <3>1, <3>3, <3>4, <3>5, <3>6
  <2>3. QED
    BY <2>1, <2>2
<1>3. QED
  BY <1>1, <1>2, Invariance, PTL DEF Spec

-----------------------------------------------------------------------------
(* The meter of SessionMeter.  Six actions show at it: Insert starts one, the *)
(* two charging actions pay for one, RecordUsed and Close set what one shows, *)
(* Recharge sells minutes.  Every other action is a stutter.  IInv supplies   *)
(* what the code never checks: that the wallet a request charges is the one   *)
(* its session was opened on, and that what it records has been charged.      *)

(* Nothing the meter shows has changed. *)
LEMMA Stutter ==
  ASSUME UNCHANGED <<session, debited>>,
         \A b \in Balances : wallet'[b].rem = wallet[b].rem
  PROVE  UNCHANGED Meter!meters
BY DEF Meter!meters

(* The tables start out as the meters do. *)
LEMMA InitMeter == Init => Meter!Init
<1> SUFFICES ASSUME Init PROVE Meter!Init
  OBVIOUS
<1>1. \A b \in Balances : wallet[b].rem = FirstMinutes
  BY DEF Init
<1>2. QED
  BY <1>1 DEF Init, Meter!Init, NoSession

(* A call that arrives shows nothing. *)
LEMMA BeginMeter ==
  ASSUME NEW r \in Requests, Begin(r)
  PROVE  UNCHANGED Meter!meters
<1>1. UNCHANGED <<wallet, session, debited>>
  BY DEF Begin, BeginStart, BeginStaffStart, BeginHeartbeat, BeginPoll,
         BeginEnd, BeginStaffEnd, BeginRecharge, BeginSweep
<1>2. QED
  BY <1>1, Stutter, SMTT(30)

(* Neither does a cached read. *)
LEMMA ReadMeter ==
  ASSUME NEW r \in Requests, ReadCached(r)
  PROVE  UNCHANGED Meter!meters
<1>1. UNCHANGED <<wallet, session, debited>>
  BY DEF ReadCached, RawHit, RawMiss, RawFill, EnrichedHit, EnrichedMiss,
         EnrichedFill
<1>2. QED
  BY <1>1, Stutter, SMTT(30)

(* A deduction takes minutes from the wallet of the session it is for. *)
LEMMA TakeMeter ==
  ASSUME IInv, NEW r \in Requests, NEW minutes \in Nat, NEW total,
         minutes > 0, Take(r, minutes, total), pc[r] \in Charging
  PROVE  Meter!Next
<1>0. loc[r].sid \in Sessions /\ loc[r].bal \in Balances
  BY Now DEF Carries
<1>s. PICK s \in Sessions : s = loc[r].sid
  BY <1>0
<1>b. PICK b \in Balances : b = loc[r].bal
  BY <1>0
<1>1. session[s].phase # "none" /\ session[s].bal = b
  BY <1>s, <1>b, Now DEF Carries
<1>2. wallet \in [Balances -> WalletRow] /\ debited \in [Sessions -> Nat]
  BY Now DEF DataTypeOK
<1>3. wallet[b].rem \in Nat
  BY <1>1, <1>2 DEF WalletRow
<1>4. /\ session' = session
      /\ wallet' = [wallet EXCEPT ![b] = Deducted(wallet[b], minutes)]
      /\ debited' = [debited EXCEPT ![s] = @ + minutes]
  BY <1>s, <1>b DEF Take
<1>5. Deducted(wallet[b], minutes).rem
        = IF wallet[b].rem > minutes THEN wallet[b].rem - minutes ELSE 0
  BY <1>2, <1>3 DEF Deducted, NonNeg, WalletRow
<1>6. debited'[s] - debited[s] = minutes
  BY <1>1, <1>2, <1>4
<1>7. debited' = [debited EXCEPT ![s] = debited'[s]]
  BY <1>1, <1>2, <1>4
<1> DEFINE left == [c \in Balances |-> wallet[c].rem]
<1>8. left' = [left EXCEPT ![b] = IF @ > minutes THEN @ - minutes ELSE 0]
  BY <1>1, <1>2, <1>4, <1>5
<1>9. Meter!Pay(s)
  BY <1>1, <1>2, <1>4, <1>6, <1>7, <1>8, ZenonT(40) DEF Meter!Pay
<1>10. QED
  BY <1>1, <1>9 DEF Meter!Next

(* Charging a session pays for it or shows nothing. *)
LEMMA ChargeMeter ==
  ASSUME IInv, NEW r \in Requests, ChargeStep(r)
  PROVE  Meter!Next \/ UNCHANGED Meter!meters
<1>1. CASE ChargeNothing(r) \/ SyncCache(r) \/ AppendUsage(r)
  <2>1. UNCHANGED <<wallet, session, debited>>
    BY <1>1 DEF ChargeNothing, SyncCache, AppendUsage
  <2>2. QED
    BY <2>1, Stutter
<1>2. CASE ChargeDelta(r)
  <2>1. Owed(r) \in Nat /\ loc[r].seen \in Nat
    BY <1>2, OwedType, Now DEF ChargeDelta, Locals
  <2>2. Owed(r) - loc[r].seen \in Nat /\ Owed(r) - loc[r].seen > 0
    BY <1>2, <2>1 DEF ChargeDelta
  <2>3. Take(r, Owed(r) - loc[r].seen, Owed(r)) /\ pc[r] \in Charging
    BY <1>2 DEF ChargeDelta
  <2>4. QED
    BY <2>2, <2>3, TakeMeter
<1>3. CASE RecordUsed(r)
  <2>0. /\ loc[r].sid \in Sessions /\ loc[r].total \in Nat
        /\ loc[r].total <= debited[loc[r].sid]
    BY <1>3, Now DEF RecordUsed, Carries, Covers, Locals
  <2>s. PICK s \in Sessions : s = loc[r].sid
    BY <2>0
  <2>t. PICK total \in Nat : total = loc[r].total
    BY <2>0
  <2>1. debited[s] \in Nat /\ total <= debited[s]
    BY <2>0, <2>s, <2>t, Now DEF DataTypeOK
  <2>2. UNCHANGED <<wallet, debited>>
    BY <1>3 DEF RecordUsed
  <2>3. CASE ~Open(s)
    BY <1>3, <2>s, <2>2, <2>3, Stutter DEF RecordUsed
  <2>4. CASE Open(s)
    <3>1. session' = [session EXCEPT ![s].used = total]
      BY <1>3, <2>s, <2>t, <2>4 DEF RecordUsed
    <3>2. session \in [Sessions -> SessionRow]
      BY Now DEF DataTypeOK
    <3>3. \A t \in Sessions :
            /\ session'[t].phase = session[t].phase
            /\ session'[t].bal = session[t].bal
            /\ session'[t].used = IF t = s THEN total ELSE session[t].used
      BY <2>1, <3>1, <3>2 DEF SessionRow
    <3>4. Meter!Show(s, total)
      BY <2>1, <2>2, <2>4, <3>3 DEF Meter!Show, Open
    <3>5. QED
      BY <2>1, <3>4 DEF Meter!Next
  <2>5. QED
    BY <2>3, <2>4
<1>4. QED
  BY <1>1, <1>2, <1>3 DEF ChargeStep

(* A start opens a meter on the wallet it was asked for. *)
LEMMA StartMeter ==
  ASSUME IInv, NEW r \in Requests, StartStep(r)
  PROVE  Meter!Next \/ UNCHANGED Meter!meters
<1>1. CASE Admit(r) \/ ActiveCheck(r) \/ Access(r) \/ Occupy(r)
  <2>1. UNCHANGED <<wallet, session, debited>>
    BY <1>1 DEF Admit, ActiveCheck, Access, Occupy
  <2>2. QED
    BY <2>1, Stutter
<1>2. CASE Insert(r)
  <2>1. PICK s \in Sessions :
          /\ session[s].phase = "none"
          /\ session' = [session EXCEPT ![s] =
               [phase |-> "open", bal |-> loc[r].bal, dev |-> loc[r].dev,
                start |-> loc[r].at, end |-> None, used |-> 0]]
    BY <1>2 DEF Insert
  <2>2. PICK b \in Balances : b = loc[r].bal
    BY <1>2, Now DEF Insert, Carries
  <2>3. UNCHANGED <<wallet, debited>>
    BY <1>2 DEF Insert
  <2>4. session \in [Sessions -> SessionRow]
    BY Now DEF DataTypeOK
  <2>5. \A t \in Sessions :
          /\ session'[t].phase = IF t = s THEN "open" ELSE session[t].phase
          /\ session'[t].bal = IF t = s THEN b ELSE session[t].bal
          /\ session'[t].used = IF t = s THEN 0 ELSE session[t].used
    BY <2>1, <2>2, <2>4
  <2>6. Meter!Start(s, b)
    BY <2>1, <2>3, <2>5 DEF Meter!Start
  <2>7. QED
    BY <2>6 DEF Meter!Next
<1>3. QED
  BY <1>1, <1>2 DEF StartStep

(* Closing a session stops its meter at minutes it has paid for. *)
LEMMA SessionMeterStep ==
  ASSUME IInv, NEW r \in Requests, SessionStep(r)
  PROVE  Meter!Next \/ UNCHANGED Meter!meters
<1>1. CASE \/ Refresh(r) \/ WriteThrough(r) \/ Project(r) \/ AutoEnd(r)
           \/ ReplayCheck(r) \/ EndCheck(r) \/ Release(r)
  <2>1. UNCHANGED <<wallet, session, debited>>
    BY <1>1 DEF Refresh, WriteThrough, Project, AutoEnd, ReplayCheck, EndCheck,
                Release
  <2>2. QED
    BY <2>1, Stutter
<1>2. CASE Settle(r)
  <2>1. loc[r].total \in Nat /\ pc[r] \in Charging
    BY <1>2, Now DEF Settle, Locals
  <2>2. CASE loc[r].total > 0 /\ Take(r, loc[r].total, loc[r].total)
    BY <2>1, <2>2, TakeMeter
  <2>3. CASE UNCHANGED <<wallet, session, debited>>
    BY <2>3, Stutter, SMTT(30)
  <2>4. QED
    BY <1>2, <2>2, <2>3 DEF Settle
<1>3. CASE Close(r)
  <2>0. /\ loc[r].sid \in Sessions /\ loc[r].total \in Nat
        /\ loc[r].total <= debited[loc[r].sid]
    BY <1>3, Now DEF Close, Carries, Covers, Locals
  <2>s. PICK s \in Sessions : s = loc[r].sid
    BY <2>0
  <2>t. PICK total \in Nat : total = loc[r].total
    BY <2>0
  <2>1. debited[s] \in Nat /\ total <= debited[s]
    BY <2>0, <2>s, <2>t, Now DEF DataTypeOK
  <2>2. UNCHANGED <<wallet, debited>>
    BY <1>3 DEF Close
  <2>3. CASE ~Open(s)
    BY <1>3, <2>s, <2>2, <2>3, Stutter DEF Close
  <2>4. CASE Open(s)
    <3>1. session' = [session EXCEPT ![s].phase = "ended", ![s].end = loc[r].at,
                                     ![s].used = total]
      BY <1>3, <2>s, <2>t, <2>4 DEF Close
    <3>2. session \in [Sessions -> SessionRow]
      BY Now DEF DataTypeOK
    <3>3. \A t \in Sessions :
            /\ session'[t].phase = IF t = s THEN "ended" ELSE session[t].phase
            /\ session'[t].bal = session[t].bal
            /\ session'[t].used = IF t = s THEN total ELSE session[t].used
      BY <2>1, <3>1, <3>2 DEF SessionRow
    <3>4. Meter!Stop(s, total)
      BY <2>1, <2>2, <2>4, <3>3 DEF Meter!Stop, Open
    <3>5. QED
      BY <2>1, <3>4 DEF Meter!Next
  <2>5. QED
    BY <2>3, <2>4
<1>4. QED
  BY <1>1, <1>2, <1>3 DEF SessionStep

(* A recharge sells the minutes of a plan, an expiry sweep shows nothing. *)
LEMMA WalletMeter ==
  ASSUME IInv, NEW r \in Requests, WalletStep(r)
  PROVE  Meter!Next \/ UNCHANGED Meter!meters
<1>1. wallet \in [Balances -> WalletRow]
  BY Now DEF DataTypeOK
<1>2. CASE AppendTopup(r) \/ Reread(r)
  <2>1. UNCHANGED <<wallet, session, debited>>
    BY <1>2 DEF AppendTopup, Reread
  <2>2. QED
    BY <2>1, Stutter
<1>3. CASE Expire(r)
  <2>1. /\ wallet' = [wallet EXCEPT ![loc[r].bal].status = "expired"]
        /\ UNCHANGED <<session, debited>>
    BY <1>3 DEF Expire
  <2>2. \A b \in Balances : wallet'[b].rem = wallet[b].rem
    BY <1>1, <2>1 DEF WalletRow
  <2>3. QED
    BY <2>1, <2>2, Stutter
<1>4. CASE Recharge(r)
  <2>1. PICK b \in Balances : b = loc[r].bal
    BY <1>4, Now DEF Recharge, Carries
  <2> DEFINE kept == IF loc[r].carry THEN wallet[b].rem ELSE 0
  <2>2. UNCHANGED <<session, debited>>
    BY <1>4 DEF Recharge
  <2>3. PICK rate \in Rates :
          wallet' = [wallet EXCEPT ![b] =
            [rem |-> kept + Credits, status |-> "active",
             expiry |-> loc[r].at, rate |-> rate]]
    BY <1>4, <2>1 DEF Recharge
  <2>4. \A c \in Balances :
          wallet'[c].rem = IF c = b THEN kept + Credits ELSE wallet[c].rem
    BY <1>1, <2>3
  <2>5. kept \in {0, wallet[b].rem}
    OBVIOUS
  <2> HIDE DEF kept
  <2>6. Meter!Sell(b)
    BY <2>2, <2>4, <2>5 DEF Meter!Sell
  <2>7. QED
    BY <2>6 DEF Meter!Next
<1>5. QED
  BY <1>2, <1>3, <1>4 DEF WalletStep

(* Time, evictions and lost requests show nothing. *)
LEMMA EnvironmentMeter ==
  ASSUME Environment
  PROVE  UNCHANGED Meter!meters
<1>1. UNCHANGED <<wallet, session, debited>>
  BY DEF Environment, Tick, EvictRaw, EvictEnriched, Abort
<1>2. QED
  BY <1>1, Stutter

(* Every step of the services is a step of the meter or a stutter. *)
LEMMA NextMeter ==
  IInv /\ [Next]_vars => [Meter!Next]_(Meter!meters)
<1> SUFFICES ASSUME IInv, [Next]_vars
             PROVE  Meter!Next \/ UNCHANGED Meter!meters
  OBVIOUS
<1>1. ASSUME NEW r \in Requests, Begin(r) \/ Continue(r)
      PROVE  Meter!Next \/ UNCHANGED Meter!meters
  BY <1>1, BeginMeter, ReadMeter, StartMeter, ChargeMeter, SessionMeterStep,
     WalletMeter
  DEF Continue
<1>2. CASE UNCHANGED vars
  BY <1>2, Stutter DEF vars
<1>3. QED
  BY <1>1, <1>2, EnvironmentMeter DEF Next

(* The session and balance services implement the meter: minutes leave a     *)
(* wallet only through a session opened on it, no session shows more than    *)
(* its wallet has paid, and a closed session is never touched again.         *)
THEOREM MeterImplemented == Spec => ImplementsMeter
<1>1. Init => Meter!Init
  BY InitMeter
<1>2. IInv /\ [Next]_vars => [Meter!Next]_(Meter!meters)
  BY NextMeter
<1>3. QED
  BY <1>1, <1>2, Invariance, PTL DEF Spec, ImplementsMeter, Meter!Spec

(* Only an open row of usage_sessions is ever updated. *)
LEMMA EndedStep ==
  ASSUME IInv, [Next]_vars, NEW s \in Sessions, session[s].phase = "ended"
  PROVE  session'[s] = session[s]
<1>1. session \in [Sessions -> SessionRow]
  BY DEF IInv, TypeOK, DataTypeOK
<1>2. ASSUME NEW r \in Requests, Insert(r) \/ RecordUsed(r) \/ Close(r)
      PROVE  session'[s] = session[s]
  BY <1>1, <1>2 DEF Insert, RecordUsed, Close, Open
<1>3. ASSUME NEW r \in Requests, Begin(r) \/ Continue(r)
      PROVE  session'[s] = session[s]
  <2>1. CASE Begin(r)
    BY <2>1 DEF Begin, BeginStart, BeginStaffStart, BeginHeartbeat, BeginPoll,
                BeginEnd, BeginStaffEnd, BeginRecharge, BeginSweep
  <2>2. CASE ReadCached(r) \/ WalletStep(r)
    BY <2>2 DEF ReadCached, RawHit, RawMiss, RawFill, EnrichedHit, EnrichedMiss,
                EnrichedFill, WalletStep, Recharge, AppendTopup, Expire, Reread
  <2>3. CASE StartStep(r)
    BY <1>2, <2>3 DEF StartStep, Admit, ActiveCheck, Access, Occupy
  <2>4. CASE ChargeStep(r)
    BY <1>2, <2>4 DEF ChargeStep, ChargeNothing, ChargeDelta, Take, SyncCache,
                      AppendUsage
  <2>5. CASE SessionStep(r)
    BY <1>2, <2>5 DEF SessionStep, Refresh, WriteThrough, Project, AutoEnd,
                      ReplayCheck, EndCheck, Settle, Take, Release
  <2>6. QED
    BY <1>3, <2>1, <2>2, <2>3, <2>4, <2>5, SMTT(30) DEF Continue
<1>4. CASE Environment
  BY <1>4 DEF Environment, Tick, EvictRaw, EvictEnriched, Abort
<1>5. CASE UNCHANGED vars
  BY <1>5 DEF vars
<1>6. QED
  BY <1>3, <1>4, <1>5 DEF Next

(* What an ended session was billed is final, whatever heartbeats and ends   *)
(* are still under way when it is closed.                                    *)
THEOREM EndedSessionsAreFinal == Spec => EndedIsFinal
<1>1. IInv /\ [Next]_vars
        => [\A s \in Sessions :
              session[s].phase = "ended" => session'[s] = session[s]]_vars
  BY EndedStep
<1>2. QED
  BY <1>1, Invariance, PTL DEF Spec, EndedIsFinal

-----------------------------------------------------------------------------
(* The ledger *)

(* minutes each request has charged to session s and is yet to enter *)
Unentered(s) ==
  [r \in Requests |->
     IF /\ \/ pc[r] = "ledger"
           \/ pc[r] = "sync" /\ loc[r].op \in Enders \cup {"heartbeat"}
        /\ loc[r].sid = s
     THEN loc[r].minutes ELSE 0]

(* minutes each request has sold on wallet b and is yet to enter *)
Unsold(b) ==
  [r \in Requests |->
     IF pc[r] = "credit" /\ loc[r].bal = b THEN loc[r].minutes ELSE 0]

(* what is entered, with what requests are about to enter, is what was taken *)
Balanced(entered, waiting, taken) ==
  /\ IsFiniteSet(Units(waiting, Requests))
  /\ entered + Total(waiting, Requests) <= taken
  /\ aborts = 0 => entered + Total(waiting, Requests) = taken

LedgerInv ==
  /\ \A s \in Sessions : Balanced(usage[s], Unentered(s), debited[s])
  /\ \A b \in Balances : Balanced(topup[b], Unsold(b), credited[b])

(* Minutes are counted in whole numbers. *)
LEMMA WaitingType ==
  ASSUME TypeOK
  PROVE  /\ \A s : Unentered(s) \in [Requests -> Nat]
         /\ \A b : Unsold(b) \in [Requests -> Nat]
BY DEF TypeOK, Locals, Unentered, Unsold

(* One request takes, or enters, or neither: the balance is kept when its    *)
(* part and what is entered and taken change accordingly.                    *)
LEMMA BalanceKept ==
  ASSUME NEW entered \in Nat, NEW waiting \in [Requests -> Nat], NEW taken \in Nat,
         Balanced(entered, waiting, taken),
         NEW entered2 \in Nat, NEW waiting2 \in [Requests -> Nat],
         NEW taken2 \in Nat, NEW r \in Requests,
         \A q \in Requests \ {r} : waiting2[q] = waiting[q],
         entered2 + waiting2[r] + taken = entered + waiting[r] + taken2
  PROVE  /\ IsFiniteSet(Units(waiting2, Requests))
         /\ entered2 + Total(waiting2, Requests) <= taken2
         /\ aborts = 0 => entered2 + Total(waiting2, Requests) = taken2
<1>1. waiting[r] \in Nat /\ waiting2[r] \in Nat
  OBVIOUS
<1>2. /\ IsFiniteSet(Units(waiting2, Requests))
      /\ Total(waiting, Requests) \in Nat
      /\ Total(waiting2, Requests) \in Nat
      /\ Total(waiting2, Requests) + waiting[r]
           = Total(waiting, Requests) + waiting2[r]
  BY <1>1, TotalUpdate DEF Balanced
<1>3. QED
  BY <1>1, <1>2 DEF Balanced

(* A step of request r keeps the ledger balanced when, for every session and *)
(* every wallet, its part and the two sides change accordingly.              *)
LEMMA LedgerKept ==
  ASSUME TypeOK, TypeOK', LedgerInv, NEW r \in Requests, UNCHANGED aborts,
         \A q \in Requests \ {r} : pc'[q] = pc[q] /\ loc'[q] = loc[q],
         \A s \in Sessions :
           usage'[s] + Unentered(s)'[r] + debited[s]
             = usage[s] + Unentered(s)[r] + debited'[s],
         \A b \in Balances :
           topup'[b] + Unsold(b)'[r] + credited[b]
             = topup[b] + Unsold(b)[r] + credited'[b]
  PROVE  LedgerInv'
<1>1. ASSUME NEW s \in Sessions
      PROVE  Balanced(usage[s], Unentered(s), debited[s])'
  <2>1. /\ usage[s] \in Nat /\ usage'[s] \in Nat
        /\ debited[s] \in Nat /\ debited'[s] \in Nat
    BY DEF TypeOK, DataTypeOK
  <2>2. /\ Unentered(s) \in [Requests -> Nat]
        /\ Unentered(s)' \in [Requests -> Nat]
    BY DEF TypeOK, Locals, Unentered
  <2>3. \A q \in Requests \ {r} : Unentered(s)'[q] = Unentered(s)[q]
    BY DEF Unentered
  <2>4. Balanced(usage[s], Unentered(s), debited[s])
    BY DEF LedgerInv
  <2> DEFINE w == Unentered(s)
             w2 == Unentered(s)'
  <2>5. usage'[s] + w2[r] + debited[s] = usage[s] + w[r] + debited'[s]
    OBVIOUS
  <2> HIDE DEF w, w2
  <2>6. /\ IsFiniteSet(Units(w2, Requests))
        /\ usage'[s] + Total(w2, Requests) <= debited'[s]
        /\ aborts = 0 => usage'[s] + Total(w2, Requests) = debited'[s]
    BY <2>1, <2>2, <2>3, <2>4, <2>5, BalanceKept DEF w, w2
  <2>7. QED
    BY <2>6 DEF Balanced, w2, Units, Total
<1>2. ASSUME NEW b \in Balances
      PROVE  Balanced(topup[b], Unsold(b), credited[b])'
  <2>1. /\ topup[b] \in Nat /\ topup'[b] \in Nat
        /\ credited[b] \in Nat /\ credited'[b] \in Nat
    BY DEF TypeOK, DataTypeOK
  <2>2. /\ Unsold(b) \in [Requests -> Nat]
        /\ Unsold(b)' \in [Requests -> Nat]
    BY DEF TypeOK, Locals, Unsold
  <2>3. \A q \in Requests \ {r} : Unsold(b)'[q] = Unsold(b)[q]
    BY DEF Unsold
  <2>4. Balanced(topup[b], Unsold(b), credited[b])
    BY DEF LedgerInv
  <2> DEFINE w == Unsold(b)
             w2 == Unsold(b)'
  <2>5. topup'[b] + w2[r] + credited[b] = topup[b] + w[r] + credited'[b]
    OBVIOUS
  <2> HIDE DEF w, w2
  <2>6. /\ IsFiniteSet(Units(w2, Requests))
        /\ topup'[b] + Total(w2, Requests) <= credited'[b]
        /\ aborts = 0 => topup'[b] + Total(w2, Requests) = credited'[b]
    BY <2>1, <2>2, <2>3, <2>4, <2>5, BalanceKept DEF w, w2
  <2>7. QED
    BY <2>6 DEF Balanced, w2, Units, Total
<1>3. QED
  BY <1>1, <1>2 DEF LedgerInv

(* the statements before which minutes are taken and not yet entered *)
Entering == {"sync", "ledger", "credit"}

OthersWait(r) ==
  \A q \in Requests \ {r} : pc'[q] = pc[q] /\ loc'[q] = loc[q]

(* Most statements neither take minutes nor enter them. *)
Aside(r) ==
  /\ OthersWait(r)
  /\ UNCHANGED <<usage, topup, debited, credited, aborts>>
  /\ pc[r] \notin Entering
  /\ pc'[r] \notin Entering

(* Such a step leaves the ledger balanced. *)
LEMMA AsideLedger ==
  ASSUME TypeOK, TypeOK', LedgerInv, NEW r \in Requests, Aside(r)
  PROVE  LedgerInv'
<1>1. \A s : Unentered(s)[r] = 0 /\ Unentered(s)'[r] = 0
  BY DEF Aside, Unentered, Entering
<1>2. \A b : Unsold(b)[r] = 0 /\ Unsold(b)'[r] = 0
  BY DEF Aside, Unsold, Entering
<1>3. \A s \in Sessions : usage[s] \in Nat /\ debited[s] \in Nat
  BY DEF TypeOK, DataTypeOK
<1>4. \A b \in Balances : topup[b] \in Nat /\ credited[b] \in Nat
  BY DEF TypeOK, DataTypeOK
<1>5. QED
  BY <1>1, <1>2, <1>3, <1>4, LedgerKept DEF Aside, OthersWait

(* A call that arrives. *)
LEMMA BeginAside ==
  ASSUME IInv, NEW r \in Requests, Begin(r)
  PROVE  Aside(r)
<1>1. pc \in [Requests -> Steps] /\ loc \in [Requests -> Locals]
  BY DEF IInv, TypeOK
<1>2. ASSUME NEW call, NEW step, NEW new, Arrive(r, call, step, new),
             step \notin Entering
      PROVE  /\ OthersWait(r)
             /\ pc[r] \notin Entering /\ pc'[r] \notin Entering
  BY <1>1, <1>2 DEF Arrive, OthersWait, Entering
<1> USE DEF Aside
<1>3. ASSUME NEW b \in Balances, NEW d \in Devices, BeginStart(r, b, d)
      PROVE  Aside(r)
  <2>1. UNCHANGED <<usage, topup, debited, credited, aborts>>
    BY <1>3 DEF BeginStart
  <2>2. \E new : Arrive(r, "start", "raw", new)
    BY <1>3 DEF BeginStart
  <2>3. QED
    BY <1>2, <2>1, <2>2 DEF Entering
<1>4. ASSUME NEW b \in Balances, NEW d \in Devices, BeginStaffStart(r, b, d)
      PROVE  Aside(r)
  BY <1>2, <1>4 DEF BeginStaffStart, Entering
<1>5. ASSUME NEW s \in Sessions, BeginHeartbeat(r, s)
      PROVE  Aside(r)
  BY <1>2, <1>5 DEF BeginHeartbeat, Entering
<1>6. ASSUME NEW player \in Players, BeginPoll(r, player)
      PROVE  Aside(r)
  BY <1>2, <1>6 DEF BeginPoll, Entering
<1>7. ASSUME NEW s \in Sessions, BeginEnd(r, s)
      PROVE  Aside(r)
  BY <1>2, <1>7 DEF BeginEnd, Entering
<1>8. ASSUME NEW s \in Sessions, BeginStaffEnd(r, s)
      PROVE  Aside(r)
  <2>1. UNCHANGED <<usage, topup, debited, credited, aborts>>
    BY <1>8 DEF BeginStaffEnd
  <2>2. \E call, new : Arrive(r, call, "enriched", new)
    BY <1>8 DEF BeginStaffEnd
  <2>3. QED
    BY <1>2, <2>1, <2>2 DEF Entering
<1>9. ASSUME NEW b \in Balances, BeginRecharge(r, b)
      PROVE  Aside(r)
  BY <1>2, <1>9 DEF BeginRecharge, Entering
<1>10. ASSUME NEW b \in Balances, BeginSweep(r, b)
      PROVE  Aside(r)
  BY <1>2, <1>10 DEF BeginSweep, Entering
<1> USE DEF Begin
<1>11. QED
  BY <1>3, <1>4, <1>5, <1>6, <1>7, <1>8, <1>9, <1>10

(* A statement of a request that moves past the ledger. *)
LEMMA MovesAside ==
  ASSUME IInv, NEW r \in Requests, NEW to, NEW new, Move(r, to, new),
         to \notin Entering, pc[r] \notin Entering,
         UNCHANGED <<usage, topup, debited, credited, aborts>>
  PROVE  Aside(r)
BY DEF IInv, TypeOK, Move, OthersWait, Aside

(* The statements of a request that neither take minutes nor enter them. *)
LEMMA ContinueAside ==
  ASSUME IInv, NEW r \in Requests,
         \/ ReadCached(r) \/ StartStep(r) \/ ChargeNothing(r) \/ RecordUsed(r)
         \/ Refresh(r) \/ WriteThrough(r) \/ Project(r) \/ AutoEnd(r)
         \/ ReplayCheck(r) \/ EndCheck(r) \/ Close(r) \/ Release(r) \/ Expire(r)
  PROVE  Aside(r)
<1>1. Carries(session, pc[r], loc[r])
  BY Now
<1> USE DEF Reply, Entering, ShowBalance
<1>2. CASE ReadCached(r)
  BY <1>1, <1>2, MovesAside DEF ReadCached, RawHit, RawMiss, RawFill,
     EnrichedHit, EnrichedMiss, EnrichedFill, Carries
<1>3. CASE StartStep(r)
  BY <1>3, MovesAside DEF StartStep, Admit, ActiveCheck, Access, Insert, Occupy
<1>4. CASE ChargeNothing(r) \/ RecordUsed(r)
  BY <1>4, MovesAside DEF ChargeNothing, RecordUsed, AfterCharge
<1>5. CASE Refresh(r) \/ WriteThrough(r) \/ Project(r) \/ AutoEnd(r)
  BY <1>5, MovesAside DEF Refresh, WriteThrough, Project, AutoEnd
<1>6. CASE ReplayCheck(r) \/ EndCheck(r) \/ Close(r) \/ Release(r)
  BY <1>6, MovesAside DEF ReplayCheck, EndCheck, Close, Release
<1>7. CASE Expire(r)
  BY <1>7, MovesAside DEF Expire
<1>8. QED
  BY <1>2, <1>3, <1>4, <1>5, <1>6, <1>7

(* A deduction takes minutes for a session, and carries them to its entry. *)
LEMMA TakeLedger ==
  ASSUME IInv, TypeOK', LedgerInv, NEW r \in Requests, NEW minutes \in Nat,
         NEW total, Take(r, minutes, total), pc[r] \in Charging
  PROVE  LedgerInv'
<1>1. /\ pc \in [Requests -> Steps] /\ loc \in [Requests -> Locals]
      /\ debited \in [Sessions -> Nat] /\ usage \in [Sessions -> Nat]
      /\ topup \in [Balances -> Nat] /\ credited \in [Balances -> Nat]
  BY DEF IInv, TypeOK, DataTypeOK
<1>2. loc[r].sid \in Sessions /\ loc[r].op \in Enders \cup {"heartbeat"}
  BY Now DEF Carries
<1>3. OthersWait(r) /\ UNCHANGED <<usage, topup, credited, aborts>>
  BY <1>1 DEF Take, Move, OthersWait
<1>4. /\ pc'[r] = "sync" /\ loc'[r].sid = loc[r].sid
      /\ loc'[r].op = loc[r].op /\ loc'[r].minutes = minutes
  BY <1>1 DEF Take, Move, Locals
<1>5. debited' = [debited EXCEPT ![loc[r].sid] = @ + minutes]
  BY DEF Take
<1>6. ASSUME NEW s \in Sessions
      PROVE  usage'[s] + Unentered(s)'[r] + debited[s]
               = usage[s] + Unentered(s)[r] + debited'[s]
  <2>1. Unentered(s)[r] = 0
    BY DEF Unentered
  <2>2. Unentered(s)'[r] = IF loc[r].sid = s THEN minutes ELSE 0
    BY <1>2, <1>4 DEF Unentered
  <2>3. debited'[s] = IF loc[r].sid = s THEN debited[s] + minutes ELSE debited[s]
    BY <1>1, <1>5
  <2>4. QED
    BY <1>1, <1>3, <2>1, <2>2, <2>3
<1>7. \A b : Unsold(b)[r] = 0 /\ Unsold(b)'[r] = 0
  BY <1>4 DEF Unsold
<1>8. QED
  BY <1>1, <1>3, <1>6, <1>7, LedgerKept DEF IInv, OthersWait

(* sync_balance_cache_after_mutation keeps what is to be entered. *)
LEMMA SyncLedger ==
  ASSUME IInv, TypeOK', LedgerInv, NEW r \in Requests, SyncCache(r)
  PROVE  LedgerInv'
<1>1. /\ pc \in [Requests -> Steps] /\ loc \in [Requests -> Locals]
      /\ debited \in [Sessions -> Nat] /\ usage \in [Sessions -> Nat]
      /\ topup \in [Balances -> Nat] /\ credited \in [Balances -> Nat]
  BY DEF IInv, TypeOK, DataTypeOK
<1>2. pc[r] = "sync" /\ loc[r].op \in (Enders \cup {"heartbeat", "recharge", "sweep"})
  BY <1>1, Now DEF SyncCache, Carries, Locals, Ops
<1>3. OthersWait(r) /\ UNCHANGED <<usage, topup, debited, credited, aborts>>
  BY <1>1 DEF SyncCache, Move, Reply, OthersWait
<1>4. \/ loc[r].op \in {"recharge", "sweep"} /\ pc'[r] = "idle"
      \/ /\ loc[r].op \in Enders \cup {"heartbeat"}
         /\ pc'[r] = "ledger" /\ loc'[r] = loc[r]
  BY <1>1, <1>2 DEF SyncCache, Move, Reply
<1>5. \A s : Unentered(s)'[r] = Unentered(s)[r]
  BY <1>2, <1>4 DEF Unentered
<1>6. \A b : Unsold(b)[r] = 0 /\ Unsold(b)'[r] = 0
  BY <1>2, <1>4 DEF Unsold
<1>7. \A s : Unentered(s)[r] \in Nat
  BY WaitingType DEF IInv
<1>8. QED
  BY <1>1, <1>3, <1>5, <1>6, <1>7, LedgerKept DEF IInv, OthersWait

(* The entry of what a deduction took. *)
LEMMA UsageLedger ==
  ASSUME IInv, TypeOK', LedgerInv, NEW r \in Requests, AppendUsage(r)
  PROVE  LedgerInv'
<1>1. /\ pc \in [Requests -> Steps] /\ loc \in [Requests -> Locals]
      /\ debited \in [Sessions -> Nat] /\ usage \in [Sessions -> Nat]
      /\ topup \in [Balances -> Nat] /\ credited \in [Balances -> Nat]
  BY DEF IInv, TypeOK, DataTypeOK
<1>2. /\ pc[r] = "ledger" /\ loc[r].sid \in Sessions /\ loc[r].minutes \in Nat
  BY <1>1, Now DEF AppendUsage, Carries, Locals
<1>3. OthersWait(r) /\ UNCHANGED <<topup, debited, credited, aborts>>
  BY <1>1 DEF AppendUsage, Move, OthersWait
<1>4. pc'[r] \in {"close", "record"}
  BY <1>1 DEF AppendUsage, Move
<1>5. usage' = [usage EXCEPT ![loc[r].sid] = @ + loc[r].minutes]
  BY DEF AppendUsage
<1>6. ASSUME NEW s \in Sessions
      PROVE  usage'[s] + Unentered(s)'[r] + debited[s]
               = usage[s] + Unentered(s)[r] + debited'[s]
  <2>1. Unentered(s)'[r] = 0
    BY <1>4 DEF Unentered
  <2>2. Unentered(s)[r] = IF loc[r].sid = s THEN loc[r].minutes ELSE 0
    BY <1>2 DEF Unentered
  <2>3. usage'[s] = IF loc[r].sid = s THEN usage[s] + loc[r].minutes ELSE usage[s]
    BY <1>1, <1>5
  <2>4. QED
    BY <1>1, <1>2, <1>3, <2>1, <2>2, <2>3
<1>7. \A b : Unsold(b)[r] = 0 /\ Unsold(b)'[r] = 0
  BY <1>2, <1>4 DEF Unsold
<1>8. QED
  BY <1>1, <1>3, <1>6, <1>7, LedgerKept DEF IInv, OthersWait

(* A recharge sells minutes and carries them to their entry. *)
LEMMA RechargeLedger ==
  ASSUME IInv, TypeOK', LedgerInv, NEW r \in Requests, Recharge(r)
  PROVE  LedgerInv'
<1>1. /\ pc \in [Requests -> Steps] /\ loc \in [Requests -> Locals]
      /\ debited \in [Sessions -> Nat] /\ usage \in [Sessions -> Nat]
      /\ topup \in [Balances -> Nat] /\ credited \in [Balances -> Nat]
  BY DEF IInv, TypeOK, DataTypeOK
<1>2. pc[r] = "recharge" /\ loc[r].bal \in Balances
  BY Now DEF Recharge, Carries
<1>3. OthersWait(r) /\ UNCHANGED <<usage, topup, debited, aborts>>
  BY <1>1 DEF Recharge, Move, OthersWait
<1>4. pc'[r] = "credit" /\ loc'[r].bal = loc[r].bal /\ loc'[r].minutes = Credits
  BY <1>1 DEF Recharge, Move, Locals
<1>5. credited' = [credited EXCEPT ![loc[r].bal] = @ + Credits] /\ Credits \in Nat
  BY NumberAssumption DEF Recharge
<1>6. ASSUME NEW b \in Balances
      PROVE  topup'[b] + Unsold(b)'[r] + credited[b]
               = topup[b] + Unsold(b)[r] + credited'[b]
  <2>1. Unsold(b)[r] = 0
    BY <1>2 DEF Unsold
  <2>2. Unsold(b)'[r] = IF loc[r].bal = b THEN Credits ELSE 0
    BY <1>4 DEF Unsold
  <2>3. credited'[b] = IF loc[r].bal = b THEN credited[b] + Credits ELSE credited[b]
    BY <1>1, <1>5
  <2>4. QED
    BY <1>1, <1>3, <1>5, <2>1, <2>2, <2>3
<1>7. \A s : Unentered(s)[r] = 0 /\ Unentered(s)'[r] = 0
  BY <1>2, <1>4 DEF Unentered
<1>8. QED
  BY <1>1, <1>3, <1>6, <1>7, LedgerKept DEF IInv, OthersWait

(* The entry of what a recharge sold. *)
LEMMA TopupLedger ==
  ASSUME IInv, TypeOK', LedgerInv, NEW r \in Requests, AppendTopup(r)
  PROVE  LedgerInv'
<1>1. /\ pc \in [Requests -> Steps] /\ loc \in [Requests -> Locals]
      /\ debited \in [Sessions -> Nat] /\ usage \in [Sessions -> Nat]
      /\ topup \in [Balances -> Nat] /\ credited \in [Balances -> Nat]
  BY DEF IInv, TypeOK, DataTypeOK
<1>2. /\ pc[r] = "credit" /\ loc[r].bal \in Balances /\ loc[r].minutes \in Nat
      /\ loc[r].op = "recharge"
  BY <1>1, Now DEF AppendTopup, Carries, Locals
<1>3. OthersWait(r) /\ UNCHANGED <<usage, debited, credited, aborts>>
  BY <1>1 DEF AppendTopup, Move, OthersWait
<1>4. pc'[r] = "sync" /\ loc'[r] = loc[r]
  BY <1>1 DEF AppendTopup, Move
<1>5. topup' = [topup EXCEPT ![loc[r].bal] = @ + loc[r].minutes]
  BY DEF AppendTopup
<1>6. ASSUME NEW b \in Balances
      PROVE  topup'[b] + Unsold(b)'[r] + credited[b]
               = topup[b] + Unsold(b)[r] + credited'[b]
  <2>1. Unsold(b)'[r] = 0
    BY <1>4 DEF Unsold
  <2>2. Unsold(b)[r] = IF loc[r].bal = b THEN loc[r].minutes ELSE 0
    BY <1>2 DEF Unsold
  <2>3. topup'[b] = IF loc[r].bal = b THEN topup[b] + loc[r].minutes ELSE topup[b]
    BY <1>1, <1>5
  <2>4. QED
    BY <1>1, <1>2, <1>3, <2>1, <2>2, <2>3
<1>7. \A s : Unentered(s)[r] = 0 /\ Unentered(s)'[r] = 0
  BY <1>2, <1>4 DEF Unentered
<1>8. QED
  BY <1>1, <1>3, <1>6, <1>7, LedgerKept DEF IInv, OthersWait

(* An expiry sweep that read its row has nothing to enter. *)
LEMMA RereadLedger ==
  ASSUME IInv, TypeOK', LedgerInv, NEW r \in Requests, Reread(r)
  PROVE  LedgerInv'
<1>1. /\ pc \in [Requests -> Steps] /\ loc \in [Requests -> Locals]
      /\ debited \in [Sessions -> Nat] /\ usage \in [Sessions -> Nat]
      /\ topup \in [Balances -> Nat] /\ credited \in [Balances -> Nat]
  BY DEF IInv, TypeOK, DataTypeOK
<1>2. pc[r] = "reread" /\ loc[r].op = "sweep"
  BY Now DEF Reread, Carries
<1>3. OthersWait(r) /\ UNCHANGED <<usage, topup, debited, credited, aborts>>
  BY <1>1 DEF Reread, Move, OthersWait
<1>4. pc'[r] = "sync" /\ loc'[r].op = "sweep"
  BY <1>1, <1>2 DEF Reread, Move, Locals
<1>5. \A s : Unentered(s)[r] = 0 /\ Unentered(s)'[r] = 0
  BY <1>2, <1>4 DEF Unentered
<1>6. \A b : Unsold(b)[r] = 0 /\ Unsold(b)'[r] = 0
  BY <1>2, <1>4 DEF Unsold
<1>7. QED
  BY <1>1, <1>3, <1>5, <1>6, LedgerKept DEF IInv, OthersWait

(* A request that is cut off may lose an entry, and is counted. *)
LEMMA AbortLedger ==
  ASSUME IInv, TypeOK', LedgerInv, NEW r \in Requests, Abort(r)
  PROVE  LedgerInv'
<1>1. /\ pc \in [Requests -> Steps] /\ loc \in [Requests -> Locals]
      /\ debited \in [Sessions -> Nat] /\ usage \in [Sessions -> Nat]
      /\ topup \in [Balances -> Nat] /\ credited \in [Balances -> Nat]
      /\ aborts \in Nat
  BY DEF IInv, TypeOK, DataTypeOK
<1>2. /\ OthersWait(r) /\ UNCHANGED <<usage, topup, debited, credited>>
      /\ aborts' = aborts + 1 /\ pc'[r] = "idle"
  BY <1>1 DEF Abort, Reply, Move, OthersWait
<1>3. aborts' # 0
  BY <1>1, <1>2
<1>4. ASSUME NEW entered \in Nat, NEW taken \in Nat,
             NEW w \in [Requests -> Nat], NEW w2 \in [Requests -> Nat],
             Balanced(entered, w, taken), w2[r] = 0,
             \A q \in Requests \ {r} : w2[q] = w[q]
      PROVE  IsFiniteSet(Units(w2, Requests)) /\ entered + Total(w2, Requests) <= taken
  <2>1. w[r] \in Nat
    OBVIOUS
  <2>2. /\ IsFiniteSet(Units(w2, Requests))
        /\ Total(w, Requests) \in Nat /\ Total(w2, Requests) \in Nat
        /\ Total(w2, Requests) + w[r] = Total(w, Requests) + w2[r]
    BY <1>4, <2>1, TotalUpdate DEF Balanced
  <2>3. QED
    BY <1>4, <2>1, <2>2 DEF Balanced
<1>5. ASSUME NEW s \in Sessions
      PROVE  Balanced(usage[s], Unentered(s), debited[s])'
  <2> DEFINE w == Unentered(s)
             w2 == Unentered(s)'
  <2>1. w \in [Requests -> Nat] /\ w2 \in [Requests -> Nat]
    BY DEF TypeOK, Locals, Unentered, IInv
  <2>2. \A q \in Requests \ {r} : w2[q] = w[q]
    BY <1>2 DEF Unentered, OthersWait
  <2>3. w2[r] = 0
    BY <1>2 DEF Unentered
  <2>4. Balanced(usage[s], w, debited[s]) /\ usage[s] \in Nat /\ debited[s] \in Nat
    BY <1>1 DEF LedgerInv
  <2> HIDE DEF w, w2
  <2>5. IsFiniteSet(Units(w2, Requests)) /\ usage[s] + Total(w2, Requests) <= debited[s]
    BY <1>4, <2>1, <2>2, <2>3, <2>4
  <2>6. QED
    BY <1>2, <1>3, <2>5 DEF Balanced, w2, Units, Total
<1>6. ASSUME NEW b \in Balances
      PROVE  Balanced(topup[b], Unsold(b), credited[b])'
  <2> DEFINE w == Unsold(b)
             w2 == Unsold(b)'
  <2>1. w \in [Requests -> Nat] /\ w2 \in [Requests -> Nat]
    BY DEF TypeOK, Locals, Unsold, IInv
  <2>2. \A q \in Requests \ {r} : w2[q] = w[q]
    BY <1>2 DEF Unsold, OthersWait
  <2>3. w2[r] = 0
    BY <1>2 DEF Unsold
  <2>4. Balanced(topup[b], w, credited[b]) /\ topup[b] \in Nat /\ credited[b] \in Nat
    BY <1>1 DEF LedgerInv
  <2> HIDE DEF w, w2
  <2>5. IsFiniteSet(Units(w2, Requests)) /\ topup[b] + Total(w2, Requests) <= credited[b]
    BY <1>4, <2>1, <2>2, <2>3, <2>4
  <2>6. QED
    BY <1>2, <1>3, <2>5 DEF Balanced, w2, Units, Total
<1>7. QED
  BY <1>5, <1>6 DEF LedgerInv

(* Steps that leave the requests and both sides of the ledger alone. *)
LEMMA StillLedger ==
  ASSUME LedgerInv, UNCHANGED <<usage, topup, debited, credited, aborts, pc, loc>>
  PROVE  LedgerInv'
<1>1. ASSUME NEW s \in Sessions
      PROVE  Balanced(usage[s], Unentered(s), debited[s])'
  <2>1. Unentered(s)' = Unentered(s)
    BY DEF Unentered
  <2>2. Balanced(usage[s], Unentered(s), debited[s])
    BY DEF LedgerInv
  <2>3. QED
    BY <2>1, <2>2 DEF Balanced, Units, Total
<1>2. ASSUME NEW b \in Balances
      PROVE  Balanced(topup[b], Unsold(b), credited[b])'
  <2>1. Unsold(b)' = Unsold(b)
    BY DEF Unsold
  <2>2. Balanced(topup[b], Unsold(b), credited[b])
    BY DEF LedgerInv
  <2>3. QED
    BY <2>1, <2>2 DEF Balanced, Units, Total
<1>3. QED
  BY <1>1, <1>2 DEF LedgerInv

(* Nothing is taken and nothing to be entered at the beginning. *)
LEMMA InitLedger == Init => LedgerInv
<1> SUFFICES ASSUME Init PROVE LedgerInv
  OBVIOUS
<1>1. \A s : \A r \in Requests : Unentered(s)[r] = 0
  BY DEF Init, Unentered
<1>2. \A b : \A r \in Requests : Unsold(b)[r] = 0
  BY DEF Init, Unsold
<1>3. QED
  BY <1>1, <1>2, TotalZero DEF Init, LedgerInv, Balanced

(* One case for each action that takes or enters minutes. *)
LEMMA NextLedger == IInv /\ LedgerInv /\ [Next]_vars => LedgerInv'
<1> SUFFICES ASSUME IInv, LedgerInv, [Next]_vars
             PROVE  LedgerInv'
  OBVIOUS
<1>1. TypeOK /\ TypeOK'
  BY NextInv DEF IInv
<1>2. ASSUME NEW r \in Requests, Begin(r)
      PROVE  LedgerInv'
  BY <1>1, <1>2, BeginAside, AsideLedger
<1>3. ASSUME NEW r \in Requests, Continue(r)
      PROVE  LedgerInv'
  <2>1. CASE ChargeDelta(r)
    <3>1. Owed(r) \in Nat /\ loc[r].seen \in Nat
      BY <2>1, OwedType, Now DEF ChargeDelta, Locals
    <3>2. Owed(r) - loc[r].seen \in Nat
      BY <2>1, <3>1 DEF ChargeDelta
    <3>3. Take(r, Owed(r) - loc[r].seen, Owed(r)) /\ pc[r] \in Charging
      BY <2>1 DEF ChargeDelta
    <3>4. QED
      BY <1>1, <3>2, <3>3, TakeLedger
  <2>2. CASE Settle(r)
    <3>1. loc[r].total \in Nat /\ pc[r] \in Charging
      BY <2>2, Now DEF Settle, Locals
    <3>2. CASE Take(r, loc[r].total, loc[r].total)
      BY <1>1, <3>1, <3>2, TakeLedger
    <3>3. CASE Move(r, "close", loc[r]) /\ UNCHANGED <<clock, rows, caches, ledger, history>>
      <4>1. Aside(r)
        BY <3>1, <3>3, MovesAside DEF Entering
      <4>2. QED
        BY <1>1, <4>1, AsideLedger
    <3>4. QED
      BY <2>2, <3>2, <3>3 DEF Settle
  <2>3. CASE SyncCache(r) \/ AppendUsage(r) \/ Recharge(r) \/ AppendTopup(r) \/ Reread(r)
    BY <1>1, <2>3, SyncLedger, UsageLedger, RechargeLedger, TopupLedger, RereadLedger
  <2>4. CASE \/ ReadCached(r) \/ StartStep(r) \/ ChargeNothing(r) \/ RecordUsed(r)
             \/ Refresh(r) \/ WriteThrough(r) \/ Project(r) \/ AutoEnd(r)
             \/ ReplayCheck(r) \/ EndCheck(r) \/ Close(r) \/ Release(r) \/ Expire(r)
    BY <1>1, <2>4, ContinueAside, AsideLedger
  <2>5. QED
    BY <1>3, <2>1, <2>2, <2>3, <2>4
    DEF Continue, ChargeStep, SessionStep, WalletStep
<1>4. CASE Environment
  BY <1>1, <1>4, AbortLedger, StillLedger
  DEF Environment, Tick, EvictRaw, EvictEnriched
<1>5. CASE UNCHANGED vars
  BY <1>5, StillLedger DEF vars
<1>6. QED
  BY <1>2, <1>3, <1>4, <1>5 DEF Next

(* What waits to be entered is never negative, and nothing waits when every  *)
(* call has returned.                                                        *)
LEMMA LedgerInvComplete == TypeOK /\ LedgerInv => LedgerComplete
<1> SUFFICES ASSUME TypeOK, LedgerInv PROVE LedgerComplete
  OBVIOUS
<1>1. /\ debited \in [Sessions -> Nat] /\ usage \in [Sessions -> Nat]
      /\ topup \in [Balances -> Nat] /\ credited \in [Balances -> Nat]
  BY DEF TypeOK, DataTypeOK
<1>2. ASSUME NEW w, IsFiniteSet(Units(w, Requests))
      PROVE  Total(w, Requests) \in Nat
  BY <1>2, FS_CardinalityType DEF Total
<1>3. ASSUME NEW s \in Sessions
      PROVE  /\ usage[s] <= debited[s]
             /\ Quiet => usage[s] = debited[s]
  <2>1. Balanced(usage[s], Unentered(s), debited[s])
    BY DEF LedgerInv
  <2>2. Total(Unentered(s), Requests) \in Nat
    BY <1>2, <2>1 DEF Balanced
  <2>3. Quiet => aborts = 0 /\ Total(Unentered(s), Requests) = 0
    <3>1. Quiet => \A r \in Requests : Unentered(s)[r] = 0
      BY DEF Quiet, Unentered
    <3>2. QED
      BY <3>1, TotalZero DEF Quiet
  <2>4. QED
    BY <1>1, <2>1, <2>2, <2>3 DEF Balanced
<1>4. ASSUME NEW b \in Balances
      PROVE  /\ topup[b] <= credited[b]
             /\ Quiet => topup[b] = credited[b]
  <2>1. Balanced(topup[b], Unsold(b), credited[b])
    BY DEF LedgerInv
  <2>2. Total(Unsold(b), Requests) \in Nat
    BY <1>2, <2>1 DEF Balanced
  <2>3. Quiet => aborts = 0 /\ Total(Unsold(b), Requests) = 0
    <3>1. Quiet => \A r \in Requests : Unsold(b)[r] = 0
      BY DEF Quiet, Unsold
    <3>2. QED
      BY <3>1, TotalZero DEF Quiet
  <2>4. QED
    BY <1>1, <2>1, <2>2, <2>3 DEF Balanced
<1>5. QED
  BY <1>1, <1>3, <1>4 DEF LedgerComplete

(* The ledger never shows a minute that was not charged or sold, whatever    *)
(* requests interleave and are cut off between a deduction and its entry;    *)
(* and unless one was, it shows them all once the calls have returned.       *)
THEOREM LedgerIsComplete == Spec => []LedgerComplete
<1>1. Init => LedgerInv
  BY InitLedger
<1>2. IInv /\ LedgerInv /\ [Next]_vars => LedgerInv'
  BY NextLedger
<1>3. IInv => TypeOK
  BY DEF IInv
<1>4. TypeOK /\ LedgerInv => LedgerComplete
  BY LedgerInvComplete
<1>5. QED
  BY <1>1, <1>2, <1>3, <1>4, Invariance, PTL DEF Spec

-----------------------------------------------------------------------------
(* Calls that do not overlap                                               *)
(*                                                                         *)
(* With one slot for requests a call comes to its end before the next one  *)
(* begins; the clock, the caches and a lost request still come in between. *)
(* What follows holds of such calls only (the findings are runs in which   *)
(* it does not hold of others).  Each property has an invariant that says  *)
(* what the one request knows at each of its statements.                   *)

OneAtATime == \E r : Requests = {r}

(* The other requests are the one that moves. *)
LEMMA AloneStep ==
  ASSUME OneAtATime, TypeOK, NEW r \in Requests, NEW to, NEW new, Move(r, to, new)
  PROVE  /\ pc'[r] = to
         /\ loc'[r] = IF to = "idle" THEN NoLocals ELSE new
         /\ \A q \in Requests : q = r
BY DEF OneAtATime, TypeOK, Move

(* What the one request has found is still so:                             *)
(*   - where start() has looked for a session of the wallet, none is open; *)
(*   - a listing is about to mark a wallet that is stale;                  *)
(*   - a wallet that is usable now was so when its recharge began.         *)
Found(sessions, wallets, now, step, l) ==
  /\ Stage(step, l) \in {"access", "insert"} =>
       \A s \in Sessions : sessions[s].phase = "open" => sessions[s].bal # l.bal
  /\ step = "expire" => wallets[l.bal].expiry < now
  /\ step = "recharge" /\ CarriesForward(wallets[l.bal], now) => l.carry

FoundInv ==
  /\ OneSessionPerWallet
  /\ ExpiredMeansPast
  /\ \A r \in Requests : Found(session, wallet, clock, pc[r], loc[r])

(* An idle request has found nothing. *)
LEMMA IdleFound ==
  ASSUME NEW sessions, NEW wallets, NEW now
  PROVE  Found(sessions, wallets, now, "idle", NoLocals)
BY DEF Found

(* The step of the one request. *)
LEMMA MoveFound ==
  ASSUME OneAtATime, IInv, NEW r \in Requests, NEW to, NEW new,
         Move(r, to, new), OneSessionPerWallet', ExpiredMeansPast',
         to # "idle" => Found(session', wallet', clock', to, new)
  PROVE  FoundInv'
<1>1. /\ pc'[r] = to
      /\ loc'[r] = IF to = "idle" THEN NoLocals ELSE new
      /\ \A q \in Requests : q = r
  BY AloneStep DEF IInv
<1>2. Found(session', wallet', clock', pc'[r], loc'[r])
  BY <1>1, IdleFound
<1>3. QED
  BY <1>1, <1>2 DEF FoundInv

(* A step of the one request that leaves the rows it has found alone. *)
LEMMA StillFound ==
  ASSUME OneAtATime, IInv, FoundInv, NEW r \in Requests, NEW to, NEW new,
         Move(r, to, new), UNCHANGED <<session, wallet, clock>>,
         to # "idle" => Found(session, wallet, clock, to, new)
  PROVE  FoundInv'
<1>1. OneSessionPerWallet' /\ ExpiredMeansPast'
  BY DEF FoundInv, OneSessionPerWallet, ExpiredMeansPast, Open
<1>2. QED
  BY <1>1, MoveFound

(* A call that begins has found a stale wallet or a usable one, if any. *)
LEMMA BeginFound ==
  ASSUME OneAtATime, IInv, FoundInv, NEW r \in Requests, Begin(r)
  PROVE  FoundInv'
<1>1. ASSUME NEW call, NEW step, NEW new, Arrive(r, call, step, new),
             step # "idle", UNCHANGED <<session, wallet, clock>>,
             Found(session, wallet, clock, step, new)
      PROVE  FoundInv'
  BY <1>1, StillFound DEF Arrive, Move
<1>2. NoLocals \in Locals
  BY NoLocalsType
<1>3. ASSUME NEW b \in Balances, NEW d \in Devices, BeginStart(r, b, d)
      PROVE  FoundInv'
  BY <1>1, <1>3 DEF BeginStart, Found, NoLocals
<1>4. ASSUME NEW b \in Balances, NEW d \in Devices, BeginStaffStart(r, b, d)
      PROVE  FoundInv'
  BY <1>1, <1>4 DEF BeginStaffStart, Found, NoLocals
<1>5. ASSUME NEW s \in Sessions, BeginHeartbeat(r, s)
      PROVE  FoundInv'
  BY <1>1, <1>5 DEF BeginHeartbeat, Found, NoLocals
<1>6. ASSUME NEW player \in Players, BeginPoll(r, player)
      PROVE  FoundInv'
  BY <1>1, <1>6 DEF BeginPoll, Found, NoLocals
<1>7. ASSUME NEW s \in Sessions, BeginEnd(r, s)
      PROVE  FoundInv'
  BY <1>1, <1>7 DEF BeginEnd, Found, NoLocals
<1>8. ASSUME NEW s \in Sessions, BeginStaffEnd(r, s)
      PROVE  FoundInv'
  BY <1>1, <1>8 DEF BeginStaffEnd, Found, NoLocals
<1>9. ASSUME NEW b \in Balances, BeginRecharge(r, b)
      PROVE  FoundInv'
  BY <1>1, <1>9 DEF BeginRecharge, Found, NoLocals
<1>10. ASSUME NEW b \in Balances, BeginSweep(r, b)
      PROVE  FoundInv'
  BY <1>1, <1>10 DEF BeginSweep, Found, NoLocals
<1>11. QED
  BY <1>3, <1>4, <1>5, <1>6, <1>7, <1>8, <1>9, <1>10 DEF Begin

(* Statements that leave the rows alone: start() looks for an open session   *)
(* of the wallet, and goes on only when it finds none.                       *)
LEMMA ReadsFound ==
  ASSUME OneAtATime, IInv, FoundInv, NEW r \in Requests,
         \/ ReadCached(r) \/ Admit(r) \/ ActiveCheck(r) \/ Access(r) \/ Occupy(r)
         \/ ChargeNothing(r) \/ SyncCache(r) \/ AppendUsage(r)
         \/ Refresh(r) \/ WriteThrough(r) \/ Project(r) \/ AutoEnd(r)
         \/ ReplayCheck(r) \/ EndCheck(r) \/ Release(r)
         \/ AppendTopup(r) \/ Reread(r)
  PROVE  FoundInv'
<1>1. /\ Carries(session, pc[r], loc[r]) /\ loc[r] \in Locals
      /\ NoLocals \in Locals
  BY Now, NoLocalsType
<1>2. Found(session, wallet, clock, pc[r], loc[r])
  BY DEF FoundInv
<1> USE DEF Reply, ShowBalance, Found
<1>3. CASE ReadCached(r)
  BY <1>1, <1>2, <1>3, StillFound DEF ReadCached, RawHit, RawMiss, RawFill,
     EnrichedHit, EnrichedMiss, EnrichedFill, Carries, Locals
<1>4. CASE Admit(r) \/ Occupy(r)
  BY <1>4, StillFound DEF Admit, Occupy
<1>5. CASE ActiveCheck(r)
  BY <1>1, <1>5, StillFound DEF ActiveCheck, Locals, Open
<1>6. CASE Access(r)
  BY <1>1, <1>2, <1>6, StillFound DEF Access, Locals
<1>7. CASE ChargeNothing(r) \/ SyncCache(r) \/ AppendUsage(r)
  BY <1>7, StillFound DEF ChargeNothing, SyncCache, AppendUsage, AfterCharge
<1>8. CASE Refresh(r) \/ WriteThrough(r) \/ Project(r) \/ AutoEnd(r)
  BY <1>1, <1>8, StillFound DEF Refresh, WriteThrough, Project, AutoEnd, Locals
<1>9. CASE ReplayCheck(r) \/ EndCheck(r) \/ Release(r)
  BY <1>1, <1>9, StillFound DEF ReplayCheck, EndCheck, Release, Locals
<1>10. CASE AppendTopup(r) \/ Reread(r)
  BY <1>10, StillFound DEF AppendTopup, Reread
<1>11. QED
  BY <1>3, <1>4, <1>5, <1>6, <1>7, <1>8, <1>9, <1>10

(* start() inserts a session of a wallet that has none. *)
LEMMA InsertFound ==
  ASSUME OneAtATime, IInv, FoundInv, NEW r \in Requests, Insert(r)
  PROVE  FoundInv'
<1>1. /\ session \in [Sessions -> SessionRow] /\ loc[r] \in Locals
      /\ Found(session, wallet, clock, pc[r], loc[r])
  BY Now DEF DataTypeOK, FoundInv
<1>2. PICK s \in Sessions, l \in {loc[r]} :
        /\ session[s].phase = "none"
        /\ session' = [session EXCEPT ![s] =
             [phase |-> "open", bal |-> l.bal, dev |-> l.dev,
              start |-> l.at, end |-> None, used |-> 0]]
  BY DEF Insert
<1>3. \A t \in Sessions : Open(t) => session[t].bal # l.bal
  BY <1>1, <1>2 DEF Insert, Found, Open
<1>4. \A t \in Sessions : session'[t] =
        IF t = s THEN [phase |-> "open", bal |-> l.bal, dev |-> l.dev,
                       start |-> l.at, end |-> None, used |-> 0]
        ELSE session[t]
  BY <1>1, <1>2
<1>5. OneSessionPerWallet'
  BY <1>3, <1>4 DEF FoundInv, OneSessionPerWallet, Open
<1>6. ExpiredMeansPast'
  BY DEF Insert, FoundInv, ExpiredMeansPast
<1>7. PICK new : Move(r, "occupy", new)
  BY DEF Insert
<1>8. QED
  BY <1>5, <1>6, <1>7, MoveFound DEF Found

(* A session that is charged or closed does not open another.                *)
LEMMA KeepsOneSession ==
  ASSUME FoundInv, TypeOK, NEW s \in Sessions, NEW row,
         session' = [session EXCEPT ![s] = row],
         row.phase = "open" => session[s].phase = "open",
         row.bal = session[s].bal
  PROVE  OneSessionPerWallet'
<1>1. \A t \in Sessions : /\ Open(t)' => Open(t)
                          /\ session'[t].bal = session[t].bal
  BY DEF Open, TypeOK, DataTypeOK
<1>2. QED
  BY <1>1 DEF FoundInv, OneSessionPerWallet

(* The UPDATEs of a session. *)
LEMMA SessionFound ==
  ASSUME OneAtATime, IInv, FoundInv, NEW r \in Requests,
         RecordUsed(r) \/ Close(r)
  PROVE  FoundInv'
<1>1. /\ session \in [Sessions -> SessionRow] /\ TypeOK
      /\ loc[r].sid \in Sessions
  BY Now DEF DataTypeOK, RecordUsed, Close, Carries, IInv
<1>2. ExpiredMeansPast'
  BY DEF RecordUsed, Close, FoundInv, ExpiredMeansPast
<1>3. OneSessionPerWallet'
  <2>1. CASE UNCHANGED session
    BY <2>1 DEF FoundInv, OneSessionPerWallet, Open
  <2>2. CASE RecordUsed(r) /\ ~UNCHANGED session
    <3>1. PICK row : row = [session[loc[r].sid] EXCEPT !.used = loc[r].total]
      OBVIOUS
    <3>2. session' = [session EXCEPT ![loc[r].sid] = row]
      BY <2>2, <3>1 DEF RecordUsed
    <3>3. row.phase = session[loc[r].sid].phase /\ row.bal = session[loc[r].sid].bal
      BY <1>1, <3>1 DEF SessionRow
    <3>4. QED
      BY <1>1, <3>2, <3>3, KeepsOneSession
  <2>3. CASE Close(r) /\ ~UNCHANGED session
    <3>1. PICK row : row = [session[loc[r].sid] EXCEPT !.phase = "ended",
                              !.end = loc[r].at, !.used = loc[r].total]
      OBVIOUS
    <3>2. session' = [session EXCEPT ![loc[r].sid] = row]
      BY <1>1, <2>3, <3>1 DEF Close, SessionRow
    <3>3. row.phase = "ended" /\ row.bal = session[loc[r].sid].bal
      BY <1>1, <3>1 DEF SessionRow
    <3>4. QED
      BY <1>1, <3>2, <3>3, KeepsOneSession
  <2>4. QED
    BY <2>1, <2>2, <2>3
<1>4. \E to, new : Move(r, to, new) /\ to \in {"idle", "refresh", "close"}
  BY DEF RecordUsed, Close, AfterCharge, Reply
<1>5. QED
  BY <1>2, <1>3, <1>4, MoveFound DEF Found

(* A step that changes a wallet and no session. *)
LEMMA WalletFound ==
  ASSUME OneAtATime, IInv, FoundInv, NEW r \in Requests, NEW to, NEW new,
         Move(r, to, new), to \in {"sync", "credit", "reread"},
         UNCHANGED <<session, clock>>,
         NEW b \in Balances, NEW row, wallet' = [wallet EXCEPT ![b] = row],
         row.status = "expired" => row.expiry < clock
  PROVE  FoundInv'
<1>1. wallet \in [Balances -> WalletRow]
  BY DEF IInv, TypeOK, DataTypeOK
<1>2. ExpiredMeansPast'
  BY <1>1 DEF FoundInv, ExpiredMeansPast
<1>3. OneSessionPerWallet'
  BY DEF FoundInv, OneSessionPerWallet, Open
<1>4. QED
  BY <1>2, <1>3, MoveFound DEF Found

(* A deduction leaves the expiry as it is and marks nothing expired. *)
LEMMA TakeFound ==
  ASSUME OneAtATime, IInv, FoundInv, NEW r \in Requests, NEW minutes,
         NEW total, Take(r, minutes, total), loc[r].bal \in Balances
  PROVE  FoundInv'
<1>1. wallet[loc[r].bal] \in WalletRow
  BY DEF IInv, TypeOK, DataTypeOK
<1>2. PICK row : row = Deducted(wallet[loc[r].bal], minutes)
  OBVIOUS
<1>3. /\ row.expiry = wallet[loc[r].bal].expiry
      /\ row.status \in {"exhausted", wallet[loc[r].bal].status}
  BY <1>1, <1>2 DEF Deducted, WalletRow
<1>4. row.status = "expired" => row.expiry < clock
  BY <1>3 DEF FoundInv, ExpiredMeansPast
<1>5. QED
  BY <1>2, <1>4, WalletFound DEF Take

(* The statements of the meter and of the counter that change a wallet. *)
LEMMA WalletStepsFound ==
  ASSUME OneAtATime, IInv, FoundInv, NEW r \in Requests,
         ChargeDelta(r) \/ Settle(r) \/ Recharge(r) \/ Expire(r)
  PROVE  FoundInv'
<1>1. /\ loc[r].bal \in Balances /\ wallet[loc[r].bal] \in WalletRow
      /\ Found(session, wallet, clock, pc[r], loc[r])
  BY Now DEF IInv, TypeOK, DataTypeOK, FoundInv, Carries, ChargeDelta, Settle,
     Recharge, Expire
<1>2. CASE ChargeDelta(r)
  BY <1>1, <1>2, TakeFound DEF ChargeDelta
<1>3. CASE Settle(r)
  BY <1>1, <1>3, TakeFound, StillFound DEF Settle, Found
<1>4. CASE Recharge(r)
  BY <1>1, <1>4, WalletFound DEF Recharge
<1>5. CASE Expire(r)
  <2>1. PICK row : row = [wallet[loc[r].bal] EXCEPT !.status = "expired"]
    OBVIOUS
  <2>2. wallet' = [wallet EXCEPT ![loc[r].bal] = row]
    BY <1>5, <2>1 DEF Expire
  <2>3. row.expiry < clock
    BY <1>1, <1>5, <2>1 DEF Expire, Found, WalletRow
  <2>4. QED
    BY <1>1, <1>5, <2>2, <2>3, WalletFound DEF Expire
<1>6. QED
  BY <1>2, <1>3, <1>4, <1>5

(* The clock runs against a usable wallet, and for a stale one. *)
LEMMA EnvironmentFound ==
  ASSUME OneAtATime, IInv, FoundInv, Environment
  PROVE  FoundInv'
<1>1. CASE Tick
  <2>1. ASSUME NEW r \in Requests
        PROVE  Found(session, wallet, clock', pc[r], loc[r])
    <3>1. Found(session, wallet, clock, pc[r], loc[r]) /\ Carries(session, pc[r], loc[r])
      BY Now DEF FoundInv
    <3>2. pc[r] \in {"expire", "recharge"} => wallet[loc[r].bal].expiry \in Nat
      BY <3>1 DEF Carries, IInv, TypeOK, DataTypeOK, WalletRow
    <3>3. clock \in Nat /\ clock' = clock + 1
      BY <1>1 DEF Tick, IInv, TypeOK, DataTypeOK
    <3>4. QED
      BY <3>1, <3>2, <3>3 DEF Found, CarriesForward
  <2>2. ExpiredMeansPast'
    BY <1>1 DEF Tick, FoundInv, ExpiredMeansPast, IInv, TypeOK, DataTypeOK, WalletRow
  <2>3. UNCHANGED <<session, wallet, pc, loc>>
    BY <1>1 DEF Tick
  <2>4. QED
    BY <2>1, <2>2, <2>3 DEF FoundInv, OneSessionPerWallet, Open
<1>2. CASE \/ \E b \in Balances : EvictRaw(b)
           \/ \E s \in Sessions : EvictEnriched(s)
  BY <1>2 DEF EvictRaw, EvictEnriched, FoundInv, OneSessionPerWallet,
     ExpiredMeansPast, Open
<1>3. CASE \E r \in Requests : Abort(r)
  BY <1>3, StillFound DEF Abort, Reply
<1>4. QED
  BY <1>1, <1>2, <1>3 DEF Environment

(* What the one request has found is an inductive invariant. *)
LEMMA NextFound ==
  OneAtATime /\ IInv /\ FoundInv /\ [Next]_vars => FoundInv'
<1> SUFFICES ASSUME OneAtATime, IInv, FoundInv, [Next]_vars
             PROVE  FoundInv'
  OBVIOUS
<1>1. ASSUME NEW r \in Requests, Continue(r)
      PROVE  FoundInv'
  BY <1>1, ReadsFound, InsertFound, SessionFound, WalletStepsFound
  DEF Continue, StartStep, ChargeStep, SessionStep, WalletStep
<1>2. CASE UNCHANGED vars
  BY <1>2 DEF vars, FoundInv, OneSessionPerWallet, ExpiredMeansPast, Open
<1>3. QED
  BY <1>1, <1>2, BeginFound, EnvironmentFound DEF Next

(* No request has found anything at the beginning. *)
LEMMA InitFound == Init => FoundInv
BY IdleFound DEF Init, FoundInv, OneSessionPerWallet, ExpiredMeansPast, Open, NoSession

(* start() admits one open session per wallet, for any number of wallets,    *)
(* stations and sessions, as long as calls do not overlap.                   *)
THEOREM OneSessionOfAWallet ==
  ASSUME OneAtATime
  PROVE  Spec => []OneSessionPerWallet
<1>1. Init => FoundInv
  BY InitFound
<1>2. IInv /\ FoundInv /\ [Next]_vars => FoundInv'
  BY NextFound
<1>3. FoundInv => OneSessionPerWallet
  BY DEF FoundInv
<1>4. QED
  BY <1>1, <1>2, <1>3, Invariance, PTL DEF Spec

(* A wallet is marked expired only after its expiry date, as long as no      *)
(* recharge comes between the listing that finds it stale and the UPDATE.    *)
THEOREM ExpiredWalletsArePast ==
  ASSUME OneAtATime
  PROVE  Spec => []ExpiredMeansPast
<1>1. Init => FoundInv
  BY InitFound
<1>2. IInv /\ FoundInv /\ [Next]_vars => FoundInv'
  BY NextFound
<1>3. FoundInv => ExpiredMeansPast
  BY DEF FoundInv
<1>4. QED
  BY <1>1, <1>2, <1>3, Invariance, PTL DEF Spec

(* Only the UPDATE of a recharge credits minutes. *)
LEMMA CreditWriters ==
  ASSUME [Next]_vars, credited' # credited
  PROVE  \E r \in Requests : Recharge(r)
<1>1. ASSUME NEW r \in Requests, Begin(r) \/ Continue(r)
      PROVE  Recharge(r)
  <2>1. CASE Begin(r)
    BY <2>1 DEF Begin, BeginStart, BeginStaffStart, BeginHeartbeat, BeginPoll,
                BeginEnd, BeginStaffEnd, BeginRecharge, BeginSweep
  <2>2. CASE ReadCached(r)
    BY <2>2 DEF ReadCached, RawHit, RawMiss, RawFill, EnrichedHit,
                EnrichedMiss, EnrichedFill
  <2>3. CASE StartStep(r)
    BY <2>3 DEF StartStep, Admit, ActiveCheck, Access, Insert, Occupy
  <2>4. CASE ChargeStep(r)
    BY <2>4, SMTT(30) DEF ChargeStep, ChargeNothing, ChargeDelta, Take, SyncCache,
                AppendUsage, RecordUsed
  <2>5. CASE SessionStep(r)
    BY <2>5 DEF SessionStep, Refresh, WriteThrough, Project, AutoEnd,
                ReplayCheck, EndCheck, Settle, Take, Close, Release
  <2>6. CASE WalletStep(r)
    BY <2>6 DEF WalletStep, AppendTopup, Expire, Reread
  <2>7. \/ Begin(r) \/ ReadCached(r) \/ StartStep(r) \/ ChargeStep(r)
        \/ SessionStep(r) \/ WalletStep(r)
    BY <1>1, Zenon DEF Continue
  <2>8. QED
    BY <2>1, <2>2, <2>3, <2>4, <2>5, <2>6, <2>7, ZenonT(40)
<1>2. ~Environment
  BY DEF Environment, Tick, EvictRaw, EvictEnriched, Abort
<1>3. ~UNCHANGED vars
  BY DEF vars
<1>4. QED
  BY <1>1, <1>2, <1>3 DEF Next

(* A recharge that finds the wallet usable when it writes has found it so    *)
(* when it read it, and adds to what is left.                                *)
LEMMA RechargeStacks ==
  ASSUME IInv, FoundInv, NEW r \in Requests, Recharge(r), NEW b \in Balances,
         credited'[b] > credited[b], CarriesForward(wallet[b], clock)
  PROVE  wallet'[b].rem = wallet[b].rem + Credits
<1>1. /\ wallet \in [Balances -> WalletRow] /\ loc[r].bal \in Balances
      /\ credited \in [Balances -> Nat]
      /\ Found(session, wallet, clock, pc[r], loc[r])
  BY Now DEF IInv, TypeOK, DataTypeOK, FoundInv, Carries, Recharge
<1>2. b = loc[r].bal
  <2>1. credited' = [credited EXCEPT ![loc[r].bal] = @ + Credits]
    BY DEF Recharge
  <2>2. QED
    BY <1>1, <2>1
<1>3. loc[r].carry
  BY <1>1, <1>2 DEF Recharge, Found
<1>4. \E rate, expiry :
        wallet' = [wallet EXCEPT ![loc[r].bal] =
                     [rem |-> wallet[loc[r].bal].rem + Credits, status |-> "active",
                      expiry |-> expiry, rate |-> rate]]
  BY <1>3 DEF Recharge
<1>5. QED
  BY <1>1, <1>2, <1>4

(* The minutes of a usable wallet are kept when it is recharged, however the *)
(* clock moves between the read of the row and its UPDATE, as long as calls  *)
(* do not overlap.                                                           *)
THEOREM UsableMinutesAreKept ==
  ASSUME OneAtATime
  PROVE  Spec => UsableMinutesStack
<1>1. Init => FoundInv
  BY InitFound
<1>2. IInv /\ FoundInv /\ [Next]_vars => FoundInv'
  BY NextFound
<1>3. IInv /\ FoundInv /\ [Next]_vars
        => [\A b \in Balances :
              (credited'[b] > credited[b] /\ CarriesForward(wallet[b], clock))
                => wallet'[b].rem = wallet[b].rem + Credits]_vars
  <2> SUFFICES ASSUME IInv, FoundInv, [Next]_vars, NEW b \in Balances,
                      credited'[b] > credited[b], CarriesForward(wallet[b], clock)
               PROVE  wallet'[b].rem = wallet[b].rem + Credits
    OBVIOUS
  <2>1. credited' # credited
    BY DEF IInv, TypeOK, DataTypeOK
  <2>2. QED
    BY <2>1, CreditWriters, RechargeStacks
<1>4. QED
  BY <1>1, <1>2, <1>3, Invariance, PTL DEF Spec, UsableMinutesStack

-----------------------------------------------------------------------------
(* The snapshots in Redis *)

(* A row the one request holds is the row in the table:                      *)
(*   - the balance it is about to store or to write through;                 *)
(*   - the session it decides on or is about to store.                       *)
Fresh(sessions, wallets, step, l) ==
  /\ step \in {"rawFill", "credit", "sync"} => l.row = wallets[l.bal]
  /\ step \in {"enrichedFill", "writeThrough", "replayCheck", "endCheck"} =>
       l.snap = sessions[l.sid].phase

(* Where a snapshot is behind, the one request is on its way to it.          *)
RawFresh(cached, wallets, step, l) ==
  \A b \in Balances :
    \/ cached[b] \in {None, wallets[b]}
    \/ step \in {"credit", "reread", "sync"} /\ l.bal = b

EnrichedFresh(cached, sessions, step, l) ==
  \A s \in Sessions :
    \/ cached[s] \in {"none", sessions[s].phase}
    \/ step = "refresh" /\ l.sid = s

FreshInv ==
  aborts = 0 =>
    \A r \in Requests : /\ RawFresh(rawCache, wallet, pc[r], loc[r])
                        /\ EnrichedFresh(openCache, session, pc[r], loc[r])
                        /\ Fresh(session, wallet, pc[r], loc[r])

(* The step of the one request. *)
LEMMA MoveFresh ==
  ASSUME OneAtATime, IInv, NEW r \in Requests, NEW to, NEW new, Move(r, to, new),
         aborts' = 0 =>
           /\ RawFresh(rawCache', wallet', to, new)
           /\ EnrichedFresh(openCache', session', to, new)
           /\ to # "idle" => Fresh(session', wallet', to, new)
  PROVE  FreshInv'
<1>1. /\ pc'[r] = to
      /\ loc'[r] = IF to = "idle" THEN NoLocals ELSE new
      /\ \A q \in Requests : q = r
  BY AloneStep DEF IInv
<1>2. CASE to # "idle"
  BY <1>1, <1>2 DEF FreshInv
<1>3. CASE to = "idle"
  BY <1>1, <1>3 DEF FreshInv, RawFresh, EnrichedFresh, Fresh
<1>4. QED
  BY <1>2, <1>3

(* A call that begins finds all snapshots fresh; a recharge drops one. *)
LEMMA BeginFresh ==
  ASSUME OneAtATime, IInv, FreshInv, NEW r \in Requests, Begin(r)
  PROVE  FreshInv'
<1>1. ASSUME NEW call, NEW step, NEW new, Arrive(r, call, step, new),
             step \in {"raw", "activeCheck", "enriched", "recharge", "expire"},
             UNCHANGED <<session, wallet, openCache, aborts>>,
             \A b \in Balances : rawCache'[b] \in {None, rawCache[b]}
      PROVE  FreshInv'
  <2>1. Move(r, step, new)
    BY <1>1 DEF Arrive, Move
  <2>2. pc[r] = "idle"
    BY <1>1 DEF Arrive
  <2>3. aborts = 0 => /\ RawFresh(rawCache, wallet, "idle", loc[r])
                      /\ EnrichedFresh(openCache, session, "idle", loc[r])
    BY <2>2 DEF FreshInv
  <2>4. aborts' = 0 => /\ RawFresh(rawCache', wallet', step, new)
                       /\ EnrichedFresh(openCache', session', step, new)
    BY <1>1, <2>3 DEF RawFresh, EnrichedFresh
  <2>5. Fresh(session', wallet', step, new)
    BY <1>1 DEF Fresh
  <2>6. QED
    BY <2>1, <2>4, <2>5, MoveFresh
<1>2. rawCache \in [Balances -> WalletRow \cup {None}]
  BY DEF IInv, TypeOK, DataTypeOK
<1>3. ASSUME NEW b \in Balances, NEW d \in Devices, BeginStart(r, b, d)
      PROVE  FreshInv'
  BY <1>1, <1>3 DEF BeginStart
<1>4. ASSUME NEW b \in Balances, NEW d \in Devices, BeginStaffStart(r, b, d)
      PROVE  FreshInv'
  BY <1>1, <1>4 DEF BeginStaffStart
<1>5. ASSUME NEW s \in Sessions, BeginHeartbeat(r, s)
      PROVE  FreshInv'
  BY <1>1, <1>5 DEF BeginHeartbeat
<1>6. ASSUME NEW player \in Players, BeginPoll(r, player)
      PROVE  FreshInv'
  BY <1>1, <1>6 DEF BeginPoll
<1>7. ASSUME NEW s \in Sessions, BeginEnd(r, s)
      PROVE  FreshInv'
  BY <1>1, <1>7 DEF BeginEnd
<1>8. ASSUME NEW s \in Sessions, BeginStaffEnd(r, s)
      PROVE  FreshInv'
  BY <1>1, <1>8 DEF BeginStaffEnd
<1>9. ASSUME NEW b \in Balances, BeginRecharge(r, b)
      PROVE  FreshInv'
  BY <1>1, <1>2, <1>9 DEF BeginRecharge
<1>10. ASSUME NEW b \in Balances, BeginSweep(r, b)
      PROVE  FreshInv'
  BY <1>1, <1>10 DEF BeginSweep
<1>11. QED
  BY <1>3, <1>4, <1>5, <1>6, <1>7, <1>8, <1>9, <1>10 DEF Begin

(* A step of the one request that leaves rows and snapshots alone. *)
LEMMA StillFresh ==
  ASSUME OneAtATime, IInv, FreshInv, NEW r \in Requests, NEW to, NEW new,
         Move(r, to, new), UNCHANGED <<session, wallet, rawCache, openCache, aborts>>,
         pc[r] \notin {"credit", "reread", "sync", "refresh"},
         aborts = 0 /\ to # "idle" => Fresh(session, wallet, to, new)
  PROVE  FreshInv'
<1>1. aborts = 0 => /\ RawFresh(rawCache, wallet, pc[r], loc[r])
                    /\ EnrichedFresh(openCache, session, pc[r], loc[r])
  BY DEF FreshInv
<1>2. aborts = 0 => /\ RawFresh(rawCache, wallet, to, new)
                    /\ EnrichedFresh(openCache, session, to, new)
  BY <1>1 DEF RawFresh, EnrichedFresh
<1>3. QED
  BY <1>2, MoveFresh

(* What the one request knows. *)
LEMMA NowFresh ==
  ASSUME FreshInv, aborts = 0, NEW r \in Requests
  PROVE  /\ RawFresh(rawCache, wallet, pc[r], loc[r])
         /\ EnrichedFresh(openCache, session, pc[r], loc[r])
         /\ Fresh(session, wallet, pc[r], loc[r])
BY DEF FreshInv

(* A read finds a fresh snapshot, or the row. *)
LEMMA ReadsFresh ==
  ASSUME OneAtATime, IInv, FreshInv, NEW r \in Requests,
         RawHit(r) \/ RawMiss(r) \/ EnrichedHit(r) \/ EnrichedMiss(r)
  PROVE  FreshInv'
<1>1. /\ Carries(session, pc[r], loc[r]) /\ loc[r] \in Locals
  BY Now
<1>2. CASE RawHit(r)
  <2>1. loc[r].next \in Starting \cup Charging \cup {"project", "idle"}
    BY <1>1, <1>2 DEF RawHit, Carries
  <2>2. QED
    BY <1>2, <2>1, StillFresh DEF RawHit, Fresh
<1>3. CASE RawMiss(r)
  BY <1>1, <1>3, StillFresh DEF RawMiss, Fresh, Locals
<1>4. CASE EnrichedHit(r)
  <2>1. loc[r].next \in {"replayCheck", "endCheck"} /\ loc[r].sid \in Sessions
    BY <1>1, <1>4 DEF EnrichedHit, Carries
  <2>2. aborts = 0 => openCache[loc[r].sid] = session[loc[r].sid].phase
    BY <1>4, <2>1, NowFresh DEF EnrichedHit, EnrichedFresh
  <2>3. QED
    BY <1>1, <1>4, <2>1, <2>2, StillFresh DEF EnrichedHit, Fresh, Locals
<1>5. CASE EnrichedMiss(r)
  BY <1>1, <1>5, StillFresh DEF EnrichedMiss, Fresh, Locals
<1>6. QED
  BY <1>2, <1>3, <1>4, <1>5

(* Statements that only look at what the one request carries. *)
LEMMA ComputesFresh ==
  ASSUME OneAtATime, IInv, FreshInv, NEW r \in Requests,
         \/ Admit(r) \/ ActiveCheck(r) \/ Access(r) \/ Occupy(r)
         \/ ChargeNothing(r) \/ AppendUsage(r)
         \/ Project(r) \/ AutoEnd(r) \/ ReplayCheck(r) \/ EndCheck(r) \/ Release(r)
  PROVE  FreshInv'
<1> USE DEF Reply, ShowBalance, Fresh
<1>1. CASE Admit(r) \/ ActiveCheck(r) \/ Access(r) \/ Occupy(r)
  BY <1>1, StillFresh DEF Admit, ActiveCheck, Access, Occupy
<1>2. CASE ChargeNothing(r) \/ AppendUsage(r)
  BY <1>2, StillFresh DEF ChargeNothing, AppendUsage, AfterCharge
<1>3. CASE Project(r) \/ AutoEnd(r) \/ ReplayCheck(r) \/ EndCheck(r)
  BY <1>3, StillFresh DEF Project, AutoEnd, ReplayCheck, EndCheck
<1>4. CASE Release(r)
  BY <1>4, StillFresh DEF Release
<1>5. QED
  BY <1>1, <1>2, <1>3, <1>4

(* What is stored is the row, nothing having changed it since it was read. *)
LEMMA FillsFresh ==
  ASSUME OneAtATime, IInv, FreshInv, NEW r \in Requests,
         RawFill(r) \/ EnrichedFill(r) \/ WriteThrough(r)
  PROVE  FreshInv'
<1>1. /\ Carries(session, pc[r], loc[r])
      /\ rawCache \in [Balances -> WalletRow \cup {None}]
      /\ openCache \in [Sessions -> Phase]
  BY Now DEF DataTypeOK
<1>2. CASE RawFill(r)
  <2>1. loc[r].next \in Starting \cup Charging \cup {"project", "idle"}
    BY <1>1, <1>2 DEF RawFill, Carries
  <2>2. aborts = 0 => /\ RawFresh(rawCache', wallet', loc[r].next, loc[r])
                      /\ EnrichedFresh(openCache', session', loc[r].next, loc[r])
    BY <1>1, <1>2, NowFresh DEF RawFill, RawFresh, EnrichedFresh, Fresh
  <2>3. QED
    BY <1>2, <2>1, <2>2, MoveFresh DEF RawFill, Fresh
<1>3. CASE EnrichedFill(r)
  <2>1. loc[r].next \in {"replayCheck", "endCheck"}
    BY <1>1, <1>3 DEF EnrichedFill, Carries
  <2>2. aborts = 0 => /\ RawFresh(rawCache', wallet', loc[r].next, loc[r])
                      /\ EnrichedFresh(openCache', session', loc[r].next, loc[r])
                      /\ Fresh(session', wallet', loc[r].next, loc[r])
    BY <1>1, <1>3, <2>1, NowFresh DEF EnrichedFill, RawFresh, EnrichedFresh, Fresh
  <2>3. QED
    BY <1>3, <2>2, MoveFresh DEF EnrichedFill
<1>4. CASE WriteThrough(r)
  <2>1. PICK to \in {"release", "autoEnd", "idle"} : Move(r, to, loc[r])
    BY <1>4 DEF WriteThrough, Reply
  <2>2. aborts = 0 => /\ RawFresh(rawCache', wallet', to, loc[r])
                      /\ EnrichedFresh(openCache', session', to, loc[r])
    BY <1>1, <1>4, NowFresh DEF WriteThrough, RawFresh, EnrichedFresh, Fresh
  <2>3. QED
    BY <1>4, <2>1, <2>2, MoveFresh DEF WriteThrough, Fresh
<1>5. QED
  BY <1>2, <1>3, <1>4

(* A step of the one request that changes a wallet, and carries the row.     *)
LEMMA WalletFresh ==
  ASSUME OneAtATime, IInv, FreshInv, NEW r \in Requests, NEW to, NEW new,
         Move(r, to, new), UNCHANGED <<session, rawCache, openCache, aborts>>,
         pc[r] \notin {"credit", "reread", "sync", "refresh"},
         NEW b \in Balances, NEW row, wallet' = [wallet EXCEPT ![b] = row],
         new.bal = b, to = "reread" \/ (to \in {"sync", "credit"} /\ new.row = row)
  PROVE  FreshInv'
<1>1. wallet \in [Balances -> WalletRow]
  BY DEF IInv, TypeOK, DataTypeOK
<1>2. aborts = 0 => /\ RawFresh(rawCache, wallet, pc[r], loc[r])
                    /\ EnrichedFresh(openCache, session, pc[r], loc[r])
  BY DEF FreshInv
<1>3. aborts = 0 => /\ RawFresh(rawCache', wallet', to, new)
                    /\ EnrichedFresh(openCache', session', to, new)
  BY <1>1, <1>2 DEF RawFresh, EnrichedFresh
<1>4. Fresh(session', wallet', to, new)
  BY <1>1 DEF Fresh
<1>5. QED
  BY <1>3, <1>4, MoveFresh

(* The statements that change a wallet: the row they carry is the one the    *)
(* UPDATE returned.                                                          *)
LEMMA WalletStepsFresh ==
  ASSUME OneAtATime, IInv, FreshInv, NEW r \in Requests,
         ChargeDelta(r) \/ Settle(r) \/ Recharge(r) \/ Expire(r)
  PROVE  FreshInv'
<1>1. loc[r] \in Locals /\ loc[r].bal \in Balances
  BY Now DEF Carries, ChargeDelta, Settle, Recharge, Expire
<1>2. ASSUME NEW minutes, NEW total, Take(r, minutes, total),
             pc[r] \in {"charge", "settle"}
      PROVE  FreshInv'
  <2>1. PICK row : row = Deducted(wallet[loc[r].bal], minutes)
    OBVIOUS
  <2>2. PICK new : new = [loc[r] EXCEPT !.row = row, !.minutes = minutes,
                                        !.total = total]
    OBVIOUS
  <2>3. new.bal = loc[r].bal /\ new.row = row
    BY <1>1, <2>2 DEF Locals
  <2>4. Move(r, "sync", new) /\ wallet' = [wallet EXCEPT ![loc[r].bal] = row]
    BY <1>2, <2>1, <2>2 DEF Take
  <2>5. UNCHANGED <<session, rawCache, openCache, aborts>>
    BY <1>2 DEF Take
  <2>6. QED
    BY <1>1, <1>2, <2>3, <2>4, <2>5, WalletFresh
<1>3. CASE ChargeDelta(r)
  BY <1>2, <1>3 DEF ChargeDelta
<1>4. CASE Settle(r)
  BY <1>2, <1>4, StillFresh DEF Settle, Fresh
<1>5. CASE Recharge(r)
  <2>1. PICK row : /\ wallet' = [wallet EXCEPT ![loc[r].bal] = row]
                   /\ Move(r, "credit", [loc[r] EXCEPT !.row = row,
                                                       !.minutes = Credits])
    BY <1>5 DEF Recharge
  <2>2. PICK new : new = [loc[r] EXCEPT !.row = row, !.minutes = Credits]
    OBVIOUS
  <2>3. new.bal = loc[r].bal /\ new.row = row
    BY <1>1, <2>2 DEF Locals
  <2>4. UNCHANGED <<session, rawCache, openCache, aborts>> /\ pc[r] = "recharge"
    BY <1>5 DEF Recharge
  <2>5. QED
    BY <1>1, <2>1, <2>2, <2>3, <2>4, WalletFresh
<1>6. CASE Expire(r)
  <2>1. PICK row : row = [wallet[loc[r].bal] EXCEPT !.status = "expired"]
    OBVIOUS
  <2>2. wallet' = [wallet EXCEPT ![loc[r].bal] = row]
    BY <1>6, <2>1 DEF Expire
  <2>3. PICK new : new = loc[r] /\ Move(r, "reread", new)
    BY <1>6 DEF Expire
  <2>4. UNCHANGED <<session, rawCache, openCache, aborts>> /\ pc[r] = "expire"
    BY <1>6 DEF Expire
  <2>5. QED
    BY <1>1, <2>2, <2>3, <2>4, WalletFresh
<1>7. QED
  BY <1>3, <1>4, <1>5, <1>6

(* What a change of a wallet does before it writes the snapshot through.     *)
LEMMA CarriesFresh ==
  ASSUME OneAtATime, IInv, FreshInv, NEW r \in Requests,
         AppendTopup(r) \/ Reread(r)
  PROVE  FreshInv'
<1>1. loc[r] \in Locals
  BY Now
<1>2. PICK new : /\ Move(r, "sync", new)
                 /\ new = IF pc[r] = "credit" THEN loc[r]
                          ELSE [loc[r] EXCEPT !.row = wallet[loc[r].bal]]
  BY DEF AppendTopup, Reread
<1>3. /\ UNCHANGED <<session, wallet, rawCache, openCache, aborts>>
      /\ pc[r] \in {"credit", "reread"}
  BY DEF AppendTopup, Reread
<1>4. new.bal = loc[r].bal
  BY <1>1, <1>2 DEF Locals
<1>5. aborts = 0 => /\ RawFresh(rawCache, wallet, "sync", new)
                    /\ EnrichedFresh(openCache, session, "sync", new)
  BY <1>3, <1>4, NowFresh DEF RawFresh, EnrichedFresh
<1>6. aborts = 0 => Fresh(session, wallet, "sync", new)
  BY <1>1, <1>2, <1>3, NowFresh DEF Fresh, Locals
<1>7. QED
  BY <1>2, <1>3, <1>5, <1>6, MoveFresh

(* sync_balance_cache_after_mutation makes the snapshot fresh again. *)
LEMMA SyncFresh ==
  ASSUME OneAtATime, IInv, FreshInv, NEW r \in Requests, SyncCache(r)
  PROVE  FreshInv'
<1>1. /\ rawCache \in [Balances -> WalletRow \cup {None}]
      /\ openCache \in [Sessions -> Phase]
      /\ wallet \in [Balances -> WalletRow] /\ loc[r].bal \in Balances \cup {None}
  BY Now DEF DataTypeOK, Locals
<1>2. PICK to \in {"idle", "ledger"} : Move(r, to, loc[r])
  BY DEF SyncCache, Reply
<1>3. \A s \in Sessions : openCache'[s] \in {"none", openCache[s]}
  BY <1>1 DEF SyncCache
<1>4. aborts = 0 => /\ RawFresh(rawCache', wallet', to, loc[r])
                    /\ EnrichedFresh(openCache', session', to, loc[r])
  BY <1>1, <1>2, <1>3, NowFresh DEF SyncCache, RawFresh, EnrichedFresh, Fresh
<1>5. QED
  BY <1>2, <1>4, MoveFresh DEF SyncCache, Fresh

(* The UPDATEs of a session are followed by the refresh of its snapshot. *)
LEMMA SessionFresh ==
  ASSUME OneAtATime, IInv, FreshInv, NEW r \in Requests,
         Insert(r) \/ RecordUsed(r) \/ Close(r) \/ Refresh(r)
  PROVE  FreshInv'
<1>1. /\ session \in [Sessions -> SessionRow] /\ openCache \in [Sessions -> Phase]
      /\ Carries(session, pc[r], loc[r]) /\ loc[r] \in Locals
  BY Now DEF DataTypeOK
<1> USE DEF RawFresh, EnrichedFresh, Fresh
<1>2. CASE Insert(r)
  <2>1. PICK new : Move(r, "occupy", new)
    BY <1>2 DEF Insert
  <2>2. aborts = 0 => /\ RawFresh(rawCache', wallet', "occupy", new)
                      /\ EnrichedFresh(openCache', session', "occupy", new)
    BY <1>1, <1>2, NowFresh DEF Insert
  <2>3. QED
    BY <1>2, <2>1, <2>2, MoveFresh DEF Insert
<1>3. CASE RecordUsed(r)
  <2>1. PICK to \in {"refresh", "close", "idle"} : Move(r, to, loc[r])
    BY <1>3 DEF RecordUsed, AfterCharge, Reply
  <2>2. \A s \in Sessions : session'[s].phase = session[s].phase
    BY <1>1, <1>3 DEF RecordUsed, SessionRow
  <2>3. aborts = 0 => /\ RawFresh(rawCache', wallet', to, loc[r])
                      /\ EnrichedFresh(openCache', session', to, loc[r])
    BY <1>1, <1>3, <2>1, <2>2, NowFresh DEF RecordUsed
  <2>4. QED
    BY <1>3, <2>1, <2>3, MoveFresh DEF RecordUsed
<1>4. CASE Close(r)
  <2>1. PICK to \in {"refresh", "idle"} : /\ Move(r, to, loc[r])
                                          /\ to = "idle" => UNCHANGED session
    BY <1>4 DEF Close, Reply
  <2>2. \A s \in Sessions : s # loc[r].sid => session'[s] = session[s]
    BY <1>1, <1>4 DEF Close
  <2>3. aborts = 0 => /\ RawFresh(rawCache', wallet', to, loc[r])
                      /\ EnrichedFresh(openCache', session', to, loc[r])
    BY <1>1, <1>4, <2>1, <2>2, NowFresh DEF Close
  <2>4. QED
    BY <1>4, <2>1, <2>3, MoveFresh DEF Close
<1>5. CASE Refresh(r)
  <2>1. PICK new : /\ Move(r, "writeThrough", new)
                   /\ new = [loc[r] EXCEPT !.snap = session[loc[r].sid].phase]
    BY <1>5 DEF Refresh
  <2>2. aborts = 0 => /\ RawFresh(rawCache', wallet', "writeThrough", new)
                      /\ EnrichedFresh(openCache', session', "writeThrough", new)
    BY <1>1, <1>5, NowFresh DEF Refresh
  <2>3. Fresh(session', wallet', "writeThrough", new)
    BY <1>1, <1>5, <2>1 DEF Refresh, Locals
  <2>4. QED
    BY <1>5, <2>1, <2>2, <2>3, MoveFresh DEF Refresh
<1>6. QED
  BY <1>2, <1>3, <1>4, <1>5

(* An eviction leaves fresh what it leaves; a lost request is the end of it. *)
LEMMA EnvironmentFresh ==
  ASSUME OneAtATime, IInv, FreshInv, Environment
  PROVE  FreshInv'
<1>1. /\ rawCache \in [Balances -> WalletRow \cup {None}]
      /\ openCache \in [Sessions -> Phase] /\ aborts \in Nat
  BY DEF IInv, TypeOK, DataTypeOK
<1>2. CASE Tick
  BY <1>2 DEF Tick, FreshInv
<1>3. CASE \/ \E b \in Balances : EvictRaw(b)
           \/ \E s \in Sessions : EvictEnriched(s)
  <2>1. UNCHANGED <<session, wallet, aborts, pc, loc>>
    BY <1>3 DEF EvictRaw, EvictEnriched
  <2>2. /\ \A b \in Balances : rawCache'[b] \in {None, rawCache[b]}
        /\ \A s \in Sessions : openCache'[s] \in {"none", openCache[s]}
    BY <1>1, <1>3 DEF EvictRaw, EvictEnriched
  <2>3. QED
    BY <2>1, <2>2 DEF FreshInv, RawFresh, EnrichedFresh
<1>4. CASE \E r \in Requests : Abort(r)
  BY <1>1, <1>4 DEF Abort, FreshInv
<1>5. QED
  BY <1>2, <1>3, <1>4 DEF Environment

(* That snapshots are fresh is an inductive invariant. *)
LEMMA NextFresh ==
  OneAtATime /\ IInv /\ FreshInv /\ [Next]_vars => FreshInv'
<1> SUFFICES ASSUME OneAtATime, IInv, FreshInv, [Next]_vars
             PROVE  FreshInv'
  OBVIOUS
<1>1. ASSUME NEW r \in Requests, Continue(r)
      PROVE  FreshInv'
  BY <1>1, ReadsFresh, ComputesFresh, FillsFresh, WalletStepsFresh, CarriesFresh,
     SyncFresh, SessionFresh
  DEF Continue, ReadCached, StartStep, ChargeStep, SessionStep, WalletStep
<1>2. CASE UNCHANGED vars
  BY <1>2 DEF vars, FreshInv
<1>3. QED
  BY <1>1, <1>2, BeginFresh, EnvironmentFresh DEF Next

(* All snapshots are empty at the beginning. *)
LEMMA InitFresh == Init => FreshInv
BY DEF Init, FreshInv, RawFresh, EnrichedFresh, Fresh

(* Between calls the snapshots in Redis are the rows in PostgreSQL, whatever *)
(* the cache evicts in the meantime, as long as calls neither overlap nor    *)
(* are cut off.                                                              *)
THEOREM SnapshotsAreFresh ==
  ASSUME OneAtATime
  PROVE  Spec => []CachesCoherent
<1>1. Init => FreshInv
  BY InitFresh
<1>2. IInv /\ FreshInv /\ [Next]_vars => FreshInv'
  BY NextFresh
<1>3. FreshInv => CachesCoherent
  BY DEF OneAtATime, FreshInv, RawFresh, EnrichedFresh, CachesCoherent, Quiet
<1>4. QED
  BY <1>1, <1>2, <1>3, Invariance, PTL DEF Spec

-----------------------------------------------------------------------------
(* The stations *)

Leaving == {"refresh", "writeThrough", "release"}

Used(sessions, d) ==
  \E s \in Sessions : sessions[s].phase = "open" /\ sessions[s].dev = d

(* The one request has opened or closed a session of the station and is yet  *)
(* to update its status.                                                     *)
Owes(sessions, step, l, d) ==
  \/ step = "occupy" /\ l.dev = d
  \/ step \in Leaving /\ l.op \in Enders /\ sessions[l.sid].dev = d

(* The status of a station is right unless the one request owes it; and a    *)
(* start past its check has found it available.  Only ends release one.      *)
Right(sessions, devices, step, l) ==
  /\ \A d \in Devices :
       /\ ~Owes(sessions, step, l, d) =>
            (devices[d] = "in_use" <=> Used(sessions, d))
       /\ Owes(sessions, step, l, d) => (step = "occupy" <=> Used(sessions, d))
  /\ Stage(step, l) = "insert" => devices[l.dev] = "available"
  /\ step \in Leaving => l.op \in Enders \/ (l.op = "heartbeat" /\ step # "release")

(* A station has at most one open session. *)
Exclusive(sessions) ==
  \A s, t \in Sessions :
    (/\ sessions[s].phase = "open" /\ sessions[t].phase = "open"
     /\ sessions[s].dev = sessions[t].dev) => s = t

RightInv ==
  aborts = 0 =>
    /\ Exclusive(session)
    /\ \A r \in Requests : Right(session, device, pc[r], loc[r])

(* What the one request knows. *)
LEMMA NowRight ==
  ASSUME RightInv, aborts = 0, NEW r \in Requests
  PROVE  Exclusive(session) /\ Right(session, device, pc[r], loc[r])
BY DEF RightInv

(* The step of the one request. *)
LEMMA MoveRight ==
  ASSUME OneAtATime, IInv, NEW r \in Requests, NEW to, NEW new, Move(r, to, new),
         aborts' = 0 => /\ Exclusive(session')
                        /\ Right(session', device', to, new)
  PROVE  RightInv'
<1>1. /\ pc'[r] = to
      /\ loc'[r] = IF to = "idle" THEN NoLocals ELSE new
      /\ \A q \in Requests : q = r
  BY AloneStep DEF IInv
<1>2. CASE to # "idle"
  BY <1>1, <1>2 DEF RightInv
<1>3. CASE to = "idle"
  BY <1>1, <1>3 DEF RightInv, Right, Owes, Leaving
<1>4. QED
  BY <1>2, <1>3

(* A step of the one request before which and after which it owes nothing.   *)
LEMMA StillRight ==
  ASSUME OneAtATime, IInv, RightInv, NEW r \in Requests, NEW to, NEW new,
         Move(r, to, new), UNCHANGED <<session, device, aborts>>,
         pc[r] # "occupy", pc[r] \in Leaving => loc[r].op \notin Enders,
         to # "occupy", to \in Leaving => to = "refresh" /\ new.op = "heartbeat",
         aborts = 0 /\ Stage(to, new) = "insert" => device[new.dev] = "available"
  PROVE  RightInv'
<1>1. aborts = 0 => Exclusive(session) /\ Right(session, device, to, new)
  BY NowRight DEF Right, Owes
<1>2. QED
  BY <1>1, MoveRight

(* A call that begins. *)
LEMMA BeginRight ==
  ASSUME OneAtATime, IInv, RightInv, NEW r \in Requests, Begin(r)
  PROVE  RightInv'
<1>1. ASSUME NEW call, NEW step, NEW new, Arrive(r, call, step, new),
             step \in {"raw", "activeCheck", "enriched", "recharge", "expire"},
             Stage(step, new) # "insert",
             UNCHANGED <<session, device, aborts>>
      PROVE  RightInv'
  BY <1>1, StillRight DEF Arrive, Move, Leaving
<1>2. ASSUME NEW b \in Balances, NEW d \in Devices, BeginStart(r, b, d)
      PROVE  RightInv'
  BY <1>1, <1>2 DEF BeginStart, NoLocals
<1>3. ASSUME NEW b \in Balances, NEW d \in Devices, BeginStaffStart(r, b, d)
      PROVE  RightInv'
  BY <1>1, <1>3 DEF BeginStaffStart, NoLocals
<1>4. ASSUME NEW s \in Sessions, BeginHeartbeat(r, s)
      PROVE  RightInv'
  BY <1>1, <1>4 DEF BeginHeartbeat, NoLocals
<1>5. ASSUME NEW player \in Players, BeginPoll(r, player)
      PROVE  RightInv'
  BY <1>1, <1>5 DEF BeginPoll, NoLocals
<1>6. ASSUME NEW s \in Sessions, BeginEnd(r, s)
      PROVE  RightInv'
  BY <1>1, <1>6 DEF BeginEnd, NoLocals
<1>7. ASSUME NEW s \in Sessions, BeginStaffEnd(r, s)
      PROVE  RightInv'
  BY <1>1, <1>7 DEF BeginStaffEnd, NoLocals
<1>8. ASSUME NEW b \in Balances, BeginRecharge(r, b)
      PROVE  RightInv'
  BY <1>1, <1>8 DEF BeginRecharge, NoLocals
<1>9. ASSUME NEW b \in Balances, BeginSweep(r, b)
      PROVE  RightInv'
  BY <1>1, <1>9 DEF BeginSweep, NoLocals
<1>10. QED
  BY <1>2, <1>3, <1>4, <1>5, <1>6, <1>7, <1>8, <1>9 DEF Begin

(* Statements that leave sessions and stations alone: start() goes on only   *)
(* with a station that is available.                                         *)
LEMMA AsideRight ==
  ASSUME OneAtATime, IInv, RightInv, NEW r \in Requests,
         \/ ReadCached(r) \/ Admit(r) \/ ActiveCheck(r) \/ Access(r)
         \/ ChargeStep(r) /\ ~RecordUsed(r)
         \/ Project(r) \/ AutoEnd(r) \/ ReplayCheck(r) \/ EndCheck(r) \/ Settle(r)
         \/ WalletStep(r)
  PROVE  RightInv'
<1>1. /\ Carries(session, pc[r], loc[r]) /\ loc[r] \in Locals
      /\ NoLocals \in Locals
  BY Now, NoLocalsType
<1>2. aborts = 0 => Right(session, device, pc[r], loc[r])
  BY NowRight
<1> USE DEF Reply, ShowBalance, Leaving
<1>3. CASE ReadCached(r)
  BY <1>1, <1>2, <1>3, StillRight DEF ReadCached, RawHit, RawMiss, RawFill,
     EnrichedHit, EnrichedMiss, EnrichedFill, Carries, Locals, Right
<1>4. CASE Admit(r)
  BY <1>4, StillRight DEF Admit
<1>5. CASE ActiveCheck(r)
  BY <1>1, <1>5, StillRight DEF ActiveCheck, Locals
<1>6. CASE Access(r)
  BY <1>1, <1>6, StillRight DEF Access, Locals
<1>7. CASE ChargeNothing(r) \/ AppendUsage(r) \/ SyncCache(r)
  BY <1>1, <1>7, StillRight DEF ChargeNothing, AppendUsage, SyncCache, AfterCharge,
     Locals
<1>8. CASE ChargeDelta(r) \/ Settle(r)
  BY <1>8, StillRight DEF ChargeDelta, Settle, Take
<1>9. CASE Project(r) \/ AutoEnd(r)
  BY <1>1, <1>9, StillRight DEF Project, AutoEnd, Locals
<1>10. CASE ReplayCheck(r) \/ EndCheck(r)
  BY <1>1, <1>10, StillRight DEF ReplayCheck, EndCheck, Locals
<1>11. CASE WalletStep(r)
  BY <1>11, StillRight DEF WalletStep, Recharge, AppendTopup, Expire, Reread
<1>12. QED
  BY <1>3, <1>4, <1>5, <1>6, <1>7, <1>8, <1>9, <1>10, <1>11 DEF ChargeStep

(* start() inserts a session on a station that had none, and marks it.       *)
LEMMA StartRight ==
  ASSUME OneAtATime, IInv, RightInv, NEW r \in Requests, Insert(r) \/ Occupy(r)
  PROVE  RightInv'
<1>1. /\ session \in [Sessions -> SessionRow] /\ loc[r] \in Locals
      /\ device \in [Devices -> {"available", "in_use"}]
      /\ NoLocals \in Locals /\ Carries(session, pc[r], loc[r])
  BY Now, NoLocalsType DEF DataTypeOK
<1>2. CASE Insert(r)
  <2>1. PICK d, new : /\ d \in Devices /\ d = loc[r].dev
                      /\ new = [NoLocals EXCEPT !.op = "start", !.dev = d]
    BY <1>1, <1>2 DEF Insert, Carries
  <2>2. PICK s \in Sessions :
          /\ session[s].phase = "none"
          /\ session'[s].phase = "open" /\ session'[s].dev = d
          /\ \A t \in Sessions : t # s => session'[t] = session[t]
    BY <1>1, <1>2, <2>1 DEF Insert
  <2>3. aborts = 0 => ~Used(session, d)
    BY <1>2, <2>1, NowRight DEF Insert, Right, Owes, Leaving
  <2>4. aborts = 0 => Exclusive(session')
    BY <2>2, <2>3, NowRight DEF Exclusive, Used
  <2>5. ASSUME NEW e \in Devices
        PROVE  Used(session', e) <=> Used(session, e) \/ e = d
    BY <2>2 DEF Used
  <2>6. ASSUME NEW e \in Devices
        PROVE  Owes(session', "occupy", new, e) <=> e = d
    BY <1>1, <2>1 DEF Owes, Leaving, Locals
  <2>7. ASSUME NEW e \in Devices, aborts = 0
        PROVE  device[e] = "in_use" <=> Used(session, e)
    BY <1>2, <2>7, NowRight DEF Insert, Right, Owes, Leaving
  <2>8. aborts = 0 => Right(session', device, "occupy", new)
    BY <2>5, <2>6, <2>7 DEF Right, Leaving
  <2>9. Move(r, "occupy", new) /\ UNCHANGED <<device, aborts>>
    BY <1>2, <2>1 DEF Insert
  <2>10. QED
    BY <2>4, <2>8, <2>9, MoveRight
<1>3. CASE Occupy(r)
  <2>1. \A d \in Devices :
          device'[d] = IF d = loc[r].dev THEN "in_use" ELSE device[d]
    BY <1>1, <1>3 DEF Occupy
  <2>2. aborts = 0 => Right(session, device', "idle", loc[r])
    BY <1>3, <2>1, NowRight DEF Occupy, Right, Owes, Leaving
  <2>3. Move(r, "idle", loc[r]) /\ UNCHANGED <<session, aborts>>
    BY <1>3 DEF Occupy, Reply
  <2>4. QED
    BY <2>2, <2>3, NowRight, MoveRight
<1>4. QED
  BY <1>2, <1>3

(* The end of a session leaves its station without one, and frees it.        *)
LEMMA EndRight ==
  ASSUME OneAtATime, IInv, RightInv, NEW r \in Requests,
         RecordUsed(r) \/ Close(r) \/ Refresh(r) \/ WriteThrough(r) \/ Release(r)
  PROVE  RightInv'
<1>1. /\ session \in [Sessions -> SessionRow] /\ loc[r] \in Locals
      /\ device \in [Devices -> {"available", "in_use"}]
      /\ NoLocals \in Locals /\ Carries(session, pc[r], loc[r])
      /\ loc[r].sid \in Sessions
  BY Now, NoLocalsType
  DEF DataTypeOK, RecordUsed, Close, Refresh, WriteThrough, Release, Carries
<1>2. CASE RecordUsed(r)
  <2>1. \A s \in Sessions : /\ session'[s].phase = session[s].phase
                            /\ session'[s].dev = session[s].dev
    BY <1>1, <1>2 DEF RecordUsed, SessionRow
  <2>2. PICK to : /\ Move(r, to, loc[r])
                  /\ to \in {"idle", "refresh", "close"}
                  /\ to = "refresh" => loc[r].op = "heartbeat"
    BY <1>2 DEF RecordUsed, AfterCharge, Reply
  <2>3. \A d \in Devices : Used(session', d) <=> Used(session, d)
    BY <2>1 DEF Used
  <2>4. aborts = 0 => Exclusive(session') /\ Right(session', device, to, loc[r])
    BY <1>2, <2>1, <2>2, <2>3, NowRight
    DEF RecordUsed, Right, Owes, Leaving, Exclusive
  <2>5. QED
    BY <1>2, <2>2, <2>4, MoveRight DEF RecordUsed
<1>3. CASE Close(r)
  <2>1. CASE UNCHANGED session
    <3>1. CASE Reply(r)
      BY <1>3, <2>1, <3>1, StillRight DEF Close, Reply, Leaving
    <3>2. CASE ~Reply(r)
      <4>1. /\ session[loc[r].sid].phase = "open"
            /\ session' = [session EXCEPT ![loc[r].sid].phase = "ended",
                                          ![loc[r].sid].end = loc[r].at,
                                          ![loc[r].sid].used = loc[r].total]
        BY <1>3, <3>2 DEF Close, Open
      <4>2. session'[loc[r].sid].phase = "ended"
        BY <1>1, <4>1 DEF SessionRow
      <4>3. QED
        BY <2>1, <4>1, <4>2
    <3>3. QED
      BY <3>1, <3>2
  <2>2. CASE ~UNCHANGED session
    <3>1. /\ session[loc[r].sid].phase = "open"
          /\ session'[loc[r].sid].phase = "ended"
          /\ session'[loc[r].sid].dev = session[loc[r].sid].dev
          /\ \A t \in Sessions : t # loc[r].sid => session'[t] = session[t]
      BY <1>1, <1>3, <2>2 DEF Close, Open, SessionRow
    <3>2. aborts = 0 => Exclusive(session')
      BY <1>1, <3>1, NowRight DEF Exclusive
    <3>3. ASSUME NEW d \in Devices, aborts = 0
          PROVE  Used(session', d) <=> Used(session, d) /\ session[loc[r].sid].dev # d
      <4>1. Exclusive(session)
        BY <3>3, NowRight
      <4>2. QED
        BY <1>1, <3>1, <4>1 DEF Used, Exclusive
    <3>4. Move(r, "refresh", loc[r]) /\ UNCHANGED <<device, aborts>>
      BY <1>3, <2>2 DEF Close
    <3>5. loc[r].op \in Enders
      BY <1>1, <1>3 DEF Close, Carries
    <3>6. ASSUME NEW d \in Devices, aborts = 0
          PROVE  device[d] = "in_use" <=> Used(session, d)
      BY <1>3, <3>6, NowRight DEF Close, Right, Owes, Leaving
    <3>7. \A d : Owes(session', "refresh", loc[r], d) <=> session[loc[r].sid].dev = d
      BY <3>1, <3>5 DEF Owes, Leaving
    <3>8. aborts = 0 => Right(session', device, "refresh", loc[r])
      BY <3>3, <3>5, <3>6, <3>7 DEF Right
    <3>9. QED
      BY <3>2, <3>4, <3>8, MoveRight
  <2>3. QED
    BY <2>1, <2>2
<1>4. CASE Refresh(r)
  <2>1. PICK new : /\ Move(r, "writeThrough", new)
                   /\ new = [loc[r] EXCEPT !.snap = session[loc[r].sid].phase]
    BY <1>4 DEF Refresh
  <2>2. new.op = loc[r].op /\ new.sid = loc[r].sid
    BY <1>1, <2>1 DEF Locals
  <2>3. aborts = 0 => Right(session, device, "writeThrough", new)
    BY <1>4, <2>2, NowRight DEF Refresh, Right, Owes, Leaving
  <2>4. QED
    BY <1>4, <2>1, <2>3, NowRight, MoveRight DEF Refresh
<1>5. CASE WriteThrough(r)
  <2>1. PICK to : /\ Move(r, to, loc[r])
                  /\ \/ to = "release" /\ loc[r].op # "heartbeat"
                     \/ to \in {"autoEnd", "idle"} /\ loc[r].op \notin Enders
    BY <1>5 DEF WriteThrough, Reply
  <2>2. aborts = 0 => Right(session, device, to, loc[r])
    BY <1>5, <2>1, NowRight DEF WriteThrough, Right, Owes, Leaving
  <2>3. QED
    BY <1>5, <2>1, <2>2, NowRight, MoveRight DEF WriteThrough
<1>6. CASE Release(r)
  <2>1. PICK to, new : /\ Move(r, to, new) /\ to \in {"raw", "idle"}
                       /\ Stage(to, new) = "idle"
    <3>1. CASE ShowBalance(r)
      <4>1. PICK new : /\ new = [NoLocals EXCEPT !.op = "end", !.next = "idle",
                                       !.bal = session[loc[r].sid].bal]
                       /\ Move(r, "raw", new)
        BY <3>1 DEF ShowBalance
      <4>2. new.next = "idle"
        BY <1>1, <4>1 DEF Locals
      <4>3. QED
        BY <4>1, <4>2
    <3>2. CASE Reply(r)
      BY <3>2 DEF Reply
    <3>3. QED
      BY <1>6, <3>1, <3>2 DEF Release
  <2>2. \A d \in Devices :
          device'[d] = IF d = session[loc[r].sid].dev THEN "available" ELSE device[d]
    BY <1>1, <1>6 DEF Release
  <2>3. aborts = 0 => Right(session, device', to, new)
    BY <1>6, <2>1, <2>2, NowRight DEF Release, Right, Owes, Leaving
  <2>4. QED
    BY <1>6, <2>1, <2>3, NowRight, MoveRight DEF Release
<1>7. QED
  BY <1>2, <1>3, <1>4, <1>5, <1>6

(* That stations are right is an inductive invariant. *)
LEMMA NextRight ==
  OneAtATime /\ IInv /\ RightInv /\ [Next]_vars => RightInv'
<1> SUFFICES ASSUME OneAtATime, IInv, RightInv, [Next]_vars
             PROVE  RightInv'
  OBVIOUS
<1>1. ASSUME NEW r \in Requests, Continue(r)
      PROVE  RightInv'
  BY <1>1, AsideRight, StartRight, EndRight
  DEF Continue, StartStep, ChargeStep, SessionStep
<1>2. CASE Environment
  <2>1. ASSUME NEW r \in Requests, Abort(r)
        PROVE  RightInv'
    <3>1. aborts' # 0
      BY <2>1 DEF Abort, IInv, TypeOK, DataTypeOK
    <3>2. QED
      BY <3>1 DEF RightInv
  <2>2. CASE \/ Tick \/ \E b \in Balances : EvictRaw(b)
             \/ \E s \in Sessions : EvictEnriched(s)
    BY <2>2 DEF Tick, EvictRaw, EvictEnriched, RightInv
  <2>3. QED
    BY <1>2, <2>1, <2>2 DEF Environment
<1>3. CASE UNCHANGED vars
  BY <1>3 DEF vars, RightInv
<1>4. QED
  BY <1>1, <1>2, <1>3, BeginRight DEF Next

(* No session is open and no station in use at the beginning. *)
LEMMA InitRight == Init => RightInv
BY DEF Init, RightInv, Right, Owes, Leaving, Used, Exclusive, NoSession

(* Between calls a station is in use exactly when a session is open on it,   *)
(* for any number of stations and sessions, as long as calls neither overlap *)
(* nor are cut off.                                                          *)
THEOREM StationsAgree ==
  ASSUME OneAtATime
  PROVE  Spec => []DeviceAgrees
<1>1. Init => RightInv
  BY InitRight
<1>2. IInv /\ RightInv /\ [Next]_vars => RightInv'
  BY NextRight
<1>3. RightInv => DeviceAgrees
  BY DEF OneAtATime, RightInv, Right, Owes, Leaving, Used, Open, DeviceAgrees, Quiet
<1>4. QED
  BY <1>1, <1>2, <1>3, Invariance, PTL DEF Spec

-----------------------------------------------------------------------------
(* The rates *)

(* the statements before which the balance a request carries is stored or    *)
(* charged by                                                                *)
Quoting == {"rawFill", "charge", "credit", "sync"}

(* Every balance, every snapshot of one and every copy a request carries is  *)
(* charged at a rate of the plans; this needs no turns.                      *)
RateInv ==
  /\ \A b \in Balances : wallet[b].rate \in Rates
  /\ \A b \in Balances : rawCache[b] # None => rawCache[b].rate \in Rates
  /\ \A r \in Requests : pc[r] \in Quoting => loc[r].row.rate \in Rates

(* The step of a request. *)
LEMMA MoveRate ==
  ASSUME IInv, RateInv, NEW r \in Requests, NEW to, NEW new, Move(r, to, new),
         to \in Quoting => new.row.rate \in Rates,
         \A b \in Balances : wallet'[b].rate \in Rates,
         \A b \in Balances : rawCache'[b] # None => rawCache'[b].rate \in Rates
  PROVE  RateInv'
BY DEF IInv, TypeOK, Move, RateInv, Quoting

(* The step of a request that leaves wallets and snapshots alone. *)
LEMMA StillRate ==
  ASSUME IInv, RateInv, NEW r \in Requests, NEW to, NEW new, Move(r, to, new),
         UNCHANGED <<wallet, rawCache>>,
         to \in Quoting => new.row.rate \in Rates
  PROVE  RateInv'
BY MoveRate DEF RateInv

(* A call that begins carries no balance. *)
LEMMA BeginRate ==
  ASSUME IInv, RateInv, NEW r \in Requests, Begin(r)
  PROVE  RateInv'
<1>1. ASSUME NEW call, NEW step, NEW new, Arrive(r, call, step, new),
             step \in {"raw", "activeCheck", "enriched", "recharge", "expire"},
             UNCHANGED wallet,
             \A b \in Balances : rawCache'[b] \in {None, rawCache[b]}
      PROVE  RateInv'
  BY <1>1, MoveRate DEF Arrive, Move, RateInv, Quoting
<1>2. rawCache \in [Balances -> WalletRow \cup {None}]
  BY DEF IInv, TypeOK, DataTypeOK
<1>3. ASSUME NEW b \in Balances, NEW d \in Devices, BeginStart(r, b, d)
      PROVE  RateInv'
  BY <1>1, <1>3 DEF BeginStart
<1>4. ASSUME NEW b \in Balances, NEW d \in Devices, BeginStaffStart(r, b, d)
      PROVE  RateInv'
  BY <1>1, <1>4 DEF BeginStaffStart
<1>5. ASSUME NEW s \in Sessions, BeginHeartbeat(r, s)
      PROVE  RateInv'
  BY <1>1, <1>5 DEF BeginHeartbeat
<1>6. ASSUME NEW player \in Players, BeginPoll(r, player)
      PROVE  RateInv'
  BY <1>1, <1>6 DEF BeginPoll
<1>7. ASSUME NEW s \in Sessions, BeginEnd(r, s)
      PROVE  RateInv'
  BY <1>1, <1>7 DEF BeginEnd
<1>8. ASSUME NEW s \in Sessions, BeginStaffEnd(r, s)
      PROVE  RateInv'
  BY <1>1, <1>8 DEF BeginStaffEnd
<1>9. ASSUME NEW b \in Balances, BeginRecharge(r, b)
      PROVE  RateInv'
  BY <1>1, <1>2, <1>9 DEF BeginRecharge
<1>10. ASSUME NEW b \in Balances, BeginSweep(r, b)
      PROVE  RateInv'
  BY <1>1, <1>10 DEF BeginSweep
<1>11. QED
  BY <1>3, <1>4, <1>5, <1>6, <1>7, <1>8, <1>9, <1>10 DEF Begin

(* A read hands over the rate it finds, a write stores the one it carries.   *)
LEMMA ReadsRate ==
  ASSUME IInv, RateInv, NEW r \in Requests, ReadCached(r) \/ SyncCache(r)
  PROVE  RateInv'
<1>1. /\ Carries(session, pc[r], loc[r]) /\ loc[r] \in Locals
      /\ rawCache \in [Balances -> WalletRow \cup {None}]
  BY Now DEF DataTypeOK
<1> USE DEF Quoting
<1>2. CASE RawHit(r)
  <2>1. loc[r].bal \in Balances /\ loc[r].next \in Steps
    BY <1>1, <1>2 DEF RawHit, Carries, Locals
  <2>2. rawCache[loc[r].bal].rate \in Rates
    BY <1>2, <2>1 DEF RawHit, RateInv
  <2>3. QED
    BY <1>1, <1>2, <2>2, StillRate DEF RawHit, Locals
<1>3. CASE RawMiss(r)
  <2>1. wallet[loc[r].bal].rate \in Rates
    BY <1>1, <1>3 DEF RawMiss, Carries, RateInv
  <2>2. QED
    BY <1>1, <1>3, <2>1, StillRate DEF RawMiss, Locals
<1>4. CASE RawFill(r) \/ SyncCache(r)
  <2>1. loc[r].row.rate \in Rates
    BY <1>4 DEF RawFill, SyncCache, RateInv
  <2>2. \A b \in Balances : rawCache'[b] \in {loc[r].row, rawCache[b]}
    BY <1>1, <1>4 DEF RawFill, SyncCache
  <2>3. PICK to : Move(r, to, loc[r])
    BY <1>4 DEF RawFill, SyncCache, Reply
  <2>4. UNCHANGED wallet
    BY <1>4 DEF RawFill, SyncCache
  <2>5. QED
    BY <2>1, <2>2, <2>3, <2>4, MoveRate DEF RateInv
<1>5. CASE EnrichedHit(r) \/ EnrichedMiss(r) \/ EnrichedFill(r)
  BY <1>1, <1>5, StillRate DEF EnrichedHit, EnrichedMiss, EnrichedFill, Carries
<1>6. QED
  BY <1>2, <1>3, <1>4, <1>5 DEF ReadCached

(* A deduction leaves the rate, a recharge replaces it by that of a plan.    *)
LEMMA WalletStepsRate ==
  ASSUME IInv, RateInv, NEW r \in Requests,
         ChargeDelta(r) \/ Settle(r) \/ Recharge(r) \/ Expire(r) \/ Reread(r)
         \/ AppendTopup(r)
  PROVE  RateInv'
<1>1. /\ loc[r] \in Locals /\ loc[r].bal \in Balances
      /\ wallet \in [Balances -> WalletRow]
  BY Now DEF Carries, ChargeDelta, Settle, Recharge, Expire, Reread, AppendTopup,
     DataTypeOK
<1>2. ASSUME NEW minutes, NEW total, Take(r, minutes, total)
      PROVE  RateInv'
  <2>1. PICK row : row = Deducted(wallet[loc[r].bal], minutes)
    OBVIOUS
  <2>2. row.rate \in Rates
    BY <1>1, <2>1 DEF Deducted, WalletRow, RateInv
  <2>3. PICK new : new = [loc[r] EXCEPT !.row = row, !.minutes = minutes,
                                        !.total = total]
    OBVIOUS
  <2>4. new.row = row
    BY <1>1, <2>3 DEF Locals
  <2>5. \A b \in Balances : wallet'[b].rate \in Rates
    BY <1>1, <1>2, <2>1, <2>2 DEF Take, RateInv
  <2>6. Move(r, "sync", new) /\ UNCHANGED rawCache
    BY <1>2, <2>1, <2>3 DEF Take
  <2>7. QED
    BY <2>2, <2>4, <2>5, <2>6, MoveRate DEF RateInv
<1>3. CASE ChargeDelta(r)
  BY <1>2, <1>3 DEF ChargeDelta
<1>4. CASE Settle(r)
  BY <1>2, <1>4, StillRate DEF Settle, Quoting
<1>5. CASE Recharge(r)
  <2>1. PICK kept, rate, row :
          /\ rate \in Rates
          /\ row = [rem |-> kept, status |-> "active", expiry |-> loc[r].at,
                    rate |-> rate]
          /\ wallet' = [wallet EXCEPT ![loc[r].bal] = row]
          /\ Move(r, "credit", [loc[r] EXCEPT !.row = row, !.minutes = Credits])
    BY <1>5 DEF Recharge
  <2>2. PICK new : new = [loc[r] EXCEPT !.row = row, !.minutes = Credits]
    OBVIOUS
  <2>3. new.row = row /\ row.rate \in Rates
    BY <1>1, <2>1, <2>2 DEF Locals
  <2>4. UNCHANGED rawCache
    BY <1>5 DEF Recharge
  <2>5. \A b \in Balances : wallet'[b].rate \in Rates
    BY <1>1, <2>1, <2>3 DEF RateInv
  <2>6. QED
    BY <2>1, <2>2, <2>3, <2>4, <2>5, MoveRate DEF RateInv
<1>6. CASE Expire(r)
  <2>1. \A b \in Balances : wallet'[b].rate \in Rates
    BY <1>1, <1>6 DEF Expire, RateInv, WalletRow
  <2>2. QED
    BY <1>6, <2>1, MoveRate DEF Expire, RateInv, Quoting
<1>7. CASE Reread(r)
  BY <1>1, <1>7, StillRate DEF Reread, RateInv, Locals
<1>8. CASE AppendTopup(r)
  BY <1>8, StillRate DEF AppendTopup, RateInv, Quoting
<1>9. QED
  BY <1>3, <1>4, <1>5, <1>6, <1>7, <1>8

(* Statements that neither store nor charge by a balance. *)
LEMMA AsideRate ==
  ASSUME IInv, RateInv, NEW r \in Requests,
         \/ StartStep(r) \/ ChargeNothing(r) \/ AppendUsage(r) \/ RecordUsed(r)
         \/ SessionStep(r) /\ ~Settle(r)
  PROVE  RateInv'
<1> USE DEF Reply, ShowBalance, Quoting
<1>1. CASE StartStep(r)
  BY <1>1, StillRate DEF StartStep, Admit, ActiveCheck, Access, Insert, Occupy
<1>2. CASE ChargeNothing(r) \/ AppendUsage(r) \/ RecordUsed(r)
  BY <1>2, StillRate DEF ChargeNothing, AppendUsage, RecordUsed, AfterCharge
<1>3. CASE Refresh(r) \/ WriteThrough(r) \/ Project(r) \/ AutoEnd(r)
  BY <1>3, StillRate DEF Refresh, WriteThrough, Project, AutoEnd
<1>4. CASE ReplayCheck(r) \/ EndCheck(r) \/ Close(r) \/ Release(r)
  BY <1>4, StillRate DEF ReplayCheck, EndCheck, Close, Release
<1>5. QED
  BY <1>1, <1>2, <1>3, <1>4 DEF SessionStep

(* That the rates are those of the plans is an inductive invariant. *)
LEMMA NextRate == IInv /\ RateInv /\ [Next]_vars => RateInv'
<1> SUFFICES ASSUME IInv, RateInv, [Next]_vars PROVE RateInv'
  OBVIOUS
<1>1. ASSUME NEW r \in Requests, Continue(r)
      PROVE  RateInv'
  BY <1>1, ReadsRate, WalletStepsRate, AsideRate
  DEF Continue, ChargeStep, SessionStep, WalletStep
<1>2. CASE Environment
  <2>1. CASE Tick \/ \E s \in Sessions : EvictEnriched(s)
    BY <2>1 DEF Tick, EvictEnriched, RateInv
  <2>2. CASE \E b \in Balances : EvictRaw(b)
    BY <2>2 DEF EvictRaw, RateInv, IInv, TypeOK, DataTypeOK
  <2>3. CASE \E r \in Requests : Abort(r)
    BY <2>3, StillRate DEF Abort, Reply, Quoting
  <2>4. QED
    BY <1>2, <2>1, <2>2, <2>3 DEF Environment
<1>3. CASE UNCHANGED vars
  BY <1>3 DEF vars, RateInv
<1>4. QED
  BY <1>1, <1>2, <1>3, BeginRate DEF Next

(* Wallets begin with the rate of a plan. *)
LEMMA InitRate == Init => RateInv
BY DEF Init, RateInv, Quoting

-----------------------------------------------------------------------------
(* What a session is billed *)

(* With one rate for all plans (a recharge may otherwise change the rate of  *)
(* an open session) and no client that sends its own total.                  *)
OneRate == \E n : Rates = {n}

NoClientTotals == "reconcile" \notin Calls

TheRate == CHOOSE n : n \in Rates

(* What a session costs that is played until then. *)
Fee(row, until) == TheRate * NonNeg(until - row.start)

(* what a session has been charged is what it owes *)
Exact(row, charge, now) ==
  /\ row.used = charge
  /\ row.phase = "none" => charge = 0
  /\ row.phase = "open" => charge <= Fee(row, now)
  /\ row.phase = "ended" => charge = Fee(row, row.end)

(* between the deduction of minutes and the UPDATE that records them *)
Recording(step, l) ==
  \/ step \in {"ledger", "record", "close"}
  \/ step = "sync" /\ l.op \in Enders \cup {"heartbeat"}

(* What the one request knows of the session it works on, and the others:    *)
(*   - an end that has fixed its time has not been charged beyond it;        *)
(*   - what it has read as recorded is what was charged;                     *)
(*   - what it is about to record is what was charged, and what is owed.     *)
Bills(sessions, charges, now, step, l) ==
  /\ l.op # "reconcile"
  /\ (/\ Stage(step, l) \in {"replayCheck", "endCheck"}
      /\ l.at # None /\ sessions[l.sid].phase = "open")
        => charges[l.sid] <= Fee(sessions[l.sid], l.at)
  /\ Stage(step, l) = "charge" =>
       /\ sessions[l.sid].phase = "open"
       /\ l.seen = charges[l.sid]
       /\ l.op \in Enders => charges[l.sid] <= Fee(sessions[l.sid], l.at)
  /\ Recording(step, l) =>
       /\ sessions[l.sid].phase = "open"
       /\ l.total = charges[l.sid]
       /\ l.op \in Enders => charges[l.sid] = Fee(sessions[l.sid], l.at)
       /\ l.op = "heartbeat" => charges[l.sid] <= Fee(sessions[l.sid], now)
  /\ \A s \in Sessions :
       \/ Exact(sessions[s], charges[s], now)
       \/ Recording(step, l) /\ l.sid = s

BillInv ==
  aborts = 0 =>
    \A r \in Requests : Bills(session, debited, clock, pc[r], loc[r])

(* A longer session costs no less. *)
LEMMA FeeGrows ==
  ASSUME OneRate, NEW row \in SessionRow, NEW m \in Nat, NEW n \in Nat, m <= n
  PROVE  Fee(row, m) \in Nat /\ Fee(row, n) \in Nat /\ Fee(row, m) <= Fee(row, n)
<1>1. TheRate \in Nat
  BY NumberAssumption DEF OneRate, TheRate
<1>2. /\ NonNeg(m - row.start) \in Nat /\ NonNeg(n - row.start) \in Nat
      /\ NonNeg(m - row.start) <= NonNeg(n - row.start)
  BY DEF NonNeg, SessionRow
<1>3. ASSUME NEW i \in Nat, NEW j \in Nat, i <= j
      PROVE  TheRate * i \in Nat /\ TheRate * j \in Nat /\ TheRate * i <= TheRate * j
  <2>1. PICK k \in Nat : j = i + k
    <3>1. j - i \in Nat /\ j = i + (j - i)
      BY <1>3
    <3>2. QED
      BY <3>1
  <2>2. TheRate * j = TheRate * i + TheRate * k
    BY <1>1, <1>3, <2>1
  <2>3. TheRate * i \in Nat /\ TheRate * k \in Nat
    BY <1>1, <1>3, <2>1
  <2>4. QED
    BY <2>2, <2>3
<1>4. QED
  BY <1>2, <1>3 DEF Fee

(* A balance charges by the one rate. *)
LEMMA ConsumptionIsFee ==
  ASSUME OneRate, NEW balance, balance.rate \in Rates, NEW row, NEW until
  PROVE  Consumption(balance, row.start, until) = Fee(row, until)
<1>1. balance.rate = TheRate
  BY DEF OneRate, TheRate
<1>2. QED
  BY <1>1 DEF Consumption, Fee

(* What the one request knows. *)
LEMMA NowBills ==
  ASSUME BillInv, aborts = 0, NEW r \in Requests
  PROVE  Bills(session, debited, clock, pc[r], loc[r])
BY DEF BillInv

(* Where it records nothing, all sessions have been charged what they owe.   *)
LEMMA NowExact ==
  ASSUME BillInv, aborts = 0, NEW r \in Requests, ~Recording(pc[r], loc[r]),
         NEW s \in Sessions
  PROVE  Exact(session[s], debited[s], clock)
BY DEF BillInv, Bills

(* The step of the one request. *)
LEMMA MoveBills ==
  ASSUME OneAtATime, IInv, NEW r \in Requests, NEW to, NEW new, Move(r, to, new),
         aborts' = 0 => Bills(session', debited', clock', to, new)
  PROVE  BillInv'
<1>1. /\ pc'[r] = to
      /\ loc'[r] = IF to = "idle" THEN NoLocals ELSE new
      /\ \A q \in Requests : q = r
  BY AloneStep DEF IInv
<1>2. CASE to # "idle"
  BY <1>1, <1>2 DEF BillInv
<1>3. CASE to = "idle"
  <2>1. NoLocals.op = "none"
    BY DEF NoLocals
  <2>2. aborts' = 0 => Bills(session', debited', clock', "idle", NoLocals)
    BY <1>3, <2>1 DEF Bills, Recording
  <2>3. QED
    BY <1>1, <1>3, <2>2 DEF BillInv
<1>4. QED
  BY <1>2, <1>3

(* A step of the one request that neither charges nor records. *)
LEMMA StillBills ==
  ASSUME OneAtATime, IInv, BillInv, NEW r \in Requests, NEW to, NEW new,
         Move(r, to, new), UNCHANGED <<session, debited, clock, aborts>>,
         ~Recording(pc[r], loc[r]), ~Recording(to, new),
         aborts = 0 =>
           /\ new.op # "reconcile"
           /\ (/\ Stage(to, new) \in {"replayCheck", "endCheck"}
               /\ new.at # None /\ session[new.sid].phase = "open")
                 => debited[new.sid] <= Fee(session[new.sid], new.at)
           /\ Stage(to, new) = "charge" =>
                /\ session[new.sid].phase = "open"
                /\ new.seen = debited[new.sid]
                /\ new.op \in Enders =>
                     debited[new.sid] <= Fee(session[new.sid], new.at)
  PROVE  BillInv'
<1>1. aborts = 0 => \A s \in Sessions : Exact(session[s], debited[s], clock)
  BY NowExact
<1>2. aborts = 0 => Bills(session, debited, clock, to, new)
  BY <1>1 DEF Bills
<1>3. QED
  BY <1>2, MoveBills

(* A call that begins: a heartbeat reads what was charged as recorded. *)
LEMMA BeginBills ==
  ASSUME OneAtATime, NoClientTotals, IInv, BillInv, NEW r \in Requests, Begin(r)
  PROVE  BillInv'
<1>1. ASSUME NEW call, NEW step, NEW new, Arrive(r, call, step, new),
             step \in {"raw", "activeCheck", "enriched", "recharge", "expire"},
             step = "raw" => new.next \in {"admit", "idle", "project"},
             step = "enriched" =>
               new.next \in {"replayCheck", "endCheck"} /\ new.at = None,
             new.op # "reconcile",
             UNCHANGED <<session, debited, clock, aborts>>
      PROVE  BillInv'
  <2>1. Move(r, step, new) /\ pc[r] = "idle"
    BY <1>1 DEF Arrive, Move
  <2>2. ~Recording(pc[r], loc[r]) /\ ~Recording(step, new)
    BY <1>1, <2>1 DEF Recording
  <2>3. QED
    BY <1>1, <2>1, <2>2, StillBills
<1>2. ASSUME NEW b \in Balances, NEW d \in Devices, BeginStart(r, b, d)
      PROVE  BillInv'
  <2>1. PICK c, next, new : /\ new = [NoLocals EXCEPT !.op = "start", !.bal = c,
                                       !.dev = d, !.next = next]
                            /\ Arrive(r, "start", "raw", new)
                            /\ next \in {"admit", "idle"}
    <3>1. CASE Arrive(r, "start", "raw", [NoLocals EXCEPT !.op = "start", !.bal = b,
                                           !.dev = d, !.next = "admit"])
      BY <3>1
    <3>2. ASSUME NEW s \in Sessions,
                 Arrive(r, "start", "raw", [NoLocals EXCEPT !.op = "start",
                          !.bal = session[s].bal, !.dev = d, !.next = "idle"])
          PROVE  \E c, next, new : /\ new = [NoLocals EXCEPT !.op = "start", !.bal = c,
                                          !.dev = d, !.next = next]
                               /\ Arrive(r, "start", "raw", new)
                               /\ next \in {"admit", "idle"}
      BY <3>2
    <3>3. QED
      BY <1>2, <3>1, <3>2 DEF BeginStart, LatestOf, OpenOf
  <2>2. new.op = "start" /\ new.next \in {"admit", "idle"}
    BY <2>1 DEF NoLocals
  <2>3. UNCHANGED <<session, debited, clock, aborts>>
    BY <1>2 DEF BeginStart
  <2>4. QED
    BY <1>1, <2>1, <2>2, <2>3
<1>3. ASSUME NEW b \in Balances, NEW d \in Devices, BeginStaffStart(r, b, d)
      PROVE  BillInv'
  <2>1. PICK new : /\ new = [NoLocals EXCEPT !.op = "start", !.bal = b, !.dev = d]
                   /\ Arrive(r, "staffStart", "activeCheck", new)
    BY <1>3 DEF BeginStaffStart
  <2>2. new.op = "start"
    BY <2>1 DEF NoLocals
  <2>3. UNCHANGED <<session, debited, clock, aborts>>
    BY <1>3 DEF BeginStaffStart
  <2>4. QED
    BY <1>1, <2>1, <2>2, <2>3
<1>4. ASSUME NEW s \in Sessions, BeginHeartbeat(r, s)
      PROVE  BillInv'
  <2>1. PICK new : /\ new = [NoLocals EXCEPT !.op = "heartbeat", !.sid = s,
                               !.bal = session[s].bal,
                               !.seen = session[s].used, !.next = "charge"]
                   /\ Arrive(r, "heartbeat", "raw", new)
    BY <1>4 DEF BeginHeartbeat
  <2>2. /\ new.op = "heartbeat" /\ new.sid = s /\ new.seen = session[s].used
        /\ new.next = "charge"
    BY <2>1 DEF NoLocals
  <2>3. Move(r, "raw", new) /\ pc[r] = "idle"
    BY <2>1 DEF Arrive, Move
  <2>4. ~Recording(pc[r], loc[r]) /\ ~Recording("raw", new)
    BY <2>3 DEF Recording
  <2>5. aborts = 0 => session[s].phase = "open" /\ new.seen = debited[s]
    BY <1>4, <2>2, <2>4, NowExact DEF BeginHeartbeat, Open, Exact
  <2>6. UNCHANGED <<session, debited, clock, aborts>>
    BY <1>4 DEF BeginHeartbeat
  <2>7. QED
    BY <2>2, <2>3, <2>4, <2>5, <2>6, StillBills
<1>5. ASSUME NEW player \in Players, BeginPoll(r, player)
      PROVE  BillInv'
  <2>1. PICK s, new : /\ new = [NoLocals EXCEPT !.op = "poll", !.sid = s,
                                 !.bal = session[s].bal,
                                 !.seen = session[s].used, !.next = "project"]
                      /\ Arrive(r, "poll", "raw", new)
    BY <1>5 DEF BeginPoll
  <2>2. new.op = "poll" /\ new.next = "project"
    BY <2>1 DEF NoLocals
  <2>3. UNCHANGED <<session, debited, clock, aborts>>
    BY <1>5 DEF BeginPoll
  <2>4. QED
    BY <1>1, <2>1, <2>2, <2>3
<1>6. ASSUME NEW s \in Sessions, BeginEnd(r, s)
      PROVE  BillInv'
  <2>1. PICK new : /\ new = [NoLocals EXCEPT !.op = "end", !.sid = s, !.next = "replayCheck"]
                   /\ Arrive(r, "end", "enriched", new)
    BY <1>6 DEF BeginEnd
  <2>2. new.op = "end" /\ new.at = None /\ new.next = "replayCheck"
    BY <2>1 DEF NoLocals
  <2>3. UNCHANGED <<session, debited, clock, aborts>>
    BY <1>6 DEF BeginEnd
  <2>4. QED
    BY <1>1, <2>1, <2>2, <2>3
<1>7. ASSUME NEW s \in Sessions, BeginStaffEnd(r, s)
      PROVE  BillInv'
  <2>1. PICK new : /\ new = [NoLocals EXCEPT !.op = "staffEnd", !.sid = s,
                                              !.next = "endCheck"]
                   /\ Arrive(r, "staffEnd", "enriched", new)
    BY <1>7 DEF BeginStaffEnd, Arrive, NoClientTotals
  <2>2. new.op = "staffEnd" /\ new.at = None /\ new.next = "endCheck"
    BY <2>1 DEF NoLocals
  <2>3. UNCHANGED <<session, debited, clock, aborts>>
    BY <1>7 DEF BeginStaffEnd
  <2>4. QED
    BY <1>1, <2>1, <2>2, <2>3
<1>8. ASSUME NEW b \in Balances, BeginRecharge(r, b)
      PROVE  BillInv'
  <2>1. PICK carry, at, new : /\ new = [NoLocals EXCEPT !.op = "recharge",
                                         !.bal = b, !.carry = carry, !.at = at]
                              /\ Arrive(r, "recharge", "recharge", new)
    BY <1>8 DEF BeginRecharge
  <2>2. new.op = "recharge"
    BY <2>1 DEF NoLocals
  <2>3. UNCHANGED <<session, debited, clock, aborts>>
    BY <1>8 DEF BeginRecharge
  <2>4. QED
    BY <1>1, <2>1, <2>2, <2>3
<1>9. ASSUME NEW b \in Balances, BeginSweep(r, b)
      PROVE  BillInv'
  <2>1. PICK new : /\ new = [NoLocals EXCEPT !.op = "sweep", !.bal = b]
                   /\ Arrive(r, "sweep", "expire", new)
    BY <1>9 DEF BeginSweep
  <2>2. new.op = "sweep"
    BY <2>1 DEF NoLocals
  <2>3. UNCHANGED <<session, debited, clock, aborts>>
    BY <1>9 DEF BeginSweep
  <2>4. QED
    BY <1>1, <2>1, <2>2, <2>3
<1>10. QED
  BY <1>2, <1>3, <1>4, <1>5, <1>6, <1>7, <1>8, <1>9 DEF Begin

(* Reads, and statements before the charge: an end that goes on works on an  *)
(* open session, its snapshot being fresh, and takes what was recorded for   *)
(* what was charged.                                                         *)
LEMMA ReadsBills ==
  ASSUME OneAtATime, IInv, BillInv, NEW r \in Requests, ReadCached(r)
  PROVE  BillInv'
<1>1. /\ Carries(session, pc[r], loc[r]) /\ loc[r] \in Locals
      /\ pc[r] \in RawSteps \cup EnrichedSteps
  BY Now DEF ReadCached, RawHit, RawMiss, RawFill, EnrichedHit, EnrichedMiss,
     EnrichedFill
<1>2. PICK to, new :
        /\ Move(r, to, new)
        /\ \/ to = loc[r].next
           \/ pc[r] = "raw" /\ to = "rawFill"
           \/ pc[r] = "enriched" /\ to = "enrichedFill"
        /\ \/ new = loc[r]
           \/ \E row : new = [loc[r] EXCEPT !.row = row]
           \/ \E snap : new = [loc[r] EXCEPT !.snap = snap]
  BY DEF ReadCached, RawHit, RawMiss, RawFill, EnrichedHit, EnrichedMiss,
     EnrichedFill
<1>3. /\ new.op = loc[r].op /\ new.next = loc[r].next /\ new.sid = loc[r].sid
      /\ new.at = loc[r].at /\ new.seen = loc[r].seen
  BY <1>1, <1>2 DEF Locals
<1>4. loc[r].next \in (Starting \cup Charging \cup
                        {"project", "idle", "replayCheck", "endCheck"})
  BY <1>1 DEF Carries
<1>5. Stage(to, new) = loc[r].next /\ Stage(pc[r], loc[r]) = loc[r].next
  BY <1>1, <1>2, <1>3, <1>4
<1>6. UNCHANGED <<session, debited, clock, aborts>>
  BY DEF ReadCached, RawHit, RawMiss, RawFill, EnrichedHit, EnrichedMiss,
     EnrichedFill
<1>7. ~Recording(pc[r], loc[r]) /\ ~Recording(to, new)
  BY <1>1, <1>2, <1>4 DEF Recording
<1>8. aborts = 0 =>
        /\ loc[r].op # "reconcile"
        /\ (/\ loc[r].next \in {"replayCheck", "endCheck"}
            /\ loc[r].at # None /\ session[loc[r].sid].phase = "open")
              => debited[loc[r].sid] <= Fee(session[loc[r].sid], loc[r].at)
        /\ loc[r].next = "charge" =>
             /\ session[loc[r].sid].phase = "open"
             /\ loc[r].seen = debited[loc[r].sid]
             /\ loc[r].op \in Enders =>
                  debited[loc[r].sid] <= Fee(session[loc[r].sid], loc[r].at)
  BY <1>5, NowBills DEF Bills
<1> HIDE DEF Stage
<1>9. QED
  BY <1>2, <1>3, <1>5, <1>6, <1>7, <1>8, StillBills

(* The statements of a start, before and after it inserts the session. *)
LEMMA StartBills ==
  ASSUME OneAtATime, OneRate, IInv, BillInv, NEW r \in Requests, StartStep(r)
  PROVE  BillInv'
<1>1. /\ loc[r] \in Locals /\ NoLocals \in Locals /\ clock \in Nat
      /\ session \in [Sessions -> SessionRow]
      /\ ~Recording(pc[r], loc[r])
  BY Now, NoLocalsType
  DEF DataTypeOK, StartStep, Admit, ActiveCheck, Access, Insert, Occupy, Recording
<1>2. aborts = 0 => loc[r].op # "reconcile"
  BY NowBills DEF Bills
<1>3. ASSUME NEW to, NEW new, Move(r, to, new),
             to \in {"activeCheck", "idle"}
               \/ (to = "raw" /\ new.next \in {"access", "insert"}),
             aborts = 0 => new.op # "reconcile",
             UNCHANGED <<session, debited, clock, aborts>>
      PROVE  BillInv'
  <2>1. ~Recording(to, new) /\ Stage(to, new) \in {"activeCheck", "idle", "access", "insert"}
    BY <1>3 DEF Recording
  <2>2. QED
    BY <1>1, <1>3, <2>1, StillBills
<1>4. CASE Admit(r)
  BY <1>2, <1>3, <1>4 DEF Admit, Reply
<1>5. CASE ActiveCheck(r)
  BY <1>1, <1>2, <1>3, <1>5 DEF ActiveCheck, Reply, Locals
<1>6. CASE Access(r)
  BY <1>1, <1>2, <1>3, <1>6 DEF Access, Reply, Locals
<1>7. CASE Occupy(r)
  BY <1>2, <1>3, <1>7 DEF Occupy, Reply
<1>8. CASE Insert(r)
  <2>1. PICK s \in Sessions :
          /\ session[s].phase = "none"
          /\ session' = [session EXCEPT ![s] =
               [phase |-> "open", bal |-> loc[r].bal, dev |-> loc[r].dev,
                start |-> loc[r].at, end |-> None, used |-> 0]]
    BY <1>8 DEF Insert
  <2>2. PICK new : /\ Move(r, "occupy", new)
                   /\ new = [NoLocals EXCEPT !.op = "start", !.dev = loc[r].dev]
    BY <1>8 DEF Insert
  <2>3. new.op = "start"
    BY <2>2 DEF NoLocals
  <2>4. UNCHANGED <<debited, clock, aborts>>
    BY <1>8 DEF Insert
  <2>5. session'[s] \in SessionRow
    BY NextInv, Now, <1>8 DEF Insert, IInv, TypeOK, DataTypeOK, Next, Continue, StartStep
  <2>6. aborts = 0 => \A t \in Sessions : Exact(session'[t], debited[t], clock)
    <3>1. ASSUME aborts = 0, NEW t \in Sessions
          PROVE  Exact(session[t], debited[t], clock)
      BY <1>1, <3>1, NowExact
    <3>2. ASSUME NEW t \in Sessions, t # s
          PROVE  session'[t] = session[t]
      BY <2>1, <3>2, <1>1
    <3>3. session'[s].phase = "open" /\ session'[s].used = 0
      BY <1>1, <2>1
    <3>4. Fee(session'[s], clock) \in Nat
      BY <1>1, <2>5, FeeGrows
    <3>5. ASSUME aborts = 0
          PROVE  Exact(session'[s], debited[s], clock)
      BY <2>1, <3>1, <3>3, <3>4, <3>5 DEF Exact
    <3>6. QED
      BY <3>1, <3>2, <3>5
  <2>7. aborts' = 0 => Bills(session', debited', clock', "occupy", new)
    BY <2>3, <2>4, <2>6 DEF Bills, Recording
  <2>8. QED
    BY <2>2, <2>7, MoveBills
<1>9. QED
  BY <1>4, <1>5, <1>6, <1>7, <1>8 DEF StartStep

(* Statements of heartbeat, poll and end that neither charge nor record. *)
LEMMA ServesBills ==
  ASSUME OneAtATime, IInv, FreshInv, BillInv, NEW r \in Requests,
         \/ Refresh(r) \/ WriteThrough(r) \/ Project(r) \/ AutoEnd(r)
         \/ ReplayCheck(r) \/ EndCheck(r) \/ Release(r)
  PROVE  BillInv'
<1>1. /\ Carries(session, pc[r], loc[r]) /\ loc[r] \in Locals
      /\ NoLocals \in Locals /\ session \in [Sessions -> SessionRow]
      /\ ~Recording(pc[r], loc[r]) /\ loc[r].sid \in Sessions
      /\ UNCHANGED <<session, debited, clock, aborts>>
  BY Now, NoLocalsType
  DEF DataTypeOK, Recording, Refresh, WriteThrough, Project, AutoEnd, ReplayCheck,
      EndCheck, Release, Carries
<1>2. aborts = 0 => /\ Bills(session, debited, clock, pc[r], loc[r])
                    /\ Exact(session[loc[r].sid], debited[loc[r].sid], clock)
  BY <1>1, NowBills, NowExact
<1>3. aborts = 0 => loc[r].op # "reconcile"
  BY <1>2 DEF Bills
<1>4. ASSUME NEW to, NEW new, Move(r, to, new),
             to \in {"idle", "writeThrough", "release", "autoEnd"}
               \/ (to = "raw" /\ new.next = "idle"),
             aborts = 0 => new.op # "reconcile"
      PROVE  BillInv'
  <2>1. ~Recording(to, new) /\ Stage(to, new) \notin {"charge", "replayCheck", "endCheck"}
    BY <1>4 DEF Recording
  <2>2. QED
    BY <1>1, <1>4, <2>1, StillBills
<1>5. CASE ShowBalance(r)
  <2>1. PICK new : /\ new = [NoLocals EXCEPT !.op = "end", !.next = "idle",
                               !.bal = session[loc[r].sid].bal]
                   /\ Move(r, "raw", new)
    BY <1>5 DEF ShowBalance
  <2>2. new.op = "end" /\ new.next = "idle"
    BY <2>1 DEF NoLocals
  <2>3. QED
    BY <1>4, <2>1, <2>2
<1>6. CASE Refresh(r) \/ WriteThrough(r) \/ Project(r) \/ Release(r)
  BY <1>1, <1>3, <1>4, <1>5, <1>6
  DEF Refresh, WriteThrough, Project, Release, Reply, Locals
<1>7. CASE AutoEnd(r)
  <2>1. CASE Reply(r)
    BY <1>3, <1>4, <2>1 DEF Reply
  <2>2. CASE ~Reply(r)
    <3>1. PICK new : /\ new = [NoLocals EXCEPT !.op = "staffEnd", !.sid = loc[r].sid,
                                 !.at = clock, !.next = "endCheck"]
                     /\ Move(r, "enriched", new)
      BY <1>7, <2>2 DEF AutoEnd
    <3>2. /\ new.op = "staffEnd" /\ new.sid = loc[r].sid /\ new.at = clock
          /\ new.next = "endCheck"
      BY <3>1 DEF NoLocals
    <3>3. aborts = 0 /\ session[loc[r].sid].phase = "open"
            => debited[loc[r].sid] <= Fee(session[loc[r].sid], clock)
      BY <1>2 DEF Exact
    <3>4. ~Recording("enriched", new)
      BY DEF Recording
    <3>5. QED
      BY <1>1, <3>1, <3>2, <3>3, <3>4, StillBills
  <2>3. QED
    BY <2>1, <2>2
<1>8. CASE ReplayCheck(r)
  <2>1. CASE ~ShowBalance(r)
    <3>1. PICK new : /\ new = [loc[r] EXCEPT !.next = "endCheck"]
                     /\ Move(r, "enriched", new)
      BY <1>8, <2>1 DEF ReplayCheck
    <3>2. /\ new.op = loc[r].op /\ new.sid = loc[r].sid /\ new.at = loc[r].at
          /\ new.next = "endCheck"
      BY <1>1, <3>1 DEF Locals
    <3>3. aborts = 0 /\ loc[r].at # None /\ session[loc[r].sid].phase = "open"
            => debited[loc[r].sid] <= Fee(session[loc[r].sid], loc[r].at)
      BY <1>2, <1>8 DEF Bills, ReplayCheck
    <3>4. ~Recording("enriched", new)
      BY DEF Recording
    <3>5. aborts = 0 => new.op # "reconcile"
      BY <1>3, <3>2
    <3>6. QED
      BY <1>1, <3>1, <3>2, <3>3, <3>4, <3>5, StillBills
  <2>2. QED
    BY <1>5, <2>1
<1>9. CASE EndCheck(r)
  <2>1. CASE Reply(r)
    BY <1>3, <1>4, <2>1 DEF Reply
  <2>2. CASE ~Reply(r)
    <3>1. PICK end, next, new :
            /\ end = IF loc[r].at = None THEN clock ELSE loc[r].at
            /\ next = IF loc[r].op = "reconcile" THEN "settle" ELSE "charge"
            /\ new = [loc[r] EXCEPT !.bal = session[loc[r].sid].bal,
                                    !.seen = session[loc[r].sid].used,
                                    !.at = end, !.next = next]
            /\ Move(r, "raw", new)
      BY <1>9, <2>2 DEF EndCheck
    <3>2. /\ new.op = loc[r].op /\ new.sid = loc[r].sid /\ new.at = end
          /\ new.seen = session[loc[r].sid].used /\ new.next = next
      BY <1>1, <3>1 DEF Locals
    <3>3. aborts = 0 => session[loc[r].sid].phase = "open"
      <4>1. loc[r].snap # "ended"
        BY <1>9, <2>2 DEF EndCheck
      <4>2. aborts = 0 => loc[r].snap = session[loc[r].sid].phase
        BY <1>9, NowFresh DEF EndCheck, Fresh
      <4>3. session[loc[r].sid].phase \in {"open", "ended"}
        BY <1>1, <1>9 DEF EndCheck, Carries, SessionRow, Phase
      <4>4. QED
        BY <4>1, <4>2, <4>3
    <3>4. aborts = 0 => debited[loc[r].sid] <= Fee(session[loc[r].sid], end)
      BY <1>2, <1>9, <3>1, <3>3 DEF Bills, Exact, EndCheck
    <3>5. aborts = 0 => session[loc[r].sid].used = debited[loc[r].sid]
      BY <1>2 DEF Exact
    <3>6. ~Recording("raw", new)
      BY DEF Recording
    <3>7. aborts = 0 => new.op # "reconcile" /\ next = "charge"
      BY <1>3, <3>1, <3>2
    <3>8. Stage("raw", new) = next /\ next \notin {"replayCheck", "endCheck"}
      BY <3>1, <3>2
    <3> HIDE DEF Stage
    <3>9. QED
      BY <1>1, <3>1, <3>2, <3>3, <3>4, <3>5, <3>6, <3>7, <3>8, StillBills
  <2>3. QED
    BY <2>1, <2>2
<1>10. QED
  BY <1>6, <1>7, <1>8, <1>9

(* What the one request owes at its charge is the fee of the session.        *)
LEMMA OwedIsFee ==
  ASSUME OneRate, IInv, RateInv, NEW r \in Requests, pc[r] = "charge"
  PROVE  Owed(r) = Fee(session[loc[r].sid],
                       IF loc[r].op = "heartbeat" THEN clock ELSE loc[r].at)
<1>1. loc[r].row.rate \in Rates
  BY DEF RateInv, Quoting
<1>2. QED
  BY <1>1, ConsumptionIsFee DEF Owed

(* What is charged is what is owed: the minutes since the last charge, or    *)
(* nothing when an end follows a heartbeat within the minute.                *)
LEMMA ChargeBills ==
  ASSUME OneAtATime, OneRate, IInv, RateInv, BillInv, NEW r \in Requests,
         ChargeNothing(r) \/ ChargeDelta(r)
  PROVE  BillInv'
<1>1. /\ Carries(session, pc[r], loc[r]) /\ loc[r] \in Locals
      /\ pc[r] = "charge" /\ debited \in [Sessions -> Nat]
      /\ session \in [Sessions -> SessionRow] /\ clock \in Nat
  BY Now DEF DataTypeOK, ChargeNothing, ChargeDelta
<1>2. /\ loc[r].sid \in Sessions /\ loc[r].op \in {"heartbeat", "end", "staffEnd"}
      /\ loc[r].op \in Enders => loc[r].at \in Nat
  BY <1>1 DEF Carries
<1>3. PICK s, until, owed : /\ s = loc[r].sid
                            /\ until = IF loc[r].op = "heartbeat" THEN clock
                                       ELSE loc[r].at
                            /\ owed = Owed(r)
  OBVIOUS
<1>4. /\ s \in Sessions /\ until \in Nat /\ owed \in Nat
      /\ owed = Fee(session[s], until)
  BY <1>1, <1>2, <1>3, OwedIsFee, OwedType
<1>5. aborts = 0 =>
        /\ session[s].phase = "open" /\ loc[r].seen = debited[s]
        /\ debited[s] <= Fee(session[s], until)
        /\ \A t \in Sessions : Exact(session[t], debited[t], clock)
  <2>1. ~Recording(pc[r], loc[r])
    BY <1>1 DEF Recording
  <2>2. aborts = 0 => \A t \in Sessions : Exact(session[t], debited[t], clock)
    BY <2>1, NowExact
  <2>3. aborts = 0 => /\ session[s].phase = "open" /\ loc[r].seen = debited[s]
                      /\ loc[r].op \in Enders => debited[s] <= Fee(session[s], loc[r].at)
    BY <1>1, <1>3, NowBills DEF Bills
  <2>4. aborts = 0 => debited[s] <= Fee(session[s], until)
    BY <1>2, <1>3, <1>4, <2>2, <2>3 DEF Exact
  <2>5. QED
    BY <2>2, <2>3, <2>4
<1>6. CASE ChargeNothing(r)
  <2>1. PICK new : /\ new = [loc[r] EXCEPT !.total = owed]
                   /\ Move(r, AfterCharge(r), new)
    BY <1>3, <1>6 DEF ChargeNothing
  <2>2. /\ new.op = loc[r].op /\ new.sid = s /\ new.at = loc[r].at
        /\ new.total = owed
    BY <1>1, <1>3, <2>1 DEF Locals
  <2>3. aborts = 0 => owed = debited[s]
    BY <1>1, <1>3, <1>4, <1>5, <1>6 DEF ChargeNothing
  <2>4. UNCHANGED <<session, debited, clock, aborts>>
    BY <1>6 DEF ChargeNothing
  <2>5. CASE loc[r].op = "heartbeat"
    <3>1. aborts = 0 => Bills(session, debited, clock, "refresh", new)
      BY <1>5, <2>2, <2>5 DEF Bills, Recording
    <3>2. QED
      BY <2>1, <2>4, <2>5, <3>1, MoveBills DEF AfterCharge
  <2>6. CASE loc[r].op # "heartbeat"
    <3>1. aborts = 0 => Bills(session, debited, clock, "close", new)
      BY <1>2, <1>3, <1>4, <1>5, <2>2, <2>3, <2>6 DEF Bills, Recording
    <3>2. QED
      BY <2>1, <2>4, <2>6, <3>1, MoveBills DEF AfterCharge
  <2>7. QED
    BY <2>5, <2>6
<1>7. CASE ChargeDelta(r)
  <2>1. PICK row, minutes, new :
          /\ minutes = owed - loc[r].seen
          /\ new = [loc[r] EXCEPT !.row = row, !.minutes = minutes, !.total = owed]
          /\ Move(r, "sync", new)
          /\ debited' = [debited EXCEPT ![s] = @ + minutes]
          /\ UNCHANGED <<session, clock, aborts>>
    BY <1>3, <1>7 DEF ChargeDelta, Take
  <2>2. /\ new.op = loc[r].op /\ new.sid = s /\ new.at = loc[r].at
        /\ new.total = owed
    BY <1>1, <1>3, <2>1 DEF Locals
  <2>3. aborts = 0 => debited'[s] = owed
    BY <1>1, <1>4, <1>5, <2>1
  <2>4. \A t \in Sessions : t # s => debited'[t] = debited[t]
    BY <1>1, <2>1
  <2>5. aborts = 0 => Bills(session, debited', clock, "sync", new)
    BY <1>2, <1>3, <1>4, <1>5, <2>2, <2>3, <2>4 DEF Bills, Recording
  <2>6. QED
    BY <2>1, <2>5, MoveBills
<1>8. QED
  BY <1>6, <1>7

(* What was charged is entered and recorded, and closes the bill. *)
LEMMA RecordBills ==
  ASSUME OneAtATime, IInv, BillInv, NEW r \in Requests,
         SyncCache(r) \/ AppendUsage(r) \/ RecordUsed(r) \/ Close(r)
  PROVE  BillInv'
<1>1. /\ Carries(session, pc[r], loc[r]) /\ loc[r] \in Locals
      /\ session \in [Sessions -> SessionRow]
      /\ UNCHANGED <<debited, clock, aborts>>
  BY Now DEF DataTypeOK, SyncCache, AppendUsage, RecordUsed, Close
<1>2. aborts = 0 => Bills(session, debited, clock, pc[r], loc[r])
  BY NowBills
<1>3. CASE SyncCache(r)
  <2>1. PICK to : /\ Move(r, to, loc[r])
                  /\ \/ to = "idle" /\ loc[r].op \in {"recharge", "sweep"}
                     \/ to = "ledger" /\ loc[r].op \notin {"recharge", "sweep"}
    BY <1>3 DEF SyncCache, Reply
  <2>2. pc[r] = "sync" /\ loc[r].op \in Enders \cup {"heartbeat", "recharge", "sweep"}
    BY <1>1, <1>3 DEF SyncCache, Carries, Locals, Ops
  <2>3. aborts = 0 => Bills(session, debited, clock, to, loc[r])
    BY <1>2, <2>1, <2>2 DEF Bills, Recording
  <2>4. UNCHANGED session
    BY <1>3 DEF SyncCache
  <2>5. QED
    BY <1>1, <2>1, <2>3, <2>4, MoveBills
<1>4. CASE AppendUsage(r)
  <2>1. PICK to \in {"close", "record"} : Move(r, to, loc[r])
    BY <1>4 DEF AppendUsage
  <2>2. aborts = 0 => Bills(session, debited, clock, to, loc[r])
    BY <1>2, <1>4, <2>1 DEF Bills, Recording, AppendUsage
  <2>3. UNCHANGED session
    BY <1>4 DEF AppendUsage
  <2>4. QED
    BY <1>1, <2>1, <2>2, <2>3, MoveBills
<1>5. CASE RecordUsed(r) \/ Close(r)
  <2>1. PICK s : s = loc[r].sid
    OBVIOUS
  <2>2. s \in Sessions /\ loc[r].op \in Enders \cup {"heartbeat"}
    BY <1>1, <1>5, <2>1 DEF RecordUsed, Close, Carries
  <2>3. aborts = 0 =>
          /\ session[s].phase = "open" /\ loc[r].total = debited[s]
          /\ loc[r].op # "reconcile"
          /\ loc[r].op \in Enders => debited[s] = Fee(session[s], loc[r].at)
          /\ loc[r].op = "heartbeat" => debited[s] <= Fee(session[s], clock)
          /\ \A t \in Sessions : t # s => Exact(session[t], debited[t], clock)
    BY <1>2, <1>5, <2>1 DEF Bills, Recording, RecordUsed, Close
  <2>4. CASE aborts = 0 /\ RecordUsed(r)
    <3>1. PICK row : row = [session[s] EXCEPT !.used = loc[r].total]
      OBVIOUS
    <3>2. /\ Move(r, AfterCharge(r), loc[r])
          /\ session' = [session EXCEPT ![s] = row]
      BY <2>1, <2>3, <2>4, <3>1 DEF RecordUsed, Open
    <3>3. /\ row.phase = "open" /\ row.used = debited[s]
          /\ row.start = session[s].start
      BY <1>1, <2>2, <2>3, <2>4, <3>1 DEF SessionRow
    <3>4. \A until : Fee(row, until) = Fee(session[s], until)
      BY <3>3 DEF Fee
    <3>5. session'[s] = row /\ \A t \in Sessions : t # s => session'[t] = session[t]
      BY <1>1, <2>2, <3>2
    <3>6. CASE loc[r].op = "heartbeat"
      <4>1. Bills(session', debited, clock, "refresh", loc[r])
        BY <2>1, <2>3, <2>4, <3>3, <3>4, <3>5, <3>6 DEF Bills, Recording, Exact
      <4>2. QED
        BY <1>1, <3>2, <3>6, <4>1, MoveBills DEF AfterCharge
    <3>7. CASE loc[r].op # "heartbeat"
      <4>1. Bills(session', debited, clock, "close", loc[r])
        BY <2>1, <2>3, <2>4, <3>3, <3>4, <3>5, <3>7 DEF Bills, Recording, Exact
      <4>2. QED
        BY <1>1, <3>2, <3>7, <4>1, MoveBills DEF AfterCharge
    <3>8. QED
      BY <3>6, <3>7
  <2>5. CASE aborts = 0 /\ Close(r)
    <3>1. PICK row : row = [session[s] EXCEPT !.phase = "ended", !.end = loc[r].at,
                                              !.used = loc[r].total]
      OBVIOUS
    <3>2. /\ Move(r, "refresh", loc[r])
          /\ session' = [session EXCEPT ![s] = row]
      BY <1>1, <2>1, <2>2, <2>3, <2>5, <3>1 DEF Close, Open, SessionRow
    <3>3. /\ row.phase = "ended" /\ row.used = debited[s]
          /\ row.start = session[s].start /\ row.end = loc[r].at
      BY <1>1, <2>2, <2>3, <2>5, <3>1 DEF SessionRow
    <3>4. Fee(row, loc[r].at) = Fee(session[s], loc[r].at)
      BY <3>3 DEF Fee
    <3>5. loc[r].op \in Enders
      BY <1>1, <2>5 DEF Close, Carries
    <3>6. session'[s] = row /\ \A t \in Sessions : t # s => session'[t] = session[t]
      BY <1>1, <2>2, <3>2
    <3>7. Bills(session', debited, clock, "refresh", loc[r])
      BY <2>1, <2>3, <2>5, <3>3, <3>4, <3>5, <3>6 DEF Bills, Recording, Exact
    <3>8. QED
      BY <1>1, <3>2, <3>7, MoveBills
  <2>6. CASE aborts # 0
    BY <1>1, <2>6 DEF BillInv
  <2>7. QED
    BY <1>5, <2>4, <2>5, <2>6
<1>6. QED
  BY <1>3, <1>4, <1>5

(* A change of the wallet that is none of a session. *)
LEMMA SellsBills ==
  ASSUME OneAtATime, IInv, BillInv, NEW r \in Requests, WalletStep(r)
  PROVE  BillInv'
<1>1. /\ Carries(session, pc[r], loc[r]) /\ loc[r] \in Locals
      /\ UNCHANGED <<session, debited, clock, aborts>>
  BY Now DEF WalletStep, Recharge, AppendTopup, Expire, Reread
<1>2. loc[r].op \in {"recharge", "sweep"}
  BY <1>1 DEF WalletStep, Recharge, AppendTopup, Expire, Reread, Carries
<1>3. PICK to, new : /\ Move(r, to, new) /\ to \in {"credit", "sync", "reread"}
                     /\ new.op = loc[r].op
  <2>1. CASE Recharge(r)
    <3>1. PICK row : Move(r, "credit", [loc[r] EXCEPT !.row = row,
                                                      !.minutes = Credits])
      BY <2>1 DEF Recharge
    <3>2. PICK new : new = [loc[r] EXCEPT !.row = row, !.minutes = Credits]
      OBVIOUS
    <3>3. Move(r, "credit", new) /\ new.op = loc[r].op
      BY <1>1, <3>1, <3>2 DEF Locals
    <3>4. QED
      BY <3>3
  <2>2. CASE AppendTopup(r) \/ Expire(r)
    BY <2>2 DEF AppendTopup, Expire
  <2>3. CASE Reread(r)
    BY <1>1, <2>3 DEF Reread, Locals
  <2>4. QED
    BY <2>1, <2>2, <2>3 DEF WalletStep
<1>4. ~Recording(pc[r], loc[r]) /\ ~Recording(to, new)
  BY <1>2, <1>3
  DEF Recording, WalletStep, Recharge, AppendTopup, Expire, Reread
<1>5. QED
  BY <1>1, <1>2, <1>3, <1>4, StillBills

(* An open session costs more as time passes. *)
LEMMA EnvironmentBills ==
  ASSUME OneAtATime, OneRate, IInv, BillInv, Environment
  PROVE  BillInv'
<1>1. /\ session \in [Sessions -> SessionRow] /\ debited \in [Sessions -> Nat]
      /\ clock \in Nat /\ aborts \in Nat
  BY DEF IInv, TypeOK, DataTypeOK
<1>2. CASE Tick
  <2>1. clock' = clock + 1 /\ UNCHANGED <<session, debited, aborts, pc, loc>>
    BY <1>2 DEF Tick
  <2>2. ASSUME NEW s \in Sessions
        PROVE  debited[s] <= Fee(session[s], clock)
                 => debited[s] <= Fee(session[s], clock + 1)
    <3>1. /\ Fee(session[s], clock) \in Nat /\ Fee(session[s], clock + 1) \in Nat
          /\ Fee(session[s], clock) <= Fee(session[s], clock + 1)
      BY <1>1, FeeGrows
    <3>2. QED
      BY <1>1, <3>1
  <2>3. ASSUME NEW r \in Requests, Bills(session, debited, clock, pc[r], loc[r])
        PROVE  Bills(session, debited, clock + 1, pc[r], loc[r])
    <3>1. Recording(pc[r], loc[r]) => loc[r].sid \in Sessions
      BY Now DEF Carries, Recording
    <3>2. QED
      BY <2>2, <2>3, <3>1 DEF Bills, Exact
  <2>4. QED
    BY <2>1, <2>3 DEF BillInv
<1>3. CASE \/ \E b \in Balances : EvictRaw(b)
           \/ \E s \in Sessions : EvictEnriched(s)
  BY <1>3 DEF EvictRaw, EvictEnriched, BillInv
<1>4. CASE \E r \in Requests : Abort(r)
  BY <1>1, <1>4 DEF Abort, BillInv
<1>5. QED
  BY <1>2, <1>3, <1>4 DEF Environment

(* That the bills are right is an inductive invariant. *)
LEMMA NextBills ==
  OneAtATime /\ OneRate /\ NoClientTotals /\ IInv /\ FreshInv /\ RateInv /\ BillInv
    /\ [Next]_vars => BillInv'
<1> SUFFICES ASSUME OneAtATime, OneRate, NoClientTotals, IInv, FreshInv, RateInv,
                    BillInv, [Next]_vars
             PROVE  BillInv'
  OBVIOUS
<1>1. ASSUME NEW r \in Requests, Settle(r)
      PROVE  BillInv'
  <2>1. loc[r].op = "reconcile"
    BY <1>1, Now DEF Settle, Carries
  <2>2. aborts # 0 /\ UNCHANGED aborts
    BY <1>1, <2>1, NowBills DEF Settle, Take, Bills
  <2>3. QED
    BY <2>2 DEF BillInv
<1>2. ASSUME NEW r \in Requests, Continue(r)
      PROVE  BillInv'
  BY <1>1, <1>2, ReadsBills, StartBills, ServesBills, ChargeBills, RecordBills,
     SellsBills
  DEF Continue, ChargeStep, SessionStep
<1>3. CASE UNCHANGED vars
  BY <1>3 DEF vars, BillInv
<1>4. QED
  BY <1>2, <1>3, BeginBills, EnvironmentBills DEF Next

(* Nothing is owed at the beginning. *)
LEMMA InitBills == Init => BillInv
BY DEF Init, BillInv, Bills, Exact, Recording, NoSession, NoLocals

(* A session is billed for the minutes it lasted, at the rate of its plan,   *)
(* whatever heartbeats, polls and recharges there were meanwhile, as long as *)
(* calls neither overlap nor are cut off, all plans cost the same and no     *)
(* client sends a total of its own.                                          *)
THEOREM SessionsAreBilledForDuration ==
  ASSUME OneAtATime, OneRate, NoClientTotals
  PROVE  Spec => []BilledForDuration
<1>1. Init => FreshInv /\ RateInv /\ BillInv
  BY InitFresh, InitRate, InitBills
<1>2. IInv /\ (FreshInv /\ RateInv /\ BillInv) /\ [Next]_vars
        => (FreshInv /\ RateInv /\ BillInv)'
  BY NextFresh, NextRate, NextBills
<1>3. IInv /\ (FreshInv /\ RateInv /\ BillInv) => BilledForDuration
  <2> SUFFICES ASSUME IInv, RateInv, BillInv, Quiet, NEW s \in Sessions
               PROVE  /\ session[s].used = debited[s]
                      /\ Open(s) => debited[s] <= Consumption(wallet[session[s].bal],
                                                    session[s].start, clock)
                      /\ session[s].phase = "ended" =>
                           debited[s] = Consumption(wallet[session[s].bal],
                                          session[s].start, session[s].end)
    BY DEF BilledForDuration
  <2>1. PICK r \in Requests : pc[r] = "idle"
    BY DEF OneAtATime, Quiet
  <2>2. Exact(session[s], debited[s], clock)
    BY <2>1, NowExact DEF Quiet, Recording
  <2>3. session[s].phase # "none" => wallet[session[s].bal].rate \in Rates
    BY DEF IInv, Payable, RateInv
  <2>4. QED
    BY <2>2, <2>3, ConsumptionIsFee DEF Exact, Open
<1>4. QED
  BY <1>1, <1>2, <1>3, Invariance, PTL DEF Spec
=============================================================================
