--------------------------- MODULE SessionWallet ---------------------------
(***************************************************************************)
(* Gaming sessions and the prepaid wallets they are charged to: the        *)
(* session and balance services of the backend with the rows they keep in  *)
(* PostgreSQL and the snapshots they keep in Redis.                        *)
(*                                                                         *)
(* Every API call runs as a request that suspends at each database or      *)
(* cache round trip; between two round trips any other request may run,    *)
(* on the same or on another pod.  A request is a program counter pc[r]    *)
(* and the local variables loc[r] it carries from one await to the next.   *)
(* No call holds a transaction or a lock across two statements, so one     *)
(* action is one statement with the computation around it.                 *)
(*                                                                         *)
(* Every event falls on a whole minute, so that the code's ceil() and      *)
(* floor() are exact, and a wallet's deduction profile is its rate: the    *)
(* wallet minutes one minute of play costs.                                *)
(***************************************************************************)
EXTENDS Integers, FiniteSets

CONSTANTS
  Players,        \* wallet owners
  Balances,       \* rows of player_plan_balances
  Owner,          \* the playerId of a balance
  HappyHours,     \* the balances whose plan kind is happy_hours
  Devices,        \* gaming stations
  Sessions,       \* ids of the rows of usage_sessions
  Requests,       \* slots for API calls in flight at the same time
  Rates,          \* wallet minutes charged per minute played
  FirstMinutes,   \* minutes on every wallet at the beginning
  FirstExpiry,    \* expiryDate of every wallet at the beginning
  Credits,        \* timeCredits of the plan a player buys
  Validity,       \* how long a purchase stays valid
  ClientTotals,   \* totals a staff client may send with a session end
  Calls,          \* the API calls a run exercises
  MaxClock,       \* bound: last minute of a behaviour
  MaxCredits,     \* bound: minutes credited to each wallet
  MaxDebited,     \* bound: no end is tried on a session charged for more
  MaxAborts,      \* bound: requests cut off between two statements
  None            \* SQL NULL, a cache miss, an unset local

CallNames == {"start", "staffStart", "heartbeat", "poll", "end", "staffEnd",
              "reconcile", "recharge", "sweep"}

ASSUME OwnerAssumption == Owner \in [Balances -> Players]

ASSUME NumberAssumption ==
  /\ Rates \subseteq Nat \ {0}
  /\ ClientTotals \subseteq Nat
  /\ FirstMinutes \in Nat \ {0}
  /\ FirstExpiry \in Nat
  /\ Credits \in Nat \ {0}
  /\ Validity \in Nat
  /\ MaxClock \in Nat
  /\ MaxCredits \in [Balances -> Nat]
  /\ MaxDebited \in Nat
  /\ MaxAborts \in Nat

ASSUME NoneAssumption ==
  /\ None \notin Sessions
  /\ None \notin Balances
  /\ None \notin Devices

ASSUME CallsAssumption == Calls \subseteq CallNames

VARIABLES
  clock,      \* the server's Utc::now(), in minutes
  wallet,     \* player_plan_balances
  session,    \* usage_sessions
  device,     \* devices.status
  rawCache,   \* Redis: balance:raw:{id}
  openCache,  \* Redis: session:enriched:{id}, by the endTime it holds
  usage,      \* player_plan_ledger: minutes of the session_usage rows
  topup,      \* player_plan_ledger: minutes of the purchase and recharge rows
  debited,    \* history: minutes deduct_minutes was told to take for a session
  credited,   \* history: minutes a recharge wrote to a wallet
  pc,         \* the statement each request is about to execute
  loc,        \* the locals of each request
  aborts      \* requests cut off so far

rows == <<wallet, session, device>>
caches == <<rawCache, openCache>>
ledger == <<usage, topup>>
history == <<debited, credited, aborts>>
vars == <<clock, rows, caches, ledger, history, pc, loc>>

-----------------------------------------------------------------------------
(* Rows and snapshots *)

Status == {"active", "exhausted", "expired"}

WalletRow == [rem : Nat, status : Status, expiry : Nat, rate : Nat]

(* phase "none" is an id not yet inserted, "open" a row with a NULL endTime *)
Phase == {"none", "open", "ended"}

SessionRow == [phase : Phase,
               bal   : Balances \cup {None},
               dev   : Devices \cup {None},
               start : Nat,
               end   : Nat \cup {None},
               used  : Nat]               \* timeCreditsConsumed

NoSession == [phase |-> "none", bal |-> None, dev |-> None,
              start |-> 0, end |-> None, used |-> 0]

BlankRow == [rem |-> 0, status |-> "active", expiry |-> 0, rate |-> 1]

Steps == {"idle", "raw", "rawFill", "enriched", "enrichedFill",
          "admit", "activeCheck", "access", "insert", "occupy",
          "charge", "sync", "ledger", "record", "refresh", "writeThrough",
          "project", "autoEnd", "replayCheck", "endCheck", "settle",
          "close", "release", "recharge", "credit", "expire", "reread"}

(* "end" is the end of the kiosk and of the TV, which answer with the         *)
(* balance; "staffEnd" the counter's and the server's own                     *)
Enders == {"end", "staffEnd", "reconcile"}

Ops == {"none", "start", "heartbeat", "poll", "recharge", "sweep"} \cup Enders

Locals == [op      : Ops,
           next    : Steps,                   \* where a cached read returns to
           sid     : Sessions \cup {None},
           bal     : Balances \cup {None},
           dev     : Devices \cup {None},
           seen    : Nat,                     \* timeCreditsConsumed as read
           at      : Nat \cup {None},         \* end_time or start_time
           total   : Nat,                     \* minutes owed for the session
           minutes : Nat,                     \* minutes of the ledger row
           row     : WalletRow,               \* the balance as read or returned
           carry   : BOOLEAN,                 \* carry_forward of a recharge
           snap    : Phase]                   \* the session as read for the cache

NoLocals == [op |-> "none", next |-> "idle", sid |-> None, bal |-> None,
             dev |-> None, seen |-> 0, at |-> None, total |-> 0,
             minutes |-> 0, row |-> BlankRow, carry |-> FALSE,
             snap |-> "none"]

DataTypeOK ==
  /\ clock \in Nat
  /\ wallet \in [Balances -> WalletRow]
  /\ session \in [Sessions -> SessionRow]
  /\ device \in [Devices -> {"available", "in_use"}]
  /\ rawCache \in [Balances -> WalletRow \cup {None}]
  /\ openCache \in [Sessions -> Phase]
  /\ usage \in [Sessions -> Nat]
  /\ topup \in [Balances -> Nat]
  /\ debited \in [Sessions -> Nat]
  /\ credited \in [Balances -> Nat]
  /\ aborts \in Nat

TypeOK ==
  /\ DataTypeOK
  /\ pc \in [Requests -> Steps]
  /\ loc \in [Requests -> Locals]

-----------------------------------------------------------------------------
(* What the code computes from a row *)

NonNeg(n) == IF n > 0 THEN n ELSE 0

Least(m, n) == IF m < n THEN m ELSE n

(* weighted_consumption(start, end, profile).ceil() *)
Consumption(row, start, end) == row.rate * NonNeg(end - start)

(* validate_balance, with its scope, day and window checks satisfied *)
Valid(row, now) ==
  /\ row.status = "active"
  /\ now <= row.expiry
  /\ row.rem > 0

(* should_carry_forward_minutes *)
CarriesForward(row, now) == row.status = "active" /\ row.expiry > now

(* faulty: the balance may go below zero *)
DeductedUnclamped(row, minutes) ==
  [row EXCEPT !.rem = row.rem - minutes,
              !.status = IF row.rem - minutes <= 0 THEN "exhausted" ELSE @]

(* faulty: a wallet drained exactly stays active *)
DeductedToZero(row, minutes) ==
  [row EXCEPT !.rem = NonNeg(row.rem - minutes),
              !.status = IF row.rem - minutes < 0 THEN "exhausted" ELSE @]

(* the UPDATE of BalanceRepository::deduct_minutes *)
Deducted(row, minutes) ==
  [row EXCEPT !.rem = NonNeg(row.rem - minutes),
              !.status = IF row.rem - minutes <= 0 THEN "exhausted" ELSE @]

(* display_remaining_for_session *)
DisplayRemaining(row, start, used, now) ==
  IF now > row.expiry
  THEN 0
  ELSE Least(NonNeg(row.rem - NonNeg(Consumption(row, start, now) - used)),
             row.expiry - now)

Open(s) == session[s].phase = "open"

OpenOf(player) ==
  {s \in Sessions : Open(s) /\ Owner[session[s].bal] = player}

(* ORDER BY "startTime" DESC LIMIT 1: any of the latest when two tie *)
LatestOf(player) ==
  {s \in OpenOf(player) :
     \A t \in OpenOf(player) : session[t].start <= session[s].start}

-----------------------------------------------------------------------------
(* Control of a request *)

Arrive(r, call, step, locals) ==
  /\ call \in Calls
  /\ pc[r] = "idle"
  /\ pc' = [pc EXCEPT ![r] = step]
  /\ loc' = [loc EXCEPT ![r] = locals]

Move(r, to, locals) ==
  /\ pc' = [pc EXCEPT ![r] = to]
  /\ loc' = [loc EXCEPT ![r] = IF to = "idle" THEN NoLocals ELSE locals]

(* the response is sent: an Ok, or the Err of an early return *)
Reply(r) == Move(r, "idle", loc[r])

Init ==
  /\ clock = 0
  /\ wallet \in [Balances -> [rem : {FirstMinutes}, status : {"active"},
                              expiry : {FirstExpiry}, rate : Rates]]
  /\ session = [s \in Sessions |-> NoSession]
  /\ device = [d \in Devices |-> "available"]
  /\ rawCache = [b \in Balances |-> None]
  /\ openCache = [s \in Sessions |-> "none"]
  /\ usage = [s \in Sessions |-> 0]
  /\ topup = [b \in Balances |-> 0]
  /\ debited = [s \in Sessions |-> 0]
  /\ credited = [b \in Balances |-> 0]
  /\ pc = [r \in Requests |-> "idle"]
  /\ loc = [r \in Requests |-> NoLocals]
  /\ aborts = 0

-----------------------------------------------------------------------------
(* get_or_set on balance:raw:{id}: a hit, or a fetch and a later store *)

RawHit(r) ==
  /\ pc[r] = "raw"
  /\ rawCache[loc[r].bal] # None
  /\ Move(r, loc[r].next, [loc[r] EXCEPT !.row = rawCache[loc[r].bal]])
  /\ UNCHANGED <<clock, rows, caches, ledger, history>>

RawMiss(r) ==
  /\ pc[r] = "raw"
  /\ rawCache[loc[r].bal] = None
  /\ Move(r, "rawFill", [loc[r] EXCEPT !.row = wallet[loc[r].bal]])
  /\ UNCHANGED <<clock, rows, caches, ledger, history>>

RawFill(r) ==
  /\ pc[r] = "rawFill"
  /\ rawCache' = [rawCache EXCEPT ![loc[r].bal] = loc[r].row]
  /\ Move(r, loc[r].next, loc[r])
  /\ UNCHANGED <<clock, rows, openCache, ledger, history>>

(* the same on session:enriched:{id} *)
EnrichedHit(r) ==
  /\ pc[r] = "enriched"
  /\ openCache[loc[r].sid] # "none"
  /\ Move(r, loc[r].next, [loc[r] EXCEPT !.snap = openCache[loc[r].sid]])
  /\ UNCHANGED <<clock, rows, caches, ledger, history>>

EnrichedMiss(r) ==
  /\ pc[r] = "enriched"
  /\ openCache[loc[r].sid] = "none"
  /\ Move(r, "enrichedFill", [loc[r] EXCEPT !.snap = session[loc[r].sid].phase])
  /\ UNCHANGED <<clock, rows, caches, ledger, history>>

EnrichedFill(r) ==
  /\ pc[r] = "enrichedFill"
  /\ openCache' = [openCache EXCEPT ![loc[r].sid] = loc[r].snap]
  /\ Move(r, loc[r].next, loc[r])
  /\ UNCHANGED <<clock, rows, rawCache, ledger, history>>

-----------------------------------------------------------------------------
(* Starting a session *)

(* start_for_player: an open session of the player is resumed on its own     *)
(* device and refused on another; with none the balance is looked up.        *)
BeginStart(r, b, d) ==
  LET player == Owner[b]
      locals == [NoLocals EXCEPT !.op = "start", !.bal = b, !.dev = d]
  IN
  /\ \/ /\ OpenOf(player) = {}
        /\ Arrive(r, "start", "raw", [locals EXCEPT !.next = "admit"])
     \/ \E s \in LatestOf(player) :
          /\ session[s].dev = d
          /\ Arrive(r, "start", "raw",
                    [locals EXCEPT !.bal = session[s].bal, !.next = "idle"])
  /\ UNCHANGED <<clock, rows, caches, ledger, history>>

(* the balance the kiosk asked for is validated before start() is called *)
Admit(r) ==
  /\ pc[r] = "admit"
  /\ IF Valid(loc[r].row, clock) THEN Move(r, "activeCheck", loc[r])
                                 ELSE Reply(r)
  /\ UNCHANGED <<clock, rows, caches, ledger, history>>

(* the counter calls start() directly *)
BeginStaffStart(r, b, d) ==
  /\ Arrive(r, "staffStart", "activeCheck",
            [NoLocals EXCEPT !.op = "start", !.bal = b, !.dev = d])
  /\ UNCHANGED <<clock, rows, caches, ledger, history>>

(* faulty: only the station asked for is searched for an open session *)
ActiveCheckOfStation(r) ==
  /\ pc[r] = "activeCheck"
  /\ IF \E s \in Sessions : Open(s) /\ session[s].dev = loc[r].dev
     THEN Reply(r)
     ELSE Move(r, "raw", [loc[r] EXCEPT !.at = clock, !.next = "access"])
  /\ UNCHANGED <<clock, rows, caches, ledger, history>>

(* find_active_by_balance; start_time is taken right after it *)
ActiveCheck(r) ==
  /\ pc[r] = "activeCheck"
  /\ IF \E s \in Sessions : Open(s) /\ session[s].bal = loc[r].bal
     THEN Reply(r)
     ELSE Move(r, "raw", [loc[r] EXCEPT !.at = clock, !.next = "access"])
  /\ UNCHANGED <<clock, rows, caches, ledger, history>>

(* faulty: the status of the station is not looked at *)
AccessAnyStation(r) ==
  /\ pc[r] = "access"
  /\ IF Valid(loc[r].row, loc[r].at)
     THEN Move(r, "raw", [loc[r] EXCEPT !.next = "insert"])
     ELSE Reply(r)
  /\ UNCHANGED <<clock, rows, caches, ledger, history>>

(* validate_access on the cached balance, then the status of the device *)
Access(r) ==
  /\ pc[r] = "access"
  /\ IF Valid(loc[r].row, loc[r].at) /\ device[loc[r].dev] = "available"
     THEN Move(r, "raw", [loc[r] EXCEPT !.next = "insert"])
     ELSE Reply(r)
  /\ UNCHANGED <<clock, rows, caches, ledger, history>>

Insert(r) ==
  /\ pc[r] = "insert"
  /\ \E s \in Sessions :
       /\ session[s].phase = "none"
       /\ session' = [session EXCEPT ![s] =
            [phase |-> "open", bal |-> loc[r].bal, dev |-> loc[r].dev,
             start |-> loc[r].at, end |-> None, used |-> 0]]
       /\ openCache' = [openCache EXCEPT ![s] = "none"]
       /\ Move(r, "occupy", [NoLocals EXCEPT !.op = "start", !.dev = loc[r].dev])
  /\ UNCHANGED <<clock, wallet, device, rawCache, ledger, history>>

Occupy(r) ==
  /\ pc[r] = "occupy"
  /\ device' = [device EXCEPT ![loc[r].dev] = "in_use"]
  /\ Reply(r)
  /\ UNCHANGED <<clock, wallet, session, caches, ledger, history>>

-----------------------------------------------------------------------------
(* Charging a session: charge_session_delta and deduct_minutes *)

Owed(r) ==
  LET s == loc[r].sid
      now == IF loc[r].op = "heartbeat" THEN clock ELSE loc[r].at
  IN Consumption(loc[r].row, session[s].start, now)

AfterCharge(r) == IF loc[r].op = "heartbeat" THEN "refresh" ELSE "close"

(* faulty: a last started minute is recorded and not charged *)
ChargeNothingForOne(r) ==
  /\ pc[r] = "charge"
  /\ Owed(r) <= loc[r].seen + 1
  /\ Move(r, AfterCharge(r), [loc[r] EXCEPT !.total = Owed(r)])
  /\ UNCHANGED <<clock, rows, caches, ledger, history>>

(* nothing new to charge: the cached balance stands *)
ChargeNothing(r) ==
  /\ pc[r] = "charge"
  /\ Owed(r) <= loc[r].seen
  /\ Move(r, AfterCharge(r), [loc[r] EXCEPT !.total = Owed(r)])
  /\ UNCHANGED <<clock, rows, caches, ledger, history>>

(* faulty: the deduction is computed on the cached balance *)
TakeFromSnapshot(r, minutes, total) ==
  LET b == loc[r].bal
      updated == Deducted(loc[r].row, minutes)
  IN
  /\ wallet' = [wallet EXCEPT ![b] = updated]
  /\ debited' = [debited EXCEPT ![loc[r].sid] = @ + minutes]
  /\ Move(r, "sync", [loc[r] EXCEPT !.row = updated, !.minutes = minutes,
                                    !.total = total])
  /\ UNCHANGED <<clock, session, device, caches, ledger, credited, aborts>>

Take(r, minutes, total) ==
  LET b == loc[r].bal
      updated == Deducted(wallet[b], minutes)
  IN
  /\ wallet' = [wallet EXCEPT ![b] = updated]
  /\ debited' = [debited EXCEPT ![loc[r].sid] = @ + minutes]
  /\ Move(r, "sync", [loc[r] EXCEPT !.row = updated, !.minutes = minutes,
                                    !.total = total])
  /\ UNCHANGED <<clock, session, device, caches, ledger, credited, aborts>>

(* faulty: what was charged before is charged again *)
ChargeTotal(r) ==
  /\ pc[r] = "charge"
  /\ Owed(r) > loc[r].seen
  /\ Take(r, Owed(r), Owed(r))

ChargeDelta(r) ==
  /\ pc[r] = "charge"
  /\ Owed(r) > loc[r].seen
  /\ Take(r, Owed(r) - loc[r].seen, Owed(r))

(* faulty: the snapshot of the balance is left as it was *)
SyncSessionOnly(r) ==
  LET player == Owner[loc[r].bal]
      after == IF loc[r].op \in {"recharge", "sweep"} THEN "idle" ELSE "ledger"
  IN
  /\ pc[r] = "sync"
  /\ \/ OpenOf(player) = {} /\ UNCHANGED openCache
     \/ \E s \in LatestOf(player) : openCache' = [openCache EXCEPT ![s] = "none"]
  /\ IF after = "idle" THEN Reply(r) ELSE Move(r, after, loc[r])
  /\ UNCHANGED <<clock, rows, rawCache, ledger, history>>

(* sync_balance_cache_after_mutation: the row the UPDATE returned is written *)
(* through and the snapshot of the player's open session is dropped          *)
SyncCache(r) ==
  LET player == Owner[loc[r].bal]
      after == IF loc[r].op \in {"recharge", "sweep"} THEN "idle" ELSE "ledger"
  IN
  /\ pc[r] = "sync"
  /\ rawCache' = [rawCache EXCEPT ![loc[r].bal] = loc[r].row]
  /\ \/ OpenOf(player) = {} /\ UNCHANGED openCache
     \/ \E s \in LatestOf(player) : openCache' = [openCache EXCEPT ![s] = "none"]
  /\ IF after = "idle" THEN Reply(r) ELSE Move(r, after, loc[r])
  /\ UNCHANGED <<clock, rows, ledger, history>>

(* faulty: a deduction that empties the wallet is not entered *)
AppendUnlessEmptied(r) ==
  LET after == IF loc[r].op = "reconcile" THEN "close" ELSE "record"
  IN
  /\ pc[r] = "ledger"
  /\ usage' = IF loc[r].row.rem = 0 THEN usage
              ELSE [usage EXCEPT ![loc[r].sid] = @ + loc[r].minutes]
  /\ Move(r, after, loc[r])
  /\ UNCHANGED <<clock, rows, caches, topup, history>>

AppendUsage(r) ==
  LET after == IF loc[r].op = "reconcile" THEN "close" ELSE "record"
  IN
  /\ pc[r] = "ledger"
  /\ usage' = [usage EXCEPT ![loc[r].sid] = @ + loc[r].minutes]
  /\ Move(r, after, loc[r])
  /\ UNCHANGED <<clock, rows, caches, topup, history>>

(* faulty: the UPDATE is not guarded *)
RecordAnyway(r) ==
  /\ pc[r] = "record"
  /\ session' = [session EXCEPT ![loc[r].sid].used = loc[r].total]
  /\ Move(r, AfterCharge(r), loc[r])
  /\ UNCHANGED <<clock, wallet, device, caches, ledger, history>>

(* update_time_credits_consumed, guarded by endTime IS NULL *)
RecordUsed(r) ==
  LET s == loc[r].sid
  IN
  /\ pc[r] = "record"
  /\ \/ /\ Open(s)
        /\ session' = [session EXCEPT ![s].used = loc[r].total]
        /\ Move(r, AfterCharge(r), loc[r])
     \/ /\ ~Open(s)
        /\ Reply(r)
        /\ UNCHANGED session
  /\ UNCHANGED <<clock, wallet, device, caches, ledger, history>>

-----------------------------------------------------------------------------
(* heartbeat_for_player and the session poll of the kiosk *)

BeginHeartbeat(r, s) ==
  /\ Open(s)
  /\ Arrive(r, "heartbeat", "raw",
            [NoLocals EXCEPT !.op = "heartbeat", !.sid = s,
                             !.bal = session[s].bal,
                             !.seen = session[s].used, !.next = "charge"])
  /\ UNCHANGED <<clock, rows, caches, ledger, history>>

(* invalidate_session, then find_enriched_by_id for the write-through *)
Refresh(r) ==
  /\ pc[r] = "refresh"
  /\ openCache' = [openCache EXCEPT ![loc[r].sid] = "none"]
  /\ Move(r, "writeThrough",
          [loc[r] EXCEPT !.snap = session[loc[r].sid].phase])
  /\ UNCHANGED <<clock, rows, rawCache, ledger, history>>

WriteThrough(r) ==
  /\ pc[r] = "writeThrough"
  /\ openCache' = [openCache EXCEPT ![loc[r].sid] = loc[r].snap]
  /\ \/ loc[r].op # "heartbeat" /\ Move(r, "release", loc[r])
     \/ loc[r].op = "heartbeat" /\ loc[r].row.rem = 0 /\ Move(r, "autoEnd", loc[r])
     \/ loc[r].op = "heartbeat" /\ loc[r].row.rem > 0 /\ Reply(r)
  /\ UNCHANGED <<clock, rows, rawCache, ledger, history>>

(* open_kiosk_session_for_player: find_open_session_for_player, find_by_id *)
BeginPoll(r, player) ==
  /\ \E s \in LatestOf(player) :
       Arrive(r, "poll", "raw",
              [NoLocals EXCEPT !.op = "poll", !.sid = s,
                               !.bal = session[s].bal,
                               !.seen = session[s].used, !.next = "project"])
  /\ UNCHANGED <<clock, rows, caches, ledger, history>>

(* faulty: minutes played since the last charge are not counted *)
ProjectUncharged(r) ==
  /\ pc[r] = "project"
  /\ IF loc[r].row.rem = 0 THEN Move(r, "autoEnd", loc[r]) ELSE Reply(r)
  /\ UNCHANGED <<clock, rows, caches, ledger, history>>

Project(r) ==
  LET s == loc[r].sid
  IN
  /\ pc[r] = "project"
  /\ IF DisplayRemaining(loc[r].row, session[s].start, loc[r].seen, clock) = 0
     THEN Move(r, "autoEnd", loc[r])
     ELSE Reply(r)
  /\ UNCHANGED <<clock, rows, caches, ledger, history>>

(* auto_end_expired: ends the session if it is still open, and fixes end_time *)
AutoEnd(r) ==
  /\ pc[r] = "autoEnd"
  /\ IF Open(loc[r].sid)
     THEN Move(r, "enriched",
               [NoLocals EXCEPT !.op = "staffEnd", !.sid = loc[r].sid,
                                !.at = clock, !.next = "endCheck"])
     ELSE Reply(r)
  /\ UNCHANGED <<clock, rows, caches, ledger, history>>

-----------------------------------------------------------------------------
(* Ending a session *)

(* the kiosk's and the TV's end handlers first look for a replayed end *)
BeginEnd(r, s) ==
  /\ session[s].phase # "none"
  /\ debited[s] <= MaxDebited
  /\ Arrive(r, "end", "enriched",
            [NoLocals EXCEPT !.op = "end", !.sid = s, !.next = "replayCheck"])
  /\ UNCHANGED <<clock, rows, caches, ledger, history>>

(* the response shows the balance, read through the cache *)
ShowBalance(r) ==
  Move(r, "raw", [NoLocals EXCEPT !.op = "end", !.next = "idle",
                                  !.bal = session[loc[r].sid].bal])

ReplayCheck(r) ==
  /\ pc[r] = "replayCheck"
  /\ IF loc[r].snap = "ended"
     THEN ShowBalance(r)
     ELSE Move(r, "enriched", [loc[r] EXCEPT !.next = "endCheck"])
  /\ UNCHANGED <<clock, rows, caches, ledger, history>>

(* the counter calls end() directly, a reconciling client with its own total *)
BeginStaffEnd(r, s) ==
  /\ session[s].phase # "none"
  /\ debited[s] <= MaxDebited
  /\ \/ Arrive(r, "staffEnd", "enriched",
               [NoLocals EXCEPT !.op = "staffEnd", !.sid = s,
                                !.next = "endCheck"])
     \/ \E m \in ClientTotals :
          Arrive(r, "reconcile", "enriched",
                 [NoLocals EXCEPT !.op = "reconcile", !.sid = s, !.total = m,
                                  !.next = "endCheck"])
  /\ UNCHANGED <<clock, rows, caches, ledger, history>>

(* end(): endTime is checked on the cached session; the raw row read next    *)
(* only supplies timeCreditsConsumed                                         *)
EndCheck(r) ==
  LET row == session[loc[r].sid]
      end == IF loc[r].at = None THEN clock ELSE loc[r].at
      charging == IF loc[r].op = "reconcile" THEN "settle" ELSE "charge"
  IN
  /\ pc[r] = "endCheck"
  /\ IF loc[r].snap = "ended"
     THEN Reply(r)
     ELSE Move(r, "raw", [loc[r] EXCEPT !.bal = row.bal, !.seen = row.used,
                                        !.at = end, !.next = charging])
  /\ UNCHANGED <<clock, rows, caches, ledger, history>>

(* a client total is deducted as it stands *)
Settle(r) ==
  /\ pc[r] = "settle"
  /\ \/ loc[r].total > 0 /\ Take(r, loc[r].total, loc[r].total)
     \/ /\ loc[r].total = 0
        /\ Move(r, "close", loc[r])
        /\ UNCHANGED <<clock, rows, caches, ledger, history>>

(* SessionRepository::end, guarded by endTime IS NULL *)
Close(r) ==
  LET s == loc[r].sid
  IN
  /\ pc[r] = "close"
  /\ \/ /\ Open(s)
        /\ session' = [session EXCEPT ![s].phase = "ended",
                                      ![s].end = loc[r].at,
                                      ![s].used = loc[r].total]
        /\ Move(r, "refresh", loc[r])
     \/ /\ ~Open(s)
        /\ Reply(r)
        /\ UNCHANGED session
  /\ UNCHANGED <<clock, wallet, device, caches, ledger, history>>

Release(r) ==
  /\ pc[r] = "release"
  /\ device' = [device EXCEPT ![session[loc[r].sid].dev] = "available"]
  /\ IF loc[r].op = "end" THEN ShowBalance(r) ELSE Reply(r)
  /\ UNCHANGED <<clock, wallet, session, caches, ledger, history>>

-----------------------------------------------------------------------------
(* purchase_or_recharge of an existing balance: the row is read and its       *)
(* snapshot dropped, and only then is the UPDATE issued                       *)

BeginRecharge(r, b) ==
  /\ credited[b] + Credits <= MaxCredits[b]
  /\ Arrive(r, "recharge", "recharge",
            LET carry == CarriesForward(wallet[b], clock)
            IN [NoLocals EXCEPT !.op = "recharge", !.bal = b, !.carry = carry,
                  !.at = IF b \in HappyHours /\ carry THEN wallet[b].expiry
                         ELSE clock + Validity])
  /\ rawCache' = [rawCache EXCEPT ![b] = None]
  /\ UNCHANGED <<clock, rows, openCache, ledger, history>>

(* faulty: minutes of a happy hours wallet are replaced *)
RechargeTimeOnly(r) ==
  LET b == loc[r].bal
      kept == IF loc[r].carry /\ b \notin HappyHours THEN wallet[b].rem ELSE 0
  IN
  /\ pc[r] = "recharge"
  /\ \E rate \in Rates :
       LET updated == [rem |-> kept + Credits, status |-> "active",
                       expiry |-> loc[r].at, rate |-> rate]
       IN /\ wallet' = [wallet EXCEPT ![b] = updated]
          /\ Move(r, "credit", [loc[r] EXCEPT !.row = updated,
                                              !.minutes = Credits])
  /\ credited' = [credited EXCEPT ![b] = @ + Credits]
  /\ UNCHANGED <<clock, session, device, caches, ledger, debited, aborts>>

(* the plan's profile replaces the balance's own when the plan has one *)
Recharge(r) ==
  LET b == loc[r].bal
      kept == IF loc[r].carry THEN wallet[b].rem ELSE 0
  IN
  /\ pc[r] = "recharge"
  /\ \E rate \in Rates :
       LET updated == [rem |-> kept + Credits, status |-> "active",
                       expiry |-> loc[r].at, rate |-> rate]
       IN /\ wallet' = [wallet EXCEPT ![b] = updated]
          /\ Move(r, "credit", [loc[r] EXCEPT !.row = updated,
                                              !.minutes = Credits])
  /\ credited' = [credited EXCEPT ![b] = @ + Credits]
  /\ UNCHANGED <<clock, session, device, caches, ledger, debited, aborts>>

AppendTopup(r) ==
  /\ pc[r] = "credit"
  /\ topup' = [topup EXCEPT ![loc[r].bal] = @ + loc[r].minutes]
  /\ Move(r, "sync", loc[r])
  /\ UNCHANGED <<clock, rows, caches, usage, history>>

-----------------------------------------------------------------------------
(* expire_stale_in_results: a listing marks the stale balances it read *)

(* faulty: a wallet is swept on the minute it expires *)
BeginSweepEarly(r, b) ==
  /\ wallet[b].status = "active"
  /\ wallet[b].expiry <= clock
  /\ Arrive(r, "sweep", "expire", [NoLocals EXCEPT !.op = "sweep", !.bal = b])
  /\ UNCHANGED <<clock, rows, caches, ledger, history>>

BeginSweep(r, b) ==
  /\ wallet[b].status = "active"
  /\ wallet[b].expiry < clock
  /\ Arrive(r, "sweep", "expire", [NoLocals EXCEPT !.op = "sweep", !.bal = b])
  /\ UNCHANGED <<clock, rows, caches, ledger, history>>

Expire(r) ==
  /\ pc[r] = "expire"
  /\ wallet' = [wallet EXCEPT ![loc[r].bal].status = "expired"]
  /\ Move(r, "reread", loc[r])
  /\ UNCHANGED <<clock, session, device, caches, ledger, history>>

Reread(r) ==
  /\ pc[r] = "reread"
  /\ Move(r, "sync", [loc[r] EXCEPT !.row = wallet[loc[r].bal]])
  /\ UNCHANGED <<clock, rows, caches, ledger, history>>

-----------------------------------------------------------------------------
(* The environment *)

Tick ==
  /\ clock < MaxClock
  /\ clock' = clock + 1
  /\ UNCHANGED <<rows, caches, ledger, history, pc, loc>>

(* a TTL runs out, Redis evicts a key, or another pod's invalidation arrives *)
EvictRaw(b) ==
  /\ rawCache[b] # None
  /\ rawCache' = [rawCache EXCEPT ![b] = None]
  /\ UNCHANGED <<clock, rows, openCache, ledger, history, pc, loc>>

EvictEnriched(s) ==
  /\ openCache[s] # "none"
  /\ openCache' = [openCache EXCEPT ![s] = "none"]
  /\ UNCHANGED <<clock, rows, rawCache, ledger, history, pc, loc>>

(* a pod stops, a statement fails, or the client hangs up and its handler is *)
(* dropped at an await                                                       *)
Abort(r) ==
  /\ aborts < MaxAborts
  /\ pc[r] # "idle"
  /\ aborts' = aborts + 1
  /\ Reply(r)
  /\ UNCHANGED <<clock, rows, caches, ledger, debited, credited>>

-----------------------------------------------------------------------------
Begin(r) ==
  \/ \E b \in Balances, d \in Devices : BeginStart(r, b, d)
  \/ \E b \in Balances, d \in Devices : BeginStaffStart(r, b, d)
  \/ \E s \in Sessions : BeginHeartbeat(r, s)
  \/ \E player \in Players : BeginPoll(r, player)
  \/ \E s \in Sessions : BeginEnd(r, s)
  \/ \E s \in Sessions : BeginStaffEnd(r, s)
  \/ \E b \in Balances : BeginRecharge(r, b)
  \/ \E b \in Balances : BeginSweep(r, b)

ReadCached(r) ==
  \/ RawHit(r) \/ RawMiss(r) \/ RawFill(r)
  \/ EnrichedHit(r) \/ EnrichedMiss(r) \/ EnrichedFill(r)

StartStep(r) ==
  \/ Admit(r) \/ ActiveCheck(r) \/ Access(r) \/ Insert(r) \/ Occupy(r)

ChargeStep(r) ==
  \/ ChargeNothing(r) \/ ChargeDelta(r) \/ SyncCache(r) \/ AppendUsage(r)
  \/ RecordUsed(r)

SessionStep(r) ==
  \/ Refresh(r) \/ WriteThrough(r) \/ Project(r) \/ AutoEnd(r)
  \/ ReplayCheck(r) \/ EndCheck(r) \/ Settle(r) \/ Close(r) \/ Release(r)

WalletStep(r) ==
  \/ Recharge(r) \/ AppendTopup(r) \/ Expire(r) \/ Reread(r)

Continue(r) ==
  \/ ReadCached(r) \/ StartStep(r) \/ ChargeStep(r) \/ SessionStep(r)
  \/ WalletStep(r)

Environment ==
  \/ Tick
  \/ \E b \in Balances : EvictRaw(b)
  \/ \E s \in Sessions : EvictEnriched(s)
  \/ \E r \in Requests : Abort(r)

Next ==
  \/ \E r \in Requests : Begin(r) \/ Continue(r)
  \/ Environment

Spec == Init /\ [][Next]_vars

-----------------------------------------------------------------------------
(* What a request carries from one statement to the next *)

RawSteps == {"raw", "rawFill"}

EnrichedSteps == {"enriched", "enrichedFill"}

(* the statement a request works towards, the cached read before it included *)
Stage(step, l) == IF step \in RawSteps \cup EnrichedSteps THEN l.next ELSE step

Starting == {"admit", "activeCheck", "access", "insert"}

Charging == {"charge", "settle"}

Charged == {"ledger", "record", "close"}

Serving == {"project", "autoEnd", "replayCheck", "endCheck", "refresh",
            "writeThrough", "release"}

Selling == {"recharge", "credit", "expire", "reread", "sync"}

(* sync is shared by the charge of a session and by a change of the wallet *)
Metered(step, l) ==
  \/ Stage(step, l) \in Charging \cup Charged
  \/ step = "sync" /\ l.op \in Enders \cup {"heartbeat"}

(* A request that is about to use a local has set it before: each statement  *)
(* of the services finds the row ids, times and operation it relies on.      *)
Carries(sessions, step, l) ==
  LET stage == Stage(step, l)
      needsSession == Metered(step, l) \/ stage \in Serving
      needsWallet == stage \in Starting \cup Charging \cup Selling
                       \/ step \in RawSteps
      needsTime == \/ stage \in {"access", "insert", "recharge"}
                   \/ Metered(step, l) /\ l.op \in Enders
  IN
  /\ step \in RawSteps =>
       l.next \in Starting \cup Charging \cup {"project", "idle"}
  /\ step \in EnrichedSteps => l.next \in {"replayCheck", "endCheck"}
  /\ needsSession =>
       l.sid \in Sessions /\ sessions[l.sid].phase # "none"
  /\ needsWallet => l.bal \in Balances
  /\ stage \in Starting => l.dev \in Devices
  /\ needsTime => l.at \in Nat
  /\ stage \in Charging => l.bal = sessions[l.sid].bal
  /\ stage \in Charging \cup Charged =>
       l.op \in Enders \cup {"heartbeat"}
  /\ stage \in {"charge", "record"} => l.op \in {"heartbeat", "end", "staffEnd"}
  /\ stage = "settle" => l.op = "reconcile"
  /\ stage \in {"replayCheck", "endCheck", "close"} => l.op \in Enders
  /\ stage \in {"recharge", "credit"} => l.op = "recharge"
  /\ stage \in {"expire", "reread"} => l.op = "sweep"
  /\ step = "sync" => l.op \notin {"none", "start", "poll"}

(* What a request is about to record has been charged by it or before it. *)
Covers(charges, step, l) ==
  /\ Stage(step, l) = "charge" => l.seen <= charges[l.sid]
  /\ Metered(step, l) /\ Stage(step, l) \notin Charging =>
       l.total <= charges[l.sid]

(* a row of usage_sessions always names its wallet *)
Payable(s) == session[s].phase # "none" => session[s].bal \in Balances

-----------------------------------------------------------------------------
(* Properties that survive every interleaving and every lost request *)

(* No minute of play is recorded on a session before deduct_minutes charged  *)
(* it to the wallet: a request that stops between the two statements, or     *)
(* races another, may cost the player twice, never the venue.                *)
RecordedWasCharged == \A s \in Sessions : session[s].used <= debited[s]

(* The inductive invariant behind the theorems of SessionWallet_proof.       *)
IInv ==
  /\ TypeOK
  /\ \A s \in Sessions : Payable(s)
  /\ \A r \in Requests : Carries(session, pc[r], loc[r])
  /\ \A r \in Requests : Covers(debited, pc[r], loc[r])
  /\ RecordedWasCharged

(* A row with an endTime is final: neither a late heartbeat nor a second end *)
(* that passed the check on a cached session changes what was billed.        *)
EndedIsFinal ==
  [][\A s \in Sessions :
       session[s].phase = "ended" => session'[s] = session[s]]_vars

(* A wallet marked active always has minutes: deductions, recharges and      *)
(* expiry sweeps of the same row, in any order, never leave it active and    *)
(* empty, which the listing of usable balances and start would trip over.    *)
ActiveHasMinutes ==
  \A b \in Balances : wallet[b].status = "active" => wallet[b].rem > 0

(* The session and balance services implement the meter of SessionMeter. *)
Meter == INSTANCE SessionMeter WITH
  Wallets <- Balances,
  Meters <- Sessions,
  Plan <- Credits,
  Opening <- FirstMinutes,
  Nobody <- None,
  left <- [b \in Balances |-> wallet[b].rem],
  phase <- [s \in Sessions |-> session[s].phase],
  payer <- [s \in Sessions |-> session[s].bal],
  shown <- [s \in Sessions |-> session[s].used],
  paid <- debited

(* Every step is a step of the meter or changes nothing the meter shows:     *)
(* minutes leave only the wallet a session was opened on, for that session.  *)
ImplementsMeter == Meter!Spec

Quiet == aborts = 0 /\ \A r \in Requests : pc[r] = "idle"

(* The ledger never shows a minute that was not charged or sold; and when no *)
(* request was lost it shows them all once the calls have returned.          *)
LedgerComplete ==
  /\ \A s \in Sessions : usage[s] <= debited[s]
  /\ \A b \in Balances : topup[b] <= credited[b]
  /\ Quiet => usage = debited /\ topup = credited

-----------------------------------------------------------------------------
(* Properties of calls that do not overlap *)

(* start() admits one open session per wallet. *)
OneSessionPerWallet ==
  \A s, t \in Sessions :
    (Open(s) /\ Open(t) /\ session[s].bal = session[t].bal) => s = t

(* A session is billed for the minutes it lasted, neither less nor more, and *)
(* its row agrees with what left the wallet.                                 *)
BilledForDuration ==
  Quiet => \A s \in Sessions :
    LET row == session[s]
    IN /\ row.used = debited[s]
       /\ Open(s) => debited[s] <= Consumption(wallet[row.bal], row.start, clock)
       /\ row.phase = "ended" =>
            debited[s] = Consumption(wallet[row.bal], row.start, row.end)

(* Between calls the snapshots in Redis are the rows in PostgreSQL. *)
CachesCoherent ==
  Quiet => /\ \A b \in Balances : rawCache[b] \in {None, wallet[b]}
           /\ \A s \in Sessions : openCache[s] \in {"none", session[s].phase}

(* Between calls a station is in use exactly when a session is open on it:   *)
(* no station stays blocked, none is offered twice.                          *)
DeviceAgrees ==
  Quiet => \A d \in Devices :
    device[d] = "in_use" <=> \E s \in Sessions : Open(s) /\ session[s].dev = d

(* Recharging a usable wallet adds the plan's minutes to what is left on it. *)
UsableMinutesStack ==
  [][\A b \in Balances :
       (credited'[b] > credited[b] /\ CarriesForward(wallet[b], clock))
         => wallet'[b].rem = wallet[b].rem + Credits]_vars

(* A wallet is marked expired only once its expiry date has passed. *)
ExpiredMeansPast ==
  \A b \in Balances : wallet[b].status = "expired" => wallet[b].expiry < clock

(* A player has one open session in the whole venue (ADR-0017). *)
SingleSession ==
  \A player \in Players : Cardinality(OpenOf(player)) <= 1

(* An end for a session that is closed already deducts nothing.              *)
NoSecondDeduction ==
  [][\A s \in Sessions :
       session[s].phase = "ended" => debited'[s] = debited[s]]_vars

-----------------------------------------------------------------------------
(* Liveness *)

(* Handlers run to completion, the kiosk's reconcile timer polls again and   *)
(* again while it shows a session, snapshots outlive their TTL only briefly, *)
(* and the clock moves on.                                                   *)
Fairness ==
  /\ \A r \in Requests : WF_vars(Continue(r))
  /\ \A player \in Players :
       SF_vars(\E r \in Requests : BeginPoll(r, player))
  /\ \A b \in Balances : WF_vars(EvictRaw(b))
  /\ WF_vars(Tick)

FairSpec == Spec /\ Fairness

OutOfTime(s) ==
  Open(s) /\ DisplayRemaining(wallet[session[s].bal], session[s].start,
                              session[s].used, clock) = 0

(* A session whose wallet ran dry or expired is closed by the server. *)
OutOfTimeEnds == \A s \in Sessions : OutOfTime(s) ~> ~Open(s)

=============================================================================
