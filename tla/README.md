# A TLA+ model of Arena 360

Arena 360 runs a gaming café: players buy plans that put minutes on a prepaid
wallet, open a session on a PC or a console, and are charged as they play; the
counter sells products, keeps cash drawers and lends on credit. The program is a
Rust service over PostgreSQL and Redis (`src/apps/backend`) with a kiosk shell on
each station (`src/apps/kiosk`), a TV screen and a web administration in front of it.
Several pods of the service run at once; an HTTP request is a chain of awaits, each of
which lets any other request run. A kiosk is one thread of callbacks, each of which
goes on with what it knew before it waited.

These modules model what both keep, what each call or callback does statement by
statement, and what must hold whatever the interleaving.

## Inventory

| component | state | operations | what is hard | modelled in |
|---|---|---|---|---|
| Gaming sessions (`services/session_service.rs`) | `usage_sessions`, `session:enriched:*` | start (kiosk, counter), heartbeat, poll, end (kiosk, TV, counter, reconcile), automatic end | check-then-insert; charge and record are two statements; an end decided on a cached session | `SessionWallet` |
| Player balances (`services/balance_service.rs`) | `player_plan_balances`, `player_plan_ledger`, `balance:raw:*` | purchase, recharge, deduct, validate, expiry sweep | decisions on rows read earlier; write-through order; ledger row after the mutation | `SessionWallet` |
| Cache (`cache/mod.rs`) | Redis keys with TTLs | get_or_set, set, invalidate | fetch and store are separate; a late store brings a stale value back | `SessionWallet`, `CounterSale` |
| Realtime (`realtime/`) | `realtime_outbox`, `realtime_deliveries`, connections | publish, dispatch, subscribe, ack, replay, purge | lost notifications, replay against live dispatch, duplicates | `RealtimeDelivery` |
| Kiosk client (`context/KioskProvider.tsx`, `lib/`) | React state, token, stored snapshot, end-intent queue | sign in, sign in again, start, end, teardown, reconcile, replay, restore | answers applied after what they were asked about has changed; an end lost on the way; a restart between two steps | `KioskSession` |
| Kiosk connection (`lib/realtime.ts`) | a WebSocket, its timer, its flags | connect, disconnect, reconnect, subscribe | callbacks of sockets already replaced | `KioskSocket` |
| Shifts (`services/shift_service.rs`) | `shifts` | clock in and out, login, close, handover, force close | check-then-insert; a handover in many calls | `CashDrawer` |
| Cash registers (`services/cash_register_service.rs`) | `cash_registers`, entries | open, carry forward, entry, close, reconcile | totals read before they are written | `CashDrawer` |
| Cash deposits (`services/cash_deposit_service.rs`) | `cash_deposits` | initiate, approve, reject | decided on before and after their register is closed | `CashDrawer` |
| Kiosk orders (`services/kiosk_order_service.rs`) | `kiosk_orders` | place, prepare, cancel, sell, convert | an order and its sale are written by different calls | `CounterSale` |
| Transactions (`services/transaction_service.rs`) | `transactions`, lines | sale of products, of plans, overruling of a status | the check of the stock, the credit and the cash entry are apart | `CounterSale` |
| Player credit (`services/credit_service.rs`) | limit, debts, settlements, a cached sum | eligibility, settle, set limit, summary | the sum is stale; items are locked one by one | `CounterSale` |
| Inventory (`services/inventory_service.rs`) | `location_stock`, `stock_movements`, transfer requests, waste events | receipt, transfer, waste, count, the goods of a sale | rows locked line by line by transactions that overlap; a row that is not there cannot be locked | `StockRoom` |
| Deduction profiles, devices, schema | rates, `devices.status`, constraints | | | as far as the others use them |
| Staff allowance, authentication, TV and admin clients, notifications, statistics, mail, catalogues, contracts, UI | rows, widgets | | no protocol of their own | no |

Sessions call the balance service to charge and the device service to mark a
station; the balance service drops snapshots the session service reads; both
publish events through the outbox. A kiosk asks the session service over HTTP and hears
of closed sessions over its connection. Orders become transactions; transactions
move stock, registers and credit; deposits and handovers move registers.

What makes the components correct, in short: a session is charged for the minutes
it lasted and to one wallet; a wallet is neither overdrawn nor loses minutes that
were paid for; an event that must reach somebody does; an end a player asked for is
not forgotten; a drawer that was counted stays counted; goods are sold once and only
if they are there; a debt is paid once.

## Plan, and what became of it

1. `SessionWallet`, the core, and `SessionMeter`, the specification it implements. Done, with proofs.
2. `RealtimeDelivery`. Done, with proofs of every safety property.
3. `KioskSession` and `KioskSocket`: the kiosk against the answers of the backend. Done, with proofs.
4. `CashDrawer`: shifts, registers and deposits. Done, with proofs.
5. `CounterSale` and `SaleBook`, the specification it implements: orders, sales, credit,
   settlement, stock. Done, with proofs of the refinement and of the sums of requests in turn.
6. `StockRoom`: receipts, transfers, waste and counts. Done, with proofs.
7. Left: the interval algorithm of the deduction profiles, the first purchase of a plan and
   the staff allowance,
   rooms of the realtime service whose members change, and the compositions of
   `KioskSession` with `SessionWallet` and of `CounterSale` with `CashDrawer`, both of
   which exceed what TLC explores (see "Bounds and composition").

Each component has one module, an `MC` module shared by those that are checked side by
side, and a proof module; recursion is kept out of the modules that are proved about
(sums are folds of the community modules).

| module | lines it stands for | proved in |
|---|---|---|
| `SessionWallet`, `SessionMeter` | session, balance and cache services | `SessionWallet_proof`, `Totals` |
| `RealtimeDelivery` | `realtime/` | `RealtimeDelivery_proof` |
| `KioskSession` | `KioskProvider.tsx`, `offlineQueue.ts`, `authSession.ts` | `KioskSession_proof` |
| `KioskSocket` | `lib/realtime.ts` of the kiosk | `KioskSocket_proof` |
| `CashDrawer` | shift, register and deposit services and their handlers | `CashDrawer_proof` |
| `CounterSale`, `SaleBook` | order, transaction and credit services, sale stock | `CounterSale_proof`, `Totals` |
| `StockRoom` | inventory service and repository | `StockRoom_proof` |
| `MCSessionWallet`, `MCRealtimeDelivery`, `MCVenue` | instances for TLC | |

## Runs at a glance

| run | expects | properties |
|---|---|---|
| `wallet_concurrent` | pass | `IInv`, `RecordedWasCharged`, `ActiveHasMinutes`, `LedgerComplete`, `EndedIsFinal`, `ImplementsMeter` |
| `wallet_serial` | pass | `OneSessionPerWallet`, `BilledForDuration`, `CachesCoherent`, `DeviceAgrees`, `ExpiredMeansPast`, `UsableMinutesStack` |
| `wallet_fair` | pass | `OutOfTimeEnds` |
| `realtime_pods` | pass | `ListIntact`, `AckedWasReceived`, `SentIsTracked`, `AckIsFinal` |
| `realtime_fair` | pass | `OnlyAudience`, `ReplayedIsAcked`, `NotifiedIsDelivered` |
| `venue_safety` | pass | kiosk: `IInv`, `EndIsKept`, `OneLiveSocket`, `HeardIsWanted`; drawer: `DrawerInv`, `PutBackIfRejected`, `ClosedIsCounted`, `SettledIsFinal`, `LoginRecovers`; counter: `CounterInv`, `ConfirmedOnce`, `LimitKeptInTurn`, `CashCountedInTurn`, `ImplementsBook`; stock: `StockInv` |
| `venue_fair` | pass | `ClosedIsLeft`, `ForeignIsCorrected`, `OfflineIsBounded`, `EveryTellerAnswers`, `EveryErrandEnds` |
| `v_single_session` | violation | `SingleSession` |
| `v_no_second_deduction` | violation | `NoSecondDeduction` |
| `v_missed_is_replayed` | violation | `MissedIsReplayed` |
| `v_close_is_reported` | violation | `CloseIsReported` |
| `v_carried_from_last_closed` | violation | `CarriedFromLastClosed` |

Each property of a passing run has a mutant, a definition marked "faulty" in its module:
put in the place of the one it mutates, it makes TLC find the property violated.

## SessionWallet

A request is a program counter `pc[r]` and its locals `loc[r]`. An action is one
database or Redis statement with the computation before the next await; no call of
these services holds a transaction across two of them.

| state | code |
|---|---|
| `wallet` | `player_plan_balances`: remaining minutes, status, expiry, deduction profile (its rate) |
| `session` | `usage_sessions`: endTime, balance, device, startTime, timeCreditsConsumed |
| `device` | `devices.status` |
| `rawCache` | Redis `balance:raw:{id}` |
| `openCache` | Redis `session:enriched:{id}`, by whether the session it holds has an endTime: only that is used for a decision |
| `usage`, `topup` | the minutes `player_plan_ledger` shows per session and per wallet |
| `debited`, `credited` | history: minutes `deduct_minutes` was told to take, minutes a recharge wrote |
| `clock`, `aborts` | the server's clock; requests cut off so far |

| call | actions, in the order of the code |
|---|---|
| `POST /kiosk/sessions` | `BeginStart` (search for an open session: resume or refuse), balance read, `Admit`, then as the counter |
| `POST /sessions` | `BeginStaffStart`, `ActiveCheck`, balance read, `Access`, balance read, `Insert`, `Occupy` |
| heartbeat | `BeginHeartbeat`, balance read, `ChargeNothing` or `ChargeDelta`, `SyncCache`, `AppendUsage`, `RecordUsed`, `Refresh`, `WriteThrough`, and `AutoEnd` on an empty wallet |
| poll of the current session | `BeginPoll`, balance read, `Project`, and `AutoEnd` when nothing is left |
| end by kiosk or TV | `BeginEnd`, session read, `ReplayCheck`, session read, `EndCheck`, balance read, charge as above, `Close`, `Refresh`, `WriteThrough`, `Release`, balance read |
| end by the counter | `BeginStaffEnd`, session read, `EndCheck`, as above; with a client's total `Settle` replaces the computed charge |
| automatic end | as the counter's, from `AutoEnd`, with its time fixed there |
| purchase on an existing balance | `BeginRecharge`, `Recharge`, `AppendTopup`, `SyncCache` |
| listing of balances | `BeginSweep`, `Expire`, `Reread`, `SyncCache` per stale balance |

A cached read is `RawHit`, or `RawMiss` and `RawFill` (the same three for a
session): between the fetch and the store the row may change. `EvictRaw` and
`EvictEnriched` are a TTL, an eviction and the invalidation sent by another pod.
`Abort` cuts a request off at any await: a pod that stops, a statement that
fails, a client that hangs up.

### Abstractions

- Events fall on whole minutes, so `ceil` and `floor` are exact; a profile is its
  rate. A rate that changes with the time of day is not modelled.
- Four groups of statements are one action each, because nothing they read is used
  for a decision in between: the four cache statements of
  `sync_balance_cache_after_mutation` with its search for an open session;
  `find_by_id`, `invalidate_session` and the read of the write-through; the read of
  a balance before a recharge and the deletion of its snapshot; the two searches of
  a poll.
- `debited` counts what `deduct_minutes` was asked for; the wallet stops at zero, as
  the `GREATEST(0, ...)` of the statement does.
- The scope, weekday and window checks of `validate_balance` are taken as met.
  Staff may give a start or an end time; it is the server's clock here. When the
  kiosk sends no balance the code picks one from the listing: any balance may be
  asked for here, and the listing's sweep is a call of its own.
- A client total (`reconcile`) is accepted from any staff client: the handler does
  not look at the reason. It is deducted on top of what heartbeats charged, as in
  the code.
- Not modelled: the first purchase, which inserts a balance; the TV session opened
  by pairing; the kiosk's system shift; Redis failures (the code ignores them);
  events, notifications and statistics, which no decision reads.

### Runs

| run | instance | shows |
|---|---|---|
| `wallet_concurrent` | two requests, one wallet, station and session; kiosk start, heartbeat, end, reconcile and recharge (`RacingCalls`); one purchase of two minutes | `IInv` (the inductive invariant), `RecordedWasCharged`, `ActiveHasMinutes`, `LedgerComplete`, `EndedIsFinal`, and the refinement `ImplementsMeter` |
| `wallet_serial` | one request, two wallets, stations and sessions of one player; every call but reconcile; two wallet minutes per minute | `OneSessionPerWallet`, `BilledForDuration`, `CachesCoherent`, `DeviceAgrees`, `ExpiredMeansPast`, `UsableMinutesStack` |
| `wallet_fair` | two requests, one of which may be cut off; counter start, heartbeat, poll | `OutOfTimeEnds` |
| `v_single_session` | two starts | `SingleSession` is violated |
| `v_no_second_deduction` | start and end, two requests | `NoSecondDeduction` is violated |

Two requests are enough for each race in the code, which is between the read and
the write of one request and one write of another; one minute of play, one minute on
the wallet and one purchase of two reach the empty wallet, the exact charge, the
overdraft, the expiry and the recharge of an expired wallet. The calls left out of the
concurrent run differ from one of those in only their first step, or, like the sweep,
write only the status of a wallet, and are in the serial run. The serial run
needs two wallets and stations for the session of one to be told from that of the
other, and two minutes for a heartbeat to charge twice.

`MaxClock`, `MaxCredits`, `MaxDebited` and `MaxAborts` bound the clock, the
purchases, the repeated ends of one session and the requests cut off. A clock at its
bound with nothing left to do is the end of a behaviour, hence `CHECK_DEADLOCK
FALSE`. `MaxDebited` is needed because an end on a stale snapshot may charge again
for as long as the snapshot lives.

The properties of the serial run do not hold when calls overlap, because a start, a
recharge, a sweep, a late store or a late status update overwrites a newer value. Two
findings quote what the code says of such a case (`v_single_session`,
`v_no_second_deduction`); of the others no text of the repository promises more than
what a single call does. `UsableMinutesStack` is one of these: two recharges that both
read an expired wallet keep the minutes of one.

### Fairness

Handlers run to completion (`WF` of `Continue`). The kiosk shows a session and asks
for it every 30 seconds (the reconcile timer of
`src/apps/kiosk/src/context/KioskProvider.tsx`), so a poll that can be made again and
again is made (`SF`: a request slot may be taken by another call in between). A
snapshot of a balance outlives its TTL of an hour only briefly (`WF` of
`EvictRaw`); time passes (`WF` of `Tick`). No process of the server closes
sessions: without the kiosk's polls `OutOfTimeEnds` does not hold.

### Proofs

`SessionWallet_proof` holds for every set of players,
balances, devices, sessions and requests, every rate and every bound, from the
assumptions `OwnerAssumption`, `NumberAssumption`, `NoneAssumption` and
`CallsAssumption` of the module.

- `Invariance`: `Spec => []IInv`. `RecordedWasCharged` is not inductive: a request
  that is about to record a total has to have charged it. `IInv` adds the types, that
  every opened row names a wallet (`Payable`), that a request carries the ids and times
  the statement it is at needs (`Carries`), and that the total it carries is covered
  by what was charged (`Covers`). `InitInv` and `NextInv` are the base and the step.
- `TypeCorrect`, `RecordedMinutesWereCharged`: the parts of `IInv` a reader asks for.
- `ActiveWalletsHaveMinutes`: `Spec => []ActiveHasMinutes`.
- `EndedSessionsAreFinal`: `Spec => EndedIsFinal`, an action property.
- `MeterImplemented`: `Spec => ImplementsMeter`. A start opens a meter, a charge pays, a
  guarded UPDATE shows or stops it (which is allowed because of `Covers`), a recharge
  sells; every other step stutters.
- `LedgerIsComplete`: `Spec => []LedgerComplete`. The ledger is a total over the wallets
  and sessions, and a fold cannot be unfolded by the provers (induction over data). `Totals`
  therefore proves once, from the theorems on finite sets, what a total does when the
  function it sums changes at one place, and that a sum with `MapThenSumSet` is such a total.
  With it `LedgerInv` is inductive: a charge takes from the wallet what it
  writes to the ledger in the same statement, and nothing else moves either.

The properties of the serial run hold for one request at a time, so they are no
invariants of the specification; their theorems assume `OneAtATime`, that `Requests` has
one member (the run's constants satisfy it; the clock, evictions and lost requests still
come in between), and hold for every value of the other constants. Each is about
what was read in one statement and is relied on in a later one, so each needs an
invariant that says what the one request knows at each statement:

- `OneSessionOfAWallet`, `ExpiredWalletsArePast`, `UsableMinutesAreKept`, from `FoundInv`:
  past its search a start is the only one on its wallet, a sweep marks a wallet that is
  still stale, and a wallet usable at the UPDATE of a recharge was usable at its read.
- `SnapshotsAreFresh`, from `FreshInv`: a snapshot is behind its row only while the one
  request is between the UPDATE and the write-through, and the row it holds is the one in
  the table.
- `StationsAgree`, from `RightInv`: a station's status is wrong only while the one request
  is between the row of `usage_sessions` and that of `devices`.
- `SessionsAreBilledForDuration`, from `BillInv`, `FreshInv` (an end that goes on has read
  an open session) and `RateInv` (which needs no turns). It assumes besides
  `OneRate`, since a recharge may change the rate of an open session, and
  `NoClientTotals`, since a client's total is charged as it stands. The run assumes the same.

Only model-checked: `OutOfTimeEnds` (liveness under fairness is out of the prover's reach).

### Findings

- Two starts at once leave two sessions open for one player, on one wallet even:
  the search and the insertion are awaits apart and no unique index stands behind.
- An end that read a session as open from its snapshot charges the wallet before the
  guarded UPDATE refuses it: a replayed end may deduct a second time.

## RealtimeDelivery

A service inserts an event into `realtime_outbox`; a trigger notifies every pod that
listens; each pod fetches the row and walks its list of connections: those subscribed
to the channel and in the audience get a row in `realtime_deliveries`, if the event is
durable, and a frame. A client acknowledges each event as it arrives. A connection
that opens is first sent what its subscriber has not acknowledged.

| state | code |
|---|---|
| `outbox`, `kind` | rows of `realtime_outbox`: not yet visible, stored, gone; channel, audience, durable |
| `deliveries` | rows of `realtime_deliveries`, by event and subscriber: none, pending (`ack_at IS NULL`), acked |
| `listener`, `inbox` | a pod's `PgListener` and the notifications it has buffered |
| `work` | the `dispatch` a pod is in: the event, the connections still to visit, whether the current one is about to be sent the frame |
| `members` | `Arc<RwLock<Vec<Connection>>>`, in its order |
| `phase`, `subs`, `out` | a connection: not accepted, registered, reading, socket lost; its subscriptions; frames not yet at the client |
| `acks` | acknowledgements under way |
| `received` | history: what has arrived at a subscriber |

| code | actions |
|---|---|
| `OutboxService::publish` | `Insert`, then `Commit` or `Rollback` |
| `DeliveryService::cleanup` | `Purge` (both its statements: either takes some rows away) |
| `Dispatcher::run` | `StartListener` (once: a pod that fails here never dispatches), `LoseListener`, `ResumeListener` |
| `Dispatcher::dispatch` | `Fetch`, then per connection `Skip`, or `Track` (durable) and `Send` |
| `connection::run` | `Connect`, `Replay`, `Drop` when the socket is lost, `Remove` |
| `handle_client_frame` | `Subscribe`, `Unsubscribe`, `Acknowledge` |
| `onmessage` of the kiosk and the administration | `Receive` |
| a pod that stops and starts | `Restart` |

The list is read-locked for a whole dispatch, so `Connect` and `Remove` wait for
`work[p] = Idle`; a connection is read-locked while the dispatcher looks at it, so its
subscriptions wait for `~Held(c)`. Fetching the row and taking the list are one action:
nothing else writes either in a way the dispatch could tell apart.

### Abstractions

- Channels, roles and users are what the dispatcher compares: a kind of event has a
  channel and a set of users it is for (`audience_role` and `audience_user_id`), and
  `Admitted` gives the channels the access rules admit a user to. Rooms whose members
  change and the device's check for an open session of its player are not modelled.
- A `Publish` frame ends in the same `OutboxService::publish`; its checks only decide
  who may. A frame that is malformed or refused changes no state; pings neither.
- A read task may outlive the connection it belongs to: what was sent before the
  socket was lost is either handled later or lost, any part of it.
- `MaxEvents` bounds the events; `MaxFaults` bounds the statements that fail, the
  publishers cut off, the purges and the restarts. `ReplayLimit` is the code's 500.

### Runs

| run | instance | shows |
|---|---|---|
| `realtime_pods` | a station with a connection to each of two pods, two durable events, a replay of one event at a time, one fault | `ListIntact`, `AckedWasReceived`, `SentIsTracked`, `AckIsFinal` |
| `realtime_fair` | two subscribers of one pod, two events, durable for one or fleeting for both, no fault | `OnlyAudience`, `ReplayedIsAcked`, `NotifiedIsDelivered` |
| `v_missed_is_replayed` | one station, one event | `MissedIsReplayed` is violated |

Two events of which one fits into a replay are enough for order to matter: an event
can be acknowledged before an older one arrives, and the older one waits for the next
connection. Two pods, or two connections, are enough for one to track what the other
has seen acknowledged; the theorems cover any number. A system where every event was
published and received may stop: `CHECK_DEADLOCK FALSE`.

Fairness: `WF` of a pod's dispatch (its task runs, and every statement returns or
fails), of `Replay` and `Receive` (an accepted connection is served, the network
delivers what it does not lose) and of `Acknowledge`. Nothing is assumed about
reconnecting, about the listener or about the sockets staying up: the liveness
properties say "unless it is lost".

### Proofs

`RealtimeDelivery_proof` holds for all sets of users, pods and connections, all kinds
of events and all bounds, from `TopologyAssumption`, `KindAssumption` and
`BoundAssumption`. Lemmas say what a step can do to a delivery row (`RowChanges`), to
what is on its way (`SentBy`), to what has arrived (`ReceivedWasSent`) and to a
dispatch (`SendingBegins`, `BusyBegins`); each invariant follows from them.

- `TypeCorrect`: types, and a busy pod has an event and a connection (`Busy`).
- `AcknowledgementsAreFinal`: `Spec => AckIsFinal`.
- `AcknowledgedWasReceived`: needs that an acknowledgement under way was sent by a
  subscriber that received the event (`AckInv`).
- `OnlyTheAudience`: needs that subscriptions are admitted ones, that delivery rows are
  for their subscriber, and that the connection a dispatch is about to send to may have
  the event (`Addressed`).
- `SentEventsAreTracked`: needs that the event of a busy pod is stored and that what
  is about to be sent has its row (`Tracked`), as long as nothing failed.
- `ListsStayIntact`: needs that a pod lists a connection once and only its own
  (`Lists`) and that nothing is on its way to a lost one (`Quiet`).

Only model-checked: the two liveness properties.

### Finding

A delivery row is written for connections that are subscribed when the event is
dispatched. An event published while its station is away leaves none, and `replay_pending`
reads nothing else, so a durable `session.ended` is not replayed to the kiosk that
missed it (the comment in `session_service.rs` says it is); the kiosk learns of it
from its next poll. The outbox is written in a transaction of its own (`publish`) by
every caller: the migration speaks of "the same SQL TX as business writes".

## KioskSession

`KioskProvider` is one thread: a flow (sign-in, teardown, reconciliation, restore) runs
from one await to the next without anybody in between, and what other flows did while
it waited is there when it goes on. A flow is a task with a program counter; a request
is sent, served by the backend and answered in three steps, so its answer may be old
when it is used, and may be lost after the server has acted.

| state | code |
|---|---|
| `sess`, `events` | the server's rows (whose, open at this station, open elsewhere, closed) and the `session.ended` frames not handled |
| `phase`, `shown`, `online`, `reauth` | React state of the provider and of `SessionPage` |
| `token`, `expired`, `vault` | the player's token in memory, whether the server still takes it, the token on disk |
| `provisioned` | the station's own token (`tokenCache.device` and its copy on disk); a full reset clears it |
| `snapshot`, `queue` | `sessionPersist`, `offlineQueue`: what survives a restart |
| `flushDue` | the effect that runs when `online` becomes true |
| `closing`, `signing`, `job[w]` | the teardown, the sign-in, and reconciliations, restores and replays under way |
| `left` | history: sessions whose end was asked for here and whose player is back at the sign-in screen |

| code | actions |
|---|---|
| `endSession`, the teardown, `cleanupSessionAndReturnToLogin` | `EndSession`, `GraceElapses`, `EndIsServed`, `EndIsLost`, `HandleEnd`, `Leave`, `FinishLeave` |
| `playerLogin` | `BeginLogin`, `LoginIsServed`, `KeepToken`, `Resume` or `SendStart`, `StartIsServed`, `Started`; `LoginFails`, `Conflicts`, `StartFails` |
| `playerReauth` | `BeginReauth`, `LoginIsServed`, `SendReauthGet`, `ReauthGetIsServed`, `Reauthenticated`, `ReauthFails` |
| `reconcileSessionOnce` | `Reconcile`, `GetIsServed`, `GetSucceeds`, `GetFails`, `GetIsRefused`, `Settle` |
| `flushEndIntents` | `FlushEnds`, `FlushWhenOnline`, `SendReplay`, `ReplayIsServed`, `ReplaySucceeds`, `ReplayFails` |
| `refresh`, `tryRestorePlayerSession` | `Restart`, `Boot`, `BootWithToken`, `Restore`, `RestoreOffline`, `RestoreNothing` |
| the frame of an ended session | `ReceiveEnded`, `LoseEnded` |
| `handleAuthExpired`, which `createHttpClient` calls on every refused token, and its two handlers | `Unauthorized`, within the step that handles the refusal: `ResetScreen` and `ResetTokens`, or `LogOut` |
| around it | `EndElsewhere`, `StartElsewhere`, `Expire`, `Outage`, `Recovery`, `Probe` |

Properties. `EndIsKept`: once the sign-in screen is back, the session a player ended is
closed or its end is queued, whatever was lost, retried or restarted in between.
`ClosedIsLeft`, `ForeignIsCorrected` and `OfflineIsBounded` say that what the screen shows
catches up with the server.

Abstractions: an intent is the session and its player, the queue is a set (its order is
left open); the server's services are what their handlers answer, in one step each.
`Budget` bounds the sign-ins and the mishaps (a lost request, an outage, a restart, an
expired token, a session opened elsewhere) in all. A refusal is handled in the step that
takes its answer: one at a time, and a full reset is over before the flow that was refused
goes on (a reconciliation then tears down as well, and the sign-in screen comes back
without a token of the station's own: what is sent from there is refused). Registering the
station again after a reset is not modelled: a reset station may restart, and boots into
the registration screen.

Not modelled: account creation, provisioning and the factory reset (which empties the
queue together with everything else), `playerLogout` (called from nowhere), the
automatic start in `startSession` (reached from nowhere), the native side but for the
time it takes, the countdown, the sweep of a signed-out station, the launch list.

## KioskSocket

`KioskRealtimeClient` as functions on a record of its fields: `Connect`, `Disconnect`,
`ResetSubscriptions` and the three handlers. The browser's side of a socket is a step
each: it opens, is lost, and reports that it closed, at any time and in any order with
those of other sockets. A generation number is only compared with the latest, so the
record holds the socket of the latest generation (`fresh`). `OneLiveSocket` and
`HeardIsWanted` hold under every order; `CloseIsReported`, what the comment of
`onDisconnect` says, does not (see "Findings").

## CashDrawer

| state | code |
|---|---|
| `shift`, `register`, `deposit` | the rows, numbered in the order they were created |
| `latest`, `closedLast` | the closed register with the latest `updatedAt`; the one closed last (history) |
| `call[c]` | a request: the operation, the statement it is at, and its locals |
| `calls`, `raced` | requests so far; whether two were ever in flight at once |

A call is a chain of statements, each an action; no call is a transaction and none locks.
`Begin` starts any of login, clock-in, clock-out, force close, close with a count,
handover, open, opening balance, entry, close, reconcile, initiate, approve and reject;
`CutOff` ends one anywhere. `LastClosed`, `CarrySum`, `Ensure` are the carry-forward
that a login and a handover share; `AutoFind`, `AutoSum` the closing that goes with the
end of a shift; `RecalcRead`, `RecalcWrite` the totals computed again after a decision.

Properties. `PutBackIfRejected`: cash is put back only for a deposit that was rejected.
`SettledIsFinal`: what was closed, ended or decided stays so through every step of calls
that decided on it before. `ClosedIsCounted` and `LoginRecovers` speak of calls that do
not overlap (though they may be cut off): with an entry between the sum and the write of
a closing the first fails, and two logins of one person the second.

Abstractions: an entry and a deposit are worth one unit, so a sum is a count; the sums of
one register are read in one step. The closing that goes with the end of a shift takes the
expected amount from a cache, or the opening when the query fails: `AutoSum` takes any sum
over a part of the entries (`EarlierSums`), from an opening the call saw. Not modelled:
denominations and variance, an administrator's login that closes what it finds, the
validator's password and code, notifications.

Worth knowing, and in the model as it is in the code: a rejected deposit is still
subtracted when the next register's opening is computed (the comment at
`cash_register_repo.rs:521` speaks of pending and approved ones); logging in again resets
the opening of an open register; two people logged in carry the same float; a deposit cut
off between its row and its entry stays pending without cash taken out.

## CounterSale and SaleBook

`SaleBook` is what the counter promises: a book in which every line is written at once. A
sale takes its goods with it and is written whole; a settlement pays every debt it covers,
none beyond what is owed; staff may overrule a status; goods leave and arrive for other
reasons. `CounterSale` is what the services do to keep it.

| state | code |
|---|---|
| `stock` | `location_stock` of the sale location |
| `sold` | `transactions`: status, method, basket, `paidAmount` |
| `orders` | `kiosk_orders` of one session: status, items, `transactionId` |
| `takings`, `collected`, `till` | register entries of each sale and of settlements; whether the shift's register is open |
| `ceiling`, `cache`, `sums` | `users.creditLimit`, the Redis key `credit:outstanding`, what each request believes the player owes |
| `serving[c]` | a request: operation, step, and what it carries |
| `confirmed` | history: orders whose sale was answered with success |
| `strained` | did requests overlap, get dropped, fail after a commit, overrule a completed or a credit sale, or lower the limit under the debt? |

| code | actions |
|---|---|
| `KioskOrderService::place_order`, `update_status` | `PlaceOrder`, `ChangeOrder` |
| `POST /transactions`, `create_product_purchase` | `AsksToSell`; `Takes` and `LocksProduct` per item; for credit `ReadsLimit`, `ReadsCache`, `SumsUp`, `StoresSum`, `Decides`; `Deducts` per item, `SaleIsWritten`; then `EmptiesCache` or `FailsToForget`, `TakesCash` or `FindsTillClosed`, `MarksFulfilled` |
| `POST /kiosk-orders/{id}/convert` | `AsksToConvert`, then as a sale, without `MarksFulfilled` |
| `CreditService::settle` | `AsksToSettle`; `Takes` and `LocksSale` per item; `SettlementIsWritten`, `EmptiesCache`, `TakesCash` |
| `TransactionService::update` | `AsksToOverrule` (the status is read), `Overrules`, `EmptiesCache` or `TakesCash` |
| `CreditService::set_limit`, `summary` | `AsksForLimit`, `SetsLimit`, `EmptiesCache`; `AsksForSummary` and the credit steps |
| transfers, waste, counts (see `StockRoom`) | `GoodsLeave`, `GoodsArrive`, while no sale holds the product |
| PostgreSQL, Redis, clients | `BreaksDeadlock`, `SumExpires`, `Drops` |

Locks are derived, not kept: `Locks(r)` is what a request that got this far has locked
(products from `FOR UPDATE OF p` on, stock rows from their own `FOR UPDATE` on, sales on
credit in a settlement) and drops with its transaction. `seen` is the stock a request read
in the statement that waits for the product: PostgreSQL hands the waiter the new version of
the row it locks, not of the one it joins, so the check against it may be made on what was
there before. The lock on the stock row later reads it again. A request that waits in a
circle is turned away (`BreaksDeadlock`).

Properties. `ImplementsBook`: whatever requests meet, are dropped or turned away, goods
and debts change as in the book. `CounterInv`: a row has one holder, and every check made
under a lock stands until the commit. `ConfirmedOnce`: two tellers may sell one order, but
only one is answered with success. `LimitKeptInTurn` and `CashCountedInTurn` speak of
requests served one after the other. `EveryTellerAnswers`: each of two requests that lock
the same rows ends.

Abstractions: one session's orders and one player's credit, the case where they meet; a
price per basket (`Worth`, above zero), a basket of nothing is a plan; a payment is cash,
online or credit. `PayStatuses` are the statuses that clients ask for with a sale or a
conversion, and staff when they overrule one: the theorems hold for any of the five the
code accepts. The runs take `pending`, `completed` and `credit`, and without `pending` the
fair one: the code compares a status with `completed` and `credit` only, so `failed` and
`refunded` do what `pending` does. A debt is a sale whose method and status both say credit
(`OnCredit`): one in cash that is given the status `credit` is none. Not modelled: split payments, prices by the hour, what a plan grants,
free items, deletion, the lists and messages, and the pool of connections (the credit check
takes a second connection while its transaction holds the first).

Worth knowing, and in the model as it is in the code: `convert` never marks its order, so
it can be converted again; a teller whose order was sold first gets an error after the
sale was committed; a sale stays though its register entry fails; overlapping sales on
credit, or a stale sum, exceed the limit; `completed`, `pending`, `completed` enters the
cash twice; `credit` to `pending` leaves the cached sum as it was.

## StockRoom

| state | code |
|---|---|
| `shelf` | `location_stock` of the warehouse and of the store; `Missing` where there is no row |
| `trail` | the sum of the deltas in `stock_movements`, by place and product |
| `slips` | `stock_transfer_requests` and `stock_waste_events` with their lines |
| `moved` | history: how often the movements of a slip were written |
| `errand[k]` | a request that moves goods: its line, the step it is at, what it has locked |

| code | actions |
|---|---|
| `create_transfer_request`, `create_waste_event` | `AsksForSlip` |
| `approve_transfer`; `reject_transfer`, `reject_waste` | `ApprovesTransfer`; `RejectsSlip`: one guarded UPDATE each |
| `fulfill_transfer`, `approve_waste` | `StartsSlip`, `LocksSlip`, then per line `Turns`, `FindsRow`, `LocksGood`, `PutsRow`, `Mirrors`; `Commits` |
| `create_receipt`, `create_adjustment`, `deduct_sale_stock_in_tx` | `StartsReceipt`, `StartsCount`, `StartsSale`, and the steps of a line each of them needs |
| `adjust_stock_in_tx`, `sync_store_stock_quantity_in_tx` | `PutsRow` and `Change`; `Mirrors`: the copy kept in `products` |
| PostgreSQL, clients, the process | `BreaksTie`, `GivesUp` |

A request is one transaction: it locks as it goes and writes at its commit. The steps of a
line are the points at which it may have to wait. Locks are of three strengths on a product
(a reference takes `FOR KEY SHARE`, the copy of the stock `FOR NO KEY UPDATE`, a sale `FOR
UPDATE`) and of one on a row of stock and on a slip. `FOR UPDATE` of a row of stock that
does not exist locks nothing; inserting it does. The order of the lines is the client's, so
any, and nothing keeps two requests from waiting for each other.

Properties. `StockInv`: what must stay true while requests meet at any pair of steps, are
turned away or stop: one holder of a slip, of a row and of a product for update
(`OneHolder`); the movements account for the stock, with no piece lost or made up
(`Explained`); a slip that two people fulfil at once moves its goods once, and only if it
was approved (`MovedOnce`); what a request found stands until it commits (`FoundStands`).
`EveryErrandEnds`: each of two requests that lock the same rows ends.

Abstractions: pieces, not boxes; one warehouse and one store; `Loads` are the same for all
slips. A slip and its lines are written in one step. The copy of the stock in `products` is
its lock only. Whether a count changes anything is asked of a cache that the goods of sales
do not empty (`inventory_service.rs:242`), so a count may be refused though the pieces
differ: such a count never begins. Not modelled: the locations themselves, lists, summaries
and messages.

Worth knowing, and in the model as it is in the code: two first counts of a product that has
no row both take it for none, and the second adds its count to the first's; that is why
`FoundStands` and `CountsAreTrue` speak of rows that were there.

## Bounds and composition of the venue

`MCVenue` checks the five modules side by side: they read nothing of each other (a kiosk
does the same whether its connection is up; a sale sees of a register only whether it is
open, `till`, and of the stock room only that stock changes while it does not hold the
product), so `part` chooses which of them runs and the states add up instead of
multiplying.

- Kiosk: two players, two sessions, one reconciliation at a time and a `Budget` of two are
  enough for an answer of one player to meet the other, and for an end to be lost and its
  retry to meet a restart. The theorems cover every budget.
- Connection: two socket objects and two channels: one that is replaced, and its
  replacement. Nothing else is bounded.
- Drawer: two people, two shifts, two registers, one deposit; four requests (`CallBound`)
  or, once two overlapped, three (`RaceBound`). Three calls are enough for a register to be
  opened, to be drawn from, and for two calls to meet on it. `v_carried_from_last_closed`
  takes five calls of one clerk.
- Counter: two products of one piece each, a basket of both and a plan, two sales, one
  order, two tellers and two requests (`ServiceBound`), starting with any sales left on
  credit from earlier days: two requests meet at every pair of steps, both on the same
  rows and in opposite order. `Limits` are the debt of one basket and of a basket and a
  plan.

- Stock room: two products (one of them without a row in the store), one slip, two
  requests (`ErrandBound`) that meet at every pair of steps and go through their lines in
  either order, counts that find nothing or two pieces; in the fair run one product.

Clerks, tellers and keepers share their model values in `VenueSafety.cfg`, and so do staff
and players: each set is of one part only, so one permutation of the values permutes them
all, and TLC has fewer permutations to try.

The fair run leaves out the drawer and the connection, which promise nothing in time, and
the order. A part that has used up its bounds stops: `CHECK_DEADLOCK FALSE`.

## Fairness of the venue

Kiosk (`Fairness`): callbacks and timers run. A request is answered or fails within its
timeout, the native side takes 15 seconds at most, the reconciliation and the probe are on
timers, the offline grace ends. Nobody has to come back online, sign in or end a session,
and the network may stay down for ever.

Counter (`SaleFairness`): the runtime runs its tasks (`WF` of `GoesOn`), and the database
turns one of those away who wait in a circle (`WF` of `BreaksDeadlock`). `WF` is enough for
a row lock because a bounded number of requests come for it.

Stock room (`RoomFairness`): the same, of `Works` and `BreaksTie`. Nobody has to decide on
a slip.

## Proofs of the venue

All hold for every value of the constants the assumptions admit: any players, sessions,
budgets, sockets, staff, deposits, products, tellers, limits and bounds.

- `KioskSession_proof`, from `PlayerAssumption` and `BudgetAssumption`. `EndIsKept` is not
  inductive: a teardown that is about to show the sign-in screen must have had its end
  answered or queued. `IInv` adds that (`LeavingIsSettled`), that an answer "ok" to an end
  means a closed row even if it is old (`AnsweredIsClosed`; closed rows stay closed), and
  that rows in use have an owner. `FlowsAreSound`, `NoEndIsForgotten`.
- `KioskSocket_proof`, from `SocketAssumption`. `TheLiveSocketIsHeld` and
  `WantedChannelsAreHeard`: what each method does to the record is a lemma, and a step is
  a composition of methods.
- `CashDrawer_proof`, from `DrawerAssumption`. `DrawerInv` adds to `PutBackIfRejected` that
  a rejection under way was written: `Decide` is a guarded UPDATE, so a rejected deposit
  can be decided on no more. `DrawerIsSound`, `OnlyRejectedIsPutBack`; `SettledStays` is
  the action property `SettledIsFinal`, from the guards of the UPDATEs.
  `ClosedRegistersAreCounted` and `LoginsRecover` are about calls that take turns: a
  register is closed on a sum read earlier, and a login ends on a shift it looked up
  earlier. `TurnInv` (`CallsTakeTurns`) says, while no two calls have been in flight at
  once, that the sum a call carries is the ledger (`InHand`), that the register it is to
  write an entry to is open (`OnItsWay`), that a login is on a shift of its user
  (`OnShift`), and what calls cut off before it can have left behind: one active shift a
  user, registers numbered in their order, entries of none that is not opened.
- `CounterSale_proof`, from `CounterAssumption`. `SaleInv` says of every request that what
  it checked under a lock is still true (nobody else holds the row, and no step changes a
  row somebody holds), that it carries what its step needs, and that the id of the sale it
  carries is written and no other request's. `RequestsAreSound`; from it `TheCounterIsSound`,
  `OneSaleIsConfirmed`, and `TheCounterKeepsTheBook`: `SaleIsWritten` is `Sell`,
  `SettlementIsWritten` is `Settle`, `Overrules` is `Overrule`, `GoodsLeave` is `Leave`,
  `GoodsArrive` is `Arrive`, and every other step stutters.
  `TheLimitIsKeptInTurn` and `TheCashIsCountedInTurn` are about requests that take turns.
  Neither holds between the statements of a request: a sale is on the books before its
  cash is in the drawer, a limit is set before the cache is emptied. `TurnInv` says, while
  nothing is strained, what the one request in progress has left behind and still owes
  (`Promised`): what is owed was counted and stays under the limit until it commits
  (`Checked`), the drawer misses exactly the cash of the sale or settlement in
  hand (`Entered`), and the cache is right or about to be emptied (`Remembered`).
  The sums are handled by `Totals`, for which `CounterAssumption` asks that
  `Sales`, the rows of one table, are finitely many.
- `StockRoom_proof`, from `StockAssumption`. `RoomInv` says of every request what it has
  locked, from its kind, its step and the lines it has done: every row of a line it has
  done, every product of a sale. With one holder of each, what it found cannot change
  under it, and its commit takes away no more than is there. `ErrandsAreSound`; from it
  `TheRoomIsSound`, and `CountsAreTrue`: a count that commits leaves what was counted, of
  every product that had a row when it was looked for.

Only model-checked: the five liveness properties, out of the prover's reach.

## Findings of the venue

- `disconnect()` followed by `connect()`, what every sign-in and sign-out does, leaves
  `intentionalClose` set with no socket to clear it: the first loss of the new socket is
  taken for an intended one, nobody is told and nothing is dialled again. The kiosk goes on
  with its polls.
- `find_last_closed_register` goes by `updatedAt`, which a decision on a deposit of an
  earlier register sets: the next login carries over from that one, and the cash of the one
  closed last is lost sight of.

## Not modelled

- Mail, storage, statistics, catalogues, expenses, users, configuration and notifications:
  records created, listed and changed one statement at a time.
- Authentication: tokens and passwords are stateless checks; the two rate limiters are
  increments of a key that expires.
- The administration, the TV screen and the component library: caches of the server's
  answers and widgets. They are most of the TypeScript of the repository, together with
  generated types of the API; the logic that can go wrong is in the Rust services and in
  the kiosk's provider, so the modules stand for a small share of the TypeScript lines.
- What each component leaves out is said in its section.
