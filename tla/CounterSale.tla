---------------------------- MODULE CounterSale ----------------------------
(***************************************************************************)
(* The counter of the backend: orders placed at a station, their sale for  *)
(* cash or on credit, the settlement of what players owe, and staff        *)
(* overruling the status of a sale.  A teller is a request in progress: it *)
(* locks rows one by one in a database transaction, reads through a cache  *)
(* that others fill and empty, and goes on after its commit with steps     *)
(* that may not happen.                                                    *)
(*                                                                         *)
(* All orders are of one session and all credit is one player's, the case  *)
(* where they meet; a basket of nothing is a plan.  Locks are what the     *)
(* database gives: a row is held from its lock to the end of the           *)
(* transaction, and one of those who wait in a circle is turned away.      *)
(***************************************************************************)
EXTENDS Naturals, FiniteSetsExt

CONSTANTS
  Products, Sales, Baskets, Worth, Supply,   \* see SaleBook
  Orders,       \* order ids
  Tellers,      \* requests in progress at once
  Payments,     \* the methods of payment in use
  PayStatuses,  \* the payment statuses that clients and staff ask for
  Limits,       \* the credit limits an administrator sets
  ServiceBound, \* requests in a behaviour
  Unsaid        \* no sale, no order, nothing cached

ASSUME CounterAssumption ==
  /\ IsFiniteSet(Sales)
  /\ Baskets \subseteq [Products -> Nat]
  /\ Worth \in [Baskets -> Nat \ {0}]
  /\ Supply \in [Products -> Nat]
  /\ Payments \subseteq {"cash", "online", "credit"}
  /\ PayStatuses \subseteq {"pending", "completed", "failed", "refunded", "credit"}
  /\ Limits \subseteq Nat
  /\ ServiceBound \in Nat
  /\ Unsaid \notin Orders \cup Sales

VARIABLES
  stock, sold,        \* see SaleBook
  orders,     \* kiosk_orders: status, basket and sale of each
  takings,    \* cash entries made for each sale
  collected,  \* cash entered for settlements
  till,       \* is the register of the shift open?
  ceiling,    \* the player's credit limit
  cache,      \* the cached sum of what the player owes
  sums,       \* what each teller believes the player owes
  serving,    \* what each teller is doing
  served,     \* requests begun so far, for ServiceBound
  confirmed,  \* sales of orders that were answered with success
  strained    \* did requests overlap, fail after a commit, or overrule a sale?

Book == INSTANCE SaleBook

bookVars == <<stock, sold>>
orderVars == <<orders, confirmed>>
cashVars == <<takings, collected, till>>
creditVars == <<ceiling, cache, sums>>
saleVars == <<bookVars, orderVars, cashVars, creditVars, serving, served, strained>>

Nothing == Book!Nothing
OrderStages == {"none", "pending", "preparing", "fulfilled", "cancelled"}
NoOrderYet == [at |-> "none", basket |-> Nothing, sale |-> Unsaid]
Ordered(basket) == [at |-> "pending", basket |-> basket, sale |-> Unsaid]
IsOpenOrder(o) == orders[o].at \in {"pending", "preparing"}

Steps == {"idle", "lines", "wait", "limit", "cached", "sum", "store", "decide",
          "deduct", "write", "forget", "cash", "mark"}
Ops == {"none", "sell", "settle", "overrule", "limit", "summary"}
NoOr(S) == S \cup {Unsaid}
Amounts == [Sales -> Nat]
Lockable == Products \cup Sales
RowSets == SUBSET Lockable
AnyBasket == Baskets \cup {Nothing}
AnyMethod == Book!Methods \cup {"none"}
AnyStatus == Book!Statuses \cup {"none"}

AtRest ==
  [at |-> "idle", op |-> "none", order |-> Unsaid, basket |-> Nothing,
   method |-> "none", status |-> "none", was |-> "none", sale |-> Unsaid,
   items |-> [s \in Sales |-> 0], todo |-> {}, next |-> Unsaid, seen |-> 0,
   limit |-> 0]

Wanted(basket) == {p \in Products : basket[p] > 0}
Covered(items) == {s \in Sales : items[s] > 0}

(* what the player owes: sum_outstanding                                   *)
Debt(s) == IF Book!OnCredit(s) THEN Worth[sold[s].basket] - sold[s].paid ELSE 0
Owed == MapThenSumSet(Debt, Sales)

(***************************************************************************)
(* Locks, and who waits for whom.                                          *)
(***************************************************************************)
ProductLocks(r) ==
  IF r.op # "sell" THEN {}
  ELSE IF r.at \in {"lines", "wait"} THEN Wanted(r.basket) \ r.todo
  ELSE IF r.at \in {"limit", "cached", "sum", "store", "decide", "deduct"}
       THEN Wanted(r.basket)
  ELSE {}

StockLocks(r) ==
  IF r.op = "sell" /\ r.at = "deduct" THEN Wanted(r.basket) \ r.todo ELSE {}

RowLocks(r) ==
  IF r.op = "settle" /\ r.at \in {"lines", "wait"} THEN Covered(r.items) \ r.todo ELSE {}

Locks(r) == ProductLocks(r) \cup RowLocks(r)
Holds(c, x) == x \in Locks(serving[c])
FreeFor(c, x) == \A d \in Tellers \ {c} : ~Holds(d, x)
WaitsFor(c, d) == c # d /\ serving[c].at = "wait" /\ Holds(d, serving[c].next)
Knot(D) == D # {} /\ \A c \in D : \E d \in D : WaitsFor(c, d)
Deadlocked(c) ==
  \E D \in SUBSET Tellers :
    c \in D /\ Knot(D) /\ \A E \in SUBSET D : Knot(E) => E = D

(***************************************************************************)
(* A request.                                                              *)
(***************************************************************************)
Alone(c) == \A d \in Tellers \ {c} : serving[d].at = "idle"
Continues(c, r) == serving' = [serving EXCEPT ![c] = r]
Moves(c, step) == Continues(c, IF step = "idle" THEN AtRest ELSE [serving[c] EXCEPT !.at = step])
Doing(c, ops, step) == serving[c].op \in ops /\ serving[c].at = step
Dismiss(c) == Continues(c, AtRest)

OneMore == served < ServiceBound /\ served' = served + 1

Admit(c, r) ==
  /\ serving[c].at = "idle"
  /\ OneMore
  /\ Continues(c, r)
  /\ strained' = (strained \/ ~Alone(c))

(* once the lines are there, or if there are none                          *)
AfterLines(r) ==
  IF r.method = "credit" THEN [r EXCEPT !.at = "limit"]
  ELSE [r EXCEPT !.at = "deduct", !.todo = Wanted(r.basket)]

(* the end of a sale                                                       *)
LastOf(r) == IF r.op = "sell" /\ r.order # Unsaid THEN "mark" ELSE "idle"
(* faulty: the cache is left as it is after a sale on credit               *)
AfterCommitKeepsSum(r) ==
  IF r.method = "cash" /\ r.status = "completed" THEN "cash" ELSE LastOf(r)

AfterCommit(r) ==
  IF r.method = "credit" THEN "forget"
  ELSE IF r.method = "cash" /\ r.status = "completed" THEN "cash"
  ELSE LastOf(r)

(***************************************************************************)
(* Orders.  One session has one open order.                                *)
(***************************************************************************)
PlaceOrder(o, basket) ==
  /\ orders[o].at = "none" /\ Wanted(basket) # {}
  /\ \A other \in Orders : ~IsOpenOrder(other)
  /\ OneMore
  /\ orders' = [orders EXCEPT ![o] = Ordered(basket)]
  /\ UNCHANGED <<bookVars, confirmed, cashVars, creditVars, serving, strained>>

ChangeOrder(o, status) ==
  /\ IsOpenOrder(o)
  /\ OneMore
  /\ orders' = [orders EXCEPT ![o].at = status]
  /\ UNCHANGED <<bookVars, confirmed, cashVars, creditVars, serving, strained>>

(***************************************************************************)
(* A sale.  The one of an order names it; converting an order reads its    *)
(* basket and sells that, and the order is not named to anybody.           *)
(***************************************************************************)
SaleOf(basket, method, status, order) ==
  LET r == [AtRest EXCEPT !.op = "sell", !.basket = basket, !.method = method,
              !.status = status, !.order = order]
  IN IF Wanted(basket) = {} THEN AfterLines(r)
     ELSE [r EXCEPT !.at = "lines", !.todo = Wanted(basket)]

(* the bound on sales: an id is left for this one                          *)
Fresh == {s \in Sales : sold[s] = Book!Blank}
Selling == {c \in Tellers : serving[c].op = "sell" /\ serving[c].sale = Unsaid}
IdLeft == Cardinality(Fresh) > Cardinality(Selling)

(* the eligibility check says what a sale on credit is; of any other the   *)
(* client says it, also that it is on credit                               *)
StatusesFor(method) == IF method = "credit" THEN {"credit"} ELSE PayStatuses

AsksToSell(c, basket, method, status, order) ==
  /\ IdLeft
  /\ status \in StatusesFor(method)
  /\ order # Unsaid => orders[order].at # "none"
  /\ Admit(c, SaleOf(basket, method, status, order))
  /\ UNCHANGED <<bookVars, orderVars, cashVars, creditVars>>

AsksToConvert(c, o, method, status) ==
  /\ IdLeft /\ IsOpenOrder(o)
  /\ status \in StatusesFor(method)
  /\ Admit(c, SaleOf(orders[o].basket, method, status, Unsaid))
  /\ UNCHANGED <<bookVars, orderVars, cashVars, creditVars>>

(* the next row, and what a sale sees of its stock: what was there before  *)
(* it waited                                                               *)
Takes(c) ==
  /\ Doing(c, {"sell", "settle"}, "lines")
  /\ \E x \in serving[c].todo :
       Continues(c, [serving[c] EXCEPT !.at = "wait", !.next = x,
                       !.seen = IF x \in Products THEN stock[x] ELSE 0])
  /\ UNCHANGED <<bookVars, orderVars, cashVars, creditVars, served, strained>>

Locked(r) == [r EXCEPT !.at = "lines", !.todo = @ \ {r.next}, !.next = Unsaid, !.seen = 0]

(* faulty: waits for goods to arrive                                       *)
LocksWhenInStock(c) ==
  LET r == serving[c] IN
  /\ Doing(c, {"sell"}, "wait") /\ FreeFor(c, r.next)
  /\ r.seen >= r.basket[r.next]
  /\ Continues(c, IF r.todo = {r.next} THEN AfterLines(Locked(r)) ELSE Locked(r))
  /\ UNCHANGED <<bookVars, orderVars, cashVars, creditVars, served, strained>>

LocksProduct(c) ==
  LET r == serving[c] IN
  /\ Doing(c, {"sell"}, "wait") /\ FreeFor(c, r.next)
  /\ IF r.seen < r.basket[r.next] THEN Dismiss(c)
     ELSE Continues(c, IF r.todo = {r.next} THEN AfterLines(Locked(r)) ELSE Locked(r))
  /\ UNCHANGED <<bookVars, orderVars, cashVars, creditVars, served, strained>>

(* faulty: the stock seen before the lock is trusted                       *)
DeductsUnchecked(c) ==
  /\ Doing(c, {"sell"}, "deduct")
  /\ \E p \in serving[c].todo :
       Continues(c, [serving[c] EXCEPT !.todo = @ \ {p}])
  /\ UNCHANGED <<bookVars, orderVars, cashVars, creditVars, served, strained>>

(* the stock is read again under its own lock                              *)
Deducts(c) ==
  LET r == serving[c] IN
  /\ Doing(c, {"sell"}, "deduct")
  /\ \E p \in r.todo :
       IF stock[p] < r.basket[p] THEN Dismiss(c)
       ELSE Continues(c, [r EXCEPT !.todo = @ \ {p}])
  /\ UNCHANGED <<bookVars, orderVars, cashVars, creditVars, served, strained>>

SaleIsWritten(c) ==
  LET r == serving[c] IN
  /\ Doing(c, {"sell"}, "deduct") /\ r.todo = {}
  /\ \E s \in Sales :
       /\ sold[s] = Book!Blank
       /\ sold' = [sold EXCEPT ![s] = Book!Written(r.status, r.method, r.basket)]
       /\ Continues(c, IF AfterCommit(r) = "idle" THEN AtRest
                       ELSE [r EXCEPT !.at = AfterCommit(r), !.sale = s])
  /\ stock' = [p \in Products |-> stock[p] - r.basket[p]]
  /\ UNCHANGED <<orderVars, cashVars, creditVars, served, strained>>

(* faulty: the status of the order is not asked for                        *)
MarksAnyOrder(c) ==
  LET r == serving[c] IN
  /\ r.at = "mark"
  /\ orders' = [orders EXCEPT ![r.order].at = "fulfilled", ![r.order].sale = r.sale]
  /\ confirmed' = confirmed \cup {<<r.order, r.sale>>}
  /\ Dismiss(c)
  /\ UNCHANGED <<bookVars, cashVars, creditVars, served, strained>>

MarksFulfilled(c) ==
  LET r == serving[c] IN
  /\ r.at = "mark"
  /\ IF IsOpenOrder(r.order)
     THEN /\ orders' = [orders EXCEPT ![r.order].at = "fulfilled",
                                      ![r.order].sale = r.sale]
          /\ confirmed' = confirmed \cup {<<r.order, r.sale>>}
     ELSE UNCHANGED orderVars
  /\ Dismiss(c)
  /\ UNCHANGED <<bookVars, cashVars, creditVars, served, strained>>

(***************************************************************************)
(* May this player have it on credit?  What is owed is read through the    *)
(* cache; a summary and a change of the limit read it the same way.        *)
(***************************************************************************)
AsksForSummary(c) ==
  /\ Admit(c, [AtRest EXCEPT !.op = "summary", !.at = "limit"])
  /\ UNCHANGED <<bookVars, orderVars, cashVars, creditVars>>

ReadsLimit(c) ==
  /\ serving[c].at = "limit"
  /\ IF serving[c].op = "sell" /\ ceiling = 0 THEN Dismiss(c)
     ELSE Continues(c, [serving[c] EXCEPT !.at = "cached", !.limit = ceiling])
  /\ UNCHANGED <<bookVars, orderVars, cashVars, creditVars, served, strained>>

ReadsCache(c) ==
  /\ serving[c].at = "cached"
  /\ IF cache = Unsaid THEN Moves(c, "sum") /\ UNCHANGED sums
     ELSE Moves(c, "decide") /\ sums' = [sums EXCEPT ![c] = cache]
  /\ UNCHANGED <<bookVars, orderVars, cashVars, ceiling, cache, served, strained>>

SumsUp(c) ==
  /\ serving[c].at = "sum"
  /\ sums' = [sums EXCEPT ![c] = Owed]
  /\ Moves(c, "store")
  /\ UNCHANGED <<bookVars, orderVars, cashVars, ceiling, cache, served, strained>>

StoresSum(c) ==
  /\ serving[c].at = "store"
  /\ cache' = sums[c]
  /\ Moves(c, "decide")
  /\ UNCHANGED <<bookVars, orderVars, cashVars, ceiling, sums, served, strained>>

Decides(c) ==
  LET r == serving[c] IN
  /\ r.at = "decide"
  /\ IF r.op = "sell" /\ Worth[r.basket] + sums[c] <= r.limit
     THEN Continues(c, [r EXCEPT !.at = "deduct", !.todo = Wanted(r.basket), !.limit = 0])
     ELSE Dismiss(c)
  /\ sums' = [sums EXCEPT ![c] = 0]
  /\ UNCHANGED <<bookVars, orderVars, cashVars, ceiling, cache, served, strained>>

(***************************************************************************)
(* A settlement covers sales on credit, locked one by one.                 *)
(***************************************************************************)
AsksToSettle(c, items, method) ==
  /\ Covered(items) # {} /\ method # "credit"
  /\ Admit(c, [AtRest EXCEPT !.op = "settle", !.at = "lines", !.items = items,
                  !.method = method, !.todo = Covered(items)])
  /\ UNCHANGED <<bookVars, orderVars, cashVars, creditVars>>

(* faulty: the sale is read without its lock                               *)
ReadsSale(c) ==
  LET r == serving[c]
      s == r.next
  IN
  /\ Doing(c, {"settle"}, "wait")
  /\ IF Book!OnCredit(s) /\ sold[s].paid + r.items[s] <= Worth[sold[s].basket]
     THEN Continues(c, Locked(r))
     ELSE Dismiss(c)
  /\ UNCHANGED <<bookVars, orderVars, cashVars, creditVars, served, strained>>

LocksSale(c) ==
  LET r == serving[c]
      s == r.next
  IN
  /\ Doing(c, {"settle"}, "wait") /\ FreeFor(c, s)
  /\ IF Book!OnCredit(s) /\ sold[s].paid + r.items[s] <= Worth[sold[s].basket]
     THEN Continues(c, Locked(r))
     ELSE Dismiss(c)
  /\ UNCHANGED <<bookVars, orderVars, cashVars, creditVars, served, strained>>

SettlementIsWritten(c) ==
  LET r == serving[c] IN
  /\ Doing(c, {"settle"}, "lines") /\ r.todo = {}
  /\ sold' = [s \in Sales |-> Book!Settled(s, r.items[s])]
  /\ Moves(c, "forget")
  /\ UNCHANGED <<stock, orderVars, cashVars, creditVars, served, strained>>

(***************************************************************************)
(* After a commit: the cache is emptied, the cash entered.                 *)
(***************************************************************************)
AfterForgetting(r) ==
  CASE r.op = "sell" -> LastOf(r)
    [] r.op = "settle" -> IF r.method = "cash" THEN "cash" ELSE "idle"
    [] r.op = "overrule" -> "idle"
    [] r.op = "limit" -> "limit"

EmptiesCache(c) ==
  /\ serving[c].at = "forget"
  /\ cache' = Unsaid
  /\ Moves(c, AfterForgetting(serving[c]))
  /\ UNCHANGED <<bookVars, orderVars, cashVars, ceiling, sums, served, strained>>

(* a sale goes on without, a settlement and a new limit do not             *)
FailsToForget(c) ==
  /\ serving[c].at = "forget"
  /\ strained' = TRUE
  /\ Moves(c, IF serving[c].op = "sell" THEN LastOf(serving[c]) ELSE "idle")
  /\ UNCHANGED <<bookVars, orderVars, cashVars, creditVars, served>>

TakesCash(c) ==
  LET r == serving[c] IN
  /\ r.at = "cash" /\ till
  /\ IF r.op = "settle"
     THEN /\ collected' = collected + MapThenSumSet(LAMBDA s : r.items[s], Sales)
          /\ UNCHANGED takings
     ELSE /\ takings' = [takings EXCEPT ![r.sale] = @ + 1]
          /\ UNCHANGED collected
  /\ Moves(c, LastOf(r))
  /\ UNCHANGED <<bookVars, orderVars, till, creditVars, served, strained>>

(* the sale or the settlement stays                                        *)
FindsTillClosed(c) ==
  /\ serving[c].at = "cash" /\ ~till
  /\ strained' = TRUE
  /\ Dismiss(c)
  /\ UNCHANGED <<bookVars, orderVars, cashVars, creditVars, served>>

(***************************************************************************)
(* Staff overrules the status of a sale; an administrator sets the limit.  *)
(***************************************************************************)
AsksToOverrule(c, s, status) ==
  /\ sold[s] # Book!Blank
  /\ Admit(c, [AtRest EXCEPT !.op = "overrule", !.at = "write", !.sale = s,
                  !.method = sold[s].method, !.status = status, !.was = sold[s].at])
  /\ UNCHANGED <<bookVars, orderVars, cashVars, creditVars>>

(* faulty: the cash is entered whatever the status was                     *)
OverrulesAgain(c) ==
  LET r == serving[c] IN
  /\ Doing(c, {"overrule"}, "write") /\ FreeFor(c, r.sale)
  /\ sold' = [sold EXCEPT ![r.sale].at = r.status]
  /\ Moves(c, IF r.status = "completed" THEN AfterCommit(r) ELSE "idle")
  /\ strained' = (strained \/ (r.status # "completed" /\
                              (r.was = "completed" \/ r.method = "credit")))
  /\ UNCHANGED <<stock, orderVars, cashVars, creditVars, served>>

Overrules(c) ==
  LET r == serving[c] IN
  /\ Doing(c, {"overrule"}, "write") /\ FreeFor(c, r.sale)
  /\ sold' = [sold EXCEPT ![r.sale].at = r.status]
  /\ Moves(c, IF r.was # "completed" /\ r.status = "completed"
              THEN AfterCommit(r) ELSE "idle")
  /\ strained' = (strained \/ (r.status # "completed" /\
                              (r.was = "completed" \/ r.method = "credit")))
  /\ UNCHANGED <<stock, orderVars, cashVars, creditVars, served>>

AsksForLimit(c, limit) ==
  /\ Admit(c, [AtRest EXCEPT !.op = "limit", !.at = "write", !.limit = limit])
  /\ UNCHANGED <<bookVars, orderVars, cashVars, creditVars>>

SetsLimit(c) ==
  /\ Doing(c, {"limit"}, "write")
  /\ ceiling' = serving[c].limit
  /\ Moves(c, "forget")
  /\ strained' = (strained \/ Owed > ceiling')
  /\ UNCHANGED <<bookVars, orderVars, cashVars, cache, sums, served>>

(***************************************************************************)
(* What happens around them: a request is dropped wherever it is, its      *)
(* transaction with it; goods leave the store and come to it; the         *)
(* cached sum expires; the shift's register is closed and another opened.  *)
(***************************************************************************)
Drops(c) ==
  /\ serving[c].at # "idle"
  /\ strained' = TRUE
  /\ sums' = [sums EXCEPT ![c] = 0]
  /\ Dismiss(c)
  /\ UNCHANGED <<bookVars, orderVars, cashVars, ceiling, cache, served>>

BreaksDeadlock(c) ==
  /\ Deadlocked(c)
  /\ Dismiss(c)
  /\ UNCHANGED <<bookVars, orderVars, cashVars, creditVars, served, strained>>

(* StockRoom changes the stock of a product in transactions that update    *)
(* the product too: never while a sale has it locked                       *)
Unlocked(p) == \A c \in Tellers : p \notin ProductLocks(serving[c])

GoodsLeave(p) ==
  /\ Unlocked(p) /\ stock[p] >= 1
  /\ OneMore
  /\ stock' = [stock EXCEPT ![p] = @ - 1]
  /\ UNCHANGED <<sold, orderVars, cashVars, creditVars, serving, strained>>

GoodsArrive(p) ==
  /\ Unlocked(p)
  /\ OneMore
  /\ stock' = [stock EXCEPT ![p] = @ + 1]
  /\ UNCHANGED <<sold, orderVars, cashVars, creditVars, serving, strained>>

SumExpires ==
  /\ cache # Unsaid
  /\ cache' = Unsaid
  /\ UNCHANGED <<bookVars, orderVars, cashVars, ceiling, sums, serving, served, strained>>

TillChanges ==
  /\ OneMore
  /\ till' = ~till
  /\ UNCHANGED <<bookVars, orderVars, takings, collected, creditVars, serving, strained>>

(***************************************************************************)
(* The counter.                                                            *)
(***************************************************************************)
SaleInit ==
  /\ Book!Init
  /\ orders \in [Orders -> {NoOrderYet} \cup {Ordered(b) : b \in {x \in Baskets : Wanted(x) # {}}}]
  /\ \A o, other \in Orders : IsOpenOrder(o) /\ IsOpenOrder(other) => o = other
  /\ takings = [s \in Sales |-> 0] /\ collected = 0 /\ till = TRUE
  /\ ceiling \in Limits /\ Owed <= ceiling
  /\ cache = Unsaid /\ sums = [c \in Tellers |-> 0]
  /\ serving = [c \in Tellers |-> AtRest]
  /\ served = 0
  /\ confirmed = {}
  /\ strained = FALSE

(* what is paid: nothing to all that is owed                               *)
Offers == {items \in [Sales -> 0 .. Owed] : \A s \in Sales : items[s] <= Debt(s)}

AsksFor(c) ==
  \/ \E b \in Baskets, m \in Payments, o \in NoOr(Orders) :
       \E status \in StatusesFor(m) : AsksToSell(c, b, m, status, o)
  \/ \E o \in Orders, m \in Payments :
       \E status \in StatusesFor(m) : AsksToConvert(c, o, m, status)
  \/ \E items \in Offers, m \in Payments : AsksToSettle(c, items, m)
  \/ \E s \in Sales, status \in PayStatuses : AsksToOverrule(c, s, status)
  \/ \E limit \in Limits : AsksForLimit(c, limit)
  \/ AsksForSummary(c)

SaleStep(c) ==
  \/ Takes(c) \/ LocksProduct(c) \/ Deducts(c) \/ SaleIsWritten(c) \/ MarksFulfilled(c)
CreditStep(c) ==
  \/ ReadsLimit(c) \/ ReadsCache(c) \/ SumsUp(c) \/ StoresSum(c) \/ Decides(c)
  \/ LocksSale(c) \/ SettlementIsWritten(c) \/ Overrules(c) \/ SetsLimit(c)
CommittedStep(c) ==
  \/ EmptiesCache(c) \/ FailsToForget(c) \/ TakesCash(c) \/ FindsTillClosed(c)
GoesOn(c) == SaleStep(c) \/ CreditStep(c) \/ CommittedStep(c)

AroundTheCounter ==
  \/ \E o \in Orders, b \in Baskets : PlaceOrder(o, b)
  \/ \E o \in Orders, status \in {"preparing", "cancelled"} : ChangeOrder(o, status)
  \/ \E p \in Products : GoodsLeave(p) \/ GoodsArrive(p)
  \/ SumExpires
  \/ TillChanges

SaleNext ==
  \/ \E c \in Tellers : AsksFor(c) \/ GoesOn(c) \/ Drops(c) \/ BreaksDeadlock(c)
  \/ AroundTheCounter

SaleSpec == SaleInit /\ [][SaleNext]_saleVars
(* The tasks of the runtime all run, and the database turns one of those   *)
(* away who wait in a circle.                                              *)
SaleFairness ==
  \A c \in Tellers :
    /\ WF_saleVars(serving[c].at # "idle" /\ GoesOn(c))
    /\ WF_saleVars(serving[c].at # "idle" /\ BreaksDeadlock(c))

(***************************************************************************)
(* Properties.                                                             *)
(***************************************************************************)
Requests ==
  [at: Steps, op: Ops, order: NoOr(Orders), basket: AnyBasket, method: AnyMethod,
   status: AnyStatus, was: AnyStatus, sale: NoOr(Sales), items: Amounts,
   todo: RowSets, next: NoOr(Lockable), seen: Nat, limit: Nat]

SaleTypeOK ==
  /\ orders \in [Orders -> [at: OrderStages, basket: AnyBasket, sale: NoOr(Sales)]]
  /\ takings \in [Sales -> Nat] /\ till \in BOOLEAN /\ ceiling \in Nat
  /\ serving \in [Tellers -> Requests]
  /\ served \in 0 .. ServiceBound
  /\ confirmed \subseteq (Orders \X Sales) /\ strained \in BOOLEAN

(* Of a row only one transaction is the holder; what a sale has deducted   *)
(* is still in stock when it commits, and what a settlement has locked is  *)
(* still owed: every check made under a lock stands until the commit.      *)
Exclusive == \A c, d \in Tellers : \A x \in Lockable : Holds(c, x) /\ Holds(d, x) => c = d
DeductedIsThere == \A c \in Tellers : \A p \in StockLocks(serving[c]) :
                     serving[c].basket[p] <= stock[p]
LockedIsOwed == \A c \in Tellers : \A s \in RowLocks(serving[c]) :
                  /\ Book!OnCredit(s)
                  /\ sold[s].paid + serving[c].items[s] <= Worth[sold[s].basket]
CounterInv == SaleTypeOK /\ Book!BookInv /\ Exclusive /\ DeductedIsThere /\ LockedIsOwed

(* Whatever requests meet, are dropped or turned away, goods and debts     *)
(* change as in a book whose lines are written at once: no sale of what is *)
(* not there, no half of a sale, no debt paid twice.                       *)
ImplementsBook == Book!Spec

(* Two tellers may sell one order, but only one is answered with success,  *)
(* and the order keeps that sale; a sale is of one order.                  *)
ConfirmedOnce ==
  /\ \A x \in confirmed :
       orders[x[1]].at = "fulfilled" /\ orders[x[1]].sale = x[2]
  /\ \A o, other \in Orders :
       orders[o].sale # Unsaid =>
         /\ sold[orders[o].sale] # Book!Blank
         /\ orders[other].sale = orders[o].sale => other = o

(* Requests served one after the other, none dropped and none failing      *)
(* after its commit: the player never owes more than the limit, and what   *)
(* the cache says between two requests is what is owed.                    *)
LimitKeptInTurn ==
  ~strained =>
    /\ Owed <= ceiling
    /\ (\A c \in Tellers : serving[c].at = "idle") => cache \in {Unsaid, Owed}

(* Then too every sale paid in cash has one entry in the register, no      *)
(* other has any, and what was settled in cash is entered in full.         *)
CashCountedInTurn ==
  (~strained /\ \A c \in Tellers : serving[c].at = "idle") =>
    /\ \A s \in Sales :
         takings[s] = IF sold[s].method = "cash" /\ sold[s].at = "completed" THEN 1 ELSE 0
    /\ "online" \notin Payments => collected = MapThenSumSet(LAMBDA s : sold[s].paid, Sales)

(* Every request ends, also of those that wait for each other.             *)
EveryTellerAnswers ==
  \A c \in Tellers : serving[c].at # "idle" ~> serving[c].at = "idle"
=============================================================================
