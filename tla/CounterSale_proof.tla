------------------------- MODULE CounterSale_proof -------------------------
(***************************************************************************)
(* For any products, sales, orders, tellers, limits and bounds: the        *)
(* counter implements the book, every check it makes under a lock stands   *)
(* until the commit, and one sale of an order is confirmed.  All rest on   *)
(* SaleInv: what a request holds and carries from step to step.  Served in *)
(* turn, requests keep the limit and count the cash: TurnInv.              *)
(***************************************************************************)
EXTENDS CounterSale, Totals, TLAPS

(***************************************************************************)
(* The inductive invariant                                                 *)
(***************************************************************************)
(* What a request is about at each of its steps. *)
IsAboutGoods(r) ==
  /\ r.op = "sell" => /\ r.basket \in Baskets
                      /\ r.method \in Book!Methods /\ r.status \in Book!Statuses
  /\ r.op = "overrule" => r.sale \in Sales /\ r.status \in Book!Statuses
IsLocking(r) ==
  /\ r.at \in {"lines", "wait"} =>
       \/ r.op = "sell" /\ r.todo \subseteq Wanted(r.basket)
       \/ r.op = "settle" /\ r.todo \subseteq Covered(r.items)
  /\ r.at = "wait" => r.next \in r.todo
  /\ r.at = "deduct" => r.op = "sell" /\ r.todo \subseteq Wanted(r.basket)
IsCommitted(r) ==
  /\ r.at \in {"forget", "cash"} =>
       \/ r.op \in {"sell", "overrule"} /\ r.sale \in Sales
       \/ r.op = "settle"
       \/ r.op = "limit" /\ r.at = "forget"
  /\ r.at = "mark" => r.op = "sell" /\ r.order \in Orders /\ r.sale \in Sales
  /\ r.at = "write" => r.op \in {"overrule", "limit"}
Shaped(r) == r \in Requests /\ IsAboutGoods(r) /\ IsLocking(r) /\ IsCommitted(r)

RequestsAreShaped == \A c \in Tellers : Shaped(serving[c])

(* A sale that a request carries was written; if it sold it, it is its own *)
(* and no order has it yet.                                                *)
SalesAreKnown ==
  \A c \in Tellers :
    serving[c].op \in {"sell", "overrule"} /\ serving[c].sale # Unsaid =>
      sold[serving[c].sale] # Book!Blank
SalesAreItsOwn ==
  \A c \in Tellers :
    serving[c].op = "sell" /\ serving[c].sale # Unsaid =>
      /\ \A o \in Orders : orders[o].sale # serving[c].sale
      /\ \A d \in Tellers :
           serving[d].op = "sell" /\ serving[d].sale = serving[c].sale => d = c

(* An order that was placed is for a basket, one that was not has no sale. *)
OrdersHaveBaskets ==
  \A o \in Orders :
    IF orders[o].at = "none" THEN orders[o].sale = Unsaid ELSE orders[o].basket \in Baskets

SaleInv ==
  /\ CounterInv /\ ConfirmedOnce
  /\ RequestsAreShaped /\ SalesAreKnown /\ SalesAreItsOwn /\ OrdersHaveBaskets

(* The types around the book, and all the rest. *)
OrderRows == [at: OrderStages, basket: AnyBasket, sale: NoOr(Sales)]
Typed ==
  /\ orders \in [Orders -> OrderRows] /\ OrdersHaveBaskets
  /\ takings \in [Sales -> Nat] /\ till \in BOOLEAN /\ ceiling \in Nat
  /\ served \in 0 .. ServiceBound
  /\ confirmed \subseteq (Orders \X Sales) /\ strained \in BOOLEAN

Kept == /\ Book!BookInv /\ Exclusive /\ DeductedIsThere /\ LockedIsOwed
        /\ ConfirmedOnce /\ RequestsAreShaped /\ SalesAreKnown /\ SalesAreItsOwn

(***************************************************************************)
(* Requests                                                                *)
(***************************************************************************)
LEMMA NothingIsABasket == Nothing = [p \in Products |-> 0]
  BY DEF Nothing, Book!Nothing

(* A request at rest holds nothing and carries nothing. *)
LEMMA Resting ==
  /\ Shaped(AtRest) /\ Locks(AtRest) = {} /\ StockLocks(AtRest) = {}
  /\ RowLocks(AtRest) = {} /\ AtRest.op = "none" /\ AtRest.sale = Unsaid
<1>1. AtRest \in Requests
  <2>1. /\ "idle" \in Steps /\ "none" \in Ops /\ Unsaid \in NoOr(Orders)
        /\ Unsaid \in NoOr(Sales) /\ Unsaid \in NoOr(Lockable) /\ Nothing \in AnyBasket
        /\ "none" \in AnyMethod /\ "none" \in AnyStatus /\ {} \in RowSets
        /\ [s \in Sales |-> 0] \in Amounts /\ 0 \in Nat
    BY DEF Steps, Ops, NoOr, AnyBasket, AnyMethod, AnyStatus, RowSets, Amounts
  <2> QED BY <2>1 DEF AtRest, Requests
<1> QED
  BY <1>1, SMT DEF AtRest, Shaped, IsAboutGoods, IsLocking, IsCommitted, Locks,
     ProductLocks, StockLocks, RowLocks

(* Another step of a request, all else as it was. *)
LEMMA Stepping ==
  ASSUME NEW r \in Requests, NEW step \in Steps, NEW q, q = [r EXCEPT !.at = step]
  PROVE  /\ q \in Requests /\ q.at = step /\ q.op = r.op /\ q.order = r.order
         /\ q.basket = r.basket /\ q.method = r.method /\ q.status = r.status
         /\ q.was = r.was /\ q.sale = r.sale /\ q.items = r.items /\ q.todo = r.todo
         /\ q.next = r.next /\ q.seen = r.seen /\ q.limit = r.limit
  BY SMT DEF Requests

(***************************************************************************)
(* The book                                                                *)
(***************************************************************************)
StaysWritten == \A s \in Sales : sold[s] # Book!Blank => sold'[s] # Book!Blank
SaleRows == [at: Book!Statuses, method: Book!Methods, basket: Baskets, paid: Nat]

LEMMA RowsOfTheBook ==
  ASSUME Book!BookInv, NEW s \in Sales, sold[s] # Book!Blank
  PROVE  sold[s] \in SaleRows /\ sold[s].paid <= Worth[sold[s].basket]
  BY DEF Book!BookInv, SaleRows

LEMMA RowsAreNotBlank ==
  ASSUME NEW row \in SaleRows
  PROVE  row # Book!Blank
<1>1. row.at # "none"
  BY DEF SaleRows, Book!Statuses
<1> QED BY <1>1, SMT DEF Book!Blank

(* A sale there is has a basket with a price. *)
LEMMA PricesAreNumbers ==
  ASSUME NEW b \in Baskets
  PROVE  Worth[b] \in Nat \ {0} /\ b \in [Products -> Nat]
  BY CounterAssumption

LEMMA SellKeepsBook ==
  ASSUME Book!BookInv, NEW s \in Sales, Book!Sell(s)
  PROVE  Book!BookInv' /\ StaysWritten
<1> DEFINE row == Book!Written(sold'[s].at, sold'[s].method, sold'[s].basket)
<1>1. /\ sold'[s].at \in Book!Statuses /\ sold'[s].method \in Book!Methods
      /\ sold'[s].basket \in Baskets
      /\ \A p \in Products : sold'[s].basket[p] <= stock[p]
      /\ sold' = [sold EXCEPT ![s] = row]
      /\ stock' = [p \in Products |-> stock[p] - sold'[s].basket[p]]
  BY DEF Book!Sell
<1>2. row \in SaleRows /\ row.paid = 0 /\ row.basket = sold'[s].basket
  BY <1>1 DEF Book!Written, SaleRows
<1> HIDE DEF row
<1>3. DOMAIN sold = Sales
  BY DEF Book!BookInv
<1>4. sold'[s] = row /\ \A t \in Sales \ {s} : sold'[t] = sold[t]
  BY <1>1, <1>3
<1>5. \A t \in Sales : sold'[t] # Book!Blank =>
        sold'[t] \in SaleRows /\ sold'[t].paid <= Worth[sold'[t].basket]
  <2>1. row.paid <= Worth[row.basket]
    BY <1>1, <1>2, PricesAreNumbers
  <2> QED BY <1>2, <1>4, <2>1, RowsOfTheBook
<1>6. sold' \in [Sales -> {Book!Blank} \cup SaleRows]
  <2>1. sold' = [t \in Sales |-> sold'[t]]
    BY <1>1, <1>3
  <2> QED BY <1>5, <2>1
<1>7. stock' \in [Products -> Nat]
  BY <1>1, PricesAreNumbers DEF Book!BookInv
<1>8. StaysWritten
  BY <1>2, <1>4, RowsAreNotBlank DEF StaysWritten
<1> QED BY <1>1, <1>5, <1>6, <1>7, <1>8 DEF Book!BookInv, SaleRows, Book!Blank, Book!Nothing,
           Book!Statuses, Book!Methods

LEMMA SettleKeepsBook ==
  ASSUME Book!BookInv, NEW items \in [Sales -> Nat], Book!Settle(items)
  PROVE  Book!BookInv' /\ StaysWritten
<1>1. /\ \A s \in Sales : items[s] > 0 =>
           Book!OnCredit(s) /\ sold[s].paid + items[s] <= Worth[sold[s].basket]
      /\ sold' = [s \in Sales |-> Book!Settled(s, items[s])]
      /\ stock' = stock
  BY DEF Book!Settle
<1>2. ASSUME NEW s \in Sales
      PROVE  /\ sold[s] = Book!Blank => sold'[s] = Book!Blank
             /\ sold[s] # Book!Blank =>
                  sold'[s] \in SaleRows /\ sold'[s].paid <= Worth[sold'[s].basket]
  <2>1. CASE items[s] = 0
    BY <1>1, <2>1, RowsOfTheBook DEF Book!Settled
  <2>2. CASE items[s] > 0
    <3>1. sold[s] # Book!Blank
      BY <1>1, <2>2 DEF Book!Blank, Book!OnCredit
    <3>2. sold[s] \in SaleRows
      BY <3>1, RowsOfTheBook
    <3> DEFINE stage == IF sold[s].paid + items[s] >= Worth[sold[s].basket]
                        THEN "completed" ELSE "credit"
               row == [sold[s] EXCEPT !.paid = sold[s].paid + items[s], !.at = stage]
    <3>3. sold'[s] = row
      <4>1. items[s] # 0 /\ sold'[s] = Book!Settled(s, items[s])
        BY <1>1, <2>2
      <4>2. Book!Settled(s, items[s]) = row
        BY <4>1, Zenon DEF Book!Settled
      <4> QED BY <4>1, <4>2
    <3>4. stage \in Book!Statuses /\ sold[s].paid + items[s] \in Nat
      BY <3>2 DEF Book!Statuses, SaleRows
    <3> HIDE DEF stage
    <3>5. row \in SaleRows
      BY <3>2, <3>4 DEF SaleRows
    <3>6. row.paid = sold[s].paid + items[s] /\ row.basket = sold[s].basket
      BY <3>2, SMT DEF SaleRows
    <3> HIDE DEF row
    <3>7. row.paid <= Worth[row.basket]
      BY <1>1, <2>2, <3>6
    <3> QED BY <3>1, <3>3, <3>5, <3>7
  <2> QED BY <2>1, <2>2
<1>3. sold' \in [Sales -> {Book!Blank} \cup SaleRows]
  BY <1>1, <1>2
<1>4. StaysWritten
  BY <1>2, RowsAreNotBlank DEF StaysWritten
<1> QED BY <1>1, <1>2, <1>3, <1>4 DEF Book!BookInv, SaleRows, Book!Blank, Book!Nothing,
           Book!Statuses, Book!Methods

LEMMA OverruleKeepsBook ==
  ASSUME Book!BookInv, NEW s \in Sales, Book!Overrule(s)
  PROVE  Book!BookInv' /\ StaysWritten
<1> DEFINE row == [sold[s] EXCEPT !.at = sold'[s].at]
<1>1. /\ sold[s] # Book!Blank /\ sold'[s].at \in Book!Statuses
      /\ sold' = [sold EXCEPT ![s] = row] /\ stock' = stock
  BY DEF Book!Overrule
<1>2. sold[s] \in SaleRows /\ sold[s].paid <= Worth[sold[s].basket]
  BY <1>1, RowsOfTheBook
<1>3. row \in SaleRows
  BY <1>1, <1>2 DEF SaleRows
<1>4. row.paid = sold[s].paid /\ row.basket = sold[s].basket
  BY <1>2, SMT DEF SaleRows
<1> HIDE DEF row
<1>5. DOMAIN sold = Sales
  BY DEF Book!BookInv
<1>6. sold'[s] = row /\ \A t \in Sales \ {s} : sold'[t] = sold[t]
  BY <1>1, <1>5
<1>7. \A t \in Sales : sold'[t] # Book!Blank =>
        sold'[t] \in SaleRows /\ sold'[t].paid <= Worth[sold'[t].basket]
  BY <1>2, <1>3, <1>4, <1>6, RowsOfTheBook
<1>8. sold' \in [Sales -> {Book!Blank} \cup SaleRows]
  <2>1. sold' = [t \in Sales |-> sold'[t]]
    BY <1>1, <1>5
  <2> QED BY <1>7, <2>1
<1>9. StaysWritten
  BY <1>3, <1>6, RowsAreNotBlank DEF StaysWritten
<1> QED BY <1>1, <1>7, <1>8, <1>9 DEF Book!BookInv, SaleRows, Book!Blank, Book!Nothing,
           Book!Statuses, Book!Methods

LEMMA GoodsKeepBook ==
  ASSUME Book!BookInv, NEW p \in Products, Book!Leave(p) \/ Book!Arrive(p)
  PROVE  Book!BookInv' /\ StaysWritten
<1>1. sold' = sold
  BY DEF Book!Leave, Book!Arrive
<1>2. stock' \in [Products -> Nat]
  BY DEF Book!BookInv, Book!Leave, Book!Arrive
<1>3. StaysWritten
  BY <1>1 DEF StaysWritten
<1> QED BY <1>1, <1>2, <1>3 DEF Book!BookInv, Book!Blank, Book!Nothing, Book!Statuses,
           Book!Methods

(***************************************************************************)
(* A request moves on, the book and the orders stay.                       *)
(***************************************************************************)
(* What a teller may carry on with. *)
Follows(c, r) ==
  /\ Shaped(r)
  /\ \A x \in Locks(r) : x \in Lockable => Holds(c, x) \/ FreeFor(c, x)
  /\ \A p \in StockLocks(r) : r.basket[p] <= stock[p]
  /\ \A s \in RowLocks(r) : /\ Book!OnCredit(s)
                            /\ sold[s].paid + r.items[s] <= Worth[sold[s].basket]
  /\ r.op = "sell" => r.sale = Unsaid \/ (serving[c].op = "sell" /\ r.sale = serving[c].sale)
  /\ r.op = "overrule" /\ r.sale # Unsaid => sold[r.sale] # Book!Blank

LEMMA MovesOn ==
  ASSUME SaleInv, NEW c \in Tellers, NEW r, Follows(c, r), Continues(c, r),
         UNCHANGED <<bookVars, orderVars>>
  PROVE  serving' \in [Tellers -> Requests] /\ Kept'
<1>0. /\ serving \in [Tellers -> Requests]
      /\ stock' = stock /\ sold' = sold
      /\ orders' = orders /\ confirmed' = confirmed
  BY DEF SaleInv, CounterInv, SaleTypeOK, bookVars, orderVars
<1>1. /\ serving'[c] = r
      /\ \A d \in Tellers \ {c} : serving'[d] = serving[d]
      /\ serving' \in [Tellers -> Requests]
  BY <1>0 DEF Continues, Follows, Shaped
<1>2. Book!BookInv'
  BY <1>0 DEF SaleInv, CounterInv, Book!BookInv, Book!Blank, Book!Nothing, Book!Statuses,
     Book!Methods
<1>3. Exclusive'
  <2> SUFFICES ASSUME NEW a \in Tellers, NEW d \in Tellers, NEW x \in Lockable,
                      x \in Locks(serving'[a]), x \in Locks(serving'[d]), a # d
               PROVE  FALSE
    BY DEF Exclusive, Holds
  <2>1. CASE a # c /\ d # c
    BY <2>1, <1>1 DEF SaleInv, CounterInv, Exclusive, Holds
  <2>2. CASE a = c
    <3>1. d # c /\ Holds(d, x)
      BY <2>2, <1>1 DEF Holds
    <3>2. Holds(c, x) \/ FreeFor(c, x)
      BY <2>2, <1>1 DEF Follows
    <3> QED BY <3>1, <3>2 DEF SaleInv, CounterInv, Exclusive, FreeFor
  <2>3. CASE d = c
    <3>1. a # c /\ Holds(a, x)
      BY <2>3, <1>1 DEF Holds
    <3>2. Holds(c, x) \/ FreeFor(c, x)
      BY <2>3, <1>1 DEF Follows
    <3> QED BY <3>1, <3>2 DEF SaleInv, CounterInv, Exclusive, FreeFor
  <2> QED BY <2>1, <2>2, <2>3
<1>4. DeductedIsThere'
  BY <1>0, <1>1 DEF SaleInv, CounterInv, DeductedIsThere, Follows
<1>5. LockedIsOwed'
  BY <1>0, <1>1 DEF SaleInv, CounterInv, LockedIsOwed, Book!OnCredit, Follows
<1>6. ConfirmedOnce'
  BY <1>0 DEF SaleInv, ConfirmedOnce, Book!Blank, Book!Nothing
<1>7. RequestsAreShaped'
  <2>1. \A d \in Tellers : Shaped(serving'[d])
    BY <1>1 DEF SaleInv, RequestsAreShaped, Follows
  <2> QED BY <2>1 DEF RequestsAreShaped, Shaped, Requests, IsAboutGoods, IsLocking,
             IsCommitted, Wanted, Covered, Steps, Nothing, Book!Nothing, Book!Methods, Book!Statuses
<1>8. SalesAreKnown'
  BY <1>0, <1>1 DEF SaleInv, SalesAreKnown, Follows, Book!Blank, Book!Nothing
<1>9. SalesAreItsOwn'
  BY <1>0, <1>1 DEF SaleInv, SalesAreItsOwn, Follows
<1> QED BY <1>1, <1>2, <1>3, <1>4, <1>5, <1>6, <1>7, <1>8, <1>9 DEF Kept

LEMMA RestFollows ==
  ASSUME NEW c \in Tellers PROVE Follows(c, AtRest)
  BY Resting DEF Follows

(* what holds of the request of a teller, in one place *)
LEMMA RequestOf ==
  ASSUME SaleInv, NEW c \in Tellers
  PROVE  /\ serving[c] \in Requests /\ Shaped(serving[c])
         /\ \A p \in StockLocks(serving[c]) : serving[c].basket[p] <= stock[p]
         /\ \A s \in RowLocks(serving[c]) :
              /\ Book!OnCredit(s)
              /\ sold[s].paid + serving[c].items[s] <= Worth[sold[s].basket]
         /\ serving[c].op \in {"sell", "overrule"} /\ serving[c].sale # Unsaid =>
              sold[serving[c].sale] # Book!Blank
  BY DEF SaleInv, CounterInv, SaleTypeOK, RequestsAreShaped, DeductedIsThere, LockedIsOwed,
     SalesAreKnown

(* The locks of a request, step by step. *)
LEMMA LocksOf ==
  ASSUME NEW r
  PROVE  /\ r.op \notin {"sell", "settle"} =>
              Locks(r) = {} /\ StockLocks(r) = {} /\ RowLocks(r) = {}
         /\ r.op = "sell" => RowLocks(r) = {}
         /\ r.op = "sell" /\ r.at \in {"lines", "wait"} =>
              Locks(r) = Wanted(r.basket) \ r.todo /\ StockLocks(r) = {}
         /\ r.op = "sell" /\ r.at \in {"limit", "cached", "sum", "store", "decide"} =>
              Locks(r) = Wanted(r.basket) /\ StockLocks(r) = {}
         /\ r.op = "sell" /\ r.at = "deduct" =>
              Locks(r) = Wanted(r.basket) /\ StockLocks(r) = Wanted(r.basket) \ r.todo
         /\ r.op = "sell" /\ r.at \in {"idle", "write", "forget", "cash", "mark"} =>
              Locks(r) = {} /\ StockLocks(r) = {}
         /\ r.op = "settle" => StockLocks(r) = {} /\ Locks(r) = RowLocks(r)
         /\ r.op = "settle" /\ r.at \in {"lines", "wait"} =>
              RowLocks(r) = Covered(r.items) \ r.todo
         /\ r.op = "settle" /\ r.at \notin {"lines", "wait"} => RowLocks(r) = {}
  BY DEF Locks, ProductLocks, StockLocks, RowLocks

(* A sale once its lines are locked, with credit or without. *)
LEMMA LinesDone ==
  ASSUME NEW r \in Requests, r.op = "sell", r.basket \in Baskets,
         r.method \in Book!Methods, r.status \in Book!Statuses
  PROVE  /\ Shaped(AfterLines(r)) /\ AfterLines(r).op = "sell"
         /\ AfterLines(r).sale = r.sale
         /\ Locks(AfterLines(r)) = Wanted(r.basket)
         /\ StockLocks(AfterLines(r)) = {} /\ RowLocks(AfterLines(r)) = {}
<1> DEFINE q == AfterLines(r)
<1>1. Wanted(r.basket) \in RowSets
  BY DEF Wanted, RowSets, Lockable
<1>2. CASE r.method = "credit"
  <2>1. q = [r EXCEPT !.at = "limit"]
    BY <1>2 DEF AfterLines
  <2>2. /\ q \in Requests /\ q.at = "limit" /\ q.op = "sell" /\ q.basket = r.basket
        /\ q.method = r.method /\ q.status = r.status /\ q.sale = r.sale
    BY <2>1, Stepping DEF Steps
  <2> HIDE DEF q
  <2>3. Shaped(q)
    BY <2>2 DEF Shaped, IsAboutGoods, IsLocking, IsCommitted
  <2>4. Locks(q) = Wanted(r.basket) /\ StockLocks(q) = {} /\ RowLocks(q) = {}
    BY <2>2, LocksOf
  <2> QED BY <2>2, <2>3, <2>4 DEF q
<1>3. CASE r.method # "credit"
  <2>1. q = [r EXCEPT !.at = "deduct", !.todo = Wanted(r.basket)]
    BY <1>3 DEF AfterLines
  <2>2. /\ q \in Requests /\ q.at = "deduct" /\ q.op = "sell" /\ q.basket = r.basket
        /\ q.method = r.method /\ q.status = r.status /\ q.sale = r.sale
        /\ q.todo = Wanted(r.basket)
    <3>1. "deduct" \in Steps
      BY DEF Steps
    <3>2. q \in Requests
      BY <2>1, <1>1, <3>1 DEF Requests
    <3> QED BY <2>1, <3>2, SMT DEF Requests
  <2> HIDE DEF q
  <2>3. Shaped(q)
    BY <2>2 DEF Shaped, IsAboutGoods, IsLocking, IsCommitted
  <2>4. Locks(q) = Wanted(r.basket) /\ StockLocks(q) = {} /\ RowLocks(q) = {}
    BY <2>2, LocksOf
  <2> QED BY <2>2, <2>3, <2>4 DEF q
<1> QED BY <1>2, <1>3

(* The requests a teller begins with hold nothing. *)
LEMMA SaleBegins ==
  ASSUME NEW c \in Tellers, NEW b \in Baskets, NEW m \in Book!Methods,
         NEW status \in Book!Statuses, NEW o \in NoOr(Orders)
  PROVE  Follows(c, SaleOf(b, m, status, o))
<1> DEFINE r == [AtRest EXCEPT !.op = "sell", !.basket = b, !.method = m,
                   !.status = status, !.order = o]
           q == [r EXCEPT !.at = "lines", !.todo = Wanted(b)]
<1>1. /\ r \in Requests /\ r.op = "sell" /\ r.basket = b /\ r.method = m
      /\ r.status = status /\ r.sale = Unsaid
  <2>1. r \in Requests
    <3>1. b \in AnyBasket /\ m \in AnyMethod /\ status \in AnyStatus /\ "sell" \in Ops
      BY DEF AnyBasket, AnyMethod, AnyStatus, Ops
    <3> QED BY <3>1, Resting DEF Shaped, Requests
  <2>2. AtRest.sale = Unsaid
    BY Resting
  <2>3. /\ r.op = "sell" /\ r.basket = b /\ r.method = m
        /\ r.status = status /\ r.sale = AtRest.sale
    BY SMT DEF AtRest
  <2> QED BY <2>1, <2>2, <2>3
<1>2. CASE Wanted(b) = {}
  <2>1. SaleOf(b, m, status, o) = AfterLines(r)
    BY <1>2 DEF SaleOf
  <2> HIDE DEF r
  <2> QED BY <2>1, <1>1, <1>2, LinesDone DEF Follows
<1>3. CASE Wanted(b) # {}
  <2>1. SaleOf(b, m, status, o) = q
    BY <1>3 DEF SaleOf
  <2>2. Wanted(b) \in RowSets
    BY DEF Wanted, RowSets, Lockable
  <2> HIDE DEF r
  <2>3. /\ q \in Requests /\ q.op = "sell" /\ q.basket = b /\ q.method = m
        /\ q.status = status /\ q.sale = Unsaid /\ q.at = "lines" /\ q.todo = Wanted(b)
    <3>1. "lines" \in Steps
      BY DEF Steps
    <3>2. q \in Requests
      BY <1>1, <2>2, <3>1 DEF Requests
    <3> QED BY <1>1, <3>2, SMT DEF Requests
  <2> HIDE DEF q
  <2>4. Shaped(q)
    BY <2>3 DEF Shaped, IsAboutGoods, IsLocking, IsCommitted
  <2>5. Follows(c, q)
    BY <2>3, <2>4, LocksOf DEF Follows
  <2> QED BY <2>1, <2>5 DEF q
<1> QED BY <1>2, <1>3

LEMMA SummaryBegins ==
  ASSUME NEW c \in Tellers
  PROVE  Follows(c, [AtRest EXCEPT !.op = "summary", !.at = "limit"])
<1> DEFINE q == [AtRest EXCEPT !.op = "summary", !.at = "limit"]
<1>1. q \in Requests /\ q.op = "summary" /\ q.at = "limit"
  <2>1. "summary" \in Ops /\ "limit" \in Steps
    BY DEF Ops, Steps
  <2>2. q \in Requests
    BY <2>1, Resting DEF Shaped, Requests
  <2> QED BY <2>2, SMT DEF AtRest
<1> HIDE DEF q
<1>2. Shaped(q)
  BY <1>1 DEF Shaped, IsAboutGoods, IsLocking, IsCommitted
<1>3. Follows(c, q)
  BY <1>1, <1>2, LocksOf DEF Follows
<1> QED BY <1>3 DEF q

LEMMA SettlementBegins ==
  ASSUME NEW c \in Tellers, NEW items \in [Sales -> Nat], NEW m \in Book!Methods
  PROVE  Follows(c, [AtRest EXCEPT !.op = "settle", !.at = "lines", !.items = items,
                       !.method = m, !.todo = Covered(items)])
<1> DEFINE q == [AtRest EXCEPT !.op = "settle", !.at = "lines", !.items = items,
                   !.method = m, !.todo = Covered(items)]
<1>0. Covered(items) \in RowSets
  BY DEF Covered, RowSets, Lockable
<1>1. q \in Requests /\ q.op = "settle" /\ q.at = "lines" /\ q.items = items
      /\ q.todo = Covered(items)
  <2>1. "settle" \in Ops /\ "lines" \in Steps /\ items \in Amounts /\ m \in AnyMethod
    BY DEF Ops, Steps, Amounts, AnyMethod
  <2>2. q \in Requests
    BY <1>0, <2>1, Resting DEF Shaped, Requests
  <2> QED BY <2>2, SMT DEF AtRest
<1> HIDE DEF q
<1>2. Shaped(q)
  BY <1>1 DEF Shaped, IsAboutGoods, IsLocking, IsCommitted
<1>3. Follows(c, q)
  BY <1>1, <1>2, LocksOf DEF Follows
<1> QED BY <1>3 DEF q

LEMMA OverruleBegins ==
  ASSUME NEW c \in Tellers, NEW s \in Sales, NEW m \in Book!Methods,
         NEW status \in Book!Statuses, NEW was \in Book!Statuses, sold[s] # Book!Blank
  PROVE  Follows(c, [AtRest EXCEPT !.op = "overrule", !.at = "write", !.sale = s,
                       !.method = m, !.status = status, !.was = was])
<1> DEFINE q == [AtRest EXCEPT !.op = "overrule", !.at = "write", !.sale = s,
                   !.method = m, !.status = status, !.was = was]
<1>1. q \in Requests /\ q.op = "overrule" /\ q.at = "write" /\ q.sale = s
      /\ q.status = status
  <2>1. /\ "overrule" \in Ops /\ "write" \in Steps /\ s \in NoOr(Sales)
        /\ m \in AnyMethod /\ status \in AnyStatus /\ was \in AnyStatus
    BY DEF Ops, Steps, NoOr, AnyMethod, AnyStatus
  <2>2. q \in Requests
    BY <2>1, Resting DEF Shaped, Requests
  <2> QED BY <2>2, SMT DEF AtRest
<1> HIDE DEF q
<1>2. Shaped(q)
  BY <1>1 DEF Shaped, IsAboutGoods, IsLocking, IsCommitted
<1>3. Follows(c, q)
  BY <1>1, <1>2, LocksOf DEF Follows
<1> QED BY <1>3 DEF q

LEMMA LimitBegins ==
  ASSUME NEW c \in Tellers, NEW limit \in Nat
  PROVE  Follows(c, [AtRest EXCEPT !.op = "limit", !.at = "write", !.limit = limit])
<1> DEFINE q == [AtRest EXCEPT !.op = "limit", !.at = "write", !.limit = limit]
<1>1. q \in Requests /\ q.op = "limit" /\ q.at = "write"
  <2>1. "limit" \in Ops /\ "write" \in Steps
    BY DEF Ops, Steps
  <2>2. q \in Requests
    BY <2>1, Resting DEF Shaped, Requests
  <2> QED BY <2>2, SMT DEF AtRest
<1> HIDE DEF q
<1>2. Shaped(q)
  BY <1>1 DEF Shaped, IsAboutGoods, IsLocking, IsCommitted
<1>3. Follows(c, q)
  BY <1>1, <1>2, LocksOf DEF Follows
<1> QED BY <1>3 DEF q

(***************************************************************************)
(* The steps on which the book and the orders stay                         *)
(***************************************************************************)
(* How a teller goes on at a step of this kind. *)
Onward(c) == \E r : Follows(c, r) /\ Continues(c, r)

LEMMA DismissedFollows ==
  ASSUME NEW c \in Tellers, Dismiss(c)
  PROVE  Onward(c)
  BY RestFollows DEF Dismiss, Onward

(* The next row is one of those left; nothing new is held. *)
LEMMA TakesFollows ==
  ASSUME SaleInv, NEW c \in Tellers, Takes(c)
  PROVE  Onward(c)
<1> DEFINE r == serving[c]
<1>1. /\ r \in Requests /\ Shaped(r) /\ r.at = "lines"
      /\ r.op = "sell" \/ r.op = "settle"
      /\ \A s \in RowLocks(r) : /\ Book!OnCredit(s)
                                /\ sold[s].paid + r.items[s] <= Worth[sold[s].basket]
      /\ r.op = "sell" /\ r.sale # Unsaid => sold[r.sale] # Book!Blank
  BY RequestOf DEF Takes, Doing
<1>2. PICK x \in r.todo : Continues(c, [r EXCEPT !.at = "wait", !.next = x,
                                        !.seen = IF x \in Products THEN stock[x] ELSE 0])
  BY DEF Takes
<1> DEFINE seen == IF x \in Products THEN stock[x] ELSE 0
           q == [r EXCEPT !.at = "wait", !.next = x, !.seen = seen]
<1>3. seen \in Nat
  BY DEF SaleInv, CounterInv, Book!BookInv
<1>4. x \in NoOr(Lockable) /\ "wait" \in Steps
  BY <1>1 DEF Requests, RowSets, NoOr, Steps
<1> HIDE DEF seen
<1>5. /\ q \in Requests /\ q.at = "wait" /\ q.op = r.op /\ q.order = r.order
      /\ q.basket = r.basket /\ q.method = r.method /\ q.status = r.status
      /\ q.sale = r.sale /\ q.items = r.items /\ q.todo = r.todo /\ q.next = x
  <2>1. q \in Requests
    BY <1>1, <1>3, <1>4 DEF Requests
  <2> QED BY <1>1, <2>1, SMT DEF Requests
<1> HIDE DEF q
<1>6. Shaped(q)
  BY <1>1, <1>2, <1>5 DEF Shaped, IsAboutGoods, IsLocking, IsCommitted
<1>7. Locks(q) = Locks(r) /\ StockLocks(q) = {} /\ RowLocks(q) = RowLocks(r)
  BY <1>1, <1>5, LocksOf
<1>8. Follows(c, q)
  BY <1>1, <1>5, <1>6, <1>7 DEF Follows, Holds
<1> QED BY <1>2, <1>8 DEF Onward, q, seen

(* A product is locked when nobody else holds it. *)
LEMMA LocksProductFollows ==
  ASSUME SaleInv, NEW c \in Tellers, LocksProduct(c)
  PROVE  Onward(c)
<1> DEFINE r == serving[c]
           q == Locked(r)
<1>1. /\ r \in Requests /\ Shaped(r) /\ r.at = "wait" /\ r.op = "sell"
      /\ r.next \in r.todo /\ r.todo \subseteq Wanted(r.basket)
      /\ r.basket \in Baskets /\ r.method \in Book!Methods /\ r.status \in Book!Statuses
      /\ FreeFor(c, r.next)
  BY RequestOf DEF LocksProduct, Doing, Shaped, IsLocking, IsAboutGoods
<1>2. CASE Dismiss(c)
  BY <1>2, DismissedFollows
<1>3. /\ q \in Requests /\ q.at = "lines" /\ q.op = "sell" /\ q.basket = r.basket
      /\ q.method = r.method /\ q.status = r.status /\ q.sale = r.sale
      /\ q.todo = r.todo \ {r.next}
  <2>1. q \in Requests
    <3>1. /\ r.todo \ {r.next} \in RowSets /\ Unsaid \in NoOr(Lockable) /\ "lines" \in Steps
          /\ 0 \in Nat
      BY <1>1 DEF Requests, RowSets, NoOr, Steps
    <3> QED BY <1>1, <3>1 DEF Locked, Requests
  <2> QED BY <1>1, <2>1, SMT DEF Locked, Requests
<1>4. \A x \in Wanted(r.basket) \ (r.todo \ {r.next}) : Holds(c, x) \/ FreeFor(c, x)
  BY <1>1, LocksOf DEF Holds
<1> HIDE DEF q
<1>5. CASE r.todo = {r.next} /\ Continues(c, AfterLines(q))
  <2>1. Follows(c, AfterLines(q))
    BY <1>1, <1>3, <1>4, <1>5, LinesDone DEF Follows
  <2> QED BY <1>5, <2>1 DEF Onward
<1>6. CASE Continues(c, q)
  <2>1. Shaped(q)
    BY <1>1, <1>3 DEF Shaped, IsAboutGoods, IsLocking, IsCommitted
  <2>2. /\ Locks(q) = Wanted(r.basket) \ (r.todo \ {r.next})
        /\ StockLocks(q) = {} /\ RowLocks(q) = {}
    BY <1>3, LocksOf
  <2>3. Follows(c, q)
    BY <1>1, <1>3, <1>4, <2>1, <2>2 DEF Follows
  <2> QED BY <1>6, <2>3 DEF Onward
<1> QED BY <1>2, <1>5, <1>6 DEF LocksProduct, q

(* A request that goes on with no lock it did not have. *)
LEMMA SteppingFollows ==
  ASSUME SaleInv, NEW c \in Tellers, NEW step \in Steps, Moves(c, step), step # "idle",
         Shaped([serving[c] EXCEPT !.at = step]),
         Locks([serving[c] EXCEPT !.at = step]) \subseteq Locks(serving[c]),
         StockLocks([serving[c] EXCEPT !.at = step]) = {},
         RowLocks([serving[c] EXCEPT !.at = step]) = {}
  PROVE  Onward(c)
<1> DEFINE r == serving[c]
           q == [r EXCEPT !.at = step]
<1>1. r \in Requests /\ (r.op \in {"sell", "overrule"} /\ r.sale # Unsaid =>
                           sold[r.sale] # Book!Blank)
  BY RequestOf
<1>2. q.op = r.op /\ q.sale = r.sale
  BY <1>1, Stepping
<1>3. Continues(c, q)
  BY DEF Moves
<1>4. Shaped(q) /\ Locks(q) \subseteq Locks(r) /\ StockLocks(q) = {} /\ RowLocks(q) = {}
  OBVIOUS
<1> HIDE DEF q
<1>5. Follows(c, q)
  BY <1>1, <1>2, <1>4 DEF Follows, Holds
<1> QED BY <1>3, <1>5 DEF Onward

(* On the way through the credit check a sale keeps its products locked. *)
CreditStages == {"limit", "cached", "sum", "store", "decide"}
LEMMA CheckingFollows ==
  ASSUME SaleInv, NEW c \in Tellers, NEW step \in CreditStages, Moves(c, step),
         serving[c].at \in CreditStages
  PROVE  Onward(c)
<1> DEFINE r == serving[c]
           q == [r EXCEPT !.at = step]
<1>1. r \in Requests /\ Shaped(r) /\ step \in Steps /\ step # "idle"
  BY RequestOf DEF CreditStages, Steps
<1>2. /\ q \in Requests /\ q.at = step /\ q.op = r.op /\ q.basket = r.basket
      /\ q.method = r.method /\ q.status = r.status /\ q.sale = r.sale
  BY <1>1, Stepping
<1>3. Shaped(q)
  <2> HIDE DEF q
  <2> QED BY <1>1, <1>2 DEF Shaped, IsAboutGoods, IsLocking, IsCommitted, CreditStages
<1>4. Locks(q) \subseteq Locks(r) /\ StockLocks(q) = {} /\ RowLocks(q) = {}
  <2> HIDE DEF q
  <2>1. CASE r.op = "sell"
    BY <1>2, <2>1, LocksOf DEF CreditStages
  <2>2. CASE r.op = "settle"
    BY <1>2, <2>2, LocksOf DEF CreditStages
  <2>3. CASE r.op \notin {"sell", "settle"}
    BY <1>2, <2>3, LocksOf
  <2> QED BY <2>1, <2>2, <2>3
<1> QED BY <1>1, <1>3, <1>4, SteppingFollows

LEMMA ReadsLimitFollows ==
  ASSUME SaleInv, NEW c \in Tellers, ReadsLimit(c)
  PROVE  Onward(c)
<1> DEFINE r == serving[c]
           q == [r EXCEPT !.at = "cached", !.limit = ceiling]
<1>1. CASE Dismiss(c)
  BY <1>1, DismissedFollows
<1>2. CASE Continues(c, q)
  <2>1. r \in Requests /\ Shaped(r) /\ r.at = "limit" /\ ceiling \in Nat
        /\ (r.op \in {"sell", "overrule"} /\ r.sale # Unsaid => sold[r.sale] # Book!Blank)
    BY RequestOf DEF ReadsLimit, SaleInv, CounterInv, SaleTypeOK
  <2>2. q \in Requests
    <3>1. "cached" \in Steps
      BY DEF Steps
    <3> QED BY <2>1, <3>1 DEF Requests
  <2>3. /\ q.at = "cached" /\ q.op = r.op /\ q.basket = r.basket
        /\ q.method = r.method /\ q.status = r.status /\ q.sale = r.sale
    BY <2>1, SMT DEF Requests
  <2> HIDE DEF q
  <2>4. Shaped(q)
    BY <2>1, <2>2, <2>3 DEF Shaped, IsAboutGoods, IsLocking, IsCommitted
  <2>5. Locks(q) \subseteq Locks(r) /\ StockLocks(q) = {} /\ RowLocks(q) = {}
    <3>1. CASE r.op = "sell"
      BY <2>1, <2>3, <3>1, LocksOf
    <3>2. CASE r.op = "settle"
      BY <2>1, <2>3, <3>2, LocksOf
    <3>3. CASE r.op \notin {"sell", "settle"}
      BY <2>3, <3>3, LocksOf
    <3> QED BY <3>1, <3>2, <3>3
  <2>6. Follows(c, q)
    BY <2>1, <2>3, <2>4, <2>5 DEF Follows, Holds
  <2> QED BY <1>2, <2>6 DEF Onward
<1> QED BY <1>1, <1>2 DEF ReadsLimit

(* A sale found worth its credit has all its stock left to check. *)
LEMMA DecidesFollows ==
  ASSUME SaleInv, NEW c \in Tellers, Decides(c)
  PROVE  Onward(c)
<1> DEFINE r == serving[c]
           q == [r EXCEPT !.at = "deduct", !.todo = Wanted(r.basket), !.limit = 0]
<1>1. CASE Dismiss(c)
  BY <1>1, DismissedFollows
<1>2. CASE r.op = "sell" /\ Continues(c, q)
  <2>1. /\ r \in Requests /\ Shaped(r) /\ r.at = "decide"
        /\ (r.sale # Unsaid => sold[r.sale] # Book!Blank)
    BY <1>2, RequestOf DEF Decides
  <2>2. q \in Requests
    <3>1. "deduct" \in Steps /\ Wanted(r.basket) \in RowSets /\ 0 \in Nat
      BY DEF Steps, Wanted, RowSets, Lockable
    <3> QED BY <2>1, <3>1 DEF Requests
  <2>3. /\ q.at = "deduct" /\ q.op = r.op /\ q.basket = r.basket /\ q.todo = Wanted(r.basket)
        /\ q.method = r.method /\ q.status = r.status /\ q.sale = r.sale
    BY <2>1, SMT DEF Requests
  <2> HIDE DEF q
  <2>4. Shaped(q)
    BY <1>2, <2>1, <2>2, <2>3 DEF Shaped, IsAboutGoods, IsLocking, IsCommitted
  <2>5. Locks(q) = Locks(r) /\ StockLocks(q) = {} /\ RowLocks(q) = {}
    BY <1>2, <2>1, <2>3, LocksOf
  <2>6. Follows(c, q)
    BY <1>2, <2>1, <2>3, <2>4, <2>5 DEF Follows, Holds
  <2> QED BY <1>2, <2>6 DEF Onward
<1> QED BY <1>1, <1>2 DEF Decides

(* What is deducted is there. *)
LEMMA DeductsFollows ==
  ASSUME SaleInv, NEW c \in Tellers, Deducts(c)
  PROVE  Onward(c)
<1> DEFINE r == serving[c]
<1>1. PICK p \in r.todo : IF stock[p] < r.basket[p] THEN Dismiss(c)
                         ELSE Continues(c, [r EXCEPT !.todo = @ \ {p}])
  BY DEF Deducts
<1>2. CASE Dismiss(c)
  BY <1>2, DismissedFollows
<1>3. CASE ~(stock[p] < r.basket[p]) /\ Continues(c, [r EXCEPT !.todo = @ \ {p}])
  <2> DEFINE q == [r EXCEPT !.todo = r.todo \ {p}]
  <2>1. /\ r \in Requests /\ Shaped(r) /\ r.op = "sell" /\ r.at = "deduct"
        /\ r.todo \subseteq Wanted(r.basket) /\ r.basket \in Baskets
        /\ (r.sale # Unsaid => sold[r.sale] # Book!Blank)
        /\ \A x \in StockLocks(r) : r.basket[x] <= stock[x]
    BY RequestOf DEF Deducts, Doing, Shaped, IsLocking, IsAboutGoods
  <2>2. q \in Requests
    <3>1. r.todo \ {p} \in RowSets
      BY <2>1 DEF RowSets, Requests
    <3> QED BY <2>1, <3>1 DEF Requests
  <2>3. /\ q.at = "deduct" /\ q.op = r.op /\ q.basket = r.basket /\ q.todo = r.todo \ {p}
        /\ q.method = r.method /\ q.status = r.status /\ q.sale = r.sale
    BY <2>1, SMT DEF Requests
  <2>4. r.basket[p] <= stock[p]
    <3>1. p \in Products
      BY <1>1, <2>1 DEF Wanted
    <3>2. r.basket[p] \in Nat /\ stock[p] \in Nat
      BY <2>1, <3>1, CounterAssumption DEF SaleInv, CounterInv, Book!BookInv
    <3> QED BY <1>3, <3>2
  <2>0. Continues(c, q)
    BY <1>3
  <2> HIDE DEF q
  <2>5. Shaped(q)
    BY <2>1, <2>2, <2>3 DEF Shaped, IsAboutGoods, IsLocking, IsCommitted
  <2>6. /\ Locks(q) = Locks(r) /\ StockLocks(q) \subseteq StockLocks(r) \cup {p}
        /\ RowLocks(q) = {}
    BY <2>1, <2>3, LocksOf
  <2>7. \A x \in StockLocks(q) : q.basket[x] <= stock[x]
    BY <2>1, <2>3, <2>4, <2>6
  <2>8. Follows(c, q)
    BY <2>1, <2>3, <2>5, <2>6, <2>7 DEF Follows, Holds
  <2> QED BY <2>0, <2>8 DEF Onward
<1> QED BY <1>1, <1>2, <1>3

(* A sale is locked while it is owed, and nobody else holds it. *)
LEMMA LocksSaleFollows ==
  ASSUME SaleInv, NEW c \in Tellers, LocksSale(c)
  PROVE  Onward(c)
<1> DEFINE r == serving[c]
           q == Locked(r)
<1>1. CASE Dismiss(c)
  BY <1>1, DismissedFollows
<1>2. CASE /\ Book!OnCredit(r.next)
           /\ sold[r.next].paid + r.items[r.next] <= Worth[sold[r.next].basket]
           /\ Continues(c, q)
  <2>1. /\ r \in Requests /\ Shaped(r) /\ r.op = "settle" /\ r.at = "wait"
        /\ r.next \in r.todo /\ r.todo \subseteq Covered(r.items) /\ FreeFor(c, r.next)
        /\ \A s \in RowLocks(r) : /\ Book!OnCredit(s)
                                  /\ sold[s].paid + r.items[s] <= Worth[sold[s].basket]
    BY RequestOf DEF LocksSale, Doing, Shaped, IsLocking
  <2>2. q \in Requests
    <3>1. /\ r.todo \ {r.next} \in RowSets /\ Unsaid \in NoOr(Lockable) /\ "lines" \in Steps
          /\ 0 \in Nat
      BY <2>1 DEF Requests, RowSets, NoOr, Steps
    <3> QED BY <2>1, <3>1 DEF Locked, Requests
  <2>3. q.at = "lines" /\ q.op = "settle" /\ q.items = r.items /\ q.todo = r.todo \ {r.next}
    BY <2>1, SMT DEF Locked, Requests
  <2> HIDE DEF q
  <2>4. Shaped(q)
    BY <2>1, <2>2, <2>3 DEF Shaped, IsAboutGoods, IsLocking, IsCommitted
  <2>5. RowLocks(q) \subseteq RowLocks(r) \cup {r.next} /\ Locks(q) = RowLocks(q)
        /\ Locks(r) = RowLocks(r) /\ StockLocks(q) = {}
    BY <2>1, <2>3, LocksOf
  <2>6. Follows(c, q)
    BY <1>2, <2>1, <2>3, <2>4, <2>5 DEF Follows, Holds
  <2> QED BY <1>2, <2>6 DEF Onward
<1> QED BY <1>1, <1>2 DEF LocksSale

(* After a commit nothing is held. *)
LEMMA CommittedFollows ==
  ASSUME SaleInv, NEW c \in Tellers, NEW step \in {"forget", "cash", "mark", "limit"},
         Moves(c, step), serving[c].op # "none",
         serving[c].op = "sell" => step # "limit",
         Shaped([serving[c] EXCEPT !.at = step])
  PROVE  Onward(c)
<1> DEFINE r == serving[c]
           q == [r EXCEPT !.at = step]
<1>1. r \in Requests /\ step \in Steps /\ step # "idle"
  BY RequestOf DEF Steps
<1>2. q.at = step /\ q.op = r.op
  BY <1>1, Stepping
<1>3. Shaped(q)
  OBVIOUS
<1>4. Locks(q) = {} /\ StockLocks(q) = {} /\ RowLocks(q) = {}
  <2> HIDE DEF q
  <2>1. CASE r.op = "sell"
    BY <1>2, <2>1, LocksOf
  <2>2. CASE r.op = "settle"
    BY <1>2, <2>2, LocksOf
  <2>3. CASE r.op \notin {"sell", "settle"}
    BY <1>2, <2>3, LocksOf
  <2> QED BY <2>1, <2>2, <2>3
<1> QED BY <1>1, <1>3, <1>4, SteppingFollows

(* The last step of a sale marks its order; every other request has none. *)
LEMMA LastFollows ==
  ASSUME SaleInv, NEW c \in Tellers, Moves(c, LastOf(serving[c])),
         serving[c].at \in {"forget", "cash"}
  PROVE  Onward(c)
<1> DEFINE r == serving[c]
           q == [r EXCEPT !.at = "mark"]
<1>1. r \in Requests /\ Shaped(r)
  BY RequestOf
<1>2. CASE LastOf(r) = "idle"
  BY <1>2, RestFollows DEF Moves, Onward
<1>3. CASE LastOf(r) # "idle"
  <2>1. LastOf(r) = "mark" /\ r.op = "sell" /\ r.order # Unsaid
    BY <1>3 DEF LastOf
  <2>2. r.order \in Orders /\ r.sale \in Sales
    BY <1>1, <2>1 DEF Requests, NoOr, Shaped, IsCommitted
  <2>3. /\ q \in Requests /\ q.at = "mark" /\ q.op = "sell" /\ q.order = r.order
        /\ q.basket = r.basket /\ q.method = r.method /\ q.status = r.status
        /\ q.sale = r.sale
    <3>1. "mark" \in Steps
      BY DEF Steps
    <3> QED BY <1>1, <2>1, <3>1, Stepping
  <2>4. Shaped(q)
    <3> HIDE DEF q
    <3> QED BY <1>1, <2>1, <2>2, <2>3 DEF Shaped, IsAboutGoods, IsLocking, IsCommitted
  <2> QED BY <2>1, <2>4, CommittedFollows
<1> QED BY <1>2, <1>3

LEMMA EmptiesCacheFollows ==
  ASSUME SaleInv, NEW c \in Tellers, serving[c].at = "forget",
         Moves(c, AfterForgetting(serving[c]))
  PROVE  Onward(c)
<1> DEFINE r == serving[c]
<1>1. r \in Requests /\ Shaped(r) /\ r.op \in {"sell", "overrule", "settle", "limit"}
  BY RequestOf DEF Shaped, IsCommitted
<1>2. CASE r.op = "sell"
  BY <1>2, LastFollows DEF AfterForgetting
<1>3. CASE r.op = "settle" /\ r.method = "cash"
  <2>1. AfterForgetting(r) = "cash" /\ "cash" \in Steps
    BY <1>3 DEF AfterForgetting, Steps
  <2> DEFINE q == [r EXCEPT !.at = "cash"]
  <2>2. q \in Requests /\ q.at = "cash" /\ q.op = "settle"
    BY <1>1, <1>3, <2>1, Stepping
  <2>3. Shaped(q)
    <3> HIDE DEF q
    <3> QED BY <2>2 DEF Shaped, IsAboutGoods, IsLocking, IsCommitted
  <2> QED BY <1>3, <2>1, <2>3, CommittedFollows
<1>4. CASE r.op = "limit"
  <2>1. AfterForgetting(r) = "limit" /\ "limit" \in Steps
    BY <1>4 DEF AfterForgetting, Steps
  <2> DEFINE q == [r EXCEPT !.at = "limit"]
  <2>2. q \in Requests /\ q.at = "limit" /\ q.op = "limit"
    BY <1>1, <1>4, <2>1, Stepping
  <2>3. Shaped(q)
    <3> HIDE DEF q
    <3> QED BY <2>2 DEF Shaped, IsAboutGoods, IsLocking, IsCommitted
  <2> QED BY <1>4, <2>1, <2>3, CommittedFollows
<1>5. CASE r.op = "overrule" \/ (r.op = "settle" /\ r.method # "cash")
  <2>1. AfterForgetting(r) = "idle"
    BY <1>5 DEF AfterForgetting
  <2> QED BY <2>1, RestFollows DEF Moves, Onward
<1> QED BY <1>1, <1>2, <1>3, <1>4, <1>5

LEMMA SetsLimitFollows ==
  ASSUME SaleInv, NEW c \in Tellers, SetsLimit(c)
  PROVE  Onward(c)
<1> DEFINE r == serving[c]
           q == [r EXCEPT !.at = "forget"]
<1>1. r \in Requests /\ r.op = "limit" /\ Moves(c, "forget") /\ "forget" \in Steps
  BY RequestOf DEF SetsLimit, Doing, Steps
<1>2. q \in Requests /\ q.at = "forget" /\ q.op = "limit"
  BY <1>1, Stepping
<1>3. Shaped(q)
  <2> HIDE DEF q
  <2> QED BY <1>2 DEF Shaped, IsAboutGoods, IsLocking, IsCommitted
<1> QED BY <1>1, <1>3, CommittedFollows

(***************************************************************************)
(* The steps that write: a sale, a settlement, a status overruled.         *)
(***************************************************************************)
(* Stock is locked with its product. *)
LEMMA LocksAreRows ==
  ASSUME NEW r
  PROVE  StockLocks(r) \subseteq Locks(r) /\ StockLocks(r) \subseteq Products
         /\ RowLocks(r) \subseteq Locks(r) /\ RowLocks(r) \subseteq Sales
  BY DEF StockLocks, Locks, ProductLocks, RowLocks, Wanted, Covered

(* An order's sale is a sale. *)
LEMMA SaleOfAnOrder ==
  ASSUME SaleInv, NEW o \in Orders, orders[o].sale # Unsaid
  PROVE  orders[o].sale \in Sales /\ sold[orders[o].sale] # Book!Blank
  BY DEF SaleInv, CounterInv, SaleTypeOK, ConfirmedOnce, NoOr

(* Of two who hold a row, one is the other. *)
LEMMA HeldByOne ==
  ASSUME SaleInv, NEW c \in Tellers, NEW d \in Tellers, NEW x,
         x \in Locks(serving[c]), x \in StockLocks(serving[d]) \cup RowLocks(serving[d])
  PROVE  c = d
<1>1. x \in Lockable /\ Holds(c, x) /\ Holds(d, x)
  BY LocksAreRows DEF Lockable, Holds
<1> QED BY <1>1 DEF SaleInv, CounterInv, Exclusive

LEMMA WritingKeeps ==
  ASSUME SaleInv, NEW c \in Tellers, NEW r, Continues(c, r), Shaped(r), Locks(r) = {},
         Book!BookInv', StaysWritten, UNCHANGED orderVars,
         \A d \in Tellers \ {c} :
           /\ \A p \in StockLocks(serving[d]) : stock'[p] = stock[p]
           /\ \A s \in RowLocks(serving[d]) : sold'[s] = sold[s],
         r.op \in {"sell", "overrule"} /\ r.sale # Unsaid => sold'[r.sale] # Book!Blank,
         r.op = "sell" /\ r.sale # Unsaid =>
           \/ r.sale \in Sales /\ sold[r.sale] = Book!Blank
           \/ serving[c].op = "sell" /\ serving[c].sale = r.sale
  PROVE  serving' \in [Tellers -> Requests] /\ Kept'
<1>0. /\ serving \in [Tellers -> Requests]
      /\ orders' = orders /\ confirmed' = confirmed
  BY DEF SaleInv, CounterInv, SaleTypeOK, orderVars
<1>1. /\ serving'[c] = r
      /\ \A d \in Tellers \ {c} : serving'[d] = serving[d]
      /\ serving' \in [Tellers -> Requests]
  BY <1>0 DEF Continues, Shaped
<1>2. StockLocks(r) = {} /\ RowLocks(r) = {}
  BY LocksAreRows
<1>3. Exclusive'
  BY <1>1 DEF SaleInv, CounterInv, Exclusive, Holds
<1>4. DeductedIsThere'
  BY <1>1, <1>2 DEF SaleInv, CounterInv, DeductedIsThere
<1>5. LockedIsOwed'
  BY <1>1, <1>2 DEF SaleInv, CounterInv, LockedIsOwed, Book!OnCredit
<1>6. ConfirmedOnce'
  BY <1>0, SaleOfAnOrder DEF SaleInv, ConfirmedOnce, StaysWritten, Book!Blank, Book!Nothing
<1>7. RequestsAreShaped'
  <2>1. \A d \in Tellers : Shaped(serving'[d])
    BY <1>1 DEF SaleInv, RequestsAreShaped
  <2> QED BY <2>1 DEF RequestsAreShaped, Shaped, Requests, IsAboutGoods, IsLocking,
             IsCommitted, Wanted, Covered, Steps, Nothing, Book!Nothing, Book!Methods,
             Book!Statuses
<1>8. SalesAreKnown'
  <2>1. \A d \in Tellers : serving[d].sale \in NoOr(Sales)
    BY <1>0 DEF Requests
  <2>2. ASSUME NEW d \in Tellers, serving'[d].op \in {"sell", "overrule"},
               serving'[d].sale # Unsaid
        PROVE  sold'[serving'[d].sale] # Book!Blank
    <3>1. CASE d = c
      BY <1>1, <2>2, <3>1
    <3>2. CASE d # c
      BY <1>1, <2>1, <2>2, <3>2 DEF SaleInv, SalesAreKnown, StaysWritten, NoOr
    <3> QED BY <3>1, <3>2
  <2> QED BY <2>2 DEF SalesAreKnown, Book!Blank, Book!Nothing
<1>9. SalesAreItsOwn'
  <2>1. ASSUME NEW d \in Tellers, serving'[d].op = "sell", serving'[d].sale # Unsaid,
               NEW o \in Orders
        PROVE  orders[o].sale # serving'[d].sale
    <3>1. CASE d # c \/ (serving[c].op = "sell" /\ serving[c].sale = r.sale)
      BY <1>1, <2>1, <3>1 DEF SaleInv, SalesAreItsOwn
    <3>2. CASE d = c /\ r.sale \in Sales /\ sold[r.sale] = Book!Blank
      BY <1>1, <2>1, <3>2, SaleOfAnOrder
    <3> QED BY <1>1, <2>1, <3>1, <3>2
  <2>2. ASSUME NEW d \in Tellers, NEW e \in Tellers,
               serving'[d].op = "sell", serving'[d].sale # Unsaid,
               serving'[e].op = "sell", serving'[e].sale = serving'[d].sale
        PROVE  e = d
    <3>1. CASE d # c /\ e # c
      BY <1>1, <2>2, <3>1 DEF SaleInv, SalesAreItsOwn
    <3>2. CASE serving[c].op = "sell" /\ serving[c].sale = r.sale
      BY <1>1, <2>2, <3>2 DEF SaleInv, SalesAreItsOwn
    <3>3. CASE sold[r.sale] = Book!Blank /\ d = c /\ e # c
      BY <1>1, <2>2, <3>3 DEF SaleInv, SalesAreKnown
    <3>4. CASE sold[r.sale] = Book!Blank /\ e = c /\ d # c
      BY <1>1, <2>2, <3>4 DEF SaleInv, SalesAreKnown
    <3> QED BY <1>1, <2>2, <3>1, <3>2, <3>3, <3>4
  <2> QED BY <1>0, <2>1, <2>2 DEF SalesAreItsOwn
<1> QED BY <1>1, <1>3, <1>4, <1>5, <1>6, <1>7, <1>8, <1>9 DEF Kept

(* What is written and sold is in the book. *)
LEMMA SaleIsWrittenKeeps ==
  ASSUME SaleInv, NEW c \in Tellers, SaleIsWritten(c)
  PROVE  /\ \E s \in Sales : Book!Sell(s)
         /\ serving' \in [Tellers -> Requests] /\ Kept'
<1> DEFINE r == serving[c]
<1>0. Book!BookInv
  BY DEF SaleInv, CounterInv
<1>1. /\ r \in Requests /\ Shaped(r) /\ r.op = "sell" /\ r.at = "deduct" /\ r.todo = {}
      /\ r.basket \in Baskets /\ r.method \in Book!Methods /\ r.status \in Book!Statuses
      /\ \A p \in StockLocks(r) : r.basket[p] <= stock[p]
  BY RequestOf DEF SaleIsWritten, Doing, Shaped, IsAboutGoods
<1>2. StockLocks(r) = Wanted(r.basket) /\ Locks(r) = Wanted(r.basket)
  BY <1>1, LocksOf
<1>3. PICK s \in Sales :
        /\ sold[s] = Book!Blank
        /\ sold' = [sold EXCEPT ![s] = Book!Written(r.status, r.method, r.basket)]
        /\ Continues(c, IF AfterCommit(r) = "idle" THEN AtRest
                        ELSE [r EXCEPT !.at = AfterCommit(r), !.sale = s])
  BY DEF SaleIsWritten
<1>4. /\ stock' = [p \in Products |-> stock[p] - r.basket[p]]
      /\ UNCHANGED orderVars
  BY DEF SaleIsWritten
<1> DEFINE row == Book!Written(r.status, r.method, r.basket)
<1>5. /\ row.at = r.status /\ row.method = r.method /\ row.basket = r.basket
      /\ row.paid = 0 /\ row \in SaleRows
  BY <1>1 DEF Book!Written, SaleRows
<1>6. DOMAIN sold = Sales /\ sold'[s] = row /\ \A t \in Sales \ {s} : sold'[t] = sold[t]
  BY <1>0, <1>3 DEF Book!BookInv
<1>7. \A p \in Products : r.basket[p] \in Nat /\ stock[p] \in Nat /\ r.basket[p] <= stock[p]
  <2>1. \A p \in Products : r.basket[p] \in Nat /\ stock[p] \in Nat
    BY <1>0, <1>1, PricesAreNumbers DEF Book!BookInv
  <2>2. \A p \in Products : r.basket[p] > 0 => p \in StockLocks(r)
    BY <1>2 DEF Wanted
  <2> QED BY <1>1, <2>1, <2>2
<1>8. row # Book!Blank
  BY <1>5, RowsAreNotBlank
<1>9. Book!Sell(s)
  <2>1. Book!Written(sold'[s].at, sold'[s].method, sold'[s].basket) = row
    BY <1>5, <1>6
  <2> HIDE DEF row
  <2> QED BY <1>1, <1>3, <1>4, <1>5, <1>6, <1>7, <1>8, <2>1 DEF Book!Sell, row
<1>10. Book!BookInv' /\ StaysWritten
  BY <1>0, <1>9, SellKeepsBook
<1>11. \A d \in Tellers \ {c} :
         /\ \A p \in StockLocks(serving[d]) : stock'[p] = stock[p]
         /\ \A t \in RowLocks(serving[d]) : sold'[t] = sold[t]
  <2>1. ASSUME NEW d \in Tellers \ {c}, NEW p \in StockLocks(serving[d])
        PROVE  stock'[p] = stock[p]
    <3>1. p \in Products /\ p \notin Wanted(r.basket)
      BY <1>2, <2>1, HeldByOne, LocksAreRows
    <3>2. ~(r.basket[p] > 0)
      BY <3>1 DEF Wanted
    <3>3. r.basket[p] = 0
      BY <1>7, <3>1, <3>2
    <3> QED BY <1>4, <1>7, <3>1, <3>3
  <2>2. ASSUME NEW d \in Tellers \ {c}, NEW t \in RowLocks(serving[d])
        PROVE  sold'[t] = sold[t]
    <3>1. t \in Sales /\ sold[t].at = "credit"
      BY LocksAreRows DEF SaleInv, CounterInv, LockedIsOwed, Book!OnCredit
    <3>2. t # s
      BY <1>3, <3>1 DEF Book!Blank
    <3> QED BY <1>6, <3>1, <3>2
  <2> QED BY <2>1, <2>2
<1>12. CASE AfterCommit(r) = "idle"
  <2>1. Continues(c, AtRest)
    BY <1>3, <1>12
  <2> QED BY <1>4, <1>9, <1>10, <1>11, <2>1, Resting, WritingKeeps
<1>13. CASE AfterCommit(r) # "idle"
  <2> DEFINE step == AfterCommit(r)
             q == [r EXCEPT !.at = step, !.sale = s]
  <2>1. Continues(c, q)
    BY <1>3, <1>13
  <2>2. step \in {"forget", "cash", "mark"} /\ (step = "mark" => r.order # Unsaid)
    BY <1>13 DEF AfterCommit, LastOf
  <2>3. step \in Steps /\ s \in NoOr(Sales) /\ s # Unsaid
    BY <2>2, CounterAssumption DEF Steps, NoOr
  <2> HIDE DEF step
  <2>4. q \in Requests
    BY <1>1, <2>3 DEF Requests
  <2>5. /\ q.at = step /\ q.op = "sell" /\ q.sale = s /\ q.basket = r.basket
        /\ q.method = r.method /\ q.status = r.status /\ q.order = r.order
    BY <1>1, SMT DEF Requests
  <2>6. r.order \in NoOr(Orders)
    BY <1>1 DEF Requests
  <2> HIDE DEF q
  <2>7. Shaped(q)
    BY <1>1, <2>2, <2>4, <2>5, <2>6 DEF Shaped, IsAboutGoods, IsLocking, IsCommitted, NoOr
  <2>8. Locks(q) = {}
    BY <2>2, <2>5, LocksOf
  <2>9. sold'[q.sale] # Book!Blank /\ q.sale \in Sales /\ sold[q.sale] = Book!Blank
        /\ q.op = "sell"
    BY <1>3, <1>6, <1>8, <2>5
  <2>10. serving' \in [Tellers -> Requests] /\ Kept'
    BY <1>4, <1>10, <1>11, <2>1, <2>7, <2>8, <2>9, WritingKeeps
  <2> QED BY <1>9, <2>10
<1> QED BY <1>12, <1>13

(* What was locked is still owed when it is paid. *)
LEMMA SettlementIsWrittenKeeps ==
  ASSUME SaleInv, NEW c \in Tellers, SettlementIsWritten(c)
  PROVE  /\ Book!Settle([s \in Sales |-> Book!Paid(s)])
         /\ serving' \in [Tellers -> Requests] /\ Kept'
<1> DEFINE r == serving[c]
           q == [r EXCEPT !.at = "forget"]
           items == r.items
<1>0. Book!BookInv
  BY DEF SaleInv, CounterInv
<1>1. /\ r \in Requests /\ Shaped(r) /\ r.op = "settle" /\ r.at = "lines" /\ r.todo = {}
      /\ items \in [Sales -> Nat]
      /\ \A s \in RowLocks(r) : /\ Book!OnCredit(s)
                                /\ sold[s].paid + r.items[s] <= Worth[sold[s].basket]
  BY RequestOf DEF SettlementIsWritten, Doing, Requests, Amounts
<1>2. RowLocks(r) = Covered(items)
  <2>1. RowLocks(r) = Covered(r.items) \ r.todo
    BY <1>1 DEF RowLocks
  <2> QED BY <1>1, <2>1
<1>3. /\ sold' = [s \in Sales |-> Book!Settled(s, items[s])]
      /\ stock' = stock /\ UNCHANGED orderVars /\ Moves(c, "forget")
  BY DEF SettlementIsWritten
<1>4. \A s \in Sales : items[s] > 0 =>
        Book!OnCredit(s) /\ sold[s].paid + items[s] <= Worth[sold[s].basket]
  BY <1>1, <1>2 DEF Covered
<1>5. ASSUME NEW s \in Sales
      PROVE  Book!Paid(s) = items[s]
  <2>1. items[s] \in Nat /\ sold'[s] = Book!Settled(s, items[s])
    BY <1>1, <1>3
  <2>2. CASE items[s] = 0
    <3>1. sold'[s] = sold[s]
      BY <2>1, <2>2 DEF Book!Settled
    <3>2. sold[s].paid \in Nat
      BY <1>0, RowsOfTheBook DEF SaleRows, Book!Blank
    <3> QED BY <2>2, <3>1, <3>2 DEF Book!Paid
  <2>3. CASE items[s] > 0
    <3>1. sold[s] # Book!Blank
      BY <1>4, <2>3 DEF Book!Blank, Book!OnCredit
    <3>2. sold[s] \in SaleRows
      BY <1>0, <3>1, RowsOfTheBook
    <3> DEFINE row == [sold[s] EXCEPT !.paid = sold[s].paid + items[s],
                         !.at = IF sold[s].paid + items[s] >= Worth[sold[s].basket]
                                THEN "completed" ELSE "credit"]
    <3>3. sold'[s] = row
      <4>1. items[s] # 0
        BY <2>3
      <4>2. Book!Settled(s, items[s]) = row
        BY <4>1, Zenon DEF Book!Settled
      <4> QED BY <2>1, <4>2
    <3>4. row.paid = sold[s].paid + items[s] /\ sold[s].paid \in Nat
      BY <3>2, SMT DEF SaleRows
    <3> HIDE DEF row
    <3> QED BY <2>1, <2>3, <3>3, <3>4 DEF Book!Paid
  <2> QED BY <2>1, <2>2, <2>3
<1> HIDE DEF items
<1>6. [s \in Sales |-> Book!Paid(s)] = items
  BY <1>1, <1>5
<1>7. Book!Settle(items)
  BY <1>3, <1>4 DEF Book!Settle
<1>8. Book!BookInv' /\ StaysWritten
  BY <1>0, <1>1, <1>7, SettleKeepsBook
<1>9. \A d \in Tellers \ {c} :
        /\ \A p \in StockLocks(serving[d]) : stock'[p] = stock[p]
        /\ \A s \in RowLocks(serving[d]) : sold'[s] = sold[s]
  <2>1. ASSUME NEW d \in Tellers \ {c}, NEW s \in RowLocks(serving[d])
        PROVE  sold'[s] = sold[s]
    <3>1. s \in Sales /\ s \notin Locks(r)
      BY <2>1, HeldByOne, LocksAreRows
    <3>2. s \notin Covered(items)
      BY <1>2, <3>1, LocksAreRows
    <3>3. items[s] = 0
      BY <1>1, <3>1, <3>2 DEF Covered
    <3> QED BY <1>3, <3>1, <3>3 DEF Book!Settled
  <2> QED BY <1>3, <2>1
<1>10. q \in Requests /\ q.at = "forget" /\ q.op = "settle" /\ Continues(c, q)
  <2>1. "forget" \in Steps
    BY DEF Steps
  <2> QED BY <1>1, <1>3, <2>1, Stepping DEF Moves
<1> HIDE DEF q
<1>11. Shaped(q) /\ Locks(q) = {}
  BY <1>10, LocksOf DEF Shaped, IsAboutGoods, IsLocking, IsCommitted
<1>12. serving' \in [Tellers -> Requests] /\ Kept'
  BY <1>3, <1>8, <1>9, <1>10, <1>11, WritingKeeps
<1> QED BY <1>6, <1>7, <1>12

(* Staff waits for whoever holds the sale. *)
LEMMA OverrulesKeeps ==
  ASSUME SaleInv, NEW c \in Tellers, Overrules(c)
  PROVE  /\ \E s \in Sales : Book!Overrule(s)
         /\ serving' \in [Tellers -> Requests] /\ Kept'
<1> DEFINE r == serving[c]
           s == r.sale
           step == IF r.was # "completed" /\ r.status = "completed"
                   THEN AfterCommit(r) ELSE "idle"
<1>0. Book!BookInv
  BY DEF SaleInv, CounterInv
<1>1. /\ r \in Requests /\ Shaped(r) /\ r.op = "overrule" /\ r.at = "write"
      /\ s \in Sales /\ r.status \in Book!Statuses /\ s # Unsaid /\ sold[s] # Book!Blank
  BY RequestOf, CounterAssumption DEF Overrules, Doing, Shaped, IsAboutGoods
<1>2. /\ sold' = [sold EXCEPT ![s] = [sold[s] EXCEPT !.at = r.status]]
      /\ stock' = stock /\ UNCHANGED orderVars
      /\ Moves(c, step) /\ FreeFor(c, s)
  BY DEF Overrules
<1>3. sold[s] \in SaleRows /\ DOMAIN sold = Sales
  BY <1>0, <1>1, RowsOfTheBook DEF Book!BookInv
<1>4. sold'[s].at = r.status /\ \A t \in Sales \ {s} : sold'[t] = sold[t]
  BY <1>1, <1>2, <1>3 DEF SaleRows
<1>5. Book!Overrule(s)
  BY <1>1, <1>2, <1>4 DEF Book!Overrule
<1>6. Book!BookInv' /\ StaysWritten
  BY <1>0, <1>1, <1>5, OverruleKeepsBook
<1>7. \A d \in Tellers \ {c} :
        /\ \A p \in StockLocks(serving[d]) : stock'[p] = stock[p]
        /\ \A t \in RowLocks(serving[d]) : sold'[t] = sold[t]
  BY <1>2, <1>4, LocksAreRows DEF FreeFor, Holds
<1>8. sold'[s] # Book!Blank
  BY <1>1, <1>6 DEF StaysWritten
<1>9. CASE step = "idle"
  <2>1. Continues(c, AtRest)
    BY <1>2, <1>9 DEF Moves
  <2> QED BY <1>1, <1>2, <1>5, <1>6, <1>7, <2>1, Resting, WritingKeeps
<1>10. CASE step # "idle"
  <2> DEFINE q == [r EXCEPT !.at = step]
  <2>1. step \in {"forget", "cash"}
    BY <1>1, <1>10 DEF AfterCommit, LastOf
  <2>2. Continues(c, q) /\ step \in Steps
    BY <1>2, <1>10, <2>1 DEF Moves, Steps
  <2> HIDE DEF step
  <2>3. /\ q \in Requests /\ q.at = step /\ q.op = "overrule" /\ q.sale = s
        /\ q.status = r.status
    BY <1>1, <2>2, Stepping
  <2> HIDE DEF q
  <2>4. Shaped(q) /\ Locks(q) = {}
    BY <1>1, <2>1, <2>3, LocksOf DEF Shaped, IsAboutGoods, IsLocking, IsCommitted
  <2>5. serving' \in [Tellers -> Requests] /\ Kept'
    BY <1>2, <1>6, <1>7, <1>8, <2>2, <2>3, <2>4, WritingKeeps
  <2> QED BY <1>1, <1>5, <2>5
<1> QED BY <1>9, <1>10

(***************************************************************************)
(* Orders and goods                                                        *)
(***************************************************************************)
(* An order that is still open keeps the first sale that asks for it. *)
LEMMA MarksFulfilledKeeps ==
  ASSUME SaleInv, NEW c \in Tellers, MarksFulfilled(c)
  PROVE  /\ serving' \in [Tellers -> Requests] /\ Kept'
         /\ orders' \in [Orders -> OrderRows] /\ OrdersHaveBaskets'
         /\ confirmed' \subseteq (Orders \X Sales)
<1> DEFINE r == serving[c]
           o == r.order
           s == r.sale
           row == [orders[o] EXCEPT !.at = "fulfilled", !.sale = s]
<1>0. /\ serving \in [Tellers -> Requests] /\ Book!BookInv
      /\ orders \in [Orders -> OrderRows] /\ confirmed \subseteq (Orders \X Sales)
  BY DEF SaleInv, CounterInv, SaleTypeOK, OrderRows
<1>1. /\ r.op = "sell" /\ o \in Orders /\ s \in Sales /\ s # Unsaid
      /\ sold[s] # Book!Blank
  BY RequestOf, CounterAssumption DEF MarksFulfilled, Shaped, IsCommitted
<1>2. /\ stock' = stock /\ sold' = sold /\ Continues(c, AtRest)
  BY DEF MarksFulfilled, bookVars, Dismiss
<1>3. /\ serving'[c] = AtRest
      /\ \A d \in Tellers \ {c} : serving'[d] = serving[d]
      /\ serving' \in [Tellers -> Requests]
  BY <1>0, <1>2, Resting DEF Continues, Shaped
<1>4. CASE UNCHANGED orderVars
  <2>1. /\ orders' \in [Orders -> OrderRows] /\ confirmed' \subseteq (Orders \X Sales)
        /\ UNCHANGED bookVars /\ OrdersHaveBaskets'
    BY <1>0, <1>2, <1>4 DEF orderVars, bookVars, SaleInv, OrdersHaveBaskets
  <2> QED BY <1>2, <1>4, <2>1, RestFollows, MovesOn
<1>5. CASE /\ IsOpenOrder(o)
           /\ orders' = [orders EXCEPT ![o] = row]
           /\ confirmed' = confirmed \cup {<<o, s>>}
  <2>1. /\ row \in OrderRows /\ row.at = "fulfilled" /\ row.sale = s
        /\ row.basket = orders[o].basket
    <3>1. orders[o] \in OrderRows /\ "fulfilled" \in OrderStages /\ s \in NoOr(Sales)
      BY <1>0, <1>1 DEF OrderStages, NoOr
    <3> HIDE DEF o, s
    <3>2. row \in OrderRows
      BY <3>1 DEF OrderRows
    <3> QED BY <3>1, <3>2, SMT DEF OrderRows
  <2> HIDE DEF row
  <2>2. /\ orders'[o] = row
        /\ \A other \in Orders \ {o} : orders'[other] = orders[other]
        /\ orders' \in [Orders -> OrderRows] /\ confirmed' \subseteq (Orders \X Sales)
    BY <1>0, <1>1, <1>5, <2>1
  <2>3. Book!BookInv' /\ StaysWritten
    BY <1>0, <1>2 DEF Book!BookInv, Book!Blank, Book!Nothing, Book!Statuses, Book!Methods,
       StaysWritten
  <2>4. /\ orders[o].at # "fulfilled"
        /\ \A other \in Orders : orders[other].sale # s
    BY <1>1, <1>5 DEF IsOpenOrder, SaleInv, SalesAreItsOwn
  <2>5. ConfirmedOnce'
    <3>1. ASSUME NEW x \in confirmed'
          PROVE  orders'[x[1]].at = "fulfilled" /\ orders'[x[1]].sale = x[2]
      <4>1. CASE x = <<o, s>>
        BY <2>1, <2>2, <4>1
      <4>2. CASE x \in confirmed
        <5>1. x[1] \in Orders /\ orders[x[1]].at = "fulfilled" /\ orders[x[1]].sale = x[2]
          BY <1>0, <4>2 DEF SaleInv, ConfirmedOnce
        <5>2. x[1] # o
          BY <2>4, <5>1
        <5> QED BY <2>2, <5>1, <5>2
      <4> QED BY <1>5, <3>1, <4>1, <4>2
    <3>2. ASSUME NEW a \in Orders, orders'[a].sale # Unsaid
          PROVE  sold'[orders'[a].sale] # Book!Blank
      BY <1>1, <1>2, <2>1, <2>2, <3>2, SaleOfAnOrder
    <3>3. ASSUME NEW a \in Orders, NEW b \in Orders,
                 orders'[a].sale # Unsaid, orders'[b].sale = orders'[a].sale
          PROVE  b = a
      <4>1. CASE a # o /\ b # o
        BY <2>2, <3>3, <4>1 DEF SaleInv, ConfirmedOnce
      <4>2. CASE (a = o /\ b # o) \/ (b = o /\ a # o)
        BY <2>1, <2>2, <2>4, <3>3, <4>2
      <4> QED BY <4>1, <4>2
    <3> QED BY <1>1, <2>2, <3>1, <3>2, <3>3 DEF ConfirmedOnce, Book!Blank, Book!Nothing
  <2>6. Exclusive'
    BY <1>3, Resting DEF SaleInv, CounterInv, Exclusive, Holds
  <2>7. DeductedIsThere'
    BY <1>2, <1>3, Resting DEF SaleInv, CounterInv, DeductedIsThere
  <2>8. LockedIsOwed'
    BY <1>2, <1>3, Resting DEF SaleInv, CounterInv, LockedIsOwed, Book!OnCredit
  <2>9. RequestsAreShaped'
    <3>1. \A d \in Tellers : Shaped(serving'[d])
      BY <1>3, Resting DEF SaleInv, RequestsAreShaped
    <3> QED BY <3>1 DEF RequestsAreShaped, Shaped, Requests, IsAboutGoods, IsLocking,
               IsCommitted, Wanted, Covered, Steps, Nothing, Book!Nothing, Book!Methods,
               Book!Statuses
  <2>10. SalesAreKnown'
    BY <1>2, <1>3, Resting DEF SaleInv, SalesAreKnown, Book!Blank, Book!Nothing
  <2>11. SalesAreItsOwn'
    <3>1. ASSUME NEW d \in Tellers, serving'[d].op = "sell", serving'[d].sale # Unsaid
          PROVE  /\ d # c /\ serving[d].sale # s
                 /\ \A a \in Orders : orders[a].sale # serving[d].sale
      <4>1. d # c
        BY <1>3, <3>1, Resting
      <4> QED BY <1>1, <1>3, <3>1, <4>1 DEF SaleInv, SalesAreItsOwn
    <3>2. ASSUME NEW d \in Tellers, serving'[d].op = "sell", serving'[d].sale # Unsaid,
                 NEW a \in Orders
          PROVE  orders'[a].sale # serving'[d].sale
      BY <1>3, <2>1, <2>2, <3>1, <3>2
    <3>3. ASSUME NEW d \in Tellers, NEW e \in Tellers,
                 serving'[d].op = "sell", serving'[d].sale # Unsaid,
                 serving'[e].op = "sell", serving'[e].sale = serving'[d].sale
          PROVE  e = d
      BY <1>3, <3>1, <3>3 DEF SaleInv, SalesAreItsOwn
    <3> QED BY <3>2, <3>3 DEF SalesAreItsOwn
  <2>12. OrdersHaveBaskets'
    BY <1>1, <1>5, <2>1, <2>2 DEF IsOpenOrder, SaleInv, OrdersHaveBaskets
  <2> QED BY <1>3, <2>2, <2>3, <2>5, <2>6, <2>7, <2>8, <2>9, <2>10, <2>11, <2>12 DEF Kept
<1> QED BY <1>4, <1>5 DEF MarksFulfilled

(* A request that goes on while nothing else changes but orders' status. *)
LEMMA StandingStill ==
  ASSUME SaleInv, serving' = serving, Book!BookInv', sold' = sold, confirmed' = confirmed,
         \A c \in Tellers : \A p \in StockLocks(serving[c]) : stock'[p] = stock[p],
         \A o \in Orders : orders'[o].sale = orders[o].sale,
         \A o \in Orders : orders[o].at = "fulfilled" => orders'[o].at = "fulfilled"
  PROVE  serving' \in [Tellers -> Requests] /\ Kept'
<1>1. serving' \in [Tellers -> Requests]
  BY DEF SaleInv, CounterInv, SaleTypeOK
<1>2. Exclusive'
  BY DEF SaleInv, CounterInv, Exclusive, Holds
<1>3. DeductedIsThere'
  BY DEF SaleInv, CounterInv, DeductedIsThere
<1>4. LockedIsOwed'
  BY DEF SaleInv, CounterInv, LockedIsOwed, Book!OnCredit
<1>5. ConfirmedOnce'
  <2>1. \A x \in confirmed : x[1] \in Orders
    BY DEF SaleInv, CounterInv, SaleTypeOK
  <2> QED BY <2>1 DEF SaleInv, ConfirmedOnce, Book!Blank, Book!Nothing
<1>6. RequestsAreShaped'
  BY DEF SaleInv, RequestsAreShaped, Shaped, Requests, IsAboutGoods, IsLocking, IsCommitted,
     Wanted, Covered, Steps, Nothing, Book!Nothing, Book!Methods, Book!Statuses
<1>7. SalesAreKnown'
  BY DEF SaleInv, SalesAreKnown, Book!Blank, Book!Nothing
<1>8. SalesAreItsOwn'
  BY DEF SaleInv, SalesAreItsOwn
<1> QED BY <1>1, <1>2, <1>3, <1>4, <1>5, <1>6, <1>7, <1>8 DEF Kept

(***************************************************************************)
(* Every step                                                              *)
(***************************************************************************)
Step == SaleInv' /\ (Book!Next \/ UNCHANGED Book!book)

LEMMA TheTypesNow ==
  ASSUME SaleInv PROVE Typed
  BY DEF SaleInv, CounterInv, SaleTypeOK, Typed, OrderRows

LEMMA Together ==
  ASSUME serving' \in [Tellers -> Requests], Kept', Typed'
  PROVE  SaleInv'
  BY DEF Kept, Typed, SaleInv, CounterInv, SaleTypeOK, OrderRows

(* A request that goes on without writing to the book. *)
LEMMA OnwardKeeps ==
  ASSUME SaleInv, NEW c \in Tellers, Onward(c), UNCHANGED <<bookVars, orderVars>>,
         takings' \in [Sales -> Nat], till' \in BOOLEAN, ceiling' \in Nat,
         served' \in 0 .. ServiceBound, strained' \in BOOLEAN
  PROVE  Step
<1>1. PICK r : Follows(c, r) /\ Continues(c, r)
  BY DEF Onward
<1>2. serving' \in [Tellers -> Requests] /\ Kept'
  BY <1>1, MovesOn
<1>3. Typed'
  BY TheTypesNow DEF Typed, OrdersHaveBaskets, orderVars
<1> QED BY <1>2, <1>3, Together DEF Step, Book!book, bookVars

(* A request begins. *)
LEMMA AdmitKeeps ==
  ASSUME SaleInv, NEW c \in Tellers, NEW r, Admit(c, r), Follows(c, r),
         UNCHANGED <<bookVars, orderVars, cashVars, creditVars>>
  PROVE  Step
<1>1. Typed
  BY TheTypesNow
<1>2. Onward(c)
  BY DEF Admit, Onward
<1>3. served' \in 0 .. ServiceBound
  BY <1>1, CounterAssumption DEF Admit, OneMore, Typed
<1>4. strained' \in BOOLEAN
  <2>1. strained \in BOOLEAN
    BY <1>1 DEF Typed
  <2> QED BY <2>1, Zenon DEF Admit, Alone
<1> QED BY <1>1, <1>2, <1>3, <1>4, OnwardKeeps DEF Typed, cashVars, creditVars

LEMMA AsksForKeeps ==
  ASSUME SaleInv, NEW c \in Tellers, AsksFor(c)
  PROVE  Step
<1>0. Typed /\ Payments \subseteq Book!Methods
  BY TheTypesNow, CounterAssumption DEF Book!Methods
<1>1. ASSUME NEW b \in Baskets, NEW m \in Payments, NEW o \in NoOr(Orders),
             NEW status \in StatusesFor(m), AsksToSell(c, b, m, status, o)
      PROVE  Step
  <2>1. status \in Book!Statuses /\ m \in Book!Methods
    BY <1>0, CounterAssumption DEF StatusesFor, Book!Statuses
  <2>2. Follows(c, SaleOf(b, m, status, o))
    BY <2>1, SaleBegins
  <2> QED BY <1>1, <2>2, AdmitKeeps DEF AsksToSell
<1>2. ASSUME NEW o \in Orders, NEW m \in Payments, NEW status \in StatusesFor(m),
             AsksToConvert(c, o, m, status)
      PROVE  Step
  <2>1. /\ status \in Book!Statuses /\ m \in Book!Methods /\ Unsaid \in NoOr(Orders)
        /\ orders[o].basket \in Baskets
    BY <1>0, <1>2, CounterAssumption
    DEF StatusesFor, Book!Statuses, NoOr, AsksToConvert, IsOpenOrder, Typed, OrdersHaveBaskets
  <2>2. Follows(c, SaleOf(orders[o].basket, m, status, Unsaid))
    BY <2>1, SaleBegins
  <2> QED BY <1>2, <2>2, AdmitKeeps DEF AsksToConvert
<1>3. ASSUME NEW items \in Offers, NEW m \in Payments, AsksToSettle(c, items, m)
      PROVE  Step
  <2>1. items \in [Sales -> Nat] /\ m \in Book!Methods
    BY <1>0 DEF Offers
  <2>2. Follows(c, [AtRest EXCEPT !.op = "settle", !.at = "lines", !.items = items,
                       !.method = m, !.todo = Covered(items)])
    BY <2>1, SettlementBegins
  <2> QED BY <1>3, <2>2, AdmitKeeps DEF AsksToSettle
<1>4. ASSUME NEW s \in Sales, NEW status \in PayStatuses,
             AsksToOverrule(c, s, status)
      PROVE  Step
  <2>1. sold[s] # Book!Blank /\ sold[s] \in SaleRows /\ status \in Book!Statuses
    BY <1>4, RowsOfTheBook, CounterAssumption
    DEF AsksToOverrule, SaleInv, CounterInv, Book!Statuses
  <2>2. sold[s].method \in Book!Methods /\ sold[s].at \in Book!Statuses
    BY <2>1 DEF SaleRows
  <2>3. Follows(c, [AtRest EXCEPT !.op = "overrule", !.at = "write", !.sale = s,
                       !.method = sold[s].method, !.status = status, !.was = sold[s].at])
    BY <2>1, <2>2, OverruleBegins
  <2> QED BY <1>4, <2>3, AdmitKeeps DEF AsksToOverrule
<1>5. ASSUME NEW limit \in Limits, AsksForLimit(c, limit)
      PROVE  Step
  <2>1. limit \in Nat
    BY CounterAssumption
  <2>2. Follows(c, [AtRest EXCEPT !.op = "limit", !.at = "write", !.limit = limit])
    BY <2>1, LimitBegins
  <2> QED BY <1>5, <2>2, AdmitKeeps DEF AsksForLimit
<1>6. CASE AsksForSummary(c)
  BY <1>6, SummaryBegins, AdmitKeeps DEF AsksForSummary
<1> QED BY <1>1, <1>2, <1>3, <1>4, <1>5, <1>6 DEF AsksFor

LEMMA SaleStepKeeps ==
  ASSUME SaleInv, NEW c \in Tellers, SaleStep(c)
  PROVE  Step
<1>0. Typed
  BY TheTypesNow
<1>1. ASSUME Onward(c),
             UNCHANGED <<bookVars, orderVars, cashVars, creditVars, served, strained>>
      PROVE  Step
  BY <1>0, <1>1, OnwardKeeps DEF Typed, cashVars, creditVars
<1>2. CASE Takes(c)
  BY <1>1, <1>2, TakesFollows DEF Takes
<1>3. CASE LocksProduct(c)
  BY <1>1, <1>3, LocksProductFollows DEF LocksProduct
<1>4. CASE Deducts(c)
  BY <1>1, <1>4, DeductsFollows DEF Deducts
<1>5. CASE SaleIsWritten(c)
  <2>1. Typed'
    BY <1>0, <1>5 DEF SaleIsWritten, Typed, OrdersHaveBaskets, orderVars, cashVars, creditVars
  <2> QED BY <1>5, <2>1, SaleIsWrittenKeeps, Together DEF Step, Book!Next
<1>6. CASE MarksFulfilled(c)
  <2>1. Typed'
    BY <1>0, <1>6, MarksFulfilledKeeps DEF MarksFulfilled, Typed, cashVars, creditVars
  <2> QED BY <1>6, <2>1, MarksFulfilledKeeps, Together DEF Step, MarksFulfilled, Book!book,
             bookVars
<1> QED BY <1>2, <1>3, <1>4, <1>5, <1>6 DEF SaleStep

LEMMA CreditStepKeeps ==
  ASSUME SaleInv, NEW c \in Tellers, CreditStep(c)
  PROVE  Step
<1>0. Typed
  BY TheTypesNow
<1>1. ASSUME Onward(c), UNCHANGED <<bookVars, orderVars, cashVars, ceiling, served, strained>>
      PROVE  Step
  BY <1>0, <1>1, OnwardKeeps DEF Typed, cashVars
<1>2. CASE ReadsLimit(c)
  BY <1>1, <1>2, ReadsLimitFollows DEF ReadsLimit, creditVars
<1>3. CASE ReadsCache(c)
  <2>1. /\ serving[c].at \in CreditStages
        /\ \E step \in CreditStages : Moves(c, step)
    BY <1>3 DEF ReadsCache, CreditStages
  <2>2. Onward(c)
    BY <2>1, CheckingFollows
  <2> QED BY <1>1, <1>3, <2>2 DEF ReadsCache
<1>4. CASE SumsUp(c)
  <2>1. /\ serving[c].at \in CreditStages
        /\ \E step \in CreditStages : Moves(c, step)
    BY <1>4 DEF SumsUp, CreditStages
  <2>2. Onward(c)
    BY <2>1, CheckingFollows
  <2> QED BY <1>1, <1>4, <2>2 DEF SumsUp
<1>5. CASE StoresSum(c)
  <2>1. /\ serving[c].at \in CreditStages
        /\ \E step \in CreditStages : Moves(c, step)
    BY <1>5 DEF StoresSum, CreditStages
  <2>2. Onward(c)
    BY <2>1, CheckingFollows
  <2> QED BY <1>1, <1>5, <2>2 DEF StoresSum
<1>6. CASE Decides(c)
  BY <1>1, <1>6, DecidesFollows DEF Decides
<1>7. CASE LocksSale(c)
  BY <1>1, <1>7, LocksSaleFollows DEF LocksSale, creditVars
<1>8. CASE SettlementIsWritten(c)
  <2>1. Typed'
    BY <1>0, <1>8 DEF SettlementIsWritten, Typed, OrdersHaveBaskets, orderVars, cashVars,
       creditVars
  <2> QED BY <1>8, <2>1, SettlementIsWrittenKeeps, Together DEF Step, Book!Next
<1>9. CASE Overrules(c)
  <2>1. strained' \in BOOLEAN
    <3>1. strained \in BOOLEAN
      BY <1>0 DEF Typed
    <3> QED BY <1>9, <3>1, Zenon DEF Overrules
  <2>2. Typed'
    BY <1>0, <1>9, <2>1 DEF Overrules, Typed, OrdersHaveBaskets, orderVars, cashVars, creditVars
  <2> QED BY <1>9, <2>2, OverrulesKeeps, Together DEF Step, Book!Next
<1>10. CASE SetsLimit(c)
  <2>1. Onward(c)
    BY <1>10, SetsLimitFollows
  <2>2. ceiling' \in Nat
    BY <1>10, RequestOf DEF SetsLimit, Requests
  <2>3. strained' \in BOOLEAN
    <3>1. strained \in BOOLEAN
      BY <1>0 DEF Typed
    <3> QED BY <1>10, <3>1, Zenon DEF SetsLimit
  <2> QED BY <1>0, <1>10, <2>1, <2>2, <2>3, OnwardKeeps DEF SetsLimit, Typed, cashVars
<1> QED BY <1>2, <1>3, <1>4, <1>5, <1>6, <1>7, <1>8, <1>9, <1>10 DEF CreditStep

LEMMA CommittedStepKeeps ==
  ASSUME SaleInv, NEW c \in Tellers, CommittedStep(c)
  PROVE  Step
<1>0. Typed
  BY TheTypesNow
<1>1. CASE EmptiesCache(c)
  BY <1>0, <1>1, EmptiesCacheFollows, OnwardKeeps DEF EmptiesCache, Typed, cashVars
<1>2. CASE FailsToForget(c)
  <2>1. Onward(c)
    <3>1. CASE serving[c].op = "sell"
      BY <1>2, <3>1, LastFollows DEF FailsToForget
    <3>2. CASE serving[c].op # "sell"
      BY <1>2, <3>2, RestFollows DEF FailsToForget, Moves, Onward
    <3> QED BY <3>1, <3>2
  <2> QED BY <1>0, <1>2, <2>1, OnwardKeeps DEF FailsToForget, Typed, cashVars, creditVars
<1>3. CASE TakesCash(c)
  <2>1. Onward(c)
    BY <1>3, LastFollows DEF TakesCash
  <2>2. takings' \in [Sales -> Nat]
    BY <1>0, <1>3 DEF TakesCash, Typed
  <2> QED BY <1>0, <1>3, <2>1, <2>2, OnwardKeeps DEF TakesCash, Typed, creditVars
<1>4. CASE FindsTillClosed(c)
  <2>1. Onward(c)
    BY <1>4, DismissedFollows DEF FindsTillClosed
  <2> QED BY <1>0, <1>4, <2>1, OnwardKeeps DEF FindsTillClosed, Typed, cashVars, creditVars
<1> QED BY <1>1, <1>2, <1>3, <1>4 DEF CommittedStep

(* A request is dropped or turned away. *)
LEMMA AbortKeeps ==
  ASSUME SaleInv, NEW c \in Tellers, Drops(c) \/ BreaksDeadlock(c)
  PROVE  Step
<1>0. Typed
  BY TheTypesNow
<1>1. Onward(c)
  BY DismissedFollows DEF Drops, BreaksDeadlock
<1> QED BY <1>0, <1>1, OnwardKeeps DEF Drops, BreaksDeadlock, Typed, cashVars, creditVars

LEMMA AroundKeeps ==
  ASSUME SaleInv, AroundTheCounter
  PROVE  Step
<1>0. /\ Typed /\ Book!BookInv
      /\ (served' = served + 1 /\ served < ServiceBound => served' \in 0 .. ServiceBound)
  BY TheTypesNow, CounterAssumption DEF SaleInv, CounterInv, Typed
<1>1. ASSUME UNCHANGED bookVars
      PROVE  Book!BookInv' /\ (Book!Next \/ UNCHANGED Book!book)
  BY <1>0, <1>1 DEF bookVars, Book!book, Book!BookInv, Book!Blank, Book!Nothing,
     Book!Statuses, Book!Methods
<1>2. ASSUME NEW o \in Orders, NEW row \in OrderRows,
             orders' = [orders EXCEPT ![o] = row],
             row.sale = orders[o].sale, orders[o].at # "fulfilled",
             row.at # "none", row.basket \in Baskets, served' \in 0 .. ServiceBound,
             UNCHANGED <<bookVars, confirmed, cashVars, creditVars, serving, strained>>
      PROVE  Step
  <2>1. Book!BookInv' /\ (Book!Next \/ UNCHANGED Book!book)
    BY <1>1, <1>2
  <2>2. /\ orders'[o] = row /\ \A a \in Orders \ {o} : orders'[a] = orders[a]
        /\ orders' \in [Orders -> OrderRows]
    BY <1>0, <1>2 DEF Typed
  <2>3. serving' \in [Tellers -> Requests] /\ Kept'
    BY <1>2, <2>1, <2>2, StandingStill DEF bookVars
  <2>4. Typed'
    BY <1>0, <1>2, <2>2 DEF Typed, OrdersHaveBaskets, cashVars, creditVars
  <2> QED BY <2>1, <2>3, <2>4, Together DEF Step
<1>3. ASSUME NEW o \in Orders, NEW b \in Baskets, PlaceOrder(o, b)
      PROVE  Step
  <2> DEFINE row == Ordered(b)
  <2>1. row \in OrderRows /\ row.sale = Unsaid /\ row.basket = b /\ row.at = "pending"
    BY DEF Ordered, OrderRows, OrderStages, AnyBasket, NoOr
  <2>2. orders[o].sale = Unsaid /\ orders[o].at = "none"
    BY <1>0, <1>3 DEF PlaceOrder, Typed, OrdersHaveBaskets
  <2> HIDE DEF row
  <2>3. orders' = [orders EXCEPT ![o] = row] /\ served' \in 0 .. ServiceBound
    BY <1>0, <1>3 DEF PlaceOrder, OneMore, row
  <2> QED BY <1>2, <1>3, <2>1, <2>2, <2>3 DEF PlaceOrder
<1>4. ASSUME NEW o \in Orders, NEW status \in {"preparing", "cancelled"},
             ChangeOrder(o, status)
      PROVE  Step
  <2> DEFINE row == [orders[o] EXCEPT !.at = status]
  <2>1. orders[o] \in OrderRows /\ status \in OrderStages /\ orders[o].basket \in Baskets
        /\ orders[o].at # "fulfilled"
    BY <1>0, <1>4 DEF Typed, OrderStages, OrdersHaveBaskets, ChangeOrder, IsOpenOrder
  <2>2. row \in OrderRows
    BY <2>1 DEF OrderRows
  <2>3. row.sale = orders[o].sale /\ row.basket = orders[o].basket /\ row.at # "none"
    BY <2>1, SMT DEF OrderRows
  <2>4. orders' = [orders EXCEPT ![o] = row] /\ served' \in 0 .. ServiceBound
    BY <1>0, <1>4 DEF ChangeOrder, OneMore
  <2> HIDE DEF row
  <2> QED BY <1>2, <1>4, <2>1, <2>2, <2>3, <2>4 DEF ChangeOrder
<1>5. ASSUME NEW p \in Products, GoodsLeave(p) \/ GoodsArrive(p)
      PROVE  Step
  <2>1. Book!Leave(p) \/ Book!Arrive(p)
    BY <1>5 DEF GoodsLeave, GoodsArrive, Book!Leave, Book!Arrive
  <2>2. Book!BookInv'
    BY <1>0, <2>1, GoodsKeepBook
  <2>3. /\ sold' = sold /\ orders' = orders /\ confirmed' = confirmed /\ serving' = serving
        /\ \A c \in Tellers : \A q \in StockLocks(serving[c]) : stock'[q] = stock[q]
    <3>1. DOMAIN stock = Products
      BY <1>0 DEF Book!BookInv
    <3>2. \A r \in {serving[c] : c \in Tellers} : StockLocks(r) \subseteq ProductLocks(r)
      BY DEF StockLocks, ProductLocks
    <3>3. p \notin UNION {StockLocks(serving[c]) : c \in Tellers}
      BY <1>5, <3>2 DEF GoodsLeave, GoodsArrive, Unlocked
    <3>4. \A q \in Products \ {p} : stock'[q] = stock[q]
      BY <1>5, <3>1 DEF GoodsLeave, GoodsArrive
    <3>5. \A c \in Tellers : StockLocks(serving[c]) \subseteq Products
      BY <1>0, LocksAreRows
    <3> QED BY <1>5, <3>3, <3>4, <3>5 DEF GoodsLeave, GoodsArrive, orderVars
  <2>4. serving' \in [Tellers -> Requests] /\ Kept'
    BY <2>2, <2>3, StandingStill
  <2>5. Typed'
    BY <1>0, <1>5 DEF GoodsLeave, GoodsArrive, OneMore, Typed, OrdersHaveBaskets, orderVars,
       cashVars, creditVars
  <2> QED BY <2>1, <2>4, <2>5, Together DEF Step, Book!Next
<1>6. CASE SumExpires \/ TillChanges
  <2>1. /\ UNCHANGED bookVars /\ UNCHANGED orderVars /\ serving' = serving
        /\ till' \in BOOLEAN /\ served' \in 0 .. ServiceBound
    BY <1>0, <1>6 DEF SumExpires, TillChanges, OneMore, Typed, cashVars
  <2>2. serving' \in [Tellers -> Requests] /\ Kept'
    BY <1>1, <2>1, StandingStill DEF bookVars, orderVars
  <2>3. Typed'
    BY <1>0, <1>6, <2>1 DEF SumExpires, TillChanges, Typed, OrdersHaveBaskets, orderVars,
       cashVars, creditVars
  <2> QED BY <1>1, <2>1, <2>2, <2>3, Together DEF Step
<1> QED BY <1>3, <1>4, <1>5, <1>6 DEF AroundTheCounter

LEMMA EveryStep ==
  ASSUME SaleInv, [SaleNext]_saleVars
  PROVE  Step
<1>1. CASE SaleNext
  <2>1. ASSUME NEW c \in Tellers, AsksFor(c) \/ GoesOn(c) \/ Drops(c) \/ BreaksDeadlock(c)
        PROVE  Step
    BY <2>1, AsksForKeeps, SaleStepKeeps, CreditStepKeeps, CommittedStepKeeps, AbortKeeps
       DEF GoesOn
  <2> QED BY <1>1, <2>1, AroundKeeps DEF SaleNext
<1>2. CASE UNCHANGED saleVars
  <2>0. /\ UNCHANGED bookVars /\ UNCHANGED orderVars /\ UNCHANGED cashVars
        /\ UNCHANGED creditVars /\ serving' = serving /\ served' = served
        /\ strained' = strained
    BY <1>2 DEF saleVars
  <2>1. Book!BookInv'
    BY <2>0 DEF SaleInv, CounterInv, bookVars, Book!BookInv, Book!Blank, Book!Nothing,
       Book!Statuses, Book!Methods
  <2>2. serving' \in [Tellers -> Requests] /\ Kept'
    BY <2>0, <2>1, StandingStill DEF bookVars, orderVars
  <2>3. Typed'
    BY <2>0, TheTypesNow DEF Typed, OrdersHaveBaskets, orderVars, cashVars, creditVars
  <2> QED BY <2>0, <2>2, <2>3, Together DEF Step, Book!book, bookVars
<1> QED BY <1>1, <1>2

LEMMA InTheBeginning ==
  ASSUME SaleInit
  PROVE  SaleInv /\ Book!Init
<1>0. /\ Book!Init /\ serving = [c \in Tellers |-> AtRest] /\ confirmed = {}
      /\ orders \in [Orders -> {NoOrderYet} \cup
                       {Ordered(b) : b \in {x \in Baskets : Wanted(x) # {}}}]
      /\ takings = [s \in Sales |-> 0] /\ till = TRUE /\ ceiling \in Limits
      /\ served = 0 /\ strained = FALSE
  BY DEF SaleInit
<1>1. \A c \in Tellers : serving[c] = AtRest
  BY <1>0
<1>2. Book!BookInv
  <2>1. ASSUME NEW s \in Sales
        PROVE  sold[s] # Book!Blank =>
                 sold[s] \in SaleRows /\ sold[s].paid <= Worth[sold[s].basket]
    <3>1. sold[s] # Book!Blank =>
            \E b \in Baskets : sold[s] = Book!Written("credit", "credit", b)
      BY <1>0 DEF Book!Init
    <3>2. ASSUME NEW b \in Baskets, sold[s] = Book!Written("credit", "credit", b)
          PROVE  sold[s] \in SaleRows /\ sold[s].paid <= Worth[sold[s].basket]
      <4>1. sold[s].paid = 0 /\ sold[s].basket = b /\ sold[s] \in SaleRows
        BY <3>2 DEF Book!Written, SaleRows, Book!Statuses, Book!Methods
      <4> QED BY <4>1, PricesAreNumbers
    <3> QED BY <3>1, <3>2
  <2>2. sold \in [Sales -> {Book!Blank} \cup SaleRows]
    BY <1>0, <2>1 DEF Book!Init
  <2>3. stock \in [Products -> Nat]
    BY <1>0, CounterAssumption DEF Book!Init, Book!Nothing
  <2> QED BY <2>1, <2>2, <2>3 DEF Book!BookInv, SaleRows
<1>3. Exclusive /\ DeductedIsThere /\ LockedIsOwed
  BY <1>1, Resting DEF Exclusive, Holds, DeductedIsThere, LockedIsOwed
<1>4. \A o \in Orders : /\ orders[o] \in OrderRows /\ orders[o].sale = Unsaid
                        /\ orders[o].at # "none" => orders[o].basket \in Baskets
  <2>1. /\ NoOrderYet \in OrderRows /\ NoOrderYet.sale = Unsaid /\ NoOrderYet.at = "none"
    BY DEF NoOrderYet, OrderRows, OrderStages, AnyBasket, NoOr
  <2>2. \A b \in Baskets : /\ Ordered(b) \in OrderRows /\ Ordered(b).sale = Unsaid
                           /\ Ordered(b).basket = b
    BY DEF Ordered, OrderRows, OrderStages, AnyBasket, NoOr
  <2>3. \A o \in Orders : orders[o] = NoOrderYet \/ \E b \in Baskets : orders[o] = Ordered(b)
    BY <1>0
  <2> QED BY <2>1, <2>2, <2>3
<1>5. Typed
  <2>1. orders \in [Orders -> OrderRows]
    BY <1>0, <1>4
  <2>2. OrdersHaveBaskets
    BY <1>4 DEF OrdersHaveBaskets
  <2>3. served \in 0 .. ServiceBound /\ ceiling \in Nat
    BY <1>0, CounterAssumption
  <2> QED BY <1>0, <2>1, <2>2, <2>3 DEF Typed
<1>6. serving \in [Tellers -> Requests]
  BY <1>0, Resting DEF Shaped
<1>7. ConfirmedOnce
  BY <1>0, <1>4 DEF ConfirmedOnce
<1>8. RequestsAreShaped /\ SalesAreKnown /\ SalesAreItsOwn
  BY <1>1, Resting DEF RequestsAreShaped, SalesAreKnown, SalesAreItsOwn
<1> QED BY <1>0, <1>2, <1>3, <1>5, <1>6, <1>7, <1>8 DEF SaleInv, CounterInv, SaleTypeOK,
           Typed, OrderRows

(***************************************************************************)
(* Requests in turn.  When requests are served one after the other and     *)
(* none goes wrong, the one in progress owes the rest of the counter what  *)
(* it has not done yet: an entry for the sale, the settled cash, a cache   *)
(* to empty.  TurnInv says what it owes at each of its steps.              *)
(***************************************************************************)
(* What is asked for, whoever else is there: a sale on credit says so, and *)
(* a debt is not settled on credit.                                        *)
Asked(r) ==
  /\ r.op = "sell" /\ r.method = "credit" => r.status = "credit"
  /\ r.op = "sell" /\ r.at \in CreditStages => r.method = "credit"
  /\ r.op = "settle" => r.method \in Payments \ {"credit"}
WellAsked == \A c \in Tellers : Asked(serving[c])
MoneyTyped == collected \in Nat /\ sums \in [Tellers -> Nat] /\ cache \in NoOr(Nat)

(* What it has read is still so. *)
Checked(r, sum) ==
  /\ r.op = "overrule" /\ r.at = "write" =>
       r.was = sold[r.sale].at /\ r.method = sold[r.sale].method
  /\ r.op = "sell" /\ r.at \in CreditStages \ {"limit"} => r.limit = ceiling
  /\ r.at \in {"store", "decide"} => sum = Owed
  /\ r.op = "sell" /\ r.at = "deduct" /\ r.method = "credit" =>
       Worth[r.basket] + Owed <= ceiling

(* With what it has still to enter, the cash is all there. *)
CashDue(r, s) == IF r.at = "cash" /\ r.op # "settle" /\ r.sale = s THEN 1 ELSE 0
SettledDue(r) ==
  IF r.op = "settle" /\ r.at \in {"forget", "cash"} THEN Total(r.items, Sales) ELSE 0
Expected(s) == IF sold[s].method = "cash" /\ sold[s].at = "completed" THEN 1 ELSE 0
PaidOn == [s \in Sales |-> sold[s].paid]
Entered(r) ==
  /\ \A s \in Sales : takings[s] + CashDue(r, s) = Expected(s)
  /\ "online" \notin Payments => collected + SettledDue(r) = Total(PaidOn, Sales)

(* Unless it is about to empty the cache, what that says is owed.          *)
Remembered(r) == Owed <= ceiling /\ (r.at # "forget" => cache \in {Unsaid, Owed})

Promised(r, sum) == Checked(r, sum) /\ Entered(r) /\ Remembered(r)

Busy(c) == serving[c].at # "idle"
InTurn ==
  /\ \A c, d \in Tellers : Busy(c) /\ Busy(d) => c = d
  /\ \A c \in Tellers : Busy(c) => Promised(serving[c], sums[c])
  /\ (\A c \in Tellers : ~Busy(c)) => Promised(AtRest, 0)
TurnInv == MoneyTyped /\ WellAsked /\ (~strained => InTurn)

(* Sums over the sales, as the totals they are. *)
Debts == [s \in Sales |-> Debt(s)]
OwedIsTotal == Owed = Total(Debts, Sales) /\ Owed \in Nat
PaidIsTotal == MapThenSumSet(LAMBDA s : sold[s].paid, Sales) = Total(PaidOn, Sales)

LEMMA RowsHaveDebts ==
  ASSUME Book!BookInv, NEW s \in Sales
  PROVE  /\ sold[s].paid \in Nat /\ Debt(s) \in Nat
         /\ sold[s] # Book!Blank => sold[s] \in SaleRows /\ Worth[sold[s].basket] \in Nat
         /\ ~Book!OnCredit(s) => Debt(s) = 0
<1>1. CASE sold[s] = Book!Blank
  BY <1>1 DEF Book!Blank, Book!OnCredit, Debt
<1>2. CASE sold[s] # Book!Blank
  <2>1. sold[s] \in SaleRows /\ sold[s].paid <= Worth[sold[s].basket]
    BY <1>2, RowsOfTheBook
  <2>2. sold[s].paid \in Nat /\ Worth[sold[s].basket] \in Nat
    BY <2>1, PricesAreNumbers DEF SaleRows
  <2> QED BY <2>1, <2>2 DEF Debt
<1> QED BY <1>1, <1>2

LEMMA OwedTotal == Book!BookInv => OwedIsTotal
<1> SUFFICES ASSUME Book!BookInv PROVE OwedIsTotal
  OBVIOUS
<1> DEFINE iter == CHOOSE i : i = [T \in SUBSET Sales |->
                     IF T = {} THEN 0 ELSE Debt(one(T)) + i[T \ {one(T)}]]
<1>1. IsFiniteSet(Sales) /\ \A s \in Sales : Debts[s] \in Nat
  BY CounterAssumption, RowsHaveDebts DEF Debts
<1>2. \A T \in SUBSET Sales : T # {} => Debts[one(T)] = Debt(one(T))
  BY OneIn DEF Debts
<1>3. \A i : AddsUp(i, Debts, Sales) <=>
        i = [T \in SUBSET Sales |-> IF T = {} THEN 0 ELSE Debt(one(T)) + i[T \ {one(T)}]]
  BY <1>2 DEF AddsUp
<1>4. AddsUp([T \in SUBSET Sales |-> Total(Debts, T)], Debts, Sales)
  BY <1>1, TotalAddsUp
<1>5. AddsUp(iter, Debts, Sales)
  BY <1>3, <1>4
<1>6. Owed = iter[Sales]
  BY DEF Owed, MapThenSumSet, MapThenFoldSet, one
<1> HIDE DEF iter
<1>7. iter[Sales] = Total(Debts, Sales)
  BY <1>1, <1>5, AddsUpToTotal
<1>8. Total(Debts, Sales) \in Nat
  BY <1>1, UnitsFinite
<1> QED BY <1>6, <1>7, <1>8 DEF OwedIsTotal

LEMMA PaidTotal == Book!BookInv => PaidIsTotal
<1> SUFFICES ASSUME Book!BookInv PROVE PaidIsTotal
  OBVIOUS
<1> DEFINE iter == CHOOSE i : i = [T \in SUBSET Sales |->
                     IF T = {} THEN 0 ELSE sold[one(T)].paid + i[T \ {one(T)}]]
<1>1. IsFiniteSet(Sales) /\ \A s \in Sales : PaidOn[s] \in Nat
  BY CounterAssumption, RowsHaveDebts DEF PaidOn
<1>2. \A T \in SUBSET Sales : T # {} => PaidOn[one(T)] = sold[one(T)].paid
  BY OneIn DEF PaidOn
<1>3. \A i : AddsUp(i, PaidOn, Sales) <=>
        i = [T \in SUBSET Sales |-> IF T = {} THEN 0 ELSE sold[one(T)].paid + i[T \ {one(T)}]]
  BY <1>2 DEF AddsUp
<1>4. AddsUp([T \in SUBSET Sales |-> Total(PaidOn, T)], PaidOn, Sales)
  BY <1>1, TotalAddsUp
<1>5. AddsUp(iter, PaidOn, Sales)
  BY <1>3, <1>4
<1>6. MapThenSumSet(LAMBDA s : sold[s].paid, Sales) = iter[Sales]
  BY DEF MapThenSumSet, MapThenFoldSet, one
<1> HIDE DEF iter
<1>7. iter[Sales] = Total(PaidOn, Sales)
  BY <1>1, <1>5, AddsUpToTotal
<1> QED BY <1>6, <1>7 DEF PaidIsTotal

(* Before a step and after it. *)
LEMMA TotalsBothTimes ==
  ASSUME SaleInv, SaleInv'
  PROVE  OwedIsTotal /\ OwedIsTotal'
<1>1. (Book!BookInv => OwedIsTotal) /\ (Book!BookInv' => OwedIsTotal')
  BY OwedTotal, PTL
<1> QED BY <1>1 DEF SaleInv, CounterInv

DebtsAreNumbers ==
  \A s \in Sales : /\ Debts[s] = Debt(s) /\ Debts[s] \in Nat
                   /\ PaidOn[s] = sold[s].paid /\ PaidOn[s] \in Nat

LEMMA DebtsTyped == Book!BookInv => DebtsAreNumbers
  BY RowsHaveDebts DEF DebtsAreNumbers, Debts, PaidOn

LEMMA DebtsBothTimes ==
  ASSUME SaleInv, SaleInv'
  PROVE  /\ \A s \in Sales : Debts[s] = Debt(s) /\ Debts[s] \in Nat
         /\ \A s \in Sales : Debts'[s] = Debt(s)' /\ Debts'[s] \in Nat
         /\ \A s \in Sales : PaidOn[s] = sold[s].paid /\ PaidOn[s] \in Nat
         /\ \A s \in Sales : PaidOn'[s] = sold'[s].paid /\ PaidOn'[s] \in Nat
<1>1. (Book!BookInv => DebtsAreNumbers) /\ (Book!BookInv' => DebtsAreNumbers')
  BY DebtsTyped, PTL
<1> QED BY <1>1 DEF SaleInv, CounterInv, DebtsAreNumbers

LEMMA OwedSame ==
  ASSUME SaleInv, SaleInv', \A s \in Sales : Debt(s)' = Debt(s)
  PROVE  Owed' = Owed /\ Owed \in Nat
<1>1. Total(Debts, Sales)' = Total(Debts, Sales)
  BY DebtsBothTimes, UnitsSame
<1> QED BY <1>1, TotalsBothTimes DEF OwedIsTotal

LEMMA OwedLess ==
  ASSUME SaleInv, SaleInv', \A s \in Sales : Debt(s)' <= Debt(s)
  PROVE  Owed' <= Owed /\ Owed \in Nat /\ Owed' \in Nat
<1>1. Total(Debts, Sales)' <= Total(Debts, Sales)
  BY DebtsBothTimes, TotalMonotone, CounterAssumption
<1> QED BY <1>1, TotalsBothTimes DEF OwedIsTotal

LEMMA OwedMore ==
  ASSUME SaleInv, SaleInv', NEW s \in Sales, NEW n \in Nat, Debt(s) = 0, Debt(s)' = n,
         \A t \in Sales \ {s} : Debt(t)' = Debt(t)
  PROVE  Owed' = Owed + n /\ Owed \in Nat
<1>1. IsFiniteSet(Units(Debts, Sales))
  BY DebtsBothTimes, UnitsFinite, CounterAssumption
<1>2. Total(Debts, Sales)' + 0 = Total(Debts, Sales) + n
  BY <1>1, DebtsBothTimes, TotalUpdate
<1> QED BY <1>2, TotalsBothTimes DEF OwedIsTotal

LEMMA PaidSame ==
  ASSUME SaleInv, SaleInv', \A s \in Sales : sold'[s].paid = sold[s].paid
  PROVE  Total(PaidOn, Sales)' = Total(PaidOn, Sales)
  BY DebtsBothTimes, UnitsSame

LEMMA PaidMore ==
  ASSUME SaleInv, SaleInv', NEW items,
         \A s \in Sales : items[s] \in Nat /\ sold'[s].paid = sold[s].paid + items[s]
  PROVE  Total(PaidOn, Sales)' = Total(PaidOn, Sales) + Total(items, Sales)
  BY DebtsBothTimes, TotalPlus, CounterAssumption

(***************************************************************************)
(* A request in turn, step by step                                         *)
(***************************************************************************)
(* At rest nothing is owed to the rest of the counter. *)
LEMMA RestInTurn ==
  ASSUME NEW q, q.at = "idle"
  PROVE  /\ \A s \in Sales : CashDue(q, s) = 0
         /\ SettledDue(q) = 0
  BY DEF CashDue, SettledDue

LEMMA RestIsAsked == Asked(AtRest) /\ AtRest.at = "idle"
  BY SMT DEF AtRest, Asked

(* The one in progress is the only one, and keeps its promises. *)
LEMMA TheOneInTurn ==
  ASSUME TurnInv, ~strained, NEW c \in Tellers
  PROVE  /\ Busy(c) => \A d \in Tellers \ {c} : ~Busy(d)
         /\ Busy(c) => Promised(serving[c], sums[c])
         /\ ~Busy(c) /\ Alone(c) => Promised(AtRest, 0)
<1>1. InTurn
  BY DEF TurnInv
<1>2. ~Busy(c) /\ Alone(c) => \A d \in Tellers : ~Busy(d)
  BY DEF Alone, Busy
<1> QED BY <1>1, <1>2 DEF InTurn

(* How a teller that goes on leaves the counter: q is what it does next. *)
LEMMA TurnGoes ==
  ASSUME SaleInv, TurnInv, NEW c \in Tellers, NEW q, Continues(c, q), Asked(q),
         MoneyTyped',
         ~strained' => /\ \A d \in Tellers \ {c} : ~Busy(d)
                       /\ q.at # "idle" => Promised(q, sums[c])'
                       /\ q.at = "idle" => Promised(AtRest, 0)'
  PROVE  TurnInv'
<1>1. /\ serving'[c] = q
      /\ \A d \in Tellers \ {c} : serving'[d] = serving[d]
  BY DEF Continues, SaleInv, CounterInv, SaleTypeOK
<1>2. \A d \in Tellers : Asked(serving'[d])
  BY <1>1 DEF TurnInv, WellAsked
<1>3. WellAsked'
  BY <1>2 DEF WellAsked, Asked, CreditStages
<1>4. ASSUME ~strained'
      PROVE  InTurn'
  <2>1. \A d \in Tellers \ {c} : serving'[d].at = "idle"
    BY <1>1, <1>4 DEF Busy
  <2>2. \A a, d \in Tellers : Busy(a)' /\ Busy(d)' => a = d
    BY <2>1 DEF Busy
  <2>3. ASSUME NEW d \in Tellers, Busy(d)'
        PROVE  Promised(serving[d], sums[d])'
    <3>1. d = c /\ q.at # "idle"
      BY <1>1, <2>1, <2>3 DEF Busy
    <3>2. Promised(q, sums[c])'
      BY <1>4, <3>1
    <3> QED BY <1>1, <3>1, <3>2
  <2>4. ASSUME \A d \in Tellers : ~Busy(d)'
        PROVE  Promised(AtRest, 0)'
    BY <1>1, <1>4, <2>4 DEF Busy
  <2> QED BY <2>2, <2>3, <2>4 DEF InTurn
<1> QED BY <1>3, <1>4 DEF TurnInv

(* What has been entered stays entered. *)
LEMMA StillEntered ==
  ASSUME SaleInv, SaleInv', UNCHANGED <<sold, takings, collected>>, NEW r, NEW q, Entered(r),
         \A s \in Sales : CashDue(q, s) = CashDue(r, s),
         "online" \notin Payments => SettledDue(q) = SettledDue(r)
  PROVE  Entered(q)'
<1>1. Total(PaidOn, Sales)' = Total(PaidOn, Sales)
  BY PaidSame
<1>2. \A s \in Sales : Expected(s)' = Expected(s)
  BY DEF Expected
<1>3. \A s \in Sales : takings'[s] + CashDue(q, s) = Expected(s)'
  BY <1>2 DEF Entered
<1>4. "online" \notin Payments => collected' + SettledDue(q) = Total(PaidOn, Sales)'
  BY <1>1 DEF Entered
<1> QED BY <1>3, <1>4 DEF Entered, CashDue, SettledDue

(* Nothing is written: what was promised is still so. *)
LEMMA GoesOnInTurn ==
  ASSUME SaleInv, SaleInv', TurnInv, NEW c \in Tellers, Busy(c), NEW q, Continues(c, q),
         Asked(q), UNCHANGED <<sold, takings, collected, ceiling, strained>>, MoneyTyped',
         ~strained => cache' \in {cache, Unsaid, Owed},
         serving[c].at \notin {"forget", "cash"}, q.at \notin {"forget", "cash"},
         ~strained => q.at = "idle" \/ Checked(q, sums[c])'
  PROVE  TurnInv'
<1> DEFINE r == serving[c]
<1>1. \A s \in Sales : CashDue(q, s) = 0 /\ CashDue(r, s) = 0 /\ CashDue(AtRest, s) = 0
  BY RestIsAsked DEF CashDue
<1>2. SettledDue(q) = 0 /\ SettledDue(r) = 0 /\ SettledDue(AtRest) = 0
  BY RestIsAsked DEF SettledDue
<1>4. ASSUME ~strained
      PROVE  /\ \A d \in Tellers \ {c} : ~Busy(d)
             /\ q.at # "idle" => Promised(q, sums[c])'
             /\ Promised(AtRest, 0)'
  <2>1. Promised(r, sums[c]) /\ \A d \in Tellers \ {c} : ~Busy(d)
    BY <1>4, TheOneInTurn
  <2>2. Owed' = Owed
    BY OwedSame DEF Debt, Book!OnCredit
  <2>3. Entered(q)' /\ Entered(AtRest)'
    BY <1>1, <1>2, <2>1, StillEntered DEF Promised
  <2>4. Remembered(q)' /\ Remembered(AtRest)'
    BY <1>4, <2>1, <2>2 DEF Promised, Remembered
  <2>5. Checked(AtRest, 0)'
    BY RestIsAsked, Resting, SMT DEF Checked, CreditStages
  <2> QED BY <1>4, <2>1, <2>3, <2>4, <2>5 DEF Promised
<1> QED BY <1>4, TurnGoes

LEMMA EndsInTurn ==
  ASSUME SaleInv, SaleInv', TurnInv, NEW c \in Tellers, Busy(c), Dismiss(c),
         UNCHANGED <<sold, takings, collected, ceiling, strained>>, MoneyTyped',
         cache' = cache, serving[c].at \notin {"forget", "cash"}
  PROVE  TurnInv'
  BY RestIsAsked, GoesOnInTurn DEF Dismiss

(* A request begins while nobody else is served, or it strains the rest.   *)
LEMMA BeginsInTurn ==
  ASSUME SaleInv, SaleInv', TurnInv, NEW c \in Tellers, NEW q, Admit(c, q), Asked(q),
         UNCHANGED <<bookVars, orderVars, cashVars, creditVars>>,
         q.at \notin {"forget", "cash", "store", "decide"}, Checked(q, 0)'
  PROVE  TurnInv'
<1>1. /\ ~Busy(c) /\ Continues(c, q)
      /\ ~strained' => ~strained /\ Alone(c)
  BY DEF Admit, Busy
<1>2. /\ UNCHANGED <<sold, takings, collected, ceiling, cache, sums>>
      /\ MoneyTyped'
  BY DEF TurnInv, MoneyTyped, bookVars, cashVars, creditVars
<1>3. ASSUME ~strained'
      PROVE  /\ \A d \in Tellers \ {c} : ~Busy(d)
             /\ Promised(q, sums[c])' /\ Promised(AtRest, 0)'
  <2>1. Promised(AtRest, 0) /\ \A d \in Tellers \ {c} : ~Busy(d)
    BY <1>1, <1>3, TheOneInTurn DEF Alone, Busy
  <2>2. Owed' = Owed
    BY <1>2, OwedSame DEF Debt, Book!OnCredit
  <2>3. /\ \A s \in Sales : CashDue(q, s) = CashDue(AtRest, s)
        /\ SettledDue(q) = SettledDue(AtRest)
    BY RestIsAsked DEF CashDue, SettledDue
  <2>4. Entered(q)' /\ Entered(AtRest)'
    BY <1>2, <2>1, <2>3, StillEntered DEF Promised
  <2>5. Remembered(q)' /\ Remembered(AtRest)'
    BY <1>2, <2>1, <2>2, RestIsAsked DEF Promised, Remembered
  <2>6. Checked(q, sums[c])'
    BY DEF Checked
  <2>7. Checked(AtRest, 0)'
    BY RestIsAsked, Resting, SMT DEF Checked, CreditStages
  <2> QED BY <2>1, <2>4, <2>5, <2>6, <2>7 DEF Promised
<1> QED BY <1>1, <1>2, <1>3, TurnGoes

LEMMA AsksInTurn ==
  ASSUME SaleInv, SaleInv', TurnInv, NEW c \in Tellers, AsksFor(c)
  PROVE  TurnInv'
<1>1. ASSUME NEW b \in Baskets, NEW m \in Payments, NEW o \in NoOr(Orders),
             NEW status, m = "credit" => status = "credit"
      PROVE  LET q == SaleOf(b, m, status, o) IN
             /\ Asked(q) /\ q.at \in {"lines", "limit", "deduct"} /\ Checked(q, 0)'
  <2> DEFINE r == [AtRest EXCEPT !.op = "sell", !.basket = b, !.method = m,
                     !.status = status, !.order = o]
             q == SaleOf(b, m, status, o)
  <2>1. q \in {[r EXCEPT !.at = "lines", !.todo = Wanted(b)], [r EXCEPT !.at = "limit"],
               [r EXCEPT !.at = "deduct", !.todo = Wanted(r.basket)]}
        /\ (q.at = "limit" => m = "credit") /\ (q.at = "deduct" => m # "credit")
        /\ q.op = "sell" /\ q.method = m /\ q.status = status
        /\ q.at \in {"lines", "limit", "deduct"}
    BY SMT DEF SaleOf, AfterLines, AtRest
  <2> HIDE DEF r, q
  <2> QED BY <1>1, <2>1 DEF Asked, Checked, CreditStages, q
<1>2. ASSUME NEW b \in Baskets, NEW m \in Payments, NEW o \in NoOr(Orders),
             NEW status \in StatusesFor(m), AsksToSell(c, b, m, status, o)
      PROVE  TurnInv'
  <2>1. m = "credit" => status = "credit"
    BY DEF StatusesFor
  <2> QED BY <1>1, <1>2, <2>1, BeginsInTurn DEF AsksToSell
<1>3. ASSUME NEW o \in Orders, NEW m \in Payments, NEW status \in StatusesFor(m),
             AsksToConvert(c, o, m, status)
      PROVE  TurnInv'
  <2>1. /\ m = "credit" => status = "credit"
        /\ Unsaid \in NoOr(Orders) /\ orders[o].basket \in Baskets
    BY <1>3, TheTypesNow
    DEF StatusesFor, NoOr, AsksToConvert, IsOpenOrder, Typed, OrdersHaveBaskets
  <2>2. Admit(c, SaleOf(orders[o].basket, m, status, Unsaid))
    BY <1>3 DEF AsksToConvert
  <2>3. PICK b \in Baskets : b = orders[o].basket
    BY <2>1
  <2> QED BY <1>1, <1>3, <2>1, <2>2, <2>3, BeginsInTurn DEF AsksToConvert
<1>4. ASSUME NEW items \in Offers, NEW m \in Payments, AsksToSettle(c, items, m)
      PROVE  TurnInv'
  <2> DEFINE q == [AtRest EXCEPT !.op = "settle", !.at = "lines", !.items = items,
                     !.method = m, !.todo = Covered(items)]
  <2>1. q.op = "settle" /\ q.at = "lines" /\ q.method = m
    BY SMT DEF AtRest
  <2>2. Admit(c, q) /\ m # "credit"
    BY <1>4 DEF AsksToSettle
  <2> HIDE DEF q
  <2>3. Asked(q) /\ Checked(q, 0)'
    BY <2>1, <2>2 DEF Asked, Checked
  <2> QED BY <1>4, <2>1, <2>2, <2>3, BeginsInTurn DEF AsksToSettle
<1>5. ASSUME NEW s \in Sales, NEW status \in PayStatuses,
             AsksToOverrule(c, s, status)
      PROVE  TurnInv'
  <2>0. PICK m, was : m = sold[s].method /\ was = sold[s].at
    OBVIOUS
  <2> DEFINE q == [AtRest EXCEPT !.op = "overrule", !.at = "write", !.sale = s,
                     !.method = m, !.status = status, !.was = was]
  <2>1. q.op = "overrule" /\ q.at = "write" /\ q.method = m /\ q.sale = s /\ q.was = was
        /\ q.status = status
    BY SMT DEF AtRest
  <2>2. Admit(c, q) /\ UNCHANGED <<bookVars, orderVars, cashVars, creditVars>>
    BY <1>5, <2>0 DEF AsksToOverrule
  <2> HIDE DEF q
  <2>3. Asked(q) /\ Checked(q, 0)'
    BY <2>0, <2>1, <2>2 DEF Asked, Checked, bookVars
  <2> QED BY <2>1, <2>2, <2>3, BeginsInTurn
<1>6. ASSUME NEW limit \in Limits, AsksForLimit(c, limit)
      PROVE  TurnInv'
  <2> DEFINE q == [AtRest EXCEPT !.op = "limit", !.at = "write", !.limit = limit]
  <2>1. q.op = "limit" /\ q.at = "write"
    BY SMT DEF AtRest
  <2> HIDE DEF q
  <2>2. Asked(q) /\ Checked(q, 0)'
    BY <2>1 DEF Asked, Checked
  <2> QED BY <1>6, <2>1, <2>2, BeginsInTurn DEF AsksForLimit, q
<1>7. CASE AsksForSummary(c)
  <2> DEFINE q == [AtRest EXCEPT !.op = "summary", !.at = "limit"]
  <2>1. q.op = "summary" /\ q.at = "limit"
    BY SMT DEF AtRest
  <2> HIDE DEF q
  <2>2. Asked(q) /\ Checked(q, 0)'
    BY <2>1 DEF Asked, Checked
  <2> QED BY <1>7, <2>1, <2>2, BeginsInTurn DEF AsksForSummary, q
<1> QED BY <1>2, <1>3, <1>4, <1>5, <1>6, <1>7 DEF AsksFor

LEMMA OwedStays ==
  ASSUME SaleInv, SaleInv', sold' = sold
  PROVE  Owed' = Owed /\ Owed \in Nat
  BY OwedSame DEF Debt, Book!OnCredit

(* What is known of the request of a teller. *)
LEMMA RequestInTurn ==
  ASSUME SaleInv, TurnInv, NEW c \in Tellers
  PROVE  /\ serving[c] \in Requests /\ Shaped(serving[c]) /\ Asked(serving[c])
         /\ sums[c] \in Nat /\ MoneyTyped
         /\ ~strained /\ Busy(c) => /\ Checked(serving[c], sums[c]) /\ Entered(serving[c])
                                    /\ Remembered(serving[c])
  BY RequestOf, TheOneInTurn DEF TurnInv, WellAsked, MoneyTyped, Promised

LEMMA TakesInTurn ==
  ASSUME SaleInv, SaleInv', TurnInv, NEW c \in Tellers, Takes(c)
  PROVE  TurnInv'
<1> DEFINE r == serving[c]
<1>1. /\ r \in Requests /\ Asked(r) /\ r.at = "lines" /\ r.op # "overrule" /\ Busy(c)
      /\ MoneyTyped'
      /\ UNCHANGED <<sold, takings, collected, ceiling, cache, strained>>
  BY RequestInTurn DEF Takes, Doing, Busy, MoneyTyped, bookVars, cashVars, creditVars
<1>2. PICK x \in r.todo : Continues(c, [r EXCEPT !.at = "wait", !.next = x,
                                        !.seen = IF x \in Products THEN stock[x] ELSE 0])
  BY DEF Takes
<1>3. PICK q : q = [r EXCEPT !.at = "wait", !.next = x,
                      !.seen = IF x \in Products THEN stock[x] ELSE 0]
  OBVIOUS
<1>4. q.at = "wait" /\ q.op = r.op /\ q.method = r.method /\ q.status = r.status
  BY <1>1, <1>3, SMT DEF Requests
<1>5. Asked(q) /\ Checked(q, sums[c])'
  BY <1>1, <1>4 DEF Asked, Checked, CreditStages
<1> QED BY <1>1, <1>2, <1>3, <1>4, <1>5, GoesOnInTurn

LEMMA LocksProductInTurn ==
  ASSUME SaleInv, SaleInv', TurnInv, NEW c \in Tellers, LocksProduct(c)
  PROVE  TurnInv'
<1> DEFINE r == serving[c]
<1>1. /\ r \in Requests /\ Asked(r) /\ r.at = "wait" /\ r.op = "sell" /\ Busy(c)
      /\ MoneyTyped'
      /\ UNCHANGED <<sold, takings, collected, ceiling, cache, strained>>
  BY RequestInTurn DEF LocksProduct, Doing, Busy, MoneyTyped, bookVars, cashVars, creditVars
<1>2. CASE Dismiss(c)
  BY <1>1, <1>2, EndsInTurn
<1>0. PICK l, q : l = Locked(r) /\ q = AfterLines(l)
  OBVIOUS
<1>3. /\ l.op = "sell" /\ l.at = "lines" /\ l.method = r.method /\ l.status = r.status
      /\ q.op = "sell" /\ q.method = r.method /\ q.status = r.status
      /\ IF r.method = "credit" THEN q.at = "limit" ELSE q.at = "deduct"
  BY <1>0, <1>1, SMT DEF Locked, AfterLines, Requests
<1>4. CASE Continues(c, l)
  <2>1. Asked(l) /\ Checked(l, sums[c])'
    BY <1>1, <1>3 DEF Asked, Checked, CreditStages
  <2> QED BY <1>1, <1>3, <1>4, <2>1, GoesOnInTurn
<1>5. CASE Continues(c, q)
  <2>1. Asked(q) /\ Checked(q, sums[c])'
    BY <1>1, <1>3 DEF Asked, Checked, CreditStages
  <2> QED BY <1>1, <1>3, <1>5, <2>1, GoesOnInTurn
<1> QED BY <1>0, <1>2, <1>4, <1>5 DEF LocksProduct

LEMMA DeductsInTurn ==
  ASSUME SaleInv, SaleInv', TurnInv, NEW c \in Tellers, Deducts(c)
  PROVE  TurnInv'
<1> DEFINE r == serving[c]
<1>1. /\ r \in Requests /\ Asked(r) /\ r.at = "deduct" /\ r.op = "sell" /\ Busy(c)
      /\ MoneyTyped'
      /\ UNCHANGED <<sold, takings, collected, ceiling, cache, sums, strained>>
  BY RequestInTurn DEF Deducts, Doing, Busy, MoneyTyped, bookVars, cashVars, creditVars
<1>2. CASE Dismiss(c)
  BY <1>1, <1>2, EndsInTurn
<1>3. ASSUME NEW p, Continues(c, [r EXCEPT !.todo = @ \ {p}])
      PROVE  TurnInv'
  <2>0. PICK q : q = [r EXCEPT !.todo = @ \ {p}]
    OBVIOUS
  <2>1. /\ q.op = "sell" /\ q.at = "deduct" /\ q.method = r.method /\ q.status = r.status
        /\ q.basket = r.basket
    BY <1>1, <2>0, SMT DEF Requests
  <2>2. Continues(c, q)
    BY <1>3, <2>0
  <2>3. Owed' = Owed
    BY <1>1, OwedStays
  <2>4. Asked(q)
    BY <1>1, <2>1 DEF Asked, CreditStages
  <2>5. ASSUME ~strained
        PROVE  Checked(q, sums[c])'
    <3>1. Checked(r, sums[c])
      BY <1>1, <2>5, RequestInTurn
    <3> QED BY <1>1, <2>1, <2>3, <3>1 DEF Checked, CreditStages
  <2> QED BY <1>1, <2>1, <2>2, <2>4, <2>5, GoesOnInTurn
<1> QED BY <1>2, <1>3 DEF Deducts

LEMMA LocksSaleInTurn ==
  ASSUME SaleInv, SaleInv', TurnInv, NEW c \in Tellers, LocksSale(c)
  PROVE  TurnInv'
<1> DEFINE r == serving[c]
<1>1. /\ r \in Requests /\ Asked(r) /\ r.at = "wait" /\ r.op = "settle" /\ Busy(c)
      /\ MoneyTyped'
      /\ UNCHANGED <<sold, takings, collected, ceiling, cache, strained>>
  BY RequestInTurn DEF LocksSale, Doing, Busy, MoneyTyped, bookVars, cashVars, creditVars
<1>2. CASE Dismiss(c)
  BY <1>1, <1>2, EndsInTurn
<1>0. PICK q : q = Locked(r)
  OBVIOUS
<1>3. q.op = "settle" /\ q.at = "lines" /\ q.method = r.method
  BY <1>0, <1>1, SMT DEF Locked, Requests
<1>4. CASE Continues(c, q)
  <2>1. Asked(q) /\ Checked(q, sums[c])'
    BY <1>1, <1>3 DEF Asked, Checked, CreditStages
  <2> QED BY <1>1, <1>3, <1>4, <2>1, GoesOnInTurn
<1> QED BY <1>0, <1>2, <1>4 DEF LocksSale

LEMMA ReadsLimitInTurn ==
  ASSUME SaleInv, SaleInv', TurnInv, NEW c \in Tellers, ReadsLimit(c)
  PROVE  TurnInv'
<1> DEFINE r == serving[c]
<1>1. /\ r \in Requests /\ Asked(r) /\ r.at = "limit" /\ Busy(c)
      /\ MoneyTyped'
      /\ UNCHANGED <<sold, takings, collected, ceiling, cache, strained>>
  BY RequestInTurn DEF ReadsLimit, Busy, MoneyTyped, bookVars, cashVars, creditVars
<1>2. CASE Dismiss(c)
  BY <1>1, <1>2, EndsInTurn
<1>0. PICK q : q = [r EXCEPT !.at = "cached", !.limit = ceiling]
  OBVIOUS
<1>3. /\ q.op = r.op /\ q.at = "cached" /\ q.method = r.method /\ q.status = r.status
      /\ q.limit = ceiling
  BY <1>0, <1>1, SMT DEF Requests
<1>4. CASE Continues(c, q)
  <2>1. Asked(q) /\ Checked(q, sums[c])'
    BY <1>1, <1>3 DEF Asked, Checked, CreditStages
  <2> QED BY <1>1, <1>3, <1>4, <2>1, GoesOnInTurn
<1> QED BY <1>0, <1>2, <1>4 DEF ReadsLimit

(* The next stage of the credit check. *)
LEMMA StageInTurn ==
  ASSUME SaleInv, SaleInv', TurnInv, NEW c \in Tellers,
         serving[c].at \in CreditStages \ {"limit"},
         NEW step \in CreditStages \ {"limit"}, Moves(c, step),
         UNCHANGED <<sold, takings, collected, ceiling, strained>>, MoneyTyped',
         ~strained => /\ cache' \in {cache, Owed}
                      /\ step \in {"store", "decide"} => sums'[c] = Owed
  PROVE  TurnInv'
<1> DEFINE r == serving[c]
<1>0. PICK q : q = [r EXCEPT !.at = step]
  OBVIOUS
<1>1. r \in Requests /\ Asked(r) /\ Busy(c) /\ step \in Steps
  BY RequestInTurn DEF Busy, CreditStages, Steps
<1>2. /\ q.op = r.op /\ q.at = step /\ q.method = r.method /\ q.status = r.status
      /\ q.limit = r.limit
  BY <1>0, <1>1, Stepping
<1>3. Continues(c, q)
  BY <1>0 DEF Moves, CreditStages
<1>4. Owed' = Owed
  BY OwedStays
<1>5. Asked(q)
  BY <1>1, <1>2 DEF Asked, CreditStages
<1>6. ASSUME ~strained
      PROVE  Checked(q, sums[c])'
  <2>1. Checked(r, sums[c])
    BY <1>1, <1>6, RequestInTurn
  <2> QED BY <1>2, <1>4, <1>6, <2>1 DEF Checked, CreditStages
<1>7. q.at \notin {"forget", "cash"} /\ r.at \notin {"forget", "cash"}
  BY <1>2 DEF CreditStages
<1> QED BY <1>1, <1>3, <1>5, <1>6, <1>7, GoesOnInTurn

LEMMA ReadsCacheInTurn ==
  ASSUME SaleInv, SaleInv', TurnInv, NEW c \in Tellers, ReadsCache(c)
  PROVE  TurnInv'
<1>1. /\ serving[c].at = "cached" /\ Busy(c)
      /\ UNCHANGED <<sold, takings, collected, ceiling, cache, strained>>
  BY DEF ReadsCache, Busy, bookVars, cashVars
<1>2. CASE Moves(c, "sum") /\ UNCHANGED sums
  <2>1. MoneyTyped'
    BY <1>1, <1>2, RequestInTurn DEF MoneyTyped
  <2> QED BY <1>1, <1>2, <2>1, StageInTurn DEF CreditStages
<1>3. CASE cache # Unsaid /\ Moves(c, "decide") /\ sums' = [sums EXCEPT ![c] = cache]
  <2>1. MoneyTyped' /\ sums'[c] = cache
    BY <1>1, <1>3, RequestInTurn DEF MoneyTyped, NoOr
  <2>2. ~strained => cache = Owed
    BY <1>1, <1>3, RequestInTurn DEF Remembered
  <2> QED BY <1>1, <1>3, <2>1, <2>2, StageInTurn DEF CreditStages
<1> QED BY <1>2, <1>3 DEF ReadsCache

LEMMA SumsUpInTurn ==
  ASSUME SaleInv, SaleInv', TurnInv, NEW c \in Tellers, SumsUp(c)
  PROVE  TurnInv'
<1>1. /\ serving[c].at = "sum" /\ Busy(c) /\ Moves(c, "store")
      /\ sums' = [sums EXCEPT ![c] = Owed]
      /\ UNCHANGED <<sold, takings, collected, ceiling, cache, strained>>
  BY DEF SumsUp, Busy, bookVars, cashVars
<1>2. MoneyTyped' /\ sums'[c] = Owed
  BY <1>1, RequestInTurn, OwedStays DEF MoneyTyped
<1> QED BY <1>1, <1>2, StageInTurn DEF CreditStages

LEMMA StoresSumInTurn ==
  ASSUME SaleInv, SaleInv', TurnInv, NEW c \in Tellers, StoresSum(c)
  PROVE  TurnInv'
<1>1. /\ serving[c].at = "store" /\ Busy(c) /\ Moves(c, "decide") /\ cache' = sums[c]
      /\ UNCHANGED <<sold, takings, collected, ceiling, sums, strained>>
  BY DEF StoresSum, Busy, bookVars, cashVars
<1>2. MoneyTyped'
  BY <1>1, RequestInTurn DEF MoneyTyped, NoOr
<1>3. ~strained => sums[c] = Owed
  BY <1>1, RequestInTurn DEF Checked
<1> QED BY <1>1, <1>2, <1>3, StageInTurn DEF CreditStages

(* The limit has room for the sale and all that is owed. *)
LEMMA DecidesInTurn ==
  ASSUME SaleInv, SaleInv', TurnInv, NEW c \in Tellers, Decides(c)
  PROVE  TurnInv'
<1> DEFINE r == serving[c]
<1>1. /\ r \in Requests /\ Asked(r) /\ r.at = "decide" /\ Busy(c)
      /\ MoneyTyped'
      /\ UNCHANGED <<sold, takings, collected, ceiling, cache, strained>>
  BY RequestInTurn DEF Decides, Busy, MoneyTyped, bookVars, cashVars
<1>2. CASE Dismiss(c)
  BY <1>1, <1>2, EndsInTurn
<1>0. PICK q : q = [r EXCEPT !.at = "deduct", !.todo = Wanted(r.basket), !.limit = 0]
  OBVIOUS
<1>3. CASE r.op = "sell" /\ Worth[r.basket] + sums[c] <= r.limit /\ Continues(c, q)
  <2>1. /\ q.op = r.op /\ q.at = "deduct" /\ q.method = r.method /\ q.status = r.status
        /\ q.basket = r.basket
    BY <1>0, <1>1, SMT DEF Requests
  <2>2. Owed' = Owed
    BY <1>1, OwedStays
  <2>3. Asked(q)
    BY <1>1, <2>1 DEF Asked, CreditStages
  <2>4. ASSUME ~strained
        PROVE  Checked(q, sums[c])'
    <3>1. sums[c] = Owed /\ r.limit = ceiling
      BY <1>1, <1>3, <2>4, RequestInTurn DEF Checked, CreditStages
    <3> QED BY <1>1, <1>3, <2>1, <2>2, <3>1 DEF Checked, CreditStages
  <2> QED BY <1>1, <1>3, <2>1, <2>3, <2>4, GoesOnInTurn
<1> QED BY <1>0, <1>2, <1>3 DEF Decides

(***************************************************************************)
(* The steps that write, in turn                                           *)
(***************************************************************************)
(* At the end of a request only what is written counts. *)
LEMMA EndPromised ==
  ASSUME NEW q, q.at = "idle", Entered(q)', Remembered(q)'
  PROVE  Promised(AtRest, 0)'
<1>1. /\ \A s \in Sales : CashDue(q, s) = 0 /\ CashDue(AtRest, s) = 0
      /\ SettledDue(q) = 0 /\ SettledDue(AtRest) = 0
  BY RestInTurn, RestIsAsked
<1>2. Checked(AtRest, 0)'
  BY RestIsAsked, Resting DEF Checked, CreditStages
<1>3. Entered(AtRest)'
  BY <1>1 DEF Entered, CashDue, SettledDue
<1>4. Remembered(AtRest)'
  BY RestIsAsked DEF Remembered
<1> QED BY <1>2, <1>3, <1>4 DEF Promised

(* A sale on credit was found to be within the limit; one for cash is to   *)
(* be entered.                                                             *)
LEMMA SaleIsWrittenInTurn ==
  ASSUME SaleInv, SaleInv', TurnInv, NEW c \in Tellers, SaleIsWritten(c)
  PROVE  TurnInv'
<1> DEFINE r == serving[c]
<1>1. /\ r \in Requests /\ Asked(r) /\ r.op = "sell" /\ r.at = "deduct" /\ Busy(c)
      /\ r.basket \in Baskets /\ r.status \in Book!Statuses /\ MoneyTyped'
      /\ UNCHANGED <<takings, collected, ceiling, cache, sums, strained>>
  BY RequestInTurn DEF SaleIsWritten, Doing, Busy, MoneyTyped, cashVars, creditVars,
     Shaped, IsAboutGoods
<1>2. PICK s \in Sales :
        /\ sold[s] = Book!Blank
        /\ sold' = [sold EXCEPT ![s] = Book!Written(r.status, r.method, r.basket)]
        /\ Continues(c, IF AfterCommit(r) = "idle" THEN AtRest
                        ELSE [r EXCEPT !.at = AfterCommit(r), !.sale = s])
  BY DEF SaleIsWritten
<1>3. PICK q : q = IF AfterCommit(r) = "idle" THEN AtRest
                   ELSE [r EXCEPT !.at = AfterCommit(r), !.sale = s]
  OBVIOUS
<1>4. /\ q.at = AfterCommit(r)
      /\ q.at # "idle" => /\ q.op = "sell" /\ q.method = r.method /\ q.status = r.status
                          /\ q.sale = s
  <2>1. CASE AfterCommit(r) = "idle"
    BY <1>3, <2>1, RestIsAsked
  <2>2. CASE AfterCommit(r) # "idle"
    <3> DEFINE step == AfterCommit(r)
    <3> HIDE DEF step
    <3> QED BY <1>1, <1>3, <2>2, SMT DEF Requests, step
  <2> QED BY <2>1, <2>2
<1>5. /\ r.method = "credit" => q.at = "forget"
      /\ r.method # "credit" => (q.at = "cash" <=> r.method = "cash" /\ r.status = "completed")
      /\ q.at \in {"forget", "cash", "mark", "idle"} /\ (q.at = "forget" => r.method = "credit")
  BY <1>4 DEF AfterCommit, LastOf
<1>6. /\ sold[s].at = "none" /\ sold[s].method = "none" /\ sold[s].paid = 0
      /\ sold'[s].at = r.status /\ sold'[s].method = r.method
      /\ sold'[s].basket = r.basket /\ sold'[s].paid = 0
      /\ \A t \in Sales \ {s} : sold'[t] = sold[t]
  BY <1>2 DEF Book!Blank, Book!Written, SaleInv, CounterInv, Book!BookInv
<1>8. Asked(q)
  <2>1. CASE q.at = "idle"
    BY <1>3, <1>4, <2>1, RestIsAsked
  <2>2. CASE q.at # "idle"
    BY <1>1, <1>4, <1>5, <2>2 DEF Asked, CreditStages
  <2> QED BY <2>1, <2>2
<1>9. ASSUME ~strained
      PROVE  Promised(q, sums[c])' /\ (q.at = "idle" => Promised(AtRest, 0)')
             /\ \A d \in Tellers \ {c} : ~Busy(d)
  <2>1. /\ Checked(r, sums[c]) /\ Entered(r) /\ Remembered(r)
        /\ \A d \in Tellers \ {c} : ~Busy(d)
    BY <1>1, <1>9, RequestInTurn, TheOneInTurn
  <2>2. Worth[r.basket] \in Nat
    BY <1>1, PricesAreNumbers
  <2>3. /\ Owed' = Owed + (IF r.method = "credit" THEN Worth[r.basket] ELSE 0)
        /\ Owed \in Nat
    <3> DEFINE n == IF r.method = "credit" THEN Worth[r.basket] ELSE 0
    <3>1. n \in Nat
      BY <2>2
    <3>2. Debt(s) = 0 /\ Debt(s)' = n /\ \A t \in Sales \ {s} : Debt(t)' = Debt(t)
      BY <1>1, <1>6, <2>2 DEF Debt, Book!OnCredit, Asked
    <3> HIDE DEF n
    <3>3. Owed' = Owed + n /\ Owed \in Nat
      BY <3>1, <3>2, OwedMore
    <3> QED BY <3>3 DEF n
  <2>4. Total(PaidOn, Sales)' = Total(PaidOn, Sales)
    BY <1>6, PaidSame
  <2>5. /\ \A t \in Sales : CashDue(r, t) = 0
        /\ \A t \in Sales : CashDue(q, t) = IF q.at = "cash" /\ t = s THEN 1 ELSE 0
        /\ SettledDue(r) = 0 /\ SettledDue(q) = 0
    BY <1>1, <1>4, <1>5 DEF CashDue, SettledDue
  <2>6. /\ Expected(s) = 0 /\ Expected(s)' = IF q.at = "cash" THEN 1 ELSE 0
        /\ \A t \in Sales \ {s} : Expected(t)' = Expected(t)
    BY <1>1, <1>5, <1>6 DEF Expected, Asked
  <2>7. \A t \in Sales : takings'[t] = Expected(t) /\ takings[t] \in Nat
    BY <1>1, <2>1, <2>5 DEF Entered, SaleInv, CounterInv, SaleTypeOK
  <2>8. \A t \in Sales : takings'[t] + CashDue(q, t) = Expected(t)'
    BY <1>1, <2>5, <2>6, <2>7
  <2>9. "online" \notin Payments => collected' + SettledDue(q) = Total(PaidOn, Sales)'
    BY <1>1, <2>1, <2>4, <2>5 DEF Entered
  <2>10. Entered(q)'
    BY <2>8, <2>9 DEF Entered, CashDue, SettledDue
  <2>11. Remembered(q)'
    <3>1. CASE r.method = "credit"
      BY <1>1, <1>5, <2>1, <2>2, <2>3, <3>1 DEF Remembered, Checked
    <3>2. CASE r.method # "credit"
      BY <1>1, <2>1, <2>3, <3>2 DEF Remembered
    <3> QED BY <3>1, <3>2
  <2>12. Checked(q, sums[c])'
    <3>1. CASE q.at = "idle"
      BY <1>3, <1>4, <3>1, Resting DEF Checked, CreditStages
    <3>2. CASE q.at # "idle"
      BY <1>4, <1>5, <3>2 DEF Checked, CreditStages
    <3> QED BY <3>1, <3>2
  <2>13. q.at = "idle" => Promised(AtRest, 0)'
    BY <2>10, <2>11, EndPromised
  <2> QED BY <2>1, <2>10, <2>11, <2>12, <2>13 DEF Promised
<1>10. Continues(c, q)
  BY <1>2, <1>3
<1> QED BY <1>1, <1>8, <1>9, <1>10, TurnGoes

(* A settlement pays what is still owed, each sale it covers.              *)
LEMMA SettledRows ==
  ASSUME SaleInv, NEW c \in Tellers, SettlementIsWritten(c), NEW s \in Sales
  PROVE  LET n == serving[c].items[s] IN
         /\ n \in Nat
         /\ n = 0 => sold'[s] = sold[s]
         /\ n > 0 => /\ Book!OnCredit(s) /\ sold'[s].at \in {"credit", "completed"}
                     /\ sold[s].paid + n <= Worth[sold[s].basket]
         /\ sold'[s].paid = sold[s].paid + n
         /\ sold'[s].method = sold[s].method /\ sold'[s].basket = sold[s].basket
<1> DEFINE r == serving[c]
           n == r.items[s]
<1>0. Book!BookInv
  BY DEF SaleInv, CounterInv
<1>1. /\ r \in Requests /\ r.op = "settle" /\ r.at = "lines" /\ r.todo = {} /\ n \in Nat
      /\ \A t \in RowLocks(r) : /\ Book!OnCredit(t)
                                /\ sold[t].paid + r.items[t] <= Worth[sold[t].basket]
  BY RequestOf DEF SettlementIsWritten, Doing, Requests, Amounts
<1>2. sold'[s] = Book!Settled(s, n) /\ sold[s].paid \in Nat
  BY <1>0, RowsHaveDebts DEF SettlementIsWritten
<1>3. CASE n = 0
  BY <1>1, <1>2, <1>3 DEF Book!Settled
<1>4. CASE n > 0
  <2>1. s \in RowLocks(r)
    BY <1>1, <1>4, LocksOf DEF Covered
  <2>2. Book!OnCredit(s) /\ sold[s].paid + n <= Worth[sold[s].basket]
    BY <1>1, <2>1
  <2>3. sold[s] \in SaleRows
    BY <1>0, <2>2, RowsHaveDebts DEF Book!Blank, Book!OnCredit
  <2> DEFINE row == [sold[s] EXCEPT !.paid = sold[s].paid + n,
                       !.at = IF sold[s].paid + n >= Worth[sold[s].basket]
                              THEN "completed" ELSE "credit"]
  <2>4. sold'[s] = row
    <3>1. n # 0
      BY <1>1, <1>4
    <3>2. Book!Settled(s, n) = row
      BY <3>1, Zenon DEF Book!Settled
    <3> QED BY <1>2, <3>2
  <2>5. /\ row.paid = sold[s].paid + n /\ row.at \in {"credit", "completed"}
        /\ row.method = sold[s].method /\ row.basket = sold[s].basket
    BY <2>3, SMT DEF SaleRows
  <2> HIDE DEF row
  <2> QED BY <1>1, <1>4, <2>2, <2>4, <2>5
<1> QED BY <1>1, <1>3, <1>4

LEMMA SettlementIsWrittenInTurn ==
  ASSUME SaleInv, SaleInv', TurnInv, NEW c \in Tellers, SettlementIsWritten(c)
  PROVE  TurnInv'
<1> DEFINE r == serving[c]
<1>1. /\ r \in Requests /\ Asked(r) /\ r.op = "settle" /\ r.at = "lines" /\ Busy(c)
      /\ MoneyTyped' /\ Moves(c, "forget")
      /\ UNCHANGED <<takings, collected, ceiling, cache, sums, strained>>
  BY RequestInTurn DEF SettlementIsWritten, Doing, Busy, MoneyTyped, cashVars, creditVars
<1>2. PICK q, items : q = [r EXCEPT !.at = "forget"] /\ items = r.items
  OBVIOUS
<1>3. /\ q.at = "forget" /\ q.op = "settle" /\ q.method = r.method /\ q.items = items
      /\ Continues(c, q)
  BY <1>1, <1>2, Stepping DEF Moves, Steps
<1>4. \A s \in Sales :
        /\ items[s] \in Nat
        /\ items[s] = 0 => sold'[s] = sold[s]
        /\ items[s] > 0 =>
             /\ Book!OnCredit(s) /\ sold'[s].at \in {"credit", "completed"}
             /\ sold[s].paid + items[s] <= Worth[sold[s].basket]
        /\ sold'[s].paid = sold[s].paid + items[s]
        /\ sold'[s].method = sold[s].method /\ sold'[s].basket = sold[s].basket
  BY <1>2, SettledRows
<1>6. Asked(q)
  BY <1>1, <1>3 DEF Asked
<1>7. ASSUME ~strained
      PROVE  Promised(q, sums[c])' /\ \A d \in Tellers \ {c} : ~Busy(d)
  <2>1. /\ Entered(r) /\ Remembered(r) /\ \A d \in Tellers \ {c} : ~Busy(d)
    BY <1>1, <1>7, RequestInTurn, TheOneInTurn
  <2>2. Owed' <= Owed /\ Owed \in Nat /\ Owed' \in Nat
    <3>1. ASSUME NEW s \in Sales
          PROVE  Debt(s)' <= Debt(s)
      <4>1. /\ sold[s].paid \in Nat /\ Debt(s) \in Nat
            /\ sold[s] # Book!Blank => Worth[sold[s].basket] \in Nat
        BY RowsHaveDebts DEF SaleInv, CounterInv
      <4>2. CASE items[s] = 0
        BY <1>4, <4>1, <4>2 DEF Debt, Book!OnCredit
      <4>3. CASE items[s] > 0
        <5>1. Worth[sold[s].basket] \in Nat
          BY <1>4, <4>1, <4>3 DEF Book!Blank, Book!OnCredit
        <5> QED BY <1>4, <4>1, <4>3, <5>1 DEF Debt, Book!OnCredit
      <4> QED BY <1>4, <4>2, <4>3
    <3> QED BY <3>1, OwedLess
  <2>3. Total(PaidOn, Sales)' = Total(PaidOn, Sales) + Total(items, Sales)
    BY <1>4, PaidMore
  <2>4. /\ \A s \in Sales : CashDue(r, s) = 0 /\ CashDue(q, s) = 0
        /\ SettledDue(r) = 0 /\ SettledDue(q) = Total(items, Sales)
    BY <1>1, <1>3 DEF CashDue, SettledDue
  <2>5. \A s \in Sales : Expected(s)' = Expected(s)
    <3>1. ASSUME NEW s \in Sales
          PROVE  Expected(s)' = Expected(s)
      <4>1. CASE items[s] = 0
        BY <1>4, <4>1 DEF Expected
      <4>2. CASE items[s] > 0
        <5>1. sold[s].method = "credit" /\ sold'[s].method = "credit"
          BY <1>4, <4>2 DEF Book!OnCredit
        <5> QED BY <5>1 DEF Expected
      <4> QED BY <1>4, <4>1, <4>2
    <3> QED BY <3>1
  <2>6. \A s \in Sales : takings'[s] + CashDue(q, s) = Expected(s)'
    BY <1>1, <2>1, <2>4, <2>5 DEF Entered
  <2>7. "online" \notin Payments => collected' + SettledDue(q) = Total(PaidOn, Sales)'
    <3>1. collected \in Nat
      BY RequestInTurn DEF MoneyTyped
    <3> QED BY <1>1, <2>1, <2>3, <2>4, <3>1 DEF Entered
  <2>8. Entered(q)'
    BY <2>6, <2>7 DEF Entered, CashDue, SettledDue
  <2>9. Remembered(q)'
    <3>1. ceiling \in Nat
      BY DEF SaleInv, CounterInv, SaleTypeOK
    <3> QED BY <1>1, <1>3, <2>1, <2>2, <3>1 DEF Remembered
  <2>10. Checked(q, sums[c])'
    BY <1>3 DEF Checked
  <2> QED BY <2>1, <2>8, <2>9, <2>10 DEF Promised
<1> QED BY <1>1, <1>3, <1>6, <1>7, TurnGoes

(* Staff overrules a sale: what was owed for it is not owed any more.      *)
LEMMA OverrulesInTurn ==
  ASSUME SaleInv, SaleInv', TurnInv, NEW c \in Tellers, Overrules(c)
  PROVE  TurnInv'
<1> DEFINE r == serving[c]
           step == IF r.was # "completed" /\ r.status = "completed"
                   THEN AfterCommit(r) ELSE "idle"
<1>1. /\ r \in Requests /\ Asked(r) /\ r.op = "overrule" /\ r.at = "write" /\ Busy(c)
      /\ r.sale \in Sales /\ r.status \in Book!Statuses
      /\ sold[r.sale] # Book!Blank /\ MoneyTyped'
      /\ UNCHANGED <<takings, collected, ceiling, cache, sums>>
  BY RequestInTurn, RequestOf, CounterAssumption DEF Overrules, Doing, Busy, MoneyTyped,
     cashVars, creditVars, Shaped, IsAboutGoods, Asked
<1>2. PICK q, s : q = (IF step = "idle" THEN AtRest ELSE [r EXCEPT !.at = step]) /\ s = r.sale
  OBVIOUS
<1>3. /\ Moves(c, step)
      /\ sold' = [sold EXCEPT ![s] = [sold[s] EXCEPT !.at = r.status]]
      /\ strained' = (strained \/ (r.status # "completed" /\
                                  (r.was = "completed" \/ r.method = "credit")))
  BY <1>2 DEF Overrules
<1>4. Continues(c, q)
  BY <1>2, <1>3 DEF Moves
<1>5. step \in {"idle", "forget", "cash"} /\ step \in Steps
  BY <1>1 DEF AfterCommit, LastOf, Steps
<1>6. /\ step = "forget" <=> /\ r.was # "completed" /\ r.status = "completed"
                             /\ r.method = "credit"
      /\ step = "cash" <=> /\ r.was # "completed" /\ r.status = "completed"
                           /\ r.method = "cash"
  BY <1>1 DEF AfterCommit, LastOf
<1> HIDE DEF step
<1>7. /\ q.at = step
      /\ q.at # "idle" => /\ q.op = "overrule" /\ q.method = r.method
                          /\ q.status = r.status /\ q.sale = s
      /\ q.at = "idle" => q = AtRest
  BY <1>1, <1>2, <1>5, Stepping, RestIsAsked
<1>8. sold[s] \in SaleRows /\ Worth[sold[s].basket] \in Nat /\ s \in Sales
  BY <1>1, <1>2, RowsHaveDebts DEF SaleInv, CounterInv
<1>9. /\ sold'[s].at = r.status /\ sold'[s].method = sold[s].method
      /\ sold'[s].basket = sold[s].basket /\ sold'[s].paid = sold[s].paid
      /\ \A t \in Sales \ {s} : sold'[t] = sold[t]
  BY <1>3, <1>8 DEF SaleRows, SaleInv, CounterInv, Book!BookInv
<1>11. Asked(q)
  BY <1>1, <1>7, RestIsAsked DEF Asked
<1>12. ASSUME ~strained'
       PROVE  Promised(q, sums[c])' /\ (q.at = "idle" => Promised(AtRest, 0)')
              /\ \A d \in Tellers \ {c} : ~Busy(d)
  <2>0. /\ ~strained
        /\ r.status = "completed" \/ (r.was # "completed" /\ r.method # "credit")
    BY <1>3, <1>12, Zenon
  <2>1. /\ Checked(r, sums[c]) /\ Entered(r) /\ Remembered(r)
        /\ \A d \in Tellers \ {c} : ~Busy(d)
    BY <1>1, <2>0, RequestInTurn, TheOneInTurn
  <2>2. r.was = sold[s].at /\ r.method = sold[s].method
    BY <1>1, <1>2, <2>1 DEF Checked
  <2>3. /\ Debt(s)' = 0 /\ Debt(s) \in Nat
        /\ ~Book!OnCredit(s) => Debt(s) = 0
        /\ \A t \in Sales \ {s} : Debt(t)' = Debt(t) /\ Debt(t) \in Nat
    BY <1>8, <1>9, <2>0, <2>2, RowsHaveDebts DEF SaleInv, CounterInv, Debt, Book!OnCredit
  <2>4. Owed' <= Owed /\ Owed \in Nat /\ Owed' \in Nat
    <3>1. \A t \in Sales : Debt(t)' <= Debt(t)
      BY <2>3
    <3> QED BY <3>1, OwedLess
  <2>5. q.at # "forget" => Owed' = Owed
    <3> SUFFICES ASSUME q.at # "forget" PROVE Owed' = Owed
      OBVIOUS
    <3>1. ~Book!OnCredit(s)
      BY <1>6, <1>7, <2>0, <2>2 DEF Book!OnCredit
    <3>2. \A t \in Sales : Debt(t)' = Debt(t)
      BY <2>3, <3>1
    <3> QED BY <3>2, OwedSame
  <2>6. Total(PaidOn, Sales)' = Total(PaidOn, Sales)
    BY <1>9, PaidSame
  <2>7. /\ \A t \in Sales : CashDue(r, t) = 0
        /\ \A t \in Sales : CashDue(q, t) = IF q.at = "cash" /\ t = s THEN 1 ELSE 0
        /\ SettledDue(r) = 0 /\ SettledDue(q) = 0
    BY <1>1, <1>7 DEF CashDue, SettledDue
  <2>8. /\ Expected(s)' = Expected(s) + (IF q.at = "cash" THEN 1 ELSE 0)
        /\ Expected(s) \in Nat
        /\ \A t \in Sales \ {s} : Expected(t)' = Expected(t)
    <3>1. Expected(s)' = Expected(s) + (IF q.at = "cash" THEN 1 ELSE 0)
      BY <1>1, <1>6, <1>7, <1>9, <2>0, <2>2 DEF Expected
    <3> QED BY <1>9, <3>1 DEF Expected
  <2>9. \A t \in Sales : takings'[t] = Expected(t)
    <3>1. \A t \in Sales : takings[t] \in Nat
      BY DEF SaleInv, CounterInv, SaleTypeOK
    <3> QED BY <1>1, <2>1, <2>7, <3>1 DEF Entered
  <2>10. \A t \in Sales : takings'[t] + CashDue(q, t) = Expected(t)'
    <3>1. \A t \in Sales : Expected(t) \in Nat
      BY DEF Expected
    <3> QED BY <1>8, <2>7, <2>8, <2>9, <3>1
  <2>11. "online" \notin Payments => collected' + SettledDue(q) = Total(PaidOn, Sales)'
    BY <1>1, <2>1, <2>6, <2>7 DEF Entered
  <2>12. Entered(q)'
    BY <2>10, <2>11 DEF Entered, CashDue, SettledDue
  <2>13. Remembered(q)'
    <3>1. ceiling \in Nat
      BY DEF SaleInv, CounterInv, SaleTypeOK
    <3> QED BY <1>1, <2>1, <2>4, <2>5, <3>1 DEF Remembered
  <2>14. Checked(q, sums[c])'
    BY <1>5, <1>7, Resting DEF Checked, CreditStages
  <2>15. q.at = "idle" => Promised(AtRest, 0)'
    BY <2>12, <2>13, EndPromised
  <2> QED BY <2>1, <2>12, <2>13, <2>14, <2>15 DEF Promised
<1> QED BY <1>1, <1>4, <1>11, <1>12, TurnGoes

(* A limit below what is owed is not of a counter in turn.                 *)
LEMMA SetsLimitInTurn ==
  ASSUME SaleInv, SaleInv', TurnInv, NEW c \in Tellers, SetsLimit(c)
  PROVE  TurnInv'
<1> DEFINE r == serving[c]
<1>1. /\ r \in Requests /\ Asked(r) /\ r.op = "limit" /\ r.at = "write" /\ Busy(c)
      /\ MoneyTyped' /\ Moves(c, "forget") /\ strained' = (strained \/ Owed > ceiling')
      /\ UNCHANGED <<sold, takings, collected, cache, sums>>
  BY RequestInTurn DEF SetsLimit, Doing, Busy, MoneyTyped, bookVars, cashVars
<1>2. PICK q : q = [r EXCEPT !.at = "forget"]
  OBVIOUS
<1>3. q.at = "forget" /\ q.op = "limit" /\ Continues(c, q)
  BY <1>1, <1>2, Stepping DEF Moves, Steps
<1>4. Asked(q)
  BY <1>1, <1>3 DEF Asked
<1>5. ASSUME ~strained'
      PROVE  Promised(q, sums[c])' /\ \A d \in Tellers \ {c} : ~Busy(d)
  <2>1. Entered(r) /\ \A d \in Tellers \ {c} : ~Busy(d)
    BY <1>1, <1>5, RequestInTurn, TheOneInTurn
  <2>2. /\ \A s \in Sales : CashDue(q, s) = CashDue(r, s)
        /\ SettledDue(q) = SettledDue(r)
    BY <1>1, <1>3 DEF CashDue, SettledDue
  <2>3. Entered(q)'
    BY <1>1, <2>1, <2>2, StillEntered
  <2>4. Remembered(q)'
    <3>1. Owed' = Owed /\ Owed \in Nat
      BY <1>1, OwedStays
    <3>2. ceiling' \in Nat /\ ~(Owed > ceiling')
      BY <1>1, <1>5 DEF SaleInv, CounterInv, SaleTypeOK
    <3> QED BY <1>3, <3>1, <3>2 DEF Remembered
  <2>5. Checked(q, sums[c])'
    BY <1>3 DEF Checked
  <2> QED BY <2>1, <2>3, <2>4, <2>5 DEF Promised
<1> QED BY <1>1, <1>3, <1>4, <1>5, TurnGoes

(***************************************************************************)
(* After the commit, in turn                                               *)
(***************************************************************************)
LEMMA EmptiesCacheInTurn ==
  ASSUME SaleInv, SaleInv', TurnInv, NEW c \in Tellers, EmptiesCache(c)
  PROVE  TurnInv'
<1> DEFINE r == serving[c]
           step == AfterForgetting(r)
<1>1. /\ r \in Requests /\ Asked(r) /\ r.at = "forget" /\ Busy(c)
      /\ r.op \in {"sell", "overrule", "settle", "limit"}
      /\ cache' = Unsaid /\ MoneyTyped' /\ Moves(c, step)
      /\ UNCHANGED <<sold, takings, collected, ceiling, sums, strained>>
  BY RequestInTurn DEF EmptiesCache, Busy, MoneyTyped, NoOr, bookVars, cashVars, Shaped,
     IsCommitted
<1>2. PICK q : q = IF step = "idle" THEN AtRest ELSE [r EXCEPT !.at = step]
  OBVIOUS
<1>3. /\ step \in {"mark", "cash", "idle", "limit"} /\ step \in Steps
      /\ step = "cash" <=> r.op = "settle" /\ r.method = "cash"
      /\ step = "mark" => r.op = "sell"
      /\ step = "limit" => r.op = "limit"
  BY <1>1 DEF AfterForgetting, LastOf, Steps
<1> HIDE DEF step
<1>4. /\ q.at = step /\ Continues(c, q)
      /\ q.at # "idle" => /\ q.op = r.op /\ q.method = r.method /\ q.status = r.status
                          /\ q.items = r.items
      /\ q.at = "idle" => q = AtRest
  BY <1>1, <1>2, <1>3, Stepping, RestIsAsked DEF Moves
<1>6. Asked(q)
  BY <1>1, <1>3, <1>4, RestIsAsked DEF Asked, CreditStages
<1>7. ASSUME ~strained
      PROVE  Promised(q, sums[c])' /\ (q.at = "idle" => Promised(AtRest, 0)')
             /\ \A d \in Tellers \ {c} : ~Busy(d)
  <2>1. Entered(r) /\ Remembered(r) /\ \A d \in Tellers \ {c} : ~Busy(d)
    BY <1>1, <1>7, RequestInTurn, TheOneInTurn
  <2>2. Owed' = Owed
    BY <1>1, OwedStays
  <2>3. \A s \in Sales : CashDue(q, s) = CashDue(r, s)
    BY <1>1, <1>3, <1>4 DEF CashDue
  <2>4. ASSUME "online" \notin Payments
        PROVE  SettledDue(q) = SettledDue(r)
    <3>1. r.op = "settle" => r.method = "cash"
      BY <1>1, <2>4, CounterAssumption DEF Asked
    <3> QED BY <1>1, <1>3, <1>4, <3>1 DEF SettledDue
  <2>5. Entered(q)'
    BY <1>1, <2>1, <2>3, <2>4, StillEntered
  <2>6. Remembered(q)'
    BY <1>1, <2>1, <2>2 DEF Remembered
  <2>7. Checked(q, sums[c])'
    BY <1>3, <1>4, Resting DEF Checked, CreditStages
  <2>8. q.at = "idle" => Promised(AtRest, 0)'
    BY <2>5, <2>6, EndPromised
  <2> QED BY <2>1, <2>5, <2>6, <2>7, <2>8 DEF Promised
<1> QED BY <1>1, <1>4, <1>6, <1>7, TurnGoes

(* What a settlement enters is all it was about.                           *)
LEMMA ItemsAddUp ==
  ASSUME NEW c, \A s \in Sales : serving[c].items[s] \in Nat
  PROVE  LET r == serving[c] IN
         MapThenSumSet(LAMBDA s : r.items[s], Sales) = Total(serving[c].items, Sales)
<1> SUFFICES MapThenSumSet(LAMBDA s : serving[c].items[s], Sales)
               = Total(serving[c].items, Sales)
  OBVIOUS
<1> QED BY CounterAssumption, SumIsTotal

LEMMA TakesCashInTurn ==
  ASSUME SaleInv, SaleInv', TurnInv, NEW c \in Tellers, TakesCash(c)
  PROVE  TurnInv'
<1> DEFINE r == serving[c]
           step == LastOf(r)
<1>1. /\ r \in Requests /\ Asked(r) /\ r.at = "cash" /\ Busy(c)
      /\ r.op \in {"sell", "overrule", "settle"}
      /\ r.op # "settle" => r.sale \in Sales
      /\ \A s \in Sales : r.items[s] \in Nat
      /\ Moves(c, step)
      /\ UNCHANGED <<sold, ceiling, cache, sums, strained>>
  BY RequestInTurn DEF TakesCash, Busy, bookVars, creditVars, Shaped, IsCommitted, Requests,
     Amounts
<1>2. /\ r.op = "settle" => /\ collected' = collected + Total(r.items, Sales)
                            /\ takings' = takings
      /\ r.op # "settle" => /\ takings' = [takings EXCEPT ![r.sale] = @ + 1]
                            /\ collected' = collected
  BY <1>1, ItemsAddUp DEF TakesCash
<1>3. PICK q : q = IF step = "idle" THEN AtRest ELSE [r EXCEPT !.at = step]
  OBVIOUS
<1>4. step \in {"mark", "idle"} /\ step \in Steps /\ (step = "mark" => r.op = "sell")
  BY DEF LastOf, Steps
<1> HIDE DEF step
<1>5. /\ q.at = step /\ Continues(c, q)
      /\ q.at # "idle" => q.op = r.op /\ q.method = r.method /\ q.status = r.status
      /\ q.at = "idle" => q = AtRest
  BY <1>1, <1>3, <1>4, Stepping, RestIsAsked DEF Moves
<1>7. Asked(q)
  BY <1>1, <1>4, <1>5, RestIsAsked DEF Asked, CreditStages
<1>8. MoneyTyped'
  <2>1. Total(r.items, Sales) \in Nat
    BY <1>1, CounterAssumption, UnitsFinite
  <2> QED BY <1>1, <1>2, <2>1, RequestInTurn DEF MoneyTyped
<1>9. ASSUME ~strained
      PROVE  Promised(q, sums[c])' /\ (q.at = "idle" => Promised(AtRest, 0)')
             /\ \A d \in Tellers \ {c} : ~Busy(d)
  <2>1. Entered(r) /\ Remembered(r) /\ \A d \in Tellers \ {c} : ~Busy(d)
    BY <1>1, <1>9, RequestInTurn, TheOneInTurn
  <2>2. Owed' = Owed
    BY <1>1, OwedStays
  <2>3. \A s \in Sales : takings[s] \in Nat /\ Expected(s)' = Expected(s)
    BY <1>1 DEF SaleInv, CounterInv, SaleTypeOK, Expected
  <2>4. /\ \A s \in Sales : CashDue(q, s) = 0
        /\ \A s \in Sales : CashDue(r, s) = IF r.op # "settle" /\ r.sale = s THEN 1 ELSE 0
        /\ SettledDue(q) = 0
        /\ SettledDue(r) = IF r.op = "settle" THEN Total(r.items, Sales) ELSE 0
    BY <1>1, <1>4, <1>5 DEF CashDue, SettledDue
  <2>5. \A s \in Sales : takings'[s] + CashDue(q, s) = Expected(s)'
    <3>1. DOMAIN takings = Sales
      BY DEF SaleInv, CounterInv, SaleTypeOK
    <3>2. \A s \in Sales : takings'[s] = takings[s] + CashDue(r, s)
      BY <1>1, <1>2, <2>3, <2>4, <3>1
    <3> QED BY <2>1, <2>3, <2>4, <3>2 DEF Entered
  <2>6. "online" \notin Payments => collected' + SettledDue(q) = Total(PaidOn, Sales)'
    <3>1. Total(PaidOn, Sales)' = Total(PaidOn, Sales)
      BY <1>1, PaidSame
    <3>2. collected' = collected + SettledDue(r) /\ collected' \in Nat
      BY <1>2, <1>8, <2>4, RequestInTurn DEF MoneyTyped
    <3> QED BY <2>1, <2>4, <3>1, <3>2 DEF Entered
  <2>7. Entered(q)'
    BY <2>5, <2>6 DEF Entered, CashDue, SettledDue
  <2>8. Remembered(q)'
    BY <1>1, <2>1, <2>2 DEF Remembered
  <2>9. Checked(q, sums[c])'
    BY <1>4, <1>5, Resting DEF Checked, CreditStages
  <2>10. q.at = "idle" => Promised(AtRest, 0)'
    BY <2>7, <2>8, EndPromised
  <2> QED BY <2>1, <2>7, <2>8, <2>9, <2>10 DEF Promised
<1> QED BY <1>1, <1>5, <1>7, <1>8, <1>9, TurnGoes

(* From here on the requests are not in turn any more. *)
LEMMA StrainedGoesOn ==
  ASSUME SaleInv, TurnInv, NEW c \in Tellers, NEW q, Continues(c, q), Asked(q),
         sold' = sold, MoneyTyped', strained'
  PROVE  TurnInv'
  BY TurnGoes

LEMMA FailuresStrain ==
  ASSUME SaleInv, TurnInv, NEW c \in Tellers,
         FailsToForget(c) \/ FindsTillClosed(c) \/ Drops(c)
  PROVE  TurnInv'
<1> DEFINE r == serving[c]
<1>1. /\ r \in Requests /\ Asked(r) /\ sold' = sold /\ strained' /\ MoneyTyped'
  BY RequestInTurn DEF FailsToForget, FindsTillClosed, Drops, MoneyTyped, bookVars,
     cashVars, creditVars
<1>2. CASE Dismiss(c)
  BY <1>1, <1>2, RestIsAsked, StrainedGoesOn DEF Dismiss
<1>3. CASE Moves(c, "mark")
  <2>1. PICK q : q = [r EXCEPT !.at = "mark"]
    OBVIOUS
  <2>2. /\ Continues(c, q) /\ q.at = "mark" /\ q.op = r.op /\ q.method = r.method
        /\ q.status = r.status
    BY <1>1, <1>3, <2>1, Stepping DEF Moves, Steps
  <2>3. Asked(q)
    BY <1>1, <2>2 DEF Asked, CreditStages
  <2> QED BY <1>1, <2>2, <2>3, StrainedGoesOn
<1>4. Dismiss(c) \/ Moves(c, "mark")
  BY DEF FailsToForget, FindsTillClosed, Drops, Moves, Dismiss, LastOf
<1> QED BY <1>2, <1>3, <1>4

LEMMA MarksInTurn ==
  ASSUME SaleInv, SaleInv', TurnInv, NEW c \in Tellers, MarksFulfilled(c)
  PROVE  TurnInv'
<1>1. /\ serving[c].at = "mark" /\ Busy(c) /\ Dismiss(c) /\ MoneyTyped'
      /\ UNCHANGED <<sold, takings, collected, ceiling, cache, strained>>
  BY RequestInTurn DEF MarksFulfilled, Busy, MoneyTyped, bookVars, cashVars, creditVars
<1> QED BY <1>1, EndsInTurn

(* Nobody waits for anybody while requests are in turn; elsewhere one of   *)
(* those who wait in a circle is turned away.                              *)
LEMMA DeadlockInTurn ==
  ASSUME SaleInv, SaleInv', TurnInv, NEW c \in Tellers, BreaksDeadlock(c)
  PROVE  TurnInv'
<1>1. PICK d \in Tellers : WaitsFor(c, d)
  BY DEF BreaksDeadlock, Deadlocked, Knot
<1>2. c # d /\ serving[c].at = "wait" /\ Locks(serving[d]) # {}
  BY <1>1 DEF WaitsFor, Holds
<1>3. Busy(c)
  BY <1>2 DEF Busy
<1>4. /\ MoneyTyped' /\ Dismiss(c)
      /\ UNCHANGED <<sold, takings, collected, ceiling, cache, strained>>
  BY RequestInTurn DEF BreaksDeadlock, MoneyTyped, bookVars, cashVars, creditVars
<1> QED BY <1>2, <1>3, <1>4, EndsInTurn

LEMMA AroundInTurn ==
  ASSUME SaleInv, SaleInv', TurnInv, AroundTheCounter \/ UNCHANGED saleVars
  PROVE  TurnInv'
<1>1. /\ UNCHANGED <<sold, takings, collected, ceiling, sums, serving, strained>>
      /\ cache' \in {cache, Unsaid}
  BY DEF AroundTheCounter, PlaceOrder, ChangeOrder, GoodsLeave, GoodsArrive, SumExpires,
     TillChanges, saleVars, bookVars, cashVars, creditVars
<1>2. MoneyTyped' /\ WellAsked'
  BY <1>1 DEF TurnInv, MoneyTyped, NoOr, WellAsked, Asked, CreditStages
<1>3. Owed' = Owed
  BY <1>1, OwedStays
<1>4. ASSUME NEW q, NEW n, Promised(q, n)
      PROVE  Promised(q, n)'
  <2>1. Entered(q)'
    BY <1>1, <1>4, StillEntered DEF Promised
  <2>2. Remembered(q)' /\ Checked(q, n)'
    BY <1>1, <1>3, <1>4 DEF Promised, Remembered, Checked, CreditStages
  <2> QED BY <2>1, <2>2 DEF Promised
<1>5. ASSUME ~strained
      PROVE  InTurn'
  <2>1. InTurn
    BY <1>5 DEF TurnInv
  <2>2. \A c, d \in Tellers : Busy(c)' /\ Busy(d)' => c = d
    BY <1>1, <2>1 DEF InTurn, Busy
  <2>3. ASSUME NEW c \in Tellers, Busy(c)'
        PROVE  Promised(serving[c], sums[c])'
    <3>1. PICK q, n : q = serving[c] /\ n = sums[c]
      OBVIOUS
    <3>2. Promised(q, n)
      BY <1>1, <2>1, <2>3, <3>1 DEF InTurn, Busy
    <3>3. Promised(q, n)'
      BY <1>4, <3>2
    <3> QED BY <1>1, <3>1, <3>3
  <2>4. (\A c \in Tellers : ~Busy(c)') => Promised(AtRest, 0)'
    BY <1>1, <1>4, <2>1 DEF InTurn, Busy
  <2> QED BY <2>2, <2>3, <2>4 DEF InTurn
<1> QED BY <1>1, <1>2, <1>5 DEF TurnInv

LEMMA EveryStepInTurn ==
  ASSUME SaleInv, TurnInv, [SaleNext]_saleVars
  PROVE  TurnInv'
<1>0. SaleInv'
  BY EveryStep DEF Step
<1>1. ASSUME NEW c \in Tellers, AsksFor(c) \/ GoesOn(c) \/ Drops(c) \/ BreaksDeadlock(c)
      PROVE  TurnInv'
  <2>1. CASE AsksFor(c)
    BY <1>0, <2>1, AsksInTurn
  <2>2. CASE SaleStep(c)
    BY <1>0, <2>2, TakesInTurn, LocksProductInTurn, DeductsInTurn, SaleIsWrittenInTurn,
       MarksInTurn DEF SaleStep
  <2>3. CASE CreditStep(c)
    BY <1>0, <2>3, ReadsLimitInTurn, ReadsCacheInTurn, SumsUpInTurn, StoresSumInTurn,
       DecidesInTurn, LocksSaleInTurn, SettlementIsWrittenInTurn, OverrulesInTurn,
       SetsLimitInTurn DEF CreditStep
  <2>4. CASE CommittedStep(c)
    BY <1>0, <2>4, EmptiesCacheInTurn, TakesCashInTurn, FailuresStrain DEF CommittedStep
  <2>5. CASE Drops(c) \/ BreaksDeadlock(c)
    BY <1>0, <2>5, FailuresStrain, DeadlockInTurn
  <2> QED BY <1>1, <2>1, <2>2, <2>3, <2>4, <2>5 DEF GoesOn
<1> QED BY <1>0, <1>1, AroundInTurn DEF SaleNext

LEMMA TurnsBegin ==
  ASSUME SaleInit
  PROVE  TurnInv
<1>1. /\ SaleInv /\ serving = [c \in Tellers |-> AtRest] /\ Book!Init
      /\ takings = [s \in Sales |-> 0] /\ collected = 0
      /\ Owed <= ceiling /\ cache = Unsaid /\ sums = [c \in Tellers |-> 0]
      /\ strained = FALSE
  BY InTheBeginning DEF SaleInit
<1>2. \A s \in Sales : sold[s].method # "cash" /\ sold[s].paid = 0
  <2>1. ASSUME NEW s \in Sales
        PROVE  sold[s].method # "cash" /\ sold[s].paid = 0
    <3>1. sold[s] = Book!Blank \/ \E b \in Baskets : sold[s] = Book!Written("credit", "credit", b)
      BY <1>1 DEF Book!Init
    <3>2. CASE sold[s] = Book!Blank
      BY <3>2 DEF Book!Blank
    <3>3. ASSUME NEW b \in Baskets, sold[s] = Book!Written("credit", "credit", b)
          PROVE  sold[s].method = "credit" /\ sold[s].paid = 0
      BY <3>3 DEF Book!Written
    <3> QED BY <3>1, <3>2, <3>3
  <2> QED BY <2>1
<1>3. MoneyTyped
  BY <1>1 DEF MoneyTyped, NoOr
<1>4. (\A c \in Tellers : serving[c] = AtRest) /\ WellAsked
  BY <1>1, RestIsAsked DEF WellAsked
<1>5. Entered(AtRest)
  <2>1. /\ \A s \in Sales : CashDue(AtRest, s) = 0
        /\ SettledDue(AtRest) = 0
    BY RestInTurn, RestIsAsked
  <2>2. Total(PaidOn, Sales) = 0
    BY <1>2, TotalZero DEF PaidOn
  <2>3. \A s \in Sales : Expected(s) = 0
    BY <1>2 DEF Expected
  <2> QED BY <1>1, <2>1, <2>2, <2>3 DEF Entered
<1>6. Remembered(AtRest) /\ Checked(AtRest, 0)
  BY <1>1, RestIsAsked, Resting DEF Remembered, Checked, CreditStages
<1>7. InTurn
  BY <1>4, <1>5, <1>6, RestIsAsked DEF InTurn, Busy, Promised
<1> QED BY <1>3, <1>4, <1>7 DEF TurnInv

LEMMA WhatTurnsGive ==
  SaleInv /\ TurnInv => LimitKeptInTurn /\ CashCountedInTurn
<1> SUFFICES ASSUME SaleInv, TurnInv, ~strained
             PROVE  /\ Owed <= ceiling
                    /\ (\A c \in Tellers : serving[c].at = "idle") =>
                         /\ cache \in {Unsaid, Owed}
                         /\ \A s \in Sales : takings[s] = Expected(s)
                         /\ "online" \notin Payments =>
                              collected = MapThenSumSet(LAMBDA s : sold[s].paid, Sales)
  BY DEF LimitKeptInTurn, CashCountedInTurn, Expected
<1>1. InTurn
  BY DEF TurnInv
<1>2. (\A c \in Tellers : ~Busy(c)) \/ \E c \in Tellers : Busy(c)
  OBVIOUS
<1>3. Owed <= ceiling
  BY <1>1, <1>2 DEF InTurn, Promised, Remembered
<1>4. ASSUME \A c \in Tellers : serving[c].at = "idle"
      PROVE  /\ cache \in {Unsaid, Owed}
             /\ \A s \in Sales : takings[s] = Expected(s)
             /\ "online" \notin Payments =>
                  collected = MapThenSumSet(LAMBDA s : sold[s].paid, Sales)
  <2>1. Promised(AtRest, 0)
    BY <1>1, <1>4 DEF InTurn, Busy
  <2>2. /\ \A s \in Sales : CashDue(AtRest, s) = 0
        /\ SettledDue(AtRest) = 0
    BY RestInTurn, RestIsAsked
  <2>3. cache \in {Unsaid, Owed}
    BY <2>1, RestIsAsked DEF Promised, Remembered
  <2>4. \A s \in Sales : takings[s] = Expected(s)
    <3>1. \A s \in Sales : takings[s] \in Nat
      BY DEF SaleInv, CounterInv, SaleTypeOK
    <3> QED BY <2>1, <2>2, <3>1 DEF Promised, Entered
  <2>5. "online" \notin Payments => collected = Total(PaidOn, Sales)
    <3>1. collected \in Nat
      BY DEF TurnInv, MoneyTyped
    <3> QED BY <2>1, <2>2, <3>1 DEF Promised, Entered
  <2>6. PaidIsTotal
    BY PaidTotal DEF SaleInv, CounterInv
  <2> QED BY <2>3, <2>4, <2>5, <2>6 DEF PaidIsTotal
<1> QED BY <1>3, <1>4

(***************************************************************************)
(* Theorems                                                                *)
(***************************************************************************)
(* The invariant all else rests on: what a request at any of its steps is  *)
(* about, holds and carries (TransactionService::create, CreditRepo).      *)
THEOREM RequestsAreSound == SaleSpec => []SaleInv
<1>1. SaleInit => SaleInv
  BY InTheBeginning
<1>2. SaleInv /\ [SaleNext]_saleVars => SaleInv'
  BY EveryStep DEF Step
<1> QED BY <1>1, <1>2, PTL DEF SaleSpec

(* Every check a request makes under a lock stands until its commit, and   *)
(* nothing is oversold or overpaid: for any number of tellers, products,   *)
(* sales and limits (deduct_sale_stock_in_tx, create_settlement).          *)
THEOREM TheCounterIsSound == SaleSpec => []CounterInv
<1>1. SaleInv => CounterInv
  BY DEF SaleInv
<1> QED BY <1>1, RequestsAreSound, PTL

(* Of an order that two tellers sell, one is answered with success, and    *)
(* the order keeps that one's sale (KioskOrderRepo::mark_fulfilled).       *)
THEOREM OneSaleIsConfirmed == SaleSpec => []ConfirmedOnce
<1>1. SaleInv => ConfirmedOnce
  BY DEF SaleInv
<1> QED BY <1>1, RequestsAreSound, PTL

(* The counter in turn: what a request has promised the rest of it is kept *)
(* at each of its steps.                                                   *)
THEOREM TurnsAreKept == SaleSpec => []TurnInv
<1>1. SaleInit => TurnInv
  BY TurnsBegin
<1>2. SaleInv /\ TurnInv /\ [SaleNext]_saleVars => TurnInv'
  BY EveryStepInTurn
<1> QED BY <1>1, <1>2, RequestsAreSound, PTL DEF SaleSpec

(* While requests are served in turn and none fails, no player owes more   *)
(* than the limit, however many sales there are, and between two requests  *)
(* the cached sum is what is owed (CreditService::validate_eligibility).   *)
THEOREM TheLimitIsKeptInTurn == SaleSpec => []LimitKeptInTurn
<1>1. SaleInv /\ TurnInv => LimitKeptInTurn
  BY WhatTurnsGive
<1> QED BY <1>1, RequestsAreSound, TurnsAreKept, PTL

(* And the register has one entry for each sale paid in cash, and all that *)
(* was settled (TransactionService::apply_cash_register_effects).          *)
THEOREM TheCashIsCountedInTurn == SaleSpec => []CashCountedInTurn
<1>1. SaleInv /\ TurnInv => CashCountedInTurn
  BY WhatTurnsGive
<1> QED BY <1>1, RequestsAreSound, TurnsAreKept, PTL

(* The counter implements the book: each of its steps writes one whole     *)
(* line of it or none.                                                     *)
THEOREM TheCounterKeepsTheBook == SaleSpec => ImplementsBook
<1>1. SaleInit => Book!Init
  BY InTheBeginning
<1>2. SaleInv /\ [SaleNext]_saleVars => [Book!Next]_(Book!book)
  BY EveryStep DEF Step
<1> QED BY <1>1, <1>2, RequestsAreSound, PTL DEF SaleSpec, ImplementsBook, Book!Spec
=============================================================================
