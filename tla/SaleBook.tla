------------------------------ MODULE SaleBook ------------------------------
(***************************************************************************)
(* What the counter promises about goods and debts, without requests,      *)
(* locks or caches: a book in which every line is written at once.         *)
(*   - Goods leave the store with a sale, or because they are wasted or    *)
(*     counted out of it, and never more than there are.                   *)
(*   - A sale is written once, whole, and its goods and price never change.*)
(*   - A debt is paid only by a settlement, every sale it covers at once,  *)
(*     and never beyond what is owed.                                      *)
(* CounterSale implements this specification.                              *)
(***************************************************************************)
EXTENDS Naturals

CONSTANTS
  Products,  \* what is on sale
  Sales,     \* transaction ids
  Baskets,   \* what can be bought at once: pieces of each product
  Worth,     \* the price of each basket
  Supply     \* pieces of each product in the store at the beginning

VARIABLES
  stock,     \* pieces of each product at the sale location
  sold       \* the sales

book == <<stock, sold>>

Nothing == [p \in Products |-> 0]
Statuses == {"pending", "completed", "failed", "refunded", "credit"}
Methods == {"cash", "online", "credit"}
Blank == [at |-> "none", method |-> "none", basket |-> Nothing, paid |-> 0]
Written(status, method, basket) ==
  [at |-> status, method |-> method, basket |-> basket, paid |-> 0]

(* some sales on credit are left from earlier days *)
Init ==
  /\ stock = Supply
  /\ sold \in [Sales -> {Blank} \cup {Written("credit", "credit", b) : b \in Baskets}]

(* goods and sale together *)
Sell(s) ==
  LET sale == sold'[s] IN
  /\ sold[s] = Blank /\ sale # Blank
  /\ sale.paid = 0 /\ sale.at \in Statuses /\ sale.method \in Methods
  /\ sale.basket \in Baskets
  /\ \A p \in Products : sale.basket[p] <= stock[p]
  /\ sold' = [sold EXCEPT ![s] = Written(sale.at, sale.method, sale.basket)]
  /\ stock' = [p \in Products |-> stock[p] - sale.basket[p]]

(* a debt: a sale whose method and whose status both say credit *)
OnCredit(s) == sold[s].method = "credit" /\ sold[s].at = "credit"

(* items: what is paid on each sale, nothing on those it does not cover *)
Settled(s, amount) ==
  IF amount = 0 THEN sold[s]
  ELSE [sold[s] EXCEPT !.paid = @ + amount,
                       !.at = IF sold[s].paid + amount >= Worth[sold[s].basket]
                              THEN "completed" ELSE "credit"]

Paid(s) == IF sold'[s].paid > sold[s].paid THEN sold'[s].paid - sold[s].paid ELSE 0

Settle(items) ==
  /\ \A s \in Sales : items[s] > 0 =>
       /\ OnCredit(s)
       /\ sold[s].paid + items[s] <= Worth[sold[s].basket]
  /\ sold' = [s \in Sales |-> Settled(s, items[s])]
  /\ UNCHANGED stock

(* staff overrules the status of a sale *)
Overrule(s) ==
  /\ sold[s] # Blank /\ sold'[s].at \in Statuses
  /\ sold' = [sold EXCEPT ![s].at = sold'[s].at]
  /\ UNCHANGED stock

Leave(p) ==
  /\ stock[p] >= 1
  /\ stock' = [stock EXCEPT ![p] = @ - 1]
  /\ UNCHANGED sold

Arrive(p) ==
  /\ stock' = [stock EXCEPT ![p] = @ + 1]
  /\ UNCHANGED sold

Next ==
  \/ \E s \in Sales : Sell(s) \/ Overrule(s)
  \/ Settle([s \in Sales |-> Paid(s)])
  \/ \E p \in Products : Leave(p) \/ Arrive(p)

Spec == Init /\ [][Next]_book

(* Goods are never oversold and debts never overpaid.                      *)
BookInv ==
  /\ stock \in [Products -> Nat]
  /\ sold \in [Sales -> {Blank} \cup
                [at: Statuses, method: Methods, basket: Baskets, paid: Nat]]
  /\ \A s \in Sales : sold[s] # Blank => sold[s].paid <= Worth[sold[s].basket]
=============================================================================
