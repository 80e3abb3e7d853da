----------------------------- MODULE StockRoom -----------------------------
(***************************************************************************)
(* The inventory of the backend: receipts into the warehouse, transfers    *)
(* from there to the store, waste, counts and the goods of sales.  A       *)
(* transfer and a waste event are slips that are asked for and decided; a  *)
(* keeper is a request in progress: one database transaction that goes     *)
(* through its lines, locks the rows each of them needs one by one, and    *)
(* moves the goods of all of them at its commit or none.                   *)
(*                                                                         *)
(* There is one warehouse and one store.  Of a product a transaction can   *)
(* hold three locks: FOR KEY SHARE, which every line that refers to it     *)
(* takes, FOR NO KEY UPDATE for the copy of the store's stock kept in it,  *)
(* and FOR UPDATE, taken by sales only.  A row of stock that does not      *)
(* exist is not locked by reading it; it is locked by inserting it.        *)
(***************************************************************************)
EXTENDS Integers

CONSTANTS
  Goods,      \* products
  Slips,      \* ids of transfer requests and waste events
  Keepers,    \* requests in progress at once
  Loads,      \* what a slip, a receipt or a sale can name: pieces of each
  Tallies,    \* what a count can find
  Opening,    \* the stock at the beginning
  ErrandBound,\* requests that move goods in a behaviour
  Missing     \* no row, no slip

Places == {"warehouse", "store"}
Load == [Goods -> Nat]
NoLoad == [g \in Goods |-> 0]
Named(load) == {g \in Goods : load[g] > 0}

ASSUME StockAssumption ==
  /\ Loads \subseteq Load
  /\ Tallies \subseteq Nat
  /\ Missing \notin Nat \cup Slips \cup Goods
  /\ Opening \in [Places -> [Goods -> Nat \cup {Missing}]]
  /\ ErrandBound \in Nat

VARIABLES
  shelf,      \* location_stock: pieces by place and product, or no row
  trail,      \* the sum of stock_movements by place and product
  slips,      \* stock_transfer_requests and stock_waste_events
  moved,      \* how often the movements of a slip were written
  errand,     \* what each keeper is doing
  errands     \* requests begun so far, for ErrandBound

roomVars == <<shelf, trail, slips, moved, errand, errands>>
goodsVars == <<shelf, trail, slips, moved>>

Pieces(pieces) == IF pieces = Missing THEN 0 ELSE pieces

Kinds == {"transfer", "waste"}
SlipStages == {"none", "pending", "approved", "rejected", "fulfilled"}
NoSlip == [at |-> "none", kind |-> "waste", place |-> "store", load |-> NoLoad]
(* the status in which the goods of a slip may be moved, and the one after *)
Ripe(kind) == IF kind = "transfer" THEN "approved" ELSE "pending"
Done(kind) == IF kind = "transfer" THEN "fulfilled" ELSE "approved"

ErrandOps == {"none", "receipt", "count", "transfer", "waste", "sale"}
ErrandSteps == {"idle", "slip", "next", "find", "product", "row", "mirror"}
(* lines, named: pieces of the goods named; todo: those not done;          *)
(* found: the row a count has read; rows, shares, owns: what is locked of  *)
(* stock, of products with others, and of products alone                   *)
NoErrand ==
  [op |-> "none", at |-> "idle", slip |-> Missing, place |-> "store",
   lines |-> NoLoad, named |-> {}, todo |-> {}, good |-> Missing,
   found |-> [g \in Goods |-> Missing], rows |-> {}, shares |-> {}, owns |-> {}]
Busy(k) == errand[k].at # "idle"

(***************************************************************************)
(* Locks.  A transfer comes to a second row of stock, the store's.         *)
(***************************************************************************)
Spot(r) == IF r.op = "transfer" /\ r.at = "row" THEN "store" ELSE r.place

(* what r asks for is locked by q                                          *)
InTheWay(r, q) ==
  \/ r.at = "slip" /\ q.slip = r.slip /\ q.at \notin {"idle", "slip"}
  \/ r.at = "find" /\ shelf[r.place][r.good] # Missing /\ <<r.place, r.good>> \in q.rows
  \/ r.at = "row" /\ <<Spot(r), r.good>> \in q.rows
  \/ r.at = "product" /\ r.good \in q.owns /\ "sale" \in {r.op, q.op}
  \/ r.at = "product" /\ r.good \in q.shares /\ r.op = "sale"
  \/ r.at = "mirror" /\ r.good \in q.owns

Awaits(k, j) == k # j /\ InTheWay(errand[k], errand[j])
Unhindered(k) == \A j \in Keepers : ~Awaits(k, j)
Circle(D) == D # {} /\ \A k \in D : \E j \in D : Awaits(k, j)
Tied(k) ==
  \E D \in SUBSET Keepers :
    k \in D /\ Circle(D) /\ \A E \in SUBSET D : Circle(E) => E = D

(***************************************************************************)
(* Slips.  They are decided by single statements.                          *)
(***************************************************************************)
Decidable(s) == \A k \in Keepers : errand[k].slip = s => errand[k].at = "slip"

AsksForSlip(s, kind, place, load) ==
  /\ slips[s].at = "none" /\ Named(load) # {}
  /\ kind = "transfer" => place = "warehouse"
  /\ slips' = [slips EXCEPT ![s] = [at |-> "pending", kind |-> kind, place |-> place,
                                    load |-> load]]
  /\ UNCHANGED <<shelf, trail, moved, errand, errands>>

ApprovesTransfer(s) ==
  /\ slips[s].at = "pending" /\ slips[s].kind = "transfer" /\ Decidable(s)
  /\ slips' = [slips EXCEPT ![s].at = "approved"]
  /\ UNCHANGED <<shelf, trail, moved, errand, errands>>

RejectsSlip(s) ==
  /\ slips[s].at = "pending" /\ Decidable(s)
  /\ slips' = [slips EXCEPT ![s].at = "rejected"]
  /\ UNCHANGED <<shelf, trail, moved, errand, errands>>

(***************************************************************************)
(* A request begins.                                                       *)
(***************************************************************************)
Proceeds(k, r) == errand' = [errand EXCEPT ![k] = r]
Leaves(k) == Proceeds(k, NoErrand)

Begins(k, r) ==
  /\ ~Busy(k)
  /\ errands < ErrandBound /\ errands' = errands + 1
  /\ Proceeds(k, r)
  /\ UNCHANGED goodsVars

WithLines(r, lines, named) ==
  [r EXCEPT !.at = "next", !.lines = lines, !.named = named, !.todo = named]

StartsReceipt(k, load) ==
  /\ Named(load) # {}
  /\ Begins(k, WithLines([NoErrand EXCEPT !.op = "receipt", !.place = "warehouse"],
                         load, Named(load)))

(* that something has changed is asked of a cache that sales do not        *)
(* renew: a count may be refused whatever is there, and then never begins  *)
StartsCount(k, place, tally) ==
  /\ DOMAIN tally # {}
  /\ Begins(k, WithLines([NoErrand EXCEPT !.op = "count", !.place = place],
                         [g \in Goods |-> IF g \in DOMAIN tally THEN tally[g] ELSE 0],
                         DOMAIN tally))

StartsSlip(k, s) ==
  /\ slips[s].at # "none"
  /\ Begins(k, [NoErrand EXCEPT !.op = slips[s].kind, !.at = "slip", !.slip = s])

StartsSale(k, load) ==
  /\ Named(load) # {}
  /\ Begins(k, WithLines([NoErrand EXCEPT !.op = "sale"], load, Named(load)))

(* faulty: waits for the decision                                          *)
LocksRipeSlip(k) ==
  LET r == errand[k]
      slip == slips[r.slip]
  IN
  /\ r.at = "slip" /\ Unhindered(k) /\ slip.at = Ripe(slip.kind)
  /\ Proceeds(k, WithLines([r EXCEPT !.place = slip.place], slip.load, Named(slip.load)))
  /\ UNCHANGED <<goodsVars, errands>>

(* faulty: the slip is read without its lock                               *)
ReadsSlip(k) ==
  LET r == errand[k]
      slip == slips[r.slip]
  IN
  /\ r.at = "slip"
  /\ IF slip.at = Ripe(slip.kind)
     THEN Proceeds(k, WithLines([r EXCEPT !.place = slip.place], slip.load, Named(slip.load)))
     ELSE Leaves(k)
  /\ UNCHANGED <<goodsVars, errands>>

LocksSlip(k) ==
  LET r == errand[k]
      slip == slips[r.slip]
  IN
  /\ r.at = "slip" /\ Unhindered(k)
  /\ IF slip.at = Ripe(slip.kind)
     THEN Proceeds(k, WithLines([r EXCEPT !.place = slip.place], slip.load, Named(slip.load)))
     ELSE Leaves(k)
  /\ UNCHANGED <<goodsVars, errands>>

(***************************************************************************)
(* Its lines, one by one.  A sale locks all its products first.            *)
(***************************************************************************)
Gathers(r) == r.op = "sale" /\ r.owns # r.named
LineDone(r) == [r EXCEPT !.at = "next", !.todo = @ \ {r.good}, !.good = Missing]
ToMirror(r) == IF Spot(r) = "store" THEN [r EXCEPT !.at = "mirror"] ELSE LineDone(r)

Turns(k) ==
  LET r == errand[k] IN
  /\ r.at = "next"
  /\ \E g \in IF Gathers(r) THEN r.named \ r.owns ELSE r.todo :
       Proceeds(k, [r EXCEPT !.good = g,
                      !.at = IF Gathers(r) \/ r.op = "receipt" THEN "product" ELSE "find"])
  /\ UNCHANGED <<goodsVars, errands>>

(* faulty: the row is read without its lock                                *)
ReadsRow(k) ==
  LET r == errand[k]
      row == shelf[r.place][r.good]
      found == [r EXCEPT !.found[r.good] = IF r.op = "count" THEN row ELSE Missing]
  IN
  /\ r.at = "find"
  /\ IF r.op # "count" /\ Pieces(row) < r.lines[r.good] THEN Leaves(k)
     ELSE Proceeds(k, IF r.op = "sale" THEN LineDone(found)
                      ELSE [found EXCEPT !.at = "product"])
  /\ UNCHANGED <<goodsVars, errands>>

FindsRow(k) ==
  LET r == errand[k]
      row == shelf[r.place][r.good]
      found == [r EXCEPT !.rows = IF row = Missing THEN @ ELSE @ \cup {<<r.place, r.good>>},
                         !.found[r.good] = IF r.op = "count" THEN row ELSE Missing]
  IN
  /\ r.at = "find" /\ Unhindered(k)
  /\ IF r.op # "count" /\ Pieces(row) < r.lines[r.good] THEN Leaves(k)
     ELSE Proceeds(k, IF r.op = "sale" THEN LineDone(found)
                      ELSE [found EXCEPT !.at = "product"])
  /\ UNCHANGED <<goodsVars, errands>>

(* the pieces by which r changes the stock of g in p                       *)
Change(r, p, g) ==
  IF g \notin r.named THEN 0
  ELSE CASE r.op = "transfer" -> IF p = "store" THEN r.lines[g] ELSE -r.lines[g]
         [] r.op = "count" /\ p = r.place -> r.lines[g] - Pieces(r.found[g])
         [] r.op = "receipt" /\ p = r.place -> r.lines[g]
         [] r.op \in {"waste", "sale"} /\ p = r.place -> -r.lines[g]
         [] OTHER -> 0

(* a sale stays before its next line; a count that found what was there    *)
(* changes nothing                                                         *)
LocksGood(k) ==
  LET r == errand[k]
      shared == [r EXCEPT !.shares = @ \cup {r.good}]
  IN
  /\ r.at = "product" /\ Unhindered(k)
  /\ Proceeds(k, IF r.op = "sale"
                 THEN [r EXCEPT !.at = "next", !.owns = @ \cup {r.good}, !.good = Missing]
                 ELSE IF r.op = "waste" THEN ToMirror(shared)
                 ELSE IF Change(r, Spot(r), r.good) = 0 THEN LineDone(shared)
                 ELSE [shared EXCEPT !.at = "row"])
  /\ UNCHANGED <<goodsVars, errands>>

PutsRow(k) ==
  LET r == errand[k] IN
  /\ r.at = "row" /\ Unhindered(k)
  /\ IF Pieces(shelf[Spot(r)][r.good]) + Change(r, Spot(r), r.good) < 0 THEN Leaves(k)
     ELSE Proceeds(k, ToMirror([r EXCEPT !.rows = @ \cup {<<Spot(r), r.good>>}]))
  /\ UNCHANGED <<goodsVars, errands>>

Mirrors(k) ==
  LET r == errand[k] IN
  /\ r.at = "mirror" /\ Unhindered(k)
  /\ Proceeds(k, LineDone([r EXCEPT !.owns = @ \cup {r.good}]))
  /\ UNCHANGED <<goodsVars, errands>>

(***************************************************************************)
(* And its end.                                                            *)
(***************************************************************************)
Commits(k) ==
  LET r == errand[k] IN
  /\ r.at = "next" /\ r.todo = {}
  /\ shelf' = [p \in Places |-> [g \in Goods |->
                 IF Change(r, p, g) = 0 THEN shelf[p][g]
                 ELSE Pieces(shelf[p][g]) + Change(r, p, g)]]
  /\ trail' = [p \in Places |-> [g \in Goods |-> trail[p][g] + Change(r, p, g)]]
  /\ IF r.slip = Missing THEN UNCHANGED <<slips, moved>>
     ELSE /\ slips' = [slips EXCEPT ![r.slip].at = Done(r.op)]
          /\ moved' = [moved EXCEPT ![r.slip] = @ + 1]
  /\ Leaves(k)
  /\ UNCHANGED errands

(* the client goes away, a statement fails, the process stops              *)
GivesUp(k) ==
  /\ Busy(k)
  /\ Leaves(k)
  /\ UNCHANGED <<goodsVars, errands>>

BreaksTie(k) ==
  /\ Busy(k) /\ Tied(k)
  /\ Leaves(k)
  /\ UNCHANGED <<goodsVars, errands>>

(***************************************************************************)
(* The stock room.                                                         *)
(***************************************************************************)
RoomInit ==
  /\ shelf = Opening
  /\ trail = [p \in Places |-> [g \in Goods |-> 0]]
  /\ slips = [s \in Slips |-> NoSlip] /\ moved = [s \in Slips |-> 0]
  /\ errand = [k \in Keepers |-> NoErrand] /\ errands = 0

Paperwork ==
  \E s \in Slips :
    \/ \E kind \in Kinds, place \in Places, load \in Loads : AsksForSlip(s, kind, place, load)
    \/ ApprovesTransfer(s) \/ RejectsSlip(s)

Starts(k) ==
  \/ \E load \in Loads : StartsReceipt(k, load) \/ StartsSale(k, load)
  \/ \E place \in Places, named \in SUBSET Goods :
       \E tally \in [named -> Tallies] : StartsCount(k, place, tally)
  \/ \E s \in Slips : StartsSlip(k, s)

Works(k) ==
  \/ LocksSlip(k) \/ Turns(k) \/ FindsRow(k) \/ LocksGood(k) \/ PutsRow(k) \/ Mirrors(k)
  \/ Commits(k)

RoomNext ==
  \/ Paperwork
  \/ \E k \in Keepers : Starts(k) \/ Works(k) \/ GivesUp(k) \/ BreaksTie(k)

RoomSpec == RoomInit /\ [][RoomNext]_roomVars
(* The tasks of the runtime all run, and the database turns one of those   *)
(* away who wait in a circle.                                              *)
RoomFairness ==
  \A k \in Keepers : WF_roomVars(Busy(k) /\ Works(k)) /\ WF_roomVars(BreaksTie(k))

(***************************************************************************)
(* Properties.                                                             *)
(***************************************************************************)
SlipRows == [at: SlipStages, kind: Kinds, place: Places, load: Load]
ErrandRows ==
  [op: ErrandOps, at: ErrandSteps, slip: Slips \cup {Missing}, place: Places,
   lines: Load, named: SUBSET Goods, todo: SUBSET Goods, good: Goods \cup {Missing},
   found: [Goods -> Nat \cup {Missing}], rows: SUBSET (Places \X Goods),
   shares: SUBSET Goods, owns: SUBSET Goods]

RoomTypeOK ==
  /\ shelf \in [Places -> [Goods -> Nat \cup {Missing}]]
  /\ trail \in [Places -> [Goods -> Int]]
  /\ slips \in [Slips -> SlipRows] /\ moved \in [Slips -> Nat]
  /\ errand \in [Keepers -> ErrandRows] /\ errands \in 0 .. ErrandBound

(* A slip, a row of stock and a product for update have one holder.        *)
HasSlip(k) == errand[k].at \notin {"idle", "slip"}
OneHolder ==
  \A j, k \in Keepers : j # k =>
    /\ HasSlip(j) /\ HasSlip(k) /\ errand[j].slip # Missing => errand[j].slip # errand[k].slip
    /\ errand[j].rows \cap errand[k].rows = {}
    /\ errand[j].owns \cap errand[k].owns = {}

(* The movements account for all the stock there is.                       *)
Explained ==
  \A p \in Places, g \in Goods : Pieces(shelf[p][g]) = Pieces(Opening[p][g]) + trail[p][g]

(* The goods of a slip are moved once, when it is fulfilled or approved.   *)
MovedOnce ==
  \A s \in Slips : moved[s] = IF slips[s].at = Done(slips[s].kind) THEN 1 ELSE 0

(* What a request has found stands until it commits: what it takes away is *)
(* there, and what it counts is what it found, if there was a row at all.  *)
Seen(r) == (r.named \ r.todo) \cup
           (IF r.at \in {"product", "row", "mirror"} /\ ~Gathers(r) THEN {r.good} ELSE {})
FoundStands ==
  \A k \in Keepers : LET r == errand[k] IN \A g \in Seen(r) :
    /\ r.op \in {"transfer", "waste", "sale"} => r.lines[g] <= Pieces(shelf[r.place][g])
    /\ r.op = "count" /\ r.found[g] # Missing => r.found[g] = shelf[r.place][g]

StockInv == RoomTypeOK /\ OneHolder /\ Explained /\ MovedOnce /\ FoundStands

(* Every request ends, also those that wait for each other's rows.         *)
EveryErrandEnds == \A k \in Keepers : Busy(k) ~> ~Busy(k)
=============================================================================
