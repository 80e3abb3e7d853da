-------------------------- MODULE StockRoom_proof --------------------------
(***************************************************************************)
(* Proofs about StockRoom.  Fit says what is true of a request wherever it *)
(* is: the slip it has opened is ripe, what it has found stands, and every *)
(* row it is going to change is locked by it.  A step of one request that  *)
(* moves no goods leaves the others fit (Working); a commit changes rows   *)
(* that are locked by nobody else (CommitKeeps).                           *)
(***************************************************************************)
EXTENDS StockRoom, TLAPS

Takers == {"transfer", "waste", "sale"}
Past(r) == r.at \notin {"idle", "slip"}

(* the lines whose rows a request has found: FoundStands of one request    *)
Stands(r) ==
  \A g \in Seen(r) :
    /\ r.op \in Takers => r.lines[g] <= Pieces(shelf[r.place][g])
    /\ r.op = "count" /\ r.found[g] # Missing => r.found[g] = shelf[r.place][g]

(* and locked, with those it changes                                       *)
Claims(r) ==
  /\ \A g \in Seen(r) :
       r.op \in Takers \/ (r.op = "count" /\ r.found[g] # Missing) => <<r.place, g>> \in r.rows
  /\ \A p \in Places, g \in Goods :
       Change(r, p, g) # 0 /\ (g \notin r.todo \/ (r.at = "mirror" /\ g = r.good))
         => <<p, g>> \in r.rows

(* where it is in its lines                                                *)
Placed(r) ==
  /\ r.todo \subseteq r.named
  /\ r.op \in Takers => \A g \in r.named : r.lines[g] > 0
  /\ Gathers(r) => r.todo = r.named
  /\ r.at = "find" => ~Gathers(r)
  /\ r.at \in {"find", "row", "mirror"} => r.good \in r.todo
  /\ r.at = "product" => r.good \in r.named /\ (r.op # "sale" => r.good \in r.todo)
  /\ r.at = "product" /\ r.op = "sale" => Gathers(r)
  /\ r.at \in {"row", "mirror"} => r.op # "sale"

SlipFits(r) ==
  /\ r.at # "idle" => (r.slip # Missing <=> r.op \in Kinds)
  /\ r.slip # Missing => /\ slips[r.slip].at # "none" /\ slips[r.slip].kind = r.op
                         /\ Past(r) => slips[r.slip].at = Ripe(r.op)
  /\ Past(r) /\ r.op = "transfer" => r.place = "warehouse"

Fit(r) ==
  /\ r \in ErrandRows
  /\ r.at = "idle" => r = NoErrand
  /\ r.at = "slip" => \E op \in Kinds, s \in Slips :
                        r = [NoErrand EXCEPT !.op = op, !.at = "slip", !.slip = s]
  /\ Placed(r) /\ SlipFits(r) /\ Stands(r) /\ Claims(r)

(* two requests that hold nothing in common                                *)
Apart(q, r) ==
  /\ Past(q) /\ Past(r) /\ q.slip # Missing => q.slip # r.slip
  /\ q.rows \cap r.rows = {}
  /\ q.owns \cap r.owns = {}

SlipsAreRight ==
  \A s \in Slips : slips[s].at # "none" /\ slips[s].kind = "transfer"
                      => slips[s].place = "warehouse"
AllFit == \A k \in Keepers : Fit(errand[k])
AllApart == \A j, k \in Keepers : j # k => Apart(errand[j], errand[k])

RoomInv ==
  RoomTypeOK /\ SlipsAreRight /\ AllFit /\ AllApart /\ Explained /\ MovedOnce

LEMMA InvIsSound ==
  ASSUME RoomInv
  PROVE  StockInv
<1>1. OneHolder
  BY DEF RoomInv, AllApart, Apart, Past, OneHolder, HasSlip
<1>2. FoundStands
  BY DEF RoomInv, AllFit, Fit, Stands, Takers, FoundStands
<1> QED BY <1>1, <1>2 DEF RoomInv, StockInv

(***************************************************************************)
(* A step of one request that moves no goods.                              *)
(***************************************************************************)
LEMMA RestFits == Fit(NoErrand) /\ \A q : Apart(q, NoErrand)
<1>1. NoErrand \in ErrandRows
  BY StockAssumption DEF NoErrand, ErrandRows, ErrandOps, ErrandSteps, Places, Load, NoLoad
<1>2. /\ NoErrand.at = "idle" /\ NoErrand.op = "none" /\ NoErrand.slip = Missing
      /\ NoErrand.named = {} /\ NoErrand.todo = {}
      /\ NoErrand.rows = {} /\ NoErrand.owns = {}
  BY DEF NoErrand
<1>3. Placed(NoErrand) /\ SlipFits(NoErrand)
  BY <1>2 DEF Placed, Gathers, SlipFits, Past
<1>4. Seen(NoErrand) = {} /\ \A p, g : Change(NoErrand, p, g) = 0
  BY <1>2 DEF Seen, Change
<1>5. Stands(NoErrand) /\ Claims(NoErrand)
  BY <1>4 DEF Stands, Claims
<1>6. \A q : Apart(q, NoErrand)
  BY <1>2 DEF Apart, Past
<1> QED BY <1>1, <1>2, <1>3, <1>5, <1>6 DEF Fit

LEMMA ApartIsMutual == ASSUME NEW q, NEW r, Apart(q, r) PROVE Apart(r, q)
BY DEF Apart

LEMMA Working ==
  ASSUME RoomInv, UNCHANGED goodsVars, errands' \in 0 .. ErrandBound,
         NEW k \in Keepers, NEW r, Proceeds(k, r), Fit(r),
         \A j \in Keepers \ {k} : Apart(errand[j], r)
  PROVE  RoomInv'
<1>1. /\ shelf' = shelf /\ trail' = trail /\ slips' = slips /\ moved' = moved
  BY DEF goodsVars
<1>2. /\ errand'[k] = r /\ \A j \in Keepers \ {k} : errand'[j] = errand[j]
      /\ errand' \in [Keepers -> ErrandRows]
  BY DEF RoomInv, RoomTypeOK, Proceeds, Fit
<1>3. AllFit'
  <2>1. \A j \in Keepers : Fit(errand'[j])
    BY <1>2 DEF RoomInv, AllFit
  <2>2. \A q : Fit(q) => Fit(q)'
    BY <1>1 DEF Fit, SlipFits, Stands
  <2> QED BY <2>1, <2>2 DEF AllFit
<1>4. AllApart'
  BY <1>2, ApartIsMutual DEF RoomInv, AllApart
<1> QED BY <1>1, <1>2, <1>3, <1>4
        DEF RoomInv, RoomTypeOK, SlipsAreRight, Explained, MovedOnce

LEMMA Leaving ==
  ASSUME RoomInv, UNCHANGED goodsVars, errands' = errands,
         NEW k \in Keepers, Leaves(k)
  PROVE  RoomInv'
BY RestFits, Working DEF Leaves, RoomInv, RoomTypeOK

(***************************************************************************)
(* A request begins, and opens its slip.                                   *)
(***************************************************************************)
LEMMA LinesFit ==
  ASSUME NEW r, r \in ErrandRows, r.rows = {}, r.owns = {}, r.op # "none",
         NEW lines \in Load, NEW named \in SUBSET Goods,
         r.op \in Takers => \A g \in named : lines[g] > 0,
         r.slip # Missing <=> r.op \in Kinds,
         r.slip # Missing => slips[r.slip].kind = r.op /\ slips[r.slip].at = Ripe(r.op),
         r.op = "transfer" => r.place = "warehouse"
  PROVE  LET new == WithLines(r, lines, named)
         IN Fit(new) /\ new.slip = r.slip /\ new.rows = {} /\ new.owns = {}
<1> DEFINE new == WithLines(r, lines, named)
<1>1. /\ new \in ErrandRows /\ new.at = "next" /\ new.named = named /\ new.todo = named
      /\ new.op = r.op /\ new.slip = r.slip /\ new.place = r.place
      /\ new.lines = lines /\ new.rows = {} /\ new.owns = {}
  BY DEF WithLines, ErrandRows, ErrandSteps
<1> HIDE DEF new
<1>2. Placed(new)
  BY <1>1 DEF Placed
<1>3. SlipFits(new)
  BY <1>1 DEF SlipFits, Past, Ripe, Kinds
<1>4. Seen(new) = {} /\ \A p, g : g \notin new.todo => Change(new, p, g) = 0
  BY <1>1 DEF Seen, Change
<1>5. Stands(new) /\ Claims(new)
  BY <1>1, <1>4 DEF Stands, Claims
<1>6. Fit(new)
  BY <1>1, <1>2, <1>3, <1>5 DEF Fit
<1> QED BY <1>1, <1>6 DEF new

LEMMA Beginning ==
  ASSUME RoomInv, NEW k \in Keepers, NEW r, Begins(k, r), Fit(r),
         r.rows = {}, r.owns = {}, r.slip = Missing \/ ~Past(r)
  PROVE  RoomInv'
<1>1. errands' \in 0 .. ErrandBound
  BY StockAssumption DEF RoomInv, RoomTypeOK, Begins
<1>2. \A j \in Keepers \ {k} : Apart(errand[j], r)
  BY DEF Apart
<1> QED BY <1>1, <1>2, Working DEF Begins

LEMMA StartKeeps ==
  ASSUME RoomInv, NEW k \in Keepers, Starts(k)
  PROVE  RoomInv'
<1>0. /\ NoErrand \in ErrandRows /\ NoErrand.slip = Missing /\ NoErrand.rows = {}
      /\ NoErrand.owns = {} /\ NoErrand.place \in Places
  BY RestFits DEF NoErrand, Fit, Places
<1>1. ASSUME NEW op \in {"receipt", "count", "sale"}, NEW r,
             r = [NoErrand EXCEPT !.op = op] \/
             \E place \in Places : r = [NoErrand EXCEPT !.op = op, !.place = place],
             NEW lines \in Load, NEW named \in SUBSET Goods,
             op \in Takers => \A g \in named : lines[g] > 0,
             Begins(k, WithLines(r, lines, named))
      PROVE  RoomInv'
  <2>1. r \in ErrandRows /\ r.op = op /\ r.slip = Missing /\ r.rows = {} /\ r.owns = {}
    BY <1>0, <1>1 DEF ErrandRows, ErrandOps
  <2>2. op # "none" /\ op \notin Kinds /\ op # "transfer"
    BY <1>1 DEF Kinds
  <2> QED BY <2>1, <2>2, <1>1, LinesFit, Beginning
<1>2. ASSUME NEW load \in Loads, StartsReceipt(k, load) \/ StartsSale(k, load)
      PROVE  RoomInv'
  <2>1. /\ load \in Load /\ Named(load) \in SUBSET Goods
        /\ \A g \in Named(load) : load[g] > 0
    BY StockAssumption DEF Named
  <2> QED BY <1>1, <1>2, <2>1 DEF StartsReceipt, StartsSale, Places
<1>3. ASSUME NEW place \in Places, NEW named \in SUBSET Goods,
             NEW tally \in [named -> Tallies], StartsCount(k, place, tally)
      PROVE  RoomInv'
  <2> DEFINE lines == [g \in Goods |-> IF g \in DOMAIN tally THEN tally[g] ELSE 0]
  <2>1. lines \in Load
    BY StockAssumption DEF Load
  <2> QED BY <1>1, <1>3, <2>1 DEF StartsCount, Takers
<1>4. ASSUME NEW s \in Slips, StartsSlip(k, s)
      PROVE  RoomInv'
  <2> DEFINE r == [NoErrand EXCEPT !.op = slips[s].kind, !.at = "slip", !.slip = s]
  <2>1. slips[s].kind \in Kinds /\ s # Missing /\ slips[s].at # "none"
    BY <1>4, StockAssumption DEF StartsSlip, RoomInv, RoomTypeOK, SlipRows
  <2>2. /\ r \in ErrandRows /\ r.at = "slip" /\ r.slip = s /\ r.op = slips[s].kind
        /\ r.rows = {} /\ r.owns = {} /\ r.todo = {} /\ r.named = {}
    BY <1>0, <2>1 DEF ErrandRows, ErrandOps, ErrandSteps, Kinds, NoErrand
  <2>3. Placed(r) /\ SlipFits(r)
    BY <2>1, <2>2 DEF Placed, Gathers, SlipFits, Past
  <2>4. Seen(r) = {} /\ \A p, g : Change(r, p, g) = 0
    BY <2>2 DEF Seen, Change
  <2>5. Stands(r) /\ Claims(r)
    BY <2>4 DEF Stands, Claims
  <2>6. Fit(r)
    BY <2>1, <2>2, <2>3, <2>5 DEF Fit
  <2> QED BY <1>4, <2>2, <2>6, Beginning DEF StartsSlip, Past
<1> QED BY <1>2, <1>3, <1>4 DEF Starts

LEMMA OpeningKeeps ==
  ASSUME RoomInv, NEW k \in Keepers, LocksSlip(k)
  PROVE  RoomInv'
<1> DEFINE r == errand[k]
           slip == slips[r.slip]
           to == [r EXCEPT !.place = slip.place]
           new == WithLines(to, slip.load, Named(slip.load))
<1>1. r \in ErrandRows /\ r.at = "slip" /\ SlipFits(r)
  BY DEF RoomInv, AllFit, Fit, LocksSlip
<1>2. \E op \in Kinds, s \in Slips : r = [NoErrand EXCEPT !.op = op, !.at = "slip", !.slip = s]
  BY <1>1 DEF RoomInv, AllFit, Fit
<1>3. r.op \in Kinds /\ r.slip \in Slips /\ r.rows = {} /\ r.owns = {} /\ r.slip # Missing
  BY <1>2, StockAssumption DEF NoErrand
<1>4. /\ slip.kind = r.op /\ slip.load \in Load /\ slip.place \in Places
      /\ slip.at # "none" /\ (r.op = "transfer" => slip.place = "warehouse")
  BY <1>1, <1>3 DEF SlipFits, RoomInv, RoomTypeOK, SlipRows, SlipsAreRight
<1>5. CASE slip.at = Ripe(slip.kind)
  <2>1. /\ to \in ErrandRows /\ to.rows = {} /\ to.owns = {} /\ to.op = r.op
        /\ to.slip = r.slip /\ to.place = slip.place
    BY <1>1, <1>3, <1>4 DEF ErrandRows
  <2>2. /\ Named(slip.load) \in SUBSET Goods /\ r.op # "none"
        /\ \A g \in Named(slip.load) : slip.load[g] > 0
    BY <1>3 DEF Named, Kinds
  <2>3. Fit(new) /\ new.slip = r.slip /\ new.rows = {} /\ new.owns = {}
    <3> HIDE DEF to
    <3> QED BY <1>3, <1>4, <1>5, <2>1, <2>2, LinesFit
  <2>4. ASSUME NEW j \in Keepers \ {k}
        PROVE  Apart(errand[j], new)
    <3>1. Past(errand[j]) => errand[j].slip # r.slip
      BY <1>1 DEF LocksSlip, Unhindered, Awaits, InTheWay, Past
    <3> QED BY <2>3, <3>1 DEF Apart
  <2> HIDE DEF new
  <2>5. Proceeds(k, new) /\ UNCHANGED goodsVars /\ errands' \in 0 .. ErrandBound
    BY <1>5 DEF LocksSlip, new, RoomInv, RoomTypeOK
  <2> QED BY <2>3, <2>4, <2>5, Working
<1>6. CASE slip.at # Ripe(slip.kind)
  BY <1>6, Leaving DEF LocksSlip
<1> QED BY <1>5, <1>6

(***************************************************************************)
(* Its lines.  What a request names stays as it is, so only what it has    *)
(* found and locked is to be shown.                                        *)
(***************************************************************************)
Same(new, r) ==
  /\ new.op = r.op /\ new.slip = r.slip /\ new.place = r.place
  /\ new.lines = r.lines /\ new.named = r.named

LEMMA LineStep ==
  ASSUME RoomInv, UNCHANGED <<goodsVars, errands>>, NEW k \in Keepers, Past(errand[k]),
         NEW new, new \in ErrandRows, Proceeds(k, new), Past(new), Same(new, errand[k]),
         Placed(new), Stands(new), Claims(new),
         \A j \in Keepers \ {k} : /\ errand[j].rows \cap new.rows = {}
                                  /\ errand[j].owns \cap new.owns = {}
  PROVE  RoomInv'
<1>1. SlipFits(errand[k]) /\ SlipFits(new)
  BY DEF RoomInv, AllFit, Fit, SlipFits, Same, Past
<1>2. Fit(new)
  BY <1>1 DEF Fit, Past
<1>3. \A j \in Keepers \ {k} : Apart(errand[j], new)
  BY DEF RoomInv, AllApart, Apart, Same
<1> QED BY <1>2, <1>3, Working DEF RoomInv, RoomTypeOK

(* What every request is and holds, before a step. *)
LEMMA Before ==
  ASSUME RoomInv, NEW k \in Keepers
  PROVE  /\ errand[k] \in ErrandRows /\ Placed(errand[k])
         /\ Stands(errand[k]) /\ Claims(errand[k])
         /\ \A j \in Keepers \ {k} : /\ errand[j].rows \cap errand[k].rows = {}
                                     /\ errand[j].owns \cap errand[k].owns = {}
BY DEF RoomInv, AllFit, AllApart, Fit, Apart

LEMMA TurnsKeeps ==
  ASSUME RoomInv, NEW k \in Keepers, Turns(k)
  PROVE  RoomInv'
<1> DEFINE r == errand[k]
<1>0. /\ r \in ErrandRows /\ Placed(r) /\ Stands(r) /\ Claims(r) /\ r.at = "next"
      /\ UNCHANGED <<goodsVars, errands>>
  BY Before DEF Turns
<1>1. PICK g \in Goods, at \in {"product", "find"} :
        /\ Proceeds(k, [r EXCEPT !.good = g, !.at = at])
        /\ IF Gathers(r) THEN at = "product" /\ g \in r.named
           ELSE g \in r.todo /\ (at = "product" <=> r.op = "receipt")
  BY <1>0 DEF Turns, Gathers, ErrandRows
<1> DEFINE new == [r EXCEPT !.good = g, !.at = at]
<1>2. /\ new \in ErrandRows /\ Same(new, r) /\ new.at = at /\ new.good = g
      /\ new.todo = r.todo /\ new.found = r.found
      /\ new.rows = r.rows /\ new.owns = r.owns
  BY <1>0 DEF ErrandRows, ErrandSteps, Same
<1>3. Proceeds(k, new)
  BY <1>1
<1> HIDE DEF new
<1>4. Gathers(new) = Gathers(r)
  BY <1>2 DEF Gathers, Same
<1>5. Placed(new)
  BY <1>0, <1>1, <1>2, <1>4 DEF Placed, Same, Gathers
<1>6. Past(r) /\ Past(new)
  BY <1>0, <1>1, <1>2 DEF Past
<1>7. r.op \in Takers \cup {"count"} => Seen(new) = Seen(r)
  BY <1>0, <1>1, <1>2, <1>4 DEF Seen, Same, Gathers, Takers
<1>8. Stands(new)
  BY <1>0, <1>2, <1>7 DEF Stands, Same, Takers
<1>9. \A p \in Places, h \in Goods : Change(new, p, h) = Change(r, p, h)
  BY <1>2 DEF Change, Same
<1>10. Claims(new)
  BY <1>0, <1>1, <1>2, <1>7, <1>9 DEF Claims, Same, Takers
<1> QED BY <1>0, <1>2, <1>3, <1>5, <1>6, <1>8, <1>10, Before, LineStep

LEMMA FindsKeeps ==
  ASSUME RoomInv, NEW k \in Keepers, FindsRow(k)
  PROVE  RoomInv'
<1> DEFINE r == errand[k]
           row == shelf[r.place][r.good]
           locked == IF row = Missing THEN r.rows ELSE r.rows \cup {<<r.place, r.good>>}
           seen == [r.found EXCEPT ![r.good] = IF r.op = "count" THEN row ELSE Missing]
           found == [r EXCEPT !.rows = locked, !.found = seen]
           new == IF r.op = "sale" THEN LineDone(found) ELSE [found EXCEPT !.at = "product"]
<1>0. /\ r \in ErrandRows /\ Placed(r) /\ Stands(r) /\ Claims(r) /\ r.at = "find"
      /\ UNCHANGED <<goodsVars, errands>> /\ Unhindered(k)
  BY Before DEF FindsRow
<1>1. r.good \in r.todo /\ r.good \in Goods /\ r.good \in r.named /\ ~Gathers(r)
  BY <1>0 DEF Placed, ErrandRows
<1>2. row \in Nat \cup {Missing} /\ r.place \in Places
  BY <1>0, <1>1 DEF RoomInv, RoomTypeOK, ErrandRows
<1>3. CASE r.op # "count" /\ Pieces(row) < r.lines[r.good]
  BY <1>3, Leaving DEF FindsRow
<1>4. CASE ~(r.op # "count" /\ Pieces(row) < r.lines[r.good])
  <2>0. locked \in SUBSET (Places \X Goods) /\ seen \in [Goods -> Nat \cup {Missing}]
    BY <1>0, <1>1, <1>2 DEF ErrandRows
  <2> HIDE DEF locked, seen
  <2>1. /\ found \in ErrandRows /\ Same(found, r) /\ found.good = r.good
        /\ found.rows = locked /\ found.found = seen /\ found.owns = r.owns
        /\ found.todo = r.todo
    BY <1>0, <1>1, <2>0 DEF ErrandRows, Same
  <2>2. Proceeds(k, new)
    BY <1>0, <1>4 DEF FindsRow, locked, seen
  <2> HIDE DEF found
  <2>3. /\ new \in ErrandRows /\ Same(new, r) /\ new.rows = locked /\ new.found = seen
        /\ new.owns = r.owns
        /\ IF r.op = "sale" THEN new.at = "next" /\ new.todo = r.todo \ {r.good}
           ELSE new.at = "product" /\ new.todo = r.todo /\ new.good = r.good
    BY <2>1 DEF ErrandRows, ErrandSteps, Same, LineDone
  <2>4. /\ \A h \in Goods \ {r.good} : seen[h] = r.found[h]
        /\ r.op = "count" => seen[r.good] = row
    BY <1>0, <1>1 DEF ErrandRows, seen
  <2> HIDE DEF new
  <2>5. ~Gathers(new)
    BY <1>1, <2>3 DEF Gathers, Same
  <2>6. Placed(new)
    BY <1>0, <1>1, <2>3, <2>5 DEF Placed, Same
  <2>7. Seen(new) = Seen(r) \cup {r.good}
    BY <1>0, <1>1, <2>3, <2>5 DEF Seen, Same
  <2>8. r.good \notin Seen(r) /\ Seen(r) \subseteq Goods
    BY <1>0, <1>1 DEF Seen, ErrandRows
  <2>9. r.op \in Takers => row # Missing /\ r.lines[r.good] <= Pieces(row)
    <3>1. /\ r.lines[r.good] \in Nat /\ Pieces(row) \in Nat
          /\ r.op \in Takers => r.lines[r.good] > 0
      BY <1>0, <1>1, <1>2 DEF ErrandRows, Load, Pieces, Placed
    <3>2. r.op \in Takers => r.lines[r.good] <= Pieces(row)
      BY <1>4, <3>1 DEF Takers
    <3> QED BY <3>1, <3>2 DEF Pieces
  <2>12. Stands(new)
    BY <1>0, <2>3, <2>4, <2>7, <2>8, <2>9 DEF Stands, Same, Takers
  <2>10. Claims(new)
    <3>2. ASSUME NEW h \in Seen(new),
                 r.op \in Takers \/ (r.op = "count" /\ seen[h] # Missing)
          PROVE  <<r.place, h>> \in locked
      <4>1. CASE h = r.good
        BY <2>4, <2>9, <3>2, <4>1 DEF locked
      <4>2. CASE h \in Seen(r)
        <5>1. seen[h] = r.found[h]
          BY <2>4, <2>8, <4>2
        <5> QED BY <1>0, <3>2, <4>2, <5>1 DEF Claims, locked
      <4> QED BY <2>7, <4>1, <4>2
    <3>3. ASSUME NEW p \in Places, NEW h \in Goods, Change(new, p, h) # 0,
                 h \notin new.todo \/ (new.at = "mirror" /\ h = new.good)
          PROVE  <<p, h>> \in locked
      <4>1. h \notin r.todo \/ (h = r.good /\ r.op = "sale")
        BY <1>0, <1>1, <2>3, <3>3
      <4>2. CASE h \notin r.todo
        <5>1. Change(new, p, h) = Change(r, p, h)
          BY <1>1, <2>3, <2>4, <4>2 DEF Change, Same
        <5> QED BY <1>0, <3>3, <4>2, <5>1 DEF Claims, locked
      <4>3. CASE h = r.good /\ r.op = "sale"
        <5>1. p = r.place
          BY <2>3, <3>3, <4>3 DEF Change, Same
        <5> QED BY <2>9, <4>3, <5>1 DEF locked, Takers
      <4> QED BY <4>1, <4>2, <4>3
    <3> QED BY <2>3, <3>2, <3>3 DEF Claims, Same
  <2>11. \A j \in Keepers \ {k} : /\ errand[j].rows \cap new.rows = {}
                                  /\ errand[j].owns \cap new.owns = {}
    BY <1>0, <2>3, Before DEF Unhindered, Awaits, InTheWay, locked
  <2> QED BY <1>0, <2>2, <2>3, <2>6, <2>10, <2>11, <2>12, LineStep DEF Past
<1> QED BY <1>3, <1>4

LEMMA Onwards ==
  ASSUME RoomInv, UNCHANGED <<goodsVars, errands>>, NEW k \in Keepers,
         errand[k].at \in {"product", "row", "mirror"}, errand[k].op # "sale",
         NEW new, new \in ErrandRows, Proceeds(k, new), Same(new, errand[k]),
         new.found = errand[k].found, errand[k].rows \subseteq new.rows,
         \/ new.at \in {"row", "mirror"} /\ new.todo = errand[k].todo
              /\ new.good = errand[k].good
         \/ new.at = "next" /\ new.todo = errand[k].todo \ {errand[k].good},
         new.at # "row" => \A p \in Places : Change(errand[k], p, errand[k].good) # 0
                             => <<p, errand[k].good>> \in new.rows,
         \A j \in Keepers \ {k} : /\ errand[j].rows \cap new.rows = {}
                                  /\ errand[j].owns \cap new.owns = {}
  PROVE  RoomInv'
<1> DEFINE r == errand[k]
<1>0. /\ r \in ErrandRows /\ Placed(r) /\ Stands(r) /\ Claims(r)
  BY Before
<1>1. r.good \in r.todo /\ r.good \in Goods /\ r.good \in r.named /\ r.todo \subseteq r.named
  BY <1>0 DEF Placed, ErrandRows
<1>2. Placed(new)
  BY <1>0, <1>1 DEF Placed, Same, Gathers
<1>3. Seen(new) = Seen(r)
  BY <1>0, <1>1 DEF Seen, Same, Gathers
<1>4. Stands(new)
  BY <1>0, <1>3 DEF Stands, Same
<1>5. \A p \in Places, h \in Goods : Change(new, p, h) = Change(r, p, h)
  BY DEF Change, Same
<1>6. Claims(new)
  BY <1>0, <1>1, <1>3, <1>5 DEF Claims, Same
<1> QED BY <1>2, <1>4, <1>6, LineStep DEF Past

LEMMA LocksGoodKeeps ==
  ASSUME RoomInv, NEW k \in Keepers, LocksGood(k)
  PROVE  RoomInv'
<1> DEFINE r == errand[k]
           shared == [r EXCEPT !.shares = @ \cup {r.good}]
<1>0. /\ r \in ErrandRows /\ Placed(r) /\ Stands(r) /\ Claims(r) /\ r.at = "product"
      /\ UNCHANGED <<goodsVars, errands>> /\ Unhindered(k)
  BY Before DEF LocksGood
<1>1. r.good \in r.named /\ r.good \in Goods
  BY <1>0 DEF Placed, ErrandRows
<1>2. \A j \in Keepers \ {k} : /\ errand[j].rows \cap r.rows = {}
                               /\ errand[j].owns \cap r.owns = {}
  BY Before
<1>3. CASE r.op = "sale"
  <2> DEFINE new == [r EXCEPT !.at = "next", !.owns = @ \cup {r.good}, !.good = Missing]
  <2>1. /\ new \in ErrandRows /\ Same(new, r) /\ new.at = "next" /\ new.todo = r.todo
        /\ new.found = r.found /\ new.rows = r.rows /\ new.owns = r.owns \cup {r.good}
    BY <1>0, <1>1 DEF ErrandRows, ErrandSteps, Same
  <2>2. Proceeds(k, new)
    BY <1>3 DEF LocksGood
  <2> HIDE DEF new
  <2>3. Gathers(r) /\ r.todo = r.named
    BY <1>0, <1>3 DEF Placed
  <2>4. Placed(new)
    BY <1>0, <1>3, <2>1, <2>3 DEF Placed, Same
  <2>5. Seen(new) = {}
    BY <2>1, <2>3 DEF Seen, Same
  <2>6. \A p \in Places, h \in Goods : Change(new, p, h) = Change(r, p, h)
    BY <2>1 DEF Change, Same
  <2>7. Stands(new) /\ Claims(new)
    BY <1>0, <2>1, <2>5, <2>6 DEF Stands, Claims
  <2>8. \A j \in Keepers \ {k} : errand[j].owns \cap new.owns = {}
    BY <1>0, <1>2, <1>3, <2>1 DEF Unhindered, Awaits, InTheWay
  <2> QED BY <1>0, <1>2, <2>1, <2>2, <2>4, <2>7, <2>8, LineStep DEF Past
<1>4. CASE r.op # "sale"
  <2>1. /\ shared \in ErrandRows /\ Same(shared, r) /\ shared.at = "product"
        /\ shared.todo = r.todo /\ shared.good = r.good /\ shared.found = r.found
        /\ shared.rows = r.rows /\ shared.owns = r.owns
    BY <1>0, <1>1 DEF ErrandRows, Same
  <2> DEFINE new == IF r.op = "waste" THEN ToMirror(shared)
                    ELSE IF Change(r, Spot(r), r.good) = 0 THEN LineDone(shared)
                    ELSE [shared EXCEPT !.at = "row"]
  <2>2. Proceeds(k, new)
    BY <1>4 DEF LocksGood
  <2> HIDE DEF shared
  <2>3. /\ new \in ErrandRows /\ Same(new, r) /\ new.found = r.found
        /\ new.rows = r.rows /\ new.owns = r.owns
        /\ \/ /\ new.at = "row" /\ r.op # "waste" /\ new.todo = r.todo /\ new.good = r.good
           \/ /\ new.at = "mirror" /\ r.op = "waste" /\ new.todo = r.todo /\ new.good = r.good
           \/ /\ new.at = "next" /\ new.todo = r.todo \ {r.good}
              /\ r.op = "waste" \/ Change(r, Spot(r), r.good) = 0
    BY <1>0, <2>1 DEF ErrandRows, ErrandSteps, Same, ToMirror, LineDone
  <2> HIDE DEF new
  <2>4. r.good \in Seen(r)
    BY <1>0, <1>4 DEF Seen, Gathers
  <2>5. r.op = "waste" => \A p \in Places : Change(r, p, r.good) # 0
                                              => <<p, r.good>> \in new.rows
    BY <1>0, <1>1, <2>3, <2>4 DEF Change, Claims, Takers
  <2>6. Spot(r) = r.place
    BY <1>0 DEF Spot
  <2>7. r.op # "waste" /\ Change(r, Spot(r), r.good) = 0
          => \A p \in Places : Change(r, p, r.good) = 0
    <3>1. r.lines[r.good] \in Nat /\ (r.op = "transfer" => r.place = "warehouse")
      BY <1>0, <1>1 DEF ErrandRows, Load, RoomInv, AllFit, Fit, SlipFits, Past
    <3> QED BY <1>1, <2>6, <3>1 DEF Change
  <2> QED BY <1>0, <1>2, <1>4, <2>2, <2>3, <2>5, <2>7, Onwards
<1> QED BY <1>3, <1>4

LEMMA MirroringFields ==
  ASSUME NEW r, r \in ErrandRows, r.good \in r.todo
  PROVE  LET new == ToMirror(r) IN
         /\ new \in ErrandRows /\ Same(new, r) /\ new.found = r.found
         /\ new.rows = r.rows /\ new.owns = r.owns
         /\ \/ new.at = "mirror" /\ new.todo = r.todo /\ new.good = r.good
            \/ new.at = "next" /\ new.todo = r.todo \ {r.good}
BY DEF ErrandRows, ErrandSteps, Same, ToMirror, LineDone

LEMMA PutsKeeps ==
  ASSUME RoomInv, NEW k \in Keepers, PutsRow(k)
  PROVE  RoomInv'
<1> DEFINE r == errand[k]
           x == <<Spot(r), r.good>>
           put == [r EXCEPT !.rows = @ \cup {x}]
           new == ToMirror(put)
<1>0. /\ r \in ErrandRows /\ Placed(r) /\ Stands(r) /\ Claims(r) /\ r.at = "row"
      /\ UNCHANGED <<goodsVars, errands>> /\ Unhindered(k)
  BY Before DEF PutsRow
<1>1. /\ r.good \in r.todo /\ r.good \in r.named /\ r.good \in Goods /\ r.op # "sale"
      /\ Spot(r) \in Places /\ r.place \in Places
  BY <1>0 DEF Placed, ErrandRows, Spot, Places
<1>2. CASE Pieces(shelf[Spot(r)][r.good]) + Change(r, Spot(r), r.good) < 0
  BY <1>2, Leaving DEF PutsRow
<1>3. CASE ~(Pieces(shelf[Spot(r)][r.good]) + Change(r, Spot(r), r.good) < 0)
  <2>1. /\ put \in ErrandRows /\ Same(put, r) /\ put.todo = r.todo /\ put.good = r.good
        /\ put.found = r.found /\ put.rows = r.rows \cup {x} /\ put.owns = r.owns
    BY <1>0, <1>1 DEF ErrandRows, Same
  <2>2. Proceeds(k, new)
    BY <1>3 DEF PutsRow
  <2> HIDE DEF put
  <2>3. /\ new \in ErrandRows /\ Same(new, r) /\ new.found = r.found
        /\ new.rows = r.rows \cup {x} /\ new.owns = r.owns
        /\ \/ new.at = "mirror" /\ new.todo = r.todo /\ new.good = r.good
           \/ new.at = "next" /\ new.todo = r.todo \ {r.good}
    BY <1>1, <2>1, MirroringFields DEF Same
  <2> HIDE DEF new
  <2>4. ASSUME NEW p \in Places, Change(r, p, r.good) # 0
        PROVE  <<p, r.good>> \in new.rows
    <3>1. CASE r.op = "transfer"
      <4>1. r.good \in Seen(r) /\ Spot(r) = "store" /\ r.place = "warehouse"
        BY <1>0, <3>1 DEF Seen, Gathers, Spot, RoomInv, AllFit, Fit, SlipFits, Past
      <4> QED BY <1>0, <2>3, <3>1, <4>1 DEF Claims, Takers, Places
    <3>2. CASE r.op # "transfer"
      <4>1. Spot(r) = r.place
        BY <3>2 DEF Spot
      <4> QED BY <2>3, <2>4, <3>2, <4>1 DEF Change
    <3> QED BY <3>1, <3>2
  <2>5. \A j \in Keepers \ {k} : /\ errand[j].rows \cap new.rows = {}
                                 /\ errand[j].owns \cap new.owns = {}
    BY <1>0, <2>3, Before DEF Unhindered, Awaits, InTheWay
  <2> QED BY <1>0, <1>1, <2>2, <2>3, <2>4, <2>5, Onwards
<1> QED BY <1>2, <1>3

LEMMA MirrorsKeeps ==
  ASSUME RoomInv, NEW k \in Keepers, Mirrors(k)
  PROVE  RoomInv'
<1> DEFINE r == errand[k]
           owned == [r EXCEPT !.owns = @ \cup {r.good}]
           new == LineDone(owned)
<1>0. /\ r \in ErrandRows /\ Placed(r) /\ Claims(r) /\ r.at = "mirror"
      /\ UNCHANGED <<goodsVars, errands>> /\ Unhindered(k) /\ Proceeds(k, new)
  BY Before DEF Mirrors
<1>1. r.good \in r.todo /\ r.good \in Goods /\ r.op # "sale"
  BY <1>0 DEF Placed, ErrandRows
<1>2. /\ new \in ErrandRows /\ Same(new, r) /\ new.found = r.found /\ new.rows = r.rows
      /\ new.owns = r.owns \cup {r.good}
      /\ new.at = "next" /\ new.todo = r.todo \ {r.good}
  BY <1>0, <1>1 DEF ErrandRows, ErrandSteps, Same, LineDone
<1> HIDE DEF new
<1>3. \A p \in Places : Change(r, p, r.good) # 0 => <<p, r.good>> \in new.rows
  BY <1>0, <1>1, <1>2 DEF Claims
<1>4. \A j \in Keepers \ {k} : /\ errand[j].rows \cap new.rows = {}
                               /\ errand[j].owns \cap new.owns = {}
  BY <1>0, <1>2, Before DEF Unhindered, Awaits, InTheWay
<1> QED BY <1>0, <1>1, <1>2, <1>3, <1>4, Onwards

(***************************************************************************)
(* A commit.  It changes rows it has locked, and the slip it has opened.   *)
(***************************************************************************)
LEMMA ChangesAreSound ==
  ASSUME RoomInv, NEW k \in Keepers, errand[k].at = "next", errand[k].todo = {},
         NEW p \in Places, NEW g \in Goods
  PROVE  /\ Change(errand[k], p, g) \in Int
         /\ Change(errand[k], p, g) # 0 => <<p, g>> \in errand[k].rows
         /\ Pieces(shelf[p][g]) \in Nat
         /\ Pieces(shelf[p][g]) + Change(errand[k], p, g) \in Nat
<1> DEFINE r == errand[k]
<1>0. /\ r \in ErrandRows /\ Placed(r) /\ Stands(r) /\ Claims(r)
      /\ r.op = "transfer" => r.place = "warehouse"
  BY Before DEF RoomInv, AllFit, Fit, SlipFits, Past
<1>1. /\ r.lines[g] \in Nat /\ r.found[g] \in Nat \cup {Missing}
      /\ shelf[p][g] \in Nat \cup {Missing} /\ r.op \in ErrandOps
  BY <1>0 DEF ErrandRows, Load, RoomInv, RoomTypeOK
<1>2. Pieces(shelf[p][g]) \in Nat /\ Pieces(r.found[g]) \in Nat
  BY <1>1 DEF Pieces
<1>3. Change(r, p, g) # 0 => <<p, g>> \in r.rows
  BY <1>0 DEF Claims
<1>4. CASE g \notin r.named
  BY <1>2, <1>3, <1>4 DEF Change
<1>5. CASE g \in r.named
  <2>1. g \in Seen(r)
    BY <1>5 DEF Seen
  <2>2. /\ r.op \in Takers => r.lines[g] <= Pieces(shelf[r.place][g])
        /\ r.op = "count" /\ r.found[g] # Missing => r.found[g] = shelf[r.place][g]
    BY <1>0, <2>1 DEF Stands
  <2>3. CASE r.op = "transfer"
    BY <1>0, <1>1, <1>2, <1>3, <1>5, <2>2, <2>3 DEF Change, Places, Takers
  <2>4. CASE r.op = "count" /\ p = r.place
    <3>1. Change(r, p, g) = r.lines[g] - Pieces(r.found[g])
      BY <1>5, <2>4 DEF Change
    <3>2. r.found[g] = Missing \/ Pieces(r.found[g]) = Pieces(shelf[p][g])
      BY <2>2, <2>4
    <3>3. r.found[g] = Missing => Pieces(r.found[g]) = 0
      BY DEF Pieces
    <3>4. \A lines, found, there \in Nat :
            found = 0 \/ found = there => lines - found \in Int /\ there + (lines - found) \in Nat
      OBVIOUS
    <3>5. Pieces(r.found[g]) = 0 \/ Pieces(r.found[g]) = Pieces(shelf[p][g])
      BY <3>2, <3>3
    <3> QED BY <1>1, <1>2, <1>3, <3>1, <3>4, <3>5
  <2>5. CASE r.op = "receipt" /\ p = r.place
    BY <1>1, <1>2, <1>3, <1>5, <2>5 DEF Change
  <2>6. CASE r.op \in {"waste", "sale"} /\ p = r.place
    BY <1>1, <1>2, <1>3, <1>5, <2>2, <2>6 DEF Change, Takers
  <2>7. CASE (p # r.place /\ r.op # "transfer") \/ r.op = "none"
    BY <1>2, <1>3, <1>5, <2>7 DEF Change
  <2> QED BY <1>1, <2>3, <2>4, <2>5, <2>6, <2>7 DEF ErrandOps
<1> QED BY <1>4, <1>5

LEMMA CommitMovesGoods ==
  ASSUME RoomInv, NEW k \in Keepers, Commits(k)
  PROVE  /\ shelf' \in [Places -> [Goods -> Nat \cup {Missing}]]
         /\ trail' \in [Places -> [Goods -> Int]] /\ Explained'
         /\ \A p \in Places, g \in Goods :
              <<p, g>> \notin errand[k].rows => shelf'[p][g] = shelf[p][g]
<1> DEFINE d(p, g) == Change(errand[k], p, g)
<1>1. \A p \in Places, g \in Goods :
        /\ d(p, g) \in Int /\ (d(p, g) # 0 => <<p, g>> \in errand[k].rows)
        /\ Pieces(shelf[p][g]) \in Nat /\ Pieces(shelf[p][g]) + d(p, g) \in Nat
  BY ChangesAreSound DEF Commits
<1>2. \A p \in Places, g \in Goods :
        /\ shelf'[p][g] = IF d(p, g) = 0 THEN shelf[p][g] ELSE Pieces(shelf[p][g]) + d(p, g)
        /\ trail'[p][g] = trail[p][g] + d(p, g)
  BY DEF Commits
<1> HIDE DEF d
<1>3. \A p \in Places, g \in Goods :
        shelf[p][g] \in Nat \cup {Missing} /\ trail[p][g] \in Int
  BY DEF RoomInv, RoomTypeOK
<1>4. shelf' \in [Places -> [Goods -> Nat \cup {Missing}]]
  <2>1. \A p \in Places, g \in Goods : shelf'[p][g] \in Nat \cup {Missing}
    BY <1>1, <1>2, <1>3
  <2> QED BY <2>1 DEF Commits
<1>5. trail' \in [Places -> [Goods -> Int]]
  <2>1. \A p \in Places, g \in Goods : trail'[p][g] \in Int
    <3>1. \A t, x \in Int : t + x \in Int
      OBVIOUS
    <3> QED BY <1>1, <1>2, <1>3, <3>1
  <2> QED BY <2>1 DEF Commits
<1>6. ASSUME NEW p \in Places, NEW g \in Goods
      PROVE  Pieces(shelf'[p][g]) = Pieces(Opening[p][g]) + trail'[p][g]
  <2>1. Pieces(shelf[p][g]) = Pieces(Opening[p][g]) + trail[p][g]
    BY DEF RoomInv, Explained
  <2>2. Opening[p][g] \in Nat \cup {Missing}
    BY StockAssumption
  <2>3. Pieces(Opening[p][g]) \in Nat
    BY <2>2 DEF Pieces
  <2>4. Pieces(shelf'[p][g]) = Pieces(shelf[p][g]) + d(p, g)
    <3>1. CASE d(p, g) = 0
      <4>1. shelf'[p][g] = shelf[p][g] /\ Pieces(shelf[p][g]) \in Nat
        BY <1>1, <1>2, <3>1
      <4> QED BY <3>1, <4>1
    <3>2. CASE d(p, g) # 0
      BY <1>1, <1>2, <3>2, StockAssumption DEF Pieces
    <3> QED BY <3>1, <3>2
  <2>5. trail'[p][g] = trail[p][g] + d(p, g) /\ d(p, g) \in Int /\ trail[p][g] \in Int
    BY <1>1, <1>2, <1>3
  <2> QED BY <2>1, <2>3, <2>4, <2>5
<1> QED BY <1>1, <1>2, <1>4, <1>5, <1>6 DEF Explained

LEMMA CommitSettlesSlip ==
  ASSUME RoomInv, NEW k \in Keepers, Commits(k)
  PROVE  /\ slips' \in [Slips -> SlipRows] /\ moved' \in [Slips -> Nat]
         /\ SlipsAreRight' /\ MovedOnce'
         /\ \A j \in Keepers \ {k} : SlipFits(errand[j])'
<1> DEFINE r == errand[k]
<1>0. r \in ErrandRows /\ SlipFits(r) /\ r.at = "next" /\ Past(r)
  BY DEF RoomInv, AllFit, Fit, Commits, Past
<1>1. CASE r.slip = Missing
  <2>1. slips' = slips /\ moved' = moved
    BY <1>1 DEF Commits
  <2>2. \A q : SlipFits(q) => SlipFits(q)'
    BY <2>1 DEF SlipFits
  <2>3. \A j \in Keepers \ {k} : errand'[j] = errand[j] /\ SlipFits(errand[j])
    BY DEF Commits, Leaves, Proceeds, RoomInv, RoomTypeOK, AllFit, Fit
  <2> QED BY <2>1, <2>2, <2>3 DEF RoomInv, RoomTypeOK, SlipsAreRight, MovedOnce
<1>2. CASE r.slip # Missing
  <2> DEFINE s == r.slip
  <2>1. /\ s \in Slips /\ r.op \in Kinds
        /\ slips[s] \in SlipRows /\ slips[s].kind = r.op /\ slips[s].at = Ripe(r.op)
    BY <1>0, <1>2 DEF SlipFits, ErrandRows, RoomInv, RoomTypeOK
  <2>2. /\ slips' = [slips EXCEPT ![s].at = Done(r.op)]
        /\ moved' = [moved EXCEPT ![s] = @ + 1]
    BY <1>2 DEF Commits
  <2>3. /\ Done(r.op) \in SlipStages /\ Done(r.op) # Ripe(r.op) /\ Done(r.op) # "none"
        /\ Ripe(r.op) # "none"
    BY DEF Done, Ripe, SlipStages
  <2>4. /\ slips'[s] = [slips[s] EXCEPT !.at = Done(r.op)]
        /\ \A z \in Slips \ {s} : slips'[z] = slips[z] /\ moved'[z] = moved[z]
        /\ moved[s] = 0 /\ moved'[s] = 1
        /\ slips' \in [Slips -> SlipRows] /\ moved' \in [Slips -> Nat]
    <3>1. slips \in [Slips -> SlipRows] /\ moved \in [Slips -> Nat] /\ moved[s] = 0
      BY <2>1, <2>3 DEF RoomInv, RoomTypeOK, MovedOnce
    <3>2. [slips[s] EXCEPT !.at = Done(r.op)] \in SlipRows
      BY <2>1, <2>3 DEF SlipRows
    <3> QED BY <2>1, <2>2, <3>1, <3>2
  <2>5. /\ slips'[s].at = Done(r.op) /\ slips'[s].kind = r.op
        /\ slips'[s].place = slips[s].place
    BY <2>1, <2>4 DEF SlipRows
  <2>6. SlipsAreRight'
    <3>1. slips[s].at # "none"
      BY <2>1, <2>3
    <3>2. ASSUME NEW z \in Slips, slips'[z].at # "none", slips'[z].kind = "transfer"
          PROVE  slips'[z].place = "warehouse"
      <4>1. CASE z = s
        BY <2>1, <2>5, <3>1, <3>2, <4>1 DEF RoomInv, SlipsAreRight
      <4>2. CASE z # s
        BY <2>4, <3>2, <4>2 DEF RoomInv, SlipsAreRight
      <4> QED BY <4>1, <4>2
    <3> QED BY <3>2 DEF SlipsAreRight
  <2>7. MovedOnce'
    BY <2>4, <2>5 DEF RoomInv, MovedOnce
  <2>8. ASSUME NEW j \in Keepers \ {k}
        PROVE  SlipFits(errand[j])'
    <3>1. /\ errand'[j] = errand[j] /\ SlipFits(errand[j]) /\ errand[j] \in ErrandRows
          /\ Past(errand[j]) => errand[j].slip # s
      BY <1>0, <1>2 DEF Commits, Leaves, Proceeds, RoomInv, RoomTypeOK, AllFit, Fit,
         AllApart, Apart
    <3>2. errand[j].slip = Missing \/ errand[j].slip \in Slips
      BY <3>1 DEF ErrandRows
    <3>3. CASE errand[j].slip = s
      BY <2>3, <2>5, <2>1, <3>1, <3>3 DEF SlipFits, Past
    <3>4. CASE errand[j].slip # s
      BY <2>4, <3>1, <3>2, <3>4 DEF SlipFits, Past
    <3> QED BY <3>3, <3>4
  <2> QED BY <2>4, <2>6, <2>7, <2>8
<1> QED BY <1>1, <1>2

LEMMA CommitKeeps ==
  ASSUME RoomInv, NEW k \in Keepers, Commits(k)
  PROVE  RoomInv'
<1>1. /\ errand'[k] = NoErrand /\ \A j \in Keepers \ {k} : errand'[j] = errand[j]
      /\ errand' \in [Keepers -> ErrandRows] /\ errands' = errands
  BY RestFits DEF Commits, Leaves, Proceeds, RoomInv, RoomTypeOK, Fit
<1>2. RoomTypeOK'
  BY <1>1, CommitMovesGoods, CommitSettlesSlip DEF RoomInv, RoomTypeOK
<1>3. ASSUME NEW j \in Keepers \ {k}
      PROVE  Fit(errand[j])'
  <2> DEFINE q == errand[j]
  <2>1. Fit(q) /\ errand[j]' = q /\ SlipFits(errand[j])'
    BY <1>1, CommitSettlesSlip DEF RoomInv, AllFit
  <2>2. \A g \in Seen(q) : q.op \in Takers \/ (q.op = "count" /\ q.found[g] # Missing)
                             => shelf'[q.place][g] = shelf[q.place][g]
    <3>1. /\ q.rows \cap errand[k].rows = {} /\ q.place \in Places /\ Seen(q) \subseteq Goods
      <4>1. q \in ErrandRows /\ Placed(q) /\ q.rows \cap errand[k].rows = {}
        BY Before
      <4> QED BY <4>1 DEF ErrandRows, Seen, Gathers, Placed
    <3>2. ASSUME NEW g \in Seen(q), q.op \in Takers \/ (q.op = "count" /\ q.found[g] # Missing)
          PROVE  shelf'[q.place][g] = shelf[q.place][g]
      <4>1. <<q.place, g>> \in q.rows
        BY <2>1, <3>2 DEF Fit, Claims
      <4>2. <<q.place, g>> \notin errand[k].rows
        BY <3>1, <4>1
      <4> HIDE DEF q
      <4> QED BY <3>1, <4>2, CommitMovesGoods
    <3> QED BY <3>2
  <2>3. Stands(errand[j])'
    BY <2>1, <2>2 DEF Fit, Stands
  <2> QED BY <2>1, <2>3 DEF Fit
<1>4. Fit(errand[k])'
  <2>1. Fit(NoErrand)'
    <3>1. NoErrand.at = "idle" /\ NoErrand.op = "none" /\ NoErrand.slip = Missing
      BY DEF NoErrand
    <3>2. Fit(NoErrand) /\ SlipFits(NoErrand)' /\ Stands(NoErrand)'
      BY RestFits, <3>1 DEF SlipFits, Stands, Takers, Past
    <3> QED BY <3>2 DEF Fit
  <2> QED BY <1>1, <2>1
<1>5. AllFit'
  BY <1>3, <1>4 DEF AllFit
<1>6. AllApart'
  BY <1>1, RestFits, ApartIsMutual DEF RoomInv, AllApart
<1> QED BY <1>2, <1>5, <1>6, CommitMovesGoods, CommitSettlesSlip DEF RoomInv

(***************************************************************************)
(* Slips are asked for and decided.                                        *)
(***************************************************************************)
(* A slip is written anew: never the one whose goods have been moved, nor  *)
(* one that a request has opened.                                          *)
Writes(s, row) ==
  /\ slips' = [slips EXCEPT ![s] = row]
  /\ row.at # "none" /\ row.at # Done(row.kind)
  /\ row.kind = "transfer" => row.place = "warehouse"
  /\ slips[s].at # Done(slips[s].kind)
  /\ slips[s].at # "none" => row.kind = slips[s].kind /\ Decidable(s)
  /\ UNCHANGED <<shelf, trail, moved, errand, errands>>

LEMMA PaperWrites ==
  ASSUME RoomInv, Paperwork
  PROVE  \E s \in Slips, row \in SlipRows : Writes(s, row)
<1>1. ASSUME NEW s \in Slips, NEW kind \in Kinds, NEW place \in Places, NEW load \in Loads,
             AsksForSlip(s, kind, place, load)
      PROVE  \E row \in SlipRows : Writes(s, row)
  <2> DEFINE row == [at |-> "pending", kind |-> kind, place |-> place, load |-> load]
  <2>1. row \in SlipRows /\ row.at = "pending" /\ row.kind = kind /\ row.place = place
    BY StockAssumption DEF SlipRows, SlipStages
  <2>2. slips' = [slips EXCEPT ![s] = row]
    BY <1>1 DEF AsksForSlip
  <2> HIDE DEF row
  <2> QED BY <1>1, <2>1, <2>2 DEF AsksForSlip, Done, Writes
<1>2. ASSUME NEW s \in Slips, ApprovesTransfer(s) \/ RejectsSlip(s)
      PROVE  \E row \in SlipRows : Writes(s, row)
  <2>1. PICK at \in {"approved", "rejected"} :
          /\ slips' = [slips EXCEPT ![s].at = at]
          /\ at = "approved" => slips[s].kind = "transfer"
    BY <1>2 DEF ApprovesTransfer, RejectsSlip
  <2>2. slips \in [Slips -> SlipRows] /\ slips[s] \in SlipRows
    BY DEF RoomInv, RoomTypeOK
  <2> DEFINE row == [slips[s] EXCEPT !.at = at]
  <2>3. /\ row \in SlipRows /\ row.at = at /\ row.kind = slips[s].kind
        /\ row.place = slips[s].place
    BY <2>2 DEF SlipRows, SlipStages
  <2>4. slips' = [slips EXCEPT ![s] = row]
    BY <2>1, <2>2
  <2> HIDE DEF row
  <2>5. slips[s].at = "pending" /\ Decidable(s)
        /\ UNCHANGED <<shelf, trail, moved, errand, errands>>
    BY <1>2 DEF ApprovesTransfer, RejectsSlip
  <2>6. row.kind = "transfer" => row.place = "warehouse"
    BY <2>3, <2>5 DEF RoomInv, SlipsAreRight
  <2> QED BY <2>1, <2>3, <2>4, <2>5, <2>6 DEF Writes, Done
<1> QED BY <1>1, <1>2 DEF Paperwork

LEMMA PaperKeeps ==
  ASSUME RoomInv, Paperwork
  PROVE  RoomInv'
<1>1. PICK s \in Slips, row \in SlipRows : Writes(s, row)
  BY PaperWrites
<1>2. /\ slips' \in [Slips -> SlipRows] /\ slips'[s] = row
      /\ \A z \in Slips \ {s} : slips'[z] = slips[z]
  BY <1>1 DEF Writes, RoomInv, RoomTypeOK
<1>3. RoomTypeOK' /\ Explained' /\ AllApart'
  BY <1>1, <1>2 DEF Writes, RoomInv, RoomTypeOK, Explained, AllApart
<1>4. SlipsAreRight'
  <2>1. ASSUME NEW z \in Slips, slips'[z].at # "none", slips'[z].kind = "transfer"
        PROVE  slips'[z].place = "warehouse"
    <3>1. CASE z = s
      BY <1>1, <1>2, <2>1, <3>1 DEF Writes
    <3>2. CASE z # s
      BY <1>2, <2>1, <3>2 DEF RoomInv, SlipsAreRight
    <3> QED BY <3>1, <3>2
  <2> QED BY <2>1 DEF SlipsAreRight
<1>5. MovedOnce'
  BY <1>1, <1>2 DEF Writes, RoomInv, MovedOnce
<1>6. ASSUME NEW k \in Keepers
      PROVE  Fit(errand[k])'
  <2> DEFINE r == errand[k]
  <2>1. Fit(r) /\ errand'[k] = r /\ shelf' = shelf
    BY <1>1 DEF RoomInv, AllFit, Writes
  <2>2. Stands(errand[k])'
    BY <2>1 DEF Fit, Stands
  <2>3. SlipFits(errand[k])'
    <3>1. r.slip = Missing \/ r.slip \in Slips
      BY <2>1 DEF Fit, ErrandRows
    <3>2. CASE r.slip = s
      <4>1. s # Missing
        BY StockAssumption
      <4>2. slips[s].at # "none" /\ slips[s].kind = r.op
        BY <2>1, <3>2, <4>1 DEF Fit, SlipFits
      <4>3. r.at = "slip" /\ row.kind = slips[s].kind /\ row.at # "none"
        BY <1>1, <3>2, <4>2 DEF Writes, Decidable
      <4> QED BY <1>2, <2>1, <3>2, <4>2, <4>3 DEF Fit, SlipFits, Past
    <3>3. CASE r.slip # s
      <4>1. SlipFits(r) /\ (r.slip = Missing \/ slips'[r.slip] = slips[r.slip])
        BY <1>2, <2>1, <3>1, <3>3 DEF Fit
      <4> HIDE DEF r
      <4>2. SlipFits(r)'
        BY <2>1, <4>1 DEF SlipFits, Past, r
      <4> QED BY <4>2 DEF r
    <3> QED BY <3>2, <3>3
  <2> QED BY <2>1, <2>2, <2>3 DEF Fit
<1>7. AllFit'
  BY <1>6 DEF AllFit
<1> QED BY <1>3, <1>4, <1>5, <1>7 DEF RoomInv

(***************************************************************************)
(* The theorems.                                                           *)
(***************************************************************************)
LEMMA WorkKeeps ==
  ASSUME RoomInv, NEW k \in Keepers, Works(k)
  PROVE  RoomInv'
BY OpeningKeeps, TurnsKeeps, FindsKeeps, LocksGoodKeeps, PutsKeeps, MirrorsKeeps, CommitKeeps
   DEF Works

LEMMA StepKeeps ==
  ASSUME RoomInv, [RoomNext]_roomVars
  PROVE  RoomInv'
<1>1. CASE Paperwork
  BY <1>1, PaperKeeps
<1>2. ASSUME NEW k \in Keepers, GivesUp(k) \/ BreaksTie(k)
      PROVE  RoomInv'
  BY <1>2, Leaving DEF GivesUp, BreaksTie
<1>3. CASE UNCHANGED roomVars
  <2>1. /\ \A q : Fit(q) => Fit(q)'
        /\ shelf' = shelf /\ trail' = trail /\ slips' = slips /\ moved' = moved
        /\ errand' = errand /\ errands' = errands
    BY <1>3 DEF roomVars, Fit, SlipFits, Stands
  <2> QED BY <2>1 DEF RoomInv, RoomTypeOK, SlipsAreRight, AllFit, AllApart, Explained,
                      MovedOnce
<1> QED BY <1>1, <1>2, <1>3, StartKeeps, WorkKeeps DEF RoomNext

LEMMA InitIsRight == RoomInit => RoomInv
<1> SUFFICES ASSUME RoomInit PROVE RoomInv
  OBVIOUS
<1>1. /\ \A k \in Keepers : errand[k] = NoErrand
      /\ \A s \in Slips : slips[s] = NoSlip /\ moved[s] = 0
  BY DEF RoomInit
<1>2. NoSlip \in SlipRows /\ NoSlip.at = "none"
  BY DEF NoSlip, SlipRows, SlipStages, Kinds, Places, Load, NoLoad
<1>3. RoomTypeOK
  <2>1. NoErrand \in ErrandRows
    BY RestFits DEF Fit
  <2>2. errand \in [Keepers -> ErrandRows] /\ errands \in 0 .. ErrandBound
    BY <2>1, StockAssumption DEF RoomInit
  <2>3. slips \in [Slips -> SlipRows] /\ moved \in [Slips -> Nat]
    BY <1>2 DEF RoomInit
  <2>4. /\ shelf \in [Places -> [Goods -> Nat \cup {Missing}]]
        /\ trail \in [Places -> [Goods -> Int]]
    BY StockAssumption DEF RoomInit
  <2> QED BY <2>2, <2>3, <2>4 DEF RoomTypeOK
<1>4. SlipsAreRight /\ MovedOnce
  BY <1>1, <1>2 DEF SlipsAreRight, MovedOnce, Done
<1>5. AllFit /\ AllApart
  BY <1>1, RestFits DEF AllFit, AllApart
<1>6. Explained
  <2>1. ASSUME NEW p \in Places, NEW g \in Goods
        PROVE  Pieces(shelf[p][g]) = Pieces(Opening[p][g]) + trail[p][g]
    <3>1. Opening[p][g] \in Nat \cup {Missing} /\ shelf[p][g] = Opening[p][g] /\ trail[p][g] = 0
      BY StockAssumption DEF RoomInit
    <3>2. Pieces(Opening[p][g]) \in Nat
      BY <3>1 DEF Pieces
    <3> QED BY <3>1, <3>2
  <2> QED BY <2>1 DEF Explained
<1> QED BY <1>3, <1>4, <1>5, <1>6 DEF RoomInv

(* The strengthened invariant: every row a request is going to change is   *)
(* locked by it and by nobody else, and what it has found there stands.    *)
THEOREM ErrandsAreSound == RoomSpec => []RoomInv
<1> QED BY InitIsRight, StepKeeps, PTL DEF RoomSpec

(* For any goods, slips, keepers and bounds: the movements account for the *)
(* stock, the goods of a slip are moved once, and a check stands.          *)
THEOREM TheRoomIsSound == RoomSpec => []StockInv
<1> QED BY ErrandsAreSound, InvIsSound, PTL

(* A count leaves what was counted, of every product that had a row of     *)
(* stock when it was looked for: adjust_stock_in_tx adds a difference, but *)
(* to a row that has not changed.                                          *)
CountLeavesCounted ==
  \A k \in Keepers : LET r == errand[k] IN
    (r.op = "count" /\ errand'[k].op = "none" /\ shelf' # shelf) =>
      \A g \in r.named : r.found[g] # Missing => shelf'[r.place][g] = r.lines[g]

THEOREM CountsAreTrue == RoomSpec => [][CountLeavesCounted]_roomVars
<1>1. ASSUME RoomInv, [RoomNext]_roomVars
      PROVE  [CountLeavesCounted]_roomVars
  <2>1. SUFFICES ASSUME NEW k \in Keepers, errand[k].op = "count", errand'[k].op = "none",
                        shelf' # shelf, NEW g \in errand[k].named, errand[k].found[g] # Missing
                 PROVE  shelf'[errand[k].place][g] = errand[k].lines[g]
    BY DEF CountLeavesCounted
  <2>2. PICK j \in Keepers : Commits(j)
    BY <1>1, <2>1 DEF RoomNext, roomVars, goodsVars, Paperwork, AsksForSlip, ApprovesTransfer,
       RejectsSlip, Starts, StartsReceipt, StartsSale, StartsCount, StartsSlip, Begins, Works,
       LocksSlip, Turns, FindsRow, LocksGood, PutsRow, Mirrors, GivesUp, BreaksTie
  <2>3. j = k
    BY <1>1, <2>1, <2>2 DEF Commits, Leaves, Proceeds, RoomInv, RoomTypeOK
  <2> DEFINE r == errand[k]
  <2>4. /\ r \in ErrandRows /\ Placed(r) /\ Stands(r) /\ r.todo = {}
    BY <1>1, <2>2, <2>3, Before DEF Commits
  <2>5. g \in Goods /\ r.place \in Places /\ g \in Seen(r)
    BY <2>1, <2>4 DEF ErrandRows, Seen
  <2>6. r.found[g] = shelf[r.place][g] /\ r.found[g] \in Nat /\ r.lines[g] \in Nat
    BY <2>1, <2>4, <2>5 DEF Stands, ErrandRows, Load
  <2>7. Change(r, r.place, g) = r.lines[g] - r.found[g]
    BY <2>1, <2>6 DEF Change, Pieces
  <2>8. shelf'[r.place][g] = IF Change(r, r.place, g) = 0 THEN shelf[r.place][g]
                             ELSE Pieces(shelf[r.place][g]) + Change(r, r.place, g)
    BY <2>2, <2>3, <2>5 DEF Commits
  <2>9. Pieces(shelf[r.place][g]) = shelf[r.place][g]
    BY <2>1, <2>6 DEF Pieces
  <2> QED BY <2>6, <2>7, <2>8, <2>9
<1> QED BY <1>1, ErrandsAreSound, PTL DEF RoomSpec
=============================================================================
