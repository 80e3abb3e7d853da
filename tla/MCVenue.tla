------------------------------ MODULE MCVenue ------------------------------
(***************************************************************************)
(* The instances of KioskSession, KioskSocket, CashDrawer, CounterSale and *)
(* StockRoom that TLC checks: a station, its connection, the counter's     *)
(* cash, its sales and the stock.  None of the five reads what another one *)
(* keeps: the provider of a station does the same whether its connection   *)
(* is up or not, the cash and the sales know of no station, a sale sees of *)
(* a register only whether it is open, and of stock that others move only  *)
(* what it finds.  So they are checked side by side: part says which of    *)
(* them runs.                                                              *)
(***************************************************************************)
EXTENDS KioskSession, KioskSocket, CashDrawer, CounterSale, StockRoom, TLC

VARIABLE part

venueVars == <<vars, socketVars, drawerVars, saleVars, roomVars, part>>

(* a basket of everything, and a plan; one piece of each is in the store   *)
Everything == [p \in Products |-> 1]
APlan == [p \in Products |-> 0]
MCBaskets == {Everything, APlan}
MCGoods == {Everything}
MCWorth == [b \in Baskets |-> IF b = APlan THEN 1 ELSE 2]
MCSupply == Everything
(* a load of everything; one piece of each is in the warehouse, and one    *)
(* product has a row in the store                                          *)
MCLoads == {[g \in Goods |-> 1]}
MCOpening ==
  [p \in Places |-> [g \in Goods |->
     IF p = "warehouse" \/ g = CHOOSE x \in Goods : TRUE THEN 1 ELSE Missing]]

Symmetry ==
  Permutations(Players) \cup Permutations(Staff) \cup Permutations(Clerks)
    \cup Permutations(Tellers) \cup Permutations(Sales) \cup Permutations(Products)
    \cup Permutations(Keepers)

ProviderStep == Next /\ UNCHANGED <<socketVars, drawerVars, saleVars, roomVars, part>>
SocketStep == SocketNext /\ UNCHANGED <<vars, drawerVars, saleVars, roomVars, part>>
DrawerStep == DrawerNext /\ UNCHANGED <<vars, socketVars, saleVars, roomVars, part>>
CounterStep == SaleNext /\ UNCHANGED <<vars, socketVars, drawerVars, roomVars, part>>
RoomStep == RoomNext /\ UNCHANGED <<vars, socketVars, drawerVars, saleVars, part>>

(* the other parts start in one of their initial states                    *)
Quiet == sold = [s \in Sales |-> Book!Blank] /\ orders = [o \in Orders |-> NoOrderYet]
           /\ ceiling = CHOOSE l \in Limits : TRUE

AllInit == Init /\ SocketInit /\ DrawerInit /\ SaleInit /\ RoomInit

MCInit ==
  /\ AllInit
  /\ part \in {"provider", "socket", "drawer", "counter", "room"}
  /\ part # "counter" => Quiet
SocketAlone == AllInit /\ Quiet /\ part = "socket"
DrawerAlone == AllInit /\ Quiet /\ part = "drawer"
FairInit ==
  /\ AllInit
  /\ part \in {"provider", "counter", "room"}
  /\ part # "counter" => Quiet

MCSpec ==
  MCInit /\ [][\/ part = "provider" /\ ProviderStep
               \/ part = "socket" /\ SocketStep
               \/ part = "drawer" /\ DrawerStep
               \/ part = "counter" /\ CounterStep
               \/ part = "room" /\ RoomStep]_venueVars

(* the station, the counter and the stock under their fairness             *)
MCFairSpec ==
  /\ FairInit
  /\ [][\/ part = "provider" /\ ProviderStep
        \/ part = "counter" /\ CounterStep
        \/ part = "room" /\ RoomStep]_venueVars
  /\ part = "provider" => Fairness   \* without requests SaleFairness asks nothing
  /\ SaleFairness
  /\ RoomFairness                     \* nor does RoomFairness
(* one of them alone *)
MCSocketSpec == SocketAlone /\ [][SocketStep]_venueVars
MCDrawerSpec == DrawerAlone /\ [][DrawerStep]_venueVars
=============================================================================
