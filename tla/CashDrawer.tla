----------------------------- MODULE CashDrawer -----------------------------
(***************************************************************************)
(* The counter's cash: shifts of the staff, their registers, and deposits  *)
(* taken out of a register until an admin decides on them (ShiftService,   *)
(* CashRegisterService, CashDepositService and the handlers of shifts and  *)
(* staff login that call them in turn).                                    *)
(*                                                                         *)
(* A call is a request in flight; every statement it sends is a step, the  *)
(* sums of one register are read in one.  Nothing is locked and no call is *)
(* a transaction: calls interleave, and one may be cut off at any point.   *)
(* An entry and a deposit are worth one unit of cash.                      *)
(***************************************************************************)
EXTENDS Integers, FiniteSets

CONSTANTS
    Staff,
    Clerks,        \* requests in flight at a time
    Deposits,
    Counts,        \* amounts a person may count or type in
    LastShift,     \* bound: shifts
    LastRegister,  \* bound: registers
    CallBound,     \* bound: requests
    RaceBound,     \* bound: requests, once two have been in flight at once
    Nobody

ASSUME DrawerAssumption ==
  /\ LastShift \in Nat /\ LastRegister \in Nat
  /\ CallBound \in Nat /\ RaceBound \in Nat
  /\ IsFiniteSet(Deposits)
  /\ Counts \subseteq Int /\ Nobody \notin Staff \cup Deposits

VARIABLES
    shift, register, deposit,   \* rows
    latest,      \* the closed register whose row was updated last
    closedLast,  \* the register that was closed last
    call,        \* requests
    calls,       \* begun so far
    raced        \* two of them have been in flight at once

rows == <<shift, register, deposit, latest, closedLast>>
drawerVars == <<rows, call, calls, raced>>

(* numbers are in the order of creation; 0 is no row *)
Shifts == 1..LastShift
Registers == 1..LastRegister

ShiftRows == [user: Staff \cup {Nobody},
              status: {"none", "active", "completed", "force_closed"}]
RegisterRows == [shift: 0..LastShift,
                 status: {"none", "open", "closed", "reconciled"},
                 opening: Int, closing: Int, expected: Int,
                 cashIn: Nat, cashOut: Nat]   \* entries without deposits
DepositRows == [register: 0..LastRegister,
                status: {"none", "pending", "approved", "rejected"},
                out: BOOLEAN, back: BOOLEAN]  \* its entries

NoShift == [user |-> Nobody, status |-> "none"]
NoRegister == [shift |-> 0, status |-> "none", opening |-> 0, closing |-> 0,
               expected |-> 0, cashIn |-> 0, cashOut |-> 0]
NoDeposit == [register |-> 0, status |-> "none", out |-> FALSE, back |-> FALSE]

Operations == {"login", "relogin", "clockIn", "clockOut", "forceClose", "close",
               "closeShift", "handover", "open", "openingBalance", "entry",
               "initiate", "approve", "reject", "reconcile"}
Stages == {"idle", "lost", "clockIn", "active", "startShift",
           "stale", "lastClosed", "carrySum",
           "ensure", "openingCheck", "openingWrite", "validate", "exists",
           "openRegister", "myShift", "myRegister", "depositCheck",
           "depositCreate", "depositOut", "closeCheck", "closeSum",
           "closeWrite", "clockOut", "autoFind", "autoSum", "endShift",
           "entryCheck", "entryWrite", "approve", "reject", "rejectFind",
           "putBack", "recalcRead", "recalcWrite", "reconcileCheck",
           "reconcile"}

Calls == [op: Operations, at: Stages, user: Staff \cup {Nobody},
          peer: Staff \cup {Nobody}, shift: 0..LastShift,
          register: 0..LastRegister, dep: Deposits \cup {Nobody},
          source: 0..LastRegister,  \* carried over from
          count: Int, sum: Int,
          withdraw: BOOLEAN,        \* a deposit goes with the shift's end
          auto: BOOLEAN]            \* closing for the end of the shift
NoCall == [op |-> "open", at |-> "idle", user |-> Nobody, peer |-> Nobody,
           shift |-> 0, register |-> 0, dep |-> Nobody, source |-> 0,
           count |-> 0, sum |-> 0, withdraw |-> FALSE, auto |-> FALSE]

(***************************************************************************)
(* Queries.                                                                *)
(***************************************************************************)
ActiveOf(u) == {s \in Shifts : shift[s].user = u /\ shift[s].status = "active"}
OfShift(s) == {r \in Registers : register[r].shift = s /\ s # 0}

(* find_by_shift: the one created last *)
Newest(s) == {r \in OfShift(s) : \A q \in OfShift(s) : q <= r}
FindByShift(s) == IF Newest(s) = {} THEN 0 ELSE CHOOSE r \in Newest(s) : TRUE

StatusOf(r) == IF r \in Registers THEN register[r].status ELSE "none"
Taken(r) == Cardinality({d \in Deposits : deposit[d].register = r /\ deposit[d].out})
PutBackInto(r) ==
  Cardinality({d \in Deposits : deposit[d].register = r /\ deposit[d].back})

(* what should be counted at closing: deposits are still in the drawer *)
Ledger(r) ==
  register[r].opening + register[r].cashIn + PutBackInto(r) - register[r].cashOut

(* what a sum over some of the entries gives, from an opening *)
EarlierSums(r, opening) ==
  {opening + i - o : i \in 0..(register[r].cashIn + PutBackInto(r)),
                     o \in 0..register[r].cashOut}

(* what the next register begins with: all deposits are gone by then *)
Float(r) == register[r].closing - Taken(r)

FreshShifts == {s \in Shifts : shift[s].status = "none"}
FreshRegisters == {r \in Registers : register[r].status = "none"}
FreshDeposits == {d \in Deposits : deposit[d].status = "none"}

(***************************************************************************)
(* A step of call c, which waits at stage.                                 *)
(***************************************************************************)
At(c, stage) == call[c].at = stage
Becomes(c, next) == call' = [call EXCEPT ![c] = next]
Goto(c, stage) == Becomes(c, [call[c] EXCEPT !.at = stage])
Returns(c) == Becomes(c, NoCall)
SameCounters == UNCHANGED <<calls, raced>>
Reads == UNCHANGED rows /\ SameCounters

(***************************************************************************)
(* ShiftService.                                                           *)
(***************************************************************************)
ClockIn(c) ==
  /\ At(c, "clockIn")
  /\ IF ActiveOf(call[c].user) = {} THEN Goto(c, "startShift")
     ELSE IF call[c].op = "login" THEN Goto(c, "active")
     ELSE Returns(c)
  /\ Reads

(* of several active shifts any may be found *)
FindActive(c) ==
  /\ At(c, "active")
  /\ \/ ActiveOf(call[c].user) = {} /\ Returns(c)
     \/ \E s \in ActiveOf(call[c].user) :
          Becomes(c, [call[c] EXCEPT !.at = "stale", !.shift = s])
  /\ Reads

(* a handover carries over from the register it closed *)
StartShift(c) ==
  /\ At(c, "startShift") /\ FreshShifts # {}
  /\ LET s == CHOOSE s \in FreshShifts : TRUE
     IN /\ shift' = [shift EXCEPT ![s] = [user |-> call[c].user, status |-> "active"]]
        /\ Becomes(c, [call[c] EXCEPT !.shift = s,
              !.at = IF call[c].op = "handover" THEN "carrySum" ELSE "lastClosed"])
  /\ UNCHANGED <<register, deposit, latest, closedLast>> /\ SameCounters

(* a login that finds a shift ends it if its register is closed already *)
StaleShift(c) ==
  /\ At(c, "stale")
  /\ IF StatusOf(FindByShift(call[c].shift)) = "closed"
     THEN Becomes(c, [call[c] EXCEPT !.op = "relogin", !.at = "clockOut"])
     ELSE Goto(c, "lastClosed")
  /\ Reads

ClockOut(c) ==
  /\ At(c, "clockOut")
  /\ \/ ActiveOf(call[c].user) = {} /\ Returns(c)
     \/ \E s \in ActiveOf(call[c].user) :
          Becomes(c, [call[c] EXCEPT !.at = "autoFind", !.shift = s])
  /\ Reads

(* auto_close_register: what goes wrong in it is ignored *)
AutoFind(c) ==
  /\ At(c, "autoFind")
  /\ LET r == FindByShift(call[c].shift)
     IN IF StatusOf(r) = "open"
        THEN Becomes(c, [call[c] EXCEPT !.at = "autoSum", !.register = r,
                                        !.count = register[r].opening])
        ELSE Goto(c, "endShift")
  /\ Reads

(* get_expected_closing: the sum of now, or one of before that is still    *)
(* cached; when the query fails, the opening that was read is taken        *)
AutoSum(c) ==
  /\ At(c, "autoSum")
  /\ LET r == call[c].register
     IN \E opening \in {register[r].opening, call[c].count} :
          \E n \in EarlierSums(r, opening) :
            Becomes(c, [call[c] EXCEPT !.at = "closeCheck", !.auto = TRUE,
                                       !.count = n])
  /\ Reads

(* after a handover's end of shift the validator's begins *)
EndShift(c) ==
  /\ At(c, "endShift")
  /\ IF shift[call[c].shift].status # "active"
     THEN UNCHANGED shift /\ Returns(c)
     ELSE /\ shift' = [shift EXCEPT ![call[c].shift].status =
                         IF call[c].op = "forceClose" THEN "force_closed"
                         ELSE "completed"]
          /\ CASE call[c].op = "relogin" -> Goto(c, "clockIn")
               [] call[c].op = "handover" ->
                    Becomes(c, [call[c] EXCEPT !.at = "clockIn",
                                               !.user = call[c].peer])
               [] OTHER -> Returns(c)
  /\ UNCHANGED <<register, deposit, latest, closedLast>> /\ SameCounters

(***************************************************************************)
(* CashRegisterService.                                                    *)
(***************************************************************************)
(* the order of updatedAt: a register that was reconciled, or whose totals *)
(* were computed again, comes after one that was closed since              *)
LastClosed(c) ==
  /\ At(c, "lastClosed")
  /\ Becomes(c, [call[c] EXCEPT !.at = "carrySum", !.source = latest])
  /\ Reads

CarrySum(c) ==
  /\ At(c, "carrySum")
  /\ Becomes(c, [call[c] EXCEPT !.at = "ensure",
        !.sum = IF call[c].source = 0 THEN 0 ELSE Float(call[c].source)])
  /\ Reads

(* faulty: the register of the shift will do, open or not                  *)
EnsureAny(c) ==
  /\ At(c, "ensure")
  /\ LET r == FindByShift(call[c].shift)
     IN IF r = 0 THEN Goto(c, "validate") ELSE Returns(c)
  /\ Reads

(* an open register's opening balance is replaced by what is carried over *)
Ensure(c) ==
  /\ At(c, "ensure")
  /\ LET r == FindByShift(call[c].shift)
     IN IF StatusOf(r) # "open" THEN Goto(c, "validate")
        ELSE IF register[r].opening = call[c].sum THEN Returns(c)
        ELSE Becomes(c, [call[c] EXCEPT !.at = "openingCheck", !.register = r])
  /\ Reads

OpeningCheck(c) ==
  /\ At(c, "openingCheck")
  /\ IF StatusOf(call[c].register) = "open" THEN Goto(c, "openingWrite")
     ELSE Returns(c)
  /\ Reads

OpeningWrite(c) ==
  /\ At(c, "openingWrite")
  /\ register' = IF StatusOf(call[c].register) = "open"
                 THEN [register EXCEPT ![call[c].register].opening = call[c].sum]
                 ELSE register
  /\ Returns(c)
  /\ UNCHANGED <<shift, deposit, latest, closedLast>> /\ SameCounters

Validate(c) ==
  /\ At(c, "validate")
  /\ IF shift[call[c].shift].status = "active" THEN Goto(c, "exists")
     ELSE Returns(c)
  /\ Reads

Exists(c) ==
  /\ At(c, "exists")
  /\ IF StatusOf(FindByShift(call[c].shift)) = "open" THEN Returns(c)
     ELSE Goto(c, "openRegister")
  /\ Reads

OpenRegister(c) ==
  /\ At(c, "openRegister")
  /\ \E r \in FreshRegisters :
       /\ \A q \in FreshRegisters : r <= q
       /\ register' = [register EXCEPT ![r] =
                         [NoRegister EXCEPT !.shift = call[c].shift,
                                            !.status = "open",
                                            !.opening = call[c].sum]]
  /\ Returns(c)
  /\ UNCHANGED <<shift, deposit, latest, closedLast>> /\ SameCounters

CloseCheck(c) ==
  /\ At(c, "closeCheck")
  /\ IF StatusOf(call[c].register) = "open" THEN Goto(c, "closeSum")
     ELSE IF call[c].auto THEN Goto(c, "endShift")
     ELSE Returns(c)
  /\ Reads

CloseSum(c) ==
  /\ At(c, "closeSum")
  /\ Becomes(c, [call[c] EXCEPT !.at = "closeWrite",
                                !.sum = Ledger(call[c].register)])
  /\ Reads

Closing(c) ==
  [register EXCEPT ![call[c].register] =
     [@ EXCEPT !.status = "closed", !.closing = call[c].count,
               !.expected = call[c].sum]]

(* faulty: the row is updated whatever its status                          *)
CloseAnyway(c) ==
  /\ At(c, "closeWrite")
  /\ register' = Closing(c)
  /\ latest' = call[c].register /\ closedLast' = call[c].register
  /\ Returns(c)
  /\ UNCHANGED <<shift, deposit>> /\ SameCounters

CloseWrite(c) ==
  /\ At(c, "closeWrite")
  /\ IF StatusOf(call[c].register) = "open"
     THEN /\ register' = Closing(c)
          /\ latest' = call[c].register /\ closedLast' = call[c].register
          /\ CASE call[c].auto -> Goto(c, "endShift")
               [] call[c].op \in {"closeShift", "handover"} ->
                    Becomes(c, [call[c] EXCEPT !.at = "clockOut",
                                               !.source = call[c].register])
               [] OTHER -> Returns(c)
     ELSE /\ UNCHANGED <<register, latest, closedLast>>
          /\ IF call[c].auto THEN Goto(c, "endShift") ELSE Returns(c)
  /\ UNCHANGED <<shift, deposit>> /\ SameCounters

(* faulty: the status is not looked at                                     *)
EntryUnchecked(c) == At(c, "entryCheck") /\ Goto(c, "entryWrite") /\ Reads

(* a cash sale, or an entry made by hand *)
EntryCheck(c) ==
  /\ At(c, "entryCheck")
  /\ IF StatusOf(call[c].register) = "open" THEN Goto(c, "entryWrite")
     ELSE Returns(c)
  /\ Reads

EntryWrite(c) ==
  /\ At(c, "entryWrite")
  /\ \/ /\ call[c].count = 0
        /\ register' = [register EXCEPT ![call[c].register].cashOut = @ + 1]
     \/ /\ call[c].count # 0
        /\ register' = [register EXCEPT ![call[c].register].cashIn = @ + 1]
  /\ Returns(c)
  /\ UNCHANGED <<shift, deposit, latest, closedLast>> /\ SameCounters

ReconcileCheck(c) ==
  /\ At(c, "reconcileCheck")
  /\ IF StatusOf(call[c].register) = "closed" THEN Goto(c, "reconcile")
     ELSE Returns(c)
  /\ Reads

ReconcileRegister(c) ==
  /\ At(c, "reconcile")
  /\ IF StatusOf(call[c].register) = "closed"
     THEN /\ register' = [register EXCEPT ![call[c].register].status = "reconciled"]
          /\ latest' = call[c].register
     ELSE UNCHANGED <<register, latest>>
  /\ Returns(c)
  /\ UNCHANGED <<shift, deposit, closedLast>> /\ SameCounters

(***************************************************************************)
(* CashDepositService.                                                     *)
(***************************************************************************)
DepositCheck(c) ==
  /\ At(c, "depositCheck")
  /\ IF StatusOf(call[c].register) = "open" THEN Goto(c, "depositCreate")
     ELSE Returns(c)
  /\ Reads

DepositCreate(c) ==
  /\ At(c, "depositCreate") /\ FreshDeposits # {}
  /\ LET d == CHOOSE d \in FreshDeposits : TRUE
     IN /\ deposit' = [deposit EXCEPT ![d] =
                         [NoDeposit EXCEPT !.register = call[c].register,
                                           !.status = "pending"]]
        /\ Becomes(c, [call[c] EXCEPT !.at = "depositOut", !.dep = d])
  /\ UNCHANGED <<shift, register, latest, closedLast>> /\ SameCounters

(* admins were told of the deposit before its entry is written *)
DepositOut(c) ==
  /\ At(c, "depositOut")
  /\ deposit' = [deposit EXCEPT ![call[c].dep].out = TRUE]
  /\ IF call[c].op = "initiate" THEN Returns(c) ELSE Goto(c, "closeCheck")
  /\ UNCHANGED <<shift, register, latest, closedLast>> /\ SameCounters

(* faulty: a deposit that was decided on is decided on again               *)
DecideAnyway(c, stage, status, next) ==
  /\ At(c, stage)
  /\ deposit' = [deposit EXCEPT ![call[c].dep].status = status]
  /\ Goto(c, next)
  /\ UNCHANGED <<shift, register, latest, closedLast>> /\ SameCounters

Decide(c, stage, status, next) ==
  /\ At(c, stage)
  /\ IF deposit[call[c].dep].status = "pending"
     THEN /\ deposit' = [deposit EXCEPT ![call[c].dep].status = status]
          /\ Goto(c, next)
     ELSE UNCHANGED deposit /\ Returns(c)
  /\ UNCHANGED <<shift, register, latest, closedLast>> /\ SameCounters

Approve(c) == Decide(c, "approve", "approved", "recalcRead")
Reject(c) == Decide(c, "reject", "rejected", "rejectFind")

RejectFind(c) ==
  /\ At(c, "rejectFind")
  /\ Goto(c, IF StatusOf(call[c].register) = "open" THEN "putBack"
             ELSE "recalcRead")
  /\ Reads

PutBack(c) ==
  /\ At(c, "putBack")
  /\ deposit' = [deposit EXCEPT ![call[c].dep].back = TRUE]
  /\ Goto(c, "recalcRead")
  /\ UNCHANGED <<shift, register, latest, closedLast>> /\ SameCounters

RecalcRead(c) ==
  /\ At(c, "recalcRead")
  /\ IF StatusOf(call[c].register) \in {"closed", "reconciled"}
     THEN Becomes(c, [call[c] EXCEPT !.at = "recalcWrite",
                                    !.sum = Ledger(call[c].register)])
     ELSE Returns(c)
  /\ Reads

RecalcWrite(c) ==
  /\ At(c, "recalcWrite")
  /\ register' = [register EXCEPT ![call[c].register].expected = call[c].sum]
  /\ latest' = call[c].register
  /\ Returns(c)
  /\ UNCHANGED <<shift, deposit, closedLast>> /\ SameCounters

(***************************************************************************)
(* The handlers that end a shift with a count: close_shift and             *)
(* handover_shift.                                                         *)
(***************************************************************************)
MyShift(c) ==
  /\ At(c, "myShift")
  /\ \/ ActiveOf(call[c].user) = {} /\ Returns(c)
     \/ \E s \in ActiveOf(call[c].user) :
          Becomes(c, [call[c] EXCEPT !.at = "myRegister", !.shift = s])
  /\ Reads

(* a handover of a register that is closed already must name its count *)
MyRegister(c) ==
  /\ At(c, "myRegister")
  /\ LET r == FindByShift(call[c].shift)
         mine == [call[c] EXCEPT !.register = r]
     IN CASE StatusOf(r) = "open" ->
               Becomes(c, [mine EXCEPT !.at = IF call[c].withdraw
                                              THEN "depositCheck"
                                              ELSE "closeCheck"])
          [] StatusOf(r) \in {"closed", "reconciled"} ->
               IF call[c].op = "handover" /\ register[r].closing # call[c].count
               THEN Returns(c)
               ELSE Becomes(c, [mine EXCEPT !.at = "clockOut", !.source = r])
          [] OTHER -> Goto(c, "clockOut")
  /\ Reads

(***************************************************************************)
(* Requests.                                                               *)
(***************************************************************************)
Existing == {r \in Registers : register[r].status # "none"}
Begun == {s \in Shifts : shift[s].status # "none"}

Asks(op, at) == [NoCall EXCEPT !.op = op, !.at = at]

StaffAsks(c) ==
  \/ \E u \in Staff, op \in {"login", "clockIn"} :
       Becomes(c, [Asks(op, "clockIn") EXCEPT !.user = u])
  \/ \E u \in Staff : Becomes(c, [Asks("clockOut", "clockOut") EXCEPT !.user = u])
  \/ \E u \in Staff, n \in Counts, w \in BOOLEAN :
       Becomes(c, [Asks("closeShift", "myShift") EXCEPT
                     !.user = u, !.count = n, !.withdraw = w])
  \/ \E u \in Staff, n \in Counts, w \in BOOLEAN : \E v \in Staff \ {u} :
       Becomes(c, [Asks("handover", "myShift") EXCEPT
                     !.user = u, !.peer = v, !.count = n, !.withdraw = w])
  \/ \E s \in Begun : Becomes(c, [Asks("forceClose", "autoFind") EXCEPT !.shift = s])
  \/ \E s \in Begun, n \in Counts :
       Becomes(c, [Asks("open", "validate") EXCEPT !.shift = s, !.sum = n])

RegisterAsks(c) ==
  \E r \in Existing :
    \/ \E n \in Counts :
         \/ Becomes(c, [Asks("close", "closeCheck") EXCEPT !.register = r, !.count = n])
         \/ Becomes(c, [Asks("openingBalance", "openingCheck") EXCEPT
                          !.register = r, !.sum = n])
    \/ \E n \in {0, 1} :
         Becomes(c, [Asks("entry", "entryCheck") EXCEPT !.register = r, !.count = n])
    \/ Becomes(c, [Asks("initiate", "depositCheck") EXCEPT !.register = r])
    \/ Becomes(c, [Asks("reconcile", "reconcileCheck") EXCEPT !.register = r])

DepositAsks(c) ==
  \E d \in Deposits \ FreshDeposits, op \in {"approve", "reject"} :
    Becomes(c, [Asks(op, op) EXCEPT !.dep = d, !.register = deposit[d].register])

Waits(c) == call[c].at \in {"idle", "lost"}

Begin(c) ==
  /\ Waits(c) /\ calls < CallBound
  /\ StaffAsks(c) \/ RegisterAsks(c) \/ DepositAsks(c)
  /\ calls' = calls + 1
  /\ raced' = (raced \/ \E o \in Clerks : o # c /\ ~Waits(o))
  /\ raced' => calls < RaceBound
  /\ UNCHANGED rows

(* the client goes away, a statement fails, or the process stops *)
CutOff(c) ==
  /\ ~Waits(c)
  /\ Becomes(c, [NoCall EXCEPT !.at = "lost"])
  /\ Reads

DrawerInit ==
  /\ shift = [s \in Shifts |-> NoShift]
  /\ register = [r \in Registers |-> NoRegister]
  /\ deposit = [d \in Deposits |-> NoDeposit]
  /\ latest = 0 /\ closedLast = 0
  /\ call = [c \in Clerks |-> NoCall]
  /\ calls = 0 /\ raced = FALSE

ShiftStep(c) ==
  \/ ClockIn(c) \/ FindActive(c) \/ StartShift(c) \/ StaleShift(c) \/ ClockOut(c)
  \/ AutoFind(c) \/ AutoSum(c) \/ EndShift(c) \/ MyShift(c) \/ MyRegister(c)

RegisterStep(c) ==
  \/ LastClosed(c) \/ CarrySum(c) \/ Ensure(c) \/ OpeningCheck(c)
  \/ OpeningWrite(c) \/ Validate(c) \/ Exists(c) \/ OpenRegister(c)
  \/ CloseCheck(c) \/ CloseSum(c) \/ CloseWrite(c) \/ EntryCheck(c)
  \/ EntryWrite(c) \/ ReconcileCheck(c) \/ ReconcileRegister(c)

DepositStep(c) ==
  \/ DepositCheck(c) \/ DepositCreate(c) \/ DepositOut(c) \/ Approve(c)
  \/ Reject(c) \/ RejectFind(c) \/ PutBack(c) \/ RecalcRead(c) \/ RecalcWrite(c)

DrawerNext ==
  \E c \in Clerks :
     Begin(c) \/ CutOff(c) \/ ShiftStep(c) \/ RegisterStep(c) \/ DepositStep(c)

DrawerSpec == DrawerInit /\ [][DrawerNext]_drawerVars

(***************************************************************************)
(* Properties                                                              *)
(***************************************************************************)
DrawerTypeOK ==
  /\ shift \in [Shifts -> ShiftRows]
  /\ register \in [Registers -> RegisterRows]
  /\ deposit \in [Deposits -> DepositRows]
  /\ latest \in 0..LastRegister /\ closedLast \in 0..LastRegister
  /\ call \in [Clerks -> Calls]
  /\ calls \in Nat /\ raced \in BOOLEAN

(* CashDepositService: however approvals, rejections and the withdrawal    *)
(* itself interleave or are cut off, cash is put back only for a deposit   *)
(* that was rejected: never for one that an admin has taken to the bank.   *)
PutBackIfRejected ==
  \A d \in Deposits : deposit[d].back => deposit[d].status = "rejected"

(* What it rests on: a rejection under way has been decided for good, and  *)
(* a sum is taken over a register there is.                                *)
Sound(k) ==
  /\ k.at \in {"rejectFind", "putBack"} =>
       k.dep \in Deposits /\ deposit[k.dep].status = "rejected"
  /\ k.at \in {"approve", "reject"} => k.dep \in Deposits
  /\ k.at \in {"autoSum", "closeSum"} => k.register \in Registers

Decisions == \A c \in Clerks : Sound(call[c])

DrawerInv == DrawerTypeOK /\ Decisions /\ PutBackIfRejected

RegistersStay ==
  \A r \in Registers : register[r].status \in {"closed", "reconciled"} =>
     /\ register'[r].status \in {"closed", "reconciled"}
     /\ register'[r].opening = register[r].opening
     /\ register'[r].closing = register[r].closing
ShiftsStay ==
  \A s \in Shifts :
     shift[s].status \in {"completed", "force_closed"} => shift'[s] = shift[s]
DepositsStay ==
  \A d \in Deposits : deposit[d].status \in {"approved", "rejected"} =>
     deposit'[d].status = deposit[d].status

(* What was settled stays settled: the opening and the count of a register *)
(* that was closed, a shift that ended, an admin's decision, whatever the  *)
(* calls still in flight decided on before.                                *)
SettledIsFinal == [][RegistersStay /\ ShiftsStay /\ DepositsStay]_drawerVars

(* cash_register_repo: what a closed register was expected to hold is the  *)
(* sum of all its entries, through deposits decided on before and after it *)
(* was closed, as long as calls do not overlap.                            *)
ClosedIsCounted ==
  ~raced => \A r \in Registers :
     register[r].status \in {"closed", "reconciled"} =>
        register[r].expected = Ledger(r)

(* login_staff: whatever earlier calls were cut off and left behind, a     *)
(* login that comes to its end leaves its user with an active shift and an *)
(* open register on it, as long as calls do not overlap.                   *)
Serves(u) == \E s \in ActiveOf(u) : StatusOf(FindByShift(s)) = "open"
LoginRecovers ==
  [][\A c \in Clerks, u \in Staff :
       /\ ~raced /\ call[c].user = u /\ call[c].op \in {"login", "relogin"}
       /\ call'[c].at = "idle"
       => Serves(u)']_drawerVars

(* cash_register_repo.rs of find_last_closed_register: "Most recently      *)
(* closed/reconciled register site-wide (single drawer carry-forward)."    *)
CarriedFromLastClosed ==
  [][\A c \in Clerks :
       At(c, "lastClosed") /\ call'[c].at = "carrySum"
         => \/ call'[c].source = closedLast
            \/ StatusOf(call'[c].source) = "reconciled"]_drawerVars
=============================================================================
