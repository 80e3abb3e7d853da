------------------------- MODULE CashDrawer_proof -------------------------
(***************************************************************************)
(* For any staff, deposits, amounts and bounds: cash is put back only for  *)
(* a deposit that was rejected, and what was settled stays settled.  Both  *)
(* rest on DrawerInv, which every step of every call preserves: a rejected *)
(* deposit can be decided on no more, so a rejection that was cut into     *)
(* steps still stands when it puts the cash back.  While calls take turns, *)
(* a closed register is counted and a login recovers: TurnInv.             *)
(***************************************************************************)
EXTENDS CashDrawer, FiniteSetTheorems, TLAPS

(***************************************************************************)
(* Queries                                                                 *)
(***************************************************************************)
(* Sums over the deposits of a register are numbers. *)
LEMMA SumsAreNumbers ==
  ASSUME NEW r
  PROVE  Taken(r) \in Nat /\ PutBackInto(r) \in Nat
<1>1. IsFiniteSet(Deposits)
  BY DrawerAssumption
<1>2. \A S : S \subseteq Deposits => Cardinality(S) \in Nat
  BY <1>1, FS_Subset, FS_CardinalityType
<1>3. {d \in Deposits : deposit[d].register = r /\ deposit[d].out} \subseteq Deposits
  OBVIOUS
<1>4. {d \in Deposits : deposit[d].register = r /\ deposit[d].back} \subseteq Deposits
  OBVIOUS
<1>5. Taken(r) \in Nat
  BY <1>2, <1>3 DEF Taken
<1>6. PutBackInto(r) \in Nat
  BY <1>2, <1>4 DEF PutBackInto
<1> QED BY <1>5, <1>6

(* What a register is expected to hold, and what it hands on, are amounts. *)
LEMMA AmountsAreNumbers ==
  ASSUME DrawerTypeOK, NEW r \in Registers
  PROVE  Ledger(r) \in Int /\ Float(r) \in Int
<1>1. register[r] \in RegisterRows
  BY DEF DrawerTypeOK
<1>2. /\ register[r].opening \in Int /\ register[r].closing \in Int
      /\ register[r].cashIn \in Nat /\ register[r].cashOut \in Nat
  BY <1>1 DEF RegisterRows
<1>3. Taken(r) \in Nat /\ PutBackInto(r) \in Nat
  BY SumsAreNumbers
<1> QED BY <1>2, <1>3 DEF Ledger, Float

(* So is a sum over some of the entries. *)
LEMMA EarlierSumsAreNumbers ==
  ASSUME DrawerTypeOK, NEW r \in Registers, NEW o \in Int, NEW n \in EarlierSums(r, o)
  PROVE  n \in Int
<1>1. register[r].cashIn \in Nat /\ register[r].cashOut \in Nat
  BY DEF DrawerTypeOK, RegisterRows
<1>2. PutBackInto(r) \in Nat
  BY SumsAreNumbers
<1> QED BY <1>1, <1>2 DEF EarlierSums

(* The register of a shift is one there is, or none. *)
LEMMA FindsARegister ==
  ASSUME NEW s
  PROVE  FindByShift(s) \in 0..LastRegister
<1>1. Newest(s) \subseteq Registers
  BY DEF Newest, OfShift
<1>2. CASE Newest(s) = {}
  BY <1>2, DrawerAssumption, SMT DEF FindByShift
<1>3. CASE Newest(s) # {}
  <2>1. FindByShift(s) \in Newest(s)
    BY <1>3 DEF FindByShift
  <2> QED BY <2>1, <1>1, DrawerAssumption DEF Registers
<1> QED BY <1>2, <1>3

(* Only a register there is has a status. *)
LEMMA StatusNamesARegister ==
  ASSUME NEW r, StatusOf(r) # "none"
  PROVE  r \in Registers /\ StatusOf(r) = register[r].status
BY DEF StatusOf

(***************************************************************************)
(* One lemma for all steps: what a step must leave true of the rows and of *)
(* the call it moves.                                                      *)
(***************************************************************************)
LEMMA StepKeepsInv ==
  ASSUME DrawerInv, NEW c \in Clerks, NEW k \in Calls, Becomes(c, k),
         shift' \in [Shifts -> ShiftRows],
         register' \in [Registers -> RegisterRows],
         deposit' \in [Deposits -> DepositRows],
         latest' \in 0..LastRegister, closedLast' \in 0..LastRegister,
         calls' \in Nat, raced' \in BOOLEAN,
         \A d \in Deposits :
            deposit[d].status = "rejected" => deposit'[d].status = "rejected",
         \A d \in Deposits :
            deposit'[d].back => deposit[d].back \/ deposit'[d].status = "rejected",
         k.at \in {"rejectFind", "putBack"} =>
            k.dep \in Deposits /\ deposit'[k.dep].status = "rejected",
         k.at \in {"approve", "reject"} => k.dep \in Deposits,
         k.at \in {"autoSum", "closeSum"} => k.register \in Registers
  PROVE  DrawerInv'
<1>1. /\ call \in [Clerks -> Calls]
      /\ call' = [call EXCEPT ![c] = k]
  BY DEF DrawerInv, DrawerTypeOK, Becomes
<1>2. call' \in [Clerks -> Calls]
  BY <1>1
<1>3. DrawerTypeOK'
  BY <1>2 DEF DrawerTypeOK, Shifts, Registers
<1>4. Decisions'
  <2> SUFFICES ASSUME NEW o \in Clerks PROVE Sound(call[o])'
    BY DEF Decisions
  <2>1. CASE o = c
    <3>1. call'[o] = k
      BY <1>1, <2>1
    <3> QED BY <3>1 DEF Sound, Registers
  <2>2. CASE o # c
    <3>1. call'[o] = call[o]
      BY <1>1, <2>2
    <3>2. Sound(call[o])
      BY DEF DrawerInv, Decisions
    <3> QED BY <3>1, <3>2 DEF Sound, Registers
  <2> QED BY <2>1, <2>2
<1>5. PutBackIfRejected'
  BY DEF DrawerInv, PutBackIfRejected
<1> QED BY <1>3, <1>4, <1>5 DEF DrawerInv

(* A step that only reads. *)
LEMMA ReadKeepsInv ==
  ASSUME DrawerInv, NEW c \in Clerks, NEW k \in Calls, Becomes(c, k), Reads,
         Sound(k)
  PROVE  DrawerInv'
<1>1. /\ shift' = shift /\ register' = register /\ deposit' = deposit
      /\ latest' = latest /\ closedLast' = closedLast
      /\ calls' = calls /\ raced' = raced
  BY DEF Reads, rows, SameCounters
<1>2. DrawerTypeOK
  BY DEF DrawerInv
<1>3. /\ shift' \in [Shifts -> ShiftRows]
      /\ register' \in [Registers -> RegisterRows]
      /\ deposit' \in [Deposits -> DepositRows]
      /\ latest' \in 0..LastRegister /\ closedLast' \in 0..LastRegister
      /\ calls' \in Nat /\ raced' \in BOOLEAN
  BY <1>1, <1>2 DEF DrawerTypeOK
<1>4. /\ k.at \in {"rejectFind", "putBack"} =>
           k.dep \in Deposits /\ deposit'[k.dep].status = "rejected"
      /\ k.at \in {"approve", "reject"} => k.dep \in Deposits
      /\ k.at \in {"autoSum", "closeSum"} => k.register \in Registers
  BY <1>1 DEF Sound
<1>5. /\ \A d \in Deposits :
           deposit[d].status = "rejected" => deposit'[d].status = "rejected"
      /\ \A d \in Deposits :
           deposit'[d].back => deposit[d].back \/ deposit'[d].status = "rejected"
  BY <1>1
<1> QED BY <1>3, <1>4, <1>5, StepKeepsInv

LEMMA NoCallIsACall == NoCall \in Calls /\ Sound(NoCall)
<1>1. 0 \in 0..LastShift /\ 0 \in 0..LastRegister
  BY DrawerAssumption
<1> QED BY <1>1 DEF NoCall, Calls, Sound, Operations, Stages

(* A call in flight names its stage, and moves on from it. *)
LEMMA CallInFlight ==
  ASSUME DrawerInv, NEW c \in Clerks
  PROVE  call[c] \in Calls /\ Sound(call[c])
BY DEF DrawerInv, DrawerTypeOK, Decisions

Steady == Stages \ {"rejectFind", "putBack", "approve", "reject", "autoSum", "closeSum"}

LEMMA GotoKeepsInv ==
  ASSUME DrawerInv, NEW c \in Clerks, NEW stage \in Steady, Goto(c, stage), Reads
  PROVE  DrawerInv'
<1> DEFINE k == [call[c] EXCEPT !.at = stage]
<1>1. k \in Calls
  BY CallInFlight DEF Calls, Steady
<1>2. k.at = stage
  BY CallInFlight DEF Calls
<1>3. Sound(k)
  BY <1>2 DEF Sound, Steady
<1>4. Becomes(c, k)
  BY DEF Goto
<1> QED BY <1>1, <1>3, <1>4, ReadKeepsInv

LEMMA ReturnKeepsInv ==
  ASSUME DrawerInv, NEW c \in Clerks, Returns(c), Reads
  PROVE  DrawerInv'
BY NoCallIsACall, ReadKeepsInv DEF Returns

(* A call that learns something on the way to a stage that needs nothing. *)
LEMMA LearningKeepsInv ==
  ASSUME DrawerInv, NEW c \in Clerks, NEW k \in Calls, Becomes(c, k), Reads,
         k.at \in Steady
  PROVE  DrawerInv'
<1>1. Sound(k)
  BY DEF Sound, Steady
<1> QED BY <1>1, ReadKeepsInv

(***************************************************************************)
(* Steps that only read                                                    *)
(***************************************************************************)
LEMMA ShiftReads ==
  ASSUME DrawerInv, NEW c \in Clerks,
         \/ ClockIn(c) \/ FindActive(c) \/ StaleShift(c) \/ ClockOut(c)
         \/ AutoFind(c) \/ AutoSum(c) \/ MyShift(c) \/ MyRegister(c)
  PROVE  DrawerInv'
<1>0. call[c] \in Calls /\ Sound(call[c])
  BY CallInFlight
<1>a. \A u : ActiveOf(u) \subseteq 0..LastShift
  BY DrawerAssumption DEF ActiveOf, Shifts
<1>1. CASE ClockIn(c)
  BY <1>1, GotoKeepsInv, ReturnKeepsInv DEF ClockIn, Steady, Stages
<1>2. CASE FindActive(c)
  <2>1. CASE Returns(c)
    BY <1>2, <2>1, ReturnKeepsInv DEF FindActive
  <2>2. CASE ~Returns(c)
    <3>1. PICK s \in ActiveOf(call[c].user) :
             Becomes(c, [call[c] EXCEPT !.at = "stale", !.shift = s])
      BY <1>2, <2>2 DEF FindActive
    <3>2. [call[c] EXCEPT !.at = "stale", !.shift = s] \in Calls
      BY <1>0, <1>a, <3>1 DEF Calls, Stages
    <3>3. [call[c] EXCEPT !.at = "stale", !.shift = s].at \in Steady
      BY <1>0 DEF Calls, Steady, Stages
    <3> QED BY <1>2, <3>1, <3>2, <3>3, LearningKeepsInv DEF FindActive
  <2> QED BY <2>1, <2>2
<1>3. CASE StaleShift(c)
  <2> DEFINE k == [call[c] EXCEPT !.op = "relogin", !.at = "clockOut"]
  <2>a. k \in Calls
    BY <1>0 DEF Calls, Operations, Stages
  <2>b. k.at = "clockOut"
    BY <1>0 DEF Calls
  <2>1. k \in Calls /\ k.at \in Steady
    BY <2>a, <2>b DEF Stages, Steady
  <2>2. CASE Becomes(c, k)
    BY <1>3, <2>1, <2>2, LearningKeepsInv DEF StaleShift
  <2>3. CASE Goto(c, "lastClosed")
    BY <1>3, <2>3, GotoKeepsInv DEF StaleShift, Steady, Stages
  <2> QED BY <1>3, <2>2, <2>3 DEF StaleShift
<1>4. CASE ClockOut(c)
  <2>1. CASE Returns(c)
    BY <1>4, <2>1, ReturnKeepsInv DEF ClockOut
  <2>2. CASE ~Returns(c)
    <3>1. PICK s \in ActiveOf(call[c].user) :
             Becomes(c, [call[c] EXCEPT !.at = "autoFind", !.shift = s])
      BY <1>4, <2>2 DEF ClockOut
    <3>2. [call[c] EXCEPT !.at = "autoFind", !.shift = s] \in Calls
      BY <1>0, <1>a, <3>1 DEF Calls, Stages
    <3>3. [call[c] EXCEPT !.at = "autoFind", !.shift = s].at \in Steady
      BY <1>0 DEF Calls, Steady, Stages
    <3> QED BY <1>4, <3>1, <3>2, <3>3, LearningKeepsInv DEF ClockOut
  <2> QED BY <2>1, <2>2
<1>5. CASE AutoFind(c)
  <2> DEFINE r == FindByShift(call[c].shift)
             k == [call[c] EXCEPT !.at = "autoSum", !.register = r,
                                  !.count = register[r].opening]
  <2>1. CASE Goto(c, "endShift")
    BY <1>5, <2>1, GotoKeepsInv DEF AutoFind, Steady, Stages
  <2>2. CASE StatusOf(r) = "open" /\ Becomes(c, k)
    <3>1. r \in Registers /\ r \in 0..LastRegister
      BY <2>2, FindsARegister, StatusNamesARegister
    <3>a. register[r].opening \in Int
      BY <3>1 DEF DrawerInv, DrawerTypeOK, RegisterRows
    <3>2. k \in Calls
      BY <1>0, <3>1, <3>a DEF Calls, Stages
    <3>3. k.at = "autoSum" /\ k.register = r
      BY <1>0 DEF Calls
    <3>4. Sound(k)
      BY <3>1, <3>3 DEF Sound
    <3> QED BY <1>5, <2>2, <3>2, <3>4, ReadKeepsInv DEF AutoFind
  <2> QED BY <1>5, <2>1, <2>2 DEF AutoFind
<1>6. CASE AutoSum(c)
  <2>1. call[c].register \in Registers
    BY <1>0, <1>6 DEF AutoSum, At, Sound
  <2>b. PICK opening \in {register[call[c].register].opening, call[c].count} :
          \E n \in EarlierSums(call[c].register, opening) :
            Becomes(c, [call[c] EXCEPT !.at = "closeCheck", !.auto = TRUE, !.count = n])
    BY <1>6 DEF AutoSum
  <2>c. PICK n \in EarlierSums(call[c].register, opening) :
          Becomes(c, [call[c] EXCEPT !.at = "closeCheck", !.auto = TRUE, !.count = n])
    BY <2>b
  <2>d. register[call[c].register].opening \in Int /\ call[c].count \in Int
    BY <1>0, <2>1 DEF DrawerInv, DrawerTypeOK, RegisterRows, Calls
  <2>2. n \in Int
    BY <2>1, <2>b, <2>c, <2>d, EarlierSumsAreNumbers DEF DrawerInv
  <2> DEFINE k == [call[c] EXCEPT !.at = "closeCheck", !.auto = TRUE, !.count = n]
  <2>a. k \in Calls
    BY <1>0, <2>2 DEF Calls, Stages
  <2>e. k.at = "closeCheck"
    BY <1>0 DEF Calls
  <2>3. k \in Calls /\ k.at \in Steady
    BY <2>a, <2>e DEF Stages, Steady
  <2> QED BY <1>6, <2>c, <2>3, LearningKeepsInv DEF AutoSum
<1>7. CASE MyShift(c)
  <2>1. CASE Returns(c)
    BY <1>7, <2>1, ReturnKeepsInv DEF MyShift
  <2>2. CASE ~Returns(c)
    <3>1. PICK s \in ActiveOf(call[c].user) :
             Becomes(c, [call[c] EXCEPT !.at = "myRegister", !.shift = s])
      BY <1>7, <2>2 DEF MyShift
    <3>2. [call[c] EXCEPT !.at = "myRegister", !.shift = s] \in Calls
      BY <1>0, <1>a, <3>1 DEF Calls, Stages
    <3>3. [call[c] EXCEPT !.at = "myRegister", !.shift = s].at \in Steady
      BY <1>0 DEF Calls, Steady, Stages
    <3> QED BY <1>7, <3>1, <3>2, <3>3, LearningKeepsInv DEF MyShift
  <2> QED BY <2>1, <2>2
<1>8. CASE MyRegister(c)
  <2> DEFINE r == FindByShift(call[c].shift)
             mine == [call[c] EXCEPT !.register = r]
             toDeposit == [mine EXCEPT !.at = "depositCheck"]
             toClose == [mine EXCEPT !.at = "closeCheck"]
             toEnd == [mine EXCEPT !.at = "clockOut", !.source = r]
  <2>1. r \in 0..LastRegister
    BY FindsARegister
  <2>2. mine \in Calls
    BY <1>0, <2>1 DEF Calls
  <2>a. toDeposit \in Calls /\ toClose \in Calls /\ toEnd \in Calls
    BY <2>1, <2>2 DEF Calls, Stages
  <2>b. /\ toDeposit.at = "depositCheck" /\ toClose.at = "closeCheck"
        /\ toEnd.at = "clockOut"
    BY <2>2 DEF Calls
  <2>3. /\ toDeposit \in Calls /\ toDeposit.at \in Steady
        /\ toClose \in Calls /\ toClose.at \in Steady
        /\ toEnd \in Calls /\ toEnd.at \in Steady
    BY <2>a, <2>b DEF Stages, Steady
  <2>4. Reads
    BY <1>8 DEF MyRegister
  <2>5. \/ Becomes(c, toDeposit) \/ Becomes(c, toClose) \/ Becomes(c, toEnd)
        \/ Returns(c) \/ Goto(c, "clockOut")
    BY <1>8 DEF MyRegister
  <2>6. "clockOut" \in Steady
    BY DEF Steady, Stages
  <2> QED BY <2>3, <2>4, <2>5, <2>6, LearningKeepsInv, ReturnKeepsInv, GotoKeepsInv
<1> QED BY <1>1, <1>2, <1>3, <1>4, <1>5, <1>6, <1>7, <1>8

LEMMA RegisterReads ==
  ASSUME DrawerInv, NEW c \in Clerks,
         \/ LastClosed(c) \/ CarrySum(c) \/ Ensure(c) \/ OpeningCheck(c)
         \/ Validate(c) \/ Exists(c) \/ CloseCheck(c) \/ CloseSum(c)
         \/ EntryCheck(c) \/ ReconcileCheck(c)
  PROVE  DrawerInv'
<1>0. call[c] \in Calls /\ Sound(call[c]) /\ DrawerTypeOK
  BY CallInFlight DEF DrawerInv
<1>a. /\ "carrySum" \in Steady /\ "ensure" \in Steady /\ "validate" \in Steady
      /\ "openingCheck" \in Steady /\ "openingWrite" \in Steady
      /\ "exists" \in Steady /\ "openRegister" \in Steady
      /\ "endShift" \in Steady /\ "closeWrite" \in Steady
      /\ "entryWrite" \in Steady /\ "reconcile" \in Steady
  BY DEF Steady, Stages
<1>1. CASE LastClosed(c)
  <2> DEFINE k == [call[c] EXCEPT !.at = "carrySum", !.source = latest]
  <2>1. latest \in 0..LastRegister
    BY <1>0 DEF DrawerTypeOK
  <2>2. k \in Calls
    BY <1>0, <2>1 DEF Calls, Stages
  <2>3. k.at = "carrySum"
    BY <1>0 DEF Calls
  <2> QED BY <1>1, <1>a, <2>2, <2>3, LearningKeepsInv DEF LastClosed
<1>2. CASE CarrySum(c)
  <2> DEFINE n == IF call[c].source = 0 THEN 0 ELSE Float(call[c].source)
             k == [call[c] EXCEPT !.at = "ensure", !.sum = n]
  <2>1. call[c].source \in 0..LastRegister
    BY <1>0 DEF Calls
  <2>2. call[c].source # 0 => call[c].source \in Registers
    BY <2>1, DrawerAssumption DEF Registers
  <2>3. n \in Int
    BY <1>0, <2>2, AmountsAreNumbers
  <2>4. k \in Calls
    BY <1>0, <2>3 DEF Calls, Stages
  <2>5. k.at = "ensure"
    BY <1>0 DEF Calls
  <2> QED BY <1>2, <1>a, <2>4, <2>5, LearningKeepsInv DEF CarrySum
<1>3. CASE Ensure(c)
  <2> DEFINE r == FindByShift(call[c].shift)
             k == [call[c] EXCEPT !.at = "openingCheck", !.register = r]
  <2>1. r \in 0..LastRegister
    BY FindsARegister
  <2>2. k \in Calls
    BY <1>0, <2>1 DEF Calls, Stages
  <2>3. k.at = "openingCheck"
    BY <1>0 DEF Calls
  <2>4. Reads /\ (Goto(c, "validate") \/ Returns(c) \/ Becomes(c, k))
    BY <1>3 DEF Ensure
  <2> QED BY <1>a, <2>2, <2>3, <2>4, LearningKeepsInv, GotoKeepsInv, ReturnKeepsInv
<1>4. CASE OpeningCheck(c)
  BY <1>4, <1>a, GotoKeepsInv, ReturnKeepsInv DEF OpeningCheck
<1>5. CASE Validate(c)
  BY <1>5, <1>a, GotoKeepsInv, ReturnKeepsInv DEF Validate
<1>6. CASE Exists(c)
  BY <1>6, <1>a, GotoKeepsInv, ReturnKeepsInv DEF Exists
<1>7. CASE CloseCheck(c)
  <2>1. CASE StatusOf(call[c].register) = "open"
    <3> DEFINE k == [call[c] EXCEPT !.at = "closeSum"]
    <3>1. call[c].register \in Registers
      BY <2>1, StatusNamesARegister
    <3>2. k \in Calls
      BY <1>0 DEF Calls, Stages
    <3>3. k.at = "closeSum" /\ k.register = call[c].register
      BY <1>0 DEF Calls
    <3>4. Sound(k)
      BY <3>1, <3>3 DEF Sound
    <3>5. Becomes(c, k) /\ Reads
      BY <1>7, <2>1 DEF CloseCheck, Goto
    <3> QED BY <3>2, <3>4, <3>5, ReadKeepsInv
  <2>2. CASE StatusOf(call[c].register) # "open"
    BY <1>7, <1>a, <2>2, GotoKeepsInv, ReturnKeepsInv DEF CloseCheck
  <2> QED BY <2>1, <2>2
<1>8. CASE CloseSum(c)
  <2> DEFINE n == Ledger(call[c].register)
             k == [call[c] EXCEPT !.at = "closeWrite", !.sum = n]
  <2>1. call[c].register \in Registers
    BY <1>0, <1>8 DEF CloseSum, At, Sound
  <2>2. n \in Int
    BY <1>0, <2>1, AmountsAreNumbers
  <2>3. k \in Calls
    BY <1>0, <2>2 DEF Calls, Stages
  <2>4. k.at = "closeWrite"
    BY <1>0 DEF Calls
  <2> QED BY <1>8, <1>a, <2>3, <2>4, LearningKeepsInv DEF CloseSum
<1>9. CASE EntryCheck(c)
  BY <1>9, <1>a, GotoKeepsInv, ReturnKeepsInv DEF EntryCheck
<1>10. CASE ReconcileCheck(c)
  BY <1>10, <1>a, GotoKeepsInv, ReturnKeepsInv DEF ReconcileCheck
<1> QED BY <1>1, <1>2, <1>3, <1>4, <1>5, <1>6, <1>7, <1>8, <1>9, <1>10

(* A rejection that goes on to put the cash back is still one. *)
LEMMA DepositReads ==
  ASSUME DrawerInv, NEW c \in Clerks,
         DepositCheck(c) \/ RejectFind(c) \/ RecalcRead(c)
  PROVE  DrawerInv'
<1>0. call[c] \in Calls /\ Sound(call[c]) /\ DrawerTypeOK
  BY CallInFlight DEF DrawerInv
<1>a. "depositCreate" \in Steady /\ "recalcRead" \in Steady /\ "recalcWrite" \in Steady
  BY DEF Steady, Stages
<1>1. CASE DepositCheck(c)
  BY <1>1, <1>a, GotoKeepsInv, ReturnKeepsInv DEF DepositCheck
<1>2. CASE RejectFind(c)
  <2>1. CASE StatusOf(call[c].register) = "open"
    <3> DEFINE k == [call[c] EXCEPT !.at = "putBack"]
    <3>1. call[c].at = "rejectFind"
      BY <1>2 DEF RejectFind, At
    <3>2. k \in Calls
      BY <1>0 DEF Calls, Stages
    <3>3. k.at = "putBack" /\ k.dep = call[c].dep
      BY <1>0 DEF Calls
    <3>4. Sound(k)
      BY <1>0, <3>1, <3>3 DEF Sound
    <3>5. Becomes(c, k) /\ Reads
      BY <1>2, <2>1 DEF RejectFind, Goto
    <3> QED BY <3>2, <3>4, <3>5, ReadKeepsInv
  <2>2. CASE StatusOf(call[c].register) # "open"
    BY <1>2, <1>a, <2>2, GotoKeepsInv DEF RejectFind
  <2> QED BY <2>1, <2>2
<1>3. CASE RecalcRead(c)
  <2>1. CASE StatusOf(call[c].register) \in {"closed", "reconciled"}
    <3> DEFINE n == Ledger(call[c].register)
               k == [call[c] EXCEPT !.at = "recalcWrite", !.sum = n]
    <3>1. call[c].register \in Registers
      BY <2>1, StatusNamesARegister
    <3>2. n \in Int
      BY <1>0, <3>1, AmountsAreNumbers
    <3>3. k \in Calls
      BY <1>0, <3>2 DEF Calls, Stages
    <3>4. k.at = "recalcWrite"
      BY <1>0 DEF Calls
    <3> QED BY <1>3, <1>a, <2>1, <3>3, <3>4, LearningKeepsInv DEF RecalcRead
  <2>2. CASE ~(StatusOf(call[c].register) \in {"closed", "reconciled"})
    BY <1>3, <2>2, ReturnKeepsInv DEF RecalcRead
  <2> QED BY <2>1, <2>2
<1> QED BY <1>1, <1>2, <1>3

(***************************************************************************)
(* Requests                                                                *)
(***************************************************************************)
(* Whatever is asked, the call is well formed and waits for its first step. *)
LEMMA RequestsAreCalls ==
  ASSUME DrawerInv, NEW c \in Clerks, StaffAsks(c) \/ RegisterAsks(c) \/ DepositAsks(c)
  PROVE  \E k \in Calls : Sound(k) /\ Becomes(c, k)
<1>1. /\ Counts \subseteq Int /\ {0, 1} \subseteq Int
      /\ Begun \subseteq 0..LastShift /\ Existing \subseteq 0..LastRegister
  BY DrawerAssumption DEF Begun, Existing, Shifts, Registers
<1>2. \A d \in Deposits : deposit[d].register \in 0..LastRegister
  BY DEF DrawerInv, DrawerTypeOK, DepositRows
<1>3. \A op \in Operations, at \in Stages :
         Asks(op, at) \in Calls /\ Asks(op, at).at = at
  BY NoCallIsACall DEF Asks, Calls
<1>4. CASE \E u \in Staff, op \in {"login", "clockIn"} : Becomes(c, [Asks(op, "clockIn") EXCEPT !.user = u])
  <2>1. PICK u \in Staff, op \in {"login", "clockIn"} : Becomes(c, [Asks(op, "clockIn") EXCEPT !.user = u])
    BY <1>4
  <2>a. op \in Operations /\ "clockIn" \in Stages
    BY <2>1 DEF Operations, Stages
  <2>2. Asks(op, "clockIn") \in Calls /\ Asks(op, "clockIn").at = "clockIn"
    BY <1>3, <2>a
  <2>3. [Asks(op, "clockIn") EXCEPT !.user = u] \in Calls
    BY <1>1, <2>1, <2>2 DEF Calls
  <2>4. [Asks(op, "clockIn") EXCEPT !.user = u].at = "clockIn"
    BY <2>2 DEF Calls
  <2> QED BY <2>1, <2>3, <2>4 DEF Sound
<1>5. CASE \E u \in Staff : Becomes(c, [Asks("clockOut", "clockOut") EXCEPT !.user = u])
  <2>1. PICK u \in Staff : Becomes(c, [Asks("clockOut", "clockOut") EXCEPT !.user = u])
    BY <1>5
  <2>2. Asks("clockOut", "clockOut") \in Calls /\ Asks("clockOut", "clockOut").at = "clockOut"
    BY <1>3, <2>1 DEF Operations, Stages
  <2>3. [Asks("clockOut", "clockOut") EXCEPT !.user = u] \in Calls
    BY <1>1, <2>1, <2>2 DEF Calls
  <2>4. [Asks("clockOut", "clockOut") EXCEPT !.user = u].at = "clockOut"
    BY <2>2 DEF Calls
  <2> QED BY <2>1, <2>3, <2>4 DEF Sound
<1>6. CASE \E u \in Staff, n \in Counts, w \in BOOLEAN : Becomes(c, [Asks("closeShift", "myShift") EXCEPT !.user = u, !.count = n, !.withdraw = w])
  <2>1. PICK u \in Staff, n \in Counts, w \in BOOLEAN : Becomes(c, [Asks("closeShift", "myShift") EXCEPT !.user = u, !.count = n, !.withdraw = w])
    BY <1>6
  <2>2. Asks("closeShift", "myShift") \in Calls /\ Asks("closeShift", "myShift").at = "myShift"
    BY <1>3, <2>1 DEF Operations, Stages
  <2>3. [Asks("closeShift", "myShift") EXCEPT !.user = u, !.count = n, !.withdraw = w] \in Calls
    BY <1>1, <2>1, <2>2 DEF Calls
  <2>4. [Asks("closeShift", "myShift") EXCEPT !.user = u, !.count = n, !.withdraw = w].at = "myShift"
    BY <2>2 DEF Calls
  <2> QED BY <2>1, <2>3, <2>4 DEF Sound
<1>7. CASE \E u \in Staff, n \in Counts, w \in BOOLEAN, v \in Staff : Becomes(c, [Asks("handover", "myShift") EXCEPT !.user = u, !.peer = v, !.count = n, !.withdraw = w])
  <2>1. PICK u \in Staff, n \in Counts, w \in BOOLEAN, v \in Staff : Becomes(c, [Asks("handover", "myShift") EXCEPT !.user = u, !.peer = v, !.count = n, !.withdraw = w])
    BY <1>7
  <2>2. Asks("handover", "myShift") \in Calls /\ Asks("handover", "myShift").at = "myShift"
    BY <1>3, <2>1 DEF Operations, Stages
  <2>3. [Asks("handover", "myShift") EXCEPT !.user = u, !.peer = v, !.count = n, !.withdraw = w] \in Calls
    BY <1>1, <2>1, <2>2 DEF Calls
  <2>4. [Asks("handover", "myShift") EXCEPT !.user = u, !.peer = v, !.count = n, !.withdraw = w].at = "myShift"
    BY <2>2 DEF Calls
  <2> QED BY <2>1, <2>3, <2>4 DEF Sound
<1>8. CASE \E s \in Begun : Becomes(c, [Asks("forceClose", "autoFind") EXCEPT !.shift = s])
  <2>1. PICK s \in Begun : Becomes(c, [Asks("forceClose", "autoFind") EXCEPT !.shift = s])
    BY <1>8
  <2>2. Asks("forceClose", "autoFind") \in Calls /\ Asks("forceClose", "autoFind").at = "autoFind"
    BY <1>3, <2>1 DEF Operations, Stages
  <2>3. [Asks("forceClose", "autoFind") EXCEPT !.shift = s] \in Calls
    BY <1>1, <2>1, <2>2 DEF Calls
  <2>4. [Asks("forceClose", "autoFind") EXCEPT !.shift = s].at = "autoFind"
    BY <2>2 DEF Calls
  <2> QED BY <2>1, <2>3, <2>4 DEF Sound
<1>9. CASE \E s \in Begun, n \in Counts : Becomes(c, [Asks("open", "validate") EXCEPT !.shift = s, !.sum = n])
  <2>1. PICK s \in Begun, n \in Counts : Becomes(c, [Asks("open", "validate") EXCEPT !.shift = s, !.sum = n])
    BY <1>9
  <2>2. Asks("open", "validate") \in Calls /\ Asks("open", "validate").at = "validate"
    BY <1>3, <2>1 DEF Operations, Stages
  <2>3. [Asks("open", "validate") EXCEPT !.shift = s, !.sum = n] \in Calls
    BY <1>1, <2>1, <2>2 DEF Calls
  <2>4. [Asks("open", "validate") EXCEPT !.shift = s, !.sum = n].at = "validate"
    BY <2>2 DEF Calls
  <2> QED BY <2>1, <2>3, <2>4 DEF Sound
<1>10. CASE \E r \in Existing, n \in Counts : Becomes(c, [Asks("close", "closeCheck") EXCEPT !.register = r, !.count = n])
  <2>1. PICK r \in Existing, n \in Counts : Becomes(c, [Asks("close", "closeCheck") EXCEPT !.register = r, !.count = n])
    BY <1>10
  <2>2. Asks("close", "closeCheck") \in Calls /\ Asks("close", "closeCheck").at = "closeCheck"
    BY <1>3, <2>1 DEF Operations, Stages
  <2>3. [Asks("close", "closeCheck") EXCEPT !.register = r, !.count = n] \in Calls
    BY <1>1, <2>1, <2>2 DEF Calls
  <2>4. [Asks("close", "closeCheck") EXCEPT !.register = r, !.count = n].at = "closeCheck"
    BY <2>2 DEF Calls
  <2> QED BY <2>1, <2>3, <2>4 DEF Sound
<1>11. CASE \E r \in Existing, n \in Counts : Becomes(c, [Asks("openingBalance", "openingCheck") EXCEPT !.register = r, !.sum = n])
  <2>1. PICK r \in Existing, n \in Counts : Becomes(c, [Asks("openingBalance", "openingCheck") EXCEPT !.register = r, !.sum = n])
    BY <1>11
  <2>2. Asks("openingBalance", "openingCheck") \in Calls /\ Asks("openingBalance", "openingCheck").at = "openingCheck"
    BY <1>3, <2>1 DEF Operations, Stages
  <2>3. [Asks("openingBalance", "openingCheck") EXCEPT !.register = r, !.sum = n] \in Calls
    BY <1>1, <2>1, <2>2 DEF Calls
  <2>4. [Asks("openingBalance", "openingCheck") EXCEPT !.register = r, !.sum = n].at = "openingCheck"
    BY <2>2 DEF Calls
  <2> QED BY <2>1, <2>3, <2>4 DEF Sound
<1>12. CASE \E r \in Existing, n \in {0, 1} : Becomes(c, [Asks("entry", "entryCheck") EXCEPT !.register = r, !.count = n])
  <2>1. PICK r \in Existing, n \in {0, 1} : Becomes(c, [Asks("entry", "entryCheck") EXCEPT !.register = r, !.count = n])
    BY <1>12
  <2>2. Asks("entry", "entryCheck") \in Calls /\ Asks("entry", "entryCheck").at = "entryCheck"
    BY <1>3, <2>1 DEF Operations, Stages
  <2>3. [Asks("entry", "entryCheck") EXCEPT !.register = r, !.count = n] \in Calls
    BY <1>1, <2>1, <2>2 DEF Calls
  <2>4. [Asks("entry", "entryCheck") EXCEPT !.register = r, !.count = n].at = "entryCheck"
    BY <2>2 DEF Calls
  <2> QED BY <2>1, <2>3, <2>4 DEF Sound
<1>13. CASE \E r \in Existing : Becomes(c, [Asks("initiate", "depositCheck") EXCEPT !.register = r])
  <2>1. PICK r \in Existing : Becomes(c, [Asks("initiate", "depositCheck") EXCEPT !.register = r])
    BY <1>13
  <2>2. Asks("initiate", "depositCheck") \in Calls /\ Asks("initiate", "depositCheck").at = "depositCheck"
    BY <1>3, <2>1 DEF Operations, Stages
  <2>3. [Asks("initiate", "depositCheck") EXCEPT !.register = r] \in Calls
    BY <1>1, <2>1, <2>2 DEF Calls
  <2>4. [Asks("initiate", "depositCheck") EXCEPT !.register = r].at = "depositCheck"
    BY <2>2 DEF Calls
  <2> QED BY <2>1, <2>3, <2>4 DEF Sound
<1>14. CASE \E r \in Existing : Becomes(c, [Asks("reconcile", "reconcileCheck") EXCEPT !.register = r])
  <2>1. PICK r \in Existing : Becomes(c, [Asks("reconcile", "reconcileCheck") EXCEPT !.register = r])
    BY <1>14
  <2>2. Asks("reconcile", "reconcileCheck") \in Calls /\ Asks("reconcile", "reconcileCheck").at = "reconcileCheck"
    BY <1>3, <2>1 DEF Operations, Stages
  <2>3. [Asks("reconcile", "reconcileCheck") EXCEPT !.register = r] \in Calls
    BY <1>1, <2>1, <2>2 DEF Calls
  <2>4. [Asks("reconcile", "reconcileCheck") EXCEPT !.register = r].at = "reconcileCheck"
    BY <2>2 DEF Calls
  <2> QED BY <2>1, <2>3, <2>4 DEF Sound
<1>15. CASE DepositAsks(c)
  <2>1. PICK d \in Deposits, op \in {"approve", "reject"} :
           Becomes(c, [Asks(op, op) EXCEPT !.dep = d, !.register = deposit[d].register])
    BY <1>15 DEF DepositAsks
  <2> DEFINE k == [Asks(op, op) EXCEPT !.dep = d, !.register = deposit[d].register]
  <2>a. op \in Operations /\ op \in Stages
    BY <2>1 DEF Operations, Stages
  <2>2. Asks(op, op) \in Calls /\ Asks(op, op).at = op
    BY <1>3, <2>a
  <2>3. k \in Calls
    BY <1>2, <2>1, <2>2 DEF Calls
  <2>4. k.at = op /\ k.dep = d
    BY <2>1, <2>2 DEF Calls
  <2>5. Sound(k)
    BY <2>1, <2>4 DEF Sound
  <2> QED BY <2>1, <2>3, <2>5
<1>16. CASE StaffAsks(c)
  BY <1>16, <1>4, <1>5, <1>6, <1>7, <1>8, <1>9, Zenon DEF StaffAsks
<1>17. CASE RegisterAsks(c)
  BY <1>17, <1>10, <1>11, <1>12, <1>13, <1>14, Zenon DEF RegisterAsks
<1> QED BY <1>15, <1>16, <1>17

LEMMA BeginAndCutOff ==
  ASSUME DrawerInv, NEW c \in Clerks, Begin(c) \/ CutOff(c)
  PROVE  DrawerInv'
<1>1. CASE Begin(c)
  <2>1. PICK k \in Calls : Sound(k) /\ Becomes(c, k)
    BY <1>1, RequestsAreCalls DEF Begin
  <2>2. k \in Calls /\ Sound(k)
    BY <2>1
  <2>3. /\ shift' = shift /\ register' = register /\ deposit' = deposit
        /\ latest' = latest /\ closedLast' = closedLast
    BY <1>1 DEF Begin, rows
  <2>4. DrawerTypeOK
    BY DEF DrawerInv
  <2>5. calls' \in Nat /\ raced' \in BOOLEAN
    BY <1>1, <2>4 DEF Begin, DrawerTypeOK
  <2>6. /\ shift' \in [Shifts -> ShiftRows]
        /\ register' \in [Registers -> RegisterRows]
        /\ deposit' \in [Deposits -> DepositRows]
        /\ latest' \in 0..LastRegister /\ closedLast' \in 0..LastRegister
    BY <2>3, <2>4 DEF DrawerTypeOK
  <2>7. /\ k.at \in {"rejectFind", "putBack"} =>
             k.dep \in Deposits /\ deposit'[k.dep].status = "rejected"
        /\ k.at \in {"approve", "reject"} => k.dep \in Deposits
        /\ k.at \in {"autoSum", "closeSum"} => k.register \in Registers
    BY <2>2, <2>3 DEF Sound
  <2>8. /\ \A d \in Deposits :
             deposit[d].status = "rejected" => deposit'[d].status = "rejected"
        /\ \A d \in Deposits :
             deposit'[d].back => deposit[d].back \/ deposit'[d].status = "rejected"
    BY <2>3
  <2> QED BY <2>1, <2>2, <2>5, <2>6, <2>7, <2>8, StepKeepsInv
<1>2. CASE CutOff(c)
  <2> DEFINE k == [NoCall EXCEPT !.at = "lost"]
  <2>1. k \in Calls
    BY NoCallIsACall DEF Calls, Stages
  <2>2. k.at = "lost"
    BY DEF NoCall
  <2>3. k.at \in Steady
    BY <2>2 DEF Steady, Stages
  <2> QED BY <1>2, <2>1, <2>3, LearningKeepsInv DEF CutOff
<1> QED BY <1>1, <1>2

(***************************************************************************)
(* Steps that write shifts or registers                                    *)
(***************************************************************************)
LEMMA RowKeepsInv ==
  ASSUME DrawerInv, NEW c \in Clerks, NEW k \in Calls, Becomes(c, k),
         shift' \in [Shifts -> ShiftRows],
         register' \in [Registers -> RegisterRows],
         latest' \in 0..LastRegister, closedLast' \in 0..LastRegister,
         deposit' = deposit, SameCounters, k.at \in Steady
  PROVE  DrawerInv'
<1>1. DrawerTypeOK
  BY DEF DrawerInv
<1>2. /\ deposit' \in [Deposits -> DepositRows]
      /\ calls' \in Nat /\ raced' \in BOOLEAN
  BY <1>1 DEF DrawerTypeOK, SameCounters
<1>3. k.at \notin {"rejectFind", "putBack", "approve", "reject", "autoSum", "closeSum"}
  BY DEF Steady
<1>4. /\ \A d \in Deposits :
           deposit[d].status = "rejected" => deposit'[d].status = "rejected"
      /\ \A d \in Deposits :
           deposit'[d].back => deposit[d].back \/ deposit'[d].status = "rejected"
  OBVIOUS
<1>5. /\ k.at \in {"rejectFind", "putBack"} =>
           k.dep \in Deposits /\ deposit'[k.dep].status = "rejected"
      /\ k.at \in {"approve", "reject"} => k.dep \in Deposits
      /\ k.at \in {"autoSum", "closeSum"} => k.register \in Registers
  BY <1>3
<1> QED BY <1>2, <1>4, <1>5, StepKeepsInv

(* A register's row is replaced by a row. *)
LEMMA RegisterWrite ==
  ASSUME DrawerTypeOK, NEW r, NEW x, r \in Registers => x \in RegisterRows
  PROVE  [register EXCEPT ![r] = x] \in [Registers -> RegisterRows]
BY DEF DrawerTypeOK

LEMMA ShiftWrites ==
  ASSUME DrawerInv, NEW c \in Clerks, StartShift(c) \/ EndShift(c)
  PROVE  DrawerInv'
<1>0. call[c] \in Calls /\ DrawerTypeOK
  BY CallInFlight DEF DrawerInv
<1>1. CASE StartShift(c)
  <2>1. PICK s \in FreshShifts :
           /\ shift' = [shift EXCEPT ![s] = [user |-> call[c].user, status |-> "active"]]
           /\ Becomes(c, [call[c] EXCEPT !.shift = s,
                !.at = IF call[c].op = "handover" THEN "carrySum" ELSE "lastClosed"])
    BY <1>1 DEF StartShift
  <2> DEFINE k == [call[c] EXCEPT !.shift = s,
                !.at = IF call[c].op = "handover" THEN "carrySum" ELSE "lastClosed"]
  <2>2. s \in 0..LastShift
    BY <2>1, DrawerAssumption DEF FreshShifts, Shifts
  <2>a. \A at \in {"carrySum", "lastClosed"} :
           /\ [call[c] EXCEPT !.shift = s, !.at = at] \in Calls
           /\ [call[c] EXCEPT !.shift = s, !.at = at].at = at
    BY <1>0, <2>2 DEF Calls, Stages
  <2>b. \E at \in {"carrySum", "lastClosed"} :
           k = [call[c] EXCEPT !.shift = s, !.at = at]
    OBVIOUS
  <2>3. k \in Calls
    BY <2>a, <2>b
  <2>4. k.at \in {"carrySum", "lastClosed"}
    BY <2>a, <2>b
  <2>5. k.at \in Steady
    BY <2>4 DEF Steady, Stages
  <2>6. [user |-> call[c].user, status |-> "active"] \in ShiftRows
    BY <1>0 DEF Calls, ShiftRows
  <2>7. shift' \in [Shifts -> ShiftRows]
    BY <1>0, <2>1, <2>6 DEF DrawerTypeOK
  <2>8. /\ register' \in [Registers -> RegisterRows] /\ deposit' = deposit
        /\ latest' \in 0..LastRegister /\ closedLast' \in 0..LastRegister
    BY <1>0, <1>1 DEF StartShift, DrawerTypeOK
  <2>9. SameCounters
    BY <1>1 DEF StartShift
  <2> QED BY <2>1, <2>3, <2>5, <2>7, <2>8, <2>9, RowKeepsInv
<1>2. CASE EndShift(c)
  <2> DEFINE toClockIn == [call[c] EXCEPT !.at = "clockIn"]
             toPeer == [call[c] EXCEPT !.at = "clockIn", !.user = call[c].peer]
  <2>1. toClockIn \in Calls /\ toPeer \in Calls
    BY <1>0 DEF Calls, Stages
  <2>2. toClockIn.at = "clockIn" /\ toPeer.at = "clockIn" /\ NoCall.at = "idle"
    BY <1>0 DEF Calls, NoCall
  <2>3. toClockIn.at \in Steady /\ toPeer.at \in Steady /\ NoCall.at \in Steady
    BY <2>2 DEF Steady, Stages
  <2>4. \/ Becomes(c, toClockIn) \/ Becomes(c, toPeer) \/ Becomes(c, NoCall)
    BY <1>2 DEF EndShift, Goto, Returns
  <2>5. /\ register' \in [Registers -> RegisterRows] /\ deposit' = deposit
        /\ latest' \in 0..LastRegister /\ closedLast' \in 0..LastRegister
    BY <1>0, <1>2 DEF EndShift, DrawerTypeOK
  <2>6. shift' \in [Shifts -> ShiftRows]
    <3>1. \A t \in {"completed", "force_closed"} :
             [shift EXCEPT ![call[c].shift].status = t] \in [Shifts -> ShiftRows]
      BY <1>0 DEF DrawerTypeOK, ShiftRows
    <3>2. \/ shift' = shift
          \/ \E t \in {"completed", "force_closed"} :
                shift' = [shift EXCEPT ![call[c].shift].status = t]
      BY <1>2 DEF EndShift
    <3> QED BY <1>0, <3>1, <3>2 DEF DrawerTypeOK
  <2>7. SameCounters
    BY <1>2 DEF EndShift
  <2> QED BY <2>1, <2>3, <2>4, <2>5, <2>6, <2>7, NoCallIsACall, RowKeepsInv
<1> QED BY <1>1, <1>2

LEMMA RegisterWrites ==
  ASSUME DrawerInv, NEW c \in Clerks,
         \/ OpeningWrite(c) \/ OpenRegister(c) \/ CloseWrite(c)
         \/ EntryWrite(c) \/ ReconcileRegister(c) \/ RecalcWrite(c)
  PROVE  DrawerInv'
<1> DEFINE r == call[c].register
<1>0. call[c] \in Calls /\ DrawerTypeOK
  BY CallInFlight DEF DrawerInv
<1>a. /\ call[c].sum \in Int /\ call[c].count \in Int
      /\ r \in 0..LastRegister /\ call[c].shift \in 0..LastShift
  BY <1>0 DEF Calls
<1>b. /\ register \in [Registers -> RegisterRows]
      /\ shift \in [Shifts -> ShiftRows]
      /\ latest \in 0..LastRegister /\ closedLast \in 0..LastRegister
  BY <1>0 DEF DrawerTypeOK
<1>c. NoCall \in Calls /\ NoCall.at \in Steady
  BY NoCallIsACall DEF NoCall, Steady, Stages
<1>1. CASE OpeningWrite(c)
  <2>1. [register EXCEPT ![r].opening = call[c].sum] \in [Registers -> RegisterRows]
    BY <1>a, <1>b DEF RegisterRows
  <2>2. register' \in [Registers -> RegisterRows]
    BY <1>1, <1>b, <2>1 DEF OpeningWrite
  <2> QED BY <1>1, <1>b, <1>c, <2>2, RowKeepsInv DEF OpeningWrite, Returns
<1>2. CASE OpenRegister(c)
  <2> DEFINE x == [NoRegister EXCEPT !.shift = call[c].shift, !.status = "open",
                                     !.opening = call[c].sum]
  <2>a. NoRegister \in RegisterRows
    BY DrawerAssumption DEF NoRegister, RegisterRows
  <2>1. x \in RegisterRows
    BY <1>a, <2>a DEF RegisterRows
  <2>2. PICK q \in FreshRegisters : register' = [register EXCEPT ![q] = x]
    BY <1>2 DEF OpenRegister
  <2>3. register' \in [Registers -> RegisterRows]
    BY <1>b, <2>1, <2>2
  <2> QED BY <1>2, <1>b, <1>c, <2>3, RowKeepsInv DEF OpenRegister, Returns
<1>3. CASE CloseWrite(c)
  <2> DEFINE toEnd == [call[c] EXCEPT !.at = "endShift"]
             toClockOut == [call[c] EXCEPT !.at = "clockOut", !.source = r]
  <2>1. toEnd \in Calls /\ toClockOut \in Calls
    BY <1>0, <1>a DEF Calls, Stages
  <2>2. toEnd.at = "endShift" /\ toClockOut.at = "clockOut"
    BY <1>0 DEF Calls
  <2>3. toEnd.at \in Steady /\ toClockOut.at \in Steady
    BY <2>2 DEF Steady, Stages
  <2>4. Becomes(c, toEnd) \/ Becomes(c, toClockOut) \/ Becomes(c, NoCall)
    BY <1>3 DEF CloseWrite, Goto, Returns
  <2>5. Closing(c) \in [Registers -> RegisterRows]
    BY <1>a, <1>b DEF Closing, RegisterRows
  <2>6. /\ register' \in [Registers -> RegisterRows]
        /\ latest' \in 0..LastRegister /\ closedLast' \in 0..LastRegister
    BY <1>3, <1>a, <1>b, <2>5 DEF CloseWrite
  <2>7. shift' \in [Shifts -> ShiftRows] /\ deposit' = deposit /\ SameCounters
    BY <1>3, <1>b DEF CloseWrite
  <2> QED BY <1>c, <2>1, <2>3, <2>4, <2>6, <2>7, RowKeepsInv
<1>4. CASE EntryWrite(c)
  <2>1. /\ [register EXCEPT ![r].cashOut = @ + 1]
             \in [Registers -> RegisterRows]
        /\ [register EXCEPT ![r].cashIn = @ + 1]
             \in [Registers -> RegisterRows]
    <3>1. r \in Registers =>
            /\ [register[r] EXCEPT !.cashOut = register[r].cashOut + 1] \in RegisterRows
            /\ [register[r] EXCEPT !.cashIn = register[r].cashIn + 1] \in RegisterRows
      BY <1>b DEF RegisterRows
    <3>2. /\ [register EXCEPT ![r].cashOut = @ + 1] =
               [register EXCEPT ![r] =
                  [register[r] EXCEPT !.cashOut = register[r].cashOut + 1]]
          /\ [register EXCEPT ![r].cashIn = @ + 1] =
               [register EXCEPT ![r] =
                  [register[r] EXCEPT !.cashIn = register[r].cashIn + 1]]
      OBVIOUS
    <3> QED BY <1>0, <3>1, <3>2, RegisterWrite
  <2>2. \/ register' = [register EXCEPT ![r].cashOut = @ + 1]
        \/ register' = [register EXCEPT ![r].cashIn = @ + 1]
    BY <1>4 DEF EntryWrite
  <2>3. register' \in [Registers -> RegisterRows]
    BY <2>1, <2>2
  <2> QED BY <1>4, <1>b, <1>c, <2>3, RowKeepsInv DEF EntryWrite, Returns
<1>5. CASE ReconcileRegister(c)
  <2>1. [register EXCEPT ![r].status = "reconciled"] \in [Registers -> RegisterRows]
    BY <1>b DEF RegisterRows
  <2>2. register' \in [Registers -> RegisterRows] /\ latest' \in 0..LastRegister
    BY <1>5, <1>a, <1>b, <2>1 DEF ReconcileRegister
  <2> QED BY <1>5, <1>b, <1>c, <2>2, RowKeepsInv DEF ReconcileRegister, Returns
<1>6. CASE RecalcWrite(c)
  <2>1. [register EXCEPT ![r].expected = call[c].sum] \in [Registers -> RegisterRows]
    BY <1>a, <1>b DEF RegisterRows
  <2>2. register' \in [Registers -> RegisterRows] /\ latest' \in 0..LastRegister
    BY <1>6, <1>a, <2>1 DEF RecalcWrite
  <2> QED BY <1>6, <1>b, <1>c, <2>2, RowKeepsInv DEF RecalcWrite, Returns
<1> QED BY <1>1, <1>2, <1>3, <1>4, <1>5, <1>6

(***************************************************************************)
(* Steps that write deposits                                               *)
(***************************************************************************)
LEMMA DepositKeepsInv ==
  ASSUME DrawerInv, NEW c \in Clerks, NEW k \in Calls, Becomes(c, k),
         UNCHANGED <<shift, register, latest, closedLast>>, SameCounters,
         NEW d, NEW x,
         deposit' = [deposit EXCEPT ![d] = x],
         d \in Deposits =>
           /\ x \in DepositRows
           /\ deposit[d].status = "rejected" => x.status = "rejected"
           /\ x.back => deposit[d].back \/ x.status = "rejected",
         \/ k.at \in Steady
         \/ k.at \in {"rejectFind", "putBack"} /\ k.dep = d
            /\ d \in Deposits /\ x.status = "rejected"
  PROVE  DrawerInv'
<1>1. DrawerTypeOK
  BY DEF DrawerInv
<1>2. /\ shift' \in [Shifts -> ShiftRows]
      /\ register' \in [Registers -> RegisterRows]
      /\ latest' \in 0..LastRegister /\ closedLast' \in 0..LastRegister
      /\ calls' \in Nat /\ raced' \in BOOLEAN
  BY <1>1 DEF DrawerTypeOK, SameCounters
<1>3. deposit \in [Deposits -> DepositRows]
  BY <1>1 DEF DrawerTypeOK
<1>4. deposit' \in [Deposits -> DepositRows]
  BY <1>3
<1>5. \A e \in Deposits : deposit'[e] = IF e = d THEN x ELSE deposit[e]
  BY <1>3
<1>6. /\ \A e \in Deposits :
           deposit[e].status = "rejected" => deposit'[e].status = "rejected"
      /\ \A e \in Deposits :
           deposit'[e].back => deposit[e].back \/ deposit'[e].status = "rejected"
  BY <1>5
<1>7. /\ k.at \in {"rejectFind", "putBack"} =>
           k.dep \in Deposits /\ deposit'[k.dep].status = "rejected"
      /\ k.at \in {"approve", "reject"} => k.dep \in Deposits
      /\ k.at \in {"autoSum", "closeSum"} => k.register \in Registers
  BY <1>5 DEF Steady
<1> QED BY <1>2, <1>4, <1>6, <1>7, StepKeepsInv

LEMMA DepositWrites ==
  ASSUME DrawerInv, NEW c \in Clerks,
         \/ DepositCreate(c) \/ DepositOut(c) \/ Approve(c) \/ Reject(c) \/ PutBack(c)
  PROVE  DrawerInv'
<1> DEFINE d == call[c].dep
<1>0. call[c] \in Calls /\ Sound(call[c]) /\ DrawerTypeOK
  BY CallInFlight DEF DrawerInv
<1>a. deposit \in [Deposits -> DepositRows]
  BY <1>0 DEF DrawerTypeOK
<1>b. NoCall \in Calls /\ NoCall.at \in Steady
  BY NoCallIsACall DEF NoCall, Steady, Stages
<1>c. \A at \in {"closeCheck", "recalcRead", "rejectFind"} :
         /\ [call[c] EXCEPT !.at = at] \in Calls
         /\ [call[c] EXCEPT !.at = at].at = at
         /\ [call[c] EXCEPT !.at = at].dep = d
  BY <1>0 DEF Calls, Stages
<1>d. "closeCheck" \in Steady /\ "recalcRead" \in Steady /\ "depositOut" \in Steady
  BY DEF Steady, Stages
<1>1. CASE DepositCreate(c)
  <2> DEFINE x == [NoDeposit EXCEPT !.register = call[c].register, !.status = "pending"]
  <2>1. PICK e \in FreshDeposits :
           /\ deposit' = [deposit EXCEPT ![e] = x]
           /\ Becomes(c, [call[c] EXCEPT !.at = "depositOut", !.dep = e])
    BY <1>1 DEF DepositCreate
  <2> DEFINE k == [call[c] EXCEPT !.at = "depositOut", !.dep = e]
  <2>2. k \in Calls
    BY <1>0, <2>1 DEF Calls, Stages, FreshDeposits
  <2>3. k.at = "depositOut"
    BY <1>0 DEF Calls
  <2>4. x \in DepositRows /\ ~x.back
    BY <1>0 DEF Calls, DepositRows, NoDeposit
  <2>5. deposit[e].status # "rejected"
    BY <2>1 DEF FreshDeposits
  <2>6. UNCHANGED <<shift, register, latest, closedLast>> /\ SameCounters
    BY <1>1 DEF DepositCreate
  <2> QED BY <1>d, <2>1, <2>2, <2>3, <2>4, <2>5, <2>6, DepositKeepsInv
<1>2. CASE DepositOut(c)
  <2> DEFINE x == [deposit[d] EXCEPT !.out = TRUE]
  <2>1. deposit' = [deposit EXCEPT ![d] = x]
    BY <1>2 DEF DepositOut
  <2>2. d \in Deposits => /\ x \in DepositRows
                          /\ x.status = deposit[d].status /\ x.back = deposit[d].back
    BY <1>a DEF DepositRows
  <2>3. Becomes(c, NoCall) \/ Becomes(c, [call[c] EXCEPT !.at = "closeCheck"])
    BY <1>2 DEF DepositOut, Returns, Goto
  <2>4. UNCHANGED <<shift, register, latest, closedLast>> /\ SameCounters
    BY <1>2 DEF DepositOut
  <2> QED BY <1>b, <1>c, <1>d, <2>1, <2>2, <2>3, <2>4, DepositKeepsInv
<1>3. ASSUME NEW status \in {"approved", "rejected"}, NEW next,
             \/ status = "approved" /\ next = "recalcRead"
             \/ status = "rejected" /\ next = "rejectFind",
             NEW stage, stage \in {"approve", "reject"},
             Decide(c, stage, status, next)
      PROVE  DrawerInv'
  <2>1. d \in Deposits
    BY <1>0, <1>3 DEF Decide, At, Sound
  <2>2. CASE deposit[d].status = "pending"
    <3> DEFINE x == [deposit[d] EXCEPT !.status = status]
               k == [call[c] EXCEPT !.at = next]
    <3>1. deposit' = [deposit EXCEPT ![d] = x]
      BY <1>3, <2>2 DEF Decide
    <3>2. x \in DepositRows /\ x.status = status /\ x.back = deposit[d].back
      BY <1>a, <1>3, <2>1 DEF DepositRows
    <3>3. k \in Calls /\ k.at = next /\ k.dep = d
      BY <1>3, <1>c
    <3>4. /\ Becomes(c, k)
          /\ UNCHANGED <<shift, register, latest, closedLast>> /\ SameCounters
      BY <1>3, <2>2 DEF Decide, Goto
    <3>5. \/ k.at \in Steady
          \/ k.at \in {"rejectFind", "putBack"} /\ k.dep = d
             /\ d \in Deposits /\ x.status = "rejected"
      <4>1. CASE status = "approved" /\ next = "recalcRead"
        <5>1. k.at = "recalcRead"
          BY <4>1, <3>3
        <5>2. k.at \in Steady
          BY <5>1, <1>d
        <5> QED BY <5>2
      <4>2. CASE status = "rejected" /\ next = "rejectFind"
        BY <4>2, <2>1, <3>2, <3>3
      <4> QED BY <1>3, <4>1, <4>2
    <3>6. deposit[d].status # "rejected"
      BY <2>2
    <3>7. d \in Deposits =>
            /\ x \in DepositRows
            /\ deposit[d].status = "rejected" => x.status = "rejected"
            /\ x.back => deposit[d].back \/ x.status = "rejected"
      BY <3>2, <3>6
    <3> QED BY <3>1, <3>3, <3>4, <3>5, <3>7, DepositKeepsInv
  <2>3. CASE deposit[d].status # "pending"
    <3>1. Reads /\ Returns(c)
      BY <1>3, <2>3 DEF Decide, Reads, rows
    <3> QED BY <3>1, ReturnKeepsInv
  <2> QED BY <2>2, <2>3
<1>4. CASE Approve(c)
  BY <1>3, <1>4 DEF Approve
<1>5. CASE Reject(c)
  BY <1>3, <1>5 DEF Reject
<1>6. CASE PutBack(c)
  <2> DEFINE x == [deposit[d] EXCEPT !.back = TRUE]
             k == [call[c] EXCEPT !.at = "recalcRead"]
  <2>1. d \in Deposits /\ deposit[d].status = "rejected"
    BY <1>0, <1>6 DEF PutBack, At, Sound
  <2>2. deposit' = [deposit EXCEPT ![d] = x]
    BY <1>6 DEF PutBack
  <2>3. x \in DepositRows /\ x.status = "rejected"
    BY <1>a, <2>1 DEF DepositRows
  <2>4. k \in Calls /\ k.at = "recalcRead"
    BY <1>c
  <2>5. /\ Becomes(c, k)
        /\ UNCHANGED <<shift, register, latest, closedLast>> /\ SameCounters
    BY <1>6 DEF PutBack, Goto
  <2> QED BY <1>d, <2>2, <2>3, <2>4, <2>5, DepositKeepsInv
<1> QED BY <1>1, <1>2, <1>4, <1>5, <1>6

(***************************************************************************)
(* The theorems                                                            *)
(***************************************************************************)
LEMMA DrawerInitInv == DrawerInit => DrawerInv
<1> SUFFICES ASSUME DrawerInit PROVE DrawerInv
  OBVIOUS
<1>1. /\ NoShift \in ShiftRows /\ NoRegister \in RegisterRows
      /\ NoDeposit \in DepositRows /\ NoDeposit.back = FALSE
      /\ 0 \in 0..LastRegister
  BY DrawerAssumption DEF NoShift, ShiftRows, NoRegister, RegisterRows,
     NoDeposit, DepositRows
<1>2. DrawerTypeOK
  BY <1>1, NoCallIsACall DEF DrawerInit, DrawerTypeOK
<1>3. Decisions
  BY NoCallIsACall DEF DrawerInit, Decisions, Sound, NoCall
<1>4. PutBackIfRejected
  BY <1>1 DEF DrawerInit, PutBackIfRejected
<1> QED BY <1>2, <1>3, <1>4 DEF DrawerInv

LEMMA DrawerStepInv ==
  ASSUME DrawerInv, [DrawerNext]_drawerVars
  PROVE  DrawerInv'
<1>1. CASE UNCHANGED drawerVars
  <2>1. /\ shift' = shift /\ register' = register /\ deposit' = deposit
        /\ latest' = latest /\ closedLast' = closedLast
        /\ call' = call /\ calls' = calls /\ raced' = raced
    BY <1>1 DEF drawerVars, rows
  <2>2. DrawerTypeOK'
    BY <2>1 DEF DrawerInv, DrawerTypeOK, Shifts, Registers
  <2>3. Decisions'
    BY <2>1 DEF DrawerInv, Decisions, Sound, Registers
  <2>4. PutBackIfRejected'
    BY <2>1 DEF DrawerInv, PutBackIfRejected
  <2> QED BY <2>2, <2>3, <2>4 DEF DrawerInv
<1>2. CASE DrawerNext
  <2>1. PICK c \in Clerks :
           Begin(c) \/ CutOff(c) \/ ShiftStep(c) \/ RegisterStep(c) \/ DepositStep(c)
    BY <1>2 DEF DrawerNext
  <2>2. CASE Begin(c) \/ CutOff(c)
    BY <2>2, BeginAndCutOff
  <2>3. CASE ShiftStep(c)
    BY <2>3, ShiftReads, ShiftWrites DEF ShiftStep
  <2>4. CASE RegisterStep(c)
    BY <2>4, RegisterReads, RegisterWrites DEF RegisterStep
  <2>5. CASE DepositStep(c)
    BY <2>5, DepositReads, DepositWrites, RegisterWrites DEF DepositStep
  <2> QED BY <2>1, <2>2, <2>3, <2>4, <2>5
<1> QED BY <1>1, <1>2

(* The strengthened invariant: rows and calls are well formed, and what a  *)
(* rejection under way rests on has been decided for good.                 *)
THEOREM DrawerIsSound == DrawerSpec => []DrawerInv
<1>1. DrawerInv /\ [DrawerNext]_drawerVars => DrawerInv'
  BY DrawerStepInv
<1> QED BY DrawerInitInv, <1>1, PTL DEF DrawerSpec

(* CashDepositService: cash is put back only for a rejected deposit.       *)
THEOREM OnlyRejectedIsPutBack == DrawerSpec => []PutBackIfRejected
<1>1. DrawerInv => PutBackIfRejected
  BY DEF DrawerInv
<1> QED BY DrawerIsSound, <1>1, PTL

(***************************************************************************)
(* What is settled.  A step that writes no register, shift or deposit      *)
(* keeps them; each of the others looks at the row's status as it writes.  *)
(***************************************************************************)
LEMMA RegistersAreFinal ==
  ASSUME DrawerInv, NEW c \in Clerks,
         \/ OpeningWrite(c) \/ OpenRegister(c) \/ CloseWrite(c)
         \/ EntryWrite(c) \/ ReconcileRegister(c) \/ RecalcWrite(c)
  PROVE  RegistersStay
<1> DEFINE q == call[c].register
<1>0. register \in [Registers -> RegisterRows]
  BY DEF DrawerInv, DrawerTypeOK
<1> SUFFICES ASSUME NEW r \in Registers, register[r].status \in {"closed", "reconciled"}
             PROVE  /\ register'[r].status \in {"closed", "reconciled"}
                    /\ register'[r].opening = register[r].opening
                    /\ register'[r].closing = register[r].closing
  BY DEF RegistersStay
<1>a. register[r] \in RegisterRows
  BY <1>0
<1>b. StatusOf(q) = "open" => r # q
  BY DEF StatusOf
<1>1. CASE OpeningWrite(c)
  <2>1. register'[r] = register[r]
    BY <1>0, <1>b, <1>1 DEF OpeningWrite
  <2> QED BY <2>1
<1>2. CASE OpenRegister(c)
  <2>1. PICK p \in FreshRegisters : \E x : register' = [register EXCEPT ![p] = x]
    BY <1>2 DEF OpenRegister
  <2>2. r # p
    BY <2>1 DEF FreshRegisters
  <2>3. register'[r] = register[r]
    BY <1>0, <2>1, <2>2
  <2> QED BY <2>3
<1>3. CASE CloseWrite(c)
  <2>1. register'[r] = register[r]
    BY <1>0, <1>b, <1>3 DEF CloseWrite, Closing
  <2> QED BY <2>1
<1>4. CASE EntryWrite(c)
  <2>1. \/ register' = [register EXCEPT ![q].cashOut = @ + 1]
        \/ register' = [register EXCEPT ![q].cashIn = @ + 1]
    BY <1>4 DEF EntryWrite
  <2> QED BY <1>0, <1>a, <2>1 DEF RegisterRows
<1>5. CASE ReconcileRegister(c)
  <2>1. \/ register' = [register EXCEPT ![q].status = "reconciled"]
        \/ register' = register
    BY <1>5 DEF ReconcileRegister
  <2> QED BY <1>0, <1>a, <2>1 DEF RegisterRows
<1>6. CASE RecalcWrite(c)
  <2>1. register' = [register EXCEPT ![q].expected = call[c].sum]
    BY <1>6 DEF RecalcWrite
  <2> QED BY <1>0, <1>a, <2>1 DEF RegisterRows
<1> QED BY <1>1, <1>2, <1>3, <1>4, <1>5, <1>6

LEMMA ShiftsAreFinal ==
  ASSUME DrawerInv, NEW c \in Clerks, StartShift(c) \/ EndShift(c)
  PROVE  ShiftsStay
<1>0. shift \in [Shifts -> ShiftRows]
  BY DEF DrawerInv, DrawerTypeOK
<1> SUFFICES ASSUME NEW s \in Shifts, shift[s].status \in {"completed", "force_closed"}
             PROVE  shift'[s] = shift[s]
  BY DEF ShiftsStay
<1>1. CASE StartShift(c)
  <2>1. PICK p \in FreshShifts : \E x : shift' = [shift EXCEPT ![p] = x]
    BY <1>1 DEF StartShift
  <2>2. s # p
    BY <2>1 DEF FreshShifts
  <2> QED BY <1>0, <2>1, <2>2
<1>2. CASE EndShift(c)
  <2>1. CASE shift[call[c].shift].status # "active"
    BY <1>2, <2>1 DEF EndShift
  <2>2. CASE shift[call[c].shift].status = "active"
    <3>1. \E t : shift' = [shift EXCEPT ![call[c].shift].status = t]
      BY <1>2, <2>2 DEF EndShift
    <3>2. s # call[c].shift
      BY <2>2
    <3> QED BY <1>0, <3>1, <3>2
  <2> QED BY <2>1, <2>2
<1> QED BY <1>1, <1>2

LEMMA DepositsAreFinal ==
  ASSUME DrawerInv, NEW c \in Clerks,
         \/ DepositCreate(c) \/ DepositOut(c) \/ Approve(c) \/ Reject(c) \/ PutBack(c)
  PROVE  DepositsStay
<1> DEFINE e == call[c].dep
<1>0. deposit \in [Deposits -> DepositRows]
  BY DEF DrawerInv, DrawerTypeOK
<1> SUFFICES ASSUME NEW d \in Deposits, deposit[d].status \in {"approved", "rejected"}
             PROVE  deposit'[d].status = deposit[d].status
  BY DEF DepositsStay
<1>1. CASE DepositCreate(c)
  <2>1. PICK f \in FreshDeposits : \E x : deposit' = [deposit EXCEPT ![f] = x]
    BY <1>1 DEF DepositCreate
  <2>2. d # f
    BY <2>1 DEF FreshDeposits
  <2> QED BY <1>0, <2>1, <2>2
<1>2. CASE DepositOut(c)
  <2>1. deposit' = [deposit EXCEPT ![e].out = TRUE]
    BY <1>2 DEF DepositOut
  <2> QED BY <1>0, <2>1 DEF DepositRows
<1>3. ASSUME NEW stage, NEW status, NEW next, Decide(c, stage, status, next)
      PROVE  deposit'[d].status = deposit[d].status
  <2>1. CASE deposit[e].status = "pending"
    <3>1. deposit' = [deposit EXCEPT ![e].status = status] /\ d # e
      BY <1>3, <2>1 DEF Decide
    <3> QED BY <1>0, <3>1
  <2>2. CASE deposit[e].status # "pending"
    BY <1>3, <2>2 DEF Decide
  <2> QED BY <2>1, <2>2
<1>4. CASE Approve(c) \/ Reject(c)
  BY <1>3, <1>4 DEF Approve, Reject
<1>5. CASE PutBack(c)
  <2>1. deposit' = [deposit EXCEPT ![e].back = TRUE]
    BY <1>5 DEF PutBack
  <2> QED BY <1>0, <2>1 DEF DepositRows
<1> QED BY <1>1, <1>2, <1>4, <1>5

LEMMA UntouchedStay ==
  /\ register' = register => RegistersStay
  /\ shift' = shift => ShiftsStay
  /\ deposit' = deposit => DepositsStay
BY DEF RegistersStay, ShiftsStay, DepositsStay

LEMMA StepKeepsSettled ==
  ASSUME DrawerInv, NEW c \in Clerks,
         Begin(c) \/ CutOff(c) \/ ShiftStep(c) \/ RegisterStep(c) \/ DepositStep(c)
  PROVE  RegistersStay /\ ShiftsStay /\ DepositsStay
<1>1. CASE \/ OpeningWrite(c) \/ OpenRegister(c) \/ CloseWrite(c)
           \/ EntryWrite(c) \/ ReconcileRegister(c) \/ RecalcWrite(c)
  <2>1. shift' = shift /\ deposit' = deposit
    BY <1>1 DEF OpeningWrite, OpenRegister, CloseWrite, EntryWrite,
       ReconcileRegister, RecalcWrite
  <2> QED BY <1>1, <2>1, RegistersAreFinal, UntouchedStay
<1>2. CASE StartShift(c) \/ EndShift(c)
  <2>1. register' = register /\ deposit' = deposit
    BY <1>2 DEF StartShift, EndShift
  <2> QED BY <1>2, <2>1, ShiftsAreFinal, UntouchedStay
<1>3. CASE DepositCreate(c) \/ DepositOut(c) \/ Approve(c) \/ Reject(c) \/ PutBack(c)
  <2>1. register' = register /\ shift' = shift
    BY <1>3 DEF DepositCreate, DepositOut, Approve, Reject, Decide, PutBack
  <2> QED BY <1>3, <2>1, DepositsAreFinal, UntouchedStay
<1>4. CASE UNCHANGED rows
  <2>1. register' = register /\ shift' = shift /\ deposit' = deposit
    BY <1>4 DEF rows
  <2> QED BY <2>1, UntouchedStay
<1>5. CASE Begin(c) \/ CutOff(c)
  <2>1. UNCHANGED rows
    BY <1>5 DEF Begin, CutOff, Reads
  <2> QED BY <2>1, <1>4
<1>6. CASE ShiftStep(c)
  <2>1. StartShift(c) \/ EndShift(c) \/ UNCHANGED rows
    BY <1>6 DEF ShiftStep, ClockIn, FindActive, StaleShift, ClockOut, AutoFind,
       AutoSum, MyShift, MyRegister, Reads
  <2> QED BY <2>1, <1>2, <1>4
<1>7. CASE RegisterStep(c)
  <2>1. \/ OpeningWrite(c) \/ OpenRegister(c) \/ CloseWrite(c)
        \/ EntryWrite(c) \/ ReconcileRegister(c) \/ UNCHANGED rows
    BY <1>7 DEF RegisterStep, LastClosed, CarrySum, Ensure, OpeningCheck,
       Validate, Exists, CloseCheck, CloseSum, EntryCheck, ReconcileCheck, Reads
  <2> QED BY <2>1, <1>1, <1>4
<1>8. CASE DepositStep(c)
  <2>1. \/ DepositCreate(c) \/ DepositOut(c) \/ Approve(c) \/ Reject(c)
        \/ PutBack(c) \/ RecalcWrite(c) \/ UNCHANGED rows
    BY <1>8 DEF DepositStep, DepositCheck, RejectFind, RecalcRead, Reads
  <2> QED BY <2>1, <1>1, <1>3, <1>4
<1> QED BY <1>5, <1>6, <1>7, <1>8

(* Registers that were closed, shifts that ended and deposits that were    *)
(* decided on stay so through every step of every call.                    *)
THEOREM SettledStays == DrawerSpec => SettledIsFinal
<1>1. DrawerInv /\ [DrawerNext]_drawerVars
        => [RegistersStay /\ ShiftsStay /\ DepositsStay]_drawerVars
  <2> SUFFICES ASSUME DrawerInv, DrawerNext
               PROVE  RegistersStay /\ ShiftsStay /\ DepositsStay
    OBVIOUS
  <2>1. PICK c \in Clerks :
           Begin(c) \/ CutOff(c) \/ ShiftStep(c) \/ RegisterStep(c) \/ DepositStep(c)
    BY DEF DrawerNext
  <2> QED BY <2>1, StepKeepsSettled
<1> QED BY DrawerIsSound, <1>1, PTL DEF DrawerSpec, SettledIsFinal

(***************************************************************************)
(* Calls that take turns.  What a closed register was expected to hold is  *)
(* what its entries sum up to, and a login leaves its user an open         *)
(* register: neither follows from the rows alone.  As long as no two calls *)
(* have been in flight at once, TurnInv says what the one in flight has    *)
(* read and what of it is still so.                                        *)
(***************************************************************************)
(* Registers are created in order; one not created yet is of no shift.     *)
Numbered ==
  \A r \in FreshRegisters :
     register[r].shift = 0 /\ \A q \in Registers : r <= q => q \in FreshRegisters

Lone == \A c, o \in Clerks : ~Waits(c) /\ ~Waits(o) => c = o

OneActive ==
  \A s, t \in Shifts :
     (/\ shift[s].status = "active" /\ shift[t].status = "active"
      /\ shift[s].user = shift[t].user) => s = t

Counting ==
  \A r \in Registers : register[r].status \in {"closed", "reconciled"} =>
     register[r].expected = Ledger(r)

(* An entry is written to an open register, and a sum is what was summed.  *)
Counted(k) ==
  /\ k.at \in {"entryWrite", "putBack"} => StatusOf(k.register) = "open"
  /\ k.at \in {"closeWrite", "recalcWrite"} => k.sum = Ledger(k.register)
  /\ k.at \in {"reject", "rejectFind", "putBack"} =>
       deposit[k.dep].register = k.register

(* A login on its way: to a new shift, to a register for the shift it      *)
(* found, or to the end of a shift whose register is closed.               *)
LogsIn(k) == k.op \in {"login", "relogin"}
OnShift == {"stale", "lastClosed", "carrySum", "ensure", "openingCheck",
            "openingWrite", "validate", "exists", "openRegister", "autoFind",
            "endShift"}
LoginStages == OnShift \cup {"clockIn", "active", "startShift", "clockOut"}
OnItsWay(k) ==
  /\ k.at \in LoginStages
  /\ k.op = "relogin" /\ k.at = "clockIn" => ActiveOf(k.user) = {}
  /\ k.at = "active" => ActiveOf(k.user) # {}
  /\ k.at \in {"clockOut", "autoFind", "endShift"} => k.op = "relogin"
  /\ k.at \in OnShift => k.shift \in ActiveOf(k.user)
  /\ k.at \in {"openingCheck", "openingWrite"} =>
       k.register = FindByShift(k.shift) /\ StatusOf(k.register) = "open"
  /\ k.at = "clockOut" =>
       \E s \in ActiveOf(k.user) : StatusOf(FindByShift(s)) = "closed"
  /\ k.at = "autoFind" => StatusOf(FindByShift(k.shift)) = "closed"

InHand(k) ==
  /\ Counted(k)
  /\ k.at = "startShift" => ActiveOf(k.user) = {}
  /\ k.at \in {"active", "stale"} => LogsIn(k)
  /\ LogsIn(k) => OnItsWay(k)

InTurn == OneActive /\ Lone /\ Counting /\ \A c \in Clerks : InHand(call[c])
TurnInv == Numbered /\ (~raced => InTurn)

(* At these stages a call has nothing to keep, unless it logs in. *)
Heedful == {"startShift", "entryWrite", "putBack", "closeWrite", "recalcWrite",
            "reject", "rejectFind", "active", "stale"}
LEMMA NothingInHand ==
  ASSUME NEW k, ~LogsIn(k), k.at \notin Heedful
  PROVE  InHand(k) /\ InHand(k)'
BY DEF InHand, Counted, LogsIn, Heedful

LEMMA NoCallInHand ==
  ~LogsIn(NoCall) /\ NoCall.at = "idle" /\ InHand(NoCall) /\ InHand(NoCall)'
<1>1. ~LogsIn(NoCall) /\ NoCall.at = "idle"
  BY DEF NoCall, LogsIn
<1> QED BY <1>1, NothingInHand DEF Heedful

(* A call that waits has nothing in hand, whatever becomes of the rows.    *)
LEMMA WaitingInHand ==
  ASSUME NEW k, k.at \in {"idle", "lost"}, InHand(k)
  PROVE  InHand(k)'
<1>1. ~LogsIn(k)
  BY DEF InHand, OnItsWay, LoginStages, OnShift
<1> QED BY <1>1, NothingInHand DEF Heedful

(* Where a call that logs in may not be, none does. *)
LEMMA OthersDoNotLogIn ==
  ASSUME InTurn, NEW c \in Clerks, call[c].at \notin LoginStages
  PROVE  ~LogsIn(call[c])
BY DEF InTurn, InHand, OnItsWay

(* One call moves, and the others wait.  What a step has to show then.     *)
LEMMA OneMoves ==
  ASSUME DrawerInv, NEW c \in Clerks, NEW k, Becomes(c, k),
         Numbered',
         ~raced' => /\ InTurn /\ \A o \in Clerks : o # c => Waits(o)
                    /\ OneActive' /\ Counting' /\ InHand(k)'
  PROVE  TurnInv'
<1>1. /\ call \in [Clerks -> Calls]
      /\ call' = [call EXCEPT ![c] = k]
  BY DEF DrawerInv, DrawerTypeOK, Becomes
<1>2. call'[c] = k /\ \A o \in Clerks : o # c => call'[o] = call[o]
  BY <1>1
<1>3. ASSUME ~raced' PROVE InTurn'
  <2>1. \A o \in Clerks : o # c => call[o].at \in {"idle", "lost"}
    BY <1>3 DEF Waits
  <2>2. Lone'
    BY <1>2, <2>1 DEF Lone, Waits
  <2>3. ASSUME NEW o \in Clerks PROVE InHand(call[o])'
    <3>1. CASE o = c
      <4>1. InHand(k)'
        BY <1>3
      <4> QED BY <4>1, <1>2, <3>1 DEF InHand, Counted, LogsIn, OnItsWay
    <3>2. CASE o # c
      <4>1. PICK m : m = call[o]
        OBVIOUS
      <4>2. InHand(m) /\ m.at \in {"idle", "lost"}
        BY <1>3, <2>1, <3>2, <4>1 DEF InTurn
      <4>3. InHand(m)'
        BY <4>2, WaitingInHand
      <4>4. call'[o] = m
        BY <1>2, <3>2, <4>1
      <4> QED BY <4>3, <4>4 DEF InHand, Counted, LogsIn, OnItsWay
    <3> QED BY <3>1, <3>2
  <2> QED BY <1>3, <2>2, <2>3 DEF InTurn
<1> QED BY <1>3 DEF TurnInv

LEMMA TheOthersWait ==
  ASSUME InTurn, NEW c \in Clerks, ~Waits(c)
  PROVE  \A o \in Clerks : o # c => Waits(o)
BY DEF InTurn, Lone

(* A step that only reads. *)
LEMMA RowsAsTheyWere ==
  ASSUME UNCHANGED rows
  PROVE  /\ Numbered => Numbered'
         /\ OneActive => OneActive'
         /\ Counting => Counting'
         /\ \A k : InHand(k) => InHand(k)'
<1>1. shift' = shift /\ register' = register /\ deposit' = deposit
  BY DEF rows
<1>2. \A r : /\ StatusOf(r)' = StatusOf(r) /\ Ledger(r)' = Ledger(r)
             /\ ActiveOf(r)' = ActiveOf(r) /\ FindByShift(r)' = FindByShift(r)
  BY <1>1 DEF StatusOf, Ledger, PutBackInto, ActiveOf, FindByShift, Newest, OfShift,
     Registers, Shifts
<1>3. Numbered => Numbered'
  BY <1>1 DEF Numbered, FreshRegisters, Registers
<1>4. OneActive => OneActive'
  BY <1>1 DEF OneActive, Shifts
<1>5. Counting => Counting'
  BY <1>1, <1>2 DEF Counting, Registers
<1>6. ASSUME NEW k, InHand(k) PROVE InHand(k)'
  BY <1>1, <1>2, <1>6 DEF InHand, Counted, LogsIn, OnItsWay
<1> QED BY <1>3, <1>4, <1>5, <1>6

LEMMA ReadsInTurn ==
  ASSUME DrawerInv, TurnInv, NEW c \in Clerks, ~Waits(c), NEW k, Becomes(c, k),
         Reads, InTurn => InHand(k)
  PROVE  TurnInv'
<1>1. UNCHANGED rows /\ raced' = raced
  BY DEF Reads, SameCounters
<1>2. Numbered'
  BY <1>1, RowsAsTheyWere DEF TurnInv
<1>3. ASSUME ~raced' PROVE /\ InTurn /\ \A o \in Clerks : o # c => Waits(o)
                           /\ OneActive' /\ Counting' /\ InHand(k)'
  <2>1. InTurn
    BY <1>1, <1>3 DEF TurnInv
  <2> QED BY <2>1, <1>1, TheOthersWait, RowsAsTheyWere DEF InTurn
<1> QED BY <1>2, <1>3, OneMoves

LEMMA ReturnsInTurn ==
  ASSUME DrawerInv, TurnInv, NEW c \in Clerks, ~Waits(c), Returns(c), Reads
  PROVE  TurnInv'
BY NoCallInHand, ReadsInTurn DEF Returns

(* A step with nothing to keep, of a call that does not log in. *)
LEMMA GoesOnInTurn ==
  ASSUME DrawerInv, TurnInv, NEW c \in Clerks, NEW k, Becomes(c, k), Reads,
         call[c].at \notin LoginStages \cup {"idle", "lost"},
         k.op = call[c].op, k.at \notin Heedful
  PROVE  TurnInv'
<1>1. ~Waits(c)
  BY DEF Waits
<1>2. ASSUME InTurn PROVE InHand(k)
  <2>1. ~LogsIn(call[c])
    BY <1>2, OthersDoNotLogIn
  <2> QED BY <2>1, NothingInHand DEF LogsIn
<1> QED BY <1>1, <1>2, ReadsInTurn

(* A step with nothing to keep but what a login knows of its shift. *)
LEMMA LogsInInTurn ==
  ASSUME DrawerInv, TurnInv, NEW c \in Clerks, ~Waits(c), NEW k, Becomes(c, k),
         Reads, k.at \notin Heedful \ {"active", "stale"},
         InTurn /\ InHand(call[c]) =>
           /\ LogsIn(k) => OnItsWay(k)
           /\ k.at \in {"active", "stale"} => LogsIn(k)
  PROVE  TurnInv'
<1>1. ASSUME InTurn PROVE InHand(k)
  <2>1. InHand(call[c])
    BY <1>1 DEF InTurn
  <2>2. k.at \notin {"startShift", "entryWrite", "putBack", "closeWrite",
                     "recalcWrite", "reject", "rejectFind"}
    BY DEF Heedful
  <2>3. Counted(k)
    BY <2>2 DEF Counted
  <2> QED BY <1>1, <2>1, <2>2, <2>3 DEF InHand
<1> QED BY <1>1, ReadsInTurn

LEMMA ClockInInTurn ==
  ASSUME DrawerInv, TurnInv, NEW c \in Clerks, ClockIn(c)
  PROVE  TurnInv'
<1>0. call[c] \in Calls /\ call[c].at = "clockIn" /\ Reads /\ ~Waits(c)
  BY CallInFlight DEF ClockIn, At, Waits
<1>1. CASE ActiveOf(call[c].user) = {}
  <2> DEFINE k == [call[c] EXCEPT !.at = "startShift"]
  <2>1. Becomes(c, k)
    BY <1>1 DEF ClockIn, Goto
  <2>2. k.at = "startShift" /\ k.user = call[c].user /\ k.op = call[c].op
    BY <1>0 DEF Calls
  <2>3. ASSUME InTurn PROVE InHand(k)
    BY <1>1, <2>2 DEF InHand, Counted, OnItsWay, LoginStages, OnShift
  <2> QED BY <1>0, <2>1, <2>3, ReadsInTurn
<1>2. CASE ActiveOf(call[c].user) # {} /\ call[c].op = "login"
  <2> DEFINE k == [call[c] EXCEPT !.at = "active"]
  <2>1. Becomes(c, k)
    BY <1>2 DEF ClockIn, Goto
  <2>2. k.at = "active" /\ k.user = call[c].user /\ k.op = "login"
    BY <1>0, <1>2 DEF Calls
  <2>3. OnItsWay(k)
    BY <1>2, <2>2 DEF OnItsWay, LoginStages, OnShift
  <2> QED BY <1>0, <2>1, <2>2, <2>3, LogsInInTurn DEF Heedful, LogsIn
<1>3. CASE ActiveOf(call[c].user) # {} /\ call[c].op # "login"
  <2>1. Returns(c)
    BY <1>3 DEF ClockIn
  <2> QED BY <1>0, <2>1, ReturnsInTurn
<1> QED BY <1>1, <1>2, <1>3

LEMMA FindActiveInTurn ==
  ASSUME DrawerInv, TurnInv, NEW c \in Clerks, FindActive(c)
  PROVE  TurnInv'
<1>0. call[c] \in Calls /\ call[c].at = "active" /\ Reads /\ ~Waits(c)
  BY CallInFlight DEF FindActive, At, Waits
<1>1. CASE Returns(c)
  BY <1>0, <1>1, ReturnsInTurn
<1>2. CASE ~Returns(c)
  <2>1. PICK s \in ActiveOf(call[c].user) :
           Becomes(c, [call[c] EXCEPT !.at = "stale", !.shift = s])
    BY <1>2 DEF FindActive
  <2> DEFINE k == [call[c] EXCEPT !.at = "stale", !.shift = s]
  <2>2. k.at = "stale" /\ k.user = call[c].user /\ k.op = call[c].op /\ k.shift = s
    BY <1>0 DEF Calls
  <2>3. OnItsWay(k)
    BY <2>1, <2>2 DEF OnItsWay, LoginStages, OnShift
  <2>4. InHand(call[c]) => LogsIn(k)
    BY <1>0, <2>2 DEF InHand, LogsIn
  <2> QED BY <1>0, <2>1, <2>2, <2>3, <2>4, LogsInInTurn DEF Heedful
<1> QED BY <1>1, <1>2

LEMMA StaleShiftInTurn ==
  ASSUME DrawerInv, TurnInv, NEW c \in Clerks, StaleShift(c)
  PROVE  TurnInv'
<1>0. call[c] \in Calls /\ call[c].at = "stale" /\ Reads /\ ~Waits(c)
  BY CallInFlight DEF StaleShift, At, Waits
<1>1. CASE StatusOf(FindByShift(call[c].shift)) = "closed"
  <2> DEFINE k == [call[c] EXCEPT !.op = "relogin", !.at = "clockOut"]
  <2>1. Becomes(c, k)
    BY <1>1 DEF StaleShift
  <2>2. k.at = "clockOut" /\ k.user = call[c].user /\ k.op = "relogin"
    BY <1>0 DEF Calls
  <2>3. ASSUME InTurn PROVE call[c].shift \in ActiveOf(call[c].user)
    BY <1>0, <2>3 DEF InTurn, InHand, OnItsWay, OnShift
  <2>4. ASSUME InTurn PROVE OnItsWay(k)
    BY <1>1, <2>2, <2>3, <2>4 DEF OnItsWay, LoginStages, OnShift
  <2> QED BY <1>0, <2>1, <2>2, <2>4, LogsInInTurn DEF Heedful
<1>2. CASE StatusOf(FindByShift(call[c].shift)) # "closed"
  <2> DEFINE k == [call[c] EXCEPT !.at = "lastClosed"]
  <2>1. Becomes(c, k)
    BY <1>2 DEF StaleShift, Goto
  <2>2. /\ k.at = "lastClosed" /\ k.user = call[c].user /\ k.op = call[c].op
        /\ k.shift = call[c].shift
    BY <1>0 DEF Calls
  <2>3. InHand(call[c]) /\ LogsIn(k) => OnItsWay(k)
    BY <1>0, <2>2 DEF InHand, OnItsWay, LoginStages, OnShift, LogsIn
  <2> QED BY <1>0, <2>1, <2>2, <2>3, LogsInInTurn DEF Heedful
<1> QED BY <1>1, <1>2

LEMMA ClockOutInTurn ==
  ASSUME DrawerInv, TurnInv, NEW c \in Clerks, ClockOut(c)
  PROVE  TurnInv'
<1>0. call[c] \in Calls /\ call[c].at = "clockOut" /\ Reads /\ ~Waits(c)
  BY CallInFlight DEF ClockOut, At, Waits
<1>1. CASE Returns(c)
  BY <1>0, <1>1, ReturnsInTurn
<1>2. CASE ~Returns(c)
  <2>1. PICK s \in ActiveOf(call[c].user) :
           Becomes(c, [call[c] EXCEPT !.at = "autoFind", !.shift = s])
    BY <1>2 DEF ClockOut
  <2> DEFINE k == [call[c] EXCEPT !.at = "autoFind", !.shift = s]
  <2>2. k.at = "autoFind" /\ k.user = call[c].user /\ k.op = call[c].op /\ k.shift = s
    BY <1>0 DEF Calls
  <2>3. ASSUME InTurn, InHand(call[c]), LogsIn(k) PROVE OnItsWay(k)
    <3>1. OnItsWay(call[c])
      BY <2>2, <2>3 DEF InHand, LogsIn
    <3>2. PICK t \in ActiveOf(call[c].user) : StatusOf(FindByShift(t)) = "closed"
      BY <1>0, <3>1 DEF OnItsWay
    <3>3. s = t
      BY <2>1, <2>3, <3>2 DEF InTurn, OneActive, ActiveOf
    <3>4. call[c].op = "relogin"
      BY <1>0, <3>1 DEF OnItsWay
    <3> QED BY <2>1, <2>2, <3>2, <3>3, <3>4 DEF OnItsWay, LoginStages, OnShift
  <2> QED BY <1>0, <2>1, <2>2, <2>3, LogsInInTurn DEF Heedful
<1> QED BY <1>1, <1>2

LEMMA AutoCloseInTurn ==
  ASSUME DrawerInv, TurnInv, NEW c \in Clerks, AutoFind(c) \/ AutoSum(c)
  PROVE  TurnInv'
<1>0. call[c] \in Calls
  BY CallInFlight
<1>1. CASE AutoFind(c)
  <2> DEFINE r == FindByShift(call[c].shift)
  <2>0. call[c].at = "autoFind" /\ Reads /\ ~Waits(c)
    BY <1>1 DEF AutoFind, At, Waits
  <2>1. CASE StatusOf(r) = "open"
    <3> DEFINE k == [call[c] EXCEPT !.at = "autoSum", !.register = r,
                                    !.count = register[r].opening]
    <3>1. Becomes(c, k)
      BY <1>1, <2>1 DEF AutoFind
    <3>2. k.at = "autoSum" /\ k.op = call[c].op
      BY <1>0 DEF Calls
    <3>3. ASSUME InHand(call[c]) PROVE ~LogsIn(k)
      BY <2>0, <2>1, <3>2, <3>3 DEF InHand, OnItsWay, LogsIn
    <3> QED BY <2>0, <3>1, <3>2, <3>3, LogsInInTurn DEF Heedful
  <2>2. CASE StatusOf(r) # "open"
    <3> DEFINE k == [call[c] EXCEPT !.at = "endShift"]
    <3>1. Becomes(c, k)
      BY <1>1, <2>2 DEF AutoFind, Goto
    <3>2. /\ k.at = "endShift" /\ k.op = call[c].op /\ k.user = call[c].user
          /\ k.shift = call[c].shift
      BY <1>0 DEF Calls
    <3>3. ASSUME InHand(call[c]), LogsIn(k) PROVE OnItsWay(k)
      BY <2>0, <3>2, <3>3 DEF InHand, OnItsWay, LogsIn, LoginStages, OnShift
    <3> QED BY <2>0, <3>1, <3>2, <3>3, LogsInInTurn DEF Heedful
  <2> QED BY <2>1, <2>2
<1>2. CASE AutoSum(c)
  <2>a. PICK n : Becomes(c, [call[c] EXCEPT !.at = "closeCheck", !.auto = TRUE,
                                            !.count = n])
    BY <1>2 DEF AutoSum
  <2> DEFINE k == [call[c] EXCEPT !.at = "closeCheck", !.auto = TRUE, !.count = n]
  <2>1. Becomes(c, k) /\ Reads /\ call[c].at = "autoSum"
    BY <1>2, <2>a DEF AutoSum, At
  <2>2. k.at = "closeCheck" /\ k.op = call[c].op
    BY <1>0 DEF Calls
  <2> QED BY <2>1, <2>2, GoesOnInTurn DEF Heedful, LoginStages, OnShift
<1> QED BY <1>1, <1>2

LEMMA MyShiftInTurn ==
  ASSUME DrawerInv, TurnInv, NEW c \in Clerks, MyShift(c) \/ MyRegister(c)
  PROVE  TurnInv'
<1>0. call[c] \in Calls
  BY CallInFlight
<1>1. CASE MyShift(c)
  <2>0. call[c].at = "myShift" /\ Reads /\ ~Waits(c)
    BY <1>1 DEF MyShift, At, Waits
  <2>1. CASE Returns(c)
    BY <2>0, <2>1, ReturnsInTurn
  <2>2. CASE ~Returns(c)
    <3>1. PICK s \in ActiveOf(call[c].user) :
             Becomes(c, [call[c] EXCEPT !.at = "myRegister", !.shift = s])
      BY <1>1, <2>2 DEF MyShift
    <3> DEFINE k == [call[c] EXCEPT !.at = "myRegister", !.shift = s]
    <3>2. k.at = "myRegister" /\ k.op = call[c].op
      BY <1>0 DEF Calls
    <3> QED BY <2>0, <3>1, <3>2, GoesOnInTurn DEF Heedful, LoginStages, OnShift
  <2> QED BY <2>1, <2>2
<1>2. CASE MyRegister(c)
  <2> DEFINE r == FindByShift(call[c].shift)
             mine == [call[c] EXCEPT !.register = r]
  <2>0. call[c].at = "myRegister" /\ Reads /\ ~Waits(c)
    BY <1>2 DEF MyRegister, At, Waits
  <2>1. CASE Returns(c)
    BY <2>0, <2>1, ReturnsInTurn
  <2>2. CASE ~Returns(c)
    <3>1. \/ Becomes(c, [mine EXCEPT !.at = "depositCheck"])
          \/ Becomes(c, [mine EXCEPT !.at = "closeCheck"])
          \/ Becomes(c, [mine EXCEPT !.at = "clockOut", !.source = r])
          \/ Becomes(c, [call[c] EXCEPT !.at = "clockOut"])
      BY <1>2, <2>2 DEF MyRegister, Goto
    <3>2. ASSUME NEW k, Becomes(c, k), k.op = call[c].op,
                 k.at \in {"depositCheck", "closeCheck", "clockOut"}
          PROVE  TurnInv'
      BY <2>0, <3>2, GoesOnInTurn DEF Heedful, LoginStages, OnShift
    <3>3. /\ [mine EXCEPT !.at = "depositCheck"].at = "depositCheck"
          /\ [mine EXCEPT !.at = "depositCheck"].op = call[c].op
          /\ [mine EXCEPT !.at = "closeCheck"].at = "closeCheck"
          /\ [mine EXCEPT !.at = "closeCheck"].op = call[c].op
          /\ [mine EXCEPT !.at = "clockOut", !.source = r].at = "clockOut"
          /\ [mine EXCEPT !.at = "clockOut", !.source = r].op = call[c].op
          /\ [call[c] EXCEPT !.at = "clockOut"].at = "clockOut"
          /\ [call[c] EXCEPT !.at = "clockOut"].op = call[c].op
      BY <1>0 DEF Calls
    <3> HIDE DEF mine
    <3> QED BY <3>1, <3>2, <3>3
  <2> QED BY <2>1, <2>2
<1> QED BY <1>1, <1>2

(* The login's way to a register: it stays on its shift. *)
LEMMA StaysOnShiftInTurn ==
  ASSUME DrawerInv, TurnInv, NEW c \in Clerks, NEW k, Becomes(c, k), Reads,
         call[c].at \in OnShift \ {"stale", "autoFind", "endShift"},
         k.at \in {"carrySum", "ensure", "validate", "exists", "openRegister"},
         k.op = call[c].op, k.user = call[c].user, k.shift = call[c].shift
  PROVE  TurnInv'
<1>1. ~Waits(c) /\ k.at \notin Heedful
  BY DEF Waits, OnShift, Heedful
<1>2. ASSUME InHand(call[c]), LogsIn(k) PROVE OnItsWay(k)
  BY <1>2 DEF InHand, LogsIn, OnItsWay, LoginStages, OnShift
<1> QED BY <1>1, <1>2, LogsInInTurn DEF Heedful

LEMMA CarryInTurn ==
  ASSUME DrawerInv, TurnInv, NEW c \in Clerks, LastClosed(c) \/ CarrySum(c)
  PROVE  TurnInv'
<1>0. call[c] \in Calls
  BY CallInFlight
<1>1. CASE LastClosed(c)
  <2> DEFINE k == [call[c] EXCEPT !.at = "carrySum", !.source = latest]
  <2>1. Becomes(c, k) /\ Reads /\ call[c].at = "lastClosed"
    BY <1>1 DEF LastClosed, At
  <2>2. /\ k.at = "carrySum" /\ k.op = call[c].op /\ k.user = call[c].user
        /\ k.shift = call[c].shift
    BY <1>0 DEF Calls
  <2> QED BY <2>1, <2>2, StaysOnShiftInTurn DEF OnShift
<1>2. CASE CarrySum(c)
  <2> DEFINE k == [call[c] EXCEPT !.at = "ensure",
                     !.sum = IF call[c].source = 0 THEN 0 ELSE Float(call[c].source)]
  <2>1. Becomes(c, k) /\ Reads /\ call[c].at = "carrySum"
    BY <1>2 DEF CarrySum, At
  <2>2. /\ k.at = "ensure" /\ k.op = call[c].op /\ k.user = call[c].user
        /\ k.shift = call[c].shift
    BY <1>0 DEF Calls
  <2> QED BY <2>1, <2>2, StaysOnShiftInTurn DEF OnShift
<1> QED BY <1>1, <1>2

LEMMA EnsureInTurn ==
  ASSUME DrawerInv, TurnInv, NEW c \in Clerks, Ensure(c) \/ OpeningCheck(c)
  PROVE  TurnInv'
<1>0. call[c] \in Calls
  BY CallInFlight
<1>1. CASE Ensure(c)
  <2> DEFINE r == FindByShift(call[c].shift)
  <2>0. call[c].at = "ensure" /\ Reads /\ ~Waits(c)
    BY <1>1 DEF Ensure, At, Waits
  <2>1. CASE StatusOf(r) # "open"
    <3> DEFINE k == [call[c] EXCEPT !.at = "validate"]
    <3>1. Becomes(c, k)
      BY <1>1, <2>1 DEF Ensure, Goto
    <3>2. /\ k.at = "validate" /\ k.op = call[c].op /\ k.user = call[c].user
          /\ k.shift = call[c].shift
      BY <1>0 DEF Calls
    <3> QED BY <2>0, <3>1, <3>2, StaysOnShiftInTurn DEF OnShift
  <2>2. CASE StatusOf(r) = "open" /\ register[r].opening = call[c].sum
    <3>1. Returns(c)
      BY <1>1, <2>2 DEF Ensure
    <3> QED BY <2>0, <3>1, ReturnsInTurn
  <2>3. CASE StatusOf(r) = "open" /\ register[r].opening # call[c].sum
    <3> DEFINE k == [call[c] EXCEPT !.at = "openingCheck", !.register = r]
    <3>1. Becomes(c, k)
      BY <1>1, <2>3 DEF Ensure
    <3>2. /\ k.at = "openingCheck" /\ k.op = call[c].op /\ k.user = call[c].user
          /\ k.shift = call[c].shift /\ k.register = r
      BY <1>0 DEF Calls
    <3>3. ASSUME InHand(call[c]), LogsIn(k) PROVE OnItsWay(k)
      BY <2>0, <2>3, <3>2, <3>3 DEF InHand, LogsIn, OnItsWay, LoginStages, OnShift
    <3> QED BY <2>0, <3>1, <3>2, <3>3, LogsInInTurn DEF Heedful
  <2> QED BY <2>1, <2>2, <2>3
<1>2. CASE OpeningCheck(c)
  <2>0. call[c].at = "openingCheck" /\ Reads /\ ~Waits(c)
    BY <1>2 DEF OpeningCheck, At, Waits
  <2>1. CASE StatusOf(call[c].register) = "open"
    <3> DEFINE k == [call[c] EXCEPT !.at = "openingWrite"]
    <3>1. Becomes(c, k)
      BY <1>2, <2>1 DEF OpeningCheck, Goto
    <3>2. /\ k.at = "openingWrite" /\ k.op = call[c].op /\ k.user = call[c].user
          /\ k.shift = call[c].shift /\ k.register = call[c].register
      BY <1>0 DEF Calls
    <3>3. ASSUME InHand(call[c]), LogsIn(k) PROVE OnItsWay(k)
      BY <2>0, <3>2, <3>3 DEF InHand, LogsIn, OnItsWay, LoginStages, OnShift
    <3> QED BY <2>0, <3>1, <3>2, <3>3, LogsInInTurn DEF Heedful
  <2>2. CASE StatusOf(call[c].register) # "open"
    <3>1. Returns(c)
      BY <1>2, <2>2 DEF OpeningCheck
    <3> QED BY <2>0, <3>1, ReturnsInTurn
  <2> QED BY <2>1, <2>2
<1> QED BY <1>1, <1>2

LEMMA ValidateInTurn ==
  ASSUME DrawerInv, TurnInv, NEW c \in Clerks, Validate(c) \/ Exists(c)
  PROVE  TurnInv'
<1>0. call[c] \in Calls
  BY CallInFlight
<1>1. CASE Returns(c)
  <2>1. Reads /\ ~Waits(c)
    BY DEF Validate, Exists, At, Waits
  <2> QED BY <1>1, <2>1, ReturnsInTurn
<1>2. CASE Validate(c) /\ ~Returns(c)
  <2> DEFINE k == [call[c] EXCEPT !.at = "exists"]
  <2>1. Becomes(c, k) /\ Reads /\ call[c].at = "validate"
    BY <1>2 DEF Validate, At, Goto
  <2>2. /\ k.at = "exists" /\ k.op = call[c].op /\ k.user = call[c].user
        /\ k.shift = call[c].shift
    BY <1>0 DEF Calls
  <2> QED BY <2>1, <2>2, StaysOnShiftInTurn DEF OnShift
<1>3. CASE Exists(c) /\ ~Returns(c)
  <2> DEFINE k == [call[c] EXCEPT !.at = "openRegister"]
  <2>1. Becomes(c, k) /\ Reads /\ call[c].at = "exists"
    BY <1>3 DEF Exists, At, Goto
  <2>2. /\ k.at = "openRegister" /\ k.op = call[c].op /\ k.user = call[c].user
        /\ k.shift = call[c].shift
    BY <1>0 DEF Calls
  <2> QED BY <2>1, <2>2, StaysOnShiftInTurn DEF OnShift
<1> QED BY <1>1, <1>2, <1>3

(* A step of a call that only goes to another stage, or returns. *)
LEMMA GoesOrReturnsInTurn ==
  ASSUME DrawerInv, TurnInv, NEW c \in Clerks, Reads,
         call[c].at \notin LoginStages \cup {"idle", "lost"},
         Returns(c) \/ \E stage \in Stages \ Heedful : Goto(c, stage)
  PROVE  TurnInv'
<1>0. call[c] \in Calls /\ ~Waits(c)
  BY CallInFlight DEF Waits
<1>1. CASE Returns(c)
  BY <1>0, <1>1, ReturnsInTurn
<1>2. CASE ~Returns(c)
  <2>1. PICK stage \in Stages \ Heedful : Goto(c, stage)
    BY <1>2
  <2> DEFINE k == [call[c] EXCEPT !.at = stage]
  <2>2. Becomes(c, k)
    BY <2>1 DEF Goto
  <2>3. k.at = stage /\ k.op = call[c].op
    BY <1>0 DEF Calls
  <2> QED BY <2>1, <2>2, <2>3, GoesOnInTurn
<1> QED BY <1>1, <1>2

LEMMA ChecksInTurn ==
  ASSUME DrawerInv, TurnInv, NEW c \in Clerks,
         CloseCheck(c) \/ ReconcileCheck(c) \/ DepositCheck(c)
  PROVE  TurnInv'
<1>1. CASE CloseCheck(c)
  <2>1. /\ Reads /\ call[c].at = "closeCheck"
        /\ Returns(c) \/ Goto(c, "closeSum") \/ Goto(c, "endShift")
    BY <1>1 DEF CloseCheck, At
  <2> QED BY <2>1, GoesOrReturnsInTurn DEF Stages, Heedful, LoginStages, OnShift
<1>2. CASE ReconcileCheck(c)
  <2>1. /\ Reads /\ call[c].at = "reconcileCheck"
        /\ Returns(c) \/ Goto(c, "reconcile")
    BY <1>2 DEF ReconcileCheck, At
  <2> QED BY <2>1, GoesOrReturnsInTurn DEF Stages, Heedful, LoginStages, OnShift
<1>3. CASE DepositCheck(c)
  <2>1. /\ Reads /\ call[c].at = "depositCheck"
        /\ Returns(c) \/ Goto(c, "depositCreate")
    BY <1>3 DEF DepositCheck, At
  <2> QED BY <2>1, GoesOrReturnsInTurn DEF Stages, Heedful, LoginStages, OnShift
<1> QED BY <1>1, <1>2, <1>3

(* What was read is so as long as nobody else is there. *)
LEMMA SumsInTurn ==
  ASSUME DrawerInv, TurnInv, NEW c \in Clerks, CloseSum(c) \/ RecalcRead(c)
  PROVE  TurnInv'
<1> DEFINE sum == Ledger(call[c].register)
<1>0. call[c] \in Calls
  BY CallInFlight
<1>1. ASSUME NEW k, Becomes(c, k), Reads, k.op = call[c].op,
             call[c].at \in {"closeSum", "recalcRead"},
             k.at \in {"closeWrite", "recalcWrite"},
             k.sum = Ledger(k.register)
      PROVE  TurnInv'
  <2>1. ~Waits(c)
    BY <1>1 DEF Waits
  <2>2. ASSUME InTurn PROVE InHand(k)
    <3>1. ~LogsIn(call[c])
      BY <1>1, <2>2, OthersDoNotLogIn DEF LoginStages, OnShift
    <3> QED BY <1>1, <3>1 DEF InHand, Counted, LogsIn
  <2> QED BY <1>1, <2>1, <2>2, ReadsInTurn
<1>2. CASE CloseSum(c)
  <2> DEFINE k == [call[c] EXCEPT !.at = "closeWrite", !.sum = sum]
  <2>1. Becomes(c, k) /\ Reads /\ call[c].at = "closeSum"
    BY <1>2 DEF CloseSum, At
  <2>2. /\ k.at = "closeWrite" /\ k.op = call[c].op /\ k.sum = sum
        /\ k.register = call[c].register
    BY <1>0 DEF Calls
  <2> QED BY <1>1, <2>1, <2>2
<1>3. CASE RecalcRead(c)
  <2> DEFINE k == [call[c] EXCEPT !.at = "recalcWrite", !.sum = sum]
  <2>0. Reads /\ call[c].at = "recalcRead" /\ ~Waits(c)
    BY <1>3 DEF RecalcRead, At, Waits
  <2>1. CASE Returns(c)
    BY <2>0, <2>1, ReturnsInTurn
  <2>2. CASE ~Returns(c)
    <3>1. Becomes(c, k)
      BY <1>3, <2>2 DEF RecalcRead
    <3>2. /\ k.at = "recalcWrite" /\ k.op = call[c].op /\ k.sum = sum
          /\ k.register = call[c].register
      BY <1>0 DEF Calls
    <3> QED BY <1>1, <2>0, <3>1, <3>2
  <2> QED BY <2>1, <2>2
<1> QED BY <1>2, <1>3

LEMMA FindsInTurn ==
  ASSUME DrawerInv, TurnInv, NEW c \in Clerks, EntryCheck(c) \/ RejectFind(c)
  PROVE  TurnInv'
<1>0. call[c] \in Calls
  BY CallInFlight
<1>1. ASSUME NEW k, Becomes(c, k), Reads, k.op = call[c].op,
             call[c].at \in {"entryCheck", "rejectFind"}, Counted(call[c]) => Counted(k),
             k.at \in {"entryWrite", "putBack", "recalcRead"}
      PROVE  TurnInv'
  <2>1. ~Waits(c)
    BY <1>1 DEF Waits
  <2>2. ASSUME InTurn PROVE InHand(k)
    <3>1. ~LogsIn(call[c])
      BY <1>1, <2>2, OthersDoNotLogIn DEF LoginStages, OnShift
    <3>2. Counted(call[c])
      BY <2>2 DEF InTurn, InHand
    <3> QED BY <1>1, <3>1, <3>2 DEF InHand, LogsIn
  <2> QED BY <1>1, <2>1, <2>2, ReadsInTurn
<1>2. CASE EntryCheck(c)
  <2>0. Reads /\ call[c].at = "entryCheck" /\ ~Waits(c)
    BY <1>2 DEF EntryCheck, At, Waits
  <2>1. CASE StatusOf(call[c].register) = "open"
    <3> DEFINE k == [call[c] EXCEPT !.at = "entryWrite"]
    <3>1. Becomes(c, k)
      BY <1>2, <2>1 DEF EntryCheck, Goto
    <3>2. k.at = "entryWrite" /\ k.op = call[c].op /\ k.register = call[c].register
      BY <1>0 DEF Calls
    <3>3. Counted(k)
      BY <2>1, <3>2 DEF Counted
    <3> QED BY <1>1, <2>0, <3>1, <3>2, <3>3
  <2>2. CASE StatusOf(call[c].register) # "open"
    <3>1. Returns(c)
      BY <1>2, <2>2 DEF EntryCheck
    <3> QED BY <2>0, <3>1, ReturnsInTurn
  <2> QED BY <2>1, <2>2
<1>3. CASE RejectFind(c)
  <2>0. Reads /\ call[c].at = "rejectFind"
    BY <1>3 DEF RejectFind, At
  <2>1. CASE StatusOf(call[c].register) = "open"
    <3> DEFINE k == [call[c] EXCEPT !.at = "putBack"]
    <3>1. Becomes(c, k)
      BY <1>3, <2>1 DEF RejectFind, Goto
    <3>2. /\ k.at = "putBack" /\ k.op = call[c].op /\ k.register = call[c].register
          /\ k.dep = call[c].dep
      BY <1>0 DEF Calls
    <3>3. Counted(call[c]) => Counted(k)
      BY <2>0, <2>1, <3>2 DEF Counted
    <3> QED BY <1>1, <2>0, <3>1, <3>2, <3>3
  <2>2. CASE StatusOf(call[c].register) # "open"
    <3> DEFINE k == [call[c] EXCEPT !.at = "recalcRead"]
    <3>1. Becomes(c, k)
      BY <1>3, <2>2 DEF RejectFind, Goto
    <3>2. k.at = "recalcRead" /\ k.op = call[c].op
      BY <1>0 DEF Calls
    <3>3. Counted(k)
      BY <3>2 DEF Counted
    <3> QED BY <1>1, <2>0, <3>1, <3>2, <3>3
  <2> QED BY <2>1, <2>2
<1> QED BY <1>2, <1>3

(* A request that begins has nothing in hand yet. *)
Begins == {"clockIn", "clockOut", "myShift", "autoFind", "validate", "closeCheck",
           "openingCheck", "entryCheck", "depositCheck", "reconcileCheck"}

LEMMA RequestInHand ==
  ASSUME NEW c \in Clerks, StaffAsks(c) \/ RegisterAsks(c) \/ DepositAsks(c)
  PROVE  \E k : Becomes(c, k) /\ InHand(k)
<1>1. CASE DepositAsks(c)
  <2>1. PICK d \in Deposits, op \in {"approve", "reject"} :
           Becomes(c, [Asks(op, op) EXCEPT !.dep = d, !.register = deposit[d].register])
    BY <1>1 DEF DepositAsks
  <2> DEFINE k == [Asks(op, op) EXCEPT !.dep = d, !.register = deposit[d].register]
  <2>2. k.at = op /\ k.op = op /\ k.dep = d /\ k.register = deposit[d].register
    BY DEF Asks, NoCall
  <2>3. InHand(k)
    BY <2>1, <2>2 DEF InHand, Counted, LogsIn
  <2> QED BY <2>1, <2>3
<1>2. CASE \E u \in Staff : Becomes(c, [Asks("login", "clockIn") EXCEPT !.user = u])
  <2>1. PICK u \in Staff : Becomes(c, [Asks("login", "clockIn") EXCEPT !.user = u])
    BY <1>2
  <2> DEFINE k == [Asks("login", "clockIn") EXCEPT !.user = u]
  <2>2. k.at = "clockIn" /\ k.op = "login"
    BY DEF Asks, NoCall
  <2>3. InHand(k)
    BY <2>2 DEF InHand, Counted, OnItsWay, LoginStages, OnShift
  <2> QED BY <2>1, <2>3
<1>3. CASE ~DepositAsks(c) /\ ~(\E u \in Staff : Becomes(c, [Asks("login", "clockIn") EXCEPT !.user = u]))
  <2>1. \E k : Becomes(c, k) /\ ~LogsIn(k) /\ k.at \in Begins
    <3> DEFINE Plain(k) == k.op \notin {"login", "relogin"} /\ k.at \in Begins
    <3>1. CASE \E r \in Existing, n \in Counts :
             Becomes(c, [Asks("close", "closeCheck") EXCEPT !.register = r, !.count = n])
      <4>1. PICK r \in Existing, n \in Counts :
             Becomes(c, [Asks("close", "closeCheck") EXCEPT !.register = r, !.count = n])
        BY <3>1
      <4>2. Plain([Asks("close", "closeCheck") EXCEPT !.register = r, !.count = n])
        BY DEF Asks, NoCall, Begins
      <4> QED BY <4>1, <4>2 DEF LogsIn
    <3>2. CASE \E r \in Existing, n \in Counts :
             Becomes(c, [Asks("openingBalance", "openingCheck") EXCEPT !.register = r, !.sum = n])
      <4>1. PICK r \in Existing, n \in Counts :
             Becomes(c, [Asks("openingBalance", "openingCheck") EXCEPT !.register = r, !.sum = n])
        BY <3>2
      <4>2. Plain([Asks("openingBalance", "openingCheck") EXCEPT !.register = r, !.sum = n])
        BY DEF Asks, NoCall, Begins
      <4> QED BY <4>1, <4>2 DEF LogsIn
    <3>3. CASE \E r \in Existing, n \in {0, 1} :
             Becomes(c, [Asks("entry", "entryCheck") EXCEPT !.register = r, !.count = n])
      <4>1. PICK r \in Existing, n \in {0, 1} :
             Becomes(c, [Asks("entry", "entryCheck") EXCEPT !.register = r, !.count = n])
        BY <3>3
      <4>2. Plain([Asks("entry", "entryCheck") EXCEPT !.register = r, !.count = n])
        BY DEF Asks, NoCall, Begins
      <4> QED BY <4>1, <4>2 DEF LogsIn
    <3>4. CASE \E r \in Existing :
             Becomes(c, [Asks("initiate", "depositCheck") EXCEPT !.register = r])
      <4>1. PICK r \in Existing :
             Becomes(c, [Asks("initiate", "depositCheck") EXCEPT !.register = r])
        BY <3>4
      <4>2. Plain([Asks("initiate", "depositCheck") EXCEPT !.register = r])
        BY DEF Asks, NoCall, Begins
      <4> QED BY <4>1, <4>2 DEF LogsIn
    <3>5. CASE \E r \in Existing :
             Becomes(c, [Asks("reconcile", "reconcileCheck") EXCEPT !.register = r])
      <4>1. PICK r \in Existing :
             Becomes(c, [Asks("reconcile", "reconcileCheck") EXCEPT !.register = r])
        BY <3>5
      <4>2. Plain([Asks("reconcile", "reconcileCheck") EXCEPT !.register = r])
        BY DEF Asks, NoCall, Begins
      <4> QED BY <4>1, <4>2 DEF LogsIn
    <3>6. CASE \E u \in Staff :
             Becomes(c, [Asks("clockIn", "clockIn") EXCEPT !.user = u])
      <4>1. PICK u \in Staff :
             Becomes(c, [Asks("clockIn", "clockIn") EXCEPT !.user = u])
        BY <3>6
      <4>2. Plain([Asks("clockIn", "clockIn") EXCEPT !.user = u])
        BY DEF Asks, NoCall, Begins
      <4> QED BY <4>1, <4>2 DEF LogsIn
    <3>7. CASE \E u \in Staff :
             Becomes(c, [Asks("clockOut", "clockOut") EXCEPT !.user = u])
      <4>1. PICK u \in Staff :
             Becomes(c, [Asks("clockOut", "clockOut") EXCEPT !.user = u])
        BY <3>7
      <4>2. Plain([Asks("clockOut", "clockOut") EXCEPT !.user = u])
        BY DEF Asks, NoCall, Begins
      <4> QED BY <4>1, <4>2 DEF LogsIn
    <3>8. CASE \E u \in Staff, n \in Counts, w \in BOOLEAN :
             Becomes(c, [Asks("closeShift", "myShift") EXCEPT
               !.user = u, !.count = n, !.withdraw = w])
      <4>1. PICK u \in Staff, n \in Counts, w \in BOOLEAN :
             Becomes(c, [Asks("closeShift", "myShift") EXCEPT
               !.user = u, !.count = n, !.withdraw = w])
        BY <3>8
      <4>2. Plain([Asks("closeShift", "myShift") EXCEPT
                  !.user = u, !.count = n, !.withdraw = w])
        BY DEF Asks, NoCall, Begins
      <4> QED BY <4>1, <4>2 DEF LogsIn
    <3>9. CASE \E u \in Staff, n \in Counts, w \in BOOLEAN, v \in Staff :
             Becomes(c, [Asks("handover", "myShift") EXCEPT
               !.user = u, !.peer = v, !.count = n, !.withdraw = w])
      <4>1. PICK u \in Staff, n \in Counts, w \in BOOLEAN, v \in Staff :
             Becomes(c, [Asks("handover", "myShift") EXCEPT
               !.user = u, !.peer = v, !.count = n, !.withdraw = w])
        BY <3>9
      <4>2. Plain([Asks("handover", "myShift") EXCEPT
                  !.user = u, !.peer = v, !.count = n, !.withdraw = w])
        BY DEF Asks, NoCall, Begins
      <4> QED BY <4>1, <4>2 DEF LogsIn
    <3>10. CASE \E s \in Begun :
             Becomes(c, [Asks("forceClose", "autoFind") EXCEPT !.shift = s])
      <4>1. PICK s \in Begun :
             Becomes(c, [Asks("forceClose", "autoFind") EXCEPT !.shift = s])
        BY <3>10
      <4>2. Plain([Asks("forceClose", "autoFind") EXCEPT !.shift = s])
        BY DEF Asks, NoCall, Begins
      <4> QED BY <4>1, <4>2 DEF LogsIn
    <3>11. CASE \E s \in Begun, n \in Counts :
             Becomes(c, [Asks("open", "validate") EXCEPT !.shift = s, !.sum = n])
      <4>1. PICK s \in Begun, n \in Counts :
             Becomes(c, [Asks("open", "validate") EXCEPT !.shift = s, !.sum = n])
        BY <3>11
      <4>2. Plain([Asks("open", "validate") EXCEPT !.shift = s, !.sum = n])
        BY DEF Asks, NoCall, Begins
      <4> QED BY <4>1, <4>2 DEF LogsIn
    <3>12. CASE RegisterAsks(c)
      BY <3>12, <3>1, <3>2, <3>3, <3>4, <3>5, Zenon DEF RegisterAsks
    <3>13. CASE StaffAsks(c)
      BY <1>3, <3>13, <3>6, <3>7, <3>8, <3>9, <3>10, <3>11, Zenon
         DEF StaffAsks
    <3> QED BY <1>3, <3>12, <3>13
  <2> QED BY <2>1, NothingInHand DEF Heedful, Begins
<1> QED BY <1>1, <1>2, <1>3

LEMMA BeginsInTurn ==
  ASSUME DrawerInv, TurnInv, NEW c \in Clerks, Begin(c) \/ CutOff(c)
  PROVE  TurnInv'
<1>1. CASE Begin(c)
  <2>1. PICK k : Becomes(c, k) /\ InHand(k)
    BY <1>1, RequestInHand DEF Begin
  <2>2. UNCHANGED rows /\ raced' = (raced \/ \E o \in Clerks : o # c /\ ~Waits(o))
    BY <1>1, Zenon DEF Begin
  <2>3. ASSUME ~raced' PROVE ~raced /\ \A o \in Clerks : o # c => Waits(o)
    BY <2>2, <2>3, Zenon
  <2>4. Numbered'
    BY <2>2, RowsAsTheyWere DEF TurnInv
  <2>5. ASSUME ~raced' PROVE /\ InTurn /\ \A o \in Clerks : o # c => Waits(o)
                             /\ OneActive' /\ Counting' /\ InHand(k)'
    BY <2>1, <2>2, <2>3, <2>5, RowsAsTheyWere DEF TurnInv, InTurn
  <2> QED BY <2>1, <2>4, <2>5, OneMoves
<1>2. CASE CutOff(c)
  <2> DEFINE k == [NoCall EXCEPT !.at = "lost"]
  <2>1. ~LogsIn(k) /\ k.at = "lost"
    BY DEF NoCall, LogsIn
  <2>2. Becomes(c, k) /\ Reads /\ ~Waits(c)
    BY <1>2 DEF CutOff
  <2>3. InHand(k)
    BY <2>1, NothingInHand DEF Heedful
  <2> HIDE DEF k
  <2> QED BY <2>2, <2>3, ReadsInTurn
<1> QED BY <1>1, <1>2

(* A step that writes rows. *)
LEMMA WritesInTurn ==
  ASSUME DrawerInv, TurnInv, NEW c \in Clerks, ~Waits(c), NEW k, Becomes(c, k),
         SameCounters, Numbered',
         InTurn /\ InHand(call[c]) => OneActive' /\ Counting' /\ InHand(k)'
  PROVE  TurnInv'
<1>1. raced' = raced
  BY DEF SameCounters
<1>2. ASSUME ~raced' PROVE /\ InTurn /\ \A o \in Clerks : o # c => Waits(o)
                           /\ OneActive' /\ Counting' /\ InHand(k)'
  <2>1. InTurn
    BY <1>1, <1>2 DEF TurnInv
  <2>2. InHand(call[c])
    BY <2>1 DEF InTurn
  <2> QED BY <2>1, <2>2, TheOthersWait
<1> QED BY <1>2, OneMoves

LEMMA LedgerStays ==
  ASSUME NEW r,
         register'[r].opening = register[r].opening,
         register'[r].cashIn = register[r].cashIn,
         register'[r].cashOut = register[r].cashOut,
         \A d \in Deposits : (deposit'[d].register = r /\ deposit'[d].back)
                               <=> (deposit[d].register = r /\ deposit[d].back)
  PROVE  Ledger(r)' = Ledger(r)
<1>1. {d \in Deposits : deposit'[d].register = r /\ deposit'[d].back}
        = {d \in Deposits : deposit[d].register = r /\ deposit[d].back}
  OBVIOUS
<1>2. PutBackInto(r)' = PutBackInto(r)
  BY <1>1 DEF PutBackInto
<1> QED BY <1>2 DEF Ledger

LEMMA ShiftWritesCount ==
  ASSUME register' = register, deposit' = deposit
  PROVE  (Numbered => Numbered') /\ (Counting => Counting')
<1>1. Numbered => Numbered'
  BY DEF Numbered, FreshRegisters, Registers
<1>2. \A r : Ledger(r)' = Ledger(r)
  BY DEF Ledger, PutBackInto
<1>3. Counting => Counting'
  BY <1>2 DEF Counting, Registers
<1> QED BY <1>1, <1>3

LEMMA StartShiftInTurn ==
  ASSUME DrawerInv, TurnInv, NEW c \in Clerks, StartShift(c)
  PROVE  TurnInv'
<1>0. /\ call[c] \in Calls /\ call[c].at = "startShift" /\ ~Waits(c)
      /\ SameCounters /\ register' = register /\ deposit' = deposit
  BY CallInFlight DEF StartShift, At, Waits
<1>1. PICK s \in FreshShifts :
        /\ shift' = [shift EXCEPT ![s] = [user |-> call[c].user, status |-> "active"]]
        /\ Becomes(c, [call[c] EXCEPT !.shift = s,
              !.at = IF call[c].op = "handover" THEN "carrySum" ELSE "lastClosed"])
  BY DEF StartShift
<1> DEFINE k == [call[c] EXCEPT !.shift = s,
                   !.at = IF call[c].op = "handover" THEN "carrySum" ELSE "lastClosed"]
<1>2. /\ k.op = call[c].op /\ k.user = call[c].user /\ k.shift = s
      /\ k.at \in {"carrySum", "lastClosed"}
  BY <1>0 DEF Calls
<1>3. PICK q : q = k
  OBVIOUS
<1>4. PICK u : u = call[c].user
  OBVIOUS
<1>5. shift \in [Shifts -> ShiftRows] /\ s \in Shifts /\ shift[s].status = "none"
  BY DEF DrawerInv, DrawerTypeOK, FreshShifts
<1>6. /\ shift'[s] = [user |-> u, status |-> "active"]
      /\ \A t \in Shifts : t # s => shift'[t] = shift[t]
  BY <1>1, <1>4, <1>5
<1>7. Numbered' /\ (Counting => Counting')
  BY <1>0, ShiftWritesCount DEF TurnInv
<1>8. ASSUME InTurn, InHand(call[c]) PROVE OneActive' /\ Counting' /\ InHand(q)'
  <2>1. \A t \in Shifts : ~(shift[t].user = u /\ shift[t].status = "active")
    BY <1>0, <1>4, <1>8 DEF InHand, ActiveOf
  <2>2. OneActive'
    BY <1>6, <1>8, <2>1 DEF InTurn, OneActive, Shifts
  <2>3. s \in ActiveOf(u)'
    BY <1>5, <1>6 DEF ActiveOf, Shifts
  <2>4. q.user = u /\ q.shift = s /\ q.at \in {"carrySum", "lastClosed"}
    BY <1>2, <1>3, <1>4
  <2>5. InHand(q)'
    BY <2>3, <2>4 DEF InHand, Counted, OnItsWay, LoginStages, OnShift
  <2> QED BY <1>7, <1>8, <2>2, <2>5 DEF InTurn
<1> QED BY <1>0, <1>1, <1>3, <1>7, <1>8, WritesInTurn

LEMMA EndShiftInTurn ==
  ASSUME DrawerInv, TurnInv, NEW c \in Clerks, EndShift(c)
  PROVE  TurnInv'
<1>0. /\ call[c] \in Calls /\ call[c].at = "endShift" /\ ~Waits(c)
      /\ SameCounters /\ register' = register /\ deposit' = deposit
  BY CallInFlight DEF EndShift, At, Waits
<1>1. Numbered' /\ (Counting => Counting')
  BY <1>0, ShiftWritesCount DEF TurnInv
<1>2. shift \in [Shifts -> ShiftRows]
  BY DEF DrawerInv, DrawerTypeOK
<1>3. \/ shift' = shift
      \/ \E t \in {"completed", "force_closed"} :
           shift' = [shift EXCEPT ![call[c].shift].status = t]
  BY DEF EndShift
<1>a. \A s \in Shifts :
        /\ shift'[s].user = shift[s].user
        /\ shift'[s].status = "active" => shift[s].status = "active"
  <2>1. CASE shift' = shift
    BY <2>1
  <2>2. ASSUME NEW t \in {"completed", "force_closed"},
               shift' = [shift EXCEPT ![call[c].shift].status = t]
        PROVE  \A s \in Shifts :
                 /\ shift'[s].user = shift[s].user
                 /\ shift'[s].status = "active" => shift[s].status = "active"
    BY <1>2, <2>2 DEF ShiftRows
  <2> QED BY <1>3, <2>1, <2>2
<1>4. OneActive => OneActive'
  <2> SUFFICES ASSUME OneActive, NEW s \in Shifts, NEW t \in Shifts,
                      shift'[s].status = "active", shift'[t].status = "active",
                      shift'[s].user = shift'[t].user
               PROVE  s = t
    BY DEF OneActive, Shifts
  <2> QED BY <1>a DEF OneActive
<1>5. CASE Returns(c)
  BY <1>0, <1>1, <1>4, <1>5, NoCallInHand, WritesInTurn DEF Returns, InTurn
<1>6. CASE ~Returns(c)
  <2>1. shift[call[c].shift].status = "active"
    BY <1>6 DEF EndShift
  <2>2. PICK t \in {"completed", "force_closed"} :
          shift' = [shift EXCEPT ![call[c].shift].status = t]
    BY <2>1 DEF EndShift
  <2>3. \/ call[c].op = "relogin" /\ Goto(c, "clockIn")
        \/ /\ call[c].op = "handover"
           /\ Becomes(c, [call[c] EXCEPT !.at = "clockIn", !.user = call[c].peer])
    BY <1>6, <2>1 DEF EndShift
  <2>4. CASE call[c].op = "handover"
    <3> DEFINE k == [call[c] EXCEPT !.at = "clockIn", !.user = call[c].peer]
    <3>1. Becomes(c, k)
      BY <2>3, <2>4
    <3>2. k.at = "clockIn" /\ k.op = "handover"
      BY <1>0, <2>4 DEF Calls
    <3>3. PICK q : q = k
      OBVIOUS
    <3>4. InHand(q)'
      BY <3>2, <3>3, NothingInHand DEF Heedful, LogsIn
    <3> QED BY <1>0, <1>1, <1>4, <3>1, <3>3, <3>4, WritesInTurn DEF InTurn
  <2>5. CASE call[c].op = "relogin"
    <3> DEFINE k == [call[c] EXCEPT !.at = "clockIn"]
    <3>1. Becomes(c, k)
      BY <2>3, <2>5 DEF Goto
    <3>2. k.at = "clockIn" /\ k.op = "relogin" /\ k.user = call[c].user
      BY <1>0, <2>5 DEF Calls
    <3>3. PICK q : q = k
      OBVIOUS
    <3>4. PICK u : u = call[c].user
      OBVIOUS
    <3>5. ASSUME InTurn, InHand(call[c]) PROVE InHand(q)'
      <4>1. call[c].shift \in ActiveOf(u)
        BY <1>0, <2>5, <3>4, <3>5 DEF InHand, LogsIn, OnItsWay, OnShift
      <4>2. \A s \in Shifts : shift[s].user = u /\ shift[s].status = "active"
                               => s = call[c].shift
        BY <3>5, <4>1 DEF InTurn, OneActive, ActiveOf
      <4>3. \A s \in Shifts : shift'[s].user = u => shift'[s].status # "active"
        BY <1>2, <2>2, <4>1, <4>2 DEF ShiftRows, ActiveOf
      <4>4. ActiveOf(u)' = {}
        BY <4>3 DEF ActiveOf, Shifts
      <4>5. q.at = "clockIn" /\ q.op = "relogin" /\ q.user = u
        BY <3>2, <3>3, <3>4
      <4> QED BY <4>4, <4>5 DEF InHand, Counted, OnItsWay, LoginStages, OnShift
    <3> QED BY <1>0, <1>1, <1>4, <3>1, <3>3, <3>5, WritesInTurn DEF InTurn
  <2> QED BY <2>3, <2>4, <2>5
<1> QED BY <1>5, <1>6

(* A step that writes one register, of a status it looked at. *)
LEMMA RegisterWritesInTurn ==
  ASSUME DrawerInv, TurnInv, NEW c \in Clerks, ~Waits(c), SameCounters,
         shift' = shift, deposit' = deposit, NEW k, Becomes(c, k), ~LogsIn(k),
         k.at \notin Heedful,
         NEW q, \A r \in Registers : r # q => register'[r] = register[r],
         q \in Registers =>
           /\ register'[q].status # "none" /\ register[q].status # "none"
           /\ (/\ InTurn /\ InHand(call[c])
               /\ register'[q].status \in {"closed", "reconciled"})
                => register'[q].expected = Ledger(q)'
  PROVE  TurnInv'
<1>1. Numbered'
  BY DEF TurnInv, Numbered, FreshRegisters, Registers
<1>2. ASSUME InTurn, InHand(call[c]) PROVE OneActive' /\ Counting' /\ InHand(k)'
  <2>1. OneActive'
    BY <1>2 DEF InTurn, OneActive, Shifts
  <2>2. ASSUME NEW r \in Registers, register'[r].status \in {"closed", "reconciled"}
        PROVE  register'[r].expected = Ledger(r)'
    <3>1. CASE r = q
      <4>1. r \in Registers => register'[r].expected = Ledger(r)'
        BY <1>2, <2>2, <3>1
      <4> QED BY <4>1
    <3>2. CASE r # q
      <4>1. register'[r] = register[r]
        BY <3>2
      <4>2. Ledger(r)' = Ledger(r)
        BY <4>1, LedgerStays
      <4> QED BY <1>2, <2>2, <4>1, <4>2 DEF InTurn, Counting
    <3> QED BY <3>1, <3>2
  <2>3. Counting'
    BY <2>2 DEF Counting, Registers
  <2>4. InHand(k)'
    BY NothingInHand
  <2> QED BY <2>1, <2>3, <2>4
<1> QED BY <1>1, <1>2, WritesInTurn

LEMMA OpenRegisterInTurn ==
  ASSUME DrawerInv, TurnInv, NEW c \in Clerks, OpenRegister(c)
  PROVE  TurnInv'
<1>0. /\ ~Waits(c) /\ SameCounters /\ shift' = shift /\ deposit' = deposit
      /\ Becomes(c, NoCall) /\ register \in [Registers -> RegisterRows]
  BY DEF OpenRegister, At, Waits, Returns, DrawerInv, DrawerTypeOK
<1>1. PICK p \in FreshRegisters :
        /\ \A q \in FreshRegisters : p <= q
        /\ register' = [register EXCEPT ![p] =
             [NoRegister EXCEPT !.shift = call[c].shift, !.status = "open",
                                !.opening = call[c].sum]]
  BY DEF OpenRegister
<1>2. /\ register'[p].status = "open" /\ p \in Registers
      /\ \A r \in Registers : r # p => register'[r] = register[r]
  BY <1>0, <1>1 DEF FreshRegisters, NoRegister
<1>3. Numbered'
  <2>1. \A r \in Registers : register'[r].status = "none" =>
          r # p /\ register[r].status = "none"
    BY <1>2
  <2>2. ASSUME NEW r \in Registers, register'[r].status = "none"
        PROVE  /\ register'[r].shift = 0
               /\ \A q \in Registers : r <= q => register'[q].status = "none"
    <3>1. r \in FreshRegisters /\ r # p /\ p <= r /\ register'[r] = register[r]
      BY <1>1, <1>2, <2>1, <2>2 DEF FreshRegisters
    <3>2. ASSUME NEW q \in Registers, r <= q PROVE register'[q].status = "none"
      <4>1. q \in FreshRegisters /\ q # p
        BY <3>1, <3>2, <1>2 DEF TurnInv, Numbered, Registers
      <4> QED BY <1>2, <4>1 DEF FreshRegisters
    <3> QED BY <3>1, <3>2 DEF TurnInv, Numbered
  <2> QED BY <2>2 DEF Numbered, FreshRegisters, Registers
<1>4. ASSUME InTurn, InHand(call[c]) PROVE OneActive' /\ Counting' /\ InHand(NoCall)'
  <2>1. OneActive'
    BY <1>0, <1>4 DEF InTurn, OneActive, Shifts
  <2>2. ASSUME NEW r \in Registers, register'[r].status \in {"closed", "reconciled"}
        PROVE  register'[r].expected = Ledger(r)'
    <3>1. register'[r] = register[r]
      BY <1>2, <2>2
    <3>2. Ledger(r)' = Ledger(r)
      BY <1>0, <3>1, LedgerStays
    <3> QED BY <1>4, <2>2, <3>1, <3>2 DEF InTurn, Counting
  <2>3. Counting'
    BY <2>2 DEF Counting, Registers
  <2> QED BY <2>1, <2>3, NoCallInHand
<1> QED BY <1>0, <1>3, <1>4, WritesInTurn

LEMMA RegisterStepsInTurn ==
  ASSUME DrawerInv, TurnInv, NEW c \in Clerks,
         \/ OpeningWrite(c) \/ CloseWrite(c) \/ EntryWrite(c)
         \/ ReconcileRegister(c) \/ RecalcWrite(c)
  PROVE  TurnInv'
<1>0. call[c] \in Calls /\ register \in [Registers -> RegisterRows]
  BY CallInFlight DEF DrawerInv, DrawerTypeOK
<1>1. PICK q : q = call[c].register
  OBVIOUS
<1>2. /\ shift' = shift /\ deposit' = deposit /\ ~Waits(c) /\ SameCounters
  BY DEF OpeningWrite, CloseWrite, EntryWrite, ReconcileRegister, RecalcWrite, At, Waits
<1>3. ~LogsIn(NoCall) /\ NoCall.at \notin Heedful
  BY NoCallInHand DEF Heedful
<1>4. CASE UNCHANGED register /\ \E k : Becomes(c, k) /\ ~LogsIn(k) /\ k.at \notin Heedful
  <2>1. PICK k : Becomes(c, k) /\ ~LogsIn(k) /\ k.at \notin Heedful
    BY <1>4
  <2>2. InHand(k)'
    BY <2>1, NothingInHand
  <2>3. (Numbered => Numbered') /\ (Counting => Counting')
    BY <1>2, <1>4, ShiftWritesCount
  <2>4. OneActive => OneActive'
    BY <1>2 DEF OneActive, Shifts
  <2> QED BY <1>2, <2>1, <2>2, <2>3, <2>4, WritesInTurn DEF TurnInv, InTurn
<1>5. CASE OpeningWrite(c)
  <2>1. Becomes(c, NoCall)
    BY <1>5 DEF OpeningWrite, Returns
  <2>2. CASE StatusOf(q) # "open"
    <3>1. register' = register
      BY <1>1, <1>5, <2>2 DEF OpeningWrite
    <3> QED BY <1>3, <1>4, <2>1, <3>1
  <2>3. CASE StatusOf(q) = "open"
    <3>1. q \in Registers /\ register[q].status = "open"
      BY <2>3 DEF StatusOf
    <3>2. register' = [register EXCEPT ![q].opening = call[c].sum]
      BY <1>1, <1>5, <2>3 DEF OpeningWrite
    <3>3. register'[q].status = "open" /\ \A r \in Registers : r # q => register'[r] = register[r]
      BY <1>0, <3>1, <3>2 DEF RegisterRows
    <3> QED BY <1>2, <1>3, <2>1, <3>1, <3>3, RegisterWritesInTurn
  <2> QED BY <2>2, <2>3
<1>6. CASE EntryWrite(c)
  <2>1. Becomes(c, NoCall) /\ call[c].at = "entryWrite"
    BY <1>6 DEF EntryWrite, Returns, At
  <2>2. \/ register' = [register EXCEPT ![q].cashOut = @ + 1]
        \/ register' = [register EXCEPT ![q].cashIn = @ + 1]
    BY <1>1, <1>6 DEF EntryWrite
  <2>3. \A r \in Registers : r # q => register'[r] = register[r]
    BY <1>0, <2>2
  <2>4. q \in Registers => register'[q].status = register[q].status
    BY <1>0, <2>2 DEF RegisterRows
  <2>5. (Numbered => Numbered')
    <3>1. \A r \in Registers : /\ register'[r].status = register[r].status
                               /\ register'[r].shift = register[r].shift
      BY <1>0, <2>2 DEF RegisterRows
    <3> QED BY <3>1 DEF Numbered, FreshRegisters, Registers
  <2>6. ASSUME InTurn, InHand(call[c]) PROVE OneActive' /\ Counting' /\ InHand(NoCall)'
    <3>1. register[q].status = "open" /\ q \in Registers
      BY <1>1, <2>1, <2>6 DEF InHand, Counted, StatusOf
    <3>2. ASSUME NEW r \in Registers, register'[r].status \in {"closed", "reconciled"}
          PROVE  register'[r].expected = Ledger(r)'
      <4>1. register'[r] = register[r]
        BY <2>3, <2>4, <3>1, <3>2
      <4>2. Ledger(r)' = Ledger(r)
        BY <1>2, <4>1, LedgerStays
      <4> QED BY <2>6, <3>2, <4>1, <4>2 DEF InTurn, Counting
    <3>3. Counting'
      BY <3>2 DEF Counting, Registers
    <3>4. OneActive'
      BY <1>2, <2>6 DEF InTurn, OneActive, Shifts
    <3> QED BY <3>3, <3>4, NoCallInHand
  <2> QED BY <1>2, <2>1, <2>5, <2>6, WritesInTurn DEF TurnInv
<1>7. CASE ReconcileRegister(c)
  <2>1. Becomes(c, NoCall)
    BY <1>7 DEF ReconcileRegister, Returns
  <2>2. CASE StatusOf(q) # "closed"
    <3>1. register' = register
      BY <1>1, <1>7, <2>2 DEF ReconcileRegister
    <3> QED BY <1>3, <1>4, <2>1, <3>1
  <2>3. CASE StatusOf(q) = "closed"
    <3>1. q \in Registers /\ register[q].status = "closed"
      BY <2>3 DEF StatusOf
    <3>2. register' = [register EXCEPT ![q].status = "reconciled"]
      BY <1>1, <1>7, <2>3 DEF ReconcileRegister
    <3>3. /\ register'[q].status = "reconciled"
          /\ register'[q].expected = register[q].expected
          /\ register'[q].opening = register[q].opening
          /\ register'[q].cashIn = register[q].cashIn
          /\ register'[q].cashOut = register[q].cashOut
          /\ \A r \in Registers : r # q => register'[r] = register[r]
      BY <1>0, <3>1, <3>2 DEF RegisterRows
    <3>4. Ledger(q)' = Ledger(q)
      BY <1>2, <3>3, LedgerStays
    <3>5. InTurn => register'[q].expected = Ledger(q)'
      BY <3>1, <3>3, <3>4 DEF InTurn, Counting
    <3> QED BY <1>2, <1>3, <2>1, <3>1, <3>3, <3>5, RegisterWritesInTurn
  <2> QED BY <2>2, <2>3
<1>8. CASE RecalcWrite(c)
  <2>1. Becomes(c, NoCall) /\ call[c].at = "recalcWrite"
    BY <1>8 DEF RecalcWrite, Returns, At
  <2>2. register' = [register EXCEPT ![q].expected = call[c].sum]
    BY <1>1, <1>8 DEF RecalcWrite
  <2>3. \A r \in Registers :
          /\ r # q => register'[r] = register[r]
          /\ register'[r].status = register[r].status
          /\ register'[r].shift = register[r].shift
          /\ register'[r].opening = register[r].opening
          /\ register'[r].cashIn = register[r].cashIn
          /\ register'[r].cashOut = register[r].cashOut
    BY <1>0, <2>2 DEF RegisterRows
  <2>4. Numbered => Numbered'
    BY <2>3 DEF Numbered, FreshRegisters, Registers
  <2>5. ASSUME InTurn, InHand(call[c]) PROVE OneActive' /\ Counting' /\ InHand(NoCall)'
    <3>1. ASSUME NEW r \in Registers, register'[r].status \in {"closed", "reconciled"}
          PROVE  register'[r].expected = Ledger(r)'
      <4>1. Ledger(r)' = Ledger(r)
        BY <1>2, <2>3, LedgerStays
      <4>2. CASE r = q
        <5>1. register'[r].expected = call[c].sum
          BY <1>0, <2>2, <4>2 DEF RegisterRows
        <5>2. call[c].sum = Ledger(r)
          BY <1>1, <2>1, <2>5, <4>2 DEF InHand, Counted
        <5> QED BY <4>1, <5>1, <5>2
      <4>3. CASE r # q
        BY <2>3, <2>5, <3>1, <4>1, <4>3 DEF InTurn, Counting
      <4> QED BY <4>2, <4>3
    <3>2. Counting'
      BY <3>1 DEF Counting, Registers
    <3>3. OneActive'
      BY <1>2, <2>5 DEF InTurn, OneActive, Shifts
    <3> QED BY <3>2, <3>3, NoCallInHand
  <2> QED BY <1>2, <2>1, <2>4, <2>5, WritesInTurn DEF TurnInv
<1>9. CASE CloseWrite(c)
  <2>1. call[c].at = "closeWrite"
    BY <1>9 DEF CloseWrite, At
  <2>2. raced \/ ~LogsIn(call[c])
    BY <2>1, OthersDoNotLogIn DEF TurnInv, LoginStages, OnShift
  <2>3. \E k : /\ Becomes(c, k)
               /\ k = NoCall \/ (k.op = call[c].op /\ k.at \in {"endShift", "clockOut"})
    <3> DEFINE e == [call[c] EXCEPT !.at = "endShift"]
               f == [call[c] EXCEPT !.at = "clockOut", !.source = call[c].register]
    <3>1. Becomes(c, NoCall) \/ Becomes(c, e) \/ Becomes(c, f)
      BY <1>9 DEF CloseWrite, Returns, Goto
    <3>2. e.op = call[c].op /\ e.at = "endShift" /\ f.op = call[c].op /\ f.at = "clockOut"
      BY <1>0 DEF Calls
    <3>3. CASE Becomes(c, NoCall)
      BY <3>3
    <3>4. CASE Becomes(c, e)
      <4> HIDE DEF e
      <4> QED BY <3>2, <3>4
    <3>5. CASE Becomes(c, f)
      <4> HIDE DEF f
      <4> QED BY <3>2, <3>5
    <3> QED BY <3>1, <3>3, <3>4, <3>5
  <2>4. PICK k : /\ Becomes(c, k)
                 /\ k = NoCall \/ (k.op = call[c].op /\ k.at \in {"endShift", "clockOut"})
    BY <2>3
  <2>5. k.at \notin Heedful /\ (raced \/ ~LogsIn(k))
    BY <1>3, <2>2, <2>4 DEF Heedful, LogsIn
  <2>6. CASE raced
    <3>1. raced'
      BY <1>2, <2>6 DEF SameCounters
    <3>2. Numbered'
      <4>1. \A r \in Registers :
              /\ register'[r].status # register[r].status =>
                   register[r].status = "open" /\ register'[r].status = "closed"
              /\ register'[r].shift = register[r].shift
        <5>1. CASE register' = register
          BY <5>1
        <5>2. CASE register' # register
          <6>1. register' = Closing(c) /\ StatusOf(call[c].register) = "open"
            BY <1>9, <5>2 DEF CloseWrite
          <6>2. call[c].register \in Registers /\ register[call[c].register].status = "open"
            BY <6>1 DEF StatusOf
          <6> QED BY <1>0, <6>1, <6>2 DEF Closing, RegisterRows
        <5> QED BY <5>1, <5>2
      <4> QED BY <4>1 DEF TurnInv, Numbered, FreshRegisters, Registers
    <3> QED BY <3>1, <3>2 DEF TurnInv
  <2>7. CASE ~LogsIn(k) /\ StatusOf(q) # "open"
    <3>1. register' = register
      BY <1>1, <1>9, <2>7 DEF CloseWrite
    <3> QED BY <1>4, <2>4, <2>5, <2>7, <3>1
  <2>8. CASE ~LogsIn(k) /\ StatusOf(q) = "open"
    <3>1. q \in Registers /\ register[q].status = "open"
      BY <2>8 DEF StatusOf
    <3>2. register' = [register EXCEPT ![q] =
                         [@ EXCEPT !.status = "closed", !.closing = call[c].count,
                                   !.expected = call[c].sum]]
      BY <1>1, <1>9, <2>8 DEF CloseWrite, Closing
    <3>3. /\ register'[q].status = "closed"
          /\ register'[q].expected = call[c].sum
          /\ register'[q].opening = register[q].opening
          /\ register'[q].cashIn = register[q].cashIn
          /\ register'[q].cashOut = register[q].cashOut
          /\ \A r \in Registers : r # q => register'[r] = register[r]
      BY <1>0, <3>1, <3>2 DEF RegisterRows
    <3>4. Ledger(q)' = Ledger(q)
      BY <1>2, <3>3, LedgerStays
    <3>5. InHand(call[c]) => register'[q].expected = Ledger(q)'
      BY <1>1, <2>1, <3>3, <3>4 DEF InHand, Counted
    <3> QED BY <1>2, <2>4, <2>5, <2>8, <3>1, <3>3, <3>5, RegisterWritesInTurn
  <2> QED BY <2>5, <2>6, <2>7, <2>8
<1> QED BY <1>5, <1>6, <1>7, <1>8, <1>9

(* Deposits: cash that was put back went into an open register. *)
LEMMA DepositRowInTurn ==
  ASSUME DrawerInv, TurnInv, NEW c \in Clerks, ~Waits(c), SameCounters,
         shift' = shift, register' = register, NEW k, Becomes(c, k),
         InTurn /\ InHand(call[c]) =>
           /\ InHand(k)'
           /\ \A r \in Registers : register[r].status \in {"closed", "reconciled"} =>
                \A d \in Deposits : (deposit'[d].register = r /\ deposit'[d].back)
                                      <=> (deposit[d].register = r /\ deposit[d].back)
  PROVE  TurnInv'
<1>1. Numbered'
  BY DEF TurnInv, Numbered, FreshRegisters, Registers
<1>2. ASSUME InTurn, InHand(call[c]) PROVE OneActive' /\ Counting' /\ InHand(k)'
  <2>1. OneActive'
    BY <1>2 DEF InTurn, OneActive, Shifts
  <2>2. ASSUME NEW r \in Registers, register[r].status \in {"closed", "reconciled"}
        PROVE  register[r].expected = Ledger(r)'
    <3>1. \A d \in Deposits : (deposit'[d].register = r /\ deposit'[d].back)
                                <=> (deposit[d].register = r /\ deposit[d].back)
      BY <1>2, <2>2
    <3>2. Ledger(r)' = Ledger(r)
      BY <3>1, LedgerStays
    <3> QED BY <1>2, <2>2, <3>2 DEF InTurn, Counting
  <2>3. Counting'
    BY <2>2 DEF Counting, Registers
  <2> QED BY <1>2, <2>1, <2>3
<1> QED BY <1>1, <1>2, WritesInTurn

LEMMA DepositStepsInTurn ==
  ASSUME DrawerInv, TurnInv, NEW c \in Clerks,
         DepositCreate(c) \/ DepositOut(c) \/ Approve(c) \/ Reject(c) \/ PutBack(c)
  PROVE  TurnInv'
<1>0. call[c] \in Calls /\ Sound(call[c]) /\ deposit \in [Deposits -> DepositRows]
  BY CallInFlight DEF DrawerInv, DrawerTypeOK
<1>1. PICK e : e = call[c].dep
  OBVIOUS
<1>2. /\ shift' = shift /\ register' = register /\ ~Waits(c) /\ SameCounters
      /\ call[c].at \in {"depositCreate", "depositOut", "approve", "reject", "putBack"}
  BY DEF DepositCreate, DepositOut, Approve, Reject, Decide, PutBack, At, Waits
<1>3. InTurn => ~LogsIn(call[c])
  BY <1>2, OthersDoNotLogIn DEF LoginStages, OnShift
(* whatever it goes on with, unless that is a rejection *)
<1>4. ASSUME NEW k, k = NoCall \/ (k.op = call[c].op /\ k.at \notin Heedful), InTurn
      PROVE  InHand(k)'
  BY <1>3, <1>4, NoCallInHand, NothingInHand DEF LogsIn
<1>5. CASE DepositCreate(c)
  <2>1. PICK d \in FreshDeposits :
          /\ deposit' = [deposit EXCEPT ![d] =
               [NoDeposit EXCEPT !.register = call[c].register, !.status = "pending"]]
          /\ Becomes(c, [call[c] EXCEPT !.at = "depositOut", !.dep = d])
    BY <1>5 DEF DepositCreate
  <2>2. PICK k : k = [call[c] EXCEPT !.at = "depositOut", !.dep = d]
    OBVIOUS
  <2>3. k.op = call[c].op /\ k.at = "depositOut"
    BY <1>0, <2>2 DEF Calls
  <2>4. ~deposit[d].back
    BY <2>1 DEF DrawerInv, PutBackIfRejected, FreshDeposits
  <2>5. ~deposit'[d].back /\ \A f \in Deposits : f # d => deposit'[f] = deposit[f]
    BY <1>0, <2>1 DEF FreshDeposits, NoDeposit
  <2> QED BY <1>2, <1>4, <2>1, <2>2, <2>3, <2>4, <2>5, DepositRowInTurn DEF Heedful
<1>6. CASE DepositOut(c)
  <2>1. deposit' = [deposit EXCEPT ![e].out = TRUE]
    BY <1>1, <1>6 DEF DepositOut
  <2>2. \A d \in Deposits : /\ deposit'[d].register = deposit[d].register
                            /\ deposit'[d].back = deposit[d].back
    BY <1>0, <2>1 DEF DepositRows
  <2>3. PICK k : k = [call[c] EXCEPT !.at = "closeCheck"]
    OBVIOUS
  <2>4. k.op = call[c].op /\ k.at = "closeCheck"
    BY <1>0, <2>3 DEF Calls
  <2>5. Becomes(c, NoCall) \/ Becomes(c, k)
    BY <1>6, <2>3 DEF DepositOut, Returns, Goto
  <2>6. CASE Becomes(c, NoCall)
    BY <1>2, <1>4, <2>2, <2>6, DepositRowInTurn
  <2>7. CASE Becomes(c, k)
    BY <1>2, <1>4, <2>2, <2>4, <2>7, DepositRowInTurn DEF Heedful
  <2> QED BY <2>5, <2>6, <2>7
<1>7. ASSUME NEW stage, NEW status, NEW next, Decide(c, stage, status, next)
      PROVE  /\ \A d \in Deposits : /\ deposit'[d].register = deposit[d].register
                                    /\ deposit'[d].back = deposit[d].back
             /\ Becomes(c, NoCall) \/ Becomes(c, [call[c] EXCEPT !.at = next])
  <2>1. deposit' = deposit \/ deposit' = [deposit EXCEPT ![e].status = status]
    BY <1>1, <1>7 DEF Decide
  <2>2. \A d \in Deposits : /\ deposit'[d].register = deposit[d].register
                            /\ deposit'[d].back = deposit[d].back
    BY <1>0, <2>1 DEF DepositRows
  <2>3. Becomes(c, NoCall) \/ Becomes(c, [call[c] EXCEPT !.at = next])
    BY <1>7 DEF Decide, Returns, Goto
  <2> QED BY <2>2, <2>3
<1>8. CASE Approve(c)
  <2>1. PICK k : k = [call[c] EXCEPT !.at = "recalcRead"]
    OBVIOUS
  <2>2. k.op = call[c].op /\ k.at = "recalcRead"
    BY <1>0, <2>1 DEF Calls
  <2>3. /\ \A d \in Deposits : /\ deposit'[d].register = deposit[d].register
                               /\ deposit'[d].back = deposit[d].back
        /\ Becomes(c, NoCall) \/ Becomes(c, k)
    BY <1>7, <1>8, <2>1 DEF Approve
  <2>4. CASE Becomes(c, NoCall)
    BY <1>2, <1>4, <2>3, <2>4, DepositRowInTurn
  <2>5. CASE Becomes(c, k)
    BY <1>2, <1>4, <2>2, <2>3, <2>5, DepositRowInTurn DEF Heedful
  <2> QED BY <2>3, <2>4, <2>5
<1>9. CASE Reject(c)
  <2>0. call[c].at = "reject"
    BY <1>9 DEF Reject, Decide, At
  <2>1. PICK k : k = [call[c] EXCEPT !.at = "rejectFind"]
    OBVIOUS
  <2>2. /\ k.op = call[c].op /\ k.at = "rejectFind" /\ k.dep = e
        /\ k.register = call[c].register
    BY <1>0, <1>1, <2>1 DEF Calls
  <2>3. /\ \A d \in Deposits : /\ deposit'[d].register = deposit[d].register
                               /\ deposit'[d].back = deposit[d].back
        /\ Becomes(c, NoCall) \/ Becomes(c, k)
    BY <1>7, <1>9, <2>1 DEF Reject
  <2>4. CASE Becomes(c, NoCall)
    BY <1>2, <1>4, <2>3, <2>4, DepositRowInTurn
  <2>5. CASE Becomes(c, k)
    <3>1. e \in Deposits
      BY <1>0, <1>1, <2>0 DEF Sound
    <3>2. ASSUME InTurn, InHand(call[c]) PROVE InHand(k)'
      <4>1. deposit[e].register = k.register
        BY <1>1, <2>0, <2>2, <3>2 DEF InHand, Counted
      <4>2. deposit'[e].register = k.register
        BY <2>3, <3>1, <4>1
      <4>3. ~LogsIn(k)
        BY <1>3, <2>2, <3>2 DEF LogsIn
      <4> QED BY <2>2, <4>2, <4>3 DEF InHand, Counted, LogsIn
    <3> QED BY <1>2, <2>3, <2>5, <3>2, DepositRowInTurn
  <2> QED BY <2>3, <2>4, <2>5
<1>10. CASE PutBack(c)
  <2>0. call[c].at = "putBack" /\ deposit' = [deposit EXCEPT ![e].back = TRUE]
    BY <1>1, <1>10 DEF PutBack, At
  <2>1. e \in Deposits
    BY <1>0, <1>1, <2>0 DEF Sound
  <2>2. PICK k : k = [call[c] EXCEPT !.at = "recalcRead"]
    OBVIOUS
  <2>3. k.op = call[c].op /\ k.at = "recalcRead" /\ Becomes(c, k)
    BY <1>0, <1>10, <2>2 DEF Calls, PutBack, Goto
  <2>4. \A d \in Deposits : /\ deposit'[d].register = deposit[d].register
                            /\ d # e => deposit'[d].back = deposit[d].back
    BY <1>0, <2>0 DEF DepositRows
  <2>5. ASSUME InHand(call[c]), NEW r \in Registers,
               register[r].status \in {"closed", "reconciled"}
        PROVE  deposit[e].register # r
    BY <1>1, <2>0, <2>5 DEF InHand, Counted, StatusOf
  <2> QED BY <1>2, <1>4, <2>1, <2>3, <2>4, <2>5, DepositRowInTurn DEF Heedful
<1> QED BY <1>5, <1>6, <1>8, <1>9, <1>10

LEMMA TurnInitInv == DrawerInit => TurnInv
<1> SUFFICES ASSUME DrawerInit PROVE TurnInv
  OBVIOUS
<1>1. /\ \A r \in Registers : register[r] = NoRegister
      /\ \A s \in Shifts : shift[s].status = "none"
      /\ \A c \in Clerks : call[c] = NoCall /\ Waits(c)
  BY DEF DrawerInit, NoShift, NoCall, Waits
<1>2. Numbered
  BY <1>1 DEF Numbered, FreshRegisters, NoRegister
<1>3. OneActive /\ Lone
  BY <1>1 DEF OneActive, Lone
<1>4. Counting
  BY <1>1 DEF Counting, NoRegister
<1>5. \A c \in Clerks : InHand(call[c])
  BY <1>1, NoCallInHand
<1> QED BY <1>2, <1>3, <1>4, <1>5 DEF TurnInv, InTurn

LEMMA TurnStepInv ==
  ASSUME DrawerInv, TurnInv, [DrawerNext]_drawerVars
  PROVE  TurnInv'
<1>1. CASE UNCHANGED drawerVars
  <2>1. UNCHANGED rows /\ call' = call /\ raced' = raced
    BY <1>1 DEF drawerVars
  <2>2. Numbered'
    BY <2>1, RowsAsTheyWere DEF TurnInv
  <2>3. ASSUME ~raced' PROVE InTurn'
    <3>1. InTurn
      BY <2>1, <2>3 DEF TurnInv
    <3>2. Lone'
      BY <2>1, <3>1 DEF InTurn, Lone, Waits
    <3>3. ASSUME NEW o \in Clerks PROVE InHand(call[o])'
      <4>1. PICK k : k = call[o]
        OBVIOUS
      <4>2. InHand(k)'
        BY <2>1, <3>1, <4>1, RowsAsTheyWere DEF InTurn
      <4>3. call'[o] = k
        BY <2>1, <4>1
      <4> QED BY <4>2, <4>3 DEF InHand, Counted, LogsIn, OnItsWay
    <3> QED BY <2>1, <3>1, <3>2, <3>3, RowsAsTheyWere DEF InTurn
  <2> QED BY <2>2, <2>3 DEF TurnInv
<1>2. CASE DrawerNext
  <2>1. PICK c \in Clerks :
           Begin(c) \/ CutOff(c) \/ ShiftStep(c) \/ RegisterStep(c) \/ DepositStep(c)
    BY <1>2 DEF DrawerNext
  <2>2. CASE Begin(c) \/ CutOff(c)
    BY <2>2, BeginsInTurn
  <2>3. CASE ShiftStep(c)
    BY <2>3, ClockInInTurn, FindActiveInTurn, StartShiftInTurn, StaleShiftInTurn,
       ClockOutInTurn, AutoCloseInTurn, EndShiftInTurn, MyShiftInTurn DEF ShiftStep
  <2>4. CASE RegisterStep(c)
    BY <2>4, CarryInTurn, EnsureInTurn, ValidateInTurn, OpenRegisterInTurn,
       RegisterStepsInTurn, ChecksInTurn, SumsInTurn, FindsInTurn DEF RegisterStep
  <2>5. CASE DepositStep(c)
    BY <2>5, ChecksInTurn, DepositStepsInTurn, FindsInTurn, SumsInTurn,
       RegisterStepsInTurn DEF DepositStep
  <2> QED BY <2>1, <2>2, <2>3, <2>4, <2>5
<1> QED BY <1>1, <1>2

(* While calls take turns, a clerk has one active shift, one call is in    *)
(* flight, and what it has read and summed is still so.                    *)
THEOREM CallsTakeTurns == DrawerSpec => []TurnInv
<1>1. DrawerInv /\ TurnInv /\ [DrawerNext]_drawerVars => TurnInv'
  BY TurnStepInv
<1> QED BY DrawerIsSound, TurnInitInv, <1>1, PTL DEF DrawerSpec

(* cash_register_repo: a closed register expects the sum of its entries,   *)
(* also of those that a later decision on a deposit adds.                  *)
THEOREM ClosedRegistersAreCounted == DrawerSpec => []ClosedIsCounted
<1>1. TurnInv => ClosedIsCounted
  BY DEF TurnInv, InTurn, Counting, ClosedIsCounted
<1> QED BY CallsTakeTurns, <1>1, PTL

(***************************************************************************)
(* A login that comes to its end.                                          *)
(***************************************************************************)
(* Every step moves the call it is a step of. *)
LEMMA StepsMove ==
  ASSUME NEW c \in Clerks,
         Begin(c) \/ CutOff(c) \/ ShiftStep(c) \/ RegisterStep(c) \/ DepositStep(c)
  PROVE  \E k : Becomes(c, k)
<1>1. CASE Begin(c)
  BY <1>1 DEF Begin, StaffAsks, RegisterAsks, DepositAsks
<1>2. CASE CutOff(c)
  BY <1>2 DEF CutOff
<1>3. CASE ShiftStep(c)
  BY <1>3 DEF ShiftStep, ClockIn, FindActive, StartShift, StaleShift, ClockOut,
     AutoFind, AutoSum, EndShift, MyShift, MyRegister, Goto, Returns
<1>4. CASE RegisterStep(c)
  BY <1>4 DEF RegisterStep, LastClosed, CarrySum, Ensure, OpeningCheck, OpeningWrite,
     Validate, Exists, OpenRegister, CloseCheck, CloseSum, CloseWrite, EntryCheck,
     EntryWrite, ReconcileCheck, ReconcileRegister, Goto, Returns
<1>5. CASE DepositStep(c)
  BY <1>5 DEF DepositStep, DepositCheck, DepositCreate, DepositOut, Approve, Reject,
     Decide, RejectFind, PutBack, RecalcRead, RecalcWrite, Goto, Returns
<1> QED BY <1>1, <1>2, <1>3, <1>4, <1>5

(* Where a login may return, its shift has an open register, or gets one.  *)
LEMMA LoginEnds ==
  ASSUME DrawerInv, InTurn, NEW c \in Clerks, LogsIn(call[c]),
         call'[c].at = "idle",
         Begin(c) \/ CutOff(c) \/ ShiftStep(c) \/ RegisterStep(c) \/ DepositStep(c)
  PROVE  /\ call[c].shift \in ActiveOf(call[c].user)
         /\ \/ /\ shift' = shift /\ register' = register
               /\ StatusOf(FindByShift(call[c].shift)) = "open"
            \/ /\ OpeningWrite(c)
               /\ StatusOf(FindByShift(call[c].shift)) = "open"
            \/ OpenRegister(c)
<1>0. /\ call[c] \in Calls /\ InHand(call[c]) /\ OnItsWay(call[c])
      /\ call[c].at \in LoginStages
  BY CallInFlight DEF InTurn, InHand, OnItsWay
<1>1. call \in [Clerks -> Calls]
  BY DEF DrawerInv, DrawerTypeOK
<1>2. ASSUME NEW k, Becomes(c, k) PROVE k.at = "idle"
  BY <1>1, <1>2 DEF Becomes
<1>3. ASSUME NEW stage, Goto(c, stage) PROVE stage = "idle"
  <2>1. [call[c] EXCEPT !.at = stage].at = "idle"
    BY <1>2, <1>3 DEF Goto
  <2> QED BY <1>0, <2>1 DEF Calls
<1>4. ~CutOff(c) /\ ~Begin(c)
  <2>1. ~Begin(c)
    BY <1>0 DEF Begin, Waits, LoginStages, OnShift
  <2>2. ASSUME CutOff(c) PROVE FALSE
    <3>1. Becomes(c, [NoCall EXCEPT !.at = "lost"])
      BY <2>2 DEF CutOff
    <3>2. [NoCall EXCEPT !.at = "lost"].at = "idle"
      BY <1>2, <3>1
    <3>3. [NoCall EXCEPT !.at = "lost"].at = "lost"
      BY DEF NoCall
    <3> QED BY <3>2, <3>3
  <2> QED BY <2>1, <2>2
<1>5. ~DepositStep(c)
  BY <1>0 DEF DepositStep, DepositCheck, DepositCreate, DepositOut, Approve, Reject,
     Decide, RejectFind, PutBack, RecalcRead, RecalcWrite, At, LoginStages, OnShift
<1>6. \/ ClockIn(c) \/ FindActive(c) \/ StartShift(c) \/ StaleShift(c) \/ ClockOut(c)
      \/ AutoFind(c) \/ EndShift(c) \/ LastClosed(c) \/ CarrySum(c) \/ Ensure(c)
      \/ OpeningCheck(c) \/ OpeningWrite(c) \/ Validate(c) \/ Exists(c)
      \/ OpenRegister(c)
  BY <1>0, <1>4, <1>5 DEF ShiftStep, RegisterStep, AutoSum, MyShift, MyRegister,
     CloseCheck, CloseSum, CloseWrite, EntryCheck, EntryWrite, ReconcileCheck,
     ReconcileRegister, At, LoginStages, OnShift
<1>7. ~ClockIn(c)
  <2> SUFFICES ASSUME ClockIn(c) PROVE FALSE
    OBVIOUS
  <2>1. ~Goto(c, "startShift") /\ ~Goto(c, "active")
    BY <1>3
  <2>2. ActiveOf(call[c].user) # {} /\ call[c].op # "login"
    BY <2>1 DEF ClockIn
  <2> QED BY <1>0, <2>2 DEF ClockIn, At, LogsIn, OnItsWay
<1>8. ~FindActive(c)
  <2> SUFFICES ASSUME FindActive(c) PROVE FALSE
    OBVIOUS
  <2>1. ActiveOf(call[c].user) # {}
    BY <1>0 DEF FindActive, At, OnItsWay
  <2>2. PICK s : Becomes(c, [call[c] EXCEPT !.at = "stale", !.shift = s])
    BY <2>1 DEF FindActive
  <2>3. [call[c] EXCEPT !.at = "stale", !.shift = s].at = "stale"
    BY <1>0 DEF Calls
  <2> QED BY <1>2, <2>2, <2>3
<1>9. ~ClockOut(c)
  <2> SUFFICES ASSUME ClockOut(c) PROVE FALSE
    OBVIOUS
  <2>1. ActiveOf(call[c].user) # {}
    BY <1>0 DEF ClockOut, At, OnItsWay
  <2>2. PICK s : Becomes(c, [call[c] EXCEPT !.at = "autoFind", !.shift = s])
    BY <2>1 DEF ClockOut
  <2>3. [call[c] EXCEPT !.at = "autoFind", !.shift = s].at = "autoFind"
    BY <1>0 DEF Calls
  <2> QED BY <1>2, <2>2, <2>3
<1>10. ~StartShift(c)
  <2> SUFFICES ASSUME StartShift(c) PROVE FALSE
    OBVIOUS
  <2>1. PICK s : Becomes(c, [call[c] EXCEPT !.shift = s,
              !.at = IF call[c].op = "handover" THEN "carrySum" ELSE "lastClosed"])
    BY DEF StartShift
  <2>2. [call[c] EXCEPT !.shift = s,
           !.at = IF call[c].op = "handover" THEN "carrySum" ELSE "lastClosed"].at
          \in {"carrySum", "lastClosed"}
    BY <1>0 DEF Calls
  <2> QED BY <1>2, <2>1, <2>2
<1>11. ~StaleShift(c)
  <2> SUFFICES ASSUME StaleShift(c) PROVE FALSE
    OBVIOUS
  <2>1. ~Goto(c, "lastClosed")
    BY <1>3
  <2>2. Becomes(c, [call[c] EXCEPT !.op = "relogin", !.at = "clockOut"])
    BY <2>1 DEF StaleShift
  <2>3. [call[c] EXCEPT !.op = "relogin", !.at = "clockOut"].at = "clockOut"
    BY <1>0 DEF Calls
  <2> QED BY <1>2, <2>2, <2>3
<1>12. ~AutoFind(c)
  <2> SUFFICES ASSUME AutoFind(c) PROVE FALSE
    OBVIOUS
  <2>1. ~Goto(c, "endShift")
    BY <1>3
  <2>2. PICK r, n : Becomes(c, [call[c] EXCEPT !.at = "autoSum", !.register = r,
                                               !.count = n])
    BY <2>1 DEF AutoFind
  <2>3. [call[c] EXCEPT !.at = "autoSum", !.register = r, !.count = n].at = "autoSum"
    BY <1>0 DEF Calls
  <2> QED BY <1>2, <2>2, <2>3
<1>13. ~EndShift(c)
  <2> SUFFICES ASSUME EndShift(c) PROVE FALSE
    OBVIOUS
  <2>1. call[c].op = "relogin" /\ call[c].shift \in ActiveOf(call[c].user)
    BY <1>0 DEF EndShift, At, OnItsWay, OnShift
  <2>2. shift[call[c].shift].status = "active"
    BY <2>1 DEF ActiveOf
  <2>3. Goto(c, "clockIn")
    BY <2>1, <2>2 DEF EndShift
  <2> QED BY <1>3, <2>3
<1>14. ~LastClosed(c) /\ ~CarrySum(c)
  <2>1. ASSUME LastClosed(c) PROVE FALSE
    <3>1. Becomes(c, [call[c] EXCEPT !.at = "carrySum", !.source = latest])
      BY <2>1 DEF LastClosed
    <3>2. [call[c] EXCEPT !.at = "carrySum", !.source = latest].at = "carrySum"
      BY <1>0 DEF Calls
    <3> QED BY <1>2, <3>1, <3>2
  <2>2. ASSUME CarrySum(c) PROVE FALSE
    <3>1. PICK x : Becomes(c, [call[c] EXCEPT !.at = "ensure", !.sum = x])
      BY <2>2 DEF CarrySum
    <3>2. [call[c] EXCEPT !.at = "ensure", !.sum = x].at = "ensure"
      BY <1>0 DEF Calls
    <3> QED BY <1>2, <3>1, <3>2
  <2> QED BY <2>1, <2>2
<1>15. CASE Ensure(c)
  <2>1. ~Goto(c, "validate")
    BY <1>3
  <2>2. StatusOf(FindByShift(call[c].shift)) = "open"
    BY <1>15, <2>1 DEF Ensure
  <2>3. call[c].shift \in ActiveOf(call[c].user)
    BY <1>0, <1>15 DEF Ensure, At, OnItsWay, OnShift
  <2> QED BY <1>15, <2>2, <2>3 DEF Ensure, Reads, rows
<1>16. CASE OpeningCheck(c)
  <2>1. StatusOf(call[c].register) = "open"
    BY <1>0, <1>16 DEF OpeningCheck, At, OnItsWay
  <2>2. Goto(c, "openingWrite")
    BY <1>16, <2>1 DEF OpeningCheck
  <2> QED BY <1>3, <2>2
<1>17. CASE OpeningWrite(c)
  BY <1>0, <1>17 DEF OpeningWrite, At, OnItsWay, OnShift
<1>18. CASE Validate(c)
  <2>1. call[c].shift \in ActiveOf(call[c].user)
    BY <1>0, <1>18 DEF Validate, At, OnItsWay, OnShift
  <2>2. Goto(c, "exists")
    BY <1>18, <2>1 DEF Validate, ActiveOf
  <2> QED BY <1>3, <2>2
<1>19. CASE Exists(c)
  <2>1. ~Goto(c, "openRegister")
    BY <1>3
  <2>2. StatusOf(FindByShift(call[c].shift)) = "open"
    BY <1>19, <2>1 DEF Exists
  <2>3. call[c].shift \in ActiveOf(call[c].user)
    BY <1>0, <1>19 DEF Exists, At, OnItsWay, OnShift
  <2> QED BY <1>19, <2>2, <2>3 DEF Exists, Reads, rows
<1>20. CASE OpenRegister(c)
  BY <1>0, <1>20 DEF OpenRegister, At, OnItsWay, OnShift
<1> QED BY <1>6, <1>7, <1>8, <1>9, <1>10, <1>11, <1>12, <1>13, <1>14, <1>15, <1>16,
   <1>17, <1>18, <1>19, <1>20

(* A register that is opened is the one its shift is asked for. *)
LEMMA OpenedIsFound ==
  ASSUME DrawerInv, TurnInv, NEW c \in Clerks, OpenRegister(c),
         NEW s \in Shifts, s = call[c].shift
  PROVE  (StatusOf(FindByShift(s)) = "open")'
<1>0. register \in [Registers -> RegisterRows] /\ s # 0 /\ Registers \subseteq Int
  BY DrawerAssumption DEF DrawerInv, DrawerTypeOK, Shifts, Registers
<1>1. PICK p \in FreshRegisters :
        /\ \A q \in FreshRegisters : p <= q
        /\ register' = [register EXCEPT ![p] =
             [NoRegister EXCEPT !.shift = call[c].shift, !.status = "open",
                                !.opening = call[c].sum]]
  BY DEF OpenRegister
<1>2. /\ p \in Registers
      /\ register'[p].status = "open" /\ register'[p].shift = s
      /\ \A r \in Registers : r # p => register'[r] = register[r]
  BY <1>0, <1>1 DEF FreshRegisters, NoRegister
<1>3. OfShift(s)' = {r \in Registers : register'[r].shift = s}
  BY <1>0 DEF OfShift, Registers
<1>4. ASSUME NEW q \in Registers, register'[q].shift = s PROVE q <= p
  <2>1. CASE q = p
    BY <1>0, <2>1
  <2>2. CASE q # p
    <3>1. q \notin FreshRegisters
      BY <1>0, <1>2, <1>4, <2>2 DEF TurnInv, Numbered
    <3>2. ~(p <= q)
      BY <1>1, <1>4, <3>1 DEF TurnInv, Numbered
    <3> QED BY <1>0, <1>2, <3>2
  <2> QED BY <2>1, <2>2
<1>5. Newest(s)' = {p}
  <2>1. Newest(s)' = {r \in OfShift(s)' : \A q \in OfShift(s)' : q <= r}
    BY DEF Newest
  <2>2. p \in Newest(s)'
    BY <1>2, <1>3, <1>4, <2>1
  <2>3. ASSUME NEW r \in Newest(s)' PROVE r = p
    <3>1. r \in Registers /\ register'[r].shift = s /\ p <= r
      BY <1>2, <1>3, <2>1, <2>3
    <3>2. r <= p
      BY <1>4, <3>1
    <3> QED BY <1>0, <1>2, <3>1, <3>2
  <2> QED BY <2>2, <2>3
<1>6. FindByShift(s)' = p
  BY <1>5 DEF FindByShift
<1> QED BY <1>2, <1>6 DEF StatusOf, Registers

(* An opening balance that is replaced leaves the register what it was. *)
LEMMA ReplacedIsFound ==
  ASSUME DrawerInv, NEW c \in Clerks, OpeningWrite(c), NEW s
  PROVE  StatusOf(FindByShift(s))' = StatusOf(FindByShift(s))
<1>0. register \in [Registers -> RegisterRows]
  BY DEF DrawerInv, DrawerTypeOK
<1>1. \/ register' = register
      \/ \E q, x : register' = [register EXCEPT ![q].opening = x]
  BY DEF OpeningWrite
<1>2. \A r \in Registers : /\ register'[r].status = register[r].status
                           /\ register'[r].shift = register[r].shift
  BY <1>0, <1>1 DEF RegisterRows
<1>3. OfShift(s)' = OfShift(s)
  BY <1>2 DEF OfShift, Registers
<1>4. FindByShift(s)' = FindByShift(s)
  BY <1>3 DEF FindByShift, Newest
<1> QED BY <1>2, <1>4 DEF StatusOf, Registers

(* login_staff: while calls take turns, a login that comes to its end      *)
(* leaves its user with an active shift and an open register on it,        *)
(* whatever calls were cut off before.                                     *)
THEOREM LoginsRecover == DrawerSpec => LoginRecovers
<1> DEFINE Recovers ==
      \A c \in Clerks, u \in Staff :
        /\ ~raced /\ call[c].user = u /\ call[c].op \in {"login", "relogin"}
        /\ call'[c].at = "idle"
        => Serves(u)'
<1>1. DrawerInv /\ TurnInv /\ [DrawerNext]_drawerVars => [Recovers]_drawerVars
  <2> SUFFICES ASSUME DrawerInv, TurnInv, DrawerNext,
                      NEW c \in Clerks, NEW u \in Staff, ~raced,
                      call[c].user = u, LogsIn(call[c]), call'[c].at = "idle"
               PROVE  Serves(u)'
    BY DEF LogsIn
  <2>0. InTurn
    BY DEF TurnInv
  <2>1. call \in [Clerks -> Calls] /\ call[c].at # "idle"
    BY <2>0 DEF InTurn, InHand, OnItsWay, LoginStages, OnShift, DrawerInv, DrawerTypeOK
  <2>2. PICK o \in Clerks :
           Begin(o) \/ CutOff(o) \/ ShiftStep(o) \/ RegisterStep(o) \/ DepositStep(o)
    BY DEF DrawerNext
  <2>3. \E k : Becomes(o, k)
    BY <2>2, StepsMove
  <2>4. o = c
    BY <2>1, <2>3 DEF Becomes
  <2>5. PICK s : s = call[c].shift
    OBVIOUS
  <2>6. /\ s \in ActiveOf(u)
        /\ \/ /\ shift' = shift /\ register' = register
              /\ StatusOf(FindByShift(s)) = "open"
           \/ OpeningWrite(c) /\ StatusOf(FindByShift(s)) = "open"
           \/ OpenRegister(c)
    BY <2>0, <2>2, <2>4, <2>5, LoginEnds
  <2>7. shift' = shift
    BY <2>6 DEF OpeningWrite, OpenRegister
  <2>8. s \in ActiveOf(u)' /\ s \in Shifts
    BY <2>6, <2>7 DEF ActiveOf, Shifts
  <2>9. (StatusOf(FindByShift(s)) = "open")'
    <3>1. CASE register' = register /\ StatusOf(FindByShift(s)) = "open"
      BY <3>1 DEF StatusOf, FindByShift, Newest, OfShift, Registers
    <3>2. CASE OpeningWrite(c) /\ StatusOf(FindByShift(s)) = "open"
      BY <3>2, ReplacedIsFound
    <3>3. CASE OpenRegister(c)
      BY <2>5, <2>8, <3>3, OpenedIsFound
    <3> QED BY <2>6, <3>1, <3>2, <3>3
  <2> QED BY <2>8, <2>9 DEF Serves
<1> QED BY DrawerIsSound, CallsTakeTurns, <1>1, PTL DEF DrawerSpec, LoginRecovers
=============================================================================
