------------------------- MODULE CreditLedgerProofs -------------------------
(***************************************************************************)
(* Proofs about CreditLedger, CreditWebhooks and CreditAccount, for every  *)
(* value of their constants: settlements and keys, the overdraft, the      *)
(* reserved total, the ledger under Stripe's deliveries and the account it *)
(* implements.                                                             *)
(***************************************************************************)
EXTENDS CreditAccount, CreditWebhooks, FiniteSums

-----------------------------------------------------------------------------
(* The state has its type.                                                 *)

(* A row built by NewRow is a row of the ledger: the shape of what every    *)
(* operation inserts.                                                       *)
LEMMA NewRowType ==
    ASSUME TypeOK,
           NEW type \in RowTypes, NEW ref \in ReservationIds \cup {None},
           NEW key \in Keys \cup {None}, NEW amount \in Int, NEW after \in Int
    PROVE  NewRow(type, ref, key, amount, after) \in Row
  BY DEF TypeOK, Balance, NewRow, Row

(* Monus, the Math.max(0, x - y) of the service, stays in Nat.              *)
LEMMA MonusType ==
    ASSUME NEW x \in Int, NEW y \in Int
    PROVE  /\ Monus(x, y) \in Nat
           /\ Monus(x, y) \in Int
           /\ x - y >= 0 => Monus(x, y) = x - y
  BY DEF Monus

(* A reservation that is in the ledger has an amount in Int.                *)
LEMMA HoldType ==
    ASSUME TypeOK, NEW r, Reserved(r)
    PROVE  /\ HoldRow(r) \in DOMAIN ledger
           /\ IsReservation(HoldRow(r), r)
           /\ HoldOf(r) \in Int
  <1>1. PICK i \in DOMAIN ledger : IsReservation(i, r)
    BY DEF Reserved
  <1>2. HoldRow(r) \in DOMAIN ledger /\ IsReservation(HoldRow(r), r)
    BY <1>1 DEF HoldRow
  <1>3. ledger[HoldRow(r)] \in Row
    BY <1>2 DEF TypeOK
  <1>4. QED
    BY <1>2, <1>3 DEF HoldOf, Row

LEMMA CallType ==
    ASSUME NEW op \in {"idle", "reserve", "purchase"}, NEW k \in Keys \cup {None},
           NEW a \in 0..MaxAmount
    PROVE  NewCall(op, k, a) \in Call
  BY DEF NewCall, Call

LEMMA IdleType == Idle \in Call
  BY CallType, NatParameters DEF Idle, NatParameters

LEMMA BalanceFields ==
    ASSUME TypeOK
    PROVE  /\ balance.available \in Int /\ balance.reserved \in Nat
           /\ balance.purchased \in Nat /\ balance.bonus \in Nat
           /\ balance.consumed \in Nat /\ balance.refunded \in Nat
           /\ balance.refillCount \in Nat /\ balance.opened \in BOOLEAN
  BY DEF TypeOK, Balance

LEMMA PurchaseRowsType ==
    ASSUME TypeOK, NEW k \in Keys \cup {None}
    PROVE  PurchaseRows(k) \in Seq(Row)
  <1> DEFINE paid == NewRow("PURCHASE", None, k, PackageCredits,
                            balance.available + PackageCredits)
             free == [type |-> "BONUS", ref |-> None, key |-> None, amount |-> PackageBonus,
                      before |-> paid.after, after |-> paid.after + PackageBonus]
  <1>1. balance.available + PackageCredits \in Int /\ PackageCredits \in Int /\ PackageBonus \in Int
    BY BalanceFields, NatParameters DEF NatParameters
  <1>2. paid \in Row
    BY <1>1, NewRowType DEF RowTypes
  <1>3. paid.after \in Int /\ paid.after + PackageBonus \in Int
    BY <1>1 DEF NewRow
  <1>4. free \in Row
    <2> HIDE DEF paid
    <2> QED BY <1>1, <1>3 DEF Row, RowTypes
  <1>5. PurchaseRows(k) = IF PackageBonus > 0 THEN <<paid, free>> ELSE <<paid>>
    BY DEF PurchaseRows
  <1>6. QED
    <2> HIDE DEF paid, free
    <2> QED BY <1>2, <1>4, <1>5

LEMMA InitType == Init => TypeOK
  BY IdleType DEF Init, TypeOK, Balance

(* A refund takes its amount from Stripe, which knows other bounds than the *)
(* callers of the service.                                                  *)
LEMMA RefundType ==
    ASSUME TypeOK, NEW a \in Nat, Refund(a)
    PROVE  TypeOK'
  <1> DEFINE left  == Monus(balance.available, a)
             total == balance.refunded + a
  <1>1. left \in Int /\ total \in Nat /\ a \in Int
    BY BalanceFields DEF Monus
  <1>2. NewRow("REFUND", None, None, a, left) \in Row
    BY <1>1, NewRowType DEF RowTypes
  <1>3. ledger' \in Seq(Row)
    BY <1>2 DEF Refund, TypeOK
  <1>4. balance' = [balance EXCEPT !.available = left, !.refunded = total]
    BY DEF Refund
  <1>5. balance' \in Balance
    <2> HIDE DEF left, total
    <2> QED BY <1>1, <1>4 DEF TypeOK, Balance
  <1> QED
    BY <1>3, <1>5 DEF Refund, TypeOK

LEMMA StepType == TypeOK /\ [Next]_vars => TypeOK'
  <1> SUFFICES ASSUME TypeOK, [Next]_vars PROVE TypeOK'
    OBVIOUS
  <1> USE NatParameters DEF NatParameters
  <1>1. CASE OpenBalance
    BY <1>1 DEF OpenBalance, TypeOK, Balance
  <1>2. ASSUME NEW c \in Calls, NEW k \in ReserveKeys, NEW a \in Amounts, ReserveLookup(c, k, a)
        PROVE  TypeOK'
    <2>1. NewCall("reserve", k, a) \in Call
      BY CallType DEF Keys, Amounts
    <2>2. QED
      BY <1>2, <2>1 DEF ReserveLookup, TypeOK
  <1>3. ASSUME NEW c \in Calls, NEW r \in ReservationIds, ReserveCommit(c, r)
        PROVE  TypeOK'
    <2>1. calls[c].amount \in Nat /\ calls[c].key \in Keys \cup {None}
      BY DEF TypeOK, Call
    <2>2. NewRow("RESERVATION", r, calls[c].key, calls[c].amount, balance.available) \in Row
      BY <2>1, BalanceFields, NewRowType DEF RowTypes
    <2>3. ledger' \in Seq(Row)
      BY <1>3, <2>2 DEF ReserveCommit, TypeOK
    <2>4. balance.reserved + calls[c].amount \in Nat
      BY <2>1, BalanceFields
    <2>5. balance' \in Balance
      BY <1>3, <2>4 DEF ReserveCommit, TypeOK, Balance
    <2>6. QED
      BY <1>3, <2>3, <2>5, IdleType DEF ReserveCommit, TypeOK
  <1>4. ASSUME NEW c \in Calls, ReserveRefuse(c) \/ PurchaseConflict(c) \/ AbortCall(c)
        PROVE  TypeOK'
    BY <1>4, IdleType DEF ReserveRefuse, PurchaseConflict, AbortCall, TypeOK
  <1>5. ASSUME NEW r \in ReservationIds, Release(r)
        PROVE  TypeOK'
    <2>1. HoldOf(r) \in Int
      BY <1>5, HoldType DEF Release
    <2>2. NewRow("RELEASE", r, None, HoldOf(r), balance.available) \in Row
      BY <2>1, BalanceFields, NewRowType DEF RowTypes
    <2>3. Monus(balance.reserved, HoldOf(r)) \in Nat
      BY <2>1, BalanceFields DEF Monus
    <2>4. ledger' \in Seq(Row)
      BY <1>5, <2>2 DEF Release, TypeOK
    <2>5. QED
      BY <1>5, <2>3, <2>4 DEF Release, TypeOK, Balance
  <1>6. ASSUME NEW r \in ReservationIds, NEW a \in Amounts, Consume(r, a)
        PROVE  TypeOK'
    <2> DEFINE left  == balance.available - a
               held  == Monus(balance.reserved, AmountHeld(r, a))
               total == balance.consumed + a
               count == IF RefillDue(left) THEN balance.refillCount + 1 ELSE balance.refillCount
    <2>1. AmountHeld(r, a) \in Int
      BY HoldType DEF AmountHeld, Amounts
    <2>2. left \in Int /\ held \in Nat /\ total \in Nat /\ count \in Nat /\ a \in Int
      BY <2>1, BalanceFields DEF Amounts, Monus
    <2>3. NewRow("CONSUMPTION", r, None, a, left) \in Row
      BY <2>2, NewRowType DEF RowTypes
    <2>4. balance' = [balance EXCEPT !.available = left, !.reserved = held,
                                     !.consumed = total, !.refillCount = count]
      BY <1>6 DEF Consume
    <2>5. balance' \in Balance
      <3> HIDE DEF left, held, total, count
      <3> QED BY <2>2, <2>4 DEF TypeOK, Balance
    <2>6. ledger' \in Seq(Row)
      BY <1>6, <2>3 DEF Consume, TypeOK
    <2>7. jobs' \in Nat /\ streak' \in Nat
      BY <1>6 DEF Consume, TypeOK
    <2>8. QED
      BY <1>6, <2>5, <2>6, <2>7 DEF Consume, TypeOK
  <1>7. ASSUME NEW r \in ReservationIds, NEW a \in Amounts, ConsumeRollback(r, a)
        PROVE  TypeOK'
    BY <1>7 DEF ConsumeRollback, TypeOK
  <1>8. ASSUME NEW c \in Calls, PurchaseFindBalance(c)
        PROVE  TypeOK'
    <2>1. calls[c] \in Call /\ balance.opened \in BOOLEAN
      BY BalanceFields DEF TypeOK
    <2>2. [calls[c] EXCEPT !.op = "purchaseTx", !.sawBalance = balance.opened] \in Call
      BY <2>1 DEF Call
    <2>3. calls' \in [Calls -> Call]
      BY <1>8, <2>2 DEF PurchaseFindBalance, TypeOK
    <2>4. QED
      BY <1>8, <2>3 DEF PurchaseFindBalance, TypeOK
  <1>9. ASSUME NEW c \in Calls, PurchaseCommit(c)
        PROVE  TypeOK'
    <2> DEFINE sum   == balance.available + PackageCredits + PackageBonus
               paid  == balance.purchased + PackageCredits
               extra == balance.bonus + PackageBonus
    <2>1. calls[c].key \in Keys \cup {None}
      BY DEF TypeOK, Call
    <2>2. PurchaseRows(calls[c].key) \in Seq(Row)
      BY <2>1, PurchaseRowsType
    <2>3. ledger' \in Seq(Row)
      BY <1>9, <2>2 DEF PurchaseCommit, TypeOK
    <2>4. sum \in Int /\ paid \in Nat /\ extra \in Nat
      BY BalanceFields
    <2>5. balance' = [balance EXCEPT !.opened = TRUE, !.available = sum, !.purchased = paid,
                                     !.bonus = extra, !.refillCount = 0]
      BY <1>9 DEF PurchaseCommit
    <2>6. balance' \in Balance
      <3> HIDE DEF sum, paid, extra
      <3> QED BY <2>4, <2>5 DEF TypeOK, Balance
    <2>7. QED
      BY <1>9, <2>3, <2>6, IdleType DEF PurchaseCommit, TypeOK
  <1>10. ASSUME NEW k \in CheckoutKeys, CheckoutPaid(k)
         PROVE  TypeOK'
    BY <1>10 DEF CheckoutPaid, TypeOK, PurchaseKeys, ManualKeys
  <1>11. ASSUME NEW c \in Calls, NEW k \in PurchaseKeys,
                CheckoutLookup(c, k) \/ DirectCharge(c, k) \/ RefillCharge(c, k)
         PROVE  TypeOK'
    <2>1. NewCall("purchase", k, 0) \in Call
      BY CallType DEF Keys
    <2>2. QED
      BY <1>11, <2>1 DEF CheckoutLookup, DirectCharge, RefillCharge, StartPurchase, TypeOK
  <1>12. CASE RefillDeclined
    BY <1>12 DEF RefillDeclined, TypeOK
  <1>13. ASSUME NEW on \in BOOLEAN, ConfigureAutoRefill(on)
         PROVE  TypeOK'
    BY <1>13 DEF ConfigureAutoRefill, TypeOK, Balance
  <1>14. ASSUME NEW a \in Amounts, Refund(a)
         PROVE  TypeOK'
    BY <1>14, RefundType DEF Amounts
  <1>15. ASSUME NEW a \in AdjustAmounts, Adjust(a)
         PROVE  TypeOK'
    <2>1. a \in Int /\ Monus(balance.available, -a) \in Int
      BY BalanceFields DEF Monus
    <2>2. NewRow("ADJUSTMENT", None, None, a, Monus(balance.available, -a)) \in Row
      BY <2>1, NewRowType DEF RowTypes
    <2>3. ledger' \in Seq(Row)
      BY <1>15, <2>2 DEF Adjust, TypeOK
    <2>4. QED
      BY <1>15, <2>1, <2>3 DEF Adjust, TypeOK, Balance
  <1>16. CASE Restart
    BY <1>16, IdleType DEF Restart, TypeOK
  <1>17. CASE UNCHANGED vars
    BY <1>17 DEF vars, TypeOK
  <1>18. QED
    BY <1>1, <1>2, <1>3, <1>4, <1>5, <1>6, <1>7, <1>8, <1>9, <1>10, <1>11, <1>12, <1>13,
       <1>14, <1>15, <1>16, <1>17
       DEF Next, CallStart, CallStep, RowNext, SettleNext, CheckoutNext, PurchaseKeys, ManualKeys

(* TypeOK holds in every state, whatever callers, Stripe and faults do.     *)
THEOREM TypeCorrect == Spec => []TypeOK
  <1>1. QED
    BY InitType, StepType, PTL DEF Spec

-----------------------------------------------------------------------------
(* The ledger.  What every insertion preserves is stated of a sequence L    *)
(* of rows and of the balance b it leaves, so that an operation that        *)
(* inserts two rows is two applications of one lemma.                       *)

Settles(row) == row.type \in {"RELEASE", "CONSUMPTION"}
Reserves(row) == row.type = "RESERVATION"

LedgerInv(L, b) ==
    /\ \A i, j \in DOMAIN L :
          Settles(L[i]) /\ Settles(L[j]) /\ L[i].ref = L[j].ref => i = j
    /\ \A i, j \in DOMAIN L :
          Reserves(L[i]) /\ Reserves(L[j]) /\ L[i].ref = L[j].ref => i = j
    /\ \A i, j \in DOMAIN L : L[i].key # None /\ L[i].key = L[j].key => i = j
    /\ \A i \in DOMAIN L : L[i].before = IF i = 1 THEN 0 ELSE L[i - 1].after
    /\ b = IF L = <<>> THEN 0 ELSE L[Len(L)].after
    /\ \A i \in DOMAIN L : Reserves(L[i]) => L[i].amount \in Nat

(* What the operation that inserts row has checked, or Postgres checks.     *)
Admits(L, b, row) ==
    /\ row.before = b
    /\ row.key # None => \A i \in DOMAIN L : L[i].key # row.key
    /\ Settles(row) => \A i \in DOMAIN L : Settles(L[i]) => L[i].ref # row.ref
    /\ Reserves(row) => /\ \A i \in DOMAIN L : L[i].ref # row.ref
                        /\ row.amount \in Nat

LEMMA AppendFacts ==
    ASSUME NEW L \in Seq(Row), NEW row \in Row
    PROVE  /\ Append(L, row) \in Seq(Row)
           /\ Len(L) \in Nat /\ DOMAIN L = 1..Len(L)
           /\ Len(Append(L, row)) = Len(L) + 1
           /\ DOMAIN Append(L, row) = 1..(Len(L) + 1)
           /\ \A i \in DOMAIN L : Append(L, row)[i] = L[i]
           /\ Append(L, row)[Len(L) + 1] = row
           /\ Append(L, row) # <<>>
           /\ L = <<>> <=> Len(L) = 0
  OBVIOUS

(* Inserting an admitted row keeps the invariant.                           *)
LEMMA InsertKeeps ==
    ASSUME NEW L \in Seq(Row), NEW b \in Int, NEW row \in Row,
           LedgerInv(L, b), Admits(L, b, row)
    PROVE  LedgerInv(Append(L, row), row.after)
  <1> DEFINE M == Append(L, row)
             n == Len(L) + 1
  <1>1. /\ Len(L) \in Nat /\ DOMAIN L = 1..Len(L) /\ DOMAIN M = 1..n /\ Len(M) = n
        /\ M # <<>> /\ M[n] = row
        /\ \A i \in DOMAIN L : M[i] = L[i]
        /\ L = <<>> <=> Len(L) = 0
    BY AppendFacts
  <1>2. \A i \in DOMAIN M : i \in DOMAIN L \/ i = n
    BY <1>1
  <1> HIDE DEF M
  <1>3. \A i, j \in DOMAIN M :
          Settles(M[i]) /\ Settles(M[j]) /\ M[i].ref = M[j].ref => i = j
    BY <1>1, <1>2 DEF LedgerInv, Admits
  <1>4. \A i, j \in DOMAIN M :
          Reserves(M[i]) /\ Reserves(M[j]) /\ M[i].ref = M[j].ref => i = j
    BY <1>1, <1>2 DEF LedgerInv, Admits
  <1>5. \A i, j \in DOMAIN M : M[i].key # None /\ M[i].key = M[j].key => i = j
    BY <1>1, <1>2 DEF LedgerInv, Admits
  <1>6. ASSUME NEW i \in DOMAIN M
        PROVE  M[i].before = IF i = 1 THEN 0 ELSE M[i - 1].after
    <2>1. CASE i = n
      <3>1. CASE Len(L) = 0
        BY <2>1, <3>1, <1>1 DEF LedgerInv, Admits
      <3>2. CASE Len(L) # 0
        <4>1. i - 1 = Len(L) /\ i - 1 \in DOMAIN L /\ i # 1
          BY <2>1, <3>2, <1>1
        <4>2. M[i - 1] = L[Len(L)] /\ b = L[Len(L)].after
          BY <4>1, <3>2, <1>1 DEF LedgerInv
        <4>3. QED
          BY <2>1, <4>1, <4>2, <1>1 DEF Admits
      <3>3. QED
        BY <3>1, <3>2
    <2>2. CASE i \in DOMAIN L
      <3>1. i = 1 \/ i - 1 \in DOMAIN L
        BY <2>2, <1>1
      <3>2. QED
        BY <2>2, <3>1, <1>1 DEF LedgerInv
    <2>3. QED
      BY <2>1, <2>2, <1>2
  <1>7. row.after = M[Len(M)].after
    BY <1>1
  <1>8. \A i \in DOMAIN M : Reserves(M[i]) => M[i].amount \in Nat
    BY <1>1, <1>2 DEF LedgerInv, Admits
  <1>9. QED
    BY <1>1, <1>3, <1>4, <1>5, <1>6, <1>7, <1>8 DEF LedgerInv, M

LInv == TypeOK /\ LedgerInv(ledger, balance.available)

LEMMA InitLedger == Init => LInv
  BY InitType DEF Init, LInv, LedgerInv

(* An operation that inserts one admitted row and leaves the balance at the *)
(* row's balanceAfter.                                                      *)
LEMMA InsertStep ==
    ASSUME LInv, NEW row \in Row, Admits(ledger, balance.available, row),
           ledger' = Append(ledger, row), balance'.available = row.after
    PROVE  LedgerInv(ledger, balance.available)'
  <1>1. ledger \in Seq(Row) /\ balance.available \in Int
    BY BalanceFields DEF LInv, TypeOK
  <1>2. LedgerInv(Append(ledger, row), row.after)
    BY <1>1, InsertKeeps DEF LInv
  <1>3. QED
    BY <1>2 DEF LedgerInv

(* An operation that writes neither the ledger nor the available balance.   *)
LEMMA QuietStep ==
    ASSUME LInv, ledger' = ledger, balance'.available = balance.available
    PROVE  LedgerInv(ledger, balance.available)'
  BY DEF LInv, LedgerInv

LEMMA RefundLedger ==
    ASSUME LInv, NEW a \in Nat, Refund(a)
    PROVE  LedgerInv(ledger, balance.available)'
  <1> DEFINE left == Monus(balance.available, a)
             row  == NewRow("REFUND", None, None, a, left)
  <1>1. TypeOK /\ ledger \in Seq(Row) /\ balance.available \in Int
    BY BalanceFields DEF LInv, TypeOK
  <1>2. left \in Int /\ a \in Int
    BY <1>1 DEF Monus
  <1>3. row \in Row
    BY <1>1, <1>2, NewRowType DEF RowTypes
  <1>4. Admits(ledger, balance.available, row)
    BY DEF Admits, NewRow, Settles, Reserves
  <1>5. ledger' = Append(ledger, row) /\ balance'.available = row.after
    BY <1>1 DEF Refund, NewRow, TypeOK, Balance
  <1> QED
    BY <1>3, <1>4, <1>5, InsertStep

LEMMA StepLedger == LInv /\ [Next]_vars => LedgerInv(ledger, balance.available)'
  <1> SUFFICES ASSUME LInv, [Next]_vars PROVE LedgerInv(ledger, balance.available)'
    OBVIOUS
  <1> USE NatParameters DEF NatParameters
  <1>0. TypeOK /\ ledger \in Seq(Row) /\ balance.available \in Int
    BY BalanceFields DEF LInv, TypeOK
  <1>1. CASE OpenBalance
    BY <1>0, <1>1, QuietStep DEF OpenBalance, TypeOK, Balance
  <1>2. ASSUME NEW c \in Calls, NEW r \in ReservationIds, ReserveCommit(c, r)
        PROVE  LedgerInv(ledger, balance.available)'
    <2> DEFINE row == NewRow("RESERVATION", r, calls[c].key, calls[c].amount, balance.available)
    <2>1. calls[c].amount \in Nat /\ calls[c].key \in Keys \cup {None}
      BY <1>0 DEF TypeOK, Call
    <2>2. row \in Row
      <3>1. "RESERVATION" \in RowTypes /\ r \in ReservationIds \cup {None}
        BY DEF RowTypes
      <3>2. calls[c].amount \in Int
        BY <2>1
      <3> QED
        BY <2>1, <3>1, <3>2, <1>0, NewRowType
    <2>3. Admits(ledger, balance.available, row)
      BY <1>2, <2>1 DEF ReserveCommit, ReserveAccepted, KeyUsed, FreshId, Admits, NewRow,
                        Settles, Reserves
    <2>4. ledger' = Append(ledger, row) /\ balance'.available = row.after
      BY <1>2, <1>0 DEF ReserveCommit, NewRow, TypeOK, Balance
    <2>5. QED
      BY <2>2, <2>3, <2>4, InsertStep
  <1>3. ASSUME NEW r \in ReservationIds, Release(r)
        PROVE  LedgerInv(ledger, balance.available)'
    <2> DEFINE row == NewRow("RELEASE", r, None, HoldOf(r), balance.available)
    <2>1. HoldOf(r) \in Int
      BY <1>3, <1>0, HoldType DEF Release
    <2>2. row \in Row
      BY <2>1, <1>0, NewRowType DEF RowTypes
    <2>3. Admits(ledger, balance.available, row)
      BY <1>3 DEF Release, Settled, IsSettlement, Admits, NewRow, Settles, Reserves
    <2>4. ledger' = Append(ledger, row) /\ balance'.available = row.after
      BY <1>3, <1>0 DEF Release, NewRow, TypeOK, Balance
    <2>5. QED
      BY <2>2, <2>3, <2>4, InsertStep
  <1>4. ASSUME NEW r \in ReservationIds, NEW a \in Amounts, Consume(r, a)
        PROVE  LedgerInv(ledger, balance.available)'
    <2> DEFINE left == balance.available - a
               row  == NewRow("CONSUMPTION", r, None, a, left)
    <2>1. left \in Int /\ a \in Int
      BY <1>0 DEF Amounts
    <2>2. row \in Row
      BY <2>1, <1>0, NewRowType DEF RowTypes
    <2>3. Admits(ledger, balance.available, row)
      BY <1>4 DEF Consume, ConsumeAccepted, Settled, IsSettlement, Admits, NewRow, Settles, Reserves
    <2>4. ledger' = Append(ledger, row) /\ balance'.available = row.after
      BY <1>4, <1>0 DEF Consume, NewRow, TypeOK, Balance
    <2>5. QED
      BY <2>2, <2>3, <2>4, InsertStep
  <1>5. ASSUME NEW c \in Calls, PurchaseCommit(c)
        PROVE  LedgerInv(ledger, balance.available)'
    <2> DEFINE k    == calls[c].key
               paid == NewRow("PURCHASE", None, k, PackageCredits,
                              balance.available + PackageCredits)
               free == [type |-> "BONUS", ref |-> None, key |-> None, amount |-> PackageBonus,
                        before |-> paid.after, after |-> paid.after + PackageBonus]
               sum  == balance.available + PackageCredits + PackageBonus
    <2>1. k \in Keys \cup {None}
      BY <1>0 DEF TypeOK, Call
    <2>2. paid \in Row /\ paid.after = balance.available + PackageCredits /\ paid.after \in Int
      <3>1. balance.available + PackageCredits \in Int /\ PackageCredits \in Int
        BY <1>0
      <3>2. paid \in Row
        BY <2>1, <3>1, <1>0, NewRowType DEF RowTypes
      <3>3. QED
        BY <3>1, <3>2 DEF NewRow
    <2>3. free \in Row /\ free.after = sum /\ free.before = paid.after
      <3> HIDE DEF paid
      <3> QED BY <2>2, <1>0 DEF Row, RowTypes
    <2>4. Admits(ledger, balance.available, paid)
      BY <1>5 DEF PurchaseCommit, PurchaseAccepted, KeyUsed, Admits, NewRow, Settles, Reserves
    <2>5. LedgerInv(Append(ledger, paid), paid.after)
      <3> HIDE DEF paid
      <3> QED BY <2>2, <2>4, <1>0, InsertKeeps DEF LInv
    <2>6. Admits(Append(ledger, paid), paid.after, free)
      BY DEF Admits, Settles, Reserves
    <2>7. LedgerInv(Append(Append(ledger, paid), free), sum)
      <3> HIDE DEF paid, free, sum
      <3> QED BY <2>2, <2>3, <2>5, <2>6, <1>0, InsertKeeps, AppendFacts
    <2>8. balance'.available = sum
      BY <1>5, <1>0 DEF PurchaseCommit, TypeOK, Balance
    <2>9. PurchaseRows(k) = IF PackageBonus > 0 THEN <<paid, free>> ELSE <<paid>>
      BY DEF PurchaseRows
    <2>10. ledger' = ledger \o PurchaseRows(k)
      BY <1>5 DEF PurchaseCommit
    <2>11. CASE PackageBonus > 0
      <3>1. ledger' = Append(Append(ledger, paid), free)
        <4> HIDE DEF paid, free
        <4> QED BY <2>2, <2>3, <2>9, <2>10, <2>11, <1>0
      <3>2. QED
        BY <2>7, <2>8, <3>1 DEF LedgerInv
    <2>12. CASE PackageBonus = 0
      <3>1. ledger' = Append(ledger, paid)
        <4> HIDE DEF paid, free
        <4> QED BY <2>2, <2>9, <2>10, <2>12, <1>0
      <3>2. paid.after = sum
        BY <2>2, <2>12, <1>0
      <3>3. QED
        BY <2>5, <2>8, <3>1, <3>2 DEF LedgerInv
    <2>13. QED
      BY <2>11, <2>12
  <1>6. ASSUME NEW on \in BOOLEAN, ConfigureAutoRefill(on)
        PROVE  LedgerInv(ledger, balance.available)'
    BY <1>0, <1>6, QuietStep DEF ConfigureAutoRefill, TypeOK, Balance
  <1>7. ASSUME NEW a \in Amounts, Refund(a)
        PROVE  LedgerInv(ledger, balance.available)'
    BY <1>7, RefundLedger DEF Amounts
  <1>8. ASSUME NEW a \in AdjustAmounts, Adjust(a)
        PROVE  LedgerInv(ledger, balance.available)'
    <2> DEFINE left == Monus(balance.available, -a)
               row  == NewRow("ADJUSTMENT", None, None, a, left)
    <2>1. left \in Int /\ a \in Int
      BY <1>0 DEF Monus
    <2>2. row \in Row
      BY <2>1, <1>0, NewRowType DEF RowTypes
    <2>3. Admits(ledger, balance.available, row)
      BY DEF Admits, NewRow, Settles, Reserves
    <2>4. ledger' = Append(ledger, row) /\ balance'.available = row.after
      BY <1>8, <1>0 DEF Adjust, NewRow, TypeOK, Balance
    <2>5. QED
      BY <2>2, <2>3, <2>4, InsertStep
  <1>9. CASE UNCHANGED <<balance, ledger>>
    BY <1>9, QuietStep
  <1>10. QED
    BY <1>1, <1>2, <1>3, <1>4, <1>5, <1>6, <1>7, <1>8, <1>9
       DEF Next, CallStart, CallStep, RowNext, SettleNext, CheckoutNext, vars, ReserveLookup,
           ReserveRefuse, ConsumeRollback, PurchaseFindBalance, PurchaseConflict, CheckoutPaid,
           CheckoutLookup, DirectCharge, RefillCharge, RefillDeclined, AbortCall, Restart

LEMMA LedgerAlways == Spec => []LInv
  <1>1. LInv /\ [Next]_vars => LInv'
    BY StepType, StepLedger DEF LInv
  <1>2. QED
    BY InitLedger, <1>1, PTL DEF Spec

(* However consume and release calls are repeated and interleaved, at most  *)
(* one of them settles a reservation.                                       *)
THEOREM SettlementUnique == Spec => []SettledOnce
  <1>1. LInv => SettledOnce
    BY DEF LInv, LedgerInv, SettledOnce, IsSettlement, Settles
  <1>2. QED
    BY <1>1, LedgerAlways, PTL

(* However often a purchase is delivered or a reservation retried, its key  *)
(* enters the ledger once.                                                  *)
THEOREM KeyUnique == Spec => []KeysUsedOnce
  <1>1. LInv => KeysUsedOnce
    BY DEF LInv, LedgerInv, KeysUsedOnce
  <1>2. QED
    BY <1>1, LedgerAlways, PTL

(* The rows of the ledger chain from zero to the balance there is: no       *)
(* operation works from a stale balance.                                    *)
THEOREM ChainUnbroken == Spec => []LedgerChains
  <1>1. LInv => LedgerChains
    BY DEF LInv, LedgerInv, LedgerChains
  <1>2. QED
    BY <1>1, LedgerAlways, PTL

-----------------------------------------------------------------------------
(* Totals: s is the sum of f, whose values are naturals, over the finite    *)
(* set S.                                                                   *)

Total(S, f, s) == IsFiniteSet(S) /\ (\A x \in S : f[x] \in Nat) /\ s = SumOver(f, S)

LEMMA TotalEmpty == ASSUME NEW f PROVE Total({}, f, 0)
  BY SumEmpty, FS_EmptySet DEF Total

LEMMA TotalNat == ASSUME NEW S, NEW f, NEW s, Total(S, f, s) PROVE s \in Nat
  BY SumNat DEF Total

(* The total depends on f only through its values on S.                     *)
LEMMA TotalSame ==
    ASSUME NEW S, NEW f, NEW h, NEW s, Total(S, f, s), \A x \in S : h[x] = f[x]
    PROVE  Total(S, h, s)
  BY SumSame DEF Total

LEMMA TotalAdd ==
    ASSUME NEW S, NEW f, NEW s, Total(S, f, s), NEW x, x \notin S, f[x] \in Nat
    PROVE  Total(S \cup {x}, f, s + f[x])
  <1>1. IsFiniteSet(S \cup {x})
    BY FS_AddElement DEF Total
  <1>2. SumOver(f, S \cup {x}) = f[x] + s /\ s \in Nat
    BY SumAdd, TotalNat DEF Total
  <1>3. QED
    BY <1>1, <1>2 DEF Total

(* Taking one element out takes its value off the total, which covers it.   *)
LEMMA TotalRemove ==
    ASSUME NEW S, NEW f, NEW s, Total(S, f, s), NEW x \in S
    PROVE  f[x] <= s /\ Total(S \ {x}, f, s - f[x])
  <1>1. PICK T : T = S \ {x}
    OBVIOUS
  <1>2. IsFiniteSet(T) /\ \A y \in T : f[y] \in Nat
    BY <1>1, FS_RemoveElement DEF Total
  <1>3. SumOver(f, T) \in Nat /\ f[x] \in Nat
    BY <1>2, SumNat DEF Total
  <1>4. s = f[x] + SumOver(f, T)
    BY <1>1, SumRemove DEF Total
  <1>5. QED
    BY <1>1, <1>2, <1>3, <1>4 DEF Total

-----------------------------------------------------------------------------
(* The outstanding reservations of a ledger L, and what they hold.          *)

Out(L) == {i \in DOMAIN L :
             Reserves(L[i]) /\ \A j \in DOMAIN L : Settles(L[j]) => L[j].ref # L[i].ref}
Amt(L) == [i \in DOMAIN L |-> L[i].amount]

Held(L, s) == Total(Out(L), Amt(L), s)

LEMMA OutOfLedger == Out(ledger) = Outstanding
  BY DEF Out, Outstanding, Settled, IsSettlement, Settles, Reserves

LEMMA AmtAppend ==
    ASSUME NEW L \in Seq(Row), NEW row \in Row
    PROVE  /\ \A i \in DOMAIN L : Amt(Append(L, row))[i] = Amt(L)[i]
           /\ Amt(Append(L, row))[Len(L) + 1] = row.amount
  <1> DEFINE M == Append(L, row)
  <1>1. /\ Len(L) \in Nat /\ DOMAIN L = 1..Len(L) /\ DOMAIN M = 1..(Len(L) + 1)
        /\ M[Len(L) + 1] = row /\ \A i \in DOMAIN L : M[i] = L[i]
    BY AppendFacts
  <1> HIDE DEF M
  <1>2. QED
    BY <1>1 DEF Amt, M

(* A row that neither reserves nor settles changes no hold.                 *)
LEMMA NeutralHolds ==
    ASSUME NEW L \in Seq(Row), NEW row \in Row, ~Reserves(row), ~Settles(row),
           NEW s, Held(L, s)
    PROVE  Held(Append(L, row), s)
  <1> DEFINE M == Append(L, row)
             n == Len(L) + 1
  <1>1. /\ Len(L) \in Nat /\ DOMAIN L = 1..Len(L) /\ DOMAIN M = 1..n
        /\ M[n] = row /\ \A i \in DOMAIN L : M[i] = L[i]
    BY AppendFacts
  <1>2. \A i \in DOMAIN M : i \in DOMAIN L \/ i = n
    BY <1>1
  <1>3. \A i \in DOMAIN L : i \in DOMAIN M
    BY <1>1
  <1>4. Out(M) = Out(L)
    <2> HIDE DEF M, n
    <2> QED BY <1>1, <1>2, <1>3 DEF Out
  <1>5. \A i \in Out(L) : Amt(M)[i] = Amt(L)[i]
    BY AmtAppend DEF Out
  <1>6. QED
    <2> HIDE DEF M
    <2> QED BY <1>4, <1>5, TotalSame DEF Held, M

(* A reservation under a fresh id adds its amount.                          *)
LEMMA ReserveHolds ==
    ASSUME NEW L \in Seq(Row), NEW row \in Row, Reserves(row), row.amount \in Nat,
           \A i \in DOMAIN L : L[i].ref # row.ref,
           NEW s, Held(L, s)
    PROVE  Held(Append(L, row), s + row.amount)
  <1> DEFINE M == Append(L, row)
             n == Len(L) + 1
  <1>1. /\ Len(L) \in Nat /\ DOMAIN L = 1..Len(L) /\ DOMAIN M = 1..n
        /\ M[n] = row /\ \A i \in DOMAIN L : M[i] = L[i]
    BY AppendFacts
  <1>2. /\ \A i \in DOMAIN M : i \in DOMAIN L \/ i = n
        /\ \A i \in DOMAIN L : i \in DOMAIN M
        /\ n \in DOMAIN M /\ n \notin DOMAIN L
    BY <1>1
  <1>3. ~Settles(row)
    BY DEF Settles, Reserves
  <1>4. Out(M) = Out(L) \cup {n} /\ n \notin Out(L)
    <2> HIDE DEF M, n
    <2> QED BY <1>1, <1>2, <1>3 DEF Out
  <1>5. \A i \in Out(L) : Amt(M)[i] = Amt(L)[i]
    BY AmtAppend DEF Out
  <1>6. Amt(M)[n] = row.amount
    BY AmtAppend
  <1>7. Total(Out(L), Amt(M), s)
    <2> HIDE DEF M
    <2> QED BY <1>5, TotalSame DEF Held
  <1>8. Total(Out(L) \cup {n}, Amt(M), s + row.amount)
    <2> HIDE DEF M, n
    <2> QED BY <1>4, <1>6, <1>7, TotalAdd
  <1>9. QED
    BY <1>4, <1>8 DEF Held

(* The row that settles an outstanding reservation h takes its amount off.  *)
LEMMA SettleHolds ==
    ASSUME NEW L \in Seq(Row), NEW row \in Row, Settles(row),
           NEW h \in Out(L), L[h].ref = row.ref,
           \A i, j \in DOMAIN L : Reserves(L[i]) /\ Reserves(L[j]) /\ L[i].ref = L[j].ref => i = j,
           \A i \in DOMAIN L : Reserves(L[i]) => L[i].amount \in Nat,
           NEW s, Held(L, s)
    PROVE  /\ L[h].amount <= s
           /\ Held(Append(L, row), s - L[h].amount)
  <1> DEFINE M == Append(L, row)
             n == Len(L) + 1
  <1>1. /\ Len(L) \in Nat /\ DOMAIN L = 1..Len(L) /\ DOMAIN M = 1..n
        /\ M[n] = row /\ \A i \in DOMAIN L : M[i] = L[i]
    BY AppendFacts
  <1>2. /\ \A i \in DOMAIN M : i \in DOMAIN L \/ i = n
        /\ \A i \in DOMAIN L : i \in DOMAIN M
        /\ n \in DOMAIN M /\ n \notin DOMAIN L
    BY <1>1
  <1>3. ~Reserves(row)
    BY DEF Settles, Reserves
  <1>4. Out(M) = Out(L) \ {h}
    <2> HIDE DEF M, n
    <2>1. ASSUME NEW i \in Out(M) PROVE i \in Out(L) \ {h}
      BY <1>1, <1>2, <1>3 DEF Out
    <2>2. ASSUME NEW i \in Out(L) \ {h} PROVE i \in Out(M)
      <3>1. i \in DOMAIN L /\ h \in DOMAIN L /\ Reserves(L[i]) /\ Reserves(L[h]) /\ i # h
        BY DEF Out
      <3>2. L[i].ref # row.ref
        BY <3>1
      <3>3. \A j \in DOMAIN M : Settles(M[j]) => M[j].ref # M[i].ref
        BY <3>1, <3>2, <1>1, <1>2 DEF Out
      <3>4. QED
        BY <3>1, <3>3, <1>1, <1>2 DEF Out
    <2>3. QED
      BY <2>1, <2>2
  <1>5. \A i \in Out(L) : Amt(M)[i] = Amt(L)[i] /\ Amt(L)[i] = L[i].amount /\ L[i].amount \in Nat
    BY AmtAppend DEF Out, Amt
  <1>6. Total(Out(L), Amt(M), s) /\ \A i \in Out(L) : Amt(M)[i] \in Nat
    <2> HIDE DEF M
    <2> QED BY <1>5, TotalSame DEF Held
  <1>7. Amt(M)[h] <= s /\ Total(Out(L) \ {h}, Amt(M), s - Amt(M)[h])
    <2> HIDE DEF M
    <2> QED BY <1>6, TotalRemove
  <1>8. QED
    BY <1>4, <1>5, <1>7 DEF Held

-----------------------------------------------------------------------------
(* NoOverdraft is not inductive: it needs that what a settlement takes off  *)
(* the reserved amount is what the reservation added, which needs that the  *)
(* reserved amount is the total of the outstanding reservations.            *)

Covered == Callers # "any" => Held(ledger, balance.reserved)

HInv == LInv /\ Covered /\ NoOverdraft

LEMMA InitHolds == Init => HInv
  <1> SUFFICES ASSUME Init PROVE HInv
    OBVIOUS
  <1>1. LInv
    BY InitLedger
  <1>2. Out(ledger) = {} /\ balance.reserved = 0 /\ balance.available = 0
    BY DEF Init, Out
  <1>3. Held(ledger, balance.reserved)
    <2>1. \A f : Total({}, f, 0)
      BY TotalEmpty
    <2>2. QED
      BY <1>2, <2>1 DEF Held
  <1>4. QED
    BY <1>1, <1>2, <1>3 DEF HInv, Covered, NoOverdraft

(* Deductions stay in the ledger.                                           *)
LEMMA DeductionsStay ==
    ASSUME \A i \in DOMAIN ledger : i \in DOMAIN ledger' /\ ledger'[i] = ledger[i],
           NoDeduction'
    PROVE  NoDeduction
  BY DEF NoDeduction

(* One row r inserted into the ledger, and whether it is a deduction.       *)
LEMMA DeductionAppend ==
    ASSUME ledger \in Seq(Row), NEW row \in Row, ledger' = Append(ledger, row), NoDeduction'
    PROVE  /\ NoDeduction
           /\ row.type # "REFUND"
           /\ row.type = "ADJUSTMENT" => row.amount >= 0
  <1>1. /\ \A i \in DOMAIN ledger : i \in DOMAIN ledger' /\ ledger'[i] = ledger[i]
        /\ Len(ledger) + 1 \in DOMAIN ledger' /\ ledger'[Len(ledger) + 1] = row
    BY AppendFacts
  <1>2. NoDeduction
    BY <1>1, DeductionsStay
  <1>3. QED
    BY <1>1, <1>2 DEF NoDeduction

(* Held, of the next state's ledger and balance.                            *)
LEMMA HeldNext ==
    ASSUME NEW L, NEW s, L = ledger', s = balance'.reserved, Held(L, s)
    PROVE  Held(ledger, balance.reserved)'
  <1>1. Out(ledger)' = Out(L) /\ Amt(ledger)' = Amt(L)
    BY DEF Out, Amt, Reserves, Settles
  <1>2. Total(Out(L), Amt(L), s)
    BY DEF Held
  <1>3. QED
    BY <1>1, <1>2 DEF Held, Total

(* Release and consume: the reservation r is settled by row.                *)
LEMMA SettleStep ==
    ASSUME HInv, Callers # "any", NEW r \in ReservationIds, Reserved(r), ~Settled(r),
           NEW row \in Row, Settles(row), row.ref = r, ledger' = Append(ledger, row),
           balance'.reserved = Monus(balance.reserved, HoldOf(r))
    PROVE  /\ HoldOf(r) \in Nat
           /\ balance'.reserved = balance.reserved - HoldOf(r)
           /\ Held(ledger, balance.reserved)'
  <1> DEFINE h == HoldRow(r)
  <1>1. ledger \in Seq(Row) /\ balance.reserved \in Nat /\ Held(ledger, balance.reserved)
    BY BalanceFields DEF HInv, LInv, TypeOK, Covered
  <1>2. h \in DOMAIN ledger /\ IsReservation(h, r)
    BY HoldType DEF HInv, LInv
  <1>3. h \in Out(ledger) /\ ledger[h].ref = row.ref
    BY <1>2 DEF Out, IsReservation, Settled, IsSettlement, Reserves, Settles
  <1>4. ledger[h].amount \in Nat /\ HoldOf(r) = ledger[h].amount
    BY <1>2 DEF HInv, LInv, LedgerInv, IsReservation, Reserves, HoldOf
  <1>5. /\ ledger[h].amount <= balance.reserved
        /\ Held(Append(ledger, row), balance.reserved - ledger[h].amount)
    <2>1. /\ \A i, j \in DOMAIN ledger : Reserves(ledger[i]) /\ Reserves(ledger[j])
                 /\ ledger[i].ref = ledger[j].ref => i = j
          /\ \A i \in DOMAIN ledger : Reserves(ledger[i]) => ledger[i].amount \in Nat
      BY DEF HInv, LInv, LedgerInv
    <2> HIDE DEF h
    <2>2. QED
      BY <1>1, <1>3, <2>1, SettleHolds
  <1>6. balance'.reserved = balance.reserved - HoldOf(r)
    <2>1. HoldOf(r) \in Nat /\ HoldOf(r) <= balance.reserved
      <3> HIDE DEF h
      <3> QED BY <1>4, <1>5
    <2>2. QED
      BY <1>1, <2>1 DEF Monus
  <1>7. QED
    BY <1>4, <1>5, <1>6, HeldNext

(* A row that concerns no reservation, and adds funds or is a deduction.    *)
LEMMA NeutralStep ==
    ASSUME HInv, Callers # "any", NEW row \in Row, ~Reserves(row), ~Settles(row),
           ledger' = Append(ledger, row), balance'.reserved = balance.reserved
    PROVE  Held(ledger, balance.reserved)'
  <1>1. ledger \in Seq(Row) /\ Held(ledger, balance.reserved)
    BY DEF HInv, LInv, TypeOK, Covered
  <1>2. Held(Append(ledger, row), balance.reserved)
    BY <1>1, NeutralHolds
  <1>3. QED
    BY <1>2, HeldNext

(* A step that writes neither the ledger nor the amounts of the balance.    *)
LEMMA QuietHolds ==
    ASSUME HInv, ledger' = ledger, balance'.available = balance.available,
           balance'.reserved = balance.reserved
    PROVE  Covered' /\ NoOverdraft'
  <1>1. Covered'
    BY HeldNext DEF HInv, Covered
  <1>2. NoOverdraft'
    BY DEF HInv, NoOverdraft, NoDeduction
  <1>3. QED
    BY <1>1, <1>2

LEMMA RefundHolds ==
    ASSUME HInv, Callers # "any", NEW a \in Nat, Refund(a)
    PROVE  Covered' /\ NoOverdraft'
  <1> DEFINE left == Monus(balance.available, a)
             row  == NewRow("REFUND", None, None, a, left)
  <1>0. TypeOK /\ ledger \in Seq(Row) /\ balance.available \in Int
    BY BalanceFields DEF HInv, LInv, TypeOK
  <1>1. left \in Int /\ a \in Int
    BY <1>0 DEF Monus
  <1>2. row \in Row
    BY <1>0, <1>1, NewRowType DEF RowTypes
  <1>3. /\ row.type = "REFUND" /\ ~Reserves(row) /\ ~Settles(row)
        /\ ledger' = Append(ledger, row)
    BY DEF Refund, NewRow, Reserves, Settles
  <1>4. balance'.reserved = balance.reserved
    BY <1>0 DEF Refund, TypeOK, Balance
  <1>5. Held(ledger, balance.reserved)'
    <2> HIDE DEF row
    <2> QED BY <1>2, <1>3, <1>4, NeutralStep
  <1>6. ~NoDeduction'
    <2> HIDE DEF row
    <2> QED BY <1>0, <1>2, <1>3, DeductionAppend
  <1> QED
    BY <1>5, <1>6 DEF Covered, NoOverdraft

LEMMA StepHolds == HInv /\ [Next]_vars => Covered' /\ NoOverdraft'
  <1> SUFFICES ASSUME HInv, [Next]_vars, Callers # "any" PROVE Covered' /\ NoOverdraft'
    BY DEF Covered, NoOverdraft
  <1> USE NatParameters DEF NatParameters
  <1>0. /\ TypeOK /\ ledger \in Seq(Row) /\ balance.available \in Int /\ balance.reserved \in Nat
        /\ Held(ledger, balance.reserved)
    BY BalanceFields DEF HInv, LInv, TypeOK, Covered
  <1>1. CASE OpenBalance
    BY <1>0, <1>1, QuietHolds DEF OpenBalance, TypeOK, Balance
  <1>2. ASSUME NEW c \in Calls, NEW r \in ReservationIds, ReserveCommit(c, r)
        PROVE  Covered' /\ NoOverdraft'
    <2> DEFINE a   == calls[c].amount
               row == NewRow("RESERVATION", r, calls[c].key, a, balance.available)
               sum == balance.reserved + a
    <2>1. a \in Nat /\ calls[c].key \in Keys \cup {None}
      BY <1>0 DEF TypeOK, Call
    <2>2. row \in Row
      BY <2>1, <1>0, NewRowType DEF RowTypes
    <2>3. row.amount = a /\ row.ref = r /\ Reserves(row) /\ ledger' = Append(ledger, row)
      BY <1>2 DEF NewRow, ReserveCommit, Reserves
    <2>4. \A i \in DOMAIN ledger : ledger[i].ref # r
      BY <1>2 DEF ReserveCommit, FreshId
    <2>5. balance'.reserved = sum /\ balance'.available = balance.available
      BY <1>2, <1>0 DEF ReserveCommit, TypeOK, Balance
    <2>6. sum <= balance.available
      BY <1>2, <1>0, <2>1 DEF ReserveCommit, ReserveAccepted, Effective
    <2>7. Held(Append(ledger, row), sum)
      <3> HIDE DEF row, a
      <3> QED BY <1>0, <2>1, <2>2, <2>3, <2>4, ReserveHolds, SMTT(30)
    <2>8. Held(ledger, balance.reserved)'
      <3> HIDE DEF row, sum
      <3> QED BY <2>3, <2>5, <2>7, HeldNext
    <2>9. QED
      BY <2>5, <2>6, <2>8 DEF Covered, NoOverdraft
  <1>3. ASSUME NEW r \in ReservationIds, Release(r)
        PROVE  Covered' /\ NoOverdraft'
    <2> DEFINE row == NewRow("RELEASE", r, None, HoldOf(r), balance.available)
    <2>1. HoldOf(r) \in Int
      BY <1>3, <1>0, HoldType DEF Release
    <2>2. row \in Row
      BY <2>1, <1>0, NewRowType DEF RowTypes
    <2>3. /\ Reserved(r) /\ ~Settled(r) /\ Settles(row) /\ row.ref = r
          /\ ledger' = Append(ledger, row)
      BY <1>3 DEF Release, NewRow, Settles
    <2>4. /\ balance'.reserved = Monus(balance.reserved, HoldOf(r))
          /\ balance'.available = balance.available
      BY <1>3, <1>0 DEF Release, TypeOK, Balance
    <2>5. /\ HoldOf(r) \in Nat
          /\ balance'.reserved = balance.reserved - HoldOf(r)
          /\ Held(ledger, balance.reserved)'
      <3> HIDE DEF row
      <3> QED BY <2>2, <2>3, <2>4, SettleStep
    <2>6. NoDeduction' => NoDeduction
      <3> HIDE DEF row
      <3> QED BY <1>0, <2>2, <2>3, DeductionAppend
    <2>7. NoOverdraft'
      BY <1>0, <2>4, <2>5, <2>6 DEF NoOverdraft, HInv
    <2>8. QED
      BY <2>5, <2>7 DEF Covered
  <1>4. ASSUME NEW r \in ReservationIds, NEW a \in Amounts, Consume(r, a)
        PROVE  Covered' /\ NoOverdraft'
    <2> DEFINE left == balance.available - a
               row  == NewRow("CONSUMPTION", r, None, a, left)
    <2>1. left \in Int /\ a \in Int
      BY <1>0 DEF Amounts
    <2>2. row \in Row
      BY <2>1, <1>0, NewRowType DEF RowTypes
    <2>3. /\ Reserved(r) /\ ~Settled(r) /\ Settles(row) /\ row.ref = r
          /\ ledger' = Append(ledger, row)
      BY <1>4 DEF Consume, ConsumeAccepted, CallerConsumes, NewRow, Settles
    <2>4. /\ balance'.reserved = Monus(balance.reserved, HoldOf(r))
          /\ balance'.available = left
      BY <1>4, <1>0, <2>3 DEF Consume, AmountHeld, TypeOK, Balance
    <2>5. /\ HoldOf(r) \in Nat
          /\ balance'.reserved = balance.reserved - HoldOf(r)
          /\ Held(ledger, balance.reserved)'
      <3> HIDE DEF row
      <3> QED BY <2>2, <2>3, <2>4, SettleStep
    <2>6. NoDeduction' => NoDeduction
      <3> HIDE DEF row
      <3> QED BY <1>0, <2>2, <2>3, DeductionAppend
    <2>7. Callers = "bounded" => a <= HoldOf(r)
      BY <1>4 DEF Consume, ConsumeAccepted, CallerConsumes
    <2>8. NoOverdraft'
      BY <1>0, <2>1, <2>4, <2>5, <2>6, <2>7 DEF NoOverdraft, HInv
    <2>9. QED
      BY <2>5, <2>8 DEF Covered
  <1>5. ASSUME NEW c \in Calls, PurchaseCommit(c)
        PROVE  Covered' /\ NoOverdraft'
    <2> DEFINE k    == calls[c].key
               paid == NewRow("PURCHASE", None, k, PackageCredits,
                              balance.available + PackageCredits)
               free == [type |-> "BONUS", ref |-> None, key |-> None, amount |-> PackageBonus,
                        before |-> paid.after, after |-> paid.after + PackageBonus]
               sum  == balance.available + PackageCredits + PackageBonus
    <2>1. k \in Keys \cup {None} /\ balance.available + PackageCredits \in Int /\ PackageCredits \in Int
      BY <1>0 DEF TypeOK, Call
    <2>2. paid \in Row /\ ~Reserves(paid) /\ ~Settles(paid) /\ paid.after \in Int
      <3>1. paid \in Row
        BY <2>1, <1>0, NewRowType DEF RowTypes
      <3>2. QED
        BY <2>1, <3>1 DEF NewRow, Reserves, Settles
    <2>3. free \in Row /\ ~Reserves(free) /\ ~Settles(free)
      <3> HIDE DEF paid
      <3> QED BY <2>2, <1>0 DEF Row, RowTypes, Reserves, Settles
    <2>4. balance'.available = sum /\ balance'.reserved = balance.reserved
      BY <1>5, <1>0 DEF PurchaseCommit, TypeOK, Balance
    <2>5. Append(ledger, paid) \in Seq(Row) /\ Held(Append(ledger, paid), balance.reserved)
      <3> HIDE DEF paid
      <3> QED BY <1>0, <2>2, NeutralHolds, AppendFacts
    <2>6. Held(Append(Append(ledger, paid), free), balance.reserved)
      <3> HIDE DEF paid, free
      <3> QED BY <2>3, <2>5, NeutralHolds
    <2>7. ledger' = Append(ledger, paid) \/ ledger' = Append(Append(ledger, paid), free)
      <3>1. ledger' = ledger \o (IF PackageBonus > 0 THEN <<paid, free>> ELSE <<paid>>)
        BY <1>5 DEF PurchaseCommit, PurchaseRows
      <3> HIDE DEF paid, free
      <3>2. CASE PackageBonus > 0
        BY <1>0, <2>2, <2>3, <3>1, <3>2
      <3>3. CASE ~(PackageBonus > 0)
        BY <1>0, <2>2, <3>1, <3>3
      <3>4. QED
        BY <3>2, <3>3
    <2>8. Held(ledger, balance.reserved)'
      <3> HIDE DEF paid, free
      <3> QED BY <2>4, <2>5, <2>6, <2>7, HeldNext
    <2>9. \A i \in DOMAIN ledger : i \in DOMAIN ledger' /\ ledger'[i] = ledger[i]
      <3> HIDE DEF paid, free
      <3>1. \A i \in DOMAIN ledger : /\ i \in DOMAIN Append(ledger, paid)
                                     /\ Append(ledger, paid)[i] = ledger[i]
        BY <1>0, <2>2, AppendFacts
      <3>2. \A i \in DOMAIN Append(ledger, paid) :
               /\ i \in DOMAIN Append(Append(ledger, paid), free)
               /\ Append(Append(ledger, paid), free)[i] = Append(ledger, paid)[i]
        BY <2>3, <2>5, AppendFacts
      <3>3. QED
        BY <2>7, <3>1, <3>2
    <2>10. NoOverdraft'
      BY <1>0, <2>4, <2>9, DeductionsStay DEF NoOverdraft, HInv
    <2>11. QED
      BY <2>8, <2>10 DEF Covered
  <1>6. ASSUME NEW on \in BOOLEAN, ConfigureAutoRefill(on)
        PROVE  Covered' /\ NoOverdraft'
    BY <1>0, <1>6, QuietHolds DEF ConfigureAutoRefill, TypeOK, Balance
  <1>7. ASSUME NEW a \in Amounts, Refund(a)
        PROVE  Covered' /\ NoOverdraft'
    BY <1>7, RefundHolds DEF Amounts
  <1>8. ASSUME NEW a \in AdjustAmounts, Adjust(a)
        PROVE  Covered' /\ NoOverdraft'
    <2> DEFINE left == Monus(balance.available, -a)
               row  == NewRow("ADJUSTMENT", None, None, a, left)
    <2>1. left \in Int /\ a \in Int
      BY <1>0 DEF Monus
    <2>2. row \in Row
      BY <2>1, <1>0, NewRowType DEF RowTypes
    <2>3. /\ row.type = "ADJUSTMENT" /\ row.amount = a /\ ~Reserves(row) /\ ~Settles(row)
          /\ ledger' = Append(ledger, row)
      BY <1>8 DEF Adjust, NewRow, Reserves, Settles
    <2>4. balance'.reserved = balance.reserved /\ balance'.available = left
      BY <1>8, <1>0 DEF Adjust, TypeOK, Balance
    <2>5. Held(ledger, balance.reserved)'
      <3> HIDE DEF row, left
      <3> QED BY <2>2, <2>3, <2>4, NeutralStep
    <2>6. NoDeduction' => NoDeduction /\ a >= 0
      <3> HIDE DEF row, left
      <3> QED BY <1>0, <2>2, <2>3, DeductionAppend
    <2>7. a >= 0 => balance.available <= left
      BY <1>0, <2>1 DEF Monus
    <2>8. NoOverdraft'
      <3> HIDE DEF left
      <3> QED BY <1>0, <2>1, <2>4, <2>6, <2>7 DEF NoOverdraft, HInv
    <2>9. QED
      BY <2>5, <2>8 DEF Covered
  <1>9. CASE UNCHANGED <<balance, ledger>>
    BY <1>9, QuietHolds
  <1>10. QED
    BY <1>1, <1>2, <1>3, <1>4, <1>5, <1>6, <1>7, <1>8, <1>9
       DEF Next, CallStart, CallStep, RowNext, SettleNext, CheckoutNext, vars, ReserveLookup,
           ReserveRefuse, ConsumeRollback, PurchaseFindBalance, PurchaseConflict, CheckoutPaid,
           CheckoutLookup, DirectCharge, RefillCharge, RefillDeclined, AbortCall, Restart

LEMMA HoldsAlways == Spec => []HInv
  <1>1. HInv /\ [Next]_vars => HInv'
    BY StepType, StepLedger, StepHolds DEF HInv, LInv
  <1>2. QED
    BY InitHolds, <1>1, PTL DEF Spec

(* With callers that keep to the amount they reserved, and no refund or     *)
(* negative adjustment, every open reservation is covered by the balance,   *)
(* for any number of calls, keys, reservations and amounts.                 *)
THEOREM OverdraftPrevented == Spec => []NoOverdraft
  <1>1. HInv => NoOverdraft
    BY DEF HInv
  <1>2. QED
    BY <1>1, HoldsAlways, PTL

(* The reserved amount is the total of the outstanding reservations, if     *)
(* callers consume only what they reserved under the id they got.           *)
THEOREM ReservedIsTotal ==
    Spec => [](Callers # "any" => Total(Outstanding, Amt(ledger), balance.reserved))
  <1>1. HInv => (Callers # "any" => Total(Outstanding, Amt(ledger), balance.reserved))
    BY OutOfLedger DEF HInv, Covered, Held
  <1>2. QED
    BY <1>1, HoldsAlways, PTL

\* A total of the amounts is the sum that CreditAccount writes.
LEMMA TotalOfRows ==
    ASSUME TypeOK, NEW s, Total(Outstanding, Amt(ledger), s)
    PROVE  s = MapThenSumSet(LAMBDA i : ledger[i].amount, Outstanding)
  <1>1. PICK U : U = Outstanding
    OBVIOUS
  <1>2. PICK w : w = Amt(ledger)
    OBVIOUS
  <1>3. IsFiniteSet(U) /\ s = SumOver(w, U) /\ \A i \in U : w[i] = ledger[i].amount
    BY <1>1, <1>2 DEF Total, Outstanding, Amt
  <1> DEFINE Solves(g) ==
                g = [t \in SUBSET U |-> IF t = {} THEN 0
                                        ELSE ledger[AnyOf(t)].amount + g[t \ {AnyOf(t)}]]
  <1>4. PICK c : c = CHOOSE g : Solves(g)
    OBVIOUS
  <1>5. \A g : SumsTo(g, w, U) <=> Solves(g)
    BY <1>3, AnyOfIn DEF SumsTo
  <1>6. SumsTo(c, w, U)
    <2> HIDE DEF Solves
    <2> QED BY <1>3, <1>4, <1>5, SumsExist
  <1>7. MapThenSumSet(LAMBDA i : ledger[i].amount, U) = c[U]
    BY <1>4 DEF MapThenSumSet, MapThenFoldSet, AnyOf
  <1>8. QED
    BY <1>1, <1>3, <1>6, <1>7, SumIsSolution

(* The running total of the balance row is what the reservations that are   *)
(* still open hold.                                                         *)
THEOREM ReservedKept == Spec => []ReservedIsOutstanding
  <1>1. TypeOK /\ (Callers # "any" => Total(Outstanding, Amt(ledger), balance.reserved))
           => ReservedIsOutstanding
    BY TotalOfRows DEF ReservedIsOutstanding
  <1>2. QED
    BY <1>1, TypeCorrect, ReservedIsTotal, PTL

-----------------------------------------------------------------------------
(* Stripe's events: deliveries that repeat and overlap, a Map that forgets  *)
(* and refunds of any amount on top of the ledger.                          *)

(* A handler that works on a refund works on one that Stripe has made.      *)
RefundsFit ==
    /\ refunds \in Seq(Nat)
    /\ \A c \in Calls : Running(c, "refund") => handling[c].event.n \in DOMAIN refunds

Deliveries == [event : Events \cup {None}, stage : {"none", "run", "done"}]

WebhookInv == HInv /\ handling \in [Calls -> Deliveries] /\ RefundsFit

LEMMA WebhookStart == WebhookInit => WebhookInv
  <1> SUFFICES ASSUME WebhookInit PROVE WebhookInv
    OBVIOUS
  <1>1. NoEvent \in Deliveries /\ NoEvent.stage = "none"
    BY DEF NoEvent, Deliveries
  <1> QED
    BY <1>1, InitHolds DEF WebhookInit, WebhookInv, RefundsFit, Running

(* What a step of the webhook does to the ledger.                           *)
LEMMA WebhookShape ==
    ASSUME WebhookInv, [WebhookNext]_allVars
    PROVE  [Next]_vars \/ \E a \in Nat : Refund(a)
  <1>1. ASSUME NEW c \in Calls, RefundStep(c)
        PROVE  [Next]_vars \/ \E a \in Nat : Refund(a)
    <2>1. AmountRefunded(handling[c].event) \in Nat
      BY <1>1 DEF RefundStep, AmountRefunded, WebhookInv, RefundsFit
    <2> QED
      BY <1>1, <2>1 DEF RefundStep
  <1>2. ASSUME NEW c \in Calls, NEW e \in Events, Receive(c, e)
        PROVE  [Next]_vars
    <2>1. CASE UNCHANGED vars
      BY <2>1
    <2>2. CASE e.kind = "checkout" /\ CheckoutLookup(c, e.key)
      <3>1. e.key \in CheckoutKeys
        BY <2>2 DEF Events, CheckoutEvents, RefundEvents
      <3> QED
        BY <2>2, <3>1 DEF Next, CheckoutNext
    <2> QED
      BY <1>2, <2>1, <2>2 DEF Receive
  <1>3. ASSUME NEW c \in Calls, CheckoutStep(c) \/ PortalStep(c) \/ PortalStart(c)
        PROVE  [Next]_vars
    BY <1>3 DEF CheckoutStep, PortalStep, PortalStart, CallStep, Next
  <1>4. ASSUME NEW c \in Calls, Acknowledge(c) \/ HandlerFails(c)
        PROVE  [Next]_vars
    BY <1>4 DEF Acknowledge, HandlerFails, Next
  <1>5. CASE (RowNext \/ \E k \in CheckoutKeys : CheckoutPaid(k)) /\ UNCHANGED webhookVars
    BY <1>5 DEF Next, CheckoutNext
  <1>6. CASE (\E a \in Amounts : StripeRefunds(a)) \/ ProcessRestart \/ UNCHANGED allVars
    BY <1>6 DEF StripeRefunds, ProcessRestart, Next, allVars
  <1> QED
    BY <1>1, <1>2, <1>3, <1>4, <1>5, <1>6 DEF WebhookNext

LEMMA DeliveryKept ==
    ASSUME WebhookInv, NEW c \in Calls, NEW d \in Deliveries,
           handling' = [handling EXCEPT ![c] = d], refunds' = refunds,
           d.stage = "run" /\ d.event.kind = "refund" => d.event.n \in DOMAIN refunds
    PROVE  handling' \in [Calls -> Deliveries] /\ RefundsFit'
  BY DEF WebhookInv, RefundsFit, Running

LEMMA WebhookSide ==
    ASSUME WebhookInv, [WebhookNext]_allVars
    PROVE  handling' \in [Calls -> Deliveries] /\ RefundsFit'
  <1> USE DEF WebhookInv
  <1>1. NoEvent \in Deliveries /\ NoEvent.stage = "none"
    BY DEF NoEvent, Deliveries
  <1>2. CASE UNCHANGED <<handling, refunds>>
    BY <1>2 DEF RefundsFit, Running
  <1>3. ASSUME NEW a \in Amounts, StripeRefunds(a)
        PROVE  handling' \in [Calls -> Deliveries] /\ RefundsFit'
    <2>1. RefundedAtStripe + a \in Nat
      <3>1. CASE refunds = <<>>
        BY <3>1 DEF RefundedAtStripe, Amounts
      <3>2. CASE refunds # <<>>
        <4>1. refunds[Len(refunds)] \in Nat
          BY <3>2 DEF RefundsFit
        <4> QED
          BY <3>2, <4>1 DEF RefundedAtStripe, Amounts
      <3> QED
        BY <3>1, <3>2
    <2>2. refunds' \in Seq(Nat) /\ DOMAIN refunds \subseteq DOMAIN refunds'
      BY <1>3, <2>1 DEF StripeRefunds, RefundsFit
    <2> QED
      BY <1>3, <2>2 DEF StripeRefunds, RefundsFit, Running
  <1>4. ASSUME NEW c \in Calls, NEW e \in Events, Receive(c, e)
        PROVE  handling' \in [Calls -> Deliveries] /\ RefundsFit'
    <2>1. PICK d : d = [event |-> e, stage |-> "done"]
      OBVIOUS
    <2>2. PICK b : b = [event |-> e, stage |-> "run"]
      OBVIOUS
    <2>3. d \in Deliveries /\ b \in Deliveries /\ d.stage = "done" /\ b.event = e
      BY <2>1, <2>2 DEF Deliveries
    <2>4. /\ refunds' = refunds
          /\ \/ handling' = [handling EXCEPT ![c] = d]
             \/ handling' = [handling EXCEPT ![c] = b]
      BY <1>4, <2>1, <2>2 DEF Receive
    <2>5. e.kind = "refund" => e.n \in DOMAIN refunds
      <3> SUFFICES ASSUME e.kind = "refund" PROVE e.n \in DOMAIN refunds
        OBVIOUS
      <3>1. e.n \in 1..MaxRefundEvents /\ e.n <= Len(refunds)
        BY <1>4 DEF Receive, Sent, Events, CheckoutEvents, RefundEvents
      <3> QED
        BY <3>1, WebhookBounds DEF RefundsFit, WebhookBounds
    <2>6. /\ d.stage = "run" /\ d.event.kind = "refund" => d.event.n \in DOMAIN refunds
          /\ b.stage = "run" /\ b.event.kind = "refund" => b.event.n \in DOMAIN refunds
      BY <2>3, <2>5
    <2> QED
      BY <2>3, <2>4, <2>6, DeliveryKept
  <1>5. ASSUME NEW c \in Calls, Returns(c), refunds' = refunds
        PROVE  handling' \in [Calls -> Deliveries] /\ RefundsFit'
    <2>1. PICK d : d = [handling[c] EXCEPT !.stage = "done"]
      OBVIOUS
    <2>2. d \in Deliveries /\ d.stage = "done"
      BY <2>1 DEF Deliveries
    <2> QED
      BY <1>5, <2>1, <2>2, DeliveryKept DEF Returns
  <1>6. ASSUME NEW c \in Calls, handling' = [handling EXCEPT ![c] = NoEvent], refunds' = refunds
        PROVE  handling' \in [Calls -> Deliveries] /\ RefundsFit'
    BY <1>1, <1>6, DeliveryKept
  <1>7. CASE ProcessRestart
    BY <1>1, <1>7 DEF ProcessRestart, Fault, RefundsFit, Running
  <1>8. ASSUME NEW c \in Calls, CheckoutStep(c) \/ RefundStep(c)
        PROVE  handling' \in [Calls -> Deliveries] /\ RefundsFit'
    BY <1>2, <1>5, <1>6, <1>8 DEF CheckoutStep, RefundStep, Fails
  <1>9. ASSUME NEW c \in Calls, Acknowledge(c) \/ HandlerFails(c)
        PROVE  handling' \in [Calls -> Deliveries] /\ RefundsFit'
    BY <1>6, <1>9 DEF Acknowledge, HandlerFails, Fault, Fails
  <1> QED
    BY <1>2, <1>3, <1>4, <1>7, <1>8, <1>9
       DEF WebhookNext, allVars, webhookVars, PortalStart, PortalStep

(* Whatever Stripe sends again, late or overlapping, wherever a handler     *)
(* throws or the process forgets what it has handled, and however much      *)
(* Stripe refunds: reservations settle once, keys enter the ledger once,    *)
(* its rows chain, open reservations are covered and their total is right,  *)
(* under the conditions on callers that each of the properties states.      *)
THEOREM WebhooksKeepLedger ==
    WebhookSpec => [](/\ SettledOnce /\ KeysUsedOnce /\ LedgerChains
                      /\ NoOverdraft /\ ReservedIsOutstanding)
  <1>1. WebhookInv /\ [WebhookNext]_allVars => WebhookInv'
    <2> SUFFICES ASSUME WebhookInv, [WebhookNext]_allVars PROVE WebhookInv'
      OBVIOUS
    <2>1. HInv
      BY DEF WebhookInv
    <2>2. ASSUME [Next]_vars PROVE HInv'
      BY <2>1, <2>2, StepType, StepLedger, StepHolds DEF HInv, LInv
    <2>3. ASSUME NEW a \in Nat, Refund(a) PROVE HInv'
      <3>1. Callers # "any" => Covered' /\ NoOverdraft'
        BY <2>1, <2>3, RefundHolds
      <3>2. Covered' /\ NoOverdraft'
        BY <3>1 DEF Covered, NoOverdraft
      <3> QED
        BY <2>1, <2>3, <3>2, RefundType, RefundLedger DEF HInv, LInv
    <2> QED
      BY <2>2, <2>3, WebhookShape, WebhookSide DEF WebhookInv
  <1>2. WebhookInv => SettledOnce /\ KeysUsedOnce /\ LedgerChains /\ NoOverdraft
    BY DEF WebhookInv, HInv, LInv, LedgerInv, SettledOnce, IsSettlement, Settles, KeysUsedOnce,
           LedgerChains
  <1>3. WebhookInv => ReservedIsOutstanding
    BY OutOfLedger, TotalOfRows DEF WebhookInv, HInv, LInv, Covered, Held, ReservedIsOutstanding
  <1> QED
    BY <1>1, <1>2, <1>3, WebhookStart, PTL DEF WebhookSpec

-----------------------------------------------------------------------------
(* The prepaid account.  What the refinement mapping shows of a ledger L is *)
(* stated of L, so that what a row adds to it is one fact about Append.     *)

ReservesFor(row, r) == Reserves(row) /\ row.ref = r
SettlesFor(row, r)  == Settles(row) /\ row.ref = r
ReservedIn(L, r) == \E i \in DOMAIN L : ReservesFor(L[i], r)
SettledIn(L, r)  == \E i \in DOMAIN L : SettlesFor(L[i], r)
AmountIn(L, r)   == L[CHOOSE i \in DOMAIN L : ReservesFor(L[i], r)].amount

HoldsIn(L) ==
    [r \in ReservationIds |->
       IF ~ReservedIn(L, r) THEN -1 ELSE IF SettledIn(L, r) THEN -2 ELSE AmountIn(L, r)]
PaidIn(L) == {k \in PurchaseKeys : \E i \in DOMAIN L : L[i].key = k}

\* Names for what CreditAccount puts for hold and paid.
HoldView == [r \in ReservationIds |->
               IF ~Reserved(r) THEN -1 ELSE IF Settled(r) THEN -2 ELSE HoldOf(r)]
PaidView == {k \in PurchaseKeys : KeyUsed(k)}

LEMMA ViewNow == HoldView = HoldsIn(ledger) /\ PaidView = PaidIn(ledger)
  BY DEF HoldView, PaidView, HoldsIn, PaidIn, ReservedIn, SettledIn, AmountIn, ReservesFor,
         SettlesFor, Reserves, Settles, Reserved, Settled, HoldOf, HoldRow, IsReservation,
         IsSettlement, KeyUsed

LEMMA ViewNext ==
    ASSUME NEW M, ledger' = M
    PROVE  HoldView' = HoldsIn(M) /\ PaidView' = PaidIn(M)
  BY DEF HoldView, PaidView, HoldsIn, PaidIn, ReservedIn, SettledIn, AmountIn, ReservesFor,
         SettlesFor, Reserves, Settles, Reserved, Settled, HoldOf, HoldRow, IsReservation,
         IsSettlement, KeyUsed

\* The amount is that of the row, there being one.
LEMMA AmountOfRow ==
    ASSUME NEW L, NEW b, LedgerInv(L, b), NEW i \in DOMAIN L, NEW r, ReservesFor(L[i], r)
    PROVE  AmountIn(L, r) = L[i].amount /\ L[i].amount \in Nat
  <1>1. PICK j : j = CHOOSE n \in DOMAIN L : ReservesFor(L[n], r)
    OBVIOUS
  <1>2. j \in DOMAIN L /\ ReservesFor(L[j], r)
    BY <1>1
  <1>3. i = j
    BY <1>2 DEF LedgerInv, ReservesFor
  <1>4. QED
    BY <1>1, <1>3 DEF AmountIn, LedgerInv, ReservesFor

LEMMA HoldRange ==
    ASSUME NEW L, NEW b, LedgerInv(L, b), NEW r \in ReservationIds
    PROVE  /\ HoldsIn(L)[r] \in Int
           /\ HoldsIn(L)[r] >= 0 <=> ReservedIn(L, r) /\ ~SettledIn(L, r)
           /\ HoldsIn(L)[r] >= 0 => HoldsIn(L)[r] = AmountIn(L, r)
           /\ HoldsIn(L)[r] = -1 <=> ~ReservedIn(L, r)
  <1>1. ReservedIn(L, r) => AmountIn(L, r) \in Nat
    BY AmountOfRow DEF ReservedIn
  <1>2. QED
    BY <1>1 DEF HoldsIn

-----------------------------------------------------------------------------
(* One more row. *)

LEMMA InAppend ==
    ASSUME NEW L \in Seq(Row), NEW row \in Row, NEW r
    PROVE  /\ ReservedIn(Append(L, row), r) <=> ReservedIn(L, r) \/ ReservesFor(row, r)
           /\ SettledIn(Append(L, row), r) <=> SettledIn(L, r) \/ SettlesFor(row, r)
  <1>1. PICK M : M = Append(L, row)
    OBVIOUS
  <1>2. PICK n : n = Len(L) + 1
    OBVIOUS
  <1>3. /\ M[n] = row /\ n \in DOMAIN M
        /\ \A i \in DOMAIN L : i \in DOMAIN M /\ M[i] = L[i]
        /\ \A i \in DOMAIN M : i \in DOMAIN L \/ i = n
    BY <1>1, <1>2, AppendFacts
  <1>4. QED
    BY <1>1, <1>3 DEF ReservedIn, SettledIn

LEMMA AmountAppend ==
    ASSUME NEW L \in Seq(Row), NEW b, LedgerInv(L, b), NEW row \in Row,
           NEW c, LedgerInv(Append(L, row), c), NEW r, ReservedIn(L, r)
    PROVE  AmountIn(Append(L, row), r) = AmountIn(L, r)
  <1>1. PICK M : M = Append(L, row)
    OBVIOUS
  <1>2. PICK i \in DOMAIN L : ReservesFor(L[i], r)
    BY DEF ReservedIn
  <1>3. i \in DOMAIN M /\ M[i] = L[i]
    BY <1>1, AppendFacts
  <1>4. AmountIn(M, r) = M[i].amount
    BY <1>1, <1>2, <1>3, AmountOfRow
  <1>5. AmountIn(L, r) = L[i].amount
    BY <1>2, AmountOfRow
  <1>6. QED
    BY <1>1, <1>3, <1>4, <1>5

LEMMA HoldOthers ==
    ASSUME NEW L \in Seq(Row), NEW b, LedgerInv(L, b), NEW row \in Row,
           NEW c, LedgerInv(Append(L, row), c),
           NEW r \in ReservationIds, ~ReservesFor(row, r), ~SettlesFor(row, r)
    PROVE  HoldsIn(Append(L, row))[r] = HoldsIn(L)[r]
  BY InAppend, AmountAppend DEF HoldsIn

LEMMA NeutralView ==
    ASSUME NEW L \in Seq(Row), NEW b, LedgerInv(L, b), NEW row \in Row,
           NEW c, LedgerInv(Append(L, row), c), ~Reserves(row), ~Settles(row)
    PROVE  HoldsIn(Append(L, row)) = HoldsIn(L)
  <1>1. \A r \in ReservationIds : HoldsIn(Append(L, row))[r] = HoldsIn(L)[r]
    BY HoldOthers DEF ReservesFor, SettlesFor
  <1>2. QED
    BY <1>1 DEF HoldsIn

LEMMA ReserveView ==
    ASSUME NEW L \in Seq(Row), NEW b, LedgerInv(L, b), NEW row \in Row,
           NEW c, LedgerInv(Append(L, row), c), Reserves(row), row.ref \in ReservationIds,
           \A i \in DOMAIN L : L[i].ref # row.ref
    PROVE  /\ HoldsIn(L)[row.ref] = -1
           /\ HoldsIn(Append(L, row)) = [HoldsIn(L) EXCEPT ![row.ref] = row.amount]
  <1>1. PICK r \in ReservationIds : r = row.ref
    OBVIOUS
  <1>2. ~ReservedIn(L, r) /\ ~SettledIn(L, r) /\ ReservesFor(row, r) /\ ~SettlesFor(row, r)
    BY <1>1 DEF ReservedIn, SettledIn, ReservesFor, SettlesFor, Reserves, Settles
  <1>3. AmountIn(Append(L, row), r) = row.amount
    <2>1. Len(L) + 1 \in DOMAIN Append(L, row) /\ Append(L, row)[Len(L) + 1] = row
      BY AppendFacts
    <2>2. QED
      BY <1>2, <2>1, AmountOfRow
  <1>4. HoldsIn(Append(L, row))[r] = row.amount /\ HoldsIn(L)[r] = -1
    BY <1>2, <1>3, InAppend DEF HoldsIn
  <1>5. \A q \in ReservationIds \ {r} : HoldsIn(Append(L, row))[q] = HoldsIn(L)[q]
    BY <1>1, HoldOthers DEF ReservesFor, SettlesFor
  <1>6. QED
    BY <1>1, <1>4, <1>5 DEF HoldsIn

LEMMA SettleView ==
    ASSUME NEW L \in Seq(Row), NEW b, LedgerInv(L, b), NEW row \in Row,
           NEW c, LedgerInv(Append(L, row), c), Settles(row), row.ref \in ReservationIds,
           ReservedIn(L, row.ref)
    PROVE  HoldsIn(Append(L, row)) = [HoldsIn(L) EXCEPT ![row.ref] = -2]
  <1>1. PICK r \in ReservationIds : r = row.ref
    OBVIOUS
  <1>2. SettlesFor(row, r)
    BY <1>1 DEF SettlesFor
  <1>3. HoldsIn(Append(L, row))[r] = -2
    BY <1>1, <1>2, InAppend DEF HoldsIn
  <1>4. \A q \in ReservationIds \ {r} : HoldsIn(Append(L, row))[q] = HoldsIn(L)[q]
    BY <1>1, HoldOthers DEF ReservesFor, SettlesFor
  <1>5. QED
    BY <1>1, <1>3, <1>4 DEF HoldsIn

LEMMA PaidAppend ==
    ASSUME NEW L \in Seq(Row), NEW row \in Row
    PROVE  PaidIn(Append(L, row)) = PaidIn(L) \cup ({row.key} \cap PurchaseKeys)
  <1>1. PICK M : M = Append(L, row)
    OBVIOUS
  <1>2. PICK n : n = Len(L) + 1
    OBVIOUS
  <1>3. /\ M[n] = row /\ n \in DOMAIN M
        /\ \A i \in DOMAIN L : i \in DOMAIN M /\ M[i] = L[i]
        /\ \A i \in DOMAIN M : i \in DOMAIN L \/ i = n
    BY <1>1, <1>2, AppendFacts
  <1>4. QED
    BY <1>1, <1>3 DEF PaidIn

-----------------------------------------------------------------------------
(* The amount the account holds is the reserved amount of the balance row:  *)
(* an open hold is an outstanding row, seen from its reservation.           *)

LEMMA HeldIsReserved ==
    ASSUME NEW L \in Seq(Row), NEW b, LedgerInv(L, b), NEW s, Held(L, s),
           \A i \in DOMAIN L : Reserves(L[i]) => L[i].ref \in ReservationIds,
           NEW H, H = HoldsIn(L)
    PROVE  SumOver(H, {r \in ReservationIds : H[r] >= 0}) = s
  <1>1. PICK U : U = Out(L)
    OBVIOUS
  <1>2. PICK w : w = Amt(L)
    OBVIOUS
  <1>3. PICK f : f = [i \in DOMAIN L |-> L[i].ref]
    OBVIOUS
  <1>4. /\ IsFiniteSet(U) /\ s = SumOver(w, U)
        /\ \A i \in U : i \in DOMAIN L /\ w[i] \in Nat /\ w[i] = L[i].amount /\ f[i] = L[i].ref
    BY <1>1, <1>2, <1>3 DEF Held, Total, Out, Amt
  <1>5. ASSUME NEW i \in U
        PROVE  /\ f[i] \in ReservationIds /\ ReservedIn(L, f[i]) /\ ~SettledIn(L, f[i])
               /\ AmountIn(L, f[i]) = L[i].amount
    <2>1. i \in DOMAIN L /\ Reserves(L[i]) /\ ReservesFor(L[i], f[i])
      BY <1>1, <1>3 DEF Out, ReservesFor
    <2>2. ReservedIn(L, f[i]) /\ ~SettledIn(L, f[i])
      BY <1>1, <1>3, <2>1 DEF Out, ReservedIn, SettledIn, SettlesFor
    <2>3. QED
      BY <1>3, <2>1, <2>2, AmountOfRow
  <1>6. \A i \in U : w[i] \in Nat /\ H[f[i]] = w[i]
    BY <1>4, <1>5 DEF HoldsIn
  <1>7. \A i, j \in U : f[i] = f[j] => i = j
    BY <1>1, <1>4 DEF Out, LedgerInv
  <1>8. SumOver(H, {f[i] : i \in U}) = SumOver(w, U)
    BY <1>4, <1>6, <1>7, SumMoved, SMTT(30)
  <1>9. {f[i] : i \in U} = {r \in ReservationIds : H[r] >= 0}
    <2>1. ASSUME NEW i \in U PROVE f[i] \in ReservationIds /\ H[f[i]] >= 0
      BY <1>5, <1>6, <2>1
    <2>2. ASSUME NEW r \in ReservationIds, H[r] >= 0 PROVE \E i \in U : f[i] = r
      <3>1. ReservedIn(L, r) /\ ~SettledIn(L, r)
        BY <2>2, HoldRange
      <3>2. PICK i \in DOMAIN L : ReservesFor(L[i], r)
        BY <3>1 DEF ReservedIn
      <3>3. i \in U
        BY <1>1, <3>1, <3>2 DEF Out, ReservesFor, SettledIn, SettlesFor
      <3>4. QED
        BY <1>3, <3>2, <3>3 DEF ReservesFor
    <2>3. QED
      BY <2>1, <2>2
  <1>10. QED
    BY <1>4, <1>8, <1>9

-----------------------------------------------------------------------------
(* What is in flight and in the ledger comes from requests: a reservation   *)
(* has a positive amount and a key of its own, and rows reserve for an id.  *)

CallFits(c) ==
    /\ calls[c].op = "reserve" => calls[c].key \in ReserveKeys /\ calls[c].amount \in Amounts
    /\ calls[c].op \in {"purchase", "purchaseTx"} => calls[c].key \in PurchaseKeys

RefsFit == \A i \in DOMAIN ledger : Reserves(ledger[i]) => ledger[i].ref \in ReservationIds

RequestInv == TypeOK /\ RefsFit /\ \A c \in Calls : CallFits(c)

LEMMA RequestStart == Init => RequestInv
  BY InitType DEF Init, RequestInv, RefsFit, CallFits, Idle, NewCall

LEMMA RequestCalls ==
    ASSUME RequestInv, [Next]_vars
    PROVE  \A c \in Calls : CallFits(c)'
  <1>1. ASSUME NEW c \in Calls, NEW new, calls' = [calls EXCEPT ![c] = new],
               new.op = "reserve" => new.key \in ReserveKeys /\ new.amount \in Amounts,
               new.op \in {"purchase", "purchaseTx"} => new.key \in PurchaseKeys
        PROVE  \A d \in Calls : CallFits(d)'
    BY <1>1 DEF RequestInv, TypeOK, CallFits
  <1>2. ASSUME NEW c \in Calls, calls' = [calls EXCEPT ![c] = Idle]
        PROVE  \A d \in Calls : CallFits(d)'
    BY <1>1, <1>2 DEF Idle, NewCall
  <1>3. ASSUME NEW c \in Calls, NEW k \in PurchaseKeys, StartPurchase(c, k)
        PROVE  \A d \in Calls : CallFits(d)'
    <2>1. PICK new : new = NewCall("purchase", k, 0)
      OBVIOUS
    <2>2. new.op = "purchase" /\ new.key = k /\ calls' = [calls EXCEPT ![c] = new]
      BY <1>3, <2>1 DEF StartPurchase, NewCall
    <2>3. QED
      BY <1>1, <2>2
  <1>4. ASSUME NEW c \in Calls, NEW k \in ReserveKeys, NEW a \in Amounts, ReserveLookup(c, k, a)
        PROVE  \A d \in Calls : CallFits(d)'
    <2>1. PICK new : new = NewCall("reserve", k, a)
      OBVIOUS
    <2>2. /\ new.op = "reserve" /\ new.key = k /\ new.amount = a
          /\ calls' = [calls EXCEPT ![c] = new]
      BY <1>4, <2>1 DEF ReserveLookup, NewCall
    <2>3. QED
      BY <1>1, <2>2
  <1>5. ASSUME NEW c \in Calls, PurchaseFindBalance(c)
        PROVE  \A d \in Calls : CallFits(d)'
    <2>1. PICK new : new = [calls[c] EXCEPT !.op = "purchaseTx", !.sawBalance = balance.opened]
      OBVIOUS
    <2>2. /\ new.op = "purchaseTx" /\ new.key = calls[c].key
          /\ calls' = [calls EXCEPT ![c] = new] /\ calls[c].op = "purchase"
      BY <1>5, <2>1 DEF PurchaseFindBalance, RequestInv, TypeOK, Call
    <2>3. calls[c].key \in PurchaseKeys
      BY <2>2 DEF RequestInv, CallFits
    <2>4. QED
      BY <1>1, <2>2, <2>3
  <1>6. CASE Restart
    BY <1>6 DEF Restart, CallFits, Idle, NewCall
  <1>7. CASE UNCHANGED calls
    BY <1>7 DEF RequestInv, CallFits
  <1>8. ASSUME NEW c \in Calls, CallStart(c) \/ CallStep(c) \/ AbortCall(c)
        PROVE  \A d \in Calls : CallFits(d)'
    BY <1>2, <1>3, <1>4, <1>5, <1>8
       DEF CallStart, CallStep, AbortCall, DirectCharge, RefillCharge, ReserveCommit,
           ReserveRefuse, PurchaseCommit, PurchaseConflict, PurchaseKeys, ManualKeys
  <1>9. ASSUME CheckoutNext
        PROVE  \A d \in Calls : CallFits(d)'
    BY <1>3, <1>7, <1>9 DEF CheckoutNext, CheckoutPaid, CheckoutLookup, PurchaseKeys, ManualKeys
  <1>10. ASSUME RowNext \/ \E a \in Amounts : Refund(a)
         PROVE  UNCHANGED calls
    BY <1>10 DEF RowNext, OpenBalance, SettleNext, Release, Consume, ConsumeRollback,
                 RefillDeclined, ConfigureAutoRefill, Adjust, Refund
  <1>11. QED
    BY <1>6, <1>7, <1>8, <1>9, <1>10 DEF Next, vars

-----------------------------------------------------------------------------

AccountInv == HInv /\ RequestInv

LEMMA AccountHolds ==
    ASSUME AccountInv, Callers # "any"
    PROVE  Account!HeldAmount = balance.reserved
  <1>1. PICK H : H = HoldView
    OBVIOUS
  <1>2. H = HoldsIn(ledger)
    BY <1>1, ViewNow
  <1>3. SumOver(H, {r \in ReservationIds : H[r] >= 0}) = balance.reserved
    <2>1. PICK L : L = ledger
      OBVIOUS
    <2>2. PICK s : s = balance.reserved
      OBVIOUS
    <2>3. PICK b : b = balance.available
      OBVIOUS
    <2>4. /\ L \in Seq(Row) /\ LedgerInv(L, b) /\ Held(L, s) /\ H = HoldsIn(L)
          /\ \A i \in DOMAIN L : Reserves(L[i]) => L[i].ref \in ReservationIds
      BY <1>2, <2>1, <2>2, <2>3 DEF AccountInv, HInv, LInv, TypeOK, Covered, RequestInv, RefsFit
    <2>5. QED
      BY <2>2, <2>4, HeldIsReserved
  <1>4. Account!Open = {r \in ReservationIds : H[r] >= 0}
    BY <1>1 DEF Account!Open, HoldView
  <1>5. Account!HeldAmount = SumOver(H, Account!Open)
    BY <1>1 DEF Account!HeldAmount, Account!MapThenSumSet, Account!MapThenFoldSet, SumOver,
                MapThenSumSet, MapThenFoldSet, HoldView
  <1>6. QED
    BY <1>3, <1>4, <1>5

LEMMA RequestRefs ==
    ASSUME RequestInv, [Next]_vars
    PROVE  RefsFit'
  <1> USE NatParameters DEF NatParameters
  <1>1. ASSUME NEW row, ledger' = Append(ledger, row), Reserves(row) => row.ref \in ReservationIds
        PROVE  RefsFit'
    <2>1. ledger \in Seq(Row)
      BY DEF RequestInv, TypeOK
    <2>2. /\ \A i \in DOMAIN ledger' : i \in DOMAIN ledger \/ i = Len(ledger) + 1
          /\ \A i \in DOMAIN ledger : ledger'[i] = ledger[i]
          /\ ledger'[Len(ledger) + 1] = row
      BY <1>1, <2>1
    <2>3. QED
      BY <1>1, <2>2 DEF RequestInv, RefsFit, Reserves
  <1>2. ASSUME UNCHANGED ledger PROVE RefsFit'
    BY <1>2 DEF RequestInv, RefsFit, Reserves
  <1>3. ASSUME NEW c \in Calls, NEW r \in ReservationIds, ReserveCommit(c, r) PROVE RefsFit'
    <2>1. PICK row : row = NewRow("RESERVATION", r, calls[c].key, calls[c].amount, balance.available)
      OBVIOUS
    <2>2. row.ref = r /\ ledger' = Append(ledger, row)
      BY <1>3, <2>1 DEF ReserveCommit, NewRow
    <2>3. QED
      BY <1>1, <2>2
  <1>4. ASSUME NEW r \in ReservationIds, Release(r) PROVE RefsFit'
    <2>1. PICK row : row = NewRow("RELEASE", r, None, HoldOf(r), balance.available)
      OBVIOUS
    <2>2. row.ref = r /\ ledger' = Append(ledger, row)
      BY <1>4, <2>1 DEF Release, NewRow
    <2>3. QED
      BY <1>1, <2>2
  <1>5. ASSUME NEW r \in ReservationIds, NEW a \in Amounts, Consume(r, a) PROVE RefsFit'
    <2>1. PICK row : row = NewRow("CONSUMPTION", r, None, a, balance.available - a)
      OBVIOUS
    <2>2. row.ref = r /\ ledger' = Append(ledger, row)
      BY <1>5, <2>1 DEF Consume, NewRow
    <2>3. QED
      BY <1>1, <2>2
  <1>6. ASSUME NEW c \in Calls, PurchaseCommit(c) PROVE RefsFit'
    <2>1. PICK rows : rows = PurchaseRows(calls[c].key)
      OBVIOUS
    <2>2. ledger' = ledger \o rows /\ ledger \in Seq(Row) /\ rows \in Seq(Row)
      BY <1>6, <2>1, PurchaseRowsType DEF PurchaseCommit, RequestInv, TypeOK, Call
    <2>3. \A i \in DOMAIN rows : ~Reserves(rows[i])
      BY <2>1 DEF PurchaseRows, NewRow, Reserves
    <2>4. /\ DOMAIN ledger = 1..Len(ledger) /\ Len(ledger) \in Nat
          /\ DOMAIN rows = 1..Len(rows) /\ Len(rows) \in Nat
          /\ DOMAIN ledger' = 1..(Len(ledger) + Len(rows))
          /\ \A i \in DOMAIN ledger' :
                ledger'[i] = IF i <= Len(ledger) THEN ledger[i] ELSE rows[i - Len(ledger)]
      BY <2>2
    <2>5. ASSUME NEW i \in DOMAIN ledger', Reserves(ledger'[i]) PROVE ledger'[i].ref \in ReservationIds
      <3>1. CASE i <= Len(ledger)
        BY <2>4, <2>5, <3>1 DEF RequestInv, RefsFit
      <3>2. CASE ~(i <= Len(ledger))
        <4>1. i - Len(ledger) \in DOMAIN rows /\ ledger'[i] = rows[i - Len(ledger)]
          BY <2>4, <3>2
        <4>2. QED
          BY <2>3, <2>5, <4>1
      <3>3. QED
        BY <3>1, <3>2
    <2>6. QED
      BY <2>5 DEF RefsFit, Reserves
  <1>7. ASSUME NEW a \in Amounts, Refund(a) PROVE RefsFit'
    <2>1. PICK row : row = NewRow("REFUND", None, None, a, Monus(balance.available, a))
      OBVIOUS
    <2>2. ~Reserves(row) /\ ledger' = Append(ledger, row)
      BY <1>7, <2>1 DEF Refund, NewRow, Reserves
    <2>3. QED
      BY <1>1, <2>2
  <1>8. ASSUME NEW a \in AdjustAmounts, Adjust(a) PROVE RefsFit'
    <2>1. PICK row : row = NewRow("ADJUSTMENT", None, None, a, Monus(balance.available, -a))
      OBVIOUS
    <2>2. ~Reserves(row) /\ ledger' = Append(ledger, row)
      BY <1>8, <2>1 DEF Adjust, NewRow, Reserves
    <2>3. QED
      BY <1>1, <2>2
  <1>9. QED
    BY <1>2, <1>3, <1>4, <1>5, <1>6, <1>7, <1>8
       DEF Next, CallStart, CallStep, RowNext, SettleNext, CheckoutNext, vars, OpenBalance,
           ReserveLookup, ReserveRefuse, ConsumeRollback, PurchaseFindBalance, PurchaseConflict,
           CheckoutPaid, CheckoutLookup, DirectCharge, RefillCharge, RefillDeclined, AbortCall,
           Restart, ConfigureAutoRefill

LEMMA AccountAlways == Spec => []AccountInv
  <1>1. RequestInv /\ [Next]_vars => RequestInv'
    BY StepType, RequestCalls, RequestRefs DEF RequestInv
  <1>2. QED
    BY <1>1, RequestStart, HoldsAlways, PTL DEF Spec, AccountInv

-----------------------------------------------------------------------------
(* The operations of the account, of what is shown of the ledger.           *)

LEMMA ShowsHold ==
    ASSUME NEW r \in ReservationIds, NEW a \in Amounts, HoldView[r] = -1,
           Account!HeldAmount + a <= balance.available,
           HoldView' = [HoldView EXCEPT ![r] = a],
           balance'.available = balance.available, PaidView' = PaidView,
           NoDeduction' <=> NoDeduction
    PROVE  Account!AccountNext
  <1>1. Account!Hold(r, a)
    BY DEF Account!Hold, Account!NoHold, HoldView, PaidView
  <1>2. QED
    BY <1>1 DEF Account!AccountNext

LEMMA ShowsCancel ==
    ASSUME NEW r \in ReservationIds, HoldView[r] >= 0, HoldView' = [HoldView EXCEPT ![r] = -2],
           balance'.available = balance.available, PaidView' = PaidView,
           NoDeduction' <=> NoDeduction
    PROVE  Account!AccountNext
  <1>1. Account!Cancel(r)
    BY DEF Account!Cancel, Account!Open, Account!Closed, HoldView, PaidView
  <1>2. QED
    BY <1>1 DEF Account!AccountNext

LEMMA ShowsCharge ==
    ASSUME NEW r \in ReservationIds, NEW a \in Amounts, HoldView[r] >= 0, a <= HoldView[r],
           HoldView' = [HoldView EXCEPT ![r] = -2],
           balance'.available = balance.available - a, PaidView' = PaidView,
           NoDeduction' <=> NoDeduction
    PROVE  Account!AccountNext
  <1>1. Account!Charge(r, a)
    BY DEF Account!Charge, Account!Open, Account!Closed, HoldView, PaidView
  <1>2. QED
    BY <1>1 DEF Account!AccountNext

LEMMA ShowsCredit ==
    ASSUME NEW k \in PurchaseKeys, k \notin PaidView, PaidView' = PaidView \cup {k},
           balance'.available = balance.available + (PackageCredits + PackageBonus),
           HoldView' = HoldView, NoDeduction' <=> NoDeduction
    PROVE  Account!AccountNext
  <1>1. Account!Credit(k)
    BY DEF Account!Credit, HoldView, PaidView
  <1>2. QED
    BY <1>1 DEF Account!AccountNext

LEMMA ShowsCorrection ==
    ASSUME NEW d \in AdjustAmounts \cup {-a : a \in Amounts},
           balance.available + d \in Int,
           balance'.available = IF balance.available + d < 0 THEN 0 ELSE balance.available + d,
           HoldView' = HoldView, PaidView' = PaidView, d \in Int,
           IF d < 0 THEN ~NoDeduction' ELSE NoDeduction' <=> NoDeduction
    PROVE  Account!AccountNext
  <1>1. PICK x \in Int : x = balance.available + d
    OBVIOUS
  <1>2. PICK y : y = Account!Max({0, x})
    OBVIOUS
  <1>3. y = CHOOSE z \in {0, x} : \A q \in {0, x} : z >= q
    BY <1>2 DEF Account!Max
  <1>4. \E z \in {0, x} : \A q \in {0, x} : z >= q
    OBVIOUS
  <1>5. y \in {0, x} /\ \A q \in {0, x} : y >= q
    BY <1>3, <1>4
  <1>6. y = IF x < 0 THEN 0 ELSE x
    BY <1>5
  <1>7. balance'.available = Account!Max({0, balance.available + d})
    BY <1>1, <1>2, <1>6
  <1>8. CASE d < 0
    <2>1. Account!Withdraw(d)
      BY <1>7, <1>8 DEF Account!Withdraw, Account!Corrected, HoldView, PaidView
    <2> QED
      BY <2>1 DEF Account!AccountNext
  <1>9. CASE ~(d < 0)
    <2>1. Account!Deposit(d)
      BY <1>7, <1>9 DEF Account!Deposit, Account!Corrected, HoldView, PaidView
    <2> QED
      BY <2>1 DEF Account!AccountNext
  <1> QED
    BY <1>8, <1>9

LEMMA ShowsNothing ==
    ASSUME UNCHANGED ledger, balance'.available = balance.available
    PROVE  UNCHANGED Account!accountVars
  <1>1. PICK L : L = ledger
    OBVIOUS
  <1>2. HoldView' = HoldView /\ PaidView' = PaidView
    BY <1>1, ViewNow, ViewNext
  <1>3. NoDeduction' <=> NoDeduction
    BY DEF NoDeduction
  <1>4. QED
    BY <1>2, <1>3 DEF Account!accountVars, HoldView, PaidView

-----------------------------------------------------------------------------
(* Every step of the ledger is a step of the account, or nothing to it.     *)

\* One row r inserted: what is needed of the ledgers before and after.
LEMMA Inserted ==
    ASSUME AccountInv, AccountInv', NEW row, ledger' = Append(ledger, row)
    PROVE  \E L \in Seq(Row), b \in Int, c \in Int :
              /\ L = ledger /\ LedgerInv(L, b) /\ LedgerInv(Append(L, row), c)
              /\ HoldView = HoldsIn(L) /\ HoldView' = HoldsIn(Append(L, row))
              /\ PaidView = PaidIn(L) /\ PaidView' = PaidIn(Append(L, row))
  <1>1. PICK L : L = ledger
    OBVIOUS
  <1>2. PICK M : M = ledger'
    OBVIOUS
  <1>3. PICK b : b = balance.available
    OBVIOUS
  <1>4. PICK c : c = balance'.available
    OBVIOUS
  <1>5. L \in Seq(Row) /\ LedgerInv(L, b)
    BY <1>1, <1>3 DEF AccountInv, HInv, LInv, TypeOK
  <1>6. LedgerInv(ledger, balance.available)' /\ b \in Int /\ c \in Int
    BY <1>3, <1>4 DEF AccountInv, HInv, LInv, TypeOK, Balance
  <1>7. LedgerInv(M, c)
    <2>1. \A i, j \in DOMAIN M :
             /\ Settles(M[i]) /\ Settles(M[j]) /\ M[i].ref = M[j].ref => i = j
             /\ Reserves(M[i]) /\ Reserves(M[j]) /\ M[i].ref = M[j].ref => i = j
             /\ M[i].key # None /\ M[i].key = M[j].key => i = j
      BY <1>2, <1>6 DEF LedgerInv, Settles, Reserves
    <2>2. \A i \in DOMAIN M : /\ M[i].before = IF i = 1 THEN 0 ELSE M[i - 1].after
                              /\ Reserves(M[i]) => M[i].amount \in Nat
      BY <1>2, <1>6 DEF LedgerInv, Reserves
    <2>3. c = IF M = <<>> THEN 0 ELSE M[Len(M)].after
      BY <1>2, <1>4, <1>6 DEF LedgerInv
    <2> QED
      BY <2>1, <2>2, <2>3 DEF LedgerInv
  <1>8. HoldView = HoldsIn(L) /\ PaidView = PaidIn(L)
    BY <1>1, ViewNow
  <1>9. HoldView' = HoldsIn(M) /\ PaidView' = PaidIn(M)
    BY <1>2, ViewNext
  <1>10. M = Append(L, row)
    BY <1>1, <1>2
  <1>11. QED
    BY <1>1, <1>5, <1>6, <1>7, <1>8, <1>9, <1>10

\* A row that takes nothing from the balance, or settles a hold.
LEMMA NothingWithdrawn ==
    ASSUME TypeOK, NEW row \in Row, ledger' = Append(ledger, row), row.type # "REFUND",
           row.type = "ADJUSTMENT" => row.amount >= 0
    PROVE  NoDeduction' <=> NoDeduction
  <1>1. ledger \in Seq(Row)
    BY DEF TypeOK
  <1>2. ASSUME NoDeduction' PROVE NoDeduction
    BY <1>1, <1>2, DeductionAppend
  <1>3. ASSUME NoDeduction PROVE NoDeduction'
    <2>1. \A i \in DOMAIN ledger' : ledger'[i] = row \/ (i \in DOMAIN ledger /\ ledger'[i] = ledger[i])
      BY <1>1
    <2> QED
      BY <1>3, <2>1 DEF NoDeduction
  <1> QED
    BY <1>2, <1>3

LEMMA ReserveShows ==
    ASSUME AccountInv, AccountInv', Callers = "bounded",
           NEW c \in Calls, NEW r \in ReservationIds, ReserveCommit(c, r)
    PROVE  Account!AccountNext
  <1>1. PICK a : a = calls[c].amount
    OBVIOUS
  <1>2. PICK row : row = NewRow("RESERVATION", r, calls[c].key, a, balance.available)
    OBVIOUS
  <1>3. /\ a \in Amounts /\ a \in Int /\ calls[c].key \in ReserveKeys
        /\ TypeOK /\ balance.available \in Int /\ balance.reserved \in Nat
    BY <1>1, BalanceFields DEF AccountInv, RequestInv, CallFits, ReserveCommit, Amounts
  <1>4. /\ row \in Row /\ Reserves(row) /\ ~Settles(row) /\ row.ref = r /\ row.amount = a
        /\ row.key = calls[c].key
    <2>1. row \in Row
      BY <1>2, <1>3, NewRowType DEF RowTypes, Keys
    <2>2. QED
      BY <1>2, <2>1 DEF NewRow, Reserves, Settles
  <1>5. /\ ledger' = Append(ledger, row)
        /\ \A i \in DOMAIN ledger : ledger[i].ref # r
        /\ balance.available - balance.reserved >= a
        /\ balance'.available = balance.available
    BY <1>1, <1>2, <1>3 DEF ReserveCommit, ReserveAccepted, Effective, FreshId, TypeOK, Balance
  <1>6. PICK L \in Seq(Row), b \in Int, d \in Int :
              /\ L = ledger /\ LedgerInv(L, b) /\ LedgerInv(Append(L, row), d)
              /\ HoldView = HoldsIn(L) /\ HoldView' = HoldsIn(Append(L, row))
              /\ PaidView = PaidIn(L) /\ PaidView' = PaidIn(Append(L, row))
    BY <1>5, Inserted
  <1>7. HoldView[r] = -1 /\ HoldView' = [HoldView EXCEPT ![r] = a]
    BY <1>4, <1>5, <1>6, ReserveView
  <1>8. PaidView' = PaidView
    <2>1. {row.key} \cap PurchaseKeys = {}
      BY <1>3, <1>4, KeysDisjoint
    <2>2. PaidIn(Append(L, row)) = PaidIn(L)
      BY <1>4, <2>1, PaidAppend
    <2>3. QED
      BY <1>6, <2>2
  <1>9. Account!HeldAmount + a <= balance.available
    BY <1>3, <1>5, AccountHolds
  <1>10. NoDeduction' <=> NoDeduction
    BY <1>2, <1>3, <1>4, <1>5, NothingWithdrawn DEF NewRow
  <1>11. QED
    BY <1>3, <1>5, <1>7, <1>8, <1>9, <1>10, ShowsHold

\* The row that settles r closes its hold.
LEMMA Closes ==
    ASSUME AccountInv, AccountInv', NEW r \in ReservationIds, Reserved(r), ~Settled(r),
           NEW row \in Row, Settles(row), row.ref = r, row.key = None,
           ledger' = Append(ledger, row)
    PROVE  /\ HoldView[r] = HoldOf(r) /\ HoldView[r] >= 0
           /\ HoldView' = [HoldView EXCEPT ![r] = -2]
           /\ PaidView' = PaidView
  <1>1. PICK L \in Seq(Row), b \in Int, d \in Int :
              /\ L = ledger /\ LedgerInv(L, b) /\ LedgerInv(Append(L, row), d)
              /\ HoldView = HoldsIn(L) /\ HoldView' = HoldsIn(Append(L, row))
              /\ PaidView = PaidIn(L) /\ PaidView' = PaidIn(Append(L, row))
    BY Inserted
  <1>2. HoldView[r] = HoldOf(r)
    BY DEF HoldView
  <1>3. ReservedIn(L, r) /\ ~SettledIn(L, r)
    BY <1>1 DEF ReservedIn, SettledIn, ReservesFor, SettlesFor, Reserves, Settles, Reserved,
                Settled, IsReservation, IsSettlement
  <1>4. HoldView[r] >= 0
    BY <1>1, <1>3, HoldRange
  <1>5. HoldView' = [HoldView EXCEPT ![r] = -2]
    BY <1>1, <1>3, SettleView
  <1>6. {row.key} \cap PurchaseKeys = {}
    BY KeysDisjoint DEF Keys
  <1>7. PaidView' = PaidView
    <2>1. PaidIn(Append(L, row)) = PaidIn(L)
      BY <1>6, PaidAppend
    <2>2. QED
      BY <1>1, <2>1
  <1>8. QED
    BY <1>2, <1>4, <1>5, <1>7

LEMMA ReleaseShows ==
    ASSUME AccountInv, AccountInv', NEW r \in ReservationIds, Release(r)
    PROVE  Account!AccountNext
  <1>1. PICK row : row = NewRow("RELEASE", r, None, HoldOf(r), balance.available)
    OBVIOUS
  <1>2. TypeOK /\ balance.available \in Int /\ Reserved(r) /\ ~Settled(r) /\ HoldOf(r) \in Int
    BY BalanceFields, HoldType DEF AccountInv, RequestInv, Release
  <1>3. row \in Row /\ Settles(row) /\ row.ref = r /\ row.key = None
    <2>1. row \in Row
      BY <1>1, <1>2, NewRowType DEF RowTypes
    <2>2. QED
      BY <1>1, <2>1 DEF NewRow, Settles
  <1>4. ledger' = Append(ledger, row) /\ balance'.available = balance.available
    BY <1>1, <1>2 DEF Release, TypeOK, Balance
  <1>5. /\ HoldView[r] >= 0 /\ HoldView' = [HoldView EXCEPT ![r] = -2]
        /\ PaidView' = PaidView
    BY <1>2, <1>3, <1>4, Closes
  <1>6. NoDeduction' <=> NoDeduction
    BY <1>1, <1>2, <1>3, <1>4, NothingWithdrawn DEF NewRow
  <1>7. QED
    BY <1>4, <1>5, <1>6, ShowsCancel

LEMMA ConsumeShows ==
    ASSUME AccountInv, AccountInv', Callers = "bounded",
           NEW r \in ReservationIds, NEW a \in Amounts, Consume(r, a)
    PROVE  Account!AccountNext
  <1>1. PICK left : left = balance.available - a
    OBVIOUS
  <1>2. PICK row : row = NewRow("CONSUMPTION", r, None, a, left)
    OBVIOUS
  <1>3. /\ TypeOK /\ balance.available \in Int /\ a \in Int /\ left \in Int
        /\ Reserved(r) /\ ~Settled(r) /\ a <= HoldOf(r)
    BY <1>1, BalanceFields DEF AccountInv, RequestInv, Consume, ConsumeAccepted, CallerConsumes,
                               Amounts
  <1>4. row \in Row /\ Settles(row) /\ row.ref = r /\ row.key = None
    <2>1. row \in Row
      BY <1>2, <1>3, NewRowType DEF RowTypes
    <2>2. QED
      BY <1>2, <2>1 DEF NewRow, Settles
  <1>5. ledger' = Append(ledger, row) /\ balance'.available = left
    BY <1>1, <1>2, <1>3 DEF Consume, TypeOK, Balance
  <1>6. /\ HoldView[r] = HoldOf(r) /\ HoldView[r] >= 0
        /\ HoldView' = [HoldView EXCEPT ![r] = -2] /\ PaidView' = PaidView
    BY <1>3, <1>4, <1>5, Closes
  <1>7. NoDeduction' <=> NoDeduction
    BY <1>2, <1>3, <1>4, <1>5, NothingWithdrawn DEF NewRow
  <1>8. QED
    BY <1>1, <1>3, <1>5, <1>6, <1>7, ShowsCharge

\* A row that neither reserves nor settles shows only the payment it is for.
LEMMA PaysOnly ==
    ASSUME AccountInv, AccountInv', NEW row \in Row, ~Reserves(row), ~Settles(row),
           ledger' = Append(ledger, row)
    PROVE  HoldView' = HoldView /\ PaidView' = PaidView \cup ({row.key} \cap PurchaseKeys)
  <1>1. PICK L \in Seq(Row), b \in Int, d \in Int :
              /\ L = ledger /\ LedgerInv(L, b) /\ LedgerInv(Append(L, row), d)
              /\ HoldView = HoldsIn(L) /\ HoldView' = HoldsIn(Append(L, row))
              /\ PaidView = PaidIn(L) /\ PaidView' = PaidIn(Append(L, row))
    BY Inserted
  <1>2. QED
    BY <1>1, NeutralView, PaidAppend

LEMMA CorrectionShows ==
    ASSUME AccountInv, AccountInv', NEW d \in AdjustAmounts \cup {-a : a \in Amounts},
           NEW row \in Row, ~Reserves(row), ~Settles(row), row.key = None,
           ledger' = Append(ledger, row), d \in Int,
           balance'.available = Monus(balance.available, -d),
           row.type = "REFUND" \/ (row.type = "ADJUSTMENT" /\ row.amount = d),
           row.type = "REFUND" => d < 0
    PROVE  Account!AccountNext
  <1>1. {row.key} \cap PurchaseKeys = {}
    BY KeysDisjoint DEF Keys
  <1>2. HoldView' = HoldView /\ PaidView' = PaidView
    BY <1>1, PaysOnly
  <1>3. /\ balance.available + d \in Int
        /\ balance'.available = IF balance.available + d < 0 THEN 0 ELSE balance.available + d
    BY BalanceFields DEF AccountInv, RequestInv, Monus
  <1>4. TypeOK /\ ledger \in Seq(Row)
    BY DEF AccountInv, RequestInv, TypeOK
  <1>5. ASSUME d < 0 PROVE ~NoDeduction'
    BY <1>4, <1>5, DeductionAppend
  <1>6. ASSUME ~(d < 0) PROVE NoDeduction' <=> NoDeduction
    BY <1>4, <1>6, NothingWithdrawn
  <1>7. QED
    BY <1>2, <1>3, <1>5, <1>6, ShowsCorrection

LEMMA RefundShows ==
    ASSUME AccountInv, AccountInv', NEW a \in Amounts, Refund(a)
    PROVE  Account!AccountNext
  <1>1. PICK left : left = Monus(balance.available, a)
    OBVIOUS
  <1>2. PICK row : row = NewRow("REFUND", None, None, a, left)
    OBVIOUS
  <1>3. TypeOK /\ balance.available \in Int /\ a \in Int /\ left \in Int
    <2>1. TypeOK /\ balance.available \in Int /\ a \in Int
      BY BalanceFields DEF AccountInv, RequestInv, Amounts
    <2>2. QED
      BY <1>1, <2>1 DEF Monus
  <1>4. row \in Row /\ ~Reserves(row) /\ ~Settles(row) /\ row.key = None
    <2>1. row \in Row
      BY <1>2, <1>3, NewRowType DEF RowTypes
    <2>2. QED
      BY <1>2, <2>1 DEF NewRow, Reserves, Settles
  <1>5. ledger' = Append(ledger, row) /\ balance'.available = left
    BY <1>1, <1>2, <1>3 DEF Refund, TypeOK, Balance
  <1>6. PICK d \in {-x : x \in Amounts} : d = -a
    OBVIOUS
  <1>7. d \in Int /\ d < 0 /\ left = Monus(balance.available, -d)
    <2>1. a >= 1
      BY DEF Amounts
    <2>2. QED
      BY <1>1, <1>3, <1>6, <2>1 DEF Monus
  <1>8. row.type = "REFUND"
    BY <1>2 DEF NewRow
  <1>9. QED
    BY <1>4, <1>5, <1>6, <1>7, <1>8, CorrectionShows

LEMMA AdjustShows ==
    ASSUME AccountInv, AccountInv', NEW a \in AdjustAmounts, Adjust(a)
    PROVE  Account!AccountNext
  <1>1. PICK left : left = Monus(balance.available, -a)
    OBVIOUS
  <1>2. PICK row : row = NewRow("ADJUSTMENT", None, None, a, left)
    OBVIOUS
  <1>3. TypeOK /\ balance.available \in Int /\ a \in Int /\ -a \in Int /\ left \in Int
    <2>1. TypeOK /\ balance.available \in Int /\ a \in Int
      BY BalanceFields, NatParameters DEF AccountInv, RequestInv
    <2>2. QED
      BY <1>1, <2>1 DEF Monus
  <1>4. row \in Row /\ ~Reserves(row) /\ ~Settles(row) /\ row.key = None
    <2>1. row \in Row
      BY <1>2, <1>3, NewRowType DEF RowTypes
    <2>2. QED
      BY <1>2, <2>1 DEF NewRow, Reserves, Settles
  <1>5. ledger' = Append(ledger, row) /\ balance'.available = left
    BY <1>1, <1>2, <1>3 DEF Adjust, TypeOK, Balance
  <1>6. row.type = "ADJUSTMENT" /\ row.amount = a
    BY <1>2 DEF NewRow
  <1>7. QED
    BY <1>1, <1>3, <1>4, <1>5, <1>6, CorrectionShows

(* A purchase and its bonus enter together; the bonus has no key.           *)
LEMMA PurchaseShows ==
    ASSUME AccountInv, AccountInv', NEW c \in Calls, PurchaseCommit(c)
    PROVE  Account!AccountNext
  <1> USE NatParameters DEF NatParameters
  <1>1. PICK k : k = calls[c].key
    OBVIOUS
  <1>2. PICK rows : rows = PurchaseRows(k)
    OBVIOUS
  <1>3. k \in PurchaseKeys /\ k \in Keys /\ k # None /\ TypeOK
    BY <1>1, KeysDisjoint DEF AccountInv, RequestInv, CallFits, PurchaseCommit, Keys
  <1>4. /\ ledger' = ledger \o rows /\ ledger \in Seq(Row) /\ rows \in Seq(Row)
        /\ ~KeyUsed(k)
        /\ balance'.available = balance.available + PackageCredits + PackageBonus
        /\ balance.available \in Int
    BY <1>1, <1>2, <1>3, PurchaseRowsType, BalanceFields
       DEF PurchaseCommit, PurchaseAccepted, TypeOK, Balance
  <1>5. /\ \A i \in DOMAIN rows : ~Reserves(rows[i]) /\ ~Settles(rows[i]) /\ rows[i].key \in {k, None}
        /\ 1 \in DOMAIN rows /\ rows[1].key = k
    BY <1>2 DEF PurchaseRows, NewRow, Reserves, Settles
  <1>6. PICK L : L = ledger
    OBVIOUS
  <1>7. PICK M : M = ledger'
    OBVIOUS
  <1>8. /\ L \in Seq(Row) /\ M = L \o rows
        /\ \A i \in DOMAIN L : i \in DOMAIN M /\ M[i] = L[i]
        /\ \A i \in DOMAIN rows : Len(L) + i \in DOMAIN M /\ M[Len(L) + i] = rows[i]
        /\ \A i \in DOMAIN M : i \in DOMAIN L \/ \E j \in DOMAIN rows : i = Len(L) + j
    <2>1. L \in Seq(Row) /\ M = L \o rows
      BY <1>4, <1>6, <1>7
    <2>2. /\ DOMAIN L = 1..Len(L) /\ Len(L) \in Nat /\ DOMAIN rows = 1..Len(rows) /\ Len(rows) \in Nat
          /\ DOMAIN M = 1..(Len(L) + Len(rows))
          /\ \A i \in DOMAIN M : M[i] = IF i <= Len(L) THEN L[i] ELSE rows[i - Len(L)]
      BY <2>1, <1>4
    <2>3. \A i \in DOMAIN rows : Len(L) + i \in DOMAIN M /\ M[Len(L) + i] = rows[i]
      BY <2>2
    <2>4. ASSUME NEW i \in DOMAIN M, i \notin DOMAIN L
          PROVE  \E j \in DOMAIN rows : i = Len(L) + j
      <3>1. i - Len(L) \in DOMAIN rows /\ i = Len(L) + (i - Len(L))
        BY <2>2, <2>4
      <3>2. QED
        BY <3>1
    <2>5. QED
      BY <2>1, <2>2, <2>3, <2>4
  <1>9. \A r : /\ ReservedIn(M, r) <=> ReservedIn(L, r)
               /\ SettledIn(M, r) <=> SettledIn(L, r)
    <2>1. \A i \in DOMAIN rows : \A r : ~ReservesFor(M[Len(L) + i], r) /\ ~SettlesFor(M[Len(L) + i], r)
      BY <1>5, <1>8 DEF ReservesFor, SettlesFor
    <2>2. QED
      BY <1>8, <2>1, ZenonT(30) DEF ReservedIn, SettledIn
  <1>10. \E b, d \in Int : LedgerInv(L, b) /\ LedgerInv(M, d)
    <2>1. PICK b \in Int : b = balance.available
      BY <1>4
    <2>2. PICK d : d = balance'.available
      OBVIOUS
    <2>3. LedgerInv(ledger, balance.available)'
      BY DEF AccountInv, HInv, LInv
    <2>4. LedgerInv(M, d)
      BY <1>7, <2>2, <2>3 DEF LedgerInv
    <2>5. LedgerInv(L, b) /\ d \in Int
      BY <1>4, <1>6, <2>1, <2>2 DEF AccountInv, HInv, LInv
    <2>6. QED
      BY <2>4, <2>5
  <1>11. ASSUME NEW r, ReservedIn(L, r) PROVE AmountIn(M, r) = AmountIn(L, r)
    <2>1. PICK i \in DOMAIN L : ReservesFor(L[i], r)
      BY <1>11 DEF ReservedIn
    <2>2. i \in DOMAIN M /\ ReservesFor(M[i], r) /\ M[i] = L[i]
      BY <1>8, <2>1
    <2>3. QED
      BY <1>10, <2>1, <2>2, AmountOfRow
  <1>12. HoldsIn(M) = HoldsIn(L)
    BY <1>9, <1>11 DEF HoldsIn
  <1>13. PaidIn(M) = PaidIn(L) \cup {k}
    <2>1. None \notin PurchaseKeys
      BY KeysDisjoint DEF Keys
    <2>2. ASSUME NEW q \in PurchaseKeys, NEW i \in DOMAIN M, M[i].key = q
          PROVE  q = k \/ \E j \in DOMAIN L : L[j].key = q
      BY <1>5, <1>8, <2>1, <2>2
    <2>3. \E i \in DOMAIN M : M[i].key = k
      BY <1>5, <1>8
    <2>4. \A q : (\E j \in DOMAIN L : L[j].key = q) => \E i \in DOMAIN M : M[i].key = q
      BY <1>8
    <2>5. QED
      BY <1>3, <2>2, <2>3, <2>4 DEF PaidIn
  <1>14. HoldView' = HoldView /\ PaidView' = PaidView \cup {k}
    BY <1>6, <1>7, <1>12, <1>13, ViewNow, ViewNext
  <1>15. k \notin PaidView
    BY <1>4 DEF PaidView
  <1>16. balance'.available = balance.available + (PackageCredits + PackageBonus)
    BY <1>4
  <1>17. NoDeduction' <=> NoDeduction
    <2>1. \A i \in DOMAIN rows : rows[i].type \in {"PURCHASE", "BONUS"}
      BY <1>2 DEF PurchaseRows, NewRow
    <2>2. \A i \in DOMAIN M : (i \in DOMAIN L /\ M[i] = L[i]) \/ M[i].type \in {"PURCHASE", "BONUS"}
      BY <1>8, <2>1
    <2> QED
      BY <1>6, <1>7, <1>8, <2>2 DEF NoDeduction
  <1>18. QED
    BY <1>3, <1>14, <1>15, <1>16, <1>17, ShowsCredit

LEMMA StepShows ==
    ASSUME AccountInv, AccountInv', Callers = "bounded", [Next]_vars
    PROVE  [Account!AccountNext]_(Account!accountVars)
  <1>1. TypeOK
    BY DEF AccountInv, RequestInv
  <1>2. CASE UNCHANGED <<balance, ledger>>
    BY <1>2, ShowsNothing
  <1>3. CASE OpenBalance \/ \E on \in BOOLEAN : ConfigureAutoRefill(on)
    <2>1. ledger' = ledger /\ balance'.available = balance.available
      BY <1>1, <1>3 DEF OpenBalance, ConfigureAutoRefill, TypeOK, Balance
    <2>2. QED
      BY <2>1, ShowsNothing
  <1>4. CASE \E c \in Calls : PurchaseCommit(c) \/ \E r \in ReservationIds : ReserveCommit(c, r)
    BY <1>4, PurchaseShows, ReserveShows
  <1>5. CASE \E r \in ReservationIds : Release(r) \/ \E a \in Amounts : Consume(r, a)
    BY <1>5, ReleaseShows, ConsumeShows
  <1>6. CASE (\E a \in Amounts : Refund(a)) \/ \E a \in AdjustAmounts : Adjust(a)
    BY <1>6, RefundShows, AdjustShows
  <1>7. QED
    BY <1>2, <1>3, <1>4, <1>5, <1>6
       DEF Next, CallStart, CallStep, RowNext, SettleNext, CheckoutNext, vars, ReserveLookup,
           ReserveRefuse, ConsumeRollback, PurchaseFindBalance, PurchaseConflict, CheckoutPaid,
           CheckoutLookup, DirectCharge, RefillCharge, RefillDeclined, AbortCall, Restart

\* What is open is covered by the balance until something is withdrawn.
LEMMA HoldsAreCovered ==
    ASSUME AccountInv, Callers = "bounded"
    PROVE  Account!HoldsCovered
  <1>1. Account!HeldAmount = balance.reserved
    BY AccountHolds
  <1>2. NoOverdraft /\ balance.reserved \in Nat
    BY BalanceFields DEF AccountInv, RequestInv, HInv
  <1> QED
    BY <1>1, <1>2 DEF Account!HoldsCovered, NoOverdraft

(* With callers that keep to the amount they reserved, two tables, their    *)
(* locks and handlers that read before they lock are one prepaid account:   *)
(* it grants a hold only when it covers all, is credited once per payment   *)
(* and ends each hold once, and its holds stay covered until a refund or a  *)
(* negative correction is taken, for any number of handlers, keys,          *)
(* reservations and amounts.                                                *)
THEOREM AccountImplemented == Callers = "bounded" => (Spec => ImplementsAccount)
  <1> SUFFICES ASSUME Callers = "bounded" PROVE Spec => ImplementsAccount
    OBVIOUS
  <1>1. Init => Account!AccountInit
    <2> SUFFICES ASSUME Init PROVE Account!AccountInit
      OBVIOUS
    <2>1. ledger = <<>> /\ balance.available = 0
      BY DEF Init
    <2>2. \A r \in ReservationIds : ~Reserved(r)
      BY <2>1 DEF Reserved
    <2>3. {k \in PurchaseKeys : KeyUsed(k)} = {}
      BY <2>1 DEF KeyUsed
    <2>4. QED
      BY <2>1, <2>2, <2>3 DEF Account!AccountInit, Account!NoHold, NoDeduction
  <1>2. AccountInv /\ AccountInv' /\ [Next]_vars
           => [Account!AccountNext]_(Account!accountVars)
    BY StepShows
  <1>3. AccountInv => Account!HoldsCovered
    BY HoldsAreCovered
  <1>4. QED
    BY <1>1, <1>2, <1>3, AccountAlways, PTL DEF Spec, ImplementsAccount, Account!AccountSpec
=============================================================================
