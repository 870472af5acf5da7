---------------------------- MODULE CreditLedger ----------------------------
(***************************************************************************)
(* The AI credit balance of one customer: src/services/credit.service.ts.  *)
(*                                                                         *)
(* A customer has one row of credit_balances (balance) and an append-only  *)
(* table credit_transactions (ledger).  Every operation that moves the     *)
(* balance takes the row with SELECT ... FOR UPDATE (lockBalanceRow) and   *)
(* reads it again before it writes, so the part of an operation from the   *)
(* lock to the commit is one step here.  What an operation reads BEFORE    *)
(* the lock is a step of its own whenever another request can change the   *)
(* answer in between: the idempotency-key look-up of reserveCredits and of *)
(* addPurchasedCredits, and the look-up of a balance row that does not     *)
(* exist yet.  (Rows are never deleted, so the other reads made before the *)
(* lock, "is there a balance" and "is there such a reservation", keep the  *)
(* answer they had and need no step.)                                      *)
(*                                                                         *)
(* Rows of different customers meet only in the unique idempotency key,    *)
(* which callers draw from per-call identifiers; one customer is modelled. *)
(***************************************************************************)
EXTENDS Integers, Sequences

CONSTANTS
    Calls,            \* request handlers that may be in flight together
    ReserveKeys,      \* idempotency keys that callers reserve with
    CheckoutKeys,     \* "checkout:<session>" keys, one per Checkout session
    DirectKeys,       \* "pi:<intent>" keys of purchases made in the portal
    RefillKeys,       \* "pi:<intent>" keys of automatic refills
    ReservationIds,   \* uuids: a reservation draws one never seen before
    MaxAmount,        \* amounts of one call are 1..MaxAmount
    PackageCredits,   \* creditAmountCents of the package on sale
    PackageBonus,     \* bonusCents of the package
    RefillTrigger,    \* autoRefillTriggerCents
    MaxRefills,       \* autoRefillMaxCount
    AdjustAmounts,    \* amounts of an admin adjustment
    Callers,          \* what callers may consume: "bounded", "known", "any"
    MaxRows,          \* BOUND: rows of the ledger
    MaxJobs,          \* BOUND: jobs that rolled-back transactions leave queued,
                      \* and refills beyond the cap they may trigger
    None              \* SQL null

ManualKeys   == CheckoutKeys \cup DirectKeys
PurchaseKeys == ManualKeys \cup RefillKeys
Keys         == ReserveKeys \cup PurchaseKeys
Amounts      == 1..MaxAmount

ASSUME NatParameters ==
    /\ MaxAmount \in Nat
    /\ PackageCredits \in Nat \ {0}
    /\ PackageBonus \in Nat
    /\ RefillTrigger \in Nat \ {0}    \* 0 is falsy: the refill would be off
    /\ MaxRefills \in Nat
    /\ MaxRows \in Nat
    /\ MaxJobs \in Nat
    /\ AdjustAmounts \subseteq Int
    /\ Callers \in {"bounded", "known", "any"}

ASSUME KeysDisjoint ==
    /\ ReserveKeys \cap PurchaseKeys = {}
    /\ CheckoutKeys \cap DirectKeys = {}
    /\ RefillKeys \cap ManualKeys = {}
    /\ None \notin Keys \cup ReservationIds

VARIABLES
    balance,   \* the credit_balances row; opened = FALSE: no row yet
    ledger,    \* credit_transactions, in commit order
    calls,     \* what each handler holds between its steps
    charged,   \* purchase keys Stripe has collected the money for
    jobs,      \* refills queued with setImmediate, in process memory
    streak     \* history: refills triggered since the customer last authorised

vars == <<balance, ledger, calls, charged, jobs, streak>>

RowTypes == {"RESERVATION", "RELEASE", "CONSUMPTION", "PURCHASE", "BONUS",
             "REFUND", "ADJUSTMENT"}

\* amount is the magnitude of amountCents; the type tells its sign, but for
\* an ADJUSTMENT, which carries its own.
Row == [type : RowTypes, ref : ReservationIds \cup {None}, key : Keys \cup {None},
        amount : Int, before : Int, after : Int]

Balance == [opened : BOOLEAN, available : Int, reserved : Nat,
            purchased : Nat, bonus : Nat, consumed : Nat, refunded : Nat,
            refillOn : BOOLEAN, refillCount : Nat]

\* op: "reserve" has looked its key up; "purchase" has looked its key up;
\* "purchaseTx" has also looked the balance up (sawBalance).
Call == [op : {"idle", "reserve", "purchase", "purchaseTx"},
         key : Keys \cup {None}, amount : 0..MaxAmount, sawBalance : BOOLEAN]

NewCall(op, k, a) == [op |-> op, key |-> k, amount |-> a, sawBalance |-> FALSE]

Idle == NewCall("idle", None, 0)

TypeOK ==
    /\ balance \in Balance
    /\ ledger \in Seq(Row)
    /\ calls \in [Calls -> Call]
    /\ charged \subseteq PurchaseKeys
    /\ jobs \in Nat
    /\ streak \in Nat

-----------------------------------------------------------------------------
(* What the queries of the service see. *)

Monus(x, y) == IF x - y < 0 THEN 0 ELSE x - y

KeyUsed(k) == \E i \in DOMAIN ledger : ledger[i].key = k

IsReservation(i, r) == ledger[i].type = "RESERVATION" /\ ledger[i].ref = r
IsSettlement(i, r)  == ledger[i].type \in {"RELEASE", "CONSUMPTION"} /\ ledger[i].ref = r

Reserved(r) == \E i \in DOMAIN ledger : IsReservation(i, r)

\* Mistake: the second half of the OR, consumed already, is forgotten.
SettledIfReleased(r) == \E i \in DOMAIN ledger : IsSettlement(i, r) /\ ledger[i].type = "RELEASE"

Settled(r)  == \E i \in DOMAIN ledger : IsSettlement(i, r)
HoldRow(r)  == CHOOSE i \in DOMAIN ledger : IsReservation(i, r)
HoldOf(r)   == ledger[HoldRow(r)].amount

\* RESERVATION rows that are still to be released or consumed.
Outstanding ==
    {i \in DOMAIN ledger : ledger[i].type = "RESERVATION" /\ ~Settled(ledger[i].ref)}

FreshId(r) == \A i \in DOMAIN ledger : ledger[i].ref # r

\* Mistake: the reservations of others are not set aside.
EffectiveIgnoringHolds == balance.available

Effective == balance.available - balance.reserved

NewRow(type, ref, key, amount, after) ==
    [type |-> type, ref |-> ref, key |-> key, amount |-> amount,
     before |-> balance.available, after |-> after]

Room(n) == Len(ledger) + n <= MaxRows

-----------------------------------------------------------------------------
(* getOrCreateCreditBalance, as every balance query of the portal calls it. *)
OpenBalance ==
    /\ ~balance.opened
    /\ balance' = [balance EXCEPT !.opened = TRUE]
    /\ UNCHANGED <<ledger, calls, charged, jobs, streak>>

(* reserveCredits: the key is looked up before the transaction ...          *)
ReserveLookup(c, k, a) ==
    /\ calls[c] = Idle
    /\ ~KeyUsed(k)
    /\ calls' = [calls EXCEPT ![c] = NewCall("reserve", k, a)]
    /\ UNCHANGED <<balance, ledger, charged, jobs, streak>>

(* ... and the transaction checks the effective balance under the lock; the *)
(* unique index on the key decides between two calls that both found it     *)
(* unused.                                                                  *)
ReserveAccepted(c) ==
    /\ balance.opened
    /\ Effective >= calls[c].amount
    /\ ~KeyUsed(calls[c].key)

ReserveCommit(c, r) ==
    /\ calls[c].op = "reserve"
    /\ ReserveAccepted(c)
    /\ FreshId(r)
    /\ Room(1)
    /\ ledger' = Append(ledger, NewRow("RESERVATION", r, calls[c].key, calls[c].amount,
                                       balance.available))
    /\ balance' = [balance EXCEPT !.reserved = @ + calls[c].amount]
    /\ calls' = [calls EXCEPT ![c] = Idle]
    /\ UNCHANGED <<charged, jobs, streak>>

ReserveRefuse(c) ==
    /\ calls[c].op = "reserve"
    /\ ~ReserveAccepted(c)
    /\ calls' = [calls EXCEPT ![c] = Idle]
    /\ UNCHANGED <<balance, ledger, charged, jobs, streak>>

(* releaseReservation: refused for an unknown or a settled reservation.     *)
Release(r) ==
    /\ Reserved(r)
    /\ ~Settled(r)
    /\ Room(1)
    /\ ledger' = Append(ledger, NewRow("RELEASE", r, None, HoldOf(r), balance.available))
    /\ balance' = [balance EXCEPT !.reserved = Monus(@, HoldOf(r))]
    /\ UNCHANGED <<calls, charged, jobs, streak>>

-----------------------------------------------------------------------------
(* consumeCredits(r, a).  The service takes any reservation id and any      *)
(* positive amount.  Callers restricts the callers, not the service: "any"  *)
(* passes whatever the route accepts, "known" consumes reservations it got, *)
(* at whatever the call turned out to cost, and "bounded" also keeps to the *)
(* amount it reserved.                                                      *)
CallerConsumes(r, a) ==
    /\ Callers # "any" => Reserved(r)
    /\ Callers = "bounded" => a <= HoldOf(r)

(* Consuming twice answers from the ledger and consuming after a release    *)
(* throws; neither writes.                                                  *)
ConsumeAccepted(r, a) ==
    /\ CallerConsumes(r, a)
    /\ balance.opened
    /\ ~Settled(r)
    /\ Room(1)

\* Mistake: only what was used is taken off the reserved amount.
AmountHeldAsUsed(r, a) == a

AmountHeld(r, a) == IF Reserved(r) THEN HoldOf(r) ELSE a

(* shouldTriggerAutoRefill, on the row the consumption has just updated. *)
RefillDue(available) ==
    /\ balance.refillOn
    /\ available <= RefillTrigger
    /\ balance.refillCount < MaxRefills

Consume(r, a) ==
    /\ ConsumeAccepted(r, a)
    /\ LET left == balance.available - a
       IN /\ ledger' = Append(ledger, NewRow("CONSUMPTION", r, None, a, left))
          /\ balance' = [balance EXCEPT
                           !.available   = left,
                           !.reserved    = Monus(@, AmountHeld(r, a)),
                           !.consumed    = @ + a,
                           !.refillCount = IF RefillDue(left) THEN @ + 1 ELSE @]
          /\ jobs'   = IF RefillDue(left) THEN jobs + 1 ELSE jobs
          /\ streak' = IF RefillDue(left) THEN streak + 1 ELSE streak
    /\ UNCHANGED <<calls, charged>>

(* triggerAutoRefill queues the payment while the transaction is open: a    *)
(* commit that then fails takes the rows back, but not the job.             *)
ConsumeRollback(r, a) ==
    /\ ConsumeAccepted(r, a)
    /\ RefillDue(balance.available - a)
    /\ jobs < MaxJobs
    /\ streak < MaxRefills + MaxJobs
    /\ jobs' = jobs + 1
    /\ streak' = streak + 1
    /\ UNCHANGED <<balance, ledger, calls, charged>>

-----------------------------------------------------------------------------
(* addPurchasedCredits, in three steps: the key, the balance row, the       *)
(* locked transaction.                                                      *)
StartPurchase(c, k) ==
    /\ calls[c] = Idle
    /\ calls' = [calls EXCEPT ![c] = NewCall("purchase", k, 0)]

PurchaseFindBalance(c) ==
    /\ calls[c].op = "purchase"
    /\ calls' = [calls EXCEPT ![c].op = "purchaseTx", ![c].sawBalance = balance.opened]
    /\ UNCHANGED <<balance, ledger, charged, jobs, streak>>

\* Mistake: no unique index on the idempotency key.
PurchaseAcceptedNoIndex(c) == calls[c].sawBalance = balance.opened

(* Two transactions that both found no balance row both insert one; the     *)
(* unique customer_id lets one through, as the unique key does for two      *)
(* deliveries of one purchase.                                              *)
PurchaseAccepted(c) ==
    /\ calls[c].sawBalance = balance.opened
    /\ ~KeyUsed(calls[c].key)

\* Mistake: the bonus row starts from the balance before the purchase.
PurchaseRowsFromSameBalance(k) ==
    LET paid == NewRow("PURCHASE", None, k, PackageCredits, balance.available + PackageCredits)
        free == NewRow("BONUS", None, None, PackageBonus, paid.after + PackageBonus)
    IN  IF PackageBonus > 0 THEN <<paid, free>> ELSE <<paid>>

PurchaseRows(k) ==
    LET paid == NewRow("PURCHASE", None, k, PackageCredits, balance.available + PackageCredits)
        free == [type |-> "BONUS", ref |-> None, key |-> None, amount |-> PackageBonus,
                 before |-> paid.after, after |-> paid.after + PackageBonus]
    IN  IF PackageBonus > 0 THEN <<paid, free>> ELSE <<paid>>

PurchaseCommit(c) ==
    /\ calls[c].op = "purchaseTx"
    /\ PurchaseAccepted(c)
    /\ Room(2)
    /\ ledger' = ledger \o PurchaseRows(calls[c].key)
    /\ balance' = [balance EXCEPT
                     !.opened      = TRUE,
                     !.available   = @ + PackageCredits + PackageBonus,
                     !.purchased   = @ + PackageCredits,
                     !.bonus       = @ + PackageBonus,
                     !.refillCount = 0]
    /\ streak' = IF calls[c].key \in ManualKeys THEN 0 ELSE streak
    /\ calls' = [calls EXCEPT ![c] = Idle]
    /\ UNCHANGED <<charged, jobs>>

PurchaseConflict(c) ==
    /\ calls[c].op = "purchaseTx"
    /\ ~PurchaseAccepted(c)
    /\ calls' = [calls EXCEPT ![c] = Idle]
    /\ UNCHANGED <<balance, ledger, charged, jobs, streak>>

(* A Checkout session is paid at Stripe; its webhook then asks for the      *)
(* credits, as often as Stripe delivers it.                                 *)
CheckoutPaid(k) ==
    /\ k \notin charged
    /\ charged' = charged \cup {k}
    /\ UNCHANGED <<balance, ledger, calls, jobs, streak>>

CheckoutLookup(c, k) ==
    /\ k \in charged
    /\ ~KeyUsed(k)
    /\ StartPurchase(c, k)
    /\ UNCHANGED <<balance, ledger, charged, jobs, streak>>

(* purchaseCreditsDirectly: the card is charged and the credits are added   *)
(* by the same call.  A new payment intent has a key no row can have.       *)
DirectCharge(c, k) ==
    /\ k \notin charged
    /\ StartPurchase(c, k)
    /\ charged' = charged \cup {k}
    /\ UNCHANGED <<balance, ledger, jobs, streak>>

RefillCharge(c, k) ==
    /\ jobs > 0
    /\ k \notin charged
    /\ StartPurchase(c, k)
    /\ charged' = charged \cup {k}
    /\ jobs' = jobs - 1
    /\ UNCHANGED <<balance, ledger, streak>>

(* The card is declined, or the package is no longer active.                *)
RefillDeclined ==
    /\ jobs > 0
    /\ jobs' = jobs - 1
    /\ UNCHANGED <<balance, ledger, calls, charged, streak>>

-----------------------------------------------------------------------------
(* configureAutoRefill takes no lock of its own, but its one UPDATE waits   *)
(* for the row like every other writer.                                     *)
ConfigureAutoRefill(on) ==
    /\ balance.opened
    /\ balance' = [balance EXCEPT !.refillOn = on, !.refillCount = 0]
    /\ streak' = 0
    /\ UNCHANGED <<ledger, calls, charged, jobs>>

(* refundCredits deducts at most what is there, and lifts a balance that is *)
(* below zero to zero, although its comment says that the balance "can go   *)
(* negative if user spent credits".                                         *)
Refund(a) ==
    /\ balance.opened
    /\ Room(1)
    /\ ledger' = Append(ledger, NewRow("REFUND", None, None, a, Monus(balance.available, a)))
    /\ balance' = [balance EXCEPT !.available = Monus(@, a), !.refunded = @ + a]
    /\ UNCHANGED <<calls, charged, jobs, streak>>

(* adjustCredits, exported but called by no route. *)
Adjust(a) ==
    /\ Room(1)
    /\ ledger' = Append(ledger, NewRow("ADJUSTMENT", None, None, a, Monus(balance.available, -a)))
    /\ balance' = [balance EXCEPT !.opened = TRUE, !.available = Monus(@, -a)]
    /\ UNCHANGED <<calls, charged, jobs, streak>>

(* A call ends early (database error, transaction timeout), or the process  *)
(* restarts: what it held in memory is gone, the database is as it was.     *)
AbortCall(c) ==
    /\ calls[c] # Idle
    /\ calls' = [calls EXCEPT ![c] = Idle]
    /\ UNCHANGED <<balance, ledger, charged, jobs, streak>>

Restart ==
    /\ calls' = [c \in Calls |-> Idle]
    /\ jobs' = 0
    /\ UNCHANGED <<balance, ledger, charged, streak>>

-----------------------------------------------------------------------------
Init ==
    /\ balance = [opened |-> FALSE, available |-> 0, reserved |-> 0,
                  purchased |-> 0, bonus |-> 0, consumed |-> 0, refunded |-> 0,
                  refillOn |-> FALSE, refillCount |-> 0]
    /\ ledger = <<>>
    /\ calls = [c \in Calls |-> Idle]
    /\ charged = {}
    /\ jobs = 0
    /\ streak = 0

\* A request arrives at handler c; a request under way takes its next step.
CallStart(c) ==
    \/ \E k \in ReserveKeys, a \in Amounts : ReserveLookup(c, k, a)
    \/ \E k \in DirectKeys : DirectCharge(c, k)
    \/ \E k \in RefillKeys : RefillCharge(c, k)

CallStep(c) ==
    \/ \E r \in ReservationIds : ReserveCommit(c, r)
    \/ ReserveRefuse(c)
    \/ PurchaseFindBalance(c)
    \/ PurchaseCommit(c)
    \/ PurchaseConflict(c)

CheckoutNext ==
    \E k \in CheckoutKeys : CheckoutPaid(k) \/ \E c \in Calls : CheckoutLookup(c, k)

SettleNext(r) ==
    \/ Release(r)
    \/ \E a \in Amounts : Consume(r, a) \/ ConsumeRollback(r, a)

\* The operations that are one locked transaction or one UPDATE.  Refunds and
\* checkouts are apart: CreditWebhooks drives them from Stripe's events.
RowNext ==
    \/ OpenBalance
    \/ \E r \in ReservationIds : SettleNext(r)
    \/ RefillDeclined
    \/ \E on \in BOOLEAN : ConfigureAutoRefill(on)
    \/ \E a \in AdjustAmounts : Adjust(a)

Next ==
    \/ \E c \in Calls : CallStart(c) \/ CallStep(c) \/ AbortCall(c)
    \/ RowNext
    \/ CheckoutNext
    \/ \E a \in Amounts : Refund(a)
    \/ Restart

Spec == Init /\ [][Next]_vars

-----------------------------------------------------------------------------
(* Properties. *)

(* A reservation is settled once: whatever the order of concurrent and      *)
(* repeated consume and release calls, at most one RELEASE or CONSUMPTION   *)
(* row names it (the comment in releaseReservation).                        *)
SettledOnce ==
    \A r \in ReservationIds : \A i, j \in DOMAIN ledger :
        IsSettlement(i, r) /\ IsSettlement(j, r) => i = j

(* An idempotency key buys or reserves once, however often and however      *)
(* concurrently the call that carries it is repeated.                       *)
KeysUsedOnce ==
    \A i, j \in DOMAIN ledger :
        ledger[i].key # None /\ ledger[i].key = ledger[j].key => i = j

(* The ledger is an audit trail of the balance: every row starts from the   *)
(* balance its predecessor left, and the last one left the balance there    *)
(* is.  A write computed from a stale read would break the chain.           *)
LedgerChains ==
    /\ \A i \in DOMAIN ledger :
          ledger[i].before = IF i = 1 THEN 0 ELSE ledger[i - 1].after
    /\ balance.available = IF ledger = <<>> THEN 0 ELSE ledger[Len(ledger)].after

(* Nothing but consumption has lowered the balance so far. *)
NoDeduction ==
    \A i \in DOMAIN ledger :
        /\ ledger[i].type # "REFUND"
        /\ ledger[i].type = "ADJUSTMENT" => ledger[i].amount >= 0

(* "Prevents overdraft by reserving credits before the call is made": while *)
(* callers consume no more than they reserved, and nothing else is taken    *)
(* from the balance, every open reservation stays covered.                  *)
NoOverdraft ==
    Callers = "bounded" /\ NoDeduction => balance.reserved <= balance.available

(* The same promise whatever a call turns out to cost: the balance never    *)
(* falls below zero.                                                        *)
NeverNegative == NoDeduction => balance.available >= 0

(* autoRefillMaxCount bounds the refills the service makes on its own       *)
(* between two acts of the customer (a manual purchase, a reconfiguration). *)
RefillsCapped == streak <= MaxRefills
=============================================================================
