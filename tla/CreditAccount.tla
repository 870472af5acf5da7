---------------------------- MODULE CreditAccount ----------------------------
(***************************************************************************)
(* The credit ledger, seen as a prepaid account: the holds are the         *)
(* reservations no row of the ledger settles, the payments are the keys of *)
(* the PURCHASE rows.                                                      *)
(***************************************************************************)
EXTENDS CreditLedger, FiniteSetsExt

(* reserved_cents is a running total that no one recomputes: it equals the  *)
(* sum of the outstanding reservations, so that what a release or a         *)
(* consumption subtracts is what its reservation had added.  A consumption  *)
(* of an id that was never reserved takes its amount from other holds.      *)
ReservedIsOutstanding ==
    Callers # "any" =>
        balance.reserved = MapThenSumSet(LAMBDA i : ledger[i].amount, Outstanding)

Account == INSTANCE PrepaidAccount WITH
    Ids         <- ReservationIds,
    Payments    <- PurchaseKeys,
    TopUp       <- PackageCredits + PackageBonus,
    Amount      <- Amounts,
    Corrections <- AdjustAmounts \cup {-a : a \in Amounts},
    funds       <- balance.available,
    hold        <- [r \in ReservationIds |->
                      IF ~Reserved(r) THEN -1 ELSE IF Settled(r) THEN -2 ELSE HoldOf(r)],
    paid        <- {k \in PurchaseKeys : KeyUsed(k)},
    withdrawn   <- ~NoDeduction

(* With callers that keep to the amount they reserved, the ledger implements*)
(* the prepaid account: every step is one of its operations or changes      *)
(* nothing it shows, and the holds are covered until a refund or a negative *)
(* correction, which the service takes without looking at what is reserved. *)
ImplementsAccount == Account!AccountSpec /\ []Account!HoldsCovered
=============================================================================
