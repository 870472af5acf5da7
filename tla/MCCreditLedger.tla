--------------------------- MODULE MCCreditLedger ---------------------------
(* Model-checking instances of CreditLedger and of CreditAccount. *)
EXTENDS CreditAccount, TLC

\* Handlers, keys and reservation ids are only compared, and none of them is
\* named by a property: their permutations map behaviours to behaviours.
Symmetric == Permutations(Calls) \cup Permutations(ReserveKeys)
               \cup Permutations(ReservationIds)

MCAdjustAmounts == {-1}
NoAdjustments   == {}
=============================================================================
