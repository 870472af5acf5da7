-------------------------- MODULE MCCreditWebhooks --------------------------
(* Model-checking instances of CreditWebhooks. *)
EXTENDS CreditWebhooks
NoAdjustments == {}
=============================================================================
