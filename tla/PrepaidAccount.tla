--------------------------- MODULE PrepaidAccount ---------------------------
(***************************************************************************)
(* What the credit balance promises, without a ledger, locks or requests:  *)
(* an account that is topped up once per payment, on which an amount can   *)
(* be held only while the funds cover every hold together, and whose every *)
(* hold ends once, in a charge of at most its amount or in nothing.        *)
(* Nothing is held back from a withdrawal: one that comes while amounts    *)
(* are held may leave them uncovered, and the charges that follow take the *)
(* funds below zero.  What is promised of the funds is HoldsCovered.       *)
(***************************************************************************)
EXTENDS Integers, FiniteSetsExt

CONSTANTS Ids, Payments, TopUp, Amount, Corrections

VARIABLES
    funds,    \* what the account holds
    hold,     \* hold[id]: amount held, NoHold before and Closed after
    paid,     \* payments already credited
    withdrawn \* history: something was taken from the account otherwise than
              \* by charging a hold

accountVars == <<funds, hold, paid, withdrawn>>

NoHold == -1
Closed == -2

Open       == {id \in Ids : hold[id] >= 0}
HeldAmount == MapThenSumSet(LAMBDA id : hold[id], Open)

AccountInit ==
    /\ funds = 0
    /\ hold = [id \in Ids |-> NoHold]
    /\ paid = {}
    /\ withdrawn = FALSE

Hold(id, a) ==
    /\ hold[id] = NoHold
    /\ HeldAmount + a <= funds
    /\ hold' = [hold EXCEPT ![id] = a]
    /\ UNCHANGED <<funds, paid, withdrawn>>

Cancel(id) ==
    /\ id \in Open
    /\ hold' = [hold EXCEPT ![id] = Closed]
    /\ UNCHANGED <<funds, paid, withdrawn>>

Charge(id, a) ==
    /\ id \in Open
    /\ a <= hold[id]
    /\ hold' = [hold EXCEPT ![id] = Closed]
    /\ funds' = funds - a
    /\ UNCHANGED <<paid, withdrawn>>

Credit(p) ==
    /\ p \notin paid
    /\ paid' = paid \cup {p}
    /\ funds' = funds + TopUp
    /\ UNCHANGED <<hold, withdrawn>>

(* A refund or a correction by hand ends at zero at the least, also where   *)
(* the funds were below it: neither makes a debt, and either forgives one.  *)
Corrected(d) == Max({0, funds + d})

Deposit(d) ==
    /\ d >= 0
    /\ funds' = Corrected(d)
    /\ UNCHANGED <<hold, paid, withdrawn>>

Withdraw(d) ==
    /\ d < 0
    /\ funds' = Corrected(d)
    /\ withdrawn' = TRUE
    /\ UNCHANGED <<hold, paid>>

AccountNext ==
    \/ \E id \in Ids : \/ Cancel(id)
                       \/ \E a \in Amount : Hold(id, a) \/ Charge(id, a)
    \/ \E p \in Payments : Credit(p)
    \/ \E d \in Corrections : Deposit(d) \/ Withdraw(d)

AccountSpec == AccountInit /\ [][AccountNext]_accountVars

(* The holds never together exceed the funds, and the funds are never below *)
(* zero, until something is withdrawn.                                      *)
HoldsCovered == ~withdrawn => 0 <= HeldAmount /\ HeldAmount <= funds
=============================================================================
