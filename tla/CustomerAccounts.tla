-------------------------- MODULE CustomerAccounts --------------------------
(***************************************************************************)
(* Customer rows, their passwords, the lock after failed logins and the    *)
(* password reset tokens (services/customer.service.ts and the routes of   *)
(* portal.ts and automation.ts that call it).                              *)
(*                                                                         *)
(* A handler is one HTTP request: it reads, hashes or compares a password  *)
(* for a quarter of a second, and writes what it computed from the row it  *)
(* read.  A request the code refuses at once changes nothing and is left   *)
(* out; mail, captcha and Stripe ids are too.                              *)
(***************************************************************************)
EXTENDS Naturals, FiniteSets

CONSTANTS
    Emails,       \* canonical e-mail addresses: the unique key of customers
    Passwords,
    ExternalIds,  \* ids of customers in the system that calls with an API key
    Askers,       \* request handlers
    MaxResets,    \* bound: reset tokens ever issued
    Lockout,      \* LOCKOUT_ATTEMPTS
    MaxWrong,     \* bound: wrong passwords counted per address
    Nobody        \* no such row, password, id or request

ResetIds == 1 .. MaxResets \* tokens in the order of their issue

Rows == [password : Passwords \cup {Nobody}, failed : 0 .. MaxWrong,
         lock : {"none", "held", "lapsed"}, external : ExternalIds \cup {Nobody}]

ASSUME AccountAssumption ==
    /\ Lockout \in Nat \ {0}
    /\ MaxWrong \in Nat /\ MaxResets \in Nat
    /\ Nobody \notin Emails \cup Passwords \cup ExternalIds \cup ResetIds
    /\ Nobody \notin Rows

VARIABLES
    customer,   \* customer[e]: the row of the address
    resets,     \* resets[t]: the row of the reset token; crossed: issued while a
                \* second issue for the address was due
    requests,   \* requests[h]: what handler h read and has yet to write
    wrong,      \* wrong[e]: wrong passwords since the count last started over
    serial,     \* serial[e]: since then no write crossed a login's read and write
    resetBy     \* resetBy[t]: [uses: passwords set with t, raced: two handlers
                \* held it at once]

accountVars == <<customer, resets, requests, wrong, serial, resetBy>>

NoRow      == [password |-> Nobody, failed |-> 0, lock |-> "none", external |-> Nobody]
Unread     == [password |-> Nobody, failed |-> 0] \* what a login keeps of the row
NoRequest  == [step |-> "idle", email |-> Nobody, given |-> Nobody, seen |-> Unread,
               token |-> Nobody, external |-> Nobody]
NoReset    == [email |-> Nobody, state |-> "unissued", crossed |-> FALSE]
SpentStillUsable(row) == [row EXCEPT !.crossed = FALSE] \* mutant: usedAt is not set
Spent(row) == [row EXCEPT !.state = "spent", !.crossed = FALSE] \* used, or past its hour

RandomPassword == Nobody \* nobody knows it: no request gives it

Steps == {"idle", "clear", "compare", "create", "createThenLogin", "link",
          "createExternal", "invalidate", "issue", "reset", "change"}

AccountTypeOK ==
    /\ customer \in [Emails -> Rows \cup {Nobody}]
    /\ resets \in [ResetIds -> [email : Emails \cup {Nobody}, state : {"unissued", "usable", "spent"},
                               crossed : BOOLEAN]]
    /\ requests \in [Askers -> [step : Steps, email : Emails \cup {Nobody},
                                given : Passwords \cup {Nobody},
                                seen : [password : Passwords \cup {Nobody}, failed : 0 .. MaxWrong],
                                token : ResetIds \cup {Nobody},
                                external : ExternalIds \cup {Nobody}]]
    /\ wrong \in [Emails -> 0 .. MaxWrong]
    /\ serial \in [Emails -> BOOLEAN]
    /\ resetBy \in [ResetIds -> [uses : Nat, raced : BOOLEAN]]

AccountInit ==
    /\ customer = [e \in Emails |-> Nobody]
    /\ resets = [t \in ResetIds |-> NoReset]
    /\ requests = [h \in Askers |-> NoRequest]
    /\ wrong = [e \in Emails |-> 0]
    /\ serial = [e \in Emails |-> TRUE]
    /\ resetBy = [t \in ResetIds |-> [uses |-> 0, raced |-> FALSE]]

-----------------------------------------------------------------------------
(* What a handler read and where it stands. *)

Registered(e) == customer[e] # Nobody
OwnerOf(x)    == {e \in Emails : Registered(e) /\ customer[e].external = x}
At(h, step)   == requests[h].step = step
Answer(h)     == requests' = [requests EXCEPT ![h] = NoRequest]
Step(h, step) == requests' = [requests EXCEPT ![h].step = step]

LoggingIn(h, e) == requests[h].email = e /\ requests[h].step \in {"clear", "compare"}
\* Some other login read the counters of e and has not written them.
Crossed(h, e)   == \E g \in Askers \ {h} : LoggingIn(g, e)

\* A write to the counters of e: other logins still hold the row as it was.
Overtakes(h, e) == serial' = [serial EXCEPT ![e] = @ /\ ~Crossed(h, e)]
\* A fresh start of the count, unless a login still holds the old one.
StartsOver(h, e) ==
    /\ wrong' = [wrong EXCEPT ![e] = 0]
    /\ serial' = [serial EXCEPT ![e] = ~Crossed(h, e)]

-----------------------------------------------------------------------------
(* authenticateCustomer: portal.ts /auth/login. *)

\* Mutant: the handler counts from nothing.
KeptPassword(row) == [password |-> row.password, failed |-> 0]
Kept(row) == [password |-> row.password, failed |-> row.failed]

\* The row is read once.  A held lock refuses; an unknown address is refused too.
Authentication(e, p) ==
    [NoRequest EXCEPT !.step = IF customer[e].lock = "lapsed" THEN "clear" ELSE "compare",
                      !.email = e, !.given = p, !.seen = Kept(customer[e])]
MayTry(e) == Registered(e) /\ customer[e].lock # "held"

Login(h, e, p) ==
    /\ At(h, "idle") /\ MayTry(e)
    /\ requests' = [requests EXCEPT ![h] = Authentication(e, p)]
    /\ UNCHANGED <<customer, resets, wrong, serial, resetBy>>

\* A lapsed lock is cleared in the row, not in the copy the handler counts from.
ClearLapsedLock(h) ==
    LET e == requests[h].email IN
    /\ At(h, "clear")
    /\ customer' = [customer EXCEPT ![e].lock = "none", ![e].failed = 0]
    /\ Step(h, "compare")
    /\ Overtakes(h, e)
    /\ UNCHANGED <<resets, wrong, resetBy>>

RejectPassword(h) ==
    LET e == requests[h].email
        failed == requests[h].seen.failed + 1
    IN
    /\ At(h, "compare") /\ requests[h].given # requests[h].seen.password
    /\ wrong[e] < MaxWrong /\ failed <= MaxWrong
    /\ customer' = [customer EXCEPT ![e].failed = failed,
                                    ![e].lock = IF failed >= Lockout THEN "held" ELSE @]
    /\ wrong' = [wrong EXCEPT ![e] = @ + 1]
    /\ Overtakes(h, e)
    /\ Answer(h)
    /\ UNCHANGED <<resets, resetBy>>

\* The token that is then signed belongs to Sessions.
AcceptPassword(h) ==
    LET e == requests[h].email IN
    /\ At(h, "compare") /\ requests[h].given = requests[h].seen.password
    /\ customer' = IF requests[h].seen.failed > 0
                     THEN [customer EXCEPT ![e].failed = 0, ![e].lock = "none"]
                     ELSE customer
    /\ IF requests[h].seen.failed > 0 \/ customer[e].failed = 0
         THEN StartsOver(h, e)
         ELSE Overtakes(h, e) /\ UNCHANGED wrong
    /\ Answer(h)
    /\ UNCHANGED <<resets, resetBy>>

LockLapses(e) ==
    /\ Registered(e) /\ customer[e].lock = "held"
    /\ customer' = [customer EXCEPT ![e].lock = "lapsed"]
    /\ UNCHANGED <<resets, requests, wrong, serial, resetBy>>

-----------------------------------------------------------------------------
(* createCustomer and its callers. *)

\* The address is free when it is looked up: hashing and Stripe come next.
Creation(e, p, step) == [NoRequest EXCEPT !.step = step, !.email = e, !.given = p]

Register(h, e, p) ==
    /\ At(h, "idle") /\ ~Registered(e)
    /\ requests' = [requests EXCEPT ![h] = Creation(e, p, "createThenLogin")]
    /\ UNCHANGED <<customer, resets, wrong, serial, resetBy>>

\* Automation and the first start create a customer nobody logs in as at once.
CreateForAutomation(h, e) ==
    /\ At(h, "idle") /\ ~Registered(e)
    /\ requests' = [requests EXCEPT ![h] = Creation(e, RandomPassword, "create")]
    /\ UNCHANGED <<customer, resets, wrong, serial, resetBy>>

EnsureAdminExists(h, e, p) ==
    /\ At(h, "idle") /\ ~Registered(e)
    /\ requests' = [requests EXCEPT ![h] = Creation(e, p, "create")]
    /\ UNCHANGED <<customer, resets, wrong, serial, resetBy>>

\* The unique address refuses the second of two creations.  A registration
\* goes on to log in with the password it has just stored.
CreateCustomer(h) ==
    LET e == requests[h].email
        row == [NoRow EXCEPT !.password = requests[h].given]
    IN
    /\ requests[h].step \in {"create", "createThenLogin"} /\ ~Registered(e)
    /\ customer' = [customer EXCEPT ![e] = row]
    /\ requests' = [requests EXCEPT ![h] =
                      IF At(h, "create") THEN NoRequest
                      ELSE [@ EXCEPT !.step = "compare", !.seen = Kept(row)]]
    /\ UNCHANGED <<resets, wrong, serial, resetBy>>

CreationRefused(h) ==
    /\ requests[h].step \in {"create", "createThenLogin"} /\ Registered(requests[h].email)
    /\ Answer(h)
    /\ UNCHANGED <<customer, resets, wrong, serial, resetBy>>

\* portal.ts /invite/:token/accept: an account that exists must prove its
\* password outside the lock; a new one is created with the password given.
AcceptInvite(h, e, p) ==
    /\ At(h, "idle")
    /\ \/ /\ ~Registered(e)
          /\ requests' = [requests EXCEPT ![h] = Creation(e, p, "createThenLogin")]
       \/ /\ Registered(e) /\ customer[e].password = p /\ MayTry(e)
          /\ requests' = [requests EXCEPT ![h] = Authentication(e, p)]
    /\ UNCHANGED <<customer, resets, wrong, serial, resetBy>>

-----------------------------------------------------------------------------
(* createExternalCustomer: portal.ts POST /customers. *)

\* Known by its external id: answered as it stands.  Known by its address: linked.
PostExternalCustomer(h, x, e) ==
    /\ At(h, "idle") /\ OwnerOf(x) = {}
    /\ requests' = [requests EXCEPT ![h] =
                      [NoRequest EXCEPT !.step = IF Registered(e) THEN "link" ELSE "createExternal",
                                        !.email = e, !.external = x]]
    /\ UNCHANGED <<customer, resets, wrong, serial, resetBy>>

\* The external id is unique: a link or a creation that comes second fails.
WriteExternalCustomer(h) ==
    LET e == requests[h].email
        x == requests[h].external
        row == [NoRow EXCEPT !.password = RandomPassword, !.external = x]
    IN
    /\ OwnerOf(x) \ {e} = {}
    /\ \/ At(h, "link") /\ customer' = [customer EXCEPT ![e].external = x]
       \/ At(h, "createExternal") /\ ~Registered(e) /\ customer' = [customer EXCEPT ![e] = row]
    /\ Answer(h)
    /\ UNCHANGED <<resets, wrong, serial, resetBy>>

-----------------------------------------------------------------------------
(* Password resets and changes. *)

Usable(t)     == resets[t].state = "usable"
UsableOf(e)   == {t \in ResetIds : Usable(t) /\ resets[t].email = e}
Holding(h, t) == At(h, "reset") /\ requests[h].token = t

\* createPasswordResetToken invalidates, then issues: two writes.
ForgotPassword(h, e) ==
    /\ At(h, "idle") /\ Registered(e)
    /\ requests' = [requests EXCEPT ![h] = [NoRequest EXCEPT !.step = "invalidate", !.email = e]]
    /\ UNCHANGED <<customer, resets, wrong, serial, resetBy>>

InvalidateResets(h) ==
    /\ At(h, "invalidate")
    /\ resets' = [t \in ResetIds |->
                    IF resets[t].email = requests[h].email THEN Spent(resets[t])
                    ELSE resets[t]]
    /\ Step(h, "issue")
    /\ UNCHANGED <<customer, wrong, serial, resetBy>>

IssueReset(h, t) ==
    /\ At(h, "issue") /\ {u \in ResetIds : resets[u].state # "unissued"} = 1 .. (t - 1)
    /\ resets' = [resets EXCEPT ![t] =
                    [email |-> requests[h].email, state |-> "usable",
                     crossed |-> \E g \in Askers \ {h} :
                                   At(g, "issue") /\ requests[g].email = requests[h].email]]
    /\ Answer(h)
    /\ UNCHANGED <<customer, wrong, serial, resetBy>>

ResetLapses(t) ==
    /\ Usable(t)
    /\ resets' = [resets EXCEPT ![t] = Spent(@)]
    /\ UNCHANGED <<customer, requests, wrong, serial, resetBy>>

\* verifyPasswordResetToken, then a new hash: the token is not looked at again.
ResetPassword(h, t, p) ==
    /\ At(h, "idle") /\ Usable(t)
    /\ requests' = [requests EXCEPT ![h] =
                      [NoRequest EXCEPT !.step = "reset", !.token = t, !.given = p,
                                        !.email = resets[t].email]]
    /\ resetBy' = [resetBy EXCEPT ![t].raced = @ \/ \E g \in Askers : Holding(g, t)]
    /\ UNCHANGED <<customer, resets, wrong, serial>>

ApplyReset(h) ==
    LET e == requests[h].email
        t == requests[h].token
    IN
    /\ At(h, "reset")
    /\ customer' = [customer EXCEPT ![e].password = requests[h].given,
                                    ![e].failed = 0, ![e].lock = "none"]
    /\ resets' = [resets EXCEPT ![t] = Spent(@)]
    /\ resetBy' = [resetBy EXCEPT ![t].uses = @ + 1]
    /\ StartsOver(h, e)
    /\ Answer(h)

\* PUT /me: the current password is checked against a row read beforehand.
ChangePassword(h, e, current, p) ==
    /\ At(h, "idle") /\ Registered(e) /\ customer[e].password = current /\ p # current
    /\ requests' = [requests EXCEPT ![h] =
                      [NoRequest EXCEPT !.step = "change", !.email = e, !.given = p]]
    /\ UNCHANGED <<customer, resets, wrong, serial, resetBy>>

ApplyChange(h) ==
    /\ At(h, "change")
    /\ customer' = [customer EXCEPT ![requests[h].email].password = requests[h].given]
    /\ Answer(h)
    /\ UNCHANGED <<resets, wrong, serial, resetBy>>

\* The process stops, or the database refuses, between two steps.
RequestFails(h) ==
    /\ ~At(h, "idle")
    /\ Answer(h)
    /\ serial' = [e \in Emails |-> serial[e] /\ ~LoggingIn(h, e)]
    /\ UNCHANGED <<customer, resets, wrong, resetBy>>

-----------------------------------------------------------------------------

AccountNext ==
    \/ \E h \in Askers :
         \/ ClearLapsedLock(h) \/ RejectPassword(h) \/ AcceptPassword(h)
         \/ CreateCustomer(h) \/ CreationRefused(h) \/ WriteExternalCustomer(h)
         \/ InvalidateResets(h) \/ ApplyReset(h) \/ ApplyChange(h) \/ RequestFails(h)
         \/ \E e \in Emails : CreateForAutomation(h, e) \/ ForgotPassword(h, e)
         \/ \E e \in Emails, x \in ExternalIds : PostExternalCustomer(h, x, e)
         \/ \E e \in Emails, p \in Passwords :
              \/ Login(h, e, p) \/ Register(h, e, p) \/ EnsureAdminExists(h, e, p)
              \/ AcceptInvite(h, e, p)
              \/ \E current \in Passwords : ChangePassword(h, e, current, p)
         \/ \E t \in ResetIds : IssueReset(h, t) \/ \E p \in Passwords : ResetPassword(h, t, p)
    \/ \E e \in Emails : LockLapses(e)
    \/ \E t \in ResetIds : ResetLapses(t)

AccountSpec == AccountInit /\ [][AccountNext]_accountVars

-----------------------------------------------------------------------------
(* What the accounts promise. *)

\* While no login crosses another write and none is half way, the row counts
\* exactly the wrong passwords since the last right one or reset, and an
\* account that has taken Lockout of them is locked or its lock has run out:
\* the count survives the lapse of a lock, for the handler clears the row and
\* counts on from the copy it read.
CountsFailures ==
    \A e \in Emails :
        (Registered(e) /\ serial[e] /\ \A h \in Askers : ~LoggingIn(h, e)) =>
            /\ customer[e].failed = wrong[e]
            /\ (customer[e].lock # "none") <=> (wrong[e] >= Lockout)

\* A reset token sets the password once, unless two requests had verified it
\* before either stored a password; and asking again retires the link sent
\* before, unless two requests had both invalidated before either issued.
ResetsReplaceEachOther ==
    /\ \A t \in ResetIds : resetBy[t].uses > 1 => resetBy[t].raced
    /\ \A e \in Emails : \A t, u \in UsableOf(e) :
         t # u => resets[t].crossed \/ resets[u].crossed
=============================================================================
