---------------------------- MODULE AccountProofs ----------------------------
(***************************************************************************)
(* Proofs about what a customer meets at the desk, for any number of       *)
(* addresses, tokens, replicas, quotes and handlers: wrong passwords are   *)
(* counted, a reset link retires the one before it, a session that was     *)
(* ended is over, and a quote is priced and sold once.  At the end, the    *)
(* types of these and of the parts of OfficeProofs, as they are run.       *)
(***************************************************************************)
EXTENDS MCOffice, OfficeProofs, TLAPS

-----------------------------------------------------------------------------
(* Customer accounts: the lock after failed logins. *)

\* The requests whose step works on a customer's row have found it.
RequestsFit ==
    \A h \in Askers :
        /\ requests[h].step # "idle" => requests[h].email \in Emails
        /\ requests[h].step \in {"clear", "compare", "link", "invalidate", "issue", "reset", "change"}
             => Registered(requests[h].email)
        /\ requests[h].step = "reset" =>
             /\ requests[h].token \in ResetIds
             /\ resets[requests[h].token].state # "unissued"
             /\ resets[requests[h].token].email = requests[h].email

\* A token that was issued is for a customer.
ResetsFit ==
    \A t \in ResetIds : resets[t].state # "unissued" =>
        resets[t].email \in Emails /\ Registered(resets[t].email)

\* The count of one address.  Nothing was counted without a row; a row whose
\* count is zero is open; the only login under way, when none crossed a write
\* before it, counts on from the wrong passwords so far, and knows of a lock that
\* has run out; and with none under way the row holds the count.
CountOf(e) ==
    /\ ~Registered(e) => wrong[e] = 0
    /\ Registered(e) /\ customer[e].failed = 0 => customer[e].lock = "none"
    /\ \A h \in Askers : (LoggingIn(h, e) /\ ~Crossed(h, e) /\ serial[e]) =>
            /\ requests[h].seen.failed = wrong[e]
            /\ At(h, "clear") => wrong[e] >= Lockout
            /\ At(h, "compare") =>
                 /\ customer[e].lock = "none"
                 /\ customer[e].failed = (IF wrong[e] < Lockout THEN wrong[e] ELSE 0)
    /\ (Registered(e) /\ serial[e] /\ \A h \in Askers : ~LoggingIn(h, e)) =>
            /\ customer[e].failed = wrong[e]
            /\ (customer[e].lock # "none") <=> (wrong[e] >= Lockout)

CountInv == AccountTypeOK /\ RequestsFit /\ ResetsFit /\ \A e \in Emails : CountOf(e)

-----------------------------------------------------------------------------
(* Customer accounts: reset tokens. *)

\* A token that no two requests held at once has at most one holder, and none
\* once it has set a password.
OneHolder ==
    \A t \in ResetIds : ~resetBy[t].raced =>
        /\ \A g, h \in Askers : Holding(g, t) /\ Holding(h, t) => g = h
        /\ resetBy[t].uses > 0 =>
             resetBy[t].uses = 1 /\ resets[t].state = "spent" /\ \A h \in Askers : ~Holding(h, t)

\* A usable token of a customer for whom another is about to be issued was
\* itself issued while that one was due.
IssuesCross ==
    \A h \in Askers, t \in ResetIds :
        (At(h, "issue") /\ Usable(t) /\ resets[t].email = requests[h].email) => resets[t].crossed

-----------------------------------------------------------------------------
(* Rows and requests. *)

RequestSet == [step : Steps, email : Emails \cup {Nobody}, given : Passwords \cup {Nobody},
               seen : [password : Passwords \cup {Nobody}, failed : 0 .. MaxWrong],
               token : ResetIds \cup {Nobody}, external : ExternalIds \cup {Nobody}]

LEMMA RequestChanges ==
    ASSUME AccountTypeOK, NEW h \in Askers, NEW q \in RequestSet,
           requests' = [requests EXCEPT ![h] = q]
    PROVE  /\ requests' \in [Askers -> RequestSet]
           /\ requests'[h] = q
           /\ \A g \in Askers \ {h} : requests'[g] = requests[g]
BY DEF AccountTypeOK, RequestSet

LEMMA NoRequestFits == NoRequest \in RequestSet /\ NoRequest.step = "idle"
BY AccountAssumption DEF NoRequest, RequestSet, Steps, Unread

LEMMA Answers ==
    ASSUME AccountTypeOK, NEW h \in Askers, Answer(h)
    PROVE  /\ requests' \in [Askers -> RequestSet]
           /\ requests'[h].step = "idle"
           /\ \A g \in Askers \ {h} : requests'[g] = requests[g]
BY NoRequestFits, RequestChanges DEF Answer

LEMMA StepsOn ==
    ASSUME AccountTypeOK, NEW h \in Askers, NEW s \in Steps, Step(h, s)
    PROVE  /\ requests' \in [Askers -> RequestSet]
           /\ requests'[h].step = s /\ requests'[h].email = requests[h].email
           /\ requests'[h].seen = requests[h].seen /\ requests'[h].token = requests[h].token
           /\ \A g \in Askers \ {h} : requests'[g] = requests[g]
BY ZenonT(30) DEF Step, AccountTypeOK, RequestSet

\* What a login keeps of the row it reads.
LEMMA AuthenticationFits ==
    ASSUME AccountTypeOK, NEW e \in Emails, NEW p \in Passwords, Registered(e),
           NEW q, q = Authentication(e, p)
    PROVE  /\ q \in RequestSet /\ q.email = e /\ q.given = p
           /\ q.step = (IF customer[e].lock = "lapsed" THEN "clear" ELSE "compare")
           /\ q.seen.failed = customer[e].failed
<1>1. customer[e] \in Rows
  BY DEF AccountTypeOK, Registered
<1>2. Kept(customer[e]) \in [password : Passwords \cup {Nobody}, failed : 0 .. MaxWrong]
      /\ Kept(customer[e]).failed = customer[e].failed
  BY <1>1 DEF Kept, Rows
<1> QED BY <1>1, <1>2, NoRequestFits DEF Authentication, RequestSet, Steps, NoRequest

LEMMA CreationFits ==
    ASSUME NEW e \in Emails, NEW p \in Passwords \cup {Nobody}, NEW s \in {"create", "createThenLogin"},
           NEW q, q = Creation(e, p, s)
    PROVE  q \in RequestSet /\ q.email = e /\ q.given = p /\ q.step = s
BY NoRequestFits DEF Creation, RequestSet, Steps, NoRequest

\* A new row counts nothing and is open.
LEMMA NewRows ==
    ASSUME NEW p \in Passwords \cup {Nobody}, NEW x \in ExternalIds \cup {Nobody}, NEW row,
           \/ row = [NoRow EXCEPT !.password = p, !.external = x]
           \/ row = [NoRow EXCEPT !.password = p] /\ x = Nobody
    PROVE  row \in Rows /\ row.failed = 0 /\ row.lock = "none" /\ row # Nobody
<1>1. row = [password |-> p, failed |-> 0, lock |-> "none", external |-> x]
  BY DEF NoRow
<1>2. 0 \in 0 .. MaxWrong
  BY AccountAssumption
<1>3. row \in Rows
  BY <1>1, <1>2 DEF Rows
<1> QED BY <1>1, <1>3, AccountAssumption

-----------------------------------------------------------------------------
(* Types and what the requests refer to. *)

FitInv == AccountTypeOK /\ RequestsFit /\ ResetsFit

\* The request of one handler changes, rows stay and tokens keep their address.
LEMMA RequestsStayFit ==
    ASSUME FitInv, NEW h \in Askers, requests' \in [Askers -> RequestSet],
           \A g \in Askers \ {h} : requests'[g] = requests[g],
           \A e \in Emails : Registered(e) => Registered(e)',
           \A t \in ResetIds : resets[t].state # "unissued" =>
               resets'[t].state # "unissued" /\ resets'[t].email = resets[t].email,
           requests'[h].step # "idle" => requests'[h].email \in Emails,
           requests'[h].step \in {"clear", "compare", "link", "invalidate", "issue", "reset", "change"}
             => customer'[requests'[h].email] # Nobody,
           requests'[h].step = "reset" =>
             /\ requests'[h].token \in ResetIds
             /\ resets'[requests'[h].token].state # "unissued"
             /\ resets'[requests'[h].token].email = requests'[h].email
    PROVE  RequestsFit'
<1> SUFFICES ASSUME NEW g \in Askers
             PROVE  /\ requests'[g].step # "idle" => requests'[g].email \in Emails
                    /\ requests'[g].step \in {"clear", "compare", "link", "invalidate", "issue", "reset", "change"}
                         => customer'[requests'[g].email] # Nobody
                    /\ requests'[g].step = "reset" =>
                         /\ requests'[g].token \in ResetIds
                         /\ resets'[requests'[g].token].state # "unissued"
                         /\ resets'[requests'[g].token].email = requests'[g].email
  BY DEF RequestsFit, Registered
<1>1. CASE g = h
  BY <1>1
<1>2. CASE g # h
  BY <1>2 DEF FitInv, RequestsFit, Registered
<1> QED BY <1>1, <1>2

LEMMA AccountStart == AccountInit => FitInv
<1> SUFFICES ASSUME AccountInit PROVE FitInv
  OBVIOUS
<1>1. AccountTypeOK
  <2>1. requests \in [Askers -> RequestSet]
    BY NoRequestFits DEF AccountInit
  <2>2. resets \in [ResetIds -> [email : Emails \cup {Nobody}, state : {"unissued", "usable", "spent"},
                               crossed : BOOLEAN]]
    BY DEF AccountInit, NoReset
  <2>3. wrong \in [Emails -> 0 .. MaxWrong] /\ customer \in [Emails -> Rows \cup {Nobody}]
    BY AccountAssumption DEF AccountInit
  <2> QED BY <2>1, <2>2, <2>3 DEF AccountInit, AccountTypeOK, RequestSet
<1> QED BY <1>1, NoRequestFits DEF AccountInit, FitInv, RequestsFit, ResetsFit, NoReset

LEMMA RowWritten ==
    ASSUME AccountTypeOK, NEW e \in Emails, NEW row \in Rows, customer' = [customer EXCEPT ![e] = row]
    PROVE  /\ customer' \in [Emails -> Rows \cup {Nobody}]
           /\ customer'[e] = row /\ Registered(e)'
           /\ \A f \in Emails \ {e} : customer'[f] = customer[f]
           /\ \A f \in Emails : Registered(f) => Registered(f)'
BY AccountAssumption DEF AccountTypeOK, Registered

\* What each write to a row leaves in it.
LEMMA LapsedCleared ==
    ASSUME FitInv, NEW h \in Askers, NEW e, e = requests[h].email, ClearLapsedLock(h)
    PROVE  /\ e \in Emails /\ Registered(e)
           /\ \E row \in Rows : /\ customer' = [customer EXCEPT ![e] = row]
                                /\ row.failed = 0 /\ row.lock = "none"
<1>1. At(h, "clear") /\ customer' = [customer EXCEPT ![e].lock = "none", ![e].failed = 0]
  BY DEF ClearLapsedLock
<1>2. e \in Emails /\ Registered(e)
  BY <1>1 DEF FitInv, RequestsFit, At
<1>3. customer[e] \in Rows
  BY <1>2 DEF FitInv, AccountTypeOK, Registered
<1>4. PICK row : row = [customer[e] EXCEPT !.lock = "none", !.failed = 0]
  OBVIOUS
<1>5. 0 \in 0 .. MaxWrong
  BY AccountAssumption
<1>6. row \in Rows /\ row.failed = 0 /\ row.lock = "none"
  BY <1>3, <1>4, <1>5 DEF Rows
<1>7. customer' = [customer EXCEPT ![e] = row]
  BY <1>1, <1>2, <1>4 DEF FitInv, AccountTypeOK
<1> QED BY <1>2, <1>6, <1>7

LEMMA CountedWrong ==
    ASSUME FitInv, NEW h \in Askers, NEW e, e = requests[h].email, RejectPassword(h)
    PROVE  /\ e \in Emails /\ Registered(e)
           /\ \E row \in Rows : /\ customer' = [customer EXCEPT ![e] = row]
                                /\ row.failed = requests[h].seen.failed + 1
                                /\ row.lock = IF row.failed >= Lockout THEN "held" ELSE customer[e].lock
<1>1. PICK failed : failed = requests[h].seen.failed + 1
  OBVIOUS
<1>2. /\ At(h, "compare") /\ failed <= MaxWrong
      /\ customer' = [customer EXCEPT ![e].failed = failed,
                                      ![e].lock = IF failed >= Lockout THEN "held" ELSE @]
  BY <1>1 DEF RejectPassword
<1>3. e \in Emails /\ Registered(e) /\ requests[h].seen.failed \in 0 .. MaxWrong
  BY <1>2 DEF FitInv, RequestsFit, At, AccountTypeOK
<1>4. customer[e] \in Rows
  BY <1>3 DEF FitInv, AccountTypeOK, Registered
<1>5. PICK row : row = [customer[e] EXCEPT !.failed = failed,
                                           !.lock = IF failed >= Lockout THEN "held" ELSE @]
  OBVIOUS
<1>6. failed \in 0 .. MaxWrong
  BY <1>1, <1>2, <1>3, AccountAssumption
<1>7. row \in Rows /\ row.failed = failed
      /\ row.lock = IF failed >= Lockout THEN "held" ELSE customer[e].lock
  BY <1>4, <1>5, <1>6 DEF Rows
<1>8. customer' = [customer EXCEPT ![e] = row]
  BY <1>2, <1>3, <1>5 DEF FitInv, AccountTypeOK
<1> QED BY <1>1, <1>3, <1>7, <1>8

LEMMA CountedRight ==
    ASSUME FitInv, NEW h \in Askers, NEW e, e = requests[h].email, AcceptPassword(h)
    PROVE  /\ e \in Emails /\ Registered(e)
           /\ requests[h].seen.failed \in Nat
           /\ \E row \in Rows : /\ customer' = [customer EXCEPT ![e] = row]
                                /\ IF requests[h].seen.failed > 0 THEN row.failed = 0 /\ row.lock = "none"
                                   ELSE row = customer[e]
<1>1. At(h, "compare")
      /\ customer' = IF requests[h].seen.failed > 0
                     THEN [customer EXCEPT ![e].failed = 0, ![e].lock = "none"]
                     ELSE customer
  BY DEF AcceptPassword
<1>2. e \in Emails /\ Registered(e) /\ requests[h].seen.failed \in 0 .. MaxWrong
  BY <1>1 DEF FitInv, RequestsFit, At, AccountTypeOK
<1>3. customer[e] \in Rows
  BY <1>2 DEF FitInv, AccountTypeOK, Registered
<1>4. PICK row : row = IF requests[h].seen.failed > 0
                       THEN [customer[e] EXCEPT !.failed = 0, !.lock = "none"] ELSE customer[e]
  OBVIOUS
<1>5. 0 \in 0 .. MaxWrong
  BY AccountAssumption
<1>6. row \in Rows /\ IF requests[h].seen.failed > 0 THEN row.failed = 0 /\ row.lock = "none"
                      ELSE row = customer[e]
  BY <1>3, <1>4, <1>5 DEF Rows
<1>7. customer' = [customer EXCEPT ![e] = row]
  BY <1>1, <1>2, <1>4 DEF FitInv, AccountTypeOK
<1>8. requests[h].seen.failed \in Nat
  BY <1>2, AccountAssumption
<1> QED BY <1>2, <1>6, <1>7, <1>8

LEMMA ResetStored ==
    ASSUME FitInv, NEW h \in Askers, NEW e, e = requests[h].email, ApplyReset(h)
    PROVE  /\ e \in Emails /\ Registered(e)
           /\ \E row \in Rows : /\ customer' = [customer EXCEPT ![e] = row]
                                /\ row.failed = 0 /\ row.lock = "none"
<1>1. At(h, "reset")
      /\ customer' = [customer EXCEPT ![e].password = requests[h].given,
                                      ![e].failed = 0, ![e].lock = "none"]
  BY DEF ApplyReset
<1>2. e \in Emails /\ Registered(e) /\ requests[h].given \in Passwords \cup {Nobody}
  BY <1>1 DEF FitInv, RequestsFit, At, AccountTypeOK
<1>3. customer[e] \in Rows
  BY <1>2 DEF FitInv, AccountTypeOK, Registered
<1>4. PICK row : row = [customer[e] EXCEPT !.password = requests[h].given, !.failed = 0, !.lock = "none"]
  OBVIOUS
<1>5. 0 \in 0 .. MaxWrong
  BY AccountAssumption
<1>6. row \in Rows /\ row.failed = 0 /\ row.lock = "none"
  BY <1>2, <1>3, <1>4, <1>5 DEF Rows
<1>7. customer' = [customer EXCEPT ![e] = row]
  BY <1>1, <1>2, <1>4 DEF FitInv, AccountTypeOK
<1> QED BY <1>2, <1>6, <1>7

LEMMA ChangeStored ==
    ASSUME FitInv, NEW h \in Askers, NEW e, e = requests[h].email, ApplyChange(h)
    PROVE  /\ e \in Emails /\ Registered(e)
           /\ \E row \in Rows : /\ customer' = [customer EXCEPT ![e] = row]
                                /\ row.failed = customer[e].failed /\ row.lock = customer[e].lock
<1>1. At(h, "change") /\ customer' = [customer EXCEPT ![e].password = requests[h].given]
  BY DEF ApplyChange
<1>2. e \in Emails /\ Registered(e) /\ requests[h].given \in Passwords \cup {Nobody}
  BY <1>1 DEF FitInv, RequestsFit, At, AccountTypeOK
<1>3. customer[e] \in Rows
  BY <1>2 DEF FitInv, AccountTypeOK, Registered
<1>4. PICK row : row = [customer[e] EXCEPT !.password = requests[h].given]
  OBVIOUS
<1>5. row \in Rows /\ row.failed = customer[e].failed /\ row.lock = customer[e].lock
  BY <1>2, <1>3, <1>4 DEF Rows
<1>6. customer' = [customer EXCEPT ![e] = row]
  BY <1>1, <1>2, <1>4 DEF FitInv, AccountTypeOK
<1> QED BY <1>2, <1>5, <1>6

LEMMA LockRanOut ==
    ASSUME FitInv, NEW e \in Emails, LockLapses(e)
    PROVE  /\ customer[e].lock = "held" /\ Registered(e)
           /\ \E row \in Rows : /\ customer' = [customer EXCEPT ![e] = row]
                                /\ row.failed = customer[e].failed /\ row.lock = "lapsed"
<1>1. Registered(e) /\ customer[e].lock = "held" /\ customer' = [customer EXCEPT ![e].lock = "lapsed"]
  BY DEF LockLapses
<1>2. customer[e] \in Rows
  BY <1>1 DEF FitInv, AccountTypeOK, Registered
<1>3. PICK row : row = [customer[e] EXCEPT !.lock = "lapsed"]
  OBVIOUS
<1>4. row \in Rows /\ row.failed = customer[e].failed /\ row.lock = "lapsed"
  BY <1>2, <1>3 DEF Rows
<1>5. customer' = [customer EXCEPT ![e] = row]
  BY <1>1, <1>3 DEF FitInv, AccountTypeOK
<1> QED BY <1>1, <1>4, <1>5

LEMMA CustomerCreated ==
    ASSUME FitInv, NEW h \in Askers, NEW e, e = requests[h].email, CreateCustomer(h)
    PROVE  /\ e \in Emails /\ ~Registered(e)
           /\ \E row \in Rows :
                /\ customer' = [customer EXCEPT ![e] = row]
                /\ row.failed = 0 /\ row.lock = "none"
                /\ \E q \in RequestSet :
                     /\ requests' = [requests EXCEPT ![h] = q]
                     /\ \/ q.step = "idle"
                        \/ q.step = "compare" /\ q.email = e /\ q.seen.failed = 0
<1>1. PICK row : row = [NoRow EXCEPT !.password = requests[h].given]
  OBVIOUS
<1>2. /\ requests[h].step \in {"create", "createThenLogin"} /\ ~Registered(e)
      /\ customer' = [customer EXCEPT ![e] = row]
      /\ requests' = [requests EXCEPT ![h] =
                      IF At(h, "create") THEN NoRequest
                      ELSE [@ EXCEPT !.step = "compare", !.seen = Kept(row)]]
  BY <1>1 DEF CreateCustomer
<1>3. /\ requests \in [Askers -> RequestSet] /\ requests[h] \in RequestSet
      /\ e \in Emails /\ requests[h].given \in Passwords \cup {Nobody}
  BY <1>2 DEF FitInv, RequestsFit, AccountTypeOK, RequestSet
<1>4. row \in Rows /\ row.failed = 0 /\ row.lock = "none"
  BY <1>1, <1>3, NewRows, ZenonT(30)
<1>5. Kept(row) \in [password : Passwords \cup {Nobody}, failed : 0 .. MaxWrong] /\ Kept(row).failed = 0
  BY <1>4 DEF Kept, Rows
<1>6. PICK k : k = Kept(row)
  OBVIOUS
<1>7. PICK q : q = IF At(h, "create") THEN NoRequest
                   ELSE [requests[h] EXCEPT !.step = "compare", !.seen = k]
  OBVIOUS
<1>8. requests' = [requests EXCEPT ![h] = q]
  BY <1>2, <1>3, <1>6, <1>7
<1>9. q \in RequestSet /\ (q.step = "idle" \/ (q.step = "compare" /\ q.email = e /\ q.seen.failed = 0))
  BY <1>3, <1>5, <1>6, <1>7, NoRequestFits DEF RequestSet, Steps
<1> QED BY <1>2, <1>3, <1>4, <1>8, <1>9

LEMMA ExternalWritten ==
    ASSUME FitInv, NEW h \in Askers, NEW e, e = requests[h].email, WriteExternalCustomer(h)
    PROVE  /\ e \in Emails
           /\ \E row \in Rows :
                /\ customer' = [customer EXCEPT ![e] = row]
                /\ \/ /\ Registered(e)
                      /\ row.failed = customer[e].failed /\ row.lock = customer[e].lock
                   \/ ~Registered(e) /\ row.failed = 0 /\ row.lock = "none"
<1>1. PICK x : x = requests[h].external
  OBVIOUS
<1>2. \/ At(h, "link") /\ customer' = [customer EXCEPT ![e].external = x]
      \/ /\ At(h, "createExternal") /\ ~Registered(e)
         /\ customer' = [customer EXCEPT ![e] = [NoRow EXCEPT !.password = RandomPassword, !.external = x]]
  BY <1>1 DEF WriteExternalCustomer
<1>3. e \in Emails /\ x \in ExternalIds \cup {Nobody} /\ (At(h, "link") => Registered(e))
  BY <1>1, <1>2 DEF FitInv, RequestsFit, AccountTypeOK, At
<1>4. CASE At(h, "link") /\ customer' = [customer EXCEPT ![e].external = x]
  <2>1. customer[e] \in Rows
    BY <1>3, <1>4 DEF FitInv, AccountTypeOK, Registered
  <2>2. PICK row : row = [customer[e] EXCEPT !.external = x]
    OBVIOUS
  <2>3. row \in Rows /\ row.failed = customer[e].failed /\ row.lock = customer[e].lock
    BY <1>3, <2>1, <2>2 DEF Rows
  <2>4. customer' = [customer EXCEPT ![e] = row]
    BY <1>3, <1>4, <2>2 DEF FitInv, AccountTypeOK
  <2> QED BY <1>3, <1>4, <2>3, <2>4
<1>5. CASE /\ At(h, "createExternal") /\ ~Registered(e)
           /\ customer' = [customer EXCEPT ![e] = [NoRow EXCEPT !.password = RandomPassword, !.external = x]]
  <2>1. PICK row : row = [NoRow EXCEPT !.password = Nobody, !.external = x]
    OBVIOUS
  <2>2. row \in Rows /\ row.failed = 0 /\ row.lock = "none"
    BY <1>3, <2>1, NewRows, ZenonT(30)
  <2> QED BY <1>3, <1>5, <2>1, <2>2 DEF RandomPassword
<1> QED BY <1>2, <1>4, <1>5

OthersUnchanged == UNCHANGED <<customer, resets, wrong, serial, resetBy>>

\* A request that only notes what it is about to do, and is no login or reset.
Begins(h) ==
    \/ \E e \in Emails : CreateForAutomation(h, e) \/ ForgotPassword(h, e)
    \/ \E e \in Emails, x \in ExternalIds : PostExternalCustomer(h, x, e)
    \/ \E e \in Emails, p \in Passwords :
         \/ Register(h, e, p) \/ EnsureAdminExists(h, e, p)
         \/ AcceptInvite(h, e, p) /\ ~Registered(e)
         \/ \E current \in Passwords : ChangePassword(h, e, current, p)

LEMMA Begun ==
    ASSUME FitInv, NEW h \in Askers, Begins(h)
    PROVE  /\ At(h, "idle") /\ OthersUnchanged
           /\ \E q \in RequestSet :
                /\ requests' = [requests EXCEPT ![h] = q]
                /\ q.step \in {"create", "createThenLogin", "link", "createExternal", "invalidate", "change"}
                /\ q.email \in Emails
                /\ q.step \in {"link", "invalidate", "change"} => Registered(q.email)
<1>1. ASSUME NEW e \in Emails, NEW p \in Passwords \cup {Nobody}, NEW s \in {"create", "createThenLogin"},
             requests' = [requests EXCEPT ![h] = Creation(e, p, s)]
      PROVE  \E q \in RequestSet :
                /\ requests' = [requests EXCEPT ![h] = q]
                /\ q.step \in {"create", "createThenLogin"} /\ q.email = e
  <2>1. PICK q : q = Creation(e, p, s)
    OBVIOUS
  <2>2. q \in RequestSet /\ q.email = e /\ q.step = s
    BY <1>1, <2>1, CreationFits
  <2> QED BY <1>1, <2>1, <2>2
<1>2. CASE \E e \in Emails : CreateForAutomation(h, e)
  <2>1. PICK e \in Emails : CreateForAutomation(h, e)
    BY <1>2
  <2>2. At(h, "idle") /\ OthersUnchanged /\ requests' = [requests EXCEPT ![h] = Creation(e, Nobody, "create")]
    BY <2>1 DEF CreateForAutomation, RandomPassword, OthersUnchanged
  <2>3. \E q \in RequestSet : /\ requests' = [requests EXCEPT ![h] = q]
                              /\ q.step \in {"create", "createThenLogin"} /\ q.email = e
    BY <1>1, <2>2
  <2> QED BY <2>2, <2>3
<1>3. CASE \E e \in Emails, p \in Passwords : Register(h, e, p)
  <2>1. PICK e \in Emails, p \in Passwords : Register(h, e, p)
    BY <1>3
  <2>2. At(h, "idle") /\ OthersUnchanged /\ requests' = [requests EXCEPT ![h] = Creation(e, p, "createThenLogin")]
    BY <2>1 DEF Register, OthersUnchanged
  <2>3. \E q \in RequestSet : /\ requests' = [requests EXCEPT ![h] = q]
                              /\ q.step \in {"create", "createThenLogin"} /\ q.email = e
    BY <1>1, <2>2
  <2> QED BY <2>2, <2>3
<1>4. CASE \E e \in Emails, p \in Passwords : EnsureAdminExists(h, e, p)
  <2>1. PICK e \in Emails, p \in Passwords : EnsureAdminExists(h, e, p)
    BY <1>4
  <2>2. At(h, "idle") /\ OthersUnchanged /\ requests' = [requests EXCEPT ![h] = Creation(e, p, "create")]
    BY <2>1 DEF EnsureAdminExists, OthersUnchanged
  <2>3. \E q \in RequestSet : /\ requests' = [requests EXCEPT ![h] = q]
                              /\ q.step \in {"create", "createThenLogin"} /\ q.email = e
    BY <1>1, <2>2
  <2> QED BY <2>2, <2>3
<1>5. CASE \E e \in Emails, p \in Passwords : AcceptInvite(h, e, p) /\ ~Registered(e)
  <2>1. PICK e \in Emails, p \in Passwords : AcceptInvite(h, e, p) /\ ~Registered(e)
    BY <1>5
  <2>2. At(h, "idle") /\ OthersUnchanged /\ requests' = [requests EXCEPT ![h] = Creation(e, p, "createThenLogin")]
    BY <2>1 DEF AcceptInvite, OthersUnchanged
  <2>3. \E q \in RequestSet : /\ requests' = [requests EXCEPT ![h] = q]
                              /\ q.step \in {"create", "createThenLogin"} /\ q.email = e
    BY <1>1, <2>2
  <2> QED BY <2>2, <2>3
<1>6. CASE \E e \in Emails : ForgotPassword(h, e)
  <2>1. PICK e \in Emails : ForgotPassword(h, e)
    BY <1>6
  <2>2. PICK q : q = [NoRequest EXCEPT !.step = "invalidate", !.email = e]
    OBVIOUS
  <2>3. q \in RequestSet /\ q.step = "invalidate" /\ q.email = e
    BY <2>2, NoRequestFits DEF RequestSet, Steps
  <2>4. At(h, "idle") /\ OthersUnchanged /\ Registered(e) /\ requests' = [requests EXCEPT ![h] = q]
    BY <2>1, <2>2 DEF ForgotPassword, OthersUnchanged
  <2> QED BY <2>3, <2>4
<1>7. CASE \E e \in Emails, x \in ExternalIds : PostExternalCustomer(h, x, e)
  <2>1. PICK e \in Emails, x \in ExternalIds : PostExternalCustomer(h, x, e)
    BY <1>7
  <2>2. PICK q : q = [NoRequest EXCEPT !.step = IF Registered(e) THEN "link" ELSE "createExternal",
                                       !.email = e, !.external = x]
    OBVIOUS
  <2>3. q \in RequestSet /\ q.step = (IF Registered(e) THEN "link" ELSE "createExternal") /\ q.email = e
    BY <2>2, NoRequestFits DEF RequestSet, Steps
  <2>4. At(h, "idle") /\ OthersUnchanged /\ requests' = [requests EXCEPT ![h] = q]
    BY <2>1, <2>2 DEF PostExternalCustomer, OthersUnchanged
  <2> QED BY <2>3, <2>4
<1>8. CASE \E e \in Emails, p \in Passwords, current \in Passwords : ChangePassword(h, e, current, p)
  <2>1. PICK e \in Emails, p \in Passwords, current \in Passwords : ChangePassword(h, e, current, p)
    BY <1>8
  <2>2. PICK q : q = [NoRequest EXCEPT !.step = "change", !.email = e, !.given = p]
    OBVIOUS
  <2>3. q \in RequestSet /\ q.step = "change" /\ q.email = e
    BY <2>2, NoRequestFits DEF RequestSet, Steps
  <2>4. At(h, "idle") /\ OthersUnchanged /\ Registered(e) /\ requests' = [requests EXCEPT ![h] = q]
    BY <2>1, <2>2 DEF ChangePassword, OthersUnchanged
  <2> QED BY <2>3, <2>4
<1> QED BY <1>2, <1>3, <1>4, <1>5, <1>6, <1>7, <1>8 DEF Begins

\* A request that has read a row it will compare a password with.
Authenticates(h, e) ==
    \E p \in Passwords : Login(h, e, p) \/ (AcceptInvite(h, e, p) /\ Registered(e))

LEMMA Authenticating ==
    ASSUME FitInv, NEW h \in Askers, NEW e \in Emails, Authenticates(h, e)
    PROVE  /\ At(h, "idle") /\ OthersUnchanged
           /\ Registered(e) /\ customer[e].lock # "held"
           /\ \E q \in RequestSet :
                /\ requests' = [requests EXCEPT ![h] = q]
                /\ q.email = e /\ q.seen.failed = customer[e].failed
                /\ q.step = (IF customer[e].lock = "lapsed" THEN "clear" ELSE "compare")
<1>1. PICK p \in Passwords : Login(h, e, p) \/ (AcceptInvite(h, e, p) /\ Registered(e))
  BY DEF Authenticates
<1>2. PICK q : q = Authentication(e, p)
  OBVIOUS
<1>3. /\ At(h, "idle") /\ OthersUnchanged
      /\ Registered(e) /\ customer[e].lock # "held"
      /\ requests' = [requests EXCEPT ![h] = q]
  BY <1>1, <1>2 DEF Login, AcceptInvite, MayTry, OthersUnchanged
<1>4. q \in RequestSet /\ q.email = e /\ q.seen.failed = customer[e].failed
      /\ q.step = (IF customer[e].lock = "lapsed" THEN "clear" ELSE "compare")
  BY <1>2, <1>3, AuthenticationFits DEF FitInv
<1> QED BY <1>3, <1>4

LEMMA Resetting ==
    ASSUME FitInv, NEW h \in Askers, NEW t \in ResetIds, NEW p \in Passwords, ResetPassword(h, t, p)
    PROVE  /\ At(h, "idle") /\ Usable(t)
           /\ resets[t].email \in Emails /\ Registered(resets[t].email)
           /\ \E q \in RequestSet :
                /\ requests' = [requests EXCEPT ![h] = q]
                /\ q.step = "reset" /\ q.token = t /\ q.email = resets[t].email
<1>1. PICK q : q = [NoRequest EXCEPT !.step = "reset", !.token = t, !.given = p, !.email = resets[t].email]
  OBVIOUS
<1>2. At(h, "idle") /\ Usable(t) /\ requests' = [requests EXCEPT ![h] = q]
  BY <1>1 DEF ResetPassword
<1>3. resets[t].email \in Emails /\ Registered(resets[t].email)
  BY <1>2 DEF FitInv, ResetsFit, Usable
<1>4. q \in RequestSet /\ q.step = "reset" /\ q.token = t /\ q.email = resets[t].email
  BY <1>1, <1>3, NoRequestFits DEF RequestSet, Steps
<1> QED BY <1>2, <1>3, <1>4

\* Steps of a request that is under way, or of time.
LEMMA NextCases ==
    ASSUME AccountNext
    PROVE  \/ \E h \in Askers : \/ Begins(h)
                                \/ \E e \in Emails : Authenticates(h, e)
                                \/ \E t \in ResetIds, p \in Passwords : ResetPassword(h, t, p)
           \/ \E h \in Askers : \/ ClearLapsedLock(h) \/ RejectPassword(h) \/ AcceptPassword(h)
                                \/ CreateCustomer(h) \/ CreationRefused(h) \/ WriteExternalCustomer(h)
                                \/ InvalidateResets(h) \/ ApplyReset(h) \/ ApplyChange(h) \/ RequestFails(h)
                                \/ \E t \in ResetIds : IssueReset(h, t)
           \/ \E e \in Emails : LockLapses(e)
           \/ \E t \in ResetIds : ResetLapses(t)
BY Zenon DEF AccountNext, Begins, Authenticates

ResetSet == [email : Emails \cup {Nobody}, state : {"unissued", "usable", "spent"}, crossed : BOOLEAN]

LEMMA SpentFits ==
    ASSUME AccountTypeOK, NEW t \in ResetIds
    PROVE  /\ Spent(resets[t]) \in ResetSet /\ Spent(resets[t]).state = "spent"
           /\ Spent(resets[t]).email = resets[t].email
<1>1. PICK row : row = resets[t]
  OBVIOUS
<1>2. row \in ResetSet
  BY <1>1 DEF AccountTypeOK, ResetSet
<1>3. Spent(row) \in ResetSet /\ Spent(row).state = "spent" /\ Spent(row).email = row.email
  BY <1>2 DEF Spent, ResetSet
<1> QED BY <1>1, <1>3

LEMMA ResetChanges ==
    ASSUME AccountTypeOK, NEW t \in ResetIds, resets' = [resets EXCEPT ![t] = Spent(@)]
    PROVE  /\ resets' \in [ResetIds -> ResetSet]
           /\ \A u \in ResetIds : resets'[u].email = resets[u].email
           /\ \A u \in ResetIds \ {t} : resets'[u] = resets[u]
           /\ resets'[t].state = "spent"
BY SpentFits DEF AccountTypeOK, ResetSet

LEMMA Invalidated ==
    ASSUME AccountTypeOK, NEW h \in Askers, InvalidateResets(h)
    PROVE  /\ resets' \in [ResetIds -> ResetSet]
           /\ \A u \in ResetIds : /\ resets'[u].email = resets[u].email
                                  /\ resets[u].email # requests[h].email => resets'[u] = resets[u]
                                  /\ resets[u].email = requests[h].email => resets'[u].state = "spent"
BY SpentFits DEF AccountTypeOK, ResetSet, InvalidateResets

LEMMA Issued ==
    ASSUME FitInv, NEW h \in Askers, NEW t \in ResetIds, IssueReset(h, t)
    PROVE  /\ At(h, "issue")
           /\ resets' \in [ResetIds -> ResetSet]
           /\ \A u \in ResetIds \ {t} : resets'[u] = resets[u]
           /\ resets[t].state = "unissued"
           /\ resets'[t].email = requests[h].email /\ resets'[t].state = "usable"
           /\ resets'[t].crossed <=> \E g \in Askers \ {h} :
                                   At(g, "issue") /\ requests[g].email = requests[h].email
<1>1. PICK x : x = (\E g \in Askers \ {h} : At(g, "issue") /\ requests[g].email = requests[h].email)
  OBVIOUS
<1>2. x \in BOOLEAN
  BY <1>1
<1>3. /\ At(h, "issue") /\ {u \in ResetIds : resets[u].state # "unissued"} = 1 .. (t - 1)
      /\ resets' = [resets EXCEPT ![t] = [email |-> requests[h].email, state |-> "usable", crossed |-> x]]
  BY <1>1 DEF IssueReset
<1>4. requests[h].email \in Emails
  BY <1>3 DEF FitInv, RequestsFit, At
<1>5. resets[t].state = "unissued"
  BY <1>3, AccountAssumption DEF ResetIds
<1>6. PICK row : row = [email |-> requests[h].email, state |-> "usable", crossed |-> x]
  OBVIOUS
<1>7. row \in ResetSet
  BY <1>2, <1>4, <1>6 DEF ResetSet
<1>8. resets' = [resets EXCEPT ![t] = row]
  BY <1>3, <1>6
<1>9. /\ resets' \in [ResetIds -> ResetSet]
      /\ resets'[t] = row /\ \A u \in ResetIds \ {t} : resets'[u] = resets[u]
  BY <1>7, <1>8 DEF FitInv, AccountTypeOK, ResetSet
<1> QED BY <1>1, <1>3, <1>5, <1>6, <1>9

LEMMA CounterTypes ==
    ASSUME AccountTypeOK, NEW h \in Askers, NEW e \in Emails
    PROVE  /\ Overtakes(h, e) => /\ serial' \in [Emails -> BOOLEAN]
                                 /\ serial'[e] <=> serial[e] /\ ~Crossed(h, e)
                                 /\ \A f \in Emails \ {e} : serial'[f] = serial[f]
           /\ StartsOver(h, e) => /\ serial' \in [Emails -> BOOLEAN] /\ wrong' \in [Emails -> 0 .. MaxWrong]
                                  /\ serial'[e] <=> ~Crossed(h, e)
                                  /\ wrong'[e] = 0
                                  /\ \A f \in Emails \ {e} : serial'[f] = serial[f] /\ wrong'[f] = wrong[f]
<1>1. PICK c : c = Crossed(h, e)
  OBVIOUS
<1>2. c \in BOOLEAN
  BY <1>1 DEF Crossed
<1>3. serial \in [Emails -> BOOLEAN] /\ wrong \in [Emails -> 0 .. MaxWrong] /\ 0 \in 0 .. MaxWrong
  BY AccountAssumption DEF AccountTypeOK
<1>4. ASSUME Overtakes(h, e)
      PROVE  /\ serial' \in [Emails -> BOOLEAN]
             /\ serial'[e] <=> serial[e] /\ ~Crossed(h, e)
             /\ \A f \in Emails \ {e} : serial'[f] = serial[f]
  <2>1. serial' = [serial EXCEPT ![e] = @ /\ ~c]
    BY <1>1, <1>4 DEF Overtakes
  <2> QED BY <1>1, <1>2, <1>3, <2>1
<1>5. ASSUME StartsOver(h, e)
      PROVE  /\ serial' \in [Emails -> BOOLEAN] /\ wrong' \in [Emails -> 0 .. MaxWrong]
             /\ serial'[e] <=> ~Crossed(h, e)
             /\ wrong'[e] = 0
             /\ \A f \in Emails \ {e} : serial'[f] = serial[f] /\ wrong'[f] = wrong[f]
  <2>1. serial' = [serial EXCEPT ![e] = ~c] /\ wrong' = [wrong EXCEPT ![e] = 0]
    BY <1>1, <1>5 DEF StartsOver
  <2> QED BY <1>1, <1>2, <1>3, <2>1
<1> QED BY <1>4, <1>5

LEMMA TypesFrom ==
    ASSUME customer' \in [Emails -> Rows \cup {Nobody}], resets' \in [ResetIds -> ResetSet],
           requests' \in [Askers -> RequestSet],
           wrong' \in [Emails -> 0 .. MaxWrong], serial' \in [Emails -> BOOLEAN],
           resetBy' \in [ResetIds -> [uses : Nat, raced : BOOLEAN]]
    PROVE  AccountTypeOK'
BY DEF AccountTypeOK, ResetSet, RequestSet

LEMMA TypesOf ==
    ASSUME AccountTypeOK
    PROVE  /\ customer \in [Emails -> Rows \cup {Nobody}] /\ resets \in [ResetIds -> ResetSet]
           /\ requests \in [Askers -> RequestSet]
           /\ wrong \in [Emails -> 0 .. MaxWrong] /\ serial \in [Emails -> BOOLEAN]
           /\ resetBy \in [ResetIds -> [uses : Nat, raced : BOOLEAN]]
BY DEF AccountTypeOK, ResetSet, RequestSet

\* The tokens stay as they are and so do the customers.
LEMMA ResetsStayFit ==
    ASSUME ResetsFit, \A t \in ResetIds : resets'[t].state # "unissued" =>
                          resets[t].state # "unissued" /\ resets'[t].email = resets[t].email,
           \A e \in Emails : Registered(e) => Registered(e)'
    PROVE  ResetsFit'
BY DEF ResetsFit, Registered

LEMMA AccountFits ==
    ASSUME FitInv, AccountNext
    PROVE  FitInv'
<1> USE DEF FitInv
<1>t. /\ customer \in [Emails -> Rows \cup {Nobody}] /\ resets \in [ResetIds -> ResetSet]
      /\ requests \in [Askers -> RequestSet]
      /\ wrong \in [Emails -> 0 .. MaxWrong] /\ serial \in [Emails -> BOOLEAN]
      /\ resetBy \in [ResetIds -> [uses : Nat, raced : BOOLEAN]]
  BY TypesOf
<1>1. ASSUME NEW h \in Askers, Begins(h) PROVE FitInv'
  <2>1. /\ OthersUnchanged
        /\ \E q \in RequestSet :
                /\ requests' = [requests EXCEPT ![h] = q]
                /\ q.step \in {"create", "createThenLogin", "link", "createExternal", "invalidate", "change"}
                /\ q.email \in Emails
                /\ q.step \in {"link", "invalidate", "change"} => Registered(q.email)
    BY <1>1, Begun
  <2>2. PICK q \in RequestSet :
                /\ requests' = [requests EXCEPT ![h] = q]
                /\ q.step \in {"create", "createThenLogin", "link", "createExternal", "invalidate", "change"}
                /\ q.email \in Emails
                /\ q.step \in {"link", "invalidate", "change"} => Registered(q.email)
    BY <2>1
  <2>3. requests' \in [Askers -> RequestSet] /\ requests'[h] = q
        /\ \A g \in Askers \ {h} : requests'[g] = requests[g]
    BY <2>2, RequestChanges
  <2>4. AccountTypeOK'
    BY <1>t, <2>1, <2>3, TypesFrom DEF OthersUnchanged
  <2>5. RequestsFit'
    BY <2>1, <2>2, <2>3, RequestsStayFit DEF OthersUnchanged, Registered
  <2>6. ResetsFit'
    BY <2>1 DEF ResetsFit, OthersUnchanged, Registered
  <2> QED BY <2>4, <2>5, <2>6
<1>2. ASSUME NEW h \in Askers, NEW e \in Emails, Authenticates(h, e) PROVE FitInv'
  <2>1. OthersUnchanged /\ Registered(e)
    BY <1>2, Authenticating
  <2>2. PICK q \in RequestSet :
                /\ requests' = [requests EXCEPT ![h] = q]
                /\ q.email = e /\ q.step \in {"clear", "compare"}
    BY <1>2, Authenticating
  <2>3. requests' \in [Askers -> RequestSet] /\ requests'[h] = q
        /\ \A g \in Askers \ {h} : requests'[g] = requests[g]
    BY <2>2, RequestChanges
  <2>4. AccountTypeOK'
    BY <1>t, <2>1, <2>3, TypesFrom DEF OthersUnchanged
  <2>5. RequestsFit'
    BY <2>1, <2>2, <2>3, RequestsStayFit DEF OthersUnchanged, Registered
  <2>6. ResetsFit'
    BY <2>1 DEF ResetsFit, OthersUnchanged, Registered
  <2> QED BY <2>4, <2>5, <2>6
<1>3. ASSUME NEW h \in Askers, NEW t \in ResetIds, NEW p \in Passwords, ResetPassword(h, t, p)
      PROVE  FitInv'
  <2>1. Usable(t) /\ resets[t].email \in Emails /\ Registered(resets[t].email)
    BY <1>3, Resetting
  <2>2. PICK q \in RequestSet : /\ requests' = [requests EXCEPT ![h] = q]
                                /\ q.step = "reset" /\ q.token = t /\ q.email = resets[t].email
    BY <1>3, Resetting
  <2>3. requests' \in [Askers -> RequestSet] /\ requests'[h] = q
        /\ \A g \in Askers \ {h} : requests'[g] = requests[g]
    BY <2>2, RequestChanges
  <2>4. UNCHANGED <<customer, resets, wrong, serial>>
    BY <1>3 DEF ResetPassword
  <2>5. resetBy' \in [ResetIds -> [uses : Nat, raced : BOOLEAN]]
    <3>1. PICK c : c = \E g \in Askers : Holding(g, t)
      OBVIOUS
    <3>2. c \in BOOLEAN /\ resetBy' = [resetBy EXCEPT ![t].raced = @ \/ c]
      BY <1>3, <3>1 DEF ResetPassword
    <3> QED BY <1>t, <3>2
  <2>6. AccountTypeOK'
    BY <1>t, <2>3, <2>4, <2>5, TypesFrom
  <2>7. RequestsFit'
    BY <2>1, <2>2, <2>3, <2>4, RequestsStayFit DEF Registered, Usable
  <2>8. ResetsFit'
    BY <2>4 DEF ResetsFit, Registered
  <2> QED BY <2>6, <2>7, <2>8
<1>4. ASSUME NEW h \in Askers, ClearLapsedLock(h) PROVE FitInv'
  <2>e. PICK e : e = requests[h].email
    OBVIOUS
  <2>1. e \in Emails /\ \E row \in Rows : customer' = [customer EXCEPT ![e] = row]
    BY <1>4, <2>e, LapsedCleared
  <2>2. customer' \in [Emails -> Rows \cup {Nobody}] /\ \A f \in Emails : Registered(f) => Registered(f)'
    BY <2>1, RowWritten
  <2>3. Step(h, "compare") /\ Overtakes(h, e) /\ UNCHANGED <<resets, wrong, resetBy>> /\ Registered(e)
    BY <1>4, <2>e, LapsedCleared DEF ClearLapsedLock
  <2>4. /\ requests' \in [Askers -> RequestSet] /\ requests'[h].step = "compare"
        /\ requests'[h].email = e /\ \A g \in Askers \ {h} : requests'[g] = requests[g]
    BY <2>e, <2>3, StepsOn DEF Steps
  <2>5. serial' \in [Emails -> BOOLEAN]
    BY <2>1, <2>3, CounterTypes
  <2>6. AccountTypeOK'
    BY <1>t, <2>2, <2>3, <2>4, <2>5, TypesFrom
  <2>7. RequestsFit'
    BY <2>1, <2>2, <2>3, <2>4, RequestsStayFit DEF Registered
  <2> QED BY <2>2, <2>3, <2>6, <2>7, ResetsStayFit
<1>5. ASSUME NEW h \in Askers, RejectPassword(h) PROVE FitInv'
  <2>e. PICK e : e = requests[h].email
    OBVIOUS
  <2>1. e \in Emails /\ \E row \in Rows : customer' = [customer EXCEPT ![e] = row]
    BY <1>5, <2>e, CountedWrong
  <2>2. customer' \in [Emails -> Rows \cup {Nobody}] /\ \A f \in Emails : Registered(f) => Registered(f)'
    BY <2>1, RowWritten
  <2>3. Answer(h) /\ UNCHANGED <<resets, resetBy>>
    BY <1>5 DEF RejectPassword
  <2>4. /\ requests' \in [Askers -> RequestSet] /\ requests'[h].step = "idle"
        /\ \A g \in Askers \ {h} : requests'[g] = requests[g]
    BY <2>3, Answers
  <2>5. serial' \in [Emails -> BOOLEAN] /\ wrong' \in [Emails -> 0 .. MaxWrong]
    <3>1. Overtakes(h, e) /\ wrong[e] < MaxWrong /\ wrong' = [wrong EXCEPT ![e] = @ + 1]
      BY <1>5, <2>e DEF RejectPassword
    <3>2. wrong[e] + 1 \in 0 .. MaxWrong
      BY <1>t, <2>1, <3>1, AccountAssumption
    <3> QED BY <1>t, <2>1, <3>1, <3>2, CounterTypes
  <2>6. AccountTypeOK'
    BY <1>t, <2>2, <2>3, <2>4, <2>5, TypesFrom
  <2>7. RequestsFit'
    BY <2>2, <2>3, <2>4, RequestsStayFit
  <2> QED BY <2>2, <2>3, <2>6, <2>7, ResetsStayFit
<1>6. ASSUME NEW h \in Askers, AcceptPassword(h) PROVE FitInv'
  <2>e. PICK e : e = requests[h].email
    OBVIOUS
  <2>1. e \in Emails /\ \E row \in Rows : customer' = [customer EXCEPT ![e] = row]
    BY <1>6, <2>e, CountedRight
  <2>2. customer' \in [Emails -> Rows \cup {Nobody}] /\ \A f \in Emails : Registered(f) => Registered(f)'
    BY <2>1, RowWritten
  <2>3. Answer(h) /\ UNCHANGED <<resets, resetBy>>
    BY <1>6 DEF AcceptPassword
  <2>4. /\ requests' \in [Askers -> RequestSet] /\ requests'[h].step = "idle"
        /\ \A g \in Askers \ {h} : requests'[g] = requests[g]
    BY <2>3, Answers
  <2>5. serial' \in [Emails -> BOOLEAN] /\ wrong' \in [Emails -> 0 .. MaxWrong]
    <3>1. StartsOver(h, e) \/ (Overtakes(h, e) /\ UNCHANGED wrong)
      BY <1>6, <2>e DEF AcceptPassword
    <3> QED BY <1>t, <2>1, <3>1, CounterTypes
  <2>6. AccountTypeOK'
    BY <1>t, <2>2, <2>3, <2>4, <2>5, TypesFrom
  <2>7. RequestsFit'
    BY <2>2, <2>3, <2>4, RequestsStayFit
  <2> QED BY <2>2, <2>3, <2>6, <2>7, ResetsStayFit
<1>7. ASSUME NEW h \in Askers, CreateCustomer(h) PROVE FitInv'
  <2>e. PICK e : e = requests[h].email
    OBVIOUS
  <2>1. e \in Emails
        /\ \E row \in Rows :
                /\ customer' = [customer EXCEPT ![e] = row]
                /\ \E q \in RequestSet :
                     /\ requests' = [requests EXCEPT ![h] = q]
                     /\ q.step = "idle" \/ (q.step = "compare" /\ q.email = e)
    BY <1>7, <2>e, CustomerCreated
  <2>2. /\ customer' \in [Emails -> Rows \cup {Nobody}] /\ Registered(e)'
        /\ \A f \in Emails : Registered(f) => Registered(f)'
    BY <2>1, RowWritten
  <2>3. PICK q \in RequestSet : /\ requests' = [requests EXCEPT ![h] = q]
                                /\ q.step = "idle" \/ (q.step = "compare" /\ q.email = e)
    BY <2>1
  <2>4. requests' \in [Askers -> RequestSet] /\ requests'[h] = q
        /\ \A g \in Askers \ {h} : requests'[g] = requests[g]
    BY <2>3, RequestChanges
  <2>5. UNCHANGED <<resets, wrong, serial, resetBy>>
    BY <1>7 DEF CreateCustomer
  <2>6. AccountTypeOK'
    BY <1>t, <2>2, <2>4, <2>5, TypesFrom
  <2>7. RequestsFit'
    BY <2>1, <2>2, <2>3, <2>4, <2>5, RequestsStayFit DEF Registered
  <2> QED BY <2>2, <2>5, <2>6, <2>7, ResetsStayFit
<1>8. ASSUME NEW h \in Askers, CreationRefused(h) \/ RequestFails(h) PROVE FitInv'
  <2>1. Answer(h) /\ UNCHANGED <<customer, resets, wrong, resetBy>>
    BY <1>8 DEF CreationRefused, RequestFails
  <2>2. /\ requests' \in [Askers -> RequestSet] /\ requests'[h].step = "idle"
        /\ \A g \in Askers \ {h} : requests'[g] = requests[g]
    BY <2>1, Answers
  <2>3. serial' \in [Emails -> BOOLEAN]
    BY <1>t, <1>8 DEF CreationRefused, RequestFails, LoggingIn
  <2>4. AccountTypeOK'
    BY <1>t, <2>1, <2>2, <2>3, TypesFrom
  <2>5. RequestsFit'
    BY <2>1, <2>2, RequestsStayFit DEF Registered
  <2>6. ResetsFit'
    BY <2>1 DEF ResetsFit, Registered
  <2> QED BY <2>4, <2>5, <2>6
<1>9. ASSUME NEW h \in Askers, WriteExternalCustomer(h) PROVE FitInv'
  <2>e. PICK e : e = requests[h].email
    OBVIOUS
  <2>1. e \in Emails /\ \E row \in Rows : customer' = [customer EXCEPT ![e] = row]
    BY <1>9, <2>e, ExternalWritten
  <2>2. customer' \in [Emails -> Rows \cup {Nobody}] /\ \A f \in Emails : Registered(f) => Registered(f)'
    BY <2>1, RowWritten
  <2>3. Answer(h) /\ UNCHANGED <<resets, wrong, serial, resetBy>>
    BY <1>9 DEF WriteExternalCustomer
  <2>4. /\ requests' \in [Askers -> RequestSet] /\ requests'[h].step = "idle"
        /\ \A g \in Askers \ {h} : requests'[g] = requests[g]
    BY <2>3, Answers
  <2>6. AccountTypeOK'
    BY <1>t, <2>2, <2>3, <2>4, TypesFrom
  <2>7. RequestsFit'
    BY <2>2, <2>3, <2>4, RequestsStayFit
  <2> QED BY <2>2, <2>3, <2>6, <2>7, ResetsStayFit
<1>10. ASSUME NEW h \in Askers, ApplyChange(h) PROVE FitInv'
  <2>e. PICK e : e = requests[h].email
    OBVIOUS
  <2>1. e \in Emails /\ \E row \in Rows : customer' = [customer EXCEPT ![e] = row]
    BY <1>10, <2>e, ChangeStored
  <2>2. customer' \in [Emails -> Rows \cup {Nobody}] /\ \A f \in Emails : Registered(f) => Registered(f)'
    BY <2>1, RowWritten
  <2>3. Answer(h) /\ UNCHANGED <<resets, wrong, serial, resetBy>>
    BY <1>10 DEF ApplyChange
  <2>4. /\ requests' \in [Askers -> RequestSet] /\ requests'[h].step = "idle"
        /\ \A g \in Askers \ {h} : requests'[g] = requests[g]
    BY <2>3, Answers
  <2>6. AccountTypeOK'
    BY <1>t, <2>2, <2>3, <2>4, TypesFrom
  <2>7. RequestsFit'
    BY <2>2, <2>3, <2>4, RequestsStayFit
  <2> QED BY <2>2, <2>3, <2>6, <2>7, ResetsStayFit
<1>11. ASSUME NEW h \in Askers, ApplyReset(h) PROVE FitInv'
  <2>e. PICK e : e = requests[h].email
    OBVIOUS
  <2>1. e \in Emails /\ \E row \in Rows : customer' = [customer EXCEPT ![e] = row]
    BY <1>11, <2>e, ResetStored
  <2>2. customer' \in [Emails -> Rows \cup {Nobody}] /\ \A f \in Emails : Registered(f) => Registered(f)'
    BY <2>1, RowWritten
  <2>t. PICK t : t = requests[h].token
    OBVIOUS
  <2>3. /\ Answer(h) /\ StartsOver(h, e) /\ At(h, "reset")
        /\ resets' = [resets EXCEPT ![t] = Spent(@)] /\ resetBy' = [resetBy EXCEPT ![t].uses = @ + 1]
    BY <1>11, <2>e, <2>t DEF ApplyReset
  <2>4. /\ requests' \in [Askers -> RequestSet] /\ requests'[h].step = "idle"
        /\ \A g \in Askers \ {h} : requests'[g] = requests[g]
    BY <2>3, Answers
  <2>5. t \in ResetIds /\ resets[t].state # "unissued"
    BY <2>3, <2>t DEF RequestsFit, At
  <2>6. serial' \in [Emails -> BOOLEAN] /\ wrong' \in [Emails -> 0 .. MaxWrong]
    BY <2>1, <2>3, CounterTypes
  <2>7. resetBy' \in [ResetIds -> [uses : Nat, raced : BOOLEAN]]
    BY <1>t, <2>3, <2>5
  <2>8. /\ resets' \in [ResetIds -> ResetSet]
        /\ \A u \in ResetIds : resets'[u].email = resets[u].email
        /\ \A u \in ResetIds \ {t} : resets'[u] = resets[u]
        /\ resets'[t].state = "spent"
    BY <2>3, <2>5, ResetChanges
  <2>9. AccountTypeOK'
    BY <2>2, <2>4, <2>6, <2>7, <2>8, TypesFrom
  <2>10. \A u \in ResetIds : /\ resets'[u].email = resets[u].email
                             /\ resets'[u].state # "unissued" <=> resets[u].state # "unissued"
    BY <2>5, <2>8
  <2>11. RequestsFit'
    BY <2>2, <2>4, <2>10, RequestsStayFit
  <2> QED BY <2>2, <2>9, <2>10, <2>11, ResetsStayFit
<1>12. ASSUME NEW h \in Askers, InvalidateResets(h) PROVE FitInv'
  <2>1. At(h, "invalidate") /\ Step(h, "issue") /\ UNCHANGED <<customer, wrong, serial, resetBy>>
    BY <1>12 DEF InvalidateResets
  <2>2. /\ requests' \in [Askers -> RequestSet] /\ requests'[h].step = "issue"
        /\ requests'[h].email = requests[h].email /\ \A g \in Askers \ {h} : requests'[g] = requests[g]
    BY <2>1, StepsOn DEF Steps
  <2>3. requests[h].email \in Emails /\ Registered(requests[h].email)
    BY <2>1 DEF RequestsFit, At
  <2>4. /\ resets' \in [ResetIds -> ResetSet]
        /\ \A u \in ResetIds : /\ resets'[u].email = resets[u].email
                               /\ resets[u].email # requests[h].email => resets'[u] = resets[u]
                               /\ resets[u].email = requests[h].email => resets'[u].state = "spent"
    BY <1>12, Invalidated
  <2>5. AccountTypeOK'
    BY <1>t, <2>1, <2>2, <2>4, TypesFrom
  <2>6. RequestsFit'
    BY <2>1, <2>2, <2>3, <2>4, RequestsStayFit DEF Registered
  <2>7. ResetsFit'
    BY <2>1, <2>3, <2>4 DEF ResetsFit, Registered
  <2> QED BY <2>5, <2>6, <2>7
<1>13. ASSUME NEW h \in Askers, NEW t \in ResetIds, IssueReset(h, t) PROVE FitInv'
  <2>1. Answer(h) /\ UNCHANGED <<customer, wrong, serial, resetBy>>
    BY <1>13 DEF IssueReset
  <2>2. /\ requests' \in [Askers -> RequestSet] /\ requests'[h].step = "idle"
        /\ \A g \in Askers \ {h} : requests'[g] = requests[g]
    BY <2>1, Answers
  <2>3. /\ At(h, "issue") /\ resets' \in [ResetIds -> ResetSet]
        /\ \A u \in ResetIds \ {t} : resets'[u] = resets[u]
        /\ resets[t].state = "unissued" /\ resets'[t].email = requests[h].email
    BY <1>13, Issued
  <2>4. requests[h].email \in Emails /\ Registered(requests[h].email)
    BY <2>3 DEF RequestsFit, At
  <2>5. AccountTypeOK'
    BY <1>t, <2>1, <2>2, <2>3, TypesFrom
  <2>6. RequestsFit'
    BY <2>1, <2>2, <2>3, RequestsStayFit DEF Registered
  <2>7. ResetsFit'
    BY <2>1, <2>3, <2>4 DEF ResetsFit, Registered
  <2> QED BY <2>5, <2>6, <2>7
<1>14. ASSUME NEW e \in Emails, LockLapses(e) PROVE FitInv'
  <2>1. UNCHANGED <<resets, requests, wrong, serial, resetBy>>
        /\ \E row \in Rows : customer' = [customer EXCEPT ![e] = row]
    BY <1>14, LockRanOut DEF LockLapses
  <2>2. customer' \in [Emails -> Rows \cup {Nobody}] /\ \A f \in Emails : Registered(f) => Registered(f)'
    BY <2>1, RowWritten
  <2>3. AccountTypeOK'
    BY <1>t, <2>1, <2>2, TypesFrom
  <2>4. RequestsFit'
    BY <2>1, <2>2 DEF RequestsFit, Registered
  <2> QED BY <2>1, <2>2, <2>3, <2>4, ResetsStayFit
<1>15. ASSUME NEW t \in ResetIds, ResetLapses(t) PROVE FitInv'
  <2>1. /\ Usable(t) /\ UNCHANGED <<customer, requests, wrong, serial, resetBy>>
        /\ resets' = [resets EXCEPT ![t] = Spent(@)]
    BY <1>15 DEF ResetLapses
  <2>2. /\ resets' \in [ResetIds -> ResetSet]
        /\ \A u \in ResetIds : resets'[u].email = resets[u].email
        /\ \A u \in ResetIds \ {t} : resets'[u] = resets[u]
        /\ resets'[t].state = "spent"
    BY <2>1, ResetChanges
  <2>3. AccountTypeOK'
    BY <1>t, <2>1, <2>2, TypesFrom
  <2>4. \A u \in ResetIds : /\ resets'[u].email = resets[u].email
                            /\ resets'[u].state # "unissued" <=> resets[u].state # "unissued"
    BY <2>1, <2>2 DEF Usable
  <2>5. RequestsFit'
    BY <2>1, <2>4 DEF RequestsFit, Registered
  <2>6. \A f \in Emails : Registered(f) => Registered(f)'
    BY <2>1 DEF Registered
  <2>7. ResetsFit'
    BY <2>4, <2>6, ResetsStayFit
  <2> QED BY <2>3, <2>5, <2>7
<1> QED BY <1>1, <1>2, <1>3, <1>4, <1>5, <1>6, <1>7, <1>8, <1>9, <1>10, <1>11, <1>12, <1>13, <1>14,
           <1>15, NextCases

-----------------------------------------------------------------------------
(* The count of an address, step by step. *)

\* Nothing that is counted changes, but that the address may gain a row.
LEMMA CountKept ==
    ASSUME FitInv, NEW e \in Emails, CountOf(e),
           wrong'[e] = wrong[e], serial'[e] = serial[e],
           \A g \in Askers : LoggingIn(g, e)' <=> LoggingIn(g, e),
           \A g \in Askers : LoggingIn(g, e) => requests'[g] = requests[g],
           \/ customer'[e] = customer[e]
           \/ /\ Registered(e) /\ Registered(e)'
              /\ customer'[e].failed = customer[e].failed /\ customer'[e].lock = customer[e].lock
           \/ /\ ~Registered(e) /\ customer'[e].failed = 0 /\ customer'[e].lock = "none"
    PROVE  CountOf(e)'
<1>1. \A g \in Askers : Crossed(g, e)' <=> Crossed(g, e)
  BY DEF Crossed
<1>2. \A g \in Askers : LoggingIn(g, e) => Registered(e)
  BY DEF FitInv, RequestsFit, LoggingIn
<1>3. CASE customer'[e] = customer[e]
  BY <1>1, <1>3 DEF CountOf, Registered, At, LoggingIn
<1>4. CASE /\ Registered(e) /\ Registered(e)'
           /\ customer'[e].failed = customer[e].failed /\ customer'[e].lock = customer[e].lock
  BY <1>1, <1>4 DEF CountOf, Registered, At, LoggingIn
<1>5. CASE ~Registered(e) /\ customer'[e].failed = 0 /\ customer'[e].lock = "none"
  <2>1. \A g \in Askers : ~LoggingIn(g, e)'
    BY <1>2, <1>5
  <2>2. wrong'[e] = 0 /\ ~(0 >= Lockout)
    BY <1>5, AccountAssumption DEF CountOf
  <2> QED BY <1>5, <2>1, <2>2 DEF CountOf
<1> QED BY <1>3, <1>4, <1>5

\* The count starts over with a row that is open.
LEMMA CountStarts ==
    ASSUME FitInv, NEW h \in Askers, NEW e \in Emails,
           customer'[e].failed = 0, customer'[e].lock = "none", Registered(e)', wrong'[e] = 0,
           serial'[e] <=> ~Crossed(h, e), ~LoggingIn(h, e)',
           \A g \in Askers \ {h} : requests'[g] = requests[g]
    PROVE  CountOf(e)'
<1>1. ~(0 >= Lockout)
  BY AccountAssumption
<1>2. \A g \in Askers \ {h} : LoggingIn(g, e)' <=> LoggingIn(g, e)
  BY DEF LoggingIn
<1>3. serial'[e] => \A g \in Askers : ~LoggingIn(g, e)'
  BY <1>2 DEF Crossed
<1> QED BY <1>1, <1>3 DEF CountOf

\* The requests of h do not concern the count of f.
LEMMA OtherCounts ==
    ASSUME FitInv, NEW h \in Askers, NEW f \in Emails, CountOf(f),
           requests[h].email # f \/ requests[h].step \notin {"clear", "compare"},
           requests'[h].email # f \/ requests'[h].step \notin {"clear", "compare"},
           \A g \in Askers \ {h} : requests'[g] = requests[g],
           wrong'[f] = wrong[f], serial'[f] = serial[f],
           \/ customer'[f] = customer[f]
           \/ /\ Registered(f) /\ Registered(f)'
              /\ customer'[f].failed = customer[f].failed /\ customer'[f].lock = customer[f].lock
           \/ /\ ~Registered(f) /\ customer'[f].failed = 0 /\ customer'[f].lock = "none"
    PROVE  CountOf(f)'
<1>1. \A g \in Askers : LoggingIn(g, f)' <=> LoggingIn(g, f)
  BY DEF LoggingIn
<1>2. \A g \in Askers : LoggingIn(g, f) => requests'[g] = requests[g]
  BY DEF LoggingIn
<1> QED BY <1>1, <1>2, CountKept

CountStep == FitInv /\ FitInv' /\ \A e \in Emails : CountOf(e)

LEMMA CountsAfterRead ==
    ASSUME CountStep, NEW h \in Askers, NEW e \in Emails, Authenticates(h, e)
    PROVE  \A f \in Emails : CountOf(f)'
<1> USE DEF CountStep
<1>1. At(h, "idle") /\ OthersUnchanged /\ Registered(e) /\ customer[e].lock # "held"
  BY Authenticating
<1>2. PICK q \in RequestSet :
                /\ requests' = [requests EXCEPT ![h] = q]
                /\ q.email = e /\ q.seen.failed = customer[e].failed
                /\ q.step = (IF customer[e].lock = "lapsed" THEN "clear" ELSE "compare")
  BY Authenticating
<1>3. requests'[h] = q /\ \A g \in Askers \ {h} : requests'[g] = requests[g]
  BY <1>2, RequestChanges DEF FitInv
<1>4. ASSUME NEW f \in Emails, f # e PROVE CountOf(f)'
  <2>1. customer'[f] = customer[f] /\ wrong'[f] = wrong[f] /\ serial'[f] = serial[f]
    BY <1>1 DEF OthersUnchanged
  <2>2. requests[h].step = "idle" /\ requests'[h].email # f
    BY <1>1, <1>2, <1>3, <1>4 DEF At
  <2> QED BY <1>3, <2>1, <2>2, OtherCounts
<1>5. CountOf(e)'
  <2>1. customer' = customer /\ wrong' = wrong /\ serial' = serial
    BY <1>1 DEF OthersUnchanged
  <2>2. \A g \in Askers \ {h} : LoggingIn(g, e)' <=> LoggingIn(g, e)
    BY <1>3 DEF LoggingIn
  <2>3. LoggingIn(h, e)' /\ ~LoggingIn(h, e)
    BY <1>1, <1>2, <1>3 DEF LoggingIn, At
  <2>4. Crossed(h, e)' <=> Crossed(h, e)
    BY <2>2 DEF Crossed
  <2>5. \A g \in Askers \ {h} : Crossed(g, e)'
    BY <2>3 DEF Crossed
  <2>6. customer[e] \in Rows
    BY <1>1 DEF FitInv, AccountTypeOK, Registered
  <2>7. ASSUME ~Crossed(h, e), serial[e]
        PROVE  /\ customer[e].failed = wrong[e]
               /\ (customer[e].lock # "none") <=> (wrong[e] >= Lockout)
    <3>1. \A g \in Askers : ~LoggingIn(g, e)
      BY <2>3, <2>7 DEF Crossed
    <3> QED BY <1>1, <2>7, <3>1 DEF CountOf
  <2>8. ASSUME NEW g \in Askers, LoggingIn(g, e)', ~Crossed(g, e)', serial'[e]
        PROVE  /\ requests'[g].seen.failed = wrong'[e]
               /\ At(g, "clear")' => wrong'[e] >= Lockout
               /\ At(g, "compare")' =>
                    /\ customer'[e].lock = "none"
                    /\ customer'[e].failed = (IF wrong'[e] < Lockout THEN wrong'[e] ELSE 0)
    <3>1. g = h /\ ~Crossed(h, e) /\ serial[e]
      BY <2>1, <2>4, <2>5, <2>8
    <3>2. customer[e].failed = wrong[e] /\ ((customer[e].lock # "none") <=> (wrong[e] >= Lockout))
      BY <2>7, <3>1
    <3>3. wrong[e] \in Nat
      BY AccountAssumption DEF FitInv, AccountTypeOK
    <3>4. customer[e].lock \in {"none", "held", "lapsed"}
      BY <2>6 DEF Rows
    <3> QED BY <1>1, <1>2, <1>3, <2>1, <3>1, <3>2, <3>3, <3>4, AccountAssumption DEF At
  <2> QED BY <1>1, <2>1, <2>3, <2>8 DEF CountOf, Registered
<1> QED BY <1>4, <1>5

LEMMA CountsAfterClear ==
    ASSUME CountStep, NEW h \in Askers, ClearLapsedLock(h)
    PROVE  \A f \in Emails : CountOf(f)'
<1> USE DEF CountStep
<1>e. PICK e : e = requests[h].email
  OBVIOUS
<1>1. e \in Emails /\ Registered(e)
  BY <1>e, LapsedCleared
<1>2. PICK row \in Rows : customer' = [customer EXCEPT ![e] = row] /\ row.failed = 0 /\ row.lock = "none"
  BY <1>e, LapsedCleared
<1>3. customer'[e] = row /\ \A f \in Emails \ {e} : customer'[f] = customer[f]
  BY <1>1, <1>2, RowWritten DEF FitInv
<1>4. At(h, "clear") /\ Step(h, "compare") /\ Overtakes(h, e) /\ UNCHANGED <<resets, wrong, resetBy>>
  BY <1>e DEF ClearLapsedLock
<1>5. /\ requests'[h].step = "compare" /\ requests'[h].email = e /\ requests'[h].seen = requests[h].seen
      /\ \A g \in Askers \ {h} : requests'[g] = requests[g]
  BY <1>e, <1>4, StepsOn DEF FitInv, Steps
<1>6. (serial'[e] <=> serial[e] /\ ~Crossed(h, e)) /\ \A f \in Emails \ {e} : serial'[f] = serial[f]
  BY <1>1, <1>4, CounterTypes DEF FitInv
<1>7. ASSUME NEW f \in Emails, f # e PROVE CountOf(f)'
  BY <1>e, <1>3, <1>4, <1>5, <1>6, <1>7, OtherCounts
<1>8. CountOf(e)'
  <2>1. LoggingIn(h, e) /\ LoggingIn(h, e)'
    BY <1>e, <1>4, <1>5 DEF LoggingIn, At
  <2>2. ASSUME NEW g \in Askers, LoggingIn(g, e)', ~Crossed(g, e)', serial'[e]
        PROVE  /\ requests'[g].seen.failed = wrong'[e]
               /\ At(g, "clear")' => wrong'[e] >= Lockout
               /\ At(g, "compare")' =>
                    /\ customer'[e].lock = "none"
                    /\ customer'[e].failed = (IF wrong'[e] < Lockout THEN wrong'[e] ELSE 0)
    <3>1. g = h
      BY <2>1, <2>2 DEF Crossed
    <3>2. serial[e] /\ ~Crossed(h, e)
      BY <1>6, <2>2
    <3>3. requests[h].seen.failed = wrong[e] /\ wrong[e] >= Lockout
      BY <1>1, <1>4, <2>1, <3>2 DEF CountOf
    <3>4. wrong[e] \in Nat /\ Lockout \in Nat
      BY <1>1, AccountAssumption DEF FitInv, AccountTypeOK
    <3> QED BY <1>2, <1>3, <1>4, <1>5, <3>1, <3>3, <3>4 DEF At
  <2>3. Registered(e)'
    BY <1>1, <1>2, RowWritten DEF FitInv
  <2> QED BY <1>2, <1>3, <2>1, <2>2, <2>3 DEF CountOf
<1> QED BY <1>7, <1>8

LEMMA CountsAfterReject ==
    ASSUME CountStep, NEW h \in Askers, RejectPassword(h)
    PROVE  \A f \in Emails : CountOf(f)'
<1> USE DEF CountStep
<1>e. PICK e : e = requests[h].email
  OBVIOUS
<1>1. e \in Emails /\ Registered(e)
  BY <1>e, CountedWrong
<1>2. PICK row \in Rows : /\ customer' = [customer EXCEPT ![e] = row]
                          /\ row.failed = requests[h].seen.failed + 1
                          /\ row.lock = IF row.failed >= Lockout THEN "held" ELSE customer[e].lock
  BY <1>e, CountedWrong
<1>3. customer'[e] = row /\ \A f \in Emails \ {e} : customer'[f] = customer[f]
  BY <1>1, <1>2, RowWritten DEF FitInv
<1>4. /\ At(h, "compare") /\ Answer(h) /\ Overtakes(h, e) /\ UNCHANGED <<resets, resetBy>>
      /\ wrong' = [wrong EXCEPT ![e] = @ + 1]
  BY <1>e DEF RejectPassword
<1>5. requests'[h].step = "idle" /\ \A g \in Askers \ {h} : requests'[g] = requests[g]
  BY <1>4, Answers DEF FitInv
<1>6. (serial'[e] <=> serial[e] /\ ~Crossed(h, e)) /\ \A f \in Emails \ {e} : serial'[f] = serial[f]
  BY <1>1, <1>4, CounterTypes DEF FitInv
<1>7. wrong[e] \in Nat /\ wrong'[e] = wrong[e] + 1 /\ \A f \in Emails \ {e} : wrong'[f] = wrong[f]
  BY <1>1, <1>4, AccountAssumption DEF FitInv, AccountTypeOK
<1>8. ASSUME NEW f \in Emails, f # e PROVE CountOf(f)'
  BY <1>e, <1>3, <1>5, <1>6, <1>7, <1>8, OtherCounts
<1>9. CountOf(e)'
  <2>1. LoggingIn(h, e) /\ ~LoggingIn(h, e)'
    BY <1>e, <1>4, <1>5 DEF LoggingIn, At
  <2>2. serial'[e] => \A g \in Askers : ~LoggingIn(g, e)'
    BY <1>5, <1>6, <2>1 DEF Crossed, LoggingIn
  <2>3. row.failed \in Nat /\ row.failed # 0
    BY <1>1, <1>2, <1>4, AccountAssumption DEF Rows, FitInv, AccountTypeOK
  <2>4. ASSUME serial'[e]
        PROVE  /\ row.failed = wrong'[e]
               /\ (row.lock # "none") <=> (wrong'[e] >= Lockout)
    <3>1. serial[e] /\ ~Crossed(h, e)
      BY <1>6, <2>4
    <3>2. requests[h].seen.failed = wrong[e] /\ customer[e].lock = "none"
      BY <1>1, <1>4, <2>1, <3>1 DEF CountOf
    <3> QED BY <1>2, <1>7, <3>2, AccountAssumption
  <2>5. Registered(e)'
    BY <1>1, <1>2, RowWritten DEF FitInv
  <2> QED BY <1>3, <2>1, <2>2, <2>3, <2>4, <2>5 DEF CountOf
<1> QED BY <1>8, <1>9

LEMMA CountsAfterAccept ==
    ASSUME CountStep, NEW h \in Askers, AcceptPassword(h)
    PROVE  \A f \in Emails : CountOf(f)'
<1> USE DEF CountStep
<1>e. PICK e : e = requests[h].email
  OBVIOUS
<1>1. e \in Emails /\ Registered(e) /\ requests[h].seen.failed \in Nat
  BY <1>e, CountedRight
<1>2. PICK row \in Rows : /\ customer' = [customer EXCEPT ![e] = row]
                          /\ IF requests[h].seen.failed > 0 THEN row.failed = 0 /\ row.lock = "none"
                             ELSE row = customer[e]
  BY <1>e, CountedRight
<1>3. customer'[e] = row /\ Registered(e)' /\ \A f \in Emails \ {e} : customer'[f] = customer[f]
  BY <1>1, <1>2, RowWritten DEF FitInv
<1>4. /\ At(h, "compare") /\ Answer(h) /\ UNCHANGED <<resets, resetBy>>
      /\ IF requests[h].seen.failed > 0 \/ customer[e].failed = 0
         THEN StartsOver(h, e)
         ELSE Overtakes(h, e) /\ UNCHANGED wrong
  BY <1>e DEF AcceptPassword
<1>5. requests'[h].step = "idle" /\ \A g \in Askers \ {h} : requests'[g] = requests[g]
  BY <1>4, Answers DEF FitInv
<1>6. \A f \in Emails \ {e} : serial'[f] = serial[f] /\ wrong'[f] = wrong[f]
  BY <1>1, <1>4, CounterTypes DEF FitInv
<1>7. ASSUME NEW f \in Emails, f # e PROVE CountOf(f)'
  BY <1>e, <1>3, <1>5, <1>6, <1>7, OtherCounts
<1>8. LoggingIn(h, e) /\ ~LoggingIn(h, e)'
  BY <1>e, <1>4, <1>5 DEF LoggingIn, At
<1>9. CASE requests[h].seen.failed > 0 \/ customer[e].failed = 0
  <2>1. wrong'[e] = 0 /\ (serial'[e] <=> ~Crossed(h, e))
    BY <1>1, <1>4, <1>9, CounterTypes DEF FitInv
  <2>2. row.failed = 0 /\ row.lock = "none"
    BY <1>1, <1>2, <1>9 DEF CountOf
  <2>3. CountOf(e)'
    BY <1>1, <1>3, <1>5, <1>8, <2>1, <2>2, CountStarts
  <2> QED BY <1>7, <2>3
<1>10. CASE ~(requests[h].seen.failed > 0 \/ customer[e].failed = 0)
  <2>1. wrong' = wrong /\ (serial'[e] <=> serial[e] /\ ~Crossed(h, e)) /\ customer'[e] = customer[e]
    BY <1>1, <1>2, <1>3, <1>4, <1>10, CounterTypes DEF FitInv
  <2>2. ~serial'[e]
    <3>1. SUFFICES ASSUME serial[e], ~Crossed(h, e) PROVE FALSE
      BY <2>1
    <3>2. wrong[e] = 0
      BY <1>1, <1>4, <1>8, <1>10, <3>1 DEF CountOf
    <3>3. customer[e].failed = 0
      BY <1>1, <1>4, <1>8, <3>1, <3>2, AccountAssumption DEF CountOf
    <3> QED BY <1>10, <3>3
  <2>3. CountOf(e)'
    BY <1>1, <1>3, <2>1, <2>2 DEF CountOf
  <2> QED BY <1>7, <2>3
<1> QED BY <1>9, <1>10

LEMMA CountsAfterReset ==
    ASSUME CountStep, NEW h \in Askers, ApplyReset(h)
    PROVE  \A f \in Emails : CountOf(f)'
<1> USE DEF CountStep
<1>e. PICK e : e = requests[h].email
  OBVIOUS
<1>1. e \in Emails /\ Registered(e)
  BY <1>e, ResetStored
<1>2. PICK row \in Rows : customer' = [customer EXCEPT ![e] = row] /\ row.failed = 0 /\ row.lock = "none"
  BY <1>e, ResetStored
<1>3. customer'[e] = row /\ Registered(e)' /\ \A f \in Emails \ {e} : customer'[f] = customer[f]
  BY <1>1, <1>2, RowWritten DEF FitInv
<1>4. At(h, "reset") /\ Answer(h) /\ StartsOver(h, e)
  BY <1>e DEF ApplyReset
<1>5. requests'[h].step = "idle" /\ \A g \in Askers \ {h} : requests'[g] = requests[g]
  BY <1>4, Answers DEF FitInv
<1>6. /\ wrong'[e] = 0 /\ (serial'[e] <=> ~Crossed(h, e))
      /\ \A f \in Emails \ {e} : serial'[f] = serial[f] /\ wrong'[f] = wrong[f]
  BY <1>1, <1>4, CounterTypes DEF FitInv
<1>7. ASSUME NEW f \in Emails, f # e PROVE CountOf(f)'
  BY <1>e, <1>3, <1>5, <1>6, <1>7, OtherCounts
<1>8. CountOf(e)'
  BY <1>1, <1>2, <1>3, <1>5, <1>6, CountStarts DEF LoggingIn
<1> QED BY <1>7, <1>8

LEMMA CountsAfterCreate ==
    ASSUME CountStep, NEW h \in Askers, CreateCustomer(h)
    PROVE  \A f \in Emails : CountOf(f)'
<1> USE DEF CountStep
<1>e. PICK e : e = requests[h].email
  OBVIOUS
<1>1. e \in Emails /\ ~Registered(e) /\ requests[h].step \in {"create", "createThenLogin"}
  BY <1>e, CustomerCreated DEF CreateCustomer
<1>2. PICK row \in Rows :
                /\ customer' = [customer EXCEPT ![e] = row]
                /\ row.failed = 0 /\ row.lock = "none"
                /\ \E q \in RequestSet :
                     /\ requests' = [requests EXCEPT ![h] = q]
                     /\ \/ q.step = "idle"
                        \/ q.step = "compare" /\ q.email = e /\ q.seen.failed = 0
  BY <1>e, CustomerCreated
<1>3. customer'[e] = row /\ Registered(e)' /\ \A f \in Emails \ {e} : customer'[f] = customer[f]
  BY <1>1, <1>2, RowWritten DEF FitInv
<1>4. PICK q \in RequestSet : /\ requests' = [requests EXCEPT ![h] = q]
                              /\ \/ q.step = "idle"
                                 \/ q.step = "compare" /\ q.email = e /\ q.seen.failed = 0
  BY <1>2
<1>5. requests'[h] = q /\ \A g \in Askers \ {h} : requests'[g] = requests[g]
  BY <1>4, RequestChanges DEF FitInv
<1>6. UNCHANGED <<wrong, serial>>
  BY DEF CreateCustomer
<1>7. ASSUME NEW f \in Emails, f # e PROVE CountOf(f)'
  BY <1>1, <1>3, <1>4, <1>5, <1>6, <1>7, OtherCounts
<1>8. wrong[e] = 0 /\ \A g \in Askers : ~LoggingIn(g, e)
  BY <1>1 DEF CountOf, FitInv, RequestsFit, LoggingIn
<1>9. \A g \in Askers \ {h} : ~LoggingIn(g, e)'
  BY <1>5, <1>8 DEF LoggingIn
<1>10. ASSUME LoggingIn(h, e)'
       PROVE  requests'[h].seen.failed = 0 /\ At(h, "compare")' /\ ~At(h, "clear")'
  BY <1>4, <1>5, <1>10 DEF LoggingIn, At
<1>11. 0 < Lockout /\ ~(0 >= Lockout)
  BY AccountAssumption
<1>12. CountOf(e)'
  <2>1. ASSUME NEW g \in Askers, LoggingIn(g, e)'
        PROVE  /\ requests'[g].seen.failed = wrong'[e]
               /\ At(g, "clear")' => wrong'[e] >= Lockout
               /\ At(g, "compare")' =>
                    /\ customer'[e].lock = "none"
                    /\ customer'[e].failed = (IF wrong'[e] < Lockout THEN wrong'[e] ELSE 0)
    BY <1>2, <1>3, <1>6, <1>8, <1>9, <1>10, <1>11, <2>1
  <2> QED BY <1>2, <1>3, <1>6, <1>8, <1>11, <2>1 DEF CountOf
<1> QED BY <1>7, <1>12

\* Steps that leave every count as it is.
LEMMA CountsAfterRest ==
    ASSUME CountStep,
           \/ \E h \in Askers : \/ Begins(h) \/ CreationRefused(h) \/ WriteExternalCustomer(h)
                                \/ InvalidateResets(h) \/ ApplyChange(h)
                                \/ \E t \in ResetIds : IssueReset(h, t)
                                \/ \E t \in ResetIds, p \in Passwords : ResetPassword(h, t, p)
           \/ \E t \in ResetIds : ResetLapses(t)
    PROVE  \A f \in Emails : CountOf(f)'
<1> USE DEF CountStep
<1>1. ASSUME NEW h \in Askers, Begins(h) PROVE \A f \in Emails : CountOf(f)'
  <2>1. At(h, "idle") /\ OthersUnchanged
        /\ \E q \in RequestSet :
                /\ requests' = [requests EXCEPT ![h] = q]
                /\ q.step \in {"create", "createThenLogin", "link", "createExternal", "invalidate", "change"}
    BY <1>1, Begun
  <2>2. PICK q \in RequestSet :
                /\ requests' = [requests EXCEPT ![h] = q]
                /\ q.step \in {"create", "createThenLogin", "link", "createExternal", "invalidate", "change"}
    BY <2>1
  <2>3. requests'[h] = q /\ \A g \in Askers \ {h} : requests'[g] = requests[g]
    BY <2>2, RequestChanges DEF FitInv
  <2> QED BY <2>1, <2>2, <2>3, OtherCounts DEF At, OthersUnchanged
<1>2. ASSUME NEW h \in Askers, CreationRefused(h) PROVE \A f \in Emails : CountOf(f)'
  <2>1. requests[h].step \in {"create", "createThenLogin"} /\ Answer(h) /\ UNCHANGED <<customer, wrong, serial>>
    BY <1>2 DEF CreationRefused
  <2>2. requests'[h].step = "idle" /\ \A g \in Askers \ {h} : requests'[g] = requests[g]
    BY <2>1, Answers DEF FitInv
  <2> QED BY <2>1, <2>2, OtherCounts
<1>3. ASSUME NEW h \in Askers, WriteExternalCustomer(h) \/ ApplyChange(h) PROVE \A f \in Emails : CountOf(f)'
  <2>e. PICK e : e = requests[h].email
    OBVIOUS
  <2>1. requests[h].step \in {"link", "createExternal", "change"} /\ Answer(h) /\ UNCHANGED <<wrong, serial>>
    BY <1>3 DEF WriteExternalCustomer, ApplyChange, At
  <2>2. /\ e \in Emails
        /\ \E row \in Rows :
                /\ customer' = [customer EXCEPT ![e] = row]
                /\ \/ /\ Registered(e)
                      /\ row.failed = customer[e].failed /\ row.lock = customer[e].lock
                   \/ ~Registered(e) /\ row.failed = 0 /\ row.lock = "none"
    BY <1>3, <2>e, ExternalWritten, ChangeStored
  <2>3. /\ \A f \in Emails \ {e} : customer'[f] = customer[f]
        /\ Registered(e)'
        /\ \/ /\ Registered(e)
              /\ customer'[e].failed = customer[e].failed /\ customer'[e].lock = customer[e].lock
           \/ ~Registered(e) /\ customer'[e].failed = 0 /\ customer'[e].lock = "none"
    BY <2>2, RowWritten DEF FitInv
  <2>4. requests'[h].step = "idle" /\ \A g \in Askers \ {h} : requests'[g] = requests[g]
    BY <2>1, Answers DEF FitInv
  <2>5. ASSUME NEW f \in Emails PROVE CountOf(f)'
    <3>1. CASE f # e
      BY <2>1, <2>3, <2>4, <3>1, OtherCounts
    <3>2. CASE f = e
      BY <2>1, <2>3, <2>4, <3>2, OtherCounts
    <3> QED BY <3>1, <3>2
  <2> QED BY <2>5
<1>4. ASSUME NEW h \in Askers, InvalidateResets(h) PROVE \A f \in Emails : CountOf(f)'
  <2>1. At(h, "invalidate") /\ Step(h, "issue") /\ UNCHANGED <<customer, wrong, serial>>
    BY <1>4 DEF InvalidateResets
  <2>2. requests'[h].step = "issue" /\ \A g \in Askers \ {h} : requests'[g] = requests[g]
    BY <2>1, StepsOn DEF FitInv, Steps
  <2> QED BY <2>1, <2>2, OtherCounts DEF At
<1>5. ASSUME NEW h \in Askers, NEW t \in ResetIds, IssueReset(h, t) PROVE \A f \in Emails : CountOf(f)'
  <2>1. At(h, "issue") /\ Answer(h) /\ UNCHANGED <<customer, wrong, serial>>
    BY <1>5 DEF IssueReset
  <2>2. requests'[h].step = "idle" /\ \A g \in Askers \ {h} : requests'[g] = requests[g]
    BY <2>1, Answers DEF FitInv
  <2> QED BY <2>1, <2>2, OtherCounts DEF At
<1>6. ASSUME NEW h \in Askers, NEW t \in ResetIds, NEW p \in Passwords, ResetPassword(h, t, p)
      PROVE  \A f \in Emails : CountOf(f)'
  <2>1. At(h, "idle") /\ UNCHANGED <<customer, wrong, serial>>
    BY <1>6 DEF ResetPassword
  <2>2. PICK q \in RequestSet : requests' = [requests EXCEPT ![h] = q] /\ q.step = "reset"
    BY <1>6, Resetting
  <2>3. requests'[h] = q /\ \A g \in Askers \ {h} : requests'[g] = requests[g]
    BY <2>2, RequestChanges DEF FitInv
  <2> QED BY <2>1, <2>2, <2>3, OtherCounts DEF At
<1>7. ASSUME NEW t \in ResetIds, ResetLapses(t) PROVE \A f \in Emails : CountOf(f)'
  <2>1. UNCHANGED <<customer, requests, wrong, serial>>
    BY <1>7 DEF ResetLapses
  <2> QED BY <2>1 DEF CountOf, Registered, LoggingIn, Crossed, At
<1> QED BY <1>1, <1>2, <1>3, <1>4, <1>5, <1>6, <1>7

LEMMA CountsAfterLapse ==
    ASSUME CountStep, NEW e \in Emails, LockLapses(e)
    PROVE  \A f \in Emails : CountOf(f)'
<1> USE DEF CountStep
<1>1. customer[e].lock = "held" /\ Registered(e) /\ UNCHANGED <<requests, wrong, serial>>
  BY LockRanOut DEF LockLapses
<1>2. PICK row \in Rows : /\ customer' = [customer EXCEPT ![e] = row]
                          /\ row.failed = customer[e].failed /\ row.lock = "lapsed"
  BY LockRanOut
<1>3. customer'[e] = row /\ Registered(e)' /\ \A f \in Emails \ {e} : customer'[f] = customer[f]
  BY <1>2, RowWritten DEF FitInv
<1>4. ASSUME NEW f \in Emails, f # e PROVE CountOf(f)'
  BY <1>1, <1>3, <1>4 DEF CountOf, Registered, LoggingIn, Crossed, At
<1>5. CountOf(e)'
  BY <1>1, <1>2, <1>3 DEF CountOf, LoggingIn, Crossed, At
<1> QED BY <1>4, <1>5

LEMMA CountsAfterFailure ==
    ASSUME CountStep, NEW h \in Askers, RequestFails(h)
    PROVE  \A f \in Emails : CountOf(f)'
<1> USE DEF CountStep
<1>1. Answer(h) /\ UNCHANGED <<customer, wrong>> /\ \A f \in Emails : serial'[f] = (serial[f] /\ ~LoggingIn(h, f))
  BY DEF RequestFails
<1>2. requests'[h].step = "idle" /\ \A g \in Askers \ {h} : requests'[g] = requests[g]
  BY <1>1, Answers DEF FitInv
<1>3. ASSUME NEW f \in Emails, LoggingIn(h, f) PROVE CountOf(f)'
  BY <1>1, <1>3 DEF CountOf, Registered
<1>4. ASSUME NEW f \in Emails, ~LoggingIn(h, f) PROVE CountOf(f)'
  <2>1. serial'[f] = serial[f]
    BY <1>1, <1>4 DEF FitInv, AccountTypeOK
  <2> QED BY <1>1, <1>2, <1>4, <2>1, OtherCounts DEF LoggingIn
<1> QED BY <1>3, <1>4

\* While no login crosses another write and none is half way, the row of a
\* customer counts the wrong passwords since the last right one, and is locked
\* from the Lockout-th on: for any number of addresses and handlers.
THEOREM FailuresCounted == AccountSpec => []CountsFailures
<1>1. AccountInit => CountInv
  <2> SUFFICES ASSUME AccountInit PROVE CountInv
    OBVIOUS
  <2>1. FitInv
    BY AccountStart
  <2>2. \A e \in Emails : CountOf(e)
    BY DEF AccountInit, CountOf, Registered, LoggingIn, NoRequest
  <2> QED BY <2>1, <2>2 DEF CountInv, FitInv
<1>2. CountInv /\ [AccountNext]_accountVars => CountInv'
  <2> SUFFICES ASSUME CountInv, [AccountNext]_accountVars PROVE CountInv'
    OBVIOUS
  <2>1. CASE UNCHANGED accountVars
    BY <2>1 DEF CountInv, accountVars, AccountTypeOK, RequestsFit, ResetsFit, CountOf, Registered, LoggingIn,
                Crossed, At
  <2>2. CASE AccountNext
    <3>1. FitInv /\ FitInv'
      BY <2>2, AccountFits DEF CountInv, FitInv
    <3>2. CountStep
      BY <3>1 DEF CountStep, CountInv
    <3>3. \A f \in Emails : CountOf(f)'
      BY <2>2, <3>2, NextCases, CountsAfterRead, CountsAfterClear, CountsAfterReject, CountsAfterAccept,
         CountsAfterReset, CountsAfterCreate, CountsAfterRest, CountsAfterLapse, CountsAfterFailure
    <3> QED BY <3>1, <3>3 DEF CountInv, FitInv
  <2> QED BY <2>1, <2>2
<1>3. CountInv => CountsFailures
  BY DEF CountInv, CountOf, CountsFailures
<1> QED BY <1>1, <1>2, <1>3, PTL DEF AccountSpec

-----------------------------------------------------------------------------
(* Reset tokens, step by step. *)

TokenInv == FitInv /\ OneHolder /\ IssuesCross /\ ResetsReplaceEachOther

\* What is said of reset tokens depends on them, on who holds one and on who is
\* about to issue one.
LEMMA TokensKept ==
    ASSUME TokenInv, UNCHANGED resetBy,
           \A t \in ResetIds : \/ resets'[t] = resets[t]
                               \/ resets'[t].email = resets[t].email /\ resets'[t].state = "spent",
           \A h \in Askers, t \in ResetIds : Holding(h, t)' => Holding(h, t),
           \A h \in Askers : At(h, "issue")' =>
               (At(h, "issue") /\ requests'[h].email = requests[h].email)
               \/ \A t \in ResetIds : resets'[t].email = requests'[h].email => resets'[t].state = "spent"
    PROVE  (OneHolder /\ IssuesCross /\ ResetsReplaceEachOther)'
<1>1. OneHolder'
  <2> SUFFICES ASSUME NEW t \in ResetIds, ~resetBy[t].raced
               PROVE  /\ \A g, h \in Askers : Holding(g, t)' /\ Holding(h, t)' => g = h
                      /\ resetBy[t].uses > 0 =>
                           /\ resetBy[t].uses = 1 /\ resets'[t].state = "spent"
                           /\ \A h \in Askers : ~Holding(h, t)'
    BY DEF OneHolder
  <2> QED BY DEF TokenInv, OneHolder
<1>2. IssuesCross'
  BY DEF TokenInv, IssuesCross, Usable, At
<1>3. ResetsReplaceEachOther'
  BY DEF TokenInv, ResetsReplaceEachOther, UsableOf, Usable
<1> QED BY <1>1, <1>2, <1>3

\* The request of h comes to hold no token and to be about to issue none.
LEMMA TokensUntouched ==
    ASSUME TokenInv, NEW h \in Askers, UNCHANGED <<resets, resetBy>>,
           requests'[h].step \notin {"reset", "issue"}, \A g \in Askers \ {h} : requests'[g] = requests[g]
    PROVE  (OneHolder /\ IssuesCross /\ ResetsReplaceEachOther)'
<1>1. \A g \in Askers, t \in ResetIds : Holding(g, t)' => Holding(g, t)
  BY DEF Holding, At
<1>2. \A g \in Askers : At(g, "issue")' => At(g, "issue") /\ requests'[g].email = requests[g].email
  BY DEF At
<1> QED BY <1>1, <1>2, TokensKept

LEMMA TokensAfterIssue ==
    ASSUME TokenInv, NEW h \in Askers, NEW t \in ResetIds, IssueReset(h, t)
    PROVE  (OneHolder /\ IssuesCross /\ ResetsReplaceEachOther)'
<1> USE DEF TokenInv
<1>1. /\ At(h, "issue") /\ resets[t].state = "unissued"
      /\ \A u \in ResetIds \ {t} : resets'[u] = resets[u]
      /\ resets'[t].email = requests[h].email /\ resets'[t].state = "usable"
  BY Issued
<1>2. resets'[t].crossed <=> \E g \in Askers \ {h} : At(g, "issue") /\ requests[g].email = requests[h].email
  BY Issued
<1>3. Answer(h) /\ UNCHANGED resetBy
  BY DEF IssueReset
<1>4. requests'[h].step = "idle" /\ \A g \in Askers \ {h} : requests'[g] = requests[g]
  BY <1>3, Answers DEF FitInv
<1>5. OneHolder'
  <2>1. \A g \in Askers, u \in ResetIds : Holding(g, u)' => Holding(g, u)
    BY <1>4 DEF Holding, At
  <2>2. \A u \in ResetIds : resets[u].state = "spent" => resets'[u].state = "spent"
    BY <1>1
  <2> QED BY <1>3, <2>1, <2>2 DEF OneHolder
<1>6. IssuesCross'
  <2> SUFFICES ASSUME NEW g \in Askers, NEW u \in ResetIds,
                      requests'[g].step = "issue", resets'[u].state = "usable",
                      resets'[u].email = requests'[g].email
               PROVE  resets'[u].crossed
    BY DEF IssuesCross, At, Usable
  <2>1. g # h /\ requests'[g] = requests[g] /\ At(g, "issue")
    BY <1>4 DEF At
  <2>2. CASE u = t
    BY <1>1, <1>2, <2>1, <2>2
  <2>3. CASE u # t
    BY <1>1, <2>1, <2>3 DEF IssuesCross, Usable
  <2> QED BY <2>2, <2>3
<1>7. ResetsReplaceEachOther'
  <2>1. \A u \in ResetIds : resetBy'[u].uses > 1 => resetBy'[u].raced
    BY <1>3 DEF ResetsReplaceEachOther
  <2>2. ASSUME NEW e \in Emails, NEW u \in ResetIds, NEW v \in ResetIds, u # v,
               resets'[u].state = "usable", resets'[u].email = e,
               resets'[v].state = "usable", resets'[v].email = e
        PROVE  resets'[u].crossed \/ resets'[v].crossed
    <3>1. CASE u # t /\ v # t
      BY <1>1, <2>2, <3>1 DEF ResetsReplaceEachOther, UsableOf, Usable
    <3>2. CASE u = t
      BY <1>1, <2>2, <3>2 DEF IssuesCross, Usable
    <3>3. CASE v = t
      BY <1>1, <2>2, <3>3 DEF IssuesCross, Usable
    <3> QED BY <3>1, <3>2, <3>3
  <2> QED BY <2>1, <2>2 DEF ResetsReplaceEachOther, UsableOf, Usable
<1> QED BY <1>5, <1>6, <1>7

LEMMA TokensAfterVerify ==
    ASSUME TokenInv, NEW h \in Askers, NEW t \in ResetIds, NEW p \in Passwords, ResetPassword(h, t, p)
    PROVE  (OneHolder /\ IssuesCross /\ ResetsReplaceEachOther)'
<1> USE DEF TokenInv
<1>1. At(h, "idle") /\ Usable(t)
  BY Resetting
<1>2. PICK q \in RequestSet : requests' = [requests EXCEPT ![h] = q] /\ q.step = "reset" /\ q.token = t
  BY Resetting
<1>3. requests'[h] = q /\ \A g \in Askers \ {h} : requests'[g] = requests[g]
  BY <1>2, RequestChanges DEF FitInv
<1>4. UNCHANGED resets
  BY DEF ResetPassword
<1>5. /\ \A u \in ResetIds : resetBy'[u].uses = resetBy[u].uses
      /\ \A u \in ResetIds \ {t} : resetBy'[u] = resetBy[u]
      /\ resetBy'[t].raced <=> resetBy[t].raced \/ \E g \in Askers : Holding(g, t)
  <2>1. PICK c : c = \E g \in Askers : Holding(g, t)
    OBVIOUS
  <2>2. c \in BOOLEAN /\ resetBy' = [resetBy EXCEPT ![t].raced = @ \/ c]
    BY <2>1 DEF ResetPassword
  <2>3. resetBy \in [ResetIds -> [uses : Nat, raced : BOOLEAN]]
    BY DEF FitInv, AccountTypeOK
  <2> QED BY <2>1, <2>2, <2>3
<1>6. OneHolder'
  <2>1. \A g \in Askers \ {h}, u \in ResetIds : Holding(g, u)' <=> Holding(g, u)
    BY <1>3 DEF Holding, At
  <2>2. \A u \in ResetIds : Holding(h, u)' => u = t
    BY <1>2, <1>3 DEF Holding
  <2>3. ASSUME NEW u \in ResetIds, u # t, ~resetBy'[u].raced
        PROVE  /\ \A f, g \in Askers : Holding(f, u)' /\ Holding(g, u)' => f = g
               /\ resetBy'[u].uses > 0 =>
                    /\ resetBy'[u].uses = 1 /\ resets'[u].state = "spent"
                    /\ \A g \in Askers : ~Holding(g, u)'
    BY <1>4, <1>5, <2>1, <2>2, <2>3 DEF OneHolder
  <2>4. ASSUME ~resetBy'[t].raced
        PROVE  /\ \A f, g \in Askers : Holding(f, t)' /\ Holding(g, t)' => f = g
               /\ ~(resetBy'[t].uses > 0)
    <3>1. ~resetBy[t].raced /\ \A g \in Askers : ~Holding(g, t)
      BY <1>5, <2>4
    <3>2. ~(resetBy[t].uses > 0)
      BY <1>1, <3>1 DEF OneHolder, Usable
    <3> QED BY <1>5, <2>1, <3>1, <3>2
  <2> QED BY <2>3, <2>4 DEF OneHolder
<1>7. IssuesCross'
  BY <1>2, <1>3, <1>4 DEF IssuesCross, At, Usable
<1>8. ResetsReplaceEachOther'
  BY <1>4, <1>5 DEF ResetsReplaceEachOther, UsableOf, Usable
<1> QED BY <1>6, <1>7, <1>8

LEMMA TokensAfterReset ==
    ASSUME TokenInv, NEW h \in Askers, ApplyReset(h)
    PROVE  (OneHolder /\ IssuesCross /\ ResetsReplaceEachOther)'
<1> USE DEF TokenInv
<1>t. PICK t : t = requests[h].token
  OBVIOUS
<1>1. /\ Answer(h) /\ At(h, "reset")
      /\ resets' = [resets EXCEPT ![t] = Spent(@)] /\ resetBy' = [resetBy EXCEPT ![t].uses = @ + 1]
  BY <1>t DEF ApplyReset
<1>2. t \in ResetIds /\ Holding(h, t)
  BY <1>t, <1>1 DEF FitInv, RequestsFit, At, Holding
<1>3. requests'[h].step = "idle" /\ \A g \in Askers \ {h} : requests'[g] = requests[g]
  BY <1>1, Answers DEF FitInv
<1>4. /\ \A u \in ResetIds : resets'[u].email = resets[u].email
      /\ \A u \in ResetIds \ {t} : resets'[u] = resets[u]
      /\ resets'[t].state = "spent"
  BY <1>1, <1>2, ResetChanges DEF FitInv
<1>5. /\ resetBy[t].uses \in Nat /\ resetBy'[t].uses = resetBy[t].uses + 1
      /\ resetBy'[t].raced = resetBy[t].raced
      /\ \A u \in ResetIds \ {t} : resetBy'[u] = resetBy[u]
  BY <1>1, <1>2 DEF FitInv, AccountTypeOK
<1>6. \A g \in Askers, u \in ResetIds : Holding(g, u)' => Holding(g, u) /\ g # h
  BY <1>3 DEF Holding, At
<1>7. ASSUME ~resetBy[t].raced
      PROVE  resetBy'[t].uses = 1 /\ \A g \in Askers : ~Holding(g, t)'
  <2>1. resetBy[t].uses = 0
    BY <1>2, <1>5, <1>7 DEF OneHolder
  <2>2. \A g \in Askers : Holding(g, t) => g = h
    BY <1>2, <1>7 DEF OneHolder
  <2> QED BY <1>2, <1>5, <1>6, <2>1, <2>2
<1>8. OneHolder'
  <2>1. ASSUME NEW u \in ResetIds, u # t, ~resetBy'[u].raced
        PROVE  /\ \A f, g \in Askers : Holding(f, u)' /\ Holding(g, u)' => f = g
               /\ resetBy'[u].uses > 0 =>
                    /\ resetBy'[u].uses = 1 /\ resets'[u].state = "spent"
                    /\ \A g \in Askers : ~Holding(g, u)'
    BY <1>4, <1>5, <1>6, <2>1 DEF OneHolder
  <2>2. ASSUME ~resetBy'[t].raced
        PROVE  /\ \A f, g \in Askers : Holding(f, t)' /\ Holding(g, t)' => f = g
               /\ resetBy'[t].uses = 1 /\ resets'[t].state = "spent"
               /\ \A g \in Askers : ~Holding(g, t)'
    BY <1>4, <1>5, <1>7, <2>2
  <2> QED BY <2>1, <2>2 DEF OneHolder
<1>9. IssuesCross'
  <2>1. \A g \in Askers : At(g, "issue")' => At(g, "issue") /\ requests'[g].email = requests[g].email
    BY <1>3 DEF At
  <2>2. \A u \in ResetIds : resets'[u].state = "usable" => resets'[u] = resets[u]
    BY <1>4
  <2> QED BY <2>1, <2>2 DEF IssuesCross, Usable
<1>10. ResetsReplaceEachOther'
  <2>1. \A u \in ResetIds : resetBy'[u].uses > 1 => resetBy'[u].raced
    BY <1>5, <1>7 DEF ResetsReplaceEachOther
  <2>2. \A u \in ResetIds : resets'[u].state = "usable" => resets'[u] = resets[u]
    BY <1>4
  <2> QED BY <2>1, <2>2 DEF ResetsReplaceEachOther, UsableOf, Usable
<1> QED BY <1>8, <1>9, <1>10

LEMMA TokensAfterRest ==
    ASSUME TokenInv,
           \/ \E h \in Askers : \/ Begins(h) \/ \E e \in Emails : Authenticates(h, e)
                                \/ ClearLapsedLock(h) \/ RejectPassword(h) \/ AcceptPassword(h)
                                \/ CreateCustomer(h) \/ CreationRefused(h) \/ WriteExternalCustomer(h)
                                \/ InvalidateResets(h) \/ ApplyChange(h) \/ RequestFails(h)
           \/ \E e \in Emails : LockLapses(e)
           \/ \E t \in ResetIds : ResetLapses(t)
    PROVE  (OneHolder /\ IssuesCross /\ ResetsReplaceEachOther)'
<1> USE DEF TokenInv
<1>1. ASSUME NEW h \in Askers, Begins(h) \/ \E e \in Emails : Authenticates(h, e)
      PROVE  (OneHolder /\ IssuesCross /\ ResetsReplaceEachOther)'
  <2>1. /\ UNCHANGED <<resets, resetBy>>
        /\ \E q \in RequestSet : requests' = [requests EXCEPT ![h] = q] /\ q.step \notin {"reset", "issue"}
    <3>1. CASE Begins(h)
      BY <3>1, Begun DEF OthersUnchanged
    <3>2. CASE \E e \in Emails : Authenticates(h, e)
      BY <3>2, Authenticating DEF OthersUnchanged
    <3> QED BY <1>1, <3>1, <3>2
  <2>2. PICK q \in RequestSet : requests' = [requests EXCEPT ![h] = q] /\ q.step \notin {"reset", "issue"}
    BY <2>1
  <2>3. requests'[h] = q /\ \A g \in Askers \ {h} : requests'[g] = requests[g]
    BY <2>2, RequestChanges DEF FitInv
  <2> QED BY <2>1, <2>2, <2>3, TokensUntouched
<1>2. ASSUME NEW h \in Askers,
             \/ RejectPassword(h) \/ AcceptPassword(h) \/ CreationRefused(h) \/ WriteExternalCustomer(h)
             \/ ApplyChange(h) \/ RequestFails(h)
      PROVE  (OneHolder /\ IssuesCross /\ ResetsReplaceEachOther)'
  <2>1. Answer(h) /\ UNCHANGED <<resets, resetBy>>
    BY <1>2 DEF RejectPassword, AcceptPassword, CreationRefused, WriteExternalCustomer, ApplyChange, RequestFails
  <2>2. requests'[h].step = "idle" /\ \A g \in Askers \ {h} : requests'[g] = requests[g]
    BY <2>1, Answers DEF FitInv
  <2> QED BY <2>1, <2>2, TokensUntouched
<1>3. ASSUME NEW h \in Askers, ClearLapsedLock(h)
      PROVE  (OneHolder /\ IssuesCross /\ ResetsReplaceEachOther)'
  <2>1. Step(h, "compare") /\ UNCHANGED <<resets, resetBy>>
    BY <1>3 DEF ClearLapsedLock
  <2>2. requests'[h].step = "compare" /\ \A g \in Askers \ {h} : requests'[g] = requests[g]
    BY <2>1, StepsOn DEF FitInv, Steps
  <2> QED BY <2>1, <2>2, TokensUntouched
<1>4. ASSUME NEW h \in Askers, CreateCustomer(h)
      PROVE  (OneHolder /\ IssuesCross /\ ResetsReplaceEachOther)'
  <2>1. UNCHANGED <<resets, resetBy>>
    BY <1>4 DEF CreateCustomer
  <2>2. PICK q \in RequestSet : requests' = [requests EXCEPT ![h] = q] /\ q.step \in {"idle", "compare"}
    BY <1>4, CustomerCreated
  <2>3. requests'[h] = q /\ \A g \in Askers \ {h} : requests'[g] = requests[g]
    BY <2>2, RequestChanges DEF FitInv
  <2> QED BY <2>1, <2>2, <2>3, TokensUntouched
<1>5. ASSUME NEW h \in Askers, InvalidateResets(h)
      PROVE  (OneHolder /\ IssuesCross /\ ResetsReplaceEachOther)'
  <2>1. Step(h, "issue") /\ UNCHANGED resetBy
    BY <1>5 DEF InvalidateResets
  <2>2. /\ requests'[h].step = "issue" /\ requests'[h].email = requests[h].email
        /\ \A g \in Askers \ {h} : requests'[g] = requests[g]
    BY <2>1, StepsOn DEF FitInv, Steps
  <2>3. \A u \in ResetIds : /\ resets'[u].email = resets[u].email
                            /\ resets[u].email # requests[h].email => resets'[u] = resets[u]
                            /\ resets[u].email = requests[h].email => resets'[u].state = "spent"
    BY <1>5, Invalidated DEF FitInv
  <2>4. \A g \in Askers, t \in ResetIds : Holding(g, t)' => Holding(g, t)
    BY <2>2 DEF Holding, At
  <2>5. \A g \in Askers : At(g, "issue")' =>
               \/ At(g, "issue") /\ requests'[g].email = requests[g].email
               \/ \A t \in ResetIds : resets'[t].email = requests'[g].email => resets'[t].state = "spent"
    BY <2>2, <2>3 DEF At
  <2> QED BY <2>1, <2>3, <2>4, <2>5, TokensKept
<1>6. ASSUME NEW t \in ResetIds, ResetLapses(t)
      PROVE  (OneHolder /\ IssuesCross /\ ResetsReplaceEachOther)'
  <2>1. UNCHANGED <<requests, resetBy>> /\ resets' = [resets EXCEPT ![t] = Spent(@)]
    BY <1>6 DEF ResetLapses
  <2>2. /\ \A u \in ResetIds : resets'[u].email = resets[u].email
        /\ \A u \in ResetIds \ {t} : resets'[u] = resets[u]
        /\ resets'[t].state = "spent"
    BY <2>1, ResetChanges DEF FitInv
  <2>3. \A h \in Askers, u \in ResetIds : Holding(h, u)' => Holding(h, u)
    BY <2>1 DEF Holding, At
  <2> QED BY <2>1, <2>2, <2>3, TokensKept DEF At
<1>7. ASSUME NEW e \in Emails, LockLapses(e)
      PROVE  (OneHolder /\ IssuesCross /\ ResetsReplaceEachOther)'
  <2>1. UNCHANGED <<resets, requests, resetBy>>
    BY <1>7 DEF LockLapses
  <2> QED BY <2>1 DEF OneHolder, IssuesCross, ResetsReplaceEachOther, UsableOf, Usable, Holding, At
<1> QED BY <1>1, <1>2, <1>3, <1>4, <1>5, <1>6, <1>7

\* A reset token sets one password and a new link retires the one before it,
\* unless two requests held the token, or had both retired the old links, before
\* either wrote: for any number of addresses, tokens and handlers.
THEOREM ResetsReplaced == AccountSpec => []ResetsReplaceEachOther
<1>1. AccountInit => TokenInv
  <2> SUFFICES ASSUME AccountInit PROVE TokenInv
    OBVIOUS
  <2>1. FitInv
    BY AccountStart
  <2>2. OneHolder /\ IssuesCross /\ ResetsReplaceEachOther
    BY DEF AccountInit, OneHolder, IssuesCross, ResetsReplaceEachOther, Holding, At, Usable, UsableOf,
           NoRequest, NoReset
  <2> QED BY <2>1, <2>2 DEF TokenInv
<1>2. TokenInv /\ [AccountNext]_accountVars => TokenInv'
  <2> SUFFICES ASSUME TokenInv, [AccountNext]_accountVars PROVE TokenInv'
    OBVIOUS
  <2>1. CASE UNCHANGED accountVars
    BY <2>1 DEF TokenInv, FitInv, accountVars, AccountTypeOK, RequestsFit, ResetsFit, Registered,
                OneHolder, IssuesCross, ResetsReplaceEachOther, UsableOf, Usable, Holding, At
  <2>2. CASE AccountNext
    <3>1. FitInv'
      BY <2>2, AccountFits DEF TokenInv
    <3>2. (OneHolder /\ IssuesCross /\ ResetsReplaceEachOther)'
      BY <2>2, NextCases, TokensAfterIssue, TokensAfterVerify, TokensAfterReset, TokensAfterRest
    <3> QED BY <3>1, <3>2 DEF TokenInv
  <2> QED BY <2>1, <2>2
<1>3. TokenInv => ResetsReplaceEachOther
  BY DEF TokenInv
<1> QED BY <1>1, <1>2, <1>3, PTL DEF AccountSpec

LEMMA AccountKept == FitInv /\ [AccountNext]_accountVars => FitInv'
<1>1. FitInv /\ UNCHANGED accountVars => FitInv'
  BY DEF FitInv, accountVars, AccountTypeOK, RequestsFit, ResetsFit, Registered
<1> QED BY <1>1, AccountFits

\* Every variable of the accounts keeps its type, and requests and tokens refer
\* to customers that exist.
THEOREM AccountTypes == AccountSpec => []FitInv
BY AccountStart, AccountKept, PTL DEF AccountSpec

-----------------------------------------------------------------------------
(* Sessions. *)

CallSet == [step : CallSteps, replica : Replicas \cup {NoReplica},
            grant : 0 .. MaxGrants, op : {"none", "use", "logout", "refresh"}]

\* While nothing has failed all replicas read and write one store: Redis, or
\* the memory of the only one there is.
OneStore ==
    steady => \/ \A r \in serving : connected[r]
              \/ \A p, q \in serving : p = q /\ ~connected[p]

\* A call is a started replica's, about a grant that was issued.
CallsKnown ==
    \A h \in Handlers : call[h].step # "none" =>
        call[h].replica \in serving /\ call[h].grant \in 1 .. issued

\* Numbers are used once, and what has expired is ended no more.
TokensKnown ==
    /\ \A n \in Grants : (Access(n) \in live \/ Refresh(n) \in live) => n <= issued
    /\ spent \subseteq live

\* What a call has blacklisted stays so until it expires: a call about to clear
\* has listed the access token, one about to issue the refresh token.
ListedToken(s, t) == t \in live => t \in blacklist[s]

EndedListed ==
    (steady /\ provider = "jwt") => \A r \in serving :
        /\ \A t \in spent : ListedToken(Store(r), t)
        /\ \A h \in Handlers :
             /\ call[h].step \in {"revokeRefresh", "clear"} => ListedToken(Store(r), Access(call[h].grant))
             /\ call[h].step = "issue" => ListedToken(Store(r), Refresh(call[h].grant))

Known(s, n) == n \in active[s] \/ n \in idled \/ Access(n) \in spent

LiveKnown ==
    steady => \A r \in serving : \A n \in 1 .. issued : Access(n) \in live => Known(Store(r), n)

SessionInv ==
    /\ SessionTypeOK
    /\ OneStore
    /\ CallsKnown
    /\ TokensKnown
    /\ EndedListed
    /\ LiveKnown

-----------------------------------------------------------------------------
(* Tokens, stores and calls. *)

LEMMA TokenNames ==
    /\ \A n \in Grants : Access(n) \in Tokens /\ Refresh(n) \in Tokens
    /\ \A m, n \in Grants : /\ Access(m) # Refresh(n)
                            /\ Access(m) = Access(n) => m = n
                            /\ Refresh(m) = Refresh(n) => m = n
    /\ \A t \in Tokens : \E n \in Grants : t = Access(n) \/ t = Refresh(n)
BY DEF Tokens, Access, Refresh

LEMMA StoresAgree ==
    ASSUME SessionTypeOK, OneStore
    PROVE  /\ \A r \in Replicas : Store(r) \in Stores
           /\ serving \subseteq Replicas
           /\ steady => \A p, q \in serving : Store(p) = Store(q)
BY DEF SessionTypeOK, OneStore, Store, Stores

LEMMA CallChanges ==
    ASSUME SessionTypeOK, NEW h \in Handlers, NEW c \in CallSet, call' = [call EXCEPT ![h] = c]
    PROVE  /\ call' \in [Handlers -> CallSet]
           /\ call'[h] = c
           /\ \A g \in Handlers \ {h} : call'[g] = call[g]
BY DEF SessionTypeOK, CallSet

LEMMA CallGoes ==
    ASSUME SessionTypeOK, NEW h \in Handlers, NEW s \in CallSteps, Goto(h, s)
    PROVE  /\ call' \in [Handlers -> CallSet]
           /\ call'[h].step = s /\ call'[h].replica = call[h].replica /\ call'[h].grant = call[h].grant
           /\ \A g \in Handlers \ {h} : call'[g] = call[g]
BY DEF SessionTypeOK, CallSet, Goto

LEMMA CallEnds ==
    ASSUME SessionTypeOK, NEW h \in Handlers, Done(h)
    PROVE  /\ call' \in [Handlers -> CallSet]
           /\ call'[h].step = "none"
           /\ \A g \in Handlers \ {h} : call'[g] = call[g]
<1>1. NoCall \in CallSet /\ NoCall.step = "none"
  BY SessionAssumption DEF NoCall, CallSet, CallSteps
<1> QED BY <1>1, CallChanges DEF Done

LEMMA SessionStart == SessionInit => SessionInv
<1> SUFFICES ASSUME SessionInit PROVE SessionInv
  OBVIOUS
<1>1. SessionTypeOK
  <2>1. NoCall \in CallSet
    BY SessionAssumption DEF NoCall, CallSet, CallSteps
  <2>2. call \in [Handlers -> CallSet]
    BY <2>1 DEF SessionInit
  <2>3. connected \in [Replicas -> BOOLEAN] /\ serving \in SUBSET Replicas
    BY DEF SessionInit
  <2>4. blacklist \in [Stores -> SUBSET Tokens] /\ active \in [Stores -> SUBSET Grants]
    BY DEF SessionInit
  <2>5. issued \in 0 .. MaxGrants
    BY SessionAssumption DEF SessionInit
  <2> QED BY <2>2, <2>3, <2>4, <2>5 DEF SessionInit, SessionTypeOK, CallSet
<1>2. OneStore
  BY DEF SessionInit, OneStore
<1>3. CallsKnown /\ TokensKnown /\ EndedListed /\ LiveKnown
  BY DEF SessionInit, CallsKnown, TokensKnown, EndedListed, LiveKnown, NoCall, Grants
<1> QED BY <1>1, <1>2, <1>3 DEF SessionInv

-----------------------------------------------------------------------------
(* Steps that only move a call.                                             *)

\* The call goes where nothing needs to be listed for it, or where what needs
\* to be is.
LEMMA OnlyCalls ==
    ASSUME SessionInv, NEW h \in Handlers,
           call' \in [Handlers -> CallSet], \A g \in Handlers \ {h} : call'[g] = call[g],
           call'[h].step # "none" => /\ call'[h].replica \in serving
                                     /\ call'[h].grant \in 1 .. issued,
           \/ call'[h].step \notin {"revokeRefresh", "clear", "issue"}
           \/ provider # "jwt"
           \/ ~steady',
           UNCHANGED <<provider, serving, connected, blacklist, active, issued, live, spent, idled,
                       crossing>>,
           steady' \in BOOLEAN, steady' => steady
    PROVE  SessionInv'
<1>1. SessionTypeOK'
  BY DEF SessionInv, SessionTypeOK, CallSet
<1>2. OneStore' /\ TokensKnown' /\ LiveKnown'
  BY DEF SessionInv, OneStore, TokensKnown, LiveKnown, Known, Store
<1>3. CallsKnown'
  BY DEF SessionInv, CallsKnown
<1>4. EndedListed'
  BY DEF SessionInv, EndedListed, ListedToken, Store
<1> QED BY <1>1, <1>2, <1>3, <1>4 DEF SessionInv

\* What Ask writes is a call.
LEMMA Asked ==
    ASSUME SessionInv, NEW h \in Handlers, NEW r \in Replicas, NEW n \in Grants,
           NEW op \in {"use", "logout", "refresh"}, NEW step \in CallSteps,
           Ask(h, r, n, op, step)
    PROVE  /\ call' \in [Handlers -> CallSet] /\ \A g \in Handlers \ {h} : call'[g] = call[g]
           /\ call'[h].step = step /\ call'[h].replica = r /\ call'[h].grant = n
<1> DEFINE c == [step |-> step, replica |-> r, grant |-> n, op |-> op]
<1>1. c \in CallSet /\ c.step = step /\ c.replica = r /\ c.grant = n
  BY SessionAssumption DEF CallSet, Grants
<1> HIDE DEF c
<1>2. call' = [call EXCEPT ![h] = c]
  BY DEF Ask, c
<1> QED BY <1>1, <1>2, CallChanges DEF SessionInv

LEMMA SessionAsks ==
    ASSUME SessionInv, NEW h \in Handlers, NEW r \in Replicas, NEW n \in Grants,
           \/ \E op \in {"use", "logout"} : Authenticate(h, r, n, op)
           \/ UnifiedLogout(h, r, n) \/ VerifyRefreshToken(h, r, n)
    PROVE  SessionInv'
<1>1. ASSUME n <= issued PROVE n \in 1 .. issued
  BY <1>1, SessionAssumption DEF Grants, SessionInv, SessionTypeOK
<1>2. ASSUME NEW op \in {"use", "logout"}, Authenticate(h, r, n, op) PROVE SessionInv'
  <2>1. r \in serving /\ Access(n) \in live /\ Ask(h, r, n, op, "idleCheck")
    BY <1>2 DEF Authenticate, ServesAt, Valid
  <2>2. n \in 1 .. issued
    BY <1>1, <2>1 DEF SessionInv, TokensKnown
  <2>3. "idleCheck" \in CallSteps
    BY DEF CallSteps
  <2>4. /\ call' \in [Handlers -> CallSet] /\ \A g \in Handlers \ {h} : call'[g] = call[g]
        /\ call'[h].step = "idleCheck" /\ call'[h].replica = r /\ call'[h].grant = n
    BY <2>1, <2>3, Asked
  <2> QED BY <1>2, <2>1, <2>2, <2>4, OnlyCalls DEF Authenticate, SessionInv, SessionTypeOK
<1>3. CASE UnifiedLogout(h, r, n)
  <2>1. r \in serving /\ n \in 1 .. issued /\ Ask(h, r, n, "logout", "clear") /\ provider = "cognito"
    BY <1>3 DEF UnifiedLogout, ServesAt
  <2>2. "clear" \in CallSteps
    BY DEF CallSteps
  <2>3. /\ call' \in [Handlers -> CallSet] /\ \A g \in Handlers \ {h} : call'[g] = call[g]
        /\ call'[h].step = "clear" /\ call'[h].replica = r /\ call'[h].grant = n
    BY <2>1, <2>2, Asked
  <2> QED BY <1>3, <2>1, <2>3, OnlyCalls DEF UnifiedLogout, SessionInv, SessionTypeOK
<1>4. CASE VerifyRefreshToken(h, r, n)
  <2>1. r \in serving /\ Refresh(n) \in live /\ Ask(h, r, n, "refresh", "rotate")
    BY <1>4 DEF VerifyRefreshToken, ServesAt, Valid
  <2>2. n \in 1 .. issued
    BY <1>1, <2>1 DEF SessionInv, TokensKnown
  <2>3. "rotate" \in CallSteps
    BY DEF CallSteps
  <2>4. /\ call' \in [Handlers -> CallSet] /\ \A g \in Handlers \ {h} : call'[g] = call[g]
        /\ call'[h].step = "rotate" /\ call'[h].replica = r /\ call'[h].grant = n
    BY <2>1, <2>3, Asked
  <2> QED BY <1>4, <2>1, <2>2, <2>4, OnlyCalls DEF VerifyRefreshToken, SessionInv, SessionTypeOK
<1> QED BY <1>2, <1>3, <1>4

LEMMA SessionMoves ==
    ASSUME SessionInv, NEW h \in Handlers,
           CheckIdle(h) \/ IdleFailsOpen(h) \/ RevokeFails(h) \/ RotateUnlisted(h) \/ CallFails(h)
    PROVE  SessionInv'
<1>1. SessionTypeOK /\ steady \in BOOLEAN
  BY DEF SessionInv, SessionTypeOK
<1>2. ASSUME call[h].step # "none" PROVE call[h].replica \in serving /\ call[h].grant \in 1 .. issued
  BY <1>2 DEF SessionInv, CallsKnown
<1>3. {"touch", "revoke", "clear", "issue", "revokeRefresh"} \subseteq CallSteps
  BY DEF CallSteps
<1>4. CASE CheckIdle(h)
  <2>1. Goto(h, "touch") \/ Done(h)
    BY <1>4 DEF CheckIdle
  <2>2. /\ call' \in [Handlers -> CallSet] /\ \A g \in Handlers \ {h} : call'[g] = call[g]
        /\ \/ call'[h].step = "none"
           \/ /\ call'[h].step = "touch" /\ call'[h].replica = call[h].replica
              /\ call'[h].grant = call[h].grant
    BY <1>1, <1>3, <2>1, CallGoes, CallEnds
  <2> QED BY <1>1, <1>2, <1>4, <2>2, OnlyCalls DEF CheckIdle, CallAt
<1>5. CASE IdleFailsOpen(h) \/ RevokeFails(h) \/ RotateUnlisted(h)
  <2>1. /\ call[h].step # "none" /\ steady' = FALSE
        /\ UNCHANGED <<provider, serving, connected, blacklist, active, issued, live, spent, idled, crossing>>
        /\ Done(h) \/ Goto(h, "revoke") \/ Goto(h, "clear") \/ Goto(h, "issue")
    BY <1>5 DEF IdleFailsOpen, RevokeFails, RotateUnlisted, Beyond, CallAt
  <2>2. /\ call' \in [Handlers -> CallSet] /\ \A g \in Handlers \ {h} : call'[g] = call[g]
        /\ \/ call'[h].step = "none"
           \/ call'[h].replica = call[h].replica /\ call'[h].grant = call[h].grant
    BY <1>1, <1>3, <2>1, CallGoes, CallEnds
  <2> QED BY <1>1, <1>2, <2>1, <2>2, OnlyCalls
<1>6. CASE CallFails(h)
  BY <1>1, <1>6, CallEnds, OnlyCalls DEF CallFails
<1> QED BY <1>4, <1>5, <1>6

-----------------------------------------------------------------------------
(* Writing to the store.                                                    *)

LEMMA SessionTouch ==
    ASSUME SessionInv, NEW h \in Handlers, Touch(h)
    PROVE  SessionInv'
<1> PICK n, r : n = call[h].grant /\ r = call[h].replica
  OBVIOUS
<1>1. /\ call[h].step = "touch" /\ r \in serving /\ n \in 1 .. issued
      /\ active' = [active EXCEPT ![Store(r)] = active[Store(r)] \cup {n}]
      /\ Beyond(h)
      /\ UNCHANGED <<provider, serving, connected, blacklist, issued, live, spent, idled, crossing, steady>>
  BY DEF Touch, TouchSession, Home, CallAt, SessionInv, CallsKnown
<1>2. Store(r) \in Stores /\ n \in Grants
  BY <1>1, StoresAgree, SessionAssumption DEF SessionInv, SessionTypeOK, Grants
<1>3. /\ active' \in [Stores -> SUBSET Grants]
      /\ \A s \in Stores : active[s] \subseteq active'[s]
  BY <1>1, <1>2 DEF SessionInv, SessionTypeOK
<1>4. /\ call' \in [Handlers -> CallSet] /\ \A g \in Handlers \ {h} : call'[g] = call[g]
      /\ \/ call'[h].step = "none"
         \/ /\ call'[h].replica = r /\ call'[h].grant = n
            /\ call'[h].step = "revoke" \/ (call'[h].step = "clear" /\ provider # "jwt")
  BY <1>1, CallGoes, CallEnds DEF Beyond, CallSteps, SessionInv
<1>5. SessionTypeOK'
  BY <1>1, <1>3, <1>4 DEF SessionInv, SessionTypeOK, CallSet
<1>6. OneStore' /\ TokensKnown'
  BY <1>1 DEF SessionInv, OneStore, TokensKnown
<1>7. CallsKnown'
  BY <1>1, <1>4 DEF SessionInv, CallsKnown
<1>8. EndedListed'
  BY <1>1, <1>4 DEF SessionInv, EndedListed, ListedToken, Store
<1>9. LiveKnown'
  BY <1>1, <1>3, StoresAgree DEF SessionInv, LiveKnown, Known, Store
<1> QED BY <1>5, <1>6, <1>7, <1>8, <1>9 DEF SessionInv

\* A token of the call's grant is entered in the blacklist of the call's
\* replica, which is everybody's.
LEMMA Blacklisting ==
    ASSUME SessionInv, NEW h \in Handlers, call[h].step # "none", NEW t \in Tokens,
           BlacklistToken(Home(h), t), UNCHANGED <<provider, serving, connected, live, crossing, steady>>
    PROVE  /\ blacklist' \in [Stores -> SUBSET Tokens]
           /\ steady => \A r \in serving :
                /\ Store(r)' = Store(r) /\ blacklist[Store(r)] \subseteq blacklist'[Store(r)]
                /\ ListedToken(Store(r), t)'
<1>1. Home(h) \in Stores /\ call[h].replica \in serving
  BY StoresAgree DEF SessionInv, CallsKnown, Home
<1>2. /\ blacklist' = [blacklist EXCEPT ![Home(h)] = blacklist[Home(h)] \cup ({t} \cap live)]
      /\ blacklist \in [Stores -> SUBSET Tokens]
  BY DEF BlacklistToken, SessionInv, SessionTypeOK
<1>3. /\ blacklist' \in [Stores -> SUBSET Tokens]
      /\ \A s \in Stores : blacklist[s] \subseteq blacklist'[s]
      /\ t \in live => t \in blacklist'[Home(h)]
  BY <1>1, <1>2
<1>4. ASSUME steady, NEW r \in serving PROVE Store(r) = Home(h) /\ Store(r)' = Store(r)
  BY <1>1, <1>4, StoresAgree DEF SessionInv, Home, Store
<1> QED BY <1>1, <1>3, <1>4 DEF ListedToken

LEMMA SessionRevokes ==
    ASSUME SessionInv, NEW h \in Handlers,
           \/ \E withRefresh \in BOOLEAN : RevokeAccess(h, withRefresh)
           \/ RevokeRefresh(h) \/ RotateTokens(h)
    PROVE  SessionInv'
<1> PICK n : n = call[h].grant
  OBVIOUS
<1>1. /\ call[h].step \in {"revoke", "revokeRefresh", "rotate"} /\ call[h].step # "none"
      /\ call[h].replica \in serving /\ n \in 1 .. issued
      /\ UNCHANGED <<provider, serving, connected, active, issued, live, idled, crossing, steady>>
  BY DEF RevokeAccess, RevokeRefresh, RotateTokens, CallAt, SessionInv, CallsKnown
<1>2. n \in Grants
  BY <1>1, SessionAssumption DEF SessionInv, SessionTypeOK, Grants
<1>3. PICK t \in Tokens : /\ BlacklistToken(Home(h), t)
                          /\ t = IF call[h].step = "revoke" THEN Access(n) ELSE Refresh(n)
  BY <1>2, TokenNames DEF RevokeAccess, RevokeRefresh, RotateTokens, CallAt
<1>4. PICK to \in {"revokeRefresh", "clear", "issue"} :
        /\ Goto(h, to)
        /\ to = "issue" => call[h].step = "rotate"
        /\ to = "revokeRefresh" => call[h].step = "revoke"
        /\ to = "clear" => call[h].step \in {"revoke", "revokeRefresh"}
  BY DEF RevokeAccess, RevokeRefresh, RotateTokens, CallAt
<1>5. spent \subseteq spent' /\ spent' \subseteq spent \cup ({t} \cap live)
  BY <1>3 DEF RevokeAccess, RevokeRefresh, RotateTokens, CallAt
<1>6. /\ call' \in [Handlers -> CallSet] /\ \A g \in Handlers \ {h} : call'[g] = call[g]
      /\ call'[h].step = to /\ call'[h].replica = call[h].replica /\ call'[h].grant = n
  BY <1>4, CallGoes DEF SessionInv, CallSteps
<1>7. /\ blacklist' \in [Stores -> SUBSET Tokens]
      /\ steady => \A r \in serving :
           /\ Store(r)' = Store(r) /\ blacklist[Store(r)] \subseteq blacklist'[Store(r)]
           /\ ListedToken(Store(r), t)'
  BY <1>1, <1>3, Blacklisting
<1>8. SessionTypeOK'
  BY <1>1, <1>5, <1>6, <1>7 DEF SessionInv, SessionTypeOK, CallSet
<1>9. OneStore' /\ TokensKnown'
  BY <1>1, <1>5 DEF SessionInv, OneStore, TokensKnown
<1>10. CallsKnown'
  BY <1>1, <1>6 DEF SessionInv, CallsKnown
<1>11. EndedListed'
  <2> SUFFICES ASSUME steady, provider = "jwt", NEW r \in serving
               PROVE  /\ \A u \in spent' : ListedToken(Store(r), u)'
                      /\ \A g \in Handlers :
                           /\ call'[g].step \in {"revokeRefresh", "clear"} =>
                                ListedToken(Store(r), Access(call[g].grant))'
                           /\ call'[g].step = "issue" => ListedToken(Store(r), Refresh(call[g].grant))'
    BY <1>1 DEF EndedListed
  <2>1. \A u : ListedToken(Store(r), u) => ListedToken(Store(r), u)'
    BY <1>1, <1>7 DEF ListedToken
  <2>2. \A u \in spent' : ListedToken(Store(r), u)'
    BY <1>5, <1>7, <2>1 DEF SessionInv, EndedListed
  <2>3. ASSUME NEW g \in Handlers \ {h}
        PROVE  /\ call'[g].step \in {"revokeRefresh", "clear"} =>
                    ListedToken(Store(r), Access(call[g].grant))'
               /\ call'[g].step = "issue" => ListedToken(Store(r), Refresh(call[g].grant))'
    BY <1>6, <2>1 DEF SessionInv, EndedListed
  <2>4. to \in {"revokeRefresh", "clear"} => ListedToken(Store(r), Access(n))'
    BY <1>3, <1>4, <1>7, <2>1 DEF SessionInv, EndedListed
  <2>5. to = "issue" => ListedToken(Store(r), Refresh(n))'
    BY <1>3, <1>4, <1>7
  <2>6. /\ call'[h].step \in {"revokeRefresh", "clear"} => ListedToken(Store(r), Access(call[h].grant))'
        /\ call'[h].step = "issue" => ListedToken(Store(r), Refresh(call[h].grant))'
    BY <1>6, <2>4, <2>5
  <2> QED BY <2>2, <2>3, <2>6
<1>12. LiveKnown'
  BY <1>1, <1>5, <1>7 DEF SessionInv, LiveKnown, Known
<1> QED BY <1>8, <1>9, <1>10, <1>11, <1>12 DEF SessionInv

\* The answer to a logout: the entry goes, and the access token is spent.
LEMMA SessionClears ==
    ASSUME SessionInv, NEW h \in Handlers, ClearAndAnswer(h)
    PROVE  SessionInv'
<1> PICK n, s : n = call[h].grant /\ s = Home(h)
  OBVIOUS
<1>1. /\ call[h].step = "clear" /\ call[h].replica \in serving /\ n \in 1 .. issued
      /\ active' = [active EXCEPT ![s] = active[s] \ {n}]
      /\ spent' = spent \cup ({Access(n)} \cap live)
      /\ Done(h)
      /\ crossing' \in {crossing \cup {n}, crossing \ {n}}
      /\ UNCHANGED <<provider, serving, connected, blacklist, issued, live, idled, steady>>
  BY DEF ClearAndAnswer, ClearSession, CallAt, SessionInv, CallsKnown
<1>2. /\ n \in Grants /\ Access(n) \in Tokens /\ s \in Stores
  BY <1>1, StoresAgree, TokenNames, SessionAssumption DEF SessionInv, SessionTypeOK, Grants, Home
<1>3. /\ active' \in [Stores -> SUBSET Grants]
      /\ \A q \in Stores, m \in Grants : m \in active[q] => m \in active'[q] \/ m = n
  BY <1>1, <1>2 DEF SessionInv, SessionTypeOK
<1>4. /\ call' \in [Handlers -> CallSet] /\ \A g \in Handlers \ {h} : call'[g] = call[g]
      /\ call'[h].step = "none"
  BY <1>1, CallEnds DEF SessionInv
<1>5. SessionTypeOK'
  BY <1>1, <1>2, <1>3, <1>4 DEF SessionInv, SessionTypeOK, CallSet
<1>6. OneStore' /\ TokensKnown'
  BY <1>1 DEF SessionInv, OneStore, TokensKnown
<1>7. CallsKnown'
  BY <1>1, <1>4 DEF SessionInv, CallsKnown
<1>8. EndedListed'
  BY <1>1, <1>4 DEF SessionInv, EndedListed, ListedToken, Store
<1>9. LiveKnown'
  <2> SUFFICES ASSUME steady, NEW r \in serving, NEW m \in 1 .. issued, Access(m) \in live
               PROVE  m \in active'[Store(r)] \/ m \in idled \/ Access(m) \in spent'
    BY <1>1 DEF LiveKnown, Known, Store
  <2>1. m \in active[Store(r)] \/ m \in idled \/ Access(m) \in spent
    BY DEF SessionInv, LiveKnown, Known
  <2>2. m \in Grants /\ Store(r) \in Stores
    BY StoresAgree, SessionAssumption DEF SessionInv, SessionTypeOK, Grants
  <2> QED BY <1>1, <1>3, <2>1, <2>2
<1> QED BY <1>5, <1>6, <1>7, <1>8, <1>9 DEF SessionInv

-----------------------------------------------------------------------------
(* Issuing.                                                                 *)

\* A pair carries a number no token, call or entry knows yet.
LEMMA Issuing ==
    ASSUME SessionInv, NEW n \in Grants, IssuePair(n)
    PROVE  /\ issued' = n /\ n = issued + 1 /\ n \in 0 .. MaxGrants /\ issued \in Nat
           /\ live' \in SUBSET Tokens /\ live \subseteq live'
           /\ \A m \in 1 .. issued : m \in Grants /\ m \in 1 .. n
           /\ \A m \in 1 .. issued : /\ Access(m) \in live' => Access(m) \in live
                                     /\ Refresh(m) \in live' => Refresh(m) \in live
           /\ \A m \in Grants : (Access(m) \in live' \/ Refresh(m) \in live') => m <= n
<1>1. /\ issued < MaxGrants /\ n = issued + 1 /\ issued' = n /\ issued \in 0 .. MaxGrants
      /\ MaxGrants \in Nat
      /\ live' = live \cup {Access(n)} \cup (IF provider = "jwt" THEN {Refresh(n)} ELSE {})
      /\ live \in SUBSET Tokens
  BY SessionAssumption DEF IssuePair, SessionInv, SessionTypeOK
<1>2. \A m \in 1 .. issued : m \in Grants /\ m \in 1 .. n /\ m # n
  BY <1>1 DEF Grants
<1>3. live' \in SUBSET Tokens
  BY <1>1, TokenNames
<1>4. \A m \in Grants : (Access(m) \in live' \/ Refresh(m) \in live') =>
                            m = n \/ Access(m) \in live \/ Refresh(m) \in live
  BY <1>1, TokenNames
<1>5. \A m \in Grants : (Access(m) \in live' \/ Refresh(m) \in live') => m <= n
  BY <1>1, <1>4 DEF SessionInv, TokensKnown, Grants
<1>6. \A m \in 1 .. issued : /\ Access(m) \in live' => Access(m) \in live
                             /\ Refresh(m) \in live' => Refresh(m) \in live
  BY <1>1, <1>2, TokenNames
<1> QED BY <1>1, <1>2, <1>3, <1>5, <1>6

\* Seeded by a started replica, and spent or not, the call that did it over.
LEMMA Seeding ==
    ASSUME SessionInv, NEW n \in Grants, IssuePair(n), NEW r \in serving, SeedSession(r, n),
           call' \in [Handlers -> CallSet],
           \A g \in Handlers : call'[g] = call[g] \/ call'[g].step = "none",
           spent \subseteq spent', spent' \subseteq live',
           \A t \in spent' \ spent : /\ t \in live
                                     /\ (steady /\ provider = "jwt") =>
                                          \A q \in serving : t \in blacklist[Store(q)],
           UNCHANGED <<provider, serving, connected, blacklist, idled, crossing, steady>>
    PROVE  SessionInv'
<1>1. /\ issued' = n /\ n = issued + 1 /\ n \in 0 .. MaxGrants /\ issued \in Nat
      /\ live' \in SUBSET Tokens /\ live \subseteq live'
      /\ \A m \in 1 .. issued : m \in Grants /\ m \in 1 .. n
      /\ \A m \in 1 .. issued : /\ Access(m) \in live' => Access(m) \in live
                                /\ Refresh(m) \in live' => Refresh(m) \in live
      /\ \A m \in Grants : (Access(m) \in live' \/ Refresh(m) \in live') => m <= n
  BY Issuing
<1>2. Store(r) \in Stores /\ active \in [Stores -> SUBSET Grants]
  BY StoresAgree DEF SessionInv, SessionTypeOK
<1>3. /\ active' \in [Stores -> SUBSET Grants] /\ n \in active'[Store(r)]
      /\ \A s \in Stores : active[s] \subseteq active'[s]
  BY <1>2 DEF SeedSession, TouchSession
<1>4. SessionTypeOK'
  BY <1>1, <1>3 DEF SessionInv, SessionTypeOK, CallSet
<1>5. OneStore'
  BY DEF SessionInv, OneStore
<1>6. TokensKnown'
  BY <1>1 DEF TokensKnown
<1>7. CallsKnown'
  BY <1>1 DEF SessionInv, CallsKnown
<1>8. EndedListed'
  <2> SUFFICES ASSUME steady, provider = "jwt", NEW q \in serving
               PROVE  /\ \A t \in spent' : ListedToken(Store(q), t)'
                      /\ \A g \in Handlers :
                           /\ call'[g].step \in {"revokeRefresh", "clear"} =>
                                ListedToken(Store(q), Access(call[g].grant))'
                           /\ call'[g].step = "issue" => ListedToken(Store(q), Refresh(call[g].grant))'
    BY DEF EndedListed
  <2>1. Store(q)' = Store(q)
    BY DEF Store
  <2>2. \A t \in spent' : ListedToken(Store(q), t)'
    BY <2>1 DEF SessionInv, EndedListed, ListedToken, TokensKnown
  <2>3. ASSUME NEW g \in Handlers, call'[g].step # "none"
        PROVE  call'[g] = call[g] /\ call[g].grant \in 1 .. issued
    BY <2>3 DEF SessionInv, CallsKnown
  <2> QED BY <1>1, <2>1, <2>2, <2>3 DEF SessionInv, EndedListed, ListedToken
<1>9. LiveKnown'
  <2> SUFFICES ASSUME steady, NEW q \in serving, NEW m \in 1 .. n, Access(m) \in live'
               PROVE  m \in active'[Store(q)] \/ m \in idled \/ Access(m) \in spent'
    BY <1>1 DEF LiveKnown, Known, Store
  <2>1. CASE m = n
    BY <1>3, <2>1, StoresAgree DEF SessionInv
  <2>2. CASE m # n
    <3>1. m \in 1 .. issued
      BY <1>1, <2>2
    <3> QED BY <1>1, <1>3, <3>1, StoresAgree DEF SessionInv, SessionTypeOK, LiveKnown, Known
  <2> QED BY <2>1, <2>2
<1> QED BY <1>4, <1>5, <1>6, <1>7, <1>8, <1>9 DEF SessionInv

LEMMA SessionIssues ==
    ASSUME SessionInv, NEW n \in Grants,
           \/ \E r \in Replicas : LogIn(r, n)
           \/ \E h \in Handlers : IssueRotated(h, n)
    PROVE  SessionInv'
<1>1. ASSUME NEW r \in Replicas, LogIn(r, n) PROVE SessionInv'
  <2>1. live \subseteq live'
    BY <1>1, Issuing DEF LogIn
  <2> QED BY <1>1, <2>1, Seeding DEF LogIn, SessionInv, SessionTypeOK, CallSet, TokensKnown
<1>2. ASSUME NEW h \in Handlers, IssueRotated(h, n) PROVE SessionInv'
  <2> PICK m, r : m = call[h].grant /\ r = call[h].replica
    OBVIOUS
  <2>1. /\ call[h].step = "issue" /\ r \in serving /\ m \in 1 .. issued /\ IssuePair(n)
        /\ SeedSession(r, n) /\ Done(h)
        /\ spent' = spent \cup ({Refresh(m)} \cap live')
        /\ UNCHANGED <<provider, serving, connected, blacklist, idled, crossing, steady>>
    BY <1>2 DEF IssueRotated, CallAt, SessionInv, CallsKnown
  <2>2. /\ live \subseteq live' /\ (Refresh(m) \in live' => Refresh(m) \in live)
    BY <2>1, Issuing
  <2>3. /\ call' \in [Handlers -> CallSet]
        /\ \A g \in Handlers : call'[g] = call[g] \/ call'[g].step = "none"
    BY <2>1, CallEnds DEF SessionInv
  <2>4. spent \subseteq spent' /\ spent' \subseteq live'
    BY <2>1, <2>2 DEF SessionInv, TokensKnown
  <2>5. ASSUME NEW t \in spent' \ spent
        PROVE  /\ t \in live
               /\ (steady /\ provider = "jwt") => \A q \in serving : t \in blacklist[Store(q)]
    BY <2>1, <2>2 DEF SessionInv, EndedListed, ListedToken
  <2> QED BY <2>1, <2>3, <2>4, <2>5, Seeding
<1> QED BY <1>1, <1>2

-----------------------------------------------------------------------------
(* What fails, restarts or runs out.                                        *)

LEMMA SessionFaults ==
    ASSUME SessionInv,
           \/ \E r \in Replicas : \/ ConnectionChanges(r)
                                  \/ \E n \in Grants : LogInUnseeded(r, n)
    PROVE  SessionInv'
<1>1. ASSUME NEW r \in Replicas, ConnectionChanges(r) PROVE SessionInv'
  BY <1>1 DEF ConnectionChanges, SessionInv, SessionTypeOK, OneStore, CallsKnown, TokensKnown,
     EndedListed, LiveKnown
<1>2. ASSUME NEW r \in Replicas, NEW n \in Grants, LogInUnseeded(r, n) PROVE SessionInv'
  <2>1. /\ IssuePair(n) /\ steady' = FALSE
        /\ UNCHANGED <<provider, serving, connected, blacklist, active, call, spent, idled, crossing>>
    BY <1>2 DEF LogInUnseeded
  <2>2. /\ issued' = n /\ n = issued + 1 /\ n \in 0 .. MaxGrants
        /\ live' \in SUBSET Tokens /\ live \subseteq live'
        /\ \A m \in 1 .. issued : m \in 1 .. n
        /\ \A m \in Grants : (Access(m) \in live' \/ Refresh(m) \in live') => m <= n
    BY <2>1, Issuing
  <2>3. SessionTypeOK'
    BY <2>1, <2>2 DEF SessionInv, SessionTypeOK
  <2> QED BY <2>1, <2>2, <2>3 DEF SessionInv, OneStore, CallsKnown, TokensKnown, EndedListed, LiveKnown
<1> QED BY <1>1, <1>2

\* Memory matters to a replica only while it has no Redis, and its restart then
\* ends the steady time.
LEMMA SessionRestart ==
    ASSUME SessionInv, NEW r \in Replicas, Restart(r)
    PROVE  SessionInv'
<1>1. /\ r \in serving /\ steady /\ (steady' <=> connected[r])
      /\ blacklist' = [blacklist EXCEPT ![r] = {}] /\ active' = [active EXCEPT ![r] = {}]
      /\ UNCHANGED <<provider, serving, connected, issued, live, spent, idled, crossing>>
  BY DEF Restart, SessionInv, SessionTypeOK
<1>2. ASSUME NEW h \in Handlers
      PROVE  call'[h] \in CallSet /\ (call'[h] = call[h] \/ call'[h].step = "none")
  <2>1. NoCall \in CallSet /\ NoCall.step = "none"
    BY SessionAssumption DEF NoCall, CallSet, CallSteps
  <2>2. call[h] \in CallSet /\ (call'[h] = call[h] \/ call'[h] = NoCall)
    BY DEF Restart, SessionInv, SessionTypeOK, CallSet
  <2> QED BY <2>1, <2>2
<1>3. call' \in [Handlers -> CallSet]
  BY <1>2 DEF Restart
<1>4. r \in Stores /\ r # Redis /\ Redis \in Stores
  BY SessionAssumption DEF Stores
<1>5. /\ blacklist' \in [Stores -> SUBSET Tokens] /\ blacklist'[Redis] = blacklist[Redis]
      /\ active' \in [Stores -> SUBSET Grants] /\ active'[Redis] = active[Redis]
  BY <1>1, <1>4 DEF SessionInv, SessionTypeOK
<1>6. ASSUME steady', NEW q \in serving PROVE Store(q) = Redis /\ Store(q)' = Redis
  BY <1>1, <1>6 DEF SessionInv, OneStore, Store
<1>7. SessionTypeOK'
  <2>1. steady' \in BOOLEAN
    BY DEF Restart, SessionInv, SessionTypeOK
  <2> QED BY <1>1, <1>3, <1>5, <2>1 DEF SessionInv, SessionTypeOK, CallSet
<1>8. OneStore' /\ TokensKnown'
  BY <1>1 DEF SessionInv, OneStore, TokensKnown
<1>9. CallsKnown'
  BY <1>1, <1>2 DEF SessionInv, CallsKnown
<1>10. EndedListed'
  BY <1>1, <1>2, <1>5, <1>6 DEF SessionInv, EndedListed, ListedToken
<1>11. LiveKnown'
  BY <1>1, <1>5, <1>6 DEF SessionInv, LiveKnown, Known
<1> QED BY <1>7, <1>8, <1>9, <1>10, <1>11 DEF SessionInv

LEMMA SessionExpiries ==
    ASSUME SessionInv,
           \/ \E s \in Stores : \/ \E t \in Tokens : BlacklistEntryExpires(s, t)
                                \/ \E n \in Grants : IdleEntryExpires(s, n)
           \/ \E n \in Grants : TokenExpires(n)
    PROVE  SessionInv'
<1>1. ASSUME NEW s \in Stores, NEW t \in Tokens, BlacklistEntryExpires(s, t) PROVE SessionInv'
  <2>1. /\ t \notin live /\ blacklist' = [blacklist EXCEPT ![s] = blacklist[s] \ {t}]
        /\ UNCHANGED <<provider, serving, connected, active, issued, live, call, spent, idled, crossing, steady>>
    BY <1>1 DEF BlacklistEntryExpires
  <2>2. /\ blacklist' \in [Stores -> SUBSET Tokens]
        /\ \A q \in Stores : \A u : ListedToken(q, u) => ListedToken(q, u)'
    BY <2>1 DEF SessionInv, SessionTypeOK, ListedToken
  <2>3. SessionTypeOK' /\ OneStore' /\ CallsKnown' /\ TokensKnown' /\ LiveKnown'
    BY <2>1, <2>2 DEF SessionInv, SessionTypeOK, OneStore, CallsKnown, TokensKnown, LiveKnown, Known, Store
  <2>4. \A q \in serving : Store(q) \in Stores /\ Store(q)' = Store(q)
    BY <2>1, StoresAgree DEF SessionInv, Store
  <2>5. EndedListed'
    BY <2>1, <2>2, <2>4 DEF SessionInv, EndedListed
  <2> QED BY <2>3, <2>5 DEF SessionInv
<1>2. ASSUME NEW s \in Stores, NEW n \in Grants, IdleEntryExpires(s, n) PROVE SessionInv'
  <2>1. /\ active' = [active EXCEPT ![s] = active[s] \ {n}]
        /\ idled' = IF Access(n) \in live THEN idled \cup {n} ELSE idled
        /\ UNCHANGED <<provider, serving, connected, blacklist, issued, live, call, spent, crossing, steady>>
    BY <1>2 DEF IdleEntryExpires, ClearSession
  <2>2. /\ active' \in [Stores -> SUBSET Grants] /\ idled' \in SUBSET Grants
        /\ \A q \in Stores : \A m : m \in active[q] => m \in active'[q] \/ m = n
    BY <2>1 DEF SessionInv, SessionTypeOK
  <2>3. SessionTypeOK' /\ OneStore' /\ CallsKnown' /\ TokensKnown' /\ EndedListed'
    BY <2>1, <2>2 DEF SessionInv, SessionTypeOK, OneStore, CallsKnown, TokensKnown, EndedListed, ListedToken, Store
  <2>4. \A q \in serving : Store(q) \in Stores /\ Store(q)' = Store(q)
    BY <2>1, StoresAgree DEF SessionInv, Store
  <2>5. LiveKnown'
    BY <2>1, <2>2, <2>4 DEF SessionInv, LiveKnown, Known
  <2> QED BY <2>3, <2>5 DEF SessionInv
<1>3. ASSUME NEW n \in Grants, TokenExpires(n) PROVE SessionInv'
  <2> PICK t : t = IF Access(n) \in live THEN Access(n) ELSE Refresh(n)
    OBVIOUS
  <2>1. /\ live' = live \ {t} /\ spent' = spent \ {t} /\ idled' = idled \ {n}
        /\ crossing' \in {crossing, crossing \ {n}}
        /\ UNCHANGED <<provider, serving, connected, blacklist, active, issued, call, steady>>
    BY <1>3 DEF TokenExpires
  <2>2. Access(n) \notin live'
    BY <2>1
  <2>3. SessionTypeOK' /\ OneStore' /\ CallsKnown' /\ TokensKnown' /\ EndedListed'
    BY <2>1 DEF SessionInv, SessionTypeOK, OneStore, CallsKnown, TokensKnown, EndedListed, ListedToken, Store
  <2>4. LiveKnown'
    BY <2>1, <2>2 DEF SessionInv, LiveKnown, Known, Store
  <2> QED BY <2>3, <2>4 DEF SessionInv
<1> QED BY <1>1, <1>2, <1>3

-----------------------------------------------------------------------------

LEMMA SessionKept == SessionInv /\ [SessionNext]_sessionVars => SessionInv'
<1> SUFFICES ASSUME SessionInv, [SessionNext]_sessionVars PROVE SessionInv'
  OBVIOUS
<1>1. CASE UNCHANGED sessionVars
  BY <1>1 DEF sessionVars, SessionInv, SessionTypeOK, OneStore, CallsKnown, TokensKnown, EndedListed,
     LiveKnown, ListedToken, Known, Store
<1> QED BY <1>1, SessionAsks, SessionMoves, SessionTouch, SessionRevokes, SessionClears, SessionIssues,
           SessionFaults, SessionRestart, SessionExpiries DEF SessionNext

-----------------------------------------------------------------------------
(* The idle entry of a session that was ended. *)

\* It is gone, and nobody is about to write it, unless the logout was outlived.
EntryGone ==
    steady => \A r \in serving, n \in Grants : (Access(n) \in spent /\ n \notin crossing) =>
        /\ n \notin active[Store(r)]
        /\ \A h \in Handlers : call[h].step = "touch" => call[h].grant # n

\* Nothing is ended, seeded or let through.
LEMMA GoneQuiet ==
    ASSUME SessionInv, EntryGone, serving' = serving, steady' => steady,
           steady' => \A r \in serving : Store(r)' = Store(r) /\ active'[Store(r)] \subseteq active[Store(r)],
           \A n \in Grants : Access(n) \in spent' =>
               Access(n) \in spent /\ (n \in crossing => n \in crossing'),
           \A h \in Handlers : call'[h].step = "touch" => call'[h] = call[h]
    PROVE  EntryGone'
BY DEF EntryGone

LEMMA GoneTouch ==
    ASSUME SessionInv, EntryGone, NEW h \in Handlers, CheckIdle(h) \/ Touch(h)
    PROVE  EntryGone'
<1> PICK m, r : m = call[h].grant /\ r = call[h].replica
  OBVIOUS
<1>1. /\ call[h].step # "none" /\ r \in serving /\ m \in 1 .. issued
      /\ UNCHANGED <<serving, connected, spent, crossing, steady>>
  BY DEF CheckIdle, Touch, CallAt, SessionInv, CallsKnown
<1>2. steady => \A q \in serving : Store(q) = Store(r) /\ Store(q)' = Store(q) /\ Store(q) \in Stores
  BY <1>1, StoresAgree DEF SessionInv, Store
<1>3. CASE CheckIdle(h)
  <2>1. UNCHANGED active /\ (Done(h) \/ (Goto(h, "touch") /\ m \in active[Store(r)]))
    BY <1>3 DEF CheckIdle, IsSessionActive, Home
  <2>2. "touch" \in CallSteps
    BY DEF CallSteps
  <2>3. ASSUME NEW g \in Handlers, call'[g].step = "touch"
        PROVE  call'[g] = call[g] \/ (call'[g].grant = m /\ m \in active[Store(r)])
    BY <2>1, <2>2, <2>3, CallGoes, CallEnds DEF SessionInv
  <2> QED BY <1>1, <1>2, <2>1, <2>3 DEF EntryGone
<1>4. CASE Touch(h)
  <2>1. /\ call[h].step = "touch" /\ Beyond(h)
        /\ active' = [active EXCEPT ![Store(r)] = active[Store(r)] \cup {m}]
    BY <1>4 DEF Touch, TouchSession, Home, CallAt
  <2>2. {"revoke", "clear"} \subseteq CallSteps
    BY DEF CallSteps
  <2>3. ASSUME NEW g \in Handlers, call'[g].step = "touch" PROVE call'[g] = call[g]
    BY <2>1, <2>2, <2>3, CallGoes, CallEnds DEF Beyond, SessionInv
  <2>4. \A s \in Stores, n \in Grants : n \in active'[s] => n \in active[s] \/ n = m
    BY <2>1 DEF SessionInv, SessionTypeOK
  <2> QED BY <1>1, <1>2, <2>1, <2>3, <2>4 DEF EntryGone
<1> QED BY <1>3, <1>4

\* Whoever could write the entry again has been counted.
LEMMA GoneClears ==
    ASSUME SessionInv, EntryGone, NEW h \in Handlers, ClearAndAnswer(h)
    PROVE  EntryGone'
<1> PICK m, r : m = call[h].grant /\ r = call[h].replica
  OBVIOUS
<1>1. /\ r \in serving /\ m \in 1 .. issued /\ Done(h)
      /\ active' = [active EXCEPT ![Store(r)] = active[Store(r)] \ {m}]
      /\ spent' = spent \cup ({Access(m)} \cap live)
      /\ crossing' = IF /\ Access(m) \in live
                        /\ \E g \in Handlers : call[g].step = "touch" /\ call[g].grant = m
                     THEN crossing \cup {m} ELSE crossing \ {m}
      /\ UNCHANGED <<serving, connected, live, steady>>
  BY DEF ClearAndAnswer, ClearSession, Home, CallAt, SessionInv, CallsKnown
<1>2. steady => \A q \in serving : Store(q) = Store(r) /\ Store(q)' = Store(q) /\ Store(q) \in Stores
  BY <1>1, StoresAgree DEF SessionInv, Store
<1>3. ASSUME NEW g \in Handlers, call'[g].step = "touch" PROVE call'[g] = call[g]
  BY <1>1, <1>3, CallEnds DEF SessionInv
<1>4. \A s \in Stores : active'[s] \subseteq active[s]
  BY <1>1 DEF SessionInv, SessionTypeOK
<1>5. steady => m \notin active'[Store(r)]
  BY <1>1, <1>2 DEF SessionInv, SessionTypeOK
<1>6. m \in Grants /\ spent \subseteq live
  BY <1>1, SessionAssumption DEF SessionInv, SessionTypeOK, TokensKnown, Grants
<1>7. ASSUME steady, NEW q \in serving, NEW n \in Grants, Access(n) \in spent', n \notin crossing'
      PROVE  /\ n \notin active'[Store(q)]
             /\ \A g \in Handlers : call'[g].step = "touch" => call'[g].grant # n
  <2>1. CASE n = m
    <3>1. Access(m) \in live
      BY <1>1, <1>6, <1>7, <2>1
    <3> QED BY <1>1, <1>2, <1>3, <1>5, <1>7, <2>1, <3>1
  <2>2. CASE n # m
    <3>1. Access(n) \in spent /\ n \notin crossing
      BY <1>1, <1>6, <1>7, <2>2, TokenNames
    <3> QED BY <1>2, <1>3, <1>4, <1>7, <3>1 DEF EntryGone
  <2> QED BY <2>1, <2>2
<1> QED BY <1>1, <1>2, <1>7 DEF EntryGone

\* A new pair has not been ended.
LEMMA GoneIssues ==
    ASSUME SessionInv, EntryGone, NEW n \in Grants,
           \/ \E r \in Replicas : LogIn(r, n)
           \/ \E h \in Handlers : IssueRotated(h, n)
    PROVE  EntryGone'
<1>1. PICK r \in serving : /\ IssuePair(n) /\ SeedSession(r, n)
                           /\ UNCHANGED <<serving, connected, crossing, steady>>
  BY DEF LogIn, IssueRotated, CallAt, SessionInv, CallsKnown
<1>2. \A m \in Grants : Access(m) \in spent' => Access(m) \in spent
  <2>1. CASE UNCHANGED spent
    BY <2>1
  <2>2. ASSUME NEW h \in Handlers, IssueRotated(h, n)
        PROVE  \A m \in Grants : Access(m) \in spent' => Access(m) \in spent
    <3>1. call[h].grant \in 1 .. issued
      BY <2>2 DEF IssueRotated, CallAt, SessionInv, CallsKnown
    <3>2. call[h].grant \in Grants
      BY <1>1, <3>1, Issuing
    <3> QED BY <2>2, <3>2, TokenNames DEF IssueRotated
  <2> QED BY <2>1, <2>2 DEF LogIn
<1>3. Access(n) \notin spent
  BY <1>1, Issuing DEF SessionInv, TokensKnown
<1>4. ASSUME NEW g \in Handlers, call'[g].step = "touch" PROVE call'[g] = call[g]
  BY <1>4, CallEnds DEF LogIn, IssueRotated, SessionInv
<1>5. Store(r) \in Stores /\ (steady => \A q \in serving : Store(q)' = Store(q) /\ Store(q) \in Stores)
  BY <1>1, StoresAgree DEF SessionInv, Store
<1>6. \A s \in Stores, m \in Grants : m \in active'[s] => m \in active[s] \/ m = n
  BY <1>1, <1>5 DEF SeedSession, TouchSession, SessionInv, SessionTypeOK
<1> QED BY <1>1, <1>2, <1>3, <1>4, <1>5, <1>6 DEF EntryGone

LEMMA GoneKept ==
    ASSUME SessionInv, EntryGone, [SessionNext]_sessionVars
    PROVE  EntryGone'
<1>1. CASE UNCHANGED sessionVars
  BY <1>1 DEF sessionVars, EntryGone, Store
<1>2. ASSUME NEW h \in Handlers, NEW r \in Replicas, NEW n \in Grants,
             \/ \E op \in {"use", "logout"} : Authenticate(h, r, n, op)
             \/ UnifiedLogout(h, r, n) \/ VerifyRefreshToken(h, r, n)
      PROVE  EntryGone'
  <2>1. /\ UNCHANGED <<serving, connected, active, spent, crossing, steady>>
        /\ \E op, step \in {"idleCheck", "clear", "rotate", "use", "logout", "refresh"} :
             step # "touch" /\ Ask(h, r, n, op, step)
    BY <1>2 DEF Authenticate, UnifiedLogout, VerifyRefreshToken
  <2>2. \A g \in Handlers : call'[g].step = "touch" => call'[g] = call[g]
    BY <2>1 DEF Ask, SessionInv, SessionTypeOK
  <2> QED BY <2>1, <2>2, GoneQuiet DEF Store
<1>3. ASSUME NEW h \in Handlers,
             \/ \E withRefresh \in BOOLEAN : RevokeAccess(h, withRefresh)
             \/ RotateTokens(h) \/ CallFails(h)
      PROVE  EntryGone'
  <2>1. /\ UNCHANGED <<serving, connected, active, spent, crossing, steady>>
        /\ Done(h) \/ \E step \in {"revokeRefresh", "clear", "issue"} : Goto(h, step)
    BY <1>3 DEF RevokeAccess, RotateTokens, CallFails
  <2>2. {"revokeRefresh", "clear", "issue"} \subseteq CallSteps
    BY DEF CallSteps
  <2>3. ASSUME NEW g \in Handlers, call'[g].step = "touch" PROVE call'[g] = call[g]
    BY <2>1, <2>2, <2>3, CallGoes, CallEnds DEF SessionInv
  <2> QED BY <2>1, <2>3, GoneQuiet DEF Store
<1>4. ASSUME NEW h \in Handlers, RevokeRefresh(h) PROVE EntryGone'
  <2>1. /\ UNCHANGED <<serving, connected, active, crossing, steady>> /\ Goto(h, "clear")
        /\ spent' = spent \cup ({Refresh(call[h].grant)} \cap live)
        /\ call[h].grant \in 1 .. issued
    BY <1>4 DEF RevokeRefresh, CallAt, SessionInv, CallsKnown
  <2>2. "clear" \in CallSteps /\ call[h].grant \in Grants
    BY <2>1, SessionAssumption DEF CallSteps, SessionInv, SessionTypeOK, Grants
  <2>3. ASSUME NEW g \in Handlers, call'[g].step = "touch" PROVE call'[g] = call[g]
    BY <2>1, <2>2, <2>3, CallGoes DEF SessionInv
  <2>4. \A n \in Grants : Access(n) \in spent' => Access(n) \in spent
    BY <2>1, <2>2, TokenNames
  <2> QED BY <2>1, <2>3, <2>4, GoneQuiet DEF Store
<1>5. ASSUME \/ \E h \in Handlers : IdleFailsOpen(h) \/ RevokeFails(h) \/ RotateUnlisted(h)
             \/ \E r \in Replicas : \/ ConnectionChanges(r)
                                    \/ \E n \in Grants : LogInUnseeded(r, n)
      PROVE  EntryGone'
  BY <1>5 DEF IdleFailsOpen, RevokeFails, RotateUnlisted, ConnectionChanges, LogInUnseeded, EntryGone
<1>6. ASSUME NEW r \in Replicas, Restart(r) PROVE EntryGone'
  <2>1. /\ steady /\ active' = [active EXCEPT ![r] = {}]
        /\ UNCHANGED <<serving, connected, spent, crossing>>
    BY <1>6 DEF Restart
  <2>2. \A g \in Handlers : call'[g].step = "touch" => call'[g] = call[g]
    BY <1>6 DEF Restart, NoCall
  <2>3. \A s \in Stores : active'[s] \subseteq active[s]
    BY <2>1 DEF SessionInv, SessionTypeOK
  <2>4. \A q \in serving : Store(q)' = Store(q) /\ Store(q) \in Stores
    BY <2>1, StoresAgree DEF SessionInv, Store
  <2> QED BY <2>1, <2>2, <2>3, <2>4, GoneQuiet
<1>7. ASSUME NEW s \in Stores,
             \/ \E t \in Tokens : BlacklistEntryExpires(s, t)
             \/ \E n \in Grants : IdleEntryExpires(s, n)
      PROVE  EntryGone'
  <2>1. /\ UNCHANGED <<serving, connected, spent, crossing, steady, call>>
        /\ active' = active \/ \E n : active' = [active EXCEPT ![s] = active[s] \ {n}]
    BY <1>7 DEF BlacklistEntryExpires, IdleEntryExpires, ClearSession
  <2>2. \A q \in Stores : active'[q] \subseteq active[q]
    BY <2>1 DEF SessionInv, SessionTypeOK
  <2>3. \A q \in serving : Store(q)' = Store(q) /\ Store(q) \in Stores
    BY <2>1, StoresAgree DEF SessionInv, Store
  <2> QED BY <2>1, <2>2, <2>3, GoneQuiet
<1>8. ASSUME NEW n \in Grants, TokenExpires(n) PROVE EntryGone'
  <2> PICK t : t = IF Access(n) \in live THEN Access(n) ELSE Refresh(n)
    OBVIOUS
  <2>1. /\ UNCHANGED <<serving, connected, active, call, steady>> /\ spent' = spent \ {t}
        /\ crossing' = IF t = Access(n) THEN crossing \ {n} ELSE crossing
    BY <1>8 DEF TokenExpires
  <2>2. \A m \in Grants : Access(m) \in spent' => Access(m) \in spent /\ (m \in crossing => m \in crossing')
    BY <2>1, TokenNames
  <2>3. \A g \in Handlers : call'[g].step = "touch" => call'[g] = call[g]
    BY <2>1
  <2> QED BY <2>1, <2>2, <2>3, GoneQuiet DEF Store
<1> QED BY <1>1, <1>2, <1>3, <1>4, <1>5, <1>6, <1>7, <1>8, GoneTouch, GoneClears, GoneIssues
        DEF SessionNext

\* As long as the stores can be reached, for any number of replicas, requests and
\* logins: own tokens that a logout or a rotation answered for are refused by
\* every replica; the idle entry of a session that was logged out, which is all
\* that refuses a token of Cognito, stays away unless a request had passed the
\* idle check when the logout dropped it; and no grant is forgotten that was
\* neither idle nor ended.
THEOREM EndedIsOver == SessionSpec => []OverWhenEnded
<1>1. SessionInit => SessionInv /\ EntryGone
  BY SessionStart DEF SessionInit, EntryGone
<1>2. SessionInv /\ EntryGone /\ [SessionNext]_sessionVars => (SessionInv /\ EntryGone)'
  BY SessionKept, GoneKept
<1>3. SessionInv /\ EntryGone => OverWhenEnded
  <2> SUFFICES ASSUME SessionInv, EntryGone, steady, NEW r \in serving
               PROVE  /\ provider = "jwt" => \A t \in spent : ~Valid(Store(r), t)
                      /\ \A n \in 1 .. issued : Access(n) \in spent =>
                           n \in crossing \/ ~IsSessionActive(Store(r), n)
                      /\ \A n \in 1 .. issued : Access(n) \in live =>
                           \/ IsSessionActive(Store(r), n)
                           \/ n \in idled \/ Access(n) \in spent
    BY DEF OverWhenEnded
  <2>1. provider = "jwt" => \A t \in spent : ~Valid(Store(r), t)
    BY DEF SessionInv, EndedListed, ListedToken, Valid, IsTokenBlacklisted
  <2>2. \A n \in 1 .. issued : n \in Grants
    BY SessionAssumption DEF SessionInv, SessionTypeOK, Grants
  <2>3. \A n \in 1 .. issued : Access(n) \in spent => n \in crossing \/ ~IsSessionActive(Store(r), n)
    BY <2>2 DEF EntryGone, IsSessionActive
  <2>4. \A n \in 1 .. issued : Access(n) \in live =>
          IsSessionActive(Store(r), n) \/ n \in idled \/ Access(n) \in spent
    BY DEF SessionInv, LiveKnown, Known, IsSessionActive
  <2> QED BY <2>1, <2>3, <2>4
<1> QED BY <1>1, <1>2, <1>3, PTL DEF SessionSpec

-----------------------------------------------------------------------------
(* Prices. *)

Order == [seats : Nat \ {0}, term : Terms, years : 1 .. 5, discount : 0 .. 100]

LEMMA Products ==
    \A m, n \in Nat : m * n \in Nat
OBVIOUS

LEMMA BasePriceNat ==
    ASSUME NEW o \in Order
    PROVE  BasePrice(o) \in Nat
<1>1. /\ o.seats \in Nat /\ o.years \in Nat
      /\ Prices.seatAnnual \in Nat /\ Prices.seatMonthly \in Nat
      /\ Prices.annual \in Nat /\ Prices.monthly \in Nat
  BY QuoteAssumption DEF Order
<1>2. /\ Prices.seatAnnual * o.seats * o.years \in Nat
      /\ Prices.seatMonthly * o.seats * 12 * o.years \in Nat
      /\ Prices.annual * o.years \in Nat
      /\ Prices.monthly * 12 * o.years \in Nat
  <2>1. Prices.seatAnnual * o.seats \in Nat /\ Prices.seatMonthly * o.seats \in Nat /\ Prices.monthly * 12 \in Nat
    BY <1>1, Products
  <2>2. Prices.seatMonthly * o.seats * 12 \in Nat
    BY <2>1, Products
  <2> QED BY <1>1, <2>1, <2>2, Products
<1> QED BY <1>2 DEF BasePrice

LEMMA DiscountRange ==
    ASSUME NEW o \in Order
    PROVE  Discount(o) \in 0 .. 100
<1>1. o.seats \in Nat /\ o.years \in 1 .. 5 /\ o.discount \in 0 .. 100
  BY DEF Order
<1>2. VolumeDiscount(o.seats) \in {0, 10, 15, 25}
  BY <1>1 DEF VolumeDiscount
<1>3. YearsDiscount(o.years) \in {0, 5, 10}
  BY <1>1 DEF YearsDiscount
<1> QED BY <1>1, <1>2, <1>3 DEF Discount

\* Rounding to the cent and the larger of two discounts: nobody is charged more
\* than the full price or paid for taking a quote.
LEMMA FinalPriceRange ==
    ASSUME NEW o \in Order
    PROVE  FinalPrice(o) \in 0 .. BasePrice(o)
<1> DEFINE b == BasePrice(o)
           d == 100 - Discount(o)
<1>1. b \in Nat /\ d \in 0 .. 100
  BY BasePriceNat, DiscountRange
<1>2. FinalPrice(o) = (b * d + 50) \div 100
  BY DEF FinalPrice
<1> HIDE DEF b, d
<1>3. b * d \in Nat /\ b * d <= b * 100
  BY <1>1
<1>4. ASSUME NEW n \in Nat, n <= b * 100 PROVE (n + 50) \div 100 \in 0 .. b
  BY <1>1, <1>4
<1> QED BY <1>2, <1>3, <1>4 DEF b

-----------------------------------------------------------------------------
(* Sales. *)

QuoteRow == [status : Statuses \cup {"none"}, base : Nat, final : Nat, lapsed : BOOLEAN]

QuoteShapes ==
    /\ quotes \in [QuoteIds -> QuoteRow]
    /\ \A q \in QuoteIds : quotes[q].final <= quotes[q].base
    /\ sold \in [QuoteIds -> 0 .. MaxSales]
    /\ office \in [Offices -> [step : {"idle", "mail", "issue", "mark"}, quote : QuoteIds \cup {NoQuote}]]
    /\ \A d \in Offices : office[d].step # "idle" => office[d].quote \in QuoteIds
    /\ muddled \subseteq QuoteIds

\* Of a quote whose history is clean at most one conversion is half-way, and
\* the quote has sold by then exactly if that conversion has issued.
CleanSale(q) ==
    /\ \A d, e \in Converting(q) : d = e
    /\ \A d \in Converting(q) :
         /\ quotes[q].status # "CONVERTED"
         /\ sold[q] = IF office[d].step = "issue" THEN 0 ELSE 1
    /\ Converting(q) = {} => sold[q] = IF quotes[q].status = "CONVERTED" THEN 1 ELSE 0

SaleInv == QuoteShapes /\ \A q \in QuoteIds \ muddled : CleanSale(q)

\* A step that touches neither the sales of a quote nor its conversions, and
\* neither makes it CONVERTED nor takes that away.
LEMMA SaleUntouched ==
    ASSUME QuoteShapes, QuoteShapes', NEW q \in QuoteIds, CleanSale(q),
           sold'[q] = sold[q],
           \A d \in Offices : d \in Converting(q) \/ d \in Converting(q)' => office'[d] = office[d],
           quotes'[q].status = "CONVERTED" <=> quotes[q].status = "CONVERTED"
    PROVE  CleanSale(q)'
<1>1. Converting(q)' = Converting(q)
  BY DEF Converting
<1> QED BY <1>1 DEF CleanSale, Converting

LEMMA SaleStart == QuoteInit => SaleInv
BY QuoteAssumption DEF QuoteInit, SaleInv, QuoteShapes, QuoteRow, CleanSale, Converting, NoQuoteRow,
   NoErrand, Statuses

\* Rows drawn, revised, moved by hand or lapsed, no handler taking part.
LEMMA SaleRow ==
    ASSUME SaleInv, NEW q \in QuoteIds, NEW r \in QuoteRow, r.final <= r.base,
           quotes' = [quotes EXCEPT ![q] = r],
           UNCHANGED <<sold, office>>, muddled' \subseteq QuoteIds, muddled \subseteq muddled',
           q \in muddled' \/ (r.status = "CONVERTED" <=> quotes[q].status = "CONVERTED")
    PROVE  SaleInv'
<1>1. quotes'[q] = r /\ \A p \in QuoteIds \ {q} : quotes'[p] = quotes[p]
  BY DEF SaleInv, QuoteShapes
<1>2. QuoteShapes'
  BY <1>1 DEF SaleInv, QuoteShapes
<1>3. ASSUME NEW p \in QuoteIds \ muddled' PROVE CleanSale(p)'
  BY <1>1, <1>2, SaleUntouched DEF SaleInv, Converting
<1> QED BY <1>2, <1>3 DEF SaleInv

LEMMA SaleByHand ==
    ASSUME SaleInv, NEW q \in QuoteIds,
           \/ QuoteLapses(q)
           \/ \E o \in Orders : CreateQuote(q, o)
           \/ \E p \in QuoteIds : DuplicateQuote(p, q)
           \/ \E s \in Statuses : UpdateQuoteStatus(q, s)
    PROVE  SaleInv'
<1>1. quotes[q] \in QuoteRow /\ quotes[q].final <= quotes[q].base /\ muddled \subseteq QuoteIds
  BY DEF SaleInv, QuoteShapes
<1>2. CASE QuoteLapses(q)
  <2> DEFINE r == [quotes[q] EXCEPT !.lapsed = TRUE]
  <2>1. r \in QuoteRow /\ r.final <= r.base /\ r.status = quotes[q].status
    BY <1>1 DEF QuoteRow
  <2>2. quotes' = [quotes EXCEPT ![q] = r] /\ UNCHANGED <<sold, office, muddled>>
    BY <1>2 DEF QuoteLapses, SaleInv, QuoteShapes
  <2> QED BY <1>1, <2>1, <2>2, SaleRow
<1>3. ASSUME NEW o \in Orders, CreateQuote(q, o) PROVE SaleInv'
  <2>1. o \in Order
    BY QuoteAssumption DEF Order
  <2>2. /\ Drawn(o) \in QuoteRow /\ Drawn(o).final <= Drawn(o).base
        /\ Drawn(o).status # "CONVERTED"
    BY <2>1, BasePriceNat, FinalPriceRange DEF Drawn, QuoteRow, Statuses
  <2>3. quotes[q].status # "CONVERTED"
    BY <1>3 DEF CreateQuote, NoQuoteRow
  <2> QED BY <1>1, <1>3, <2>2, <2>3, SaleRow DEF CreateQuote
<1>4. ASSUME NEW p \in QuoteIds, DuplicateQuote(p, q) PROVE SaleInv'
  <2>1. quotes[p] \in QuoteRow /\ quotes[p].final <= quotes[p].base
    BY DEF SaleInv, QuoteShapes
  <2>2. /\ Revised(quotes[p]) \in QuoteRow /\ Revised(quotes[p]).final <= Revised(quotes[p]).base
        /\ Revised(quotes[p]).status # "CONVERTED"
    BY <2>1 DEF Revised, QuoteRow, Statuses
  <2>3. quotes[q].status # "CONVERTED"
    BY <1>4 DEF DuplicateQuote, NoQuoteRow
  <2> QED BY <1>1, <1>4, <2>2, <2>3, SaleRow DEF DuplicateQuote
<1>5. ASSUME NEW s \in Statuses, UpdateQuoteStatus(q, s) PROVE SaleInv'
  <2> DEFINE r == [quotes[q] EXCEPT !.status = s]
  <2>1. r \in QuoteRow /\ r.final <= r.base /\ r.status # "CONVERTED"
    BY <1>1, <1>5 DEF QuoteRow, UpdateQuoteStatus, StatusesByHand
  <2>2. quotes' = [quotes EXCEPT ![q] = r] /\ UNCHANGED <<sold, office>>
    BY <1>5 DEF UpdateQuoteStatus, SetStatus, SaleInv, QuoteShapes
  <2>3. /\ muddled' \subseteq QuoteIds /\ muddled \subseteq muddled'
        /\ quotes[q].status = "CONVERTED" => q \in muddled'
    BY <1>1, <1>5 DEF UpdateQuoteStatus, MuddleIf
  <2> QED BY <1>1, <2>1, <2>2, <2>3, SaleRow
<1> QED BY <1>2, <1>3, <1>4, <1>5

\* A handler takes a step of its errand.
LEMMA ErrandMoves ==
    ASSUME QuoteShapes, NEW d \in Offices, NEW step \in {"idle", "mail", "issue", "mark"},
           NEW q \in QuoteIds \cup {NoQuote}, step # "idle" => q \in QuoteIds,
           office' = [office EXCEPT ![d] = [step |-> step, quote |-> q]]
    PROVE  /\ office' \in [Offices -> [step : {"idle", "mail", "issue", "mark"}, quote : QuoteIds \cup {NoQuote}]]
           /\ office'[d].step = step /\ office'[d].quote = q
           /\ \A e \in Offices \ {d} : office'[e] = office[e]
           /\ \A e \in Offices : office'[e].step # "idle" => office'[e].quote \in QuoteIds
<1> DEFINE c == [step |-> step, quote |-> q]
<1>1. c \in [step : {"idle", "mail", "issue", "mark"}, quote : QuoteIds \cup {NoQuote}] /\ c.step = step /\ c.quote = q
  OBVIOUS
<1> HIDE DEF c
<1>2. office' = [office EXCEPT ![d] = c]
  BY DEF c
<1> QED BY <1>1, <1>2 DEF QuoteShapes

LEMMA SaleMail ==
    ASSUME SaleInv, NEW d \in Offices,
           (\E q \in QuoteIds : SendQuote(d, q)) \/ MarkSent(d)
    PROVE  SaleInv'
<1>1. ASSUME NEW q \in QuoteIds, SendQuote(d, q) PROVE SaleInv'
  <2>1. /\ office' = [office EXCEPT ![d] = [step |-> "mail", quote |-> q]]
        /\ office[d].step = "idle" /\ UNCHANGED <<quotes, sold, muddled>>
    BY <1>1 DEF SendQuote, Errand, NoErrand
  <2>2. /\ office'[d].step = "mail" /\ \A e \in Offices \ {d} : office'[e] = office[e]
        /\ QuoteShapes'
    BY <2>1, ErrandMoves DEF SaleInv, QuoteShapes
  <2>3. ASSUME NEW p \in QuoteIds \ muddled' PROVE CleanSale(p)'
    BY <2>1, <2>2, SaleUntouched DEF SaleInv, Converting
  <2> QED BY <2>2, <2>3 DEF SaleInv
<1>2. CASE MarkSent(d)
  <2> DEFINE q == office[d].quote
             r == [quotes[q] EXCEPT !.status = "SENT"]
  <2>1. /\ office[d].step = "mail" /\ q \in QuoteIds
        /\ office' = [office EXCEPT ![d] = [step |-> "idle", quote |-> NoQuote]]
        /\ quotes' = [quotes EXCEPT ![q] = r] /\ sold' = sold
        /\ quotes[q] \in QuoteRow /\ quotes[q].final <= quotes[q].base
    BY <1>2 DEF MarkSent, ErrandDone, NoErrand, SetStatus, SaleInv, QuoteShapes
  <2>2. r \in QuoteRow /\ r.final <= r.base /\ r.status = "SENT"
    BY <2>1 DEF QuoteRow, Statuses
  <2> HIDE DEF r
  <2>3. quotes'[q] = r /\ \A p \in QuoteIds \ {q} : quotes'[p] = quotes[p]
    BY <2>1 DEF SaleInv, QuoteShapes
  <2>4. /\ muddled' \subseteq QuoteIds /\ muddled \subseteq muddled'
        /\ quotes[q].status = "CONVERTED" => q \in muddled'
    BY <1>2, <2>1 DEF MarkSent, MuddleIf, SaleInv, QuoteShapes
  <2>5. /\ office'[d].step = "idle" /\ \A e \in Offices \ {d} : office'[e] = office[e]
        /\ QuoteShapes'
    BY <2>1, <2>2, <2>3, <2>4, ErrandMoves DEF SaleInv, QuoteShapes
  <2>6. ASSUME NEW p \in QuoteIds \ muddled' PROVE CleanSale(p)'
    BY <2>1, <2>2, <2>3, <2>4, <2>5, SaleUntouched DEF SaleInv, Converting
  <2> QED BY <2>5, <2>6 DEF SaleInv
<1> QED BY <1>1, <1>2

LEMMA SaleBegins ==
    ASSUME SaleInv, NEW d \in Offices, NEW q \in QuoteIds, ConvertQuote(d, q)
    PROVE  SaleInv'
<1>1. /\ office' = [office EXCEPT ![d] = [step |-> "issue", quote |-> q]]
      /\ office[d].step = "idle" /\ UNCHANGED <<quotes, sold>>
      /\ quotes[q].status # "CONVERTED"
  BY DEF ConvertQuote, Errand, NoErrand, Convertible
<1>2. /\ muddled' \subseteq QuoteIds /\ muddled \subseteq muddled'
      /\ Converting(q) # {} => q \in muddled'
  BY DEF ConvertQuote, MuddleIf, SaleInv, QuoteShapes
<1>3. /\ office'[d].step = "issue" /\ office'[d].quote = q
      /\ \A e \in Offices \ {d} : office'[e] = office[e]
      /\ QuoteShapes'
  BY <1>1, <1>2, ErrandMoves DEF SaleInv, QuoteShapes
<1>4. ASSUME NEW p \in QuoteIds \ muddled', p # q PROVE CleanSale(p)'
  BY <1>1, <1>2, <1>3, <1>4, SaleUntouched DEF SaleInv, Converting
<1>5. ASSUME q \notin muddled' PROVE CleanSale(q)'
  <2>1. Converting(q) = {} /\ CleanSale(q)
    BY <1>2, <1>5 DEF SaleInv
  <2>2. Converting(q)' = {d}
    BY <1>1, <1>3, <2>1 DEF Converting
  <2> QED BY <1>1, <1>3, <2>1, <2>2 DEF CleanSale
<1> QED BY <1>3, <1>4, <1>5 DEF SaleInv

\* The one conversion of a clean quote issues its licence or marks it.
LEMMA SaleGoesOn ==
    ASSUME SaleInv, NEW d \in Offices, IssueLicence(d) \/ MarkConverted(d) \/ ErrandFails(d)
    PROVE  SaleInv'
<1>0. office[d].quote \in QuoteIds
  BY DEF IssueLicence, MarkConverted, ErrandFails, SaleInv, QuoteShapes, NoErrand
<1> PICK q \in QuoteIds : q = office[d].quote
  BY <1>0
<1>1. /\ quotes[q] \in QuoteRow /\ quotes[q].final <= quotes[q].base
      /\ sold \in [QuoteIds -> 0 .. MaxSales] /\ MaxSales \in Nat
  BY QuoteAssumption DEF SaleInv, QuoteShapes
<1>2. CASE IssueLicence(d)
  <2>1. /\ office' = [office EXCEPT ![d] = [step |-> "mark", quote |-> q]]
        /\ office[d].step = "issue" /\ UNCHANGED <<quotes, muddled>>
        /\ sold' = [sold EXCEPT ![q] = sold[q] + 1] /\ sold[q] < MaxSales
    BY <1>2 DEF IssueLicence, Errand
  <2>2. /\ office'[d].step = "mark" /\ office'[d].quote = q
        /\ \A e \in Offices \ {d} : office'[e] = office[e]
        /\ sold'[q] = sold[q] + 1 /\ \A p \in QuoteIds \ {q} : sold'[p] = sold[p]
        /\ QuoteShapes'
    BY <1>1, <2>1, ErrandMoves DEF SaleInv, QuoteShapes
  <2>3. ASSUME NEW p \in QuoteIds \ muddled', p # q PROVE CleanSale(p)'
    BY <2>1, <2>2, <2>3, SaleUntouched DEF SaleInv, Converting
  <2>4. ASSUME q \notin muddled' PROVE CleanSale(q)'
    <3>1. CleanSale(q) /\ d \in Converting(q)
      BY <1>1, <2>1, <2>4 DEF SaleInv, Converting
    <3>2. Converting(q)' = {d} /\ sold[q] = 0 /\ quotes[q].status # "CONVERTED"
      BY <2>1, <2>2, <3>1 DEF CleanSale, Converting
    <3> QED BY <2>1, <2>2, <3>2 DEF CleanSale
  <2> QED BY <2>2, <2>3, <2>4 DEF SaleInv
<1>3. CASE MarkConverted(d)
  <2> DEFINE r == [quotes[q] EXCEPT !.status = "CONVERTED"]
  <2>1. /\ office' = [office EXCEPT ![d] = [step |-> "idle", quote |-> NoQuote]]
        /\ office[d].step = "mark" /\ UNCHANGED <<sold, muddled>>
        /\ quotes' = [quotes EXCEPT ![q] = r]
    BY <1>1, <1>3 DEF MarkConverted, ErrandDone, NoErrand, SetStatus, SaleInv, QuoteShapes
  <2>2. r \in QuoteRow /\ r.final <= r.base /\ r.status = "CONVERTED"
    BY <1>1 DEF QuoteRow, Statuses
  <2> HIDE DEF r
  <2>3. quotes'[q] = r /\ \A p \in QuoteIds \ {q} : quotes'[p] = quotes[p]
    BY <1>1, <2>1 DEF SaleInv, QuoteShapes
  <2>4. /\ office'[d].step = "idle" /\ \A e \in Offices \ {d} : office'[e] = office[e]
        /\ QuoteShapes'
    BY <1>1, <2>1, <2>2, <2>3, ErrandMoves DEF SaleInv, QuoteShapes
  <2>5. ASSUME NEW p \in QuoteIds \ muddled', p # q PROVE CleanSale(p)'
    BY <2>1, <2>3, <2>4, <2>5, SaleUntouched DEF SaleInv, Converting
  <2>6. ASSUME q \notin muddled' PROVE CleanSale(q)'
    <3>1. CleanSale(q) /\ d \in Converting(q)
      BY <1>1, <2>1, <2>6 DEF SaleInv, Converting
    <3>2. \A e \in Offices : e \notin Converting(q)'
      BY <2>4, <3>1 DEF CleanSale, Converting
    <3>3. Converting(q)' = {}
      BY <3>2 DEF Converting
    <3>4. sold[q] = 1
      BY <2>1, <3>1 DEF CleanSale
    <3> QED BY <2>1, <2>2, <2>3, <3>3, <3>4 DEF CleanSale
  <2> QED BY <2>4, <2>5, <2>6 DEF SaleInv
<1>4. CASE ErrandFails(d)
  <2>1. /\ office' = [office EXCEPT ![d] = [step |-> "idle", quote |-> NoQuote]]
        /\ UNCHANGED <<quotes, sold>>
    BY <1>4 DEF ErrandFails, ErrandDone, NoErrand
  <2>2. /\ muddled' \subseteq QuoteIds /\ muddled \subseteq muddled'
        /\ office[d].step = "mark" => q \in muddled'
    BY <1>1, <1>4 DEF ErrandFails, MuddleIf, SaleInv, QuoteShapes
  <2>3. /\ office'[d].step = "idle" /\ \A e \in Offices \ {d} : office'[e] = office[e]
        /\ QuoteShapes'
    BY <2>1, <2>2, ErrandMoves DEF SaleInv, QuoteShapes
  <2>4. ASSUME NEW p \in QuoteIds \ muddled', d \notin Converting(p) PROVE CleanSale(p)'
    BY <2>1, <2>2, <2>3, <2>4, SaleUntouched DEF SaleInv, Converting
  <2>5. ASSUME q \notin muddled', d \in Converting(q) PROVE CleanSale(q)'
    <3>1. CleanSale(q) /\ office[d].step = "issue"
      BY <1>1, <2>2, <2>5 DEF SaleInv, Converting
    <3>2. \A e \in Offices : e \notin Converting(q)'
      BY <2>3, <2>5, <3>1 DEF CleanSale, Converting
    <3>3. Converting(q)' = {}
      BY <3>2 DEF Converting
    <3>4. sold[q] = 0 /\ quotes[q].status # "CONVERTED"
      BY <2>5, <3>1 DEF CleanSale
    <3> QED BY <2>1, <3>3, <3>4 DEF CleanSale
  <2>6. \A p \in QuoteIds : d \in Converting(p) => p = q
    BY DEF Converting
  <2> QED BY <2>3, <2>4, <2>5, <2>6 DEF SaleInv
<1> QED BY <1>2, <1>3, <1>4

LEMMA SaleKept == SaleInv /\ [QuoteNext]_quoteVars => SaleInv'
<1> SUFFICES ASSUME SaleInv, [QuoteNext]_quoteVars PROVE SaleInv'
  OBVIOUS
<1>1. CASE UNCHANGED quoteVars
  BY <1>1 DEF quoteVars, SaleInv, QuoteShapes, CleanSale, Converting
<1> QED BY <1>1, SaleByHand, SaleMail, SaleBegins, SaleGoesOn DEF QuoteNext

\* Every row keeps its type, and no quote asks for more than the full price.
THEOREM QuotesPriced == QuoteSpec => []QuoteTypeOK
<1>1. SaleInv => QuoteTypeOK
  BY DEF SaleInv, QuoteShapes, QuoteRow, QuoteTypeOK
<1> QED BY <1>1, SaleStart, SaleKept, PTL DEF QuoteSpec

\* A quote whose conversions neither crossed nor were cut short, and that nobody
\* put back, sells one licence and says so.
THEOREM QuoteSells == QuoteSpec => []QuoteSellsOnce
<1>1. SaleInv => QuoteSellsOnce
  <2> SUFFICES ASSUME SaleInv, NEW q \in QuoteIds \ muddled
               PROVE  /\ sold[q] <= 1
                      /\ Converting(q) = {} => (sold[q] = 1 <=> quotes[q].status = "CONVERTED")
    BY DEF QuoteSellsOnce
  <2>1. CleanSale(q)
    BY DEF SaleInv
  <2>2. CASE Converting(q) = {}
    BY <2>1, <2>2 DEF CleanSale
  <2>3. CASE Converting(q) # {}
    BY <2>1, <2>3 DEF CleanSale
  <2> QED BY <2>2, <2>3
<1> QED BY <1>1, SaleStart, SaleKept, PTL DEF QuoteSpec

-----------------------------------------------------------------------------
(* The office as it is run: one part, the others at rest. *)

OfficeInv ==
    /\ FitInv /\ SessionInv /\ SaleInv
    /\ SeatInv /\ ReleaseInv /\ AddOnInv /\ CertInv /\ CatalogueInv

LEMMA OfficeStart == OfficeInit => OfficeInv
BY AccountStart, SessionStart, SaleStart, SeatStart, ReleaseStart, AddOnStart, CertStart, CatalogueStart
DEF OfficeInit, OfficeInv

LEMMA OfficeParted ==
    ASSUME [OfficeNext]_officeVars
    PROVE  /\ [AccountNext]_accountVars /\ [SessionNext]_sessionVars /\ [SeatNext]_seatVars
           /\ [ReleaseNext]_releaseVars /\ [AddOnNext]_addOnVars /\ [CertNext]_certVars
           /\ [QuoteNext]_quoteVars /\ [CatalogueNext]_catalogueVars
<1>1. CASE UNCHANGED officeVars
  BY <1>1 DEF officeVars
<1>2. CASE OfficeNext
  BY <1>2 DEF OfficeNext
<1> QED BY <1>1, <1>2

\* Whichever part of the office runs, every step of it leaves every row, token,
\* count and call within its type, for any number of customers, replicas,
\* holders, releases, licences, processes, quotes, products and handlers: no
\* seat, sale or grant is counted below nothing, and no status is invented.
THEOREM OfficeTypes == OfficeSpec => []OfficeTypesOK
<1>1. OfficeInv /\ [OfficeNext]_officeVars => OfficeInv'
  BY OfficeParted, AccountKept, SessionKept, SaleKept, SeatInductive, ReleaseInductive,
     AddOnKept, CertKept, CatalogueKept
  DEF OfficeInv
<1>2. OfficeInv => AccountTypeOK /\ SessionTypeOK /\ AddOnTypeOK /\ CertTypeOK /\ CatalogueTypeOK
  BY DEF OfficeInv, FitInv, SessionInv, AddOnInv, CertInv, CatalogueInv
<1>3. OfficeInv => SeatTypeOK /\ ReleaseTypeOK
  BY DEF OfficeInv, SeatInv, ReleaseInv, ReleaseTypes, ReleaseTypeOK, JobSet
<1>4. OfficeInv => QuoteTypeOK
  BY DEF OfficeInv, SaleInv, QuoteShapes, QuoteRow, QuoteTypeOK
<1>5. OfficeInv => OfficeTypesOK
  BY <1>2, <1>3, <1>4 DEF OfficeTypesOK
<1> QED BY <1>1, <1>5, OfficeStart, PTL DEF OfficeSpec
=============================================================================
