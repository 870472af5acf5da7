----------------------------- MODULE ClientPool -----------------------------
(***************************************************************************)
(* Customers under Cognito: sign-up with a customer row beside the pool's  *)
(* user, and the MFA preference the row mirrors                            *)
(* (services/customerCognito.service.ts, routes/customerAuth.ts and        *)
(* auth.ts).  Cognito is external; its row here and ours are written one   *)
(* after the other, by routes that may stop in between.                    *)
(***************************************************************************)
EXTENDS Naturals

CONSTANTS
    Clients,     \* addresses outside the staff domains
    Routes,      \* request handlers
    NoClient

VARIABLES
    poolUser,    \* poolUser[u]: the user in the customer pool
    row,         \* row[u]: the customer row of the address
    access,      \* access[u]: whether u holds an unexpired access token
    asked,       \* asked[u]: whether a TOTP challenge is open
    route,       \* route[h]: what handler h has yet to write
    named,       \* named[u]: the pool calls u by the address of the row
    late,        \* late[u]: the row was made under a preference it never heard of
    mirrored     \* mirrored[u]: no writes of the preference crossed or were cut short

clientVars == <<poolUser, row, access, asked, route, named, late, mirrored>>

NoRoute == [step |-> "none", user |-> NoClient]
RouteSteps == {"none", "signUp", "link", "confirm", "mirrorOn", "mirrorOff"}

ClientTypeOK ==
    /\ poolUser \in [Clients -> [status : {"none", "unconfirmed", "confirmed"},
                                 totp : BOOLEAN, group : BOOLEAN]]
    /\ row \in [Clients -> [state : {"none", "reserved", "linked"}, mfa : BOOLEAN]]
    /\ access \in [Clients -> BOOLEAN] /\ asked \in [Clients -> BOOLEAN]
    /\ route \in [Routes -> [step : RouteSteps, user : Clients \cup {NoClient}]]
    /\ named \in [Clients -> BOOLEAN] /\ late \in [Clients -> BOOLEAN]
    /\ mirrored \in [Clients -> BOOLEAN]

\* The name is the address as typed at sign-up, or an id of the pool's own.
ClientInit ==
    /\ named \in [Clients -> BOOLEAN]
    /\ late = [u \in Clients |-> FALSE]
    /\ poolUser = [u \in Clients |-> [status |-> "none", totp |-> FALSE, group |-> FALSE]]
    /\ row = [u \in Clients |-> [state |-> "none", mfa |-> FALSE]]
    /\ access = [u \in Clients |-> FALSE]
    /\ asked = [u \in Clients |-> FALSE]
    /\ route = [h \in Routes |-> NoRoute]
    /\ mirrored = [u \in Clients |-> TRUE]

RouteAt(h, step) == route[h].step = step
NextStep(h, step, u) == route' = [route EXCEPT ![h] = [step |-> step, user |-> u]]
Finish(h) == route' = [route EXCEPT ![h] = NoRoute]
Mirroring(h, u) == route[h].user = u /\ route[h].step \in {"mirrorOn", "mirrorOff"}

-----------------------------------------------------------------------------
(* Sign-up and confirmation. *)

\* /api/customer/auth/signup reserves a row "so license/Stripe linkage works
\* even before email is confirmed", whether or not the pool has the user.
ReserveRow(h, u) ==
    /\ RouteAt(h, "none")
    /\ row' = [row EXCEPT ![u].state = IF @ = "none" THEN "reserved" ELSE @]
    /\ late' = [late EXCEPT ![u] = @ \/ (row[u].state = "none" /\ poolUser[u].totp)]
    /\ NextStep(h, "signUp", u)
    /\ UNCHANGED <<poolUser, access, asked, named, mirrored>>

\* Cognito refuses a user it has: the route ends there and links nothing.
SignUp(h) ==
    LET u == route[h].user IN
    /\ RouteAt(h, "signUp")
    /\ IF poolUser[u].status = "none"
         THEN /\ poolUser' = [poolUser EXCEPT ![u].status = "unconfirmed"]
              /\ NextStep(h, "link", u)
         ELSE Finish(h) /\ UNCHANGED poolUser
    /\ UNCHANGED <<row, access, asked, named, late, mirrored>>

\* The row is looked up by the address as typed, not by its canonical form:
\* typed otherwise, the update finds no row and the route fails.
LinkRow(h, typedAsStored) ==
    /\ RouteAt(h, "link") /\ (named[route[h].user] => typedAsStored)
    /\ row' = IF typedAsStored THEN [row EXCEPT ![route[h].user].state = "linked"] ELSE row
    /\ Finish(h)
    /\ UNCHANGED <<poolUser, access, asked, named, late, mirrored>>

\* /api/auth/signup: the unified form leaves no row at all.
UnifiedSignUp(h, u) ==
    /\ RouteAt(h, "none") /\ poolUser[u].status = "none"
    /\ poolUser' = [poolUser EXCEPT ![u].status = "unconfirmed"]
    /\ UNCHANGED <<row, access, asked, route, named, late, mirrored>>

ConfirmSignUp(h, u) ==
    /\ RouteAt(h, "none") /\ poolUser[u].status = "unconfirmed"
    /\ poolUser' = [poolUser EXCEPT ![u].status = "confirmed"]
    /\ NextStep(h, "confirm", u)
    /\ UNCHANGED <<row, access, asked, named, late, mirrored>>

\* The group is a second command whose failure is only logged.
JoinCustomerGroup(h) ==
    /\ RouteAt(h, "confirm")
    /\ poolUser' = [poolUser EXCEPT ![route[h].user].group = TRUE]
    /\ Finish(h)
    /\ UNCHANGED <<row, access, asked, named, late, mirrored>>

-----------------------------------------------------------------------------
(* Login and the MFA preference. *)

CustomerLogin(u) ==
    /\ poolUser[u].status = "confirmed"
    /\ IF poolUser[u].totp
         THEN asked' = [asked EXCEPT ![u] = TRUE] /\ UNCHANGED access
         ELSE access' = [access EXCEPT ![u] = TRUE] /\ UNCHANGED asked
    /\ UNCHANGED <<poolUser, row, route, named, late, mirrored>>

AnswerTotp(u) ==
    /\ asked[u]
    /\ asked' = [asked EXCEPT ![u] = FALSE]
    /\ access' = [access EXCEPT ![u] = TRUE]
    /\ UNCHANGED <<poolUser, row, route, named, late, mirrored>>

AccessEnds(u) ==
    /\ access[u]
    /\ access' = [access EXCEPT ![u] = FALSE]
    /\ UNCHANGED <<poolUser, row, asked, route, named, late, mirrored>>

\* TOTP verified, or the preference posted: Cognito first, the row afterwards.
SetMfaPreference(h, u, on) ==
    /\ RouteAt(h, "none") /\ access[u]
    /\ poolUser' = [poolUser EXCEPT ![u].totp = on]
    /\ NextStep(h, IF on THEN "mirrorOn" ELSE "mirrorOff", u)
    /\ mirrored' = [mirrored EXCEPT ![u] = \A g \in Routes : ~Mirroring(g, u)]
    /\ UNCHANGED <<row, access, asked, named, late>>

\* The token names the user as the pool does, and the row is looked up by that.
Found(u) == row[u].state # "none" /\ named[u]

\* Mutant: the date is set and never cleared.
MirrorMfaOn(h) ==
    LET u == route[h].user IN
    /\ Mirroring(h, u)
    /\ row' = IF Found(u) THEN [row EXCEPT ![u].mfa = TRUE] ELSE row
    /\ late' = [late EXCEPT ![u] = @ /\ ~Found(u)]
    /\ Finish(h)
    /\ UNCHANGED <<poolUser, access, asked, named, mirrored>>

\* No row found, no copy: the failed update is swallowed.
MirrorMfa(h) ==
    LET u == route[h].user IN
    /\ Mirroring(h, u)
    /\ row' = IF Found(u) THEN [row EXCEPT ![u].mfa = RouteAt(h, "mirrorOn")] ELSE row
    /\ late' = [late EXCEPT ![u] = @ /\ ~Found(u)]
    /\ Finish(h)
    /\ UNCHANGED <<poolUser, access, asked, named, mirrored>>

\* The process stops, Cognito refuses, or the database does.
RouteStops(h) ==
    /\ ~RouteAt(h, "none")
    /\ mirrored' = [u \in Clients |-> mirrored[u] /\ ~Mirroring(h, u)]
    /\ Finish(h)
    /\ UNCHANGED <<poolUser, row, access, asked, named, late>>

-----------------------------------------------------------------------------

ClientNext ==
    \/ \E h \in Routes, u \in Clients :
         \/ ReserveRow(h, u) \/ UnifiedSignUp(h, u) \/ ConfirmSignUp(h, u)
         \/ \E on \in BOOLEAN : SetMfaPreference(h, u, on)
    \/ \E h \in Routes :
         \/ SignUp(h) \/ JoinCustomerGroup(h) \/ MirrorMfa(h) \/ RouteStops(h)
         \/ \E typedAsStored \in BOOLEAN : LinkRow(h, typedAsStored)
    \/ \E u \in Clients : CustomerLogin(u) \/ AnswerTotp(u) \/ AccessEnds(u)

ClientSpec == ClientInit /\ [][ClientNext]_clientVars

-----------------------------------------------------------------------------

\* mfaEnabledAt is what Cognito enforces, for a row that the pool's name for the
\* customer finds and that was there when the preference was set, unless two
\* changes crossed between the two writes or one was cut short, and then only
\* until the next change that is alone.  A row that is not found, or is newer
\* than the preference, has no date whatever Cognito enforces.
MfaMirrored ==
    \A u \in Clients :
        /\ (mirrored[u] /\ Found(u) /\ ~late[u] /\ \A h \in Routes : ~Mirroring(h, u)) =>
               row[u].mfa = poolUser[u].totp
        /\ row[u].mfa => Found(u) /\ ~late[u]
=============================================================================
