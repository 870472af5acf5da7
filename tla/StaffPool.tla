----------------------------- MODULE StaffPool -----------------------------
(***************************************************************************)
(* The staff user pool as this server drives it: admins are invited,       *)
(* enrolled in TOTP and admitted to the admin API                          *)
(* (services/adminCognito.service.ts, routes/adminAuth.ts and auth.ts,     *)
(* middleware/admin.ts).  Tokens are verified offline (auth/               *)
(* cognito.auth.ts): what a token says stays true to this server until the *)
(* token expires.                                                          *)
(*                                                                         *)
(* The pool itself is external: a member's status, group and preference    *)
(* change as Cognito documents for the commands the server sends.          *)
(***************************************************************************)
EXTENDS Naturals

CONSTANTS
    Staff,       \* addresses of a staff domain
    FirstAdmin   \* the admin set up with the pool

ASSUME StaffAssumption == FirstAdmin \in Staff

VARIABLES
    policy,      \* whether the pool insists on MFA
    member,      \* member[u]: the user in the pool
    challenge,   \* challenge[u]: what the session Cognito last gave u asks for
    bearer,      \* bearer[u]: what u's unexpired access token says
    mfaCache,    \* mfaCache[u]: the cached answer of hasTotpEnforced
    halfway,     \* halfway[u]: the route that has sent the first of its commands
    overstayed   \* an admin acted after losing the role or the account

staffVars == <<policy, member, challenge, bearer, mfaCache, halfway, overstayed>>

NotMember == [status |-> "none", enabled |-> TRUE, admin |-> FALSE, totp |-> FALSE]
Admin     == [status |-> "confirmed", enabled |-> TRUE, admin |-> TRUE, totp |-> TRUE]

StaffTypeOK ==
    /\ policy \in {"optional", "required"}
    /\ member \in [Staff -> [status : {"none", "temporary", "confirmed", "resetRequired"},
                             enabled : BOOLEAN, admin : BOOLEAN, totp : BOOLEAN]]
    /\ challenge \in [Staff -> {"none", "newPassword", "mfaSetup", "mfaVerify", "totp"}]
    /\ bearer \in [Staff -> {"none", "user", "admin"}]
    /\ mfaCache \in [Staff -> {"none", "yes", "no"}]
    /\ halfway \in [Staff -> {"none", "invite", "mfaDone"}]
    /\ overstayed \in BOOLEAN

StaffInit ==
    /\ policy \in {"optional", "required"}
    /\ member = [u \in Staff |-> IF u = FirstAdmin THEN Admin ELSE NotMember]
    /\ challenge = [u \in Staff |-> "none"]
    /\ bearer = [u \in Staff |-> "none"]
    /\ mfaCache = [u \in Staff |-> "none"]
    /\ halfway = [u \in Staff |-> "none"]
    /\ overstayed = FALSE

-----------------------------------------------------------------------------
(* What Cognito answers. *)

Asks(u, c) == challenge' = [challenge EXCEPT ![u] = c]
Halfway(u, route) == halfway' = [halfway EXCEPT ![u] = route]
\* The groups of the moment are written into the token.
Issue(u) == bearer' = [bearer EXCEPT ![u] = IF member[u].admin THEN "admin" ELSE "user"]

\* Past the password: tokens, or the challenge the user's MFA state calls for.
PastPassword(u) ==
    LET next == IF member[u].totp THEN "totp"
                ELSE IF policy = "required" THEN "mfaSetup" ELSE "none"
    IN  /\ Asks(u, next)
        /\ IF next = "none" THEN Issue(u) ELSE UNCHANGED bearer

-----------------------------------------------------------------------------
(* Logging in. *)

AdminLogin(u) ==
    /\ member[u].enabled
    /\ \/ member[u].status = "temporary" /\ Asks(u, "newPassword") /\ UNCHANGED bearer
       \/ member[u].status = "confirmed" /\ PastPassword(u)
    /\ UNCHANGED <<policy, member, mfaCache, halfway, overstayed>>

RespondNewPassword(u) ==
    /\ challenge[u] = "newPassword" /\ member[u].enabled
    /\ member' = [member EXCEPT ![u].status = "confirmed"]
    /\ PastPassword(u)
    /\ UNCHANGED <<policy, mfaCache, halfway, overstayed>>

\* AssociateSoftwareToken, then VerifySoftwareToken and the MFA_SETUP answer.
StartMfaSetup(u) ==
    /\ challenge[u] = "mfaSetup"
    /\ Asks(u, "mfaVerify")
    /\ UNCHANGED <<policy, member, bearer, mfaCache, halfway, overstayed>>

CompleteMfaSetup(u) ==
    /\ challenge[u] = "mfaVerify" /\ member[u].enabled
    /\ Asks(u, "none") /\ Issue(u)
    /\ Halfway(u, "mfaDone")
    /\ UNCHANGED <<policy, member, mfaCache, overstayed>>

\* The preference is set once the tokens are out; a failure is only logged.
EnforceMfaPreference(u) ==
    /\ halfway[u] = "mfaDone"
    /\ member' = [member EXCEPT ![u].totp = TRUE]
    /\ Halfway(u, "none")
    /\ UNCHANGED <<policy, challenge, bearer, mfaCache, overstayed>>

RespondTotp(u) ==
    /\ challenge[u] = "totp" /\ member[u].enabled
    /\ Asks(u, "none") /\ Issue(u)
    /\ UNCHANGED <<policy, member, mfaCache, halfway, overstayed>>

TokenRunsOut(u) ==
    /\ bearer[u] # "none"
    /\ bearer' = [bearer EXCEPT ![u] = "none"]
    /\ UNCHANGED <<policy, member, challenge, mfaCache, halfway, overstayed>>

-----------------------------------------------------------------------------
(* requireAdmin and the routes behind it. *)

\* verifyAndExtract takes the token at its word.
SaysAdmin(u) == bearer[u] = "admin"

\* One lookup in five minutes, whatever the request asks for next.
HasTotpEnforced(u) ==
    /\ SaysAdmin(u) /\ mfaCache[u] = "none"
    /\ mfaCache' = [mfaCache EXCEPT ![u] = IF member[u].totp THEN "yes" ELSE "no"]
    /\ UNCHANGED <<policy, member, challenge, bearer, halfway, overstayed>>

MfaCacheLapses(u) ==
    /\ mfaCache[u] # "none"
    /\ mfaCache' = [mfaCache EXCEPT ![u] = "none"]
    /\ UNCHANGED <<policy, member, challenge, bearer, halfway, overstayed>>

RequireAdmin(a) == SaysAdmin(a) /\ mfaCache[a] = "yes"

\* An admitted request of a on member u.
Acts(a, u) ==
    /\ RequireAdmin(a) /\ member[u].status # "none"
    /\ overstayed' = (overstayed \/ ~(member[a].admin /\ member[a].enabled))

\* The user is created, then put in the group: a second command, and no retry
\* gets past the first, for the user exists.
InviteAdmin(a, u) ==
    /\ RequireAdmin(a) /\ member[u].status = "none"
    /\ member' = [member EXCEPT ![u].status = "temporary"]
    /\ Halfway(u, "invite")
    /\ UNCHANGED <<policy, challenge, bearer, mfaCache, overstayed>>

AddInvitedToGroup(u) ==
    /\ halfway[u] = "invite"
    /\ member' = [member EXCEPT ![u].admin = TRUE]
    /\ Halfway(u, "none")
    /\ UNCHANGED <<policy, challenge, bearer, mfaCache, overstayed>>

\* Mutant: nobody is kept from disabling himself.
DisableAnyAdmin(a, u) ==
    /\ Acts(a, u)
    /\ member' = [member EXCEPT ![u].enabled = FALSE]
    /\ UNCHANGED <<policy, challenge, bearer, mfaCache, halfway>>

\* The sign-out that is sent next changes nothing here, whether it gets there or
\* not: the pool grants nothing to a session of a disabled user, and a token
\* verified offline lives on.
DisableAdmin(a, u) ==
    /\ Acts(a, u) /\ u # a
    /\ member' = [member EXCEPT ![u].enabled = FALSE]
    /\ UNCHANGED <<policy, challenge, bearer, mfaCache, halfway>>

RemoveAdminRole(a, u) ==
    /\ Acts(a, u) /\ u # a
    /\ member' = [member EXCEPT ![u].admin = FALSE]
    /\ UNCHANGED <<policy, challenge, bearer, mfaCache, halfway>>

ResetAdminPassword(a, u) ==
    /\ Acts(a, u) /\ member[u].status = "confirmed"
    /\ member' = [member EXCEPT ![u].status = "resetRequired"]
    /\ UNCHANGED <<policy, challenge, bearer, mfaCache, halfway>>

\* The process stops, or Cognito refuses the second command.
StaffRouteStops(u) ==
    /\ halfway[u] # "none"
    /\ Halfway(u, "none")
    /\ UNCHANGED <<policy, member, challenge, bearer, mfaCache, overstayed>>

-----------------------------------------------------------------------------

StaffNext ==
    \/ \E u \in Staff :
         \/ AdminLogin(u) \/ RespondNewPassword(u) \/ StartMfaSetup(u) \/ CompleteMfaSetup(u)
         \/ EnforceMfaPreference(u) \/ RespondTotp(u) \/ TokenRunsOut(u)
         \/ HasTotpEnforced(u) \/ MfaCacheLapses(u)
         \/ AddInvitedToGroup(u) \/ StaffRouteStops(u)
    \/ \E a, u \in Staff :
         InviteAdmin(a, u) \/ DisableAdmin(a, u) \/ RemoveAdminRole(a, u) \/ ResetAdminPassword(a, u)

StaffSpec == StaffInit /\ [][StaffNext]_staffVars

-----------------------------------------------------------------------------

\* The pool never runs out of admins as long as every admin request came from
\* someone who still was one: nobody can disable or demote himself, so the last
\* admin stays.  Two admins who remove each other, the second with a token
\* issued before, do leave none: the tokens outlive the role.
AdminsRemain ==
    overstayed \/ \E u \in Staff : member[u].admin /\ member[u].enabled
=============================================================================
