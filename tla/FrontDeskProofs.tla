---------------------------- MODULE FrontDeskProofs ----------------------------
(***************************************************************************)
(* Proofs about the parts of the front desk, for any number of reports,    *)
(* members, users, products, tabs, servers, processes and handlers: usage  *)
(* is counted once, an admin always remains, the customer row says what    *)
(* the pool enforces, what customers are given to download exists, and a   *)
(* tab ends its own login; at the end, the types of all seven parts.       *)
(***************************************************************************)
EXTENDS MCFrontDesk, TLAPS

-----------------------------------------------------------------------------
(* Usage reports. *)

\* A call past its look-up holds a report; past Stripe's answer, one that has
\* been counted, as have all that Stripe or a row remembers or a call accepted.
CallsFit ==
    \A h \in Reporters :
        /\ reporting[h].at # "idle" => Report(h) \in Reports
        /\ reporting[h].at = "record" => counted[Report(h)] >= 1

CountedIfKnown == \A r \in remembered \cup recorded \cup accepted : counted[r] >= 1

\* Stripe counts a report it has forgotten again; one that no lapse exposed has
\* a row, and the calls about it have yet to look for that row.
Forgotten(r) == counted[r] >= 1 /\ r \notin remembered /\ r \notin exposed

ForgottenIsRecorded ==
    \A r \in Reports : Forgotten(r) =>
        /\ r \in recorded
        /\ \A h \in Reporters : Report(h) = r => reporting[h].at = "lookup"

AtMostOnce == \A r \in Reports : r \notin exposed => counted[r] <= 1

UsageInv ==
    /\ UsageTypeOK
    /\ CallsFit
    /\ CountedIfKnown
    /\ ForgottenIsRecorded
    /\ AtMostOnce

-----------------------------------------------------------------------------

LEMMA UsageStart == UsageInit => UsageInv
BY UsageAssumption DEF UsageInit, UsageInv, UsageTypeOK, CallsFit, CountedIfKnown,
   ForgottenIsRecorded, Forgotten, AtMostOnce, IdleReporter, Report

\* The call of Stripe adds the report unless Stripe remembers it; a call that
\* gets there speaks of no forgotten report.
LEMMA UsageCreate ==
    ASSUME UsageInv, NEW h \in Reporters, CreateUsageRecord(h)
    PROVE  UsageInv'
<1> DEFINE r == Report(h)
<1>1. /\ reporting[h].at = "stripe" /\ r \in Reports
      /\ reporting[h] \in [at : {"idle", "lookup", "stripe", "record"},
                           report : Reports \cup {NoReport}]
      /\ counted \in [Reports -> 0 .. MaxCount] /\ counted[r] \in 0 .. MaxCount
      /\ MaxCount \in Nat
  BY UsageAssumption DEF UsageInv, UsageTypeOK, CallsFit, CreateUsageRecord
<1>2. r \in remembered \/ r \in exposed \/ counted[r] = 0
  BY <1>1 DEF UsageInv, ForgottenIsRecorded, Forgotten
<1>3. \A s \in Reports : /\ counted'[s] \in 0 .. MaxCount /\ counted'[s] >= counted[s]
                         /\ s # r => counted'[s] = counted[s]
  BY <1>1 DEF CreateUsageRecord, UsageInv, UsageTypeOK
<1>4. /\ counted' \in [Reports -> 0 .. MaxCount]
      /\ counted'[r] >= 1
      /\ r \notin exposed => counted'[r] <= 1
  BY <1>1, <1>2 DEF CreateUsageRecord, UsageInv, Replayed, CountedIfKnown, AtMostOnce
<1>5. /\ reporting' \in [Reporters -> [at : {"idle", "lookup", "stripe", "record"},
                                       report : Reports \cup {NoReport}]]
      /\ reporting'[h].at = "idle" \/ (reporting'[h].at = "record" /\ reporting'[h].report = r)
      /\ \A g \in Reporters \ {h} : reporting'[g] = reporting[g]
  BY <1>1 DEF CreateUsageRecord, Moves, Closes, IdleReporter, Report, UsageInv, UsageTypeOK
<1>6. UsageTypeOK'
  BY <1>1, <1>4, <1>5 DEF CreateUsageRecord, UsageInv, UsageTypeOK
<1>7. CallsFit'
  BY <1>1, <1>3, <1>4, <1>5 DEF UsageInv, UsageTypeOK, CallsFit, Report
<1>8. CountedIfKnown'
  BY <1>1, <1>3, <1>4 DEF CreateUsageRecord, UsageInv, UsageTypeOK, CountedIfKnown
<1>9. ForgottenIsRecorded'
  <2> SUFFICES ASSUME NEW s \in Reports, Forgotten(s)'
               PROVE  /\ s \in recorded'
                      /\ \A g \in Reporters : (Report(g) = s)' => reporting'[g].at = "lookup"
    BY DEF ForgottenIsRecorded
  <2>1. s # r /\ Forgotten(s)
    BY <1>3 DEF Forgotten, CreateUsageRecord
  <2>2. s \in Reports /\ s # NoReport
    BY UsageAssumption
  <2> QED BY <2>1, <2>2, <1>5, UsageAssumption DEF CreateUsageRecord, Closes, Moves, IdleReporter, UsageInv, ForgottenIsRecorded, Report, UsageTypeOK
<1>10. AtMostOnce'
  BY <1>3, <1>4 DEF CreateUsageRecord, UsageInv, AtMostOnce
<1> QED BY <1>6, <1>7, <1>8, <1>9, <1>10 DEF UsageInv

LEMMA UsageKept == UsageInv /\ [UsageNext]_usageVars => UsageInv'
<1> SUFFICES ASSUME UsageInv, [UsageNext]_usageVars PROVE UsageInv'
  OBVIOUS
<1> USE UsageAssumption
<1>1. ASSUME NEW h \in Reporters, NEW r \in Reports, PostUsage(h, r) PROVE UsageInv'
  BY <1>1 DEF PostUsage, UsageInv, UsageTypeOK, CallsFit, CountedIfKnown,
     ForgottenIsRecorded, Forgotten, AtMostOnce, IdleReporter, Report
<1>2. ASSUME NEW h \in Reporters, LookUpRecord(h) PROVE UsageInv'
  BY <1>2 DEF LookUpRecord, Succeeds, Moves, Closes, UsageInv, UsageTypeOK, CallsFit, CountedIfKnown,
     ForgottenIsRecorded, Forgotten, AtMostOnce, IdleReporter, Report
<1>3. ASSUME NEW h \in Reporters, StoreRecord(h) PROVE UsageInv'
  BY <1>3 DEF StoreRecord, Succeeds, Closes, UsageInv, UsageTypeOK, CallsFit, CountedIfKnown,
     ForgottenIsRecorded, Forgotten, AtMostOnce, IdleReporter, Report
<1>4. ASSUME NEW h \in Reporters, ReportFails(h) PROVE UsageInv'
  BY <1>4 DEF ReportFails, Closes, UsageInv, UsageTypeOK, CallsFit, CountedIfKnown,
     ForgottenIsRecorded, Forgotten, AtMostOnce, IdleReporter, Report
<1>5. ASSUME NEW r \in Reports, KeyLapses(r) PROVE UsageInv'
  BY <1>5 DEF KeyLapses, UsageInv, UsageTypeOK, CallsFit, CountedIfKnown,
     ForgottenIsRecorded, Forgotten, AtMostOnce, Report
<1>6. ASSUME UNCHANGED usageVars PROVE UsageInv'
  BY <1>6 DEF usageVars, UsageInv, UsageTypeOK, CallsFit, CountedIfKnown,
     ForgottenIsRecorded, Forgotten, AtMostOnce, Report
<1> QED BY <1>1, <1>2, <1>3, <1>4, <1>5, <1>6, UsageCreate DEF UsageNext

\* Stripe counts a usage report once, and every accepted one, however the calls
\* of reportUsage overlap, repeat and fail.
THEOREM UsageOnce == UsageSpec => []UsageCountedOnce
<1>1. UsageInv => UsageCountedOnce
  BY DEF UsageInv, UsageTypeOK, CountedIfKnown, AtMostOnce, UsageCountedOnce
<1> QED BY <1>1, UsageStart, UsageKept, PTL DEF UsageSpec

-----------------------------------------------------------------------------
(* The staff pool. *)

LEMMA StaffStart == StaffInit => StaffTypeOK /\ AdminsRemain
<1> SUFFICES ASSUME StaffInit PROVE StaffTypeOK /\ AdminsRemain
  OBVIOUS
<1>1. \A u \in Staff : member[u] = IF u = FirstAdmin THEN Admin ELSE NotMember
  BY DEF StaffInit
<1>2. AdminsRemain
  BY <1>1, StaffAssumption DEF AdminsRemain, Admin
<1>3. StaffTypeOK
  BY <1>1 DEF StaffInit, StaffTypeOK, Admin, NotMember
<1> QED BY <1>2, <1>3

\* What does not disable or demote a member leaves the admins there were.
LEMMA AdminsKept ==
    ASSUME AdminsRemain, overstayed' = overstayed,
           \A u \in Staff : /\ member[u].admin => member'[u].admin
                            /\ member[u].enabled => member'[u].enabled
    PROVE  AdminsRemain'
BY DEF AdminsRemain

LEMMA StaffLogins ==
    ASSUME StaffTypeOK, AdminsRemain, NEW u \in Staff,
           \/ AdminLogin(u) \/ RespondNewPassword(u) \/ StartMfaSetup(u) \/ CompleteMfaSetup(u)
           \/ EnforceMfaPreference(u) \/ RespondTotp(u) \/ TokenRunsOut(u)
    PROVE  StaffTypeOK' /\ AdminsRemain'
<1> USE DEF Asks, Halfway, Issue
<1>1. CASE AdminLogin(u)
  BY <1>1, AdminsKept DEF AdminLogin, PastPassword, StaffTypeOK
<1>2. CASE RespondNewPassword(u)
  BY <1>2, AdminsKept, SMTT(30) DEF RespondNewPassword, PastPassword, StaffTypeOK
<1>3. CASE StartMfaSetup(u)
  BY <1>3, AdminsKept DEF StartMfaSetup, StaffTypeOK
<1>4. CASE CompleteMfaSetup(u)
  BY <1>4, AdminsKept DEF CompleteMfaSetup, StaffTypeOK
<1>5. CASE EnforceMfaPreference(u)
  BY <1>5, AdminsKept, ZenonT(30) DEF EnforceMfaPreference, StaffTypeOK
<1>6. CASE RespondTotp(u)
  BY <1>6, AdminsKept DEF RespondTotp, StaffTypeOK
<1>7. CASE TokenRunsOut(u)
  BY <1>7, AdminsKept DEF TokenRunsOut, StaffTypeOK
<1> QED BY <1>1, <1>2, <1>3, <1>4, <1>5, <1>6, <1>7

LEMMA StaffRoutes ==
    ASSUME StaffTypeOK, AdminsRemain, NEW u \in Staff,
           \/ HasTotpEnforced(u) \/ MfaCacheLapses(u)
           \/ AddInvitedToGroup(u) \/ StaffRouteStops(u)
    PROVE  StaffTypeOK' /\ AdminsRemain'
<1> USE DEF Halfway
<1>1. CASE HasTotpEnforced(u)
  BY <1>1, AdminsKept DEF HasTotpEnforced, StaffTypeOK
<1>2. CASE MfaCacheLapses(u)
  BY <1>2, AdminsKept DEF MfaCacheLapses, StaffTypeOK
<1>3. CASE AddInvitedToGroup(u)
  BY <1>3, AdminsKept, ZenonT(30) DEF AddInvitedToGroup, StaffTypeOK
<1>4. CASE StaffRouteStops(u)
  BY <1>4, AdminsKept DEF StaffRouteStops, StaffTypeOK
<1> QED BY <1>1, <1>2, <1>3, <1>4

\* Who disables or demotes another stays an admin himself, or has overstayed.
LEMMA StaffRequests ==
    ASSUME StaffTypeOK, AdminsRemain, NEW a \in Staff, NEW u \in Staff,
           InviteAdmin(a, u) \/ DisableAdmin(a, u) \/ RemoveAdminRole(a, u) \/ ResetAdminPassword(a, u)
    PROVE  StaffTypeOK' /\ AdminsRemain'
<1>1. CASE InviteAdmin(a, u)
  BY <1>1, AdminsKept DEF InviteAdmin, Halfway, StaffTypeOK
<1>2. CASE DisableAdmin(a, u)
  <2>1. StaffTypeOK'
    BY <1>2 DEF DisableAdmin, Acts, StaffTypeOK
  <2>2. member'[a] = member[a]
    BY <1>2 DEF DisableAdmin, StaffTypeOK
  <2> QED BY <1>2, <2>1, <2>2 DEF DisableAdmin, Acts, AdminsRemain, StaffTypeOK
<1>3. CASE RemoveAdminRole(a, u)
  <2>1. StaffTypeOK'
    BY <1>3 DEF RemoveAdminRole, Acts, StaffTypeOK
  <2>2. member'[a] = member[a]
    BY <1>3 DEF RemoveAdminRole, StaffTypeOK
  <2> QED BY <1>3, <2>1, <2>2 DEF RemoveAdminRole, Acts, AdminsRemain, StaffTypeOK
<1>4. CASE ResetAdminPassword(a, u)
  <2>1. StaffTypeOK'
    BY <1>4 DEF ResetAdminPassword, Acts, StaffTypeOK
  <2>2. \A v \in Staff : member'[v].admin = member[v].admin /\ member'[v].enabled = member[v].enabled
    BY <1>4 DEF ResetAdminPassword, StaffTypeOK
  <2> QED BY <1>4, <2>1, <2>2 DEF ResetAdminPassword, Acts, AdminsRemain, StaffTypeOK
<1> QED BY <1>1, <1>2, <1>3, <1>4

LEMMA StaffKept ==
    StaffTypeOK /\ AdminsRemain /\ [StaffNext]_staffVars => StaffTypeOK' /\ AdminsRemain'
<1> SUFFICES ASSUME StaffTypeOK, AdminsRemain, [StaffNext]_staffVars
             PROVE  StaffTypeOK' /\ AdminsRemain'
  OBVIOUS
<1>1. CASE UNCHANGED staffVars
  BY <1>1 DEF staffVars, StaffTypeOK, AdminsRemain
<1> QED BY <1>1, StaffLogins, StaffRoutes, StaffRequests DEF StaffNext

\* As long as no request came from somebody who had lost the role or the
\* account, the pool has an enabled admin, however many there are and whomever
\* they disable or demote.
THEOREM AnAdminRemains == StaffSpec => []AdminsRemain
BY StaffStart, StaffKept, PTL DEF StaffSpec

-----------------------------------------------------------------------------
(* The customer pool. *)

\* A handler with something left to write has a user, and one that signs a
\* user up has reserved the row.
RoutesFit ==
    \A h \in Routes : route[h].step # "none" =>
        /\ route[h].user \in Clients
        /\ route[h].step \in {"signUp", "link"} => row[route[h].user].state # "none"

\* Nobody sets a preference before the pool has confirmed the user, and only
\* a preference or its copy sets anything.
BeforeMfa ==
    \A u \in Clients :
        /\ access[u] \/ asked[u] => poolUser[u].status = "confirmed"
        /\ poolUser[u].status = "none" =>
             ~poolUser[u].totp /\ ~row[u].mfa /\ \A h \in Routes : ~Mirroring(h, u)

\* Writes of the preference that have not crossed: at most one is half-way,
\* and it is about to copy what the pool has.
OneMirrors ==
    \A u \in Clients : mirrored[u] =>
        \A h \in Routes : Mirroring(h, u) =>
            /\ route[h].step = "mirrorOn" <=> poolUser[u].totp
            /\ \A g \in Routes : Mirroring(g, u) => g = h

ClientInv == ClientTypeOK /\ RoutesFit /\ BeforeMfa /\ OneMirrors /\ MfaMirrored

LEMMA ClientStart == ClientInit => ClientInv
BY DEF ClientInit, ClientInv, ClientTypeOK, RoutesFit, BeforeMfa, OneMirrors, MfaMirrored,
   Mirroring, NoRoute, RouteSteps, Found

\* A handler goes on to its next step, or is done, and no other moves.
LEMMA RouteMoves ==
    ASSUME ClientTypeOK, NEW h \in Routes, NEW step \in RouteSteps, NEW u \in Clients \cup {NoClient},
           route' = [route EXCEPT ![h] = [step |-> step, user |-> u]]
    PROVE  /\ route' \in [Routes -> [step : RouteSteps, user : Clients \cup {NoClient}]]
           /\ route'[h].step = step /\ route'[h].user = u
           /\ \A g \in Routes \ {h} : route'[g] = route[g]
<1> DEFINE r == [step |-> step, user |-> u]
<1>1. r \in [step : RouteSteps, user : Clients \cup {NoClient}] /\ r.step = step /\ r.user = u
  OBVIOUS
<1> HIDE DEF r
<1>2. route' = [route EXCEPT ![h] = r]
  BY DEF r
<1> QED BY <1>1, <1>2 DEF ClientTypeOK

\* What leaves the preference and the writes of its copy alone.
LEMMA OneMirrorsKept ==
    ASSUME ClientInv, mirrored' = mirrored, \A u \in Clients : poolUser'[u].totp = poolUser[u].totp,
           \A g \in Routes, u \in Clients : (Mirroring(g, u) \/ Mirroring(g, u)') => route'[g] = route[g]
    PROVE  OneMirrors'
<1>1. \A g \in Routes, u \in Clients : Mirroring(g, u)' <=> Mirroring(g, u)
  BY DEF Mirroring
<1> QED BY <1>1 DEF ClientInv, OneMirrors

LEMMA MfaUntouched ==
    ASSUME ClientInv, UNCHANGED <<named, late, mirrored>>,
           \A u \in Clients :
             /\ poolUser'[u].totp = poolUser[u].totp /\ row'[u].mfa = row[u].mfa
             /\ row'[u].state # "none" <=> row[u].state # "none",
           \A g \in Routes, u \in Clients : (Mirroring(g, u) \/ Mirroring(g, u)') => route'[g] = route[g]
    PROVE  OneMirrors' /\ MfaMirrored'
<1>1. \A g \in Routes, u \in Clients : Mirroring(g, u)' <=> Mirroring(g, u)
  BY DEF Mirroring
<1>2. \A u \in Clients : Found(u)' <=> Found(u)
  BY DEF Found
<1>3. MfaMirrored'
  BY <1>1, <1>2 DEF ClientInv, MfaMirrored
<1> QED BY <1>3, OneMirrorsKept

LEMMA ClientSignUps ==
    ASSUME ClientInv, NEW h \in Routes, NEW u \in Clients,
           ReserveRow(h, u) \/ UnifiedSignUp(h, u) \/ ConfirmSignUp(h, u)
    PROVE  ClientInv'
<1>1. CASE ReserveRow(h, u)
  <2>1. /\ route[h].step = "none" /\ route' = [route EXCEPT ![h] = [step |-> "signUp", user |-> u]]
        /\ UNCHANGED <<poolUser, access, asked, named, mirrored>>
    BY <1>1 DEF ReserveRow, RouteAt, NextStep
  <2>2. /\ row' \in [Clients -> [state : {"none", "reserved", "linked"}, mfa : BOOLEAN]]
        /\ row'[u].state # "none" /\ \A v \in Clients : row'[v].mfa = row[v].mfa
        /\ \A v \in Clients \ {u} : row'[v] = row[v]
    <3>1. PICK st : st = IF row[u].state = "none" THEN "reserved" ELSE row[u].state
      OBVIOUS
    <3>2. st \in {"reserved", "linked"} /\ row' = [row EXCEPT ![u].state = st]
      BY <1>1, <3>1 DEF ReserveRow, ClientInv, ClientTypeOK
    <3> QED BY <3>2 DEF ClientInv, ClientTypeOK
  <2>3. /\ late' \in [Clients -> BOOLEAN] /\ \A v \in Clients \ {u} : late'[v] = late[v]
        /\ late'[u] <=> late[u] \/ (row[u].state = "none" /\ poolUser[u].totp)
    BY <1>1 DEF ReserveRow, ClientInv, ClientTypeOK
  <2>4. /\ route' \in [Routes -> [step : RouteSteps, user : Clients \cup {NoClient}]]
        /\ route'[h].step = "signUp" /\ route'[h].user = u
        /\ \A g \in Routes \ {h} : route'[g] = route[g]
    BY <2>1, RouteMoves DEF ClientInv, RouteSteps
  <2>5. \A g \in Routes, v \in Clients : Mirroring(g, v)' <=> Mirroring(g, v)
    BY <2>1, <2>4 DEF Mirroring
  <2>6. ClientTypeOK'
    BY <2>1, <2>2, <2>3, <2>4 DEF ClientInv, ClientTypeOK
  <2>7. RoutesFit'
    BY <2>2, <2>4 DEF ClientInv, RoutesFit
  <2>8. BeforeMfa'
    BY <2>1, <2>2, <2>5 DEF ClientInv, BeforeMfa
  <2>9. OneMirrors'
    BY <2>1, <2>4, <2>5, OneMirrorsKept DEF ClientInv, Mirroring
  <2>10. MfaMirrored'
    <3> SUFFICES ASSUME NEW v \in Clients
                 PROVE  /\ (mirrored[v] /\ Found(v)' /\ ~late'[v] /\ \A g \in Routes : ~Mirroring(g, v)) =>
                              row'[v].mfa = poolUser[v].totp
                        /\ row'[v].mfa => Found(v)' /\ ~late'[v]
      BY <2>1, <2>5 DEF MfaMirrored
    <3>1. CASE v # u
      BY <2>1, <2>2, <2>3, <3>1 DEF ClientInv, MfaMirrored, Found
    <3>2. CASE v = u /\ row[u].state # "none"
      BY <2>1, <2>2, <2>3, <3>2 DEF ClientInv, MfaMirrored, Found
    <3>3. CASE v = u /\ row[u].state = "none"
      <4>1. row'[u].mfa = row[u].mfa /\ ~row[u].mfa
        BY <2>2, <3>3 DEF ClientInv, MfaMirrored, Found
      <4>2. ~late'[u] => ~poolUser[u].totp
        BY <2>3, <3>3
      <4>3. row[u].mfa \in BOOLEAN /\ poolUser[u].totp \in BOOLEAN
        BY DEF ClientInv, ClientTypeOK
      <4> QED BY <3>3, <4>1, <4>2, <4>3
    <3> QED BY <3>1, <3>2, <3>3
  <2> QED BY <2>6, <2>7, <2>8, <2>9, <2>10 DEF ClientInv
<1>2. CASE UnifiedSignUp(h, u) \/ ConfirmSignUp(h, u)
  <2> USE DEF ClientInv, ClientTypeOK, RoutesFit, BeforeMfa, OneMirrors, MfaMirrored,
          Mirroring, NoRoute, RouteSteps, RouteAt, NextStep, Found
  <2>1. CASE UnifiedSignUp(h, u)
    BY <2>1, SMTT(30) DEF UnifiedSignUp
  <2>2. CASE ConfirmSignUp(h, u)
    BY <2>2, SMTT(60) DEF ConfirmSignUp
  <2> QED BY <1>2, <2>1, <2>2
<1> QED BY <1>1, <1>2

LEMMA ClientSigned ==
    ASSUME ClientInv, NEW h \in Routes, SignUp(h)
    PROVE  ClientInv'
<1> DEFINE u == route[h].user
<1>1. route[h].step = "signUp" /\ u \in Clients /\ row[u].state # "none"
  BY DEF SignUp, RouteAt, ClientInv, RoutesFit
<1>2. CASE poolUser[u].status = "none"
  <2>1. /\ route' = [route EXCEPT ![h] = [step |-> "link", user |-> u]]
        /\ poolUser' = [poolUser EXCEPT ![u].status = "unconfirmed"]
        /\ UNCHANGED <<row, access, asked, named, late, mirrored>>
    BY <1>2 DEF SignUp, NextStep
  <2>2. /\ route' \in [Routes -> [step : RouteSteps, user : Clients \cup {NoClient}]]
        /\ route'[h].step = "link" /\ route'[h].user = u
        /\ \A g \in Routes \ {h} : route'[g] = route[g]
    BY <1>1, <2>1, RouteMoves DEF ClientInv, RouteSteps
  <2>3. /\ poolUser' \in [Clients -> [status : {"none", "unconfirmed", "confirmed"},
                                      totp : BOOLEAN, group : BOOLEAN]]
        /\ \A v \in Clients : poolUser'[v].totp = poolUser[v].totp
        /\ \A v \in Clients \ {u} : poolUser'[v] = poolUser[v]
        /\ poolUser'[u].status = "unconfirmed"
    BY <1>1, <2>1, SMTT(30) DEF ClientInv, ClientTypeOK
  <2>4. \A g \in Routes, v \in Clients : (Mirroring(g, v) \/ Mirroring(g, v)') => route'[g] = route[g]
    BY <1>1, <2>2 DEF Mirroring
  <2>5. OneMirrors' /\ MfaMirrored'
    BY <2>1, <2>3, <2>4, MfaUntouched
  <2>6. ClientTypeOK'
    BY <2>1, <2>2, <2>3 DEF ClientInv, ClientTypeOK
  <2>7. RoutesFit'
    BY <1>1, <2>1, <2>2 DEF ClientInv, RoutesFit
  <2>8. BeforeMfa'
    BY <1>1, <1>2, <2>1, <2>3, <2>4 DEF ClientInv, BeforeMfa, Mirroring
  <2> QED BY <2>5, <2>6, <2>7, <2>8 DEF ClientInv
<1>3. CASE poolUser[u].status # "none"
  <2>1. /\ route' = [route EXCEPT ![h] = [step |-> "none", user |-> NoClient]]
        /\ UNCHANGED <<poolUser, row, access, asked, named, late, mirrored>>
    BY <1>3 DEF SignUp, Finish, NoRoute
  <2>2. /\ route' \in [Routes -> [step : RouteSteps, user : Clients \cup {NoClient}]]
        /\ route'[h].step = "none"
        /\ \A g \in Routes \ {h} : route'[g] = route[g]
    BY <1>1, <2>1, RouteMoves DEF ClientInv, RouteSteps
  <2>3. \A g \in Routes, v \in Clients : (Mirroring(g, v) \/ Mirroring(g, v)') => route'[g] = route[g]
    BY <1>1, <2>2 DEF Mirroring
  <2>4. OneMirrors' /\ MfaMirrored'
    BY <2>1, <2>3, MfaUntouched
  <2>5. ClientTypeOK' /\ RoutesFit'
    BY <2>1, <2>2 DEF ClientInv, ClientTypeOK, RoutesFit
  <2>6. BeforeMfa'
    BY <2>1, <2>3 DEF ClientInv, BeforeMfa, Mirroring
  <2> QED BY <2>4, <2>5, <2>6 DEF ClientInv
<1> QED BY <1>2, <1>3

LEMMA ClientSettled ==
    ASSUME ClientInv, NEW h \in Routes, NEW typedAsStored \in BOOLEAN,
           LinkRow(h, typedAsStored) \/ JoinCustomerGroup(h)
    PROVE  ClientInv'
<1> DEFINE u == route[h].user
<1>1. /\ route[h].step \in {"link", "confirm"} /\ u \in Clients
      /\ route[h].step = "link" => row[u].state # "none"
  BY DEF LinkRow, JoinCustomerGroup, RouteAt, ClientInv, RoutesFit
<1>2. /\ route' = [route EXCEPT ![h] = [step |-> "none", user |-> NoClient]]
      /\ UNCHANGED <<access, asked, named, late, mirrored>>
  BY DEF LinkRow, JoinCustomerGroup, Finish, NoRoute
<1>3. /\ route' \in [Routes -> [step : RouteSteps, user : Clients \cup {NoClient}]]
      /\ route'[h].step = "none"
      /\ \A g \in Routes \ {h} : route'[g] = route[g]
  BY <1>2, RouteMoves DEF ClientInv, RouteSteps
<1>4. \A g \in Routes, v \in Clients : (Mirroring(g, v) \/ Mirroring(g, v)') => route'[g] = route[g]
  BY <1>1, <1>3 DEF Mirroring
<1>5. /\ poolUser' \in [Clients -> [status : {"none", "unconfirmed", "confirmed"},
                                    totp : BOOLEAN, group : BOOLEAN]]
      /\ row' \in [Clients -> [state : {"none", "reserved", "linked"}, mfa : BOOLEAN]]
      /\ \A v \in Clients :
           /\ poolUser'[v].totp = poolUser[v].totp /\ poolUser'[v].status = poolUser[v].status
           /\ row'[v].mfa = row[v].mfa
           /\ row'[v].state # "none" <=> row[v].state # "none"
  <2>1. CASE LinkRow(h, typedAsStored) /\ typedAsStored
    <3>1. poolUser' = poolUser /\ row' = [row EXCEPT ![u].state = "linked"] /\ row[u].state # "none"
      BY <1>1, <2>1 DEF LinkRow, RouteAt
    <3> QED BY <1>1, <3>1 DEF ClientInv, ClientTypeOK
  <2>2. CASE LinkRow(h, typedAsStored) /\ ~typedAsStored
    BY <2>2 DEF LinkRow, ClientInv, ClientTypeOK
  <2>3. CASE JoinCustomerGroup(h)
    <3>1. row' = row /\ poolUser' = [poolUser EXCEPT ![u].group = TRUE]
      BY <2>3 DEF JoinCustomerGroup
    <3>2. \A v \in Clients : v # u => poolUser'[v] = poolUser[v]
      BY <1>1, <3>1 DEF ClientInv, ClientTypeOK
    <3>3. /\ poolUser'[u].totp = poolUser[u].totp /\ poolUser'[u].status = poolUser[u].status
          /\ poolUser' \in [Clients -> [status : {"none", "unconfirmed", "confirmed"},
                                        totp : BOOLEAN, group : BOOLEAN]]
      <4>1. poolUser \in [Clients -> [status : {"none", "unconfirmed", "confirmed"},
                                      totp : BOOLEAN, group : BOOLEAN]]
        BY DEF ClientInv, ClientTypeOK
      <4> QED BY <1>1, <3>1, <4>1
    <3>4. row \in [Clients -> [state : {"none", "reserved", "linked"}, mfa : BOOLEAN]]
      BY DEF ClientInv, ClientTypeOK
    <3> QED BY <3>1, <3>2, <3>3, <3>4
  <2> QED BY <2>1, <2>2, <2>3
<1>6. OneMirrors' /\ MfaMirrored'
  BY <1>2, <1>4, <1>5, MfaUntouched
<1>7. ClientTypeOK'
  BY <1>2, <1>3, <1>5 DEF ClientInv, ClientTypeOK
<1>8. RoutesFit'
  BY <1>3, <1>5 DEF ClientInv, RoutesFit
<1>9. BeforeMfa'
  BY <1>2, <1>4, <1>5 DEF ClientInv, BeforeMfa, Mirroring
<1> QED BY <1>6, <1>7, <1>8, <1>9 DEF ClientInv

\* The pool's write: from here on h has a copy to make, and any other that had
\* one has been crossed.
LEMMA ClientPrefers ==
    ASSUME ClientInv, NEW h \in Routes, NEW u \in Clients, NEW on \in BOOLEAN,
           SetMfaPreference(h, u, on)
    PROVE  ClientInv'
<1> DEFINE step == IF on THEN "mirrorOn" ELSE "mirrorOff"
<1>1. /\ route[h].step = "none" /\ access[u]
      /\ route' = [route EXCEPT ![h] = [step |-> step, user |-> u]]
      /\ poolUser' = [poolUser EXCEPT ![u].totp = on]
      /\ mirrored' = [mirrored EXCEPT ![u] = \A g \in Routes : ~Mirroring(g, u)]
      /\ UNCHANGED <<row, access, asked, named, late>>
  BY DEF SetMfaPreference, RouteAt, NextStep
<1>2. step \in RouteSteps /\ (step = "mirrorOn" <=> on) /\ step \in {"mirrorOn", "mirrorOff"}
  BY DEF RouteSteps
<1> HIDE DEF step
<1>3. /\ route' \in [Routes -> [step : RouteSteps, user : Clients \cup {NoClient}]]
      /\ route'[h].step = step /\ route'[h].user = u
      /\ \A g \in Routes \ {h} : route'[g] = route[g]
  BY <1>1, <1>2, RouteMoves DEF ClientInv
<1>4. /\ poolUser' \in [Clients -> [status : {"none", "unconfirmed", "confirmed"},
                                    totp : BOOLEAN, group : BOOLEAN]]
      /\ poolUser'[u].totp = on /\ poolUser'[u].status = poolUser[u].status
      /\ \A v \in Clients \ {u} : poolUser'[v] = poolUser[v]
  <2>1. PICK w : w = [poolUser[u] EXCEPT !.totp = on]
    OBVIOUS
  <2>2. poolUser' = [poolUser EXCEPT ![u] = w]
    BY <1>1, <2>1
  <2>3. /\ w \in [status : {"none", "unconfirmed", "confirmed"}, totp : BOOLEAN, group : BOOLEAN]
        /\ w.totp = on /\ w.status = poolUser[u].status
    BY <2>1, SMTT(60) DEF ClientInv, ClientTypeOK
  <2> QED BY <2>2, <2>3 DEF ClientInv, ClientTypeOK
<1>5. /\ mirrored' \in [Clients -> BOOLEAN]
      /\ mirrored'[u] => \A g \in Routes : ~Mirroring(g, u)
      /\ \A v \in Clients \ {u} : mirrored'[v] = mirrored[v]
  BY <1>1 DEF ClientInv, ClientTypeOK
<1>6. /\ Mirroring(h, u)' /\ \A v \in Clients : ~Mirroring(h, v)
      /\ \A v \in Clients \ {u} : ~Mirroring(h, v)'
      /\ \A g \in Routes \ {h}, v \in Clients : Mirroring(g, v)' <=> Mirroring(g, v)
  BY <1>1, <1>2, <1>3 DEF Mirroring
<1>7. ClientTypeOK'
  BY <1>1, <1>3, <1>4, <1>5 DEF ClientInv, ClientTypeOK
<1>8. RoutesFit'
  BY <1>1, <1>2, <1>3 DEF ClientInv, RoutesFit
<1>9. BeforeMfa'
  BY <1>1, <1>4, <1>6 DEF ClientInv, BeforeMfa
<1>10. OneMirrors'
  BY <1>2, <1>3, <1>4, <1>5, <1>6, SMTT(30) DEF ClientInv, OneMirrors
<1>11. MfaMirrored'
  BY <1>1, <1>4, <1>5, <1>6 DEF ClientInv, MfaMirrored, Found
<1> QED BY <1>7, <1>8, <1>9, <1>10, <1>11 DEF ClientInv

\* The copy: where the writes have not crossed it is the only one there is to
\* make, and brings the row up to what the pool has.
LEMMA ClientCopies ==
    ASSUME ClientInv, NEW h \in Routes, MirrorMfa(h)
    PROVE  ClientInv'
<1> DEFINE u == route[h].user
<1>1. Mirroring(h, u) /\ u \in Clients /\ route[h].step \in {"mirrorOn", "mirrorOff"}
  BY DEF MirrorMfa, Mirroring, ClientInv, RoutesFit
<1>2. /\ route' = [route EXCEPT ![h] = [step |-> "none", user |-> NoClient]]
      /\ row' = IF Found(u) THEN [row EXCEPT ![u].mfa = (route[h].step = "mirrorOn")] ELSE row
      /\ late' = [late EXCEPT ![u] = @ /\ ~Found(u)]
      /\ UNCHANGED <<poolUser, access, asked, named, mirrored>>
  BY DEF MirrorMfa, Finish, NoRoute, RouteAt
<1>3. /\ route' \in [Routes -> [step : RouteSteps, user : Clients \cup {NoClient}]]
      /\ route'[h].step = "none"
      /\ \A g \in Routes \ {h} : route'[g] = route[g]
  BY <1>2, RouteMoves DEF ClientInv, RouteSteps
<1>4. /\ row' \in [Clients -> [state : {"none", "reserved", "linked"}, mfa : BOOLEAN]]
      /\ \A v \in Clients : row'[v].state = row[v].state
      /\ \A v \in Clients \ {u} : row'[v] = row[v]
      /\ Found(u) => (row'[u].mfa <=> route[h].step = "mirrorOn")
      /\ ~Found(u) => row' = row
  <2> DEFINE on == route[h].step = "mirrorOn"
  <2>1. CASE ~Found(u)
    BY <1>2, <2>1 DEF ClientInv, ClientTypeOK
  <2>2. CASE Found(u)
    <3>1. on \in BOOLEAN /\ row' = [row EXCEPT ![u].mfa = on]
      BY <1>2, <2>2
    <3> HIDE DEF on
    <3>2. /\ row' \in [Clients -> [state : {"none", "reserved", "linked"}, mfa : BOOLEAN]]
          /\ \A v \in Clients : row'[v].state = row[v].state
          /\ \A v \in Clients \ {u} : row'[v] = row[v]
          /\ row'[u].mfa = on
      BY <1>1, <3>1, SMTT(60) DEF ClientInv, ClientTypeOK
    <3> QED BY <2>2, <3>2 DEF on
  <2> QED BY <2>1, <2>2
<1>5. /\ \A v \in Clients : ~Mirroring(h, v)'
      /\ \A g \in Routes \ {h}, v \in Clients : Mirroring(g, v)' <=> Mirroring(g, v)
      /\ \A v \in Clients \ {u} : ~Mirroring(h, v)
  BY <1>3 DEF Mirroring
<1>6. poolUser[u].status # "none"
  BY <1>1 DEF ClientInv, BeforeMfa
<1>l. /\ late' \in [Clients -> BOOLEAN] /\ late'[u] = (late[u] /\ ~Found(u))
      /\ \A v \in Clients \ {u} : late'[v] = late[v]
  BY <1>1, <1>2 DEF ClientInv, ClientTypeOK
<1>f. \A v \in Clients : Found(v)' <=> Found(v)
  BY <1>2, <1>4 DEF Found
<1>7. ClientTypeOK'
  BY <1>2, <1>3, <1>4, <1>l DEF ClientInv, ClientTypeOK
<1>8. RoutesFit'
  BY <1>3, <1>4 DEF ClientInv, RoutesFit
<1>9. BeforeMfa'
  BY <1>2, <1>4, <1>5, <1>6 DEF ClientInv, BeforeMfa
<1>10. OneMirrors'
  BY <1>2, <1>3, <1>5 DEF ClientInv, OneMirrors
<1>11. MfaMirrored'
  <2> SUFFICES ASSUME NEW v \in Clients
               PROVE  /\ (mirrored[v] /\ Found(v) /\ ~late'[v] /\ \A g \in Routes : ~Mirroring(g, v)') =>
                            row'[v].mfa = poolUser[v].totp
                      /\ row'[v].mfa => Found(v) /\ ~late'[v]
    BY <1>2, <1>f DEF MfaMirrored
  <2>1. CASE v = u /\ Found(u)
    BY <1>1, <1>4, <1>l, <2>1 DEF ClientInv, OneMirrors, ClientTypeOK
  <2>2. CASE v = u /\ ~Found(u)
    BY <1>4, <1>l, <2>2 DEF ClientInv, MfaMirrored
  <2>3. CASE v # u
    BY <1>4, <1>5, <1>l, <2>3 DEF ClientInv, MfaMirrored
  <2> QED BY <2>1, <2>2, <2>3
<1> QED BY <1>7, <1>8, <1>9, <1>10, <1>11 DEF ClientInv

LEMMA ClientStops ==
    ASSUME ClientInv, NEW h \in Routes, RouteStops(h)
    PROVE  ClientInv'
BY DEF RouteStops, ClientInv, ClientTypeOK, RoutesFit, BeforeMfa, OneMirrors, MfaMirrored,
   Mirroring, NoRoute, RouteSteps, RouteAt, Finish, Found

LEMMA ClientLogins ==
    ASSUME ClientInv, NEW u \in Clients,
           CustomerLogin(u) \/ AnswerTotp(u) \/ AccessEnds(u)
    PROVE  ClientInv'
<1>1. /\ UNCHANGED <<poolUser, row, route, named, late, mirrored>>
      /\ access' \in [Clients -> BOOLEAN] /\ asked' \in [Clients -> BOOLEAN]
      /\ \A v \in Clients : access'[v] \/ asked'[v] =>
           access[v] \/ asked[v] \/ poolUser[v].status = "confirmed"
  BY DEF CustomerLogin, AnswerTotp, AccessEnds, ClientInv, ClientTypeOK
<1> QED BY <1>1 DEF ClientInv, ClientTypeOK, RoutesFit, BeforeMfa, OneMirrors, MfaMirrored, Mirroring, Found

LEMMA ClientKept == ClientInv /\ [ClientNext]_clientVars => ClientInv'
<1> SUFFICES ASSUME ClientInv, [ClientNext]_clientVars PROVE ClientInv'
  OBVIOUS
<1>1. CASE UNCHANGED clientVars
  BY <1>1 DEF clientVars, ClientInv, ClientTypeOK, RoutesFit, BeforeMfa, OneMirrors,
     MfaMirrored, Mirroring, Found
<1> QED BY <1>1, ClientSignUps, ClientSigned, ClientSettled, ClientPrefers,
          ClientCopies, ClientStops, ClientLogins DEF ClientNext

\* mfaEnabledAt says what Cognito enforces, in a row its writes find and that is
\* no newer than the preference, whenever no change of it is half-way and the
\* last ones neither crossed nor were cut short; any other row has no date.
THEOREM RowMirrorsMfa == ClientSpec => []MfaMirrored
<1>1. ClientInv => MfaMirrored
  BY DEF ClientInv
<1> QED BY <1>1, ClientKept, ClientStart, PTL DEF ClientSpec

-----------------------------------------------------------------------------
(* Product bundles. *)

Calls == {Resting} \cup [at : {"upload", "choose", "delete"}, product : Products, key : Keys,
                         choose : BOOLEAN, crossed : BOOLEAN]

\* A call that no other has crossed can go by what it saw: the key it is about
\* to choose still has an object, the one it is about to delete is not active.
SawRight ==
    \A h \in Porters :
        /\ porter[h].at = "choose" /\ ~porter[h].crossed => porter[h].key \in stored
        /\ porter[h].at = "delete" /\ ~porter[h].crossed => chosen[porter[h].product] # porter[h].key

BundleInv == BundleTypeOK /\ SawRight /\ DownloadsExist

-----------------------------------------------------------------------------

LEMMA BundleStart == BundleInit => BundleInv
BY BundleAssumption DEF BundleInit, BundleInv, BundleTypeOK, SawRight, DownloadsExist, Downloads, Resting

LEMMA CallFields ==
    ASSUME BundleTypeOK, NEW h \in Porters, porter[h].at # "rest"
    PROVE  /\ porter[h] \in [at : {"upload", "choose", "delete"}, product : Products, key : Keys,
                             choose : BOOLEAN, crossed : BOOLEAN]
           /\ porter[h].product \in Products /\ porter[h].key \in Keys
           /\ porter[h].crossed \in BOOLEAN
BY DEF BundleTypeOK, Resting

\* A new call, or the end of one, changes nothing for the others.
LEMMA BundleCall ==
    ASSUME BundleInv, NEW h \in Porters, NEW c \in Calls,
           porter' = [porter EXCEPT ![h] = c],
           UNCHANGED <<chosen, stored, excused>>, folder' \in [Products -> Folders],
           c.at = "choose" => c.key \in stored,
           c.at = "delete" => chosen[c.product] # c.key
    PROVE  BundleInv'
<1>1. porter' \in [Porters -> Calls] /\ porter'[h] = c /\ \A g \in Porters \ {h} : porter'[g] = porter[g]
  BY DEF BundleInv, BundleTypeOK, Calls
<1>2. BundleTypeOK'
  BY <1>1 DEF BundleInv, BundleTypeOK, Calls
<1>3. SawRight'
  BY <1>1 DEF BundleInv, SawRight
<1> QED BY <1>2, <1>3 DEF BundleInv, DownloadsExist, Downloads

LEMMA BundleStarts ==
    ASSUME BundleInv, NEW h \in Porters, NEW p \in Products,
           \/ \E f \in Files, choose \in BOOLEAN : UploadBundle(h, p, f, choose)
           \/ \E k \in Keys : SetBundle(h, p, k) \/ DeleteBundle(h, p, k)
    PROVE  BundleInv'
<1>1. folder[p] \in Folders /\ folder \in [Products -> Folders]
  BY DEF BundleInv, BundleTypeOK
<1>2. ASSUME NEW f \in Files, NEW choose \in BOOLEAN, UploadBundle(h, p, f, choose) PROVE BundleInv'
  <2> DEFINE c == Underway("upload", p, <<folder[p], f>>, choose)
  <2>1. c \in Calls /\ c.at = "upload"
    BY <1>1 DEF Calls, Underway, Keys
  <2> QED BY <1>1, <1>2, <2>1, BundleCall DEF UploadBundle, Starts
<1>3. ASSUME NEW k \in Keys, SetBundle(h, p, k) PROVE BundleInv'
  <2> DEFINE c == Underway("choose", p, k, TRUE)
  <2>1. c \in Calls /\ c.at = "choose" /\ c.key = k
    BY DEF Calls, Underway
  <2> QED BY <1>1, <1>3, <2>1, BundleCall DEF SetBundle, Starts
<1>4. ASSUME NEW k \in Keys, DeleteBundle(h, p, k) PROVE BundleInv'
  <2> DEFINE c == Underway("delete", p, k, FALSE)
  <2>1. c \in Calls /\ c.at = "delete" /\ c.key = k /\ c.product = p
    BY DEF Calls, Underway
  <2> QED BY <1>1, <1>4, <2>1, BundleCall DEF DeleteBundle, Deletable, Starts
<1> QED BY <1>2, <1>3, <1>4

LEMMA BundleStored ==
    ASSUME BundleInv, NEW h \in Porters, StoreBundle(h)
    PROVE  BundleInv'
<1> PICK c : c = porter[h]
  OBVIOUS
<1>1. /\ c \in [at : {"upload", "choose", "delete"}, product : Products, key : Keys,
                choose : BOOLEAN, crossed : BOOLEAN]
      /\ c.at = "upload" /\ UNCHANGED <<folder, chosen, excused>>
      /\ stored' = stored \cup {c.key}
  BY CallFields DEF StoreBundle, BundleInv
<1>2. porter' = [porter EXCEPT ![h] = IF c.choose THEN [c EXCEPT !.at = "choose"] ELSE Resting]
  BY DEF StoreBundle, BundleInv, BundleTypeOK
<1>3. /\ [c EXCEPT !.at = "choose"] \in Calls /\ [c EXCEPT !.at = "choose"].at = "choose"
      /\ [c EXCEPT !.at = "choose"].key = c.key
      /\ Resting \in Calls /\ Resting.at = "rest"
  BY <1>1 DEF Calls, Resting
<1>4. PICK d \in Calls : /\ porter' = [porter EXCEPT ![h] = d]
                         /\ d.at \in {"choose", "rest"} /\ (d.at = "choose" => d.key = c.key)
  BY <1>2, <1>3
<1>5. porter' \in [Porters -> Calls] /\ porter'[h] = d /\ \A g \in Porters \ {h} : porter'[g] = porter[g]
  BY <1>4 DEF BundleInv, BundleTypeOK, Calls
<1>6. BundleTypeOK'
  BY <1>1, <1>5 DEF BundleInv, BundleTypeOK, Calls
<1>7. SawRight'
  BY <1>1, <1>4, <1>5 DEF BundleInv, SawRight
<1>8. DownloadsExist'
  BY <1>1 DEF BundleInv, DownloadsExist, Downloads
<1> QED BY <1>6, <1>7, <1>8 DEF BundleInv

\* Crossing calls keep their type and lose their trust in what they saw.
LEMMA Crossing ==
    ASSUME BundleTypeOK, NEW h \in Porters, NEW k, NEW stages, DoneCrossing(h, k, stages)
    PROVE  /\ porter' \in [Porters -> Calls]
           /\ porter'[h].at = "rest"
           /\ \A g \in Porters : porter'[g].at \in {"choose", "delete"} =>
                /\ porter'[g].at = porter[g].at /\ porter'[g].key = porter[g].key
                /\ porter'[g].product = porter[g].product
                /\ ~porter'[g].crossed => /\ ~porter[g].crossed
                                          /\ ~(porter[g].at \in stages /\ porter[g].key = k)
<1>1. \A g \in Porters : porter[g] \in Calls
  BY DEF BundleTypeOK, Calls
<1>2. ASSUME NEW c \in Calls
      PROVE  /\ c.at \in stages /\ c.key = k /\ c.at # "rest" =>
                  /\ [c EXCEPT !.crossed = TRUE] \in Calls
                  /\ [c EXCEPT !.crossed = TRUE].crossed
                  /\ [c EXCEPT !.crossed = TRUE].at = c.at
                  /\ [c EXCEPT !.crossed = TRUE].key = c.key
                  /\ [c EXCEPT !.crossed = TRUE].product = c.product
             /\ c = Resting \/ c.at # "rest"
  <2>1. CASE c = Resting
    BY <2>1 DEF Resting
  <2>2. CASE c \in [at : {"upload", "choose", "delete"}, product : Products, key : Keys,
                    choose : BOOLEAN, crossed : BOOLEAN]
    BY <2>2 DEF Calls
  <2> QED BY <2>1, <2>2 DEF Calls
<1> QED BY <1>1, <1>2 DEF DoneCrossing, Calls, Resting

\* The choice: the key has an object unless it was deleted meanwhile, and then
\* the product is excused; deletions of the key that are under way are crossed.
LEMMA BundleChosen ==
    ASSUME BundleInv, NEW h \in Porters, ChooseBundle(h)
    PROVE  BundleInv'
<1> PICK c : c = porter[h]
  OBVIOUS
<1>1. /\ c.at = "choose" /\ c.product \in Products /\ c.key \in Keys /\ c.crossed \in BOOLEAN
      /\ UNCHANGED <<folder, stored>>
      /\ chosen' = [chosen EXCEPT ![c.product] = c.key]
      /\ excused' = IF c.crossed THEN excused \cup {c.product} ELSE excused \ {c.product}
      /\ DoneCrossing(h, c.key, {"delete"})
  BY CallFields DEF ChooseBundle, Choose, BundleInv
<1>2. /\ chosen' \in [Products -> Keys \cup {NoBundle}]
      /\ chosen'[c.product] = c.key
      /\ \A p \in Products \ {c.product} : chosen'[p] = chosen[p]
  BY <1>1 DEF BundleInv, BundleTypeOK
<1>3. BundleTypeOK'
  BY <1>1, <1>2, Crossing DEF BundleInv, BundleTypeOK, Calls
<1>4. SawRight'
  <2> SUFFICES ASSUME NEW g \in Porters, porter'[g].at \in {"choose", "delete"}, ~porter'[g].crossed
               PROVE  /\ porter'[g].at = "choose" => porter'[g].key \in stored
                      /\ porter'[g].at = "delete" => chosen'[porter'[g].product] # porter'[g].key
    BY <1>1 DEF SawRight
  <2>1. /\ porter'[g].at = porter[g].at /\ porter'[g].key = porter[g].key
        /\ porter'[g].product = porter[g].product /\ ~porter[g].crossed
        /\ porter[g].at = "delete" => porter[g].key # c.key
        /\ porter[g].product \in Products
    BY <1>1, Crossing, CallFields DEF BundleInv
  <2> QED BY <1>2, <2>1 DEF BundleInv, SawRight
<1>5. DownloadsExist'
  <2>1. ~c.crossed => c.key \in stored
    BY <1>1 DEF BundleInv, SawRight
  <2> QED BY <1>1, <1>2, <2>1 DEF BundleInv, DownloadsExist, Downloads
<1> QED BY <1>3, <1>4, <1>5 DEF BundleInv

\* The deletion: a product whose active bundle goes is excused, and calls about
\* to choose the key are crossed.
LEMMA BundleRemoved ==
    ASSUME BundleInv, NEW h \in Porters, RemoveObject(h)
    PROVE  BundleInv'
<1> PICK c : c = porter[h]
  OBVIOUS
<1>1. /\ c.at = "delete" /\ c.product \in Products /\ c.key \in Keys
      /\ UNCHANGED <<folder, chosen>> /\ stored' = stored \ {c.key}
      /\ excused' = excused \cup {p \in Products : /\ chosen[p] = c.key
                                                   /\ p # c.product \/ c.crossed}
      /\ DoneCrossing(h, c.key, {"choose"})
  BY CallFields DEF RemoveObject, BundleInv
<1>2. BundleTypeOK'
  BY <1>1, Crossing DEF BundleInv, BundleTypeOK, Calls
<1>3. SawRight'
  <2> SUFFICES ASSUME NEW g \in Porters, porter'[g].at \in {"choose", "delete"}, ~porter'[g].crossed
               PROVE  /\ porter'[g].at = "choose" => porter'[g].key \in stored'
                      /\ porter'[g].at = "delete" => chosen[porter'[g].product] # porter'[g].key
    BY <1>1 DEF SawRight
  <2>1. /\ porter'[g].at = porter[g].at /\ porter'[g].key = porter[g].key
        /\ porter'[g].product = porter[g].product /\ ~porter[g].crossed
        /\ porter[g].at = "choose" => porter[g].key # c.key
    BY <1>1, Crossing DEF BundleInv
  <2> QED BY <1>1, <2>1 DEF BundleInv, SawRight
<1>4. DownloadsExist'
  <2>1. ~c.crossed => chosen[c.product] # c.key
    BY <1>1 DEF BundleInv, SawRight
  <2> QED BY <1>1, <2>1 DEF BundleInv, DownloadsExist, Downloads
<1> QED BY <1>2, <1>3, <1>4 DEF BundleInv

LEMMA BundleByHand ==
    ASSUME BundleInv, NEW p \in Products,
           (\E d \in Folders : RenameProduct(p, d)) \/ (\E k \in Keys : NameBundle(p, k))
    PROVE  BundleInv'
<1>1. ASSUME NEW d \in Folders, RenameProduct(p, d) PROVE BundleInv'
  BY <1>1 DEF RenameProduct, BundleInv, BundleTypeOK, SawRight, DownloadsExist, Downloads
<1>2. ASSUME NEW k \in Keys, NameBundle(p, k) PROVE BundleInv'
  <2>1. /\ chosen' = [chosen EXCEPT ![p] = k] /\ excused' = excused \cup {p}
        /\ UNCHANGED <<folder, stored>>
        /\ porter' = [g \in Porters |-> IF porter[g].at = "delete" /\ porter[g].key = k
                                        THEN [porter[g] EXCEPT !.crossed = TRUE] ELSE porter[g]]
    BY <1>2 DEF NameBundle
  <2>2. /\ chosen' \in [Products -> Keys \cup {NoBundle}]
        /\ chosen'[p] = k /\ \A q \in Products \ {p} : chosen'[q] = chosen[q]
    BY <2>1 DEF BundleInv, BundleTypeOK
  <2>3. ASSUME NEW g \in Porters
        PROVE  /\ porter'[g] \in Calls
               /\ porter'[g].at \in {"choose", "delete"} /\ ~porter'[g].crossed =>
                    porter'[g] = porter[g] /\ ~(porter[g].at = "delete" /\ porter[g].key = k)
    <3>1. CASE porter[g].at = "delete" /\ porter[g].key = k
      <4>1. porter[g] \in [at : {"upload", "choose", "delete"}, product : Products, key : Keys,
                           choose : BOOLEAN, crossed : BOOLEAN]
        BY <3>1, CallFields DEF BundleInv
      <4>2. /\ [porter[g] EXCEPT !.crossed = TRUE] \in Calls
            /\ [porter[g] EXCEPT !.crossed = TRUE].crossed
        BY <4>1 DEF Calls
      <4> QED BY <2>1, <3>1, <4>2
    <3>2. CASE ~(porter[g].at = "delete" /\ porter[g].key = k)
      BY <2>1, <3>2 DEF BundleInv, BundleTypeOK, Calls
    <3> QED BY <3>1, <3>2
  <2>4. porter' \in [Porters -> Calls]
    BY <2>1, <2>3
  <2>5. BundleTypeOK'
    BY <2>1, <2>2, <2>4 DEF BundleInv, BundleTypeOK, Calls
  <2>6. SawRight'
    <3> SUFFICES ASSUME NEW g \in Porters, porter'[g].at \in {"choose", "delete"}, ~porter'[g].crossed
                 PROVE  /\ porter'[g].at = "choose" => porter'[g].key \in stored
                        /\ porter'[g].at = "delete" => chosen'[porter'[g].product] # porter'[g].key
      BY <2>1 DEF SawRight
    <3>1. porter'[g] = porter[g] /\ ~(porter[g].at = "delete" /\ porter[g].key = k)
      BY <2>3
    <3>2. porter[g].product \in Products
      BY <3>1, CallFields DEF BundleInv
    <3> QED BY <2>2, <3>1, <3>2 DEF BundleInv, SawRight
  <2>7. DownloadsExist'
    BY <2>1, <2>2 DEF BundleInv, DownloadsExist, Downloads
  <2> QED BY <2>5, <2>6, <2>7 DEF BundleInv
<1> QED BY <1>1, <1>2

LEMMA BundleKept == BundleInv /\ [BundleNext]_bundleVars => BundleInv'
<1> SUFFICES ASSUME BundleInv, [BundleNext]_bundleVars PROVE BundleInv'
  OBVIOUS
<1>1. CASE UNCHANGED bundleVars
  BY <1>1 DEF bundleVars, BundleInv, BundleTypeOK, SawRight, DownloadsExist, Downloads
<1>2. ASSUME NEW h \in Porters, PorterFails(h) PROVE BundleInv'
  <2>1. Resting \in Calls /\ Resting.at = "rest" /\ folder \in [Products -> Folders]
    BY DEF Calls, Resting, BundleInv, BundleTypeOK
  <2> QED BY <1>2, <2>1, BundleCall DEF PorterFails
<1> QED BY <1>1, <1>2, BundleStarts, BundleStored, BundleChosen, BundleRemoved, BundleByHand DEF BundleNext

\* The active bundle of every product is in the object store, but for those
\* named by hand, whose choice and deletion crossed, or deleted through another
\* product of the same folder.
THEOREM DownloadsKept == BundleSpec => []DownloadsExist
<1>1. BundleInv => DownloadsExist
  BY DEF BundleInv
<1> QED BY <1>1, BundleKept, BundleStart, PTL DEF BundleSpec

-----------------------------------------------------------------------------
(* The idle timer. *)

\* A tab whose done() is to come, or that is told of a logout, while a login is
\* stored is one somebody asked to end that login in, or the two crossed.
TabFits(t) ==
    (token # 0 /\ (tabs[t].done \/ tabs[t].event)) => token \in ended \cup crossedOver

\* Only a tab half-way through a sign-in leaves a token without an activity.
ActiveOrHalf == (token # 0 /\ ~active) => \E t \in Tabs : tabs[t].half

TabInv ==
    /\ TabTypeOK /\ ActiveOrHalf
    /\ \A t \in Tabs : TabFits(t)

Tab == [page : {"open", "leaving", "away"}, done : BOOLEAN, token : 0 .. MaxLogins,
        warning : BOOLEAN, event : BOOLEAN, half : BOOLEAN]

-----------------------------------------------------------------------------

LEMMA TabStart == TabInit => TabInv
<1> SUFFICES ASSUME TabInit PROVE TabInv
  OBVIOUS
<1>1. /\ token = 0 /\ active = FALSE /\ quiet = 0 /\ logins = 0 /\ ended = {} /\ crossedOver = {}
      /\ tabs = [t \in Tabs |-> Gone]
  BY DEF TabInit
<1>2. 0 \in 0 .. Timeout /\ 0 \in 0 .. MaxLogins
  BY TabAssumption
<1>3. Gone \in Tab
  BY <1>2 DEF Gone, Tab
<1>4. tabs \in [Tabs -> Tab]
  BY <1>1, <1>3
<1>5. TabTypeOK
  BY <1>1, <1>2, <1>4 DEF TabTypeOK, Tab
<1> QED
  BY <1>1, <1>5 DEF TabInv, TabFits, ActiveOrHalf

\* A step that gives tab t a value of its type and the rest of the variables
\* theirs keeps the types.
LEMMA TabTyped ==
    ASSUME TabTypeOK, NEW t \in Tabs, NEW c \in Tab, tabs' = [tabs EXCEPT ![t] = c],
           token' \in 0 .. MaxLogins, active' \in BOOLEAN, quiet' \in 0 .. Timeout,
           logins' \in 0 .. MaxLogins, ended' \subseteq 1 .. MaxLogins,
           crossedOver' \subseteq 1 .. MaxLogins
    PROVE  /\ TabTypeOK'
           /\ tabs'[t] = c
           /\ \A u \in Tabs \ {t} : tabs'[u] = tabs[u]
BY DEF TabTypeOK, Tab

\* A logout is announced to the open tabs, and asks nothing of the storage.
LEMMA LogoutAnnounced ==
    ASSUME TabInv, NEW t \in Tabs, PerformLogout(t), ended \subseteq ended',
           ended' \subseteq 1 .. MaxLogins, crossedOver \subseteq crossedOver',
           crossedOver' \subseteq 1 .. MaxLogins, token # 0 => token \in ended' \cup crossedOver'
    PROVE  TabInv'
<1>1. /\ tabs' = [u \in Tabs |->
            IF u = t THEN [tabs[t] EXCEPT !.page = "leaving", !.done = TRUE, !.warning = FALSE, !.event = FALSE]
            ELSE [tabs[u] EXCEPT !.event = tabs[u].page # "away"]]
      /\ UNCHANGED <<token, active, quiet, logins>>
  BY DEF PerformLogout
<1>2. \A u \in Tabs : /\ tabs[u] \in Tab /\ tabs'[u] \in Tab
                      /\ tabs'[u].token = tabs[u].token
                      /\ tabs'[u].half = tabs[u].half
  <2> SUFFICES ASSUME NEW u \in Tabs
               PROVE  /\ tabs[u] \in Tab /\ tabs'[u] \in Tab
                      /\ tabs'[u].token = tabs[u].token
                      /\ tabs'[u].half = tabs[u].half
    OBVIOUS
  <2>1. tabs[u] \in Tab
    BY DEF TabInv, TabTypeOK, Tab
  <2>2. CASE u = t
    <3>1. tabs'[u] = [tabs[u] EXCEPT !.page = "leaving", !.done = TRUE, !.warning = FALSE, !.event = FALSE]
      BY <1>1, <2>2
    <3> QED BY <2>1, <3>1 DEF Tab
  <2>3. CASE u # t
    <3>1. tabs'[u] = [tabs[u] EXCEPT !.event = tabs[u].page # "away"]
      BY <1>1, <2>3
    <3> QED BY <2>1, <3>1 DEF Tab
  <2> QED BY <2>2, <2>3
<1>3. TabTypeOK'
  BY <1>1, <1>2 DEF TabInv, TabTypeOK, Tab
<1>4. ASSUME NEW u \in Tabs PROVE TabFits(u)'
  BY <1>1 DEF TabFits
<1>5. ActiveOrHalf'
  BY <1>1, <1>2 DEF TabInv, ActiveOrHalf
<1> QED
  BY <1>3, <1>4, <1>5 DEF TabInv

LEMMA TabTicks == ASSUME TabInv, TickTock PROVE TabInv'
BY TabAssumption DEF TickTock, TabInv, TabTypeOK, TabFits, ActiveOrHalf

LEMMA TabLoads == ASSUME TabInv, NEW t \in Tabs, LoadPage(t) PROVE TabInv'
<1> DEFINE c == [Gone EXCEPT !.page = "open", !.token = token]
<1>1. /\ tabs[t].page = "away" /\ tabs[t] \in Tab
      /\ tabs' = [tabs EXCEPT ![t] = c]
      /\ active' = (token # 0)
      /\ quiet' = IF token # 0 /\ ~active THEN 0 ELSE quiet
      /\ crossedOver' = crossedOver \cup ((IF SigningOut THEN {token} ELSE {}) \ {0})
      /\ UNCHANGED <<token, logins, ended>>
  BY DEF LoadPage, Page, Expose, TabInv, TabTypeOK, Tab
<1>2. c \in Tab /\ ~c.done /\ ~c.event /\ ~c.half
  BY DEF Gone, Tab, TabInv, TabTypeOK
<1>3. active' \in BOOLEAN /\ quiet' \in 0 .. Timeout /\ crossedOver' \subseteq 1 .. MaxLogins
  BY <1>1, TabAssumption DEF TabInv, TabTypeOK
<1> HIDE DEF c
<1>4. TabTypeOK' /\ tabs'[t] = c /\ \A u \in Tabs \ {t} : tabs'[u] = tabs[u]
  BY <1>1, <1>2, <1>3, TabTyped DEF TabInv, TabTypeOK
<1>5. ActiveOrHalf' /\ \A u \in Tabs : TabFits(u)'
  BY <1>1, <1>2, <1>4 DEF TabInv, TabFits, ActiveOrHalf
<1> QED
  BY <1>4, <1>5 DEF TabInv

\* What a tab keeps to itself, and the activity it records.
LEMMA TabMoves ==
    ASSUME TabInv, NEW t \in Tabs, NEW c \in Tab, tabs' = [tabs EXCEPT ![t] = c],
           c.done => tabs[t].done, c.event => tabs[t].event,
           active' \in BOOLEAN, quiet' \in 0 .. Timeout,
           active => active', tabs[t].half => (c.half \/ active'),
           UNCHANGED <<token, logins, ended, crossedOver>>
    PROVE  TabInv'
<1>1. TabTypeOK' /\ tabs'[t] = c /\ \A u \in Tabs \ {t} : tabs'[u] = tabs[u]
  BY TabTyped DEF TabInv, TabTypeOK
<1>2. ActiveOrHalf' /\ \A u \in Tabs : TabFits(u)'
  BY <1>1 DEF TabInv, TabFits, ActiveOrHalf
<1> QED
  BY <1>1, <1>2 DEF TabInv

LEMMA TabFields ==
    ASSUME TabInv, NEW t \in Tabs
    PROVE  /\ tabs[t] \in Tab
           /\ Gone \in Tab /\ ~Gone.done /\ ~Gone.event /\ ~Gone.half
           /\ token \in Nat /\ active \in BOOLEAN /\ quiet \in 0 .. Timeout
           /\ 0 \in 0 .. Timeout /\ 0 \in 0 .. MaxLogins
BY TabAssumption DEF TabInv, TabTypeOK, Tab, Gone

LEMMA TabKeeps ==
    ASSUME TabInv, NEW t \in Tabs,
           RecordActivity(t) \/ Warn(t) \/ IgnoreEvent(t) \/ OnLogin(t) \/ LeavePage(t)
    PROVE  TabInv'
<1>1. CASE RecordActivity(t)
  <2>1. PICK c : c = [tabs[t] EXCEPT !.warning = FALSE]
    OBVIOUS
  <2>2. /\ c \in Tab /\ c.done = tabs[t].done
        /\ c.event = tabs[t].event /\ c.half = tabs[t].half
    BY <2>1, TabFields DEF Tab
  <2>3. /\ tabs' = [tabs EXCEPT ![t] = c] /\ active' = TRUE /\ quiet' = 0
        /\ UNCHANGED <<token, logins, ended, crossedOver>>
    BY <1>1, <2>1 DEF RecordActivity, Page
  <2> QED
    BY <2>2, <2>3, TabFields, TabMoves
<1>2. CASE Warn(t)
  <2>1. PICK c : c = [tabs[t] EXCEPT !.warning = TRUE]
    OBVIOUS
  <2>2. /\ c \in Tab /\ c.done = tabs[t].done
        /\ c.event = tabs[t].event /\ c.half = tabs[t].half
    BY <2>1, TabFields DEF Tab
  <2>3. tabs' = [tabs EXCEPT ![t] = c] /\ UNCHANGED <<token, active, quiet, logins, ended, crossedOver>>
    BY <1>2, <2>1 DEF Warn, Page
  <2> QED
    BY <2>2, <2>3, TabFields, TabMoves
<1>3. CASE IgnoreEvent(t)
  <2>1. PICK c : c = [tabs[t] EXCEPT !.event = FALSE]
    OBVIOUS
  <2>2. /\ c \in Tab /\ c.done = tabs[t].done
        /\ ~c.event /\ c.half = tabs[t].half
    BY <2>1, TabFields DEF Tab
  <2>3. tabs' = [tabs EXCEPT ![t] = c] /\ UNCHANGED <<token, active, quiet, logins, ended, crossedOver>>
    BY <1>3, <2>1 DEF IgnoreEvent, Page
  <2> QED
    BY <2>2, <2>3, TabFields, TabMoves
<1>4. CASE OnLogin(t)
  <2>1. PICK c : c = [tabs[t] EXCEPT !.half = FALSE, !.page = "open"]
    OBVIOUS
  <2>2. /\ c \in Tab /\ c.done = tabs[t].done /\ c.event = tabs[t].event
    BY <2>1, TabFields DEF Tab
  <2>3. /\ tabs' = [tabs EXCEPT ![t] = c] /\ active' = TRUE /\ quiet' = 0
        /\ UNCHANGED <<token, logins, ended, crossedOver>>
    BY <1>4, <2>1 DEF OnLogin, Page
  <2> QED
    BY <2>2, <2>3, TabFields, TabMoves
<1>5. CASE LeavePage(t)
  <2>1. /\ tabs' = [tabs EXCEPT ![t] = Gone] /\ ~tabs[t].half
        /\ UNCHANGED <<token, active, quiet, logins, ended, crossedOver>>
    BY <1>5 DEF LeavePage, Page, Alive
  <2> QED
    BY <2>1, TabFields, TabMoves
<1> QED
  BY <1>1, <1>2, <1>3, <1>4, <1>5

\* A timer ends the session when nobody was active; without a time it can only
\* have fired in the middle of a sign-in.
LEMMA TabTimesOut == ASSUME TabInv, NEW t \in Tabs, IdleLogout(t) PROVE TabInv'
<1>1. /\ PerformLogout(t) /\ IdleFor >= Timeout
      /\ ended' = IF quiet >= Timeout /\ token # 0 THEN ended \cup {token} ELSE ended
      /\ crossedOver' = crossedOver \cup ((IF \E u \in Tabs : tabs[u].half THEN {token} ELSE {}) \ {0})
  BY DEF IdleLogout, TimedOut, Ends, Expose
<1>2. ended' \subseteq 1 .. MaxLogins /\ ended \subseteq ended'
      /\ crossedOver \subseteq crossedOver' /\ crossedOver' \subseteq 1 .. MaxLogins
  BY <1>1 DEF TabInv, TabTypeOK
<1>3. token # 0 => token \in ended' \cup crossedOver'
  BY <1>1 DEF TabInv, ActiveOrHalf, IdleFor
<1> QED
  BY <1>1, <1>2, <1>3, LogoutAnnounced

LEMMA TabAsked == ASSUME TabInv, NEW t \in Tabs, AskedLogout(t) PROVE TabInv'
<1>1. /\ PerformLogout(t) /\ crossedOver' = crossedOver \cup (Known(t) \ {0})
      /\ ended' = IF tabs[t].token = token /\ token # 0 THEN ended \cup {token} ELSE ended
  BY DEF AskedLogout, Ends, Expose
<1>2. ended' \subseteq 1 .. MaxLogins /\ ended \subseteq ended'
      /\ crossedOver \subseteq crossedOver' /\ crossedOver' \subseteq 1 .. MaxLogins
  BY <1>1 DEF TabInv, TabTypeOK, Known
<1>3. token # 0 => token \in ended' \cup crossedOver'
  BY <1>1 DEF Known
<1> QED
  BY <1>1, <1>2, <1>3, LogoutAnnounced

LEMMA TabFollows == ASSUME TabInv, NEW t \in Tabs, FollowLogout(t) PROVE TabInv'
<1>1. PerformLogout(t) /\ tabs[t].event /\ ended' = ended /\ crossedOver' = crossedOver
  BY DEF FollowLogout
<1>2. token # 0 => token \in ended' \cup crossedOver'
  BY <1>1 DEF TabInv, TabFits
<1> QED
  BY <1>1, <1>2, LogoutAnnounced DEF TabInv, TabTypeOK

LEMMA TabFinishes ==
    ASSUME TabInv, NEW t \in Tabs, FinishLogout(t)
    PROVE  TabInv' /\ (token # 0 => token \in ended' \cup crossedOver')
<1>1. /\ tabs' = [tabs EXCEPT ![t] = Gone] /\ tabs[t].done
      /\ token' = 0 /\ active' = FALSE /\ UNCHANGED <<quiet, logins, ended, crossedOver>>
  BY DEF FinishLogout, Page
<1>2. /\ token' \in 0 .. MaxLogins /\ active' \in BOOLEAN /\ quiet' \in 0 .. Timeout
      /\ logins' \in 0 .. MaxLogins /\ ended' \subseteq 1 .. MaxLogins
      /\ crossedOver' \subseteq 1 .. MaxLogins /\ TabTypeOK
  BY <1>1, TabFields DEF TabInv, TabTypeOK
<1>3. TabTypeOK'
  BY <1>1, <1>2, TabFields, TabTyped
<1>4. token # 0 => token \in ended' \cup crossedOver'
  BY <1>1 DEF TabInv, TabFits
<1> QED
  BY <1>1, <1>3, <1>4 DEF TabInv, TabFits, ActiveOrHalf

LEMMA TabClears ==
    ASSUME TabInv, NEW t \in Tabs, ClearAuthState(t)
    PROVE  TabInv' /\ (token # 0 => token \in ended' \cup crossedOver')
<1>1. PICK c : c = [tabs[t] EXCEPT !.token = 0, !.page = "open"]
  OBVIOUS
<1>2. /\ tabs' = [tabs EXCEPT ![t] = c] /\ tabs[t].token # 0
      /\ token' = 0 /\ active' = FALSE /\ UNCHANGED <<quiet, logins>>
      /\ ended' = IF tabs[t].token = token /\ token # 0 THEN ended \cup {token} ELSE ended
      /\ crossedOver' = crossedOver \cup ((Known(t) \cup {tabs[u].token : u \in Tabs \ {t}}) \ {0})
  BY <1>1 DEF ClearAuthState, Page, Ends, Expose
<1>3. c \in Tab
  BY <1>1, TabFields, TabAssumption DEF Tab
<1>4. ended' \subseteq 1 .. MaxLogins /\ crossedOver' \subseteq 1 .. MaxLogins
  <2>1. MaxLogins \in Nat
    BY TabAssumption
  <2>2. /\ token \in 0 .. MaxLogins /\ ended \subseteq 1 .. MaxLogins
        /\ crossedOver \subseteq 1 .. MaxLogins
        /\ \A u \in Tabs : tabs[u].token \in 0 .. MaxLogins
    BY DEF TabInv, TabTypeOK
  <2>3. PICK taken : taken = (Known(t) \cup {tabs[u].token : u \in Tabs \ {t}}) \ {0}
    OBVIOUS
  <2>4. taken \subseteq 1 .. MaxLogins
    BY <2>1, <2>2, <2>3 DEF Known
  <2>5. ended' \subseteq 1 .. MaxLogins
    BY <1>2, <2>1, <2>2
  <2>6. crossedOver' = crossedOver \cup taken
    BY <1>2, <2>3
  <2> QED
    BY <2>2, <2>4, <2>5, <2>6
<1>5. /\ token' \in 0 .. MaxLogins /\ active' \in BOOLEAN /\ quiet' \in 0 .. Timeout
      /\ logins' \in 0 .. MaxLogins /\ TabTypeOK
  BY <1>2, TabFields DEF TabInv, TabTypeOK
<1>6. TabTypeOK'
  BY <1>2, <1>3, <1>4, <1>5, TabTyped
<1> QED
  BY <1>2, <1>6 DEF TabInv, TabFits, ActiveOrHalf, Known

\* A login stored while a done() or an event of another is to come crosses it.
LEMMA TabSignsIn == ASSUME TabInv, NEW t \in Tabs, ApplyTokens(t) PROVE TabInv'
<1>1. PICK c : c = [tabs[t] EXCEPT !.token = logins + 1, !.half = TRUE]
  OBVIOUS
<1>2. /\ tabs' = [tabs EXCEPT ![t] = c] /\ logins < MaxLogins
      /\ logins' = logins + 1 /\ token' = logins + 1 /\ UNCHANGED <<active, quiet, ended>>
      /\ crossedOver' = crossedOver \cup ((IF SigningOut THEN {logins + 1} ELSE {}) \ {0})
  BY <1>1 DEF ApplyTokens, Page, Expose
<1>3. logins + 1 \in 0 .. MaxLogins
  BY <1>2, TabAssumption DEF TabInv, TabTypeOK
<1>4. c \in Tab /\ c.half /\ c.done = tabs[t].done /\ c.event = tabs[t].event
  BY <1>1, <1>3, TabFields DEF Tab
<1>5. logins + 1 # 0 /\ crossedOver' \subseteq 1 .. MaxLogins
  BY <1>2, TabAssumption DEF TabInv, TabTypeOK
<1>6. TabTypeOK' /\ tabs'[t] = c /\ \A u \in Tabs \ {t} : tabs'[u] = tabs[u]
  BY <1>2, <1>3, <1>4, <1>5, TabTyped DEF TabInv, TabTypeOK
<1>7. ActiveOrHalf'
  BY <1>4, <1>6 DEF ActiveOrHalf
<1>8. ASSUME NEW u \in Tabs PROVE TabFits(u)'
  <2>1. (tabs'[u].done \/ tabs'[u].event) => SigningOut
    BY <1>4, <1>6 DEF SigningOut
  <2> QED
    BY <1>2, <1>5, <2>1 DEF TabFits
<1> QED
  BY <1>6, <1>7, <1>8 DEF TabInv

LEMMA TabStep ==
    ASSUME TabInv, [TabNext]_tabVars
    PROVE  TabInv' /\ ((token # 0 /\ token' = 0) => token \in ended' \cup crossedOver')
<1>1. CASE UNCHANGED tabVars
  BY <1>1 DEF tabVars, TabInv, TabTypeOK, TabFits, ActiveOrHalf
<1>2. CASE TickTock
  BY <1>2, TabTicks DEF TickTock
<1>3. ASSUME NEW t \in Tabs, LoadPage(t) \/ RecordActivity(t) \/ Warn(t) \/ LeavePage(t)
             \/ IgnoreEvent(t) \/ OnLogin(t)
      PROVE  TabInv' /\ token' = token
  BY <1>3, TabLoads, TabKeeps DEF LoadPage, RecordActivity, Warn, LeavePage, IgnoreEvent, OnLogin
<1>4. ASSUME NEW t \in Tabs, IdleLogout(t) \/ AskedLogout(t) \/ FollowLogout(t)
      PROVE  TabInv' /\ token' = token
  BY <1>4, TabTimesOut, TabAsked, TabFollows
     DEF IdleLogout, AskedLogout, FollowLogout, PerformLogout
<1>5. ASSUME NEW t \in Tabs, FinishLogout(t) \/ ClearAuthState(t)
      PROVE  TabInv' /\ (token # 0 => token \in ended' \cup crossedOver')
  BY <1>5, TabFinishes, TabClears
<1>6. ASSUME NEW t \in Tabs, ApplyTokens(t) PROVE TabInv' /\ token' # 0
  <2>1. token' = logins + 1 /\ logins \in Nat
    BY <1>6, TabAssumption DEF ApplyTokens, TabInv, TabTypeOK
  <2> QED
    BY <1>6, <2>1, TabSignsIn
<1> QED
  BY <1>1, <1>2, <1>3, <1>4, <1>5, <1>6 DEF TabNext

\* However the tabs interleave, a login that leaves the storage was asked to end,
\* or was stored or signed out while the end of another was still going on.
THEOREM OwnSessionEnds == TabSpec => EndsOwnSession
<1>1. TabInv /\ [TabNext]_tabVars => TabInv'
  BY TabStep
<1>2. TabInv /\ [TabNext]_tabVars
        => [(token # 0 /\ token' = 0) => token \in ended' \cup crossedOver']_tabVars
  BY TabStep
<1> QED
  BY <1>1, <1>2, TabStart, PTL DEF TabSpec, EndsOwnSession

-----------------------------------------------------------------------------
(* The rate limiter and the Node client. *)

\* A request that is being counted has a client.
Asked == \A s \in Servers : request[s].step # "idle" => request[s].client \in Callers

LimiterInv == LimiterTypeOK /\ Asked

Asking == [step : {"idle", "incr", "pttl", "pexpire"},
           client : Callers \cup {NoCaller}, count : 0 .. Over]

LEMMA LimiterNumbers ==
    /\ MaxRequests \in Nat \ {0} /\ Window \in Nat \ {0} /\ MaxStops \in Nat
    /\ NoCaller \notin Callers
    /\ Over \in Nat /\ Over > MaxRequests
    /\ \A n \in 0 .. Over : Counted(n) \in 0 .. Over
BY LimiterAssumption DEF Over, Counted

LEMMA LimiterStart == LimiterInit => LimiterInv
BY LimiterNumbers DEF LimiterInit, LimiterInv, LimiterTypeOK, Asked, NoRequest, NoEntry, Endless

LEMMA RequestSet ==
    ASSUME LimiterInv, NEW s \in Servers, NEW r \in Asking,
           r.step # "idle" => r.client \in Callers,
           request' = [request EXCEPT ![s] = r]
    PROVE  request' \in [Servers -> Asking] /\ Asked'
BY DEF LimiterInv, LimiterTypeOK, Asked, Asking

LEMMA RequestTyped ==
    /\ \A step \in {"incr", "pttl", "pexpire"}, k \in Callers, n \in 0 .. Over :
         LET r == [step |-> step, client |-> k, count |-> n]
         IN  r \in Asking /\ r.client \in Callers
    /\ NoRequest \in Asking /\ NoRequest.step = "idle"
BY LimiterNumbers DEF Asking, NoRequest

LEMMA RequestDone ==
    ASSUME LimiterInv, NEW s \in Servers, Finished(s)
    PROVE  request' \in [Servers -> Asking] /\ Asked'
BY RequestSet, RequestTyped DEF Finished

LEMMA RequestMoves ==
    ASSUME LimiterInv, NEW s \in Servers, NEW step \in {"incr", "pttl", "pexpire"},
           NEW k \in Callers, NEW n \in 0 .. Over, To(s, step, k, n)
    PROVE  request' \in [Servers -> Asking] /\ Asked'
<1>1. PICK r : r = [step |-> step, client |-> k, count |-> n]
  OBVIOUS
<1>2. r \in Asking /\ r.client \in Callers /\ request' = [request EXCEPT ![s] = r]
  BY <1>1, RequestTyped DEF To
<1> QED BY <1>2, RequestSet

LEMMA Told ==
    ASSUME LimiterInv, NEW k, NEW n, Tell(k, n)
    PROVE  verdict' \in [Callers -> {"none", "admitted", "refused"}]
BY DEF LimiterInv, LimiterTypeOK, Tell

LEMMA LimiterServes ==
    ASSUME LimiterInv, NEW s \in Servers, Serve(s)
    PROVE  LimiterInv'
<1>1. PICK k : k = request[s].client
  OBVIOUS
<1>2. PICK n : n = request[s].count
  OBVIOUS
<1>3. n \in 0 .. Over /\ (request[s].step # "idle" => k \in Callers)
  BY <1>1, <1>2 DEF LimiterInv, LimiterTypeOK, Asked
<1>4. count \in [Callers -> 0 .. Over] /\ ttl \in [Callers -> Endless .. Window]
  BY DEF LimiterInv, LimiterTypeOK
<1>5. Endless \in Endless .. Window /\ Window \in Endless .. Window
  BY LimiterNumbers DEF Endless
<1>6. CASE Incr(s)
  <2>1. k \in Callers /\ request[s].step = "incr"
    BY <1>1, <1>3, <1>6 DEF Incr
  <2>2. Counted(count[k]) \in 0 .. Over
    BY <1>4, <2>1, LimiterNumbers
  <2>3. request' \in [Servers -> Asking] /\ Asked'
    BY <1>1, <1>6, <2>1, <2>2, RequestMoves DEF Incr
  <2>4. count' \in [Callers -> 0 .. Over] /\ ttl' \in [Callers -> Endless .. Window]
    BY <1>1, <1>4, <1>5, <1>6, <2>1, <2>2 DEF Incr
  <2> QED BY <1>6, <2>3, <2>4 DEF Incr, LimiterInv, LimiterTypeOK, Asking
<1>7. CASE Pttl(s)
  <2>1. k \in Callers /\ request[s].step = "pttl"
    BY <1>1, <1>3, <1>7 DEF Pttl
  <2>2. \/ To(s, "pexpire", k, n) /\ UNCHANGED verdict
        \/ Finished(s) /\ Tell(k, n)
    BY <1>1, <1>2, <1>7 DEF Pttl
  <2>3. /\ request' \in [Servers -> Asking] /\ Asked'
        /\ verdict' \in [Callers -> {"none", "admitted", "refused"}]
    BY <1>3, <2>1, <2>2, RequestMoves, RequestDone, Told DEF LimiterInv, LimiterTypeOK
  <2> QED BY <1>7, <2>3 DEF Pttl, LimiterInv, LimiterTypeOK, Asking
<1>8. CASE Pexpire(s)
  <2>1. request' \in [Servers -> Asking] /\ Asked'
    BY <1>8, RequestDone DEF Pexpire
  <2>2. verdict' \in [Callers -> {"none", "admitted", "refused"}]
    BY <1>8, Told DEF Pexpire
  <2>3. ttl' \in [Callers -> Endless .. Window]
    BY <1>1, <1>4, <1>5, <1>8 DEF Pexpire
  <2> QED BY <1>8, <2>1, <2>2, <2>3 DEF Pexpire, LimiterInv, LimiterTypeOK, Asking
<1> QED BY <1>6, <1>7, <1>8 DEF Serve

Entry == [count : 0 .. Over, left : 0 .. Window]

LEMMA LimiterCounts ==
    ASSUME LimiterInv, NEW s \in Servers, NEW k \in Callers, CountInMemory(s, k)
    PROVE  LimiterInv'
<1>1. PICK e : e = memory[s][k]
  OBVIOUS
<1>2. e \in Entry
  BY <1>1 DEF LimiterInv, LimiterTypeOK, Entry
<1>3. PICK now : now = IF e.left = 0 THEN [count |-> 1, left |-> Window]
                       ELSE [e EXCEPT !.count = Counted(@)]
  OBVIOUS
<1>4. now \in Entry
  <2>1. [count |-> 1, left |-> Window] \in Entry
    BY LimiterNumbers DEF Entry
  <2>2. Counted(e.count) \in 0 .. Over
    BY <1>2, LimiterNumbers DEF Entry
  <2>3. [e EXCEPT !.count = Counted(e.count)] \in Entry
    BY <1>2, <2>2 DEF Entry
  <2> QED BY <1>3, <2>1, <2>3
<1>5. memory' = [memory EXCEPT ![s][k] = now] /\ Tell(k, now.count)
  BY <1>1, <1>3 DEF CountInMemory
<1>6. memory' \in [Servers -> [Callers -> Entry]]
  BY <1>4, <1>5 DEF LimiterInv, LimiterTypeOK, Entry
<1>7. verdict' \in [Callers -> {"none", "admitted", "refused"}]
  BY <1>5, Told
<1> QED BY <1>6, <1>7 DEF CountInMemory, LimiterInv, LimiterTypeOK, Asked, Entry

LEMMA LimiterElapses ==
    ASSUME LimiterInv, Elapse
    PROVE  LimiterInv'
<1> DEFINE left(n) == IF n > 0 THEN n - 1 ELSE n
<1>1. \A n \in Endless .. Window : left(n) \in Endless .. Window
  BY LimiterNumbers DEF Endless
<1>2. ttl' = [k \in Callers |-> left(ttl[k])]
  BY DEF Elapse
<1> HIDE DEF left
<1>3. ttl' \in [Callers -> Endless .. Window]
  BY <1>1, <1>2 DEF LimiterInv, LimiterTypeOK
<1>4. count' \in [Callers -> 0 .. Over]
  BY LimiterNumbers DEF Elapse, LimiterInv, LimiterTypeOK
<1>5. NoEntry \in Entry
  BY LimiterNumbers DEF NoEntry, Entry
<1>6. \A e \in Entry : e.left > 1 => [e EXCEPT !.left = e.left - 1] \in Entry
  BY LimiterNumbers DEF Entry
<1>7. \A s \in Servers, k \in Callers : memory[s][k] \in Entry
  BY DEF LimiterInv, LimiterTypeOK, Entry
<1>8. \A e \in Entry : e.left <= 1 \/ e.left > 1
  BY LimiterNumbers DEF Entry
<1>9. \A s \in Servers, k \in Callers :
        (IF memory[s][k].left <= 1 THEN NoEntry ELSE [memory[s][k] EXCEPT !.left = @ - 1]) \in Entry
  BY <1>5, <1>6, <1>7, <1>8
<1>10. memory' \in [Servers -> [Callers -> Entry]]
  BY <1>9 DEF Elapse
<1> QED BY <1>3, <1>4, <1>10 DEF Elapse, LimiterInv, LimiterTypeOK, Asked, Entry

LEMMA LimiterKept == LimiterInv /\ [LimiterNext]_limiterVars => LimiterInv'
<1> SUFFICES ASSUME LimiterInv, [LimiterNext]_limiterVars PROVE LimiterInv'
  OBVIOUS
<1>1. CASE UNCHANGED limiterVars
  BY <1>1 DEF limiterVars, LimiterInv, LimiterTypeOK, Asked
<1>2. ASSUME NEW s \in Servers, NEW k \in Callers, Arrive(s, k) PROVE LimiterInv'
  <2>1. 0 \in 0 .. Over
    BY LimiterNumbers
  <2>2. request' \in [Servers -> Asking] /\ Asked'
    BY <1>2, <2>1, RequestMoves DEF Arrive
  <2> QED BY <1>2, <2>2 DEF Arrive, LimiterInv, LimiterTypeOK, Asking
<1>3. ASSUME NEW s \in Servers, RedisFails(s) PROVE LimiterInv'
  <2>1. request' \in [Servers -> Asking] /\ Asked'
    BY <1>3, RequestDone DEF RedisFails
  <2> QED BY <1>3, <2>1 DEF RedisFails, LimiterInv, LimiterTypeOK, Asking
<1>4. ASSUME NEW s \in Servers, SwitchConnection(s) PROVE LimiterInv'
  BY <1>4 DEF SwitchConnection, LimiterInv, LimiterTypeOK, Asked
<1>5. ASSUME NEW s \in Servers, StopServer(s) PROVE LimiterInv'
  <2>1. request' \in [Servers -> Asking] /\ Asked'
    BY <1>5, RequestDone DEF StopServer
  <2>2. stops' \in 0 .. MaxStops
    BY <1>5, LimiterNumbers DEF StopServer, LimiterInv, LimiterTypeOK
  <2>3. [k \in Callers |-> NoEntry] \in [Callers -> [count : 0 .. Over, left : 0 .. Window]]
    BY LimiterNumbers DEF NoEntry
  <2>4. memory' \in [Servers -> [Callers -> [count : 0 .. Over, left : 0 .. Window]]]
    BY <1>5, <2>3 DEF StopServer, LimiterInv, LimiterTypeOK
  <2> QED BY <1>5, <2>1, <2>2, <2>4 DEF StopServer, LimiterInv, LimiterTypeOK, Asking
<1> QED BY <1>1, <1>2, <1>3, <1>4, <1>5, LimiterServes, LimiterCounts, LimiterElapses
        DEF LimiterNext, Request

LEMMA NodeAges ==
    /\ NoFile \in NoFile .. Grace /\ 0 \in NoFile .. Grace
    /\ \A n \in 0 .. Grace - 1 : n + 1 \in NoFile .. Grace
<1>1. Grace \in Nat
  BY NodeAssumption
<1> QED BY <1>1 DEF NoFile

LEMMA NodeStart == NodeInit => NodeTypeOK
BY NodeAges DEF NodeInit, NodeTypeOK

LEMMA NodeKept == NodeTypeOK /\ [NodeNext]_nodeVars => NodeTypeOK'
<1> SUFFICES ASSUME NodeTypeOK, [NodeNext]_nodeVars PROVE NodeTypeOK'
  OBVIOUS
<1>1. CASE UNCHANGED nodeVars
  BY <1>1 DEF nodeVars, NodeTypeOK
<1>2. CASE LicenceChanges \/ TimeGoesOn
  BY <1>2, NodeAges DEF LicenceChanges, TimeGoesOn, NodeTypeOK
<1>3. ASSUME NEW p \in Processes,
             Call(p) \/ CallActivate(p) \/ CallDeactivate(p) \/ AnswerFromCache(p) \/ AskServer(p)
             \/ Refuse(p) \/ NetworkError(p)
      PROVE  NodeTypeOK'
  BY <1>3 DEF Call, CallActivate, CallDeactivate, AnswerFromCache, AskServer, Refuse,
              NetworkError, FallBack, Gate, Goes, NodeTypeOK
<1>4. ASSUME NEW p \in Processes,
             ServerValidates(p) \/ CacheValidation(p) \/ CacheWriteFails(p) \/ Activate(p) \/ Deactivate(p) \/ ClearCache(p)
      PROVE  NodeTypeOK'
  <2>1. CASE ServerValidates(p)
    BY <2>1 DEF ServerValidates, Goes, NodeTypeOK
  <2>2. CASE CacheValidation(p) \/ ClearCache(p)
    BY <2>2, NodeAges DEF CacheValidation, ClearCache, Gate, Goes, NodeTypeOK
  <2>4. CASE CacheWriteFails(p)
    BY <2>4, NodeAges DEF CacheWriteFails, FallBack, Gate, Goes, NodeTypeOK
  <2>3. CASE Activate(p) \/ Deactivate(p)
    BY <2>3 DEF Activate, Deactivate, Accepts, Goes, NodeTypeOK
  <2> QED BY <1>4, <2>1, <2>2, <2>3, <2>4
<1> QED BY <1>1, <1>2, <1>3, <1>4 DEF NodeNext, Steps

-----------------------------------------------------------------------------
(* The front desk as it is run: one part, the others at rest. *)

DeskInv ==
    /\ StaffTypeOK /\ AdminsRemain
    /\ ClientInv /\ TabInv /\ LimiterInv /\ NodeTypeOK /\ UsageInv /\ BundleInv

LEMMA DeskStart == DeskInit => DeskInv
BY StaffStart, ClientStart, TabStart, LimiterStart, NodeStart, UsageStart, BundleStart
DEF DeskInit, DeskInv

LEMMA DeskParted ==
    ASSUME [DeskNext]_<<part, deskVars>>
    PROVE  /\ [StaffNext]_staffVars /\ [ClientNext]_clientVars /\ [TabNext]_tabVars
           /\ [LimiterNext]_limiterVars /\ [NodeNext]_nodeVars /\ [UsageNext]_usageVars
           /\ [BundleNext]_bundleVars
<1>1. CASE UNCHANGED <<part, deskVars>>
  BY <1>1 DEF deskVars
<1>2. CASE DeskNext
  <2>1. (part # "staff" => UNCHANGED staffVars) /\ (part # "clients" => UNCHANGED clientVars)
        /\ (part # "tabs" => UNCHANGED tabVars) /\ (part # "limiter" => UNCHANGED limiterVars)
        /\ (part # "node" => UNCHANGED nodeVars) /\ (part # "usage" => UNCHANGED usageVars)
        /\ (part # "bundles" => UNCHANGED bundleVars)
    BY <1>2 DEF DeskNext, OthersRest
  <2>2. (part = "staff" /\ StaffNext) \/ (part = "clients" /\ ClientNext)
        \/ (part = "tabs" /\ TabNext) \/ (part = "limiter" /\ LimiterNext)
        \/ (part = "node" /\ NodeNext) \/ (part = "usage" /\ UsageNext)
        \/ (part = "bundles" /\ BundleNext)
    BY <1>2 DEF DeskNext
  <2> QED BY <2>1, <2>2
<1> QED BY <1>1, <1>2

\* Whichever part of the front desk runs, no step writes a stage, a status, a
\* counter or an age outside its type, for any number of members, customers,
\* tabs, servers, processes, reports and products: a limiter's count is for a
\* client, and nothing is written for a handler that has no one.
THEOREM DeskTypes == DeskSpec => []DeskTypesOK
<1>1. DeskInv /\ [DeskNext]_<<part, deskVars>> => DeskInv'
  BY DeskParted, StaffKept, ClientKept, TabStep, LimiterKept, NodeKept, UsageKept, BundleKept
  DEF DeskInv
<1>2. DeskInv => DeskTypesOK
  BY DEF DeskInv, DeskTypesOK, ClientInv, TabInv, LimiterInv, UsageInv, BundleInv
<1> QED BY <1>1, <1>2, DeskStart, PTL DEF DeskSpec
=============================================================================
