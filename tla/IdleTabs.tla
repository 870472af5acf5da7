------------------------------ MODULE IdleTabs ------------------------------
(***************************************************************************)
(* The idle timer of the web pages (public/idleTimer.js) with what app.js  *)
(* and admin.js do to the same storage when somebody signs in or out.      *)
(*                                                                         *)
(* The tabs of one browser share localStorage, where the access token and  *)
(* the time of the last activity are; each tab also keeps the token it     *)
(* loaded or was given in a variable it never reads again from storage.  A *)
(* tab runs one handler at a time, but between two writes of one tab the   *)
(* handlers of another may run.  Storage events arrive some time later.    *)
(***************************************************************************)
EXTENDS Naturals

CONSTANTS
    Tabs,      \* tabs of the browser
    Timeout,   \* timeoutMs, in ticks
    WarnGap,   \* warnGapMs, in ticks
    MaxLogins  \* bound: times somebody signs in

ASSUME TabAssumption ==
    /\ Timeout \in Nat \ {0} /\ WarnGap \in 1 .. Timeout /\ MaxLogins \in Nat

VARIABLES
    token,    \* lsAccessToken: the number of the login it is from, 0 for none
    active,   \* lsLastActivity is set
    quiet,    \* ticks since activity was last recorded, Timeout standing for more
    tabs,     \* tabs[t]: see TabTypeOK
    logins,   \* logins so far
    ended,    \* logins somebody or something has asked to end: the user, the
              \* server, or a timer when no tab had recorded activity in Timeout
    crossedOver   \* logins that crossed the end of another: see Expose

tabVars == <<token, active, quiet, tabs, logins, ended, crossedOver>>

\* page "leaving": loggingOut is set; done: its done() is yet to run; token: the
\* variable of app.js and admin.js; event: a storage event for lsIdleLogoutAt is
\* on its way; half: signed in, lsLastActivity not written yet.
Gone == [page |-> "away", done |-> FALSE, token |-> 0, warning |-> FALSE, event |-> FALSE,
         half |-> FALSE]

TabTypeOK ==
    /\ token \in 0 .. MaxLogins /\ active \in BOOLEAN /\ quiet \in 0 .. Timeout
    /\ tabs \in [Tabs -> [page : {"open", "leaving", "away"}, done : BOOLEAN, token : 0 .. MaxLogins,
                          warning : BOOLEAN, event : BOOLEAN, half : BOOLEAN]]
    /\ logins \in 0 .. MaxLogins /\ ended \subseteq 1 .. MaxLogins /\ crossedOver \subseteq 1 .. MaxLogins

TabInit ==
    /\ token = 0 /\ active = FALSE /\ quiet = 0
    /\ tabs = [t \in Tabs |-> Gone]
    /\ logins = 0 /\ ended = {} /\ crossedOver = {}

-----------------------------------------------------------------------------

\* now() - readLastActivity(): a missing time reads as 0, long ago.
IdleFor == IF active THEN quiet ELSE Timeout

Page(t, changed) == tabs' = [tabs EXCEPT ![t] = changed]
\* One handler at a time: the two writes of a sign-in are one handler.
Alive(t) == tabs[t].page # "away" /\ ~tabs[t].half
Free(t)  == Alive(t) /\ tabs[t].page = "open"
Ends(n)  == ended' = IF n = 0 THEN ended ELSE ended \cup {n}

\* A done() or an event of the session that was is still to come.
SigningOut == \E u \in Tabs : tabs[u].done \/ tabs[u].event

\* A login is crossedOver when it is stored, or a page takes it up, while SigningOut;
\* when it is half stored and a timer fires; when a tab that knows another login
\* signs it out; and, in the tabs that know it, when a tab clears the storage
\* without telling them.
Expose(ns) == crossedOver' = crossedOver \cup (ns \ {0})
Known(t)   == IF tabs[t].token = token THEN {} ELSE {token}

\* Mutant: lsIdleLogoutAt is not written.
PerformLogoutAlone(t) ==
    /\ Free(t)
    /\ Page(t, [tabs[t] EXCEPT !.page = "leaving", !.done = TRUE, !.warning = FALSE, !.event = FALSE])
    /\ UNCHANGED <<token, active, quiet, logins>>

\* performLogout: once per page, and the other pages hear of it.
PerformLogout(t) ==
    /\ Free(t)
    /\ tabs' = [u \in Tabs |->
         IF u = t THEN [tabs[t] EXCEPT !.page = "leaving", !.done = TRUE, !.warning = FALSE, !.event = FALSE]
         ELSE [tabs[u] EXCEPT !.event = tabs[u].page # "away"]]
    /\ UNCHANGED <<token, active, quiet, logins>>

TickTock ==
    /\ quiet < Timeout /\ quiet' = quiet + 1
    /\ UNCHANGED <<token, active, tabs, logins, ended, crossedOver>>

\* A page opens: app.js reads the token, and the timer seeds the activity.
\* A page without a token clears the storage again: nothing is left in it.
LoadPage(t) ==
    /\ tabs[t].page = "away"
    /\ Page(t, [Gone EXCEPT !.page = "open", !.token = token])
    /\ active' = (token # 0)
    /\ quiet' = IF token # 0 /\ ~active THEN 0 ELSE quiet
    /\ Expose(IF SigningOut THEN {token} ELSE {})
    /\ UNCHANGED <<token, logins, ended>>

\* The user moves about in the tab; the warning of this tab goes away.
RecordActivity(t) ==
    /\ Free(t) /\ token # 0
    /\ active' = TRUE /\ quiet' = 0
    /\ Page(t, [tabs[t] EXCEPT !.warning = FALSE])
    /\ UNCHANGED <<token, logins, ended, crossedOver>>

\* check(), every five seconds and when the tab comes to the front.
Warn(t) ==
    /\ Free(t) /\ token # 0 /\ ~tabs[t].warning
    /\ IdleFor < Timeout /\ IdleFor >= Timeout - WarnGap
    /\ Page(t, [tabs[t] EXCEPT !.warning = TRUE])
    /\ UNCHANGED <<token, active, quiet, logins, ended, crossedOver>>

TimedOutWhenWarned == IdleFor >= Timeout - WarnGap \* mutant: the gap is not waited for
TimedOut == IdleFor >= Timeout

\* check() with a token in storage, or the countdown of a warning without one.
IdleLogout(t) ==
    /\ TimedOut /\ (token # 0 \/ tabs[t].warning)
    /\ PerformLogout(t)
    /\ Ends(IF quiet >= Timeout THEN token ELSE 0)
    /\ Expose(IF \E u \in Tabs : tabs[u].half THEN {token} ELSE {})

\* "Log out now", or the server answered 401 idle_timeout to this tab's token.
AskedLogout(t) ==
    /\ tabs[t].token # 0
    /\ PerformLogout(t)
    /\ Ends(IF tabs[t].token = token THEN token ELSE 0)
    /\ Expose(Known(t))

\* The storage event: a page follows, signed in or not.
FollowLogout(t) ==
    /\ tabs[t].event
    /\ PerformLogout(t)
    /\ UNCHANGED <<ended, crossedOver>>
IgnoreEvent(t) ==
    /\ tabs[t].event /\ Alive(t) /\ tabs[t].page = "leaving"
    /\ Page(t, [tabs[t] EXCEPT !.event = FALSE])
    /\ UNCHANGED <<token, active, quiet, logins, ended, crossedOver>>

\* done(), at most 2.5 seconds later: whatever is stored by then is removed,
\* whatever has become of loggingOut.
FinishLogout(t) ==
    /\ tabs[t].done /\ Alive(t)
    /\ token' = 0 /\ active' = FALSE
    /\ Page(t, Gone)
    /\ UNCHANGED <<quiet, logins, ended, crossedOver>>

\* logout() of app.js and admin.js, or a 401 for the tab's token: the storage
\* is cleared, nothing tells the other tabs, and onLogout resets loggingOut.
ClearAuthState(t) ==
    /\ Alive(t) /\ tabs[t].token # 0
    /\ token' = 0 /\ active' = FALSE
    /\ Ends(IF tabs[t].token = token THEN token ELSE 0)
    /\ Expose(Known(t) \cup {tabs[u].token : u \in Tabs \ {t}})
    /\ Page(t, [tabs[t] EXCEPT !.token = 0, !.page = "open"])
    /\ UNCHANGED <<quiet, logins>>

\* applyTokens, when the answer to a login arrives: the token is stored, also in
\* a page that is signing out, and onLogin writes the activity after it.
ApplyTokens(t) ==
    /\ Alive(t) /\ logins < MaxLogins
    /\ logins' = logins + 1 /\ token' = logins + 1
    /\ Expose(IF SigningOut THEN {logins + 1} ELSE {})
    /\ Page(t, [tabs[t] EXCEPT !.token = logins + 1, !.half = TRUE])
    /\ UNCHANGED <<active, quiet, ended>>

\* loggingOut is reset; a done() that was to come still comes.
OnLogin(t) ==
    /\ tabs[t].half
    /\ active' = TRUE /\ quiet' = 0
    /\ Page(t, [tabs[t] EXCEPT !.half = FALSE, !.page = "open"])
    /\ UNCHANGED <<token, logins, ended, crossedOver>>

\* The user closes the tab or goes elsewhere.
LeavePage(t) ==
    /\ Alive(t)
    /\ Page(t, Gone)
    /\ UNCHANGED <<token, active, quiet, logins, ended, crossedOver>>

TabNext ==
    \/ TickTock
    \/ \E t \in Tabs :
         \/ LoadPage(t) \/ RecordActivity(t) \/ Warn(t) \/ LeavePage(t)
         \/ IdleLogout(t) \/ AskedLogout(t) \/ FollowLogout(t) \/ IgnoreEvent(t) \/ FinishLogout(t)
         \/ ClearAuthState(t) \/ ApplyTokens(t) \/ OnLogin(t)

\* Time passes, intervals and timeouts fire in an open page, and an event that
\* was posted arrives.
TabFairness ==
    /\ WF_tabVars(TickTock)
    /\ \A t \in Tabs :
         /\ WF_tabVars(IdleLogout(t))
         /\ WF_tabVars(FollowLogout(t))
         /\ WF_tabVars(FinishLogout(t))
         /\ WF_tabVars(OnLogin(t))

TabSpec == TabInit /\ [][TabNext]_tabVars /\ TabFairness

-----------------------------------------------------------------------------

\* A login leaves the storage only after something asked to end that login, and
\* a timer asks only once no tab has recorded activity for the whole timeout;
\* unless the login crossed the end of another, which may take it along: a page
\* that follows a logout removes a login answered while it did.
EndsOwnSession ==
    [][ (token # 0 /\ token' = 0) => token \in ended' \cup crossedOver' ]_tabVars

\* A tab in which nobody does anything any more is signed out in the end,
\* whichever tab notices, unless its login crossed the end of another.
IdleTabsEnd ==
    \A t \in Tabs :
      (tabs[t].token # 0 /\ quiet > 0) ~> (tabs[t].token \in {0} \cup crossedOver \/ quiet = 0)
=============================================================================
