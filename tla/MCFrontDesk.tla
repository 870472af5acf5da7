---------------------------- MODULE MCFrontDesk -----------------------------
(* Model-checking instances of seven more components that share no state:   *)
(* the two Cognito pools, the pages' idle timer, the rate limiter, the Node *)
(* client, usage reports and product bundles.  As in MCOffice a behaviour   *)
(* runs one of them; three have liveness properties, so nothing is          *)
(* symmetric here.                                                          *)
EXTENDS StaffPool, ClientPool, IdleTabs, RateLimiter, NodeClient, UsageReports, ProductBundles

VARIABLE part \* the component that runs

DeskParts == {"staff", "clients", "tabs", "limiter", "node", "usage", "bundles"}

deskVars == <<staffVars, clientVars, tabVars, limiterVars, nodeVars, usageVars, bundleVars>>

\* Bound: one product, which starts in this folder, is never renamed.
Unmoved == CHOOSE p \in Products : TRUE
SomeFolder == CHOOSE d \in Folders : TRUE

\* One start of each component is enough for the runs of another.
DeskInit ==
    /\ part \in DeskParts
    /\ StaffInit /\ ClientInit /\ TabInit /\ LimiterInit
    /\ NodeInit /\ UsageInit /\ BundleInit
    /\ part # "staff" => policy = "required"
    /\ part # "clients" => named = [u \in Clients |-> TRUE]
    /\ part # "limiter" => connected = Servers
    /\ folder[Unmoved] = SomeFolder
    /\ part # "bundles" => \A p \in Products : folder[p] = SomeFolder

\* The others stand still.
OthersRest ==
    /\ part # "staff" => UNCHANGED staffVars
    /\ part # "clients" => UNCHANGED clientVars
    /\ part # "tabs" => UNCHANGED tabVars
    /\ part # "limiter" => UNCHANGED limiterVars
    /\ part # "node" => UNCHANGED nodeVars
    /\ part # "usage" => UNCHANGED usageVars
    /\ part # "bundles" => UNCHANGED bundleVars

DeskNext ==
    /\ UNCHANGED part
    /\ \/ part = "staff" /\ StaffNext
       \/ part = "clients" /\ ClientNext
       \/ part = "tabs" /\ TabNext
       \/ part = "limiter" /\ LimiterNext
       \/ part = "node" /\ NodeNext
       \/ part = "usage" /\ UsageNext
       \/ part = "bundles" /\ BundleNext /\ folder'[Unmoved] = folder[Unmoved]
    /\ OthersRest

\* TabFairness, LimiterFairness and NodeFairness, each owed while its component
\* is the one that runs.
DeskFairness ==
    /\ WF_tabVars(part = "tabs" /\ TickTock)
    /\ \A t \in Tabs : /\ WF_tabVars(part = "tabs" /\ IdleLogout(t))
                       /\ WF_tabVars(part = "tabs" /\ FollowLogout(t))
                       /\ WF_tabVars(part = "tabs" /\ FinishLogout(t))
                       /\ WF_tabVars(part = "tabs" /\ OnLogin(t))
    /\ WF_limiterVars(part = "limiter" /\ Elapse)
    /\ \A s \in Servers : /\ WF_limiterVars(part = "limiter" /\ Serve(s))
                          /\ \A k \in Callers :
                               SF_limiterVars(part = "limiter" /\ Request(s, k))
    /\ WF_nodeVars(part = "node" /\ TimeGoesOn)
    /\ \A p \in Processes : /\ WF_nodeVars(part = "node" /\ Steps(p))
                            /\ SF_nodeVars(part = "node" /\ Call(p))

DeskSpec == DeskInit /\ [][DeskNext]_<<part, deskVars>> /\ DeskFairness

\* Every variable holds a value of its type.
DeskTypesOK ==
    /\ StaffTypeOK /\ ClientTypeOK /\ TabTypeOK /\ LimiterTypeOK
    /\ NodeTypeOK /\ UsageTypeOK /\ BundleTypeOK
=============================================================================
