------------------------------- MODULE AddOns -------------------------------
(***************************************************************************)
(* The causal-trust add-on bought on top of a Cortex Enterprise licence and *)
(* handed down to the child Cortex licences linked to it (services/addon   *)
(* .service.ts, its routes in admin.ts and its readers in license          *)
(* .service.ts).  There is one code, so a row's code is not modelled.      *)
(*                                                                         *)
(* Granting, revoking and linking read first and write later, with nothing *)
(* held in between; meanwhile the product of a licence may be edited.      *)
(***************************************************************************)
EXTENDS Naturals, FiniteSets

CONSTANTS
    Licences,  \* licences, each of a product of its own
    Tenants,   \* customers
    GrantIds,  \* rows that may be created
    Officers,  \* request handlers
    NoLicence  \* no licence, no row

ASSUME AddOnAssumption == NoLicence \notin Licences \cup GrantIds

VARIABLES
    owner,     \* owner[l]: the customer that holds the licence, for good
    features,  \* features[l]: the codes of the licence's product that matter here
    inForce,   \* licences that are ACTIVE and in date
    parent,    \* parent[l]: parentLicenseId
    grants,    \* grants[g]: the add-on row, or NoGrant
    officer,   \* officer[o]: what handler o has checked and is about to write
    raced,     \* licences two grants were being written to at once
    edited     \* licences whose product changed after an add-on or a link was
               \* checked against it

addOnVars == <<owner, features, inForce, parent, grants, officer, raced, edited>>

ScopeCortex       == "scope-cortex"
ScopeChildCortex  == "scope-child-cortex"
EnterpriseMarker  == "enterprise-plugins"
ProductKinds == { {ScopeCortex}, {ScopeCortex, EnterpriseMarker}, {ScopeChildCortex} }

NoGrant  == [licence |-> NoLicence, state |-> "none"]
NoMatter == [step |-> "idle", licence |-> NoLicence, other |-> NoLicence]

AddOnTypeOK ==
    /\ owner \in [Licences -> Tenants]
    /\ features \in [Licences -> ProductKinds] /\ inForce \subseteq Licences
    /\ parent \in [Licences -> Licences \cup {NoLicence}]
    /\ grants \in [GrantIds -> {NoGrant} \cup [licence : Licences, state : {"active", "expired", "revoked"}]]
    /\ officer \in [Officers -> [step : {"idle", "grant", "revoke", "link"},
                                 licence : Licences \cup {NoLicence},
                                 other : Licences \cup GrantIds \cup {NoLicence}]]
    /\ raced \subseteq Licences /\ edited \subseteq Licences

AddOnInit ==
    /\ owner \in [Licences -> Tenants]
    /\ features \in [Licences -> ProductKinds] /\ inForce = Licences
    /\ parent = [l \in Licences |-> NoLicence]
    /\ grants = [g \in GrantIds |-> NoGrant]
    /\ officer = [o \in Officers |-> NoMatter]
    /\ raced = {} /\ edited = {}

-----------------------------------------------------------------------------

\* addOnRefusal, for the one code there is.
MayCarry(l) ==
    /\ ScopeChildCortex \notin features[l]
    /\ {ScopeCortex, EnterpriseMarker} \subseteq features[l]

\* activeCodes: rows of the licence neither revoked nor past their date.
ActiveGrants(l) == {g \in GrantIds : grants[g] = [licence |-> l, state |-> "active"]}

\* effectiveFeatures: what validation and offline tokens say of the licence.
Inherits(l) ==
    /\ ScopeChildCortex \in features[l] /\ parent[l] \in inForce
    /\ ActiveGrants(parent[l]) # {}
Carries(l) == ActiveGrants(l) # {} \/ Inherits(l)

\* Mutant: the parent may be anybody's.
MayParentAnyone(l, p) == ScopeCortex \in features[p]
MayParent(l, p) == ScopeCortex \in features[p] /\ owner[p] = owner[l]

Matter(o, step, l, other) ==
    /\ officer[o] = NoMatter
    /\ officer' = [officer EXCEPT ![o] = [step |-> step, licence |-> l, other |-> other]]
Granting(l) == {o \in Officers : officer[o].step = "grant" /\ officer[o].licence = l}
MatterDone(o) == officer' = [officer EXCEPT ![o] = NoMatter]

-----------------------------------------------------------------------------

GrantAddOn(o, l) ==
    /\ MayCarry(l) /\ ActiveGrants(l) = {}
    /\ Matter(o, "grant", l, NoLicence)
    /\ raced' = IF Granting(l) # {} THEN raced \cup {l} ELSE raced
    /\ UNCHANGED <<owner, features, inForce, parent, grants, edited>>

CreateGrant(o) ==
    LET l == officer[o].licence IN
    /\ officer[o].step = "grant"
    /\ \E g \in GrantIds :
         /\ grants[g] = NoGrant
         /\ grants' = [grants EXCEPT ![g] = [licence |-> l, state |-> "active"]]
    /\ MatterDone(o)
    /\ UNCHANGED <<owner, features, inForce, parent, raced, edited>>

\* A row found revoked is answered as it is.
RevokeAddOn(o, g) ==
    /\ grants[g].state \in {"active", "expired"}
    /\ Matter(o, "revoke", grants[g].licence, g)
    /\ UNCHANGED <<owner, features, inForce, parent, grants, raced, edited>>

WriteRevocation(o) ==
    LET l == officer[o].licence
        left == ActiveGrants(l) \ {officer[o].other}
    IN
    /\ officer[o].step = "revoke"
    /\ grants' = [grants EXCEPT ![officer[o].other].state = "revoked"]
    /\ raced' = IF left = {} /\ Granting(l) = {} THEN raced \ {l} ELSE raced
    /\ MatterDone(o)
    /\ UNCHANGED <<owner, features, inForce, parent, edited>>

SetParent(o, l, p) ==
    /\ ScopeChildCortex \in features[l]
    /\ p # NoLicence => MayParent(l, p)
    /\ Matter(o, "link", l, p)
    /\ UNCHANGED <<owner, features, inForce, parent, grants, raced, edited>>

WriteParent(o) ==
    /\ officer[o].step = "link"
    /\ parent' = [parent EXCEPT ![officer[o].licence] = officer[o].other]
    /\ MatterDone(o)
    /\ UNCHANGED <<owner, features, inForce, grants, raced, edited>>

\* The database fails or the process stops before the write.
MatterFails(o) ==
    /\ officer[o] # NoMatter
    /\ MatterDone(o)
    /\ UNCHANGED <<owner, features, inForce, parent, grants, raced, edited>>

\* PUT /products/:id replaces the codes of the product, whoever relies on them.
EditProduct(l, kind) ==
    /\ features[l] # kind
    /\ features' = [features EXCEPT ![l] = kind]
    /\ edited' = edited \cup {l}
    /\ UNCHANGED <<owner, inForce, parent, grants, officer, raced>>

\* A licence is suspended, revoked, reinstated or renewed; a row's date passes.
ChangeStanding(l) ==
    /\ inForce' = IF l \in inForce THEN inForce \ {l} ELSE inForce \cup {l}
    /\ UNCHANGED <<owner, features, parent, grants, officer, raced, edited>>

GrantExpires(g) ==
    /\ grants[g].state = "active"
    /\ grants' = [grants EXCEPT ![g].state = "expired"]
    /\ UNCHANGED <<owner, features, inForce, parent, officer, raced, edited>>

AddOnNext ==
    \/ \E o \in Officers :
         \/ CreateGrant(o) \/ WriteRevocation(o) \/ WriteParent(o) \/ MatterFails(o)
         \/ \E l \in Licences : GrantAddOn(o, l) \/ \E p \in Licences \cup {NoLicence} : SetParent(o, l, p)
         \/ \E g \in GrantIds : RevokeAddOn(o, g)
    \/ \E l \in Licences : ChangeStanding(l) \/ \E kind \in ProductKinds : EditProduct(l, kind)
    \/ \E g \in GrantIds : GrantExpires(g)

AddOnSpec == AddOnInit /\ [][AddOnNext]_addOnVars

-----------------------------------------------------------------------------

\* Licences of products that have not changed under them: one add-on at most is
\* in force, unless two grants were written at once and one is left, so that a
\* revocation ends it; what is called a child Cortex carries the add-on only
\* through a parent of the same customer that may carry it, and no other
\* licence carries it unless it may.
CarriedByRight ==
    \A l \in Licences :
      /\ l \notin raced => Cardinality(ActiveGrants(l)) <= 1
      /\ (Carries(l) /\ ({l, parent[l]} \cap edited = {})) =>
           \/ MayCarry(l)
           \/ parent[l] # NoLicence /\ MayCarry(parent[l]) /\ owner[parent[l]] = owner[l]
=============================================================================
