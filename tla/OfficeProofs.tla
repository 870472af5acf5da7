---------------------------- MODULE OfficeProofs ----------------------------
(***************************************************************************)
(* Proofs about five parts of the office, for any number of licences,      *)
(* products, certificates, seats, releases, processes and handlers:        *)
(* add-ons are carried by right, revoked certificates are refused, the     *)
(* catalogue, Stripe and the licences agree, seats add up, and a           *)
(* deployment can verify the release it is served.                         *)
(***************************************************************************)
EXTENDS AddOns, Certificates, Catalogue, TeamSeats, Releases, FiniteSums

-----------------------------------------------------------------------------
(* Add-ons. *)

\* What a revocation is about to write to, and an officer whose grant or link
\* has been checked.
MattersFit ==
    \A o \in Officers :
        /\ officer[o].step \in {"grant", "revoke", "link"} => officer[o].licence \in Licences
        /\ officer[o].step = "revoke" =>
             /\ officer[o].other \in GrantIds
             /\ grants[officer[o].other] # NoGrant
             /\ grants[officer[o].other].licence = officer[o].licence
        /\ officer[o].step = "link" =>
             /\ officer[o].other \in Licences \cup {NoLicence}
             /\ officer[o].other # NoLicence => owner[officer[o].other] = owner[officer[o].licence]

\* Outside races a licence has one grant, in force or on its way.
OneGrant ==
    \A l \in Licences \ raced :
        /\ \A g, k \in ActiveGrants(l) : g = k
        /\ \A o, q \in Granting(l) : o = q
        /\ Granting(l) # {} => ActiveGrants(l) = {}

\* What was checked still holds for a product that nobody has edited.
CheckedStands ==
    \A l \in Licences \ edited : Granting(l) # {} \/ ActiveGrants(l) # {} => MayCarry(l)

LinkedAlike == \A l \in Licences : parent[l] # NoLicence => owner[parent[l]] = owner[l]

AddOnInv == AddOnTypeOK /\ MattersFit /\ OneGrant /\ CheckedStands /\ LinkedAlike

LEMMA AddOnStart == AddOnInit => AddOnInv
<1> SUFFICES ASSUME AddOnInit PROVE AddOnInv
  OBVIOUS
<1>1. \A g \in GrantIds : grants[g] = NoGrant
  BY DEF AddOnInit
<1>2. \A l \in Licences : ActiveGrants(l) = {} /\ Granting(l) = {}
  BY <1>1 DEF AddOnInit, ActiveGrants, Granting, NoGrant, NoMatter
<1>3. AddOnTypeOK
  BY DEF AddOnInit, AddOnTypeOK, NoMatter
<1>4. MattersFit
  BY DEF AddOnInit, MattersFit, NoMatter
<1> QED BY <1>2, <1>3, <1>4 DEF AddOnInit, AddOnInv, OneGrant, CheckedStands, LinkedAlike

\* A handler is done: nothing new to fit.
LEMMA MatterEnds ==
    ASSUME AddOnTypeOK, NEW o \in Officers, MatterDone(o)
    PROVE  /\ officer' \in [Officers -> [step : {"idle", "grant", "revoke", "link"},
                                         licence : Licences \cup {NoLicence},
                                         other : Licences \cup GrantIds \cup {NoLicence}]]
           /\ officer'[o].step = "idle"
           /\ \A q \in Officers \ {o} : officer'[q] = officer[q]
           /\ \A l \in Licences : Granting(l)' = Granting(l) \ {o}
BY DEF MatterDone, NoMatter, AddOnTypeOK, Granting

LEMMA MatterStarts ==
    ASSUME AddOnTypeOK, NEW o \in Officers, NEW step \in {"grant", "revoke", "link"},
           NEW l \in Licences, NEW other \in Licences \cup GrantIds \cup {NoLicence},
           Matter(o, step, l, other)
    PROVE  /\ officer' \in [Officers -> [step : {"idle", "grant", "revoke", "link"},
                                         licence : Licences \cup {NoLicence},
                                         other : Licences \cup GrantIds \cup {NoLicence}]]
           /\ officer'[o].step = step /\ officer'[o].licence = l /\ officer'[o].other = other
           /\ officer[o].step = "idle"
           /\ \A q \in Officers \ {o} : officer'[q] = officer[q]
           /\ \A k \in Licences : Granting(k)' = Granting(k) \cup (IF step = "grant" /\ k = l THEN {o} ELSE {})
BY DEF Matter, NoMatter, AddOnTypeOK, Granting

LEMMA AddOnGrants ==
    ASSUME AddOnInv, NEW o \in Officers, NEW l \in Licences, GrantAddOn(o, l)
    PROVE  AddOnInv'
<1>1. /\ MayCarry(l) /\ ActiveGrants(l) = {}
      /\ Matter(o, "grant", l, NoLicence)
      /\ raced' = IF Granting(l) # {} THEN raced \cup {l} ELSE raced
      /\ UNCHANGED <<owner, features, inForce, parent, grants, edited>>
  BY DEF GrantAddOn
<1>2. /\ AddOnTypeOK
      /\ officer' \in [Officers -> [step : {"idle", "grant", "revoke", "link"},
                                    licence : Licences \cup {NoLicence},
                                    other : Licences \cup GrantIds \cup {NoLicence}]]
      /\ officer'[o].step = "grant" /\ officer'[o].licence = l
      /\ \A q \in Officers \ {o} : officer'[q] = officer[q]
      /\ \A k \in Licences : Granting(k)' = Granting(k) \cup (IF k = l THEN {o} ELSE {})
  BY <1>1, MatterStarts DEF AddOnInv
<1>3. \A k \in Licences : ActiveGrants(k)' = ActiveGrants(k) /\ MayCarry(k)' = MayCarry(k)
  BY <1>1 DEF ActiveGrants, MayCarry
<1>4. AddOnTypeOK'
  BY <1>1, <1>2 DEF AddOnTypeOK
<1>5. MattersFit'
  BY <1>1, <1>2 DEF AddOnInv, MattersFit
<1>6. OneGrant'
  BY <1>1, <1>2, <1>3 DEF AddOnInv, OneGrant
<1>7. CheckedStands'
  BY <1>1, <1>2, <1>3 DEF AddOnInv, CheckedStands
<1> QED BY <1>1, <1>4, <1>5, <1>6, <1>7 DEF AddOnInv, LinkedAlike

\* A licence with two grants was raced.
LEMMA AddOnCreates ==
    ASSUME AddOnInv, NEW o \in Officers, CreateGrant(o)
    PROVE  AddOnInv'
<1> PICK l : l = officer[o].licence
  OBVIOUS
<1>1. /\ officer[o].step = "grant" /\ l \in Licences
      /\ MatterDone(o) /\ UNCHANGED <<owner, features, inForce, parent, raced, edited>>
      /\ o \in Granting(l)
  BY DEF CreateGrant, AddOnInv, MattersFit, Granting
<1>2. PICK g \in GrantIds : /\ grants[g] = NoGrant
                            /\ grants' = [grants EXCEPT ![g] = [licence |-> l, state |-> "active"]]
  BY DEF CreateGrant
<1>3. /\ officer' \in [Officers -> [step : {"idle", "grant", "revoke", "link"},
                                    licence : Licences \cup {NoLicence},
                                    other : Licences \cup GrantIds \cup {NoLicence}]]
      /\ officer'[o].step = "idle"
      /\ \A q \in Officers \ {o} : officer'[q] = officer[q]
      /\ \A k \in Licences : Granting(k)' = Granting(k) \ {o}
  BY <1>1, MatterEnds DEF AddOnInv
<1>4. /\ grants' \in [GrantIds -> {NoGrant} \cup [licence : Licences, state : {"active", "expired", "revoked"}]]
      /\ grants'[g] = [licence |-> l, state |-> "active"]
      /\ \A k \in GrantIds \ {g} : grants'[k] = grants[k]
  BY <1>1, <1>2 DEF AddOnInv, AddOnTypeOK
<1>5. \A k \in Licences : /\ ActiveGrants(k)' = ActiveGrants(k) \cup (IF k = l THEN {g} ELSE {})
                          /\ MayCarry(k)' = MayCarry(k)
  <2>1. ASSUME NEW k \in Licences
        PROVE  grants'[g] = [licence |-> k, state |-> "active"] <=> k = l
    BY <1>4
  <2>2. \A k \in Licences : g \notin ActiveGrants(k)
    BY <1>2 DEF ActiveGrants, NoGrant
  <2> QED BY <1>1, <1>4, <2>1, <2>2 DEF ActiveGrants, MayCarry
<1>6. AddOnTypeOK'
  BY <1>1, <1>3, <1>4 DEF AddOnInv, AddOnTypeOK
<1>7. MattersFit'
  BY <1>1, <1>2, <1>3, <1>4 DEF AddOnInv, MattersFit
<1>8. OneGrant'
  BY <1>1, <1>3, <1>5 DEF AddOnInv, OneGrant
<1>9. CheckedStands'
  BY <1>1, <1>3, <1>5 DEF AddOnInv, CheckedStands
<1> QED BY <1>1, <1>6, <1>7, <1>8, <1>9 DEF AddOnInv, LinkedAlike

\* A revocation forgets the race when nothing is left of it.
LEMMA AddOnRevokes ==
    ASSUME AddOnInv, NEW o \in Officers, WriteRevocation(o)
    PROVE  AddOnInv'
<1> PICK l, g : l = officer[o].licence /\ g = officer[o].other
  OBVIOUS
<1>1. /\ officer[o].step = "revoke" /\ l \in Licences /\ g \in GrantIds
      /\ grants[g] # NoGrant /\ grants[g].licence = l
      /\ grants' = [grants EXCEPT ![g].state = "revoked"]
      /\ raced' = IF ActiveGrants(l) \ {g} = {} /\ Granting(l) = {} THEN raced \ {l} ELSE raced
      /\ MatterDone(o) /\ UNCHANGED <<owner, features, inForce, parent, edited>>
  BY DEF WriteRevocation, AddOnInv, MattersFit
<1>2. /\ officer' \in [Officers -> [step : {"idle", "grant", "revoke", "link"},
                                    licence : Licences \cup {NoLicence},
                                    other : Licences \cup GrantIds \cup {NoLicence}]]
      /\ officer'[o].step = "idle"
      /\ \A q \in Officers \ {o} : officer'[q] = officer[q]
      /\ \A k \in Licences : Granting(k)' = Granting(k) \ {o}
      /\ o \notin Granting(l)
  BY <1>1, MatterEnds DEF AddOnInv, Granting
<1>3. /\ grants' \in [GrantIds -> {NoGrant} \cup [licence : Licences, state : {"active", "expired", "revoked"}]]
      /\ grants'[g] # NoGrant /\ grants'[g].licence = l /\ grants'[g].state = "revoked"
      /\ \A k \in GrantIds \ {g} : grants'[k] = grants[k]
  <2>1. grants[g] \in [licence : Licences, state : {"active", "expired", "revoked"}]
    BY <1>1 DEF AddOnInv, AddOnTypeOK
  <2>2. /\ [grants[g] EXCEPT !.state = "revoked"] \in [licence : Licences, state : {"active", "expired", "revoked"}]
        /\ [grants[g] EXCEPT !.state = "revoked"].licence = l
        /\ [grants[g] EXCEPT !.state = "revoked"].state = "revoked"
        /\ [grants[g] EXCEPT !.state = "revoked"] # NoGrant
    BY <1>1, <2>1 DEF NoGrant
  <2> QED BY <1>1, <2>2 DEF AddOnInv, AddOnTypeOK
<1>4. \A k \in Licences : ActiveGrants(k)' = ActiveGrants(k) \ {g} /\ MayCarry(k)' = MayCarry(k)
  BY <1>1, <1>3 DEF ActiveGrants, MayCarry
<1>5. AddOnTypeOK'
  BY <1>1, <1>2, <1>3 DEF AddOnInv, AddOnTypeOK
<1>6. MattersFit'
  BY <1>1, <1>2, <1>3 DEF AddOnInv, MattersFit
<1>7. OneGrant'
  BY <1>1, <1>2, <1>4 DEF AddOnInv, OneGrant
<1>8. CheckedStands'
  BY <1>1, <1>2, <1>4 DEF AddOnInv, CheckedStands
<1> QED BY <1>1, <1>5, <1>6, <1>7, <1>8 DEF AddOnInv, LinkedAlike

\* Requests that only read, links, and calls that break off.
LEMMA AddOnLinks ==
    ASSUME AddOnInv, NEW o \in Officers,
           \/ \E g \in GrantIds : RevokeAddOn(o, g)
           \/ \E l \in Licences, p \in Licences \cup {NoLicence} : SetParent(o, l, p)
           \/ WriteParent(o) \/ MatterFails(o)
    PROVE  AddOnInv'
<1>1. ASSUME NEW g \in GrantIds, RevokeAddOn(o, g) PROVE AddOnInv'
  <2> PICK l : l = grants[g].licence
    OBVIOUS
  <2>1. /\ grants[g] # NoGrant /\ l \in Licences
        /\ Matter(o, "revoke", l, g)
        /\ UNCHANGED <<owner, features, inForce, parent, grants, raced, edited>>
    BY <1>1 DEF RevokeAddOn, NoGrant, AddOnInv, AddOnTypeOK
  <2>2. /\ officer' \in [Officers -> [step : {"idle", "grant", "revoke", "link"},
                                      licence : Licences \cup {NoLicence},
                                      other : Licences \cup GrantIds \cup {NoLicence}]]
        /\ officer'[o].step = "revoke" /\ officer'[o].licence = l /\ officer'[o].other = g
        /\ \A q \in Officers \ {o} : officer'[q] = officer[q]
        /\ \A k \in Licences : Granting(k)' = Granting(k)
    BY <2>1, MatterStarts DEF AddOnInv
  <2>3. MattersFit'
    BY <2>1, <2>2 DEF AddOnInv, MattersFit
  <2>4. OneGrant' /\ CheckedStands'
    BY <2>1, <2>2 DEF AddOnInv, OneGrant, CheckedStands, ActiveGrants, MayCarry
  <2> QED BY <2>1, <2>2, <2>3, <2>4 DEF AddOnInv, AddOnTypeOK, LinkedAlike
<1>2. ASSUME NEW l \in Licences, NEW p \in Licences \cup {NoLicence}, SetParent(o, l, p)
      PROVE AddOnInv'
  <2>1. /\ p # NoLicence => owner[p] = owner[l]
        /\ Matter(o, "link", l, p)
        /\ UNCHANGED <<owner, features, inForce, parent, grants, raced, edited>>
    BY <1>2 DEF SetParent, MayParent
  <2>2. /\ officer' \in [Officers -> [step : {"idle", "grant", "revoke", "link"},
                                      licence : Licences \cup {NoLicence},
                                      other : Licences \cup GrantIds \cup {NoLicence}]]
        /\ officer'[o].step = "link" /\ officer'[o].licence = l /\ officer'[o].other = p
        /\ \A q \in Officers \ {o} : officer'[q] = officer[q]
        /\ \A k \in Licences : Granting(k)' = Granting(k)
    BY <2>1, MatterStarts DEF AddOnInv
  <2>3. MattersFit'
    BY <2>1, <2>2 DEF AddOnInv, MattersFit
  <2>4. OneGrant' /\ CheckedStands'
    BY <2>1, <2>2 DEF AddOnInv, OneGrant, CheckedStands, ActiveGrants, MayCarry
  <2> QED BY <2>1, <2>2, <2>3, <2>4 DEF AddOnInv, AddOnTypeOK, LinkedAlike
<1>3. ASSUME WriteParent(o) \/ MatterFails(o) PROVE AddOnInv'
  <2>1. /\ MatterDone(o) /\ UNCHANGED <<owner, features, inForce, grants, raced, edited>>
        /\ parent' \in [Licences -> Licences \cup {NoLicence}]
        /\ LinkedAlike'
    <3>1. CASE MatterFails(o)
      BY <3>1 DEF MatterFails, AddOnInv, AddOnTypeOK, LinkedAlike
    <3>2. CASE WriteParent(o)
      <4> PICK l, p : l = officer[o].licence /\ p = officer[o].other
        OBVIOUS
      <4>1. /\ l \in Licences /\ p \in Licences \cup {NoLicence}
            /\ p # NoLicence => owner[p] = owner[l]
            /\ officer[o].step = "link" /\ parent' = [parent EXCEPT ![l] = p]
            /\ MatterDone(o) /\ UNCHANGED <<owner, features, inForce, grants, raced, edited>>
        BY <3>2 DEF WriteParent, AddOnInv, MattersFit
      <4> QED BY <4>1 DEF AddOnInv, AddOnTypeOK, LinkedAlike
    <3> QED BY <1>3, <3>1, <3>2
  <2>2. /\ officer' \in [Officers -> [step : {"idle", "grant", "revoke", "link"},
                                      licence : Licences \cup {NoLicence},
                                      other : Licences \cup GrantIds \cup {NoLicence}]]
        /\ officer'[o].step = "idle"
        /\ \A q \in Officers \ {o} : officer'[q] = officer[q]
        /\ \A k \in Licences : Granting(k)' = Granting(k) \ {o}
    BY <2>1, MatterEnds DEF AddOnInv
  <2>3. MattersFit'
    BY <2>1, <2>2 DEF AddOnInv, MattersFit
  <2>4. OneGrant' /\ CheckedStands'
    BY <2>1, <2>2 DEF AddOnInv, OneGrant, CheckedStands, ActiveGrants, MayCarry
  <2> QED BY <2>1, <2>2, <2>3, <2>4 DEF AddOnInv, AddOnTypeOK
<1> QED BY <1>1, <1>2, <1>3

\* An edited product is excused, and time takes grants away.
LEMMA AddOnChanges ==
    ASSUME AddOnInv,
           \/ \E l \in Licences : ChangeStanding(l) \/ \E kind \in ProductKinds : EditProduct(l, kind)
           \/ \E g \in GrantIds : GrantExpires(g)
    PROVE  AddOnInv'
<1>1. ASSUME NEW l \in Licences, ChangeStanding(l) PROVE AddOnInv'
  BY <1>1 DEF ChangeStanding, AddOnInv, AddOnTypeOK, MattersFit, OneGrant, CheckedStands, LinkedAlike,
     ActiveGrants, Granting, MayCarry
<1>2. ASSUME NEW l \in Licences, NEW kind \in ProductKinds, EditProduct(l, kind) PROVE AddOnInv'
  <2>1. /\ features' = [features EXCEPT ![l] = kind] /\ edited' = edited \cup {l}
        /\ UNCHANGED <<owner, inForce, parent, grants, officer, raced>>
    BY <1>2 DEF EditProduct
  <2>2. CheckedStands'
    <3>1. \A k \in Licences \ edited' : features'[k] = features[k] /\ k \notin edited
      BY <2>1 DEF AddOnInv, AddOnTypeOK
    <3> QED BY <2>1, <3>1 DEF AddOnInv, CheckedStands, ActiveGrants, Granting, MayCarry
  <2>3. AddOnTypeOK'
    BY <2>1 DEF AddOnInv, AddOnTypeOK
  <2> QED BY <2>1, <2>2, <2>3 DEF AddOnInv, MattersFit, OneGrant, LinkedAlike, ActiveGrants, Granting
<1>3. ASSUME NEW g \in GrantIds, GrantExpires(g) PROVE AddOnInv'
  <2> PICK l : l = grants[g].licence
    OBVIOUS
  <2>1. /\ grants[g] \in [licence : Licences, state : {"active", "expired", "revoked"}]
        /\ grants' = [grants EXCEPT ![g].state = "expired"]
        /\ UNCHANGED <<owner, features, inForce, parent, officer, raced, edited>>
    BY <1>3 DEF GrantExpires, NoGrant, AddOnInv, AddOnTypeOK
  <2>2. /\ [grants[g] EXCEPT !.state = "expired"] \in [licence : Licences, state : {"active", "expired", "revoked"}]
        /\ [grants[g] EXCEPT !.state = "expired"].licence = l
        /\ [grants[g] EXCEPT !.state = "expired"].state = "expired"
        /\ [grants[g] EXCEPT !.state = "expired"] # NoGrant
    BY <2>1 DEF NoGrant
  <2>3. /\ grants' \in [GrantIds -> {NoGrant} \cup [licence : Licences, state : {"active", "expired", "revoked"}]]
        /\ grants'[g] # NoGrant /\ grants'[g].licence = l /\ grants'[g].state = "expired"
        /\ \A k \in GrantIds \ {g} : grants'[k] = grants[k]
    BY <2>1, <2>2 DEF AddOnInv, AddOnTypeOK
  <2>4. \A k \in Licences : /\ ActiveGrants(k)' = ActiveGrants(k) \ {g} /\ MayCarry(k)' = MayCarry(k)
                            /\ Granting(k)' = Granting(k)
    BY <2>1, <2>3 DEF ActiveGrants, MayCarry, Granting
  <2>5. AddOnTypeOK' /\ MattersFit'
    BY <2>1, <2>3 DEF AddOnInv, AddOnTypeOK, MattersFit
  <2> QED BY <2>1, <2>4, <2>5 DEF AddOnInv, OneGrant, CheckedStands, LinkedAlike
<1> QED BY <1>1, <1>2, <1>3

LEMMA AddOnKept == AddOnInv /\ [AddOnNext]_addOnVars => AddOnInv'
<1> SUFFICES ASSUME AddOnInv, [AddOnNext]_addOnVars PROVE AddOnInv'
  OBVIOUS
<1>1. CASE UNCHANGED addOnVars
  BY <1>1 DEF addOnVars, AddOnInv, AddOnTypeOK, MattersFit, OneGrant, CheckedStands, LinkedAlike,
     ActiveGrants, Granting, MayCarry
<1> QED BY <1>1, AddOnGrants, AddOnCreates, AddOnRevokes, AddOnLinks, AddOnChanges DEF AddOnNext

\* No licence carries the add-on that may not, or whose parent may not or is
\* another customer's, and none has two in force, but for products edited
\* afterwards and grants that raced.
THEOREM RightlyCarried == AddOnSpec => []CarriedByRight
<1>1. AddOnInv => CarriedByRight
  <2> SUFFICES ASSUME AddOnInv, NEW l \in Licences
               PROVE  /\ l \notin raced => Cardinality(ActiveGrants(l)) <= 1
                      /\ (Carries(l) /\ ({l, parent[l]} \cap edited = {})) =>
                           \/ MayCarry(l)
                           \/ parent[l] # NoLicence /\ MayCarry(parent[l]) /\ owner[parent[l]] = owner[l]
    BY DEF CarriedByRight
  <2>1. l \notin raced => Cardinality(ActiveGrants(l)) <= 1
    <3>1. CASE ActiveGrants(l) = {}
      BY <3>1, FS_EmptySet
    <3>2. ASSUME NEW g \in ActiveGrants(l), l \notin raced PROVE Cardinality(ActiveGrants(l)) <= 1
      <4>1. ActiveGrants(l) = {g}
        BY <3>2 DEF AddOnInv, OneGrant
      <4> QED BY <4>1, FS_Singleton
    <3> QED BY <3>1, <3>2
  <2>2. ASSUME Inherits(l), parent[l] \notin edited
        PROVE  parent[l] # NoLicence /\ MayCarry(parent[l]) /\ owner[parent[l]] = owner[l]
    BY <2>2, AddOnAssumption DEF Inherits, AddOnInv, AddOnTypeOK, CheckedStands, LinkedAlike
  <2> QED BY <2>1, <2>2 DEF Carries, AddOnInv, CheckedStands
<1> QED BY <1>1, AddOnKept, AddOnStart, PTL DEF AddOnSpec

-----------------------------------------------------------------------------
(* Certificates. *)

\* As long as no authority was stored over another, all that know one know the
\* one that is stored.
OneAuthority ==
    ~crossed =>
      /\ \A p \in Processes : cached[p] # NoAuthority => cached[p] = secret
      /\ \A c \in Calls : demand[c].step \in {"keep", "sign", "hand", "collect", "send"} =>
           demand[c].authority = secret /\ secret # NoAuthority
      /\ \A s \in Serials : Row(s) => ledger[s].signer = secret /\ secret # NoAuthority

\* What a call has yet to store or to keep is an authority, what it has yet to
\* hand out is in the ledger, and what it knew to be revoked still is.
DemandsFit ==
    \A c \in Calls :
      /\ demand[c].step \in {"store", "keep", "sign", "hand", "collect", "send"} =>
           demand[c].authority \in Authorities
      /\ demand[c].step \in {"load", "store", "keep"} =>
           demand[c].want \in {"sign", "collect"} /\ demand[c].process \in Processes
      /\ demand[c].step = "hand" => demand[c].serial \in Serials /\ Row(demand[c].serial)
      /\ demand[c].known \subseteq Revoked
      /\ demand[c].step = "send" =>
           \A s \in demand[c].known : ledger[s].expired \/ OnWire(s) \in demand[c].serials

\* What is held, and what was known to be revoked when the list was asked for.
ListFits ==
    /\ \A s \in held : Row(s)
    /\ list.known \subseteq Revoked
    /\ ~crossed => \A s \in list.known :
         ledger[s].expired \/ (OnWire(s) \in list.serials /\ list.signer = secret)

CertInv == CertTypeOK /\ OneAuthority /\ DemandsFit /\ ListFits

Demands == [step : {"idle", "load", "store", "keep", "sign", "hand", "collect", "send"},
            want : {"none", "sign", "collect"},
            process : Processes \cup {NoAuthority},
            authority : Authorities \cup {NoAuthority},
            serial : Serials \cup {NoAuthority},
            serials : SUBSET Wire, known : SUBSET Serials]

LEMMA CertStart == CertInit => CertInv
<1> SUFFICES ASSUME CertInit PROVE CertInv
  OBVIOUS
<1>1. \A s \in Serials : ~Row(s)
  BY DEF CertInit, Row
<1>2. NoDemand \in Demands /\ NoDemand.step = "idle" /\ NoDemand.known = {}
  BY DEF NoDemand, Demands
<1>3. NoList \in Lists /\ NoList.known = {}
  BY DEF NoList, Lists
<1>4. Unsigned \in [signer : Authorities \cup {NoAuthority}, revoked : BOOLEAN, expired : BOOLEAN]
  BY DEF Unsigned
<1>5. CertTypeOK
  <2>1. 0 \in 0 .. MaxGenerated
    BY CertificateAssumption
  <2>2. demand \in [Calls -> Demands]
    BY <1>2 DEF CertInit
  <2>3. ledger \in [Serials -> [signer : Authorities \cup {NoAuthority}, revoked : BOOLEAN, expired : BOOLEAN]]
    BY <1>4 DEF CertInit
  <2> QED BY <1>3, <2>1, <2>2, <2>3 DEF CertInit, CertTypeOK, Demands
<1>6. OneAuthority /\ DemandsFit /\ ListFits
  BY <1>1, <1>2, <1>3 DEF CertInit, OneAuthority, DemandsFit, ListFits
<1> QED BY <1>5, <1>6 DEF CertInv

\* What is revoked has a row.
LEMMA RevokedHaveRows == \A s \in Serials : s \in Revoked => Row(s)
BY DEF Revoked, Row, Unsigned

LEMMA CallGoesOn ==
    ASSUME CertTypeOK, NEW c \in Calls, NEW d \in Demands, Ahead(c, d)
    PROVE  /\ demand' \in [Calls -> Demands] /\ demand'[c] = d
           /\ \A b \in Calls \ {c} : demand'[b] = demand[b]
BY DEF CertTypeOK, Ahead, Demands

\* A call moves on and nobody else notices.
LEMMA CertCall ==
    ASSUME CertInv, NEW c \in Calls, NEW d \in Demands, Ahead(c, d),
           UNCHANGED <<secret, ledger, crossed>>,
           drawn' \in 0 .. MaxGenerated,
           cached' \in [Processes -> Authorities \cup {NoAuthority}],
           \A p \in Processes : cached'[p] = cached[p] \/ cached'[p] = NoAuthority
                                \/ (cached'[p] = secret \/ crossed),
           held' \in SUBSET Serials, \A s \in held' : Row(s),
           list' \in Lists,
           list' = list \/ (/\ list'.known \subseteq Revoked
                            /\ ~crossed => \A s \in list'.known :
                                 ledger[s].expired \/ (OnWire(s) \in list'.serials /\ list'.signer = secret)),
           d.step \in {"keep", "sign", "hand", "collect", "send"} =>
             crossed \/ (d.authority = secret /\ secret # NoAuthority),
           d.step \in {"store", "keep", "sign", "hand", "collect", "send"} => d.authority \in Authorities,
           d.step \in {"load", "store", "keep"} => d.want \in {"sign", "collect"} /\ d.process \in Processes,
           d.step = "hand" => d.serial \in Serials /\ Row(d.serial),
           d.known \subseteq Revoked,
           d.step = "send" => \A s \in d.known : ledger[s].expired \/ OnWire(s) \in d.serials
    PROVE  CertInv'
<1>1. /\ demand' \in [Calls -> Demands] /\ demand'[c] = d
      /\ \A b \in Calls \ {c} : demand'[b] = demand[b]
  BY CallGoesOn DEF CertInv
<1>2. CertTypeOK'
  BY <1>1 DEF CertInv, CertTypeOK, Demands
<1>3. OneAuthority'
  BY <1>1 DEF CertInv, OneAuthority, Row
<1>4. DemandsFit'
  BY <1>1 DEF CertInv, DemandsFit, Row, Revoked
<1>5. ListFits'
  BY DEF CertInv, ListFits, Row, Revoked
<1> QED BY <1>2, <1>3, <1>4, <1>5 DEF CertInv

LEMMA CertDemand ==
    ASSUME CertInv, NEW c \in Calls
    PROVE  demand[c] \in Demands
BY DEF CertInv, CertTypeOK, Demands

LEMMA CertLoads ==
    ASSUME CertInv, NEW c \in Calls,
           \/ \E p \in Processes, want \in {"sign", "collect"} : AskFor(c, p, want)
           \/ UseCached(c) \/ LoadSecret(c) \/ KeepBundle(c)
    PROVE  CertInv'
<1> PICK e : e = demand[c]
  OBVIOUS
<1>1. /\ e \in Demands
      /\ e.known \subseteq Revoked /\ held \in SUBSET Serials /\ \A s \in held : Row(s)
      /\ list \in Lists /\ drawn \in 0 .. MaxGenerated
      /\ cached \in [Processes -> Authorities \cup {NoAuthority}]
      /\ NoAuthority \notin Authorities
      /\ secret \in Authorities \cup {NoAuthority}
  BY CertDemand, CertificateAssumption DEF CertInv, DemandsFit, ListFits, CertTypeOK
<1>2. ASSUME NEW k \in Authorities, k = secret \/ crossed, k # NoAuthority, Loaded(c, k),
             e.step \in {"load", "keep"},
             UNCHANGED <<secret, ledger, held, list, crossed, drawn>>,
             cached' \in [Processes -> Authorities \cup {NoAuthority}],
             \A p \in Processes : cached'[p] = cached[p] \/ cached'[p] = k
      PROVE  CertInv'
  <2> PICK d : d = [e EXCEPT !.step = e.want, !.authority = k]
    OBVIOUS
  <2>1. e.want \in {"sign", "collect"}
    BY <1>2 DEF CertInv, DemandsFit
  <2>2. d \in Demands /\ d.step \in {"sign", "collect"} /\ d.authority = k /\ d.known = e.known
    BY <1>1, <1>2, <2>1 DEF Demands
  <2>3. Ahead(c, d)
    BY <1>2 DEF Loaded
  <2> QED BY <1>1, <1>2, <2>2, <2>3, CertCall
<1>3. ASSUME NEW p \in Processes, NEW want \in {"sign", "collect"}, AskFor(c, p, want) PROVE CertInv'
  <2> PICK d : d = [NoDemand EXCEPT !.step = "load", !.want = want, !.process = p, !.known = Revoked]
    OBVIOUS
  <2>1. /\ d \in Demands /\ d.step = "load" /\ d.want = want /\ d.process = p /\ d.known = Revoked
    BY DEF NoDemand, Demands, Revoked
  <2> QED BY <1>1, <1>3, <2>1, CertCall DEF AskFor
<1>4. CASE UseCached(c)
  <2>1. e.process \in Processes
    BY <1>4 DEF UseCached, CertInv, DemandsFit
  <2> QED BY <1>1, <1>2, <1>4, <2>1 DEF UseCached, CertInv, OneAuthority
<1>5. CASE LoadSecret(c) /\ secret # NoAuthority
  BY <1>1, <1>2, <1>5 DEF LoadSecret
<1>6. CASE LoadSecret(c) /\ secret = NoAuthority
  <2> PICK d : d = [e EXCEPT !.step = "store", !.authority = drawn']
    OBVIOUS
  <2>1. /\ drawn' \in Authorities /\ drawn' \in 0 .. MaxGenerated
        /\ e.step = "load" /\ e.want \in {"sign", "collect"} /\ e.process \in Processes
    BY <1>1, <1>6, CertificateAssumption DEF LoadSecret, Authorities, CertInv, DemandsFit
  <2>2. /\ d \in Demands /\ d.step = "store" /\ d.authority = drawn' /\ d.known = e.known
        /\ d.want = e.want /\ d.process = e.process
    BY <1>1, <2>1 DEF Demands
  <2> QED BY <1>1, <1>6, <2>1, <2>2, CertCall DEF LoadSecret
<1>7. CASE KeepBundle(c)
  <2>1. e.step = "keep" /\ e.authority \in Authorities /\ (e.authority = secret \/ crossed)
    BY <1>7 DEF KeepBundle, CertInv, DemandsFit, OneAuthority
  <2> QED BY <1>1, <1>2, <1>7, <2>1 DEF KeepBundle
<1> QED BY <1>3, <1>4, <1>5, <1>6, <1>7

\* The first authority that is stored finds nobody who knows another; a second
\* one crosses it.
LEMMA CertStores ==
    ASSUME CertInv, NEW c \in Calls, StoreSecret(c)
    PROVE  CertInv'
<1> PICK e : e = demand[c]
  OBVIOUS
<1> PICK d : d = [e EXCEPT !.step = "keep"]
  OBVIOUS
<1>1. /\ e \in Demands /\ e.step = "store" /\ e.authority \in Authorities /\ e.known \subseteq Revoked
      /\ e.want \in {"sign", "collect"} /\ e.process \in Processes
      /\ NoAuthority \notin Authorities
      /\ secret' = e.authority /\ crossed' = (crossed \/ secret # NoAuthority)
      /\ Ahead(c, d)
      /\ UNCHANGED <<cached, drawn, ledger, held, list>>
  BY CertDemand, CertificateAssumption DEF StoreSecret, CertInv, DemandsFit
<1>2. /\ d \in Demands /\ d.step = "keep" /\ d.authority = e.authority /\ d.known = e.known
      /\ d.want = e.want /\ d.process = e.process
  BY <1>1 DEF Demands
<1>3. /\ demand' \in [Calls -> Demands] /\ demand'[c] = d
      /\ \A b \in Calls \ {c} : demand'[b] = demand[b]
  BY <1>1, <1>2, CallGoesOn DEF CertInv
<1>4. CertTypeOK'
  BY <1>1, <1>3 DEF CertInv, CertTypeOK, Demands
<1>5. OneAuthority'
  BY <1>1, <1>2, <1>3 DEF CertInv, OneAuthority, Row
<1>6. DemandsFit'
  <2>1. Revoked' = Revoked /\ \A s : Row(s)' <=> Row(s)
    BY <1>1 DEF Revoked, Row
  <2> SUFFICES ASSUME NEW b \in Calls PROVE
      /\ demand'[b].step \in {"store", "keep", "sign", "hand", "collect", "send"} =>
           demand'[b].authority \in Authorities
      /\ demand'[b].step \in {"load", "store", "keep"} =>
           demand'[b].want \in {"sign", "collect"} /\ demand'[b].process \in Processes
      /\ demand'[b].step = "hand" => demand'[b].serial \in Serials /\ Row(demand'[b].serial)
      /\ demand'[b].known \subseteq Revoked
      /\ demand'[b].step = "send" =>
           \A s \in demand'[b].known : ledger[s].expired \/ OnWire(s) \in demand'[b].serials
    BY <1>1, <2>1 DEF DemandsFit
  <2>2. CASE b = c
    BY <1>1, <1>2, <1>3, <2>2
  <2>3. CASE b # c
    BY <1>3, <2>3 DEF CertInv, DemandsFit
  <2> QED BY <2>2, <2>3
<1>7. ListFits'
  <2>1. ~crossed' => list.known = {}
    BY <1>1, RevokedHaveRows DEF CertInv, ListFits, OneAuthority, Revoked
  <2> QED BY <1>1, <2>1 DEF CertInv, ListFits, Row, Revoked
<1> QED BY <1>4, <1>5, <1>6, <1>7 DEF CertInv

\* A row that has just been signed was nobody's before.
LEMMA CertSigns ==
    ASSUME CertInv, NEW c \in Calls, SignCsr(c)
    PROVE  CertInv'
<1> PICK e : e = demand[c]
  OBVIOUS
<1>1. /\ e \in Demands /\ e.step = "sign" /\ e.authority \in Authorities /\ e.known \subseteq Revoked
      /\ ~crossed => e.authority = secret /\ secret # NoAuthority
      /\ NoAuthority \notin Authorities
      /\ UNCHANGED <<secret, cached, drawn, held, list, crossed>>
  BY CertDemand, CertificateAssumption DEF SignCsr, CertInv, DemandsFit, OneAuthority
<1> PICK row : row = [Unsigned EXCEPT !.signer = e.authority]
  OBVIOUS
<1>2. PICK s \in Serials : /\ ~Row(s) /\ ledger' = [ledger EXCEPT ![s] = row]
                           /\ Ahead(c, [e EXCEPT !.step = "hand", !.serial = s])
  BY DEF SignCsr
<1> PICK d : d = [e EXCEPT !.step = "hand", !.serial = s]
  OBVIOUS
<1>3. d \in Demands /\ d.step = "hand" /\ d.authority = e.authority /\ d.known = e.known /\ d.serial = s
  BY <1>1 DEF Demands
<1>4. /\ demand' \in [Calls -> Demands] /\ demand'[c] = d
      /\ \A b \in Calls \ {c} : demand'[b] = demand[b]
  BY <1>2, <1>3, CallGoesOn DEF CertInv
<1>5. /\ row \in [signer : Authorities \cup {NoAuthority}, revoked : BOOLEAN, expired : BOOLEAN]
      /\ row.signer = e.authority /\ ~row.revoked /\ row # Unsigned /\ ~ledger[s].revoked
  <2>1. Unsigned \in [signer : Authorities \cup {NoAuthority}, revoked : BOOLEAN, expired : BOOLEAN]
        /\ Unsigned.signer = NoAuthority /\ Unsigned.revoked = FALSE
    BY DEF Unsigned
  <2>2. row.signer = e.authority /\ row.revoked = FALSE
    BY DEF Unsigned
  <2>3. row \in [signer : Authorities \cup {NoAuthority}, revoked : BOOLEAN, expired : BOOLEAN]
    BY <1>1 DEF Unsigned
  <2> QED BY <1>1, <1>2, <2>1, <2>2, <2>3 DEF Row
<1>6. /\ ledger' \in [Serials -> [signer : Authorities \cup {NoAuthority}, revoked : BOOLEAN, expired : BOOLEAN]]
      /\ ledger'[s] = row /\ \A t \in Serials \ {s} : ledger'[t] = ledger[t]
  BY <1>2, <1>5 DEF CertInv, CertTypeOK
<1>7. Revoked' = Revoked /\ s \notin Revoked /\ \A t \in Serials : Row(t) => Row(t)'
  BY <1>2, <1>5, <1>6 DEF Revoked, Row
<1>8. CertTypeOK'
  BY <1>1, <1>4, <1>6 DEF CertInv, CertTypeOK, Demands
<1>9. OneAuthority'
  <2>1. ASSUME ~crossed, NEW t \in Serials, Row(t)'
        PROVE  ledger'[t].signer = secret /\ secret # NoAuthority
    BY <1>1, <1>5, <1>6, <2>1 DEF CertInv, OneAuthority, Row
  <2>2. ASSUME ~crossed, NEW b \in Calls,
               demand'[b].step \in {"keep", "sign", "hand", "collect", "send"}
        PROVE  demand'[b].authority = secret /\ secret # NoAuthority
    <3>1. CASE b = c
      BY <1>1, <1>3, <1>4, <2>2, <3>1
    <3>2. CASE b # c
      <4>1. demand'[b] = demand[b]
        BY <1>4, <3>2
      <4> QED BY <1>1, <2>2, <4>1 DEF CertInv, OneAuthority
    <3> QED BY <3>1, <3>2
  <2> QED BY <1>1, <2>1, <2>2 DEF CertInv, OneAuthority
<1>10. DemandsFit'
  <2>1. \A t \in Revoked : ledger'[t] = ledger[t]
    BY <1>6, <1>7 DEF Revoked
  <2>2. Row(s)' /\ \A t \in Serials : Row(t) => Row(t)'
    BY <1>5, <1>6, <1>7 DEF Row
  <2> SUFFICES ASSUME NEW b \in Calls PROVE
      /\ demand'[b].step \in {"store", "keep", "sign", "hand", "collect", "send"} =>
           demand'[b].authority \in Authorities
      /\ demand'[b].step \in {"load", "store", "keep"} =>
           demand'[b].want \in {"sign", "collect"} /\ demand'[b].process \in Processes
      /\ demand'[b].step = "hand" => demand'[b].serial \in Serials /\ (Row(demand[b].serial))'
      /\ demand'[b].known \subseteq Revoked
      /\ demand'[b].step = "send" =>
           \A t \in demand'[b].known : ledger[t].expired \/ OnWire(t) \in demand'[b].serials
    BY <1>7, <2>1 DEF DemandsFit
  <2>3. CASE b = c
    BY <1>1, <1>3, <1>4, <2>2, <2>3
  <2>4. CASE b # c
    BY <1>4, <2>2, <2>4 DEF CertInv, DemandsFit
  <2> QED BY <2>3, <2>4
<1>11. ListFits'
  <2>1. \A t \in Revoked : ledger'[t] = ledger[t]
    BY <1>6, <1>7 DEF Revoked
  <2>2. held \subseteq Serials
    BY DEF CertInv, CertTypeOK
  <2> QED BY <1>1, <1>7, <2>1, <2>2 DEF CertInv, ListFits
<1> QED BY <1>8, <1>9, <1>10, <1>11 DEF CertInv

LEMMA CertAnswers ==
    ASSUME CertInv, NEW c \in Calls, HandOut(c) \/ BuildCrl(c) \/ SendCrl(c) \/ CallBreaks(c)
    PROVE  CertInv'
<1> PICK e : e = demand[c]
  OBVIOUS
<1>1. /\ e \in Demands
      /\ e.known \subseteq Revoked /\ held \in SUBSET Serials /\ \A s \in held : Row(s)
      /\ list \in Lists /\ drawn \in 0 .. MaxGenerated
      /\ cached \in [Processes -> Authorities \cup {NoAuthority}]
      /\ NoDemand \in Demands /\ NoDemand.step = "idle" /\ NoDemand.known = {}
  BY CertDemand DEF CertInv, DemandsFit, ListFits, CertTypeOK, NoDemand, Demands
<1>2. CASE HandOut(c)
  <2>1. e.serial \in Serials /\ Row(e.serial)
    BY <1>2 DEF HandOut, CertInv, DemandsFit
  <2> QED BY <1>1, <1>2, <2>1, CertCall DEF HandOut, CallOver
<1>3. CASE BuildCrl(c)
  <2> PICK ws : ws = {OnWire(s) : s \in OnList}
    OBVIOUS
  <2> PICK d : d = [e EXCEPT !.step = "send", !.serials = ws]
    OBVIOUS
  <2>1. /\ e.step = "collect" /\ e.authority \in Authorities
        /\ ~crossed => e.authority = secret /\ secret # NoAuthority
        /\ OnList \in SUBSET Serials /\ \A s \in Revoked : ledger[s].expired \/ s \in OnList
    BY <1>3 DEF BuildCrl, CertInv, DemandsFit, OneAuthority, OnList, Revoked
  <2>2. ws \in SUBSET Wire /\ \A s \in Revoked : ledger[s].expired \/ OnWire(s) \in ws
    BY <2>1 DEF Wire
  <2>3. d \in Demands /\ d.step = "send" /\ d.authority = e.authority /\ d.known = e.known /\ d.serials = ws
    BY <1>1, <2>1, <2>2 DEF Demands
  <2> QED BY <1>1, <1>3, <2>1, <2>2, <2>3, CertCall DEF BuildCrl
<1>4. CASE SendCrl(c)
  <2> PICK l : l = [signer |-> e.authority, serials |-> e.serials, known |-> e.known]
    OBVIOUS
  <2>1. /\ l \in Lists /\ l.known = e.known /\ l.serials = e.serials /\ l.signer = e.authority
    BY <1>1 DEF Demands, Lists
  <2>2. /\ e.step = "send" /\ ~crossed => e.authority = secret
        /\ \A s \in e.known : ledger[s].expired \/ OnWire(s) \in e.serials
    BY <1>4 DEF SendCrl, CertInv, DemandsFit, OneAuthority
  <2> QED BY <1>1, <1>4, <2>1, <2>2, CertCall DEF SendCrl, CallOver
<1>5. CASE CallBreaks(c)
  BY <1>1, <1>5, CertCall DEF CallBreaks, CallOver
<1> QED BY <1>2, <1>3, <1>4, <1>5

LEMMA CertRestarts ==
    ASSUME CertInv, (\E p \in Processes : RestartProcess(p)) \/ ListLapses
    PROVE  CertInv'
<1>1. ASSUME NEW p \in Processes, RestartProcess(p) PROVE CertInv'
  <2>1. NoDemand \in Demands /\ NoDemand.step = "idle" /\ NoDemand.known = {}
    BY DEF NoDemand, Demands
  <2>2. /\ UNCHANGED <<secret, drawn, ledger, held, list, crossed>>
        /\ cached' \in [Processes -> Authorities \cup {NoAuthority}]
        /\ \A q \in Processes : cached'[q] = cached[q] \/ cached'[q] = NoAuthority
    BY <1>1 DEF RestartProcess, CertInv, CertTypeOK
  <2>3. /\ demand' \in [Calls -> Demands]
        /\ \A c \in Calls : demand'[c] = demand[c] \/ demand'[c] = NoDemand
    BY <1>1, <2>1, CertDemand DEF RestartProcess
  <2>4. CertTypeOK'
    BY <2>2, <2>3 DEF CertInv, CertTypeOK, Demands
  <2>5. OneAuthority' /\ ListFits'
    BY <2>1, <2>2, <2>3 DEF CertInv, OneAuthority, ListFits, Row, Revoked
  <2>6. DemandsFit'
    BY <2>1, <2>2, <2>3 DEF CertInv, DemandsFit, Row, Revoked
  <2> QED BY <2>4, <2>5, <2>6 DEF CertInv
<1>2. CASE ListLapses
  BY <1>2 DEF ListLapses, CertInv, CertTypeOK, OneAuthority, DemandsFit, ListFits, Row, Revoked, NoList, Lists
<1> QED BY <1>1, <1>2

\* Who signed a certificate does not change, nor that it is revoked or expired.
LEMMA CertAges ==
    ASSUME CertInv, NEW s \in Serials, RevokeAgentCertificate(s) \/ CertificateExpires(s)
    PROVE  CertInv'
<1>1. /\ Row(s) /\ UNCHANGED <<secret, cached, demand, drawn, held, list, crossed>>
      /\ ledger' \in [Serials -> [signer : Authorities \cup {NoAuthority}, revoked : BOOLEAN, expired : BOOLEAN]]
      /\ \A t \in Serials : /\ ledger'[t].signer = ledger[t].signer
                            /\ ledger[t].revoked => ledger'[t].revoked
                            /\ ledger[t].expired => ledger'[t].expired
                            /\ t # s => ledger'[t] = ledger[t]
      /\ ledger'[s].revoked \/ ledger'[s].expired
  <2>1. ledger[s] \in [signer : Authorities \cup {NoAuthority}, revoked : BOOLEAN, expired : BOOLEAN]
    BY DEF CertInv, CertTypeOK
  <2>2. CASE RevokeAgentCertificate(s)
    BY <2>1, <2>2 DEF RevokeAgentCertificate, CertInv, CertTypeOK
  <2>3. CASE CertificateExpires(s)
    BY <2>1, <2>3 DEF CertificateExpires, CertInv, CertTypeOK
  <2> QED BY <2>2, <2>3
<1>2. \A t \in Serials : Row(t)' <=> Row(t)
  <2>1. Unsigned.revoked = FALSE /\ Unsigned.expired = FALSE
    BY DEF Unsigned
  <2>2. Row(s)' /\ Row(s)
    BY <1>1, <2>1 DEF Row
  <2> QED BY <1>1, <2>2 DEF Row
<1>3. Revoked \subseteq Revoked' /\ Revoked \subseteq Serials
  BY <1>1 DEF Revoked
<1>4. CertTypeOK'
  BY <1>1 DEF CertInv, CertTypeOK
<1>5. OneAuthority'
  BY <1>1, <1>2 DEF CertInv, OneAuthority
<1>6. DemandsFit'
  BY <1>1, <1>2, <1>3 DEF CertInv, DemandsFit
<1>7. ListFits'
  BY <1>1, <1>2, <1>3 DEF CertInv, CertTypeOK, ListFits
<1> QED BY <1>4, <1>5, <1>6, <1>7 DEF CertInv

LEMMA CertKept == CertInv /\ [CertNext]_certVars => CertInv'
<1> SUFFICES ASSUME CertInv, [CertNext]_certVars PROVE CertInv'
  OBVIOUS
<1>1. CASE UNCHANGED certVars
  BY <1>1 DEF certVars, CertInv, CertTypeOK, OneAuthority, DemandsFit, ListFits, Row, Revoked
<1> QED BY <1>1, CertLoads, CertStores, CertSigns, CertAnswers, CertRestarts, CertAges DEF CertNext

\* Unless two processes each stored an authority of their own, what agents hold
\* was signed by the one in force, and of what was revoked before the Cortex asked
\* for its list exactly the certificates without a padded serial are refused.
THEOREM RevocationHolds == CertSpec => []RevokedIsRefused
<1>1. CertInv => RevokedIsRefused
  <2> SUFFICES ASSUME CertInv PROVE RevokedIsRefused
    OBVIOUS
  <2>1. /\ \A s \in held : s \in Serials /\ Row(s)
        /\ list.known \subseteq Serials /\ \A s \in list.known : Row(s)
    BY RevokedHaveRows DEF CertInv, CertTypeOK, ListFits, Revoked
  <2>2. ASSUME ~crossed, NEW s \in list.known, ~ledger[s].expired
        PROVE  Refused(s) <=> s \notin Padded
    <3>1. OnWire(s) \in list.serials /\ list.signer = ledger[s].signer /\ s \in Serials
      BY <2>1, <2>2 DEF CertInv, OneAuthority, ListFits
    <3>2. Refused(s) <=> s \in list.serials
      BY <3>1 DEF Refused
    <3>3. list.serials \subseteq Wire
      BY DEF CertInv, CertTypeOK, Lists
    <3>4. ASSUME s \in Padded PROVE s \notin Wire
      BY <3>1, <3>4, CertificateAssumption DEF Wire, OnWire
    <3> QED BY <3>1, <3>2, <3>3, <3>4 DEF OnWire
  <2> QED BY <2>1, <2>2 DEF CertInv, OneAuthority, RevokedIsRefused
<1> QED BY <1>1, CertKept, CertStart, PTL DEF CertSpec

-----------------------------------------------------------------------------
(* The catalogue. *)

ManagerCalls == [at : {"off", "product", "price", "annual", "row", "metered",
                  "archive", "remove", "tester", "issue"},
            product : Goods \cup {NoGoods}, copy : Copies \cup {NoGoods},
            price : Charges, annual : BOOLEAN, request : Requests]

\* A handler at work has a product; one that creates it has it for itself.
ManagersFit ==
    \A h \in Managers :
      /\ manager[h].at = "off" => manager[h] = Off
      /\ manager[h].at # "off" => Of(h) \in Goods
      /\ manager[h].at \in {"tester", "issue"} => manager[h].copy \in Copies
      /\ manager[h].at \in {"product", "price", "annual", "row"} =>
           ~Listed(Of(h)) /\ \A g \in Managers \ {h} : Of(g) # Of(h)

\* What Stripe keeps of a product that is being created or deleted.
ShelfFollows ==
    \A h \in Managers :
      /\ manager[h].at = "product" => manager[h].request.stripe /\ shelf[Of(h)] = "none"
      /\ manager[h].at \in {"price", "annual"} =>
           manager[h].request.stripe /\ shelf[Of(h)] = "active"
      /\ manager[h].at = "row" =>
           shelf[Of(h)] = IF manager[h].request.stripe THEN "active" ELSE "none"
      /\ manager[h].at \in {"annual", "row"} /\ manager[h].request.stripe =>
           (manager[h].request.metered <=> manager[h].price = "metered")
      /\ manager[h].at = "archive" /\ Listed(Of(h)) => goods[Of(h)].linked
      /\ manager[h].at = "remove" /\ Of(h) \notin adrift => shelf[Of(h)] # "active"

\* What is on sale; a handler that deletes a product has taken it off the shelf.
OnSale ==
    \A p \in Goods :
      /\ Listed(p) /\ ~goods[p].linked => shelf[p] = "none"
      /\ p \notin adrift =>
           /\ Listed(p) /\ goods[p].linked
              /\ (\A h \in Managers : Of(h) = p => manager[h].at # "remove") => shelf[p] = "active"
           /\ shelf[p] = "active" /\ Creating(p) = {} => Listed(p)
      /\ p \notin typed /\ Listed(p) /\ goods[p].linked => (goods[p].metered <=> goods[p].price = "metered")

\* Whoever deletes a product has found no licence of it: there are only those
\* that were issued since.
CopiesStay ==
    /\ \A l \in sales \ doomed : copies[l] # NoGoods /\ Listed(copies[l])
    /\ \A h \in Managers : manager[h].at \in {"archive", "remove"} =>
         \A l \in Copies : copies[l] = Of(h) => l \in doomed

CatalogueInv == CatalogueTypeOK /\ ManagersFit /\ ShelfFollows /\ OnSale /\ CopiesStay

LEMMA OffIsACall == Off \in ManagerCalls /\ Off.at = "off" /\ Off.product = NoGoods
BY DEF Off, ManagerCalls, Charges, Requests

LEMMA CatalogueStart == CatalogueInit => CatalogueInv
<1> SUFFICES ASSUME CatalogueInit PROVE CatalogueInv
  OBVIOUS
<1>1. \A h \in Managers : manager[h] = Off /\ Of(h) = NoGoods
  BY OffIsACall DEF CatalogueInit, Of
<1>2. CatalogueTypeOK
  BY OffIsACall DEF CatalogueInit, CatalogueTypeOK, ManagerCalls
<1>3. \A p \in Goods : ~Listed(p)
  BY DEF CatalogueInit, Listed
<1> QED BY <1>1, <1>2, <1>3, OffIsACall DEF CatalogueInit, CatalogueInv, ManagersFit, ShelfFollows, OnSale, CopiesStay

LEMMA ManagerMoves ==
    ASSUME CatalogueTypeOK, NEW h \in Managers, NEW c \in ManagerCalls, manager' = [manager EXCEPT ![h] = c]
    PROVE  /\ manager' \in [Managers -> ManagerCalls] /\ manager'[h] = c /\ Of(h)' = c.product
           /\ \A g \in Managers \ {h} : manager'[g] = manager[g] /\ Of(g)' = Of(g)
BY DEF CatalogueTypeOK, ManagerCalls, Of

LEMMA ManagerCall ==
    ASSUME CatalogueInv, NEW h \in Managers
    PROVE  /\ manager[h] \in ManagerCalls /\ manager[h].request \in Requests
           /\ manager[h].price \in Charges /\ manager[h].annual \in BOOLEAN
BY DEF CatalogueInv, CatalogueTypeOK, ManagerCalls

\* A row of the catalogue that is listed.
LEMMA ListedRows ==
    ASSUME CatalogueInv, NEW p \in Goods
    PROVE  /\ goods[p] \in {Unlisted} \cup [linked : BOOLEAN, price : Charges, annual : BOOLEAN, metered : BOOLEAN]
           /\ Listed(p) => goods[p] \in [linked : BOOLEAN, price : Charges, annual : BOOLEAN, metered : BOOLEAN]
BY DEF CatalogueInv, CatalogueTypeOK, Listed

LEMMA RowsAreListed ==
    \A row \in [linked : BOOLEAN, price : Charges, annual : BOOLEAN, metered : BOOLEAN] : row # Unlisted
BY DEF Unlisted, Charges

\* A handler moves on to a call that creates nothing and deletes nothing, or
\* finds a product free of licences, and the tables stay.
LEMMA ManagerReads ==
    ASSUME CatalogueInv, NEW h \in Managers, NEW c \in ManagerCalls, manager' = [manager EXCEPT ![h] = c],
           UNCHANGED <<goods, shelf, copies, sales, doomed, adrift, typed>>, tester' \in BOOLEAN,
           \/ /\ c.at \in {"metered", "tester", "issue"} /\ c.product \in Goods /\ c.copy \in Copies \cup {NoGoods}
              /\ c.at \in {"tester", "issue"} => c.copy \in Copies
              /\ Listed(c.product) \/ Of(h) = c.product
              /\ manager[h].at \in {"off", "tester"}
           \/ /\ c.at \in {"archive", "remove"} /\ c.product \in Goods /\ Unlicensed(c.product)
              /\ manager[h].at = "off"
              /\ IF goods[c.product].linked THEN c.at = "archive" ELSE c.at = "remove"
    PROVE  CatalogueInv'
<1>1. /\ manager' \in [Managers -> ManagerCalls] /\ manager'[h] = c /\ Of(h)' = c.product
      /\ \A g \in Managers \ {h} : manager'[g] = manager[g] /\ Of(g)' = Of(g)
  BY ManagerMoves DEF CatalogueInv
<1>2. \A p : Listed(p)' <=> Listed(p)
  BY DEF Listed
<1>3. CatalogueTypeOK'
  BY <1>1 DEF CatalogueInv, CatalogueTypeOK, ManagerCalls
<1>4. \A g \in Managers \ {h} : manager[g].at \in {"product", "price", "annual", "row"} => Of(g) # c.product
  BY DEF CatalogueInv, ManagersFit, Unlicensed
<1>5. ManagersFit'
  BY <1>1, <1>2, <1>4 DEF CatalogueInv, ManagersFit
<1>6. ShelfFollows'
  BY <1>1, <1>2 DEF CatalogueInv, ShelfFollows, OnSale, Unlicensed
<1>7. OnSale'
  <2>1. \A p \in Goods : Creating(p)' = {} => Creating(p) = {}
    BY <1>1 DEF Creating
  <2>2. \A g \in Managers : manager[g].at = "remove" => manager'[g].at = "remove" /\ Of(g)' = Of(g)
    BY <1>1
  <2>3. \A p \in Goods : (\A g \in Managers : Of(g)' = p => manager'[g].at # "remove")
                         => (\A g \in Managers : Of(g) = p => manager[g].at # "remove")
    BY <2>2
  <2> QED BY <1>2, <2>1, <2>3 DEF CatalogueInv, OnSale
<1>8. CopiesStay'
  BY <1>1, <1>2 DEF CatalogueInv, CopiesStay, Unlicensed
<1> QED BY <1>3, <1>5, <1>6, <1>7, <1>8 DEF CatalogueInv

\* The steps of a creation: only its product's shelf and row change, and
\* nobody else is at work on it.
LEMMA Creations ==
    ASSUME CatalogueInv, NEW h \in Managers, NEW c \in ManagerCalls, NEW p \in Goods,
           manager' = [manager EXCEPT ![h] = c], c.product = p, c.at \in {"product", "price", "annual", "row"},
           ~Listed(p), \A g \in Managers \ {h} : Of(g) # p,
           manager[h].at = "off" \/ (Of(h) = p /\ manager[h].at \in {"product", "price", "annual"}),
           UNCHANGED <<goods, copies, sales, tester, doomed, adrift, typed>>,
           shelf' = [shelf EXCEPT ![p] = IF c.at = "product" \/ ~c.request.stripe THEN "none" ELSE "active"],
           c.at # "row" => c.request.stripe,
           c.at \in {"annual", "row"} /\ c.request.stripe => (c.request.metered <=> c.price = "metered")
    PROVE  CatalogueInv'
<1>1. /\ manager' \in [Managers -> ManagerCalls] /\ manager'[h] = c /\ Of(h)' = p
      /\ \A g \in Managers \ {h} : manager'[g] = manager[g] /\ Of(g)' = Of(g)
  BY ManagerMoves DEF CatalogueInv
<1>2. /\ \A q : Listed(q)' <=> Listed(q)
      /\ shelf' \in [Goods -> {"none", "active", "archived"}]
      /\ shelf'[p] = IF c.at = "product" \/ ~c.request.stripe THEN "none" ELSE "active"
      /\ \A q \in Goods \ {p} : shelf'[q] = shelf[q]
  BY DEF Listed, CatalogueInv, CatalogueTypeOK
<1>3. CatalogueTypeOK'
  BY <1>1, <1>2 DEF CatalogueInv, CatalogueTypeOK, ManagerCalls
<1>4. ManagersFit'
  BY <1>1, <1>2 DEF CatalogueInv, ManagersFit
<1>5. ShelfFollows'
  <2>1. \A g \in Managers \ {h} : manager[g].at # "off" => Of(g) \in Goods \ {p}
    BY DEF CatalogueInv, ManagersFit
  <2> QED BY <1>1, <1>2, <2>1 DEF CatalogueInv, ShelfFollows
<1>6. OnSale'
  <2>1. h \in Creating(p)' /\ \A q \in Goods \ {p} : Creating(q) \subseteq Creating(q)'
    BY <1>1 DEF Creating
  <2> QED BY <1>1, <1>2, <2>1 DEF CatalogueInv, OnSale
<1>7. CopiesStay'
  BY <1>1, <1>2 DEF CatalogueInv, CopiesStay
<1> QED BY <1>3, <1>4, <1>5, <1>6, <1>7 DEF CatalogueInv

LEMMA CatalogueCreates ==
    ASSUME CatalogueInv, NEW h \in Managers,
           \/ \E p \in Goods : \E request \in Listings : CreateProduct(h, p, request)
           \/ MakeStripeProduct(h) \/ MakePrice(h) \/ MakeAnnualPrice(h)
    PROVE  CatalogueInv'
<1> PICK e, p : e = manager[h] /\ p = Of(h)
  OBVIOUS
<1>1. /\ e \in ManagerCalls /\ e.product = p /\ e.request \in Requests
      /\ shelf \in [Goods -> {"none", "active", "archived"}]
  BY ManagerCall DEF Of, CatalogueInv, CatalogueTypeOK
<1>2. ASSUME NEW q \in Goods, NEW request \in Listings, CreateProduct(h, q, request) PROVE CatalogueInv'
  <2> PICK c : c = [Off EXCEPT !.at = IF request.stripe THEN "product" ELSE "row",
                               !.product = q, !.request = request]
    OBVIOUS
  <2>1. request \in Requests /\ request.stripe \in BOOLEAN
    BY CatalogueAssumption DEF Requests
  <2>2. /\ c \in ManagerCalls /\ c.product = q /\ c.request = request
        /\ c.at = IF request.stripe THEN "product" ELSE "row"
    BY <2>1 DEF Off, ManagerCalls, Charges
  <2>3. /\ manager[h].at = "off" /\ manager' = [manager EXCEPT ![h] = c]
        /\ ~Listed(q) /\ shelf[q] = "none" /\ \A g \in Managers \ {h} : Of(g) # q
        /\ UNCHANGED <<goods, shelf, copies, sales, tester, doomed, adrift, typed>>
    BY <1>2, OffIsACall DEF CreateProduct, Takes
  <2>4. shelf' = [shelf EXCEPT ![q] = IF c.at = "product" \/ ~c.request.stripe THEN "none" ELSE "active"]
    BY <1>1, <2>1, <2>2, <2>3
  <2> QED BY <2>1, <2>2, <2>3, <2>4, Creations
<1>3. ASSUME e.at \in {"product", "price", "annual"}
      PROVE  /\ p \in Goods /\ ~Listed(p) /\ \A g \in Managers \ {h} : Of(g) # p
             /\ e.request.stripe /\ (e.at # "product" => shelf[p] = "active")
             /\ e.at = "annual" => (e.request.metered <=> e.price = "metered")
  BY <1>3 DEF CatalogueInv, ManagersFit, ShelfFollows
<1>4. CASE MakeStripeProduct(h)
  <2> PICK c : c = [e EXCEPT !.at = "price"]
    OBVIOUS
  <2>1. c \in ManagerCalls /\ c.product = p /\ c.request = e.request /\ c.at = "price"
    BY <1>1 DEF ManagerCalls
  <2> QED BY <1>3, <1>4, <2>1, Creations DEF MakeStripeProduct, Moves
<1>5. CASE MakePrice(h)
  <2> PICK c : c = [e EXCEPT !.at = IF AnnualDue(e.request) THEN "annual" ELSE "row",
                             !.price = PriceOf(e.request)]
    OBVIOUS
  <2>1. /\ c \in ManagerCalls /\ c.product = p /\ c.request = e.request /\ c.at \in {"annual", "row"}
        /\ c.price = PriceOf(e.request)
    BY <1>1, ZenonT(30) DEF ManagerCalls, PriceOf, Charges
  <2>2. e.request.metered <=> c.price = "metered"
    BY <2>1 DEF PriceOf
  <2>3. /\ e.at = "price" /\ manager' = [manager EXCEPT ![h] = c]
        /\ UNCHANGED <<goods, shelf, copies, sales, tester, doomed, adrift, typed>>
    BY <1>5 DEF MakePrice, Moves
  <2>4. shelf' = [shelf EXCEPT ![p] = "active"]
    BY <1>1, <1>3, <2>3
  <2> QED BY <1>3, <2>1, <2>2, <2>3, <2>4, Creations
<1>6. CASE MakeAnnualPrice(h)
  <2> PICK c : c = [e EXCEPT !.at = "row", !.annual = TRUE]
    OBVIOUS
  <2>1. c \in ManagerCalls /\ c.product = p /\ c.request = e.request /\ c.at = "row" /\ c.price = e.price
    BY <1>1 DEF ManagerCalls
  <2>2. /\ e.at = "annual" /\ manager' = [manager EXCEPT ![h] = c]
        /\ UNCHANGED <<goods, shelf, copies, sales, tester, doomed, adrift, typed>>
    BY <1>6 DEF MakeAnnualPrice, Moves
  <2>3. shelf' = [shelf EXCEPT ![p] = "active"]
    BY <1>1, <1>3, <2>2
  <2> QED BY <1>3, <2>1, <2>2, <2>3, Creations
<1> QED BY <1>2, <1>4, <1>5, <1>6

\* The row appears last: from then on the product is on sale.
LEMMA CatalogueInserts ==
    ASSUME CatalogueInv, NEW h \in Managers, InsertProduct(h)
    PROVE  CatalogueInv'
<1> PICK e, p : e = manager[h] /\ p = Of(h)
  OBVIOUS
<1> PICK row : row = [linked |-> e.request.stripe, price |-> e.price, annual |-> e.annual,
                      metered |-> e.request.metered]
  OBVIOUS
<1>1. /\ e.at = "row" /\ manager' = [manager EXCEPT ![h] = Off] /\ goods' = [goods EXCEPT ![p] = row]
      /\ UNCHANGED <<shelf, copies, sales, tester, doomed, adrift, typed>>
  BY DEF InsertProduct, Moves
<1>2. /\ p \in Goods /\ ~Listed(p) /\ \A g \in Managers \ {h} : Of(g) # p
      /\ shelf[p] = IF e.request.stripe THEN "active" ELSE "none"
      /\ e.request.stripe => (e.request.metered <=> e.price = "metered")
  BY <1>1 DEF CatalogueInv, ManagersFit, ShelfFollows
<1>3. /\ row \in [linked : BOOLEAN, price : Charges, annual : BOOLEAN, metered : BOOLEAN]
      /\ row.linked = e.request.stripe /\ row.price = e.price /\ row.metered = e.request.metered
  BY ManagerCall DEF CatalogueInv, Requests
<1>4. /\ goods' \in [Goods -> {Unlisted} \cup [linked : BOOLEAN, price : Charges, annual : BOOLEAN, metered : BOOLEAN]]
      /\ goods'[p] = row /\ Listed(p)'
      /\ \A q \in Goods \ {p} : goods'[q] = goods[q] /\ (Listed(q)' <=> Listed(q))
  BY <1>1, <1>2, <1>3, RowsAreListed DEF CatalogueInv, CatalogueTypeOK, Listed
<1>5. /\ manager' \in [Managers -> ManagerCalls] /\ manager'[h] = Off /\ Of(h)' = NoGoods
      /\ \A g \in Managers \ {h} : manager'[g] = manager[g] /\ Of(g)' = Of(g)
  BY <1>1, ManagerMoves, OffIsACall DEF CatalogueInv
<1>6. \A g \in Managers \ {h} : manager[g].at # "off" => Of(g) \in Goods \ {p}
  BY <1>2 DEF CatalogueInv, ManagersFit
<1>7. CatalogueTypeOK'
  BY <1>1, <1>4, <1>5 DEF CatalogueInv, CatalogueTypeOK, ManagerCalls
<1>8. ManagersFit'
  BY <1>1, <1>4, <1>5, <1>6, OffIsACall, CatalogueAssumption DEF CatalogueInv, ManagersFit
<1>9. ShelfFollows'
  BY <1>1, <1>4, <1>5, <1>6, OffIsACall DEF CatalogueInv, ShelfFollows
<1>10. OnSale'
  <2>1. \A q \in Goods \ {p} :
          /\ Creating(q) = Creating(q)'
          /\ (\A g \in Managers : Of(g)' = q => manager'[g].at # "remove")
             => (\A g \in Managers : Of(g) = q => manager[g].at # "remove")
    BY <1>1, <1>5, OffIsACall, CatalogueAssumption DEF Creating
  <2>2. e.request.stripe \in BOOLEAN
    BY ManagerCall DEF Requests
  <2> SUFFICES ASSUME NEW q \in Goods PROVE
        /\ Listed(q)' /\ ~goods'[q].linked => shelf[q] = "none"
        /\ q \notin adrift =>
             /\ Listed(q)' /\ goods'[q].linked
                /\ (\A g \in Managers : Of(g)' = q => manager'[g].at # "remove") => shelf[q] = "active"
             /\ shelf[q] = "active" /\ Creating(q)' = {} => Listed(q)'
        /\ q \notin typed /\ Listed(q)' /\ goods'[q].linked => (goods'[q].metered <=> goods'[q].price = "metered")
    BY <1>1 DEF OnSale
  <2>3. CASE q = p
    BY <1>2, <1>3, <1>4, <2>2, <2>3
  <2>4. CASE q # p
    BY <1>4, <2>1, <2>4 DEF CatalogueInv, OnSale
  <2> QED BY <2>3, <2>4
<1>11. CopiesStay'
  <2>1. \A l \in sales : copies[l] \in Goods \cup {NoGoods}
    BY DEF CatalogueInv, CatalogueTypeOK
  <2> QED BY <1>1, <1>4, <1>5, <1>6, <2>1, OffIsACall DEF CatalogueInv, CopiesStay
<1> QED BY <1>7, <1>8, <1>9, <1>10, <1>11 DEF CatalogueInv

LEMMA CatalogueReads ==
    ASSUME CatalogueInv, NEW h \in Managers,
           \/ \E p \in Goods : \/ AddMeteredPrice(h, p) \/ DeleteProduct(h, p)
                               \/ \E l \in Copies : FindTester(h, l, p)
           \/ CreateTester(h)
    PROVE  CatalogueInv'
<1>2. ASSUME NEW p \in Goods, AddMeteredPrice(h, p) PROVE CatalogueInv'
  <2> PICK c : c = [Off EXCEPT !.at = "metered", !.product = p]
    OBVIOUS
  <2>1. /\ c \in ManagerCalls /\ c.at = "metered" /\ c.product = p /\ c.copy = NoGoods
        /\ manager' = [manager EXCEPT ![h] = c] /\ manager[h].at = "off" /\ Listed(p)
        /\ UNCHANGED <<goods, shelf, copies, sales, tester, doomed, adrift, typed>>
    BY <1>2, OffIsACall DEF AddMeteredPrice, Takes, Off, ManagerCalls, Charges, Requests
  <2>2. tester' \in BOOLEAN
    BY <2>1 DEF CatalogueInv, CatalogueTypeOK
  <2> QED BY <2>1, <2>2, ManagerReads
<1>3. ASSUME NEW p \in Goods, DeleteProduct(h, p) PROVE CatalogueInv'
  <2> PICK c : c = [Off EXCEPT !.at = IF goods[p].linked THEN "archive" ELSE "remove", !.product = p]
    OBVIOUS
  <2>1. /\ c \in ManagerCalls /\ c.at = (IF goods[p].linked THEN "archive" ELSE "remove") /\ c.product = p
        /\ manager' = [manager EXCEPT ![h] = c] /\ manager[h].at = "off" /\ Unlicensed(p)
        /\ UNCHANGED <<goods, shelf, copies, sales, tester, doomed, adrift, typed>>
    BY <1>3, OffIsACall DEF DeleteProduct, Takes, Off, ManagerCalls, Charges, Requests
  <2>2. tester' \in BOOLEAN
    BY <2>1 DEF CatalogueInv, CatalogueTypeOK
  <2> QED BY <2>1, <2>2, ManagerReads
<1>4. ASSUME NEW p \in Goods, NEW l \in Copies, FindTester(h, l, p) PROVE CatalogueInv'
  <2> PICK c : c = [Off EXCEPT !.at = IF tester THEN "issue" ELSE "tester", !.product = p, !.copy = l]
    OBVIOUS
  <2>1. /\ c \in ManagerCalls /\ c.at \in {"tester", "issue"} /\ c.product = p /\ c.copy = l
        /\ manager' = [manager EXCEPT ![h] = c] /\ manager[h].at = "off" /\ Listed(p)
        /\ UNCHANGED <<goods, shelf, copies, sales, tester, doomed, adrift, typed>>
    BY <1>4, OffIsACall DEF FindTester, Takes, Off, ManagerCalls, Charges, Requests
  <2>2. tester' \in BOOLEAN
    BY <2>1 DEF CatalogueInv, CatalogueTypeOK
  <2> QED BY <2>1, <2>2, ManagerReads
<1>5. CASE CreateTester(h)
  <2> PICK e : e = manager[h]
    OBVIOUS
  <2> PICK c : c = [e EXCEPT !.at = "issue"]
    OBVIOUS
  <2>1. /\ e \in ManagerCalls /\ e.at = "tester" /\ e.product \in Goods /\ e.copy \in Copies
        /\ manager' = [manager EXCEPT ![h] = c] /\ tester' = TRUE
        /\ UNCHANGED <<goods, shelf, copies, sales, doomed, adrift, typed>>
    BY <1>5, ManagerCall DEF CreateTester, Moves, CatalogueInv, ManagersFit, Of
  <2>2. c \in ManagerCalls /\ c.at = "issue" /\ c.product = e.product /\ c.copy = e.copy
    BY <2>1 DEF ManagerCalls
  <2> QED BY <2>1, <2>2, ManagerReads DEF Of
<1> QED BY <1>2, <1>3, <1>4, <1>5

\* How a product is priced, by hand or with a metered price.
LEMMA CataloguePrices ==
    ASSUME CatalogueInv, NEW p \in Goods, Listed(p),
           UNCHANGED <<shelf, copies, sales, tester, doomed, adrift>>,
           NEW row \in [linked : BOOLEAN, price : Charges, annual : BOOLEAN, metered : BOOLEAN],
           goods' = [goods EXCEPT ![p] = row], row.linked = goods[p].linked,
           typed' \in SUBSET Goods, typed \ {p} \subseteq typed',
           p \in typed' \/ (row.metered <=> row.price = "metered"),
          \/ manager' = manager
           \/ \E h \in Managers : manager[h].at = "metered" /\ manager' = [manager EXCEPT ![h] = Off]
    PROVE  CatalogueInv'
<1>1. /\ goods' \in [Goods -> {Unlisted} \cup [linked : BOOLEAN, price : Charges, annual : BOOLEAN, metered : BOOLEAN]]
      /\ goods'[p] = row
      /\ \A q \in Goods \ {p} : goods'[q] = goods[q]
      /\ \A q \in Goods : (Listed(q)' <=> Listed(q)) /\ goods'[q].linked = goods[q].linked
  BY RowsAreListed DEF CatalogueInv, CatalogueTypeOK, Listed
<1>2. /\ manager' \in [Managers -> ManagerCalls]
      /\ \A g \in Managers : \/ manager'[g] = manager[g]
                             \/ manager'[g] = Off /\ manager[g].at = "metered"
  <2>1. manager \in [Managers -> ManagerCalls]
    BY DEF CatalogueInv, CatalogueTypeOK, ManagerCalls
  <2>2. CASE manager' = manager
    BY <2>1, <2>2
  <2>3. ASSUME NEW h \in Managers, manager[h].at = "metered", manager' = [manager EXCEPT ![h] = Off]
        PROVE  /\ manager' \in [Managers -> ManagerCalls]
               /\ \A g \in Managers : \/ manager'[g] = manager[g]
                                      \/ manager'[g] = Off /\ manager[g].at = "metered"
    BY <2>1, <2>3, OffIsACall
  <2> QED BY <2>2, <2>3
<1>3. \A g \in Managers : \/ manager'[g] = manager[g] /\ Of(g)' = Of(g)
                          \/ manager'[g] = Off /\ Of(g)' = NoGoods /\ manager[g].at = "metered"
  BY <1>2, OffIsACall DEF Of
<1>4. CatalogueTypeOK'
  BY <1>1, <1>2 DEF CatalogueInv, CatalogueTypeOK, ManagerCalls
<1>5. ManagersFit' /\ ShelfFollows'
  BY <1>1, <1>2, <1>3, OffIsACall, CatalogueAssumption DEF CatalogueInv, ManagersFit, ShelfFollows
<1>6. OnSale'
  <2>1. \A q \in Goods :
          /\ Creating(q)' = Creating(q)
          /\ (\A g \in Managers : Of(g)' = q => manager'[g].at # "remove")
             => (\A g \in Managers : Of(g) = q => manager[g].at # "remove")
    BY <1>2, <1>3, OffIsACall, CatalogueAssumption DEF Creating
  <2> QED BY <1>1, <2>1 DEF CatalogueInv, OnSale
<1>7. CopiesStay'
  <2>1. \A l \in sales : copies[l] \in Goods \cup {NoGoods}
    BY DEF CatalogueInv, CatalogueTypeOK
  <2> QED BY <1>1, <1>2, <1>3, <2>1, OffIsACall DEF CatalogueInv, CopiesStay
<1> QED BY <1>4, <1>5, <1>6, <1>7 DEF CatalogueInv

LEMMA CatalogueRewrites ==
    ASSUME CatalogueInv,
           \/ \E p \in Goods : \E metered \in BOOLEAN : SetPricing(p, metered)
           \/ \E h \in Managers : WriteMeteredPrice(h)
    PROVE  CatalogueInv'
<1>1. ASSUME NEW p \in Goods, NEW metered \in BOOLEAN, SetPricing(p, metered) PROVE CatalogueInv'
  <2> PICK row : row = [goods[p] EXCEPT !.metered = metered]
    OBVIOUS
  <2>1. /\ row \in [linked : BOOLEAN, price : Charges, annual : BOOLEAN, metered : BOOLEAN]
        /\ row.linked = goods[p].linked /\ Listed(p)
    BY <1>1, ListedRows DEF SetPricing
  <2>2. /\ goods' = [goods EXCEPT ![p] = row] /\ typed' = typed \cup {p} /\ manager' = manager
        /\ UNCHANGED <<shelf, copies, sales, tester, doomed, adrift>>
    BY <1>1 DEF SetPricing, CatalogueInv, CatalogueTypeOK
  <2>3. typed' \in SUBSET Goods /\ typed \ {p} \subseteq typed' /\ p \in typed'
    BY <2>2 DEF CatalogueInv, CatalogueTypeOK
  <2> QED BY <2>1, <2>2, <2>3, CataloguePrices
<1>2. ASSUME NEW h \in Managers, WriteMeteredPrice(h) PROVE CatalogueInv'
  <2> PICK p : p = Of(h)
    OBVIOUS
  <2> PICK row : row = [goods[p] EXCEPT !.price = "metered", !.metered = TRUE]
    OBVIOUS
  <2>1. p \in Goods /\ Listed(p) /\ manager[h].at = "metered" /\ manager' = [manager EXCEPT ![h] = Off]
    BY <1>2 DEF WriteMeteredPrice, Moves, CatalogueInv, ManagersFit
  <2>2. /\ row \in [linked : BOOLEAN, price : Charges, annual : BOOLEAN, metered : BOOLEAN]
        /\ row.linked = goods[p].linked /\ row.price = "metered" /\ row.metered
    BY <2>1, ListedRows DEF Charges
  <2>3. /\ goods' = [goods EXCEPT ![p] = row] /\ typed' = typed \ {p}
        /\ UNCHANGED <<shelf, copies, sales, tester, doomed, adrift>>
    BY <1>2, <2>1 DEF WriteMeteredPrice, CatalogueInv, CatalogueTypeOK
  <2>4. typed' \in SUBSET Goods /\ typed \ {p} \subseteq typed'
    BY <2>3 DEF CatalogueInv, CatalogueTypeOK
  <2> QED BY <2>1, <2>2, <2>3, <2>4, CataloguePrices
<1> QED BY <1>1, <1>2

\* Off the shelf, or left there for good.
LEMMA CatalogueArchives ==
    ASSUME CatalogueInv, NEW h \in Managers, ArchiveProduct(h)
    PROVE  CatalogueInv'
<1> PICK e, p : e = manager[h] /\ p = Of(h)
  OBVIOUS
<1> PICK c : c = [e EXCEPT !.at = "remove"]
  OBVIOUS
<1>1. /\ e.at = "archive" /\ e \in ManagerCalls /\ p \in Goods /\ manager' = [manager EXCEPT ![h] = c]
      /\ \/ shelf' = [shelf EXCEPT ![p] = "archived"] /\ UNCHANGED adrift
         \/ adrift' = adrift \cup {p} /\ UNCHANGED shelf
      /\ UNCHANGED <<goods, copies, sales, tester, doomed, typed>>
  BY ManagerCall DEF ArchiveProduct, Moves, CatalogueInv, ManagersFit
<1>2. c \in ManagerCalls /\ c.at = "remove" /\ c.product = p
  BY <1>1 DEF ManagerCalls, Of
<1>3. /\ manager' \in [Managers -> ManagerCalls] /\ manager'[h] = c /\ Of(h)' = p
      /\ \A g \in Managers \ {h} : manager'[g] = manager[g] /\ Of(g)' = Of(g)
  BY <1>1, <1>2, ManagerMoves DEF CatalogueInv
<1>4. /\ \A q : Listed(q)' <=> Listed(q)
      /\ shelf' \in [Goods -> {"none", "active", "archived"}]
      /\ adrift' \in SUBSET Goods /\ adrift \subseteq adrift'
      /\ \A q \in Goods \ {p} : shelf'[q] = shelf[q] /\ (q \in adrift' <=> q \in adrift)
      /\ shelf'[p] = "archived" \/ (p \in adrift' /\ shelf'[p] = shelf[p])
  BY <1>1 DEF Listed, CatalogueInv, CatalogueTypeOK
<1>5. CatalogueTypeOK'
  BY <1>1, <1>3, <1>4 DEF CatalogueInv, CatalogueTypeOK, ManagerCalls
<1>6. ManagersFit'
  BY <1>1, <1>2, <1>3, <1>4 DEF CatalogueInv, ManagersFit
<1>7. \A g \in Managers : manager[g].at \in {"product", "price", "annual", "row"} => Of(g) \in Goods \ {p}
  BY <1>1 DEF CatalogueInv, ManagersFit
<1>8. ShelfFollows'
  <2>1. \A g \in Managers \ {h} : manager[g].at # "off" => Of(g) \in Goods
    BY DEF CatalogueInv, ManagersFit
  <2> QED BY <1>1, <1>2, <1>3, <1>4, <1>7, <2>1 DEF CatalogueInv, ShelfFollows
<1>9. OnSale'
  <2>1. \A q \in Goods \ {p} :
          /\ Creating(q) = Creating(q)'
          /\ (\A g \in Managers : Of(g)' = q => manager'[g].at # "remove")
             => (\A g \in Managers : Of(g) = q => manager[g].at # "remove")
    BY <1>1, <1>3 DEF Creating
  <2>2. Listed(p) => goods[p].linked
    BY <1>1 DEF CatalogueInv, ShelfFollows
  <2> SUFFICES ASSUME NEW q \in Goods PROVE
        /\ Listed(q) /\ ~goods[q].linked => shelf'[q] = "none"
        /\ q \notin adrift' =>
             /\ Listed(q) /\ goods[q].linked
                /\ (\A g \in Managers : Of(g)' = q => manager'[g].at # "remove") => shelf'[q] = "active"
             /\ shelf'[q] = "active" /\ Creating(q)' = {} => Listed(q)
        /\ q \notin typed /\ Listed(q) /\ goods[q].linked => (goods[q].metered <=> goods[q].price = "metered")
    BY <1>1, <1>4 DEF OnSale
  <2>3. CASE q = p
    <3>1. q \notin typed /\ Listed(q) /\ goods[q].linked => (goods[q].metered <=> goods[q].price = "metered")
      BY DEF CatalogueInv, OnSale
    <3>2. Listed(q) => goods[q].linked
      BY <2>2, <2>3
    <3>3. Of(h)' = q /\ manager'[h].at = "remove"
      BY <1>2, <1>3, <2>3
    <3>4. q \in adrift' \/ shelf'[q] = "archived"
      BY <1>4, <2>3
    <3> QED BY <3>1, <3>2, <3>3, <3>4
  <2>4. CASE q # p
    BY <1>4, <2>1, <2>4 DEF CatalogueInv, OnSale
  <2> QED BY <2>3, <2>4
<1>10. CopiesStay'
  BY <1>1, <1>2, <1>3, <1>4 DEF CatalogueInv, CopiesStay
<1> QED BY <1>5, <1>6, <1>8, <1>9, <1>10 DEF CatalogueInv

\* The row goes, and with it only licences that were issued too late.
LEMMA CatalogueRemoves ==
    ASSUME CatalogueInv, NEW h \in Managers, RemoveProduct(h)
    PROVE  CatalogueInv'
<1> PICK p : p = Of(h)
  OBVIOUS
<1>1. /\ manager[h].at = "remove" /\ p \in Goods /\ Listed(p)
      /\ manager' = [manager EXCEPT ![h] = Off] /\ goods' = [goods EXCEPT ![p] = Unlisted]
      /\ copies' = [l \in Copies |-> IF copies[l] = p THEN NoGoods ELSE copies[l]]
      /\ UNCHANGED <<shelf, sales, tester, doomed, adrift, typed>>
  BY DEF RemoveProduct, Moves, CatalogueInv, ManagersFit
<1>2. /\ goods' \in [Goods -> {Unlisted} \cup [linked : BOOLEAN, price : Charges, annual : BOOLEAN, metered : BOOLEAN]]
      /\ goods'[p] = Unlisted /\ ~Listed(p)'
      /\ \A q \in Goods \ {p} : goods'[q] = goods[q] /\ (Listed(q)' <=> Listed(q))
  BY <1>1 DEF CatalogueInv, CatalogueTypeOK, Listed
<1>3. /\ manager' \in [Managers -> ManagerCalls] /\ manager'[h] = Off /\ Of(h)' = NoGoods
      /\ \A g \in Managers \ {h} : manager'[g] = manager[g] /\ Of(g)' = Of(g)
  BY <1>1, ManagerMoves, OffIsACall DEF CatalogueInv
<1>4. copies' \in [Copies -> Goods \cup {NoGoods}]
  BY <1>1 DEF CatalogueInv, CatalogueTypeOK
<1>5. CatalogueTypeOK'
  BY <1>1, <1>2, <1>3, <1>4 DEF CatalogueInv, CatalogueTypeOK, ManagerCalls
<1>6. \A g \in Managers \ {h} : manager[g].at # "off" => Of(g) \in Goods
  BY DEF CatalogueInv, ManagersFit
<1>7. ManagersFit'
  BY <1>1, <1>2, <1>3, <1>6, OffIsACall, CatalogueAssumption DEF CatalogueInv, ManagersFit
<1>8. ShelfFollows'
  BY <1>1, <1>2, <1>3, <1>6, OffIsACall DEF CatalogueInv, ShelfFollows
<1>9. OnSale'
  <2>1. \A q \in Goods \ {p} :
          /\ Creating(q) = Creating(q)'
          /\ (\A g \in Managers : Of(g)' = q => manager'[g].at # "remove")
             => (\A g \in Managers : Of(g) = q => manager[g].at # "remove")
    BY <1>1, <1>3, OffIsACall, CatalogueAssumption DEF Creating
  <2>2. p \notin adrift => shelf[p] # "active"
    BY <1>1 DEF CatalogueInv, ShelfFollows
  <2> SUFFICES ASSUME NEW q \in Goods PROVE
        /\ Listed(q)' /\ ~goods'[q].linked => shelf[q] = "none"
        /\ q \notin adrift =>
             /\ Listed(q)' /\ goods'[q].linked
                /\ (\A g \in Managers : Of(g)' = q => manager'[g].at # "remove") => shelf[q] = "active"
             /\ shelf[q] = "active" /\ Creating(q)' = {} => Listed(q)'
        /\ q \notin typed /\ Listed(q)' /\ goods'[q].linked => (goods'[q].metered <=> goods'[q].price = "metered")
    BY <1>1 DEF OnSale
  <2>3. CASE q = p
    BY <1>2, <2>2, <2>3
  <2>4. CASE q # p
    BY <1>2, <2>1, <2>4 DEF CatalogueInv, OnSale
  <2> QED BY <2>3, <2>4
<1>10. CopiesStay'
  <2>1. \A l \in sales \ doomed : copies[l] \in Goods \ {p} /\ copies'[l] = copies[l] /\ Listed(copies[l])
    BY <1>1 DEF CatalogueInv, CatalogueTypeOK, CopiesStay
  <2>2. \A l \in sales \ doomed : copies'[l] # NoGoods /\ goods'[copies'[l]] # Unlisted
    BY <1>2, <2>1, CatalogueAssumption DEF Listed
  <2>3. \A g \in Managers \ {h}, l \in Copies :
          manager[g].at \in {"archive", "remove"} /\ copies'[l] = Of(g) => l \in doomed
    BY <1>1, <1>6, CatalogueAssumption DEF CatalogueInv, CopiesStay
  <2> QED BY <1>1, <1>3, <2>2, <2>3, OffIsACall DEF CopiesStay, Listed
<1> QED BY <1>5, <1>7, <1>8, <1>9, <1>10 DEF CatalogueInv

\* A licence of a product that stands: doomed if somebody is deleting it.
LEMMA CatalogueIssues ==
    ASSUME CatalogueInv, NEW p \in Goods, NEW l \in Copies, Issue(l, p), UNCHANGED tester,
           \/ manager' = manager
           \/ \E h \in Managers : manager[h].at = "issue" /\ manager' = [manager EXCEPT ![h] = Off]
    PROVE  CatalogueInv'
<1>1. /\ Listed(p) /\ l \notin sales /\ copies' = [copies EXCEPT ![l] = p] /\ sales' = sales \cup {l}
      /\ doomed' = (IF Removing(p) # {} THEN doomed \cup {l} ELSE doomed)
      /\ UNCHANGED <<goods, shelf, adrift, typed, tester>>
  BY DEF Issue
<1>2. /\ manager' \in [Managers -> ManagerCalls]
      /\ \A g \in Managers : \/ manager'[g] = manager[g]
                             \/ manager'[g] = Off /\ manager[g].at = "issue"
  <2>1. manager \in [Managers -> ManagerCalls]
    BY DEF CatalogueInv, CatalogueTypeOK, ManagerCalls
  <2>2. CASE manager' = manager
    BY <2>1, <2>2
  <2>3. ASSUME NEW h \in Managers, manager[h].at = "issue", manager' = [manager EXCEPT ![h] = Off]
        PROVE  /\ manager' \in [Managers -> ManagerCalls]
               /\ \A g \in Managers : \/ manager'[g] = manager[g]
                                      \/ manager'[g] = Off /\ manager[g].at = "issue"
    BY <2>1, <2>3, OffIsACall
  <2> QED BY <2>2, <2>3
<1>3. \A g \in Managers : \/ manager'[g] = manager[g] /\ Of(g)' = Of(g)
                          \/ manager'[g] = Off /\ Of(g)' = NoGoods /\ manager[g].at = "issue"
  BY <1>2, OffIsACall DEF Of
<1>4. \A q : Listed(q)' <=> Listed(q)
  BY <1>1 DEF Listed
<1>5. CatalogueTypeOK'
  BY <1>1, <1>2 DEF CatalogueInv, CatalogueTypeOK, ManagerCalls
<1>6. ManagersFit' /\ ShelfFollows'
  BY <1>1, <1>2, <1>3, <1>4, OffIsACall, CatalogueAssumption DEF CatalogueInv, ManagersFit, ShelfFollows
<1>7. OnSale'
  <2>1. \A q \in Goods :
          /\ Creating(q)' = Creating(q)
          /\ (\A g \in Managers : Of(g)' = q => manager'[g].at # "remove")
             => (\A g \in Managers : Of(g) = q => manager[g].at # "remove")
    BY <1>2, <1>3, OffIsACall, CatalogueAssumption DEF Creating
  <2> QED BY <1>1, <1>4, <2>1 DEF CatalogueInv, OnSale
<1>8. CopiesStay'
  <2>1. copies'[l] = p /\ \A m \in Copies \ {l} : copies'[m] = copies[m]
    BY <1>1 DEF CatalogueInv, CatalogueTypeOK
  <2>2. sales \subseteq Copies /\ doomed \subseteq doomed'
    BY <1>1 DEF CatalogueInv, CatalogueTypeOK
  <2>3. \A m \in sales' \ doomed' : copies'[m] # NoGoods /\ goods'[copies'[m]] # Unlisted
    BY <1>1, <1>4, <2>1, <2>2, CatalogueAssumption DEF CatalogueInv, CopiesStay, Listed
  <2>4. ASSUME NEW g \in Managers, manager'[g].at \in {"archive", "remove"},
               NEW m \in Copies, copies'[m] = Of(g)'
        PROVE  m \in doomed'
    <3>1. manager[g] = manager'[g] /\ Of(g)' = Of(g)
      BY <1>3, <2>4, OffIsACall
    <3>2. CASE m = l
      BY <1>1, <2>1, <2>4, <3>1, <3>2 DEF Removing
    <3>3. CASE m # l
      BY <2>1, <2>2, <2>4, <3>1, <3>3 DEF CatalogueInv, CopiesStay
    <3> QED BY <3>2, <3>3
  <2> QED BY <2>3, <2>4 DEF CopiesStay, Listed
<1> QED BY <1>5, <1>6, <1>7, <1>8 DEF CatalogueInv

\* A call that ends early: what Stripe has done by then stays.
LEMMA CatalogueStops ==
    ASSUME CatalogueInv, NEW h \in Managers, ManagerFails(h)
    PROVE  CatalogueInv'
<1> PICK e, p : e = manager[h] /\ p = Of(h)
  OBVIOUS
<1>1. /\ e # Off /\ e.at # "off" /\ p \in Goods /\ manager' = [manager EXCEPT ![h] = Off]
      /\ adrift' = (IF \/ h \in Creating(p) /\ shelf[p] = "active"
                       \/ e.at = "remove" /\ Listed(p) /\ goods[p].linked
                    THEN adrift \cup {p} ELSE adrift)
      /\ UNCHANGED <<goods, shelf, copies, sales, tester, doomed, typed>>
  BY DEF ManagerFails, CatalogueInv, ManagersFit
<1>2. /\ manager' \in [Managers -> ManagerCalls] /\ manager'[h] = Off /\ Of(h)' = NoGoods
      /\ \A g \in Managers \ {h} : manager'[g] = manager[g] /\ Of(g)' = Of(g)
  BY <1>1, ManagerMoves, OffIsACall DEF CatalogueInv
<1>3. /\ \A q : Listed(q)' <=> Listed(q)
      /\ adrift' \in SUBSET Goods /\ adrift \subseteq adrift'
      /\ \A q \in Goods \ {p} : q \in adrift' <=> q \in adrift
  BY <1>1 DEF Listed, CatalogueInv, CatalogueTypeOK
<1>4. CatalogueTypeOK'
  BY <1>1, <1>2, <1>3 DEF CatalogueInv, CatalogueTypeOK, ManagerCalls
<1>5. ManagersFit' /\ ShelfFollows'
  BY <1>1, <1>2, <1>3, OffIsACall, CatalogueAssumption DEF CatalogueInv, ManagersFit, ShelfFollows
<1>6. OnSale'
  <2>1. \A q \in Goods \ {p} :
          /\ Creating(q) = Creating(q)'
          /\ (\A g \in Managers : Of(g)' = q => manager'[g].at # "remove")
             => (\A g \in Managers : Of(g) = q => manager[g].at # "remove")
    BY <1>1, <1>2, OffIsACall, CatalogueAssumption DEF Creating
  <2>2. p \notin adrift' /\ Listed(p) /\ goods[p].linked
          /\ (\A g \in Managers : Of(g)' = p => manager'[g].at # "remove") => shelf[p] = "active"
    BY <1>1, <1>2, <1>3 DEF CatalogueInv, OnSale
  <2>3. ASSUME p \notin adrift', shelf[p] = "active", Creating(p)' = {} PROVE Listed(p)
    <3>1. h \notin Creating(p)
      BY <1>1, <2>3
    <3>2. Creating(p) = {}
      BY <1>2, <2>3, <3>1 DEF Creating
    <3> QED BY <1>1, <1>3, <2>3, <3>2 DEF CatalogueInv, OnSale
  <2> SUFFICES ASSUME NEW q \in Goods PROVE
        /\ Listed(q) /\ ~goods[q].linked => shelf[q] = "none"
        /\ q \notin adrift' =>
             /\ Listed(q) /\ goods[q].linked
                /\ (\A g \in Managers : Of(g)' = q => manager'[g].at # "remove") => shelf[q] = "active"
             /\ shelf[q] = "active" /\ Creating(q)' = {} => Listed(q)
        /\ q \notin typed /\ Listed(q) /\ goods[q].linked => (goods[q].metered <=> goods[q].price = "metered")
    BY <1>1, <1>3 DEF OnSale
  <2>4. /\ Listed(q) /\ ~goods[q].linked => shelf[q] = "none"
        /\ q \notin typed /\ Listed(q) /\ goods[q].linked => (goods[q].metered <=> goods[q].price = "metered")
    BY DEF CatalogueInv, OnSale
  <2>5. CASE q = p
    BY <2>2, <2>3, <2>4, <2>5
  <2>6. CASE q # p
    BY <1>3, <2>1, <2>6 DEF CatalogueInv, OnSale
  <2> QED BY <2>5, <2>6
<1>7. CopiesStay'
  BY <1>1, <1>2, <1>3, OffIsACall DEF CatalogueInv, CopiesStay
<1> QED BY <1>4, <1>5, <1>6, <1>7 DEF CatalogueInv

LEMMA CatalogueStepKeeps == CatalogueInv /\ CatalogueNext => CatalogueInv'
<1> SUFFICES ASSUME CatalogueInv, CatalogueNext PROVE CatalogueInv'
  OBVIOUS
<1>1. ASSUME NEW p \in Goods, NEW l \in Copies, IssueByHand(l, p) PROVE CatalogueInv'
  BY <1>1, CatalogueIssues DEF IssueByHand
<1>2. ASSUME NEW h \in Managers, IssueTest(h) PROVE CatalogueInv'
  <2>1. /\ manager[h].at = "issue" /\ manager' = [manager EXCEPT ![h] = Off]
        /\ Issue(manager[h].copy, Of(h)) /\ UNCHANGED tester
    BY <1>2 DEF IssueTest, Moves
  <2>2. Of(h) \in Goods /\ manager[h].copy \in Copies
    BY <2>1 DEF CatalogueInv, ManagersFit
  <2> QED BY <2>1, <2>2, CatalogueIssues
<1> QED BY <1>1, <1>2, CatalogueCreates, CatalogueInserts, CatalogueReads, CatalogueRewrites,
           CatalogueArchives, CatalogueRemoves, CatalogueStops DEF CatalogueNext

LEMMA CatalogueKept == CatalogueInv /\ [CatalogueNext]_catalogueVars => CatalogueInv'
<1> SUFFICES ASSUME CatalogueInv, UNCHANGED catalogueVars PROVE CatalogueInv'
  BY CatalogueStepKeeps
<1>1. /\ CatalogueTypeOK' /\ ManagersFit' /\ ShelfFollows' /\ CopiesStay'
      /\ \A q : (Listed(q)' <=> Listed(q)) /\ Creating(q)' = Creating(q)
  BY DEF catalogueVars, CatalogueInv, CatalogueTypeOK, ManagersFit, ShelfFollows, CopiesStay,
         Listed, Of, Creating
<1>2. OnSale'
  BY <1>1 DEF catalogueVars, CatalogueInv, OnSale, Of
<1> QED BY <1>1, <1>2 DEF CatalogueInv

\* Whatever Stripe refuses and wherever a call stops, only licences issued
\* while their product was being deleted are lost, and Stripe sells what the
\* rows say it sells.
THEOREM RowsSell == CatalogueSpec => []LicencesKeepTheirProduct
<1>1. CatalogueInv => LicencesKeepTheirProduct
  <2> SUFFICES ASSUME CatalogueInv PROVE LicencesKeepTheirProduct
    OBVIOUS
  <2>1. \A p \in Goods : Removing(p) = {} =>
          \A h \in Managers : Of(h) = p => manager[h].at # "remove"
    BY DEF Removing
  <2> QED BY <2>1 DEF CatalogueInv, OnSale, CopiesStay, LicencesKeepTheirProduct
<1> QED BY <1>1, CatalogueKept, CatalogueStart, PTL DEF CatalogueSpec

-----------------------------------------------------------------------------
(* Team seats. *)

TaskSet == [step : {"idle", "assign", "bulk", "account", "accept", "resend", "grant", "find", "revoke"},
            user : Holders \cup {Vacant}, rest : SUBSET Holders, seat : 0 .. MaxInvites,
            pack : Packs \cup {Vacant}, total : 0 .. MaxQuota, stale : BOOLEAN]

\* What a handler has read is good: while nothing has outdated it an assignment
\* has room, and a transaction on a pack has the quota there will be.
TaskFits(t) ==
    /\ t.step = "assign" => t.user \in Holders /\ (~t.stale => Cardinality(Assigned) < seatCount)
    /\ t.step \in {"find", "grant", "revoke"} => t.pack \in Packs
    /\ t.step = "grant" /\ ~t.stale => t.total = Quota(ActivePacks \cup {t.pack})
    /\ t.step = "revoke" /\ ~t.stale => t.total = Quota(ActivePacks \ {t.pack})
    /\ t.step = "account" => t.user \in Holders /\ t.seat \in Invites
    /\ t.step \in {"accept", "resend"} => t.user \in Holders /\ t.seat \in 1 .. sent

\* An assignment is named by a token that was sent, and by no other.
IdsKept ==
    /\ \A u \in Assigned : seats[u].id \in 1 .. sent
    /\ \A u, v \in Assigned : seats[u].id = seats[v].id => u = v

Accepting(d, i) == desk[d].step = "accept" /\ desk[d].seat = i

\* Unless two handlers have held it, an assignment that is not accepted has one
\* handler at most about to accept it, and one that is has none.
AcceptedOnce ==
    /\ \A i \in Invites : i > sent => accepts[i].times = 0
    /\ \A i \in Invites : ~accepts[i].raced =>
         /\ \A d, e \in Desks : Accepting(d, i) /\ Accepting(e, i) => d = e
         /\ accepts[i].times # 0 =>
              /\ accepts[i].times = 1
              /\ \A d \in Desks : ~Accepting(d, i)
              /\ \A u \in Holders : seats[u].id = i => seats[u].accepted

QuotaKept == outOfStep = "no" => seatCount = Quota(ActivePacks \cup lapsed)

Counted ==
    /\ seatsUsed = Cardinality(Assigned)
    /\ seatsUsed > seatCount => overbooked

SeatInv == SeatTypeOK /\ (\A d \in Desks : TaskFits(desk[d])) /\ IdsKept /\ AcceptedOnce /\ Counted /\ QuotaKept

LEMMA SeatSets ==
    ASSUME SeatTypeOK
    PROVE  /\ IsFiniteSet(Assigned) /\ Assigned \subseteq Holders
           /\ Cardinality(Assigned) \in Nat /\ Cardinality(Holders) \in Nat
           /\ sent \in Nat /\ seatCount \in Nat /\ seatsUsed \in Nat /\ MaxQuota \in Nat
<1>1. Assigned \subseteq Holders
  BY DEF Assigned
<1>2. IsFiniteSet(Assigned) /\ IsFiniteSet(Holders)
  BY <1>1, SeatAssumption, FS_Subset
<1>3. MaxQuota = SumOver(PackSize, Packs)
  BY DEF MaxQuota, SumOver
<1>4. MaxQuota \in Nat
  BY <1>3, SeatAssumption, SumNat
<1> QED BY <1>1, <1>2, <1>4, SeatAssumption, FS_CardinalityType DEF SeatTypeOK

\* Whatever packs are in force, their seats are at most all that can be granted.
LEMMA QuotaBound ==
    ASSUME NEW ps \in SUBSET Packs
    PROVE  Quota(ps) \in 0 .. MaxQuota
<1>1. Quota(ps) = SumOver(PackSize, ps) /\ MaxQuota = SumOver(PackSize, Packs)
  BY DEF Quota, MaxQuota, SumOver
<1>2. IsFiniteSet(ps) /\ IsFiniteSet(Packs) /\ \A p \in Packs : PackSize[p] \in Nat
  BY SeatAssumption, FS_Subset
<1>3. SumOver(PackSize, ps) \in Nat /\ SumOver(PackSize, Packs) \in Nat
  BY <1>2, SumNat
<1>4. SumOver(PackSize, ps) <= SumOver(PackSize, Packs)
  BY <1>2, SumSubset
<1> QED BY <1>1, <1>3, <1>4

LEMMA NoTaskFits == NoTask \in TaskSet /\ NoTask.step = "idle"
<1>1. MaxQuota = SumOver(PackSize, Packs)
  BY DEF MaxQuota, SumOver
<1>2. MaxQuota \in Nat
  BY <1>1, SeatAssumption, SumNat
<1> QED BY <1>2, SeatAssumption DEF NoTask, TaskSet

LEMMA BulkFits ==
    ASSUME NEW rest \in SUBSET Holders
    PROVE  Bulk(rest) \in TaskSet /\ Bulk(rest).step \in {"idle", "bulk"}
<1>1. PICK t : t = [NoTask EXCEPT !.step = "bulk", !.rest = rest]
  OBVIOUS
<1>2. t \in TaskSet /\ t.step = "bulk"
  BY <1>1, NoTaskFits DEF NoTask, TaskSet
<1> QED BY <1>1, <1>2, NoTaskFits DEF Bulk

-----------------------------------------------------------------------------
(* A handler that begins, goes on or gives up writes nothing. *)

Written == <<seatCount, seatsUsed, seats, packs, lapsed, sent, overbooked, outOfStep, accepts>>

LEMMA TaskKept ==
    ASSUME SeatInv, NEW d \in Desks, NEW t \in TaskSet, desk' = [desk EXCEPT ![d] = t],
           TaskFits(t), t.step # "accept", UNCHANGED Written
    PROVE  SeatInv'
<1>1. /\ desk' \in [Desks -> TaskSet] /\ desk'[d] = t
      /\ \A e \in Desks \ {d} : desk'[e] = desk[e]
  BY DEF SeatInv, SeatTypeOK, TaskSet
<1>2. UNCHANGED <<seatCount, seatsUsed, seats, packs, lapsed, sent, overbooked, outOfStep, accepts>>
  BY DEF Written
<1>3. SeatTypeOK'
  BY <1>1, <1>2 DEF SeatInv, SeatTypeOK, TaskSet
<1>4. (\A e \in Desks : TaskFits(desk[e]))'
  <2>1. SUFFICES ASSUME NEW e \in Desks PROVE TaskFits(desk[e])'
    OBVIOUS
  <2>2. TaskFits(desk'[e])
    BY <1>1 DEF SeatInv
  <2>3. ActivePacks' = ActivePacks /\ Assigned' = Assigned
    BY <1>2 DEF ActivePacks, Assigned
  <2> QED BY <1>2, <2>2, <2>3 DEF TaskFits
<1>5. \A e \in Desks, i \in Invites : Accepting(e, i)' => Accepting(e, i)
  BY <1>1 DEF Accepting
<1>6. AcceptedOnce'
  BY <1>2, <1>5 DEF SeatInv, AcceptedOnce
<1>7. (IdsKept /\ Counted /\ QuotaKept)'
  BY <1>2 DEF SeatInv, IdsKept, Counted, QuotaKept, Assigned, ActivePacks
<1> QED BY <1>3, <1>4, <1>6, <1>7 DEF SeatInv

LEMMA AssignBegins ==
    ASSUME SeatInv, NEW d \in Desks, NEW u \in Holders, NEW rest \in SUBSET Holders,
           Assignable(u), UNCHANGED Written,
           \/ Begin(d, [NoTask EXCEPT !.step = "assign", !.user = u])
           \/ Begin(d, [NoTask EXCEPT !.step = "assign", !.user = u, !.rest = rest])
    PROVE  SeatInv'
<1>1. PICK t : /\ \/ t = [NoTask EXCEPT !.step = "assign", !.user = u]
                  \/ t = [NoTask EXCEPT !.step = "assign", !.user = u, !.rest = rest]
               /\ desk' = [desk EXCEPT ![d] = t]
  BY DEF Begin
<1>2. t \in TaskSet /\ t.step = "assign" /\ t.user = u
  BY <1>1, NoTaskFits DEF NoTask, TaskSet
<1>3. TaskFits(t)
  BY <1>2 DEF TaskFits, Assignable
<1> QED BY <1>1, <1>2, <1>3, TaskKept

LEMMA SeatAfterBegin ==
    ASSUME SeatInv, NEW d \in Desks,
           \/ \E u \in Holders :
                \/ AssignSeat(d, u) \/ ResendSeatInvite(d, u)
                \/ \E i \in Invites : OpenInvite(d, u, i)
           \/ desk[d].step = "bulk" /\ BulkGoesOn(d, desk[d].rest)
           \/ \E users \in SUBSET Holders : BulkAssign(d, users)
           \/ TaskFails(d)
    PROVE  SeatInv'
<1>1. ASSUME NEW u \in Holders, AssignSeat(d, u) PROVE SeatInv'
  BY <1>1, AssignBegins DEF AssignSeat, Written
<1>2. ASSUME NEW users \in SUBSET Holders, BulkGoesOn(d, users) PROVE SeatInv'
  <2>1. PICK u \in users :
          /\ Assignable(u) /\ Begin(d, [NoTask EXCEPT !.step = "assign", !.user = u, !.rest = users \ {u}])
          /\ UNCHANGED Written
    BY <1>2 DEF BulkGoesOn, Written
  <2>2. u \in Holders /\ users \ {u} \in SUBSET Holders
    OBVIOUS
  <2> QED BY <2>1, <2>2, AssignBegins
<1>3. ASSUME NEW u \in Holders, ResendSeatInvite(d, u) PROVE SeatInv'
  <2>1. PICK t : t = [NoTask EXCEPT !.step = "resend", !.user = u, !.seat = seats[u].id]
    OBVIOUS
  <2>2. seats[u].id \in 0 .. MaxInvites /\ seats[u].id \in 1 .. sent
    BY <1>3 DEF ResendSeatInvite, SeatInv, SeatTypeOK, IdsKept, Assigned
  <2>3. t \in TaskSet /\ t.step = "resend" /\ t.user = u /\ t.seat = seats[u].id
    BY <2>1, <2>2, NoTaskFits DEF NoTask, TaskSet
  <2>4. TaskFits(t)
    BY <2>2, <2>3 DEF TaskFits
  <2> QED BY <1>3, <2>1, <2>3, <2>4, TaskKept DEF ResendSeatInvite, Begin, Written
<1>4. ASSUME NEW u \in Holders, NEW i \in Invites, OpenInvite(d, u, i) PROVE SeatInv'
  <2>1. PICK t : t = [NoTask EXCEPT !.step = "account", !.user = u, !.seat = i]
    OBVIOUS
  <2>2. i \in 0 .. MaxInvites
    BY SeatAssumption DEF Invites
  <2>3. t \in TaskSet /\ t.step = "account" /\ t.user = u /\ t.seat = i
    BY <2>1, <2>2, NoTaskFits DEF NoTask, TaskSet
  <2>4. TaskFits(t)
    BY <2>3 DEF TaskFits
  <2> QED BY <1>4, <2>1, <2>3, <2>4, TaskKept DEF OpenInvite, Begin, Written
<1>5. ASSUME TaskFails(d) PROVE SeatInv'
  <2>1. TaskFits(NoTask)
    BY NoTaskFits DEF TaskFits
  <2> QED BY <1>5, <2>1, NoTaskFits, TaskKept DEF TaskFails, Close, Written
<1>6. desk[d].rest \in SUBSET Holders
  BY DEF SeatInv, SeatTypeOK
<1> QED BY <1>1, <1>2, <1>3, <1>4, <1>5, <1>6 DEF BulkAssign

\* A total is read from the packs committed by then.
LEMMA SeatAfterPackRead ==
    ASSUME SeatInv, NEW d \in Desks,
           (\E p \in Packs : GrantPack(d, p) \/ FindPack(d, p)) \/ RevokePack(d)
    PROVE  SeatInv'
<1>1. ASSUME NEW p \in Packs, GrantPack(d, p) PROVE SeatInv'
  <2>1. PICK t : t = [NoTask EXCEPT !.step = "grant", !.pack = p, !.total = Quota(ActivePacks \cup {p})]
    OBVIOUS
  <2>2. Quota(ActivePacks \cup {p}) \in 0 .. MaxQuota
    BY QuotaBound DEF ActivePacks
  <2>3. t \in TaskSet /\ t.step = "grant" /\ t.pack = p /\ t.total = Quota(ActivePacks \cup {p})
    BY <2>1, <2>2, NoTaskFits DEF NoTask, TaskSet
  <2>4. TaskFits(t)
    BY <2>3 DEF TaskFits
  <2> QED BY <1>1, <2>1, <2>3, <2>4, TaskKept DEF GrantPack, Begin, Written
<1>2. ASSUME NEW p \in Packs, FindPack(d, p) PROVE SeatInv'
  <2>1. PICK t : t = [NoTask EXCEPT !.step = "find", !.pack = p]
    OBVIOUS
  <2>2. t \in TaskSet /\ t.step = "find" /\ t.pack = p
    BY <2>1, NoTaskFits DEF NoTask, TaskSet
  <2>3. TaskFits(t)
    BY <2>2 DEF TaskFits
  <2> QED BY <1>2, <2>1, <2>2, <2>3, TaskKept DEF FindPack, Begin, Written
<1>3. ASSUME RevokePack(d) PROVE SeatInv'
  <2>1. PICK p : p = desk[d].pack
    OBVIOUS
  <2>2. PICK t : t = [desk[d] EXCEPT !.step = "revoke", !.total = Quota(ActivePacks \ {p})]
    OBVIOUS
  <2>3. desk[d] \in TaskSet /\ p \in Packs
    BY <1>3, <2>1 DEF RevokePack, SeatInv, SeatTypeOK, TaskSet, TaskFits
  <2>4. Quota(ActivePacks \ {p}) \in 0 .. MaxQuota
    BY QuotaBound DEF ActivePacks
  <2>5. t \in TaskSet /\ t.step = "revoke" /\ t.pack = p /\ t.total = Quota(ActivePacks \ {p})
    BY <2>1, <2>2, <2>3, <2>4 DEF TaskSet
  <2>6. TaskFits(t)
    BY <2>3, <2>5 DEF TaskFits
  <2> QED BY <1>3, <2>1, <2>2, <2>5, <2>6, TaskKept DEF RevokePack, Begin, Written
<1> QED BY <1>1, <1>2, <1>3

-----------------------------------------------------------------------------
(* Committing. *)

\* What a commit leaves of the tasks of the others.
LEMMA Disturbed ==
    ASSUME SeatInv, NEW d \in Desks, NEW steps, Disturb(d, steps)
    PROVE  /\ desk' \in [Desks -> TaskSet]
           /\ desk'[d].step \in {"idle", "bulk"}
           /\ \A e \in Desks \ {d} :
                /\ desk'[e].step = desk[e].step /\ desk'[e].user = desk[e].user
                /\ desk'[e].seat = desk[e].seat /\ desk'[e].pack = desk[e].pack
                /\ desk'[e].total = desk[e].total
                /\ (desk'[e].stale <=> desk[e].stale \/ desk[e].step \in steps)
<1>1. \A e \in Desks : desk[e] \in TaskSet
  BY DEF SeatInv, SeatTypeOK, TaskSet
<1>2. desk[d].rest \in SUBSET Holders
  BY <1>1 DEF TaskSet
<1>3. ASSUME NEW e \in Desks, e # d
      PROVE  /\ desk'[e] \in TaskSet
             /\ desk'[e].step = desk[e].step /\ desk'[e].user = desk[e].user
             /\ desk'[e].seat = desk[e].seat /\ desk'[e].pack = desk[e].pack
             /\ desk'[e].total = desk[e].total
             /\ (desk'[e].stale <=> desk[e].stale \/ desk[e].step \in steps)
  <2>1. PICK s : s = (desk[e].stale \/ desk[e].step \in steps)
    OBVIOUS
  <2>2. s \in BOOLEAN
    BY <1>1, <2>1 DEF TaskSet
  <2>3. desk'[e] = [desk[e] EXCEPT !.stale = s]
    BY <1>3, <2>1 DEF Disturb
  <2> QED BY <1>1, <2>1, <2>2, <2>3 DEF TaskSet
<1>4. desk'[d] = Bulk(desk[d].rest)
  BY DEF Disturb
<1>5. desk'[d] \in TaskSet /\ desk'[d].step \in {"idle", "bulk"}
  BY <1>2, <1>4, BulkFits
<1>6. DOMAIN desk' = Desks /\ desk' = [e \in Desks |-> desk'[e]]
  BY DEF Disturb
<1> QED BY <1>3, <1>5, <1>6

LEMMA SeatAfterCommitSeat ==
    ASSUME SeatInv, NEW d \in Desks, CommitSeat(d)
    PROVE  SeatInv'
<1>1. PICK u : u = desk[d].user
  OBVIOUS
<1>2. PICK n : n = sent + 1
  OBVIOUS
<1>3. PICK s : s = [id |-> n, token |-> n, accepted |-> FALSE]
  OBVIOUS
<1>4. /\ desk[d].step = "assign" /\ u \notin Assigned /\ sent < MaxInvites /\ sent' = n
      /\ seats' = [seats EXCEPT ![u] = s] /\ seatsUsed' = seatsUsed + 1
      /\ overbooked' = (overbooked \/ (desk[d].stale /\ Cardinality(Assigned) + 1 > seatCount))
      /\ Disturb(d, {"assign"}) /\ UNCHANGED <<seatCount, packs, lapsed, outOfStep, accepts>>
  BY <1>1, <1>2, <1>3 DEF CommitSeat
<1>5. u \in Holders /\ (~desk[d].stale => Cardinality(Assigned) < seatCount)
  BY <1>1, <1>4 DEF SeatInv, TaskFits
<1>6. n \in 1 .. MaxInvites /\ n = sent + 1 /\ sent \in Nat
  BY <1>2, <1>4, SeatAssumption DEF SeatInv, SeatTypeOK
<1>7. s # NoSeat /\ s.id = n /\ s.token = n /\ s.accepted = FALSE
      /\ s \in [id : 0 .. MaxInvites, token : 0 .. MaxInvites, accepted : BOOLEAN]
  BY <1>3, <1>6 DEF NoSeat
<1>8. seats'[u] = s /\ (\A v \in Holders \ {u} : seats'[v] = seats[v])
      /\ seats' \in [Holders -> [id : 0 .. MaxInvites, token : 0 .. MaxInvites, accepted : BOOLEAN]]
  BY <1>4, <1>5, <1>7 DEF SeatInv, SeatTypeOK
<1>9. Assigned' = Assigned \cup {u}
  BY <1>5, <1>7, <1>8 DEF Assigned
<1>10. Cardinality(Assigned') = Cardinality(Assigned) + 1
  BY <1>4, <1>9, SeatSets, FS_AddElement DEF SeatInv
<1>11. Cardinality(Assigned') \in 0 .. Cardinality(Holders)
  <2>1. Assigned' \subseteq Holders
    BY <1>5, <1>9, SeatSets DEF SeatInv
  <2>2. IsFiniteSet(Holders) /\ Cardinality(Assigned') <= Cardinality(Holders) /\ Cardinality(Assigned') \in Nat
    BY <2>1, SeatAssumption, FS_Subset, FS_CardinalityType
  <2> QED BY <2>2, FS_CardinalityType
<1>12. Counted'
  <2>1. (overbooked => overbooked') /\ (desk[d].stale /\ Cardinality(Assigned) + 1 > seatCount => overbooked')
    BY <1>4
  <2>2. seatsUsed' = Cardinality(Assigned) + 1 /\ seatCount' = seatCount
    BY <1>4 DEF SeatInv, Counted
  <2>3. Cardinality(Assigned) \in Nat /\ seatCount \in Nat
    BY SeatSets DEF SeatInv
  <2>4. Cardinality(Assigned) + 1 > seatCount => overbooked'
    BY <1>5, <2>1, <2>3
  <2> QED BY <1>10, <2>2, <2>4 DEF Counted
<1>13. SeatTypeOK'
  <2>1. seatsUsed' \in 0 .. Cardinality(Holders)
    BY <1>11, <1>12 DEF Counted
  <2> QED BY <1>4, <1>6, <1>8, <2>1, Disturbed DEF SeatInv, SeatTypeOK, TaskSet
<1>14. (\A e \in Desks : TaskFits(desk[e]))'
  <2>1. SUFFICES ASSUME NEW e \in Desks PROVE TaskFits(desk[e])'
    OBVIOUS
  <2>2. CASE e = d
    BY <1>4, <2>2, Disturbed DEF TaskFits
  <2>3. CASE e # d
    <3>1. TaskFits(desk[e]) /\ 1 .. sent \subseteq 1 .. sent'
      BY <1>4, <1>6 DEF SeatInv
    <3>2. (ActivePacks)' = ActivePacks
      BY <1>4 DEF ActivePacks
    <3>3. /\ desk'[e].step = desk[e].step /\ desk'[e].user = desk[e].user
          /\ desk'[e].seat = desk[e].seat /\ desk'[e].pack = desk[e].pack
          /\ desk'[e].total = desk[e].total
          /\ desk[e].stale => desk'[e].stale
          /\ desk[e].step = "assign" => desk'[e].stale
      BY <1>4, <2>3, Disturbed
    <3> QED BY <3>1, <3>2, <3>3 DEF TaskFits
  <2> QED BY <2>2, <2>3
<1>15. IdsKept'
  BY <1>4, <1>5, <1>6, <1>7, <1>8, <1>9 DEF SeatInv, IdsKept, Assigned
<1>16. \A e \in Desks, i \in Invites : Accepting(e, i)' => Accepting(e, i) /\ i \in 1 .. sent
  <2>1. \A e \in Desks, i \in Invites : Accepting(e, i)' => Accepting(e, i)
    BY <1>4, Disturbed DEF Accepting
  <2>2. \A e \in Desks, i \in Invites : Accepting(e, i) => i \in 1 .. sent
    BY DEF Accepting, SeatInv, TaskFits
  <2> QED BY <2>1, <2>2
<1>17. AcceptedOnce'
  <2>1. \A i \in Invites : i > sent' => accepts'[i].times = 0
    BY <1>4, <1>6 DEF SeatInv, AcceptedOnce, Invites
  <2>2. ASSUME NEW i \in Invites, accepts'[i].times # 0, NEW v \in Holders, seats'[v].id = i,
               ~accepts'[i].raced
        PROVE  seats'[v].accepted
    BY <1>4, <1>6, <1>7, <1>8, <2>2 DEF SeatInv, AcceptedOnce, Invites
  <2> QED BY <1>4, <1>16, <2>1, <2>2 DEF SeatInv, AcceptedOnce
<1>18. QuotaKept'
  BY <1>4 DEF SeatInv, QuotaKept, ActivePacks
<1> QED BY <1>12, <1>13, <1>14, <1>15, <1>17, <1>18 DEF SeatInv

LEMMA SeatAfterRemove ==
    ASSUME SeatInv, NEW u \in Holders, RemoveSeat(u)
    PROVE  SeatInv'
<1>1. /\ u \in Assigned /\ seats' = [seats EXCEPT ![u] = NoSeat]
      /\ seatsUsed' = (IF seatsUsed > 0 THEN seatsUsed - 1 ELSE seatsUsed)
      /\ overbooked' = (overbooked /\ Cardinality(Assigned) - 1 > seatCount)
      /\ UNCHANGED <<seatCount, packs, lapsed, sent, desk, outOfStep, accepts>>
  BY DEF RemoveSeat
<1>2. NoSeat \in [id : 0 .. MaxInvites, token : 0 .. MaxInvites, accepted : BOOLEAN] /\ NoSeat.id = 0
  BY SeatAssumption DEF NoSeat
<1>3. seats'[u] = NoSeat /\ (\A v \in Holders \ {u} : seats'[v] = seats[v])
      /\ seats' \in [Holders -> [id : 0 .. MaxInvites, token : 0 .. MaxInvites, accepted : BOOLEAN]]
  BY <1>1, <1>2 DEF SeatInv, SeatTypeOK
<1>4. Assigned' = Assigned \ {u}
  BY <1>3 DEF Assigned
<1>5. Cardinality(Assigned') = Cardinality(Assigned) - 1 /\ Cardinality(Assigned') \in Nat
      /\ Cardinality(Assigned) \in Nat
  BY <1>1, <1>4, SeatSets, FS_RemoveElement, FS_CardinalityType DEF SeatInv
<1>6. Counted'
  <2>1. overbooked /\ Cardinality(Assigned) - 1 > seatCount => overbooked'
    BY <1>1
  <2>2. seatsUsed = Cardinality(Assigned) /\ (seatsUsed > seatCount => overbooked)
    BY DEF SeatInv, Counted
  <2>3. seatsUsed' = Cardinality(Assigned) - 1 /\ seatCount' = seatCount /\ seatCount \in Nat
    BY <1>1, <1>5, <2>2, SeatSets DEF SeatInv
  <2>4. Cardinality(Assigned) - 1 > seatCount => overbooked'
    BY <1>5, <2>1, <2>2, <2>3
  <2> QED BY <1>5, <2>3, <2>4 DEF Counted
<1>7. SeatTypeOK'
  <2>1. seatsUsed' \in 0 .. Cardinality(Holders) /\ overbooked' \in BOOLEAN
    BY <1>1, <1>5, SeatSets DEF SeatInv, SeatTypeOK, Counted
  <2> QED BY <1>1, <1>3, <2>1 DEF SeatInv, SeatTypeOK
<1>8. (\A e \in Desks : TaskFits(desk[e]))'
  <2>1. SUFFICES ASSUME NEW e \in Desks PROVE TaskFits(desk[e])'
    OBVIOUS
  <2>2. Cardinality(Assigned) < seatCount => Cardinality(Assigned') < seatCount
    BY <1>5, SeatSets DEF SeatInv
  <2>3. ActivePacks' = ActivePacks /\ TaskFits(desk[e])
    BY <1>1 DEF ActivePacks, SeatInv
  <2> QED BY <1>1, <2>2, <2>3 DEF TaskFits
<1>9. IdsKept'
  BY <1>1, <1>3, <1>4 DEF SeatInv, IdsKept
<1>10. AcceptedOnce'
  BY <1>1, <1>2, <1>3 DEF SeatInv, AcceptedOnce, Accepting, Invites
<1>11. QuotaKept'
  BY <1>1 DEF SeatInv, QuotaKept, ActivePacks
<1> QED BY <1>6, <1>7, <1>8, <1>9, <1>10, <1>11 DEF SeatInv

LEMMA SeatAfterAccept ==
    ASSUME SeatInv, NEW d \in Desks, AcceptSeatInvite(d)
    PROVE  SeatInv'
<1>1. PICK u \in Holders :
         /\ Open(u, desk[d].seat)
         /\ Begin(d, [desk[d] EXCEPT !.step = "accept", !.seat = seats[u].id])
         /\ accepts' = [accepts EXCEPT ![seats[u].id].raced =
                          @ \/ \E e \in Desks : desk[e].step = "accept" /\ desk[e].seat = seats[u].id]
  BY DEF AcceptSeatInvite
<1>2. desk[d].step = "account" /\ UNCHANGED <<seatCount, seatsUsed, seats, packs, lapsed, sent, overbooked, outOfStep>>
  BY DEF AcceptSeatInvite
<1>3. PICK i : i = seats[u].id
  OBVIOUS
<1>4. desk[d].seat \in Invites /\ desk[d] \in TaskSet
  BY <1>2 DEF SeatInv, TaskFits, SeatTypeOK, TaskSet
<1>5. u \in Assigned /\ ~seats[u].accepted
  <2>1. seats[u].token # 0 /\ ~seats[u].accepted
    BY <1>1, <1>4 DEF Open, Invites
  <2> QED BY <2>1 DEF Assigned, NoSeat
<1>6. i \in 1 .. sent /\ i \in Invites /\ i \in 0 .. MaxInvites
  BY <1>3, <1>5, SeatAssumption DEF SeatInv, IdsKept, SeatTypeOK, Invites
<1>7. PICK t : t = [desk[d] EXCEPT !.step = "accept", !.seat = i]
  OBVIOUS
<1>8. t \in TaskSet /\ t.step = "accept" /\ t.seat = i /\ t.user = desk[d].user
  BY <1>4, <1>6, <1>7 DEF TaskSet
<1>9. /\ desk' \in [Desks -> TaskSet] /\ desk'[d] = t
      /\ \A e \in Desks \ {d} : desk'[e] = desk[e]
  BY <1>1, <1>3, <1>7, <1>8 DEF Begin, SeatInv, SeatTypeOK, TaskSet
<1>10. PICK r : r = (accepts[i].raced \/ \E e \in Desks : Accepting(e, i))
  OBVIOUS
<1>11. r \in BOOLEAN
  BY <1>6, <1>10 DEF SeatInv, SeatTypeOK
<1>12. accepts' = [accepts EXCEPT ![i].raced = r]
  BY <1>1, <1>3, <1>10 DEF Accepting
<1>13. /\ accepts' \in [Invites -> [times : Nat, raced : BOOLEAN]]
       /\ accepts'[i].raced = r /\ accepts'[i].times = accepts[i].times
       /\ \A j \in Invites \ {i} : accepts'[j] = accepts[j]
  BY <1>6, <1>11, <1>12 DEF SeatInv, SeatTypeOK
<1>14. SeatTypeOK'
  BY <1>2, <1>9, <1>13 DEF SeatInv, SeatTypeOK, TaskSet
<1>15. desk[d].user \in Holders
  BY <1>2 DEF SeatInv, TaskFits
<1>16. (\A e \in Desks : TaskFits(desk[e]))'
  <2>1. SUFFICES ASSUME NEW e \in Desks PROVE TaskFits(desk[e])'
    OBVIOUS
  <2>2. CASE e = d
    BY <1>2, <1>6, <1>8, <1>9, <1>15, <2>2 DEF TaskFits
  <2>3. CASE e # d
    <3>1. TaskFits(desk[e])
      BY DEF SeatInv
    <3>2. ActivePacks' = ActivePacks /\ Assigned' = Assigned
      BY <1>2 DEF ActivePacks, Assigned
    <3> QED BY <1>2, <1>9, <2>3, <3>1, <3>2 DEF TaskFits
  <2> QED BY <2>2, <2>3
<1>17. \A e \in Desks, j \in Invites : Accepting(e, j)' <=> \/ (e = d /\ j = i)
                                                           \/ (e # d /\ Accepting(e, j))
  BY <1>8, <1>9 DEF Accepting
<1>18. AcceptedOnce'
  <2>1. \A j \in Invites : j > sent' => accepts'[j].times = 0
    BY <1>2, <1>6, <1>13 DEF SeatInv, AcceptedOnce
  <2>2. ASSUME NEW j \in Invites, ~accepts'[j].raced, j # i
        PROVE  /\ \A e, f \in Desks : Accepting(e, j)' /\ Accepting(f, j)' => e = f
               /\ accepts'[j].times # 0 =>
                    /\ accepts'[j].times = 1
                    /\ \A e \in Desks : ~Accepting(e, j)'
                    /\ \A v \in Holders : seats'[v].id = j => seats'[v].accepted
    BY <1>2, <1>13, <1>17, <2>2 DEF SeatInv, AcceptedOnce
  <2>3. ASSUME ~accepts'[i].raced
        PROVE  /\ \A e, f \in Desks : Accepting(e, i)' /\ Accepting(f, i)' => e = f
               /\ accepts'[i].times = 0
    <3>1. ~accepts[i].raced /\ \A e \in Desks : ~Accepting(e, i)
      BY <1>10, <1>13, <2>3
    <3>2. accepts[i].times = 0
      BY <1>3, <1>5, <1>6, <3>1 DEF SeatInv, AcceptedOnce
    <3> QED BY <1>6, <1>13, <1>17, <3>1, <3>2
  <2> QED BY <2>1, <2>2, <2>3 DEF AcceptedOnce
<1>19. (IdsKept /\ Counted /\ QuotaKept)'
  BY <1>2 DEF SeatInv, IdsKept, Counted, QuotaKept, Assigned, ActivePacks
<1> QED BY <1>14, <1>16, <1>18, <1>19 DEF SeatInv

LEMMA SeatAfterWriteAcceptance ==
    ASSUME SeatInv, NEW d \in Desks, WriteAcceptance(d)
    PROVE  SeatInv'
<1>1. PICK u : u = desk[d].user
  OBVIOUS
<1>2. PICK i : i = desk[d].seat
  OBVIOUS
<1>3. /\ desk[d].step = "accept" /\ seats[u].id = i
      /\ seats' = [seats EXCEPT ![u].accepted = TRUE]
      /\ accepts' = [accepts EXCEPT ![i].times = @ + 1]
      /\ desk' = [desk EXCEPT ![d] = NoTask]
      /\ UNCHANGED <<seatCount, seatsUsed, packs, lapsed, sent, overbooked, outOfStep>>
  BY <1>1, <1>2 DEF WriteAcceptance, Close
<1>4. u \in Holders /\ i \in 1 .. sent /\ i \in Invites /\ sent \in Nat
  <2>1. u \in Holders /\ i \in 1 .. sent
    BY <1>1, <1>2, <1>3 DEF SeatInv, TaskFits
  <2>2. sent \in 0 .. MaxInvites
    BY DEF SeatInv, SeatTypeOK
  <2> QED BY <2>1, <2>2, SeatAssumption DEF Invites
<1>5. /\ seats' \in [Holders -> [id : 0 .. MaxInvites, token : 0 .. MaxInvites, accepted : BOOLEAN]]
      /\ seats'[u].id = i /\ seats'[u].accepted
      /\ \A v \in Holders : seats'[v].id = seats[v].id
      /\ \A v \in Holders \ {u} : seats'[v] = seats[v]
  <2>1. seats \in [Holders -> [id : 0 .. MaxInvites, token : 0 .. MaxInvites, accepted : BOOLEAN]]
    BY DEF SeatInv, SeatTypeOK
  <2>2. PICK s : s = [seats[u] EXCEPT !.accepted = TRUE]
    OBVIOUS
  <2>3. s \in [id : 0 .. MaxInvites, token : 0 .. MaxInvites, accepted : BOOLEAN]
        /\ s.id = i /\ s.accepted
    BY <1>3, <1>4, <2>1, <2>2
  <2>4. seats' = [seats EXCEPT ![u] = s]
    BY <1>3, <2>2
  <2> QED BY <1>3, <1>4, <2>1, <2>3, <2>4
<1>6. seats[u] # NoSeat /\ seats'[u] # NoSeat
  BY <1>3, <1>4, <1>5 DEF NoSeat
<1>7. Assigned' = Assigned /\ u \in Assigned
  BY <1>4, <1>5, <1>6 DEF Assigned
<1>8. /\ accepts' \in [Invites -> [times : Nat, raced : BOOLEAN]]
      /\ accepts'[i].times = accepts[i].times + 1 /\ accepts'[i].raced = accepts[i].raced
      /\ \A j \in Invites \ {i} : accepts'[j] = accepts[j]
  BY <1>3, <1>4 DEF SeatInv, SeatTypeOK
<1>9. /\ desk' \in [Desks -> TaskSet] /\ desk'[d].step = "idle"
      /\ \A e \in Desks \ {d} : desk'[e] = desk[e]
  BY <1>3, NoTaskFits DEF SeatInv, SeatTypeOK, TaskSet
<1>10. SeatTypeOK'
  BY <1>3, <1>5, <1>8, <1>9 DEF SeatInv, SeatTypeOK, TaskSet
<1>11. (\A e \in Desks : TaskFits(desk[e]))'
  <2>1. SUFFICES ASSUME NEW e \in Desks PROVE TaskFits(desk[e])'
    OBVIOUS
  <2>2. CASE e = d
    BY <1>9, <2>2 DEF TaskFits
  <2>3. CASE e # d
    <3>1. TaskFits(desk[e]) /\ desk'[e] = desk[e]
      BY <1>9, <2>3 DEF SeatInv
    <3>2. ActivePacks' = ActivePacks
      BY <1>3 DEF ActivePacks
    <3> QED BY <1>3, <1>7, <3>1, <3>2 DEF TaskFits
  <2> QED BY <2>2, <2>3
<1>12. IdsKept'
  BY <1>3, <1>5, <1>7 DEF SeatInv, IdsKept, Assigned
<1>13. \A e \in Desks, j \in Invites : Accepting(e, j)' => e # d /\ Accepting(e, j)
  BY <1>9 DEF Accepting
<1>14. \A v \in Holders : seats[v].id = i => v = u
  <2>1. ASSUME NEW v \in Holders, seats[v].id = i PROVE v \in Assigned
    BY <1>4, <2>1 DEF Assigned, NoSeat
  <2> QED BY <1>3, <1>7, <2>1 DEF SeatInv, IdsKept
<1>15. AcceptedOnce'
  <2>1. \A j \in Invites : j > sent' => accepts'[j].times = 0
    BY <1>3, <1>4, <1>8 DEF SeatInv, AcceptedOnce
  <2>2. ASSUME NEW j \in Invites, ~accepts'[j].raced, j # i
        PROVE  /\ \A e, f \in Desks : Accepting(e, j)' /\ Accepting(f, j)' => e = f
               /\ accepts'[j].times # 0 =>
                    /\ accepts'[j].times = 1
                    /\ \A e \in Desks : ~Accepting(e, j)'
                    /\ \A v \in Holders : seats'[v].id = j => seats'[v].accepted
    <3>1. ~accepts[j].raced /\ accepts'[j] = accepts[j]
      BY <1>8, <2>2
    <3>2. \A v \in Holders : seats'[v].id = j => seats'[v] = seats[v]
      BY <1>5, <2>2
    <3> QED BY <1>5, <1>13, <3>1, <3>2 DEF SeatInv, AcceptedOnce
  <2>3. ASSUME ~accepts'[i].raced
        PROVE  /\ \A e \in Desks : ~Accepting(e, i)'
               /\ accepts'[i].times = 1
               /\ \A v \in Holders : seats'[v].id = i => seats'[v].accepted
    <3>1. Accepting(d, i) /\ ~accepts[i].raced
      BY <1>2, <1>3, <1>8, <2>3 DEF Accepting
    <3>2. accepts[i].times = 0 /\ \A e \in Desks : Accepting(e, i) => e = d
      BY <1>4, <3>1 DEF SeatInv, AcceptedOnce
    <3> QED BY <1>4, <1>5, <1>8, <1>13, <1>14, <3>2
  <2> QED BY <1>4, <2>1, <2>2, <2>3 DEF AcceptedOnce
<1>16. (Counted /\ QuotaKept)'
  BY <1>3, <1>7 DEF SeatInv, Counted, QuotaKept, ActivePacks
<1> QED BY <1>10, <1>11, <1>12, <1>15, <1>16 DEF SeatInv

LEMMA SeatAfterWriteResend ==
    ASSUME SeatInv, NEW d \in Desks, WriteResend(d)
    PROVE  SeatInv'
<1>1. PICK u : u = desk[d].user
  OBVIOUS
<1>2. PICK n : n = sent + 1
  OBVIOUS
<1>3. /\ desk[d].step = "resend" /\ seats[u].id = desk[d].seat /\ sent < MaxInvites /\ sent' = n
      /\ seats' = [seats EXCEPT ![u].token = n]
      /\ desk' = [desk EXCEPT ![d] = NoTask]
      /\ UNCHANGED <<seatCount, seatsUsed, packs, lapsed, overbooked, outOfStep, accepts>>
  BY <1>1, <1>2 DEF WriteResend, Close
<1>4. u \in Holders /\ seats[u].id \in 1 .. sent
  BY <1>1, <1>3 DEF SeatInv, TaskFits
<1>5. n \in 1 .. MaxInvites /\ n = sent + 1 /\ sent \in Nat
  BY <1>2, <1>3, SeatAssumption DEF SeatInv, SeatTypeOK
<1>6. /\ seats' \in [Holders -> [id : 0 .. MaxInvites, token : 0 .. MaxInvites, accepted : BOOLEAN]]
      /\ \A v \in Holders : seats'[v].id = seats[v].id /\ seats'[v].accepted = seats[v].accepted
      /\ \A v \in Holders \ {u} : seats'[v] = seats[v]
  BY <1>3, <1>4, <1>5 DEF SeatInv, SeatTypeOK
<1>7. seats[u] # NoSeat /\ seats'[u] # NoSeat
  BY <1>4, <1>6 DEF NoSeat
<1>8. Assigned' = Assigned
  BY <1>4, <1>6, <1>7 DEF Assigned
<1>9. /\ desk' \in [Desks -> TaskSet] /\ desk'[d].step = "idle"
      /\ \A e \in Desks \ {d} : desk'[e] = desk[e]
  BY <1>3, NoTaskFits DEF SeatInv, SeatTypeOK, TaskSet
<1>10. SeatTypeOK'
  BY <1>3, <1>5, <1>6, <1>9 DEF SeatInv, SeatTypeOK, TaskSet
<1>11. (\A e \in Desks : TaskFits(desk[e]))'
  <2>1. SUFFICES ASSUME NEW e \in Desks PROVE TaskFits(desk[e])'
    OBVIOUS
  <2>2. CASE e = d
    BY <1>9, <2>2 DEF TaskFits
  <2>3. CASE e # d
    <3>1. TaskFits(desk[e]) /\ desk'[e] = desk[e] /\ 1 .. sent \subseteq 1 .. sent'
      BY <1>3, <1>5, <1>9, <2>3 DEF SeatInv
    <3>2. ActivePacks' = ActivePacks
      BY <1>3 DEF ActivePacks
    <3> QED BY <1>3, <1>8, <3>1, <3>2 DEF TaskFits
  <2> QED BY <2>2, <2>3
<1>12. IdsKept'
  BY <1>3, <1>5, <1>6, <1>8 DEF SeatInv, IdsKept, Assigned
<1>13. \A e \in Desks, j \in Invites : Accepting(e, j)' => Accepting(e, j)
  BY <1>9 DEF Accepting
<1>14. AcceptedOnce'
  <2>1. \A j \in Invites : j > sent' => accepts'[j].times = 0
    BY <1>3, <1>5 DEF SeatInv, AcceptedOnce, Invites
  <2> QED BY <1>3, <1>6, <1>13, <2>1 DEF SeatInv, AcceptedOnce
<1>15. (Counted /\ QuotaKept)'
  BY <1>3, <1>8 DEF SeatInv, Counted, QuotaKept, ActivePacks
<1> QED BY <1>10, <1>11, <1>12, <1>14, <1>15 DEF SeatInv

\* The seats the licence gets are the quota of the packs there are then.
LEMMA SeatAfterCommitPack ==
    ASSUME SeatInv, NEW d \in Desks, CommitPack(d)
    PROVE  SeatInv'
<1>1. PICK p : p = desk[d].pack
  OBVIOUS
<1>2. PICK s : s = IF desk[d].step = "grant" THEN "active" ELSE "revoked"
  OBVIOUS
<1>3. /\ desk[d].step \in PackSteps /\ packs' = [packs EXCEPT ![p] = s]
      /\ seatCount' = desk[d].total
      /\ overbooked' = (Cardinality(Assigned) > desk[d].total)
      /\ outOfStep' = IF desk[d].stale THEN "raced" ELSE "no"
      /\ lapsed' = {}
      /\ Disturb(d, PackSteps \cup {"assign"})
      /\ UNCHANGED <<seatsUsed, seats, sent, accepts>>
  BY <1>1, <1>2 DEF CommitPack
<1>4. p \in Packs /\ desk[d].total \in 0 .. MaxQuota /\ desk[d].step \in {"grant", "revoke"}
  BY <1>1, <1>3 DEF SeatInv, TaskFits, PackSteps, SeatTypeOK
<1>5. /\ packs' \in [Packs -> {"none", "active", "expired", "revoked"}]
      /\ packs'[p] = s /\ \A q \in Packs \ {p} : packs'[q] = packs[q]
  BY <1>2, <1>3, <1>4 DEF SeatInv, SeatTypeOK
<1>6. Assigned' = Assigned /\ ActivePacks' = (IF desk[d].step = "grant" THEN ActivePacks \cup {p}
                                             ELSE ActivePacks \ {p})
  BY <1>2, <1>3, <1>4, <1>5 DEF Assigned, ActivePacks
<1>7. ~desk[d].stale => desk[d].total = Quota(ActivePacks')
  BY <1>1, <1>4, <1>6 DEF SeatInv, TaskFits
<1>8. SeatTypeOK'
  <2>1. seatCount' \in 0 .. (BaseSeats + MaxQuota)
    BY <1>3, <1>4, SeatAssumption, SeatSets DEF SeatInv
  <2>2. overbooked' \in BOOLEAN /\ outOfStep' \in {"base", "no", "raced"} /\ lapsed' \subseteq Packs
    BY <1>3
  <2> QED BY <1>3, <1>5, <2>1, <2>2, Disturbed DEF SeatInv, SeatTypeOK, TaskSet
<1>9. (\A e \in Desks : TaskFits(desk[e]))'
  <2>1. SUFFICES ASSUME NEW e \in Desks PROVE TaskFits(desk[e])'
    OBVIOUS
  <2>2. CASE e = d
    BY <1>3, <2>2, Disturbed DEF TaskFits
  <2>3. CASE e # d
    <3>1. TaskFits(desk[e])
      BY DEF SeatInv
    <3>2. /\ desk'[e].step = desk[e].step /\ desk'[e].user = desk[e].user
          /\ desk'[e].seat = desk[e].seat /\ desk'[e].pack = desk[e].pack
          /\ desk[e].step \in {"assign", "grant", "revoke"} => desk'[e].stale
      BY <1>3, <2>3, Disturbed DEF PackSteps
    <3> QED BY <1>3, <3>1, <3>2 DEF TaskFits
  <2> QED BY <2>2, <2>3
<1>10. \A e \in Desks, i \in Invites : Accepting(e, i)' => Accepting(e, i)
  BY <1>3, Disturbed DEF Accepting
<1>11. AcceptedOnce'
  BY <1>3, <1>10 DEF SeatInv, AcceptedOnce
<1>12. IdsKept'
  BY <1>3, <1>6 DEF SeatInv, IdsKept
<1>13. Counted'
  BY <1>3, <1>6 DEF SeatInv, Counted
<1>14. QuotaKept'
  <2>1. (ActivePacks \cup lapsed)' = ActivePacks'
    BY <1>3
  <2>2. outOfStep' = "no" => seatCount' = Quota(ActivePacks')
    BY <1>3, <1>7
  <2> QED BY <2>1, <2>2 DEF QuotaKept
<1> QED BY <1>8, <1>9, <1>11, <1>12, <1>13, <1>14 DEF SeatInv

LEMMA SeatAfterExpiry ==
    ASSUME SeatInv, NEW p \in Packs, PackExpires(p)
    PROVE  SeatInv'
<1>1. /\ packs[p] = "active" /\ packs' = [packs EXCEPT ![p] = "expired"] /\ lapsed' = lapsed \cup {p}
      /\ desk' = [d \in Desks |-> [desk[d] EXCEPT !.stale = @ \/ desk[d].step \in PackSteps]]
      /\ UNCHANGED <<seatCount, seatsUsed, seats, sent, overbooked, outOfStep, accepts>>
  BY DEF PackExpires
<1>2. packs' \in [Packs -> {"none", "active", "expired", "revoked"}]
  BY <1>1 DEF SeatInv, SeatTypeOK
<1>3. ASSUME NEW e \in Desks
      PROVE  /\ desk'[e] \in TaskSet
             /\ desk'[e].step = desk[e].step /\ desk'[e].user = desk[e].user
             /\ desk'[e].seat = desk[e].seat /\ desk'[e].pack = desk[e].pack
             /\ desk[e].stale => desk'[e].stale
             /\ desk[e].step \in {"grant", "revoke"} => desk'[e].stale
  <2>1. desk[e] \in TaskSet
    BY DEF SeatInv, SeatTypeOK, TaskSet
  <2>2. PICK s : s = (desk[e].stale \/ desk[e].step \in PackSteps)
    OBVIOUS
  <2>3. s \in BOOLEAN /\ desk'[e] = [desk[e] EXCEPT !.stale = s]
    BY <1>1, <2>1, <2>2 DEF TaskSet
  <2> QED BY <2>1, <2>2, <2>3 DEF TaskSet, PackSteps
<1>4. desk' \in [Desks -> TaskSet]
  BY <1>1, <1>3
<1>5. SeatTypeOK'
  BY <1>1, <1>2, <1>4 DEF SeatInv, SeatTypeOK, TaskSet
<1>6. Assigned' = Assigned
  BY <1>1 DEF Assigned
<1>7. (\A e \in Desks : TaskFits(desk[e]))'
  <2>1. SUFFICES ASSUME NEW e \in Desks PROVE TaskFits(desk[e])'
    OBVIOUS
  <2>2. TaskFits(desk[e])
    BY DEF SeatInv
  <2> QED BY <1>1, <1>3, <1>6, <2>2 DEF TaskFits
<1>8. \A e \in Desks, i \in Invites : Accepting(e, i)' => Accepting(e, i)
  BY <1>3 DEF Accepting
<1>9. AcceptedOnce'
  BY <1>1, <1>8 DEF SeatInv, AcceptedOnce
<1>10. (IdsKept /\ Counted)'
  BY <1>1, <1>6 DEF SeatInv, IdsKept, Counted
<1>11. (ActivePacks \cup lapsed)' = ActivePacks \cup lapsed
  BY <1>1 DEF SeatInv, SeatTypeOK, ActivePacks
<1>12. QuotaKept'
  BY <1>1, <1>11 DEF SeatInv, QuotaKept
<1> QED BY <1>5, <1>7, <1>9, <1>10, <1>12 DEF SeatInv

LEMMA SeatStart == SeatInit => SeatInv
<1> SUFFICES ASSUME SeatInit PROVE SeatInv
  OBVIOUS
<1>1. Assigned = {}
  BY DEF SeatInit, Assigned
<1>2. Cardinality(Assigned) = 0
  BY <1>1, FS_EmptySet
<1>3. ActivePacks = {}
  BY DEF SeatInit, ActivePacks
<1>4. MaxQuota \in Nat
  <2>1. MaxQuota = SumOver(PackSize, Packs)
    BY DEF MaxQuota, SumOver
  <2> QED BY <2>1, SeatAssumption, SumNat
<1>5. NoSeat \in [id : 0 .. MaxInvites, token : 0 .. MaxInvites, accepted : BOOLEAN]
  BY SeatAssumption DEF NoSeat
<1>6. Cardinality(Holders) \in Nat /\ BaseSeats \in Nat
  BY SeatAssumption, FS_CardinalityType
<1>7. desk \in [Desks -> TaskSet]
  BY NoTaskFits DEF SeatInit
<1>8. SeatTypeOK
  <2>1. seatCount \in 0 .. (BaseSeats + MaxQuota) /\ seatsUsed \in 0 .. Cardinality(Holders)
    BY <1>4, <1>6 DEF SeatInit
  <2>2. seats \in [Holders -> [id : 0 .. MaxInvites, token : 0 .. MaxInvites, accepted : BOOLEAN]]
    BY <1>5 DEF SeatInit
  <2>3. accepts \in [Invites -> [times : Nat, raced : BOOLEAN]] /\ sent \in 0 .. MaxInvites
    BY SeatAssumption DEF SeatInit
  <2> QED BY <1>7, <2>1, <2>2, <2>3 DEF SeatInit, SeatTypeOK, TaskSet
<1>9. \A d \in Desks : desk[d].step = "idle"
  BY NoTaskFits DEF SeatInit
<1>10. \A d \in Desks : TaskFits(desk[d])
  BY <1>9 DEF TaskFits
<1>11. IdsKept /\ AcceptedOnce
  BY <1>1, <1>9 DEF SeatInit, IdsKept, AcceptedOnce, Accepting
<1>12. Counted /\ QuotaKept
  BY <1>2, <1>6 DEF SeatInit, Counted, QuotaKept
<1> QED BY <1>8, <1>10, <1>11, <1>12 DEF SeatInv

LEMMA SeatInductive == SeatInv /\ [SeatNext]_seatVars => SeatInv'
<1> SUFFICES ASSUME SeatInv, [SeatNext]_seatVars PROVE SeatInv'
  OBVIOUS
<1>1. CASE UNCHANGED seatVars
  <2>1. Assigned' = Assigned /\ ActivePacks' = ActivePacks
    BY <1>1 DEF seatVars, Assigned, ActivePacks
  <2>2. (\A d \in Desks : TaskFits(desk[d]))'
    BY <1>1, <2>1 DEF seatVars, SeatInv, TaskFits
  <2> QED BY <1>1, <2>1, <2>2 DEF seatVars, SeatInv, SeatTypeOK, IdsKept, AcceptedOnce, Accepting, Counted,
                                  QuotaKept
<1>2. ASSUME NEW d \in Desks,
             \/ CommitSeat(d) \/ AcceptSeatInvite(d) \/ WriteAcceptance(d) \/ WriteResend(d)
             \/ RevokePack(d) \/ CommitPack(d) \/ TaskFails(d)
             \/ \E u \in Holders :
                  \/ AssignSeat(d, u) \/ ResendSeatInvite(d, u)
                  \/ \E i \in Invites : OpenInvite(d, u, i)
             \/ desk[d].step = "bulk" /\ BulkGoesOn(d, desk[d].rest)
             \/ \E users \in SUBSET Holders : BulkAssign(d, users)
             \/ \E p \in Packs : GrantPack(d, p) \/ FindPack(d, p)
      PROVE  SeatInv'
  BY <1>2, SeatAfterBegin, SeatAfterPackRead, SeatAfterCommitSeat, SeatAfterAccept, SeatAfterWriteAcceptance,
     SeatAfterWriteResend, SeatAfterCommitPack
<1> QED BY <1>1, <1>2, SeatAfterRemove, SeatAfterExpiry DEF SeatNext

\* The seats in use are the assignments, and every way of having more of them
\* than the licence allows or of accepting one twice is one that two handlers or
\* a pack's end made.  The count the last transaction on a pack wrote is the
\* quota of the packs in force and of those that ran out since, unless its
\* reading was stale: for any number of addresses, packs of any size,
\* invitations and handlers.
THEOREM SeatsCounted == SeatSpec => []SeatsAddUp
<1>1. SeatInv => SeatsAddUp
  <2> SUFFICES ASSUME SeatInv PROVE SeatsAddUp
    OBVIOUS
  <2>1. \A i \in Invites : accepts[i].times > 1 => accepts[i].raced
    BY DEF SeatInv, AcceptedOnce
  <2> QED BY <2>1 DEF SeatInv, SeatsAddUp, Counted, QuotaKept
<1> QED BY <1>1, SeatStart, SeatInductive, PTL DEF SeatSpec

\* Every variable of the seats keeps its type.
THEOREM SeatTypes == SeatSpec => []SeatTypeOK
<1>1. SeatInv => SeatTypeOK
  BY DEF SeatInv
<1> QED BY <1>1, SeatStart, SeatInductive, PTL DEF SeatSpec

-----------------------------------------------------------------------------
(* Releases. *)

JobSet == [step : JobSteps, op : Operations, id : ReleaseIds \cup {Missing},
           row : ReleaseRows \cup {Missing}, change : Changes, part : Components \cup {Missing},
           body : Bodies \cup {Missing}, stale : BOOLEAN, crossed : BOOLEAN]

ReleaseTypes ==
    /\ release \in [ReleaseIds -> ReleaseRows \cup {Missing}]
    /\ objects \in [Keys -> Bodies \cup {Missing}]
    /\ job \in [Clerks -> JobSet]
    /\ begun \in 0 .. MaxBegun
    /\ unsigned \subseteq ReleaseIds /\ mixed \subseteq Channels
    /\ claims \in [Keys -> SUBSET ReleaseIds] /\ dirty \subseteq Keys

Activating == {"create", "update", "activate"}
Uploading  == {"artefact", "component"}

\* A job has what its steps work on.
JobShape(j) ==
    /\ j.step # "idle" => j.id \in ReleaseIds /\ j.row \in ReleaseRows
    /\ j.step \in {"deactivate", "write"} => j.op \in Activating
    /\ j.step = "deactivate" /\ j.op # "activate" => j.row.active
    /\ j.step = "upload" => j.op \in Uploading
    /\ j.step = "record" => j.op \in {"component", "unpart"}
    /\ j.step \in {"readParts", "sign"} => j.op \in Uploading \cup {"update", "unpart"}
    /\ j.step # "idle" /\ j.op \in Uploading => j.body \in Bodies
    /\ j.step # "idle" /\ j.op \in {"component", "unpart"} => j.part \in Components

\* Nobody else works on a release that is yet to be written.
CreatesAlone(c) ==
    ~JobAt(c, "idle") /\ job[c].op = "create" =>
        /\ ~Stored(job[c].id) /\ \A d \in Clerks \ {c} : job[d].id # job[c].id
        /\ job[c].row.artefact = NoFile /\ \A p \in Components : job[c].row.parts[p] = NoFile
        /\ job[c].row.signature = Manifest(job[c].row)

\* Until another activation crosses it, a job that will leave its release active
\* has cleared the channel the release will be on.
Cleared(c) ==
    LET j == job[c] IN
    ~j.crossed =>
        /\ (JobAt(c, "write") /\ (j.op = "activate" \/ j.row.active)) => ActiveOn(j.row.channel) \subseteq {j.id}
        /\ (j.step \in {"deactivate", "write"} /\ j.op = "update" /\ Stored(j.id)) =>
             /\ Changed(release[j.id], j.change).channel = j.row.channel
             /\ Changed(release[j.id], j.change).active => j.row.active
        /\ (j.step \in {"deactivate", "write"} /\ j.op = "activate" /\ Stored(j.id)) =>
             release[j.id].channel = j.row.channel

\* Until another writes to the manifest, a job that will sign has the row as it is.
WillSign(j) ==
    \/ j.op \in Uploading \cup {"unpart"} /\ j.step # "idle"
    \/ j.op = "update" /\ j.step \in {"readParts", "sign"}
ReadAsIs(c) ==
    LET j == job[c]
        row == release[j.id]
    IN  (WillSign(j) /\ ~j.stale /\ Stored(j.id)) =>
          /\ j.row.version = row.version /\ j.row.channel = row.channel /\ j.row.artefact = row.artefact
          /\ j.step = "sign" => j.row.parts = row.parts
          /\ (j.op = "component" /\ j.step \in {"readParts", "sign"}) => row.parts[j.part] = File(j)

\* The key of an upload is dirty until it is recorded.
UploadDirty(c) ==
    (job[c].step \in {"record", "readParts", "sign"} /\ job[c].op \in Uploading) => Key(job[c]) \in dirty

JobFits(c) == JobShape(job[c]) /\ CreatesAlone(c) /\ Cleared(c) /\ ReadAsIs(c) /\ UploadDirty(c)

\* A component's file has a key of the component, the single artefact a key of
\* its own or of the image.
PartKey(k, p) == \E v \in Versions : k = <<v, p>>
FilesNamed(r) ==
    /\ \A p \in Components : release[r].parts[p] # NoFile => PartKey(release[r].parts[p].key, p)
    /\ release[r].artefact # NoFile =>
         release[r].artefact.key = <<Filename>> \/ PartKey(release[r].artefact.key, ImageOf)

\* A clean key that one release has recorded holds what that release says.
HeldAsRecorded(r, k) ==
    (k \notin dirty /\ claims[k] = {r}) =>
        /\ release[r].artefact # NoFile /\ release[r].artefact.key = k => release[r].artefact.body = objects[k]
        /\ \A p \in Components : release[r].parts[p] # NoFile /\ release[r].parts[p].key = k =>
             release[r].parts[p].body = objects[k]

RowFits(r) ==
    Stored(r) => /\ r \notin unsigned => release[r].signature = Manifest(release[r])
                 /\ FilesNamed(r)
                 /\ \A k \in Keys : HeldAsRecorded(r, k)

AloneOnChannel(ch) == ch \notin mixed => \A r, q \in ActiveOn(ch) : r = q

ReleaseInv ==
    /\ ReleaseTypes
    /\ \A c \in Clerks : JobFits(c)
    /\ \A r \in ReleaseIds : RowFits(r)
    /\ \A ch \in Channels : AloneOnChannel(ch)

-----------------------------------------------------------------------------
(* Rows, files and jobs. *)

LEMMA NoFileFits == NoFile \in Files /\ [p \in Components |-> NoFile] \in Parts
BY DEF Files, Parts

LEMMA FileFits ==
    ASSUME NEW j \in JobSet, JobShape(j), j.step # "idle", j.op \in Uploading
    PROVE  Key(j) \in Keys /\ File(j) \in Files /\ File(j).key = Key(j) /\ File(j).body = j.body
<1>1. j.body \in Bodies /\ j.row \in ReleaseRows /\ (j.op = "component" => j.part \in Components)
  BY DEF JobShape
<1>2. j.row.version \in Versions
  BY <1>1 DEF ReleaseRows
<1>3. Key(j) \in Keys
  BY <1>1, <1>2 DEF Key, Keys, Uploading
<1> QED BY <1>1, <1>3 DEF File, Files

LEMMA ManifestFits ==
    ASSUME NEW row \in ReleaseRows
    PROVE  Manifest(row) \in Manifests
BY DEF Manifest, Manifests, ReleaseRows

LEMMA NewRowFits ==
    ASSUME NEW v \in Versions, NEW ch \in Channels, NEW on \in BOOLEAN, NEW row, row = NewRow(v, ch, on)
    PROVE  /\ row \in ReleaseRows /\ row.version = v /\ row.channel = ch /\ row.active = on
           /\ row.artefact = NoFile /\ row.parts = [p \in Components |-> NoFile]
           /\ row.signature = Manifest(row)
BY NoFileFits DEF NewRow, Manifest, Manifests, ReleaseRows

LEMMA ChangedFits ==
    ASSUME NEW row \in ReleaseRows, NEW ch \in Changes, NEW next, next = Changed(row, ch)
    PROVE  /\ next \in ReleaseRows /\ next.artefact = row.artefact /\ next.parts = row.parts
           /\ next.signature = row.signature
           /\ next.version = Given(ch.version, row.version) /\ next.channel = Given(ch.channel, row.channel)
           /\ next.active = Given(ch.active, row.active)
<1>1. /\ Given(ch.version, row.version) \in Versions /\ Given(ch.channel, row.channel) \in Channels
      /\ Given(ch.active, row.active) \in BOOLEAN
  BY DEF Given, Changes, ReleaseRows
<1> QED BY <1>1 DEF Changed, ReleaseRows

LEMMA NoJobFits == NoJob \in JobSet /\ NoJob.step = "idle" /\ NoJob.id = Missing
BY DEF NoJob, JobSet, JobSteps, Operations, NoChange, Changes

-----------------------------------------------------------------------------
(* What one clerk's step leaves of the others'. *)

\* The job of d is as it was, or out of date.
Aged(d) ==
    /\ job'[d].step = job[d].step /\ job'[d].op = job[d].op /\ job'[d].id = job[d].id
    /\ job'[d].row = job[d].row /\ job'[d].change = job[d].change
    /\ job'[d].part = job[d].part /\ job'[d].body = job[d].body
    /\ job[d].stale => job'[d].stale
    /\ job[d].crossed => job'[d].crossed

NoMoreActive ==
    \A r \in ReleaseIds : release'[r] # Missing /\ release'[r].active =>
        Stored(r) /\ release[r].active /\ release'[r].channel = release[r].channel
SameChannel(r) == release'[r] # Missing => Stored(r) /\ release'[r].channel = release[r].channel
SameFiles(r) ==
    release'[r] # Missing => /\ Stored(r) /\ release'[r].version = release[r].version
                  /\ release'[r].channel = release[r].channel
                  /\ release'[r].artefact = release[r].artefact /\ release'[r].parts = release[r].parts

LEMMA QuietChannels ==
    ASSUME NoMoreActive
    PROVE  \A ch : ActiveOn(ch)' \subseteq ActiveOn(ch)
BY DEF NoMoreActive, ActiveOn, Stored

LEMMA AgedFits ==
    ASSUME ReleaseInv, NEW d \in Clerks, Aged(d), ReleaseTypes',
           (~JobAt(d, "idle") /\ job[d].op = "create") =>
               release'[job[d].id] = Missing /\ \A e \in Clerks \ {d} : job'[e].id # job[d].id,
           (~JobAt(d, "idle") /\ ~job'[d].crossed) => NoMoreActive /\ SameChannel(job[d].id),
           (~JobAt(d, "idle") /\ ~job'[d].stale) => SameFiles(job[d].id),
           Key(job[d]) \in dirty /\ ~JobAt(d, "idle") /\ job[d].op \in Uploading => Key(job[d]) \in dirty'
    PROVE  JobFits(d)'
<1>1. JobFits(d) /\ job[d] \in JobSet /\ job'[d] \in JobSet
  BY DEF ReleaseInv, ReleaseTypes
<1>2. JobShape(job[d])'
  BY <1>1 DEF JobFits, JobShape, Aged
<1>3. CreatesAlone(d)'
  <2> SUFFICES ASSUME JobAt(d, "idle")' = FALSE, job'[d].op = "create"
               PROVE  /\ release'[job[d].id] = Missing /\ \A e \in Clerks \ {d} : job'[e].id # job[d].id
                      /\ job[d].row.artefact = NoFile /\ \A p \in Components : job[d].row.parts[p] = NoFile
                      /\ job[d].row.signature = Manifest(job[d].row)
    BY DEF CreatesAlone, JobAt, Aged, Stored
  <2>1. ~JobAt(d, "idle") /\ job[d].op = "create"
    BY DEF JobAt, Aged
  <2> QED BY <1>1, <2>1 DEF JobFits, CreatesAlone
<1>4. Cleared(d)'
  <2>1. CASE JobAt(d, "idle")
    BY <2>1 DEF Cleared, JobAt, Aged
  <2>2. CASE job'[d].crossed
    BY <2>2 DEF Cleared
  <2>3. CASE ~JobAt(d, "idle") /\ ~job'[d].crossed
    <3>1. NoMoreActive /\ SameChannel(job[d].id) /\ ~job[d].crossed
      BY <2>3 DEF Aged
    <3>2. \A ch : ActiveOn(ch)' \subseteq ActiveOn(ch)
      BY <3>1, QuietChannels
    <3>3. job[d].id \in ReleaseIds /\ job[d].change \in Changes
      BY <1>1, <2>3 DEF JobFits, JobShape, JobAt, JobSet
    <3>4. (JobAt(d, "write")' /\ (job'[d].op = "activate" \/ job'[d].row.active)) =>
            ActiveOn(job[d].row.channel)' \subseteq {job[d].id}
      BY <1>1, <3>1, <3>2 DEF JobFits, Cleared, JobAt, Aged
    <3>5. ASSUME job'[d].step \in {"deactivate", "write"}, job'[d].op = "update", release'[job[d].id] # Missing
          PROVE  /\ Changed(release'[job[d].id], job[d].change).channel = job[d].row.channel
                 /\ Changed(release'[job[d].id], job[d].change).active => job[d].row.active
      <4>1. PICK old : old = release[job[d].id]
        OBVIOUS
      <4>2. PICK new : new = release'[job[d].id]
        OBVIOUS
      <4>3. Stored(job[d].id) /\ new.channel = old.channel /\ (new.active => old.active)
        BY <3>1, <3>3, <3>5, <4>1, <4>2 DEF SameChannel, NoMoreActive
      <4>4. old \in ReleaseRows /\ new \in ReleaseRows
        BY <3>3, <3>5, <4>1, <4>2, <4>3 DEF ReleaseInv, ReleaseTypes, Stored
      <4>5. /\ Changed(old, job[d].change).channel = job[d].row.channel
            /\ Changed(old, job[d].change).active => job[d].row.active
        BY <1>1, <3>1, <3>5, <4>1, <4>3 DEF JobFits, Cleared, Aged
      <4> QED BY <3>3, <4>2, <4>3, <4>4, <4>5, ChangedFits DEF Given
    <3>6. ASSUME job'[d].step \in {"deactivate", "write"}, job'[d].op = "activate", release'[job[d].id] # Missing
          PROVE  release'[job[d].id].channel = job[d].row.channel
      BY <1>1, <3>1, <3>6 DEF SameChannel, JobFits, Cleared, Aged
    <3> QED BY <3>4, <3>5, <3>6 DEF Cleared, Aged, Stored
  <2> QED BY <2>1, <2>2, <2>3
<1>5. ReadAsIs(d)'
  <2> SUFFICES ASSUME WillSign(job'[d]), ~job'[d].stale, release'[job[d].id] # Missing
               PROVE  /\ job[d].row.version = release'[job[d].id].version
                      /\ job[d].row.channel = release'[job[d].id].channel
                      /\ job[d].row.artefact = release'[job[d].id].artefact
                      /\ job[d].step = "sign" => job[d].row.parts = release'[job[d].id].parts
                      /\ (job[d].op = "component" /\ job[d].step \in {"readParts", "sign"}) =>
                           release'[job[d].id].parts[job[d].part] = File(job[d])
    BY DEF ReadAsIs, Aged, File, Key, Stored, WillSign
  <2>1. WillSign(job[d]) /\ ~job[d].stale /\ ~JobAt(d, "idle")
    BY DEF WillSign, Aged, JobAt
  <2>2. SameFiles(job[d].id)
    BY <2>1
  <2> QED BY <1>1, <2>1, <2>2 DEF SameFiles, JobFits, ReadAsIs
<1>6. UploadDirty(d)'
  BY <1>1 DEF JobFits, UploadDirty, Aged, Key, JobAt
<1> QED BY <1>2, <1>3, <1>4, <1>5, <1>6 DEF JobFits

LEMMA RowKept ==
    ASSUME ReleaseInv, NEW r \in ReleaseIds, SameFiles(r),
           release'[r] # Missing => release'[r].signature = release[r].signature /\ (r \in unsigned => r \in unsigned'),
           \A k \in Keys : k \notin dirty' /\ claims'[k] = {r} =>
               k \notin dirty /\ claims[k] = {r} /\ objects'[k] = objects[k]
    PROVE  RowFits(r)'
<1> SUFFICES ASSUME release'[r] # Missing PROVE RowFits(r)'
  BY DEF RowFits, Stored
<1>1. RowFits(r) /\ Stored(r)
  BY DEF ReleaseInv, SameFiles
<1>2. r \notin unsigned' => release'[r].signature = Manifest(release'[r])
  BY <1>1 DEF RowFits, SameFiles, Manifest
<1>3. FilesNamed(r)'
  BY <1>1 DEF RowFits, FilesNamed, SameFiles, PartKey
<1>4. \A k \in Keys : HeldAsRecorded(r, k)'
  BY <1>1 DEF RowFits, HeldAsRecorded, SameFiles
<1> QED BY <1>2, <1>3, <1>4 DEF RowFits

LEMMA ChannelKept ==
    ASSUME ReleaseInv, NoMoreActive, mixed' = mixed
    PROVE  (\A ch \in Channels : AloneOnChannel(ch))'
BY QuietChannels DEF ReleaseInv, AloneOnChannel

-----------------------------------------------------------------------------
(* Requests that begin, go on or fail. *)

\* Only the job of c changes, to one that does not sign yet or signs what it reads.
LEMMA JobReplaced ==
    ASSUME ReleaseInv, NEW c \in Clerks, NEW j \in JobSet, job' = [job EXCEPT ![c] = j],
           UNCHANGED <<release, objects, unsigned, mixed, claims, dirty>>, begun' \in 0 .. MaxBegun,
           JobFits(c)',
           j.id \in {job[c].id, Missing} \/ \A d \in Clerks : job[d].op = "create" /\ job[d].step # "idle" => job[d].id # j.id
    PROVE  ReleaseInv'
<1>1. /\ job' \in [Clerks -> JobSet] /\ job'[c] = j
      /\ \A d \in Clerks \ {c} : job'[d] = job[d]
  BY DEF ReleaseInv, ReleaseTypes
<1>2. ReleaseTypes'
  BY <1>1 DEF ReleaseInv, ReleaseTypes
<1>3. NoMoreActive /\ \A r : SameChannel(r) /\ SameFiles(r)
  BY DEF NoMoreActive, SameChannel, SameFiles, Stored
<1>4. ASSUME NEW d \in Clerks, d # c PROVE JobFits(d)'
  <2>1. Aged(d)
    BY <1>1, <1>4 DEF Aged
  <2>2. (~JobAt(d, "idle") /\ job[d].op = "create") =>
               release'[job[d].id] = Missing /\ \A e \in Clerks \ {d} : job'[e].id # job[d].id
    <3>1. (~JobAt(d, "idle") /\ job[d].op = "create") =>
            /\ release[job[d].id] = Missing /\ \A e \in Clerks \ {d} : job[e].id # job[d].id
            /\ job[d].id \in ReleaseIds
      BY DEF ReleaseInv, JobFits, CreatesAlone, Stored, JobShape, JobAt
    <3>2. (~JobAt(d, "idle") /\ job[d].op = "create") => j.id # job[d].id
      BY <1>4, <3>1, ReleaseAssumption DEF JobAt
    <3> QED BY <1>1, <3>1, <3>2
  <2> QED BY <1>2, <1>3, <2>1, <2>2, AgedFits
<1>5. \A r \in ReleaseIds : RowFits(r)'
  BY <1>3, RowKept
<1>6. (\A ch \in Channels : AloneOnChannel(ch))'
  BY <1>3, ChannelKept
<1> QED BY <1>2, <1>4, <1>5, <1>6 DEF ReleaseInv

\* A job that is done, or has only read the row of a release and nothing else.
LEMMA FreshJobFits ==
    ASSUME ReleaseInv, NEW c \in Clerks, NEW j \in JobSet, job' = [job EXCEPT ![c] = j],
           release' = release, JobShape(j), j.step \in {"idle", "deactivate", "write", "upload", "record"},
           j.step = "write" => j.op = "update" /\ ~j.row.active,
           j.step # "idle" => /\ j.op \in {"update", "activate", "unpart"} \cup Uploading
                              /\ Stored(j.id)
                              /\ j.op # "update" => j.row = release[j.id]
                              /\ j.op = "update" => j.row = Changed(release[j.id], j.change)
                              /\ j.op \in Uploading => j.step = "upload"
    PROVE  JobFits(c)'
<1>1. job'[c] = j
  BY DEF ReleaseInv, ReleaseTypes
<1>2. JobShape(job[c])'
  BY <1>1 DEF JobShape
<1>3. CreatesAlone(c)'
  BY <1>1 DEF CreatesAlone, JobAt, Uploading
<1>4. Cleared(c)'
  BY <1>1 DEF Cleared, JobAt, Stored
<1>5. ReadAsIs(c)'
  BY <1>1 DEF ReadAsIs, WillSign, Stored, Uploading
<1>6. UploadDirty(c)'
  BY <1>1 DEF UploadDirty
<1> QED BY <1>2, <1>3, <1>4, <1>5, <1>6 DEF JobFits

\* What a release that is stored is to the jobs under way: none is creating it.
LEMMA StoredFits ==
    ASSUME ReleaseInv, NEW r \in ReleaseIds, Stored(r)
    PROVE  /\ release[r] \in ReleaseRows
           /\ \A d \in Clerks : job[d].op = "create" /\ job[d].step # "idle" => job[d].id # r
BY DEF ReleaseInv, ReleaseTypes, Stored, JobFits, CreatesAlone, JobAt

LEMMA BegunFits ==
    ASSUME ReleaseInv, NEW c \in Clerks, NEW j \in JobSet, BeginJob(c, j)
    PROVE  begun' \in 0 .. MaxBegun /\ job' = [job EXCEPT ![c] = j] /\ JobAt(c, "idle")
BY ReleaseAssumption DEF ReleaseInv, ReleaseTypes, BeginJob

LEMMA AfterRequest ==
    ASSUME ReleaseInv, NEW c \in Clerks, NEW r \in ReleaseIds,
           \/ \E change \in Edits : UpdateRelease(c, r, change)
           \/ \E b \in Bodies : PutArtifact(c, r, b) \/ \E p \in Components : PutComponent(c, r, p, b)
           \/ \E p \in Components : DeleteComponent(c, r, p)
           \/ ActivateRelease(c, r)
    PROVE  ReleaseInv'
<1>1. Stored(r) /\ UNCHANGED <<release, objects, unsigned, mixed, claims, dirty>>
  BY DEF UpdateRelease, PutArtifact, PutComponent, DeleteComponent, ActivateRelease
<1>2. release[r] \in ReleaseRows
      /\ \A d \in Clerks : job[d].op = "create" /\ job[d].step # "idle" => job[d].id # r
  BY <1>1, StoredFits
<1>3. ASSUME NEW j \in JobSet, BeginJob(c, j), JobShape(j), j.id = r,
             \/ j.op = "update" /\ j.row = Changed(release[r], j.change)
                /\ (j.step = "deactivate" \/ (j.step = "write" /\ ~j.row.active))
             \/ j.op = "activate" /\ j.step = "deactivate" /\ j.row = release[r]
             \/ j.op \in Uploading /\ j.step = "upload" /\ j.row = release[r]
             \/ j.op = "unpart" /\ j.step = "record" /\ j.row = release[r]
      PROVE  ReleaseInv'
  <2>1. begun' \in 0 .. MaxBegun /\ job' = [job EXCEPT ![c] = j]
    BY <1>3, BegunFits
  <2>2. JobFits(c)'
    BY <1>1, <1>3, <2>1, FreshJobFits DEF Uploading
  <2> QED BY <1>1, <1>2, <1>3, <2>1, <2>2, JobReplaced
<1>4. ASSUME NEW change \in Edits, UpdateRelease(c, r, change) PROVE ReleaseInv'
  <2>1. PICK next : next = Changed(release[r], change)
    OBVIOUS
  <2>2. next \in ReleaseRows /\ next.active \in BOOLEAN /\ change \in Changes
    BY <1>2, <2>1, ChangedFits, ReleaseShapes DEF ReleaseRows
  <2>3. PICK s : s = IF next.active THEN "deactivate" ELSE "write"
    OBVIOUS
  <2>4. PICK j : j = [NoJob EXCEPT !.op = "update", !.id = r, !.row = next, !.change = change, !.step = s]
    OBVIOUS
  <2>5. j \in JobSet /\ j.op = "update" /\ j.id = r /\ j.row = next /\ j.change = change /\ j.step = s
    BY <2>2, <2>3, <2>4, NoJobFits DEF NoJob, JobSet, JobSteps, Operations
  <2>6. JobShape(j)
    BY <2>2, <2>3, <2>5 DEF JobShape, Activating, Uploading
  <2>7. BeginJob(c, j)
    BY <1>4, <2>1, <2>3, <2>4 DEF UpdateRelease
  <2> QED BY <1>3, <2>1, <2>3, <2>5, <2>6, <2>7
<1>5. ASSUME ActivateRelease(c, r) PROVE ReleaseInv'
  <2>1. PICK j : j = [NoJob EXCEPT !.op = "activate", !.id = r, !.row = release[r], !.step = "deactivate"]
    OBVIOUS
  <2>2. j \in JobSet /\ j.op = "activate" /\ j.id = r /\ j.row = release[r] /\ j.step = "deactivate"
    BY <1>2, <2>1, NoJobFits DEF NoJob, JobSet, JobSteps, Operations
  <2>3. JobShape(j)
    BY <1>2, <2>2 DEF JobShape, Activating, Uploading
  <2> QED BY <1>3, <1>5, <2>1, <2>2, <2>3 DEF ActivateRelease
<1>6. ASSUME NEW b \in Bodies, PutArtifact(c, r, b) PROVE ReleaseInv'
  <2>1. PICK j : j = [NoJob EXCEPT !.op = "artefact", !.id = r, !.row = release[r], !.body = b, !.step = "upload"]
    OBVIOUS
  <2>2. /\ j \in JobSet /\ j.op = "artefact" /\ j.id = r /\ j.row = release[r] /\ j.body = b
        /\ j.step = "upload"
    BY <1>2, <2>1, NoJobFits DEF NoJob, JobSet, JobSteps, Operations
  <2>3. JobShape(j)
    BY <1>2, <2>2 DEF JobShape, Activating, Uploading
  <2> QED BY <1>3, <1>6, <2>1, <2>2, <2>3 DEF PutArtifact, Uploading
<1>7. ASSUME NEW b \in Bodies, NEW p \in Components, PutComponent(c, r, p, b) PROVE ReleaseInv'
  <2>1. PICK j : j = [NoJob EXCEPT !.op = "component", !.id = r, !.row = release[r], !.part = p,
                                   !.body = b, !.step = "upload"]
    OBVIOUS
  <2>2. /\ j \in JobSet /\ j.op = "component" /\ j.id = r /\ j.row = release[r] /\ j.body = b
        /\ j.part = p /\ j.step = "upload"
    BY <1>2, <2>1, NoJobFits DEF NoJob, JobSet, JobSteps, Operations
  <2>3. JobShape(j)
    BY <1>2, <2>2 DEF JobShape, Activating, Uploading
  <2> QED BY <1>3, <1>7, <2>1, <2>2, <2>3 DEF PutComponent, Uploading
<1>8. ASSUME NEW p \in Components, DeleteComponent(c, r, p) PROVE ReleaseInv'
  <2>1. PICK j : j = [NoJob EXCEPT !.op = "unpart", !.id = r, !.row = release[r], !.part = p, !.step = "record"]
    OBVIOUS
  <2>2. /\ j \in JobSet /\ j.op = "unpart" /\ j.id = r /\ j.row = release[r] /\ j.part = p
        /\ j.step = "record"
    BY <1>2, <2>1, NoJobFits DEF NoJob, JobSet, JobSteps, Operations
  <2>3. JobShape(j)
    BY <1>2, <2>2 DEF JobShape, Activating, Uploading
  <2> QED BY <1>3, <1>8, <2>1, <2>2, <2>3 DEF DeleteComponent
<1> QED BY <1>4, <1>5, <1>6, <1>7, <1>8

LEMMA AfterCreateRequest ==
    ASSUME ReleaseInv, NEW c \in Clerks, NEW r \in ReleaseIds, NEW v \in Versions, NEW ch \in Channels,
           NEW on \in BOOLEAN, CreateRelease(c, r, v, ch, on)
    PROVE  ReleaseInv'
<1>1. PICK row : row = NewRow(v, ch, on)
  OBVIOUS
<1>2. /\ row \in ReleaseRows /\ row.active = on /\ row.artefact = NoFile
      /\ row.parts = [p \in Components |-> NoFile] /\ row.signature = Manifest(row)
  BY <1>1, NewRowFits
<1>3. PICK s : s = IF on THEN "deactivate" ELSE "write"
  OBVIOUS
<1>4. PICK j : j = [NoJob EXCEPT !.op = "create", !.id = r, !.row = row, !.step = s]
  OBVIOUS
<1>5. j \in JobSet /\ j.op = "create" /\ j.id = r /\ j.row = row /\ j.step = s /\ ~j.crossed
  BY <1>2, <1>3, <1>4, NoJobFits DEF NoJob, JobSet, JobSteps, Operations
<1>6. /\ ~Stored(r) /\ \A d \in Clerks : job[d].id # r
      /\ BeginJob(c, j) /\ UNCHANGED <<release, objects, unsigned, mixed, claims, dirty>>
  BY <1>1, <1>3, <1>4 DEF CreateRelease
<1>7. begun' \in 0 .. MaxBegun /\ job' = [job EXCEPT ![c] = j]
  BY <1>5, <1>6, BegunFits
<1>8. job'[c] = j /\ \A d \in Clerks \ {c} : job'[d] = job[d]
  BY <1>7 DEF ReleaseInv, ReleaseTypes
<1>9. JobShape(job[c])'
  BY <1>2, <1>3, <1>5, <1>8 DEF JobShape, Activating, Uploading
<1>10. CreatesAlone(c)'
  BY <1>2, <1>5, <1>6, <1>8 DEF CreatesAlone, Stored
<1>11. Cleared(c)' /\ ReadAsIs(c)' /\ UploadDirty(c)'
  BY <1>2, <1>3, <1>5, <1>8 DEF Cleared, JobAt, ReadAsIs, WillSign, UploadDirty, Uploading
<1>12. JobFits(c)'
  BY <1>9, <1>10, <1>11 DEF JobFits
<1> QED BY <1>5, <1>6, <1>7, <1>12, JobReplaced

LEMMA AfterFailure ==
    ASSUME ReleaseInv, NEW c \in Clerks, JobFails(c)
    PROVE  ReleaseInv'
<1>1. /\ job' = [job EXCEPT ![c] = NoJob]
      /\ UNCHANGED <<release, objects, begun, unsigned, mixed, claims, dirty>>
  BY DEF JobFails
<1>2. JobShape(NoJob)
  BY NoJobFits DEF JobShape, NoJob
<1>3. JobFits(c)'
  BY <1>1, <1>2, NoJobFits, FreshJobFits
<1> QED BY <1>1, <1>3, NoJobFits, JobReplaced DEF ReleaseInv, ReleaseTypes

LEMMA AfterReadParts ==
    ASSUME ReleaseInv, NEW c \in Clerks, ReadParts(c)
    PROVE  ReleaseInv'
<1>1. PICK r : r = job[c].id
  OBVIOUS
<1>2. /\ JobAt(c, "readParts") /\ Stored(r)
      /\ job' = [job EXCEPT ![c].step = "sign", ![c].row.parts = release[r].parts]
      /\ UNCHANGED <<release, objects, begun, unsigned, mixed, claims, dirty>>
  BY <1>1 DEF ReadParts
<1>3. job[c] \in JobSet /\ r \in ReleaseIds /\ job[c].row \in ReleaseRows
      /\ job[c].op \in Uploading \cup {"update", "unpart"} /\ release[r] \in ReleaseRows
  BY <1>1, <1>2 DEF ReleaseInv, ReleaseTypes, JobFits, JobShape, JobAt, Stored
<1>4. PICK row : row = [job[c].row EXCEPT !.parts = release[r].parts]
  OBVIOUS
<1>5. /\ row \in ReleaseRows /\ row.parts = release[r].parts /\ row.version = job[c].row.version
      /\ row.channel = job[c].row.channel /\ row.artefact = job[c].row.artefact
  BY <1>3, <1>4 DEF ReleaseRows
<1>6. PICK j : j = [job[c] EXCEPT !.step = "sign", !.row = row]
  OBVIOUS
<1>7. /\ j \in JobSet /\ j.step = "sign" /\ j.row = row /\ j.id = r /\ j.op = job[c].op
      /\ j.part = job[c].part /\ j.body = job[c].body /\ j.stale = job[c].stale
  BY <1>1, <1>3, <1>5, <1>6 DEF JobSet, JobSteps
<1>8. job' = [job EXCEPT ![c] = j]
  BY <1>2, <1>3, <1>4, <1>6 DEF ReleaseInv, ReleaseTypes
<1>9. job'[c] = j
  BY <1>8 DEF ReleaseInv, ReleaseTypes
<1>10. JobFits(c)'
  <2>1. JobFits(c)
    BY DEF ReleaseInv
  <2>2. JobShape(job[c])'
    BY <1>2, <1>3, <1>5, <1>7, <1>9, <2>1 DEF JobShape, JobFits, JobAt
  <2>3. CreatesAlone(c)' /\ Cleared(c)'
    BY <1>3, <1>7, <1>9 DEF CreatesAlone, Cleared, JobAt, Uploading
  <2>4. Key(j) = Key(job[c]) /\ File(j) = File(job[c])
    BY <1>5, <1>7 DEF Key, File
  <2>5. ReadAsIs(c)'
    BY <1>1, <1>2, <1>3, <1>5, <1>7, <1>9, <2>1, <2>4 DEF ReadAsIs, WillSign, JobFits, JobAt, Stored
  <2>6. UploadDirty(c)'
    BY <1>2, <1>7, <1>9, <2>1, <2>4 DEF UploadDirty, JobFits, JobAt
  <2> QED BY <2>2, <2>3, <2>5, <2>6 DEF JobFits
<1> QED BY <1>1, <1>2, <1>7, <1>8, <1>10, JobReplaced DEF ReleaseInv, ReleaseTypes

-----------------------------------------------------------------------------
(* Objects and channels. *)

\* The clerk's own job only moves to another step.
LEMMA GoesOn ==
    ASSUME ReleaseInv, NEW c \in Clerks, NEW s \in JobSteps, GoOn(c, s)
    PROVE  /\ job' \in [Clerks -> JobSet] /\ job'[c].step = s
           /\ \A d \in Clerks \ {c} : job'[d] = job[d]
           /\ job'[c].op = job[c].op /\ job'[c].id = job[c].id /\ job'[c].row = job[c].row
           /\ job'[c].change = job[c].change /\ job'[c].part = job[c].part /\ job'[c].body = job[c].body
           /\ job'[c].stale = job[c].stale /\ job'[c].crossed = job[c].crossed
<1>1. PICK j : j = [job[c] EXCEPT !.step = s]
  OBVIOUS
<1>2. job[c] \in JobSet
  BY DEF ReleaseInv, ReleaseTypes
<1>3. /\ j \in JobSet /\ j.step = s /\ j.op = job[c].op /\ j.id = job[c].id /\ j.row = job[c].row
      /\ j.change = job[c].change /\ j.part = job[c].part /\ j.body = job[c].body
      /\ j.stale = job[c].stale /\ j.crossed = job[c].crossed
  BY <1>1, <1>2 DEF JobSet
<1>4. job' = [job EXCEPT ![c] = j]
  BY <1>1 DEF GoOn
<1> QED BY <1>3, <1>4 DEF ReleaseInv, ReleaseTypes

LEMMA AfterUpload ==
    ASSUME ReleaseInv, NEW c \in Clerks, UploadObject(c)
    PROVE  ReleaseInv'
<1>1. PICK k : k = Key(job[c])
  OBVIOUS
<1>2. PICK s : s = IF job[c].op = "artefact" THEN "readParts" ELSE "record"
  OBVIOUS
<1>3. /\ JobAt(c, "upload") /\ objects' = [objects EXCEPT ![k] = job[c].body] /\ dirty' = dirty \cup {k}
      /\ GoOn(c, s) /\ UNCHANGED <<release, begun, unsigned, mixed, claims>>
  BY <1>1, <1>2 DEF UploadObject
<1>4. job[c] \in JobSet /\ JobFits(c) /\ job[c].step = "upload" /\ job[c].op \in Uploading
  BY <1>3 DEF ReleaseInv, ReleaseTypes, JobAt, JobFits, JobShape
<1>5. k \in Keys /\ job[c].body \in Bodies
  BY <1>1, <1>4, FileFits DEF JobFits, JobShape
<1>6. s \in JobSteps
  BY <1>2 DEF JobSteps
<1>7. ReleaseTypes'
  BY <1>3, <1>5, <1>6, GoesOn DEF ReleaseInv, ReleaseTypes
<1>8. NoMoreActive /\ \A r : SameChannel(r) /\ SameFiles(r)
  BY <1>3 DEF NoMoreActive, SameChannel, SameFiles, Stored
<1>9. \A d \in Clerks : job'[d].id = job[d].id /\ job'[d].op = job[d].op
  BY <1>3, <1>6, GoesOn
<1>10. ASSUME NEW d \in Clerks, d # c PROVE JobFits(d)'
  <2>1. Aged(d)
    BY <1>3, <1>6, <1>10, GoesOn DEF Aged
  <2>2. (~JobAt(d, "idle") /\ job[d].op = "create") =>
               release'[job[d].id] = Missing /\ \A e \in Clerks \ {d} : job'[e].id # job[d].id
    BY <1>3, <1>9 DEF ReleaseInv, JobFits, CreatesAlone, Stored
  <2> QED BY <1>3, <1>7, <1>8, <2>1, <2>2, AgedFits
<1>11. JobFits(c)'
  <2>1. job'[c].step = s /\ job'[c].op = job[c].op /\ job'[c].id = job[c].id /\ job'[c].row = job[c].row
        /\ job'[c].part = job[c].part /\ job'[c].body = job[c].body /\ job'[c].stale = job[c].stale
    BY <1>3, <1>6, GoesOn
  <2>2. JobShape(job[c])'
    BY <1>2, <1>4, <2>1 DEF JobShape, JobFits, Uploading
  <2>3. CreatesAlone(c)' /\ Cleared(c)'
    BY <1>2, <1>4, <2>1 DEF CreatesAlone, Cleared, JobAt, Uploading
  <2>4. ReadAsIs(c)'
    BY <1>2, <1>3, <1>4, <2>1 DEF ReadAsIs, WillSign, JobFits, Stored, Uploading
  <2>5. UploadDirty(c)'
    BY <1>1, <1>3, <2>1 DEF UploadDirty, Key
  <2> QED BY <2>2, <2>3, <2>4, <2>5 DEF JobFits
<1>12. \A r \in ReleaseIds : RowFits(r)'
  <2>1. \A q \in Keys : q \notin dirty' => q \notin dirty /\ objects'[q] = objects[q]
    BY <1>3, <1>5 DEF ReleaseInv, ReleaseTypes
  <2> QED BY <1>3, <1>8, <2>1, RowKept
<1>13. (\A ch \in Channels : AloneOnChannel(ch))'
  BY <1>3, <1>8, ChannelKept
<1> QED BY <1>7, <1>10, <1>11, <1>12, <1>13 DEF ReleaseInv

LEMMA AfterDeactivate ==
    ASSUME ReleaseInv, NEW c \in Clerks, Deactivate(c)
    PROVE  ReleaseInv'
<1>1. PICK ch : ch = job[c].row.channel
  OBVIOUS
<1>2. /\ JobAt(c, "deactivate") /\ GoOn(c, "write") /\ UNCHANGED <<objects, begun, unsigned, mixed, claims, dirty>>
      /\ release' = [r \in ReleaseIds |->
                       IF r \in ActiveOn(ch) /\ (job[c].op = "activate" \/ r # job[c].id)
                         THEN [release[r] EXCEPT !.active = FALSE] ELSE release[r]]
  BY <1>1 DEF Deactivate
<1>3. job[c] \in JobSet /\ JobFits(c) /\ job[c].step = "deactivate" /\ job[c].op \in Activating
      /\ job[c].id \in ReleaseIds /\ job[c].row \in ReleaseRows /\ (job[c].op # "activate" => job[c].row.active)
  BY <1>2 DEF ReleaseInv, ReleaseTypes, JobAt, JobFits, JobShape
<1>4. ASSUME NEW r \in ReleaseIds
      PROVE  /\ release'[r] \in ReleaseRows \cup {Missing}
             /\ release'[r] # Missing => Stored(r)
             /\ Stored(r) => /\ release'[r].version = release[r].version /\ release'[r].channel = release[r].channel
                             /\ release'[r].artefact = release[r].artefact /\ release'[r].parts = release[r].parts
                             /\ release'[r].signature = release[r].signature
                             /\ release'[r].active => release[r].active
             /\ r \in ActiveOn(ch) /\ r # job[c].id => ~release'[r].active
  <2>1. release[r] \in ReleaseRows \cup {Missing}
    BY DEF ReleaseInv, ReleaseTypes
  <2>2. CASE r \in ActiveOn(ch) /\ (job[c].op = "activate" \/ r # job[c].id)
    <3>1. release'[r] = [release[r] EXCEPT !.active = FALSE] /\ release[r] \in ReleaseRows /\ Stored(r)
      BY <1>2, <2>1, <2>2 DEF ActiveOn, Stored
    <3> QED BY <3>1 DEF ReleaseRows
  <2>3. CASE ~(r \in ActiveOn(ch) /\ (job[c].op = "activate" \/ r # job[c].id))
    <3>1. release'[r] = release[r]
      BY <1>2, <2>3
    <3> QED BY <2>1, <2>3, <3>1 DEF Stored
  <2> QED BY <2>2, <2>3
<1>5. "write" \in JobSteps
  BY DEF JobSteps
<1>6. ReleaseTypes'
  <2>1. release' \in [ReleaseIds -> ReleaseRows \cup {Missing}]
    BY <1>2, <1>4
  <2> QED BY <1>2, <1>5, <2>1, GoesOn DEF ReleaseInv, ReleaseTypes
<1>7. NoMoreActive /\ \A r \in ReleaseIds : SameChannel(r) /\ SameFiles(r)
  BY <1>4 DEF NoMoreActive, SameChannel, SameFiles
<1>8. \A d \in Clerks : job'[d].id = job[d].id /\ job'[d].op = job[d].op
  BY <1>2, <1>5, GoesOn
<1>9. \A d \in Clerks : (~JobAt(d, "idle") /\ job[d].op = "create") =>
               release'[job[d].id] = Missing /\ \A e \in Clerks \ {d} : job'[e].id # job[d].id
  BY <1>4, <1>8 DEF ReleaseInv, JobFits, CreatesAlone, Stored, JobShape, JobAt
<1>10. ASSUME NEW d \in Clerks, d # c PROVE JobFits(d)'
  <2>1. Aged(d)
    BY <1>2, <1>5, <1>10, GoesOn DEF Aged
  <2>2. ~JobAt(d, "idle") => job[d].id \in ReleaseIds
    BY DEF ReleaseInv, JobFits, JobShape, JobAt
  <2> QED BY <1>2, <1>6, <1>7, <1>9, <2>1, <2>2, AgedFits
<1>11. JobFits(c)'
  <2>1. /\ job'[c].step = "write" /\ job'[c].op = job[c].op /\ job'[c].id = job[c].id /\ job'[c].row = job[c].row
        /\ job'[c].change = job[c].change /\ job'[c].part = job[c].part /\ job'[c].body = job[c].body
        /\ job'[c].stale = job[c].stale /\ job'[c].crossed = job[c].crossed
    BY <1>2, <1>5, GoesOn
  <2>2. JobShape(job[c])'
    BY <1>3, <2>1 DEF JobShape, JobFits, Activating, Uploading
  <2>3. CreatesAlone(c)'
    BY <1>3, <1>8, <1>9, <2>1 DEF CreatesAlone, JobAt, Stored, JobFits
  <2>4. Cleared(c)'
    <3>1. PICK i : i = job[c].id
      OBVIOUS
    <3>2. ActiveOn(ch)' \subseteq {i}
      <4>1. ASSUME NEW r \in ReleaseIds, release'[r] # Missing, release'[r].active, release'[r].channel = ch
            PROVE  r = i
        <5>1. Stored(r) /\ release[r].active /\ release[r].channel = ch
          BY <1>4, <4>1
        <5>2. r \in ActiveOn(ch)
          BY <5>1 DEF ActiveOn
        <5> QED BY <1>4, <3>1, <4>1, <5>2
      <4> QED BY <4>1 DEF ActiveOn, Stored
    <3>3. ASSUME job[c].op = "update", ~job[c].crossed, release'[i] # Missing
          PROVE  /\ Changed(release'[i], job[c].change).channel = job[c].row.channel
                 /\ Changed(release'[i], job[c].change).active => job[c].row.active
      <4>1. PICK old : old = release[i]
        OBVIOUS
      <4>2. PICK new : new = release'[i]
        OBVIOUS
      <4>3. Stored(i) /\ new.channel = old.channel /\ new \in ReleaseRows /\ old \in ReleaseRows
        BY <1>3, <1>4, <3>1, <3>3, <4>1, <4>2 DEF Stored, ReleaseInv, ReleaseTypes
      <4>4. Changed(old, job[c].change).channel = job[c].row.channel
        BY <1>3, <3>1, <3>3, <4>1, <4>3 DEF JobFits, Cleared
      <4>5. job[c].change \in Changes
        BY <1>3 DEF JobSet
      <4> QED BY <1>3, <3>3, <4>2, <4>3, <4>4, <4>5, ChangedFits
    <3>4. ASSUME job[c].op = "activate", ~job[c].crossed, release'[i] # Missing
          PROVE  release'[i].channel = job[c].row.channel
      BY <1>3, <1>4, <3>1, <3>4 DEF JobFits, Cleared
    <3> QED BY <1>1, <2>1, <3>1, <3>2, <3>3, <3>4 DEF Cleared, Stored
  <2>5. ReadAsIs(c)' /\ UploadDirty(c)'
    BY <1>3, <2>1 DEF ReadAsIs, WillSign, UploadDirty, Activating, Uploading
  <2> QED BY <2>2, <2>3, <2>4, <2>5 DEF JobFits
<1>12. \A r \in ReleaseIds : RowFits(r)'
  BY <1>2, <1>4, <1>7, RowKept
<1>13. (\A q \in Channels : AloneOnChannel(q))'
  BY <1>2, <1>7, ChannelKept
<1> QED BY <1>6, <1>10, <1>11, <1>12, <1>13 DEF ReleaseInv

LEMMA AfterDelete ==
    ASSUME ReleaseInv, NEW r \in ReleaseIds, DeleteRelease(r)
    PROVE  ReleaseInv'
<1>1. /\ begun < MaxBegun /\ begun' = begun + 1 /\ release' = [release EXCEPT ![r] = Missing]
      /\ unsigned' = unsigned \ {r} /\ UNCHANGED <<objects, job, mixed, claims, dirty>>
  BY DEF DeleteRelease
<1>2. release' \in [ReleaseIds -> ReleaseRows \cup {Missing}] /\ release'[r] = Missing
      /\ \A q \in ReleaseIds \ {r} : release'[q] = release[q]
  BY <1>1 DEF ReleaseInv, ReleaseTypes
<1>3. ReleaseTypes'
  BY <1>1, <1>2, ReleaseAssumption DEF ReleaseInv, ReleaseTypes
<1>4. NoMoreActive /\ \A q \in ReleaseIds : SameChannel(q) /\ SameFiles(q)
  BY <1>2 DEF NoMoreActive, SameChannel, SameFiles, Stored
<1>5. ASSUME NEW d \in Clerks PROVE JobFits(d)'
  <2>1. Aged(d)
    BY <1>1 DEF Aged
  <2>2. ~JobAt(d, "idle") => job[d].id \in ReleaseIds
    BY DEF ReleaseInv, JobFits, JobShape, JobAt
  <2>3. (~JobAt(d, "idle") /\ job[d].op = "create") =>
               release'[job[d].id] = Missing /\ \A e \in Clerks \ {d} : job'[e].id # job[d].id
    BY <1>1, <1>2, <2>2 DEF ReleaseInv, JobFits, CreatesAlone, Stored
  <2> QED BY <1>1, <1>3, <1>4, <2>1, <2>2, <2>3, AgedFits
<1>6. \A q \in ReleaseIds : RowFits(q)'
  BY <1>1, <1>2, <1>4, RowKept
<1>7. (\A q \in Channels : AloneOnChannel(q))'
  BY <1>1, <1>4, ChannelKept
<1> QED BY <1>3, <1>5, <1>6, <1>7 DEF ReleaseInv

-----------------------------------------------------------------------------
(* Writes to a release. *)

LEMMA WroteFits ==
    ASSUME ReleaseInv, NEW c \in Clerks, NEW j \in JobSet, NEW r \in ReleaseIds, NEW activity \in BOOLEAN,
           Wrote(c, j, r, activity)
    PROVE  /\ job' \in [Clerks -> JobSet] /\ job'[c] = j
           /\ \A d \in Clerks \ {c} :
                /\ Aged(d)
                /\ ~JobAt(d, "idle") => /\ job'[d].stale \/ job[d].id # r
                                        /\ activity => job'[d].crossed
<1>1. job'[c] = j
  BY DEF Wrote
<1>2. ASSUME NEW d \in Clerks, d # c
      PROVE  /\ job'[d] \in JobSet /\ Aged(d)
             /\ ~JobAt(d, "idle") => /\ job'[d].stale \/ job[d].id # r
                                     /\ activity => job'[d].crossed
  <2>1. PICK st : st = (job[d].stale \/ (job[d].id = r /\ job[d].row # Missing))
    OBVIOUS
  <2>2. PICK cr : cr = (job[d].crossed \/ (activity /\ ~JobAt(d, "idle")))
    OBVIOUS
  <2>3. job[d] \in JobSet
    BY DEF ReleaseInv, ReleaseTypes
  <2>4. job'[d] = [job[d] EXCEPT !.stale = st, !.crossed = cr]
    BY <1>2, <2>1, <2>2 DEF Wrote
  <2>5. st \in BOOLEAN /\ cr \in BOOLEAN
    BY <2>1, <2>2, <2>3 DEF JobSet
  <2>6. ~JobAt(d, "idle") => job[d].row # Missing
    BY ReleaseShapes DEF ReleaseInv, JobFits, JobShape, JobAt
  <2>7. job'[d].stale = st /\ job'[d].crossed = cr /\ job'[d] \in JobSet
    BY <2>3, <2>4, <2>5 DEF JobSet
  <2>8. Aged(d)
    BY <2>1, <2>2, <2>3, <2>4, <2>7 DEF Aged, JobSet
  <2> QED BY <2>1, <2>2, <2>6, <2>7, <2>8
<1>3. DOMAIN job' = Clerks /\ job' = [d \in Clerks |-> job'[d]]
  BY DEF Wrote
<1>4. job' \in [Clerks -> JobSet]
  BY <1>1, <1>2, <1>3
<1> QED BY <1>1, <1>2, <1>4

LEMMA OthersAfterWrite ==
    ASSUME ReleaseInv, ReleaseTypes', NEW c \in Clerks, NEW r \in ReleaseIds,
           \A q \in ReleaseIds \ {r} : release'[q] = release[q],
           job'[c].id \in {r, Missing},
           \A d \in Clerks \ {c} :
             /\ Aged(d)
             /\ ~JobAt(d, "idle") =>
                  /\ job'[d].stale \/ job[d].id # r \/ SameFiles(r)
                  /\ job'[d].crossed \/ (NoMoreActive /\ (job[d].id # r \/ SameChannel(r)))
                  /\ job[d].op = "create" => job[d].id # r
                  /\ job[d].op \in Uploading => (Key(job[d]) \in dirty => Key(job[d]) \in dirty')
    PROVE  \A d \in Clerks \ {c} : JobFits(d)'
<1> SUFFICES ASSUME NEW d \in Clerks, d # c PROVE JobFits(d)'
  OBVIOUS
<1>1. ~JobAt(d, "idle") => job[d].id \in ReleaseIds
  BY DEF ReleaseInv, JobFits, JobShape, JobAt
<1>2. Aged(d)
  OBVIOUS
<1>3. \A e \in Clerks : job'[e].id \in {job[e].id, r, Missing}
  BY DEF Aged
<1>4. (~JobAt(d, "idle") /\ job[d].op = "create") =>
          release'[job[d].id] = Missing /\ \A e \in Clerks \ {d} : job'[e].id # job[d].id
  <2> SUFFICES ASSUME ~JobAt(d, "idle"), job[d].op = "create"
               PROVE  release'[job[d].id] = Missing /\ \A e \in Clerks \ {d} : job'[e].id # job[d].id
    OBVIOUS
  <2>1. job[d].id # r /\ job[d].id # Missing
    BY <1>1, ReleaseAssumption
  <2>2. release[job[d].id] = Missing /\ \A e \in Clerks \ {d} : job[e].id # job[d].id
    BY DEF ReleaseInv, JobFits, CreatesAlone, Stored
  <2> QED BY <1>1, <1>3, <2>1, <2>2
<1>5. \A q \in ReleaseIds \ {r} : SameChannel(q) /\ SameFiles(q)
  BY DEF SameChannel, SameFiles, Stored
<1>6. (~JobAt(d, "idle") /\ ~job'[d].crossed) => NoMoreActive /\ SameChannel(job[d].id)
  BY <1>1, <1>5
<1>7. (~JobAt(d, "idle") /\ ~job'[d].stale) => SameFiles(job[d].id)
  BY <1>1, <1>5
<1>8. Key(job[d]) \in dirty /\ ~JobAt(d, "idle") /\ job[d].op \in Uploading => Key(job[d]) \in dirty'
  OBVIOUS
<1> QED BY <1>2, <1>4, <1>6, <1>7, <1>8, AgedFits

\* A write that leaves its release active on ch.
LEMMA ChannelSettled ==
    ASSUME ReleaseInv, NEW c \in Clerks, NEW ch \in Channels, NEW r, Settle(c, ch),
           \A q \in Channels \ {ch} : ActiveOn(q)' \subseteq ActiveOn(q),
           ~job[c].crossed => ActiveOn(ch)' \subseteq {r}
    PROVE  (\A q \in Channels : AloneOnChannel(q))'
<1>1. ASSUME NEW q \in Channels, q # ch PROVE AloneOnChannel(q)'
  BY <1>1 DEF ReleaseInv, AloneOnChannel, Settle
<1>2. AloneOnChannel(ch)'
  BY DEF AloneOnChannel, Settle
<1> QED BY <1>1, <1>2

\* One row changes: the channels it is not active on lose it or stay as they are.
LEMMA OneRowChanges ==
    ASSUME NEW r \in ReleaseIds, NEW row, release'[r] = row,
           \A q \in ReleaseIds \ {r} : release'[q] = release[q]
    PROVE  /\ \A ch : row.channel # ch \/ ~row.active => ActiveOn(ch)' \subseteq ActiveOn(ch)
           /\ \A ch : ActiveOn(ch)' \subseteq ActiveOn(ch) \cup {r}
           /\ ~row.active => NoMoreActive
BY DEF ActiveOn, Stored, NoMoreActive

LEMMA AfterWriteCreated ==
    ASSUME ReleaseInv, NEW c \in Clerks, WriteCreated(c)
    PROVE  ReleaseInv'
<1>1. PICK r : r = job[c].id
  OBVIOUS
<1>2. PICK row : row = job[c].row
  OBVIOUS
<1>3. /\ JobAt(c, "write") /\ job[c].op = "create" /\ release' = [release EXCEPT ![r] = row]
      /\ Wrote(c, NoJob, r, row.active)
      /\ IF row.active THEN Settle(c, row.channel) ELSE mixed' = mixed
      /\ UNCHANGED <<objects, begun, unsigned, claims, dirty>>
  BY <1>1, <1>2 DEF WriteCreated
<1>4. /\ JobFits(c) /\ r \in ReleaseIds /\ row \in ReleaseRows /\ row.active \in BOOLEAN
      /\ row.channel \in Channels /\ job[c].step = "write"
  BY <1>1, <1>2, <1>3 DEF ReleaseInv, JobFits, JobShape, JobAt, ReleaseRows
<1>5. /\ release' \in [ReleaseIds -> ReleaseRows \cup {Missing}] /\ release'[r] = row
      /\ \A q \in ReleaseIds \ {r} : release'[q] = release[q]
  BY <1>3, <1>4 DEF ReleaseInv, ReleaseTypes
<1>6. /\ \A d \in Clerks \ {c} : job[d].id # r
      /\ row.artefact = NoFile /\ \A p \in Components : row.parts[p] = NoFile
      /\ row.signature = Manifest(row)
  BY <1>1, <1>2, <1>3, <1>4 DEF JobFits, CreatesAlone, JobAt
<1>7. mixed' \subseteq Channels
  BY <1>3, <1>4 DEF Settle, ReleaseInv, ReleaseTypes
<1>8. ReleaseTypes'
  BY <1>3, <1>4, <1>5, <1>7, NoJobFits, WroteFits DEF ReleaseInv, ReleaseTypes
<1>9. JobFits(c)'
  <2>1. job'[c] = NoJob
    BY <1>3, <1>4, NoJobFits, WroteFits
  <2> QED BY <2>1 DEF JobFits, JobShape, CreatesAlone, Cleared, ReadAsIs, WillSign, UploadDirty, JobAt, NoJob
<1>10. \A d \in Clerks \ {c} : JobFits(d)'
  <2>1. job'[c].id = Missing
    BY <1>3, <1>4, NoJobFits, WroteFits
  <2>2. ~row.active => NoMoreActive
    BY <1>4, <1>5, OneRowChanges
  <2>3. \A d \in Clerks \ {c} : Aged(d) /\ (~JobAt(d, "idle") => (row.active => job'[d].crossed))
    BY <1>3, <1>4, NoJobFits, WroteFits
  <2> QED BY <1>3, <1>4, <1>5, <1>6, <1>8, <2>1, <2>2, <2>3, OthersAfterWrite
<1>11. ASSUME NEW q \in ReleaseIds PROVE RowFits(q)'
  <2>1. CASE q = r
    BY <1>5, <1>6, <2>1 DEF RowFits, FilesNamed, HeldAsRecorded
  <2>2. CASE q # r
    BY <1>3, <1>5, <2>2, RowKept DEF SameFiles, Stored
  <2> QED BY <2>1, <2>2
<1>12. (\A q \in Channels : AloneOnChannel(q))'
  <2>1. CASE row.active
    <3>1. ~job[c].crossed => ActiveOn(row.channel) \subseteq {r}
      BY <1>1, <1>2, <1>3, <1>4, <2>1 DEF JobFits, Cleared
    <3> QED BY <1>3, <1>4, <1>5, <2>1, <3>1, OneRowChanges, ChannelSettled
  <2>2. CASE ~row.active
    BY <1>3, <1>4, <1>5, <2>2, OneRowChanges, ChannelKept
  <2> QED BY <2>1, <2>2
<1> QED BY <1>8, <1>9, <1>10, <1>11, <1>12 DEF ReleaseInv

LEMMA AfterWriteUpdated ==
    ASSUME ReleaseInv, NEW c \in Clerks, WriteUpdated(c)
    PROVE  ReleaseInv'
<1>1. PICK r : r = job[c].id
  OBVIOUS
<1>2. PICK next : next = Changed(release[r], job[c].change)
  OBVIOUS
<1>3. PICK j : j = [NoJob EXCEPT !.op = "update", !.id = r, !.row = next, !.step = "readParts"]
  OBVIOUS
<1>4. PICK activity : activity = (next.active \/ next.channel # release[r].channel)
  OBVIOUS
<1>5. /\ JobAt(c, "write") /\ job[c].op = "update" /\ Stored(r) /\ release' = [release EXCEPT ![r] = next]
      /\ Wrote(c, j, r, activity) /\ unsigned' = unsigned \cup {r}
      /\ IF next.active THEN Settle(c, next.channel) ELSE mixed' = mixed
      /\ UNCHANGED <<objects, begun, claims, dirty>>
  BY <1>1, <1>2, <1>3, <1>4 DEF WriteUpdated
<1>6. /\ JobFits(c) /\ r \in ReleaseIds /\ job[c].change \in Changes /\ job[c].step = "write"
      /\ release[r] \in ReleaseRows
  BY <1>1, <1>5 DEF ReleaseInv, JobFits, JobShape, JobAt, ReleaseTypes, JobSet, Stored
<1>7. /\ next \in ReleaseRows /\ next.artefact = release[r].artefact /\ next.parts = release[r].parts
      /\ next.active \in BOOLEAN /\ next.channel \in Channels
  BY <1>2, <1>6, ChangedFits DEF ReleaseRows
<1>8. activity \in BOOLEAN
  BY <1>4, <1>7
<1>9. j \in JobSet /\ j.op = "update" /\ j.id = r /\ j.row = next /\ j.step = "readParts"
  BY <1>3, <1>6, <1>7, NoJobFits DEF NoJob, JobSet, JobSteps, Operations
<1>10. /\ release' \in [ReleaseIds -> ReleaseRows \cup {Missing}] /\ release'[r] = next
       /\ \A q \in ReleaseIds \ {r} : release'[q] = release[q]
  BY <1>5, <1>6, <1>7 DEF ReleaseInv, ReleaseTypes
<1>11. mixed' \subseteq Channels
  BY <1>5, <1>7 DEF Settle, ReleaseInv, ReleaseTypes
<1>12. ReleaseTypes'
  BY <1>5, <1>6, <1>8, <1>9, <1>10, <1>11, WroteFits DEF ReleaseInv, ReleaseTypes
<1>13. JobFits(c)'
  <2>1. job'[c] = j
    BY <1>5, <1>6, <1>8, <1>9, WroteFits
  <2>2. JobShape(job[c])'
    BY <1>6, <1>7, <1>9, <2>1 DEF JobShape, Uploading, Activating
  <2>3. CreatesAlone(c)' /\ Cleared(c)' /\ UploadDirty(c)'
    BY <1>9, <2>1 DEF CreatesAlone, Cleared, UploadDirty, JobAt, Uploading
  <2>4. ReadAsIs(c)'
    BY <1>9, <1>10, <2>1 DEF ReadAsIs
  <2> QED BY <2>2, <2>3, <2>4 DEF JobFits
<1>14. \A d \in Clerks \ {c} : JobFits(d)'
  <2>1. job'[c].id = r
    BY <1>5, <1>6, <1>8, <1>9, WroteFits
  <2>2. ~activity => NoMoreActive /\ SameChannel(r)
    BY <1>4, <1>5, <1>6, <1>10, OneRowChanges DEF SameChannel
  <2>3. \A d \in Clerks \ {c} : /\ Aged(d)
                                /\ ~JobAt(d, "idle") => /\ job'[d].stale \/ job[d].id # r
                                                        /\ activity => job'[d].crossed
    BY <1>5, <1>6, <1>8, <1>9, WroteFits
  <2>4. \A d \in Clerks : ~JobAt(d, "idle") /\ job[d].op = "create" => job[d].id # r
    BY <1>5, <1>6, StoredFits DEF JobAt
  <2> QED BY <1>5, <1>6, <1>8, <1>10, <1>12, <2>1, <2>2, <2>3, <2>4, OthersAfterWrite
<1>15. ASSUME NEW q \in ReleaseIds PROVE RowFits(q)'
  <2>1. CASE q = r
    <3>1. RowFits(r) /\ r \in unsigned'
      BY <1>5, <1>6 DEF ReleaseInv
    <3>2. FilesNamed(r)'
      BY <1>5, <1>7, <1>10, <3>1 DEF RowFits, FilesNamed, PartKey
    <3>3. \A k \in Keys : HeldAsRecorded(r, k)'
      BY <1>5, <1>7, <1>10, <3>1 DEF RowFits, HeldAsRecorded
    <3> QED BY <2>1, <3>1, <3>2, <3>3 DEF RowFits
  <2>2. CASE q # r
    BY <1>5, <1>10, <2>2, RowKept DEF SameFiles, Stored
  <2> QED BY <2>1, <2>2
<1>16. (\A q \in Channels : AloneOnChannel(q))'
  <2>1. CASE next.active
    <3>1. ~job[c].crossed => ActiveOn(next.channel) \subseteq {r}
      BY <1>1, <1>2, <1>5, <1>6, <2>1 DEF JobFits, Cleared
    <3> QED BY <1>5, <1>6, <1>7, <1>10, <2>1, <3>1, OneRowChanges, ChannelSettled
  <2>2. CASE ~next.active
    BY <1>5, <1>6, <1>10, <2>2, OneRowChanges, ChannelKept
  <2> QED BY <2>1, <2>2
<1> QED BY <1>12, <1>13, <1>14, <1>15, <1>16 DEF ReleaseInv

LEMMA AfterWriteActivated ==
    ASSUME ReleaseInv, NEW c \in Clerks, WriteActivated(c)
    PROVE  ReleaseInv'
<1>1. PICK r : r = job[c].id
  OBVIOUS
<1>2. PICK row : row = [release[r] EXCEPT !.active = TRUE]
  OBVIOUS
<1>3. /\ JobAt(c, "write") /\ job[c].op = "activate" /\ Stored(r) /\ release' = [release EXCEPT ![r] = row]
      /\ job' = [d \in Clerks |-> IF d = c THEN NoJob
                                  ELSE [job[d] EXCEPT !.crossed = @ \/ ~JobAt(d, "idle")]]
      /\ Settle(c, release[r].channel) /\ UNCHANGED <<objects, begun, unsigned, claims, dirty>>
  BY <1>1, <1>2 DEF WriteActivated
<1>4. JobFits(c) /\ r \in ReleaseIds /\ release[r] \in ReleaseRows /\ job[c].step = "write"
  BY <1>1, <1>3 DEF ReleaseInv, JobFits, JobShape, JobAt, ReleaseTypes, Stored
<1>5. /\ row \in ReleaseRows /\ row.version = release[r].version /\ row.channel = release[r].channel
      /\ row.artefact = release[r].artefact /\ row.parts = release[r].parts
      /\ row.signature = release[r].signature /\ row.channel \in Channels
  BY <1>2, <1>4 DEF ReleaseRows
<1>6. /\ release' \in [ReleaseIds -> ReleaseRows \cup {Missing}] /\ release'[r] = row
      /\ \A q \in ReleaseIds \ {r} : release'[q] = release[q]
  BY <1>3, <1>4, <1>5 DEF ReleaseInv, ReleaseTypes
<1>7. ASSUME NEW d \in Clerks, d # c
      PROVE  job'[d] \in JobSet /\ Aged(d) /\ (~JobAt(d, "idle") => job'[d].crossed)
  <2>1. PICK cr : cr = (job[d].crossed \/ ~JobAt(d, "idle"))
    OBVIOUS
  <2>2. job[d] \in JobSet
    BY DEF ReleaseInv, ReleaseTypes
  <2>3. cr \in BOOLEAN /\ job'[d] = [job[d] EXCEPT !.crossed = cr]
    BY <1>3, <1>7, <2>1, <2>2 DEF JobSet
  <2>4. /\ job'[d] \in JobSet /\ job'[d].crossed = cr
        /\ job'[d].step = job[d].step /\ job'[d].op = job[d].op /\ job'[d].id = job[d].id
        /\ job'[d].row = job[d].row /\ job'[d].change = job[d].change
        /\ job'[d].part = job[d].part /\ job'[d].body = job[d].body /\ job'[d].stale = job[d].stale
    BY <2>2, <2>3 DEF JobSet
  <2> QED BY <2>1, <2>4 DEF Aged
<1>8. job'[c] = NoJob
  BY <1>3
<1>9. job' \in [Clerks -> JobSet]
  BY <1>3, <1>7, <1>8, NoJobFits
<1>10. ReleaseTypes'
  BY <1>3, <1>5, <1>6, <1>9 DEF ReleaseInv, ReleaseTypes, Settle
<1>11. JobFits(c)'
  BY <1>8 DEF JobFits, JobShape, CreatesAlone, Cleared, ReadAsIs, WillSign, UploadDirty, JobAt, NoJob
<1>12. \A q \in ReleaseIds : SameFiles(q)
  BY <1>3, <1>5, <1>6 DEF SameFiles, Stored
<1>13. \A d \in Clerks \ {c} : JobFits(d)'
  <2>1. \A d \in Clerks : ~JobAt(d, "idle") /\ job[d].op = "create" => job[d].id # r
    BY <1>3, <1>4, StoredFits DEF JobAt
  <2>2. job'[c].id \in {r, Missing} /\ dirty' = dirty
    BY <1>3, <1>8, NoJobFits
  <2>3. \A d \in Clerks \ {c} :
          /\ Aged(d)
          /\ ~JobAt(d, "idle") =>
               /\ job'[d].stale \/ job[d].id # r \/ SameFiles(r)
               /\ job'[d].crossed \/ (NoMoreActive /\ (job[d].id # r \/ SameChannel(r)))
               /\ job[d].op = "create" => job[d].id # r
               /\ job[d].op \in Uploading => (Key(job[d]) \in dirty => Key(job[d]) \in dirty')
    BY <1>4, <1>7, <1>12, <2>1, <2>2
  <2> QED BY <1>4, <1>6, <1>10, <2>2, <2>3, OthersAfterWrite
<1>14. \A q \in ReleaseIds : RowFits(q)'
  BY <1>3, <1>5, <1>6, <1>12, RowKept
<1>15. (\A q \in Channels : AloneOnChannel(q))'
  <2>1. ~job[c].crossed => ActiveOn(row.channel) \subseteq {r}
    BY <1>1, <1>3, <1>4, <1>5 DEF JobFits, Cleared
  <2>2. Settle(c, row.channel)
    BY <1>3, <1>5
  <2> QED BY <1>4, <1>5, <1>6, <2>1, <2>2, OneRowChanges, ChannelSettled
<1> QED BY <1>10, <1>11, <1>13, <1>14, <1>15 DEF ReleaseInv

-----------------------------------------------------------------------------
(* Files: recording, removing, signing. *)

\* The parts of one release change, and its clerk goes on to sign.
LEMMA AfterPartWritten ==
    ASSUME ReleaseInv, NEW c \in Clerks, NEW r \in ReleaseIds, r = job[c].id, Stored(r),
           JobAt(c, "record"), NEW p \in Components, p = job[c].part, NEW f \in Files,
           f = NoFile \/ PartKey(f.key, p),
           release' = [release EXCEPT ![r].parts[p] = f],
           unsigned' = unsigned \cup {r},
           Wrote(c, [job[c] EXCEPT !.step = "readParts"], r, FALSE),
           UNCHANGED <<objects, begun, mixed, dirty>>, claims' \in [Keys -> SUBSET ReleaseIds],
           \/ job[c].op = "component" /\ f = File(job[c]) /\ Claim(c)
           \/ job[c].op = "unpart" /\ f = NoFile /\ claims' = claims
    PROVE  ReleaseInv'
<1>1. PICK j : j = [job[c] EXCEPT !.step = "readParts"]
  OBVIOUS
<1>2. PICK row : row = [release[r] EXCEPT !.parts[p] = f]
  OBVIOUS
<1>3. JobFits(c) /\ release[r] \in ReleaseRows /\ job[c].step = "record" /\ job[c] \in JobSet
  BY DEF ReleaseInv, ReleaseTypes, Stored, JobAt
<1>4. /\ row \in ReleaseRows /\ row.version = release[r].version /\ row.channel = release[r].channel
      /\ row.active = release[r].active /\ row.artefact = release[r].artefact
      /\ row.signature = release[r].signature /\ row.parts[p] = f
      /\ \A o \in Components \ {p} : row.parts[o] = release[r].parts[o]
  BY <1>2, <1>3 DEF ReleaseRows, Parts
<1>5. /\ release' \in [ReleaseIds -> ReleaseRows \cup {Missing}] /\ release'[r] = row
      /\ \A q \in ReleaseIds \ {r} : release'[q] = release[q]
  BY <1>2, <1>4 DEF ReleaseInv, ReleaseTypes
<1>6. /\ j \in JobSet /\ j.step = "readParts" /\ j.op = job[c].op /\ j.id = r /\ j.row = job[c].row
      /\ j.part = p /\ j.body = job[c].body /\ j.stale = job[c].stale
  BY <1>1, <1>3 DEF JobSet, JobSteps
<1>7. /\ job' \in [Clerks -> JobSet] /\ job'[c] = j
      /\ \A d \in Clerks \ {c} : Aged(d) /\ (~JobAt(d, "idle") => job'[d].stale \/ job[d].id # r)
  <2>1. PICK activity : activity = FALSE
    OBVIOUS
  <2>2. Wrote(c, j, r, activity) /\ activity \in BOOLEAN
    BY <1>1, <2>1
  <2> QED BY <1>6, <2>2, WroteFits
<1>8. ReleaseTypes'
  BY <1>5, <1>7 DEF ReleaseInv, ReleaseTypes
<1>9. NoMoreActive /\ SameChannel(r)
  BY <1>4, <1>5 DEF NoMoreActive, SameChannel, Stored
<1>10. Key(j) = Key(job[c]) /\ File(j) = File(job[c])
  BY <1>6 DEF Key, File
<1>11. JobFits(c)'
  <2>1. JobShape(job[c])'
    BY <1>3, <1>6, <1>7 DEF JobShape, JobFits, Uploading
  <2>2. CreatesAlone(c)' /\ Cleared(c)'
    BY <1>6, <1>7 DEF CreatesAlone, Cleared, JobAt
  <2>3. ReadAsIs(c)'
    <3>1. ~job[c].stale => /\ job[c].row.version = release[r].version /\ job[c].row.channel = release[r].channel
                           /\ job[c].row.artefact = release[r].artefact
      BY <1>3 DEF JobFits, ReadAsIs, WillSign, Uploading
    <3> QED BY <1>4, <1>5, <1>6, <1>7, <1>10, <3>1, ZenonT(30) DEF ReadAsIs
  <2>4. UploadDirty(c)'
    BY <1>3, <1>6, <1>7, <1>10 DEF JobFits, UploadDirty
  <2> QED BY <2>1, <2>2, <2>3, <2>4 DEF JobFits
<1>12. \A d \in Clerks \ {c} : JobFits(d)'
  <2>1. \A d \in Clerks : ~JobAt(d, "idle") /\ job[d].op = "create" => job[d].id # r
    BY StoredFits DEF JobAt
  <2> QED BY <1>5, <1>6, <1>7, <1>8, <1>9, <2>1, OthersAfterWrite, ZenonT(30)
<1>13. ASSUME job[c].op = "component"
       PROVE  f.key = Key(job[c]) /\ Key(job[c]) \in dirty
              /\ \A k \in Keys \ {Key(job[c])} : claims'[k] = claims[k]
  BY <1>3, <1>13, FileFits DEF JobFits, UploadDirty, Uploading, Claim, ReleaseInv, ReleaseTypes
<1>14. ASSUME NEW q \in ReleaseIds PROVE RowFits(q)'
  <2>1. RowFits(q)
    BY DEF ReleaseInv
  <2>2. CASE q = r
    <3>1. FilesNamed(r) /\ \A k \in Keys : HeldAsRecorded(r, k)
      BY <2>1, <2>2 DEF RowFits
    <3>2. ASSUME NEW o \in Components
          PROVE  \/ o = p /\ release'[r].parts[o] = f
                 \/ o # p /\ release'[r].parts[o] = release[r].parts[o]
      <4>1. release'[r].parts[o] = row.parts[o]
        BY <1>5
      <4>2. CASE o = p
        BY <1>4, <4>1, <4>2
      <4>3. CASE o # p
        BY <1>4, <4>1, <4>3
      <4> QED BY <4>2, <4>3
    <3>3. FilesNamed(r)'
      <4>1. ASSUME NEW o \in Components, release'[r].parts[o] # NoFile
            PROVE  PartKey(release'[r].parts[o].key, o)
        BY <3>1, <3>2, <4>1 DEF FilesNamed
      <4>2. release'[r].artefact = release[r].artefact
        BY <1>4, <1>5
      <4> QED BY <3>1, <4>1, <4>2 DEF FilesNamed, PartKey
    <3>4. ASSUME NEW k \in Keys PROVE HeldAsRecorded(r, k)'
      <4>1. release'[r].artefact = release[r].artefact /\ objects' = objects /\ dirty' = dirty
        BY <1>4, <1>5
      <4>2. CASE job[c].op = "component" /\ k = Key(job[c])
        BY <1>13, <4>1, <4>2 DEF HeldAsRecorded
      <4>3. CASE job[c].op = "unpart" \/ k # Key(job[c])
        <5>1. claims'[k] = claims[k] /\ (f # NoFile => f.key # k)
          BY <1>13, <4>3
        <5>2. ASSUME k \notin dirty, claims[k] = {r}
              PROVE  /\ release[r].artefact # NoFile /\ release[r].artefact.key = k =>
                          release[r].artefact.body = objects[k]
                     /\ \A o \in Components : release[r].parts[o] # NoFile /\ release[r].parts[o].key = k =>
                          release[r].parts[o].body = objects[k]
          BY <3>1, <5>2 DEF HeldAsRecorded
        <5>3. ASSUME k \notin dirty, claims[k] = {r}, NEW o \in Components, release'[r].parts[o] # NoFile,
                     release'[r].parts[o].key = k
              PROVE  release'[r].parts[o].body = objects[k]
          <6>1. release'[r].parts[o] = release[r].parts[o]
            BY <3>2, <5>1, <5>3
          <6> QED BY <5>2, <5>3, <6>1
        <5> QED BY <4>1, <5>1, <5>2, <5>3 DEF HeldAsRecorded
      <4> QED BY <4>2, <4>3
    <3>5. r \in unsigned'
      OBVIOUS
    <3> QED BY <2>2, <3>3, <3>4, <3>5 DEF RowFits
  <2>3. CASE q # r
    <3>1. \A k \in Keys : k \notin dirty' /\ claims'[k] = {q} =>
               k \notin dirty /\ claims[k] = {q} /\ objects'[k] = objects[k]
      BY <1>13
    <3> QED BY <1>5, <2>3, <3>1, RowKept DEF SameFiles, Stored
  <2> QED BY <2>2, <2>3
<1>15. (\A q \in Channels : AloneOnChannel(q))'
  BY <1>9, ChannelKept
<1> QED BY <1>8, <1>11, <1>12, <1>14, <1>15 DEF ReleaseInv

LEMMA AfterRecord ==
    ASSUME ReleaseInv, NEW c \in Clerks, RecordComponent(c)
    PROVE  ReleaseInv'
<1>1. PICK r : r = job[c].id
  OBVIOUS
<1>2. PICK p : p = job[c].part
  OBVIOUS
<1>3. PICK f : f = File(job[c])
  OBVIOUS
<1>4. JobFits(c) /\ job[c].step = "record" /\ job[c].op = "component" /\ r \in ReleaseIds /\ p \in Components
      /\ job[c] \in JobSet /\ job[c].row \in ReleaseRows
  BY <1>1, <1>2 DEF RecordComponent, ReleaseInv, ReleaseTypes, JobFits, JobShape, JobAt
<1>5. f \in Files /\ PartKey(f.key, p) /\ Key(job[c]) \in Keys
  <2>1. job[c].row.version \in Versions
    BY <1>4 DEF ReleaseRows
  <2> QED BY <1>2, <1>3, <1>4, <2>1, FileFits DEF JobFits, Uploading, PartKey, Key
<1>6. Claim(c) /\ claims' \in [Keys -> SUBSET ReleaseIds]
  BY <1>1, <1>4, <1>5 DEF RecordComponent, Claim, ReleaseInv, ReleaseTypes
<1> QED BY <1>1, <1>2, <1>3, <1>4, <1>5, <1>6, AfterPartWritten DEF RecordComponent

LEMMA AfterRemove ==
    ASSUME ReleaseInv, NEW c \in Clerks, RemoveComponent(c)
    PROVE  ReleaseInv'
<1>1. PICK r : r = job[c].id
  OBVIOUS
<1>2. PICK p : p = job[c].part
  OBVIOUS
<1>3. JobFits(c) /\ job[c].step = "record" /\ job[c].op = "unpart" /\ r \in ReleaseIds /\ p \in Components
  BY <1>1, <1>2 DEF RemoveComponent, ReleaseInv, JobFits, JobShape, JobAt
<1>4. claims' \in [Keys -> SUBSET ReleaseIds]
  BY DEF RemoveComponent, ReleaseInv, ReleaseTypes
<1> QED BY <1>1, <1>2, <1>3, <1>4, NoFileFits, AfterPartWritten DEF RemoveComponent

\* The keys of the single artefact and of the parts do not meet.
LEMMA KeysApart ==
    ASSUME NEW k, NEW p, NEW o, PartKey(k, p)
    PROVE  k # <<Filename>> /\ (PartKey(k, o) => p = o)
BY DEF PartKey

LEMMA AfterSign ==
    ASSUME ReleaseInv, NEW c \in Clerks, SignRelease(c)
    PROVE  ReleaseInv'
<1>1. PICK r : r = job[c].id
  OBVIOUS
<1>2. PICK j : j = job[c]
  OBVIOUS
<1>3. PICK art : art = IF FillsArtefact(j) THEN File(j) ELSE release[r].artefact
  OBVIOUS
<1>4. PICK row : row = [release[r] EXCEPT !.signature = Signed(j), !.artefact = art]
  OBVIOUS
<1>5. /\ JobAt(c, "sign") /\ Stored(r)
      /\ unsigned' = (IF j.stale THEN unsigned \cup {r} ELSE unsigned \ {r})
      /\ IF FillsArtefact(j) THEN Wrote(c, NoJob, r, FALSE) ELSE job' = [job EXCEPT ![c] = NoJob]
      /\ IF j.op \in Uploading THEN Claim(c) /\ Clean(c) ELSE UNCHANGED <<claims, dirty>>
      /\ UNCHANGED <<objects, begun, mixed>>
  BY <1>1, <1>2 DEF SignRelease, Uploading
<1>6. /\ JobFits(c) /\ j \in JobSet /\ JobShape(j) /\ j.step = "sign" /\ r \in ReleaseIds /\ j.row \in ReleaseRows
      /\ release[r] \in ReleaseRows /\ j.op \in Uploading \cup {"update", "unpart"} /\ j.id = r
  BY <1>1, <1>2, <1>5 DEF ReleaseInv, ReleaseTypes, JobFits, JobShape, JobAt, Stored
<1>7. PICK k : k = Key(j)
  OBVIOUS
<1>8. j.op \in Uploading => k \in Keys /\ k \in dirty /\ File(j) \in Files /\ File(j).key = k /\ File(j).body = j.body
  BY <1>2, <1>6, <1>7, FileFits DEF JobFits, UploadDirty
<1>9. FillsArtefact(j) => j.op \in Uploading
  BY DEF FillsArtefact, Uploading
<1>10. art \in Files
  BY <1>3, <1>6, <1>8, <1>9 DEF ReleaseRows
<1>11. Signed(j) \in Manifests
       /\ (~j.stale => Signed(j) = [version |-> release[r].version, channel |-> release[r].channel,
                                    artefact |-> art, parts |-> release[r].parts])
  <2>1. PICK m : m = IF FillsArtefact(j) THEN [j.row EXCEPT !.artefact = File(j)] ELSE j.row
    OBVIOUS
  <2>2. m \in ReleaseRows
    BY <1>6, <1>8, <1>9, <2>1 DEF ReleaseRows
  <2>3. Signed(j) = Manifest(m)
    BY <2>1 DEF Signed
  <2>4. ~j.stale => /\ j.row.version = release[r].version /\ j.row.channel = release[r].channel
                    /\ j.row.artefact = release[r].artefact /\ j.row.parts = release[r].parts
    BY <1>1, <1>2, <1>5, <1>6 DEF JobFits, ReadAsIs, WillSign
  <2>5. m.version = j.row.version /\ m.channel = j.row.channel /\ m.parts = j.row.parts
        /\ m.artefact = (IF FillsArtefact(j) THEN File(j) ELSE j.row.artefact)
    BY <1>6, <2>1 DEF ReleaseRows
  <2>6. ~j.stale => m.artefact = art
    BY <1>3, <2>4, <2>5
  <2> QED BY <2>2, <2>3, <2>4, <2>5, <2>6, ManifestFits DEF Manifest
<1>12. /\ row \in ReleaseRows /\ row.version = release[r].version /\ row.channel = release[r].channel
       /\ row.active = release[r].active /\ row.parts = release[r].parts
       /\ row.artefact = art /\ row.signature = Signed(j)
  BY <1>4, <1>6, <1>10, <1>11 DEF ReleaseRows
<1>13. release' = [release EXCEPT ![r] = row]
  BY <1>1, <1>2, <1>3, <1>4 DEF SignRelease
<1>14. /\ release' \in [ReleaseIds -> ReleaseRows \cup {Missing}] /\ release'[r] = row
       /\ \A q \in ReleaseIds \ {r} : release'[q] = release[q]
  BY <1>6, <1>12, <1>13 DEF ReleaseInv, ReleaseTypes
<1>15. /\ job' \in [Clerks -> JobSet] /\ job'[c] = NoJob
       /\ \A d \in Clerks \ {c} :
            Aged(d) /\ (~JobAt(d, "idle") => job'[d].stale \/ job[d].id # r \/ ~FillsArtefact(j))
  <2>1. CASE FillsArtefact(j)
    BY <1>5, <1>6, <2>1, NoJobFits, WroteFits
  <2>2. CASE ~FillsArtefact(j)
    BY <1>5, <2>2, NoJobFits DEF ReleaseInv, ReleaseTypes, Aged
  <2> QED BY <2>1, <2>2
<1>16. /\ claims' \in [Keys -> SUBSET ReleaseIds]
       /\ \A q \in Keys \ {k} : claims'[q] = claims[q]
       /\ j.op \in Uploading => claims'[k] = claims[k] \cup {r}
       /\ j.op \notin Uploading => claims' = claims
  BY <1>2, <1>5, <1>6, <1>7, <1>8 DEF Claim, ReleaseInv, ReleaseTypes
<1>17. /\ dirty' \subseteq Keys /\ \A q \in Keys \ {k} : q \in dirty <=> q \in dirty'
       /\ j.op \notin Uploading => dirty' = dirty
       /\ (j.op \in Uploading /\ k \notin dirty') =>
            ~j.stale /\ objects[k] = j.body /\ \A d \in Clerks \ {c} : ~Uploads(d, k)
  <2>1. CASE j.op \in Uploading
    <3>1. dirty' = IF ~j.stale /\ objects[k] = j.body /\ \A d \in Clerks \ {c} : ~Uploads(d, k)
                     THEN dirty \ {k} ELSE dirty \cup {k}
      BY <1>2, <1>5, <1>7, <2>1 DEF Clean
    <3> QED BY <1>8, <2>1, <3>1 DEF ReleaseInv, ReleaseTypes
  <2>2. CASE j.op \notin Uploading
    BY <1>5, <2>2 DEF ReleaseInv, ReleaseTypes
  <2> QED BY <2>1, <2>2
<1>18. ReleaseTypes'
  BY <1>5, <1>6, <1>14, <1>15, <1>16, <1>17 DEF ReleaseInv, ReleaseTypes
<1>19. NoMoreActive /\ SameChannel(r)
  BY <1>5, <1>12, <1>14 DEF NoMoreActive, SameChannel, Stored
<1>20. JobFits(c)'
  BY <1>15 DEF JobFits, JobShape, CreatesAlone, Cleared, ReadAsIs, WillSign, UploadDirty, JobAt, NoJob
<1>21. \A d \in Clerks \ {c} : JobFits(d)'
  <2>1. \A d \in Clerks : ~JobAt(d, "idle") /\ job[d].op = "create" => job[d].id # r
    BY <1>5, <1>6, StoredFits DEF JobAt
  <2>2. ~FillsArtefact(j) => SameFiles(r)
    BY <1>3, <1>5, <1>12, <1>14 DEF SameFiles
  <2>3. ASSUME NEW d \in Clerks, d # c, ~JobAt(d, "idle"), job[d].op \in Uploading, Key(job[d]) \in dirty
        PROVE  Key(job[d]) \in dirty'
    <3>1. CASE Key(job[d]) = k
      BY <1>8, <1>17, <2>3, <3>1 DEF Uploads, Uploading
    <3>2. CASE Key(job[d]) # k
      BY <1>17, <2>3, <3>2 DEF ReleaseInv, ReleaseTypes
    <3> QED BY <3>1, <3>2
  <2>4. job'[c].id \in {r, Missing}
    BY <1>15, NoJobFits
  <2> QED BY <1>6, <1>14, <1>15, <1>18, <1>19, <2>1, <2>2, <2>3, <2>4, OthersAfterWrite
<1>22. RowFits(r)'
  <2>1. RowFits(r)
    BY <1>6 DEF ReleaseInv
  <2>2. r \notin unsigned' => release'[r].signature = Manifest(release'[r])
    BY <1>5, <1>11, <1>12, <1>14 DEF Manifest
  <2>3. FillsArtefact(j) => art.key = <<Filename>> \/ PartKey(art.key, ImageOf)
    <3>1. j.row.version \in Versions
      BY <1>6 DEF ReleaseRows
    <3> QED BY <1>3, <1>7, <1>8, <1>9, <3>1 DEF FillsArtefact, Key, PartKey
  <2>4. FilesNamed(r) /\ FilesNamed(r)'
    BY <1>3, <1>5, <1>12, <1>14, <2>1, <2>3 DEF RowFits, FilesNamed
  <2>5. ASSUME NEW q \in Keys, q \notin dirty', claims'[q] = {r}, NEW f, f # NoFile, f.key = q,
               f = release'[r].artefact \/ \E p \in Components : f = release'[r].parts[p]
        PROVE  f.body = objects'[q]
    <3>1. CASE j.op \in Uploading /\ q = k
      <4>1. ~j.stale /\ objects'[k] = j.body
        BY <1>5, <1>17, <2>5, <3>1
      <4>2. CASE j.op = "artefact"
        <5>1. k = <<Filename>> /\ art = File(j)
          BY <1>3, <1>7, <4>2 DEF Key, FillsArtefact
        <5>2. \A p \in Components : release'[r].parts[p] # NoFile => release'[r].parts[p].key # k
          BY <2>4, <5>1, KeysApart DEF FilesNamed
        <5> QED BY <1>8, <1>12, <1>14, <2>5, <3>1, <4>1, <5>1, <5>2
      <4>3. CASE j.op = "component"
        <5>1. PartKey(k, j.part) /\ j.part \in Components
          <6>1. j.row.version \in Versions /\ j.part \in Components
            BY <1>6, <4>3 DEF ReleaseRows, JobShape
          <6> QED BY <1>7, <4>3, <6>1 DEF Key, PartKey
        <5>2. release'[r].parts[j.part] = File(j)
          <6>1. release[r].parts[j.part] = File(j)
            BY <1>1, <1>2, <1>5, <1>6, <4>1, <4>3 DEF JobFits, ReadAsIs, WillSign, Uploading
          <6> QED BY <1>12, <1>14, <6>1
        <5>3. \A p \in Components : release'[r].parts[p] # NoFile /\ release'[r].parts[p].key = k => p = j.part
          BY <2>4, <5>1, KeysApart DEF FilesNamed
        <5>4. CASE \E p \in Components : f = release'[r].parts[p]
          BY <1>8, <2>5, <3>1, <4>1, <5>2, <5>3, <5>4
        <5>5. CASE f = release'[r].artefact
          <6>1. PartKey(k, ImageOf)
            <7>1. k # <<Filename>>
              BY <5>1, KeysApart
            <7>2. release'[r].artefact # NoFile /\ release'[r].artefact.key = k
              BY <2>5, <3>1, <5>5
            <7> QED BY <2>4, <7>1, <7>2 DEF FilesNamed, PartKey
          <6>2. j.part = ImageOf
            BY <5>1, <6>1, KeysApart
          <6>3. f = File(j)
            BY <1>3, <1>12, <1>14, <4>3, <5>5, <6>2 DEF FillsArtefact
          <6> QED BY <1>8, <3>1, <4>1, <6>3
        <5> QED BY <2>5, <5>4, <5>5
      <4> QED BY <3>1, <4>2, <4>3 DEF Uploading
    <3>2. CASE j.op \notin Uploading \/ q # k
      <4>1. HeldAsRecorded(r, q) /\ q \notin dirty /\ claims[q] = {r} /\ objects'[q] = objects[q]
        BY <1>5, <1>16, <1>17, <2>1, <2>5, <3>2 DEF RowFits
      <4>2. f = release[r].artefact \/ \E p \in Components : f = release[r].parts[p]
        <5>1. CASE f = release'[r].artefact
          <6>1. ~FillsArtefact(j)
            BY <1>3, <1>8, <1>9, <1>12, <1>14, <2>5, <3>2, <5>1
          <6> QED BY <1>3, <1>12, <1>14, <5>1, <6>1
        <5>2. CASE \E p \in Components : f = release'[r].parts[p]
          BY <1>12, <1>14, <5>2
        <5> QED BY <2>5, <5>1, <5>2
      <4> QED BY <2>5, <4>1, <4>2 DEF HeldAsRecorded
    <3> QED BY <3>1, <3>2
  <2>6. \A q \in Keys : HeldAsRecorded(r, q)'
    BY <2>5 DEF HeldAsRecorded
  <2> QED BY <2>2, <2>4, <2>6 DEF RowFits
<1>23. ASSUME NEW q \in ReleaseIds, q # r PROVE RowFits(q)'
  <2>1. ASSUME NEW o \in Keys, o \notin dirty', claims'[o] = {q}
        PROVE  o \notin dirty /\ claims[o] = {q} /\ objects'[o] = objects[o]
    <3>1. j.op \in Uploading => o # k
      BY <1>16, <1>23, <2>1
    <3> QED BY <1>5, <1>16, <1>17, <2>1, <3>1
  <2>2. q \in unsigned => q \in unsigned'
    BY <1>5, <1>23
  <2> QED BY <1>14, <1>23, <2>1, <2>2, RowKept DEF SameFiles, Stored
<1>24. (\A q \in Channels : AloneOnChannel(q))'
  BY <1>5, <1>19, ChannelKept
<1> QED BY <1>18, <1>20, <1>21, <1>22, <1>23, <1>24 DEF ReleaseInv

-----------------------------------------------------------------------------

LEMMA ReleaseStart == ReleaseInit => ReleaseInv
<1> SUFFICES ASSUME ReleaseInit PROVE ReleaseInv
  OBVIOUS
<1>1. \A c \in Clerks : job[c] = NoJob
  BY DEF ReleaseInit
<1>2. \A r \in ReleaseIds : ~Stored(r)
  BY DEF ReleaseInit, Stored
<1>3. ReleaseTypes
  BY NoJobFits, ReleaseAssumption DEF ReleaseInit, ReleaseTypes
<1>4. \A c \in Clerks : JobFits(c)
  BY <1>1 DEF JobFits, JobShape, CreatesAlone, Cleared, ReadAsIs, WillSign, UploadDirty, JobAt, NoJob
<1>5. (\A r \in ReleaseIds : RowFits(r)) /\ \A ch \in Channels : AloneOnChannel(ch)
  BY <1>2 DEF RowFits, AloneOnChannel, ActiveOn
<1> QED BY <1>3, <1>4, <1>5 DEF ReleaseInv

LEMMA ReleaseInductive == ReleaseInv /\ [ReleaseNext]_releaseVars => ReleaseInv'
<1> SUFFICES ASSUME ReleaseInv, [ReleaseNext]_releaseVars PROVE ReleaseInv'
  OBVIOUS
<1>1. CASE UNCHANGED releaseVars
  <2>1. UNCHANGED <<release, objects, job, begun, unsigned, mixed, claims, dirty>>
    BY <1>1 DEF releaseVars
  <2>2. NoMoreActive /\ \A r : SameChannel(r) /\ SameFiles(r)
    BY <2>1 DEF NoMoreActive, SameChannel, SameFiles, Stored
  <2>3. ReleaseTypes'
    BY <2>1 DEF ReleaseInv, ReleaseTypes
  <2>4. ASSUME NEW d \in Clerks PROVE JobFits(d)'
    <3>1. Aged(d)
      BY <2>1 DEF Aged
    <3>2. (~JobAt(d, "idle") /\ job[d].op = "create") =>
               release'[job[d].id] = Missing /\ \A e \in Clerks \ {d} : job'[e].id # job[d].id
      BY <2>1 DEF ReleaseInv, JobFits, CreatesAlone, Stored
    <3> QED BY <2>1, <2>2, <2>3, <3>1, <3>2, AgedFits
  <2>5. \A r \in ReleaseIds : RowFits(r)'
    BY <2>1, <2>2, RowKept
  <2>6. (\A ch \in Channels : AloneOnChannel(ch))'
    BY <2>1, <2>2, ChannelKept
  <2> QED BY <2>3, <2>4, <2>5, <2>6 DEF ReleaseInv
<1>2. CASE ReleaseNext
  BY <1>2, AfterRequest, AfterCreateRequest, AfterFailure, AfterReadParts, AfterUpload, AfterDeactivate,
     AfterDelete, AfterWriteCreated, AfterWriteUpdated, AfterWriteActivated, AfterRecord, AfterRemove, AfterSign
     DEF ReleaseNext
<1> QED BY <1>1, <1>2

\* Outside what two requests that crossed left behind, one release at most is
\* active on a channel, the signature of a release covers its row as it stands,
\* and what is served under a clean key is what was recorded: for any number of
\* releases, channels, components, files and clerks.
THEOREM ServedVerifies == ReleaseSpec => []ServesOneThatVerifies
<1>1. ReleaseInv => ServesOneThatVerifies
  <2> SUFFICES ASSUME ReleaseInv PROVE ServesOneThatVerifies
    OBVIOUS
  <2>1. ASSUME NEW ch \in Channels, ch \notin mixed PROVE Cardinality(ActiveOn(ch)) <= 1
    <3>1. \A r, q \in ActiveOn(ch) : r = q
      BY <2>1 DEF ReleaseInv, AloneOnChannel
    <3>2. CASE ActiveOn(ch) = {}
      BY <3>2, FS_EmptySet
    <3>3. CASE ActiveOn(ch) # {}
      <4>1. PICK r : ActiveOn(ch) = {r}
        BY <3>1, <3>3
      <4>2. IsFiniteSet({r}) /\ Cardinality({r}) = 1
        BY FS_Singleton
      <4> QED BY <4>1, <4>2
    <3> QED BY <3>2, <3>3
  <2>2. ASSUME NEW r \in ReleaseIds, Stored(r), r \notin unsigned
        PROVE  /\ release[r].signature = Manifest(release[r])
               /\ \A k \in Keys, b \in Bodies :
                    (Served(r, [key |-> k, body |-> b]) /\ k \notin dirty /\ claims[k] = {r})
                       => objects[k] = b
    BY <2>2 DEF ReleaseInv, RowFits, Served, HeldAsRecorded
  <2> QED BY <2>1, <2>2 DEF ServesOneThatVerifies
<1> QED BY <1>1, ReleaseStart, ReleaseInductive, PTL DEF ReleaseSpec

\* Every variable of the releases keeps its type.
THEOREM ReleasesTyped == ReleaseSpec => []ReleaseTypeOK
<1>1. ReleaseInv => ReleaseTypeOK
  BY DEF ReleaseInv, ReleaseTypes, ReleaseTypeOK, JobSet
<1> QED BY <1>1, ReleaseStart, ReleaseInductive, PTL DEF ReleaseSpec
=============================================================================
