------------------------------ MODULE MCOffice ------------------------------
(* Model-checking instances of the components that share no state with one  *)
(* another: accounts, sessions, seats, releases, add-ons, certificates,     *)
(* quotes and the catalogue.  A behaviour runs one of them, and the others   *)
(* stay as they start.                                                       *)
EXTENDS CustomerAccounts, Sessions, TeamSeats, Releases, AddOns, Certificates, Quotes,
        Catalogue, TLC

\* Only one component runs, so they share the names of handlers (Hands) and of
\* the ids none of their properties tells apart (Ones).
CONSTANTS Hands, Ones, small, large, k1

VARIABLE part \* the component that runs

OfficeParts == {"accounts", "sessions", "seats", "releases", "addons", "certificates", "quotes",
                "catalogue"}

MCPackSize == [p \in Packs |-> IF p = small THEN 1 ELSE 2]
MCPrices   == [seatAnnual |-> 99, seatMonthly |-> 9, annual |-> 0, monthly |-> 0]
\* A version, or the activity: one field at a time.
MCEdits    == {ch \in Changes : ch.channel = Missing /\ (ch.version = Missing \/ ch.active = Missing)} \ {NoChange}
MCListings == {[stripe |-> s, once |-> FALSE, metered |-> s /\ m, annual |-> s] : s, m \in BOOLEAN}
MCOrders   == {[seats |-> 10, term |-> "MULTI_YEAR", years |-> 3, discount |-> 15]}

Symmetric == Permutations(Hands) \cup Permutations(Ones)

\* One start of each component is enough for the runs of another.  A process
\* that keeps sessions in its memory is explored with Cognito: while it neither
\* restarts nor loses Redis it is one replica of those that share Redis.
OfficeInit ==
    /\ part \in OfficeParts
    /\ AccountInit /\ SessionInit /\ SeatInit /\ ReleaseInit /\ AddOnInit /\ CertInit /\ QuoteInit
    /\ CatalogueInit
    /\ provider = "jwt" => serving = Replicas
    /\ part # "sessions" => provider = "jwt"
    /\ part # "addons" => \A l \in Licences : owner[l] = k1 /\ features[l] = {ScopeCortex}

OfficeNext ==
    /\ UNCHANGED part
    /\ \/ /\ part = "accounts" /\ AccountNext
          /\ UNCHANGED <<sessionVars, seatVars, releaseVars, addOnVars, certVars, quoteVars, catalogueVars>>
       \/ /\ part = "sessions" /\ SessionNext
          /\ UNCHANGED <<accountVars, seatVars, releaseVars, addOnVars, certVars, quoteVars, catalogueVars>>
       \/ /\ part = "seats" /\ SeatNext
          /\ UNCHANGED <<accountVars, sessionVars, releaseVars, addOnVars, certVars, quoteVars, catalogueVars>>
       \/ /\ part = "releases" /\ ReleaseNext
          /\ UNCHANGED <<accountVars, sessionVars, seatVars, addOnVars, certVars, quoteVars, catalogueVars>>
       \/ /\ part = "addons" /\ AddOnNext
          /\ UNCHANGED <<accountVars, sessionVars, seatVars, releaseVars, certVars, quoteVars, catalogueVars>>
       \/ /\ part = "certificates" /\ CertNext
          /\ UNCHANGED <<accountVars, sessionVars, seatVars, releaseVars, addOnVars, quoteVars, catalogueVars>>
       \/ /\ part = "quotes" /\ QuoteNext
          /\ UNCHANGED <<accountVars, sessionVars, seatVars, releaseVars, addOnVars, certVars, catalogueVars>>
       \/ /\ part = "catalogue" /\ CatalogueNext
          /\ UNCHANGED <<accountVars, sessionVars, seatVars, releaseVars, addOnVars, certVars, quoteVars>>

officeVars == <<part, accountVars, sessionVars, seatVars, releaseVars, addOnVars, certVars,
                quoteVars, catalogueVars>>

OfficeSpec == OfficeInit /\ [][OfficeNext]_officeVars

\* Bounds.  Once a store has failed Sessions promises nothing, nor does AddOns
\* of a licence whose product was changed under it (every product is a start),
\* and Certificates only that there are rows once two authorities were stored.
\* A store remembers one thing at most of tokens that have expired; invitations
\* and packs together are at most three, and wrong passwords at most four, less
\* two for each reset token; one certificate is signed, of either kind of serial.
Bounded ==
    /\ steady /\ edited = {} /\ ~crossed
    /\ \A s \in Stores :
         Cardinality(blacklist[s] \ live) + Cardinality({n \in active[s] : Access(n) \notin live}) <= 1
    /\ Cardinality({s \in Serials : Row(s)}) <= 1
    /\ sent + Cardinality({p \in Packs : packs[p] # "none"}) <= 3
    /\ \A e \in Emails : wrong[e] + 2 * Cardinality({t \in ResetIds : resets[t].state # "unissued"}) <= 4

\* Every variable of the component that runs holds a value of its type.
OfficeTypesOK ==
    /\ part = "accounts" => AccountTypeOK
    /\ part = "sessions" => SessionTypeOK
    /\ part = "seats" => SeatTypeOK
    /\ part = "releases" => ReleaseTypeOK
    /\ part = "addons" => AddOnTypeOK
    /\ part = "certificates" => CertTypeOK
    /\ part = "quotes" => QuoteTypeOK
    /\ part = "catalogue" => CatalogueTypeOK
=============================================================================
