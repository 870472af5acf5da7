---------------------------- MODULE Certificates ----------------------------
(***************************************************************************)
(* Client certificates of the agents, the authority that signs them and    *)
(* the revocation lists a Cortex fetches (services/ca.service.ts,          *)
(* agent.service.ts, crl.service.ts and their routes).                     *)
(*                                                                         *)
(* The authority is a secret shared by the processes of the server: the    *)
(* first call that finds none generates one and stores it, and every       *)
(* process keeps what it read or stored until it restarts.  Nothing is     *)
(* held between the reading and the storing.                               *)
(***************************************************************************)
EXTENDS Integers

CONSTANTS
    Processes,    \* processes of the server
    Calls,        \* requests that need the authority
    MaxGenerated, \* bound: authorities ever generated
    Serials,      \* serials of the certificates that may be signed
    Padded,       \* those whose first byte has its high bit set: '00' goes before it
    Modulus,      \* 2^128, or what its bytes count up to
    NoAuthority   \* a placeholder, no process, no serial

Authorities == 1 .. MaxGenerated \* in the order they were generated

ASSUME CertificateAssumption ==
    /\ MaxGenerated \in Nat /\ NoAuthority \notin Authorities \cup Processes \cup Serials
    /\ Serials \subseteq Nat /\ Padded \subseteq Serials
    /\ Modulus \in Nat /\ \A s \in Padded : s < Modulus

\* The INTEGER a list names serial s by.  A certificate's is s, for signCsrWithCa
\* puts the byte '00' before a high bit.  stripLeadingZero takes that byte off
\* again, and what is left reads as a negative number.
OnWire(s) == IF s \in Padded THEN s - Modulus ELSE s
Wire      == {OnWire(s) : s \in Serials}

VARIABLES
    secret,   \* the authority in Secrets Manager, or a placeholder
    cached,   \* cached[p]: cachedBundle of process p
    demand,   \* demand[c]: what request c has read and not yet done
    drawn,    \* how many authorities were generated so far
    ledger,   \* ledger[s]: the agent_certificates row, or NoRow
    held,     \* certificates handed to an agent
    list,     \* the revocation list the Cortex holds
    crossed   \* one generated authority was stored over another

certVars == <<secret, cached, demand, drawn, ledger, held, list, crossed>>

NoDemand == [step |-> "idle", want |-> "none", process |-> NoAuthority,
             authority |-> NoAuthority, serial |-> NoAuthority, serials |-> {}, known |-> {}]
Unsigned == [signer |-> NoAuthority, revoked |-> FALSE, expired |-> FALSE]
NoList   == [signer |-> NoAuthority, serials |-> {}, known |-> {}]
Lists    == [signer : Authorities \cup {NoAuthority}, serials : SUBSET Wire, known : SUBSET Serials]

CertTypeOK ==
    /\ secret \in Authorities \cup {NoAuthority}
    /\ cached \in [Processes -> Authorities \cup {NoAuthority}]
    /\ demand \in [Calls -> [step : {"idle", "load", "store", "keep", "sign", "hand", "collect", "send"},
                           want : {"none", "sign", "collect"},
                           process : Processes \cup {NoAuthority},
                           authority : Authorities \cup {NoAuthority},
                           serial : Serials \cup {NoAuthority},
                           serials : SUBSET Wire, known : SUBSET Serials]]
    /\ drawn \in 0 .. MaxGenerated
    /\ ledger \in [Serials -> [signer : Authorities \cup {NoAuthority}, revoked : BOOLEAN, expired : BOOLEAN]]
    /\ held \subseteq Serials
    /\ list \in Lists
    /\ crossed \in BOOLEAN

CertInit ==
    /\ secret = NoAuthority
    /\ cached = [p \in Processes |-> NoAuthority]
    /\ demand = [c \in Calls |-> NoDemand]
    /\ drawn = 0
    /\ ledger = [s \in Serials |-> Unsigned]
    /\ held = {}
    /\ list = NoList
    /\ crossed = FALSE

Row(s)   == ledger[s] # Unsigned
Revoked  == {s \in Serials : ledger[s].revoked}
Ahead(c, to) == demand' = [demand EXCEPT ![c] = to]
CallOver(c)  == Ahead(c, NoDemand)

-----------------------------------------------------------------------------
(* ensureCA. *)

\* An enrolment comes here once its licence has been found valid; a request
\* for the list comes here at once.
AskFor(c, p, want) ==
    /\ demand[c] = NoDemand
    /\ Ahead(c, [NoDemand EXCEPT !.step = "load", !.want = want, !.process = p, !.known = Revoked])
    /\ UNCHANGED <<secret, cached, drawn, ledger, held, list, crossed>>

\* The authority is at hand: on to what the request wanted it for.
Loaded(c, k) == Ahead(c, [demand[c] EXCEPT !.step = demand[c].want, !.authority = k])

UseCached(c) ==
    LET kept == cached[demand[c].process] IN
    /\ demand[c].step = "load" /\ kept # NoAuthority
    /\ Loaded(c, kept)
    /\ UNCHANGED <<secret, cached, drawn, ledger, held, list, crossed>>

\* What is stored is kept by the process; a placeholder is replaced by a new
\* authority, which takes a while to store.
LoadSecret(c) ==
    /\ demand[c].step = "load" /\ cached[demand[c].process] = NoAuthority
    /\ IF secret # NoAuthority
       THEN /\ Loaded(c, secret)
            /\ cached' = [cached EXCEPT ![demand[c].process] = secret]
            /\ UNCHANGED drawn
       ELSE /\ drawn < MaxGenerated /\ drawn' = drawn + 1
            /\ Ahead(c, [demand[c] EXCEPT !.step = "store", !.authority = drawn'])
            /\ UNCHANGED cached
    /\ UNCHANGED <<secret, ledger, held, list, crossed>>

StoreSecret(c) ==
    /\ demand[c].step = "store"
    /\ secret' = demand[c].authority
    /\ crossed' = (crossed \/ secret # NoAuthority)
    /\ Ahead(c, [demand[c] EXCEPT !.step = "keep"])
    /\ UNCHANGED <<cached, drawn, ledger, held, list>>

KeepBundle(c) ==
    /\ demand[c].step = "keep"
    /\ cached' = [cached EXCEPT ![demand[c].process] = demand[c].authority]
    /\ Loaded(c, demand[c].authority)
    /\ UNCHANGED <<secret, drawn, ledger, held, list, crossed>>

-----------------------------------------------------------------------------
(* Enrolment. *)

\* Signed in memory, then entered in the ledger.
SignCsr(c) ==
    /\ demand[c].step = "sign"
    /\ \E s \in Serials :
         /\ ~Row(s)
         /\ ledger' = [ledger EXCEPT ![s] = [Unsigned EXCEPT !.signer = demand[c].authority]]
         /\ Ahead(c, [demand[c] EXCEPT !.step = "hand", !.serial = s])
    /\ UNCHANGED <<secret, cached, drawn, held, list, crossed>>

HandOut(c) ==
    /\ demand[c].step = "hand"
    /\ held' = held \cup {demand[c].serial}
    /\ CallOver(c)
    /\ UNCHANGED <<secret, cached, drawn, ledger, list, crossed>>

-----------------------------------------------------------------------------
(* Revocation. *)

\* An administrator revokes by serial number, whether or not the agent ever
\* received the certificate.
RevokeAgentCertificate(s) ==
    /\ Row(s)
    /\ ledger' = [ledger EXCEPT ![s].revoked = TRUE]
    /\ UNCHANGED <<secret, cached, demand, drawn, held, list, crossed>>

\* Mutant: only certificates that have reached their agent are listed.
OnListIfHeld == {s \in Revoked \cap held : ~ledger[s].expired}

\* Certificates past their date are left out of the list.
OnList == {s \in Revoked : ~ledger[s].expired}

BuildCrl(c) ==
    /\ demand[c].step = "collect"
    /\ Ahead(c, [demand[c] EXCEPT !.step = "send", !.serials = {OnWire(s) : s \in OnList}])
    /\ UNCHANGED <<secret, cached, drawn, ledger, held, list, crossed>>

SendCrl(c) ==
    /\ demand[c].step = "send"
    /\ list' = [signer |-> demand[c].authority, serials |-> demand[c].serials, known |-> demand[c].known]
    /\ CallOver(c)
    /\ UNCHANGED <<secret, cached, drawn, ledger, held, crossed>>

-----------------------------------------------------------------------------

\* An error, or an answer that never arrives.
CallBreaks(c) ==
    /\ demand[c] # NoDemand
    /\ CallOver(c)
    /\ UNCHANGED <<secret, cached, drawn, ledger, held, list, crossed>>

RestartProcess(p) ==
    /\ cached' = [cached EXCEPT ![p] = NoAuthority]
    /\ demand' = [c \in Calls |-> IF demand[c].process = p THEN NoDemand ELSE demand[c]]
    /\ UNCHANGED <<secret, drawn, ledger, held, list, crossed>>

\* notAfter passes; nextUpdate passes and the Cortex drops its list.
CertificateExpires(s) ==
    /\ Row(s) /\ ledger' = [ledger EXCEPT ![s].expired = TRUE]
    /\ UNCHANGED <<secret, cached, demand, drawn, held, list, crossed>>
ListLapses ==
    /\ list' = NoList
    /\ UNCHANGED <<secret, cached, demand, drawn, ledger, held, crossed>>

CertNext ==
    \/ \E c \in Calls :
         \/ \E p \in Processes, want \in {"sign", "collect"} : AskFor(c, p, want)
         \/ UseCached(c) \/ LoadSecret(c) \/ StoreSecret(c) \/ KeepBundle(c)
         \/ SignCsr(c) \/ HandOut(c) \/ BuildCrl(c) \/ SendCrl(c) \/ CallBreaks(c)
    \/ \E p \in Processes : RestartProcess(p)
    \/ \E s \in Serials : RevokeAgentCertificate(s) \/ CertificateExpires(s)
    \/ ListLapses

CertSpec == CertInit /\ [][CertNext]_certVars

-----------------------------------------------------------------------------

\* A Cortex looks for the certificate's own INTEGER in a list its signer signed.
Refused(s) == s \in list.serials /\ list.signer = ledger[s].signer

\* Unless two processes found no authority and each stored its own, every
\* certificate an agent holds was signed by the authority in force and is in
\* the ledger.  Of those revoked before a Cortex asked for the list it holds, it
\* refuses those whose serial begins with a clear bit and accepts the others:
\* the entry "next CRL build will include" (revokeAgentCertificate) names another
\* number, though "positive serials encoded this way are fine" (stripLeadingZero).
RevokedIsRefused ==
    /\ \A s \in held : Row(s)
    /\ ~crossed =>
         /\ \A s \in held : ledger[s].signer = secret
         /\ \A s \in list.known : ledger[s].expired \/ (Refused(s) <=> s \notin Padded)
=============================================================================
