------------------------------- MODULE Quotes -------------------------------
(***************************************************************************)
(* Enterprise quotes: priced when they are drawn up, mailed, moved about   *)
(* by hand and converted into a licence (services/quote.service.ts and its *)
(* routes in admin.ts).                                                    *)
(*                                                                         *)
(* No operation is a transaction.  Sending reads the status, waits for the *)
(* mail server and writes; converting reads, creates the licence and marks *)
(* the quote; a change of status by hand looks at nothing.                 *)
(* expireOldQuotes has no caller and is not modelled.                      *)
(***************************************************************************)
EXTENDS Integers

CONSTANTS
    QuoteIds,   \* quotes that may be drawn up
    Orders,     \* orders: [seats, term, years, discount], discount in percent
    Prices,     \* the product: [seatAnnual, seatMonthly, annual, monthly], 0 for none
    Offices,    \* request handlers
    MaxSales,   \* bound: licences issued from one quote
    NoQuote     \* no quote

Terms == {"SUBSCRIPTION", "PERPETUAL", "MULTI_YEAR"}

ASSUME QuoteAssumption ==
    /\ Orders \subseteq [seats : Nat \ {0}, term : Terms, years : 1 .. 5, discount : 0 .. 100]
    /\ Prices \in [seatAnnual : Nat, seatMonthly : Nat, annual : Nat, monthly : Nat]
    /\ MaxSales \in Nat /\ NoQuote \notin QuoteIds

VARIABLES
    quotes,   \* quotes[q]: the row, or NoQuoteRow
    sold,     \* sold[q]: licences created from quote q
    office,   \* office[d]: what handler d is half-way through
    muddled   \* quotes whose conversions crossed or were cut short, or that left
              \* CONVERTED by hand or by a mail that had been under way

quoteVars == <<quotes, sold, office, muddled>>

Statuses == {"DRAFT", "SENT", "VIEWED", "ACCEPTED", "REJECTED", "EXPIRED", "CONVERTED"}
NoQuoteRow    == [status |-> "none", base |-> 0, final |-> 0, lapsed |-> FALSE]
NoErrand == [step |-> "idle", quote |-> NoQuote]

-----------------------------------------------------------------------------
(* calculatePricing. *)

BasePrice(o) ==
    CASE Prices.seatAnnual > 0 /\ o.term # "SUBSCRIPTION" -> Prices.seatAnnual * o.seats * o.years
      [] Prices.seatMonthly > 0 /\ ~(Prices.seatAnnual > 0 /\ o.term # "SUBSCRIPTION") ->
           Prices.seatMonthly * o.seats * 12 * o.years
      [] OTHER ->
           IF Prices.annual > 0 /\ o.term # "SUBSCRIPTION"
           THEN Prices.annual * o.years ELSE Prices.monthly * 12 * o.years

VolumeDiscount(seats) ==
    CASE seats >= 50 -> 25 [] seats \in 20 .. 49 -> 15 [] seats \in 10 .. 19 -> 10 [] OTHER -> 0

YearsDiscount(years) == CASE years >= 3 -> 10 [] years = 2 -> 5 [] OTHER -> 0

Discount(o) ==
    LET auto == VolumeDiscount(o.seats) + YearsDiscount(o.years)
    IN  IF o.discount > auto THEN o.discount ELSE auto

\* Math.round: the nearest cent, a half upwards.
FinalPrice(o) == (BasePrice(o) * (100 - Discount(o)) + 50) \div 100

-----------------------------------------------------------------------------

QuoteTypeOK ==
    /\ \A q \in QuoteIds :
         /\ quotes[q].status \in Statuses \cup {"none"} /\ quotes[q].lapsed \in BOOLEAN
         /\ quotes[q].base \in Nat /\ quotes[q].final \in 0 .. quotes[q].base
    /\ sold \in [QuoteIds -> 0 .. MaxSales]
    /\ office \in [Offices -> [step : {"idle", "mail", "issue", "mark"}, quote : QuoteIds \cup {NoQuote}]]
    /\ muddled \subseteq QuoteIds

QuoteInit ==
    /\ quotes = [q \in QuoteIds |-> NoQuoteRow]
    /\ sold = [q \in QuoteIds |-> 0]
    /\ office = [d \in Offices |-> NoErrand]
    /\ muddled = {}

SetStatus(q, s) == quotes' = [quotes EXCEPT ![q].status = s]
Errand(d, step, q) == office' = [office EXCEPT ![d] = [step |-> step, quote |-> q]]
ErrandDone(d) == office' = [office EXCEPT ![d] = NoErrand]
Converting(q) == {d \in Offices : office[d].quote = q /\ office[d].step \in {"issue", "mark"}}
MuddleIf(q, broken) == muddled' = IF broken THEN muddled \cup {q} ELSE muddled

Drawn(o) == [status |-> "DRAFT", base |-> BasePrice(o), final |-> FinalPrice(o), lapsed |-> FALSE]
\* A revision keeps the price of the original, whatever the product costs now.
Revised(row) == [row EXCEPT !.status = "DRAFT", !.lapsed = FALSE]
\* What PUT /quotes/:id/status takes.
StatusesByHand == Statuses \ {"CONVERTED"}

CreateQuote(q, o) ==
    /\ quotes[q] = NoQuoteRow
    /\ quotes' = [quotes EXCEPT ![q] = Drawn(o)]
    /\ UNCHANGED <<sold, office, muddled>>

DuplicateQuote(p, q) ==
    /\ quotes[p] # NoQuoteRow /\ quotes[q] = NoQuoteRow
    /\ quotes' = [quotes EXCEPT ![q] = Revised(quotes[p])]
    /\ UNCHANGED <<sold, office, muddled>>

SendQuote(d, q) ==
    /\ office[d] = NoErrand /\ quotes[q].status = "DRAFT"
    /\ Errand(d, "mail", q)
    /\ UNCHANGED <<quotes, sold, muddled>>

\* The mail is out: SENT is written over whatever the status is by now.
MarkSent(d) ==
    LET q == office[d].quote IN
    /\ office[d].step = "mail"
    /\ MuddleIf(q, quotes[q].status = "CONVERTED")
    /\ SetStatus(q, "SENT")
    /\ ErrandDone(d)
    /\ UNCHANGED sold

UpdateQuoteStatus(q, s) ==
    /\ quotes[q] # NoQuoteRow /\ s \in StatusesByHand
    /\ MuddleIf(q, quotes[q].status = "CONVERTED")
    /\ SetStatus(q, s)
    /\ UNCHANGED <<sold, office>>

\* Mutant: only an expired quote is refused.
ConvertibleAgain(q) ==
    quotes[q] # NoQuoteRow /\ quotes[q].status # "EXPIRED" /\ ~quotes[q].lapsed

\* A quote that was rejected may be converted all the same.
Convertible(q) ==
    /\ quotes[q] # NoQuoteRow
    /\ quotes[q].status \notin {"CONVERTED", "EXPIRED"} /\ ~quotes[q].lapsed

ConvertQuote(d, q) ==
    /\ office[d] = NoErrand /\ Convertible(q)
    /\ MuddleIf(q, Converting(q) # {})
    /\ Errand(d, "issue", q)
    /\ UNCHANGED <<quotes, sold>>

IssueLicence(d) ==
    LET q == office[d].quote IN
    /\ office[d].step = "issue" /\ sold[q] < MaxSales
    /\ sold' = [sold EXCEPT ![q] = @ + 1]
    /\ Errand(d, "mark", q)
    /\ UNCHANGED <<quotes, muddled>>

MarkConverted(d) ==
    /\ office[d].step = "mark"
    /\ SetStatus(office[d].quote, "CONVERTED")
    /\ ErrandDone(d)
    /\ UNCHANGED <<sold, muddled>>

\* The mail server refuses, the database fails or the process stops.
ErrandFails(d) ==
    /\ office[d] # NoErrand
    /\ MuddleIf(office[d].quote, office[d].step = "mark")
    /\ ErrandDone(d)
    /\ UNCHANGED <<quotes, sold>>

\* validUntil passes.
QuoteLapses(q) ==
    /\ quotes[q] # NoQuoteRow /\ ~quotes[q].lapsed
    /\ quotes' = [quotes EXCEPT ![q].lapsed = TRUE]
    /\ UNCHANGED <<sold, office, muddled>>

QuoteNext ==
    \/ \E q \in QuoteIds :
         \/ QuoteLapses(q)
         \/ \E o \in Orders : CreateQuote(q, o)
         \/ \E p \in QuoteIds : DuplicateQuote(p, q)
         \/ \E s \in Statuses : UpdateQuoteStatus(q, s)
         \/ \E d \in Offices : SendQuote(d, q) \/ ConvertQuote(d, q)
    \/ \E d \in Offices : MarkSent(d) \/ IssueLicence(d) \/ MarkConverted(d) \/ ErrandFails(d)

QuoteSpec == QuoteInit /\ [][QuoteNext]_quoteVars

-----------------------------------------------------------------------------

\* A quote sells one licence at most, and is CONVERTED when it has sold one and
\* only then, once no conversion is half-way; unless two conversions of it
\* crossed, one was cut short between its two writes, or its status was put
\* back after it had sold.
QuoteSellsOnce ==
    \A q \in QuoteIds \ muddled :
      /\ sold[q] <= 1
      /\ Converting(q) = {} => (sold[q] = 1 <=> quotes[q].status = "CONVERTED")
=============================================================================
