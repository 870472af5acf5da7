------------------------------ MODULE Catalogue ------------------------------
(***************************************************************************)
(* The products that are for sale: their rows, the products and prices     *)
(* Stripe keeps for them and the licences an administrator issues of them  *)
(* (services/product.service.ts and the product and licence routes of      *)
(* admin.ts).                                                              *)
(*                                                                         *)
(* Every call to Stripe and every statement is a write of its own, and a   *)
(* deletion that found no licence may take seconds at Stripe before it     *)
(* removes the row; the database then removes the licences with it.        *)
(***************************************************************************)
EXTENDS Naturals

CONSTANTS
    Goods,      \* products that may be created
    Copies,     \* licences that may be issued
    Listings,   \* what a creation asks for
    Managers,   \* handlers of the admin routes
    NoGoods     \* no product, no licence

VARIABLES
    goods,      \* goods[p]: the row of the product, or Unlisted
    shelf,      \* shelf[p]: the product Stripe was asked to make for p
    copies,     \* copies[l]: the product of licence l
    sales,     \* licences ever issued
    tester,     \* the QA customer has a row
    manager,    \* manager[h]: the handler's call
    doomed,     \* licences issued while a deletion of their product was under way
    adrift,     \* products whose creation or deletion was cut short after Stripe
                \* had done its part, or that Stripe refused to archive
    typed       \* products whose pricing type was last set by hand

catalogueVars == <<goods, shelf, copies, sales, tester, manager, doomed, adrift, typed>>

Charges   == {"none", "licensed", "metered"} \* what a price at Stripe charges by
Requests == [stripe : BOOLEAN, once : BOOLEAN, metered : BOOLEAN, annual : BOOLEAN]
ASSUME CatalogueAssumption == Listings \subseteq Requests /\ NoGoods \notin Goods \cup Copies

Unlisted == [linked |-> FALSE, price |-> "unlisted", annual |-> FALSE, metered |-> FALSE]
Listed(p) == goods[p] # Unlisted
Off == [at |-> "off", product |-> NoGoods, copy |-> NoGoods, price |-> "none", annual |-> FALSE,
        request |-> [stripe |-> FALSE, once |-> FALSE, metered |-> FALSE, annual |-> FALSE]]

CatalogueTypeOK ==
    /\ goods \in [Goods -> {Unlisted} \cup
                    [linked : BOOLEAN, price : Charges, annual : BOOLEAN, metered : BOOLEAN]]
    /\ shelf \in [Goods -> {"none", "active", "archived"}]
    /\ copies \in [Copies -> Goods \cup {NoGoods}] /\ sales \subseteq Copies
    /\ tester \in BOOLEAN
    /\ manager \in [Managers -> [at : {"off", "product", "price", "annual", "row", "metered",
                                       "archive", "remove", "tester", "issue"},
                                 product : Goods \cup {NoGoods}, copy : Copies \cup {NoGoods},
                                 price : Charges, annual : BOOLEAN, request : Requests]]
    /\ doomed \subseteq sales /\ adrift \subseteq Goods /\ typed \subseteq Goods

CatalogueInit ==
    /\ goods = [p \in Goods |-> Unlisted]
    /\ shelf = [p \in Goods |-> "none"]
    /\ copies = [l \in Copies |-> NoGoods]
    /\ sales = {} /\ tester = FALSE
    /\ manager = [h \in Managers |-> Off]
    /\ doomed = {} /\ adrift = {} /\ typed = {}

-----------------------------------------------------------------------------

Takes(h, call) == manager[h] = Off /\ manager' = [manager EXCEPT ![h] = call]
Moves(h, from, call) == manager[h].at = from /\ manager' = [manager EXCEPT ![h] = call]
Of(h) == manager[h].product
Creating(p) == {h \in Managers : Of(h) = p /\ manager[h].at \in {"product", "price", "annual", "row"}}
Removing(p) == {h \in Managers : Of(h) = p /\ manager[h].at \in {"archive", "remove"}}

-----------------------------------------------------------------------------
(* Creating a product: Stripe first, the row last. *)

CreateProduct(h, p, request) ==
    /\ ~Listed(p) /\ shelf[p] = "none" /\ \A g \in Managers : Of(g) # p
    /\ Takes(h, [Off EXCEPT !.at = IF request.stripe THEN "product" ELSE "row",
                            !.product = p, !.request = request])
    /\ UNCHANGED <<goods, shelf, copies, sales, tester, doomed, adrift, typed>>

MakeStripeProduct(h) ==
    /\ Moves(h, "product", [manager[h] EXCEPT !.at = "price"])
    /\ shelf' = [shelf EXCEPT ![Of(h)] = "active"]
    /\ UNCHANGED <<goods, copies, sales, tester, doomed, adrift, typed>>

\* Metered wins over one-time, and neither has an annual price.
PriceOf(request)   == IF request.metered THEN "metered" ELSE "licensed"
AnnualDue(request) == request.annual /\ ~request.once /\ ~request.metered

MakePrice(h) ==
    LET request == manager[h].request IN
    /\ Moves(h, "price", [manager[h] EXCEPT !.at = IF AnnualDue(request) THEN "annual" ELSE "row",
                                            !.price = PriceOf(request)])
    /\ UNCHANGED <<goods, shelf, copies, sales, tester, doomed, adrift, typed>>

MakeAnnualPrice(h) ==
    /\ Moves(h, "annual", [manager[h] EXCEPT !.at = "row", !.annual = TRUE])
    /\ UNCHANGED <<goods, shelf, copies, sales, tester, doomed, adrift, typed>>

InsertProduct(h) ==
    /\ Moves(h, "row", Off)
    /\ goods' = [goods EXCEPT ![Of(h)] =
                   [linked |-> manager[h].request.stripe, price |-> manager[h].price,
                    annual |-> manager[h].annual, metered |-> manager[h].request.metered]]
    /\ UNCHANGED <<shelf, copies, sales, tester, doomed, adrift, typed>>

-----------------------------------------------------------------------------
(* Changing how it is priced. *)

\* PUT /products/:id sets the pricing type and leaves the price as it is.
SetPricing(p, metered) ==
    /\ Listed(p) /\ goods' = [goods EXCEPT ![p].metered = metered]
    /\ typed' = typed \cup {p}
    /\ UNCHANGED <<shelf, copies, sales, tester, manager, doomed, adrift>>

\* POST /products/:id/metered-price: the row is read, then Stripe is asked.
AddMeteredPrice(h, p) ==
    /\ Listed(p) /\ goods[p].linked
    /\ Takes(h, [Off EXCEPT !.at = "metered", !.product = p])
    /\ UNCHANGED <<goods, shelf, copies, sales, tester, doomed, adrift, typed>>

\* The update of a row that is gone fails; an annual price stays on sale.
WriteMeteredPrice(h) ==
    /\ Moves(h, "metered", Off) /\ Listed(Of(h))
    /\ goods' = [goods EXCEPT ![Of(h)].price = "metered", ![Of(h)].metered = TRUE]
    /\ typed' = typed \ {Of(h)}
    /\ UNCHANGED <<shelf, copies, sales, tester, doomed, adrift>>

-----------------------------------------------------------------------------
(* Deleting it. *)

UnlicensedAnyway(p) == Listed(p) \* mutant: the licences are not looked at
\* Every licence counts, whatever its status.
Unlicensed(p) == Listed(p) /\ \A l \in Copies : copies[l] # p

DeleteProduct(h, p) ==
    /\ Unlicensed(p)
    /\ Takes(h, [Off EXCEPT !.at = IF goods[p].linked THEN "archive" ELSE "remove", !.product = p])
    /\ UNCHANGED <<goods, shelf, copies, sales, tester, doomed, adrift, typed>>

\* What Stripe refuses is only logged.
ArchiveProduct(h) ==
    /\ Moves(h, "archive", [manager[h] EXCEPT !.at = "remove"])
    /\ \/ shelf' = [shelf EXCEPT ![Of(h)] = "archived"] /\ UNCHANGED adrift
       \/ adrift' = adrift \cup {Of(h)} /\ UNCHANGED shelf
    /\ UNCHANGED <<goods, copies, sales, tester, doomed, typed>>

\* onDelete: Cascade takes the licences of the product along.
RemoveProduct(h) ==
    LET p == Of(h) IN
    /\ Moves(h, "remove", Off) /\ Listed(p)
    /\ goods' = [goods EXCEPT ![p] = Unlisted]
    /\ copies' = [l \in Copies |-> IF copies[l] = p THEN NoGoods ELSE copies[l]]
    /\ UNCHANGED <<shelf, sales, tester, doomed, adrift, typed>>

-----------------------------------------------------------------------------
(* Issuing licences. *)

\* createLicense: the foreign key refuses a product that is gone.
Issue(l, p) ==
    /\ Listed(p) /\ l \notin sales
    /\ copies' = [copies EXCEPT ![l] = p]
    /\ sales' = sales \cup {l}
    /\ doomed' = IF Removing(p) # {} THEN doomed \cup {l} ELSE doomed
    /\ UNCHANGED <<goods, shelf, adrift, typed>>

IssueByHand(l, p) == Issue(l, p) /\ UNCHANGED <<tester, manager>>

\* POST /licenses/test looks for the product, then for the QA customer.
FindTester(h, l, p) ==
    /\ Listed(p) /\ l \notin sales
    /\ Takes(h, [Off EXCEPT !.at = IF tester THEN "issue" ELSE "tester", !.product = p, !.copy = l])
    /\ UNCHANGED <<goods, shelf, copies, sales, tester, doomed, adrift, typed>>

\* The address is unique: of two first calls one fails here.
CreateTester(h) ==
    /\ ~tester /\ Moves(h, "tester", [manager[h] EXCEPT !.at = "issue"])
    /\ tester' = TRUE
    /\ UNCHANGED <<goods, shelf, copies, sales, doomed, adrift, typed>>

IssueTest(h) ==
    /\ Moves(h, "issue", Off)
    /\ Issue(manager[h].copy, Of(h))
    /\ UNCHANGED tester

-----------------------------------------------------------------------------

\* Stripe or the database fails, a statement is refused or the process stops.
ManagerFails(h) ==
    LET p == Of(h) IN
    /\ manager[h] # Off /\ manager' = [manager EXCEPT ![h] = Off]
    /\ adrift' = IF \/ h \in Creating(p) /\ shelf[p] = "active"
                    \/ manager[h].at = "remove" /\ Listed(p) /\ goods[p].linked
                 THEN adrift \cup {p} ELSE adrift
    /\ UNCHANGED <<goods, shelf, copies, sales, tester, doomed, typed>>

CatalogueNext ==
    \/ \E h \in Managers :
         \/ \E p \in Goods :
              \/ \E request \in Listings : CreateProduct(h, p, request)
              \/ AddMeteredPrice(h, p) \/ DeleteProduct(h, p)
              \/ \E l \in Copies : FindTester(h, l, p)
         \/ MakeStripeProduct(h) \/ MakePrice(h) \/ MakeAnnualPrice(h) \/ InsertProduct(h)
         \/ WriteMeteredPrice(h) \/ ArchiveProduct(h) \/ RemoveProduct(h)
         \/ CreateTester(h) \/ IssueTest(h) \/ ManagerFails(h)
    \/ \E p \in Goods : \/ \E metered \in BOOLEAN : SetPricing(p, metered)
                        \/ \E l \in Copies : IssueByHand(l, p)

CatalogueSpec == CatalogueInit /\ [][CatalogueNext]_catalogueVars

-----------------------------------------------------------------------------

\* A licence does not disappear with its product, unless it was issued while a
\* deletion that had found none was under way; a product is on sale at Stripe
\* as long as its row is there and no longer, unless a creation or a deletion is
\* half-way, was cut short or went on after Stripe refused; and Stripe charges
\* by use exactly what the row says is metered, unless somebody set it by hand.
LicencesKeepTheirProduct ==
    /\ \A l \in sales \ doomed : copies[l] # NoGoods /\ Listed(copies[l])
    /\ \A p \in Goods \ adrift :
         /\ (Listed(p) /\ goods[p].linked /\ Removing(p) = {}) => shelf[p] = "active"
         /\ (shelf[p] = "active" /\ Creating(p) = {}) => Listed(p)
    /\ \A p \in Goods \ typed :
         (Listed(p) /\ goods[p].linked) => (goods[p].metered <=> goods[p].price = "metered")
=============================================================================
