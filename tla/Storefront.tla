----------------------------- MODULE Storefront -----------------------------
(***************************************************************************)
(* The lists of products, page by page, and what partners order from them. *)
(* A list is a query of its own for every page: rows that the sort key     *)
(* does not tell apart come in any order, and the shop is edited meanwhile.*)
(* A dropshipper or wholesaler asks for a product at the price of the      *)
(* catalogue, which the request keeps.                                     *)
(***************************************************************************)
EXTENDS Integers, FiniteSets, SequencesExt

CONSTANTS
    Wares,       \* products
    Categories, Vendors, \* of the wares: category (or brand), store
    Prices,      \* prices and special prices that occur
    NoPrice,     \* no special price
    Lists,       \* "public", "dropship", "wholesale", "store", "platform"
    DefaultLimit, MaxLimit, \* of a page: 12 (or 20) and 60
    RawLimits,   \* what ?limit= may say, 0 for nothing or nonsense
    Requests,    \* partner requests that may come to exist
    MaxVisits    \* bound on walks, edits and requests

ASSUME StorefrontAssumption ==
    /\ Prices \subseteq Nat /\ RawLimits \subseteq Int
    /\ DefaultLimit \in 1..MaxLimit /\ {MaxLimit, MaxVisits} \subseteq Nat
    /\ IsFiniteSet(Wares)
    /\ Lists \subseteq {"public", "dropship", "wholesale", "store", "platform"}

VARIABLES
    ware,    \* Product: status, category, store and its approval, prices
    visit,   \* a shopper's walk: list, filter, page size, next page, what was shown
    request, \* DropshipOrderRequest, WholesaleOrderRequest
    \* history
    unsettled, \* the shop was edited, or rows tied, since the walk began
    visits

StorefrontVars == <<ware, visit, request, unsettled, visits>>

NoVisit == [list |-> "none", category |-> "all", limit |-> 0, page |-> 0, shown |-> <<>>,
            done |-> TRUE]
NoRequest == [status |-> "none", list |-> "none", product |-> NoPrice, unitPrice |-> NoPrice]

StorefrontInit ==
    /\ ware \in [Wares -> [status : {"published", "draft"}, approved : BOOLEAN,
                           category : Categories, store : Vendors,
                           price : Prices, special : {NoPrice}]]
    /\ visit = NoVisit /\ request = [r \in Requests |-> NoRequest]
    /\ unsettled = FALSE /\ visits = 0
-----------------------------------------------------------------------------
\* parsePagination: pages from 1 on, of 1 to MaxLimit rows.
Limit(raw) == Min({MaxLimit, Max({1, IF raw = 0 THEN DefaultLimit ELSE raw})})

\* Faulty variant: a page starts where the next one should.
SkipOnePage(page, limit) == page * limit

Skip(page, limit) == (page - 1) * limit

OnSale(p) == ware[p].status = "published" /\ ware[p].approved
Fits(p, category) == category \in {"all", ware[p].category}

\* list and the partners' catalogues show what is on sale; listProducts of the
\* seller all of a store, of the admin everything.
Public(category) == {p \in Wares : OnSale(p) /\ Fits(p, category)}
Catalogue(category) == {p \in Wares : OnSale(p) /\ Fits(p, category)}
OfStore(store) == {p \in Wares : ware[p].status # "none" /\ ware[p].store = store}
Platform == {p \in Wares : ware[p].status # "none"}

Matches(list, category) ==
    CASE list = "public" -> Public(category)
      [] list \in {"dropship", "wholesale"} -> Catalogue(category)
      [] list = "store" -> OfStore(CHOOSE v \in Vendors : TRUE)
      [] list = "platform" -> Platform

\* The orders in which a query by price may return rows.
Orders(rows) ==
    {s \in SetToSeqs(rows) : \A i, j \in DOMAIN s : i < j => ware[s[i]].price <= ware[s[j]].price}
Tied(rows) == \E p, q \in rows : p # q /\ ware[p].price = ware[q].price

\* The price a request is made at, which create computes by itself.
UnitPrice(p) == IF ware[p].special = NoPrice THEN ware[p].price ELSE ware[p].special
-----------------------------------------------------------------------------
Visit == visits < MaxVisits /\ visits' = visits + 1

StartWalk ==
    /\ visit.done
    /\ \E l \in Lists, c \in Categories \cup {"all"}, raw \in RawLimits :
          visit' = [list |-> l, category |-> c, limit |-> Limit(raw), page |-> 1,
                    shown |-> <<>>, done |-> FALSE]
    /\ unsettled' = FALSE
    /\ Visit /\ UNCHANGED <<ware, request>>

\* One page; the walk ends when a page shows that the total was reached.
NextPage ==
    LET rows == Matches(visit.list, visit.category)
        first == Skip(visit.page, visit.limit)
    IN  /\ ~visit.done
        /\ \E s \in Orders(rows) :
              visit' = [visit EXCEPT
                  !.shown = @ \o SubSeq(s, first + 1, Min({first + visit.limit, Len(s)})),
                  !.page = @ + 1,
                  !.done = visit.page * visit.limit >= Cardinality(rows)]
        /\ unsettled' = (unsettled \/ Tied(rows))
        /\ UNCHANGED <<ware, request, visits>>

Alter(p, with) ==
    /\ ware[p].status # "none" /\ ware[p] # with
    /\ ware' = [ware EXCEPT ![p] = with]
    /\ unsettled' = TRUE
    /\ Visit /\ UNCHANGED visit

\* A product is repriced, published or withdrawn, or its store's approval changed.
EditWare(p) ==
    /\ \/ \E x \in Prices : Alter(p, [ware[p] EXCEPT !.price = x])
       \/ \E x \in Prices \cup {NoPrice} : Alter(p, [ware[p] EXCEPT !.special = x])
       \/ \E s \in {"published", "draft"} : Alter(p, [ware[p] EXCEPT !.status = s])
       \/ Alter(p, [ware[p] EXCEPT !.approved = ~@])
    /\ UNCHANGED request

\* The requests for a product go with it.
DeleteWare(p) ==
    /\ Alter(p, [ware[p] EXCEPT !.status = "none"])
    /\ request' = [r \in Requests |-> IF request[r].product = p THEN NoRequest ELSE request[r]]

\* A request needs a published product; of the store's approval nothing is said.
Request(r, list) ==
    /\ request[r].status = "none" /\ list \in Lists
    /\ \E p \in Wares :
          /\ ware[p].status = "published"
          /\ request' = [request EXCEPT ![r] =
                [status |-> "new", list |-> list, product |-> p, unitPrice |-> UnitPrice(p)]]
    /\ Visit /\ UNCHANGED <<ware, visit, unsettled>>

RequestDropship(r) == Request(r, "dropship")
RequestWholesale(r) == Request(r, "wholesale")

SetRequestStatus(r) ==
    /\ request[r].status # "none"
    /\ \E s \in {"new", "processing", "fulfilled", "cancelled"} \ {request[r].status} :
          request' = [request EXCEPT ![r].status = s]
    /\ Visit /\ UNCHANGED <<ware, visit, unsettled>>

StorefrontNext ==
    \/ StartWalk \/ NextPage
    \/ \E p \in Wares : EditWare(p) \/ DeleteWare(p)
    \/ \E r \in Requests : RequestDropship(r) \/ RequestWholesale(r) \/ SetRequestStatus(r)

StorefrontSpec == StorefrontInit /\ [][StorefrontNext]_StorefrontVars
-----------------------------------------------------------------------------
WareRow == [status : {"published", "draft", "none"}, approved : BOOLEAN,
            category : Categories, store : Vendors,
            price : Prices, special : Prices \cup {NoPrice}]
Walk == [list : Lists, category : Categories \cup {"all"}, limit : 1..MaxLimit,
         page : Nat \ {0}, shown : Seq(Wares), done : BOOLEAN]
RequestRow == [status : {"new", "processing", "fulfilled", "cancelled"}, list : Lists,
               product : Wares, unitPrice : Prices]

\* No request is for a product that is gone.
StorefrontTypeOK ==
    /\ ware \in [Wares -> WareRow]
    /\ visit \in Walk \cup {NoVisit}
    /\ request \in [Requests -> RequestRow \cup {NoRequest}]
    /\ unsettled \in BOOLEAN /\ visits \in 0..MaxVisits
    /\ \A r \in Requests : request[r].status # "none" => ware[request[r].product].status # "none"

\* Whoever turns the pages of a list to its end has seen every product of it
\* once ("filtered server-side across the whole catalogue"), unless the shop was
\* edited meanwhile or the sort left rows tied.
PagesCoverList ==
    visit.done /\ ~unsettled /\ visit # NoVisit =>
        /\ ToSet(visit.shown) = Matches(visit.list, visit.category)
        /\ Len(visit.shown) = Cardinality(ToSet(visit.shown))
=============================================================================
