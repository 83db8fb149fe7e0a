------------------------------- MODULE Reports -------------------------------
(***************************************************************************)
(* The figures that admins and sellers are shown (overview, dashboard,     *)
(* trends, rankings), each a query of its own over the orders.             *)
(* Rankings are taken whole: a platform with more than ten stores,         *)
(* products or categories sees the first ten.                              *)
(***************************************************************************)
EXTENDS Integers, FiniteSets, Functions

CONSTANTS
    OrderIds,   \* orders that may come to exist
    Shops, Buyers, Articles, Groups, \* stores, customers, products, categories
    GroupOf, ShopOf, \* category and store of the articles
    ArticlePrices,   \* prices that occur
    Fee,        \* shipping, part of an order's total but of no item
    Noon,       \* ticks in a day
    Window,     \* days: 30
    LastHour, MaxSales \* bounds on time and on changes of orders

ASSUME ReportsAssumption ==
    /\ GroupOf \in [Articles -> Groups] /\ ShopOf \in [Articles -> Shops]
    /\ ArticlePrices \subseteq Nat /\ {Fee, LastHour, MaxSales} \subseteq Nat
    /\ {Noon, Window} \subseteq Nat \ {0}
    /\ \A s \in {OrderIds, Shops, Buyers, Articles, Groups} : IsFiniteSet(s)

VARIABLES
    hour,    \* the time, in ticks
    sale,    \* Order: store, customer, time, status; the articles, one each
    \* history
    sales

ReportsVars == <<hour, sale, sales>>

NoSale == [status |-> "none", shop |-> "none", buyer |-> "none", at |-> 0,
           articles |-> {}]

ReportsInit ==
    /\ hour = 0 /\ sale = [o \in OrderIds |-> NoSale]
    /\ sales = 0
-----------------------------------------------------------------------------
Exist == {o \in OrderIds : sale[o].status # "none"}

\* Faulty variant: only what was delivered counts.
KeptDelivered == {o \in Exist : sale[o].status = "delivered"}

\* "status: { not: 'cancelled' }", of every figure but ordersByCategory.
Kept == {o \in Exist : sale[o].status # "cancelled"}

\* priceSnapshot * quantity; articles is a set of articles with their prices.
ItemsTotal(items) == SumFunctionOnSet([i \in items |-> i[2]], items)
Total(o) == ItemsTotal(sale[o].articles) + Fee
Revenue(orders) == SumFunctionOnSet([o \in orders |-> Total(o)], orders)
ItemsOf(o, articles) == {i \in sale[o].articles : i[1] \in articles}
ItemRevenue(orders, articles) ==
    SumFunctionOnSet([o \in orders |-> ItemsTotal(ItemsOf(o, articles))], orders)
InGroup(g) == {a \in Articles : GroupOf[a] = g}

\* admin.service
TotalRevenue == Revenue(Kept)
SellerPerformance(s) == Revenue({o \in Kept : sale[o].shop = s})
TopProduct(a) == ItemRevenue(Kept, {a})
TopCategory(g) == ItemRevenue(Kept, InGroup(g))
Midnight == (hour \div Noon) * Noon
Since(t) == Revenue({o \in Kept : sale[o].at >= t})
Last30 == Since(Midnight - Window * Noon)
Prev30 == Since(Midnight - 2 * Window * Noon) - Last30
CustomerTotal(b) == Revenue({o \in Kept : sale[o].buyer = b})

\* What revenueTrend of admin and seller selects for one day.
Bucket(orders, day) ==
    Revenue({o \in orders : /\ sale[o].status # "cancelled"
                            /\ sale[o].at >= hour - Window * Noon
                            /\ sale[o].at \div Noon = day})
Trend(day) == Bucket(Exist, day)

\* seller.service, store by store.
Of(s) == {o \in Exist : sale[o].shop = s /\ sale[o].status # "cancelled"}
StoreRevenue(s) == Revenue(Of(s))
StoreTrend(s, day) == Bucket({o \in Exist : sale[o].shop = s}, day)
TopOfStore(s, a) == ItemRevenue(Of(s), {a})
CategorySales(s, g) == ItemRevenue(Of(s), InGroup(g))
Spent(s, b) == Revenue({o \in Of(s) : sale[o].buyer = b})
-----------------------------------------------------------------------------
Sell == sales < MaxSales /\ sales' = sales + 1

NewSale(o) ==
    /\ sale[o] = NoSale
    /\ \E s \in Shops, b \in Buyers, as \in SUBSET Articles, f \in [Articles -> ArticlePrices] :
          /\ as # {} /\ \A a \in as : ShopOf[a] = s
          /\ sale' = [sale EXCEPT ![o] = [status |-> "pending", shop |-> s, buyer |-> b,
                at |-> hour, articles |-> {<<a, f[a]>> : a \in as}]]
    /\ Sell /\ UNCHANGED hour

\* updateStatus.
MoveSale(o) ==
    /\ o \in Exist
    /\ \E s \in {"processing", "delivered", "returned", "cancelled"} \ {sale[o].status} :
          sale' = [sale EXCEPT ![o].status = s]
    /\ Sell /\ UNCHANGED hour

PassTime == hour < LastHour /\ hour' = hour + 1 /\ UNCHANGED <<sale, sales>>

ReportsNext ==
    \/ \E o \in OrderIds : NewSale(o) \/ MoveSale(o)
    \/ PassTime

ReportsSpec == ReportsInit /\ [][ReportsNext]_ReportsVars
-----------------------------------------------------------------------------
SaleRow == [status : {"pending", "processing", "delivered", "returned", "cancelled"},
            shop : Shops, buyer : Buyers, at : 0..LastHour,
            articles : SUBSET (Articles \X ArticlePrices)]

ReportsTypeOK ==
    /\ hour \in 0..LastHour
    /\ sale \in [OrderIds -> SaleRow \cup {NoSale}]
    /\ sales \in 0..MaxSales

SumOver(S, F(_)) == SumFunctionOnSet([x \in S |-> F(x)], S)

\* The figures of the platform and of its stores are of the same orders: the
\* revenue, in all and day by day, is that of the stores and of their customers,
\* the best sellers' that of the categories, product by product; the trend's days
\* add up to no more than the last 30 days of the dashboard ("the same headline
\* numbers as overview()"), which with the 30 before make no more than the whole.
ReportsAgree ==
    /\ TotalRevenue = SumOver(Shops, SellerPerformance)
    /\ TotalRevenue = SumOver(Shops, StoreRevenue)
    /\ \A b \in Buyers : CustomerTotal(b) = SumOver(Shops, LAMBDA s : Spent(s, b))
    /\ \A s \in Shops : StoreRevenue(s) = SumOver(Buyers, LAMBDA b : Spent(s, b))
    /\ SumOver(Articles, TopProduct) = SumOver(Groups, TopCategory)
    /\ \A a \in Articles : TopProduct(a) = SumOver(Shops, LAMBDA s : TopOfStore(s, a))
    /\ \A g \in Groups : TopCategory(g) = SumOver(Shops, LAMBDA s : CategorySales(s, g))
    /\ \A day \in 0..LastHour : Trend(day) = SumOver(Shops, LAMBDA s : StoreTrend(s, day))
    /\ SumOver(0..LastHour, Trend) <= Last30
    /\ Last30 + Prev30 <= TotalRevenue
=============================================================================
