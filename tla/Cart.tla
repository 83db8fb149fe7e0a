-------------------------------- MODULE Cart --------------------------------
(***************************************************************************)
(* The carts of one shopper: the one of the account, and the one of the    *)
(* browser session before logging in, which is merged into the former.     *)
(* Every request finds its cart with one statement and writes with others, *)
(* outside a transaction; only the order's own transaction clears a cart.  *)
(* Stock is checked when an item is added, and again by checkout: it is    *)
(* left out here, and so is the coupon.                                    *)
(***************************************************************************)
EXTENDS Integers, FiniteSets, Functions

CONSTANTS
    Goods,       \* products in the shop, without variant rows
    Selections,     \* what a shopper may choose of a product (variantSnapshot)
    CartIds, LineIds, \* rows that may come to exist
    Shoppers,    \* requests under way at the same time
    MaxQuantity, \* bound on a quantity asked for
    MaxPrice,    \* bound on prices
    MaxCalls,    \* bound on requests and price changes
    Empty        \* no line: never used; no cart

ASSUME CartAssumption ==
    /\ MaxQuantity \in Nat /\ MaxPrice \in Nat \ {0} /\ MaxCalls \in Nat
    /\ IsFiniteSet(LineIds) /\ IsFiniteSet(Shoppers)
    /\ Empty \notin CartIds \cup LineIds \cup Goods \cup Selections

VARIABLES
    cartOwner, \* Cart: "user", "guest", or "nobody" for a row still to come, "gone"
    cartLine,  \* CartItem: each line, "unused" or "deleted"
    shelf,     \* Product.price
    shopper,   \* per request: its step, arguments and the cart it has found
    basis,     \* the lines it has read
    \* history
    wanted,    \* units of a product the shopper has asked for and not ordered
    copied,    \* units a merge under way has copied to the account's cart
    disturbed, \* products for which a request wrote what was no longer so
    charged,   \* prices charged: the product, the price, the shop's price
    calls      \* requests and price changes so far

cartDb == <<cartOwner, cartLine, shelf>>
CartVars == <<cartOwner, cartLine, shelf, shopper, basis, wanted, copied, disturbed,
              charged, calls>>

NoLine == [state |-> "unused", cart |-> Empty, product |-> Empty, choice |-> Empty,
           quantity |-> 0, price |-> 0]
Deleted == [NoLine EXCEPT !.state = "deleted"]

Resting == [pc |-> "idle", what |-> "none", who |-> "user", product |-> Empty,
            choice |-> Empty, n |-> 0, price |-> [p \in Goods |-> 0], cart |-> Empty,
            guest |-> Empty, todo |-> {}]

NothingRead == [l \in LineIds |-> NoLine]
NoUnits == [p \in Goods |-> 0]

CartsOf(who) == {c \in CartIds : cartOwner[c] = who}
LinesOf(lines, c) == {l \in LineIds : lines[l].state = "line" /\ lines[l].cart = c}

\* Units of a product in a set of lines.
Units(lines, ids, p) ==
    SumFunctionOnSet([l \in ids |-> IF lines[l].product = p THEN lines[l].quantity ELSE 0], ids)

AllUnits(p) == Units(cartLine, LineIds, p)

CartInit ==
    /\ cartOwner = [c \in CartIds |-> "nobody"]
    /\ cartLine = [l \in LineIds |-> NoLine]
    /\ shelf = [p \in Goods |-> 1]
    /\ shopper = [w \in Shoppers |-> Resting]
    /\ basis = [w \in Shoppers |-> NothingRead]
    /\ wanted = NoUnits
    /\ copied = [w \in Shoppers |-> NoUnits]
    /\ disturbed = {}
    /\ charged = {}
    /\ calls = 0
-----------------------------------------------------------------------------
\* A request begins: the account's, or the guest session's.
StartCall(w, call) ==
    /\ shopper[w].pc = "idle" /\ calls < MaxCalls
    /\ shopper' = [shopper EXCEPT ![w] = [call EXCEPT !.pc = "find"]]
    /\ calls' = calls + 1
    /\ UNCHANGED cartDb /\ UNCHANGED <<wanted, copied, disturbed, charged>>

\* addItem has read the product and its price.
StartAdd(w) ==
    /\ \E who \in {"user", "guest"}, p \in Goods, c \in Selections, n \in 1..MaxQuantity :
          StartCall(w, [Resting EXCEPT !.what = "add", !.who = who, !.product = p,
                                       !.choice = c, !.n = n, !.price = shelf])
    /\ UNCHANGED basis

StartChange(w) ==
    /\ \E who \in {"user", "guest"}, n \in 0..MaxQuantity :
          StartCall(w, [Resting EXCEPT !.what = IF n = 0 THEN "remove" ELSE "set",
                                       !.who = who, !.n = n])
    /\ UNCHANGED basis

StartOrder(w) ==
    /\ StartCall(w, [Resting EXCEPT !.what = "order"])
    /\ UNCHANGED basis

\* mergeGuestCart reads the guest's cart; an empty one is left alone.
StartMerge(w) ==
    \E g \in CartsOf("guest") :
        /\ LinesOf(cartLine, g) # {}
        /\ StartCall(w, [Resting EXCEPT !.what = "merge", !.guest = g,
                                        !.todo = LinesOf(cartLine, g)])
        /\ basis' = [basis EXCEPT ![w] =
                [l \in LineIds |-> IF cartLine[l].cart = g THEN cartLine[l] ELSE NoLine]]

\* findFirst: any cart of the shopper.
FindCart(w) ==
    LET who == shopper[w].who
    IN  /\ shopper[w].pc = "find"
        /\ \/ /\ CartsOf(who) = {}
              /\ shopper' = [shopper EXCEPT ![w].pc = "create"]
              /\ UNCHANGED basis
           \/ \E c \in CartsOf(who) :
                /\ shopper' = [shopper EXCEPT ![w].pc = "write", ![w].cart = c,
                        ![w].price = IF shopper[w].what = "order" THEN shelf ELSE @]
                /\ basis' = [basis EXCEPT ![w] = [l \in LineIds |->
                        IF cartLine[l].cart = c THEN cartLine[l] ELSE @[l]]]
        /\ UNCHANGED cartDb /\ UNCHANGED <<wanted, copied, disturbed, charged, calls>>

CreateCart(w) ==
    /\ shopper[w].pc = "create"
    /\ CartsOf("nobody") # {}
    /\ LET c == CHOOSE c \in CartsOf("nobody") : TRUE
       IN  /\ cartOwner' = [cartOwner EXCEPT ![c] = shopper[w].who]
           /\ shopper' = [shopper EXCEPT ![w].pc = "write", ![w].cart = c]
    /\ UNCHANGED <<cartLine, shelf, basis, wanted, copied, disturbed, charged, calls>>
-----------------------------------------------------------------------------
EndCall(w) ==
    /\ shopper' = [shopper EXCEPT ![w] = Resting]
    /\ basis' = [basis EXCEPT ![w] = NothingRead]

Writes(w, what) == shopper[w].pc = "write" /\ shopper[w].what = what

\* The cart's lines as this request has read them.
Mine(w) == LinesOf(basis[w], shopper[w].cart)

\* The line still exists; an UPDATE or DELETE of a vanished one is an error.
Still(l) == cartLine[l].state = "line"

NewLine(cart, p, c, n, price) ==
    /\ cartOwner[cart] # "gone"
    /\ \E l \in LineIds : cartLine[l] = NoLine
    /\ cartLine' = [cartLine EXCEPT ![CHOOSE l \in LineIds : cartLine[l] = NoLine] =
            [state |-> "line", cart |-> cart, product |-> p, choice |-> c, quantity |-> n,
             price |-> price]]

\* Writes what was read plus n; disturbed if that is not what is there.
Increase(w, l, n) ==
    /\ Still(l)
    /\ cartLine' = [cartLine EXCEPT ![l].quantity = basis[w][l].quantity + n]
    /\ disturbed' = IF cartLine[l].quantity # basis[w][l].quantity
                    THEN disturbed \cup {cartLine[l].product} ELSE disturbed

\* addItem adds to a line of the same product and choice, or makes one.
AddWrite(w) ==
    LET s == shopper[w]
        same == {l \in Mine(w) : basis[w][l].product = s.product /\ basis[w][l].choice = s.choice}
    IN  /\ Writes(w, "add")
        /\ \/ \E l \in same : Increase(w, l, s.n)
           \/ same = {} /\ UNCHANGED disturbed
                /\ NewLine(s.cart, s.product, s.choice, s.n, s.price[s.product])
        /\ wanted' = [wanted EXCEPT ![s.product] = @ + s.n]
        /\ EndCall(w) /\ UNCHANGED <<cartOwner, shelf, copied, charged, calls>>

SetOrRemove(w) ==
    /\ Writes(w, "set") \/ Writes(w, "remove")
    /\ \E l \in Mine(w) :
          /\ Still(l)
          /\ cartLine' = [cartLine EXCEPT ![l] = IF shopper[w].what = "remove" THEN Deleted
                                                 ELSE [@ EXCEPT !.quantity = shopper[w].n]]
          /\ wanted' = [wanted EXCEPT ![cartLine[l].product] =
                            @ - cartLine[l].quantity + shopper[w].n]
    /\ EndCall(w) /\ UNCHANGED <<cartOwner, shelf, copied, disturbed, charged, calls>>

\* One line of the guest's, added to a line of the same product and variant,
\* whatever the choice; else as a line of its own.
MergeLine(w) ==
    LET s == shopper[w]
    IN  /\ Writes(w, "merge")
        /\ \E g \in s.todo :
              LET item == basis[w][g]
                  same == {l \in Mine(w) : basis[w][l].product = item.product}
              IN  /\ \/ \E l \in same : Increase(w, l, item.quantity)
                     \/ same = {} /\ UNCHANGED disturbed
                          /\ NewLine(s.cart, item.product, item.choice, item.quantity,
                                     item.price)
                  /\ shopper' = [shopper EXCEPT ![w].todo = @ \ {g}]
                  /\ copied' = [copied EXCEPT ![w][item.product] = @ + item.quantity]
        /\ UNCHANGED <<cartOwner, shelf, basis, wanted, charged, calls>>

Clear(c) == [l \in LineIds |-> IF l \in LinesOf(cartLine, c) THEN Deleted ELSE cartLine[l]]

\* Faulty variant: the guest's cart is kept.
MergeEndKeepsGuest(w) ==
    /\ Writes(w, "merge") /\ shopper[w].todo = {}
    /\ cartOwner[shopper[w].guest] = "guest"
    /\ copied' = [copied EXCEPT ![w] = NoUnits]
    /\ EndCall(w) /\ UNCHANGED <<cartOwner, cartLine, shelf, wanted, disturbed, charged, calls>>

\* Then the guest's cart is deleted, with all its lines.
MergeEnd(w) ==
    LET g == shopper[w].guest
    IN  /\ Writes(w, "merge") /\ shopper[w].todo = {}
        /\ cartOwner[g] = "guest"
        /\ cartOwner' = [cartOwner EXCEPT ![g] = "gone"]
        /\ cartLine' = Clear(g)
        /\ disturbed' = disturbed \cup
                {p \in Goods : Units(cartLine, LinesOf(cartLine, g), p) # copied[w][p]}
        /\ copied' = [copied EXCEPT ![w] = NoUnits]
        /\ EndCall(w) /\ UNCHANGED <<shelf, wanted, charged, calls>>

\* Checkout orders the lines it has read, at the prices of the lines, and
\* deletes all lines of the cart.
Order(w) ==
    LET read == basis[w]
        c == shopper[w].cart
    IN  /\ Writes(w, "order") /\ Mine(w) # {}
        /\ cartLine' = Clear(c)
        /\ wanted' = [p \in Goods |-> wanted[p] - Units(read, Mine(w), p)]
        /\ disturbed' = disturbed \cup {p \in Goods :
                Units(cartLine, LinesOf(cartLine, c), p) # Units(read, Mine(w), p)}
        /\ charged' = charged \cup {[product |-> read[l].product, price |-> read[l].price,
                                     shop |-> shopper[w].price[read[l].product]] : l \in Mine(w)}
        /\ EndCall(w) /\ UNCHANGED <<cartOwner, shelf, copied, calls>>

\* An error, or the end of the process.  A merge leaves what it has copied.
AbandonCall(w) ==
    /\ shopper[w].pc # "idle"
    /\ disturbed' = disturbed \cup {p \in Goods : copied[w][p] > 0}
    /\ copied' = [copied EXCEPT ![w] = NoUnits]
    /\ EndCall(w) /\ UNCHANGED cartDb /\ UNCHANGED <<wanted, charged, calls>>

Reprice(p) ==
    /\ calls < MaxCalls /\ calls' = calls + 1
    /\ \E price \in 1..MaxPrice \ {shelf[p]} : shelf' = [shelf EXCEPT ![p] = price]
    /\ UNCHANGED <<cartOwner, cartLine, shopper, basis, wanted, copied, disturbed, charged>>

CartNext ==
    \/ \E p \in Goods : Reprice(p)
    \/ \E w \in Shoppers :
          \/ StartAdd(w) \/ StartChange(w) \/ StartOrder(w) \/ StartMerge(w)
          \/ FindCart(w) \/ CreateCart(w)
          \/ AddWrite(w) \/ SetOrRemove(w) \/ MergeLine(w) \/ MergeEnd(w) \/ Order(w)
          \/ AbandonCall(w)

CartSpec == CartInit /\ [][CartNext]_CartVars
-----------------------------------------------------------------------------
LineRow == [state : {"line"}, cart : CartIds, product : Goods, choice : Selections,
            quantity : Nat, price : Nat]
CartRow == LineRow \cup {NoLine, Deleted}

CartCall ==
    [pc : {"idle", "find", "create", "write"},
     what : {"none", "add", "set", "remove", "order", "merge"}, who : {"user", "guest"},
     product : Goods \cup {Empty}, choice : Selections \cup {Empty}, n : Nat,
     price : [Goods -> Nat], cart : CartIds \cup {Empty}, guest : CartIds \cup {Empty},
     todo : SUBSET LineIds]

CartTypeOK ==
    /\ cartOwner \in [CartIds -> {"user", "guest", "nobody", "gone"}]
    /\ cartLine \in [LineIds -> CartRow]
    /\ shelf \in [Goods -> 1..MaxPrice]
    /\ shopper \in [Shoppers -> CartCall]
    /\ basis \in [Shoppers -> [LineIds -> CartRow]]
    /\ wanted \in [Goods -> Int]
    /\ copied \in [Shoppers -> [Goods -> Nat]]
    /\ disturbed \subseteq Goods
    /\ charged \subseteq [product : Goods, price : Nat, shop : Nat]
    /\ calls \in 0..MaxCalls

\* No unit is lost or doubled: the carts together hold what the shopper has
\* asked for and not ordered, and what a merge has copied so far.  The
\* exceptions are writes based on lines that had changed meanwhile (within one
\* merge, too, which reads the account's lines only once) and broken-off merges.
CartKeepsUnits ==
    \A p \in Goods \ disturbed :
        AllUnits(p) = wanted[p] + SumFunctionOnSet([w \in Shoppers |-> copied[w][p]], Shoppers)

\* Orders are charged at the shop's prices (createFromCart: "Re-price every
\* line item server-side").
ChargedShopPrice == \A c \in charged : c.price = c.shop
=============================================================================
