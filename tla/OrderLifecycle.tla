--------------------------- MODULE OrderLifecycle ---------------------------
(***************************************************************************)
(* What happens to the orders of one checkout after it has committed: the  *)
(* answer to the customer, Stripe's session and its webhook, updateStatus  *)
(* on behalf of customers, sellers, admins and the scheduler, and the      *)
(* sweep of stale card orders.                                             *)
(*                                                                         *)
(* updateStatus reads the order outside any transaction, decides from what *)
(* it has read, and then writes unconditionally: a request has a step for  *)
(* each, and others come in between.                                       *)
(***************************************************************************)
EXTENDS Integers, FiniteSets

CONSTANTS
    Orders,       \* the orders the checkout was split into, one per store
    Requests,     \* requests (and scheduler runs) under way at the same time
    Methods,      \* payment methods the checkout may use
    StaffMoves,   \* what sellers and admins do to an order
    ApproveWhen,  \* statuses in which admins approve a fulfilment request
    MaxMoves,     \* bound on the number of times they do
    MaxFailures,  \* bound on the number of requests that die half-way
    Keep,         \* a field the request leaves alone
    Nobody        \* no order

Restocks == {"cancelled", "returned", "exchanged"}

Cancellable == {"pending", "processing"}

Statuses == Restocks \cup Cancellable \cup
            {"shipped", "delivered", "return_requested", "exchange_requested"}

Payments == {"pending", "paid", "refunded"}

Sources == {"seller_stock", "veluntra_warehouse"}

Change == [status : Statuses \cup {Keep}, payment : Payments \cup {Keep}, tracking : BOOLEAN]

Actors == {"customer", "seller", "admin", "scheduler"}

ASSUME LifecycleAssumption ==
    /\ Methods \subseteq {"card", "cod", "demo_card"}
    /\ StaffMoves \subseteq [from : Statuses, by : {"seller", "admin"}, change : Change]
    /\ ApproveWhen \subseteq Statuses
    /\ MaxMoves \in Nat
    /\ MaxFailures \in Nat
    /\ Keep \notin Statuses \cup Payments
    /\ Nobody \notin Orders

VARIABLES
    \* the database
    status,     \* Order.status
    payment,    \* Order.paymentStatus
    source,     \* fulfillmentSource of the order's items
    method,     \* Order.paymentMethod
    restored,   \* history: times the order's units went back to each stock pool
    rewarded,   \* history: times the customer was rewarded for the order
    \* the world
    stale,      \* whether the orders are a day old
    session,    \* the Stripe Checkout session: "none", "open", "paid" or "expired"
    acked,      \* whether Stripe has had a 200 for its webhook
    \* the processes
    pc,         \* what each request does next
    order,      \* the order it is about
    by,         \* on whose behalf
    change,     \* the fields it wants changed
    seen,       \* the order as updateStatus read it
    todo,       \* orders a webhook has yet to mark paid
    listed,     \* stale orders the sweep has yet to cancel
    \* bounds
    moves, failures

db == <<status, payment, source, method, restored, rewarded>>
world == <<stale, session, acked>>
job == <<order, by, change, seen, todo>>
vars == <<status, payment, source, method, restored, rewarded, stale, session, acked,
          pc, order, by, change, seen, todo, listed, moves, failures>>

Unchanged == [status |-> Keep, payment |-> Keep, tracking |-> FALSE]

To(s) == [Unchanged EXCEPT !.status = s]

Unseen == [status |-> "pending", payment |-> "pending", source |-> "seller_stock"]

Init ==
    /\ status = [o \in Orders |-> "pending"]
    /\ payment = [o \in Orders |-> "pending"]
    /\ source = [o \in Orders |-> "seller_stock"]
    /\ method \in Methods
    /\ restored = [o \in Orders |-> [s \in Sources |-> 0]]
    /\ rewarded = [o \in Orders |-> 0]
    /\ stale = FALSE /\ session = "none" /\ acked = FALSE
    /\ \E r \in Requests : pc = [q \in Requests |-> IF q = r THEN "respond" ELSE "idle"]
    /\ order = [r \in Requests |-> Nobody]
    /\ by = [r \in Requests |-> "customer"]
    /\ change = [r \in Requests |-> Unchanged]
    /\ seen = [r \in Requests |-> Unseen]
    /\ todo = [r \in Requests |-> {}]
    /\ listed = {}
    /\ moves = 0 /\ failures = 0

Move(r, from, to) == pc[r] = from /\ pc' = [pc EXCEPT ![r] = to]

\* The request is over and forgotten.
Forget(r) ==
    /\ order' = [order EXCEPT ![r] = Nobody]
    /\ by' = [by EXCEPT ![r] = "customer"]
    /\ change' = [change EXCEPT ![r] = Unchanged]
    /\ seen' = [seen EXCEPT ![r] = Unseen]
    /\ todo' = [todo EXCEPT ![r] = {}]
-----------------------------------------------------------------------------
(* The answer to the checkout, and Stripe.                                 *)

\* Faulty variant: the card checkout is marked paid as the demo is.
BuildResponseMarksPaid(r) ==
    /\ Move(r, "respond", IF method = "cod" THEN "idle" ELSE "webhook")
    /\ session' = IF method = "card" THEN "open" ELSE session
    /\ todo' = [todo EXCEPT ![r] = IF method = "cod" THEN {} ELSE Orders]
    /\ UNCHANGED <<stale, acked, order, by, change, seen, listed, moves, failures>>
    /\ UNCHANGED db

\* Faulty variant: the demo checkout is answered without its mark.
BuildResponseForgetsDemo(r) ==
    /\ Move(r, "respond", "idle")
    /\ session' = IF method = "card" THEN "open" ELSE session
    /\ UNCHANGED <<stale, acked, listed, moves, failures>>
    /\ UNCHANGED db /\ UNCHANGED job

\* buildResponse: a Stripe session for "card", the mark for "demo_card".
BuildResponse(r) ==
    /\ Move(r, "respond", IF method = "demo_card" THEN "webhook" ELSE "idle")
    /\ session' = IF method = "card" THEN "open" ELSE session
    /\ todo' = [todo EXCEPT ![r] = IF method = "demo_card" THEN Orders ELSE {}]
    /\ UNCHANGED <<stale, acked, order, by, change, seen, listed, moves, failures>>
    /\ UNCHANGED db

\* The customer pays on Stripe's page, or never does.
PayAtStripe ==
    /\ session = "open"
    /\ session' = "paid"
    /\ UNCHANGED <<stale, acked, pc, listed, moves, failures>>
    /\ UNCHANGED db /\ UNCHANGED job

SessionExpires ==
    /\ session = "open" /\ stale
    /\ session' = "expired"
    /\ UNCHANGED <<stale, acked, pc, listed, moves, failures>>
    /\ UNCHANGED db /\ UNCHANGED job

\* STALE_CARD_ORDER_MS have passed since placedAt.
DayPasses ==
    /\ ~stale
    /\ stale' = TRUE
    /\ UNCHANGED <<session, acked, pc, listed, moves, failures>>
    /\ UNCHANGED db /\ UNCHANGED job

\* Stripe delivers checkout.session.completed until it is answered, and
\* possibly again.
WebhookArrives(r) ==
    /\ session = "paid"
    /\ Move(r, "idle", "webhook")
    /\ todo' = [todo EXCEPT ![r] = Orders]
    /\ UNCHANGED <<order, by, change, seen, listed, moves, failures>>
    /\ UNCHANGED db /\ UNCHANGED world

\* Faulty variant: the webhook fails on a cancelled order.
MarkPaidReadRejects(r, o) ==
    /\ pc[r] = "webhook" /\ o \in todo[r]
    /\ pc' = [pc EXCEPT ![r] = IF status[o] = "cancelled" THEN "idle" ELSE "pay"]
    /\ order' = [order EXCEPT ![r] = o]
    /\ UNCHANGED <<by, change, seen, todo, listed, moves, failures>>
    /\ UNCHANGED db /\ UNCHANGED world

\* markPaid: reads the next order, leaves a paid one alone ...
MarkPaidRead(r, o) ==
    /\ pc[r] = "webhook" /\ o \in todo[r]
    /\ IF payment[o] = "paid"
       THEN /\ todo' = [todo EXCEPT ![r] = @ \ {o}]
            /\ UNCHANGED <<pc, order>>
       ELSE /\ pc' = [pc EXCEPT ![r] = "pay"]
            /\ order' = [order EXCEPT ![r] = o]
            /\ UNCHANGED todo
    /\ UNCHANGED <<by, change, seen, listed, moves, failures>>
    /\ UNCHANGED db /\ UNCHANGED world

\* ... and marks any other, whatever has become of it since.
MarkPaidWrite(r) ==
    /\ Move(r, "pay", "webhook")
    /\ payment' = [payment EXCEPT ![order[r]] = "paid"]
    /\ todo' = [todo EXCEPT ![r] = @ \ {order[r]}]
    /\ order' = [order EXCEPT ![r] = Nobody]
    /\ UNCHANGED <<status, source, method, restored, rewarded>>
    /\ UNCHANGED <<by, change, seen, listed, moves, failures>> /\ UNCHANGED world

\* Faulty variant: Stripe is answered before the loop is through.
MarkPaidDoneEarly(r) ==
    /\ Move(r, "webhook", "idle")
    /\ acked' = (acked \/ method = "card")
    /\ UNCHANGED <<stale, session, listed, moves, failures>>
    /\ UNCHANGED db /\ UNCHANGED job

\* 200, or the answer to a demo_card checkout.
MarkPaidDone(r) ==
    /\ Move(r, "webhook", "idle")
    /\ todo[r] = {}
    /\ acked' = (acked \/ method = "card")
    /\ UNCHANGED <<stale, session, listed, moves, failures>>
    /\ UNCHANGED db /\ UNCHANGED job
-----------------------------------------------------------------------------
(* updateStatus and its callers.                                           *)

Call(r, o, actor, c) ==
    /\ Move(r, "idle", "update")
    /\ order' = [order EXCEPT ![r] = o]
    /\ by' = [by EXCEPT ![r] = actor]
    /\ change' = [change EXCEPT ![r] = c]
    /\ UNCHANGED <<seen, todo, failures>>
    /\ UNCHANGED db /\ UNCHANGED world

\* Inside the window, which is long or short as the admin has set it.
RequestCancellation(r, o) ==
    /\ status[o] \in Cancellable
    /\ Call(r, o, "customer", To("cancelled"))
    /\ UNCHANGED <<listed, moves>>

RequestReturn(r, o) ==
    /\ status[o] = "delivered"
    /\ Call(r, o, "customer", To("return_requested"))
    /\ UNCHANGED <<listed, moves>>

RequestExchange(r, o) ==
    /\ status[o] = "delivered"
    /\ Call(r, o, "customer", To("exchange_requested"))
    /\ UNCHANGED <<listed, moves>>

\* The admin's and the seller's updateOrderStatus pass on whatever they are
\* sent; the staff look at the order before they send it.
StaffUpdate(r, o, m) ==
    /\ moves < MaxMoves
    /\ m.from = status[o]
    /\ Call(r, o, m.by, m.change)
    /\ moves' = moves + 1
    /\ UNCHANGED listed

\* Faulty variant: only orders whose Stripe session is known to have expired.
SweepListExpired ==
    /\ listed = {}
    /\ \A r \in Requests : by[r] # "scheduler"
    /\ method = "card" /\ stale /\ session = "expired"
    /\ listed' = {o \in Orders : status[o] = "pending" /\ payment[o] = "pending"}
    /\ UNCHANGED <<pc, moves, failures>>
    /\ UNCHANGED db /\ UNCHANGED world /\ UNCHANGED job

\* checkStaleCardOrders lists the orders ...
SweepList ==
    /\ listed = {}
    /\ \A r \in Requests : by[r] # "scheduler"
    /\ method = "card" /\ stale
    /\ listed' = {o \in Orders : status[o] = "pending" /\ payment[o] = "pending"}
    /\ UNCHANGED <<pc, moves, failures>>
    /\ UNCHANGED db /\ UNCHANGED world /\ UNCHANGED job

\* ... and cancels them, one after the other.
SweepNext(r, o) ==
    /\ o \in listed
    /\ \A q \in Requests : by[q] # "scheduler"
    /\ Call(r, o, "scheduler", To("cancelled"))
    /\ listed' = listed \ {o}
    /\ UNCHANGED moves

\* A fulfilment request of the seller is approved: from now on the warehouse
\* fulfils the order's items.  approve looks at the request, not at the order.
Approve(r, o) ==
    /\ pc[r] = "idle"
    /\ source[o] = "seller_stock" /\ status[o] \in ApproveWhen
    /\ source' = [source EXCEPT ![o] = "veluntra_warehouse"]
    /\ UNCHANGED <<status, payment, method, restored, rewarded, pc, listed, moves, failures>>
    /\ UNCHANGED world /\ UNCHANGED job

TouchesShipping(c) == c.status = "shipped" \/ c.tracking

\* The order as it is now; only an admin ships what the warehouse fulfils.
ReadOrder(r) ==
    LET o == order[r] IN
    /\ pc[r] = "update"
    /\ IF by[r] = "seller" /\ source[o] = "veluntra_warehouse" /\ TouchesShipping(change[r])
       THEN /\ pc' = [pc EXCEPT ![r] = "idle"]
            /\ Forget(r)
       ELSE /\ pc' = [pc EXCEPT ![r] = "commit"]
            /\ seen' = [seen EXCEPT ![r] = [status |-> status[o], payment |-> payment[o],
                                            source |-> source[o]]]
            /\ UNCHANGED <<order, by, change, todo>>
    /\ UNCHANGED <<listed, moves, failures>> /\ UNCHANGED db /\ UNCHANGED world

\* Faulty variants: without the check of the old status, and one that knows
\* only cancellations.
IsRestockingAlways(from, to) == to \in Restocks

IsRestockingOfOpen(from, to) == to \in Restocks /\ from \in Cancellable

\* isRestockingTransition
IsRestocking(from, to) == to \in Restocks /\ from \notin Restocks

\* Faulty variant: only a parcel that arrives is rewarded.
EarnsRewardOfParcel(from, to) == to = "delivered" /\ from = "shipped"

\* Points and lifetime spend.
EarnsReward(from, to) == to = "delivered" /\ from # "delivered"

\* Faulty variant: cancelling leaves the payment alone.
NewPaymentNoRefund(r) ==
    IF change[r].payment = Keep THEN payment[order[r]] ELSE change[r].payment

\* Cancelling a paid order refunds it, unless the request says otherwise.
NewPayment(r) ==
    IF change[r].payment # Keep THEN change[r].payment
    ELSE IF /\ change[r].status = "cancelled" /\ seen[r].payment = "paid"
            /\ IsRestocking(seen[r].status, "cancelled")
         THEN "refunded"
         ELSE payment[order[r]]

\* Faulty variant: a field the request does not have is written all the same.
NewStatusWritten(r) == change[r].status

NewStatus(r) == IF change[r].status = Keep THEN status[order[r]] ELSE change[r].status

\* Faulty variant: everything goes back to the seller.
PoolOfSeller(r) == "seller_stock"

\* The stock pool the items came from.
Pool(r) == seen[r].source

\* The transaction: it writes the order, restocks and rewards, all as the
\* order was when it was read.
CommitUpdate(r) ==
    LET o == order[r]
        to == change[r].status IN
    /\ Move(r, "commit", "idle")
    /\ status' = [status EXCEPT ![o] = NewStatus(r)]
    /\ payment' = [payment EXCEPT ![o] = NewPayment(r)]
    /\ restored' = [restored EXCEPT ![o][Pool(r)] =
                        @ + (IF IsRestocking(seen[r].status, to) THEN 1 ELSE 0)]
    /\ rewarded' = [rewarded EXCEPT ![o] =
                        @ + (IF EarnsReward(seen[r].status, to) THEN 1 ELSE 0)]
    /\ Forget(r)
    /\ UNCHANGED <<source, method, listed, moves, failures>> /\ UNCHANGED world
-----------------------------------------------------------------------------
\* Stripe or the database fails a request, or the process dies under it: what
\* it has not committed is lost, and a webhook is not answered.
Fail(r) ==
    /\ failures < MaxFailures
    /\ pc[r] # "idle"
    /\ pc' = [pc EXCEPT ![r] = "idle"]
    /\ Forget(r)
    /\ failures' = failures + 1
    /\ UNCHANGED <<listed, moves>> /\ UNCHANGED db /\ UNCHANGED world

\* The process dies, and with it every request and the scheduler's list.
Crash ==
    /\ failures < MaxFailures
    /\ pc' = [r \in Requests |-> "idle"]
    /\ order' = [r \in Requests |-> Nobody]
    /\ by' = [r \in Requests |-> "customer"]
    /\ change' = [r \in Requests |-> Unchanged]
    /\ seen' = [r \in Requests |-> Unseen]
    /\ todo' = [r \in Requests |-> {}]
    /\ listed' = {}
    /\ failures' = failures + 1
    /\ UNCHANGED moves /\ UNCHANGED db /\ UNCHANGED world

Stripe == PayAtStripe \/ SessionExpires \/ DayPasses

\* A request under way takes its next step.
Step(r) ==
    \/ BuildResponse(r)
    \/ (\E o \in Orders : MarkPaidRead(r, o)) \/ MarkPaidWrite(r) \/ MarkPaidDone(r)
    \/ ReadOrder(r) \/ CommitUpdate(r)

Customer(r, o) ==
    RequestCancellation(r, o) \/ RequestReturn(r, o) \/ RequestExchange(r, o)

Next ==
    \/ Stripe
    \/ SweepList
    \/ \E r \in Requests :
        \/ Step(r)
        \/ WebhookArrives(r)
        \/ Fail(r)
        \/ \E o \in Orders :
            \/ Customer(r, o)
            \/ \E m \in StaffMoves : StaffUpdate(r, o, m)
            \/ SweepNext(r, o)
            \/ Approve(r, o)
    \/ Crash

Spec == Init /\ [][Next]_vars

\* Node.js runs every request to its end; the scheduler's interval comes round
\* again and again; Stripe retries until it has had its 200.
Fairness ==
    /\ \A r \in Requests : WF_vars(Step(r))
    /\ WF_vars(SweepList)
    /\ WF_vars(\E r \in Requests, o \in Orders : SweepNext(r, o))
    /\ WF_vars(~acked /\ \E r \in Requests : WebhookArrives(r))

FairSpec == Spec /\ Fairness
-----------------------------------------------------------------------------
TypeOK ==
    /\ status \in [Orders -> Statuses]
    /\ payment \in [Orders -> Payments]
    /\ source \in [Orders -> Sources]
    /\ method \in Methods
    /\ restored \in [Orders -> [Sources -> Nat]]
    /\ rewarded \in [Orders -> Nat]
    /\ stale \in BOOLEAN
    /\ session \in {"none", "open", "paid", "expired"}
    /\ acked \in BOOLEAN
    /\ pc \in [Requests -> {"idle", "respond", "webhook", "pay", "update", "commit"}]
    /\ order \in [Requests -> Orders \cup {Nobody}]
    /\ by \in [Requests -> Actors]
    /\ change \in [Requests -> Change]
    /\ seen \in [Requests -> [status : Statuses, payment : Payments, source : Sources]]
    /\ todo \in [Requests -> SUBSET Orders]
    /\ listed \subseteq Orders
    /\ moves \in 0..MaxMoves
    /\ failures \in 0..MaxFailures

TimesRestocked(o) ==
    restored[o]["seller_stock"] + restored[o]["veluntra_warehouse"]

\* However requests overlap, an order that is cancelled, returned or exchanged
\* has had its units put back: the guard against restocking twice never leaves
\* them out altogether.
ClosedIsRestocked ==
    \A o \in Orders : status[o] \in Restocks => TimesRestocked(o) >= 1

\* Without a payment typed in by staff, no order of a card checkout counts as
\* paid or refunded unless Stripe has taken the customer's money.
NeverPaidUnlessCharged ==
    (method = "card" /\ \A m \in StaffMoves : m.change.payment = Keep) =>
        \A o \in Orders : payment[o] # "pending" => session = "paid"

\* Once Stripe has had its 200, every order of the session has been marked,
\* whatever died or was delivered twice on the way.
AckedIsRecorded ==
    (acked /\ method = "card" /\ \A m \in StaffMoves : m.change.payment = Keep) =>
        \A o \in Orders : payment[o] # "pending"

\* However requests overlap, an order that counts as delivered has earned its
\* customer the reward: the guard against rewarding twice never leaves it out.
DeliveredIsRewarded ==
    \A o \in Orders : status[o] = "delivered" => rewarded[o] >= 1

\* A demo_card order is unpaid only until the request that made it has marked
\* it, or for good if that request dies: nothing else looks for such orders.
DemoPaidUnlessFailed ==
    (method = "demo_card" /\ failures = 0 /\ \A m \in StaffMoves : m.change.payment = Keep) =>
        \A o \in Orders : payment[o] = "pending" =>
            \E r \in Requests :
                pc[r] = "respond" \/ (pc[r] \in {"webhook", "pay"} /\ o \in todo[r])

\* Why these hold: the inductive invariant of OrderLifecycle_proofs.  A request
\* that found its order closed found it restocked too;
SeenClosedIsRestocked ==
    \A r \in Requests :
        /\ pc[r] \in {"pay", "update", "commit"} => order[r] \in Orders
        /\ pc[r] = "commit" /\ seen[r].status \in Restocks => TimesRestocked(order[r]) >= 1

\* the one request that answers the checkout comes before any Stripe session;
RespondsFirst ==
    \A r \in Requests : pc[r] = "respond" =>
        session = "none" /\ \A q \in Requests : pc[q] = "respond" => q = r

\* and whoever marks an order paid, or has found it paid, does so after the
\* customer paid, and leaves none behind.
MarksFollowPayment ==
    (method = "card" /\ \A m \in StaffMoves : m.change.payment = Keep) =>
        \A r \in Requests :
            /\ change[r].payment = Keep
            /\ pc[r] \in {"webhook", "pay"} =>
                    /\ session = "paid"
                    /\ \A o \in Orders \ todo[r] : payment[o] # "pending"
            /\ pc[r] = "commit" /\ seen[r].payment = "paid" => session = "paid"

IInv ==
    /\ TypeOK /\ ClosedIsRestocked /\ NeverPaidUnlessCharged /\ AckedIsRecorded
    /\ SeenClosedIsRestocked /\ RespondsFirst /\ MarksFollowPayment

\* Units go back exactly once, and only of an order that is over.  This and the
\* next two are what updateStatus gives requests that do not overlap.
RestockedOnce ==
    \A o \in Orders : TimesRestocked(o) = IF status[o] \in Restocks THEN 1 ELSE 0

\* Units go back where they came from.
RestockedAtSource ==
    \A o \in Orders, s \in Sources : restored[o][s] > 0 => s = source[o]

\* A paid order that is cancelled is refunded in the same step, also when the
\* scheduler had listed it as unpaid.
CancelRefunds ==
    [][\A o \in Orders :
        status[o] \notin Restocks /\ status'[o] = "cancelled" /\ payment[o] = "paid" =>
            payment'[o] = "refunded"]_vars

\* A refund stands: the webhook may come again, the order is left alone.
RefundStands ==
    [][\A o \in Orders : payment[o] = "refunded" => payment'[o] # "paid"]_vars

\* While requests about an order do not overlap, each of them is one event.
Book == INSTANCE OrderBook WITH
    charged <- (session = "paid" \/ method = "demo_card")

ImplementsOrderBook == Book!Spec

\* A card order that is never paid for does not keep its units for ever.
StaleOrderReleased ==
    \A o \in Orders :
        method = "card" /\ stale /\ status[o] = "pending" /\ payment[o] = "pending"
            ~> ~(status[o] = "pending" /\ payment[o] = "pending")

\* What the customer has paid for is recorded, on every order of the checkout.
PaymentRecorded ==
    \A o \in Orders : session = "paid" ~> payment[o] # "pending"
=============================================================================
