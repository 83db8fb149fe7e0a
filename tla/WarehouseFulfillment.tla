------------------------ MODULE WarehouseFulfillment ------------------------
(***************************************************************************)
(* The Veluntra warehouse's stock of one product, and the requests of      *)
(* sellers to have order items fulfilled from it.  A seller creates a      *)
(* request, an admin approves or rejects it; admins provision and correct  *)
(* the stock; an order that closes puts its item's units back.             *)
(*                                                                         *)
(* Every handler first reads, outside any transaction or without a lock,   *)
(* and acts on what it read in a later step.  What a transaction does to   *)
(* locked rows is one step.                                                *)
(***************************************************************************)
EXTENDS Integers, FiniteSets, Functions

CONSTANTS
    Items,       \* items of this product, one unit each, on orders of their own
    RequestIds,  \* FulfillmentRequest rows that may come to exist
    RowIds,      \* WarehouseStock rows that may come to exist
    Workers,     \* handlers under way at the same time
    ApproveWhen, \* order statuses in which admins approve a request
    MaxStock,    \* bound on what admins provision in a row
    None         \* no row, no request, no item

ASSUME WarehouseAssumption ==
    /\ MaxStock \in Nat
    /\ IsFiniteSet(Items) /\ IsFiniteSet(RowIds)
    /\ None \notin Nat \cup RequestIds \cup RowIds \cup Items

VARIABLES
    \* the database
    row,        \* WarehouseStock: units in each row, or None
    request,    \* FulfillmentRequest: the item and the status of each row
    source,     \* OrderItem.fulfillmentSource
    order,      \* the status of each item's order: open, sent or closed
    \* history
    adjusted,   \* the sum of all corrections admins made
    deducted,   \* units the warehouse gave for each item
    returned,   \* units of each item that went back to the warehouse
    overlapped, \* whether a handler has ever taken a step while another was under way
    \* handlers
    pc,         \* what each handler does next
    about,      \* the item, or the request, it is about
    found       \* what it read: a stock row, or a fulfilment source

db == <<row, request, source, order>>
history == <<adjusted, deducted, returned>>
vars == <<row, request, source, order, adjusted, deducted, returned, overlapped,
          pc, about, found>>

Sources == {"seller_stock", "veluntra_warehouse"}

Requests == {q \in RequestIds : request[q].status # "none"}

Rows == {d \in RowIds : row[d] # None}

Pending(i) == {q \in Requests : request[q].item = i /\ request[q].status = "pending"}

\* findFirst has no orderBy: any row, if there is one.
FirstRow == IF Rows = {} THEN {None} ELSE Rows

Init ==
    /\ row = [d \in RowIds |-> None]
    /\ request = [q \in RequestIds |-> [item |-> None, status |-> "none"]]
    /\ source = [i \in Items |-> "seller_stock"]
    /\ order = [i \in Items |-> "open"]
    /\ adjusted = 0
    /\ deducted = [i \in Items |-> 0]
    /\ returned = [i \in Items |-> 0]
    /\ overlapped = FALSE
    /\ pc = [w \in Workers |-> "idle"]
    /\ about = [w \in Workers |-> None]
    /\ found = [w \in Workers |-> None]

Goto(w, from, to, subject, finding) ==
    /\ pc[w] = from
    /\ pc' = [pc EXCEPT ![w] = to]
    /\ about' = [about EXCEPT ![w] = subject]
    /\ found' = [found EXCEPT ![w] = finding]
    /\ overlapped' = (overlapped \/ \E v \in Workers \ {w} : pc[v] # "idle")

Done(w, from) == Goto(w, from, "idle", None, None)
-----------------------------------------------------------------------------
(* create: a seller asks for an item of a pending or processing order.     *)

\* Bound: RequestIds has a row left for every seller who is about to insert.
RowLeft == Cardinality(Requests) + Cardinality({w \in Workers : pc[w] \in {"create", "insert"}})
                < Cardinality(RequestIds)

\* Faulty variant: also for an item the warehouse fulfils already.
CreateReadAny(w, i) ==
    /\ RowLeft
    /\ order[i] = "open"
    /\ Goto(w, "idle", "create", i, None)
    /\ UNCHANGED db /\ UNCHANGED history

\* An open order, an item that is still the seller's.
CreateRead(w, i) ==
    /\ RowLeft
    /\ order[i] = "open" /\ source[i] = "seller_stock"
    /\ Goto(w, "idle", "create", i, None)
    /\ UNCHANGED db /\ UNCHANGED history

\* Faulty variant: a request is a duplicate only once it is fulfilled.
CreateFindFulfilled(w) ==
    /\ IF \E q \in Requests : request[q] = [item |-> about[w], status |-> "fulfilled"]
       THEN Done(w, "create")
       ELSE Goto(w, "create", "insert", about[w], None)
    /\ UNCHANGED db /\ UNCHANGED history

\* existingPending
CreateFind(w) ==
    /\ IF Pending(about[w]) # {}
       THEN Done(w, "create")
       ELSE Goto(w, "create", "insert", about[w], None)
    /\ UNCHANGED db /\ UNCHANGED history

CreateInsert(w) ==
    /\ \E q \in RequestIds \ Requests :
            request' = [request EXCEPT ![q] = [item |-> about[w], status |-> "pending"]]
    /\ Done(w, "insert")
    /\ UNCHANGED <<row, source, order>> /\ UNCHANGED history
-----------------------------------------------------------------------------
(* approve and reject: an admin resolves a request.                        *)

\* Faulty variant: a resolved request is resolved again.
ResolveReadAny(w, q, verdict) ==
    /\ q \in Requests
    /\ verdict = "approve" => order[request[q].item] \in ApproveWhen
    /\ Goto(w, "idle", verdict, q, None)
    /\ UNCHANGED db /\ UNCHANGED history

\* Only a pending request; the code does not look at the order, the admins of
\* some instances do.
ResolveRead(w, q, verdict) ==
    /\ q \in Requests /\ request[q].status = "pending"
    /\ verdict = "approve" => order[request[q].item] \in ApproveWhen
    /\ Goto(w, "idle", verdict, q, None)
    /\ UNCHANGED db /\ UNCHANGED history

\* Faulty variant: the decrement has no stock condition.
EnoughAnyway(d) == TRUE

\* The condition of the conditional UPDATE.
Enough(d) == row[d] >= 1

\* Faulty variant: the item keeps its source.
SourceKept(i) == UNCHANGED source

FulfilledByWarehouse(i) == source' = [source EXCEPT ![i] = "veluntra_warehouse"]

\* The transaction of approve: decrement, source, status.
ApproveTx(w) ==
    LET q == about[w]
        i == request[q].item IN
    /\ Done(w, "approve")
    /\ \E d \in Rows :
            /\ Enough(d)
            /\ row' = [row EXCEPT ![d] = @ - 1]
    /\ FulfilledByWarehouse(i)
    /\ request' = [request EXCEPT ![q].status = "fulfilled"]
    /\ deducted' = [deducted EXCEPT ![i] = @ + 1]
    /\ UNCHANGED <<order, adjusted, returned>>

\* Nothing provisioned, or not enough in the row that was found.
ApproveFails(w) ==
    /\ Done(w, "approve")
    /\ \E d \in FirstRow : d # None => ~Enough(d)
    /\ UNCHANGED db /\ UNCHANGED history

RejectWrite(w) ==
    /\ Done(w, "reject")
    /\ request' = [request EXCEPT ![about[w]].status = "rejected"]
    /\ UNCHANGED <<row, source, order>> /\ UNCHANGED history
-----------------------------------------------------------------------------
(* adjust: an admin provisions or corrects the stock.                      *)

\* Faulty variant: a row for every adjustment.
AdjustFindNone(w) ==
    /\ Goto(w, "idle", "adjust", None, None)
    /\ UNCHANGED db /\ UNCHANGED history

\* getOrCreate looks for the row ...
AdjustFind(w) ==
    /\ \E d \in FirstRow : Goto(w, "idle", "adjust", None, d)
    /\ UNCHANGED db /\ UNCHANGED history

\* ... and the rest of the transaction creates it, if it found none, and adds
\* or, if there is enough, takes away a unit.
Adjust(w, delta) ==
    LET d == found[w] IN
    /\ Done(w, "adjust")
    /\ IF d = None
       THEN /\ delta > 0
            /\ \E e \in RowIds \ Rows : row' = [row EXCEPT ![e] = delta]
       ELSE /\ IF delta < 0 THEN row[d] + delta >= 0 ELSE row[d] + delta <= MaxStock
            /\ row' = [row EXCEPT ![d] = @ + delta]
    /\ adjusted' = adjusted + delta
    /\ UNCHANGED <<request, source, order, deducted, returned>>

\* Below zero: everything is rolled back, a row just created included.
AdjustFails(w) ==
    /\ Done(w, "adjust")
    /\ found[w] # None => row[found[w]] = 0
    /\ UNCHANGED db /\ UNCHANGED history
-----------------------------------------------------------------------------
(* updateStatus: an order is sent (shipped or delivered) or closes           *)
(* (cancelled, returned or exchanged).                                     *)

Send(i) ==
    /\ order[i] = "open"
    /\ order' = [order EXCEPT ![i] = "sent"]
    /\ UNCHANGED <<row, request, source, overlapped, pc, about, found>>
    /\ UNCHANGED history

CloseRead(w, i) ==
    /\ order[i] # "closed"
    /\ Goto(w, "idle", "close", i, source[i])
    /\ UNCHANGED db /\ UNCHANGED history

\* Faulty variants: a write of what was read before, in place of an increment,
\* and no write at all.
RestoreAbsolute(w, d) ==
    IF d = None
    THEN UNCHANGED <<row, returned>>
    ELSE /\ row' = [row EXCEPT ![d] = 1]
         /\ returned' = [returned EXCEPT ![about[w]] = @ + 1]

RestoreNothing(w, d) == UNCHANGED <<row, returned>>

\* restoreStock; a no-op without a row.
Restore(w, d) ==
    IF d = None
    THEN UNCHANGED <<row, returned>>
    ELSE /\ row' = [row EXCEPT ![d] = @ + 1]
         /\ returned' = [returned EXCEPT ![about[w]] = @ + 1]

CloseWrite(w) ==
    /\ Done(w, "close")
    /\ order' = [order EXCEPT ![about[w]] = "closed"]
    /\ IF found[w] = "veluntra_warehouse"
       THEN \E d \in FirstRow : Restore(w, d)
       ELSE UNCHANGED <<row, returned>>
    /\ UNCHANGED <<request, source, adjusted, deducted>>
-----------------------------------------------------------------------------
Next ==
    \/ \E i \in Items : Send(i)
    \/ \E w \in Workers :
        \/ \E i \in Items : CreateRead(w, i) \/ CloseRead(w, i)
        \/ CreateFind(w) \/ CreateInsert(w)
        \/ \E q \in RequestIds, verdict \in {"approve", "reject"} : ResolveRead(w, q, verdict)
        \/ ApproveTx(w) \/ ApproveFails(w) \/ RejectWrite(w)
        \/ AdjustFind(w) \/ (\E delta \in {-1, 1} : Adjust(w, delta)) \/ AdjustFails(w)
        \/ CloseWrite(w)

Spec == Init /\ [][Next]_vars
-----------------------------------------------------------------------------
TypeOK ==
    /\ row \in [RowIds -> Nat \cup {None}]
    /\ request \in [RequestIds -> [item : Items \cup {None},
                                   status : {"none", "pending", "fulfilled", "rejected"}]]
    /\ source \in [Items -> Sources]
    /\ order \in [Items -> {"open", "sent", "closed"}]
    /\ adjusted \in Int
    /\ deducted \in [Items -> Nat]
    /\ returned \in [Items -> Nat]
    /\ overlapped \in BOOLEAN
    /\ pc \in [Workers -> {"idle", "create", "insert", "approve", "reject", "adjust", "close"}]
    /\ about \in [Workers -> Items \cup RequestIds \cup {None}]
    /\ found \in [Workers -> RowIds \cup Sources \cup {None}]

\* Whatever overlaps, and however many rows the product has come to have, no
\* unit is lost or made: the rows hold what was provisioned, less what orders
\* took, plus what they gave back.
UnitsAccounted ==
    SumFunctionOnSet(row, Rows) =
        adjusted - SumFunctionOnSet(deducted, Items) + SumFunctionOnSet(returned, Items)

\* An item is the warehouse's exactly if the warehouse gave a unit for it, and
\* only such an item has a request that counts as fulfilled.
SourceTellsPool ==
    /\ \A i \in Items : source[i] = "veluntra_warehouse" <=> deducted[i] > 0
    /\ \A q \in Requests : request[q].status = "fulfilled" => deducted[request[q].item] > 0

\* The warehouse gives one unit for an item, however often its seller asks; an
\* item has at most one pending request; a product without variants has one
\* stock row.  This and what follows is what the checks of the service layer
\* give, in place of constraints, as long as no two handlers overlap.
OneOfEach ==
    ~overlapped =>
        /\ \A i \in Items : deducted[i] <= 1 /\ Cardinality(Pending(i)) <= 1
        /\ Cardinality(Rows) <= 1

\* A request is resolved once.
ResolvedOnce ==
    [][~overlapped' => \A q \in Requests :
        request[q].status # "pending" => request'[q] = request[q]]_vars

\* An order that has closed leaves no hole in the warehouse.
ClosedGivesBack ==
    ~overlapped => \A i \in Items : order[i] = "closed" => returned[i] = deducted[i]

\* Several rows, and reads that are stale when they are acted on, do not show
\* in the units: they make up one account, and what a row gives, an item gets.
Account == INSTANCE StockAccount WITH
    shelf <- SumFunctionOnSet(row, Rows), given <- deducted, back <- returned

ImplementsStockAccount == Account!Spec
=============================================================================
