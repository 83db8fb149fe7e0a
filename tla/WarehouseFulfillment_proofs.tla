-------------------- MODULE WarehouseFulfillment_proofs --------------------
(***************************************************************************)
(* What WarehouseFulfillment guarantees however its handlers overlap, for  *)
(* any numbers of items, requests, stock rows and handlers: its types (no  *)
(* row is ever below zero), and that an item is marked as the warehouse's  *)
(* exactly if the warehouse gave for it, and that no unit is lost or made.  *)
(* None is inductive: they need to know what a handler half-way through    *)
(* has in hand.                                                            *)
(***************************************************************************)
EXTENDS WarehouseFulfillment, Sums

\* Rows and requests never vanish, so that what a handler has read is there
\* when it writes.
HandlersKnow ==
    \A w \in Workers :
        /\ pc[w] \in {"create", "insert", "close"} => about[w] \in Items
        /\ pc[w] \in {"approve", "reject"} => about[w] \in Requests
        /\ pc[w] = "adjust" => found[w] \in Rows \cup {None}

RequestsOfItems == \A q \in Requests : request[q].item \in Items

IInv == TypeOK /\ HandlersKnow /\ RequestsOfItems /\ SourceTellsPool

\* The first state satisfies the invariant.
LEMMA InitInv == Init => IInv
<1>. SUFFICES ASSUME Init PROVE IInv
  OBVIOUS
<1>1. TypeOK
  <2>1. [item |-> None, status |-> "none"] \in
            [item : Items \cup {None}, status : {"none", "pending", "fulfilled", "rejected"}]
    OBVIOUS
  <2>2. request \in [RequestIds -> [item : Items \cup {None},
                                   status : {"none", "pending", "fulfilled", "rejected"}]]
    BY <2>1 DEF Init
  <2>3. row \in [RowIds -> Nat \cup {None}]
    BY DEF Init
  <2>4. /\ source \in [Items -> Sources] /\ deducted \in [Items -> Nat]
        /\ returned \in [Items -> Nat] /\ order \in [Items -> {"open", "sent", "closed"}]
    BY DEF Init, Sources
  <2>5. /\ about \in [Workers -> Items \cup RequestIds \cup {None}]
        /\ pc \in [Workers -> {"idle", "create", "insert", "approve", "reject",
                               "adjust", "close"}]
    BY DEF Init
  <2>6. found \in [Workers -> RowIds \cup Sources \cup {None}]
    BY DEF Init
  <2>7. adjusted \in Int
    BY DEF Init
  <2>8. overlapped \in BOOLEAN
    BY DEF Init
  <2>. QED
    BY <2>2, <2>3, <2>4, <2>5, <2>6, <2>7, <2>8 DEF TypeOK
<1>2. Requests = {}
  BY DEF Init, Requests
<1>3. HandlersKnow
  BY DEF Init, HandlersKnow
<1>4. RequestsOfItems /\ SourceTellsPool
  BY <1>2 DEF Init, RequestsOfItems, SourceTellsPool
<1>. QED
  BY <1>1, <1>3, <1>4 DEF IInv

\* A handler goes on without touching the database, with what it knows.
LEMMA GotoInv ==
    ASSUME IInv, NEW w \in Workers, NEW from, NEW to, NEW subject, NEW finding,
           Goto(w, from, to, subject, finding), UNCHANGED db, UNCHANGED history,
           to \in {"idle", "create", "insert", "approve", "reject", "adjust", "close"},
           subject \in Items \cup RequestIds \cup {None},
           finding \in RowIds \cup Sources \cup {None},
           to \in {"create", "insert", "close"} => subject \in Items,
           to \in {"approve", "reject"} => subject \in Requests,
           to = "adjust" => finding \in Rows \cup {None}
    PROVE  IInv'
<1>1. TypeOK'
  BY DEF IInv, TypeOK, Goto, db, history
<1>2. HandlersKnow'
  BY DEF IInv, TypeOK, HandlersKnow, Goto, db, Requests, Rows
<1>3. RequestsOfItems' /\ SourceTellsPool'
  BY DEF IInv, RequestsOfItems, SourceTellsPool, db, history, Requests
<1>. QED
  BY <1>1, <1>2, <1>3 DEF IInv

\* A handler ends: what the others know stays true if rows and requests stay.
LEMMA DoneKnows ==
    ASSUME IInv, NEW w \in Workers, NEW from, Done(w, from),
           Rows \subseteq Rows', Requests \subseteq Requests'
    PROVE  /\ HandlersKnow'
           /\ pc' \in [Workers -> {"idle", "create", "insert", "approve", "reject",
                                   "adjust", "close"}]
           /\ about' \in [Workers -> Items \cup RequestIds \cup {None}]
           /\ found' \in [Workers -> RowIds \cup Sources \cup {None}]
           /\ overlapped' \in BOOLEAN
<1>1. /\ pc' = [pc EXCEPT ![w] = "idle"] /\ about' = [about EXCEPT ![w] = None]
      /\ found' = [found EXCEPT ![w] = None]
  BY DEF Done, Goto
<1>2. HandlersKnow'
  BY <1>1 DEF IInv, TypeOK, HandlersKnow
<1>3. overlapped' \in BOOLEAN
  BY DEF Done, Goto
<1>. QED
  BY <1>1, <1>2, <1>3 DEF IInv, TypeOK
-----------------------------------------------------------------------------
\* The steps that only read, and those that give up.
LEMMA ReadsInv ==
    ASSUME IInv, NEW w \in Workers,
           \/ \E i \in Items : CreateRead(w, i) \/ CloseRead(w, i)
           \/ CreateFind(w)
           \/ \E q \in RequestIds, verdict \in {"approve", "reject"} : ResolveRead(w, q, verdict)
           \/ AdjustFind(w) \/ ApproveFails(w) \/ AdjustFails(w)
    PROVE  IInv'
<1>1. CASE \E i \in Items : CreateRead(w, i)
  BY <1>1, GotoInv DEF CreateRead
<1>2. CASE \E i \in Items : CloseRead(w, i)
  <2>1. PICK i \in Items : CloseRead(w, i)
    BY <1>2
  <2>2. source[i] \in Sources
    BY DEF IInv, TypeOK
  <2>. QED
    BY <2>1, <2>2, GotoInv DEF CloseRead
<1>3. CASE CreateFind(w)
  <2>1. pc[w] = "create"
    BY <1>3 DEF CreateFind, Done, Goto
  <2>2. about[w] \in Items
    BY <2>1 DEF IInv, HandlersKnow
  <2>. QED
    BY <1>3, <2>2, GotoInv DEF CreateFind, Done
<1>4. CASE \E q \in RequestIds, verdict \in {"approve", "reject"} : ResolveRead(w, q, verdict)
  <2>1. PICK q \in RequestIds, verdict \in {"approve", "reject"} : ResolveRead(w, q, verdict)
    BY <1>4
  <2>. QED
    BY <2>1, GotoInv DEF ResolveRead
<1>5. CASE AdjustFind(w)
  <2>1. PICK d \in FirstRow : Goto(w, "idle", "adjust", None, d)
    BY <1>5 DEF AdjustFind
  <2>2. d \in Rows \cup {None} /\ d \in RowIds \cup {None}
    BY DEF FirstRow, Rows
  <2>. QED
    BY <1>5, <2>1, <2>2, GotoInv DEF AdjustFind
<1>6. CASE ApproveFails(w)
  BY <1>6, GotoInv DEF ApproveFails, Done
<1>7. CASE AdjustFails(w)
  BY <1>7, GotoInv DEF AdjustFails, Done
<1>. QED
  BY <1>1, <1>2, <1>3, <1>4, <1>5, <1>6, <1>7
-----------------------------------------------------------------------------
\* A new request is pending, and of an item.
LEMMA InsertInv == ASSUME IInv, NEW w \in Workers, CreateInsert(w) PROVE IInv'
<1>1. PICK q \in RequestIds \ Requests :
            request' = [request EXCEPT ![q] = [item |-> about[w], status |-> "pending"]]
  BY DEF CreateInsert
<1>2. about[w] \in Items
  BY DEF IInv, HandlersKnow, CreateInsert, Done, Goto
<1>3. Requests' = Requests \cup {q} /\ Rows' = Rows
  BY <1>1 DEF IInv, TypeOK, Requests, Rows, CreateInsert
<1>4. HandlersKnow' /\ TypeOK'
  BY <1>1, <1>2, <1>3, DoneKnows DEF IInv, TypeOK, CreateInsert, history
<1>5. RequestsOfItems'
  BY <1>1, <1>2, <1>3 DEF IInv, TypeOK, RequestsOfItems
<1>6. SourceTellsPool'
  BY <1>1, <1>2, <1>3 DEF IInv, TypeOK, SourceTellsPool, CreateInsert, history
<1>. QED
  BY <1>4, <1>5, <1>6 DEF IInv

\* The warehouse gives a unit and marks the item, in one transaction.
LEMMA ApproveInv == ASSUME IInv, NEW w \in Workers, ApproveTx(w) PROVE IInv'
<1>. DEFINE q == about[w]
            i == request[q].item
<1>1. q \in Requests /\ q \in RequestIds
  BY DEF IInv, HandlersKnow, ApproveTx, Done, Goto, Requests
<1>2. i \in Items
  BY <1>1 DEF IInv, RequestsOfItems
<1>3. PICK d \in Rows : Enough(d) /\ row' = [row EXCEPT ![d] = @ - 1]
  BY DEF ApproveTx
<1>4. d \in RowIds /\ row[d] \in Nat /\ row[d] >= 1
  BY <1>3 DEF IInv, TypeOK, Rows, Enough
<1>5. row[d] - 1 \in Nat
  BY <1>4
<1>6. /\ row' \in [RowIds -> Nat \cup {None}]
      /\ Rows \subseteq Rows'
  BY <1>3, <1>4, <1>5, WarehouseAssumption DEF IInv, TypeOK, Rows
<1>7. /\ request' = [request EXCEPT ![q].status = "fulfilled"]
      /\ source' = [source EXCEPT ![i] = "veluntra_warehouse"]
      /\ deducted' = [deducted EXCEPT ![i] = @ + 1]
      /\ UNCHANGED <<order, adjusted, returned>>
  BY DEF ApproveTx, FulfilledByWarehouse
<1>8. /\ request' \in [RequestIds -> [item : Items \cup {None},
                                      status : {"none", "pending", "fulfilled", "rejected"}]]
      /\ \A r \in RequestIds : request'[r].item = request[r].item
      /\ \A r \in RequestIds : r # q => request'[r] = request[r]
      /\ request'[q].status = "fulfilled"
  BY <1>1, <1>7 DEF IInv, TypeOK
<1>9. Requests' = Requests
  BY <1>1, <1>8 DEF Requests
<1>10. /\ deducted' \in [Items -> Nat]
       /\ deducted'[i] > 0
       /\ \A j \in Items : j # i => deducted'[j] = deducted[j]
  BY <1>2, <1>7 DEF IInv, TypeOK
<1>11. source' \in [Items -> Sources]
  BY <1>2, <1>7 DEF IInv, TypeOK, Sources
<1>12. HandlersKnow' /\ TypeOK'
  BY <1>6, <1>7, <1>8, <1>9, <1>10, <1>11, DoneKnows DEF ApproveTx, IInv, TypeOK
<1>13. RequestsOfItems'
  BY <1>8, <1>9 DEF IInv, RequestsOfItems, Requests
<1>14. SourceTellsPool'
  <2>1. \A j \in Items : source'[j] = "veluntra_warehouse" <=> deducted'[j] > 0
    BY <1>2, <1>7, <1>10 DEF IInv, TypeOK, SourceTellsPool
  <2>2. ASSUME NEW r \in Requests, request'[r].status = "fulfilled"
        PROVE  deducted'[request'[r].item] > 0
    <3>1. CASE r = q
      BY <3>1, <1>1, <1>8, <1>10
    <3>2. CASE r # q
      <4>1. r \in RequestIds /\ request'[r] = request[r] /\ request[r].item \in Items
        BY <3>2, <1>8 DEF Requests, IInv, RequestsOfItems
      <4>2. deducted[request[r].item] > 0
        BY <2>2, <4>1 DEF IInv, SourceTellsPool
      <4>. QED
        BY <4>1, <4>2, <1>10
    <3>. QED
      BY <3>1, <3>2
  <2>. QED
    BY <2>1, <2>2, <1>9 DEF SourceTellsPool
<1>. QED
  BY <1>12, <1>13, <1>14 DEF IInv

\* A request is rejected, even one that has meanwhile been approved.
LEMMA RejectInv == ASSUME IInv, NEW w \in Workers, RejectWrite(w) PROVE IInv'
<1>. DEFINE q == about[w]
<1>1. q \in Requests /\ q \in RequestIds
  BY DEF IInv, HandlersKnow, RejectWrite, Done, Goto, Requests
<1>2. /\ request' = [request EXCEPT ![q].status = "rejected"]
      /\ UNCHANGED <<row, source, order, adjusted, deducted, returned>>
  BY DEF RejectWrite, history
<1>3. /\ request' \in [RequestIds -> [item : Items \cup {None},
                                      status : {"none", "pending", "fulfilled", "rejected"}]]
      /\ \A r \in RequestIds : request'[r].item = request[r].item
      /\ \A r \in RequestIds : r # q => request'[r] = request[r]
      /\ request'[q].status = "rejected"
  BY <1>1, <1>2 DEF IInv, TypeOK
<1>4. Requests' = Requests /\ Rows' = Rows
  BY <1>1, <1>2, <1>3 DEF Requests, Rows
<1>5. HandlersKnow' /\ TypeOK'
  BY <1>2, <1>3, <1>4, DoneKnows DEF RejectWrite, IInv, TypeOK
<1>6. RequestsOfItems'
  BY <1>3, <1>4 DEF IInv, RequestsOfItems, Requests
<1>7. SourceTellsPool'
  BY <1>2, <1>3, <1>4 DEF IInv, SourceTellsPool, Requests
<1>. QED
  BY <1>5, <1>6, <1>7 DEF IInv
-----------------------------------------------------------------------------
\* Only stock rows change, none vanishes and none falls below zero.
LEMMA StockInv ==
    ASSUME IInv, NEW w \in Workers, NEW from, Done(w, from),
           row' \in [RowIds -> Nat \cup {None}], Rows \subseteq Rows',
           order' \in [Items -> {"open", "sent", "closed"}],
           adjusted' \in Int, returned' \in [Items -> Nat],
           UNCHANGED <<request, source, deducted>>
    PROVE  IInv'
<1>1. Requests' = Requests
  BY DEF Requests
<1>2. HandlersKnow' /\ TypeOK'
  BY <1>1, DoneKnows DEF IInv, TypeOK
<1>3. RequestsOfItems' /\ SourceTellsPool'
  BY <1>1 DEF IInv, RequestsOfItems, SourceTellsPool
<1>. QED
  BY <1>2, <1>3 DEF IInv

\* A correction is refused if it would take more than there is.
LEMMA AdjustInv ==
    ASSUME IInv, NEW w \in Workers, NEW delta \in {-1, 1}, Adjust(w, delta)
    PROVE  IInv'
<1>. DEFINE d == found[w]
<1>1. d \in Rows \cup {None}
  BY DEF IInv, HandlersKnow, Adjust, Done, Goto
<1>2. Done(w, "adjust") /\ UNCHANGED <<request, source, order, deducted, returned>>
  BY DEF Adjust
<1>3. adjusted' \in Int
  BY DEF IInv, TypeOK, Adjust
<1>4. row' \in [RowIds -> Nat \cup {None}] /\ Rows \subseteq Rows'
  <2>1. CASE d = None
    <3>1. PICK e \in RowIds \ Rows : row' = [row EXCEPT ![e] = delta]
      BY <2>1 DEF Adjust
    <3>2. delta \in Nat
      BY <2>1 DEF Adjust
    <3>. QED
      BY <3>1, <3>2 DEF IInv, TypeOK, Rows
  <2>2. CASE d # None
    <3>1. d \in RowIds /\ row[d] \in Nat
      BY <1>1, <2>2 DEF IInv, TypeOK, Rows
    <3>2. row' = [row EXCEPT ![d] = @ + delta]
      BY <2>2 DEF Adjust
    <3>3. row[d] + delta \in Nat
      BY <2>2, <3>1 DEF Adjust
    <3>. QED
      BY <3>1, <3>2, <3>3, WarehouseAssumption DEF IInv, TypeOK, Rows
  <2>. QED
    BY <2>1, <2>2
<1>. QED
  BY <1>2, <1>3, <1>4, StockInv DEF IInv, TypeOK

\* A closing order puts a unit back, into whatever row is found.
LEMMA CloseInv == ASSUME IInv, NEW w \in Workers, CloseWrite(w) PROVE IInv'
<1>1. about[w] \in Items
  BY DEF IInv, HandlersKnow, CloseWrite, Done, Goto
<1>2. /\ Done(w, "close") /\ UNCHANGED <<request, source, adjusted, deducted>>
      /\ order' \in [Items -> {"open", "sent", "closed"}]
  BY <1>1 DEF CloseWrite, IInv, TypeOK
<1>3. /\ row' \in [RowIds -> Nat \cup {None}] /\ Rows \subseteq Rows'
      /\ returned' \in [Items -> Nat]
  <2>1. CASE UNCHANGED <<row, returned>>
    BY <2>1 DEF IInv, TypeOK, Rows
  <2>2. CASE ~ UNCHANGED <<row, returned>>
    <3>1. PICK d \in FirstRow : Restore(w, d) /\ d # None
      BY <2>2 DEF CloseWrite, Restore
    <3>2. d \in RowIds /\ row[d] \in Nat
      BY <3>1 DEF FirstRow, Rows, IInv, TypeOK
    <3>3. /\ row' = [row EXCEPT ![d] = @ + 1]
          /\ returned' = [returned EXCEPT ![about[w]] = @ + 1]
      BY <3>1 DEF Restore
    <3>4. row' \in [RowIds -> Nat \cup {None}] /\ Rows \subseteq Rows'
      BY <3>2, <3>3, WarehouseAssumption DEF IInv, TypeOK, Rows
    <3>. QED
      BY <1>1, <3>3, <3>4 DEF IInv, TypeOK
  <2>. QED
    BY <2>1, <2>2
<1>. QED
  BY <1>2, <1>3, StockInv DEF IInv, TypeOK

\* An order is sent: nothing of the warehouse moves.
LEMMA SendInv == ASSUME IInv, NEW i \in Items, Send(i) PROVE IInv'
<1>1. TypeOK'
  BY DEF IInv, TypeOK, Send, history
<1>2. HandlersKnow' /\ RequestsOfItems' /\ SourceTellsPool'
  BY DEF IInv, HandlersKnow, RequestsOfItems, SourceTellsPool, Send, history, Requests, Rows
<1>. QED
  BY <1>1, <1>2 DEF IInv
-----------------------------------------------------------------------------
\* Every step preserves the invariant.
LEMMA StepInv == IInv /\ [Next]_vars => IInv'
<1>. SUFFICES ASSUME IInv, [Next]_vars PROVE IInv'
  OBVIOUS
<1>1. ASSUME NEW i \in Items, Send(i) PROVE IInv'
  BY <1>1, SendInv
<1>2. ASSUME NEW w \in Workers,
             \/ \E i \in Items : CreateRead(w, i) \/ CloseRead(w, i)
             \/ CreateFind(w)
             \/ \E q \in RequestIds, verdict \in {"approve", "reject"} : ResolveRead(w, q, verdict)
             \/ AdjustFind(w) \/ ApproveFails(w) \/ AdjustFails(w)
      PROVE  IInv'
  BY <1>2, ReadsInv
<1>3. ASSUME NEW w \in Workers, CreateInsert(w) \/ ApproveTx(w) \/ RejectWrite(w) \/ CloseWrite(w)
      PROVE  IInv'
  BY <1>3, InsertInv, ApproveInv, RejectInv, CloseInv
<1>4. ASSUME NEW w \in Workers, NEW delta \in {-1, 1}, Adjust(w, delta) PROVE IInv'
  BY <1>4, AdjustInv
<1>5. CASE UNCHANGED vars
  BY <1>5 DEF vars, IInv, TypeOK, HandlersKnow, RequestsOfItems, SourceTellsPool, Requests, Rows
<1>. QED
  BY <1>1, <1>2, <1>3, <1>4, <1>5 DEF Next

\* The invariant holds throughout.
THEOREM Invariance == Spec => []IInv
BY InitInv, StepInv, PTL DEF Spec

\* The state keeps its types; in particular no stock row of the warehouse ever
\* falls below zero, although approvals, corrections and returns of any number
\* of handlers overlap (decrementStock's condition, adjust's check).
THEOREM TypeCorrect == Spec => []TypeOK
<1>1. IInv => TypeOK
  BY DEF IInv
<1>. QED
  BY <1>1, Invariance, PTL

\* An item is marked as fulfilled by the warehouse exactly if the warehouse
\* gave a unit for it, and every fulfilled request stands for such an item
\* (approve's transaction).
THEOREM SourceAlwaysTellsPool == Spec => []SourceTellsPool
<1>1. IInv => SourceTellsPool
  BY DEF IInv
<1>. QED
  BY <1>1, Invariance, PTL
-----------------------------------------------------------------------------
\* What the sums run over.
LEMMA Finite == IInv => /\ IsFiniteSet(Rows) /\ IsFiniteSet(Items)
                        /\ \A d \in Rows : d \in RowIds /\ row[d] \in Nat
                        /\ \A i \in Items : deducted[i] \in Int /\ returned[i] \in Int
                        /\ SumFunctionOnSet(row, Rows) \in Int
                        /\ SumFunctionOnSet(deducted, Items) \in Int
                        /\ SumFunctionOnSet(returned, Items) \in Int
<1>. SUFFICES ASSUME IInv PROVE /\ IsFiniteSet(Rows) /\ IsFiniteSet(Items)
                                /\ \A d \in Rows : d \in RowIds /\ row[d] \in Nat
                                /\ \A i \in Items : deducted[i] \in Int /\ returned[i] \in Int
                                /\ SumFunctionOnSet(row, Rows) \in Int
                                /\ SumFunctionOnSet(deducted, Items) \in Int
                                /\ SumFunctionOnSet(returned, Items) \in Int
  OBVIOUS
<1>1. IsFiniteSet(Rows) /\ IsFiniteSet(Items)
  BY WarehouseAssumption, FS_Subset DEF Rows
<1>2. \A d \in Rows : d \in RowIds /\ row[d] \in Nat /\ row[d] \in Int
  BY DEF IInv, TypeOK, Rows
<1>3. \A i \in Items : deducted[i] \in Int /\ returned[i] \in Int
  BY DEF IInv, TypeOK
<1>. QED
  BY <1>1, <1>2, <1>3, SumInt

\* A unit more or less in one row.
LEMMA RowChanges ==
    ASSUME IInv, NEW d \in Rows, NEW n \in Int, row[d] + n \in Nat
    PROVE  row' = [row EXCEPT ![d] = @ + n]
                => SumFunctionOnSet(row', Rows') = SumFunctionOnSet(row, Rows) + n
<1>1. ASSUME row' = [row EXCEPT ![d] = @ + n]
      PROVE  SumFunctionOnSet(row', Rows') = SumFunctionOnSet(row, Rows) + n
  <2>1. /\ Rows' = Rows /\ row'[d] = row[d] + n
        /\ \A e \in Rows \ {d} : row'[e] = row[e]
    BY <1>1, Finite, WarehouseAssumption DEF IInv, TypeOK, Rows
  <2>2. IsFiniteSet(Rows) /\ \A e \in Rows : row[e] \in Int
    BY Finite
  <2>. QED
    BY <2>1, <2>2, SumGrows
<1>. QED
  BY <1>1

\* A unit more that an item got or gave back.
LEMMA CountChanges ==
    ASSUME NEW f, NEW g, NEW i \in Items
    PROVE  f \in [Items -> Nat] /\ g = [f EXCEPT ![i] = @ + 1]
                => SumFunctionOnSet(g, Items) = SumFunctionOnSet(f, Items) + 1
<1>1. ASSUME f \in [Items -> Nat] /\ g = [f EXCEPT ![i] = @ + 1]
      PROVE  SumFunctionOnSet(g, Items) = SumFunctionOnSet(f, Items) + 1
  <2>1. /\ g[i] = f[i] + 1 /\ 1 \in Int /\ \A j \in Items : f[j] \in Int
        /\ \A j \in Items \ {i} : g[j] = f[j]
    BY <1>1
  <2>2. IsFiniteSet(Items)
    BY WarehouseAssumption
  <2>. QED
    BY <2>1, <2>2, SumGrows
<1>. QED
  BY <1>1

Shelf == SumFunctionOnSet(row, Rows)

\* An approval takes one unit from a row, and gives it for an item.
LEMMA ApproveMoves ==
    ASSUME IInv, NEW w \in Workers, ApproveTx(w)
    PROVE  /\ Shelf >= 1 /\ Shelf' = Shelf - 1
           /\ request[about[w]].item \in Items
           /\ deducted' = [deducted EXCEPT ![request[about[w]].item] = @ + 1]
           /\ UNCHANGED <<order, adjusted, returned>>
<1>1. request[about[w]].item \in Items
  BY DEF IInv, HandlersKnow, RequestsOfItems, ApproveTx, Done, Goto
<1>2. PICK d \in Rows : Enough(d) /\ row' = [row EXCEPT ![d] = @ - 1]
  BY DEF ApproveTx
<1>3. d \in Rows /\ row[d] \in Nat /\ row[d] >= 1
  BY <1>2, Finite DEF Enough
<1>4. -1 \in Int /\ row[d] + (-1) \in Nat /\ row[d] - 1 = row[d] + (-1)
  BY <1>3
<1>5. SumFunctionOnSet(row', Rows') = SumFunctionOnSet(row, Rows) + (-1)
  <2>1. row' = [row EXCEPT ![d] = @ + (-1)]
    BY <1>2, <1>4
  <2>. QED
    BY <1>3, <1>4, <2>1, RowChanges
<1>6. Shelf >= 1
  <2>1. SumFunctionOnSet(row, {d}) <= SumFunctionOnSet(row, Rows)
    BY <1>3, Finite, SumSubset
  <2>2. SumFunctionOnSet(row, {d}) = row[d]
    <3>1. SumFunctionOnSet(row, {} \cup {d}) = SumFunctionOnSet(row, {}) + row[d]
      <4>1. IsFiniteSet({}) /\ d \notin {} /\ \A x \in {} \cup {d} : row[x] \in Int
        BY <1>3, FS_EmptySet
      <4>. QED
        BY ONLY <4>1, SumJoin
    <3>2. {} \cup {d} = {d} /\ SumFunctionOnSet(row, {}) = 0
      BY SumEmpty
    <3>. QED
      BY <1>3, <3>1, <3>2
  <2>. QED
    BY <1>3, <2>1, <2>2, Finite DEF Shelf
<1>7. Shelf' = Shelf - 1
  BY <1>5, Finite DEF Shelf
<1>. QED
  BY <1>1, <1>6, <1>7 DEF ApproveTx

\* A correction adds to a row, or to a new row, what it is.
LEMMA AdjustMoves ==
    ASSUME IInv, NEW w \in Workers, NEW delta \in {-1, 1}, Adjust(w, delta)
    PROVE  /\ Shelf' = Shelf + delta
           /\ adjusted' = adjusted + delta
           /\ UNCHANGED <<source, order, deducted, returned>>
<1>. DEFINE d == found[w]
<1>1. d \in Rows \cup {None}
  BY DEF IInv, HandlersKnow, Adjust, Done, Goto
<1>2. SumFunctionOnSet(row', Rows') = SumFunctionOnSet(row, Rows) + delta
  <2>1. CASE d = None
    <3>1. PICK e \in RowIds \ Rows : row' = [row EXCEPT ![e] = delta]
      BY <2>1 DEF Adjust
    <3>2. delta = 1
      BY <2>1 DEF Adjust
    <3>3. /\ Rows' = Rows \cup {e} /\ e \notin Rows /\ row'[e] = delta
          /\ \A r \in Rows : row'[r] = row[r]
      BY <3>1, <3>2, WarehouseAssumption DEF IInv, TypeOK, Rows
    <3>4. \A r \in Rows \cup {e} : row'[r] \in Int
      BY <3>2, <3>3, Finite
    <3>5. SumFunctionOnSet(row', Rows \cup {e}) = SumFunctionOnSet(row', Rows) + row'[e]
      BY <3>3, <3>4, Finite, SumJoin
    <3>6. SumFunctionOnSet(row', Rows) = SumFunctionOnSet(row, Rows)
      BY <3>3, Finite, SumSame
    <3>. QED
      BY <3>3, <3>5, <3>6
  <2>2. CASE d # None
    <3>1. d \in Rows /\ row' = [row EXCEPT ![d] = @ + delta]
      BY <1>1, <2>2 DEF Adjust
    <3>2. row[d] + delta \in Nat
      BY <2>2, <3>1, Finite DEF Adjust
    <3>3. delta \in Int
      OBVIOUS
    <3>. QED
      BY <3>1, <3>2, <3>3, RowChanges
  <2>. QED
    BY <2>1, <2>2
<1>. QED
  BY <1>2 DEF Adjust, Shelf

\* A closing order puts into a row what its item gives back, or neither.
LEMMA CloseMoves ==
    ASSUME IInv, NEW w \in Workers, CloseWrite(w)
    PROVE  /\ pc[w] = "close" /\ about[w] \in Items
           /\ order' = [order EXCEPT ![about[w]] = "closed"]
           /\ UNCHANGED <<source, adjusted, deducted>>
           /\ \/ Shelf' = Shelf /\ returned' = returned
              \/ /\ found[w] = "veluntra_warehouse"
                 /\ Shelf' = Shelf + 1
                 /\ returned' = [returned EXCEPT ![about[w]] = @ + 1]
<1>1. /\ pc[w] = "close" /\ about[w] \in Items
      /\ order' = [order EXCEPT ![about[w]] = "closed"]
      /\ UNCHANGED <<source, adjusted, deducted>>
  BY DEF IInv, HandlersKnow, CloseWrite, Done, Goto
<1>2. CASE UNCHANGED <<row, returned>>
  <2>1. Shelf' = Shelf
    BY <1>2 DEF Shelf, Rows
  <2>. QED
    BY <1>1, <1>2, <2>1
<1>3. CASE ~ UNCHANGED <<row, returned>>
  <2>1. PICK d \in FirstRow : Restore(w, d) /\ d # None
    BY <1>3 DEF CloseWrite, Restore
  <2>2. d \in Rows /\ found[w] = "veluntra_warehouse"
    BY <1>3, <2>1 DEF FirstRow, CloseWrite
  <2>3. /\ row' = [row EXCEPT ![d] = @ + 1]
        /\ returned' = [returned EXCEPT ![about[w]] = @ + 1]
    BY <2>1 DEF Restore
  <2>4. 1 \in Int /\ row[d] + 1 \in Nat
    BY <2>2, Finite
  <2>5. Shelf' = Shelf + 1
    BY <2>2, <2>3, <2>4, RowChanges DEF Shelf
  <2>. QED
    BY <1>1, <2>2, <2>3, <2>5
<1>. QED
  BY <1>2, <1>3

LEMMA ApproveCounts ==
    ASSUME IInv, UnitsAccounted, NEW w \in Workers, ApproveTx(w) PROVE UnitsAccounted'
<1>1. /\ Shelf' = Shelf - 1 /\ UNCHANGED <<adjusted, returned>>
      /\ SumFunctionOnSet(deducted', Items) = SumFunctionOnSet(deducted, Items) + 1
  BY ApproveMoves, CountChanges DEF IInv, TypeOK
<1>2. adjusted \in Int
  BY DEF IInv, TypeOK
<1>. QED
  BY <1>1, <1>2, Finite DEF UnitsAccounted, Shelf

LEMMA AdjustCounts ==
    ASSUME IInv, UnitsAccounted, NEW w \in Workers, NEW delta \in {-1, 1}, Adjust(w, delta)
    PROVE  UnitsAccounted'
<1>1. Shelf' = Shelf + delta /\ adjusted' = adjusted + delta /\ UNCHANGED <<deducted, returned>>
  BY AdjustMoves
<1>2. adjusted \in Int
  BY DEF IInv, TypeOK
<1>. QED
  BY <1>1, <1>2, Finite DEF UnitsAccounted, Shelf

LEMMA CloseCounts ==
    ASSUME IInv, UnitsAccounted, NEW w \in Workers, CloseWrite(w) PROVE UnitsAccounted'
<1>1. UNCHANGED <<adjusted, deducted>> /\ adjusted \in Int
  BY CloseMoves DEF IInv, TypeOK
<1>2. CASE Shelf' = Shelf /\ returned' = returned
  BY <1>1, <1>2 DEF UnitsAccounted, Shelf
<1>3. CASE Shelf' = Shelf + 1 /\ returned' = [returned EXCEPT ![about[w]] = @ + 1]
  <2>1. SumFunctionOnSet(returned', Items) = SumFunctionOnSet(returned, Items) + 1
    BY <1>3, CloseMoves, CountChanges DEF IInv, TypeOK
  <2>. QED
    BY <1>1, <1>3, <2>1, Finite DEF UnitsAccounted, Shelf
<1>. QED
  BY <1>2, <1>3, CloseMoves

\* Nothing else touches the rows, or what is counted against them.
LEMMA CountsStay ==
    ASSUME UnitsAccounted, UNCHANGED <<row, adjusted, deducted, returned>>
    PROVE  UnitsAccounted'
BY DEF UnitsAccounted, Rows

\* The first books are empty.
LEMMA InitCounts == Init => UnitsAccounted
<1>. SUFFICES ASSUME Init PROVE UnitsAccounted
  OBVIOUS
<1>1. Rows = {} /\ adjusted = 0 /\ deducted = returned
  BY DEF Init, Rows
<1>2. SumFunctionOnSet(row, {}) = 0
  BY SumEmpty
<1>3. SumFunctionOnSet(deducted, Items) \in Int
  BY InitInv, Finite
<1>. QED
  BY <1>1, <1>2, <1>3 DEF UnitsAccounted

\* Whatever overlaps, no unit is lost or made: the rows, however many the
\* product has come to have, hold what was provisioned, less what orders took,
\* plus what they gave back (decrementStock, restoreStock and adjust change
\* what they find by what they move, and never write what they read).
THEOREM NoUnitLost == Spec => []UnitsAccounted
<1>1. UnitsAccounted /\ IInv /\ [Next]_vars => UnitsAccounted'
  <2>. SUFFICES ASSUME UnitsAccounted, IInv, [Next]_vars PROVE UnitsAccounted'
    OBVIOUS
  <2>1. ASSUME NEW i \in Items, Send(i) PROVE UnitsAccounted'
    BY <2>1, CountsStay DEF Send, history
  <2>2. ASSUME NEW w \in Workers,
               \/ \E i \in Items : CreateRead(w, i) \/ CloseRead(w, i)
               \/ CreateFind(w) \/ CreateInsert(w) \/ RejectWrite(w)
               \/ \E q \in RequestIds, verdict \in {"approve", "reject"} : ResolveRead(w, q, verdict)
               \/ AdjustFind(w) \/ ApproveFails(w) \/ AdjustFails(w)
        PROVE  UnitsAccounted'
    BY <2>2, CountsStay DEF CreateRead, CloseRead, CreateFind, CreateInsert, RejectWrite,
          ResolveRead, AdjustFind, ApproveFails, AdjustFails, db, history
  <2>3. ASSUME NEW w \in Workers, ApproveTx(w) \/ CloseWrite(w) PROVE UnitsAccounted'
    BY <2>3, ApproveCounts, CloseCounts
  <2>4. ASSUME NEW w \in Workers, NEW delta \in {-1, 1}, Adjust(w, delta) PROVE UnitsAccounted'
    BY <2>4, AdjustCounts
  <2>5. CASE UNCHANGED vars
    BY <2>5, CountsStay DEF vars
  <2>. QED
    BY <2>1, <2>2, <2>3, <2>4, <2>5 DEF Next
<1>. QED
  BY <1>1, InitCounts, Invariance, PTL DEF Spec
-----------------------------------------------------------------------------
(* Refinement: whatever overlaps, the rows make up one account, from which *)
(* approve gives, into which a closing order returns, and which admins     *)
(* correct; the reads of the handlers are stutters.                        *)

\* Who found an item to be the warehouse's puts back what was given for it.
CloserKnows ==
    \A w \in Workers : pc[w] = "close" /\ found[w] = "veluntra_warehouse" =>
        source[about[w]] = "veluntra_warehouse"

\* A handler that does not begin to close an order, while items stay whose
\* they are or become the warehouse's.
LEMMA CloserStillKnows ==
    ASSUME IInv, CloserKnows,
           \A w \in Workers : pc'[w] = "close" =>
                pc[w] = "close" /\ about'[w] = about[w] /\ found'[w] = found[w],
           \A i \in Items : source[i] = "veluntra_warehouse" => source'[i] = source[i]
    PROVE  CloserKnows'
BY DEF CloserKnows, IInv, HandlersKnow

LEMMA NextKnows == ASSUME IInv, CloserKnows, [Next]_vars PROVE CloserKnows'
<1>. USE DEF db, history
<1>1. CASE UNCHANGED vars \/ \E i \in Items : Send(i)
  BY <1>1, CloserStillKnows DEF vars, Send
<1>2. ASSUME NEW w \in Workers, NEW from, NEW to, NEW subject, NEW finding, to # "close",
             Goto(w, from, to, subject, finding), UNCHANGED source
      PROVE  CloserKnows'
  <2>1. \A v \in Workers : pc'[v] = "close" =>
            pc[v] = "close" /\ about'[v] = about[v] /\ found'[v] = found[v]
    BY <1>2 DEF Goto, IInv, TypeOK
  <2>. QED
    BY <1>2, <2>1, CloserStillKnows
<1>3. ASSUME NEW w \in Workers, NEW i \in Items, CloseRead(w, i) PROVE CloserKnows'
  BY <1>3 DEF CloserKnows, CloseRead, Goto, IInv, TypeOK
<1>4. ASSUME NEW w \in Workers, ApproveTx(w) PROVE CloserKnows'
  <2>1. \A v \in Workers : pc'[v] = "close" =>
            pc[v] = "close" /\ about'[v] = about[v] /\ found'[v] = found[v]
    BY <1>4 DEF ApproveTx, Done, Goto, IInv, TypeOK
  <2>2. \A i \in Items : source[i] = "veluntra_warehouse" => source'[i] = source[i]
    BY <1>4 DEF ApproveTx, FulfilledByWarehouse, IInv, TypeOK
  <2>. QED
    BY <2>1, <2>2, CloserStillKnows
<1>5. ASSUME NEW w \in Workers,
             \/ \E i \in Items : CreateRead(w, i)
             \/ CreateFind(w) \/ CreateInsert(w)
             \/ \E q \in RequestIds, verdict \in {"approve", "reject"} : ResolveRead(w, q, verdict)
             \/ ApproveFails(w) \/ RejectWrite(w)
             \/ AdjustFind(w) \/ (\E delta \in {-1, 1} : Adjust(w, delta)) \/ AdjustFails(w)
             \/ CloseWrite(w)
      PROVE  CloserKnows'
  <2>1. UNCHANGED source
    BY <1>5 DEF CreateRead, CreateFind, CreateInsert, ResolveRead, ApproveFails, RejectWrite,
                AdjustFind, Adjust, AdjustFails, CloseWrite
  <2>2. PICK from, to, subject, finding : to # "close" /\ Goto(w, from, to, subject, finding)
    BY <1>5 DEF CreateRead, CreateFind, CreateInsert, ResolveRead, ApproveFails, RejectWrite,
                AdjustFind, Adjust, AdjustFails, CloseWrite, Done
  <2>. QED
    BY <1>2, <2>1, <2>2
<1>. QED
  BY <1>1, <1>3, <1>4, <1>5 DEF Next

LEMMA InitRefines == Init => Account!Init
<1>. SUFFICES ASSUME Init PROVE Account!Init
  OBVIOUS
<1>1. SumFunctionOnSet(row, Rows) = 0
  BY SumEmpty DEF Init, Rows
<1>. QED
  BY <1>1 DEF Init, Account!Init

\* A step that moves no unit and changes no order is a stutter.
LEMMA NothingMoves ==
    ASSUME UNCHANGED <<Shelf, deducted, returned, source, order>>
    PROVE  UNCHANGED Account!vars
BY DEF Account!vars, Shelf

LEMMA ApproveRefines == ASSUME IInv, NEW w \in Workers, ApproveTx(w) PROVE Account!Next
<1>. DEFINE i == request[about[w]].item
<1>1. /\ i \in Items /\ Shelf >= 1 /\ Shelf' = Shelf - 1
      /\ deducted' = [deducted EXCEPT ![i] = @ + 1]
      /\ UNCHANGED <<order, returned>>
  BY ApproveMoves
<1>2. source' = [source EXCEPT ![i] = "veluntra_warehouse"]
  BY DEF ApproveTx, FulfilledByWarehouse
<1>3. Account!Give(i)
  BY <1>1, <1>2 DEF Account!Give, Shelf
<1>. QED
  BY <1>1, <1>3 DEF Account!Next

LEMMA AdjustRefines ==
    ASSUME IInv, IInv', NEW w \in Workers, NEW delta \in {-1, 1}, Adjust(w, delta)
    PROVE  Account!Next
<1>1. Shelf' = Shelf + delta /\ UNCHANGED <<source, order, deducted, returned>>
  BY AdjustMoves
<1>2. Shelf' >= 0
  <2>1. IsFiniteSet(Rows') /\ \A d \in Rows' : row'[d] \in Nat
    BY WarehouseAssumption, FS_Subset DEF IInv, TypeOK, Rows
  <2>2. SumFunctionOnSet(row', Rows') \in Nat
    BY <2>1, SumNat
  <2>. QED
    BY <2>2 DEF Shelf
<1>3. Account!Correct(delta)
  BY <1>1, <1>2 DEF Account!Correct, Shelf
<1>. QED
  BY <1>3 DEF Account!Next

LEMMA CloseRefines ==
    ASSUME IInv, CloserKnows, NEW w \in Workers, CloseWrite(w)
    PROVE  Account!Next
<1>. DEFINE i == about[w]
<1>1. /\ pc[w] = "close" /\ i \in Items
      /\ order' = [order EXCEPT ![i] = "closed"] /\ UNCHANGED <<source, deducted>>
  BY CloseMoves
<1>2. CASE Shelf' = Shelf /\ returned' = returned
  <2>1. Account!Close(i)
    BY <1>1, <1>2 DEF Account!Close, Shelf
  <2>. QED
    BY <1>1, <2>1 DEF Account!Next
<1>3. CASE /\ found[w] = "veluntra_warehouse" /\ Shelf' = Shelf + 1
           /\ returned' = [returned EXCEPT ![i] = @ + 1]
  <2>1. source[i] = "veluntra_warehouse" /\ deducted[i] >= 1
    BY <1>1, <1>3 DEF CloserKnows, IInv, SourceTellsPool, TypeOK
  <2>2. Account!CloseWithReturn(i)
    BY <1>1, <1>3, <2>1 DEF Account!CloseWithReturn, Shelf
  <2>. QED
    BY <1>1, <2>2 DEF Account!Next
<1>. QED
  BY <1>2, <1>3, CloseMoves

LEMMA NextRefines ==
    ASSUME IInv, IInv', CloserKnows, [Next]_vars PROVE [Account!Next]_(Account!vars)
<1>1. CASE UNCHANGED vars
  BY <1>1, NothingMoves DEF vars, Shelf, Rows
<1>2. ASSUME NEW i \in Items, Send(i) PROVE Account!Next
  <2>1. UNCHANGED <<Shelf, deducted, returned, source>>
    BY <1>2 DEF Send, history, Shelf, Rows
  <2>2. Account!Send(i)
    BY <1>2, <2>1 DEF Send, Account!Send, Shelf
  <2>. QED
    BY <2>2 DEF Account!Next
<1>3. ASSUME NEW w \in Workers,
             \/ \E i \in Items : CreateRead(w, i) \/ CloseRead(w, i)
             \/ CreateFind(w) \/ CreateInsert(w) \/ RejectWrite(w)
             \/ \E q \in RequestIds, verdict \in {"approve", "reject"} : ResolveRead(w, q, verdict)
             \/ AdjustFind(w) \/ ApproveFails(w) \/ AdjustFails(w)
      PROVE  UNCHANGED Account!vars
  <2>1. UNCHANGED <<row, source, order, deducted, returned>>
    BY <1>3 DEF CreateRead, CloseRead, CreateFind, CreateInsert, RejectWrite, ResolveRead,
                AdjustFind, ApproveFails, AdjustFails, db, history
  <2>. QED
    BY <2>1, NothingMoves DEF Shelf, Rows
<1>. QED
  BY <1>1, <1>2, <1>3, ApproveRefines, AdjustRefines, CloseRefines DEF Next

\* However its handlers overlap, and however many rows a product has come to
\* have, the warehouse is one account: it gives only what it has, and takes
\* back only for what it gave for (the conditional UPDATE of decrementStock,
\* the increments of restoreStock and adjust).
THEOREM OneAccount == Spec => ImplementsStockAccount
<1>1. Init => CloserKnows
  BY DEF Init, CloserKnows
<1>2. IInv /\ CloserKnows /\ [Next]_vars => CloserKnows'
  BY NextKnows
<1>3. IInv /\ IInv' /\ CloserKnows /\ [Next]_vars => [Account!Next]_(Account!vars)
  BY NextRefines
<1>. QED
  BY <1>1, <1>2, <1>3, InitRefines, Invariance, PTL
     DEF Spec, ImplementsStockAccount, Account!Spec
-----------------------------------------------------------------------------
(* What the checks of the warehouse's service layer achieve as long as no  *)
(* two handlers overlap, for any numbers of items, requests and rows.  The *)
(* argument: while a handler is alone, what it has read is still true when *)
(* it writes.  The schema has no constraint that would give the same to    *)
(* handlers that overlap, and with them every theorem below fails.         *)

\* Admins look at the order before they approve (the code does not).
NoLateApproval == "closed" \notin ApproveWhen

Alone == \A v, w \in Workers : pc[v] # "idle" /\ pc[w] # "idle" => v = w

\* What a handler has read is still so.
StillTrue ==
    \A w \in Workers :
        /\ pc[w] \in {"create", "insert"} => source[about[w]] = "seller_stock"
        /\ pc[w] = "insert" => Pending(about[w]) = {}
        /\ pc[w] \in {"approve", "reject"} => request[about[w]].status = "pending"
        /\ pc[w] = "approve" /\ NoLateApproval => order[request[about[w]].item] # "closed"
        /\ pc[w] = "adjust" /\ found[w] = None => Rows = {}
        /\ pc[w] = "close" => order[about[w]] # "closed" /\ found[w] = source[about[w]]

\* An item that waits has been given nothing; one that was served, one unit,
\* out of a row that exists; and it is given back when the order closes.
ServedOnce ==
    \A i \in Items :
        /\ deducted[i] \in {0, 1}
        /\ Pending(i) # {} => deducted[i] = 0
        /\ deducted[i] > 0 => Rows # {}
        /\ NoLateApproval => returned[i] = IF order[i] = "closed" THEN deducted[i] ELSE 0

OnlyOne ==
    /\ \A i \in Items : \A q, r \in Pending(i) : q = r
    /\ \A d, e \in Rows : d = e

AloneInv == Alone /\ StillTrue /\ ServedOnce /\ OnlyOne

Inv == IInv /\ (~overlapped => AloneInv)

\* The first state satisfies the invariant.
LEMMA InitAlone == Init => Inv
<1>. SUFFICES ASSUME Init PROVE Inv
  OBVIOUS
<1>1. Rows = {} /\ \A i : Pending(i) = {}
  BY DEF Init, Rows, Pending, Requests
<1>2. Alone /\ StillTrue
  BY DEF Init, Alone, StillTrue
<1>3. ServedOnce
  BY <1>1 DEF Init, ServedOnce
<1>4. OnlyOne
  BY <1>1 DEF OnlyOne
<1>. QED
  BY <1>2, <1>3, <1>4, InitInv DEF Inv, AloneInv

\* Who takes a step without overlapping another is the only one under way.
LEMMA Solo ==
    ASSUME IInv, NEW w \in Workers, NEW from, NEW to, NEW subject, NEW finding,
           Goto(w, from, to, subject, finding), ~overlapped'
    PROVE  /\ ~overlapped /\ pc[w] = from
           /\ pc'[w] = to /\ about'[w] = subject /\ found'[w] = finding
           /\ \A v \in Workers \ {w} : pc'[v] = "idle"
           /\ Alone'
<1>1. /\ ~overlapped /\ pc[w] = from
      /\ \A v \in Workers \ {w} : pc[v] = "idle"
  BY DEF Goto
<1>2. pc'[w] = to /\ about'[w] = subject /\ found'[w] = finding
  BY DEF Goto, IInv, TypeOK
<1>3. \A v \in Workers \ {w} : pc'[v] = "idle"
  BY <1>1 DEF Goto, IInv, TypeOK
<1>4. Alone'
  BY <1>3 DEF Alone
<1>. QED
  BY <1>1, <1>2, <1>3, <1>4

\* A handler has read something that is so.
LEMMA ReadAlone ==
    ASSUME IInv, AloneInv, NEW w \in Workers, NEW from, NEW to, NEW subject, NEW finding,
           Goto(w, from, to, subject, finding), UNCHANGED db, UNCHANGED history, ~overlapped',
           to \in {"create", "insert"} => source[subject] = "seller_stock",
           to = "insert" => Pending(subject) = {},
           to \in {"approve", "reject"} => request[subject].status = "pending",
           to = "approve" /\ NoLateApproval => order[request[subject].item] # "closed",
           to = "adjust" /\ finding = None => Rows = {},
           to = "close" => order[subject] # "closed" /\ finding = source[subject]
    PROVE  AloneInv'
<1>1. Rows' = Rows /\ \A i : Pending(i)' = Pending(i)
  BY DEF db, Rows, Pending, Requests
<1>2. StillTrue'
  BY <1>1, Solo DEF StillTrue, db
<1>3. ServedOnce' /\ OnlyOne'
  BY <1>1 DEF AloneInv, ServedOnce, OnlyOne, db, history
<1>. QED
  BY <1>2, <1>3, Solo DEF AloneInv

\* A handler that ends leaves nobody under way.
LEMMA DoneAlone ==
    ASSUME IInv, NEW w \in Workers, NEW from, Done(w, from), ~overlapped',
           ServedOnce', OnlyOne'
    PROVE  AloneInv'
<1>1. Alone' /\ \A v \in Workers : pc'[v] = "idle"
  BY Solo DEF Done
<1>2. StillTrue'
  BY <1>1 DEF StillTrue
<1>. QED
  BY <1>1, <1>2 DEF AloneInv
-----------------------------------------------------------------------------
\* The steps that only read, and those that give up.
LEMMA ReadsAlone ==
    ASSUME IInv, AloneInv, NEW w \in Workers, ~overlapped',
           \/ \E i \in Items : CreateRead(w, i) \/ CloseRead(w, i)
           \/ CreateFind(w)
           \/ \E q \in RequestIds, verdict \in {"approve", "reject"} : ResolveRead(w, q, verdict)
           \/ AdjustFind(w) \/ ApproveFails(w) \/ AdjustFails(w)
    PROVE  AloneInv'
<1>1. CASE \E i \in Items : CreateRead(w, i)
  BY <1>1, ReadAlone DEF CreateRead
<1>2. CASE \E i \in Items : CloseRead(w, i)
  BY <1>2, ReadAlone DEF CloseRead
<1>3. CASE CreateFind(w)
  <2>1. pc[w] = "create"
    BY <1>3 DEF CreateFind, Done, Goto
  <2>2. source[about[w]] = "seller_stock"
    BY <2>1 DEF AloneInv, StillTrue
  <2>. QED
    BY <1>3, <2>2, ReadAlone DEF CreateFind, Done
<1>4. CASE \E q \in RequestIds, verdict \in {"approve", "reject"} : ResolveRead(w, q, verdict)
  <2>1. PICK q \in RequestIds, verdict \in {"approve", "reject"} : ResolveRead(w, q, verdict)
    BY <1>4
  <2>2. verdict = "approve" /\ NoLateApproval => order[request[q].item] # "closed"
    BY <2>1 DEF ResolveRead, NoLateApproval
  <2>. QED
    BY <2>1, <2>2, ReadAlone DEF ResolveRead
<1>5. CASE AdjustFind(w)
  <2>1. PICK d \in FirstRow : Goto(w, "idle", "adjust", None, d)
    BY <1>5 DEF AdjustFind
  <2>2. d = None => Rows = {}
    BY WarehouseAssumption DEF FirstRow, Rows
  <2>. QED
    BY <1>5, <2>1, <2>2, ReadAlone DEF AdjustFind
<1>6. CASE ApproveFails(w)
  BY <1>6, ReadAlone DEF ApproveFails, Done
<1>7. CASE AdjustFails(w)
  BY <1>7, ReadAlone DEF AdjustFails, Done
<1>. QED
  BY <1>1, <1>2, <1>3, <1>4, <1>5, <1>6, <1>7

\* The item was the seller's and had no pending request when it was looked at.
LEMMA InsertAlone ==
    ASSUME IInv, AloneInv, NEW w \in Workers, ~overlapped', CreateInsert(w)
    PROVE  AloneInv'
<1>0. PICK i \in Items : i = about[w]
  BY DEF IInv, HandlersKnow, CreateInsert, Done, Goto
<1>1. PICK q \in RequestIds \ Requests :
            request' = [request EXCEPT ![q] = [item |-> i, status |-> "pending"]]
  BY <1>0 DEF CreateInsert
<1>2. Done(w, "insert") /\ pc[w] = "insert" /\ UNCHANGED <<row, source, order>>
        /\ UNCHANGED history
  BY DEF CreateInsert, Done, Goto
<1>3. source[i] = "seller_stock" /\ Pending(i) = {}
  BY <1>0, <1>2 DEF AloneInv, StillTrue
<1>4. deducted[i] = 0
  BY <1>3 DEF IInv, TypeOK, SourceTellsPool
<1>5. /\ Rows' = Rows /\ Pending(i)' = {q}
      /\ \A j \in Items : j # i => Pending(j)' = Pending(j)
  <2>1. /\ request'[q] = [item |-> i, status |-> "pending"]
        /\ \A r \in RequestIds : r # q => request'[r] = request[r]
    BY <1>1 DEF IInv, TypeOK
  <2>. QED
    BY <1>2, <1>3, <2>1, <1>1 DEF Pending, Requests, Rows
<1>6. ServedOnce'
  BY <1>2, <1>4, <1>5 DEF AloneInv, ServedOnce, history
<1>7. OnlyOne'
  BY <1>5 DEF AloneInv, OnlyOne
<1>. QED
  BY <1>2, <1>6, <1>7, DoneAlone

\* The request was the only pending one of an item that had been given nothing.
LEMMA ResolveAlone ==
    ASSUME IInv, AloneInv, NEW w \in Workers, ~overlapped', ApproveTx(w) \/ RejectWrite(w)
    PROVE  AloneInv'
<1>0. PICK q \in Requests : q = about[w]
  BY DEF IInv, HandlersKnow, ApproveTx, RejectWrite, Done, Goto
<1>1. PICK i \in Items : i = request[q].item /\ q \in RequestIds
  BY DEF IInv, RequestsOfItems, Requests
<1>2. request[q].status = "pending"
  BY <1>0 DEF AloneInv, StillTrue, ApproveTx, RejectWrite, Done, Goto
<1>3. q \in Pending(i)
  BY <1>1, <1>2 DEF Pending
<1>4. Pending(i) = {q} /\ deducted[i] = 0
  BY <1>1, <1>3 DEF AloneInv, OnlyOne, ServedOnce
<1>5. /\ request'[q].status # "pending" /\ request'[q].status # "none"
      /\ \A r \in RequestIds : r # q => request'[r] = request[r]
  BY <1>0, <1>1 DEF ApproveTx, RejectWrite, IInv, TypeOK
<1>6. Pending(i)' = {} /\ \A j \in Items : j # i => Pending(j)' = Pending(j)
  BY <1>1, <1>3, <1>4, <1>5 DEF Pending, Requests
<1>7. CASE ApproveTx(w)
  <2>1. /\ Done(w, "approve") /\ UNCHANGED <<order, adjusted, returned>>
        /\ deducted' = [deducted EXCEPT ![i] = @ + 1]
    BY <1>0, <1>1, <1>7 DEF ApproveTx
  <2>2. Rows' = Rows /\ Rows # {}
    <3>1. PICK d \in Rows : Enough(d) /\ row' = [row EXCEPT ![d] = @ - 1]
      BY <1>7 DEF ApproveTx
    <3>2. d \in RowIds /\ row[d] \in Nat /\ row[d] - 1 \in Nat
      BY <3>1 DEF IInv, TypeOK, Rows, Enough
    <3>3. row'[d] # None /\ \A e \in RowIds : e # d => row'[e] = row[e]
      BY <3>1, <3>2, WarehouseAssumption DEF IInv, TypeOK
    <3>. QED
      BY <3>1, <3>2, <3>3 DEF Rows
  <2>3. deducted'[i] = 1 /\ \A j \in Items : j # i => deducted'[j] = deducted[j]
    BY <1>1, <1>4, <2>1 DEF IInv, TypeOK
  <2>4. NoLateApproval => order[i] # "closed"
    BY <1>0, <1>1, <1>7 DEF AloneInv, StillTrue, ApproveTx, Done, Goto
  <2>5. ServedOnce'
    BY <1>1, <1>6, <2>1, <2>2, <2>3, <2>4 DEF AloneInv, ServedOnce
  <2>6. OnlyOne'
    BY <1>6, <2>2 DEF AloneInv, OnlyOne
  <2>. QED
    BY <2>1, <2>5, <2>6, DoneAlone
<1>8. CASE RejectWrite(w)
  <2>1. /\ Done(w, "reject") /\ UNCHANGED <<row, order>> /\ UNCHANGED history /\ Rows' = Rows
    BY <1>8 DEF RejectWrite, Rows
  <2>2. ServedOnce'
    BY <1>6, <2>1 DEF AloneInv, ServedOnce, history
  <2>3. OnlyOne'
    BY <1>6, <2>1 DEF AloneInv, OnlyOne
  <2>. QED
    BY <2>1, <2>2, <2>3, DoneAlone
<1>. QED
  BY <1>7, <1>8
-----------------------------------------------------------------------------
\* A row is created only if there is none.
LEMMA AdjustAlone ==
    ASSUME IInv, AloneInv, NEW w \in Workers, NEW delta \in {-1, 1}, ~overlapped',
           Adjust(w, delta)
    PROVE  AloneInv'
<1>. DEFINE d == found[w]
<1>1. /\ Done(w, "adjust") /\ UNCHANGED <<request, source, order, deducted, returned>>
      /\ \A i : Pending(i)' = Pending(i)
  BY DEF Adjust, Pending, Requests
<1>2. (\A e, f \in Rows' : e = f) /\ (Rows # {} => Rows' # {})
  <2>1. CASE d = None
    <3>1. Rows = {}
      BY <2>1 DEF AloneInv, StillTrue, Adjust, Done, Goto
    <3>2. PICK e \in RowIds \ Rows : row' = [row EXCEPT ![e] = delta]
      BY <2>1 DEF Adjust
    <3>3. \A f \in RowIds : f # e => row'[f] = row[f]
      BY <3>2 DEF IInv, TypeOK
    <3>. QED
      BY <3>1, <3>3 DEF Rows
  <2>2. CASE d # None
    <3>1. d \in Rows
      BY <2>2 DEF IInv, HandlersKnow, Adjust, Done, Goto
    <3>2. row[d] \in Nat /\ row' = [row EXCEPT ![d] = @ + delta]
      BY <2>2, <3>1 DEF Adjust, IInv, TypeOK, Rows
    <3>3. row[d] + delta \in Nat
      BY <2>2, <3>2 DEF Adjust
    <3>4. row'[d] # None /\ \A f \in RowIds : f # d => row'[f] = row[f]
      BY <3>1, <3>2, <3>3, WarehouseAssumption DEF IInv, TypeOK, Rows
    <3>5. Rows' = Rows
      BY <3>1, <3>4 DEF Rows
    <3>. QED
      BY <3>5 DEF AloneInv, OnlyOne
  <2>. QED
    BY <2>1, <2>2
<1>3. ServedOnce'
  BY <1>1, <1>2 DEF AloneInv, ServedOnce
<1>4. OnlyOne'
  BY <1>1, <1>2 DEF AloneInv, OnlyOne
<1>. QED
  BY <1>1, <1>3, <1>4, DoneAlone

\* The order was open, and the source that was read is the item's.
LEMMA CloseAlone ==
    ASSUME IInv, AloneInv, NEW w \in Workers, ~overlapped', CloseWrite(w)
    PROVE  AloneInv'
<1>0. PICK i \in Items : i = about[w]
  BY DEF IInv, HandlersKnow, CloseWrite, Done, Goto
<1>1. /\ Done(w, "close") /\ pc[w] = "close"
      /\ UNCHANGED <<request, source, adjusted, deducted>>
      /\ order' = [order EXCEPT ![i] = "closed"] /\ \A j : Pending(j)' = Pending(j)
  BY <1>0 DEF CloseWrite, Done, Goto, Pending, Requests
<1>2. order[i] # "closed" /\ found[w] = source[i]
  BY <1>0, <1>1 DEF AloneInv, StillTrue
<1>3. order'[i] = "closed" /\ \A j \in Items : j # i => order'[j] = order[j]
  BY <1>1, <1>2 DEF IInv, TypeOK
<1>4. /\ Rows' = Rows
      /\ \A j \in Items : j # i => returned'[j] = returned[j]
      /\ NoLateApproval => returned'[i] = deducted[i]
  <2>1. CASE found[w] = "veluntra_warehouse"
    <3>1. deducted[i] = 1 /\ Rows # {}
      <4>1. deducted[i] > 0 /\ deducted[i] \in {0, 1}
        BY <1>2, <2>1 DEF IInv, SourceTellsPool, AloneInv, ServedOnce
      <4>. QED
        BY <4>1 DEF AloneInv, ServedOnce
    <3>2. PICK d \in Rows : Restore(w, d)
      BY <2>1, <3>1 DEF CloseWrite, FirstRow
    <3>3. d \in RowIds /\ d # None /\ row[d] \in Nat
      BY <3>2, WarehouseAssumption DEF Rows, IInv, TypeOK
    <3>4. /\ row' = [row EXCEPT ![d] = @ + 1]
          /\ returned' = [returned EXCEPT ![i] = @ + 1]
      BY <1>0, <3>2, <3>3 DEF Restore
    <3>5. row'[d] # None /\ \A e \in RowIds : e # d => row'[e] = row[e]
      BY <3>3, <3>4, WarehouseAssumption DEF IInv, TypeOK
    <3>6. Rows' = Rows
      BY <3>2, <3>5 DEF Rows
    <3>7. returned'[i] = returned[i] + 1 /\ \A j \in Items : j # i => returned'[j] = returned[j]
      BY <1>2, <3>4 DEF IInv, TypeOK
    <3>8. NoLateApproval => returned[i] = 0
      BY <1>2 DEF AloneInv, ServedOnce
    <3>. QED
      BY <3>1, <3>6, <3>7, <3>8
  <2>2. CASE found[w] # "veluntra_warehouse"
    <3>1. UNCHANGED <<row, returned>> /\ Rows' = Rows
      BY <2>2 DEF CloseWrite, Rows
    <3>2. deducted[i] = 0
      BY <1>2, <2>2 DEF IInv, TypeOK, SourceTellsPool
    <3>3. NoLateApproval => returned[i] = 0
      BY <1>2 DEF AloneInv, ServedOnce
    <3>. QED
      BY <3>1, <3>2, <3>3
  <2>. QED
    BY <2>1, <2>2
<1>5. ServedOnce'
  BY <1>1, <1>2, <1>3, <1>4 DEF AloneInv, ServedOnce
<1>6. OnlyOne'
  BY <1>1, <1>4 DEF AloneInv, OnlyOne
<1>. QED
  BY <1>1, <1>5, <1>6, DoneAlone

\* Orders are sent whoever is under way; an open order is still not closed.
LEMMA SendAlone == ASSUME IInv, AloneInv, NEW i \in Items, Send(i) PROVE AloneInv'
<1>1. /\ UNCHANGED <<row, request, source, overlapped, pc, about, found>> /\ UNCHANGED history
      /\ Rows' = Rows /\ \A j : Pending(j)' = Pending(j)
      /\ \A j : order'[j] = "closed" <=> order[j] = "closed"
  BY DEF Send, Rows, Pending, Requests, IInv, TypeOK
<1>2. Alone' /\ StillTrue'
  BY <1>1 DEF AloneInv, Alone, StillTrue
<1>3. ServedOnce' /\ OnlyOne'
  BY <1>1 DEF AloneInv, ServedOnce, OnlyOne, history
<1>. QED
  BY <1>2, <1>3 DEF AloneInv
-----------------------------------------------------------------------------
\* Every step that overlaps no other preserves the invariant.
LEMMA NextAlone == Inv /\ [Next]_vars => Inv'
<1>. SUFFICES ASSUME Inv, [Next]_vars, ~overlapped' PROVE AloneInv'
  BY StepInv DEF Inv
<1>0. ASSUME NEW w \in Workers, NEW from, NEW to, NEW subject, NEW finding,
             Goto(w, from, to, subject, finding)
      PROVE  AloneInv
  BY <1>0 DEF Goto, Inv
<1>1. ASSUME NEW i \in Items, Send(i) PROVE AloneInv'
  BY <1>1, SendAlone DEF Send, Inv
<1>2. ASSUME NEW w \in Workers,
             \/ \E i \in Items : CreateRead(w, i) \/ CloseRead(w, i)
             \/ CreateFind(w)
             \/ \E q \in RequestIds, verdict \in {"approve", "reject"} : ResolveRead(w, q, verdict)
             \/ AdjustFind(w) \/ ApproveFails(w) \/ AdjustFails(w)
      PROVE  AloneInv'
  <2>1. AloneInv
    BY <1>0, <1>2 DEF CreateRead, CloseRead, CreateFind, ResolveRead, AdjustFind,
                      ApproveFails, AdjustFails, Done
  <2>. QED
    BY <1>2, <2>1, ReadsAlone DEF Inv
<1>3. ASSUME NEW w \in Workers, CreateInsert(w) \/ ApproveTx(w) \/ RejectWrite(w) \/ CloseWrite(w)
      PROVE  AloneInv'
  <2>1. AloneInv
    BY <1>0, <1>3 DEF CreateInsert, ApproveTx, RejectWrite, CloseWrite, Done
  <2>. QED
    BY <1>3, <2>1, InsertAlone, ResolveAlone, CloseAlone DEF Inv
<1>4. ASSUME NEW w \in Workers, NEW delta \in {-1, 1}, Adjust(w, delta) PROVE AloneInv'
  BY <1>0, <1>4, AdjustAlone DEF Adjust, Done, Inv
<1>5. CASE UNCHANGED vars
  BY <1>5 DEF vars, Inv, AloneInv, Alone, StillTrue, ServedOnce, OnlyOne, Rows, Pending, Requests
<1>. QED
  BY <1>1, <1>2, <1>3, <1>4, <1>5 DEF Next

\* The invariant holds throughout.
LEMMA AlwaysInv == Spec => []Inv
BY InitAlone, NextAlone, PTL DEF Spec

\* A set whose members are all the same one has at most one.
LEMMA AtMostOne == ASSUME NEW S, \A x, y \in S : x = y PROVE Cardinality(S) <= 1
<1>1. CASE S = {}
  <2>1. Cardinality(S) = 0
    BY <1>1, FS_EmptySet
  <2>. QED
    BY <2>1
<1>2. CASE S # {}
  <2>1. PICK x \in S : S = {x}
    BY <1>2
  <2>2. Cardinality(S) = 1
    BY <2>1, FS_Singleton
  <2>. QED
    BY <2>2
<1>. QED
  BY <1>1, <1>2

\* As long as no two handlers overlap, the warehouse gives one unit at most for
\* an item, an item has at most one pending request, and a product one stock
\* row (existingPending, the status check of approve, getOrCreate).
THEOREM OneOfEachWhileAlone == Spec => []OneOfEach
<1>1. Inv => OneOfEach
  BY AtMostOne DEF Inv, AloneInv, ServedOnce, OnlyOne, OneOfEach
<1>. QED
  BY <1>1, AlwaysInv, PTL

\* As long as no two handlers overlap and nobody approves a request of a closed
\* order, a closed order has given back what the warehouse gave for it
\* (updateStatus, restoreStock).
THEOREM ClosedGivesBackWhileAlone == NoLateApproval => (Spec => []ClosedGivesBack)
<1>1. NoLateApproval /\ Inv => ClosedGivesBack
  BY DEF Inv, AloneInv, ServedOnce, ClosedGivesBack
<1>2. ASSUME NoLateApproval PROVE Spec => []ClosedGivesBack
  <2>1. Inv => ClosedGivesBack
    BY <1>1, <1>2
  <2>. QED
    BY <2>1, AlwaysInv, PTL
<1>. QED
  BY <1>2

\* Of the requests there are, only pending ones are touched.
LEMMA TouchesPending ==
    ASSUME Inv, [Next]_vars, ~overlapped', NEW q \in Requests, request[q].status # "pending"
    PROVE  request'[q] = request[q]
<1>1. CASE UNCHANGED request
  BY <1>1
<1>2. ASSUME NEW w \in Workers, CreateInsert(w) PROVE request'[q] = request[q]
  BY <1>2 DEF CreateInsert, Inv, IInv, TypeOK, Requests
<1>3. ASSUME NEW w \in Workers, ApproveTx(w) \/ RejectWrite(w) PROVE request'[q] = request[q]
  <2>1. about[w] \in Requests /\ request[about[w]].status = "pending"
    BY <1>3 DEF ApproveTx, RejectWrite, Done, Goto, Inv, IInv, HandlersKnow, AloneInv, StillTrue
  <2>2. about[w] # q
    BY <2>1
  <2>. QED
    BY <1>3, <2>1, <2>2 DEF ApproveTx, RejectWrite, Inv, IInv, TypeOK, Requests
<1>4. CASE UNCHANGED vars
  BY <1>4 DEF vars
<1>5. ASSUME NEW w \in Workers, NEW delta \in {-1, 1}, Adjust(w, delta) PROVE UNCHANGED request
  BY <1>5 DEF Adjust
<1>6. ASSUME NEW i \in Items, Send(i) PROVE UNCHANGED request
  BY <1>6 DEF Send
<1>7. ASSUME NEW w \in Workers,
             \/ \E i \in Items : CreateRead(w, i) \/ CloseRead(w, i)
             \/ CreateFind(w)
             \/ \E r \in RequestIds, verdict \in {"approve", "reject"} : ResolveRead(w, r, verdict)
             \/ AdjustFind(w) \/ ApproveFails(w) \/ AdjustFails(w) \/ CloseWrite(w)
      PROVE  UNCHANGED request
  BY <1>7 DEF CreateRead, CloseRead, CreateFind, ResolveRead, AdjustFind, ApproveFails,
              AdjustFails, CloseWrite, db
<1>. QED
  BY <1>1, <1>2, <1>3, <1>4, <1>5, <1>6, <1>7 DEF Next

\* As long as no two handlers overlap, a request is resolved once (approve and
\* reject take pending requests only).
THEOREM ResolvedOnceWhileAlone == Spec => ResolvedOnce
<1>1. Inv /\ [Next]_vars => [~overlapped' => \A q \in Requests :
                request[q].status # "pending" => request'[q] = request[q]]_vars
  BY TouchesPending
<1>. QED
  BY <1>1, AlwaysInv, PTL DEF Spec, ResolvedOnce
=============================================================================
