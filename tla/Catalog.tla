------------------------------ MODULE Catalog ------------------------------
(***************************************************************************)
(* Products and their stock as stores and admins edit them, while units    *)
(* are sold and put back.  A staff request reads products, checks who owns *)
(* them, and writes in a later step, mostly values computed from what it   *)
(* read.  Sales and restocks are relative, in one statement.  Every change *)
(* of a product's stock leaves an entry in the inventory log, which is     *)
(* represented by the sum of its deltas.                                   *)
(*                                                                         *)
(* A product is identified by its SKU, which is unique.                    *)
(***************************************************************************)
EXTENDS Integers, Sequences

CONSTANTS
    Products,       \* SKUs
    Stores,         \* a store stands for its owner, too
    Admin,          \* an admin or a superadmin
    Actors,         \* who makes staff requests: owners of stores, and Admin
    ProductStore,   \* the store a product belongs to
    CatalogWorkers, \* staff requests under way at the same time
    Edits,          \* what staff may ask for
    MaxEdits,       \* bound on staff requests
    MaxSales,       \* bound on units sold
    NoVariant,      \* the product has no variant
    Keep            \* a field the request leaves alone

\* A row of an import file, its product already merged from its lines.  Its
\* numbers are Number(...) of a cell and nothing checks their sign.
FileRow == [sku : Products, store : Stores, status : {"draft", "published"}, stock : Int,
            price : Int, variant : Int \cup {NoVariant, Keep}]

\* What the validation of a request lets through.
Valid(op) ==
    /\ op.kind \in {"import", "create", "update", "delete", "duplicate", "stock", "variant",
                    "price", "tags", "status", "place"}
    /\ op.kind = "import" => op.rows \in Seq(FileRow)
    /\ op.kind # "import" => op.ids \subseteq Products
    /\ op.kind \in {"price", "stock"} => op.value \in Int /\ (op.mode = "set" => op.value \in Nat)
    /\ op.kind = "variant" => op.value \in Int
    /\ op.kind = "create" => op.value \in Nat /\ op.variant \in Nat \cup {NoVariant}
    /\ op.kind = "update" => /\ op.value \in Nat \cup {Keep}
                             /\ op.variant \in Nat \cup {NoVariant, Keep}
    /\ op.kind = "status" => op.to \in {"draft", "published"}
    /\ op.kind = "duplicate" => op.copy \in Products

ASSUME CatalogAssumption ==
    /\ ProductStore \in [Products -> Stores]
    /\ Admin \notin Stores
    /\ Actors \subseteq Stores \cup {Admin}
    /\ NoVariant \notin Int /\ Keep \notin Int /\ NoVariant # Keep
    /\ \A op \in Edits : Valid(op)
    /\ MaxEdits \in Nat /\ MaxSales \in Nat

VARIABLES
    product, \* Product rows
    log,     \* per product, the sum of the deltas logged for the row itself
    line,    \* order items that may still be restocked, by what they point at
    ordered, \* products on an order item: their rows can no longer be deleted
    \* staff requests
    editor,  \* per request: its step, actor, operation and pending log entry
    seen,    \* the products as the request has read them
    \* history
    excused, \* products whose log is behind for a known reason
    belowZero, \* products a file has given a number below zero
    edits,   \* staff requests so far
    sales    \* units sold so far

catalogDb == <<product, log, line, ordered>>
CatalogVars == <<product, log, line, ordered, editor, seen, excused, belowZero, edits, sales>>

Labels == UNION {op.tags : op \in {e \in Edits : e.kind = "tags"}}
Placements == {""} \cup {op.to : op \in {e \in Edits : e.kind = "place"}}

\* `place` stands for category, brand, badge and merchandising flags.
ProductRow == [status : {"absent", "draft", "published", "deleted"}, stock : Int,
               price : Int, tags : SUBSET Labels, place : Placements,
               variant : Int \cup {NoVariant}]

\* No number of the row is below zero.
NoNegatives(row) == row.stock \in Nat /\ row.price \in Nat /\ row.variant \in Nat \cup {NoVariant}

Absent == [status |-> "absent", stock |-> 0, price |-> 0, tags |-> {}, place |-> "",
           variant |-> NoVariant]

Exists(p) == product[p].status \in {"draft", "published"}

\* What a request has read of some products.
Saw(ids) == [p \in Products |-> IF p \in ids THEN product[p] ELSE Absent]

Idle == [pc |-> "idle", actor |-> Admin, op |-> [kind |-> "none"], todo |-> <<>>,
         entry |-> 0]

NothingSeen == [p \in Products |-> Absent]

CatalogInit ==
    /\ product \in [Products -> {Absent} \cup
            {[Absent EXCEPT !.status = "published", !.stock = 1, !.variant = v] :
                    v \in {NoVariant, 1}}]
    /\ log = [p \in Products |-> product[p].stock]
    /\ line = [p \in Products |-> [row |-> 0, variant |-> 0]]
    /\ ordered = {}
    /\ editor = [w \in CatalogWorkers |-> Idle]
    /\ seen = [w \in CatalogWorkers |-> NothingSeen]
    /\ excused = {} /\ belowZero = {}
    /\ edits = 0
    /\ sales = 0
-----------------------------------------------------------------------------
(* Sales and restocks (decrementStock, restoreStock): relative, one row.   *)

SellRow(p) ==
    /\ Exists(p) /\ product[p].stock > 0
    /\ product' = [product EXCEPT ![p].stock = @ - 1]
    /\ log' = [log EXCEPT ![p] = @ - 1]
    /\ line' = [line EXCEPT ![p].row = @ + 1]

SellVariant(p) ==
    /\ Exists(p) /\ product[p].variant # NoVariant /\ product[p].variant > 0
    /\ product' = [product EXCEPT ![p].variant = @ - 1]
    /\ line' = [line EXCEPT ![p].variant = @ + 1]
    /\ UNCHANGED log

\* An item without a variant goes back to the product's row.
RestockRow(p) ==
    /\ line[p].row > 0
    /\ product' = [product EXCEPT ![p].stock = @ + 1]
    /\ log' = [log EXCEPT ![p] = @ + 1]
    /\ line' = [line EXCEPT ![p].row = @ - 1]

RestockVariant(p) ==
    /\ line[p].variant > 0 /\ product[p].variant # NoVariant
    /\ product' = [product EXCEPT ![p].variant = @ + 1]
    /\ line' = [line EXCEPT ![p].variant = @ - 1]
    /\ UNCHANGED log

Trade ==
    /\ \E p \in Products :
          \/ /\ sales < MaxSales
             /\ SellRow(p) \/ SellVariant(p)
             /\ ordered' = ordered \cup {p} /\ sales' = sales + 1
          \/ /\ RestockRow(p) \/ RestockVariant(p)
             /\ UNCHANGED <<ordered, sales>>
    /\ UNCHANGED <<editor, seen, excused, belowZero, edits>>
-----------------------------------------------------------------------------
(* Staff requests.                                                         *)

\* Admins may edit everything.
Owns(a, p) == a = Admin \/ ProductStore[p] = a

\* findUnique and bulkFindOwned: every product exists and is the actor's.
\* A new product is created in the actor's store, or one the admin names.
StartEdit(w, a, op) ==
    /\ editor[w].pc = "idle" /\ edits < MaxEdits
    /\ \A p \in op.ids : Owns(a, p)
    /\ op.kind # "create" => \A p \in op.ids : Exists(p)
    /\ editor' = [editor EXCEPT ![w] =
            [Idle EXCEPT !.pc = IF op.kind = "variant" THEN "variant" ELSE "write",
                         !.actor = a, !.op = op]]
    /\ seen' = [seen EXCEPT ![w] = Saw(op.ids)]
    /\ edits' = edits + 1
    /\ UNCHANGED catalogDb /\ UNCHANGED <<excused, belowZero, sales>>

Finish(w) ==
    /\ editor' = [editor EXCEPT ![w] = Idle]
    /\ seen' = [seen EXCEPT ![w] = NothingSeen]

\* adjustStock of a variant reads it once more, inside the transaction.
ReadVariant(w) ==
    /\ editor[w].pc = "variant"
    /\ IF \A p \in editor[w].op.ids : product[p].variant # NoVariant
       THEN /\ editor' = [editor EXCEPT ![w].pc = "write"]
            /\ seen' = [seen EXCEPT ![w] = Saw(editor[w].op.ids)]
       ELSE Finish(w)
    /\ UNCHANGED catalogDb /\ UNCHANGED <<excused, belowZero, edits, sales>>

\* Faulty variant: corrections are not clamped.
Unclamped(n) == n

AtLeastZero(n) == IF n < 0 THEN 0 ELSE n

\* `mode` is "set" or "change"; a decrease is a negative change.
NewNumber(op, old) == IF op.mode = "set" THEN op.value ELSE AtLeastZero(old + op.value)

NewTags(op, old) ==
    CASE op.mode = "set" -> op.tags
      [] op.mode = "add" -> old \cup op.tags
      [] OTHER -> old \ op.tags

IfGiven(value, old) == IF value = Keep THEN old ELSE value

\* Faulty variant: saves the products it has read, with the new status.
WrittenWhole(op, old, now) ==
    CASE op.kind = "price" -> [now EXCEPT !.price = NewNumber(op, old.price)]
      [] op.kind = "stock" -> [now EXCEPT !.stock = NewNumber(op, old.stock)]
      [] op.kind = "variant" -> [now EXCEPT !.variant = AtLeastZero(old.variant + op.value)]
      [] op.kind = "tags" -> [now EXCEPT !.tags = NewTags(op, old.tags)]
      [] op.kind = "status" -> [old EXCEPT !.status = op.to]
      [] op.kind = "place" -> [now EXCEPT !.place = op.to]
      [] op.kind = "update" -> [now EXCEPT !.stock = IfGiven(op.value, @),
                                           !.variant = IfGiven(op.variant, @)]

\* The new row: only the fields of the operation, computed from the row read.
Written(op, old, now) ==
    CASE op.kind = "price" -> [now EXCEPT !.price = NewNumber(op, old.price)]
      [] op.kind = "stock" -> [now EXCEPT !.stock = NewNumber(op, old.stock)]
      [] op.kind = "variant" -> [now EXCEPT !.variant = AtLeastZero(old.variant + op.value)]
      [] op.kind = "tags" -> [now EXCEPT !.tags = NewTags(op, old.tags)]
      [] op.kind = "status" -> [now EXCEPT !.status = op.to]
      [] op.kind = "place" -> [now EXCEPT !.place = op.to]
      [] op.kind = "update" -> [now EXCEPT !.stock = IfGiven(op.value, @),
                                           !.variant = IfGiven(op.variant, @)]

WritesStock(op) == op.kind = "stock" \/ (op.kind = "update" /\ op.value # Keep)

\* Variants are deleted and created again: order items lose their variant.
Detach(ids, old) ==
    [p \in Products |-> IF p \in ids
                        THEN [row |-> old[p].row + old[p].variant, variant |-> 0]
                        ELSE old[p]]

ReplacesVariants(op) == op.kind = "update" /\ op.variant # Keep

\* A vanished row fails the whole transaction; updateMany skips it.
WriteEdit(w) ==
    LET op == editor[w].op
        old == seen[w]
        rows == {p \in op.ids : Exists(p)}
        done == \/ /\ rows = op.ids
                   /\ op.kind = "variant" => \A p \in rows : product[p].variant # NoVariant
                \/ op.kind \in {"status", "place"}
    IN  /\ editor[w].pc = "write"
        /\ op.kind \notin {"create", "delete", "duplicate"}
        /\ IF done
           THEN /\ product' = [p \in Products |-> IF p \in rows
                                    THEN Written(op, old[p], product[p]) ELSE product[p]]
                /\ log' = [p \in Products |-> IF p \in rows /\ WritesStock(op)
                                THEN log[p] + product'[p].stock - old[p].stock ELSE log[p]]
                /\ line' = IF ReplacesVariants(op) THEN Detach(rows, line) ELSE line
                /\ excused' = excused \cup
                        {p \in rows : WritesStock(op) /\ old[p].stock # product[p].stock}
           ELSE UNCHANGED <<product, log, line, excused>>
        /\ Finish(w)
        /\ UNCHANGED <<ordered, belowZero, edits, sales>>

\* Order items keep a product's row alive; one such row fails the whole call.
Delete(w) ==
    LET ids == editor[w].op.ids
        kept == ids \cap ordered # {}
    IN  /\ editor[w].pc = "write" /\ editor[w].op.kind = "delete"
        /\ product' = [p \in Products |-> IF p \in ids /\ ~kept /\ Exists(p)
                            THEN [Absent EXCEPT !.status = "deleted"] ELSE product[p]]
        /\ log' = [p \in Products |-> IF p \in ids /\ ~kept THEN 0 ELSE log[p]]
        /\ Finish(w)
        /\ UNCHANGED <<line, ordered, excused, belowZero, edits, sales>>

\* A draft without stock; its log is empty.
Duplicate(w) ==
    LET op == editor[w].op
        old == seen[w]
    IN  /\ editor[w].pc = "write" /\ op.kind = "duplicate"
        /\ IF \E p \in op.ids : product[op.copy].status = "absent"
                                    /\ ProductStore[op.copy] = ProductStore[p]
           THEN \E p \in op.ids :
                    /\ product' = [product EXCEPT ![op.copy] =
                            [old[p] EXCEPT !.status = "draft", !.stock = 0,
                                           !.variant = IF @ = NoVariant THEN @ ELSE 0]]
                    /\ belowZero' = IF old[p].price < 0 THEN belowZero \cup {op.copy}
                                    ELSE belowZero
           ELSE UNCHANGED <<product, belowZero>>
        /\ Finish(w)
        /\ UNCHANGED <<log, line, ordered, excused, edits, sales>>

\* The product first, its initial_stock entry in a statement of its own.
Create(w) ==
    LET op == editor[w].op
        new == [Absent EXCEPT !.status = "published", !.stock = op.value,
                              !.variant = op.variant]
    IN  /\ editor[w].pc = "write" /\ op.kind = "create"
        /\ IF \A p \in op.ids : product[p].status = "absent"
           THEN /\ product' = [p \in Products |-> IF p \in op.ids THEN new ELSE product[p]]
                /\ editor' = [editor EXCEPT ![w].pc = IF op.value > 0 THEN "log" ELSE "row",
                                            ![w].entry = op.value]
                /\ UNCHANGED seen
           ELSE UNCHANGED product /\ Finish(w)
        /\ UNCHANGED <<log, line, ordered, excused, belowZero, edits, sales>>

\* An entry of a product deleted meanwhile is refused by its foreign key.
WriteLog(w) ==
    /\ editor[w].pc = "log"
    /\ log' = [p \in Products |-> IF p \in editor[w].op.ids /\ Exists(p)
                                  THEN log[p] + editor[w].entry ELSE log[p]]
    /\ editor' = [editor EXCEPT ![w].pc = "row", ![w].entry = 0]
    /\ UNCHANGED <<product, line, ordered, seen, excused, belowZero, edits, sales>>
-----------------------------------------------------------------------------
(* bulkImport: all products of the file are read once, then every row (or  *)
(* group of rows) is written and logged by statements of its own.          *)

StartImport(w, a, op) ==
    /\ editor[w].pc = "idle" /\ edits < MaxEdits
    /\ editor' = [editor EXCEPT ![w] =
            [Idle EXCEPT !.pc = "row", !.actor = a, !.todo = op.rows,
                         !.op = [kind |-> "import", ids |-> {}]]]
    /\ seen' = [seen EXCEPT ![w] = Saw({op.rows[i].sku : i \in DOMAIN op.rows})]
    /\ edits' = edits + 1
    /\ UNCHANGED catalogDb /\ UNCHANGED <<excused, belowZero, sales>>

\* A row of another store's SKU, and a SKU created meanwhile, are errors.  Of a
\* new product only a stock above zero is logged, of a known one any difference.
\* Bound: the SKU of a deleted product is not used again.
ImportRow(w) ==
    LET row == Head(editor[w].todo)
        p == row.sku
        known == seen[w][p].status \in {"draft", "published"}
        new == [product[p] EXCEPT !.status = row.status, !.stock = row.stock,
                                  !.price = row.price, !.variant = IfGiven(row.variant, @)]
        store == IF editor[w].actor = Admin THEN row.store ELSE editor[w].actor
        writes == /\ ProductStore[p] = store
                  /\ IF known THEN Exists(p) ELSE product[p].status = "absent"
        before == IF known THEN seen[w][p].stock ELSE 0
        logs == writes /\ IF known THEN row.stock # before ELSE row.stock > 0
    IN  /\ editor[w].pc = "row" /\ editor[w].todo # <<>>
        /\ editor' = [editor EXCEPT ![w] =
                [editor[w] EXCEPT !.todo = Tail(@),
                                  !.op.ids = {p},
                                  !.entry = IF writes THEN row.stock - before ELSE 0,
                                  !.pc = IF logs THEN "log" ELSE "row"]]
        /\ product' = IF writes THEN [product EXCEPT ![p] = new] ELSE product
        /\ line' = IF writes /\ row.variant # Keep THEN Detach({p}, line) ELSE line
        /\ excused' = IF writes /\ (IF known THEN product[p].stock # before ELSE row.stock < 0)
                      THEN excused \cup {p} ELSE excused
        /\ belowZero' = IF writes /\ ~NoNegatives(new) THEN belowZero \cup {p} ELSE belowZero
        /\ UNCHANGED <<log, ordered, seen, edits, sales>>

EndEdit(w) ==
    /\ editor[w].pc = "row" /\ editor[w].todo = <<>>
    /\ Finish(w)
    /\ UNCHANGED catalogDb /\ UNCHANGED <<excused, belowZero, edits, sales>>

\* The process dies, or a statement fails: the steps left are not taken.
AbandonEdit(w) ==
    /\ editor[w].pc # "idle"
    /\ Finish(w)
    /\ excused' = IF editor[w].pc = "log" THEN excused \cup editor[w].op.ids ELSE excused
    /\ UNCHANGED catalogDb /\ UNCHANGED <<belowZero, edits, sales>>

Ask(w) == \E a \in Actors, op \in Edits :
                IF op.kind = "import" THEN StartImport(w, a, op) ELSE StartEdit(w, a, op)

CatalogNext ==
    \/ Trade
    \/ \E w \in CatalogWorkers :
          \/ Ask(w) \/ ReadVariant(w) \/ WriteEdit(w) \/ Delete(w) \/ Duplicate(w)
          \/ Create(w) \/ WriteLog(w) \/ ImportRow(w) \/ EndEdit(w) \/ AbandonEdit(w)

CatalogSpec == CatalogInit /\ [][CatalogNext]_CatalogVars
-----------------------------------------------------------------------------
Imports == [kind : {"import"}, ids : SUBSET Products]

CatalogTyped ==
    /\ product \in [Products -> ProductRow] /\ seen \in [CatalogWorkers -> [Products -> ProductRow]]
    /\ log \in [Products -> Int]
    /\ line \in [Products -> [row : Nat, variant : Nat]]
    /\ editor \in [CatalogWorkers -> [pc : {"idle", "variant", "write", "log", "row"},
                                      actor : Stores \cup {Admin},
                                      op : Edits \cup Imports \cup {[kind |-> "none"]},
                                      todo : Seq(FileRow), entry : Int]]
    /\ ordered \subseteq Products /\ excused \subseteq Products
    /\ edits \in 0..MaxEdits /\ sales \in 0..MaxSales

\* What is below zero has come from a file, or from a copy of such a product.
BelowZeroFromFiles ==
    /\ belowZero \subseteq Products
    /\ \A p \in Products \ belowZero :
          NoNegatives(product[p]) /\ \A w \in CatalogWorkers : NoNegatives(seen[w][p])

\* Every variable has its type, and only a file takes a stock, a variant's
\* stock or a price below zero: no sale, edit or correction does, however they
\* overlap (decrementStock, restoreStock, adjustStock, the bulk edits).
CatalogTypeOK == CatalogTyped /\ BelowZeroFromFiles

\* The inventory log explains the stock of every product: its deltas add up to
\* it, whatever edits and sales overlap.  The exceptions are exactly these: the
\* entry is about to be written, its request died before writing it, an edit
\* computed from an older stock has overwritten a newer one, or a file has
\* created the product with a stock below zero.
LogExplainsStock ==
    \A p \in Products :
        \/ ~Exists(p) \/ p \in excused
        \/ log[p] = product[p].stock
        \/ \E w \in CatalogWorkers : editor[w].pc = "log" /\ p \in editor[w].op.ids
=============================================================================
