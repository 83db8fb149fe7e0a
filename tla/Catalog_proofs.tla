--------------------------- MODULE Catalog_proofs ---------------------------
(***************************************************************************)
(* What Catalog guarantees for any number of products, stores, staff       *)
(* requests and edits, however they and the sales overlap: the inventory   *)
(* log explains the stock.  "The entries still to be written add up to the *)
(* difference" is said without a sum over a set, which would need an       *)
(* induction: there is an order in which they lead from one to the other.  *)
(***************************************************************************)
EXTENDS Catalog, TLAPS

\* From a to b by one step of e[w] for each w of W, in the order of some s.
Leads(n, s, v, a, b, W, e) ==
    /\ \A i, j \in 1..n : s[i] = s[j] => i = j
    /\ \A w \in W : \E i \in 1..n : s[i] = w
    /\ v[0] = a /\ v[n] = b
    /\ \A i \in 1..n : v[i] = v[i - 1] + e[s[i]]

Explains(a, b, W, e) ==
    \E n \in Nat : \E s \in [1..n -> W], v \in [0..n -> Int] : Leads(n, s, v, a, b, W, e)

\* The requests with an entry for p to write, and the entries.
Pending(p) == {w \in CatalogWorkers : editor[w].pc = "log" /\ p \in editor[w].op.ids}
Entries == [w \in CatalogWorkers |-> editor[w].entry]

EditorState == [pc : {"idle", "variant", "write", "log", "row"}, actor : Stores \cup {Admin},
            op : Edits \cup Imports \cup {[kind |-> "none"]}, todo : Seq(FileRow), entry : Int]

\* What a request may rely on at the step it has reached.
EditorKnown(s) ==
    /\ s.pc \in {"variant", "write"} => s.op \in Edits /\ s.op.kind # "import" /\ s.todo = <<>>
    /\ s.pc = "variant" => s.op.kind = "variant"
    /\ s.pc \in {"row", "log"} => s.op.ids \subseteq Products /\ (s.todo = <<>> \/ s.op \in Imports)

EditorsKnow == \A w \in CatalogWorkers : EditorKnown(editor[w])

\* Of a product still to come nothing is logged, sold or about to be logged.
Untouched(p) ==
    product[p].status = "absent" =>
        log[p] = 0 /\ line[p] = [row |-> 0, variant |-> 0] /\ Pending(p) = {}

AbsentUntouched == \A p \in Products : Untouched(p)

\* The entries to come lead from what is logged to the stock.
LeadsToStock(p) ==
    ~Exists(p) \/ p \in excused \/ Explains(log[p], product[p].stock, Pending(p), Entries)

Explained == \A p \in Products : LeadsToStock(p)

\* A variant about to be corrected has been read.
VariantsRead ==
    \A w \in CatalogWorkers :
        editor[w].pc = "write" /\ editor[w].op.kind = "variant"
            => \A p \in editor[w].op.ids : seen[w][p].variant # NoVariant

\* The inductive invariant, in two parts: the second needs the first.
CatalogInv == CatalogTyped /\ EditorsKnow /\ AbsentUntouched /\ Explained
SignInv == VariantsRead /\ BelowZeroFromFiles
-----------------------------------------------------------------------------
(* Lemmas about Explains.                                                  *)

\* No entry leads nowhere.
LEMMA AddsNone ==
  ASSUME NEW a \in Int, NEW e
  PROVE  Explains(a, a, {}, e)
<1>. DEFINE s == [i \in 1..0 |-> 0]
            v == [i \in 0..0 |-> a]
<1>1. s \in [1..0 -> {}] /\ v \in [0..0 -> Int]
  OBVIOUS
<1>2. Leads(0, s, v, a, a, {}, e)
  BY DEF Leads
<1>. QED
  BY <1>1, <1>2 DEF Explains

\* What adds up adds up wherever it starts.
LEMMA AddsShift ==
  ASSUME NEW a \in Int, NEW b \in Int, NEW d \in Int, NEW W, NEW e,
         \A w \in W : e[w] \in Int, Explains(a, b, W, e)
  PROVE  Explains(a + d, b + d, W, e)
<1>0. PICK n \in Nat : \E s \in [1..n -> W], v \in [0..n -> Int] : Leads(n, s, v, a, b, W, e)
  BY DEF Explains
<1>1. PICK s \in [1..n -> W], v \in [0..n -> Int] : Leads(n, s, v, a, b, W, e)
  BY <1>0
<1>. DEFINE u == [i \in 0..n |-> v[i] + d]
<1>2. u \in [0..n -> Int]
  OBVIOUS
<1>3. u[0] = a + d /\ u[n] = b + d
  BY <1>1 DEF Leads
<1>4. \A i \in 1..n : u[i] = u[i - 1] + e[s[i]]
  <2>. TAKE i \in 1..n
  <2>1. i \in 0..n /\ i - 1 \in 0..n /\ s[i] \in W
    OBVIOUS
  <2>2. v[i] \in Int /\ v[i - 1] \in Int /\ e[s[i]] \in Int /\ v[i] = v[i - 1] + e[s[i]]
    BY <1>1, <2>1 DEF Leads
  <2>. QED
    BY <2>1, <2>2
<1>5. Leads(n, s, u, a + d, b + d, W, e)
  BY <1>1, <1>3, <1>4 DEF Leads
<1>. QED
  BY <1>2, <1>5 DEF Explains

\* Entries that agree on the set add up to the same.
LEMMA AddsSame ==
  ASSUME NEW a, NEW b, NEW W, NEW e, NEW f, \A w \in W : f[w] = e[w], Explains(a, b, W, e)
  PROVE  Explains(a, b, W, f)
<1>0. PICK n \in Nat : \E s \in [1..n -> W], v \in [0..n -> Int] : Leads(n, s, v, a, b, W, e)
  BY DEF Explains
<1>1. PICK s \in [1..n -> W], v \in [0..n -> Int] : Leads(n, s, v, a, b, W, e)
  BY <1>0
<1>2. \A i \in 1..n : f[s[i]] = e[s[i]]
  OBVIOUS
<1>3. Leads(n, s, v, a, b, W, f)
  BY <1>1, <1>2 DEF Leads
<1>. QED
  BY <1>3 DEF Explains

\* One more entry: the sum ends that much later.
LEMMA AddsMore ==
  ASSUME NEW a \in Int, NEW b \in Int, NEW W, NEW e, NEW x, x \notin W, e[x] \in Int,
         Explains(a, b, W, e)
  PROVE  Explains(a, b + e[x], W \cup {x}, e)
<1>0. PICK n \in Nat : \E s \in [1..n -> W], v \in [0..n -> Int] : Leads(n, s, v, a, b, W, e)
  BY DEF Explains
<1>1. PICK s \in [1..n -> W], v \in [0..n -> Int] : Leads(n, s, v, a, b, W, e)
  BY <1>0
<1>. DEFINE t == [i \in 1..(n + 1) |-> IF i = n + 1 THEN x ELSE s[i]]
            u == [i \in 0..(n + 1) |-> IF i = n + 1 THEN b + e[x] ELSE v[i]]
<1>2. t \in [1..(n + 1) -> W \cup {x}] /\ u \in [0..(n + 1) -> Int]
  OBVIOUS
<1>3. \A i, j \in 1..(n + 1) : t[i] = t[j] => i = j
  <2>1. \A i \in 1..(n + 1) : i # n + 1 => i \in 1..n
    OBVIOUS
  <2>. QED
    BY <1>1, <2>1 DEF Leads
<1>4. \A w \in W \cup {x} : \E i \in 1..(n + 1) : t[i] = w
  <2>1. t[n + 1] = x /\ n + 1 \in 1..(n + 1)
    OBVIOUS
  <2>2. ASSUME NEW w \in W PROVE \E i \in 1..(n + 1) : t[i] = w
    <3>1. PICK i \in 1..n : s[i] = w
      BY <1>1 DEF Leads
    <3>2. i \in 1..(n + 1) /\ t[i] = w
      BY <3>1
    <3>. QED
      BY <3>2
  <2>. QED
    BY <2>1, <2>2
<1>5. u[0] = a /\ u[n + 1] = b + e[x]
  BY <1>1 DEF Leads
<1>6. \A i \in 1..(n + 1) : u[i] = u[i - 1] + e[t[i]]
  <2>. TAKE i \in 1..(n + 1)
  <2>1. CASE i = n + 1
    BY <1>1, <2>1 DEF Leads
  <2>2. CASE i # n + 1
    <3>1. i \in 1..n /\ i - 1 \in 0..n
      BY <2>2
    <3>. QED
      BY <1>1, <3>1, SMTT(30) DEF Leads
  <2>. QED
    BY <2>1, <2>2
<1>7. Leads(n + 1, t, u, a, b + e[x], W \cup {x}, e)
  BY <1>3, <1>4, <1>5, <1>6 DEF Leads
<1>8. n + 1 \in Nat
  OBVIOUS
<1>. HIDE DEF t, u
<1>. QED
  BY <1>2, <1>7, <1>8 DEF Explains

\* One entry less, whichever it is: the sum starts that much later.
LEMMA AddsLess ==
  ASSUME NEW a \in Int, NEW b \in Int, NEW W, NEW e, \A w \in W : e[w] \in Int,
         NEW x \in W, Explains(a, b, W, e)
  PROVE  Explains(a + e[x], b, W \ {x}, e)
<1>0. PICK n \in Nat : \E s \in [1..n -> W], v \in [0..n -> Int] : Leads(n, s, v, a, b, W, e)
  BY DEF Explains
<1>1. PICK s \in [1..n -> W], v \in [0..n -> Int] : Leads(n, s, v, a, b, W, e)
  BY <1>0
<1>2. PICK k \in 1..n : s[k] = x
  BY <1>1 DEF Leads
<1>. DEFINE t == [i \in 1..(n - 1) |-> IF i < k THEN s[i] ELSE s[i + 1]]
            u == [i \in 0..(n - 1) |-> IF i < k THEN v[i] + e[x] ELSE v[i + 1]]
<1>3. n - 1 \in Nat /\ e[x] \in Int
  OBVIOUS
<1>4. t \in [1..(n - 1) -> W \ {x}]
  <2>. SUFFICES ASSUME NEW i \in 1..(n - 1)
                PROVE  (IF i < k THEN s[i] ELSE s[i + 1]) \in W \ {x}
    OBVIOUS
  <2>1. i \in 1..n /\ i + 1 \in 1..n
    OBVIOUS
  <2>2. i # k => s[i] # x
    BY <1>1, <1>2, <2>1 DEF Leads
  <2>3. i + 1 # k => s[i + 1] # x
    BY <1>1, <1>2, <2>1 DEF Leads
  <2>4. s[i] \in W /\ s[i + 1] \in W
    BY <2>1
  <2>. QED
    BY <2>2, <2>3, <2>4
<1>5. u \in [0..(n - 1) -> Int]
  <2>. SUFFICES ASSUME NEW i \in 0..(n - 1)
                PROVE  (IF i < k THEN v[i] + e[x] ELSE v[i + 1]) \in Int
    OBVIOUS
  <2>1. i \in 0..n /\ i + 1 \in 0..n
    OBVIOUS
  <2>2. v[i] \in Int /\ v[i + 1] \in Int
    BY <2>1
  <2>. QED
    BY <1>3, <2>2
<1>6. \A i, j \in 1..(n - 1) : t[i] = t[j] => i = j
  <2>. TAKE i, j \in 1..(n - 1)
  <2>1. i \in 1..n /\ i + 1 \in 1..n /\ j \in 1..n /\ j + 1 \in 1..n
    OBVIOUS
  <2>. DEFINE p == IF i < k THEN i ELSE i + 1
              q == IF j < k THEN j ELSE j + 1
  <2>2. t[i] = s[p] /\ t[j] = s[q] /\ p \in 1..n /\ q \in 1..n
    BY <2>1
  <2>3. s[p] = s[q] => p = q
    BY <1>1, <2>2 DEF Leads
  <2>4. p = q => i = j
    OBVIOUS
  <2>. QED
    BY <2>2, <2>3, <2>4
<1>7. \A w \in W \ {x} : \E i \in 1..(n - 1) : t[i] = w
  <2>. TAKE w \in W \ {x}
  <2>1. PICK i \in 1..n : s[i] = w
    BY <1>1 DEF Leads
  <2>2. i # k
    BY <1>2, <2>1
  <2>3. CASE i < k
    <3>1. i \in 1..(n - 1) /\ t[i] = w
      BY <2>1, <2>3
    <3>. QED
      BY <3>1
  <2>4. CASE i > k
    <3>1. i - 1 \in 1..(n - 1) /\ ~(i - 1 < k) /\ (i - 1) + 1 = i
      BY <2>4
    <3>2. t[i - 1] = w
      BY <2>1, <3>1
    <3>. QED
      BY <3>1, <3>2
  <2>5. i < k \/ i > k
    BY <2>2
  <2>. QED
    BY <2>3, <2>4, <2>5
<1>8. u[0] = a + e[x] /\ u[n - 1] = b
  <2>1. u[0] = a + e[x]
    BY <1>1, <1>3 DEF Leads
  <2>2. CASE k = n
    <3>1. n - 1 \in 0..(n - 1) /\ n - 1 < k /\ u[n - 1] = v[n - 1] + e[x]
      BY <1>3, <2>2
    <3>2. v[n] = v[n - 1] + e[x] /\ v[n] = b
      BY <1>1, <1>2, <2>2 DEF Leads
    <3>. QED
      BY <2>1, <3>1, <3>2
  <2>3. CASE k # n
    <3>1. n - 1 \in 0..(n - 1) /\ ~(n - 1 < k) /\ (n - 1) + 1 = n
      BY <1>3, <2>3
    <3>. QED
      BY <1>1, <2>1, <3>1 DEF Leads
  <2>. QED
    BY <2>2, <2>3
<1>9. \A i \in 1..(n - 1) : u[i] = u[i - 1] + e[t[i]]
  <2>. TAKE i \in 1..(n - 1)
  <2>1. /\ i \in 0..(n - 1) /\ i - 1 \in 0..(n - 1)
        /\ i \in 1..n /\ i + 1 \in 1..n /\ i \in 0..n /\ i - 1 \in 0..n /\ i + 1 \in 0..n
    OBVIOUS
  <2>2. /\ v[i] \in Int /\ v[i - 1] \in Int /\ v[i + 1] \in Int
        /\ e[s[i]] \in Int /\ e[s[i + 1]] \in Int
    BY <2>1
  <2>3. v[i] = v[i - 1] + e[s[i]] /\ v[i + 1] = v[(i + 1) - 1] + e[s[i + 1]]
    BY <1>1, <2>1 DEF Leads
  <2>4. (i + 1) - 1 = i /\ (i - 1) + 1 = i
    OBVIOUS
  <2>5. CASE i < k
    <3>1. t[i] = s[i] /\ u[i] = v[i] + e[x] /\ u[i - 1] = v[i - 1] + e[x]
      BY <2>1, <2>5
    <3>. DEFINE before == v[i - 1]
                here == e[s[i]]
                gone == e[x]
    <3>2. before \in Int /\ here \in Int /\ gone \in Int
      BY <1>3, <2>2
    <3>3. u[i] = (before + here) + gone /\ u[i - 1] = before + gone /\ e[t[i]] = here
      BY <2>3, <3>1
    <3>. HIDE DEF before, here, gone, u, t
    <3>. QED
      BY <3>2, <3>3
  <2>6. CASE i = k
    <3>1. t[i] = s[i + 1] /\ u[i] = v[i + 1] /\ u[i - 1] = v[i - 1] + e[x]
      BY <2>1, <2>6
    <3>. QED
      BY <1>2, <1>3, <2>2, <2>3, <2>4, <2>6, <3>1
  <2>7. CASE i > k
    <3>1. t[i] = s[i + 1] /\ u[i] = v[i + 1] /\ u[i - 1] = v[i]
      BY <2>1, <2>4, <2>7, SMTT(30)
    <3>. QED
      BY <2>2, <2>3, <2>4, <3>1
  <2>. QED
    BY <2>5, <2>6, <2>7
<1>10. Leads(n - 1, t, u, a + e[x], b, W \ {x}, e)
  BY <1>6, <1>7, <1>8, <1>9 DEF Leads
<1>. QED
  BY <1>3, <1>4, <1>5, <1>10 DEF Explains

\* Where the sums differ there is an entry to come.
LEMMA AddsSome ==
  ASSUME NEW a, NEW b, NEW W, NEW e, Explains(a, b, W, e), a # b
  PROVE  W # {}
<1>0. PICK n \in Nat : \E s \in [1..n -> W], v \in [0..n -> Int] : Leads(n, s, v, a, b, W, e)
  BY DEF Explains
<1>1. PICK s \in [1..n -> W], v \in [0..n -> Int] : Leads(n, s, v, a, b, W, e)
  BY <1>0
<1>2. n # 0
  BY <1>1 DEF Leads
<1>3. 1 \in 1..n /\ s[1] \in W
  BY <1>2
<1>. QED
  BY <1>3
-----------------------------------------------------------------------------
(* The operators of the model.                                             *)

\* What the actions put into the variables is of their types.
LEMMA Records ==
    /\ Absent \in ProductRow /\ NothingSeen \in [Products -> ProductRow]
    /\ Idle \in EditorState /\ Idle.pc = "idle" /\ Idle.todo = <<>>
    /\ \A ids : product \in [Products -> ProductRow] => Saw(ids) \in [Products -> ProductRow]
<1>1. Absent \in ProductRow
  BY DEF Absent, ProductRow, Placements
<1>2. Idle \in EditorState /\ Idle.pc = "idle" /\ Idle.todo = <<>>
  BY DEF Idle, EditorState
<1>. QED
  BY <1>1, <1>2 DEF NothingSeen, Saw

\* A product with a new status, stock and variant.
Reset(row, status, stock, variant) ==
    [row EXCEPT !.status = status, !.stock = stock, !.variant = variant]

LEMMA ResetRow ==
  ASSUME NEW row \in ProductRow, NEW status \in {"absent", "draft", "published", "deleted"},
         NEW stock \in Int, NEW variant \in Int \cup {NoVariant}
  PROVE  /\ Reset(row, status, stock, variant) \in ProductRow
         /\ Reset(row, status, stock, variant).status = status
         /\ Reset(row, status, stock, variant).stock = stock
BY DEF ProductRow, Reset

\* A request that goes to another step, with an entry to write.
Moved(s, c, n) == [s EXCEPT !.pc = c, !.entry = n]

LEMMA MovedRequest ==
  ASSUME NEW s \in EditorState, NEW c \in {"row", "log"}, NEW n \in Int
  PROVE  /\ Moved(s, c, n) \in EditorState /\ Moved(s, c, n).pc = c /\ Moved(s, c, n).entry = n
         /\ Moved(s, c, n).op = s.op /\ Moved(s, c, n).todo = s.todo
BY DEF EditorState, Moved

\* What an edit writes is a row; it changes the status only between draft and
\* published, and the stock only if it writes the stock.
LEMMA WrittenRow ==
  ASSUME NEW op \in Edits, op.kind \notin {"import", "create", "delete", "duplicate"},
         NEW old \in ProductRow, NEW now \in ProductRow, now.status \in {"draft", "published"},
         op.kind = "variant" => old.variant # NoVariant
  PROVE  /\ Written(op, old, now) \in ProductRow
         /\ Written(op, old, now).status \in {"draft", "published"}
         /\ ~WritesStock(op) => Written(op, old, now).stock = now.stock
         /\ NoNegatives(old) /\ NoNegatives(now) => NoNegatives(Written(op, old, now))
<1>1. Valid(op)
  BY CatalogAssumption
<1>. DEFINE new == Written(op, old, now)
<1>2. CASE op.kind = "price"
  <2>1. NewNumber(op, old.price) \in Nat
    BY <1>1, <1>2 DEF Valid, NewNumber, AtLeastZero, ProductRow
  <2>. HIDE DEF Valid
  <2>. QED
    BY <1>2, <2>1 DEF Written, WritesStock, ProductRow, NoNegatives
<1>3. CASE op.kind = "stock"
  <2>1. NewNumber(op, old.stock) \in Nat
    BY <1>1, <1>3 DEF Valid, NewNumber, AtLeastZero, ProductRow
  <2>. QED
    BY <1>3, <2>1 DEF Written, WritesStock, ProductRow, NoNegatives
<1>4. CASE op.kind = "variant"
  <2>1. AtLeastZero(old.variant + op.value) \in Nat
    BY <1>1, <1>4 DEF Valid, AtLeastZero, ProductRow
  <2>. QED
    BY <1>4, <2>1 DEF Written, WritesStock, ProductRow, NoNegatives
<1>5. CASE op.kind = "tags"
  <2>1. op.tags \subseteq Labels
    BY <1>5 DEF Labels
  <2>2. NewTags(op, old.tags) \in SUBSET Labels
    BY <2>1 DEF NewTags, ProductRow
  <2>. QED
    BY <1>5, <2>2 DEF Written, WritesStock, ProductRow, NoNegatives
<1>6. CASE op.kind = "status"
  BY <1>1, <1>6 DEF Valid, Written, WritesStock, ProductRow, NoNegatives
<1>7. CASE op.kind = "place"
  <2>1. op.to \in Placements
    BY <1>7 DEF Placements
  <2>. QED
    BY <1>7, <2>1 DEF Written, WritesStock, ProductRow, NoNegatives
<1>8. CASE op.kind = "update"
  <2>1. /\ IfGiven(op.value, now.stock) \in Int
        /\ now.stock \in Nat => IfGiven(op.value, now.stock) \in Nat
    BY <1>1, <1>8 DEF Valid, IfGiven, ProductRow
  <2>2. /\ IfGiven(op.variant, now.variant) \in Int \cup {NoVariant}
        /\ now.variant \in Nat \cup {NoVariant}
               => IfGiven(op.variant, now.variant) \in Nat \cup {NoVariant}
    BY <1>1, <1>8 DEF Valid, IfGiven, ProductRow
  <2>3. op.value = Keep => IfGiven(op.value, now.stock) = now.stock
    BY DEF IfGiven
  <2>. QED
    BY <1>8, <2>1, <2>2, <2>3 DEF Written, WritesStock, ProductRow, NoNegatives
<1>. QED
  BY <1>1, <1>2, <1>3, <1>4, <1>5, <1>6, <1>7, <1>8 DEF Valid
-----------------------------------------------------------------------------
(* Steps.                                                                  *)

\* The first states satisfy the invariant.
LEMMA CatalogInitInv == CatalogInit => CatalogInv
<1>. SUFFICES ASSUME CatalogInit PROVE CatalogInv
  OBVIOUS
<1>. DEFINE Stocked(v) == [Absent EXCEPT !.status = "published", !.stock = 1, !.variant = v]
            Start == {Absent} \cup {Stocked(v) : v \in {NoVariant, 1}}
<1>0. \A v \in {NoVariant, 1} : Stocked(v) \in ProductRow /\ Stocked(v).status = "published"
  <2>. SUFFICES ASSUME NEW v \in {NoVariant, 1}
                PROVE  Stocked(v) \in ProductRow /\ Stocked(v).status = "published"
    OBVIOUS
  <2>1. v \in Int \cup {NoVariant}
    OBVIOUS
  <2>2. Stocked(v) = Reset(Absent, "published", 1, v)
    BY DEF Reset
  <2>. HIDE DEF Stocked
  <2>3. Absent \in ProductRow /\ 1 \in Int
    BY Records
  <2>. QED
    BY <2>1, <2>2, <2>3, ResetRow
<1>1. \A r \in Start : r \in ProductRow /\ (r.status = "absent" => r.stock = 0)
  <2>1. Absent.stock = 0
    BY DEF Absent
  <2>. HIDE DEF Stocked
  <2>. QED
    BY <1>0, <2>1, Records
<1>2. product \in [Products -> ProductRow]
  BY <1>1 DEF CatalogInit
<1>3. CatalogTyped
  <2>1. log \in [Products -> Int]
    BY <1>2 DEF CatalogInit, ProductRow
  <2>2. editor \in [CatalogWorkers -> EditorState]
    BY Records DEF CatalogInit
  <2>3. seen \in [CatalogWorkers -> [Products -> ProductRow]]
    BY Records DEF CatalogInit
  <2>. QED
    BY <1>2, <2>1, <2>2, <2>3, CatalogAssumption DEF CatalogInit, CatalogTyped, EditorState
<1>4. \A w \in CatalogWorkers : editor[w].pc = "idle"
  BY Records DEF CatalogInit
<1>5. EditorsKnow
  BY <1>4 DEF EditorsKnow, EditorKnown
<1>6. \A p \in Products : Pending(p) = {}
  BY <1>4 DEF Pending
<1>7. AbsentUntouched
  <2>. QED
    BY <1>1, <1>6 DEF AbsentUntouched, Untouched, CatalogInit
<1>8. Explained
  <2>. SUFFICES ASSUME NEW p \in Products
                PROVE  Explains(log[p], product[p].stock, Pending(p), Entries)
    BY DEF Explained, LeadsToStock
  <2>1. product[p].stock \in Int /\ log[p] = product[p].stock
    BY <1>2 DEF CatalogInit, ProductRow
  <2>. QED
    BY <1>6, <2>1, AddsNone
<1>. QED
  BY <1>3, <1>5, <1>7, <1>8 DEF CatalogInv

\* A step that neither starts nor ends the writing of an entry.
LEMMA QuietStep ==
  ASSUME CatalogInv, CatalogTyped', excused \subseteq excused',
         \A w \in CatalogWorkers :
            \/ editor'[w] = editor[w]
            \/ editor[w].pc # "log" /\ editor'[w].pc # "log" /\ EditorKnown(editor'[w]),
         \A p \in Products : product'[p].status = "absent" =>
            product[p].status = "absent" /\ log'[p] = 0 /\ line'[p] = [row |-> 0, variant |-> 0],
         \A p \in Products :
            \/ product'[p].status \notin {"draft", "published"} \/ p \in excused'
            \/ product[p].status = "absent" /\ log'[p] = 0 /\ product'[p].stock = 0
            \/ /\ Exists(p)
               /\ \E d \in Int : log'[p] = log[p] + d /\ product'[p].stock = product[p].stock + d
  PROVE  CatalogInv'
<1>1. EditorsKnow'
  BY DEF CatalogInv, EditorsKnow
<1>2. \A p \in Products : Pending(p)' = Pending(p)
  BY DEF Pending
<1>3. AbsentUntouched'
  BY <1>2 DEF CatalogInv, AbsentUntouched, Untouched
<1>4. ASSUME NEW p \in Products PROVE LeadsToStock(p)'
  <2>1. CASE product'[p].status \notin {"draft", "published"} \/ p \in excused'
    BY <2>1 DEF LeadsToStock, Exists
  <2>2. CASE product[p].status = "absent" /\ log'[p] = 0 /\ product'[p].stock = 0
    <3>1. Pending(p)' = {}
      BY <1>2, <2>2 DEF CatalogInv, AbsentUntouched, Untouched
    <3>2. Explains(log'[p], product'[p].stock, Pending(p)', Entries')
      BY <2>2, <3>1, AddsNone
    <3>. QED
      BY <3>2 DEF LeadsToStock
  <2>3. CASE Exists(p) /\ p \notin excused'
             /\ \E d \in Int : log'[p] = log[p] + d /\ product'[p].stock = product[p].stock + d
    <3>1. PICK d \in Int : log'[p] = log[p] + d /\ product'[p].stock = product[p].stock + d
      BY <2>3
    <3>2. Explains(log[p], product[p].stock, Pending(p), Entries)
      BY <2>3 DEF CatalogInv, Explained, LeadsToStock
    <3>3. log[p] \in Int /\ product[p].stock \in Int
      BY DEF CatalogInv, CatalogTyped, ProductRow
    <3>4. \A w \in Pending(p) : Entries[w] \in Int /\ Entries'[w] = Entries[w]
      BY DEF Pending, Entries, CatalogInv, CatalogTyped
    <3>5. Explains(log[p] + d, product[p].stock + d, Pending(p), Entries)
      BY <3>2, <3>3, <3>4, AddsShift
    <3>6. Explains(log'[p], product'[p].stock, Pending(p)', Entries')
      BY <1>2, <3>1, <3>4, <3>5, AddsSame
    <3>. QED
      BY <3>6 DEF LeadsToStock
  <2>. QED
    BY <2>1, <2>2, <2>3
<1>. QED
  BY <1>1, <1>3, <1>4 DEF CatalogInv, Explained

\* One request moves on.
LEMMA EditorMoves ==
  ASSUME CatalogTyped, NEW w \in CatalogWorkers, NEW r \in EditorState,
         editor' = [editor EXCEPT ![w] = r]
  PROVE  /\ editor' \in [CatalogWorkers -> EditorState] /\ editor'[w] = r
         /\ \A x \in CatalogWorkers \ {w} : editor'[x] = editor[x]
BY DEF CatalogTyped, EditorState

\* One request is answered.
LEMMA EditorFinishes ==
  ASSUME CatalogTyped, NEW w \in CatalogWorkers, Finish(w)
  PROVE  /\ editor' \in [CatalogWorkers -> EditorState]
         /\ seen' \in [CatalogWorkers -> [Products -> ProductRow]]
         /\ editor'[w].pc = "idle" /\ EditorKnown(editor'[w])
         /\ \A x \in CatalogWorkers \ {w} : editor'[x] = editor[x]
<1>1. EditorKnown(Idle)
  BY Records DEF EditorKnown
<1>2. editor' = [editor EXCEPT ![w] = Idle] /\ Idle \in EditorState
  BY Records DEF Finish
<1>3. seen' \in [CatalogWorkers -> [Products -> ProductRow]]
  BY Records DEF Finish, CatalogTyped
<1>. QED
  BY <1>1, <1>2, <1>3, EditorMoves, Records

\* What is written is of the types, and only the database changes.
LEMMA DatabaseTyped ==
  ASSUME CatalogTyped, editor' \in [CatalogWorkers -> EditorState],
         seen' \in [CatalogWorkers -> [Products -> ProductRow]],
         product' \in [Products -> ProductRow], log' \in [Products -> Int],
         line' \in [Products -> [row : Nat, variant : Nat]],
         ordered' \subseteq Products, excused' \subseteq Products,
         edits' \in 0..MaxEdits, sales' \in 0..MaxSales
  PROVE  CatalogTyped'
BY DEF CatalogTyped, EditorState

\* A step that leaves products, log and items alone, and starts or ends no entry.
LEMMA StaffStep ==
  ASSUME CatalogInv, UNCHANGED catalogDb,
         excused \subseteq excused', excused' \subseteq Products,
         editor' \in [CatalogWorkers -> EditorState],
         seen' \in [CatalogWorkers -> [Products -> ProductRow]],
         edits' \in 0..MaxEdits, sales' = sales,
         \A w \in CatalogWorkers :
            \/ editor'[w] = editor[w]
            \/ editor[w].pc # "log" /\ editor'[w].pc # "log" /\ EditorKnown(editor'[w])
  PROVE  CatalogInv'
<1>1. CatalogTyped'
  <2>1. UNCHANGED <<product, log, line, ordered, sales>>
    BY DEF catalogDb
  <2>. QED
    BY <2>1 DEF CatalogInv, CatalogTyped, EditorState
<1>2. \A p \in Products : product'[p].status = "absent" =>
            product[p].status = "absent" /\ log'[p] = 0 /\ line'[p] = [row |-> 0, variant |-> 0]
  BY DEF catalogDb, CatalogInv, AbsentUntouched, Untouched
<1>3. ASSUME NEW p \in Products, Exists(p)
      PROVE  \E d \in Int : log'[p] = log[p] + d /\ product'[p].stock = product[p].stock + d
  <2>1. log[p] \in Int /\ product[p].stock \in Int
    BY DEF CatalogInv, CatalogTyped, ProductRow
  <2>2. log'[p] = log[p] + 0 /\ product'[p].stock = product[p].stock + 0
    BY <2>1 DEF catalogDb
  <2>. QED
    BY <2>2
<1>4. \A p \in Products : Exists(p) \/ product'[p].status \notin {"draft", "published"}
  BY DEF catalogDb, Exists
<1>. QED
  BY <1>1, <1>2, <1>3, <1>4, QuietStep

\* Units are sold or put back.
LEMMA TradeInv == CatalogInv /\ Trade => CatalogInv'
<1>. SUFFICES ASSUME CatalogInv, Trade PROVE CatalogInv'
  OBVIOUS
<1>. USE DEF CatalogInv
<1>1. UNCHANGED <<editor, seen, excused, edits>>
  BY DEF Trade
<1>2. PICK q \in Products :
          \/ /\ sales < MaxSales
             /\ SellRow(q) \/ SellVariant(q)
             /\ ordered' = ordered \cup {q} /\ sales' = sales + 1
          \/ /\ RestockRow(q) \/ RestockVariant(q)
             /\ UNCHANGED <<ordered, sales>>
  BY DEF Trade
<1>3. /\ product[q] \in ProductRow /\ product[q].stock \in Int /\ log[q] \in Int
      /\ product[q].variant \in Int \cup {NoVariant}
      /\ line[q] \in [row : Nat, variant : Nat]
  BY DEF CatalogTyped, ProductRow
<1>4. product[q].status # "absent"
  <2>1. CASE SellRow(q) \/ SellVariant(q)
    BY <2>1 DEF SellRow, SellVariant, Exists
  <2>2. CASE RestockRow(q) \/ RestockVariant(q)
    BY <2>2 DEF RestockRow, RestockVariant, AbsentUntouched, Untouched
  <2>. QED
    BY <1>2, <2>1, <2>2
\* What each of the four does to the row, its log and the items that point at it.
<1>5. \E row \in ProductRow, d \in Int, item \in [row : Nat, variant : Nat] :
          /\ row.status = product[q].status /\ row.stock = product[q].stock + d
          /\ product' = [product EXCEPT ![q] = row]
          /\ log' = [log EXCEPT ![q] = @ + d]
          /\ line' = [line EXCEPT ![q] = item]
  <2>1. CASE SellRow(q)
    <3>1. product[q].stock - 1 \in Int
      BY <1>3, <2>1 DEF SellRow
    <3>2. [product[q] EXCEPT !.stock = @ - 1] \in ProductRow
      BY <1>3, <3>1 DEF ProductRow
    <3>3. [line[q] EXCEPT !.row = @ + 1] \in [row : Nat, variant : Nat]
      BY <1>3
    <3>. WITNESS [product[q] EXCEPT !.stock = @ - 1] \in ProductRow, -1 \in Int,
                 [line[q] EXCEPT !.row = @ + 1] \in [row : Nat, variant : Nat]
    <3>4. log[q] - 1 = log[q] + (-1) /\ product[q].stock - 1 = product[q].stock + (-1)
      BY <1>3
    <3>. QED
      BY <1>3, <2>1, <3>4 DEF SellRow, ProductRow
  <2>2. CASE SellVariant(q)
    <3>1. product[q].variant - 1 \in Int
      BY <1>3, <2>2 DEF SellVariant
    <3>2. [product[q] EXCEPT !.variant = @ - 1] \in ProductRow
      BY <1>3, <3>1 DEF ProductRow
    <3>3. [line[q] EXCEPT !.variant = @ + 1] \in [row : Nat, variant : Nat]
      BY <1>3
    <3>4. log = [log EXCEPT ![q] = @ + 0] /\ product[q].stock = product[q].stock + 0
      BY <1>3 DEF CatalogTyped
    <3>. WITNESS [product[q] EXCEPT !.variant = @ - 1] \in ProductRow, 0 \in Int,
                 [line[q] EXCEPT !.variant = @ + 1] \in [row : Nat, variant : Nat]
    <3>. QED
      BY <1>3, <2>2, <3>4 DEF SellVariant, ProductRow
  <2>3. CASE RestockRow(q)
    <3>1. line[q].row - 1 \in Nat
      BY <1>3, <2>3 DEF RestockRow
    <3>2. [product[q] EXCEPT !.stock = @ + 1] \in ProductRow
      BY <1>3 DEF ProductRow
    <3>3. [line[q] EXCEPT !.row = @ - 1] \in [row : Nat, variant : Nat]
      BY <1>3, <3>1
    <3>. WITNESS [product[q] EXCEPT !.stock = @ + 1] \in ProductRow, 1 \in Int,
                 [line[q] EXCEPT !.row = @ - 1] \in [row : Nat, variant : Nat]
    <3>. QED
      BY <1>3, <2>3 DEF RestockRow, ProductRow
  <2>4. CASE RestockVariant(q)
    <3>0. product[q].variant + 1 \in Int
      BY <1>3, <2>4 DEF RestockVariant
    <3>1. line[q].variant - 1 \in Nat
      BY <1>3, <2>4 DEF RestockVariant
    <3>2. [product[q] EXCEPT !.variant = @ + 1] \in ProductRow
      BY <1>3, <3>0 DEF ProductRow
    <3>3. [line[q] EXCEPT !.variant = @ - 1] \in [row : Nat, variant : Nat]
      BY <1>3, <3>1
    <3>4. log = [log EXCEPT ![q] = @ + 0] /\ product[q].stock = product[q].stock + 0
      BY <1>3 DEF CatalogTyped
    <3>. WITNESS [product[q] EXCEPT !.variant = @ + 1] \in ProductRow, 0 \in Int,
                 [line[q] EXCEPT !.variant = @ - 1] \in [row : Nat, variant : Nat]
    <3>. QED
      BY <1>3, <2>4, <3>4 DEF RestockVariant, ProductRow
  <2>. QED
    BY <1>2, <2>1, <2>2, <2>3, <2>4
<1>6. PICK row \in ProductRow, d \in Int, item \in [row : Nat, variant : Nat] :
          /\ row.status = product[q].status /\ row.stock = product[q].stock + d
          /\ product' = [product EXCEPT ![q] = row]
          /\ log' = [log EXCEPT ![q] = @ + d]
          /\ line' = [line EXCEPT ![q] = item]
  BY <1>5
<1>7. \A p \in Products :
          /\ product'[p] = IF p = q THEN row ELSE product[p]
          /\ log'[p] = IF p = q THEN log[q] + d ELSE log[p]
          /\ line'[p] = IF p = q THEN item ELSE line[p]
  BY <1>6 DEF CatalogTyped
<1>8. CatalogTyped'
  <2>1. /\ product' \in [Products -> ProductRow] /\ log' \in [Products -> Int]
        /\ line' \in [Products -> [row : Nat, variant : Nat]]
    BY <1>6 DEF CatalogTyped
  <2>2. ordered' \subseteq Products /\ sales' \in 0..MaxSales
    BY <1>2, CatalogAssumption DEF CatalogTyped
  <2>. QED
    BY <1>1, <2>1, <2>2 DEF CatalogTyped
<1>9. \A p \in Products : product'[p].status = "absent" =>
          product[p].status = "absent" /\ log'[p] = 0 /\ line'[p] = [row |-> 0, variant |-> 0]
  BY <1>4, <1>6, <1>7 DEF AbsentUntouched, Untouched
<1>10. ASSUME NEW p \in Products
       PROVE  \/ product'[p].status \notin {"draft", "published"}
              \/ /\ Exists(p)
                 /\ \E e \in Int : log'[p] = log[p] + e /\ product'[p].stock = product[p].stock + e
  <2>1. CASE p = q
    BY <1>6, <1>7, <2>1 DEF Exists
  <2>2. CASE p # q
    <3>1. log'[p] = log[p] + 0 /\ product'[p].stock = product[p].stock + 0
      BY <1>7, <2>2, SMTT(30) DEF CatalogTyped, ProductRow
    <3>. QED
      BY <1>7, <2>2, <3>1 DEF Exists
  <2>. QED
    BY <2>1, <2>2
<1>. QED
  BY <1>1, <1>8, <1>9, <1>10, QuietStep

\* A request is made.
LEMMA AskInv ==
  ASSUME CatalogInv, NEW w \in CatalogWorkers, Ask(w)
  PROVE  CatalogInv'
<1>. USE DEF CatalogInv
<1>1. PICK a \in Actors, op \in Edits :
          IF op.kind = "import" THEN StartImport(w, a, op) ELSE StartEdit(w, a, op)
  BY DEF Ask
<1>2. a \in Stores \cup {Admin} /\ Valid(op)
  BY CatalogAssumption
<1>3. editor[w].pc = "idle" /\ edits' \in 0..MaxEdits /\ UNCHANGED <<excused, sales>>
  BY <1>1, CatalogAssumption DEF StartImport, StartEdit, CatalogTyped
<1>4. UNCHANGED catalogDb
  BY <1>1 DEF StartImport, StartEdit
<1>5. \E ids : seen' = [seen EXCEPT ![w] = Saw(ids)]
  BY <1>1 DEF StartImport, StartEdit
<1>6. seen' \in [CatalogWorkers -> [Products -> ProductRow]]
  <2>1. PICK ids : seen' = [seen EXCEPT ![w] = Saw(ids)]
    BY <1>5
  <2>2. Saw(ids) \in [Products -> ProductRow]
    BY Records DEF CatalogTyped
  <2>. QED
    BY <2>1, <2>2 DEF CatalogTyped
<1>7. \E r \in EditorState :
          /\ editor' = [editor EXCEPT ![w] = r]
          /\ r.pc # "log" /\ EditorKnown(r)
  <2>1. CASE op.kind = "import"
    <3>. DEFINE r == [Idle EXCEPT !.pc = "row", !.actor = a, !.todo = op.rows,
                                  !.op = [kind |-> "import", ids |-> {}]]
    <3>1. op.rows \in Seq(FileRow)
      BY <1>2, <2>1 DEF Valid
    <3>2. [kind |-> "import", ids |-> {}] \in Imports
      BY DEF Imports
    <3>3. /\ r \in EditorState /\ r.pc = "row"
          /\ r.op = [kind |-> "import", ids |-> {}] /\ r.op.ids = {}
      BY <1>2, <3>1, <3>2, Records DEF EditorState
    <3>4. editor' = [editor EXCEPT ![w] = r]
      BY <1>1, <2>1 DEF StartImport
    <3>. HIDE DEF r
    <3>. QED
      BY <3>2, <3>3, <3>4 DEF EditorKnown
  <2>2. CASE op.kind # "import"
    <3>. DEFINE r == [Idle EXCEPT !.pc = IF op.kind = "variant" THEN "variant" ELSE "write",
                                  !.actor = a, !.op = op]
    <3>1. /\ r \in EditorState /\ r.op = op
          /\ r.pc = IF op.kind = "variant" THEN "variant" ELSE "write"
      BY <1>2, Records DEF EditorState
    <3>2. editor' = [editor EXCEPT ![w] = r]
      BY <1>1, <2>2 DEF StartEdit
    <3>3. r.todo = <<>>
      BY Records
    <3>. HIDE DEF r
    <3>. QED
      BY <2>2, <3>1, <3>2, <3>3 DEF EditorKnown
  <2>. QED
    BY <2>1, <2>2
<1>8. PICK r \in EditorState :
          /\ editor' = [editor EXCEPT ![w] = r]
          /\ r.pc # "log" /\ EditorKnown(r)
  BY <1>7
<1>9. /\ editor' \in [CatalogWorkers -> EditorState] /\ editor'[w] = r
      /\ \A x \in CatalogWorkers \ {w} : editor'[x] = editor[x]
  BY <1>8, EditorMoves
<1>10. excused \subseteq excused' /\ excused' \subseteq Products
  BY <1>3 DEF CatalogTyped
<1>. QED
  BY <1>3, <1>4, <1>6, <1>8, <1>9, <1>10, StaffStep

\* The request is answered, or broken off, with no entry to write.
LEMMA FinishInv ==
  ASSUME CatalogInv, NEW w \in CatalogWorkers, Finish(w), editor[w].pc # "log",
         UNCHANGED catalogDb, UNCHANGED <<excused, edits, sales>>
  PROVE  CatalogInv'
<1>1. edits' \in 0..MaxEdits /\ excused' \subseteq Products
  BY DEF CatalogInv, CatalogTyped
<1>2. /\ editor' \in [CatalogWorkers -> EditorState]
      /\ seen' \in [CatalogWorkers -> [Products -> ProductRow]]
      /\ editor'[w].pc = "idle" /\ EditorKnown(editor'[w])
      /\ \A x \in CatalogWorkers \ {w} : editor'[x] = editor[x]
  BY EditorFinishes DEF CatalogInv
<1>. QED
  BY <1>1, <1>2, StaffStep

LEMMA ReadVariantInv ==
  ASSUME CatalogInv, NEW w \in CatalogWorkers, ReadVariant(w)
  PROVE  CatalogInv'
<1>. USE DEF CatalogInv
<1>1. UNCHANGED catalogDb /\ UNCHANGED <<excused, edits, sales>> /\ editor[w].pc = "variant"
  BY DEF ReadVariant
<1>2. CASE Finish(w)
  BY <1>1, <1>2, FinishInv
<1>3. CASE /\ editor' = [editor EXCEPT ![w].pc = "write"]
           /\ seen' = [seen EXCEPT ![w] = Saw(editor[w].op.ids)]
  <2>. DEFINE r == [editor[w] EXCEPT !.pc = "write"]
  <2>1. editor[w] \in EditorState
    BY DEF CatalogTyped, EditorState
  <2>2. r \in EditorState /\ r.pc = "write" /\ r.op = editor[w].op /\ r.todo = editor[w].todo
    BY <2>1 DEF EditorState
  <2>3. editor' = [editor EXCEPT ![w] = r]
    BY <1>3
  <2>. HIDE DEF r
  <2>4. EditorKnown(r)
    BY <1>1, <2>2 DEF EditorsKnow, EditorKnown
  <2>5. seen' \in [CatalogWorkers -> [Products -> ProductRow]]
    BY <1>3, Records DEF CatalogTyped
  <2>6. /\ editor' \in [CatalogWorkers -> EditorState] /\ editor'[w] = r
        /\ \A x \in CatalogWorkers \ {w} : editor'[x] = editor[x]
    BY <2>2, <2>3, EditorMoves
  <2>7. edits' \in 0..MaxEdits /\ excused' \subseteq Products
    BY <1>1 DEF CatalogTyped
  <2>. QED
    BY <1>1, <2>2, <2>4, <2>5, <2>6, <2>7, StaffStep
<1>. QED
  BY <1>2, <1>3 DEF ReadVariant

LEMMA EndEditInv ==
  ASSUME CatalogInv, NEW w \in CatalogWorkers, EndEdit(w)
  PROVE  CatalogInv'
BY FinishInv DEF EndEdit

\* The write of an edit.
LEMMA WriteEditInv ==
  ASSUME CatalogInv, VariantsRead, NEW w \in CatalogWorkers, WriteEdit(w)
  PROVE  CatalogInv'
<1>. USE DEF CatalogInv
<1>. DEFINE rows == {p \in editor[w].op.ids : Exists(p)}
            Move == /\ product' = [p \in Products |-> IF p \in rows
                          THEN Written(editor[w].op, seen[w][p], product[p]) ELSE product[p]]
                    /\ log' = [p \in Products |-> IF p \in rows /\ WritesStock(editor[w].op)
                          THEN log[p] + product'[p].stock - seen[w][p].stock ELSE log[p]]
                    /\ line' = IF ReplacesVariants(editor[w].op) THEN Detach(rows, line) ELSE line
                    /\ excused' = excused \cup {p \in rows : /\ WritesStock(editor[w].op)
                                                           /\ seen[w][p].stock # product[p].stock}
<1>1. /\ editor[w].pc = "write" /\ editor[w].op.kind \notin {"create", "delete", "duplicate"}
      /\ Finish(w) /\ UNCHANGED <<ordered, edits, sales>>
  BY DEF WriteEdit
<1>2. Move \/ UNCHANGED <<product, log, line, excused>>
  BY DEF WriteEdit
<1>3. editor[w].op \in Edits /\ editor[w].op.kind # "import"
  BY <1>1 DEF EditorsKnow, EditorKnown
<1>4. CASE UNCHANGED <<product, log, line, excused>>
  BY <1>1, <1>4, FinishInv DEF catalogDb
<1>5. CASE Move
  <2>1. PICK op \in Edits : op = editor[w].op
    BY <1>3
  <2>2. /\ op.kind \notin {"import", "create", "delete", "duplicate"} /\ op.ids \subseteq Products
    BY <1>1, <1>3, <2>1, CatalogAssumption DEF Valid
  <2>3. \A p \in rows : /\ p \in Products /\ Exists(p) /\ product[p] \in ProductRow
                        /\ seen[w][p] \in ProductRow
                        /\ op.kind = "variant" => seen[w][p].variant # NoVariant
    BY <1>1, <2>1, <2>2 DEF CatalogTyped, VariantsRead
  <2>4. \A p \in rows : /\ product'[p] \in ProductRow
                        /\ product'[p].status \in {"draft", "published"}
                        /\ ~WritesStock(op) => product'[p].stock = product[p].stock
    <3>. TAKE p \in rows
    <3>1. product'[p] = Written(op, seen[w][p], product[p])
      BY <1>5, <2>1, <2>3
    <3>. QED
      BY <2>2, <2>3, <3>1, WrittenRow DEF Exists
  <2>5. \A p \in Products \ rows : product'[p] = product[p] /\ log'[p] = log[p]
    BY <1>5
  <2>6. \A p \in rows : log'[p] = IF WritesStock(op) THEN log[p] + product'[p].stock - seen[w][p].stock
                                  ELSE log[p]
    BY <1>5, <2>1, <2>3
  <2>7. /\ line' \in [Products -> [row : Nat, variant : Nat]]
        /\ \A p \in Products \ rows : line'[p] = line[p]
    BY <1>5, SMTT(30) DEF Detach, CatalogTyped
  <2>8. excused \subseteq excused' /\ excused' \subseteq Products
    BY <1>5, <2>3 DEF CatalogTyped
  <2>9. \A p \in rows : WritesStock(op) /\ seen[w][p].stock # product[p].stock => p \in excused'
    BY <1>5, <2>1
  <2>10. product' = [p \in Products |-> product'[p]] /\ log' = [p \in Products |-> log'[p]]
    BY <1>5
  <2>. HIDE DEF rows, Move
  <2>11. product' \in [Products -> ProductRow]
    <3>1. \A p \in Products : product'[p] \in ProductRow
      BY <2>4, <2>5 DEF CatalogTyped
    <3>. QED
      BY <2>10, <3>1
  <2>12. log' \in [Products -> Int]
    <3>1. \A p \in Products : log[p] \in Int
      BY DEF CatalogTyped
    <3>2. \A p \in rows : product'[p].stock \in Int /\ seen[w][p].stock \in Int
      BY <2>3, <2>4 DEF ProductRow
    <3>3. \A p \in Products : log'[p] \in Int
      BY <2>5, <2>6, <3>1, <3>2
    <3>. QED
      BY <2>10, <3>3
  <2>13. /\ editor' \in [CatalogWorkers -> EditorState]
         /\ seen' \in [CatalogWorkers -> [Products -> ProductRow]]
         /\ editor'[w].pc = "idle" /\ EditorKnown(editor'[w])
         /\ \A x \in CatalogWorkers \ {w} : editor'[x] = editor[x]
    BY <1>1, EditorFinishes
  <2>14. CatalogTyped'
    <3>1. ordered' \subseteq Products /\ edits' \in 0..MaxEdits /\ sales' \in 0..MaxSales
      BY <1>1 DEF CatalogTyped
    <3>. QED
      BY <2>7, <2>8, <2>11, <2>12, <2>13, <3>1, DatabaseTyped
  <2>15. \A p \in Products : product'[p].status = "absent" =>
            product[p].status = "absent" /\ log'[p] = 0 /\ line'[p] = [row |-> 0, variant |-> 0]
    BY <2>4, <2>5, <2>7 DEF AbsentUntouched, Untouched
  <2>16. ASSUME NEW p \in Products
         PROVE  \/ product'[p].status \notin {"draft", "published"} \/ p \in excused'
                \/ /\ Exists(p)
                   /\ \E d \in Int : log'[p] = log[p] + d /\ product'[p].stock = product[p].stock + d
    <3>1. log[p] \in Int /\ product[p].stock \in Int
      BY DEF CatalogTyped, ProductRow
    <3>2. CASE p \notin rows
      <4>1. log'[p] = log[p] + 0 /\ product'[p].stock = product[p].stock + 0
        BY <2>5, <3>1, <3>2
      <4>. QED
        BY <2>5, <3>2, <4>1 DEF Exists
    <3>3. CASE p \in rows /\ ~WritesStock(op)
      <4>1. log'[p] = log[p] + 0 /\ product'[p].stock = product[p].stock + 0
        BY <2>4, <2>6, <3>1, <3>3
      <4>. QED
        BY <2>3, <3>3, <4>1
    <3>4. CASE p \in rows /\ WritesStock(op) /\ seen[w][p].stock = product[p].stock
      <4>1. product'[p].stock \in Int
        BY <2>4, <3>4 DEF ProductRow
      <4>. DEFINE d == product'[p].stock - product[p].stock
      <4>2. d \in Int /\ log'[p] = log[p] + d /\ product'[p].stock = product[p].stock + d
        BY <2>6, <3>1, <3>4, <4>1
      <4>. QED
        BY <2>3, <3>4, <4>2
    <3>. QED
      BY <2>9, <3>2, <3>3, <3>4
  <2>. QED
    BY <1>1, <2>8, <2>13, <2>14, <2>15, <2>16, QuietStep
<1>. QED
  BY <1>2, <1>4, <1>5

\* A deleted product keeps neither a log nor the duty to explain it.
LEMMA DeleteInv ==
  ASSUME CatalogInv, NEW w \in CatalogWorkers, Delete(w)
  PROVE  CatalogInv'
<1>. USE DEF CatalogInv
<1>. DEFINE gone == {p \in editor[w].op.ids : editor[w].op.ids \cap ordered = {}}
            left == [Absent EXCEPT !.status = "deleted"]
<1>1. /\ editor[w].pc = "write" /\ Finish(w)
      /\ UNCHANGED <<line, ordered, excused, edits, sales>>
  BY DEF Delete
<1>2. left \in ProductRow /\ left.status = "deleted"
  BY Records DEF Absent, ProductRow
<1>3. /\ product' = [p \in Products |-> IF p \in gone /\ Exists(p) THEN left ELSE product[p]]
      /\ log' = [p \in Products |-> IF p \in gone THEN 0 ELSE log[p]]
  BY DEF Delete
<1>4. /\ editor' \in [CatalogWorkers -> EditorState]
      /\ seen' \in [CatalogWorkers -> [Products -> ProductRow]]
      /\ editor'[w].pc = "idle" /\ EditorKnown(editor'[w])
      /\ \A x \in CatalogWorkers \ {w} : editor'[x] = editor[x]
  BY <1>1, EditorFinishes
<1>. HIDE DEF gone, left
<1>5. CatalogTyped'
  <2>1. /\ product' \in [Products -> ProductRow] /\ log' \in [Products -> Int]
        /\ line' \in [Products -> [row : Nat, variant : Nat]] /\ ordered' \subseteq Products
        /\ excused' \subseteq Products /\ edits' \in 0..MaxEdits /\ sales' \in 0..MaxSales
    BY <1>1, <1>2, <1>3 DEF CatalogTyped
  <2>. QED
    BY <1>4, <2>1, DatabaseTyped
<1>6. \A p \in Products : product'[p].status = "absent" =>
          product[p].status = "absent" /\ log'[p] = 0 /\ line'[p] = [row |-> 0, variant |-> 0]
  BY <1>1, <1>2, <1>3 DEF AbsentUntouched, Untouched
<1>7. ASSUME NEW p \in Products
      PROVE  \/ product'[p].status \notin {"draft", "published"} \/ p \in excused'
             \/ /\ Exists(p)
                /\ \E d \in Int : log'[p] = log[p] + d /\ product'[p].stock = product[p].stock + d
  <2>1. CASE p \in gone
    BY <1>2, <1>3, <2>1 DEF Exists
  <2>2. CASE p \notin gone
    <3>1. log'[p] = log[p] + 0 /\ product'[p].stock = product[p].stock + 0
      BY <1>3, <2>2 DEF CatalogTyped, ProductRow
    <3>. QED
      BY <1>3, <2>2, <3>1 DEF Exists
  <2>. QED
    BY <2>1, <2>2
<1>. QED
  BY <1>1, <1>4, <1>5, <1>6, <1>7, QuietStep

\* A copy starts without stock, and nothing logged.
LEMMA DuplicateInv ==
  ASSUME CatalogInv, NEW w \in CatalogWorkers, Duplicate(w)
  PROVE  CatalogInv'
<1>. USE DEF CatalogInv
<1>. DEFINE Copied(p) == [seen[w][p] EXCEPT !.status = "draft", !.stock = 0,
                                   !.variant = IF @ = NoVariant THEN @ ELSE 0]
<1>1. /\ editor[w].pc = "write" /\ editor[w].op.kind = "duplicate" /\ Finish(w)
      /\ UNCHANGED <<log, line, ordered, excused, edits, sales>>
  BY DEF Duplicate
<1>2. editor[w].op \in Edits /\ editor[w].op.ids \subseteq Products /\ editor[w].op.copy \in Products
  <2>1. editor[w].op \in Edits
    BY <1>1 DEF EditorsKnow, EditorKnown
  <2>2. Valid(editor[w].op)
    BY <2>1, CatalogAssumption
  <2>. QED
    BY <1>1, <2>1, <2>2 DEF Valid
<1>3. CASE UNCHANGED product
  BY <1>1, <1>3, FinishInv DEF catalogDb
<1>4. CASE /\ product[editor[w].op.copy].status = "absent"
           /\ \E p \in editor[w].op.ids : product' = [product EXCEPT ![editor[w].op.copy] = Copied(p)]
  <2>1. PICK p \in Products : product' = [product EXCEPT ![editor[w].op.copy] = Copied(p)]
    BY <1>2, <1>4
  <2>2. PICK c \in Products : c = editor[w].op.copy
    BY <1>2
  <2>3. seen[w][p] \in ProductRow
    BY DEF CatalogTyped
  <2>4. Copied(p) \in ProductRow /\ Copied(p).status = "draft" /\ Copied(p).stock = 0
    <3>1. PICK v \in {NoVariant, 0} :
              v = IF seen[w][p].variant = NoVariant THEN seen[w][p].variant ELSE 0
      OBVIOUS
    <3>2. Copied(p) = Reset(seen[w][p], "draft", 0, v)
      BY <3>1 DEF Reset
    <3>. HIDE DEF Copied
    <3>3. 0 \in Int /\ v \in Int \cup {NoVariant}
      OBVIOUS
    <3>. QED
      BY <2>3, <3>2, <3>3, ResetRow
  <2>. HIDE DEF Copied
  <2>5. \A q \in Products : product'[q] = IF q = c THEN Copied(p) ELSE product[q]
    BY <2>1, <2>2 DEF CatalogTyped
  <2>6. product' \in [Products -> ProductRow]
    BY <2>1, <2>4 DEF CatalogTyped
  <2>7. /\ editor' \in [CatalogWorkers -> EditorState]
        /\ seen' \in [CatalogWorkers -> [Products -> ProductRow]]
        /\ editor'[w].pc = "idle" /\ EditorKnown(editor'[w])
        /\ \A x \in CatalogWorkers \ {w} : editor'[x] = editor[x]
    BY <1>1, EditorFinishes
  <2>8. CatalogTyped'
    <3>1. /\ log' \in [Products -> Int] /\ line' \in [Products -> [row : Nat, variant : Nat]]
          /\ ordered' \subseteq Products /\ excused' \subseteq Products
          /\ edits' \in 0..MaxEdits /\ sales' \in 0..MaxSales
      BY <1>1 DEF CatalogTyped
    <3>. QED
      BY <2>6, <2>7, <3>1, DatabaseTyped
  <2>9. \A q \in Products : product'[q].status = "absent" =>
            product[q].status = "absent" /\ log'[q] = 0 /\ line'[q] = [row |-> 0, variant |-> 0]
    BY <1>1, <2>4, <2>5 DEF AbsentUntouched, Untouched
  <2>10. ASSUME NEW q \in Products
         PROVE  \/ product'[q].status \notin {"draft", "published"}
                \/ product[q].status = "absent" /\ log'[q] = 0 /\ product'[q].stock = 0
                \/ /\ Exists(q)
                   /\ \E d \in Int : log'[q] = log[q] + d /\ product'[q].stock = product[q].stock + d
    <3>1. CASE q = c
      <4>1. product[q].status = "absent" /\ product'[q].stock = 0
        BY <1>4, <2>2, <2>4, <2>5, <3>1
      <4>2. log'[q] = 0
        BY <1>1, <4>1 DEF AbsentUntouched, Untouched
      <4>. QED
        BY <4>1, <4>2
    <3>2. CASE q # c
      <4>1. log[q] \in Int /\ product[q].stock \in Int
        BY DEF CatalogTyped, ProductRow
      <4>2. product'[q] = product[q] /\ log'[q] = log[q]
        BY <1>1, <2>5, <3>2
      <4>3. log'[q] = log[q] + 0 /\ product'[q].stock = product[q].stock + 0
        BY <4>1, <4>2
      <4>. QED
        BY <4>2, <4>3 DEF Exists
    <3>. QED
      BY <3>1, <3>2
  <2>. QED
    BY <1>1, <2>7, <2>8, <2>9, <2>10, QuietStep
<1>. QED
  BY <1>3, <1>4 DEF Duplicate
-----------------------------------------------------------------------------
(* Steps that start or end the writing of an entry.                        *)

\* They leave a product alone whose entries are not concerned.
LEMMA NotConcerned ==
  ASSUME CatalogInv, NEW w \in CatalogWorkers, NEW p \in Products,
         \A x \in CatalogWorkers \ {w} : editor'[x] = editor[x],
         product'[p] = product[p], log'[p] = log[p], line'[p] = line[p],
         p \in excused => p \in excused',
         ~(editor[w].pc = "log" /\ p \in editor[w].op.ids),
         ~(editor'[w].pc = "log" /\ p \in editor'[w].op.ids)
  PROVE  Untouched(p)' /\ LeadsToStock(p)'
<1>1. Pending(p)' = Pending(p)
  BY DEF Pending
<1>2. \A x \in Pending(p) : Entries'[x] = Entries[x]
  BY DEF Pending, Entries
<1>3. Untouched(p)'
  BY <1>1 DEF CatalogInv, AbsentUntouched, Untouched
<1>4. CASE ~Exists(p) \/ p \in excused
  BY <1>3, <1>4 DEF LeadsToStock, Exists
<1>5. CASE Explains(log[p], product[p].stock, Pending(p), Entries)
  <2>1. Explains(log'[p], product'[p].stock, Pending(p)', Entries')
    BY <1>1, <1>2, <1>5, AddsSame
  <2>. QED
    BY <1>3, <2>1 DEF LeadsToStock
<1>. QED
  BY <1>3, <1>4, <1>5 DEF CatalogInv, Explained, LeadsToStock

\* The invariant, product by product.
LEMMA EntryStep ==
  ASSUME CatalogInv, CatalogTyped', NEW w \in CatalogWorkers, EditorKnown(editor'[w]),
         \A x \in CatalogWorkers \ {w} : editor'[x] = editor[x],
         \A p \in Products : Untouched(p)' /\ LeadsToStock(p)'
  PROVE  CatalogInv'
BY DEF CatalogInv, EditorsKnow, AbsentUntouched, Explained

\* An entry more: what leads to the stock before leads to the stock after.
LEMMA EntryStarts ==
  ASSUME CatalogInv, CatalogTyped', NEW w \in CatalogWorkers, NEW p \in Products,
         \A x \in CatalogWorkers \ {w} : editor'[x] = editor[x],
         editor[w].pc # "log", editor'[w].pc = "log", p \in editor'[w].op.ids,
         NEW before \in Int, Explains(log[p], before, Pending(p), Entries),
         log'[p] = log[p], product'[p].stock = before + editor'[w].entry
  PROVE  LeadsToStock(p)'
<1>1. w \notin Pending(p) /\ Pending(p)' = Pending(p) \cup {w}
  BY DEF Pending
<1>2. \A x \in Pending(p) : Entries'[x] = Entries[x]
  BY DEF Pending, Entries
<1>3. Entries'[w] = editor'[w].entry /\ Entries'[w] \in Int /\ log[p] \in Int
  BY DEF Entries, CatalogInv, CatalogTyped
<1>4. Explains(log[p], before, Pending(p), Entries')
  BY <1>2, AddsSame
<1>5. Explains(log[p], before + Entries'[w], Pending(p) \cup {w}, Entries')
  BY <1>1, <1>3, <1>4, AddsMore
<1>6. Explains(log'[p], product'[p].stock, Pending(p)', Entries')
  BY <1>1, <1>3, <1>5
<1>. QED
  BY <1>6 DEF LeadsToStock

\* A product appears, and its entry is next.
LEMMA CreateInv ==
  ASSUME CatalogInv, NEW w \in CatalogWorkers, Create(w)
  PROVE  CatalogInv'
<1>. USE DEF CatalogInv
<1>. DEFINE new == [Absent EXCEPT !.status = "published", !.stock = editor[w].op.value,
                                  !.variant = editor[w].op.variant]
            free == \A p \in editor[w].op.ids : product[p].status = "absent"
            step == IF editor[w].op.value > 0 THEN "log" ELSE "row"
            r == Moved(editor[w], step, editor[w].op.value)
<1>1. /\ editor[w].pc = "write" /\ editor[w].op.kind = "create"
      /\ UNCHANGED <<log, line, ordered, excused, edits, sales>>
  BY DEF Create
<1>2. /\ editor[w].op \in Edits /\ editor[w].op.ids \subseteq Products
      /\ editor[w].op.value \in Nat /\ editor[w].op.variant \in Nat \cup {NoVariant}
  <2>1. editor[w].op \in Edits
    BY <1>1 DEF EditorsKnow, EditorKnown
  <2>2. Valid(editor[w].op)
    BY <2>1, CatalogAssumption
  <2>. QED
    BY <1>1, <2>1, <2>2 DEF Valid
<1>3. CASE UNCHANGED product /\ Finish(w)
  BY <1>1, <1>3, FinishInv DEF catalogDb
<1>4. CASE /\ free
           /\ product' = [p \in Products |-> IF p \in editor[w].op.ids THEN new ELSE product[p]]
           /\ editor' = [editor EXCEPT ![w].pc = IF editor[w].op.value > 0 THEN "log" ELSE "row",
                                       ![w].entry = editor[w].op.value]
           /\ UNCHANGED seen
  <2>1. new \in ProductRow /\ new.status = "published" /\ new.stock = editor[w].op.value
    <3>1. editor[w].op.value \in Int /\ editor[w].op.variant \in Int \cup {NoVariant}
      BY <1>2
    <3>. QED
      BY <3>1, Records DEF Absent, ProductRow
  <2>2. editor' = [editor EXCEPT ![w] = r]
    BY <1>4 DEF Moved
  <2>3. /\ r \in EditorState /\ r.op = editor[w].op /\ r.todo = editor[w].todo
        /\ r.entry = editor[w].op.value
        /\ r.pc = IF editor[w].op.value > 0 THEN "log" ELSE "row"
    <3>1. editor[w] \in EditorState
      BY DEF CatalogTyped, EditorState
    <3>2. step \in {"row", "log"} /\ editor[w].op.value \in Int
      BY <1>2
    <3>. HIDE DEF step
    <3>3. /\ r \in EditorState /\ r.op = editor[w].op /\ r.todo = editor[w].todo
          /\ r.entry = editor[w].op.value /\ r.pc = step
      BY <3>1, <3>2, MovedRequest
    <3>. QED
      BY <3>3 DEF step
  <2>4. /\ editor' \in [CatalogWorkers -> EditorState] /\ editor'[w] = r
        /\ \A x \in CatalogWorkers \ {w} : editor'[x] = editor[x]
    <3>. HIDE DEF r
    <3>. QED
      BY <2>2, <2>3, EditorMoves
  <2>. HIDE DEF r, new
  <2>5. CatalogTyped'
    <3>1. product' \in [Products -> ProductRow]
      BY <1>4, <2>1 DEF CatalogTyped
    <3>2. /\ seen' \in [CatalogWorkers -> [Products -> ProductRow]]
          /\ log' \in [Products -> Int] /\ line' \in [Products -> [row : Nat, variant : Nat]]
          /\ ordered' \subseteq Products /\ excused' \subseteq Products
          /\ edits' \in 0..MaxEdits /\ sales' \in 0..MaxSales
      BY <1>1, <1>4 DEF CatalogTyped
    <3>. QED
      BY <2>4, <3>1, <3>2, DatabaseTyped
  <2>6. EditorKnown(editor'[w])
    BY <1>1, <1>2, <2>3, <2>4 DEF EditorsKnow, EditorKnown
  <2>7. ASSUME NEW p \in Products PROVE Untouched(p)' /\ LeadsToStock(p)'
    <3>1. CASE p \notin editor[w].op.ids
      <4>1. product'[p] = product[p]
        BY <1>4, <3>1
      <4>. QED
        BY <1>1, <2>3, <2>4, <3>1, <4>1, NotConcerned
    <3>2. CASE p \in editor[w].op.ids
      <4>1. product'[p].status = "published" /\ product'[p].stock = editor[w].op.value
        BY <1>4, <2>1, <3>2
      <4>2. product[p].status = "absent"
        BY <1>4, <3>2
      <4>3. log[p] = 0 /\ Pending(p) = {}
        BY <4>2 DEF AbsentUntouched, Untouched
      <4>4. Untouched(p)'
        BY <4>1 DEF Untouched
      <4>5. CASE editor[w].op.value > 0
        <5>1. Explains(log[p], 0, Pending(p), Entries)
          BY <4>3, AddsNone
        <5>2. product'[p].stock = 0 + editor'[w].entry
          BY <1>2, <2>3, <2>4, <4>1
        <5>3. editor'[w].pc = "log" /\ p \in editor'[w].op.ids
          BY <2>3, <2>4, <3>2, <4>5
        <5>4. LeadsToStock(p)'
          BY <1>1, <2>4, <2>5, <5>1, <5>2, <5>3, EntryStarts
        <5>. QED
          BY <4>4, <5>4
      <4>6. CASE ~(editor[w].op.value > 0)
        <5>1. log'[p] = 0 /\ product'[p].stock = 0
          BY <1>1, <1>2, <4>1, <4>3, <4>6
        <5>2. editor'[w].pc = "row"
          BY <2>3, <2>4, <4>6
        <5>3. Pending(p)' = {}
          BY <2>4, <4>3, <5>2 DEF Pending
        <5>4. Explains(log'[p], product'[p].stock, Pending(p)', Entries')
          BY <5>1, <5>3, AddsNone
        <5>. QED
          BY <4>4, <5>4 DEF LeadsToStock
      <4>. QED
        BY <4>5, <4>6
    <3>. QED
      BY <3>1, <3>2
  <2>. QED
    BY <2>4, <2>5, <2>6, <2>7, EntryStep
<1>. QED
  BY <1>3, <1>4 DEF Create

\* The entry is written, unless its product is gone.
LEMMA WriteLogInv ==
  ASSUME CatalogInv, NEW w \in CatalogWorkers, WriteLog(w)
  PROVE  CatalogInv'
<1>. USE DEF CatalogInv
<1>. DEFINE r == Moved(editor[w], "row", 0)
<1>1. /\ editor[w].pc = "log" /\ editor' = [editor EXCEPT ![w] = r]
      /\ log' = [p \in Products |-> IF p \in editor[w].op.ids /\ Exists(p)
                                  THEN log[p] + editor[w].entry ELSE log[p]]
      /\ UNCHANGED <<product, line, ordered, seen, excused, edits, sales>>
  BY DEF WriteLog, Moved
<1>2. /\ r \in EditorState /\ r.op = editor[w].op /\ r.todo = editor[w].todo /\ r.pc = "row"
  <2>1. editor[w] \in EditorState
    BY DEF CatalogTyped, EditorState
  <2>. QED
    BY <2>1, MovedRequest
<1>. HIDE DEF r
<1>3. /\ editor' \in [CatalogWorkers -> EditorState] /\ editor'[w] = r
      /\ \A x \in CatalogWorkers \ {w} : editor'[x] = editor[x]
  BY <1>1, <1>2, EditorMoves
<1>4. \A p \in Products : log[p] \in Int /\ product[p].stock \in Int
  BY DEF CatalogTyped, ProductRow
<1>5. \A x \in CatalogWorkers : Entries[x] = editor[x].entry /\ Entries[x] \in Int
  BY DEF Entries, CatalogTyped
<1>6. CatalogTyped'
  <2>1. log' \in [Products -> Int]
    BY <1>1, <1>4, <1>5
  <2>2. /\ product' \in [Products -> ProductRow] /\ seen' \in [CatalogWorkers -> [Products -> ProductRow]]
        /\ line' \in [Products -> [row : Nat, variant : Nat]]
        /\ ordered' \subseteq Products /\ excused' \subseteq Products
        /\ edits' \in 0..MaxEdits /\ sales' \in 0..MaxSales
    BY <1>1 DEF CatalogTyped
  <2>. QED
    BY <1>3, <2>1, <2>2, DatabaseTyped
<1>7. EditorKnown(editor'[w])
  BY <1>1, <1>2, <1>3 DEF EditorsKnow, EditorKnown
<1>8. ASSUME NEW p \in Products PROVE Untouched(p)' /\ LeadsToStock(p)'
  <2>1. CASE p \notin editor[w].op.ids
    <3>1. log'[p] = log[p]
      BY <1>1, <2>1
    <3>. QED
      BY <1>1, <1>2, <1>3, <2>1, <3>1, NotConcerned
  <2>2. CASE p \in editor[w].op.ids
    <3>1. w \in Pending(p)
      BY <1>1, <2>2 DEF Pending
    <3>2. product[p].status # "absent"
      BY <3>1 DEF AbsentUntouched, Untouched
    <3>3. Untouched(p)'
      BY <1>1, <3>2 DEF Untouched
    <3>4. CASE ~Exists(p) \/ p \in excused
      BY <1>1, <3>3, <3>4 DEF LeadsToStock, Exists
    <3>5. CASE Exists(p) /\ Explains(log[p], product[p].stock, Pending(p), Entries)
      <4>1. \A x \in Pending(p) : Entries[x] \in Int
        BY <1>5 DEF Pending
      <4>2. Explains(log[p] + Entries[w], product[p].stock, Pending(p) \ {w}, Entries)
        BY <1>4, <3>1, <3>5, <4>1, AddsLess
      <4>3. Pending(p)' = Pending(p) \ {w}
        BY <1>2, <1>3 DEF Pending
      <4>4. \A x \in Pending(p) \ {w} : Entries'[x] = Entries[x]
        BY <1>3 DEF Pending, Entries
      <4>5. log'[p] = log[p] + Entries[w] /\ product'[p] = product[p]
        BY <1>1, <1>5, <2>2, <3>5
      <4>6. Explains(log[p] + Entries[w], product[p].stock, Pending(p) \ {w}, Entries')
        BY <4>2, <4>4, AddsSame
      <4>7. Explains(log'[p], product'[p].stock, Pending(p)', Entries')
        BY <4>3, <4>5, <4>6
      <4>. QED
        BY <3>3, <4>7 DEF LeadsToStock
    <3>. QED
      BY <3>4, <3>5 DEF Explained, LeadsToStock
  <2>. QED
    BY <2>1, <2>2
<1>. QED
  BY <1>3, <1>6, <1>7, <1>8, EntryStep

\* One row of a file is written, and its entry is next.
LEMMA ImportRowInv ==
  ASSUME CatalogInv, NEW w \in CatalogWorkers, ImportRow(w)
  PROVE  CatalogInv'
<1>. USE DEF CatalogInv
<1>1. /\ editor[w].pc = "row" /\ editor[w].todo # <<>> /\ editor[w] \in EditorState
      /\ UNCHANGED <<log, ordered, seen, edits, sales>>
  BY DEF ImportRow, CatalogTyped, EditorState
<1>2. PICK row \in FileRow : row = Head(editor[w].todo)
  BY <1>1 DEF EditorState
<1>3. PICK p \in Products : p = row.sku
  BY DEF FileRow
<1>4. editor[w].op \in Imports /\ Tail(editor[w].todo) \in Seq(FileRow)
  BY <1>1 DEF EditorsKnow, EditorKnown, EditorState
<1>. DEFINE known == seen[w][p].status \in {"draft", "published"}
            before == IF known THEN seen[w][p].stock ELSE 0
            new == [product[p] EXCEPT !.status = row.status, !.stock = row.stock,
                                      !.price = row.price, !.variant = IfGiven(row.variant, @)]
            writes == /\ ProductStore[p] = IF editor[w].actor = Admin THEN row.store
                                           ELSE editor[w].actor
                      /\ IF known THEN Exists(p) ELSE product[p].status = "absent"
            logs == writes /\ IF known THEN row.stock # before ELSE row.stock > 0
            r == [editor[w] EXCEPT !.todo = Tail(@), !.op.ids = {p},
                          !.entry = IF writes THEN row.stock - before ELSE 0,
                          !.pc = IF logs THEN "log" ELSE "row"]
<1>5. /\ editor' = [editor EXCEPT ![w] = r]
      /\ product' = IF writes THEN [product EXCEPT ![p] = new] ELSE product
      /\ line' = IF writes /\ row.variant # Keep THEN Detach({p}, line) ELSE line
      /\ excused' = IF writes /\ (IF known THEN product[p].stock # before ELSE row.stock < 0)
                    THEN excused \cup {p} ELSE excused
  <2>1. editor' = [editor EXCEPT ![w] = r]
    BY <1>2, <1>3 DEF ImportRow
  <2>2. product' = IF writes THEN [product EXCEPT ![p] = new] ELSE product
    BY <1>2, <1>3 DEF ImportRow
  <2>3. line' = IF writes /\ row.variant # Keep THEN Detach({p}, line) ELSE line
    BY <1>2, <1>3 DEF ImportRow
  <2>4. excused' = IF writes /\ (IF known THEN product[p].stock # before ELSE row.stock < 0)
                   THEN excused \cup {p} ELSE excused
    BY <1>2, <1>3 DEF ImportRow
  <2>. QED
    BY <2>1, <2>2, <2>3, <2>4
<1>6. product[p] \in ProductRow /\ seen[w][p] \in ProductRow /\ before \in Int /\ row.stock \in Int
  <2>1. product[p] \in ProductRow /\ seen[w][p] \in ProductRow
    BY DEF CatalogTyped
  <2>2. row.stock \in Int
    BY DEF FileRow
  <2>. QED
    BY <2>1, <2>2 DEF ProductRow
<1>7. new \in ProductRow /\ new.status \in {"draft", "published"} /\ new.stock = row.stock
  <2>1. IfGiven(row.variant, product[p].variant) \in Int \cup {NoVariant}
    BY <1>6 DEF IfGiven, FileRow, ProductRow
  <2>2. row.status \in {"draft", "published"} /\ row.price \in Int
    BY DEF FileRow
  <2>. QED
    BY <1>6, <2>1, <2>2 DEF ProductRow
<1>8. /\ r \in EditorState /\ r.op.ids = {p} /\ r.op \in Imports
      /\ r.entry = IF writes THEN row.stock - before ELSE 0
      /\ r.pc = IF logs THEN "log" ELSE "row"
  <2>1. PICK n \in Int : n = IF writes THEN row.stock - before ELSE 0
    BY <1>6
  <2>2. PICK c \in {"row", "log"} : c = IF logs THEN "log" ELSE "row"
    OBVIOUS
  <2>3. r = [editor[w] EXCEPT !.todo = Tail(@), !.op.ids = {p}, !.entry = n, !.pc = c]
    BY <2>1, <2>2
  <2>. HIDE DEF known, before, new, writes, logs
  <2>4. [editor[w].op EXCEPT !.ids = {p}] \in Imports /\ [editor[w].op EXCEPT !.ids = {p}].ids = {p}
    BY <1>4 DEF Imports
  <2>. DEFINE o == [editor[w].op EXCEPT !.ids = {p}]
              u == [editor[w] EXCEPT !.todo = Tail(@), !.op = o, !.entry = n, !.pc = c]
  <2>5. r = u
    BY <1>1, <2>3 DEF EditorState
  <2>. HIDE DEF o
  <2>6. o \in Imports
    BY <2>4 DEF o
  <2>7. u \in EditorState /\ u.op = o /\ u.entry = n /\ u.pc = c
    BY <1>1, <1>4, <2>6 DEF EditorState
  <2>. QED
    BY <2>1, <2>2, <2>4, <2>5, <2>7 DEF o
<1>. HIDE DEF new, r
<1>9. /\ editor' \in [CatalogWorkers -> EditorState] /\ editor'[w] = r
      /\ \A x \in CatalogWorkers \ {w} : editor'[x] = editor[x]
  BY <1>5, <1>8, EditorMoves
<1>10. \A q \in Products : q # p => product'[q] = product[q] /\ line'[q] = line[q]
  BY <1>5 DEF Detach, CatalogTyped
<1>11. excused \subseteq excused' /\ excused' \subseteq Products
  BY <1>5 DEF CatalogTyped
<1>12. CatalogTyped'
  <2>1. product' \in [Products -> ProductRow]
    BY <1>5, <1>7 DEF CatalogTyped
  <2>2. line' \in [Products -> [row : Nat, variant : Nat]]
    BY <1>5 DEF Detach, CatalogTyped
  <2>3. /\ seen' \in [CatalogWorkers -> [Products -> ProductRow]] /\ log' \in [Products -> Int]
        /\ ordered' \subseteq Products /\ edits' \in 0..MaxEdits /\ sales' \in 0..MaxSales
    BY <1>1 DEF CatalogTyped
  <2>. QED
    BY <1>9, <1>11, <2>1, <2>2, <2>3, DatabaseTyped
<1>13. EditorKnown(editor'[w])
  BY <1>8, <1>9 DEF EditorKnown
<1>14. ASSUME NEW q \in Products PROVE Untouched(q)' /\ LeadsToStock(q)'
  <2>1. CASE q # p
    BY <1>1, <1>8, <1>9, <1>10, <1>11, <2>1, NotConcerned
  <2>2. CASE q = p /\ ~writes
    <3>1. product' = product /\ line' = line /\ r.pc = "row"
      BY <1>5, <1>8, <2>2
    <3>. HIDE DEF writes, logs
    <3>. QED
      BY <1>1, <1>9, <1>11, <2>2, <3>1, NotConcerned
  <2>3. CASE q = p /\ writes
    <3>1. product'[p] = new /\ log'[p] = log[p]
      BY <1>1, <1>5, <2>3 DEF CatalogTyped
    <3>2. Untouched(p)'
      BY <1>7, <3>1 DEF Untouched
    <3>3. CASE p \in excused'
      BY <2>3, <3>2, <3>3 DEF LeadsToStock
    <3>4. CASE p \notin excused'
      <4>1. Explains(log[p], before, Pending(p), Entries)
        <5>1. CASE known
          <6>1. Exists(p) /\ product[p].stock = before /\ p \notin excused
            BY <1>5, <2>3, <3>4, <5>1
          <6>. QED
            BY <6>1 DEF Explained, LeadsToStock
        <5>2. CASE ~known
          <6>1. log[p] = 0 /\ Pending(p) = {} /\ before = 0
            BY <2>3, <5>2 DEF AbsentUntouched, Untouched
          <6>. QED
            BY <6>1, AddsNone
        <5>. QED
          BY <5>1, <5>2
      <4>2. product'[p].stock = before + r.entry
        BY <1>6, <1>7, <1>8, <2>3, <3>1
      <4>0. logs <=> row.stock # before
        BY <1>5, <1>6, <2>3, <3>4
      <4>3. CASE row.stock # before
        <5>1. r.pc = "log"
          BY <1>8, <4>0, <4>3
        <5>. HIDE DEF before, known, writes, logs
        <5>2. LeadsToStock(p)'
          BY <1>1, <1>6, <1>8, <1>9, <1>12, <3>1, <4>1, <4>2, <5>1, EntryStarts
        <5>. QED
          BY <2>3, <3>2, <5>2
      <4>4. CASE row.stock = before
        <5>1. r.pc = "row" /\ product'[p].stock = before
          BY <1>7, <1>8, <3>1, <4>0, <4>4
        <5>. HIDE DEF before, known, writes, logs
        <5>2. Pending(p)' = Pending(p)
          BY <1>1, <1>9, <5>1 DEF Pending
        <5>3. \A x \in Pending(p) : Entries'[x] = Entries[x]
          BY <1>1, <1>9 DEF Pending, Entries
        <5>4. Explains(log'[p], product'[p].stock, Pending(p)', Entries')
          BY <3>1, <4>1, <5>1, <5>2, <5>3, AddsSame
        <5>. QED
          BY <2>3, <3>2, <5>4 DEF LeadsToStock
      <4>. QED
        BY <4>3, <4>4
    <3>. QED
      BY <3>3, <3>4
  <2>. QED
    BY <2>1, <2>2, <2>3
<1>. QED
  BY <1>9, <1>12, <1>13, <1>14, EntryStep

\* A request dies; the entry it had to write is never written.
LEMMA AbandonEditInv ==
  ASSUME CatalogInv, NEW w \in CatalogWorkers, AbandonEdit(w)
  PROVE  CatalogInv'
<1>. USE DEF CatalogInv
<1>1. /\ Finish(w) /\ UNCHANGED catalogDb /\ UNCHANGED <<edits, sales>>
      /\ excused' = IF editor[w].pc = "log" THEN excused \cup editor[w].op.ids ELSE excused
  BY DEF AbandonEdit
<1>2. CASE editor[w].pc # "log"
  BY <1>1, <1>2, FinishInv
<1>3. CASE editor[w].pc = "log"
  <2>1. /\ editor' \in [CatalogWorkers -> EditorState]
        /\ seen' \in [CatalogWorkers -> [Products -> ProductRow]]
        /\ editor'[w].pc = "idle" /\ EditorKnown(editor'[w])
        /\ \A x \in CatalogWorkers \ {w} : editor'[x] = editor[x]
    BY <1>1, EditorFinishes
  <2>2. UNCHANGED <<product, log, line, ordered>>
    BY <1>1 DEF catalogDb
  <2>3. editor[w].op.ids \subseteq Products
    BY <1>3 DEF EditorsKnow, EditorKnown
  <2>4. CatalogTyped'
    <3>1. /\ product' \in [Products -> ProductRow] /\ log' \in [Products -> Int]
          /\ line' \in [Products -> [row : Nat, variant : Nat]]
          /\ ordered' \subseteq Products /\ excused' \subseteq Products
          /\ edits' \in 0..MaxEdits /\ sales' \in 0..MaxSales
      BY <1>1, <1>3, <2>2, <2>3 DEF CatalogTyped
    <3>. QED
      BY <2>1, <3>1, DatabaseTyped
  <2>5. ASSUME NEW p \in Products PROVE Untouched(p)' /\ LeadsToStock(p)'
    <3>1. CASE p \notin editor[w].op.ids
      BY <1>1, <1>3, <2>1, <2>2, <3>1, NotConcerned
    <3>2. CASE p \in editor[w].op.ids
      <4>1. product[p].status # "absent"
        BY <1>3, <3>2 DEF AbsentUntouched, Untouched, Pending
      <4>2. p \in excused'
        BY <1>1, <1>3, <3>2
      <4>. QED
        BY <2>2, <4>1, <4>2 DEF Untouched, LeadsToStock
    <3>. QED
      BY <3>1, <3>2
  <2>. QED
    BY <2>1, <2>4, <2>5, EntryStep
<1>. QED
  BY <1>2, <1>3

\* Every step preserves the invariant.
LEMMA CatalogNextInv == CatalogInv /\ VariantsRead /\ [CatalogNext]_CatalogVars => CatalogInv'
<1>. SUFFICES ASSUME CatalogInv, VariantsRead, [CatalogNext]_CatalogVars PROVE CatalogInv'
  OBVIOUS
<1>1. CASE UNCHANGED CatalogVars
  <2>1. \A p \in Products : Pending(p)' = Pending(p)
    BY <1>1 DEF Pending, CatalogVars
  <2>2. Entries' = Entries
    BY <1>1 DEF Entries, CatalogVars
  <2>3. \A p \in Products : Untouched(p)' /\ LeadsToStock(p)'
    BY <1>1, <2>1, <2>2
       DEF CatalogInv, AbsentUntouched, Explained, Untouched, LeadsToStock, Exists, CatalogVars
  <2>4. CatalogTyped' /\ EditorsKnow'
    BY <1>1 DEF CatalogInv, CatalogTyped, EditorsKnow, CatalogVars
  <2>. QED
    BY <2>3, <2>4 DEF CatalogInv, AbsentUntouched, Explained
<1>2. CASE Trade
  BY <1>2, TradeInv
<1>3. ASSUME NEW w \in CatalogWorkers,
             \/ Ask(w) \/ ReadVariant(w) \/ WriteEdit(w) \/ Delete(w) \/ Duplicate(w)
             \/ Create(w) \/ WriteLog(w) \/ ImportRow(w) \/ EndEdit(w) \/ AbandonEdit(w)
      PROVE  CatalogInv'
  BY <1>3, AskInv, ReadVariantInv, WriteEditInv, DeleteInv, DuplicateInv, CreateInv,
     WriteLogInv, ImportRowInv, EndEditInv, AbandonEditInv
<1>. QED
  BY <1>1, <1>2, <1>3 DEF CatalogNext
-----------------------------------------------------------------------------
(* What is below zero comes from files.                                    *)

\* A row read, or none.
LEMMA SignsRead ==
    /\ NoNegatives(Absent)
    /\ \A ids : \A p \in Products : NoNegatives(product[p]) => NoNegatives(Saw(ids)[p])
BY DEF NoNegatives, Absent, Saw

\* A request that is answered has read nothing.
LEMMA SignsForgotten ==
  ASSUME CatalogTyped, NEW w \in CatalogWorkers, Finish(w)
  PROVE  /\ editor'[w].pc = "idle"
         /\ \A p \in Products : NoNegatives(seen'[w][p])
         /\ \A x \in CatalogWorkers \ {w} : editor'[x] = editor[x] /\ seen'[x] = seen[x]
<1>1. editor'[w] = Idle /\ seen'[w] = NothingSeen
  BY DEF Finish, CatalogTyped
<1>. QED
  BY <1>1, Records, SignsRead DEF Finish, CatalogTyped, NothingSeen

\* A step that keeps the signs of the products, and of what one request reads.
LEMMA SignsKept ==
  ASSUME SignInv, belowZero \subseteq belowZero', belowZero' \subseteq Products,
         \A p \in Products \ belowZero' : NoNegatives(product'[p]),
         NEW w,
         \A x \in CatalogWorkers \ {w} : editor'[x] = editor[x] /\ seen'[x] = seen[x],
         w \in CatalogWorkers => \A p \in Products \ belowZero' : NoNegatives(seen'[w][p]),
         w \in CatalogWorkers /\ editor'[w].pc = "write" /\ editor'[w].op.kind = "variant"
            => \A p \in editor'[w].op.ids : seen'[w][p].variant # NoVariant
  PROVE  SignInv'
<1>1. VariantsRead'
  BY DEF SignInv, VariantsRead
<1>2. BelowZeroFromFiles'
  BY DEF SignInv, BelowZeroFromFiles
<1>. QED
  BY <1>1, <1>2 DEF SignInv

\* Sales take only what is there.
LEMMA TradeSigns ==
  ASSUME CatalogInv, SignInv, Trade
  PROVE  SignInv'
<1>. USE DEF CatalogInv
<1>1. UNCHANGED <<editor, seen, belowZero>>
  BY DEF Trade
<1>2. PICK q \in Products : SellRow(q) \/ SellVariant(q) \/ RestockRow(q) \/ RestockVariant(q)
  BY DEF Trade
<1>3. ASSUME NEW p \in Products \ belowZero PROVE NoNegatives(product'[p])
  <2>1. NoNegatives(product[p]) /\ product[p] \in ProductRow /\ product[q] \in ProductRow
    BY DEF SignInv, BelowZeroFromFiles, CatalogTyped
  <2>2. CASE p # q
    BY <1>2, <2>1, <2>2 DEF SellRow, SellVariant, RestockRow, RestockVariant, CatalogTyped
  <2>3. CASE p = q /\ SellRow(q)
    <3>1. product'[p] = [product[p] EXCEPT !.stock = @ - 1] /\ product[p].stock > 0
      BY <2>3 DEF SellRow, CatalogTyped
    <3>. QED
      BY <2>1, <3>1 DEF NoNegatives, ProductRow
  <2>4. CASE p = q /\ SellVariant(q)
    <3>1. /\ product'[p] = [product[p] EXCEPT !.variant = @ - 1]
          /\ product[p].variant # NoVariant /\ product[p].variant > 0
      BY <2>4 DEF SellVariant, CatalogTyped
    <3>. QED
      BY <2>1, <3>1 DEF NoNegatives, ProductRow
  <2>5. CASE p = q /\ RestockRow(q)
    <3>1. product'[p] = [product[p] EXCEPT !.stock = @ + 1]
      BY <2>5 DEF RestockRow, CatalogTyped
    <3>. QED
      BY <2>1, <3>1 DEF NoNegatives, ProductRow
  <2>6. CASE p = q /\ RestockVariant(q)
    <3>1. /\ product'[p] = [product[p] EXCEPT !.variant = @ + 1]
          /\ product[p].variant # NoVariant
      BY <2>6 DEF RestockVariant, CatalogTyped
    <3>. QED
      BY <2>1, <3>1 DEF NoNegatives, ProductRow
  <2>. QED
    BY <1>2, <2>2, <2>3, <2>4, <2>5, <2>6
<1>4. belowZero' \subseteq Products
  BY <1>1 DEF SignInv, BelowZeroFromFiles
<1>. QED
  BY <1>1, <1>3, <1>4 DEF SignInv, VariantsRead, BelowZeroFromFiles

\* The new row of an edit, and the row of a new product.
LEMMA EditSigns ==
  ASSUME CatalogInv, SignInv, NEW w \in CatalogWorkers, WriteEdit(w)
  PROVE  SignInv'
<1>. USE DEF CatalogInv
<1>. DEFINE rows == {p \in editor[w].op.ids : Exists(p)}
<1>1. /\ editor[w].pc = "write" /\ editor[w].op.kind \notin {"create", "delete", "duplicate"}
      /\ Finish(w) /\ UNCHANGED belowZero
      /\ \/ UNCHANGED product
         \/ product' = [p \in Products |-> IF p \in rows
                           THEN Written(editor[w].op, seen[w][p], product[p]) ELSE product[p]]
  BY DEF WriteEdit
<1>2. editor[w].op \in Edits /\ editor[w].op.kind # "import"
  BY <1>1 DEF EditorsKnow, EditorKnown
<1>3. ASSUME NEW p \in Products \ belowZero PROVE NoNegatives(product'[p])
  <2>1. /\ NoNegatives(product[p]) /\ NoNegatives(seen[w][p])
        /\ product[p] \in ProductRow /\ seen[w][p] \in ProductRow
    BY DEF SignInv, BelowZeroFromFiles, CatalogTyped
  <2>2. CASE p \in rows /\ product'[p] = Written(editor[w].op, seen[w][p], product[p])
    <3>1. PICK op \in Edits : op = editor[w].op
      BY <1>2
    <3>2. /\ op.kind \notin {"import", "create", "delete", "duplicate"}
          /\ op.kind = "variant" => seen[w][p].variant # NoVariant
      BY <1>1, <1>2, <2>2, <3>1 DEF SignInv, VariantsRead
    <3>3. product[p].status \in {"draft", "published"}
      BY <2>2 DEF Exists
    <3>. QED
      BY <2>1, <2>2, <3>1, <3>2, <3>3, WrittenRow
  <2>. QED
    BY <1>1, <2>1, <2>2
<1>4. belowZero' \subseteq Products
  BY <1>1 DEF SignInv, BelowZeroFromFiles
<1>. QED
  BY <1>1, <1>3, <1>4, SignsForgotten, SignsKept

LEMMA DeleteSigns ==
  ASSUME CatalogInv, SignInv, NEW w \in CatalogWorkers, Delete(w)
  PROVE  SignInv'
<1>1. Finish(w) /\ UNCHANGED belowZero
  BY DEF Delete
<1>2. ASSUME NEW p \in Products \ belowZero PROVE NoNegatives(product'[p])
  <2>1. NoNegatives(product[p])
    BY DEF SignInv, BelowZeroFromFiles
  <2>2. product'[p] \in {product[p], [Absent EXCEPT !.status = "deleted"]}
    BY DEF Delete
  <2>3. NoNegatives([Absent EXCEPT !.status = "deleted"])
    BY SignsRead DEF NoNegatives, Absent
  <2>. QED
    BY <2>1, <2>2, <2>3
<1>3. belowZero' \subseteq Products /\ CatalogTyped
  BY <1>1 DEF SignInv, BelowZeroFromFiles, CatalogInv
<1>. QED
  BY <1>1, <1>2, <1>3, SignsForgotten, SignsKept

\* A copy takes the price along, and with it where that comes from.
LEMMA DuplicateSigns ==
  ASSUME CatalogInv, SignInv, NEW w \in CatalogWorkers, Duplicate(w)
  PROVE  SignInv'
<1>. DEFINE Copied(p) == [seen[w][p] EXCEPT !.status = "draft", !.stock = 0,
                                   !.variant = IF @ = NoVariant THEN @ ELSE 0]
            c == editor[w].op.copy
<1>1. editor[w].pc = "write" /\ editor[w].op.kind = "duplicate" /\ Finish(w) /\ CatalogTyped
  BY DEF Duplicate, CatalogInv
<1>2. editor[w].op.ids \subseteq Products /\ c \in Products
  <2>1. editor[w].op \in Edits
    BY <1>1 DEF CatalogInv, EditorsKnow, EditorKnown
  <2>2. Valid(editor[w].op)
    BY <2>1, CatalogAssumption
  <2>. QED
    BY <1>1, <2>1, <2>2 DEF Valid
<1>3. /\ belowZero \subseteq Products
      /\ \A q \in Products \ belowZero : NoNegatives(product[q]) /\ NoNegatives(seen[w][q])
  BY DEF SignInv, BelowZeroFromFiles
<1>4. CASE UNCHANGED <<product, belowZero>>
  BY <1>1, <1>3, <1>4, SignsForgotten, SignsKept
<1>5. CASE \E p \in editor[w].op.ids :
              /\ product' = [product EXCEPT ![c] = Copied(p)]
              /\ belowZero' = IF seen[w][p].price < 0 THEN belowZero \cup {c} ELSE belowZero
  <2>1. PICK p \in Products :
              /\ product' = [product EXCEPT ![c] = Copied(p)]
              /\ belowZero' = IF seen[w][p].price < 0 THEN belowZero \cup {c} ELSE belowZero
    BY <1>2, <1>5
  <2>2. belowZero \subseteq belowZero' /\ belowZero' \subseteq Products
    BY <1>2, <1>3, <2>1
  <2>3. seen[w][p] \in ProductRow
    BY <1>1 DEF CatalogTyped
  <2>4. seen[w][p].price < 0 \/ NoNegatives(Copied(p))
    BY <2>3 DEF ProductRow, NoNegatives
  <2>. HIDE DEF Copied, c
  <2>5. ASSUME NEW q \in Products \ belowZero' PROVE NoNegatives(product'[q])
    <3>1. CASE q = c
      BY <1>1, <1>2, <2>1, <2>4, <3>1 DEF CatalogTyped
    <3>2. CASE q # c
      BY <1>1, <1>3, <2>1, <2>2, <3>2 DEF CatalogTyped
    <3>. QED
      BY <3>1, <3>2
  <2>. QED
    BY <1>1, <2>2, <2>5, SignsForgotten, SignsKept
<1>. QED
  BY <1>4, <1>5 DEF Duplicate

LEMMA CreateSigns ==
  ASSUME CatalogInv, SignInv, NEW w \in CatalogWorkers, Create(w)
  PROVE  SignInv'
<1>. DEFINE new == [Absent EXCEPT !.status = "published", !.stock = editor[w].op.value,
                                  !.variant = editor[w].op.variant]
<1>1. editor[w].pc = "write" /\ editor[w].op.kind = "create" /\ UNCHANGED belowZero /\ CatalogTyped
  BY DEF Create, CatalogInv
<1>2. editor[w].op.value \in Nat /\ editor[w].op.variant \in Nat \cup {NoVariant}
  <2>1. editor[w].op \in Edits
    BY <1>1 DEF CatalogInv, EditorsKnow, EditorKnown
  <2>2. Valid(editor[w].op)
    BY <2>1, CatalogAssumption
  <2>. QED
    BY <1>1, <2>1, <2>2 DEF Valid
<1>3. /\ belowZero \subseteq Products
      /\ \A q \in Products \ belowZero : NoNegatives(product[q]) /\ NoNegatives(seen[w][q])
  BY DEF SignInv, BelowZeroFromFiles
<1>4. CASE UNCHANGED product /\ Finish(w)
  BY <1>1, <1>3, <1>4, SignsForgotten, SignsKept
<1>5. CASE /\ product' = [p \in Products |-> IF p \in editor[w].op.ids THEN new ELSE product[p]]
           /\ editor' = [editor EXCEPT ![w].pc = IF editor[w].op.value > 0 THEN "log" ELSE "row",
                                       ![w].entry = editor[w].op.value]
           /\ UNCHANGED seen
  <2>1. NoNegatives(new)
    BY <1>2 DEF NoNegatives, Absent
  <2>. HIDE DEF new
  <2>2. \A p \in Products \ belowZero : NoNegatives(product'[p])
    BY <1>3, <1>5, <2>1
  <2>3. editor'[w].pc # "write" /\ \A x \in CatalogWorkers \ {w} : editor'[x] = editor[x]
    BY <1>1, <1>5 DEF CatalogTyped
  <2>. QED
    BY <1>1, <1>3, <1>5, <2>2, <2>3, SignsKept
<1>. QED
  BY <1>4, <1>5 DEF Create

\* A row of a file is the one step that may put a number below zero.
LEMMA ImportSigns ==
  ASSUME CatalogInv, SignInv, NEW w \in CatalogWorkers, ImportRow(w)
  PROVE  SignInv'
<1>1. editor[w].pc = "row" /\ editor[w].todo # <<>> /\ UNCHANGED seen /\ CatalogTyped
  BY DEF ImportRow, CatalogInv
<1>2. \E p \in Products : \E new :
          \/ UNCHANGED <<product, belowZero>>
          \/ /\ product' = [product EXCEPT ![p] = new]
             /\ belowZero' = IF ~NoNegatives(new) THEN belowZero \cup {p} ELSE belowZero
  <2>1. editor[w].todo \in Seq(FileRow)
    BY <1>1 DEF CatalogTyped
  <2>2. Head(editor[w].todo) \in FileRow
    BY <1>1, <2>1
  <2>3. Head(editor[w].todo).sku \in Products
    BY <2>2 DEF FileRow
  <2>. QED
    BY <2>3 DEF ImportRow
<1>3. /\ belowZero \subseteq Products
      /\ \A q \in Products \ belowZero : NoNegatives(product[q]) /\ NoNegatives(seen[w][q])
  BY DEF SignInv, BelowZeroFromFiles
<1>4. /\ belowZero \subseteq belowZero' /\ belowZero' \subseteq Products
      /\ \A q \in Products \ belowZero' : NoNegatives(product'[q])
  BY <1>1, <1>2, <1>3 DEF CatalogTyped
<1>5. editor'[w].pc # "write" /\ \A x \in CatalogWorkers \ {w} : editor'[x] = editor[x]
  BY <1>1 DEF ImportRow, CatalogTyped
<1>. QED
  BY <1>1, <1>3, <1>4, <1>5, SignsKept

\* A request is made; a correction of a variant is not written before it is read.
LEMMA AskSigns ==
  ASSUME CatalogInv, SignInv, NEW w \in CatalogWorkers, Ask(w)
  PROVE  SignInv'
<1>1. PICK a \in Actors, op \in Edits :
          IF op.kind = "import" THEN StartImport(w, a, op) ELSE StartEdit(w, a, op)
  BY DEF Ask
<1>2. UNCHANGED <<product, belowZero>> /\ CatalogTyped
  BY <1>1 DEF StartImport, StartEdit, catalogDb, CatalogInv
<1>3. \E ids : seen' = [seen EXCEPT ![w] = Saw(ids)]
  BY <1>1 DEF StartImport, StartEdit
<1>4. /\ \A x \in CatalogWorkers \ {w} : editor'[x] = editor[x]
      /\ editor'[w].pc = "write" => editor'[w].op.kind # "variant"
  <2>. DEFINE im == [Idle EXCEPT !.pc = "row", !.actor = a, !.todo = op.rows,
                                 !.op = [kind |-> "import", ids |-> {}]]
              ed == [Idle EXCEPT !.pc = IF op.kind = "variant" THEN "variant" ELSE "write",
                                 !.actor = a, !.op = op]
  <2>1. editor' = [editor EXCEPT ![w] = im] \/ editor' = [editor EXCEPT ![w] = ed]
    BY <1>1 DEF StartImport, StartEdit
  <2>2. im.pc = "row" /\ (ed.pc = "write" => ed.op.kind # "variant")
    BY DEF Idle
  <2>. HIDE DEF im, ed
  <2>. QED
    BY <1>2, <2>1, <2>2 DEF CatalogTyped
<1>5. /\ belowZero \subseteq Products
      /\ \A q \in Products \ belowZero : NoNegatives(product[q])
  BY DEF SignInv, BelowZeroFromFiles
<1>6. /\ \A x \in CatalogWorkers \ {w} : seen'[x] = seen[x]
      /\ \A q \in Products \ belowZero : NoNegatives(seen'[w][q])
  BY <1>2, <1>3, <1>5, SignsRead DEF CatalogTyped
<1>. QED
  BY <1>2, <1>4, <1>5, <1>6, SignsKept

LEMMA ReadVariantSigns ==
  ASSUME CatalogInv, SignInv, NEW w \in CatalogWorkers, ReadVariant(w)
  PROVE  SignInv'
<1>1. UNCHANGED <<product, belowZero>> /\ CatalogTyped /\ editor[w].pc = "variant"
  BY DEF ReadVariant, catalogDb, CatalogInv
<1>2. /\ belowZero \subseteq Products
      /\ \A q \in Products \ belowZero : NoNegatives(product[q])
  BY DEF SignInv, BelowZeroFromFiles
<1>3. CASE Finish(w)
  BY <1>1, <1>2, <1>3, SignsForgotten, SignsKept
<1>4. CASE /\ \A p \in editor[w].op.ids : product[p].variant # NoVariant
           /\ editor' = [editor EXCEPT ![w].pc = "write"]
           /\ seen' = [seen EXCEPT ![w] = Saw(editor[w].op.ids)]
  <2>1. editor[w].op \in Edits /\ editor[w].op.kind = "variant"
    BY <1>1 DEF CatalogInv, EditorsKnow, EditorKnown
  <2>2. editor[w].op.ids \subseteq Products
    <3>1. Valid(editor[w].op)
      BY <2>1, CatalogAssumption
    <3>. QED
      BY <2>1, <3>1 DEF Valid
  <2>3. /\ editor'[w].op = editor[w].op /\ seen'[w] = Saw(editor[w].op.ids)
        /\ \A x \in CatalogWorkers \ {w} : editor'[x] = editor[x] /\ seen'[x] = seen[x]
    BY <1>1, <1>4 DEF CatalogTyped
  <2>4. \A p \in editor[w].op.ids : seen'[w][p].variant # NoVariant
    BY <1>4, <2>2, <2>3 DEF Saw
  <2>. QED
    BY <1>1, <1>2, <2>3, <2>4, SignsRead, SignsKept
<1>. QED
  BY <1>3, <1>4 DEF ReadVariant

\* The other steps write no product.
LEMMA OtherSigns ==
  ASSUME CatalogInv, SignInv, NEW w \in CatalogWorkers,
         WriteLog(w) \/ EndEdit(w) \/ AbandonEdit(w)
  PROVE  SignInv'
<1>1. UNCHANGED <<product, belowZero>> /\ CatalogTyped
  BY DEF WriteLog, EndEdit, AbandonEdit, catalogDb, CatalogInv
<1>2. /\ belowZero \subseteq Products
      /\ \A q \in Products \ belowZero : NoNegatives(product[q]) /\ NoNegatives(seen[w][q])
  BY DEF SignInv, BelowZeroFromFiles
<1>3. CASE Finish(w)
  BY <1>1, <1>2, <1>3, SignsForgotten, SignsKept
<1>4. CASE WriteLog(w)
  <2>1. /\ UNCHANGED seen /\ editor'[w].pc = "row"
        /\ \A x \in CatalogWorkers \ {w} : editor'[x] = editor[x]
    BY <1>1, <1>4 DEF WriteLog, CatalogTyped
  <2>. QED
    BY <1>1, <1>2, <2>1, SignsKept
<1>. QED
  BY <1>3, <1>4 DEF EndEdit, AbandonEdit

LEMMA SignsInit == CatalogInit => SignInv
<1>. SUFFICES ASSUME CatalogInit PROVE SignInv
  OBVIOUS
<1>1. \A w \in CatalogWorkers : editor[w].pc = "idle" /\ \A p \in Products : NoNegatives(seen[w][p])
  BY Records, SignsRead DEF CatalogInit, NothingSeen
<1>2. ASSUME NEW p \in Products PROVE NoNegatives(product[p])
  <2>1. PICK v \in {NoVariant, 1} :
           product[p] \in {Absent, [Absent EXCEPT !.status = "published", !.stock = 1, !.variant = v]}
    BY DEF CatalogInit
  <2>2. NoNegatives([Absent EXCEPT !.status = "published", !.stock = 1, !.variant = v])
    BY DEF NoNegatives, Absent
  <2>. QED
    BY <2>1, <2>2, SignsRead
<1>3. belowZero = {}
  BY DEF CatalogInit
<1>. QED
  BY <1>1, <1>2, <1>3 DEF SignInv, VariantsRead, BelowZeroFromFiles

LEMMA SignsNext == CatalogInv /\ SignInv /\ [CatalogNext]_CatalogVars => SignInv'
<1>. SUFFICES ASSUME CatalogInv, SignInv, [CatalogNext]_CatalogVars PROVE SignInv'
  OBVIOUS
<1>1. CASE UNCHANGED CatalogVars
  BY <1>1 DEF SignInv, VariantsRead, BelowZeroFromFiles, CatalogVars
<1>2. CASE Trade
  BY <1>2, TradeSigns
<1>3. ASSUME NEW w \in CatalogWorkers,
             \/ Ask(w) \/ ReadVariant(w) \/ WriteEdit(w) \/ Delete(w) \/ Duplicate(w)
             \/ Create(w) \/ WriteLog(w) \/ ImportRow(w) \/ EndEdit(w) \/ AbandonEdit(w)
      PROVE  SignInv'
  BY <1>3, AskSigns, ReadVariantSigns, EditSigns, DeleteSigns, DuplicateSigns, CreateSigns,
     ImportSigns, OtherSigns
<1>. QED
  BY <1>1, <1>2, <1>3 DEF CatalogNext
-----------------------------------------------------------------------------
(* What follows.                                                           *)

\* In every reachable state each product's log is explained: the entries that
\* are still to be written lead from the logged sum to the stock.
THEOREM CatalogInvariance == CatalogSpec => []CatalogInv /\ []SignInv
<1>1. CatalogInit => CatalogInv /\ SignInv
  BY CatalogInitInv, SignsInit
<1>2. CatalogInv /\ SignInv /\ [CatalogNext]_CatalogVars => CatalogInv' /\ SignInv'
  BY CatalogNextInv, SignsNext DEF SignInv
<1>. QED
  BY <1>1, <1>2, PTL DEF CatalogSpec

\* Every variable keeps its type, and no edit, correction or sale, however they
\* overlap, takes a stock, a variant's stock or a price below zero: what is
\* below zero, a file has put there.
THEOREM CatalogTypeCorrect == CatalogSpec => []CatalogTypeOK
<1>1. CatalogInv /\ SignInv => CatalogTypeOK
  BY DEF CatalogInv, SignInv, CatalogTypeOK
<1>. QED
  BY <1>1, CatalogInvariance, PTL

\* The deltas of the inventory log (logInventory, inventoryLog.create) add up to
\* the stock, unless an entry is about to be written or the product is excused:
\* its request died, a newer stock was overwritten, or a file created it below zero.
THEOREM LogExplains == CatalogSpec => []LogExplainsStock
<1>1. CatalogInv => LogExplainsStock
  <2>. SUFFICES ASSUME CatalogInv, NEW p \in Products, Exists(p), p \notin excused,
                       log[p] # product[p].stock
                PROVE  \E w \in CatalogWorkers : editor[w].pc = "log" /\ p \in editor[w].op.ids
    BY DEF LogExplainsStock
  <2>1. Explains(log[p], product[p].stock, Pending(p), Entries)
    BY DEF CatalogInv, Explained, LeadsToStock
  <2>2. Pending(p) # {}
    BY <2>1, AddsSome
  <2>. QED
    BY <2>2 DEF Pending
<1>. QED
  BY <1>1, CatalogInvariance, PTL

=============================================================================
