------------------------ MODULE OrderLifecycle_proofs ------------------------
(***************************************************************************)
(* What OrderLifecycle guarantees however its requests overlap, for any    *)
(* number of orders, requests, staff moves and failures.  The inductive    *)
(* invariant IInv is preserved by every action; one lemma per action or    *)
(* per kind of action.                                                     *)
(***************************************************************************)
EXTENDS OrderLifecycle, TLAPS

\* Nobody in staff types in a payment.
NoStaffPayments == \A m \in StaffMoves : m.change.payment = Keep

\* The records the actions build are of the types TypeOK gives them.
LEMMA Records ==
    /\ Unchanged \in Change /\ Unchanged.payment = Keep
    /\ \A s \in Statuses : To(s) \in Change /\ To(s).payment = Keep
    /\ Unseen \in [status : Statuses, payment : Payments, source : Sources]
BY DEF Unchanged, To, Unseen, Change, Statuses, Payments, Sources, Cancellable

\* The first state satisfies the invariant.
LEMMA InitInv == Init => IInv
<1>. SUFFICES ASSUME Init PROVE IInv
  OBVIOUS
<1>1. PICK r \in Requests : pc = [q \in Requests |-> IF q = r THEN "respond" ELSE "idle"]
  BY DEF Init
<1>2. TypeOK
  <2>1. /\ status \in [Orders -> Statuses] /\ payment \in [Orders -> Payments]
        /\ source \in [Orders -> Sources] /\ method \in Methods
        /\ restored \in [Orders -> [Sources -> Nat]] /\ rewarded \in [Orders -> Nat]
    BY DEF Init, Statuses, Cancellable, Payments, Sources
  <2>2. /\ pc \in [Requests -> {"idle", "respond", "webhook", "pay", "update", "commit"}]
        /\ order \in [Requests -> Orders \cup {Nobody}] /\ by \in [Requests -> Actors]
        /\ todo \in [Requests -> SUBSET Orders]
    BY <1>1 DEF Init, Actors
  <2>3. /\ change \in [Requests -> Change]
        /\ seen \in [Requests -> [status : Statuses, payment : Payments, source : Sources]]
    BY Records DEF Init
  <2>4. moves \in 0..MaxMoves /\ failures \in 0..MaxFailures
    BY LifecycleAssumption DEF Init
  <2>. QED
    BY <2>1, <2>2, <2>3, <2>4 DEF Init, TypeOK
<1>3. ClosedIsRestocked /\ SeenClosedIsRestocked /\ RespondsFirst
  BY <1>1 DEF Init, ClosedIsRestocked, SeenClosedIsRestocked, RespondsFirst, Restocks
<1>4. NeverPaidUnlessCharged /\ AckedIsRecorded /\ MarksFollowPayment
  BY <1>1, Records DEF Init, NeverPaidUnlessCharged, AckedIsRecorded, MarksFollowPayment
<1>. QED
  BY <1>2, <1>3, <1>4 DEF IInv

\* A caller of updateStatus has done nothing yet.
LEMMA CallInv ==
    ASSUME IInv, NEW r \in Requests, NEW o \in Orders, NEW a \in Actors, NEW c \in Change,
           NoStaffPayments => c.payment = Keep,
           Call(r, o, a, c), moves' \in 0..MaxMoves, listed' \subseteq Orders
    PROVE  IInv'
<1>. USE DEF Call, Move, db, world
<1>1. TypeOK'
  BY DEF IInv, TypeOK
<1>2. ClosedIsRestocked' /\ NeverPaidUnlessCharged' /\ AckedIsRecorded'
  BY DEF IInv, ClosedIsRestocked, TimesRestocked, NeverPaidUnlessCharged, AckedIsRecorded
<1>3. SeenClosedIsRestocked' /\ RespondsFirst'
  BY DEF IInv, TypeOK, SeenClosedIsRestocked, TimesRestocked, RespondsFirst
<1>4. MarksFollowPayment'
  BY DEF IInv, TypeOK, MarksFollowPayment, NoStaffPayments
<1>. QED
  BY <1>1, <1>2, <1>3, <1>4 DEF IInv

\* The requests R are over and forgotten.
Lost(R) ==
    /\ pc' = [r \in Requests |-> IF r \in R THEN "idle" ELSE pc[r]]
    /\ order' = [r \in Requests |-> IF r \in R THEN Nobody ELSE order[r]]
    /\ by' = [r \in Requests |-> IF r \in R THEN "customer" ELSE by[r]]
    /\ change' = [r \in Requests |-> IF r \in R THEN Unchanged ELSE change[r]]
    /\ seen' = [r \in Requests |-> IF r \in R THEN Unseen ELSE seen[r]]
    /\ todo' = [r \in Requests |-> IF r \in R THEN {} ELSE todo[r]]

\* Requests that come to nothing take nothing with them.
LEMMA ForgetInv ==
    ASSUME IInv, NEW R \in SUBSET Requests,
           Lost(R), listed' \subseteq Orders, failures' \in 0..MaxFailures,
           UNCHANGED moves, UNCHANGED db, UNCHANGED world
    PROVE  IInv'
<1>. USE DEF Lost, db, world
<1>1. TypeOK'
  <2>1. /\ pc' \in [Requests -> {"idle", "respond", "webhook", "pay", "update", "commit"}]
        /\ order' \in [Requests -> Orders \cup {Nobody}]
        /\ by' \in [Requests -> Actors]
    BY DEF IInv, TypeOK, Actors
  <2>2. /\ change' \in [Requests -> Change]
        /\ seen' \in [Requests -> [status : Statuses, payment : Payments, source : Sources]]
        /\ todo' \in [Requests -> SUBSET Orders]
    BY Records DEF IInv, TypeOK
  <2>. QED
    BY <2>1, <2>2 DEF IInv, TypeOK
<1>2. ClosedIsRestocked' /\ NeverPaidUnlessCharged' /\ AckedIsRecorded'
  BY DEF IInv, ClosedIsRestocked, TimesRestocked, NeverPaidUnlessCharged, AckedIsRecorded
<1>3. SeenClosedIsRestocked' /\ RespondsFirst'
  BY DEF IInv, SeenClosedIsRestocked, TimesRestocked, RespondsFirst
<1>4. MarksFollowPayment'
  BY Records DEF IInv, MarksFollowPayment
<1>. QED
  BY <1>1, <1>2, <1>3, <1>4 DEF IInv

\* The answer to the checkout, Stripe and the webhook.
LEMMA PaymentInv ==
    ASSUME IInv, NEW r \in Requests,
           \/ BuildResponse(r) \/ WebhookArrives(r)
           \/ \E o \in Orders : MarkPaidRead(r, o)
           \/ MarkPaidWrite(r) \/ MarkPaidDone(r)
    PROVE  IInv'
<1>. USE DEF Move, db, world, job
<1>1. CASE BuildResponse(r)
  <2>1. TypeOK'
    BY <1>1 DEF BuildResponse, IInv, TypeOK
  <2>2. ClosedIsRestocked' /\ NeverPaidUnlessCharged' /\ AckedIsRecorded'
    BY <1>1 DEF BuildResponse, IInv, ClosedIsRestocked, TimesRestocked, NeverPaidUnlessCharged,
                AckedIsRecorded, RespondsFirst
  <2>3. SeenClosedIsRestocked' /\ RespondsFirst'
    BY <1>1 DEF BuildResponse, IInv, TypeOK, SeenClosedIsRestocked, TimesRestocked, RespondsFirst
  <2>4. MarksFollowPayment'
    BY <1>1 DEF BuildResponse, IInv, TypeOK, MarksFollowPayment, RespondsFirst
  <2>. QED
    BY <2>1, <2>2, <2>3, <2>4 DEF IInv
<1>2. CASE WebhookArrives(r)
  <2>1. TypeOK'
    BY <1>2 DEF WebhookArrives, IInv, TypeOK
  <2>2. ClosedIsRestocked' /\ NeverPaidUnlessCharged' /\ AckedIsRecorded'
    BY <1>2 DEF WebhookArrives, IInv, ClosedIsRestocked, TimesRestocked, NeverPaidUnlessCharged,
                AckedIsRecorded
  <2>3. SeenClosedIsRestocked' /\ RespondsFirst'
    BY <1>2 DEF WebhookArrives, IInv, TypeOK, SeenClosedIsRestocked, TimesRestocked, RespondsFirst
  <2>4. MarksFollowPayment'
    BY <1>2 DEF WebhookArrives, IInv, TypeOK, MarksFollowPayment
  <2>. QED
    BY <2>1, <2>2, <2>3, <2>4 DEF IInv
<1>3. ASSUME NEW o \in Orders, MarkPaidRead(r, o) PROVE IInv'
  <2>1. TypeOK'
    <3>1. CASE payment[o] = "paid"
      BY <1>3, <3>1 DEF MarkPaidRead, IInv, TypeOK
    <3>2. CASE payment[o] # "paid"
      BY <1>3, <3>2, ZenonT(30) DEF MarkPaidRead, IInv, TypeOK
    <3>. QED
      BY <3>1, <3>2
  <2>2. ClosedIsRestocked' /\ NeverPaidUnlessCharged' /\ AckedIsRecorded'
    BY <1>3 DEF MarkPaidRead, IInv, ClosedIsRestocked, TimesRestocked, NeverPaidUnlessCharged,
                AckedIsRecorded
  <2>3. SeenClosedIsRestocked' /\ RespondsFirst'
    BY <1>3 DEF MarkPaidRead, IInv, TypeOK, SeenClosedIsRestocked, TimesRestocked, RespondsFirst
  <2>4. MarksFollowPayment'
    BY <1>3 DEF MarkPaidRead, IInv, TypeOK, MarksFollowPayment
  <2>. QED
    BY <2>1, <2>2, <2>3, <2>4 DEF IInv
<1>4. CASE MarkPaidWrite(r)
  <2>0. order[r] \in Orders
    BY <1>4 DEF MarkPaidWrite, IInv, SeenClosedIsRestocked
  <2>1. TypeOK'
    BY <1>4, <2>0 DEF MarkPaidWrite, IInv, TypeOK, Payments
  <2>2. ClosedIsRestocked' /\ NeverPaidUnlessCharged' /\ AckedIsRecorded'
    BY <1>4, <2>0 DEF MarkPaidWrite, IInv, TypeOK, ClosedIsRestocked, TimesRestocked,
                NeverPaidUnlessCharged, AckedIsRecorded, MarksFollowPayment
  <2>3. SeenClosedIsRestocked' /\ RespondsFirst'
    BY <1>4 DEF MarkPaidWrite, IInv, TypeOK, SeenClosedIsRestocked, TimesRestocked, RespondsFirst
  <2>4. MarksFollowPayment'
    BY <1>4, <2>0 DEF MarkPaidWrite, IInv, TypeOK, MarksFollowPayment
  <2>. QED
    BY <2>1, <2>2, <2>3, <2>4 DEF IInv
<1>5. CASE MarkPaidDone(r)
  <2>1. TypeOK'
    BY <1>5 DEF MarkPaidDone, IInv, TypeOK
  <2>2. ClosedIsRestocked' /\ NeverPaidUnlessCharged' /\ AckedIsRecorded'
    BY <1>5 DEF MarkPaidDone, IInv, ClosedIsRestocked, TimesRestocked, NeverPaidUnlessCharged,
                AckedIsRecorded, MarksFollowPayment
  <2>3. SeenClosedIsRestocked' /\ RespondsFirst'
    BY <1>5 DEF MarkPaidDone, IInv, TypeOK, SeenClosedIsRestocked, TimesRestocked, RespondsFirst
  <2>4. MarksFollowPayment'
    BY <1>5 DEF MarkPaidDone, IInv, TypeOK, MarksFollowPayment
  <2>. QED
    BY <2>1, <2>2, <2>3, <2>4 DEF IInv
<1>. QED
  BY <1>1, <1>2, <1>3, <1>4, <1>5

\* Steps of the world outside, of the scheduler's query and of an approval.
LEMMA WorldInv ==
    ASSUME IInv, Stripe \/ SweepList \/ \E r \in Requests, o \in Orders : Approve(r, o)
    PROVE  IInv'
<1>. USE DEF db, world, job
<1>1. UNCHANGED <<pc, order, by, change, seen, todo, status, payment, method, restored, acked,
                  rewarded, moves, failures>>
  BY DEF Stripe, PayAtStripe, SessionExpires, DayPasses, SweepList, Approve
<1>2. /\ session = "paid" => session' = "paid"
      /\ session = "none" => session' = "none"
      /\ session' \in {"none", "open", "paid", "expired"} /\ stale' \in BOOLEAN
      /\ source' \in [Orders -> Sources] /\ listed' \subseteq Orders
  BY ZenonT(30) DEF Stripe, PayAtStripe, SessionExpires, DayPasses, SweepList, Approve, IInv, TypeOK, Sources
<1>3. TypeOK'
  BY <1>1, <1>2 DEF IInv, TypeOK
<1>4. ClosedIsRestocked' /\ SeenClosedIsRestocked'
  BY <1>1 DEF IInv, ClosedIsRestocked, SeenClosedIsRestocked, TimesRestocked
<1>5. NeverPaidUnlessCharged' /\ AckedIsRecorded' /\ MarksFollowPayment' /\ RespondsFirst'
  BY <1>1, <1>2 DEF IInv, NeverPaidUnlessCharged, AckedIsRecorded, MarksFollowPayment, RespondsFirst
<1>. QED
  BY <1>3, <1>4, <1>5 DEF IInv

\* updateStatus reads the order, or refuses.
LEMMA ReadOrderInv ==
    ASSUME IInv, NEW r \in Requests, ReadOrder(r)
    PROVE  IInv'
<1>. USE DEF db, world
<1>0. order[r] \in Orders
  BY DEF ReadOrder, IInv, SeenClosedIsRestocked
<1>1. CASE pc' = [pc EXCEPT ![r] = "idle"] /\ Forget(r)
  <2>1. failures \in 0..MaxFailures /\ listed \subseteq Orders
    BY DEF IInv, TypeOK
  <2>2. {r} \in SUBSET Requests
    OBVIOUS
  <2>3. Lost({r})
    BY <1>1 DEF Forget, Lost, IInv, TypeOK
  <2>4. UNCHANGED <<listed, moves, failures>> /\ UNCHANGED db /\ UNCHANGED world
    BY DEF ReadOrder
  <2>. QED
    BY <2>1, <2>2, <2>3, <2>4, ForgetInv
<1>2. CASE /\ pc[r] = "update"
           /\ pc' = [pc EXCEPT ![r] = "commit"]
           /\ seen' = [seen EXCEPT ![r] = [status |-> status[order[r]],
                        payment |-> payment[order[r]], source |-> source[order[r]]]]
           /\ UNCHANGED <<order, by, change, todo, listed, moves, failures>>
           /\ UNCHANGED db /\ UNCHANGED world
  <2>1. TypeOK'
    BY <1>0, <1>2 DEF IInv, TypeOK
  <2>2. ClosedIsRestocked' /\ NeverPaidUnlessCharged' /\ AckedIsRecorded'
    BY <1>2 DEF IInv, ClosedIsRestocked, TimesRestocked, NeverPaidUnlessCharged, AckedIsRecorded
  <2>3. SeenClosedIsRestocked' /\ RespondsFirst'
    BY <1>0, <1>2 DEF IInv, TypeOK, SeenClosedIsRestocked, TimesRestocked, RespondsFirst,
                      ClosedIsRestocked
  <2>4. MarksFollowPayment'
    BY <1>0, <1>2 DEF IInv, TypeOK, MarksFollowPayment, NeverPaidUnlessCharged
  <2>. QED
    BY <2>1, <2>2, <2>3, <2>4 DEF IInv
<1>. QED
  BY <1>1, <1>2 DEF ReadOrder

\* The transaction of updateStatus: whoever closes the order restocks it, or
\* has seen it closed, and then somebody has restocked it before.
LEMMA CommitUpdateInv ==
    ASSUME IInv, NEW r \in Requests, CommitUpdate(r)
    PROVE  IInv'
<1>. DEFINE o == order[r]
            to == change[r].status
            back == IF IsRestocking(seen[r].status, to) THEN 1 ELSE 0
<1>0. /\ pc[r] = "commit" /\ o \in Orders
      /\ seen[r] \in [status : Statuses, payment : Payments, source : Sources]
      /\ change[r] \in Change
  BY DEF CommitUpdate, Move, IInv, SeenClosedIsRestocked, TypeOK
<1>1. /\ NewStatus(r) \in Statuses /\ NewPayment(r) \in Payments
      /\ Pool(r) \in Sources /\ back \in Nat
  BY <1>0 DEF NewStatus, NewPayment, Pool, Change, IInv, TypeOK, Payments
<1>2. \A p \in Orders : TimesRestocked(p)' = TimesRestocked(p) + (IF p = o THEN back ELSE 0)
  <2>1. /\ restored \in [Orders -> [Sources -> Nat]]
        /\ restored' = [restored EXCEPT ![o][Pool(r)] = @ + back]
    BY DEF CommitUpdate, IInv, TypeOK
  <2>. HIDE DEF back
  <2>. QED
    BY <1>0, <1>1, <2>1 DEF TimesRestocked, Sources
<1>3. \A p \in Orders : TimesRestocked(p) \in Nat
  BY DEF IInv, TypeOK, TimesRestocked, Sources
<1>4. TypeOK'
  <2>1. restored' \in [Orders -> [Sources -> Nat]] /\ rewarded' \in [Orders -> Nat]
    BY <1>0, <1>1 DEF CommitUpdate, IInv, TypeOK
  <2>2. status' \in [Orders -> Statuses] /\ payment' \in [Orders -> Payments]
    BY <1>0, <1>1 DEF CommitUpdate, IInv, TypeOK
  <2>3. /\ pc' \in [Requests -> {"idle", "respond", "webhook", "pay", "update", "commit"}]
        /\ order' \in [Requests -> Orders \cup {Nobody}]
        /\ by' \in [Requests -> Actors]
        /\ change' \in [Requests -> Change]
        /\ seen' \in [Requests -> [status : Statuses, payment : Payments, source : Sources]]
        /\ todo' \in [Requests -> SUBSET Orders]
    BY Records DEF CommitUpdate, Move, Forget, IInv, TypeOK, Actors
  <2>. QED
    BY <2>1, <2>2, <2>3 DEF CommitUpdate, IInv, TypeOK, world
<1>5. ClosedIsRestocked'
  <2>. SUFFICES ASSUME NEW p \in Orders, status'[p] \in Restocks
                PROVE  TimesRestocked(p)' >= 1
    BY DEF ClosedIsRestocked
  <2>1. CASE p # o \/ to = Keep
    <3>1. status'[p] = status[p]
      BY <1>0, <2>1 DEF CommitUpdate, NewStatus, IInv, TypeOK
    <3>. QED
      BY <1>1, <1>2, <1>3, <3>1 DEF IInv, ClosedIsRestocked
  <2>2. CASE p = o /\ to # Keep
    <3>1. status'[p] = to
      BY <1>0, <2>2 DEF CommitUpdate, NewStatus, IInv, TypeOK
    <3>2. CASE seen[r].status \in Restocks
      <4>1. TimesRestocked(p) >= 1
        BY <1>0, <2>2, <3>2 DEF IInv, SeenClosedIsRestocked
      <4>. QED
        BY <1>1, <1>2, <1>3, <2>2, <4>1
    <3>3. CASE seen[r].status \notin Restocks
      <4>1. back = 1
        BY <3>1, <3>3 DEF IsRestocking
      <4>. QED
        BY <1>2, <1>3, <2>2, <4>1
    <3>. QED
      BY <3>2, <3>3
  <2>. QED
    BY <2>1, <2>2
<1>6. SeenClosedIsRestocked'
  <2>. SUFFICES ASSUME NEW q \in Requests
                PROVE  /\ pc'[q] \in {"pay", "update", "commit"} => order'[q] \in Orders
                       /\ pc'[q] = "commit" /\ seen'[q].status \in Restocks =>
                                TimesRestocked(order[q])' >= 1
    BY DEF SeenClosedIsRestocked, TimesRestocked
  <2>1. CASE q = r
    BY <2>1 DEF CommitUpdate, Move, IInv, TypeOK
  <2>2. CASE q # r
    <3>1. pc'[q] = pc[q] /\ order'[q] = order[q] /\ seen'[q] = seen[q]
      BY <2>2 DEF CommitUpdate, Move, Forget, IInv, TypeOK
    <3>2. order[q] \in Orders => TimesRestocked(order[q])' >= TimesRestocked(order[q])
      <4>1. SUFFICES ASSUME NEW p \in Orders, p = order[q]
                     PROVE  TimesRestocked(p)' >= TimesRestocked(p)
        BY <3>1 DEF TimesRestocked
      <4>. QED
        BY <1>1, <1>2, <1>3
    <3>. QED
      BY <1>2, <1>3, <3>1, <3>2 DEF IInv, SeenClosedIsRestocked, TimesRestocked
  <2>. QED
    BY <2>1, <2>2
<1>7. RespondsFirst'
  BY DEF CommitUpdate, Move, world, IInv, TypeOK, RespondsFirst
<1>8. ASSUME method = "card", NoStaffPayments
      PROVE  /\ payment[o] # "pending" => NewPayment(r) # "pending"
             /\ NewPayment(r) # "pending" => session = "paid"
  BY <1>0, <1>8 DEF NewPayment, NoStaffPayments, IInv, MarksFollowPayment, NeverPaidUnlessCharged
<1>9. \A p \in Orders : payment'[p] = IF p = o THEN NewPayment(r) ELSE payment[p]
  BY <1>0 DEF CommitUpdate, IInv, TypeOK
<1>10. NeverPaidUnlessCharged' /\ AckedIsRecorded'
  <2>1. UNCHANGED <<method, session, acked>>
    BY DEF CommitUpdate, world
  <2>2. NeverPaidUnlessCharged'
    BY <1>8, <1>9, <2>1 DEF NoStaffPayments, IInv, NeverPaidUnlessCharged
  <2>3. AckedIsRecorded'
    BY <1>8, <1>9, <2>1 DEF NoStaffPayments, IInv, AckedIsRecorded
  <2>. QED
    BY <2>2, <2>3
<1>11. MarksFollowPayment'
  <2>1. /\ pc' = [pc EXCEPT ![r] = "idle"]
        /\ change' = [change EXCEPT ![r] = Unchanged]
        /\ seen' = [seen EXCEPT ![r] = Unseen]
        /\ todo' = [todo EXCEPT ![r] = {}]
        /\ UNCHANGED <<method, session>>
    BY DEF CommitUpdate, Move, Forget, world
  <2>. QED
    BY <1>0, <1>8, <1>9, <2>1, Records
       DEF NoStaffPayments, IInv, TypeOK, MarksFollowPayment
<1>. QED
  BY <1>4, <1>5, <1>6, <1>7, <1>10, <1>11 DEF IInv

\* Every step keeps the invariant.
LEMMA NextInv == IInv /\ [Next]_vars => IInv'
<1>. SUFFICES ASSUME IInv, [Next]_vars PROVE IInv'
  OBVIOUS
<1>1. CASE UNCHANGED vars
  BY <1>1 DEF vars, IInv, TypeOK, ClosedIsRestocked, TimesRestocked, NeverPaidUnlessCharged,
              AckedIsRecorded, SeenClosedIsRestocked, RespondsFirst, MarksFollowPayment
<1>2. CASE Stripe \/ SweepList
  BY <1>2, WorldInv
<1>3. ASSUME NEW r \in Requests, Step(r) \/ WebhookArrives(r)
      PROVE  IInv'
  BY <1>3, PaymentInv, ReadOrderInv, CommitUpdateInv DEF Step
<1>4. ASSUME NEW r \in Requests, NEW o \in Orders, Customer(r, o) \/ SweepNext(r, o)
      PROVE  IInv'
  <2>1. PICK a \in Actors, s \in Statuses : Call(r, o, a, To(s))
    BY <1>4 DEF Customer, RequestCancellation, RequestReturn, RequestExchange, SweepNext,
                Actors, Statuses, Restocks
  <2>2. moves' \in 0..MaxMoves /\ listed' \subseteq Orders
    BY <1>4 DEF Customer, RequestCancellation, RequestReturn, RequestExchange, SweepNext,
                IInv, TypeOK
  <2>3. To(s) \in Change /\ To(s).payment = Keep
    BY Records
  <2>. QED
    BY <2>1, <2>2, <2>3, CallInv
<1>5. ASSUME NEW r \in Requests, NEW o \in Orders, NEW m \in StaffMoves, StaffUpdate(r, o, m)
      PROVE  IInv'
  <2>1. m.by \in Actors /\ m.change \in Change
    BY LifecycleAssumption DEF Actors
  <2>2. moves' \in 0..MaxMoves /\ listed' \subseteq Orders
    BY <1>5, LifecycleAssumption DEF StaffUpdate, IInv, TypeOK
  <2>3. Call(r, o, m.by, m.change)
    BY <1>5 DEF StaffUpdate
  <2>4. NoStaffPayments => m.change.payment = Keep
    BY DEF NoStaffPayments
  <2>. QED
    BY <2>1, <2>2, <2>3, <2>4, CallInv
<1>6. ASSUME NEW R \in SUBSET Requests, Lost(R), failures < MaxFailures,
             failures' = failures + 1, listed' \subseteq Orders,
             UNCHANGED moves, UNCHANGED db, UNCHANGED world
      PROVE  IInv'
  <2>1. failures' \in 0..MaxFailures
    BY <1>6, LifecycleAssumption DEF IInv, TypeOK
  <2>. QED
    BY <1>6, <2>1, ForgetInv
<1>7. ASSUME NEW r \in Requests, Fail(r) PROVE IInv'
  <2>1. Lost({r})
    BY <1>7 DEF Fail, Forget, Lost, IInv, TypeOK
  <2>2. listed' \subseteq Orders
    BY <1>7 DEF Fail, IInv, TypeOK
  <2>3. {r} \in SUBSET Requests
    OBVIOUS
  <2>. QED
    BY <1>6, <1>7, <2>1, <2>2, <2>3 DEF Fail
<1>8. CASE Crash
  <2>1. Lost(Requests)
    BY <1>8 DEF Crash, Lost
  <2>. QED
    BY <1>6, <1>8, <2>1 DEF Crash
<1>9. ASSUME NEW r \in Requests, NEW o \in Orders, Approve(r, o) PROVE IInv'
  BY <1>9, WorldInv
<1>. QED
  BY <1>1, <1>2, <1>3, <1>4, <1>5, <1>7, <1>8, <1>9 DEF Next

\* IInv is an invariant.
THEOREM Invariance == Spec => []IInv
BY InitInv, NextInv, PTL DEF Spec

\* Every variable keeps its type.
THEOREM TypeCorrect == Spec => []TypeOK
BY Invariance, PTL DEF IInv

\* However many requests read the order before any of them writes it, closing
\* it puts its units back at least once.
THEOREM ClosedOrdersAreRestocked == Spec => []ClosedIsRestocked
BY Invariance, PTL DEF IInv

\* markPaid, the automatic refund and stale reads of both never make a card
\* order look paid for that was not.
THEOREM PaidMeansCharged == Spec => []NeverPaidUnlessCharged
BY Invariance, PTL DEF IInv

\* Deaths in the middle of the webhook's loop and duplicated webhooks lose no
\* order: when Stripe stops retrying, all of them are marked.
THEOREM AcknowledgedMeansRecorded == Spec => []AckedIsRecorded
BY Invariance, PTL DEF IInv

-----------------------------------------------------------------------------
(* The reward, and the demo checkout: each needs a little more than IInv.  *)

\* updateStatus has read its order and goes on.
Reads(r) ==
    /\ order[r] \in Orders
    /\ pc' = [pc EXCEPT ![r] = "commit"]
    /\ seen' = [seen EXCEPT ![r] = [status |-> status[order[r]],
                        payment |-> payment[order[r]], source |-> source[order[r]]]]
    /\ UNCHANGED <<order, change, status, payment, source, restored, rewarded>>

\* Nothing happens to the orders' states, and nobody has anything new to write.
Quiet ==
    /\ UNCHANGED <<status, restored, rewarded>>
    /\ \A q \in Requests : pc'[q] = "commit" =>
           pc[q] = "commit" /\ order'[q] = order[q] /\ seen'[q] = seen[q]

\* Only updateStatus writes an order's state.
LEMMA QuietOrUpdate ==
    ASSUME IInv, [Next]_vars
    PROVE  \/ Quiet
           \/ \E r \in Requests : Reads(r) \/ CommitUpdate(r)
<1>. USE DEF Move, db, world, job, IInv, TypeOK
<1>1. CASE UNCHANGED vars \/ Stripe \/ SweepList
  BY <1>1 DEF Quiet, vars, Stripe, PayAtStripe, SessionExpires, DayPasses, SweepList
<1>2. ASSUME NEW r \in Requests, BuildResponse(r) \/ WebhookArrives(r) \/ MarkPaidDone(r)
      PROVE  Quiet
  BY <1>2 DEF Quiet, BuildResponse, WebhookArrives, MarkPaidDone
<1>3. ASSUME NEW r \in Requests, NEW o \in Orders, MarkPaidRead(r, o) PROVE Quiet
  BY <1>3 DEF Quiet, MarkPaidRead
<1>4. ASSUME NEW r \in Requests, MarkPaidWrite(r) PROVE Quiet
  BY <1>4 DEF Quiet, MarkPaidWrite
<1>5. ASSUME NEW r \in Requests, ReadOrder(r) PROVE Quiet \/ Reads(r)
  BY <1>5 DEF Quiet, Reads, ReadOrder, Forget, SeenClosedIsRestocked
<1>6. ASSUME NEW r \in Requests, Step(r)
      PROVE  Quiet \/ Reads(r) \/ CommitUpdate(r)
  <2>. HIDE DEF Move, db, world, job, IInv, TypeOK
  <2>. QED
    BY <1>2, <1>3, <1>4, <1>5, <1>6 DEF Step
<1>7. ASSUME NEW r \in Requests, NEW o \in Orders, NEW a, NEW c, Call(r, o, a, c) PROVE Quiet
  BY <1>7 DEF Quiet, Call
<1>8. ASSUME NEW r \in Requests, NEW o \in Orders,
             \/ Customer(r, o) \/ SweepNext(r, o) \/ Approve(r, o)
             \/ \E m \in StaffMoves : StaffUpdate(r, o, m)
      PROVE  Quiet
  <2>1. CASE Approve(r, o)
    BY <2>1 DEF Quiet, Approve
  <2>. HIDE DEF Move, db, world, job, IInv, TypeOK
  <2>. QED
    BY <1>7, <1>8, <2>1 DEF Customer, RequestCancellation, RequestReturn, RequestExchange,
                            SweepNext, StaffUpdate
<1>9. ASSUME Crash \/ \E r \in Requests : Fail(r) PROVE Quiet
  BY <1>9 DEF Quiet, Crash, Fail, Forget
<1>. HIDE DEF Move, db, world, job, IInv, TypeOK
<1>. QED
  BY <1>1, <1>2, <1>6, <1>8, <1>9 DEF Next

\* The inductive invariant: whoever found the order delivered found it rewarded.
RewardInv ==
    /\ DeliveredIsRewarded
    /\ \A r \in Requests :
          pc[r] = "commit" /\ seen[r].status = "delivered" => rewarded[order[r]] >= 1

\* Whoever delivers an order rewards it, or has seen it delivered.
LEMMA CommitUpdateRewards ==
    ASSUME IInv, RewardInv, NEW r \in Requests, CommitUpdate(r)
    PROVE  RewardInv'
<1>1. PICK o \in Orders : o = order[r] /\ pc[r] = "commit"
  BY DEF CommitUpdate, Move, IInv, SeenClosedIsRestocked
<1>. DEFINE to == change[r].status
            more == IF EarnsReward(seen[r].status, to) THEN 1 ELSE 0
<1>2. status' = [status EXCEPT ![o] = NewStatus(r)] /\ more \in {0, 1}
  BY <1>1 DEF CommitUpdate
<1>3. \A p \in Orders : /\ rewarded[p] \in Nat
                        /\ rewarded'[p] = rewarded[p] + (IF p = o THEN more ELSE 0)
  <2>1. rewarded' = [rewarded EXCEPT ![o] = @ + more] /\ rewarded \in [Orders -> Nat]
    BY <1>1 DEF CommitUpdate, IInv, TypeOK
  <2>. HIDE DEF more
  <2>. QED
    BY <1>2, <2>1
<1>4. \A p \in Orders : rewarded[p] >= 1 => rewarded'[p] >= 1
  <2>. HIDE DEF more
  <2>. QED
    BY <1>2, <1>3
<1>5. ASSUME NEW p \in Orders, status'[p] = "delivered" PROVE rewarded'[p] >= 1
  <2>1. CASE status[p] = "delivered"
    BY <1>4, <2>1 DEF RewardInv, DeliveredIsRewarded
  <2>2. CASE status[p] # "delivered"
    <3>1. p = o /\ to = "delivered"
      BY <1>1, <1>2, <1>5, <2>2 DEF NewStatus, IInv, TypeOK
    <3>2. CASE seen[r].status = "delivered"
      BY <1>1, <1>4, <3>1, <3>2 DEF RewardInv
    <3>3. CASE seen[r].status # "delivered"
      <4>1. more = 1
        BY <3>1, <3>3 DEF EarnsReward
      <4>. HIDE DEF more
      <4>. QED
        BY <1>3, <3>1, <4>1
    <3>. QED
      BY <3>2, <3>3
  <2>. QED
    BY <2>1, <2>2
<1>6. ASSUME NEW q \in Requests, pc'[q] = "commit", seen'[q].status = "delivered"
      PROVE  rewarded'[order'[q]] >= 1
  <2>1. q # r /\ pc[q] = "commit" /\ order'[q] = order[q] /\ seen'[q] = seen[q]
    BY <1>6 DEF CommitUpdate, Move, Forget, IInv, TypeOK
  <2>2. order[q] \in Orders /\ rewarded[order[q]] >= 1
    BY <1>6, <2>1 DEF RewardInv, IInv, SeenClosedIsRestocked
  <2>. QED
    BY <1>4, <2>1, <2>2
<1>. QED
  BY <1>5, <1>6 DEF RewardInv, DeliveredIsRewarded

LEMMA NextRewards == IInv /\ RewardInv /\ [Next]_vars => RewardInv'
<1>. SUFFICES ASSUME IInv, RewardInv, [Next]_vars PROVE RewardInv'
  OBVIOUS
<1>1. CASE Quiet
  BY <1>1 DEF Quiet, RewardInv, DeliveredIsRewarded
<1>2. ASSUME NEW r \in Requests, Reads(r) PROVE RewardInv'
  <2>1. DeliveredIsRewarded'
    BY <1>2 DEF Reads, RewardInv, DeliveredIsRewarded
  <2>2. ASSUME NEW q \in Requests, pc'[q] = "commit", seen'[q].status = "delivered"
        PROVE  rewarded'[order'[q]] >= 1
    <3>1. CASE q = r
      <4>1. seen'[r].status = status[order[r]] /\ pc'[r] = "commit"
        BY <1>2 DEF Reads, IInv, TypeOK
      <4>. QED
        BY <1>2, <2>2, <3>1, <4>1 DEF Reads, RewardInv, DeliveredIsRewarded
    <3>2. CASE q # r
      BY <1>2, <2>2, <3>2 DEF Reads, RewardInv, IInv, TypeOK
    <3>. QED
      BY <3>1, <3>2
  <2>. QED
    BY <2>1, <2>2 DEF RewardInv
<1>. QED
  BY <1>1, <1>2, QuietOrUpdate, CommitUpdateRewards

\* However requests overlap, an order that counts as delivered has earned the
\* customer points: a stale read can reward twice, never leave the reward out.
THEOREM DeliveredOrdersAreRewarded == Spec => []DeliveredIsRewarded
<1>1. Init => RewardInv
  BY DEF Init, RewardInv, DeliveredIsRewarded
<1>2. RewardInv => DeliveredIsRewarded
  BY DEF RewardInv
<1>. QED
  BY <1>1, <1>2, NextRewards, Invariance, PTL DEF Spec

\* The inductive invariant: no request of the staff or of a customer touches a
\* payment, except to refund it.
DemoInv ==
    /\ DemoPaidUnlessFailed
    /\ NoStaffPayments => \A r \in Requests : change[r].payment = Keep

\* No payment is taken back, and whoever has yet to mark an order still has.
KeepsMarking ==
    /\ method' = method /\ failures' = failures
    /\ \A o \in Orders : payment'[o] = "pending" =>
          /\ payment[o] = "pending"
          /\ \A r \in Requests :
                pc[r] = "respond" \/ (pc[r] \in {"webhook", "pay"} /\ o \in todo[r]) =>
                    pc'[r] = "respond" \/ (pc'[r] \in {"webhook", "pay"} /\ o \in todo'[r])

LEMMA KeepsMarkingKeeps ==
    ASSUME DemoPaidUnlessFailed, KeepsMarking PROVE DemoPaidUnlessFailed'
BY DEF DemoPaidUnlessFailed, KeepsMarking

\* The steps of the requests that are not calls of updateStatus.
LEMMA MarkingSteps ==
    ASSUME IInv, method = "demo_card", NEW r \in Requests,
           \/ BuildResponse(r) \/ WebhookArrives(r)
           \/ \E o \in Orders : MarkPaidRead(r, o)
           \/ MarkPaidWrite(r) \/ MarkPaidDone(r)
    PROVE  KeepsMarking
<1>. USE DEF KeepsMarking, Move, db, world, job, IInv, TypeOK
<1>1. CASE BuildResponse(r) \/ WebhookArrives(r)
  BY <1>1 DEF BuildResponse, WebhookArrives
<1>2. ASSUME NEW o \in Orders, MarkPaidRead(r, o) PROVE KeepsMarking
  BY <1>2 DEF MarkPaidRead
<1>3. CASE MarkPaidWrite(r)
  <2>1. order[r] \in Orders
    BY <1>3 DEF MarkPaidWrite, SeenClosedIsRestocked
  <2>. QED
    BY <1>3, <2>1 DEF MarkPaidWrite
<1>4. CASE MarkPaidDone(r)
  BY <1>4 DEF MarkPaidDone
<1>. QED
  BY <1>1, <1>2, <1>3, <1>4

\* A checkout is paid for as the customer has chosen.
LEMMA MethodStays == ASSUME [Next]_vars PROVE method' = method
<1>. USE DEF db
<1>1. CASE UNCHANGED vars \/ Stripe \/ SweepList \/ Crash
  BY <1>1 DEF vars, Stripe, PayAtStripe, SessionExpires, DayPasses, SweepList, Crash
<1>2. ASSUME NEW r \in Requests, Step(r) PROVE method' = method
  BY <1>2 DEF Step, BuildResponse, MarkPaidRead, MarkPaidWrite, MarkPaidDone, ReadOrder,
              CommitUpdate
<1>3. ASSUME NEW r \in Requests, WebhookArrives(r) \/ Fail(r) PROVE method' = method
  BY <1>3 DEF WebhookArrives, Fail
<1>4. ASSUME NEW r \in Requests, NEW o \in Orders,
             \/ Customer(r, o) \/ SweepNext(r, o) \/ Approve(r, o)
             \/ \E m \in StaffMoves : StaffUpdate(r, o, m)
      PROVE  method' = method
  BY <1>4 DEF Customer, RequestCancellation, RequestReturn, RequestExchange, SweepNext,
              StaffUpdate, Approve, Call
<1>. HIDE DEF db
<1>. QED
  BY <1>1, <1>2, <1>3, <1>4 DEF Next

LEMMA NextDemo == IInv /\ DemoInv /\ [Next]_vars => DemoInv'
<1>. SUFFICES ASSUME IInv, DemoInv, [Next]_vars PROVE DemoInv'
  OBVIOUS
<1>1. NoStaffPayments => \A r \in Requests : change'[r].payment = Keep
  <2>. SUFFICES ASSUME NoStaffPayments, NEW r \in Requests PROVE change'[r].payment = Keep
    OBVIOUS
  <2>. USE DEF DemoInv, Move, job, Forget, IInv, TypeOK
  <2>1. CASE change' = change
    BY <2>1
  <2>2. ASSUME NEW q \in Requests, Step(q) \/ Fail(q) PROVE change'[r].payment = Keep
    BY <2>2, Records DEF Step, BuildResponse, MarkPaidRead, MarkPaidWrite, MarkPaidDone,
                         ReadOrder, CommitUpdate, Fail
  <2>3. CASE Crash
    BY <2>3, Records DEF Crash
  <2>4. ASSUME NEW q \in Requests, NEW o \in Orders, NEW a, NEW c, c.payment = Keep,
               Call(q, o, a, c)
        PROVE  change'[r].payment = Keep
    BY <2>4 DEF Call
  <2>5. ASSUME NEW q \in Requests, NEW o \in Orders, Customer(q, o) \/ SweepNext(q, o)
        PROVE  change'[r].payment = Keep
    <3>1. PICK a, c : c.payment = Keep /\ Call(q, o, a, c)
      BY <2>5, Records DEF Customer, RequestCancellation, RequestReturn, RequestExchange,
                           SweepNext, Statuses, Restocks
    <3>. QED
      BY <2>4, <3>1
  <2>6. ASSUME NEW q \in Requests, NEW o \in Orders, NEW m \in StaffMoves, StaffUpdate(q, o, m)
        PROVE  change'[r].payment = Keep
    <3>1. m.change.payment = Keep
      BY DEF NoStaffPayments
    <3>. QED
      BY <2>4, <2>6, <3>1 DEF StaffUpdate
  <2>7. CASE UNCHANGED vars \/ Stripe \/ SweepList
    BY <2>7 DEF vars, Stripe, PayAtStripe, SessionExpires, DayPasses, SweepList
  <2>8. ASSUME NEW q \in Requests, WebhookArrives(q) \/ \E o \in Orders : Approve(q, o)
        PROVE  change' = change
    BY <2>8 DEF WebhookArrives, Approve
  <2>. HIDE DEF DemoInv, Move, job, Forget, IInv, TypeOK
  <2>. QED
    BY <2>1, <2>2, <2>3, <2>5, <2>6, <2>7, <2>8 DEF Next
<1>2. DemoPaidUnlessFailed'
  <2>. SUFFICES ASSUME method' = "demo_card", failures' = 0, NoStaffPayments
                PROVE  DemoPaidUnlessFailed'
    BY DEF DemoPaidUnlessFailed, NoStaffPayments
  <2>0. method = "demo_card" /\ failures \in Nat
    BY MethodStays, LifecycleAssumption DEF IInv, TypeOK
  <2>1. CASE UNCHANGED vars \/ Stripe \/ SweepList
    <3>1. KeepsMarking
      BY <2>1 DEF KeepsMarking, vars, db, job, Stripe, PayAtStripe, SessionExpires, DayPasses,
                  SweepList
    <3>. QED
      BY <3>1, KeepsMarkingKeeps DEF DemoInv
  <2>2. ASSUME NEW r \in Requests, ReadOrder(r) PROVE KeepsMarking
    BY <2>2 DEF ReadOrder, Forget, KeepsMarking, db, IInv, TypeOK
  <2>3. ASSUME NEW r \in Requests, CommitUpdate(r) PROVE KeepsMarking
    <3>1. order[r] \in Orders /\ change[r].payment = Keep
      BY <2>3 DEF CommitUpdate, Move, IInv, SeenClosedIsRestocked, DemoInv
    <3>2. NewPayment(r) = "pending" => payment[order[r]] = "pending"
      BY <3>1 DEF NewPayment
    <3>. QED
      BY <2>3, <3>1, <3>2 DEF CommitUpdate, Move, Forget, KeepsMarking, IInv, TypeOK
  <2>4. ASSUME NEW r \in Requests, Step(r) \/ WebhookArrives(r) PROVE DemoPaidUnlessFailed'
    BY <2>0, <2>2, <2>3, <2>4, MarkingSteps, KeepsMarkingKeeps DEF Step, DemoInv
  <2>5. ASSUME NEW r \in Requests, NEW o \in Orders,
               \/ Customer(r, o) \/ SweepNext(r, o) \/ Approve(r, o)
               \/ \E m \in StaffMoves : StaffUpdate(r, o, m)
        PROVE  DemoPaidUnlessFailed'
    <3>1. CASE Approve(r, o)
      BY <3>1, KeepsMarkingKeeps DEF Approve, KeepsMarking, job, DemoInv
    <3>2. ASSUME NEW a, NEW c, Call(r, o, a, c) PROVE DemoPaidUnlessFailed'
      <4>1. KeepsMarking
        BY <3>2 DEF Call, Move, KeepsMarking, db, IInv, TypeOK
      <4>. QED
        BY <4>1, KeepsMarkingKeeps DEF DemoInv
    <3>. QED
      BY <2>5, <3>1, <3>2 DEF Customer, RequestCancellation, RequestReturn, RequestExchange,
                              SweepNext, StaffUpdate
  <2>6. ~Crash /\ \A r \in Requests : ~Fail(r)
    BY <2>0 DEF Crash, Fail
  <2>. QED
    BY <2>1, <2>4, <2>5, <2>6 DEF Next
<1>. QED
  BY <1>1, <1>2 DEF DemoInv

\* A demo_card order that is unpaid has its mark under way, or has lost it to a
\* failed request: that loss is the only way to leave one unpaid.
THEOREM DemoOrdersAreMarked == Spec => []DemoPaidUnlessFailed
<1>1. Init => DemoInv
  <2>1. Init => DemoPaidUnlessFailed
    BY DEF Init, DemoPaidUnlessFailed
  <2>2. Init => \A r \in Requests : change[r].payment = Keep
    BY Records DEF Init
  <2>. QED
    BY <2>1, <2>2 DEF DemoInv
<1>2. DemoInv => DemoPaidUnlessFailed
  BY DEF DemoInv
<1>. QED
  BY <1>1, <1>2, NextDemo, Invariance, PTL DEF Spec

-----------------------------------------------------------------------------
(* What updateStatus guarantees when nothing comes between its read of an  *)
(* order and its write: units go back once and where they came from, and a *)
(* cancellation refunds.  The races of OrderLifecycle are the only way to  *)
(* lose this: no lock and no version check of the code keeps requests      *)
(* apart, so Apart is a hypothesis here, and a fact only when one request  *)
(* runs at a time.                                                         *)

\* What the staff do when they keep to the states an order goes through: they
\* reopen no order that is over, type in no payment that contradicts a
\* cancellation, and approve fulfilment only of orders that are not over.
OrdinaryStaff ==
    /\ \A m \in StaffMoves :
          /\ m.from \in Restocks => m.change.status \in Restocks \cup {Keep}
          /\ m.change.status = "cancelled" => m.change.payment \in {Keep, "refunded"}
    /\ ApproveWhen \cap Restocks = {}

\* While updateStatus is about an order, no other request is, and approve does
\* not change where its items come from between the read and the write.
Apart ==
    /\ \A q, r \in Requests :
          pc[q] \in {"update", "commit"} /\ pc[r] \in {"pay", "update", "commit"}
            /\ order[q] = order[r] => q = r
    /\ \A r \in Requests : pc[r] = "commit" => source[order[r]] = seen[r].source

\* An order is still what it was when its request was made and when it was
\* read, so that what is asked for still makes sense.
AsAsked ==
    \A r \in Requests : pc[r] \in {"update", "commit"} =>
        /\ order[r] \in Orders
        /\ status[order[r]] \in Restocks => change[r].status \in Restocks \cup {Keep}
        /\ change[r].status = "cancelled" => change[r].payment \in {Keep, "refunded"}
        /\ pc[r] = "commit" => /\ seen[r].status = status[order[r]]
                               /\ seen[r].payment = payment[order[r]]

\* The inductive invariant, next to IInv.
SerialInv == RestockedOnce /\ RestockedAtSource /\ AsAsked
-----------------------------------------------------------------------------
\* The first state satisfies the invariant.
LEMMA InitSerial == Init => SerialInv
<1>. SUFFICES ASSUME Init PROVE SerialInv
  OBVIOUS
<1>1. RestockedOnce /\ RestockedAtSource
  BY DEF Init, RestockedOnce, RestockedAtSource, TimesRestocked, Restocks, Sources
<1>2. AsAsked
  <2>1. \A r \in Requests : pc[r] \notin {"update", "commit"}
    BY DEF Init
  <2>. QED
    BY <2>1 DEF AsAsked
<1>. QED
  BY <1>1, <1>2 DEF SerialInv

\* A step that leaves alone what updateStatus has written, and the order and
\* the request of every call of updateStatus under way.
LEMMA KeepSerial ==
    ASSUME SerialInv, UNCHANGED <<status, source, restored>>,
           \A q \in Requests : pc'[q] \in {"update", "commit"} =>
              /\ pc'[q] = pc[q] /\ order'[q] = order[q]
              /\ change'[q] = change[q] /\ seen'[q] = seen[q]
              /\ payment'[order[q]] = payment[order[q]]
    PROVE  SerialInv'
<1>1. RestockedOnce' /\ RestockedAtSource'
  BY DEF SerialInv, RestockedOnce, RestockedAtSource, TimesRestocked
<1>2. AsAsked'
  BY DEF SerialInv, AsAsked
<1>. QED
  BY <1>1, <1>2 DEF SerialInv

\* A call of updateStatus asks for something sensible of the order as it is.
LEMMA CallSerial ==
    ASSUME IInv, SerialInv, NEW r \in Requests, NEW o \in Orders, NEW a, NEW c,
           Call(r, o, a, c),
           status[o] \in Restocks => c.status \in Restocks \cup {Keep},
           c.status = "cancelled" => c.payment \in {Keep, "refunded"}
    PROVE  SerialInv'
<1>. USE DEF Call, Move, db
<1>1. RestockedOnce' /\ RestockedAtSource'
  BY DEF SerialInv, RestockedOnce, RestockedAtSource, TimesRestocked
<1>2. AsAsked'
  BY DEF SerialInv, AsAsked, IInv, TypeOK
<1>. QED
  BY <1>1, <1>2 DEF SerialInv

\* The mark of a payment is about another order than those updateStatus is at.
LEMMA MarkPaidWriteSerial ==
    ASSUME IInv, SerialInv, Apart, NEW r \in Requests, MarkPaidWrite(r)
    PROVE  SerialInv'
<1>. USE DEF MarkPaidWrite, Move
<1>1. ASSUME NEW q \in Requests, pc'[q] \in {"update", "commit"}
      PROVE  /\ pc'[q] = pc[q] /\ order'[q] = order[q]
             /\ change'[q] = change[q] /\ seen'[q] = seen[q]
             /\ payment'[order[q]] = payment[order[q]]
  <2>1. q # r /\ pc'[q] = pc[q]
    BY <1>1 DEF IInv, TypeOK
  <2>2. order[q] # order[r]
    BY <1>1, <2>1 DEF Apart
  <2>. QED
    BY <1>1, <2>1, <2>2 DEF IInv, TypeOK, SerialInv, AsAsked
<1>. QED
  BY <1>1, KeepSerial

\* approve moves the items of an order of which nothing has been put back.
LEMMA ApproveSerial ==
    ASSUME IInv, SerialInv, OrdinaryStaff, NEW r \in Requests, NEW o \in Orders, Approve(r, o)
    PROVE  SerialInv'
<1>. USE DEF Approve, job
<1>1. RestockedOnce'
  BY DEF SerialInv, RestockedOnce, TimesRestocked
<1>2. RestockedAtSource'
  <2>1. TimesRestocked(o) = 0
    BY DEF OrdinaryStaff, SerialInv, RestockedOnce
  <2>2. \A s \in Sources : restored[o][s] = 0
    BY <2>1 DEF IInv, TypeOK, TimesRestocked, Sources
  <2>. QED
    BY <2>2 DEF SerialInv, RestockedAtSource, IInv, TypeOK
<1>3. AsAsked'
  BY DEF SerialInv, AsAsked
<1>. QED
  BY <1>1, <1>2, <1>3 DEF SerialInv

\* updateStatus finds the order as it was when it was asked for, or refuses.
LEMMA ReadOrderSerial ==
    ASSUME IInv, SerialInv, NEW r \in Requests, ReadOrder(r)
    PROVE  SerialInv'
<1>. USE DEF ReadOrder, db
<1>1. CASE pc' = [pc EXCEPT ![r] = "idle"] /\ Forget(r)
  <2>1. \A q \in Requests : pc'[q] \in {"update", "commit"} => q # r /\ pc'[q] = pc[q]
    BY <1>1 DEF IInv, TypeOK
  <2>. QED
    BY <1>1, <2>1, KeepSerial DEF Forget, IInv, TypeOK
<1>2. CASE /\ pc[r] = "update"
           /\ pc' = [pc EXCEPT ![r] = "commit"]
           /\ seen' = [seen EXCEPT ![r] = [status |-> status[order[r]],
                        payment |-> payment[order[r]], source |-> source[order[r]]]]
           /\ UNCHANGED <<order, by, change, todo>>
  <2>1. RestockedOnce' /\ RestockedAtSource'
    BY DEF SerialInv, RestockedOnce, RestockedAtSource, TimesRestocked
  <2>2. AsAsked'
    BY <1>2 DEF SerialInv, AsAsked, IInv, TypeOK
  <2>. QED
    BY <2>1, <2>2 DEF SerialInv
<1>. QED
  BY <1>1, <1>2

\* The transaction of updateStatus, on an order that is as it was read: units
\* go back when, and only when, it closes the order.
LEMMA CommitUpdateSerial ==
    ASSUME IInv, SerialInv, Apart, NEW r \in Requests, CommitUpdate(r)
    PROVE  SerialInv'
<1>a. PICK o \in Orders : o = order[r]
  BY DEF CommitUpdate, Move, SerialInv, AsAsked
<1>. DEFINE to == change[r].status
            back == IF IsRestocking(seen[r].status, to) THEN 1 ELSE 0
<1>0. /\ pc[r] = "commit" /\ o \in Orders /\ order[r] = o
      /\ status[o] \in Restocks => to \in Restocks \cup {Keep}
      /\ seen[r].status = status[o] /\ seen[r].source = source[o]
      /\ source[o] \in Sources /\ to \in Statuses \cup {Keep} /\ status[o] \in Statuses
  BY <1>a DEF CommitUpdate, Move, Apart, SerialInv, AsAsked, IInv, TypeOK, Change
<1>1. /\ status' = [status EXCEPT ![o] = IF to = Keep THEN status[o] ELSE to]
      /\ restored' = [restored EXCEPT ![o][source[o]] = @ + back]
      /\ source' = source /\ back \in {0, 1}
  BY <1>0 DEF CommitUpdate, NewStatus, Pool
<1>2. back = 1 <=> status[o] \notin Restocks /\ status'[o] \in Restocks
  <2>1. status'[o] = IF to = Keep THEN status[o] ELSE to
    BY <1>0, <1>1 DEF IInv, TypeOK
  <2>2. Keep \notin Restocks
    BY LifecycleAssumption DEF Statuses
  <2>. QED
    BY <1>0, <2>1, <2>2 DEF IsRestocking
<1>. HIDE DEF back
<1>3. RestockedOnce'
  <2>1. TimesRestocked(o)' = TimesRestocked(o) + back
    BY <1>0, <1>1 DEF TimesRestocked, Sources, IInv, TypeOK
  <2>2. \A p \in Orders \ {o} : TimesRestocked(p)' = TimesRestocked(p) /\ status'[p] = status[p]
    BY <1>0, <1>1 DEF TimesRestocked, IInv, TypeOK
  <2>3. status[o] \in Restocks => status'[o] \in Restocks
    BY <1>0, <1>1 DEF IInv, TypeOK
  <2>4. \A p \in Orders : TimesRestocked(p) = IF status[p] \in Restocks THEN 1 ELSE 0
    BY DEF SerialInv, RestockedOnce
  <2>5. ASSUME NEW p \in Orders PROVE TimesRestocked(p)' = IF status'[p] \in Restocks THEN 1 ELSE 0
    <3>1. CASE p # o
      BY <2>2, <2>4, <3>1
    <3>2. CASE p = o
      <4>1. TimesRestocked(p)' = (IF status[p] \in Restocks THEN 1 ELSE 0) + back
        BY <2>1, <2>4, <3>2
      <4>. QED
        BY <1>1, <1>2, <2>3, <3>2, <4>1
    <3>. QED
      BY <3>1, <3>2
  <2>. QED
    BY <2>5 DEF RestockedOnce, TimesRestocked
<1>4. RestockedAtSource'
  <2>. SUFFICES ASSUME NEW p \in Orders, NEW s \in Sources, restored'[p][s] > 0
                PROVE  s = source[p]
    BY <1>1 DEF RestockedAtSource
  <2>1. CASE p = o /\ s = source[o]
    BY <2>1
  <2>2. CASE p # o \/ s # source[o]
    <3>1. restored'[p][s] = restored[p][s]
      BY <1>0, <1>1, <2>2 DEF IInv, TypeOK
    <3>. QED
      BY <3>1 DEF SerialInv, RestockedAtSource
  <2>. QED
    BY <2>1, <2>2
<1>5. AsAsked'
  <2>. SUFFICES ASSUME NEW q \in Requests, pc'[q] \in {"update", "commit"}
                PROVE  /\ UNCHANGED <<pc[q], order[q], change[q], seen[q]>>
                       /\ UNCHANGED <<status[order[q]], payment[order[q]]>>
    BY DEF SerialInv, AsAsked
  <2>1. q # r /\ UNCHANGED <<pc[q], order[q], change[q], seen[q]>>
    BY DEF CommitUpdate, Move, Forget, IInv, TypeOK
  <2>2. order[q] # o /\ order[q] \in Orders
    BY <1>0, <2>1 DEF Apart, SerialInv, AsAsked
  <2>. QED
    BY <1>0, <2>1, <2>2 DEF CommitUpdate, IInv, TypeOK
<1>. QED
  BY <1>3, <1>4, <1>5 DEF SerialInv

\* Every step keeps the invariant.
LEMMA NextSerial ==
    ASSUME OrdinaryStaff, IInv, SerialInv, Apart, [Next]_vars
    PROVE  SerialInv'
<1>. USE DEF Move, db, world, job
<1>1. CASE UNCHANGED vars \/ Stripe \/ SweepList
  <2>. UNCHANGED <<pc, order, change, seen, status, payment, source, restored>>
    BY <1>1 DEF vars, Stripe, PayAtStripe, SessionExpires, DayPasses, SweepList
  <2>. QED
    BY KeepSerial
<1>2. ASSUME NEW r \in Requests, BuildResponse(r) \/ WebhookArrives(r) \/ MarkPaidDone(r)
      PROVE  SerialInv'
  <2>1. /\ UNCHANGED <<order, change, seen, status, payment, source, restored>>
        /\ \A q \in Requests : pc'[q] \in {"update", "commit"} => pc'[q] = pc[q]
    BY <1>2 DEF BuildResponse, WebhookArrives, MarkPaidDone, IInv, TypeOK
  <2>. QED
    BY <2>1, KeepSerial
<1>3. ASSUME NEW r \in Requests, NEW o \in Orders, MarkPaidRead(r, o)
      PROVE  SerialInv'
  <2>1. /\ UNCHANGED <<change, seen, status, payment, source, restored>>
        /\ \A q \in Requests : pc'[q] \in {"update", "commit"} =>
                                   pc'[q] = pc[q] /\ order'[q] = order[q]
    BY <1>3 DEF MarkPaidRead, IInv, TypeOK
  <2>. QED
    BY <2>1, KeepSerial
<1>4. ASSUME NEW r \in Requests, Step(r) PROVE SerialInv'
  BY <1>2, <1>3, <1>4, MarkPaidWriteSerial, ReadOrderSerial, CommitUpdateSerial DEF Step
<1>5. ASSUME NEW r \in Requests, NEW o \in Orders,
             \/ Customer(r, o) \/ SweepNext(r, o)
             \/ \E m \in StaffMoves : StaffUpdate(r, o, m)
      PROVE  SerialInv'
  <2>1. CASE Customer(r, o) \/ SweepNext(r, o)
    <3>1. PICK a, s : /\ Call(r, o, a, To(s)) /\ To(s).status = s /\ To(s).payment = Keep
                      /\ status[o] \in Restocks => s = "cancelled"
      BY <2>1 DEF Customer, RequestCancellation, RequestReturn, RequestExchange, SweepNext,
                  To, Unchanged, Cancellable, Restocks
    <3>. QED
      BY <3>1, CallSerial DEF Restocks
  <2>2. ASSUME NEW m \in StaffMoves, StaffUpdate(r, o, m) PROVE SerialInv'
    BY <2>2, CallSerial DEF StaffUpdate, OrdinaryStaff
  <2>. QED
    BY <1>5, <2>1, <2>2
<1>6. ASSUME Crash \/ \E r \in Requests : Fail(r) PROVE SerialInv'
  <2>1. /\ UNCHANGED <<status, payment, source, restored>>
        /\ \A q \in Requests : pc'[q] \in {"update", "commit"} =>
              /\ pc'[q] = pc[q] /\ order'[q] = order[q]
              /\ change'[q] = change[q] /\ seen'[q] = seen[q]
    BY <1>6 DEF Crash, Fail, Forget, IInv, TypeOK
  <2>. QED
    BY <2>1, KeepSerial
<1>. QED
  BY <1>1, <1>2, <1>4, <1>5, <1>6, ApproveSerial DEF Next

\* A cancellation of an order that is as it was read refunds it.
LEMMA CancelSerial ==
    ASSUME IInv, SerialInv, [Next]_vars, NEW o \in Orders,
           status[o] \notin Restocks, status'[o] = "cancelled", payment[o] = "paid"
    PROVE  payment'[o] = "refunded"
<1>1. PICK r \in Requests : CommitUpdate(r)
  <2>1. status' = status \/ \E r \in Requests : CommitUpdate(r)
    BY DEF Next, vars, Stripe, PayAtStripe, SessionExpires, DayPasses, SweepList, Step,
           BuildResponse, MarkPaidRead, MarkPaidWrite, MarkPaidDone, ReadOrder, WebhookArrives,
           Fail, Customer, RequestCancellation, RequestReturn, RequestExchange, StaffUpdate,
           SweepNext, Approve, Crash, Call, db
  <2>. QED
    BY <2>1 DEF Restocks
<1>2. /\ pc[r] = "commit" /\ order[r] \in Orders
      /\ seen[r].status = status[order[r]] /\ seen[r].payment = payment[order[r]]
      /\ change[r].status = "cancelled" => change[r].payment \in {Keep, "refunded"}
  BY <1>1 DEF CommitUpdate, Move, SerialInv, AsAsked
<1>3. order[r] = o /\ change[r].status = "cancelled"
  BY <1>1, <1>2 DEF CommitUpdate, NewStatus, IInv, TypeOK, Restocks
<1>4. NewPayment(r) = "refunded"
  BY <1>2, <1>3 DEF NewPayment, IsRestocking, Restocks
<1>. QED
  BY <1>1, <1>3, <1>4 DEF CommitUpdate, IInv, TypeOK

\* With one request at a time nothing comes between.
LEMMA AloneApart ==
    ASSUME \A q, r \in Requests : q = r, IInv, Apart, [Next]_vars
    PROVE  Apart'
<1>1. ASSUME NEW r \in Requests, pc'[r] = "commit" PROVE source'[order'[r]] = seen'[r].source
  <2>1. CASE ReadOrder(r)
    BY <1>1, <2>1 DEF ReadOrder, db, IInv, TypeOK
  <2>2. CASE ~ReadOrder(r)
    <3>. USE DEF Move, Call, db, job, IInv, TypeOK
    <3>1. CASE UNCHANGED vars \/ Stripe \/ SweepList
      BY <1>1, <3>1 DEF Apart, vars, Stripe, PayAtStripe, SessionExpires, DayPasses, SweepList
    <3>2. ~Crash
      BY <1>1 DEF Crash
    <3>3. ~WebhookArrives(r) /\ ~Fail(r)
      BY <1>1 DEF WebhookArrives, Fail
    <3>4. ~Step(r)
      BY <1>1, <2>2 DEF Step, BuildResponse, MarkPaidRead, MarkPaidWrite, MarkPaidDone, CommitUpdate
    <3>5. ASSUME NEW o \in Orders
          PROVE  /\ ~Customer(r, o) /\ ~SweepNext(r, o) /\ ~Approve(r, o)
                 /\ \A m \in StaffMoves : ~StaffUpdate(r, o, m)
      BY <1>1 DEF Customer, RequestCancellation, RequestReturn, RequestExchange, SweepNext,
                  Approve, StaffUpdate
    <3>. HIDE DEF Move, Call, db, job, IInv, TypeOK
    <3>6. \A q \in Requests : q = r
      OBVIOUS
    <3>. QED
      BY <3>1, <3>2, <3>3, <3>4, <3>5, <3>6 DEF Next
  <2>. QED
    BY <2>1, <2>2
<1>. QED
  BY <1>1 DEF Apart

\* SerialInv holds for as long as requests stay apart.
LEMMA SerialInvariance ==
    ASSUME OrdinaryStaff
    PROVE  Spec /\ []Apart => []SerialInv
<1>1. IInv /\ SerialInv /\ Apart /\ [Next]_vars => SerialInv'
  BY NextSerial
<1>. QED
  BY <1>1, InitSerial, Invariance, PTL DEF Spec

\* Nothing but requests that overlap puts the units of an order back twice, or
\* of an order that goes on: staff who keep to an order's states never do.
THEOREM ApartRestocksOnce == OrdinaryStaff => (Spec /\ []Apart => []RestockedOnce)
<1>. SUFFICES ASSUME OrdinaryStaff PROVE Spec /\ []Apart => []RestockedOnce
  OBVIOUS
<1>1. SerialInv => RestockedOnce
  BY DEF SerialInv
<1>. QED
  BY <1>1, SerialInvariance, PTL

\* Nothing but an approval in the middle of updateStatus makes units go back
\* into a pool they were not taken from.
THEOREM ApartRestocksAtSource == OrdinaryStaff => (Spec /\ []Apart => []RestockedAtSource)
<1>. SUFFICES ASSUME OrdinaryStaff PROVE Spec /\ []Apart => []RestockedAtSource
  OBVIOUS
<1>1. SerialInv => RestockedAtSource
  BY DEF SerialInv
<1>. QED
  BY <1>1, SerialInvariance, PTL

\* Nothing but a payment that arrives in the middle of updateStatus makes a
\* cancellation keep the customer's money.
THEOREM ApartCancelRefunds == OrdinaryStaff => (Spec /\ []Apart => CancelRefunds)
<1>. SUFFICES ASSUME OrdinaryStaff PROVE Spec /\ []Apart => CancelRefunds
  OBVIOUS
<1>1. IInv /\ SerialInv /\ [Next]_vars =>
        [\A o \in Orders :
            status[o] \notin Restocks /\ status'[o] = "cancelled" /\ payment[o] = "paid" =>
                payment'[o] = "refunded"]_vars
  BY CancelSerial
<1>. QED
  BY <1>1, SerialInvariance, Invariance, PTL DEF Spec, CancelRefunds

\* Where one request runs at a time, requests are apart.
THEOREM AloneIsApart == (\A q, r \in Requests : q = r) => (Spec => []Apart)
<1>. SUFFICES ASSUME \A q, r \in Requests : q = r PROVE Spec => []Apart
  OBVIOUS
<1>1. Init => Apart
  BY DEF Init, Apart
<1>2. IInv /\ Apart /\ [Next]_vars => Apart'
  BY AloneApart
<1>. QED
  BY <1>1, <1>2, Invariance, PTL DEF Spec

\* One request at a time, staff who keep to an order's states: units go back
\* once, where they came from, and cancellations refund.
THEOREM AloneIsExact ==
    OrdinaryStaff /\ (\A q, r \in Requests : q = r) =>
        (Spec => []RestockedOnce /\ []RestockedAtSource /\ CancelRefunds)
<1>. SUFFICES ASSUME OrdinaryStaff, \A q, r \in Requests : q = r
              PROVE  Spec => []RestockedOnce /\ []RestockedAtSource /\ CancelRefunds
  OBVIOUS
<1>1. /\ Spec => []Apart
      /\ Spec /\ []Apart => []RestockedOnce
      /\ Spec /\ []Apart => []RestockedAtSource
      /\ Spec /\ []Apart => CancelRefunds
  BY AloneIsApart, ApartRestocksOnce, ApartRestocksAtSource, ApartCancelRefunds
<1>. QED
  BY <1>1, PTL
-----------------------------------------------------------------------------
(* Refinement: while requests stay apart, each of them is one event of     *)
(* OrderBook.  updateStatus takes effect where it commits, markPaid where  *)
(* it writes, the customer's payment where Stripe takes it.                *)

Charged == session = "paid" \/ method = "demo_card"

\* Nobody marks an order before the customer is charged.
MarksAreCharged == \A r \in Requests : pc[r] \in {"webhook", "pay"} => Charged

LEMMA NextCharged ==
    ASSUME IInv, MarksAreCharged, [Next]_vars
    PROVE  MarksAreCharged' /\ (Charged => Charged')
<1>. USE DEF MarksAreCharged, Charged
<1>. DEFINE None(r) == pc'[r] \in {"webhook", "pay"} => pc[r] \in {"webhook", "pay"}
<1>0. ASSUME session' = session \/ session' = "paid", \A r \in Requests : None(r)
      PROVE  MarksAreCharged' /\ (Charged => Charged')
  BY <1>0, MethodStays
<1>1. CASE UNCHANGED vars \/ Stripe \/ SweepList
  BY <1>1, MethodStays DEF vars, world, Stripe, PayAtStripe, SessionExpires, DayPasses, SweepList
<1>2. ASSUME NEW r \in Requests, BuildResponse(r) PROVE MarksAreCharged' /\ (Charged => Charged')
  BY <1>2, MethodStays DEF BuildResponse, Move, IInv, TypeOK, RespondsFirst
<1>3. ASSUME NEW r \in Requests, WebhookArrives(r) PROVE MarksAreCharged' /\ (Charged => Charged')
  BY <1>3, MethodStays DEF WebhookArrives, world
<1>4. ASSUME NEW r \in Requests,
             \/ \E o \in Orders : MarkPaidRead(r, o)
             \/ MarkPaidWrite(r) \/ MarkPaidDone(r) \/ ReadOrder(r) \/ CommitUpdate(r) \/ Fail(r)
      PROVE  session' = session /\ \A q \in Requests : None(q)
  <2>. USE DEF Move, world, IInv, TypeOK
  <2>1. CASE \E o \in Orders : MarkPaidRead(r, o)
    BY <2>1 DEF MarkPaidRead
  <2>2. CASE MarkPaidWrite(r) \/ MarkPaidDone(r) \/ ReadOrder(r) \/ CommitUpdate(r)
    BY <2>2 DEF MarkPaidWrite, MarkPaidDone, ReadOrder, CommitUpdate
  <2>3. CASE Fail(r)
    BY <2>3 DEF Fail
  <2>. QED
    BY <1>4, <2>1, <2>2, <2>3
<1>5. CASE Crash
  BY <1>5, MethodStays DEF Crash, world
<1>6. ASSUME NEW r \in Requests, NEW o \in Orders, NEW a, NEW c, Call(r, o, a, c)
      PROVE  session' = session /\ \A q \in Requests : None(q)
  BY <1>6 DEF Call, Move, world, IInv, TypeOK
<1>7. ASSUME NEW r \in Requests, NEW o \in Orders, Approve(r, o)
      PROVE  session' = session /\ \A q \in Requests : None(q)
  BY <1>7 DEF Approve, world
<1>8. ASSUME NEW r \in Requests, NEW o \in Orders,
             \/ Customer(r, o) \/ SweepNext(r, o)
             \/ \E m \in StaffMoves : StaffUpdate(r, o, m)
      PROVE  session' = session /\ \A q \in Requests : None(q)
  BY <1>6, <1>8 DEF Customer, RequestCancellation, RequestReturn, RequestExchange, SweepNext,
                    StaffUpdate
<1>. HIDE DEF None, MarksAreCharged, Charged
<1>. QED
  BY <1>0, <1>1, <1>2, <1>3, <1>4, <1>5, <1>7, <1>8 DEF Next, Step

LEMMA InitRefines == Init => Book!Init
BY DEF Init, Book!Init, Sources, Book!Sources

\* updateStatus, on an order that is as it was read.
LEMMA CommitRefines ==
    ASSUME IInv, SerialInv, Apart, NEW r \in Requests, CommitUpdate(r)
    PROVE  Book!Next
<1>. USE DEF Restocks, Book!Restocks
<1>1. PICK o \in Orders : o = order[r] /\ pc[r] = "commit"
  BY DEF CommitUpdate, Move, SerialInv, AsAsked
<1>. DEFINE to == change[r].status
            pay == change[r].payment
<1>2. /\ to \in Book!Statuses \cup {Keep} /\ pay \in Book!Payments \cup {Keep}
      /\ Keep \notin Restocks
  BY LifecycleAssumption
     DEF IInv, TypeOK, Change, Statuses, Cancellable, Payments, Book!Statuses, Book!Payments
<1>3. /\ status[o] \in Restocks => to \in Restocks \cup {Keep}
      /\ to = "cancelled" => pay \in {Keep, "refunded"}
      /\ seen[r].status = status[o] /\ seen[r].payment = payment[o] /\ seen[r].source = source[o]
  BY <1>1 DEF SerialInv, AsAsked, Apart
<1>4. IsRestocking(seen[r].status, to) <=> Book!Closes(o, to)
  BY <1>3 DEF IsRestocking, Book!Closes
<1>5. EarnsReward(seen[r].status, to) <=> Book!Delivers(o, to)
  BY <1>3 DEF EarnsReward, Book!Delivers
<1>6. NewPayment(r) = IF Book!Refunds(o, to, pay) THEN "refunded"
                      ELSE IF pay = Keep THEN payment[o] ELSE pay
  BY <1>1, <1>3, <1>4 DEF NewPayment, Book!Refunds
<1>7. NewStatus(r) = IF to = Keep THEN status[o] ELSE to
  BY <1>1 DEF NewStatus
<1>8. Book!Update(o, to, pay)
  <2>1. status' = [status EXCEPT ![o] = IF to = Keep THEN @ ELSE to]
    BY <1>1, <1>7 DEF CommitUpdate, IInv, TypeOK
  <2>2. payment' = [payment EXCEPT ![o] = IF Book!Refunds(o, to, pay) THEN "refunded"
                                          ELSE IF pay = Keep THEN @ ELSE pay]
    BY <1>1, <1>6 DEF CommitUpdate, IInv, TypeOK
  <2>3. restored' = [restored EXCEPT ![o][source[o]] =
                        @ + IF Book!Closes(o, to) THEN 1 ELSE 0]
    BY <1>1, <1>3, <1>4 DEF CommitUpdate, Pool
  <2>4. rewarded' = [rewarded EXCEPT ![o] = @ + IF Book!Delivers(o, to) THEN 1 ELSE 0]
    BY <1>1, <1>5 DEF CommitUpdate
  <2>5. UNCHANGED <<source, (session = "paid" \/ method = "demo_card")>>
    BY DEF CommitUpdate, world
  <2>. QED
    BY <1>3, <2>1, <2>2, <2>3, <2>4, <2>5 DEF Book!Update
<1>. QED
  BY <1>2, <1>8 DEF Book!Next

\* The mark, and the approval.
LEMMA MarkRefines ==
    ASSUME IInv, MarksAreCharged, NEW r \in Requests, MarkPaidWrite(r)
    PROVE  Book!Next
<1>1. PICK o \in Orders : o = order[r]
  BY DEF MarkPaidWrite, Move, IInv, SeenClosedIsRestocked
<1>2. Charged
  BY DEF MarkPaidWrite, Move, MarksAreCharged
<1>3. Book!Mark(o)
  BY <1>1, <1>2 DEF MarkPaidWrite, world, Charged, Book!Mark
<1>. QED
  BY <1>3 DEF Book!Next

LEMMA ApproveRefines ==
    ASSUME OrdinaryStaff, NEW r \in Requests, NEW o \in Orders, Approve(r, o)
    PROVE  Book!Next
<1>1. Book!TakeOver(o)
  BY DEF OrdinaryStaff, Approve, world, Restocks, Book!Restocks, Book!TakeOver
<1>. QED
  BY <1>1 DEF Book!Next

\* A step that leaves the orders alone is the customer's payment, or nothing.
LEMMA OtherRefines ==
    ASSUME MarksAreCharged, MarksAreCharged', Charged => Charged',
           UNCHANGED <<status, payment, source, restored, rewarded>>
    PROVE  [Book!Next]_(Book!vars)
<1>1. CASE Charged' <=> Charged
  BY <1>1 DEF Book!vars, Charged
<1>2. CASE Charged' /\ ~Charged
  BY <1>2 DEF Book!Next, Book!Charge, Charged
<1>. QED
  BY <1>1, <1>2

LEMMA NextRefines ==
    ASSUME OrdinaryStaff, IInv, SerialInv, Apart, MarksAreCharged, [Next]_vars
    PROVE  [Book!Next]_(Book!vars)
<1>. USE DEF db
<1>0. /\ MarksAreCharged' /\ (Charged => Charged')
      /\ UNCHANGED <<status, payment, source, restored, rewarded>> => [Book!Next]_(Book!vars)
  BY NextCharged, OtherRefines
<1>1. CASE UNCHANGED vars \/ Stripe \/ SweepList \/ Crash
  BY <1>0, <1>1 DEF vars, Stripe, PayAtStripe, SessionExpires, DayPasses, SweepList, Crash
<1>2. ASSUME NEW r \in Requests, Step(r) \/ WebhookArrives(r) \/ Fail(r)
      PROVE  [Book!Next]_(Book!vars)
  BY <1>0, <1>2, CommitRefines, MarkRefines
     DEF Step, BuildResponse, MarkPaidRead, MarkPaidDone, ReadOrder, WebhookArrives, Fail
<1>3. ASSUME NEW r \in Requests, NEW o \in Orders,
             \/ Customer(r, o) \/ SweepNext(r, o)
             \/ \E m \in StaffMoves : StaffUpdate(r, o, m)
      PROVE  [Book!Next]_(Book!vars)
  BY <1>0, <1>3 DEF Customer, RequestCancellation, RequestReturn, RequestExchange, SweepNext,
                    StaffUpdate, Call
<1>. HIDE DEF db
<1>. QED
  BY <1>1, <1>2, <1>3, ApproveRefines DEF Next

\* Requests that stay apart are indivisible: with ordinary staff the reads and
\* writes of updateStatus and markPaid implement OrderBook.
THEOREM ApartImplementsOrderBook == OrdinaryStaff => (Spec /\ []Apart => ImplementsOrderBook)
<1>. SUFFICES ASSUME OrdinaryStaff PROVE Spec /\ []Apart => ImplementsOrderBook
  OBVIOUS
<1>1. Init => MarksAreCharged
  BY DEF Init, MarksAreCharged
<1>2. IInv /\ MarksAreCharged /\ [Next]_vars => MarksAreCharged'
  BY NextCharged
<1>3. IInv /\ SerialInv /\ Apart /\ MarksAreCharged /\ [Next]_vars => [Book!Next]_(Book!vars)
  BY NextRefines
<1>. QED
  BY <1>1, <1>2, <1>3, InitRefines, SerialInvariance, Invariance, PTL
     DEF Spec, ImplementsOrderBook, Book!Spec

\* So does one request at a time.
THEOREM AloneImplementsOrderBook ==
    OrdinaryStaff /\ (\A q, r \in Requests : q = r) => (Spec => ImplementsOrderBook)
<1>. SUFFICES ASSUME OrdinaryStaff, \A q, r \in Requests : q = r
              PROVE  Spec => ImplementsOrderBook
  OBVIOUS
<1>1. Spec => []Apart
  BY AloneIsApart
<1>2. Spec /\ []Apart => ImplementsOrderBook
  BY ApartImplementsOrderBook
<1>. QED
  BY <1>1, <1>2, PTL
=============================================================================
