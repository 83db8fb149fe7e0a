--------------------------- MODULE Checkout_proofs ---------------------------
(***************************************************************************)
(* Theorems about Checkout for any requests, customers, products and       *)
(* limits: it is type correct, it never oversells, an order is all of its  *)
(* cart or nothing, the coupon stays within its limits, and the whole      *)
(* implements AtomicCheckout.                                              *)
(***************************************************************************)
EXTENDS Checkout, Sums, FiniteSetTheorems, TLAPS

LEMMA NothingType == Nothing \in [Products -> 0..MaxQty]
BY CheckoutAssumption DEF Nothing

LEMMA UnseenType == Unseen \in [usageCount : Nat, perUserLimit : 0..MaxLimit]
BY CheckoutAssumption DEF Unseen

\* The coupon part of the invariant reads nothing but these variables.
LEMMA UsedByType ==
    ASSUME redemptions \subseteq Checkouts, NEW u
    PROVE  /\ UsedBy(u) \in Nat
           /\ IsFiniteSet(redemptions)
           /\ Cardinality(redemptions) \in Nat
<1>1. IsFiniteSet(redemptions)
  BY CheckoutAssumption, FS_Subset
<1>2. IsFiniteSet({c \in redemptions : UserOf[c] = u})
  BY <1>1, FS_Subset
<1>. QED
  BY <1>1, <1>2, FS_CardinalityType DEF UsedBy

LEMMA InitInv == Init => IInv
<1>. SUFFICES ASSUME Init PROVE IInv
  OBVIOUS
<1>1. TypeOK
  <2>1. sold \in [Checkouts -> [Products -> Nat]]
    BY DEF Init, Nothing
  <2>2. cart \in [Users -> Cart]
    BY NothingType DEF Init, Cart
  <2>3. lines \in [Checkouts -> [Products -> 0..MaxQty]]
    BY NothingType DEF Init
  <2>4. taken \in [Checkouts -> [Products -> 0..MaxQty]]
    BY NothingType DEF Init
  <2>5. seen \in [Checkouts -> [usageCount : Nat, perUserLimit : 0..MaxLimit]]
    BY UnseenType DEF Init
  <2>6. coupon \in CouponRow /\ peak \in Limits
    <3>1. PICK l \in 1..MaxLimit, m \in 1..MaxLimit :
            coupon = [exists |-> TRUE, enabled |-> TRUE, usageLimit |-> l,
                      perUserLimit |-> m, usageCount |-> 0]
      BY DEF Init
    <3>2. coupon \in CouponRow
      BY <3>1 DEF CouponRow
    <3>3. peak = [usageLimit |-> l, perUserLimit |-> m]
      BY <3>1 DEF Init
    <3>. QED
      BY <3>2, <3>3 DEF Limits
  <2>7. stock \in [Products -> Nat]
    BY CheckoutAssumption DEF Init
  <2>8. /\ redemptions \subseteq Checkouts
        /\ pc \in [Checkouts -> {"idle", "read", "placed", "rejected"} \cup InTx]
        /\ wants \in [Checkouts -> BOOLEAN]
        /\ opened \in [Checkouts -> SUBSET Stores]
        /\ target \in [Checkouts -> Products \cup {None}]
    BY DEF Init
  <2>. QED
    BY <2>1, <2>2, <2>3, <2>4, <2>5, <2>6, <2>7, <2>8 DEF TypeOK
<1>2. Progress
  BY DEF Init, Progress, InTx, Holds, Nothing
<1>3. NoOversell
  BY <1>1 DEF Init, NoOversell, Holds, Nothing, TypeOK
<1>4. AllOrNothing
  BY DEF Init, AllOrNothing
<1>5. CouponWithinLimits
  <2>1. Cardinality({}) = 0
    BY FS_EmptySet
  <2>2. \A u \in Users : UsedBy(u) = 0
    BY <2>1 DEF Init, UsedBy
  <2>. QED
    BY <1>1, <2>1, <2>2, CheckoutAssumption
       DEF Init, CouponWithinLimits, TypeOK, Limits
<1>6. DiscountIsRedeemed /\ SeenStillTrue
  BY DEF Init, DiscountIsRedeemed, SeenStillTrue
<1>7. PeakIsHighest
  BY <1>1 DEF Init, PeakIsHighest, TypeOK, CouponRow, Limits
<1>. QED
  BY <1>1, <1>2, <1>3, <1>4, <1>5, <1>6, <1>7 DEF IInv

-----------------------------------------------------------------------------
\* A rollback releases what the transaction held and leaves the database
\* as it was.
LEMMA RollbackInv ==
    ASSUME IInv, NEW c \in Checkouts, pc[c] \in InTx, Rollback(c)
    PROVE  IInv'
<1>. USE DEF Rollback
<1>1. TypeOK'
  BY NothingType, UnseenType DEF TypeOK, IInv
<1>2. Progress'
  BY <1>1 DEF IInv, TypeOK, Progress, InTx, Holds, AllFulfilled, Fulfilled, Nothing
<1>3. NoOversell'
  BY <1>1, NothingType DEF IInv, TypeOK, NoOversell, Holds, Nothing
<1>4. AllOrNothing'
  BY DEF IInv, TypeOK, AllOrNothing, InTx
<1>5. CouponWithinLimits' /\ PeakIsHighest'
  BY DEF IInv, CouponWithinLimits, PeakIsHighest, UsedBy
<1>6. DiscountIsRedeemed'
  BY DEF IInv, TypeOK, DiscountIsRedeemed, InTx
<1>7. SeenStillTrue'
  BY DEF IInv, TypeOK, SeenStillTrue, UsedBy
<1>. QED
  BY <1>1, <1>2, <1>3, <1>4, <1>5, <1>6, <1>7 DEF IInv

\* The steps of a request before it commits.
LEMMA RequestInv ==
    ASSUME IInv, NEW c \in Checkouts, Request(c), ~Commit(c)
    PROVE  IInv'
<1>1. CASE ReadCart(c)
  <2>. USE <1>1 DEF ReadCart, Move, db, txn
  <2>0. cart[UserOf[c]] \in Cart
    BY CheckoutAssumption DEF IInv, TypeOK
  <2>1. TypeOK'
    BY <2>0 DEF IInv, TypeOK, Cart
  <2>2. Progress' /\ NoOversell'
    BY <2>0, <2>1 DEF IInv, TypeOK, Progress, NoOversell, InTx, Holds, AllFulfilled, Fulfilled, Nothing, Cart
  <2>3. AllOrNothing' /\ DiscountIsRedeemed'
    BY DEF IInv, TypeOK, AllOrNothing, DiscountIsRedeemed
  <2>4. CouponWithinLimits' /\ PeakIsHighest' /\ SeenStillTrue'
    BY DEF IInv, TypeOK, CouponWithinLimits, PeakIsHighest, SeenStillTrue, UsedBy
  <2>. QED
    BY <2>1, <2>2, <2>3, <2>4 DEF IInv
<1>2. CASE Begin(c) \/ Refuse(c)
  <2>. USE <1>2 DEF Begin, Refuse, Move, db, txn
  <2>1. TypeOK'
    BY DEF IInv, TypeOK, InTx
  <2>2. Progress' /\ NoOversell'
    BY <2>1 DEF IInv, TypeOK, Progress, NoOversell, InTx, Holds, AllFulfilled, Fulfilled
  <2>3. AllOrNothing' /\ DiscountIsRedeemed'
    BY DEF IInv, TypeOK, AllOrNothing, DiscountIsRedeemed
  <2>4. CouponWithinLimits' /\ PeakIsHighest'
    BY DEF IInv, CouponWithinLimits, PeakIsHighest, UsedBy
  <2>5. \A d \in Checkouts : pc'[d] \in {"count", "redeem", "commit"} => pc'[d] = pc[d]
    BY DEF IInv, TypeOK
  <2>6. SeenStillTrue'
    BY <2>5 DEF IInv, SeenStillTrue, UsedBy
  <2>. QED
    BY <2>1, <2>2, <2>3, <2>4, <2>6 DEF IInv
<1>3. ASSUME NEW s \in Stores, CreateOrder(c, s) PROVE IInv'
  <2>. USE <1>3 DEF CreateOrder, db
  <2>1. TypeOK'
    BY DEF IInv, TypeOK
  <2>2. Progress' /\ NoOversell' /\ AllOrNothing' /\ DiscountIsRedeemed'
    BY DEF IInv, TypeOK, Progress, NoOversell, AllOrNothing, DiscountIsRedeemed, InTx, Holds, AllFulfilled, Fulfilled
  <2>3. CouponWithinLimits' /\ PeakIsHighest' /\ SeenStillTrue'
    BY DEF IInv, CouponWithinLimits, PeakIsHighest, SeenStillTrue, UsedBy
  <2>. QED
    BY <2>1, <2>2, <2>3 DEF IInv
<1>4. CASE CouponGone(c) \/ OutOfStock(c) \/ LostRace(c)
  BY <1>4, RollbackInv DEF CouponGone, OutOfStock, LostRace, InTx
<1>5. ASSUME NEW p \in Products, SendDecrement(c, p) PROVE IInv'
  <2>. USE <1>5 DEF SendDecrement, db
  <2>1. TypeOK'
    BY DEF IInv, TypeOK
  <2>2. Progress' /\ NoOversell' /\ AllOrNothing' /\ DiscountIsRedeemed'
    BY CheckoutAssumption DEF IInv, TypeOK, Progress, NoOversell, AllOrNothing, DiscountIsRedeemed, InTx, Holds, AllFulfilled, Fulfilled
  <2>3. CouponWithinLimits' /\ PeakIsHighest' /\ SeenStillTrue'
    BY DEF IInv, CouponWithinLimits, PeakIsHighest, SeenStillTrue, UsedBy
  <2>. QED
    BY <2>1, <2>2, <2>3 DEF IInv
<1>6. CASE DecrementStock(c)
  <2>. DEFINE p == target[c]
  <2>. USE <1>6 DEF DecrementStock, db
  <2>1. p \in Products /\ lines[c][p] \in 0..MaxQty /\ StoreOf[p] \in opened[c]
    BY DEF IInv, TypeOK, Progress
  <2>2. TypeOK'
    BY <2>1 DEF IInv, TypeOK
  <2>3. \A q \in Products : taken'[c][q] = IF q = p THEN lines[c][p] ELSE taken[c][q]
    BY <2>1 DEF IInv, TypeOK
  <2>4. \A d \in Checkouts : d # c => taken'[d] = taken[d]
    BY <2>1 DEF IInv, TypeOK
  <2>5. Progress'
    BY <2>1, <2>2, <2>3, <2>4 DEF IInv, TypeOK, Progress, InTx, Holds, AllFulfilled, Fulfilled
  <2>6. NoOversell'
    <3>1. ASSUME NEW q \in Products, NEW d \in Checkouts PROVE taken'[d][q] <= stock[q]
      BY <2>1, <2>3, <2>4 DEF IInv, TypeOK, NoOversell
    <3>2. ASSUME NEW q \in Products, NEW d \in Checkouts, NEW e \in Checkouts,
                 taken'[d][q] > 0, taken'[e][q] > 0
          PROVE  d = e
      <4>1. CASE q = p
        <5>1. \A x \in Checkouts : ~(taken[x][p] > 0)
          BY DEF StockLocked, Holds
        <5>. QED
          BY <3>2, <4>1, <5>1, <2>4
      <4>2. CASE q # p
        BY <3>2, <4>2, <2>3, <2>4 DEF IInv, NoOversell, Holds
      <4>. QED
        BY <4>1, <4>2
    <3>. QED
      BY <3>1, <3>2 DEF NoOversell, Holds
  <2>7. AllOrNothing' /\ DiscountIsRedeemed'
    BY DEF IInv, AllOrNothing, DiscountIsRedeemed
  <2>8. CouponWithinLimits' /\ PeakIsHighest' /\ SeenStillTrue'
    BY DEF IInv, CouponWithinLimits, PeakIsHighest, SeenStillTrue, UsedBy
  <2>. QED
    BY <2>2, <2>5, <2>6, <2>7, <2>8 DEF IInv
<1>7. CASE ReadCoupon(c) /\ ~Rollback(c)
  <2>. DEFINE read == [usageCount |-> coupon.usageCount, perUserLimit |-> coupon.perUserLimit]
  <2>0. /\ pc[c] = "tx" /\ AllFulfilled(c) /\ wants[c]
        /\ coupon.exists /\ coupon.usageCount < coupon.usageLimit
        /\ pc' = [pc EXCEPT ![c] = "count"]
        /\ seen' = [seen EXCEPT ![c] = read]
        /\ UNCHANGED <<lines, wants, opened, taken, target>>
        /\ UNCHANGED <<stock, sold, coupon, peak, redemptions, cart>>
    BY <1>7 DEF ReadCoupon, db
  <2>. USE <2>0
  <2>1. TypeOK'
    <3>1. read \in [usageCount : Nat, perUserLimit : 0..MaxLimit]
      BY CheckoutAssumption DEF IInv, TypeOK, CouponRow
    <3>2. seen' \in [Checkouts -> [usageCount : Nat, perUserLimit : 0..MaxLimit]]
      BY <3>1 DEF IInv, TypeOK
    <3>. QED
      BY <3>2 DEF IInv, TypeOK, InTx
  <2>2. Progress' /\ NoOversell' /\ AllOrNothing' /\ DiscountIsRedeemed'
    BY DEF IInv, TypeOK, Progress, NoOversell, AllOrNothing, DiscountIsRedeemed, InTx, Holds, AllFulfilled, Fulfilled
  <2>3. CouponWithinLimits' /\ PeakIsHighest'
    BY DEF IInv, CouponWithinLimits, PeakIsHighest, UsedBy
  <2>4. SeenStillTrue'
    <3>1. /\ coupon.usageCount \in Nat /\ coupon.usageLimit \in 1..MaxLimit
          /\ coupon.perUserLimit \in 1..MaxLimit
          /\ peak.usageLimit \in 1..MaxLimit /\ peak.perUserLimit \in 1..MaxLimit
      BY DEF IInv, TypeOK, CouponRow, Limits
    <3>2. seen'[c].usageCount = coupon.usageCount /\ seen'[c].perUserLimit = coupon.perUserLimit
      BY DEF IInv, TypeOK
    <3>3. /\ coupon.usageCount < peak.usageLimit
          /\ coupon.perUserLimit <= peak.perUserLimit
      BY <3>1, CheckoutAssumption DEF IInv, PeakIsHighest
    <3>4. \A d \in Checkouts : d # c => seen'[d] = seen[d] /\ pc'[d] = pc[d]
      BY DEF IInv, TypeOK
    <3>5. pc'[c] = "count"
      BY DEF IInv, TypeOK
    <3>6. \A u : UsedBy(u)' = UsedBy(u)
      BY DEF UsedBy
    <3>. QED
      BY <3>1, <3>2, <3>3, <3>4, <3>5, <3>6 DEF IInv, SeenStillTrue
  <2>. QED
    BY <2>1, <2>2, <2>3, <2>4 DEF IInv
<1>8. CASE CountRedemptions(c) /\ ~Rollback(c)
  <2>0. /\ pc[c] = "count" /\ UsedBy(UserOf[c]) < seen[c].perUserLimit
        /\ pc' = [pc EXCEPT ![c] = "redeem"]
        /\ UNCHANGED <<lines, wants, opened, taken, target, seen>>
        /\ UNCHANGED <<stock, sold, coupon, peak, redemptions, cart>>
    BY <1>8 DEF CountRedemptions, db, txn
  <2>. USE <2>0
  <2>1. TypeOK'
    BY DEF IInv, TypeOK, InTx
  <2>2. Progress' /\ NoOversell' /\ AllOrNothing' /\ DiscountIsRedeemed'
    BY DEF IInv, TypeOK, Progress, NoOversell, AllOrNothing, DiscountIsRedeemed, InTx, Holds, AllFulfilled, Fulfilled
  <2>3. CouponWithinLimits' /\ PeakIsHighest'
    BY DEF IInv, CouponWithinLimits, PeakIsHighest, UsedBy
  <2>4. SeenStillTrue'
    <3>1. \A u : UsedBy(u)' = UsedBy(u)
      BY DEF UsedBy
    <3>2. \A d \in Checkouts : pc'[d] = IF d = c THEN "redeem" ELSE pc[d]
      BY DEF IInv, TypeOK
    <3>. QED
      BY <3>1, <3>2 DEF IInv, SeenStillTrue
  <2>. QED
    BY <2>1, <2>2, <2>3, <2>4 DEF IInv
<1>9. CASE RedeemCoupon(c)
  <2>. USE <1>9 DEF RedeemCoupon, Move, db, txn
  <2>1. TypeOK'
    BY DEF IInv, TypeOK, InTx
  <2>2. Progress' /\ NoOversell' /\ AllOrNothing' /\ DiscountIsRedeemed'
    BY DEF IInv, TypeOK, Progress, NoOversell, AllOrNothing, DiscountIsRedeemed, InTx, Holds, AllFulfilled, Fulfilled
  <2>3. CouponWithinLimits' /\ PeakIsHighest'
    BY DEF IInv, CouponWithinLimits, PeakIsHighest, UsedBy
  <2>4. \A d \in Checkouts : pc[d] # "commit"
    BY DEF IInv, Progress, CouponLocked, HoldsCoupon
  <2>5. SeenStillTrue'
    BY <2>4 DEF IInv, TypeOK, SeenStillTrue, UsedBy
  <2>. QED
    BY <2>1, <2>2, <2>3, <2>5 DEF IInv
<1>10. CASE (ReadCoupon(c) \/ CountRedemptions(c)) /\ Rollback(c)
  BY <1>10, RollbackInv DEF ReadCoupon, CountRedemptions, InTx
<1>. QED
  BY <1>1, <1>2, <1>3, <1>4, <1>5, <1>6, <1>7, <1>8, <1>9, <1>10 DEF Request

\* One more redemption row: one more for its customer, as many for others.
LEMMA OneMoreRedemption ==
    ASSUME redemptions \subseteq Checkouts, NEW c \in Checkouts, c \notin redemptions,
           redemptions' = redemptions \cup {c}
    PROVE  /\ Cardinality(redemptions') = Cardinality(redemptions) + 1
           /\ \A u : UsedBy(u)' = IF u = UserOf[c] THEN UsedBy(u) + 1 ELSE UsedBy(u)
<1>1. IsFiniteSet(redemptions)
  BY UsedByType
<1>2. Cardinality(redemptions') = Cardinality(redemptions) + 1
  BY <1>1, FS_AddElement
<1>3. ASSUME NEW u PROVE UsedBy(u)' = IF u = UserOf[c] THEN UsedBy(u) + 1 ELSE UsedBy(u)
  <2>. DEFINE mine == {d \in redemptions : UserOf[d] = u}
  <2>1. IsFiniteSet(mine)
    BY <1>1, FS_Subset
  <2>2. CASE u = UserOf[c]
    <3>1. {d \in redemptions' : UserOf[d] = u} = mine \cup {c}
      BY <2>2
    <3>2. c \notin mine
      OBVIOUS
    <3>3. Cardinality(mine \cup {c}) = Cardinality(mine) + 1
      BY <2>1, <3>2, FS_AddElement
    <3>. QED
      BY <2>2, <3>1, <3>3 DEF UsedBy
  <2>3. CASE u # UserOf[c]
    <3>1. {d \in redemptions' : UserOf[d] = u} = mine
      BY <2>3
    <3>. QED
      BY <2>3, <3>1 DEF UsedBy
  <2>. QED
    BY <2>2, <2>3
<1>. QED
  BY <1>2, <1>3

LEMMA CommitInv ==
    ASSUME IInv, NEW c \in Checkouts, Commit(c)
    PROVE  IInv'
<1>. USE DEF Commit
<1>1. AllFulfilled(c) /\ pc[c] \in InTx /\ (wants[c] <=> pc[c] = "commit")
  BY DEF IInv, Progress, ReadyToCommit, InTx
<1>2. taken[c] = lines[c]
  BY <1>1 DEF IInv, TypeOK, AllFulfilled, Fulfilled
<1>3. \A d \in Checkouts : taken'[d] = IF d = c THEN Nothing ELSE taken[d]
  BY DEF IInv, TypeOK
<1>4. \A d \in Checkouts : pc'[d] = IF d = c THEN "placed" ELSE pc[d]
  BY DEF IInv, TypeOK
<1>5. c \notin redemptions
  BY <1>1 DEF IInv, DiscountIsRedeemed, InTx
<1>6. TypeOK'
  <2>1. stock' \in [Products -> Nat]
    <3>1. ASSUME NEW p \in Products PROVE stock[p] - taken[c][p] \in Nat
      <4>1. stock[p] \in Nat /\ taken[c][p] \in 0..MaxQty /\ taken[c][p] <= stock[p]
        BY DEF IInv, TypeOK, NoOversell
      <4>. QED
        BY <4>1, CheckoutAssumption
    <3>. QED
      BY <3>1
  <2>2. sold' \in [Checkouts -> [Products -> Nat]]
    BY CheckoutAssumption DEF IInv, TypeOK
  <2>3. coupon' \in CouponRow /\ redemptions' \subseteq Checkouts
    <3>. HIDE DEF Commit
    <3>1. coupon \in CouponRow /\ redemptions \subseteq Checkouts
      BY DEF IInv, TypeOK
    <3>2. [coupon EXCEPT !.usageCount = @ + 1] \in CouponRow
      BY <3>1 DEF CouponRow
    <3>3. ChargeCoupon(c)
      BY DEF Commit
    <3>. QED
      BY <3>1, <3>2, <3>3 DEF ChargeCoupon
  <2>4. cart' \in [Users -> Cart]
    BY NothingType DEF IInv, TypeOK, Cart
  <2>5. taken' \in [Checkouts -> [Products -> 0..MaxQty]]
    BY NothingType DEF IInv, TypeOK
  <2>6. seen' \in [Checkouts -> [usageCount : Nat, perUserLimit : 0..MaxLimit]]
    BY UnseenType DEF IInv, TypeOK
  <2>7. /\ peak' \in Limits /\ lines' \in [Checkouts -> [Products -> 0..MaxQty]]
        /\ wants' \in [Checkouts -> BOOLEAN] /\ opened' \in [Checkouts -> SUBSET Stores]
        /\ target' \in [Checkouts -> Products \cup {None}]
        /\ pc' \in [Checkouts -> {"idle", "read", "placed", "rejected"} \cup InTx]
    BY DEF IInv, TypeOK
  <2>. QED
    BY <2>1, <2>2, <2>3, <2>4, <2>5, <2>6, <2>7 DEF TypeOK
<1>7. target[c] = None
  BY <1>1 DEF IInv, TypeOK, Progress, AllFulfilled
<1>8. Progress'
  BY <1>3, <1>4, <1>6, <1>7 DEF IInv, TypeOK, Progress, InTx, Holds, AllFulfilled, Fulfilled, Nothing
<1>9. NoOversell'
  <2>1. ASSUME NEW p \in Products, NEW d \in Checkouts PROVE taken'[d][p] <= stock'[p]
    <3>1. /\ stock[p] \in Nat /\ taken[c][p] \in Nat /\ taken[d][p] \in Nat
          /\ taken[c][p] <= stock[p] /\ taken[d][p] <= stock[p]
          /\ stock'[p] = stock[p] - taken[c][p]
      BY CheckoutAssumption DEF IInv, TypeOK, NoOversell
    <3>2. CASE d = c
      BY <3>1, <3>2, <1>3 DEF Nothing
    <3>3. CASE d # c
      <4>1. taken[c][p] = 0 \/ taken[d][p] = 0
        BY <3>1, <3>3 DEF IInv, NoOversell, Holds
      <4>. QED
        BY <3>1, <3>3, <4>1, <1>3
    <3>. QED
      BY <3>2, <3>3
  <2>2. ASSUME NEW p \in Products, NEW d \in Checkouts, NEW e \in Checkouts,
               taken'[d][p] > 0, taken'[e][p] > 0
        PROVE  d = e
    BY <2>2, <1>3 DEF IInv, NoOversell, Holds, Nothing
  <2>. QED
    BY <2>1, <2>2 DEF NoOversell, Holds
<1>10. AllOrNothing'
  BY <1>2, <1>4 DEF IInv, TypeOK, AllOrNothing
<1>11. PeakIsHighest'
  BY DEF IInv, TypeOK, CouponRow, PeakIsHighest, ChargeCoupon
<1>12. CASE ~wants[c]
  <2>1. UNCHANGED <<coupon, redemptions, peak>>
    BY <1>12 DEF ChargeCoupon
  <2>2. \A u : UsedBy(u)' = UsedBy(u)
    BY <2>1 DEF UsedBy
  <2>3. CouponWithinLimits'
    BY <2>1, <2>2 DEF IInv, CouponWithinLimits
  <2>4. DiscountIsRedeemed'
    BY <2>1, <1>4, <1>5, <1>12 DEF IInv, DiscountIsRedeemed
  <2>5. SeenStillTrue'
    BY <2>1, <2>2, <1>4 DEF IInv, TypeOK, SeenStillTrue
  <2>. QED
    BY <1>6, <1>8, <1>9, <1>10, <1>11, <2>3, <2>4, <2>5 DEF IInv
<1>13. CASE wants[c]
  <2>1. /\ coupon' = [coupon EXCEPT !.usageCount = @ + 1]
        /\ redemptions' = redemptions \cup {c} /\ peak' = peak
    BY <1>13 DEF ChargeCoupon
  <2>2. /\ coupon'.usageCount = coupon.usageCount + 1 /\ coupon'.exists = coupon.exists
        /\ coupon.usageCount \in Nat
        /\ peak.usageLimit \in Nat /\ peak.perUserLimit \in Nat
    BY <2>1, CheckoutAssumption DEF IInv, TypeOK, CouponRow, Limits
  <2>3. /\ Cardinality(redemptions') = Cardinality(redemptions) + 1
        /\ \A u : UsedBy(u)' = IF u = UserOf[c] THEN UsedBy(u) + 1 ELSE UsedBy(u)
    BY <2>1, <1>5, OneMoreRedemption DEF IInv, TypeOK
  <2>4. /\ pc[c] = "commit" /\ coupon.exists
        /\ seen[c].usageCount = coupon.usageCount
        /\ seen[c].usageCount < peak.usageLimit
        /\ UsedBy(UserOf[c]) < seen[c].perUserLimit
        /\ seen[c].perUserLimit <= peak.perUserLimit
        /\ seen[c].perUserLimit \in Nat
        /\ \A d \in Checkouts : pc[d] = "commit" => d = c
    BY <1>1, <1>13, CheckoutAssumption DEF IInv, TypeOK, SeenStillTrue
  <2>5. \A u : UsedBy(u) \in Nat
    BY UsedByType DEF IInv, TypeOK
  <2>6. CouponWithinLimits'
    BY <2>1, <2>2, <2>3, <2>4, <2>5 DEF IInv, CouponWithinLimits
  <2>7. DiscountIsRedeemed'
    BY <2>1, <2>2, <1>4, <1>13 DEF IInv, DiscountIsRedeemed
  <2>8. SeenStillTrue'
    <3>1. ASSUME NEW d \in Checkouts, pc'[d] \in {"count", "redeem", "commit"}
          PROVE  /\ d # c /\ pc'[d] = pc[d] /\ pc[d] # "commit" /\ seen'[d] = seen[d]
                 /\ seen[d].usageCount \in Nat
                 /\ seen[d].usageCount <= coupon.usageCount
                 /\ seen[d].usageCount < peak.usageLimit
                 /\ seen[d].perUserLimit <= peak.perUserLimit
      BY <3>1, <1>4, <2>4 DEF IInv, TypeOK, SeenStillTrue
    <3>. QED
      BY <3>1, <2>1, <2>2, <2>4 DEF SeenStillTrue
  <2>. QED
    BY <1>6, <1>8, <1>9, <1>10, <1>11, <2>6, <2>7, <2>8 DEF IInv
<1>. QED
  BY <1>12, <1>13

\* What everybody else does.
LEMMA OthersInv ==
    ASSUME IInv,
           \/ Staff
           \/ \E u \in Users, content \in Contents : EditCart(u, content)
    PROVE  IInv'
<1>1. ASSUME NEW u \in Users, NEW content \in Contents, EditCart(u, content) PROVE IInv'
  <2>. USE <1>1 DEF EditCart
  <2>1. TypeOK'
    BY ContentsAssumption DEF IInv, TypeOK
  <2>2. Progress' /\ NoOversell' /\ AllOrNothing' /\ DiscountIsRedeemed'
    BY DEF IInv, Progress, NoOversell, AllOrNothing, DiscountIsRedeemed, Holds, AllFulfilled, Fulfilled
  <2>3. CouponWithinLimits' /\ PeakIsHighest' /\ SeenStillTrue'
    BY DEF IInv, CouponWithinLimits, PeakIsHighest, SeenStillTrue, UsedBy
  <2>. QED
    BY <2>1, <2>2, <2>3 DEF IInv
<1>2. ASSUME NEW p \in Products, NEW n \in 0..MaxStock, WriteStock(p, n) PROVE IInv'
  <2>. USE <1>2 DEF WriteStock
  <2>1. TypeOK'
    BY CheckoutAssumption DEF IInv, TypeOK
  <2>2. NoOversell'
    BY CheckoutAssumption DEF IInv, TypeOK, NoOversell, Holds, StockLocked
  <2>3. Progress' /\ AllOrNothing' /\ DiscountIsRedeemed'
    BY DEF IInv, Progress, AllOrNothing, DiscountIsRedeemed, Holds, AllFulfilled, Fulfilled
  <2>4. CouponWithinLimits' /\ PeakIsHighest' /\ SeenStillTrue'
    BY DEF IInv, CouponWithinLimits, PeakIsHighest, SeenStillTrue, UsedBy
  <2>. QED
    BY <2>1, <2>2, <2>3, <2>4 DEF IInv
<1>3. ASSUME NEW on \in BOOLEAN, NEW limits \in Limits, UpdateCoupon(on, limits) PROVE IInv'
  <2>. USE <1>3 DEF UpdateCoupon
  <2>1. TypeOK'
    <3>1. limits.usageLimit \in 1..MaxLimit /\ limits.perUserLimit \in 1..MaxLimit
      BY DEF Limits
    <3>2. coupon' \in CouponRow
      BY <3>1 DEF IInv, TypeOK, CouponRow
    <3>3. peak' \in Limits
      BY <3>1 DEF IInv, TypeOK, Limits, Larger
    <3>. QED
      BY <3>2, <3>3 DEF IInv, TypeOK
  <2>2. Progress' /\ NoOversell' /\ AllOrNothing'
    BY DEF IInv, Progress, NoOversell, AllOrNothing, Holds, AllFulfilled, Fulfilled
  <2>3. /\ coupon'.exists = coupon.exists /\ coupon'.usageCount = coupon.usageCount
        /\ coupon'.usageLimit = limits.usageLimit /\ coupon'.perUserLimit = limits.perUserLimit
    BY DEF IInv, TypeOK, CouponRow
  <2>4. /\ peak.usageLimit \in Nat /\ peak.perUserLimit \in Nat
        /\ limits.usageLimit \in Nat /\ limits.perUserLimit \in Nat
    BY CheckoutAssumption DEF IInv, TypeOK, Limits
  <2>5. /\ peak'.usageLimit >= peak.usageLimit /\ peak'.perUserLimit >= peak.perUserLimit
        /\ peak'.usageLimit >= limits.usageLimit /\ peak'.perUserLimit >= limits.perUserLimit
        /\ peak'.usageLimit \in Nat /\ peak'.perUserLimit \in Nat
    BY <2>4 DEF Larger
  <2>6. /\ \A u : UsedBy(u)' = UsedBy(u)
        /\ \A u : UsedBy(u) \in Nat
    BY UsedByType DEF UsedBy, IInv, TypeOK
  <2>7. DiscountIsRedeemed' /\ PeakIsHighest'
    BY <2>3, <2>4, <2>5 DEF IInv, DiscountIsRedeemed, PeakIsHighest
  <2>8. coupon.usageCount \in Nat
    BY DEF IInv, TypeOK, CouponRow
  <2>9. CouponWithinLimits'
    BY <2>3, <2>4, <2>5, <2>6, <2>8 DEF IInv, CouponWithinLimits
  <2>10. SeenStillTrue'
    <3>1. \A c \in Checkouts : seen[c].usageCount \in Nat /\ seen[c].perUserLimit \in Nat
      BY CheckoutAssumption DEF IInv, TypeOK
    <3>. QED
      BY <2>3, <2>4, <2>5, <2>6, <2>8, <3>1 DEF IInv, SeenStillTrue
  <2>. QED
    BY <2>1, <2>2, <2>7, <2>9, <2>10 DEF IInv
<1>4. CASE ExpireCoupon
  <2>. USE <1>4 DEF ExpireCoupon
  <2>1. TypeOK'
    BY DEF IInv, TypeOK, CouponRow
  <2>2. Progress' /\ NoOversell' /\ AllOrNothing'
    BY DEF IInv, Progress, NoOversell, AllOrNothing, Holds, AllFulfilled, Fulfilled
  <2>3. /\ coupon'.exists = coupon.exists /\ coupon'.usageCount = coupon.usageCount
        /\ coupon'.usageLimit = coupon.usageLimit /\ coupon'.perUserLimit = coupon.perUserLimit
    BY DEF IInv, TypeOK, CouponRow
  <2>4. /\ DiscountIsRedeemed' /\ PeakIsHighest' /\ CouponWithinLimits' /\ SeenStillTrue'
    BY <2>3 DEF IInv, DiscountIsRedeemed, PeakIsHighest, CouponWithinLimits, SeenStillTrue, UsedBy
  <2>. QED
    BY <2>1, <2>2, <2>4 DEF IInv
<1>5. CASE DeleteCoupon
  <2>. USE <1>5 DEF DeleteCoupon
  <2>1. TypeOK'
    BY ZenonT(30) DEF IInv, TypeOK, CouponRow, Cart
  <2>2. Progress' /\ NoOversell' /\ AllOrNothing'
    BY DEF IInv, Progress, NoOversell, AllOrNothing, Holds, AllFulfilled, Fulfilled
  <2>3. /\ coupon'.exists = FALSE /\ coupon'.usageCount = 0
        /\ coupon'.usageLimit = coupon.usageLimit /\ coupon'.perUserLimit = coupon.perUserLimit
    BY DEF IInv, TypeOK, CouponRow
  <2>4. Cardinality(redemptions') = 0 /\ \A u : UsedBy(u)' = 0
    <3>1. \A u : {c \in redemptions' : UserOf[c] = u} = {}
      OBVIOUS
    <3>. QED
      BY <3>1, FS_EmptySet DEF UsedBy
  <2>5. peak.usageLimit \in Nat /\ peak.perUserLimit \in Nat
    BY CheckoutAssumption DEF IInv, TypeOK, Limits
  <2>6. /\ DiscountIsRedeemed' /\ PeakIsHighest' /\ CouponWithinLimits'
    BY <2>3, <2>4, <2>5 DEF IInv, DiscountIsRedeemed, PeakIsHighest, CouponWithinLimits
  <2>7. \A c \in Checkouts : pc[c] \notin {"count", "redeem", "commit"}
    <3>1. SUFFICES ASSUME NEW c \in Checkouts, pc[c] \in {"count", "redeem", "commit"}
                   PROVE  FALSE
      OBVIOUS
    <3>2. wants[c] /\ AllFulfilled(c) /\ lines[c] # Nothing
      BY <3>1 DEF IInv, Progress, InTx
    <3>3. PICK p \in Products : lines[c][p] # 0
      BY <3>2 DEF IInv, TypeOK, Nothing
    <3>4. Holds(c, p)
      BY <3>2, <3>3, CheckoutAssumption DEF IInv, TypeOK, Holds, AllFulfilled, Fulfilled
    <3>5. opened[c] # {}
      BY <3>4 DEF IInv, Progress
    <3>. QED
      BY <3>2, <3>5 DEF RefersToCoupon
  <2>8. SeenStillTrue'
    BY <2>7 DEF SeenStillTrue
  <2>. QED
    BY <2>1, <2>2, <2>6, <2>8 DEF IInv
<1>. QED
  BY <1>1, <1>2, <1>3, <1>4, <1>5 DEF Staff

\* A deadlocked checkout waits inside its transaction.
LEMMA VictimInTx ==
    ASSUME IInv, NEW c \in Checkouts, Deadlocked(c)
    PROVE  pc[c] \in InTx
BY DEF IInv, Progress, Deadlocked, WaitsFor, InTx

LEMMA NextInv == IInv /\ [Next]_vars => IInv'
<1>. SUFFICES ASSUME IInv, [Next]_vars PROVE IInv'
  OBVIOUS
<1>1. ASSUME NEW c \in Checkouts, Request(c) \/ DeadlockVictim(c) \/ Abort(c) PROVE IInv'
  <2>1. CASE Request(c)
    BY <2>1, RequestInv, CommitInv
  <2>2. CASE DeadlockVictim(c) \/ Abort(c)
    BY <2>2, VictimInTx, RollbackInv DEF DeadlockVictim, Abort
  <2>. QED
    BY <1>1, <2>1, <2>2
<1>2. CASE Staff \/ \E u \in Users, content \in Contents : EditCart(u, content)
  BY <1>2, OthersInv
<1>3. CASE UNCHANGED vars
  BY <1>3, ZenonT(30) DEF vars, IInv, TypeOK, Progress, NoOversell, AllOrNothing, CouponWithinLimits,
              DiscountIsRedeemed, SeenStillTrue, PeakIsHighest, UsedBy, Holds, AllFulfilled, Fulfilled
<1>. QED
  BY <1>1, <1>2, <1>3 DEF Next

\* The invariant of all that follows holds in every reachable state.
THEOREM Invariance == Spec => []IInv
BY InitInv, NextInv, PTL DEF Spec

\* Every variable keeps its type: no committed stock is ever negative.
THEOREM TypeCorrect == Spec => []TypeOK
BY Invariance, PTL DEF IInv

\* What open checkouts have decremented is still there when they commit.
THEOREM NeverOversold == Spec => []NoOversell
BY Invariance, PTL DEF IInv

\* An answered checkout has sold all of its cart or nothing.
THEOREM AllOrNothingAlways == Spec => []AllOrNothing
BY Invariance, PTL DEF IInv

\* The coupon's counter agrees with its redemptions and stays within limits.
THEOREM CouponLimitsKept == Spec => []CouponWithinLimits
BY Invariance, PTL DEF IInv

\* Every discounted order is charged to the coupon, and no other.
THEOREM DiscountsAreRedeemed == Spec => []DiscountIsRedeemed
BY Invariance, PTL DEF IInv

-----------------------------------------------------------------------------
(* Waiting: every chain of checkouts that wait for each other's rows ends  *)
(* at one that goes on, or in a circle.                                    *)

\* Everybody in S waits for a stock row that somebody in S holds.
Ring(S) == S # {} /\ \A d \in S : \E e \in S : WaitsFor(d, e)

\* A smallest ring has nobody in it that nobody waits for.
LEMMA RingIsDeadlock ==
    ASSUME NEW T \in SUBSET Checkouts, Ring(T)
    PROVE  \E c \in T : Deadlocked(c)
<1>. DEFINE Sizes == {Cardinality(S) : S \in {R \in SUBSET T : Ring(R)}}
<1>1. \A S \in SUBSET T : IsFiniteSet(S) /\ Cardinality(S) \in Nat
  BY CheckoutAssumption, FS_Subset, FS_CardinalityType
<1>2. PICK S \in SUBSET T : Ring(S) /\ \A R \in SUBSET T : Ring(R) => Cardinality(S) <= Cardinality(R)
  <2>1. Sizes \subseteq Nat /\ Cardinality(T) \in Sizes
    BY <1>1
  <2>2. PICK m \in Sizes : \A n \in Sizes : m <= n
    BY <2>1, LeastOf
  <2>. QED
    BY <2>2
<1>3. ASSUME NEW d \in S PROVE \E e \in S : WaitsFor(e, d)
  <2>. SUFFICES ASSUME \A e \in S : ~WaitsFor(e, d) PROVE FALSE
    OBVIOUS
  <2>. DEFINE R == S \ {d}
  <2>1. PICK f \in S : WaitsFor(d, f)
    BY <1>2 DEF Ring
  <2>2. f \in R
    BY <2>1 DEF WaitsFor
  <2>3. Ring(R)
    BY <1>2, <2>2 DEF Ring
  <2>4. Cardinality(R) < Cardinality(S)
    BY <1>1, OneLess
  <2>. QED
    BY <1>1, <1>2, <2>3, <2>4
<1>4. PICK c \in S : TRUE
  BY <1>2 DEF Ring
<1>5. \A d \in S : (\E e \in S : WaitsFor(d, e)) /\ (\E e \in S : WaitsFor(e, d))
  BY <1>2, <1>3 DEF Ring
<1>6. Deadlocked(c)
  BY <1>4, <1>5 DEF Deadlocked
<1>. QED
  BY <1>4, <1>6

\* Locks are held by open transactions only, and whoever has the coupon's row
\* waits for nothing any more.
LEMMA WaitingEnds == IInv => NobodyWaitsInVain
<1>. SUFFICES ASSUME IInv, NEW S \in (SUBSET Checkouts) \ {{}},
                     \A c \in S : Blockers(c) # {} /\ {d \in Blockers(c) : pc[d] \in InTx} \subseteq S
              PROVE  \E c \in S : Deadlocked(c)
  BY DEF NobodyWaitsInVain
<1>1. ASSUME NEW c \in S PROVE Blockers(c) \subseteq S
  <2>. SUFFICES ASSUME NEW d \in Blockers(c) PROVE pc[d] \in InTx
    OBVIOUS
  <2>1. CASE WaitsFor(c, d)
    <3>1. taken[d] # Nothing
      BY <2>1, CheckoutAssumption DEF WaitsFor, Holds, Nothing, Blockers, IInv, TypeOK
    <3>. QED
      BY <3>1 DEF Blockers, IInv, Progress
  <2>2. CASE WaitsForCoupon(c, d)
    BY <2>2 DEF WaitsForCoupon, HoldsCoupon, InTx
  <2>. QED
    BY <2>1, <2>2 DEF Blockers
<1>2. ASSUME NEW c \in S PROVE \E d \in S : WaitsFor(c, d)
  <2>1. PICK d \in Blockers(c) : d \in S
    BY <1>1
  <2>2. CASE WaitsForCoupon(c, d)
    <3>1. pc[d] = "commit" /\ target[d] = None
      BY <2>2 DEF WaitsForCoupon, HoldsCoupon, Blockers, IInv, Progress
    <3>2. Blockers(d) = {}
      BY <3>1 DEF Blockers, WaitsFor, WaitsForCoupon
    <3>. QED
      BY <2>1, <3>2
  <2>3. WaitsFor(c, d) \/ WaitsForCoupon(c, d)
    BY <2>1 DEF Blockers
  <2>. QED
    BY <2>1, <2>2, <2>3
<1>3. Ring(S)
  BY <1>2 DEF Ring
<1>. QED
  BY <1>3, RingIsDeadlock

\* Checkouts that wait for nobody outside a group of them are in a deadlock,
\* which PostgreSQL detects: the transaction's timeout is not needed for it.
THEOREM WaitingEndsOrIsDetected == Spec => []NobodyWaitsInVain
BY Invariance, WaitingEnds, PTL

-----------------------------------------------------------------------------
(* Refinement: a checkout changes nothing outside until it commits, and    *)
(* what it does then is Place of AtomicCheckout.                           *)

outcomeBar == [c \in Checkouts |->
                IF pc[c] \in {"placed", "rejected"} THEN pc[c] ELSE "open"]

LEMMA InitRefines == Init => Atomic!Init
<1>. SUFFICES ASSUME Init PROVE Atomic!Init
  OBVIOUS
<1>1. outcomeBar = [c \in Checkouts |-> "open"]
  BY DEF Init, outcomeBar
<1>. QED
  BY <1>1 DEF Init, Atomic!Init, Nothing, Atomic!Nothing, outcomeBar

\* A step that leaves the database alone and answers nobody is a stutter.
LEMMA InternalStep ==
    ASSUME UNCHANGED <<stock, sold, coupon, peak, redemptions>>,
           \A c \in Checkouts : pc[c] = pc'[c] \/ {pc[c], pc'[c]} \cap {"placed", "rejected"} = {}
    PROVE  UNCHANGED Atomic!vars
<1>1. outcomeBar' = outcomeBar
  BY DEF outcomeBar
<1>. QED
  BY <1>1 DEF Atomic!vars, outcomeBar

\* Refusing or rolling back is Reject.
LEMMA RejectStep ==
    ASSUME TypeOK, NEW c \in Checkouts, pc[c] \notin {"placed", "rejected"},
           pc' = [pc EXCEPT ![c] = "rejected"],
           UNCHANGED <<stock, sold, coupon, peak, redemptions>>
    PROVE  Atomic!Next
<1>1. outcomeBar[c] = "open"
  BY DEF outcomeBar
<1>2. outcomeBar' = [outcomeBar EXCEPT ![c] = "rejected"]
  BY DEF outcomeBar, TypeOK
<1>3. Atomic!Reject(c)
  BY <1>1, <1>2 DEF Atomic!Reject, outcomeBar
<1>. QED
  BY <1>3 DEF Atomic!Next

\* AtomicCheckout counts redemptions as Checkout does.
LEMMA SameCount == \A u : Atomic!UsedBy(u) = UsedBy(u)
BY DEF Atomic!UsedBy, UsedBy, Atomic!Cardinality, Cardinality, Atomic!IsFiniteSet, IsFiniteSet

LEMMA CommitStep ==
    ASSUME IInv, NEW c \in Checkouts, Commit(c)
    PROVE  Atomic!Next
<1>1. pc[c] \in {"tx", "commit"} /\ (wants[c] <=> pc[c] = "commit") /\ AllFulfilled(c)
  BY DEF Commit, ReadyToCommit, IInv, Progress
<1>2. taken[c] = lines[c] /\ lines[c] # Nothing /\ taken[c] \in [Products -> 0..MaxQty]
  BY <1>1 DEF IInv, TypeOK, Progress, AllFulfilled, Fulfilled, InTx
<1>3. outcomeBar[c] = "open"
  BY <1>1 DEF outcomeBar
<1>4. outcomeBar' = [outcomeBar EXCEPT ![c] = "placed"]
  BY DEF Commit, outcomeBar, IInv, TypeOK
<1>5. \A p \in Products : taken[c][p] <= stock[p]
  BY DEF IInv, NoOversell
<1>6. wants[c] => /\ coupon.exists /\ coupon.usageCount < peak.usageLimit
                  /\ UsedBy(UserOf[c]) < peak.perUserLimit
  <2>1. SUFFICES ASSUME wants[c]
                 PROVE  /\ coupon.exists /\ coupon.usageCount < peak.usageLimit
                        /\ UsedBy(UserOf[c]) < peak.perUserLimit
    OBVIOUS
  <2>2. /\ coupon.exists /\ seen[c].usageCount = coupon.usageCount
        /\ seen[c].usageCount < peak.usageLimit
        /\ UsedBy(UserOf[c]) < seen[c].perUserLimit
        /\ seen[c].perUserLimit <= peak.perUserLimit
    BY <1>1, <2>1 DEF IInv, SeenStillTrue
  <2>3. UsedBy(UserOf[c]) \in Nat /\ seen[c].perUserLimit \in Nat /\ peak.perUserLimit \in Nat
    BY UsedByType, CheckoutAssumption DEF IInv, TypeOK, Limits
  <2>. QED
    BY <2>2, <2>3
<1>7. PICK ls \in [Products -> 0..MaxQty], redeems \in BOOLEAN :
            ls = taken[c] /\ redeems = wants[c]
  BY DEF IInv, TypeOK
<1>8. Atomic!Place(c, ls, redeems)
  BY <1>2, <1>3, <1>4, <1>5, <1>6, <1>7, SameCount
     DEF Commit, ChargeCoupon, Atomic!Place, Atomic!Nothing, Nothing, outcomeBar
<1>. QED
  BY <1>8 DEF Atomic!Next

LEMMA RequestStep ==
    ASSUME IInv, NEW c \in Checkouts, Request(c)
    PROVE  [Atomic!Next]_(Atomic!vars)
<1>0. TypeOK
  BY DEF IInv
<1>1. CASE ReadCart(c)
  <2>1. CASE pc' = [pc EXCEPT ![c] = "rejected"]
    <3>1. Atomic!Next
      BY <1>0, <1>1, <2>1, RejectStep DEF ReadCart, Move, db
    <3>. QED
      BY <3>1
  <2>2. CASE pc' = [pc EXCEPT ![c] = "read"]
    <3>1. UNCHANGED Atomic!vars
      BY <1>0, <1>1, <2>2, InternalStep DEF ReadCart, Move, db, TypeOK
    <3>. QED
      BY <3>1
  <2>. QED
    BY <1>1, <2>1, <2>2 DEF ReadCart, Move
<1>2. CASE Refuse(c)
  BY <1>0, <1>2, RejectStep DEF Refuse, Move, db
<1>3. CASE pc[c] \in InTx /\ Rollback(c)
  BY <1>0, <1>3, RejectStep DEF Rollback, InTx
<1>4. CASE Commit(c)
  BY <1>4, CommitStep
<1>5. CASE \/ Begin(c) \/ \E s \in Stores : CreateOrder(c, s)
           \/ \E p \in Products : SendDecrement(c, p)
           \/ DecrementStock(c) \/ RedeemCoupon(c)
           \/ ReadCoupon(c) /\ ~Rollback(c)
           \/ CountRedemptions(c) /\ ~Rollback(c)
  <2>1. UNCHANGED db
    BY <1>5 DEF Begin, CreateOrder, SendDecrement, DecrementStock, RedeemCoupon,
                ReadCoupon, CountRedemptions
  <2>2. /\ pc[c] \notin {"placed", "rejected"}
        /\ \/ pc' = pc
           \/ \E to \in InTx : pc' = [pc EXCEPT ![c] = to]
    BY <1>5 DEF Begin, CreateOrder, SendDecrement, DecrementStock, RedeemCoupon,
                ReadCoupon, CountRedemptions, Move, InTx
  <2>3. \A d \in Checkouts : pc[d] = pc'[d] \/ {pc[d], pc'[d]} \cap {"placed", "rejected"} = {}
    BY <1>0, <2>2 DEF TypeOK, InTx
  <2>. QED
    BY <2>1, <2>3, InternalStep DEF db
<1>. QED
  BY <1>1, <1>2, <1>3, <1>4, <1>5
     DEF Request, CouponGone, OutOfStock, LostRace, ReadCoupon, CountRedemptions, InTx

LEMMA NextRefines == IInv /\ [Next]_vars => [Atomic!Next]_(Atomic!vars)
<1>. SUFFICES ASSUME IInv, [Next]_vars PROVE [Atomic!Next]_(Atomic!vars)
  OBVIOUS
<1>1. ASSUME NEW c \in Checkouts, Request(c) PROVE [Atomic!Next]_(Atomic!vars)
  BY <1>1, RequestStep
<1>2. ASSUME NEW c \in Checkouts, DeadlockVictim(c) \/ Abort(c) PROVE Atomic!Next
  <2>1. pc[c] \in InTx /\ Rollback(c)
    BY <1>2, VictimInTx DEF DeadlockVictim, Abort
  <2>. QED
    BY <2>1, RejectStep DEF Rollback, InTx, IInv
<1>3. ASSUME NEW u \in Users, NEW content \in Contents, EditCart(u, content)
      PROVE  UNCHANGED Atomic!vars
  BY <1>3, InternalStep DEF EditCart
<1>4. ASSUME NEW p \in Products, NEW n \in 0..MaxStock, WriteStock(p, n) PROVE Atomic!Next
  <2>1. Atomic!WriteStock(p, n)
    BY <1>4 DEF WriteStock, Atomic!WriteStock
  <2>. QED
    BY <2>1 DEF Atomic!Next
<1>5. ASSUME NEW on \in BOOLEAN, NEW limits \in Limits, UpdateCoupon(on, limits)
      PROVE  Atomic!Next
  <2>1. Atomic!UpdateCoupon(on, limits)
    BY <1>5 DEF UpdateCoupon, Atomic!UpdateCoupon, Larger, Atomic!Larger
  <2>. QED
    BY <2>1 DEF Atomic!Next, Limits, Atomic!Limits
<1>6. CASE ExpireCoupon
  <2>1. coupon \in CouponRow /\ peak \in Limits
    BY DEF IInv, TypeOK
  <2>. DEFINE limits == [usageLimit |-> coupon.usageLimit, perUserLimit |-> coupon.perUserLimit]
  <2>2. limits \in Limits
    BY <2>1 DEF Limits, CouponRow
  <2>3. coupon' = [coupon EXCEPT !.enabled = FALSE, !.usageLimit = limits.usageLimit,
                                 !.perUserLimit = limits.perUserLimit]
    BY <1>6, <2>1 DEF ExpireCoupon, CouponRow
  <2>4. /\ Larger(peak.usageLimit, limits.usageLimit) = peak.usageLimit
        /\ Larger(peak.perUserLimit, limits.perUserLimit) = peak.perUserLimit
    BY <2>1, CheckoutAssumption DEF Larger, IInv, PeakIsHighest, CouponRow, Limits
  <2>5. peak = [usageLimit |-> peak.usageLimit, perUserLimit |-> peak.perUserLimit]
    BY <2>1 DEF Limits
  <2>6. Atomic!UpdateCoupon(FALSE, limits)
    BY <1>6, <2>3, <2>4, <2>5
       DEF ExpireCoupon, Atomic!UpdateCoupon, Larger, Atomic!Larger
  <2>. QED
    BY <2>2, <2>6 DEF Atomic!Next, Limits, Atomic!Limits
<1>7. CASE DeleteCoupon
  <2>1. Atomic!DeleteCoupon
    BY <1>7 DEF DeleteCoupon, Atomic!DeleteCoupon
  <2>. QED
    BY <2>1 DEF Atomic!Next
<1>8. CASE UNCHANGED vars
  BY <1>8, InternalStep DEF vars
<1>. QED
  BY <1>1, <1>2, <1>3, <1>4, <1>5, <1>6, <1>7, <1>8 DEF Next, Staff

\* The step-by-step transaction implements the indivisible checkout.
THEOREM Refinement == Spec => ImplementsAtomicCheckout
<1>1. Init => Atomic!Init
  BY InitRefines
<1>2. IInv /\ [Next]_vars => [Atomic!Next]_(Atomic!vars)
  BY NextRefines
<1>. QED
  BY <1>1, <1>2, Invariance, PTL DEF Spec, ImplementsAtomicCheckout, Atomic!Spec

==============================================================================
