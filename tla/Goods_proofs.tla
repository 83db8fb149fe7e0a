----------------------------- MODULE Goods_proofs -----------------------------
(***************************************************************************)
(* What Reviews, Cart, Pricing and Storefront guarantee, for any numbers   *)
(* of reviews, carts, lines, stores, products and calls, any amounts and   *)
(* any size of page; and that all of Goods, Catalog among it, keeps its    *)
(* types.                                                                  *)
(***************************************************************************)
EXTENDS Goods, Catalog_proofs, Sums, SequenceTheorems, FunctionTheorems

\* The rating is of the same reviews while they stay approved.
LEMMA AverageStays ==
    ASSUME ReviewsTypeOK, Approved' = Approved,
           \A i \in Approved : review'[i].stars = review[i].stars
    PROVE  Average' = Average
<1>1. IsFiniteSet(Approved)
  BY ReviewsAssumption, FS_Subset DEF Approved
<1>. DEFINE f == [i \in Approved |-> review[i].stars]
            g == [i \in Approved |-> review'[i].stars]
<1>2. f = g
  OBVIOUS
<1>3. StarSum(Approved) = SumFunctionOnSet(f, Approved)
  BY DEF StarSum
<1>4. StarSum(Approved)' = SumFunctionOnSet(g, Approved)
  BY DEF StarSum
<1>. QED
  BY <1>2, <1>3, <1>4 DEF Average

\* It is a sum of stars and a count.
LEMMA AverageType == ReviewsTypeOK => Average \in [sum : Nat, count : Nat]
<1>. SUFFICES ASSUME ReviewsTypeOK PROVE Average \in [sum : Nat, count : Nat]
  OBVIOUS
<1>1. IsFiniteSet(Approved)
  BY ReviewsAssumption, FS_Subset DEF Approved
<1>. DEFINE f == [i \in Approved |-> review[i].stars]
<1>2. \A i \in Approved : f[i] \in Nat
  <2>1. \A i \in Approved : review[i] \in ReviewRow
    BY DEF Approved, ReviewsTypeOK
  <2>2. Stars \cup {0} \subseteq Nat
    BY ReviewsAssumption
  <2>3. \A x \in ReviewRow : x.stars \in Nat
    BY <2>2 DEF ReviewRow
  <2>. QED
    BY <2>1, <2>3
<1>. HIDE DEF f
<1>3. SumFunctionOnSet(f, Approved) \in Nat
  BY <1>1, <1>2, SumNat
<1>4. StarSum(Approved) \in Nat
  BY <1>3 DEF StarSum, f
<1>5. Cardinality(Approved) \in Nat
  BY <1>1, FS_CardinalityType
<1>. QED
  BY <1>4, <1>5 DEF Average

\* Who asks to write a review is a customer.
AuthorsWrite == \A m \in Moderators : moderator[m].pc = "create" => moderator[m].author \in Authors

ReviewsInv == ReviewsTypeOK /\ AuthorsWrite /\ RatingTellsReviews

\* The product has no reviews yet.
LEMMA ReviewsInitInv == ReviewsInit => ReviewsInv
<1>. SUFFICES ASSUME ReviewsInit PROVE ReviewsInv
  OBVIOUS
<1>1. NoReview \in ReviewRow /\ Outside \in ReviewCall
  BY DEF NoReview, Outside, ReviewRow, ReviewCall, ReviewStatus
<1>2. ReviewsTypeOK
  <2>1. /\ review \in [ReviewIds -> ReviewRow] /\ moderator \in [Moderators -> ReviewCall]
        /\ upset \in BOOLEAN /\ twins \subseteq Authors
    BY <1>1 DEF ReviewsInit
  <2>2. rating \in [sum : Nat, count : Nat] /\ reviewCalls \in 0..MaxReviewCalls
    BY ReviewsAssumption DEF ReviewsInit
  <2>. QED
    BY <2>1, <2>2 DEF ReviewsTypeOK
<1>3. Approved = {} /\ Posted = {} /\ AuthorsWrite
  BY DEF Approved, Posted, ReviewsInit, NoReview, AuthorsWrite, Outside
<1>4. Average = [sum |-> 0, count |-> 0]
  BY <1>3, SumEmpty, FS_EmptySet DEF Average, StarSum
<1>. QED
  BY <1>2, <1>3, <1>4 DEF ReviewsInv, RatingTellsReviews, ReviewsInit
-----------------------------------------------------------------------------
\* A call goes on; the reviews stay as they are.
LEMMA CallGoesOn ==
    ASSUME ReviewsInv, NEW m \in Moderators, NEW next \in ReviewCall, Step(m, next),
           next.pc = "create" => next.author \in Authors,
           UNCHANGED <<review, twins>>,
           rating' \in [sum : Nat, count : Nat], upset' \in BOOLEAN,
           reviewCalls' \in 0..MaxReviewCalls,
           ~upset' /\ (\A k \in Moderators : moderator'[k].pc \notin {"average", "rate"})
                => rating' = Average
    PROVE  ReviewsInv'
<1>1. Posted' = Posted /\ Approved' = Approved
  BY DEF Posted, Approved
<1>2. Average' = Average
  BY <1>1, AverageStays DEF ReviewsInv
<1>3. ReviewsTypeOK'
  BY DEF ReviewsInv, ReviewsTypeOK, Step
<1>4. AuthorsWrite'
  BY DEF ReviewsInv, ReviewsTypeOK, AuthorsWrite, Step
<1>5. RatingTellsReviews'
  BY <1>1, <1>2 DEF ReviewsInv, RatingTellsReviews
<1>. QED
  BY <1>3, <1>4, <1>5 DEF ReviewsInv

\* A call that is not on its way to the rating does not matter to it.
LEMMA StillRated ==
    ASSUME ReviewsInv, NEW m \in Moderators, NEW next \in ReviewCall, Step(m, next),
           moderator[m].pc \notin {"average", "rate"}, next.pc \notin {"average", "rate"},
           \A k \in Moderators : moderator'[k].pc \notin {"average", "rate"}, ~upset
    PROVE  rating = Average
<1>1. \A k \in Moderators : moderator[k].pc \notin {"average", "rate"}
  BY DEF Step, ReviewsInv, ReviewsTypeOK
<1>. QED
  BY <1>1 DEF ReviewsInv, RatingTellsReviews

LEMMA BeginInv ==
    ASSUME ReviewsInv, NEW m \in Moderators, NEW next \in ReviewCall, Begin(m, next),
           next.pc \in {"create", "write"}, next.pc = "create" => next.author \in Authors
    PROVE  ReviewsInv'
<1>1. /\ Step(m, next) /\ UNCHANGED <<review, rating, upset, twins>>
      /\ moderator[m].pc = "idle" /\ reviewCalls' \in 0..MaxReviewCalls
  BY ReviewsAssumption DEF Begin, ReviewsInv, ReviewsTypeOK
<1>2. rating' \in [sum : Nat, count : Nat] /\ upset' \in BOOLEAN
  BY <1>1 DEF ReviewsInv, ReviewsTypeOK
<1>3. ~upset' /\ (\A k \in Moderators : moderator'[k].pc \notin {"average", "rate"})
                => rating' = Average
  BY <1>1, StillRated
<1>. QED
  BY <1>1, <1>2, <1>3, CallGoesOn

LEMMA OutsideOk == Outside \in ReviewCall /\ Outside.pc = "idle"
BY DEF Outside, ReviewCall, ReviewStatus

\* Of the two reads of create, and the read of a moderation.
LEMMA StartsInv ==
    ASSUME ReviewsInv, NEW m \in Moderators, StartReview(m) \/ StartModeration(m)
    PROVE  ReviewsInv'
<1>1. CASE StartReview(m)
  <2>1. PICK a \in Authors, s \in Stars :
            Begin(m, [Outside EXCEPT !.pc = "create", !.author = a, !.stars = s])
    BY <1>1 DEF StartReview
  <2>. DEFINE next == [Outside EXCEPT !.pc = "create", !.author = a, !.stars = s]
  <2>2. next \in ReviewCall /\ next.pc = "create" /\ next.author = a
    BY OutsideOk DEF ReviewCall
  <2>. HIDE DEF next
  <2>. QED
    BY <2>1, <2>2, BeginInv DEF next
<1>2. CASE StartModeration(m)
  <2>1. PICK i \in Posted, to \in {"approved", "rejected", "deleted"} :
            Begin(m, [Outside EXCEPT !.pc = "write", !.id = i, !.to = to,
                                     !.seen = review[i].status])
    BY <1>2 DEF StartModeration
  <2>. DEFINE next == [Outside EXCEPT !.pc = "write", !.id = i, !.to = to,
                                      !.seen = review[i].status]
  <2>2. i \in ReviewIds /\ review[i] \in ReviewRow
    BY DEF Posted, ReviewsInv, ReviewsTypeOK
  <2>3. next \in ReviewCall /\ next.pc = "write"
    BY <2>2, OutsideOk DEF ReviewCall, ReviewRow
  <2>. HIDE DEF next
  <2>. QED
    BY <2>1, <2>3, BeginInv DEF next
<1>. QED
  BY <1>1, <1>2

\* A new review waits for approval; a second one of its author makes a twin.
LEMMA CreateReviewInv ==
    ASSUME ReviewsInv, NEW m \in Moderators, CreateReview(m) PROVE ReviewsInv'
<1>. DEFINE s == moderator[m]
            x == CHOOSE i \in ReviewIds : review[i] = NoReview
            new == [status |-> "pending", author |-> s.author, stars |-> s.stars]
<1>1. s \in ReviewCall /\ s.author \in Authors /\ s.pc = "create"
  BY DEF ReviewsInv, ReviewsTypeOK, AuthorsWrite, CreateReview
<1>2. x \in ReviewIds /\ review[x] = NoReview
  BY DEF CreateReview
<1>3. /\ review' = [review EXCEPT ![x] = new] /\ Step(m, Outside)
      /\ UNCHANGED <<rating, upset, reviewCalls>>
      /\ twins' = IF \E i \in Posted : review[i].author = s.author
                  THEN twins \cup {s.author} ELSE twins
  BY DEF CreateReview
<1>4. new \in ReviewRow
  BY <1>1 DEF ReviewCall, ReviewRow, ReviewStatus
<1>. HIDE DEF x, s
<1>5. /\ review' \in [ReviewIds -> ReviewRow] /\ review'[x] = new
      /\ \A i \in ReviewIds : i # x => review'[i] = review[i]
      /\ review[x].status = "none"
  BY <1>2, <1>3, <1>4 DEF ReviewsInv, ReviewsTypeOK, NoReview
<1>6. Approved' = Approved /\ Posted' = Posted \cup {x} /\ x \notin Posted /\ x \notin Approved
  BY <1>2, <1>5 DEF Approved, Posted
<1>7. Average' = Average
  <2>1. \A i \in Approved : review'[i].stars = review[i].stars
    BY <1>5, <1>6 DEF Approved
  <2>. QED
    BY <2>1, <1>6, AverageStays DEF ReviewsInv
<1>8. moderator' \in [Moderators -> ReviewCall] /\ AuthorsWrite'
  BY <1>3, OutsideOk DEF Step, ReviewsInv, ReviewsTypeOK, AuthorsWrite
<1>9. ReviewsTypeOK'
  BY <1>1, <1>3, <1>5, <1>8 DEF ReviewsInv, ReviewsTypeOK
<1>10. ~upset' /\ (\A k \in Moderators : moderator'[k].pc \notin {"average", "rate"})
                => rating' = Average'
  BY <1>1, <1>3, <1>7, OutsideOk, StillRated DEF s
<1>11. \A i, j \in Posted' : i # j /\ review'[i].author = review'[j].author
                => review'[i].author \in twins'
  <2>1. twins \subseteq twins'
    BY <1>3
  <2>2. \A i \in Posted : review'[i] = review[i] /\ i \in ReviewIds
    BY <1>5, <1>6 DEF Posted
  <2>3. \A i \in Posted : review[i].author = review'[x].author => review'[x].author \in twins'
    BY <1>3, <1>5
  <2>4. \A i, j \in Posted : i # j /\ review[i].author = review[j].author
                => review[i].author \in twins
    BY DEF ReviewsInv, RatingTellsReviews
  <2>. QED
    BY <1>6, <2>1, <2>2, <2>3, <2>4
<1>. QED
  BY <1>8, <1>9, <1>10, <1>11 DEF ReviewsInv, RatingTellsReviews

\* The status written need not be that of the review read.  If neither it nor
\* the one it replaces counts, the average does not change.
LEMMA WriteStatusInv ==
    ASSUME ReviewsInv, NEW m \in Moderators, WriteStatus(m) PROVE ReviewsInv'
<1>. DEFINE s == moderator[m]
            x == s.id
            old == review[x]
            new == IF s.to = "deleted" THEN [NoReview EXCEPT !.status = "deleted"]
                   ELSE [old EXCEPT !.status = s.to]
            counts == Counts(s.seen, s.to)
            next == IF counts THEN [s EXCEPT !.pc = "average"] ELSE Outside
<1>1. s \in ReviewCall /\ s.pc = "write" /\ x \in Posted /\ x \in ReviewIds /\ old \in ReviewRow
  BY DEF ReviewsInv, ReviewsTypeOK, WriteStatus, Posted
<1>2. /\ review' = [review EXCEPT ![x] = new] /\ Step(m, next)
      /\ upset' = (upset \/ (s.seen # old.status /\ ~counts))
      /\ UNCHANGED <<rating, twins, reviewCalls>>
  BY DEF WriteStatus
<1>3. next \in ReviewCall /\ next.pc # "create"
      /\ (next.pc \in {"average", "rate"} <=> counts)
  BY <1>1, OutsideOk DEF ReviewCall
<1>4. /\ new \in ReviewRow
      /\ new.status = "approved" <=> s.to = "approved"
      /\ new.status # "deleted" => new.author = old.author /\ new.stars = old.stars
  <2>1. CASE s.to = "deleted"
    BY <2>1 DEF NoReview, ReviewRow, ReviewStatus
  <2>2. CASE s.to # "deleted"
    <3>1. new = [old EXCEPT !.status = s.to]
      BY <2>2
    <3>2. s.to \in ReviewStatus /\ s.to # "deleted"
      BY <1>1, <2>2 DEF ReviewCall, ReviewStatus
    <3>3. /\ new.status = s.to /\ new.author = old.author /\ new.stars = old.stars
          /\ new \in ReviewRow
      BY <3>1, <3>2, <1>1 DEF ReviewRow
    <3>. QED
      BY <3>2, <3>3
  <2>. QED
    BY <2>1, <2>2
<1>. HIDE DEF s, x, new, next, counts, old
<1>5. /\ review' \in [ReviewIds -> ReviewRow] /\ review'[x] = new
      /\ \A i \in ReviewIds : i # x => review'[i] = review[i]
  BY <1>1, <1>2, <1>4 DEF ReviewsInv, ReviewsTypeOK
<1>6. Posted' \subseteq Posted /\ \A i \in Posted' : review'[i].author = review[i].author
  BY <1>1, <1>4, <1>5 DEF Posted, old
<1>7. moderator' \in [Moderators -> ReviewCall] /\ AuthorsWrite'
  BY <1>2, <1>3 DEF Step, ReviewsInv, ReviewsTypeOK, AuthorsWrite
<1>8. ReviewsTypeOK'
  BY <1>2, <1>5, <1>7 DEF ReviewsInv, ReviewsTypeOK
<1>9. ASSUME ~upset', \A k \in Moderators : moderator'[k].pc \notin {"average", "rate"}
      PROVE  rating' = Average'
  <2>1. ~counts /\ ~upset /\ s.seen = old.status
    BY <1>2, <1>3, <1>9 DEF Step, ReviewsInv, ReviewsTypeOK
  <2>2. s.to # "approved" /\ old.status # "approved"
    BY <2>1 DEF counts, Counts
  <2>3. Approved' = Approved /\ \A i \in Approved : review'[i].stars = review[i].stars
    BY <1>1, <1>4, <1>5, <2>2 DEF Approved, old
  <2>4. Average' = Average
    BY <2>3, AverageStays DEF ReviewsInv
  <2>5. rating = Average
    BY <1>1, <1>2, <1>3, <1>9, <2>1, StillRated DEF s
  <2>. QED
    BY <1>2, <2>4, <2>5
<1>10. \A i, j \in Posted' : i # j /\ review'[i].author = review'[j].author
                => review'[i].author \in twins'
  BY <1>2, <1>6 DEF ReviewsInv, RatingTellsReviews
<1>. QED
  BY <1>7, <1>8, <1>9, <1>10 DEF ReviewsInv, RatingTellsReviews

\* recalculateRating, and a call that breaks off.
LEMMA RecalculateInv ==
    ASSUME ReviewsInv, NEW m \in Moderators,
           TakeAverage(m) \/ WriteRating(m) \/ AbandonReview(m)
    PROVE  ReviewsInv'
<1>. DEFINE s == moderator[m]
<1>1. s \in ReviewCall
  BY DEF ReviewsInv, ReviewsTypeOK
<1>2. CASE TakeAverage(m)
  <2>. DEFINE next == [s EXCEPT !.pc = "rate", !.sum = Average.sum, !.count = Average.count]
  <2>1. Average.sum \in Nat /\ Average.count \in Nat
    BY AverageType DEF ReviewsInv
  <2>2. next \in ReviewCall /\ next.pc = "rate"
    BY <1>1, <2>1 DEF ReviewCall
  <2>3. Step(m, next) /\ UNCHANGED <<review, rating, upset, twins, reviewCalls>>
    BY <1>2 DEF TakeAverage
  <2>. HIDE DEF next
  <2>4. moderator'[m].pc = "rate"
    BY <2>2, <2>3 DEF Step, ReviewsInv, ReviewsTypeOK
  <2>5. rating' \in [sum : Nat, count : Nat] /\ upset' \in BOOLEAN /\ reviewCalls' \in 0..MaxReviewCalls
    BY <2>3 DEF ReviewsInv, ReviewsTypeOK
  <2>. QED
    BY <2>2, <2>3, <2>4, <2>5, CallGoesOn
<1>3. CASE WriteRating(m)
  <2>1. Step(m, Outside) /\ UNCHANGED <<review, twins, reviewCalls>>
    BY <1>3 DEF WriteRating
  <2>2. rating' = [sum |-> s.sum, count |-> s.count] /\ upset' = (rating' # Average)
    BY <1>3 DEF WriteRating
  <2>3. rating' \in [sum : Nat, count : Nat]
    BY <1>1, <2>2 DEF ReviewCall
  <2>4. reviewCalls' \in 0..MaxReviewCalls
    BY <2>1 DEF ReviewsInv, ReviewsTypeOK
  <2>5. upset' \in BOOLEAN
    BY <2>2
  <2>. QED
    BY <2>1, <2>2, <2>3, <2>4, <2>5, OutsideOk, CallGoesOn
<1>4. CASE AbandonReview(m)
  <2>1. /\ Step(m, Outside) /\ UNCHANGED <<review, rating, twins, reviewCalls>>
        /\ upset' = (upset \/ s.pc \in {"average", "rate"})
    BY <1>4 DEF AbandonReview
  <2>2. rating' \in [sum : Nat, count : Nat] /\ upset' \in BOOLEAN /\ reviewCalls' \in 0..MaxReviewCalls
    BY <2>1 DEF ReviewsInv, ReviewsTypeOK
  <2>3. ~upset' /\ (\A k \in Moderators : moderator'[k].pc \notin {"average", "rate"})
                => rating' = Average
    BY <2>1, OutsideOk, StillRated
  <2>. QED
    BY <2>1, <2>2, <2>3, OutsideOk, CallGoesOn
<1>. QED
  BY <1>2, <1>3, <1>4

\* The rating and the reviews of a product go together in every reachable state.
THEOREM ReviewsInvariance == ReviewsSpec => []ReviewsInv
<1>1. ReviewsInv /\ [ReviewsNext]_ReviewsVars => ReviewsInv'
  <2>. SUFFICES ASSUME ReviewsInv, [ReviewsNext]_ReviewsVars PROVE ReviewsInv'
    OBVIOUS
  <2>1. ASSUME NEW m \in Moderators,
               \/ StartReview(m) \/ CreateReview(m) \/ StartModeration(m) \/ WriteStatus(m)
               \/ TakeAverage(m) \/ WriteRating(m) \/ AbandonReview(m)
        PROVE  ReviewsInv'
    BY <2>1, StartsInv, CreateReviewInv, WriteStatusInv, RecalculateInv
  <2>2. CASE UNCHANGED ReviewsVars
    <3>1. UNCHANGED <<review, rating, moderator, upset, twins, reviewCalls>>
      BY <2>2 DEF ReviewsVars
    <3>2. Posted' = Posted /\ Approved' = Approved
      BY <3>1 DEF Posted, Approved
    <3>3. Average' = Average
      BY <3>1, <3>2, AverageStays DEF ReviewsInv
    <3>. QED
      BY <3>1, <3>2, <3>3 DEF ReviewsInv, ReviewsTypeOK, AuthorsWrite, RatingTellsReviews
  <2>. QED
    BY <2>1, <2>2 DEF ReviewsNext
<1>. QED
  BY <1>1, ReviewsInitInv, PTL DEF ReviewsSpec

\* Whatever moderators do at the same time, the rating shown is the average of
\* the approved reviews once no call is on its way to write it, unless the last
\* one to write it was overtaken or broke off (recalculateRating averages in one
\* statement and writes in another); and a customer has one review of the
\* product, but for those who sent two at once (create's check).
THEOREM RatingFollowsReviews == ReviewsSpec => []RatingTellsReviews
<1>1. ReviewsInv => RatingTellsReviews
  BY DEF ReviewsInv
<1>. QED
  BY <1>1, ReviewsInvariance, PTL
-----------------------------------------------------------------------------
(* Cart.                                                                   *)

\* What a request of a kind has in hand.
CallsKnow ==
    \A w \in Shoppers :
        /\ shopper[w].what = "add" => shopper[w].product \in Goods /\ shopper[w].choice \in Selections
        /\ shopper[w].what = "remove" => shopper[w].n = 0
        /\ shopper[w].what = "merge" => shopper[w].guest \in CartIds
        /\ shopper[w].pc = "write" => shopper[w].cart \in CartIds
        /\ \A l \in shopper[w].todo : basis[w][l].state = "line"

\* A line that was read is there, of the same product, or deleted.
LinesStay ==
    \A w \in Shoppers, l \in LineIds :
        basis[w][l].state = "line" =>
            /\ cartLine[l].state # "unused"
            /\ cartLine[l].state = "line" => cartLine[l].product = basis[w][l].product

CartInv == CartTypeOK /\ CallsKnow /\ LinesStay /\ CartKeepsUnits

\* What a row adds to the units of a product.
Part(x, p) == IF x.product = p THEN x.quantity ELSE 0

Copies(p) == SumFunctionOnSet([w \in Shoppers |-> copied[w][p]], Shoppers)

LEMMA RowKinds ==
    /\ NoLine.state = "unused" /\ NoLine.quantity = 0 /\ NoLine.product = Empty /\ NoLine.cart = Empty
    /\ Deleted.state = "deleted" /\ Deleted.quantity = 0 /\ Deleted.product = Empty
    /\ Deleted.cart = Empty
    /\ NoLine \in CartRow /\ Deleted \in CartRow
    /\ \A x \in CartRow : /\ x.quantity \in Nat /\ x.state \in {"unused", "line", "deleted"}
                          /\ x.state = "line" => x \in LineRow
                          /\ x.cart \in CartIds => x.state = "line"
<1>1. /\ NoLine.state = "unused" /\ NoLine.quantity = 0 /\ NoLine.product = Empty
      /\ NoLine.cart = Empty
  BY DEF NoLine
<1>2. /\ Deleted.state = "deleted" /\ Deleted.quantity = 0 /\ Deleted.product = Empty
      /\ Deleted.cart = Empty
  BY DEF NoLine, Deleted
<1>3. \A x \in LineRow : x.quantity \in Nat /\ x.state = "line"
  BY DEF LineRow
<1>4. Empty \notin CartIds
  BY CartAssumption
<1>. QED
  BY <1>1, <1>2, <1>3, <1>4 DEF CartRow

\* Parts are natural numbers, and so are sums of them.
LEMMA PartNat == ASSUME NEW x \in CartRow, NEW p PROVE Part(x, p) \in Nat
BY RowKinds DEF Part

LEMMA UnitsOfRows ==
    ASSUME NEW lines \in [LineIds -> CartRow], NEW ids, ids \subseteq LineIds, NEW p
    PROVE  /\ IsFiniteSet(ids) /\ Units(lines, ids, p) \in Nat
           /\ Units(lines, ids, p) = SumFunctionOnSet([l \in ids |-> Part(lines[l], p)], ids)
<1>. DEFINE f == [l \in ids |-> Part(lines[l], p)]
<1>1. IsFiniteSet(ids)
  BY CartAssumption, FS_Subset
<1>2. \A l \in ids : f[l] \in Nat
  BY PartNat
<1>3. Units(lines, ids, p) = SumFunctionOnSet(f, ids)
  BY DEF Units, Part
<1>. HIDE DEF f
<1>4. SumFunctionOnSet(f, ids) \in Nat
  BY <1>1, <1>2, SumNat
<1>. QED
  BY <1>1, <1>3, <1>4 DEF f

\* One line is written.
LEMMA LineChanges ==
    ASSUME NEW lines \in [LineIds -> CartRow], NEW l \in LineIds, NEW x \in CartRow, NEW p
    PROVE  Units([lines EXCEPT ![l] = x], LineIds, p) =
                Units(lines, LineIds, p) - Part(lines[l], p) + Part(x, p)
<1>. DEFINE new == [lines EXCEPT ![l] = x]
            f == [k \in LineIds |-> Part(lines[k], p)]
            g == [k \in LineIds |-> Part(new[k], p)]
            n == Part(x, p) - Part(lines[l], p)
<1>1. new \in [LineIds -> CartRow] /\ new[l] = x /\ \A k \in LineIds \ {l} : new[k] = lines[k]
  OBVIOUS
<1>2. /\ Units(new, LineIds, p) = SumFunctionOnSet(g, LineIds)
      /\ Units(lines, LineIds, p) = SumFunctionOnSet(f, LineIds)
      /\ IsFiniteSet(LineIds) /\ Units(lines, LineIds, p) \in Nat
  BY <1>1, UnitsOfRows, ZenonT(30)
<1>3. Part(x, p) \in Nat /\ Part(lines[l], p) \in Nat /\ n \in Int
  BY PartNat
<1>4. \A k \in LineIds : f[k] \in Int
  BY PartNat
<1>5. g[l] = f[l] + n
  BY <1>1, <1>3
<1>6. \A k \in LineIds \ {l} : g[k] = f[k]
  BY <1>1
<1>7. SumFunctionOnSet(g, LineIds) = SumFunctionOnSet(f, LineIds) + n
  <2>. HIDE DEF f, g, n
  <2>. QED
    BY <1>2, <1>3, <1>4, <1>5, <1>6, SumGrows
<1>8. \A a, b, s \in Int : s + (b - a) = s - a + b
  OBVIOUS
<1>. QED
  BY <1>2, <1>3, <1>7, <1>8

\* The lines of a cart are deleted.
LEMMA Clears ==
    ASSUME CartTypeOK, NEW c, NEW p \in Goods
    PROVE  /\ Clear(c) \in [LineIds -> CartRow]
           /\ Units(Clear(c), LineIds, p) = AllUnits(p) - Units(cartLine, LinesOf(cartLine, c), p)
           /\ AllUnits(p) \in Nat /\ Units(cartLine, LinesOf(cartLine, c), p) \in Nat
<1>. DEFINE L == LinesOf(cartLine, c)
            R == LineIds \ L
            new == Clear(c)
            f == [k \in LineIds |-> Part(cartLine[k], p)]
            g == [k \in LineIds |-> Part(new[k], p)]
            h == [k \in L |-> Part(cartLine[k], p)]
<1>1. L \subseteq LineIds /\ R \subseteq LineIds /\ L \cup R = LineIds /\ L \cap R = {}
  BY DEF LinesOf
<1>2. cartLine \in [LineIds -> CartRow]
  BY DEF CartTypeOK
<1>3. new = [l \in LineIds |-> IF l \in L THEN Deleted ELSE cartLine[l]]
  BY DEF Clear
<1>. HIDE DEF L, R, new
<1>4. new \in [LineIds -> CartRow]
  BY <1>2, <1>3, RowKinds
<1>5. IsFiniteSet(L) /\ IsFiniteSet(R)
  BY <1>1, <1>2, UnitsOfRows
<1>6. /\ AllUnits(p) = SumFunctionOnSet(f, LineIds) /\ AllUnits(p) \in Nat
      /\ Units(new, LineIds, p) = SumFunctionOnSet(g, LineIds)
      /\ Units(cartLine, L, p) = SumFunctionOnSet(h, L) /\ Units(cartLine, L, p) \in Nat
  BY <1>1, <1>2, <1>4, UnitsOfRows DEF AllUnits
<1>7. /\ \A k \in LineIds : f[k] \in Int /\ g[k] \in Int
      /\ \A k \in L : g[k] = 0 /\ h[k] = f[k]
      /\ \A k \in R : g[k] = f[k]
  <2>1. Part(Deleted, p) = 0
    BY RowKinds DEF Part
  <2>2. \A k \in LineIds : f[k] \in Nat /\ g[k] \in Nat
    BY <1>2, <1>4, PartNat
  <2>. QED
    BY <1>1, <1>3, <2>1, <2>2 DEF R
<1>. HIDE DEF f, g, h
<1>8. SumFunctionOnSet(f, LineIds) = SumFunctionOnSet(f, L) + SumFunctionOnSet(f, R)
  BY <1>1, <1>5, <1>7, SumParts
<1>9. SumFunctionOnSet(g, LineIds) = SumFunctionOnSet(g, L) + SumFunctionOnSet(g, R)
  BY <1>1, <1>5, <1>7, SumParts
<1>10. SumFunctionOnSet(g, L) = 0
  BY <1>5, <1>7, SumZero
<1>11. SumFunctionOnSet(g, R) = SumFunctionOnSet(f, R)
  BY <1>5, <1>7, SumSame
<1>12. SumFunctionOnSet(h, L) = SumFunctionOnSet(f, L)
  BY <1>5, <1>7, SumSame
<1>13. SumFunctionOnSet(f, R) \in Int
  BY <1>1, <1>5, <1>7, SumInt
<1>. QED
  BY <1>4, <1>6, <1>8, <1>9, <1>10, <1>11, <1>12, <1>13 DEF L, new

\* One request's copies are counted anew.
LEMMA CopiesChange ==
    ASSUME CartTypeOK, NEW w \in Shoppers, NEW mine \in [Goods -> Nat], NEW p \in Goods
    PROVE  /\ copied' = [copied EXCEPT ![w] = mine]
                => Copies(p)' = Copies(p) - copied[w][p] + mine[p]
           /\ Copies(p) \in Nat /\ copied[w][p] \in Nat
<1>. DEFINE f == [v \in Shoppers |-> copied[v][p]]
            n == mine[p] - copied[w][p]
<1>1. copied \in [Shoppers -> [Goods -> Nat]] /\ IsFiniteSet(Shoppers)
  BY CartAssumption DEF CartTypeOK
<1>2. \A v \in Shoppers : f[v] \in Nat
  BY <1>1
<1>3. copied[w][p] \in Nat /\ mine[p] \in Nat /\ n \in Int
  BY <1>1
<1>4. Copies(p) = SumFunctionOnSet(f, Shoppers)
  BY DEF Copies
<1>5. Copies(p) \in Nat
  <2>. HIDE DEF f
  <2>. QED
    BY <1>1, <1>2, <1>4, SumNat
<1>6. ASSUME copied' = [copied EXCEPT ![w] = mine]
      PROVE  Copies(p)' = Copies(p) - copied[w][p] + mine[p]
  <2>. DEFINE g == [v \in Shoppers |-> copied'[v][p]]
  <2>1. Copies(p)' = SumFunctionOnSet(g, Shoppers)
    BY DEF Copies
  <2>2. g[w] = f[w] + n /\ \A v \in Shoppers \ {w} : g[v] = f[v]
    BY <1>1, <1>3, <1>6
  <2>3. \A v \in Shoppers : f[v] \in Int
    BY <1>2
  <2>. HIDE DEF f, g, n
  <2>4. SumFunctionOnSet(g, Shoppers) = SumFunctionOnSet(f, Shoppers) + n
    BY <1>1, <1>3, <2>2, <2>3, SumGrows
  <2>5. \A a, b, s \in Int : s + (b - a) = s - a + b
    OBVIOUS
  <2>. QED
    BY <1>3, <1>4, <1>5, <2>1, <2>4, <2>5 DEF n
<1>. QED
  BY <1>3, <1>5, <1>6
-----------------------------------------------------------------------------
\* The shopper has no cart yet.
LEMMA CartInitInv == CartInit => CartInv
<1>. SUFFICES ASSUME CartInit PROVE CartInv
  OBVIOUS
<1>1. Resting \in CartCall /\ Resting.what = "none" /\ Resting.pc = "idle" /\ Resting.todo = {}
  BY DEF Resting, CartCall
<1>2. /\ shelf \in [Goods -> 1..MaxPrice] /\ calls \in 0..MaxCalls
      /\ wanted \in [Goods -> Int] /\ copied \in [Shoppers -> [Goods -> Nat]]
  BY CartAssumption DEF CartInit, NoUnits
<1>3. CartTypeOK
  BY <1>1, <1>2, RowKinds DEF CartInit, CartTypeOK, NothingRead
<1>4. CallsKnow
  BY <1>1 DEF CartInit, CallsKnow
<1>5. LinesStay
  BY RowKinds DEF CartInit, LinesStay, NothingRead
<1>6. CartKeepsUnits
  <2>. SUFFICES ASSUME NEW p \in Goods PROVE AllUnits(p) = wanted[p] + Copies(p)
    BY DEF CartKeepsUnits, Copies
  <2>1. wanted[p] = 0 /\ \A v \in Shoppers : copied[v][p] = 0
    BY DEF CartInit, NoUnits
  <2>2. \A l \in LineIds : Part(cartLine[l], p) = 0
    BY RowKinds DEF CartInit, Part
  <2>3. AllUnits(p) = 0
    <3>. DEFINE f == [k \in LineIds |-> Part(cartLine[k], p)]
    <3>1. cartLine \in [LineIds -> CartRow] /\ LineIds \subseteq LineIds
      BY <1>3 DEF CartTypeOK
    <3>2. AllUnits(p) = SumFunctionOnSet(f, LineIds) /\ IsFiniteSet(LineIds)
      BY <3>1, UnitsOfRows DEF AllUnits
    <3>3. \A l \in LineIds : f[l] = 0
      BY <2>2
    <3>. HIDE DEF f
    <3>. QED
      BY <3>2, <3>3, SumZero
  <2>4. Copies(p) = 0
    <3>. DEFINE f == [v \in Shoppers |-> copied[v][p]]
    <3>1. \A v \in Shoppers : f[v] = 0
      BY <2>1
    <3>2. Copies(p) = SumFunctionOnSet(f, Shoppers) /\ IsFiniteSet(Shoppers)
      BY CartAssumption DEF Copies
    <3>. HIDE DEF f
    <3>. QED
      BY <3>1, <3>2, SumZero
  <2>. QED
    BY <2>1, <2>3, <2>4
<1>. QED
  BY <1>3, <1>4, <1>5, <1>6 DEF CartInv
-----------------------------------------------------------------------------
\* What lines may become: none comes back, none changes its product.
Evolves ==
    \A l \in LineIds :
        cartLine[l].state # "unused" =>
            /\ cartLine'[l].state # "unused"
            /\ cartLine'[l].state = "line" =>
                    cartLine[l].state = "line" /\ cartLine'[l].product = cartLine[l].product

CartTypes ==
    /\ cartOwner \in [CartIds -> {"user", "guest", "nobody", "gone"}]
    /\ cartLine \in [LineIds -> CartRow]
    /\ shelf \in [Goods -> 1..MaxPrice]
    /\ wanted \in [Goods -> Int]
    /\ copied \in [Shoppers -> [Goods -> Nat]]
    /\ disturbed \subseteq Goods
    /\ charged \subseteq [product : Goods, price : Nat, shop : Nat]
    /\ calls \in 0..MaxCalls

LEMMA CallTypes ==
    CartTypeOK <=> /\ CartTypes /\ shopper \in [Shoppers -> CartCall]
                   /\ basis \in [Shoppers -> [LineIds -> CartRow]]
BY DEF CartTypeOK, CartTypes

\* The books stay right while nothing they speak of changes.
LEMMA UnitsStay ==
    ASSUME CartKeepsUnits, UNCHANGED <<cartLine, wanted, copied, disturbed>>
    PROVE  CartKeepsUnits'
BY DEF CartKeepsUnits, AllUnits, Units

\* A request goes on to a state of its own.
LEMMA RequestInv ==
    ASSUME CartInv, NEW w \in Shoppers, NEW call \in CartCall, NEW read \in [LineIds -> CartRow],
           shopper' = [shopper EXCEPT ![w] = call], basis' = [basis EXCEPT ![w] = read],
           CartTypes', Evolves, CartKeepsUnits',
           call.what = "add" => call.product \in Goods /\ call.choice \in Selections,
           call.what = "remove" => call.n = 0,
           call.what = "merge" => call.guest \in CartIds,
           call.pc = "write" => call.cart \in CartIds,
           \A l \in call.todo : read[l].state = "line",
           \A l \in LineIds : read[l].state = "line" =>
                /\ cartLine'[l].state # "unused"
                /\ cartLine'[l].state = "line" => cartLine'[l].product = read[l].product
    PROVE  CartInv'
<1>1. /\ shopper \in [Shoppers -> CartCall] /\ basis \in [Shoppers -> [LineIds -> CartRow]]
  BY CallTypes DEF CartInv
<1>2. /\ shopper' \in [Shoppers -> CartCall] /\ basis' \in [Shoppers -> [LineIds -> CartRow]]
      /\ shopper'[w] = call /\ basis'[w] = read
      /\ \A v \in Shoppers \ {w} : shopper'[v] = shopper[v] /\ basis'[v] = basis[v]
  BY <1>1
<1>3. CartTypeOK'
  BY <1>2 DEF CartTypeOK, CartTypes
<1>4. CallsKnow'
  BY <1>2 DEF CartInv, CallsKnow
<1>5. LinesStay'
  <2>. SUFFICES ASSUME NEW v \in Shoppers, NEW l \in LineIds, basis'[v][l].state = "line"
                PROVE  /\ cartLine'[l].state # "unused"
                       /\ cartLine'[l].state = "line" =>
                                cartLine'[l].product = basis'[v][l].product
    BY DEF LinesStay
  <2>1. CASE v = w
    BY <2>1, <1>2
  <2>2. CASE v # w
    BY <2>2, <1>2 DEF CartInv, LinesStay, Evolves
  <2>. QED
    BY <2>1, <2>2
<1>. QED
  BY <1>3, <1>4, <1>5 DEF CartInv

\* A request ends, having done what the books say.
LEMMA EndInv ==
    ASSUME CartInv, NEW w \in Shoppers, EndCall(w), CartTypes', Evolves, CartKeepsUnits'
    PROVE  CartInv'
<1>1. /\ Resting \in CartCall /\ Resting.what = "none" /\ Resting.pc = "idle"
      /\ Resting.todo = {}
  BY DEF Resting, CartCall
<1>2. NothingRead \in [LineIds -> CartRow] /\ \A l \in LineIds : NothingRead[l].state = "unused"
  BY RowKinds DEF NothingRead
<1>. QED
  BY <1>1, <1>2, RequestInv DEF EndCall

\* Lines that stay as they are.
LEMMA SameLines == UNCHANGED cartLine => Evolves
BY DEF Evolves
-----------------------------------------------------------------------------
\* A request begins, with what it knows.
LEMMA StartInv ==
    ASSUME CartInv, NEW w \in Shoppers, NEW call \in CartCall,
           StartCall(w, call), NEW read \in [LineIds -> CartRow],
           basis' = [basis EXCEPT ![w] = read],
           call.what = "add" => call.product \in Goods /\ call.choice \in Selections,
           call.what = "remove" => call.n = 0,
           call.what = "merge" => call.guest \in CartIds,
           \A l \in call.todo : read[l].state = "line",
           \A l \in LineIds : read[l].state = "line" =>
                /\ cartLine[l].state # "unused"
                /\ cartLine[l].state = "line" => cartLine[l].product = read[l].product
    PROVE  CartInv'
<1>. DEFINE next == [call EXCEPT !.pc = "find"]
<1>1. /\ next.pc = "find" /\ next.what = call.what /\ next.product = call.product
      /\ next.choice = call.choice /\ next.n = call.n /\ next.guest = call.guest
      /\ next.todo = call.todo /\ next \in CartCall
  BY DEF CartCall
<1>2. /\ shopper' = [shopper EXCEPT ![w] = next]
      /\ UNCHANGED <<cartOwner, cartLine, shelf, wanted, copied, disturbed, charged>>
      /\ calls' \in 0..MaxCalls
  BY CartAssumption DEF StartCall, cartDb, CartInv, CartTypeOK
<1>. HIDE DEF next
<1>3. CartTypes'
  BY <1>2 DEF CartInv, CartTypeOK, CartTypes
<1>4. Evolves /\ CartKeepsUnits'
  BY <1>2, SameLines, UnitsStay DEF CartInv
<1>. QED
  BY <1>1, <1>2, <1>3, <1>4, RequestInv

LEMMA RestingOk ==
    /\ Resting \in CartCall /\ Resting.what = "none" /\ Resting.pc = "idle" /\ Resting.who = "user"
    /\ Resting.todo = {} /\ Resting.n = 0
BY DEF Resting, CartCall

LEMMA StartsCart ==
    ASSUME CartInv, NEW w \in Shoppers,
           StartAdd(w) \/ StartChange(w) \/ StartOrder(w) \/ StartMerge(w)
    PROVE  CartInv'
<1>1. ASSUME UNCHANGED basis, NEW call \in CartCall, StartCall(w, call), call.todo = {},
             call.what = "add" => call.product \in Goods /\ call.choice \in Selections,
             call.what = "remove" => call.n = 0, call.what # "merge"
      PROVE  CartInv'
  <2>1. basis[w] \in [LineIds -> CartRow] /\ basis' = [basis EXCEPT ![w] = basis[w]]
    BY <1>1 DEF CartInv, CartTypeOK
  <2>2. \A l \in LineIds : basis[w][l].state = "line" =>
                /\ cartLine[l].state # "unused"
                /\ cartLine[l].state = "line" => cartLine[l].product = basis[w][l].product
    BY DEF CartInv, LinesStay
  <2>. QED
    BY <1>1, <2>1, <2>2, StartInv
<1>2. CASE StartAdd(w)
  <2>1. PICK who \in {"user", "guest"}, p \in Goods, c \in Selections, n \in 1..MaxQuantity :
          StartCall(w, [Resting EXCEPT !.what = "add", !.who = who, !.product = p,
                                       !.choice = c, !.n = n, !.price = shelf])
    BY <1>2 DEF StartAdd
  <2>. DEFINE call == [Resting EXCEPT !.what = "add", !.who = who, !.product = p,
                                       !.choice = c, !.n = n, !.price = shelf]
  <2>2. n \in Nat /\ shelf \in [Goods -> Nat]
    BY CartAssumption DEF CartInv, CartTypeOK
  <2>3. /\ call \in CartCall /\ call.todo = {} /\ call.what = "add"
        /\ call.product = p /\ call.choice = c
    BY <2>2, RestingOk DEF CartCall
  <2>. HIDE DEF call
  <2>4. StartCall(w, call)
    BY <2>1 DEF call
  <2>. QED
    BY <1>1, <1>2, <2>3, <2>4 DEF StartAdd
<1>3. CASE StartChange(w)
  <2>1. PICK who \in {"user", "guest"}, n \in 0..MaxQuantity :
          StartCall(w, [Resting EXCEPT !.what = IF n = 0 THEN "remove" ELSE "set",
                                       !.who = who, !.n = n])
    BY <1>3 DEF StartChange
  <2>. DEFINE call == [Resting EXCEPT !.what = IF n = 0 THEN "remove" ELSE "set",
                                       !.who = who, !.n = n]
  <2>2. n \in Nat
    BY CartAssumption
  <2>3. /\ call \in CartCall /\ call.todo = {} /\ call.what \in {"remove", "set"}
        /\ call.n = n /\ (call.what = "remove" => n = 0)
    BY <2>2, RestingOk, ZenonT(30) DEF CartCall
  <2>. HIDE DEF call
  <2>4. StartCall(w, call)
    BY <2>1 DEF call
  <2>. QED
    BY <1>1, <1>3, <2>3, <2>4 DEF StartChange
<1>4. CASE StartOrder(w)
  <2>. DEFINE call == [Resting EXCEPT !.what = "order"]
  <2>1. call \in CartCall /\ call.todo = {} /\ call.what = "order"
    BY RestingOk DEF CartCall
  <2>2. StartCall(w, call) /\ UNCHANGED basis
    BY <1>4 DEF StartOrder
  <2>. HIDE DEF call
  <2>. QED
    BY <1>1, <2>1, <2>2
<1>5. CASE StartMerge(w)
  <2>1. PICK g \in CartsOf("guest") :
        /\ StartCall(w, [Resting EXCEPT !.what = "merge", !.guest = g,
                                        !.todo = LinesOf(cartLine, g)])
        /\ basis' = [basis EXCEPT ![w] =
                [l \in LineIds |-> IF cartLine[l].cart = g THEN cartLine[l] ELSE NoLine]]
    BY <1>5 DEF StartMerge
  <2>. DEFINE call == [Resting EXCEPT !.what = "merge", !.guest = g,
                                        !.todo = LinesOf(cartLine, g)]
              read == [l \in LineIds |-> IF cartLine[l].cart = g THEN cartLine[l] ELSE NoLine]
  <2>2. g \in CartIds /\ LinesOf(cartLine, g) \subseteq LineIds
    BY DEF CartsOf, LinesOf
  <2>3. /\ call \in CartCall /\ call.what = "merge" /\ call.guest = g
        /\ call.todo = LinesOf(cartLine, g)
    BY <2>2, RestingOk DEF CartCall
  <2>4. cartLine \in [LineIds -> CartRow]
    BY DEF CartInv, CartTypeOK
  <2>5. /\ read \in [LineIds -> CartRow]
        /\ \A l \in LineIds : read[l].state = "line" => read[l] = cartLine[l]
    BY <2>4, RowKinds
  <2>6. \A l \in LinesOf(cartLine, g) : read[l].state = "line"
    BY DEF LinesOf
  <2>7. StartCall(w, call) /\ basis' = [basis EXCEPT ![w] = read]
    BY <2>1
  <2>. HIDE DEF call, read
  <2>8. \A l \in LineIds : read[l].state = "line" =>
                /\ cartLine[l].state # "unused"
                /\ cartLine[l].state = "line" => cartLine[l].product = read[l].product
    BY <2>5
  <2>9. \A l \in call.todo : read[l].state = "line"
    BY <2>3, <2>6
  <2>10. /\ call.what = "add" => call.product \in Goods /\ call.choice \in Selections
         /\ call.what = "remove" => call.n = 0
         /\ call.what = "merge" => call.guest \in CartIds
    BY <2>2, <2>3
  <2>. QED
    BY <2>3, <2>5, <2>7, <2>8, <2>9, <2>10, StartInv
<1>. QED
  BY <1>2, <1>3, <1>4, <1>5

\* It finds a cart, or makes one.
LEMMA FindsCart ==
    ASSUME CartInv, NEW w \in Shoppers, FindCart(w) \/ CreateCart(w) PROVE CartInv'
<1>. DEFINE s == shopper[w]
<1>1. s \in CartCall /\ basis[w] \in [LineIds -> CartRow] /\ cartLine \in [LineIds -> CartRow]
  BY DEF CartInv, CartTypeOK
<1>2. /\ s.what = "add" => s.product \in Goods /\ s.choice \in Selections
      /\ s.what = "remove" => s.n = 0
      /\ s.what = "merge" => s.guest \in CartIds
      /\ \A l \in s.todo : basis[w][l].state = "line"
      /\ s.todo \subseteq LineIds
  BY <1>1 DEF CartInv, CallsKnow, CartCall
<1>3. \A l \in LineIds : basis[w][l].state = "line" =>
                /\ cartLine[l].state # "unused"
                /\ cartLine[l].state = "line" => cartLine[l].product = basis[w][l].product
  BY DEF CartInv, LinesStay
<1>4. shelf \in [Goods -> Nat]
  BY CartAssumption DEF CartInv, CartTypeOK
<1>5. ASSUME FindCart(w), shopper' = [shopper EXCEPT ![w].pc = "create"], UNCHANGED basis
      PROVE  CartInv'
  <2>. DEFINE call == [s EXCEPT !.pc = "create"]
  <2>1. /\ call \in CartCall /\ call.pc = "create" /\ call.what = s.what /\ call.n = s.n
        /\ call.product = s.product /\ call.choice = s.choice /\ call.guest = s.guest
        /\ call.todo = s.todo
    BY <1>1 DEF CartCall
  <2>2. shopper' = [shopper EXCEPT ![w] = call] /\ basis' = [basis EXCEPT ![w] = basis[w]]
    BY <1>5 DEF CartInv, CartTypeOK
  <2>3. UNCHANGED <<cartOwner, cartLine, shelf, wanted, copied, disturbed, charged, calls>>
    BY <1>5 DEF FindCart, cartDb
  <2>. HIDE DEF call
  <2>4. CartTypes' /\ Evolves /\ CartKeepsUnits'
    BY <2>3, SameLines, UnitsStay DEF CartInv, CartTypeOK, CartTypes
  <2>. QED
    BY <1>1, <1>2, <1>3, <2>1, <2>2, <2>3, <2>4, RequestInv, ZenonT(30)
<1>6. ASSUME FindCart(w), NEW c \in CartsOf(s.who),
             shopper' = [shopper EXCEPT ![w].pc = "write", ![w].cart = c,
                        ![w].price = IF s.what = "order" THEN shelf ELSE @],
             basis' = [basis EXCEPT ![w] = [l \in LineIds |->
                        IF cartLine[l].cart = c THEN cartLine[l] ELSE @[l]]]
      PROVE  CartInv'
  <2>. DEFINE call == [s EXCEPT !.pc = "write", !.cart = c,
                                !.price = IF s.what = "order" THEN shelf ELSE s.price]
              read == [l \in LineIds |->
                        IF cartLine[l].cart = c THEN cartLine[l] ELSE basis[w][l]]
  <2>1. c \in CartIds
    BY DEF CartsOf
  <2>2. /\ call \in CartCall /\ call.pc = "write" /\ call.what = s.what /\ call.n = s.n
        /\ call.product = s.product /\ call.choice = s.choice /\ call.guest = s.guest
        /\ call.todo = s.todo /\ call.cart = c
    BY <1>1, <1>4, <2>1, ZenonT(30) DEF CartCall
  <2>3. shopper' = [shopper EXCEPT ![w] = call] /\ basis' = [basis EXCEPT ![w] = read]
    BY <1>6 DEF CartInv, CartTypeOK
  <2>4. read \in [LineIds -> CartRow]
    BY <1>1
  <2>5. \A l \in LineIds : read[l] = cartLine[l] \/ read[l] = basis[w][l]
    OBVIOUS
  <2>6. \A l \in LineIds : read[l] = basis[w][l] \/ read[l].state = "line"
    BY <1>1, <2>1, RowKinds
  <2>7. UNCHANGED <<cartOwner, cartLine, shelf, wanted, copied, disturbed, charged, calls>>
    BY <1>6 DEF FindCart, cartDb
  <2>. HIDE DEF call, read
  <2>8. CartTypes' /\ Evolves /\ CartKeepsUnits'
    BY <2>7, SameLines, UnitsStay DEF CartInv, CartTypeOK, CartTypes
  <2>9. \A l \in call.todo : read[l].state = "line"
    BY <1>2, <2>2, <2>6
  <2>10. \A l \in LineIds : read[l].state = "line" =>
                /\ cartLine'[l].state # "unused"
                /\ cartLine'[l].state = "line" => cartLine'[l].product = read[l].product
    BY <1>3, <2>5, <2>7
  <2>. QED
    BY <1>2, <2>1, <2>2, <2>3, <2>4, <2>8, <2>9, <2>10, RequestInv
<1>7. CASE CreateCart(w)
  <2>. DEFINE c == CHOOSE c \in CartsOf("nobody") : TRUE
              call == [s EXCEPT !.pc = "write", !.cart = c]
  <2>1. c \in CartIds
    BY <1>7 DEF CreateCart, CartsOf
  <2>2. /\ cartOwner' = [cartOwner EXCEPT ![c] = s.who]
        /\ shopper' = [shopper EXCEPT ![w].pc = "write", ![w].cart = c]
        /\ UNCHANGED <<cartLine, shelf, basis, wanted, copied, disturbed, charged, calls>>
    BY <1>7 DEF CreateCart
  <2>. HIDE DEF c
  <2>3. /\ call \in CartCall /\ call.pc = "write" /\ call.what = s.what /\ call.n = s.n
        /\ call.product = s.product /\ call.choice = s.choice /\ call.guest = s.guest
        /\ call.todo = s.todo /\ call.cart = c
    BY <1>1, <2>1 DEF CartCall
  <2>4. shopper' = [shopper EXCEPT ![w] = call] /\ basis' = [basis EXCEPT ![w] = basis[w]]
    BY <2>2 DEF CartInv, CartTypeOK
  <2>5. cartOwner' \in [CartIds -> {"user", "guest", "nobody", "gone"}]
    BY <1>1, <2>1, <2>2 DEF CartInv, CartTypeOK, CartCall
  <2>. HIDE DEF call
  <2>6. CartTypes' /\ Evolves /\ CartKeepsUnits'
    BY <2>2, <2>5, SameLines, UnitsStay DEF CartInv, CartTypeOK, CartTypes
  <2>7. \A l \in LineIds : basis[w][l].state = "line" =>
                /\ cartLine'[l].state # "unused"
                /\ cartLine'[l].state = "line" => cartLine'[l].product = basis[w][l].product
    BY <1>3, <2>2
  <2>8. \A l \in call.todo : basis[w][l].state = "line"
    BY <1>2, <2>3
  <2>. QED
    BY <1>1, <1>2, <2>1, <2>3, <2>4, <2>6, <2>7, <2>8, RequestInv
<1>. QED
  BY <1>5, <1>6, <1>7 DEF FindCart
-----------------------------------------------------------------------------
\* What the books say, product by product.
LEMMA Books ==
    ASSUME CartInv, NEW p \in Goods
    PROVE  /\ AllUnits(p) \in Nat /\ wanted[p] \in Int /\ Copies(p) \in Nat
           /\ p \notin disturbed => AllUnits(p) = wanted[p] + Copies(p)
<1>1. cartLine \in [LineIds -> CartRow] /\ LineIds \subseteq LineIds /\ wanted[p] \in Int
  BY DEF CartInv, CartTypeOK
<1>2. AllUnits(p) \in Nat
  BY <1>1, UnitsOfRows DEF AllUnits
<1>3. Copies(p) \in Nat
  <2>. DEFINE f == [v \in Shoppers |-> copied[v][p]]
  <2>1. \A v \in Shoppers : f[v] \in Nat
    BY DEF CartInv, CartTypeOK
  <2>2. Copies(p) = SumFunctionOnSet(f, Shoppers) /\ IsFiniteSet(Shoppers)
    BY CartAssumption DEF Copies
  <2>. HIDE DEF f
  <2>. QED
    BY <2>1, <2>2, SumNat
<1>4. p \notin disturbed => AllUnits(p) = wanted[p] + Copies(p)
  BY DEF CartInv, CartKeepsUnits, Copies
<1>. QED
  BY <1>1, <1>2, <1>3, <1>4

\* One line of cartLine is written.
LEMMA WritesLine ==
    ASSUME CartInv, NEW l \in LineIds, NEW x \in CartRow, cartLine' = [cartLine EXCEPT ![l] = x],
           cartLine[l].state # "unused" =>
                /\ x.state # "unused"
                /\ x.state = "line" => cartLine[l].state = "line" /\ x.product = cartLine[l].product
    PROVE  /\ cartLine' \in [LineIds -> CartRow] /\ Evolves
           /\ \A p \in Goods : AllUnits(p)' = AllUnits(p) - Part(cartLine[l], p) + Part(x, p)
           /\ \A p \in Goods : AllUnits(p) \in Nat /\ Part(cartLine[l], p) \in Nat /\ Part(x, p) \in Nat
<1>1. cartLine \in [LineIds -> CartRow]
  BY DEF CartInv, CartTypeOK
<1>2. cartLine' \in [LineIds -> CartRow] /\ Evolves
  BY <1>1 DEF Evolves
<1>3. ASSUME NEW p \in Goods
      PROVE  /\ AllUnits(p)' = AllUnits(p) - Part(cartLine[l], p) + Part(x, p)
             /\ AllUnits(p) \in Nat /\ Part(cartLine[l], p) \in Nat /\ Part(x, p) \in Nat
  <2>1. AllUnits(p)' = Units(cartLine', LineIds, p)
    BY DEF AllUnits
  <2>2. AllUnits(p)' = AllUnits(p) - Part(cartLine[l], p) + Part(x, p)
    BY <1>1, <2>1, LineChanges DEF AllUnits
  <2>. QED
    BY <1>1, <2>2, Books, PartNat
<1>. QED
  BY <1>2, <1>3

\* What adding n units of q does: to all but what is disturbed, just that.
Adds(q, n) ==
    /\ cartLine' \in [LineIds -> CartRow] /\ Evolves
    /\ disturbed \subseteq disturbed' /\ disturbed' \subseteq Goods
    /\ \A p \in Goods \ disturbed' : AllUnits(p)' = AllUnits(p) + IF p = q THEN n ELSE 0

LEMMA IncreaseAdds ==
    ASSUME CartInv, NEW w \in Shoppers, NEW l \in LineIds, NEW n \in Nat, Increase(w, l, n),
           basis[w][l].state = "line"
    PROVE  Adds(basis[w][l].product, n)
<1>. DEFINE old == cartLine[l]
            was == basis[w][l].quantity
            x == [old EXCEPT !.quantity = was + n]
            q == basis[w][l].product
<1>1. cartLine \in [LineIds -> CartRow] /\ basis[w] \in [LineIds -> CartRow] /\ disturbed \subseteq Goods
  BY DEF CartInv, CartTypeOK
<1>2. old.state = "line" /\ old \in LineRow /\ was \in Nat /\ old.product = q /\ q \in Goods
  <2>1. old.state = "line" /\ old \in LineRow
    BY <1>1, RowKinds DEF Increase, Still
  <2>2. was \in Nat
    BY <1>1, RowKinds
  <2>3. old.product = q
    BY <2>1 DEF CartInv, LinesStay
  <2>. QED
    BY <2>1, <2>2, <2>3 DEF LineRow
<1>3. /\ x \in LineRow /\ x.state = "line" /\ x.product = q /\ x.quantity = was + n
      /\ old.quantity \in Nat
  BY <1>2 DEF LineRow
<1>4. cartLine' = [cartLine EXCEPT ![l] = x]
  BY <1>1 DEF Increase
<1>5. disturbed' = IF old.quantity # was THEN disturbed \cup {q} ELSE disturbed
  BY <1>2 DEF Increase
<1>6. disturbed \subseteq disturbed' /\ disturbed' \subseteq Goods
  BY <1>1, <1>2, <1>5
<1>. HIDE DEF x, old, was, q
<1>7. x \in CartRow
  BY <1>3 DEF CartRow
<1>8. /\ cartLine' \in [LineIds -> CartRow] /\ Evolves
      /\ \A p \in Goods : AllUnits(p)' = AllUnits(p) - Part(old, p) + Part(x, p)
      /\ \A p \in Goods : AllUnits(p) \in Nat
  BY <1>2, <1>3, <1>4, <1>7, WritesLine DEF old
<1>9. ASSUME NEW p \in Goods \ disturbed'
      PROVE  AllUnits(p)' = AllUnits(p) + IF p = q THEN n ELSE 0
  <2>1. CASE p = q
    <3>1. old.quantity = was /\ Part(old, p) = was /\ Part(x, p) = was + n
      BY <1>2, <1>3, <1>5, <1>9, <2>1 DEF Part
    <3>2. AllUnits(p) \in Nat /\ AllUnits(p)' = AllUnits(p) - was + (was + n)
      BY <1>8, <3>1
    <3>. QED
      BY <1>2, <2>1, <3>2
  <2>2. CASE p # q
    <3>1. Part(old, p) = 0 /\ Part(x, p) = 0
      BY <1>2, <1>3, <2>2 DEF Part
    <3>2. AllUnits(p) \in Nat /\ AllUnits(p)' = AllUnits(p) - 0 + 0
      BY <1>8, <3>1
    <3>. QED
      BY <2>2, <3>2
  <2>. QED
    BY <2>1, <2>2
<1>. QED
  BY <1>6, <1>8, <1>9 DEF Adds, q

LEMMA NewLineAdds ==
    ASSUME CartInv, NEW c \in CartIds, NEW q \in Goods, NEW choice \in Selections, NEW n \in Nat,
           NEW price \in Nat, NewLine(c, q, choice, n, price), UNCHANGED disturbed
    PROVE  Adds(q, n)
<1>. DEFINE l == CHOOSE l \in LineIds : cartLine[l] = NoLine
            x == [state |-> "line", cart |-> c, product |-> q, choice |-> choice,
                  quantity |-> n, price |-> price]
<1>1. l \in LineIds /\ cartLine[l] = NoLine
  BY DEF NewLine
<1>2. x \in LineRow /\ x.product = q /\ x.quantity = n
  BY DEF LineRow
<1>3. cartLine' = [cartLine EXCEPT ![l] = x]
  BY DEF NewLine
<1>4. disturbed' = disturbed /\ disturbed \subseteq Goods
  BY DEF CartInv, CartTypeOK
<1>. HIDE DEF x, l
<1>5. x \in CartRow
  BY <1>2 DEF CartRow
<1>6. cartLine[l].state = "unused"
  BY <1>1, RowKinds
<1>7. /\ cartLine' \in [LineIds -> CartRow] /\ Evolves
      /\ \A p \in Goods : AllUnits(p)' = AllUnits(p) - Part(cartLine[l], p) + Part(x, p)
      /\ \A p \in Goods : AllUnits(p) \in Nat
  BY <1>1, <1>3, <1>5, <1>6, WritesLine
<1>8. ASSUME NEW p \in Goods
      PROVE  AllUnits(p)' = AllUnits(p) + IF p = q THEN n ELSE 0
  <2>1. Part(cartLine[l], p) = 0 /\ Part(x, p) = IF p = q THEN n ELSE 0
    BY <1>1, <1>2, RowKinds DEF Part
  <2>2. AllUnits(p) \in Nat /\ AllUnits(p)' = AllUnits(p) - 0 + IF p = q THEN n ELSE 0
    BY <1>7, <2>1
  <2>. QED
    BY <2>2
<1>. QED
  BY <1>4, <1>7, <1>8 DEF Adds
-----------------------------------------------------------------------------
\* The books after a step, put together from its parts.
LEMMA BooksKept ==
    ASSUME \A p \in Goods \ disturbed' : AllUnits(p)' = wanted'[p] + Copies(p)'
    PROVE  CartKeepsUnits'
BY DEF CartKeepsUnits, Copies

\* A shopper adds units: wanted, and in the cart.
LEMMA AddWriteInv == ASSUME CartInv, NEW w \in Shoppers, AddWrite(w) PROVE CartInv'
<1>. DEFINE s == shopper[w]
            q == s.product
            same == {l \in Mine(w) : basis[w][l].product = s.product /\ basis[w][l].choice = s.choice}
<1>1. /\ s \in CartCall /\ q \in Goods /\ s.choice \in Selections /\ s.cart \in CartIds
      /\ s.n \in Nat /\ s.price[q] \in Nat
  <2>1. s \in CartCall /\ s.what = "add" /\ s.pc = "write"
    BY DEF CartInv, CartTypeOK, AddWrite, Writes
  <2>2. q \in Goods /\ s.choice \in Selections /\ s.cart \in CartIds
    BY <2>1 DEF CartInv, CallsKnow
  <2>3. s.n \in Nat /\ s.price \in [Goods -> Nat]
    BY <2>1 DEF CartCall
  <2>. QED
    BY <2>1, <2>2, <2>3
<1>2. Adds(q, s.n)
  <2>1. CASE \E l \in same : Increase(w, l, s.n)
    <3>1. PICK l \in same : Increase(w, l, s.n)
      BY <2>1
    <3>2. l \in LineIds /\ basis[w][l].state = "line" /\ basis[w][l].product = q
      BY DEF Mine, LinesOf
    <3>3. Adds(basis[w][l].product, s.n)
      BY <1>1, <3>1, <3>2, IncreaseAdds
    <3>. QED
      BY <3>2, <3>3
  <2>2. CASE ~ \E l \in same : Increase(w, l, s.n)
    <3>1. UNCHANGED disturbed /\ NewLine(s.cart, q, s.choice, s.n, s.price[q])
      BY <2>2 DEF AddWrite
    <3>. HIDE DEF s, q
    <3>. QED
      BY <1>1, <3>1, NewLineAdds
  <2>. QED
    BY <2>1, <2>2
<1>3. /\ wanted' = [wanted EXCEPT ![q] = @ + s.n]
      /\ EndCall(w) /\ UNCHANGED <<cartOwner, shelf, copied, charged, calls>>
  BY DEF AddWrite
<1>. HIDE DEF s, q
<1>4. wanted' \in [Goods -> Int] /\ \A p \in Goods : wanted'[p] = wanted[p] + IF p = q THEN s.n ELSE 0
  BY <1>1, <1>3 DEF CartInv, CartTypeOK
<1>5. CartTypes' /\ Evolves
  BY <1>2, <1>3, <1>4 DEF CartInv, CartTypeOK, CartTypes, Adds
<1>6. CartKeepsUnits'
  <2>. SUFFICES ASSUME NEW p \in Goods \ disturbed' PROVE AllUnits(p)' = wanted'[p] + Copies(p)'
    BY BooksKept
  <2>. DEFINE k == IF p = q THEN s.n ELSE 0
  <2>1. AllUnits(p)' = AllUnits(p) + k /\ wanted'[p] = wanted[p] + k /\ k \in Nat
    BY <1>1, <1>2, <1>4 DEF Adds
  <2>2. AllUnits(p) = wanted[p] + Copies(p)
    BY <1>2, Books DEF Adds
  <2>3. Copies(p)' = Copies(p)
    BY <1>3 DEF Copies
  <2>. HIDE DEF k
  <2>. QED
    BY <2>1, <2>2, <2>3, Books
<1>. QED
  BY <1>3, <1>5, <1>6, EndInv

\* A quantity is set, or a line removed, whatever the line has become.
LEMMA SetOrRemoveInv == ASSUME CartInv, NEW w \in Shoppers, SetOrRemove(w) PROVE CartInv'
<1>. DEFINE s == shopper[w]
<1>1. s \in CartCall /\ s.n \in Nat /\ (s.what = "remove" => s.n = 0)
  BY DEF CartInv, CartTypeOK, CallsKnow, CartCall
<1>2. PICK l \in Mine(w) :
          /\ Still(l)
          /\ cartLine' = [cartLine EXCEPT ![l] = IF s.what = "remove" THEN Deleted
                                                 ELSE [@ EXCEPT !.quantity = s.n]]
          /\ wanted' = [wanted EXCEPT ![cartLine[l].product] = @ - cartLine[l].quantity + s.n]
  BY DEF SetOrRemove
<1>. DEFINE old == cartLine[l]
            q == old.product
            x == IF s.what = "remove" THEN Deleted ELSE [old EXCEPT !.quantity = s.n]
<1>3. l \in LineIds /\ cartLine' = [cartLine EXCEPT ![l] = x]
  BY <1>2 DEF Mine, LinesOf
<1>4. old \in LineRow /\ q \in Goods /\ old.quantity \in Nat /\ old.state = "line"
  <2>1. cartLine \in [LineIds -> CartRow]
    BY DEF CartInv, CartTypeOK
  <2>2. old \in LineRow /\ old.state = "line"
    BY <1>2, <1>3, <2>1, RowKinds DEF Still
  <2>. QED
    BY <2>2 DEF LineRow
<1>5. /\ x \in CartRow /\ x.state # "unused" /\ (x.state = "line" => x.product = q)
      /\ \A p \in Goods : Part(x, p) = IF p = q THEN s.n ELSE 0
  <2>1. CASE s.what = "remove"
    <3>1. x = Deleted /\ s.n = 0
      BY <1>1, <2>1
    <3>. QED
      BY <3>1, RowKinds DEF Part
  <2>2. CASE s.what # "remove"
    <3>1. x = [old EXCEPT !.quantity = s.n]
      BY <2>2
    <3>2. x \in LineRow /\ x.state = "line" /\ x.product = q /\ x.quantity = s.n
      BY <1>1, <1>4, <3>1 DEF LineRow
    <3>. QED
      BY <3>2 DEF Part, CartRow
  <2>. QED
    BY <2>1, <2>2
<1>6. /\ wanted' = [wanted EXCEPT ![q] = @ - old.quantity + s.n]
      /\ EndCall(w) /\ UNCHANGED <<cartOwner, shelf, copied, disturbed, charged, calls>>
  BY <1>2 DEF SetOrRemove
<1>. HIDE DEF s, x, old, q
<1>7. /\ cartLine' \in [LineIds -> CartRow] /\ Evolves
      /\ \A p \in Goods : AllUnits(p)' = AllUnits(p) - Part(old, p) + Part(x, p)
      /\ \A p \in Goods : AllUnits(p) \in Nat
  BY <1>3, <1>4, <1>5, WritesLine DEF old, q
<1>8. /\ wanted' \in [Goods -> Int]
      /\ wanted'[q] = wanted[q] - old.quantity + s.n
      /\ \A p \in Goods \ {q} : wanted'[p] = wanted[p]
  BY <1>1, <1>4, <1>6 DEF CartInv, CartTypeOK
<1>9. CartTypes'
  BY <1>6, <1>7, <1>8 DEF CartInv, CartTypeOK, CartTypes
<1>10. CartKeepsUnits'
  <2>. SUFFICES ASSUME NEW p \in Goods \ disturbed' PROVE AllUnits(p)' = wanted'[p] + Copies(p)'
    BY BooksKept
  <2>1. Copies(p)' = Copies(p) /\ AllUnits(p) = wanted[p] + Copies(p)
    BY <1>6, Books DEF Copies
  <2>2. CASE p = q
    <3>1. Part(old, p) = old.quantity /\ Part(x, p) = s.n
      BY <1>5, <2>2 DEF Part, q
    <3>2. AllUnits(p)' = AllUnits(p) - old.quantity + s.n
      BY <1>7, <3>1
    <3>. QED
      BY <1>1, <1>4, <1>8, <2>1, <2>2, <3>2, Books
  <2>3. CASE p # q
    <3>1. Part(old, p) = 0 /\ Part(x, p) = 0
      BY <1>5, <2>3 DEF Part, q
    <3>2. AllUnits(p)' = AllUnits(p) - 0 + 0
      BY <1>7, <3>1
    <3>. QED
      BY <1>8, <2>1, <2>3, <3>2, Books
  <2>. QED
    BY <2>2, <2>3
<1>. QED
  BY <1>6, <1>7, <1>9, <1>10, EndInv

\* A merge copies a line of the guest's: into the cart, and into its own books.
LEMMA MergeLineInv == ASSUME CartInv, NEW w \in Shoppers, MergeLine(w) PROVE CartInv'
<1>. DEFINE s == shopper[w]
<1>1. /\ s \in CartCall /\ s.what = "merge" /\ s.pc = "write" /\ s.cart \in CartIds
      /\ s.guest \in CartIds /\ s.todo \subseteq LineIds
      /\ \A l \in s.todo : basis[w][l].state = "line"
  BY DEF CartInv, CartTypeOK, CallsKnow, CartCall, MergeLine, Writes
<1>2. PICK g \in s.todo :
          LET item == basis[w][g]
              same == {l \in Mine(w) : basis[w][l].product = item.product}
          IN  /\ \/ \E l \in same : Increase(w, l, item.quantity)
                 \/ same = {} /\ UNCHANGED disturbed
                      /\ NewLine(s.cart, item.product, item.choice, item.quantity,
                                 item.price)
              /\ shopper' = [shopper EXCEPT ![w].todo = @ \ {g}]
              /\ copied' = [copied EXCEPT ![w][item.product] = @ + item.quantity]
  BY DEF MergeLine
<1>. DEFINE item == basis[w][g]
            q == item.product
            n == item.quantity
            same == {l \in Mine(w) : basis[w][l].product = q}
            call == [s EXCEPT !.todo = @ \ {g}]
            mine == [copied[w] EXCEPT ![q] = @ + n]
<1>3. item \in LineRow
  BY <1>1, RowKinds DEF CartInv, CartTypeOK
<1>4. q \in Goods /\ n \in Nat /\ item.choice \in Selections /\ item.price \in Nat
  BY <1>3 DEF LineRow
<1>5. Adds(q, n)
  <2>1. CASE \E l \in same : Increase(w, l, n)
    <3>1. PICK l \in same : Increase(w, l, n)
      BY <2>1
    <3>2. l \in LineIds /\ basis[w][l].state = "line" /\ basis[w][l].product = q
      BY DEF Mine, LinesOf
    <3>3. Adds(basis[w][l].product, n)
      BY <1>4, <3>1, <3>2, IncreaseAdds
    <3>. QED
      BY <3>2, <3>3
  <2>2. CASE ~ \E l \in same : Increase(w, l, n)
    <3>1. UNCHANGED disturbed /\ NewLine(s.cart, q, item.choice, n, item.price)
      BY <1>2, <2>2
    <3>. HIDE DEF s, q, n, item
    <3>. QED
      BY <1>1, <1>4, <3>1, NewLineAdds
  <2>. QED
    BY <2>1, <2>2
<1>6. /\ shopper' = [shopper EXCEPT ![w] = call] /\ copied' = [copied EXCEPT ![w] = mine]
      /\ UNCHANGED <<cartOwner, shelf, basis, wanted, charged, calls>>
  BY <1>2 DEF MergeLine, CartInv, CartTypeOK
<1>7. /\ call \in CartCall /\ call.what = "merge" /\ call.cart \in CartIds
      /\ call.guest \in CartIds /\ call.todo \subseteq s.todo
  BY <1>1 DEF CartCall
<1>8. copied[w] \in [Goods -> Nat] /\ basis[w] \in [LineIds -> CartRow]
  BY DEF CartInv, CartTypeOK
<1>9. /\ mine \in [Goods -> Nat]
      /\ \A p \in Goods : mine[p] = copied[w][p] + IF p = q THEN n ELSE 0
  BY <1>4, <1>8
<1>. HIDE DEF item, q, n, same, call, mine
<1>10. CartTypes'
  BY <1>5, <1>6, <1>9 DEF CartInv, CartTypeOK, CartTypes, Adds
<1>11. CartKeepsUnits'
  <2>. SUFFICES ASSUME NEW p \in Goods \ disturbed' PROVE AllUnits(p)' = wanted'[p] + Copies(p)'
    BY BooksKept
  <2>. DEFINE k == IF p = q THEN n ELSE 0
  <2>1. AllUnits(p)' = AllUnits(p) + k /\ mine[p] = copied[w][p] + k /\ k \in Nat
    BY <1>4, <1>5, <1>9 DEF Adds
  <2>2. AllUnits(p) = wanted[p] + Copies(p) /\ wanted'[p] = wanted[p]
    BY <1>5, <1>6, Books DEF Adds
  <2>3. Copies(p)' = Copies(p) - copied[w][p] + mine[p] /\ copied[w][p] \in Nat
    BY <1>6, <1>9, CopiesChange DEF CartInv
  <2>. HIDE DEF k
  <2>. QED
    BY <2>1, <2>2, <2>3, Books
<1>12. /\ Evolves /\ basis' = [basis EXCEPT ![w] = basis[w]]
       /\ \A l \in call.todo : basis[w][l].state = "line"
  BY <1>1, <1>5, <1>6, <1>7 DEF Adds, CartInv, CartTypeOK
<1>13. \A l \in LineIds : basis[w][l].state = "line" =>
                /\ cartLine'[l].state # "unused"
                /\ cartLine'[l].state = "line" => cartLine'[l].product = basis[w][l].product
  BY <1>12 DEF Evolves, CartInv, LinesStay
<1>14. /\ call.what = "add" => call.product \in Goods /\ call.choice \in Selections
       /\ call.what = "remove" => call.n = 0
       /\ call.what = "merge" => call.guest \in CartIds
       /\ call.pc = "write" => call.cart \in CartIds
  BY <1>7
<1>15. shopper' = [shopper EXCEPT ![w] = call] /\ call \in CartCall /\ basis[w] \in [LineIds -> CartRow]
  BY <1>6, <1>7, <1>8
<1>. QED
  BY <1>10, <1>11, <1>12, <1>13, <1>14, <1>15, RequestInv

\* Deleted lines do not come back.
LEMMA ClearEvolves == ASSUME CartTypeOK, NEW c, cartLine' = Clear(c) PROVE Evolves
BY RowKinds DEF Evolves, Clear

\* A cart goes, or all its lines: what the books lose by it is what it held.
LEMMA MergeEndInv == ASSUME CartInv, NEW w \in Shoppers, MergeEnd(w) PROVE CartInv'
<1>. DEFINE g == shopper[w].guest
            L == LinesOf(cartLine, g)
<1>1. g \in CartIds
  BY DEF CartInv, CallsKnow, MergeEnd, Writes
<1>2. /\ cartOwner' = [cartOwner EXCEPT ![g] = "gone"] /\ cartLine' = Clear(g)
      /\ disturbed' = disturbed \cup {p \in Goods : Units(cartLine, L, p) # copied[w][p]}
      /\ copied' = [copied EXCEPT ![w] = NoUnits]
      /\ EndCall(w) /\ UNCHANGED <<shelf, wanted, charged, calls>>
  BY DEF MergeEnd
<1>3. NoUnits \in [Goods -> Nat] /\ \A p \in Goods : NoUnits[p] = 0
  BY DEF NoUnits
<1>4. cartLine' \in [LineIds -> CartRow] /\ Evolves
  <2>1. Clear(g) \in [LineIds -> CartRow]
    BY RowKinds DEF Clear, CartInv, CartTypeOK
  <2>. QED
    BY <1>2, <2>1, ClearEvolves DEF CartInv
<1>5. CartTypes'
  BY <1>1, <1>2, <1>3, <1>4 DEF CartInv, CartTypeOK, CartTypes
<1>6. CartKeepsUnits'
  <2>. SUFFICES ASSUME NEW p \in Goods \ disturbed' PROVE AllUnits(p)' = wanted'[p] + Copies(p)'
    BY BooksKept
  <2>1. p \notin disturbed /\ Units(cartLine, L, p) = copied[w][p] /\ wanted'[p] = wanted[p]
    BY <1>2
  <2>2. AllUnits(p)' = AllUnits(p) - Units(cartLine, L, p)
    BY <1>2, Clears DEF CartInv, AllUnits
  <2>3. Copies(p)' = Copies(p) - copied[w][p] + NoUnits[p] /\ copied[w][p] \in Nat
    BY <1>2, <1>3, CopiesChange DEF CartInv
  <2>4. NoUnits[p] = 0
    BY <1>3
  <2>. QED
    BY <2>1, <2>2, <2>3, <2>4, Books
<1>. QED
  BY <1>2, <1>4, <1>5, <1>6, EndInv

\* An order takes the lines it has read off the books, and deletes all.
LEMMA OrderInv == ASSUME CartInv, NEW w \in Shoppers, Order(w) PROVE CartInv'
<1>. DEFINE s == shopper[w]
            c == s.cart
            read == basis[w]
            L == LinesOf(cartLine, c)
            ask(p) == Units(read, Mine(w), p)
            bill == {[product |-> read[l].product, price |-> read[l].price,
                      shop |-> s.price[read[l].product]] : l \in Mine(w)}
<1>1. s \in CartCall /\ read \in [LineIds -> CartRow] /\ Mine(w) \subseteq LineIds
  BY DEF CartInv, CartTypeOK, Mine, LinesOf
<1>2. /\ cartLine' = Clear(c) /\ wanted' = [p \in Goods |-> wanted[p] - ask(p)]
      /\ disturbed' = disturbed \cup {p \in Goods : Units(cartLine, L, p) # ask(p)}
      /\ charged' = charged \cup bill
      /\ EndCall(w) /\ UNCHANGED <<cartOwner, shelf, copied, calls>>
  BY DEF Order
<1>3. \A p \in Goods : ask(p) \in Nat
  BY <1>1, UnitsOfRows
<1>4. wanted' \in [Goods -> Int]
  BY <1>2, <1>3 DEF CartInv, CartTypeOK
<1>5. bill \subseteq [product : Goods, price : Nat, shop : Nat]
  <2>1. \A l \in Mine(w) : read[l] \in LineRow
    BY <1>1, RowKinds DEF Mine, LinesOf
  <2>2. \A l \in Mine(w) : read[l].product \in Goods /\ read[l].price \in Nat
    BY <2>1 DEF LineRow
  <2>3. s.price \in [Goods -> Nat]
    BY <1>1 DEF CartCall
  <2>. QED
    BY <2>2, <2>3
<1>6. cartLine' \in [LineIds -> CartRow] /\ Evolves
  <2>1. Clear(c) \in [LineIds -> CartRow]
    BY RowKinds DEF Clear, CartInv, CartTypeOK
  <2>. QED
    BY <1>2, <2>1, ClearEvolves DEF CartInv
<1>. HIDE DEF bill, ask
<1>7. CartTypes'
  BY <1>2, <1>4, <1>5, <1>6 DEF CartInv, CartTypeOK, CartTypes
<1>8. CartKeepsUnits'
  <2>. SUFFICES ASSUME NEW p \in Goods \ disturbed' PROVE AllUnits(p)' = wanted'[p] + Copies(p)'
    BY BooksKept
  <2>1. p \notin disturbed /\ Units(cartLine, L, p) = ask(p) /\ wanted'[p] = wanted[p] - ask(p)
    BY <1>2
  <2>2. AllUnits(p)' = AllUnits(p) - Units(cartLine, L, p)
    BY <1>2, Clears DEF CartInv, AllUnits
  <2>3. Copies(p)' = Copies(p) /\ ask(p) \in Nat
    BY <1>2, <1>3 DEF Copies
  <2>. QED
    BY <2>1, <2>2, <2>3, Books
<1>. QED
  BY <1>2, <1>6, <1>7, <1>8, EndInv

\* A broken-off merge leaves its copies, which the books then excuse.
LEMMA AbandonCallInv == ASSUME CartInv, NEW w \in Shoppers, AbandonCall(w) PROVE CartInv'
<1>1. /\ disturbed' = disturbed \cup {p \in Goods : copied[w][p] > 0}
      /\ copied' = [copied EXCEPT ![w] = NoUnits]
      /\ EndCall(w) /\ UNCHANGED <<cartOwner, cartLine, shelf, wanted, charged, calls>>
  BY DEF AbandonCall, cartDb
<1>2. NoUnits \in [Goods -> Nat] /\ \A p \in Goods : NoUnits[p] = 0
  BY DEF NoUnits
<1>3. CartTypes' /\ Evolves
  BY <1>1, <1>2, SameLines DEF CartInv, CartTypeOK, CartTypes
<1>4. CartKeepsUnits'
  <2>. SUFFICES ASSUME NEW p \in Goods \ disturbed' PROVE AllUnits(p)' = wanted'[p] + Copies(p)'
    BY BooksKept
  <2>1. /\ Copies(p)' = Copies(p) - copied[w][p] + NoUnits[p] /\ copied[w][p] \in Nat
        /\ NoUnits[p] = 0
    BY <1>1, <1>2, CopiesChange DEF CartInv
  <2>2. p \notin disturbed /\ copied[w][p] = 0
    BY <1>1, <2>1
  <2>3. AllUnits(p)' = AllUnits(p) /\ wanted'[p] = wanted[p]
    BY <1>1 DEF AllUnits, Units
  <2>. QED
    BY <2>1, <2>2, <2>3, Books
<1>. QED
  BY <1>1, <1>3, <1>4, EndInv

\* Prices are none of the books' business.
LEMMA RepriceInv == ASSUME CartInv, NEW p \in Goods, Reprice(p) PROVE CartInv'
<1>1. /\ shelf' \in [Goods -> 1..MaxPrice] /\ calls' \in 0..MaxCalls
      /\ UNCHANGED <<cartOwner, cartLine, shopper, basis, wanted, copied, disturbed, charged>>
  BY CartAssumption DEF Reprice, CartInv, CartTypeOK
<1>2. CartTypeOK' /\ CallsKnow' /\ LinesStay'
  BY <1>1 DEF CartInv, CartTypeOK, CallsKnow, LinesStay
<1>. QED
  BY <1>1, <1>2, UnitsStay DEF CartInv

\* The carts and their books, in every reachable state.
THEOREM CartInvariance == CartSpec => []CartInv
<1>1. CartInv /\ [CartNext]_CartVars => CartInv'
  <2>. SUFFICES ASSUME CartInv, [CartNext]_CartVars PROVE CartInv'
    OBVIOUS
  <2>1. ASSUME NEW p \in Goods, Reprice(p) PROVE CartInv'
    BY <2>1, RepriceInv
  <2>2. ASSUME NEW w \in Shoppers,
               \/ StartAdd(w) \/ StartChange(w) \/ StartOrder(w) \/ StartMerge(w)
               \/ FindCart(w) \/ CreateCart(w)
        PROVE  CartInv'
    BY <2>2, StartsCart, FindsCart
  <2>3. ASSUME NEW w \in Shoppers,
               \/ AddWrite(w) \/ SetOrRemove(w) \/ MergeLine(w) \/ MergeEnd(w) \/ Order(w)
               \/ AbandonCall(w)
        PROVE  CartInv'
    BY <2>3, AddWriteInv, SetOrRemoveInv, MergeLineInv, MergeEndInv, OrderInv, AbandonCallInv
  <2>4. CASE UNCHANGED CartVars
    <3>1. UNCHANGED <<cartOwner, cartLine, shelf, shopper, basis, wanted, copied, disturbed,
                      charged, calls>>
      BY <2>4 DEF CartVars
    <3>2. CartTypeOK' /\ CallsKnow' /\ LinesStay'
      BY <3>1 DEF CartInv, CartTypeOK, CallsKnow, LinesStay
    <3>. QED
      BY <3>1, <3>2, UnitsStay DEF CartInv
  <2>. QED
    BY <2>1, <2>2, <2>3, <2>4 DEF CartNext
<1>. QED
  BY <1>1, CartInitInv, PTL DEF CartSpec

\* No unit a shopper asks for is lost or doubled by the cart, the guest's cart
\* and their merge, for any number of carts, lines and requests at a time: the
\* carts hold what was asked for and not ordered, and what merges under way have
\* copied, but for products whose line had changed under a request, or whose
\* merge broke off (addItem, updateItem, mergeGuestCart, createFromCart).
THEOREM CartsKeepUnits == CartSpec => []CartKeepsUnits
<1>1. CartInv => CartKeepsUnits
  BY DEF CartInv
<1>. QED
  BY <1>1, CartInvariance, PTL
-----------------------------------------------------------------------------
(* Pricing: amounts are natural numbers, and shares are rounded to half a   *)
(* cent of what they share.                                                *)

LEMMA Products2 == \A x, y \in Nat : x * y \in Nat
OBVIOUS

LEMMA DivBounds ==
  ASSUME NEW a \in Int, NEW b \in Nat \ {0}
  PROVE  a \div b \in Int /\ b * (a \div b) <= a /\ a < b * (a \div b) + b
OBVIOUS

\* Dividing an inequality.
LEMMA Cancel ==
  ASSUME NEW b \in Nat \ {0}, NEW x \in Int, NEW y \in Int
  PROVE  (b * x <= b * y => x <= y) /\ (b * x < b * y => x < y)
OBVIOUS

\* Rounding is to the nearest.
LEMMA Rounded ==
  ASSUME NEW a \in Int, NEW b \in Nat \ {0}
  PROVE  /\ RoundDiv(a, b) \in Int
         /\ (2 * b) * RoundDiv(a, b) <= 2 * a + b
         /\ 2 * a - b < (2 * b) * RoundDiv(a, b)
<1>1. 2 * b \in Nat \ {0} /\ 2 * a + b \in Int
  OBVIOUS
<1>. DEFINE q == (2 * a + b) \div (2 * b)
<1>2. q \in Int /\ (2 * b) * q <= 2 * a + b /\ 2 * a + b < (2 * b) * q + 2 * b
  BY <1>1, DivBounds
<1>3. RoundDiv(a, b) = q
  BY DEF RoundDiv
<1>4. (2 * b) * q \in Int
  BY <1>1, <1>2
<1>. HIDE DEF q
<1>. QED
  BY <1>2, <1>3, <1>4

LEMMA RoundedNat ==
  ASSUME NEW a \in Nat, NEW b \in Nat \ {0}
  PROVE  RoundDiv(a, b) \in Nat
<1>1. /\ RoundDiv(a, b) \in Int
      /\ 2 * a - b < (2 * b) * RoundDiv(a, b)
  BY Rounded
<1>2. 2 * b \in Nat \ {0}
  OBVIOUS
<1>. DEFINE q == RoundDiv(a, b)
            z == -1
<1>3. (2 * b) * z = - (2 * b) /\ z \in Int
  OBVIOUS
<1>. HIDE DEF q
<1>4. q \in Int
  BY <1>1 DEF q
<1>5. (2 * b) * z < (2 * b) * q
  <2>1. (2 * b) * q \in Int /\ 2 * a - b < (2 * b) * q
    BY <1>1, <1>4 DEF q
  <2>. QED
    BY <1>3, <2>1
<1>6. z < q
  BY <1>2, <1>3, <1>4, <1>5, Cancel
<1>. QED
  BY <1>4, <1>6 DEF q

\* Whole amounts come out as they are, whatever is rounded with them.
LEMMA RoundedShift ==
  ASSUME NEW a \in Int, NEW x \in Int, NEW b \in Nat \ {0}
  PROVE  RoundDiv(x * b + a, b) = x + RoundDiv(a, b)
<1>. DEFINE q == RoundDiv(a, b)
            r == RoundDiv(x * b + a, b)
            d == r - x - q
<1>1. q \in Int /\ (2 * b) * q <= 2 * a + b /\ 2 * a - b < (2 * b) * q
  BY Rounded
<1>2. x * b + a \in Int /\ x * b \in Int
  OBVIOUS
<1>3. r \in Int /\ (2 * b) * r <= 2 * (x * b + a) + b /\ 2 * (x * b + a) - b < (2 * b) * r
  BY <1>2, Rounded
<1>. HIDE DEF q, r
<1>4. d \in Int /\ (2 * b) * d = (2 * b) * r - (2 * b) * x - (2 * b) * q
  BY <1>1, <1>3
<1>5. (2 * b) * x = 2 * (x * b) /\ (2 * b) * q \in Int /\ (2 * b) * r \in Int
  BY <1>1, <1>3
<1>. HIDE DEF d
<1>6. (2 * b) * d < (2 * b) * 1 /\ (2 * b) * (-1) < (2 * b) * d
  BY <1>1, <1>2, <1>3, <1>4, <1>5
<1>7. d < 1 /\ -1 < d
  BY <1>4, <1>6, Cancel
<1>. QED
  BY <1>1, <1>3, <1>4, <1>7, SMTT(30) DEF d, q, r

\* Two amounts rounded apart come to one cent of both rounded together.
LEMMA RoundedApart ==
  ASSUME NEW a \in Int, NEW c \in Int, NEW b \in Nat \ {0}
  PROVE  RoundDiv(a + c, b) - RoundDiv(a, b) - RoundDiv(c, b) \in {-1, 0, 1}
<1>. DEFINE q == RoundDiv(a, b)
            p == RoundDiv(c, b)
            r == RoundDiv(a + c, b)
            d == r - q - p
<1>1. q \in Int /\ (2 * b) * q <= 2 * a + b /\ 2 * a - b < (2 * b) * q
  BY Rounded
<1>2. p \in Int /\ (2 * b) * p <= 2 * c + b /\ 2 * c - b < (2 * b) * p
  BY Rounded
<1>3. r \in Int /\ (2 * b) * r <= 2 * (a + c) + b /\ 2 * (a + c) - b < (2 * b) * r
  <2>1. a + c \in Int
    OBVIOUS
  <2>. QED
    BY <2>1, Rounded
<1>. HIDE DEF q, p, r
<1>4. d \in Int /\ (2 * b) * d = (2 * b) * r - (2 * b) * q - (2 * b) * p
  BY <1>1, <1>2, <1>3
<1>5. (2 * b) * p \in Int /\ (2 * b) * q \in Int /\ (2 * b) * r \in Int
  BY <1>1, <1>2, <1>3
<1>. HIDE DEF d
<1>6. (2 * b) * d < (2 * b) * 2 /\ (2 * b) * (-2) < (2 * b) * d
  BY <1>1, <1>2, <1>3, <1>4, <1>5
<1>7. d < 2 /\ -2 < d
  BY <1>4, <1>6, Cancel
<1>. QED
  BY <1>4, <1>7 DEF d, q, p, r

\* Shares of an amount, each rounded, come to the amount, to half a cent each.
LEMMA SharesAddUp ==
  ASSUME NEW K, IsFiniteSet(K), NEW sub, \A k \in K : sub[k] \in Nat,
         NEW all \in Nat \ {0}, SumFunctionOnSet(sub, K) = all,
         NEW C \in Int, NEW r, \A k \in K : r[k] = RoundDiv(C * sub[k], all)
  PROVE  /\ SumFunctionOnSet(r, K) \in Int
         /\ 2 * (SumFunctionOnSet(r, K) - C) <= Cardinality(K)
         /\ 2 * (C - SumFunctionOnSet(r, K)) <= Cardinality(K)
<1>. DEFINE u == [k \in K |-> (2 * all) * r[k]]
            v == [k \in K |-> (2 * C) * sub[k]]
            t == [k \in K |-> u[k] - v[k]]
            n == Cardinality(K)
<1>1. ASSUME NEW k \in K
      PROVE  /\ r[k] \in Int /\ u[k] \in Int /\ v[k] \in Int /\ t[k] \in Int
             /\ t[k] <= all /\ -all <= t[k] /\ u[k] = t[k] + v[k]
             /\ u[k] = (2 * all) * r[k] /\ v[k] = (2 * C) * sub[k]
  <2>1. C * sub[k] \in Int /\ (2 * C) * sub[k] = 2 * (C * sub[k]) /\ r[k] = RoundDiv(C * sub[k], all)
    OBVIOUS
  <2>. DEFINE y == C * sub[k]
              q == RoundDiv(y, all)
  <2>2. q \in Int /\ (2 * all) * q <= 2 * y + all /\ 2 * y - all < (2 * all) * q
    BY <2>1, Rounded
  <2>3. u[k] = (2 * all) * q /\ v[k] = 2 * y /\ y \in Int /\ t[k] = u[k] - v[k] /\ r[k] = q
    BY <2>1
  <2>. HIDE DEF y, q, u, v, t
  <2>4. (2 * all) * q \in Int
    BY <2>2
  <2>5. /\ r[k] \in Int /\ u[k] \in Int /\ v[k] \in Int /\ t[k] \in Int
        /\ t[k] <= all /\ -all <= t[k] /\ u[k] = t[k] + v[k]
    BY <2>2, <2>3, <2>4
  <2>. QED
    BY <2>5 DEF u, v
<1>. HIDE DEF u, v, t
<1>2. SumFunctionOnSet(u, K) = SumFunctionOnSet(t, K) + SumFunctionOnSet(v, K)
  <2>1. \A k \in K : t[k] \in Int /\ v[k] \in Int /\ u[k] = t[k] + v[k]
    BY <1>1
  <2>. QED
    BY <2>1, SumPlus
<1>3. SumFunctionOnSet(u, K) = (2 * all) * SumFunctionOnSet(r, K)
  <2>. DEFINE c == 2 * all
  <2>1. c \in Int /\ \A k \in K : r[k] \in Int /\ u[k] = c * r[k]
    BY <1>1
  <2>. HIDE DEF c
  <2>2. SumFunctionOnSet(u, K) = c * SumFunctionOnSet(r, K)
    BY <2>1, SumTimes
  <2>. QED
    BY <2>2 DEF c
<1>4. SumFunctionOnSet(v, K) = (2 * C) * all
  <2>1. 2 * C \in Int /\ \A k \in K : sub[k] \in Int /\ v[k] = (2 * C) * sub[k]
    BY <1>1
  <2>2. SumFunctionOnSet(v, K) = (2 * C) * SumFunctionOnSet(sub, K)
    BY <2>1, SumTimes
  <2>. QED
    BY <2>2
<1>5. SumFunctionOnSet(t, K) <= n * all /\ -(n * all) <= SumFunctionOnSet(t, K)
  <2>1. \A k \in K : t[k] \in Int /\ t[k] <= all /\ -all <= t[k]
    BY <1>1
  <2>2. all \in Int
    OBVIOUS
  <2>. QED
    BY <2>1, <2>2, SumWithin
<1>6. SumFunctionOnSet(r, K) \in Int /\ SumFunctionOnSet(t, K) \in Int /\ n \in Nat
  <2>1. \A k \in K : r[k] \in Int
    BY <1>1
  <2>2. \A k \in K : t[k] \in Int
    BY <1>1
  <2>3. SumFunctionOnSet(r, K) \in Int
    BY <2>1, SumInt
  <2>4. SumFunctionOnSet(t, K) \in Int
    BY <2>2, SumInt
  <2>. QED
    BY <2>3, <2>4, FS_CardinalityType
<1>. DEFINE R == SumFunctionOnSet(r, K)
            T == SumFunctionOnSet(t, K)
<1>7. (2 * all) * R = T + (2 * C) * all /\ R \in Int /\ T \in Int /\ T <= n * all /\ -(n * all) <= T
  BY <1>2, <1>3, <1>4, <1>5, <1>6
<1>. HIDE DEF R, T, n
<1>8. n \in Nat
  BY <1>6 DEF n
<1>9. all * (2 * (R - C)) = T /\ all * (2 * (C - R)) = -T /\ all * n = n * all
  BY <1>7, <1>8
<1>10. 2 * (R - C) <= n /\ 2 * (C - R) <= n
  <2>1. all * (2 * (R - C)) <= all * n /\ all * (2 * (C - R)) <= all * n
    BY <1>7, <1>8, <1>9
  <2>2. 2 * (R - C) \in Int /\ 2 * (C - R) \in Int /\ n \in Int
    BY <1>7, <1>8
  <2>. QED
    BY <2>1, <2>2, Cancel
<1>. QED
  BY <1>6, <1>10 DEF R, n
-----------------------------------------------------------------------------
PricingInv ==
    /\ checkout \in [cart : Carts, promos : Promotions, coupon : Coupons, charges : Charges]
    /\ \/ placed = NoOrders
       \/ /\ placed = [s \in StoresOf(checkout.cart) |-> Totals(checkout, s)]
          /\ shown = [subtotal |-> Subtotal(checkout.cart, Lines),
                      promotion |-> Promoted(checkout.cart, checkout.promos, Lines),
                      coupon |-> CartCoupon(checkout)]

LEMMA PricingInvHolds == PricingSpec => []PricingInv
<1>1. PricingInit => PricingInv
  BY DEF PricingInit, PricingInv
<1>2. PricingInv /\ [PricingNext]_PricingVars => PricingInv'
  BY DEF PricingInv, PricingNext, PlaceOrders, PricingVars, NoOrders
<1>. QED
  BY <1>1, <1>2, PTL DEF PricingSpec
-----------------------------------------------------------------------------
\* What a line costs, and what a promotion takes off it.
LEMMA LineAmounts ==
  ASSUME NEW cart \in Carts, NEW l \in Lines
  PROVE  /\ LineTotal(cart[l]) \in Nat \ {0}
         /\ cart[l].price \in Nat /\ cart[l].quantity \in Nat /\ cart[l].snapshot \in Nat
<1>1. {cart[l].price, cart[l].snapshot, cart[l].quantity} \subseteq Nat \ {0}
  BY PricingAssumption
<1>2. \A x, y \in Nat \ {0} : x * y \in Nat \ {0}
  OBVIOUS
<1>. QED
  BY <1>1, <1>2 DEF LineTotal

LEMMA DiscountNat ==
  ASSUME NEW cart \in Carts, NEW l \in Lines, NEW ps \in Promotions, NEW p \in ps
  PROVE  DiscountFor(p, cart[l]) \in Nat
<1>. DEFINE item == cart[l]
<1>1. item.price \in Nat /\ item.quantity \in Nat
  BY LineAmounts
<1>2. /\ p.type \in {"bogo", "percentage", "fixed", "first_order"} /\ p.value \in Nat
      /\ p.buy \in Nat \ {0} /\ p.get \in Nat \ {0}
  BY PricingAssumption
<1>. HIDE DEF item
<1>3. item.price * item.quantity \in Nat /\ p.value * item.quantity \in Nat
  BY <1>1, <1>2, Products2
<1>4. CASE p.type = "bogo"
  <2>1. \A i \in Nat, d \in Nat \ {0} : i \div d \in Nat
    OBVIOUS
  <2>2. item.quantity \div (p.buy + p.get) \in Nat
    BY <1>1, <1>2, <2>1
  <2>3. (item.quantity \div (p.buy + p.get)) * p.get \in Nat
    BY <1>2, <2>2, Products2
  <2>4. (item.quantity \div (p.buy + p.get)) * p.get * item.price \in Nat
    BY <1>1, <2>3, Products2
  <2>. QED
    BY <1>4, <2>4, Products2 DEF DiscountFor, item
<1>5. CASE p.type = "percentage"
  BY <1>2, <1>3, <1>5, Products2 DEF DiscountFor, item
<1>6. CASE p.type = "fixed"
  BY <1>3, <1>6 DEF DiscountFor, AtMost, item
<1>7. CASE p.type = "first_order"
  BY <1>7 DEF DiscountFor
<1>. QED
  BY <1>2, <1>4, <1>5, <1>6, <1>7

LEMMA BestNat ==
  ASSUME NEW cart \in Carts, NEW l \in Lines, NEW ps \in Promotions
  PROVE  BestPromotion(ps, cart[l]) \in Nat
<1>. DEFINE A == {q \in ps : AppliesTo(q, cart[l])}
            D == {DiscountFor(p, cart[l]) : p \in A}
            M == {0} \cup D
            f == [p \in A |-> DiscountFor(p, cart[l])]
<1>1. IsFiniteSet(A)
  BY PricingAssumption, FS_Subset
<1>2. f \in Surjection(A, D)
  BY Zenon DEF Surjection
<1>3. IsFiniteSet(D) /\ IsFiniteSet({0})
  BY <1>1, <1>2, FS_Surjection, FS_Singleton
<1>4. D \subseteq Nat
  BY DiscountNat
<1>. HIDE DEF D
<1>5. IsFiniteSet(M) /\ M # {} /\ M \subseteq Nat
  <2>1. IsFiniteSet({0} \cup D)
    BY <1>3, FS_Union, Zenon
  <2>. QED
    BY <1>4, <2>1
<1>. HIDE DEF M
<1>6. \E x \in M : \A y \in M : y <= x
  <2>1. M \subseteq Int
    BY <1>5
  <2>. QED
    BY <1>5, <2>1, GreatestOf, Zenon
<1>7. \E x \in M : \A y \in M : x >= y
  BY <1>5, <1>6
<1>8. Max(M) \in Nat
  BY <1>5, <1>7 DEF Max
<1>9. BestPromotion(ps, cart[l]) = RoundDiv(Max(M), 100)
  BY DEF BestPromotion, M, D
<1>. QED
  BY <1>8, <1>9, RoundedNat

\* The lines of a cart, of one store or of all.
LEMMA LinesFinite == IsFiniteSet(Lines) /\ \A ls \in SUBSET Lines : IsFiniteSet(ls)
BY PricingAssumption, FS_Subset

LEMMA SubtotalNat ==
  ASSUME NEW cart \in Carts, NEW ls \in SUBSET Lines
  PROVE  Subtotal(cart, ls) \in Nat
<1>. DEFINE f == [l \in ls |-> LineTotal(cart[l])]
<1>1. \A l \in ls : f[l] \in Nat
  BY LineAmounts
<1>2. Subtotal(cart, ls) = SumFunctionOnSet(f, ls)
  BY DEF Subtotal
<1>. HIDE DEF f
<1>. QED
  BY <1>1, <1>2, LinesFinite, SumNat

LEMMA PromotedNat ==
  ASSUME NEW cart \in Carts, NEW ps \in Promotions, NEW ls \in SUBSET Lines
  PROVE  Promoted(cart, ps, ls) \in Nat
<1>. DEFINE f == [l \in ls |-> BestPromotion(ps, cart[l])]
<1>1. \A l \in ls : f[l] \in Nat
  BY BestNat
<1>2. Promoted(cart, ps, ls) = SumFunctionOnSet(f, ls)
  BY DEF Promoted
<1>. HIDE DEF f
<1>. QED
  BY <1>1, <1>2, LinesFinite, SumNat

\* A cart with a line in it is not free.
LEMMA SubtotalPositive ==
  ASSUME NEW cart \in Carts, NEW l \in Lines
  PROVE  Subtotal(cart, Lines) \in Nat \ {0}
<1>. DEFINE f == [k \in Lines |-> LineTotal(cart[k])]
<1>1. \A k \in Lines : f[k] \in Nat
  BY LineAmounts
<1>2. Subtotal(cart, Lines) = SumFunctionOnSet(f, Lines)
  BY DEF Subtotal
<1>3. f[l] \in Nat \ {0}
  BY LineAmounts
<1>. HIDE DEF f
<1>4. \A k \in Lines : f[k] \in Int
  BY <1>1
<1>5. SumFunctionOnSet(f, Lines) = f[l] + SumFunctionOnSet(f, Lines \ {l})
  BY <1>4, LinesFinite, SumRemove
<1>6. SumFunctionOnSet(f, Lines \ {l}) \in Nat
  <2>1. IsFiniteSet(Lines \ {l}) /\ \A k \in Lines \ {l} : f[k] \in Nat
    BY <1>1, LinesFinite
  <2>. QED
    BY <2>1, SumNat
<1>. QED
  BY <1>2, <1>3, <1>5, <1>6

\* What the stores sum to is what the cart does.
LEMMA SplitOverStores ==
  ASSUME NEW cart \in Carts, NEW f, \A l \in Lines : f[l] \in Int, NEW h,
         \A s \in StoresOf(cart) : h[s] = SumFunctionOnSet(f, Group(cart, s))
  PROVE  /\ SumFunctionOnSet(h, StoresOf(cart)) = SumFunctionOnSet(f, Lines)
         /\ IsFiniteSet(StoresOf(cart))
<1>. DEFINE g == [l \in Lines |-> cart[l].store]
            K == StoresOf(cart)
            G == [s \in K |-> Group(cart, s)]
<1>1. g \in Surjection(Lines, K)
  BY Zenon DEF Surjection, StoresOf
<1>2. IsFiniteSet(Lines) /\ IsFiniteSet(K)
  BY <1>1, LinesFinite, FS_Surjection
<1>3. \A l \in Lines : g[l] \in K
  BY DEF StoresOf
<1>4. G \in [K -> SUBSET Lines] /\ \A s \in K, l \in Lines : l \in G[s] <=> g[l] = s
  BY DEF Group
<1>5. \A s \in K : h[s] = SumFunctionOnSet(f, G[s])
  OBVIOUS
<1>. HIDE DEF g, K, G
<1>6. SumFunctionOnSet(h, K) = SumFunctionOnSet(f, Lines)
  BY <1>2, <1>3, <1>4, <1>5, SumByGroups
<1>. QED
  BY <1>2, <1>6 DEF K

LEMMA StoresAddUp ==
  ASSUME NEW cart \in Carts, NEW ps \in Promotions, NEW sub, NEW promo,
         \A s \in StoresOf(cart) : sub[s] = Subtotal(cart, Group(cart, s)),
         \A s \in StoresOf(cart) : promo[s] = Promoted(cart, ps, Group(cart, s))
  PROVE  /\ SumFunctionOnSet(sub, StoresOf(cart)) = Subtotal(cart, Lines)
         /\ SumFunctionOnSet(promo, StoresOf(cart)) = Promoted(cart, ps, Lines)
         /\ IsFiniteSet(StoresOf(cart))
<1>. DEFINE f == [l \in Lines |-> LineTotal(cart[l])]
            b == [l \in Lines |-> BestPromotion(ps, cart[l])]
<1>1. \A l \in Lines : f[l] = LineTotal(cart[l]) /\ f[l] \in Int
  BY LineAmounts
<1>2. \A l \in Lines : b[l] = BestPromotion(ps, cart[l]) /\ b[l] \in Int
  BY BestNat
<1>3. Subtotal(cart, Lines) = SumFunctionOnSet(f, Lines)
  BY DEF Subtotal
<1>4. Promoted(cart, ps, Lines) = SumFunctionOnSet(b, Lines)
  BY DEF Promoted
<1>. HIDE DEF f, b
<1>5. ASSUME NEW s \in StoresOf(cart)
      PROVE  /\ sub[s] = SumFunctionOnSet(f, Group(cart, s))
             /\ promo[s] = SumFunctionOnSet(b, Group(cart, s))
  <2>. DEFINE ls == Group(cart, s)
              x == [l \in ls |-> LineTotal(cart[l])]
              y == [l \in ls |-> BestPromotion(ps, cart[l])]
  <2>1. ls \in SUBSET Lines /\ IsFiniteSet(ls)
    BY LinesFinite DEF Group
  <2>2. sub[s] = SumFunctionOnSet(x, ls) /\ promo[s] = SumFunctionOnSet(y, ls)
    BY DEF Subtotal, Promoted
  <2>3. \A l \in ls : x[l] = f[l] /\ x[l] \in Int
    BY <1>1, <2>1
  <2>4. \A l \in ls : y[l] = b[l] /\ y[l] \in Int
    BY <1>2, <2>1
  <2>. HIDE DEF x, y
  <2>5. SumFunctionOnSet(x, ls) = SumFunctionOnSet(f, ls)
    BY <2>1, <2>3, SumSame
  <2>6. SumFunctionOnSet(y, ls) = SumFunctionOnSet(b, ls)
    BY <2>1, <2>4, SumSame
  <2>. QED
    BY <2>2, <2>5, <2>6
<1>6. /\ SumFunctionOnSet(sub, StoresOf(cart)) = SumFunctionOnSet(f, Lines)
      /\ IsFiniteSet(StoresOf(cart))
  BY <1>1, <1>5, SplitOverStores
<1>7. SumFunctionOnSet(promo, StoresOf(cart)) = SumFunctionOnSet(b, Lines)
  BY <1>2, <1>5, SplitOverStores
<1>. QED
  BY <1>3, <1>4, <1>6, <1>7
-----------------------------------------------------------------------------
\* What a coupon takes off: never less than nothing of an amount that is not.
LEMMA CouponNat ==
  ASSUME NEW coupon \in Coupons, NEW n \in Nat
  PROVE  CouponDiscount(coupon, n) \in Nat /\ (n = 0 => CouponDiscount(coupon, n) = 0)
<1>. DEFINE amount == CASE coupon.type = "percent" -> n * coupon.value
                       [] coupon.type = "fixed" -> AtMost(coupon.value, n) * 100
                       [] OTHER -> 0
            capped == IF coupon.max = 0 THEN amount ELSE AtMost(amount, coupon.max * 100)
<1>1. coupon.value \in Nat /\ coupon.max \in Nat
  BY PricingAssumption
<1>2. n * coupon.value \in Nat /\ (n = 0 => n * coupon.value = 0)
  BY <1>1, Products2
<1>3. AtMost(coupon.value, n) * 100 \in Nat /\ (n = 0 => AtMost(coupon.value, n) * 100 = 0)
  BY <1>1 DEF AtMost
<1>4. amount \in Nat /\ (n = 0 => amount = 0)
  BY <1>2, <1>3
<1>5. CouponDiscount(coupon, n) = RoundDiv(capped, 100)
  BY DEF CouponDiscount
<1>. HIDE DEF amount
<1>6. capped \in Nat /\ (n = 0 => capped = 0)
  BY <1>1, <1>4 DEF AtMost
<1>. HIDE DEF capped
<1>7. RoundDiv(0, 100) = 0
  BY DEF RoundDiv
<1>. QED
  BY <1>5, <1>6, <1>7, RoundedNat

Checkouts == [cart : Carts, promos : Promotions, coupon : Coupons, charges : Charges]

\* The cart's amounts, and one store's.
LEMMA CartAmounts ==
  ASSUME NEW c \in Checkouts
  PROVE  /\ c.cart \in Carts /\ c.promos \in Promotions /\ c.coupon \in Coupons /\ c.charges \in Charges
         /\ Subtotal(c.cart, Lines) \in Nat /\ Promoted(c.cart, c.promos, Lines) \in Nat
         /\ \A s \in StoresOf(c.cart) : /\ Subtotal(c.cart, Group(c.cart, s)) \in Nat
                                        /\ Promoted(c.cart, c.promos, Group(c.cart, s)) \in Nat
         /\ OrderCoupon(c) \in Nat /\ Shipping(c) \in Nat
         /\ c.charges.tax \in Nat /\ c.charges.fee \in Nat /\ c.charges.cod \in Nat
         /\ StoresOf(c.cart) # {} => Subtotal(c.cart, Lines) \in Nat \ {0}
<1>1. /\ c.cart \in Carts /\ c.promos \in Promotions /\ c.coupon \in Coupons
      /\ c.charges \in Charges
  BY DEF Checkouts
<1>2. \A s : Group(c.cart, s) \in SUBSET Lines
  BY DEF Group
<1>3. Subtotal(c.cart, Lines) \in Nat /\ Promoted(c.cart, c.promos, Lines) \in Nat
  BY <1>1, SubtotalNat, PromotedNat
<1>4. \A s : /\ Subtotal(c.cart, Group(c.cart, s)) \in Nat
             /\ Promoted(c.cart, c.promos, Group(c.cart, s)) \in Nat
  BY <1>1, <1>2, SubtotalNat, PromotedNat
<1>5. {c.charges.tax, c.charges.fee, c.charges.shipping, c.charges.cod} \subseteq Nat
  BY <1>1, PricingAssumption
<1>6. OrderCoupon(c) \in Nat
  <2>1. NotNegative(AfterPromotions(c)) \in Nat
    BY <1>3 DEF NotNegative, AfterPromotions
  <2>2. CouponDiscount(c.coupon, NotNegative(AfterPromotions(c))) \in Nat
    BY <1>1, <2>1, CouponNat
  <2>3. CouponDiscount(c.coupon, Subtotal(c.cart, Group(c.cart, c.coupon.store))) \in Nat
    BY <1>1, <1>4, CouponNat
  <2>. QED
    BY <2>2, <2>3 DEF OrderCoupon
<1>7. StoresOf(c.cart) # {} => Subtotal(c.cart, Lines) \in Nat \ {0}
  BY <1>1, SubtotalPositive DEF StoresOf
<1>8. Shipping(c) \in Nat
  BY <1>5 DEF Shipping
<1>. QED
  BY <1>1, <1>3, <1>4, <1>5, <1>6, <1>7, <1>8

\* One store's order.
LEMMA TotalsAre ==
  ASSUME NEW c \in Checkouts, NEW s \in StoresOf(c.cart)
  PROVE  LET o == Totals(c, s)
             all == Subtotal(c.cart, Lines)
         IN  /\ o.subtotal = Subtotal(c.cart, Group(c.cart, s)) /\ o.subtotal \in Nat
             /\ o.promotion = Promoted(c.cart, c.promos, Group(c.cart, s)) /\ o.promotion \in Nat
             /\ o.coupon = ShareOfCoupon(c, s) /\ o.coupon \in Nat
             /\ o.taxable = NotNegative(NotNegative(o.subtotal - o.promotion) - o.coupon)
             /\ o.taxable \in Nat /\ o.tax \in Nat /\ o.fee \in Nat
             /\ o.shipping = RoundDiv(Shipping(c) * o.subtotal, all) /\ o.shipping \in Nat
             /\ o.cod = RoundDiv(c.charges.cod * o.subtotal, all) /\ o.cod \in Nat
             /\ o.total = RoundDiv((o.taxable + o.tax + o.fee) * all
                                      + (Shipping(c) + c.charges.cod) * o.subtotal, all)
             /\ o.total \in Nat
             /\ o \in [Amounts -> Nat]
<1>. DEFINE o == Totals(c, s)
            all == Subtotal(c.cart, Lines)
            sub == Subtotal(c.cart, Group(c.cart, s))
            promo == Promoted(c.cart, c.promos, Group(c.cart, s))
            coupon == ShareOfCoupon(c, s)
            taxable == NotNegative(NotNegative(sub - promo) - coupon)
            tax == RoundDiv(taxable * c.charges.tax, 100)
            fee == RoundDiv(taxable * c.charges.fee, 100)
            shipping == RoundDiv(Shipping(c) * sub, all)
            cod == RoundDiv(c.charges.cod * sub, all)
            total == RoundDiv((taxable + tax + fee) * all + (Shipping(c) + c.charges.cod) * sub, all)
<1>1. o = [subtotal |-> sub, promotion |-> promo, coupon |-> coupon, taxable |-> taxable,
           shipping |-> shipping, tax |-> tax, fee |-> fee, cod |-> cod, total |-> total]
  BY DEF Totals
<1>2. /\ sub \in Nat /\ promo \in Nat /\ all \in Nat \ {0} /\ OrderCoupon(c) \in Nat
      /\ Shipping(c) \in Nat /\ c.charges.tax \in Nat /\ c.charges.fee \in Nat
      /\ c.charges.cod \in Nat
  BY CartAmounts
<1>3. coupon \in Nat
  <2>1. OrderCoupon(c) * sub \in Nat
    BY <1>2, Products2
  <2>2. RoundDiv(OrderCoupon(c) * sub, all) \in Nat
    BY <1>2, <2>1, RoundedNat
  <2>. QED
    BY <1>2, <2>2 DEF ShareOfCoupon
<1>. HIDE DEF sub, promo, all, coupon
<1>4. taxable \in Nat
  BY <1>2, <1>3 DEF NotNegative
<1>. HIDE DEF taxable
<1>5. tax \in Nat /\ fee \in Nat
  <2>1. taxable * c.charges.tax \in Nat /\ taxable * c.charges.fee \in Nat
    BY <1>2, <1>4, Products2
  <2>. QED
    BY <2>1, RoundedNat
<1>6. shipping \in Nat /\ cod \in Nat
  <2>1. Shipping(c) * sub \in Nat /\ c.charges.cod * sub \in Nat
    BY <1>2, Products2
  <2>. QED
    BY <1>2, <2>1, RoundedNat
<1>. HIDE DEF tax, fee, shipping, cod
<1>7. total \in Nat
  <2>1. taxable + tax + fee \in Nat /\ Shipping(c) + c.charges.cod \in Nat
    BY <1>2, <1>4, <1>5
  <2>2. (taxable + tax + fee) * all \in Nat /\ (Shipping(c) + c.charges.cod) * sub \in Nat
    BY <1>2, <2>1, Products2
  <2>3. (taxable + tax + fee) * all + (Shipping(c) + c.charges.cod) * sub \in Nat
    BY <2>2
  <2>. QED
    BY <1>2, <2>3, RoundedNat
<1>. HIDE DEF total, o
<1>8. /\ o.subtotal = sub /\ o.promotion = promo /\ o.coupon = coupon /\ o.taxable = taxable
      /\ o.shipping = shipping /\ o.tax = tax /\ o.fee = fee /\ o.cod = cod /\ o.total = total
  BY <1>1
<1>9. o \in [Amounts -> Nat]
  BY <1>1, <1>2, <1>3, <1>4, <1>5, <1>6, <1>7 DEF Amounts
<1>. QED
  BY <1>2, <1>3, <1>4, <1>5, <1>6, <1>7, <1>8, <1>9
     DEF o, sub, promo, all, coupon, taxable, shipping, cod, total
-----------------------------------------------------------------------------
\* The parts printed on an order add up to its total, to a cent, whatever was
\* ordered, promoted and charged.
THEOREM InvoicesAddUp == PricingSpec => []InvoiceAddsUp
<1>1. ASSUME PricingInv, NEW s \in DOMAIN placed
      PROVE  placed[s].total - (placed[s].taxable + placed[s].tax + placed[s].fee
                                  + placed[s].shipping + placed[s].cod) \in {-1, 0, 1}
  <2>. DEFINE c == checkout
              o == Totals(c, s)
              all == Subtotal(c.cart, Lines)
              x == o.taxable + o.tax + o.fee
              a == Shipping(c) * o.subtotal
              b == c.charges.cod * o.subtotal
  <2>1. c \in Checkouts /\ s \in StoresOf(c.cart) /\ placed[s] = o
    BY <1>1 DEF PricingInv, Checkouts, NoOrders
  <2>2. /\ all \in Nat \ {0} /\ Shipping(c) \in Nat /\ c.charges.cod \in Nat
    BY <2>1, CartAmounts
  <2>. HIDE DEF c, o, all
  <2>3. /\ o.taxable \in Nat /\ o.tax \in Nat /\ o.fee \in Nat /\ o.subtotal \in Nat
        /\ o.shipping = RoundDiv(a, all) /\ o.shipping \in Nat
        /\ o.cod = RoundDiv(b, all) /\ o.cod \in Nat
        /\ o.total = RoundDiv(x * all + (Shipping(c) + c.charges.cod) * o.subtotal, all)
    BY <2>1, TotalsAre DEF o, all
  <2>4. a \in Int /\ b \in Int /\ (Shipping(c) + c.charges.cod) * o.subtotal = a + b
    BY <2>2, <2>3
  <2>5. x \in Int /\ a + b \in Int
    BY <2>3, <2>4
  <2>. HIDE DEF a, b, x
  <2>6. o.total = x + RoundDiv(a + b, all)
    BY <2>2, <2>3, <2>4, <2>5, RoundedShift
  <2>7. /\ RoundDiv(a + b, all) - RoundDiv(a, all) - RoundDiv(b, all) \in {-1, 0, 1}
        /\ RoundDiv(a + b, all) \in Int
    BY <2>2, <2>4, <2>5, RoundedApart, Rounded
  <2>8. o.total - (x + o.shipping + o.cod) \in {-1, 0, 1}
    BY <2>3, <2>5, <2>6, <2>7
  <2>. QED
    BY <2>1, <2>8 DEF x
<1>2. PricingInv => InvoiceAddsUp
  BY <1>1 DEF InvoiceAddsUp
<1>. QED
  BY <1>2, PricingInvHolds, PTL

\* Every amount of an order is a natural number of cents.
THEOREM PricingTypeCorrect == PricingSpec => []PricingTypeOK
<1>1. PricingInv => PricingTypeOK
  <2>. SUFFICES ASSUME PricingInv, NEW s \in DOMAIN placed
                PROVE  placed[s] \in [Amounts -> Nat]
    BY DEF PricingTypeOK
  <2>1. checkout \in Checkouts /\ s \in StoresOf(checkout.cart) /\ placed[s] = Totals(checkout, s)
    BY DEF PricingInv, Checkouts, NoOrders
  <2>. QED
    BY <2>1, TotalsAre
<1>. QED
  BY <1>1, PricingInvHolds, PTL
-----------------------------------------------------------------------------
\* The stores' shares of the coupon make the coupon that is ordered.
LEMMA CouponIsShared ==
  ASSUME NEW c \in Checkouts, NEW K, K = StoresOf(c.cart), IsFiniteSet(K), K # {},
         NEW r, \A s \in K : r[s] = ShareOfCoupon(c, s)
  PROVE  /\ SumFunctionOnSet(r, K) \in Int
         /\ 2 * (SumFunctionOnSet(r, K) - OrderCoupon(c)) <= Cardinality(K)
         /\ 2 * (OrderCoupon(c) - SumFunctionOnSet(r, K)) <= Cardinality(K)
<1>. DEFINE C == OrderCoupon(c)
            all == Subtotal(c.cart, Lines)
            t == c.coupon.store
<1>1. C \in Nat /\ all \in Nat \ {0} /\ Cardinality(K) \in Nat
  BY CartAmounts, FS_CardinalityType
<1>2. CASE t = "platform"
  <2>. DEFINE sub == [s \in K |-> Subtotal(c.cart, Group(c.cart, s))]
              promo == [s \in K |-> Promoted(c.cart, c.promos, Group(c.cart, s))]
  <2>1. c.cart \in Carts /\ c.promos \in Promotions /\ \A s \in K : sub[s] \in Nat
    BY CartAmounts
  <2>2. /\ \A s \in K : sub[s] = Subtotal(c.cart, Group(c.cart, s))
        /\ \A s \in K : promo[s] = Promoted(c.cart, c.promos, Group(c.cart, s))
    OBVIOUS
  <2>3. \A s \in K : r[s] = RoundDiv(C * sub[s], all)
    BY <1>2 DEF ShareOfCoupon
  <2>. HIDE DEF sub, promo, C, all
  <2>4. SumFunctionOnSet(sub, K) = all
    BY <2>1, <2>2, StoresAddUp DEF all
  <2>5. C \in Int
    BY <1>1
  <2>. QED
    BY <1>1, <2>1, <2>3, <2>4, <2>5, SharesAddUp DEF C
<1>3. CASE t # "platform"
  <2>. DEFINE n == IF t \in K THEN C ELSE 0
  <2>1. \A s \in K : r[s] = IF s = t THEN C ELSE 0
    BY <1>3 DEF ShareOfCoupon
  <2>. HIDE DEF C, t
  <2>2. SumFunctionOnSet(r, K) = n
    <3>1. CASE t \in K
      <4>1. IsFiniteSet(K \ {t}) /\ \A s \in K \ {t} : r[s] = 0
        BY <2>1, FS_Subset
      <4>2. SumFunctionOnSet(r, K \ {t}) = 0
        BY <4>1, SumZero
      <4>3. \A s \in K : r[s] \in Int
        BY <1>1, <2>1
      <4>4. SumFunctionOnSet(r, K) = r[t] + SumFunctionOnSet(r, K \ {t})
        BY <3>1, <4>3, SumRemove
      <4>. QED
        BY <1>1, <2>1, <3>1, <4>2, <4>4
    <3>2. CASE t \notin K
      <4>1. \A s \in K : r[s] = 0
        BY <2>1, <3>2
      <4>. QED
        BY <3>2, <4>1, SumZero
    <3>. QED
      BY <3>1, <3>2
  <2>3. n = C
    <3>1. CASE t \notin K
      <4>1. Group(c.cart, t) = {}
        BY <3>1 DEF Group, StoresOf
      <4>2. Subtotal(c.cart, {}) = 0
        BY SumEmpty DEF Subtotal
      <4>3. C = CouponDiscount(c.coupon, 0)
        BY <1>3, <4>1, <4>2 DEF C, t, OrderCoupon
      <4>4. c.coupon \in Coupons
        BY CartAmounts
      <4>. QED
        BY <3>1, <4>3, <4>4, CouponNat
    <3>. QED
      BY <3>1
  <2>. HIDE DEF n
  <2>. QED
    BY <1>1, <2>2, <2>3 DEF C
<1>. QED
  BY <1>2, <1>3

\* What the orders charge for the goods, over and above what is left of the
\* subtotal: more only where a store has no room for its share.
LEMMA TaxableIs ==
  ASSUME NEW K, IsFiniteSet(K), NEW sub, NEW promo, NEW coupon, NEW taxable,
         \A s \in K : sub[s] \in Nat /\ promo[s] \in Nat /\ coupon[s] \in Nat,
         \A s \in K : taxable[s] = NotNegative(NotNegative(sub[s] - promo[s]) - coupon[s])
  PROVE  /\ SumFunctionOnSet(taxable, K) \in Nat
         /\ SumFunctionOnSet(taxable, K) >= SumFunctionOnSet(sub, K) - SumFunctionOnSet(promo, K)
                                              - SumFunctionOnSet(coupon, K)
         /\ (\A s \in K : coupon[s] <= sub[s] - promo[s]) =>
               /\ SumFunctionOnSet(taxable, K) = SumFunctionOnSet(sub, K) - SumFunctionOnSet(promo, K)
                                              - SumFunctionOnSet(coupon, K)
               /\ SumFunctionOnSet(promo, K) <= SumFunctionOnSet(sub, K)
<1>. DEFINE e == [s \in K |-> taxable[s] - (sub[s] - promo[s] - coupon[s])]
            a == [s \in K |-> taxable[s] + promo[s]]
            b == [s \in K |-> a[s] + coupon[s]]
<1>1. ASSUME NEW s \in K
      PROVE  /\ taxable[s] \in Nat /\ e[s] \in Nat /\ a[s] = taxable[s] + promo[s]
             /\ b[s] = a[s] + coupon[s] /\ b[s] = e[s] + sub[s] /\ a[s] \in Nat
             /\ coupon[s] <= sub[s] - promo[s] => e[s] = 0
  BY DEF NotNegative
<1>. HIDE DEF e, a, b
<1>2. SumFunctionOnSet(a, K) = SumFunctionOnSet(taxable, K) + SumFunctionOnSet(promo, K)
  <2>1. \A s \in K : taxable[s] \in Int /\ promo[s] \in Int /\ a[s] = taxable[s] + promo[s]
    BY <1>1
  <2>. QED
    BY <2>1, SumPlus
<1>3. SumFunctionOnSet(b, K) = SumFunctionOnSet(a, K) + SumFunctionOnSet(coupon, K)
  <2>1. \A s \in K : a[s] \in Int /\ coupon[s] \in Int /\ b[s] = a[s] + coupon[s]
    BY <1>1
  <2>. QED
    BY <2>1, SumPlus
<1>4. SumFunctionOnSet(b, K) = SumFunctionOnSet(e, K) + SumFunctionOnSet(sub, K)
  <2>1. \A s \in K : e[s] \in Int /\ sub[s] \in Int /\ b[s] = e[s] + sub[s]
    BY <1>1
  <2>. QED
    BY <2>1, SumPlus
<1>5. SumFunctionOnSet(taxable, K) \in Nat
  <2>1. \A s \in K : taxable[s] \in Nat
    BY <1>1
  <2>. QED
    BY <2>1, SumNat
<1>6. SumFunctionOnSet(e, K) \in Nat
  <2>1. \A s \in K : e[s] \in Nat
    BY <1>1
  <2>. QED
    BY <2>1, SumNat
<1>7. SumFunctionOnSet(promo, K) \in Nat
  <2>1. \A s \in K : promo[s] \in Nat
    OBVIOUS
  <2>. QED
    BY <2>1, SumNat
<1>8. SumFunctionOnSet(sub, K) \in Nat
  <2>1. \A s \in K : sub[s] \in Nat
    OBVIOUS
  <2>. QED
    BY <2>1, SumNat
<1>9. SumFunctionOnSet(coupon, K) \in Nat
  <2>1. \A s \in K : coupon[s] \in Nat
    OBVIOUS
  <2>. QED
    BY <2>1, SumNat
<1>10. (\A s \in K : coupon[s] <= sub[s] - promo[s]) => SumFunctionOnSet(e, K) = 0
  <2>. SUFFICES ASSUME \A s \in K : coupon[s] <= sub[s] - promo[s]
                PROVE  SumFunctionOnSet(e, K) = 0
    OBVIOUS
  <2>1. \A s \in K : e[s] = 0
    BY <1>1
  <2>. QED
    BY <2>1, SumZero
<1>. QED
  BY <1>2, <1>3, <1>4, <1>5, <1>6, <1>7, <1>8, <1>9, <1>10

\* A coupon is ordered as it is shown while promotions leave something to pay
\* and prices are those that the lines were added at.
LEMMA CouponAsShown ==
  ASSUME NEW c \in Checkouts,
         \/ /\ c.coupon.store = "platform"
            /\ Promoted(c.cart, c.promos, Lines) <= Subtotal(c.cart, Lines)
         \/ /\ c.coupon.store # "platform"
            /\ \A l \in Lines : c.cart[l].snapshot = c.cart[l].price
  PROVE  CartCoupon(c) = OrderCoupon(c)
<1>1. CASE c.coupon.store = "platform"
  <2>1. Subtotal(c.cart, Lines) \in Nat /\ Promoted(c.cart, c.promos, Lines) \in Nat
    BY CartAmounts
  <2>2. NotNegative(AfterPromotions(c)) = AfterPromotions(c)
    BY <1>1, <2>1 DEF NotNegative, AfterPromotions
  <2>. QED
    BY <1>1, <2>2 DEF CartCoupon, OrderCoupon
<1>2. CASE c.coupon.store # "platform"
  <2>. DEFINE ls == Group(c.cart, c.coupon.store)
              f == [l \in ls |-> c.cart[l].snapshot * c.cart[l].quantity]
              g == [l \in ls |-> LineTotal(c.cart[l])]
  <2>1. f = g
    BY <1>2 DEF Group, LineTotal
  <2>2. CartCoupon(c) = CouponDiscount(c.coupon, SumFunctionOnSet(f, ls))
    BY <1>2 DEF CartCoupon
  <2>3. OrderCoupon(c) = CouponDiscount(c.coupon, SumFunctionOnSet(g, ls))
    BY <1>2 DEF OrderCoupon, Subtotal
  <2>. QED
    BY <2>1, <2>2, <2>3
<1>. QED
  BY <1>1, <1>2

\* Splitting a cart over stores neither makes nor loses money, whatever is in it,
\* whatever is promoted, and whoever gave the coupon.
THEOREM OrdersChargeTheCart == PricingSpec => []OrdersChargeWhatCartShows
<1>1. ASSUME PricingInv, Placed PROVE OrdersChargeWhatCartShows
  <2>. DEFINE c == checkout
              K == StoresOf(c.cart)
              sub == [s \in K |-> placed[s].subtotal]
              promo == [s \in K |-> placed[s].promotion]
              coupon == [s \in K |-> placed[s].coupon]
              taxable == [s \in K |-> placed[s].taxable]
              shipping == [s \in K |-> placed[s].shipping]
              all == Subtotal(c.cart, Lines)
              P == Promoted(c.cart, c.promos, Lines)
              C == OrderCoupon(c)
              n == Cardinality(K)
  <2>1. /\ c \in Checkouts /\ placed = [s \in K |-> Totals(c, s)]
        /\ shown = [subtotal |-> all, promotion |-> P, coupon |-> CartCoupon(c)]
    BY <1>1 DEF PricingInv, Checkouts, Placed
  <2>2. K # {}
    BY <1>1, <2>1 DEF Placed, NoOrders
  <2>3. DOMAIN placed = K /\ \A s \in K : placed[s] = Totals(c, s)
    BY <2>1
  <2>4. /\ c.cart \in Carts /\ c.promos \in Promotions /\ all \in Nat \ {0} /\ P \in Nat
        /\ C \in Nat /\ Shipping(c) \in Nat
    BY <2>1, <2>2, CartAmounts
  <2>5. ASSUME NEW s \in K
        PROVE  /\ sub[s] = Subtotal(c.cart, Group(c.cart, s)) /\ sub[s] \in Nat
               /\ promo[s] = Promoted(c.cart, c.promos, Group(c.cart, s)) /\ promo[s] \in Nat
               /\ coupon[s] = ShareOfCoupon(c, s) /\ coupon[s] \in Nat
               /\ taxable[s] = NotNegative(NotNegative(sub[s] - promo[s]) - coupon[s])
               /\ shipping[s] = RoundDiv(Shipping(c) * sub[s], all)
    BY <2>1, <2>3, TotalsAre
  <2>6. /\ Paid("taxable") = SumFunctionOnSet(taxable, K)
        /\ Paid("shipping") = SumFunctionOnSet(shipping, K)
    BY <2>3 DEF Paid
  <2>7. \A s \in K : /\ placed[s].coupon = coupon[s] /\ placed[s].subtotal = sub[s]
                     /\ placed[s].promotion = promo[s]
    OBVIOUS
  <2>. HIDE DEF sub, promo, coupon, taxable, shipping
  <2>8. SumFunctionOnSet(sub, K) = all /\ SumFunctionOnSet(promo, K) = P /\ IsFiniteSet(K)
    BY <2>4, <2>5, StoresAddUp
  <2>9. /\ SumFunctionOnSet(coupon, K) \in Int
        /\ 2 * (SumFunctionOnSet(coupon, K) - C) <= n
        /\ 2 * (C - SumFunctionOnSet(coupon, K)) <= n
    BY <2>1, <2>2, <2>5, <2>8, CouponIsShared
  <2>. HIDE DEF all, P, C, K
  <2>10. /\ SumFunctionOnSet(taxable, K) \in Nat
         /\ SumFunctionOnSet(taxable, K) >= all - P - SumFunctionOnSet(coupon, K)
         /\ (\A s \in K : coupon[s] <= sub[s] - promo[s]) =>
               /\ SumFunctionOnSet(taxable, K) = all - P - SumFunctionOnSet(coupon, K)
               /\ P <= all
    <3>1. \A s \in K : sub[s] \in Nat /\ promo[s] \in Nat /\ coupon[s] \in Nat
      BY <2>5
    <3>2. \A s \in K : taxable[s] = NotNegative(NotNegative(sub[s] - promo[s]) - coupon[s])
      BY <2>5
    <3>3. /\ SumFunctionOnSet(taxable, K) \in Nat
          /\ SumFunctionOnSet(taxable, K) >= SumFunctionOnSet(sub, K) - SumFunctionOnSet(promo, K)
                                              - SumFunctionOnSet(coupon, K)
          /\ (\A s \in K : coupon[s] <= sub[s] - promo[s]) =>
               /\ SumFunctionOnSet(taxable, K) = SumFunctionOnSet(sub, K) - SumFunctionOnSet(promo, K)
                                              - SumFunctionOnSet(coupon, K)
               /\ SumFunctionOnSet(promo, K) <= SumFunctionOnSet(sub, K)
      BY <2>8, <3>1, <3>2, TaxableIs
    <3>. QED
      BY <2>8, <3>3
  <2>11. /\ SumFunctionOnSet(shipping, K) \in Int
         /\ 2 * (SumFunctionOnSet(shipping, K) - Shipping(c)) <= n
         /\ 2 * (Shipping(c) - SumFunctionOnSet(shipping, K)) <= n
    <3>1. \A s \in K : sub[s] \in Nat
      BY <2>5
    <3>2. \A s \in K : shipping[s] = RoundDiv(Shipping(c) * sub[s], all)
      BY <2>5
    <3>3. Shipping(c) \in Int
      BY <2>4
    <3>. QED
      BY <2>4, <2>8, <3>1, <3>2, <3>3, SharesAddUp
  <2>12. n \in Nat
    BY <2>8, FS_CardinalityType
  <2>. DEFINE due == NotNegative(shown.subtotal - shown.promotion - shown.coupon)
              fresh == \/ c.coupon.store = "platform"
                       \/ \A l \in Lines : c.cart[l].snapshot = c.cart[l].price
              room == \A s \in DOMAIN placed : placed[s].coupon <= placed[s].subtotal - placed[s].promotion
              T == SumFunctionOnSet(taxable, K)
              D == SumFunctionOnSet(coupon, K)
  <2>13. fresh /\ P <= all => due = NotNegative(all - P - C)
    <3>. SUFFICES ASSUME fresh, P <= all PROVE due = NotNegative(all - P - C)
      OBVIOUS
    <3>1. CartCoupon(c) = C
      BY <2>1, CouponAsShown DEF P, all, C
    <3>2. shown.subtotal = all /\ shown.promotion = P /\ shown.coupon = C
      BY <2>1, <3>1
    <3>. QED
      BY <3>2
  <2>14. room => \A s \in K : coupon[s] <= sub[s] - promo[s]
    BY <2>3, <2>7
  <2>15. shown.promotion <= shown.subtotal <=> P <= all
    BY <2>1
  <2>. HIDE DEF n, due, fresh, room, c
  <2>16. /\ T \in Nat /\ D \in Int /\ T >= all - P - D /\ 2 * (D - C) <= n /\ 2 * (C - D) <= n
         /\ (room => T = all - P - D /\ P <= all)
    BY <2>9, <2>10, <2>14
  <2>. HIDE DEF T, D
  <2>17. fresh /\ P <= all => 2 * (due - T) <= n
    <3>. SUFFICES ASSUME fresh, P <= all PROVE 2 * (due - T) <= n
      OBVIOUS
    <3>1. due = IF all - P - C < 0 THEN 0 ELSE all - P - C
      BY <2>13 DEF NotNegative
    <3>. QED
      BY <2>4, <2>12, <2>16, <3>1
  <2>18. fresh /\ room => 2 * (T - due) <= n
    <3>. SUFFICES ASSUME fresh, room PROVE 2 * (T - due) <= n
      OBVIOUS
    <3>1. due = IF all - P - C < 0 THEN 0 ELSE all - P - C
      BY <2>13, <2>16 DEF NotNegative
    <3>. QED
      BY <2>4, <2>12, <2>16, <3>1
  <2>. QED
    BY <2>3, <2>6, <2>11, <2>15, <2>17, <2>18
       DEF OrdersChargeWhatCartShows, T, n, due, fresh, room, c
<1>2. PricingInv => OrdersChargeWhatCartShows
  BY <1>1 DEF OrdersChargeWhatCartShows
<1>. QED
  BY <1>2, PricingInvHolds, PTL
-----------------------------------------------------------------------------
\* The smaller and the greater of two.
LEMMA MinOfTwo ==
  ASSUME NEW a \in Int, NEW b \in Int
  PROVE  /\ Min({a, b}) = IF a <= b THEN a ELSE b
         /\ Max({a, b}) = IF a <= b THEN b ELSE a
<1>1. Min({a, b}) \in {a, b} /\ Min({a, b}) <= a /\ Min({a, b}) <= b
  <2>1. \E x \in {a, b} : \A y \in {a, b} : x <= y
    OBVIOUS
  <2>. QED
    BY <2>1 DEF Min
<1>2. Max({a, b}) \in {a, b} /\ Max({a, b}) >= a /\ Max({a, b}) >= b
  <2>1. \E x \in {a, b} : \A y \in {a, b} : x >= y
    OBVIOUS
  <2>. QED
    BY <2>1 DEF Max
<1>. QED
  BY <1>1, <1>2

\* Pages have from one to MaxLimit rows.
LEMMA LimitRange == ASSUME NEW raw \in Int PROVE Limit(raw) \in 1..MaxLimit
<1>. DEFINE x == IF raw = 0 THEN DefaultLimit ELSE raw
            y == Max({1, x})
<1>1. x \in Int /\ MaxLimit \in Nat /\ DefaultLimit \in 1..MaxLimit
  BY StorefrontAssumption
<1>. HIDE DEF x
<1>2. y \in Int /\ y >= 1
  <2>1. y = IF 1 <= x THEN x ELSE 1
    BY <1>1, MinOfTwo
  <2>. QED
    BY <1>1, <2>1
<1>. HIDE DEF y
<1>3. Min({MaxLimit, y}) = IF MaxLimit <= y THEN MaxLimit ELSE y
  BY <1>1, <1>2, MinOfTwo
<1>. QED
  BY <1>1, <1>2, <1>3 DEF Limit, x, y

\* An order of a set is a sequence that contains each of its elements once.
LEMMA OrdersHaveAll ==
  ASSUME NEW S, IsFiniteSet(S), NEW s \in SetToSeqs(S)
  PROVE  /\ s \in Seq(S) /\ Len(s) = Cardinality(S) /\ DOMAIN s = 1..Cardinality(S)
         /\ Cardinality(S) \in Nat
         /\ \A i, j \in DOMAIN s : i # j => s[i] # s[j]
         /\ \A x \in S : \E i \in DOMAIN s : s[i] = x
<1>. DEFINE n == Cardinality(S)
<1>1. n \in Nat
  BY FS_CardinalityType
<1>2. s \in [1..n -> S] /\ \A i, j \in 1..n : i # j => s[i] # s[j]
  BY DEF SetToSeqs
<1>3. IsFiniteSet(1..n) /\ Cardinality(1..n) = n
  BY <1>1, FS_Interval
<1>4. s \in Injection(1..n, S)
  BY <1>2, Fun_IsInj
<1>5. s \in Surjection(1..n, S)
  BY <1>3, <1>4, FS_Injection
<1>6. \A x \in S : \E i \in 1..n : s[i] = x
  BY <1>5 DEF Surjection
<1>7. s \in Seq(S) /\ Len(s) = n /\ DOMAIN s = 1..n
  BY <1>1, <1>2
<1>. QED
  BY <1>1, <1>2, <1>6, <1>7

\* Unless rows tie, a query by price returns them in one order only.
LEMMA OneOrder ==
  ASSUME StorefrontTypeOK, NEW rows \in SUBSET Wares, ~Tied(rows),
         NEW s \in Orders(rows), NEW t \in Orders(rows)
  PROVE  s = t
<1>. DEFINE n == Cardinality(rows)
            p == [x \in Wares |-> ware[x].price]
<1>1. IsFiniteSet(rows)
  BY StorefrontAssumption, FS_Subset
<1>2. \A x \in rows : p[x] \in Int
  <2>1. \A x \in rows : ware[x] \in WareRow
    BY DEF StorefrontTypeOK
  <2>2. \A x \in WareRow : x.price \in Prices
    BY DEF WareRow
  <2>3. Prices \subseteq Int
    BY StorefrontAssumption
  <2>. QED
    BY <2>1, <2>2, <2>3
<1>3. \A x, y \in rows : p[x] = p[y] => x = y
  BY DEF Tied
<1>4. s \in SetToSeqs(rows) /\ t \in SetToSeqs(rows)
  BY DEF Orders
<1>5. /\ \A i, j \in 1..n : i < j => p[s[i]] <= p[s[j]]
      /\ \A i, j \in 1..n : i < j => p[t[i]] <= p[t[j]]
  <2>1. DOMAIN s = 1..n /\ DOMAIN t = 1..n
    BY <1>1, <1>4, OrdersHaveAll
  <2>2. \A i \in 1..n : s[i] \in Wares /\ t[i] \in Wares
    BY <1>4 DEF SetToSeqs
  <2>. QED
    BY <2>1, <2>2 DEF Orders
<1>6. /\ s \in [1..n -> rows] /\ t \in [1..n -> rows] /\ n \in Nat
      /\ \A i, j \in 1..n : i # j => s[i] # s[j] /\ t[i] # t[j]
      /\ \A x \in rows : (\E i \in 1..n : s[i] = x) /\ (\E i \in 1..n : t[i] = x)
  <2>1. s \in [1..n -> rows] /\ t \in [1..n -> rows]
    BY <1>4 DEF SetToSeqs
  <2>2. /\ n \in Nat
        /\ \A i, j \in 1..n : i # j => s[i] # s[j]
        /\ \A x \in rows : \E i \in 1..n : s[i] = x
    BY <1>1, <1>4, OrdersHaveAll, SMTT(30)
  <2>3. \A i, j \in 1..n : i # j => t[i] # t[j]
    BY <1>4 DEF SetToSeqs
  <2>4. DOMAIN t = 1..n /\ \A x \in rows : \E i \in DOMAIN t : t[i] = x
    BY <1>1, <1>4, OrdersHaveAll
  <2>. QED
    BY <2>1, <2>2, <2>3, <2>4
<1>. HIDE DEF n, p
<1>7. SUFFICES ASSUME NEW d \in 1..n, s[d] # t[d] PROVE FALSE
  BY <1>6
<1>. DEFINE Apart == {i \in 1..n : s[i] # t[i]}
<1>8. PICK k \in Apart : \A i \in Apart : k <= i
  <2>1. Apart \subseteq Nat
    BY <1>6
  <2>2. d \in Apart
    BY <1>7
  <2>. QED
    BY <2>1, <2>2, LeastOf
<1>9. k \in 1..n /\ s[k] # t[k] /\ \A i \in 1..n : i < k => s[i] = t[i]
  BY <1>6, <1>8
<1>10. p[t[k]] <= p[s[k]]
  <2>1. s[k] \in rows /\ n \in Nat /\ k \in 1..n
    BY <1>6, <1>9
  <2>2. PICK j \in 1..n : t[j] = s[k]
    BY <1>6, <2>1
  <2>3. j # k
    BY <1>9, <2>2
  <2>4. ~(j < k)
    BY <1>6, <1>9, <2>1, <2>2, <2>3
  <2>5. k < j
    BY <2>1, <2>3, <2>4
  <2>. QED
    BY <1>5, <2>1, <2>2, <2>5
<1>11. p[s[k]] <= p[t[k]]
  <2>1. t[k] \in rows /\ n \in Nat /\ k \in 1..n
    BY <1>6, <1>9
  <2>2. PICK j \in 1..n : s[j] = t[k]
    BY <1>6, <2>1
  <2>3. j # k
    BY <1>9, <2>2
  <2>4. ~(j < k)
    BY <1>6, <1>9, <2>1, <2>2, <2>3
  <2>5. k < j
    BY <2>1, <2>3, <2>4
  <2>. QED
    BY <1>5, <2>1, <2>2, <2>5
<1>. QED
  BY <1>2, <1>3, <1>6, <1>9, <1>10, <1>11

\* Until the shop is edited or rows tie, the pages turned so far are the
\* beginning of the one order of the list.
Turned == (visit.page - 1) * visit.limit
WalkInv ==
  ~unsettled /\ visit # NoVisit =>
    LET rows == Matches(visit.list, visit.category)
    IN  /\ visit.page > 1 => ~Tied(rows)
        /\ ~visit.done => /\ Turned <= Cardinality(rows)
                          /\ \A s \in Orders(rows) : visit.shown = SubSeq(s, 1, Turned)
        /\ visit.done => ToSet(visit.shown) = rows /\ Len(visit.shown) = Cardinality(rows)
StorefrontInv == StorefrontTypeOK /\ WalkInv

LEMMA MatchesAreWares ==
  ASSUME NEW l \in Lists, NEW c
  PROVE  /\ Matches(l, c) \in SUBSET Wares /\ IsFiniteSet(Matches(l, c))
         /\ Cardinality(Matches(l, c)) \in Nat
<1>1. Matches(l, c) \in SUBSET Wares
  <2>1. l \in {"public", "dropship", "wholesale", "store", "platform"}
    BY StorefrontAssumption
  <2>. QED
    BY <2>1 DEF Matches, Public, Catalogue, OfStore, Platform
<1>. QED
  BY <1>1, StorefrontAssumption, FS_Subset, FS_CardinalityType

\* A page that shows the rows a + 1 to b of s, after the pages before it.
Adjoins(S, s, a, limit, b) ==
    /\ SubSeq(s, 1, a) \o SubSeq(s, a + 1, b) = SubSeq(s, 1, b)
    /\ a + limit < Cardinality(S) => b = a + limit
    /\ a + limit >= Cardinality(S) => SubSeq(s, 1, b) = s

\* Nothing is shown twice, and nothing is left out, on the way to the end.
LEMMA PageTurns ==
  ASSUME NEW S, IsFiniteSet(S), NEW s \in SetToSeqs(S),
         NEW a \in Nat, NEW limit \in Nat, a <= Cardinality(S), NEW b \in Nat,
         b = IF a + limit <= Cardinality(S) THEN a + limit ELSE Cardinality(S)
  PROVE  Adjoins(S, s, a, limit, b)
<1>. DEFINE n == Cardinality(S)
<1>1. s \in Seq(S) /\ Len(s) = n /\ n \in Nat
  BY OrdersHaveAll
<1>2. b = IF a + limit <= n THEN a + limit ELSE n
  OBVIOUS
<1>3. a \in (1 - 1)..Len(s) /\ b \in a..Len(s) /\ 1 \in 1..Len(s) + 1
  BY <1>1, <1>2
<1>4. SubSeq(s, 1, a) \o SubSeq(s, a + 1, b) = SubSeq(s, 1, b)
  BY <1>1, <1>3, ConcatAdjacentSubSeq
<1>5. SubSeq(s, 1, Len(s)) = s
  BY <1>1, SubSeqFull
<1>6. a + limit >= n => b = Len(s)
  BY <1>1, <1>2
<1>7. a + limit < n => b = a + limit
  BY <1>1, <1>2
<1>. QED
  BY <1>4, <1>5, <1>6, <1>7 DEF Adjoins

\* What is not a walk's step leaves the lists alone, or unsettles the walk.
LEMMA WalkStays ==
  ASSUME WalkInv, UNCHANGED <<ware, visit, unsettled>> PROVE WalkInv'
BY DEF WalkInv, Turned, Matches, Public, Catalogue, OfStore, Platform, OnSale, Fits, Tied, Orders

LEMMA StartWalkInv == ASSUME StorefrontInv, StartWalk PROVE StorefrontInv'
<1>1. PICK l \in Lists, c \in Categories \cup {"all"}, raw \in RawLimits :
         visit' = [list |-> l, category |-> c, limit |-> Limit(raw), page |-> 1,
                   shown |-> <<>>, done |-> FALSE]
  BY DEF StartWalk
<1>2. /\ UNCHANGED <<ware, request>> /\ unsettled' = FALSE /\ visits' \in 0..MaxVisits
      /\ Limit(raw) \in 1..MaxLimit
  <2>1. raw \in Int /\ MaxVisits \in Nat
    BY StorefrontAssumption
  <2>. QED
    BY <2>1, LimitRange DEF StartWalk, Visit, StorefrontInv, StorefrontTypeOK
<1>3. visit' \in Walk
  BY <1>1, <1>2, EmptySeq DEF Walk
<1>4. StorefrontTypeOK'
  BY <1>2, <1>3 DEF StorefrontInv, StorefrontTypeOK
<1>5. /\ visit'.page = 1 /\ visit'.shown = <<>> /\ visit'.done = FALSE
      /\ visit'.list = l /\ visit'.category = c /\ Turned' = 0
  <2>1. /\ visit'.page = 1 /\ visit'.shown = <<>> /\ visit'.done = FALSE
        /\ visit'.list = l /\ visit'.category = c /\ visit'.limit = Limit(raw)
    BY <1>1
  <2>2. (1 - 1) * Limit(raw) = 0
    BY <1>2
  <2>. QED
    BY <2>1, <2>2 DEF Turned
<1>. DEFINE rows == Matches(visit.list, visit.category)
<1>6. Cardinality(rows') \in Nat
  <2>1. rows' = Matches(l, c)
    BY <1>2, <1>5 DEF Matches, Public, Catalogue, OfStore, Platform, OnSale, Fits
  <2>. QED
    BY <2>1, MatchesAreWares
<1>7. \A s : SubSeq(s, 1, 0) = <<>>
  BY SubSeqEmpty
<1>8. WalkInv'
  BY <1>5, <1>6, <1>7 DEF WalkInv
<1>. QED
  BY <1>4, <1>8 DEF StorefrontInv

LEMMA NextPageInv == ASSUME StorefrontInv, NextPage PROVE StorefrontInv'
<1>. DEFINE rows == Matches(visit.list, visit.category)
            n == Cardinality(rows)
            first == Skip(visit.page, visit.limit)
<1>1. /\ ~visit.done /\ UNCHANGED <<ware, request, visits>>
      /\ unsettled' = (unsettled \/ Tied(rows))
  BY DEF NextPage
<1>2. PICK s \in Orders(rows) :
         visit' = [visit EXCEPT
             !.shown = @ \o SubSeq(s, first + 1, Min({first + visit.limit, Len(s)})),
             !.page = @ + 1,
             !.done = visit.page * visit.limit >= n]
  BY DEF NextPage
<1>3. visit \in Walk /\ visit # NoVisit
  BY <1>1 DEF StorefrontInv, StorefrontTypeOK, NoVisit
<1>4. /\ visit.list \in Lists /\ visit.limit \in Nat \ {0} /\ visit.page \in Nat \ {0}
      /\ visit.shown \in Seq(Wares) /\ visit.limit \in 1..MaxLimit
  BY <1>3, StorefrontAssumption DEF Walk
<1>5. rows \in SUBSET Wares /\ IsFiniteSet(rows) /\ n \in Nat
  BY <1>4, MatchesAreWares
<1>6. s \in SetToSeqs(rows)
  BY DEF Orders
<1>7. first \in Nat /\ visit.page * visit.limit = first + visit.limit /\ Turned = first
  <2>1. \A i, l \in Nat \ {0} : (i - 1) * l \in Nat /\ i * l = (i - 1) * l + l
    OBVIOUS
  <2>. QED
    BY <1>4, <2>1 DEF Skip, Turned
<1>. DEFINE last == Min({first + visit.limit, Len(s)})
            more == SubSeq(s, first + 1, last)
<1>. HIDE DEF n, rows, first
<1>8. s \in Seq(rows) /\ Len(s) = n
  BY <1>5, <1>6, OrdersHaveAll DEF n
<1>9. last = IF first + visit.limit <= n THEN first + visit.limit ELSE n
  BY <1>4, <1>5, <1>7, <1>8, MinOfTwo
<1>. HIDE DEF last
<1>10. more \in Seq(Wares)
  <2>1. s \in Seq(rows) /\ Len(s) = n
    BY <1>8
  <2>2. last \in Int /\ last <= n
    BY <1>4, <1>5, <1>7, <1>9
  <2>3. \A i \in 1..n : s[i] \in Wares
    BY <1>5, <2>1
  <2>4. \A i \in (first + 1)..last : s[i] \in Wares
    BY <1>5, <1>7, <2>2, <2>3
  <2>. QED
    BY <1>7, <2>2, <2>4, SubSeqProperties
<1>11. /\ visit'.list = visit.list /\ visit'.category = visit.category
      /\ visit'.limit = visit.limit /\ visit'.page = visit.page + 1
      /\ visit'.shown = visit.shown \o more
      /\ visit'.done = (first + visit.limit >= n)
      /\ visit' \in Walk
  <2>1. visit' = [visit EXCEPT !.shown = visit.shown \o more, !.page = visit.page + 1,
                               !.done = (visit.page * visit.limit >= n)]
    BY <1>2 DEF n, rows, first, last
  <2>2. visit.shown \o more \in Seq(Wares)
    BY <1>4, <1>10, ConcatProperties
  <2>. HIDE DEF more
  <2>3. /\ visit'.list = visit.list /\ visit'.category = visit.category
        /\ visit'.limit = visit.limit /\ visit'.page = visit.page + 1
        /\ visit'.shown = visit.shown \o more
        /\ visit'.done = (visit.page * visit.limit >= n)
    BY <1>3, <2>1 DEF Walk
  <2>4. visit.page + 1 \in Nat \ {0} /\ (visit.page * visit.limit >= n) \in BOOLEAN
    BY <1>4
  <2>5. visit' \in Walk
    BY <1>3, <2>1, <2>2, <2>4 DEF Walk
  <2>. QED
    BY <1>7, <2>3, <2>5
<1>12. StorefrontTypeOK'
  BY <1>1, <1>11 DEF StorefrontInv, StorefrontTypeOK
<1>13. rows' = rows /\ (Tied(rows))' = Tied(rows) /\ (Orders(rows))' = Orders(rows)
  BY <1>1, <1>11 DEF rows, Matches, Public, Catalogue, OfStore, Platform, OnSale, Fits, Tied, Orders
<1>14. Turned' = first + visit.limit
  BY <1>4, <1>7, <1>11 DEF Turned
<1>15. ASSUME ~unsettled'
       PROVE  /\ ~Tied(rows)
              /\ ~visit'.done => /\ Turned' <= n
                                 /\ \A t \in Orders(rows) : visit'.shown = SubSeq(t, 1, Turned')
              /\ visit'.done => ToSet(visit'.shown) = rows /\ Len(visit'.shown) = n
  <2>1. ~Tied(rows) /\ ~unsettled
    BY <1>1, <1>15
  <2>2. first <= n /\ visit.shown = SubSeq(s, 1, first)
    BY <1>1, <1>3, <1>7, <2>1 DEF StorefrontInv, WalkInv, n, rows
  <2>3. /\ visit'.shown = SubSeq(s, 1, last)
        /\ first + visit.limit < n => last = first + visit.limit
        /\ first + visit.limit >= n => SubSeq(s, 1, last) = s
    <3>0. /\ first \in Nat /\ first <= Cardinality(rows) /\ visit.limit \in Nat
          /\ last \in Nat
          /\ last = IF first + visit.limit <= Cardinality(rows)
                    THEN first + visit.limit ELSE Cardinality(rows)
      BY <1>4, <1>5, <1>7, <1>9, <2>2 DEF n
    <3>1. IsFiniteSet(rows) /\ s \in SetToSeqs(rows)
      BY <1>5, <1>6
    <3>2. Adjoins(rows, s, first, visit.limit, last)
      BY <3>0, <3>1, PageTurns
    <3>. QED
      BY <1>11, <2>2, <3>2 DEF n, Adjoins, more
  <2>4. CASE first + visit.limit < n
    <3>0. ~(first + visit.limit >= n)
      BY <1>4, <1>5, <1>7, <2>4
    <3>1. ~visit'.done /\ visit'.shown = SubSeq(s, 1, Turned')
      BY <1>11, <1>14, <2>3, <2>4, <3>0
    <3>2. \A t \in Orders(rows) : t = s
      BY <1>5, <2>1, OneOrder DEF StorefrontInv
    <3>. QED
      BY <1>4, <1>5, <1>7, <1>14, <2>1, <2>4, <3>1, <3>2
  <2>5. CASE first + visit.limit >= n
    <3>1. visit'.done /\ visit'.shown = s
      BY <1>11, <2>3, <2>5
    <3>2. Len(s) = n /\ ToSet(s) = rows
      <4>1. /\ s \in Seq(rows) /\ Len(s) = n /\ DOMAIN s = 1..n
            /\ \A x \in rows : \E i \in DOMAIN s : s[i] = x
        BY <1>5, <1>6, OrdersHaveAll DEF n
      <4>. QED
        BY <4>1 DEF ToSet
    <3>. QED
      BY <2>1, <3>1, <3>2
  <2>. QED
    BY <1>4, <1>5, <1>7, <2>4, <2>5
<1>16. WalkInv'
  BY <1>13, <1>15 DEF WalkInv, n, rows
<1>. QED
  BY <1>12, <1>16 DEF StorefrontInv

\* Edits unsettle the walk that is under way.
LEMMA AlterInv ==
  ASSUME StorefrontInv, NEW p \in Wares, NEW with \in WareRow, Alter(p, with)
  PROVE  /\ WalkInv' /\ ware' \in [Wares -> WareRow] /\ UNCHANGED visit
         /\ ware' = [ware EXCEPT ![p] = with] /\ ware[p].status # "none"
         /\ unsettled' \in BOOLEAN /\ visits' \in 0..MaxVisits
<1>1. MaxVisits \in Nat
  BY StorefrontAssumption
<1>2. unsettled' = TRUE /\ visits' \in 0..MaxVisits
  BY <1>1 DEF Alter, Visit, StorefrontInv, StorefrontTypeOK
<1>3. ware' \in [Wares -> WareRow]
  BY DEF Alter, StorefrontInv, StorefrontTypeOK
<1>. QED
  BY <1>2, <1>3 DEF Alter, WalkInv

\* A product that stays keeps its requests.
LEMMA EditWareInv == ASSUME StorefrontInv, NEW p \in Wares, EditWare(p) PROVE StorefrontInv'
<1>1. ware[p] \in WareRow /\ ware \in [Wares -> WareRow]
  BY DEF StorefrontInv, StorefrontTypeOK
<1>2. PICK with \in WareRow : Alter(p, with) /\ (ware[p].status # "none" => with.status # "none")
  <2>1. CASE \E x \in Prices : Alter(p, [ware[p] EXCEPT !.price = x])
    BY <1>1, <2>1 DEF WareRow
  <2>2. CASE \E x \in Prices \cup {NoPrice} : Alter(p, [ware[p] EXCEPT !.special = x])
    BY <1>1, <2>2 DEF WareRow
  <2>3. CASE \E s \in {"published", "draft"} : Alter(p, [ware[p] EXCEPT !.status = s])
    BY <1>1, <2>3 DEF WareRow
  <2>4. CASE Alter(p, [ware[p] EXCEPT !.approved = ~@])
    <3>1. (~ware[p].approved) \in BOOLEAN
      OBVIOUS
    <3>2. [ware[p] EXCEPT !.approved = ~ware[p].approved] \in WareRow
      BY <1>1, <3>1 DEF WareRow
    <3>3. [ware[p] EXCEPT !.approved = ~ware[p].approved].status = ware[p].status
      BY <1>1 DEF WareRow
    <3>. QED
      BY <2>4, <3>2, <3>3
  <2>. QED
    BY <2>1, <2>2, <2>3, <2>4 DEF EditWare
<1>3. UNCHANGED request
  BY DEF EditWare
<1>4. /\ WalkInv' /\ ware' \in [Wares -> WareRow] /\ UNCHANGED visit
      /\ ware' = [ware EXCEPT ![p] = with] /\ ware[p].status # "none"
      /\ unsettled' \in BOOLEAN /\ visits' \in 0..MaxVisits
  BY <1>2, AlterInv
<1>5. \A q \in Wares : ware[q].status # "none" => ware'[q].status # "none"
  BY <1>1, <1>2, <1>4
<1>6. \A r \in Requests : request[r].status # "none" => request[r].product \in Wares
  BY DEF StorefrontInv, StorefrontTypeOK, RequestRow, NoRequest
<1>7. StorefrontTypeOK'
  BY <1>3, <1>4, <1>5, <1>6 DEF StorefrontInv, StorefrontTypeOK
<1>. QED
  BY <1>4, <1>7 DEF StorefrontInv

LEMMA DeleteWareInv == ASSUME StorefrontInv, NEW p \in Wares, DeleteWare(p) PROVE StorefrontInv'
<1>1. ware[p] \in WareRow /\ ware \in [Wares -> WareRow] /\ request \in [Requests -> RequestRow \cup {NoRequest}]
  BY DEF StorefrontInv, StorefrontTypeOK
<1>2. [ware[p] EXCEPT !.status = "none"] \in WareRow
  BY <1>1 DEF WareRow
<1>3. /\ WalkInv' /\ ware' \in [Wares -> WareRow] /\ UNCHANGED visit
      /\ ware' = [ware EXCEPT ![p] = [ware[p] EXCEPT !.status = "none"]]
      /\ unsettled' \in BOOLEAN /\ visits' \in 0..MaxVisits
  <2>1. Alter(p, [ware[p] EXCEPT !.status = "none"])
    BY DEF DeleteWare
  <2>. QED
    BY <1>2, <2>1, AlterInv
<1>4. request' = [r \in Requests |-> IF request[r].product = p THEN NoRequest ELSE request[r]]
  BY DEF DeleteWare
<1>5. \A q \in Wares \ {p} : ware'[q] = ware[q]
  BY <1>1, <1>3
<1>6. \A r \in Requests : request[r].status # "none" =>
         request[r].product \in Wares /\ ware[request[r].product].status # "none"
  BY DEF StorefrontInv, StorefrontTypeOK, RequestRow, NoRequest
<1>7. \A r \in Requests : request'[r].status # "none" =>
         request'[r] = request[r] /\ request[r].product # p
  BY <1>4 DEF NoRequest
<1>8. \A r \in Requests : request'[r].status # "none" => ware'[request'[r].product].status # "none"
  BY <1>5, <1>6, <1>7
<1>9. request' \in [Requests -> RequestRow \cup {NoRequest}]
  BY <1>1, <1>4
<1>10. StorefrontTypeOK'
  BY <1>3, <1>8, <1>9 DEF StorefrontInv, StorefrontTypeOK
<1>. QED
  BY <1>3, <1>10 DEF StorefrontInv

LEMMA RequestInvS ==
  ASSUME StorefrontInv, NEW r \in Requests, NEW l, Request(r, l) PROVE StorefrontInv'
<1>1. PICK p \in Wares :
         /\ ware[p].status = "published"
         /\ request' = [request EXCEPT ![r] =
               [status |-> "new", list |-> l, product |-> p, unitPrice |-> UnitPrice(p)]]
  BY DEF Request
<1>2. /\ UNCHANGED <<ware, visit, unsettled>> /\ l \in Lists /\ visits' \in 0..MaxVisits
  BY StorefrontAssumption DEF Request, Visit, StorefrontInv, StorefrontTypeOK
<1>3. /\ ware[p] \in WareRow /\ request \in [Requests -> RequestRow \cup {NoRequest}]
      /\ \A i \in Requests : request[i].status # "none" => ware[request[i].product].status # "none"
  BY DEF StorefrontInv, StorefrontTypeOK
<1>4. UnitPrice(p) \in Prices
  BY <1>3 DEF UnitPrice, WareRow
<1>5. [status |-> "new", list |-> l, product |-> p, unitPrice |-> UnitPrice(p)] \in RequestRow
  BY <1>2, <1>4 DEF RequestRow
<1>6. /\ request' \in [Requests -> RequestRow \cup {NoRequest}]
      /\ \A i \in Requests : request'[i].status # "none" => ware[request'[i].product].status # "none"
  BY <1>1, <1>3, <1>5
<1>7. StorefrontTypeOK'
  BY <1>2, <1>6 DEF StorefrontInv, StorefrontTypeOK
<1>. QED
  BY <1>2, <1>7, WalkStays DEF StorefrontInv

LEMMA SetRequestStatusInv ==
  ASSUME StorefrontInv, NEW r \in Requests, SetRequestStatus(r) PROVE StorefrontInv'
<1>1. PICK s \in {"new", "processing", "fulfilled", "cancelled"} :
         request' = [request EXCEPT ![r].status = s]
  BY DEF SetRequestStatus
<1>2. UNCHANGED <<ware, visit, unsettled>> /\ visits' \in 0..MaxVisits /\ request[r].status # "none"
  BY StorefrontAssumption DEF SetRequestStatus, Visit, StorefrontInv, StorefrontTypeOK
<1>3. /\ request \in [Requests -> RequestRow \cup {NoRequest}]
      /\ \A i \in Requests : request[i].status # "none" => ware[request[i].product].status # "none"
  BY DEF StorefrontInv, StorefrontTypeOK
<1>4. request[r] \in RequestRow
  BY <1>2, <1>3 DEF NoRequest
<1>5. /\ request'[r] \in RequestRow /\ request'[r].product = request[r].product
      /\ \A i \in Requests \ {r} : request'[i] = request[i]
      /\ request' \in [Requests -> RequestRow \cup {NoRequest}]
  BY <1>1, <1>3, <1>4 DEF RequestRow
<1>6. StorefrontTypeOK'
  BY <1>2, <1>3, <1>5 DEF StorefrontInv, StorefrontTypeOK
<1>. QED
  BY <1>2, <1>6, WalkStays DEF StorefrontInv

\* The invariant of the lists and the partners' requests.
THEOREM StorefrontInvariance == StorefrontSpec => []StorefrontInv
<1>1. StorefrontInit => StorefrontInv
  <2>. SUFFICES ASSUME StorefrontInit PROVE StorefrontInv
    OBVIOUS
  <2>1. MaxVisits \in Nat
    BY StorefrontAssumption
  <2>2. ware \in [Wares -> WareRow]
    BY DEF StorefrontInit, WareRow
  <2>3. visit = NoVisit /\ \A r \in Requests : request[r].status = "none"
    BY DEF StorefrontInit, NoRequest
  <2>4. request \in [Requests -> RequestRow \cup {NoRequest}]
    BY DEF StorefrontInit
  <2>5. unsettled \in BOOLEAN /\ visits \in 0..MaxVisits
    <3>1. unsettled \in BOOLEAN
      BY DEF StorefrontInit
    <3>2. visits \in 0..MaxVisits
      BY <2>1 DEF StorefrontInit
    <3>. QED
      BY <3>1, <3>2
  <2>6. StorefrontTypeOK
    BY <2>2, <2>3, <2>4, <2>5 DEF StorefrontTypeOK
  <2>. QED
    BY <2>3, <2>6 DEF StorefrontInv, WalkInv
<1>2. ASSUME StorefrontInv, [StorefrontNext]_StorefrontVars PROVE StorefrontInv'
  <2>1. CASE StartWalk
    BY <1>2, <2>1, StartWalkInv
  <2>2. CASE NextPage
    BY <1>2, <2>2, NextPageInv
  <2>3. ASSUME NEW p \in Wares, EditWare(p) \/ DeleteWare(p) PROVE StorefrontInv'
    BY <1>2, <2>3, EditWareInv, DeleteWareInv
  <2>4. ASSUME NEW r \in Requests, RequestDropship(r) \/ RequestWholesale(r) PROVE StorefrontInv'
    BY <1>2, <2>4, RequestInvS DEF RequestDropship, RequestWholesale
  <2>5. ASSUME NEW r \in Requests, SetRequestStatus(r) PROVE StorefrontInv'
    BY <1>2, <2>5, SetRequestStatusInv
  <2>6. CASE UNCHANGED StorefrontVars
    <3>1. UNCHANGED <<ware, visit, request, unsettled, visits>>
      BY <2>6 DEF StorefrontVars
    <3>2. StorefrontTypeOK'
      BY <1>2, <3>1 DEF StorefrontInv, StorefrontTypeOK
    <3>. QED
      BY <1>2, <3>1, <3>2, WalkStays DEF StorefrontInv
  <2>. QED
    BY <1>2, <2>1, <2>2, <2>3, <2>4, <2>5, <2>6 DEF StorefrontNext
<1>. QED
  BY <1>1, <1>2, PTL DEF StorefrontSpec

\* Whoever turns the pages to the end has seen every product of the list once
\* (products.service.js list, pagination.js), whatever the sizes of pages and lists.
THEOREM PagesShowAll == StorefrontSpec => []PagesCoverList
<1>1. StorefrontInv => PagesCoverList
  BY DEF StorefrontInv, WalkInv, PagesCoverList
<1>. QED
  BY <1>1, StorefrontInvariance, PTL

\* Products, walks and requests keep their types, and no request is for a product
\* that was deleted (the foreign keys of the two requests).
THEOREM StorefrontTypeCorrect == StorefrontSpec => []StorefrontTypeOK
<1>1. StorefrontInv => StorefrontTypeOK
  BY DEF StorefrontInv
<1>. QED
  BY <1>1, StorefrontInvariance, PTL
-----------------------------------------------------------------------------
(* All of them together.                                                   *)

\* Side by side the five keep their types: no amount of an order is below zero
\* (pricing.service), and no stock or price either (the checks of the edits, the
\* condition of decrementStock), unless a file (bulkImport) has put it there.
THEOREM GoodsTypeCorrect == GoodsSpec => []GoodsTypeOK
<1>1. (CartInv => CartTypeOK) /\ (ReviewsInv => ReviewsTypeOK)
  BY DEF CartInv, ReviewsInv
<1>2. /\ CatalogSpec => []CatalogTypeOK
      /\ CartSpec => []CartInv
      /\ PricingSpec => []PricingTypeOK
      /\ StorefrontSpec => []StorefrontTypeOK
      /\ ReviewsSpec => []ReviewsInv
  BY CatalogTypeCorrect, CartInvariance, PricingTypeCorrect, StorefrontTypeCorrect,
     ReviewsInvariance
<1>. QED
  BY <1>1, <1>2, PTL DEF GoodsSpec, GoodsTypeOK
=============================================================================
