------------------------------- MODULE Reviews -------------------------------
(***************************************************************************)
(* The reviews of one product and the rating kept on its row.  Moderating  *)
(* a review is four statements: read the review, write its status (or      *)
(* delete it), average the approved ones, write the average.  Featuring,   *)
(* replies and the counters are columns nothing here depends on.           *)
(***************************************************************************)
EXTENDS Integers, FiniteSets, Functions

CONSTANTS
    ReviewIds,  \* rows that may come to exist
    Authors,    \* customers
    Stars,      \* ratings that occur
    Moderators, \* calls under way at the same time, customers' included
    MaxReviewCalls

ASSUME ReviewsAssumption ==
    /\ Stars \subseteq 1..5 /\ MaxReviewCalls \in Nat
    /\ IsFiniteSet(ReviewIds)

VARIABLES
    review,    \* Review: status ("none": no row yet, "deleted"), author, stars
    rating,    \* Product.ratingAvg and ratingCount, as the sum and the count
    moderator, \* per call: its step and what it has read
    \* history
    upset,     \* the last average written was not (or no longer) the one to write
    twins,     \* authors who sent a second review before the first was stored
    reviewCalls

ReviewsVars == <<review, rating, moderator, upset, twins, reviewCalls>>

NoReview == [status |-> "none", author |-> "nobody", stars |-> 0]
Outside == [pc |-> "idle", id |-> 0, author |-> "nobody", stars |-> 0, to |-> "none",
            seen |-> "none", sum |-> 0, count |-> 0]

Posted == {i \in ReviewIds : review[i].status \notin {"none", "deleted"}}
Approved == {i \in ReviewIds : review[i].status = "approved"}
StarSum(ids) == SumFunctionOnSet([i \in ids |-> review[i].stars], ids)
Average == [sum |-> StarSum(Approved), count |-> Cardinality(Approved)]

ReviewsInit ==
    /\ review = [i \in ReviewIds |-> NoReview]
    /\ rating = [sum |-> 0, count |-> 0]
    /\ moderator = [m \in Moderators |-> Outside]
    /\ upset = FALSE /\ twins = {} /\ reviewCalls = 0
-----------------------------------------------------------------------------
Step(m, next) == moderator' = [moderator EXCEPT ![m] = next]

Begin(m, next) ==
    /\ moderator[m].pc = "idle" /\ reviewCalls < MaxReviewCalls
    /\ reviewCalls' = reviewCalls + 1
    /\ Step(m, next) /\ UNCHANGED <<review, rating, upset, twins>>

\* create: reviews are enabled, and the customer has none of this product.
StartReview(m) ==
    \E a \in Authors, s \in Stars :
        /\ \A i \in Posted : review[i].author # a
        /\ Begin(m, [Outside EXCEPT !.pc = "create", !.author = a, !.stars = s])

\* No constraint stops a second one that has not seen the first.
CreateReview(m) ==
    LET s == moderator[m]
    IN  /\ s.pc = "create"
        /\ \E i \in ReviewIds : review[i] = NoReview
        /\ review' = [review EXCEPT ![CHOOSE i \in ReviewIds : review[i] = NoReview] =
                [status |-> "pending", author |-> s.author, stars |-> s.stars]]
        /\ twins' = IF \E i \in Posted : review[i].author = s.author
                    THEN twins \cup {s.author} ELSE twins
        /\ Step(m, Outside) /\ UNCHANGED <<rating, upset, reviewCalls>>

\* setStatus and remove read the review.
StartModeration(m) ==
    \E i \in Posted, to \in {"approved", "rejected", "deleted"} :
        Begin(m, [Outside EXCEPT !.pc = "write", !.id = i, !.to = to,
                                 !.seen = review[i].status])

\* Faulty variant: only an approval changes the rating.
CountsWhenApproved(seen, to) == to = "approved"

\* The rating is affected if the review is approved now, or was when read.
Counts(seen, to) == to = "approved" \/ seen = "approved"

WriteStatus(m) ==
    LET s == moderator[m]
    IN  /\ s.pc = "write" /\ s.id \in Posted
        /\ review' = [review EXCEPT ![s.id] =
                IF s.to = "deleted" THEN [NoReview EXCEPT !.status = "deleted"]
                ELSE [@ EXCEPT !.status = s.to]]
        /\ Step(m, IF Counts(s.seen, s.to) THEN [s EXCEPT !.pc = "average"] ELSE Outside)
        /\ upset' = (upset \/ (s.seen # review[s.id].status /\ ~Counts(s.seen, s.to)))
        /\ UNCHANGED <<rating, twins, reviewCalls>>

\* recalculateRating: one statement averages, the next writes.
TakeAverage(m) ==
    /\ moderator[m].pc = "average"
    /\ Step(m, [moderator[m] EXCEPT !.pc = "rate", !.sum = Average.sum, !.count = Average.count])
    /\ UNCHANGED <<review, rating, upset, twins, reviewCalls>>

WriteRating(m) ==
    /\ moderator[m].pc = "rate"
    /\ rating' = [sum |-> moderator[m].sum, count |-> moderator[m].count]
    /\ upset' = (rating' # Average)
    /\ Step(m, Outside) /\ UNCHANGED <<review, twins, reviewCalls>>

\* An error, or the end of the process.
AbandonReview(m) ==
    /\ moderator[m].pc # "idle"
    /\ upset' = (upset \/ moderator[m].pc \in {"average", "rate"})
    /\ Step(m, Outside) /\ UNCHANGED <<review, rating, twins, reviewCalls>>

ReviewsNext ==
    \E m \in Moderators :
        \/ StartReview(m) \/ CreateReview(m) \/ StartModeration(m) \/ WriteStatus(m)
        \/ TakeAverage(m) \/ WriteRating(m) \/ AbandonReview(m)

ReviewsSpec == ReviewsInit /\ [][ReviewsNext]_ReviewsVars
-----------------------------------------------------------------------------
ReviewStatus == {"none", "pending", "approved", "rejected", "deleted"}
ReviewRow == [status : ReviewStatus, author : Authors \cup {"nobody"}, stars : Stars \cup {0}]
ReviewCall ==
    [pc : {"idle", "create", "write", "average", "rate"}, id : ReviewIds \cup {0},
     author : Authors \cup {"nobody"}, stars : Stars \cup {0},
     to : {"none", "approved", "rejected", "deleted"}, seen : ReviewStatus,
     sum : Nat, count : Nat]

ReviewsTypeOK ==
    /\ review \in [ReviewIds -> ReviewRow]
    /\ rating \in [sum : Nat, count : Nat]
    /\ moderator \in [Moderators -> ReviewCall]
    /\ upset \in BOOLEAN /\ twins \subseteq Authors
    /\ reviewCalls \in 0..MaxReviewCalls

\* Once no call is on its way to recalculate it, the rating shown is the
\* average of the approved reviews, whatever calls came before, unless the last
\* one to write it was overtaken, broke off, or misjudged the review's status:
\* the next one to get through alone puts it right.  And a customer has one
\* review of a product, but for twins.
RatingTellsReviews ==
    /\ ~upset /\ (\A m \in Moderators : moderator[m].pc \notin {"average", "rate"})
            => rating = Average
    /\ \A i, j \in Posted :
          i # j /\ review[i].author = review[j].author => review[i].author \in twins
=============================================================================
