-------------------------------- MODULE Desk --------------------------------
(***************************************************************************)
(* What customers keep with the shop (addresses, wishes) and what the      *)
(* staff work through one record at a time: applications of partners and   *)
(* suggestions, affiliates and their commissions.  Making an address the   *)
(* default one clears the others first, by a statement of its own.         *)
(***************************************************************************)
EXTENDS Integers, FiniteSets

CONSTANTS
    Customers,
    Places,     \* addresses that may come to exist
    Wishes,     \* products
    Letters,    \* applications and suggestions that may come to exist
    ReferralCodes,
    Commissions, \* commissions that may come to exist
    Callers,    \* calls under way at the same time
    MaxDeskCalls, \* bound on calls
    NoOne

ASSUME DeskAssumption ==
    NoOne \notin Customers \cup ReferralCodes \cup Places /\ MaxDeskCalls \in Nat

VARIABLES
    address,    \* Address: owner (NoOne: no row yet, or none any more) and isDefault
    wish,       \* WishlistItem: unique pairs of a customer and a product
    letter,     \* PartnerApplication and Suggestion: status (approved, rejected
                \* and archived are "closed"); "none", "gone"
    profile,    \* AffiliateProfile.referralCode by customer
    commission, \* AffiliateCommission: affiliate and status
    caller,     \* per call: its step and arguments
    \* history
    crossed,    \* customers of whom a default was written while another was on its way
    deskCalls

DeskVars == <<address, wish, letter, profile, commission, caller, crossed, deskCalls>>

AtRest == [pc |-> "idle", who |-> NoOne, place |-> NoOne, default |-> FALSE, code |-> NoOne]

DeskInit ==
    /\ address = [a \in Places |-> [owner |-> NoOne, default |-> FALSE, gone |-> FALSE]]
    /\ wish = {}
    /\ letter = [l \in Letters |-> "none"]
    /\ profile = [u \in Customers |-> NoOne]
    /\ commission = [k \in Commissions |-> [affiliate |-> NoOne, status |-> "none"]]
    /\ caller = [d \in Callers |-> AtRest]
    /\ crossed = {} /\ deskCalls = 0
-----------------------------------------------------------------------------
Answered == deskCalls < MaxDeskCalls /\ deskCalls' = deskCalls + 1

Start(d, call) ==
    /\ caller[d].pc = "idle" /\ Answered
    /\ caller' = [caller EXCEPT ![d] = call]

\* create of an address; one that is not the default is written at once.
StartAddress(d) ==
    /\ \E u \in Customers, default \in BOOLEAN :
          Start(d, [AtRest EXCEPT !.pc = IF default THEN "clear" ELSE "create",
                                  !.who = u, !.default = default])
    /\ UNCHANGED <<address, wish, letter, profile, commission, crossed>>

\* update: the address is the customer's.  A form that says nothing of the
\* default says no (updateAddressSchema fills in false).
StartUpdate(d) ==
    /\ \E a \in Places, default \in BOOLEAN :
          /\ address[a].owner # NoOne
          /\ Start(d, [AtRest EXCEPT !.pc = IF default THEN "clear" ELSE "update",
                          !.who = address[a].owner, !.place = a, !.default = default])
    /\ UNCHANGED <<address, wish, letter, profile, commission, crossed>>

\* Faulty variant: only the address that is about to change is cleared.
ToClearOne(u, place) == {place}

\* updateMany's condition.
ToClear(u, place) == {a \in Places : address[a].owner = u}

ClearDefault(d) ==
    LET s == caller[d]
    IN  /\ s.pc = "clear"
        /\ address' = [a \in Places |->
                IF a \in ToClear(s.who, s.place) THEN [address[a] EXCEPT !.default = FALSE]
                ELSE address[a]]
        /\ crossed' = crossed \ {s.who}
        /\ caller' = [caller EXCEPT ![d].pc = IF s.place = NoOne THEN "create" ELSE "update"]
        /\ UNCHANGED <<wish, letter, profile, commission, deskCalls>>

\* A row is written; where it is a default, another call of the customer may have
\* cleared as well and be about to write its own.
WriteAddress(d) ==
    LET s == caller[d]
        row == [owner |-> s.who, default |-> s.default, gone |-> FALSE]
        put(a) == address' = [address EXCEPT ![a] = row]
    IN  /\ \/ s.pc = "create" /\ \E a \in Places : address[a].owner = NoOne /\ ~address[a].gone /\ put(a)
           \/ s.pc = "update" /\ IF address[s.place].owner = s.who THEN put(s.place)
                                 ELSE UNCHANGED address
        /\ crossed' = IF s.default /\ \E e \in Callers \ {d} :
                            /\ caller[e].pc \in {"create", "update"}
                            /\ caller[e].who = s.who /\ caller[e].default
                      THEN crossed \cup {s.who} ELSE crossed
        /\ caller' = [caller EXCEPT ![d] = AtRest]
        /\ UNCHANGED <<wish, letter, profile, commission, deskCalls>>

RemoveAddress(a) ==
    /\ address[a].owner # NoOne /\ Answered
    /\ address' = [address EXCEPT ![a] = [owner |-> NoOne, default |-> FALSE, gone |-> TRUE]]
    /\ UNCHANGED <<wish, letter, profile, commission, caller, crossed>>

AbandonCaller(d) ==
    /\ caller[d].pc # "idle" /\ caller' = [caller EXCEPT ![d] = AtRest]
    /\ UNCHANGED <<address, wish, letter, profile, commission, crossed, deskCalls>>
-----------------------------------------------------------------------------
\* add: a wish there already is is left alone; remove.
AddWish(u, w) ==
    /\ Answered /\ wish' = wish \cup {<<u, w>>}
    /\ UNCHANGED <<address, letter, profile, commission, caller, crossed>>

RemoveWish(u, w) ==
    /\ Answered /\ wish' = wish \ {<<u, w>>}
    /\ UNCHANGED <<address, letter, profile, commission, caller, crossed>>

\* Anyone may apply or suggest; the staff set any status after any other.
Send(l) ==
    /\ letter[l] = "none" /\ Answered /\ letter' = [letter EXCEPT ![l] = "new"]
    /\ UNCHANGED <<address, wish, profile, commission, caller, crossed>>

SetLetterStatus(l, status) ==
    /\ letter[l] \notin {"none", "gone", status} /\ Answered
    /\ letter' = [letter EXCEPT ![l] = status]
    /\ UNCHANGED <<address, wish, profile, commission, caller, crossed>>

RemoveLetter(l) ==
    /\ letter[l] \notin {"none", "gone"} /\ Answered
    /\ letter' = [letter EXCEPT ![l] = "gone"]
    /\ UNCHANGED <<address, wish, profile, commission, caller, crossed>>
-----------------------------------------------------------------------------
Taken(c) == \E u \in Customers : profile[u] = c

\* createProfile: the user has none and the code, given or drawn, is free.
StartProfile(d) ==
    /\ \E u \in Customers, c \in ReferralCodes :
          /\ profile[u] = NoOne /\ ~Taken(c)
          /\ Start(d, [AtRest EXCEPT !.pc = "profile", !.who = u, !.code = c])
    /\ UNCHANGED <<address, wish, letter, profile, commission, crossed>>

\* Both are unique: the second of two calls fails.
CreateProfile(d) ==
    LET s == caller[d]
    IN  /\ s.pc = "profile"
        /\ profile' = IF profile[s.who] = NoOne /\ ~Taken(s.code)
                      THEN [profile EXCEPT ![s.who] = s.code] ELSE profile
        /\ caller' = [caller EXCEPT ![d] = AtRest]
        /\ UNCHANGED <<address, wish, letter, commission, crossed, deskCalls>>

AddCommission(k) ==
    /\ commission[k].status = "none" /\ Answered
    /\ \E u \in Customers : profile[u] # NoOne /\
          commission' = [commission EXCEPT ![k] = [affiliate |-> u, status |-> "pending"]]
    /\ UNCHANGED <<address, wish, letter, profile, caller, crossed>>

SetCommissionStatus(k) ==
    /\ commission[k].status # "none" /\ Answered
    /\ \E s \in {"pending", "approved", "paid"} : commission' = [commission EXCEPT ![k].status = s]
    /\ UNCHANGED <<address, wish, letter, profile, caller, crossed>>

DeskNext ==
    \/ \E d \in Callers : \/ StartAddress(d) \/ StartUpdate(d) \/ ClearDefault(d)
                          \/ WriteAddress(d) \/ StartProfile(d) \/ CreateProfile(d)
                          \/ AbandonCaller(d)
    \/ \E a \in Places : RemoveAddress(a)
    \/ \E u \in Customers, w \in Wishes : AddWish(u, w) \/ RemoveWish(u, w)
    \/ \E l \in Letters : \/ Send(l) \/ RemoveLetter(l)
                          \/ \E s \in {"new", "reviewed", "closed"} : SetLetterStatus(l, s)
    \/ \E k \in Commissions : AddCommission(k) \/ SetCommissionStatus(k)

DeskSpec == DeskInit /\ [][DeskNext]_DeskVars
-----------------------------------------------------------------------------
DeskTypeOK ==
    /\ address \in [Places -> [owner : Customers \cup {NoOne}, default : BOOLEAN, gone : BOOLEAN]]
    /\ wish \subseteq Customers \X Wishes
    /\ letter \in [Letters -> {"none", "new", "reviewed", "closed", "gone"}]
    /\ profile \in [Customers -> ReferralCodes \cup {NoOne}]
    /\ commission \in [Commissions -> [affiliate : Customers \cup {NoOne},
                                       status : {"none", "pending", "approved", "paid"}]]
    /\ caller \in [Callers -> [pc : {"idle", "clear", "create", "update", "profile"},
                               who : Customers \cup {NoOne}, place : Places \cup {NoOne},
                               default : BOOLEAN, code : ReferralCodes \cup {NoOne}]]
    /\ crossed \subseteq Customers /\ deskCalls \in 0..MaxDeskCalls

\* Of a customer's addresses one at most is the default, which the list puts
\* first, unless two calls had both cleared the others before either wrote its own
\* (their race costs no more than this), and then until the next choice of a default.
OneDefaultAddress ==
    \A u \in Customers \ crossed :
        Cardinality({a \in Places : address[a].owner = u /\ address[a].default}) <= 1
=============================================================================
