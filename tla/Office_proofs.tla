---------------------------- MODULE Office_proofs ----------------------------
(***************************************************************************)
(* What Desk, Notices, Editorial, Bootstrap and Reports guarantee, for any *)
(* number of customers, addresses, offers, records, products, orders and   *)
(* calls, however the calls overlap or break off; and that all of Office,  *)
(* Accounts among it, keeps its types.                                     *)
(***************************************************************************)
EXTENDS Office, Accounts_proofs, Sums

-----------------------------------------------------------------------------
(* Notices: the runs' windows leave no gap but the ones noted in `missed`.  *)

\* The first state satisfies it.
LEMMA NoticesInitInv == NoticesInit => NoticesTypeOK /\ OffersAnnounced
BY NoticesAssumption DEF NoticesInit, NoticesTypeOK, OffersAnnounced, None

\* A run asks for what started since the last one, as far as an Interval goes
\* back; what started before that is missed.
LEMMA CheckAnnounces ==
  ASSUME NoticesTypeOK, OffersAnnounced, Check
  PROVE  NoticesTypeOK' /\ OffersAnnounced'
<1>1. /\ now \in Nat /\ covered \in 0..now /\ Interval \in Nat \ {0}
      /\ \A o \in Offers : offer[o].start \in Nat \cup {None}
  BY NoticesAssumption DEF NoticesTypeOK
<1>2. /\ run = {} /\ run' = Starting(now) /\ covered' = now
      /\ missed' = missed \cup {o \in Offers : offer[o].start \in covered + 1..now - Interval - 1}
      /\ UNCHANGED <<now, offer, told, upsets>>
  BY DEF Check
<1>3. {soon', due'} \subseteq Nat \cup {None}
  BY <1>1 DEF Check, NoticesTypeOK
<1>4. NoticesTypeOK'
  <2>1. run' \subseteq Offers /\ missed' \subseteq Offers
    BY <1>2 DEF NoticesTypeOK, Starting
  <2>. QED
    BY <1>1, <1>2, <1>3, <2>1 DEF NoticesTypeOK
<1>5. ASSUME NEW o \in Offers, offer[o].enabled, offer[o].start \in 0..now,
             o \notin run' \cup missed'
      PROVE  told[o] > 0
  <2>1. offer[o].start \notin now - Interval..now
    BY <1>2, <1>5 DEF Starting
  <2>2. offer[o].start \in Nat /\ offer[o].start < now - Interval
    BY <1>1, <1>5, <2>1
  <2>3. offer[o].start \notin covered + 1..now - Interval - 1
    BY <1>2, <1>5
  <2>4. offer[o].start \in 0..covered
    BY <1>1, <2>2, <2>3
  <2>. QED
    BY <1>2, <1>5, <2>4 DEF OffersAnnounced
<1>. QED
  BY <1>2, <1>4, <1>5 DEF OffersAnnounced

\* Every other step.
LEMMA NoticesNextInv ==
  NoticesTypeOK /\ OffersAnnounced /\ [NoticesNext]_NoticesVars => NoticesTypeOK' /\ OffersAnnounced'
<1>. SUFFICES ASSUME NoticesTypeOK, OffersAnnounced, [NoticesNext]_NoticesVars
              PROVE  NoticesTypeOK' /\ OffersAnnounced'
  OBVIOUS
<1>. USE NoticesAssumption
<1>1. CASE Tick
  BY <1>1 DEF Tick, Upset, NoticesTypeOK, OffersAnnounced
<1>2. CASE Check
  BY <1>2, CheckAnnounces
<1>3. CASE Fail
  BY <1>3 DEF Fail, Upset, NoticesTypeOK, OffersAnnounced
<1>4. CASE Stop
  BY <1>4 DEF Stop, Upset, NoticesTypeOK, OffersAnnounced
<1>5. CASE Restart
  BY <1>5 DEF Restart, NoticesTypeOK, OffersAnnounced
<1>6. ASSUME NEW o \in Offers, Tell(o) PROVE NoticesTypeOK' /\ OffersAnnounced'
  BY <1>6 DEF Tell, NoticesTypeOK, OffersAnnounced
<1>7. ASSUME NEW o \in Offers, EditOffer(o) PROVE NoticesTypeOK' /\ OffersAnnounced'
  <2>1. PICK s \in 1..LastTick, e \in BOOLEAN :
          /\ offer' = [offer EXCEPT ![o] = [start |-> s, enabled |-> e]]
          /\ missed' = IF s <= now \/ o \in run THEN missed \cup {o}
                       ELSE IF told[o] = 0 THEN missed \ {o} ELSE missed
    BY <1>7 DEF EditOffer
  <2>2. Upset /\ UNCHANGED <<now, soon, due, run, told, covered>>
    BY <1>7 DEF EditOffer
  <2>3. NoticesTypeOK'
    BY <2>1, <2>2 DEF NoticesTypeOK, Upset
  <2>4. \A p \in Offers : offer'[p] = IF p = o THEN [start |-> s, enabled |-> e] ELSE offer[p]
    BY <2>1 DEF NoticesTypeOK
  <2>5. s <= now \/ s \notin 0..covered
    BY DEF NoticesTypeOK
  <2>6. OffersAnnounced'
    BY <2>1, <2>2, <2>4, <2>5 DEF OffersAnnounced
  <2>. QED
    BY <2>3, <2>6
<1>8. CASE UNCHANGED NoticesVars
  BY <1>8 DEF NoticesVars, NoticesTypeOK, OffersAnnounced
<1>. QED
  BY <1>1, <1>2, <1>3, <1>4, <1>5, <1>6, <1>7, <1>8 DEF NoticesNext

\* Every offer enabled when it starts is announced (checkPromotionsStarting), but
\* for those a gap between runs, a failure or an edit may have cost.
THEOREM StartedOffersAnnounced == NoticesSpec => []OffersAnnounced
<1>. QED
  BY NoticesInitInv, NoticesNextInv, PTL DEF NoticesSpec
-----------------------------------------------------------------------------
(* Desk: default addresses.                                                *)

CallerRow == [pc : {"idle", "clear", "create", "update", "profile"},
              who : Customers \cup {NoOne}, place : Places \cup {NoOne},
              default : BOOLEAN, code : ReferralCodes \cup {NoOne}]

\* A call about an address knows whose it is, and which if there is one.
CallersKnow ==
    \A d \in Callers :
        /\ caller[d].pc \in {"clear", "create", "update"} => caller[d].who \in Customers
        /\ caller[d].pc = "update" => caller[d].place \in Places

Default(u, a) == address[a].owner = u /\ address[a].default

\* The call has cleared u's defaults and is about to write another.
Chooses(d, u) ==
    caller[d].pc \in {"create", "update"} /\ caller[d].who = u /\ caller[d].default

OnlyDefault(u) ==
    /\ \A a, b \in Places : Default(u, a) /\ Default(u, b) => a = b
    /\ \A d \in Callers : Chooses(d, u) => \A a \in Places : ~Default(u, a)

\* The inductive invariant: what OneDefaultAddress says, and that there is no
\* default at all while a call is about to write one.
DeskInv == DeskTypeOK /\ CallersKnow /\ \A u \in Customers \ crossed : OnlyDefault(u)

LEMMA DeskInitInv == DeskInit => DeskInv
<1>. SUFFICES ASSUME DeskInit PROVE DeskInv
  OBVIOUS
<1>1. AtRest \in CallerRow /\ AtRest.pc = "idle"
  BY DEF AtRest, CallerRow
<1>2. caller \in [Callers -> CallerRow] /\ \A d \in Callers : caller[d].pc = "idle"
  BY <1>1 DEF DeskInit
<1>3. DeskTypeOK
  BY <1>2, DeskAssumption DEF DeskInit, DeskTypeOK, CallerRow
<1>. QED
  BY <1>2, <1>3 DEF DeskInv, DeskInit, CallersKnow, OnlyDefault, Default, Chooses

\* A step that leaves addresses alone, and brings no call to writing a default.
LEMMA DeskStep ==
  ASSUME DeskInv, DeskTypeOK', UNCHANGED <<address, crossed>>,
         \A d \in Callers :
            \/ caller'[d] = caller[d]
            \/ /\ caller'[d].pc \in {"clear", "create", "update"} => caller'[d].who \in Customers
               /\ caller'[d].pc = "update" => caller'[d].place \in Places
               /\ caller'[d].pc \in {"create", "update"} => ~caller'[d].default
  PROVE  DeskInv'
<1>1. CallersKnow'
  BY DEF DeskInv, CallersKnow
<1>2. ASSUME NEW u \in Customers \ crossed PROVE OnlyDefault(u)'
  BY <1>2 DEF DeskInv, OnlyDefault, Default, Chooses
<1>. QED
  BY <1>1, <1>2 DEF DeskInv

\* A call begins.
LEMMA StartDesk ==
  ASSUME DeskInv, NEW d \in Callers, NEW s \in CallerRow, Start(d, s),
         UNCHANGED <<address, wish, letter, profile, commission, crossed>>,
         s.pc \in {"clear", "create", "update"} => s.who \in Customers,
         s.pc = "update" => s.place \in Places,
         s.pc \in {"create", "update"} => ~s.default
  PROVE  DeskInv'
<1>1. caller' \in [Callers -> CallerRow] /\ deskCalls' \in 0..MaxDeskCalls
  BY DeskAssumption DEF DeskInv, DeskTypeOK, Start, Answered, CallerRow
<1>2. DeskTypeOK'
  BY <1>1 DEF DeskInv, DeskTypeOK, CallerRow
<1>3. \A e \in Callers : caller'[e] = IF e = d THEN s ELSE caller[e]
  BY DEF Start, DeskInv, DeskTypeOK
<1>. QED
  BY <1>2, <1>3, DeskStep

LEMMA StartAddressInv ==
  ASSUME DeskInv, NEW d \in Callers, StartAddress(d)
  PROVE  DeskInv'
<1>1. PICK u \in Customers, default \in BOOLEAN :
          Start(d, [AtRest EXCEPT !.pc = IF default THEN "clear" ELSE "create",
                                  !.who = u, !.default = default])
  BY DEF StartAddress
<1>. DEFINE s == [AtRest EXCEPT !.pc = IF default THEN "clear" ELSE "create",
                                !.who = u, !.default = default]
<1>2. /\ s \in CallerRow /\ s.who = u /\ s.default = default
      /\ s.pc = IF default THEN "clear" ELSE "create"
  BY DEF AtRest, CallerRow
<1>3. Start(d, s)
  BY <1>1
<1>4. UNCHANGED <<address, wish, letter, profile, commission, crossed>>
  BY DEF StartAddress
<1>. HIDE DEF s
<1>. QED
  BY <1>2, <1>3, <1>4, StartDesk

LEMMA StartUpdateInv ==
  ASSUME DeskInv, NEW d \in Callers, StartUpdate(d)
  PROVE  DeskInv'
<1>1. PICK a \in Places, default \in BOOLEAN :
          /\ address[a].owner # NoOne
          /\ Start(d, [AtRest EXCEPT !.pc = IF default THEN "clear" ELSE "update",
                          !.who = address[a].owner, !.place = a, !.default = default])
  BY DEF StartUpdate
<1>2. PICK u \in Customers : u = address[a].owner
  BY <1>1 DEF DeskInv, DeskTypeOK
<1>. DEFINE s == [AtRest EXCEPT !.pc = IF default THEN "clear" ELSE "update",
                                !.who = u, !.place = a, !.default = default]
<1>3. /\ s \in CallerRow /\ s.who = u /\ s.place = a /\ s.default = default
      /\ s.pc = IF default THEN "clear" ELSE "update"
  BY DEF AtRest, CallerRow
<1>4. Start(d, s)
  BY <1>1, <1>2
<1>5. UNCHANGED <<address, wish, letter, profile, commission, crossed>>
  BY DEF StartUpdate
<1>. HIDE DEF s
<1>. QED
  BY <1>3, <1>4, <1>5, StartDesk

LEMMA StartProfileInv ==
  ASSUME DeskInv, NEW d \in Callers, StartProfile(d)
  PROVE  DeskInv'
<1>1. PICK u \in Customers, c \in ReferralCodes :
          Start(d, [AtRest EXCEPT !.pc = "profile", !.who = u, !.code = c])
  BY DEF StartProfile
<1>. DEFINE s == [AtRest EXCEPT !.pc = "profile", !.who = u, !.code = c]
<1>2. s \in CallerRow /\ s.pc = "profile"
  BY DEF AtRest, CallerRow
<1>3. Start(d, s)
  BY <1>1
<1>4. UNCHANGED <<address, wish, letter, profile, commission, crossed>>
  BY DEF StartProfile
<1>. HIDE DEF s
<1>. QED
  BY <1>2, <1>3, <1>4, StartDesk

\* All of the customer's defaults are cleared; whatever was crossed is undone.
LEMMA ClearDefaultInv ==
  ASSUME DeskInv, NEW d \in Callers, ClearDefault(d)
  PROVE  DeskInv'
<1>. USE DEF DeskInv
<1>1. PICK u \in Customers : u = caller[d].who
  BY DEF ClearDefault, CallersKnow
<1>. DEFINE s == [caller[d] EXCEPT !.pc = IF caller[d].place = NoOne THEN "create" ELSE "update"]
<1>2. /\ s \in CallerRow /\ s.who = u /\ s.place = caller[d].place /\ s.default = caller[d].default
      /\ s.pc = IF caller[d].place = NoOne THEN "create" ELSE "update"
  BY <1>1 DEF DeskTypeOK, CallerRow
<1>3. /\ caller' = [caller EXCEPT ![d] = s]
      /\ address' = [a \in Places |-> IF address[a].owner = u
                            THEN [address[a] EXCEPT !.default = FALSE] ELSE address[a]]
      /\ crossed' = crossed \ {u}
      /\ UNCHANGED <<wish, letter, profile, commission, deskCalls>>
  BY <1>1 DEF ClearDefault, ToClear
<1>4. caller[d].place # NoOne => caller[d].place \in Places
  BY DEF DeskTypeOK
<1>. HIDE DEF s
<1>5. \A e \in Callers : caller'[e] = IF e = d THEN s ELSE caller[e]
  BY <1>3 DEF DeskTypeOK
<1>6. \A a \in Places : /\ address'[a].owner = address[a].owner
                        /\ address'[a].default <=> (address[a].owner # u /\ address[a].default)
  BY <1>3 DEF DeskTypeOK
<1>7. DeskTypeOK'
  <2>1. address' \in [Places -> [owner : Customers \cup {NoOne}, default : BOOLEAN, gone : BOOLEAN]]
    <3>. DEFINE Rows == [owner : Customers \cup {NoOne}, default : BOOLEAN, gone : BOOLEAN]
    <3>1. \A x \in Rows : [x EXCEPT !.default = FALSE] \in Rows
      OBVIOUS
    <3>2. \A a \in Places : address[a] \in Rows
      BY DEF DeskTypeOK
    <3>. HIDE DEF Rows
    <3>3. address' \in [Places -> Rows]
      BY <1>3, <3>1, <3>2
    <3>. QED
      BY <3>3 DEF Rows
  <2>2. caller' \in [Callers -> CallerRow]
    BY <1>2, <1>3 DEF DeskTypeOK, CallerRow
  <2>. QED
    BY <1>3, <2>1, <2>2 DEF DeskTypeOK, CallerRow
<1>8. CallersKnow'
  BY <1>2, <1>4, <1>5 DEF CallersKnow
<1>9. ASSUME NEW v \in Customers \ crossed' PROVE OnlyDefault(v)'
  <2>1. CASE v = u
    BY <1>6, <2>1 DEF OnlyDefault, Default
  <2>2. CASE v # u
    <3>1. OnlyDefault(v)
      BY <1>3, <1>9, <2>2
    <3>2. \A a \in Places : Default(v, a)' <=> Default(v, a)
      BY <1>6, <2>2 DEF Default
    <3>3. \A e \in Callers : Chooses(e, v)' => Chooses(e, v)
      BY <1>2, <1>5, <2>2 DEF Chooses
    <3>. QED
      BY <3>1, <3>2, <3>3 DEF OnlyDefault
  <2>. QED
    BY <2>1, <2>2
<1>. QED
  BY <1>7, <1>8, <1>9

\* The row is written; if it is a default, there was none, unless calls crossed.
LEMMA WriteAddressInv ==
  ASSUME DeskInv, NEW d \in Callers, WriteAddress(d)
  PROVE  DeskInv'
<1>. USE DEF DeskInv
<1>1. caller[d].pc \in {"create", "update"}
  BY DEF WriteAddress
<1>2. PICK u \in Customers : u = caller[d].who
  BY <1>1 DEF CallersKnow
<1>. DEFINE new == [owner |-> u, default |-> caller[d].default, gone |-> FALSE]
<1>3. /\ crossed' = IF caller[d].default /\ \E e \in Callers \ {d} :
                          /\ caller[e].pc \in {"create", "update"}
                          /\ caller[e].who = u /\ caller[e].default
                    THEN crossed \cup {u} ELSE crossed
      /\ caller' = [caller EXCEPT ![d] = AtRest]
      /\ UNCHANGED <<wish, letter, profile, commission, deskCalls>>
  BY <1>2 DEF WriteAddress
<1>4. \/ UNCHANGED address
      \/ \E a \in Places : /\ address[a].owner \in {NoOne, u}
                           /\ address' = [address EXCEPT ![a] = new]
  <2>1. CASE caller[d].pc = "create"
    BY <1>2, <2>1 DEF WriteAddress
  <2>2. CASE caller[d].pc = "update"
    <3>1. caller[d].place \in Places
      BY <2>2 DEF CallersKnow
    <3>. QED
      BY <1>2, <2>2, <3>1 DEF WriteAddress
  <2>. QED
    BY <1>1, <2>1, <2>2
<1>5. AtRest \in CallerRow /\ AtRest.pc = "idle"
  BY DEF AtRest, CallerRow
<1>6. \A e \in Callers : caller'[e] = IF e = d THEN AtRest ELSE caller[e]
  BY <1>3 DEF DeskTypeOK
<1>7. DeskTypeOK'
  <2>1. new \in [owner : Customers \cup {NoOne}, default : BOOLEAN, gone : BOOLEAN]
    BY DEF DeskTypeOK
  <2>2. address' \in [Places -> [owner : Customers \cup {NoOne}, default : BOOLEAN, gone : BOOLEAN]]
    BY <1>4, <2>1 DEF DeskTypeOK
  <2>3. caller' \in [Callers -> CallerRow]
    BY <1>3, <1>5 DEF DeskTypeOK, CallerRow
  <2>4. crossed' \subseteq Customers
    BY <1>3 DEF DeskTypeOK
  <2>. QED
    BY <1>3, <2>2, <2>3, <2>4 DEF DeskTypeOK, CallerRow
<1>8. CallersKnow'
  BY <1>5, <1>6 DEF CallersKnow
<1>9. ASSUME NEW v \in Customers \ crossed' PROVE OnlyDefault(v)'
  <2>1. v \notin crossed /\ OnlyDefault(v)
    BY <1>3, <1>9
  <2>2. \A e \in Callers : Chooses(e, v)' => e # d /\ Chooses(e, v)
    BY <1>5, <1>6 DEF Chooses
  <2>3. CASE v # u
    <3>1. \A a \in Places : Default(v, a)' => Default(v, a)
      BY <1>4, <2>3 DEF Default, DeskTypeOK
    <3>. QED
      BY <2>1, <2>2, <3>1 DEF OnlyDefault
  <2>4. CASE v = u
    <3>1. CASE ~caller[d].default \/ UNCHANGED address
      <4>1. \A a \in Places : Default(v, a)' => Default(v, a)
        BY <1>4, <3>1 DEF Default, DeskTypeOK
      <4>. QED
        BY <2>1, <2>2, <4>1 DEF OnlyDefault
    <3>2. CASE /\ caller[d].default
               /\ \E a \in Places : address' = [address EXCEPT ![a] = new]
      <4>1. \A e \in Callers : ~Chooses(e, v)'
        BY <1>3, <1>9, <2>2, <2>4, <3>2 DEF Chooses
      <4>2. \A a, b \in Places : Default(v, a)' /\ Default(v, b)' => a = b
        <5>1. \A a \in Places : ~Default(v, a)
          BY <1>1, <1>2, <2>1, <2>4, <3>2 DEF OnlyDefault, Chooses
        <5>2. PICK c \in Places : address' = [address EXCEPT ![c] = new]
          BY <3>2
        <5>3. \A a \in Places : Default(v, a)' => a = c
          BY <5>1, <5>2 DEF Default, DeskTypeOK
        <5>. QED
          BY <5>3
      <4>. QED
        BY <4>1, <4>2 DEF OnlyDefault
    <3>. QED
      BY <1>4, <3>1, <3>2
  <2>. QED
    BY <2>3, <2>4
<1>. QED
  BY <1>7, <1>8, <1>9

\* An address goes.
LEMMA RemoveAddressInv ==
  ASSUME DeskInv, NEW a \in Places, RemoveAddress(a)
  PROVE  DeskInv'
<1>1. /\ address' = [address EXCEPT ![a] = [owner |-> NoOne, default |-> FALSE, gone |-> TRUE]]
      /\ deskCalls' \in 0..MaxDeskCalls
      /\ UNCHANGED <<wish, letter, profile, commission, caller, crossed>>
  BY DeskAssumption DEF RemoveAddress, Answered, DeskInv, DeskTypeOK
<1>2. DeskTypeOK'
  BY <1>1 DEF DeskInv, DeskTypeOK
<1>3. \A u \in Customers, b \in Places : Default(u, b)' => Default(u, b)
  BY <1>1, DeskAssumption DEF DeskInv, DeskTypeOK, Default
<1>4. \A u \in Customers \ crossed : OnlyDefault(u)'
  BY <1>1, <1>3 DEF DeskInv, OnlyDefault, Chooses
<1>. QED
  BY <1>1, <1>2, <1>4 DEF DeskInv, CallersKnow

\* A call is broken off, or creates a profile.
LEMMA EndDeskInv ==
  ASSUME DeskInv, NEW d \in Callers, AbandonCaller(d) \/ CreateProfile(d)
  PROVE  DeskInv'
<1>1. /\ caller' = [caller EXCEPT ![d] = AtRest]
      /\ UNCHANGED <<address, wish, letter, commission, crossed, deskCalls>>
  BY DEF AbandonCaller, CreateProfile
<1>2. AtRest \in CallerRow /\ AtRest.pc = "idle"
  BY DEF AtRest, CallerRow
<1>3. profile' \in [Customers -> ReferralCodes \cup {NoOne}]
  BY DEF AbandonCaller, CreateProfile, DeskInv, DeskTypeOK
<1>4. caller' \in [Callers -> CallerRow]
  BY <1>1, <1>2 DEF DeskInv, DeskTypeOK, CallerRow
<1>5. DeskTypeOK'
  BY <1>1, <1>3, <1>4 DEF DeskInv, DeskTypeOK, CallerRow
<1>6. \A e \in Callers : caller'[e] = IF e = d THEN AtRest ELSE caller[e]
  BY <1>1 DEF DeskInv, DeskTypeOK
<1>. QED
  BY <1>1, <1>2, <1>5, <1>6, DeskStep

\* What the staff and the customers do besides leaves addresses alone.
LEMMA OtherDeskInv ==
  ASSUME DeskInv, UNCHANGED <<address, caller, crossed>>, DeskTypeOK'
  PROVE  DeskInv'
BY DeskStep

LEMMA DeskNextInv == DeskInv /\ [DeskNext]_DeskVars => DeskInv'
<1>. SUFFICES ASSUME DeskInv, [DeskNext]_DeskVars PROVE DeskInv'
  OBVIOUS
<1>1. ASSUME NEW d \in Callers,
             \/ StartAddress(d) \/ StartUpdate(d) \/ ClearDefault(d)
             \/ WriteAddress(d) \/ StartProfile(d) \/ CreateProfile(d)
             \/ AbandonCaller(d)
      PROVE  DeskInv'
  BY <1>1, StartAddressInv, StartUpdateInv, ClearDefaultInv, WriteAddressInv, StartProfileInv,
     EndDeskInv
<1>2. ASSUME NEW a \in Places, RemoveAddress(a) PROVE DeskInv'
  BY <1>2, RemoveAddressInv
<1>3. ASSUME NEW u \in Customers, NEW w \in Wishes, AddWish(u, w) \/ RemoveWish(u, w)
      PROVE  DeskInv'
  <2>1. DeskTypeOK'
    BY <1>3, DeskAssumption DEF DeskInv, DeskTypeOK, AddWish, RemoveWish, Answered
  <2>2. UNCHANGED <<address, caller, crossed>>
    BY <1>3 DEF AddWish, RemoveWish
  <2>. QED
    BY <2>1, <2>2, OtherDeskInv
<1>4. ASSUME NEW l \in Letters,
             \/ Send(l) \/ RemoveLetter(l)
             \/ \E s \in {"new", "reviewed", "closed"} : SetLetterStatus(l, s)
      PROVE  DeskInv'
  <2>1. DeskTypeOK'
    BY <1>4, DeskAssumption DEF DeskInv, DeskTypeOK, Send, RemoveLetter, SetLetterStatus, Answered
  <2>2. UNCHANGED <<address, caller, crossed>>
    BY <1>4 DEF Send, RemoveLetter, SetLetterStatus
  <2>. QED
    BY <2>1, <2>2, OtherDeskInv
<1>5. ASSUME NEW k \in Commissions, AddCommission(k) \/ SetCommissionStatus(k)
      PROVE  DeskInv'
  <2>1. DeskTypeOK'
    BY <1>5, DeskAssumption
       DEF DeskInv, DeskTypeOK, AddCommission, SetCommissionStatus, Answered
  <2>2. UNCHANGED <<address, caller, crossed>>
    BY <1>5 DEF AddCommission, SetCommissionStatus
  <2>. QED
    BY <2>1, <2>2, OtherDeskInv
<1>6. CASE UNCHANGED DeskVars
  <2>1. DeskTypeOK' /\ UNCHANGED <<address, caller, crossed>>
    BY <1>6 DEF DeskVars, DeskInv, DeskTypeOK
  <2>. QED
    BY <2>1, OtherDeskInv
<1>. QED
  BY <1>1, <1>2, <1>3, <1>4, <1>5, <1>6 DEF DeskNext

\* Of a customer's addresses (createAddress, updateAddress) one at most is the
\* default, unless two calls have chosen one at the same time.
THEOREM AtMostOneDefault == DeskSpec => []OneDefaultAddress
<1>1. DeskInv => OneDefaultAddress
  <2>. SUFFICES ASSUME DeskInv, NEW u \in Customers \ crossed
                PROVE  Cardinality({a \in Places : address[a].owner = u /\ address[a].default}) <= 1
    BY DEF OneDefaultAddress
  <2>. DEFINE D == {a \in Places : address[a].owner = u /\ address[a].default}
  <2>1. \A a, b \in D : a = b
    BY DEF DeskInv, OnlyDefault, Default
  <2>. SUFFICES Cardinality(D) <= 1
    OBVIOUS
  <2>. HIDE DEF D
  <2>2. CASE D = {}
    BY <2>2, FS_EmptySet
  <2>3. CASE D # {}
    <3>1. PICK a \in D : TRUE
      BY <2>3
    <3>2. D = {a}
      BY <2>1, <3>1
    <3>3. Cardinality({a}) = 1
      BY FS_Singleton
    <3>. QED
      BY <3>2, <3>3
  <2>. QED
    BY <2>2, <2>3
<1>. QED
  BY <1>1, DeskInitInv, DeskNextInv, PTL DEF DeskSpec
-----------------------------------------------------------------------------
(* Editorial: edits, and what the activity log says of them.               *)

\* What a call says it writes: a row to restore, or a form.
Says(s, patch) == IF s.what \in {"restore", "recreate"} THEN patch \in RowType ELSE patch \in Form

\* Secrets about to be written are not all masked, where the schema adds nothing.
SecretsKnown(secrets) ==
    \/ secrets = Unset
    \/ /\ secrets \in [config : Configs, parts : Secrets]
       /\ secrets.config \in Defaulted \/ \E x \in Parts : secrets.parts[x] = "real"

ChangeKnown(s) ==
    s.pc # "idle" =>
        /\ s.record \in Records /\ s.what # "none" /\ Says(s, s.patch) /\ Says(s, s.sent)
        /\ KindOf[s.record] # "coupon" => s.patch = s.sent
        /\ KindOf[s.record] = "plain" => s.what \in {"update", "remove"}
        /\ SecretsKnown(s.secrets)

ChangesKnow == \A e \in Editors : ChangeKnown(editor[e])

\* A call that is about to log has replaced the row it read, or its record is stale.
SeenWasThere ==
    \A e \in Editors : editor[e].pc = "log" /\ editor[e].record \notin stale =>
        editor[e].seen = editor[e].was

\* The inductive invariant.
EditorialInv == EditorialTypeOK /\ EditsStand /\ ChangesKnow /\ SeenWasThere

LEMMA EditorialRecords ==
    /\ Nothing \in Form /\ Fresh \in RowType /\ Gone \in RowType
    /\ Reading \in Change /\ Reading.pc = "idle"
<1>1. Nothing \in Form
  BY DEF Nothing, Form
<1>2. Fresh \in RowType
  BY <1>1 DEF Fresh, RowType, Form
<1>3. Gone \in RowType
  BY <1>2 DEF Gone, RowType
<1>4. Reading \in Change /\ Reading.pc = "idle"
  BY <1>1, <1>3 DEF Reading, Change
<1>. QED
  BY <1>1, <1>2, <1>3, <1>4

\* A form laid over columns, or over a draft.
LEMMA OverTyped ==
  ASSUME NEW new \in Form
  PROVE  /\ \A old \in [Fields -> Nat] : Over(old, new) \in [Fields -> Nat]
         /\ \A old \in Form : Over(old, new) \in Form
BY DEF Over, Form

\* What a call makes of a row is a row.
LEMMA AppliedRow ==
  ASSUME NEW s, s.what \in {"settings", "update", "draft", "publish", "discard", "remove",
                            "restore", "recreate"},
         Says(s, s.patch), NEW base \in RowType, NEW old \in RowType
  PROVE  Applied(s, base, old) \in RowType
<1>1. /\ base.live \in [Fields -> Nat] /\ base.draft \in Form
      /\ old.live \in [Fields -> Nat] /\ old.draft \in Form /\ old.exists \in BOOLEAN
  BY DEF RowType, Form
<1>2. CASE s.what = "settings"
  <2>1. Over(base.live, s.patch) \in [Fields -> Nat]
    BY <1>1, <1>2, OverTyped DEF Says
  <2>. QED
    BY <1>1, <1>2, <2>1 DEF Applied, RowType, Form
<1>3. CASE s.what = "update"
  <2>1. Over(old.live, s.patch) \in [Fields -> Nat]
    BY <1>1, <1>3, OverTyped DEF Says
  <2>. QED
    BY <1>1, <1>3, <2>1 DEF Applied, RowType, Form
<1>4. CASE s.what = "draft"
  <2>1. Over(base.draft, s.patch) \in Form
    BY <1>1, <1>4, OverTyped DEF Says
  <2>. QED
    BY <1>1, <1>4, <2>1 DEF Applied, RowType, Form
<1>5. CASE s.what = "publish"
  <2>1. Over(old.live, base.draft) \in [Fields -> Nat]
    BY <1>1, OverTyped
  <2>. QED
    BY <1>1, <1>5, <2>1, EditorialRecords DEF Applied, RowType, Form
<1>6. CASE s.what = "discard"
  BY <1>1, <1>6, EditorialRecords DEF Applied, RowType, Form
<1>7. CASE s.what = "remove"
  BY <1>7, EditorialRecords DEF Applied
<1>8. CASE s.what \in {"restore", "recreate"}
  BY <1>8 DEF Applied, Says
<1>. QED
  BY <1>2, <1>3, <1>4, <1>5, <1>6, <1>7, <1>8

LEMMA EditorialInitInv == EditorialInit => EditorialInv
<1>. SUFFICES ASSUME EditorialInit PROVE EditorialInv
  OBVIOUS
<1>1. /\ row \in [Records -> RowType] /\ asked = row /\ trail = <<>>
      /\ editor \in [Editors -> Change] /\ \A e \in Editors : editor[e].pc = "idle"
  BY EditorialRecords DEF EditorialInit
<1>2. secret \in [Configs -> Secrets] /\ \A c \in Configs : \E x \in Parts : secret[c][x] = "real"
  <2>1. [x \in Parts |-> "real"] \in Secrets
    BY DEF Secrets
  <2>2. secret = [c \in Configs |-> [x \in Parts |-> "real"]]
    BY DEF EditorialInit
  <2>3. PICK y : y \in Parts
    BY EditorialAssumption
  <2>4. \A c \in Configs : secret[c][y] = "real"
    BY <2>2, <2>3
  <2>5. secret \in [Configs -> Secrets]
    BY <2>1, <2>2
  <2>6. \A c \in Configs : \E x \in Parts : secret[c][x] = "real"
    BY <2>3, <2>4, Zenon
  <2>. QED
    BY <2>5, <2>6
<1>3. EditorialTypeOK
  <2>1. trail \in Seq(Entry) /\ stale \subseteq Records /\ changes \in 0..MaxChanges
    BY <1>1, EditorialAssumption DEF EditorialInit
  <2>. QED
    BY <1>1, <1>2, <2>1 DEF EditorialTypeOK
<1>. QED
  BY <1>1, <1>2, <1>3 DEF EditorialInv, EditsStand, ChangesKnow, ChangeKnown, SeenWasThere

\* A call begins: the rows, the secrets and the log stay.
LEMMA OpenStep ==
  ASSUME EditorialInv, NEW e \in Editors, NEW s \in Change, s.pc = "write", ChangeKnown(s),
         editor' = [editor EXCEPT ![e] = s], changes < MaxChanges, changes' = changes + 1,
         UNCHANGED <<row, secret, trail, asked, stale>>
  PROVE  EditorialInv'
<1>1. \A d \in Editors : editor'[d] = IF d = e THEN s ELSE editor[d]
  BY DEF EditorialInv, EditorialTypeOK
<1>2. EditorialTypeOK'
  BY EditorialAssumption DEF EditorialInv, EditorialTypeOK
<1>3. EditsStand'
  BY DEF EditorialInv, EditsStand
<1>4. ChangesKnow' /\ SeenWasThere'
  BY <1>1 DEF EditorialInv, ChangesKnow, SeenWasThere
<1>. QED
  BY <1>2, <1>3, <1>4 DEF EditorialInv

\* What a call may be opened with.
MayOpen(what, r, patch, sent, secrets) ==
    /\ what \in {"settings", "update", "draft", "publish", "discard", "remove", "restore", "recreate"}
    /\ r \in Records
    /\ what \in {"restore", "recreate"} => patch \in RowType /\ sent \in RowType
    /\ what \notin {"restore", "recreate"} => patch \in Form /\ sent \in Form
    /\ KindOf[r] # "coupon" => patch = sent
    /\ KindOf[r] = "plain" => what \in {"update", "remove"}
    /\ SecretsKnown(secrets)

\* Such a call is known for what it is.
LEMMA OpenedKnown ==
  ASSUME NEW s \in Change, MayOpen(s.what, s.record, s.patch, s.sent, s.secrets)
  PROVE  ChangeKnown(s)
BY DEF ChangeKnown, Says, MayOpen

\* What Begin does.
LEMMA BeginInv ==
  ASSUME EditorialInv, NEW e \in Editors, NEW what, NEW r, NEW patch, NEW sent, NEW secrets,
         MayOpen(what, r, patch, sent, secrets), Begin(e, what, r, patch, sent, secrets)
  PROVE  EditorialInv'
<1>. DEFINE s == [Reading EXCEPT !.pc = "write", !.what = what, !.record = r, !.patch = patch,
                                 !.sent = sent, !.secrets = secrets, !.seen = row[r]]
<1>1. /\ row[r] \in RowType /\ r \in Records /\ patch \in Form \cup RowType
      /\ sent \in Form \cup RowType
      /\ secrets \in [config : Configs, parts : Secrets] \cup {Unset}
      /\ what \in {"none", "settings", "update", "draft", "publish", "discard", "remove",
                   "restore", "recreate"}
  BY DEF EditorialInv, EditorialTypeOK, MayOpen, SecretsKnown
<1>2. s \in Change
  BY <1>1, EditorialRecords DEF Change
<1>3. /\ s.pc = "write" /\ s.what = what /\ s.record = r /\ s.patch = patch /\ s.sent = sent
      /\ s.secrets = secrets
  BY DEF Reading
<1>4. /\ editor' = [editor EXCEPT ![e] = s] /\ changes < MaxChanges /\ changes' = changes + 1
      /\ UNCHANGED <<row, secret, trail, asked, stale>>
  BY DEF Begin
<1>. HIDE DEF s
<1>. QED
  BY <1>2, <1>3, <1>4, OpenedKnown, OpenStep

LEMMA OpenInv ==
  ASSUME EditorialInv, NEW e \in Editors, NEW r \in Records, NEW patch \in Form,
         NEW what \in {"update", "draft", "publish", "discard", "remove"},
         KindOf[r] = "plain" => what \in {"update", "remove"},
         Open(e, r, what, patch)
  PROVE  EditorialInv'
<1>1. MayOpen(what, r, patch, patch, Unset)
  BY DEF MayOpen, SecretsKnown
<1>. QED
  BY <1>1, BeginInv DEF Open

LEMMA OpenCouponInv ==
  ASSUME EditorialInv, NEW e \in Editors, OpenCoupon(e)
  PROVE  EditorialInv'
<1>1. PICK r \in Records, p \in Patches :
        KindOf[r] = "coupon" /\ Begin(e, "update", r, Filled(p), p, Unset)
  BY DEF OpenCoupon
<1>2. p \in Form
  BY EditorialAssumption DEF Form
<1>3. Filled(p) \in Form
  <2>1. Fresh.live \in [Fields -> Nat]
    BY EditorialRecords DEF RowType
  <2>2. Over(Fresh.live, p) \in [Fields -> Nat]
    BY <1>2, <2>1, OverTyped
  <2>. QED
    BY <2>2 DEF Filled, Form
<1>4. MayOpen("update", r, Filled(p), p, Unset)
  BY <1>1, <1>2, <1>3 DEF MayOpen, SecretsKnown
<1>. QED
  BY <1>1, <1>4, BeginInv

\* A mask is never taken for a secret.
LEMMA SecretsReal ==
  ASSUME NEW c \in Configs, NEW f \in SecretForms
  PROVE  SecretsKnown(SecretsToWrite(c, f))
<1>1. f \in Secrets
  BY EditorialAssumption DEF Secrets
<1>2. CASE c \notin Defaulted /\ \A x \in Parts : f[x] # "real"
  <2>1. \A x \in Parts : f[x] = "masked"
    BY <1>1, <1>2 DEF Secrets
  <2>2. {f[x] : x \in Parts} = {"masked"}
    BY <2>1, EditorialAssumption
  <2>3. Arrived(c, f) = {"masked"}
    BY <1>2, <2>2 DEF Arrived
  <2>. QED
    BY <2>3 DEF SecretsToWrite, SecretsKnown
<1>3. CASE c \in Defaulted \/ \E x \in Parts : f[x] = "real"
  <2>1. [config |-> c, parts |-> f] \in [config : Configs, parts : Secrets]
    BY <1>1
  <2>. QED
    BY <1>3, <2>1 DEF SecretsToWrite, SecretsKnown
<1>. QED
  BY <1>2, <1>3

LEMMA OpenSettingsInv ==
  ASSUME EditorialInv, NEW e \in Editors, OpenSettings(e)
  PROVE  EditorialInv'
<1>1. PICK r \in Records, p \in Patches, c \in Configs, f \in SecretForms :
        KindOf[r] = "settings" /\ Begin(e, "settings", r, p, p, SecretsToWrite(c, f))
  BY DEF OpenSettings
<1>2. p \in Form
  BY EditorialAssumption DEF Form
<1>3. MayOpen("settings", r, p, p, SecretsToWrite(c, f))
  BY <1>1, <1>2, SecretsReal DEF MayOpen
<1>. QED
  BY <1>1, <1>3, BeginInv

LEMMA OpenRestoreInv ==
  ASSUME EditorialInv, NEW e \in Editors, OpenRestore(e)
  PROVE  EditorialInv'
<1>1. PICK i \in DOMAIN trail, what \in {"restore", "recreate"} :
        /\ KindOf[trail[i].record] \in {"settings", "section"}
        /\ Begin(e, what, trail[i].record, trail[i].before, trail[i].before, Unset)
  BY DEF OpenRestore
<1>2. trail[i] \in Entry
  BY DEF EditorialInv, EditorialTypeOK
<1>3. trail[i].record \in Records /\ trail[i].before \in RowType
  BY <1>2 DEF Entry
<1>4. MayOpen(what, trail[i].record, trail[i].before, trail[i].before, Unset)
  BY <1>1, <1>3 DEF MayOpen, SecretsKnown
<1>. QED
  BY <1>1, <1>4, BeginInv

\* What Applied makes of rows depends on the kind of change and on its patch.
LEMMA AppliedSame ==
  ASSUME NEW s, NEW t, s.what = t.what, s.patch = t.patch, NEW base, NEW old
  PROVE  Applied(s, base, old) = Applied(t, base, old)
BY DEF Applied

\* A plain row's columns come from its columns and the patch alone.
LEMMA PlainLive ==
  ASSUME NEW s, NEW t, s.what = t.what, s.patch = t.patch, s.what \in {"update", "remove"},
         NEW b1, NEW b2, NEW o1 \in RowType, NEW o2 \in RowType, o1.live = o2.live
  PROVE  Applied(s, b1, o1).live = Applied(t, b2, o2).live
<1>1. CASE s.what = "remove"
  BY <1>1 DEF Applied
<1>2. CASE s.what = "update"
  <2>1. /\ Applied(s, b1, o1) = [o1 EXCEPT !.live = Over(o1.live, s.patch)]
        /\ Applied(t, b2, o2) = [o2 EXCEPT !.live = Over(o2.live, t.patch)]
    BY <1>2 DEF Applied
  <2>. QED
    BY <2>1 DEF RowType
<1>. QED
  BY <1>1, <1>2

\* The write.  A call that has read what it replaces makes of the row what it was
\* asked to; another makes its record stale.
LEMMA WriteInv ==
  ASSUME EditorialInv, NEW e \in Editors, Write(e)
  PROVE  EditorialInv'
<1>. USE DEF EditorialInv
<1>1. PICK call \in Change : call = editor[e]
  BY DEF EditorialTypeOK
<1>2. call.pc = "write" /\ ChangeKnown(call)
  BY <1>1 DEF Write, ChangesKnow
<1>3. PICK r \in Records : r = call.record
  BY <1>2 DEF ChangeKnown
<1>. DEFINE sent == [call EXCEPT !.patch = call.sent]
            N == NewRow(call, row[r])
            A == Applied(sent, asked[r], asked[r])
            s == [call EXCEPT !.pc = "log", !.wrote = N, !.was = row[r]]
<1>4. /\ row[r] \in RowType /\ asked[r] \in RowType /\ call.seen \in RowType
      /\ call.what \in {"settings", "update", "draft", "publish", "discard", "remove",
                       "restore", "recreate"}
  BY <1>2 DEF EditorialTypeOK, Change, ChangeKnown
<1>5. sent.what = call.what /\ sent.patch = call.sent
  BY DEF Change
<1>6. N \in RowType
  BY <1>2, <1>4, AppliedRow DEF NewRow, ChangeKnown
<1>7. A \in RowType
  <2>1. Says(sent, sent.patch)
    BY <1>2, <1>5 DEF ChangeKnown, Says
  <2>. HIDE DEF sent
  <2>. QED
    BY <1>4, <1>5, <2>1, AppliedRow
<1>8. r \notin stale /\ call.seen = row[r] /\ KindOf[r] # "coupon" => N = A
  <2>. SUFFICES ASSUME r \notin stale, call.seen = row[r], KindOf[r] # "coupon" PROVE N = A
    OBVIOUS
  <2>1. row[r] = asked[r] /\ call.patch = call.sent
    BY <1>2, <1>3 DEF EditsStand, ChangeKnown
  <2>. HIDE DEF sent
  <2>. QED
    BY <1>5, <2>1, AppliedSame DEF NewRow
<1>9. KindOf[r] = "plain" => N.live = A.live
  <2>. SUFFICES ASSUME KindOf[r] = "plain" PROVE N.live = A.live
    OBVIOUS
  <2>1. /\ row[r].live = asked[r].live /\ call.patch = call.sent
        /\ call.what \in {"update", "remove"}
    BY <1>2, <1>3 DEF EditsStand, ChangeKnown
  <2>. HIDE DEF sent
  <2>. QED
    BY <1>4, <1>5, <2>1, PlainLive DEF NewRow
<1>10. /\ row' = [row EXCEPT ![r] = N] /\ asked' = [asked EXCEPT ![r] = A]
       /\ secret' = IF call.secrets = Unset THEN secret
                    ELSE [secret EXCEPT ![call.secrets.config] = call.secrets.parts]
       /\ stale' = IF call.seen # row[r] THEN stale \cup {r} ELSE stale
       /\ UNCHANGED <<trail, changes>>
  BY <1>1, <1>3 DEF Write
<1>11. editor' = [editor EXCEPT ![e] = s]
  <2>1. row'[r] = N
    BY <1>10 DEF EditorialTypeOK
  <2>2. editor' = [editor EXCEPT ![e].pc = "log", ![e].wrote = N, ![e].was = row[r]]
    BY <1>1, <1>3, <2>1 DEF Write
  <2>. HIDE DEF N
  <2>. QED
    BY <1>1, <2>2 DEF EditorialTypeOK
<1>. HIDE DEF N, A, sent
<1>12. /\ s \in Change /\ s.pc = "log" /\ s.what = call.what /\ s.record = r /\ s.patch = call.patch
       /\ s.sent = call.sent /\ s.secrets = call.secrets /\ s.seen = call.seen /\ s.was = row[r]
  BY <1>3, <1>4, <1>6 DEF Change
<1>. HIDE DEF s
<1>13. \A d \in Editors : editor'[d] = IF d = e THEN s ELSE editor[d]
  BY <1>11 DEF EditorialTypeOK
<1>14. \A q \in Records : /\ row'[q] = IF q = r THEN N ELSE row[q]
                          /\ asked'[q] = IF q = r THEN A ELSE asked[q]
  BY <1>10 DEF EditorialTypeOK
<1>15. EditorialTypeOK'
  <2>1. secret' \in [Configs -> Secrets]
    <3>1. SecretsKnown(call.secrets)
      BY <1>2 DEF ChangeKnown
    <3>. QED
      BY <1>10, <3>1 DEF EditorialTypeOK, SecretsKnown
  <2>2. stale' \subseteq Records
    BY <1>10 DEF EditorialTypeOK
  <2>. QED
    BY <1>6, <1>7, <1>10, <1>11, <1>12, <2>1, <2>2 DEF EditorialTypeOK
<1>16. EditsStand'
  <2>1. stale \subseteq stale' /\ (r \notin stale' => call.seen = row[r])
    BY <1>10
  <2>2. \A q \in Records \ stale' : KindOf[q] # "coupon" => row'[q] = asked'[q]
    BY <1>8, <1>14, <2>1 DEF EditsStand
  <2>3. \A q \in Records : KindOf[q] = "plain" => row'[q].live = asked'[q].live
    BY <1>9, <1>14 DEF EditsStand
  <2>4. \A c \in Configs \ Defaulted : \E x \in Parts : secret'[c][x] = "real"
    <3>1. SecretsKnown(call.secrets)
      BY <1>2 DEF ChangeKnown
    <3>. QED
      BY <1>10, <3>1 DEF EditorialTypeOK, EditsStand, SecretsKnown
  <2>. QED
    BY <1>10, <2>1, <2>2, <2>3, <2>4 DEF EditsStand
<1>17. ChangesKnow'
  <2>1. ChangeKnown(s)
    BY <1>2, <1>3, <1>12 DEF ChangeKnown, Says
  <2>. QED
    BY <1>13, <2>1 DEF ChangesKnow
<1>18. SeenWasThere'
  BY <1>10, <1>12, <1>13 DEF SeenWasThere
<1>. QED
  BY <1>15, <1>16, <1>17, <1>18

\* An entry of the log tells the row that was replaced.
LEMMA LogInv ==
  ASSUME EditorialInv, NEW e \in Editors, Log(e)
  PROVE  EditorialInv'
<1>. USE DEF EditorialInv
<1>1. PICK call \in Change : call = editor[e]
  BY DEF EditorialTypeOK
<1>2. call.pc = "log" /\ call.record \in Records
  BY <1>1 DEF Log, ChangesKnow, ChangeKnown
<1>. DEFINE new == [record |-> call.record, before |-> call.seen, after |-> call.wrote,
                    was |-> call.was]
<1>3. new \in Entry
  BY <1>2 DEF Entry, Change
<1>4. new.record \notin stale => new.before = new.was
  BY <1>1, <1>2 DEF SeenWasThere
<1>5. /\ trail' = trail \/ trail' = Append(trail, new)
      /\ editor' = [editor EXCEPT ![e] = Reading]
      /\ UNCHANGED <<row, secret, asked, stale, changes>>
  BY <1>1 DEF Log
<1>. HIDE DEF new
<1>6. EditorialTypeOK'
  BY <1>3, <1>5, EditorialRecords DEF EditorialTypeOK
<1>7. \A i \in DOMAIN trail' : trail'[i].record \notin stale => trail'[i].before = trail'[i].was
  <2>1. CASE trail' = Append(trail, new)
    <3>1. \A i \in DOMAIN trail' : (i \in DOMAIN trail /\ trail'[i] = trail[i]) \/ trail'[i] = new
      BY <1>3, <2>1 DEF EditorialTypeOK
    <3>. QED
      BY <1>4, <3>1 DEF EditsStand
  <2>. QED
    BY <1>5, <2>1 DEF EditsStand
<1>8. EditsStand'
  BY <1>5, <1>7 DEF EditsStand
<1>9. \A d \in Editors : editor'[d] = IF d = e THEN Reading ELSE editor[d]
  BY <1>5 DEF EditorialTypeOK
<1>10. ChangesKnow' /\ SeenWasThere'
  BY <1>5, <1>9, EditorialRecords DEF ChangesKnow, ChangeKnown, SeenWasThere
<1>. QED
  BY <1>6, <1>8, <1>10

LEMMA AbandonChangeInv ==
  ASSUME EditorialInv, NEW e \in Editors, AbandonChange(e)
  PROVE  EditorialInv'
<1>1. /\ editor' = [editor EXCEPT ![e] = Reading]
      /\ UNCHANGED <<row, secret, trail, asked, stale, changes>>
  BY DEF AbandonChange
<1>2. EditorialTypeOK' /\ EditsStand'
  BY <1>1, EditorialRecords DEF EditorialInv, EditorialTypeOK, EditsStand
<1>3. \A d \in Editors : editor'[d] = IF d = e THEN Reading ELSE editor[d]
  BY <1>1 DEF EditorialInv, EditorialTypeOK
<1>4. ChangesKnow' /\ SeenWasThere'
  BY <1>1, <1>3, EditorialRecords DEF EditorialInv, ChangesKnow, ChangeKnown, SeenWasThere
<1>. QED
  BY <1>2, <1>4 DEF EditorialInv

LEMMA CreateRecordInv ==
  ASSUME EditorialInv, NEW r \in Records, CreateRecord(r)
  PROVE  EditorialInv'
<1>1. /\ row' = [row EXCEPT ![r] = Fresh] /\ asked' = [asked EXCEPT ![r] = Fresh]
      /\ changes < MaxChanges /\ changes' = changes + 1
      /\ UNCHANGED <<secret, trail, editor, stale>>
  BY DEF CreateRecord
<1>2. EditorialTypeOK'
  BY <1>1, EditorialRecords, EditorialAssumption DEF EditorialInv, EditorialTypeOK
<1>3. EditsStand'
  BY <1>1 DEF EditorialInv, EditorialTypeOK, EditsStand
<1>4. ChangesKnow' /\ SeenWasThere'
  BY <1>1 DEF EditorialInv, ChangesKnow, SeenWasThere
<1>. QED
  BY <1>2, <1>3, <1>4 DEF EditorialInv

LEMMA EditorialNextInv == EditorialInv /\ [EditorialNext]_EditorialVars => EditorialInv'
<1>. SUFFICES ASSUME EditorialInv, [EditorialNext]_EditorialVars PROVE EditorialInv'
  OBVIOUS
<1>1. Patches \subseteq Form
  BY EditorialAssumption DEF Form
<1>2. ASSUME NEW e \in Editors, OpenUpdate(e) PROVE EditorialInv'
  <2>1. PICK r \in Records, p \in Patches : Open(e, r, "update", p)
    BY <1>2 DEF OpenUpdate
  <2>. QED
    BY <1>1, <2>1, OpenInv
<1>3. ASSUME NEW e \in Editors, OpenDraft(e) PROVE EditorialInv'
  <2>1. PICK r \in Records : /\ KindOf[r] = "section"
                            /\ \/ \E p \in Patches : Open(e, r, "draft", p)
                               \/ Open(e, r, "publish", Nothing) \/ Open(e, r, "discard", Nothing)
    BY <1>3 DEF OpenDraft
  <2>. QED
    BY <1>1, <2>1, EditorialRecords, OpenInv
<1>4. ASSUME NEW e \in Editors, OpenRemove(e) PROVE EditorialInv'
  <2>1. PICK r \in Records : Open(e, r, "remove", Nothing)
    BY <1>4 DEF OpenRemove
  <2>. QED
    BY <2>1, EditorialRecords, OpenInv
<1>5. CASE UNCHANGED EditorialVars
  BY <1>5 DEF EditorialVars, EditorialInv, EditorialTypeOK, EditsStand, ChangesKnow, SeenWasThere
<1>. QED
  BY <1>2, <1>3, <1>4, <1>5, OpenCouponInv, OpenSettingsInv, OpenRestoreInv, WriteInv, LogInv,
     AbandonChangeInv, CreateRecordInv DEF EditorialNext

\* Edits of different fields stand (settings.service, homepage.service and the
\* plain rows' updates), however many calls cross, unless one wrote over a row
\* it had not read; a form of masks takes no secret, except of a configuration
\* whose schema adds a field (smtpConfig), and the activity log tells what each
\* change replaced.
THEOREM EditsAlwaysStand == EditorialSpec => []EditsStand
<1>1. EditorialInv => EditsStand
  BY DEF EditorialInv
<1>. QED
  BY <1>1, EditorialInitInv, EditorialNextInv, PTL DEF EditorialSpec
-----------------------------------------------------------------------------
(* Bootstrap: what boots leave of the starter content.                     *)

\* What a bootstrap that is past a step has done there, unless the shop has been
\* edited since; in a loop, for all but what it has still to go through.
Wanted == Keyed \ (IF boot.skip THEN OfCatalog ELSE {})
AllRows == Wanted \subseteq keyed
AllNamed == boot.skip \/ \A n \in Starters : Named(n) # {}
AllPhotos == ToBackfill = {} /\ ToUpgrade = {}
HeroShown == section["hero_banner"].exists /\ section["hero_banner"].config # "none"
AdShown == section["trending_products"].exists => section["ad_banner"].exists

OnSections == {"sections", "lowest", "insert", "hero", "shift", "room", "ad", "rehost"}

Progress ==
    /\ boot.pc = "rows" => Wanted \ boot.todo \subseteq keyed
    /\ boot.pc \in {"products", "backfill", "upgrade"} \cup OnSections => AllRows
    /\ boot.pc = "products" => boot.skip \/ \A n \in Starters \ boot.todo : Named(n) # {}
    /\ boot.pc \in {"backfill", "upgrade"} \cup OnSections => AllNamed
    /\ boot.pc = "backfill" => boot.todo = ToBackfill
    /\ boot.pc = "upgrade" => ToBackfill = {} /\ boot.todo = ToUpgrade
    /\ boot.pc \in OnSections => AllPhotos

\* On the sections; the position that was read is still right.
HeroProgress ==
    /\ boot.pc \in {"lowest", "insert"} => ~section["hero_banner"].exists
    /\ boot.pc = "hero" => /\ section["hero_banner"].exists
                          /\ section["hero_banner"].config = "none"
    /\ boot.pc \in {"shift", "room", "ad", "rehost"} => HeroShown

AdProgress ==
    /\ boot.pc \in {"room", "ad"} => /\ section["trending_products"].exists
                                   /\ ~section["ad_banner"].exists
    /\ boot.pc = "room" => Place("trending_products") = boot.at
    /\ boot.pc = "ad" => Place("trending_products") = boot.at + 1
    /\ boot.pc = "rehost" => AdShown

\* What a loop has still to go through, and what every boot begins with.
Listed ==
    /\ boot.pc = "rows" => boot.todo \subseteq Wanted
    /\ boot.pc = "products" => boot.todo \subseteq Starters /\ (boot.skip => boot.todo = {})
    /\ boot.pc \in {"backfill", "upgrade"} => boot.todo \subseteq Slugs
    /\ boot.pc # "off" => Basics \subseteq keyed

\* What the next bootstrap finds after one that got through: a complete shop, or
\* one that has grown and keeps being left alone.
Grown == Cardinality(There) > GrownAt
Complete == Keyed \subseteq keyed /\ \A n \in Starters : Named(n) # {}

Rested ==
    /\ AllPhotos /\ HeroShown /\ AdShown
    /\ \/ Complete
       \/ Keyed \ OfCatalog \subseteq keyed /\ Grown /\ (boot.pc # "off" => boot.skip)

\* Positions stay within some bound, so that there is a lowest and a highest.
PlacesBounded == \E b \in Nat : \A t \in Sections : -b <= Place(t) /\ Place(t) <= b

\* The inductive invariant.
BootInv ==
    /\ BootTypeOK /\ PlacesBounded /\ Listed
    /\ standing # "edited" => Progress /\ HeroProgress /\ AdProgress /\ (boot.skip => Grown)
    /\ standing = "settled" => Rested

\* A bounded set of integers has a least element, and a greatest.
LEMMA LowestIn ==
  ASSUME NEW S, S # {}, NEW b \in Nat, \A x \in S : x \in Int /\ -b <= x
  PROVE  Min(S) \in S
<1>. DEFINE T == {x + b : x \in S}
<1>1. T \subseteq Nat /\ T # {}
  OBVIOUS
<1>2. PICK m \in T : \A n \in T : <<n, m>> \notin OpToRel(<, Nat)
  <2>. HIDE DEF T
  <2>. QED
    BY <1>1, WFMin, NatLessThanWellFounded
<1>3. \A n \in T : ~(n < m)
  <2>. HIDE DEF T
  <2>. QED
    BY <1>1, <1>2 DEF OpToRel
<1>4. PICK x \in S : m = x + b
  BY <1>2
<1>5. ASSUME NEW y \in S PROVE x <= y
  <2>1. y + b \in T
    BY <1>5
  <2>2. ~(y + b < x + b)
    BY <1>3, <1>4, <2>1
  <2>. QED
    BY <2>2
<1>. QED
  BY <1>5 DEF Min

LEMMA HighestIn ==
  ASSUME NEW S, S # {}, NEW b \in Nat, \A x \in S : x \in Int /\ x <= b
  PROVE  Max(S) \in S
<1>. DEFINE T == {b - x : x \in S}
<1>1. T \subseteq Nat /\ T # {}
  OBVIOUS
<1>2. PICK m \in T : \A n \in T : <<n, m>> \notin OpToRel(<, Nat)
  <2>. HIDE DEF T
  <2>. QED
    BY <1>1, WFMin, NatLessThanWellFounded
<1>3. \A n \in T : ~(n < m)
  <2>. HIDE DEF T
  <2>. QED
    BY <1>1, <1>2 DEF OpToRel
<1>4. PICK x \in S : m = b - x
  BY <1>2
<1>5. ASSUME NEW y \in S PROVE x >= y
  <2>1. b - y \in T
    BY <1>5
  <2>2. ~(b - y < b - x)
    BY <1>3, <1>4, <2>1
  <2>. QED
    BY <2>2
<1>. QED
  BY <1>5 DEF Max

LEMMA BootInitInv == BootInit => BootInv
<1>. SUFFICES ASSUME BootInit PROVE BootInv
  OBVIOUS
<1>1. NoGoods \in Goods /\ NoSection \in Section /\ NoSection.position = 0
  BY DEF NoGoods, Goods, Photos, NoSection, Section
<1>2. goods \in [Slugs -> Goods] /\ section \in [Sections -> Section]
  <2>1. \A x \in Slugs : (\E n \in Starters : SlugOf[n] = x) =>
                         (CHOOSE n \in Starters : SlugOf[n] = x) \in Starters
    OBVIOUS
  <2>2. goods \in [Slugs -> Goods]
    <3>1. \A n \in Starters : [name |-> n, photos |-> {"random"}] \in Goods
      BY DEF Goods, Photos
    <3>. QED
      BY <1>1, <2>1, <3>1 DEF BootInit
  <2>3. section \in [Sections -> Section]
    <3>1. \A x \in BOOLEAN : [NoSection EXCEPT !.exists = x] \in Section
      BY DEF NoSection, Section
    <3>2. \A t \in Sections : (t \notin {"hero_banner", "ad_banner"}) \in BOOLEAN
      OBVIOUS
    <3>3. \A t \in Sections :
              [NoSection EXCEPT !.exists = t \notin {"hero_banner", "ad_banner"}] \in Section
      BY <3>1, <3>2
    <3>. QED
      BY <1>1, <3>3 DEF BootInit
  <2>. QED
    BY <2>2, <2>3
<1>3. \A t \in Sections : Place(t) = 0
  BY <1>1 DEF BootInit, Place, NoSection
<1>4. PlacesBounded
  BY <1>3 DEF PlacesBounded
<1>5. boot \in Boot /\ boot.pc = "off"
  BY DEF BootInit, Off, Boot, Steps
<1>6. BootTypeOK
  BY <1>2, <1>5, BootstrapAssumption DEF BootInit, BootTypeOK
<1>7. Listed
  BY <1>5 DEF Listed
<1>. QED
  BY <1>4, <1>6, <1>7 DEF BootInit, BootInv

\* What only depends on goods stays with them, and what depends on sections with
\* those.
LEMMA GoodsStay ==
  ASSUME UNCHANGED goods
  PROVE  /\ There' = There /\ (\A n : Named(n)' = Named(n)) /\ (Grown' <=> Grown)
         /\ ToBackfill' = ToBackfill /\ ToUpgrade' = ToUpgrade /\ (AllPhotos' <=> AllPhotos)
<1>1. There' = There
  BY DEF There
<1>2. \A n : Named(n)' = Named(n)
  BY <1>1 DEF Named
<1>3. ToBackfill' = ToBackfill /\ ToUpgrade' = ToUpgrade
  BY <1>1 DEF ToBackfill, ToUpgrade
<1>. QED
  BY <1>1, <1>2, <1>3 DEF Grown, AllPhotos

LEMMA SectionsStay ==
  ASSUME UNCHANGED section
  PROVE  Shown' = Shown /\ (HeroShown' <=> HeroShown) /\ (AdShown' <=> AdShown) /\ (PlacesBounded' <=> PlacesBounded)
BY DEF Shown, HeroShown, AdShown, PlacesBounded, Place

\* An unchanged shop, and an edited one, satisfy what a step may do.
LEMMA ShopStays == UNCHANGED shop => OnlyAdds
BY BootstrapAssumption DEF shop, OnlyAdds, Shown, Place

LEMMA EditedShop ==
  ASSUME BootInv, NEW deleted, Edit(deleted),
         keyed' \subseteq Keyed, Basics \cap keyed \subseteq keyed', script' \subseteq Handles,
         goods' \in [Slugs -> Goods], section' \in [Sections -> Section], PlacesBounded'
  PROVE  BootInv' /\ OnlyAdds
<1>1. shopEdits' \in 0..MaxShopEdits /\ shopEdits' # shopEdits
  BY BootstrapAssumption DEF BootInv, BootTypeOK, Edit
<1>2. /\ boot' \in Boot /\ boot'.pc = boot.pc /\ boot'.skip = boot.skip /\ boot'.todo = boot.todo
  BY DEF BootInv, BootTypeOK, Boot, Edit
<1>3. BootTypeOK'
  BY <1>1, <1>2 DEF BootInv, BootTypeOK, Edit
<1>4. Listed'
  BY <1>2 DEF BootInv, Listed, Wanted
<1>. QED
  BY <1>1, <1>3, <1>4 DEF BootInv, OnlyAdds, Edit

\* Products are edited by hand, by the clean-ups and by the scripts.
LEMMA EditGoodsInv ==
  ASSUME BootInv, NEW x \in Slugs, EditGoods(x) \/ RestoreProduct(x)
  PROVE  BootInv' /\ OnlyAdds
<1>1. (\E deleted : Edit(deleted)) /\ UNCHANGED <<keyed, section, script>>
  BY DEF EditGoods, RestoreProduct
<1>2. goods \in [Slugs -> Goods]
  BY DEF BootInv, BootTypeOK
<1>3. goods' \in [Slugs -> Goods]
  <2>1. NoGoods \in Goods /\ \A p \in {{}, {"own"}} : [name |-> "own", photos |-> p] \in Goods
    BY DEF NoGoods, Goods, Photos
  <2>2. \A g \in Goods : /\ [g EXCEPT !.name = "own"] \in Goods
                         /\ \A p \in {{}, {"own"}, {"own"} \cup g.photos} : [g EXCEPT !.photos = p] \in Goods
    BY DEF Goods, Photos
  <2>3. \E g \in Goods : goods' = [goods EXCEPT ![x] = g]
    <3>1. CASE EditGoods(x)
      <4>1. CASE goods' = [goods EXCEPT ![x] = [name |-> "own", photos |-> {}]]
        BY <2>1, <4>1
      <4>2. CASE goods' = [goods EXCEPT ![x].name = "own"]
        BY <1>2, <2>2, <4>2
      <4>3. CASE \E p \in {{}, {"own"}, {"own"} \cup goods[x].photos} :
                    goods' = [goods EXCEPT ![x].photos = p]
        BY <1>2, <2>2, <4>3
      <4>4. CASE goods' = [goods EXCEPT ![x] = NoGoods]
        BY <2>1, <4>4
      <4>. QED
        BY <3>1, <4>1, <4>2, <4>3, <4>4 DEF EditGoods
    <3>2. CASE RestoreProduct(x)
      BY <2>1, <3>2 DEF RestoreProduct
    <3>. QED
      BY <3>1, <3>2
  <2>. QED
    BY <1>2, <2>3
<1>. QED
  BY <1>1, <1>3, EditedShop, SectionsStay DEF BootInv, BootTypeOK

LEMMA RemoveInv ==
  ASSUME BootInv, CleanUp \/ CleanUpByBrand \/ RemoveZombies
  PROVE  BootInv' /\ OnlyAdds
<1>1. PICK doomed : Remove(doomed)
  BY DEF CleanUp, CleanUpByBrand, RemoveZombies
<1>2. NoGoods \in Goods
  BY DEF NoGoods, Goods
<1>3. goods' \in [Slugs -> Goods]
  BY <1>1, <1>2 DEF BootInv, BootTypeOK, Remove
<1>4. Edit(doomed \ Sold) /\ UNCHANGED <<keyed, section, script>>
  BY <1>1 DEF Remove
<1>. QED
  BY <1>3, <1>4, EditedShop, SectionsStay DEF BootInv, BootTypeOK

LEMMA EnrichInv ==
  ASSUME BootInv, Enrich
  PROVE  BootInv' /\ OnlyAdds
<1>1. PICK matched : goods' = [x \in Slugs |-> IF x \in matched THEN [goods[x] EXCEPT !.photos = {"own"}]
                                               ELSE goods[x]]
  BY DEF Enrich
<1>2. \A g \in Goods : [g EXCEPT !.photos = {"own"}] \in Goods
  BY DEF Goods, Photos
<1>3. goods' \in [Slugs -> Goods]
  BY <1>1, <1>2 DEF BootInv, BootTypeOK
<1>4. Edit({}) /\ UNCHANGED <<keyed, section, script>>
  BY DEF Enrich
<1>. QED
  BY <1>3, <1>4, EditedShop, SectionsStay DEF BootInv, BootTypeOK

LEMMA ScriptInv ==
  ASSUME BootInv, StartScript \/ \E h \in Slugs : ScriptRow(h)
  PROVE  BootInv' /\ OnlyAdds
<1>1. CASE StartScript
  BY <1>1, EditedShop, SectionsStay DEF StartScript, shop, BootInv, BootTypeOK
<1>2. ASSUME NEW h \in Slugs, ScriptRow(h) PROVE BootInv' /\ OnlyAdds
  <2>1. [name |-> "own", photos |-> {"own"}] \in Goods
    BY DEF Goods, Photos
  <2>2. goods' \in [Slugs -> Goods]
    BY <1>2, <2>1 DEF BootInv, BootTypeOK, ScriptRow
  <2>3. script' # script /\ script' \subseteq Handles /\ standing' = "edited"
    BY <1>2 DEF BootInv, BootTypeOK, ScriptRow
  <2>4. BootTypeOK' /\ PlacesBounded' /\ Listed'
    BY <1>2, <2>2, <2>3, SectionsStay DEF BootInv, BootTypeOK, ScriptRow, Listed, Wanted
  <2>. QED
    BY <2>3, <2>4 DEF BootInv, OnlyAdds
<1>. QED
  BY <1>1, <1>2

LEMMA RemoveRowInv ==
  ASSUME BootInv, NEW k \in Keyed, RemoveRow(k)
  PROVE  BootInv' /\ OnlyAdds
BY EditedShop, SectionsStay DEF RemoveRow, BootInv, BootTypeOK

\* Sections written within a bound stay within one.
LEMMA StillBounded ==
  ASSUME NEW b \in Nat, \A t \in Sections : section'[t].position \in -b..b
  PROVE  PlacesBounded'
BY DEF PlacesBounded, Place

\* The shown positions have a lowest and a highest.
LEMMA EndsOfShown ==
  ASSUME BootTypeOK, PlacesBounded, Shown # {}
  PROVE  Min({Place(t) : t \in Shown}) \in Int /\ Max({Place(t) : t \in Shown}) \in Int
<1>. DEFINE S == {Place(t) : t \in Shown}
<1>1. PICK b \in Nat : \A t \in Sections : -b <= Place(t) /\ Place(t) <= b
  BY DEF PlacesBounded
<1>2. S # {} /\ \A x \in S : x \in Int /\ -b <= x /\ x <= b
  BY <1>1 DEF Shown, BootTypeOK, Section, Place
<1>. HIDE DEF S
<1>3. Min(S) \in S /\ Max(S) \in S
  BY <1>2, LowestIn, HighestIn
<1>4. Min(S) \in Int /\ Max(S) \in Int
  BY <1>2, <1>3
<1>. QED
  BY <1>4 DEF S

\* One section is written.
LEMMA PutTyped ==
  ASSUME BootTypeOK, PlacesBounded, NEW t \in Sections, NEW new \in Section,
         section' = [section EXCEPT ![t] = new]
  PROVE  section' \in [Sections -> Section] /\ PlacesBounded'
<1>1. section' \in [Sections -> Section]
  BY DEF BootTypeOK
<1>2. PICK b \in Nat : \A u \in Sections : -b <= Place(u) /\ Place(u) <= b
  BY DEF PlacesBounded
<1>3. new.position \in Int
  BY DEF Section
<1>. DEFINE p == new.position
<1>. HIDE DEF p
<1>4. PICK c \in Nat : b <= c /\ -c <= p /\ p <= c
  <2>0. p \in Int
    BY <1>3 DEF p
  <2>1. CASE p >= 0
    BY <2>0, <2>1
  <2>2. CASE p < 0
    <3>1. b + (0 - p) \in Nat
      BY <2>0, <2>2
    <3>. QED
      BY <2>0, <2>2, <3>1
  <2>. QED
    BY <2>0, <2>1, <2>2
<1>5. \A u \in Sections : section'[u].position \in -c..c
  BY <1>2, <1>3, <1>4 DEF BootTypeOK, Section, Place, p
<1>. QED
  BY <1>1, <1>5, StillBounded

LEMMA EditSectionsInv ==
  ASSUME BootInv, NEW t \in Sections, EditSections(t)
  PROVE  BootInv' /\ OnlyAdds
<1>1. (\E deleted : Edit(deleted)) /\ UNCHANGED <<keyed, goods, script>>
  BY DEF EditSections
<1>2. PICK b \in Nat : \A u \in Sections : -b <= Place(u) /\ Place(u) <= b
  BY DEF BootInv, PlacesBounded
<1>3. section \in [Sections -> Section] /\ \A u \in Sections : Place(u) \in -b..b
  BY <1>2 DEF BootInv, BootTypeOK, Section, Place
<1>4. CASE \/ section' = [section EXCEPT ![t] = NoSection]
           \/ section' = [section EXCEPT ![t].config = "own"]
           \/ section' = [section EXCEPT ![t] = [exists |-> TRUE, config |-> "none",
                  position |-> IF Shown = {} THEN 0 ELSE 1 + Max({Place(u) : u \in Shown})]]
  <2>1. \E new \in Section : section' = [section EXCEPT ![t] = new]
    <3>1. CASE section' = [section EXCEPT ![t] = NoSection]
      <4>1. NoSection \in Section
        BY DEF NoSection, Section
      <4>. QED
        BY <3>1, <4>1
    <3>2. CASE section' = [section EXCEPT ![t].config = "own"]
      <4>1. [section[t] EXCEPT !.config = "own"] \in Section
        BY <1>3 DEF Section
      <4>. QED
        BY <3>2, <4>1
    <3>3. CASE section' = [section EXCEPT ![t] = [exists |-> TRUE, config |-> "none",
                  position |-> IF Shown = {} THEN 0 ELSE 1 + Max({Place(u) : u \in Shown})]]
      <4>. DEFINE p == IF Shown = {} THEN 0 ELSE 1 + Max({Place(u) : u \in Shown})
      <4>1. p \in Int
        BY EndsOfShown DEF BootInv
      <4>. HIDE DEF p
      <4>2. [exists |-> TRUE, config |-> "none", position |-> p] \in Section
        BY <4>1 DEF Section
      <4>3. section' = [section EXCEPT ![t] = [exists |-> TRUE, config |-> "none", position |-> p]]
        BY <3>3 DEF p
      <4>. QED
        BY <4>2, <4>3
    <3>. QED
      BY <1>4, <3>1, <3>2, <3>3
  <2>2. section' \in [Sections -> Section] /\ PlacesBounded'
    BY <2>1, PutTyped DEF BootInv
  <2>. QED
    BY <1>1, <2>2, EditedShop DEF BootInv, BootTypeOK
<1>5. CASE \E u \in Shown \ {t} : section' = [section EXCEPT ![t].position = Place(u),
                                                            ![u].position = Place(t)]
  <2>1. PICK u \in Sections \ {t} : section' = [section EXCEPT ![t].position = Place(u),
                                                              ![u].position = Place(t)]
    BY <1>5 DEF Shown
  <2>2. section' \in [Sections -> Section]
    BY <1>3, <2>1 DEF Section
  <2>3. \A q \in Sections : section'[q].position = IF q = t THEN Place(u) ELSE
                                                   IF q = u THEN Place(t) ELSE Place(q)
    BY <1>3, <2>1 DEF Section, Place
  <2>4. PlacesBounded'
    BY <1>3, <2>3, StillBounded
  <2>. QED
    BY <1>1, <2>2, <2>4, EditedShop DEF BootInv, BootTypeOK
<1>. QED
  BY <1>4, <1>5 DEF EditSections

\* A bootstrap begins.
LEMMA StartBootInv ==
  ASSUME BootInv, StartBoot
  PROVE  BootInv' /\ OnlyAdds
<1>. DEFINE wanted == IF Grown THEN Keyed \ OfCatalog ELSE Keyed
<1>1. /\ boots < MaxBoots /\ boots' = boots + 1 /\ keyed' = keyed \cup Basics
      /\ standing' = IF standing = "edited" THEN "booting" ELSE standing
      /\ UNCHANGED <<goods, section, script, shopEdits>>
  BY DEF StartBoot
<1>2. /\ boot' \in Boot /\ boot'.pc \in {"rows", "bare"} /\ (boot'.skip <=> Grown)
      /\ boot'.pc = "rows" => boot'.todo = wanted \ Basics
  <2>. DEFINE todo == wanted \ Basics
              rows(g) == [pc |-> "rows", skip |-> g, at |-> 0, todo |-> todo, gone |-> {}]
              bare(g) == [pc |-> "bare", skip |-> g, at |-> 0, todo |-> {}, gone |-> {}]
  <2>1. Grown \in BOOLEAN /\ todo \in SUBSET RowIds
    BY DEF RowIds, Grown
  <2>2. boot' = rows(Grown) \/ boot' = bare(Grown)
    BY DEF StartBoot, Grown, Off
  <2>. HIDE DEF wanted, todo
  <2>3. \A g \in BOOLEAN : /\ rows(g) \in Boot /\ rows(g).pc = "rows" /\ (rows(g).skip <=> g)
                           /\ rows(g).todo = todo
                           /\ bare(g) \in Boot /\ bare(g).pc = "bare" /\ (bare(g).skip <=> g)
    BY <2>1 DEF Boot, Steps
  <2>. HIDE DEF rows, bare
  <2>4. /\ rows(Grown) \in Boot /\ rows(Grown).pc = "rows" /\ (rows(Grown).skip <=> Grown)
        /\ rows(Grown).todo = todo
        /\ bare(Grown) \in Boot /\ bare(Grown).pc = "bare" /\ (bare(Grown).skip <=> Grown)
    BY <2>1, <2>3, Zenon
  <2>5. "rows" # "bare"
    OBVIOUS
  <2>. QED
    BY <2>2, <2>4, <2>5, Zenon DEF todo
<1>3. BootTypeOK'
  BY <1>1, <1>2, BootstrapAssumption DEF BootInv, BootTypeOK
<1>4. /\ (Grown' <=> Grown) /\ (\A n : Named(n)' = Named(n)) /\ (HeroShown' <=> HeroShown)
      /\ (AdShown' <=> AdShown) /\ PlacesBounded' /\ (AllPhotos' <=> AllPhotos)
  BY <1>1, GoodsStay, SectionsStay DEF BootInv
<1>5. Wanted' = wanted
  BY <1>2 DEF Wanted
<1>6. Listed'
  BY <1>1, <1>2, <1>5 DEF Listed
<1>7. Progress' /\ HeroProgress' /\ AdProgress'
  BY <1>1, <1>2, <1>5 DEF Progress, HeroProgress, AdProgress, OnSections
<1>8. standing = "settled" => keyed' = keyed
  BY <1>1, BootstrapAssumption DEF BootInv, BootTypeOK, Rested, Complete
<1>9. standing' = "settled" => Rested'
  BY <1>1, <1>2, <1>4, <1>8 DEF BootInv, Rested, Complete
<1>10. OnlyAdds
  BY <1>1, <1>8, BootstrapAssumption DEF OnlyAdds, Shown, Place
<1>. QED
  BY <1>1, <1>2, <1>3, <1>4, <1>6, <1>7, <1>9, <1>10 DEF BootInv

\* Turn moves to another step, Done ends one turn of a loop; both leave alone
\* whether the catalog is.
LEMMA TurnStep ==
  ASSUME BootTypeOK, NEW pc \in Steps, NEW todo \in SUBSET RowIds, NEW at \in Int, Turn(pc, todo, at)
  PROVE  /\ boot' \in Boot
         /\ boot'.pc = pc /\ boot'.skip = boot.skip /\ boot'.at = at /\ boot'.todo = todo
BY DEF BootTypeOK, Boot, Turn

LEMMA GotoStep ==
  ASSUME BootTypeOK, NEW pc \in Steps, Goto(pc)
  PROVE  /\ boot' \in Boot
         /\ boot'.pc = pc /\ boot'.skip = boot.skip /\ boot'.at = 0 /\ boot'.todo = {}
BY TurnStep DEF Goto

LEMMA DoneStep ==
  ASSUME BootTypeOK, NEW x, Done(x)
  PROVE  /\ boot' \in Boot
         /\ boot'.pc = boot.pc /\ boot'.skip = boot.skip /\ boot'.at = boot.at
         /\ boot'.todo = boot.todo \ {x}
BY DEF BootTypeOK, Boot, Done

\* A step that leaves the shop alone, but not the bootstrap.
LEMMA BootMoves ==
  ASSUME BootInv, Quiet, UNCHANGED shop, boot.pc # "off", boot' \in Boot, boot'.skip = boot.skip,
         Listed', standing # "edited" => Progress' /\ HeroProgress' /\ AdProgress'
  PROVE  BootInv' /\ OnlyAdds
<1>1. BootTypeOK'
  BY DEF BootInv, BootTypeOK, Quiet, shop
<1>2. /\ (Grown' <=> Grown) /\ (\A n : Named(n)' = Named(n)) /\ (HeroShown' <=> HeroShown)
      /\ (AdShown' <=> AdShown) /\ PlacesBounded' /\ (AllPhotos' <=> AllPhotos)
  BY GoodsStay, SectionsStay DEF shop, BootInv
<1>3. standing = "settled" => Rested'
  BY <1>2 DEF BootInv, Rested, Complete, shop
<1>. QED
  BY <1>1, <1>2, <1>3, ShopStays DEF BootInv, Quiet

\* What fails before the sections leaves nothing to show.
LEMMA BootFails ==
  ASSUME BootInv, Quiet, UNCHANGED shop, boot.pc # "off", Goto("failed")
  PROVE  BootInv' /\ OnlyAdds
<1>1. boot' \in Boot /\ boot'.pc = "failed" /\ boot'.skip = boot.skip
  BY GotoStep DEF BootInv, Steps
<1>2. Progress' /\ HeroProgress' /\ AdProgress'
  BY <1>1 DEF Progress, HeroProgress, AdProgress, OnSections
<1>3. Listed'
  BY <1>1 DEF Listed, BootInv, shop
<1>. QED
  BY <1>1, <1>2, <1>3, BootMoves

\* A bootstrap of a settled shop finds no row and no product missing.
LEMMA NothingMissing ==
  ASSUME BootInv, standing = "settled", boot.pc # "off"
  PROVE  AllRows /\ AllNamed
BY DEF BootInv, Rested, Complete, AllRows, AllNamed, Wanted

LEMMA FillRowInv ==
  ASSUME BootInv, FillRow
  PROVE  BootInv' /\ OnlyAdds
<1>1. boot.pc = "rows" /\ Quiet /\ UNCHANGED <<goods, section>>
  BY DEF FillRow
<1>2. ASSUME NEW k \in boot.todo, keyed' = keyed \cup {k}, Done(k)
      PROVE  BootInv' /\ OnlyAdds
  <2>1. boot' \in Boot /\ boot'.pc = "rows" /\ boot'.skip = boot.skip /\ boot'.todo = boot.todo \ {k}
    BY <1>1, <1>2, DoneStep DEF BootInv
  <2>2. k \in Wanted /\ Wanted' = Wanted /\ k \in Keyed
    BY <1>1, <1>2, <2>1 DEF BootInv, Listed, Wanted
  <2>3. standing = "settled" => keyed' = keyed
    BY <1>1, <1>2, <2>2, NothingMissing DEF AllRows
  <2>4. BootTypeOK' /\ PlacesBounded' /\ (Grown' <=> Grown) /\ (AllPhotos' <=> AllPhotos)
    BY <1>1, <1>2, <2>1, <2>2, SectionsStay, GoodsStay DEF BootInv, BootTypeOK, Quiet
  <2>5. Listed'
    BY <1>1, <1>2, <2>1, <2>2 DEF BootInv, Listed
  <2>6. standing # "edited" => Progress' /\ HeroProgress' /\ AdProgress'
    BY <1>1, <1>2, <2>1, <2>2 DEF BootInv, Progress, HeroProgress, AdProgress, OnSections
  <2>7. standing = "settled" => Rested'
    BY <1>1, <2>1, <2>3, <2>4, SectionsStay, GoodsStay DEF BootInv, Rested, Complete
  <2>8. OnlyAdds
    BY <1>1, <1>2, <2>3, BootstrapAssumption DEF OnlyAdds, Shown, Place
  <2>. QED
    BY <1>1, <2>1, <2>4, <2>5, <2>6, <2>7, <2>8 DEF BootInv, Quiet
<1>3. CASE boot.todo = {} /\ Turn("products", ToSupply, 0) /\ UNCHANGED keyed
  <2>1. boot' \in Boot /\ boot'.pc = "products" /\ boot'.skip = boot.skip /\ boot'.todo = ToSupply
    BY <1>3, TurnStep DEF BootInv, Steps, RowIds, ToSupply
  <2>2. Listed'
    BY <1>1, <1>3, <2>1 DEF BootInv, Listed, ToSupply
  <2>3. standing # "edited" => Progress' /\ HeroProgress' /\ AdProgress'
    BY <1>1, <1>3, <2>1
       DEF BootInv, Progress, HeroProgress, AdProgress, OnSections, AllRows, Wanted, ToSupply
  <2>. QED
    BY <1>1, <1>3, <2>1, <2>2, <2>3, BootMoves DEF shop
<1>. QED
  BY <1>2, <1>3 DEF FillRow

LEMMA FillProductInv ==
  ASSUME BootInv, FillProduct
  PROVE  BootInv' /\ OnlyAdds
<1>1. boot.pc = "products" /\ Quiet /\ UNCHANGED <<keyed, section>>
  BY DEF FillProduct
<1>2. ASSUME NEW n \in boot.todo, Named(n) # {}, Done(n), UNCHANGED goods
      PROVE  BootInv' /\ OnlyAdds
  <2>1. boot' \in Boot /\ boot'.pc = "products" /\ boot'.skip = boot.skip /\ boot'.todo = boot.todo \ {n}
    BY <1>1, <1>2, DoneStep DEF BootInv
  <2>2. Listed'
    BY <1>1, <2>1 DEF BootInv, Listed
  <2>3. \A m : Named(m)' = Named(m)
    BY <1>2, GoodsStay
  <2>4. standing # "edited" => Progress' /\ HeroProgress' /\ AdProgress'
    BY <1>1, <1>2, <2>1, <2>3 DEF BootInv, Progress, HeroProgress, AdProgress, OnSections, AllRows, Wanted
  <2>. QED
    BY <1>1, <1>2, <2>1, <2>2, <2>4, BootMoves DEF shop
<1>3. CASE Goto("failed") /\ UNCHANGED goods
  BY <1>1, <1>3, BootFails DEF shop
<1>4. ASSUME NEW n \in boot.todo, Named(n) = {}, SlugOf[n] \notin There, Done(n),
             goods' = [goods EXCEPT ![SlugOf[n]] = [name |-> n, photos |-> {ImageUrl(n)}]]
      PROVE  BootInv' /\ OnlyAdds
  <2>1. boot' \in Boot /\ boot'.pc = "products" /\ boot'.skip = boot.skip /\ boot'.todo = boot.todo \ {n}
    BY <1>1, <1>4, DoneStep DEF BootInv
  <2>2. n \in Starters /\ SlugOf[n] \in Slugs /\ ~boot.skip
    BY <1>1, <1>4, BootstrapAssumption DEF BootInv, Listed
  <2>3. standing # "settled"
    BY <1>1, <1>4, <2>2, NothingMissing DEF AllNamed
  <2>4. [name |-> n, photos |-> {ImageUrl(n)}] \in Goods
    BY <2>2 DEF Goods, Photos, ImageUrl
  <2>5. BootTypeOK' /\ PlacesBounded' /\ Listed'
    BY <1>1, <1>4, <2>1, <2>4, SectionsStay DEF BootInv, BootTypeOK, Quiet, Listed
  <2>6. \A x \in There : goods'[x] = goods[x]
    BY <1>4 DEF There, BootInv, BootTypeOK
  <2>7. Named(n)' # {} /\ \A m : Named(m) # {} => Named(m)' # {}
    <3>1. goods'[SlugOf[n]] = [name |-> n, photos |-> {ImageUrl(n)}]
      BY <1>4, <2>2 DEF BootInv, BootTypeOK
    <3>2. [name |-> n, photos |-> {ImageUrl(n)}] # NoGoods
      BY DEF NoGoods
    <3>3. SlugOf[n] \in Named(n)'
      BY <2>2, <3>1, <3>2 DEF Named, There
    <3>4. \A m : Named(m) \subseteq Named(m)'
      BY <2>6 DEF Named, There
    <3>. QED
      BY <3>3, <3>4
  <2>8. standing # "edited" => Progress' /\ HeroProgress' /\ AdProgress'
    BY <1>1, <2>1, <2>7 DEF BootInv, Progress, HeroProgress, AdProgress, OnSections, AllRows, Wanted
  <2>9. OnlyAdds
    BY <1>1, <2>3, <2>6, BootstrapAssumption DEF OnlyAdds, Shown, Place
  <2>. QED
    BY <1>1, <2>1, <2>2, <2>3, <2>5, <2>8, <2>9 DEF BootInv, Quiet
<1>5. CASE boot.todo = {} /\ Turn("backfill", ToBackfill, 0) /\ UNCHANGED goods
  <2>1. boot' \in Boot /\ boot'.pc = "backfill" /\ boot'.skip = boot.skip /\ boot'.todo = ToBackfill
    BY <1>5, TurnStep DEF BootInv, Steps, RowIds, ToBackfill, There
  <2>2. (\A n : Named(n)' = Named(n)) /\ ToBackfill' = ToBackfill
    BY <1>5, GoodsStay
  <2>3. Listed'
    BY <1>1, <2>1 DEF BootInv, Listed, ToBackfill, There
  <2>4. standing # "edited" => Progress' /\ HeroProgress' /\ AdProgress'
    BY <1>1, <1>5, <2>1, <2>2
       DEF BootInv, Progress, HeroProgress, AdProgress, OnSections, AllRows, AllNamed, Wanted
  <2>. QED
    BY <1>1, <1>5, <2>1, <2>3, <2>4, BootMoves DEF shop
<1>. QED
  BY <1>2, <1>3, <1>4, <1>5 DEF FillProduct

\* Products keep their names and only change their photos.
LEMMA PhotosOnly ==
  ASSUME BootInv, goods' \in [Slugs -> Goods],
         \A x \in Slugs : /\ goods'[x].name = goods[x].name
                          /\ goods'[x] # goods[x] => x \in There /\ goods'[x].photos # {}
  PROVE  There' = There /\ (\A n : Named(n)' = Named(n)) /\ (Grown' <=> Grown)
<1>1. There' = There
  <2>. SUFFICES ASSUME NEW x \in Slugs PROVE goods'[x] # NoGoods <=> goods[x] # NoGoods
    BY DEF There
  <2>1. NoGoods.photos = {}
    BY DEF NoGoods
  <2>. QED
    BY <2>1 DEF There
<1>2. \A n : Named(n)' = Named(n)
  BY <1>1 DEF Named, There
<1>. QED
  BY <1>1, <1>2 DEF Grown

LEMMA FillPhotoInv ==
  ASSUME BootInv, FillPhoto
  PROVE  BootInv' /\ OnlyAdds
<1>1. boot.pc = "backfill" /\ Quiet /\ UNCHANGED <<keyed, section>>
  BY DEF FillPhoto
<1>2. ASSUME NEW x \in boot.todo, NEW n \in Starters, Done(x),
             goods' = [goods EXCEPT ![x].photos = @ \cup {ImageUrl(n)}]
      PROVE  BootInv' /\ OnlyAdds
  <2>. DEFINE new == [goods[x] EXCEPT !.photos = @ \cup {ImageUrl(n)}]
  <2>1. boot' \in Boot /\ boot'.pc = "backfill" /\ boot'.skip = boot.skip /\ boot'.todo = boot.todo \ {x}
    BY <1>1, <1>2, DoneStep DEF BootInv
  <2>2. x \in Slugs /\ goods \in [Slugs -> Goods] /\ goods[x] \in Goods
    BY <1>1 DEF BootInv, BootTypeOK, Listed
  <2>3. /\ new \in Goods /\ new.name = goods[x].name
        /\ new.photos = goods[x].photos \cup {ImageUrl(n)} /\ new.photos # {}
    BY <2>2 DEF Goods, Photos, ImageUrl
  <2>4. goods' = [goods EXCEPT ![x] = new]
    BY <1>2
  <2>. HIDE DEF new
  <2>5. goods' \in [Slugs -> Goods] /\ \A y \in Slugs : goods'[y] = IF y = x THEN new ELSE goods[y]
    BY <2>2, <2>3, <2>4
  <2>6. standing # "edited" => x \in ToBackfill /\ boot.todo = ToBackfill
    BY <1>1 DEF BootInv, Progress
  <2>7. standing # "settled"
    BY <2>6 DEF BootInv, Rested, AllPhotos
  <2>8. standing # "edited" => /\ (\A m : Named(m)' = Named(m)) /\ (Grown' <=> Grown)
                               /\ ToBackfill' = ToBackfill \ {x}
    <3>. SUFFICES ASSUME standing # "edited"
                  PROVE  /\ (\A m : Named(m)' = Named(m)) /\ (Grown' <=> Grown)
                         /\ ToBackfill' = ToBackfill \ {x}
      OBVIOUS
    <3>1. x \in There
      BY <2>6 DEF ToBackfill
    <3>2. There' = There /\ (\A m : Named(m)' = Named(m)) /\ (Grown' <=> Grown)
      BY <2>3, <2>5, <3>1, PhotosOnly
    <3>3. ToBackfill' = ToBackfill \ {x}
      BY <2>3, <2>5, <3>2 DEF ToBackfill, There
    <3>. QED
      BY <3>2, <3>3
  <2>9. BootTypeOK' /\ PlacesBounded' /\ Listed'
    BY <1>1, <1>2, <2>1, <2>5, SectionsStay DEF BootInv, BootTypeOK, Quiet, Listed
  <2>10. standing # "edited" => Progress' /\ HeroProgress' /\ AdProgress'
    BY <1>1, <2>1, <2>6, <2>8
       DEF BootInv, Progress, HeroProgress, AdProgress, OnSections, AllRows, AllNamed, Wanted
  <2>11. OnlyAdds
    BY <1>1, <2>3, <2>5, <2>7, BootstrapAssumption DEF OnlyAdds, Shown, Place, There
  <2>. QED
    BY <1>1, <2>1, <2>7, <2>8, <2>9, <2>10, <2>11 DEF BootInv, Quiet
<1>3. CASE Goto("failed") /\ UNCHANGED goods
  BY <1>1, <1>3, BootFails DEF shop
<1>4. CASE boot.todo = {} /\ Turn("upgrade", ToUpgrade, 0) /\ UNCHANGED goods
  <2>1. boot' \in Boot /\ boot'.pc = "upgrade" /\ boot'.skip = boot.skip /\ boot'.todo = ToUpgrade
    BY <1>4, TurnStep DEF BootInv, Steps, RowIds, ToUpgrade, There
  <2>2. (\A n : Named(n)' = Named(n)) /\ ToBackfill' = ToBackfill /\ ToUpgrade' = ToUpgrade
    BY <1>4, GoodsStay
  <2>3. Listed'
    BY <1>1, <2>1 DEF BootInv, Listed, ToUpgrade, There
  <2>4. standing # "edited" => Progress' /\ HeroProgress' /\ AdProgress'
    BY <1>1, <1>4, <2>1, <2>2
       DEF BootInv, Progress, HeroProgress, AdProgress, OnSections, AllRows, AllNamed, Wanted
  <2>. QED
    BY <1>1, <1>4, <2>1, <2>3, <2>4, BootMoves DEF shop
<1>. QED
  BY <1>2, <1>3, <1>4 DEF FillPhoto

LEMMA UpgradePhotoInv ==
  ASSUME BootInv, UpgradePhoto
  PROVE  BootInv' /\ OnlyAdds
<1>1. boot.pc = "upgrade" /\ Quiet /\ UNCHANGED <<keyed, section>>
  BY DEF UpgradePhoto
<1>2. ASSUME NEW x \in boot.todo, Done(x), goods' = [goods EXCEPT ![x].photos = Upgraded(@)]
      PROVE  BootInv' /\ OnlyAdds
  <2>. DEFINE new == [goods[x] EXCEPT !.photos = Upgraded(@)]
  <2>1. boot' \in Boot /\ boot'.pc = "upgrade" /\ boot'.skip = boot.skip /\ boot'.todo = boot.todo \ {x}
    BY <1>1, <1>2, DoneStep DEF BootInv
  <2>2. x \in Slugs /\ goods \in [Slugs -> Goods] /\ goods[x] \in Goods
    BY <1>1 DEF BootInv, BootTypeOK, Listed
  <2>3. /\ new \in Goods /\ new.name = goods[x].name /\ new.photos # {} /\ "random" \notin new.photos
        /\ "own" \in goods[x].photos => "own" \in new.photos
    BY <2>2 DEF Goods, Photos, Upgraded
  <2>4. goods' = [goods EXCEPT ![x] = new]
    BY <1>2
  <2>. HIDE DEF new
  <2>5. goods' \in [Slugs -> Goods] /\ \A y \in Slugs : goods'[y] = IF y = x THEN new ELSE goods[y]
    BY <2>2, <2>3, <2>4
  <2>6. standing # "edited" => x \in ToUpgrade /\ boot.todo = ToUpgrade /\ ToBackfill = {}
    BY <1>1 DEF BootInv, Progress
  <2>7. standing # "settled"
    BY <2>6 DEF BootInv, Rested, AllPhotos
  <2>8. standing # "edited" => /\ (\A m : Named(m)' = Named(m)) /\ (Grown' <=> Grown)
                               /\ ToBackfill' = {} /\ ToUpgrade' = ToUpgrade \ {x}
    <3>. SUFFICES ASSUME standing # "edited"
                  PROVE  /\ (\A m : Named(m)' = Named(m)) /\ (Grown' <=> Grown)
                         /\ ToBackfill' = {} /\ ToUpgrade' = ToUpgrade \ {x}
      OBVIOUS
    <3>1. x \in There
      BY <2>6 DEF ToUpgrade
    <3>2. There' = There /\ (\A m : Named(m)' = Named(m)) /\ (Grown' <=> Grown)
      BY <2>3, <2>5, <3>1, PhotosOnly
    <3>3. ToBackfill' = {}
      BY <2>3, <2>5, <2>6, <3>2 DEF ToBackfill, There
    <3>4. ToUpgrade' = ToUpgrade \ {x}
      BY <2>3, <2>5, <3>2 DEF ToUpgrade, There
    <3>. QED
      BY <3>2, <3>3, <3>4
  <2>9. BootTypeOK' /\ PlacesBounded' /\ Listed'
    BY <1>1, <1>2, <2>1, <2>5, SectionsStay DEF BootInv, BootTypeOK, Quiet, Listed
  <2>10. standing # "edited" => Progress' /\ HeroProgress' /\ AdProgress'
    BY <1>1, <2>1, <2>6, <2>8
       DEF BootInv, Progress, HeroProgress, AdProgress, OnSections, AllRows, AllNamed, Wanted
  <2>11. OnlyAdds
    BY <1>1, <2>3, <2>5, <2>7, BootstrapAssumption DEF OnlyAdds, Shown, Place, There
  <2>. QED
    BY <1>1, <2>1, <2>7, <2>8, <2>9, <2>10, <2>11 DEF BootInv, Quiet
<1>3. CASE Goto("failed") /\ UNCHANGED goods
  BY <1>1, <1>3, BootFails DEF shop
<1>4. CASE boot.todo = {} /\ Goto("sections") /\ UNCHANGED goods
  <2>1. boot' \in Boot /\ boot'.pc = "sections" /\ boot'.skip = boot.skip
    BY <1>4, GotoStep DEF BootInv, Steps
  <2>2. (\A n : Named(n)' = Named(n)) /\ (AllPhotos' <=> AllPhotos)
    BY <1>4, GoodsStay
  <2>3. Listed'
    BY <1>1, <2>1 DEF BootInv, Listed
  <2>4. standing # "edited" => Progress' /\ HeroProgress' /\ AdProgress'
    BY <1>1, <1>4, <2>1, <2>2
       DEF BootInv, Progress, HeroProgress, AdProgress, OnSections, AllRows, AllNamed, AllPhotos, Wanted
  <2>. QED
    BY <1>1, <1>4, <2>1, <2>3, <2>4, BootMoves DEF shop
<1>. QED
  BY <1>2, <1>3, <1>4 DEF UpgradePhoto

\* A step that writes the sections: where the bootstrap goes and what it leaves.
LEMMA SectionStep ==
  ASSUME BootInv, UNCHANGED <<keyed, goods, script, standing, boots, shopEdits>>,
         boot.pc \in OnSections, boot' \in Boot,
         boot'.skip = boot.skip, boot'.pc \in {"off", "shift", "ad", "rehost"},
         section' \in [Sections -> Section], PlacesBounded',
         standing # "edited" => HeroProgress' /\ AdProgress',
         standing = "settled" => UNCHANGED section
  PROVE  BootInv'
<1>1. /\ (\A n : Named(n)' = Named(n)) /\ (Grown' <=> Grown) /\ (AllPhotos' <=> AllPhotos)
  BY GoodsStay
<1>2. BootTypeOK'
  BY DEF BootInv, BootTypeOK
<1>3. standing # "edited" => AllRows /\ AllNamed /\ AllPhotos
  BY DEF BootInv, Progress
<1>4. standing # "edited" => Progress'
  BY <1>1, <1>3 DEF Progress, AllRows, AllNamed, Wanted, OnSections
<1>5. standing = "settled" => Rested'
  BY <1>1, SectionsStay DEF BootInv, Rested, Complete, OnSections
<1>6. Listed'
  BY DEF BootInv, Listed, OnSections
<1>. QED
  BY <1>1, <1>2, <1>4, <1>5, <1>6 DEF BootInv

\* A homepage without sections gets them; it was not settled.
LEMMA FillSectionsInv ==
  ASSUME BootInv, FillSections
  PROVE  BootInv' /\ OnlyAdds
<1>. DEFINE N == Cardinality(Sections)
            Row(place, t) == [exists |-> TRUE, position |-> place,
                    config |-> IF t \in {"hero_banner", "ad_banner"} THEN "starter" ELSE "none"]
<1>1. N \in Nat
  BY BootstrapAssumption, FS_CardinalityType
<1>2. /\ boot.pc = "sections" /\ Shown = {}
      /\ UNCHANGED <<keyed, goods, script, standing, boots, shopEdits>>
  BY DEF FillSections, Quiet
<1>3. PICK order \in [Sections -> 0..N - 1], k \in 1..N :
        /\ section' = [t \in Sections |-> IF order[t] >= k THEN NoSection ELSE Row(order[t], t)]
        /\ IF k = N THEN Goto("rehost") ELSE Goto("off")
  BY DEF FillSections
<1>4. /\ boot' \in Boot /\ boot'.skip = boot.skip
      /\ boot'.pc = IF k = N THEN "rehost" ELSE "off"
  BY <1>3, GotoStep DEF BootInv, Steps
<1>5. NoSection \in Section /\ NoSection.position = 0
  BY DEF NoSection, Section
<1>6. \A t \in Sections, place \in 0..N - 1 :
        /\ Row(place, t) \in Section /\ Row(place, t).position = place /\ Row(place, t).exists
        /\ t = "hero_banner" => Row(place, t).config = "starter"
  BY <1>1 DEF Section
<1>. HIDE DEF N, Row
<1>7. section' \in [Sections -> Section]
  BY <1>3, <1>5, <1>6
<1>8. PlacesBounded'
  <2>1. \A t \in Sections : section'[t].position \in -N..N
    BY <1>1, <1>3, <1>5, <1>6
  <2>. QED
    BY <1>1, <2>1, StillBounded
<1>9. k = N => \A t \in Sections : section'[t] = Row(order[t], t)
  BY <1>1, <1>3
<1>10. k = N => HeroShown' /\ AdShown'
  BY <1>6, <1>9, BootstrapAssumption DEF HeroShown, AdShown
<1>11. HeroProgress' /\ AdProgress'
  BY <1>4, <1>10 DEF HeroProgress, AdProgress
<1>12. standing # "settled"
  BY <1>2, BootstrapAssumption DEF BootInv, Rested, HeroShown, Shown
<1>13. BootInv'
  BY <1>2, <1>4, <1>7, <1>8, <1>11, <1>12, SectionStep DEF OnSections
<1>14. OnlyAdds
  BY <1>2, <1>12 DEF OnlyAdds
<1>. QED
  BY <1>13, <1>14

\* The queries on the sections leave the shop alone.
LEMMA ReadSectionsInv ==
  ASSUME BootInv, ReadHero \/ ReadLowest \/ ReadTrending
  PROVE  BootInv' /\ OnlyAdds
<1>1. boot.pc \in {"sections", "lowest", "shift"} /\ Quiet /\ UNCHANGED shop
  BY DEF ReadHero, ReadLowest, ReadTrending
<1>2. /\ {"hero_banner", "ad_banner", "trending_products"} \subseteq Sections
      /\ section \in [Sections -> Section] /\ Place("trending_products") \in Int
  BY BootstrapAssumption DEF BootInv, BootTypeOK, Section, Place
<1>3. /\ boot' \in Boot /\ boot'.skip = boot.skip
      /\ boot'.pc \in {"lowest", "insert", "hero", "shift", "room", "rehost"}
      /\ standing # "edited" => HeroProgress' /\ AdProgress'
  <2>1. CASE ReadHero
    <3>1. CASE ~section["hero_banner"].exists /\ Goto("lowest")
      <4>1. boot' \in Boot /\ boot'.skip = boot.skip /\ boot'.pc = "lowest"
        BY <3>1, GotoStep DEF BootInv, Steps
      <4>. QED
        BY <1>1, <3>1, <4>1 DEF HeroProgress, AdProgress, shop
    <3>2. CASE /\ section["hero_banner"].exists /\ section["hero_banner"].config = "none"
               /\ Turn("hero", {"hero_banner"}, 0)
      <4>1. boot' \in Boot /\ boot'.skip = boot.skip /\ boot'.pc = "hero"
        <5>1. {"hero_banner"} \in SUBSET RowIds
          BY <1>2 DEF RowIds
        <5>. QED
          BY <3>2, <5>1, TurnStep DEF BootInv, Steps
      <4>. QED
        BY <1>1, <3>2, <4>1 DEF HeroProgress, AdProgress, shop
    <3>3. CASE section["hero_banner"].exists /\ section["hero_banner"].config # "none" /\ Goto("shift")
      <4>1. boot' \in Boot /\ boot'.skip = boot.skip /\ boot'.pc = "shift"
        BY <3>3, GotoStep DEF BootInv, Steps
      <4>. QED
        BY <1>1, <3>3, <4>1 DEF HeroProgress, AdProgress, HeroShown, shop
    <3>. QED
      BY <2>1, <3>1, <3>2, <3>3 DEF ReadHero
  <2>2. CASE ReadLowest
    <3>. DEFINE at == IF Shown = {} THEN -1 ELSE Min({Place(t) : t \in Shown}) - 1
    <3>1. at \in Int
      BY EndsOfShown DEF BootInv
    <3>2. Turn("insert", {}, at)
      BY <2>2 DEF ReadLowest
    <3>. HIDE DEF at
    <3>3. boot' \in Boot /\ boot'.skip = boot.skip /\ boot'.pc = "insert"
      BY <3>1, <3>2, TurnStep DEF BootInv, Steps
    <3>. QED
      BY <1>1, <2>2, <3>3 DEF BootInv, ReadLowest, HeroProgress, AdProgress, shop
  <2>3. CASE ReadTrending
    <3>1. standing # "edited" => HeroShown
      BY <2>3 DEF BootInv, ReadTrending, HeroProgress
    <3>2. HeroShown' <=> HeroShown
      BY <1>1, SectionsStay DEF shop
    <3>3. CASE /\ ~section["ad_banner"].exists /\ section["trending_products"].exists
               /\ Turn("room", {}, Place("trending_products"))
      <4>1. /\ boot' \in Boot /\ boot'.skip = boot.skip /\ boot'.pc = "room"
            /\ boot'.at = Place("trending_products")
        BY <1>2, <3>3, TurnStep DEF BootInv, Steps
      <4>. QED
        BY <1>1, <3>1, <3>2, <3>3, <4>1 DEF HeroProgress, AdProgress, shop, Place
    <3>4. CASE /\ ~(~section["ad_banner"].exists /\ section["trending_products"].exists)
               /\ Goto("rehost")
      <4>1. boot' \in Boot /\ boot'.skip = boot.skip /\ boot'.pc = "rehost"
        BY <3>4, GotoStep DEF BootInv, Steps
      <4>. QED
        BY <1>1, <3>1, <3>2, <3>4, <4>1 DEF HeroProgress, AdProgress, AdShown, shop
    <3>. QED
      BY <2>3, <3>3, <3>4 DEF ReadTrending
  <2>. QED
    BY <2>1, <2>2, <2>3
<1>4. Listed'
  BY <1>1, <1>3 DEF BootInv, Listed, shop
<1>5. (\A n : Named(n)' = Named(n)) /\ (AllPhotos' <=> AllPhotos)
  BY <1>1, GoodsStay DEF shop
<1>6. standing # "edited" => Progress'
  BY <1>1, <1>3, <1>5 DEF BootInv, Progress, OnSections, AllRows, AllNamed, Wanted, shop
<1>. QED
  BY <1>1, <1>3, <1>4, <1>6, BootMoves

\* The hero banner is inserted, or given its text; it was not settled.
LEMMA WriteHeroInv ==
  ASSUME BootInv, InsertHero \/ ConfigureHero
  PROVE  BootInv' /\ OnlyAdds
<1>. DEFINE hero == section["hero_banner"]
<1>1. /\ boot.pc \in {"insert", "hero"} /\ Quiet
      /\ UNCHANGED <<keyed, goods, script, standing, boots, shopEdits>>
  BY DEF InsertHero, ConfigureHero, Quiet
<1>2. /\ "hero_banner" \in Sections /\ section \in [Sections -> Section] /\ hero \in Section
      /\ boot.at \in Int /\ "ad_banner" \in Sections /\ "hero_banner" # "ad_banner"
  BY BootstrapAssumption DEF BootInv, BootTypeOK, Boot
<1>3. standing # "edited" =>
        /\ boot.pc = "insert" => ~hero.exists
        /\ boot.pc = "hero" => hero.exists /\ hero.config = "none"
  BY DEF BootInv, HeroProgress
<1>4. standing # "settled"
  BY <1>1, <1>3 DEF BootInv, Rested, HeroShown
<1>5. ASSUME Goto("shift"), NEW new \in Section, section' = [section EXCEPT !["hero_banner"] = new],
             standing # "edited" => new.exists /\ new.config = "starter",
             hero.exists => new.exists,
             hero.exists => \/ new = hero
                            \/ new.position = hero.position /\ boot.pc = "hero"
      PROVE  BootInv' /\ OnlyAdds
  <2>1. boot' \in Boot /\ boot'.skip = boot.skip /\ boot'.pc = "shift"
    BY <1>5, GotoStep DEF BootInv, Steps
  <2>2. section' \in [Sections -> Section] /\ PlacesBounded'
    BY <1>2, <1>5, PutTyped DEF BootInv
  <2>3. \A t \in Sections : section'[t] = IF t = "hero_banner" THEN new ELSE section[t]
    BY <1>2, <1>5
  <2>4. standing # "edited" => HeroProgress' /\ AdProgress'
    BY <1>2, <1>5, <2>1, <2>3 DEF HeroProgress, AdProgress, HeroShown
  <2>5. BootInv'
    BY <1>1, <1>4, <2>1, <2>2, <2>4, SectionStep DEF OnSections
  <2>6. \A t \in Shown : /\ section'[t].exists /\ section'[t].position = Place(t)
                         /\ section[t].config = "own" =>
                              \/ section'[t].config = "own"
                              \/ t = "hero_banner" /\ boot.pc = "hero" /\ standing = "edited"
    BY <1>2, <1>3, <1>5, <2>3 DEF Shown, Place
  <2>7. section'["ad_banner"] = section["ad_banner"]
    BY <1>2, <2>3
  <2>8. OnlyAdds
    BY <1>1, <1>2, <1>4, <2>6, <2>7 DEF OnlyAdds, Shown
  <2>. QED
    BY <2>5, <2>8
<1>6. CASE InsertHero
  <2>1. [exists |-> TRUE, position |-> boot.at, config |-> "starter"] \in Section
    BY <1>2 DEF Section
  <2>2. CASE hero.exists
    <3>1. section' = [section EXCEPT !["hero_banner"] = hero]
      BY <1>2, <1>6, <2>2 DEF InsertHero
    <3>2. standing = "edited"
      BY <1>3, <1>6, <2>2 DEF InsertHero
    <3>. QED
      BY <1>2, <1>5, <1>6, <2>2, <3>1, <3>2 DEF InsertHero
  <2>3. CASE ~hero.exists
    BY <1>5, <1>6, <2>1, <2>3 DEF InsertHero, Put
  <2>. QED
    BY <2>2, <2>3
<1>7. CASE ConfigureHero
  <2>1. CASE Goto("failed") /\ UNCHANGED section
    BY <1>1, <2>1, BootFails DEF shop
  <2>2. CASE /\ "hero_banner" \notin boot.gone /\ Goto("shift")
             /\ section' = [section EXCEPT !["hero_banner"].config = "starter"]
    <3>. DEFINE new == [hero EXCEPT !.config = "starter"]
    <3>1. new \in Section /\ new.exists = hero.exists /\ new.position = hero.position
          /\ new.config = "starter"
      BY <1>2 DEF Section
    <3>2. section' = [section EXCEPT !["hero_banner"] = new]
      BY <2>2
    <3>3. boot.pc = "hero" /\ (standing # "edited" => hero.exists)
      BY <1>3, <1>7 DEF ConfigureHero
    <3>. HIDE DEF new
    <3>. QED
      BY <1>5, <1>7, <2>2, <3>1, <3>2, <3>3 DEF ConfigureHero
  <2>. QED
    BY <1>7, <2>1, <2>2 DEF ConfigureHero
<1>. QED
  BY <1>6, <1>7

\* Room is made where the trending products are.
LEMMA MakeRoomInv ==
  ASSUME BootInv, MakeRoom
  PROVE  BootInv' /\ OnlyAdds
<1>1. /\ boot.pc = "room" /\ section' = ShiftedFrom(boot.at) /\ Turn("ad", {}, boot.at)
      /\ UNCHANGED <<keyed, goods, script, standing, boots, shopEdits>>
  BY DEF MakeRoom, Quiet
<1>2. /\ section \in [Sections -> Section] /\ boot.at \in Int
      /\ {"hero_banner", "ad_banner", "trending_products"} \subseteq Sections
  BY BootstrapAssumption DEF BootInv, BootTypeOK, Boot
<1>3. /\ boot' \in Boot /\ boot'.skip = boot.skip /\ boot'.pc = "ad" /\ boot'.at = boot.at
  BY <1>1, <1>2, TurnStep DEF BootInv, Steps
<1>4. standing # "edited" => /\ HeroShown /\ section["trending_products"].exists
                             /\ ~section["ad_banner"].exists
                             /\ Place("trending_products") = boot.at
  BY <1>1 DEF BootInv, HeroProgress, AdProgress
<1>5. standing # "settled"
  BY <1>4 DEF BootInv, Rested, AdShown
<1>6. \A s \in Section : LET d == [s EXCEPT !.position = @ + 1]
                         IN  /\ d \in Section /\ d.exists = s.exists /\ d.config = s.config
                             /\ d.position = s.position + 1
  BY DEF Section
<1>7. section' \in [Sections -> Section]
  BY <1>1, <1>2, <1>6 DEF ShiftedFrom
<1>8. \A t \in Sections :
        /\ section'[t].exists = section[t].exists /\ section'[t].config = section[t].config
        /\ section'[t].position = IF section[t].exists /\ Place(t) >= boot.at THEN Place(t) + 1 ELSE Place(t)
  BY <1>1, <1>2, <1>6 DEF ShiftedFrom, Place
<1>9. \A t \in Sections : Place(t) \in Int
  BY <1>2 DEF Section, Place
<1>10. PlacesBounded'
  <2>1. PICK b \in Nat : \A t \in Sections : -b <= Place(t) /\ Place(t) <= b
    BY DEF BootInv, PlacesBounded
  <2>2. \A t \in Sections : section'[t].position \in -(b + 1)..b + 1
    BY <1>2, <1>8, <1>9, <2>1
  <2>. QED
    BY <2>2, StillBounded
<1>11. standing # "edited" => HeroProgress' /\ AdProgress'
  BY <1>2, <1>3, <1>4, <1>8 DEF HeroProgress, AdProgress, HeroShown, Place
<1>12. BootInv'
  BY <1>1, <1>3, <1>5, <1>7, <1>10, <1>11, SectionStep DEF OnSections
<1>13. \A t, u \in Shown : Place(t) < Place(u) => section'[t].position < section'[u].position
  BY <1>2, <1>8, <1>9 DEF Shown
<1>14. OnlyAdds
  BY <1>1, <1>2, <1>5, <1>8, <1>13 DEF OnlyAdds, Shown
<1>. QED
  BY <1>12, <1>14

\* The ad banner is inserted where the trending products were.
LEMMA InsertAdInv ==
  ASSUME BootInv, InsertAd
  PROVE  BootInv' /\ OnlyAdds
<1>. DEFINE New == [exists |-> TRUE, position |-> boot.at, config |-> "starter"]
<1>1. /\ boot.pc = "ad" /\ Goto("rehost") /\ Quiet
      /\ UNCHANGED <<keyed, goods, script, standing, boots, shopEdits>>
  BY DEF InsertAd, Quiet
<1>2. /\ section \in [Sections -> Section] /\ boot.at \in Int
      /\ {"hero_banner", "ad_banner", "trending_products"} \subseteq Sections
  BY BootstrapAssumption DEF BootInv, BootTypeOK, Boot
<1>3. /\ boot' \in Boot /\ boot'.skip = boot.skip /\ boot'.pc = "rehost"
  BY <1>1, GotoStep DEF BootInv, Steps
<1>4. standing # "edited" => /\ HeroShown /\ section["trending_products"].exists
                             /\ ~section["ad_banner"].exists
                             /\ Place("trending_products") = boot.at + 1
  BY <1>1 DEF BootInv, HeroProgress, AdProgress
<1>5. standing # "settled"
  BY <1>4 DEF BootInv, Rested, AdShown
<1>6. CASE section["ad_banner"].exists
  <2>1. UNCHANGED section /\ standing = "edited"
    BY <1>4, <1>6 DEF InsertAd
  <2>2. PlacesBounded'
    BY <2>1, SectionsStay DEF BootInv
  <2>3. BootInv'
    BY <1>1, <1>2, <1>3, <2>1, <2>2, SectionStep DEF OnSections
  <2>. QED
    BY <1>1, <2>1, <2>3, ShopStays DEF shop
<1>7. CASE ~section["ad_banner"].exists
  <2>1. section' = [section EXCEPT !["ad_banner"] = New]
    BY <1>7 DEF InsertAd, Put
  <2>2. New \in Section /\ New.exists /\ New.position = boot.at
    BY <1>2 DEF Section
  <2>. HIDE DEF New
  <2>3. \A t \in Sections : section'[t] = IF t = "ad_banner" THEN New ELSE section[t]
    BY <1>2, <2>1
  <2>4. section' \in [Sections -> Section] /\ PlacesBounded'
    BY <1>2, <2>1, <2>2, PutTyped DEF BootInv
  <2>5. AdShown' /\ (standing # "edited" => HeroShown')
    BY <1>2, <1>4, <2>2, <2>3 DEF AdShown, HeroShown
  <2>6. standing # "edited" => HeroProgress' /\ AdProgress'
    BY <1>3, <2>5 DEF HeroProgress, AdProgress
  <2>7. BootInv'
    BY <1>1, <1>3, <1>5, <2>4, <2>6, SectionStep DEF OnSections
  <2>8. \A t \in Shown : section'[t] = section[t]
    BY <1>7, <2>3 DEF Shown
  <2>9. standing # "edited" =>
            section'["ad_banner"].position = section'["trending_products"].position - 1
    BY <1>2, <1>4, <2>2, <2>3 DEF Place
  <2>10. OnlyAdds
    BY <1>1, <1>5, <2>8, <2>9 DEF OnlyAdds, Place
  <2>. QED
    BY <2>7, <2>10
<1>. QED
  BY <1>6, <1>7

\* The bootstrap gets through.
LEMMA RehostInv ==
  ASSUME BootInv, Rehost
  PROVE  BootInv' /\ OnlyAdds
<1>1. PICK moved \in SUBSET {x \in There : "curated" \in goods[x].photos} :
        goods' = [x \in Slugs |-> IF x \in moved THEN [goods[x] EXCEPT !.photos = Hosted(@)] ELSE goods[x]]
  BY DEF Rehost
<1>2. /\ boot.pc \in {"rehost", "bare"} /\ Goto("up")
      /\ UNCHANGED <<keyed, section, script, boots, shopEdits>>
      /\ standing' = IF boot.pc = "rehost" /\ standing = "booting" THEN "settled" ELSE standing
  BY DEF Rehost
<1>3. /\ boot' \in Boot /\ boot'.skip = boot.skip /\ boot'.pc = "up" /\ boot.skip \in BOOLEAN
  BY <1>2, GotoStep DEF BootInv, BootTypeOK, Boot, Steps
<1>4. \A g \in Goods : LET d == [g EXCEPT !.photos = Hosted(@)]
                       IN  /\ d \in Goods /\ d.name = g.name /\ d.photos = Hosted(g.photos)
                           /\ d.photos # {} /\ d.photos \ {"hosted"} \subseteq g.photos
                           /\ "own" \in g.photos => "own" \in d.photos
                           /\ "random" \in d.photos => "random" \in g.photos
  BY DEF Goods, Photos, Hosted
<1>5. goods' \in [Slugs -> Goods]
  BY <1>1, <1>4 DEF BootInv, BootTypeOK
<1>6. \A x \in Slugs : /\ goods'[x].name = goods[x].name
                       /\ \/ goods'[x] = goods[x]
                          \/ x \in There /\ goods'[x].photos # {}
                       /\ goods'[x].photos \ {"hosted"} \subseteq goods[x].photos
                       /\ "own" \in goods[x].photos => "own" \in goods'[x].photos
                       /\ "random" \in goods'[x].photos => "random" \in goods[x].photos
  BY <1>1, <1>4 DEF BootInv, BootTypeOK
<1>7. There' = There /\ (\A n : Named(n)' = Named(n)) /\ (Grown' <=> Grown)
  BY <1>5, <1>6, PhotosOnly
<1>8. (HeroShown' <=> HeroShown) /\ (AdShown' <=> AdShown) /\ PlacesBounded'
  BY <1>2, SectionsStay DEF BootInv
<1>9. AllPhotos => AllPhotos'
  <2>1. ToBackfill' \subseteq ToBackfill /\ ToUpgrade' \subseteq ToUpgrade
    BY <1>6, <1>7 DEF ToBackfill, ToUpgrade, There
  <2>. QED
    BY <2>1 DEF AllPhotos
<1>10. BootTypeOK' /\ Listed'
  BY <1>2, <1>3, <1>5 DEF BootInv, BootTypeOK, Listed
<1>11. Progress' /\ HeroProgress' /\ AdProgress'
  BY <1>3 DEF Progress, HeroProgress, AdProgress, OnSections
<1>12. standing' = "settled" => Rested'
  <2>1. CASE standing = "settled"
    BY <1>2, <1>3, <1>7, <1>8, <1>9, <2>1 DEF BootInv, Rested, Complete
  <2>2. CASE standing = "booting" /\ boot.pc = "rehost"
    <3>1. AllRows /\ AllNamed /\ AllPhotos /\ HeroShown /\ AdShown /\ (boot.skip => Grown)
      BY <2>2 DEF BootInv, Progress, HeroProgress, AdProgress, OnSections
    <3>2. CASE boot.skip
      BY <1>2, <1>3, <1>7, <1>8, <1>9, <3>1, <3>2 DEF Rested, AllRows, Wanted
    <3>3. CASE ~boot.skip
      BY <1>2, <1>3, <1>7, <1>8, <1>9, <3>1, <3>3 DEF Rested, Complete, AllRows, AllNamed, Wanted
    <3>. QED
      BY <1>3, <3>2, <3>3
  <2>. QED
    BY <1>2, <2>1, <2>2
<1>13. OnlyAdds
  BY <1>2, <1>6, BootstrapAssumption DEF OnlyAdds, Shown, Place, There
<1>. QED
  BY <1>2, <1>3, <1>7, <1>8, <1>10, <1>11, <1>12, <1>13 DEF BootInv

LEMMA CrashInv ==
  ASSUME BootInv, Crash
  PROVE  BootInv' /\ OnlyAdds
<1>1. boot' = Off /\ Quiet /\ UNCHANGED shop
  BY DEF Crash
<1>2. boot' \in Boot /\ boot'.pc = "off" /\ ~boot'.skip
  BY <1>1 DEF Boot, Off, Steps
<1>3. /\ (Grown' <=> Grown) /\ (\A n : Named(n)' = Named(n)) /\ (HeroShown' <=> HeroShown)
      /\ (AdShown' <=> AdShown) /\ PlacesBounded' /\ (AllPhotos' <=> AllPhotos)
  BY <1>1, GoodsStay, SectionsStay DEF shop, BootInv
<1>4. BootTypeOK' /\ Listed' /\ Progress' /\ HeroProgress' /\ AdProgress'
  BY <1>1, <1>2 DEF BootInv, BootTypeOK, Listed, Progress, HeroProgress, AdProgress, OnSections, Quiet, shop
<1>5. standing = "settled" => Rested'
  BY <1>1, <1>2, <1>3 DEF BootInv, Rested, Complete, shop
<1>. QED
  BY <1>1, <1>2, <1>3, <1>4, <1>5, ShopStays DEF BootInv, Quiet

LEMMA BootNextInv == BootInv /\ [BootNext]_BootVars => BootInv' /\ (OnlyAdds \/ UNCHANGED BootVars)
<1>. SUFFICES ASSUME BootInv, [BootNext]_BootVars
              PROVE  BootInv' /\ (OnlyAdds \/ UNCHANGED BootVars)
  OBVIOUS
<1>1. CASE UNCHANGED BootVars
  <2>1. /\ UNCHANGED <<keyed, goods, section, boot, script, standing, boots, shopEdits>>
    BY <1>1 DEF BootVars
  <2>2. /\ (Grown' <=> Grown) /\ (\A n : Named(n)' = Named(n)) /\ (HeroShown' <=> HeroShown)
        /\ (AdShown' <=> AdShown) /\ (PlacesBounded' <=> PlacesBounded) /\ (AllPhotos' <=> AllPhotos)
        /\ ToBackfill' = ToBackfill /\ ToUpgrade' = ToUpgrade
    BY <2>1, GoodsStay, SectionsStay
  <2>3. /\ (BootTypeOK' <=> BootTypeOK) /\ (Listed' <=> Listed) /\ (Rested' <=> Rested)
    BY <2>1, <2>2 DEF BootTypeOK, Listed, Wanted, Rested, Complete
  <2>4. /\ (Progress' <=> Progress) /\ (HeroProgress' <=> HeroProgress) /\ (AdProgress' <=> AdProgress)
    BY <2>1, <2>2 DEF Progress, HeroProgress, AdProgress, AllRows, AllNamed, Wanted, Place
  <2>. QED
    BY <1>1, <2>1, <2>2, <2>3, <2>4 DEF BootInv
<1>. QED
  BY <1>1, StartBootInv, FillRowInv, FillProductInv, FillPhotoInv, UpgradePhotoInv, FillSectionsInv,
     ReadSectionsInv, WriteHeroInv, MakeRoomInv, InsertAdInv, RehostInv, CrashInv, RemoveInv,
     EnrichInv, ScriptInv, EditGoodsInv, RemoveRowInv, EditSectionsInv DEF BootNext

\* However often the process ended in the middle of it and whatever was deleted
\* before, a bootstrap (seed.production.js) that gets through has the settings
\* row; one that found an administrator and was not disturbed leaves the starter
\* content complete, with the photos that its own categories provide for.
THEOREM BootLeavesAllThere == BootSpec => []BootSettles
<1>1. BootInv => BootSettles
  BY NothingMissing DEF BootInv, Listed, Rested, BootSettles, AllRows, AllNamed, AllPhotos, Wanted,
     HeroShown, AdShown
<1>. QED
  BY <1>1, BootInitInv, BootNextInv, PTL DEF BootSpec

\* And no step of it takes away or rewrites what the shop's own people made,
\* except for a text of the hero banner saved after the bootstrap looked for one;
\* nor does a bootstrap after one that got through add anything.
THEOREM BootTakesNothing == BootSpec => BootOnlyAdds
BY BootInitInv, BootNextInv, PTL DEF BootSpec, BootOnlyAdds
-----------------------------------------------------------------------------
(* Reports: the same orders, added up by store, by customer, by day, by    *)
(* product and by category.                                                *)

\* A set of articles with their prices is finite: an order has each at one price.
ItemsFinite == \A o \in Exist : IsFiniteSet(sale[o].articles)

ReportsInv == ReportsTypeOK /\ ItemsFinite

\* There are no orders yet.
LEMMA ReportsInitInv == ReportsInit => ReportsInv
BY ReportsAssumption DEF ReportsInit, ReportsInv, ReportsTypeOK, ItemsFinite, Exist, NoSale

\* An order comes to be, or only its status changes.
LEMMA ReportsNextInv == ReportsInv /\ [ReportsNext]_ReportsVars => ReportsInv'
<1>. SUFFICES ASSUME ReportsInv, [ReportsNext]_ReportsVars PROVE ReportsInv'
  OBVIOUS
<1>. USE ReportsAssumption
<1>1. ASSUME NEW o \in OrderIds, NewSale(o) PROVE ReportsInv'
  <2>1. PICK s \in Shops, b \in Buyers, as \in SUBSET Articles, f \in [Articles -> ArticlePrices] :
           /\ as # {} /\ \A a \in as : ShopOf[a] = s
           /\ sale' = [sale EXCEPT ![o] = [status |-> "pending", shop |-> s, buyer |-> b,
                   at |-> hour, articles |-> {<<a, f[a]>> : a \in as}]]
    BY <1>1, Zenon DEF NewSale
  <2>. DEFINE items == {<<a, f[a]>> : a \in as}
              made == [status |-> "pending", shop |-> s, buyer |-> b, at |-> hour,
                      articles |-> items]
  <2>2. IsFiniteSet(items)
    <3>1. IsFiniteSet(as)
      BY FS_Subset
    <3>. DEFINE g == [a \in as |-> <<a, f[a]>>]
    <3>2. g \in Surjection(as, items)
      BY Zenon DEF Surjection
    <3>3. IsFiniteSet(items)
      BY <3>1, <3>2, FS_Surjection
    <3>. QED
      BY <3>3
  <2>3. items \in SUBSET (Articles \X ArticlePrices)
    <3>1. \A a \in as : <<a, f[a]>> \in Articles \X ArticlePrices
      OBVIOUS
    <3>. QED
      BY <3>1
  <2>4. made \in SaleRow /\ made.articles = items
    BY <2>3 DEF ReportsInv, ReportsTypeOK, SaleRow
  <2>5. sale' = [sale EXCEPT ![o] = made]
    BY <2>1
  <2>6. hour' \in 0..LastHour /\ sales' \in 0..MaxSales
    BY <1>1 DEF NewSale, Sell, ReportsInv, ReportsTypeOK
  <2>. HIDE DEF made, items
  <2>7. ReportsTypeOK'
    BY <2>4, <2>5, <2>6 DEF ReportsInv, ReportsTypeOK
  <2>8. ItemsFinite'
    BY <2>2, <2>4, <2>5 DEF ReportsInv, ReportsTypeOK, ItemsFinite, Exist
  <2>. QED
    BY <2>7, <2>8 DEF ReportsInv
<1>2. ASSUME NEW o \in OrderIds, MoveSale(o) PROVE ReportsInv'
  <2>1. PICK s \in {"processing", "delivered", "returned", "cancelled"} :
           sale' = [sale EXCEPT ![o].status = s]
    BY <1>2 DEF MoveSale
  <2>. DEFINE made == [sale[o] EXCEPT !.status = s]
  <2>2. sale[o] \in SaleRow /\ o \in Exist
    BY <1>2 DEF MoveSale, Exist, ReportsInv, ReportsTypeOK, NoSale
  <2>3. made \in SaleRow /\ made.articles = sale[o].articles
    BY <2>2 DEF SaleRow
  <2>4. sale' = [sale EXCEPT ![o] = made]
    BY <2>1
  <2>5. hour' \in 0..LastHour /\ sales' \in 0..MaxSales
    BY <1>2 DEF MoveSale, Sell, ReportsInv, ReportsTypeOK
  <2>. HIDE DEF made
  <2>6. ReportsTypeOK'
    BY <2>3, <2>4, <2>5 DEF ReportsInv, ReportsTypeOK
  <2>7. ItemsFinite'
    BY <2>2, <2>3, <2>4 DEF ReportsInv, ReportsTypeOK, ItemsFinite, Exist
  <2>. QED
    BY <2>6, <2>7 DEF ReportsInv
<1>3. CASE PassTime
  BY <1>3 DEF PassTime, ReportsInv, ReportsTypeOK, ItemsFinite, Exist
<1>4. CASE UNCHANGED ReportsVars
  BY <1>4 DEF ReportsVars, ReportsInv, ReportsTypeOK, ItemsFinite, Exist
<1>. QED
  BY <1>1, <1>2, <1>3, <1>4 DEF ReportsNext
-----------------------------------------------------------------------------
\* What a set of items, and an order, come to.
LEMMA ItemsAmount ==
  ASSUME ReportsInv, NEW o \in Exist, NEW items \in SUBSET sale[o].articles
  PROVE  IsFiniteSet(items) /\ (\A i \in items : i[2] \in Nat) /\ ItemsTotal(items) \in Nat
<1>1. IsFiniteSet(items)
  BY FS_Subset DEF ReportsInv, ItemsFinite
<1>2. sale[o].articles \in SUBSET (Articles \X ArticlePrices)
  BY DEF Exist, ReportsInv, ReportsTypeOK, SaleRow, NoSale
<1>3. \A i \in items : i[2] \in Nat
  BY <1>2, ReportsAssumption
<1>. DEFINE f == [i \in items |-> i[2]]
<1>4. \A i \in items : f[i] \in Nat
  BY <1>3
<1>5. ItemsTotal(items) = SumFunctionOnSet(f, items)
  BY DEF ItemsTotal
<1>. HIDE DEF f
<1>. QED
  BY <1>1, <1>3, <1>4, <1>5, SumNat

LEMMA OrderAmount ==
  ASSUME ReportsInv
  PROVE  /\ \A o \in Exist : Total(o) \in Nat
         /\ \A o \in Exist : sale[o].shop \in Shops /\ sale[o].buyer \in Buyers /\ sale[o].at \in 0..LastHour
         /\ IsFiniteSet(Exist) /\ \A O \in SUBSET Exist : IsFiniteSet(O)
<1>1. ASSUME NEW o \in Exist PROVE Total(o) \in Nat
  <2>1. ItemsTotal(sale[o].articles) \in Nat
    BY ItemsAmount
  <2>. QED
    BY <2>1, ReportsAssumption DEF Total
<1>2. \A o \in Exist : sale[o] \in SaleRow
  BY DEF Exist, ReportsInv, ReportsTypeOK, NoSale
<1>3. IsFiniteSet(Exist) /\ \A O \in SUBSET Exist : IsFiniteSet(O)
  BY ReportsAssumption, FS_Subset DEF Exist
<1>. QED
  BY <1>1, <1>2, <1>3 DEF SaleRow

\* The revenue of orders is a sum of one function of them all.
LEMMA RevenueIsSum ==
  ASSUME ReportsInv, NEW f, \A o \in Exist : f[o] = Total(o), NEW O \in SUBSET Exist
  PROVE  Revenue(O) = SumFunctionOnSet(f, O)
<1>. DEFINE g == [o \in O |-> Total(o)]
<1>1. IsFiniteSet(O) /\ \A o \in O : f[o] \in Int /\ g[o] = f[o]
  BY OrderAmount
<1>2. Revenue(O) = SumFunctionOnSet(g, O)
  BY DEF Revenue
<1>. HIDE DEF g
<1>. QED
  BY <1>1, <1>2, SumSame

\* It is the revenue of the groups that the orders fall into.
LEMMA RevenueByGroups ==
  ASSUME ReportsInv, NEW O \in SUBSET Exist, NEW K, IsFiniteSet(K), NEW g, NEW h,
         \A o \in O : g[o] \in K,
         \A k \in K : h[k] = Revenue({o \in O : g[o] = k})
  PROVE  SumFunctionOnSet(h, K) = Revenue(O)
<1>. DEFINE f == [o \in Exist |-> Total(o)]
<1>1. IsFiniteSet(O) /\ \A o \in O : f[o] \in Int
  BY OrderAmount
<1>2. \A o \in Exist : f[o] = Total(o)
  OBVIOUS
<1>. HIDE DEF f
<1>3. Revenue(O) = SumFunctionOnSet(f, O)
  BY <1>2, RevenueIsSum
<1>4. \A k \in K : h[k] = SumFunctionOnSet(f, {o \in O : g[o] = k})
  <2>1. ASSUME NEW k \in K PROVE h[k] = SumFunctionOnSet(f, {o \in O : g[o] = k})
    <3>. DEFINE P == {o \in O : g[o] = k}
    <3>1. P \in SUBSET Exist /\ h[k] = Revenue(P)
      OBVIOUS
    <3>. HIDE DEF P
    <3>2. h[k] = SumFunctionOnSet(f, P)
      BY <1>2, <3>1, RevenueIsSum
    <3>. QED
      BY <3>2 DEF P
  <2>. QED
    BY <2>1
<1>5. SumFunctionOnSet(h, K) = SumFunctionOnSet(f, O)
  <2>. DEFINE G == [k \in K |-> {o \in O : g[o] = k}]
  <2>1. G \in [K -> SUBSET O] /\ \A k \in K, o \in O : o \in G[k] <=> g[o] = k
    OBVIOUS
  <2>2. \A k \in K : h[k] = SumFunctionOnSet(f, G[k])
    BY <1>4
  <2>. HIDE DEF G
  <2>. QED
    BY <1>1, <2>1, <2>2, SumByGroups
<1>. QED
  BY <1>3, <1>5

\* More orders, more revenue.
LEMMA RevenueGrows ==
  ASSUME ReportsInv, NEW O \in SUBSET Exist, NEW P \in SUBSET O
  PROVE  Revenue(P) <= Revenue(O) /\ Revenue(P) \in Nat /\ Revenue(O) \in Nat
<1>. DEFINE f == [o \in Exist |-> Total(o)]
<1>1. IsFiniteSet(O) /\ IsFiniteSet(P) /\ (\A o \in O : f[o] \in Nat) /\ P \in SUBSET Exist
  BY OrderAmount
<1>2. \A o \in Exist : f[o] = Total(o)
  OBVIOUS
<1>. HIDE DEF f
<1>3. Revenue(O) = SumFunctionOnSet(f, O) /\ Revenue(P) = SumFunctionOnSet(f, P)
  BY <1>1, <1>2, RevenueIsSum
<1>4. SumFunctionOnSet(f, P) <= SumFunctionOnSet(f, O)
  BY <1>1, SumSubset
<1>5. SumFunctionOnSet(f, P) \in Nat /\ SumFunctionOnSet(f, O) \in Nat
  BY <1>1, SumNat
<1>. QED
  BY <1>3, <1>4, <1>5
-----------------------------------------------------------------------------
\* By store, and by customer.
LEMMA ByStore ==
  ASSUME ReportsInv, NEW O \in SUBSET Exist, NEW h,
         \A s \in Shops : h[s] = Revenue({o \in O : sale[o].shop = s})
  PROVE  SumFunctionOnSet(h, Shops) = Revenue(O)
<1>. DEFINE g == [o \in O |-> sale[o].shop]
<1>1. IsFiniteSet(Shops) /\ \A o \in O : g[o] \in Shops
  BY OrderAmount, ReportsAssumption
<1>2. \A s \in Shops : {o \in O : sale[o].shop = s} = {o \in O : g[o] = s}
  OBVIOUS
<1>3. \A s \in Shops : h[s] = Revenue({o \in O : g[o] = s})
  BY <1>2
<1>. HIDE DEF g
<1>. QED
  BY <1>1, <1>3, RevenueByGroups

LEMMA ByBuyer ==
  ASSUME ReportsInv, NEW O \in SUBSET Exist, NEW h,
         \A b \in Buyers : h[b] = Revenue({o \in O : sale[o].buyer = b})
  PROVE  SumFunctionOnSet(h, Buyers) = Revenue(O)
<1>. DEFINE g == [o \in O |-> sale[o].buyer]
<1>1. IsFiniteSet(Buyers) /\ \A o \in O : g[o] \in Buyers
  BY OrderAmount, ReportsAssumption
<1>2. \A b \in Buyers : {o \in O : sale[o].buyer = b} = {o \in O : g[o] = b}
  OBVIOUS
<1>3. \A b \in Buyers : h[b] = Revenue({o \in O : g[o] = b})
  BY <1>2
<1>. HIDE DEF g
<1>. QED
  BY <1>1, <1>3, RevenueByGroups

LEMMA StoresMakeThePlatform ==
  ASSUME ReportsInv
  PROVE  /\ TotalRevenue = SumOver(Shops, SellerPerformance)
         /\ TotalRevenue = SumOver(Shops, StoreRevenue)
         /\ \A b \in Buyers : CustomerTotal(b) = SumOver(Shops, LAMBDA s : Spent(s, b))
         /\ \A s \in Shops : StoreRevenue(s) = SumOver(Buyers, LAMBDA b : Spent(s, b))
<1>1. Kept \in SUBSET Exist
  BY DEF Kept
<1>2. TotalRevenue = SumOver(Shops, SellerPerformance)
  <2>. DEFINE h == [s \in Shops |-> SellerPerformance(s)]
  <2>1. \A s \in Shops : h[s] = Revenue({o \in Kept : sale[o].shop = s})
    BY DEF SellerPerformance
  <2>2. SumOver(Shops, SellerPerformance) = SumFunctionOnSet(h, Shops)
    BY DEF SumOver
  <2>. HIDE DEF h
  <2>. QED
    BY <1>1, <2>1, <2>2, ByStore DEF TotalRevenue
<1>3. TotalRevenue = SumOver(Shops, StoreRevenue)
  <2>. DEFINE h == [s \in Shops |-> StoreRevenue(s)]
  <2>1. \A s \in Shops : Of(s) = {o \in Kept : sale[o].shop = s}
    BY DEF Of, Kept
  <2>2. \A s \in Shops : h[s] = Revenue({o \in Kept : sale[o].shop = s})
    BY <2>1 DEF StoreRevenue
  <2>3. SumOver(Shops, StoreRevenue) = SumFunctionOnSet(h, Shops)
    BY DEF SumOver
  <2>. HIDE DEF h
  <2>. QED
    BY <1>1, <2>2, <2>3, ByStore DEF TotalRevenue
<1>4. ASSUME NEW b \in Buyers
      PROVE  CustomerTotal(b) = SumOver(Shops, LAMBDA s : Spent(s, b))
  <2>. DEFINE h == [s \in Shops |-> Spent(s, b)]
              O == {o \in Kept : sale[o].buyer = b}
  <2>1. \A s \in Shops : {o \in Of(s) : sale[o].buyer = b} = {o \in O : sale[o].shop = s}
    BY DEF Of, Kept
  <2>2. \A s \in Shops : h[s] = Revenue({o \in O : sale[o].shop = s})
    BY <2>1 DEF Spent
  <2>3. SumOver(Shops, LAMBDA s : Spent(s, b)) = SumFunctionOnSet(h, Shops)
    BY DEF SumOver
  <2>4. O \in SUBSET Exist /\ CustomerTotal(b) = Revenue(O)
    BY <1>1 DEF CustomerTotal
  <2>. HIDE DEF h, O
  <2>. QED
    BY <2>2, <2>3, <2>4, ByStore
<1>5. ASSUME NEW s \in Shops
      PROVE  StoreRevenue(s) = SumOver(Buyers, LAMBDA b : Spent(s, b))
  <2>. DEFINE h == [b \in Buyers |-> Spent(s, b)]
  <2>1. \A b \in Buyers : h[b] = Revenue({o \in Of(s) : sale[o].buyer = b})
    BY DEF Spent
  <2>2. SumOver(Buyers, LAMBDA b : Spent(s, b)) = SumFunctionOnSet(h, Buyers)
    BY DEF SumOver
  <2>3. Of(s) \in SUBSET Exist
    BY DEF Of
  <2>. HIDE DEF h
  <2>. QED
    BY <2>1, <2>2, <2>3, ByBuyer DEF StoreRevenue
<1>. QED
  BY <1>2, <1>3, <1>4, <1>5
-----------------------------------------------------------------------------
\* By day: each order falls into one, and the trend's days are of the window.
LEMMA Days ==
  ASSUME NEW n \in 0..LastHour
  PROVE  n \div Noon \in 0..LastHour /\ (n \div Noon) * Noon <= n /\ (n \div Noon) * Noon \in Int
<1>1. n \in Nat /\ Noon \in Nat \ {0} /\ LastHour \in Nat
  BY ReportsAssumption
<1>2. \A i \in Nat, d \in Nat \ {0} : /\ i \div d \in Nat /\ i \div d <= i
                                      /\ (i \div d) * d <= i /\ (i \div d) * d \in Int
  OBVIOUS
<1>. QED
  BY <1>1, <1>2

LEMMA TrendsAgree ==
  ASSUME ReportsInv
  PROVE  /\ \A day \in 0..LastHour : Trend(day) = SumOver(Shops, LAMBDA s : StoreTrend(s, day))
         /\ SumOver(0..LastHour, Trend) <= Last30
         /\ Last30 + Prev30 <= TotalRevenue
<1>. DEFINE from == hour - Window * Noon
            recent == {o \in Exist : sale[o].status # "cancelled" /\ sale[o].at >= from}
<1>1. ASSUME NEW day \in 0..LastHour
      PROVE  Trend(day) = SumOver(Shops, LAMBDA s : StoreTrend(s, day))
  <2>. DEFINE B == {o \in Exist : /\ sale[o].status # "cancelled" /\ sale[o].at >= from
                                  /\ sale[o].at \div Noon = day}
              h == [s \in Shops |-> StoreTrend(s, day)]
  <2>1. \A s \in Shops : {o \in {o \in Exist : sale[o].shop = s} :
                              /\ sale[o].status # "cancelled" /\ sale[o].at >= from
                              /\ sale[o].at \div Noon = day}
                           = {o \in B : sale[o].shop = s}
    OBVIOUS
  <2>2. \A s \in Shops : h[s] = Revenue({o \in B : sale[o].shop = s})
    BY <2>1 DEF StoreTrend, Bucket
  <2>3. SumOver(Shops, LAMBDA s : StoreTrend(s, day)) = SumFunctionOnSet(h, Shops)
    BY DEF SumOver
  <2>4. B \in SUBSET Exist /\ Trend(day) = Revenue(B)
    BY DEF Trend, Bucket
  <2>. HIDE DEF h, B
  <2>. QED
    BY <2>2, <2>3, <2>4, ByStore
<1>2. SumOver(0..LastHour, Trend) = Revenue(recent)
  <2>. DEFINE h == [day \in 0..LastHour |-> Trend(day)]
              g == [o \in recent |-> sale[o].at \div Noon]
  <2>1. \A day \in 0..LastHour :
           {o \in Exist : /\ sale[o].status # "cancelled" /\ sale[o].at >= from
                          /\ sale[o].at \div Noon = day} = {o \in recent : g[o] = day}
    OBVIOUS
  <2>2. \A day \in 0..LastHour : h[day] = Revenue({o \in recent : g[o] = day})
    BY <2>1 DEF Trend, Bucket
  <2>3. recent \in SUBSET Exist /\ \A o \in recent : g[o] \in 0..LastHour
    BY OrderAmount, Days
  <2>4. IsFiniteSet(0..LastHour)
    BY FS_Interval, ReportsAssumption
  <2>5. SumOver(0..LastHour, Trend) = SumFunctionOnSet(h, 0..LastHour)
    BY DEF SumOver
  <2>. HIDE DEF h, g, recent
  <2>. QED
    BY <2>2, <2>3, <2>4, <2>5, RevenueByGroups
<1>3. Window * Noon \in Int /\ hour \in Int /\ Midnight <= hour /\ Midnight \in Int
      /\ from \in Int
  <2>1. hour \in 0..LastHour /\ Window \in Int /\ Noon \in Int /\ hour \in Int
    BY ReportsAssumption DEF ReportsInv, ReportsTypeOK
  <2>. QED
    BY <2>1, Days DEF Midnight
<1>4. Revenue(recent) <= Last30
  <2>. DEFINE O == {o \in Kept : sale[o].at >= Midnight - Window * Noon}
  <2>1. ASSUME NEW o \in recent PROVE o \in O
    <3>1. o \in Kept /\ sale[o].at \in Int /\ sale[o].at >= from
      BY OrderAmount DEF Kept
    <3>2. sale[o].at >= Midnight - Window * Noon
      BY <1>3, <3>1
    <3>. QED
      BY <3>1, <3>2
  <2>2. O \in SUBSET Exist /\ recent \in SUBSET O
    BY <2>1 DEF Kept
  <2>3. Last30 = Revenue(O)
    BY DEF Last30, Since
  <2>. HIDE DEF O, recent
  <2>. QED
    BY <2>2, <2>3, RevenueGrows
<1>5. Last30 + Prev30 <= TotalRevenue
  <2>. DEFINE O == {o \in Kept : sale[o].at >= Midnight - Window * Noon}
              P == {o \in Kept : sale[o].at >= Midnight - 2 * Window * Noon}
  <2>1. Last30 = Revenue(O) /\ Prev30 = Revenue(P) - Revenue(O) /\ TotalRevenue = Revenue(Kept)
    BY DEF Last30, Prev30, Since, TotalRevenue
  <2>2. Kept \in SUBSET Exist /\ O \in SUBSET Kept /\ P \in SUBSET Kept
    BY DEF Kept
  <2>. HIDE DEF O, P
  <2>3. /\ Revenue(P) <= Revenue(Kept) /\ Revenue(P) \in Nat /\ Revenue(O) \in Nat
        /\ Revenue(Kept) \in Nat
    BY <2>2, RevenueGrows
  <2>. QED
    BY <2>1, <2>3
<1>. QED
  BY <1>1, <1>2, <1>4, <1>5
-----------------------------------------------------------------------------
\* Of what orders hold of some articles, each store has its part.
LEMMA ItemsByStore ==
  ASSUME ReportsInv, NEW A, NEW h,
         \A s \in Shops : h[s] = ItemRevenue(Of(s), A)
  PROVE  SumFunctionOnSet(h, Shops) = ItemRevenue(Kept, A)
<1>. DEFINE f == [o \in Kept |-> ItemsTotal(ItemsOf(o, A))]
            g == [o \in Kept |-> sale[o].shop]
            G == [s \in Shops |-> Of(s)]
<1>1. IsFiniteSet(Kept) /\ IsFiniteSet(Shops) /\ Kept \in SUBSET Exist
  BY OrderAmount, ReportsAssumption DEF Kept
<1>2. \A o \in Kept : f[o] \in Int
  <2>1. ASSUME NEW o \in Kept PROVE ItemsTotal(ItemsOf(o, A)) \in Int
    <3>1. ItemsOf(o, A) \in SUBSET sale[o].articles
      BY DEF ItemsOf
    <3>. QED
      BY <1>1, <3>1, ItemsAmount
  <2>. QED
    BY <2>1
<1>3. \A o \in Kept : g[o] \in Shops
  BY <1>1, OrderAmount
<1>4. G \in [Shops -> SUBSET Kept] /\ \A s \in Shops, o \in Kept : o \in G[s] <=> g[o] = s
  BY DEF Of, Kept
<1>5. ItemRevenue(Kept, A) = SumFunctionOnSet(f, Kept)
  BY DEF ItemRevenue
<1>6. \A s \in Shops : h[s] = SumFunctionOnSet(f, G[s])
  <2>1. ASSUME NEW s \in Shops PROVE h[s] = SumFunctionOnSet(f, G[s])
    <3>. DEFINE k == [o \in Of(s) |-> ItemsTotal(ItemsOf(o, A))]
    <3>1. G[s] = Of(s) /\ Of(s) \in SUBSET Kept /\ h[s] = SumFunctionOnSet(k, Of(s))
      BY DEF ItemRevenue, Of, Kept
    <3>2. \A o \in Of(s) : k[o] = f[o]
      BY <3>1
    <3>3. IsFiniteSet(Of(s)) /\ \A o \in Of(s) : k[o] \in Int
      BY <1>1, <1>2, <3>1, <3>2, FS_Subset
    <3>. HIDE DEF k, f, G
    <3>4. SumFunctionOnSet(k, Of(s)) = SumFunctionOnSet(f, Of(s))
      BY <3>2, <3>3, SumSame
    <3>. QED
      BY <3>1, <3>4
  <2>. QED
    BY <2>1
<1>. HIDE DEF f, g, G
<1>. QED
  BY <1>1, <1>2, <1>3, <1>4, <1>5, <1>6, SumByGroups

\* Whatever the articles are sorted by, the parts make the whole.
LEMMA ItemsByKind ==
  ASSUME ReportsInv, NEW K, IsFiniteSet(K), NEW kind, NEW part, NEW h,
         \A a \in Articles : kind[a] \in K,
         \A k \in K, a \in Articles : a \in part[k] <=> kind[a] = k,
         \A k \in K : h[k] = ItemRevenue(Kept, part[k])
  PROVE  SumFunctionOnSet(h, K)
            = SumFunctionOnSet([o \in Kept |-> ItemsTotal(sale[o].articles)], Kept)
<1>. DEFINE r == [o \in Kept |-> [k \in K |-> ItemsTotal(ItemsOf(o, part[k]))]]
            c == [k \in K |-> [o \in Kept |-> ItemsTotal(ItemsOf(o, part[k]))]]
            a == [o \in Kept |-> ItemsTotal(sale[o].articles)]
<1>1. IsFiniteSet(Kept) /\ Kept \in SUBSET Exist
  BY OrderAmount DEF Kept
<1>2. \A o \in Kept : sale[o].articles \in SUBSET (Articles \X ArticlePrices)
  BY <1>1 DEF Exist, ReportsInv, ReportsTypeOK, SaleRow, NoSale
<1>3. \A o \in Kept, k \in K : ItemsOf(o, part[k]) \in SUBSET sale[o].articles
  BY DEF ItemsOf
<1>4. \A o \in Kept, k \in K : r[o][k] \in Int /\ c[k][o] = r[o][k]
  <2>1. ASSUME NEW o \in Kept, NEW k \in K PROVE ItemsTotal(ItemsOf(o, part[k])) \in Int
    <3>1. o \in Exist /\ ItemsOf(o, part[k]) \in SUBSET sale[o].articles
      BY <1>1, <1>3
    <3>2. ItemsTotal(ItemsOf(o, part[k])) \in Nat
      BY <3>1, ItemsAmount
    <3>. QED
      BY <3>2
  <2>. QED
    BY <2>1
<1>5. \A k \in K : h[k] = SumFunctionOnSet(c[k], Kept)
  BY DEF ItemRevenue
<1>6. ASSUME NEW o \in Kept PROVE a[o] = SumFunctionOnSet(r[o], K)
  <2>. DEFINE items == sale[o].articles
              f == [i \in items |-> i[2]]
              g == [i \in items |-> kind[i[1]]]
              G == [k \in K |-> ItemsOf(o, part[k])]
              w == r[o]
  <2>1. IsFiniteSet(items) /\ \A i \in items : f[i] \in Int
    <3>1. o \in Exist /\ items \in SUBSET sale[o].articles
      BY <1>1
    <3>2. IsFiniteSet(items) /\ \A i \in items : i[2] \in Nat
      BY <3>1, ItemsAmount
    <3>. QED
      BY <3>2
  <2>2. \A i \in items : i[1] \in Articles
    BY <1>2
  <2>3. \A i \in items : g[i] \in K
    BY <2>2
  <2>4. G \in [K -> SUBSET items] /\ \A k \in K, i \in items : i \in G[k] <=> g[i] = k
    BY <2>2 DEF ItemsOf
  <2>5. a[o] = SumFunctionOnSet(f, items)
    BY DEF ItemsTotal
  <2>6. ASSUME NEW k \in K PROVE w[k] = SumFunctionOnSet(f, G[k])
    <3>. DEFINE x == [i \in G[k] |-> i[2]]
    <3>1. w[k] = SumFunctionOnSet(x, G[k])
      BY DEF ItemsTotal
    <3>2. G[k] \in SUBSET items
      BY <2>4
    <3>. HIDE DEF G, w
    <3>3. IsFiniteSet(G[k]) /\ \A i \in G[k] : x[i] = f[i] /\ x[i] \in Int
      BY <2>1, <3>2, FS_Subset
    <3>. HIDE DEF x, f
    <3>. QED
      BY <3>1, <3>3, SumSame
  <2>7. r[o] = w
    OBVIOUS
  <2>. HIDE DEF items, f, g, G, w, a, r
  <2>. QED
    BY <2>1, <2>3, <2>4, <2>5, <2>6, <2>7, SumByGroups
<1>. HIDE DEF a, r, c
<1>7. SumFunctionOnSet(a, Kept) = SumFunctionOnSet(h, K)
  <2>1. r \in [Kept -> [K -> Int]] /\ c \in [K -> [Kept -> Int]]
    BY <1>4 DEF r, c
  <2>2. \A o \in Kept, k \in K : c[k][o] = r[o][k]
    BY <1>4
  <2>3. \A o \in Kept : a[o] = SumFunctionOnSet(r[o], K)
    BY <1>6
  <2>. QED
    BY <1>1, <1>5, <2>1, <2>2, <2>3, SumSwap
<1>. QED
  BY <1>7 DEF a

LEMMA RankingsAgree ==
  ASSUME ReportsInv
  PROVE  /\ SumOver(Articles, TopProduct) = SumOver(Groups, TopCategory)
         /\ \A a \in Articles : TopProduct(a) = SumOver(Shops, LAMBDA s : TopOfStore(s, a))
         /\ \A g \in Groups : TopCategory(g) = SumOver(Shops, LAMBDA s : CategorySales(s, g))
<1>. DEFINE whole == SumFunctionOnSet([o \in Kept |-> ItemsTotal(sale[o].articles)], Kept)
<1>1. SumOver(Articles, TopProduct) = whole
  <2>. DEFINE h == [a \in Articles |-> TopProduct(a)]
              part == [a \in Articles |-> {a}]
              kind == [a \in Articles |-> a]
  <2>1. IsFiniteSet(Articles) /\ \A a \in Articles : kind[a] \in Articles
    BY ReportsAssumption
  <2>2. \A k \in Articles, a \in Articles : a \in part[k] <=> kind[a] = k
    OBVIOUS
  <2>3. \A k \in Articles : h[k] = ItemRevenue(Kept, part[k])
    BY DEF TopProduct
  <2>4. SumOver(Articles, TopProduct) = SumFunctionOnSet(h, Articles)
    BY DEF SumOver
  <2>. HIDE DEF h, part, kind
  <2>. QED
    BY <2>1, <2>2, <2>3, <2>4, ItemsByKind
<1>2. SumOver(Groups, TopCategory) = whole
  <2>. DEFINE h == [g \in Groups |-> TopCategory(g)]
              part == [g \in Groups |-> InGroup(g)]
  <2>1. IsFiniteSet(Groups) /\ \A a \in Articles : GroupOf[a] \in Groups
    BY ReportsAssumption
  <2>2. \A k \in Groups, a \in Articles : a \in part[k] <=> GroupOf[a] = k
    BY DEF InGroup
  <2>3. \A k \in Groups : h[k] = ItemRevenue(Kept, part[k])
    BY DEF TopCategory
  <2>4. SumOver(Groups, TopCategory) = SumFunctionOnSet(h, Groups)
    BY DEF SumOver
  <2>. HIDE DEF h, part
  <2>. QED
    BY <2>1, <2>2, <2>3, <2>4, ItemsByKind
<1>3. ASSUME NEW a \in Articles
      PROVE  TopProduct(a) = SumOver(Shops, LAMBDA s : TopOfStore(s, a))
  <2>. DEFINE h == [s \in Shops |-> TopOfStore(s, a)]
  <2>1. \A s \in Shops : h[s] = ItemRevenue(Of(s), {a})
    BY DEF TopOfStore
  <2>2. SumOver(Shops, LAMBDA s : TopOfStore(s, a)) = SumFunctionOnSet(h, Shops)
    BY DEF SumOver
  <2>. HIDE DEF h
  <2>. QED
    BY <2>1, <2>2, ItemsByStore DEF TopProduct
<1>4. ASSUME NEW g \in Groups
      PROVE  TopCategory(g) = SumOver(Shops, LAMBDA s : CategorySales(s, g))
  <2>. DEFINE h == [s \in Shops |-> CategorySales(s, g)]
  <2>1. \A s \in Shops : h[s] = ItemRevenue(Of(s), InGroup(g))
    BY DEF CategorySales
  <2>2. SumOver(Shops, LAMBDA s : CategorySales(s, g)) = SumFunctionOnSet(h, Shops)
    BY DEF SumOver
  <2>. HIDE DEF h
  <2>. QED
    BY <2>1, <2>2, ItemsByStore DEF TopCategory
<1>. QED
  BY <1>1, <1>2, <1>3, <1>4

\* The figures agree in every reachable state, whatever was ordered, by whom and when.
THEOREM FiguresAgree == ReportsSpec => []ReportsAgree
<1>1. ReportsInv => ReportsAgree
  BY StoresMakeThePlatform, TrendsAgree, RankingsAgree, Zenon DEF ReportsAgree
<1>. QED
  BY <1>1, ReportsInitInv, ReportsNextInv, PTL DEF ReportsSpec
-----------------------------------------------------------------------------
(* All of them together, with Accounts.                                    *)

\* Side by side the six keep their types, and no store is ever without owner.
THEOREM OfficeTypeCorrect == OfficeSpec => []OfficeTypeOK
<1>1. /\ EditorialInv => EditorialTypeOK
      /\ BootInv => BootTypeOK
      /\ ReportsInv => ReportsTypeOK
      /\ DeskInv => DeskTypeOK
  BY DEF EditorialInv, BootInv, ReportsInv, DeskInv
<1>2. AccountsSpec => []AccountsTypeOK
  BY AccountsTypeCorrect
<1>3. EditorialSpec => []EditorialInv
  BY EditorialInitInv, EditorialNextInv, PTL DEF EditorialSpec
<1>4. BootSpec => []BootInv
  BY BootInitInv, BootNextInv, PTL DEF BootSpec
<1>5. NoticesSpec => [](NoticesTypeOK /\ OffersAnnounced)
  BY NoticesInitInv, NoticesNextInv, PTL DEF NoticesSpec
<1>6. ReportsSpec => []ReportsInv
  BY ReportsInitInv, ReportsNextInv, PTL DEF ReportsSpec
<1>7. DeskSpec => []DeskInv
  BY DeskInitInv, DeskNextInv, PTL DEF DeskSpec
<1>. QED
  BY <1>1, <1>2, <1>3, <1>4, <1>5, <1>6, <1>7, PTL DEF OfficeSpec, OfficeTypeOK
=============================================================================
