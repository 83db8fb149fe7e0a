--------------------------- MODULE Accounts_proofs ---------------------------
(***************************************************************************)
(* What Accounts guarantees however its calls overlap, break off, or meet  *)
(* a deleted account, for any number of people, tokens, codes and calls.   *)
(***************************************************************************)
EXTENDS Accounts, TLAPS

\* The roles a call may write with updateUser.
Written == {"customer", "admin", "dropshipper", "wholesaler", "superadmin"}

\* What a call may rely on at the step it has reached.
CallKnown(s) ==
    /\ s.pc # "idle" => s.who \in People
    /\ s.pc = "create" =>
          /\ s.role \in Roles \cup {"guest"} /\ s.old = Nobody
          /\ s.opens \in {"none", "pending"}
          /\ s.role = "seller" => s.opens = "pending"
          /\ s.role = "admin" => s.by = "superadmin" /\ s.opens = "none"
    /\ s.pc = "store" =>
          /\ s.opens # "none" /\ s.old = Nobody
          /\ s.opens = "approved" => account[s.who].role \notin {"none", "seller"}
    /\ s.pc = "issue" /\ s.old # Nobody =>
          s.old \in Tokens /\ session[s.old].state \in {"revoked", "gone"}
    /\ s.pc = "revoke" => s.old \in Tokens /\ session[s.old].state # "unused"
    /\ s.pc = "reset" => s.old \in Codes
    /\ s.pc = "role" =>
          /\ s.role \in Written
          /\ s.by = "bootstrap" \/ MaySetRole(s.by, s.seen.role, s.role)

CallsKnow == \A c \in Clerks : CallKnown(clerk[c])

\* A token that is out has an owner, its login's first token is out too, and
\* one that is live belongs to an account that is there.
TokensKnown ==
    /\ \A t \in Tokens :
          /\ session[t].state = "unused" <=> session[t] = NoSession
          /\ session[t].state # "unused" =>
                /\ session[t].owner \in People /\ session[t].login \in Tokens
                /\ session[session[t].login].state # "unused"
          /\ session[t].state = "live" => Known(session[t].owner)
    /\ \A k \in Codes : code[k].state = "open" => code[k].owner \in People

\* The call exchanges a token for another of the same login.
Exchanges(c, login) ==
    /\ clerk[c].pc = "issue" /\ clerk[c].old # Nobody
    /\ session[clerk[c].old].login = login

\* Between the two halves of an exchange the login has no live token, and no
\* other call exchanges one of it, unless two have met.
ExchangesAlone ==
    \A c \in Clerks, login \in Tokens \ forked : Exchanges(c, login) =>
        /\ \A t \in Tokens : session[t].login = login => session[t].state # "live"
        /\ \A d \in Clerks : Exchanges(d, login) => d = c

\* The inductive invariant.
AccountsInv ==
    /\ AccountsTypeOK /\ SessionsRotate /\ SellersOwnStores
    /\ CallsKnow /\ TokensKnown /\ ExchangesAlone
-----------------------------------------------------------------------------
\* The records the actions build are of the types AccountsTypeOK gives them.
LEMMA AccountRecords ==
    /\ NoAccount \in User /\ Waiting \in Call /\ Waiting.pc = "idle"
    /\ \A r \in Roles \cup {"none", "deleted"} :
          Account(r) \in User /\ Account(r).role = r /\ Account(r).resets = 0
BY AccountsAssumption DEF NoAccount, Waiting, Account, User, Call, Roles

\* The first state satisfies the invariant.
LEMMA AccountsInitInv == AccountsInit => AccountsInv
<1>. SUFFICES ASSUME AccountsInit PROVE AccountsInv
  OBVIOUS
<1>1. \A p \in People : \E r \in Roles \cup {"none"} : account[p] = Account(r)
  BY AccountsAssumption DEF AccountsInit
<1>2. AccountsTypeOK
  <2>1. account \in [People -> User]
    <3>1. \A p \in People : account[p] \in User
      BY <1>1, AccountRecords
    <3>2. account = [p \in People |-> account[p]]
      BY DEF AccountsInit
    <3>. QED
      BY <3>1, <3>2
  <2>2. /\ store \in [People -> {"none", "pending", "approved", "suspended"}]
        /\ \A p \in People : store[p] # "none" => Known(p)
    BY DEF AccountsInit, OwnsStore, Known, Roles
  <2>3. /\ session \in [Tokens -> [state : {"unused", "live", "revoked", "gone"},
                                   owner : People \cup {Nobody}, login : Tokens \cup {Nobody},
                                   at : Nat]]
        /\ code \in [Codes -> [state : {"unused", "open", "used", "expired", "gone"},
                               owner : People \cup {Nobody}]]
    BY DEF AccountsInit, NoSession, NoCode
  <2>4. clerk \in [Clerks -> Call]
    BY AccountRecords DEF AccountsInit
  <2>5. forked \subseteq Tokens /\ stranded \subseteq People /\ accountCalls \in 0..MaxAccountCalls
    BY AccountsAssumption DEF AccountsInit
  <2>. QED
    BY <2>1, <2>2, <2>3, <2>4, <2>5 DEF AccountsTypeOK
<1>3. SellersOwnStores
  BY DEF AccountsInit, SellersOwnStores, OwnsStore
<1>4. SessionsRotate /\ TokensKnown
  BY DEF AccountsInit, SessionsRotate, TokensKnown, NoSession, NoCode
<1>5. CallsKnow /\ ExchangesAlone
  BY DEF AccountsInit, CallsKnow, CallKnown, ExchangesAlone, Exchanges, Waiting
<1>. QED
  BY <1>2, <1>3, <1>4, <1>5 DEF AccountsInv

\* No token comes to exist or to life, and none is forgotten.
OnlyEnds ==
    \A t \in Tokens :
        \/ session'[t] = session[t]
        \/ /\ session[t].state # "unused"
           /\ \E s \in {"revoked", "gone"} : session'[t] = [session[t] EXCEPT !.state = s]

\* Roles stay sensible, and so do the passwords live tokens were issued for.
AccountsGoOn ==
    /\ \A p \in People :
          account[p].role \notin {"none", "seller"} => account'[p].role \notin {"none", "seller"}
    /\ \A t \in Tokens : session'[t].state = "live" =>
          LET p == session[t].owner
          IN  account'[p].role \in Roles /\ account'[p].resets = account[p].resets

\* What that says of a token.
Ended(t) ==
    /\ UNCHANGED <<session[t].owner, session[t].login, session[t].at>>
    /\ session'[t].state = "live" => session[t].state = "live"
    /\ session'[t].state = "unused" <=> session[t].state = "unused"
    /\ session'[t].state = "unused" => session'[t] = session[t]
    /\ session[t].state \in {"revoked", "gone"} => session'[t].state \in {"revoked", "gone"}

LEMMA EndsOnly == AccountsInv /\ OnlyEnds => \A t \in Tokens : Ended(t)
<1>. SUFFICES ASSUME AccountsInv, OnlyEnds, NEW t \in Tokens PROVE Ended(t)
  OBVIOUS
<1>1. session[t] \in [state : {"unused", "live", "revoked", "gone"},
                      owner : People \cup {Nobody}, login : Tokens \cup {Nobody}, at : Nat]
  BY DEF AccountsInv, AccountsTypeOK
<1>2. CASE session'[t] = session[t]
  BY <1>2 DEF Ended
<1>3. ASSUME NEW s \in {"revoked", "gone"}, session[t].state # "unused",
             session'[t] = [session[t] EXCEPT !.state = s]
      PROVE  Ended(t)
  <2>1. UNCHANGED <<session[t].owner, session[t].login, session[t].at>> /\ session'[t].state = s
    BY <1>1, <1>3
  <2>. QED
    BY <1>3, <2>1 DEF Ended
<1>. QED
  BY <1>2, <1>3 DEF OnlyEnds

\* What holds of tokens survives steps that only end them.
LEMMA TokensGoOn ==
    ASSUME AccountsInv, OnlyEnds, AccountsGoOn, forked \subseteq forked',
           \A k \in Codes : code'[k].state = "open" => code'[k].owner \in People
    PROVE  SessionsRotate' /\ TokensKnown'
<1>1. \A t \in Tokens : Ended(t)
  BY EndsOnly
<1>. USE DEF Ended
<1>2. SessionsRotate'
  BY <1>1 DEF SessionsRotate, AccountsInv, AccountsGoOn
<1>3. TokensKnown'
  <2>1. \A t \in Tokens : session'[t].state = "unused" <=> session'[t] = NoSession
    BY <1>1 DEF TokensKnown, AccountsInv, NoSession
  <2>2. \A t \in Tokens :
          /\ session'[t].state # "unused" =>
                /\ session'[t].owner \in People /\ session'[t].login \in Tokens
                /\ session'[session'[t].login].state # "unused"
          /\ session'[t].state = "live" => account'[session'[t].owner].role \in Roles
    BY <1>1 DEF TokensKnown, AccountsInv, AccountsGoOn
  <2>. QED
    BY <2>1, <2>2 DEF TokensKnown, Known
<1>. QED
  BY <1>2, <1>3

\* What calls rely on survives them too.
LEMMA CallsGoOn ==
    ASSUME AccountsInv, OnlyEnds, AccountsGoOn,
           \A c \in Clerks : clerk'[c] # clerk[c] => CallKnown(clerk[c])'
    PROVE  CallsKnow'
<1>1. \A t \in Tokens :
         /\ session[t].state # "unused" => session'[t].state # "unused"
         /\ session[t].state \in {"revoked", "gone"} => session'[t].state \in {"revoked", "gone"}
  BY EndsOnly DEF Ended
<1>2. ASSUME NEW c \in Clerks, clerk'[c] = clerk[c] PROVE CallKnown(clerk[c])'
  BY <1>1, <1>2 DEF AccountsGoOn, AccountsInv, CallsKnow, CallKnown
<1>. QED
  BY <1>2 DEF CallsKnow

\* And so does what holds of exchanges, if none is begun.
LEMMA ExchangesGoOn ==
    ASSUME AccountsInv, OnlyEnds, forked \subseteq forked',
           \A c \in Clerks : \/ clerk'[c] = clerk[c]
                             \/ clerk'[c].pc # "issue" \/ clerk'[c].old = Nobody
    PROVE  ExchangesAlone'
<1>1. \A t \in Tokens :
         /\ session'[t].login = session[t].login
         /\ session'[t].state = "live" => session[t].state = "live"
  BY EndsOnly DEF Ended
<1>2. ASSUME NEW c \in Clerks, NEW login, Exchanges(c, login)' PROVE Exchanges(c, login)
  <2>1. clerk'[c] = clerk[c] /\ clerk[c].old \in Tokens
    BY <1>2 DEF Exchanges, AccountsInv, CallsKnow, CallKnown
  <2>. QED
    BY <1>1, <1>2, <2>1 DEF Exchanges
<1>. QED
  BY <1>1, <1>2 DEF ExchangesAlone, AccountsInv

\* The three together, for steps that begin no exchange.
LEMMA GoOn ==
    ASSUME AccountsInv, AccountsTypeOK', SellersOwnStores',
           OnlyEnds, AccountsGoOn, forked \subseteq forked',
           \A k \in Codes : code'[k].state = "open" => code'[k].owner \in People,
           \A c \in Clerks : \/ clerk'[c] = clerk[c]
                             \/ /\ CallKnown(clerk[c])'
                                /\ clerk'[c].pc # "issue" \/ clerk'[c].old = Nobody
    PROVE  AccountsInv'
<1>1. SessionsRotate' /\ TokensKnown'
  BY TokensGoOn
<1>2. CallsKnow'
  BY CallsGoOn
<1>3. ExchangesAlone'
  BY ExchangesGoOn
<1>. QED
  BY <1>1, <1>2, <1>3 DEF AccountsInv

\* Where nothing happens to tokens and accounts.
LEMMA Untouched ==
    ASSUME AccountsInv, UNCHANGED <<account, session>>
    PROVE  OnlyEnds /\ AccountsGoOn
<1>. \A t \in Tokens : session[t].state = "live" => account[session[t].owner].role \in Roles
  BY DEF AccountsInv, TokensKnown, Known
<1>. QED
  BY DEF OnlyEnds, AccountsGoOn

\* A call that leaves is no longer to be answered for.
LEMMA LeaveKnown ==
    ASSUME AccountsInv, NEW c \in Clerks, Leave(c)
    PROVE  /\ clerk' \in [Clerks -> Call]
           /\ \A d \in Clerks : \/ clerk'[d] = clerk[d]
                                \/ CallKnown(clerk[d])' /\ clerk'[d].pc # "issue"
<1>. \A d \in Clerks : clerk'[d] = IF d = c THEN Waiting ELSE clerk[d]
  BY DEF Leave, AccountsInv, AccountsTypeOK
<1>. QED
  BY AccountRecords DEF CallKnown, Leave, Waiting, AccountsInv, AccountsTypeOK

\* A call comes in.
LEMMA EnterInv ==
    ASSUME AccountsInv, NEW c \in Clerks, NEW next \in Call, Enter(c, next),
           CallKnown(next), next.pc # "issue" \/ next.old = Nobody
    PROVE  AccountsInv'
<1>. USE DEF Enter, Counted
<1>1. \A d \in Clerks : clerk'[d] = IF d = c THEN next ELSE clerk[d]
  BY DEF AccountsInv, AccountsTypeOK
<1>2. AccountsTypeOK'
  BY AccountsAssumption DEF AccountsInv, AccountsTypeOK, Known
<1>3. SellersOwnStores'
  BY <1>1 DEF AccountsInv, SellersOwnStores
<1>4. CallKnown(clerk[c])'
  BY <1>1 DEF CallKnown
<1>. QED
  BY <1>1, <1>2, <1>3, <1>4, GoOn, Untouched DEF AccountsInv, TokensKnown

\* The calls that come in.
LEMMA StartsInv ==
    ASSUME AccountsInv, NEW c \in Clerks,
           \/ Register(c) \/ GuestCheckout(c) \/ Login(c) \/ Refresh(c) \/ ResetPassword(c)
           \/ SetRole(c) \/ RaiseBoss(c) \/ SoleStore(c)
    PROVE  AccountsInv'
<1>0. /\ \A p \in People : account[p] \in User
      /\ Admins \subseteq People
      /\ \A b \in Admins : account[b].role \in {"admin", "superadmin"}
  BY DEF AccountsInv, AccountsTypeOK, Admins
<1>1. CASE Register(c)
  <2>1. PICK p \in People, role \in {"customer", "seller", "dropshipper", "admin"} :
            Enter(c, [Waiting EXCEPT !.pc = "create", !.who = p, !.role = role,
                        !.by = IF role = "admin" THEN "superadmin" ELSE "nobody",
                        !.opens = IF OwnsStore(role) THEN "pending" ELSE "none"])
    BY <1>0, <1>1, ZenonT(30) DEF Register
  <2>. DEFINE next == [Waiting EXCEPT !.pc = "create", !.who = p, !.role = role,
                        !.by = IF role = "admin" THEN "superadmin" ELSE "nobody",
                        !.opens = IF OwnsStore(role) THEN "pending" ELSE "none"]
  <2>2. next \in Call /\ (next.pc # "issue" \/ next.old = Nobody)
    BY <1>0, <2>1, AccountsAssumption, ZenonT(30) DEF Waiting, Call, Roles, NoAccount, User, OwnsStore
  <2>3. CallKnown(next)
    BY <1>0, <2>1, AccountsAssumption DEF Waiting, Roles, OwnsStore, CallKnown, Written
  <2>4. Enter(c, next)
    BY <2>1
  <2>. QED
    BY <2>2, <2>3, <2>4, EnterInv
<1>2. CASE GuestCheckout(c)
  <2>1. PICK p \in People :
            Enter(c, [Waiting EXCEPT !.pc = "create", !.who = p, !.role = "guest"])
    BY <1>0, <1>2 DEF GuestCheckout
  <2>. DEFINE next == [Waiting EXCEPT !.pc = "create", !.who = p, !.role = "guest"]
  <2>2. next \in Call /\ (next.pc # "issue" \/ next.old = Nobody)
    BY <1>0, <2>1, AccountsAssumption DEF Waiting, Call, Roles, NoAccount, User, OwnsStore
  <2>3. CallKnown(next)
    BY <1>0, <2>1, AccountsAssumption DEF Waiting, Roles, OwnsStore, CallKnown, Written
  <2>4. Enter(c, next)
    BY <2>1
  <2>. QED
    BY <2>2, <2>3, <2>4, EnterInv
<1>3. CASE Login(c)
  <2>1. PICK p \in People :
            Enter(c, [Waiting EXCEPT !.pc = "issue", !.who = p, !.seen = account[p]])
    BY <1>0, <1>3 DEF Login
  <2>. DEFINE next == [Waiting EXCEPT !.pc = "issue", !.who = p, !.seen = account[p]]
  <2>2. next \in Call /\ (next.pc # "issue" \/ next.old = Nobody)
    BY <1>0, <2>1, AccountsAssumption DEF Waiting, Call, Roles, NoAccount, User, OwnsStore
  <2>3. CallKnown(next)
    BY <1>0, <2>1, AccountsAssumption DEF Waiting, Roles, OwnsStore, CallKnown, Written
  <2>4. Enter(c, next)
    BY <2>1
  <2>. QED
    BY <2>2, <2>3, <2>4, EnterInv
<1>4. CASE Refresh(c)
  <2>1. PICK t \in Tokens :
            /\ session[t].state # "unused" /\ session[t].owner \in People
            /\ Enter(c, [Waiting EXCEPT !.pc = "revoke", !.who = session[t].owner, !.old = t,
                                        !.seen = account[session[t].owner]])
    BY <1>0, <1>4 DEF Refresh, AccountsInv, TokensKnown
  <2>. DEFINE next == [Waiting EXCEPT !.pc = "revoke", !.who = session[t].owner, !.old = t,
                        !.seen = account[session[t].owner]]
  <2>2. next \in Call /\ (next.pc # "issue" \/ next.old = Nobody)
    BY <1>0, <2>1, AccountsAssumption DEF Waiting, Call, Roles, NoAccount, User, OwnsStore
  <2>3. CallKnown(next)
    BY <1>0, <2>1, AccountsAssumption DEF Waiting, Roles, OwnsStore, CallKnown, Written
  <2>4. Enter(c, next)
    BY <2>1
  <2>. QED
    BY <2>2, <2>3, <2>4, EnterInv
<1>5. CASE ResetPassword(c)
  <2>1. PICK k \in Codes :
            /\ code[k].owner \in People
            /\ Enter(c, [Waiting EXCEPT !.pc = "reset", !.who = code[k].owner, !.old = k])
    BY <1>0, <1>5 DEF ResetPassword, AccountsInv, TokensKnown
  <2>. DEFINE next == [Waiting EXCEPT !.pc = "reset", !.who = code[k].owner, !.old = k]
  <2>2. next \in Call /\ (next.pc # "issue" \/ next.old = Nobody)
    BY <1>0, <2>1, AccountsAssumption DEF Waiting, Call, Roles, NoAccount, User, OwnsStore
  <2>3. CallKnown(next)
    BY <1>0, <2>1, AccountsAssumption DEF Waiting, Roles, OwnsStore, CallKnown, Written
  <2>4. Enter(c, next)
    BY <2>1
  <2>. QED
    BY <2>2, <2>3, <2>4, EnterInv
<1>6. CASE SetRole(c)
  <2>1. PICK b \in Admins, p \in People,
             role \in {"customer", "admin", "dropshipper", "wholesaler"} :
            /\ MaySetRole(account[b].role, account[p].role, role)
            /\ Enter(c, [Waiting EXCEPT !.pc = "role", !.who = p, !.role = role,
                                        !.by = account[b].role, !.seen = account[p]])
    BY <1>0, <1>6 DEF SetRole
  <2>. DEFINE next == [Waiting EXCEPT !.pc = "role", !.who = p, !.role = role,
                        !.by = account[b].role, !.seen = account[p]]
  <2>2. next \in Call /\ (next.pc # "issue" \/ next.old = Nobody)
    BY <1>0, <2>1, AccountsAssumption DEF Waiting, Call, Roles, NoAccount, User, OwnsStore
  <2>3. CallKnown(next)
    BY <1>0, <2>1, AccountsAssumption DEF Waiting, Roles, OwnsStore, CallKnown, Written
  <2>4. Enter(c, next)
    BY <2>1
  <2>. QED
    BY <2>2, <2>3, <2>4, EnterInv
<1>7. CASE RaiseBoss(c)
  <2>. DEFINE next == [Waiting EXCEPT !.pc = IF Known(Boss) THEN "role" ELSE "create",
                            !.who = Boss, !.role = "superadmin", !.by = "bootstrap",
                            !.seen = account[Boss]]
  <2>2. next \in Call /\ (next.pc # "issue" \/ next.old = Nobody)
    BY <1>0, AccountsAssumption DEF Waiting, Call, Roles, NoAccount, User
  <2>3. CallKnown(next)
    BY <1>0, AccountsAssumption DEF Waiting, Roles, CallKnown, Written
  <2>4. Enter(c, next)
    BY <1>7 DEF RaiseBoss
  <2>. QED
    BY <2>2, <2>3, <2>4, EnterInv
<1>8. CASE SoleStore(c)
  <2>1. PICK b \in Admins :
            Enter(c, [Waiting EXCEPT !.pc = "store", !.who = b, !.opens = "approved"])
    BY <1>0, <1>8 DEF SoleStore
  <2>. DEFINE next == [Waiting EXCEPT !.pc = "store", !.who = b, !.opens = "approved"]
  <2>2. next \in Call /\ (next.pc # "issue" \/ next.old = Nobody)
    BY <1>0, <2>1, AccountsAssumption DEF Waiting, Call, Roles, NoAccount, User, OwnsStore
  <2>3. CallKnown(next)
    BY <1>0, <2>1, AccountsAssumption DEF Waiting, Roles, OwnsStore, CallKnown, Written
  <2>4. Enter(c, next)
    BY <2>1
  <2>. QED
    BY <2>2, <2>3, <2>4, EnterInv
<1>. QED
  BY <1>1, <1>2, <1>3, <1>4, <1>5, <1>6, <1>7, <1>8

\* An account comes to be: its address was free, so no token is its.
LEMMA CreateAccountInv ==
    ASSUME AccountsInv, NEW c \in Clerks, CreateAccount(c)
    PROVE  AccountsInv'
<1>1. PICK p \in People : p = clerk[c].who
  BY DEF CreateAccount, AccountsInv, CallsKnow, CallKnown
<1>2. CASE account[p].role # "none"
  <2>1. Leave(c) /\ UNCHANGED <<account, store, session, code, forked, stranded, accountCalls>>
    BY <1>1, <1>2 DEF CreateAccount, history
  <2>2. AccountsTypeOK'
    BY <2>1, LeaveKnown DEF AccountsInv, AccountsTypeOK, Known
  <2>3. SellersOwnStores'
    BY <2>1 DEF AccountsInv, AccountsTypeOK, SellersOwnStores, Leave, CreateAccount
  <2>. QED
    BY <2>1, <2>2, <2>3, Untouched, LeaveKnown, GoOn DEF AccountsInv, TokensKnown
<1>3. CASE account[p].role = "none"
  <2>. DEFINE s == clerk[c]
              guest == s.role = "guest"
              new == [Account(IF guest THEN "customer" ELSE s.role) EXCEPT !.guest = guest]
  <2>1. /\ account' = [account EXCEPT ![p] = new]
        /\ \/ s.opens # "none" /\ clerk' = [clerk EXCEPT ![c] = [s EXCEPT !.pc = "store"]]
           \/ s.opens = "none" /\ clerk' = [clerk EXCEPT ![c] = Waiting]
           \/ s.opens = "none" /\ clerk' = [clerk EXCEPT ![c] = [s EXCEPT !.pc = "issue"]]
        /\ UNCHANGED <<store, session, code, forked, stranded, accountCalls>>
    BY <1>1, <1>3 DEF CreateAccount, history
  <2>2. s \in Call /\ s.pc = "create" /\ CallKnown(s)
    BY DEF CreateAccount, AccountsInv, AccountsTypeOK, CallsKnow
  <2>3. new \in User /\ new.role \in Roles /\ (new.role = "seller" => s.opens = "pending")
    <3>1. \A r \in Roles : [Account(r) EXCEPT !.guest = TRUE].role = r
                        /\ [Account(r) EXCEPT !.guest = FALSE].role = r
                        /\ [Account(r) EXCEPT !.guest = TRUE] \in User
                        /\ [Account(r) EXCEPT !.guest = FALSE] \in User
      BY DEF Account, NoAccount, User
    <3>2. guest \in BOOLEAN /\ (IF guest THEN "customer" ELSE s.role) \in Roles
      BY <2>2 DEF CallKnown, Roles
    <3>3. new.role = (IF guest THEN "customer" ELSE s.role) /\ new \in User
      BY <3>1, <3>2
    <3>. QED
      BY <2>2, <3>2, <3>3 DEF CallKnown
  <2>. HIDE DEF new
  <2>4. AccountsTypeOK'
    <3>1. account' \in [People -> User]
      BY <2>1, <2>3 DEF AccountsInv, AccountsTypeOK
    <3>2. clerk' \in [Clerks -> Call]
      BY <2>1, <2>2, AccountRecords DEF AccountsInv, AccountsTypeOK, Call
    <3>3. \A q \in People : store'[q] # "none" => account'[q].role \in Roles
      BY <2>1, <2>3 DEF AccountsInv, AccountsTypeOK, Known
    <3>. QED
      BY <2>1, <3>1, <3>2, <3>3 DEF AccountsInv, AccountsTypeOK, Known
  <2>5. SellersOwnStores'
    BY <1>1, <2>1, <2>2, <2>3, SMTT(30) DEF AccountsInv, AccountsTypeOK, SellersOwnStores, Call
  <2>6. OnlyEnds /\ AccountsGoOn
    BY <1>3, <2>1 DEF OnlyEnds, AccountsGoOn, AccountsInv, AccountsTypeOK, TokensKnown, Known, Roles
  <2>7. \A d \in Clerks : \/ clerk'[d] = clerk[d]
                          \/ /\ CallKnown(clerk[d])'
                             /\ clerk'[d].pc # "issue" \/ clerk'[d].old = Nobody
    <3>1. \A d \in Clerks \ {c} : clerk'[d] = clerk[d]
      BY <2>1 DEF AccountsInv, AccountsTypeOK
    <3>2. \/ clerk'[c] = Waiting
          \/ /\ clerk'[c].pc \in {"store", "issue"} /\ clerk'[c].who \in People
             /\ clerk'[c].old = Nobody /\ clerk'[c].opens = s.opens
             /\ clerk'[c].pc = "store" => s.opens = "pending"
      BY <2>1, <2>2 DEF AccountsInv, AccountsTypeOK, Call, CallKnown
    <3>. QED
      BY <3>1, <3>2, AccountRecords DEF CallKnown, Waiting
  <2>. QED
    BY <2>1, <2>4, <2>5, <2>6, <2>7, GoOn DEF AccountsInv, TokensKnown
<1>. QED
  BY <1>2, <1>3

\* A store opens, unless its owner is gone or has one.
LEMMA CreateStoreInv ==
    ASSUME AccountsInv, NEW c \in Clerks, CreateStore(c)
    PROVE  AccountsInv'
<1>. DEFINE s == clerk[c]
<1>1. s \in Call /\ s.pc = "store" /\ s.who \in People /\ s.opens # "none" /\ s.old = Nobody
  BY DEF CreateStore, AccountsInv, AccountsTypeOK, CallsKnow, CallKnown
<1>2. UNCHANGED <<account, session, code, forked, stranded, accountCalls>>
  BY DEF CreateStore, history
<1>3. /\ store' = IF MayOwn(s.who) THEN [store EXCEPT ![s.who] = s.opens] ELSE store
      /\ clerk' = [clerk EXCEPT ![c] = IF MayOwn(s.who) /\ s.opens = "pending"
                                       THEN [s EXCEPT !.pc = "issue"] ELSE Waiting]
  BY DEF CreateStore, Leave
<1>4. AccountsTypeOK'
  <2>1. /\ store' \in [People -> {"none", "pending", "approved", "suspended"}]
        /\ \A q \in People : store'[q] # "none" => account'[q].role \in Roles
    BY <1>1, <1>2, <1>3 DEF AccountsInv, AccountsTypeOK, Known, MayOwn, Call
  <2>2. clerk' \in [Clerks -> Call]
    <3>1. [s EXCEPT !.pc = "issue"] \in Call
      BY <1>1 DEF Call
    <3>. QED
      BY <1>3, <3>1, AccountRecords DEF AccountsInv, AccountsTypeOK
  <2>. QED
    BY <1>2, <2>1, <2>2 DEF AccountsInv, AccountsTypeOK, Known
<1>5. SellersOwnStores'
  <2>1. \A d \in Clerks \ {c} : clerk'[d] = clerk[d]
    BY <1>3 DEF AccountsInv, AccountsTypeOK
  <2>2. store'[s.who] # "none" \/ ~Known(s.who)
    BY <1>1, <1>3 DEF MayOwn, AccountsInv, AccountsTypeOK
  <2>3. \A p \in People : store'[p] = "none" => store[p] = "none"
    BY <1>1, <1>3 DEF AccountsInv, AccountsTypeOK
  <2>. QED
    BY <1>2, <2>1, <2>2, <2>3 DEF AccountsInv, SellersOwnStores, Known, Roles
<1>6. \A d \in Clerks : \/ clerk'[d] = clerk[d]
                        \/ /\ CallKnown(clerk[d])'
                           /\ clerk'[d].pc # "issue" \/ clerk'[d].old = Nobody
  <2>1. \A d \in Clerks \ {c} : clerk'[d] = clerk[d]
    BY <1>3 DEF AccountsInv, AccountsTypeOK
  <2>2. \/ clerk'[c] = Waiting
        \/ clerk'[c].pc = "issue" /\ clerk'[c].who \in People /\ clerk'[c].old = Nobody
    BY <1>1, <1>3 DEF AccountsInv, AccountsTypeOK, Call
  <2>. QED
    BY <2>1, <2>2 DEF CallKnown, Waiting
<1>. QED
  BY <1>2, <1>4, <1>5, <1>6, GoOn, Untouched DEF AccountsInv, TokensKnown

\* A role is written over whatever it has become.
LEMMA WriteRoleInv ==
    ASSUME AccountsInv, NEW c \in Clerks, WriteRole(c)
    PROVE  AccountsInv'
<1>. DEFINE s == clerk[c]
<1>1. s.pc = "role" /\ s.who \in People /\ s.role \in Written
  BY DEF WriteRole, AccountsInv, CallsKnow, CallKnown
<1>2. Leave(c) /\ UNCHANGED <<store, session, code, forked, stranded, accountCalls>>
  BY DEF WriteRole, history
<1>3. \A p \in People :
         account'[p] = IF p = s.who /\ Known(p) THEN [account[p] EXCEPT !.role = s.role]
                       ELSE account[p]
  BY <1>1 DEF WriteRole, AccountsInv, AccountsTypeOK
<1>4. \A p \in People :
         /\ account'[p] \in User /\ account'[p].resets = account[p].resets
         /\ account'[p].role = IF p = s.who /\ Known(p) THEN s.role ELSE account[p].role
  <2>. SUFFICES ASSUME NEW p \in People
                PROVE  /\ account'[p] \in User /\ account'[p].resets = account[p].resets
                       /\ account'[p].role = IF p = s.who /\ Known(p) THEN s.role
                                             ELSE account[p].role
    OBVIOUS
  <2>1. account[p] \in User /\ s.role \in Roles
    BY <1>1 DEF AccountsInv, AccountsTypeOK, Written, Roles
  <2>. HIDE DEF s
  <2>2. [account[p] EXCEPT !.role = s.role] \in User
    BY <2>1 DEF User
  <2>3. /\ [account[p] EXCEPT !.role = s.role].role = s.role
        /\ [account[p] EXCEPT !.role = s.role].resets = account[p].resets
    BY <2>1 DEF User
  <2>. QED
    BY <1>3, <2>1, <2>2, <2>3
<1>5. AccountsTypeOK'
  <2>1. account' \in [People -> User]
    <3>1. account' = [p \in People |-> account'[p]]
      BY DEF WriteRole, AccountsInv, AccountsTypeOK
    <3>. QED
      BY <1>4, <3>1
  <2>2. \A p \in People : Known(p) => account'[p].role \in Roles
    BY <1>1, <1>4 DEF Known, Written, Roles
  <2>. QED
    BY <1>2, <2>1, <2>2, LeaveKnown DEF AccountsInv, AccountsTypeOK, Known
<1>6. SellersOwnStores'
  <2>1. \A p \in People : account'[p].role = "seller" => account[p].role = "seller"
    BY <1>1, <1>4 DEF Written
  <2>. QED
    BY <1>1, <1>2, <2>1 DEF AccountsInv, AccountsTypeOK, SellersOwnStores, Leave
<1>7. OnlyEnds /\ AccountsGoOn
  BY <1>1, <1>2, <1>4 DEF OnlyEnds, AccountsGoOn, AccountsInv, TokensKnown, Known, Written, Roles
<1>. QED
  BY <1>2, <1>5, <1>6, <1>7, LeaveKnown, GoOn DEF AccountsInv, TokensKnown

\* A call breaks off.
LEMMA AbandonInv ==
    ASSUME AccountsInv, NEW c \in Clerks, AbandonAccountCall(c)
    PROVE  AccountsInv'
<1>1. Leave(c) /\ UNCHANGED <<account, store, session, code, forked, accountCalls>>
  BY DEF AbandonAccountCall
<1>2. clerk[c] \in Call /\ clerk[c].who \in People /\ CallKnown(clerk[c])
  BY DEF AbandonAccountCall, AccountsInv, AccountsTypeOK, CallsKnow, CallKnown
<1>3. AccountsTypeOK'
  BY <1>1, <1>2, LeaveKnown DEF AbandonAccountCall, AccountsInv, AccountsTypeOK, Known
<1>4. SellersOwnStores'
  <2>. SUFFICES ASSUME NEW p \in People, account[p].role = "seller", store[p] = "none"
                PROVE  p \in stranded' \/ \E d \in Clerks : clerk'[d].pc = "store" /\ clerk'[d].who = p
    BY <1>1 DEF SellersOwnStores
  <2>1. CASE clerk[c].pc = "store" /\ clerk[c].who = p
    <3>1. clerk[c].opens = "pending"
      BY <1>2, <2>1 DEF CallKnown, Call
    <3>. QED
      BY <2>1, <3>1 DEF AbandonAccountCall
  <2>2. CASE ~(clerk[c].pc = "store" /\ clerk[c].who = p)
    BY <1>1, <2>2 DEF AbandonAccountCall, Leave, AccountsInv, AccountsTypeOK, SellersOwnStores
  <2>. QED
    BY <2>1, <2>2
<1>. QED
  BY <1>1, <1>3, <1>4, Untouched, LeaveKnown, GoOn DEF AccountsInv, TokensKnown

\* refresh revokes the token it has read: the exchange begins.
LEMMA RevokeOldInv ==
    ASSUME AccountsInv, NEW c \in Clerks, RevokeOld(c)
    PROVE  AccountsInv'
<1>1. PICK t \in Tokens : /\ t = clerk[c].old /\ session[t].state # "unused"
                          /\ clerk[c].pc = "revoke" /\ clerk[c].who \in People
  BY DEF RevokeOld, AccountsInv, CallsKnow, CallKnown
<1>2. UNCHANGED <<account, store, code, stranded, accountCalls>>
  BY DEF RevokeOld
<1>3. session[t] \in [state : {"unused", "live", "revoked", "gone"},
                      owner : People \cup {Nobody}, login : Tokens \cup {Nobody}, at : Nat]
  BY DEF AccountsInv, AccountsTypeOK
<1>4. SellersOwnStores'
  <2>1. \A d \in Clerks : clerk[d].pc = "store" => clerk'[d] = clerk[d]
    BY <1>1 DEF RevokeOld, Leave, AccountsInv, AccountsTypeOK
  <2>. QED
    BY <1>2, <2>1 DEF AccountsInv, SellersOwnStores
<1>5. CASE session[t].state = "gone"
  <2>1. Leave(c) /\ UNCHANGED <<session, forked>>
    BY <1>1, <1>5 DEF RevokeOld
  <2>2. AccountsTypeOK'
    BY <1>2, <2>1, LeaveKnown DEF AccountsInv, AccountsTypeOK, Known
  <2>. QED
    BY <1>2, <1>4, <2>1, <2>2, Untouched, LeaveKnown, GoOn DEF AccountsInv, TokensKnown
<1>6. CASE session[t].state # "gone"
  <2>1. /\ session' = [session EXCEPT ![t].state = "revoked"]
        /\ clerk' = [clerk EXCEPT ![c].pc = "issue"]
        /\ forked' = IF session[t].state = "live" THEN forked
                     ELSE forked \cup {session[t].login}
    BY <1>1, <1>6 DEF RevokeOld
  <2>2. session[t].login \in Tokens
    BY <1>1 DEF AccountsInv, TokensKnown
  <2>3. /\ \A u \in Tokens \ {t} : session'[u] = session[u]
        /\ session'[t] = [session[t] EXCEPT !.state = "revoked"]
        /\ session'[t].state = "revoked" /\ session'[t].login = session[t].login
    BY <1>3, <2>1 DEF AccountsInv, AccountsTypeOK
  <2>4. /\ \A d \in Clerks \ {c} : clerk'[d] = clerk[d]
        /\ clerk'[c] = [clerk[c] EXCEPT !.pc = "issue"]
        /\ clerk'[c].pc = "issue" /\ clerk'[c].old = t /\ clerk'[c].who \in People
    BY <1>1, <2>1 DEF AccountsInv, AccountsTypeOK, Call
  <2>5. AccountsTypeOK'
    <3>1. clerk' \in [Clerks -> Call]
      <4>1. clerk[c] \in Call
        BY DEF AccountsInv, AccountsTypeOK
      <4>2. [clerk[c] EXCEPT !.pc = "issue"] \in Call
        BY <4>1 DEF Call
      <4>. QED
        BY <2>1, <4>2 DEF AccountsInv, AccountsTypeOK
    <3>2. session' \in [Tokens -> [state : {"unused", "live", "revoked", "gone"},
                                   owner : People \cup {Nobody}, login : Tokens \cup {Nobody},
                                   at : Nat]]
      BY <1>3, <2>1 DEF AccountsInv, AccountsTypeOK
    <3>3. forked' \subseteq Tokens
      BY <2>1, <2>2 DEF AccountsInv, AccountsTypeOK
    <3>. QED
      BY <1>2, <3>1, <3>2, <3>3 DEF AccountsInv, AccountsTypeOK, Known
  <2>6. OnlyEnds
    BY <1>1, <2>3 DEF OnlyEnds
  <2>7. AccountsGoOn
    BY <1>2, <2>3 DEF AccountsGoOn, AccountsInv, TokensKnown, Known
  <2>8. SessionsRotate' /\ TokensKnown'
    BY <1>2, <2>1, <2>6, <2>7, TokensGoOn DEF AccountsInv, TokensKnown
  <2>9. CallsKnow'
    <3>1. CallKnown(clerk[c])'
      BY <2>3, <2>4 DEF CallKnown
    <3>. QED
      BY <2>4, <2>6, <2>7, <3>1, CallsGoOn
  <2>10. ExchangesAlone'
    <3>0. \A u \in Tokens : /\ session'[u].login = session[u].login
                            /\ session'[u].state = "live" => u # t /\ session[u].state = "live"
      BY <2>3
    <3>1. ASSUME NEW d \in Clerks, NEW login \in Tokens, d # c, Exchanges(d, login)'
          PROVE  Exchanges(d, login)
      <4>1. clerk'[d] = clerk[d]
        BY <2>4, <3>1
      <4>2. clerk[d].pc = "issue" /\ clerk[d].old # Nobody
        BY <3>1, <4>1 DEF Exchanges
      <4>3. clerk[d].old \in Tokens
        BY <4>2 DEF AccountsInv, CallsKnow, CallKnown
      <4>. QED
        BY <3>0, <3>1, <4>1, <4>2, <4>3 DEF Exchanges
    <3>2. ASSUME NEW login \in Tokens \ forked', Exchanges(c, login)'
          PROVE  /\ session[t].state = "live" /\ session[t].login = login /\ login \notin forked
                 /\ \A u \in Tokens \ {t} : session[u].login = login => session[u].state # "live"
      BY <2>1, <2>3, <2>4, <3>2 DEF Exchanges, AccountsInv, SessionsRotate
    <3>3. ASSUME NEW d \in Clerks, NEW login \in Tokens \ forked', Exchanges(d, login)'
          PROVE  /\ \A u \in Tokens : session'[u].login = login => session'[u].state # "live"
                 /\ \A e \in Clerks : Exchanges(e, login)' => e = d
      <4>1. login \in Tokens \ forked
        BY <2>1, <3>3
      <4>a. \A e \in Clerks : Exchanges(e, login) =>
                /\ \A u \in Tokens : session[u].login = login => session[u].state # "live"
                /\ \A f \in Clerks : Exchanges(f, login) => f = e
        BY <4>1 DEF AccountsInv, ExchangesAlone
      <4>2. CASE d = c
        <5>1. /\ session[t].state = "live" /\ session[t].login = login
              /\ \A u \in Tokens \ {t} : session[u].login = login => session[u].state # "live"
          BY <3>2, <3>3, <4>2
        <5>2. \A e \in Clerks : Exchanges(e, login)' => e = c
          BY <3>1, <4>1, <4>a, <5>1
        <5>. QED
          BY <3>0, <4>2, <5>1, <5>2
      <4>3. CASE d # c
        <5>1. Exchanges(d, login)
          BY <3>1, <3>3, <4>1, <4>3
        <5>2. session[t].state = "live" => session[t].login # login
          BY <4>a, <5>1
        <5>3. ~Exchanges(c, login)'
          BY <3>2, <5>2
        <5>. QED
          BY <3>0, <3>1, <4>1, <4>a, <5>1, <5>3
      <4>. QED
        BY <4>2, <4>3
    <3>. QED
      BY <3>3 DEF ExchangesAlone
  <2>. QED
    BY <1>4, <2>5, <2>8, <2>9, <2>10 DEF AccountsInv
<1>. QED
  BY <1>5, <1>6

\* A new token: of a login of its own, or of one that has no other.
LEMMA IssueInv ==
    ASSUME AccountsInv, NEW c \in Clerks, Issue(c)
    PROVE  AccountsInv'
<1>. DEFINE s == clerk[c]
<1>1. /\ s.pc = "issue" /\ s.who \in People
      /\ s.old # Nobody => s.old \in Tokens /\ session[s.old].state \in {"revoked", "gone"}
  BY DEF Issue, AccountsInv, CallsKnow, CallKnown
<1>2. Leave(c) /\ UNCHANGED <<account, store, code, forked, stranded, accountCalls>>
  BY DEF Issue, history
<1>3. SellersOwnStores'
  BY <1>1, <1>2 DEF Leave, AccountsInv, AccountsTypeOK, SellersOwnStores
<1>4. CASE ~Known(s.who)
  <2>1. UNCHANGED session
    BY <1>4 DEF Issue
  <2>2. AccountsTypeOK'
    BY <1>2, <2>1, LeaveKnown DEF AccountsInv, AccountsTypeOK, Known
  <2>. QED
    BY <1>2, <1>3, <2>1, <2>2, Untouched, LeaveKnown, GoOn DEF AccountsInv, TokensKnown
<1>5. CASE Known(s.who)
  <2>1. PICK n \in Tokens : /\ n = CHOOSE t \in Tokens : session[t] = NoSession
                            /\ session[n] = NoSession
    BY <1>5 DEF Issue
  <2>. DEFINE L == IF s.old = Nobody THEN n ELSE session[s.old].login
  <2>2. /\ session' = [session EXCEPT ![n] = [state |-> "live", owner |-> s.who, login |-> L,
                                              at |-> account[s.who].resets]]
    BY <1>5, <2>1 DEF Issue
  <2>3. /\ session[n].state = "unused" /\ s.old # n
        /\ L \in Tokens /\ (L = n \/ session[L].state # "unused")
    BY <1>1, <2>1, AccountsAssumption DEF NoSession, AccountsInv, TokensKnown
  <2>4. /\ \A t \in Tokens \ {n} : session'[t] = session[t]
        /\ session'[n].state = "live" /\ session'[n].owner = s.who /\ session'[n].login = L
        /\ session'[n].at = account[s.who].resets
    BY <2>2 DEF AccountsInv, AccountsTypeOK
  <2>5. AccountsTypeOK'
    <3>1. account[s.who].resets \in Nat
      BY <1>1 DEF AccountsInv, AccountsTypeOK, User
    <3>2. session' \in [Tokens -> [state : {"unused", "live", "revoked", "gone"},
                                   owner : People \cup {Nobody}, login : Tokens \cup {Nobody},
                                   at : Nat]]
      BY <1>1, <2>2, <2>3, <3>1 DEF AccountsInv, AccountsTypeOK
    <3>. QED
      BY <1>2, <3>2, LeaveKnown DEF AccountsInv, AccountsTypeOK, Known
  <2>6. ASSUME NEW t \in Tokens, session[t].state # "unused", session[t].login = n PROVE FALSE
    BY <2>3, <2>6 DEF AccountsInv, TokensKnown
  <2>7. s.old # Nobody => Exchanges(c, L)
    BY <1>1 DEF Exchanges
  <2>8. \A t \in Tokens : session[t].state = "live" /\ session[t].login = L => L \in forked
    <3>. SUFFICES ASSUME NEW t \in Tokens, session[t].state = "live", session[t].login = L,
                         L \notin forked
                  PROVE  FALSE
      OBVIOUS
    <3>1. CASE s.old = Nobody
      BY <2>6, <3>1
    <3>2. CASE s.old # Nobody
      BY <2>3, <2>7, <3>2 DEF AccountsInv, ExchangesAlone
    <3>. QED
      BY <3>1, <3>2
  <2>9. SessionsRotate'
    BY <1>2, <2>4, <2>8 DEF AccountsInv, SessionsRotate
  <2>10. TokensKnown'
    <3>1. \A t \in Tokens : session'[t].state = "unused" <=> session'[t] = NoSession
      BY <2>4 DEF AccountsInv, TokensKnown, NoSession
    <3>2. \A t \in Tokens : session'[t].state # "unused" =>
              /\ session'[t].owner \in People /\ session'[t].login \in Tokens
              /\ session'[session'[t].login].state # "unused"
      BY <1>1, <2>3, <2>4 DEF AccountsInv, TokensKnown
    <3>3. \A t \in Tokens : session'[t].state = "live" => account'[session'[t].owner].role \in Roles
      BY <1>2, <1>5, <2>4 DEF AccountsInv, TokensKnown, Known
    <3>. QED
      BY <1>2, <3>1, <3>2, <3>3 DEF AccountsInv, TokensKnown, Known
  <2>11. CallsKnow'
    <3>1. ASSUME NEW d \in Clerks, clerk'[d] = clerk[d] PROVE CallKnown(clerk[d])'
      <4>1. CallKnown(clerk[d])
        BY DEF AccountsInv, CallsKnow
      <4>2. \A t \in Tokens : session[t].state # "unused" => session'[t] = session[t]
        BY <2>3, <2>4
      <4>3. \A t \in Tokens : session[t].state \in {"revoked", "gone"} =>
                                session'[t].state \in {"revoked", "gone"}
        BY <4>2
      <4>4. \A t \in Tokens : session[t].state # "unused" => session'[t].state # "unused"
        BY <4>2
      <4>. QED
        BY <1>2, <3>1, <4>1, <4>3, <4>4 DEF CallKnown
    <3>. QED
      BY <1>2, <3>1, LeaveKnown DEF CallsKnow
  <2>12. ExchangesAlone'
    <3>1. ASSUME NEW d \in Clerks, NEW login \in Tokens, Exchanges(d, login)'
          PROVE  d # c /\ Exchanges(d, login) /\ login # n
      <4>1. d # c /\ clerk'[d] = clerk[d]
        BY <1>2, <3>1 DEF Exchanges, Leave, Waiting, AccountsInv, AccountsTypeOK
      <4>2. clerk[d].old \in Tokens \ {n} /\ session[clerk[d].old].state # "unused"
        BY <2>3, <3>1, <4>1 DEF Exchanges, AccountsInv, CallsKnow, CallKnown
      <4>. QED
        BY <2>4, <2>6, <3>1, <4>1, <4>2 DEF Exchanges
    <3>2. ASSUME NEW d \in Clerks, NEW login \in Tokens \ forked, Exchanges(d, login)'
          PROVE  login # L
      BY <2>7, <3>1, <3>2 DEF AccountsInv, ExchangesAlone
    <3>. QED
      BY <1>2, <2>4, <3>1, <3>2 DEF AccountsInv, ExchangesAlone
  <2>. QED
    BY <1>3, <2>5, <2>9, <2>10, <2>11, <2>12 DEF AccountsInv
<1>. QED
  BY <1>4, <1>5

\* What is left of tokens when the tokens of set R end in state e.
Ending(R, e) ==
    session' = [t \in Tokens |-> IF t \in R THEN [session[t] EXCEPT !.state = e] ELSE session[t]]

LEMMA EndingOnlyEnds ==
    ASSUME AccountsInv, NEW R \in SUBSET Tokens, \A t \in R : session[t].state # "unused",
           NEW e \in {"revoked", "gone"}, Ending(R, e)
    PROVE  /\ OnlyEnds
           /\ session' \in [Tokens -> [state : {"unused", "live", "revoked", "gone"},
                                       owner : People \cup {Nobody},
                                       login : Tokens \cup {Nobody}, at : Nat]]
           /\ \A t \in Tokens : session'[t].state = "live" =>
                 t \notin R /\ session[t].state = "live" /\ account[session[t].owner].role \in Roles
<1>1. OnlyEnds
  BY DEF OnlyEnds, Ending
<1>2. session' \in [Tokens -> [state : {"unused", "live", "revoked", "gone"},
                               owner : People \cup {Nobody}, login : Tokens \cup {Nobody},
                               at : Nat]]
  BY DEF Ending, AccountsInv, AccountsTypeOK
<1>3. ASSUME NEW t \in Tokens, session'[t].state = "live"
      PROVE  t \notin R /\ session[t].state = "live" /\ account[session[t].owner].role \in Roles
  <2>1. session[t] \in [state : {"unused", "live", "revoked", "gone"},
                        owner : People \cup {Nobody}, login : Tokens \cup {Nobody}, at : Nat]
    BY DEF AccountsInv, AccountsTypeOK
  <2>2. t \notin R
    BY <1>3, <2>1 DEF Ending
  <2>. QED
    BY <1>3, <2>2 DEF Ending, AccountsInv, TokensKnown, Known
<1>. QED
  BY <1>1, <1>2, <1>3

\* A reset ends every session of the account with the old password.
LEMMA ResetWriteInv ==
    ASSUME AccountsInv, NEW c \in Clerks, ResetWrite(c)
    PROVE  AccountsInv'
<1>1. PICK p \in People, k \in Codes :
         p = clerk[c].who /\ k = clerk[c].old /\ clerk[c].pc = "reset" /\ Known(p)
  BY DEF ResetWrite, AccountsInv, CallsKnow, CallKnown
<1>2. /\ account' = [account EXCEPT ![p].resets = @ + 1]
      /\ code' = [code EXCEPT ![k].state = "used"]
      /\ session' = Revoked(p)
      /\ Leave(c) /\ UNCHANGED <<store, forked, stranded, accountCalls>>
  BY <1>1 DEF ResetWrite, history
<1>. DEFINE R == {t \in Tokens : session[t].owner = p /\ session[t].state = "live"}
<1>3. /\ OnlyEnds
      /\ session' \in [Tokens -> [state : {"unused", "live", "revoked", "gone"},
                                  owner : People \cup {Nobody}, login : Tokens \cup {Nobody},
                                  at : Nat]]
      /\ \A t \in Tokens : session'[t].state = "live" =>
            /\ t \notin R /\ session[t].state = "live"
            /\ account[session[t].owner].role \in Roles
  <2>1. Ending(R, "revoked")
    BY <1>2 DEF Ending, Revoked
  <2>2. R \in SUBSET Tokens /\ \A t \in R : session[t].state # "unused"
    OBVIOUS
  <2>. HIDE DEF R
  <2>. QED
    BY <2>1, <2>2, EndingOnlyEnds
<1>4. \A q \in People : /\ account'[q] \in User
                        /\ account'[q].role = account[q].role
                        /\ q # p => account'[q] = account[q]
  BY <1>2 DEF AccountsInv, AccountsTypeOK, User
<1>5. AccountsTypeOK'
  <2>1. account' \in [People -> User]
    <3>1. account' = [q \in People |-> account'[q]]
      BY <1>2 DEF AccountsInv, AccountsTypeOK
    <3>. QED
      BY <1>4, <3>1
  <2>2. code' \in [Codes -> [state : {"unused", "open", "used", "expired", "gone"},
                             owner : People \cup {Nobody}]]
    BY <1>2 DEF AccountsInv, AccountsTypeOK
  <2>. QED
    BY <1>2, <1>3, <1>4, <2>1, <2>2, LeaveKnown DEF AccountsInv, AccountsTypeOK, Known
<1>6. SellersOwnStores'
  BY <1>1, <1>2, <1>4 DEF Leave, AccountsInv, AccountsTypeOK, SellersOwnStores
<1>7. AccountsGoOn
  BY <1>3, <1>4 DEF AccountsGoOn, AccountsInv, TokensKnown
<1>8. \A j \in Codes : code'[j].state = "open" => code'[j].owner \in People
  BY <1>1, <1>2 DEF AccountsInv, AccountsTypeOK, TokensKnown
<1>. QED
  BY <1>2, <1>3, <1>5, <1>6, <1>7, <1>8, LeaveKnown, GoOn

\* An account goes, and its tokens, codes and store with it.
LEMMA DeleteUserInv ==
    ASSUME AccountsInv, NEW p \in People, DeleteUser(p)
    PROVE  AccountsInv'
<1>. USE DEF DeleteUser, Counted
<1>. DEFINE R == {t \in Tokens : session[t].owner = p}
<1>1. /\ OnlyEnds
      /\ session' \in [Tokens -> [state : {"unused", "live", "revoked", "gone"},
                                  owner : People \cup {Nobody}, login : Tokens \cup {Nobody},
                                  at : Nat]]
      /\ \A t \in Tokens : session'[t].state = "live" =>
            /\ t \notin R /\ session[t].state = "live"
            /\ account[session[t].owner].role \in Roles
  <2>1. Ending(R, "gone")
    BY DEF Ending
  <2>2. R \in SUBSET Tokens /\ \A t \in R : session[t].state # "unused"
    BY AccountsAssumption DEF AccountsInv, TokensKnown, NoSession
  <2>. HIDE DEF R
  <2>. QED
    BY <2>1, <2>2, EndingOnlyEnds
<1>2. \A q \in People : account'[q] = IF q = p THEN Account("deleted") ELSE account[q]
  BY DEF AccountsInv, AccountsTypeOK
<1>3. \A k \in Codes : code'[k].state = "open" => code'[k].owner \in People
  <2>1. \A k \in Codes : code'[k] = IF code[k].owner = p THEN [code[k] EXCEPT !.state = "gone"]
                                    ELSE code[k]
    OBVIOUS
  <2>. QED
    BY <2>1 DEF AccountsInv, AccountsTypeOK, TokensKnown
<1>4. AccountsTypeOK'
  <2>1. /\ account' \in [People -> User]
        /\ store' \in [People -> {"none", "pending", "approved", "suspended"}]
        /\ \A q \in People : store'[q] # "none" => account'[q].role \in Roles
    BY AccountRecords DEF AccountsInv, AccountsTypeOK, Known
  <2>2. code' \in [Codes -> [state : {"unused", "open", "used", "expired", "gone"},
                             owner : People \cup {Nobody}]]
    BY DEF AccountsInv, AccountsTypeOK
  <2>. QED
    BY <1>1, <2>1, <2>2, AccountsAssumption DEF AccountsInv, AccountsTypeOK, Known
<1>5. SellersOwnStores'
  BY <1>2, AccountRecords DEF AccountsInv, AccountsTypeOK, SellersOwnStores
<1>6. AccountsGoOn
  BY <1>1, <1>2, AccountRecords DEF AccountsGoOn, AccountsInv, TokensKnown
<1>. QED
  BY <1>1, <1>3, <1>4, <1>5, <1>6, GoOn

\* Tokens and codes that end on their own or are handed in.
LEMMA EndInv ==
    ASSUME AccountsInv, Expire \/ \E t \in Tokens : Logout(t)
    PROVE  AccountsInv'
<1>. USE DEF Expire, Logout, Counted
<1>1. CASE UNCHANGED code /\ \E t \in Tokens : /\ session[t].state = "live"
                                               /\ session' = [session EXCEPT ![t].state = "revoked"]
  <2>1. PICK t \in Tokens : /\ session[t].state = "live"
                            /\ session' = [session EXCEPT ![t].state = "revoked"]
    BY <1>1
  <2>2. Ending({t}, "revoked")
    BY <2>1 DEF Ending, AccountsInv, AccountsTypeOK
  <2>3. /\ OnlyEnds
        /\ session' \in [Tokens -> [state : {"unused", "live", "revoked", "gone"},
                                    owner : People \cup {Nobody}, login : Tokens \cup {Nobody},
                                    at : Nat]]
        /\ \A u \in Tokens : session'[u].state = "live" =>
              session[u].state = "live" /\ account[session[u].owner].role \in Roles
    BY <2>1, <2>2, EndingOnlyEnds
  <2>a. /\ UNCHANGED <<account, store, clerk, forked, stranded>>
        /\ accountCalls < MaxAccountCalls /\ accountCalls' = accountCalls + 1
    OBVIOUS
  <2>4. AccountsTypeOK'
    BY <1>1, <2>3, <2>a, AccountsAssumption DEF AccountsInv, AccountsTypeOK, Known
  <2>5. SellersOwnStores' /\ AccountsGoOn
    BY <2>3 DEF AccountsInv, SellersOwnStores, AccountsGoOn
  <2>. QED
    BY <1>1, <2>3, <2>4, <2>5, GoOn DEF AccountsInv, TokensKnown
<1>2. CASE UNCHANGED session /\ \E k \in Codes : code' = [code EXCEPT ![k].state = "expired"]
  <2>1. AccountsTypeOK'
    BY <1>2, AccountsAssumption DEF AccountsInv, AccountsTypeOK, Known
  <2>2. SellersOwnStores'
    BY DEF AccountsInv, SellersOwnStores
  <2>3. \A k \in Codes : code'[k].state = "open" => code'[k].owner \in People
    BY <1>2 DEF AccountsInv, AccountsTypeOK, TokensKnown
  <2>. QED
    BY <1>2, <2>1, <2>2, <2>3, Untouched, GoOn
<1>. QED
  BY <1>1, <1>2

\* Admins suspend accounts and approve stores; people ask for a new password.
LEMMA AdminInv ==
    ASSUME AccountsInv, NEW p \in People,
           SetUserStatus(p) \/ SetStoreStatus(p) \/ \E k \in Codes : ForgotPassword(p, k)
    PROVE  AccountsInv'
<1>. USE DEF Counted
<1>1. CASE SetUserStatus(p)
  <2>. USE <1>1 DEF SetUserStatus
  <2>1. \A q \in People : /\ account'[q] \in User
                          /\ account'[q].role = account[q].role
                          /\ account'[q].resets = account[q].resets
    <3>1. TAKE q \in People
    <3>2. account \in [People -> User] /\ account[p] \in User /\ account[q] \in User
      BY DEF AccountsInv, AccountsTypeOK
    <3>3. CASE q = p
      <4>1. account'[q] = [account[q] EXCEPT !.suspended = ~account[q].suspended]
        BY <3>2, <3>3
      <4>2. \A u \in User : [u EXCEPT !.suspended = ~u.suspended] \in User
        BY DEF User
      <4>3. /\ [account[q] EXCEPT !.suspended = ~account[q].suspended].role = account[q].role
            /\ [account[q] EXCEPT !.suspended = ~account[q].suspended].resets = account[q].resets
        BY <3>2 DEF User
      <4>. QED
        BY <3>2, <4>1, <4>2, <4>3
    <3>4. CASE q # p
      BY <3>2, <3>4
    <3>. QED
      BY <3>3, <3>4
  <2>2. account' \in [People -> User]
    <3>1. account' = [q \in People |-> account'[q]]
      BY DEF AccountsInv, AccountsTypeOK
    <3>. QED
      BY <2>1, <3>1
  <2>3. AccountsTypeOK'
    BY <2>1, <2>2, AccountsAssumption DEF AccountsInv, AccountsTypeOK, Known
  <2>4. SellersOwnStores'
    BY <2>1 DEF AccountsInv, SellersOwnStores
  <2>5. OnlyEnds /\ AccountsGoOn
    BY <2>1 DEF OnlyEnds, AccountsGoOn, AccountsInv, TokensKnown, Known
  <2>. QED
    BY <2>3, <2>4, <2>5, GoOn DEF AccountsInv, TokensKnown
<1>2. CASE SetStoreStatus(p)
  <2>. USE <1>2 DEF SetStoreStatus
  <2>1. AccountsTypeOK'
    BY AccountsAssumption DEF AccountsInv, AccountsTypeOK, Known
  <2>2. SellersOwnStores'
    BY DEF AccountsInv, AccountsTypeOK, SellersOwnStores
  <2>. QED
    BY <2>1, <2>2, Untouched, GoOn DEF AccountsInv, TokensKnown
<1>3. ASSUME NEW k \in Codes, ForgotPassword(p, k) PROVE AccountsInv'
  <2>. USE <1>3 DEF ForgotPassword
  <2>1. AccountsTypeOK'
    BY AccountsAssumption DEF AccountsInv, AccountsTypeOK, Known
  <2>2. SellersOwnStores'
    BY DEF AccountsInv, SellersOwnStores
  <2>3. \A j \in Codes : code'[j].state = "open" => code'[j].owner \in People
    BY DEF AccountsInv, AccountsTypeOK, TokensKnown
  <2>. QED
    BY <2>1, <2>2, <2>3, Untouched, GoOn
<1>. QED
  BY <1>1, <1>2, <1>3

\* Every step keeps the invariant.
LEMMA AccountsNextInv == AccountsInv /\ [AccountsNext]_AccountsVars => AccountsInv'
<1>. SUFFICES ASSUME AccountsInv, [AccountsNext]_AccountsVars PROVE AccountsInv'
  OBVIOUS
<1>1. CASE UNCHANGED AccountsVars
  <2>1. AccountsTypeOK' /\ SellersOwnStores'
    BY <1>1 DEF AccountsVars, AccountsInv, AccountsTypeOK, SellersOwnStores, Known
  <2>. QED
    BY <1>1, <2>1, Untouched, GoOn DEF AccountsVars, AccountsInv, TokensKnown
<1>2. CASE AccountsNext
  BY <1>2, StartsInv, CreateAccountInv, CreateStoreInv, RevokeOldInv, IssueInv, ResetWriteInv,
     WriteRoleInv, AbandonInv, EndInv, AdminInv, DeleteUserInv DEF AccountsNext
<1>. QED
  BY <1>1, <1>2

\* AccountsInv is an invariant.
THEOREM AccountsInvariance == AccountsSpec => []AccountsInv
BY AccountsInitInv, AccountsNextInv, PTL DEF AccountsSpec

\* Every variable keeps its type, and every store has an owner.
THEOREM AccountsTypeCorrect == AccountsSpec => []AccountsTypeOK
BY AccountsInvariance, PTL DEF AccountsInv

\* Rotation leaves a login one live token, and a reset of the password none,
\* but where two calls have exchanged the same token.
THEOREM LoginsHaveOneToken == AccountsSpec => []SessionsRotate
BY AccountsInvariance, PTL DEF AccountsInv

\* Sellers without a store are those whose registration is under way or broke
\* off: no deletion, change of role or second call makes another.
THEOREM EverySellerOwnsAStore == AccountsSpec => []SellersOwnStores
BY AccountsInvariance, PTL DEF AccountsInv

\* A step that changes the role of an account that goes on to or from admin ends
\* a call of the Super Admin or the bootstrap, or one that decided by a role since
\* changed.
LEMMA OnlyTheBoss ==
    ASSUME AccountsInv, [AccountsNext]_AccountsVars, NEW p \in People,
           account[p].role # account'[p].role, account'[p].role # "deleted",
           "admin" \in {account[p].role, account'[p].role}
    PROVE  \E c \in Clerks : /\ clerk[c].who = p /\ clerk'[c] = Waiting
                             /\ \/ clerk[c].by \in {"superadmin", "bootstrap"}
                                \/ clerk[c].seen.role # account[p].role
<1>1. /\ \A q \in People : ~SetUserStatus(q) /\ ~DeleteUser(q)
      /\ \A c \in Clerks : ~ResetWrite(c)
  <2>0. account \in [People -> User]
    BY DEF AccountsInv, AccountsTypeOK
  <2>1. ASSUME NEW q \in People, SetUserStatus(q) PROVE FALSE
    BY <2>0, <2>1 DEF SetUserStatus, User
  <2>2. ASSUME NEW q \in People, DeleteUser(q) PROVE FALSE
    BY <2>0, <2>2, AccountRecords DEF DeleteUser
  <2>3. ASSUME NEW c \in Clerks, ResetWrite(c) PROVE FALSE
    <3>1. clerk[c].who \in People
      BY <2>3 DEF ResetWrite, AccountsInv, CallsKnow, CallKnown
    <3>. QED
      BY <2>0, <2>3, <3>1 DEF ResetWrite, User
  <2>. QED
    BY <2>1, <2>2, <2>3
<1>2. account' = account \/ \E c \in Clerks : CreateAccount(c) \/ WriteRole(c)
  BY <1>1, ZenonT(30) DEF AccountsNext, AccountsVars, Register, GuestCheckout, Login, Refresh, ResetPassword,
              SetRole, RaiseBoss, SoleStore, Enter, CreateStore, RevokeOld, Issue,
              AbandonAccountCall, Logout, SetStoreStatus, ForgotPassword, Expire
<1>3. PICK c \in Clerks : CreateAccount(c) \/ WriteRole(c)
  BY <1>2
<1>4. clerk[c] \in Call /\ CallKnown(clerk[c]) /\ clerk[c].who \in People
  BY <1>3 DEF CreateAccount, WriteRole, AccountsInv, AccountsTypeOK, CallsKnow, CallKnown
<1>5. CASE CreateAccount(c)
  <2>1. clerk[c].who = p /\ account[p].role = "none" /\ account'[p].role = "admin"
    BY <1>4, <1>5 DEF CreateAccount, AccountsInv, AccountsTypeOK
  <2>2. clerk[c].role = "admin"
    <3>1. \A r, g : [Account(r) EXCEPT !.guest = g].role = r
      BY DEF Account, NoAccount
    <3>. DEFINE r == IF clerk[c].role = "guest" THEN "customer" ELSE clerk[c].role
                new == [Account(r) EXCEPT !.guest = (clerk[c].role = "guest")]
    <3>2. account'[p].role = r
      <4>1. account' = [account EXCEPT ![clerk[c].who] = new]
        BY <1>5, <2>1 DEF CreateAccount
      <4>2. new.role = r
        BY <3>1
      <4>. HIDE DEF new, r
      <4>. QED
        BY <1>4, <2>1, <4>1, <4>2 DEF AccountsInv, AccountsTypeOK
    <3>. QED
      BY <2>1, <3>2
  <2>3. clerk[c].by = "superadmin" /\ clerk[c].opens = "none"
    BY <1>4, <1>5, <2>2 DEF CreateAccount, CallKnown
  <2>4. clerk'[c] = Waiting
    BY <1>5, <2>1, <2>2, <2>3 DEF CreateAccount, Leave, AccountsInv, AccountsTypeOK
  <2>. QED
    BY <2>1, <2>3, <2>4
<1>6. CASE WriteRole(c)
  <2>1. clerk[c].who = p /\ account'[p].role = clerk[c].role
    BY <1>4, <1>6 DEF WriteRole, AccountsInv, AccountsTypeOK, User
  <2>2. clerk'[c] = Waiting /\ clerk[c].pc = "role"
    BY <1>6 DEF WriteRole, Leave, AccountsInv, AccountsTypeOK
  <2>3. \/ clerk[c].by = "bootstrap"
        \/ "admin" \in {clerk[c].seen.role, clerk[c].role} => clerk[c].by = "superadmin"
    BY <1>4, <2>2 DEF CallKnown, MaySetRole
  <2>. QED
    BY <2>1, <2>2, <2>3
<1>. QED
  BY <1>3, <1>5, <1>6

\* However calls overlap, a role is changed to or from admin only by the Super
\* Admin and the bootstrap, or by a call that decided by a role since changed.
THEOREM OnlyTheBossChangesAdminRoles == AccountsSpec => AdminRoleByTheBoss
<1>1. AccountsInv /\ [AccountsNext]_AccountsVars =>
        [\A p \in People :
            account[p].role # account'[p].role /\ account'[p].role # "deleted"
              /\ "admin" \in {account[p].role, account'[p].role}
            => \E c \in Clerks : /\ clerk[c].who = p /\ clerk'[c] = Waiting
                                 /\ \/ clerk[c].by \in {"superadmin", "bootstrap"}
                                    \/ clerk[c].seen.role # account[p].role]_AccountsVars
  BY OnlyTheBoss
<1>. QED
  BY <1>1, AccountsInvariance, PTL DEF AccountsSpec, AdminRoleByTheBoss
=============================================================================
