------------------------------- MODULE Accounts -------------------------------
(***************************************************************************)
(* Accounts, their roles, sessions and stores (auth.service, the users     *)
(* part of admin.service, soleStore, the bootstrap of the Super Admin).    *)
(* A call reads what it decides by with one statement, often waits for a   *)
(* password hash, and writes with others; only the reset of a password     *)
(* writes in a transaction.  E-mail verification is left out: nothing      *)
(* depends on it.                                                          *)
(***************************************************************************)
EXTENDS Integers, FiniteSets

CONSTANTS
    People,     \* e-mail addresses; a deleted account's is not used again (bound)
    Boss,       \* SUPERADMIN_EMAIL
    Tokens,     \* refresh tokens that may come to exist
    Codes,      \* codes for a forgotten password that may come to exist
    Clerks,     \* calls under way at the same time
    StartRoles, \* roles people may start with
    MaxAccountCalls, \* bound on calls
    Nobody

Roles == {"customer", "seller", "dropshipper", "wholesaler", "admin", "superadmin"}

ASSUME AccountsAssumption ==
    /\ Boss \in People /\ MaxAccountCalls \in Nat /\ StartRoles \subseteq Roles \cup {"none"}
    /\ Nobody \notin People \cup Tokens \cup Codes

VARIABLES
    account, \* User: role ("none": no row yet), guest, suspended, resets of the password
    store,   \* Store.status by owner; "none"
    session, \* RefreshToken: state, owner, and history: its login's first token
             \* and the number of resets when it was issued
    code,    \* PasswordResetToken
    clerk,   \* per call: its step and what it has read
    \* history
    forked,  \* logins whose token two overlapping calls have exchanged
    stranded, \* sellers whose registration broke off
    accountCalls

AccountsVars ==
    <<account, store, session, code, clerk, forked, stranded, accountCalls>>
history == <<forked, stranded, accountCalls>>

NoAccount == [role |-> "none", guest |-> FALSE, suspended |-> FALSE, resets |-> 0]
Account(role) == [NoAccount EXCEPT !.role = role]
NoSession == [state |-> "unused", owner |-> Nobody, login |-> Nobody, at |-> 0]
NoCode == [state |-> "unused", owner |-> Nobody]
Waiting == [pc |-> "idle", who |-> Nobody, role |-> "none", seen |-> NoAccount,
            by |-> "nobody", old |-> Nobody, opens |-> "none"]

Known(p) == account[p].role \in Roles

\* Faulty variant: sellers are forgotten.
OwnsStoreDropshipper(role) == role = "dropshipper"

\* register opens a store for both.
OwnsStore(role) == role \in {"seller", "dropshipper"}

Admins == {p \in People : account[p].role \in {"admin", "superadmin"} /\ ~account[p].suspended}

AccountsInit ==
    /\ account \in [People -> {Account(r) : r \in StartRoles}]
    /\ store = [p \in People |-> IF OwnsStore(account[p].role) THEN "pending" ELSE "none"]
    /\ session = [t \in Tokens |-> NoSession]
    /\ code = [k \in Codes |-> NoCode]
    /\ clerk = [c \in Clerks |-> Waiting]
    /\ forked = {} /\ stranded = {} /\ accountCalls = 0
-----------------------------------------------------------------------------
Counted == accountCalls < MaxAccountCalls /\ accountCalls' = accountCalls + 1

\* A call reads the database and goes on to its next step.
Enter(c, next) ==
    /\ clerk[c].pc = "idle" /\ Counted
    /\ clerk' = [clerk EXCEPT ![c] = next]
    /\ UNCHANGED <<account, store, session, code, forked, stranded>>

Leave(c) == clerk' = [clerk EXCEPT ![c] = Waiting]

\* register, and createAdmin, by the Super Admin: the address is not taken.
Register(c) ==
    \E p \in People, role \in {"customer", "seller", "dropshipper", "admin"} :
        /\ account[p].role = "none"
        /\ role = "admin" => \E b \in Admins : account[b].role = "superadmin"
        /\ Enter(c, [Waiting EXCEPT !.pc = "create", !.who = p, !.role = role,
                        !.by = IF role = "admin" THEN "superadmin" ELSE "nobody",
                        !.opens = IF OwnsStore(role) THEN "pending" ELSE "none"])

\* findOrCreateGuestUser makes an account without a password; it uses one it
\* has made before, and sends the owner of a real one to the login.
GuestCheckout(c) ==
    \E p \in People :
        /\ account[p].role = "none"
        /\ Enter(c, [Waiting EXCEPT !.pc = "create", !.who = p, !.role = "guest"])

Login(c) ==
    \E p \in People :
        /\ Known(p) /\ ~account[p].suspended
        /\ Enter(c, [Waiting EXCEPT !.pc = "issue", !.who = p, !.seen = account[p]])

\* refresh: the token is not revoked; being suspended is no obstacle.
Refresh(c) ==
    \E t \in Tokens :
        /\ session[t].state = "live"
        /\ Enter(c, [Waiting EXCEPT !.pc = "revoke", !.who = session[t].owner, !.old = t,
                                    !.seen = account[session[t].owner]])

\* resetPassword: the code is open.
ResetPassword(c) ==
    \E k \in Codes :
        /\ code[k].state = "open"
        /\ Enter(c, [Waiting EXCEPT !.pc = "reset", !.who = code[k].owner, !.old = k])

\* Faulty variant: what the account has been is not looked at.
MayChange(by, from, to) ==
    /\ from # "superadmin"
    /\ to = "admin" => by = "superadmin"

\* setUserRole's checks of the role it has read.
MaySetRole(by, from, to) ==
    /\ from # "superadmin"
    /\ "admin" \in {from, to} => by = "superadmin"
    /\ from # "seller"
    /\ ~(from \in {"dropshipper", "wholesaler"} /\ to = "admin")

SetRole(c) ==
    \E b \in Admins, p \in People, role \in {"customer", "admin", "dropshipper", "wholesaler"} :
        /\ Known(p) /\ MaySetRole(account[b].role, account[p].role, role)
        /\ Enter(c, [Waiting EXCEPT !.pc = "role", !.who = p, !.role = role,
                                    !.by = account[b].role, !.seen = account[p]])

\* The bootstrap: the account of SUPERADMIN_EMAIL is created or raised.
RaiseBoss(c) ==
    /\ account[Boss].role # "deleted" /\ account[Boss].role # "superadmin"
    /\ Enter(c, [Waiting EXCEPT !.pc = IF Known(Boss) THEN "role" ELSE "create",
                    !.who = Boss, !.role = "superadmin", !.by = "bootstrap",
                    !.seen = account[Boss]])

\* getStoreForOwner, for an admin without a store on a platform without one.
SoleStore(c) ==
    \E b \in Admins :
        /\ \A p \in People : store[p] = "none"
        /\ Enter(c, [Waiting EXCEPT !.pc = "store", !.who = b, !.opens = "approved"])
-----------------------------------------------------------------------------
\* User.email is unique: the second of two calls fails.  A seller's store comes
\* next, then the tokens; a guest and an admin get none.
CreateAccount(c) ==
    LET s == clerk[c]
        guest == s.role = "guest"
    IN  /\ s.pc = "create"
        /\ IF account[s.who].role # "none" THEN Leave(c) /\ UNCHANGED account
           ELSE /\ account' = [account EXCEPT ![s.who] =
                        [Account(IF guest THEN "customer" ELSE s.role) EXCEPT !.guest = guest]]
                /\ clerk' = [clerk EXCEPT ![c] =
                        IF s.opens # "none" THEN [s EXCEPT !.pc = "store"]
                        ELSE IF guest \/ s.by # "nobody" THEN Waiting
                        ELSE [s EXCEPT !.pc = "issue"]]
        /\ UNCHANGED <<store, session, code, history>>

\* Faulty variant: a store of nobody's.
FreeToOwn(p) == store[p] = "none"

\* Store.ownerId is unique, and refers to an account.
MayOwn(p) == Known(p) /\ store[p] = "none"

CreateStore(c) ==
    LET s == clerk[c]
    IN  /\ s.pc = "store"
        /\ IF MayOwn(s.who)
           THEN /\ store' = [store EXCEPT ![s.who] = s.opens]
                /\ clerk' = [clerk EXCEPT ![c] =
                        IF s.opens = "pending" THEN [s EXCEPT !.pc = "issue"] ELSE Waiting]
           ELSE Leave(c) /\ UNCHANGED store
        /\ UNCHANGED <<account, session, code, history>>

\* refresh revokes the token it has read, whatever has become of it.
RevokeOld(c) ==
    LET t == clerk[c].old
    IN  /\ clerk[c].pc = "revoke"
        /\ IF session[t].state = "gone"
           THEN Leave(c) /\ UNCHANGED <<session, forked>>
           ELSE /\ session' = [session EXCEPT ![t].state = "revoked"]
                /\ clerk' = [clerk EXCEPT ![c].pc = "issue"]
                /\ forked' = IF session[t].state = "live" THEN forked
                             ELSE forked \cup {session[t].login}
        /\ UNCHANGED <<account, store, code, stranded, accountCalls>>

\* issueTokenPair.
Issue(c) ==
    LET s == clerk[c]
    IN  /\ s.pc = "issue"
        /\ IF ~Known(s.who) THEN UNCHANGED session
           ELSE /\ \E t \in Tokens : session[t] = NoSession
                /\ LET t == CHOOSE t \in Tokens : session[t] = NoSession
                   IN  session' = [session EXCEPT ![t] = [state |-> "live", owner |-> s.who,
                            login |-> IF s.old = Nobody THEN t ELSE session[s.old].login,
                            at |-> account[s.who].resets]]
        /\ Leave(c) /\ UNCHANGED <<account, store, code, history>>

Revoked(p) == [t \in Tokens |-> IF session[t].owner = p /\ session[t].state = "live"
                                THEN [session[t] EXCEPT !.state = "revoked"] ELSE session[t]]

\* Faulty variant: sessions go on.
ResetWriteOnly(c) ==
    LET s == clerk[c]
    IN  /\ s.pc = "reset" /\ Known(s.who)
        /\ account' = [account EXCEPT ![s.who].resets = @ + 1]
        /\ code' = [code EXCEPT ![s.old].state = "used"]
        /\ Leave(c) /\ UNCHANGED <<store, session, history>>

\* One transaction: the password, the code, and every session of the account.
ResetWrite(c) ==
    LET s == clerk[c]
    IN  /\ s.pc = "reset" /\ Known(s.who)
        /\ account' = [account EXCEPT ![s.who].resets = @ + 1]
        /\ code' = [code EXCEPT ![s.old].state = "used"]
        /\ session' = Revoked(s.who)
        /\ Leave(c) /\ UNCHANGED <<store, history>>

WriteRole(c) ==
    /\ clerk[c].pc = "role"
    /\ account' = IF Known(clerk[c].who) THEN [account EXCEPT ![clerk[c].who].role = clerk[c].role]
                  ELSE account
    /\ Leave(c) /\ UNCHANGED <<store, session, code, history>>

\* An error, or the end of the process, between two statements.
AbandonAccountCall(c) ==
    /\ clerk[c].pc # "idle"
    /\ stranded' = IF clerk[c].pc = "store" /\ clerk[c].opens = "pending"
                   THEN stranded \cup {clerk[c].who} ELSE stranded
    /\ Leave(c) /\ UNCHANGED <<account, store, session, code, forked, accountCalls>>
-----------------------------------------------------------------------------
\* Calls of one statement that matters.

Logout(t) ==
    /\ session[t].state = "live" /\ Counted
    /\ session' = [session EXCEPT ![t].state = "revoked"]
    /\ UNCHANGED <<account, store, code, clerk, forked, stranded>>

\* requestPasswordReset, also on behalf of an admin.
ForgotPassword(p, k) ==
    /\ Known(p) /\ code[k] = NoCode /\ Counted
    /\ code' = [code EXCEPT ![k] = [state |-> "open", owner |-> p]]
    /\ UNCHANGED <<account, store, session, clerk, forked, stranded>>

SetUserStatus(p) ==
    /\ Admins # {} /\ Known(p) /\ Counted
    /\ account' = [account EXCEPT ![p].suspended = ~@]
    /\ UNCHANGED <<store, session, code, clerk, forked, stranded>>

SetStoreStatus(p) ==
    /\ Admins # {} /\ store[p] # "none" /\ Counted
    /\ \E s \in {"pending", "approved", "suspended"} \ {store[p]} : store' = [store EXCEPT ![p] = s]
    /\ UNCHANGED <<account, session, code, clerk, forked, stranded>>

\* Sessions, codes and the store go with the account; a customer with orders
\* is kept by the reference of the orders.
DeleteUser(p) ==
    /\ Admins # {} /\ Known(p) /\ Counted
    /\ account' = [account EXCEPT ![p] = Account("deleted")]
    /\ store' = [store EXCEPT ![p] = "none"]
    /\ session' = [t \in Tokens |-> IF session[t].owner = p
                                    THEN [session[t] EXCEPT !.state = "gone"] ELSE session[t]]
    /\ code' = [k \in Codes |-> IF code[k].owner = p
                                THEN [code[k] EXCEPT !.state = "gone"] ELSE code[k]]
    /\ UNCHANGED <<clerk, forked, stranded>>

Expire ==
    /\ \/ \E k \in Codes : code[k].state = "open" /\ code' = [code EXCEPT ![k].state = "expired"]
            /\ UNCHANGED session
       \/ \E t \in Tokens : session[t].state = "live"
            /\ session' = [session EXCEPT ![t].state = "revoked"] /\ UNCHANGED code
    /\ Counted /\ UNCHANGED <<account, store, clerk, forked, stranded>>

AccountsNext ==
    \/ \E c \in Clerks :
          \/ Register(c) \/ GuestCheckout(c) \/ Login(c) \/ Refresh(c) \/ ResetPassword(c)
          \/ SetRole(c) \/ RaiseBoss(c) \/ SoleStore(c)
          \/ CreateAccount(c) \/ CreateStore(c) \/ RevokeOld(c) \/ Issue(c)
          \/ ResetWrite(c) \/ WriteRole(c) \/ AbandonAccountCall(c)
    \/ \E t \in Tokens : Logout(t)
    \/ \E p \in People : \/ SetUserStatus(p) \/ SetStoreStatus(p) \/ DeleteUser(p)
                         \/ \E k \in Codes : ForgotPassword(p, k)
    \/ Expire

AccountsSpec == AccountsInit /\ [][AccountsNext]_AccountsVars
-----------------------------------------------------------------------------
User == [role : Roles \cup {"none", "deleted"}, guest : BOOLEAN, suspended : BOOLEAN,
         resets : Nat]

Call == [pc : {"idle", "create", "store", "issue", "revoke", "reset", "role"},
         who : People \cup {Nobody}, role : Roles \cup {"none", "guest"}, seen : User,
         by : Roles \cup {"nobody", "bootstrap"}, old : Tokens \cup Codes \cup {Nobody},
         opens : {"none", "pending", "approved"}]

AccountsTypeOK ==
    /\ account \in [People -> User]
    /\ store \in [People -> {"none", "pending", "approved", "suspended"}]
    /\ \A p \in People : store[p] # "none" => Known(p)
    /\ session \in [Tokens -> [state : {"unused", "live", "revoked", "gone"},
                               owner : People \cup {Nobody}, login : Tokens \cup {Nobody},
                               at : Nat]]
    /\ code \in [Codes -> [state : {"unused", "open", "used", "expired", "gone"},
                           owner : People \cup {Nobody}]]
    /\ clerk \in [Clerks -> Call]
    /\ forked \subseteq Tokens /\ stranded \subseteq People
    /\ accountCalls \in 0..MaxAccountCalls

\* A login has at most one live token however often it was refreshed
\* ("Rotate: revoke the used refresh token and issue a brand new pair"), unless
\* two calls have exchanged the same token, and none that a reset should have
\* ended.
SessionsRotate ==
    \A t \in Tokens : session[t].state = "live" =>
        /\ session[t].at = account[session[t].owner].resets
        /\ \A u \in Tokens \ {t} :
              session[u].state = "live" /\ session[u].login = session[t].login
                => session[t].login \in forked

\* Only the Super Admin and the bootstrap change a role to or from admin
\* (setUserRole: "Granting admin panel access is security-sensitive and stays
\* Super Admin-only"), as long as the role was still what the call read.  This is
\* about the roles of accounts that go on: DeleteUser and SetUserStatus, which end
\* being an admin as well, are open to any admin, whatever the documentation of
\* the routes says ("Granting/removing Admin access is Super Admin-only").
AdminRoleByTheBoss ==
    [][\A p \in People :
          account[p].role # account'[p].role /\ account'[p].role # "deleted"
            /\ "admin" \in {account[p].role, account'[p].role}
          => \E c \in Clerks : /\ clerk[c].who = p /\ clerk'[c] = Waiting
                               /\ \/ clerk[c].by \in {"superadmin", "bootstrap"}
                                  \/ clerk[c].seen.role # account[p].role]_AccountsVars

\* Every seller has a store ("A real seller always owns exactly one store"),
\* unless the registration is under way or has broken off.
SellersOwnStores ==
    \A p \in People :
        account[p].role = "seller" /\ store[p] = "none"
            => p \in stranded \/ \E c \in Clerks : clerk[c].pc = "store" /\ clerk[c].who = p
=============================================================================
