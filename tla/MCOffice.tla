------------------------------ MODULE MCOffice ------------------------------
(***************************************************************************)
(* What the staff run the shop with, for TLC: Accounts, Editorial,         *)
(* Bootstrap, Notices, Reports and Desk.  Each behaviour is about one of   *)
(* them, the others rest.                                                  *)
(***************************************************************************)
EXTENDS Office, TLC

CONSTANTS
    Units,          \* the modules to check
    MCKinds         \* kinds of records to check

VARIABLE unit       \* the one this behaviour is about

MCVars == <<unit, AccountsVars, EditorialVars, BootVars, NoticesVars, ReportsVars, DeskVars>>
-----------------------------------------------------------------------------
MCRecords == MCKinds
MCKindOf == [r \in MCKinds |-> r]
Patch(a, b) == [f \in Fields |-> IF f = "a" THEN a ELSE b]
MCPatches == {Patch(1, Unset), Patch(Unset, 1)}

\* All masked, or one part typed anew.
MCSecretForms == {[x \in Parts |-> "masked"], [x \in Parts |-> IF x = "user" THEN "real" ELSE "masked"]}

\* Both starter products are catalogue rows; the file brings a third.
MCSlugOf == [n \in Starters |-> IF n = "A" THEN "a" ELSE "b"]

MCGroupOf == [a \in Articles |-> IF a = "x" THEN "g" ELSE "h"]
MCShopOf == [a \in Articles |-> IF a = "y" THEN "t" ELSE "s"]
-----------------------------------------------------------------------------
AccountsRest == UNCHANGED AccountsVars
EditorialRest == UNCHANGED EditorialVars
BootstrapRest == UNCHANGED BootVars
NoticesRest == UNCHANGED NoticesVars
ReportsRest == UNCHANGED ReportsVars
DeskRest == UNCHANGED DeskVars

\* Of the resting modules one initial state is enough.
MCInit ==
    /\ unit \in Units
    /\ AccountsInit /\ (unit # "accounts" => \A p \in People : account[p] = NoAccount)
    /\ EditorialInit
    /\ BootInit /\ (unit # "bootstrap" => There = {})
    /\ NoticesInit /\ (unit # "notices" => \A o \in Offers : offer[o] = [start |-> None, enabled |-> FALSE])
    /\ ReportsInit
    /\ DeskInit

MCNext ==
    /\ UNCHANGED unit
    /\ \/ unit = "accounts" /\ AccountsNext
            /\ EditorialRest /\ BootstrapRest /\ NoticesRest /\ ReportsRest /\ DeskRest
       \/ unit = "editorial" /\ EditorialNext
            /\ AccountsRest /\ BootstrapRest /\ NoticesRest /\ ReportsRest /\ DeskRest
       \/ unit = "bootstrap" /\ BootNext
            /\ AccountsRest /\ EditorialRest /\ NoticesRest /\ ReportsRest /\ DeskRest
       \/ unit = "notices" /\ NoticesNext
            /\ AccountsRest /\ EditorialRest /\ BootstrapRest /\ ReportsRest /\ DeskRest
       \/ unit = "reports" /\ ReportsNext
            /\ AccountsRest /\ EditorialRest /\ BootstrapRest /\ NoticesRest /\ DeskRest
       \/ unit = "desk" /\ DeskNext
            /\ AccountsRest /\ EditorialRest /\ BootstrapRest /\ NoticesRest /\ ReportsRest

MCSpec == MCInit /\ [][MCNext]_MCVars

\* Calls under way, and offers, are interchangeable; one set of values stands
\* for all of them.
MCSymmetry == Permutations(Clerks)
=============================================================================
