------------------------------- MODULE Office -------------------------------
(***************************************************************************)
(* What the staff run the shop with: accounts, editorial rows, the         *)
(* bootstrap, notices, reports and the desk.  The models share no          *)
(* variable; the code they stand for runs side by side in one process.     *)
(***************************************************************************)
EXTENDS Accounts, Editorial, Bootstrap, Notices, Reports, Desk

OfficeSpec ==
    AccountsSpec /\ EditorialSpec /\ BootSpec /\ NoticesSpec /\ ReportsSpec /\ DeskSpec

\* Every variable of these modules has its type; in it that no store
\* is without an owner.
OfficeTypeOK ==
    AccountsTypeOK /\ EditorialTypeOK /\ BootTypeOK /\ NoticesTypeOK /\ ReportsTypeOK /\ DeskTypeOK
=============================================================================
