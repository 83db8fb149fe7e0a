------------------------------ MODULE Editorial ------------------------------
(***************************************************************************)
(* What the staff edits and can look up, and undo, in the activity log:    *)
(* the settings, the sections of the homepage with their drafts, and the   *)
(* plain rows (categories, brands, promotions, coupons, permissions).      *)
(* Every edit is three statements: read the row, write it, log both.       *)
(* An UPDATE writes the columns it is given; but the feature flags (and    *)
(* the animation, popup and VIP settings), and a draft, are one JSON       *)
(* column each, which is merged with what was read and written whole.      *)
(***************************************************************************)
EXTENDS Integers, Sequences, FiniteSets

CONSTANTS
    Records, KindOf, \* "settings", "section", "coupon" or "plain"
    Fields,      \* columns; of the settings: flags in one JSON column
    Patches,     \* what a form may send: some fields with their values
    Configs,     \* the settings' configurations that hold secrets
    Defaulted,   \* those whose form gets a field it leaves out from its schema
    Parts,       \* the secrets of a configuration
    SecretForms, \* what a form may send of them: each part real or masked
    Editors,     \* calls under way at the same time
    MaxChanges,  \* bound on calls
    Unset        \* a field not given

ASSUME EditorialAssumption ==
    /\ KindOf \in [Records -> {"settings", "section", "coupon", "plain"}]
    /\ Patches \subseteq [Fields -> Nat \cup {Unset}]
    /\ Defaulted \subseteq Configs
    /\ Parts # {} /\ SecretForms \subseteq [Parts -> {"real", "masked"}]
    /\ MaxChanges \in Nat

VARIABLES
    row,     \* each record: whether it exists, its live columns and its draft
    secret,  \* the stored parts of each configuration: "real" or "masked"
    trail,   \* the activity log: record, the row before and after (if logged)
    editor,  \* per call: its step, arguments and the row it has read
    \* history
    asked,   \* the rows as the edits, in the order of their writes, ask for
    stale,   \* records written by a call that had read another row
    changes

EditorialVars == <<row, secret, trail, editor, asked, stale, changes>>

Nothing == [f \in Fields |-> Unset]
Fresh == [exists |-> TRUE, live |-> [f \in Fields |-> 0], draft |-> Nothing]
Gone == [Fresh EXCEPT !.exists = FALSE]
Reading == [pc |-> "idle", what |-> "none", record |-> Unset, patch |-> Nothing,
            sent |-> Nothing, secrets |-> Unset, seen |-> Gone, wrote |-> Gone, was |-> Gone]

Over(old, new) == [f \in Fields |-> IF new[f] = Unset THEN old[f] ELSE new[f]]

EditorialInit ==
    /\ row = [r \in Records |-> Fresh]
    /\ secret = [c \in Configs |-> [x \in Parts |-> "real"]]
    /\ trail = <<>>
    /\ editor = [e \in Editors |-> Reading]
    /\ asked = row
    /\ stale = {} /\ changes = 0
-----------------------------------------------------------------------------
\* A call reads the row: what it is going to write there.
Begin(e, what, r, patch, sent, secrets) ==
    /\ editor[e].pc = "idle" /\ changes < MaxChanges
    /\ editor' = [editor EXCEPT ![e] = [Reading EXCEPT !.pc = "write", !.what = what,
            !.record = r, !.patch = patch, !.sent = sent, !.secrets = secrets, !.seen = row[r]]]
    /\ changes' = changes + 1
    /\ UNCHANGED <<row, secret, trail, asked, stale>>

\* It gives up if there is none.
Open(e, r, what, patch) == row[r].exists /\ Begin(e, what, r, patch, patch, Unset)

OpenUpdate(e) ==
    \E r \in Records, p \in Patches :
        KindOf[r] \in {"section", "plain"} /\ Open(e, r, "update", p)

\* updateCouponSchema is createCouponSchema.partial(): a field left out takes
\* the default that a new coupon's has (scope, perUserLimit, autoApply, enabled).
Filled(p) == Over(Fresh.live, p)

OpenCoupon(e) ==
    \E r \in Records, p \in Patches :
        KindOf[r] = "coupon" /\ row[r].exists /\ Begin(e, "update", r, Filled(p), p, Unset)

\* A draft is published if there is one.
OpenDraft(e) ==
    \E r \in Records :
        /\ KindOf[r] = "section"
        /\ \/ \E p \in Patches : Open(e, r, "draft", p)
           \/ row[r].draft # Nothing /\ Open(e, r, "publish", Nothing)
           \/ Open(e, r, "discard", Nothing)

OpenRemove(e) == \E r \in Records : KindOf[r] # "settings" /\ Open(e, r, "remove", Nothing)

\* The values of a form once it is validated: smtpConfig's schema keeps the
\* default of its `secure` when that is left out, although it is .partial().
Arrived(c, sent) == {sent[x] : x \in Parts} \cup (IF c \in Defaulted THEN {"default"} ELSE {})

\* Faulty variant: the mask is taken for the secret.
SecretsAsSent(c, sent) == [config |-> c, parts |-> sent]

\* Secrets that arrive masked throughout are left alone.
SecretsToWrite(c, sent) ==
    IF Arrived(c, sent) = {"masked"} THEN Unset ELSE [config |-> c, parts |-> sent]

OpenSettings(e) ==
    \E r \in Records, p \in Patches, c \in Configs, s \in SecretForms :
        KindOf[r] = "settings" /\ Begin(e, "settings", r, p, p, SecretsToWrite(c, s))

\* restoreFromLog writes what an entry says was there before, but no secrets;
\* a section removed since is created again.  Only the settings' and the
\* sections' history is offered.
OpenRestore(e) ==
    \E i \in DOMAIN trail :
        LET r == trail[i].record
            old == trail[i].before
        IN  /\ KindOf[r] \in {"settings", "section"}
            /\ Begin(e, IF row[r].exists THEN "restore" ELSE "recreate", r, old, old, Unset)
-----------------------------------------------------------------------------
\* What a call makes of a row, merging JSON columns with those of base.
Applied(call, base, old) ==
    CASE call.what = "settings" -> [old EXCEPT !.live = Over(base.live, call.patch)]
      [] call.what = "update" -> [old EXCEPT !.live = Over(@, call.patch)]
      [] call.what = "draft" -> [old EXCEPT !.draft = Over(base.draft, call.patch)]
      [] call.what = "publish" -> [old EXCEPT !.live = Over(@, base.draft), !.draft = Nothing]
      [] call.what = "discard" -> [old EXCEPT !.draft = Nothing]
      [] call.what = "remove" -> Gone
      [] OTHER -> call.patch

\* Faulty variant: flags not sent fall back to their defaults.
NewRowOfDefaults(call, old) ==
    Applied(call, IF call.what = "settings" THEN Fresh ELSE call.seen, old)

\* The code merges with the row it has read.
NewRow(call, old) == Applied(call, call.seen, old)

\* An UPDATE or DELETE of a vanished row fails, and so does creating one that
\* is there again.
Write(e) ==
    LET call == editor[e]
        r == call.record
    IN  /\ call.pc = "write"
        /\ row[r].exists = (call.what # "recreate")
        /\ row' = [row EXCEPT ![r] = NewRow(call, @)]
        /\ asked' = [asked EXCEPT ![r] = Applied([call EXCEPT !.patch = call.sent], @, @)]
        /\ secret' = IF call.secrets = Unset THEN secret
                     ELSE [secret EXCEPT ![call.secrets.config] = call.secrets.parts]
        /\ stale' = IF call.seen # row[r] THEN stale \cup {r} ELSE stale
        /\ editor' = [editor EXCEPT ![e].pc = "log", ![e].wrote = row'[r], ![e].was = row[r]]
        /\ UNCHANGED <<trail, changes>>

\* Drafts are logged without the row; a section created again is, but without
\* a row before.
Log(e) ==
    LET call == editor[e]
    IN  /\ call.pc = "log"
        /\ trail' = IF call.what \in {"draft", "discard", "recreate"} THEN trail
                    ELSE Append(trail, [record |-> call.record, before |-> call.seen,
                                        after |-> call.wrote, was |-> call.was])
        /\ editor' = [editor EXCEPT ![e] = Reading]
        /\ UNCHANGED <<row, secret, asked, stale, changes>>

\* An error, or the end of the process: an edit may stay unlogged.
AbandonChange(e) ==
    /\ editor[e].pc # "idle"
    /\ editor' = [editor EXCEPT ![e] = Reading]
    /\ UNCHANGED <<row, secret, trail, asked, stale, changes>>

CreateRecord(r) ==
    /\ KindOf[r] \in {"plain", "coupon"} /\ ~row[r].exists /\ changes < MaxChanges
    /\ row' = [row EXCEPT ![r] = Fresh] /\ asked' = [asked EXCEPT ![r] = Fresh]
    /\ changes' = changes + 1
    /\ UNCHANGED <<secret, trail, editor, stale>>

EditorialNext ==
    \/ \E e \in Editors :
          \/ OpenUpdate(e) \/ OpenCoupon(e) \/ OpenDraft(e) \/ OpenRemove(e) \/ OpenSettings(e) \/ OpenRestore(e)
          \/ Write(e) \/ Log(e) \/ AbandonChange(e)
    \/ \E r \in Records : CreateRecord(r)

EditorialSpec == EditorialInit /\ [][EditorialNext]_EditorialVars
-----------------------------------------------------------------------------
RowType == [exists : BOOLEAN, live : [Fields -> Nat], draft : [Fields -> Nat \cup {Unset}]]
Entry == [record : Records, before : RowType, after : RowType, was : RowType]
Form == [Fields -> Nat \cup {Unset}]
Secrets == [Parts -> {"real", "masked"}]
Change == [pc : {"idle", "write", "log"},
           what : {"none", "settings", "update", "draft", "publish", "discard", "remove",
                   "restore", "recreate"},
           record : Records \cup {Unset}, patch : Form \cup RowType, sent : Form \cup RowType,
           secrets : [config : Configs, parts : Secrets] \cup {Unset},
           seen : RowType, wrote : RowType, was : RowType]

EditorialTypeOK ==
    /\ row \in [Records -> RowType] /\ asked \in [Records -> RowType]
    /\ secret \in [Configs -> Secrets]
    /\ trail \in Seq(Entry)
    /\ editor \in [Editors -> Change]
    /\ stale \subseteq Records /\ changes \in 0..MaxChanges

\* No edit takes back another (settings: "a partial update doesn't silently
\* disable every other flag"; drafts: "Purely additive"), unless it was based on
\* a row that had changed meanwhile; plain rows, written column by column, keep
\* every edit even then (coupons: see OmittedStay).  A form of masked
\* secrets replaces none ("so we don't overwrite real credentials with placeholder
\* dots"), but of the Defaulted configurations, of which it does: with the default
\* that the schema adds, such a form no longer counts as masked.  And the log tells
\* what a change replaced, so that restoring an entry undoes it.
EditsStand ==
    /\ \A r \in Records \ stale : KindOf[r] # "coupon" => row[r] = asked[r]
    /\ \A r \in Records : KindOf[r] = "plain" => row[r].live = asked[r].live
    /\ \A i \in DOMAIN trail :
          trail[i].record \notin stale => trail[i].before = trail[i].was
    /\ \A c \in Configs \ Defaulted : \E x \in Parts : secret[c][x] = "real"

\* A coupon keeps what an edit leaves out ("keeps a truly partial update -- an
\* omitted key leaves the existing DB value untouched", of products).
OmittedStay == \A r \in Records : KindOf[r] = "coupon" => row[r].live = asked[r].live
=============================================================================
