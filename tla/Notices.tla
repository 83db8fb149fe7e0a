------------------------------- MODULE Notices -------------------------------
(***************************************************************************)
(* The scheduler's notices to the admins: offers that started.  Every      *)
(* Interval (15 minutes) from the boot on, and once soon after it, a run   *)
(* asks for the promotions that started within the last Interval, and      *)
(* tells each of them in turn.  What was told is nowhere recorded.         *)
(* (The notices of offers and coupons about to end, and of low stock, are  *)
(* repeated by every run; the sweep of unpaid orders is in OrderLifecycle.)*)
(***************************************************************************)
EXTENDS Integers, FiniteSets

CONSTANTS
    Offers,     \* promotions
    Interval,   \* CHECK_INTERVAL_MS, in ticks
    LastTick,   \* bound on time
    MaxUpsets   \* bound on crashes, failures, delays and edits

ASSUME NoticesAssumption ==
    Interval \in Nat \ {0} /\ LastTick \in Nat /\ MaxUpsets \in Nat

VARIABLES
    now,
    offer,   \* Promotion: start, enabled; "start" is None when there is none yet
    soon, due, \* when the run after the boot, and the next of the others, are due
             \* (None: not at all; due is None while the server is down)
    run,     \* the offers the run under way has still to tell
    told,    \* notices so far, by offer
    \* history
    missed,  \* offers that a gap between runs, a failure or an edit may have cost
    covered, \* end of the last run's window
    upsets

NoticesVars == <<now, offer, soon, due, run, told, missed, covered, upsets>>

None == -1

NoticesInit ==
    /\ now = 0 /\ soon = 1 /\ due = Interval /\ run = {}
    /\ offer \in [Offers -> [start : {None} \cup 1..LastTick, enabled : BOOLEAN]]
    /\ \A o \in Offers : offer[o].start = None => ~offer[o].enabled
    /\ told = [o \in Offers |-> 0]
    /\ missed = {} /\ covered = 0 /\ upsets = 0
-----------------------------------------------------------------------------
Upset == upsets < MaxUpsets /\ upsets' = upsets + 1

Due(t) == t # None /\ t <= now

\* Time passes; a run that is due may be late.
Tick ==
    /\ now < LastTick /\ now' = now + 1
    /\ IF Due(soon) \/ Due(due) THEN Upset ELSE UNCHANGED upsets
    /\ UNCHANGED <<offer, soon, due, run, told, missed, covered>>

\* Faulty variant: starts later than the window's beginning.
StartingAfter(at) == {o \in Offers : offer[o].enabled /\ offer[o].start \in at - Interval + 2..at}

\* checkPromotionsStarting's query at a time.
Starting(at) == {o \in Offers : offer[o].enabled /\ offer[o].start \in at - Interval..at}

\* A run begins; setInterval counts anew from when it fired.
Check ==
    /\ \/ Due(soon) /\ soon' = None /\ UNCHANGED due
       \/ Due(due) /\ due' = now + Interval /\ UNCHANGED soon
    /\ run = {} /\ run' = Starting(now)
    /\ missed' = missed \cup {o \in Offers : offer[o].start \in covered + 1..now - Interval - 1}
    /\ covered' = now
    /\ UNCHANGED <<now, offer, told, upsets>>

Tell(o) ==
    /\ o \in run /\ run' = run \ {o}
    /\ told' = [told EXCEPT ![o] = @ + 1]
    /\ UNCHANGED <<now, offer, soon, due, missed, covered, upsets>>

\* One notice fails, and with it those after it: runChecks logs and goes on.
Fail ==
    /\ run # {} /\ run' = {} /\ Upset
    /\ missed' = missed \cup run
    /\ UNCHANGED <<now, offer, soon, due, told, covered>>

\* The server stops, or starts again and checks soon (within a tick).
Stop ==
    /\ due # None /\ soon' = None /\ due' = None /\ run' = {} /\ Upset
    /\ missed' = missed \cup run
    /\ UNCHANGED <<now, offer, told, covered>>

Restart ==
    /\ due = None /\ soon' = now + 1 /\ due' = now + Interval
    /\ UNCHANGED <<now, offer, run, told, missed, covered, upsets>>

\* An admin creates, moves, enables or disables a promotion; one that has
\* started before is not announced for it.
EditOffer(o) ==
    /\ Upset
    /\ \E s \in 1..LastTick, e \in BOOLEAN :
          /\ offer' = [offer EXCEPT ![o] = [start |-> s, enabled |-> e]]
          /\ missed' = IF s <= now \/ o \in run THEN missed \cup {o}
                       ELSE IF told[o] = 0 THEN missed \ {o} ELSE missed
    /\ UNCHANGED <<now, soon, due, run, told, covered>>

NoticesNext ==
    \/ Tick \/ Check \/ Fail \/ Stop \/ Restart
    \/ \E o \in Offers : Tell(o) \/ EditOffer(o)

NoticesSpec == NoticesInit /\ [][NoticesNext]_NoticesVars
-----------------------------------------------------------------------------
NoticesTypeOK ==
    /\ now \in 0..LastTick /\ covered \in 0..now /\ {soon, due} \subseteq Nat \cup {None}
    /\ offer \in [Offers -> [start : Nat \cup {None}, enabled : BOOLEAN]]
    /\ told \in [Offers -> Nat]
    /\ run \subseteq Offers /\ missed \subseteq Offers /\ upsets \in 0..MaxUpsets

\* Every offer enabled when it starts is announced by the first run after it
\* that gets through ("offers starting"), unless the server was down, the run
\* late or broken off, so that the start lies before the run's window.
OffersAnnounced ==
    \A o \in Offers : offer[o].enabled /\ offer[o].start \in 0..covered /\ o \notin run \cup missed
        => told[o] > 0
=============================================================================
