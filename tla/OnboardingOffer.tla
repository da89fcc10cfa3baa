--------------------------- MODULE OnboardingOffer ---------------------------
(***************************************************************************)
(* What showOpenEmoteOnboardingIfNeeded promises, without its timers,      *)
(* claim flag and retry counter (src/src/Application.cpp 704-830, the      *)
(* accept handler 2069-2122): a request made while onboarding is not done  *)
(* at the current revision leaves an offer outstanding; an outstanding     *)
(* offer opens the dialog only over a visible main window, with no other   *)
(* modal dialog up and the window not minimized, and not while quitting;   *)
(* it may also be dropped; closing the dialog marks onboarding done, after *)
(* which it is never offered again.                                        *)
(***************************************************************************)

VARIABLES
    offer,       \* "idle", "pending" (a timer armed) or "open" (in exec())
    done,        \* openEmoteOnboardingShown at the current revision
    visible,     \* the main window is visible
    obstructed,  \* another modal dialog is up, or the window is minimized
    quitting     \* ABOUT_TO_QUIT

vars == <<offer, done, visible, obstructed, quitting>>

Offers == {"idle", "pending", "open"}

TypeOK ==
    /\ offer \in Offers
    /\ done \in BOOLEAN /\ visible \in BOOLEAN
    /\ obstructed \in BOOLEAN /\ quitting \in BOOLEAN

Init ==
    /\ offer = "idle" /\ done \in BOOLEAN
    /\ visible = FALSE /\ obstructed \in BOOLEAN /\ quitting = FALSE

\* The main window is shown and onboarding requested: an offer is made if
\* none is outstanding and onboarding is not done, or the request is
\* ignored (the frameless-embed and skip switches).
Start ==
    /\ visible' = TRUE
    /\ \/ offer = "idle" /\ ~done /\ offer' = "pending"
       \/ UNCHANGED offer
    /\ UNCHANGED <<done, obstructed, quitting>>

\* The outstanding offer opens the dialog.
Open ==
    /\ offer = "pending" /\ ~done
    /\ visible /\ ~obstructed /\ ~quitting
    /\ offer' = "open"
    /\ UNCHANGED <<done, visible, obstructed, quitting>>

\* The outstanding offer is given up.
Drop ==
    /\ offer = "pending"
    /\ offer' = "idle"
    /\ UNCHANGED <<done, visible, obstructed, quitting>>

\* The dialog is accepted: onboarding is done at the current revision.
Close ==
    /\ offer = "open"
    /\ offer' = "idle" /\ done' = TRUE
    /\ UNCHANGED <<visible, obstructed, quitting>>

\* The window, the other dialogs and the application's shutdown.
Environment ==
    /\ visible' \in BOOLEAN /\ obstructed' \in BOOLEAN
    /\ quitting' \in {quitting, TRUE}
    /\ UNCHANGED <<offer, done>>

Next == Start \/ Open \/ Drop \/ Close \/ Environment

Spec == Init /\ [][Next]_vars

=============================================================================
