----------------------------- MODULE OrderStatus -----------------------------
(***************************************************************************)
(* The page on which a buyer follows the sale (PublicStatusPage.tsx): it   *)
(* reads the status again and again, slower after failures, until the sale *)
(* is at its end, and only while the page is visible.  A request is        *)
(* repeated up to three times before the page reports an error.            *)
(***************************************************************************)
EXTENDS Naturals

CONSTANTS
    Retries,     \* retry
    MaxChanges,  \* bound on the changes of the status
    None

StatusAssumption == Retries \in Nat /\ MaxChanges \in Nat

VARIABLES
    status,   \* server: the status of the sale
    changes,  \* how often it changed
    visible,  \* the page is in the foreground
    shown,    \* the status the page shows
    error,    \* the page reports that the sale could not be read
    fetch,    \* the request: none, sent, or the status it brings
    attempt   \* how often it was repeated

vars == <<status, changes, visible, shown, error, fetch, attempt>>

Waiting == {"reserved", "purchase_in_progress", "purchase_validation"}
Ended == {"paid", "cancelled", "expired", "refunded"}

IsTerminal(s) == s \in Ended

TypeOK ==
    /\ status \in Waiting \cup Ended /\ changes \in 0..MaxChanges /\ visible \in BOOLEAN
    /\ shown \in Waiting \cup Ended \cup {None} /\ error \in BOOLEAN
    /\ fetch \in {None, "sent"} \cup Waiting \cup Ended /\ attempt \in 0..Retries

Init ==
    /\ status \in Waiting \cup Ended /\ changes = 0 /\ visible = TRUE
    /\ shown = None /\ error = FALSE /\ fetch = "sent" /\ attempt = 0

\* The sale moves on, is cancelled, and restored; what is paid may be refunded.
Successors(s) ==
    CASE s = "reserved" -> {"purchase_in_progress", "paid", "cancelled", "expired"}
      [] s = "purchase_in_progress" -> {"purchase_validation", "paid", "cancelled", "expired"}
      [] s = "purchase_validation" -> {"paid", "cancelled"}
      [] s = "paid" -> {"refunded"}
      [] s = "cancelled" -> Waiting
      [] OTHER -> {}

Change ==
    /\ changes < MaxChanges /\ changes' = changes + 1 /\ status' \in Successors(status)
    /\ UNCHANGED <<visible, shown, error, fetch, attempt>>

Turn == visible' = ~visible /\ UNCHANGED <<status, changes, shown, error, fetch, attempt>>

Fetch == fetch = None /\ fetch' = "sent" /\ attempt' = 0

\* Fault: a failure ends the interval.
PollUnlessFailed ==
    /\ visible /\ ~IsTerminal(shown) /\ ~error /\ Fetch
    /\ UNCHANGED <<status, changes, visible, shown, error>>

\* The interval grows with the failures and ends with the sale.
Poll ==
    /\ visible /\ ~IsTerminal(shown) /\ Fetch
    /\ UNCHANGED <<status, changes, visible, shown, error>>

Refresh ==
    /\ visible /\ Fetch
    /\ UNCHANGED <<status, changes, visible, shown, error>>

Read ==
    /\ fetch = "sent" /\ fetch' = status
    /\ UNCHANGED <<status, changes, visible, shown, error, attempt>>

Show ==
    /\ fetch \in Waiting \cup Ended /\ shown' = fetch /\ error' = FALSE /\ fetch' = None
    /\ UNCHANGED <<status, changes, visible, attempt>>

Fail ==
    /\ fetch # None
    /\ IF attempt < Retries
       THEN fetch' = "sent" /\ attempt' = attempt + 1 /\ UNCHANGED error
       ELSE fetch' = None /\ error' = TRUE /\ UNCHANGED attempt
    /\ UNCHANGED <<status, changes, visible, shown>>

Next == Change \/ Turn \/ Poll \/ Refresh \/ Read \/ Show \/ Fail

\* The timer of a visible page fires, a request ends, and not always badly.
Spec == Init /\ [][Next]_vars /\ WF_vars(Poll) /\ SF_vars(Read) /\ SF_vars(Show)

----------------------------------------------------------------------------
(* Properties.                                                             *)

\* A page that stays visible comes to show the status of the sale, or the end it
\* had reached: no sequence of failures stops the page from asking again.
IsVisible == visible
CaughtUp == shown = status \/ IsTerminal(shown)
StatusCatchesUp == <>[]IsVisible => []<>CaughtUp
=============================================================================
