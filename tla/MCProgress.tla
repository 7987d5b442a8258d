----------------------------- MODULE MCProgress ------------------------------
(*****************************************************************************)
(* The screens that have to come to something, each behind its own instance  *)
(* of the server: the photo search that must end, the list that must follow  *)
(* what was typed, and the status page that must follow the sale.  The       *)
(* router mounts one screen at a time, so a behaviour is that of one of      *)
(* them: `mounted' says which, and s1, s2, ... are its variables, in the     *)
(* order in which its module declares them.                                  *)
(*****************************************************************************)
EXTENDS Naturals

CONSTANT None  \* a model value

VARIABLES mounted, s1, s2, s3, s4, s5, s6, s7, s8, s9, s10, s11

vars == <<mounted, s1, s2, s3, s4, s5, s6, s7, s8, s9, s10, s11>>

Search == INSTANCE AssistedSearch WITH
    Clients <- {"web", "mobile"}, MaxPhotos <- 3, MaxQueue <- 2, client <- s1,
    allowed <- s2, added <- s3, photos <- s4, phase <- s5, candidates <- s6,
    applied <- s7, key <- s8, searches <- s9, begun <- s10, ledger <- s11

\* The products do not change; what is typed does.
List == INSTANCE ProductList WITH
    Clients <- {"web", "mobile"}, Filters <- {"all", "some"}, Products <- {1, 2},
    Tagged <- {1}, MaxValue <- 0, PageSize <- 1, MaxChanges <- 0, First <- "all",
    client <- s1, descending <- s2, value <- s3, present <- s4, changes <- s5,
    typed <- s6, filter <- s7, pages <- s8, moved <- s9, fetch <- s10, error <- s11

Status == INSTANCE OrderStatus WITH
    Retries <- 1, MaxChanges <- 2, status <- s1, changes <- s2, visible <- s3,
    shown <- s4, error <- s5, fetch <- s6, attempt <- s7

\* The assumptions of the screens hold of their instances.
ASSUME ProgressAssumption ==
    /\ Search!SearchAssumption
    /\ List!ListAssumption
    /\ Status!StatusAssumption

\* A screen that is not there leaves its part of the state alone.
Absent(s) == s = None

Init ==
    \/ /\ mounted = "Search" /\ Search!Init
    \/ /\ mounted = "List" /\ List!Init
    \/ /\ mounted = "Status" /\ Status!Init /\ Absent(s8) /\ Absent(s9)
       /\ Absent(s10) /\ Absent(s11)

Next ==
    \/ /\ mounted = "Search" /\ Search!Next /\ UNCHANGED <<mounted>>
    \/ /\ mounted = "List" /\ List!Next /\ UNCHANGED <<mounted>>
    \/ /\ mounted = "Status" /\ Status!Next /\ UNCHANGED <<mounted, s8, s9, s10, s11>>

\* A search that is under way proceeds, the debounce fires and a query starts and
\* is answered, one way or another; the timer of a visible status page fires, and
\* a request that is sent again and again is not lost for ever.
Fairness ==
    /\ \A f \in 1..3 : WF_vars(mounted = "Search" /\ Search!Proceeds(f) /\ UNCHANGED mounted)
    /\ WF_vars(mounted = "List" /\ List!Debounce /\ UNCHANGED mounted)
    /\ WF_vars(mounted = "List" /\ List!Start /\ UNCHANGED mounted)
    /\ \A f \in {"all", "some"} : WF_vars(mounted = "List" /\ List!Answer(f) /\ UNCHANGED mounted)
    /\ WF_vars(mounted = "Status" /\ Status!Poll /\ UNCHANGED <<mounted, s8, s9, s10, s11>>)
    /\ SF_vars(mounted = "Status" /\ Status!Read /\ UNCHANGED <<mounted, s8, s9, s10, s11>>)
    /\ SF_vars(mounted = "Status" /\ Status!Show /\ UNCHANGED <<mounted, s8, s9, s10, s11>>)

Spec == Init /\ [][Next]_vars /\ Fairness

----------------------------------------------------------------------------
\* The page does not search for ever: the search it waits for is answered,
\* fails, or loses its photo.
SearchEnds ==
    (mounted = "Search" /\ Search!Searching) ~> ~(mounted = "Search" /\ Search!Searching)

\* A list whose field stays as it was typed comes to list that filter, or to say
\* that it could not, however the answers of earlier filters arrive; and a status
\* page that stays visible comes to show the status of the sale, or the end it had
\* reached, whatever requests failed.
ScreensCatchUp ==
    /\ \A f \in {"all", "some"} :
          <>[](mounted = "List" /\ List!IsTyped(f)) => []<>(mounted = "List" /\ List!IsListed(f))
    /\ <>[](mounted = "Status" /\ Status!IsVisible) => []<>(mounted = "Status" /\ Status!CaughtUp)
=============================================================================
