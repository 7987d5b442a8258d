----------------------------- MODULE ProductList -----------------------------
(***************************************************************************)
(* The list of the inventory: InventoryListPage.tsx on the web, one page   *)
(* at a time with its cursor in the URL, and (tabs)/inventario.tsx on the  *)
(* phone, a list that grows, over paginate() of tenda/pagination.py.       *)
(* Products change while the list is read, and the filter while its rows   *)
(* are on their way.  A request is answered at the moment it is read.      *)
(***************************************************************************)
EXTENDS Naturals, Sequences, FiniteSets, SequencesExt

CONSTANTS
    Clients,     \* subset of {"web", "mobile"}
    Filters,     \* searches and filters; the list opens with one of them
    Products,    \* primary keys
    Tagged,      \* the products that the filters other than the first let through
    MaxValue,    \* values of the column the list is sorted by
    PageSize,
    MaxChanges,  \* bound on the changes of the catalogue
    First,       \* the filter that lets all through
    None         \* NULL in the column, no cursor, no request

Value == (0..MaxValue) \cup {None}
Cursor == [value : Value, id : Products]
Page == [after : Cursor \cup {None}, ids : BoundedSeq(Products, PageSize),
         end : Cursor \cup {None}, more : BOOLEAN]
Request == [kind : {"first", "next", "again"}, after : Cursor \cup {None},
            built : Seq(Page), moved : SUBSET Products]

ListAssumption ==
    /\ Clients \subseteq {"web", "mobile"} /\ First \in Filters
    /\ Products \subseteq Nat /\ IsFiniteSet(Products) /\ Tagged \subseteq Products
    /\ MaxValue \in Nat /\ PageSize \in Nat \ {0} /\ MaxChanges \in Nat
    /\ None \notin 0..MaxValue /\ None \notin Cursor /\ None \notin Request

VARIABLES
    client, descending,
    value, present,  \* server: the column and the products there are
    changes,
    typed, filter,   \* what was typed, and the filter the list asks for
    pages,           \* rows read, by filter
    moved,           \* products that changed since those rows were first read
    fetch,           \* request under way, by filter
    error            \* whether the last request failed, by filter

vars == <<client, descending, value, present, changes, typed, filter, pages, moved, fetch, error>>
server == <<value, present, changes>>

TypeOK ==
    /\ client \in Clients /\ descending \in BOOLEAN
    /\ value \in [Products -> Value] /\ present \subseteq Products /\ changes \in 0..MaxChanges
    /\ typed \in Filters /\ filter \in Filters
    /\ pages \in [Filters -> Seq(Page)] /\ moved \in [Filters -> SUBSET Products]
    /\ fetch \in [Filters -> Request \cup {None}] /\ error \in [Filters -> BOOLEAN]
    /\ \A f \in Filters : \A n \in 1..(Len(pages[f]) - 1) : pages[f][n].more

Init ==
    /\ client \in Clients /\ descending \in BOOLEAN
    /\ value \in [Products -> Value] /\ present \in SUBSET Products /\ changes = 0
    /\ typed = First /\ filter = First
    /\ pages = [f \in Filters |-> <<>>] /\ moved = [f \in Filters |-> {}]
    /\ fetch = [f \in Filters |-> None] /\ error = [f \in Filters |-> FALSE]

----------------------------------------------------------------------------
(* The server.                                                             *)

Matches(f) == IF f = First THEN present ELSE present \cap Tagged

\* NULL comes last both ways; equal values go by primary key.
Beyond(v, w) == v # None /\ w # None /\ (IF descending THEN v < w ELSE v > w)
InOrder(i, j) ==
    \/ Beyond(value[j], value[i])
    \/ value[i] # None /\ value[j] = None
    \/ value[i] = value[j] /\ i < j

\* Fault: rows without a value are dropped after the first page.
KeysetWithoutNulls(i, c) ==
    Beyond(value[i], c.value) \/ (value[i] = c.value /\ i > c.id)

KeysetFilter(i, c) ==
    IF c.value = None THEN value[i] = None /\ i > c.id
    ELSE \/ Beyond(value[i], c.value)
         \/ value[i] = c.value /\ i > c.id
         \/ value[i] = None

Upto(s, n) == SubSeq(s, 1, Min({Len(s), n}))

\* The n-th of the rows has n - 1 of them before it.
Nth(rows, n) == CHOOSE i \in rows : Cardinality({j \in rows : InOrder(j, i)}) = n - 1
Ordered(rows) == [n \in 1..Cardinality(rows) |-> Nth(rows, n)]

\* A window of one row more than the page tells whether there is another page.
Paginate(f, after) ==
    LET rows == {i \in Matches(f) : after = None \/ KeysetFilter(i, after)}
        window == Ordered(rows)
        ids == Upto(window, PageSize)
    IN  [after |-> after, ids |-> ids, more |-> Len(window) > PageSize,
         end |-> IF ids = <<>> THEN None ELSE [value |-> value[Last(ids)], id |-> Last(ids)]]

Change(i) ==
    /\ changes < MaxChanges /\ changes' = changes + 1
    /\ moved' = [f \in Filters |-> moved[f] \cup {i}]
    /\ fetch' = [f \in Filters |-> IF fetch[f] = None THEN None
                                   ELSE [fetch[f] EXCEPT !.moved = @ \cup {i}]]
    /\ UNCHANGED <<client, descending, typed, filter, pages, error>>

\* A sale, an adjustment or an edit.
ChangeValue(i, v) ==
    /\ value[i] # v /\ value' = [value EXCEPT ![i] = v] /\ UNCHANGED present /\ Change(i)

\* A product is created, archived or restored.
ChangePresence(i) ==
    /\ present' = IF i \in present THEN present \ {i} ELSE present \cup {i}
    /\ UNCHANGED value /\ Change(i)

----------------------------------------------------------------------------
(* The filter.                                                             *)

\* The URL is the filter of the web, and any change of it drops the cursor.
UpdateParams(f) ==
    /\ typed' = f /\ filter' = f
    /\ pages' = [pages EXCEPT ![f] = Upto(@, 1)]
    /\ fetch' = [fetch EXCEPT ![f] = IF pages[f] = <<>> THEN @ ELSE None]
    /\ UNCHANGED <<client, descending, server, moved, error>>

WebFilter(f) == client = "web" /\ f # filter /\ UpdateParams(f)

\* Offered when nothing was found.
WebClearFilters ==
    /\ client = "web" /\ filter # First /\ pages[filter] # <<>>
    /\ Last(pages[filter]).ids = <<>> /\ UpdateParams(First)

PhoneType(f) ==
    /\ client = "mobile" /\ f # typed /\ typed' = f
    /\ UNCHANGED <<client, descending, server, filter, pages, moved, fetch, error>>

\* What is typed counts when nothing was typed for a while.
Debounce ==
    /\ client = "mobile" /\ filter # typed /\ filter' = typed
    /\ UNCHANGED <<client, descending, server, typed, pages, moved, fetch, error>>

\* The chips and the order count at once.
PhoneToggle(f) ==
    /\ client = "mobile" /\ typed = filter /\ f # filter /\ typed' = f /\ filter' = f
    /\ UNCHANGED <<client, descending, server, pages, moved, fetch, error>>

PhoneClearFilters ==
    /\ client = "mobile" /\ typed' = First /\ filter' = First /\ filter # First
    /\ UNCHANGED <<client, descending, server, pages, moved, fetch, error>>

----------------------------------------------------------------------------
(* Reading.                                                                *)

Ask(kind, after) ==
    fetch' = [fetch EXCEPT ![filter] = [kind |-> kind, after |-> after, built |-> <<>>, moved |-> {}]]

Start ==
    /\ fetch[filter] = None /\ pages[filter] = <<>> /\ ~error[filter] /\ Ask("first", None)
    /\ UNCHANGED <<client, descending, server, typed, filter, pages, moved, error>>

TryAgain ==
    /\ fetch[filter] = None /\ error[filter] /\ error' = [error EXCEPT ![filter] = FALSE]
    /\ UNCHANGED <<client, descending, server, typed, filter, pages, moved, fetch>>

HasNextPage == pages[filter] # <<>> /\ Last(pages[filter]).more

WebTryAgain == client = "web" /\ TryAgain

\* Only where there are no rows to show.
PhoneTryAgain == client = "mobile" /\ pages[filter] = <<>> /\ TryAgain

WebNextPage ==
    /\ client = "web" /\ HasNextPage /\ fetch[filter] = None
    /\ Ask("next", Last(pages[filter]).end)
    /\ UNCHANGED <<client, descending, server, typed, filter, pages, moved, error>>

\* Back in the history of the browser.
WebBack ==
    /\ client = "web" /\ Len(pages[filter]) > 1 /\ fetch[filter] = None
    /\ pages' = [pages EXCEPT ![filter] = Front(@)]
    /\ UNCHANGED <<client, descending, server, typed, filter, moved, fetch, error>>

\* The end of the list calls off a refresh that is under way.
PhoneEndReached ==
    /\ client = "mobile" /\ HasNextPage
    /\ fetch[filter] # None => fetch[filter].kind = "again"
    /\ Ask("next", Last(pages[filter]).end)
    /\ UNCHANGED <<client, descending, server, typed, filter, pages, moved, error>>

\* An invalidation, a pull or an old copy.
Refresh ==
    /\ fetch[filter] = None /\ pages[filter] # <<>>
    /\ Ask("again", IF client = "web" THEN Last(pages[filter]).after ELSE None)
    /\ UNCHANGED <<client, descending, server, typed, filter, pages, moved, error>>

Settle(f, rows, since) ==
    /\ pages' = [pages EXCEPT ![f] = rows] /\ moved' = [moved EXCEPT ![f] = since]
    /\ fetch' = [fetch EXCEPT ![f] = None] /\ error' = [error EXCEPT ![f] = FALSE]
    /\ UNCHANGED <<client, descending, server, typed, filter>>

Asked(f, kind) == fetch[f] # None /\ fetch[f].kind = kind

FirstPage(f) == Asked(f, "first") /\ Settle(f, <<Paginate(f, None)>>, {})

NextPage(f) ==
    /\ Asked(f, "next")
    /\ Settle(f, Append(pages[f], Paginate(f, fetch[f].after)), moved[f])

\* The web reads its page again, after the same cursor.
WebPageAgain(f) ==
    /\ client = "web" /\ Asked(f, "again")
    /\ Settle(f, Append(Front(pages[f]), Paginate(f, fetch[f].after)), moved[f])

\* The phone reads its pages again from the first, one after the other, and
\* shows them when it has as many as before or there are no more.
PhonePageAgain(f) ==
    /\ client = "mobile" /\ Asked(f, "again")
    /\ LET page == Paginate(f, fetch[f].after)
           built == Append(fetch[f].built, page)
       IN IF page.more /\ Len(built) < Len(pages[f])
            THEN /\ fetch' = [fetch EXCEPT ![f].built = built, ![f].after = page.end]
                 /\ UNCHANGED <<client, descending, server, typed, filter, pages, moved, error>>
            ELSE Settle(f, built, fetch[f].moved)

Fail(f) ==
    /\ fetch[f] # None /\ fetch' = [fetch EXCEPT ![f] = None]
    /\ error' = [error EXCEPT ![f] = TRUE]
    /\ UNCHANGED <<client, descending, server, typed, filter, pages, moved>>

Answer(f) == FirstPage(f) \/ NextPage(f) \/ WebPageAgain(f) \/ PhonePageAgain(f)

Next ==
    \/ Debounce \/ PhoneClearFilters \/ WebClearFilters \/ Start \/ WebTryAgain \/ PhoneTryAgain \/ WebNextPage \/ WebBack
    \/ PhoneEndReached \/ Refresh
    \/ \E f \in Filters :
          \/ WebFilter(f) \/ PhoneType(f) \/ PhoneToggle(f) \/ Fail(f)
          \/ FirstPage(f) \/ NextPage(f) \/ WebPageAgain(f) \/ PhonePageAgain(f)
    \/ \E i \in Products : ChangePresence(i) \/ \E v \in Value : ChangeValue(i, v)

\* Timers fire, and requests that are wanted are sent and answered.
Fairness ==
    /\ WF_vars(Debounce) /\ WF_vars(Start) /\ \A f \in Filters : WF_vars(Answer(f))

Spec == Init /\ [][Next]_vars /\ Fairness

----------------------------------------------------------------------------
(* Properties.                                                             *)

Listed(f) == {i \in Products : \E n \in DOMAIN pages[f] : Contains(pages[f][n].ids, i)}

\* A list read to its end has every product that is in the catalogue and did
\* not change meanwhile, with or without a value in the column it is sorted by.
NoRowIsSkipped ==
    \A f \in Filters : pages[f] # <<>> /\ ~Last(pages[f]).more =>
        Matches(f) \ moved[f] \subseteq Listed(f)

\* Only a product that changed meanwhile can be listed twice.
NoRowIsRepeated ==
    \A f \in Filters : \A i \in Products \ moved[f] :
        \A m, n \in DOMAIN pages[f] :
            m # n /\ Contains(pages[f][m].ids, i) => ~Contains(pages[f][n].ids, i)

\* The list ends up showing rows of what was typed last, or that they could not
\* be read, however filters change while rows are on their way.
IsTyped(f) == typed = f
IsListed(f) == filter = f /\ (pages[f] # <<>> \/ error[f])
TypedIsListed == \A f \in Filters : <>[]IsTyped(f) => []<>IsListed(f)
=============================================================================
