--------------------------- MODULE ProductColumns ---------------------------
(***************************************************************************)
(* The columns a shop adds to its inventory and the form that edits a      *)
(* product with them: ProductFormPage.tsx and CustomFieldDialog.tsx on the *)
(* web, producto.tsx and custom-field-sheet.tsx on the phone, over the     *)
(* commands of inventory/services.py.  The form fills itself once, from    *)
(* the product as it was read, and sends the columns of the schema it      *)
(* knows; another seller changes columns and products meanwhile.           *)
(***************************************************************************)
EXTENDS Naturals, FiniteSets

CONSTANTS
    Clients,     \* subset of {"web", "mobile"}
    Columns,
    Required,    \* the columns that are created as required
    Values,      \* values of a column, Blank apart
    MaxActive,   \* MAX_ACTIVE_PER_INVENTORY
    Blank, None

ColumnAssumption ==
    /\ Clients \subseteq {"web", "mobile"} /\ Required \subseteq Columns
    /\ MaxActive \in Nat  /\ Blank \notin Values /\ Values # {}

VARIABLES
    client,
    fields,      \* "none", "active" or "inactive", by column
    mine, other, \* extra attributes of the product edited and of another one
    schema,      \* columns the form knows, None before the schema is read
    product,     \* the product as it was read, None before
    loaded, draft, save,
    typed,       \* what the seller typed in each column
    sheet        \* the creation of a column: None, or its column and step

vars == <<client, fields, mine, other, schema, product, loaded, draft, typed, save, sheet>>
server == <<fields, mine, other>>
editor == <<schema, product, loaded, draft, typed>>

Attributes == [Columns -> Values \cup {Blank}]
Typing == [Columns -> Values \cup {Blank, None}]
Untyped == [f \in Columns |-> None]
Empty == [f \in Columns |-> Blank]
Active == {f \in Columns : fields[f] = "active"}

Save == [known : SUBSET Columns, draft : Attributes, typed : Typing,
         step : {"sent", "ok", "error"}]

TypeOK ==
    /\ client \in Clients /\ fields \in [Columns -> {"none", "active", "inactive"}]
    /\ mine \in Attributes /\ other \in Attributes \cup {None}
    /\ schema \in (SUBSET Columns) \cup {None} /\ product \in Attributes \cup {None}
    /\ loaded \in BOOLEAN /\ draft \in Attributes /\ typed \in Typing
    /\ save \in Save \cup {None}
    /\ sheet \in [column : Columns, step : {"sent", "checked", "ok", "error"}] \cup {None}
    /\ \A f \in Columns : fields[f] = "none" => mine[f] = Blank

Init ==
    /\ client \in Clients
    /\ \E f \in Columns : fields = [g \in Columns |-> IF g = f THEN "active" ELSE "none"]
    /\ mine \in {a \in Attributes : \A f \in Columns : (a[f] # Blank) <=> (f \in Active)}
    /\ other = None /\ schema = None /\ product = None
    /\ loaded = FALSE /\ draft = Empty /\ typed = Untyped /\ save = None /\ sheet = None

----------------------------------------------------------------------------
(* Reading, and filling the form.  The dialog of the columns covers it.    *)

FetchSchema ==
    /\ schema # Active /\ schema' = Active
    /\ UNCHANGED <<client, server, product, loaded, draft, typed, save, sheet>>

Hydrate(attributes) ==
    IF loaded THEN UNCHANGED <<loaded, draft>> ELSE loaded' = TRUE /\ draft' = attributes

WebFetchProduct ==
    /\ client = "web" /\ product # mine /\ product' = mine /\ Hydrate(mine)
    /\ UNCHANGED <<client, server, schema, typed, save, sheet>>

PhoneFetchProduct ==
    /\ client = "mobile" /\ product # mine /\ product' = mine /\ Hydrate(mine)
    /\ UNCHANGED <<client, server, schema, typed, save, sheet>>

Known == IF schema = None THEN {} ELSE schema

WebTypeColumn(f, v) ==
    /\ client = "web" /\ loaded /\ sheet = None /\ f \in Known /\ v # draft[f]
    /\ draft' = [draft EXCEPT ![f] = v] /\ typed' = [typed EXCEPT ![f] = v]
    /\ UNCHANGED <<client, server, schema, product, loaded, save, sheet>>

PhoneTypeColumn(f, v) ==
    /\ client = "mobile" /\ loaded /\ sheet = None /\ f \in Known /\ v # draft[f]
    /\ draft' = [draft EXCEPT ![f] = v] /\ typed' = [typed EXCEPT ![f] = v]
    /\ UNCHANGED <<client, server, schema, product, loaded, save, sheet>>

----------------------------------------------------------------------------
(* Saving the product.                                                     *)

Complete == \A f \in Known \cap Required : draft[f] # Blank
Submit == save' = [known |-> Known, draft |-> draft, typed |-> typed, step |-> "sent"]

\* Fault: the form can be sent before it was filled.
WebSaveUnloaded ==
    /\ client = "web" /\ save = None /\ Complete /\ Submit
    /\ UNCHANGED <<client, server, editor, sheet>>

WebSave ==
    /\ client = "web" /\ loaded /\ sheet = None /\ save = None /\ Complete /\ Submit
    /\ UNCHANGED <<client, server, editor, sheet>>

PhoneSave ==
    /\ client = "mobile" /\ loaded /\ sheet = None /\ save = None /\ Complete /\ Submit
    /\ UNCHANGED <<client, server, editor, sheet>>

\* attributesFromDraft: the values of the known columns that are not blank.
Sent(f) == IF f \in save.known THEN save.draft[f] ELSE Blank

\* Fault: the values of inactive columns are dropped.
StoredWithoutInactive == [f \in Columns |-> IF f \in Active THEN Sent(f) ELSE Blank]

\* An active column takes what was sent, blank when nothing was; a column that
\* is not active keeps its value.
Stored == [f \in Columns |-> IF f \in Active THEN Sent(f) ELSE mine[f]]

Accepted ==
    /\ \A f \in Columns : Sent(f) # Blank => f \in Active
    /\ \A f \in Active \cap Required : Sent(f) # Blank

UpdateProduct ==
    /\ save # None /\ save.step = "sent"
    /\ save' = [save EXCEPT !.step = IF Accepted THEN "ok" ELSE "error"]
    /\ mine' = IF Accepted THEN Stored ELSE mine
    /\ UNCHANGED <<client, fields, other, editor, sheet>>

\* The form closes after a success; the next edit starts from what was read
\* before, and is read again in the background.
SaveAnswered ==
    /\ save # None /\ save.step \in {"ok", "error"} /\ save' = None
    /\ IF save.step = "ok" THEN loaded' = TRUE /\ draft' = product /\ typed' = Untyped
       ELSE UNCHANGED <<loaded, draft, typed>>
    /\ UNCHANGED <<client, server, schema, product, sheet>>

----------------------------------------------------------------------------
(* Creating and switching columns.                                         *)

WebCreateColumn(f) ==
    /\ client = "web" /\ sheet = None /\ fields[f] = "none"
    /\ Cardinality(Known) < MaxActive
    /\ sheet' = [column |-> f, step |-> "sent"]
    /\ UNCHANGED <<client, server, editor, save>>

PhoneCreateColumn(f) ==
    /\ client = "mobile" /\ sheet = None /\ fields[f] = "none"
    /\ Cardinality(Known) < MaxActive
    /\ sheet' = [column |-> f, step |-> "sent"]
    /\ UNCHANGED <<client, server, editor, save>>

\* The active columns are counted; the count does not lock them.
AssertActiveSlot ==
    /\ sheet # None /\ sheet.step = "sent"
    /\ sheet' = [sheet EXCEPT !.step = IF Cardinality(Active) < MaxActive
                                       THEN "checked" ELSE "error"]
    /\ UNCHANGED <<client, server, editor, save>>

\* A required column comes with a value for the products that lack one.
Backfilled(attributes, f, v) ==
    IF f \in Required /\ attributes[f] = Blank THEN [attributes EXCEPT ![f] = v] ELSE attributes

CreateColumn ==
    /\ sheet # None /\ sheet.step = "checked"
    /\ LET f == sheet.column IN
         IF fields[f] # "none"
           THEN sheet' = [sheet EXCEPT !.step = "error"] /\ UNCHANGED server
           ELSE /\ fields' = [fields EXCEPT ![f] = "active"]
                /\ \E v \in Values :
                     /\ mine' = Backfilled(mine, f, v)
                     /\ other' = IF other = None THEN None ELSE Backfilled(other, f, v)
                /\ sheet' = [sheet EXCEPT !.step = "ok"]
    /\ UNCHANGED <<client, editor, save>>

\* Only the new column is seeded in the draft; the schema is read again.
ColumnAnswered ==
    /\ sheet # None /\ sheet.step \in {"ok", "error"} /\ sheet' = None
    /\ IF sheet.step = "ok" THEN draft' = [draft EXCEPT ![sheet.column] = Blank]
       ELSE UNCHANGED draft
    /\ UNCHANGED <<client, server, schema, product, loaded, typed, save>>

Deactivate(f) ==
    /\ fields[f] = "active" /\ fields' = [fields EXCEPT ![f] = "inactive"]
    /\ UNCHANGED <<client, mine, other, editor, save, sheet>>

\* Switching a column back asks for room, not for its missing values.
Reactivate(f) ==
    /\ fields[f] = "inactive" /\ Cardinality(Active) < MaxActive
    /\ fields' = [fields EXCEPT ![f] = "active"]
    /\ UNCHANGED <<client, mine, other, editor, save, sheet>>

----------------------------------------------------------------------------
(* Another seller.                                                         *)

OthersCreateColumn(f) ==
    /\ fields[f] = "none" /\ Cardinality(Active) < MaxActive
    /\ fields' = [fields EXCEPT ![f] = "active"]
    /\ \E v \in Values :
         /\ mine' = Backfilled(mine, f, v)
         /\ other' = IF other = None THEN None ELSE Backfilled(other, f, v)
    /\ UNCHANGED <<client, editor, save, sheet>>

\* A product with the columns it must have, and no other.
OthersCreateProduct ==
    /\ other = None
    /\ \E v \in Values : other' = [f \in Columns |-> IF f \in Active \cap Required THEN v ELSE Blank]
    /\ UNCHANGED <<client, fields, mine, editor, save, sheet>>

OthersWrite(f, v) ==
    /\ f \in Active /\ mine[f] # v /\ mine' = [mine EXCEPT ![f] = v]
    /\ UNCHANGED <<client, fields, other, editor, save, sheet>>

Next ==
    \/ FetchSchema \/ WebFetchProduct \/ PhoneFetchProduct
    \/ WebSave \/ PhoneSave \/ UpdateProduct \/ SaveAnswered
    \/ AssertActiveSlot \/ CreateColumn \/ ColumnAnswered \/ OthersCreateProduct
    \/ \E f \in Columns :
          \/ WebCreateColumn(f) \/ PhoneCreateColumn(f) \/ Deactivate(f) \/ Reactivate(f)
          \/ OthersCreateColumn(f)
          \/ \E v \in Values \cup {Blank} : WebTypeColumn(f, v) \/ PhoneTypeColumn(f, v)
          \/ \E v \in Values : OthersWrite(f, v)

Spec == Init /\ [][Next]_vars

----------------------------------------------------------------------------
(* Properties.                                                             *)

Updates == save # None /\ save.step = "sent" /\ save' # None /\ save'.step = "ok"

\* What was typed is what is saved, although the product is read again while
\* the form is open: "Hydrate the form once the product arrives; the draft
\* wins afterwards."
SavesTyped ==
    Updates => \A f \in save.known \cap Active :
                  save.typed[f] # None => mine'[f] = save.typed[f]

\* A save keeps the values of the columns that were switched off, also when
\* the form still shows them or has never known them: "deactivating a column
\* frees a slot but never destroys history".
KeepsInactive ==
    Updates => \A f \in Columns \ Active : mine'[f] = mine[f]
=============================================================================
