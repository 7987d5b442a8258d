----------------------------- MODULE BankAccounts -----------------------------
(***************************************************************************)
(* The profile page: the person and the shop, and the accounts into which  *)
(* buyers deposit (ProfilePage.tsx and BankDetailsSection.tsx on the web,  *)
(* mas/perfil.tsx on the phone), in front of replace_bank_accounts, which  *)
(* makes the whole list anew.  The web fills its form once; the phone      *)
(* fills it again whenever the viewer it reads has changed.  The web's     *)
(* button waits for the answer to a save of the page that is open; a page  *)
(* that is left and opened again knows nothing of the saves of the one     *)
(* before.  The phone's button does not wait.                              *)
(***************************************************************************)
EXTENDS Naturals, FiniteSets, Sequences

CONSTANTS
    Clients,      \* subset of {"web", "mobile"}
    Data,         \* what an account may say, Blank when it is incomplete
    Blank,
    MaxAccounts,  \* MAX_BANK_ACCOUNTS
    MaxIds,       \* bound on the rows ever made
    MaxSends,     \* bound on the saves of the accounts
    MaxChanges,   \* bound on the saves of the profile
    None

BankAssumption ==
    /\ Clients \subseteq {"web", "mobile"} /\ Blank \in Data
    /\ {MaxAccounts, MaxIds, MaxSends, MaxChanges} \subseteq Nat /\ MaxAccounts > 0 /\ MaxIds > 0

VARIABLES
    client,
    stored, ids,   \* server: the accounts in order, and how many rows were made
    profile,       \* server: the person and the shop, as a number of their change
    seen,          \* the viewer the page has: accounts and profile
    draft,         \* the accounts of the form, each with its key
    calls, sends,  \* saves under way, and how many were sent
    reported,      \* the save reported as done, when the last one was
    astray         \* lists sent by saves that their page did not see executed: it was
                   \* left meanwhile, or its connection was lost

vars == <<client, stored, ids, profile, seen, draft, calls, sends, reported, astray>>

\* A key is an id, or the number of a draft: "draft-0", "draft-1", ...
Ids == {MaxAccounts + n : n \in 1..MaxIds}
Keys == 0..(MaxAccounts - 1) \cup Ids
DataOf(accounts) == [i \in DOMAIN accounts |-> accounts[i].data]
IsList(s, S) == s \in Seq(S) /\ Len(s) <= MaxAccounts
IsAccounts(s, keys) == IsList(s, [key : keys, data : Data])

TypeOK ==
    /\ client \in Clients /\ IsAccounts(stored, Ids) /\ ids \in 0..MaxIds
    /\ profile \in 0..MaxChanges /\ seen.profile \in 0..MaxChanges /\ IsAccounts(seen.accounts, Ids)
    /\ IsAccounts(draft, Keys) /\ Len(draft) > 0
    /\ sends \in 0..MaxSends
    /\ \A c \in calls : /\ c.number \in 1..sends /\ c.step \in {"sent", "late", "ok", "error"}
                        /\ IsList(c.accounts, Data) /\ c.here \in BOOLEAN
    /\ \A a \in astray : IsList(a, Data)
    /\ reported # None => reported.number = sends /\ IsList(reported.accounts, Data)

\* What is missing is filled with one empty account.
ToDraft(n) == [key |-> n, data |-> Blank]
Fill(accounts) == IF accounts = <<>> THEN <<ToDraft(0)>> ELSE accounts
Viewer == [accounts |-> stored, profile |-> profile]

Init ==
    /\ client \in Clients /\ ids = 1
    /\ \E d \in Data \ {Blank} : stored = <<[key |-> MaxAccounts + 1, data |-> d]>>
    /\ profile = 0 /\ seen = Viewer /\ draft = Fill(stored)
    /\ calls = {} /\ sends = 0 /\ reported = None /\ astray = {}

server == <<stored, ids, profile>>

----------------------------------------------------------------------------
(* The form.                                                               *)

\* Every account with that key changes.
Update(key, d) ==
    /\ \E i \in DOMAIN draft : draft[i].key = key /\ draft[i].data # d
    /\ draft' = [i \in DOMAIN draft |->
                   IF draft[i].key = key THEN [key |-> key, data |-> d] ELSE draft[i]]
    /\ UNCHANGED <<client, server, seen, calls, sends, reported, astray>>

WebUpdate(key, d) == client = "web" /\ Update(key, d)
PhoneUpdate(key, d) == client = "mobile" /\ Update(key, d)

\* The number of the draft is the length of the list, also when an account
\* before it was removed.
Add ==
    /\ Len(draft) < MaxAccounts /\ draft' = Append(draft, ToDraft(Len(draft)))
    /\ UNCHANGED <<client, server, seen, calls, sends, reported, astray>>

WebAdd == client = "web" /\ Add
PhoneAdd == client = "mobile" /\ Add

\* Every account with that key goes; the others keep their order.
Remove(key) ==
    LET others == {i \in DOMAIN draft : draft[i].key # key}
        n == Cardinality(others) IN
    /\ Len(draft) > 1 /\ others # DOMAIN draft
    /\ \E at \in [1..n -> others] :
          /\ \A i, j \in 1..n : i < j => at[i] < at[j]
          /\ draft' = Fill([i \in 1..n |-> draft[at[i]]])
    /\ UNCHANGED <<client, server, seen, calls, sends, reported, astray>>

WebRemove(key) == client = "web" /\ Remove(key)
PhoneRemove(key) == client = "mobile" /\ Remove(key)

Complete(accounts) == \A i \in DOMAIN accounts : accounts[i].data # Blank

Send ==
    /\ Complete(draft) /\ sends < MaxSends /\ sends' = sends + 1 /\ reported' = None
    /\ calls' = calls \cup {[number |-> sends + 1, accounts |-> DataOf(draft), step |-> "sent",
                             here |-> TRUE]}
    /\ UNCHANGED <<client, server, seen, draft, astray>>

\* Fault: the button of the web does not wait, either.
WebSaveAtOnce == client = "web" /\ Send

\* The page that is open has a save under way (saveBank.isPending).
Waiting == \E c \in calls : c.here /\ c.step # "late"
WebSave == client = "web" /\ ~Waiting /\ Send

PhoneSave == client = "mobile" /\ Send

\* The answer to the last save is the one shown, by the page that sent it; the
\* viewer is read again.
Done(c) ==
    /\ c \in calls /\ c.step = "ok" /\ calls' = calls \ {c}
    /\ reported' = IF c.here /\ c.number = sends THEN [number |-> c.number, accounts |-> c.accounts]
                   ELSE reported
    /\ UNCHANGED <<client, server, seen, draft, sends, astray>>

WebSaved(c) == client = "web" /\ Done(c)
PhoneSaved(c) == client = "mobile" /\ Done(c)

Failed(c) ==
    /\ c \in calls /\ c.step = "error" /\ calls' = calls \ {c}
    /\ UNCHANGED <<client, server, seen, draft, sends, reported, astray>>

WebNotSaved(c) == client = "web" /\ Failed(c)
PhoneNotSaved(c) == client = "mobile" /\ Failed(c)

WebReadViewer ==
    /\ client = "web" /\ seen # Viewer /\ seen' = Viewer
    /\ UNCHANGED <<client, server, draft, calls, sends, reported, astray>>

\* Every field of the page is filled again, what was typed since included.
PhoneReadViewer ==
    /\ client = "mobile" /\ seen # Viewer /\ seen' = Viewer
    /\ draft' = Fill(stored)
    /\ UNCHANGED <<client, server, calls, sends, reported, astray>>

\* The page is left, whatever is under way, and opened again.
Reopen ==
    /\ Waiting \/ draft # Fill(seen.accounts)
    /\ draft' = Fill(seen.accounts)
    /\ calls' = {[c EXCEPT !.here = FALSE] : c \in calls}
    /\ astray' = astray \cup {c.accounts : c \in {d \in calls : d.here /\ d.step = "sent"}}
    /\ UNCHANGED <<client, server, seen, sends, reported>>

\* The person's or the shop's fields, also when only a photo or a logo is chosen.
SaveProfile ==
    /\ profile < MaxChanges /\ profile' = profile + 1
    /\ UNCHANGED <<client, stored, ids, seen, draft, calls, sends, reported, astray>>

WebSaveProfile == client = "web" /\ SaveProfile
PhoneSaveProfile == client = "mobile" /\ SaveProfile

----------------------------------------------------------------------------
(* The server.                                                             *)

Answer(c, step) == calls' = (calls \ {c}) \cup {[c EXCEPT !.step = step]}

\* The rows are deleted and made anew, whoever made them.
ReplaceBankAccounts(c) ==
    LET n == Len(c.accounts) IN
    /\ c \in calls /\ c.step \in {"sent", "late"} /\ ids + n <= MaxIds
    /\ stored' = [i \in 1..n |-> [key |-> MaxAccounts + ids + i, data |-> c.accounts[i]]]
    /\ ids' = ids + n
    /\ IF c.step = "late" THEN calls' = calls \ {c} ELSE Answer(c, "ok") \/ Answer(c, "error")
    /\ UNCHANGED <<client, profile, seen, draft, sends, reported, astray>>

Unsent(c) ==
    /\ c \in calls /\ c.step = "sent" /\ Answer(c, "error")
    /\ UNCHANGED <<client, server, seen, draft, sends, reported, astray>>

\* The connection is lost, the page reports a failure, and the request is still
\* there to be executed.
GiveUp(c) ==
    /\ c \in calls /\ c.step = "sent" /\ Answer(c, "late") /\ astray' = astray \cup {c.accounts}
    /\ UNCHANGED <<client, server, seen, draft, sends, reported>>

Next ==
    \/ \E key \in Keys, d \in Data : WebUpdate(key, d) \/ PhoneUpdate(key, d)
    \/ \E key \in Keys : WebRemove(key) \/ PhoneRemove(key)
    \/ WebAdd \/ PhoneAdd \/ WebSave \/ PhoneSave \/ WebReadViewer \/ PhoneReadViewer
    \/ \E c \in calls : WebSaved(c) \/ PhoneSaved(c) \/ WebNotSaved(c) \/ PhoneNotSaved(c)
                        \/ ReplaceBankAccounts(c) \/ Unsent(c) \/ GiveUp(c)
    \/ Reopen \/ WebSaveProfile \/ PhoneSaveProfile

Spec == Init /\ [][Next]_vars

----------------------------------------------------------------------------
(* Properties.                                                             *)

\* On the web buyers are shown what the last save was reported to have stored, or
\* the list of a save that nobody saw executed, because its page was left or its
\* connection lost while it was under way.  So no save that the page waited for
\* lands after a later one, and none is undone by an older one that ended.
LastSaveStands ==
    client = "web" /\ reported # None => DataOf(stored) \in {reported.accounts} \cup astray
=============================================================================
