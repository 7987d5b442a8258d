-------------------------- MODULE SaleScreens_proofs --------------------------
(***************************************************************************)
(* Proofs about the screens with which a seller sells, for every value of  *)
(* their constants: the quick sale, the page of a sale, the forms of the   *)
(* buyer's data and the wizards of a new sale.  A screen is an instance    *)
(* under its own name; what the screens call alike is declared once.       *)
(***************************************************************************)
EXTENDS Naturals, FiniteSets, TLAPS

CONSTANTS
    None, Clients,
    Available, MaxOpenings, MaxKeys,               \* QuickSale
    Methods, Texts, Kinds, MaxIntents, MaxMoves,   \* SaleActions
    Names, Phones, Addresses, Taxes, MaxWrites,    \* BuyerContact
    Keys, Carts, NoCart, MaxLate, NoDraft, Background    \* the wizards

VARIABLES
    client, key, call, calls,
    bank, viewed, connected, free, sales, published, mailed, opening, opened, keys,
    form, confirmCash, result, mail, filed,
    method, sale, answers, detail, fetching, dialog, intents, late, moves, shown,
    emailed, shipped, row, seen, editing, draft, writes,
    sold, stored, page, screen, effect, confirm, used, reported

Quick == INSTANCE QuickSale

Sale == INSTANCE SaleActions

Contact == INSTANCE BuyerContact

Web == INSTANCE NewSaleWeb

Phone == INSTANCE NewSaleMobile

----------------------------------------------------------------------------
(* The quick sale.                                                         *)

\* An opening draws one key, so the keys count the openings, and a request or a
\* sale names the opening and the key that belong together.
KeysAreOpenings ==
    /\ keys = opened
    /\ opening # 0 => key = opening
    /\ \A c \in calls : c.key = c.opening
    /\ \A s \in sales : s.key = s.opening

\* What a request that was answered, or went on to its second part, has done.
Done(c) ==
    /\ c.phase = "publish" \/ c.reply = "ok" =>
          \E s \in sales : s.key = c.key /\ s.form = c.form
    /\ c.phase = "publish" => c.form.method # "cash"
    /\ c.phase = "publish" /\ c.reply = "ok" => c.key \in published

OneSalePerKey == \A s, t \in sales : s.key = t.key => s = t

\* The strengthening of the three invariants of the quick sale.
QuickInv ==
    /\ Quick!TypeOK /\ KeysAreOpenings /\ OneSalePerKey /\ Quick!LinkIsLive
    /\ \A c \in calls : Done(c)

\* It holds at first.
LEMMA QuickInit == Quick!QuickAssumption /\ Quick!Init => QuickInv
  <1> SUFFICES ASSUME Quick!QuickAssumption, Quick!Init PROVE QuickInv
    OBVIOUS
  <1>1. Quick!Blank \in Quick!Form
    BY DEF Quick!Blank, Quick!Form, Quick!Method, Quick!QuickAssumption
  <1>2. Available \in 0..Available /\ 0 \in 0..0 /\ 0 \in 0..MaxOpenings /\ 0 \in 0..MaxKeys
    BY DEF Quick!QuickAssumption
  <1>3. Quick!TypeOK
    BY <1>1, <1>2 DEF Quick!Init, Quick!TypeOK
  <1> QED  BY <1>3 DEF Quick!Init, QuickInv, KeysAreOpenings, OneSalePerKey, Quick!LinkIsLive

\* A request is answered, or goes on: the others stay as they are.
LEMMA AnswerIs ==
    ASSUME Quick!TypeOK, NEW c \in calls, NEW phase \in {"create", "publish"},
           NEW reply \in {"sent", "ok", "error"}
    PROVE  /\ Quick!Answer(c, phase, reply) \subseteq Quick!Call
           /\ \A d \in Quick!Answer(c, phase, reply) :
                \/ d \in calls
                \/ d.key = c.key /\ d.opening = c.opening /\ d.form = c.form
                   /\ d.phase = phase /\ d.reply = reply
  BY DEF Quick!TypeOK, Quick!Answer, Quick!Call

\* A request of the open dialog.
LEMMA SendIs ==
    ASSUME Quick!TypeOK, opening # 0, KeysAreOpenings, Quick!QuickAssumption, Quick!Send
    PROVE  /\ calls' \subseteq Quick!Call
           /\ \A d \in calls' : \/ d \in calls
                                \/ /\ d.key = key /\ d.opening = opening
                                   /\ d.phase = "create" /\ d.reply = "sent"
  <1> DEFINE c == [opening |-> opening, key |-> key, form |-> form,
                   phase |-> "create", reply |-> "sent"]
  <1>0. /\ opening \in 0..opened /\ opened \in 0..MaxOpenings /\ key \in 0..keys
        /\ keys \in 0..MaxKeys /\ MaxOpenings \in Nat /\ MaxKeys \in Nat /\ key = opening
        /\ form \in Quick!Form
    BY DEF Quick!TypeOK, KeysAreOpenings, Quick!QuickAssumption
  <1>1. opening \in 1..MaxOpenings /\ key \in 1..MaxKeys
    BY <1>0
  <1>2. c \in Quick!Call
    BY <1>0, <1>1 DEF Quick!Call
  <1> QED  BY <1>2 DEF Quick!TypeOK, Quick!Send

\* The steps of a request.
CallStep(c) ==
    Quick!CreateOrder(c) \/ Quick!PublishOrderLink(c) \/ Quick!Lose(c)
       \/ Quick!PublishedOK(c) \/ Quick!CashOK(c) \/ Quick!Failed(c)

\* A step of a request keeps the invariant.
LEMMA CallKeeps ==
    ASSUME Quick!QuickAssumption, QuickInv, NEW c \in calls, CallStep(c)
    PROVE  QuickInv'
  <1> USE DEF Quick!given, Quick!server, Quick!dialog
  <1>0. /\ Quick!TypeOK /\ KeysAreOpenings /\ OneSalePerKey /\ Quick!LinkIsLive
        /\ \A d \in calls : Done(d)
        /\ c \in Quick!Call
    BY DEF QuickInv, Quick!TypeOK
  <1>1. CASE Quick!CreateOrder(c)
    <2> DEFINE s == [opening |-> c.opening, key |-> c.key, form |-> c.form]
               next == Quick!Answer(c, "publish", "sent")
    <2>1. CASE ~Quick!Takes(c)
      <3>1. /\ calls' = Quick!Answer(c, "create", "error")
            /\ UNCHANGED <<client, bank, viewed, connected, free, sales, published, mailed,
                   opening, opened, key, keys, form, confirmCash, result, mail, filed>>
        BY <1>1, <2>1 DEF Quick!CreateOrder
      <3>2. calls' \subseteq Quick!Call /\ \A d \in calls' : Done(d)' /\ d.key = d.opening
        BY <1>0, <3>1, AnswerIs DEF Done, KeysAreOpenings
      <3> QED  BY <1>0, <3>1, <3>2 DEF QuickInv, Quick!TypeOK, KeysAreOpenings,
                 OneSalePerKey, Quick!LinkIsLive
    <2>2. CASE Quick!Takes(c)
      <3>1. /\ UNCHANGED <<client, bank, viewed, connected, published, mailed, opening, opened,
                   key, keys, form, confirmCash, result, mail, filed>>
            /\ calls' = IF c.form.method = "cash" THEN Quick!Answer(c, "create", "ok")
                        ELSE Quick!Answer(c, "publish", "sent")
        BY <1>1, <2>2 DEF Quick!CreateOrder
      <3>2. /\ sales \subseteq sales'
            /\ free' \in 0..Available
            /\ sales' \subseteq [opening : 1..MaxOpenings, key : 1..MaxKeys, form : Quick!Form]
            /\ \E t \in sales' : t.key = c.key /\ t.form = c.form
            /\ OneSalePerKey'
            /\ \A t \in sales' : t.key = t.opening
        <4>1. CASE Quick!Filed(c) # {}
          BY <1>0, <1>1, <2>2, <4>1 DEF Quick!CreateOrder, Quick!Takes, Quick!Filed,
             Quick!TypeOK, OneSalePerKey, KeysAreOpenings
        <4>2. CASE Quick!Filed(c) = {}
          <5>1. free' = free - c.form.quantity /\ sales' = sales \cup {s}
                /\ c.form.quantity <= free
            BY <1>1, <2>2, <4>2 DEF Quick!CreateOrder, Quick!Takes
          <5>2. s \in [opening : 1..MaxOpenings, key : 1..MaxKeys, form : Quick!Form]
            BY <1>0 DEF Quick!Call
          <5>3. c.form.quantity \in 1..Available /\ free \in 0..Available /\ Available \in Nat
            BY <1>0 DEF Quick!Call, Quick!Form, Quick!TypeOK, Quick!QuickAssumption
          <5>4. free' \in 0..Available
            BY <5>1, <5>3
          <5>5. \A t \in sales : t.key # c.key
            BY <4>2 DEF Quick!Filed
          <5>6. OneSalePerKey'
            BY <1>0, <5>1, <5>5 DEF OneSalePerKey
          <5>7. \A t \in sales' : t.key = t.opening
            BY <1>0, <5>1 DEF KeysAreOpenings
          <5>8. s \in sales' /\ s.key = c.key /\ s.form = c.form
            BY <5>1
          <5> QED  BY <1>0, <5>1, <5>2, <5>4, <5>6, <5>7, <5>8 DEF Quick!TypeOK
        <4> QED  BY <4>1, <4>2
      <3>3. calls' \subseteq Quick!Call /\ \A d \in calls' : Done(d)' /\ d.key = d.opening
        <4>1. CASE c.form.method = "cash"
          BY <1>0, <3>1, <3>2, <4>1, AnswerIs DEF Done, KeysAreOpenings
        <4>2. CASE c.form.method # "cash"
          BY <1>0, <3>1, <3>2, <4>2, AnswerIs DEF Done, KeysAreOpenings
        <4> QED  BY <4>1, <4>2
      <3>4. published' \subseteq {t.key : t \in sales'}
        BY <1>0, <3>1, <3>2 DEF Quick!TypeOK
      <3> QED  BY <1>0, <3>1, <3>2, <3>3, <3>4 DEF QuickInv, Quick!TypeOK, KeysAreOpenings,
                 Quick!LinkIsLive
    <2> QED  BY <2>1, <2>2
  <1>2. CASE Quick!PublishOrderLink(c)
    <2>1. calls' \subseteq Quick!Call /\ \A d \in calls' : Done(d)' /\ d.key = d.opening
      BY <1>0, <1>2, AnswerIs DEF Quick!PublishOrderLink, Done, KeysAreOpenings
    <2>2. \E s \in sales : s.key = c.key
      BY <1>0, <1>2 DEF Quick!PublishOrderLink, Done
    <2> QED  BY <1>0, <1>2, <2>1, <2>2 DEF Quick!PublishOrderLink, QuickInv, Quick!TypeOK,
               KeysAreOpenings, OneSalePerKey, Quick!LinkIsLive
  <1>3. CASE Quick!Lose(c)
    <2>1. c.phase \in {"create", "publish"}
      BY <1>0 DEF Quick!Call
    <2>2. calls' \subseteq Quick!Call /\ \A d \in calls' : Done(d)' /\ d.key = d.opening
      BY <1>0, <1>3, <2>1, AnswerIs DEF Quick!Lose, Done, KeysAreOpenings
    <2> QED  BY <1>0, <1>3, <2>2 DEF Quick!Lose, QuickInv, Quick!TypeOK,
               KeysAreOpenings, OneSalePerKey, Quick!LinkIsLive
  <1>4. CASE Quick!PublishedOK(c)
    <2>1. calls' \subseteq calls /\ \A d \in calls' : Done(d)'
      BY <1>0, <1>4 DEF Quick!PublishedOK, Done
    <2>2. Quick!LinkIsLive'
      <3>1. CASE result
        BY <1>0, <1>4, <3>1 DEF Quick!PublishedOK, Quick!LinkIsLive
      <3>2. CASE c.opening = opening
        <4>1. c.opening # 0
          BY <1>0 DEF Quick!Call
        <4>2. PICK s \in sales : s.key = c.key /\ s.form = c.form
          BY <1>0, <1>4 DEF Quick!PublishedOK, Done
        <4>3. c.key \in published /\ c.form.method # "cash"
          BY <1>0, <1>4 DEF Quick!PublishedOK, Done
        <4>4. key = opening /\ c.key = c.opening /\ s.opening = s.key
          BY <1>0, <3>2, <4>1 DEF KeysAreOpenings
        <4> QED  BY <1>4, <3>2, <4>2, <4>3, <4>4 DEF Quick!PublishedOK, Quick!LinkIsLive
      <3> QED  BY <1>4, <3>1, <3>2 DEF Quick!PublishedOK, Quick!LinkIsLive
    <2>3. result' \in BOOLEAN
      BY <1>0, <1>4 DEF Quick!PublishedOK, Quick!TypeOK
    <2> QED  BY <1>0, <1>4, <2>1, <2>2, <2>3 DEF Quick!PublishedOK, QuickInv, Quick!TypeOK,
               KeysAreOpenings, OneSalePerKey
  <1>5. CASE Quick!CashOK(c)
    <2>1. Quick!Blank \in Quick!Form
      BY DEF Quick!Blank, Quick!Form, Quick!Method, Quick!QuickAssumption
    <2>2. calls' \subseteq calls /\ \A d \in calls' : Done(d)'
      BY <1>0, <1>5 DEF Quick!CashOK, Done
    <2>3. opening' \in 0..opened'
      BY <1>0, <1>5 DEF Quick!CashOK, Quick!TypeOK
    <2>4. Quick!TypeOK'
      BY <1>0, <1>5, <2>1, <2>2, <2>3 DEF Quick!CashOK, Quick!Reset, Quick!TypeOK
    <2> QED  BY <1>0, <1>5, <2>2, <2>4 DEF Quick!CashOK, Quick!Reset, QuickInv,
               KeysAreOpenings, OneSalePerKey, Quick!LinkIsLive
  <1>6. CASE Quick!Failed(c)
    <2>1. calls' \subseteq calls /\ \A d \in calls' : Done(d)'
      BY <1>0, <1>6 DEF Quick!Failed, Done
    <2> QED  BY <1>0, <1>6, <2>1 DEF Quick!Failed, QuickInv, Quick!TypeOK,
               KeysAreOpenings, OneSalePerKey, Quick!LinkIsLive
  <1> QED  BY <1>1, <1>2, <1>3, <1>4, <1>5, <1>6 DEF CallStep

\* The steps of the dialog, and of others.
OpeningStep ==
    \/ Quick!OthersTake \/ Quick!LoadViewer \/ Quick!Open \/ Quick!Close
    \/ \E m \in Quick!Method : Quick!WebChooseMethod(m) \/ Quick!PhoneChooseMethod(m)
    \/ \E q \in 1..Available : Quick!StepQuantity(q)
    \/ Quick!AskCash \/ Quick!BackFromCash
    \/ Quick!WebPublish \/ Quick!PhonePublish \/ Quick!WebCreateCash \/ Quick!PhoneCreateCash
    \/ Quick!EmailAnswered
    \/ \E a \in Quick!Address : Quick!WebSendEmail(a) \/ Quick!PhoneSendEmail(a)

\* A step of the dialog keeps the invariant.
LEMMA OpeningKeeps ==
    ASSUME Quick!QuickAssumption, QuickInv, OpeningStep
    PROVE  QuickInv'
  <1> USE DEF Quick!given, Quick!server, Quick!dialog
  <1>0. /\ Quick!TypeOK /\ KeysAreOpenings /\ OneSalePerKey /\ Quick!LinkIsLive
        /\ \A d \in calls : Done(d)
    BY DEF QuickInv
  <1>a. ASSUME calls' = calls, UNCHANGED <<sales, published>>  PROVE \A d \in calls' : Done(d)'
    BY <1>0, <1>a DEF Done
  <1>b. Quick!Blank \in Quick!Form
    BY DEF Quick!Blank, Quick!Form, Quick!Method, Quick!QuickAssumption
  <1>1. CASE Quick!OthersTake
    <2>1. free' \in 0..Available
      BY <1>0, <1>1 DEF Quick!OthersTake, Quick!TypeOK, Quick!QuickAssumption
    <2> QED  BY <1>0, <1>1, <1>a, <2>1 DEF Quick!OthersTake, QuickInv, Quick!TypeOK,
               KeysAreOpenings, OneSalePerKey, Quick!LinkIsLive
  <1>2. CASE Quick!LoadViewer
    BY <1>0, <1>2, <1>a DEF Quick!LoadViewer, QuickInv, Quick!TypeOK,
       KeysAreOpenings, OneSalePerKey, Quick!LinkIsLive
  <1>3. CASE Quick!Open
    <2>1. /\ opening' \in 0..opened' /\ opened' \in 0..MaxOpenings /\ key' \in 0..keys'
          /\ keys' \in 0..MaxKeys
      BY <1>0, <1>3 DEF Quick!Open, Quick!TypeOK, Quick!QuickAssumption
    <2> QED  BY <1>0, <1>3, <1>a, <1>b, <2>1 DEF Quick!Open, Quick!Reset, QuickInv,
               Quick!TypeOK, KeysAreOpenings, OneSalePerKey, Quick!LinkIsLive
  <1>4. CASE Quick!Close
    <2>1. opening' \in 0..opened'
      BY <1>0, <1>4 DEF Quick!Close, Quick!TypeOK
    <2> QED  BY <1>0, <1>4, <1>a, <1>b, <2>1 DEF Quick!Close, Quick!Reset, QuickInv,
               Quick!TypeOK, KeysAreOpenings, OneSalePerKey, Quick!LinkIsLive
  <1>5. ASSUME NEW m \in Quick!Method, Quick!WebChooseMethod(m) \/ Quick!PhoneChooseMethod(m)
        PROVE  QuickInv'
    <2>1. form' \in Quick!Form /\ calls' = calls
      BY <1>0, <1>5 DEF Quick!WebChooseMethod, Quick!PhoneChooseMethod, Quick!TypeOK, Quick!Form
    <2> QED  BY <1>0, <1>5, <1>a, <2>1 DEF Quick!WebChooseMethod, Quick!PhoneChooseMethod,
               QuickInv, Quick!TypeOK, KeysAreOpenings, OneSalePerKey, Quick!LinkIsLive
  <1>6. ASSUME NEW q \in 1..Available, Quick!StepQuantity(q)  PROVE QuickInv'
    <2>1. form' \in Quick!Form
      BY <1>0, <1>6 DEF Quick!StepQuantity, Quick!TypeOK, Quick!Form
    <2> QED  BY <1>0, <1>6, <1>a, <2>1 DEF Quick!StepQuantity,
               QuickInv, Quick!TypeOK, KeysAreOpenings, OneSalePerKey, Quick!LinkIsLive
  <1>7. CASE Quick!AskCash \/ Quick!BackFromCash
    <2>1. /\ UNCHANGED <<client, bank, viewed, connected, free, sales, published, mailed,
                 opening, opened, key, keys, form, result, calls, mail, filed>>
          /\ confirmCash' \in BOOLEAN
      BY <1>7 DEF Quick!AskCash, Quick!BackFromCash
    <2> QED  BY <1>0, <1>a, <2>1 DEF QuickInv, Quick!TypeOK, KeysAreOpenings,
               OneSalePerKey, Quick!LinkIsLive
  <1>8. CASE Quick!WebPublish \/ Quick!PhonePublish \/ Quick!WebCreateCash \/ Quick!PhoneCreateCash
    <2>1. /\ Quick!Send /\ opening # 0
          /\ UNCHANGED <<client, bank, viewed, connected, free, sales, published, mailed,
                 opening, opened, key, keys, form, confirmCash, result, mail, filed>>
      BY <1>8 DEF Quick!WebPublish, Quick!PhonePublish, Quick!WebCreateCash,
         Quick!PhoneCreateCash, Quick!Choosing
    <2>2. calls' \subseteq Quick!Call /\ \A d \in calls' : Done(d)' /\ d.key = d.opening
      BY <1>0, <2>1, SendIs DEF Done, KeysAreOpenings
    <2> QED  BY <1>0, <2>1, <2>2 DEF QuickInv, Quick!TypeOK,
               KeysAreOpenings, OneSalePerKey, Quick!LinkIsLive
  <1>9. CASE Quick!EmailAnswered
    BY <1>0, <1>9, <1>a DEF Quick!EmailAnswered, QuickInv, Quick!TypeOK,
       KeysAreOpenings, OneSalePerKey, Quick!LinkIsLive
  <1>10. ASSUME NEW a \in Quick!Address, Quick!WebSendEmail(a) \/ Quick!PhoneSendEmail(a)
         PROVE  QuickInv'
    <2>1. Quick!SendOfferLink(a)
      BY <1>10 DEF Quick!WebSendEmail, Quick!PhoneSendEmail
    <2> QED  BY <1>0, <1>a, <2>1 DEF Quick!SendOfferLink, QuickInv, Quick!TypeOK,
               KeysAreOpenings, OneSalePerKey, Quick!LinkIsLive
  <1> QED  BY <1>1, <1>2, <1>3, <1>4, <1>5, <1>6, <1>7, <1>8, <1>9, <1>10 DEF OpeningStep

\* Every step keeps the invariant.
LEMMA QuickNext ==
    Quick!QuickAssumption /\ QuickInv /\ [Quick!Next]_(Quick!vars) => QuickInv'
  <1> SUFFICES ASSUME Quick!QuickAssumption, QuickInv, [Quick!Next]_(Quick!vars)
               PROVE  QuickInv'
    OBVIOUS
  <1>1. ASSUME NEW c \in calls, CallStep(c)  PROVE QuickInv'
    BY <1>1, CallKeeps
  <1>2. ASSUME OpeningStep  PROVE QuickInv'
    BY <1>2, OpeningKeeps
  <1>3. CASE UNCHANGED Quick!vars
    <2>1. \A c \in calls' : Done(c)'
      BY <1>3 DEF Quick!vars, QuickInv, Done
    <2> QED  BY <1>3, <2>1 DEF Quick!vars, QuickInv, Quick!TypeOK, KeysAreOpenings,
               OneSalePerKey, Quick!LinkIsLive
  <1> QED  BY <1>1, <1>2, <1>3 DEF Quick!Next, CallStep, OpeningStep

\* The invariant gives what the seller relies on.
LEMMA QuickGives ==
    QuickInv => Quick!OneSalePerOpening /\ Quick!SoldAsAsked /\ Quick!LinkIsLive
  BY DEF QuickInv, KeysAreOpenings, OneSalePerKey, Done, Quick!OneSalePerOpening, Quick!SoldAsAsked

\* One opening sells once, the seller is told of the sale that was asked for,
\* and the link shown is that of a sale of this opening and is served.
THEOREM QuickSaleIsSafe ==
    ASSUME Quick!QuickAssumption
    PROVE  Quick!Spec =>
              [](Quick!OneSalePerOpening /\ Quick!SoldAsAsked /\ Quick!LinkIsLive)
  BY QuickInit, QuickNext, QuickGives, PTL DEF Quick!Spec

\* The quick sale keeps its types.
THEOREM QuickIsTyped ==
    ASSUME Quick!QuickAssumption
    PROVE  Quick!Spec => []Quick!TypeOK
  <1>1. QuickInv => Quick!TypeOK
    BY DEF QuickInv
  <1> QED  BY <1>1, QuickInit, QuickNext, PTL DEF Quick!Spec

----------------------------------------------------------------------------
(* The actions on a sale.                                                  *)

\* The requests the server has, or may still receive.
Sent ==
    answers \cup (IF call = None THEN {} ELSE {call.request})
            \cup (IF late = None THEN {} ELSE {late})

\* A request belongs to a dialog that was opened, and to a key that was drawn.
Drawn == \A r \in Sent : r.intent <= intents /\ r.key <= key

\* The requests of one dialog are of one command and, but for a link that is
\* sent again, under one key.
OneKeyPerIntent ==
    \A r, q \in Sent :
        r.intent = q.intent => r.kind = q.kind /\ (r.kind # "resend" => r.key = q.key)

\* What was sent from the open dialog is what it would send; a request under
\* way from an earlier dialog means that nothing was.
DialogSends ==
    dialog # None =>
        /\ dialog.intent <= intents
        /\ \A r \in Sent : r.intent = dialog.intent =>
              r.kind = dialog.kind /\ (r.kind # "resend" => r.key = key)
        /\ call # None /\ call.request.intent # dialog.intent =>
              \A r \in Sent : r.intent # dialog.intent

\* The phone draws a key for each dialog.
PhoneKeys ==
    client = "mobile" =>
        /\ \A r, q \in Sent : r.key = q.key => r.intent = q.intent
        /\ dialog # None => \A r \in Sent : r.key = key => r.intent = dialog.intent

RequestsInv == Drawn /\ OneKeyPerIntent /\ DialogSends /\ PhoneKeys

\* What is read after a success is as new as it.
ReadsInv ==
    /\ shown <= sale.version /\ Sale!FreshAfterSuccess
    /\ fetching # None => fetching.version >= shown

SaleInv == Sale!TypeOK /\ RequestsInv /\ ReadsInv

\* It holds at first.
LEMMA SaleInit == Sale!ActionsAssumption /\ Sale!Init => SaleInv
  <1> SUFFICES ASSUME Sale!ActionsAssumption, Sale!Init PROVE SaleInv
    OBVIOUS
  <1>1. sale \in Sale!Sale
    BY DEF Sale!Init, Sale!Sale, Sale!Status
  <1>2. 0 \in 0..MaxIntents /\ 1 \in 1..MaxKeys /\ 0 \in 0..MaxMoves /\ 0 \in Nat
    BY DEF Sale!ActionsAssumption
  <1>3. Sale!TypeOK
    BY <1>1, <1>2 DEF Sale!Init, Sale!TypeOK
  <1>4. Sent = {}
    BY DEF Sale!Init, Sent
  <1>5. shown = 0 /\ sale.version = 0
    BY DEF Sale!Init
  <1> QED  BY <1>3, <1>4, <1>5 DEF Sale!Init, SaleInv, RequestsInv, ReadsInv, Drawn,
             OneKeyPerIntent, DialogSends, PhoneKeys, Sale!FreshAfterSuccess

\* What a command makes of a sale is a sale, one change later or the same.
LEMMA AfterIs ==
    ASSUME Sale!TypeOK, Sale!ActionsAssumption, NEW k \in Sale!Kind, Sale!Allowed(k, sale)
    PROVE  Sale!After(k, sale) \in Sale!Sale /\ Sale!After(k, sale).version >= sale.version
  <1>1. /\ sale.status \in Sale!Status /\ sale.back \in Sale!Active \cup {None}
        /\ sale.version \in Nat /\ sale \in Sale!Sale
    BY DEF Sale!TypeOK, Sale!Sale
  <1>2. ASSUME NEW status \in Sale!Status, NEW back \in Sale!Active \cup {None}
        PROVE  /\ Sale!Moved(sale, status, back) \in Sale!Sale
               /\ Sale!Moved(sale, status, back).version >= sale.version
    BY <1>1, <1>2 DEF Sale!Moved, Sale!Sale
  <1>3. CASE k \in {"approve", "manual"}
    BY <1>1, <1>2, <1>3 DEF Sale!After, Sale!Status
  <1>4. CASE k \in {"reject", "reissue"}
    BY <1>1, <1>2, <1>4 DEF Sale!After, Sale!Status
  <1>5. CASE k = "cancel"
    <2>1. sale.status \in Sale!Active
      BY <1>5 DEF Sale!Allowed
    <2> QED  BY <1>1, <1>2, <1>5, <2>1 DEF Sale!After, Sale!Status
  <1>6. CASE k = "restore"
    <2>1. sale.back \in Sale!Active
      BY <1>1, <1>6 DEF Sale!Allowed
    <2>2. sale.back \in Sale!Status
      BY <2>1 DEF Sale!Active, Sale!Status
    <2> QED  BY <1>1, <1>2, <1>6, <2>2 DEF Sale!After
  <1>7. CASE k = "refund"
    BY <1>1, <1>2, <1>7 DEF Sale!After, Sale!Status
  <1>8. CASE k = "resend"
    BY <1>1, <1>8 DEF Sale!After
  <1> QED  BY <1>3, <1>4, <1>5, <1>6, <1>7, <1>8 DEF Sale!Kind

\* The server executes a request or leaves everything as it is.
LEMMA ExecuteIs ==
    ASSUME Sale!TypeOK, Sale!ActionsAssumption, NEW r \in Sale!Request, Sale!Execute(r)
    PROVE  /\ sale' \in Sale!Sale /\ sale'.version >= sale.version
           /\ answers' \subseteq answers \cup {r}
           /\ answers' \subseteq Sale!Request
           /\ \A a, b \in answers' :
                 Sale!Scope(a.kind) = Sale!Scope(b.kind) /\ a.key = b.key => a = b
  <1>1. CASE Sale!Filed(r) = {} /\ Sale!Allowed(r.kind, sale)
    <2>1. sale' = Sale!After(r.kind, sale) /\ answers' = answers \cup {r}
      BY <1>1 DEF Sale!Execute
    <2>2. r.kind \in Sale!Kind
      BY DEF Sale!Request
    <2>3. \A a \in answers : ~(Sale!Scope(a.kind) = Sale!Scope(r.kind) /\ a.key = r.key)
      BY <1>1 DEF Sale!Filed
    <2> QED  BY <1>1, <2>1, <2>2, <2>3, AfterIs DEF Sale!TypeOK
  <1>2. CASE ~(Sale!Filed(r) = {} /\ Sale!Allowed(r.kind, sale))
    <2>1. UNCHANGED <<sale, answers>>
      BY <1>2 DEF Sale!Execute
    <2>2. sale.version \in Nat
      BY DEF Sale!TypeOK, Sale!Sale
    <2> QED  BY <2>1, <2>2 DEF Sale!TypeOK
  <1> QED  BY <1>1, <1>2

\* The requests, the dialog and the keys stay as they are.
Quiet == Sent' \subseteq Sent /\ UNCHANGED <<client, dialog, intents, key>>

\* The request under way is the one it was, or there is none.
SameCall == call' = None \/ (call # None /\ call'.request = call.request)

\* Requests that nothing is added to keep their invariant, if the request under
\* way is the one it was, or none.
LEMMA QuietKeeps ==
    ASSUME RequestsInv, Quiet, SameCall
    PROVE  RequestsInv'
  BY DEF RequestsInv, Quiet, SameCall, Drawn, OneKeyPerIntent, DialogSends, PhoneKeys

\* The server's steps.
ServerStep ==
    Sale!Serve \/ Sale!LoseAnswer \/ Sale!LoseRequest \/ Sale!ServeLate \/ Sale!OthersMove

\* A step of the server keeps the invariant.
LEMMA ServerKeeps ==
    ASSUME Sale!ActionsAssumption, SaleInv, ServerStep
    PROVE  SaleInv'
  <1> USE DEF Sale!pageVars
  <1>0. /\ Sale!TypeOK /\ RequestsInv /\ ReadsInv /\ sale.version \in Nat /\ shown \in Nat
        /\ \/ call = None
           \/ /\ call \in [request : Sale!Request, reply : {"sent", "ok", "refused", "lost"}]
              /\ call.request \in Sale!Request
    BY DEF SaleInv, Sale!TypeOK, Sale!Sale
  <1>1. ASSUME sale' \in Sale!Sale, sale'.version >= sale.version,
               UNCHANGED <<detail, shown>>, fetching' \in {fetching, sale'}
        PROVE  ReadsInv'
    <2>1. sale'.version \in Nat /\ sale' # None
      BY <1>1 DEF Sale!Sale, Sale!ActionsAssumption
    <2> QED  BY <1>0, <1>1, <2>1 DEF ReadsInv, Sale!FreshAfterSuccess
  <1>2. CASE Sale!Serve
    <2> DEFINE reply == IF Sale!Accepts(call.request) THEN "ok" ELSE "refused"
    <2>1. /\ call # None /\ Sale!Execute(call.request)
          /\ call' = [call EXCEPT !.reply = reply]
          /\ UNCHANGED <<client, method, dialog, intents, key, shown, detail, fetching, late, moves>>
      BY <1>2 DEF Sale!Serve
    <2>2. /\ sale' \in Sale!Sale /\ sale'.version >= sale.version
          /\ answers' \subseteq answers \cup {call.request} /\ answers' \subseteq Sale!Request
          /\ \A a, b \in answers' :
                 Sale!Scope(a.kind) = Sale!Scope(b.kind) /\ a.key = b.key => a = b
      BY <1>0, <2>1, ExecuteIs
    <2>3. /\ call'.request = call.request
          /\ call' \in [request : Sale!Request, reply : {"sent", "ok", "refused", "lost"}]
      BY <1>0, <2>1
    <2>4. Quiet
      BY <2>1, <2>2, <2>3 DEF Quiet, Sent
    <2>5. Sale!TypeOK'
      BY <1>0, <2>1, <2>2, <2>3 DEF Sale!TypeOK
    <2> QED  BY <1>0, <1>1, <2>1, <2>2, <2>3, <2>4, <2>5, QuietKeeps DEF SaleInv, SameCall
  <1>3. CASE Sale!LoseAnswer \/ Sale!LoseRequest
    <2>1. /\ call # None /\ call' = [call EXCEPT !.reply = "lost"]
          /\ late' \in {late, None, call.request}
          /\ UNCHANGED <<client, method, dialog, intents, key, shown, sale, answers, detail,
                         fetching, moves>>
      BY <1>3 DEF Sale!LoseAnswer, Sale!LoseRequest
    <2>2. /\ call'.request = call.request
          /\ call' \in [request : Sale!Request, reply : {"sent", "ok", "refused", "lost"}]
      BY <1>0, <2>1
    <2>3. Quiet
      BY <2>1, <2>2 DEF Quiet, Sent
    <2>4. Sale!TypeOK'
      BY <1>0, <2>1, <2>2 DEF Sale!TypeOK
    <2>5. ReadsInv'
      BY <1>0, <2>1 DEF ReadsInv, Sale!FreshAfterSuccess
    <2> QED  BY <1>0, <2>1, <2>2, <2>3, <2>4, <2>5, QuietKeeps DEF SaleInv, SameCall
  <1>4. CASE Sale!ServeLate
    <2>1. /\ late # None /\ Sale!Execute(late) /\ late' = None
          /\ UNCHANGED <<client, method, dialog, intents, key, shown, detail, call, moves>>
          /\ fetching' \in {fetching, sale'}
          /\ late \in Sale!Request
      BY <1>0, <1>4 DEF Sale!ServeLate, Sale!TypeOK
    <2>2. /\ sale' \in Sale!Sale /\ sale'.version >= sale.version
          /\ answers' \subseteq answers \cup {late} /\ answers' \subseteq Sale!Request
          /\ \A a, b \in answers' :
                 Sale!Scope(a.kind) = Sale!Scope(b.kind) /\ a.key = b.key => a = b
      BY <1>0, <2>1, ExecuteIs
    <2>3. Quiet
      BY <2>1, <2>2 DEF Quiet, Sent
    <2>4. Sale!TypeOK'
      BY <1>0, <2>1, <2>2 DEF Sale!TypeOK
    <2>5. SameCall
      BY <2>1 DEF SameCall
    <2> QED  BY <1>0, <1>1, <2>1, <2>2, <2>3, <2>4, <2>5, QuietKeeps DEF SaleInv
  <1>5. CASE Sale!OthersMove
    <2>1. /\ moves < MaxMoves /\ moves' = moves + 1
          /\ UNCHANGED <<client, method, dialog, intents, key, shown, answers, detail,
                         fetching, call, late>>
      BY <1>5 DEF Sale!OthersMove
    <2>2. sale' \in Sale!Sale /\ sale'.version >= sale.version
      <3>1. CASE sale' = Sale!Moved(sale, "purchase_validation", sale.back)
        BY <1>0, <3>1 DEF Sale!Moved, Sale!TypeOK, Sale!Sale, Sale!Status
      <3>2. ASSUME NEW k \in {"cancel", "restore", "approve"}, Sale!Allowed(k, sale),
                   sale' = Sale!After(k, sale)
            PROVE  sale' \in Sale!Sale /\ sale'.version >= sale.version
        BY <1>0, <3>2, AfterIs DEF Sale!Kind
      <3> QED  BY <1>5, <3>1, <3>2 DEF Sale!OthersMove
    <2>3. Quiet
      BY <2>1 DEF Quiet, Sent
    <2>4. moves' \in 0..MaxMoves
      BY <1>0, <2>1 DEF Sale!TypeOK, Sale!ActionsAssumption
    <2>5. Sale!TypeOK'
      BY <1>0, <2>1, <2>2, <2>4 DEF Sale!TypeOK
    <2>6. SameCall
      BY <2>1 DEF SameCall
    <2> QED  BY <1>0, <1>1, <2>1, <2>2, <2>3, <2>5, <2>6, QuietKeeps DEF SaleInv
  <1> QED  BY <1>2, <1>3, <1>4, <1>5 DEF ServerStep

\* The steps of reading the sale.
ReadStep == Sale!StartFetch \/ Sale!EndFetch \/ Sale!FetchFails

\* A read keeps the invariant.
LEMMA ReadKeeps ==
    ASSUME Sale!ActionsAssumption, SaleInv, ReadStep
    PROVE  SaleInv'
  <1> USE DEF Sale!pageVars
  <1>0. /\ Sale!TypeOK /\ RequestsInv /\ ReadsInv /\ sale \in Sale!Sale
        /\ None \notin Sale!Sale /\ sale.version \in Nat /\ shown \in Nat
    BY DEF SaleInv, Sale!TypeOK, Sale!Sale, Sale!ActionsAssumption
  <1>1. /\ UNCHANGED <<client, method, dialog, intents, key, shown, sale, answers, call, late, moves>>
        /\ \/ fetching' = sale /\ detail' = detail
           \/ fetching # None /\ fetching' = None /\ detail' = fetching
           \/ detail = None /\ fetching' = None /\ detail' = None
    BY DEF ReadStep, Sale!StartFetch, Sale!EndFetch, Sale!FetchFails
  <1>2. Quiet /\ SameCall
    BY <1>1 DEF Quiet, Sent, SameCall
  <1>3. ReadsInv'
    BY <1>0, <1>1 DEF ReadsInv, Sale!FreshAfterSuccess
  <1>4. Sale!TypeOK'
    BY <1>0, <1>1 DEF Sale!TypeOK
  <1> QED  BY <1>0, <1>2, <1>3, <1>4, QuietKeeps DEF SaleInv

\* The steps of the dialog.
DialogStep ==
    \/ Sale!Reopen
    \/ \E k \in Kinds : Sale!WebOpenAction(k) \/ Sale!PhoneOpenAction(k)
    \/ \E t \in Texts : Sale!WebEditText(t) \/ Sale!PhoneEditText(t)
    \/ Sale!WebClose \/ Sale!PhoneClose

\* A step of the dialog keeps the invariant.
LEMMA DialogKeeps ==
    ASSUME Sale!ActionsAssumption, SaleInv, DialogStep
    PROVE  SaleInv'
  <1> DEFINE Row == [kind : Sale!Kind, text : Texts \cup {None}, intent : 1..MaxIntents]
  <1>0. /\ Sale!TypeOK /\ RequestsInv /\ ReadsInv
        /\ intents \in 0..MaxIntents /\ key \in 1..MaxKeys /\ MaxIntents \in Nat /\ MaxKeys \in Nat
        /\ dialog = None \/ dialog \in Row
        /\ \A r \in Sent : r \in Sale!Request /\ r.intent \in Nat /\ r.key \in Nat
    BY DEF SaleInv, Sale!TypeOK, Sale!ActionsAssumption, Sent, Sale!Request
  <1>1. ASSUME UNCHANGED <<client, method, sale, answers, detail, fetching, call, late, moves, shown>>,
               intents' \in 0..MaxIntents, key' \in 1..MaxKeys, dialog' = None \/ dialog' \in Row
        PROVE  /\ Sale!TypeOK' /\ ReadsInv' /\ Sent' = Sent
    BY <1>0, <1>1 DEF Sale!TypeOK, ReadsInv, Sale!FreshAfterSuccess, Sent
  <1>2. CASE Sale!WebClose \/ Sale!PhoneClose
    <2>1. /\ UNCHANGED <<client, method, sale, answers, detail, fetching, call, late, moves, shown>>
          /\ dialog' = None /\ intents' = intents /\ key' = key
      BY <1>2 DEF Sale!WebClose, Sale!PhoneClose, Sale!Close
    <2>2. Sale!TypeOK' /\ ReadsInv' /\ Sent' = Sent
      BY <1>0, <1>1, <2>1
    <2>3. RequestsInv'
      BY <1>0, <2>1, <2>2 DEF RequestsInv, Drawn, OneKeyPerIntent, DialogSends, PhoneKeys
    <2> QED  BY <2>2, <2>3 DEF SaleInv
  <1>5. CASE Sale!Reopen
    <2>1. /\ UNCHANGED <<client, method, sale, answers, detail, intents, moves, shown>>
          /\ dialog' = None /\ call' = None /\ key < MaxKeys /\ key' = key + 1
          /\ fetching' \in {fetching, sale}
          /\ late' = late \/ (call # None /\ late' = call.request)
      BY <1>5 DEF Sale!Reopen, Sale!NewKey, Sale!Pending
    <2>2. key' \in 1..MaxKeys /\ key' >= key
      BY <1>0, <2>1
    <2>3. sale \in Sale!Sale /\ sale # None /\ late' \in Sale!Request \cup {None}
      BY <1>0, <2>1 DEF Sale!TypeOK, Sale!ActionsAssumption
    <2>4. Sale!TypeOK'
      BY <1>0, <2>1, <2>2, <2>3 DEF Sale!TypeOK
    <2>5. ReadsInv'
      BY <1>0, <2>1, <2>3 DEF ReadsInv, Sale!FreshAfterSuccess
    <2>6. Sent' \subseteq Sent
      BY <2>1 DEF Sent
    <2>7. RequestsInv'
      BY <1>0, <2>1, <2>2, <2>6 DEF RequestsInv, Drawn, OneKeyPerIntent, DialogSends, PhoneKeys
    <2> QED  BY <2>4, <2>5, <2>7 DEF SaleInv
  <1>3. ASSUME NEW k \in Kinds, Sale!WebOpenAction(k) \/ Sale!PhoneOpenAction(k)  PROVE SaleInv'
    <2>1. /\ Sale!Open(k)
          /\ \/ key' = key /\ client = "web"
             \/ key < MaxKeys /\ key' = key + 1
      BY <1>3 DEF Sale!WebOpenAction, Sale!WebShown, Sale!PhoneOpenAction, Sale!NewKey
    <2>2. /\ intents < MaxIntents /\ intents' = intents + 1
          /\ UNCHANGED <<client, method, sale, answers, detail, fetching, call, late, moves, shown>>
      BY <2>1 DEF Sale!Open
    <2>3. PICK t \in Sale!Text(k) : dialog' = [kind |-> k, text |-> t, intent |-> intents + 1]
      BY <2>1 DEF Sale!Open
    <2>4. t \in Texts \cup {None}
      BY DEF Sale!Text
    <2>5. dialog' \in Row /\ dialog'.intent = intents + 1
      BY <1>0, <2>2, <2>3, <2>4 DEF Sale!ActionsAssumption
    <2>6. key' \in 1..MaxKeys /\ intents' \in 0..MaxIntents /\ key' >= key
      BY <1>0, <2>1, <2>2
    <2>7. Sale!TypeOK' /\ ReadsInv' /\ Sent' = Sent
      BY <1>1, <2>2, <2>5, <2>6
    <2>8. \A r \in Sent : r.intent # intents + 1 /\ r.intent <= intents' /\ r.key <= key'
      BY <1>0, <2>2, <2>6 DEF RequestsInv, Drawn
    <2>9. client = "mobile" => \A r \in Sent : r.key # key'
      BY <1>0, <2>1 DEF RequestsInv, Drawn
    <2> QED  BY <1>0, <2>2, <2>5, <2>7, <2>8, <2>9 DEF SaleInv, RequestsInv, Drawn,
               OneKeyPerIntent, DialogSends, PhoneKeys
  <1>4. ASSUME NEW t \in Texts, Sale!WebEditText(t) \/ Sale!PhoneEditText(t)  PROVE SaleInv'
    <2>1. /\ UNCHANGED <<client, method, sale, answers, detail, fetching, intents, key, call,
                         late, moves, shown>>
          /\ dialog # None /\ dialog' = [dialog EXCEPT !.text = t]
      BY <1>4 DEF Sale!WebEditText, Sale!PhoneEditText
    <2>2. dialog' \in Row /\ dialog'.intent = dialog.intent /\ dialog'.kind = dialog.kind
      BY <1>0, <2>1
    <2>3. Sale!TypeOK' /\ ReadsInv' /\ Sent' = Sent
      BY <1>0, <1>1, <2>1, <2>2
    <2> QED  BY <1>0, <2>1, <2>2, <2>3 DEF SaleInv, RequestsInv, Drawn,
               OneKeyPerIntent, DialogSends, PhoneKeys
  <1> QED  BY <1>2, <1>3, <1>4, <1>5 DEF DialogStep

\* The steps of a request on the page.
RequestStep ==
    \/ Sale!WebSubmitAction \/ Sale!PhoneConfirmAction
    \/ Sale!WebSuccess \/ Sale!PhoneSuccess \/ Sale!WebError \/ Sale!PhoneError

\* A step of a request keeps the invariant.
LEMMA RequestKeeps ==
    ASSUME Sale!ActionsAssumption, SaleInv, RequestStep
    PROVE  SaleInv'
  <1> DEFINE Row == [kind : Sale!Kind, text : Texts \cup {None}, intent : 1..MaxIntents]
  <1>0. /\ Sale!TypeOK /\ RequestsInv /\ ReadsInv
        /\ key \in 1..MaxKeys /\ MaxIntents \in Nat /\ MaxKeys \in Nat
        /\ intents \in 0..MaxIntents
        /\ dialog = None \/ dialog \in Row
        /\ \A r \in Sent : r \in Sale!Request /\ r.intent \in Nat /\ r.key \in Nat
        /\ sale \in Sale!Sale /\ sale.version \in Nat /\ None \notin Sale!Sale
        /\ shown \in Nat
        /\ Sale!Sale \subseteq [status : Sale!Status, back : Sale!Active \cup {None}, version : Nat]
    BY DEF SaleInv, Sale!TypeOK, Sale!ActionsAssumption, Sent, Sale!Request, Sale!Sale
  <1>1. CASE Sale!WebSubmitAction \/ Sale!PhoneConfirmAction
    <2> DEFINE r == [kind |-> dialog.kind, text |-> dialog.text, key |-> key,
                     intent |-> dialog.intent]
    <2>1. /\ dialog # None /\ call = None /\ call' = [request |-> r, reply |-> "sent"]
          /\ UNCHANGED <<client, method, sale, answers, detail, fetching, dialog, intents, key,
                         late, moves, shown>>
      BY <1>1 DEF Sale!WebSubmitAction, Sale!PhoneConfirmAction, Sale!Send, Sale!Pending,
         Sale!WebRequest, Sale!PhoneRequest
    <2>2. r \in Sale!Request
      BY <1>0, <2>1 DEF Sale!Request
    <2>3. call' \in [request : Sale!Request, reply : {"sent", "ok", "refused", "lost"}]
      BY <2>1, <2>2
    <2>4. Sale!TypeOK' /\ ReadsInv'
      BY <1>0, <2>1, <2>3 DEF Sale!TypeOK, ReadsInv, Sale!FreshAfterSuccess
    <2>5. Sent' \subseteq Sent \cup {r} /\ call'.request = r
      BY <2>1 DEF Sent
    <2>6. r.kind = dialog.kind /\ r.key = key /\ r.intent = dialog.intent
      OBVIOUS
    <2> HIDE DEF r
    <2>7. Drawn'
      BY <1>0, <2>1, <2>5, <2>6 DEF RequestsInv, Drawn, DialogSends
    <2>8. \A q \in Sent : q.intent = r.intent => q.kind = r.kind /\ (q.kind # "resend" => q.key = r.key)
      BY <1>0, <2>1, <2>6 DEF RequestsInv, DialogSends
    <2>9. OneKeyPerIntent'
      BY <1>0, <2>5, <2>8 DEF RequestsInv, OneKeyPerIntent
    <2>10. DialogSends'
      BY <1>0, <2>1, <2>5, <2>6, <2>8 DEF RequestsInv, DialogSends
    <2>11. PhoneKeys'
      BY <1>0, <2>1, <2>5, <2>6 DEF RequestsInv, PhoneKeys
    <2> QED  BY <2>4, <2>7, <2>9, <2>10, <2>11 DEF SaleInv, RequestsInv
  <1>2. CASE Sale!WebSuccess \/ Sale!PhoneSuccess
    <2>1. /\ call # None /\ dialog' = None /\ call' = None /\ fetching' = sale
          /\ shown' = sale.version
          /\ \/ key' = key
             \/ key < MaxKeys /\ key' = key + 1
          /\ UNCHANGED <<client, method, sale, answers, detail, intents, late, moves>>
      <3>1. Sale!Succeed /\ (key' = key \/ (key < MaxKeys /\ key' = key + 1))
        BY <1>2 DEF Sale!WebSuccess, Sale!PhoneSuccess, Sale!NewKey
      <3> QED  BY <3>1 DEF Sale!Succeed, Sale!Invalidate, Sale!Pending
    <2>2. Sent' \subseteq Sent
      BY <2>1 DEF Sent
    <2>3. key' \in 1..MaxKeys /\ key' >= key
      BY <1>0, <2>1
    <2>4. Sale!TypeOK'
      BY <1>0, <2>1, <2>3 DEF Sale!TypeOK
    <2>5. ReadsInv'
      BY <1>0, <2>1 DEF ReadsInv, Sale!FreshAfterSuccess
    <2>6. Drawn'
      BY <1>0, <2>1, <2>2, <2>3 DEF RequestsInv, Drawn
    <2>7. OneKeyPerIntent' /\ DialogSends' /\ PhoneKeys'
      BY <1>0, <2>1, <2>2 DEF RequestsInv, OneKeyPerIntent, DialogSends, PhoneKeys
    <2> QED  BY <2>4, <2>5, <2>6, <2>7 DEF SaleInv, RequestsInv
  <1>3. CASE Sale!WebError \/ Sale!PhoneError
    <2>1. /\ call # None /\ call' = None
          /\ \/ key' = key
             \/ key < MaxKeys /\ key' = key + 1 /\ call.request.kind = "resend"
          /\ UNCHANGED <<client, method, sale, answers, detail, fetching, dialog, intents,
                         late, moves, shown>>
      BY <1>3 DEF Sale!WebError, Sale!PhoneError, Sale!Fail, Sale!NewKey, Sale!Pending
    <2>2. Sent' \subseteq Sent /\ call.request \in Sent
      BY <2>1 DEF Sent
    <2>3. key' \in 1..MaxKeys /\ key' >= key
      BY <1>0, <2>1
    <2>4. Sale!TypeOK' /\ ReadsInv'
      BY <1>0, <2>1, <2>3 DEF Sale!TypeOK, ReadsInv, Sale!FreshAfterSuccess
    <2>5. CASE key' = key
      BY <1>0, <2>1, <2>2, <2>4, <2>5 DEF SaleInv, RequestsInv, Drawn, OneKeyPerIntent,
         DialogSends, PhoneKeys
    <2>6. CASE key' = key + 1 /\ call.request.kind = "resend"
      <3>1. \A r \in Sent : r.key # key'
        BY <1>0, <2>6 DEF RequestsInv, Drawn
      <3>2. dialog # None => \A r \in Sent : r.intent = dialog.intent =>
               r.kind = dialog.kind /\ r.kind = "resend"
        BY <1>0, <2>1, <2>2, <2>6 DEF RequestsInv, DialogSends
      <3>3. DialogSends'
        BY <1>0, <2>1, <2>2, <3>2 DEF RequestsInv, DialogSends
      <3>4. Drawn'
        BY <1>0, <2>1, <2>2, <2>3 DEF RequestsInv, Drawn
      <3>5. OneKeyPerIntent' /\ PhoneKeys'
        BY <1>0, <2>1, <2>2, <3>1 DEF RequestsInv, OneKeyPerIntent, PhoneKeys
      <3> QED  BY <2>4, <3>3, <3>4, <3>5 DEF SaleInv, RequestsInv
    <2> QED  BY <2>1, <2>5, <2>6
  <1> QED  BY <1>1, <1>2, <1>3 DEF RequestStep

\* Every step keeps the invariant.
LEMMA SaleNext ==
    Sale!ActionsAssumption /\ SaleInv /\ [Sale!Next]_(Sale!vars) => SaleInv'
  <1> SUFFICES ASSUME Sale!ActionsAssumption, SaleInv, [Sale!Next]_(Sale!vars)
               PROVE  SaleInv'
    OBVIOUS
  <1>1. ASSUME ServerStep  PROVE SaleInv'
    BY <1>1, ServerKeeps
  <1>2. ASSUME ReadStep  PROVE SaleInv'
    BY <1>2, ReadKeeps
  <1>3. ASSUME DialogStep  PROVE SaleInv'
    BY <1>3, DialogKeeps
  <1>4. ASSUME RequestStep  PROVE SaleInv'
    BY <1>4, RequestKeeps
  <1>5. CASE UNCHANGED Sale!vars
    <2>1. Quiet /\ SameCall
      BY <1>5 DEF Sale!vars, Quiet, Sent, SameCall
    <2>2. Sale!TypeOK' /\ ReadsInv'
      BY <1>5 DEF Sale!vars, SaleInv, Sale!TypeOK, ReadsInv, Sale!FreshAfterSuccess
    <2> QED  BY <2>1, <2>2, QuietKeeps DEF SaleInv
  <1> QED  BY <1>1, <1>2, <1>3, <1>4, <1>5
             DEF Sale!Next, ServerStep, ReadStep, DialogStep, RequestStep

\* The invariant gives what the seller relies on.
LEMMA SaleGives == SaleInv => Sale!OncePerIntent /\ Sale!FreshAfterSuccess
  <1> SUFFICES ASSUME SaleInv PROVE Sale!OncePerIntent
    BY DEF SaleInv, ReadsInv
  <1>1. answers \subseteq Sent
    BY DEF Sent
  <1> QED  BY <1>1 DEF SaleInv, RequestsInv, OneKeyPerIntent, Sale!TypeOK, Sale!OncePerIntent

\* An action confirmed in one opening of its dialog is executed at most once, for
\* every set of commands; and a page that has read the sale after a success
\* shows it at least as new as that success.
THEOREM SaleActionsAreSafe ==
    ASSUME Sale!ActionsAssumption
    PROVE  Sale!Spec => [](Sale!OncePerIntent /\ Sale!FreshAfterSuccess)
  BY SaleInit, SaleNext, SaleGives, PTL DEF Sale!Spec

\* The page of a sale keeps its types: no two answers are filed under one key.
THEOREM SaleIsTyped ==
    ASSUME Sale!ActionsAssumption
    PROVE  Sale!Spec => []Sale!TypeOK
  <1>1. SaleInv => Sale!TypeOK
    BY DEF SaleInv
  <1> QED  BY <1>1, SaleInit, SaleNext, PTL DEF Sale!Spec

\* On the phone, which draws a key for each dialog, a success is that of the
\* dialog confirmed and not the stored answer of an earlier one.
LEMMA PhoneSucceeds ==
    SaleInv /\ client = "mobile" => Sale!SucceedsForThisIntent
  <1> SUFFICES ASSUME SaleInv, client = "mobile", call # None, NEW a \in Sale!Filed(call.request)
               PROVE  a.intent = call.request.intent
    BY DEF Sale!SucceedsForThisIntent, Sale!Pending
  <1>1. a \in Sent /\ call.request \in Sent /\ a.key = call.request.key
    BY DEF Sale!Filed, Sent
  <1> QED  BY <1>1 DEF SaleInv, RequestsInv, PhoneKeys

\* On a phone every success message is true of the dialog it closes.
THEOREM SuccessIsOfThisDialog ==
    ASSUME Sale!ActionsAssumption, Clients = {"mobile"}
    PROVE  Sale!Spec => [][Sale!SucceedsForThisIntent]_(Sale!vars)
  <1>1. SaleInv => Sale!SucceedsForThisIntent
    BY PhoneSucceeds DEF SaleInv, Sale!TypeOK
  <1> QED  BY <1>1, SaleInit, SaleNext, PTL DEF Sale!Spec

----------------------------------------------------------------------------
(* The buyer's data.                                                       *)

\* What a save sends: what was typed in its form, what the page knew in the rest.
Composed(c) ==
    /\ c.known # Contact!NoRow => c.known.name # Contact!Empty
    /\ c.payload.tax = c.known.tax
    /\ \/ c.section = "buyer" /\ c.payload.address = c.known.address
       \/ c.section = "delivery" /\ (c.known.name # Contact!Empty => c.payload.name = c.known.name)
       \/ /\ c.section = "sheet"
          /\ \A f \in {"name", "phone", "address"} : c.typed[f] # Contact!Empty => c.payload[f] = c.typed[f]
    /\ client = "mobile" => c.section = "sheet"

\* The phone draws a key after every answer, so a request that was not served
\* comes with a key that the server has not filed.
PhoneDraws ==
    client = "mobile" =>
        /\ \A f \in filed : f.key \in 1..key
        /\ call = None => \A f \in filed : f.key < key
        /\ call # None =>
              /\ call.key = key /\ call.reply # "reused"
              /\ call.reply = "sent" => \A f \in filed : f.key < key

ContactInv ==
    /\ Contact!TypeOK /\ PhoneDraws
    /\ seen # Contact!NoRow => seen.name # Contact!Empty
    /\ call # None => Composed(call)

\* The rows have their fields.
LEMMA RowIs ==
    ASSUME NEW r \in Contact!Row
    PROVE  /\ r.name \in Contact!Blank(Names \cup {"Comprador"} \cup Addresses)
           /\ r.phone \in Contact!Blank(Phones) /\ r.address \in Contact!Blank(Addresses)
           /\ r.tax \in Contact!Blank(Taxes)
           /\ r = [name |-> r.name, phone |-> r.phone, address |-> r.address, tax |-> r.tax]
  BY DEF Contact!Row

\* A row that is put together of typed and known fields.
LEMMA RowOf ==
    ASSUME NEW n \in Contact!Blank(Names \cup {"Comprador"} \cup Addresses),
           NEW p \in Contact!Blank(Phones), NEW a \in Contact!Blank(Addresses),
           NEW t \in Contact!Blank(Taxes)
    PROVE  [name |-> n, phone |-> p, address |-> a, tax |-> t] \in Contact!Row
  BY DEF Contact!Row

\* It holds at first.
LEMMA ContactInit == Contact!ContactAssumption /\ Contact!Init => ContactInv
  <1> SUFFICES ASSUME Contact!ContactAssumption, Contact!Init PROVE ContactInv
    OBVIOUS
  <1>1. Contact!NoRow \in Contact!Row
    BY DEF Contact!NoRow, Contact!Row, Contact!Blank
  <1>2. 1 \in 1..MaxKeys /\ 0 \in 0..MaxWrites
    BY DEF Contact!ContactAssumption
  <1>3. Contact!TypeOK
    BY <1>1, <1>2 DEF Contact!Init, Contact!TypeOK
  <1> QED  BY <1>3 DEF Contact!Init, ContactInv, PhoneDraws

\* The steps of the server.
ContactServerStep ==
    Contact!UpdateOrderBuyer \/ Contact!LoseAnswer \/ Contact!SetBuyerDetails \/ Contact!Refetch

\* A step of the server keeps the invariant.
LEMMA ContactServerKeeps ==
    ASSUME Contact!ContactAssumption, ContactInv, ContactServerStep
    PROVE  ContactInv'
  <1> USE DEF Contact!fixed
  <1>0. /\ Contact!TypeOK /\ PhoneDraws /\ (seen # Contact!NoRow => seen.name # Contact!Empty)
        /\ call # None => Composed(call)
        /\ key \in Nat \ {0} /\ None \notin Contact!Call
        /\ call # None => call \in Contact!Call
        /\ row # Contact!NoRow => row.name # Contact!Empty
    BY DEF ContactInv, Contact!TypeOK, Contact!ContactAssumption
  <1>1. CASE Contact!UpdateOrderBuyer
    <2> DEFINE d == Contact!Digest(call.key, call.payload)
               old == {f \in filed : f.key = call.key}
    <2>1. /\ call # None /\ call.reply = "sent" /\ call \in Contact!Call
          /\ UNCHANGED <<client, emailed, shipped, seen, editing, draft, key, writes>>
      BY <1>0, <1>1 DEF Contact!UpdateOrderBuyer, Composed
    <2>2. ASSUME NEW reply \in {"ok", "invalid", "reused"}, call' = [call EXCEPT !.reply = reply]
          PROVE  /\ call'.reply = reply /\ call'.key = call.key
                 /\ Composed(call)' /\ call' \in Contact!Call
      <3>1. /\ call'.reply = reply /\ call'.payload = call.payload /\ call'.typed = call.typed
            /\ call'.known = call.known /\ call'.section = call.section /\ call'.key = call.key
            /\ call' \in Contact!Call
        BY <2>1, <2>2 DEF Contact!Call
      <3> QED  BY <1>0, <2>1, <3>1 DEF Composed
    <2>3. CASE old # {}
      <3>1. /\ call' = [call EXCEPT !.reply = IF d \in old THEN "ok" ELSE "reused"]
            /\ UNCHANGED <<row, filed>>
        BY <1>1, <2>3 DEF Contact!UpdateOrderBuyer
      <3>2. client # "mobile"
        BY <1>0, <2>1, <2>3 DEF PhoneDraws
      <3>3. call'.reply \in {"ok", "reused"} /\ Composed(call)' /\ call' \in Contact!Call
        BY <2>2, <3>1
      <3> QED  BY <1>0, <2>1, <3>1, <3>2, <3>3 DEF ContactInv, Contact!TypeOK, PhoneDraws
    <2>4. CASE old = {} /\ Contact!Valid(call.payload)
      <3>1. /\ row' = call.payload /\ filed' = filed \cup {d} /\ call' = [call EXCEPT !.reply = "ok"]
        BY <1>1, <2>4 DEF Contact!UpdateOrderBuyer
      <3>2. call'.reply = "ok" /\ call'.key = call.key /\ Composed(call)' /\ call' \in Contact!Call
        BY <2>2, <3>1
      <3>3. d.key = call.key /\ \A f \in filed : f.key # call.key
        BY <2>4 DEF Contact!Digest
      <3>4. \A a, b \in filed' : a.key = b.key => a = b
        BY <1>0, <3>1, <3>3 DEF Contact!TypeOK
      <3>5. /\ row' \in Contact!Row
            /\ row'.name # Contact!Empty /\ (row'.phone # Contact!Empty \/ emailed)
            /\ shipped => row'.phone # Contact!Empty /\ row'.address # Contact!Empty
        BY <2>1, <2>4, <3>1 DEF Contact!Call, Contact!Valid
      <3>6. PhoneDraws'
        BY <1>0, <2>1, <3>1, <3>2, <3>3 DEF PhoneDraws
      <3> HIDE DEF d, old
      <3> QED  BY <1>0, <2>1, <3>2, <3>4, <3>5, <3>6 DEF ContactInv, Contact!TypeOK
    <2>5. CASE old = {} /\ ~Contact!Valid(call.payload)
      <3>1. call' = [call EXCEPT !.reply = "invalid"] /\ UNCHANGED <<row, filed>>
        BY <1>1, <2>5 DEF Contact!UpdateOrderBuyer
      <3>2. call'.reply = "invalid" /\ call'.key = call.key /\ Composed(call)' /\ call' \in Contact!Call
        BY <2>2, <3>1
      <3>3. PhoneDraws'
        BY <1>0, <2>1, <3>1, <3>2 DEF PhoneDraws
      <3> QED  BY <1>0, <2>1, <3>1, <3>2, <3>3 DEF ContactInv, Contact!TypeOK
    <2> QED  BY <2>3, <2>4, <2>5
  <1>2. CASE Contact!LoseAnswer
    <2>1. /\ call # None /\ call \in Contact!Call /\ call' = [call EXCEPT !.reply = "lost"]
          /\ UNCHANGED <<client, emailed, shipped, row, filed, seen, editing, draft, key, writes>>
      BY <1>0, <1>2 DEF Contact!LoseAnswer, Composed
    <2>2. /\ call'.reply = "lost" /\ call'.payload = call.payload /\ call'.typed = call.typed
          /\ call'.known = call.known /\ call'.section = call.section /\ call'.key = call.key
          /\ call' \in Contact!Call
      BY <2>1 DEF Contact!Call
    <2>3. Composed(call)'
      BY <1>0, <2>1, <2>2 DEF Composed
    <2>4. PhoneDraws'
      BY <1>0, <2>1, <2>2 DEF PhoneDraws
    <2> QED  BY <1>0, <2>1, <2>2, <2>3, <2>4 DEF ContactInv, Contact!TypeOK
  <1>3. CASE Contact!SetBuyerDetails
    <2>1. /\ writes < MaxWrites /\ writes' = writes + 1
          /\ UNCHANGED <<client, emailed, shipped, filed, seen, editing, draft, key, call>>
      BY <1>3 DEF Contact!SetBuyerDetails
    <2>2. PICK n \in Names, p \in Contact!Blank(Phones), a \in Contact!Blank(Addresses),
               t \in Contact!Blank(Taxes) :
             /\ row' = [name |-> n, phone |-> p, address |-> a, tax |-> t]
             /\ Contact!Valid([name |-> n, phone |-> p, address |-> a, tax |-> t])
      BY <1>3 DEF Contact!SetBuyerDetails
    <2>3. row' \in Contact!Row /\ n # Contact!Empty
      BY <2>2, RowOf DEF Contact!Blank, Contact!ContactAssumption
    <2>4. /\ row'.name # Contact!Empty /\ (row'.phone # Contact!Empty \/ emailed)
          /\ shipped => row'.phone # Contact!Empty /\ row'.address # Contact!Empty
      BY <2>2, <2>3 DEF Contact!Valid
    <2>5. writes' \in 0..MaxWrites
      BY <1>0, <2>1 DEF Contact!TypeOK, Contact!ContactAssumption
    <2>6. PhoneDraws' /\ (call' # None => Composed(call)')
      BY <1>0, <2>1 DEF PhoneDraws, Composed
    <2> QED  BY <1>0, <2>1, <2>3, <2>4, <2>5, <2>6 DEF ContactInv, Contact!TypeOK
  <1>4. CASE Contact!Refetch
    <2>1. /\ seen' = row
          /\ UNCHANGED <<client, emailed, shipped, row, filed, editing, draft, key, call, writes>>
      BY <1>4 DEF Contact!Refetch
    <2>2. PhoneDraws' /\ (call' # None => Composed(call)')
      BY <1>0, <2>1 DEF PhoneDraws, Composed
    <2> QED  BY <1>0, <2>1, <2>2 DEF ContactInv, Contact!TypeOK
  <1> QED  BY <1>1, <1>2, <1>3, <1>4 DEF ContactServerStep

\* The steps of the forms.
FormStep ==
    \/ \E s \in {"buyer", "delivery"} : Contact!WebStartEdit(s)
    \/ Contact!WebBuyerFields \/ Contact!WebDeliveryFields \/ Contact!WebCancel
    \/ Contact!OpenContactEditor \/ Contact!PhoneFields \/ Contact!PhoneCancel

\* A step of the forms keeps the invariant.
LEMMA FormKeeps ==
    ASSUME Contact!ContactAssumption, ContactInv, FormStep
    PROVE  ContactInv'
  <1> USE DEF Contact!fixed
  <1>0. /\ Contact!TypeOK /\ PhoneDraws /\ (seen # Contact!NoRow => seen.name # Contact!Empty)
        /\ call # None => Composed(call)
        /\ draft \in Contact!Row /\ seen \in Contact!Row /\ client \in {"web", "mobile"}
        /\ None \notin Contact!Call
    BY DEF ContactInv, Contact!TypeOK, Contact!ContactAssumption
  <1>1. ASSUME UNCHANGED <<client, emailed, shipped, row, filed, seen, key, call, writes>>,
               draft' \in Contact!Row,
               editing' \in IF client = "web" THEN {None, "buyer", "delivery"} ELSE {None, "sheet"}
        PROVE  ContactInv'
    <2>1. PhoneDraws' /\ (call' # None => Composed(call)')
      BY <1>0, <1>1 DEF PhoneDraws, Composed
    <2> QED  BY <1>0, <1>1, <2>1 DEF ContactInv, Contact!TypeOK
  <1>2. \A n \in Contact!Blank(Names) : n \in Contact!Blank(Names \cup {"Comprador"} \cup Addresses)
    BY DEF Contact!Blank
  <1>3. Contact!NoRow \in Contact!Row
    BY DEF Contact!NoRow, Contact!Row, Contact!Blank
  <1>4. ASSUME NEW s \in {"buyer", "delivery"}, Contact!WebStartEdit(s)  PROVE ContactInv'
    BY <1>0, <1>1, <1>4 DEF Contact!WebStartEdit
  <1>5. CASE Contact!OpenContactEditor
    BY <1>0, <1>1, <1>5 DEF Contact!OpenContactEditor
  <1>6. CASE Contact!WebBuyerFields
    <2>1. PICK n \in Contact!Blank(Names), p \in Contact!Blank(Phones) :
             draft' = [draft EXCEPT !.name = n, !.phone = p]
      BY <1>6 DEF Contact!WebBuyerFields
    <2>2. draft' \in Contact!Row
      BY <1>0, <1>2, <2>1 DEF Contact!Row
    <2>3. editing' = editing /\ UNCHANGED <<client, emailed, shipped, row, filed, seen, key, call, writes>>
      BY <1>6 DEF Contact!WebBuyerFields
    <2> QED  BY <1>0, <1>1, <2>2, <2>3 DEF Contact!TypeOK
  <1>7. CASE Contact!WebDeliveryFields
    <2>1. PICK p \in Contact!Blank(Phones), a \in Contact!Blank(Addresses) :
             draft' = [draft EXCEPT !.phone = p, !.address = a]
      BY <1>7 DEF Contact!WebDeliveryFields
    <2>2. draft' \in Contact!Row
      BY <1>0, <2>1 DEF Contact!Row
    <2>3. editing' = editing /\ UNCHANGED <<client, emailed, shipped, row, filed, seen, key, call, writes>>
      BY <1>7 DEF Contact!WebDeliveryFields
    <2> QED  BY <1>0, <1>1, <2>2, <2>3 DEF Contact!TypeOK
  <1>8. CASE Contact!PhoneFields
    <2>1. PICK n \in Contact!Blank(Names), p \in Contact!Blank(Phones), a \in Contact!Blank(Addresses) :
             draft' = [draft EXCEPT !.name = n, !.phone = p, !.address = a]
      BY <1>8 DEF Contact!PhoneFields
    <2>2. draft' \in Contact!Row
      BY <1>0, <1>2, <2>1 DEF Contact!Row
    <2>3. editing' = editing /\ UNCHANGED <<client, emailed, shipped, row, filed, seen, key, call, writes>>
      BY <1>8 DEF Contact!PhoneFields
    <2> QED  BY <1>0, <1>1, <2>2, <2>3 DEF Contact!TypeOK
  <1>9. CASE Contact!WebCancel \/ Contact!PhoneCancel
    BY <1>1, <1>3, <1>9 DEF Contact!WebCancel, Contact!PhoneCancel
  <1> QED  BY <1>4, <1>5, <1>6, <1>7, <1>8, <1>9 DEF FormStep

\* The steps of a save on the page.
SaveStep ==
    Contact!WebSave \/ Contact!PhoneSave \/ Contact!WebError \/ Contact!PhoneError \/ Contact!Saved

\* A step of a save keeps the invariant.
LEMMA SaveKeeps ==
    ASSUME Contact!ContactAssumption, ContactInv, SaveStep
    PROVE  ContactInv'
  <1> USE DEF Contact!fixed, Contact!Pending
  <1>0. /\ Contact!TypeOK /\ PhoneDraws /\ (seen # Contact!NoRow => seen.name # Contact!Empty)
        /\ call # None => Composed(call)
        /\ draft \in Contact!Row /\ seen \in Contact!Row /\ client \in {"web", "mobile"}
        /\ None \notin Contact!Call
        /\ key \in 1..MaxKeys /\ MaxKeys \in Nat
        /\ row \in Contact!Row /\ (row # Contact!NoRow => row.name # Contact!Empty)
    BY DEF ContactInv, Contact!TypeOK, Contact!ContactAssumption
  <1>1. ASSUME NEW payload \in Contact!Row, Contact!Send(payload), call = None,
               payload.tax = seen.tax,
               \/ client = "web" /\ editing = "buyer" /\ payload.address = seen.address
               \/ /\ client = "web" /\ editing = "delivery"
                  /\ seen.name # Contact!Empty => payload.name = seen.name
               \/ /\ client = "mobile" /\ editing = "sheet"
                  /\ \A f \in {"name", "phone", "address"} :
                        draft[f] # Contact!Empty => payload[f] = draft[f]
        PROVE  ContactInv'
    <2> DEFINE c == [payload |-> payload, key |-> key, typed |-> draft, section |-> editing,
                     known |-> seen, reply |-> "sent"]
    <2>1. /\ call' = c
          /\ UNCHANGED <<client, emailed, shipped, row, filed, seen, editing, draft, key, writes>>
      BY <1>1 DEF Contact!Send
    <2>2. c \in Contact!Call
      BY <1>0, <1>1 DEF Contact!Call
    <2>3. /\ c.payload = payload /\ c.key = key /\ c.typed = draft /\ c.section = editing
          /\ c.known = seen /\ c.reply = "sent"
      OBVIOUS
    <2> HIDE DEF c
    <2>4. Composed(call)'
      BY <1>0, <1>1, <2>1, <2>2, <2>3 DEF Composed
    <2>5. PhoneDraws'
      BY <1>0, <1>1, <2>1, <2>3 DEF PhoneDraws
    <2> QED  BY <1>0, <2>1, <2>2, <2>4, <2>5 DEF ContactInv, Contact!TypeOK
  <1>2. ASSUME NEW buyer \in Contact!Row, NEW delivery \in Contact!Row
        PROVE  /\ Contact!WebPayload(buyer, delivery) \in Contact!Row
               /\ Contact!WebPayload(buyer, delivery).tax = seen.tax
               /\ Contact!WebPayload(buyer, delivery).address = delivery.address
               /\ buyer.name # Contact!Empty => Contact!WebPayload(buyer, delivery).name = buyer.name
    <2>1. /\ buyer.name \in Contact!Blank(Names \cup {"Comprador"} \cup Addresses)
          /\ delivery.address \in Contact!Blank(Addresses) /\ seen.tax \in Contact!Blank(Taxes)
          /\ buyer.phone \in Contact!Blank(Phones) /\ delivery.phone \in Contact!Blank(Phones)
      BY <1>0, RowIs
    <2>2. /\ Contact!Or(Contact!Or(buyer.name, delivery.address), "Comprador")
             \in Contact!Blank(Names \cup {"Comprador"} \cup Addresses)
          /\ Contact!Or(buyer.phone, delivery.phone) \in Contact!Blank(Phones)
      BY <2>1 DEF Contact!Or, Contact!Blank
    <2> QED  BY <2>1, <2>2, RowOf DEF Contact!WebPayload, Contact!Or
  <1>3. CASE Contact!WebSave
    <2>1. /\ client = "web" /\ call = None /\ editing \in {"buyer", "delivery"}
      BY <1>0, <1>3 DEF Contact!WebSave, Contact!TypeOK
    <2>2. CASE editing = "buyer"
      <3>1. Contact!Send(Contact!WebPayload(draft, seen))
        BY <1>3, <2>2 DEF Contact!WebSave
      <3> QED  BY <1>0, <1>1, <1>2, <2>1, <2>2, <3>1
    <2>3. CASE editing = "delivery"
      <3>1. Contact!Send(Contact!WebPayload(seen, draft))
        BY <1>3, <2>3 DEF Contact!WebSave
      <3> QED  BY <1>0, <1>1, <1>2, <2>1, <2>3, <3>1
    <2> QED  BY <2>1, <2>2, <2>3
  <1>4. CASE Contact!PhoneSave
    <2>1. /\ editing = "sheet" /\ call = None /\ client = "mobile"
          /\ Contact!Send(Contact!PhonePayload)
      BY <1>0, <1>4 DEF Contact!PhoneSave, Contact!TypeOK, Contact!ContactAssumption
    <2>2. /\ draft.name \in Contact!Blank(Names \cup {"Comprador"} \cup Addresses)
          /\ draft.address \in Contact!Blank(Addresses) /\ seen.tax \in Contact!Blank(Taxes)
          /\ draft.phone \in Contact!Blank(Phones)
      BY <1>0, RowIs
    <2>3. Contact!Or(Contact!Or(draft.name, draft.address), "Comprador")
             \in Contact!Blank(Names \cup {"Comprador"} \cup Addresses)
      BY <2>2 DEF Contact!Or, Contact!Blank
    <2>4. Contact!PhonePayload \in Contact!Row /\ Contact!PhonePayload.tax = seen.tax
      BY <2>2, <2>3, RowOf DEF Contact!PhonePayload
    <2>5. \A f \in {"name", "phone", "address"} :
             draft[f] # Contact!Empty => Contact!PhonePayload[f] = draft[f]
      BY DEF Contact!PhonePayload, Contact!Or
    <2> QED  BY <1>1, <2>1, <2>4, <2>5
  <1>5. CASE Contact!WebError
    <2>1. /\ client = "web" /\ call' = None
          /\ UNCHANGED <<client, emailed, shipped, row, filed, seen, editing, draft, key, writes>>
      BY <1>5 DEF Contact!WebError
    <2> QED  BY <1>0, <2>1 DEF ContactInv, Contact!TypeOK, PhoneDraws
  <1>6. CASE Contact!PhoneError \/ Contact!Saved
    <2>1. /\ call # None /\ call' = None /\ key < MaxKeys /\ key' = key + 1
          /\ seen' \in {seen, row} /\ draft' \in {draft, Contact!NoRow} /\ editing' \in {editing, None}
          /\ UNCHANGED <<client, emailed, shipped, row, filed, writes>>
      BY <1>6 DEF Contact!PhoneError, Contact!Saved, Contact!NewKey
    <2>2. Contact!NoRow \in Contact!Row
      BY DEF Contact!NoRow, Contact!Row, Contact!Blank
    <2>3. key' \in 1..MaxKeys
      BY <1>0, <2>1
    <2>4. PhoneDraws'
      <3>1. client = "mobile" => \A f \in filed : f.key < key'
        <4> SUFFICES ASSUME client = "mobile", NEW f \in filed PROVE f.key < key'
          OBVIOUS
        <4>1. f.key \in 1..key
          BY <1>0 DEF PhoneDraws
        <4> QED  BY <1>0, <2>1, <4>1
      <3>2. client = "mobile" => \A f \in filed : f.key \in 1..key'
        BY <1>0, <2>1 DEF PhoneDraws
      <3> QED  BY <2>1, <3>1, <3>2 DEF PhoneDraws
    <2> QED  BY <1>0, <2>1, <2>2, <2>3, <2>4 DEF ContactInv, Contact!TypeOK
  <1> QED  BY <1>3, <1>4, <1>5, <1>6 DEF SaveStep

\* Every step keeps the invariant.
LEMMA ContactNext ==
    Contact!ContactAssumption /\ ContactInv /\ [Contact!Next]_(Contact!vars) => ContactInv'
  <1> SUFFICES ASSUME Contact!ContactAssumption, ContactInv, [Contact!Next]_(Contact!vars)
               PROVE  ContactInv'
    OBVIOUS
  <1>1. ASSUME ContactServerStep  PROVE ContactInv'
    BY <1>1, ContactServerKeeps
  <1>2. ASSUME FormStep  PROVE ContactInv'
    BY <1>2, FormKeeps
  <1>3. ASSUME SaveStep  PROVE ContactInv'
    BY <1>3, SaveKeeps
  <1>4. CASE UNCHANGED Contact!vars
    <2>1. PhoneDraws' /\ (call' # None => Composed(call)')
      BY <1>4 DEF Contact!vars, ContactInv, PhoneDraws, Composed
    <2> QED  BY <1>4, <2>1 DEF Contact!vars, ContactInv, Contact!TypeOK
  <1> QED  BY <1>1, <1>2, <1>3, <1>4 DEF Contact!Next, ContactServerStep, FormStep, SaveStep

\* Only the server files a request; then the row is what was sent.
LEMMA ExecutesSent ==
    ASSUME [Contact!Next]_(Contact!vars), Contact!Executes
    PROVE  row' = call.payload
  <1> USE DEF Contact!fixed
  <1>1. filed' # filed
    BY DEF Contact!Executes
  <1>2. CASE Contact!UpdateOrderBuyer
    BY <1>1, <1>2 DEF Contact!UpdateOrderBuyer
  <1>3. ASSUME ContactServerStep \/ FormStep \/ SaveStep, ~Contact!UpdateOrderBuyer
        PROVE  FALSE
    BY <1>1, <1>3 DEF ContactServerStep, FormStep, SaveStep, Contact!LoseAnswer,
       Contact!SetBuyerDetails, Contact!Refetch, Contact!WebStartEdit, Contact!WebBuyerFields,
       Contact!WebDeliveryFields, Contact!WebCancel, Contact!OpenContactEditor,
       Contact!PhoneFields, Contact!PhoneCancel, Contact!WebSave, Contact!PhoneSave,
       Contact!Send, Contact!WebError, Contact!PhoneError, Contact!Saved
  <1>4. ~UNCHANGED Contact!vars
    BY <1>1 DEF Contact!vars
  <1> QED  BY <1>2, <1>3, <1>4 DEF Contact!Next, ContactServerStep, FormStep, SaveStep

\* The invariant gives what the two properties of a save say.
LEMMA SaveGives ==
    ASSUME Contact!ContactAssumption, ContactInv, [Contact!Next]_(Contact!vars)
    PROVE  /\ Contact!KeepsRest
           /\ client = "mobile" => Contact!SavesAsTyped
  <1>1. ASSUME Contact!Executes
        PROVE  Composed(call) /\ row' = call.payload /\ call.payload \in Contact!Row
    BY <1>1, ExecutesSent DEF ContactInv, Contact!TypeOK, Contact!Executes, Contact!Pending,
       Contact!Call
  <1>2. ASSUME Contact!Executes, call.known = row, row # Contact!NoRow,
               NEW f \in (DOMAIN row) \ Contact!FieldsOf(call.section)
        PROVE  row'[f] = row[f]
    <2>1. f \in {"name", "phone", "address", "tax"}
      BY DEF ContactInv, Contact!TypeOK, Contact!Row
    <2>2. CASE call.section = "buyer"
      BY <1>1, <1>2, <2>1, <2>2 DEF Composed, Contact!FieldsOf
    <2>3. CASE call.section = "delivery"
      BY <1>1, <1>2, <2>1, <2>3 DEF Composed, Contact!FieldsOf
    <2>4. CASE call.section = "sheet"
      BY <1>1, <1>2, <2>1, <2>4 DEF Composed, Contact!FieldsOf
    <2> QED  BY <1>1, <1>2, <2>2, <2>3, <2>4 DEF Composed
  <1>3. ASSUME client = "mobile", Contact!Executes, NEW f \in Contact!FieldsOf(call.section),
               call.typed[f] # Contact!Empty
        PROVE  row'[f] = call.typed[f]
    <2>1. call.section = "sheet"
      BY <1>1, <1>3 DEF Composed
    <2>2. f \in {"name", "phone", "address"}
      BY <1>3, <2>1 DEF Contact!FieldsOf
    <2> QED  BY <1>1, <1>3, <2>1, <2>2 DEF Composed
  <1> QED  BY <1>2, <1>3 DEF Contact!KeepsRest, Contact!SavesAsTyped

\* A save changes the fields of its form and no other, unless the row was
\* written since it was read.
THEOREM SavesKeepTheRest ==
    ASSUME Contact!ContactAssumption
    PROVE  Contact!Spec => [][Contact!KeepsRest]_(Contact!vars)
  <1>1. ContactInv /\ [Contact!Next]_(Contact!vars) => Contact!KeepsRest
    BY SaveGives
  <1> QED  BY <1>1, ContactInit, ContactNext, PTL DEF Contact!Spec

\* The buyer's data keep their types: a row has what its buyer must have given.
THEOREM ContactIsTyped ==
    ASSUME Contact!ContactAssumption
    PROVE  Contact!Spec => []Contact!TypeOK
  <1>1. ContactInv => Contact!TypeOK
    BY DEF ContactInv
  <1> QED  BY <1>1, ContactInit, ContactNext, PTL DEF Contact!Spec

\* The sheet of the phone stores what was typed in it, and no correction is
\* refused for its key.
THEOREM PhoneSavesAsTyped ==
    ASSUME Contact!ContactAssumption, Clients = {"mobile"}
    PROVE  /\ Contact!Spec => []Contact!CorrectionIsAccepted
           /\ Contact!Spec => [][Contact!SavesAsTyped]_(Contact!vars)
  <1>1. ContactInv => client = "mobile"
    BY DEF ContactInv, Contact!TypeOK
  <1>2. ContactInv => Contact!CorrectionIsAccepted
    BY <1>1 DEF ContactInv, PhoneDraws, Contact!CorrectionIsAccepted, Contact!Pending
  <1>3. ContactInv /\ [Contact!Next]_(Contact!vars) => Contact!SavesAsTyped
    BY <1>1, SaveGives
  <1>4. Contact!Spec => []Contact!CorrectionIsAccepted
    BY <1>2, ContactInit, ContactNext, PTL DEF Contact!Spec
  <1>5. Contact!Spec => [][Contact!SavesAsTyped]_(Contact!vars)
    BY <1>3, ContactInit, ContactNext, PTL DEF Contact!Spec
  <1> QED  BY <1>4, <1>5

----------------------------------------------------------------------------
(* The wizard of the web.                                                  *)

\* What a draft may say of its sale.
WebTruth(d) ==
    /\ d.order => sold[d.key] # Web!NoTerms
    /\ d.url => d.key \in published

\* A submission that creates or publishes has the sale of its draft behind it as
\* soon as the server has answered.
WebCall(c) ==
    /\ WebTruth(c.draft) /\ c.draft.step < 4 /\ c.draft.cart \in Carts
    /\ c.phase = "publishing" \/ c.reply = "done" => sold[c.draft.key] # Web!NoTerms
    /\ c.phase = "publishing" /\ c.reply = "done" => c.draft.key \in published

\* The submission of the page is of the sale it drafts.
WebInv ==
    /\ Web!TypeOK
    /\ page = "away" <=> draft = NoDraft
    /\ Web!DraftTellsTruth
    /\ \A s \in Web!Slot : calls[s] # Web!Idle => WebCall(calls[s])
    /\ calls["page"] # Web!Idle =>
          draft # NoDraft /\ draft.step < 4 /\ draft.key = calls["page"].draft.key

\* The sales that exist, or that a request may still create.
WebAsked(k) ==
    \/ sold[k] # Web!NoTerms
    \/ \E r \in late : r.key = k
    \/ \E s \in Web!Slot : calls[s] # Web!Idle /\ calls[s].draft.key = k

\* The seller will not lose the sale, even if the page goes now.
WebSafe(k) == k \in reported \/ (stored # NoDraft /\ stored.key = k)

\* A key that is asked for was shown as done, or is in the draft that the browser
\* stores: the effect that stores a draft runs before anything is sent.
WebKept ==
    /\ calls["left"] = Web!Idle
    /\ draft # NoDraft /\ stored # NoDraft => draft.key = stored.key
    /\ draft # NoDraft /\ ~effect => WebSafe(draft.key)
    /\ \A d \in {draft, stored} \ {NoDraft} : d.step = 4 => d.key \in reported
    /\ \A k \in Keys : WebAsked(k) => WebSafe(k)

\* Both invariants hold at first.
LEMMA WebInit == Web!DeskAssumption /\ Web!WizardAssumption /\ Web!Init =>
   WebInv /\ WebKept
  <1> SUFFICES ASSUME Web!DeskAssumption, Web!WizardAssumption, Web!Init
               PROVE  WebInv /\ WebKept
    OBVIOUS
  <1>1. Web!TypeOK
    BY DEF Web!Init, Web!TypeOK, Web!DeskInit, Web!DeskTypeOK, Web!Call
  <1>2. \A s \in Web!Slot : calls[s] = Web!Idle
    BY DEF Web!Init
  <1> QED  BY <1>1, <1>2 DEF WebInv, WebKept, Web!Init, Web!DeskInit,
              Web!DraftTellsTruth, WebAsked, Web!Slot

\* What serving a request changes.
LEMMA WebServe ==
    ASSUME Web!DeskAssumption, Web!DeskTypeOK, NEW r \in Web!Request, NEW reply,
           Web!Serve(r, reply)
    PROVE  /\ sold' \in [Keys -> Web!Terms \cup {Web!NoTerms}]
           /\ published' \subseteq Keys
           /\ reply \in Web!Reply
           /\ published \subseteq published'
           /\ \A k \in Keys : sold[k] # Web!NoTerms => sold'[k] = sold[k]
           /\ \A k \in Keys : sold'[k] # sold[k] => k = r.key
           /\ r.kind = "create" /\ reply = "done" =>
                 sold'[r.key] = r.terms /\ sold'[r.key] # Web!NoTerms
           /\ r.kind = "publish" /\ reply = "done" => r.key \in published'
  <1>1. r.terms # Web!NoTerms /\ r.terms \in Web!Terms /\ r.key \in Keys
    BY DEF Web!Request, Web!Terms, Web!NoTerms, Web!DeskAssumption
  <1> QED  BY <1>1 DEF Web!Serve, Web!Replies, Web!DeskTypeOK, Web!Reply

\* A request of a submission is one of the desk.
LEMMA WebRequest ==
    ASSUME NEW c \in Web!Call, c # Web!Idle, c.draft.cart \in Carts
    PROVE  Web!RequestOf(c) \in Web!Request
  BY DEF Web!RequestOf, Web!Request, Web!Call, Web!Draft, Web!Terms

\* Steps of the draft, which no request waits for.
WebEdit ==
    \/ Web!Enter \/ Web!SaveEffect \/ Web!LoadConnection
    \/ \E cart \in Carts \cup {NoCart} : Web!EditLines(cart)
    \/ \E m \in Methods : Web!ChooseMethod(m)
    \/ \E s \in 1..3 : Web!GoToStep(s)
    \/ Web!AskCash \/ Web!CloseCash
    \/ Web!Reset \/ Web!LeaveToSales

\* A draft that is edited keeps its sale, and its last step.
WebRewrites ==
    \E d \in Web!Draft :
        /\ Web!ReplaceDraft(d) /\ draft # NoDraft /\ d.key = draft.key
        /\ d.order = draft.order /\ d.url = draft.url
        /\ d.step < 4 \/ d.step = draft.step
        /\ page = "open" /\ ~effect
        /\ UNCHANGED <<sold, published, late, page, confirm, connected, calls, used,
              reported>>

\* The steps of an edit rewrite the draft.
LEMMA WebEdits ==
    ASSUME WebInv, \/ \E cart \in Carts \cup {NoCart} : Web!EditLines(cart)
                   \/ \E m \in Methods : Web!ChooseMethod(m)
                   \/ \E s \in 1..3 : Web!GoToStep(s)
    PROVE  WebRewrites
  <1>1. page = "open" /\ ~effect /\ draft \in Web!Draft /\ draft # NoDraft
    BY DEF WebInv, Web!TypeOK, Web!EditLines, Web!ChooseMethod, Web!GoToStep, Web!Ready
  <1>2. CASE \E cart \in Carts \cup {NoCart} : Web!EditLines(cart)
    <2> PICK cart \in Carts \cup {NoCart} : Web!EditLines(cart)
      BY <1>2
    <2>1. PICK d : d = [draft EXCEPT !.cart = cart]
      OBVIOUS
    <2>2. d \in Web!Draft /\ d.key = draft.key /\ d.order = draft.order
          /\ d.url = draft.url /\ (d.step < 4 \/ d.step = draft.step)
      BY <1>1, <2>1 DEF Web!Draft
    <2> QED BY <1>1, <2>1, <2>2 DEF WebRewrites, Web!EditLines, Web!deskVars
  <1>3. CASE \E m \in Methods : Web!ChooseMethod(m)
    <2> PICK m \in Methods : Web!ChooseMethod(m)
      BY <1>3
    <2>1. PICK d : d = [draft EXCEPT !.method = m]
      OBVIOUS
    <2>2. d \in Web!Draft /\ d.key = draft.key /\ d.order = draft.order
          /\ d.url = draft.url /\ (d.step < 4 \/ d.step = draft.step)
      BY <1>1, <2>1 DEF Web!Draft
    <2> QED BY <1>1, <2>1, <2>2 DEF WebRewrites, Web!ChooseMethod, Web!deskVars
  <1>4. CASE \E s \in 1..3 : Web!GoToStep(s)
    <2> PICK s \in 1..3 : Web!GoToStep(s)
      BY <1>4
    <2>1. PICK d : d = [draft EXCEPT !.step = s]
      OBVIOUS
    <2>2. d \in Web!Draft /\ d.key = draft.key /\ d.order = draft.order
          /\ d.url = draft.url /\ (d.step < 4 \/ d.step = draft.step)
      BY <1>1, <2>1 DEF Web!Draft
    <2> QED BY <1>1, <2>1, <2>2 DEF WebRewrites, Web!GoToStep, Web!deskVars
  <1> QED BY <1>2, <1>3, <1>4

\* They keep what a draft says of its sale.
LEMMA WebEditKeeps ==
    ASSUME Web!DeskAssumption, Web!WizardAssumption, WebInv, WebEdit
    PROVE  WebInv'
  <1> USE DEF WebInv, Web!TypeOK, Web!Draft
  <1>0. UNCHANGED <<sold, published, late, calls>>
    BY DEF WebEdit, Web!Enter, Web!SaveEffect, Web!LoadConnection, Web!EditLines,
       Web!ChooseMethod, Web!GoToStep, Web!AskCash, Web!CloseCash, Web!Reset,
       Web!LeaveToSales, Web!deskVars
  <1>1. Web!DeskTypeOK'
    BY <1>0 DEF Web!DeskTypeOK
  <1>2. \A k \in Keys : Web!EmptyDraft(k) \in Web!Draft
    BY DEF Web!EmptyDraft, Web!DeskAssumption
  <1>3. \A s \in Web!Slot : calls'[s] # Web!Idle => WebCall(calls[s])'
    BY <1>0 DEF WebCall, WebTruth
  <1>4. CASE Web!Enter
    <2>1. draft' \in Web!Draft /\ stored' \in Web!Draft \cup {NoDraft}
          /\ used' \subseteq Keys /\ reported' \subseteq Keys
      BY <1>2, <1>4 DEF Web!Enter, Web!FreshKey
    <2> QED BY <1>0, <1>1, <1>2, <1>3, <1>4, <2>1 DEF Web!Enter, Web!DraftTellsTruth,
               Web!EmptyDraft, Web!WizardAssumption
  <1>5. CASE Web!SaveEffect \/ Web!LoadConnection \/ Web!AskCash \/ Web!CloseCash
    BY <1>0, <1>1, <1>3, <1>5 DEF Web!SaveEffect, Web!LoadConnection, Web!AskCash,
       Web!CloseCash, Web!DraftTellsTruth
  <1>6. CASE WebRewrites
    BY <1>0, <1>1, <1>3, <1>6 DEF WebRewrites, Web!ReplaceDraft, Web!DraftTellsTruth,
       Web!WizardAssumption
  <1>10. CASE Web!Reset \/ Web!LeaveToSales
    <2>1. draft' \in Web!Draft /\ stored' \in Web!Draft \cup {NoDraft}
          /\ used' \subseteq Keys
      BY <1>2, <1>10 DEF Web!Reset, Web!LeaveToSales, Web!FreshKey, Web!Ready
    <2>2. CASE draft.step = 4
      <3>0. stored' = NoDraft /\ \E k \in Keys : draft' = Web!EmptyDraft(k)
        BY <1>10, <2>2 DEF Web!Reset, Web!LeaveToSales, Web!FreshKey
      <3>1. draft # NoDraft /\ draft.step = 4
        BY <1>10, <2>2 DEF Web!Reset, Web!LeaveToSales, Web!Ready, Web!WizardAssumption
      <3>2. calls["page"] = Web!Idle
        BY <3>1
      <3>3. Web!DraftTellsTruth'
        BY <3>0 DEF Web!DraftTellsTruth, Web!EmptyDraft
      <3>4. UNCHANGED <<confirm, connected, reported>>
            /\ page' \in {"open", "leaving"} /\ effect' \in BOOLEAN
        BY <1>10 DEF Web!Reset, Web!LeaveToSales, Web!Ready
      <3> QED BY <1>0, <1>1, <1>3, <2>1, <3>2, <3>3, <3>4 DEF Web!WizardAssumption
    <2>3. CASE draft.step # 4
      BY <1>0, <1>1, <1>3, <1>10, <2>3 DEF Web!Reset, Web!LeaveToSales, Web!Ready,
         Web!DraftTellsTruth
    <2> QED BY <2>2, <2>3
  <1> QED BY <1>4, <1>5, <1>6, <1>10, WebEdits DEF WebEdit


\* The draft of a sale that was published.
WebDone(d) == [d EXCEPT !.step = 4, !.order = TRUE, !.url = TRUE]

\* It says of its sale that it exists and that its link is served.
LEMMA WebDoneIs ==
    ASSUME NEW d \in Web!Draft
    PROVE  /\ WebDone(d) \in Web!Draft /\ WebDone(d).key = d.key /\ WebDone(d).step = 4
           /\ WebDone(d).order /\ WebDone(d).url
  <1>0. PICK e : e = WebDone(d)
    OBVIOUS
  <1>1. e = [key |-> d.key, step |-> 4, cart |-> d.cart, method |-> d.method,
             order |-> TRUE, url |-> TRUE]
    BY <1>0 DEF WebDone, Web!Draft
  <1>2. /\ d.cart \in Carts \cup {NoCart} /\ d.method \in Methods /\ d.key \in Keys
    BY DEF Web!Draft
  <1> QED BY <1>0, <1>1, <1>2 DEF Web!Draft

\* Steps of one submission.
WebCallStep(s) ==
    Web!ServeCall(s) \/ Web!Created(s) \/ Web!Published(s) \/ Web!Failed(s) \/ Web!LoseAnswer(s)

\* What nobody waits for any more is still a request.
LEMMA WebAbandon ==
    ASSUME WebInv, NEW slots \in SUBSET Web!Slot, Web!Abandon(Web!Unserved(slots))
    PROVE  late' \subseteq Web!Request
  <1>1. \A s \in Web!Slot : Web!Waiting(s) => Web!RequestOf(calls[s]) \in Web!Request
    BY WebRequest DEF WebInv, Web!TypeOK, Web!Waiting, WebCall
  <1>2. Web!Unserved(slots) \subseteq Web!Request
    BY <1>1 DEF Web!Unserved
  <1> QED BY <1>2 DEF Web!Abandon, WebInv, Web!TypeOK, Web!DeskTypeOK

\* A submission begins with a draft that tells the truth.
LEMMA WebSubmitKeeps ==
    ASSUME Web!DeskAssumption, Web!WizardAssumption, WebInv, Web!Submit
    PROVE  WebInv'
  <1> USE DEF WebInv, Web!TypeOK, Web!Draft
  <1>1. Web!DeskTypeOK'
    BY DEF Web!DeskTypeOK, Web!Submit, Web!deskVars
  <1>2. draft \in Web!Draft /\ draft.step = 3 /\ draft.cart \in Carts
        /\ page = "open" /\ calls["page"] = Web!Idle
    BY DEF Web!Submit, Web!SubmitEnabled, Web!Ready, Web!Valid
  <1>3. Web!Selected(draft) \in Methods
    BY <1>2 DEF Web!Selected, Web!DeskAssumption
  <1>4. CASE draft.order /\ Web!Selected(draft) = "cash"
    <2>1. UNCHANGED <<calls, draft, sold, published>>
      BY <1>4 DEF Web!Submit, Web!deskVars
    <2> QED BY <1>1, <1>2, <1>4, <2>1 DEF Web!Submit, Web!CashDone, WebCall, WebTruth,
               Web!DraftTellsTruth
  <1>5. CASE ~ (draft.order /\ Web!Selected(draft) = "cash")
    <2> DEFINE c == [phase |-> IF draft.order THEN "publishing" ELSE "creating",
                    reply |-> "none", draft |-> draft, method |-> Web!Selected(draft)]
    <2>1. calls' = [calls EXCEPT !["page"] = c]
          /\ UNCHANGED <<sold, published, late, draft, stored, page, effect, confirm,
                connected, used, reported>>
      BY <1>5 DEF Web!Submit, Web!deskVars
    <2>2. c \in Web!Call /\ c # Web!Idle /\ c.draft = draft
      BY <1>2, <1>3 DEF Web!Call, Web!Idle, Web!Reply
    <2>3. WebCall(c)
      BY <1>2 DEF WebCall, WebTruth, Web!DraftTellsTruth, Web!WizardAssumption
    <2> HIDE DEF c
    <2>4. calls' \in [Web!Slot -> Web!Call]
      BY <2>1, <2>2
    <2>5. \A s \in Web!Slot : calls'[s] # Web!Idle => WebCall(calls[s])'
      BY <2>1, <2>3 DEF WebCall, WebTruth
    <2>6. Web!DraftTellsTruth'
      BY <2>1 DEF Web!DraftTellsTruth
    <2> QED BY <1>1, <1>2, <2>1, <2>2, <2>4, <2>5, <2>6
               DEF Web!Slot, Web!WizardAssumption
  <1> QED BY <1>4, <1>5

\* An answer makes the draft say what the server did.
LEMMA WebCallKeeps ==
    ASSUME Web!DeskAssumption, Web!WizardAssumption, WebInv, NEW s \in Web!Slot,
              WebCallStep(s)
    PROVE  WebInv'
  <1> USE DEF WebInv, Web!TypeOK, Web!Draft
  <1>0. PICK c : c = calls[s]
    OBVIOUS
  <1>6. c # Web!Idle
    BY <1>0 DEF WebCallStep, Web!ServeCall, Web!Created, Web!Published, Web!Failed,
       Web!LoseAnswer, Web!Waiting, Web!Answered
  <1>1. c \in Web!Call /\ c # Web!Idle /\ c.draft \in Web!Draft
        /\ c.draft # NoDraft /\ WebCall(c)
    BY <1>0, <1>6 DEF Web!Call, Web!WizardAssumption
  <1>2. CASE Web!ServeCall(s)
    <2>1. PICK reply \in Web!Reply : Web!Serve(Web!RequestOf(c), reply)
          /\ calls' = [calls EXCEPT ![s].reply = reply]
      BY <1>0, <1>2 DEF Web!ServeCall
    <2>2. Web!RequestOf(c) \in Web!Request /\ c.reply = "none"
      BY <1>0, <1>1, <1>2, WebRequest DEF WebCall, Web!ServeCall, Web!Waiting
    <2>3. /\ sold' \in [Keys -> Web!Terms \cup {Web!NoTerms}]
          /\ published' \subseteq Keys
          /\ published \subseteq published'
          /\ \A k \in Keys : sold[k] # Web!NoTerms => sold'[k] # Web!NoTerms
          /\ c.phase = "creating" /\ reply = "done" => sold'[c.draft.key] # Web!NoTerms
          /\ c.phase = "publishing" /\ reply = "done" => c.draft.key \in published'
      BY <2>1, <2>2, WebServe DEF Web!RequestOf
    <2>12. PICK e : e = [c EXCEPT !.reply = reply]
      OBVIOUS
    <2>4. e \in Web!Call /\ e # Web!Idle /\ e.draft = c.draft
          /\ e.phase = c.phase /\ e.reply = reply
      BY <1>1, <2>12 DEF Web!Call, Web!Idle
    <2>5. calls' = [calls EXCEPT ![s] = e]
      BY <1>0, <2>1, <2>12
    <2>6. \A t \in Web!Slot : calls'[t] # Web!Idle => WebCall(calls[t])'
      <3> TAKE t \in Web!Slot
      <3>1. CASE t = s
        <4>1. calls'[t] = e
          BY <2>5, <3>1
        <4>2. c.draft.key \in Keys /\ c.phase \in {"creating", "publishing"}
          BY <1>1 DEF Web!Call
        <4>3. (c.phase = "publishing" \/ reply = "done") =>
                 sold'[c.draft.key] # Web!NoTerms
          BY <1>1, <2>3, <4>2 DEF WebCall
        <4>4. WebTruth(c.draft)'
          BY <1>1, <2>3, <4>2 DEF WebCall, WebTruth
        <4> QED BY <1>1, <2>3, <2>4, <4>1, <4>3, <4>4 DEF WebCall, WebTruth
      <3>2. CASE t # s
        <4>1. calls'[t] = calls[t]
              /\ (calls[t] # Web!Idle => calls[t].draft \in Web!Draft)
          BY <2>5, <3>2 DEF Web!Call
        <4> QED BY <2>3, <4>1 DEF WebCall, WebTruth
      <3> QED BY <3>1, <3>2
    <2>7. UNCHANGED <<late, draft, stored, page, effect, confirm, connected, used,
             reported>>
      BY <1>2 DEF Web!ServeCall
    <2>8. Web!DraftTellsTruth'
      BY <2>3, <2>7 DEF Web!DraftTellsTruth
    <2>9. calls' \in [Web!Slot -> Web!Call]
      BY <2>4, <2>5
    <2>10. Web!DeskTypeOK'
      BY <2>3, <2>7 DEF Web!DeskTypeOK
    <2>11. calls'["page"] # Web!Idle =>
              calls["page"] # Web!Idle /\ calls'["page"].draft = calls["page"].draft
      BY <1>0, <1>1, <2>4, <2>5 DEF Web!Slot
    <2> QED BY <2>6, <2>7, <2>8, <2>9, <2>10, <2>11
  <1>3. CASE Web!Created(s)
    <2>14. PICK d : d = [c.draft EXCEPT !.order = TRUE]
      OBVIOUS
    <2>1. c.phase = "creating" /\ c.reply = "done" /\ sold[c.draft.key] # Web!NoTerms
      BY <1>0, <1>1, <1>3 DEF Web!Created, Web!Answered, WebCall
    <2>2. /\ d \in Web!Draft /\ d # NoDraft /\ d.key = c.draft.key
          /\ d.step = c.draft.step
          /\ d.cart = c.draft.cart /\ d.url = c.draft.url /\ d.order
      BY <1>1, <2>14 DEF Web!WizardAssumption
    <2>3. /\ Web!ShowDraft(s, d) /\ UNCHANGED <<sold, published, late, connected, used>>
          /\ \/ Web!CashDone(d.key) /\ calls' = [calls EXCEPT ![s] = Web!Idle]
             \/ /\ stored' = d
                /\ calls' = [calls EXCEPT ![s].phase = "publishing",
                                           ![s].reply = "none", ![s].draft = d]
                /\ UNCHANGED <<page, confirm, reported>>
      BY <1>0, <1>3, <2>14 DEF Web!Created, Web!deskVars
    <2>15. PICK e : e = [c EXCEPT !.phase = "publishing", !.reply = "none", !.draft = d]
      OBVIOUS
    <2>4. e \in Web!Call /\ e # Web!Idle /\ e.draft = d /\ e.phase = "publishing"
          /\ e.reply = "none"
      BY <1>1, <2>2, <2>15 DEF Web!Call, Web!Idle, Web!Reply
    <2>5. \/ calls' = [calls EXCEPT ![s] = Web!Idle]
          \/ calls' = [calls EXCEPT ![s] = e]
      BY <1>0, <2>3, <2>15
    <2>6. WebTruth(d)' /\ WebCall(e)'
      BY <1>1, <2>1, <2>2, <2>3, <2>4 DEF WebCall, WebTruth
    <2>7. \A t \in Web!Slot : calls'[t] # Web!Idle => WebCall(calls[t])'
      <3> TAKE t \in Web!Slot
      <3>1. CASE t = s
        BY <2>5, <2>6, <3>1 DEF WebCall
      <3>2. CASE t # s
        BY <2>3, <2>5, <3>2 DEF WebCall, WebTruth
      <3> QED BY <3>1, <3>2
    <2>8. stored' \in {NoDraft, d} /\ draft' \in {draft, d}
          /\ (s = "page" => draft' = d) /\ (s # "page" => draft' = draft)
      BY <2>3 DEF Web!CashDone, Web!ShowDraft
    <2>9. Web!DraftTellsTruth'
      <3>1. WebTruth(draft)' \/ draft' = NoDraft
        BY <2>3, <2>6, <2>8 DEF Web!DraftTellsTruth, WebTruth
      <3> QED BY <2>6, <2>8, <3>1 DEF Web!DraftTellsTruth, WebTruth
    <2>10. Web!DeskTypeOK' /\ calls' \in [Web!Slot -> Web!Call]
      BY <2>3, <2>4, <2>5 DEF Web!DeskTypeOK, Web!Call
    <2>11. /\ page' \in {"away", "open", "leaving"}
           /\ (page' = "away" <=> page = "away")
           /\ effect' \in BOOLEAN /\ confirm' \in BOOLEAN /\ reported' \subseteq Keys
      BY <2>2, <2>3 DEF Web!CashDone, Web!ShowDraft
    <2>12. s = "page" => draft # NoDraft
      BY <1>0, <1>1
    <2>13. calls'["page"] # Web!Idle =>
              draft' # NoDraft /\ draft'.step < 4
              /\ draft'.key = calls'["page"].draft.key
      <3>1. CASE s = "page"
        BY <1>0, <1>1, <2>2, <2>4, <2>5, <2>8, <3>1 DEF WebCall, Web!Slot
      <3>2. CASE s # "page"
        BY <2>5, <2>8, <3>2 DEF Web!Slot
      <3> QED BY <3>1, <3>2
    <2> QED BY <2>2, <2>3, <2>7, <2>8, <2>9, <2>10, <2>11, <2>12, <2>13
  <1>4. CASE Web!Published(s)
    <2>9. PICK base : base = IF s = "page" THEN draft ELSE c.draft
      OBVIOUS
    <2>10. PICK d : d = [base EXCEPT !.step = 4, !.order = TRUE, !.url = TRUE]
      OBVIOUS
    <2>1. sold[c.draft.key] # Web!NoTerms /\ c.draft.key \in published
      BY <1>0, <1>1, <1>4 DEF Web!Published, Web!Answered, WebCall
    <2>2. base \in Web!Draft /\ base.key = c.draft.key
          /\ (s = "page" => draft # NoDraft)
      BY <1>0, <1>1, <2>9
    <2>3. d \in Web!Draft /\ d # NoDraft /\ d.key = c.draft.key
      <3>1. d = WebDone(base)
        BY <2>10 DEF WebDone
      <3> QED BY <2>2, <3>1, WebDoneIs DEF Web!WizardAssumption
    <2>4. /\ stored' \in {d, NoDraft}
          /\ calls' = [calls EXCEPT ![s] = Web!Idle]
          /\ UNCHANGED <<sold, published, late, connected, used>>
          /\ Web!ShowDraft(s, d) \/ UNCHANGED <<draft, effect>>
      BY <1>0, <1>4, <2>3, <2>9, <2>10 DEF Web!Published, Web!CashDone, Web!deskVars
    <2>11. /\ page' \in {"away", "open", "leaving"} /\ (page' = "away" <=> page = "away")
           /\ reported' \subseteq Keys
      BY <1>0, <1>1, <1>4, <2>3, <2>9, <2>10 DEF Web!Published, Web!CashDone
    <2>12. confirm' \in BOOLEAN
      BY <1>4 DEF Web!Published, Web!CashDone
    <2>5. draft' \in {draft, d} /\ (s = "page" => draft' # NoDraft)
          /\ (s # "page" => draft' = draft) /\ effect' \in BOOLEAN
      BY <2>2, <2>3, <2>4 DEF Web!ShowDraft
    <2>6. Web!DraftTellsTruth'
      BY <2>1, <2>3, <2>4, <2>5 DEF Web!DraftTellsTruth
    <2>7. \A t \in Web!Slot : calls'[t] # Web!Idle =>
             calls'[t] = calls[t] /\ WebCall(calls[t])'
      BY <2>4 DEF WebCall, WebTruth
    <2>8. calls' \in [Web!Slot -> Web!Call] /\ Web!DeskTypeOK'
      BY <2>4 DEF Web!Call, Web!DeskTypeOK
    <2> QED BY <2>2, <2>3, <2>4, <2>5, <2>6, <2>7, <2>8, <2>11, <2>12 DEF Web!Slot
  <1>5. CASE Web!Failed(s) \/ Web!LoseAnswer(s)
    <2>1. calls' = [calls EXCEPT ![s] = Web!Idle]
          /\ UNCHANGED <<sold, published, draft, stored, page, effect, confirm,
                connected, used, reported>>
      BY <1>5 DEF Web!Failed, Web!LoseAnswer, Web!deskVars
    <2>2. late' \subseteq Web!Request
      <3>1. CASE Web!Failed(s)
        BY <3>1 DEF Web!Failed, Web!deskVars, Web!DeskTypeOK
      <3>2. CASE Web!LoseAnswer(s)
        BY <3>2, WebAbandon DEF Web!LoseAnswer
      <3> QED BY <1>5, <3>1, <3>2
    <2>3. Web!DeskTypeOK' /\ Web!DraftTellsTruth'
      BY <2>1, <2>2 DEF Web!DeskTypeOK, Web!DraftTellsTruth
    <2>4. \A t \in Web!Slot : calls'[t] # Web!Idle =>
             calls'[t] = calls[t] /\ WebCall(calls[t])'
      BY <2>1 DEF WebCall, WebTruth
    <2> QED BY <2>1, <2>3, <2>4 DEF Web!Slot, Web!Call
  <1> QED BY <1>2, <1>3, <1>4, <1>5 DEF WebCallStep

\* A page that goes leaves its submission to itself.
LEMMA WebGoneKeeps ==
    ASSUME Web!DeskAssumption, Web!WizardAssumption, WebInv, Web!Unmount \/ Web!CloseTab
    PROVE  WebInv'
  <1> USE DEF WebInv, Web!TypeOK
  <1>1. late' \subseteq Web!Request /\ UNCHANGED <<sold, published>>
    BY WebAbandon DEF Web!Unmount, Web!CloseTab, Web!deskVars, Web!DeskTypeOK
  <1>2. Web!DeskTypeOK'
    BY <1>1 DEF Web!DeskTypeOK
  <1>3. draft' = NoDraft /\ page' = "away"
        /\ UNCHANGED <<stored, connected, used, reported>> /\ effect' \in BOOLEAN
        /\ confirm' \in BOOLEAN
    BY DEF Web!Unmount, Web!CloseTab
  <1>4. Web!DraftTellsTruth'
    BY <1>1, <1>3 DEF Web!DraftTellsTruth
  <1>5. calls' \in [Web!Slot -> Web!Call] /\ calls'["page"] = Web!Idle
    BY DEF Web!Unmount, Web!CloseTab, Web!Slot, Web!Call
  <1>6. \A t \in Web!Slot : calls'[t] # Web!Idle =>
           \E u \in Web!Slot : calls'[t] = calls[u] /\ calls[u] # Web!Idle
    BY DEF Web!Unmount, Web!CloseTab, Web!Slot
  <1>7. \A t \in Web!Slot : calls'[t] # Web!Idle => WebCall(calls[t])'
    BY <1>1, <1>6 DEF WebCall, WebTruth
  <1> QED BY <1>2, <1>3, <1>4, <1>5, <1>7

\* A late request changes no sale that exists.
LEMMA WebLaterKeeps ==
    ASSUME Web!DeskAssumption, WebInv, Web!ServeLater
    PROVE  WebInv'
  <1> USE DEF WebInv, Web!TypeOK
  <1>1. PICK r \in late, reply \in Web!Reply : Web!Serve(r, reply) /\ late' = late \ {r}
    BY DEF Web!ServeLater, Web!ServeLate
  <1>2. /\ sold' \in [Keys -> Web!Terms \cup {Web!NoTerms}] /\ published' \subseteq Keys
        /\ published \subseteq published'
        /\ \A k \in Keys : sold[k] # Web!NoTerms => sold'[k] # Web!NoTerms
    BY <1>1, WebServe DEF Web!DeskTypeOK
  <1>3. Web!DeskTypeOK'
    BY <1>1, <1>2 DEF Web!DeskTypeOK
  <1>4. UNCHANGED <<draft, stored, page, effect, confirm, connected, calls, used,
           reported>>
    BY DEF Web!ServeLater, Web!pageVars
  <1>5. Web!DraftTellsTruth'
    BY <1>2, <1>4 DEF Web!DraftTellsTruth, Web!Draft
  <1>6. \A t \in Web!Slot : calls'[t] # Web!Idle => WebCall(calls[t])'
    BY <1>2, <1>4 DEF WebCall, WebTruth, Web!Call, Web!Draft
  <1> QED BY <1>3, <1>4, <1>5, <1>6

\* Every step keeps the invariant.
LEMMA WebNext ==
    Web!DeskAssumption /\ Web!WizardAssumption /\ WebInv /\ [Web!Next]_(Web!vars) =>
       WebInv'
  <1> SUFFICES ASSUME Web!DeskAssumption, Web!WizardAssumption, WebInv,
         [Web!Next]_(Web!vars)
               PROVE  WebInv'
    OBVIOUS
  <1>1. CASE WebEdit
    BY <1>1, WebEditKeeps
  <1>2. CASE Web!Submit
    BY <1>2, WebSubmitKeeps
  <1>3. ASSUME NEW s \in Web!Slot, WebCallStep(s)  PROVE WebInv'
    BY <1>3, WebCallKeeps
  <1>4. CASE Web!Unmount \/ Web!CloseTab
    BY <1>4, WebGoneKeeps
  <1>5. CASE Web!ServeLater
    BY <1>5, WebLaterKeeps
  <1>6. CASE UNCHANGED Web!vars
    BY <1>6 DEF Web!vars, Web!deskVars, Web!pageVars, WebInv, Web!TypeOK,
       Web!DeskTypeOK, Web!DraftTellsTruth, WebCall, WebTruth
  <1> QED  BY <1>1, <1>2, <1>3, <1>4, <1>5, <1>6 DEF Web!Next, WebEdit, WebCallStep

\* What a draft of the web says of its sale is true on the server: an order it
\* names exists, and a link it shows is served.
THEOREM DraftsTellTruth ==
    ASSUME Web!DeskAssumption, Web!WizardAssumption
    PROVE  Web!Spec => []Web!DraftTellsTruth
  <1>1. WebInv => Web!DraftTellsTruth
    BY DEF WebInv
  <1> QED  BY <1>1, WebInit, WebNext, PTL DEF Web!Spec

\* The wizard of the web keeps its types.
THEOREM WebIsTyped ==
    ASSUME Web!DeskAssumption, Web!WizardAssumption
    PROVE  Web!Spec => []Web!TypeOK
  <1>1. WebInv => Web!TypeOK
    BY DEF WebInv
  <1> QED  BY <1>1, WebInit, WebNext, PTL DEF Web!Spec

\* An edit gives up a key only once its sale was shown as done.
LEMMA WebEditKeepsSale ==
    ASSUME Web!WizardAssumption, WebInv, WebKept, WebEdit
    PROVE  WebKept'
  <1> USE DEF WebInv, Web!TypeOK, Web!Draft, WebKept
  <1>0. UNCHANGED <<sold, published, late, calls>>
    BY DEF WebEdit, Web!Enter, Web!SaveEffect, Web!LoadConnection, Web!EditLines,
       Web!ChooseMethod, Web!GoToStep, Web!AskCash, Web!CloseCash, Web!Reset,
       Web!LeaveToSales, Web!deskVars
  <1>1. \A k \in Keys : WebAsked(k)' <=> WebAsked(k)
    BY <1>0 DEF WebAsked
  <1>4. CASE Web!Enter
    BY <1>0, <1>1, <1>4 DEF Web!Enter, Web!EmptyDraft, WebSafe, Web!Completed
  <1>5. CASE Web!SaveEffect \/ Web!LoadConnection \/ Web!AskCash \/ Web!CloseCash
    BY <1>0, <1>1, <1>5 DEF Web!SaveEffect, Web!LoadConnection, Web!AskCash,
       Web!CloseCash, WebSafe
  <1>6. CASE WebRewrites
    BY <1>0, <1>1, <1>6 DEF WebRewrites, Web!ReplaceDraft, WebSafe, Web!WizardAssumption
  <1>10. CASE Web!Reset \/ Web!LeaveToSales
    BY <1>0, <1>1, <1>10 DEF Web!Reset, Web!LeaveToSales, Web!Ready, WebSafe,
       Web!EmptyDraft
  <1> QED BY <1>4, <1>5, <1>6, <1>10, WebEdits DEF WebEdit

\* What a submission asks for is in the draft that is stored.
LEMMA WebSubmitKeepsSale ==
    ASSUME Web!WizardAssumption, WebInv, WebKept, Web!Submit
    PROVE  WebKept'
  <1> USE DEF WebInv, Web!TypeOK, Web!Draft, WebKept
  <1>1. draft \in Web!Draft /\ draft # NoDraft /\ ~effect
    BY DEF Web!Submit, Web!SubmitEnabled, Web!Ready
  <1>2. UNCHANGED <<sold, published, late, draft, effect>>
    BY DEF Web!Submit, Web!deskVars
  <1>3. CASE draft.order /\ Web!Selected(draft) = "cash"
    <2>1. UNCHANGED calls /\ stored' = NoDraft /\ reported' = reported \cup {draft.key}
      BY <1>3 DEF Web!Submit, Web!CashDone
    <2>2. \A k \in Keys : WebAsked(k)' <=> WebAsked(k)
      BY <1>2, <2>1 DEF WebAsked
    <2> QED BY <1>1, <1>2, <2>1, <2>2 DEF WebSafe
  <1>4. CASE ~ (draft.order /\ Web!Selected(draft) = "cash")
    <2>1. /\ UNCHANGED <<stored, reported>> /\ calls'["left"] = Web!Idle
          /\ \A s \in Web!Slot : calls'[s] # Web!Idle =>
                calls'[s] = calls[s] \/ calls'[s].draft = draft
      BY <1>4 DEF Web!Submit, Web!Slot
    <2>2. \A k \in Keys : WebAsked(k)' => WebAsked(k) \/ k = draft.key
      BY <1>2, <2>1 DEF WebAsked
    <2> QED BY <1>1, <1>2, <2>1, <2>2 DEF WebSafe
  <1> QED BY <1>3, <1>4

\* An answer stores its draft or reports its sale.
LEMMA WebCallKeepsSale ==
    ASSUME Web!DeskAssumption, Web!WizardAssumption, WebInv, WebKept,
              NEW s \in Web!Slot, WebCallStep(s)
    PROVE  WebKept'
  <1> USE DEF WebInv, Web!TypeOK, Web!Draft, WebKept
  <1>0. s = "page"
    BY DEF WebCallStep, Web!ServeCall, Web!Created, Web!Published, Web!Failed,
       Web!LoseAnswer, Web!Waiting, Web!Answered, Web!Slot
  <1>1. PICK c : c = calls["page"]
    OBVIOUS
  <1>2. c \in Web!Call /\ c # Web!Idle /\ c.draft \in Web!Draft /\ WebCall(c)
        /\ draft # NoDraft /\ c.draft.key = draft.key
    BY <1>0, <1>1 DEF WebCallStep, Web!ServeCall, Web!Created, Web!Published,
       Web!Failed, Web!LoseAnswer, Web!Waiting, Web!Answered, Web!Call, Web!Slot
  <1>3. WebAsked(draft.key) /\ WebSafe(draft.key)
    BY <1>1, <1>2 DEF WebAsked, Web!Slot
  <1>4. CASE Web!ServeCall(s)
    <2>1. PICK reply \in Web!Reply : Web!Serve(Web!RequestOf(c), reply)
          /\ calls' = [calls EXCEPT ![s].reply = reply]
      BY <1>0, <1>1, <1>4 DEF Web!ServeCall
    <2>2. Web!RequestOf(c) \in Web!Request
      BY <1>2, WebRequest DEF WebCall
    <2>3. \A k \in Keys : sold'[k] # sold[k] => k = draft.key
      BY <1>2, <2>1, <2>2, WebServe DEF Web!RequestOf
    <2>4. UNCHANGED <<late, draft, stored, page, effect, confirm, connected, used,
             reported>>
      BY <1>4 DEF Web!ServeCall
    <2>5. calls'["left"] = Web!Idle /\ calls'["page"].draft.key = draft.key
      BY <1>0, <1>1, <1>2, <2>1 DEF Web!Slot
    <2>6. \A k \in Keys : WebAsked(k)' => WebAsked(k)
      BY <1>3, <2>3, <2>4, <2>5 DEF WebAsked, Web!Slot
    <2> QED BY <2>4, <2>5, <2>6 DEF WebSafe
  <1>5. CASE Web!Created(s)
    <2> DEFINE d == [c.draft EXCEPT !.order = TRUE]
    <2>1. d # NoDraft /\ d.key = draft.key /\ d.step < 4
      BY <1>2 DEF Web!WizardAssumption, WebCall
    <2>2. /\ draft' = d /\ effect' = TRUE /\ UNCHANGED <<sold, late>>
          /\ \/ stored' = NoDraft /\ reported' = reported \cup {draft.key} /\
                calls' = [calls EXCEPT ![s] = Web!Idle]
             \/ /\ stored' = d /\ reported' = reported
                /\ calls' = [calls EXCEPT ![s].phase = "publishing",
                                           ![s].reply = "none", ![s].draft = d]
      BY <1>0, <1>1, <1>5, <2>1 DEF Web!Created, Web!deskVars, Web!ShowDraft,
         Web!CashDone
    <2> HIDE DEF d
    <2>3. calls'["left"] = Web!Idle
          /\ (calls'["page"] # Web!Idle => calls'["page"].draft.key = draft.key)
      <3>1. CASE calls' = [calls EXCEPT ![s] = Web!Idle]
        BY <1>0, <3>1 DEF Web!Slot
      <3>2. CASE calls' = [calls EXCEPT ![s].phase = "publishing",
               ![s].reply = "none", ![s].draft = d]
        <4>1. calls'["page"].draft = d
          BY <1>0, <1>1, <1>2, <3>2 DEF Web!Slot, Web!Call
        <4> QED BY <1>0, <2>1, <3>2, <4>1 DEF Web!Slot
      <3> QED BY <2>2, <3>1, <3>2
    <2>4. \A k \in Keys : WebAsked(k)' => WebAsked(k)
      BY <1>3, <2>2, <2>3 DEF WebAsked, Web!Slot
    <2>5. \A k \in Keys : WebSafe(k) => WebSafe(k)'
      BY <1>2, <2>1, <2>2 DEF WebSafe
    <2> QED BY <2>1, <2>2, <2>3, <2>4, <2>5
  <1>6. CASE Web!Published(s)
    <2> DEFINE d == [draft EXCEPT !.step = 4, !.order = TRUE, !.url = TRUE]
    <2>0. draft \in Web!Draft
      BY <1>2
    <2>1. d # NoDraft /\ d.key = draft.key
      BY <2>0, WebDoneIs DEF Web!WizardAssumption, WebDone
    <2>2. /\ UNCHANGED <<sold, late>> /\ reported' = reported \cup {draft.key}
          /\ \/ draft' = d /\ effect' = TRUE /\ stored' = d
             \/ draft' = draft /\ effect' = effect /\ stored' = NoDraft
          /\ calls' = [calls EXCEPT ![s] = Web!Idle]
      BY <1>0, <1>1, <1>6, <2>1 DEF Web!Published, Web!deskVars, Web!ShowDraft,
         Web!CashDone
    <2> HIDE DEF d
    <2>3. calls'["left"] = Web!Idle /\ calls'["page"] = Web!Idle
      BY <1>0, <2>2 DEF Web!Slot
    <2>4. \A k \in Keys : WebAsked(k)' => WebAsked(k)
      BY <2>2, <2>3 DEF WebAsked, Web!Slot
    <2>5. \A k \in Keys : WebSafe(k) => WebSafe(k)'
      BY <1>2, <2>1, <2>2 DEF WebSafe
    <2> QED BY <2>1, <2>2, <2>3, <2>4, <2>5
  <1>7. CASE Web!Failed(s) \/ Web!LoseAnswer(s)
    <2>1. calls' = [calls EXCEPT ![s] = Web!Idle]
          /\ UNCHANGED <<sold, draft, stored, effect, reported>>
      BY <1>7 DEF Web!Failed, Web!LoseAnswer, Web!deskVars
    <2>2. \A r \in late' : r \in late \/ r.key = draft.key
      BY <1>0, <1>1, <1>2, <1>7 DEF Web!Failed, Web!LoseAnswer, Web!deskVars,
         Web!Abandon, Web!Unserved, Web!RequestOf
    <2>3. \A k \in Keys : WebAsked(k)' => WebAsked(k)
      BY <1>0, <1>3, <2>1, <2>2 DEF WebAsked, Web!Slot
    <2> QED BY <1>0, <2>1, <2>3 DEF WebSafe, Web!Slot
  <1> QED BY <1>4, <1>5, <1>6, <1>7 DEF WebCallStep

\* A page that goes asks for nothing that is not stored.
LEMMA WebGoneKeepsSale ==
    ASSUME Web!WizardAssumption, ~Background, WebInv, WebKept,
              Web!Unmount \/ Web!CloseTab
    PROVE  WebKept'
  <1> USE DEF WebInv, Web!TypeOK, Web!Draft, WebKept
  <1>1. draft' = NoDraft /\ UNCHANGED <<sold, stored, reported>>
    BY DEF Web!Unmount, Web!CloseTab, Web!deskVars
  <1>2. calls'["left"] = Web!Idle /\ calls'["page"] = Web!Idle
    BY DEF Web!Unmount, Web!CloseTab, Web!Slot
  <1>3. \A r \in late' : r \in late \/ \E t \in Web!Slot : calls[t] # Web!Idle /\
           r.key = calls[t].draft.key
    BY DEF Web!Unmount, Web!CloseTab, Web!deskVars, Web!Abandon, Web!Unserved,
       Web!RequestOf, Web!Waiting
  <1>4. \A k \in Keys : WebAsked(k)' => WebAsked(k)
    BY <1>1, <1>2, <1>3 DEF WebAsked, Web!Slot
  <1> QED BY <1>1, <1>2, <1>4 DEF WebSafe

\* A late request makes a sale that was asked for.
LEMMA WebLaterKeepsSale ==
    ASSUME Web!DeskAssumption, WebInv, WebKept, Web!ServeLater
    PROVE  WebKept'
  <1> USE DEF WebInv, Web!TypeOK, Web!Draft, WebKept
  <1>1. PICK r \in late, reply \in Web!Reply : Web!Serve(r, reply) /\ late' = late \ {r}
    BY DEF Web!ServeLater, Web!ServeLate
  <1>2. \A k \in Keys : sold'[k] # sold[k] => k = r.key
    BY <1>1, WebServe DEF Web!DeskTypeOK
  <1>3. UNCHANGED <<draft, stored, page, effect, confirm, connected, calls, used,
           reported>>
    BY DEF Web!ServeLater, Web!pageVars
  <1>4. \A k \in Keys : WebAsked(k)' => WebAsked(k)
    BY <1>1, <1>2, <1>3 DEF WebAsked
  <1> QED BY <1>3, <1>4 DEF WebSafe

\* Every step keeps the second invariant, if no submission outlives its page.
LEMMA WebNextSale ==
    Web!DeskAssumption /\ Web!WizardAssumption /\ ~Background /\ WebInv /\
       WebKept /\ [Web!Next]_(Web!vars) => WebKept'
  <1> SUFFICES ASSUME Web!DeskAssumption, Web!WizardAssumption, ~Background, WebInv,
         WebKept, [Web!Next]_(Web!vars)
               PROVE  WebKept'
    OBVIOUS
  <1>1. CASE WebEdit
    BY <1>1, WebEditKeepsSale
  <1>2. CASE Web!Submit
    BY <1>2, WebSubmitKeepsSale
  <1>3. ASSUME NEW s \in Web!Slot, WebCallStep(s)  PROVE WebKept'
    BY <1>3, WebCallKeepsSale
  <1>4. CASE Web!Unmount \/ Web!CloseTab
    BY <1>4, WebGoneKeepsSale
  <1>5. CASE Web!ServeLater
    BY <1>5, WebLaterKeepsSale
  <1>6. CASE UNCHANGED Web!vars
    BY <1>6 DEF Web!vars, Web!deskVars, Web!pageVars, WebKept, WebSafe, WebAsked
  <1> QED  BY <1>1, <1>2, <1>3, <1>4, <1>5, <1>6 DEF Web!Next, WebEdit, WebCallStep

\* No sale of the web is left behind its seller's back, who waits for the answer
\* before leaving.
THEOREM NoSaleIsLost ==
    ASSUME Web!DeskAssumption, Web!WizardAssumption, ~Background
    PROVE  Web!Spec => []Web!NoOrphanSale
  <1>1. WebKept => Web!NoOrphanSale
    BY DEF WebKept, WebSafe, WebAsked, Web!NoOrphanSale, Web!Known
  <1> QED  BY <1>1, WebInit, WebNext, WebNextSale, PTL DEF Web!Spec

----------------------------------------------------------------------------
(* The wizard of the phone.                                                *)

\* What a submission has made: the sale of its key, with the terms it sends.
PhoneCall(c) ==
    /\ c.draft.cart \in Carts
    /\ c.phase = "publishing" \/ c.reply = "done" =>
          sold[c.draft.key] = Phone!RequestOf(c).terms

\* The sales that exist, or that a request may still create.
PhoneAsked(k) ==
    \/ sold[k] # Phone!NoTerms
    \/ \E r \in late : r.key = k
    \/ \E s \in Phone!Slot : calls[s] # Phone!Idle /\ calls[s].draft.key = k

\* The seller will not lose the sale, even if the application ends now.
PhoneSafe(k) == k \in reported \/ (stored # NoDraft /\ stored.key = k)

\* A draft that left the first step has lines, and one in its last step is of a
\* sale that was shown as done.
PhoneDraft(d) ==
    /\ d.step \in {"terms", "review"} => d.cart \in Carts
    /\ d.step = "result" => d.key \in reported

\* Nobody leaves the wizard while a sale in cash is being made: its answer would
\* clear the draft stored by then, which may be that of the next sale.
PhoneStays == Background => "cash" \notin Methods

\* The submission of the screen is of the sale it drafts, whose key reaches the
\* device before anything is sent.
PhoneInv ==
    /\ Phone!TypeOK
    /\ ~Background => calls["left"] = Phone!Idle
    /\ \A s \in Phone!Slot : calls[s] # Phone!Idle => PhoneCall(calls[s])
    /\ calls["screen"] # Phone!Idle =>
          draft # NoDraft /\ draft.step # "result"
          /\ draft.key = calls["screen"].draft.key
    /\ draft # NoDraft => PhoneDraft(draft)
    /\ stored # NoDraft => PhoneDraft(stored)
    /\ draft # NoDraft /\ stored # NoDraft => draft.key = stored.key
    /\ draft # NoDraft /\ ~effect => PhoneSafe(draft.key)
    /\ PhoneStays => \A k \in Keys : PhoneAsked(k) => PhoneSafe(k)

PhoneAssumption == Phone!DeskAssumption /\ Phone!ScreenAssumption

\* The invariant holds at first.
LEMMA PhoneInit == PhoneAssumption /\ Phone!Init => PhoneInv
  <1> SUFFICES ASSUME PhoneAssumption, Phone!Init PROVE PhoneInv
    OBVIOUS
  <1>1. Phone!TypeOK
    BY DEF Phone!Init, Phone!TypeOK, Phone!DeskInit, Phone!DeskTypeOK, Phone!Call
  <1>2. \A s \in Phone!Slot : calls[s] = Phone!Idle
    BY DEF Phone!Init
  <1> QED  BY <1>1, <1>2 DEF PhoneInv, Phone!Init, Phone!DeskInit, PhoneAsked,
              Phone!Slot

\* What serving a request changes.
LEMMA PhoneServe ==
    ASSUME Phone!DeskAssumption, Phone!DeskTypeOK, NEW r \in Phone!Request, NEW reply,
           Phone!Serve(r, reply)
    PROVE  /\ sold' \in [Keys -> Phone!Terms \cup {Phone!NoTerms}]
           /\ published' \subseteq Keys
           /\ reply \in Phone!Reply
           /\ \A k \in Keys : sold[k] # Phone!NoTerms => sold'[k] = sold[k]
           /\ \A k \in Keys : sold'[k] # sold[k] => k = r.key
           /\ r.kind = "create" /\ reply = "done" => sold'[r.key] = r.terms
  <1>1. r.terms # Phone!NoTerms /\ r.terms \in Phone!Terms /\ r.key \in Keys
    BY DEF Phone!Request, Phone!Terms, Phone!NoTerms, Phone!DeskAssumption
  <1> QED  BY <1>1 DEF Phone!Serve, Phone!Replies, Phone!DeskTypeOK, Phone!Reply

\* A request of a submission is one of the desk, and its terms are some.
LEMMA PhoneRequest ==
    ASSUME Phone!DeskAssumption, NEW c \in Phone!Call, c # Phone!Idle,
              c.draft.cart \in Carts
    PROVE  /\ Phone!RequestOf(c) \in Phone!Request
           /\ Phone!RequestOf(c).key = c.draft.key
           /\ c.draft.key \in Keys /\ Phone!RequestOf(c).terms # Phone!NoTerms
  <1>1. Phone!RequestOf(c).key = c.draft.key
    BY DEF Phone!RequestOf
  <1>2. Phone!RequestOf(c).terms.cart = c.draft.cart
    BY DEF Phone!RequestOf
  <1>3. Phone!RequestOf(c) \in Phone!Request /\ c.draft.key \in Keys
    BY DEF Phone!RequestOf, Phone!Request, Phone!Call, Phone!Draft, Phone!Terms
  <1> QED  BY <1>1, <1>2, <1>3 DEF Phone!NoTerms, Phone!DeskAssumption

\* Steps in which nothing is sent, served or shown.
PhoneEdit ==
    \/ Phone!Enter \/ Phone!Hydrate \/ Phone!SaveEffect \/ Phone!LoadConnection
    \/ \E cart \in Carts \cup {NoCart} : Phone!EditLines(cart)
    \/ \E m \in Methods : Phone!ChooseMethod(m)
    \/ Phone!GoNext \/ Phone!GoBack \/ Phone!AskCash \/ Phone!CloseCash
    \/ Phone!Reset

\* A draft that is edited keeps its sale; it has lines when it goes on.
PhoneRewrites ==
    \E d \in Phone!Draft :
        /\ Phone!SetDraft(d) /\ draft # NoDraft /\ d.key = draft.key
        /\ d.step # "result" /\ PhoneDraft(d)
        /\ UNCHANGED <<sold, published, late, stored, screen, confirm, connected, calls,
                       used, reported>>

\* The steps of an edit rewrite the draft.
LEMMA PhoneEdits ==
    ASSUME PhoneInv,
           \/ \E cart \in Carts \cup {NoCart} : Phone!EditLines(cart)
           \/ \E m \in Methods : Phone!ChooseMethod(m)
           \/ Phone!GoNext \/ Phone!GoBack
    PROVE  PhoneRewrites
  <1>1. draft \in Phone!Draft /\ draft # NoDraft /\ PhoneDraft(draft)
    BY DEF PhoneInv, Phone!TypeOK, Phone!EditLines, Phone!ChooseMethod, Phone!GoNext,
       Phone!GoBack, Phone!Ready
  <1>2. CASE \E cart \in Carts \cup {NoCart} : Phone!EditLines(cart)
    <2> PICK cart \in Carts \cup {NoCart} : Phone!EditLines(cart)
      BY <1>2
    <2>1. PICK d : d = [draft EXCEPT !.cart = cart]
      OBVIOUS
    <2>2. d \in Phone!Draft /\ d.key = draft.key /\ d.step = "products"
      BY <1>1, <2>1 DEF Phone!Draft, Phone!EditLines
    <2> QED  BY <1>1, <2>1, <2>2 DEF PhoneRewrites, PhoneDraft, Phone!EditLines,
                Phone!deskVars
  <1>3. CASE \E m \in Methods : Phone!ChooseMethod(m)
    <2> PICK m \in Methods : Phone!ChooseMethod(m)
      BY <1>3
    <2>1. PICK d : d = [draft EXCEPT !.method = m]
      OBVIOUS
    <2>2. d \in Phone!Draft /\ d.key = draft.key /\ d.step = "terms"
          /\ d.cart = draft.cart
      BY <1>1, <2>1 DEF Phone!Draft, Phone!ChooseMethod
    <2> QED  BY <1>1, <2>1, <2>2 DEF PhoneRewrites, PhoneDraft, Phone!ChooseMethod,
                Phone!deskVars
  <1>4. CASE Phone!GoNext \/ Phone!GoBack
    <2>1. PICK t \in {"products", "terms",
             "review"} : Phone!SetDraft([draft EXCEPT !.step = t])
             /\ (t = "products" \/ draft.cart \in Carts)
      BY <1>1, <1>4 DEF Phone!GoNext, Phone!GoBack, PhoneDraft, Phone!Valid
    <2>2. PICK d : d = [draft EXCEPT !.step = t]
      OBVIOUS
    <2>3. d \in Phone!Draft /\ d.key = draft.key /\ d.step = t /\ d.cart = draft.cart
      BY <1>1, <2>2 DEF Phone!Draft, Phone!Step
    <2>4. UNCHANGED <<sold, published, late, stored, screen, confirm, connected, calls,
                      used, reported>>
      BY <1>4 DEF Phone!GoNext, Phone!GoBack, Phone!deskVars
    <2> QED  BY <1>1, <2>1, <2>2, <2>3, <2>4 DEF PhoneRewrites, PhoneDraft
  <1> QED  BY <1>2, <1>3, <1>4

\* They keep what is known of the sale that is drafted.
LEMMA PhoneEditKeeps ==
    ASSUME PhoneAssumption, PhoneInv, PhoneEdit
    PROVE  PhoneInv'
  <1> USE DEF PhoneInv, Phone!TypeOK
  <1>1. UNCHANGED <<sold, published, late, calls>>
    BY DEF PhoneEdit, Phone!Enter, Phone!Hydrate, Phone!SaveEffect,
       Phone!LoadConnection, Phone!EditLines, Phone!ChooseMethod, Phone!GoNext,
       Phone!GoBack, Phone!AskCash, Phone!CloseCash, Phone!Reset, Phone!deskVars
  <1>2. Phone!DeskTypeOK' /\ \A k \in Keys : PhoneAsked(k)' <=> PhoneAsked(k)
    BY <1>1 DEF Phone!DeskTypeOK, PhoneAsked
  <1>3. \A s \in Phone!Slot : calls'[s] # Phone!Idle => PhoneCall(calls[s])'
    BY <1>1 DEF PhoneCall
  <1>4. ASSUME NEW k \in Keys
        PROVE  /\ Phone!EmptyDraft(k) \in Phone!Draft /\ Phone!EmptyDraft(k) # NoDraft
               /\ Phone!EmptyDraft(k).step = "products"
    <2>1. Phone!EmptyDraft(k) \in Phone!Draft
      BY DEF Phone!EmptyDraft, Phone!Draft, Phone!Step, Phone!DeskAssumption,
         PhoneAssumption
    <2>2. Phone!EmptyDraft(k).step = "products"
      BY DEF Phone!EmptyDraft
    <2> QED  BY <2>1, <2>2 DEF Phone!ScreenAssumption, PhoneAssumption
  <1>5. CASE Phone!Hydrate
    <2>1. CASE stored # NoDraft /\ ~Phone!Completed(stored)
      BY <1>1, <1>2, <1>3, <1>5, <2>1 DEF Phone!Hydrate, Phone!SetDraft, PhoneDraft,
         PhoneSafe
    <2>2. CASE ~(stored # NoDraft /\ ~Phone!Completed(stored))
      <3>1. PICK k \in Keys : draft' = Phone!EmptyDraft(k) /\ used' = used \cup {k}
        BY <1>5, <2>2 DEF Phone!Hydrate, Phone!FreshKey, Phone!SetDraft
      <3>2. /\ stored' = NoDraft /\ screen' = "open" /\ effect' = TRUE
            /\ reported' = reported \cup (IF stored = NoDraft THEN {} ELSE {stored.key})
            /\ UNCHANGED <<confirm, connected>>
        BY <1>5, <2>2 DEF Phone!Hydrate, Phone!SetDraft
      <3>3. reported' \subseteq Keys
        BY <3>2 DEF Phone!Draft
      <3>4. \A k2 \in Keys : PhoneSafe(k2) => PhoneSafe(k2)'
        BY <3>2 DEF PhoneSafe
      <3>5. calls["screen"] = Phone!Idle
        BY <1>5 DEF Phone!Hydrate
      <3>6. PhoneDraft(draft)'
        BY <1>4, <3>1 DEF PhoneDraft
      <3> QED  BY <1>1, <1>2, <1>3, <1>4, <3>1, <3>2, <3>3, <3>4, <3>5, <3>6
    <2> QED  BY <2>1, <2>2
  <1>6. CASE Phone!Reset
    <2>1. PICK k \in Keys : draft' = Phone!EmptyDraft(k) /\ used' = used \cup {k}
      BY <1>6 DEF Phone!Reset, Phone!FreshKey, Phone!SetDraft
    <2>2. /\ stored' = NoDraft /\ effect' = TRUE /\ draft # NoDraft
          /\ draft.step = "result"
          /\ screen = "open" /\ UNCHANGED <<screen, confirm, connected, reported>>
      BY <1>6 DEF Phone!Reset, Phone!SetDraft, Phone!Ready
    <2>3. calls["screen"] = Phone!Idle /\ draft.key \in reported
      BY <2>2 DEF PhoneDraft
    <2>4. \A k2 \in Keys : PhoneSafe(k2) => PhoneSafe(k2)'
      BY <2>2, <2>3 DEF PhoneSafe
    <2>5. PhoneDraft(draft)'
      BY <1>4, <2>1 DEF PhoneDraft
    <2> QED  BY <1>1, <1>2, <1>3, <1>4, <2>1, <2>2, <2>3, <2>4, <2>5
  <1>7. CASE Phone!Enter \/ Phone!LoadConnection \/ Phone!AskCash \/ Phone!CloseCash
    <2>1. UNCHANGED <<draft, stored, effect, used, reported>>
      BY <1>7 DEF Phone!Enter, Phone!LoadConnection, Phone!AskCash, Phone!CloseCash
    <2>2. /\ screen' \in {"away", "loading", "open"}
          /\ (screen' = "open" <=> screen = "open")
          /\ confirm' \in BOOLEAN /\ connected' \in BOOLEAN
      BY <1>7 DEF Phone!Enter, Phone!LoadConnection, Phone!AskCash, Phone!CloseCash
    <2> QED  BY <1>1, <1>2, <1>3, <2>1, <2>2 DEF PhoneDraft, PhoneSafe
  <1>8. CASE Phone!SaveEffect
    <2>1. draft # NoDraft /\ stored' = draft /\ effect' = FALSE
          /\ UNCHANGED <<draft, screen, confirm, connected, used, reported>>
      BY <1>8 DEF Phone!SaveEffect
    <2>2. \A k \in Keys : PhoneSafe(k) => PhoneSafe(k)'
      BY <2>1 DEF PhoneSafe
    <2>3. PhoneDraft(draft)' /\ PhoneDraft(stored)' /\ PhoneSafe(draft.key)'
      BY <2>1 DEF PhoneDraft, PhoneSafe
    <2> QED  BY <1>1, <1>2, <1>3, <2>1, <2>2, <2>3
  <1>9. CASE PhoneRewrites
    <2>1. PICK d \in Phone!Draft :
             /\ draft' = d /\ effect' = TRUE /\ draft # NoDraft /\ d.key = draft.key
             /\ d.step # "result" /\ PhoneDraft(d)
             /\ UNCHANGED <<stored, screen, confirm, connected, used, reported>>
      BY <1>9 DEF PhoneRewrites, Phone!SetDraft
    <2>2. PhoneDraft(draft)' /\ (stored' # NoDraft => PhoneDraft(stored)')
      BY <2>1 DEF PhoneDraft
    <2>3. \A k \in Keys : PhoneSafe(k) => PhoneSafe(k)'
      BY <2>1 DEF PhoneSafe
    <2>4. d # NoDraft
      BY DEF PhoneAssumption, Phone!ScreenAssumption
    <2> QED  BY <1>1, <1>2, <1>3, <2>1, <2>2, <2>3, <2>4
  <1> QED  BY <1>5, <1>6, <1>7, <1>8, <1>9, PhoneEdits DEF PhoneEdit

\* Steps of one submission.
PhoneCallStep(s) ==
    Phone!ServeCall(s) \/ Phone!Created(s) \/ Phone!Published(s) \/ Phone!Failed(s)

\* What is under way is asked for, and is not lost.
LEMMA PhoneUnderWay ==
    ASSUME PhoneAssumption, PhoneInv, NEW s \in Phone!Slot, calls[s] # Phone!Idle
    PROVE  /\ calls[s] \in Phone!Call /\ calls[s].draft \in Phone!Draft
           /\ calls[s].draft.key \in Keys
           /\ PhoneCall(calls[s]) /\ Phone!RequestOf(calls[s]) \in Phone!Request
           /\ Phone!RequestOf(calls[s]).key = calls[s].draft.key
           /\ Phone!RequestOf(calls[s]).terms # Phone!NoTerms
           /\ PhoneAsked(calls[s].draft.key)
           /\ PhoneStays => PhoneSafe(calls[s].draft.key)
  <1>1. calls[s] \in Phone!Call /\ PhoneCall(calls[s]) /\ calls[s].draft \in Phone!Draft
    BY DEF PhoneInv, Phone!TypeOK, Phone!Call
  <1>2. PhoneAsked(calls[s].draft.key)
    BY DEF PhoneAsked
  <1>3. calls[s].draft.cart \in Carts
    BY <1>1 DEF PhoneCall
  <1> QED  BY <1>1, <1>2, <1>3, PhoneRequest DEF PhoneInv, PhoneAssumption

\* Requests that nobody waits for any more are of sales that are not lost.
LEMMA PhoneAbandon ==
    ASSUME PhoneAssumption, PhoneInv, NEW slots \in SUBSET Phone!Slot, 
           Phone!Abandon({Phone!RequestOf(calls[s]) : s \in {t \in slots : Phone!Waiting(t)}})
    PROVE  /\ late' \subseteq Phone!Request
           /\ \A r \in late' : r \in late \/ \E t \in Phone!Slot : calls[t] # Phone!Idle /\ r.key = calls[t].draft.key
  <1>1. \A r \in late' : r \in late \/ \E t \in Phone!Slot : calls[t] # Phone!Idle /\ r = Phone!RequestOf(calls[t])
    BY DEF Phone!Abandon, Phone!Waiting
  <1>2. late \subseteq Phone!Request
    BY DEF PhoneInv, Phone!TypeOK, Phone!DeskTypeOK
  <1> QED  BY <1>1, <1>2, PhoneUnderWay

\* What a submission asks for is in the draft that is stored.
LEMMA PhoneSubmitKeeps ==
    ASSUME PhoneAssumption, PhoneInv, Phone!Submit
    PROVE  PhoneInv'
  <1> USE DEF PhoneInv, Phone!TypeOK
  <1>1. PICK c : c = [phase |-> "creating", reply |-> "none", draft |-> draft]
    OBVIOUS
  <1>2. /\ calls' = [calls EXCEPT !["screen"] = c]
        /\ draft \in Phone!Draft /\ draft # NoDraft /\ draft.step = "review" /\ ~effect
        /\ UNCHANGED <<sold, published, late, draft, stored, screen, effect, confirm,
              connected, used, reported>>
    BY <1>1 DEF Phone!Submit, Phone!SubmitEnabled, Phone!Ready, Phone!deskVars
  <1>3. c \in Phone!Call /\ c # Phone!Idle /\ c.draft = draft
        /\ c.phase = "creating" /\ c.reply = "none"
    BY <1>1, <1>2 DEF Phone!Call, Phone!Idle, Phone!Reply
  <1>4. calls' \in [Phone!Slot -> Phone!Call] /\ Phone!DeskTypeOK'
    BY <1>2, <1>3 DEF Phone!DeskTypeOK
  <1>5. \A t \in Phone!Slot : calls'[t] # Phone!Idle => PhoneCall(calls[t])'
    BY <1>2, <1>3 DEF PhoneCall, PhoneDraft
  <1>6. \A k \in Keys : PhoneAsked(k)' => PhoneAsked(k) \/ k = draft.key
    BY <1>2, <1>3 DEF PhoneAsked
  <1>7. \A k \in Keys : PhoneSafe(k) => PhoneSafe(k)'
    BY <1>2 DEF PhoneSafe
  <1>8. /\ PhoneDraft(draft)' /\ (stored # NoDraft => PhoneDraft(stored)') /\
              PhoneSafe(draft.key)'
        /\ draft.key \in Keys
    BY <1>2 DEF PhoneDraft, PhoneSafe, Phone!Draft
  <1> QED  BY <1>2, <1>3, <1>4, <1>5, <1>6, <1>7, <1>8 DEF Phone!Slot

\* The server makes the sale of a submission as it was sent.
LEMMA PhoneServeKeeps ==
    ASSUME PhoneAssumption, PhoneInv, NEW s \in Phone!Slot, Phone!ServeCall(s)
    PROVE  PhoneInv'
  <1> USE DEF PhoneInv, Phone!TypeOK
  <1>1. PICK c : c = calls[s]
    OBVIOUS
  <1>2. c # Phone!Idle /\ c.reply = "none"
    BY <1>1 DEF Phone!ServeCall, Phone!Waiting
  <1>3. /\ c \in Phone!Call /\ c.draft.key \in Keys /\ PhoneCall(c)
        /\ Phone!RequestOf(c) \in Phone!Request
        /\ PhoneAsked(c.draft.key) /\ Phone!RequestOf(c).key = c.draft.key
    BY <1>1, <1>2, PhoneUnderWay
  <1>4. PICK reply \in Phone!Reply : Phone!Serve(Phone!RequestOf(c), reply)
                                     /\ calls' = [calls EXCEPT ![s].reply = reply]
    BY <1>1 DEF Phone!ServeCall
  <1>5. PICK e : e = [c EXCEPT !.reply = reply]
    OBVIOUS
  <1>6. /\ e \in Phone!Call /\ e # Phone!Idle /\ e.draft = c.draft
        /\ e.phase = c.phase /\ e.reply = reply
        /\ Phone!RequestOf(e) = Phone!RequestOf(c) /\ calls' = [calls EXCEPT ![s] = e]
    BY <1>1, <1>2, <1>3, <1>4, <1>5 DEF Phone!Call, Phone!Idle, Phone!RequestOf
  <1>7. UNCHANGED <<late, draft, stored, screen, effect, confirm, connected, used,
           reported>>
    BY DEF Phone!ServeCall
  <1>8. /\ sold' \in [Keys -> Phone!Terms \cup {Phone!NoTerms}]
        /\ published' \subseteq Keys
        /\ \A k \in Keys : sold[k] # Phone!NoTerms => sold'[k] = sold[k]
        /\ \A k \in Keys : sold'[k] # sold[k] => k = c.draft.key
        /\ c.phase = "creating" /\ reply = "done" =>
              sold'[c.draft.key] = Phone!RequestOf(c).terms
    BY <1>3, <1>4, PhoneServe DEF Phone!RequestOf, PhoneAssumption
  <1>9. \A t \in Phone!Slot : calls'[t] # Phone!Idle => PhoneCall(calls[t])'
    <2> SUFFICES ASSUME NEW t \in Phone!Slot,
           calls'[t] # Phone!Idle PROVE PhoneCall(calls[t])'
      OBVIOUS
    <2>1. CASE t = s
      <3>1. c.phase \in {"creating", "publishing"}
        BY <1>2, <1>3 DEF Phone!Call
      <3>2. c.phase = "publishing" => sold'[c.draft.key] = Phone!RequestOf(c).terms
        BY <1>1, <1>2, <1>3, <1>8, PhoneUnderWay DEF PhoneCall
      <3> QED  BY <1>3, <1>6, <1>8, <2>1, <3>1, <3>2 DEF PhoneCall
    <2>2. CASE t # s
      <3>1. calls'[t] = calls[t] /\ PhoneCall(calls[t]) /\ calls[t].draft.key \in Keys
            /\ Phone!RequestOf(calls[t]).terms # Phone!NoTerms
        BY <1>6, <2>2, PhoneUnderWay
      <3> QED  BY <1>8, <3>1 DEF PhoneCall
    <2> QED  BY <2>1, <2>2
  <1>10. \A k \in Keys : PhoneAsked(k)' => PhoneAsked(k)
    BY <1>1, <1>2, <1>3, <1>6, <1>7, <1>8 DEF PhoneAsked
  <1>11. \A k \in Keys : PhoneSafe(k) => PhoneSafe(k)'
    BY <1>7 DEF PhoneSafe
  <1>12. /\ calls' \in [Phone!Slot -> Phone!Call] /\ Phone!DeskTypeOK'
         /\ \A t \in Phone!Slot : calls'[t] # Phone!Idle =>
               calls[t] # Phone!Idle /\ calls'[t].draft = calls[t].draft
         /\ calls[("left")] = Phone!Idle => calls'[("left")] = Phone!Idle
    BY <1>1, <1>2, <1>6, <1>7, <1>8 DEF Phone!DeskTypeOK, Phone!Slot
  <1> QED  BY <1>7, <1>9, <1>10, <1>11, <1>12 DEF PhoneDraft, PhoneSafe, Phone!Slot

\* An answer goes on to publish, or reports the sale.
LEMMA PhoneAnswerKeeps ==
    ASSUME PhoneAssumption, PhoneInv, NEW s \in Phone!Slot,
              Phone!Created(s) \/ Phone!Published(s)
    PROVE  PhoneInv'
  <1> USE DEF PhoneInv, Phone!TypeOK
  <1>1. PICK c : c = calls[s]
    OBVIOUS
  <1>2. c # Phone!Idle /\ c.reply = "done"
    BY <1>1 DEF Phone!Created, Phone!Published, Phone!Answered
  <1>3. /\ c \in Phone!Call /\ c.draft \in Phone!Draft /\ c.draft.key \in Keys
        /\ PhoneCall(c)
        /\ PhoneAsked(c.draft.key)
        /\ PhoneStays => PhoneSafe(c.draft.key)
    BY <1>1, <1>2, PhoneUnderWay
  <1>4. UNCHANGED <<sold, published, late, connected, used>> /\ Phone!DeskTypeOK'
    BY DEF Phone!Created, Phone!Published, Phone!deskVars, Phone!DeskTypeOK
  <1>5. CASE Phone!Created(s) /\ c.draft.method = "cash"
    <2>1. PhoneStays => s = "screen"
      BY <1>1, <1>2, <1>3, <1>5 DEF PhoneStays, Phone!Slot, Phone!Draft
    <2>2. /\ stored' = NoDraft /\ reported' = reported \cup {c.draft.key}
          /\ draft' = NoDraft /\ screen' = "away"
          /\ effect' = FALSE /\ confirm' = FALSE
          /\ calls' = [calls EXCEPT !["screen"] = Phone!Idle,
                !["left"] = IF s = "left" THEN calls["screen"] ELSE calls["left"]]
      BY <1>1, <1>5 DEF Phone!Created, Phone!LeaveScreen
    <2>3. PhoneStays /\ stored # NoDraft => stored.key = c.draft.key
      BY <1>1, <1>2, <2>1
    <2>4. PhoneStays => \A k \in Keys : PhoneSafe(k) => PhoneSafe(k)'
      BY <2>2, <2>3 DEF PhoneSafe
    <2>6. /\ calls' \in [Phone!Slot -> Phone!Call] /\ calls'["screen"] = Phone!Idle
          /\ \A t \in Phone!Slot : calls'[t] # Phone!Idle =>
                \E u \in Phone!Slot : calls'[t] = calls[u] /\ calls[u] # Phone!Idle
      BY <2>2 DEF Phone!Call, Phone!Slot
    <2>5. \A k \in Keys : PhoneAsked(k)' => PhoneAsked(k)
      BY <1>4, <2>6 DEF PhoneAsked
    <2>7. \A t \in Phone!Slot : calls'[t] # Phone!Idle => PhoneCall(calls[t])'
      BY <1>4, <2>6 DEF PhoneCall
    <2>8. ~Background => calls'["left"] = Phone!Idle
      BY <1>1, <1>2, <2>2 DEF Phone!Slot
    <2> QED  BY <1>3, <1>4, <2>2, <2>4, <2>5, <2>6, <2>7, <2>8
  <1>6. CASE Phone!Created(s) /\ c.draft.method # "cash"
    <2>1. PICK e : e = [c EXCEPT !.phase = "publishing", !.reply = "none"]
      OBVIOUS
    <2>2. calls' = [calls EXCEPT ![s] = e]
          /\ UNCHANGED <<stored, reported, screen, draft, effect, confirm>>
      BY <1>1, <1>6, <2>1 DEF Phone!Created
    <2>3. /\ e \in Phone!Call /\ e # Phone!Idle /\ e.draft = c.draft
          /\ Phone!RequestOf(e).terms = Phone!RequestOf(c).terms
      BY <1>2, <1>3, <2>1 DEF Phone!Call, Phone!Idle, Phone!RequestOf, Phone!Reply
    <2>4. \A t \in Phone!Slot : calls'[t] # Phone!Idle => PhoneCall(calls[t])'
      BY <1>1, <1>2, <1>3, <1>4, <2>2, <2>3 DEF PhoneCall
    <2>5. \A k \in Keys : PhoneAsked(k)' => PhoneAsked(k)
      BY <1>3, <1>4, <2>2, <2>3 DEF PhoneAsked
    <2>6. \A k \in Keys : PhoneSafe(k) => PhoneSafe(k)'
      BY <2>2 DEF PhoneSafe
    <2>7. /\ calls' \in [Phone!Slot -> Phone!Call]
          /\ \A t \in Phone!Slot : calls'[t] # Phone!Idle =>
                calls[t] # Phone!Idle /\ calls'[t].draft = calls[t].draft
          /\ calls["left"] = Phone!Idle => calls'["left"] = Phone!Idle
      BY <1>1, <1>2, <2>2, <2>3 DEF Phone!Slot
    <2> QED  BY <1>4, <2>2, <2>4, <2>5, <2>6, <2>7 DEF PhoneDraft, PhoneSafe, Phone!Slot
  <1>7. CASE Phone!Published(s)
    <2>1. calls' = [calls EXCEPT ![s] = Phone!Idle] /\ UNCHANGED <<stored, screen>>
      BY <1>7 DEF Phone!Published
    <2>2. \A k \in Keys : PhoneAsked(k)' => PhoneAsked(k)
      BY <1>4, <2>1 DEF PhoneAsked
    <2>3. \A t \in Phone!Slot : calls'[t] # Phone!Idle =>
             calls'[t] = calls[t] /\ PhoneCall(calls[t])'
      BY <1>4, <2>1 DEF PhoneCall
    <2>4. calls' \in [Phone!Slot -> Phone!Call]
          /\ (calls["left"] = Phone!Idle => calls'["left"] = Phone!Idle)
      BY <2>1 DEF Phone!Call, Phone!Slot
    <2>5. CASE s = "screen"
      <3>1. PICK d : d = [draft EXCEPT !.step = "result", !.result = TRUE]
        OBVIOUS
      <3>2. /\ draft' = d /\ effect' = TRUE /\ confirm' = FALSE
            /\ reported' = reported \cup {draft.key}
            /\ draft \in Phone!Draft /\ draft # NoDraft /\ PhoneDraft(draft)
            /\ draft.step # "result"
            /\ screen = "open" /\ draft.key = c.draft.key
        BY <1>1, <1>2, <1>7, <2>5, <3>1 DEF Phone!Published, Phone!SetDraft
      <3>3. /\ draft.key \in Keys /\ draft.cart \in Carts \cup {NoCart}
            /\ draft.method \in Methods
            /\ d = [key |-> draft.key, step |-> "result", cart |-> draft.cart,
                    method |-> draft.method, result |-> TRUE]
        BY <3>1, <3>2 DEF Phone!Draft
      <3>4. d \in Phone!Draft /\ d.key = draft.key /\ d.step = "result"
        BY <3>3 DEF Phone!Draft, Phone!Step
      <3>5. d # NoDraft
        BY <3>4 DEF PhoneAssumption, Phone!ScreenAssumption
      <3>6. PhoneDraft(draft)' /\ (stored # NoDraft => PhoneDraft(stored)')
        BY <2>1, <3>2, <3>4, <3>5 DEF PhoneDraft
      <3>7. \A k \in Keys : PhoneSafe(k) => PhoneSafe(k)'
        BY <2>1, <3>2 DEF PhoneSafe
      <3>8. calls'["screen"] = Phone!Idle
        BY <2>1, <2>5 DEF Phone!Slot
      <3> QED  BY <1>4, <2>1, <2>2, <2>3, <2>4, <3>2, <3>3, <3>4, <3>5, <3>6, <3>7, <3>8
    <2>6. CASE s = "left"
      <3>1. UNCHANGED <<draft, effect, reported, confirm>>
        BY <1>7, <2>6 DEF Phone!Published
      <3> QED  BY <1>4, <2>1, <2>2, <2>3, <2>4, <2>6, <3>1
                  DEF PhoneDraft, PhoneSafe, Phone!Slot
    <2> QED  BY <2>5, <2>6 DEF Phone!Slot
  <1> QED  BY <1>1, <1>5, <1>6, <1>7

\* A failure leaves the draft stored, with its key.
LEMMA PhoneFailKeeps ==
    ASSUME PhoneAssumption, PhoneInv, NEW s \in Phone!Slot, Phone!Failed(s)
    PROVE  PhoneInv'
  <1> USE DEF PhoneInv, Phone!TypeOK
  <1>1. /\ calls' = [calls EXCEPT ![s] = Phone!Idle] /\ calls[s] # Phone!Idle
        /\ UNCHANGED <<sold, published, draft, stored, screen, effect, confirm,
              connected, used, reported>>
    BY DEF Phone!Failed
  <1>2. /\ late' \subseteq Phone!Request
        /\ \A r \in late' : r \in late \/ \E t \in Phone!Slot : calls[t] # Phone!Idle /\ r.key = calls[t].draft.key
    <2>1. CASE UNCHANGED late
      BY <2>1 DEF Phone!DeskTypeOK
    <2>2. CASE Phone!Abandon(IF Phone!Waiting(s) THEN {Phone!RequestOf(calls[s])} ELSE {})
      <3>1. (IF Phone!Waiting(s) THEN {Phone!RequestOf(calls[s])} ELSE {})
               = {Phone!RequestOf(calls[u]) : u \in {t \in {s} : Phone!Waiting(t)}}
        OBVIOUS
      <3>2. Phone!Abandon({Phone!RequestOf(calls[u]) : u \in {t \in {s} : Phone!Waiting(t)}})
        BY <2>2, <3>1, Zenon
      <3>3. {s} \in SUBSET Phone!Slot
        OBVIOUS
      <3> QED  BY <3>2, <3>3, PhoneAbandon
    <2> QED  BY <2>1, <2>2 DEF Phone!Failed
  <1>3. \A k \in Keys : PhoneAsked(k)' => PhoneAsked(k)
    BY <1>1, <1>2 DEF PhoneAsked
  <1>4. \A k \in Keys : PhoneSafe(k) => PhoneSafe(k)'
    BY <1>1 DEF PhoneSafe
  <1>5. \A t \in Phone!Slot : calls'[t] # Phone!Idle =>
           calls'[t] = calls[t] /\ PhoneCall(calls[t])'
    BY <1>1 DEF PhoneCall
  <1>6. /\ calls' \in [Phone!Slot -> Phone!Call]
        /\ (calls["left"] = Phone!Idle => calls'["left"] = Phone!Idle)
        /\ Phone!DeskTypeOK'
    BY <1>1, <1>2 DEF Phone!Call, Phone!Slot, Phone!DeskTypeOK
  <1> QED  BY <1>1, <1>3, <1>4, <1>5, <1>6 DEF PhoneDraft, PhoneSafe, Phone!Slot

\* A screen that goes leaves its draft stored, unless it was done.
LEMMA PhoneGoneKeeps ==
    ASSUME PhoneAssumption, PhoneInv, Phone!Leave \/ Phone!KillApp
    PROVE  PhoneInv'
  <1> USE DEF PhoneInv, Phone!TypeOK
  <1>1. /\ draft' = NoDraft /\ screen' = "away" /\ effect' = FALSE /\ confirm' = FALSE
        /\ UNCHANGED <<sold, published, connected, used, reported>>
    BY DEF Phone!Leave, Phone!KillApp, Phone!LeaveScreen, Phone!deskVars
  <1>2. /\ late' \subseteq Phone!Request
        /\ \A r \in late' : r \in late \/ \E t \in Phone!Slot : calls[t] # Phone!Idle /\ r.key = calls[t].draft.key
    <2>1. CASE Phone!Leave
      BY <2>1 DEF Phone!Leave, Phone!deskVars, Phone!DeskTypeOK
    <2>2. CASE Phone!KillApp
      BY <2>2, PhoneAbandon DEF Phone!KillApp
    <2> QED  BY <2>1, <2>2
  <1>3. /\ calls' \in [Phone!Slot -> Phone!Call] /\ calls'["screen"] = Phone!Idle
        /\ \A t \in Phone!Slot : calls'[t] # Phone!Idle =>
              \E u \in Phone!Slot : calls[u] # Phone!Idle /\ calls'[t] = calls[u]
        /\ ~Background => calls'["left"] = Phone!Idle
    BY DEF Phone!Leave, Phone!KillApp, Phone!Slot, Phone!Call
  <1>4. \A k \in Keys : PhoneAsked(k)' => PhoneAsked(k)
    BY <1>1, <1>2, <1>3 DEF PhoneAsked
  <1>5. \A t \in Phone!Slot : calls'[t] # Phone!Idle => PhoneCall(calls[t])'
    BY <1>1, <1>3 DEF PhoneCall
  <1>6. stored' = stored \/ (stored' = NoDraft /\ draft # NoDraft /\
           draft.key \in reported)
    <2>1. CASE Phone!Leave
      BY <2>1 DEF Phone!Leave, Phone!Ready, PhoneDraft
    <2>2. CASE Phone!KillApp
      BY <2>2 DEF Phone!KillApp
    <2> QED  BY <2>1, <2>2
  <1>7. \A k \in Keys : PhoneSafe(k) => PhoneSafe(k)'
    BY <1>1, <1>6 DEF PhoneSafe
  <1>8. Phone!DeskTypeOK' /\ (stored' # NoDraft => PhoneDraft(stored)')
    BY <1>1, <1>2, <1>6 DEF Phone!DeskTypeOK, PhoneDraft
  <1> QED  BY <1>1, <1>3, <1>4, <1>5, <1>6, <1>7, <1>8

\* A late request makes a sale that was asked for.
LEMMA PhoneLaterKeeps ==
    ASSUME PhoneAssumption, PhoneInv, Phone!ServeLater
    PROVE  PhoneInv'
  <1> USE DEF PhoneInv, Phone!TypeOK
  <1>1. PICK r \in late, reply \in Phone!Reply : Phone!Serve(r, reply)
        /\ late' = late \ {r}
    BY DEF Phone!ServeLater, Phone!ServeLate
  <1>2. /\ sold' \in [Keys -> Phone!Terms \cup {Phone!NoTerms}]
        /\ published' \subseteq Keys
        /\ \A k \in Keys : sold[k] # Phone!NoTerms => sold'[k] = sold[k]
        /\ \A k \in Keys : sold'[k] # sold[k] => k = r.key
    BY <1>1, PhoneServe DEF Phone!DeskTypeOK, PhoneAssumption
  <1>3. UNCHANGED <<draft, stored, screen, effect, confirm, connected, calls, used,
           reported>>
    BY DEF Phone!ServeLater, Phone!screenVars
  <1>4. Phone!DeskTypeOK'
    BY <1>1, <1>2 DEF Phone!DeskTypeOK
  <1>5. \A k \in Keys : PhoneAsked(k)' => PhoneAsked(k)
    BY <1>1, <1>2, <1>3 DEF PhoneAsked
  <1>6. \A t \in Phone!Slot : calls'[t] # Phone!Idle => PhoneCall(calls[t])'
    <2> SUFFICES ASSUME NEW t \in Phone!Slot,
           calls[t] # Phone!Idle PROVE PhoneCall(calls[t])'
      BY <1>3
    <2>1. PhoneCall(calls[t]) /\ calls[t].draft.key \in Keys
          /\ Phone!RequestOf(calls[t]).terms # Phone!NoTerms
      BY PhoneUnderWay
    <2> QED  BY <1>2, <1>3, <2>1 DEF PhoneCall, Phone!RequestOf
  <1> QED  BY <1>2, <1>3, <1>4, <1>5, <1>6 DEF PhoneDraft, PhoneSafe

\* Every step keeps the invariant.
LEMMA PhoneNext ==
    PhoneAssumption /\ PhoneInv /\ [Phone!Next]_(Phone!vars) => PhoneInv'
  <1> SUFFICES ASSUME PhoneAssumption, PhoneInv, [Phone!Next]_(Phone!vars)
               PROVE  PhoneInv'
    OBVIOUS
  <1>1. CASE PhoneEdit
    BY <1>1, PhoneEditKeeps
  <1>2. CASE Phone!Submit
    BY <1>2, PhoneSubmitKeeps
  <1>3. ASSUME NEW s \in Phone!Slot, PhoneCallStep(s)  PROVE PhoneInv'
    BY <1>3, PhoneServeKeeps, PhoneAnswerKeeps, PhoneFailKeeps DEF PhoneCallStep
  <1>4. CASE Phone!Leave \/ Phone!KillApp
    BY <1>4, PhoneGoneKeeps
  <1>5. CASE Phone!ServeLater
    BY <1>5, PhoneLaterKeeps
  <1>6. CASE UNCHANGED Phone!vars
    <2> USE <1>6 DEF Phone!vars, Phone!deskVars, Phone!screenVars
    <2>1. \A t \in Phone!Slot : calls'[t] # Phone!Idle => PhoneCall(calls[t])'
      BY DEF PhoneInv, PhoneCall
    <2>2. \A k \in Keys : PhoneAsked(k)' => PhoneAsked(k)
      BY DEF PhoneAsked
    <2>3. \A k \in Keys : PhoneSafe(k) => PhoneSafe(k)'
      BY DEF PhoneSafe
    <2> QED  BY <2>1, <2>2, <2>3 DEF PhoneInv, Phone!TypeOK, Phone!DeskTypeOK,
                PhoneDraft, PhoneSafe
  <1> QED  BY <1>1, <1>2, <1>3, <1>4, <1>5, <1>6 DEF Phone!Next, PhoneEdit,
              PhoneCallStep

\* An answer reports the sale with the terms its submission sent.
LEMMA PhoneSells ==
    ASSUME PhoneAssumption, PhoneInv, [Phone!Next]_(Phone!vars)
    PROVE  Phone!SellsAsReviewed
  <1> SUFFICES ASSUME NEW k \in reported' \ reported, NEW s \in Phone!Slot,
                      calls[s] # Phone!Idle,
                      calls[s] \notin {calls'[t] : t \in Phone!Slot}
               PROVE  sold[k] = Phone!RequestOf(calls[s]).terms
    BY DEF Phone!SellsAsReviewed
  <1>1. PICK t \in Phone!Slot : Phone!Created(t) \/ Phone!Published(t)
    <2>1. reported' # reported /\ calls' # calls
      OBVIOUS
    <2> QED  BY <2>1 DEF Phone!Next, Phone!vars, Phone!deskVars, Phone!screenVars,
                Phone!Enter, Phone!Hydrate, Phone!SaveEffect, Phone!LoadConnection,
                Phone!EditLines, Phone!ChooseMethod, Phone!GoNext, Phone!GoBack,
                Phone!AskCash, Phone!CloseCash, Phone!Reset, Phone!Submit,
                Phone!ServeCall, Phone!Failed, Phone!Leave, Phone!KillApp,
                Phone!ServeLater
  <1>2. /\ calls \in [Phone!Slot -> Phone!Call] /\ calls[t] # Phone!Idle
        /\ PhoneCall(calls[t])
        /\ calls[t].reply = "done"
    BY <1>1 DEF Phone!Created, Phone!Published, Phone!Answered, PhoneInv, Phone!TypeOK
  <1>3. t = s
    BY <1>1, <1>2 DEF Phone!Created, Phone!Published, Phone!Slot
  <1>4. k = calls[t].draft.key
    BY <1>1, <1>2 DEF Phone!Created, Phone!Published, PhoneInv, Phone!Slot
  <1> QED  BY <1>2, <1>3, <1>4 DEF PhoneCall

\* The sale that the wizard of the phone shows as done is the one that was
\* reviewed, even when its screen was left before the answer.
THEOREM PhoneSellsWhatWasReviewed ==
    ASSUME PhoneAssumption
    PROVE  Phone!Spec => [][Phone!SellsAsReviewed]_(Phone!vars)
  <1>1. PhoneInv /\ [Phone!Next]_(Phone!vars) => Phone!SellsAsReviewed
    BY PhoneSells
  <1> QED  BY <1>1, PhoneInit, PhoneNext, PTL DEF Phone!Spec

\* No sale of the phone is left behind the back of a seller who does not leave
\* the wizard while a sale in cash is being made.
THEOREM PhoneSalesAreKept ==
    ASSUME PhoneAssumption, PhoneStays
    PROVE  Phone!Spec => []Phone!NoOrphanSale
  <1>1. PhoneInv => Phone!NoOrphanSale
    BY DEF PhoneInv, PhoneSafe, PhoneAsked, Phone!NoOrphanSale
  <1> QED  BY <1>1, PhoneInit, PhoneNext, PTL DEF Phone!Spec

\* The wizard of the phone keeps its types.
THEOREM PhoneIsTyped ==
    ASSUME PhoneAssumption
    PROVE  Phone!Spec => []Phone!TypeOK
  <1>1. PhoneInv => Phone!TypeOK
    BY DEF PhoneInv
  <1> QED  BY <1>1, PhoneInit, PhoneNext, PTL DEF Phone!Spec
===============================================================================
