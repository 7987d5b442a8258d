--------------------------- MODULE MCSales_proofs ---------------------------
(***************************************************************************)
(* Proofs that the screens with which a seller sells, behind one router,   *)
(* have their properties: the wizards of a new sale and the lines that     *)
(* they draft, the quick sale, the page of a sale and the data of its      *)
(* buyer.  A screen keeps what is proved of it for every value of its      *)
(* constants: those of MCSales are one such value, its variables are those *)
(* of the router while it is mounted, and the router never mounts another. *)
(***************************************************************************)
EXTENDS MCSales, TLAPS

\* What the screens of an instance do not have.
Clients == None

Available == None

MaxOpenings == None

MaxKeys == None

Methods == None

Texts == None

Kinds == None

MaxIntents == None

MaxMoves == None

Names == None

Phones == None

Addresses == None

Taxes == None

MaxWrites == None

Keys == None

Carts == None

MaxLate == None

NoDraft == None

Background == None

client == None

key == None

call == None

calls == None

bank == None

viewed == None

connected == None

free == None

sales == None

published == None

mailed == None

opening == None

opened == None

keys == None

form == None

confirmCash == None

result == None

mail == None

filed == None

method == None

sale == None

answers == None

detail == None

fetching == None

dialog == None

intents == None

late == None

moves == None

shown == None

emailed == None

shipped == None

row == None

seen == None

editing == None

draft == None

writes == None

sold == None

stored == None

page == None

screen == None

effect == None

confirm == None

used == None

reported == None

----------------------------------------------------------------------------
(* Screens with the constants of WebWizardP.                               *)

WebWizardP == INSTANCE SaleScreens_proofs WITH Methods <- {"bank_transfer", "cash"},
    Keys <- {"k1"}, Carts <- {"c1"}, MaxLate <- 1, NoDraft <- None,
    Background <- TRUE, calls <- s10, connected <- s9, published <- s2, late <- s3,
    draft <- s4, sold <- s1, stored <- s5, page <- s6, effect <- s7, confirm <- s8,
    used <- s11, reported <- s12

\* Both instances of the library count alike.
LEMMA WebWizardCount ==
    \A S : WebWizard!Cardinality(S) = WebWizardP!Web!Cardinality(S)
  BY Zenon DEF WebWizard!Cardinality, WebWizardP!Web!Cardinality

\* Both call the same sets finite.
LEMMA WebWizardFinite ==
    \A S : WebWizard!IsFiniteSet(S) <=> WebWizardP!Web!IsFiniteSet(S)
  BY Zenon DEF WebWizard!IsFiniteSet, WebWizardP!Web!IsFiniteSet

\* Both give up the same requests.
LEMMA WebWizardAbandon ==
    \A requests : WebWizard!Abandon(requests) <=> WebWizardP!Web!Abandon(requests)
  BY WebWizardCount DEF WebWizard!Abandon, WebWizardP!Web!Abandon

\* Both wait for the same requests.
LEMMA WebWizardUnserved ==
    \A slots : WebWizard!Unserved(slots) = WebWizardP!Web!Unserved(slots)
  BY DEF WebWizard!Idle, WebWizard!RequestOf, WebWizard!Waiting, WebWizard!Unserved,
     WebWizardP!Web!Idle, WebWizardP!Web!RequestOf, WebWizardP!Web!Waiting,
     WebWizardP!Web!Unserved

\* A sale that was made does the same in both.
LEMMA WebWizardCreated ==
    \A s : WebWizard!Created(s) <=> WebWizardP!Web!Created(s)
  BY DEF WebWizard!deskVars, WebWizard!Idle, WebWizard!CashDone, WebWizard!Answered,
     WebWizard!ShowDraft, WebWizard!Created, WebWizardP!Web!deskVars, WebWizardP!Web!Idle,
     WebWizardP!Web!CashDone, WebWizardP!Web!Answered, WebWizardP!Web!ShowDraft,
     WebWizardP!Web!Created

\* A tab that is closed does the same in both.
LEMMA WebWizardCloseTab ==
    WebWizard!CloseTab <=> WebWizardP!Web!CloseTab
  BY WebWizardAbandon, WebWizardUnserved DEF WebWizard!Slot, WebWizard!Idle,
     WebWizard!RequestOf, WebWizard!Waiting, WebWizard!CloseTab, WebWizardP!Web!Slot,
     WebWizardP!Web!Idle, WebWizardP!Web!RequestOf, WebWizardP!Web!Waiting,
     WebWizardP!Web!CloseTab

\* A submission does the same in both.
LEMMA WebWizardSubmit ==
    WebWizard!Submit <=> WebWizardP!Web!Submit
  BY DEF WebWizard!deskVars, WebWizard!Idle, WebWizard!Selected, WebWizard!Valid,
     WebWizard!Ready, WebWizard!SubmitEnabled, WebWizard!CashDone, WebWizard!Submit,
     WebWizardP!Web!deskVars, WebWizardP!Web!Idle, WebWizardP!Web!Selected,
     WebWizardP!Web!Valid, WebWizardP!Web!Ready, WebWizardP!Web!SubmitEnabled,
     WebWizardP!Web!CashDone, WebWizardP!Web!Submit

\* WebWizard is what is proved about, with its constants.
LEMMA WebWizardSame ==
    /\ WebWizard!DeskAssumption <=> WebWizardP!Web!DeskAssumption
    /\ WebWizard!WizardAssumption <=> WebWizardP!Web!WizardAssumption
    /\ WebWizard!Init <=> WebWizardP!Web!Init
    /\ WebWizard!Next <=> WebWizardP!Web!Next
    /\ WebWizard!DraftTellsTruth <=> WebWizardP!Web!DraftTellsTruth
  BY WebWizardFinite, WebWizardAbandon, WebWizardUnserved, WebWizardCreated,
         WebWizardCloseTab, WebWizardSubmit DEF
     WebWizard!PaymentMethod, WebWizard!DeskAssumption, WebWizard!deskVars,
     WebWizard!NoTerms, WebWizard!Reply, WebWizard!DeskInit, WebWizard!Replies,
     WebWizard!Serve, WebWizard!ServeLate, WebWizard!pageVars, WebWizard!Draft,
     WebWizard!WizardAssumption, WebWizard!Slot, WebWizard!Idle, WebWizard!Init,
     WebWizard!EmptyDraft, WebWizard!FreshKey, WebWizard!Completed, WebWizard!Selected,
     WebWizard!Valid, WebWizard!ReplaceDraft, WebWizard!Enter, WebWizard!SaveEffect,
     WebWizard!LoadConnection, WebWizard!Ready, WebWizard!EditLines,
     WebWizard!ChooseMethod, WebWizard!GoToStep, WebWizard!SubmitEnabled,
     WebWizard!AskCash, WebWizard!CloseCash, WebWizard!CashDone, WebWizard!RequestOf,
     WebWizard!Waiting, WebWizard!ServeCall, WebWizard!Answered, WebWizard!ShowDraft,
     WebWizard!Published, WebWizard!Failed, WebWizard!LoseAnswer, WebWizard!Reset,
     WebWizard!LeaveToSales, WebWizard!Unmount, WebWizard!ServeLater, WebWizard!Next,
     WebWizard!DraftTellsTruth, WebWizardP!Web!PaymentMethod,
     WebWizardP!Web!DeskAssumption, WebWizardP!Web!deskVars, WebWizardP!Web!NoTerms,
     WebWizardP!Web!Reply, WebWizardP!Web!DeskInit, WebWizardP!Web!Replies,
     WebWizardP!Web!Serve, WebWizardP!Web!ServeLate, WebWizardP!Web!pageVars,
     WebWizardP!Web!Draft, WebWizardP!Web!WizardAssumption, WebWizardP!Web!Slot,
     WebWizardP!Web!Idle, WebWizardP!Web!Init, WebWizardP!Web!EmptyDraft,
     WebWizardP!Web!FreshKey, WebWizardP!Web!Completed, WebWizardP!Web!Selected,
     WebWizardP!Web!Valid, WebWizardP!Web!ReplaceDraft, WebWizardP!Web!Enter,
     WebWizardP!Web!SaveEffect, WebWizardP!Web!LoadConnection, WebWizardP!Web!Ready,
     WebWizardP!Web!EditLines, WebWizardP!Web!ChooseMethod, WebWizardP!Web!GoToStep,
     WebWizardP!Web!SubmitEnabled, WebWizardP!Web!AskCash, WebWizardP!Web!CloseCash,
     WebWizardP!Web!CashDone, WebWizardP!Web!RequestOf, WebWizardP!Web!Waiting,
     WebWizardP!Web!ServeCall, WebWizardP!Web!Answered, WebWizardP!Web!ShowDraft,
     WebWizardP!Web!Published, WebWizardP!Web!Failed, WebWizardP!Web!LoseAnswer,
     WebWizardP!Web!Reset, WebWizardP!Web!LeaveToSales, WebWizardP!Web!Unmount,
     WebWizardP!Web!ServeLater, WebWizardP!Web!Next, WebWizardP!Web!DraftTellsTruth

\* While WebWizard is mounted, the steps are its steps, and it stays.
LEMMA WebWizardMounted ==
    /\ Init /\ mounted = "WebWizard" => WebWizardP!Web!Init
    /\ [Next]_vars /\ mounted = "WebWizard" => [WebWizardP!Web!Next]_(WebWizardP!Web!vars)
    /\ [Next]_vars => ((mounted = "WebWizard")' <=> mounted = "WebWizard")
    /\ WebWizardP!Web!DraftTellsTruth => WebWizard!DraftTellsTruth
  BY WebWizardSame DEF Init, Next, vars, WebWizardP!Web!vars, WebWizardP!Web!deskVars,
         WebWizardP!Web!pageVars

\* The wizard of the web, whose submissions go on after it.
LEMMA WebWizardHolds ==
    Spec => [](mounted = "WebWizard" => WebWizard!DraftTellsTruth)
  <1>1. WebWizardP!Web!Spec => [](WebWizardP!Web!DraftTellsTruth)
    BY SalesAssumption, WebWizardSame, WebWizardP!DraftsTellTruth DEF SalesAssumption
  <1> QED  BY <1>1, WebWizardMounted, PTL DEF Spec, WebWizardP!Web!Spec

\* Its state keeps its types.
LEMMA WebWizardTyped ==
    Spec => [](mounted = "WebWizard" => WebWizard!TypeOK)
  <1>1. WebWizardP!Web!Spec => []WebWizardP!Web!TypeOK
    BY SalesAssumption, WebWizardSame, WebWizardP!WebIsTyped DEF SalesAssumption
  <1>2. WebWizardP!Web!TypeOK => WebWizard!TypeOK
    BY DEF WebWizard!Terms, WebWizard!NoTerms, WebWizard!Request, WebWizard!Reply,
       WebWizard!DeskTypeOK, WebWizard!Draft, WebWizard!Slot, WebWizard!Idle,
       WebWizard!Call, WebWizard!TypeOK, WebWizardP!Web!Terms, WebWizardP!Web!NoTerms,
       WebWizardP!Web!Request, WebWizardP!Web!Reply, WebWizardP!Web!DeskTypeOK,
       WebWizardP!Web!Draft, WebWizardP!Web!Slot, WebWizardP!Web!Idle,
       WebWizardP!Web!Call, WebWizardP!Web!TypeOK
  <1> QED  BY <1>1, <1>2, WebWizardMounted, PTL DEF Spec, WebWizardP!Web!Spec

----------------------------------------------------------------------------
(* Screens with the constants of KeptWizardP.                              *)

KeptWizardP == INSTANCE SaleScreens_proofs WITH
    Methods <- {"bank_transfer", "mercado_pago"}, Keys <- {"k1", "k2"},
    Carts <- {"c1"}, MaxLate <- 1, NoDraft <- None, Background <- FALSE,
    calls <- s10, connected <- s9, published <- s2, late <- s3, draft <- s4,
    sold <- s1, stored <- s5, page <- s6, effect <- s7, confirm <- s8, used <- s11,
    reported <- s12

\* Both instances of the library count alike.
LEMMA KeptWizardCount ==
    \A S : KeptWizard!Cardinality(S) = KeptWizardP!Web!Cardinality(S)
  BY Zenon DEF KeptWizard!Cardinality, KeptWizardP!Web!Cardinality

\* Both call the same sets finite.
LEMMA KeptWizardFinite ==
    \A S : KeptWizard!IsFiniteSet(S) <=> KeptWizardP!Web!IsFiniteSet(S)
  BY Zenon DEF KeptWizard!IsFiniteSet, KeptWizardP!Web!IsFiniteSet

\* Both give up the same requests.
LEMMA KeptWizardAbandon ==
    \A requests : KeptWizard!Abandon(requests) <=> KeptWizardP!Web!Abandon(requests)
  BY KeptWizardCount DEF KeptWizard!Abandon, KeptWizardP!Web!Abandon

\* Both wait for the same requests.
LEMMA KeptWizardUnserved ==
    \A slots : KeptWizard!Unserved(slots) = KeptWizardP!Web!Unserved(slots)
  BY DEF KeptWizard!Idle, KeptWizard!RequestOf, KeptWizard!Waiting, KeptWizard!Unserved,
     KeptWizardP!Web!Idle, KeptWizardP!Web!RequestOf, KeptWizardP!Web!Waiting,
     KeptWizardP!Web!Unserved

\* A sale that was made does the same in both.
LEMMA KeptWizardCreated ==
    \A s : KeptWizard!Created(s) <=> KeptWizardP!Web!Created(s)
  BY DEF KeptWizard!deskVars, KeptWizard!Idle, KeptWizard!CashDone, KeptWizard!Answered,
     KeptWizard!ShowDraft, KeptWizard!Created, KeptWizardP!Web!deskVars,
     KeptWizardP!Web!Idle, KeptWizardP!Web!CashDone, KeptWizardP!Web!Answered,
     KeptWizardP!Web!ShowDraft, KeptWizardP!Web!Created

\* A tab that is closed does the same in both.
LEMMA KeptWizardCloseTab ==
    KeptWizard!CloseTab <=> KeptWizardP!Web!CloseTab
  BY KeptWizardAbandon, KeptWizardUnserved DEF KeptWizard!Slot, KeptWizard!Idle,
     KeptWizard!RequestOf, KeptWizard!Waiting, KeptWizard!CloseTab, KeptWizardP!Web!Slot,
     KeptWizardP!Web!Idle, KeptWizardP!Web!RequestOf, KeptWizardP!Web!Waiting,
     KeptWizardP!Web!CloseTab

\* A submission does the same in both.
LEMMA KeptWizardSubmit ==
    KeptWizard!Submit <=> KeptWizardP!Web!Submit
  BY DEF KeptWizard!deskVars, KeptWizard!Idle, KeptWizard!Selected, KeptWizard!Valid,
     KeptWizard!Ready, KeptWizard!SubmitEnabled, KeptWizard!CashDone, KeptWizard!Submit,
     KeptWizardP!Web!deskVars, KeptWizardP!Web!Idle, KeptWizardP!Web!Selected,
     KeptWizardP!Web!Valid, KeptWizardP!Web!Ready, KeptWizardP!Web!SubmitEnabled,
     KeptWizardP!Web!CashDone, KeptWizardP!Web!Submit

\* KeptWizard is what is proved about, with its constants.
LEMMA KeptWizardSame ==
    /\ KeptWizard!DeskAssumption <=> KeptWizardP!Web!DeskAssumption
    /\ KeptWizard!WizardAssumption <=> KeptWizardP!Web!WizardAssumption
    /\ KeptWizard!Init <=> KeptWizardP!Web!Init
    /\ KeptWizard!Next <=> KeptWizardP!Web!Next
    /\ KeptWizard!NoOrphanSale <=> KeptWizardP!Web!NoOrphanSale
  BY KeptWizardFinite, KeptWizardAbandon, KeptWizardUnserved, KeptWizardCreated,
         KeptWizardCloseTab, KeptWizardSubmit DEF
     KeptWizard!PaymentMethod, KeptWizard!DeskAssumption, KeptWizard!deskVars,
     KeptWizard!NoTerms, KeptWizard!Reply, KeptWizard!DeskInit, KeptWizard!Replies,
     KeptWizard!Serve, KeptWizard!ServeLate, KeptWizard!pageVars, KeptWizard!Draft,
     KeptWizard!WizardAssumption, KeptWizard!Slot, KeptWizard!Idle, KeptWizard!Init,
     KeptWizard!EmptyDraft, KeptWizard!FreshKey, KeptWizard!Completed,
     KeptWizard!Selected, KeptWizard!Valid, KeptWizard!ReplaceDraft, KeptWizard!Enter,
     KeptWizard!SaveEffect, KeptWizard!LoadConnection, KeptWizard!Ready,
     KeptWizard!EditLines, KeptWizard!ChooseMethod, KeptWizard!GoToStep,
     KeptWizard!SubmitEnabled, KeptWizard!AskCash, KeptWizard!CloseCash,
     KeptWizard!CashDone, KeptWizard!RequestOf, KeptWizard!Waiting, KeptWizard!ServeCall,
     KeptWizard!Answered, KeptWizard!ShowDraft, KeptWizard!Published, KeptWizard!Failed,
     KeptWizard!LoseAnswer, KeptWizard!Reset, KeptWizard!LeaveToSales, KeptWizard!Unmount,
     KeptWizard!ServeLater, KeptWizard!Next, KeptWizard!Known, KeptWizard!NoOrphanSale,
     KeptWizardP!Web!PaymentMethod, KeptWizardP!Web!DeskAssumption,
     KeptWizardP!Web!deskVars, KeptWizardP!Web!NoTerms, KeptWizardP!Web!Reply,
     KeptWizardP!Web!DeskInit, KeptWizardP!Web!Replies, KeptWizardP!Web!Serve,
     KeptWizardP!Web!ServeLate, KeptWizardP!Web!pageVars, KeptWizardP!Web!Draft,
     KeptWizardP!Web!WizardAssumption, KeptWizardP!Web!Slot, KeptWizardP!Web!Idle,
     KeptWizardP!Web!Init, KeptWizardP!Web!EmptyDraft, KeptWizardP!Web!FreshKey,
     KeptWizardP!Web!Completed, KeptWizardP!Web!Selected, KeptWizardP!Web!Valid,
     KeptWizardP!Web!ReplaceDraft, KeptWizardP!Web!Enter, KeptWizardP!Web!SaveEffect,
     KeptWizardP!Web!LoadConnection, KeptWizardP!Web!Ready, KeptWizardP!Web!EditLines,
     KeptWizardP!Web!ChooseMethod, KeptWizardP!Web!GoToStep,
     KeptWizardP!Web!SubmitEnabled, KeptWizardP!Web!AskCash, KeptWizardP!Web!CloseCash,
     KeptWizardP!Web!CashDone, KeptWizardP!Web!RequestOf, KeptWizardP!Web!Waiting,
     KeptWizardP!Web!ServeCall, KeptWizardP!Web!Answered, KeptWizardP!Web!ShowDraft,
     KeptWizardP!Web!Published, KeptWizardP!Web!Failed, KeptWizardP!Web!LoseAnswer,
     KeptWizardP!Web!Reset, KeptWizardP!Web!LeaveToSales, KeptWizardP!Web!Unmount,
     KeptWizardP!Web!ServeLater, KeptWizardP!Web!Next, KeptWizardP!Web!Known,
     KeptWizardP!Web!NoOrphanSale

\* While KeptWizard is mounted, the steps are its steps, and it stays.
LEMMA KeptWizardMounted ==
    /\ Init /\ mounted = "KeptWizard" => KeptWizardP!Web!Init
    /\ [Next]_vars /\ mounted = "KeptWizard" => [KeptWizardP!Web!Next]_(KeptWizardP!Web!vars)
    /\ [Next]_vars => ((mounted = "KeptWizard")' <=> mounted = "KeptWizard")
    /\ KeptWizardP!Web!NoOrphanSale => KeptWizard!NoOrphanSale
  BY KeptWizardSame DEF Init, Next, vars, KeptWizardP!Web!vars, KeptWizardP!Web!deskVars,
         KeptWizardP!Web!pageVars

\* The wizard of the web, whose seller waits for the answer.
LEMMA KeptWizardHolds ==
    Spec => [](mounted = "KeptWizard" => KeptWizard!NoOrphanSale)
  <1>1. KeptWizardP!Web!Spec => [](KeptWizardP!Web!NoOrphanSale)
    BY SalesAssumption, KeptWizardSame, KeptWizardP!NoSaleIsLost DEF SalesAssumption
  <1> QED  BY <1>1, KeptWizardMounted, PTL DEF Spec, KeptWizardP!Web!Spec

\* Its state keeps its types.
LEMMA KeptWizardTyped ==
    Spec => [](mounted = "KeptWizard" => KeptWizard!TypeOK)
  <1>1. KeptWizardP!Web!Spec => []KeptWizardP!Web!TypeOK
    BY SalesAssumption, KeptWizardSame, KeptWizardP!WebIsTyped DEF SalesAssumption
  <1>2. KeptWizardP!Web!TypeOK => KeptWizard!TypeOK
    BY DEF KeptWizard!Terms, KeptWizard!NoTerms, KeptWizard!Request, KeptWizard!Reply,
       KeptWizard!DeskTypeOK, KeptWizard!Draft, KeptWizard!Slot, KeptWizard!Idle,
       KeptWizard!Call, KeptWizard!TypeOK, KeptWizardP!Web!Terms, KeptWizardP!Web!NoTerms,
       KeptWizardP!Web!Request, KeptWizardP!Web!Reply, KeptWizardP!Web!DeskTypeOK,
       KeptWizardP!Web!Draft, KeptWizardP!Web!Slot, KeptWizardP!Web!Idle,
       KeptWizardP!Web!Call, KeptWizardP!Web!TypeOK
  <1> QED  BY <1>1, <1>2, KeptWizardMounted, PTL DEF Spec, KeptWizardP!Web!Spec

----------------------------------------------------------------------------
(* Screens with the constants of PhoneWizardP.                             *)

PhoneWizardP == INSTANCE SaleScreens_proofs WITH
    Methods <- {"bank_transfer", "mercado_pago"}, Keys <- {"k1", "k2"},
    Carts <- {"c1"}, MaxLate <- 1, NoDraft <- None, Background <- FALSE,
    calls <- s10, connected <- s9, published <- s2, late <- s3, draft <- s4,
    sold <- s1, stored <- s5, screen <- s6, effect <- s7, confirm <- s8,
    used <- s11, reported <- s12

\* Both instances of the library count alike.
LEMMA PhoneWizardCount ==
    \A S : PhoneWizard!Cardinality(S) = PhoneWizardP!Phone!Cardinality(S)
  BY Zenon DEF PhoneWizard!Cardinality, PhoneWizardP!Phone!Cardinality

\* Both call the same sets finite.
LEMMA PhoneWizardFinite ==
    \A S : PhoneWizard!IsFiniteSet(S) <=> PhoneWizardP!Phone!IsFiniteSet(S)
  BY Zenon DEF PhoneWizard!IsFiniteSet, PhoneWizardP!Phone!IsFiniteSet

\* Both give up the same requests.
LEMMA PhoneWizardAbandon ==
    \A requests : PhoneWizard!Abandon(requests) <=> PhoneWizardP!Phone!Abandon(requests)
  BY PhoneWizardCount DEF PhoneWizard!Abandon, PhoneWizardP!Phone!Abandon

\* A sale that was made does the same in both.
LEMMA PhoneWizardCreated ==
    \A s : PhoneWizard!Created(s) <=> PhoneWizardP!Phone!Created(s)
  BY DEF PhoneWizard!deskVars, PhoneWizard!Idle, PhoneWizard!Answered,
     PhoneWizard!LeaveScreen, PhoneWizard!Created, PhoneWizardP!Phone!deskVars,
     PhoneWizardP!Phone!Idle, PhoneWizardP!Phone!Answered, PhoneWizardP!Phone!LeaveScreen,
     PhoneWizardP!Phone!Created

\* An application that ends does the same in both.
LEMMA PhoneWizardKillApp ==
    PhoneWizard!KillApp <=> PhoneWizardP!Phone!KillApp
  BY PhoneWizardAbandon DEF PhoneWizard!Slot, PhoneWizard!Idle, PhoneWizard!RequestOf,
     PhoneWizard!Waiting, PhoneWizard!LeaveScreen, PhoneWizard!KillApp,
     PhoneWizardP!Phone!Slot, PhoneWizardP!Phone!Idle, PhoneWizardP!Phone!RequestOf,
     PhoneWizardP!Phone!Waiting, PhoneWizardP!Phone!LeaveScreen,
     PhoneWizardP!Phone!KillApp

\* A submission does the same in both.
LEMMA PhoneWizardSubmit ==
    PhoneWizard!Submit <=> PhoneWizardP!Phone!Submit
  BY DEF PhoneWizard!deskVars, PhoneWizard!Idle, PhoneWizard!Ready,
     PhoneWizard!SubmitEnabled, PhoneWizard!Submit, PhoneWizardP!Phone!deskVars,
     PhoneWizardP!Phone!Idle, PhoneWizardP!Phone!Ready, PhoneWizardP!Phone!SubmitEnabled,
     PhoneWizardP!Phone!Submit

\* PhoneWizard is what is proved about, with its constants.
LEMMA PhoneWizardSame ==
    /\ PhoneWizard!DeskAssumption <=> PhoneWizardP!Phone!DeskAssumption
    /\ PhoneWizard!ScreenAssumption <=> PhoneWizardP!Phone!ScreenAssumption
    /\ PhoneWizard!Init <=> PhoneWizardP!Phone!Init
    /\ PhoneWizard!Next <=> PhoneWizardP!Phone!Next
    /\ PhoneWizard!NoOrphanSale <=> PhoneWizardP!Phone!NoOrphanSale
  BY PhoneWizardFinite, PhoneWizardAbandon, PhoneWizardCreated, PhoneWizardKillApp,
         PhoneWizardSubmit DEF
     PhoneWizard!PaymentMethod, PhoneWizard!DeskAssumption, PhoneWizard!deskVars,
     PhoneWizard!NoTerms, PhoneWizard!Reply, PhoneWizard!DeskInit, PhoneWizard!Replies,
     PhoneWizard!Serve, PhoneWizard!ServeLate, PhoneWizard!screenVars, PhoneWizard!Step,
     PhoneWizard!Draft, PhoneWizard!ScreenAssumption, PhoneWizard!Slot, PhoneWizard!Idle,
     PhoneWizard!Init, PhoneWizard!EmptyDraft, PhoneWizard!FreshKey,
     PhoneWizard!Completed, PhoneWizard!Valid, PhoneWizard!SetDraft, PhoneWizard!Enter,
     PhoneWizard!Hydrate, PhoneWizard!SaveEffect, PhoneWizard!LoadConnection,
     PhoneWizard!Ready, PhoneWizard!EditLines, PhoneWizard!ChooseMethod,
     PhoneWizard!GoNext, PhoneWizard!GoBack, PhoneWizard!SubmitEnabled,
     PhoneWizard!AskCash, PhoneWizard!CloseCash, PhoneWizard!RequestOf,
     PhoneWizard!Waiting, PhoneWizard!ServeCall, PhoneWizard!Answered,
     PhoneWizard!LeaveScreen, PhoneWizard!Published, PhoneWizard!Failed,
     PhoneWizard!Reset, PhoneWizard!Leave, PhoneWizard!ServeLater, PhoneWizard!Next,
     PhoneWizard!NoOrphanSale, PhoneWizardP!Phone!PaymentMethod,
     PhoneWizardP!Phone!DeskAssumption, PhoneWizardP!Phone!deskVars,
     PhoneWizardP!Phone!NoTerms, PhoneWizardP!Phone!Reply, PhoneWizardP!Phone!DeskInit,
     PhoneWizardP!Phone!Replies, PhoneWizardP!Phone!Serve, PhoneWizardP!Phone!ServeLate,
     PhoneWizardP!Phone!screenVars, PhoneWizardP!Phone!Step, PhoneWizardP!Phone!Draft,
     PhoneWizardP!Phone!ScreenAssumption, PhoneWizardP!Phone!Slot,
     PhoneWizardP!Phone!Idle, PhoneWizardP!Phone!Init, PhoneWizardP!Phone!EmptyDraft,
     PhoneWizardP!Phone!FreshKey, PhoneWizardP!Phone!Completed, PhoneWizardP!Phone!Valid,
     PhoneWizardP!Phone!SetDraft, PhoneWizardP!Phone!Enter, PhoneWizardP!Phone!Hydrate,
     PhoneWizardP!Phone!SaveEffect, PhoneWizardP!Phone!LoadConnection,
     PhoneWizardP!Phone!Ready, PhoneWizardP!Phone!EditLines,
     PhoneWizardP!Phone!ChooseMethod, PhoneWizardP!Phone!GoNext,
     PhoneWizardP!Phone!GoBack, PhoneWizardP!Phone!SubmitEnabled,
     PhoneWizardP!Phone!AskCash, PhoneWizardP!Phone!CloseCash,
     PhoneWizardP!Phone!RequestOf, PhoneWizardP!Phone!Waiting,
     PhoneWizardP!Phone!ServeCall, PhoneWizardP!Phone!Answered,
     PhoneWizardP!Phone!LeaveScreen, PhoneWizardP!Phone!Published,
     PhoneWizardP!Phone!Failed, PhoneWizardP!Phone!Reset, PhoneWizardP!Phone!Leave,
     PhoneWizardP!Phone!ServeLater, PhoneWizardP!Phone!Next,
     PhoneWizardP!Phone!NoOrphanSale

\* While PhoneWizard is mounted, the steps are its steps, and it stays.
LEMMA PhoneWizardMounted ==
    /\ Init /\ mounted = "PhoneWizard" => PhoneWizardP!Phone!Init
    /\ [Next]_vars /\ mounted = "PhoneWizard" =>
           [PhoneWizardP!Phone!Next]_(PhoneWizardP!Phone!vars)
    /\ [Next]_vars => ((mounted = "PhoneWizard")' <=> mounted = "PhoneWizard")
    /\ PhoneWizardP!Phone!NoOrphanSale => PhoneWizard!NoOrphanSale
  BY PhoneWizardSame DEF Init, Next, vars, PhoneWizardP!Phone!vars,
         PhoneWizardP!Phone!deskVars, PhoneWizardP!Phone!screenVars

\* The wizard of the phone.
LEMMA PhoneWizardHolds ==
    Spec => [](mounted = "PhoneWizard" => PhoneWizard!NoOrphanSale)
  <1>1. PhoneWizardP!Phone!Spec => [](PhoneWizardP!Phone!NoOrphanSale)
    BY SalesAssumption, PhoneWizardSame,
           PhoneWizardP!PhoneSalesAreKept DEF SalesAssumption,
                  PhoneWizardP!PhoneAssumption, PhoneWizardP!PhoneStays
  <1> QED  BY <1>1, PhoneWizardMounted, PTL DEF Spec, PhoneWizardP!Phone!Spec

\* Its state keeps its types.
LEMMA PhoneWizardTyped ==
    Spec => [](mounted = "PhoneWizard" => PhoneWizard!TypeOK)
  <1>1. PhoneWizardP!Phone!Spec => []PhoneWizardP!Phone!TypeOK
    BY SalesAssumption, PhoneWizardSame, PhoneWizardP!PhoneIsTyped DEF SalesAssumption,
           PhoneWizardP!PhoneAssumption, PhoneWizardP!PhoneStays
  <1>2. PhoneWizardP!Phone!TypeOK => PhoneWizard!TypeOK
    BY DEF PhoneWizard!Terms, PhoneWizard!NoTerms, PhoneWizard!Request, PhoneWizard!Reply,
       PhoneWizard!DeskTypeOK, PhoneWizard!Step, PhoneWizard!Draft, PhoneWizard!Slot,
       PhoneWizard!Idle, PhoneWizard!Call, PhoneWizard!TypeOK, PhoneWizardP!Phone!Terms,
       PhoneWizardP!Phone!NoTerms, PhoneWizardP!Phone!Request, PhoneWizardP!Phone!Reply,
       PhoneWizardP!Phone!DeskTypeOK, PhoneWizardP!Phone!Step, PhoneWizardP!Phone!Draft,
       PhoneWizardP!Phone!Slot, PhoneWizardP!Phone!Idle, PhoneWizardP!Phone!Call,
       PhoneWizardP!Phone!TypeOK
  <1> QED  BY <1>1, <1>2, PhoneWizardMounted, PTL DEF Spec, PhoneWizardP!Phone!Spec

----------------------------------------------------------------------------
(* Screens with the constants of LeftWizardP.                              *)

LeftWizardP == INSTANCE SaleScreens_proofs WITH
    Methods <- {"bank_transfer", "mercado_pago"}, Keys <- {"k1"}, Carts <- {"c1"},
    MaxLate <- 1, NoDraft <- None, Background <- TRUE, calls <- s10,
    connected <- s9, published <- s2, late <- s3, draft <- s4, sold <- s1,
    stored <- s5, screen <- s6, effect <- s7, confirm <- s8, used <- s11,
    reported <- s12

\* Both instances of the library count alike.
LEMMA LeftWizardCount ==
    \A S : LeftWizard!Cardinality(S) = LeftWizardP!Phone!Cardinality(S)
  BY Zenon DEF LeftWizard!Cardinality, LeftWizardP!Phone!Cardinality

\* Both call the same sets finite.
LEMMA LeftWizardFinite ==
    \A S : LeftWizard!IsFiniteSet(S) <=> LeftWizardP!Phone!IsFiniteSet(S)
  BY Zenon DEF LeftWizard!IsFiniteSet, LeftWizardP!Phone!IsFiniteSet

\* Both give up the same requests.
LEMMA LeftWizardAbandon ==
    \A requests : LeftWizard!Abandon(requests) <=> LeftWizardP!Phone!Abandon(requests)
  BY LeftWizardCount DEF LeftWizard!Abandon, LeftWizardP!Phone!Abandon

\* A sale that was made does the same in both.
LEMMA LeftWizardCreated ==
    \A s : LeftWizard!Created(s) <=> LeftWizardP!Phone!Created(s)
  BY DEF LeftWizard!deskVars, LeftWizard!Idle, LeftWizard!Answered,
     LeftWizard!LeaveScreen, LeftWizard!Created, LeftWizardP!Phone!deskVars,
     LeftWizardP!Phone!Idle, LeftWizardP!Phone!Answered, LeftWizardP!Phone!LeaveScreen,
     LeftWizardP!Phone!Created

\* An application that ends does the same in both.
LEMMA LeftWizardKillApp ==
    LeftWizard!KillApp <=> LeftWizardP!Phone!KillApp
  BY LeftWizardAbandon DEF LeftWizard!Slot, LeftWizard!Idle, LeftWizard!RequestOf,
     LeftWizard!Waiting, LeftWizard!LeaveScreen, LeftWizard!KillApp,
     LeftWizardP!Phone!Slot, LeftWizardP!Phone!Idle, LeftWizardP!Phone!RequestOf,
     LeftWizardP!Phone!Waiting, LeftWizardP!Phone!LeaveScreen, LeftWizardP!Phone!KillApp

\* A submission does the same in both.
LEMMA LeftWizardSubmit ==
    LeftWizard!Submit <=> LeftWizardP!Phone!Submit
  BY DEF LeftWizard!deskVars, LeftWizard!Idle, LeftWizard!Ready, LeftWizard!SubmitEnabled,
     LeftWizard!Submit, LeftWizardP!Phone!deskVars, LeftWizardP!Phone!Idle,
     LeftWizardP!Phone!Ready, LeftWizardP!Phone!SubmitEnabled, LeftWizardP!Phone!Submit

\* LeftWizard is what is proved about, with its constants.
LEMMA LeftWizardSame ==
    /\ LeftWizard!DeskAssumption <=> LeftWizardP!Phone!DeskAssumption
    /\ LeftWizard!ScreenAssumption <=> LeftWizardP!Phone!ScreenAssumption
    /\ LeftWizard!Init <=> LeftWizardP!Phone!Init
    /\ LeftWizard!Next <=> LeftWizardP!Phone!Next
    /\ LeftWizard!NoOrphanSale <=> LeftWizardP!Phone!NoOrphanSale
  BY LeftWizardFinite, LeftWizardAbandon, LeftWizardCreated, LeftWizardKillApp,
         LeftWizardSubmit DEF
     LeftWizard!PaymentMethod, LeftWizard!DeskAssumption, LeftWizard!deskVars,
     LeftWizard!NoTerms, LeftWizard!Reply, LeftWizard!DeskInit, LeftWizard!Replies,
     LeftWizard!Serve, LeftWizard!ServeLate, LeftWizard!screenVars, LeftWizard!Step,
     LeftWizard!Draft, LeftWizard!ScreenAssumption, LeftWizard!Slot, LeftWizard!Idle,
     LeftWizard!Init, LeftWizard!EmptyDraft, LeftWizard!FreshKey, LeftWizard!Completed,
     LeftWizard!Valid, LeftWizard!SetDraft, LeftWizard!Enter, LeftWizard!Hydrate,
     LeftWizard!SaveEffect, LeftWizard!LoadConnection, LeftWizard!Ready,
     LeftWizard!EditLines, LeftWizard!ChooseMethod, LeftWizard!GoNext, LeftWizard!GoBack,
     LeftWizard!SubmitEnabled, LeftWizard!AskCash, LeftWizard!CloseCash,
     LeftWizard!RequestOf, LeftWizard!Waiting, LeftWizard!ServeCall, LeftWizard!Answered,
     LeftWizard!LeaveScreen, LeftWizard!Published, LeftWizard!Failed, LeftWizard!Reset,
     LeftWizard!Leave, LeftWizard!ServeLater, LeftWizard!Next, LeftWizard!NoOrphanSale,
     LeftWizardP!Phone!PaymentMethod, LeftWizardP!Phone!DeskAssumption,
     LeftWizardP!Phone!deskVars, LeftWizardP!Phone!NoTerms, LeftWizardP!Phone!Reply,
     LeftWizardP!Phone!DeskInit, LeftWizardP!Phone!Replies, LeftWizardP!Phone!Serve,
     LeftWizardP!Phone!ServeLate, LeftWizardP!Phone!screenVars, LeftWizardP!Phone!Step,
     LeftWizardP!Phone!Draft, LeftWizardP!Phone!ScreenAssumption, LeftWizardP!Phone!Slot,
     LeftWizardP!Phone!Idle, LeftWizardP!Phone!Init, LeftWizardP!Phone!EmptyDraft,
     LeftWizardP!Phone!FreshKey, LeftWizardP!Phone!Completed, LeftWizardP!Phone!Valid,
     LeftWizardP!Phone!SetDraft, LeftWizardP!Phone!Enter, LeftWizardP!Phone!Hydrate,
     LeftWizardP!Phone!SaveEffect, LeftWizardP!Phone!LoadConnection,
     LeftWizardP!Phone!Ready, LeftWizardP!Phone!EditLines, LeftWizardP!Phone!ChooseMethod,
     LeftWizardP!Phone!GoNext, LeftWizardP!Phone!GoBack, LeftWizardP!Phone!SubmitEnabled,
     LeftWizardP!Phone!AskCash, LeftWizardP!Phone!CloseCash, LeftWizardP!Phone!RequestOf,
     LeftWizardP!Phone!Waiting, LeftWizardP!Phone!ServeCall, LeftWizardP!Phone!Answered,
     LeftWizardP!Phone!LeaveScreen, LeftWizardP!Phone!Published, LeftWizardP!Phone!Failed,
     LeftWizardP!Phone!Reset, LeftWizardP!Phone!Leave, LeftWizardP!Phone!ServeLater,
     LeftWizardP!Phone!Next, LeftWizardP!Phone!NoOrphanSale

\* While LeftWizard is mounted, the steps are its steps, and it stays.
LEMMA LeftWizardMounted ==
    /\ Init /\ mounted = "LeftWizard" => LeftWizardP!Phone!Init
    /\ [Next]_vars /\ mounted = "LeftWizard" =>
           [LeftWizardP!Phone!Next]_(LeftWizardP!Phone!vars)
    /\ [Next]_vars => ((mounted = "LeftWizard")' <=> mounted = "LeftWizard")
    /\ LeftWizardP!Phone!NoOrphanSale => LeftWizard!NoOrphanSale
  BY LeftWizardSame DEF Init, Next, vars, LeftWizardP!Phone!vars,
         LeftWizardP!Phone!deskVars, LeftWizardP!Phone!screenVars

\* The wizard of the phone that is left before the answer.
LEMMA LeftWizardHolds ==
    Spec => [](mounted = "LeftWizard" => LeftWizard!NoOrphanSale)
  <1>1. LeftWizardP!Phone!Spec => [](LeftWizardP!Phone!NoOrphanSale)
    BY SalesAssumption, LeftWizardSame, LeftWizardP!PhoneSalesAreKept DEF SalesAssumption,
           LeftWizardP!PhoneAssumption, LeftWizardP!PhoneStays
  <1> QED  BY <1>1, LeftWizardMounted, PTL DEF Spec, LeftWizardP!Phone!Spec

\* Its state keeps its types.
LEMMA LeftWizardTyped ==
    Spec => [](mounted = "LeftWizard" => LeftWizard!TypeOK)
  <1>1. LeftWizardP!Phone!Spec => []LeftWizardP!Phone!TypeOK
    BY SalesAssumption, LeftWizardSame, LeftWizardP!PhoneIsTyped DEF SalesAssumption,
           LeftWizardP!PhoneAssumption, LeftWizardP!PhoneStays
  <1>2. LeftWizardP!Phone!TypeOK => LeftWizard!TypeOK
    BY DEF LeftWizard!Terms, LeftWizard!NoTerms, LeftWizard!Request, LeftWizard!Reply,
       LeftWizard!DeskTypeOK, LeftWizard!Step, LeftWizard!Draft, LeftWizard!Slot,
       LeftWizard!Idle, LeftWizard!Call, LeftWizard!TypeOK, LeftWizardP!Phone!Terms,
       LeftWizardP!Phone!NoTerms, LeftWizardP!Phone!Request, LeftWizardP!Phone!Reply,
       LeftWizardP!Phone!DeskTypeOK, LeftWizardP!Phone!Step, LeftWizardP!Phone!Draft,
       LeftWizardP!Phone!Slot, LeftWizardP!Phone!Idle, LeftWizardP!Phone!Call,
       LeftWizardP!Phone!TypeOK
  <1> QED  BY <1>1, <1>2, LeftWizardMounted, PTL DEF Spec, LeftWizardP!Phone!Spec

----------------------------------------------------------------------------
(* Screens with the constants of EditedWizardP.                            *)

EditedWizardP == INSTANCE SaleScreens_proofs WITH
    Methods <- {"bank_transfer", "cash"}, Keys <- {"k1"}, Carts <- {"c1", "c2"},
    MaxLate <- 1, NoDraft <- None, Background <- TRUE, calls <- s10,
    connected <- s9, published <- s2, late <- s3, draft <- s4, sold <- s1,
    stored <- s5, screen <- s6, effect <- s7, confirm <- s8, used <- s11,
    reported <- s12

\* Both instances of the library count alike.
LEMMA EditedWizardCount ==
    \A S : EditedWizard!Cardinality(S) = EditedWizardP!Phone!Cardinality(S)
  BY Zenon DEF EditedWizard!Cardinality, EditedWizardP!Phone!Cardinality

\* Both call the same sets finite.
LEMMA EditedWizardFinite ==
    \A S : EditedWizard!IsFiniteSet(S) <=> EditedWizardP!Phone!IsFiniteSet(S)
  BY Zenon DEF EditedWizard!IsFiniteSet, EditedWizardP!Phone!IsFiniteSet

\* Both give up the same requests.
LEMMA EditedWizardAbandon ==
    \A requests : EditedWizard!Abandon(requests) <=> EditedWizardP!Phone!Abandon(requests)
  BY EditedWizardCount DEF EditedWizard!Abandon, EditedWizardP!Phone!Abandon

\* A sale that was made does the same in both.
LEMMA EditedWizardCreated ==
    \A s : EditedWizard!Created(s) <=> EditedWizardP!Phone!Created(s)
  BY DEF EditedWizard!deskVars, EditedWizard!Idle, EditedWizard!Answered,
     EditedWizard!LeaveScreen, EditedWizard!Created, EditedWizardP!Phone!deskVars,
     EditedWizardP!Phone!Idle, EditedWizardP!Phone!Answered,
     EditedWizardP!Phone!LeaveScreen, EditedWizardP!Phone!Created

\* An application that ends does the same in both.
LEMMA EditedWizardKillApp ==
    EditedWizard!KillApp <=> EditedWizardP!Phone!KillApp
  BY EditedWizardAbandon DEF EditedWizard!Slot, EditedWizard!Idle, EditedWizard!RequestOf,
     EditedWizard!Waiting, EditedWizard!LeaveScreen, EditedWizard!KillApp,
     EditedWizardP!Phone!Slot, EditedWizardP!Phone!Idle, EditedWizardP!Phone!RequestOf,
     EditedWizardP!Phone!Waiting, EditedWizardP!Phone!LeaveScreen,
     EditedWizardP!Phone!KillApp

\* A submission does the same in both.
LEMMA EditedWizardSubmit ==
    EditedWizard!Submit <=> EditedWizardP!Phone!Submit
  BY DEF EditedWizard!deskVars, EditedWizard!Idle, EditedWizard!Ready,
     EditedWizard!SubmitEnabled, EditedWizard!Submit, EditedWizardP!Phone!deskVars,
     EditedWizardP!Phone!Idle, EditedWizardP!Phone!Ready,
     EditedWizardP!Phone!SubmitEnabled, EditedWizardP!Phone!Submit

\* EditedWizard is what is proved about, with its constants.
LEMMA EditedWizardSame ==
    /\ EditedWizard!DeskAssumption <=> EditedWizardP!Phone!DeskAssumption
    /\ EditedWizard!ScreenAssumption <=> EditedWizardP!Phone!ScreenAssumption
    /\ EditedWizard!Init <=> EditedWizardP!Phone!Init
    /\ EditedWizard!Next <=> EditedWizardP!Phone!Next
    /\ EditedWizard!SellsAsReviewed <=> EditedWizardP!Phone!SellsAsReviewed
  BY EditedWizardFinite, EditedWizardAbandon, EditedWizardCreated, EditedWizardKillApp,
         EditedWizardSubmit DEF
     EditedWizard!PaymentMethod, EditedWizard!DeskAssumption, EditedWizard!deskVars,
     EditedWizard!NoTerms, EditedWizard!Reply, EditedWizard!DeskInit,
     EditedWizard!Replies, EditedWizard!Serve, EditedWizard!ServeLate,
     EditedWizard!screenVars, EditedWizard!Step, EditedWizard!Draft,
     EditedWizard!ScreenAssumption, EditedWizard!Slot, EditedWizard!Idle,
     EditedWizard!Init, EditedWizard!EmptyDraft, EditedWizard!FreshKey,
     EditedWizard!Completed, EditedWizard!Valid, EditedWizard!SetDraft,
     EditedWizard!Enter, EditedWizard!Hydrate, EditedWizard!SaveEffect,
     EditedWizard!LoadConnection, EditedWizard!Ready, EditedWizard!EditLines,
     EditedWizard!ChooseMethod, EditedWizard!GoNext, EditedWizard!GoBack,
     EditedWizard!SubmitEnabled, EditedWizard!AskCash, EditedWizard!CloseCash,
     EditedWizard!RequestOf, EditedWizard!Waiting, EditedWizard!ServeCall,
     EditedWizard!Answered, EditedWizard!LeaveScreen, EditedWizard!Published,
     EditedWizard!Failed, EditedWizard!Reset, EditedWizard!Leave, EditedWizard!ServeLater,
     EditedWizard!Next, EditedWizard!SellsAsReviewed, EditedWizardP!Phone!PaymentMethod,
     EditedWizardP!Phone!DeskAssumption, EditedWizardP!Phone!deskVars,
     EditedWizardP!Phone!NoTerms, EditedWizardP!Phone!Reply, EditedWizardP!Phone!DeskInit,
     EditedWizardP!Phone!Replies, EditedWizardP!Phone!Serve,
     EditedWizardP!Phone!ServeLate, EditedWizardP!Phone!screenVars,
     EditedWizardP!Phone!Step, EditedWizardP!Phone!Draft,
     EditedWizardP!Phone!ScreenAssumption, EditedWizardP!Phone!Slot,
     EditedWizardP!Phone!Idle, EditedWizardP!Phone!Init, EditedWizardP!Phone!EmptyDraft,
     EditedWizardP!Phone!FreshKey, EditedWizardP!Phone!Completed,
     EditedWizardP!Phone!Valid, EditedWizardP!Phone!SetDraft, EditedWizardP!Phone!Enter,
     EditedWizardP!Phone!Hydrate, EditedWizardP!Phone!SaveEffect,
     EditedWizardP!Phone!LoadConnection, EditedWizardP!Phone!Ready,
     EditedWizardP!Phone!EditLines, EditedWizardP!Phone!ChooseMethod,
     EditedWizardP!Phone!GoNext, EditedWizardP!Phone!GoBack,
     EditedWizardP!Phone!SubmitEnabled, EditedWizardP!Phone!AskCash,
     EditedWizardP!Phone!CloseCash, EditedWizardP!Phone!RequestOf,
     EditedWizardP!Phone!Waiting, EditedWizardP!Phone!ServeCall,
     EditedWizardP!Phone!Answered, EditedWizardP!Phone!LeaveScreen,
     EditedWizardP!Phone!Published, EditedWizardP!Phone!Failed, EditedWizardP!Phone!Reset,
     EditedWizardP!Phone!Leave, EditedWizardP!Phone!ServeLater, EditedWizardP!Phone!Next,
     EditedWizardP!Phone!SellsAsReviewed

\* While EditedWizard is mounted, the steps are its steps, and it stays.
LEMMA EditedWizardMounted ==
    /\ Init /\ mounted = "EditedWizard" => EditedWizardP!Phone!Init
    /\ [Next]_vars /\ mounted = "EditedWizard" =>
           [EditedWizardP!Phone!Next]_(EditedWizardP!Phone!vars)
    /\ [Next]_vars => ((mounted = "EditedWizard")' <=> mounted = "EditedWizard")
    /\ [Next]_vars /\ mounted = "EditedWizard" /\
           [EditedWizardP!Phone!SellsAsReviewed]_(EditedWizardP!Phone!vars) =>
                  [mounted = "EditedWizard" => EditedWizard!SellsAsReviewed]_vars
  BY EditedWizardSame DEF Init, Next, vars, EditedWizardP!Phone!vars,
         EditedWizardP!Phone!deskVars, EditedWizardP!Phone!screenVars

\* The wizard of the phone whose lines are edited again.
LEMMA EditedWizardSteps ==
    Spec => [][mounted = "EditedWizard" => EditedWizard!SellsAsReviewed]_vars
  <1>1. EditedWizardP!Phone!Spec =>
         [][EditedWizardP!Phone!SellsAsReviewed]_(EditedWizardP!Phone!vars)
    BY SalesAssumption, EditedWizardSame,
           EditedWizardP!PhoneSellsWhatWasReviewed DEF SalesAssumption,
                  EditedWizardP!PhoneAssumption
  <1>2. ~(mounted = "EditedWizard") => [mounted = "EditedWizard" =>
         EditedWizard!SellsAsReviewed]_vars
    OBVIOUS
  <1> QED  BY <1>1, <1>2, EditedWizardMounted, PTL DEF Spec, EditedWizardP!Phone!Spec

\* Its state keeps its types.
LEMMA EditedWizardTyped ==
    Spec => [](mounted = "EditedWizard" => EditedWizard!TypeOK)
  <1>1. EditedWizardP!Phone!Spec => []EditedWizardP!Phone!TypeOK
    BY SalesAssumption, EditedWizardSame, EditedWizardP!PhoneIsTyped DEF SalesAssumption,
           EditedWizardP!PhoneAssumption
  <1>2. EditedWizardP!Phone!TypeOK => EditedWizard!TypeOK
    BY DEF EditedWizard!Terms, EditedWizard!NoTerms, EditedWizard!Request,
       EditedWizard!Reply, EditedWizard!DeskTypeOK, EditedWizard!Step, EditedWizard!Draft,
       EditedWizard!Slot, EditedWizard!Idle, EditedWizard!Call, EditedWizard!TypeOK,
       EditedWizardP!Phone!Terms, EditedWizardP!Phone!NoTerms,
       EditedWizardP!Phone!Request, EditedWizardP!Phone!Reply,
       EditedWizardP!Phone!DeskTypeOK, EditedWizardP!Phone!Step,
       EditedWizardP!Phone!Draft, EditedWizardP!Phone!Slot, EditedWizardP!Phone!Idle,
       EditedWizardP!Phone!Call, EditedWizardP!Phone!TypeOK
  <1> QED  BY <1>1, <1>2, EditedWizardMounted, PTL DEF Spec, EditedWizardP!Phone!Spec

----------------------------------------------------------------------------
(* Screens with the constants of QuickP.                                   *)

QuickP == INSTANCE SaleScreens_proofs WITH Clients <- {"web", "mobile"},
    Available <- 1, MaxOpenings <- 2, MaxKeys <- 2, client <- s1, key <- s11,
    calls <- s16, bank <- s2, viewed <- s3, connected <- s4, free <- s5,
    sales <- s6, published <- s7, mailed <- s8, opening <- s9, opened <- s10,
    keys <- s12, form <- s13, confirmCash <- s14, result <- s15, mail <- s17,
    filed <- s18

\* Quick is what is proved about, with its constants.
LEMMA QuickSame ==
    /\ Quick!QuickAssumption <=> QuickP!Quick!QuickAssumption
    /\ Quick!Init <=> QuickP!Quick!Init
    /\ Quick!Next <=> QuickP!Quick!Next
    /\ Quick!OneSalePerOpening <=> QuickP!Quick!OneSalePerOpening
    /\ Quick!SoldAsAsked <=> QuickP!Quick!SoldAsAsked
    /\ Quick!LinkIsLive <=> QuickP!Quick!LinkIsLive
  BY DEF Quick!QuickAssumption, Quick!server, Quick!dialog, Quick!given, Quick!Address,
     Quick!Method, Quick!Blank, Quick!Init, Quick!Filed, Quick!Takes, Quick!Answer,
     Quick!CreateOrder, Quick!PublishOrderLink, Quick!Lose, Quick!OthersTake,
     Quick!LoadViewer, Quick!HasBankDetails, Quick!Reset, Quick!Open, Quick!Close,
     Quick!Choosing, Quick!WebChooseMethod, Quick!PhoneChooseMethod, Quick!StepQuantity,
     Quick!Busy, Quick!AskCash, Quick!BackFromCash, Quick!Send, Quick!WebPublish,
     Quick!PhonePublish, Quick!WebCreateCash, Quick!PhoneCreateCash, Quick!PublishedOK,
     Quick!CashOK, Quick!Failed, Quick!SendOfferLink, Quick!WebSendEmail,
     Quick!PhoneSendEmail, Quick!EmailAnswered, Quick!Next, Quick!OneSalePerOpening,
     Quick!LinkIsLive, Quick!SoldAsAsked, QuickP!Quick!QuickAssumption,
     QuickP!Quick!server, QuickP!Quick!dialog, QuickP!Quick!given, QuickP!Quick!Address,
     QuickP!Quick!Method, QuickP!Quick!Blank, QuickP!Quick!Init, QuickP!Quick!Filed,
     QuickP!Quick!Takes, QuickP!Quick!Answer, QuickP!Quick!CreateOrder,
     QuickP!Quick!PublishOrderLink, QuickP!Quick!Lose, QuickP!Quick!OthersTake,
     QuickP!Quick!LoadViewer, QuickP!Quick!HasBankDetails, QuickP!Quick!Reset,
     QuickP!Quick!Open, QuickP!Quick!Close, QuickP!Quick!Choosing,
     QuickP!Quick!WebChooseMethod, QuickP!Quick!PhoneChooseMethod,
     QuickP!Quick!StepQuantity, QuickP!Quick!Busy, QuickP!Quick!AskCash,
     QuickP!Quick!BackFromCash, QuickP!Quick!Send, QuickP!Quick!WebPublish,
     QuickP!Quick!PhonePublish, QuickP!Quick!WebCreateCash, QuickP!Quick!PhoneCreateCash,
     QuickP!Quick!PublishedOK, QuickP!Quick!CashOK, QuickP!Quick!Failed,
     QuickP!Quick!SendOfferLink, QuickP!Quick!WebSendEmail, QuickP!Quick!PhoneSendEmail,
     QuickP!Quick!EmailAnswered, QuickP!Quick!Next, QuickP!Quick!OneSalePerOpening,
     QuickP!Quick!LinkIsLive, QuickP!Quick!SoldAsAsked

\* While Quick is mounted, the steps are its steps, and it stays.
LEMMA QuickMounted ==
    /\ Init /\ mounted = "Quick" => QuickP!Quick!Init
    /\ [Next]_vars /\ mounted = "Quick" => [QuickP!Quick!Next]_(QuickP!Quick!vars)
    /\ [Next]_vars => ((mounted = "Quick")' <=> mounted = "Quick")
    /\ QuickP!Quick!OneSalePerOpening /\ QuickP!Quick!SoldAsAsked /\
           QuickP!Quick!LinkIsLive => Quick!OneSalePerOpening /\ Quick!SoldAsAsked /\
                  Quick!LinkIsLive
  BY QuickSame DEF Init, Next, vars, QuickP!Quick!vars

\* The quick sale of one unit.
LEMMA QuickHolds ==
    Spec => [](mounted = "Quick" => /\ Quick!OneSalePerOpening
                                    /\ Quick!SoldAsAsked
                                    /\ Quick!LinkIsLive)
  <1>1. QuickP!Quick!Spec => [](QuickP!Quick!OneSalePerOpening /\
         QuickP!Quick!SoldAsAsked /\ QuickP!Quick!LinkIsLive)
    BY SalesAssumption, QuickSame, QuickP!QuickSaleIsSafe DEF SalesAssumption
  <1> QED  BY <1>1, QuickMounted, PTL DEF Spec, QuickP!Quick!Spec

\* Its state keeps its types.
LEMMA QuickTyped ==
    Spec => [](mounted = "Quick" => Quick!TypeOK)
  <1>1. QuickP!Quick!Spec => []QuickP!Quick!TypeOK
    BY SalesAssumption, QuickSame, QuickP!QuickIsTyped DEF SalesAssumption
  <1>2. QuickP!Quick!TypeOK => Quick!TypeOK
    BY DEF Quick!Address, Quick!Method, Quick!Form, Quick!Call, Quick!TypeOK,
       QuickP!Quick!Address, QuickP!Quick!Method, QuickP!Quick!Form, QuickP!Quick!Call,
       QuickP!Quick!TypeOK
  <1> QED  BY <1>1, <1>2, QuickMounted, PTL DEF Spec, QuickP!Quick!Spec

----------------------------------------------------------------------------
(* Screens with the constants of QuickTwoP.                                *)

QuickTwoP == INSTANCE SaleScreens_proofs WITH Clients <- {"web", "mobile"},
    Available <- 2, MaxOpenings <- 1, MaxKeys <- 2, client <- s1, key <- s11,
    calls <- s16, bank <- s2, viewed <- s3, connected <- s4, free <- s5,
    sales <- s6, published <- s7, mailed <- s8, opening <- s9, opened <- s10,
    keys <- s12, form <- s13, confirmCash <- s14, result <- s15, mail <- s17,
    filed <- s18

\* QuickTwo is what is proved about, with its constants.
LEMMA QuickTwoSame ==
    /\ QuickTwo!QuickAssumption <=> QuickTwoP!Quick!QuickAssumption
    /\ QuickTwo!Init <=> QuickTwoP!Quick!Init
    /\ QuickTwo!Next <=> QuickTwoP!Quick!Next
    /\ QuickTwo!OneSalePerOpening <=> QuickTwoP!Quick!OneSalePerOpening
    /\ QuickTwo!SoldAsAsked <=> QuickTwoP!Quick!SoldAsAsked
    /\ QuickTwo!LinkIsLive <=> QuickTwoP!Quick!LinkIsLive
  BY DEF QuickTwo!QuickAssumption, QuickTwo!server, QuickTwo!dialog, QuickTwo!given,
     QuickTwo!Address, QuickTwo!Method, QuickTwo!Blank, QuickTwo!Init, QuickTwo!Filed,
     QuickTwo!Takes, QuickTwo!Answer, QuickTwo!CreateOrder, QuickTwo!PublishOrderLink,
     QuickTwo!Lose, QuickTwo!OthersTake, QuickTwo!LoadViewer, QuickTwo!HasBankDetails,
     QuickTwo!Reset, QuickTwo!Open, QuickTwo!Close, QuickTwo!Choosing,
     QuickTwo!WebChooseMethod, QuickTwo!PhoneChooseMethod, QuickTwo!StepQuantity,
     QuickTwo!Busy, QuickTwo!AskCash, QuickTwo!BackFromCash, QuickTwo!Send,
     QuickTwo!WebPublish, QuickTwo!PhonePublish, QuickTwo!WebCreateCash,
     QuickTwo!PhoneCreateCash, QuickTwo!PublishedOK, QuickTwo!CashOK, QuickTwo!Failed,
     QuickTwo!SendOfferLink, QuickTwo!WebSendEmail, QuickTwo!PhoneSendEmail,
     QuickTwo!EmailAnswered, QuickTwo!Next, QuickTwo!OneSalePerOpening,
     QuickTwo!LinkIsLive, QuickTwo!SoldAsAsked, QuickTwoP!Quick!QuickAssumption,
     QuickTwoP!Quick!server, QuickTwoP!Quick!dialog, QuickTwoP!Quick!given,
     QuickTwoP!Quick!Address, QuickTwoP!Quick!Method, QuickTwoP!Quick!Blank,
     QuickTwoP!Quick!Init, QuickTwoP!Quick!Filed, QuickTwoP!Quick!Takes,
     QuickTwoP!Quick!Answer, QuickTwoP!Quick!CreateOrder,
     QuickTwoP!Quick!PublishOrderLink, QuickTwoP!Quick!Lose, QuickTwoP!Quick!OthersTake,
     QuickTwoP!Quick!LoadViewer, QuickTwoP!Quick!HasBankDetails, QuickTwoP!Quick!Reset,
     QuickTwoP!Quick!Open, QuickTwoP!Quick!Close, QuickTwoP!Quick!Choosing,
     QuickTwoP!Quick!WebChooseMethod, QuickTwoP!Quick!PhoneChooseMethod,
     QuickTwoP!Quick!StepQuantity, QuickTwoP!Quick!Busy, QuickTwoP!Quick!AskCash,
     QuickTwoP!Quick!BackFromCash, QuickTwoP!Quick!Send, QuickTwoP!Quick!WebPublish,
     QuickTwoP!Quick!PhonePublish, QuickTwoP!Quick!WebCreateCash,
     QuickTwoP!Quick!PhoneCreateCash, QuickTwoP!Quick!PublishedOK, QuickTwoP!Quick!CashOK,
     QuickTwoP!Quick!Failed, QuickTwoP!Quick!SendOfferLink, QuickTwoP!Quick!WebSendEmail,
     QuickTwoP!Quick!PhoneSendEmail, QuickTwoP!Quick!EmailAnswered, QuickTwoP!Quick!Next,
     QuickTwoP!Quick!OneSalePerOpening, QuickTwoP!Quick!LinkIsLive,
     QuickTwoP!Quick!SoldAsAsked

\* While QuickTwo is mounted, the steps are its steps, and it stays.
LEMMA QuickTwoMounted ==
    /\ Init /\ mounted = "QuickTwo" => QuickTwoP!Quick!Init
    /\ [Next]_vars /\ mounted = "QuickTwo" => [QuickTwoP!Quick!Next]_(QuickTwoP!Quick!vars)
    /\ [Next]_vars => ((mounted = "QuickTwo")' <=> mounted = "QuickTwo")
    /\ QuickTwoP!Quick!OneSalePerOpening /\ QuickTwoP!Quick!SoldAsAsked /\
           QuickTwoP!Quick!LinkIsLive => QuickTwo!OneSalePerOpening /\
                  QuickTwo!SoldAsAsked /\ QuickTwo!LinkIsLive
  BY QuickTwoSame DEF Init, Next, vars, QuickTwoP!Quick!vars

\* The quick sale of two units.
LEMMA QuickTwoHolds ==
    Spec => [](mounted = "QuickTwo" => /\ QuickTwo!OneSalePerOpening
                                       /\ QuickTwo!SoldAsAsked
                                       /\ QuickTwo!LinkIsLive)
  <1>1. QuickTwoP!Quick!Spec => [](QuickTwoP!Quick!OneSalePerOpening /\
         QuickTwoP!Quick!SoldAsAsked /\ QuickTwoP!Quick!LinkIsLive)
    BY SalesAssumption, QuickTwoSame, QuickTwoP!QuickSaleIsSafe DEF SalesAssumption
  <1> QED  BY <1>1, QuickTwoMounted, PTL DEF Spec, QuickTwoP!Quick!Spec

\* Its state keeps its types.
LEMMA QuickTwoTyped ==
    Spec => [](mounted = "QuickTwo" => QuickTwo!TypeOK)
  <1>1. QuickTwoP!Quick!Spec => []QuickTwoP!Quick!TypeOK
    BY SalesAssumption, QuickTwoSame, QuickTwoP!QuickIsTyped DEF SalesAssumption
  <1>2. QuickTwoP!Quick!TypeOK => QuickTwo!TypeOK
    BY DEF QuickTwo!Address, QuickTwo!Method, QuickTwo!Form, QuickTwo!Call,
       QuickTwo!TypeOK, QuickTwoP!Quick!Address, QuickTwoP!Quick!Method,
       QuickTwoP!Quick!Form, QuickTwoP!Quick!Call, QuickTwoP!Quick!TypeOK
  <1> QED  BY <1>1, <1>2, QuickTwoMounted, PTL DEF Spec, QuickTwoP!Quick!Spec

----------------------------------------------------------------------------
(* Screens with the constants of SaleP.                                    *)

SaleP == INSTANCE SaleScreens_proofs WITH Clients <- {"web", "mobile"},
    MaxKeys <- 3, Methods <- {"bank_transfer"}, Texts <- {"t1", "t2"},
    Kinds <- {"cancel", "restore"}, MaxIntents <- 2, MaxMoves <- 1, client <- s1,
    key <- s9, call <- s10, method <- s2, sale <- s3, answers <- s4, detail <- s5,
    fetching <- s6, dialog <- s7, intents <- s8, late <- s11, moves <- s12,
    shown <- s13

\* Sale is what is proved about, with its constants.
LEMMA SaleSame ==
    /\ Sale!ActionsAssumption <=> SaleP!Sale!ActionsAssumption
    /\ Sale!Init <=> SaleP!Sale!Init
    /\ Sale!Next <=> SaleP!Sale!Next
    /\ Sale!OncePerIntent <=> SaleP!Sale!OncePerIntent
    /\ Sale!FreshAfterSuccess <=> SaleP!Sale!FreshAfterSuccess
  BY DEF Sale!pageVars, Sale!Status, Sale!Active, Sale!Kind, Sale!Sale,
     Sale!ActionsAssumption, Sale!Wordy, Sale!Text, Sale!Scope, Sale!Init, Sale!Allowed,
     Sale!Moved, Sale!After, Sale!Filed, Sale!Execute, Sale!Accepts, Sale!Serve,
     Sale!LoseAnswer, Sale!LoseRequest, Sale!ServeLate, Sale!OthersMove, Sale!StartFetch,
     Sale!EndFetch, Sale!FetchFails, Sale!Invalidate, Sale!Pending, Sale!WebShown,
     Sale!PhoneShown, Sale!Open, Sale!NewKey, Sale!WebOpenAction, Sale!PhoneOpenAction,
     Sale!WebEditText, Sale!PhoneEditText, Sale!Close, Sale!WebClose, Sale!PhoneClose,
     Sale!WebRequest, Sale!PhoneRequest, Sale!Send, Sale!WebSubmitAction,
     Sale!PhoneConfirmAction, Sale!Succeed, Sale!WebSuccess, Sale!PhoneSuccess, Sale!Fail,
     Sale!WebError, Sale!PhoneError, Sale!Reopen, Sale!Next, Sale!OncePerIntent,
     Sale!FreshAfterSuccess, SaleP!Sale!pageVars, SaleP!Sale!Status, SaleP!Sale!Active,
     SaleP!Sale!Kind, SaleP!Sale!Sale, SaleP!Sale!ActionsAssumption, SaleP!Sale!Wordy,
     SaleP!Sale!Text, SaleP!Sale!Scope, SaleP!Sale!Init, SaleP!Sale!Allowed,
     SaleP!Sale!Moved, SaleP!Sale!After, SaleP!Sale!Filed, SaleP!Sale!Execute,
     SaleP!Sale!Accepts, SaleP!Sale!Serve, SaleP!Sale!LoseAnswer, SaleP!Sale!LoseRequest,
     SaleP!Sale!ServeLate, SaleP!Sale!OthersMove, SaleP!Sale!StartFetch,
     SaleP!Sale!EndFetch, SaleP!Sale!FetchFails, SaleP!Sale!Invalidate,
     SaleP!Sale!Pending, SaleP!Sale!WebShown, SaleP!Sale!PhoneShown, SaleP!Sale!Open,
     SaleP!Sale!NewKey, SaleP!Sale!WebOpenAction, SaleP!Sale!PhoneOpenAction,
     SaleP!Sale!WebEditText, SaleP!Sale!PhoneEditText, SaleP!Sale!Close,
     SaleP!Sale!WebClose, SaleP!Sale!PhoneClose, SaleP!Sale!WebRequest,
     SaleP!Sale!PhoneRequest, SaleP!Sale!Send, SaleP!Sale!WebSubmitAction,
     SaleP!Sale!PhoneConfirmAction, SaleP!Sale!Succeed, SaleP!Sale!WebSuccess,
     SaleP!Sale!PhoneSuccess, SaleP!Sale!Fail, SaleP!Sale!WebError, SaleP!Sale!PhoneError,
     SaleP!Sale!Reopen, SaleP!Sale!Next, SaleP!Sale!OncePerIntent,
     SaleP!Sale!FreshAfterSuccess

\* While Sale is mounted, the steps are its steps, and it stays.
LEMMA SaleMounted ==
    /\ Init /\ mounted = "Sale" => SaleP!Sale!Init
    /\ [Next]_vars /\ mounted = "Sale" => [SaleP!Sale!Next]_(SaleP!Sale!vars)
    /\ [Next]_vars => ((mounted = "Sale")' <=> mounted = "Sale")
    /\ SaleP!Sale!OncePerIntent /\ SaleP!Sale!FreshAfterSuccess => Sale!OncePerIntent /\
           Sale!FreshAfterSuccess
  BY SaleSame DEF Init, Next, vars, SaleP!Sale!vars

\* The page of a sale.
LEMMA SaleHolds ==
    Spec => [](mounted = "Sale" => /\ Sale!OncePerIntent
                                   /\ Sale!FreshAfterSuccess)
  <1>1. SaleP!Sale!Spec => [](SaleP!Sale!OncePerIntent /\ SaleP!Sale!FreshAfterSuccess)
    BY SalesAssumption, SaleSame, SaleP!SaleActionsAreSafe DEF SalesAssumption
  <1> QED  BY <1>1, SaleMounted, PTL DEF Spec, SaleP!Sale!Spec

\* Its state keeps its types.
LEMMA SaleTyped ==
    Spec => [](mounted = "Sale" => Sale!TypeOK)
  <1>1. SaleP!Sale!Spec => []SaleP!Sale!TypeOK
    BY SalesAssumption, SaleSame, SaleP!SaleIsTyped DEF SalesAssumption
  <1>2. SaleP!Sale!TypeOK => Sale!TypeOK
    BY DEF Sale!Status, Sale!Active, Sale!Kind, Sale!Sale, Sale!Scope, Sale!Request,
       Sale!TypeOK, SaleP!Sale!Status, SaleP!Sale!Active, SaleP!Sale!Kind,
       SaleP!Sale!Sale, SaleP!Sale!Scope, SaleP!Sale!Request, SaleP!Sale!TypeOK
  <1> QED  BY <1>1, <1>2, SaleMounted, PTL DEF Spec, SaleP!Sale!Spec

----------------------------------------------------------------------------
(* Screens with the constants of ContactP.                                 *)

ContactP == INSTANCE SaleScreens_proofs WITH Clients <- {"web"}, MaxKeys <- 2,
    Names <- {"n1"}, Phones <- {"p1"}, Addresses <- {"a1"}, Taxes <- {"t1"},
    MaxWrites <- 1, client <- s1, key <- s9, call <- s10, filed <- s5,
    emailed <- s2, shipped <- s3, row <- s4, seen <- s6, editing <- s7, draft <- s8,
    writes <- s11

\* Contact is what is proved about, with its constants.
LEMMA ContactSame ==
    /\ Contact!ContactAssumption <=> ContactP!Contact!ContactAssumption
    /\ Contact!Init <=> ContactP!Contact!Init
    /\ Contact!Next <=> ContactP!Contact!Next
    /\ Contact!KeepsRest <=> ContactP!Contact!KeepsRest
  BY DEF Contact!Empty, Contact!fixed, Contact!Blank, Contact!Row, Contact!NoRow,
     Contact!Call, Contact!ContactAssumption, Contact!Init, Contact!Valid, Contact!Digest,
     Contact!UpdateOrderBuyer, Contact!LoseAnswer, Contact!SetBuyerDetails,
     Contact!Refetch, Contact!Pending, Contact!Or, Contact!WebPayload,
     Contact!PhonePayload, Contact!WebStartEdit, Contact!OpenContactEditor,
     Contact!WebBuyerFields, Contact!WebDeliveryFields, Contact!PhoneFields,
     Contact!WebCancel, Contact!PhoneCancel, Contact!Send, Contact!WebSave,
     Contact!PhoneSave, Contact!NewKey, Contact!Saved, Contact!WebError,
     Contact!PhoneError, Contact!Next, Contact!FieldsOf, Contact!Executes,
     Contact!KeepsRest, ContactP!Contact!Empty, ContactP!Contact!fixed,
     ContactP!Contact!Blank, ContactP!Contact!Row, ContactP!Contact!NoRow,
     ContactP!Contact!Call, ContactP!Contact!ContactAssumption, ContactP!Contact!Init,
     ContactP!Contact!Valid, ContactP!Contact!Digest, ContactP!Contact!UpdateOrderBuyer,
     ContactP!Contact!LoseAnswer, ContactP!Contact!SetBuyerDetails,
     ContactP!Contact!Refetch, ContactP!Contact!Pending, ContactP!Contact!Or,
     ContactP!Contact!WebPayload, ContactP!Contact!PhonePayload,
     ContactP!Contact!WebStartEdit, ContactP!Contact!OpenContactEditor,
     ContactP!Contact!WebBuyerFields, ContactP!Contact!WebDeliveryFields,
     ContactP!Contact!PhoneFields, ContactP!Contact!WebCancel,
     ContactP!Contact!PhoneCancel, ContactP!Contact!Send, ContactP!Contact!WebSave,
     ContactP!Contact!PhoneSave, ContactP!Contact!NewKey, ContactP!Contact!Saved,
     ContactP!Contact!WebError, ContactP!Contact!PhoneError, ContactP!Contact!Next,
     ContactP!Contact!FieldsOf, ContactP!Contact!Executes, ContactP!Contact!KeepsRest

\* While Contact is mounted, the steps are its steps, and it stays.
LEMMA ContactMounted ==
    /\ Init /\ mounted = "Contact" => ContactP!Contact!Init
    /\ [Next]_vars /\ mounted = "Contact" => [ContactP!Contact!Next]_(ContactP!Contact!vars)
    /\ [Next]_vars => ((mounted = "Contact")' <=> mounted = "Contact")
    /\ [Next]_vars /\ mounted = "Contact" /\
           [ContactP!Contact!KeepsRest]_(ContactP!Contact!vars) => [mounted = "Contact" =>
                  Contact!KeepsRest]_vars
  BY ContactSame DEF Init, Next, vars, ContactP!Contact!vars

\* The buyer's data on the web.
LEMMA ContactSteps ==
    Spec => [][mounted = "Contact" => Contact!KeepsRest]_vars
  <1>1. ContactP!Contact!Spec => [][ContactP!Contact!KeepsRest]_(ContactP!Contact!vars)
    BY SalesAssumption, ContactSame, ContactP!SavesKeepTheRest DEF SalesAssumption
  <1>2. ~(mounted = "Contact") => [mounted = "Contact" => Contact!KeepsRest]_vars
    OBVIOUS
  <1> QED  BY <1>1, <1>2, ContactMounted, PTL DEF Spec, ContactP!Contact!Spec

\* Its state keeps its types.
LEMMA ContactTyped ==
    Spec => [](mounted = "Contact" => Contact!TypeOK)
  <1>1. ContactP!Contact!Spec => []ContactP!Contact!TypeOK
    BY SalesAssumption, ContactSame, ContactP!ContactIsTyped DEF SalesAssumption
  <1>2. ContactP!Contact!TypeOK => Contact!TypeOK
    BY DEF Contact!Empty, Contact!Blank, Contact!Row, Contact!NoRow, Contact!Call,
       Contact!TypeOK, ContactP!Contact!Empty, ContactP!Contact!Blank,
       ContactP!Contact!Row, ContactP!Contact!NoRow, ContactP!Contact!Call,
       ContactP!Contact!TypeOK
  <1> QED  BY <1>1, <1>2, ContactMounted, PTL DEF Spec, ContactP!Contact!Spec

----------------------------------------------------------------------------
(* Screens with the constants of PhoneContactP.                            *)

PhoneContactP == INSTANCE SaleScreens_proofs WITH Clients <- {"mobile"},
    MaxKeys <- 2, Names <- {"n1"}, Phones <- {"p1", "p2"}, Addresses <- {"a1"},
    Taxes <- {"t1"}, MaxWrites <- 1, client <- s1, key <- s9, call <- s10,
    filed <- s5, emailed <- s2, shipped <- s3, row <- s4, seen <- s6, editing <- s7,
    draft <- s8, writes <- s11

\* PhoneContact is what is proved about, with its constants.
LEMMA PhoneContactSame ==
    /\ PhoneContact!ContactAssumption <=> PhoneContactP!Contact!ContactAssumption
    /\ PhoneContact!Init <=> PhoneContactP!Contact!Init
    /\ PhoneContact!Next <=> PhoneContactP!Contact!Next
    /\ PhoneContact!CorrectionIsAccepted <=> PhoneContactP!Contact!CorrectionIsAccepted
    /\ PhoneContact!SavesAsTyped <=> PhoneContactP!Contact!SavesAsTyped
  BY DEF PhoneContact!Empty, PhoneContact!fixed, PhoneContact!Blank, PhoneContact!Row,
     PhoneContact!NoRow, PhoneContact!Call, PhoneContact!ContactAssumption,
     PhoneContact!Init, PhoneContact!Valid, PhoneContact!Digest,
     PhoneContact!UpdateOrderBuyer, PhoneContact!LoseAnswer, PhoneContact!SetBuyerDetails,
     PhoneContact!Refetch, PhoneContact!Pending, PhoneContact!Or, PhoneContact!WebPayload,
     PhoneContact!PhonePayload, PhoneContact!WebStartEdit, PhoneContact!OpenContactEditor,
     PhoneContact!WebBuyerFields, PhoneContact!WebDeliveryFields,
     PhoneContact!PhoneFields, PhoneContact!WebCancel, PhoneContact!PhoneCancel,
     PhoneContact!Send, PhoneContact!WebSave, PhoneContact!PhoneSave, PhoneContact!NewKey,
     PhoneContact!Saved, PhoneContact!WebError, PhoneContact!PhoneError,
     PhoneContact!Next, PhoneContact!FieldsOf, PhoneContact!Executes,
     PhoneContact!SavesAsTyped, PhoneContact!CorrectionIsAccepted,
     PhoneContactP!Contact!Empty, PhoneContactP!Contact!fixed,
     PhoneContactP!Contact!Blank, PhoneContactP!Contact!Row, PhoneContactP!Contact!NoRow,
     PhoneContactP!Contact!Call, PhoneContactP!Contact!ContactAssumption,
     PhoneContactP!Contact!Init, PhoneContactP!Contact!Valid,
     PhoneContactP!Contact!Digest, PhoneContactP!Contact!UpdateOrderBuyer,
     PhoneContactP!Contact!LoseAnswer, PhoneContactP!Contact!SetBuyerDetails,
     PhoneContactP!Contact!Refetch, PhoneContactP!Contact!Pending,
     PhoneContactP!Contact!Or, PhoneContactP!Contact!WebPayload,
     PhoneContactP!Contact!PhonePayload, PhoneContactP!Contact!WebStartEdit,
     PhoneContactP!Contact!OpenContactEditor, PhoneContactP!Contact!WebBuyerFields,
     PhoneContactP!Contact!WebDeliveryFields, PhoneContactP!Contact!PhoneFields,
     PhoneContactP!Contact!WebCancel, PhoneContactP!Contact!PhoneCancel,
     PhoneContactP!Contact!Send, PhoneContactP!Contact!WebSave,
     PhoneContactP!Contact!PhoneSave, PhoneContactP!Contact!NewKey,
     PhoneContactP!Contact!Saved, PhoneContactP!Contact!WebError,
     PhoneContactP!Contact!PhoneError, PhoneContactP!Contact!Next,
     PhoneContactP!Contact!FieldsOf, PhoneContactP!Contact!Executes,
     PhoneContactP!Contact!SavesAsTyped, PhoneContactP!Contact!CorrectionIsAccepted

\* While PhoneContact is mounted, the steps are its steps, and it stays.
LEMMA PhoneContactMounted ==
    /\ Init /\ mounted = "PhoneContact" => PhoneContactP!Contact!Init
    /\ [Next]_vars /\ mounted = "PhoneContact" =>
           [PhoneContactP!Contact!Next]_(PhoneContactP!Contact!vars)
    /\ [Next]_vars => ((mounted = "PhoneContact")' <=> mounted = "PhoneContact")
    /\ PhoneContactP!Contact!CorrectionIsAccepted => PhoneContact!CorrectionIsAccepted
    /\ [Next]_vars /\ mounted = "PhoneContact" /\
           [PhoneContactP!Contact!SavesAsTyped]_(PhoneContactP!Contact!vars) =>
                  [mounted = "PhoneContact" => PhoneContact!SavesAsTyped]_vars
  BY PhoneContactSame DEF Init, Next, vars, PhoneContactP!Contact!vars

\* A correction of the buyer's data on the phone.
LEMMA PhoneContactHolds ==
    Spec => [](mounted = "PhoneContact" => PhoneContact!CorrectionIsAccepted)
  <1>1. PhoneContactP!Contact!Spec => [](PhoneContactP!Contact!CorrectionIsAccepted)
    BY SalesAssumption, PhoneContactSame, PhoneContactP!PhoneSavesAsTyped DEF SalesAssumption
  <1> QED  BY <1>1, PhoneContactMounted, PTL DEF Spec, PhoneContactP!Contact!Spec

\* A save of the buyer's data on the phone.
LEMMA PhoneContactSteps ==
    Spec => [][mounted = "PhoneContact" => PhoneContact!SavesAsTyped]_vars
  <1>1. PhoneContactP!Contact!Spec =>
         [][PhoneContactP!Contact!SavesAsTyped]_(PhoneContactP!Contact!vars)
    BY SalesAssumption, PhoneContactSame, PhoneContactP!PhoneSavesAsTyped DEF SalesAssumption
  <1>2. ~(mounted = "PhoneContact") => [mounted = "PhoneContact" =>
         PhoneContact!SavesAsTyped]_vars
    OBVIOUS
  <1> QED  BY <1>1, <1>2, PhoneContactMounted, PTL DEF Spec, PhoneContactP!Contact!Spec

\* Its state keeps its types.
LEMMA PhoneContactTyped ==
    Spec => [](mounted = "PhoneContact" => PhoneContact!TypeOK)
  <1>1. PhoneContactP!Contact!Spec => []PhoneContactP!Contact!TypeOK
    BY SalesAssumption, PhoneContactSame, PhoneContactP!ContactIsTyped DEF SalesAssumption
  <1>2. PhoneContactP!Contact!TypeOK => PhoneContact!TypeOK
    BY DEF PhoneContact!Empty, PhoneContact!Blank, PhoneContact!Row, PhoneContact!NoRow,
       PhoneContact!Call, PhoneContact!TypeOK, PhoneContactP!Contact!Empty,
       PhoneContactP!Contact!Blank, PhoneContactP!Contact!Row,
       PhoneContactP!Contact!NoRow, PhoneContactP!Contact!Call,
       PhoneContactP!Contact!TypeOK
  <1> QED  BY <1>1, <1>2, PhoneContactMounted, PTL DEF Spec, PhoneContactP!Contact!Spec

----------------------------------------------------------------------------
(* Screens with the constants of PhoneSaleP.                               *)

PhoneSaleP == INSTANCE SaleScreens_proofs WITH Clients <- {"mobile"}, MaxKeys <- 4,
    Methods <- {"bank_transfer", "mercado_pago"}, Texts <- {"t1"},
    Kinds <- {"cancel", "restore", "approve", "refund", "reissue", "reject", "manual",
           "resend"},
    MaxIntents <- 2, MaxMoves <- 2, client <- s1, key <- s9, call <- s10,
    method <- s2, sale <- s3, answers <- s4, detail <- s5, fetching <- s6,
    dialog <- s7, intents <- s8, late <- s11, moves <- s12, shown <- s13

\* PhoneSale is what is proved about, with its constants.
LEMMA PhoneSaleSame ==
    /\ PhoneSale!ActionsAssumption <=> PhoneSaleP!Sale!ActionsAssumption
    /\ PhoneSale!Init <=> PhoneSaleP!Sale!Init
    /\ PhoneSale!Next <=> PhoneSaleP!Sale!Next
    /\ PhoneSale!SucceedsForThisIntent <=> PhoneSaleP!Sale!SucceedsForThisIntent
  BY DEF PhoneSale!pageVars, PhoneSale!Status, PhoneSale!Active, PhoneSale!Kind,
     PhoneSale!Sale, PhoneSale!ActionsAssumption, PhoneSale!Wordy, PhoneSale!Text,
     PhoneSale!Scope, PhoneSale!Init, PhoneSale!Allowed, PhoneSale!Moved, PhoneSale!After,
     PhoneSale!Filed, PhoneSale!Execute, PhoneSale!Accepts, PhoneSale!Serve,
     PhoneSale!LoseAnswer, PhoneSale!LoseRequest, PhoneSale!ServeLate,
     PhoneSale!OthersMove, PhoneSale!StartFetch, PhoneSale!EndFetch, PhoneSale!FetchFails,
     PhoneSale!Invalidate, PhoneSale!Pending, PhoneSale!WebShown, PhoneSale!PhoneShown,
     PhoneSale!Open, PhoneSale!NewKey, PhoneSale!WebOpenAction, PhoneSale!PhoneOpenAction,
     PhoneSale!WebEditText, PhoneSale!PhoneEditText, PhoneSale!Close, PhoneSale!WebClose,
     PhoneSale!PhoneClose, PhoneSale!WebRequest, PhoneSale!PhoneRequest, PhoneSale!Send,
     PhoneSale!WebSubmitAction, PhoneSale!PhoneConfirmAction, PhoneSale!Succeed,
     PhoneSale!WebSuccess, PhoneSale!PhoneSuccess, PhoneSale!Fail, PhoneSale!WebError,
     PhoneSale!PhoneError, PhoneSale!Reopen, PhoneSale!Next,
     PhoneSale!SucceedsForThisIntent, PhoneSaleP!Sale!pageVars, PhoneSaleP!Sale!Status,
     PhoneSaleP!Sale!Active, PhoneSaleP!Sale!Kind, PhoneSaleP!Sale!Sale,
     PhoneSaleP!Sale!ActionsAssumption, PhoneSaleP!Sale!Wordy, PhoneSaleP!Sale!Text,
     PhoneSaleP!Sale!Scope, PhoneSaleP!Sale!Init, PhoneSaleP!Sale!Allowed,
     PhoneSaleP!Sale!Moved, PhoneSaleP!Sale!After, PhoneSaleP!Sale!Filed,
     PhoneSaleP!Sale!Execute, PhoneSaleP!Sale!Accepts, PhoneSaleP!Sale!Serve,
     PhoneSaleP!Sale!LoseAnswer, PhoneSaleP!Sale!LoseRequest, PhoneSaleP!Sale!ServeLate,
     PhoneSaleP!Sale!OthersMove, PhoneSaleP!Sale!StartFetch, PhoneSaleP!Sale!EndFetch,
     PhoneSaleP!Sale!FetchFails, PhoneSaleP!Sale!Invalidate, PhoneSaleP!Sale!Pending,
     PhoneSaleP!Sale!WebShown, PhoneSaleP!Sale!PhoneShown, PhoneSaleP!Sale!Open,
     PhoneSaleP!Sale!NewKey, PhoneSaleP!Sale!WebOpenAction,
     PhoneSaleP!Sale!PhoneOpenAction, PhoneSaleP!Sale!WebEditText,
     PhoneSaleP!Sale!PhoneEditText, PhoneSaleP!Sale!Close, PhoneSaleP!Sale!WebClose,
     PhoneSaleP!Sale!PhoneClose, PhoneSaleP!Sale!WebRequest, PhoneSaleP!Sale!PhoneRequest,
     PhoneSaleP!Sale!Send, PhoneSaleP!Sale!WebSubmitAction,
     PhoneSaleP!Sale!PhoneConfirmAction, PhoneSaleP!Sale!Succeed,
     PhoneSaleP!Sale!WebSuccess, PhoneSaleP!Sale!PhoneSuccess, PhoneSaleP!Sale!Fail,
     PhoneSaleP!Sale!WebError, PhoneSaleP!Sale!PhoneError, PhoneSaleP!Sale!Reopen,
     PhoneSaleP!Sale!Next, PhoneSaleP!Sale!SucceedsForThisIntent

\* While PhoneSale is mounted, the steps are its steps, and it stays.
LEMMA PhoneSaleMounted ==
    /\ Init /\ mounted = "PhoneSale" => PhoneSaleP!Sale!Init
    /\ [Next]_vars /\ mounted = "PhoneSale" => [PhoneSaleP!Sale!Next]_(PhoneSaleP!Sale!vars)
    /\ [Next]_vars => ((mounted = "PhoneSale")' <=> mounted = "PhoneSale")
    /\ [Next]_vars /\ mounted = "PhoneSale" /\
           [PhoneSaleP!Sale!SucceedsForThisIntent]_(PhoneSaleP!Sale!vars) =>
                  [mounted = "PhoneSale" => PhoneSale!SucceedsForThisIntent]_vars
  BY PhoneSaleSame DEF Init, Next, vars, PhoneSaleP!Sale!vars

\* The page of a sale on the phone.
LEMMA PhoneSaleSteps ==
    Spec => [][mounted = "PhoneSale" => PhoneSale!SucceedsForThisIntent]_vars
  <1>1. PhoneSaleP!Sale!Spec => [][PhoneSaleP!Sale!SucceedsForThisIntent]_(PhoneSaleP!Sale!vars)
    BY SalesAssumption, PhoneSaleSame, PhoneSaleP!SuccessIsOfThisDialog DEF SalesAssumption
  <1>2. ~(mounted = "PhoneSale") => [mounted = "PhoneSale" =>
         PhoneSale!SucceedsForThisIntent]_vars
    OBVIOUS
  <1> QED  BY <1>1, <1>2, PhoneSaleMounted, PTL DEF Spec, PhoneSaleP!Sale!Spec

\* Its state keeps its types.
LEMMA PhoneSaleTyped ==
    Spec => [](mounted = "PhoneSale" => PhoneSale!TypeOK)
  <1>1. PhoneSaleP!Sale!Spec => []PhoneSaleP!Sale!TypeOK
    BY SalesAssumption, PhoneSaleSame, PhoneSaleP!SaleIsTyped DEF SalesAssumption
  <1>2. PhoneSaleP!Sale!TypeOK => PhoneSale!TypeOK
    BY DEF PhoneSale!Status, PhoneSale!Active, PhoneSale!Kind, PhoneSale!Sale,
       PhoneSale!Scope, PhoneSale!Request, PhoneSale!TypeOK, PhoneSaleP!Sale!Status,
       PhoneSaleP!Sale!Active, PhoneSaleP!Sale!Kind, PhoneSaleP!Sale!Sale,
       PhoneSaleP!Sale!Scope, PhoneSaleP!Sale!Request, PhoneSaleP!Sale!TypeOK
  <1> QED  BY <1>1, <1>2, PhoneSaleMounted, PTL DEF Spec, PhoneSaleP!Sale!Spec

----------------------------------------------------------------------------
(* Screens with the constants of LinesP.                                   *)

LinesP == INSTANCE DraftLines_proofs WITH Products <- {"p1", "p2"},
    References <- {15}, Discounts <- {50, 150}, Prices <- {7}, MaxAvailable <- 2,
    MaxQuantity <- 2, MaxLines <- 2, client <- s1, lines <- s2, atShop <- s3

\* Lines is what is proved about, with its constants.
LEMMA LinesSame ==
    /\ Lines!LinesAssumption <=> LinesP!LinesAssumption
    /\ Lines!Init <=> LinesP!Init
    /\ Lines!Next <=> LinesP!Next
    /\ Lines!ValidFitsStock <=> LinesP!ValidFitsStock
    /\ Lines!ValidatorsAgree <=> LinesP!ValidatorsAgree
    /\ Lines!DiscountExplainsPrice <=> LinesP!DiscountExplainsPrice
  BY DEF Lines!LinesAssumption, Lines!Text, Lines!NoDiscount, Lines!Init, Lines!Rounded,
     Lines!WebDiscountedPrice, Lines!MobileDiscountedPrice, Lines!LinesOf, Lines!Quantity,
     Lines!LineError, Lines!WebProductError, Lines!WebValid, Lines!MobileProductError,
     Lines!MobileValid, Lines!NewLine, Lines!MobileNewLine, Lines!AddLineWeb,
     Lines!AddLineMobile, Lines!DuplicateLine, Lines!RemoveLine, Lines!EditQuantity,
     Lines!EditPrice, Lines!EditDiscountWeb, Lines!EditDiscountMobile, Lines!StockMoves,
     Lines!Next, Lines!ValidFitsStock, Lines!ValidatorsAgree, Lines!DiscountExplainsPrice,
     Lines!MapThenFoldSet, Lines!MapThenSumSet, Lines!Min, Lines!RemoveAt,
     LinesP!LinesAssumption, LinesP!Text, LinesP!NoDiscount, LinesP!Init, LinesP!Rounded,
     LinesP!WebDiscountedPrice, LinesP!MobileDiscountedPrice, LinesP!LinesOf,
     LinesP!Quantity, LinesP!LineError, LinesP!WebProductError, LinesP!WebValid,
     LinesP!MobileProductError, LinesP!MobileValid, LinesP!NewLine, LinesP!MobileNewLine,
     LinesP!AddLineWeb, LinesP!AddLineMobile, LinesP!DuplicateLine, LinesP!RemoveLine,
     LinesP!EditQuantity, LinesP!EditPrice, LinesP!EditDiscountWeb,
     LinesP!EditDiscountMobile, LinesP!StockMoves, LinesP!Next, LinesP!ValidFitsStock,
     LinesP!ValidatorsAgree, LinesP!DiscountExplainsPrice, LinesP!MapThenFoldSet,
     LinesP!MapThenSumSet, LinesP!Min, LinesP!RemoveAt

\* While Lines is mounted, the steps are its steps, and it stays.
LEMMA LinesMounted ==
    /\ Init /\ mounted = "Lines" => LinesP!Init
    /\ [Next]_vars /\ mounted = "Lines" => [LinesP!Next]_(LinesP!vars)
    /\ [Next]_vars => ((mounted = "Lines")' <=> mounted = "Lines")
    /\ LinesP!ValidFitsStock /\ LinesP!ValidatorsAgree /\ LinesP!DiscountExplainsPrice =>
           Lines!ValidFitsStock /\ Lines!ValidatorsAgree /\ Lines!DiscountExplainsPrice
  BY LinesSame DEF Init, Next, vars, LinesP!vars

\* The lines of a draft.
LEMMA LinesHolds ==
    Spec => [](mounted = "Lines" => /\ Lines!ValidFitsStock
                                    /\ Lines!ValidatorsAgree
                                    /\ Lines!DiscountExplainsPrice)
  <1>1. LinesP!Spec => [](LinesP!ValidFitsStock /\ LinesP!ValidatorsAgree /\
         LinesP!DiscountExplainsPrice)
    BY SalesAssumption, LinesSame, LinesP!LinesAreSafe DEF SalesAssumption
  <1> QED  BY <1>1, LinesMounted, PTL DEF Spec, LinesP!Spec

\* Its state keeps its types.
LEMMA LinesTyped ==
    Spec => [](mounted = "Lines" => Lines!TypeOK)
  <1>1. LinesP!Spec => []LinesP!TypeOK
    BY SalesAssumption, LinesSame, LinesP!LinesAreTyped DEF SalesAssumption
  <1>2. LinesP!TypeOK => Lines!TypeOK
    BY DEF Lines!Text, Lines!NoDiscount, Lines!Line, Lines!TypeOK, LinesP!Text,
       LinesP!NoDiscount, LinesP!Line, LinesP!TypeOK
  <1> QED  BY <1>1, <1>2, LinesMounted, PTL DEF Spec, LinesP!Spec

----------------------------------------------------------------------------
(* The properties of the screens.                                          *)

\* No sale is left holding stock behind the seller's back: each was shown as
\* done, or its key is where the wizard will ask for it again.
THEOREM NoSaleIsOrphaned == Spec => []NoOrphanSale
  <1>1. /\ (mounted = "KeptWizard" => KeptWizard!NoOrphanSale)
        /\ (mounted = "PhoneWizard" => PhoneWizard!NoOrphanSale)
        /\ (mounted = "LeftWizard" => LeftWizard!NoOrphanSale)
        => NoOrphanSale
    BY DEF NoOrphanSale
  <1> QED  BY <1>1, KeptWizardHolds, PhoneWizardHolds, LeftWizardHolds, PTL

\* What a screen says of the sale it made is true on the server: the order a
\* draft names exists, and the link shown is that of its own sale and served.
THEOREM WhatIsShownIsTrue == Spec => []ShownIsTrue
  <1>1. /\ (mounted = "WebWizard" => WebWizard!DraftTellsTruth)
        /\ (mounted = "Quick" => Quick!OneSalePerOpening /\ Quick!SoldAsAsked /\
               Quick!LinkIsLive)
        /\ (mounted = "QuickTwo" => QuickTwo!OneSalePerOpening /\ QuickTwo!SoldAsAsked /\
               QuickTwo!LinkIsLive)
        => ShownIsTrue
    BY DEF ShownIsTrue
  <1> QED  BY <1>1, WebWizardHolds, QuickHolds, QuickTwoHolds, PTL

\* What the seller wanted once happens at most once, however often the request
\* is retried: an opening of the quick sale makes one sale, and a confirmed
\* action on a sale is executed once.
THEOREM IntentsHappenOnce == Spec => []OncePerIntent
  <1>1. /\ (mounted = "Quick" => Quick!OneSalePerOpening /\ Quick!SoldAsAsked /\
         Quick!LinkIsLive)
        /\ (mounted = "QuickTwo" => QuickTwo!OneSalePerOpening /\ QuickTwo!SoldAsAsked /\
               QuickTwo!LinkIsLive)
        /\ (mounted = "Sale" => Sale!OncePerIntent /\ Sale!FreshAfterSuccess)
        => OncePerIntent
    BY DEF OncePerIntent
  <1> QED  BY <1>1, QuickHolds, QuickTwoHolds, SaleHolds, PTL

\* A sale the seller is told of was made with the quantity and the method of
\* the attempt that is answered, not of an earlier one under the same key.
THEOREM SalesAreAsAsked == Spec => []SoldAsAsked
  <1>1. /\ (mounted = "Quick" => Quick!OneSalePerOpening /\ Quick!SoldAsAsked /\
         Quick!LinkIsLive)
        /\ (mounted = "QuickTwo" => QuickTwo!OneSalePerOpening /\ QuickTwo!SoldAsAsked /\
               QuickTwo!LinkIsLive)
        => SoldAsAsked
    BY DEF SoldAsAsked
  <1> QED  BY <1>1, QuickHolds, QuickTwoHolds, PTL

\* Once the read that follows a success has ended, the page shows the sale at
\* least as new as that success.
THEOREM PagesAreFresh == Spec => []FreshAfterSuccess
  <1>1. (mounted = "Sale" => Sale!OncePerIntent /\ Sale!FreshAfterSuccess)
        => FreshAfterSuccess
    BY DEF FreshAfterSuccess
  <1> QED  BY <1>1, SaleHolds, PTL

\* A seller who corrects the form after a failure is not refused for the key.
THEOREM CorrectionsAreAccepted == Spec => []CorrectionIsAccepted
  <1>1. (mounted = "PhoneContact" => PhoneContact!CorrectionIsAccepted)
        => CorrectionIsAccepted
    BY DEF CorrectionIsAccepted
  <1> QED  BY <1>1, PhoneContactHolds, PTL

\* A save keeps the fields its form does not show, and the sheet of the phone
\* stores what was typed in it.
THEOREM SavesAreAsTyped == Spec => SavedAsTyped
  <1>1. /\ [mounted = "Contact" => Contact!KeepsRest]_vars
        /\ [mounted = "PhoneContact" => PhoneContact!SavesAsTyped]_vars
        => [/\ mounted = "Contact" => Contact!KeepsRest
            /\ mounted = "PhoneContact" => PhoneContact!SavesAsTyped]_vars
    OBVIOUS
  <1> QED  BY <1>1, ContactSteps, PhoneContactSteps, PTL DEF SavedAsTyped

\* A draft that may go on asks for no more units than its seller was shown, on
\* both applications alike, and a discount explains the price beside it.
THEOREM DraftsFitStock == Spec => []LinesFitStock
  <1>1. (mounted = "Lines" => Lines!ValidFitsStock /\ Lines!ValidatorsAgree /\
         Lines!DiscountExplainsPrice)
        => LinesFitStock
    BY DEF LinesFitStock
  <1> QED  BY <1>1, LinesHolds, PTL

\* What is reported as done is what was confirmed: the lines that were
\* reviewed, and the action of the dialog that closes.
THEOREM SalesAreDoneAsConfirmed == Spec => DoneAsConfirmed
  <1>1. /\ [mounted = "EditedWizard" => EditedWizard!SellsAsReviewed]_vars
        /\ [mounted = "PhoneSale" => PhoneSale!SucceedsForThisIntent]_vars
        => [/\ mounted = "EditedWizard" => EditedWizard!SellsAsReviewed
            /\ mounted = "PhoneSale" => PhoneSale!SucceedsForThisIntent]_vars
    OBVIOUS
  <1> QED  BY <1>1, EditedWizardSteps, PhoneSaleSteps, PTL DEF DoneAsConfirmed

\* A screen that is mounted keeps its types.
THEOREM ScreensAreTyped == Spec => []TypeOK
  <1>1. /\ (mounted = "WebWizard" => WebWizard!TypeOK)
        /\ (mounted = "KeptWizard" => KeptWizard!TypeOK)
        /\ (mounted = "PhoneWizard" => PhoneWizard!TypeOK)
        /\ (mounted = "LeftWizard" => LeftWizard!TypeOK)
        /\ (mounted = "EditedWizard" => EditedWizard!TypeOK)
        /\ (mounted = "Quick" => Quick!TypeOK)
        /\ (mounted = "QuickTwo" => QuickTwo!TypeOK)
        /\ (mounted = "Sale" => Sale!TypeOK)
        /\ (mounted = "Contact" => Contact!TypeOK)
        /\ (mounted = "PhoneContact" => PhoneContact!TypeOK)
        /\ (mounted = "PhoneSale" => PhoneSale!TypeOK)
        /\ (mounted = "Lines" => Lines!TypeOK)
        => TypeOK
    BY DEF TypeOK
  <1> QED  BY <1>1, WebWizardTyped, KeptWizardTyped, PhoneWizardTyped, LeftWizardTyped,
     EditedWizardTyped, QuickTyped, QuickTwoTyped, SaleTyped, ContactTyped,
     PhoneContactTyped, PhoneSaleTyped, LinesTyped, PTL
=============================================================================
