--------------------------- MODULE MCShop_proofs ----------------------------
(***************************************************************************)
(* Proofs that the screens around the sales of a shop, behind one router,  *)
(* have their properties.  A screen keeps what is proved of it for every   *)
(* value of its constants: those of MCShop are one such value, its         *)
(* variables are those of the router while it is mounted, and the router   *)
(* never mounts another.  The general proofs are instantiated three times  *)
(* because screens are mounted with several values of their constants; the *)
(* list and the receipt have modules of their own.                         *)
(***************************************************************************)
EXTENDS MCShop, TLAPS

\* What the screens of an instance do not have.
Clients == None

Apps == None

Pages == None

MaxKeys == None

Modes == None

Data == None

Blank == None

Names == None

Quantities == None

Photos == None

Limit == None

Columns == None

Required == None

Values == None

MaxActive == None

Web == None

MaxImages == None

MaxAssets == None

Screens == None

Sizes == None

Stocks == None

MaxStock == None

Reserved == None

MaxOpenings == None

MaxMoveKeys == None

MaxPhotos == None

MaxQueue == None

ShipPages == None

MaxShipKeys == None

Emails == None

Invalid == None

MaxLabels == None

MaxAccounts == None

MaxIds == None

MaxSends == None

MaxChanges == None

CheckoutModes == None

Tabs == None

Methods == None

MaxMade == None

client == None

draft == None

photos == None

key == None

keys == None

call == None

calls == None

saved == None

page == None

archived == None

shown == None

lost == None

mode == None

used == None

origin == None

products == None

source == None

told == None

fields == None

mine == None

other == None

schema == None

product == None

loaded == None

columnDraft == None

save == None

typed == None

sheet == None

gallery == None

primary == None

assets == None

ready == None

upload == None

failed == None

change == None

screen == None

onHand == None

withdrawn == None

shownStock == None

moves == None

opening == None

isOpen == None

moveDraft == None

moveKey == None

moveKeys == None

done == None

allowed == None

added == None

queue == None

phase == None

candidates == None

applied == None

searchKey == None

searches == None

begun == None

ledger == None

email == None

order == None

shipment == None

mail == None

labels == None

shipPage == None

left == None

stored == None

ids == None

profile == None

seen == None

bankDraft == None

bankCalls == None

sends == None

reported == None

astray == None

method == None

saleMode == None

status == None

buyer == None

checkout == None

made == None

tab == None

----------------------------------------------------------------------------
(* Screens with the constants of ListP.                                    *)

ListP == INSTANCE ProductList_proofs WITH Clients <- {"web", "mobile"},
    Filters <- {"all"}, Products <- {1, 2, 3}, Tagged <- {}, MaxValue <- 1,
    PageSize <- 1, MaxChanges <- 1, First <- "all", client <- s1, descending <- s2,
    value <- s3, present <- s4, changes <- s5, typed <- s6, filter <- s7,
    pages <- s8, moved <- s9, fetch <- s10, error <- s11

\* Both instances of the library count alike.
LEMMA ListCount ==
    \A S : List!Cardinality(S) = ListP!Cardinality(S)
  BY Zenon DEF List!Cardinality, ListP!Cardinality

\* Both call the same sets finite.
LEMMA ListFinite ==
    \A S : List!IsFiniteSet(S) <=> ListP!IsFiniteSet(S)
  BY Zenon DEF List!IsFiniteSet, ListP!IsFiniteSet

\* Both have the same row at a place.
LEMMA ListNth ==
    \A rows, n : List!Nth(rows, n) = ListP!Nth(rows, n)
  BY Zenon DEF List!Beyond, List!InOrder, List!Nth, ListP!Beyond, ListP!InOrder,
     ListP!Nth, List!Cardinality, ListP!Cardinality

\* Both put the rows in the same order.
LEMMA ListOrdered ==
    \A rows : List!Ordered(rows) = ListP!Ordered(rows)
  BY ListNth, ListCount DEF List!Ordered, ListP!Ordered

\* Both cut a list alike.
LEMMA ListUpto ==
    \A s, n : List!Upto(s, n) = ListP!Upto(s, n)
  BY DEF List!Upto, List!Min, ListP!Upto, ListP!Min

\* Both return the same page.
LEMMA ListPaginate ==
    \A f, after : List!Paginate(f, after) = ListP!Paginate(f, after)
  <1> TAKE f, after
  <1>1. PICK rows :
           rows = {i \in List!Matches(f) : after = None \/ List!KeysetFilter(i, after)}
    OBVIOUS
  <1>2. rows = {i \in ListP!Matches(f) : after = None \/ ListP!KeysetFilter(i, after)}
    BY <1>1, Zenon DEF List!Matches, List!Beyond, List!KeysetFilter, ListP!Matches,
       ListP!Beyond, ListP!KeysetFilter
  <1>3. PICK w, cut : w = List!Ordered(rows) /\ cut = List!Upto(w, 1)
    OBVIOUS
  <1> QED  BY <1>1, <1>2, <1>3, ListOrdered, ListUpto DEF List!Paginate, List!Last,
     ListP!Paginate, ListP!Last

\* List is what is proved about, with its constants.
LEMMA ListSame ==
    /\ List!ListAssumption <=> ListP!ListAssumption
    /\ List!Init <=> ListP!Init
    /\ List!Next <=> ListP!Next
    /\ List!NoRowIsSkipped <=> ListP!NoRowIsSkipped
    /\ List!NoRowIsRepeated <=> ListP!NoRowIsRepeated
  <1>1. /\ List!ListAssumption <=> ListP!ListAssumption
        /\ List!Init <=> ListP!Init
        /\ List!NoRowIsSkipped <=> ListP!NoRowIsSkipped
        /\ List!NoRowIsRepeated <=> ListP!NoRowIsRepeated
    BY ListFinite DEF List!Value, List!Cursor, List!Page, List!Request,
       List!ListAssumption, List!Init, List!Matches, List!Listed, List!NoRowIsSkipped,
       List!NoRowIsRepeated, List!BoundedSeq, List!Contains, List!Last, List!SeqOf,
       ListP!Value, ListP!Cursor, ListP!Page, ListP!Request, ListP!ListAssumption,
       ListP!Init, ListP!Matches, ListP!Listed, ListP!NoRowIsSkipped,
       ListP!NoRowIsRepeated, ListP!BoundedSeq, ListP!Contains, ListP!Last, ListP!SeqOf
  <1>2. /\ List!Debounce <=> ListP!Debounce
        /\ List!PhoneClearFilters <=> ListP!PhoneClearFilters
        /\ List!WebClearFilters <=> ListP!WebClearFilters
        /\ List!Start <=> ListP!Start
        /\ List!WebTryAgain <=> ListP!WebTryAgain
        /\ List!PhoneTryAgain <=> ListP!PhoneTryAgain
        /\ List!WebNextPage <=> ListP!WebNextPage
        /\ List!WebBack <=> ListP!WebBack
        /\ List!PhoneEndReached <=> ListP!PhoneEndReached
        /\ List!Refresh <=> ListP!Refresh
    BY ListUpto DEF List!server, List!UpdateParams, List!WebClearFilters, List!Debounce,
       List!PhoneClearFilters, List!Ask, List!Start, List!TryAgain, List!HasNextPage,
       List!WebTryAgain, List!PhoneTryAgain, List!WebNextPage, List!WebBack,
       List!PhoneEndReached, List!Refresh, List!Front, List!Last, ListP!server,
       ListP!UpdateParams, ListP!WebClearFilters, ListP!Debounce, ListP!PhoneClearFilters,
       ListP!Ask, ListP!Start, ListP!TryAgain, ListP!HasNextPage, ListP!WebTryAgain,
       ListP!PhoneTryAgain, ListP!WebNextPage, ListP!WebBack, ListP!PhoneEndReached,
       ListP!Refresh, ListP!Front, ListP!Last
  <1>3. \A f : /\ (List!WebFilter(f) <=> ListP!WebFilter(f))
              /\ (List!PhoneType(f) <=> ListP!PhoneType(f))
              /\ (List!PhoneToggle(f) <=> ListP!PhoneToggle(f))
              /\ (List!Fail(f) <=> ListP!Fail(f))
    BY ListUpto DEF List!server, List!UpdateParams, List!WebFilter, List!PhoneType,
       List!PhoneToggle, List!Fail, ListP!server, ListP!UpdateParams, ListP!WebFilter,
       ListP!PhoneType, ListP!PhoneToggle, ListP!Fail
  <1>4. \A f : /\ (List!FirstPage(f) <=> ListP!FirstPage(f))
              /\ (List!NextPage(f) <=> ListP!NextPage(f))
              /\ (List!WebPageAgain(f) <=> ListP!WebPageAgain(f))
    BY ListPaginate DEF List!server, List!Settle, List!Asked, List!FirstPage,
       List!NextPage, List!WebPageAgain, List!Front, ListP!server, ListP!Settle,
       ListP!Asked, ListP!FirstPage, ListP!NextPage, ListP!WebPageAgain, ListP!Front
  <1>5. \A f : List!PhonePageAgain(f) <=> ListP!PhonePageAgain(f)
    BY ListPaginate DEF List!server, List!Settle, List!Asked, List!PhonePageAgain,
       ListP!server, ListP!Settle, ListP!Asked, ListP!PhonePageAgain
  <1>6. \A i, v : /\ (List!ChangePresence(i) <=> ListP!ChangePresence(i))
                 /\ (List!ChangeValue(i, v) <=> ListP!ChangeValue(i, v))
    BY DEF List!Change, List!ChangeValue, List!ChangePresence, ListP!Change,
       ListP!ChangeValue, ListP!ChangePresence
  <1> QED  BY <1>1, <1>2, <1>3, <1>4, <1>5, <1>6 DEF List!Next, List!Value, ListP!Next, ListP!Value

\* While List is mounted, the steps are its steps, and it stays.
LEMMA ListMounted ==
    /\ Init /\ mounted = "List" => ListP!Init
    /\ [Next]_vars /\ mounted = "List" => [ListP!Next]_(ListP!vars)
    /\ [Next]_vars => ((mounted = "List")' <=> mounted = "List")
    /\ ListP!NoRowIsSkipped /\ ListP!NoRowIsRepeated => List!NoRowIsSkipped /\
           List!NoRowIsRepeated
  BY ListSame DEF Init, Next, vars, ListP!vars

\* The list of the inventory.
LEMMA ListHolds ==
    Spec => [](mounted = "List" => /\ List!NoRowIsSkipped
                                   /\ List!NoRowIsRepeated)
  <1>1. ListP!Init /\ [][ListP!Next]_(ListP!vars) => [](ListP!NoRowIsSkipped /\
         ListP!NoRowIsRepeated)
    BY ShopAssumption, ListSame, ListP!EachRowIsOnce DEF ShopAssumption
  <1> QED  BY <1>1, ListMounted, PTL DEF Spec

\* Its state keeps its types.
LEMMA ListTyped ==
    Spec => [](mounted = "List" => List!TypeOK)
  <1>1. ListP!Init /\ [][ListP!Next]_(ListP!vars) => []ListP!TypeOK
    BY ShopAssumption, ListSame, ListP!ListIsTyped DEF ShopAssumption
  <1>2. ListP!TypeOK => List!TypeOK
    BY DEF List!Value, List!Cursor, List!Page, List!Request, List!TypeOK, List!BoundedSeq,
       List!SeqOf, ListP!Value, ListP!Cursor, ListP!Page, ListP!Request, ListP!TypeOK,
       ListP!BoundedSeq, ListP!SeqOf
  <1> QED  BY <1>1, <1>2, ListMounted, PTL DEF Spec

----------------------------------------------------------------------------
(* Screens with the constants of ReceiptP.                                 *)

ReceiptP == INSTANCE ReceiptUpload_proofs WITH Tabs <- {"a", "b"}, MaxAssets <- 1,
    status <- s1, left <- s2, buyer <- s3, proof <- s4, asset <- s5, tab <- s6

\* Receipt is what is proved about, with its constants.
LEMMA ReceiptSame ==
    /\ Receipt!ReceiptAssumption <=> ReceiptP!ReceiptAssumption
    /\ Receipt!Init <=> ReceiptP!Init
    /\ Receipt!Next <=> ReceiptP!Next
    /\ Receipt!ReviewIsBacked <=> ReceiptP!ReviewIsBacked
  BY DEF Receipt!ReceiptAssumption, Receipt!Open, Receipt!Assets, Receipt!NoProof,
     Receipt!Closed, Receipt!Init, Receipt!At, Receipt!Pending, Receipt!Show,
     Receipt!Read, Receipt!OpenOffer, Receipt!OpenReceipt, Receipt!Leave, Receipt!Refetch,
     Receipt!EditDelivery, Receipt!SaveDelivery, Receipt!DeliveryReady, Receipt!CanUpload,
     Receipt!Uploading, Receipt!SelectFile, Receipt!SendReceipt, Receipt!CheckoutStatus,
     Receipt!SetBuyerDetails, Receipt!SetBuyerDetailsUnsent,
     Receipt!RequireTransferUpload, Receipt!Stop, Receipt!PrepareReceiptUpload,
     Receipt!PrepareRefused, Receipt!UploadBinary, Receipt!ScopedAsset, Receipt!Matches,
     Receipt!CompleteReceiptUpload, Receipt!Review, Receipt!CancelOrder,
     Receipt!RestoreTarget, Receipt!RestoreOrder, Receipt!ExpireOrder, Receipt!Next,
     Receipt!ReviewIsBacked, ReceiptP!ReceiptAssumption, ReceiptP!Open, ReceiptP!Assets,
     ReceiptP!NoProof, ReceiptP!Closed, ReceiptP!Init, ReceiptP!At, ReceiptP!Pending,
     ReceiptP!Show, ReceiptP!Read, ReceiptP!OpenOffer, ReceiptP!OpenReceipt,
     ReceiptP!Leave, ReceiptP!Refetch, ReceiptP!EditDelivery, ReceiptP!SaveDelivery,
     ReceiptP!DeliveryReady, ReceiptP!CanUpload, ReceiptP!Uploading, ReceiptP!SelectFile,
     ReceiptP!SendReceipt, ReceiptP!CheckoutStatus, ReceiptP!SetBuyerDetails,
     ReceiptP!SetBuyerDetailsUnsent, ReceiptP!RequireTransferUpload, ReceiptP!Stop,
     ReceiptP!PrepareReceiptUpload, ReceiptP!PrepareRefused, ReceiptP!UploadBinary,
     ReceiptP!ScopedAsset, ReceiptP!Matches, ReceiptP!CompleteReceiptUpload,
     ReceiptP!Review, ReceiptP!CancelOrder, ReceiptP!RestoreTarget, ReceiptP!RestoreOrder,
     ReceiptP!ExpireOrder, ReceiptP!Next, ReceiptP!ReviewIsBacked

\* While Receipt is mounted, the steps are its steps, and it stays.
LEMMA ReceiptMounted ==
    /\ Init /\ mounted = "Receipt" => ReceiptP!Init
    /\ [Next]_vars /\ mounted = "Receipt" => [ReceiptP!Next]_(ReceiptP!vars)
    /\ [Next]_vars => ((mounted = "Receipt")' <=> mounted = "Receipt")
    /\ ReceiptP!ReviewIsBacked => Receipt!ReviewIsBacked
  BY ReceiptSame DEF Init, Next, vars, ReceiptP!vars

\* Two tabs that meet in one upload.
LEMMA ReceiptHolds ==
    Spec => [](mounted = "Receipt" => Receipt!ReviewIsBacked)
  <1>1. ReceiptP!Spec => [](ReceiptP!ReviewIsBacked)
    BY ShopAssumption, ReceiptSame, ReceiptP!ReviewsAreBacked DEF ShopAssumption
  <1> QED  BY <1>1, ReceiptMounted, PTL DEF Spec, ReceiptP!Spec

\* Its state keeps its types.
LEMMA ReceiptTyped ==
    Spec => [](mounted = "Receipt" => Receipt!TypeOK)
  <1>1. ReceiptP!Spec => []ReceiptP!TypeOK
    BY ShopAssumption, ReceiptSame, ReceiptP!ReviewsAreBacked DEF ShopAssumption
  <1>2. ReceiptP!TypeOK => Receipt!TypeOK
    BY DEF Receipt!Status, Receipt!Assets, Receipt!TabRow, Receipt!TypeOK,
       ReceiptP!Status, ReceiptP!Assets, ReceiptP!TabRow, ReceiptP!TypeOK
  <1> QED  BY <1>1, <1>2, ReceiptMounted, PTL DEF Spec, ReceiptP!Spec

----------------------------------------------------------------------------
(* Screens with the constants of ResendP.                                  *)

ResendP == INSTANCE ReceiptUpload_proofs WITH Tabs <- {"a"}, MaxAssets <- 3,
    status <- s1, left <- s2, buyer <- s3, proof <- s4, asset <- s5, tab <- s6

\* Resend is what is proved about, with its constants.
LEMMA ResendSame ==
    /\ Resend!ReceiptAssumption <=> ResendP!ReceiptAssumption
    /\ Resend!Init <=> ResendP!Init
    /\ Resend!Next <=> ResendP!Next
    /\ Resend!ReviewIsBacked <=> ResendP!ReviewIsBacked
  BY DEF Resend!ReceiptAssumption, Resend!Open, Resend!Assets, Resend!NoProof,
     Resend!Closed, Resend!Init, Resend!At, Resend!Pending, Resend!Show, Resend!Read,
     Resend!OpenOffer, Resend!OpenReceipt, Resend!Leave, Resend!Refetch,
     Resend!EditDelivery, Resend!SaveDelivery, Resend!DeliveryReady, Resend!CanUpload,
     Resend!Uploading, Resend!SelectFile, Resend!SendReceipt, Resend!CheckoutStatus,
     Resend!SetBuyerDetails, Resend!SetBuyerDetailsUnsent, Resend!RequireTransferUpload,
     Resend!Stop, Resend!PrepareReceiptUpload, Resend!PrepareRefused, Resend!UploadBinary,
     Resend!ScopedAsset, Resend!Matches, Resend!CompleteReceiptUpload, Resend!Review,
     Resend!CancelOrder, Resend!RestoreTarget, Resend!RestoreOrder, Resend!ExpireOrder,
     Resend!Next, Resend!ReviewIsBacked, ResendP!ReceiptAssumption, ResendP!Open,
     ResendP!Assets, ResendP!NoProof, ResendP!Closed, ResendP!Init, ResendP!At,
     ResendP!Pending, ResendP!Show, ResendP!Read, ResendP!OpenOffer, ResendP!OpenReceipt,
     ResendP!Leave, ResendP!Refetch, ResendP!EditDelivery, ResendP!SaveDelivery,
     ResendP!DeliveryReady, ResendP!CanUpload, ResendP!Uploading, ResendP!SelectFile,
     ResendP!SendReceipt, ResendP!CheckoutStatus, ResendP!SetBuyerDetails,
     ResendP!SetBuyerDetailsUnsent, ResendP!RequireTransferUpload, ResendP!Stop,
     ResendP!PrepareReceiptUpload, ResendP!PrepareRefused, ResendP!UploadBinary,
     ResendP!ScopedAsset, ResendP!Matches, ResendP!CompleteReceiptUpload, ResendP!Review,
     ResendP!CancelOrder, ResendP!RestoreTarget, ResendP!RestoreOrder,
     ResendP!ExpireOrder, ResendP!Next, ResendP!ReviewIsBacked

\* While Resend is mounted, the steps are its steps, and it stays.
LEMMA ResendMounted ==
    /\ Init /\ mounted = "Resend" => ResendP!Init
    /\ [Next]_vars /\ mounted = "Resend" => [ResendP!Next]_(ResendP!vars)
    /\ [Next]_vars => ((mounted = "Resend")' <=> mounted = "Resend")
    /\ ResendP!ReviewIsBacked => Resend!ReviewIsBacked
  BY ResendSame DEF Init, Next, vars, ResendP!vars

\* A tab that begins again.
LEMMA ResendHolds ==
    Spec => [](mounted = "Resend" => Resend!ReviewIsBacked)
  <1>1. ResendP!Spec => [](ResendP!ReviewIsBacked)
    BY ShopAssumption, ResendSame, ResendP!ReviewsAreBacked DEF ShopAssumption
  <1> QED  BY <1>1, ResendMounted, PTL DEF Spec, ResendP!Spec

\* Its state keeps its types.
LEMMA ResendTyped ==
    Spec => [](mounted = "Resend" => Resend!TypeOK)
  <1>1. ResendP!Spec => []ResendP!TypeOK
    BY ShopAssumption, ResendSame, ResendP!ReviewsAreBacked DEF ShopAssumption
  <1>2. ResendP!TypeOK => Resend!TypeOK
    BY DEF Resend!Status, Resend!Assets, Resend!TabRow, Resend!TypeOK, ResendP!Status,
       ResendP!Assets, ResendP!TabRow, ResendP!TypeOK
  <1> QED  BY <1>1, <1>2, ResendMounted, PTL DEF Spec, ResendP!Spec

----------------------------------------------------------------------------
(* Screens with the constants of First.                                    *)

First == INSTANCE ShopScreens_proofs WITH Clients <- {"web", "mobile"},
    Apps <- {"web"}, Pages <- {"web", "phone"}, MaxKeys <- 2,
    Data <- {"blank", "a", "b"}, Blank <- "blank", Names <- {"n1", "n2"},
    Quantities <- {0}, Photos <- {"f1"}, Limit <- 1, Columns <- {"f1", "f2"},
    Required <- {"f1", "f2"}, Values <- {"a"}, MaxActive <- 2, Web <- {"web"},
    MaxImages <- 2, MaxAssets <- 2, Screens <- {"web", "list"}, Sizes <- {1},
    Stocks <- {1}, MaxStock <- 2, Reserved <- 0, MaxOpenings <- 2, MaxMoveKeys <- 4,
    MaxPhotos <- 3, MaxQueue <- 2, MaxAccounts <- 1, MaxIds <- 3, MaxSends <- 2,
    MaxChanges <- 0, CheckoutModes <- {"pickup"}, Tabs <- {"t", "u"},
    Methods <- {"mercado_pago", "bank_transfer"}, MaxMade <- 2, client <- s1,
    draft <- s5, photos <- s6, key <- s7, keys <- s8, call <- s9, calls <- s11,
    saved <- s11, page <- s12, archived <- s1, shown <- s6, lost <- s12, used <- s7,
    origin <- s2, products <- s3, source <- s4, told <- s10, fields <- s2,
    mine <- s3, other <- s4, schema <- s5, product <- s6, loaded <- s7,
    columnDraft <- s8, save <- s9, typed <- s10, sheet <- s11, gallery <- s2,
    primary <- s3, assets <- s4, ready <- s5, upload <- s7, failed <- s8,
    change <- s9, screen <- s1, onHand <- s2, withdrawn <- s3, shownStock <- s5,
    moves <- s4, opening <- s6, isOpen <- s7, moveDraft <- s8, moveKey <- s9,
    moveKeys <- s10, done <- s13, allowed <- s2, added <- s3, queue <- s4,
    phase <- s5, candidates <- s6, applied <- s7, searchKey <- s8, searches <- s9,
    begun <- s10, ledger <- s11, stored <- s2, ids <- s3, profile <- s4, seen <- s5,
    bankDraft <- s6, bankCalls <- s7, sends <- s8, reported <- s9, astray <- s10,
    method <- s1, saleMode <- s2, status <- s3, buyer <- s4, checkout <- s5,
    made <- s6, tab <- s8

\* Both instances of the library count alike.
LEMMA FormCount ==
    \A S : Form!Cardinality(S) = First!Form!Cardinality(S)
  BY Zenon DEF Form!Cardinality, First!Form!Cardinality

\* Both call the same sets finite.
LEMMA FormFinite ==
    \A S : Form!IsFiniteSet(S) <=> First!Form!IsFiniteSet(S)
  BY Zenon DEF Form!IsFiniteSet, First!Form!IsFiniteSet

\* Form is what is proved about, with its constants.
LEMMA FormSame ==
    /\ Form!FormAssumption <=> First!Form!FormAssumption
    /\ Form!Init <=> First!Form!Init
    /\ Form!Next <=> First!Form!Next
    /\ Form!OneProductPerKey <=> First!Form!OneProductPerKey
    /\ Form!SavedIsMade <=> First!Form!SavedIsMade
    /\ Form!PhotosInOrder <=> First!Form!PhotosInOrder
  BY FormCount, FormFinite DEF Form!FormAssumption, Form!form, Form!given, Form!Draft,
     Form!Live, Form!Of, Form!Row, Form!Init, Form!ApplySource, Form!WebApplySource,
     Form!PhoneApplySource, Form!ChooseAnother, Form!WebChooseAnother,
     Form!PhoneChooseAnother, Form!ShowForm, Form!WebType, Form!PhoneType,
     Form!WebAddPhoto, Form!PhoneAddPhoto, Form!RemovePhoto, Form!WebRemovePhoto,
     Form!PhoneRemovePhoto, Form!Leave, Form!WebLeave, Form!PhoneLeave, Form!Valid,
     Form!Save, Form!WebSubmit, Form!PhoneSubmit, Form!Step, Form!At,
     Form!AssertCanCreate, Form!CreateProduct, Form!Lose, Form!Created, Form!Attach,
     Form!AttachNext, Form!Saved, Form!WebSaved, Form!PhoneSaved, Form!NewKey,
     Form!WebFailed, Form!PhoneFailed, Form!OthersCreate, Form!OthersArchive, Form!Next,
     Form!OneProductPerKey, Form!SavedIsMade, Form!PhotosInOrder, Form!Contains,
     Form!IsPrefix, Form!RemoveAt, First!Form!FormAssumption, First!Form!form,
     First!Form!given, First!Form!Draft, First!Form!Live, First!Form!Of, First!Form!Row,
     First!Form!Init, First!Form!ApplySource, First!Form!WebApplySource,
     First!Form!PhoneApplySource, First!Form!ChooseAnother, First!Form!WebChooseAnother,
     First!Form!PhoneChooseAnother, First!Form!ShowForm, First!Form!WebType,
     First!Form!PhoneType, First!Form!WebAddPhoto, First!Form!PhoneAddPhoto,
     First!Form!RemovePhoto, First!Form!WebRemovePhoto, First!Form!PhoneRemovePhoto,
     First!Form!Leave, First!Form!WebLeave, First!Form!PhoneLeave, First!Form!Valid,
     First!Form!Save, First!Form!WebSubmit, First!Form!PhoneSubmit, First!Form!Step,
     First!Form!At, First!Form!AssertCanCreate, First!Form!CreateProduct, First!Form!Lose,
     First!Form!Created, First!Form!Attach, First!Form!AttachNext, First!Form!Saved,
     First!Form!WebSaved, First!Form!PhoneSaved, First!Form!NewKey, First!Form!WebFailed,
     First!Form!PhoneFailed, First!Form!OthersCreate, First!Form!OthersArchive,
     First!Form!Next, First!Form!OneProductPerKey, First!Form!SavedIsMade,
     First!Form!PhotosInOrder, First!Form!Contains, First!Form!IsPrefix,
     First!Form!RemoveAt

\* While Form is mounted, the steps are its steps, and it stays.
LEMMA FormMounted ==
    /\ Init /\ mounted = "Form" => First!Form!Init
    /\ [Next]_vars /\ mounted = "Form" => [First!Form!Next]_(First!Form!vars)
    /\ [Next]_vars => ((mounted = "Form")' <=> mounted = "Form")
    /\ First!Form!OneProductPerKey /\ First!Form!SavedIsMade /\ First!Form!PhotosInOrder =>
           Form!OneProductPerKey /\ Form!SavedIsMade /\ Form!PhotosInOrder
  BY FormSame DEF Init, Next, vars, First!Form!vars

\* The form of a product.
LEMMA FormHolds ==
    Spec => [](mounted = "Form" => /\ Form!OneProductPerKey
                                   /\ Form!SavedIsMade
                                   /\ Form!PhotosInOrder)
  <1>1. First!Form!Spec => [](First!Form!OneProductPerKey /\ First!Form!SavedIsMade /\
         First!Form!PhotosInOrder)
    BY ShopAssumption, FormSame, First!ProductsAreMade DEF ShopAssumption
  <1> QED  BY <1>1, FormMounted, PTL DEF Spec, First!Form!Spec

\* Its state keeps its types.
LEMMA FormTyped ==
    Spec => [](mounted = "Form" => Form!TypeOK)
  <1>1. First!Form!Spec => []First!Form!TypeOK
    BY ShopAssumption, FormSame, First!FormIsTyped DEF ShopAssumption
  <1>2. First!Form!TypeOK => Form!TypeOK
    BY FormCount DEF Form!form, Form!Draft, Form!Queue, Form!Product, Form!Call,
       Form!Live, Form!TypeOK, Form!BoundedSeq, Form!IsInjective, Form!SeqOf,
       First!Form!form, First!Form!Draft, First!Form!Queue, First!Form!Product,
       First!Form!Call, First!Form!Live, First!Form!TypeOK, First!Form!BoundedSeq,
       First!Form!IsInjective, First!Form!SeqOf
  <1> QED  BY <1>1, <1>2, FormMounted, PTL DEF Spec, First!Form!Spec

\* Both instances of the library count alike.
LEMMA WebColumnsCount ==
    \A S : WebColumns!Cardinality(S) = First!Column!Cardinality(S)
  BY Zenon DEF WebColumns!Cardinality, First!Column!Cardinality

\* WebColumns is what is proved about, with its constants.
LEMMA WebColumnsSame ==
    /\ WebColumns!ColumnAssumption <=> First!Column!ColumnAssumption
    /\ WebColumns!Init <=> First!Column!Init
    /\ WebColumns!Next <=> First!Column!Next
    /\ WebColumns!SavesTyped <=> First!Column!SavesTyped
    /\ WebColumns!KeepsInactive <=> First!Column!KeepsInactive
  BY WebColumnsCount DEF WebColumns!ColumnAssumption, WebColumns!server,
     WebColumns!editor, WebColumns!Attributes, WebColumns!Untyped, WebColumns!Empty,
     WebColumns!Active, WebColumns!Init, WebColumns!FetchSchema, WebColumns!Hydrate,
     WebColumns!WebFetchProduct, WebColumns!PhoneFetchProduct, WebColumns!Known,
     WebColumns!WebTypeColumn, WebColumns!PhoneTypeColumn, WebColumns!Complete,
     WebColumns!Submit, WebColumns!WebSave, WebColumns!PhoneSave, WebColumns!Sent,
     WebColumns!Stored, WebColumns!Accepted, WebColumns!UpdateProduct,
     WebColumns!SaveAnswered, WebColumns!WebCreateColumn, WebColumns!PhoneCreateColumn,
     WebColumns!AssertActiveSlot, WebColumns!Backfilled, WebColumns!CreateColumn,
     WebColumns!ColumnAnswered, WebColumns!Deactivate, WebColumns!Reactivate,
     WebColumns!OthersCreateColumn, WebColumns!OthersCreateProduct,
     WebColumns!OthersWrite, WebColumns!Next, WebColumns!Updates, WebColumns!SavesTyped,
     WebColumns!KeepsInactive, First!Column!ColumnAssumption, First!Column!server,
     First!Column!editor, First!Column!Attributes, First!Column!Untyped,
     First!Column!Empty, First!Column!Active, First!Column!Init, First!Column!FetchSchema,
     First!Column!Hydrate, First!Column!WebFetchProduct, First!Column!PhoneFetchProduct,
     First!Column!Known, First!Column!WebTypeColumn, First!Column!PhoneTypeColumn,
     First!Column!Complete, First!Column!Submit, First!Column!WebSave,
     First!Column!PhoneSave, First!Column!Sent, First!Column!Stored,
     First!Column!Accepted, First!Column!UpdateProduct, First!Column!SaveAnswered,
     First!Column!WebCreateColumn, First!Column!PhoneCreateColumn,
     First!Column!AssertActiveSlot, First!Column!Backfilled, First!Column!CreateColumn,
     First!Column!ColumnAnswered, First!Column!Deactivate, First!Column!Reactivate,
     First!Column!OthersCreateColumn, First!Column!OthersCreateProduct,
     First!Column!OthersWrite, First!Column!Next, First!Column!Updates,
     First!Column!SavesTyped, First!Column!KeepsInactive

\* While WebColumns is mounted, the steps are its steps, and it stays.
LEMMA WebColumnsMounted ==
    /\ Init /\ mounted = "WebColumns" => First!Column!Init
    /\ [Next]_vars /\ mounted = "WebColumns" => [First!Column!Next]_(First!Column!vars)
    /\ [Next]_vars => ((mounted = "WebColumns")' <=> mounted = "WebColumns")
    /\ [Next]_vars /\ mounted = "WebColumns" /\ [First!Column!SavesTyped /\
           First!Column!KeepsInactive]_(First!Column!vars) => [mounted = "WebColumns" =>
                  WebColumns!SavesTyped /\ WebColumns!KeepsInactive]_vars
  BY WebColumnsSame DEF Init, Next, vars, First!Column!vars

\* The columns on the web.
LEMMA WebColumnsSteps ==
    Spec => [][mounted = "WebColumns" => WebColumns!SavesTyped /\ WebColumns!KeepsInactive]_vars
  <1>1. First!Column!Spec => [][First!Column!SavesTyped /\
         First!Column!KeepsInactive]_(First!Column!vars)
    BY ShopAssumption, WebColumnsSame, First!EditsKeepColumns DEF ShopAssumption
  <1>2. ~(mounted = "WebColumns") => [mounted = "WebColumns" => WebColumns!SavesTyped /\
         WebColumns!KeepsInactive]_vars
    OBVIOUS
  <1> QED  BY <1>1, <1>2, WebColumnsMounted, PTL DEF Spec, First!Column!Spec

\* Its state keeps its types.
LEMMA WebColumnsTyped ==
    Spec => [](mounted = "WebColumns" => WebColumns!TypeOK)
  <1>1. First!Column!Spec => []First!Column!TypeOK
    BY ShopAssumption, WebColumnsSame, First!ColumnsAreTyped DEF ShopAssumption
  <1>2. First!Column!TypeOK => WebColumns!TypeOK
    BY DEF WebColumns!Attributes, WebColumns!Typing, WebColumns!Save, WebColumns!TypeOK,
       First!Column!Attributes, First!Column!Typing, First!Column!Save,
       First!Column!TypeOK
  <1> QED  BY <1>1, <1>2, WebColumnsMounted, PTL DEF Spec, First!Column!Spec

\* Search is what is proved about, with its constants.
LEMMA SearchSame ==
    /\ Search!SearchAssumption <=> First!Search!SearchAssumption
    /\ Search!Init <=> First!Search!Init
    /\ Search!Next <=> First!Search!Next
    /\ Search!OneSearchPerKey <=> First!Search!OneSearchPerKey
  BY DEF Search!SearchAssumption, Search!Photo, Search!Init, Search!RunAssistedSearch,
     Search!AddPhoto, Search!WebAddPhoto, Search!PhoneAddPhoto,
     Search!ResetAssistedSearch, Search!RemovePhoto, Search!WebRemovePhoto,
     Search!PhoneRemovePhoto, Search!ApplyCandidate, Search!WebApplyCandidate,
     Search!PhoneApplyCandidate, Search!FillByHand, Search!WebFillByHand,
     Search!PhoneFillByHand, Search!Leave, Search!PhonePlanRead, Search!Step,
     Search!Upload, Search!SuggestProducts, Search!Fail, Search!On, Search!Found,
     Search!Failed, Search!Next, Search!OneSearchPerKey, Search!RemoveAt,
     First!Search!SearchAssumption, First!Search!Photo, First!Search!Init,
     First!Search!RunAssistedSearch, First!Search!AddPhoto, First!Search!WebAddPhoto,
     First!Search!PhoneAddPhoto, First!Search!ResetAssistedSearch,
     First!Search!RemovePhoto, First!Search!WebRemovePhoto, First!Search!PhoneRemovePhoto,
     First!Search!ApplyCandidate, First!Search!WebApplyCandidate,
     First!Search!PhoneApplyCandidate, First!Search!FillByHand,
     First!Search!WebFillByHand, First!Search!PhoneFillByHand, First!Search!Leave,
     First!Search!PhonePlanRead, First!Search!Step, First!Search!Upload,
     First!Search!SuggestProducts, First!Search!Fail, First!Search!On, First!Search!Found,
     First!Search!Failed, First!Search!Next, First!Search!OneSearchPerKey,
     First!Search!RemoveAt

\* While Search is mounted, the steps are its steps, and it stays.
LEMMA SearchMounted ==
    /\ Init /\ mounted = "Search" => First!Search!Init
    /\ [Next]_vars /\ mounted = "Search" => [First!Search!Next]_(First!Search!vars)
    /\ [Next]_vars => ((mounted = "Search")' <=> mounted = "Search")
    /\ First!Search!OneSearchPerKey => Search!OneSearchPerKey
  BY SearchSame DEF Init, Next, vars, First!Search!vars

\* The search of a photo.
LEMMA SearchHolds ==
    Spec => [](mounted = "Search" => Search!OneSearchPerKey)
  <1>1. First!Search!Init /\ [][First!Search!Next]_(First!Search!vars) =>
         [](First!Search!OneSearchPerKey)
    BY ShopAssumption, SearchSame, First!SearchesHaveTheirKeys DEF ShopAssumption
  <1> QED  BY <1>1, SearchMounted, PTL DEF Spec

\* Its state keeps its types.
LEMMA SearchTyped ==
    Spec => [](mounted = "Search" => Search!TypeOK)
  <1>1. First!Search!Init /\ [][First!Search!Next]_(First!Search!vars) => []First!Search!TypeOK
    BY ShopAssumption, SearchSame, First!SearchIsTyped DEF ShopAssumption
  <1>2. First!Search!TypeOK => Search!TypeOK
    BY DEF Search!Photo, Search!Key, Search!Steps, Search!Ask, Search!TypeOK,
       Search!IsInjective, Search!ToSet, First!Search!Photo, First!Search!Key,
       First!Search!Steps, First!Search!Ask, First!Search!TypeOK,
       First!Search!IsInjective, First!Search!ToSet
  <1> QED  BY <1>1, <1>2, SearchMounted, PTL DEF Spec

\* Gallery is what is proved about, with its constants.
LEMMA GallerySame ==
    /\ Gallery!GalleryAssumption <=> First!Gallery!GalleryAssumption
    /\ Gallery!Init <=> First!Gallery!Init
    /\ Gallery!Next <=> First!Gallery!Next
    /\ Gallery!PrimaryInGallery <=> First!Gallery!PrimaryInGallery
    /\ Gallery!LimitHolds <=> First!Gallery!LimitHolds
    /\ Gallery!ReplacesMain <=> First!Gallery!ReplacesMain
  BY DEF Gallery!GalleryAssumption, Gallery!Asset, Gallery!Init, Gallery!Refresh,
     Gallery!Begin, Gallery!WebUpload, Gallery!PhoneUpload, Gallery!Retry,
     Gallery!UploadPrivateFile, Gallery!AttachProductMedia, Gallery!Lose,
     Gallery!UploadFailed, Gallery!UploadOK, Gallery!Asked, Gallery!Ask, Gallery!WebAsk,
     Gallery!PhoneAsk, Gallery!Answered, Gallery!SetPrimary, Gallery!Replaced,
     Gallery!RemoveMedia, Gallery!LoseChange, Gallery!Archive, Gallery!Next,
     Gallery!PrimaryInGallery, Gallery!LimitHolds, Gallery!ReplacesMain, Gallery!Contains,
     Gallery!RemoveAt, First!Gallery!GalleryAssumption, First!Gallery!Asset,
     First!Gallery!Init, First!Gallery!Refresh, First!Gallery!Begin,
     First!Gallery!WebUpload, First!Gallery!PhoneUpload, First!Gallery!Retry,
     First!Gallery!UploadPrivateFile, First!Gallery!AttachProductMedia,
     First!Gallery!Lose, First!Gallery!UploadFailed, First!Gallery!UploadOK,
     First!Gallery!Asked, First!Gallery!Ask, First!Gallery!WebAsk, First!Gallery!PhoneAsk,
     First!Gallery!Answered, First!Gallery!SetPrimary, First!Gallery!Replaced,
     First!Gallery!RemoveMedia, First!Gallery!LoseChange, First!Gallery!Archive,
     First!Gallery!Next, First!Gallery!PrimaryInGallery, First!Gallery!LimitHolds,
     First!Gallery!ReplacesMain, First!Gallery!Contains, First!Gallery!RemoveAt

\* While Gallery is mounted, the steps are its steps, and it stays.
LEMMA GalleryMounted ==
    /\ Init /\ mounted = "Gallery" => First!Gallery!Init
    /\ [Next]_vars /\ mounted = "Gallery" => [First!Gallery!Next]_(First!Gallery!vars)
    /\ [Next]_vars => ((mounted = "Gallery")' <=> mounted = "Gallery")
    /\ First!Gallery!PrimaryInGallery /\ First!Gallery!LimitHolds =>
           Gallery!PrimaryInGallery /\ Gallery!LimitHolds
    /\ [Next]_vars /\ mounted = "Gallery" /\
           [First!Gallery!ReplacesMain]_(First!Gallery!vars) => [mounted = "Gallery" =>
                  Gallery!ReplacesMain]_vars
  BY GallerySame DEF Init, Next, vars, First!Gallery!vars

\* The gallery in every state.
LEMMA GalleryHolds ==
    Spec => [](mounted = "Gallery" => /\ Gallery!PrimaryInGallery
                                      /\ Gallery!LimitHolds)
  <1>1. First!Gallery!Spec => [](First!Gallery!PrimaryInGallery /\ First!Gallery!LimitHolds)
    BY ShopAssumption, GallerySame, First!GalleryHolds DEF ShopAssumption
  <1> QED  BY <1>1, GalleryMounted, PTL DEF Spec, First!Gallery!Spec

\* The gallery in every step.
LEMMA GallerySteps ==
    Spec => [][mounted = "Gallery" => Gallery!ReplacesMain]_vars
  <1>1. First!Gallery!Spec => [][First!Gallery!ReplacesMain]_(First!Gallery!vars)
    BY ShopAssumption, GallerySame, First!GalleryHolds DEF ShopAssumption
  <1>2. ~(mounted = "Gallery") => [mounted = "Gallery" => Gallery!ReplacesMain]_vars
    OBVIOUS
  <1> QED  BY <1>1, <1>2, GalleryMounted, PTL DEF Spec, First!Gallery!Spec

\* Its state keeps its types.
LEMMA GalleryTyped ==
    Spec => [](mounted = "Gallery" => Gallery!TypeOK)
  <1>1. First!Gallery!Spec => []First!Gallery!TypeOK
    BY ShopAssumption, GallerySame, First!GalleryIsTyped DEF ShopAssumption
  <1>2. First!Gallery!TypeOK => Gallery!TypeOK
    BY DEF Gallery!Asset, Gallery!Upload, Gallery!Change, Gallery!TypeOK,
       Gallery!IsInjective, Gallery!ToSet, First!Gallery!Asset, First!Gallery!Upload,
       First!Gallery!Change, First!Gallery!TypeOK, First!Gallery!IsInjective,
       First!Gallery!ToSet
  <1> QED  BY <1>1, <1>2, GalleryMounted, PTL DEF Spec, First!Gallery!Spec

\* Both instances of the library count alike.
LEMMA AdjustCount ==
    \A S : Adjust!Cardinality(S) = First!Adjust!Cardinality(S)
  BY Zenon DEF Adjust!Cardinality, First!Adjust!Cardinality

\* Adjust is what is proved about, with its constants.
LEMMA AdjustSame ==
    /\ Adjust!AdjustAssumption <=> First!Adjust!AdjustAssumption
    /\ Adjust!Init <=> First!Adjust!Init
    /\ Adjust!Next <=> First!Adjust!Next
    /\ Adjust!TypeOK <=> First!Adjust!TypeOK
    /\ Adjust!TwiceOnlyWhenLost <=> First!Adjust!TwiceOnlyWhenLost
    /\ Adjust!DoneHasMoved <=> First!Adjust!DoneHasMoved
  BY AdjustCount DEF Adjust!AdjustAssumption, Adjust!server, Adjust!dialog,
     Adjust!Changes, Adjust!Opening, Adjust!Call, Adjust!Move, Adjust!TypeOK, Adjust!Init,
     Adjust!NewKey, Adjust!Open, Adjust!Read, Adjust!WebEnter, Adjust!PhoneEnter,
     Adjust!ProjectedBalance, Adjust!Pending, Adjust!Send, Adjust!WebSubmit,
     Adjust!PhoneSubmit, Adjust!WebClose, Adjust!PhoneClose, Adjust!Step, Adjust!Of,
     Adjust!Made, Adjust!RecordStockMovement, Adjust!Lose, Adjust!WebDone,
     Adjust!PhoneDone, Adjust!OwnKey, Adjust!WebFailed, Adjust!PhoneFailed,
     Adjust!Archive, Adjust!WebArchive, Adjust!PhoneArchive, Adjust!OthersArchive,
     Adjust!Restore, Adjust!WebRestore, Adjust!PhoneRestore, Adjust!OthersMove,
     Adjust!Next, Adjust!MovesOf, Adjust!DoneHasMoved, Adjust!TwiceOnlyWhenLost,
     First!Adjust!AdjustAssumption, First!Adjust!server, First!Adjust!dialog,
     First!Adjust!Changes, First!Adjust!Opening, First!Adjust!Call, First!Adjust!Move,
     First!Adjust!TypeOK, First!Adjust!Init, First!Adjust!NewKey, First!Adjust!Open,
     First!Adjust!Read, First!Adjust!WebEnter, First!Adjust!PhoneEnter,
     First!Adjust!ProjectedBalance, First!Adjust!Pending, First!Adjust!Send,
     First!Adjust!WebSubmit, First!Adjust!PhoneSubmit, First!Adjust!WebClose,
     First!Adjust!PhoneClose, First!Adjust!Step, First!Adjust!Of, First!Adjust!Made,
     First!Adjust!RecordStockMovement, First!Adjust!Lose, First!Adjust!WebDone,
     First!Adjust!PhoneDone, First!Adjust!OwnKey, First!Adjust!WebFailed,
     First!Adjust!PhoneFailed, First!Adjust!Archive, First!Adjust!WebArchive,
     First!Adjust!PhoneArchive, First!Adjust!OthersArchive, First!Adjust!Restore,
     First!Adjust!WebRestore, First!Adjust!PhoneRestore, First!Adjust!OthersMove,
     First!Adjust!Next, First!Adjust!MovesOf, First!Adjust!DoneHasMoved,
     First!Adjust!TwiceOnlyWhenLost

\* While Adjust is mounted, the steps are its steps, and it stays.
LEMMA AdjustMounted ==
    /\ Init /\ mounted = "Adjust" => First!Adjust!Init
    /\ [Next]_vars /\ mounted = "Adjust" => [First!Adjust!Next]_(First!Adjust!vars)
    /\ [Next]_vars => ((mounted = "Adjust")' <=> mounted = "Adjust")
    /\ First!Adjust!TypeOK /\ First!Adjust!TwiceOnlyWhenLost /\
           First!Adjust!DoneHasMoved => Adjust!TypeOK /\ Adjust!TwiceOnlyWhenLost
                  /\ Adjust!DoneHasMoved
  BY AdjustSame DEF Init, Next, vars, First!Adjust!vars

\* An opening that ended well has moved the stock, and moved it once.
LEMMA AdjustHolds ==
    Spec => [](mounted = "Adjust" => /\ Adjust!TypeOK
                                     /\ Adjust!TwiceOnlyWhenLost
                                     /\ Adjust!DoneHasMoved)
  <1>1. First!Adjust!Spec => [](First!Adjust!TypeOK /\ First!Adjust!TwiceOnlyWhenLost /\
         First!Adjust!DoneHasMoved)
    BY ShopAssumption, AdjustSame, First!AdjustmentsAreMade DEF ShopAssumption
  <1> QED  BY <1>1, AdjustMounted, PTL DEF Spec, First!Adjust!Spec

\* Both instances of the library count alike.
LEMMA WebBankCount ==
    \A S : WebBank!Cardinality(S) = First!Bank!Cardinality(S)
  BY Zenon DEF WebBank!Cardinality, First!Bank!Cardinality

\* A step that counts is the same in both.
LEMMA WebBankRemove ==
    \A k : WebBank!Remove(k) <=> First!Bank!Remove(k)
  BY WebBankCount DEF WebBank!ToDraft, WebBank!Fill, WebBank!server, WebBank!Remove,
     First!Bank!ToDraft, First!Bank!Fill, First!Bank!server, First!Bank!Remove

\* WebBank is what is proved about, with its constants.
LEMMA WebBankSame ==
    /\ WebBank!BankAssumption <=> First!Bank!BankAssumption
    /\ WebBank!Init <=> First!Bank!Init
    /\ WebBank!Next <=> First!Bank!Next
    /\ WebBank!LastSaveStands <=> First!Bank!LastSaveStands
  BY WebBankRemove DEF WebBank!BankAssumption, WebBank!Ids, WebBank!Keys, WebBank!DataOf,
     WebBank!ToDraft, WebBank!Fill, WebBank!Viewer, WebBank!Init, WebBank!server,
     WebBank!Update, WebBank!WebUpdate, WebBank!PhoneUpdate, WebBank!Add, WebBank!WebAdd,
     WebBank!PhoneAdd, WebBank!WebRemove, WebBank!PhoneRemove, WebBank!Complete,
     WebBank!Send, WebBank!Waiting, WebBank!WebSave, WebBank!PhoneSave, WebBank!Done,
     WebBank!WebSaved, WebBank!PhoneSaved, WebBank!Failed, WebBank!WebNotSaved,
     WebBank!PhoneNotSaved, WebBank!WebReadViewer, WebBank!PhoneReadViewer,
     WebBank!Reopen, WebBank!SaveProfile, WebBank!WebSaveProfile,
     WebBank!PhoneSaveProfile, WebBank!Answer, WebBank!ReplaceBankAccounts,
     WebBank!Unsent, WebBank!GiveUp, WebBank!Next, WebBank!LastSaveStands,
     First!Bank!BankAssumption, First!Bank!Ids, First!Bank!Keys, First!Bank!DataOf,
     First!Bank!ToDraft, First!Bank!Fill, First!Bank!Viewer, First!Bank!Init,
     First!Bank!server, First!Bank!Update, First!Bank!WebUpdate, First!Bank!PhoneUpdate,
     First!Bank!Add, First!Bank!WebAdd, First!Bank!PhoneAdd, First!Bank!WebRemove,
     First!Bank!PhoneRemove, First!Bank!Complete, First!Bank!Send, First!Bank!Waiting,
     First!Bank!WebSave, First!Bank!PhoneSave, First!Bank!Done, First!Bank!WebSaved,
     First!Bank!PhoneSaved, First!Bank!Failed, First!Bank!WebNotSaved,
     First!Bank!PhoneNotSaved, First!Bank!WebReadViewer, First!Bank!PhoneReadViewer,
     First!Bank!Reopen, First!Bank!SaveProfile, First!Bank!WebSaveProfile,
     First!Bank!PhoneSaveProfile, First!Bank!Answer, First!Bank!ReplaceBankAccounts,
     First!Bank!Unsent, First!Bank!GiveUp, First!Bank!Next, First!Bank!LastSaveStands

\* While WebBank is mounted, the steps are its steps, and it stays.
LEMMA WebBankMounted ==
    /\ Init /\ mounted = "WebBank" => First!Bank!Init
    /\ [Next]_vars /\ mounted = "WebBank" => [First!Bank!Next]_(First!Bank!vars)
    /\ [Next]_vars => ((mounted = "WebBank")' <=> mounted = "WebBank")
    /\ First!Bank!LastSaveStands => WebBank!LastSaveStands
  BY WebBankSame DEF Init, Next, vars, First!Bank!vars

\* The bank accounts on the web.
LEMMA WebBankHolds ==
    Spec => [](mounted = "WebBank" => WebBank!LastSaveStands)
  <1>1. First!Bank!Spec => [](First!Bank!LastSaveStands)
    BY ShopAssumption, WebBankSame, First!SavesStand DEF ShopAssumption
  <1> QED  BY <1>1, WebBankMounted, PTL DEF Spec, First!Bank!Spec

\* Its state keeps its types.
LEMMA WebBankTyped ==
    Spec => [](mounted = "WebBank" => WebBank!TypeOK)
  <1>1. First!Bank!Spec => []First!Bank!TypeOK
    BY ShopAssumption, WebBankSame, First!BankIsTyped DEF ShopAssumption
  <1>2. First!Bank!TypeOK => WebBank!TypeOK
    BY DEF WebBank!Ids, WebBank!Keys, WebBank!IsList, WebBank!IsAccounts, WebBank!TypeOK,
       First!Bank!Ids, First!Bank!Keys, First!Bank!IsList, First!Bank!IsAccounts,
       First!Bank!TypeOK
  <1> QED  BY <1>1, <1>2, WebBankMounted, PTL DEF Spec, First!Bank!Spec

\* Checkout is what is proved about, with its constants.
LEMMA CheckoutSame ==
    /\ Checkout!CheckoutAssumption <=> First!Checkout!CheckoutAssumption
    /\ Checkout!Init <=> First!Checkout!Init
    /\ Checkout!Next <=> First!Checkout!Next
    /\ Checkout!OneCheckout <=> First!Checkout!OneCheckout
  BY DEF Checkout!CheckoutAssumption, Checkout!server, Checkout!Form, Checkout!Complete,
     Checkout!Checkouts, Checkout!Init, Checkout!At, Checkout!Update,
     Checkout!RequiresDelivery, Checkout!ContactErrors, Checkout!ContinueFromContact,
     Checkout!ReviewPurchase, Checkout!Back, Checkout!Submit, Checkout!Succeeded,
     Checkout!Failed, Checkout!Return, Checkout!Open, Checkout!Fail, Checkout!Unsent,
     Checkout!SetBuyerDetails, Checkout!Answer, Checkout!Replay, Checkout!HasEmail,
     Checkout!Allowed, Checkout!PaymentCheckout, Checkout!InitiateCheckout,
     Checkout!CommitFails, Checkout!InitiateRefused, Checkout!Pay, Checkout!Cancel,
     Checkout!Next, Checkout!OneCheckout, First!Checkout!CheckoutAssumption,
     First!Checkout!server, First!Checkout!Form, First!Checkout!Complete,
     First!Checkout!Checkouts, First!Checkout!Init, First!Checkout!At,
     First!Checkout!Update, First!Checkout!RequiresDelivery, First!Checkout!ContactErrors,
     First!Checkout!ContinueFromContact, First!Checkout!ReviewPurchase,
     First!Checkout!Back, First!Checkout!Submit, First!Checkout!Succeeded,
     First!Checkout!Failed, First!Checkout!Return, First!Checkout!Open,
     First!Checkout!Fail, First!Checkout!Unsent, First!Checkout!SetBuyerDetails,
     First!Checkout!Answer, First!Checkout!Replay, First!Checkout!HasEmail,
     First!Checkout!Allowed, First!Checkout!PaymentCheckout,
     First!Checkout!InitiateCheckout, First!Checkout!CommitFails,
     First!Checkout!InitiateRefused, First!Checkout!Pay, First!Checkout!Cancel,
     First!Checkout!Next, First!Checkout!OneCheckout

\* While Checkout is mounted, the steps are its steps, and it stays.
LEMMA CheckoutMounted ==
    /\ Init /\ mounted = "Checkout" => First!Checkout!Init
    /\ [Next]_vars /\ mounted = "Checkout" => [First!Checkout!Next]_(First!Checkout!vars)
    /\ [Next]_vars => ((mounted = "Checkout")' <=> mounted = "Checkout")
    /\ First!Checkout!OneCheckout => Checkout!OneCheckout
  BY CheckoutSame DEF Init, Next, vars, First!Checkout!vars

\* The checkout of the buyer.
LEMMA CheckoutHolds ==
    Spec => [](mounted = "Checkout" => Checkout!OneCheckout)
  <1>1. First!Checkout!Spec => [](First!Checkout!OneCheckout)
    BY ShopAssumption, CheckoutSame, First!TabsShareCheckout DEF ShopAssumption
  <1> QED  BY <1>1, CheckoutMounted, PTL DEF Spec, First!Checkout!Spec

\* Its state keeps its types.
LEMMA CheckoutTyped ==
    Spec => [](mounted = "Checkout" => Checkout!TypeOK)
  <1>1. First!Checkout!Spec => []First!Checkout!TypeOK
    BY ShopAssumption, CheckoutSame, First!TabsShareCheckout DEF ShopAssumption
  <1>2. First!Checkout!TypeOK => Checkout!TypeOK
    BY DEF Checkout!Form, Checkout!Checkouts, Checkout!TypeOK, First!Checkout!Form,
       First!Checkout!Checkouts, First!Checkout!TypeOK
  <1> QED  BY <1>1, <1>2, CheckoutMounted, PTL DEF Spec, First!Checkout!Spec

----------------------------------------------------------------------------
(* Screens with the constants of Second.                                   *)

Second == INSTANCE ShopScreens_proofs WITH Clients <- {"mobile"},
    Apps <- {"mobile"}, Pages <- {"web", "phone"}, MaxKeys <- 2,
    Modes <- {"shipping"}, Data <- {"blank", "a", "b"}, Blank <- "blank",
    Names <- {"n1"}, Quantities <- {0}, Photos <- {"f1", "f2"}, Limit <- 2,
    Columns <- {"f1", "f2"}, Required <- {"f1"}, Values <- {"a"}, MaxActive <- 1,
    Web <- {"web"}, MaxImages <- 1, MaxAssets <- 2, Screens <- {"product"},
    Sizes <- {1}, Stocks <- {1}, MaxStock <- 2, Reserved <- 0, MaxOpenings <- 2,
    MaxMoveKeys <- 3, ShipPages <- {"phone"}, MaxShipKeys <- 3,
    Emails <- {TRUE, FALSE}, Invalid <- {"b"}, MaxLabels <- 2, client <- s1,
    draft <- s5, photos <- s6, key <- s7, keys <- s8, call <- s9, calls <- s11,
    saved <- s11, page <- s12, archived <- s1, shown <- s6, lost <- s12, mode <- s1,
    used <- s7, origin <- s2, products <- s3, source <- s4, told <- s10,
    fields <- s2, mine <- s3, other <- s4, schema <- s5, product <- s6,
    loaded <- s7, columnDraft <- s8, save <- s9, typed <- s10, sheet <- s11,
    gallery <- s2, primary <- s3, assets <- s4, ready <- s5, upload <- s7,
    failed <- s8, change <- s9, screen <- s1, onHand <- s2, withdrawn <- s3,
    shownStock <- s5, moves <- s4, opening <- s6, isOpen <- s7, moveDraft <- s8,
    moveKey <- s9, moveKeys <- s10, done <- s13, email <- s2, order <- s3,
    shipment <- s4, mail <- s5, labels <- s6, shipPage <- s8, left <- s9

\* Both instances of the library count alike.
LEMMA PhotoFormCount ==
    \A S : PhotoForm!Cardinality(S) = Second!Form!Cardinality(S)
  BY Zenon DEF PhotoForm!Cardinality, Second!Form!Cardinality

\* Both call the same sets finite.
LEMMA PhotoFormFinite ==
    \A S : PhotoForm!IsFiniteSet(S) <=> Second!Form!IsFiniteSet(S)
  BY Zenon DEF PhotoForm!IsFiniteSet, Second!Form!IsFiniteSet

\* PhotoForm is what is proved about, with its constants.
LEMMA PhotoFormSame ==
    /\ PhotoForm!FormAssumption <=> Second!Form!FormAssumption
    /\ PhotoForm!Init <=> Second!Form!Init
    /\ PhotoForm!Next <=> Second!Form!Next
    /\ PhotoForm!OneProductPerKey <=> Second!Form!OneProductPerKey
    /\ PhotoForm!SavedIsMade <=> Second!Form!SavedIsMade
    /\ PhotoForm!PhotosInOrder <=> Second!Form!PhotosInOrder
  BY PhotoFormCount, PhotoFormFinite DEF PhotoForm!FormAssumption, PhotoForm!form,
     PhotoForm!given, PhotoForm!Draft, PhotoForm!Live, PhotoForm!Of, PhotoForm!Row,
     PhotoForm!Init, PhotoForm!ApplySource, PhotoForm!WebApplySource,
     PhotoForm!PhoneApplySource, PhotoForm!ChooseAnother, PhotoForm!WebChooseAnother,
     PhotoForm!PhoneChooseAnother, PhotoForm!ShowForm, PhotoForm!WebType,
     PhotoForm!PhoneType, PhotoForm!WebAddPhoto, PhotoForm!PhoneAddPhoto,
     PhotoForm!RemovePhoto, PhotoForm!WebRemovePhoto, PhotoForm!PhoneRemovePhoto,
     PhotoForm!Leave, PhotoForm!WebLeave, PhotoForm!PhoneLeave, PhotoForm!Valid,
     PhotoForm!Save, PhotoForm!WebSubmit, PhotoForm!PhoneSubmit, PhotoForm!Step,
     PhotoForm!At, PhotoForm!AssertCanCreate, PhotoForm!CreateProduct, PhotoForm!Lose,
     PhotoForm!Created, PhotoForm!Attach, PhotoForm!AttachNext, PhotoForm!Saved,
     PhotoForm!WebSaved, PhotoForm!PhoneSaved, PhotoForm!NewKey, PhotoForm!WebFailed,
     PhotoForm!PhoneFailed, PhotoForm!OthersCreate, PhotoForm!OthersArchive,
     PhotoForm!Next, PhotoForm!OneProductPerKey, PhotoForm!SavedIsMade,
     PhotoForm!PhotosInOrder, PhotoForm!Contains, PhotoForm!IsPrefix, PhotoForm!RemoveAt,
     Second!Form!FormAssumption, Second!Form!form, Second!Form!given, Second!Form!Draft,
     Second!Form!Live, Second!Form!Of, Second!Form!Row, Second!Form!Init,
     Second!Form!ApplySource, Second!Form!WebApplySource, Second!Form!PhoneApplySource,
     Second!Form!ChooseAnother, Second!Form!WebChooseAnother,
     Second!Form!PhoneChooseAnother, Second!Form!ShowForm, Second!Form!WebType,
     Second!Form!PhoneType, Second!Form!WebAddPhoto, Second!Form!PhoneAddPhoto,
     Second!Form!RemovePhoto, Second!Form!WebRemovePhoto, Second!Form!PhoneRemovePhoto,
     Second!Form!Leave, Second!Form!WebLeave, Second!Form!PhoneLeave, Second!Form!Valid,
     Second!Form!Save, Second!Form!WebSubmit, Second!Form!PhoneSubmit, Second!Form!Step,
     Second!Form!At, Second!Form!AssertCanCreate, Second!Form!CreateProduct,
     Second!Form!Lose, Second!Form!Created, Second!Form!Attach, Second!Form!AttachNext,
     Second!Form!Saved, Second!Form!WebSaved, Second!Form!PhoneSaved, Second!Form!NewKey,
     Second!Form!WebFailed, Second!Form!PhoneFailed, Second!Form!OthersCreate,
     Second!Form!OthersArchive, Second!Form!Next, Second!Form!OneProductPerKey,
     Second!Form!SavedIsMade, Second!Form!PhotosInOrder, Second!Form!Contains,
     Second!Form!IsPrefix, Second!Form!RemoveAt

\* While PhotoForm is mounted, the steps are its steps, and it stays.
LEMMA PhotoFormMounted ==
    /\ Init /\ mounted = "PhotoForm" => Second!Form!Init
    /\ [Next]_vars /\ mounted = "PhotoForm" => [Second!Form!Next]_(Second!Form!vars)
    /\ [Next]_vars => ((mounted = "PhotoForm")' <=> mounted = "PhotoForm")
    /\ Second!Form!OneProductPerKey /\ Second!Form!SavedIsMade /\
           Second!Form!PhotosInOrder => PhotoForm!OneProductPerKey /\
                  PhotoForm!SavedIsMade /\ PhotoForm!PhotosInOrder
  BY PhotoFormSame DEF Init, Next, vars, Second!Form!vars

\* The form with two photos.
LEMMA PhotoFormHolds ==
    Spec => [](mounted = "PhotoForm" => /\ PhotoForm!OneProductPerKey
                                        /\ PhotoForm!SavedIsMade
                                        /\ PhotoForm!PhotosInOrder)
  <1>1. Second!Form!Spec => [](Second!Form!OneProductPerKey /\ Second!Form!SavedIsMade /\
         Second!Form!PhotosInOrder)
    BY ShopAssumption, PhotoFormSame, Second!ProductsAreMade DEF ShopAssumption
  <1> QED  BY <1>1, PhotoFormMounted, PTL DEF Spec, Second!Form!Spec

\* Its state keeps its types.
LEMMA PhotoFormTyped ==
    Spec => [](mounted = "PhotoForm" => PhotoForm!TypeOK)
  <1>1. Second!Form!Spec => []Second!Form!TypeOK
    BY ShopAssumption, PhotoFormSame, Second!FormIsTyped DEF ShopAssumption
  <1>2. Second!Form!TypeOK => PhotoForm!TypeOK
    BY PhotoFormCount DEF PhotoForm!form, PhotoForm!Draft, PhotoForm!Queue,
       PhotoForm!Product, PhotoForm!Call, PhotoForm!Live, PhotoForm!TypeOK,
       PhotoForm!BoundedSeq, PhotoForm!IsInjective, PhotoForm!SeqOf, Second!Form!form,
       Second!Form!Draft, Second!Form!Queue, Second!Form!Product, Second!Form!Call,
       Second!Form!Live, Second!Form!TypeOK, Second!Form!BoundedSeq,
       Second!Form!IsInjective, Second!Form!SeqOf
  <1> QED  BY <1>1, <1>2, PhotoFormMounted, PTL DEF Spec, Second!Form!Spec

\* Both instances of the library count alike.
LEMMA PhoneColumnsCount ==
    \A S : PhoneColumns!Cardinality(S) = Second!Column!Cardinality(S)
  BY Zenon DEF PhoneColumns!Cardinality, Second!Column!Cardinality

\* PhoneColumns is what is proved about, with its constants.
LEMMA PhoneColumnsSame ==
    /\ PhoneColumns!ColumnAssumption <=> Second!Column!ColumnAssumption
    /\ PhoneColumns!Init <=> Second!Column!Init
    /\ PhoneColumns!Next <=> Second!Column!Next
    /\ PhoneColumns!SavesTyped <=> Second!Column!SavesTyped
    /\ PhoneColumns!KeepsInactive <=> Second!Column!KeepsInactive
  BY PhoneColumnsCount DEF PhoneColumns!ColumnAssumption, PhoneColumns!server,
     PhoneColumns!editor, PhoneColumns!Attributes, PhoneColumns!Untyped,
     PhoneColumns!Empty, PhoneColumns!Active, PhoneColumns!Init, PhoneColumns!FetchSchema,
     PhoneColumns!Hydrate, PhoneColumns!WebFetchProduct, PhoneColumns!PhoneFetchProduct,
     PhoneColumns!Known, PhoneColumns!WebTypeColumn, PhoneColumns!PhoneTypeColumn,
     PhoneColumns!Complete, PhoneColumns!Submit, PhoneColumns!WebSave,
     PhoneColumns!PhoneSave, PhoneColumns!Sent, PhoneColumns!Stored,
     PhoneColumns!Accepted, PhoneColumns!UpdateProduct, PhoneColumns!SaveAnswered,
     PhoneColumns!WebCreateColumn, PhoneColumns!PhoneCreateColumn,
     PhoneColumns!AssertActiveSlot, PhoneColumns!Backfilled, PhoneColumns!CreateColumn,
     PhoneColumns!ColumnAnswered, PhoneColumns!Deactivate, PhoneColumns!Reactivate,
     PhoneColumns!OthersCreateColumn, PhoneColumns!OthersCreateProduct,
     PhoneColumns!OthersWrite, PhoneColumns!Next, PhoneColumns!Updates,
     PhoneColumns!SavesTyped, PhoneColumns!KeepsInactive, Second!Column!ColumnAssumption,
     Second!Column!server, Second!Column!editor, Second!Column!Attributes,
     Second!Column!Untyped, Second!Column!Empty, Second!Column!Active, Second!Column!Init,
     Second!Column!FetchSchema, Second!Column!Hydrate, Second!Column!WebFetchProduct,
     Second!Column!PhoneFetchProduct, Second!Column!Known, Second!Column!WebTypeColumn,
     Second!Column!PhoneTypeColumn, Second!Column!Complete, Second!Column!Submit,
     Second!Column!WebSave, Second!Column!PhoneSave, Second!Column!Sent,
     Second!Column!Stored, Second!Column!Accepted, Second!Column!UpdateProduct,
     Second!Column!SaveAnswered, Second!Column!WebCreateColumn,
     Second!Column!PhoneCreateColumn, Second!Column!AssertActiveSlot,
     Second!Column!Backfilled, Second!Column!CreateColumn, Second!Column!ColumnAnswered,
     Second!Column!Deactivate, Second!Column!Reactivate, Second!Column!OthersCreateColumn,
     Second!Column!OthersCreateProduct, Second!Column!OthersWrite, Second!Column!Next,
     Second!Column!Updates, Second!Column!SavesTyped, Second!Column!KeepsInactive

\* While PhoneColumns is mounted, the steps are its steps, and it stays.
LEMMA PhoneColumnsMounted ==
    /\ Init /\ mounted = "PhoneColumns" => Second!Column!Init
    /\ [Next]_vars /\ mounted = "PhoneColumns" => [Second!Column!Next]_(Second!Column!vars)
    /\ [Next]_vars => ((mounted = "PhoneColumns")' <=> mounted = "PhoneColumns")
    /\ [Next]_vars /\ mounted = "PhoneColumns" /\ [Second!Column!SavesTyped /\
           Second!Column!KeepsInactive]_(Second!Column!vars) =>
                  [mounted = "PhoneColumns" => PhoneColumns!SavesTyped /\
                         PhoneColumns!KeepsInactive]_vars
  BY PhoneColumnsSame DEF Init, Next, vars, Second!Column!vars

\* The columns on the phone.
LEMMA PhoneColumnsSteps ==
    Spec => [][mounted = "PhoneColumns" => PhoneColumns!SavesTyped /\
           PhoneColumns!KeepsInactive]_vars
  <1>1. Second!Column!Spec => [][Second!Column!SavesTyped /\
         Second!Column!KeepsInactive]_(Second!Column!vars)
    BY ShopAssumption, PhoneColumnsSame, Second!EditsKeepColumns DEF ShopAssumption
  <1>2. ~(mounted = "PhoneColumns") => [mounted = "PhoneColumns" =>
         PhoneColumns!SavesTyped /\ PhoneColumns!KeepsInactive]_vars
    OBVIOUS
  <1> QED  BY <1>1, <1>2, PhoneColumnsMounted, PTL DEF Spec, Second!Column!Spec

\* Its state keeps its types.
LEMMA PhoneColumnsTyped ==
    Spec => [](mounted = "PhoneColumns" => PhoneColumns!TypeOK)
  <1>1. Second!Column!Spec => []Second!Column!TypeOK
    BY ShopAssumption, PhoneColumnsSame, Second!ColumnsAreTyped DEF ShopAssumption
  <1>2. Second!Column!TypeOK => PhoneColumns!TypeOK
    BY DEF PhoneColumns!Attributes, PhoneColumns!Typing, PhoneColumns!Save,
       PhoneColumns!TypeOK, Second!Column!Attributes, Second!Column!Typing,
       Second!Column!Save, Second!Column!TypeOK
  <1> QED  BY <1>1, <1>2, PhoneColumnsMounted, PTL DEF Spec, Second!Column!Spec

\* FullGallery is what is proved about, with its constants.
LEMMA FullGallerySame ==
    /\ FullGallery!GalleryAssumption <=> Second!Gallery!GalleryAssumption
    /\ FullGallery!Init <=> Second!Gallery!Init
    /\ FullGallery!Next <=> Second!Gallery!Next
    /\ FullGallery!PrimaryInGallery <=> Second!Gallery!PrimaryInGallery
    /\ FullGallery!LimitHolds <=> Second!Gallery!LimitHolds
  BY DEF FullGallery!GalleryAssumption, FullGallery!Asset, FullGallery!Init,
     FullGallery!Refresh, FullGallery!Begin, FullGallery!WebUpload,
     FullGallery!PhoneUpload, FullGallery!Retry, FullGallery!UploadPrivateFile,
     FullGallery!AttachProductMedia, FullGallery!Lose, FullGallery!UploadFailed,
     FullGallery!UploadOK, FullGallery!Asked, FullGallery!Ask, FullGallery!WebAsk,
     FullGallery!PhoneAsk, FullGallery!Answered, FullGallery!SetPrimary,
     FullGallery!Replaced, FullGallery!RemoveMedia, FullGallery!LoseChange,
     FullGallery!Archive, FullGallery!Next, FullGallery!PrimaryInGallery,
     FullGallery!LimitHolds, FullGallery!Contains, FullGallery!RemoveAt,
     Second!Gallery!GalleryAssumption, Second!Gallery!Asset, Second!Gallery!Init,
     Second!Gallery!Refresh, Second!Gallery!Begin, Second!Gallery!WebUpload,
     Second!Gallery!PhoneUpload, Second!Gallery!Retry, Second!Gallery!UploadPrivateFile,
     Second!Gallery!AttachProductMedia, Second!Gallery!Lose, Second!Gallery!UploadFailed,
     Second!Gallery!UploadOK, Second!Gallery!Asked, Second!Gallery!Ask,
     Second!Gallery!WebAsk, Second!Gallery!PhoneAsk, Second!Gallery!Answered,
     Second!Gallery!SetPrimary, Second!Gallery!Replaced, Second!Gallery!RemoveMedia,
     Second!Gallery!LoseChange, Second!Gallery!Archive, Second!Gallery!Next,
     Second!Gallery!PrimaryInGallery, Second!Gallery!LimitHolds, Second!Gallery!Contains,
     Second!Gallery!RemoveAt

\* While FullGallery is mounted, the steps are its steps, and it stays.
LEMMA FullGalleryMounted ==
    /\ Init /\ mounted = "FullGallery" => Second!Gallery!Init
    /\ [Next]_vars /\ mounted = "FullGallery" => [Second!Gallery!Next]_(Second!Gallery!vars)
    /\ [Next]_vars => ((mounted = "FullGallery")' <=> mounted = "FullGallery")
    /\ Second!Gallery!PrimaryInGallery /\ Second!Gallery!LimitHolds =>
           FullGallery!PrimaryInGallery /\ FullGallery!LimitHolds
  BY FullGallerySame DEF Init, Next, vars, Second!Gallery!vars

\* A gallery that one photo fills.
LEMMA FullGalleryHolds ==
    Spec => [](mounted = "FullGallery" => /\ FullGallery!PrimaryInGallery
                                          /\ FullGallery!LimitHolds)
  <1>1. Second!Gallery!Spec => [](Second!Gallery!PrimaryInGallery /\ Second!Gallery!LimitHolds)
    BY ShopAssumption, FullGallerySame, Second!GalleryHolds DEF ShopAssumption
  <1> QED  BY <1>1, FullGalleryMounted, PTL DEF Spec, Second!Gallery!Spec

\* Its state keeps its types.
LEMMA FullGalleryTyped ==
    Spec => [](mounted = "FullGallery" => FullGallery!TypeOK)
  <1>1. Second!Gallery!Spec => []Second!Gallery!TypeOK
    BY ShopAssumption, FullGallerySame, Second!GalleryIsTyped DEF ShopAssumption
  <1>2. Second!Gallery!TypeOK => FullGallery!TypeOK
    BY DEF FullGallery!Asset, FullGallery!Upload, FullGallery!Change, FullGallery!TypeOK,
       FullGallery!IsInjective, FullGallery!ToSet, Second!Gallery!Asset,
       Second!Gallery!Upload, Second!Gallery!Change, Second!Gallery!TypeOK,
       Second!Gallery!IsInjective, Second!Gallery!ToSet
  <1> QED  BY <1>1, <1>2, FullGalleryMounted, PTL DEF Spec, Second!Gallery!Spec

\* Both instances of the library count alike.
LEMMA SheetCount ==
    \A S : Sheet!Cardinality(S) = Second!Adjust!Cardinality(S)
  BY Zenon DEF Sheet!Cardinality, Second!Adjust!Cardinality

\* Sheet is what is proved about, with its constants.
LEMMA SheetSame ==
    /\ Sheet!AdjustAssumption <=> Second!Adjust!AdjustAssumption
    /\ Sheet!Init <=> Second!Adjust!Init
    /\ Sheet!Next <=> Second!Adjust!Next
    /\ Sheet!TypeOK <=> Second!Adjust!TypeOK
    /\ Sheet!TwiceOnlyWhenLost <=> Second!Adjust!TwiceOnlyWhenLost
  BY SheetCount DEF Sheet!AdjustAssumption, Sheet!server, Sheet!dialog, Sheet!Changes,
     Sheet!Opening, Sheet!Call, Sheet!Move, Sheet!TypeOK, Sheet!Init, Sheet!NewKey,
     Sheet!Open, Sheet!Read, Sheet!WebEnter, Sheet!PhoneEnter, Sheet!ProjectedBalance,
     Sheet!Pending, Sheet!Send, Sheet!WebSubmit, Sheet!PhoneSubmit, Sheet!WebClose,
     Sheet!PhoneClose, Sheet!Step, Sheet!Of, Sheet!Made, Sheet!RecordStockMovement,
     Sheet!Lose, Sheet!WebDone, Sheet!PhoneDone, Sheet!OwnKey, Sheet!WebFailed,
     Sheet!PhoneFailed, Sheet!Archive, Sheet!WebArchive, Sheet!PhoneArchive,
     Sheet!OthersArchive, Sheet!Restore, Sheet!WebRestore, Sheet!PhoneRestore,
     Sheet!OthersMove, Sheet!Next, Sheet!MovesOf, Sheet!TwiceOnlyWhenLost,
     Second!Adjust!AdjustAssumption, Second!Adjust!server, Second!Adjust!dialog,
     Second!Adjust!Changes, Second!Adjust!Opening, Second!Adjust!Call, Second!Adjust!Move,
     Second!Adjust!TypeOK, Second!Adjust!Init, Second!Adjust!NewKey, Second!Adjust!Open,
     Second!Adjust!Read, Second!Adjust!WebEnter, Second!Adjust!PhoneEnter,
     Second!Adjust!ProjectedBalance, Second!Adjust!Pending, Second!Adjust!Send,
     Second!Adjust!WebSubmit, Second!Adjust!PhoneSubmit, Second!Adjust!WebClose,
     Second!Adjust!PhoneClose, Second!Adjust!Step, Second!Adjust!Of, Second!Adjust!Made,
     Second!Adjust!RecordStockMovement, Second!Adjust!Lose, Second!Adjust!WebDone,
     Second!Adjust!PhoneDone, Second!Adjust!OwnKey, Second!Adjust!WebFailed,
     Second!Adjust!PhoneFailed, Second!Adjust!Archive, Second!Adjust!WebArchive,
     Second!Adjust!PhoneArchive, Second!Adjust!OthersArchive, Second!Adjust!Restore,
     Second!Adjust!WebRestore, Second!Adjust!PhoneRestore, Second!Adjust!OthersMove,
     Second!Adjust!Next, Second!Adjust!MovesOf, Second!Adjust!TwiceOnlyWhenLost

\* While Sheet is mounted, the steps are its steps, and it stays.
LEMMA SheetMounted ==
    /\ Init /\ mounted = "Sheet" => Second!Adjust!Init
    /\ [Next]_vars /\ mounted = "Sheet" => [Second!Adjust!Next]_(Second!Adjust!vars)
    /\ [Next]_vars => ((mounted = "Sheet")' <=> mounted = "Sheet")
    /\ Second!Adjust!TypeOK /\ Second!Adjust!TwiceOnlyWhenLost => Sheet!TypeOK /\
           Sheet!TwiceOnlyWhenLost
  BY SheetSame DEF Init, Next, vars, Second!Adjust!vars

\* An opening of the sheet that stays moves the stock once.
LEMMA SheetHolds ==
    Spec => [](mounted = "Sheet" => /\ Sheet!TypeOK
                                    /\ Sheet!TwiceOnlyWhenLost)
  <1>1. Second!Adjust!Spec => [](Second!Adjust!TypeOK /\ Second!Adjust!TwiceOnlyWhenLost)
    BY ShopAssumption, SheetSame, Second!AdjustmentsAreMade DEF ShopAssumption
  <1> QED  BY <1>1, SheetMounted, PTL DEF Spec, Second!Adjust!Spec

\* Label is what is proved about, with its constants.
LEMMA LabelSame ==
    /\ Label!ShipmentAssumption <=> Second!Ship!ShipmentAssumption
    /\ Label!Init <=> Second!Ship!Init
    /\ Label!Next <=> Second!Ship!Next
    /\ Label!TypeOK <=> Second!Ship!TypeOK
    /\ Label!RegisteredAsSaid <=> Second!Ship!RegisteredAsSaid
  BY DEF Label!ShipmentAssumption, Label!Keys, Label!Row, Label!Answer, Label!Request,
     Label!TypeOK, Label!Now, Label!CanRegister, Label!CanGenerateLabel, Label!Stale,
     Label!Opened, Label!Init, Label!server, Label!Idle, Label!LabelRecord, Label!Sent,
     Label!Reopen, Label!Refetch, Label!Enter, Label!WebEnter, Label!PhoneEnter,
     Label!RequiresCarrier, Label!FormValid, Label!OpenConfirm, Label!WebOpenConfirm,
     Label!PhoneOpenConfirm, Label!CloseConfirm, Label!WebCloseConfirm,
     Label!PhoneCloseConfirm, Label!Register, Label!WebRegister, Label!PhoneRegister,
     Label!Registered, Label!WebRegistered, Label!PhoneRegistered, Label!NotRegistered,
     Label!WebNotRegistered, Label!PhoneNotRegistered, Label!Generate, Label!WebGenerate,
     Label!PhoneGenerate, Label!Generated, Label!WebGenerated, Label!PhoneGenerated,
     Label!NotGenerated, Label!WebNotGenerated, Label!PhoneNotGenerated, Label!Unsent,
     Label!Say, Label!Refuse, Label!Record, Label!Replay, Label!Locked,
     Label!LockShipment, Label!Accepts, Label!Dispatch, Label!RegisterDispatch,
     Label!SayLabel, Label!NewLabel, Label!GenerateLabel, Label!LeftEnds,
     Label!LabelExpires, Label!Refund, Label!Next, Label!RegisteredAsSaid,
     Second!Ship!ShipmentAssumption, Second!Ship!Keys, Second!Ship!Row,
     Second!Ship!Answer, Second!Ship!Request, Second!Ship!TypeOK, Second!Ship!Now,
     Second!Ship!CanRegister, Second!Ship!CanGenerateLabel, Second!Ship!Stale,
     Second!Ship!Opened, Second!Ship!Init, Second!Ship!server, Second!Ship!Idle,
     Second!Ship!LabelRecord, Second!Ship!Sent, Second!Ship!Reopen, Second!Ship!Refetch,
     Second!Ship!Enter, Second!Ship!WebEnter, Second!Ship!PhoneEnter,
     Second!Ship!RequiresCarrier, Second!Ship!FormValid, Second!Ship!OpenConfirm,
     Second!Ship!WebOpenConfirm, Second!Ship!PhoneOpenConfirm, Second!Ship!CloseConfirm,
     Second!Ship!WebCloseConfirm, Second!Ship!PhoneCloseConfirm, Second!Ship!Register,
     Second!Ship!WebRegister, Second!Ship!PhoneRegister, Second!Ship!Registered,
     Second!Ship!WebRegistered, Second!Ship!PhoneRegistered, Second!Ship!NotRegistered,
     Second!Ship!WebNotRegistered, Second!Ship!PhoneNotRegistered, Second!Ship!Generate,
     Second!Ship!WebGenerate, Second!Ship!PhoneGenerate, Second!Ship!Generated,
     Second!Ship!WebGenerated, Second!Ship!PhoneGenerated, Second!Ship!NotGenerated,
     Second!Ship!WebNotGenerated, Second!Ship!PhoneNotGenerated, Second!Ship!Unsent,
     Second!Ship!Say, Second!Ship!Refuse, Second!Ship!Record, Second!Ship!Replay,
     Second!Ship!Locked, Second!Ship!LockShipment, Second!Ship!Accepts,
     Second!Ship!Dispatch, Second!Ship!RegisterDispatch, Second!Ship!SayLabel,
     Second!Ship!NewLabel, Second!Ship!GenerateLabel, Second!Ship!LeftEnds,
     Second!Ship!LabelExpires, Second!Ship!Refund, Second!Ship!Next,
     Second!Ship!RegisteredAsSaid

\* While Label is mounted, the steps are its steps, and it stays.
LEMMA LabelMounted ==
    /\ Init /\ mounted = "Label" => Second!Ship!Init
    /\ [Next]_vars /\ mounted = "Label" => [Second!Ship!Next]_(Second!Ship!vars)
    /\ [Next]_vars => ((mounted = "Label")' <=> mounted = "Label")
    /\ Second!Ship!TypeOK /\ Second!Ship!RegisteredAsSaid => Label!TypeOK /\
           Label!RegisteredAsSaid
  BY LabelSame DEF Init, Next, vars, Second!Ship!vars

\* The page that makes labels.
LEMMA LabelHolds ==
    Spec => [](mounted = "Label" => /\ Label!TypeOK
                                    /\ Label!RegisteredAsSaid)
  <1>1. Second!Ship!Spec => [](Second!Ship!TypeOK /\ Second!Ship!RegisteredAsSaid)
    BY ShopAssumption, LabelSame, Second!RegistrationsAreSaid DEF ShopAssumption
  <1> QED  BY <1>1, LabelMounted, PTL DEF Spec, Second!Ship!Spec

----------------------------------------------------------------------------
(* Screens with the constants of Third.                                    *)

Third == INSTANCE ShopScreens_proofs WITH Apps <- {"web", "mobile"},
    Modes <- {"shipping", "pickup"}, Data <- {"blank", "a"}, Blank <- "blank",
    ShipPages <- {"web", "phone"}, MaxShipKeys <- 3, Emails <- {TRUE},
    Invalid <- {}, MaxLabels <- 0, MaxAccounts <- 2, MaxIds <- 3, MaxSends <- 2,
    MaxChanges <- 1, client <- s1, mode <- s1, used <- s7, email <- s2, order <- s3,
    shipment <- s4, mail <- s5, labels <- s6, shipPage <- s8, left <- s9,
    stored <- s2, ids <- s3, profile <- s4, seen <- s5, bankDraft <- s6,
    bankCalls <- s7, sends <- s8, reported <- s9, astray <- s10

\* Ship is what is proved about, with its constants.
LEMMA ShipSame ==
    /\ Ship!ShipmentAssumption <=> Third!Ship!ShipmentAssumption
    /\ Ship!Init <=> Third!Ship!Init
    /\ Ship!Next <=> Third!Ship!Next
    /\ Ship!TypeOK <=> Third!Ship!TypeOK
    /\ Ship!RegisteredAsSaid <=> Third!Ship!RegisteredAsSaid
  BY DEF Ship!ShipmentAssumption, Ship!Keys, Ship!Row, Ship!Answer, Ship!Request,
     Ship!TypeOK, Ship!Now, Ship!CanRegister, Ship!CanGenerateLabel, Ship!Stale,
     Ship!Opened, Ship!Init, Ship!server, Ship!Idle, Ship!LabelRecord, Ship!Sent,
     Ship!Reopen, Ship!Refetch, Ship!Enter, Ship!WebEnter, Ship!PhoneEnter,
     Ship!RequiresCarrier, Ship!FormValid, Ship!OpenConfirm, Ship!WebOpenConfirm,
     Ship!PhoneOpenConfirm, Ship!CloseConfirm, Ship!WebCloseConfirm,
     Ship!PhoneCloseConfirm, Ship!Register, Ship!WebRegister, Ship!PhoneRegister,
     Ship!Registered, Ship!WebRegistered, Ship!PhoneRegistered, Ship!NotRegistered,
     Ship!WebNotRegistered, Ship!PhoneNotRegistered, Ship!Generate, Ship!WebGenerate,
     Ship!PhoneGenerate, Ship!Generated, Ship!WebGenerated, Ship!PhoneGenerated,
     Ship!NotGenerated, Ship!WebNotGenerated, Ship!PhoneNotGenerated, Ship!Unsent,
     Ship!Say, Ship!Refuse, Ship!Record, Ship!Replay, Ship!Locked, Ship!LockShipment,
     Ship!Accepts, Ship!Dispatch, Ship!RegisterDispatch, Ship!SayLabel, Ship!NewLabel,
     Ship!GenerateLabel, Ship!LeftEnds, Ship!LabelExpires, Ship!Refund, Ship!Next,
     Ship!RegisteredAsSaid, Third!Ship!ShipmentAssumption, Third!Ship!Keys,
     Third!Ship!Row, Third!Ship!Answer, Third!Ship!Request, Third!Ship!TypeOK,
     Third!Ship!Now, Third!Ship!CanRegister, Third!Ship!CanGenerateLabel,
     Third!Ship!Stale, Third!Ship!Opened, Third!Ship!Init, Third!Ship!server,
     Third!Ship!Idle, Third!Ship!LabelRecord, Third!Ship!Sent, Third!Ship!Reopen,
     Third!Ship!Refetch, Third!Ship!Enter, Third!Ship!WebEnter, Third!Ship!PhoneEnter,
     Third!Ship!RequiresCarrier, Third!Ship!FormValid, Third!Ship!OpenConfirm,
     Third!Ship!WebOpenConfirm, Third!Ship!PhoneOpenConfirm, Third!Ship!CloseConfirm,
     Third!Ship!WebCloseConfirm, Third!Ship!PhoneCloseConfirm, Third!Ship!Register,
     Third!Ship!WebRegister, Third!Ship!PhoneRegister, Third!Ship!Registered,
     Third!Ship!WebRegistered, Third!Ship!PhoneRegistered, Third!Ship!NotRegistered,
     Third!Ship!WebNotRegistered, Third!Ship!PhoneNotRegistered, Third!Ship!Generate,
     Third!Ship!WebGenerate, Third!Ship!PhoneGenerate, Third!Ship!Generated,
     Third!Ship!WebGenerated, Third!Ship!PhoneGenerated, Third!Ship!NotGenerated,
     Third!Ship!WebNotGenerated, Third!Ship!PhoneNotGenerated, Third!Ship!Unsent,
     Third!Ship!Say, Third!Ship!Refuse, Third!Ship!Record, Third!Ship!Replay,
     Third!Ship!Locked, Third!Ship!LockShipment, Third!Ship!Accepts, Third!Ship!Dispatch,
     Third!Ship!RegisterDispatch, Third!Ship!SayLabel, Third!Ship!NewLabel,
     Third!Ship!GenerateLabel, Third!Ship!LeftEnds, Third!Ship!LabelExpires,
     Third!Ship!Refund, Third!Ship!Next, Third!Ship!RegisteredAsSaid

\* While Ship is mounted, the steps are its steps, and it stays.
LEMMA ShipMounted ==
    /\ Init /\ mounted = "Ship" => Third!Ship!Init
    /\ [Next]_vars /\ mounted = "Ship" => [Third!Ship!Next]_(Third!Ship!vars)
    /\ [Next]_vars => ((mounted = "Ship")' <=> mounted = "Ship")
    /\ Third!Ship!TypeOK /\ Third!Ship!RegisteredAsSaid => Ship!TypeOK /\ Ship!RegisteredAsSaid
  BY ShipSame DEF Init, Next, vars, Third!Ship!vars

\* Two pages of a shipment.
LEMMA ShipHolds ==
    Spec => [](mounted = "Ship" => /\ Ship!TypeOK
                                   /\ Ship!RegisteredAsSaid)
  <1>1. Third!Ship!Spec => [](Third!Ship!TypeOK /\ Third!Ship!RegisteredAsSaid)
    BY ShopAssumption, ShipSame, Third!RegistrationsAreSaid DEF ShopAssumption
  <1> QED  BY <1>1, ShipMounted, PTL DEF Spec, Third!Ship!Spec

\* Both instances of the library count alike.
LEMMA ProfileBankCount ==
    \A S : ProfileBank!Cardinality(S) = Third!Bank!Cardinality(S)
  BY Zenon DEF ProfileBank!Cardinality, Third!Bank!Cardinality

\* A step that counts is the same in both.
LEMMA ProfileBankRemove ==
    \A k : ProfileBank!Remove(k) <=> Third!Bank!Remove(k)
  BY ProfileBankCount DEF ProfileBank!ToDraft, ProfileBank!Fill, ProfileBank!server,
     ProfileBank!Remove, Third!Bank!ToDraft, Third!Bank!Fill, Third!Bank!server,
     Third!Bank!Remove

\* ProfileBank is what is proved about, with its constants.
LEMMA ProfileBankSame ==
    /\ ProfileBank!BankAssumption <=> Third!Bank!BankAssumption
    /\ ProfileBank!Init <=> Third!Bank!Init
    /\ ProfileBank!Next <=> Third!Bank!Next
    /\ ProfileBank!LastSaveStands <=> Third!Bank!LastSaveStands
  BY ProfileBankRemove DEF ProfileBank!BankAssumption, ProfileBank!Ids, ProfileBank!Keys,
     ProfileBank!DataOf, ProfileBank!ToDraft, ProfileBank!Fill, ProfileBank!Viewer,
     ProfileBank!Init, ProfileBank!server, ProfileBank!Update, ProfileBank!WebUpdate,
     ProfileBank!PhoneUpdate, ProfileBank!Add, ProfileBank!WebAdd, ProfileBank!PhoneAdd,
     ProfileBank!WebRemove, ProfileBank!PhoneRemove, ProfileBank!Complete,
     ProfileBank!Send, ProfileBank!Waiting, ProfileBank!WebSave, ProfileBank!PhoneSave,
     ProfileBank!Done, ProfileBank!WebSaved, ProfileBank!PhoneSaved, ProfileBank!Failed,
     ProfileBank!WebNotSaved, ProfileBank!PhoneNotSaved, ProfileBank!WebReadViewer,
     ProfileBank!PhoneReadViewer, ProfileBank!Reopen, ProfileBank!SaveProfile,
     ProfileBank!WebSaveProfile, ProfileBank!PhoneSaveProfile, ProfileBank!Answer,
     ProfileBank!ReplaceBankAccounts, ProfileBank!Unsent, ProfileBank!GiveUp,
     ProfileBank!Next, ProfileBank!LastSaveStands, Third!Bank!BankAssumption,
     Third!Bank!Ids, Third!Bank!Keys, Third!Bank!DataOf, Third!Bank!ToDraft,
     Third!Bank!Fill, Third!Bank!Viewer, Third!Bank!Init, Third!Bank!server,
     Third!Bank!Update, Third!Bank!WebUpdate, Third!Bank!PhoneUpdate, Third!Bank!Add,
     Third!Bank!WebAdd, Third!Bank!PhoneAdd, Third!Bank!WebRemove, Third!Bank!PhoneRemove,
     Third!Bank!Complete, Third!Bank!Send, Third!Bank!Waiting, Third!Bank!WebSave,
     Third!Bank!PhoneSave, Third!Bank!Done, Third!Bank!WebSaved, Third!Bank!PhoneSaved,
     Third!Bank!Failed, Third!Bank!WebNotSaved, Third!Bank!PhoneNotSaved,
     Third!Bank!WebReadViewer, Third!Bank!PhoneReadViewer, Third!Bank!Reopen,
     Third!Bank!SaveProfile, Third!Bank!WebSaveProfile, Third!Bank!PhoneSaveProfile,
     Third!Bank!Answer, Third!Bank!ReplaceBankAccounts, Third!Bank!Unsent,
     Third!Bank!GiveUp, Third!Bank!Next, Third!Bank!LastSaveStands

\* While ProfileBank is mounted, the steps are its steps, and it stays.
LEMMA ProfileBankMounted ==
    /\ Init /\ mounted = "ProfileBank" => Third!Bank!Init
    /\ [Next]_vars /\ mounted = "ProfileBank" => [Third!Bank!Next]_(Third!Bank!vars)
    /\ [Next]_vars => ((mounted = "ProfileBank")' <=> mounted = "ProfileBank")
    /\ Third!Bank!LastSaveStands => ProfileBank!LastSaveStands
  BY ProfileBankSame DEF Init, Next, vars, Third!Bank!vars

\* The bank accounts of a profile that changes.
LEMMA ProfileBankHolds ==
    Spec => [](mounted = "ProfileBank" => ProfileBank!LastSaveStands)
  <1>1. Third!Bank!Spec => [](Third!Bank!LastSaveStands)
    BY ShopAssumption, ProfileBankSame, Third!SavesStand DEF ShopAssumption
  <1> QED  BY <1>1, ProfileBankMounted, PTL DEF Spec, Third!Bank!Spec

\* Its state keeps its types.
LEMMA ProfileBankTyped ==
    Spec => [](mounted = "ProfileBank" => ProfileBank!TypeOK)
  <1>1. Third!Bank!Spec => []Third!Bank!TypeOK
    BY ShopAssumption, ProfileBankSame, Third!BankIsTyped DEF ShopAssumption
  <1>2. Third!Bank!TypeOK => ProfileBank!TypeOK
    BY DEF ProfileBank!Ids, ProfileBank!Keys, ProfileBank!IsList, ProfileBank!IsAccounts,
       ProfileBank!TypeOK, Third!Bank!Ids, Third!Bank!Keys, Third!Bank!IsList,
       Third!Bank!IsAccounts, Third!Bank!TypeOK
  <1> QED  BY <1>1, <1>2, ProfileBankMounted, PTL DEF Spec, Third!Bank!Spec

----------------------------------------------------------------------------
(* The properties of the screens.                                          *)

\* A key stands for one request: one product, however often the form was sent
\* again, and one photo, so that no search is answered with the candidates of
\* another.
THEOREM RequestsHaveTheirKeys == Spec => []OneRequestPerKey
  <1>1. /\ (mounted = "Form" => Form!OneProductPerKey /\ Form!SavedIsMade /\ Form!PhotosInOrder)
        /\ (mounted = "PhotoForm" => PhotoForm!OneProductPerKey /\ PhotoForm!SavedIsMade /\
               PhotoForm!PhotosInOrder)
        /\ (mounted = "Search" => Search!OneSearchPerKey)
        => OneRequestPerKey
    BY DEF OneRequestPerKey
  <1> QED  BY <1>1, FormHolds, PhotoFormHolds, SearchHolds, PTL

\* The product reported as made is the one its form sent, with the first photos
\* of its queue in order.
THEOREM ProductsAreMadeAsSent == Spec => []MadeAsSent
  <1>1. /\ (mounted = "Form" => Form!OneProductPerKey /\ Form!SavedIsMade /\ Form!PhotosInOrder)
        /\ (mounted = "PhotoForm" => PhotoForm!OneProductPerKey /\ PhotoForm!SavedIsMade /\
               PhotoForm!PhotosInOrder)
        => MadeAsSent
    BY DEF MadeAsSent
  <1> QED  BY <1>1, FormHolds, PhotoFormHolds, PTL

\* Two pages that change a gallery from lists that are old leave its main photo
\* in it, and no more photos than the limit.
THEOREM GalleriesAreSound == Spec => []GalleryIsSound
  <1>1. /\ (mounted = "Gallery" => Gallery!PrimaryInGallery /\ Gallery!LimitHolds)
        /\ (mounted = "FullGallery" => FullGallery!PrimaryInGallery /\ FullGallery!LimitHolds)
        => GalleryIsSound
    BY DEF GalleryIsSound
  <1> QED  BY <1>1, GalleryHolds, FullGalleryHolds, PTL

\* An opening of the dialog that ended well has moved the stock as it was
\* asked, by itself.
THEOREM DoneIsMoved == Spec => []DoneHasMoved
  <1>1. (mounted = "Adjust" => Adjust!TypeOK /\ Adjust!TwiceOnlyWhenLost /\ Adjust!DoneHasMoved)
        => DoneHasMoved
    BY DEF DoneHasMoved
  <1> QED  BY <1>1, AdjustHolds, PTL

\* An opening moves the stock a second time only after it lost an answer.
THEOREM OnceUnlessLost == Spec => []TwiceOnlyWhenLost
  <1>1. /\ (mounted = "Adjust" => Adjust!TypeOK /\ Adjust!TwiceOnlyWhenLost
         /\ Adjust!DoneHasMoved)
        /\ (mounted = "Sheet" => Sheet!TypeOK /\ Sheet!TwiceOnlyWhenLost)
        => TwiceOnlyWhenLost
    BY DEF TwiceOnlyWhenLost
  <1> QED  BY <1>1, AdjustHolds, SheetHolds, PTL

\* What a page reports as registered is what the shipment keeps and what the
\* buyer was told.
THEOREM RegisteredIsSaid == Spec => []RegisteredAsSaid
  <1>1. /\ (mounted = "Ship" => Ship!TypeOK /\ Ship!RegisteredAsSaid)
        /\ (mounted = "Label" => Label!TypeOK /\ Label!RegisteredAsSaid)
        => RegisteredAsSaid
    BY DEF RegisteredAsSaid
  <1> QED  BY <1>1, ShipHolds, LabelHolds, PTL

\* All tabs of the buyer lead to one checkout of the provider, the one the
\* payment names.
THEOREM TabsHaveOneCheckout == Spec => []OneCheckout
  <1>1. (mounted = "Checkout" => Checkout!OneCheckout)
        => OneCheckout
    BY DEF OneCheckout
  <1> QED  BY <1>1, CheckoutHolds, PTL

\* A sale under review has the delivery data and a receipt that was stored as
\* it was announced.
THEOREM ReviewsHaveReceipts == Spec => []ReviewIsBacked
  <1>1. /\ (mounted = "Receipt" => Receipt!ReviewIsBacked)
        /\ (mounted = "Resend" => Resend!ReviewIsBacked)
        => ReviewIsBacked
    BY DEF ReviewIsBacked
  <1> QED  BY <1>1, ReceiptHolds, ResendHolds, PTL

\* What the last save of the web was reported to have stored is what buyers are
\* shown, unless the connection was lost under a save or its page was left
\* before the answer.
THEOREM WebSavesStand == Spec => []LastSaveStands
  <1>1. /\ (mounted = "WebBank" => WebBank!LastSaveStands)
        /\ (mounted = "ProfileBank" => ProfileBank!LastSaveStands)
        => LastSaveStands
    BY DEF LastSaveStands
  <1> QED  BY <1>1, WebBankHolds, ProfileBankHolds, PTL

\* A list that was read to its end has every product that did not change
\* meanwhile, and has it once.
THEOREM RowsAreListedOnce == Spec => []EachRowOnce
  <1>1. (mounted = "List" => List!NoRowIsSkipped /\ List!NoRowIsRepeated)
        => EachRowOnce
    BY DEF EachRowOnce
  <1> QED  BY <1>1, ListHolds, PTL

\* An edit stores what its seller touched and keeps the rest: the values of
\* inactive columns, and a main photo that nobody asked to replace.
THEOREM EditsKeepWhatIsNotTouched == Spec => EditsKeepTheRest
  <1>1. /\ [mounted = "WebColumns" => WebColumns!SavesTyped /\ WebColumns!KeepsInactive]_vars
        /\ [mounted = "PhoneColumns" => PhoneColumns!SavesTyped /\
               PhoneColumns!KeepsInactive]_vars
        /\ [mounted = "Gallery" => Gallery!ReplacesMain]_vars
        => [/\ mounted = "WebColumns" => WebColumns!SavesTyped
            /\ mounted = "PhoneColumns" => PhoneColumns!SavesTyped
            /\ mounted = "WebColumns" => WebColumns!KeepsInactive
            /\ mounted = "PhoneColumns" => PhoneColumns!KeepsInactive
            /\ mounted = "Gallery" => Gallery!ReplacesMain]_vars
    OBVIOUS
  <1> QED  BY <1>1, WebColumnsSteps, PhoneColumnsSteps, GallerySteps, PTL DEF EditsKeepTheRest

\* Every screen keeps its state, and the tables behind it theirs, of their
\* types.
THEOREM ScreensAreTyped == Spec => []TypeOK
  <1> DEFINE Forms == /\ mounted = "Form" => Form!TypeOK
                      /\ mounted = "PhotoForm" => PhotoForm!TypeOK
                      /\ mounted = "WebColumns" => WebColumns!TypeOK
                      /\ mounted = "PhoneColumns" => PhoneColumns!TypeOK
             Albums == /\ mounted = "Search" => Search!TypeOK
                       /\ mounted = "Gallery" => Gallery!TypeOK
                       /\ mounted = "FullGallery" => FullGallery!TypeOK
             Sheets == /\ mounted = "Adjust" => Adjust!TypeOK
                       /\ mounted = "Sheet" => Sheet!TypeOK
                       /\ mounted = "Ship" => Ship!TypeOK
                       /\ mounted = "Label" => Label!TypeOK
             Banks == /\ mounted = "WebBank" => WebBank!TypeOK
                      /\ mounted = "ProfileBank" => ProfileBank!TypeOK
             Others == /\ mounted = "Checkout" => Checkout!TypeOK
                       /\ mounted = "Receipt" => Receipt!TypeOK
                       /\ mounted = "Resend" => Resend!TypeOK
                       /\ mounted = "List" => List!TypeOK
  <1>1. Spec => []Forms
    BY FormTyped, PhotoFormTyped, WebColumnsTyped, PhoneColumnsTyped, PTL
  <1>2. Spec => []Albums
    BY SearchTyped, GalleryTyped, FullGalleryTyped, PTL
  <1>3. Spec => []Sheets
    <2>1. /\ (mounted = "Adjust" => Adjust!TypeOK /\ Adjust!TwiceOnlyWhenLost
           /\ Adjust!DoneHasMoved)
          /\ (mounted = "Sheet" => Sheet!TypeOK /\ Sheet!TwiceOnlyWhenLost)
          /\ (mounted = "Ship" => Ship!TypeOK /\ Ship!RegisteredAsSaid)
          /\ (mounted = "Label" => Label!TypeOK /\ Label!RegisteredAsSaid)
          => Sheets
      OBVIOUS
    <2> HIDE DEF Sheets
    <2> QED  BY <2>1, AdjustHolds, SheetHolds, ShipHolds, LabelHolds, PTL
  <1>4. Spec => []Banks
    BY WebBankTyped, ProfileBankTyped, PTL
  <1>5. Spec => []Others
    BY CheckoutTyped, ReceiptTyped, ResendTyped, ListTyped, PTL
  <1>6. Forms /\ Albums /\ Sheets /\ Banks /\ Others => TypeOK
    BY DEF TypeOK
  <1> HIDE DEF Forms, Albums, Sheets, Banks, Others
  <1> QED  BY <1>1, <1>2, <1>3, <1>4, <1>5, <1>6, PTL
=============================================================================
