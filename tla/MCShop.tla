------------------------------- MODULE MCShop --------------------------------
(*****************************************************************************)
(* The screens around the sales of a shop: those with which a seller keeps   *)
(* the catalogue, the shipments and the bank accounts, and those on which a  *)
(* buyer chooses how to pay and sends the receipt of a transfer.  Each is    *)
(* behind its own instance of the server.  The router mounts one screen at   *)
(* a time, so a behaviour is that of one of them: `mounted' says which, and  *)
(* s1, s2, ... are its variables, in the order in which its module declares  *)
(* them.                                                                     *)
(*****************************************************************************)
EXTENDS Naturals

CONSTANT None  \* a model value

VARIABLES mounted, s1, s2, s3, s4, s5, s6, s7, s8, s9, s10, s11, s12, s13

vars == <<mounted, s1, s2, s3, s4, s5, s6, s7, s8, s9, s10, s11, s12, s13>>

\* The product takes the last place of the plan.
Form == INSTANCE ProductForm WITH
    Clients <- {"web", "mobile"}, Names <- {"n1", "n2"}, Quantities <- {0},
    Photos <- {"f1"}, Limit <- 1, MaxKeys <- 2, client <- s1, origin <- s2,
    products <- s3, source <- s4, draft <- s5, photos <- s6, key <- s7, keys <- s8,
    call <- s9, told <- s10, saved <- s11, page <- s12

\* Two photos, so their order counts.
PhotoForm == INSTANCE ProductForm WITH
    Clients <- {"mobile"}, Names <- {"n1"}, Quantities <- {0}, Photos <- {"f1", "f2"},
    Limit <- 2, MaxKeys <- 2, client <- s1, origin <- s2, products <- s3, source <- s4,
    draft <- s5, photos <- s6, key <- s7, keys <- s8, call <- s9, told <- s10,
    saved <- s11, page <- s12

WebColumns == INSTANCE ProductColumns WITH
    Clients <- {"web"}, Columns <- {"f1", "f2"}, Required <- {"f1", "f2"},
    Values <- {"a"}, MaxActive <- 2, Blank <- "blank", client <- s1, fields <- s2,
    mine <- s3, other <- s4, schema <- s5, product <- s6, loaded <- s7, draft <- s8,
    save <- s9, typed <- s10, sheet <- s11

\* On the phone, one column fills the schema.
PhoneColumns == INSTANCE ProductColumns WITH
    Clients <- {"mobile"}, Columns <- {"f1", "f2"}, Required <- {"f1"},
    Values <- {"a"}, MaxActive <- 1, Blank <- "blank", client <- s1, fields <- s2,
    mine <- s3, other <- s4, schema <- s5, product <- s6, loaded <- s7, draft <- s8,
    save <- s9, typed <- s10, sheet <- s11

Search == INSTANCE AssistedSearch WITH
    Clients <- {"web", "mobile"}, MaxPhotos <- 3, MaxQueue <- 2, client <- s1,
    allowed <- s2, added <- s3, photos <- s4, phase <- s5, candidates <- s6,
    applied <- s7, key <- s8, searches <- s9, begun <- s10, ledger <- s11

Gallery == INSTANCE ProductGallery WITH
    Pages <- {"web", "phone"}, Web <- {"web"}, MaxImages <- 2, MaxAssets <- 2,
    archived <- s1, gallery <- s2, primary <- s3, assets <- s4, ready <- s5,
    shown <- s6, upload <- s7, failed <- s8, change <- s9

\* One photo fills it.
FullGallery == INSTANCE ProductGallery WITH
    Pages <- {"web", "phone"}, Web <- {"web"}, MaxImages <- 1, MaxAssets <- 2,
    archived <- s1, gallery <- s2, primary <- s3, assets <- s4, ready <- s5,
    shown <- s6, upload <- s7, failed <- s8, change <- s9

\* The sheets that say a movement is done only after it was.
Adjust == INSTANCE StockAdjust WITH
    Screens <- {"web", "list"}, Sizes <- {1}, Stocks <- {1}, MaxStock <- 2,
    Reserved <- 0, MaxOpenings <- 2, MaxKeys <- 4, screen <- s1, onHand <- s2,
    archived <- s3, moves <- s4, shown <- s5, opening <- s6, isOpen <- s7, draft <- s8,
    key <- s9, keys <- s10, calls <- s11, lost <- s12, done <- s13

Sheet == INSTANCE StockAdjust WITH
    Screens <- {"product"}, Sizes <- {1}, Stocks <- {1}, MaxStock <- 2, Reserved <- 0,
    MaxOpenings <- 2, MaxKeys <- 3, screen <- s1, onHand <- s2, archived <- s3,
    moves <- s4, shown <- s5, opening <- s6, isOpen <- s7, draft <- s8, key <- s9,
    keys <- s10, calls <- s11, lost <- s12, done <- s13

\* Two pages dispatch the same order.
Ship == INSTANCE ShipmentDetail WITH
    Pages <- {"web", "phone"}, Modes <- {"shipping", "pickup"}, Emails <- {TRUE},
    Data <- {"blank", "a"}, Invalid <- {}, Blank <- "blank", MaxKeys <- 3, MaxLabels <- 0,
    mode <- s1, email <- s2, order <- s3, shipment <- s4, mail <- s5, labels <- s6,
    used <- s7, page <- s8, left <- s9

Label == INSTANCE ShipmentDetail WITH
    Pages <- {"phone"}, Modes <- {"shipping"}, Emails <- {TRUE, FALSE},
    Data <- {"blank", "a", "b"}, Invalid <- {"b"}, Blank <- "blank",
    MaxKeys <- 3, MaxLabels <- 2, mode <- s1, email <- s2, order <- s3, shipment <- s4,
    mail <- s5, labels <- s6, used <- s7, page <- s8, left <- s9

WebBank == INSTANCE BankAccounts WITH
    Clients <- {"web"}, Data <- {"blank", "a", "b"}, Blank <- "blank",
    MaxAccounts <- 1, MaxIds <- 3, MaxSends <- 2, MaxChanges <- 0, client <- s1,
    stored <- s2, ids <- s3, profile <- s4, seen <- s5, draft <- s6, calls <- s7,
    sends <- s8, reported <- s9, astray <- s10

\* Two accounts, on both applications; the person and the shop change meanwhile.
ProfileBank == INSTANCE BankAccounts WITH
    Clients <- {"web", "mobile"}, Data <- {"blank", "a"}, Blank <- "blank",
    MaxAccounts <- 2, MaxIds <- 3, MaxSends <- 2, MaxChanges <- 1, client <- s1,
    stored <- s2, ids <- s3, profile <- s4, seen <- s5, draft <- s6, calls <- s7,
    sends <- s8, reported <- s9, astray <- s10

\* A buyer with the sale's link in two tabs.
Checkout == INSTANCE PublicCheckout WITH
    Tabs <- {"t", "u"}, Methods <- {"mercado_pago", "bank_transfer"},
    Modes <- {"pickup"}, MaxMade <- 2, method <- s1, mode <- s2, status <- s3,
    buyer <- s4, checkout <- s5, made <- s6, used <- s7, tab <- s8

\* Two tabs that meet in one upload, and one that begins again twice.
Receipt == INSTANCE ReceiptUpload WITH
    Tabs <- {"a", "b"}, MaxAssets <- 1, status <- s1, left <- s2, buyer <- s3,
    proof <- s4, asset <- s5, tab <- s6

Resend == INSTANCE ReceiptUpload WITH
    Tabs <- {"a"}, MaxAssets <- 3, status <- s1, left <- s2, buyer <- s3,
    proof <- s4, asset <- s5, tab <- s6

List == INSTANCE ProductList WITH
    Clients <- {"web", "mobile"}, Filters <- {"all"}, Products <- {1, 2, 3},
    Tagged <- {}, MaxValue <- 1, PageSize <- 1, MaxChanges <- 1, First <- "all",
    client <- s1, descending <- s2, value <- s3, present <- s4, changes <- s5,
    typed <- s6, filter <- s7, pages <- s8, moved <- s9, fetch <- s10, error <- s11

\* The assumptions of the screens hold of their instances.
ASSUME ShopAssumption ==
    /\ Form!FormAssumption
    /\ PhotoForm!FormAssumption
    /\ WebColumns!ColumnAssumption
    /\ PhoneColumns!ColumnAssumption
    /\ Gallery!GalleryAssumption
    /\ FullGallery!GalleryAssumption
    /\ Search!SearchAssumption
    /\ Adjust!AdjustAssumption
    /\ Sheet!AdjustAssumption
    /\ Ship!ShipmentAssumption
    /\ Label!ShipmentAssumption
    /\ WebBank!BankAssumption
    /\ ProfileBank!BankAssumption
    /\ Checkout!CheckoutAssumption
    /\ Receipt!ReceiptAssumption
    /\ Resend!ReceiptAssumption
    /\ List!ListAssumption

\* A screen that is not there leaves its part of the state alone.
Absent(s) == s = None

Init ==
    \/ /\ mounted = "Form" /\ Form!Init /\ Absent(s13)
    \/ /\ mounted = "PhotoForm" /\ PhotoForm!Init /\ Absent(s13)
    \/ /\ mounted = "WebColumns" /\ WebColumns!Init /\ Absent(s12) /\ Absent(s13)
    \/ /\ mounted = "PhoneColumns" /\ PhoneColumns!Init /\ Absent(s12) /\ Absent(s13)
    \/ /\ mounted = "Search" /\ Search!Init /\ Absent(s12) /\ Absent(s13)
    \/ /\ mounted = "Gallery" /\ Gallery!Init /\ Absent(s10) /\ Absent(s11)
       /\ Absent(s12) /\ Absent(s13)
    \/ /\ mounted = "FullGallery" /\ FullGallery!Init /\ Absent(s10) /\ Absent(s11)
       /\ Absent(s12) /\ Absent(s13)
    \/ /\ mounted = "Adjust" /\ Adjust!Init
    \/ /\ mounted = "Sheet" /\ Sheet!Init
    \/ /\ mounted = "Ship" /\ Ship!Init /\ Absent(s10) /\ Absent(s11)
       /\ Absent(s12) /\ Absent(s13)
    \/ /\ mounted = "Label" /\ Label!Init /\ Absent(s10)
       /\ Absent(s11) /\ Absent(s12) /\ Absent(s13)
    \/ /\ mounted = "WebBank" /\ WebBank!Init /\ Absent(s11) /\ Absent(s12)
       /\ Absent(s13)
    \/ /\ mounted = "ProfileBank" /\ ProfileBank!Init /\ Absent(s11) /\ Absent(s12)
       /\ Absent(s13)
    \/ /\ mounted = "Checkout" /\ Checkout!Init /\ Absent(s9) /\ Absent(s10)
       /\ Absent(s11) /\ Absent(s12) /\ Absent(s13)
    \/ /\ mounted = "Receipt" /\ Receipt!Init /\ Absent(s7) /\ Absent(s8)
       /\ Absent(s9) /\ Absent(s10) /\ Absent(s11) /\ Absent(s12) /\ Absent(s13)
    \/ /\ mounted = "Resend" /\ Resend!Init /\ Absent(s7) /\ Absent(s8)
       /\ Absent(s9) /\ Absent(s10) /\ Absent(s11) /\ Absent(s12) /\ Absent(s13)
    \/ /\ mounted = "List" /\ List!Init /\ Absent(s12) /\ Absent(s13)

Next ==
    \/ /\ mounted = "Form" /\ Form!Next /\ UNCHANGED <<mounted, s13>>
    \/ /\ mounted = "PhotoForm" /\ PhotoForm!Next /\ UNCHANGED <<mounted, s13>>
    \/ /\ mounted = "WebColumns" /\ WebColumns!Next /\ UNCHANGED <<mounted, s12, s13>>
    \/ /\ mounted = "PhoneColumns" /\ PhoneColumns!Next /\ UNCHANGED <<mounted, s12, s13>>
    \/ /\ mounted = "Search" /\ Search!Next /\ UNCHANGED <<mounted, s12, s13>>
    \/ /\ mounted = "Gallery" /\ Gallery!Next /\ UNCHANGED <<mounted, s10, s11, s12, s13>>
    \/ /\ mounted = "FullGallery" /\ FullGallery!Next /\ UNCHANGED <<mounted, s10, s11,
          s12, s13>>
    \/ /\ mounted = "Adjust" /\ Adjust!Next /\ UNCHANGED <<mounted>>
    \/ /\ mounted = "Sheet" /\ Sheet!Next /\ UNCHANGED <<mounted>>
    \/ /\ mounted = "Ship" /\ Ship!Next /\ UNCHANGED <<mounted, s10, s11, s12, s13>>
    \/ /\ mounted = "Label" /\ Label!Next /\ UNCHANGED <<mounted, s10, s11, s12, s13>>
    \/ /\ mounted = "WebBank" /\ WebBank!Next /\ UNCHANGED <<mounted, s11, s12, s13>>
    \/ /\ mounted = "ProfileBank" /\ ProfileBank!Next /\ UNCHANGED <<mounted, s11, s12, s13>>
    \/ /\ mounted = "Checkout" /\ Checkout!Next /\ UNCHANGED <<mounted, s9, s10, s11,
          s12, s13>>
    \/ /\ mounted = "Receipt" /\ Receipt!Next /\ UNCHANGED <<mounted, s7, s8, s9, s10,
          s11, s12, s13>>
    \/ /\ mounted = "Resend" /\ Resend!Next /\ UNCHANGED <<mounted, s7, s8, s9, s10,
          s11, s12, s13>>
    \/ /\ mounted = "List" /\ List!Next /\ UNCHANGED <<mounted, s12, s13>>

Spec == Init /\ [][Next]_vars

----------------------------------------------------------------------------
\* Every screen keeps its state, and the tables behind it theirs, of their types.
TypeOK ==
    /\ mounted = "Form" => Form!TypeOK
    /\ mounted = "PhotoForm" => PhotoForm!TypeOK
    /\ mounted = "WebColumns" => WebColumns!TypeOK
    /\ mounted = "PhoneColumns" => PhoneColumns!TypeOK
    /\ mounted = "Search" => Search!TypeOK
    /\ mounted = "Gallery" => Gallery!TypeOK
    /\ mounted = "FullGallery" => FullGallery!TypeOK
    /\ mounted = "Adjust" => Adjust!TypeOK
    /\ mounted = "Sheet" => Sheet!TypeOK
    /\ mounted = "Ship" => Ship!TypeOK
    /\ mounted = "Label" => Label!TypeOK
    /\ mounted = "WebBank" => WebBank!TypeOK
    /\ mounted = "ProfileBank" => ProfileBank!TypeOK
    /\ mounted = "Checkout" => Checkout!TypeOK
    /\ mounted = "Receipt" => Receipt!TypeOK
    /\ mounted = "Resend" => Resend!TypeOK
    /\ mounted = "List" => List!TypeOK

\* A key stands for one request: it makes at most one product, however often it
\* is sent again, and no two photo searches share one, so none is answered with
\* the candidates of another photo.
OneRequestPerKey ==
    /\ mounted = "Form" => Form!OneProductPerKey
    /\ mounted = "PhotoForm" => PhotoForm!OneProductPerKey
    /\ mounted = "Search" => Search!OneSearchPerKey

\* The product reported as made is the one its form sent, whatever was typed
\* while the request was under way, with the first photos of its queue in order.
MadeAsSent ==
    /\ mounted = "Form" => Form!SavedIsMade
    /\ mounted = "PhotoForm" => PhotoForm!SavedIsMade
    /\ mounted = "PhotoForm" => PhotoForm!PhotosInOrder

\* Two pages that attach, choose and remove photos from lists that are old leave
\* a main photo that is one of the gallery, and no more photos than the limit.
GalleryIsSound ==
    /\ mounted = "Gallery" => Gallery!PrimaryInGallery
    /\ mounted = "FullGallery" => FullGallery!PrimaryInGallery
    /\ mounted = "FullGallery" => FullGallery!LimitHolds

\* An opening that ended well has moved the stock as it was asked, by itself:
\* its key was never used by an opening before it.
DoneHasMoved == mounted = "Adjust" => Adjust!DoneHasMoved

\* An opening moves the stock a second time only after it lost an answer.
TwiceOnlyWhenLost ==
    /\ mounted = "Adjust" => Adjust!TwiceOnlyWhenLost
    /\ mounted = "Sheet" => Sheet!TwiceOnlyWhenLost

\* A row that the filter lets through and that nothing moves is listed once by
\* reading page after page, also among rows without a value and ties, and while
\* other rows change.
EachRowOnce ==
    /\ mounted = "List" => List!NoRowIsSkipped
    /\ mounted = "List" => List!NoRowIsRepeated

\* What a page reports as registered is what the shipment keeps and what the
\* buyer was told, whatever another page registered, retried or lost.
RegisteredAsSaid ==
    /\ mounted = "Ship" => Ship!RegisteredAsSaid
    /\ mounted = "Label" => Label!RegisteredAsSaid

\* All tabs lead to one checkout of the provider, the one the payment names, so
\* that what is paid there is this payment: after lost answers, rolled-back
\* transactions and corrected details, too.
OneCheckout == mounted = "Checkout" => Checkout!OneCheckout

\* A sale under review has the delivery data and a receipt that was stored as
\* it was announced, in however many tabs the buyer sends and corrects.
ReviewIsBacked ==
    /\ mounted = "Receipt" => Receipt!ReviewIsBacked
    /\ mounted = "Resend" => Resend!ReviewIsBacked

\* On the web buyers are shown what the last save was reported to have stored, or
\* the list of a save that nobody saw executed, because its page was left or its
\* connection lost while it was under way.
LastSaveStands ==
    /\ mounted = "WebBank" => WebBank!LastSaveStands
    /\ mounted = "ProfileBank" => ProfileBank!LastSaveStands

\* An edit changes what its seller touched and keeps the rest: the columns typed
\* are stored although the product was read again, the values of inactive columns
\* stay, and a main photo gives way only to a removal, to a choice, or to an upload
\* that began on a page without photos.
EditsKeepTheRest ==
    [][/\ mounted = "WebColumns" => WebColumns!SavesTyped
       /\ mounted = "PhoneColumns" => PhoneColumns!SavesTyped
       /\ mounted = "WebColumns" => WebColumns!KeepsInactive
       /\ mounted = "PhoneColumns" => PhoneColumns!KeepsInactive
       /\ mounted = "Gallery" => Gallery!ReplacesMain]_vars
=============================================================================
