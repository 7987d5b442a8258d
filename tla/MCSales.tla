------------------------------- MODULE MCSales -------------------------------
(*****************************************************************************)
(* The screens with which a seller sells, each behind its own instance of    *)
(* the server.  The router mounts one screen at a time, so a behaviour is    *)
(* that of one of them: `mounted' says which, and s1, s2, ... are its        *)
(* variables, in the order in which its module declares them.                *)
(*****************************************************************************)
EXTENDS Naturals

CONSTANTS None, NoCart  \* model values

VARIABLES mounted, s1, s2, s3, s4, s5, s6, s7, s8, s9, s10, s11, s12, s13, s14, s15,
    s16, s17, s18

vars == <<mounted, s1, s2, s3, s4, s5, s6, s7, s8, s9, s10, s11, s12, s13, s14, s15,
    s16, s17, s18>>

\* Submissions go on after their page was left.
WebWizard == INSTANCE NewSaleWeb WITH
    Keys <- {"k1"}, Carts <- {"c1"}, Methods <- {"bank_transfer", "cash"},
    MaxLate <- 1, NoDraft <- None, Background <- TRUE, sold <- s1, published <- s2,
    late <- s3, draft <- s4, stored <- s5, page <- s6, effect <- s7, confirm <- s8,
    connected <- s9, calls <- s10, used <- s11, reported <- s12

\* The seller waits for the answer before leaving.
KeptWizard == INSTANCE NewSaleWeb WITH
    Keys <- {"k1", "k2"}, Carts <- {"c1"}, Methods <- {"bank_transfer", "mercado_pago"},
    MaxLate <- 1, NoDraft <- None, Background <- FALSE, sold <- s1, published <- s2,
    late <- s3, draft <- s4, stored <- s5, page <- s6, effect <- s7, confirm <- s8,
    connected <- s9, calls <- s10, used <- s11, reported <- s12

PhoneWizard == INSTANCE NewSaleMobile WITH
    Keys <- {"k1", "k2"}, Carts <- {"c1"},
    Methods <- {"bank_transfer", "mercado_pago"}, MaxLate <- 1, NoDraft <- None,
    Background <- FALSE, sold <- s1, published <- s2, late <- s3, draft <- s4,
    stored <- s5, screen <- s6, effect <- s7, confirm <- s8, connected <- s9,
    calls <- s10, used <- s11, reported <- s12

LeftWizard == INSTANCE NewSaleMobile WITH
    Keys <- {"k1"}, Carts <- {"c1"}, Methods <- {"bank_transfer", "mercado_pago"},
    MaxLate <- 1, NoDraft <- None, Background <- TRUE, sold <- s1, published <- s2,
    late <- s3, draft <- s4, stored <- s5, screen <- s6, effect <- s7, confirm <- s8,
    connected <- s9, calls <- s10, used <- s11, reported <- s12

EditedWizard == INSTANCE NewSaleMobile WITH
    Keys <- {"k1"}, Carts <- {"c1", "c2"}, Methods <- {"bank_transfer", "cash"},
    MaxLate <- 1, NoDraft <- None, Background <- TRUE, sold <- s1, published <- s2,
    late <- s3, draft <- s4, stored <- s5, screen <- s6, effect <- s7, confirm <- s8,
    connected <- s9, calls <- s10, used <- s11, reported <- s12

\* Half of fifteen is rounded; a discount of 150 is refused.
Lines == INSTANCE DraftLines WITH
    Products <- {"p1", "p2"}, References <- {15}, Discounts <- {50, 150},
    Prices <- {7}, MaxAvailable <- 2, MaxQuantity <- 2, MaxLines <- 2, client <- s1,
    lines <- s2, atShop <- s3

Quick == INSTANCE QuickSale WITH
    Clients <- {"web", "mobile"}, Available <- 1, MaxOpenings <- 2, MaxKeys <- 2,
    client <- s1, bank <- s2, viewed <- s3, connected <- s4, free <- s5, sales <- s6,
    published <- s7, mailed <- s8, opening <- s9, opened <- s10, key <- s11,
    keys <- s12, form <- s13, confirmCash <- s14, result <- s15, calls <- s16,
    mail <- s17, filed <- s18

\* Two units, so the quantity may change between two attempts.
QuickTwo == INSTANCE QuickSale WITH
    Clients <- {"web", "mobile"}, Available <- 2, MaxOpenings <- 1, MaxKeys <- 2,
    client <- s1, bank <- s2, viewed <- s3, connected <- s4, free <- s5, sales <- s6,
    published <- s7, mailed <- s8, opening <- s9, opened <- s10, key <- s11,
    keys <- s12, form <- s13, confirmCash <- s14, result <- s15, calls <- s16,
    mail <- s17, filed <- s18

Sale == INSTANCE SaleActions WITH
    Clients <- {"web", "mobile"}, Methods <- {"bank_transfer"}, Texts <- {"t1", "t2"},
    Kinds <- {"cancel", "restore"}, MaxIntents <- 2, MaxKeys <- 3, MaxMoves <- 1,
    client <- s1, method <- s2, sale <- s3, answers <- s4, detail <- s5,
    fetching <- s6, dialog <- s7, intents <- s8, key <- s9, call <- s10, late <- s11,
    moves <- s12, shown <- s13

PhoneSale == INSTANCE SaleActions WITH
    Clients <- {"mobile"}, Methods <- {"bank_transfer", "mercado_pago"},
    Texts <- {"t1"},
    Kinds <- {"cancel", "restore", "approve", "refund", "reissue", "reject", "manual", "resend"},
    MaxIntents <- 2, MaxKeys <- 4, MaxMoves <- 2, client <- s1, method <- s2,
    sale <- s3, answers <- s4, detail <- s5, fetching <- s6, dialog <- s7,
    intents <- s8, key <- s9, call <- s10, late <- s11, moves <- s12, shown <- s13

Contact == INSTANCE BuyerContact WITH
    Clients <- {"web"}, Names <- {"n1"}, Phones <- {"p1"},
    Addresses <- {"a1"}, Taxes <- {"t1"}, MaxKeys <- 2, MaxWrites <- 1, client <- s1,
    emailed <- s2, shipped <- s3, row <- s4, filed <- s5, seen <- s6, editing <- s7,
    draft <- s8, key <- s9, call <- s10, writes <- s11

PhoneContact == INSTANCE BuyerContact WITH
    Clients <- {"mobile"}, Names <- {"n1"}, Phones <- {"p1", "p2"},
    Addresses <- {"a1"}, Taxes <- {"t1"}, MaxKeys <- 2, MaxWrites <- 1, client <- s1,
    emailed <- s2, shipped <- s3, row <- s4, filed <- s5, seen <- s6, editing <- s7,
    draft <- s8, key <- s9, call <- s10, writes <- s11

\* The assumptions of the screens hold of their instances.
ASSUME SalesAssumption ==
    /\ WebWizard!DeskAssumption
    /\ WebWizard!WizardAssumption
    /\ KeptWizard!DeskAssumption
    /\ KeptWizard!WizardAssumption
    /\ PhoneWizard!DeskAssumption
    /\ PhoneWizard!ScreenAssumption
    /\ LeftWizard!DeskAssumption
    /\ LeftWizard!ScreenAssumption
    /\ EditedWizard!DeskAssumption
    /\ EditedWizard!ScreenAssumption
    /\ Lines!LinesAssumption
    /\ Quick!QuickAssumption
    /\ QuickTwo!QuickAssumption
    /\ Sale!ActionsAssumption
    /\ PhoneSale!ActionsAssumption
    /\ Contact!ContactAssumption
    /\ PhoneContact!ContactAssumption

\* A screen that is not there leaves its part of the state alone.
Absent(s) == s = None

Init ==
    \/ /\ mounted = "WebWizard" /\ WebWizard!Init /\ Absent(s13) /\ Absent(s14)
       /\ Absent(s15) /\ Absent(s16) /\ Absent(s17) /\ Absent(s18)
    \/ /\ mounted = "KeptWizard" /\ KeptWizard!Init /\ Absent(s13) /\ Absent(s14)
       /\ Absent(s15) /\ Absent(s16) /\ Absent(s17) /\ Absent(s18)
    \/ /\ mounted = "PhoneWizard" /\ PhoneWizard!Init /\ Absent(s13) /\ Absent(s14)
       /\ Absent(s15) /\ Absent(s16) /\ Absent(s17) /\ Absent(s18)
    \/ /\ mounted = "LeftWizard" /\ LeftWizard!Init /\ Absent(s13) /\ Absent(s14)
       /\ Absent(s15) /\ Absent(s16) /\ Absent(s17) /\ Absent(s18)
    \/ /\ mounted = "EditedWizard" /\ EditedWizard!Init /\ Absent(s13)
       /\ Absent(s14) /\ Absent(s15) /\ Absent(s16) /\ Absent(s17) /\ Absent(s18)
    \/ /\ mounted = "Lines" /\ Lines!Init /\ Absent(s4) /\ Absent(s5) /\ Absent(s6)
       /\ Absent(s7) /\ Absent(s8) /\ Absent(s9) /\ Absent(s10) /\ Absent(s11)
       /\ Absent(s12) /\ Absent(s13) /\ Absent(s14) /\ Absent(s15) /\ Absent(s16)
       /\ Absent(s17) /\ Absent(s18)
    \/ /\ mounted = "Quick" /\ Quick!Init
    \/ /\ mounted = "QuickTwo" /\ QuickTwo!Init
    \/ /\ mounted = "Sale" /\ Sale!Init /\ Absent(s14) /\ Absent(s15)
       /\ Absent(s16) /\ Absent(s17) /\ Absent(s18)
    \/ /\ mounted = "PhoneSale" /\ PhoneSale!Init /\ Absent(s14) /\ Absent(s15)
       /\ Absent(s16) /\ Absent(s17) /\ Absent(s18)
    \/ /\ mounted = "Contact" /\ Contact!Init /\ Absent(s12) /\ Absent(s13)
       /\ Absent(s14) /\ Absent(s15) /\ Absent(s16) /\ Absent(s17) /\ Absent(s18)
    \/ /\ mounted = "PhoneContact" /\ PhoneContact!Init /\ Absent(s12)
       /\ Absent(s13) /\ Absent(s14) /\ Absent(s15) /\ Absent(s16) /\ Absent(s17)
       /\ Absent(s18)

Next ==
    \/ /\ mounted = "WebWizard" /\ WebWizard!Next /\ UNCHANGED <<mounted, s13, s14,
          s15, s16, s17, s18>>
    \/ /\ mounted = "KeptWizard" /\ KeptWizard!Next /\ UNCHANGED <<mounted, s13, s14,
          s15, s16, s17, s18>>
    \/ /\ mounted = "PhoneWizard" /\ PhoneWizard!Next /\ UNCHANGED <<mounted, s13, s14,
          s15, s16, s17, s18>>
    \/ /\ mounted = "LeftWizard" /\ LeftWizard!Next /\ UNCHANGED <<mounted, s13, s14,
          s15, s16, s17, s18>>
    \/ /\ mounted = "EditedWizard" /\ EditedWizard!Next /\ UNCHANGED <<mounted, s13,
          s14, s15, s16, s17, s18>>
    \/ /\ mounted = "Lines" /\ Lines!Next /\ UNCHANGED <<mounted, s4, s5, s6, s7, s8,
          s9, s10, s11, s12, s13, s14, s15, s16, s17, s18>>
    \/ /\ mounted = "Quick" /\ Quick!Next /\ UNCHANGED <<mounted>>
    \/ /\ mounted = "QuickTwo" /\ QuickTwo!Next /\ UNCHANGED <<mounted>>
    \/ /\ mounted = "Sale" /\ Sale!Next /\ UNCHANGED <<mounted, s14, s15, s16, s17, s18>>
    \/ /\ mounted = "PhoneSale" /\ PhoneSale!Next /\ UNCHANGED <<mounted, s14, s15,
          s16, s17, s18>>
    \/ /\ mounted = "Contact" /\ Contact!Next /\ UNCHANGED <<mounted, s12, s13, s14,
          s15, s16, s17, s18>>
    \/ /\ mounted = "PhoneContact" /\ PhoneContact!Next /\ UNCHANGED <<mounted, s12,
          s13, s14, s15, s16, s17, s18>>

Spec == Init /\ [][Next]_vars

----------------------------------------------------------------------------
\* Every screen keeps its state, and the tables behind it theirs, of their types.
TypeOK ==
    /\ mounted = "WebWizard" => WebWizard!TypeOK
    /\ mounted = "KeptWizard" => KeptWizard!TypeOK
    /\ mounted = "PhoneWizard" => PhoneWizard!TypeOK
    /\ mounted = "LeftWizard" => LeftWizard!TypeOK
    /\ mounted = "EditedWizard" => EditedWizard!TypeOK
    /\ mounted = "Lines" => Lines!TypeOK
    /\ mounted = "Quick" => Quick!TypeOK
    /\ mounted = "QuickTwo" => QuickTwo!TypeOK
    /\ mounted = "Sale" => Sale!TypeOK
    /\ mounted = "PhoneSale" => PhoneSale!TypeOK
    /\ mounted = "Contact" => Contact!TypeOK
    /\ mounted = "PhoneContact" => PhoneContact!TypeOK

\* What a screen says of the sale it made is true on the server, through any
\* number of retries, reloads, closed dialogs and late answers: the order a
\* draft names exists, and the link shown is that of its own sale and served.
ShownIsTrue ==
    /\ mounted = "WebWizard" => WebWizard!DraftTellsTruth
    /\ mounted = "Quick" => Quick!LinkIsLive
    /\ mounted = "QuickTwo" => QuickTwo!LinkIsLive

\* No sale is left holding stock behind the seller's back: every sale that
\* exists was shown as done, or its key is still in a draft with which the
\* wizard will ask for it again, or a submission is about to report it.
NoOrphanSale ==
    /\ mounted = "KeptWizard" => KeptWizard!NoOrphanSale
    /\ mounted = "PhoneWizard" => PhoneWizard!NoOrphanSale
    /\ mounted = "LeftWizard" => LeftWizard!NoOrphanSale

\* A draft that may go on asks for no more units of a product, over all its
\* lines, than the smallest stock the seller was shown; both applications, which
\* check in different ways, agree on it; and the discount that stands beside a
\* price explains it to the nearest peso, whichever of them was typed last.
LinesFitStock ==
    /\ mounted = "Lines" => Lines!ValidFitsStock
    /\ mounted = "Lines" => Lines!ValidatorsAgree
    /\ mounted = "Lines" => Lines!DiscountExplainsPrice

\* What the seller wanted once happens at most once, however often the request
\* is retried and its answers lost: an opening of the quick sale makes one sale,
\* and a confirmed action on a sale is executed once.
OncePerIntent ==
    /\ mounted = "Quick" => Quick!OneSalePerOpening
    /\ mounted = "QuickTwo" => QuickTwo!OneSalePerOpening
    /\ mounted = "Sale" => Sale!OncePerIntent

\* A sale the seller is told of was made with the quantity and the method of
\* the attempt that is answered, not of an earlier one under the same key.
SoldAsAsked ==
    /\ mounted = "Quick" => Quick!SoldAsAsked
    /\ mounted = "QuickTwo" => QuickTwo!SoldAsAsked

\* Once the read that follows a success has ended, the page shows the sale at
\* least as new as that success, whatever read was under way before it.
FreshAfterSuccess == mounted = "Sale" => Sale!FreshAfterSuccess

\* A seller who corrects the form after a failure is not refused for the key.
CorrectionIsAccepted == mounted = "PhoneContact" => PhoneContact!CorrectionIsAccepted

\* What is reported as done is what was confirmed: the wizard of the phone
\* publishes the lines its seller reviewed, also when a first publication failed,
\* and the success that closes a dialog is that of the action confirmed in it.
DoneAsConfirmed ==
    [][/\ mounted = "EditedWizard" => EditedWizard!SellsAsReviewed
       /\ mounted = "PhoneSale" => PhoneSale!SucceedsForThisIntent]_vars

\* A save of the buyer's data keeps the fields its form does not show, as long as
\* nobody else wrote them, and the sheet of the phone stores what was typed in it.
SavedAsTyped ==
    [][/\ mounted = "Contact" => Contact!KeepsRest
       /\ mounted = "PhoneContact" => PhoneContact!SavesAsTyped]_vars
=============================================================================
