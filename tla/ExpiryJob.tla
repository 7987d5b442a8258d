------------------------------ MODULE ExpiryJob ------------------------------
(***************************************************************************)
(* The job that expires the lapsed reservations, expire_due_orders of      *)
(* order_services.py, next to everything else that happens to the sales.   *)
(*                                                                         *)
(* Beat runs the task every minute.  It reads, without locks, the first    *)
(* "Limit" sales that are due, in the order of their dates, and then       *)
(* expires each in a transaction of its own that looks at it again under   *)
(* lock.                                                                   *)
(***************************************************************************)
EXTENDS SalesOrders, Sequences

CONSTANT Limit

ASSUME LimitAssumption == Limit \in Nat \ {0}

VARIABLES
    dates,  \* the open sales, ordered by reservation_expires_at
    batch   \* what the run of the job under way has read and not visited yet

jobVars == <<dates, batch>>

JobInit == Init /\ dates = <<>> /\ batch = <<>>

----------------------------------------------------------------------------

Due(o) == order[o].status \in ExpirableStatus /\ order[o].due

\* The dates of the sales that stay open, and of the one that opens in this
\* step: a new date lies in the future, after every date that has passed.
DatesFollow ==
    LET open == {o \in Orders : order'[o].status \in ActiveStatus}
        kept == SelectSeq(dates, LAMBDA o : o \in open)
        new  == open \ {dates[i] : i \in DOMAIN dates}
    IN IF new = {} THEN dates' = kept
       ELSE \E o \in new, i \in 0..Len(kept) :
               /\ \A j \in i + 1..Len(kept) : ~order[kept[j]].due
               /\ dates' = SubSeq(kept, 1, i) \o <<o>> \o SubSeq(kept, i + 1, Len(kept))

\* What buyers, sellers and the provider do.  A buyer who opens the public page
\* of a sale that is due expires it, too.
SaleStep ==
    /\ \E o \in Orders : BuyerStep(o) \/ SellerStep(o) \/ ReportStep(o) \/ ExpireOrder(o)
    /\ DatesFollow
    /\ UNCHANGED batch

\* Dates pass in their order.  That of a sale under review passes unseen.
DatePasses ==
    /\ \E i \in DOMAIN dates :
          /\ ReservationLapses(dates[i])
          /\ \A j \in 1..i - 1 :
                order[dates[j]].status \in ExpirableStatus => order[dates[j]].due
    /\ UNCHANGED jobVars

\* Fault: the latest dates come first.
ReadLatestDue ==
    LET due == SelectSeq(dates, Due) IN
    /\ batch = <<>> /\ due # <<>>
    /\ batch' = SubSeq(due, IF Len(due) < Limit THEN 1 ELSE Len(due) - Limit + 1, Len(due))
    /\ UNCHANGED <<vars, dates>>

\* The run begins: the query of expire_due_orders.
ReadDue ==
    LET due == SelectSeq(dates, Due) IN
    /\ batch = <<>> /\ due # <<>>
    /\ batch' = SubSeq(due, 1, IF Len(due) < Limit THEN Len(due) ELSE Limit)
    /\ UNCHANGED <<vars, dates>>

\* expire_order of the next one, which may have moved on since it was read.
VisitNext ==
    /\ batch # <<>>
    /\ IF Due(Head(batch)) THEN ExpireOrder(Head(batch)) /\ DatesFollow
       ELSE UNCHANGED <<vars, dates>>
    /\ batch' = Tail(batch)

JobNext == SaleStep \/ DatePasses \/ ReadDue \/ VisitNext

\* Beat and the worker keep running; nothing else has to happen.
JobSpec ==
    /\ JobInit /\ [][JobNext]_<<vars, jobVars>>
    /\ WF_<<vars, jobVars>>(ReadDue) /\ WF_<<vars, jobVars>>(VisitNext)

----------------------------------------------------------------------------

\* The units of a sale whose reservation has lapsed come back: whatever the
\* seller cancels, restores and reissues meanwhile, the job reaches the sale,
\* unless the buyer pays or sends the receipt first.
LapsedSaleCloses == \A o \in Orders : Due(o) ~> ~Due(o)
=============================================================================
