----------------------------- MODULE MCExpiryJob -----------------------------
(***************************************************************************)
(* A small instance of ExpiryJob: the job takes fewer sales than are due.  *)
(***************************************************************************)
EXTENDS ExpiryJob, TLC

TwoOfEach == [p \in Products |-> 2]

SingleUnits == {c \in [Products -> 0..1] : \E p \in Products : c[p] > 0}

NoAdjustments == {}
=============================================================================
