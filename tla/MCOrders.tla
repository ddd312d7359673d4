------------------------------ MODULE MCOrders ------------------------------
(***************************************************************************)
(* Instances of Orders for TLC.  Each run picks the deliveries a capture   *)
(* and a failed attempt fire, what the Orders buy, and what is in stock.   *)
(***************************************************************************)
EXTENDS Orders, TLC

CONSTANTS o1, o2, p1, p2, p3, v1, v2

\* payment_link.paid and payment.captured as the gateway sends them.
Paid == [kind |-> "payment_succeeded", named |-> TRUE, gorder |-> "own", paid |-> TRUE,
         amount |-> "exact"]
Authorized == [Paid EXCEPT !.kind = "other"]
Captured == [Paid EXCEPT !.gorder = "none"]

\* The same without one of the fields the handler depends on.
Anonymous == [Paid EXCEPT !.named = FALSE]
Unaddressed == [Captured EXCEPT !.paid = FALSE]
Foreign == [Paid EXCEPT !.gorder = "foreign"]
Mispriced == [Captured EXCEPT !.amount = "different"]
Priceless == [Captured EXCEPT !.amount = "absent"]

Failed == [Captured EXCEPT !.kind = "payment_failed"]
FailedUnaddressed == [Failed EXCEPT !.paid = FALSE]
FailedLinked == [Failed EXCEPT !.gorder = "own"]

SiblingShapes == {Paid, Captured}
RetryFailureShapes == {FailedLinked, FailedUnaddressed}
OddShapes == {Anonymous, Unaddressed, Foreign, Authorized}
PaidOrOdd == {Paid, Mispriced, Anonymous}
OddOrPriceless == OddShapes \cup {Priceless}
NoShapes == {}
FailedShapes == {Failed}
LinkedFailure == {FailedLinked}

\* Two buyers after the last unit of v1; o1 also takes a v2 nobody contests.
RivalLines == [o \in Orders |-> [v \in Variants |-> IF o = o2 /\ v = v2 THEN 0 ELSE 1]]
OneEach == [v \in Variants |-> 1]
NoStock == [v \in Variants |-> 0]

Symmetry == Permutations(Payments) \cup Permutations(Handlers)
=============================================================================
