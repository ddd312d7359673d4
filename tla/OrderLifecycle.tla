--------------------------- MODULE OrderLifecycle ---------------------------
(***************************************************************************)
(* What an Order promises, to the buyer who reads get_order_status and to  *)
(* the merchant who ships: the statuses only ever move forward, and the    *)
(* goods follow the money.  A paid Order settles its goods in the same     *)
(* step, either shipping them or coming up short, and only a short Order   *)
(* is ever refunded.  Orders.tla shows that the webhook handlers, the      *)
(* refund and the checkout implement this.                                 *)
(***************************************************************************)
CONSTANT Orders

VARIABLES
    status,  \* orders.status
    goods    \* what happened to the goods: "pending", "shipped" or "short"

vars == <<status, goods>>

Status == {"absent", "created", "awaiting_payment", "paid", "cancelled", "refunded"}

\* PAYABLE_STATUSES: the statuses a capture or a decline may still change.
Payable == {"created", "awaiting_payment"}

Init ==
    /\ status = [o \in Orders |-> "absent"]
    /\ goods = [o \in Orders |-> "pending"]

Move(o, from, to) ==
    /\ status[o] \in from
    /\ status' = [status EXCEPT ![o] = to]

Create(o) == Move(o, {"absent"}, "created") /\ UNCHANGED goods

AwaitPayment(o) == Move(o, {"created"}, "awaiting_payment") /\ UNCHANGED goods

Pay(o) ==
    /\ Move(o, Payable, "paid")
    /\ \E g \in {"shipped", "short"} : goods' = [goods EXCEPT ![o] = g]

Cancel(o) == Move(o, Payable, "cancelled") /\ UNCHANGED goods

Refund(o) ==
    /\ goods[o] = "short"
    /\ Move(o, {"paid"}, "refunded")
    /\ UNCHANGED goods

Next ==
    \E o \in Orders :
        Create(o) \/ AwaitPayment(o) \/ Pay(o) \/ Cancel(o) \/ Refund(o)

Spec == Init /\ [][Next]_vars

=============================================================================
