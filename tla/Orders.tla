------------------------------- MODULE Orders -------------------------------
(***************************************************************************)
(* The money path after the trust gate: the tail of submit_payment that    *)
(* issues the payment link, the webhook handler that applies what the      *)
(* gateway reports, the fulfilment that decrements stock in the same       *)
(* transaction, and the automatic refund of an oversold Order.             *)
(*                                                                         *)
(* A database transaction is one action: every one of them changes rows    *)
(* only through a conditional UPDATE whose row lock is kept to the commit. *)
(* What happens between two transactions of a request, or between a read   *)
(* outside a transaction and the transaction that uses it, is a point      *)
(* where any other request, the gateway or a crash may step in.            *)
(***************************************************************************)
EXTENDS Integers, Sequences, FiniteSetsExt

CONSTANTS
    Orders,               \* domain Order ids
    Payments,             \* gateway payment ids (attempts on one link)
    Variants,             \* sellable units
    Handlers,             \* webhook requests the server works on at once
    Lines,                \* Lines[o][v]: quantity of v that Order o buys
    InitialStock,         \* InitialStock[v]
    PaymentAttemptLimit,  \* PAYMENT_ATTEMPT_LIMIT in decline.ts
    CaptureShapes,        \* the deliveries one captured payment fires
    FailureShapes,        \* the delivery one failed attempt may fire
    RefundMayFail,        \* may the gateway's refund call fail?
    MaxCrashes,           \* bound on process restarts
    NoPayment,            \* a null gateway payment id
    NoEvent               \* an idle handler's event

\* What a webhook body carries: the kind classifyRazorpayEvent gives it, whether
\* it names our Order (reference or payment link id), which gateway order it
\* reports, whether it has a payment entity, and how its amount compares.
Shape == [kind   : {"payment_succeeded", "payment_failed", "other"},
          named  : BOOLEAN,
          gorder : {"none", "own", "foreign"},
          paid   : BOOLEAN,
          amount : {"exact", "different", "absent"}]

ASSUME OrdersAssumption ==
    /\ Lines \in [Orders -> [Variants -> Nat]]
    /\ InitialStock \in [Variants -> Nat]
    /\ PaymentAttemptLimit \in Nat \ {0}
    /\ CaptureShapes \subseteq {s \in Shape : s.kind # "payment_failed"}
    /\ FailureShapes \subseteq {s \in Shape : s.kind = "payment_failed"}
    /\ RefundMayFail \in BOOLEAN
    /\ MaxCrashes \in Nat
    /\ NoPayment \notin Payments

Event == [order : Orders, payment : Payments, shape : CaptureShapes \cup FailureShapes]

ASSUME NoEventAssumption == NoEvent \notin Event

VARIABLES
    (*********************** rows of the database ***************************)
    status,            \* orders.status
    gatewayOrderId,    \* orders.gateway_order_id, learned from a webhook
    gatewayPaymentId,  \* orders.gateway_payment_id
    declined,          \* orders.declined_gateway_payment_ids
    shortfall,         \* orders.oversell_shortfall is stored
    receipt,           \* receipts: the payment the Receipt binds
    refundReceipt,     \* refund_receipts has the Order's row
    stock,             \* variants.stock
    logged,            \* audit_events: how often each one-off event is on record
    anomalies,         \* audit_events: the reasons of order.anomaly_detected
    unmatched,         \* audit_events: webhooks recorded against no Order
    (*********************** the server process *****************************)
    checkout,          \* where submit_payment's link issuance is, per Order
    handler,           \* the webhook request each handler works on
    crashes,           \* restarts so far
    (*********************** the payment gateway ****************************)
    captured,          \* the payment captured on the Order's link
    failed,            \* the attempts that failed on the Order's link
    refunds,           \* refunds the gateway made of the captured payment
    fired,             \* webhooks ever fired
    unacked            \* webhooks not yet answered 2xx

rowVars == <<status, gatewayOrderId, gatewayPaymentId, declined, shortfall>>
proofVars == <<receipt, refundReceipt, stock>>
auditVars == <<logged, anomalies, unmatched>>
gatewayVars == <<captured, failed, refunds, fired>>
vars == <<rowVars, proofVars, auditVars, checkout, handler, crashes, gatewayVars, unacked>>

-----------------------------------------------------------------------------
(***************************************************************************)
(* Definitions named Broken... are none of the model: each is the bug that *)
(* a property of the runs is there to catch, put in place of the           *)
(* definition that follows it (README, Mutants).                           *)
(***************************************************************************)
\* The guard of the paid UPDATE lets a second delivery win.
BrokenPayable == {"created", "awaiting_payment", "paid"}

Payable == {"created", "awaiting_payment"}

AuditType ==
    {"order.created", "gateway.payment_link_attempted", "gateway.payment_link_issued",
     "gateway.order_linked", "payment.declined", "order.cancelled", "order.paid",
     "receipt.issued", "order.fulfilled", "order.oversell_detected",
     "gateway.refund_attempted", "order.refunded", "receipt.refund_issued"}

AnomalyReason ==
    {"gateway_order_id_conflict", "amount_missing", "amount_mismatch",
     "payment_after_cancellation", "missing_gateway_payment_id", "refund_failed",
     "missing_original_receipt"}

Idle == [pc |-> "idle", event |-> NoEvent, seen |-> NoPayment]

HandlerPc == {"idle", "matched", "refund_due", "refund_call", "refund_done", "refund_error"}

CheckoutPc == {"none", "placed", "attempted", "created_link", "done", "abandoned"}

\* appendAuditEvent for every type in types, once.
Log(o, types) ==
    logged' = [logged EXCEPT ![o] =
                  [t \in AuditType |-> logged[o][t] + (IF t \in types THEN 1 ELSE 0)]]

Flag(o, reasons) == anomalies' = [anomalies EXCEPT ![o] = @ \cup reasons]

\* The handler answers 200 and the gateway stops retrying the event.
Answer(h) ==
    /\ handler' = [handler EXCEPT ![h] = Idle]
    /\ unacked' = unacked \ {handler[h].event}

Proceed(h, pc) ==
    /\ handler' = [handler EXCEPT ![h].pc = pc]
    /\ UNCHANGED unacked

-----------------------------------------------------------------------------
Init ==
    /\ status = [o \in Orders |-> "absent"]
    /\ gatewayOrderId = [o \in Orders |-> "none"]
    /\ gatewayPaymentId = [o \in Orders |-> NoPayment]
    /\ declined = [o \in Orders |-> <<>>]
    /\ shortfall = [o \in Orders |-> FALSE]
    /\ receipt = [o \in Orders |-> NoPayment]
    /\ refundReceipt = [o \in Orders |-> FALSE]
    /\ stock = InitialStock
    /\ logged = [o \in Orders |-> [t \in AuditType |-> 0]]
    /\ anomalies = [o \in Orders |-> {}]
    /\ unmatched = {}
    /\ checkout = [o \in Orders |-> "none"]
    /\ handler = [h \in Handlers |-> Idle]
    /\ crashes = 0
    /\ captured = [o \in Orders |-> NoPayment]
    /\ failed = [o \in Orders |-> {}]
    /\ refunds = [o \in Orders |-> 0]
    /\ fired = {}
    /\ unacked = {}

(***************************************************************************)
(* The tail of submit_payment: the Order row, the attempt on record, the   *)
(* gateway's link, and the link on the row.  The buyer learns the URL from *)
(* the answer, so after the last step.                                     *)
(***************************************************************************)
PlaceOrder(o) ==
    /\ checkout[o] = "none"
    /\ checkout' = [checkout EXCEPT ![o] = "placed"]
    /\ status' = [status EXCEPT ![o] = "created"]
    /\ Log(o, {"order.created"})
    /\ UNCHANGED <<gatewayOrderId, gatewayPaymentId, declined, shortfall, proofVars,
                   anomalies, unmatched, handler, crashes, gatewayVars, unacked>>

AttemptLink(o) ==
    /\ checkout[o] = "placed"
    /\ checkout' = [checkout EXCEPT ![o] = "attempted"]
    /\ Log(o, {"gateway.payment_link_attempted"})
    /\ UNCHANGED <<rowVars, proofVars, anomalies, unmatched, handler, crashes,
                   gatewayVars, unacked>>

\* createPaymentLink answers, or throws GatewayError and the request is a 500.
CreateLink(o) ==
    /\ checkout[o] = "attempted"
    /\ \E pc \in {"created_link", "abandoned"} :
           checkout' = [checkout EXCEPT ![o] = pc]
    /\ UNCHANGED <<rowVars, proofVars, auditVars, handler, crashes, gatewayVars, unacked>>

\* The UPDATE that stores the link sets the status without looking at it.
IssueLink(o) ==
    /\ checkout[o] = "created_link"
    /\ checkout' = [checkout EXCEPT ![o] = "done"]
    /\ status' = [status EXCEPT ![o] = "awaiting_payment"]
    /\ Log(o, {"gateway.payment_link_issued"})
    /\ UNCHANGED <<gatewayOrderId, gatewayPaymentId, declined, shortfall, proofVars,
                   anomalies, unmatched, handler, crashes, gatewayVars, unacked>>

(***************************************************************************)
(* The payment gateway (external).  A link takes any number of failed      *)
(* attempts and at most one capture, and stays payable whatever we decided *)
(* about the Order.  Every settlement fires webhooks.                      *)
(***************************************************************************)
Fire(events) ==
    /\ fired' = fired \cup events
    /\ unacked' = unacked \cup events

\* The human has the URL while the row does not (a gateway that notifies).
BrokenLinkOpen(o) == checkout[o] \in {"created_link", "done"} /\ captured[o] = NoPayment

\* A link is open to the human once its URL was answered, and until it is paid.
LinkOpen(o) == checkout[o] = "done" /\ captured[o] = NoPayment

FailPayment(o, p) ==
    /\ LinkOpen(o)
    /\ p \notin failed[o]
    /\ failed' = [failed EXCEPT ![o] = @ \cup {p}]
    /\ \E s \in FailureShapes : Fire({[order |-> o, payment |-> p, shape |-> s]})
    /\ UNCHANGED <<rowVars, proofVars, auditVars, checkout, handler, crashes,
                   captured, refunds>>

CompletePayment(o, p) ==
    /\ LinkOpen(o)
    /\ p \notin failed[o]
    /\ captured' = [captured EXCEPT ![o] = p]
    /\ Fire({[order |-> o, payment |-> p, shape |-> s] : s \in CaptureShapes})
    /\ UNCHANGED <<rowVars, proofVars, auditVars, checkout, handler, crashes,
                   failed, refunds>>

(***************************************************************************)
(* POST /webhooks/razorpay.  The gateway delivers an event, and may deliver*)
(* it again, answered or not.  findOrderForWebhook reads outside the       *)
(* transaction: by the fields we set ourselves, else by the gateway order  *)
(* id an earlier webhook taught us.                                        *)
(***************************************************************************)
\* Only the gateway order id, which no webhook has taught us yet.
BrokenFound(e) == e.shape.gorder # "none" /\ gatewayOrderId[e.order] = e.shape.gorder

Found(e) ==
    \/ e.shape.named
    \/ e.shape.gorder # "none" /\ gatewayOrderId[e.order] = e.shape.gorder

Receive(h, e) ==
    /\ handler[h].pc = "idle"
    /\ Found(e)
    /\ handler' = [handler EXCEPT ![h] =
                      [pc |-> "matched", event |-> e, seen |-> gatewayPaymentId[e.order]]]
    /\ UNCHANGED <<rowVars, proofVars, auditVars, checkout, crashes, gatewayVars, unacked>>

ReceiveUnmatched(h, e) ==
    /\ handler[h].pc = "idle"
    /\ ~Found(e)
    /\ unmatched' = unmatched \cup {e}
    /\ unacked' = unacked \ {e}
    /\ UNCHANGED <<rowVars, proofVars, logged, anomalies, checkout, handler, crashes,
                   gatewayVars>>

\* The handler h is about to run applyGatewayWebhook's transaction for e on o.
Applying(h, o, e) ==
    /\ handler[h].pc = "matched"
    /\ e = handler[h].event
    /\ o = e.order

PaymentId(e) == IF e.shape.paid THEN e.payment ELSE NoPayment

\* Without the IS NULL guard.
BrokenLearnsGatewayOrder(o, e) == e.shape.gorder # "none"

\* The gateway order id is written once, under an IS NULL guard.
LearnsGatewayOrder(o, e) == e.shape.gorder # "none" /\ gatewayOrderId[o] = "none"

Conflicts(o, e) ==
    /\ e.shape.gorder # "none"
    /\ gatewayOrderId[o] \notin {"none", e.shape.gorder}

\* The link step every webhook without a conflict runs first, with the events
\* the rest of the transaction logs.
LinkAndLog(o, e, types) ==
    IF LearnsGatewayOrder(o, e)
    THEN /\ gatewayOrderId' = [gatewayOrderId EXCEPT ![o] = e.shape.gorder]
         /\ Log(o, types \cup {"gateway.order_linked"})
    ELSE /\ UNCHANGED gatewayOrderId
         /\ Log(o, types)

\* The conflicting id replaces the one on the row.
BrokenRecordConflict(h) ==
    \E o \in Orders, e \in fired :
        /\ Applying(h, o, e)
        /\ Conflicts(o, e)
        /\ gatewayOrderId' = [gatewayOrderId EXCEPT ![o] = e.shape.gorder]
        /\ Flag(o, {"gateway_order_id_conflict"})
        /\ Answer(h)
        /\ UNCHANGED <<status, gatewayPaymentId, declined, shortfall, proofVars, logged,
                       unmatched, checkout, crashes, gatewayVars>>

RecordConflict(h) ==
    \E o \in Orders, e \in fired :
        /\ Applying(h, o, e)
        /\ Conflicts(o, e)
        /\ Flag(o, {"gateway_order_id_conflict"})
        /\ Answer(h)
        /\ UNCHANGED <<rowVars, proofVars, logged, unmatched, checkout, crashes, gatewayVars>>

RecordOther(h) ==
    \E o \in Orders, e \in fired :
        /\ Applying(h, o, e)
        /\ ~Conflicts(o, e)
        /\ e.shape.kind = "other"
        /\ LinkAndLog(o, e, {})
        /\ Answer(h)
        /\ UNCHANGED <<status, gatewayPaymentId, declined, shortfall, proofVars,
                       anomalies, unmatched, checkout, crashes, gatewayVars>>

(***************************************************************************)
(* applyDecline: a failed attempt counts once, while the Order is payable, *)
(* and the attempt that exhausts the limit cancels the Order.              *)
(***************************************************************************)
\* Every delivery of a failed attempt counts.
BrokenCounted(o, p) == FALSE

Counted(o, p) == \E i \in 1..Len(declined[o]) : declined[o][i] = p

Counts(o, e) ==
    /\ PaymentId(e) # NoPayment
    /\ status[o] \in Payable
    /\ ~Counted(o, PaymentId(e))

Exhausts(o) == Len(declined[o]) + 1 >= PaymentAttemptLimit

RecordUncountedDecline(h) ==
    \E o \in Orders, e \in fired :
        /\ Applying(h, o, e)
        /\ ~Conflicts(o, e)
        /\ e.shape.kind = "payment_failed"
        /\ ~Counts(o, e)
        /\ LinkAndLog(o, e, {})
        /\ Answer(h)
        /\ UNCHANGED <<status, gatewayPaymentId, declined, shortfall, proofVars,
                       anomalies, unmatched, checkout, crashes, gatewayVars>>

CountDecline(h) ==
    \E o \in Orders, e \in fired :
        /\ Applying(h, o, e)
        /\ ~Conflicts(o, e)
        /\ e.shape.kind = "payment_failed"
        /\ Counts(o, e)
        /\ ~Exhausts(o)
        /\ declined' = [declined EXCEPT ![o] = Append(@, PaymentId(e))]
        /\ LinkAndLog(o, e, {"payment.declined"})
        /\ Answer(h)
        /\ UNCHANGED <<status, gatewayPaymentId, shortfall, proofVars,
                       anomalies, unmatched, checkout, crashes, gatewayVars>>

DeclineCancels(h) ==
    \E o \in Orders, e \in fired :
        /\ Applying(h, o, e)
        /\ ~Conflicts(o, e)
        /\ e.shape.kind = "payment_failed"
        /\ Counts(o, e)
        /\ Exhausts(o)
        /\ declined' = [declined EXCEPT ![o] = Append(@, PaymentId(e))]
        /\ status' = [status EXCEPT ![o] = "cancelled"]
        /\ LinkAndLog(o, e, {"payment.declined", "order.cancelled"})
        /\ Answer(h)
        /\ UNCHANGED <<gatewayPaymentId, shortfall, proofVars,
                       anomalies, unmatched, checkout, crashes, gatewayVars>>

(***************************************************************************)
(* A success event: the amount is asserted, then the guarded UPDATE makes  *)
(* paid a one-way transition that only one delivery wins.                  *)
(***************************************************************************)
Succeeds(h, o, e) ==
    /\ Applying(h, o, e)
    /\ ~Conflicts(o, e)
    /\ e.shape.kind = "payment_succeeded"

RecordWrongAmount(h) ==
    \E o \in Orders, e \in fired :
        /\ Succeeds(h, o, e)
        /\ e.shape.amount # "exact"
        /\ Flag(o, {IF e.shape.amount = "absent" THEN "amount_missing" ELSE "amount_mismatch"})
        /\ LinkAndLog(o, e, {})
        /\ Answer(h)
        /\ UNCHANGED <<status, gatewayPaymentId, declined, shortfall, proofVars,
                       unmatched, checkout, crashes, gatewayVars>>

\* Every Order that is no longer payable passes for paid.
BrokenRecordLateCapture(h) ==
    \E o \in Orders, e \in fired :
        /\ Succeeds(h, o, e)
        /\ e.shape.amount = "exact"
        /\ status[o] = "cancelled"
        /\ LinkAndLog(o, e, {})
        /\ Answer(h)
        /\ UNCHANGED <<status, gatewayPaymentId, declined, shortfall, proofVars,
                       anomalies, unmatched, checkout, crashes, gatewayVars>>

RecordLateCapture(h) ==
    \E o \in Orders, e \in fired :
        /\ Succeeds(h, o, e)
        /\ e.shape.amount = "exact"
        /\ status[o] = "cancelled"
        /\ Flag(o, {"payment_after_cancellation"})
        /\ LinkAndLog(o, e, {})
        /\ Answer(h)
        /\ UNCHANGED <<status, gatewayPaymentId, declined, shortfall, proofVars,
                       unmatched, checkout, crashes, gatewayVars>>

\* A redelivery takes up the refund of an oversold Order that is still paid.
BrokenRecordAlreadyPaid(h) ==
    \E o \in Orders, e \in fired :
        /\ Succeeds(h, o, e)
        /\ e.shape.amount = "exact"
        /\ status[o] \in {"paid", "refunded"}
        /\ LinkAndLog(o, e, {})
        /\ IF status[o] = "paid" /\ shortfall[o] THEN Proceed(h, "refund_due") ELSE Answer(h)
        /\ UNCHANGED <<status, gatewayPaymentId, declined, shortfall, proofVars,
                       anomalies, unmatched, checkout, crashes, gatewayVars>>

RecordAlreadyPaid(h) ==
    \E o \in Orders, e \in fired :
        /\ Succeeds(h, o, e)
        /\ e.shape.amount = "exact"
        /\ status[o] \in {"paid", "refunded"}
        /\ LinkAndLog(o, e, {})
        /\ Answer(h)
        /\ UNCHANGED <<status, gatewayPaymentId, declined, shortfall, proofVars,
                       anomalies, unmatched, checkout, crashes, gatewayVars>>

\* The Receipt takes an id from the event that the row does not get.
BrokenReceiptPayment(h, e) == e.payment

\* The payment the Receipt binds: the event's, else the one on the row as
\* findOrderForWebhook read it before the transaction.
ReceiptPayment(h, e) ==
    IF PaymentId(e) # NoPayment THEN PaymentId(e) ELSE handler[h].seen

\* The decrement is off by one.
BrokenShortLines(o) == {v \in Variants : Lines[o][v] > stock[v] + 1}

\* The lines whose conditional decrement misses.
ShortLines(o) == {v \in Variants : Lines[o][v] > stock[v]}

\* Each line decrements or misses; if one missed, the others are restored.
Decremented(o) ==
    [v \in Variants |-> IF v \in ShortLines(o) THEN stock[v] ELSE stock[v] - Lines[o][v]]

\* The lines that did decrement stay so.
BrokenRestored(o, left) == left

Restored(o, left) ==
    [v \in Variants |-> IF v \in ShortLines(o) THEN left[v] ELSE left[v] + Lines[o][v]]

PayAndMint(h, o, e, types) ==
    LET bound == ReceiptPayment(h, e)
    IN  /\ status' = [status EXCEPT ![o] = "paid"]
        /\ gatewayPaymentId' =
               [gatewayPaymentId EXCEPT ![o] = IF PaymentId(e) = NoPayment THEN @ ELSE PaymentId(e)]
        /\ receipt' = [receipt EXCEPT ![o] = bound]
        /\ Flag(o, IF bound = NoPayment THEN {"missing_gateway_payment_id"} ELSE {})
        /\ LinkAndLog(o, e, types \cup {"order.paid"}
                              \cup (IF bound = NoPayment THEN {} ELSE {"receipt.issued"}))

CaptureFulfils(h) ==
    \E o \in Orders, e \in fired :
        /\ Succeeds(h, o, e)
        /\ e.shape.amount = "exact"
        /\ status[o] \in Payable
        /\ ShortLines(o) = {}
        /\ PayAndMint(h, o, e, {"order.fulfilled"})
        /\ stock' = Decremented(o)
        /\ Answer(h)
        /\ UNCHANGED <<declined, shortfall, refundReceipt, unmatched, checkout, crashes,
                       gatewayVars>>

\* An oversold Order restores the lines that did decrement and stores the
\* shortfall; the same request goes on to the refund.
CaptureOversells(h) ==
    \E o \in Orders, e \in fired :
        /\ Succeeds(h, o, e)
        /\ e.shape.amount = "exact"
        /\ status[o] \in Payable
        /\ ShortLines(o) # {}
        /\ PayAndMint(h, o, e, {"order.oversell_detected"})
        /\ shortfall' = [shortfall EXCEPT ![o] = TRUE]
        /\ stock' = Restored(o, Decremented(o))
        /\ Proceed(h, "refund_due")
        /\ UNCHANGED <<declined, refundReceipt, unmatched, checkout, crashes, gatewayVars>>

(***************************************************************************)
(* refundOversoldOrder, run by the delivery that detected the Oversell.    *)
(* The facts it reads are never rewritten, so its read and the record of   *)
(* the attempt are one step.                                               *)
(***************************************************************************)
Refunding(h, o, pc) ==
    /\ handler[h].pc = pc
    /\ o = handler[h].event.order

RefundUnaddressable(h) ==
    \E o \in Orders :
        /\ Refunding(h, o, "refund_due")
        /\ gatewayPaymentId[o] = NoPayment
        /\ Flag(o, {"refund_failed"})
        /\ Answer(h)
        /\ UNCHANGED <<rowVars, proofVars, logged, unmatched, checkout, crashes, gatewayVars>>

AttemptRefund(h) ==
    \E o \in Orders :
        /\ Refunding(h, o, "refund_due")
        /\ status[o] = "paid"
        /\ shortfall[o]
        /\ gatewayPaymentId[o] # NoPayment
        /\ Log(o, {"gateway.refund_attempted"})
        /\ Proceed(h, "refund_call")
        /\ UNCHANGED <<rowVars, proofVars, anomalies, unmatched, checkout, crashes,
                       gatewayVars>>

\* The gateway refunds a captured payment once, in full.
Refundable(o) == captured[o] # NoPayment /\ captured[o] = gatewayPaymentId[o] /\ refunds[o] = 0

GatewayRefunds(h) ==
    \E o \in Orders :
        /\ Refunding(h, o, "refund_call")
        /\ Refundable(o)
        /\ refunds' = [refunds EXCEPT ![o] = @ + 1]
        /\ Proceed(h, "refund_done")
        /\ UNCHANGED <<rowVars, proofVars, auditVars, checkout, crashes, captured, failed,
                       fired>>

\* A call that threw passes for a refund.
BrokenRefundCallFails(h) ==
    \E o \in Orders :
        /\ Refunding(h, o, "refund_call")
        /\ RefundMayFail
        /\ Proceed(h, "refund_done")
        /\ UNCHANGED <<rowVars, proofVars, auditVars, checkout, crashes, captured, failed,
                       refunds, fired>>

\* The call throws: the gateway did nothing, or it refunded and its answer was
\* lost.
RefundCallFails(h) ==
    \E o \in Orders :
        /\ Refunding(h, o, "refund_call")
        /\ RefundMayFail \/ ~Refundable(o)
        /\ \E done \in {0, 1} :
              /\ done = 1 => Refundable(o)
              /\ refunds' = [refunds EXCEPT ![o] = @ + done]
        /\ Proceed(h, "refund_error")
        /\ UNCHANGED <<rowVars, proofVars, auditVars, checkout, crashes, captured, failed,
                       fired>>

\* The failure is not put on record.
BrokenRecordRefundFailure(h) ==
    \E o \in Orders :
        /\ Refunding(h, o, "refund_error")
        /\ Answer(h)
        /\ UNCHANGED <<rowVars, proofVars, auditVars, checkout, crashes, gatewayVars>>

RecordRefundFailure(h) ==
    \E o \in Orders :
        /\ Refunding(h, o, "refund_error")
        /\ Flag(o, {"refund_failed"})
        /\ Answer(h)
        /\ UNCHANGED <<rowVars, proofVars, logged, unmatched, checkout, crashes, gatewayVars>>

\* paid -> refunded under its guard, the event and the refund receipt together.
RecordRefund(h) ==
    \E o \in Orders :
        /\ Refunding(h, o, "refund_done")
        /\ status[o] = "paid"
        /\ status' = [status EXCEPT ![o] = "refunded"]
        /\ refundReceipt' = [refundReceipt EXCEPT ![o] = receipt[o] # NoPayment]
        /\ Flag(o, IF receipt[o] = NoPayment THEN {"missing_original_receipt"} ELSE {})
        /\ Log(o, {"order.refunded"}
                  \cup (IF receipt[o] = NoPayment THEN {} ELSE {"receipt.refund_issued"}))
        /\ Answer(h)
        /\ UNCHANGED <<gatewayOrderId, gatewayPaymentId, declined, shortfall, receipt, stock,
                       unmatched, checkout, crashes, gatewayVars>>

-----------------------------------------------------------------------------
\* The process restarts: every request in flight is gone, the rows stay.
Crash ==
    /\ crashes < MaxCrashes
    /\ crashes' = crashes + 1
    /\ handler' = [h \in Handlers |-> Idle]
    /\ checkout' = [o \in Orders |->
                       IF checkout[o] \in {"placed", "attempted", "created_link"}
                       THEN "abandoned" ELSE checkout[o]]
    /\ UNCHANGED <<rowVars, proofVars, auditVars, gatewayVars, unacked>>

CheckoutStep(o) == AttemptLink(o) \/ CreateLink(o) \/ IssueLink(o)

ApplyWebhook(h) ==
    \/ RecordConflict(h) \/ RecordOther(h)
    \/ RecordUncountedDecline(h) \/ CountDecline(h) \/ DeclineCancels(h)
    \/ RecordWrongAmount(h) \/ RecordLateCapture(h) \/ RecordAlreadyPaid(h)
    \/ CaptureFulfils(h) \/ CaptureOversells(h)

RefundStep(h) ==
    \/ RefundUnaddressable(h) \/ AttemptRefund(h)
    \/ GatewayRefunds(h) \/ RefundCallFails(h)
    \/ RecordRefundFailure(h) \/ RecordRefund(h)

Deliver(h, e) == Receive(h, e) \/ ReceiveUnmatched(h, e)

HandlerStep(h) == ApplyWebhook(h) \/ RefundStep(h)

Next ==
    \/ \E o \in Orders : PlaceOrder(o) \/ CheckoutStep(o)
    \/ \E o \in Orders, p \in Payments : FailPayment(o, p) \/ CompletePayment(o, p)
    \/ \E h \in Handlers, e \in fired : Deliver(h, e)
    \/ \E h \in Handlers : HandlerStep(h)
    \/ Crash

Spec == Init /\ [][Next]_vars

(***************************************************************************)
(* The event loop runs every request it accepted and the gateway retries   *)
(* what was not answered 2xx.  Retries are strongly fair: Express bounds   *)
(* the requests it works on by nothing like Handlers, so a retry that      *)
(* finds them busy again and again is the model's doing.                   *)
(***************************************************************************)
Fairness ==
    /\ \A o \in Orders : WF_vars(CheckoutStep(o))
    /\ \A h \in Handlers : WF_vars(HandlerStep(h))
    /\ \A e \in Event : SF_vars(e \in unacked /\ \E h \in Handlers : Deliver(h, e))

FairSpec == Spec /\ Fairness

-----------------------------------------------------------------------------
(* The state of every row, request and gateway object is of its kind.      *)
TypeOK ==
    /\ status \in [Orders -> {"absent", "cancelled", "paid", "refunded"} \cup Payable]
    /\ gatewayOrderId \in [Orders -> {"none", "own", "foreign"}]
    /\ gatewayPaymentId \in [Orders -> Payments \cup {NoPayment}]
    /\ declined \in [Orders -> Seq(Payments)]
    /\ shortfall \in [Orders -> BOOLEAN]
    /\ receipt \in [Orders -> Payments \cup {NoPayment}]
    /\ refundReceipt \in [Orders -> BOOLEAN]
    /\ stock \in [Variants -> Nat]
    /\ logged \in [Orders -> [AuditType -> Nat]]
    /\ anomalies \in [Orders -> SUBSET AnomalyReason]
    /\ unmatched \subseteq fired
    /\ checkout \in [Orders -> CheckoutPc]
    /\ handler \in [Handlers -> [pc : HandlerPc, event : Event \cup {NoEvent},
                                 seen : Payments \cup {NoPayment}]]
    /\ crashes \in 0..MaxCrashes
    /\ captured \in [Orders -> Payments \cup {NoPayment}]
    /\ failed \in [Orders -> SUBSET Payments]
    /\ refunds \in [Orders -> Nat]
    /\ fired \subseteq Event
    /\ unacked \subseteq fired

Count(o, t) == logged[o][t]

Once(condition) == IF condition THEN 1 ELSE 0

(* ADR-0003, the event and the state change commit together: the log shows *)
(* each transition of an Order exactly once, and exactly when the row      *)
(* shows it, however many sibling and repeated deliveries there were.      *)
LogMatchesRows ==
    \A o \in Orders :
        /\ Count(o, "order.paid") = Once(status[o] \in {"paid", "refunded"})
        /\ Count(o, "order.cancelled") = Once(status[o] = "cancelled")
        /\ Count(o, "order.refunded") = Once(status[o] = "refunded")
        /\ Count(o, "payment.declined") = Len(declined[o])
        /\ Count(o, "gateway.order_linked") = Once(gatewayOrderId[o] # "none")
        /\ Count(o, "receipt.issued") = Once(receipt[o] # NoPayment)
        /\ Count(o, "receipt.refund_issued") = Once(refundReceipt[o])

(* A paid Order's goods are settled with the payment, one way or the other,*)
(* and an Order that is not paid has shipped nothing.                      *)
GoodsFollowMoney ==
    \A o \in Orders :
        /\ Count(o, "order.fulfilled") = Once(status[o] \in {"paid", "refunded"} /\ ~shortfall[o])
        /\ Count(o, "order.oversell_detected") = Once(shortfall[o])
        /\ shortfall[o] => status[o] \in {"paid", "refunded"}

Fulfilled == {o \in Orders : Count(o, "order.fulfilled") > 0}

(* No unit is sold twice and none is lost: what is left of a Variant and   *)
(* what fulfilled Orders took add up to what there was (the conditional    *)
(* decrement and the restore of fulfillPaidOrder).                         *)
StockConserved ==
    \A v \in Variants :
        /\ stock[v] >= 0
        /\ stock[v] + SumFunction([o \in Fulfilled |-> Lines[o][v]]) = InitialStock[v]

(* The Receipt names the payment the gateway really captured on this       *)
(* Order's link, a refund receipt exists exactly for a refunded Order and  *)
(* has an original to reference, and a paid Order without a Receipt is     *)
(* flagged.                                                                *)
ReceiptsBindTheCapture ==
    \A o \in Orders :
        /\ receipt[o] # NoPayment => receipt[o] = captured[o] /\ gatewayPaymentId[o] = receipt[o]
        /\ refundReceipt[o] <=> status[o] = "refunded"
        /\ refundReceipt[o] => receipt[o] # NoPayment
        /\ status[o] \in {"paid", "refunded"} /\ receipt[o] = NoPayment
              => "missing_gateway_payment_id" \in anomalies[o]

(* Money goes back at most once, only for an oversold Order, never without *)
(* the attempt on record, and `refunded` is never claimed before it did.   *)
RefundsAreOwed ==
    \A o \in Orders :
        /\ refunds[o] <= Count(o, "gateway.refund_attempted")
        /\ Count(o, "gateway.refund_attempted") <= Once(shortfall[o])
        /\ status[o] = "refunded" => refunds[o] = 1

(* The UPDATE that issues the link looks at no status, and need not: until *)
(* the answer with the URL is out the Order is just created, and no attempt*)
(* on its link, capture or webhook exists that could have moved it.        *)
LinkBeforeMoney ==
    /\ \A o \in Orders :
           /\ checkout[o] = "none" => status[o] = "absent"
           /\ checkout[o] \notin {"none", "done"} => status[o] = "created"
           /\ checkout[o] # "done" => captured[o] = NoPayment /\ failed[o] = {}
    /\ \A e \in fired : checkout[e.order] = "done"
    /\ \A h \in Handlers : handler[h].pc # "idle" => handler[h].event \in fired

RefundRunning(h) == handler[h].pc \notin {"idle", "matched"}

(* One request at most runs the refund of an Order, the one that detected  *)
(* the Oversell, and each of its steps knows what the gateway already did. *)
RefundHasOneOwner ==
    /\ \A h \in Handlers :
           LET o == handler[h].event.order
           IN  RefundRunning(h) =>
                   /\ status[o] = "paid" /\ shortfall[o]
                   /\ Count(o, "gateway.refund_attempted") = Once(handler[h].pc # "refund_due")
                   /\ handler[h].pc \in {"refund_due", "refund_call"} => refunds[o] = 0
                   /\ handler[h].pc = "refund_done" => refunds[o] = 1
    /\ \A g, h \in Handlers :
           /\ RefundRunning(g) /\ RefundRunning(h)
           /\ handler[g].event.order = handler[h].event.order
           => g = h

(* Declines are counted per payment, not per delivery: the counted ones    *)
(* are distinct attempts that really failed, an Order is cancelled exactly *)
(* when the limit is used up, and one that is paid never reached it.       *)
CancelledAtTheLimit ==
    \A o \in Orders :
        /\ \A i, j \in 1..Len(declined[o]) : declined[o][i] = declined[o][j] => i = j
        /\ \A i \in 1..Len(declined[o]) : declined[o][i] \in failed[o]
        /\ status[o] = "cancelled" <=> Len(declined[o]) = PaymentAttemptLimit
        /\ Len(declined[o]) <= PaymentAttemptLimit

(* A capture the server answered 200 is never swallowed: the Order is paid,*)
(* or the log says why not.                                                *)
NoCaptureSwallowed ==
    \A e \in fired \ unacked :
        e.shape.kind = "payment_succeeded" =>
            \/ status[e.order] \in {"paid", "refunded"}
            \/ e \in unmatched
            \/ status[e.order] = "cancelled" /\ "payment_after_cancellation" \in anomalies[e.order]
            \/ anomalies[e.order] \cap {"gateway_order_id_conflict", "amount_missing",
                                        "amount_mismatch"} # {}

\* The one payment of an Order that is not oversold takes exactly its lines.
TakesItsLines(o) ==
    /\ status[o] \in Payable
    /\ status'[o] = "paid"
    /\ ~shortfall'[o]
    /\ \A v \in Variants : stock'[v] = stock[v] - Lines[o][v]

StockLeavesByOrder == stock' = stock \/ \E o \in Orders : TakesItsLines(o)

(* What a row or the log once said is never taken back: ids and Receipts   *)
(* are written once, counted attempts and anomalies only accumulate, and   *)
(* stock changes only with an Order's one payment, by exactly its lines.   *)
(* The partial decrement of an oversold Order leaves no trace, and no      *)
(* later delivery, refund or restart takes or returns a unit.              *)
WriteOnce ==
    [][/\ StockLeavesByOrder
       /\ \A o \in Orders :
              /\ gatewayOrderId[o] # "none" => gatewayOrderId'[o] = gatewayOrderId[o]
              /\ gatewayPaymentId[o] # NoPayment => gatewayPaymentId'[o] = gatewayPaymentId[o]
              /\ receipt[o] # NoPayment => receipt'[o] = receipt[o]
              /\ shortfall[o] => shortfall'[o]
              /\ SubSeq(declined'[o], 1, Len(declined[o])) = declined[o]
              /\ anomalies[o] \subseteq anomalies'[o]]_vars

-----------------------------------------------------------------------------
Goods ==
    [o \in Orders |-> IF status[o] \notin {"paid", "refunded"} THEN "pending"
                      ELSE IF shortfall[o] THEN "short" ELSE "shipped"]

Lifecycle == INSTANCE OrderLifecycle WITH goods <- Goods

(* Checkout, webhooks, declines and refunds implement the Order lifecycle: *)
(* in particular the unguarded UPDATE of IssueLink never takes an Order    *)
(* back from a later status.                                               *)
ImplementsLifecycle == Lifecycle!Spec

(* A payment captured on an Order's link settles the Order: it is paid, or *)
(* it was cancelled before and the late capture is on record.              *)
CaptureSettles ==
    \A o \in Orders :
        captured[o] # NoPayment ~>
            \/ status[o] \in {"paid", "refunded"}
            \/ "payment_after_cancellation" \in anomalies[o]

(* An oversold Order does not stay paid: its money goes back and the buyer *)
(* is told, or the failure to do so is on record, while nothing restarts   *)
(* (CrashLosesNoRefund is about what a restart does to it).                *)
OversellRefunded ==
    \A o \in Orders :
        shortfall[o] ~> \/ status[o] = "refunded" \/ "refund_failed" \in anomalies[o]
                        \/ crashes > 0

(* The comment on StoredOversellShortfall: the shortfall is on the row, so *)
(* a crash between detection and refund loses nothing.                     *)
CrashLosesNoRefund ==
    \A o \in Orders :
        shortfall[o] ~> status[o] = "refunded" \/ "refund_failed" \in anomalies[o]
=============================================================================
