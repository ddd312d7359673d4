---------------------------- MODULE OrdersProofs ----------------------------
(***************************************************************************)
(* Proofs about Orders, for any number of Orders, payments, requests and   *)
(* restarts and any deliveries the gateway may fire: first its types and   *)
(* who owns its money, up to the refinement of OrderLifecycle, then what   *)
(* its books say.                                                          *)
(***************************************************************************)
EXTENDS Orders, SumTheorems, TLAPS

(***************************************************************************)
(* What the operators shared by the actions do to the types of what they   *)
(* change.                                                                 *)
(***************************************************************************)
LEMMA LogType ==
    ASSUME TypeOK, NEW o \in Orders, NEW types, Log(o, types)
    PROVE  logged' \in [Orders -> [AuditType -> Nat]]
  BY DEF TypeOK, Log

LEMMA FlagType ==
    ASSUME TypeOK, NEW o \in Orders, NEW reasons \in SUBSET AnomalyReason, Flag(o, reasons)
    PROVE  anomalies' \in [Orders -> SUBSET AnomalyReason]
  BY DEF TypeOK, Flag

LEMMA AnswerType ==
    ASSUME TypeOK, NEW h \in Handlers, Answer(h), UNCHANGED fired
    PROVE  /\ handler' \in [Handlers -> [pc : HandlerPc, event : Event \cup {NoEvent},
                                         seen : Payments \cup {NoPayment}]]
           /\ unacked' \subseteq fired'
  BY DEF TypeOK, Answer, Idle, HandlerPc

LEMMA ProceedType ==
    ASSUME TypeOK, NEW h \in Handlers, NEW pc \in HandlerPc, Proceed(h, pc), UNCHANGED fired
    PROVE  /\ handler' \in [Handlers -> [pc : HandlerPc, event : Event \cup {NoEvent},
                                         seen : Payments \cup {NoPayment}]]
           /\ unacked' \subseteq fired'
  BY DEF TypeOK, Proceed

LEMMA LinkAndLogType ==
    ASSUME TypeOK, NEW o \in Orders, NEW e \in Event, NEW types, LinkAndLog(o, e, types)
    PROVE  /\ gatewayOrderId' \in [Orders -> {"none", "own", "foreign"}]
           /\ logged' \in [Orders -> [AuditType -> Nat]]
  <1>0. e.shape.gorder \in {"none", "own", "foreign"}
    BY OrdersAssumption DEF Event, Shape
  <1>1. CASE LearnsGatewayOrder(o, e)
    BY <1>0, <1>1, LogType DEF LinkAndLog, TypeOK
  <1>2. CASE ~LearnsGatewayOrder(o, e)
    BY <1>2, LogType DEF LinkAndLog, TypeOK
  <1> QED BY <1>1, <1>2

LEMMA ReceiptPaymentType ==
    ASSUME TypeOK, NEW h \in Handlers, NEW e \in Event
    PROVE  ReceiptPayment(h, e) \in Payments \cup {NoPayment}
  BY DEF TypeOK, ReceiptPayment, PaymentId, Event

LEMMA PayAndMintType ==
    ASSUME TypeOK, NEW h \in Handlers, NEW o \in Orders, NEW e \in Event, NEW types,
           PayAndMint(h, o, e, types)
    PROVE  /\ status' \in [Orders -> {"absent", "cancelled", "paid", "refunded"} \cup Payable]
           /\ gatewayPaymentId' \in [Orders -> Payments \cup {NoPayment}]
           /\ receipt' \in [Orders -> Payments \cup {NoPayment}]
           /\ gatewayOrderId' \in [Orders -> {"none", "own", "foreign"}]
           /\ logged' \in [Orders -> [AuditType -> Nat]]
           /\ anomalies' \in [Orders -> SUBSET AnomalyReason]
  <1> DEFINE bound == ReceiptPayment(h, e)
  <1>1. bound \in Payments \cup {NoPayment}
    BY ReceiptPaymentType
  <1>2. PaymentId(e) \in Payments \cup {NoPayment}
    BY DEF PaymentId, Event
  <1>3. gatewayOrderId' \in [Orders -> {"none", "own", "foreign"}]
        /\ logged' \in [Orders -> [AuditType -> Nat]]
    BY LinkAndLogType DEF PayAndMint
  <1>4. anomalies' \in [Orders -> SUBSET AnomalyReason]
    BY FlagType DEF PayAndMint, AnomalyReason
  <1>5. status' \in [Orders -> {"absent", "cancelled", "paid", "refunded"} \cup Payable]
    BY DEF PayAndMint, TypeOK
  <1>6. gatewayPaymentId' \in [Orders -> Payments \cup {NoPayment}]
    BY <1>2 DEF PayAndMint, TypeOK
  <1>7. receipt' \in [Orders -> Payments \cup {NoPayment}]
    BY <1>1 DEF PayAndMint, TypeOK
  <1> QED BY <1>3, <1>4, <1>5, <1>6, <1>7

-----------------------------------------------------------------------------
(* In its initial states every variable has its type.                      *)
LEMMA InitType == Init => TypeOK
  <1> SUFFICES ASSUME Init PROVE TypeOK
    OBVIOUS
  <1>1. Idle \in [pc : HandlerPc, event : Event \cup {NoEvent}, seen : Payments \cup {NoPayment}]
    BY DEF Idle, HandlerPc
  <1> QED BY <1>1, OrdersAssumption DEF Init, TypeOK, CheckoutPc

LEMMA CheckoutStepType ==
    ASSUME TypeOK, NEW o \in Orders, PlaceOrder(o) \/ CheckoutStep(o)
    PROVE  TypeOK'
  <1>1. CASE PlaceOrder(o)
    <2>1. logged' \in [Orders -> [AuditType -> Nat]]
      BY <1>1, LogType DEF PlaceOrder
    <2> QED BY <1>1, <2>1 DEF PlaceOrder, TypeOK, Payable, CheckoutPc, proofVars, gatewayVars
  <1>2. CASE AttemptLink(o)
    <2>1. logged' \in [Orders -> [AuditType -> Nat]]
      BY <1>2, LogType DEF AttemptLink
    <2> QED BY <1>2, <2>1 DEF AttemptLink, TypeOK, CheckoutPc, rowVars, proofVars, gatewayVars
  <1>3. CASE CreateLink(o)
    BY <1>3 DEF CreateLink, TypeOK, CheckoutPc, rowVars, proofVars, auditVars, gatewayVars
  <1>4. CASE IssueLink(o)
    <2>1. logged' \in [Orders -> [AuditType -> Nat]]
      BY <1>4, LogType DEF IssueLink
    <2> QED BY <1>4, <2>1 DEF IssueLink, TypeOK, Payable, CheckoutPc, proofVars, gatewayVars
  <1> QED BY <1>1, <1>2, <1>3, <1>4 DEF CheckoutStep

LEMMA GatewayStepType ==
    ASSUME TypeOK, NEW o \in Orders, NEW p \in Payments,
           FailPayment(o, p) \/ CompletePayment(o, p)
    PROVE  TypeOK'
  <1>1. CASE FailPayment(o, p)
    BY <1>1 DEF FailPayment, TypeOK, Fire, Event, rowVars, proofVars, auditVars
  <1>2. CASE CompletePayment(o, p)
    BY <1>2 DEF CompletePayment, TypeOK, Fire, Event, rowVars, proofVars, auditVars
  <1> QED BY <1>1, <1>2

LEMMA DeliverType ==
    ASSUME TypeOK, NEW h \in Handlers, NEW e \in fired, Deliver(h, e)
    PROVE  TypeOK'
  <1>1. CASE Receive(h, e)
    <2>1. gatewayPaymentId[e.order] \in Payments \cup {NoPayment}
      BY DEF TypeOK, Event
    <2>2. handler' \in [Handlers -> [pc : HandlerPc, event : Event \cup {NoEvent},
                                     seen : Payments \cup {NoPayment}]]
      BY <1>1, <2>1 DEF Receive, TypeOK, HandlerPc
    <2> QED BY <1>1, <2>2
            DEF Receive, TypeOK, rowVars, proofVars, auditVars, gatewayVars
  <1>2. CASE ReceiveUnmatched(h, e)
    BY <1>2 DEF ReceiveUnmatched, TypeOK, rowVars, proofVars, gatewayVars
  <1> QED BY <1>1, <1>2 DEF Deliver

\* The conditional decrement keeps stock from going below zero, and an
\* oversold Order leaves it as it was.
LEMMA StockType ==
    ASSUME TypeOK, NEW o \in Orders
    PROVE  /\ Decremented(o) \in [Variants -> Nat]
           /\ Restored(o, Decremented(o)) = stock
  <1>1. \A v \in Variants : stock[v] \in Nat /\ Lines[o][v] \in Nat
    BY OrdersAssumption DEF TypeOK
  <1>2. Decremented(o) \in [Variants -> Nat]
    BY <1>1 DEF Decremented, ShortLines
  <1>3. \A v \in Variants : Restored(o, Decremented(o))[v] = stock[v]
    BY <1>1 DEF Restored, Decremented, ShortLines
  <1> QED BY <1>2, <1>3 DEF Restored, TypeOK

LEMMA ApplyWebhookType ==
    ASSUME TypeOK, NEW h \in Handlers, ApplyWebhook(h)
    PROVE  TypeOK'
  <1> USE DEF rowVars, proofVars, auditVars, gatewayVars
  <1>0. \A e \in fired : e \in Event /\ PaymentId(e) \in Payments \cup {NoPayment}
    BY DEF TypeOK, Event, PaymentId
  <1>1. CASE RecordConflict(h)
    BY <1>1, AnswerType, FlagType DEF RecordConflict, TypeOK, AnomalyReason
  <1>2. CASE RecordOther(h)
    BY <1>2, <1>0, AnswerType, LinkAndLogType DEF RecordOther, TypeOK
  <1>3. CASE RecordUncountedDecline(h)
    BY <1>3, <1>0, AnswerType, LinkAndLogType DEF RecordUncountedDecline, TypeOK
  <1>4. CASE CountDecline(h)
    BY <1>4, <1>0, AnswerType, LinkAndLogType, SMTT(30) DEF CountDecline, Counts, TypeOK
  <1>5. CASE DeclineCancels(h)
    BY <1>5, <1>0, AnswerType, LinkAndLogType DEF DeclineCancels, Counts, TypeOK
  <1>6. CASE RecordWrongAmount(h)
    BY <1>6, <1>0, AnswerType, FlagType, LinkAndLogType
       DEF RecordWrongAmount, TypeOK, AnomalyReason
  <1>7. CASE RecordLateCapture(h)
    BY <1>7, <1>0, AnswerType, FlagType, LinkAndLogType
       DEF RecordLateCapture, TypeOK, AnomalyReason
  <1>8. CASE RecordAlreadyPaid(h)
    BY <1>8, <1>0, AnswerType, LinkAndLogType DEF RecordAlreadyPaid, TypeOK
  <1>9. CASE CaptureFulfils(h)
    BY <1>9, <1>0, AnswerType, PayAndMintType, StockType DEF CaptureFulfils, TypeOK
  <1>10. CASE CaptureOversells(h)
    BY <1>10, <1>0, ProceedType, PayAndMintType, StockType
       DEF CaptureOversells, TypeOK, HandlerPc
  <1> QED BY <1>1, <1>2, <1>3, <1>4, <1>5, <1>6, <1>7, <1>8, <1>9, <1>10 DEF ApplyWebhook

LEMMA RefundStepType ==
    ASSUME TypeOK, NEW h \in Handlers, RefundStep(h)
    PROVE  TypeOK'
  <1> USE DEF rowVars, proofVars, auditVars, gatewayVars
  <1>1. CASE RefundUnaddressable(h)
    BY <1>1, AnswerType, FlagType DEF RefundUnaddressable, TypeOK, AnomalyReason
  <1>2. CASE AttemptRefund(h)
    BY <1>2, ProceedType, LogType DEF AttemptRefund, TypeOK, HandlerPc
  <1>3. CASE GatewayRefunds(h)
    BY <1>3, ProceedType DEF GatewayRefunds, TypeOK, HandlerPc
  <1>4. CASE RefundCallFails(h)
    BY <1>4, ProceedType DEF RefundCallFails, TypeOK, HandlerPc
  <1>5. CASE RecordRefundFailure(h)
    BY <1>5, AnswerType, FlagType DEF RecordRefundFailure, TypeOK, AnomalyReason
  <1>6. CASE RecordRefund(h)
    BY <1>6, AnswerType, FlagType, LogType DEF RecordRefund, TypeOK, AnomalyReason, Payable
  <1> QED BY <1>1, <1>2, <1>3, <1>4, <1>5, <1>6 DEF RefundStep

LEMMA CrashType == ASSUME TypeOK, Crash PROVE TypeOK'
  <1>1. crashes' \in 0..MaxCrashes
    BY OrdersAssumption DEF Crash, TypeOK
  <1>2. handler' \in [Handlers -> [pc : HandlerPc, event : Event \cup {NoEvent},
                                   seen : Payments \cup {NoPayment}]]
    BY DEF Crash, Idle, HandlerPc
  <1>3. checkout' \in [Orders -> CheckoutPc]
    BY DEF Crash, TypeOK, CheckoutPc
  <1> QED BY <1>1, <1>2, <1>3 DEF Crash, TypeOK, rowVars, proofVars, auditVars, gatewayVars

(* No step of the checkout, the gateway, a webhook, a refund or a restart  *)
(* leaves a row, a request or a gateway object that is not of its kind; in *)
(* particular no stock count becomes negative.                             *)
THEOREM TypeCorrect == Spec => []TypeOK
  <1>1. Init => TypeOK
    BY InitType
  <1>2. TypeOK /\ [Next]_vars => TypeOK'
    <2> SUFFICES ASSUME TypeOK, [Next]_vars PROVE TypeOK'
      OBVIOUS
    <2>1. ASSUME NEW o \in Orders, PlaceOrder(o) \/ CheckoutStep(o) PROVE TypeOK'
      BY <2>1, CheckoutStepType
    <2>2. ASSUME NEW o \in Orders, NEW p \in Payments, FailPayment(o, p) \/ CompletePayment(o, p)
          PROVE  TypeOK'
      BY <2>2, GatewayStepType
    <2>3. ASSUME NEW h \in Handlers, NEW e \in fired, Deliver(h, e) PROVE TypeOK'
      BY <2>3, DeliverType
    <2>4. ASSUME NEW h \in Handlers, HandlerStep(h) PROVE TypeOK'
      BY <2>4, ApplyWebhookType, RefundStepType DEF HandlerStep
    <2>5. CASE Crash
      BY <2>5, CrashType
    <2>6. CASE UNCHANGED vars
      BY <2>6 DEF vars, rowVars, proofVars, auditVars, gatewayVars, TypeOK
    <2> QED BY <2>1, <2>2, <2>3, <2>4, <2>5, <2>6 DEF Next
  <1> QED BY <1>1, <1>2, PTL DEF Spec

-----------------------------------------------------------------------------
(***************************************************************************)
(* The inductive invariant of the money path.  GoodsFollowMoney and        *)
(* RefundsAreOwed need to know that IssueLink finds its Order just         *)
(* created, and which request runs a refund and how far it is.             *)
(***************************************************************************)
MoneyInvariant ==
    /\ TypeOK
    /\ LinkBeforeMoney
    /\ GoodsFollowMoney
    /\ RefundsAreOwed
    /\ RefundHasOneOwner

\* The audit types the invariant counts.
Tracked == {"order.fulfilled", "order.oversell_detected", "gateway.refund_attempted"}

\* What a step leaves alone when no tracked event is logged.
NothingTracked == \A x \in Orders, t \in Tracked : Count(x, t)' = Count(x, t)

LEMMA LogCount ==
    ASSUME TypeOK, NEW o \in Orders, NEW types, Log(o, types)
    PROVE  \A x \in Orders, t \in AuditType :
               Count(x, t)' = Count(x, t) + (IF x = o /\ t \in types THEN 1 ELSE 0)
  BY DEF TypeOK, Log, Count

LEMMA LinkAndLogCount ==
    ASSUME TypeOK, NEW o \in Orders, NEW e \in Event, NEW types, LinkAndLog(o, e, types)
    PROVE  \A x \in Orders, t \in AuditType \ {"gateway.order_linked"} :
               Count(x, t)' = Count(x, t) + (IF x = o /\ t \in types THEN 1 ELSE 0)
  <1>1. CASE LearnsGatewayOrder(o, e)
    BY <1>1, LogCount DEF LinkAndLog
  <1>2. CASE ~LearnsGatewayOrder(o, e)
    BY <1>2, LogCount DEF LinkAndLog
  <1> QED BY <1>1, <1>2

LEMMA LogTracksNothing ==
    ASSUME TypeOK, NEW o \in Orders, NEW types, types \cap Tracked = {}, Log(o, types)
    PROVE  NothingTracked
  <1>1. Tracked \subseteq AuditType
    BY DEF Tracked, AuditType
  <1>2. \A x \in Orders, t \in Tracked : Count(x, t) \in Nat
    BY <1>1 DEF TypeOK, Count
  <1> QED BY <1>1, <1>2, LogCount DEF NothingTracked

LEMMA LinkAndLogTracksNothing ==
    ASSUME TypeOK, NEW o \in Orders, NEW e \in Event, NEW types,
           types \cap Tracked = {}, LinkAndLog(o, e, types)
    PROVE  NothingTracked
  <1>1. Tracked \subseteq AuditType \ {"gateway.order_linked"}
    BY DEF Tracked, AuditType
  <1>2. \A x \in Orders, t \in Tracked : Count(x, t) \in Nat
    BY <1>1 DEF TypeOK, Count
  <1> QED BY <1>1, <1>2, LinkAndLogCount DEF NothingTracked

LEMMA UnchangedTracksNothing == ASSUME UNCHANGED logged PROVE NothingTracked
  BY DEF NothingTracked, Count

LEMMA AnswerHandlers ==
    ASSUME TypeOK, NEW h \in Handlers, Answer(h)
    PROVE  /\ handler'[h] = Idle
           /\ \A g \in Handlers : g # h => handler'[g] = handler[g]
  BY DEF TypeOK, Answer

LEMMA ProceedHandlers ==
    ASSUME TypeOK, NEW h \in Handlers, NEW pc, Proceed(h, pc)
    PROVE  /\ handler'[h].pc = pc
           /\ handler'[h].event = handler[h].event
           /\ \A g \in Handlers : g # h => handler'[g] = handler[g]
  BY DEF TypeOK, Proceed

LEMMA Tracks ==
    ASSUME TypeOK, NEW o \in Orders
    PROVE  /\ Count(o, "order.fulfilled") \in Nat
           /\ Count(o, "order.oversell_detected") \in Nat
           /\ Count(o, "gateway.refund_attempted") \in Nat
           /\ refunds[o] \in Nat
  BY SMTT(30) DEF TypeOK, Count, AuditType

LEMMA NothingTrackedCounts ==
    ASSUME NothingTracked, NEW o \in Orders
    PROVE  /\ Count(o, "order.fulfilled")' = Count(o, "order.fulfilled")
           /\ Count(o, "order.oversell_detected")' = Count(o, "order.oversell_detected")
           /\ Count(o, "gateway.refund_attempted")' = Count(o, "gateway.refund_attempted")
  BY DEF NothingTracked, Tracked

\* The Order a running refund is about is one of Orders.
LEMMA RunningOrder ==
    ASSUME TypeOK, LinkBeforeMoney, NEW h \in Handlers, handler[h].pc # "idle"
    PROVE  handler[h].event \in fired /\ handler[h].event.order \in Orders
  BY DEF LinkBeforeMoney, TypeOK, Event

(* A request that ends without a transition or a tracked event.            *)
LEMMA QuietAnswer ==
    ASSUME MoneyInvariant, TypeOK', NEW h \in Handlers, Answer(h), NothingTracked,
           UNCHANGED <<status, shortfall, checkout, captured, failed, refunds, fired>>
    PROVE  MoneyInvariant'
  <1> USE DEF MoneyInvariant
  <1>0. /\ handler'[h] = Idle
        /\ \A g \in Handlers : g # h => handler'[g] = handler[g]
    BY AnswerHandlers
  <1>1. LinkBeforeMoney'
    BY <1>0 DEF LinkBeforeMoney, Idle
  <1>2. GoodsFollowMoney'
    BY NothingTrackedCounts DEF GoodsFollowMoney, Once
  <1>3. RefundsAreOwed'
    BY NothingTrackedCounts DEF RefundsAreOwed, Once
  <1>4. \A g \in Handlers : RefundRunning(g)' => g # h /\ RefundRunning(g)
    BY <1>0 DEF RefundRunning, Idle
  <1>5. RefundHasOneOwner'
    BY <1>0, <1>4, NothingTrackedCounts, RunningOrder DEF RefundHasOneOwner, RefundRunning
  <1> QED BY <1>1, <1>2, <1>3, <1>5

(* The checkout: PlaceOrder and IssueLink are the only steps of it that    *)
(* write a status, and both find the Order where they expect it.           *)
LEMMA CheckoutStepKeepsMoney ==
    ASSUME MoneyInvariant, TypeOK', NEW o \in Orders, PlaceOrder(o) \/ CheckoutStep(o)
    PROVE  MoneyInvariant'
  <1> USE DEF MoneyInvariant
  <1>1. /\ UNCHANGED <<shortfall, handler, captured, failed, refunds, fired>>
        /\ NothingTracked
    BY LogTracksNothing, UnchangedTracksNothing
       DEF PlaceOrder, CheckoutStep, AttemptLink, CreateLink, IssueLink, rowVars, proofVars,
           auditVars, gatewayVars, Tracked
  <1>2. \/ UNCHANGED status
        \/ status[o] \in {"absent", "created"}
              /\ \E s \in Payable : status' = [status EXCEPT ![o] = s]
    BY DEF PlaceOrder, CheckoutStep, AttemptLink, CreateLink, IssueLink, rowVars,
           LinkBeforeMoney, Payable
  <1>3. \A x \in Orders : status[x] \in {"paid", "refunded"} \/ status'[x] \in {"paid", "refunded"}
                             => status'[x] = status[x]
    BY <1>2 DEF TypeOK, Payable
  <1>4. LinkBeforeMoney'
    <2>1. \A x \in Orders : x # o => checkout'[x] = checkout[x] /\ status'[x] = status[x]
      BY DEF PlaceOrder, CheckoutStep, AttemptLink, CreateLink, IssueLink, rowVars, TypeOK
    <2>2. /\ checkout[o] # "done"
          /\ checkout'[o] # "none"
          /\ checkout'[o] # "done" => status'[o] = "created"
      BY DEF PlaceOrder, CheckoutStep, AttemptLink, CreateLink, IssueLink, rowVars,
             LinkBeforeMoney, TypeOK
    <2>3. \A e \in fired : e.order \in Orders /\ e.order # o
      BY <2>2 DEF LinkBeforeMoney, TypeOK, Event
    <2> QED BY <1>1, <2>1, <2>2, <2>3 DEF LinkBeforeMoney
  <1>5. GoodsFollowMoney'
    BY <1>1, <1>3, NothingTrackedCounts DEF GoodsFollowMoney, Once
  <1>6. RefundsAreOwed'
    BY <1>1, <1>3, NothingTrackedCounts DEF RefundsAreOwed, Once
  <1>7. RefundHasOneOwner'
    BY <1>1, <1>3, NothingTrackedCounts, RunningOrder DEF RefundHasOneOwner, RefundRunning
  <1> QED BY <1>4, <1>5, <1>6, <1>7

(* The gateway moves no row; what it fires is about a link that is out.    *)
LEMMA GatewayStepKeepsMoney ==
    ASSUME MoneyInvariant, TypeOK', NEW o \in Orders, NEW p \in Payments,
           FailPayment(o, p) \/ CompletePayment(o, p)
    PROVE  MoneyInvariant'
  <1> USE DEF MoneyInvariant
  <1>1. /\ UNCHANGED <<status, shortfall, logged, checkout, handler, refunds>>
        /\ checkout[o] = "done"
        /\ \A x \in Orders : x # o => captured'[x] = captured[x] /\ failed'[x] = failed[x]
        /\ fired \subseteq fired'
        /\ \A e \in fired' \ fired : e.order = o
    BY DEF FailPayment, CompletePayment, Fire, LinkOpen, rowVars, proofVars, auditVars, TypeOK
  <1>2. NothingTracked
    BY <1>1, UnchangedTracksNothing
  <1>3. LinkBeforeMoney'
    BY <1>1 DEF LinkBeforeMoney
  <1>4. GoodsFollowMoney' /\ RefundsAreOwed'
    BY <1>1, <1>2, NothingTrackedCounts DEF GoodsFollowMoney, RefundsAreOwed, Once
  <1>5. RefundHasOneOwner'
    BY <1>1, <1>2, NothingTrackedCounts, RunningOrder DEF RefundHasOneOwner, RefundRunning
  <1> QED BY <1>3, <1>4, <1>5

LEMMA DeliverKeepsMoney ==
    ASSUME MoneyInvariant, TypeOK', NEW h \in Handlers, NEW e \in fired, Deliver(h, e)
    PROVE  MoneyInvariant'
  <1> USE DEF MoneyInvariant
  <1>1. /\ UNCHANGED <<status, shortfall, logged, checkout, captured, failed, refunds, fired>>
        /\ \A g \in Handlers :
               \/ handler'[g] = handler[g]
               \/ handler'[g].pc = "matched" /\ handler'[g].event \in fired
    <2>1. CASE Receive(h, e)
      BY <2>1 DEF Receive, rowVars, proofVars, auditVars, gatewayVars, TypeOK
    <2>2. CASE ReceiveUnmatched(h, e)
      BY <2>2 DEF ReceiveUnmatched, rowVars, proofVars, gatewayVars
    <2> QED BY <2>1, <2>2 DEF Deliver
  <1>2. NothingTracked
    BY <1>1, UnchangedTracksNothing
  <1>3. LinkBeforeMoney'
    BY <1>1 DEF LinkBeforeMoney
  <1>4. GoodsFollowMoney' /\ RefundsAreOwed'
    BY <1>1, <1>2, NothingTrackedCounts DEF GoodsFollowMoney, RefundsAreOwed, Once
  <1>5. RefundHasOneOwner'
    BY <1>1, <1>2, NothingTrackedCounts, RunningOrder DEF RefundHasOneOwner, RefundRunning
  <1> QED BY <1>3, <1>4, <1>5

(* A restart abandons checkouts where they are and forgets every request.  *)
LEMMA CrashKeepsMoney == ASSUME MoneyInvariant, TypeOK', Crash PROVE MoneyInvariant'
  <1> USE DEF MoneyInvariant
  <1>1. /\ UNCHANGED <<status, shortfall, logged, captured, failed, refunds, fired>>
        /\ \A h \in Handlers : handler'[h] = Idle
        /\ \A o \in Orders :
               \/ checkout'[o] = checkout[o]
               \/ checkout[o] \notin {"none", "done"} /\ checkout'[o] = "abandoned"
    <2>1. UNCHANGED <<status, shortfall, logged, captured, failed, refunds, fired>>
      BY DEF Crash, rowVars, proofVars, auditVars, gatewayVars
    <2>2. \A h \in Handlers : handler'[h] = Idle
      BY DEF Crash
    <2>3. \A o \in Orders :
              \/ checkout'[o] = checkout[o]
              \/ checkout[o] \notin {"none", "done"} /\ checkout'[o] = "abandoned"
      BY DEF Crash
    <2> QED BY <2>1, <2>2, <2>3
  <1>2. NothingTracked
    BY <1>1, UnchangedTracksNothing
  <1>3. LinkBeforeMoney'
    <2>1. \A e \in fired : e.order \in Orders
      BY DEF TypeOK, Event
    <2> QED BY <1>1, <2>1 DEF LinkBeforeMoney, Idle
  <1>4. GoodsFollowMoney' /\ RefundsAreOwed'
    BY <1>1, <1>2, NothingTrackedCounts DEF GoodsFollowMoney, RefundsAreOwed, Once
  <1>5. RefundHasOneOwner'
    BY <1>1 DEF RefundHasOneOwner, RefundRunning, Idle
  <1> QED BY <1>3, <1>4, <1>5

(* A transition out of a payable status: the Order's refund has not begun, *)
(* and no other Order is touched.                                          *)
LEMMA PayableOrder ==
    ASSUME MoneyInvariant, NEW o \in Orders, status[o] \in Payable
    PROVE  /\ ~shortfall[o]
           /\ refunds[o] = 0
           /\ Count(o, "order.fulfilled") = 0
           /\ Count(o, "order.oversell_detected") = 0
           /\ Count(o, "gateway.refund_attempted") = 0
           /\ \A h \in Handlers : RefundRunning(h) => handler[h].event.order # o
  <1>1. ~shortfall[o]
    BY DEF MoneyInvariant, GoodsFollowMoney, Payable
  <1>2. /\ Count(o, "order.fulfilled") = 0
        /\ Count(o, "order.oversell_detected") = 0
    BY <1>1 DEF MoneyInvariant, GoodsFollowMoney, Payable, Once
  <1>3. refunds[o] = 0 /\ Count(o, "gateway.refund_attempted") = 0
    BY <1>1, Tracks DEF MoneyInvariant, RefundsAreOwed, Once
  <1>4. \A h \in Handlers : RefundRunning(h) => handler[h].event.order # o
    BY <1>1 DEF MoneyInvariant, RefundHasOneOwner
  <1> QED BY <1>1, <1>2, <1>3, <1>4

LEMMA DeclineCancelsKeepsMoney ==
    ASSUME MoneyInvariant, TypeOK', NEW h \in Handlers, DeclineCancels(h)
    PROVE  MoneyInvariant'
  <1> USE DEF MoneyInvariant
  <1>1. PICK o \in Orders, e \in fired :
            /\ Applying(h, o, e)
            /\ status[o] \in Payable
            /\ status' = [status EXCEPT ![o] = "cancelled"]
            /\ LinkAndLog(o, e, {"payment.declined", "order.cancelled"})
            /\ Answer(h)
            /\ UNCHANGED <<shortfall, checkout, captured, failed, refunds, fired>>
    BY DEF DeclineCancels, Counts, gatewayVars
  <1>2. NothingTracked
    <2>1. e \in Event
      BY DEF TypeOK
    <2> QED BY <1>1, <2>1, LinkAndLogTracksNothing DEF Tracked
  <1>3. /\ handler'[h] = Idle
        /\ \A g \in Handlers : g # h => handler'[g] = handler[g]
    BY <1>1, AnswerHandlers
  <1>4. /\ status'[o] = "cancelled"
        /\ \A x \in Orders : x # o => status'[x] = status[x]
    BY <1>1 DEF TypeOK
  <1>5. checkout[o] = "done"
    BY <1>1 DEF LinkBeforeMoney, Applying
  <1>6. LinkBeforeMoney'
    BY <1>1, <1>3, <1>4, <1>5 DEF LinkBeforeMoney, Idle
  <1>7. GoodsFollowMoney'
    BY <1>1, <1>2, <1>4, NothingTrackedCounts, PayableOrder DEF GoodsFollowMoney, Once
  <1>8. RefundsAreOwed'
    BY <1>1, <1>2, <1>4, NothingTrackedCounts DEF RefundsAreOwed, Once
  <1>9. \A g \in Handlers : RefundRunning(g)' =>
            /\ g # h
            /\ RefundRunning(g)
            /\ handler[g].event.order \in Orders \ {o}
    BY <1>1, <1>3, PayableOrder, RunningOrder DEF RefundRunning, Idle
  <1>10. RefundHasOneOwner'
    BY <1>1, <1>2, <1>3, <1>4, <1>9, NothingTrackedCounts DEF RefundHasOneOwner
  <1> QED BY <1>6, <1>7, <1>8, <1>10

LEMMA PayAndMintCount ==
    ASSUME TypeOK, NEW h \in Handlers, NEW o \in Orders, NEW e \in Event, NEW types,
           PayAndMint(h, o, e, types)
    PROVE  \A x \in Orders, t \in Tracked :
               Count(x, t)' = Count(x, t) + (IF x = o /\ t \in types THEN 1 ELSE 0)
  <1> DEFINE logs == types \cup {"order.paid"}
                           \cup (IF ReceiptPayment(h, e) = NoPayment THEN {} ELSE {"receipt.issued"})
  <1>1. LinkAndLog(o, e, logs)
    BY DEF PayAndMint
  <1>2. Tracked \subseteq AuditType \ {"gateway.order_linked"}
    BY DEF Tracked, AuditType
  <1>3. \A t \in Tracked : t \in logs <=> t \in types
    BY DEF Tracked
  <1> HIDE DEF logs
  <1> QED BY <1>1, <1>2, <1>3, LinkAndLogCount

LEMMA CaptureFulfilsKeepsMoney ==
    ASSUME MoneyInvariant, TypeOK', NEW h \in Handlers, CaptureFulfils(h)
    PROVE  MoneyInvariant'
  <1> USE DEF MoneyInvariant
  <1>1. PICK o \in Orders, e \in fired :
            /\ Applying(h, o, e)
            /\ status[o] \in Payable
            /\ PayAndMint(h, o, e, {"order.fulfilled"})
            /\ Answer(h)
            /\ UNCHANGED <<shortfall, checkout, captured, failed, refunds, fired>>
    BY DEF CaptureFulfils, Succeeds, gatewayVars
  <1>2. \A x \in Orders :
            /\ Count(x, "order.fulfilled")' = Count(x, "order.fulfilled") + Once(x = o)
            /\ Count(x, "order.oversell_detected")' = Count(x, "order.oversell_detected")
            /\ Count(x, "gateway.refund_attempted")' = Count(x, "gateway.refund_attempted")
    <2>1. e \in Event
      BY DEF TypeOK
    <2>2. \A x \in Orders, t \in Tracked :
              Count(x, t)' = Count(x, t) + (IF x = o /\ t \in {"order.fulfilled"} THEN 1 ELSE 0)
      BY <1>1, <2>1, PayAndMintCount
    <2> QED BY <2>2, Tracks DEF Tracked, Once
  <1>3. /\ handler'[h] = Idle
        /\ \A g \in Handlers : g # h => handler'[g] = handler[g]
    BY <1>1, AnswerHandlers
  <1>4. /\ status'[o] = "paid"
        /\ \A x \in Orders : x # o => status'[x] = status[x]
    BY <1>1 DEF TypeOK, PayAndMint
  <1>5. checkout[o] = "done"
    BY <1>1 DEF LinkBeforeMoney, Applying
  <1>6. LinkBeforeMoney'
    BY <1>1, <1>3, <1>4, <1>5 DEF LinkBeforeMoney, Idle
  <1>7. GoodsFollowMoney'
    BY <1>1, <1>2, <1>4, PayableOrder, Tracks DEF GoodsFollowMoney, Once
  <1>8. RefundsAreOwed'
    BY <1>1, <1>2, <1>4 DEF RefundsAreOwed, Once
  <1>9. \A g \in Handlers : RefundRunning(g)' =>
            /\ g # h
            /\ RefundRunning(g)
            /\ handler[g].event.order \in Orders \ {o}
    BY <1>1, <1>3, PayableOrder, RunningOrder DEF RefundRunning, Idle
  <1>10. RefundHasOneOwner'
    BY <1>1, <1>2, <1>3, <1>4, <1>9 DEF RefundHasOneOwner
  <1> QED BY <1>6, <1>7, <1>8, <1>10

LEMMA CaptureOversellsKeepsMoney ==
    ASSUME MoneyInvariant, TypeOK', NEW h \in Handlers, CaptureOversells(h)
    PROVE  MoneyInvariant'
  <1> USE DEF MoneyInvariant
  <1>1. PICK o \in Orders, e \in fired :
            /\ Applying(h, o, e)
            /\ status[o] \in Payable
            /\ PayAndMint(h, o, e, {"order.oversell_detected"})
            /\ shortfall' = [shortfall EXCEPT ![o] = TRUE]
            /\ Proceed(h, "refund_due")
            /\ UNCHANGED <<checkout, captured, failed, refunds, fired>>
    BY DEF CaptureOversells, Succeeds, gatewayVars
  <1>2. \A x \in Orders :
            /\ Count(x, "order.fulfilled")' = Count(x, "order.fulfilled")
            /\ Count(x, "order.oversell_detected")' =
                   Count(x, "order.oversell_detected") + Once(x = o)
            /\ Count(x, "gateway.refund_attempted")' = Count(x, "gateway.refund_attempted")
    <2>1. e \in Event
      BY DEF TypeOK
    <2>2. \A x \in Orders, t \in Tracked :
              Count(x, t)' =
                  Count(x, t) + (IF x = o /\ t \in {"order.oversell_detected"} THEN 1 ELSE 0)
      BY <1>1, <2>1, PayAndMintCount
    <2> QED BY <2>2, Tracks DEF Tracked, Once
  <1>3. /\ handler'[h].pc = "refund_due"
        /\ handler'[h].event = e
        /\ e.order = o
        /\ \A g \in Handlers : g # h => handler'[g] = handler[g]
    BY <1>1, ProceedHandlers DEF Applying
  <1>4. /\ status'[o] = "paid" /\ shortfall'[o]
        /\ \A x \in Orders : x # o => status'[x] = status[x] /\ shortfall'[x] = shortfall[x]
    BY <1>1 DEF TypeOK, PayAndMint
  <1>5. checkout[o] = "done"
    BY <1>1 DEF LinkBeforeMoney, Applying
  <1>6. LinkBeforeMoney'
    BY <1>1, <1>3, <1>4, <1>5 DEF LinkBeforeMoney
  <1>7. GoodsFollowMoney'
    BY <1>1, <1>2, <1>4, PayableOrder, Tracks DEF GoodsFollowMoney, Once
  <1>8. RefundsAreOwed'
    BY <1>1, <1>2, <1>4, PayableOrder, Tracks DEF RefundsAreOwed, Once
  <1>9. \A g \in Handlers : g # h /\ RefundRunning(g)' =>
            /\ RefundRunning(g)
            /\ handler[g].event.order \in Orders \ {o}
    BY <1>1, <1>3, PayableOrder, RunningOrder DEF RefundRunning
  <1>10. RefundHasOneOwner'
    BY <1>1, <1>2, <1>3, <1>4, <1>9, PayableOrder DEF RefundHasOneOwner, Once
  <1> QED BY <1>6, <1>7, <1>8, <1>10

(* What every webhook but the ones above does to the invariant: nothing.   *)
LEMMA ApplyWebhookKeepsMoney ==
    ASSUME MoneyInvariant, TypeOK', NEW h \in Handlers, ApplyWebhook(h)
    PROVE  MoneyInvariant'
  <1> USE DEF rowVars, proofVars, auditVars, gatewayVars
  <1>0. TypeOK /\ \A e \in fired : e \in Event
    BY DEF MoneyInvariant, TypeOK
  <1>1. CASE RecordConflict(h)
    BY <1>1, QuietAnswer, UnchangedTracksNothing DEF RecordConflict
  <1>2. CASE RecordOther(h)
    BY <1>2, <1>0, QuietAnswer, LinkAndLogTracksNothing DEF RecordOther
  <1>3. CASE RecordUncountedDecline(h)
    BY <1>3, <1>0, QuietAnswer, LinkAndLogTracksNothing DEF RecordUncountedDecline
  <1>4. CASE CountDecline(h)
    BY <1>4, <1>0, QuietAnswer, LinkAndLogTracksNothing DEF CountDecline, Tracked
  <1>5. CASE DeclineCancels(h)
    BY <1>5, DeclineCancelsKeepsMoney
  <1>6. CASE RecordWrongAmount(h)
    BY <1>6, <1>0, QuietAnswer, LinkAndLogTracksNothing DEF RecordWrongAmount
  <1>7. CASE RecordLateCapture(h)
    BY <1>7, <1>0, QuietAnswer, LinkAndLogTracksNothing DEF RecordLateCapture
  <1>8. CASE RecordAlreadyPaid(h)
    BY <1>8, <1>0, QuietAnswer, LinkAndLogTracksNothing DEF RecordAlreadyPaid
  <1>9. CASE CaptureFulfils(h)
    BY <1>9, CaptureFulfilsKeepsMoney
  <1>10. CASE CaptureOversells(h)
    BY <1>10, CaptureOversellsKeepsMoney
  <1> QED BY <1>1, <1>2, <1>3, <1>4, <1>5, <1>6, <1>7, <1>8, <1>9, <1>10 DEF ApplyWebhook

(* A refund step that only moves its request on, having logged the attempt *)
(* or called the gateway: it owns the Order, so it can say what it found.  *)
LEMMA RefundProceedsKeepsMoney ==
    ASSUME MoneyInvariant, TypeOK', NEW h \in Handlers,
           AttemptRefund(h) \/ GatewayRefunds(h) \/ RefundCallFails(h)
    PROVE  MoneyInvariant'
  <1> USE DEF MoneyInvariant
  <1>1. /\ handler[h].pc \in {"refund_due", "refund_call"}
        /\ UNCHANGED <<status, shortfall, checkout, captured, failed, fired>>
        /\ handler'[h].event = handler[h].event
        /\ \A g \in Handlers : g # h => handler'[g] = handler[g]
    BY ProceedHandlers
       DEF AttemptRefund, GatewayRefunds, RefundCallFails, Refunding, rowVars, gatewayVars
  <1>2. PICK o \in Orders : o = handler[h].event.order /\ RefundRunning(h)
    BY <1>1, RunningOrder DEF RefundRunning
  <1>3. /\ status[o] = "paid" /\ shortfall[o]
        /\ Count(o, "gateway.refund_attempted") = Once(handler[h].pc # "refund_due")
        /\ refunds[o] = 0
    BY <1>1, <1>2 DEF RefundHasOneOwner
  <1>4. /\ handler'[h].pc \in {"refund_call", "refund_done", "refund_error"}
        /\ handler'[h].pc = "refund_call" => refunds'[o] = 0
        /\ handler'[h].pc = "refund_done" => refunds'[o] = 1
        /\ refunds'[o] \in {0, 1}
        /\ \A x \in Orders : x # o => refunds'[x] = refunds[x]
        /\ Count(o, "gateway.refund_attempted")' = 1
        /\ \A x \in Orders :
               /\ Count(x, "order.fulfilled")' = Count(x, "order.fulfilled")
               /\ Count(x, "order.oversell_detected")' = Count(x, "order.oversell_detected")
               /\ x # o => Count(x, "gateway.refund_attempted")' =
                               Count(x, "gateway.refund_attempted")
    <2>1. CASE AttemptRefund(h)
      <3>1. /\ Log(o, {"gateway.refund_attempted"})
            /\ Proceed(h, "refund_call")
            /\ handler[h].pc = "refund_due"
            /\ UNCHANGED refunds
        BY <2>1, <1>2 DEF AttemptRefund, Refunding, gatewayVars
      <3>2. \A x \in Orders, t \in AuditType :
                Count(x, t)' =
                    Count(x, t) + (IF x = o /\ t \in {"gateway.refund_attempted"} THEN 1 ELSE 0)
        BY <3>1, <1>2, LogCount
      <3> QED BY <3>1, <3>2, <1>2, <1>3, ProceedHandlers, Tracks DEF AuditType, Once
    <2>2. CASE GatewayRefunds(h)
      <3>1. /\ refunds' = [refunds EXCEPT ![o] = @ + 1]
            /\ Proceed(h, "refund_done")
            /\ handler[h].pc = "refund_call"
            /\ UNCHANGED logged
        BY <2>2, <1>2 DEF GatewayRefunds, Refunding, auditVars
      <3>2. refunds'[o] = 1 /\ \A x \in Orders : x # o => refunds'[x] = refunds[x]
        BY <3>1, <1>2, <1>3 DEF TypeOK
      <3> QED BY <3>1, <3>2, <1>2, <1>3, ProceedHandlers DEF Count, Once
    <2>3. CASE RefundCallFails(h)
      <3>1. PICK done \in {0, 1} :
                /\ refunds' = [refunds EXCEPT ![o] = @ + done]
                /\ Proceed(h, "refund_error")
                /\ handler[h].pc = "refund_call"
                /\ UNCHANGED logged
        BY <2>3, <1>2 DEF RefundCallFails, Refunding, auditVars
      <3>2. refunds'[o] = done /\ \A x \in Orders : x # o => refunds'[x] = refunds[x]
        BY <3>1, <1>2, <1>3 DEF TypeOK
      <3> QED BY <3>1, <3>2, <1>2, <1>3, ProceedHandlers DEF Count, Once
    <2> QED BY <2>1, <2>2, <2>3
  <1>5. LinkBeforeMoney'
    BY <1>1, <1>2 DEF LinkBeforeMoney, RefundRunning
  <1>6. GoodsFollowMoney'
    BY <1>1, <1>4 DEF GoodsFollowMoney, Once
  <1>7. RefundsAreOwed'
    <2> SUFFICES ASSUME NEW x \in Orders
                 PROVE  /\ refunds'[x] <= Count(x, "gateway.refund_attempted")'
                        /\ Count(x, "gateway.refund_attempted")' <= Once(shortfall[x])'
                        /\ status'[x] = "refunded" => refunds'[x] = 1
      BY DEF RefundsAreOwed
    <2>1. CASE x = o
      BY <1>1, <1>3, <1>4, <2>1 DEF Once
    <2>2. CASE x # o
      BY <1>1, <1>4, <2>2 DEF RefundsAreOwed, Once
    <2> QED BY <2>1, <2>2
  <1>8. \A g \in Handlers : g # h /\ RefundRunning(g)' =>
            /\ RefundRunning(g)
            /\ handler[g].event.order \in Orders \ {o}
    BY <1>1, <1>2, RunningOrder DEF RefundRunning, RefundHasOneOwner
  <1>9. RefundHasOneOwner'
    BY <1>1, <1>2, <1>3, <1>4, <1>8 DEF RefundHasOneOwner, Once
  <1> QED BY <1>5, <1>6, <1>7, <1>9

LEMMA RecordRefundKeepsMoney ==
    ASSUME MoneyInvariant, TypeOK', NEW h \in Handlers, RecordRefund(h)
    PROVE  MoneyInvariant'
  <1> USE DEF MoneyInvariant
  <1>1. PICK o \in Orders :
            /\ handler[h].pc = "refund_done"
            /\ o = handler[h].event.order
            /\ status' = [status EXCEPT ![o] = "refunded"]
            /\ Log(o, {"order.refunded"}
                       \cup (IF receipt[o] = NoPayment THEN {} ELSE {"receipt.refund_issued"}))
            /\ Answer(h)
            /\ UNCHANGED <<shortfall, checkout, captured, failed, refunds, fired>>
    BY DEF RecordRefund, Refunding, gatewayVars
  <1>2. NothingTracked
    BY <1>1, LogTracksNothing DEF Tracked
  <1>3. /\ handler'[h] = Idle
        /\ \A g \in Handlers : g # h => handler'[g] = handler[g]
    BY <1>1, AnswerHandlers
  <1>4. /\ status'[o] = "refunded"
        /\ \A x \in Orders : x # o => status'[x] = status[x]
    BY <1>1 DEF TypeOK
  <1>5. status[o] = "paid" /\ shortfall[o] /\ refunds[o] = 1
    BY <1>1 DEF RefundHasOneOwner, RefundRunning
  <1>6. LinkBeforeMoney'
    <2>1. checkout[o] = "done"
      BY <1>1 DEF LinkBeforeMoney
    <2> QED BY <1>1, <1>3, <1>4, <2>1 DEF LinkBeforeMoney, Idle
  <1>7. GoodsFollowMoney'
    BY <1>1, <1>2, <1>4, <1>5, NothingTrackedCounts DEF GoodsFollowMoney, Once
  <1>8. RefundsAreOwed'
    BY <1>1, <1>2, <1>4, <1>5, NothingTrackedCounts DEF RefundsAreOwed, Once
  <1>9. \A g \in Handlers : RefundRunning(g)' =>
            /\ g # h
            /\ RefundRunning(g)
            /\ handler[g].event.order \in Orders \ {o}
    BY <1>1, <1>3, RunningOrder DEF RefundRunning, RefundHasOneOwner, Idle
  <1>10. RefundHasOneOwner'
    BY <1>1, <1>2, <1>3, <1>4, <1>9, NothingTrackedCounts DEF RefundHasOneOwner
  <1> QED BY <1>6, <1>7, <1>8, <1>10

LEMMA RefundStepKeepsMoney ==
    ASSUME MoneyInvariant, TypeOK', NEW h \in Handlers, RefundStep(h)
    PROVE  MoneyInvariant'
  <1> USE DEF rowVars, proofVars, auditVars, gatewayVars
  <1>1. CASE RefundUnaddressable(h)
    BY <1>1, QuietAnswer, UnchangedTracksNothing DEF RefundUnaddressable
  <1>2. CASE AttemptRefund(h) \/ GatewayRefunds(h) \/ RefundCallFails(h)
    BY <1>2, RefundProceedsKeepsMoney
  <1>3. CASE RecordRefundFailure(h)
    BY <1>3, QuietAnswer, UnchangedTracksNothing DEF RecordRefundFailure
  <1>4. CASE RecordRefund(h)
    BY <1>4, RecordRefundKeepsMoney
  <1> QED BY <1>1, <1>2, <1>3, <1>4 DEF RefundStep

-----------------------------------------------------------------------------
(* MoneyInvariant holds in every reachable state.                          *)
THEOREM MoneyInvariantHolds == Spec => []MoneyInvariant
  <1>1. Init => MoneyInvariant
    <2> SUFFICES ASSUME Init PROVE MoneyInvariant
      OBVIOUS
    <2>1. TypeOK
      BY InitType
    <2>2. LinkBeforeMoney
      BY DEF Init, LinkBeforeMoney, Idle
    <2>3. \A o \in Orders, t \in AuditType : Count(o, t) = 0
      BY DEF Init, Count
    <2>4. GoodsFollowMoney /\ RefundsAreOwed
      BY <2>3 DEF Init, GoodsFollowMoney, RefundsAreOwed, AuditType, Once
    <2>5. RefundHasOneOwner
      BY DEF Init, RefundHasOneOwner, RefundRunning, Idle
    <2> QED BY <2>1, <2>2, <2>4, <2>5 DEF MoneyInvariant
  <1>2. MoneyInvariant /\ TypeOK' /\ [Next]_vars => MoneyInvariant'
    <2> SUFFICES ASSUME MoneyInvariant, TypeOK', [Next]_vars PROVE MoneyInvariant'
      OBVIOUS
    <2>1. ASSUME NEW o \in Orders, PlaceOrder(o) \/ CheckoutStep(o) PROVE MoneyInvariant'
      BY <2>1, CheckoutStepKeepsMoney
    <2>2. ASSUME NEW o \in Orders, NEW p \in Payments, FailPayment(o, p) \/ CompletePayment(o, p)
          PROVE  MoneyInvariant'
      BY <2>2, GatewayStepKeepsMoney
    <2>3. ASSUME NEW h \in Handlers, NEW e \in fired, Deliver(h, e) PROVE MoneyInvariant'
      BY <2>3, DeliverKeepsMoney
    <2>4. ASSUME NEW h \in Handlers, HandlerStep(h) PROVE MoneyInvariant'
      BY <2>4, ApplyWebhookKeepsMoney, RefundStepKeepsMoney DEF HandlerStep
    <2>5. CASE Crash
      BY <2>5, CrashKeepsMoney
    <2>6. CASE UNCHANGED vars
      <3>1. NothingTracked
        BY <2>6, UnchangedTracksNothing DEF vars, auditVars
      <3> QED BY <2>6, <3>1
              DEF vars, rowVars, proofVars, auditVars, gatewayVars, MoneyInvariant,
                  LinkBeforeMoney, GoodsFollowMoney, RefundsAreOwed, RefundHasOneOwner,
                  RefundRunning, Count
    <2> QED BY <2>1, <2>2, <2>3, <2>4, <2>5, <2>6 DEF Next
  <1> QED BY <1>1, <1>2, TypeCorrect, PTL DEF Spec

(* Money goes back at most once per Order, only for an oversold Order, and *)
(* `refunded` is never on the row before the gateway did refund.           *)
THEOREM RefundsOwed == Spec => []RefundsAreOwed
  <1>1. MoneyInvariant => RefundsAreOwed
    BY DEF MoneyInvariant
  <1> QED BY <1>1, MoneyInvariantHolds, PTL

(* A paid Order has shipped or is known to be short, exactly once; one     *)
(* that is not paid has shipped nothing.                                   *)
THEOREM GoodsFollow == Spec => []GoodsFollowMoney
  <1>1. MoneyInvariant => GoodsFollowMoney
    BY DEF MoneyInvariant
  <1> QED BY <1>1, MoneyInvariantHolds, PTL

(* The UPDATE that issues a payment link, which looks at no status, never  *)
(* finds an Order that anything but the checkout has moved.                *)
THEOREM LinkPrecedesMoney == Spec => []LinkBeforeMoney
  <1>1. MoneyInvariant => LinkBeforeMoney
    BY DEF MoneyInvariant
  <1> QED BY <1>1, MoneyInvariantHolds, PTL

(* Two requests never both run the refund of one Order.                    *)
THEOREM RefundOwnerIsUnique == Spec => []RefundHasOneOwner
  <1>1. MoneyInvariant => RefundHasOneOwner
    BY DEF MoneyInvariant
  <1> QED BY <1>1, MoneyInvariantHolds, PTL

-----------------------------------------------------------------------------
(***************************************************************************)
(* The refinement: every step of the money path is a step of OrderLifecycle*)
(* or changes nothing of it.                                               *)
(***************************************************************************)
Settled == {"paid", "refunded"}

LEMMA GoodsUnchanged ==
    ASSUME UNCHANGED shortfall,
           \A x \in Orders : status'[x] \in Settled <=> status[x] \in Settled
    PROVE  Goods' = Goods
  BY DEF Goods, Settled

LEMMA StutterStep ==
    ASSUME UNCHANGED <<status, shortfall>>
    PROVE  UNCHANGED Lifecycle!vars
  BY GoodsUnchanged DEF Lifecycle!vars

LEMMA CheckoutRefines ==
    ASSUME MoneyInvariant, NEW o \in Orders, PlaceOrder(o) \/ CheckoutStep(o)
    PROVE  [Lifecycle!Next]_(Lifecycle!vars)
  <1> USE DEF MoneyInvariant
  <1>1. CASE PlaceOrder(o)
    <2>1. status[o] = "absent" /\ status' = [status EXCEPT ![o] = "created"] /\ UNCHANGED shortfall
      BY <1>1 DEF PlaceOrder, LinkBeforeMoney
    <2>2. Goods' = Goods
      BY <2>1, GoodsUnchanged DEF TypeOK, Settled
    <2> QED BY <2>1, <2>2 DEF Lifecycle!Next, Lifecycle!Create, Lifecycle!Move
  <1>2. CASE AttemptLink(o) \/ CreateLink(o)
    BY <1>2, StutterStep DEF AttemptLink, CreateLink, rowVars
  <1>3. CASE IssueLink(o)
    <2>1. /\ status[o] = "created"
          /\ status' = [status EXCEPT ![o] = "awaiting_payment"]
          /\ UNCHANGED shortfall
      BY <1>3 DEF IssueLink, LinkBeforeMoney
    <2>2. Goods' = Goods
      BY <2>1, GoodsUnchanged DEF TypeOK, Settled
    <2> QED BY <2>1, <2>2 DEF Lifecycle!Next, Lifecycle!AwaitPayment, Lifecycle!Move
  <1> QED BY <1>1, <1>2, <1>3 DEF CheckoutStep

LEMMA PayRefines ==
    ASSUME MoneyInvariant, NEW o \in Orders, status[o] \in Payable,
           status' = [status EXCEPT ![o] = "paid"],
           \A x \in Orders : x # o => shortfall'[x] = shortfall[x]
    PROVE  Lifecycle!Next
  <1>1. PICK g \in {"shipped", "short"} : g = Goods'[o]
    BY DEF Goods, MoneyInvariant, TypeOK
  <1>2. Goods' = [Goods EXCEPT ![o] = g]
    <2>1. \A x \in Orders : x # o => status'[x] = status[x]
      BY DEF MoneyInvariant, TypeOK
    <2>2. \A x \in Orders : x # o => Goods'[x] = Goods[x]
      BY <2>1 DEF Goods
    <2>3. /\ Goods = [x \in Orders |-> Goods[x]]
          /\ Goods' = [x \in Orders |-> Goods'[x]]
      BY DEF Goods
    <2> QED BY <1>1, <2>2, <2>3
  <1>3. Lifecycle!Pay(o)
    BY <1>2 DEF Lifecycle!Pay, Lifecycle!Move, Lifecycle!Payable, Payable
  <1> QED BY <1>3 DEF Lifecycle!Next

LEMMA ApplyWebhookRefines ==
    ASSUME MoneyInvariant, NEW h \in Handlers, ApplyWebhook(h)
    PROVE  [Lifecycle!Next]_(Lifecycle!vars)
  <1> USE DEF rowVars
  <1>1. CASE RecordConflict(h) \/ RecordOther(h) \/ RecordUncountedDecline(h) \/ CountDecline(h)
    BY <1>1, StutterStep DEF RecordConflict, RecordOther, RecordUncountedDecline, CountDecline
  <1>2. CASE DeclineCancels(h)
    <2>1. PICK o \in Orders :
              /\ status[o] \in Payable
              /\ status' = [status EXCEPT ![o] = "cancelled"]
              /\ UNCHANGED shortfall
      BY <1>2 DEF DeclineCancels, Counts
    <2>2. Goods' = Goods
      BY <2>1, GoodsUnchanged DEF MoneyInvariant, TypeOK, Settled, Payable
    <2>3. Lifecycle!Cancel(o)
      BY <2>1, <2>2 DEF Lifecycle!Cancel, Lifecycle!Move, Lifecycle!Payable, Payable
    <2> QED BY <2>3 DEF Lifecycle!Next
  <1>3. CASE RecordWrongAmount(h) \/ RecordLateCapture(h) \/ RecordAlreadyPaid(h)
    BY <1>3, StutterStep DEF RecordWrongAmount, RecordLateCapture, RecordAlreadyPaid
  <1>4. CASE CaptureFulfils(h)
    BY <1>4, PayRefines DEF CaptureFulfils, PayAndMint
  <1>5. CASE CaptureOversells(h)
    <2>1. PICK o \in Orders :
              /\ status[o] \in Payable
              /\ status' = [status EXCEPT ![o] = "paid"]
              /\ shortfall' = [shortfall EXCEPT ![o] = TRUE]
      BY <1>5 DEF CaptureOversells, PayAndMint
    <2>2. \A x \in Orders : x # o => shortfall'[x] = shortfall[x]
      BY <2>1 DEF MoneyInvariant, TypeOK
    <2> QED BY <2>1, <2>2, PayRefines
  <1> QED BY <1>1, <1>2, <1>3, <1>4, <1>5 DEF ApplyWebhook

LEMMA RefundRefines ==
    ASSUME MoneyInvariant, NEW h \in Handlers, RefundStep(h)
    PROVE  [Lifecycle!Next]_(Lifecycle!vars)
  <1> USE DEF rowVars
  <1>1. CASE RefundUnaddressable(h) \/ AttemptRefund(h) \/ GatewayRefunds(h) \/ RefundCallFails(h)
                \/ RecordRefundFailure(h)
    BY <1>1, StutterStep
       DEF RefundUnaddressable, AttemptRefund, GatewayRefunds, RefundCallFails,
           RecordRefundFailure
  <1>2. CASE RecordRefund(h)
    <2>1. PICK o \in Orders :
              /\ handler[h].pc = "refund_done"
              /\ o = handler[h].event.order
              /\ status[o] = "paid"
              /\ status' = [status EXCEPT ![o] = "refunded"]
              /\ UNCHANGED shortfall
      BY <1>2 DEF RecordRefund, Refunding
    <2>2. shortfall[o]
      BY <2>1 DEF MoneyInvariant, RefundHasOneOwner, RefundRunning
    <2>3. Goods[o] = "short"
      BY <2>1, <2>2 DEF Goods
    <2>4. Goods' = Goods
      BY <2>1, GoodsUnchanged DEF MoneyInvariant, TypeOK, Settled
    <2>5. Lifecycle!Refund(o)
      BY <2>1, <2>3, <2>4 DEF Lifecycle!Refund, Lifecycle!Move
    <2> QED BY <2>5 DEF Lifecycle!Next
  <1> QED BY <1>1, <1>2 DEF RefundStep

(* Checkout, webhooks, declines, refunds and restarts implement the Order  *)
(* lifecycle: statuses only move forward, the goods settle with the        *)
(* payment, and only an Order that came up short is refunded.              *)
THEOREM Implements == Spec => ImplementsLifecycle
  <1>1. Init => Lifecycle!Init
    BY DEF Init, Lifecycle!Init, Goods
  <1>2. MoneyInvariant /\ [Next]_vars => [Lifecycle!Next]_(Lifecycle!vars)
    <2> SUFFICES ASSUME MoneyInvariant, [Next]_vars PROVE [Lifecycle!Next]_(Lifecycle!vars)
      OBVIOUS
    <2>1. ASSUME NEW o \in Orders, PlaceOrder(o) \/ CheckoutStep(o)
          PROVE  [Lifecycle!Next]_(Lifecycle!vars)
      BY <2>1, CheckoutRefines
    <2>2. ASSUME NEW o \in Orders, NEW p \in Payments, FailPayment(o, p) \/ CompletePayment(o, p)
          PROVE  [Lifecycle!Next]_(Lifecycle!vars)
      BY <2>2, StutterStep DEF FailPayment, CompletePayment, rowVars
    <2>3. ASSUME NEW h \in Handlers, NEW e \in fired, Deliver(h, e)
          PROVE  [Lifecycle!Next]_(Lifecycle!vars)
      BY <2>3, StutterStep DEF Deliver, Receive, ReceiveUnmatched, rowVars
    <2>4. ASSUME NEW h \in Handlers, HandlerStep(h) PROVE [Lifecycle!Next]_(Lifecycle!vars)
      BY <2>4, ApplyWebhookRefines, RefundRefines DEF HandlerStep
    <2>5. CASE Crash
      BY <2>5, StutterStep DEF Crash, rowVars
    <2>6. CASE UNCHANGED vars
      BY <2>6, StutterStep DEF vars, rowVars
    <2> QED BY <2>1, <2>2, <2>3, <2>4, <2>5, <2>6 DEF Next
  <1> QED BY <1>1, <1>2, MoneyInvariantHolds, PTL DEF Spec, ImplementsLifecycle, Lifecycle!Spec

-----------------------------------------------------------------------------
(***************************************************************************)
(* What the books of an Order say: its row, its Receipts, its audit events *)
(* and the stock agree with each other and with what the gateway did.  The *)
(* proofs build on MoneyInvariant.                                         *)
(***************************************************************************)
(***************************************************************************)
(* What the gateway fires is true of the link it fires it about.           *)
(***************************************************************************)
EventsAreTrue ==
    \A e \in fired :
        /\ e.shape.kind = "payment_succeeded" => e.payment = captured[e.order]
        /\ e.shape.kind = "payment_failed" => e.payment \in failed[e.order]

\* The server's own steps fire nothing and settle nothing at the gateway.
LEMMA ServerStepsFireNothing ==
    /\ \A o \in Orders : PlaceOrder(o) \/ CheckoutStep(o) => UNCHANGED <<captured, failed, fired>>
    /\ \A h \in Handlers : \A e \in fired : Deliver(h, e) => UNCHANGED <<captured, failed, fired>>
    /\ \A h \in Handlers : HandlerStep(h) => UNCHANGED <<captured, failed, fired>>
    /\ Crash => UNCHANGED <<captured, failed, fired>>
  <1> USE DEF gatewayVars
  <1>1. \A o \in Orders : PlaceOrder(o) \/ CheckoutStep(o) => UNCHANGED <<captured, failed, fired>>
    BY DEF PlaceOrder, CheckoutStep, AttemptLink, CreateLink, IssueLink
  <1>2. \A h \in Handlers : \A e \in fired : Deliver(h, e) => UNCHANGED <<captured, failed, fired>>
    BY DEF Deliver, Receive, ReceiveUnmatched
  <1>3. \A h \in Handlers : HandlerStep(h) => UNCHANGED <<captured, failed, fired>>
    <2> SUFFICES ASSUME NEW h \in Handlers, HandlerStep(h)
                 PROVE  UNCHANGED <<captured, failed, fired>>
      OBVIOUS
    <2>1. CASE ApplyWebhook(h)
      BY <2>1 DEF ApplyWebhook, RecordConflict, RecordOther, RecordUncountedDecline,
                  CountDecline, DeclineCancels, RecordWrongAmount, RecordLateCapture,
                  RecordAlreadyPaid, CaptureFulfils, CaptureOversells
    <2>2. CASE RefundStep(h)
      BY <2>2 DEF RefundStep, RefundUnaddressable, AttemptRefund, GatewayRefunds,
                  RefundCallFails, RecordRefundFailure, RecordRefund
    <2> QED BY <2>1, <2>2 DEF HandlerStep
  <1>4. Crash => UNCHANGED <<captured, failed, fired>>
    BY DEF Crash
  <1> QED BY <1>1, <1>2, <1>3, <1>4

(* A success event names the payment captured on its Order's link, and a   *)
(* failure event an attempt that failed there, however late it is received.*)
THEOREM EventsTrue == Spec => []EventsAreTrue
  <1>1. Init => EventsAreTrue
    BY DEF Init, EventsAreTrue
  <1>2. TypeOK /\ EventsAreTrue /\ [Next]_vars => EventsAreTrue'
    <2> SUFFICES ASSUME TypeOK, EventsAreTrue, [Next]_vars PROVE EventsAreTrue'
      OBVIOUS
    <2>1. ASSUME UNCHANGED <<captured, failed, fired>> PROVE EventsAreTrue'
      BY <2>1 DEF EventsAreTrue
    <2>2. ASSUME NEW o \in Orders, NEW p \in Payments, FailPayment(o, p)
          PROVE  EventsAreTrue'
      <3>1. PICK s \in FailureShapes :
                fired' = fired \cup {[order |-> o, payment |-> p, shape |-> s]}
        BY <2>2 DEF FailPayment, Fire
      <3>2. s.kind = "payment_failed"
        BY OrdersAssumption
      <3>3. \A e \in fired : e.order \in Orders
        BY DEF TypeOK, Event
      <3>4. captured' = captured /\ failed' = [failed EXCEPT ![o] = @ \cup {p}]
        BY <2>2 DEF FailPayment
      <3>5. \A x \in Orders : failed[x] \subseteq failed'[x]
        BY <3>4 DEF TypeOK
      <3>6. p \in failed'[o]
        BY <3>4 DEF TypeOK
      <3> QED BY <3>1, <3>2, <3>3, <3>4, <3>5, <3>6 DEF EventsAreTrue
    <2>3. ASSUME NEW o \in Orders, NEW p \in Payments, CompletePayment(o, p)
          PROVE  EventsAreTrue'
      <3>1. /\ captured[o] = NoPayment
            /\ captured' = [captured EXCEPT ![o] = p]
            /\ failed' = failed
            /\ fired' = fired \cup {[order |-> o, payment |-> p, shape |-> s] : s \in CaptureShapes}
        BY <2>3 DEF CompletePayment, Fire, LinkOpen
      <3>2. \A s \in CaptureShapes : s.kind # "payment_failed"
        BY OrdersAssumption
      <3>3. \A e \in fired : e.order \in Orders /\ e.payment # NoPayment
        BY OrdersAssumption DEF TypeOK, Event
      <3>4. \A e \in fired : e.shape.kind = "payment_succeeded" => e.order # o
        BY <3>1, <3>3 DEF EventsAreTrue
      <3>5. captured'[o] = p /\ \A x \in Orders : x # o => captured'[x] = captured[x]
        BY <3>1 DEF TypeOK
      <3> QED BY <3>1, <3>2, <3>3, <3>4, <3>5 DEF EventsAreTrue
    <2>4. CASE UNCHANGED vars
      BY <2>1, <2>4 DEF vars, gatewayVars
    <2> QED BY <2>1, <2>2, <2>3, <2>4, ServerStepsFireNothing DEF Next
  <1> QED BY <1>1, <1>2, TypeCorrect, PTL DEF Spec

-----------------------------------------------------------------------------
(***************************************************************************)
(* Two statuses are final as far as money goes.                            *)
(***************************************************************************)
LEMMA StepImplements ==
    ASSUME MoneyInvariant, [Next]_vars
    PROVE  [Lifecycle!Next]_(Lifecycle!vars)
  <1>1. ASSUME NEW o \in Orders, PlaceOrder(o) \/ CheckoutStep(o)
        PROVE  [Lifecycle!Next]_(Lifecycle!vars)
    BY <1>1, CheckoutRefines
  <1>2. ASSUME NEW o \in Orders, NEW p \in Payments, FailPayment(o, p) \/ CompletePayment(o, p)
        PROVE  [Lifecycle!Next]_(Lifecycle!vars)
    BY <1>2, StutterStep DEF FailPayment, CompletePayment, rowVars
  <1>3. ASSUME NEW h \in Handlers, NEW e \in fired, Deliver(h, e)
        PROVE  [Lifecycle!Next]_(Lifecycle!vars)
    BY <1>3, StutterStep DEF Deliver, Receive, ReceiveUnmatched, rowVars
  <1>4. ASSUME NEW h \in Handlers, HandlerStep(h) PROVE [Lifecycle!Next]_(Lifecycle!vars)
    BY <1>4, ApplyWebhookRefines, RefundRefines DEF HandlerStep
  <1>5. CASE Crash
    BY <1>5, StutterStep DEF Crash, rowVars
  <1>6. CASE UNCHANGED vars
    BY <1>6, StutterStep DEF vars, rowVars
  <1> QED BY <1>1, <1>2, <1>3, <1>4, <1>5, <1>6 DEF Next

\* A paid Order stays paid or is refunded; a cancelled one stays cancelled.
LEMMA FinalStatuses ==
    ASSUME MoneyInvariant, [Next]_vars, NEW o \in Orders
    PROVE  /\ status[o] \in Settled => status'[o] \in Settled
           /\ status[o] = "cancelled" => status'[o] = "cancelled"
           /\ status[o] = "refunded" => status'[o] = "refunded"
  <1>1. [Lifecycle!Next]_(Lifecycle!vars)
    BY StepImplements
  <1>2. CASE UNCHANGED Lifecycle!vars
    BY <1>2 DEF Lifecycle!vars
  <1>3. CASE Lifecycle!Next
    <2>1. PICK x \in Orders, from \in {"absent", "created", "awaiting_payment", "paid"},
               to \in {"created", "awaiting_payment", "cancelled", "paid", "refunded"} :
              /\ status[x] = from
              /\ status' = [status EXCEPT ![x] = to]
              /\ from = "paid" => to = "refunded"
      BY <1>3 DEF Lifecycle!Next, Lifecycle!Create, Lifecycle!AwaitPayment, Lifecycle!Pay,
                  Lifecycle!Cancel, Lifecycle!Refund, Lifecycle!Move, Lifecycle!Payable
    <2>2. status \in [Orders -> {"absent", "cancelled", "paid", "refunded"} \cup Payable]
      BY DEF MoneyInvariant, TypeOK
    <2> QED BY <2>1, <2>2 DEF Settled
  <1> QED BY <1>1, <1>2, <1>3

-----------------------------------------------------------------------------
(***************************************************************************)
(* The payment on the row.  The Receipt and the row get the same id, in    *)
(* the same transaction, and it is the captured payment's: an id a request *)
(* read off the row beforehand is never the one that ends up on a Receipt, *)
(* because an Order that can still be paid has none.                       *)
(***************************************************************************)
PaymentOnTheRow ==
    \A o \in Orders :
        /\ gatewayPaymentId[o] = receipt[o]
        /\ receipt[o] # NoPayment => receipt[o] = captured[o] /\ status[o] \in {"paid", "refunded"}

RequestsReadTheRow ==
    \A h \in Handlers :
        LET o == handler[h].event.order
        IN  /\ handler[h].pc = "matched" /\ handler[h].seen # NoPayment
                  => handler[h].seen = gatewayPaymentId[o]
            /\ handler[h].pc \in {"refund_call", "refund_done", "refund_error"}
                  => gatewayPaymentId[o] # NoPayment

PaymentInvariant == MoneyInvariant /\ EventsAreTrue /\ PaymentOnTheRow /\ RequestsReadTheRow

\* What a step does to a request that the invariant speaks of.
RequestMoves(g) ==
    \/ handler'[g] = handler[g]
    \/ handler'[g].pc \in {"idle", "refund_due"}
    \/ handler'[g].pc = "matched" /\ handler'[g].seen = gatewayPaymentId[handler'[g].event.order]
    \/ /\ handler[g].pc # "idle"
       /\ handler'[g].event = handler[g].event
       /\ handler'[g].pc # "matched"
       /\ gatewayPaymentId[handler[g].event.order] # NoPayment

\* A step that leaves the payment row and the receipts alone keeps both facts.
LEMMA PaymentKept ==
    ASSUME PaymentInvariant, [Next]_vars,
           UNCHANGED <<gatewayPaymentId, receipt>>,
           \A x \in Orders : receipt[x] # NoPayment => captured'[x] = captured[x],
           \A g \in Handlers : RequestMoves(g)
    PROVE  PaymentOnTheRow' /\ RequestsReadTheRow'
  <1>1. PaymentOnTheRow'
    BY FinalStatuses DEF PaymentInvariant, PaymentOnTheRow, Settled
  <1>2. RequestsReadTheRow'
    BY DEF PaymentInvariant, RequestsReadTheRow, RequestMoves
  <1> QED BY <1>1, <1>2

\* An answered delivery claims nothing about the row any more.
LEMMA AnswerMoves ==
    ASSUME TypeOK, NEW h \in Handlers, Answer(h)
    PROVE  \A g \in Handlers : RequestMoves(g)
  BY AnswerHandlers DEF RequestMoves, Idle

\* Placing an order and issuing its link touch no payment.
LEMMA CheckoutKeepsPayment ==
    ASSUME PaymentInvariant, [Next]_vars, NEW o \in Orders, PlaceOrder(o) \/ CheckoutStep(o)
    PROVE  PaymentOnTheRow' /\ RequestsReadTheRow'
  <1>1. UNCHANGED <<gatewayPaymentId, receipt, captured, handler>>
    BY DEF PlaceOrder, CheckoutStep, AttemptLink, CreateLink, IssueLink, rowVars, proofVars,
           gatewayVars
  <1> QED BY <1>1, PaymentKept DEF RequestMoves

\* The gateway settles an order only where nothing was captured before.
LEMMA GatewayKeepsPayment ==
    ASSUME PaymentInvariant, [Next]_vars, NEW o \in Orders, NEW p \in Payments,
           FailPayment(o, p) \/ CompletePayment(o, p)
    PROVE  PaymentOnTheRow' /\ RequestsReadTheRow'
  <1>1. UNCHANGED <<gatewayPaymentId, receipt, handler>>
    BY DEF FailPayment, CompletePayment, rowVars, proofVars
  <1>2. \A x \in Orders : captured'[x] = captured[x] \/ captured[x] = NoPayment
    BY DEF FailPayment, CompletePayment, LinkOpen, PaymentInvariant, MoneyInvariant, TypeOK
  <1>3. \A x \in Orders : receipt[x] # NoPayment => captured'[x] = captured[x]
    BY <1>2 DEF PaymentInvariant, PaymentOnTheRow
  <1> QED BY <1>1, <1>3, PaymentKept DEF RequestMoves

\* A delivery is matched against the rows as they are, and claims no payment yet.
LEMMA DeliverKeepsPayment ==
    ASSUME PaymentInvariant, [Next]_vars, NEW h \in Handlers, NEW e \in fired, Deliver(h, e)
    PROVE  PaymentOnTheRow' /\ RequestsReadTheRow'
  <1>1. UNCHANGED <<gatewayPaymentId, receipt, captured>>
    BY DEF Deliver, Receive, ReceiveUnmatched, rowVars, proofVars, gatewayVars
  <1>2. \A g \in Handlers : RequestMoves(g)
    <2>1. CASE Receive(h, e)
      BY <2>1 DEF Receive, RequestMoves, PaymentInvariant, MoneyInvariant, TypeOK
    <2>2. CASE ReceiveUnmatched(h, e)
      BY <2>2 DEF ReceiveUnmatched, RequestMoves
    <2> QED BY <2>1, <2>2 DEF Deliver
  <1> QED BY <1>1, <1>2, PaymentKept

(* What paying an Order binds.                                             *)
LEMMA PayAndMintBinds ==
    ASSUME PaymentInvariant, NEW h \in Handlers, NEW o \in Orders, NEW e \in fired, NEW types,
           Succeeds(h, o, e), status[o] \in Payable, PayAndMint(h, o, e, types)
    PROVE  /\ receipt[o] = NoPayment /\ gatewayPaymentId[o] = NoPayment
           /\ receipt'[o] = ReceiptPayment(h, e)
           /\ gatewayPaymentId'[o] = receipt'[o]
           /\ receipt'[o] # NoPayment => receipt'[o] = captured[o]
           /\ \A x \in Orders : x # o =>
                  receipt'[x] = receipt[x] /\ gatewayPaymentId'[x] = gatewayPaymentId[x]
  <1>1. receipt[o] = NoPayment /\ gatewayPaymentId[o] = NoPayment
    BY DEF PaymentInvariant, PaymentOnTheRow, Payable
  <1>2. handler[h].pc = "matched" /\ handler[h].event = e /\ e.order = o
        /\ e.shape.kind = "payment_succeeded"
    BY DEF Succeeds, Applying
  <1>3. handler[h].seen = NoPayment
    BY <1>1, <1>2 DEF PaymentInvariant, RequestsReadTheRow
  <1>4. ReceiptPayment(h, e) = PaymentId(e)
    BY <1>3 DEF ReceiptPayment
  <1>5. PaymentId(e) # NoPayment => PaymentId(e) = captured[o]
    BY <1>2 DEF PaymentId, PaymentInvariant, EventsAreTrue
  <1>6. /\ receipt' = [receipt EXCEPT ![o] = ReceiptPayment(h, e)]
        /\ gatewayPaymentId' =
               [gatewayPaymentId EXCEPT ![o] = IF PaymentId(e) = NoPayment THEN @ ELSE PaymentId(e)]
    BY DEF PayAndMint
  <1>7. gatewayPaymentId'[o] = PaymentId(e) /\ receipt'[o] = PaymentId(e)
    BY <1>1, <1>4, <1>6 DEF PaymentInvariant, MoneyInvariant, TypeOK
  <1>8. \A x \in Orders : x # o =>
            receipt'[x] = receipt[x] /\ gatewayPaymentId'[x] = gatewayPaymentId[x]
    BY <1>6 DEF PaymentInvariant, MoneyInvariant, TypeOK
  <1> QED BY <1>1, <1>4, <1>5, <1>7, <1>8

\* A capture writes its own payment on the row, and the receipt binds that one.
LEMMA CaptureKeepsPayment ==
    ASSUME PaymentInvariant, [Next]_vars, NEW h \in Handlers,
           CaptureFulfils(h) \/ CaptureOversells(h)
    PROVE  PaymentOnTheRow' /\ RequestsReadTheRow'
  <1>1. PICK o \in Orders, e \in fired, types \in SUBSET AuditType :
            /\ Succeeds(h, o, e)
            /\ status[o] \in Payable
            /\ PayAndMint(h, o, e, types)
            /\ Answer(h) \/ Proceed(h, "refund_due")
            /\ UNCHANGED captured
    BY DEF CaptureFulfils, CaptureOversells, gatewayVars, AuditType
  <1>2. /\ receipt[o] = NoPayment /\ gatewayPaymentId[o] = NoPayment
        /\ gatewayPaymentId'[o] = receipt'[o]
        /\ receipt'[o] # NoPayment => receipt'[o] = captured[o]
        /\ \A x \in Orders : x # o =>
               receipt'[x] = receipt[x] /\ gatewayPaymentId'[x] = gatewayPaymentId[x]
    BY <1>1, PayAndMintBinds
  <1>3. status'[o] = "paid"
    BY <1>1 DEF PayAndMint, PaymentInvariant, MoneyInvariant, TypeOK
  <1>4. PaymentOnTheRow'
    BY <1>1, <1>2, <1>3, FinalStatuses DEF PaymentInvariant, PaymentOnTheRow, Settled
  <1>5. \A g \in Handlers : handler'[g] = handler[g] \/ handler'[g].pc \in {"idle", "refund_due"}
    BY <1>1, AnswerHandlers, ProceedHandlers DEF Idle, PaymentInvariant, MoneyInvariant
  <1>6. \A g \in Handlers : handler[g].pc # "idle" => handler[g].event.order \in Orders
    BY RunningOrder DEF PaymentInvariant, MoneyInvariant
  <1>7. \A x \in Orders : gatewayPaymentId[x] # NoPayment => gatewayPaymentId'[x] = gatewayPaymentId[x]
    BY <1>2
  <1>8. RequestsReadTheRow'
    BY <1>5, <1>6, <1>7 DEF PaymentInvariant, RequestsReadTheRow
  <1> QED BY <1>4, <1>8

\* Every other webhook leaves the payment of the row alone.
LEMMA WebhookKeepsPayment ==
    ASSUME PaymentInvariant, [Next]_vars, NEW h \in Handlers, ApplyWebhook(h)
    PROVE  PaymentOnTheRow' /\ RequestsReadTheRow'
  <1>1. CASE CaptureFulfils(h) \/ CaptureOversells(h)
    BY <1>1, CaptureKeepsPayment
  <1>2. CASE ~(CaptureFulfils(h) \/ CaptureOversells(h))
    <2>1. Answer(h) /\ UNCHANGED <<gatewayPaymentId, receipt, captured>>
      BY <1>2 DEF ApplyWebhook, RecordConflict, RecordOther, RecordUncountedDecline, CountDecline,
                  DeclineCancels, RecordWrongAmount, RecordLateCapture, RecordAlreadyPaid,
                  rowVars, proofVars, gatewayVars
    <2>2. \A g \in Handlers : RequestMoves(g)
      BY <2>1, AnswerMoves DEF PaymentInvariant, MoneyInvariant
    <2> QED BY <2>1, <2>2, PaymentKept
  <1> QED BY <1>1, <1>2

\* The refund saga reads the payment of the row and never writes it.
LEMMA RefundKeepsPayment ==
    ASSUME PaymentInvariant, [Next]_vars, NEW h \in Handlers, RefundStep(h)
    PROVE  PaymentOnTheRow' /\ RequestsReadTheRow'
  <1>1. UNCHANGED <<gatewayPaymentId, receipt, captured>>
    BY DEF RefundStep, RefundUnaddressable, AttemptRefund, GatewayRefunds, RefundCallFails,
           RecordRefundFailure, RecordRefund, rowVars, proofVars, gatewayVars
  <1>2. \A g \in Handlers : RequestMoves(g)
    <2>1. CASE Answer(h)
      BY <2>1, AnswerMoves DEF PaymentInvariant, MoneyInvariant
    <2>2. CASE AttemptRefund(h)
      <3>1. /\ handler[h].pc = "refund_due"
            /\ gatewayPaymentId[handler[h].event.order] # NoPayment
            /\ Proceed(h, "refund_call")
        BY <2>2 DEF AttemptRefund, Refunding
      <3> QED BY <3>1, ProceedHandlers DEF RequestMoves, PaymentInvariant, MoneyInvariant
    <2>3. CASE GatewayRefunds(h) \/ RefundCallFails(h)
      <3>1. /\ handler[h].pc = "refund_call"
            /\ Proceed(h, "refund_done") \/ Proceed(h, "refund_error")
        BY <2>3 DEF GatewayRefunds, RefundCallFails, Refunding
      <3>2. gatewayPaymentId[handler[h].event.order] # NoPayment
        BY <3>1 DEF PaymentInvariant, RequestsReadTheRow
      <3> QED BY <3>1, <3>2, ProceedHandlers DEF RequestMoves, PaymentInvariant, MoneyInvariant
    <2> QED BY <2>1, <2>2, <2>3
            DEF RefundStep, RefundUnaddressable, RecordRefundFailure, RecordRefund
  <1> QED BY <1>1, <1>2, PaymentKept

(* The payment id on the row is the Receipt's and the captured payment's.  *)
THEOREM PaymentInvariantHolds == Spec => []PaymentInvariant
  <1>1. Init => PaymentOnTheRow /\ RequestsReadTheRow
    BY DEF Init, PaymentOnTheRow, RequestsReadTheRow, Idle
  <1>2. PaymentInvariant /\ [Next]_vars => PaymentOnTheRow' /\ RequestsReadTheRow'
    <2> SUFFICES ASSUME PaymentInvariant, [Next]_vars
                 PROVE  PaymentOnTheRow' /\ RequestsReadTheRow'
      OBVIOUS
    <2> DEFINE Goal == PaymentOnTheRow' /\ RequestsReadTheRow'
    <2>1. ASSUME NEW o \in Orders, PlaceOrder(o) \/ CheckoutStep(o) PROVE Goal
      BY <2>1, CheckoutKeepsPayment
    <2>2. ASSUME NEW o \in Orders, NEW p \in Payments, FailPayment(o, p) \/ CompletePayment(o, p)
          PROVE  Goal
      BY <2>2, GatewayKeepsPayment
    <2>3. ASSUME NEW h \in Handlers, NEW e \in fired, Deliver(h, e) PROVE Goal
      BY <2>3, DeliverKeepsPayment
    <2>4. ASSUME NEW h \in Handlers, HandlerStep(h) PROVE Goal
      BY <2>4, WebhookKeepsPayment, RefundKeepsPayment DEF HandlerStep
    <2>5. CASE Crash
      <3>1. /\ UNCHANGED <<gatewayPaymentId, receipt, captured>>
            /\ \A g \in Handlers : handler'[g] = Idle
        BY <2>5 DEF Crash, rowVars, proofVars, gatewayVars
      <3> QED BY <3>1, PaymentKept DEF RequestMoves, Idle
    <2>6. CASE UNCHANGED vars
      BY <2>6, PaymentKept DEF RequestMoves, vars, rowVars, proofVars, gatewayVars
    <2> QED BY <2>1, <2>2, <2>3, <2>4, <2>5, <2>6 DEF Next
  <1> QED BY <1>1, <1>2, MoneyInvariantHolds, EventsTrue, PTL DEF Spec, PaymentInvariant

-----------------------------------------------------------------------------
(***************************************************************************)
(* Which steps touch which part of the books.  A step that neither applies *)
(* a capture nor records a refund moves no money; one that counts no       *)
(* decline moves no Order towards its limit.                               *)
(***************************************************************************)
LEMMA LogLeaves ==
    ASSUME TypeOK, NEW o \in Orders, NEW types, NEW T \in SUBSET AuditType, types \cap T = {},
           Log(o, types)
    PROVE  \A x \in Orders, t \in T : Count(x, t)' = Count(x, t)
  <1>1. \A x \in Orders, t \in T : Count(x, t) \in Nat
    BY DEF TypeOK, Count
  <1> QED BY <1>1, LogCount

\* Learning the link counts nothing but what it logs.
LEMMA LinkAndLogLeaves ==
    ASSUME TypeOK, NEW o \in Orders, NEW e \in Event, NEW types,
           NEW T \in SUBSET (AuditType \ {"gateway.order_linked"}), types \cap T = {},
           LinkAndLog(o, e, types)
    PROVE  \A x \in Orders, t \in T : Count(x, t)' = Count(x, t)
  <1>1. \A x \in Orders, t \in T : Count(x, t) \in Nat
    BY DEF TypeOK, Count
  <1> QED BY <1>1, LinkAndLogCount

\* What the log says about money, and about declines.
MoneyLog == {"order.paid", "receipt.issued", "order.fulfilled", "order.oversell_detected",
             "order.refunded", "receipt.refund_issued"}

DeclineLog == {"payment.declined", "order.cancelled"}

MoneyStep(h) == CaptureFulfils(h) \/ CaptureOversells(h) \/ RecordRefund(h)

DeclineStep(h) == CountDecline(h) \/ DeclineCancels(h)

\* A webhook that settles nothing: at most the gateway order id is learned.
QuietWebhook(h) ==
    \/ RecordConflict(h) \/ RecordOther(h) \/ RecordUncountedDecline(h)
    \/ RecordWrongAmount(h) \/ RecordLateCapture(h) \/ RecordAlreadyPaid(h)

\* A refund step on the way.
QuietRefund(h) ==
    \/ RefundUnaddressable(h) \/ AttemptRefund(h) \/ GatewayRefunds(h) \/ RefundCallFails(h)
    \/ RecordRefundFailure(h)

\* A step that is neither a money step nor a decline step.
PlainStep ==
    \/ \E o \in Orders : PlaceOrder(o) \/ CheckoutStep(o)
    \/ \E o \in Orders, p \in Payments : FailPayment(o, p) \/ CompletePayment(o, p)
    \/ \E h \in Handlers, e \in fired : Deliver(h, e)
    \/ \E h \in Handlers : QuietWebhook(h) \/ QuietRefund(h)
    \/ Crash
    \/ UNCHANGED vars

\* Every step is plain, settles money or counts a decline.
LEMMA StepKinds ==
    ASSUME [Next]_vars
    PROVE  PlainStep \/ \E h \in Handlers : MoneyStep(h) \/ DeclineStep(h)
  BY DEF Next, PlainStep, HandlerStep, ApplyWebhook, RefundStep, MoneyStep, DeclineStep,
         QuietWebhook, QuietRefund

\* The parts of the books plain steps leave alone.
LEMMA PlainStepsBookNothing ==
    ASSUME MoneyInvariant, PlainStep
    PROVE  /\ UNCHANGED <<gatewayPaymentId, receipt, refundReceipt, declined, shortfall, stock>>
           /\ \A x \in Orders :
                  /\ status'[x] \in Settled <=> status[x] \in Settled
                  /\ status'[x] = "refunded" <=> status[x] = "refunded"
                  /\ status'[x] = "cancelled" <=> status[x] = "cancelled"
           /\ \A x \in Orders, t \in MoneyLog \cup DeclineLog : Count(x, t)' = Count(x, t)
  <1> DEFINE Booked == MoneyLog \cup DeclineLog
             Rows == /\ UNCHANGED <<gatewayPaymentId, receipt, refundReceipt, declined, shortfall,
                                    stock>>
                     /\ \A x \in Orders :
                            /\ status'[x] \in Settled <=> status[x] \in Settled
                            /\ status'[x] = "refunded" <=> status[x] = "refunded"
                            /\ status'[x] = "cancelled" <=> status[x] = "cancelled"
             Counts0 == \A x \in Orders, t \in Booked : Count(x, t)' = Count(x, t)
  <1>0. TypeOK /\ Booked \in SUBSET (AuditType \ {"gateway.order_linked"})
    BY DEF MoneyInvariant, MoneyLog, DeclineLog, AuditType
  <1>1. ASSUME UNCHANGED logged PROVE Counts0
    BY <1>1 DEF Count
  <1>2. ASSUME NEW o \in Orders, PlaceOrder(o) \/ CheckoutStep(o) PROVE Rows /\ Counts0
    <2>1. UNCHANGED <<gatewayPaymentId, receipt, refundReceipt, declined, shortfall, stock>>
      BY <1>2 DEF PlaceOrder, CheckoutStep, AttemptLink, CreateLink, IssueLink, rowVars, proofVars
    <2>2. \/ UNCHANGED status
          \/ status[o] \in {"absent", "created"}
                /\ \E s \in Payable : status' = [status EXCEPT ![o] = s]
      BY <1>2 DEF PlaceOrder, CheckoutStep, AttemptLink, CreateLink, IssueLink, rowVars,
                  MoneyInvariant, LinkBeforeMoney, Payable
    <2>3. Rows
      BY <1>0, <2>1, <2>2 DEF TypeOK, Settled, Payable
    <2>4. \/ UNCHANGED logged
          \/ \E types \in {{"order.created"}, {"gateway.payment_link_attempted"},
                           {"gateway.payment_link_issued"}} : Log(o, types)
      BY <1>2 DEF PlaceOrder, CheckoutStep, AttemptLink, CreateLink, IssueLink, auditVars
    <2>5. \A types \in {{"order.created"}, {"gateway.payment_link_attempted"},
                        {"gateway.payment_link_issued"}} : types \cap Booked = {}
      BY DEF MoneyLog, DeclineLog
    <2> HIDE DEF Booked
    <2>6. Counts0
      BY <1>0, <1>1, <2>4, <2>5, LogLeaves
    <2> QED BY <2>3, <2>6
  <1>3. ASSUME NEW o \in Orders, NEW p \in Payments, FailPayment(o, p) \/ CompletePayment(o, p)
        PROVE  Rows /\ Counts0
    BY <1>1, <1>3 DEF FailPayment, CompletePayment, rowVars, proofVars, auditVars
  <1>4. ASSUME NEW h \in Handlers, NEW e \in fired, Deliver(h, e) PROVE Rows /\ Counts0
    BY <1>1, <1>4 DEF Deliver, Receive, ReceiveUnmatched, rowVars, proofVars, auditVars
  <1>5. ASSUME NEW h \in Handlers, QuietWebhook(h) PROVE Rows /\ Counts0
    <2>1. Rows
      BY <1>5 DEF QuietWebhook, RecordConflict, RecordOther, RecordUncountedDecline,
                  RecordWrongAmount, RecordLateCapture, RecordAlreadyPaid, rowVars, proofVars
    <2>2. UNCHANGED logged \/ \E o \in Orders, e \in fired : LinkAndLog(o, e, {})
      BY <1>5 DEF QuietWebhook, RecordConflict, RecordOther, RecordUncountedDecline,
                  RecordWrongAmount, RecordLateCapture, RecordAlreadyPaid
    <2>3. fired \subseteq Event
      BY <1>0 DEF TypeOK
    <2> HIDE DEF Booked
    <2>4. Counts0
      BY <1>0, <1>1, <2>2, <2>3, LinkAndLogLeaves
    <2> QED BY <2>1, <2>4
  <1>6. ASSUME NEW h \in Handlers, QuietRefund(h) PROVE Rows /\ Counts0
    <2>1. Rows
      BY <1>6 DEF QuietRefund, RefundUnaddressable, AttemptRefund, GatewayRefunds,
                  RefundCallFails, RecordRefundFailure, rowVars, proofVars
    <2>2. UNCHANGED logged \/ \E o \in Orders : Log(o, {"gateway.refund_attempted"})
      BY <1>6 DEF QuietRefund, RefundUnaddressable, AttemptRefund, GatewayRefunds,
                  RefundCallFails, RecordRefundFailure, auditVars
    <2>3. {"gateway.refund_attempted"} \cap Booked = {}
      BY DEF MoneyLog, DeclineLog
    <2> HIDE DEF Booked
    <2>4. Counts0
      BY <1>0, <1>1, <2>2, <2>3, LogLeaves
    <2> QED BY <2>1, <2>4
  <1>7. ASSUME Crash PROVE Rows /\ Counts0
    BY <1>1, <1>7 DEF Crash, rowVars, proofVars, auditVars
  <1>8. ASSUME UNCHANGED vars PROVE Rows /\ Counts0
    BY <1>1, <1>8 DEF vars, rowVars, proofVars, auditVars
  <1> QED BY <1>2, <1>3, <1>4, <1>5, <1>6, <1>7, <1>8 DEF PlainStep

-----------------------------------------------------------------------------
(***************************************************************************)
(* The anomalies on record only accumulate.                                *)
(***************************************************************************)
LEMMA FlagGrows ==
    ASSUME TypeOK, NEW o \in Orders, NEW reasons, Flag(o, reasons)
    PROVE  /\ \A x \in Orders : anomalies[x] \subseteq anomalies'[x]
           /\ reasons \subseteq anomalies'[o]
  BY DEF TypeOK, Flag

\* A recorded anomaly is never taken back.
LEMMA AnomaliesGrow ==
    ASSUME TypeOK, [Next]_vars
    PROVE  \A x \in Orders : anomalies[x] \subseteq anomalies'[x]
  <1> USE DEF auditVars
  <1>1. ASSUME NEW h \in Handlers, ApplyWebhook(h)
        PROVE  UNCHANGED anomalies \/ \E o \in Orders, reasons \in SUBSET AnomalyReason : Flag(o, reasons)
    BY <1>1 DEF ApplyWebhook, RecordConflict, RecordOther, RecordUncountedDecline, CountDecline,
                DeclineCancels, RecordWrongAmount, RecordLateCapture, RecordAlreadyPaid,
                CaptureFulfils, CaptureOversells, PayAndMint, AnomalyReason
  <1>2. ASSUME NEW h \in Handlers, RefundStep(h)
        PROVE  UNCHANGED anomalies \/ \E o \in Orders, reasons \in SUBSET AnomalyReason : Flag(o, reasons)
    BY <1>2 DEF RefundStep, RefundUnaddressable, AttemptRefund, GatewayRefunds, RefundCallFails,
                RecordRefundFailure, RecordRefund, AnomalyReason
  <1>3. ASSUME ~ \E h \in Handlers : HandlerStep(h) PROVE UNCHANGED anomalies
    BY <1>3 DEF Next, PlaceOrder, CheckoutStep, AttemptLink, CreateLink, IssueLink, FailPayment,
                CompletePayment, Deliver, Receive, ReceiveUnmatched, Crash, vars
  <1> QED BY <1>1, <1>2, <1>3, FlagGrows DEF HandlerStep

(***************************************************************************)
(* The gateway order id: what a webhook taught is never unlearned, and the *)
(* log has the one link event that taught it.                              *)
(***************************************************************************)
LinkIsLogged == \A o \in Orders : Count(o, "gateway.order_linked") = Once(gatewayOrderId[o] # "none")

\* The link is learnt and logged in one transaction, the first time only.
LEMMA LinkAndLogLearns ==
    ASSUME TypeOK, LinkIsLogged, NEW o \in Orders, NEW e \in Event, NEW types,
           "gateway.order_linked" \notin types, LinkAndLog(o, e, types)
    PROVE  /\ LinkIsLogged'
           /\ \A x \in Orders : gatewayOrderId[x] # "none" => gatewayOrderId'[x] = gatewayOrderId[x]
  <1> DEFINE linked == "gateway.order_linked"
  <1>0. linked \in AuditType /\ \A x \in Orders : Count(x, linked) \in Nat
    BY DEF AuditType, TypeOK, Count
  <1>1. CASE LearnsGatewayOrder(o, e)
    <2>1. /\ gatewayOrderId[o] = "none"
          /\ e.shape.gorder # "none"
          /\ gatewayOrderId' = [gatewayOrderId EXCEPT ![o] = e.shape.gorder]
          /\ Log(o, types \cup {linked})
      BY <1>1 DEF LinkAndLog, LearnsGatewayOrder
    <2>2. \A x \in Orders : Count(x, linked)' = Count(x, linked) + (IF x = o THEN 1 ELSE 0)
      BY <1>0, <2>1, LogCount
    <2>3. /\ gatewayOrderId'[o] # "none"
          /\ \A x \in Orders : x # o => gatewayOrderId'[x] = gatewayOrderId[x]
      BY <2>1 DEF TypeOK
    <2> QED BY <1>0, <2>1, <2>2, <2>3 DEF LinkIsLogged, Once
  <1>2. CASE ~LearnsGatewayOrder(o, e)
    <2>1. UNCHANGED gatewayOrderId /\ Log(o, types)
      BY <1>2 DEF LinkAndLog
    <2>2. \A x \in Orders : Count(x, linked)' = Count(x, linked)
      BY <1>0, <2>1, LogCount
    <2> QED BY <2>1, <2>2 DEF LinkIsLogged, Once
  <1> QED BY <1>1, <1>2

\* Any other log leaves the link as it was logged.
LEMMA LogKeepsLink ==
    ASSUME TypeOK, LinkIsLogged, UNCHANGED gatewayOrderId,
           \/ UNCHANGED logged
           \/ \E o \in Orders : \E types : "gateway.order_linked" \notin types /\ Log(o, types)
    PROVE  LinkIsLogged'
  <1> DEFINE linked == "gateway.order_linked"
  <1>1. \A x \in Orders : Count(x, linked)' = Count(x, linked)
    <2>1. linked \in AuditType /\ \A x \in Orders : Count(x, linked) \in Nat
      BY DEF AuditType, TypeOK, Count
    <2>2. CASE UNCHANGED logged
      BY <2>2 DEF Count
    <2>3. ASSUME NEW o \in Orders, NEW types, linked \notin types, Log(o, types)
          PROVE  \A x \in Orders : Count(x, linked)' = Count(x, linked)
      BY <2>1, <2>3, LogCount
    <2> QED BY <2>2, <2>3
  <1> QED BY <1>1 DEF LinkIsLogged, Once

\* Every step keeps a learnt link and the event that says so.
LEMMA StepLearns ==
    ASSUME TypeOK, LinkIsLogged, [Next]_vars
    PROVE  /\ LinkIsLogged'
           /\ \A x \in Orders : gatewayOrderId[x] # "none" => gatewayOrderId'[x] = gatewayOrderId[x]
  <1> DEFINE Goal == /\ LinkIsLogged'
                     /\ \A x \in Orders :
                            gatewayOrderId[x] # "none" => gatewayOrderId'[x] = gatewayOrderId[x]
  <1>0. fired \subseteq Event
    BY DEF TypeOK
  <1>1. ASSUME NEW h \in Handlers, ApplyWebhook(h) PROVE Goal
    <2>1. \/ UNCHANGED <<gatewayOrderId, logged>>
          \/ \E o \in Orders, e \in fired :
                 \E types : "gateway.order_linked" \notin types /\ LinkAndLog(o, e, types)
      <3>1. CASE CaptureFulfils(h) \/ CaptureOversells(h)
        <4>1. PICK o \in Orders, e \in fired, types \in SUBSET {"order.fulfilled", "order.oversell_detected"} :
                  PayAndMint(h, o, e, types)
          BY <3>1 DEF CaptureFulfils, CaptureOversells
        <4> DEFINE logs == types \cup {"order.paid"}
                      \cup (IF ReceiptPayment(h, e) = NoPayment THEN {} ELSE {"receipt.issued"})
        <4>2. LinkAndLog(o, e, logs) /\ "gateway.order_linked" \notin logs
          BY <4>1 DEF PayAndMint
        <4> QED BY <4>2
      <3>2. CASE ~(CaptureFulfils(h) \/ CaptureOversells(h))
        <4>1. \/ UNCHANGED <<gatewayOrderId, logged>>
              \/ \E o \in Orders, e \in fired :
                     \/ LinkAndLog(o, e, {})
                     \/ LinkAndLog(o, e, {"payment.declined"})
                     \/ LinkAndLog(o, e, {"payment.declined", "order.cancelled"})
          BY <1>1, <3>2 DEF ApplyWebhook, RecordConflict, RecordOther, RecordUncountedDecline,
                  CountDecline, DeclineCancels, RecordWrongAmount, RecordLateCapture,
                  RecordAlreadyPaid, rowVars
        <4>2. /\ "gateway.order_linked" \notin {}
              /\ "gateway.order_linked" \notin {"payment.declined"}
              /\ "gateway.order_linked" \notin {"payment.declined", "order.cancelled"}
          OBVIOUS
        <4> QED BY <4>1, <4>2
      <3> QED BY <3>1, <3>2
    <2>2. CASE UNCHANGED <<gatewayOrderId, logged>>
      BY <2>2, LogKeepsLink
    <2>3. ASSUME NEW o \in Orders, NEW e \in fired, NEW types,
                 "gateway.order_linked" \notin types, LinkAndLog(o, e, types)
          PROVE  Goal
      BY <1>0, <2>3, LinkAndLogLearns
    <2> QED BY <2>1, <2>2, <2>3
  <1>2. ASSUME UNCHANGED gatewayOrderId,
               \/ UNCHANGED logged
               \/ \E o \in Orders : \E types \in {
                      {"order.created"}, {"gateway.payment_link_attempted"},
                      {"gateway.payment_link_issued"}, {"gateway.refund_attempted"},
                      {"order.refunded"}, {"order.refunded", "receipt.refund_issued"}} :
                          Log(o, types)
        PROVE  Goal
    BY <1>2, LogKeepsLink
  <1>3. ASSUME NEW o \in Orders, PlaceOrder(o) \/ CheckoutStep(o) PROVE Goal
    BY <1>2, <1>3 DEF PlaceOrder, CheckoutStep, AttemptLink, CreateLink, IssueLink, rowVars, auditVars
  <1>4. ASSUME NEW o \in Orders, NEW p \in Payments, FailPayment(o, p) \/ CompletePayment(o, p)
        PROVE  Goal
    BY <1>2, <1>4 DEF FailPayment, CompletePayment, rowVars, auditVars
  <1>5. ASSUME NEW h \in Handlers, NEW e \in fired, Deliver(h, e) PROVE Goal
    BY <1>2, <1>5 DEF Deliver, Receive, ReceiveUnmatched, rowVars, auditVars
  <1>6. ASSUME NEW h \in Handlers, RefundStep(h) PROVE Goal
    <2>1. CASE RecordRefund(h)
      <3>1. PICK o \in Orders :
                /\ Log(o, {"order.refunded"}
                           \cup (IF receipt[o] = NoPayment THEN {} ELSE {"receipt.refund_issued"}))
                /\ UNCHANGED gatewayOrderId
        BY <2>1 DEF RecordRefund
      <3>2. \/ Log(o, {"order.refunded"})
            \/ Log(o, {"order.refunded", "receipt.refund_issued"})
        <4>1. {"order.refunded"} \cup {} = {"order.refunded"}
          OBVIOUS
        <4>2. {"order.refunded"} \cup {"receipt.refund_issued"}
                  = {"order.refunded", "receipt.refund_issued"}
          OBVIOUS
        <4> QED BY <3>1, <4>1, <4>2
      <3> QED BY <1>2, <3>1, <3>2
    <2>2. CASE ~RecordRefund(h)
      BY <1>2, <1>6, <2>2 DEF RefundStep, RefundUnaddressable, AttemptRefund, GatewayRefunds,
                  RefundCallFails, RecordRefundFailure, rowVars, auditVars
    <2> QED BY <2>1, <2>2
  <1>7. CASE Crash
    BY <1>2, <1>7 DEF Crash, rowVars, auditVars
  <1>8. CASE UNCHANGED vars
    BY <1>2, <1>8 DEF vars, rowVars, auditVars
  <1> QED BY <1>1, <1>3, <1>4, <1>5, <1>6, <1>7, <1>8 DEF Next, HandlerStep

(* The gateway order id an Order learned is the only one it has, and the   *)
(* log shows the one event that taught it.                                 *)
LEMMA LinkLogged == Spec => []LinkIsLogged
  <1>1. Init => LinkIsLogged
    BY DEF Init, LinkIsLogged, Count, Once, AuditType
  <1>2. TypeOK /\ LinkIsLogged /\ [Next]_vars => LinkIsLogged'
    BY StepLearns
  <1> QED BY <1>1, <1>2, TypeCorrect, PTL DEF Spec

-----------------------------------------------------------------------------
(***************************************************************************)
(* What the two kinds of money steps do to the books.                      *)
(***************************************************************************)
\* A capture that is applied, with the events it logs.
Captures(h, o, types) ==
    /\ handler[h].pc = "matched"
    /\ status[o] \in Payable
    /\ status' = [status EXCEPT ![o] = "paid"]
    /\ types \in SUBSET AuditType
    /\ types \cap {"payment.declined", "order.cancelled", "order.refunded",
                   "receipt.refund_issued", "gateway.order_linked"} = {}
    /\ "order.paid" \in types
    /\ "receipt.issued" \in types <=> receipt'[o] # NoPayment
    /\ receipt[o] = NoPayment
    /\ receipt'[o] = NoPayment => "missing_gateway_payment_id" \in anomalies'[o]
    /\ \A x \in Orders : x # o => receipt'[x] = receipt[x]
    /\ UNCHANGED <<declined, refundReceipt, failed>>
    /\ \A x \in Orders, t \in AuditType \ {"gateway.order_linked"} :
           Count(x, t)' = Count(x, t) + (IF x = o /\ t \in types THEN 1 ELSE 0)

\* What a capture changes on the row and in the log, in the terms of the match.
LEMMA CaptureBooks ==
    ASSUME PaymentInvariant, NEW h \in Handlers, CaptureFulfils(h) \/ CaptureOversells(h)
    PROVE  \E o \in Orders : \E types : Captures(h, o, types)
  <1>0. TypeOK
    BY DEF PaymentInvariant, MoneyInvariant
  <1>1. PICK o \in Orders, e \in fired, kind \in {"order.fulfilled", "order.oversell_detected"} :
            /\ Succeeds(h, o, e)
            /\ status[o] \in Payable
            /\ PayAndMint(h, o, e, {kind})
            /\ UNCHANGED <<declined, refundReceipt, failed>>
    BY DEF CaptureFulfils, CaptureOversells, gatewayVars
  <1> DEFINE types == {kind} \cup {"order.paid"}
                      \cup (IF ReceiptPayment(h, e) = NoPayment THEN {} ELSE {"receipt.issued"})
             missing == IF ReceiptPayment(h, e) = NoPayment
                        THEN {"missing_gateway_payment_id"} ELSE {}
  <1>2. e \in Event /\ handler[h].pc = "matched"
    BY <1>0, <1>1 DEF TypeOK, Succeeds, Applying
  <1>3. /\ receipt[o] = NoPayment
        /\ receipt'[o] = ReceiptPayment(h, e)
        /\ \A x \in Orders : x # o => receipt'[x] = receipt[x]
    BY <1>1, PayAndMintBinds
  <1>4. /\ status' = [status EXCEPT ![o] = "paid"]
        /\ Flag(o, missing)
        /\ LinkAndLog(o, e, types)
    BY <1>1 DEF PayAndMint
  <1>5. /\ types \in SUBSET AuditType
        /\ types \cap {"payment.declined", "order.cancelled", "order.refunded",
                       "receipt.refund_issued", "gateway.order_linked"} = {}
        /\ "order.paid" \in types
        /\ "receipt.issued" \in types <=> ReceiptPayment(h, e) # NoPayment
    BY DEF AuditType
  <1>6. receipt'[o] = NoPayment => "missing_gateway_payment_id" \in anomalies'[o]
    BY <1>0, <1>3, <1>4, FlagGrows
  <1> HIDE DEF types, missing
  <1>7. \A x \in Orders, t \in AuditType \ {"gateway.order_linked"} :
            Count(x, t)' = Count(x, t) + (IF x = o /\ t \in types THEN 1 ELSE 0)
    BY <1>0, <1>2, <1>4, LinkAndLogCount
  <1>8. Captures(h, o, types)
    BY <1>1, <1>2, <1>3, <1>4, <1>5, <1>6, <1>7 DEF Captures
  <1> QED BY <1>8

\* A refund that is recorded, of an Order whose Receipt exists.
Refunds(h, o) ==
    /\ handler[h].pc = "refund_done"
    /\ status[o] = "paid"
    /\ status' = [status EXCEPT ![o] = "refunded"]
    /\ receipt[o] # NoPayment
    /\ refundReceipt' = [refundReceipt EXCEPT ![o] = TRUE]
    /\ UNCHANGED <<receipt, declined, failed>>
    /\ \A x \in Orders, t \in AuditType :
           Count(x, t)' = Count(x, t) + (IF x = o /\ t \in {"order.refunded", "receipt.refund_issued"}
                                         THEN 1 ELSE 0)

\* What a recorded refund changes on the row and in the log.
LEMMA RefundBooks ==
    ASSUME PaymentInvariant, NEW h \in Handlers, RecordRefund(h)
    PROVE  \E o \in Orders : Refunds(h, o)
  <1>0. TypeOK
    BY DEF PaymentInvariant, MoneyInvariant
  <1>1. PICK o \in Orders :
            /\ handler[h].pc = "refund_done"
            /\ o = handler[h].event.order
            /\ status[o] = "paid"
            /\ status' = [status EXCEPT ![o] = "refunded"]
            /\ refundReceipt' = [refundReceipt EXCEPT ![o] = receipt[o] # NoPayment]
            /\ Log(o, {"order.refunded"}
                       \cup (IF receipt[o] = NoPayment THEN {} ELSE {"receipt.refund_issued"}))
            /\ UNCHANGED <<receipt, declined, failed>>
    BY DEF RecordRefund, Refunding, gatewayVars
  <1>2. receipt[o] # NoPayment
    BY <1>1 DEF PaymentInvariant, PaymentOnTheRow, RequestsReadTheRow
  <1>3. {"order.refunded"} \cup (IF receipt[o] = NoPayment THEN {} ELSE {"receipt.refund_issued"})
            = {"order.refunded", "receipt.refund_issued"}
    BY <1>2
  <1>4. Log(o, {"order.refunded", "receipt.refund_issued"})
    BY <1>1, <1>3
  <1>5. \A x \in Orders, t \in AuditType :
            Count(x, t)' = Count(x, t) + (IF x = o /\ t \in {"order.refunded", "receipt.refund_issued"}
                                          THEN 1 ELSE 0)
    BY <1>0, <1>4, LogCount
  <1>6. refundReceipt' = [refundReceipt EXCEPT ![o] = TRUE]
    BY <1>1, <1>2
  <1> QED BY <1>1, <1>2, <1>5, <1>6 DEF Refunds

-----------------------------------------------------------------------------
(***************************************************************************)
(* Receipts.                                                               *)
(***************************************************************************)
LEMMA StepKeepsReceipts ==
    ASSUME PaymentInvariant, PaymentInvariant', ReceiptsBindTheCapture, [Next]_vars
    PROVE  ReceiptsBindTheCapture'
  <1>0. /\ TypeOK
        /\ \A x \in Orders : anomalies[x] \subseteq anomalies'[x]
        /\ \A x \in Orders :
               receipt'[x] # NoPayment => receipt'[x] = captured'[x] /\ gatewayPaymentId'[x] = receipt'[x]
    BY AnomaliesGrow DEF PaymentInvariant, PaymentOnTheRow, MoneyInvariant
  <1>1. CASE PlainStep
    <2>1. /\ UNCHANGED <<receipt, refundReceipt>>
          /\ \A x \in Orders :
                 /\ status'[x] \in Settled <=> status[x] \in Settled
                 /\ status'[x] = "refunded" <=> status[x] = "refunded"
      BY <1>1, PlainStepsBookNothing DEF PaymentInvariant
    <2> QED BY <1>0, <2>1 DEF ReceiptsBindTheCapture, Settled
  <1>2. ASSUME NEW h \in Handlers, DeclineStep(h) PROVE ReceiptsBindTheCapture'
    <2>1. /\ UNCHANGED <<receipt, refundReceipt>>
          /\ \/ UNCHANGED status
             \/ \E o \in Orders : status[o] \in Payable /\ status' = [status EXCEPT ![o] = "cancelled"]
      BY <1>2 DEF DeclineStep, CountDecline, DeclineCancels, Counts, proofVars
    <2>2. \A x \in Orders :
              /\ status'[x] \in Settled <=> status[x] \in Settled
              /\ status'[x] = "refunded" <=> status[x] = "refunded"
      BY <1>0, <2>1 DEF TypeOK, Settled, Payable
    <2> QED BY <1>0, <2>1, <2>2 DEF ReceiptsBindTheCapture, Settled
  <1>3. ASSUME NEW h \in Handlers, CaptureFulfils(h) \/ CaptureOversells(h)
        PROVE  ReceiptsBindTheCapture'
    <2>1. PICK o \in Orders : \E types : Captures(h, o, types)
      BY <1>3, CaptureBooks
    <2>2. /\ status[o] \in Payable
          /\ status'[o] = "paid"
          /\ \A x \in Orders : x # o => status'[x] = status[x] /\ receipt'[x] = receipt[x]
          /\ receipt'[o] = NoPayment => "missing_gateway_payment_id" \in anomalies'[o]
          /\ UNCHANGED refundReceipt
      BY <1>0, <2>1 DEF Captures, TypeOK
    <2> QED BY <1>0, <2>2 DEF ReceiptsBindTheCapture, Payable
  <1>4. ASSUME NEW h \in Handlers, RecordRefund(h) PROVE ReceiptsBindTheCapture'
    <2>1. PICK o \in Orders : Refunds(h, o)
      BY <1>4, RefundBooks
    <2>2. /\ status'[o] = "refunded" /\ refundReceipt'[o] /\ receipt[o] # NoPayment
          /\ \A x \in Orders : x # o => status'[x] = status[x] /\ refundReceipt'[x] = refundReceipt[x]
          /\ UNCHANGED receipt
      BY <1>0, <2>1 DEF Refunds, TypeOK
    <2> QED BY <1>0, <2>2 DEF ReceiptsBindTheCapture
  <1> QED BY <1>1, <1>2, <1>3, <1>4, StepKinds DEF MoneyStep

(* The Receipt names the payment the gateway captured, a refund receipt    *)
(* exists exactly for a refunded Order and has a Receipt to reference, and *)
(* a paid Order without a Receipt is flagged.                              *)
THEOREM ReceiptsBind == Spec => []ReceiptsBindTheCapture
  <1>1. Init => ReceiptsBindTheCapture
    BY DEF Init, ReceiptsBindTheCapture
  <1>2. PaymentInvariant /\ PaymentInvariant' /\ ReceiptsBindTheCapture /\ [Next]_vars
            => ReceiptsBindTheCapture'
    BY StepKeepsReceipts
  <1> QED BY <1>1, <1>2, PaymentInvariantHolds, PTL DEF Spec

-----------------------------------------------------------------------------
(***************************************************************************)
(* The decline limit.                                                      *)
(***************************************************************************)
\* A decline that is counted, and what it leads to.
LEMMA DeclineBooks ==
    ASSUME TypeOK, EventsAreTrue, NEW h \in Handlers, DeclineStep(h)
    PROVE  \E o \in Orders, p \in Payments :
               /\ status[o] \in Payable
               /\ p \in failed[o]
               /\ \A i \in 1..Len(declined[o]) : declined[o][i] # p
               /\ declined' = [declined EXCEPT ![o] = Append(@, p)]
               /\ \/ /\ Len(declined[o]) + 1 < PaymentAttemptLimit
                     /\ UNCHANGED status
                  \/ /\ Len(declined[o]) + 1 >= PaymentAttemptLimit
                     /\ status' = [status EXCEPT ![o] = "cancelled"]
               /\ UNCHANGED <<failed, receipt, refundReceipt>>
               /\ \A x \in Orders, t \in MoneyLog \cup DeclineLog :
                      Count(x, t)' =
                          Count(x, t) + (IF x = o /\ \/ t = "payment.declined"
                                                     \/ t = "order.cancelled" /\ status' # status
                                         THEN 1 ELSE 0)
  <1>1. PICK o \in Orders, e \in fired :
            /\ Applying(h, o, e)
            /\ e.shape.kind = "payment_failed"
            /\ Counts(o, e)
            /\ declined' = [declined EXCEPT ![o] = Append(@, PaymentId(e))]
            /\ \/ /\ ~Exhausts(o)
                  /\ UNCHANGED status
                  /\ LinkAndLog(o, e, {"payment.declined"})
               \/ /\ Exhausts(o)
                  /\ status' = [status EXCEPT ![o] = "cancelled"]
                  /\ LinkAndLog(o, e, {"payment.declined", "order.cancelled"})
            /\ UNCHANGED <<failed, receipt, refundReceipt>>
    BY DEF DeclineStep, CountDecline, DeclineCancels, gatewayVars, proofVars
  <1>2. /\ status[o] \in Payable
        /\ PaymentId(e) \in Payments
        /\ PaymentId(e) = e.payment
        /\ e.order = o
        /\ e \in Event
    BY <1>1 DEF Counts, PaymentId, Applying, TypeOK, Event
  <1>3. PaymentId(e) \in failed[o]
    BY <1>1, <1>2 DEF EventsAreTrue
  <1>4. \A i \in 1..Len(declined[o]) : declined[o][i] # PaymentId(e)
    BY <1>1 DEF Counts, Counted
  <1>5. /\ ~Exhausts(o) => Len(declined[o]) + 1 < PaymentAttemptLimit
        /\ Exhausts(o) => Len(declined[o]) + 1 >= PaymentAttemptLimit
    BY OrdersAssumption DEF Exhausts, TypeOK
  <1>6. \A t \in MoneyLog \cup DeclineLog :
            /\ t \in AuditType \ {"gateway.order_linked"}
            /\ t \in {"payment.declined", "order.cancelled"} <=>
                   t = "payment.declined" \/ t = "order.cancelled"
    BY DEF MoneyLog, DeclineLog, AuditType
  <1>7. CASE ~Exhausts(o)
    <2>1. /\ UNCHANGED status
          /\ LinkAndLog(o, e, {"payment.declined"})
      BY <1>1, <1>7
    <2>2. \A x \in Orders, t \in AuditType \ {"gateway.order_linked"} :
              Count(x, t)' = Count(x, t) + (IF x = o /\ t \in {"payment.declined"} THEN 1 ELSE 0)
      BY <1>2, <2>1, LinkAndLogCount
    <2> QED BY <1>1, <1>2, <1>3, <1>4, <1>5, <1>6, <1>7, <2>1, <2>2, ZenonT(60)
  <1>8. CASE Exhausts(o)
    <2>1. /\ status' = [status EXCEPT ![o] = "cancelled"]
          /\ LinkAndLog(o, e, {"payment.declined", "order.cancelled"})
      BY <1>1, <1>8
    <2>2. \A x \in Orders, t \in AuditType \ {"gateway.order_linked"} :
              Count(x, t)' = Count(x, t)
                  + (IF x = o /\ t \in {"payment.declined", "order.cancelled"} THEN 1 ELSE 0)
      BY <1>2, <2>1, LinkAndLogCount
    <2>3. status' # status
      BY <1>2, <2>1 DEF TypeOK, Payable
    <2>4. \A x \in Orders, t \in MoneyLog \cup DeclineLog :
              Count(x, t)' =
                  Count(x, t) + (IF x = o /\ \/ t = "payment.declined"
                                             \/ t = "order.cancelled" /\ status' # status
                                 THEN 1 ELSE 0)
      BY <1>6, <2>2, <2>3
    <2>5. Len(declined[o]) + 1 >= PaymentAttemptLimit
      BY <1>5, <1>8
    <2> QED BY <1>1, <1>2, <1>3, <1>4, <2>1, <2>4, <2>5
  <1> QED BY <1>7, <1>8

\* The gateway never takes a failed attempt back.
LEMMA FailedGrows ==
    ASSUME TypeOK, [Next]_vars
    PROVE  \A x \in Orders : failed[x] \subseteq failed'[x]
  <1>1. ASSUME NEW o \in Orders, NEW p \in Payments, FailPayment(o, p) \/ CompletePayment(o, p)
        PROVE  \A x \in Orders : failed[x] \subseteq failed'[x]
    BY <1>1, ZenonT(60) DEF FailPayment, CompletePayment, TypeOK
  <1>2. CASE UNCHANGED vars
    BY <1>2 DEF vars, gatewayVars
  <1> QED BY <1>1, <1>2, ServerStepsFireNothing DEF Next

\* Every step keeps an order that reached the limit cancelled.
LEMMA StepKeepsLimit ==
    ASSUME PaymentInvariant, CancelledAtTheLimit, [Next]_vars
    PROVE  CancelledAtTheLimit'
  <1>0. /\ TypeOK
        /\ \A x \in Orders : failed[x] \subseteq failed'[x]
    BY FailedGrows DEF PaymentInvariant, MoneyInvariant
  <1>1. ASSUME UNCHANGED declined,
               \A x \in Orders : status'[x] = "cancelled" <=> status[x] = "cancelled"
        PROVE  CancelledAtTheLimit'
    BY <1>0, <1>1 DEF CancelledAtTheLimit
  <1>2. CASE PlainStep
    BY <1>1, <1>2, PlainStepsBookNothing DEF PaymentInvariant
  <1>3. ASSUME NEW h \in Handlers, CaptureFulfils(h) \/ CaptureOversells(h)
        PROVE  CancelledAtTheLimit'
    <2>1. PICK o \in Orders : \E types : Captures(h, o, types)
      BY <1>3, CaptureBooks
    <2> QED BY <1>0, <1>1, <2>1 DEF Captures, Payable, TypeOK
  <1>4. ASSUME NEW h \in Handlers, RecordRefund(h) PROVE CancelledAtTheLimit'
    <2>1. PICK o \in Orders : Refunds(h, o)
      BY <1>4, RefundBooks
    <2> QED BY <1>0, <1>1, <2>1 DEF Refunds, TypeOK
  <1>5. ASSUME NEW h \in Handlers, DeclineStep(h) PROVE CancelledAtTheLimit'
    <2>1. PICK o \in Orders, p \in Payments :
              /\ status[o] \in Payable
              /\ p \in failed[o]
              /\ \A i \in 1..Len(declined[o]) : declined[o][i] # p
              /\ declined' = [declined EXCEPT ![o] = Append(@, p)]
              /\ \/ /\ Len(declined[o]) + 1 < PaymentAttemptLimit
                    /\ UNCHANGED status
                 \/ /\ Len(declined[o]) + 1 >= PaymentAttemptLimit
                    /\ status' = [status EXCEPT ![o] = "cancelled"]
              /\ UNCHANGED failed
      BY <1>0, <1>5, DeclineBooks DEF PaymentInvariant
    <2>2. /\ declined[o] \in Seq(Payments)
          /\ Len(declined[o]) \in Nat
          /\ PaymentAttemptLimit \in Nat
      BY <1>0, OrdersAssumption DEF TypeOK
    <2>3. Len(declined[o]) < PaymentAttemptLimit
      BY <2>1, <2>2 DEF CancelledAtTheLimit, Payable
    <2>4. /\ declined'[o] = Append(declined[o], p)
          /\ \A x \in Orders : x # o => declined'[x] = declined[x] /\ status'[x] = status[x]
      BY <1>0, <2>1 DEF TypeOK
    <2>5. /\ Len(declined'[o]) = Len(declined[o]) + 1
          /\ \A i \in 1..Len(declined[o]) : declined'[o][i] = declined[o][i]
          /\ declined'[o][Len(declined[o]) + 1] = p
      BY <2>2, <2>4
    <2>6. \A i, j \in 1..Len(declined'[o]) : declined'[o][i] = declined'[o][j] => i = j
      BY <2>1, <2>2, <2>5 DEF CancelledAtTheLimit
    <2>7. \A i \in 1..Len(declined'[o]) : declined'[o][i] \in failed'[o]
      BY <2>1, <2>2, <2>5 DEF CancelledAtTheLimit
    <2>8. /\ status'[o] = "cancelled" <=> Len(declined'[o]) = PaymentAttemptLimit
          /\ Len(declined'[o]) <= PaymentAttemptLimit
      BY <1>0, <2>1, <2>2, <2>3, <2>5 DEF Payable, TypeOK
    <2> QED BY <2>1, <2>4, <2>6, <2>7, <2>8 DEF CancelledAtTheLimit
  <1> QED BY <1>2, <1>3, <1>4, <1>5, StepKinds DEF MoneyStep

(* Counted declines are distinct attempts that really failed; an Order is  *)
(* cancelled exactly when they use up the limit.                           *)
THEOREM LimitCancels == Spec => []CancelledAtTheLimit
  <1>1. Init => CancelledAtTheLimit
    BY OrdersAssumption DEF Init, CancelledAtTheLimit
  <1>2. PaymentInvariant /\ CancelledAtTheLimit /\ [Next]_vars => CancelledAtTheLimit'
    BY StepKeepsLimit
  <1> QED BY <1>1, <1>2, PaymentInvariantHolds, PTL DEF Spec

-----------------------------------------------------------------------------
(***************************************************************************)
(* The audit log against the rows.                                         *)
(***************************************************************************)
LEMMA StepKeepsLog ==
    ASSUME PaymentInvariant, LinkIsLogged', ReceiptsBindTheCapture, LogMatchesRows, [Next]_vars
    PROVE  LogMatchesRows'
  <1> DEFINE Types == MoneyLog \cup DeclineLog
  <1>0. /\ TypeOK
        /\ Types \subseteq AuditType \ {"gateway.order_linked"}
        /\ \A x \in Orders, t \in Types : Count(x, t) \in Nat
        /\ \A x \in Orders : declined[x] \in Seq(Payments) /\ Len(declined[x]) \in Nat
    <2>1. TypeOK
      BY DEF PaymentInvariant, MoneyInvariant
    <2>2. Types \subseteq AuditType \ {"gateway.order_linked"}
      BY DEF MoneyLog, DeclineLog, AuditType
    <2>3. \A x \in Orders, t \in AuditType : Count(x, t) \in Nat
      BY <2>1 DEF TypeOK, Count
    <2>4. \A x \in Orders : declined[x] \in Seq(Payments) /\ Len(declined[x]) \in Nat
      BY <2>1 DEF TypeOK
    <2> QED BY <2>1, <2>2, <2>3, <2>4
  <1>1. ASSUME NEW x \in Orders,
               /\ Count(x, "order.paid")' = Once(status[x] \in {"paid", "refunded"})'
               /\ Count(x, "order.cancelled")' = Once(status[x] = "cancelled")'
               /\ Count(x, "order.refunded")' = Once(status[x] = "refunded")'
               /\ Count(x, "payment.declined")' = Len(declined'[x])
               /\ Count(x, "receipt.issued")' = Once(receipt[x] # NoPayment)'
               /\ Count(x, "receipt.refund_issued")' = Once(refundReceipt[x])'
        PROVE  LogMatchesRows!(x)'
    BY <1>1 DEF LinkIsLogged
  <1>2. ASSUME NEW x \in Orders,
               /\ status'[x] \in Settled <=> status[x] \in Settled
               /\ status'[x] = "refunded" <=> status[x] = "refunded"
               /\ status'[x] = "cancelled" <=> status[x] = "cancelled"
               /\ declined'[x] = declined[x]
               /\ receipt'[x] = receipt[x]
               /\ refundReceipt'[x] = refundReceipt[x]
               /\ \A t \in Types : Count(x, t)' = Count(x, t)
        PROVE  LogMatchesRows!(x)'
    BY <1>1, <1>2 DEF LogMatchesRows, Once, Settled, MoneyLog, DeclineLog
  <1>3. CASE PlainStep
    <2>1. \A x \in Orders : LogMatchesRows!(x)'
      BY <1>2, <1>3, PlainStepsBookNothing DEF PaymentInvariant
    <2> QED BY <2>1 DEF LogMatchesRows
  <1>4. ASSUME NEW h \in Handlers, CaptureFulfils(h) \/ CaptureOversells(h)
        PROVE  LogMatchesRows'
    <2>1. PICK o \in Orders : \E types : Captures(h, o, types)
      BY <1>4, CaptureBooks
    <2>2. PICK types : Captures(h, o, types)
      BY <2>1
    <2>3. /\ status[o] \in Payable /\ status'[o] = "paid"
          /\ receipt[o] = NoPayment
          /\ \A x \in Orders : x # o => status'[x] = status[x] /\ receipt'[x] = receipt[x]
          /\ UNCHANGED <<declined, refundReceipt>>
      BY <1>0, <2>2 DEF Captures, TypeOK
    <2>4. \A x \in Orders, t \in Types :
              Count(x, t)' = Count(x, t) + (IF x = o /\ t \in types THEN 1 ELSE 0)
      BY <1>0, <2>2 DEF Captures
    <2>5. /\ Count(o, "order.paid")' = Count(o, "order.paid") + 1
          /\ Count(o, "order.cancelled")' = Count(o, "order.cancelled")
          /\ Count(o, "order.refunded")' = Count(o, "order.refunded")
          /\ Count(o, "payment.declined")' = Count(o, "payment.declined")
          /\ Count(o, "receipt.issued")' = Count(o, "receipt.issued") + Once(receipt[o] # NoPayment)'
          /\ Count(o, "receipt.refund_issued")' = Count(o, "receipt.refund_issued")
      <3>1. /\ "order.paid" \in types
            /\ types \cap {"payment.declined", "order.cancelled", "order.refunded",
                           "receipt.refund_issued"} = {}
            /\ "receipt.issued" \in types <=> receipt'[o] # NoPayment
        BY <2>2 DEF Captures
      <3> QED BY <1>0, <2>4, <3>1 DEF MoneyLog, DeclineLog, Once
    <2>6. LogMatchesRows!(o)'
      BY <1>1, <2>3, <2>5 DEF LogMatchesRows, Once, Payable
    <2>7. \A x \in Orders : x # o => LogMatchesRows!(x)'
      <3> SUFFICES ASSUME NEW x \in Orders, x # o PROVE LogMatchesRows!(x)'
        OBVIOUS
      <3>1. \A t \in Types : Count(x, t)' = Count(x, t)
        BY <1>0, <2>4
      <3> HIDE DEF Types
      <3> QED BY <1>2, <2>3, <3>1
    <2> QED BY <2>6, <2>7 DEF LogMatchesRows
  <1>5. ASSUME NEW h \in Handlers, RecordRefund(h) PROVE LogMatchesRows'
    <2>1. PICK o \in Orders : Refunds(h, o)
      BY <1>5, RefundBooks
    <2>2. /\ status[o] = "paid" /\ status'[o] = "refunded"
          /\ ~refundReceipt[o] /\ refundReceipt'[o]
          /\ \A x \in Orders : x # o => status'[x] = status[x] /\ refundReceipt'[x] = refundReceipt[x]
          /\ UNCHANGED <<declined, receipt>>
      BY <1>0, <2>1 DEF Refunds, TypeOK, ReceiptsBindTheCapture
    <2>3. \A x \in Orders, t \in Types :
              Count(x, t)' = Count(x, t) + (IF x = o /\ t \in {"order.refunded", "receipt.refund_issued"}
                                            THEN 1 ELSE 0)
      BY <1>0, <2>1 DEF Refunds
    <2>4. /\ Count(o, "order.paid")' = Count(o, "order.paid")
          /\ Count(o, "order.cancelled")' = Count(o, "order.cancelled")
          /\ Count(o, "order.refunded")' = Count(o, "order.refunded") + 1
          /\ Count(o, "payment.declined")' = Count(o, "payment.declined")
          /\ Count(o, "receipt.issued")' = Count(o, "receipt.issued")
          /\ Count(o, "receipt.refund_issued")' = Count(o, "receipt.refund_issued") + 1
      BY <1>0, <2>3 DEF MoneyLog, DeclineLog
    <2>5. LogMatchesRows!(o)'
      BY <1>1, <2>2, <2>4 DEF LogMatchesRows, Once
    <2>6. \A x \in Orders : x # o => LogMatchesRows!(x)'
      <3> SUFFICES ASSUME NEW x \in Orders, x # o PROVE LogMatchesRows!(x)'
        OBVIOUS
      <3>1. \A t \in Types : Count(x, t)' = Count(x, t)
        BY <1>0, <2>3
      <3> HIDE DEF Types
      <3> QED BY <1>2, <2>2, <3>1
    <2> QED BY <2>5, <2>6 DEF LogMatchesRows
  <1>6. ASSUME NEW h \in Handlers, DeclineStep(h) PROVE LogMatchesRows'
    <2>1. PICK o \in Orders, p \in Payments :
              /\ status[o] \in Payable
              /\ declined' = [declined EXCEPT ![o] = Append(@, p)]
              /\ \/ UNCHANGED status
                 \/ status' = [status EXCEPT ![o] = "cancelled"]
              /\ UNCHANGED <<receipt, refundReceipt>>
              /\ \A x \in Orders, t \in Types :
                     Count(x, t)' =
                         Count(x, t) + (IF x = o /\ \/ t = "payment.declined"
                                                    \/ t = "order.cancelled" /\ status' # status
                                        THEN 1 ELSE 0)
      BY <1>0, <1>6, DeclineBooks DEF PaymentInvariant
    <2>2. /\ Len(declined'[o]) = Len(declined[o]) + 1
          /\ status' # status <=> status'[o] = "cancelled"
          /\ status'[o] \in Payable \cup {"cancelled"}
          /\ \A x \in Orders : x # o => declined'[x] = declined[x] /\ status'[x] = status[x]
      BY <1>0, <2>1 DEF TypeOK, Payable
    <2>3. /\ Count(o, "order.paid")' = Count(o, "order.paid")
          /\ Count(o, "order.cancelled")' = Count(o, "order.cancelled") + Once(status' # status)
          /\ Count(o, "order.refunded")' = Count(o, "order.refunded")
          /\ Count(o, "payment.declined")' = Count(o, "payment.declined") + 1
          /\ Count(o, "receipt.issued")' = Count(o, "receipt.issued")
          /\ Count(o, "receipt.refund_issued")' = Count(o, "receipt.refund_issued")
      BY <1>0, <2>1 DEF MoneyLog, DeclineLog, Once
    <2>4. LogMatchesRows!(o)'
      BY <1>1, <2>1, <2>2, <2>3 DEF LogMatchesRows, Once, Payable
    <2>5. \A x \in Orders : x # o => LogMatchesRows!(x)'
      <3> SUFFICES ASSUME NEW x \in Orders, x # o PROVE LogMatchesRows!(x)'
        OBVIOUS
      <3>1. \A t \in Types : Count(x, t)' = Count(x, t)
        BY <1>0, <2>1
      <3> HIDE DEF Types
      <3> QED BY <1>2, <2>1, <2>2, <3>1
    <2> QED BY <2>4, <2>5 DEF LogMatchesRows
  <1> QED BY <1>3, <1>4, <1>5, <1>6, StepKinds DEF MoneyStep

(* The log shows each transition of an Order exactly once, and exactly when*)
(* the row shows it, whatever was delivered again or out of order.         *)
THEOREM LogMatches == Spec => []LogMatchesRows
  <1>1. Init => LogMatchesRows
    BY DEF Init, LogMatchesRows, Count, Once, AuditType
  <1>2. /\ PaymentInvariant /\ LinkIsLogged' /\ ReceiptsBindTheCapture
        /\ LogMatchesRows /\ [Next]_vars
        => LogMatchesRows'
    BY StepKeepsLog
  <1> QED BY <1>1, <1>2, PaymentInvariantHolds, LinkLogged, ReceiptsBind, PTL DEF Spec

-----------------------------------------------------------------------------
(***************************************************************************)
(* Captures that were answered.                                            *)
(***************************************************************************)
Accounted(e) ==
    \/ status[e.order] \in {"paid", "refunded"}
    \/ e \in unmatched
    \/ status[e.order] = "cancelled" /\ "payment_after_cancellation" \in anomalies[e.order]
    \/ anomalies[e.order] \cap {"gateway_order_id_conflict", "amount_missing",
                                "amount_mismatch"} # {}

\* What is accounted for stays so.
LEMMA AccountedStays ==
    ASSUME MoneyInvariant, [Next]_vars, unmatched \subseteq unmatched',
           NEW e \in fired, Accounted(e)
    PROVE  Accounted(e)'
  <1>1. e.order \in Orders
    BY DEF MoneyInvariant, TypeOK, Event
  <1>2. anomalies[e.order] \subseteq anomalies'[e.order]
    BY <1>1, AnomaliesGrow DEF MoneyInvariant
  <1> QED BY <1>1, <1>2, FinalStatuses DEF Accounted, Settled

\* Answering a webhook accounts for the capture it reports.
LEMMA AnswerAccounts ==
    ASSUME MoneyInvariant, NEW h \in Handlers, ApplyWebhook(h),
           NEW e \in fired, handler[h].event = e, e.shape.kind = "payment_succeeded"
    PROVE  Accounted(e)'
  <1>0. TypeOK
    BY DEF MoneyInvariant
  <1>1. CASE RecordConflict(h)
    <2>1. PICK o \in Orders : o = e.order /\ Flag(o, {"gateway_order_id_conflict"})
      BY <1>1 DEF RecordConflict, Applying
    <2>2. "gateway_order_id_conflict" \in anomalies'[o]
      BY <1>0, <2>1, FlagGrows
    <2> QED BY <2>1, <2>2 DEF Accounted
  <1>2. CASE RecordWrongAmount(h)
    <2>1. PICK o \in Orders, reason \in {"amount_missing", "amount_mismatch"} :
              o = e.order /\ Flag(o, {reason})
      BY <1>2 DEF RecordWrongAmount, Succeeds, Applying
    <2>2. reason \in anomalies'[o]
      BY <1>0, <2>1, FlagGrows
    <2> QED BY <2>1, <2>2 DEF Accounted
  <1>3. CASE RecordLateCapture(h)
    <2>1. PICK o \in Orders :
              /\ o = e.order
              /\ status'[o] = "cancelled"
              /\ Flag(o, {"payment_after_cancellation"})
      BY <1>3 DEF RecordLateCapture, Succeeds, Applying
    <2>2. "payment_after_cancellation" \in anomalies'[o]
      BY <1>0, <2>1, FlagGrows
    <2> QED BY <2>1, <2>2 DEF Accounted
  <1>4. CASE RecordAlreadyPaid(h)
    BY <1>4 DEF RecordAlreadyPaid, Succeeds, Applying, Accounted
  <1>5. CASE CaptureFulfils(h) \/ CaptureOversells(h)
    <2>1. PICK o \in Orders : o = e.order /\ status' = [status EXCEPT ![o] = "paid"]
      BY <1>5 DEF CaptureFulfils, CaptureOversells, Succeeds, Applying, PayAndMint
    <2>2. status'[e.order] = "paid"
      BY <1>0, <2>1 DEF TypeOK
    <2> QED BY <2>2 DEF Accounted
  <1>6. ~(RecordOther(h) \/ RecordUncountedDecline(h) \/ CountDecline(h) \/ DeclineCancels(h))
    BY DEF RecordOther, RecordUncountedDecline, CountDecline, DeclineCancels, Applying
  <1> QED BY <1>1, <1>2, <1>3, <1>4, <1>5, <1>6 DEF ApplyWebhook

\* Every step accounts for whatever capture it answers.
LEMMA StepSwallowsNothing ==
    ASSUME MoneyInvariant, NoCaptureSwallowed, [Next]_vars
    PROVE  NoCaptureSwallowed'
  <1>0. TypeOK
    BY DEF MoneyInvariant
  \* It is enough that whatever a step answers is accounted for.
  <1>1. ASSUME unmatched \subseteq unmatched',
               \A e \in fired' \ unacked' :
                   e.shape.kind = "payment_succeeded" => e \in fired \ unacked \/ Accounted(e)'
        PROVE  NoCaptureSwallowed'
    <2> SUFFICES ASSUME NEW e \in fired' \ unacked', e.shape.kind = "payment_succeeded"
                 PROVE  Accounted(e)'
      BY DEF NoCaptureSwallowed, Accounted
    <2>1. CASE e \in fired \ unacked
      <3>1. Accounted(e)
        BY <2>1 DEF NoCaptureSwallowed, Accounted
      <3> QED BY <1>1, <2>1, <3>1, AccountedStays
    <2> QED BY <1>1, <2>1
  <1>2. ASSUME UNCHANGED <<unmatched, fired, unacked>> PROVE NoCaptureSwallowed'
    BY <1>1, <1>2
  <1>3. ASSUME NEW o \in Orders, PlaceOrder(o) \/ CheckoutStep(o) PROVE NoCaptureSwallowed'
    BY <1>2, <1>3 DEF PlaceOrder, CheckoutStep, AttemptLink, CreateLink, IssueLink, auditVars,
                      gatewayVars
  <1>4. ASSUME NEW o \in Orders, NEW p \in Payments, FailPayment(o, p) \/ CompletePayment(o, p)
        PROVE  NoCaptureSwallowed'
    <2>1. UNCHANGED unmatched /\ fired' \ unacked' \subseteq fired \ unacked
      BY <1>4 DEF FailPayment, CompletePayment, Fire, auditVars
    <2> QED BY <1>1, <2>1
  <1>5. ASSUME NEW h \in Handlers, NEW e \in fired, Deliver(h, e) PROVE NoCaptureSwallowed'
    <2>1. CASE Receive(h, e)
      BY <1>2, <2>1 DEF Receive, auditVars, gatewayVars
    <2>2. CASE ReceiveUnmatched(h, e)
      <3>1. /\ unmatched' = unmatched \cup {e}
            /\ fired' = fired /\ unacked' = unacked \ {e}
        BY <2>2 DEF ReceiveUnmatched, gatewayVars
      <3>2. Accounted(e)'
        BY <3>1 DEF Accounted
      <3> QED BY <1>1, <3>1, <3>2
    <2> QED BY <1>5, <2>1, <2>2 DEF Deliver
  <1>6. ASSUME NEW h \in Handlers, ApplyWebhook(h) PROVE NoCaptureSwallowed'
    <2>1. UNCHANGED <<unmatched, fired>> /\ (Answer(h) \/ UNCHANGED unacked)
      BY <1>6 DEF ApplyWebhook, RecordConflict, RecordOther, RecordUncountedDecline, CountDecline,
                  DeclineCancels, RecordWrongAmount, RecordLateCapture, RecordAlreadyPaid,
                  CaptureFulfils, CaptureOversells, Proceed, gatewayVars
    <2>2. \A e \in fired' \ unacked' : e \in fired \ unacked \/ e = handler[h].event
      BY <2>1 DEF Answer
    <2>3. \A e \in fired : e = handler[h].event /\ e.shape.kind = "payment_succeeded" => Accounted(e)'
      BY <1>6, AnswerAccounts
    <2> QED BY <1>1, <2>1, <2>2, <2>3
  <1>7. ASSUME NEW h \in Handlers, RefundStep(h) PROVE NoCaptureSwallowed'
    <2>1. UNCHANGED <<unmatched, fired>> /\ (Answer(h) \/ UNCHANGED unacked)
      BY <1>7 DEF RefundStep, RefundUnaddressable, AttemptRefund, GatewayRefunds, RefundCallFails,
                  RecordRefundFailure, RecordRefund, Proceed, auditVars, gatewayVars
    <2>2. RefundRunning(h)
      BY <1>7 DEF RefundStep, RefundUnaddressable, AttemptRefund, GatewayRefunds, RefundCallFails,
                  RecordRefundFailure, RecordRefund, Refunding, RefundRunning
    <2>3. status[handler[h].event.order] = "paid" /\ handler[h].event \in fired
      BY <2>2, RunningOrder DEF MoneyInvariant, RefundHasOneOwner, RefundRunning
    <2>4. \A e \in fired : e = handler[h].event => Accounted(e)'
      <3> SUFFICES ASSUME NEW e \in fired, e = handler[h].event PROVE Accounted(e)'
        OBVIOUS
      <3>1. Accounted(e)
        BY <2>3 DEF Accounted
      <3> QED BY <2>1, <3>1, AccountedStays
    <2>5. \A e \in fired' \ unacked' : e \in fired \ unacked \/ e = handler[h].event
      BY <2>1 DEF Answer
    <2> QED BY <1>1, <2>1, <2>4, <2>5
  <1>8. CASE Crash
    BY <1>2, <1>8 DEF Crash, auditVars, gatewayVars
  <1>9. CASE UNCHANGED vars
    BY <1>2, <1>9 DEF vars, auditVars, gatewayVars
  <1> QED BY <1>3, <1>4, <1>5, <1>6, <1>7, <1>8, <1>9 DEF Next, HandlerStep

(* A capture the server answered 200 is on the Order or its absence is     *)
(* explained by the log, whatever was delivered again, late or twice.      *)
THEOREM NothingSwallowed == Spec => []NoCaptureSwallowed
  <1>1. Init => NoCaptureSwallowed
    BY DEF Init, NoCaptureSwallowed
  <1>2. MoneyInvariant /\ NoCaptureSwallowed /\ [Next]_vars => NoCaptureSwallowed'
    BY StepSwallowsNothing
  <1> QED BY <1>1, <1>2, MoneyInvariantHolds, PTL DEF Spec

-----------------------------------------------------------------------------
(***************************************************************************)
(* What is never taken back.                                               *)
(***************************************************************************)
WrittenOnce ==
    /\ StockLeavesByOrder
    /\ \A o \in Orders :
        /\ gatewayOrderId[o] # "none" => gatewayOrderId'[o] = gatewayOrderId[o]
        /\ gatewayPaymentId[o] # NoPayment => gatewayPaymentId'[o] = gatewayPaymentId[o]
        /\ receipt[o] # NoPayment => receipt'[o] = receipt[o]
        /\ shortfall[o] => shortfall'[o]
        /\ SubSeq(declined'[o], 1, Len(declined[o])) = declined[o]
        /\ anomalies[o] \subseteq anomalies'[o]

\* Every step writes each write-once field at most from empty.
LEMMA StepWritesOnce ==
    ASSUME PaymentInvariant, LinkIsLogged, [Next]_vars
    PROVE  WrittenOnce
  <1>0. TypeOK /\ MoneyInvariant
    BY DEF PaymentInvariant, MoneyInvariant
  <1>1. \A x \in Orders :
            /\ gatewayOrderId[x] # "none" => gatewayOrderId'[x] = gatewayOrderId[x]
            /\ anomalies[x] \subseteq anomalies'[x]
    BY <1>0, StepLearns, AnomaliesGrow
  <1>2. \A x \in Orders : SubSeq(declined[x], 1, Len(declined[x])) = declined[x]
    BY <1>0 DEF TypeOK
  <1>3. CASE PlainStep
    BY <1>0, <1>1, <1>2, <1>3, PlainStepsBookNothing DEF WrittenOnce, StockLeavesByOrder
  <1>4. ASSUME NEW h \in Handlers, DeclineStep(h) PROVE WrittenOnce
    <2>1. PICK o \in Orders, p \in Payments : declined' = [declined EXCEPT ![o] = Append(@, p)]
      BY <1>0, <1>4, DeclineBooks DEF PaymentInvariant
    <2>2. UNCHANGED <<gatewayPaymentId, receipt, shortfall, stock>>
      BY <1>4 DEF DeclineStep, CountDecline, DeclineCancels, proofVars
    <2>3. \A x \in Orders : SubSeq(declined'[x], 1, Len(declined[x])) = declined[x]
      <3>1. declined[o] \in Seq(Payments) /\ declined'[o] = Append(declined[o], p)
        BY <1>0, <2>1 DEF TypeOK
      <3>2. SubSeq(Append(declined[o], p), 1, Len(declined[o])) = declined[o]
        BY <3>1
      <3>3. \A x \in Orders : x # o => declined'[x] = declined[x]
        BY <1>0, <2>1 DEF TypeOK
      <3> QED BY <1>2, <3>1, <3>2, <3>3
    <2> QED BY <1>1, <2>2, <2>3 DEF WrittenOnce, StockLeavesByOrder
  <1>5. ASSUME NEW h \in Handlers, CaptureFulfils(h) \/ CaptureOversells(h) PROVE WrittenOnce
    <2>1. PICK o \in Orders, e \in fired, types \in SUBSET AuditType :
              /\ Succeeds(h, o, e)
              /\ status[o] \in Payable
              /\ PayAndMint(h, o, e, types)
              /\ UNCHANGED declined
              /\ \/ /\ UNCHANGED shortfall
                    /\ ShortLines(o) = {}
                    /\ stock' = Decremented(o)
                 \/ /\ shortfall' = [shortfall EXCEPT ![o] = TRUE]
                    /\ stock' = Restored(o, Decremented(o))
      BY <1>5 DEF CaptureFulfils, CaptureOversells, AuditType
    <2>2. \A x \in Orders :
              /\ gatewayPaymentId[x] # NoPayment => gatewayPaymentId'[x] = gatewayPaymentId[x]
              /\ receipt[x] # NoPayment => receipt'[x] = receipt[x]
      BY <2>1, PayAndMintBinds
    <2>3. \A x \in Orders : shortfall[x] => shortfall'[x]
      BY <1>0, <2>1 DEF TypeOK
    <2>4. StockLeavesByOrder
      <3>1. CASE stock' = Restored(o, Decremented(o))
        BY <1>0, <3>1, StockType DEF StockLeavesByOrder
      <3>2. CASE UNCHANGED shortfall /\ ShortLines(o) = {} /\ stock' = Decremented(o)
        <4>1. \A v \in Variants : stock'[v] = stock[v] - Lines[o][v]
          BY <3>2 DEF Decremented
        <4>2. status'[o] = "paid"
          BY <1>0, <2>1 DEF PayAndMint, TypeOK
        <4>3. ~shortfall'[o]
          BY <1>0, <2>1, <3>2 DEF MoneyInvariant, GoodsFollowMoney, Payable
        <4> QED BY <2>1, <4>1, <4>2, <4>3 DEF StockLeavesByOrder, TakesItsLines
      <3> QED BY <2>1, <3>1, <3>2
    <2> QED BY <1>1, <1>2, <2>1, <2>2, <2>3, <2>4 DEF WrittenOnce
  <1>6. ASSUME NEW h \in Handlers, RecordRefund(h) PROVE WrittenOnce
    BY <1>1, <1>2, <1>6 DEF RecordRefund, WrittenOnce, StockLeavesByOrder
  <1> QED BY <1>3, <1>4, <1>5, <1>6, StepKinds DEF MoneyStep

(* Ids and Receipts are written once, counted attempts and anomalies only  *)
(* accumulate, and stock leaves only with the one payment of an Order that *)
(* is not oversold, by its lines, over every step of the system.           *)
THEOREM WritesOnce == Spec => WriteOnce
  <1>1. PaymentInvariant /\ LinkIsLogged /\ [Next]_vars => WrittenOnce
    BY StepWritesOnce
  <1>2. WrittenOnce => [WrittenOnce]_vars
    OBVIOUS
  <1>3. Spec => [][WrittenOnce]_vars
    BY <1>1, PaymentInvariantHolds, LinkLogged, PTL DEF Spec
  <1> QED BY <1>3, PTL DEF WriteOnce, WrittenOnce

-----------------------------------------------------------------------------
(***************************************************************************)
(* Stock.  A unit leaves it when an Order is fulfilled, and an Order is    *)
(* fulfilled once.  What the fulfilled Orders took is a sum over a set that*)
(* grows by one Order at a time, whatever the number of Orders is.         *)
(***************************************************************************)
\* What the fulfilled Orders took of v.
Taken(v) == SumFunctionOnSet([o \in Fulfilled |-> Lines[o][v]], Fulfilled)

Books == IsFiniteSet(Fulfilled) /\ StockConserved

\* A step that fulfils nothing and takes no stock keeps the stock books.
LEMMA SameFulfilled ==
    ASSUME Books, UNCHANGED stock,
           \A x \in Orders : Count(x, "order.fulfilled")' = Count(x, "order.fulfilled")
    PROVE  Books'
  <1>1. Fulfilled' = Fulfilled
    BY DEF Fulfilled
  <1> QED BY <1>1 DEF Books, StockConserved

\* The stock a fulfilled Order takes is what the sum gains.
LEMMA FulfilmentTakes ==
    ASSUME MoneyInvariant, Books, NEW h \in Handlers, CaptureFulfils(h)
    PROVE  Books'
  <1>0. TypeOK
    BY DEF MoneyInvariant
  <1>1. PICK o \in Orders, e \in fired :
            /\ status[o] \in Payable
            /\ ShortLines(o) = {}
            /\ PayAndMint(h, o, e, {"order.fulfilled"})
            /\ stock' = Decremented(o)
    BY DEF CaptureFulfils
  <1>2. e \in Event
    BY <1>0 DEF TypeOK
  <1>3. \A x \in Orders, t \in Tracked :
            Count(x, t)' = Count(x, t) + (IF x = o /\ t \in {"order.fulfilled"} THEN 1 ELSE 0)
    BY <1>0, <1>1, <1>2, PayAndMintCount
  <1>4. \A x \in Orders : Count(x, "order.fulfilled")' =
                              Count(x, "order.fulfilled") + (IF x = o THEN 1 ELSE 0)
    BY <1>3 DEF Tracked
  <1>5. \A x \in Orders : Count(x, "order.fulfilled") \in Nat
    BY <1>0 DEF TypeOK, Count, AuditType
  <1>6. Count(o, "order.fulfilled") = 0
    BY <1>1, PayableOrder
  <1>7. Fulfilled' = Fulfilled \cup {o} /\ o \notin Fulfilled
    BY <1>4, <1>5, <1>6 DEF Fulfilled
  <1>8. IsFiniteSet(Fulfilled) /\ IsFiniteSet(Fulfilled')
    BY <1>7, FS_AddElement DEF Books
  <1>9. \A v \in Variants : stock[v] \in Nat /\ \A x \in Orders : Lines[x][v] \in Nat
    BY <1>0, OrdersAssumption DEF TypeOK
  <1>10. ASSUME NEW v \in Variants
         PROVE  /\ stock'[v] >= 0
                /\ stock'[v] + Taken(v)' = InitialStock[v]
    <2> DEFINE S == Fulfilled
               f == [x \in S |-> Lines[x][v]]
               g == [x \in S \cup {o} |-> Lines[x][v]]
    <2>1. /\ stock'[v] = stock[v] - Lines[o][v]
          /\ stock'[v] >= 0
      BY <1>1, <1>9 DEF Decremented, ShortLines
    <2>2. Taken(v)' = SumFunctionOnSet(g, S \cup {o})
      BY <1>7 DEF Taken
    <2>3. /\ S \subseteq Orders
          /\ \A y \in S \cup {o} : g[y] \in Nat
          /\ \A y \in S : f[y] \in Nat /\ g[y] = f[y]
          /\ g[o] = Lines[o][v]
      BY <1>9 DEF Fulfilled
    <2>4. stock[v] + SumFunctionOnSet(f, S) = InitialStock[v]
      BY DEF Books, StockConserved, SumFunction
    <2>5. IsFiniteSet(S) /\ o \notin S
      BY <1>7, <1>8
    <2> HIDE DEF S, f, g
    <2>6. SumFunctionOnSet(g, S \cup {o}) = SumFunctionOnSet(g, S) + g[o]
      BY <2>3, <2>5, SumWithOneMore
    <2>7. SumFunctionOnSet(g, S) = SumFunctionOnSet(f, S) /\ SumFunctionOnSet(f, S) \in Nat
      BY <2>3, <2>5, SumAgrees, SumIsNat
    <2>8. stock[v] \in Nat /\ Lines[o][v] \in Nat /\ g[o] = Lines[o][v]
      BY <1>9, <2>3
    <2> QED BY <2>1, <2>2, <2>4, <2>6, <2>7, <2>8
  <1> QED BY <1>8, <1>10 DEF Books, StockConserved, SumFunction, Taken

\* Every step keeps the stock books: only a fulfilment takes stock, and logs it.
LEMMA StepKeepsStock ==
    ASSUME MoneyInvariant, Books, [Next]_vars
    PROVE  Books'
  <1>0. TypeOK
    BY DEF MoneyInvariant
  <1>1. CASE PlainStep
    <2>1. "order.fulfilled" \in MoneyLog \cup DeclineLog
      BY DEF MoneyLog
    <2> QED BY <1>1, <2>1, PlainStepsBookNothing, SameFulfilled
  <1>2. ASSUME NEW h \in Handlers, DeclineStep(h) PROVE Books'
    <2>1. PICK o \in Orders, e \in fired, types \in SUBSET {"payment.declined", "order.cancelled"} :
              LinkAndLog(o, e, types) /\ UNCHANGED stock
      BY <1>2 DEF DeclineStep, CountDecline, DeclineCancels, proofVars
    <2>2. e \in Event
      BY <1>0 DEF TypeOK
    <2> DEFINE T == {"order.fulfilled"}
    <2>3. T \in SUBSET (AuditType \ {"gateway.order_linked"}) /\ types \cap T = {}
      BY DEF AuditType
    <2>4. "order.fulfilled" \in T
      OBVIOUS
    <2> HIDE DEF T
    <2>5. \A x \in Orders, t \in T : Count(x, t)' = Count(x, t)
      BY <1>0, <2>1, <2>2, <2>3, LinkAndLogLeaves
    <2> QED BY <2>1, <2>4, <2>5, SameFulfilled
  <1>3. ASSUME NEW h \in Handlers, CaptureOversells(h) PROVE Books'
    <2>1. PICK o \in Orders, e \in fired :
              /\ PayAndMint(h, o, e, {"order.oversell_detected"})
              /\ stock' = Restored(o, Decremented(o))
      BY <1>3 DEF CaptureOversells
    <2>2. e \in Event
      BY <1>0 DEF TypeOK
    <2>3. \A x \in Orders, t \in Tracked :
              Count(x, t)' = Count(x, t) + (IF x = o /\ t \in {"order.oversell_detected"}
                                            THEN 1 ELSE 0)
      BY <1>0, <2>1, <2>2, PayAndMintCount
    <2>4. \A x \in Orders : Count(x, "order.fulfilled") \in Nat
      BY <1>0 DEF TypeOK, Count, AuditType
    <2>5. \A x \in Orders : Count(x, "order.fulfilled")' = Count(x, "order.fulfilled")
      BY <2>3, <2>4 DEF Tracked
    <2>6. UNCHANGED stock
      BY <1>0, <2>1, StockType
    <2> QED BY <2>5, <2>6, SameFulfilled
  <1>4. ASSUME NEW h \in Handlers, RecordRefund(h) PROVE Books'
    <2>1. PICK o \in Orders, types \in SUBSET {"order.refunded", "receipt.refund_issued"} :
              Log(o, types) /\ UNCHANGED stock
      BY <1>4 DEF RecordRefund
    <2>2. {"order.fulfilled"} \in SUBSET AuditType /\ types \cap {"order.fulfilled"} = {}
      BY DEF AuditType
    <2>3. \A x \in Orders, t \in {"order.fulfilled"} : Count(x, t)' = Count(x, t)
      BY <1>0, <2>1, <2>2, LogLeaves
    <2> QED BY <2>1, <2>3, SameFulfilled
  <1>5. ASSUME NEW h \in Handlers, CaptureFulfils(h) PROVE Books'
    BY <1>5, FulfilmentTakes
  <1> QED BY <1>1, <1>2, <1>3, <1>4, <1>5, StepKinds DEF MoneyStep

(* No unit is sold twice and none is lost: what is left of a Variant and   *)
(* what the fulfilled Orders took always add up to what there was.         *)
THEOREM StockIsConserved == Spec => []StockConserved
  <1>1. Init => Books
    <2> SUFFICES ASSUME Init PROVE Books
      OBVIOUS
    <2>1. Fulfilled = {}
      BY DEF Init, Fulfilled, Count, AuditType
    <2>2. IsFiniteSet(Fulfilled)
      BY <2>1, FS_EmptySet
    <2>3. ASSUME NEW v \in Variants
          PROVE  SumFunction([o \in Fulfilled |-> Lines[o][v]]) = 0
      BY <2>1, SumOfNothing DEF SumFunction
    <2>4. \A v \in Variants : stock[v] = InitialStock[v] /\ InitialStock[v] \in Nat
      BY OrdersAssumption DEF Init
    <2> QED BY <2>2, <2>3, <2>4 DEF Books, StockConserved
  <1>2. MoneyInvariant /\ Books /\ [Next]_vars => Books'
    BY StepKeepsStock
  <1>3. Books => StockConserved
    BY DEF Books
  <1> QED BY <1>1, <1>2, <1>3, MoneyInvariantHolds, PTL DEF Spec

=============================================================================
