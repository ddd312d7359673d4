------------------------------- MODULE Ledger -------------------------------
(***************************************************************************)
(* What a log must be for the rule auditor to find nothing, said without   *)
(* walking it: what each event rests on, which events happen once, and how *)
(* much an Agent may owe at a time; and what the rows have to do with it.  *)
(* A store may start with any rows and log of which this is true.          *)
(***************************************************************************)
EXTENDS Storefront

\* A log as the set of its entries.
Entries(events) == {[seq |-> n, event |-> events[n]] : n \in DOMAIN events}

Earlier(entries, n) == {p.event : p \in {p \in entries : p.seq < n}}

-----------------------------------------------------------------------------
(***************************************************************************)
(* What an event rests on.                                                 *)
(***************************************************************************)
Is(e, type) == e.type = type

Agrees(e, f, fields) == \A x \in fields : Field(e, x) = Field(f, x)

RegistrationSound(e) == Field(e, "agentId") # NoField /\ Field(e, "capPaise") \in Nat

IntentSound(e) == Field(e, "intentHash") # NoField /\ Field(e, "budgetPaise") \in Nat

CartSound(e, before) ==
    /\ Field(e, "cartHash") # NoField
    /\ Field(e, "totalAmountPaise") \in Nat \ {0}
    /\ RecomputedTotal(Field(e, "items")) = Field(e, "totalAmountPaise")
    /\ \E i \in before : Is(i, "mandate.intent_declared") /\ Agrees(i, e, {"intentHash", "agentId"})

\* The chain of a verified payment.
VerifiedSound(e, before) ==
    /\ e.order # NoField
    /\ NoField \notin {Field(e, f) : f \in {"agentId", "idempotencyKey", "paymentHash"}}
    /\ Field(e, "amountPaise") \in Nat \ {0}
    /\ \E r \in before : Is(r, "agent.registered") /\ Agrees(r, e, {"agentId"})
    /\ \E i \in before : /\ Is(i, "mandate.intent_declared")
                         /\ Agrees(i, e, {"intentHash", "agentId"})
                         /\ Field(e, "amountPaise") <= Field(i, "budgetPaise")
    /\ \E k \in before : /\ Is(k, "mandate.cart_created")
                         /\ Agrees(k, e, {"cartHash", "intentHash", "agentId"})
                         /\ Field(k, "totalAmountPaise") = Field(e, "amountPaise")

ReplaySound(e, before) ==
    \E v \in before : Is(v, "payment.verified") /\ Agrees(v, e, {"agentId", "idempotencyKey"})

PaidSound(e, before) ==
    \E v \in before : /\ Is(v, "payment.verified") /\ v.order = e.order
                      /\ Agrees(v, e, {"amountPaise"})

RefundSound(e, before) ==
    \E p \in before : Is(p, "order.paid") /\ p.order = e.order /\ Agrees(p, e, {"amountPaise"})

ReceiptSound(e, before) ==
    /\ Field(e, "gatewayPaymentId") # NoField
    /\ \E v \in before :
          /\ Is(v, "payment.verified") /\ v.order = e.order
          /\ Agrees(v, e, {"intentHash", "cartHash", "paymentHash", "amountPaise"})

RefusalSound(e) == NoField \notin {Field(e, f) : f \in {"code", "reason", "recoverable"}}

Sound(e, before) ==
    /\ Is(e, "agent.registered") => RegistrationSound(e)
    /\ Is(e, "mandate.intent_declared") => IntentSound(e)
    /\ Is(e, "mandate.cart_created") => CartSound(e, before)
    /\ Is(e, "payment.verified") => VerifiedSound(e, before)
    /\ Is(e, "payment.replayed") => ReplaySound(e, before)
    /\ Is(e, "order.paid") => PaidSound(e, before)
    /\ Is(e, "order.refunded") => RefundSound(e, before)
    /\ Is(e, "receipt.issued") => ReceiptSound(e, before)
    /\ e.type \in RefusalTypes => RefusalSound(e)

AllSound(entries) == \A p \in entries : Sound(p.event, Earlier(entries, p.seq))

-----------------------------------------------------------------------------
(***************************************************************************)
(* What happens once: an Agent's registration, a mandate, a payment under  *)
(* its key, an Order's placing, its payment and its refund.                *)
(***************************************************************************)
PerOrder == {"payment.verified", "order.paid", "order.refunded"}

Same(e, f) ==
    /\ e.type = f.type
    /\ \/ Is(e, "agent.registered") /\ Agrees(e, f, {"agentId"})
       \/ Is(e, "mandate.intent_declared") /\ Agrees(e, f, {"intentHash"})
       \/ Is(e, "mandate.cart_created") /\ Agrees(e, f, {"cartHash"})
       \/ Is(e, "payment.verified") /\ Agrees(e, f, {"agentId", "idempotencyKey"})
       \/ e.type \in PerOrder /\ e.order = f.order

Once(entries) == \A p, q \in entries : Same(p.event, q.event) => p = q

-----------------------------------------------------------------------------
(***************************************************************************)
(* What an Agent owes: its payments verified so far whose Orders were not  *)
(* given up, but for those refunded before.                                *)
(***************************************************************************)
VerifiedIn(entries) == {p \in entries : Is(p.event, "payment.verified")}

PaiseOf(entries) == [p \in entries |-> Field(p.event, "amountPaise")]

RefundedBefore(entries, n, o) ==
    \E r \in entries : r.seq < n /\ Is(r.event, "order.refunded") /\ r.event.order = o

\* As of the payment q; refunds are those on record.
Counting(entries, record, givenUp, q) ==
    {p \in VerifiedIn(entries) :
        /\ p.seq <= q.seq /\ Agrees(p.event, q.event, {"agentId"})
        /\ p.event.order \notin givenUp
        /\ ~ RefundedBefore(record, q.seq, p.event.order)}

WithinCap(entries, record, givenUp) ==
    \A q \in VerifiedIn(entries), r \in entries :
        Is(r.event, "agent.registered") /\ Agrees(r.event, q.event, {"agentId"}) =>
            SumFunctionOnSet(PaiseOf(entries), Counting(entries, record, givenUp, q))
                <= Field(r.event, "capPaise")

-----------------------------------------------------------------------------
(***************************************************************************)
(* Rows and events.                                                        *)
(***************************************************************************)
\* The event a row was written with.
AgentShown(g, row, events) ==
    \E e \in events : /\ Is(e, "agent.registered") /\ Field(e, "agentId") = g
                      /\ Field(e, "capPaise") = row.capPaise

IntentShown(i, row, events) ==
    /\ {"agentId", "budgetPaise", "consumedBy"} \subseteq DOMAIN row
    /\ \E e \in events : /\ Is(e, "mandate.intent_declared") /\ Field(e, "intentHash") = i
                         /\ Field(e, "agentId") = row.agentId
                         /\ Field(e, "budgetPaise") = row.budgetPaise

CartShown(k, row, events) ==
    /\ {"agentId", "intent", "totalPaise", "signed"} \subseteq DOMAIN row
    /\ \E e \in events : /\ Is(e, "mandate.cart_created") /\ Field(e, "cartHash") = k
                         /\ Field(e, "agentId") = row.agentId
                         /\ Field(e, "intentHash") = row.intent
                         /\ Field(e, "totalAmountPaise") = row.totalPaise

PaymentShown(key, row, events) ==
    \E e \in events : /\ Is(e, "payment.verified") /\ e.order = row.order
                      /\ Field(e, "agentId") = key[1] /\ Field(e, "idempotencyKey") = key[2]
                      /\ Field(e, "cartHash") = row.cart /\ Field(e, "paymentHash") = row.hash

OrderShown(o, row, events) ==
    /\ {"agentId", "amountPaise", "status", "link"} \subseteq DOMAIN row
    /\ \E e \in events : /\ Is(e, "payment.verified") /\ e.order = o
                         /\ Field(e, "agentId") = row.agentId
                         /\ Field(e, "amountPaise") = row.amountPaise
    /\ row.status \in Settled => \E e \in events : Is(e, "order.paid") /\ e.order = o
    /\ row.status = "refunded" => \E e \in events : Is(e, "order.refunded") /\ e.order = o

RowsShown(tables, events) ==
    /\ \A g \in DOMAIN RowsOf(tables, "agents") :
          AgentShown(g, RowsOf(tables, "agents")[g], events)
    /\ \A i \in DOMAIN RowsOf(tables, "intents") :
          IntentShown(i, RowsOf(tables, "intents")[i], events)
    /\ \A k \in DOMAIN RowsOf(tables, "carts") :
          CartShown(k, RowsOf(tables, "carts")[k], events)
    /\ \A key \in DOMAIN RowsOf(tables, "payments") :
          PaymentShown(key, RowsOf(tables, "payments")[key], events)
    /\ \A o \in DOMAIN RowsOf(tables, "orders") :
          OrderShown(o, RowsOf(tables, "orders")[o], events)

\* The row an event was written with, which has not gone back since.
EventKept(e, tables) ==
    /\ Is(e, "agent.registered") => Field(e, "agentId") \in DOMAIN RowsOf(tables, "agents")
    /\ Is(e, "mandate.intent_declared") =>
          Field(e, "intentHash") \in DOMAIN RowsOf(tables, "intents")
    /\ Is(e, "mandate.cart_created") => Field(e, "cartHash") \in DOMAIN RowsOf(tables, "carts")
    /\ Is(e, "payment.verified") =>
          <<Field(e, "agentId"), Field(e, "idempotencyKey")>> \in DOMAIN RowsOf(tables, "payments")
    /\ e.type \in PerOrder => e.order \in DOMAIN RowsOf(tables, "orders")
    /\ Is(e, "order.paid") => RowsOf(tables, "orders")[e.order].status \in Settled
    /\ Is(e, "order.refunded") => RowsOf(tables, "orders")[e.order].status = "refunded"
    /\ Is(e, "order.cancelled") =>
          /\ e.order \in DOMAIN RowsOf(tables, "orders")
          /\ RowsOf(tables, "orders")[e.order].status = "cancelled"

Cancelled(tables) ==
    {o \in DOMAIN RowsOf(tables, "orders") : RowsOf(tables, "orders")[o].status = "cancelled"}

LedgerKept(tables, events) ==
    LET entries == Entries(events)
        all == {events[n] : n \in DOMAIN events} IN
    /\ AllSound(entries) /\ Once(entries)
    /\ WithinCap(entries, entries, Cancelled(tables))
    /\ RowsShown(tables, all)
    /\ \A e \in all : EventKept(e, tables)

\* The codes a Refusal of a purchase may have.
RefusalCodes ==
    {"UNREGISTERED_AGENT", "INVALID_MANDATE", "INTENT_CONSUMED", "PRICE_CHANGED", "OUT_OF_STOCK",
     "OVER_BUDGET", "IDEMPOTENCY_REUSE", "OVER_CAP"}

ASSUME LedgerAssumption ==
    /\ LedgerKept(Seeded, SeededLog)
    /\ NoField \notin Nat /\ NoField \notin BOOLEAN /\ NoField \notin RefusalCodes
    /\ \A code \in RefusalCodes, recoverable \in BOOLEAN : Refusal(code, recoverable) # NoField
=============================================================================
