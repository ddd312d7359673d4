----------------------------- MODULE Storefront -----------------------------
(***************************************************************************)
(* The whole store as its callers meet it: every endpoint of a purchase,   *)
(* the webhooks that settle it, the pages that show it, and the audit log  *)
(* all of them append to.  Orders, Submission and MandateFlow look into    *)
(* one component each; here they share one database.                       *)
(*                                                                         *)
(* A transaction takes several steps.  Its statements run while it holds   *)
(* its row locks, and the audit events they insert draw their sequence     *)
(* numbers then; rows and events become visible when it commits, so the    *)
(* log fills its numbers out of order, and a transaction that is lost      *)
(* leaves a gap.                                                           *)
(***************************************************************************)
EXTENDS RuleAuditor, Sequences

CONSTANTS
    Clients,              \* callers of the store, each one call at a time
    Deliverers,           \* webhook requests the gateway has open at once
    Script,               \* Script[c][i]: the calls c may make as its i-th
    Seeded,               \* the rows the store starts with, table by table
    SeededLog,            \* the audit events that are on record for them
    PaymentAttemptLimit,  \* PAYMENT_ATTEMPT_LIMIT in decline.ts
    GatewayMayFail,       \* may the gateway refuse a link or a refund?
    UnnamedPayments,      \* may it report a paid link without the payment's id?
    MaxRollbacks,         \* bound on transactions the database loses
    Int4Max               \* the largest int4

Tables == {"agents", "intents", "carts", "payments", "orders", "receipts",
           "refundReceipts", "variants"}

OrderStatuses == {"created", "awaiting_payment", "paid", "cancelled", "refunded"}

RowsOf(tables, t) == IF t \in DOMAIN tables THEN tables[t] ELSE <<>>

\* What the gateway calls the payment of an Order's link.
CapturedPayment(o) == <<o, "captured">>

PaymentHash(c) == <<c.token, c.cart, c.key>>

\* What a caller may ask for: the endpoints, the gateway's payment page and the
\* merchant's edits, with the types their schemas let through.
ClientCalls ==
    {"register_agent", "declare_intent", "create_cart", "submit_payment", "get_order_status",
     "complete_payment", "fail_payment", "get_product", "audit_page", "refusal_page",
     "store_summary", "edit_variant"}

CallFits(call) ==
    /\ call.call \in ClientCalls
    /\ call.call = "create_cart" => \A i \in DOMAIN call.items : call.items[i].quantity \in Int
    /\ call.call = "create_cart" =>
          /\ call.cart # NoField
          /\ Len(call.items) \in Nat /\ DOMAIN call.items = 1 .. Len(call.items)
    /\ call.call = "register_agent" => call.agent # NoField /\ call.capPaise \in Int
    /\ call.call = "declare_intent" => call.intent # NoField /\ call.budgetPaise \in Int
    /\ call.call = "submit_payment" =>
          NoField \notin {call.key, PaymentHash(call), call.order}
    /\ call.call = "edit_variant" /\ "stock" \in DOMAIN call.set => call.set.stock \in Nat
    /\ call.call = "edit_variant" /\ "pricePaise" \in DOMAIN call.set =>
          call.set.pricePaise \in Nat \ {0}

\* The columns of the rows that the types are about; a line names a Variant the
\* store sells.
LinesFit(items) ==
    \A i \in DOMAIN items :
        /\ items[i].quantity \in Int
        /\ items[i].variantId \in DOMAIN Seeded.variants

OrderFits(row) ==
    {"status", "items"} \subseteq DOMAIN row /\ row.status \in OrderStatuses /\ LinesFit(row.items)

CartFits(row) == "items" \in DOMAIN row /\ LinesFit(row.items)

VariantFits(row) ==
    /\ {"stock", "pricePaise"} \subseteq DOMAIN row
    /\ row.stock \in Nat /\ row.pricePaise \in Nat \ {0}

OrdersFit(rows) == \A o \in DOMAIN rows : OrderFits(rows[o])

CartsFit(rows) == \A k \in DOMAIN rows : CartFits(rows[k])

VariantsFit(rows) ==
    DOMAIN rows \subseteq DOMAIN Seeded.variants /\ \A v \in DOMAIN rows : VariantFits(rows[v])

RowsFit(tables) ==
    /\ DOMAIN tables \subseteq Tables
    /\ OrdersFit(RowsOf(tables, "orders"))
    /\ CartsFit(RowsOf(tables, "carts"))
    /\ VariantsFit(RowsOf(tables, "variants"))

Settled == {"paid", "refunded"}

\* The row, if there is one.
RowAt(table, key) == {table[k] : k \in {key} \cap DOMAIN table}

TypesOf(events, o) == {e.type : e \in {e \in events : e.order = o}}

ShowsCart(events, k) ==
    \E e \in events :
        e.type = "mandate.cart_created" /\ e.order = NoField /\ Field(e, "cartHash") = k

ShowsIntent(events, i) ==
    \E e \in events :
        e.type = "mandate.intent_declared" /\ e.order = NoField /\ Field(e, "intentHash") = i

\* The Receipt is for a payment the Order was placed with.
Restates(receipt, o, payments) ==
    \E k \in DOMAIN payments :
        /\ payments[k].order = o
        /\ payments[k].hash = receipt.paymentHash
        /\ payments[k].cart = receipt.cartHash

\* The log says why the Order has no Receipt: its payment has no id.
Unbound(events, o) ==
    \E e \in events : /\ e.type = "order.anomaly_detected" /\ e.order = o
                      /\ Field(e, "reason") = "missing_gateway_payment_id"

\* The events on record of an Order, by its status.
WithOrder == {"payment.verified", "order.created"}

WithLink == WithOrder \cup {"gateway.payment_link_attempted", "gateway.payment_link_issued"}

WithPayment == WithLink \cup {"gateway.webhook_received", "order.paid"}

Recorded ==
    [created |-> WithOrder, awaiting_payment |-> WithLink, paid |-> WithPayment,
     refunded |-> WithPayment \cup {"order.refunded"},
     cancelled |-> WithLink \cup {"gateway.webhook_received", "payment.declined",
                                  "order.cancelled"}]

\* What is written with an Order's row, in the transaction that changes it.
OrderKept(o, row, payments, receipts, refunds, events) ==
    /\ {"status", "link", "amountPaise", "gatewayPaymentId", "refundReason"} \subseteq DOMAIN row
    /\ row.link \in BOOLEAN /\ (~row.link => row.status = "created")
    /\ \E k \in DOMAIN payments : payments[k].order = o
    /\ receipts # {} => row.status \in Settled
    /\ receipts = {} /\ row.status \in Settled =>
          row.gatewayPaymentId = NoField /\ Unbound(events, o)
    /\ (refunds # {}) = (row.status = "refunded")
    /\ row.status = "refunded" => receipts # {}
    /\ \A receipt \in receipts :
          /\ Restates(receipt, o, payments)
          /\ receipt.amountPaise = row.amountPaise
          /\ \A refund \in refunds :
                /\ refund.receipt = receipt
                /\ refund.amountPaise = row.amountPaise
                /\ row.refundReason.refundPaise = row.amountPaise
    /\ Recorded[row.status] \subseteq TypesOf(events, o)
    /\ row.link => WithLink \subseteq TypesOf(events, o)
    /\ receipts # {} => "receipt.issued" \in TypesOf(events, o)

CartKept(k, row, events) ==
    /\ k # NoField /\ ShowsCart(events, k)
    /\ "intent" \in DOMAIN row /\ row.intent # NoField /\ ShowsIntent(events, row.intent)

\* The Refusals whose page shows the mandates they were refused under.
ChainCodes == {"OVER_CAP", "INTENT_CONSUMED", "OVER_BUDGET"}

RefusalKept(e, events) ==
    e.type \in RefusalTypes /\ e.payload.code \in ChainCodes =>
        /\ {"cartHash", "intentHash"} \subseteq DOMAIN e.payload
        /\ e.payload.cartHash # NoField /\ ShowsCart(events, e.payload.cartHash)
        /\ e.payload.intentHash # NoField /\ ShowsIntent(events, e.payload.intentHash)

BooksKept(tables, events) ==
    /\ DOMAIN RowsOf(tables, "receipts") \subseteq DOMAIN RowsOf(tables, "orders")
    /\ DOMAIN RowsOf(tables, "refundReceipts") \subseteq DOMAIN RowsOf(tables, "orders")
    /\ \A o \in DOMAIN RowsOf(tables, "orders") :
          OrderKept(o, RowsOf(tables, "orders")[o], RowsOf(tables, "payments"),
                    RowAt(RowsOf(tables, "receipts"), o),
                    RowAt(RowsOf(tables, "refundReceipts"), o), events)
    /\ \A k \in DOMAIN RowsOf(tables, "payments") :
          RowsOf(tables, "payments")[k].cart \in DOMAIN RowsOf(tables, "carts")
    /\ \A k \in DOMAIN RowsOf(tables, "carts") :
          CartKept(k, RowsOf(tables, "carts")[k], events)
    /\ \A i \in DOMAIN RowsOf(tables, "intents") : i # NoField /\ ShowsIntent(events, i)
    /\ \A e \in events : RefusalKept(e, events)

ASSUME StorefrontAssumption ==
    /\ DOMAIN Script = Clients
    /\ \A c \in Clients :
          /\ Len(Script[c]) \in Nat /\ DOMAIN Script[c] = 1 .. Len(Script[c])
          /\ \A i \in DOMAIN Script[c] : \A call \in Script[c][i] : CallFits(call)
    /\ Clients \cap Deliverers = {}
    /\ DOMAIN Seeded = Tables /\ RowsFit(Seeded)
    /\ BooksKept(Seeded, {SeededLog[n] : n \in DOMAIN SeededLog})
    /\ \E last \in {0} \cup DOMAIN SeededLog :
          DOMAIN SeededLog \subseteq 1 .. last /\ last \in Nat
    /\ PaymentAttemptLimit \in Nat \ {0}
    /\ GatewayMayFail \in BOOLEAN
    /\ UnnamedPayments \in BOOLEAN
    /\ MaxRollbacks \in Nat
    /\ Int4Max \in Nat

VARIABLES
    db,         \* the committed rows: table -> key -> row
    log,        \* the committed audit events, by sequence number
    drawn,      \* the last sequence number drawn
    job,        \* the request each caller has open, and its last answer
    at,         \* calls of its script each client has made
    links,      \* the gateway's payment links, by Order
    hooks,      \* webhooks the gateway has yet to deliver
    rollbacks   \* transactions lost so far

vars == <<db, log, drawn, job, at, links, hooks, rollbacks>>

Workers == Clients \cup Deliverers

-----------------------------------------------------------------------------
(***************************************************************************)
(* Requests and transactions.                                              *)
(***************************************************************************)
NoTx == [locks |-> {}, writes |-> <<>>, events |-> <<>>]

\* step: what the handler does next; after: what follows the commit; seen: what
\* it has read; reply: what it answers (at "idle", what it answered).
Idle == [step |-> "idle", call |-> NoField, after |-> "idle", seen |-> NoField,
         tx |-> NoTx, reply |-> NoField]

\* Rows over rows, table by table.
Over(new, old) ==
    [t \in DOMAIN new \cup DOMAIN old |-> RowsOf(new, t) ++ RowsOf(old, t)]

Free(w, locks) == \A v \in Workers \ {w} : job[v].tx.locks \cap locks = {}

\* Statements of w's transaction: it waits for the locks, then writes, and its
\* audit inserts draw the next sequence numbers.
Execute(w, locks, writes, events, step, after, reply) ==
    /\ Free(w, locks)
    /\ drawn' = drawn + Len(events)
    /\ job' = [job EXCEPT
                  ![w].step = step, ![w].after = after, ![w].reply = reply,
                  ![w].tx = [locks |-> @.locks \cup locks,
                             writes |-> Over(writes, @.writes),
                             events |-> [n \in drawn + 1 .. drawn + Len(events) |->
                                            events[n - drawn]] ++ @.events]]
    /\ UNCHANGED <<db, log, at, rollbacks>>

\* A transaction whose statements need nothing between them.
Transact(w, locks, writes, events, after, reply) ==
    Execute(w, locks, writes, events, "commit", after, reply)

\* A step outside every transaction.
Go(w, step) ==
    /\ job' = [job EXCEPT ![w].step = step]
    /\ UNCHANGED <<db, log, drawn, at, rollbacks>>

Read(w, seen, step) ==
    /\ job' = [job EXCEPT ![w].step = step, ![w].seen = seen]
    /\ UNCHANGED <<db, log, drawn, at, rollbacks>>

Reply(w, reply) ==
    /\ job' = [job EXCEPT ![w].step = "idle", ![w].reply = reply]
    /\ UNCHANGED <<db, log, drawn, at, rollbacks>>

Commit(w) ==
    /\ job[w].step = "commit"
    /\ db' = Over(job[w].tx.writes, db)
    /\ log' = job[w].tx.events ++ log
    /\ job' = [job EXCEPT ![w].step = job[w].after, ![w].tx = NoTx]
    /\ UNCHANGED <<drawn, at, links, hooks, rollbacks>>

Ok(fields) == [result |-> "ok"] ++ fields
Refusal(code, recoverable) ==
    [result |-> "refusal", code |-> code, recoverable |-> recoverable]
Invalid(code) == [result |-> "validationError", code |-> code]
InternalError == [result |-> "internal_error"]

\* The codes of malformed input a purchase may meet; none is mistaken for no
\* objection.
ValidationCode ==
    {"INVALID_CAP", "INVALID_BUDGET", "CUSTODY_MISMATCH", "INTENT_NOT_FOUND", "CART_NOT_FOUND",
     "INVALID_CART_ITEMS", "INVALID_QUANTITY", "VARIANT_NOT_FOUND", "ORDER_NOT_FOUND"}

ASSUME NoFieldAssumption ==
    /\ \A code \in ValidationCode : Invalid(code) # NoField
    /\ NoField \notin Settled

\* The database loses w's transaction.  Its caller is answered 500; the gateway
\* keeps a webhook that was.
Rollback(w) ==
    /\ rollbacks < MaxRollbacks
    /\ job[w].tx # NoTx
    /\ rollbacks' = rollbacks + 1
    /\ job' = [job EXCEPT ![w].step = "idle", ![w].tx = NoTx, ![w].reply = InternalError]
    /\ hooks' = hooks \cup (IF job[w].call.call = "webhook" THEN {job[w].call.hook} ELSE {})
    /\ UNCHANGED <<db, log, drawn, at, links>>

\* The checks of a handler, in its order: what the first that applies says.
FirstObjection(checks) ==
    LET raised == {i \in DOMAIN checks : checks[i].when} IN
    IF raised = {} THEN NoField ELSE checks[Min(raised)].says

Check(when, says) == [when |-> when, says |-> says]

\* A ValidationError is only answered; a Refusal is on the log before it is.
Object(w, says, type, context) ==
    IF says.result = "refusal"
    THEN Transact(w, {}, <<>>,
                  <<Event(type, NoField,
                          [code |-> says.code, reason |-> says.code,
                           recoverable |-> says.recoverable] ++ context)>>,
                  "idle", says)
    ELSE Reply(w, says)

Open(w, call) ==
    job' = [job EXCEPT ![w] = [Idle EXCEPT !.step = call.call, !.call = call]]

-----------------------------------------------------------------------------
(***************************************************************************)
(* Registration and the mandates before payment.                           *)
(***************************************************************************)
\* requireRegisteredAgent, at the head of every endpoint but registration.
Registered(w, step) == job[w].step = step /\ job[w].call.token \in DOMAIN db.agents

TokenSteps == {"declare_intent", "create_cart", "submit_payment", "get_order_status"}

RefuseStranger(w) ==
    /\ job[w].step \in TokenSteps
    /\ job[w].call.token \notin DOMAIN db.agents
    /\ Object(w, Refusal("UNREGISTERED_AGENT", TRUE), "agent.refused", <<>>)
    /\ UNCHANGED <<links, hooks>>

\* newId: no Agent has the id.
RegisterAgent(w) ==
    LET c == job[w].call IN
    /\ job[w].step = "register_agent"
    /\ IF c.capPaise <= 0
       THEN Reply(w, Invalid("INVALID_CAP"))
       ELSE /\ c.agent \notin DOMAIN db.agents
            /\ Transact(w, {<<"agents", c.agent>>},
                [agents |-> Entry(c.agent, [capPaise |-> c.capPaise, custody |-> c.custody])],
                <<Event("agent.registered", NoField,
                        [agentId |-> c.agent, capPaise |-> c.capPaise])>>,
                "idle", Ok([agent |-> c.agent]))
    /\ UNCHANGED <<links, hooks>>

\* resolveSigningMode: a custodial Agent sends no signature, the other one must.
CustodyMismatch(agent, signs) ==
    (db.agents[agent].custody = "custodial") # (signs = "none")

\* A mandate's hash is unique: the insert of one that is there fails, and waits
\* for a transaction that is inserting it.
DeclareIntent(w) ==
    LET c == job[w].call
        says == FirstObjection(
            <<Check(c.budgetPaise <= 0, Invalid("INVALID_BUDGET")),
              Check(CustodyMismatch(c.token, c.signs), Invalid("CUSTODY_MISMATCH")),
              Check(c.signs = "other bytes", Refusal("INVALID_MANDATE", FALSE))>>) IN
    /\ Registered(w, "declare_intent")
    /\ IF says # NoField
       THEN Object(w, says, "mandate.refused", <<>>)
       ELSE IF c.intent \in DOMAIN db.intents THEN Reply(w, InternalError)
       ELSE Transact(w, {<<"intents", c.intent>>},
                [intents |-> Entry(c.intent, [agentId |-> c.token, budgetPaise |-> c.budgetPaise,
                                              consumedBy |-> NoField])],
                <<Event("mandate.intent_declared", NoField,
                        [agentId |-> c.token, intentHash |-> c.intent,
                         budgetPaise |-> c.budgetPaise])>>,
                "idle", Ok([intent |-> c.intent]))
    /\ UNCHANGED <<links, hooks>>

Published(v) == v \in DOMAIN db.variants /\ db.variants[v].published

Own(table, key, agent) == key \in DOMAIN table /\ table[key].agentId = agent

\* The items with the catalog's prices of now.
Pinned(items) ==
    [i \in DOMAIN items |-> [variantId |-> items[i].variantId, quantity |-> items[i].quantity,
                             unitPricePaise |-> db.variants[items[i].variantId].pricePaise]]

CartTotal(items) ==
    SumFunctionOnSet([i \in DOMAIN items |-> items[i].quantity * items[i].unitPricePaise],
                     DOMAIN items)

CreateCart(w) ==
    LET c == job[w].call
        says == FirstObjection(
            <<Check(~Own(db.intents, c.intent, c.token), Invalid("INTENT_NOT_FOUND")),
              Check(DOMAIN c.items = {}, Invalid("INVALID_CART_ITEMS")),
              Check(\E i \in DOMAIN c.items : c.items[i].quantity < 1,
                    Invalid("INVALID_QUANTITY")),
              Check(\E i, j \in DOMAIN c.items :
                        i # j /\ c.items[i].variantId = c.items[j].variantId,
                    Invalid("INVALID_CART_ITEMS")),
              Check(\E i \in DOMAIN c.items : ~Published(c.items[i].variantId),
                    Invalid("VARIANT_NOT_FOUND"))>>) IN
    /\ Registered(w, "create_cart")
    /\ IF says # NoField
       THEN Reply(w, says)
       ELSE IF c.cart \in DOMAIN db.carts THEN Reply(w, InternalError)
       ELSE LET items == Pinned(c.items) IN
            Transact(w, {<<"carts", c.cart>>},
                [carts |-> Entry(c.cart, [agentId |-> c.token, intent |-> c.intent, items |-> items,
                                          totalPaise |-> CartTotal(items),
                                          signed |-> db.agents[c.token].custody = "custodial"])],
                <<Event("mandate.cart_created", NoField,
                        [agentId |-> c.token, cartHash |-> c.cart, intentHash |-> c.intent,
                         items |-> items, totalAmountPaise |-> CartTotal(items)])>>,
                "idle",
                Ok([cart |-> c.cart, agent |-> c.token, intent |-> c.intent,
                    totalPaise |-> CartTotal(items),
                    signed |-> db.agents[c.token].custody = "custodial"]))
    /\ UNCHANGED <<links, hooks>>

-----------------------------------------------------------------------------
(***************************************************************************)
(* submit_payment: the trust gate, the Order, and its payment link.        *)
(***************************************************************************)
\* The mandate that already uses the request's idempotency key.
KeyOf(w) == <<job[w].call.token, job[w].call.key>>

ChainOf(c) == [cartHash |-> c.cart, intentHash |-> db.carts[c.cart].intent]

RefusePayment(w, says) == Object(w, says, "payment.refused", ChainOf(job[w].call))

\* Every read before the transaction, at one moment (Submission takes them
\* apart).
VerifyPayment(w) ==
    LET c == job[w].call
        cart == db.carts[c.cart]
        intent == db.intents[cart.intent]
        malformed == FirstObjection(
            <<Check(~Own(db.carts, c.cart, c.token), Invalid("CART_NOT_FOUND")),
              Check(\E signs \in {c.signs, c.signsCart} : CustodyMismatch(c.token, signs),
                    Invalid("CUSTODY_MISMATCH"))>>)
        short == {i \in DOMAIN cart.items :
                     /\ Published(cart.items[i].variantId)
                     /\ db.variants[cart.items[i].variantId].stock < cart.items[i].quantity}
        says == FirstObjection(
            <<Check("other bytes" \in {c.signs, c.signsCart}, Refusal("INVALID_MANDATE", FALSE)),
              Check(intent.consumedBy # NoField, Refusal("INTENT_CONSUMED", TRUE)),
              Check(\E i \in DOMAIN cart.items :
                        \/ ~Published(cart.items[i].variantId)
                        \/ db.variants[cart.items[i].variantId].pricePaise
                               # cart.items[i].unitPricePaise,
                    Refusal("PRICE_CHANGED", TRUE)),
              Check(short # {}, Refusal("OUT_OF_STOCK",
                        short # {} /\ db.variants[cart.items[Min(short)].variantId].stock > 0)),
              Check(cart.totalPaise > intent.budgetPaise, Refusal("OVER_BUDGET", TRUE))>>) IN
    /\ Registered(w, "submit_payment")
    /\ IF malformed # NoField THEN Reply(w, malformed)
       ELSE IF KeyOf(w) \in DOMAIN db.payments THEN Go(w, "key_known")
       ELSE IF says # NoField THEN RefusePayment(w, says)
       ELSE Go(w, "place_order")
    /\ UNCHANGED <<links, hooks>>

\* The key is in use: the original result again, or a Refusal.
ReplayOrRefuse(w) ==
    LET c == job[w].call
        first == db.payments[KeyOf(w)]
        row == db.orders[first.order] IN
    /\ job[w].step = "key_known"
    /\ CASE first.cart # c.cart -> RefusePayment(w, Refusal("IDEMPOTENCY_REUSE", TRUE))
         [] first.cart = c.cart /\ ~row.link -> Reply(w, InternalError)
         [] OTHER ->
               Transact(w, {}, <<>>,
                   <<Event("payment.replayed", first.order,
                           [agentId |-> c.token, idempotencyKey |-> c.key])>>,
                   "idle", Ok([order |-> first.order, status |-> row.status, link |-> TRUE,
                               payment |-> first.hash]))
    /\ UNCHANGED <<links, hooks>>

Amounts == [o \in DOMAIN db.orders |-> db.orders[o].amountPaise]

\* What counts against the Cap: everything neither cancelled nor refunded.
Spent(agent) ==
    SumFunctionOnSet(Amounts, {o \in DOMAIN db.orders :
                                  /\ db.orders[o].agentId = agent
                                  /\ db.orders[o].status \notin {"cancelled", "refunded"}})

\* The transaction behind the lock on the Agent's row.  It locks the row it
\* inserts too, whose id (newId) no Order has.
PlaceOrder(w) ==
    LET c == job[w].call
        cart == db.carts[c.cart]
        says == FirstObjection(
            <<Check(Spent(c.token) + cart.totalPaise > db.agents[c.token].capPaise,
                    Refusal("OVER_CAP", FALSE)),
              Check(db.intents[cart.intent].consumedBy # NoField,
                    Refusal("INTENT_CONSUMED", TRUE))>>) IN
    /\ job[w].step = "place_order"
    /\ Free(w, {<<"agents", c.token>>})
    /\ CASE says # NoField -> RefusePayment(w, says)
         [] says = NoField /\ KeyOf(w) \in DOMAIN db.payments -> Go(w, "key_known")
         [] OTHER ->
               /\ c.order \notin DOMAIN db.orders
               /\ Transact(w, {<<"agents", c.token>>, <<"orders", c.order>>},
                   [orders |-> Entry(c.order,
                        [agentId |-> c.token, items |-> cart.items, amountPaise |-> cart.totalPaise,
                         status |-> "created", link |-> FALSE, gatewayOrderId |-> NoField,
                         gatewayPaymentId |-> NoField, declined |-> {}, shortfall |-> {},
                         cancellationReason |-> NoField, refundReason |-> NoField]),
                    intents |-> Entry(cart.intent, [db.intents[cart.intent] EXCEPT
                                                       !.consumedBy = c.order]),
                    carts |-> Entry(c.cart, [cart EXCEPT !.signed = TRUE]),
                    payments |-> Entry(KeyOf(w), [cart |-> c.cart, order |-> c.order,
                                                  hash |-> PaymentHash(c)])],
                   <<Event("payment.verified", c.order,
                           [agentId |-> c.token, intentHash |-> cart.intent, cartHash |-> c.cart,
                            paymentHash |-> PaymentHash(c), amountPaise |-> cart.totalPaise,
                            idempotencyKey |-> c.key]),
                     Event("order.created", c.order,
                           [agentId |-> c.token, cartHash |-> c.cart,
                            amountPaise |-> cart.totalPaise])>>,
                   "attempt_link", NoField)
    /\ UNCHANGED <<links, hooks>>

AttemptLink(w) ==
    /\ job[w].step = "attempt_link"
    /\ Transact(w, {}, <<>>,
           <<Event("gateway.payment_link_attempted", job[w].call.order,
                   [amountPaise |-> db.orders[job[w].call.order].amountPaise])>>,
           "create_link", NoField)
    /\ UNCHANGED <<links, hooks>>

\* captured, failures, refunded: what the gateway has done under the link.
NewLink(amountPaise) ==
    [amountPaise |-> amountPaise, captured |-> FALSE, failures |-> 0, refunded |-> FALSE]

\* createPaymentLink answers, or throws and the request is a 500.
CreateLink(w) ==
    LET o == job[w].call.order IN
    /\ job[w].step = "create_link"
    /\ \/ /\ links' = Entry(o, NewLink(db.orders[o].amountPaise)) ++ links
          /\ Go(w, "issue_link")
       \/ /\ GatewayMayFail
          /\ Reply(w, InternalError)
          /\ UNCHANGED links
    /\ UNCHANGED hooks

IssueLink(w) ==
    LET o == job[w].call.order IN
    /\ job[w].step = "issue_link"
    /\ Transact(w, {<<"orders", o>>},
           [orders |-> Entry(o, [db.orders[o] EXCEPT !.link = TRUE, !.status = "awaiting_payment"])],
           <<Event("gateway.payment_link_issued", o, [amountPaise |-> links[o].amountPaise])>>,
           "idle", Ok([order |-> o, status |-> "awaiting_payment", link |-> TRUE,
                       payment |-> PaymentHash(job[w].call)]))
    /\ UNCHANGED <<links, hooks>>

-----------------------------------------------------------------------------
(***************************************************************************)
(* The gateway (external), and the human at its payment page: a call of a  *)
(* script once the Order carries its link.                                 *)
(***************************************************************************)
Hook(o, event, payment) == [order |-> o, event |-> event, payment |-> payment]

\* The human has the link once the Order carries it.
HasLink(o) == o \in DOMAIN db.orders /\ db.orders[o].link

\* What an event of a paid link carries as its payment's id.
PaymentNamed(o) == {CapturedPayment(o)} \cup (IF UnnamedPayments THEN {NoField} ELSE {})

\* A capture fires two events; asking again fires them again.
CompletePayment(w) ==
    LET o == job[w].call.order IN
    /\ job[w].step = "complete_payment"
    /\ IF HasLink(o)
       THEN /\ links' = [links EXCEPT ![o].captured = TRUE]
            /\ \E payment \in PaymentNamed(o) :
                  hooks' = hooks \cup {Hook(o, "payment_link.paid", payment),
                                      Hook(o, "payment.captured", CapturedPayment(o))}
            /\ Reply(w, Ok(<<>>))
       ELSE Reply(w, InternalError) /\ UNCHANGED <<links, hooks>>

FailPayment(w) ==
    LET o == job[w].call.order IN
    /\ job[w].step = "fail_payment"
    /\ IF HasLink(o) /\ ~links[o].captured
       THEN /\ links' = [links EXCEPT ![o].failures = @ + 1]
            /\ hooks' = hooks \cup {Hook(o, "payment.failed", <<o, links[o].failures + 1>>)}
            /\ Reply(w, Ok(<<>>))
       ELSE Reply(w, InternalError) /\ UNCHANGED <<links, hooks>>

-----------------------------------------------------------------------------
(***************************************************************************)
(* A webhook: recorded first, then applied behind the lock on the Order's  *)
(* row, then fulfilled behind the locks on its Variants' rows, all in one  *)
(* transaction.                                                            *)
(***************************************************************************)
Outcome(result) == [result |-> result, refund |-> NoField]

\* The number is read, and drawn only by the next insert.
BrokenReceive(w, hook) ==
    /\ hook \in hooks
    /\ hooks' = hooks \ {hook}
    /\ job' = [job EXCEPT ![w] =
                  [Idle EXCEPT
                      !.step = "apply",
                      !.call = [call |-> "webhook", hook |-> hook, order |-> hook.order],
                      !.tx.events = Entry(drawn + 1,
                          Event("gateway.webhook_received", hook.order, [kind |-> hook.event]))]]
    /\ UNCHANGED <<db, log, drawn, links, rollbacks>>

Receive(w, hook) ==
    /\ hook \in hooks
    /\ hooks' = hooks \ {hook}
    /\ drawn' = drawn + 1
    /\ job' = [job EXCEPT ![w] =
                  [Idle EXCEPT
                      !.step = "apply",
                      !.call = [call |-> "webhook", hook |-> hook, order |-> hook.order],
                      !.tx.events = Entry(drawn + 1,
                          Event("gateway.webhook_received", hook.order, [kind |-> hook.event]))]]
    /\ UNCHANGED <<db, log, links, rollbacks>>

OrderOf(w) == db.orders[job[w].call.order]

\* The first delivery tells us the gateway's own order id.
Linked(w) == [OrderOf(w) EXCEPT !.gatewayOrderId = <<"gateway order", job[w].call.order>>]

LinkEvents(w) ==
    IF OrderOf(w).gatewayOrderId = NoField
    THEN <<Event("gateway.order_linked", job[w].call.order, <<>>)>>
    ELSE <<>>

\* What the Order's transaction does, and the events after gateway.order_linked.
ApplyTo(w, row, events, step, outcome) ==
    Execute(w, {<<"orders", job[w].call.order>>}, [orders |-> Entry(job[w].call.order, row)],
            LinkEvents(w) \o events, step, "idle", outcome)

\* Definitions named Broken... are none of the model: each is the bug that a
\* property of the runs is there to catch, put in place of the definition that
\* follows it (README, Mutants).

\* A second capture of a paid Order is applied again.
BrokenPayable(row) == row.status \in {"created", "awaiting_payment", "paid"}

Payable(row) == row.status \in {"created", "awaiting_payment"}

\* The event's payment, or else the one the row knows of.  The code reads the row
\* before it has the lock, but nothing sets that column before the Order is paid.
BoundPayment(w) ==
    IF job[w].call.hook.payment = NoField
    THEN OrderOf(w).gatewayPaymentId
    ELSE job[w].call.hook.payment

\* The Receipt restates the verified chain.
ReceiptOf(w) ==
    LET o == job[w].call.order
        key == CHOOSE k \in DOMAIN db.payments : db.payments[k].order = o
        cart == db.payments[key].cart IN
    [intentHash |-> db.carts[cart].intent, cartHash |-> cart,
     paymentHash |-> db.payments[key].hash, amountPaise |-> OrderOf(w).amountPaise,
     gatewayPaymentId |-> BoundPayment(w)]

\* A Receipt attests a charge: without its id none is minted.
MintedReceipt(w) ==
    IF BoundPayment(w) = NoField THEN <<>> ELSE Entry(job[w].call.order, ReceiptOf(w))

MintEvent(w) ==
    IF BoundPayment(w) = NoField
    THEN Event("order.anomaly_detected", job[w].call.order,
               [reason |-> "missing_gateway_payment_id"])
    ELSE Event("receipt.issued", job[w].call.order, ReceiptOf(w))

ApplyCapture(w) ==
    LET o == job[w].call.order
        row == Linked(w) IN
    /\ job[w].step = "apply"
    /\ job[w].call.hook.event # "payment.failed"
    /\ CASE Payable(row) ->
              Execute(w, {<<"orders", o>>},
                  [orders |-> Entry(o, [row EXCEPT !.status = "paid",
                                                   !.gatewayPaymentId = BoundPayment(w)]),
                   receipts |-> MintedReceipt(w)],
                  LinkEvents(w) \o
                  <<Event("order.paid", o, [gatewayPaymentId |-> job[w].call.hook.payment,
                                            amountPaise |-> links[o].amountPaise]),
                    MintEvent(w)>>,
                  "fulfil", "idle", NoField)
         [] row.status = "cancelled" ->
              ApplyTo(w, row, <<Event("order.anomaly_detected", o,
                                      [reason |-> "payment_after_cancellation"])>>,
                      "commit", Outcome("anomaly"))
         [] OTHER -> ApplyTo(w, row, <<>>, "commit", Outcome("already_paid"))
    /\ UNCHANGED <<links, hooks>>

\* What the buyer is told of a cancelled Order.
DeclinePayload(attempts) == [code |-> "PAYMENT_DECLINED", attempts |-> attempts]

ApplyFailure(w) ==
    LET o == job[w].call.order
        row == Linked(w)
        payment == job[w].call.hook.payment
        attempt == Cardinality(row.declined) + 1
        counted == [row EXCEPT !.declined = @ \cup {payment}]
        declinedEvent == Event("payment.declined", o, [attempt |-> attempt]) IN
    /\ job[w].step = "apply"
    /\ job[w].call.hook.event = "payment.failed"
    /\ CASE ~Payable(row) \/ payment \in row.declined ->
              ApplyTo(w, row, <<>>, "commit", Outcome("recorded"))
         [] Payable(row) /\ payment \notin row.declined /\ attempt < PaymentAttemptLimit ->
              ApplyTo(w, counted, <<declinedEvent>>, "commit", Outcome("decline_recorded"))
         [] OTHER ->
              ApplyTo(w, [counted EXCEPT !.status = "cancelled",
                                         !.cancellationReason = DeclinePayload(attempt)],
                      <<declinedEvent,
                        Event("order.cancelled", o, [decline |-> DeclinePayload(attempt)])>>,
                      "commit", Outcome("order_cancelled"))
    /\ UNCHANGED <<links, hooks>>

\* Every line's stock, or none of it and the Order is oversold.
Fulfil(w) ==
    LET o == job[w].call.order
        items == OrderOf(w).items
        row == job[w].tx.writes.orders[o]
        sold == {items[i].variantId : i \in DOMAIN items}
        Quantity(v) == items[CHOOSE i \in DOMAIN items : items[i].variantId = v].quantity
        short == {[variantId |-> v, requested |-> Quantity(v), available |-> db.variants[v].stock] :
                     v \in {v \in sold : db.variants[v].stock < Quantity(v)}} IN
    /\ job[w].step = "fulfil"
    /\ IF short = {}
       THEN Execute(w, {<<"variants", v>> : v \in sold},
                [variants |-> [v \in sold |-> [db.variants[v] EXCEPT !.stock = @ - Quantity(v)]]],
                <<Event("order.fulfilled", o, <<>>)>>,
                "commit", "idle", Outcome("order_paid"))
       ELSE Execute(w, {<<"variants", v>> : v \in sold},
                [orders |-> Entry(o, [row EXCEPT !.shortfall = short])],
                <<Event("order.oversell_detected", o, [shortfalls |-> short])>>,
                "commit", "refund", NoField)
    /\ UNCHANGED <<links, hooks>>

-----------------------------------------------------------------------------
(***************************************************************************)
(* The automatic refund, after the transaction that found the Oversell.    *)
(***************************************************************************)
Refunded(result) == [result |-> "oversell_detected", refund |-> result]

\* The failure is on the log, and the Order stays paid.
FlagRefund(w) ==
    Transact(w, {}, <<>>,
        <<Event("order.anomaly_detected", job[w].call.order, [reason |-> "refund_failed"])>>,
        "idle", Refunded("refund_failed"))

\* Without the payment's id there is nothing to refund against.
AttemptRefund(w) ==
    LET o == job[w].call.order
        oversold == OrderOf(w).status = "paid" /\ OrderOf(w).shortfall # {} IN
    /\ job[w].step = "refund"
    /\ CASE ~oversold -> Reply(w, Refunded("not_oversold"))
         [] oversold /\ OrderOf(w).gatewayPaymentId = NoField -> FlagRefund(w)
         [] OTHER ->
               Transact(w, {}, <<>>,
                   <<Event("gateway.refund_attempted", o, [amountPaise |-> OrderOf(w).amountPaise])>>,
                   "refund_call", NoField)
    /\ UNCHANGED <<links, hooks>>

\* refundPayment answers, or throws: the payment was refunded before, or the
\* gateway refuses.
CallRefund(w) ==
    LET o == job[w].call.order IN
    /\ job[w].step = "refund_call"
    /\ \/ /\ links[o].captured /\ ~links[o].refunded
          /\ links' = [links EXCEPT ![o].refunded = TRUE]
          /\ Go(w, "refund_record")
       \/ /\ GatewayMayFail \/ links[o].refunded
          /\ Go(w, "refund_failed")
          /\ UNCHANGED links
    /\ UNCHANGED hooks

\* What the buyer is told of a refunded one: all of it came back.
OversellPayload(row) ==
    [code |-> "OVERSOLD", shortfalls |-> row.shortfall, refundPaise |-> row.amountPaise]

\* A refund receipt names the Receipt it gives back: without one none is minted,
\* which the code guards against and no refunded Order has met (OrderKept).
RefundReceipt(w) ==
    [r \in {job[w].call.order} \cap DOMAIN db.receipts |->
        [receipt |-> db.receipts[r], amountPaise |-> OrderOf(w).amountPaise]]

RefundMintEvent(w) ==
    IF job[w].call.order \in DOMAIN db.receipts
    THEN Event("receipt.refund_issued", job[w].call.order, [amountPaise |-> OrderOf(w).amountPaise])
    ELSE Event("order.anomaly_detected", job[w].call.order, [reason |-> "missing_original_receipt"])

RecordRefund(w) ==
    LET o == job[w].call.order
        oversell == OversellPayload(OrderOf(w)) IN
    /\ job[w].step = "refund_record"
    /\ IF OrderOf(w).status = "paid"
       THEN Transact(w, {<<"orders", o>>},
                [orders |-> Entry(o, [OrderOf(w) EXCEPT !.status = "refunded",
                                                        !.refundReason = oversell]),
                 refundReceipts |-> RefundReceipt(w)],
                <<Event("order.refunded", o, [amountPaise |-> OrderOf(w).amountPaise,
                                                oversell |-> oversell]),
                  RefundMintEvent(w)>>,
                "idle", Refunded("order_refunded"))
       ELSE Reply(w, Refunded("not_oversold"))
    /\ UNCHANGED <<links, hooks>>

RecordRefundFailure(w) ==
    /\ job[w].step = "refund_failed"
    /\ FlagRefund(w)
    /\ UNCHANGED <<links, hooks>>

-----------------------------------------------------------------------------
(***************************************************************************)
(* What the store shows.  A page is several queries, each of them sees     *)
(* what is committed when it runs.                                         *)
(***************************************************************************)
GetProduct(w) ==
    /\ job[w].step = "get_product"
    /\ Reply(w, Ok([stock |-> [v \in {v \in DOMAIN db.variants : Published(v)} |->
                                  db.variants[v].stock]]))
    /\ UNCHANGED <<links, hooks>>

\* toOrderStatusView.
StatusView(row) ==
    [status |-> row.status, decline |-> row.cancellationReason, oversell |-> row.refundReason]

\* get_order_status: the Order's row, its Receipt, its refund receipt.
ReadOrder(w) ==
    LET o == job[w].call.order IN
    /\ Registered(w, "get_order_status")
    /\ IF o \in DOMAIN db.orders
       THEN Read(w, [row |-> db.orders[o]], "read_receipt")
       ELSE Reply(w, Invalid("ORDER_NOT_FOUND"))
    /\ UNCHANGED <<links, hooks>>

\* The status is asked for again, and may have changed.
BrokenReadReceipt(w) ==
    /\ job[w].step = "read_receipt"
    /\ Read(w, [receipt |-> IF db.orders[job[w].call.order].status \in {"paid", "refunded"}
                            THEN RowAt(db.receipts, job[w].call.order) ELSE {}]
               ++ job[w].seen,
            "read_refund_receipt")
    /\ UNCHANGED <<links, hooks>>

ReadReceipt(w) ==
    /\ job[w].step = "read_receipt"
    /\ Read(w, [receipt |-> IF job[w].seen.row.status \in {"paid", "refunded"}
                            THEN RowAt(db.receipts, job[w].call.order) ELSE {}]
               ++ job[w].seen,
            "read_refund_receipt")
    /\ UNCHANGED <<links, hooks>>

ReadRefundReceipt(w) ==
    LET row == job[w].seen.row IN
    /\ job[w].step = "read_refund_receipt"
    /\ Reply(w, Ok([order |-> job[w].call.order, receipt |-> job[w].seen.receipt,
                    refundReceipt |-> IF row.status = "refunded"
                                      THEN RowAt(db.refundReceipts, job[w].call.order)
                                      ELSE {}] ++ StatusView(row)))
    /\ UNCHANGED <<links, hooks>>

HappyPath ==
    {"mandate.intent_declared", "mandate.cart_created", "payment.verified", "order.created",
     "gateway.payment_link_attempted", "gateway.payment_link_issued",
     "gateway.webhook_received", "order.paid", "receipt.issued"}

MissingSteps(events) == HappyPath \ {log[n].type : n \in events}

\* GET /audit/:orderId: the Order's row, then the mandates it was bought under,
\* then the events of both.
ReadAuditedOrder(w) ==
    /\ job[w].step = "audit_page"
    /\ Read(w, [row |-> RowAt(db.orders, job[w].call.order)], "audit_mandates")
    /\ UNCHANGED <<links, hooks>>

ReadMandates(w) ==
    LET keys == {k \in DOMAIN db.payments : db.payments[k].order = job[w].call.order} IN
    /\ job[w].step = "audit_mandates"
    /\ Read(w, [carts |-> {db.payments[k].cart : k \in keys},
                intents |-> {db.carts[db.payments[k].cart].intent : k \in keys}]
               ++ job[w].seen,
            "audit_events")
    /\ UNCHANGED <<links, hooks>>

MandateEvents(carts, intents) ==
    {n \in DOMAIN log :
        /\ log[n].order = NoField
        /\ \/ log[n].type = "mandate.cart_created" /\ Field(log[n], "cartHash") \in carts
           \/ log[n].type = "mandate.intent_declared" /\ Field(log[n], "intentHash") \in intents}

ReadAuditEvents(w) ==
    LET o == job[w].call.order
        found == job[w].seen.row
        events == {n \in DOMAIN log : log[n].order = o}
                  \cup MandateEvents(job[w].seen.carts, job[w].seen.intents) IN
    /\ job[w].step = "audit_events"
    /\ Reply(w, IF found = {} /\ events = {}
                THEN Invalid("order_not_found")
                ELSE Ok([order |-> o, chain |-> [n \in events |-> log[n].type],
                         missingSteps |-> MissingSteps(events),
                         anomalies |-> Cardinality({n \in events :
                                           log[n].type = "order.anomaly_detected"})]
                        ++ IF found = {} THEN [status |-> NoField]
                           ELSE StatusView(CHOOSE row \in found : TRUE)))
    /\ UNCHANGED <<links, hooks>>

\* GET /audit/refusals/:seq: the Refusal, then what it was refused for.
ReadRefusal(w) ==
    LET n == job[w].call.seq IN
    /\ job[w].step = "refusal_page"
    /\ IF n \in DOMAIN log /\ log[n].type \in RefusalTypes
       THEN Read(w, log[n], "refusal_context")
       ELSE Reply(w, Invalid("refusal_not_found"))
    /\ UNCHANGED <<links, hooks>>

\* With the mandates it names, and the other Refusals under its Intent.
ReadRefusalContext(w) ==
    LET about(f) == {Field(job[w].seen, f)} \ {NoField}
        siblings == {n \in DOMAIN log : /\ log[n].type \in RefusalTypes
                                        /\ Field(log[n], "intentHash") \in about("intentHash")}
        events == {job[w].call.seq} \cup siblings
                  \cup MandateEvents(about("cartHash"), about("intentHash")) IN
    /\ job[w].step = "refusal_context"
    /\ Reply(w, Ok([refused |-> job[w].seen.payload.code,
                    chain |-> [n \in events |-> log[n].type]]))
    /\ UNCHANGED <<links, hooks>>

\* store_summary: counts and sums in one statement.  A sum that is not an int4
\* fails the statement, in whichever bucket it is.
Bucket(status) == {o \in DOMAIN db.orders : db.orders[o].status = status}

Paise(os) == SumFunctionOnSet(Amounts, os)

\* The cast keeps the low bits of the sum.
BrokenStoreCounts ==
    Ok([ordersByStatus |-> [s \in OrderStatuses |-> Cardinality(Bucket(s))],
        revenuePaiseTotal |-> Paise(Bucket("paid")) % (Int4Max + 1)])

StoreCounts ==
    IF \E s \in OrderStatuses : Paise(Bucket(s)) > Int4Max
    THEN InternalError
    ELSE Ok([ordersByStatus |-> [s \in OrderStatuses |-> Cardinality(Bucket(s))],
             revenuePaiseTotal |-> Paise(Bucket("paid"))])

ReadStoreCounts(w) ==
    /\ job[w].step = "store_summary"
    /\ Reply(w, StoreCounts)
    /\ UNCHANGED <<links, hooks>>

\* The merchant's catalog writers, as far as a purchase sees them: one UPDATE of
\* the Variant's row.
EditVariant(w) ==
    LET c == job[w].call IN
    /\ job[w].step = "edit_variant"
    /\ Free(w, {<<"variants", c.variant>>})
    /\ db' = [db EXCEPT !.variants[c.variant] = c.set ++ @]
    /\ job' = [job EXCEPT ![w].step = "idle", ![w].reply = Ok(<<>>)]
    /\ UNCHANGED <<log, drawn, at, links, hooks, rollbacks>>

-----------------------------------------------------------------------------
Init ==
    /\ db = Seeded
    /\ log = SeededLog
    /\ drawn = Max({0} \cup DOMAIN SeededLog)
    /\ job = [w \in Workers |-> Idle]
    /\ at = [c \in Clients |-> 0]
    /\ links = [o \in {o \in DOMAIN Seeded.orders : Seeded.orders[o].link} |->
                    NewLink(Seeded.orders[o].amountPaise)]
    /\ hooks = {}
    /\ rollbacks = 0

\* A client makes its next call; the gateway delivers a webhook.
CallStore(c) ==
    /\ job[c].step = "idle"
    /\ at[c] < Len(Script[c])
    /\ at' = [at EXCEPT ![c] = @ + 1]
    /\ \E call \in Script[c][at[c] + 1] : Open(c, call)
    /\ UNCHANGED <<db, log, drawn, links, hooks, rollbacks>>

DeliverHook(d) ==
    /\ job[d].step = "idle"
    /\ \E hook \in hooks : Receive(d, hook)
    /\ UNCHANGED at

Mandates(w) ==
    \/ RefuseStranger(w)
    \/ RegisterAgent(w)
    \/ DeclareIntent(w)
    \/ CreateCart(w)

Submission(w) ==
    \/ VerifyPayment(w)
    \/ ReplayOrRefuse(w)
    \/ PlaceOrder(w)
    \/ AttemptLink(w)
    \/ CreateLink(w)
    \/ IssueLink(w)

Settlement(w) ==
    \/ CompletePayment(w)
    \/ FailPayment(w)
    \/ ApplyCapture(w)
    \/ ApplyFailure(w)
    \/ Fulfil(w)
    \/ AttemptRefund(w)
    \/ CallRefund(w)
    \/ RecordRefund(w)
    \/ RecordRefundFailure(w)

Pages(w) ==
    \/ GetProduct(w)
    \/ ReadOrder(w)
    \/ ReadReceipt(w)
    \/ ReadRefundReceipt(w)
    \/ ReadAuditedOrder(w)
    \/ ReadMandates(w)
    \/ ReadAuditEvents(w)
    \/ ReadRefusal(w)
    \/ ReadRefusalContext(w)
    \/ ReadStoreCounts(w)

Serve(w) ==
    \/ Mandates(w)
    \/ Submission(w)
    \/ Settlement(w)
    \/ Pages(w)
    \/ EditVariant(w)
    \/ Commit(w)
    \/ Rollback(w)

\* Every caller was answered, and nothing is on its way.
Rest ==
    /\ \A w \in Workers : job[w].step = "idle"
    /\ \A c \in Clients : at[c] = Len(Script[c])
    /\ hooks = {}

Closed == Rest /\ UNCHANGED vars

Next ==
    \/ \E c \in Clients : CallStore(c)
    \/ \E d \in Deliverers : DeliverHook(d)
    \/ \E w \in Workers : Serve(w)
    \/ Closed

Spec == Init /\ [][Next]_vars

-----------------------------------------------------------------------------
(***************************************************************************)
(* Properties.                                                             *)
(***************************************************************************)
Steps == {"idle", "commit", "register_agent", "declare_intent", "create_cart", "submit_payment",
          "key_known", "place_order", "attempt_link", "create_link", "issue_link",
          "complete_payment", "fail_payment", "apply", "fulfil", "refund", "refund_call",
          "refund_record", "refund_failed", "get_product", "get_order_status", "read_receipt",
          "read_refund_receipt", "audit_page", "audit_mandates", "audit_events",
          "refusal_page", "refusal_context", "store_summary", "edit_variant"}

\* Types, and what the rows and numbers may be: sequence numbers are drawn once
\* each, by the log or by one open transaction.
TypeOK ==
    /\ DOMAIN db = Tables
    /\ \A o \in DOMAIN db.orders : db.orders[o].status \in OrderStatuses
    /\ \A v \in DOMAIN db.variants : db.variants[v].stock \in Nat
    /\ drawn \in Nat
    /\ DOMAIN log \subseteq 1 .. drawn
    /\ \A w \in Workers :
          /\ job[w].step \in Steps /\ job[w].after \in Steps
          /\ DOMAIN job[w].tx.events \subseteq (1 .. drawn) \ DOMAIN log
          /\ \A v \in Workers \ {w} :
                DOMAIN job[v].tx.events \cap DOMAIN job[w].tx.events = {}
    /\ at \in [Clients -> Nat]
    /\ \A o \in DOMAIN links : links[o].captured \in BOOLEAN /\ links[o].refunded \in BOOLEAN
    /\ \A hook \in hooks : hook.order \in DOMAIN db.orders
    /\ rollbacks \in 0 .. MaxRollbacks

\* The rule auditor finds nothing wrong with the log at any moment: though
\* transactions draw their numbers long before they commit and some never do,
\* no prefix of commits shows a charge above the Cap, twice for a key or an
\* Order, or without its verified chain (auditRules over exportAuditEvents).
AuditFindsNothing == Audit(<<log>>).violations = {}

\* Whenever the store summary answers, its revenue is what the audit log says
\* was captured and not given back, to the paisa, and its paid and refunded
\* Orders are the log's: a sum beyond int4 is an error, never a smaller number
\* (readStoreCounts beside auditRules).
BooksAgree ==
    LET book == Audit(<<log>>) IN
    StoreCounts.result = "ok" =>
        /\ StoreCounts.revenuePaiseTotal = Captured(book)
        /\ StoreCounts.ordersByStatus["paid"] = Cardinality(book.paid \ book.refunded)
        /\ StoreCounts.ordersByStatus["refunded"] = Cardinality(book.refunded)

Answered(w, call) == job[w].step = "idle" /\ job[w].call.call = call /\ job[w].reply.result = "ok"

\* A status answer has the Receipts its status promises, of the same amount and
\* for the payment the Order was placed with: a paid Order has its Receipt unless
\* the log says that nobody named its payment, and a refunded one has both
\* (readOrderStatus).
StatusIsWhole(reply) ==
    /\ reply.receipt # {} => reply.status \in Settled
    /\ reply.receipt = {} /\ reply.status \in Settled =>
          Unbound({log[n] : n \in DOMAIN log}, reply.order)
    /\ \A receipt \in reply.receipt : Restates(receipt, reply.order, db.payments)
    /\ (reply.refundReceipt # {}) = (reply.status = "refunded")
    /\ reply.status = "refunded" => reply.receipt # {}
    /\ \A receipt \in reply.receipt, refund \in reply.refundReceipt :
          /\ refund.receipt = receipt
          /\ refund.amountPaise = receipt.amountPaise
          /\ reply.oversell.refundPaise = receipt.amountPaise

TypesOn(page) == {page.chain[n] : n \in DOMAIN page.chain}

\* Every event that the Order's status was written with is there, the mandates
\* among them, and a paid Order misses no step of the happy path but a Receipt
\* that an anomaly accounts for.
CoversStatus(page) ==
    /\ {"mandate.intent_declared", "mandate.cart_created"} \cup Recorded[page.status]
          \subseteq TypesOn(page)
    /\ page.status \in Settled =>
          /\ page.missingSteps \subseteq {"receipt.issued"}
          /\ page.missingSteps = {} \/ "order.anomaly_detected" \in TypesOn(page)

\* Paid or cancelled, never both: no later event contradicts the status.
TellsOneEnding(page) == ~ {"order.paid", "order.cancelled"} \subseteq TypesOn(page)

\* An audit page reads its Order's row first and its events last, so the row may
\* be older than the chain beside it: an Order that waits for its payment, shown
\* with the whole chain of one that was paid, is an answer the code gives.  What
\* it never gives is a status that the chain beside it does not bear out, or
\* contradicts (GET /audit/:orderId).
AuditPageIsWhole(page) == page.status # NoField => CoversStatus(page) /\ TellsOneEnding(page)

\* A Refusal's page shows the mandates it was refused under (readRefusalContext).
RefusalPageIsWhole(reply) ==
    reply.refused \in ChainCodes =>
        {"mandate.cart_created", "mandate.intent_declared"}
            \subseteq {reply.chain[n] : n \in DOMAIN reply.chain}

\* An answer put together by several queries, with commits between them, holds
\* together: what it read first is borne out by what it read later.
ReadsAreWhole ==
    \A w \in {c \in Clients : job[c].call # NoField} :
        /\ Answered(w, "get_order_status") => StatusIsWhole(job[w].reply)
        /\ Answered(w, "audit_page") => AuditPageIsWhole(job[w].reply)
        /\ Answered(w, "refusal_page") => RefusalPageIsWhole(job[w].reply)
=============================================================================
