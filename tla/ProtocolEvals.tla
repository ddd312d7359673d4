---------------------------- MODULE ProtocolEvals ----------------------------
(***************************************************************************)
(* The protocol eval suite, the two failure rehearsals, the reference      *)
(* buyer's purchases and the runner of the live evals, against the store   *)
(* of Storefront.  Each of them is a script of calls through a face (MCP,  *)
(* REST, or the domain functions themselves) with what each call is        *)
(* expected to answer, in a world of its own: an empty store with two      *)
(* Variants.  A step that is not answered as expected ends it.  The log of *)
(* a scenario is exported in either case, and the rule auditor reads the   *)
(* exported logs as one batch.                                             *)
(***************************************************************************)
EXTENDS Storefront, TLC

CONSTANTS
    driver,   \* the buyer of the scenarios: the one client of the store
    tee, cap  \* the two Variants of the seeded catalog

ASSUME ProtocolEvalsAssumption == Clients = {driver} /\ tee # cap

VARIABLES
    world,     \* which scenario runs
    position,  \* which of its steps is next
    asked,     \* has that step's call been made?
    outcomes,  \* what the webhooks delivered by the step were answered
    failed,    \* has a step of the scenario failed?
    verdicts,  \* of the scenarios that are over: did they pass?
    exported,  \* their audit logs
    takings,   \* their revenues, as their stores count it
    audited,   \* events of the batch the rule auditor has read
    book       \* what it has learned from them

suiteVars == <<world, position, asked, outcomes, failed, verdicts, exported, takings>>
auditVars == <<audited, book>>

-----------------------------------------------------------------------------
(***************************************************************************)
(* The faces: what a buyer's driver makes of the store's answer.           *)
(***************************************************************************)
ErrorBody(reply) ==
    CASE reply.result = "refusal" ->
            [refusal |-> [code |-> reply.code, recoverable |-> reply.recoverable]]
      [] reply.result = "validationError" -> [validationError |-> [code |-> reply.code]]
      [] OTHER -> [error |-> reply.result]

Failed(reply) == reply.result \in {"refusal", "validationError", "internal_error"}

\* The Receipts of an answer, as their checks read them.
Attested(reply) ==
    IF {"receipt", "refundReceipt"} \subseteq DOMAIN reply
    THEN [attestedPaise |-> {receipt.amountPaise : receipt \in reply.receipt},
          refundPaired |-> {[receipt |-> refund.receipt, paise |-> refund.amountPaise] :
                                refund \in reply.refundReceipt}
                               = {[receipt |-> receipt, paise |-> receipt.amountPaise] :
                                      receipt \in reply.receipt}]
    ELSE <<>>

Body(reply) == IF Failed(reply) THEN ErrorBody(reply) ELSE reply @@ Attested(reply)

\* withToolErrors: Refusals and ValidationErrors are results, marked isError.
McpResult(reply) == [isError |-> Failed(reply), body |-> Body(reply)]

\* Definitions named Broken... are none of the model: each is the bug that a
\* property of the runs is there to catch, put in place of the definition that
\* follows it (README, Mutants).

\* The router's error handler lets a Refusal through to the default one.
BrokenRestResponse(reply) ==
    [body |-> IF reply.result = "refusal" THEN [error |-> reply.result] ELSE Body(reply),
     status |-> IF reply.result = "refusal" THEN 500
                ELSE IF reply.result = "validationError" THEN 400
                ELSE IF reply.result = "internal_error" THEN 500 ELSE 200]

\* REST answers errors with distinct statuses.
RestResponse(reply) ==
    [body |-> Body(reply),
     status |-> CASE reply.result = "refusal" -> 403
                  [] reply.result = "validationError" ->
                        IF reply.code = "ORDER_NOT_FOUND" THEN 404 ELSE 400
                  [] reply.result = "internal_error" -> 500
                  [] OTHER -> 200]

Part(body, f) == IF f \in DOMAIN body THEN body[f] ELSE NoField

Classify(ok, body) ==
    [ok |-> ok, body |-> body, refusal |-> Part(body, "refusal"),
     validationError |-> Part(body, "validationError")]

FaceResult(face, reply) ==
    CASE face = "mcp"  -> Classify(~McpResult(reply).isError, McpResult(reply).body)
      [] face = "rest" -> Classify(RestResponse(reply).status \in 200 .. 299,
                                   RestResponse(reply).body)
      [] OTHER         -> Classify(~Failed(reply), Body(reply))

-----------------------------------------------------------------------------
(***************************************************************************)
(* Expectations.                                                           *)
(***************************************************************************)
ExpectOk(body) == [ok |-> TRUE, body |-> body]

ExpectRefusal(code, recoverable) ==
    [ok |-> FALSE, refusal |-> [code |-> code, recoverable |-> recoverable]]

ExpectValidationError(code) ==
    [ok |-> FALSE, validationError |-> [code |-> code], refusal |-> NoField]

Agrees(part, expected) ==
    /\ part # NoField
    /\ \A f \in DOMAIN expected : f \in DOMAIN part /\ part[f] = expected[f]

Met(result, expect) ==
    \A f \in DOMAIN expect :
        IF f = "ok" \/ expect[f] = NoField THEN result[f] = expect[f]
        ELSE Agrees(result[f], expect[f])

Step(face, call, expect) ==
    [face |-> face, call |-> call, expect |-> expect, deliver |-> "all", outcome |-> NoField]

TeePrice == 129900
CapPrice == 49900

SeededCatalog ==
    [t \in Tables |->
        IF t = "variants"
        THEN tee :> [stock |-> 5, pricePaise |-> TeePrice, published |-> TRUE]
             @@ cap :> [stock |-> 5, pricePaise |-> CapPrice, published |-> TRUE]
        ELSE <<>>]

Line(variant, quantity) == [variantId |-> variant, quantity |-> quantity]
OneTee == <<Line(tee, 1)>>
OneCap == <<Line(cap, 1)>>

\* Every identifier is random in the code; here it names its scenario s, so the
\* worlds share none.
Register(s, face, a, capPaise, custody) ==
    <<Step(face, [call |-> "register_agent", agent |-> <<s, a>>, capPaise |-> capPaise,
                  custody |-> custody], ExpectOk(<<>>))>>

RegisterBuyer(s, face, a, capPaise) == Register(s, face, a, capPaise, "custodial")

Declare(s, face, a, n, budgetPaise, signs, expect) ==
    <<Step(face, [call |-> "declare_intent", token |-> <<s, a>>, intent |-> <<s, a, n>>,
                  budgetPaise |-> budgetPaise, signs |-> signs], expect)>>

\* The m-th Cart under the n-th Intent.
MakeCart(s, face, a, n, m, items, expect) ==
    <<Step(face, [call |-> "create_cart", token |-> <<s, a>>, intent |-> <<s, a, n>>,
                  cart |-> <<s, a, n, m>>, items |-> items], expect)>>

BuildCart(s, face, a, n, budgetPaise, items) ==
    Declare(s, face, a, n, budgetPaise, "none", ExpectOk(<<>>))
    \o MakeCart(s, face, a, n, 1, items, ExpectOk(<<>>))

Signed(s, face, a, n, m, key, signsCart, signs, expect) ==
    <<Step(face, [call |-> "submit_payment", token |-> <<s, a>>, cart |-> <<s, a, n, m>>,
                  key |-> <<s, a, key>>, order |-> <<s, a, key>>, signs |-> signs,
                  signsCart |-> signsCart], expect)>>

Submit(s, face, a, n, m, key, expect) == Signed(s, face, a, n, m, key, "none", "none", expect)

AwaitsPayment == ExpectOk([status |-> "awaiting_payment", link |-> TRUE])

PayOrder(s, a, key) ==
    <<Step("gateway", [call |-> "complete_payment", order |-> <<s, a, key>>], ExpectOk(<<>>))>>

DeclineOrder(s, a, key) ==
    <<Step("gateway", [call |-> "fail_payment", order |-> <<s, a, key>>], ExpectOk(<<>>))>>

Status(s, face, a, key, body) ==
    <<Step(face, [call |-> "get_order_status", token |-> <<s, a>>, order |-> <<s, a, key>>],
           ExpectOk(body))>>

PaidWithReceipt(s, face, a, key, paise) ==
    Status(s, face, a, key, [status |-> "paid", attestedPaise |-> {paise}])

\* What is for sale, with its stock.
Catalog(face, stock) ==
    <<Step(face, [call |-> "get_product"], ExpectOk([stock |-> stock]))>>

EditCatalog(variant, set) ==
    <<Step("database", [call |-> "edit_variant", variant |-> variant, set |-> set],
           ExpectOk(<<>>))>>

-----------------------------------------------------------------------------
(***************************************************************************)
(* The scenarios.  A scenario s goes through face unless it takes both.    *)
(***************************************************************************)
HappyPurchase(s, face, items, totalPaise) ==
    Catalog(face, [v \in {tee, cap} |-> 5])
    \o RegisterBuyer(s, face, "a", 500000)
    \o Declare(s, face, "a", 1, 400000, "none", ExpectOk(<<>>))
    \o MakeCart(s, face, "a", 1, 1, items, ExpectOk([totalPaise |-> totalPaise]))
    \o Submit(s, face, "a", 1, 1, "k", AwaitsPayment)
    \o PayOrder(s, "a", "k")
    \o PaidWithReceipt(s, face, "a", "k", totalPaise)

HappyMcp(s) == HappyPurchase(s, "mcp", OneTee, TeePrice)
HappyRest(s) == HappyPurchase(s, "rest", OneTee, TeePrice)
HappyMultiItem(s) ==
    HappyPurchase(s, "mcp", <<Line(tee, 2), Line(cap, 1)>>, 2 * TeePrice + CapPrice)

HappyClientCustody(s) ==
    Register(s, "mcp", "a", 500000, "client")
    \o Declare(s, "mcp", "a", 1, 200000, "valid", ExpectOk([intent |-> <<s, "a", 1>>]))
    \o MakeCart(s, "mcp", "a", 1, 1, OneTee, ExpectOk([signed |-> FALSE]))
    \o Signed(s, "mcp", "a", 1, 1, "k", "valid", "valid", ExpectOk(<<>>))
    \o PayOrder(s, "a", "k")
    \o PaidWithReceipt(s, "mcp", "a", "k", TeePrice)

UnregisteredAgent(s, face) ==
    Declare(s, face, "nobody", 1, 100000, "none", ExpectRefusal("UNREGISTERED_AGENT", TRUE))

UnregisteredMcp(s) == UnregisteredAgent(s, "mcp")
UnregisteredRest(s) == UnregisteredAgent(s, "rest")

OverBudget(s, face, a) ==
    RegisterBuyer(s, face, a, 500000)
    \o BuildCart(s, face, a, 1, 100000, OneTee)
    \o Submit(s, face, a, 1, 1, "k", ExpectRefusal("OVER_BUDGET", TRUE))

OverBudgetMcp(s) == OverBudget(s, "mcp", "a")
OverBudgetRest(s) == OverBudget(s, "rest", "a")

OverCapMcp(s) ==
    RegisterBuyer(s, "mcp", "a", 150000)
    \o BuildCart(s, "mcp", "a", 1, 200000, OneTee)
    \o Submit(s, "mcp", "a", 1, 1, "k1", ExpectOk(<<>>))
    \o PayOrder(s, "a", "k1")
    \o BuildCart(s, "mcp", "a", 2, 60000, OneCap)
    \o Submit(s, "mcp", "a", 2, 1, "k2", ExpectRefusal("OVER_CAP", FALSE))

OverCapRest(s) ==
    RegisterBuyer(s, "rest", "a", 100000)
    \o BuildCart(s, "rest", "a", 1, 200000, OneTee)
    \o Submit(s, "rest", "a", 1, 1, "k", ExpectRefusal("OVER_CAP", FALSE))

OutOfStockMidCart(s) ==
    RegisterBuyer(s, "mcp", "a", 500000)
    \o BuildCart(s, "mcp", "a", 1, 400000, <<Line(tee, 2)>>)
    \o RegisterBuyer(s, "mcp", "rival", 600000)
    \o BuildCart(s, "mcp", "rival", 1, 600000, <<Line(tee, 4)>>)
    \o Submit(s, "mcp", "rival", 1, 1, "k", ExpectOk(<<>>))
    \o PayOrder(s, "rival", "k")
    \o Submit(s, "mcp", "a", 1, 1, "k", ExpectRefusal("OUT_OF_STOCK", TRUE))

PriceChangeMcp(s) ==
    RegisterBuyer(s, "mcp", "a", 500000)
    \o BuildCart(s, "mcp", "a", 1, 200000, OneTee)
    \o EditCatalog(tee, [pricePaise |-> TeePrice + 10000])
    \o Submit(s, "mcp", "a", 1, 1, "k1", ExpectRefusal("PRICE_CHANGED", TRUE))
    \o MakeCart(s, "mcp", "a", 1, 2, OneTee, ExpectOk([totalPaise |-> TeePrice + 10000]))
    \o Submit(s, "mcp", "a", 1, 2, "k2", ExpectOk(<<>>))

PriceChangeRest(s) ==
    RegisterBuyer(s, "rest", "a", 500000)
    \o BuildCart(s, "rest", "a", 1, 200000, OneTee)
    \o EditCatalog(tee, [pricePaise |-> TeePrice - 5000])
    \o Submit(s, "rest", "a", 1, 1, "k", ExpectRefusal("PRICE_CHANGED", TRUE))

IntentConsumed(s, face) ==
    RegisterBuyer(s, face, "a", 500000)
    \o BuildCart(s, face, "a", 1, 400000, OneTee)
    \o Submit(s, face, "a", 1, 1, "k1", ExpectOk(<<>>))
    \o MakeCart(s, face, "a", 1, 2, OneCap, ExpectOk(<<>>))
    \o Submit(s, face, "a", 1, 2, "k2", ExpectRefusal("INTENT_CONSUMED", TRUE))

IntentConsumedMcp(s) == IntentConsumed(s, "mcp")
IntentConsumedRest(s) == IntentConsumed(s, "rest")

\* The two bodies are compared with the same expectation.
RefusalParity(s) == OverBudget(s, "mcp", "a") \o OverBudget(s, "rest", "b")

ReplaySameCart(s, face, items, budgetPaise) ==
    RegisterBuyer(s, face, "a", 500000)
    \o BuildCart(s, face, "a", 1, budgetPaise, items)
    \o Submit(s, face, "a", 1, 1, "k", ExpectOk(<<>>))
    \o Submit(s, face, "a", 1, 1, "k", ExpectOk([order |-> <<s, "a", "k">>, link |-> TRUE]))

ReplayMcp(s) ==
    ReplaySameCart(s, "mcp", OneTee, 200000)
    \o PayOrder(s, "a", "k")
    \o PaidWithReceipt(s, "mcp", "a", "k", TeePrice)
    \o Submit(s, "mcp", "a", 1, 1, "k", ExpectOk([order |-> <<s, "a", "k">>]))

ReplayRest(s) == ReplaySameCart(s, "rest", OneCap, 100000)

IdempotencyReuse(s, face) ==
    RegisterBuyer(s, face, "a", 500000)
    \o BuildCart(s, face, "a", 1, 200000, OneTee)
    \o Submit(s, face, "a", 1, 1, "k", ExpectOk(<<>>))
    \o BuildCart(s, face, "a", 2, 100000, OneCap)
    \o Submit(s, face, "a", 2, 1, "k", ExpectRefusal("IDEMPOTENCY_REUSE", TRUE))

IdempotencyReuseMcp(s) == IdempotencyReuse(s, "mcp")
IdempotencyReuseRest(s) == IdempotencyReuse(s, "rest")

MalformedIntent(s, face) ==
    Register(s, face, "a", 500000, "client")
    \o Declare(s, face, "a", 1, 222222, "other bytes", ExpectRefusal("INVALID_MANDATE", FALSE))

MalformedIntentMcp(s) == MalformedIntent(s, "mcp")
MalformedIntentRest(s) == MalformedIntent(s, "rest")

TamperedCart(s) ==
    Register(s, "mcp", "a", 500000, "client")
    \o Declare(s, "mcp", "a", 1, 200000, "valid", ExpectOk(<<>>))
    \o MakeCart(s, "mcp", "a", 1, 1, OneTee, ExpectOk(<<>>))
    \o Signed(s, "mcp", "a", 1, 1, "k", "other bytes", "valid",
              ExpectRefusal("INVALID_MANDATE", FALSE))

UnknownCart(s) ==
    RegisterBuyer(s, "mcp", "a", 500000)
    \o Submit(s, "mcp", "a", 1, 1, "k", ExpectValidationError("CART_NOT_FOUND"))

AmbiguousQuery(s) ==
    RegisterBuyer(s, "mcp", "a", 500000)
    \o Declare(s, "mcp", "a", 1, 200000, "none", ExpectOk(<<>>))
    \o MakeCart(s, "mcp", "a", 1, 1, <<Line("that thing from the reel", 1)>>,
                ExpectValidationError("VARIANT_NOT_FOUND"))

InvalidCap(s) ==
    <<Step("rest", [call |-> "register_agent", agent |-> <<s, "a">>, capPaise |-> 0,
                    custody |-> "custodial"], ExpectValidationError("INVALID_CAP"))>>

InvalidBudget(s) ==
    RegisterBuyer(s, "mcp", "a", 500000)
    \o Declare(s, "mcp", "a", 1, 0, "none", ExpectValidationError("INVALID_BUDGET"))

BuyOneTee(s, face, a) ==
    RegisterBuyer(s, face, a, 500000)
    \o BuildCart(s, face, a, 1, 200000, OneTee)
    \o Submit(s, face, a, 1, 1, "k", ExpectOk(<<>>))

DeclineFailClosed(s) ==
    BuyOneTee(s, "mcp", "a")
    \o DeclineOrder(s, "a", "k")
    \o Status(s, "mcp", "a", "k", [status |-> "awaiting_payment"])
    \o DeclineOrder(s, "a", "k")
    \o Status(s, "mcp", "a", "k", [status |-> "cancelled", decline |-> DeclinePayload(2),
                                   receipt |-> {}])

DeclineThenSuccess(s) ==
    BuyOneTee(s, "mcp", "a")
    \o DeclineOrder(s, "a", "k")
    \o PayOrder(s, "a", "k")
    \o PaidWithReceipt(s, "mcp", "a", "k", TeePrice)

OversoldOutcome == Refunded("order_refunded")

\* One tee was asked for and none was left; all its price came back.
FullRefund ==
    OversellPayload([shortfall |-> {[variantId |-> tee, requested |-> 1, available |-> 0]},
                     amountPaise |-> TeePrice])

OversellCrossFace(s) ==
    EditCatalog(tee, [stock |-> 1])
    \o BuyOneTee(s, "mcp", "a")
    \o BuyOneTee(s, "rest", "b")
    \o PayOrder(s, "a", "k")
    \o PaidWithReceipt(s, "mcp", "a", "k", TeePrice)
    \o <<[PayOrder(s, "b", "k")[1] EXCEPT !.outcome = OversoldOutcome]>>
    \o Status(s, "rest", "b", "k", [status |-> "refunded", oversell |-> FullRefund,
                                    attestedPaise |-> {TeePrice}, refundPaired |-> TRUE])

-----------------------------------------------------------------------------
(***************************************************************************)
(* The rehearsals call the domain functions and deliver only the first     *)
(* event of a settlement.                                                  *)
(***************************************************************************)
FirstHook(steps, outcome) ==
    <<[steps[1] EXCEPT !.deliver = "first", !.outcome = outcome]>>

ShownChain(s, a, key, chain) ==
    <<Step("direct", [call |-> "audit_page", order |-> <<s, a, key>>], ExpectOk([chain |-> chain]))>>

\* The audit events of a stretch of work: their types from the n-th event on.
Story(n, types) == [m \in n .. n + Len(types) - 1 |-> types[m - n + 1]]

\* An Order is bought as the n-th to the (n + 5)-th event of the world.
BoughtAt(n) ==
    Story(n, <<"mandate.intent_declared", "mandate.cart_created", "payment.verified",
               "order.created", "gateway.payment_link_attempted", "gateway.payment_link_issued">>)

StockIs(teeStock) == Catalog("direct", (tee :> teeStock) @@ (cap :> 5))

OversellRehearsal(s) ==
    EditCatalog(tee, [stock |-> 1])
    \o BuyOneTee(s, "direct", "a")
    \o BuyOneTee(s, "direct", "b")
    \o StockIs(1)
    \o FirstHook(PayOrder(s, "a", "k"), Outcome("order_paid"))
    \o StockIs(0)
    \o FirstHook(PayOrder(s, "b", "k"), OversoldOutcome)
    \o StockIs(0)
    \o Status(s, "direct", "b", "k", [status |-> "refunded", oversell |-> FullRefund,
                                      attestedPaise |-> {TeePrice}, refundPaired |-> TRUE])
    \o ShownChain(s, "b", "k", BoughtAt(9) @@
           Story(20, <<"gateway.webhook_received", "gateway.order_linked", "order.paid",
                       "receipt.issued", "order.oversell_detected", "gateway.refund_attempted",
                       "order.refunded", "receipt.refund_issued">>))

DeclineRehearsal(s) ==
    EditCatalog(tee, [stock |-> 3])
    \o BuyOneTee(s, "direct", "a")
    \o FirstHook(DeclineOrder(s, "a", "k"), Outcome("decline_recorded"))
    \o Status(s, "direct", "a", "k", [status |-> "awaiting_payment"])
    \o FirstHook(DeclineOrder(s, "a", "k"), Outcome("order_cancelled"))
    \o Status(s, "direct", "a", "k", [status |-> "cancelled", decline |-> DeclinePayload(2),
                                      receipt |-> {}])
    \o ShownChain(s, "a", "k", BoughtAt(2) @@
           Story(8, <<"gateway.webhook_received", "gateway.order_linked", "payment.declined",
                      "gateway.webhook_received", "payment.declined", "order.cancelled">>))

-----------------------------------------------------------------------------
(***************************************************************************)
(* The reference buyer, which holds its key, compares every hash it is     *)
(* told with its own and reads the Receipt against the chain it signed;    *)
(* and the live evals, which run it once a decision is made.               *)
(***************************************************************************)
SdkPurchase(s, budgetPaise, items, submitted) ==
    Register(s, "mcp", "a", 500000, "client")
    \o Declare(s, "mcp", "a", 1, budgetPaise, "valid", ExpectOk([intent |-> <<s, "a", 1>>]))
    \o MakeCart(s, "mcp", "a", 1, 1, items,
                ExpectOk([cart |-> <<s, "a", 1, 1>>, intent |-> <<s, "a", 1>>, agent |-> <<s, "a">>]))
    \o Signed(s, "mcp", "a", 1, 1, "k", "valid", "valid", submitted)

\* The payment it composed under its own key, the Order's name being the key's.
SdkPayment(s) == <<<<s, "a">>, <<s, "a", 1, 1>>, <<s, "a", "k">>>>

Submitted(s) ==
    ExpectOk([order |-> <<s, "a", "k">>, payment |-> SdkPayment(s), status |-> "awaiting_payment"])

VerifiedReceipt(s, paise) ==
    Status(s, "mcp", "a", "k",
           [status |-> "paid",
            receipt |-> {[intentHash |-> <<s, "a", 1>>, cartHash |-> <<s, "a", 1, 1>>,
                          paymentHash |-> SdkPayment(s), amountPaise |-> paise,
                          gatewayPaymentId |-> <<<<s, "a", "k">>, "captured">>]}])

SdkBuyer(s) ==
    SdkPurchase(s, 400000, <<Line(tee, 2), Line(cap, 1)>>, Submitted(s))
    \o PayOrder(s, "a", "k")
    \o VerifiedReceipt(s, 2 * TeePrice + CapPrice)
    \o ShownChain(s, "a", "k", BoughtAt(2) @@
           Story(8, <<"gateway.webhook_received", "gateway.order_linked", "order.paid",
                      "receipt.issued", "order.fulfilled", "gateway.webhook_received">>))

\* Refusals of wrong signatures use nothing up: the same Cart and key pass with
\* the right ones.
SdkWrongSignatures(s) ==
    Register(s, "mcp", "a", 500000, "client")
    \o Declare(s, "mcp", "a", 1, 200000, "other bytes", ExpectRefusal("INVALID_MANDATE", FALSE))
    \o Declare(s, "mcp", "a", 1, 200000, "valid", ExpectOk(<<>>))
    \o MakeCart(s, "mcp", "a", 1, 1, OneTee, ExpectOk([signed |-> FALSE]))
    \o Signed(s, "mcp", "a", 1, 1, "k", "other bytes", "valid",
              ExpectRefusal("INVALID_MANDATE", FALSE))
    \o Signed(s, "mcp", "a", 1, 1, "k2", "valid", "other bytes",
              ExpectRefusal("INVALID_MANDATE", FALSE))
    \o Signed(s, "mcp", "a", 1, 1, "k", "valid", "valid", AwaitsPayment)

SdkWrongCustody(s) ==
    Register(s, "mcp", "a", 500000, "client")
    \o Declare(s, "mcp", "a", 1, 200000, "none", ExpectValidationError("CUSTODY_MISMATCH"))
    \o RegisterBuyer(s, "mcp", "b", 500000)
    \o Declare(s, "mcp", "b", 1, 200000, "valid", ExpectValidationError("CUSTODY_MISMATCH"))

LivePaid(s) ==
    SdkPurchase(s, 200000, OneTee, Submitted(s))
    \o PayOrder(s, "a", "k")
    \o VerifiedReceipt(s, TeePrice)

LiveOutOfStock(s) ==
    SdkPurchase(s, 40000000, <<Line(tee, 99)>>, ExpectRefusal("OUT_OF_STOCK", TRUE))

LiveOverBudget(s) == SdkPurchase(s, 10000, OneTee, ExpectRefusal("OVER_BUDGET", TRUE))

\* It stops at the payment page, and the Order stays as it is.
LiveDryRun(s) ==
    SdkPurchase(s, 200000, OneTee, Submitted(s))
    \o <<Step("direct", [call |-> "audit_page", order |-> <<s, "a", "k">>],
              ExpectOk([status |-> "awaiting_payment",
                        missingSteps |-> {"gateway.webhook_received", "order.paid",
                                          "receipt.issued"}]))>>

\* PROTOCOL_SCENARIOS in order.
Scenarios ==
    <<HappyMcp(1), HappyRest(2), HappyMultiItem(3), HappyClientCustody(4), UnregisteredMcp(5),
      UnregisteredRest(6), OverBudgetMcp(7), OverBudgetRest(8), OverCapMcp(9), OverCapRest(10),
      OutOfStockMidCart(11), PriceChangeMcp(12), PriceChangeRest(13), IntentConsumedMcp(14),
      IntentConsumedRest(15), RefusalParity(16), ReplayMcp(17), ReplayRest(18),
      IdempotencyReuseMcp(19), IdempotencyReuseRest(20), MalformedIntentMcp(21),
      TamperedCart(22), MalformedIntentRest(23), UnknownCart(24), AmbiguousQuery(25),
      InvalidCap(26), InvalidBudget(27), DeclineFailClosed(28), DeclineThenSuccess(29),
      OversellCrossFace(30)>>

\* What is run after them, each in a world of its own too.
Suite ==
    Scenarios
    \o <<OversellRehearsal(31), DeclineRehearsal(32)>>
    \o <<SdkBuyer(33), SdkWrongSignatures(34), SdkWrongCustody(35)>>
    \o <<LivePaid(36), LiveOutOfStock(37), LiveOverBudget(38), LiveDryRun(39)>>

-----------------------------------------------------------------------------
(***************************************************************************)
(* The runner.                                                             *)
(***************************************************************************)
SuiteInit ==
    /\ Init
    /\ world = 1 /\ position = 1
    /\ asked = FALSE /\ outcomes = {} /\ failed = FALSE
    /\ verdicts = <<>> /\ exported = <<>> /\ takings = 0
    /\ audited = 0 /\ book = Blank

Current == Suite[world][position]

Running == world <= Len(Suite) /\ position <= Len(Suite[world]) /\ ~failed

Ask ==
    /\ Running /\ ~asked
    /\ asked' = TRUE
    /\ Open(driver, Current.call)
    /\ UNCHANGED <<db, log, drawn, at, links, hooks, rollbacks>>
    /\ UNCHANGED <<world, position, outcomes, failed, verdicts, exported, takings, auditVars>>

Served == Running /\ asked /\ job[driver].step = "idle"

Delivered ==
    outcomes \cup (IF job[driver].call.call = "webhook" THEN {job[driver].reply} ELSE {})

MoreToDeliver == hooks # {} /\ (Current.deliver = "all" \/ Delivered = {})

\* Webhooks are delivered one after the other, in the order they were fired.
Deliver ==
    /\ Served /\ MoreToDeliver
    /\ outcomes' = Delivered
    /\ \E hook \in hooks :
          /\ hook.event = "payment.captured" => hooks = {hook}
          /\ Receive(driver, hook)
    /\ UNCHANGED <<at, world, position, asked, failed, verdicts, exported, takings, auditVars>>

\* A step that fails its checks throws, and the scenario is over.
Judge ==
    LET met == /\ Met(FaceResult(Current.face, job[driver].reply), Current.expect)
               /\ Current.outcome \in Delivered \cup {NoField} IN
    /\ Served /\ ~MoreToDeliver
    /\ position' = position + 1
    /\ failed' = ~met
    /\ asked' = FALSE
    /\ outcomes' = {}
    /\ hooks' = {}
    /\ UNCHANGED <<db, log, drawn, job, at, links, rollbacks, world, verdicts, exported>>
    /\ UNCHANGED <<takings, auditVars>>

\* Passed or failed, a scenario's log is exported, and the next one gets a world
\* of its own.
Export ==
    /\ world <= Len(Suite) /\ ~Running
    /\ IF world <= Len(Scenarios)
       THEN /\ exported' = Append(exported, log)
            /\ takings' = takings + StoreCounts.revenuePaiseTotal
       ELSE UNCHANGED <<exported, takings>>
    /\ verdicts' = Append(verdicts, ~failed)
    /\ world' = world + 1
    /\ position' = 1 /\ failed' = FALSE
    /\ db' = Seeded /\ log' = <<>> /\ drawn' = 0
    /\ job' = [job EXCEPT ![driver] = Idle]
    /\ links' = <<>>
    /\ UNCHANGED <<at, hooks, rollbacks, asked, outcomes, auditVars>>

\* npm run audit:rules over the exported batch, one event after the other.
AuditEvent ==
    /\ world > Len(Suite)
    /\ audited < Places(exported)
    /\ audited' = audited + 1
    /\ book' = SeeNext(book, exported, audited + 1)
    /\ UNCHANGED <<vars, suiteVars>>

BatchOver == world > Len(Suite) /\ audited = Places(exported)

Finished == BatchOver /\ UNCHANGED <<vars, suiteVars, auditVars>>

SuiteNext ==
    \/ Ask
    \/ Serve(driver) /\ UNCHANGED <<suiteVars, auditVars>>
    \/ Deliver
    \/ Judge
    \/ Export
    \/ AuditEvent
    \/ Finished

SuiteSpec == SuiteInit /\ [][SuiteNext]_<<vars, suiteVars, auditVars>>

-----------------------------------------------------------------------------
(***************************************************************************)
(* Properties.                                                             *)
(***************************************************************************)
\* Every scenario of the suite ends as its `expected` says, both rehearsals as
\* they assert, and each purchase of the reference buyer as its caller is told:
\* what Storefront answers is what the repository's own end-to-end checks demand
\* of the code, call by call and on both faces (scenarios.ts, runner.ts).
ScenariosPass == \A i \in DOMAIN verdicts : verdicts[i]

\* The auditor finds nothing in the batch, though the sequence numbers of the
\* worlds collide and their events interleave in its sort: no charge is judged
\* by another world's mandates or Cap, and at the end its running totals are
\* what the stores took (auditRules over the exported batch).
BatchAuditClean ==
    /\ book.violations = {}
    /\ BatchOver => Captured(book) = takings
=============================================================================
