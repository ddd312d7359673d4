# A TLA+ verification of agent-store

agent-store is a merchant that sells to AI agents. An **Agent** registers once
(with a **Cap** and a key), declares an **Intent** with a **Budget**, pins a
**Cart** to it, and submits the Cart for payment. A trust gate answers with a
payment link or with a **Refusal**; a human pays at the gateway; webhooks come
back, more than once and in any order, and the store turns them into a paid
Order with goods and a Receipt, a cancelled one, or a refunded one. The
catalog behind it is filled by an ingestion pipeline whose drafts a merchant
confirms.

The modules here model that code, one action per database transaction or
external call, so that everything two requests can do to each other between
two `await`s is a behaviour TLC explores. TLC checks small instances, TLAPS
proves the central theorems for every value of the constants. Two of the
modules put the parts together: `Storefront` is the whole purchase over one
database, with its pages and its audit log, and `ProtocolEvals` runs the
repository's own end-to-end scenarios against it.

## 1. The system

Paths are relative to `src/src`. The last column names modules of this
directory.

| part | state it keeps | operations | what is hard | what makes it correct | where |
|---|---|---|---|---|---|
| submit payment, `domain/submitPayment.ts` | `orders`, `payment_mandates`, `intent_mandates.consumed_by_order_id`, `cart_mandates.agent_signature` | `submitPayment` | concurrent calls of one Agent; a key, an Intent and a Cap they share; the catalog moving under them; a restart around the gateway call | one Order per key and per Intent, Cap never exceeded, a Refusal leaves nothing, an answer is about the purchase asked for | `Submission` |
| webhooks, `domain/orders.ts` | `orders` (status, ids, declined attempts, shortfall), `variants.stock` | `applyGatewayWebhook`, `fulfillPaidOrder` | siblings of one capture, redelivery, reordering, two Orders after the last unit | paid once, goods follow money, stock conserved, no capture swallowed | `Orders` |
| decline, `domain/decline.ts` with `applyDecline` | `orders.declined_gateway_payment_ids` | decline, cancel at the limit | a redelivered failure must not count twice; a capture after the cancellation | cancelled exactly when distinct failures use up the limit | `Orders` |
| oversell refund, `domain/oversell.ts` | `orders.oversell_shortfall`, `refund_receipts` | `refundOversoldOrder` | an external call between two transactions; a restart; a refusing gateway | refunded at most once, only when owed, and recorded only after | `Orders` |
| receipts, `domain/receipts.ts` | `receipts`, `refund_receipts` | mint on paid, mint on refund | which payment to bind when several webhooks named several | a Receipt binds the capture; a paid Order without one is flagged | `Orders` |
| audit log, `domain/auditLog.ts` | `audit_events` | append, in the transaction of the change it records | an early return that skips the event or the row; numbers drawn long before the commit, and gaps | the log shows each transition once; read in order of its numbers it is never wrong | `Orders`, `Storefront` |
| mandates, `domain/mandates.ts` | hashes and signatures on the rows | sign, verify the chain | a stored mandate that no longer verifies | a forged signature buys nothing; every stored chain verifies | `Submission`, `MandateFlow` |
| mandate flow, `domain/mandateFlow.ts` | `intent_mandates`, `cart_mandates` | `declareIntent`, `createCart` | custody: who signs what, when; prices read line by line; one payload signed twice | a Cart belongs to its Agent and Intent, at prices that were shown; a hash is one act | `MandateFlow` |
| agents, `domain/agents.ts` | `agents` | `registerAgent`, `requireRegisteredAgent` | the row lock that serialises an Agent's Orders | key, Cap and custody never change | `MandateFlow`; the lock in `Submission` |
| catalog, `domain/catalog.ts` | `products`, `variants` | reads | read line by line, used later | a Cart is judged by the prices read | `Submission` |
| archive, `ingestion/archiveProduct.ts` | `products.status` | `archiveProduct` | in the middle of a submission or confirmation | an archived product is not sold, and stays as it was | `Submission`, `Confirmation` |
| confirmation, `domain/confirmation.ts` | `products`, `variants` | `confirmProduct` | two confirmations of one draft; an archive in between | the Variants are always one vouched-for answer as a whole | `Confirmation` |
| ingestion, `ingestion/` | drafts | `assembleProduct`, `ingestItem`, submission from chat | the confidence gate over every combination of total, labels and counts; a second run over a corrected product | nothing incomplete or doubted publishes itself; a held product says why; a re-run undoes nothing | `Ingestion`, `Confirmation` |
| merchants, `domain/merchants.ts`, `db/seed.ts` | signing key, token | `ensureMerchantSigningKey`, `ensureMerchantToken` | two deploys that seed at once | one key and one token per merchant, and every seed is told it | `MandateFlow` |
| store summary, `domain/storeSummary.ts` | none | counts and sums | casts to int4 | the sums are those of the log, or an error | `Storefront` |
| order status, `domain/orderStatus.ts` | none | `readOrderStatus` | three queries, and webhooks between them | what was read first is borne out by what is read later | `Storefront` |
| gateway, `gateway/` | links, captures, refunds | stub and Razorpay | loses answers, repeats webhooks | what the code relies on is listed in the stub | `Orders` |
| faces, `http/`, `mcp/` | none | forward; the chat tool lays an answer over stored rows | the webhook route runs the refund after the apply; the overlay is read before the transaction | every branch answers; chat deletes nothing | `Storefront`, `ProtocolEvals`; the two ways to confirm in `Confirmation` |
| protocol evals, `evals/protocol/` | the world of a scenario, the exported logs | scenarios, face drivers, `auditRules` | the merged batch: sequence numbers of different worlds collide | every scenario passes on both faces; no violation in the batch | `RuleAuditor`, `ProtocolEvals` |
| rehearsals, `failures/` | none | an oversell, a decline | the first event of a settlement alone | the stories they assert | `ProtocolEvals` |
| buyer and live evals, `buyer/`, `evals/live/` | the buyer's key | a purchase that checks every hash | what it was told may be stale | a Receipt names the buyer's own payment | `ProtocolEvals` |
| viewer, `src/viewer` | none | read-only pages | | | not modelled |

How they meet: a face calls `submitPayment`, which creates the Order and its
link; the gateway calls the webhook route, which calls `applyGatewayWebhook`
and, for the delivery that sold short, `refundOversoldOrder`. They share the
`orders` row, the stock and the audit log. `Submission` and `Orders` cut this
at the Order row: `Submission` owns everything up to the stored link and lets
an Order's status move on (`Settle`) and its stock be sold (`Sell`) whenever
the pipeline might; `Orders` starts from an Order in the state the order
transaction leaves. The catalog meets them in `products` and
`variants`: `Confirmation` owns those rows and lets buyers take units
of a published Variant (`Sell`), `Submission` reads them. `Storefront` does not cut:
mandates, gate, Orders, gateway, pages and log share its database, at the price
of coarser steps before each transaction.

## 2. Modules

### `OrderLifecycle`: what an Order promises

Two variables, `status` and `goods`, and six transitions: create, await
payment, pay (with the goods shipped or short, decided once), cancel, refund
(of a short Order only). `Orders` implements it: `goods` is read off the status and
the stored shortfall, and `ImplementsLifecycle` is checked by TLC and proved.

### `Orders`: from the order transaction to the refund

| state | code |
|---|---|
| `status`, `gatewayOrderId`, `gatewayPaymentId`, `declined`, `shortfall` | the columns of `orders` |
| `receipt`, `refundReceipt` | rows of `receipts` (the payment it binds), `refund_receipts` |
| `stock` | `variants.stock` |
| `logged`, `anomalies`, `unmatched` | `audit_events`: how many of each type per Order, the anomaly reasons, the deliveries that matched no Order |
| `checkout` | where `submitPayment` stands after its order transaction |
| `handler` | the running requests of the webhook route: program counter, event, and the payment id read when the Order was found |
| `captured`, `failed`, `refunds`, `fired` | the gateway: the payment captured on a link, failed attempts, refunds made, webhooks it may deliver |
| `unacked` | deliveries fired and not yet answered 200 |

Actions. `PlaceOrder`, `AttemptLink`, `CreateLink`, `IssueLink` are the writes
of the checkout. `FailPayment` and `CompletePayment` are the buyer at the
stub's page; each fires a set of webhook shapes. `Receive` is the start of the
webhook transaction, where the Order is found and its row read; then exactly
one of `RecordConflict`, `RecordOther`, `RecordUncountedDecline`,
`CountDecline`, `DeclineCancels`, `RecordWrongAmount`, `RecordLateCapture`,
`RecordAlreadyPaid`, `CaptureFulfils` and `CaptureOversells` is the rest of it,
with every event it appends. They are two steps because the row read at the
start is not locked: what the handler does later is guarded by WHERE clauses on
the row as it is then. `AttemptRefund`, `GatewayRefunds` or `RefundCallFails`,
`RecordRefund` or `RecordRefundFailure` are `refundOversoldOrder`. A fired webhook may be
delivered any number of times, in any order, to any idle handler. `Crash`
drops every running request and checkout.

Simplified: the payload of an event is its shape (kind, whether it names our
Order, which gateway order id it carries, whether it names the payment, and
whether the amount is the Order's); a line is a quantity per Variant; repeats
of `gateway.webhook_received` are not counted, because every delivery writes
one and the sum says nothing. Not modelled because no state reaches it: the
ambiguous match (`orders.ts:311`; the unique indexes on the ids exclude two
Orders), `missing_merchant_signing_key` (the key is seeded at boot),
`missing_original_receipt` (a refund needs a gateway payment id, and with one
the Receipt was minted), and the Orders of before mandates. The read of the
Order inside `refundOversoldOrder` and the append of the attempt are one step:
what it reads is never rewritten. `ReceiptPayment` keeps the fallback of
`orders.ts:438` on the payment id read at the start.

### `Submission`: the trust gate

| state | code |
|---|---|
| `status`, `linked` | `orders` created by each call |
| `paymentMandates` | `payment_mandates`: Agent, key, Cart, Order |
| `consumedBy` | `intent_mandates.consumed_by_order_id`, the Order that did it |
| `cartSigned` | `cart_mandates.agent_signature` |
| `catalog` | price, stock, published of each Variant |
| `agentLock` | the `SELECT ... FOR UPDATE` on the registration |
| `call` | each running `submitPayment`: program counter, request, lines read, whether the sum read is over the Cap, answer |
| `links` | payment links made at the gateway for a call's Order |

A call goes through `lookup` (the key), `intent` (signatures, Intent open),
`catalog` (one `ReadLine` per cart line, then `RefuseCart` or on), `order_tx`
(from the row lock to commit or rollback), `key_conflict`, and the link steps.
`GateStep`, `TxStep` and `LinkStep` group them. `BeginOrderTx` takes the lock
and reads the sum; the UPDATE of the Intent, the insert of the mandate and the
commit are one step, `CommitOrder`, or one of its failures: `RefuseOverCap`,
`RefuseRacedIntent`, `HitKeyIndex`. `Settle`, `Sell`, `Archive` and `Reprice`
are the rest of the program moving statuses and the catalog at any moment.

Simplified: an Order is named by the call that created it; a Cart, its Intent,
owner, lines and pinned prices are constants, since mandates are immutable; a
signature is none, valid or forged. The audit events of a gate answer equal
the answer and are not kept apart. The branch of `INVALID_MANDATE` for a Cart
without its Intent is unreachable (a foreign key). `HitKeyIndex` leads to a
replay only for two calls of one Cart, which the Intent has stopped before:
the branch is kept, TLC shows it is taken for two Carts only.

### `Ingestion`: from a caption to Variants

Operators only, no state. `Extraction` is what `toExtraction` can return;
`Holds`, `Variants` and `Gate` are `assembleProduct`; `Normalizes` is
`normalizeSubmission`; `Overlay` and `Overlays` are `overlayConfirmation`. A
label is a model value, and the two ways the code makes a key of it,
`normalizeName` and `stockKey`, are constant functions of which the second
is coarser. `counts` is a list in the order `Object.entries` gives.

Simplified: the items of an answer are a set, so two lines alike in everything are one;
titles and descriptions and the wording of holds are left out. A total stock
may be negative: `toExtraction` rejects that for the counts of Variants and
not for the total.

### `Confirmation`: what a merchant answers for

| state | code |
|---|---|
| `status`, `record` | `products.status`, `products.extraction` |
| `stamp` | `products.extraction.confirmation` |
| `rows` | `variants` of each Product, a row's id saying who inserted it |
| `sold` | units buyers took of each row, a history variable |
| `call` | each running confirmation: program counter, lines, rows to drop, row locks held, answer |
| `crashes` | restarts |

`Ingest` is `persistAssembledProduct` in its transaction. A confirmation
starts as `PostForm` (the screen, a complete final state) or as `AskChat` and
`LayOverlay` (the chat tool, whose overlay reads the rows before the
transaction). Then `confirmProduct`: `ReadProduct`, `ReadRows`, one `LockRow`
per row deleted or updated, `WritesDone`, and `Publish` or `LoseConfirmation`
by the guarded UPDATE of the status; `ReadBack` is the read after the commit.
A row held by another transaction makes `LockRow` wait, and a cycle of waits
is broken by `DeadlockDetected`, PostgreSQL's own. `Archive`, `Sell` and
`Crash` may happen between any two of these.

Simplified: the writes of a transaction become visible at its commit, in one
step with the lock of the product row; the order in which rows are locked
is left open (deletes before updates), which allows more than the code
does. A sale takes one unit, only of a Variant once published. Left
out: a Product seeded by hand without an extraction, and two source items
whose ids collide.

### `MandateFlow`: what stands before a payment

| state | code |
|---|---|
| `merchantKey`, `merchantToken` | `merchants.signing_public_key` and `signing_private_key`, `merchants.token` |
| `seed` | the running seeds: program counter, the key and token they were told, whether they minted the token |
| `registered` | `agents`: public key, private key or none, Cap |
| `intents`, `carts` | `intent_mandates`, `cart_mandates`: payload with signatures |
| `catalog` | price and publication of each Variant |
| `call` | each running `declare_intent` or `create_cart`: program counter, request, lines read, the mandate about to be stored, answer; `window`, the prices shown since a `create_cart` began, is a history variable |
| `clock` | the server's clock, in the milliseconds of `createdAt` |

A seed makes four statements: `EnsureSigningKey` and `EnsureToken` are guarded
UPDATEs, `ReadSigningKey` and `ReadToken` the reads after them. A call of
`declareIntent` composes and judges its payload after the token lookup
(`ComposeIntent`) and stores it (`StoreIntent`). `createCart` looks up the
Intent (`ReadIntent`), reads one Variant per step (`ReadLine`), reads the
Merchant's key and composes (`ComposeCart`) and stores (`StoreCart`). `Tick`,
`Move` (a price or a publication) and `Crash` may come between any two.

Simplified: a payload is its own hash, since SHA-256 of the canonical form is
taken to be injective; a signature is the pair of key and payload; both keys
of a pair have one name. An Agent is one registration and its token. The
token lookup and the lookup of the Intent are one step in `createCart`,
because rows of both tables stay. Every validation error is the answer
`invalid`; a stored row needs its amount to fit an `integer` column
(`Int4Max`), and what does not fit is a database error that stores nothing.
The agent-side signature of a client-custody Cart arrives in `submitPayment`
and is `cartSigned` of `Submission`.

### `RuleAuditor`: what the log must show

Operators only. `Audit` is `auditRules`: a walk over the events in the order of
their numbers, each taken by `See` according to its type, with what has been
learned so far as one record (`Blank`: Caps, Intents, Carts, verified payments,
keys, charges, totals, violations). `SeePaid` and `Charge` are the five rules
for a charge, in the order of the code and with its early exits; `Field` is the
reading of a payload field that may be missing, which matters because the code
judges a log and not its writer. A log is a function from sequence numbers, so
it may have gaps, and several logs are walked as the stable sort of their
concatenation is: by number, then by log.

### `Storefront`: one purchase after another, and everybody who looks on

| state | code |
|---|---|
| `db` | the committed rows of `agents`, `intent_mandates`, `cart_mandates`, `payment_mandates`, `orders`, `receipts`, `refund_receipts`, `variants` |
| `log`, `drawn` | `audit_events` by `seq`, and the last value of its sequence |
| `job` | the open request of each caller and of each webhook delivery: step, arguments, what it has read, its open transaction (row locks, writes, events with their numbers), its answer |
| `links`, `hooks` | the gateway: links with what happened under them, webhooks not yet delivered |
| `at`, `rollbacks` | bookkeeping of the bounds |

A transaction is `Execute` one or more times, then `Commit` or `Rollback`. Its
statements wait for row locks (`Free`), and the audit rows they insert take their
sequence numbers at once, so that the log fills out of order and a lost
transaction leaves a gap. `Rollback` answers 500, and a webhook answered 500
stays with the gateway. Endpoints: `RegisterAgent`, `DeclareIntent`,
`CreateCart`, then `VerifyPayment`, `ReplayOrRefuse`, `PlaceOrder`,
`AttemptLink`, `CreateLink`, `IssueLink` of `submitPayment`; the webhook is
`Receive`, `ApplyCapture` or `ApplyFailure`, `Fulfil`, then after the commit
`AttemptRefund`, `CallRefund`, `RecordRefund` or `RecordRefundFailure`. The
pages read query by query: `get_order_status` (`ReadOrder`, `ReadReceipt`,
`ReadRefundReceipt`), the audit page of an Order (`ReadAuditedOrder`,
`ReadMandates`, `ReadAuditEvents`), that of a Refusal (`ReadRefusal`,
`ReadRefusalContext`), and the summary in one statement (`ReadStoreCounts`).

Simplified: the reads of `submitPayment` before its transaction are one step,
and so are those of `createCart`: `Submission` and `MandateFlow` take them
apart. In `Orders` only are webhooks that match no Order, name another amount or
a wrong gateway order id, and failures without a payment id; an Order without a
Cart is in neither. A capture may come without its payment's id
(`UnnamedPayments`, `razorpayWebhook.ts:140`): the Order is then paid without a
Receipt and the log says so (`MintEvent`, `receipts.ts:95-99`); an oversold one
has nothing to refund against (`oversell.ts:201-214`), whatever the comment there
says of paid Orders. The merchant's signing key is there, because the seed
makes one. A refund always finds the Receipt it gives back (`OrderKept`); the
branch of one that does not is in `RefundMintEvent` all the same. A statement that
fails to find its row under the guard rereads it behind the lock, which is one
step here because the row is read after the lock is taken. A payload holds the
fields that the auditor, the pages or the scenarios look at.

### `Ledger`: what a sound log is

No state of its own: over the events of `Storefront`, what each rests on
(`Sound`), which happen once (`Same`), how much an Agent owes at a payment
(`Counting`, `WithinCap`), and what rows and events say of each other
(`RowsShown`, `EventKept`). A store may start with any rows and log that keep
it (`LedgerAssumption`).

### `ProtocolEvals`: the repository's own scenarios

The thirty scenarios of `evals/protocol/scenarios.ts`, the two rehearsals, the
reference buyer with its tests, and the outcomes of the live runner are
sequences of steps: a call, the face it goes through, and what is expected of
the answer (`Met`, the helpers `expectOk`, `expectRefusal` and
`expectValidationError`). `FaceResult` is what the MCP and REST drivers make of
an answer, status codes and error bodies included. `Ask`, the steps of
`Storefront`, `Deliver` (webhooks in the order fired; the rehearsals deliver
the first only) and `Judge` run a step; `Export` ends a world; `AuditEvent`
walks the merged batch of the scenarios. A model of `Storefront` that answered
anything but what the code's tests demand would fail here.

Simplified: random identifiers are named after their scenario. Pictures,
titles, links, timings and the scorecard are left out, and so are the queries
of an ambiguous search, of which the scenario needs only that no Variant is
named so. A poll of the buyer is one read after the webhooks.

### Instances and proofs

`MCOrders`, `MCSubmission`, `MCConfirmation`, `MCMandateFlow`, `MCStorefront`
and `MCProtocolEvals` give the instances; the `.cfg` files are named after the
module and the run. `OrdersProofs`, `SubmissionProofs`, `ConfirmationProofs`,
`MandateFlowProofs`, `StorefrontProofs`, `AuditProofs` and `LedgerProofs` hold the
theorems, `SumTheorems` what they need of sums.

## 3. Runs

Deadlock is checked in `ledger` and `suite`, whose modules say where the system
may rest (`Closed`, `Finished`): a circle of row locks, a request no step
serves or a webhook nobody takes would be found. It is not checked in the
others: their behaviours end (every Order settled, every call answered, the
bounds used up), and the system may rest there.

| run | instance | shows |
|---|---|---|
| `rivals` | two Orders, one unit of a contested Variant, three handlers, two sibling shapes per capture, a restart | `TypeOK`, `GoodsFollowMoney`, `StockConserved`, `RefundsAreOwed`, `RefundHasOneOwner`, `ImplementsLifecycle`, `WriteOnce` |
| `odd` | one Order without stock, two payments, limit two, failures with and without an id, webhooks that name no Order, no payment, no amount or a foreign order id, a restart | `LogMatchesRows`, `ReceiptsBindTheCapture`, `CancelledAtTheLimit`, `WriteOnce` |
| `settle` | one Order without stock, limit one, captures of a right and a wrong amount and a sibling that names the Order only by the gateway order id, refunds may fail, a restart, fair | `NoCaptureSwallowed`, `CaptureSettles`, `OversellRefunded` |
| `crash` | one Order without stock, a restart, fair | **violated**: `CrashLosesNoRefund` |
| `race` | three calls: a custodial Agent with two keys and three Carts of two Intents, a Cap two of them exceed; a second Agent with the same key, forged signatures, another's Cart; a restart | `AnswersAreTrue`, `KeyBuysOnce`, `PaidChainIsOneToOne`, `CapHolds` |
| `catalog` | two fair calls with Carts of one and two lines while stock, price and publication move, a restart | `TypeOK`, `RefusedLeavesNothing`, `CallsAreAnswered` |
| `replay` | two calls of one key and Cart | **violated**: `RetryReplays` |
| `confirm` | one Product, eight captions (complete, unsure, missing, a total for several sizes, a negative count), two fair confirmations from four forms and four chat answers, an archive, sales, a second ingestion, a restart | `TypeOK`, `PublishedIsComplete`, `HoldsSayWhy`, `RowsAreVouchedFor`, `ConfirmedIsMine`, `ChatDeletesNothing`, `AnswerStands`, `ConfirmationsEnd` |
| `readback` | one confirmation and an archive | **violated**: `ReadsBackPublished` |
| `mandates` | two seeds, one with a configured token; a custodial and a client-custody Agent; two calls with four declarations (good, above an integer column, signed, forged) and two baskets, two clock readings, one move of the catalog, one process cut off | `TypeOK`, `StoredChainVerifies`, `PinnedPricesWereShown`, `HashNamesOneAct`, `SeedsAgree` |
| `ledger` | an Agent whose two Orders take its Cap, the first with the last unit; a visitor buys, asks for the summary or lets a payment of the second Order fail, which cancels it, and then somebody pays, in time or late; a human pays or declines the second Order, replays, makes a Cart that is there, registers, reprices or reads a page; a payment may come without its id; one webhook at a time, one lost transaction, a gateway that may refuse, int4 up to 3 | `TypeOK`, `AuditFindsNothing`, `BooksAgree`, `ReadsAreWhole` |
| `suite` | 39 worlds: scenarios, rehearsals, the buyer, the live runner | `ScenariosPass`, `BatchAuditClean` |

Bounds. `Handlers` and `Calls` bound concurrency: three handlers let two siblings
of one capture race while a third delivery runs the refund, and the guards
relate at most two requests at a time. `MaxCrashes` bounds restarts (one
separates every two steps of a handler), `MaxMoves` catalog changes (two put one
before and one after a read). Confirmations of different Products share nothing,
so one Product and two calls show every race; confidences need one value on
each side of the threshold and one for absence. `PaymentAttemptLimit` is the code's own 2
(`decline.ts:22`) in `odd`; `settle` has 1, so that a capture after the cancellation needs two payments only. Webhooks are a set, so redelivery needs no bound. The instances have
no symmetry where a liveness property is checked. The eight captions of `confirm` are
representative; the theorems about the gate hold for every extraction.

In `mandates` two calls are an Intent and a Cart of it, or two equal
declarations; a second clock reading is enough for two acts that differ in
time only. In `ledger` the rows are seeded with one purchase done, one waiting
and one refused, so that a capture, its sibling, an oversell, its refund and
the Cap it gives back are all within a few calls; amounts are 2 and the
largest int4 is 3, so that two paid Orders overflow the sum; one lost
transaction may be that of any writer: a webhook, which the gateway sends again,
the record of a refund, or a purchase. An attempt limit of one makes a capture
after the cancellation two calls. In `suite`
`UnnamedPayments` is FALSE, because the stub the scenarios run on always reports
the id (`stubGateway.ts:119-148`). `suite` is one behaviour but for the order of equal steps,
because the scenarios are scripts; its bounds are the repository's own.

Fairness (`FairSpec`). `Orders`: weak fairness of the steps of a running handler
and of a running checkout (Node runs every ready continuation), and strong
fairness of the delivery of a fired and unacknowledged webhook to a handler
(the gateway retries until it reads 200; Express does not limit how many
requests run, so the finite set of handlers may make a delivery wait and not
starve it). Nothing is assumed of the buyer, of restarts or of the refund call
succeeding. `Submission`: weak fairness of the steps of a running call, which
covers a wait for the row lock because each of the finitely many calls holds it once.
`Storefront` and `ProtocolEvals` assume no fairness: their properties are
invariants. `Confirmation`: weak fairness of the steps of a running confirmation, of
which the database's detection of a deadlock is one; without it crossed locks
would wait for ever.

### What the violated runs say

* `replay`. CONTEXT.md:109: "Same key + same cart hash replays the original
  result". It does when the first call has committed. Two calls with the same key and cart can both
  pass the lookup; the second then meets the Intent consumed by the first
  (`submitPayment.ts:234` or 371-386) before it could meet the unique index
  whose handler would replay (448-460), and is refused `INTENT_CONSUMED`.
* `crash`. `oversell.ts:37-38` says a crash between detection and refund loses
  nothing. The shortfall is indeed on the row, but only the delivery that
  detected it calls the refund (`app.ts:153-156`). After a restart the
  redelivery is answered `already_paid`; the Order stays paid and short,
  without a refund or an anomaly.
* `readback`. `confirmation.ts:363` calls the branch of a Product that does not
  read back as published "Unreachable by construction". The read is outside
  the transaction, and `archiveProduct` may come between the commit and it:
  the merchant is answered with an error although the confirmation stands.

A fact that contradicts no sentence, and is therefore no run: `dedupeLabels`
tells labels apart by `normalizeName` ("uk 10" and "uk10" are two) and counts
are found by `stockKey`, without spaces (one). A caption with both labels and
one count can publish two Variants that each carry it (`pipeline.ts:271` and
210; `Kept` and `LastStated` of `Ingestion`); `normalizeSubmission` refuses the
same pair from a merchant (`confirmation.ts:217-219`).

## 4. Mutants

Every property of a passing run has a definition `Broken...` next to the one it
breaks, with a mistake a change of that code could make (a dropped WHERE
condition, a missing rollback, a guard that looks at the wrong column). With it in the
original's place TLC finds the property violated on the same instance.

## 5. Proofs

The proof modules assume the constants' named assumptions only: non-negative
quantities, stocks and budgets, a positive attempt limit, markers outside the
sets they mark, a stock key coarser than a name; and of `Storefront`, that calls
are of the types the faces' schemas let through (`CallFits`, `restFace.ts:46-75`),
that the rows a store opens with have the types of their columns (`RowsFit`),
that their log is numbered from 1 and that rows and log are what the code's own
transactions leave behind (`BooksKept`: an Order with its payment, the events of
its status, and its Receipts, of which a paid Order lacks the first only if its
payment has no id and the log says so; a mandate with its event; `LedgerKept`: an
event with what it rests on). TLC evaluates all of them on the seeded instances. They hold for any number of
Orders, payments, handlers, Agents, Carts, Products, extractions and calls, and without the bounds being small.

`OrdersProofs`. `TypeCorrect` is inductive on its own. The money properties are
not: that a refund is made at most once depends on who may make it. The
inductive invariant `MoneyInvariant` joins `TypeOK`, `GoodsFollowMoney`,
`RefundsAreOwed`, `RefundHasOneOwner` and `LinkBeforeMoney`: the oversell is
detected only in the transition to paid, which an Order makes once, so one
handler owns the refund, and its program counter says what was logged and what
the gateway did. `LinkBeforeMoney`, which is in no run because
`ImplementsLifecycle` fails wherever it does, is what makes the unguarded UPDATE of
`submitPayment.ts:503-512` safe: while the link is not stored nothing can have
moved the Order. `Implements` proves step by step that every action is a
transition of `OrderLifecycle` or leaves it alone.

Its second half is about the books, over `MoneyInvariant`. `EventsTrue`: a success event names
the payment captured on its link, and a failure event an attempt that failed
there, however late it is received. With it `PaymentInvariant` says that the
payment on a row, in a Receipt and in a handler about to mint one is the one
captured; that is what `ReceiptsBindTheCapture` needs to be inductive, since a
sibling event and a late one read the same row. `LogMatchesRows` needs that the
link's events are logged once, by the checkout or by the webhook that overtook
it (`LinkIsLogged`), and the program counter of the refund, which is logged
before the row moves. `CancelledAtTheLimit` needs that the failures on the row
are those counted. `NoCaptureSwallowed` follows the acknowledgement: a
handler that has applied a capture left a Receipt or an anomaly behind, and
neither goes away. `WriteOnce` is an action property: of every kind of step it
is shown what it writes, and that it finds what it writes empty; stock moves only
where an Order goes to paid, by its lines if none of them is short
(`CaptureFulfils`) and otherwise not at all, since what was decremented is
restored (`StockType`). `StockConserved` joins
the log's `order.fulfilled` to the decrement.

`SumTheorems`. The library's sums are recursive functions over `CHOOSE`, whose
value for every set is an induction. It is avoided: the recursive equation has
one solution, the number of units the set holds (`SumIsUnits`; that the
equation holds at every subset is shown by a smallest counterexample, which a
finite set has, `SmallestSubset`). That the sum of one element more is the sum
plus its value (`SumWithOneMore`) is then a fact about cardinalities, and
`StockConserved` and `CapHolds` rest on it.

`SubmissionProofs`. `GateInvariant` joins `TypeOK`, `CustodialCartsAreSigned`,
`KeyBuysOnce`, `PaidChainIsOneToOne`, `AnswersAreTrue` and, for every call,
`CallFits`: what a call at a program counter has seen, holds and has left
behind. `RefusalsLeaveNothing` follows from the same invariant. `CapIsKept`
needs `CapInvariant` on top: a call in its transaction holds its Agent's lock,
and what it has concluded of the Cap is still so when it inserts, because only
a holder of that lock adds an Order to the Agent's and every other step can
only take one away; that `StoreLink` and `Settle` find an Order `created` or
later is what keeps a cancelled one from counting again.

`ConfirmationProofs`. `CatalogInvariant` joins `TypeOK`, `PublishedIsComplete`,
`HoldsSayWhy` and `CallFits`: what a running confirmation has read is still
true, or the Product has left `needs_confirmation` and its UPDATE will match
nothing. Every action is shown to move a Product only forward (`Evolves`),
which keeps `CallFits` for all calls at once; the lemma `BeltIsRedundant` says
that without holds every Variant has a price and a stock, so the second
half of the publishing condition (`pipeline.ts:119-125`) only repeats the
first. The action properties `AnswerStands` and `ChatDeletesNothing` follow
from the invariant.

`RowsAreVouchedFor`, in the second half of the module, needs more: a row's id belongs to
the ingestion of its Product or to a call that published it (so an insert
never meets its own id), a row of a Product that was never published is
unsold (so a correction may overwrite the stock), and an absent Product has no rows.

`MandateFlowProofs`. The invariant says of a mandate that a call is about to
store what is said of a stored one (`IntentOK`, `CartOK`), which is why the
gap between composing and inserting does no harm; `Grows` (rows are added and
never changed, the key is written once) carries both over every step of
another actor. `CallOK` adds that the lines read so far are those asked for at
prices of the window, and that the window contains what the catalog shows now.
All five properties of the module follow.

`StorefrontProofs`. `TypeOK` says of the whole store that its rows keep their
types, that no stock is negative, and that a sequence number belongs to one
committed event or to one open transaction. It is not inductive: a `Commit`
writes whatever a transaction has gathered, and a handler that goes on with an
Order reads a row it has not looked up again. `StoreInvariant` adds what a
request knows: what its transaction will write fits (`JobShape`); a request
has a transaction only at the steps that have one open; what it was asked for is a
call of its script or a webhook of an Order the store has (`CallKnown`); and
the Order or Cart it goes on with is there, or among its own writes while the
transaction that places it is open (`RowsKnown`). Rows are added and never
taken out (`Grows`), which keeps the invariant of every other request
(`OthersKeep`). One lemma per kind of step (`ExecuteKeeps` inside a
transaction, `OutsideKeeps` outside) does the rest once, and each action has a
lemma that it is such a step. `Fulfil` shows why stock cannot go below zero: it
takes a unit of a row it has locked and of which it has read that enough is left.
The model writes rows with its own `Entry` and `++`, which are TLC's `:>` and
`@@`: the provers do not know those.

Its second half is about `ReadsAreWhole`: an answer put together by several
queries, with the commits of others between them, holds together. It is not an
answer the store could have given at once: the audit page reads the Order's row
first and its events last (`app.ts:246-257`), so an Order waiting for its payment
can stand beside the whole chain of one that was paid, with no step missing. What
is true, and proved, is that what was read first is borne out by what is read
later. A status has a Receipt only if it is paid, and lacks it only if the log
says that its payment has no id; a refunded one has both. An audit page has every
event its status was written with (`CoversStatus`), so the row is never ahead of
the chain; and it shows one ending, not a payment and a cancellation
(`TellsOneEnding`), so neither is the chain at odds with a row it has overtaken. A
Refusal's page has its mandates. None of it is inductive: a page at its second
query rests on what its first one saw. `ReadsInvariant` says why that is still so.

* The books: with an Order's row stand its payment, its Receipts or the anomaly
  that accounts for a missing one, and the events of the steps it has taken (`BooksKept`). Every transaction that
  writes some of these writes the rest too (`OrdersKept`, `MandatesKept`: what
  holds of the rows holds of the rows as the open transaction would leave them).
* Locks: a transaction writes an Order's row, and a Receipt, only behind the
  Order's lock, and a payment behind the Agent's (`Guarded`); open transactions
  hold different locks (`LocksApart`). So what one has prepared is still right
  when another commits first (`OthersTx`), although it read rows before.
* Rows written once: a payment, a Receipt and a refund receipt are new when they
  are written (`WritesNew`), and events are only added. What a page has seen of
  them therefore stays (`SawOrder`, `SawPurchase`), which is all the later
  queries need (`PagesGain`).
* Two races are settled by the state of the Order. `submitPayment.ts:503-512`
  stores the link and moves the Order to `awaiting_payment` without a WHERE on
  its status. That cannot undo a payment: until then nobody else writes the
  Order, since a webhook is about a link that is stored
  (`HookFits`), and nobody takes a link off an Order (`KeepsLink`); the Order was inserted
  by this request alone (`LinksAlone`). And a refund is recorded only
  for an Order still `paid` behind the lock, so its refund receipt is the first.

Each action has a lemma that it keeps the invariant; `CommitReads` is the one
in which the others meet it. That a page shows one ending rests on what the log
says of the rows: a payment on record has a paid row and a cancellation a
cancelled one (`EventKept`, `OneEnding`). The theorem, `ReadsWhole`, therefore
stands at the end of `LedgerProofs`. `OrderStays` carries an Order's books over added
payments and events, `OverExtends` and `OverAt` say what rows over rows are.

`AuditProofs` and `LedgerProofs`. That the rule auditor finds nothing wrong with
the log (`AuditFindsNothing`), and that the summary's revenue is the log's
(`BooksAgree`), falls into two halves that meet in `Ledger`, which says what a
log must be without walking it.

* What the auditor makes of a log (`AuditOfSound`, nothing of the store). The walk is a
  recursive function, and that it has a value for every log is an induction the
  provers' library cannot give; it is shown by a smallest log without one
  (`WalkExists`), and `AuditWalks` then takes the walk from one entry to the
  next. `Book` relates the auditor's maps, keys and totals to the entries seen
  so far: each total is the sum of the payments captured and not given back. One lemma per
  type of event (`SeesAgent` to `SeesRefund`) carries it on, if each
  event rests on earlier ones (`AllSound`), what happens once did (`Once`) and
  no Agent owed more than its Cap at any of its payments (`WithinCap`).
* That the store writes such a log (`LedgerHolds`). The log alone is not
  inductive: a number is drawn when an event is written, and the transaction
  commits later, after others with greater numbers, or never.
  `LedgerInvariant` therefore speaks of what is `Written`, on record or in an
  open transaction. Each of these events rests on *committed* events with smaller numbers
  (`Grounded`): a rollback takes nothing away that another rests on.
  Locks and unique hashes keep two open transactions from writing what happens
  once (`EventsFit`). The rows say what the events say (`RowsShown`, `EventKept`), so that what
  `submit_payment` reads of rows is true of the log: `OwedIsSpent` turns the
  sum over the Agent's Orders into the sum over its payments, and
  `PlacedWithinCap` keeps the Cap when one is added, behind the Agent's lock. A
  step that is outside a transaction moves none of it (`OutsideLedger`), a step inside adds to it
  (`ExecuteLedger`), and `CommitLedger` is where the others meet it.

Two places of the model were made explicit for this, as in the code: the
insert of a mandate whose hash is there is answered with an internal error and
waits for a transaction that is inserting the same (`DeclareIntent`,
`CreateCart`), and a new Agent's id is not one of those there (`newId`).

Only model-checked: everything under fairness (`CaptureSettles`,
`OversellRefunded`, `CallsAreAnswered`, `ConfirmationsEnd`), which is out of the prover's reach.
`ScenariosPass` and `BatchAuditClean` are about the repository's fixed scripts,
for which TLC's run is the whole answer; `BatchAuditClean` walks the merged logs of
several worlds, to which `AuditOfSound` does not extend (each world numbers its own).

## 6. What is left

Proofs: every safety property of the runs is proved but `ScenariosPass` and
`BatchAuditClean`, see above.

Not modelled:

* Cryptography, canonical JSON and the parsing of stored payloads
  (`keys.ts`, `canonicalJson.ts`): a signature verifies or not.
* The language-model and provider side: prompts, provider HTTP and its retry,
  fetching of images, parsing of prices, accuracy runs and the spike. What they
  may return is a set (`Extraction`).
* Razorpay's wire format and the check of webhook signatures
  (`razorpayWebhook.ts`): a delivery that fails it changes nothing.
* `listRecentRefusals` and recent Orders of the `/audit` directory, the
  discovery document, the payment callback page, search and listing, the
  viewer: reads that no action of the system depends on.
* The decision and the browser of the live evals (`claudeDecider.ts`,
  `payerBot.ts`), their report, and latency percentiles of the scorecard.
* The bound on the buyer's polls (`sdkBuyer.ts:221-265`): a buyer whose Order
  is cancelled or refunded polls to the end and reports that it was not paid.
* `INVALID_CREATED_AT`, `INVALID_PUBLIC_KEY` and other checks of one string.
* Generated migrations, and Orders from before mandates existed.
