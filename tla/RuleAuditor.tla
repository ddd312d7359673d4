----------------------------- MODULE RuleAuditor -----------------------------
(***************************************************************************)
(* The rule auditor: what `auditRules` finds wrong with an audit log, from *)
(* the log alone.  It walks the events in the order of their sequence      *)
(* numbers and keeps what it has learned of Agents, mandates and charges.  *)
(*                                                                         *)
(* A log is a function from sequence numbers to events, so numbers may be  *)
(* missing (a transaction that rolled back, or has not committed yet).     *)
(* Several logs, one per world the suite ran in, are audited as one list:  *)
(* the numbers of different worlds collide, and the sort is stable.        *)
(***************************************************************************)
EXTENDS Integers, FiniteSetsExt

CONSTANT NoField  \* a payload field that is absent, null or of another type

\* TLC's :> and @@, written out: the provers know neither.
Entry(key, value) == [k \in {key} |-> value]

f ++ g == [x \in DOMAIN f \cup DOMAIN g |-> IF x \in DOMAIN f THEN f[x] ELSE g[x]]

\* integer() and nonEmptyString(): the field, or null.
Field(e, f) == IF f \in DOMAIN e.payload THEN e.payload[f] ELSE NoField

Event(type, order, payload) == [type |-> type, order |-> order, payload |-> payload]

RefusalTypes == {"agent.refused", "mandate.refused", "payment.refused"}

\* Definitions named Broken... are none of the model: each is the bug that a
\* property of the runs is there to catch, put in place of the definition that
\* follows it (README, Mutants).

\* The quantities are forgotten.
BrokenRecomputedTotal(items) ==
    IF DOMAIN items = {} THEN NoField
    ELSE SumFunctionOnSet([i \in DOMAIN items |-> items[i].unitPricePaise], DOMAIN items)

\* A Cart's total from its logged lines, null when a line is unusable.
RecomputedTotal(items) ==
    IF DOMAIN items = {} \/ \E i \in DOMAIN items : items[i].quantity < 1 \/ items[i].unitPricePaise < 0
    THEN NoField
    ELSE SumFunctionOnSet([i \in DOMAIN items |-> items[i].quantity * items[i].unitPricePaise],
                          DOMAIN items)

-----------------------------------------------------------------------------
(***************************************************************************)
(* What the auditor knows while it walks.                                  *)
(***************************************************************************)
Blank ==
    [caps |-> <<>>,          \* Agent -> Cap
     intents |-> <<>>,       \* Intent hash -> [agentId, budgetPaise]
     carts |-> <<>>,         \* Cart hash -> what the event said of the Cart
     verified |-> <<>>,      \* Order -> the payload of its payment.verified
     keysVerified |-> {},    \* <<Agent, idempotency key>> once verified
     keysCharged |-> {},     \* <<Agent, idempotency key>> once charged
     spent |-> <<>>,         \* Agent -> captured minus refunded
     paid |-> {},            \* Orders charged
     refunded |-> {},        \* Orders refunded
     violations |-> {}]      \* [code, seq]

Known(map, key) == key \in DOMAIN map

\* Null where the map has nothing of the key.
SpentBy(a, agent) == IF Known(a.spent, agent) THEN a.spent[agent] ELSE 0

Flagged(a, n, codes) ==
    [a EXCEPT !.violations = @ \cup {[code |-> c, seq |-> n] : c \in codes}]

When(condition, code) == IF condition THEN {code} ELSE {}

Unverified == "CHARGE_WITHOUT_VERIFIED_CHAIN"
Inconsistent == "CHARGE_AMOUNT_INCONSISTENT"
TwiceForKey == "DUPLICATE_CHARGE_FOR_IDEMPOTENCY_KEY"

SeeAgent(a, e) ==
    IF NoField \in {Field(e, "agentId"), Field(e, "capPaise")}
    THEN a
    ELSE [a EXCEPT !.caps = Entry(Field(e, "agentId"), Field(e, "capPaise")) ++ @]

SeeIntent(a, e) ==
    IF Field(e, "intentHash") = NoField
    THEN a
    ELSE [a EXCEPT !.intents =
             Entry(Field(e, "intentHash"), [agentId |-> Field(e, "agentId"),
                                            budgetPaise |-> Field(e, "budgetPaise")]) ++ @]

SeeCart(a, e) ==
    IF Field(e, "cartHash") = NoField
    THEN a
    ELSE [a EXCEPT !.carts =
             Entry(Field(e, "cartHash"),
                   [agentId |-> Field(e, "agentId"),
                    intentHash |-> Field(e, "intentHash"),
                    totals |-> {Field(e, "totalAmountPaise"),
                                RecomputedTotal(Field(e, "items"))}]) ++ @]

\* A second verification under a key is flagged before any money moves.
SeeVerified(a, n, e) ==
    LET key == <<Field(e, "agentId"), Field(e, "idempotencyKey")>> IN
    IF e.order = NoField
    THEN Flagged(a, n, {Unverified})
    ELSE LET seen == [a EXCEPT !.verified = Entry(e.order, e) ++ @] IN
         IF key[1] = NoField \/ key[2] = NoField
         THEN seen
         ELSE Flagged([seen EXCEPT !.keysVerified = @ \cup {key}], n,
                      When(key \in a.keysVerified, TwiceForKey))

SeeReplayed(a, n, e) ==
    Flagged(a, n, When(<<Field(e, "agentId"), Field(e, "idempotencyKey")>> \notin a.keysVerified,
                       Unverified))

-----------------------------------------------------------------------------
(***************************************************************************)
(* A charge.  v is the payment.verified of its Order.                      *)
(***************************************************************************)
\* Assert 2: the chain, recomputed from the log.
ChainFlags(a, v, amount) ==
    IF \/ NoField \in {Field(v, "agentId"), Field(v, "paymentHash")}
       \/ ~Known(a.intents, Field(v, "intentHash"))
       \/ ~Known(a.carts, Field(v, "cartHash"))
    THEN {Unverified}
    ELSE LET intent == a.intents[Field(v, "intentHash")]
             cart == a.carts[Field(v, "cartHash")] IN
         When(\/ cart.intentHash # Field(v, "intentHash")
              \/ {intent.agentId, cart.agentId} # {Field(v, "agentId")}, Unverified)
         \cup When(cart.totals \cup {Field(v, "amountPaise")} # {amount}, Inconsistent)
         \cup When(intent.budgetPaise = NoField \/ ~(amount <= intent.budgetPaise),
                   "CHARGE_ABOVE_BUDGET")

\* Assert 3: one charge per idempotency key.
KeyFlags(a, agent, key) ==
    When(key = NoField, Unverified) \cup When(<<agent, key>> \in a.keysCharged, TwiceForKey)

\* Assert 1: the Cap, as a running total.
CapFlags(a, agent, amount) ==
    IF ~Known(a.caps, agent)
    THEN {Unverified}
    ELSE When(SpentBy(a, agent) + amount > a.caps[agent], "CHARGE_ABOVE_CAP")

Charge(a, n, v, amount) ==
    LET agent == Field(v, "agentId")
        key == Field(v, "idempotencyKey")
        chained == Flagged(a, n, ChainFlags(a, v, amount)) IN
    IF agent = NoField
    THEN chained
    ELSE Flagged([chained EXCEPT
                     !.keysCharged = @ \cup (IF key = NoField THEN {} ELSE {<<agent, key>>}),
                     !.spent = IF Known(a.caps, agent)
                               THEN Entry(agent, SpentBy(a, agent) + amount) ++ @ ELSE @],
                 n, KeyFlags(a, agent, key) \cup CapFlags(a, agent, amount))

SeePaid(a, n, e) ==
    LET amount == Field(e, "amountPaise")
        counted == [a EXCEPT !.paid = @ \cup {e.order}] IN
    CASE e.order = NoField -> Flagged(a, n, {Unverified})
      [] e.order # NoField /\ e.order \in a.paid -> Flagged(a, n, {"DUPLICATE_CHARGE_FOR_ORDER"})
      [] OTHER ->
         IF amount = NoField \/ ~(amount > 0)
         THEN Flagged(a, n, {Inconsistent})
         ELSE IF ~Known(a.verified, e.order)
         THEN Flagged(counted, n, {Unverified})
         ELSE Charge(counted, n, a.verified[e.order], amount)

\* A refund gives the Order's amount back once, to the Agent that was charged.
SeeRefunded(a, e) ==
    IF \/ NoField \in {e.order, Field(e, "amountPaise")}
       \/ e.order \in a.refunded
       \/ ~Known(a.verified, e.order)
       \/ Field(a.verified[e.order], "agentId") = NoField
    THEN a
    ELSE LET agent == Field(a.verified[e.order], "agentId") IN
         [a EXCEPT !.refunded = @ \cup {e.order},
                   !.spent = Entry(agent, SpentBy(a, agent) - Field(e, "amountPaise")) ++ @]

\* A Receipt restates the chain it attests.
SeeReceipt(a, n, e) ==
    IF ~Known(a.verified, e.order)
    THEN Flagged(a, n, {Unverified})
    ELSE Flagged(a, n, When(
             \/ \E f \in {"intentHash", "cartHash", "paymentHash", "amountPaise"} :
                    Field(e, f) # Field(a.verified[e.order], f)
             \/ Field(e, "gatewayPaymentId") = NoField, Inconsistent))

SeeRefusal(a, n, e) ==
    Flagged(a, n, When(\E f \in {"code", "reason", "recoverable"} : Field(e, f) = NoField,
                       "REFUSAL_WITHOUT_REASON_CODE"))

See(a, n, e) ==
    CASE e.type = "agent.registered"        -> SeeAgent(a, e)
      [] e.type = "mandate.intent_declared" -> SeeIntent(a, e)
      [] e.type = "mandate.cart_created"    -> SeeCart(a, e)
      [] e.type = "payment.verified"        -> SeeVerified(a, n, e)
      [] e.type = "payment.replayed"        -> SeeReplayed(a, n, e)
      [] e.type = "order.paid"              -> SeePaid(a, n, e)
      [] e.type = "order.refunded"          -> SeeRefunded(a, e)
      [] e.type = "receipt.issued"          -> SeeReceipt(a, n, e)
      [] e.type \in RefusalTypes            -> SeeRefusal(a, n, e)
      [] OTHER                              -> a

\* The events of a list of logs in the auditor's order: by sequence number, and
\* where two logs have the same number, in the order of the list.
Places(logs) == Max({0} \cup UNION {DOMAIN logs[w] : w \in DOMAIN logs}) * Cardinality(DOMAIN logs)

SeeNext(a, logs, k) ==
    LET width == Cardinality(DOMAIN logs)
        n == ((k - 1) \div width) + 1
        w == ((k - 1) % width) + 1 IN
    IF n \in DOMAIN logs[w] THEN See(a, n, logs[w][n]) ELSE a

\* auditRules.
Audit(logs) ==
    LET walk[k \in 0 .. Places(logs)] == IF k = 0 THEN Blank ELSE SeeNext(walk[k - 1], logs, k)
    IN walk[Places(logs)]

\* Captured minus refunded paise, over every Agent.
Captured(a) == SumFunctionOnSet(a.spent, DOMAIN a.spent)
=============================================================================
