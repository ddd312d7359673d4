----------------------------- MODULE Submission -----------------------------
(***************************************************************************)
(* submit_payment, the trust gate: concurrent calls of buyers who may      *)
(* retry, reuse a key, race two carts of one Intent, or spend their Cap    *)
(* twice, against a catalog that moves and a server that may restart.      *)
(*                                                                         *)
(* A call is a process.  It awaits every read of the database in turn, so  *)
(* what it decides on is what it read earlier; the order transaction is    *)
(* two steps, the row lock on the agent with the sum it protects, and the  *)
(* rest with the commit or the rollback.  What happens to an Order once    *)
(* its link is out is the business of Orders.tla: here it only settles.    *)
(***************************************************************************)
EXTENDS Integers, Sequences, FiniteSetsExt

CONSTANTS
    Calls,            \* submit_payment calls; a call's Order carries its name
    Agents, Keys, Carts, Intents, Variants,
    Requests,         \* what buyers submit
    Owner,            \* Owner[cart]: the Agent whose Cart mandate it is
    IntentOf,         \* IntentOf[cart]: the Intent mandate it points at
    Items,            \* Items[cart]: its lines, with the prices it pinned
    Budget,           \* Budget[intent], paise
    Cap,              \* Cap[agent], paise
    Custodial,        \* Custodial[agent]: the server holds its private key
    InitialCatalog,   \* the catalog the carts were made from
    Prices,           \* the prices a Variant may be given
    MaxMoves,         \* bound on changes of the catalog
    MaxCrashes,       \* bound on process restarts
    NoCall, NoRequest

Request == [agent : Agents, key : Keys, cart : Carts, signature : {"none", "valid", "forged"}]

Line == [variant : Variants, quantity : Nat \ {0}, price : Nat]

Entry == [price : Nat, stock : Nat, published : BOOLEAN]

ASSUME SubmissionAssumption ==
    /\ Requests \subseteq Request
    /\ Owner \in [Carts -> Agents]
    /\ IntentOf \in [Carts -> Intents]
    /\ \A c, d \in Carts : IntentOf[c] = IntentOf[d] => Owner[c] = Owner[d]
    /\ Items \in [Carts -> Seq(Line)]
    /\ Budget \in [Intents -> Nat]
    /\ Cap \in [Agents -> Nat]
    /\ Custodial \in [Agents -> BOOLEAN]
    /\ InitialCatalog \in [Variants -> Entry]
    /\ Prices \subseteq Nat
    /\ MaxMoves \in Nat
    /\ MaxCrashes \in Nat
    /\ NoCall \notin Calls
    /\ NoRequest \notin Requests

VARIABLES
    (*********************** rows of the database ***************************)
    status,           \* orders.status
    linked,           \* orders.payment_link_url is stored
    paymentMandates,  \* payment_mandates: agent, key, cart, Order
    consumedBy,       \* intent_mandates.consumed_by_order_id
    cartSigned,       \* cart_mandates.agent_signature is not null
    catalog,          \* variants joined to products
    moves,            \* changes of the catalog so far
    agentLock,        \* the call whose transaction locks the agents row
    (*********************** the server process *****************************)
    call,             \* the state of each call
    crashes,          \* restarts so far
    (*********************** the payment gateway ****************************)
    links             \* payment links created for each Order

orderVars == <<status, linked>>
chainVars == <<paymentMandates, consumedBy, cartSigned>>
catalogVars == <<catalog, moves>>
vars == <<orderVars, chainVars, catalogVars, agentLock, call, crashes, links>>

RefusalCode == {"IDEMPOTENCY_REUSE", "INVALID_MANDATE", "INTENT_CONSUMED", "PRICE_CHANGED",
                "OUT_OF_STOCK", "OVER_BUDGET", "OVER_CAP"}

Answers == RefusalCode \cup {"none", "malformed", "created", "replayed", "error"}

Ended == {"idle", "answered", "dropped"}

CallPc == Ended \cup {"lookup", "replay", "intent", "catalog", "order_tx", "key_conflict",
                      "placed", "attempted", "created_link"}

Idle == [pc |-> "idle", request |-> NoRequest, view |-> <<>>, overCap |-> FALSE,
         order |-> NoCall, answer |-> "none"]

Init ==
    /\ status = [o \in Calls |-> "absent"]
    /\ linked = [o \in Calls |-> FALSE]
    /\ paymentMandates = {}
    /\ consumedBy = [i \in Intents |-> NoCall]
    /\ cartSigned = [k \in Carts |-> Custodial[Owner[k]]]
    /\ catalog = InitialCatalog
    /\ moves = 0
    /\ agentLock = [a \in Agents |-> NoCall]
    /\ call = [c \in Calls |-> Idle]
    /\ crashes = 0
    /\ links = [o \in Calls |-> 0]

-----------------------------------------------------------------------------
(***************************************************************************)
(* Definitions named Broken... are none of the model: each is the bug that *)
(* a property of the runs is there to catch, put in place of the           *)
(* definition that follows it (README, Mutants).                           *)
(***************************************************************************)
At(c, pc) == call[c].pc = pc

Goto(c, pc) == call' = [call EXCEPT ![c].pc = pc]

AnswerWith(c, answer, order) ==
    call' = [call EXCEPT ![c].pc = "answered", ![c].answer = answer, ![c].order = order]

\* refuse(): the refusal is audited in a transaction of its own, then thrown.
Refuse(c, code) == AnswerWith(c, code, NoCall)

\* A step that moves only its call on.
Private == UNCHANGED <<orderVars, chainVars, catalogVars, agentLock, crashes, links>>

(***************************************************************************)
(* The cart must be the Agent's own, and the signature arguments must fit  *)
(* its custody; otherwise the request is malformed, which is no Refusal.   *)
(***************************************************************************)
WellFormed(r) ==
    /\ Owner[r.cart] = r.agent
    /\ Custodial[r.agent] <=> r.signature = "none"

Submit(c, r) ==
    /\ At(c, "idle")
    /\ WellFormed(r)
    /\ call' = [call EXCEPT ![c].pc = "lookup", ![c].request = r]
    /\ Private

RejectMalformed(c, r) ==
    /\ At(c, "idle")
    /\ ~WellFormed(r)
    /\ call' = [call EXCEPT ![c].pc = "answered", ![c].request = r, ![c].answer = "malformed"]
    /\ Private

(***************************************************************************)
(* replayOrRefuse, reached from the lookup that opens the gate and from    *)
(* the unique index on (agent, idempotency key).                           *)
(***************************************************************************)
\* Keys of all Agents in one scope.
BrokenExisting(r) == {m \in paymentMandates : m.key = r.key}

Existing(r) == {m \in paymentMandates : m.agent = r.agent /\ m.key = r.key}

RefuseKeyReuse(c) ==
    /\ At(c, "lookup") \/ At(c, "key_conflict")
    /\ \E m \in Existing(call[c].request) : m.cart # call[c].request.cart
    /\ Refuse(c, "IDEMPOTENCY_REUSE")
    /\ Private

BeginReplay(c) ==
    /\ At(c, "lookup") \/ At(c, "key_conflict")
    /\ \E m \in Existing(call[c].request) :
           /\ m.cart = call[c].request.cart
           /\ call' = [call EXCEPT ![c].pc = "replay", ![c].order = m.order]
    /\ Private

KeyIsNew(c) ==
    /\ At(c, "lookup")
    /\ Existing(call[c].request) = {}
    /\ Goto(c, "intent")
    /\ Private

\* The original result is rebuilt from the Order row; without a link on it,
\* because the original call is not done or never will be, the replay throws.
ReplayOriginal(c) ==
    /\ At(c, "replay")
    /\ IF linked[call[c].order]
       THEN AnswerWith(c, "replayed", call[c].order)
       ELSE AnswerWith(c, "error", NoCall)
    /\ Private

(***************************************************************************)
(* The rest of the gate outside the transaction.  The Intent's consumption *)
(* is judged on the row read here; each line of the cart is read in a      *)
(* query of its own.                                                       *)
(***************************************************************************)
RefuseForged(c) ==
    /\ At(c, "intent")
    /\ call[c].request.signature = "forged"
    /\ Refuse(c, "INVALID_MANDATE")
    /\ Private

Consumed(i) == consumedBy[i] # NoCall

RefuseConsumed(c) ==
    /\ At(c, "intent")
    /\ call[c].request.signature # "forged"
    /\ Consumed(IntentOf[call[c].request.cart])
    /\ Refuse(c, "INTENT_CONSUMED")
    /\ Private

IntentIsOpen(c) ==
    /\ At(c, "intent")
    /\ call[c].request.signature # "forged"
    /\ ~Consumed(IntentOf[call[c].request.cart])
    /\ Goto(c, "catalog")
    /\ Private

Lines(c) == Items[call[c].request.cart]

\* The line c reads next; none once its view covers the cart.
Reading(c, i) == At(c, "catalog") /\ i = Len(call[c].view) + 1 /\ i <= Len(Lines(c))

ReadLine(c, i) ==
    /\ Reading(c, i)
    /\ LET entry == catalog[Lines(c)[i].variant]
       IN  /\ entry.published
           /\ call' = [call EXCEPT ![c].view =
                          Append(@, [price |-> entry.price, stock |-> entry.stock])]
    /\ Private

RefuseUnpublished(c, i) ==
    /\ Reading(c, i)
    /\ ~catalog[Lines(c)[i].variant].published
    /\ Refuse(c, "PRICE_CHANGED")
    /\ Private

Total(k) ==
    SumFunction([i \in DOMAIN Items[k] |-> Items[k][i].quantity * Items[k][i].price])

PricesHold(c) == \A i \in 1..Len(Lines(c)) : call[c].view[i].price = Lines(c)[i].price

InStock(c) == \A i \in 1..Len(Lines(c)) : call[c].view[i].stock >= Lines(c)[i].quantity

InBudget(k) == Total(k) <= Budget[IntentOf[k]]

\* What the checks on the complete view come to, in the gate's order.
Verdict(c) ==
    IF ~PricesHold(c) THEN "PRICE_CHANGED"
    ELSE IF ~InStock(c) THEN "OUT_OF_STOCK"
    ELSE IF ~InBudget(call[c].request.cart) THEN "OVER_BUDGET"
    ELSE "none"

Viewed(c) == At(c, "catalog") /\ Len(call[c].view) = Len(Lines(c))

RefuseCart(c) ==
    /\ Viewed(c)
    /\ Verdict(c) # "none"
    /\ Refuse(c, Verdict(c))
    /\ Private

(***************************************************************************)
(* The order transaction.                                                  *)
(***************************************************************************)
\* Captured and pending spend: an Order holds its amount against the Cap until
\* it is cancelled or refunded.
Counting(a) ==
    {m \in paymentMandates : m.agent = a /\ status[m.order] \notin {"cancelled", "refunded"}}

Spent(a) == SumFunction([m \in Counting(a) |-> Total(m.cart)])

OverCap(a, k) == Spent(a) + Total(k) > Cap[a]

\* The sum is read without the row lock.
BrokenLockFree(a) == TRUE

LockFree(a) == agentLock[a] = NoCall

\* SELECT ... FOR UPDATE on the agents row, then the sum, judged at once.
BeginOrderTx(c) ==
    LET r == call[c].request
        a == r.agent
    IN  /\ Viewed(c)
        /\ Verdict(c) = "none"
        /\ LockFree(a)
        /\ agentLock' = [agentLock EXCEPT ![a] = c]
        /\ call' = [call EXCEPT ![c].pc = "order_tx", ![c].overCap = OverCap(a, r.cart)]
        /\ UNCHANGED <<orderVars, chainVars, catalogVars, crashes, links>>

\* The way out keeps the lock.
BrokenEndTx(c) == UNCHANGED agentLock

EndTx(c) == agentLock' = [agentLock EXCEPT ![call[c].request.agent] = NoCall]

\* The guarded UPDATE that consumes the Intent, without its guard.
BrokenIntentRaced(c) == FALSE

IntentRaced(c) == Consumed(IntentOf[call[c].request.cart])

\* No unique index on (agent, key).
BrokenKeyRaced(c) == FALSE

KeyRaced(c) == Existing(call[c].request) # {}

\* The Refusal is returned, not thrown, so the Order inserted before commits.
BrokenRefuseInTx(c, code) ==
    /\ EndTx(c)
    /\ Refuse(c, code)
    /\ status' = [status EXCEPT ![c] = "created"]
    /\ UNCHANGED <<linked, chainVars, catalogVars, crashes, links>>

\* A Refusal thrown inside the transaction rolls all of it back.
RefuseInTx(c, code) ==
    /\ EndTx(c)
    /\ Refuse(c, code)
    /\ UNCHANGED <<orderVars, chainVars, catalogVars, crashes, links>>

RefuseOverCap(c) ==
    /\ At(c, "order_tx")
    /\ call[c].overCap
    /\ RefuseInTx(c, "OVER_CAP")

RefuseRacedIntent(c) ==
    /\ At(c, "order_tx")
    /\ ~call[c].overCap
    /\ IntentRaced(c)
    /\ RefuseInTx(c, "INTENT_CONSUMED")

\* The unique index on (agent, key) refuses the insert: roll back, look again.
HitKeyIndex(c) ==
    /\ At(c, "order_tx")
    /\ ~call[c].overCap
    /\ ~IntentRaced(c)
    /\ KeyRaced(c)
    /\ EndTx(c)
    /\ Goto(c, "key_conflict")
    /\ UNCHANGED <<orderVars, chainVars, catalogVars, crashes, links>>

\* The Payment mandate that a purchase for the request of c leaves on Order o.
MandateFor(c, o) ==
    LET r == call[c].request
    IN  [agent |-> r.agent, key |-> r.key, cart |-> r.cart, order |-> o]

CommitOrder(c) ==
    LET r == call[c].request
    IN  /\ At(c, "order_tx")
        /\ ~call[c].overCap
        /\ ~IntentRaced(c)
        /\ ~KeyRaced(c)
        /\ status' = [status EXCEPT ![c] = "created"]
        /\ consumedBy' = [consumedBy EXCEPT ![IntentOf[r.cart]] = c]
        /\ paymentMandates' = paymentMandates \cup {MandateFor(c, c)}
        /\ cartSigned' = [cartSigned EXCEPT ![r.cart] = @ \/ r.signature # "none"]
        /\ EndTx(c)
        /\ Goto(c, "placed")
        /\ UNCHANGED <<linked, catalogVars, crashes, links>>

(***************************************************************************)
(* The gateway link.  The attempt is on record before the call, which may  *)
(* throw with or without a link left behind.                               *)
(***************************************************************************)
AttemptLink(c) ==
    /\ At(c, "placed")
    /\ Goto(c, "attempted")
    /\ Private

LinkCreated(c) == links' = [links EXCEPT ![c] = @ + 1]

CreateLink(c) ==
    /\ At(c, "attempted")
    /\ LinkCreated(c)
    /\ Goto(c, "created_link")
    /\ UNCHANGED <<orderVars, chainVars, catalogVars, agentLock, crashes>>

CreateLinkFails(c) ==
    /\ At(c, "attempted")
    /\ LinkCreated(c) \/ UNCHANGED links
    /\ AnswerWith(c, "error", NoCall)
    /\ UNCHANGED <<orderVars, chainVars, catalogVars, agentLock, crashes>>

StoreLink(c) ==
    /\ At(c, "created_link")
    /\ linked' = [linked EXCEPT ![c] = TRUE]
    /\ status' = [status EXCEPT ![c] = "awaiting_payment"]
    /\ AnswerWith(c, "created", c)
    /\ UNCHANGED <<chainVars, catalogVars, agentLock, crashes, links>>

-----------------------------------------------------------------------------
\* Webhooks settle an Order whose link the buyer holds (Orders.tla).
Settle(o) ==
    /\ \/ status[o] = "awaiting_payment" /\ linked[o]
          /\ \E s \in {"paid", "cancelled"} : status' = [status EXCEPT ![o] = s]
       \/ status[o] = "paid" /\ status' = [status EXCEPT ![o] = "refunded"]
    /\ UNCHANGED <<linked, chainVars, catalogVars, agentLock, call, crashes, links>>

MoveCatalog(v, entry) ==
    /\ moves < MaxMoves
    /\ moves' = moves + 1
    /\ catalog' = [catalog EXCEPT ![v] = entry]
    /\ UNCHANGED <<orderVars, chainVars, agentLock, call, crashes, links>>

\* The decrement looks at no stock.
BrokenSell(v) == MoveCatalog(v, [catalog[v] EXCEPT !.stock = @ - 1])

\* A fulfilled Order takes a unit.
Sell(v) == catalog[v].stock > 0 /\ MoveCatalog(v, [catalog[v] EXCEPT !.stock = @ - 1])

\* The Product leaves the published catalog for good.
Archive(v) == catalog[v].published /\ MoveCatalog(v, [catalog[v] EXCEPT !.published = FALSE])

\* No handler writes a published price; an operator may, as the scenarios do.
Reprice(v, p) == catalog[v].price # p /\ MoveCatalog(v, [catalog[v] EXCEPT !.price = p])

\* The process restarts: calls in flight end unanswered, open transactions
\* roll back, committed rows stay.
Crash ==
    /\ crashes < MaxCrashes
    /\ crashes' = crashes + 1
    /\ call' = [c \in Calls |-> IF call[c].pc \in Ended THEN call[c]
                                ELSE [call[c] EXCEPT !.pc = "dropped"]]
    /\ agentLock' = [a \in Agents |-> NoCall]
    /\ UNCHANGED <<orderVars, chainVars, catalogVars, links>>

GateStep(c) ==
    \/ RefuseKeyReuse(c) \/ BeginReplay(c) \/ KeyIsNew(c) \/ ReplayOriginal(c)
    \/ RefuseForged(c) \/ RefuseConsumed(c) \/ IntentIsOpen(c)
    \/ \E i \in 1..Len(Lines(c)) : ReadLine(c, i) \/ RefuseUnpublished(c, i)
    \/ RefuseCart(c)

TxStep(c) ==
    \/ BeginOrderTx(c) \/ RefuseOverCap(c) \/ RefuseRacedIntent(c) \/ HitKeyIndex(c)
    \/ CommitOrder(c)

LinkStep(c) == AttemptLink(c) \/ CreateLink(c) \/ CreateLinkFails(c) \/ StoreLink(c)

CallStep(c) == call[c].pc \notin Ended /\ (GateStep(c) \/ TxStep(c) \/ LinkStep(c))

Next ==
    \/ \E c \in Calls, r \in Requests : Submit(c, r) \/ RejectMalformed(c, r)
    \/ \E c \in Calls : CallStep(c) \/ Settle(c)
    \/ \E v \in Variants : Sell(v) \/ Archive(v) \/ \E p \in Prices : Reprice(v, p)
    \/ Crash

Spec == Init /\ [][Next]_vars

\* The event loop and the database run every call they accepted to its end.
Fairness == \A c \in Calls : WF_vars(CallStep(c))

FairSpec == Spec /\ Fairness

-----------------------------------------------------------------------------
(* The state of every row and call is of its kind.                         *)
TypeOK ==
    /\ status \in [Calls -> {"absent", "created", "awaiting_payment", "paid", "cancelled",
                             "refunded"}]
    /\ linked \in [Calls -> BOOLEAN]
    /\ paymentMandates \subseteq [agent : Agents, key : Keys, cart : Carts, order : Calls]
    /\ consumedBy \in [Intents -> Calls \cup {NoCall}]
    /\ cartSigned \in [Carts -> BOOLEAN]
    /\ catalog \in [Variants -> Entry]
    /\ moves \in 0..MaxMoves
    /\ agentLock \in [Agents -> Calls \cup {NoCall}]
    /\ call \in [Calls -> [pc : CallPc, request : Requests \cup {NoRequest},
                           view : Seq([price : Nat, stock : Nat]), overCap : BOOLEAN,
                           order : Calls \cup {NoCall}, answer : Answers]]
    /\ crashes \in 0..MaxCrashes
    /\ links \in [Calls -> Nat]

(* An idempotency key buys once: one Payment mandate, one Order and at     *)
(* most one payment link per Agent and key, whatever was retried or raced, *)
(* and the gateway holds a link for no Order but a committed one.          *)
KeyBuysOnce ==
    /\ \A m, n \in paymentMandates : m.agent = n.agent /\ m.key = n.key => m = n
    /\ \A o \in Calls :
           /\ links[o] <= 1
           /\ linked[o] => links[o] = 1
           /\ links[o] > 0 => \E m \in paymentMandates : m.order = o

(* The paid chain is 1:1:1: an Intent is consumed by one Order, the one    *)
(* Order whose cart points at it, and an Order exists exactly with its     *)
(* Payment mandate, the Intent consumed and both signatures on its cart.   *)
PaidChainIsOneToOne ==
    /\ \A m, n \in paymentMandates :
           IntentOf[m.cart] = IntentOf[n.cart] \/ m.order = n.order => m = n
    /\ \A m \in paymentMandates :
           /\ consumedBy[IntentOf[m.cart]] = m.order
           /\ Owner[m.cart] = m.agent
           /\ cartSigned[m.cart]
           /\ status[m.order] # "absent"
    /\ \A o \in Calls : status[o] # "absent" => \E m \in paymentMandates : m.order = o
    /\ \A i \in Intents : consumedBy[i] # NoCall =>
           \E m \in paymentMandates : IntentOf[m.cart] = i

(* Captured and pending spend never exceeds the Cap, although submissions  *)
(* of one Agent run concurrently and each reads the sum before it inserts. *)
CapHolds == \A a \in Agents : Spent(a) <= Cap[a]

NoTrace(c) ==
    /\ status[c] = "absent"
    /\ links[c] = 0
    /\ \A m \in paymentMandates : m.order # c
    /\ \A i \in Intents : consumedBy[i] # c

(* A call that was refused left nothing behind: no Order, no mandate, no   *)
(* consumed Intent, no gateway link.                                       *)
RefusedLeavesNothing ==
    \A c \in Calls :
        call[c].answer \in RefusalCode \cup {"malformed"} => NoTrace(c)

AnswerIsTrue(c) ==
    LET r == call[c].request
    IN  /\ call[c].answer \in {"created", "replayed"} =>
               /\ MandateFor(c, call[c].order) \in paymentMandates
               /\ linked[call[c].order]
        /\ call[c].answer = "IDEMPOTENCY_REUSE" =>
               \E m \in paymentMandates : m.agent = r.agent /\ m.key = r.key /\ m.cart # r.cart
        /\ call[c].answer = "INTENT_CONSUMED" => Consumed(IntentOf[r.cart])

(* Every answer is about the purchase that was asked for: an Order is      *)
(* answered only for its own Agent, key and cart, and the refusals that    *)
(* blame an earlier purchase have one to blame.                            *)
AnswersAreTrue == \A c \in Calls : AnswerIsTrue(c)

(* No call waits forever: locks are released on every way out of the order *)
(* transaction, and every call is answered unless a restart drops it.      *)
CallsAreAnswered ==
    \A c \in Calls : call[c].pc # "idle" ~> call[c].pc \in {"answered", "dropped"}

(* Same key and same cart hash replays the original result: a retry is     *)
(* never told that its own purchase consumed the Intent.                   *)
RetryReplays ==
    \A c \in Calls :
        call[c].answer = "INTENT_CONSUMED" =>
            \A m \in Existing(call[c].request) : m.cart # call[c].request.cart
=============================================================================
