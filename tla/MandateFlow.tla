----------------------------- MODULE MandateFlow -----------------------------
(***************************************************************************)
(* What stands before a payment: the seed gives the Merchant its signing   *)
(* key and token (src/domain/merchants.ts), an Agent registers with a Cap  *)
(* and a key (src/domain/agents.ts), declares Intents and creates Carts    *)
(* (src/domain/mandateFlow.ts) while the catalog moves and time goes on.   *)
(*                                                                         *)
(* A payload is its own hash.  A signature says which key signed which     *)
(* payload; both keys of a pair have one name, which is the Agent's or the *)
(* seed's for a generated pair.  The audit event of a stored row or of a   *)
(* refusal is part of its transaction and not kept.                        *)
(***************************************************************************)
EXTENDS Integers, Sequences, FiniteSetsExt

CONSTANTS
    Agents,
    ClientKeys,    \* key pairs buyers bring
    Seeds,         \* runs of the seed script
    Preferred,     \* Preferred[s]: MERCHANT_TOKEN of run s, or Null
    Variants,
    Prices,
    InitialCatalog,
    Calls,         \* declare_intent and create_cart calls, each made once
    Wants,
    Declarations,  \* the inputs declare_intent gets
    Baskets,       \* the items create_cart gets
    Registrations, \* the inputs register_agent gets
    Int4Max,       \* what an integer column holds
    MaxClock, MaxMoves, MaxCrashes,
    Null

Times == 0..MaxClock

\* IntentMandatePayload and CartMandatePayload, of the one Merchant.
IntentPayload == [agent : Agents, want : Wants, budget : Int, createdAt : Times]

PricedItem == [variant : Variants, quantity : Nat, price : Nat]

CartPayload == [agent : Agents, intentHash : IntentPayload, items : Seq(PricedItem), total : Nat,
                priceHash : SUBSET (Variants \X Nat), createdAt : Times]

\* signMandate, and verifyMandateSignature of a signature that may be any bytes.
Sign(key, payload) == [key |-> key, over |-> payload]

BrokenVerifies(key, payload, signature) == signature # Null

Verifies(key, payload, signature) == signature = Sign(key, payload)

Signature == [key : ClientKeys, over : IntentPayload]

ASSUME MandateFlowAssumption ==
    /\ Agents \cap Seeds = {} /\ ClientKeys \cap (Agents \cup Seeds) = {}
    /\ Prices \subseteq 0..Int4Max /\ Int4Max \in Nat
    /\ MaxClock \in Nat /\ MaxMoves \in Nat /\ MaxCrashes \in Nat
    /\ InitialCatalog \in [Variants -> [price : Prices, published : BOOLEAN]]
    /\ Registrations \subseteq [agent : Agents, publicKey : ClientKeys \cup {Null}, cap : Int]
    /\ Declarations \subseteq [agent : Agents, want : Wants \cup {Null}, budget : Int,
                               createdAt : Times \cup {Null}, signature : Signature \cup {Null}]
    /\ Baskets \subseteq Seq([variant : Variants, quantity : Int])
    /\ Preferred \in [Seeds -> {"env", Null}]
    /\ Null \notin Agents \cup Seeds \cup ClientKeys \cup Wants
    /\ Null \notin Times \cup Signature \cup {"env"}

VARIABLES
    merchantKey,   \* merchants.signing_public_key, _private_key
    merchantToken, \* merchants.token
    seed,          \* the running seeds: what they were told
    registered,    \* agents: public key, private key or Null, Cap
    intents,       \* intent_mandates
    carts,         \* cart_mandates
    catalog,       \* price and publication of each Variant
    call,          \* the running calls
    clock, moves, crashes

seedVars == <<merchantKey, merchantToken, seed>>
mandateVars == <<registered, intents, carts>>
worldVars == <<catalog, clock, moves>>
vars == <<seedVars, mandateVars, worldVars, call, crashes>>

NoAgent == [publicKey |-> Null, privateKey |-> Null, cap |-> Null]

\* window: the prices the catalog showed since a create_cart began, a history
\* variable; mandate: the payload about to be stored, with its signatures.
Idle == [pc |-> "idle", agent |-> Null, request |-> Null, lines |-> <<>>, window |-> {},
         mandate |-> Null, answer |-> "none"]

NotRun == [pc |-> "start", key |-> Null, token |-> Null, minted |-> FALSE]

Ended == {"idle", "answered", "dropped"}

Running(c) == call[c].pc \notin Ended

Init ==
    /\ merchantKey = Null /\ merchantToken = Null
    /\ seed = [s \in Seeds |-> NotRun]
    /\ registered = [a \in Agents |-> NoAgent]
    /\ intents = {} /\ carts = {}
    /\ catalog = InitialCatalog
    /\ call = [c \in Calls |-> Idle]
    /\ clock = 0 /\ moves = 0 /\ crashes = 0

\* A refusal says nothing else; of a success its mandate is kept.
Refuse(c, answer) == call' = [call EXCEPT ![c] = [Idle EXCEPT !.pc = "answered", !.answer = answer]]

Answer(c, answer) == call' = [call EXCEPT ![c].pc = "answered", ![c].answer = answer]

At(c, pc) == call[c].pc = pc

\* Mutant of Fits: no upper bound.
BrokenFits(n) == TRUE

\* What an integer column takes; more is an error of the database.
Fits(n) == n \in 0..Int4Max

-----------------------------------------------------------------------------
(****************************** merchants.ts *******************************)

\* Mutant of Missing: read first, written later without a condition.
BrokenMissing(value) == TRUE

\* The IS NULL of the UPDATE.
Missing(value) == value = Null

\* ensureMerchantSigningKey writes a fresh pair if there is none ...
EnsureSigningKey(s) ==
    /\ seed[s].pc = "start"
    /\ merchantKey' = IF Missing(merchantKey) THEN s ELSE merchantKey
    /\ seed' = [seed EXCEPT ![s].pc = "key"]
    /\ UNCHANGED <<merchantToken, mandateVars, worldVars, call, crashes>>

\* ... and reads back the one that is there.
ReadSigningKey(s) ==
    /\ seed[s].pc = "key"
    /\ seed' = [seed EXCEPT ![s].pc = "token", ![s].key = merchantKey]
    /\ UNCHANGED <<merchantKey, merchantToken, mandateVars, worldVars, call, crashes>>

\* ensureMerchantToken: the deployment's token or a random one, if missing.
EnsureToken(s) ==
    /\ seed[s].pc = "token"
    /\ merchantToken' = IF ~Missing(merchantToken) THEN merchantToken
                        ELSE IF Preferred[s] # Null THEN Preferred[s] ELSE s
    /\ seed' = [seed EXCEPT ![s].pc = "read_token", ![s].minted = Missing(merchantToken)]
    /\ UNCHANGED <<merchantKey, mandateVars, worldVars, call, crashes>>

ReadToken(s) ==
    /\ seed[s].pc = "read_token"
    /\ seed' = [seed EXCEPT ![s].pc = "done", ![s].token = merchantToken]
    /\ UNCHANGED <<merchantKey, merchantToken, mandateVars, worldVars, call, crashes>>

SeedStep(s) == EnsureSigningKey(s) \/ ReadSigningKey(s) \/ EnsureToken(s) \/ ReadToken(s)

-----------------------------------------------------------------------------
(******************************** agents.ts ********************************)

\* registerAgent: a buyer's own public key, or a pair generated and kept here.
\* A Cap that is malformed or does not fit stores nothing.
RegisterAgent(r) ==
    /\ registered[r.agent] = NoAgent
    /\ r.cap > 0 /\ Fits(r.cap)
    /\ registered' = [registered EXCEPT ![r.agent] =
           IF r.publicKey # Null
           THEN [publicKey |-> r.publicKey, privateKey |-> Null, cap |-> r.cap]
           ELSE [publicKey |-> r.agent, privateKey |-> r.agent, cap |-> r.cap]]
    /\ UNCHANGED <<seedVars, intents, carts, worldVars, call, crashes>>

Custodial(a) == registered[a].privateKey # Null

\* requireRegisteredAgent: the row is read once, at the start of a call.
Known(c) == registered[call[c].agent] # NoAgent

-----------------------------------------------------------------------------
(***************************** declareIntent *******************************)

Offers == {<<v, catalog[v].price>> : v \in {w \in Variants : catalog[w].published}}

Begin(c, pc, agent, request, window) ==
    /\ At(c, "idle")
    /\ call' = [call EXCEPT ![c] = [Idle EXCEPT !.pc = pc, !.agent = agent, !.request = request,
                                                !.window = window]]
    /\ UNCHANGED <<seedVars, mandateVars, worldVars, crashes>>

DeclareIntent(c, d) == Begin(c, "compose", d.agent, d, {})

\* budgetPaiseFromInput, the want, and resolveSigningMode: a custodial Agent
\* supplies neither createdAt nor signature, any other supplies both.
Sound(d) ==
    /\ d.budget > 0 /\ d.want # Null
    /\ IF Custodial(d.agent) THEN d.createdAt = Null /\ d.signature = Null
                             ELSE d.createdAt # Null /\ d.signature # Null

\* mandateCreatedAt: the server's clock, or the time the client signed.
Intent(d) == [agent |-> d.agent, want |-> d.want, budget |-> d.budget,
              createdAt |-> IF Custodial(d.agent) THEN clock ELSE d.createdAt]

\* signOrAdopt and agentSignatureVerifies.
AgentSignature(d) ==
    IF Custodial(d.agent) THEN Sign(registered[d.agent].privateKey, Intent(d)) ELSE d.signature

ComposeIntent(c) ==
    LET d == call[c].request
    IN  /\ At(c, "compose")
        /\ IF ~Known(c) THEN Refuse(c, "UNREGISTERED_AGENT")
           ELSE IF ~Sound(d) THEN Refuse(c, "invalid")
           ELSE IF ~Custodial(d.agent)
                     /\ ~Verifies(registered[d.agent].publicKey, Intent(d), d.signature)
           THEN Refuse(c, "INVALID_MANDATE")
           ELSE call' = [call EXCEPT ![c].pc = "store_intent",
                    ![c].mandate = [payload |-> Intent(d), agentSignature |-> AgentSignature(d)]]
        /\ UNCHANGED <<seedVars, mandateVars, worldVars, crashes>>

\* Mutant of Fresh: no unique index on the hash.
BrokenFresh(payload, stored) == TRUE

\* The unique index on the hash.
Fresh(payload, stored) == \A row \in stored : row.payload # payload

StoreIntent(c) ==
    LET mandate == call[c].mandate
    IN  /\ At(c, "store_intent")
        /\ IF Fresh(mandate.payload, intents) /\ Fits(mandate.payload.budget)
           THEN intents' = intents \cup {mandate} /\ Answer(c, "declared")
           ELSE UNCHANGED intents /\ Refuse(c, "error")
        /\ UNCHANGED <<seedVars, registered, carts, worldVars, crashes>>

-----------------------------------------------------------------------------
(******************************* createCart ********************************)

CreateCart(c, agent, intentHash, basket) ==
    Begin(c, "intent", agent, [intentHash |-> intentHash, items |-> basket], Offers)

\* Mutant of Own: any Agent's Intent will do.
BrokenOwn(intentHash, agent) == \E row \in intents : row.payload = intentHash

\* requireRegisteredAgent and requireIntentMandate read rows that stay; the
\* second read decides.  Another's Intent is as unusable as none.
Own(intentHash, agent) == \E row \in intents : row.payload = intentHash /\ row.payload.agent = agent

WellFormed(basket) ==
    /\ basket # <<>>
    /\ \A i \in DOMAIN basket : basket[i].quantity > 0
    /\ \A i, j \in DOMAIN basket : basket[i].variant = basket[j].variant => i = j

ReadIntent(c) ==
    /\ At(c, "intent")
    /\ IF ~Known(c) THEN Refuse(c, "UNREGISTERED_AGENT")
       ELSE IF Own(call[c].request.intentHash, call[c].agent) /\ WellFormed(call[c].request.items)
       THEN call' = [call EXCEPT ![c].pc = "lines"]
       ELSE Refuse(c, "invalid")
    /\ UNCHANGED <<seedVars, mandateVars, worldVars, crashes>>

\* Mutant of Published: the status of the Product is not asked for.
BrokenPublished(v) == TRUE

Published(v) == catalog[v].published

\* One findPublishedVariant per item: its price at this moment is pinned.
ReadLine(c) ==
    LET items == call[c].request.items
        next == items[Len(call[c].lines) + 1]
    IN  /\ At(c, "lines") /\ Len(call[c].lines) < Len(items)
        /\ IF Published(next.variant)
           THEN call' = [call EXCEPT ![c].lines =
                    Append(@, [variant |-> next.variant, quantity |-> next.quantity,
                               price |-> catalog[next.variant].price])]
           ELSE Refuse(c, "invalid")
        /\ UNCHANGED <<seedVars, mandateVars, worldVars, crashes>>

Total(lines) == MapThenSumSet(LAMBDA i : lines[i].quantity * lines[i].price, DOMAIN lines)

PriceHash(lines) == {<<lines[i].variant, lines[i].price>> : i \in DOMAIN lines}

Cart(c) ==
    [agent |-> call[c].agent, intentHash |-> call[c].request.intentHash, items |-> call[c].lines,
     total |-> Total(call[c].lines), priceHash |-> PriceHash(call[c].lines), createdAt |-> clock]

\* requireMerchantSigningKey, then compose and sign: for the Merchant always,
\* for the Agent only when its key is here.
ComposeCart(c) ==
    LET key == registered[call[c].agent].privateKey
    IN  /\ At(c, "lines") /\ Len(call[c].lines) = Len(call[c].request.items)
        /\ IF merchantKey = Null THEN Refuse(c, "error")
           ELSE call' = [call EXCEPT ![c].pc = "store_cart",
                    ![c].mandate = [payload |-> Cart(c),
                        agentSignature |-> IF key = Null THEN Null ELSE Sign(key, Cart(c)),
                        merchantSignature |-> Sign(merchantKey, Cart(c))]]
        /\ UNCHANGED <<seedVars, mandateVars, worldVars, crashes>>

StoreCart(c) ==
    LET mandate == call[c].mandate
    IN  /\ At(c, "store_cart")
        /\ IF Fresh(mandate.payload, carts) /\ Fits(mandate.payload.total)
           THEN carts' = carts \cup {mandate} /\ Answer(c, "created")
           ELSE UNCHANGED carts /\ Refuse(c, "error")
        /\ UNCHANGED <<seedVars, registered, intents, worldVars, crashes>>

CallStep(c) ==
    \/ ComposeIntent(c) \/ StoreIntent(c)
    \/ ReadIntent(c) \/ ReadLine(c) \/ ComposeCart(c) \/ StoreCart(c)

-----------------------------------------------------------------------------
(******************************** the world ********************************)

\* The clock has milliseconds: any number of calls may read the same one.
Tick ==
    /\ clock < MaxClock
    /\ clock' = clock + 1
    /\ UNCHANGED <<seedVars, mandateVars, catalog, moves, call, crashes>>

\* setVariantPrice, archiveProduct, confirmProduct: one Variant changes.
Move(v) ==
    /\ moves < MaxMoves
    /\ \E price \in Prices, published \in BOOLEAN :
           catalog' = [catalog EXCEPT ![v] = [price |-> price, published |-> published]]
    /\ moves' = moves + 1
    /\ call' = [c \in Calls |->
           IF call[c].pc \in {"intent", "lines"}
           THEN [call[c] EXCEPT !.window = @ \cup Offers'] ELSE call[c]]
    /\ UNCHANGED <<seedVars, mandateVars, clock, crashes>>

\* Everything that runs is gone, the seeds too; committed rows stay.
Crash ==
    /\ crashes < MaxCrashes
    /\ crashes' = crashes + 1
    /\ call' = [c \in Calls |-> IF Running(c) THEN [Idle EXCEPT !.pc = "dropped"] ELSE call[c]]
    /\ seed' = [s \in Seeds |-> IF seed[s].pc \in {"start", "done"} THEN seed[s]
                                ELSE [seed[s] EXCEPT !.pc = "dropped"]]
    /\ UNCHANGED <<merchantKey, merchantToken, mandateVars, worldVars>>

Next ==
    \/ \E s \in Seeds : SeedStep(s)
    \/ \E r \in Registrations : RegisterAgent(r)
    \/ \E c \in Calls :
           \/ \E d \in Declarations : DeclareIntent(c, d)
           \/ \E a \in Agents, row \in intents, b \in Baskets : CreateCart(c, a, row.payload, b)
           \/ CallStep(c)
    \/ Tick \/ Crash
    \/ \E v \in Variants : Move(v)

Spec == Init /\ [][Next]_vars

-----------------------------------------------------------------------------
\* What a row's key column holds: a Merchant's or an Agent's pair, no other's.
AgentRow == [publicKey : Agents \cup ClientKeys \cup {Null}, privateKey : Agents \cup {Null},
             cap : Int \cup {Null}]

(* Rows and calls are of their kind, and every stored amount fits its      *)
(* integer column: the gate checks no upper bound but this one.            *)
TypeOK ==
    /\ merchantKey \in Seeds \cup {Null}
    /\ merchantToken \in Seeds \cup {"env", Null}
    /\ seed \in [Seeds -> [pc : {"start", "key", "token", "read_token", "done", "dropped"},
                           key : Seeds \cup {Null}, token : Seeds \cup {"env", Null},
                           minted : BOOLEAN]]
    /\ registered \in [Agents -> AgentRow]
    /\ \A a \in Agents : registered[a] # NoAgent => registered[a].cap \in 1..Int4Max
    /\ \A row \in intents : row.payload.budget \in 1..Int4Max
    /\ \A row \in carts : row.payload.total \in 0..Int4Max
    /\ catalog \in [Variants -> [price : Prices, published : BOOLEAN]]
    /\ \A c \in Calls : call[c].pc \in
           Ended \cup {"compose", "store_intent", "intent", "lines", "store_cart"}
    /\ clock \in Times /\ moves \in 0..MaxMoves /\ crashes \in 0..MaxCrashes

\* verifyMandateChain from the Intent to the Cart, the Cart's own arithmetic
\* included.
ChainVerifies(intent, cart) ==
    /\ cart.intentHash = intent
    /\ cart.agent = intent.agent
    /\ cart.priceHash = PriceHash(cart.items)
    /\ cart.total = Total(cart.items)

(* mandateFlow.ts: whoever holds only the public keys can check everything.*)
(* Every stored Intent is signed by its Agent's key, every stored Cart by  *)
(* the key the Merchant has now and, where the server keeps it, by the     *)
(* Agent's; a Cart chains to a stored Intent of the same Agent.            *)
StoredChainVerifies ==
    /\ \A row \in intents :
           Verifies(registered[row.payload.agent].publicKey, row.payload, row.agentSignature)
    /\ \A row \in carts :
           /\ \E intent \in intents : ChainVerifies(intent.payload, row.payload)
           /\ Verifies(merchantKey, row.payload, row.merchantSignature)
           /\ IF Custodial(row.payload.agent)
              THEN Verifies(registered[row.payload.agent].publicKey, row.payload, row.agentSignature)
              ELSE row.agentSignature = Null

(* Every line of a created Cart is at a price the Variant was published at *)
(* while the call ran, in the order asked for, each Variant once.          *)
PinnedPricesWereShown ==
    \A c \in Calls : call[c].answer = "created" =>
        LET lines == call[c].lines
            items == call[c].request.items
        IN  /\ Len(lines) = Len(items)
            /\ \A i \in DOMAIN lines :
                   /\ lines[i].variant = items[i].variant /\ lines[i].quantity = items[i].quantity
                   /\ <<lines[i].variant, lines[i].price>> \in call[c].window

(* mandates.ts: a mandate hash names one act.  Two calls that were told    *)
(* their mandate is stored were not told the same hash, though both may    *)
(* have read one millisecond or repeat one signed payload.                 *)
HashNamesOneAct ==
    \A c, d \in Calls :
        /\ call[c].answer \in {"declared", "created"} /\ call[d].answer = call[c].answer
        /\ call[c].mandate.payload = call[d].mandate.payload
        => c = d

(* merchants.ts: two deploys that seed at once are told the one key and the*)
(* one token the Merchant keeps, and at most one of them prints the token. *)
SeedsAgree ==
    /\ \A s \in Seeds :
           /\ seed[s].key # Null => seed[s].key = merchantKey
           /\ seed[s].token # Null => seed[s].token = merchantToken
    /\ \A s, t \in Seeds : seed[s].minted /\ seed[t].minted => s = t
=============================================================================
