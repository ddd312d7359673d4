-------------------------- MODULE MandateFlowProofs --------------------------
(***************************************************************************)
(* Proofs about MandateFlow, for any Agents, seeds, declarations, baskets  *)
(* and calls, with any clock and any moves of the catalog.                 *)
(***************************************************************************)
EXTENDS MandateFlow, TLAPS

\* A row of intents, or the one about to be stored.
IntentOK(m) ==
    /\ m.payload.agent \in Agents
    /\ registered[m.payload.agent] # NoAgent
    /\ m.payload.budget \in Int /\ m.payload.budget > 0
    /\ Verifies(registered[m.payload.agent].publicKey, m.payload, m.agentSignature)

\* A row of carts, or the one about to be stored.
CartOK(m) ==
    /\ m.payload.agent \in Agents
    /\ registered[m.payload.agent] # NoAgent
    /\ \E intent \in intents : ChainVerifies(intent.payload, m.payload)
    /\ merchantKey # Null
    /\ Verifies(merchantKey, m.payload, m.merchantSignature)
    /\ IF Custodial(m.payload.agent)
       THEN Verifies(registered[m.payload.agent].publicKey, m.payload, m.agentSignature)
       ELSE m.agentSignature = Null

BasketItem == [variant : Variants, quantity : Int]

Line == [variant : Variants, quantity : Int, price : Int]

\* The record a call is, whatever its fields hold.
Shaped(r) ==
    r = [pc |-> r.pc, agent |-> r.agent, request |-> r.request, lines |-> r.lines,
         window |-> r.window, mandate |-> r.mandate, answer |-> r.answer]

CartCall(r) == r.pc \in {"intent", "lines", "store_cart"} \/ r.answer = "created"

\* The lines read so far are those asked for, at prices of the window.
LinesOK(r) ==
    /\ r.request.items \in Seq(BasketItem)
    /\ r.lines \in Seq(Line)
    /\ Len(r.lines) <= Len(r.request.items)
    /\ r.pc \in {"store_cart", "answered"} => Len(r.lines) = Len(r.request.items)
    /\ \A i \in DOMAIN r.lines :
           /\ r.lines[i].variant = r.request.items[i].variant
           /\ r.lines[i].quantity = r.request.items[i].quantity
           /\ <<r.lines[i].variant, r.lines[i].price>> \in r.window

CallPc == Ended \cup {"compose", "store_intent", "intent", "lines", "store_cart"}

\* What is known of a call between two of its steps.
CallOK(r) ==
    /\ Shaped(r)
    /\ r.pc \in CallPc
    /\ r.pc # "answered" => r.answer = "none"
    /\ r.pc = "compose" => r.request \in Declarations /\ r.agent = r.request.agent
    /\ r.pc = "store_intent" => IntentOK(r.mandate)
    /\ r.pc \in {"intent", "lines"} => r.agent \in Agents /\ Offers \subseteq r.window
    /\ r.pc = "lines" => registered[r.agent] # NoAgent /\ Own(r.request.intentHash, r.agent)
    /\ r.pc = "store_cart" => CartOK(r.mandate)
    /\ CartCall(r) => LinesOK(r)
    /\ r.answer = "declared" => r.mandate \in intents
    /\ r.answer = "created" => r.mandate \in carts

CallsOK == call = [c \in Calls |-> call[c]] /\ \A c \in Calls : \A r \in {call[c]} : CallOK(r)

\* What the seeds and the Merchant's row hold.
SeedsOK ==
    /\ merchantKey \in Seeds \cup {Null}
    /\ merchantToken \in Seeds \cup {"env", Null}
    /\ seed \in [Seeds -> [pc : {"start", "key", "token", "read_token", "done", "dropped"},
                           key : Seeds \cup {Null}, token : Seeds \cup {"env", Null},
                           minted : BOOLEAN]]
    /\ \A s \in Seeds : seed[s].minted => merchantToken # Null
    /\ SeedsAgree

RowsOK ==
    /\ registered \in [Agents -> AgentRow]
    /\ \A a \in Agents : registered[a] # NoAgent => registered[a].cap \in 1..Int4Max
    /\ \A a \in Agents : Custodial(a) => registered[a].publicKey = registered[a].privateKey
    /\ \A row \in intents : IntentOK(row) /\ row.payload.budget \in 1..Int4Max
    /\ \A row \in carts : CartOK(row) /\ row.payload.total \in 0..Int4Max

WorldOK ==
    /\ catalog \in [Variants -> [price : Prices, published : BOOLEAN]]
    /\ clock \in Times /\ moves \in 0..MaxMoves /\ crashes \in 0..MaxCrashes

IInv == SeedsOK /\ RowsOK /\ WorldOK /\ CallsOK /\ HashNamesOneAct

-----------------------------------------------------------------------------
(***************************** what stays **********************************)

\* Rows are added and never changed, and the Merchant's key is written once.
Grows ==
    /\ merchantKey # Null => merchantKey' = merchantKey
    /\ \A a \in Agents : registered[a] # NoAgent => registered'[a] = registered[a]
    /\ intents \subseteq intents'
    /\ carts \subseteq carts'

LEMMA IntentStaysOK ==
    ASSUME NEW m, IntentOK(m), Grows
    PROVE  IntentOK(m)'
  BY DEF IntentOK, Grows, Verifies, Sign

LEMMA CartStaysOK ==
    ASSUME NEW m, CartOK(m), Grows
    PROVE  CartOK(m)'
  BY DEF CartOK, Grows, Verifies, Sign, Custodial, ChainVerifies

\* A call that does not move stays as it should be.
LEMMA CallStaysOK ==
    ASSUME NEW r, CallOK(r), Grows, UNCHANGED catalog
    PROVE  CallOK(r)'
  <1>1. r.pc = "store_intent" => IntentOK(r.mandate)'
    BY IntentStaysOK DEF CallOK
  <1>2. r.pc = "store_cart" => CartOK(r.mandate)'
    BY CartStaysOK DEF CallOK
  <1>3. r.pc = "lines" => registered'[r.agent] # NoAgent /\ Own(r.request.intentHash, r.agent)'
    BY DEF CallOK, Grows, Own
  <1>4. Offers' = Offers
    BY DEF Offers
  <1>5. /\ r.answer = "declared" => r.mandate \in intents'
        /\ r.answer = "created" => r.mandate \in carts'
    BY DEF CallOK, Grows
  <1> QED BY <1>1, <1>2, <1>3, <1>4, <1>5 DEF CallOK

\* Rows stay as they should be where only the key or an Agent is added.
LEMMA RowsStayOK ==
    ASSUME RowsOK, Grows, UNCHANGED <<intents, carts>>
    PROVE  /\ \A row \in intents' : IntentOK(row)' /\ row.payload.budget \in 1..Int4Max
           /\ \A row \in carts' : CartOK(row)' /\ row.payload.total \in 0..Int4Max
  BY IntentStaysOK, CartStaysOK DEF RowsOK

Successes == {"declared", "created"}

\* One call moves and is not told of a success.
LEMMA CallMoves ==
    ASSUME CallsOK, HashNamesOneAct, Grows, UNCHANGED catalog, NEW c \in Calls, NEW r,
           call' = [call EXCEPT ![c] = r], CallOK(r)', r.answer \notin Successes
    PROVE  CallsOK' /\ HashNamesOneAct'
  <1>1. call' = [d \in Calls |-> call'[d]] /\ call'[c] = r
        /\ \A d \in Calls : d # c => call'[d] = call[d]
    BY DEF CallsOK
  <1>2. ASSUME NEW d \in Calls, NEW q \in {call'[d]}
        PROVE  CallOK(q)'
    <2>1. CASE d = c
      BY <1>1, <1>2, <2>1
    <2>2. CASE d # c
      <3>1. CallOK(q)
        BY <1>1, <1>2, <2>2 DEF CallsOK
      <3> QED BY <3>1, CallStaysOK
    <2> QED BY <2>1, <2>2
  <1>3. HashNamesOneAct'
    BY <1>1 DEF HashNamesOneAct, Successes
  <1> QED BY <1>1, <1>2, <1>3 DEF CallsOK

\* No call moves.
LEMMA CallsStayOK ==
    ASSUME CallsOK, HashNamesOneAct, Grows, UNCHANGED catalog, UNCHANGED call
    PROVE  CallsOK' /\ HashNamesOneAct'
  <1>1. ASSUME NEW d \in Calls, NEW q \in {call'[d]}
        PROVE  CallOK(q)'
    <2>1. CallOK(q)
      BY <1>1 DEF CallsOK
    <2> QED BY <2>1, CallStaysOK
  <1> QED BY <1>1 DEF CallsOK, HashNamesOneAct

\* A refusal is in order in any state.
LEMMA RefusalOK ==
    ASSUME NEW a, a \notin Successes
    PROVE  CallOK([Idle EXCEPT !.pc = "answered", !.answer = a])'
  <1>1. PICK r : r = [Idle EXCEPT !.pc = "answered", !.answer = a]
    OBVIOUS
  <1>2. r.pc = "answered" /\ r.answer = a /\ Shaped(r)
    BY <1>1 DEF Idle, Shaped
  <1>3. CallOK(r)'
    BY <1>2 DEF CallOK, Shaped, CallPc, Ended, CartCall, Successes
  <1> QED BY <1>1, <1>3

\* What CallsOK says of the call that moves, and what a refusal of it is.
LEMMA Refused ==
    ASSUME CallsOK, HashNamesOneAct, Grows, UNCHANGED catalog, NEW c \in Calls,
           NEW a, a \notin Successes, Refuse(c, a)
    PROVE  CallsOK' /\ HashNamesOneAct'
  <1>1. PICK r : r = [Idle EXCEPT !.pc = "answered", !.answer = a]
    OBVIOUS
  <1>2. CallOK(r)'
    BY <1>1, RefusalOK
  <1>3. r.answer \notin Successes
    BY <1>1 DEF Idle
  <1>4. call' = [call EXCEPT ![c] = r]
    BY <1>1 DEF Refuse
  <1> QED BY <1>2, <1>3, <1>4, CallMoves

-----------------------------------------------------------------------------
(****************************** the seeds **********************************)

LEMMA SeedPreserves ==
    ASSUME IInv, NEW s \in Seeds, SeedStep(s)
    PROVE  IInv'
  <1> USE DEF IInv
  <1>1. UNCHANGED <<registered, intents, carts, catalog, clock, moves, call, crashes>>
    BY DEF SeedStep, EnsureSigningKey, ReadSigningKey, EnsureToken, ReadToken, mandateVars, worldVars
  <1>2. Grows
    BY <1>1 DEF SeedStep, EnsureSigningKey, ReadSigningKey, EnsureToken, ReadToken, Grows, Missing
  <1>3. SeedsOK'
    <2> Null \notin Seeds \cup {"env"} /\ Preferred \in [Seeds -> {"env", Null}]
      BY MandateFlowAssumption
    <2>1. CASE EnsureSigningKey(s)
      BY <2>1 DEF EnsureSigningKey, SeedsOK, SeedsAgree, Missing
    <2>2. CASE ReadSigningKey(s)
      BY <2>2, ZenonT(60) DEF ReadSigningKey, SeedsOK, SeedsAgree
    <2>3. CASE EnsureToken(s)
      <3>1. merchantToken' # Null /\ merchantToken' \in Seeds \cup {"env", Null}
        BY <2>3 DEF EnsureToken, SeedsOK, Missing
      <3>2. merchantToken # Null => merchantToken' = merchantToken
        BY <2>3 DEF EnsureToken, Missing
      <3>3. merchantKey' = merchantKey
        BY <2>3 DEF EnsureToken
      <3>4. PICK b : b = Missing(merchantToken)
        OBVIOUS
      <3>5. seed' = [seed EXCEPT ![s].pc = "read_token", ![s].minted = b]
        BY <2>3, <3>4, Zenon DEF EnsureToken
      <3>6. b \in BOOLEAN /\ (b = TRUE => merchantToken = Null)
        BY <3>4 DEF Missing
      <3>7. seed' \in [Seeds -> [pc : {"start", "key", "token", "read_token", "done", "dropped"},
                                 key : Seeds \cup {Null}, token : Seeds \cup {"env", Null},
                                 minted : BOOLEAN]]
        BY <3>5, <3>6, ZenonT(60) DEF SeedsOK
      <3>8. /\ \A t \in Seeds : t # s => seed'[t] = seed[t]
            /\ seed'[s].key = seed[s].key /\ seed'[s].token = seed[s].token
            /\ seed'[s].minted = b
        BY <3>5, <3>6 DEF SeedsOK
      <3>9. \A t \in Seeds : t # s /\ seed'[t].minted => merchantToken # Null
        BY <3>8 DEF SeedsOK
      <3>10. \A t \in Seeds : /\ seed'[t].key # Null => seed'[t].key = merchantKey'
                              /\ seed'[t].token # Null => seed'[t].token = merchantToken'
        BY <3>2, <3>3, <3>8 DEF SeedsOK, SeedsAgree
      <3>11. \A t, u \in Seeds : seed'[t].minted /\ seed'[u].minted => t = u
        <4>1. seed'[s].minted => merchantToken = Null
          BY <3>6, <3>8
        <4>2. \A t, u \in Seeds : t # s /\ u # s /\ seed'[t].minted /\ seed'[u].minted => t = u
          BY <3>8 DEF SeedsOK, SeedsAgree
        <4> QED BY <3>9, <4>1, <4>2
      <3>12. SeedsAgree'
        BY <3>10, <3>11 DEF SeedsAgree
      <3> QED BY <3>1, <3>3, <3>7, <3>12 DEF SeedsOK
    <2>4. CASE ReadToken(s)
      BY <2>4 DEF ReadToken, SeedsOK, SeedsAgree
    <2> QED BY <2>1, <2>2, <2>3, <2>4 DEF SeedStep
  <1>4. RowsOK'
    BY <1>1, <1>2, RowsStayOK DEF RowsOK, Custodial
  <1>5. WorldOK'
    BY <1>1 DEF WorldOK
  <1> QED BY <1>1, <1>2, <1>3, <1>4, <1>5, CallsStayOK

-----------------------------------------------------------------------------
(***************************** registration ********************************)

LEMMA RegisterPreserves ==
    ASSUME IInv, NEW q \in Registrations, RegisterAgent(q)
    PROVE  IInv'
  <1> USE DEF IInv
  <1>1. UNCHANGED <<merchantKey, merchantToken, seed, intents, carts, catalog, clock, moves, call, crashes>>
    BY DEF RegisterAgent, seedVars, worldVars
  <1>2. q.agent \in Agents /\ q.publicKey \in ClientKeys \cup {Null} /\ q.cap \in Int
    BY MandateFlowAssumption
  <1>3. /\ registered[q.agent] = NoAgent
        /\ q.cap \in 1..Int4Max
        /\ registered' = [registered EXCEPT ![q.agent] = registered'[q.agent]]
        /\ registered'[q.agent] \in AgentRow /\ registered'[q.agent].cap = q.cap
        /\ registered'[q.agent].privateKey # Null =>
               registered'[q.agent].publicKey = registered'[q.agent].privateKey
    <2>1. registered[q.agent] = NoAgent /\ q.cap \in 1..Int4Max
      BY <1>2 DEF RegisterAgent, Fits
    <2>2. PICK row : /\ registered' = [registered EXCEPT ![q.agent] = row]
                     /\ \/ row = [publicKey |-> q.publicKey, privateKey |-> Null, cap |-> q.cap]
                        \/ row = [publicKey |-> q.agent, privateKey |-> q.agent, cap |-> q.cap]
      BY DEF RegisterAgent
    <2>3. registered'[q.agent] = row
      BY <1>2, <2>2 DEF RowsOK
    <2>4. row \in AgentRow /\ row.cap = q.cap
          /\ (row.privateKey # Null => row.publicKey = row.privateKey)
      BY <1>2, <2>2 DEF AgentRow
    <2> QED BY <2>1, <2>2, <2>3, <2>4
  <1>4. Grows
    BY <1>1, <1>2, <1>3 DEF Grows, RowsOK
  <1>5. RowsOK'
    BY <1>1, <1>2, <1>3, <1>4, RowsStayOK DEF RowsOK, Custodial
  <1> QED BY <1>1, <1>4, <1>5, CallsStayOK DEF SeedsOK, SeedsAgree, WorldOK

-----------------------------------------------------------------------------
(**************************** declare_intent *******************************)

\* A step of a call that leaves the rows alone: the new record says it all.
LEMMA QuietStep ==
    ASSUME IInv, NEW c \in Calls, NEW r, CallOK(r), r.answer \notin Successes,
           call' = [call EXCEPT ![c] = r],
           UNCHANGED <<seedVars, mandateVars, worldVars, crashes>>
    PROVE  IInv'
  <1> USE DEF IInv, seedVars, mandateVars, worldVars
  <1>1. Grows
    BY DEF Grows
  <1>2. CallOK(r)'
    BY <1>1, CallStaysOK
  <1>3. CallsOK' /\ HashNamesOneAct'
    BY <1>1, <1>2, CallMoves
  <1>4. RowsOK'
    BY <1>1, RowsStayOK DEF RowsOK, Custodial
  <1>5. SeedsOK' /\ WorldOK'
    BY DEF SeedsOK, SeedsAgree, WorldOK
  <1> QED BY <1>3, <1>4, <1>5

LEMMA QuietRefusal ==
    ASSUME IInv, NEW c \in Calls, NEW a, a \notin Successes, Refuse(c, a),
           UNCHANGED <<seedVars, mandateVars, worldVars, crashes>>
    PROVE  IInv'
  <1> USE DEF IInv, seedVars, mandateVars, worldVars
  <1>1. Grows
    BY DEF Grows
  <1>2. CallsOK' /\ HashNamesOneAct'
    BY <1>1, Refused
  <1>3. RowsOK'
    BY <1>1, RowsStayOK DEF RowsOK, Custodial
  <1>4. SeedsOK' /\ WorldOK'
    BY DEF SeedsOK, SeedsAgree, WorldOK
  <1> QED BY <1>2, <1>3, <1>4

\* The record of the call that moves.
LEMMA TheCall ==
    ASSUME CallsOK, NEW c \in Calls
    PROVE  CallOK(call[c]) /\ \A f : [call EXCEPT ![c] = f][c] = f
  BY DEF CallsOK

LEMMA DeclareIntentPreserves ==
    ASSUME IInv, NEW c \in Calls, NEW d \in Declarations, DeclareIntent(c, d)
    PROVE  IInv'
  <1>1. PICK r : r = [Idle EXCEPT !.pc = "compose", !.agent = d.agent, !.request = d, !.window = {}]
    OBVIOUS
  <1>2. call' = [call EXCEPT ![c] = r] /\ UNCHANGED <<seedVars, mandateVars, worldVars, crashes>>
    BY <1>1 DEF DeclareIntent, Begin
  <1>3. /\ r.pc = "compose" /\ r.agent = d.agent /\ r.request = d /\ r.answer = "none"
        /\ Shaped(r)
    BY <1>1 DEF Idle, Shaped
  <1>4. CallOK(r) /\ r.answer \notin Successes
    BY <1>3 DEF CallOK, CallPc, CartCall, Successes
  <1> QED BY <1>2, <1>4, QuietStep

LEMMA ComposeIntentPreserves ==
    ASSUME IInv, NEW c \in Calls, ComposeIntent(c)
    PROVE  IInv'
  <1> USE DEF IInv
  <1>1. PICK q : q = call[c]
    OBVIOUS
  <1>2. PICK d : d = q.request
    OBVIOUS
  <1>3. CallOK(q) /\ q.pc = "compose" /\ UNCHANGED <<seedVars, mandateVars, worldVars, crashes>>
    BY <1>1, TheCall DEF ComposeIntent, At
  <1>4. d \in Declarations /\ d.agent \in Agents /\ d.budget \in Int
        /\ q.agent = d.agent /\ q.answer = "none" /\ Shaped(q)
    BY <1>2, <1>3, MandateFlowAssumption DEF CallOK
  <1>5. ASSUME NEW a \in {"UNREGISTERED_AGENT", "invalid", "INVALID_MANDATE"}, Refuse(c, a)
        PROVE  IInv'
    BY <1>3, <1>5, QuietRefusal DEF Successes
  <1>6. ASSUME Known(c), Sound(d),
               Custodial(d.agent) \/ Verifies(registered[d.agent].publicKey, Intent(d), d.signature),
               call' = [call EXCEPT ![c].pc = "store_intent",
                    ![c].mandate = [payload |-> Intent(d), agentSignature |-> AgentSignature(d)]]
        PROVE  IInv'
    <2>1. PICK m : m = [payload |-> Intent(d), agentSignature |-> AgentSignature(d)]
      OBVIOUS
    <2>2. PICK r : r = [q EXCEPT !.pc = "store_intent", !.mandate = m]
      OBVIOUS
    <2>3. call' = [call EXCEPT ![c] = r]
      BY <1>1, <1>6, <2>1, <2>2
    <2>4. /\ m.payload.agent = d.agent /\ m.payload.budget = d.budget /\ m.payload = Intent(d)
          /\ m.agentSignature = AgentSignature(d)
      BY <2>1 DEF Intent
    <2>5. IntentOK(m)
      <3>1. registered[d.agent] # NoAgent
        BY <1>1, <1>4, <1>6 DEF Known
      <3>2. Custodial(d.agent) => registered[d.agent].publicKey = registered[d.agent].privateKey
        BY <1>4 DEF RowsOK
      <3>3. Verifies(registered[d.agent].publicKey, m.payload, m.agentSignature)
        BY <1>6, <2>4, <3>2 DEF Verifies, AgentSignature
      <3>4. m.payload.budget \in Int /\ m.payload.budget > 0
        BY <1>4, <1>6, <2>4 DEF Sound
      <3> QED BY <1>4, <2>4, <3>1, <3>3, <3>4 DEF IntentOK
    <2>6. r.pc = "store_intent" /\ r.mandate = m /\ r.answer = "none" /\ Shaped(r)
      BY <1>4, <2>2 DEF Shaped
    <2>7. CallOK(r) /\ r.answer \notin Successes
      BY <2>5, <2>6 DEF CallOK, CallPc, CartCall, Successes
    <2> QED BY <1>3, <2>3, <2>7, QuietStep
  <1> QED BY <1>1, <1>2, <1>5, <1>6 DEF ComposeIntent

LEMMA StoreIntentPreserves ==
    ASSUME IInv, NEW c \in Calls, StoreIntent(c)
    PROVE  IInv'
  <1> USE DEF IInv
  <1>1. PICK q : q = call[c]
    OBVIOUS
  <1>2. PICK m : m = q.mandate
    OBVIOUS
  <1>3. CallOK(q) /\ q.pc = "store_intent" /\ Shaped(q) /\ IntentOK(m)
        /\ UNCHANGED <<seedVars, registered, carts, worldVars, crashes>>
    BY <1>1, <1>2, TheCall DEF StoreIntent, At, CallOK
  <1>4. CASE UNCHANGED intents /\ Refuse(c, "error")
    BY <1>3, <1>4, QuietRefusal DEF Successes, mandateVars
  <1>5. CASE /\ Fresh(m.payload, intents) /\ Fits(m.payload.budget)
             /\ intents' = intents \cup {m} /\ Answer(c, "declared")
    <2> USE DEF seedVars, worldVars
    <2>1. PICK r : r = [q EXCEPT !.pc = "answered", !.answer = "declared"]
      OBVIOUS
    <2>2. call' = [call EXCEPT ![c] = r]
      BY <1>1, <1>5, <2>1 DEF Answer
    <2>3. r.pc = "answered" /\ r.answer = "declared" /\ r.mandate = m /\ Shaped(r)
      BY <1>2, <1>3, <2>1 DEF Shaped
    <2>4. Grows
      BY <1>3, <1>5 DEF Grows
    <2>5. CallOK(r)'
      BY <1>5, <2>3 DEF CallOK, Shaped, CallPc, Ended, CartCall
    <2>6. /\ call' = [d \in Calls |-> call'[d]] /\ call'[c] = r
          /\ \A d \in Calls : d # c => call'[d] = call[d]
      BY <2>2 DEF CallsOK
    <2>7. ASSUME NEW d \in Calls, NEW p \in {call'[d]}, d # c
          PROVE  CallOK(p)' /\ (p.answer = "declared" => p.mandate.payload # m.payload)
      <3>1. CallOK(p)
        BY <2>6, <2>7 DEF CallsOK
      <3>2. CallOK(p)'
        BY <1>3, <2>4, <3>1, CallStaysOK
      <3>3. p.answer = "declared" => p.mandate \in intents
        BY <3>1 DEF CallOK
      <3> QED BY <1>5, <3>2, <3>3 DEF Fresh
    <2>8. CallsOK'
      BY <2>5, <2>6, <2>7 DEF CallsOK
    <2>9. HashNamesOneAct'
      BY <2>3, <2>6, <2>7 DEF HashNamesOneAct
    <2>10. RowsOK'
      <3>1. ASSUME NEW row \in intents'
            PROVE  IntentOK(row)' /\ row.payload.budget \in 1..Int4Max
        <4>1. IntentOK(row)
          BY <1>3, <1>5 DEF RowsOK
        <4>2. IntentOK(row)'
          BY <2>4, <4>1, IntentStaysOK
        <4>3. row.payload.budget \in 1..Int4Max
          BY <1>5, <4>1 DEF RowsOK, IntentOK, Fits
        <4> QED BY <4>2, <4>3
      <3>2. \A row \in carts' : CartOK(row)' /\ row.payload.total \in 0..Int4Max
        BY <1>3, <2>4, CartStaysOK DEF RowsOK
      <3> QED BY <1>3, <3>1, <3>2 DEF RowsOK, Custodial
    <2>11. SeedsOK' /\ WorldOK'
      BY <1>3 DEF SeedsOK, SeedsAgree, WorldOK
    <2> QED BY <2>8, <2>9, <2>10, <2>11
  <1> QED BY <1>1, <1>2, <1>4, <1>5 DEF StoreIntent

-----------------------------------------------------------------------------
(****************************** create_cart ********************************)

LEMMA CreateCartPreserves ==
    ASSUME IInv, NEW c \in Calls, NEW a \in Agents, NEW i, NEW b \in Baskets, CreateCart(c, a, i, b)
    PROVE  IInv'
  <1>1. PICK r : r = [Idle EXCEPT !.pc = "intent", !.agent = a,
                                  !.request = [intentHash |-> i, items |-> b], !.window = Offers]
    OBVIOUS
  <1>2. call' = [call EXCEPT ![c] = r] /\ UNCHANGED <<seedVars, mandateVars, worldVars, crashes>>
    BY <1>1 DEF CreateCart, Begin
  <1>3. /\ r.pc = "intent" /\ r.agent = a /\ r.request.items = b /\ r.answer = "none"
        /\ r.lines = <<>> /\ r.window = Offers /\ Shaped(r)
    BY <1>1 DEF Idle, Shaped
  <1>4. b \in Seq(BasketItem)
    BY MandateFlowAssumption DEF BasketItem
  <1>5. LinesOK(r)
    BY <1>3, <1>4 DEF LinesOK
  <1>6. CallOK(r) /\ r.answer \notin Successes
    BY <1>3, <1>5 DEF CallOK, CallPc, Successes
  <1> QED BY <1>2, <1>6, QuietStep

LEMMA ReadIntentPreserves ==
    ASSUME IInv, NEW c \in Calls, ReadIntent(c)
    PROVE  IInv'
  <1> USE DEF IInv
  <1>1. PICK q : q = call[c]
    OBVIOUS
  <1>2. CallOK(q) /\ q.pc = "intent" /\ UNCHANGED <<seedVars, mandateVars, worldVars, crashes>>
    BY <1>1, TheCall DEF ReadIntent, At
  <1>3. ASSUME NEW a \in {"UNREGISTERED_AGENT", "invalid"}, Refuse(c, a)
        PROVE  IInv'
    BY <1>2, <1>3, QuietRefusal DEF Successes
  <1>4. ASSUME Known(c), Own(q.request.intentHash, q.agent), call' = [call EXCEPT ![c].pc = "lines"]
        PROVE  IInv'
    <2>1. PICK r : r = [q EXCEPT !.pc = "lines"]
      OBVIOUS
    <2>2. call' = [call EXCEPT ![c] = r]
      BY <1>1, <1>4, <2>1
    <2>3. /\ r.pc = "lines" /\ r.agent = q.agent /\ r.request = q.request /\ r.answer = "none"
          /\ r.lines = q.lines /\ r.window = q.window /\ Shaped(r)
      BY <1>2, <2>1 DEF CallOK, Shaped
    <2>4. LinesOK(r)
      BY <1>2, <2>3 DEF CallOK, CartCall, LinesOK
    <2>5. registered[r.agent] # NoAgent /\ Own(r.request.intentHash, r.agent)
      BY <1>1, <1>4, <2>3 DEF Known
    <2>6. r.agent \in Agents /\ Offers \subseteq r.window
      BY <1>2, <2>3 DEF CallOK
    <2>7. CallOK(r) /\ r.answer \notin Successes
      BY <2>3, <2>4, <2>5, <2>6 DEF CallOK, CallPc, Successes
    <2> QED BY <1>2, <2>2, <2>7, QuietStep
  <1> QED BY <1>1, <1>3, <1>4 DEF ReadIntent

LEMMA ReadLinePreserves ==
    ASSUME IInv, NEW c \in Calls, ReadLine(c)
    PROVE  IInv'
  <1> USE DEF IInv
  <1>1. PICK q : q = call[c]
    OBVIOUS
  <1>2. /\ CallOK(q) /\ q.pc = "lines" /\ Len(q.lines) < Len(q.request.items)
        /\ UNCHANGED <<seedVars, mandateVars, worldVars, crashes>>
    BY <1>1, TheCall DEF ReadLine, At
  <1>3. PICK next : next = q.request.items[Len(q.lines) + 1]
    OBVIOUS
  <1>4. LinesOK(q) /\ Shaped(q) /\ q.answer = "none"
    BY <1>2 DEF CallOK, CartCall
  <1>5. next \in BasketItem /\ next.variant \in Variants /\ next.quantity \in Int
    <2>1. q.request.items \in Seq(BasketItem) /\ Len(q.lines) + 1 \in DOMAIN q.request.items
      BY <1>2, <1>4 DEF LinesOK
    <2>2. next \in BasketItem
      BY <1>3, <2>1
    <2> QED BY <2>2 DEF BasketItem
  <1>6. CASE Refuse(c, "invalid")
    BY <1>2, <1>6, QuietRefusal DEF Successes
  <1>7. ASSUME Published(next.variant),
               call' = [call EXCEPT ![c].lines =
                    Append(@, [variant |-> next.variant, quantity |-> next.quantity,
                               price |-> catalog[next.variant].price])]
        PROVE  IInv'
    <2>1. PICK line : line = [variant |-> next.variant, quantity |-> next.quantity,
                              price |-> catalog[next.variant].price]
      OBVIOUS
    <2>2. PICK r : r = [q EXCEPT !.lines = Append(q.lines, line)]
      OBVIOUS
    <2>3. call' = [call EXCEPT ![c] = r]
      BY <1>1, <1>7, <2>1, <2>2
    <2>4. /\ r.pc = "lines" /\ r.agent = q.agent /\ r.request = q.request /\ r.answer = "none"
          /\ r.lines = Append(q.lines, line) /\ r.window = q.window /\ Shaped(r)
      BY <1>2, <1>4, <2>2 DEF Shaped
    <2>5. catalog[next.variant].price \in Int
      <3>1. Prices \subseteq Int
        BY MandateFlowAssumption
      <3> QED BY <1>5, <3>1 DEF WorldOK
    <2>6. line \in Line /\ line.variant = next.variant /\ line.quantity = next.quantity
      BY <1>5, <2>1, <2>5 DEF Line
    <2>7. <<line.variant, line.price>> \in q.window
      <3>1. <<line.variant, line.price>> \in Offers
        BY <1>5, <1>7, <2>1 DEF Offers, Published
      <3> QED BY <1>2, <3>1 DEF CallOK
    <2>8. LinesOK(r)
      <3>1. q.lines \in Seq(Line) /\ r.lines \in Seq(Line) /\ Len(r.lines) = Len(q.lines) + 1
        BY <1>4, <2>4, <2>6 DEF LinesOK
      <3>2. ASSUME NEW i \in DOMAIN r.lines
            PROVE  /\ r.lines[i].variant = r.request.items[i].variant
                   /\ r.lines[i].quantity = r.request.items[i].quantity
                   /\ <<r.lines[i].variant, r.lines[i].price>> \in r.window
        <4>1. CASE i = Len(q.lines) + 1
          <5>1. r.lines[i] = line
            BY <2>4, <3>1, <4>1
          <5> QED BY <1>3, <2>4, <2>6, <2>7, <4>1, <5>1
        <4>2. CASE i # Len(q.lines) + 1
          <5>1. i \in DOMAIN q.lines /\ r.lines[i] = q.lines[i]
            BY <2>4, <3>1, <4>2
          <5> QED BY <1>4, <2>4, <5>1 DEF LinesOK
        <4> QED BY <4>1, <4>2
      <3>3. Len(r.lines) <= Len(r.request.items)
        BY <1>2, <1>4, <2>4, <3>1 DEF LinesOK
      <3> QED BY <1>4, <2>4, <3>1, <3>2, <3>3 DEF LinesOK
    <2>9. CallOK(r) /\ r.answer \notin Successes
      BY <1>2, <2>4, <2>8 DEF CallOK, CallPc, Successes
    <2> QED BY <1>2, <2>3, <2>9, QuietStep
  <1> QED BY <1>1, <1>3, <1>6, <1>7 DEF ReadLine

LEMMA ComposeCartPreserves ==
    ASSUME IInv, NEW c \in Calls, ComposeCart(c)
    PROVE  IInv'
  <1> USE DEF IInv
  <1>1. PICK q : q = call[c]
    OBVIOUS
  <1>2. /\ CallOK(q) /\ q.pc = "lines" /\ Len(q.lines) = Len(q.request.items)
        /\ UNCHANGED <<seedVars, mandateVars, worldVars, crashes>>
    BY <1>1, TheCall DEF ComposeCart, At
  <1>3. PICK key : key = registered[q.agent].privateKey
    OBVIOUS
  <1>4. /\ LinesOK(q) /\ Shaped(q) /\ q.answer = "none" /\ q.agent \in Agents
        /\ registered[q.agent] # NoAgent /\ Own(q.request.intentHash, q.agent)
    BY <1>2 DEF CallOK, CartCall
  <1>5. CASE Refuse(c, "error")
    BY <1>2, <1>5, QuietRefusal DEF Successes
  <1>6. ASSUME merchantKey # Null,
               call' = [call EXCEPT ![c].pc = "store_cart",
                    ![c].mandate = [payload |-> Cart(c),
                        agentSignature |-> IF key = Null THEN Null ELSE Sign(key, Cart(c)),
                        merchantSignature |-> Sign(merchantKey, Cart(c))]]
        PROVE  IInv'
    <2>1. PICK m : m = [payload |-> Cart(c),
                        agentSignature |-> IF key = Null THEN Null ELSE Sign(key, Cart(c)),
                        merchantSignature |-> Sign(merchantKey, Cart(c))]
      OBVIOUS
    <2>2. PICK r : r = [q EXCEPT !.pc = "store_cart", !.mandate = m]
      OBVIOUS
    <2>3. call' = [call EXCEPT ![c] = r]
      BY <1>1, <1>6, <2>1, <2>2
    <2>4. /\ r.pc = "store_cart" /\ r.mandate = m /\ r.request = q.request /\ r.answer = "none"
          /\ r.lines = q.lines /\ r.window = q.window /\ Shaped(r)
      BY <1>2, <1>4, <2>2 DEF Shaped
    <2>5. /\ m.payload.agent = q.agent /\ m.payload.intentHash = q.request.intentHash
          /\ m.payload.priceHash = PriceHash(m.payload.items)
          /\ m.payload.total = Total(m.payload.items)
      BY <1>1, <2>1, Zenon DEF Cart
    <2>6. /\ m.merchantSignature = Sign(merchantKey, m.payload)
          /\ m.agentSignature = IF key = Null THEN Null ELSE Sign(key, m.payload)
      BY <2>1
    <2>7. \E intent \in intents : ChainVerifies(intent.payload, m.payload)
      BY <1>4, <2>5 DEF Own, ChainVerifies
    <2>8. Custodial(q.agent) => registered[q.agent].publicKey = registered[q.agent].privateKey
      BY <1>4 DEF RowsOK
    <2>9. CartOK(m)
      BY <1>3, <1>4, <1>6, <2>5, <2>6, <2>7, <2>8 DEF CartOK, Verifies, Custodial
    <2>10. LinesOK(r)
      BY <1>2, <1>4, <2>4 DEF LinesOK
    <2>11. CallOK(r) /\ r.answer \notin Successes
      BY <2>4, <2>9, <2>10 DEF CallOK, CallPc, Successes
    <2> QED BY <1>2, <2>3, <2>11, QuietStep
  <1> QED BY <1>1, <1>3, <1>5, <1>6 DEF ComposeCart

LEMMA StoreCartPreserves ==
    ASSUME IInv, NEW c \in Calls, StoreCart(c)
    PROVE  IInv'
  <1> USE DEF IInv
  <1>1. PICK q : q = call[c]
    OBVIOUS
  <1>2. PICK m : m = q.mandate
    OBVIOUS
  <1>3. CallOK(q) /\ q.pc = "store_cart" /\ Shaped(q) /\ CartOK(m) /\ LinesOK(q)
        /\ UNCHANGED <<seedVars, registered, intents, worldVars, crashes>>
    BY <1>1, <1>2, TheCall DEF StoreCart, At, CallOK, CartCall
  <1>4. CASE UNCHANGED carts /\ Refuse(c, "error")
    BY <1>3, <1>4, QuietRefusal DEF Successes, mandateVars
  <1>5. CASE /\ Fresh(m.payload, carts) /\ Fits(m.payload.total)
             /\ carts' = carts \cup {m} /\ Answer(c, "created")
    <2> USE DEF seedVars, worldVars
    <2>1. PICK r : r = [q EXCEPT !.pc = "answered", !.answer = "created"]
      OBVIOUS
    <2>2. call' = [call EXCEPT ![c] = r]
      BY <1>1, <1>5, <2>1 DEF Answer
    <2>3. /\ r.pc = "answered" /\ r.answer = "created" /\ r.mandate = m /\ Shaped(r)
          /\ r.request = q.request /\ r.lines = q.lines /\ r.window = q.window
      BY <1>2, <1>3, <2>1 DEF Shaped
    <2>4. Grows
      BY <1>3, <1>5 DEF Grows
    <2>5. CallOK(r)'
      <3>1. LinesOK(r)
        BY <1>3, <2>3 DEF LinesOK
      <3> QED BY <1>5, <2>3, <3>1 DEF CallOK, CallPc, Ended
    <2>6. /\ call' = [d \in Calls |-> call'[d]] /\ call'[c] = r
          /\ \A d \in Calls : d # c => call'[d] = call[d]
      BY <2>2 DEF CallsOK
    <2>7. ASSUME NEW d \in Calls, NEW p \in {call'[d]}, d # c
          PROVE  CallOK(p)' /\ (p.answer = "created" => p.mandate.payload # m.payload)
      <3>1. CallOK(p)
        BY <2>6, <2>7 DEF CallsOK
      <3>2. CallOK(p)'
        BY <1>3, <2>4, <3>1, CallStaysOK
      <3>3. p.answer = "created" => p.mandate \in carts
        BY <3>1 DEF CallOK
      <3> QED BY <1>5, <3>2, <3>3 DEF Fresh
    <2>8. CallsOK'
      BY <2>5, <2>6, <2>7 DEF CallsOK
    <2>9. HashNamesOneAct'
      BY <2>3, <2>6, <2>7 DEF HashNamesOneAct
    <2>10. RowsOK'
      <3>1. ASSUME NEW row \in carts'
            PROVE  CartOK(row)' /\ row.payload.total \in 0..Int4Max
        <4>1. CartOK(row)
          BY <1>3, <1>5 DEF RowsOK
        <4>2. CartOK(row)'
          BY <2>4, <4>1, CartStaysOK
        <4>3. row.payload.total \in 0..Int4Max
          BY <1>5 DEF RowsOK, Fits
        <4> QED BY <4>2, <4>3
      <3>2. \A row \in intents' : IntentOK(row)' /\ row.payload.budget \in 1..Int4Max
        BY <1>3, <2>4, IntentStaysOK DEF RowsOK
      <3> QED BY <1>3, <3>1, <3>2 DEF RowsOK, Custodial
    <2>11. SeedsOK' /\ WorldOK'
      BY <1>3 DEF SeedsOK, SeedsAgree, WorldOK
    <2> QED BY <2>8, <2>9, <2>10, <2>11
  <1> QED BY <1>1, <1>2, <1>4, <1>5 DEF StoreCart

-----------------------------------------------------------------------------
(****************************** the world **********************************)

LEMMA TickPreserves ==
    ASSUME IInv, Tick
    PROVE  IInv'
  <1> USE DEF IInv, Tick, seedVars, mandateVars
  <1>1. Grows
    BY DEF Grows
  <1>2. RowsOK'
    BY <1>1, RowsStayOK DEF RowsOK, Custodial
  <1>3. WorldOK'
    BY MandateFlowAssumption DEF WorldOK, Times
  <1> QED BY <1>1, <1>2, <1>3, CallsStayOK DEF SeedsOK, SeedsAgree

\* A move of the catalog widens the window of a running create_cart.
LEMMA WindowGrows ==
    ASSUME NEW q, NEW r, CallOK(q), Grows,
           \/ r = q /\ q.pc \notin {"intent", "lines"}
           \/ r = [q EXCEPT !.window = @ \cup Offers']
    PROVE  CallOK(r)' /\ r.answer = q.answer /\ r.mandate = q.mandate
  <1>1. /\ Shaped(r) /\ r.pc = q.pc /\ r.agent = q.agent /\ r.request = q.request
        /\ r.lines = q.lines /\ r.mandate = q.mandate /\ r.answer = q.answer
        /\ q.window \subseteq r.window
        /\ r.pc \in {"intent", "lines"} => Offers' \subseteq r.window
    BY DEF CallOK, Shaped
  <1>2. q.pc = "store_intent" => IntentOK(q.mandate)'
    BY IntentStaysOK DEF CallOK
  <1>3. q.pc = "store_cart" => CartOK(q.mandate)'
    BY CartStaysOK DEF CallOK
  <1>4. q.pc = "lines" => registered'[q.agent] # NoAgent /\ Own(q.request.intentHash, q.agent)'
    BY DEF CallOK, Grows, Own
  <1>5. /\ q.answer = "declared" => q.mandate \in intents'
        /\ q.answer = "created" => q.mandate \in carts'
    BY DEF CallOK, Grows
  <1>6. LinesOK(q) => LinesOK(r)
    BY <1>1 DEF LinesOK
  <1> QED BY <1>1, <1>2, <1>3, <1>4, <1>5, <1>6 DEF CallOK, CartCall

LEMMA MovePreserves ==
    ASSUME IInv, NEW v \in Variants, Move(v)
    PROVE  IInv'
  <1> USE DEF IInv, seedVars, mandateVars
  <1>1. UNCHANGED <<seedVars, mandateVars, clock, crashes>>
    BY DEF Move
  <1>2. Grows
    BY <1>1 DEF Grows
  <1>3. RowsOK'
    BY <1>1, <1>2, RowsStayOK DEF RowsOK, Custodial
  <1>4. WorldOK'
    BY MandateFlowAssumption DEF Move, WorldOK, Times
  <1>5. ASSUME NEW c \in Calls, NEW r \in {call'[c]}
        PROVE  CallOK(r)' /\ r.answer = call[c].answer /\ r.mandate = call[c].mandate
    <2>1. PICK q : q = call[c]
      OBVIOUS
    <2>2. CallOK(q)
      BY <2>1, TheCall
    <2>3. \/ r = q /\ q.pc \notin {"intent", "lines"}
          \/ r = [q EXCEPT !.window = @ \cup Offers']
      BY <1>5, <2>1 DEF Move
    <2> QED BY <1>2, <2>1, <2>2, <2>3, WindowGrows
  <1>6. call' = [c \in Calls |-> call'[c]]
    BY DEF Move
  <1>7. CallsOK'
    BY <1>5, <1>6 DEF CallsOK
  <1>8. HashNamesOneAct'
    BY <1>5 DEF HashNamesOneAct
  <1> QED BY <1>1, <1>3, <1>4, <1>7, <1>8 DEF SeedsOK, SeedsAgree

LEMMA CrashPreserves ==
    ASSUME IInv, Crash
    PROVE  IInv'
  <1> USE DEF IInv, mandateVars, worldVars
  <1>1. UNCHANGED <<merchantKey, merchantToken, mandateVars, worldVars>>
    BY DEF Crash
  <1>2. Grows
    BY <1>1 DEF Grows
  <1>3. RowsOK'
    BY <1>1, <1>2, RowsStayOK DEF RowsOK, Custodial
  <1>4. WorldOK'
    BY MandateFlowAssumption DEF Crash, WorldOK
  <1>5. PICK gone : gone = [Idle EXCEPT !.pc = "dropped"]
    OBVIOUS
  <1>6. gone.answer = "none" /\ CallOK(gone)'
    <2>1. gone.pc = "dropped" /\ gone.answer = "none" /\ Shaped(gone)
      BY <1>5 DEF Idle, Shaped
    <2> QED BY <2>1 DEF CallOK, CallPc, Ended, CartCall
  <1>7. \A c \in Calls : call'[c] = call[c] \/ call'[c] = gone
    BY <1>5 DEF Crash
  <1>8. ASSUME NEW c \in Calls, NEW r \in {call'[c]}
        PROVE  CallOK(r)'
    <2>1. CASE r = gone
      BY <1>6, <2>1
    <2>2. CASE r = call[c]
      <3>1. CallOK(r)
        BY <2>2 DEF CallsOK
      <3> QED BY <1>1, <1>2, <3>1, CallStaysOK
    <2> QED BY <1>7, <1>8, <2>1, <2>2
  <1>9. call' = [c \in Calls |-> call'[c]]
    BY DEF Crash
  <1>10. CallsOK'
    BY <1>8, <1>9 DEF CallsOK
  <1>11. HashNamesOneAct'
    BY <1>6, <1>7 DEF HashNamesOneAct
  <1>12. SeedsOK'
    <2>1. \A s \in Seeds : seed'[s] = seed[s] \/ seed'[s] = [seed[s] EXCEPT !.pc = "dropped"]
      BY DEF Crash
    <2>2. \A s \in Seeds : /\ seed'[s].key = seed[s].key /\ seed'[s].token = seed[s].token
                           /\ seed'[s].minted = seed[s].minted
      BY <2>1, ZenonT(60) DEF SeedsOK
    <2>3. seed' \in [Seeds -> [pc : {"start", "key", "token", "read_token", "done", "dropped"},
                               key : Seeds \cup {Null}, token : Seeds \cup {"env", Null},
                               minted : BOOLEAN]]
      BY DEF Crash, SeedsOK
    <2> QED BY <1>1, <2>2, <2>3 DEF SeedsOK, SeedsAgree
  <1> QED BY <1>3, <1>4, <1>10, <1>11, <1>12

-----------------------------------------------------------------------------
(***************************** the theorems ********************************)

LEMMA InitEstablishes ==
    ASSUME Init
    PROVE  IInv
  <1> USE MandateFlowAssumption DEF Init
  <1>1. SeedsOK
    BY DEF SeedsOK, SeedsAgree, NotRun
  <1>2. RowsOK
    BY DEF RowsOK, AgentRow, NoAgent, Custodial
  <1>3. WorldOK
    BY DEF WorldOK, Times
  <1>4. PICK idle : idle = Idle
    OBVIOUS
  <1>5. idle.pc = "idle" /\ idle.answer = "none" /\ Shaped(idle)
    BY <1>4 DEF Idle, Shaped
  <1>6. CallOK(idle)
    BY <1>5 DEF CallOK, CallPc, Ended, CartCall
  <1>7. CallsOK /\ HashNamesOneAct
    BY <1>4, <1>5, <1>6 DEF CallsOK, HashNamesOneAct
  <1> QED BY <1>1, <1>2, <1>3, <1>7 DEF IInv

LEMMA StutterPreserves ==
    ASSUME IInv, UNCHANGED vars
    PROVE  IInv'
  <1> USE DEF IInv, vars, seedVars, mandateVars, worldVars
  <1>1. Grows
    BY DEF Grows
  <1>2. RowsOK'
    BY <1>1, RowsStayOK DEF RowsOK, Custodial
  <1> QED BY <1>1, <1>2, CallsStayOK DEF SeedsOK, SeedsAgree, WorldOK

\* The inductive invariant of the mandate chain holds in every state.
THEOREM InductiveInvariant == Spec => []IInv
  <1>1. Init => IInv
    BY InitEstablishes
  <1>2. IInv /\ [Next]_vars => IInv'
    <2> SUFFICES ASSUME IInv, [Next]_vars PROVE IInv'
      OBVIOUS
    <2>1. CASE \E s \in Seeds : SeedStep(s)
      BY <2>1, SeedPreserves
    <2>2. CASE \E q \in Registrations : RegisterAgent(q)
      BY <2>2, RegisterPreserves
    <2>3. ASSUME NEW c \in Calls,
                 \/ \E d \in Declarations : DeclareIntent(c, d)
                 \/ \E a \in Agents, row \in intents, b \in Baskets : CreateCart(c, a, row.payload, b)
                 \/ CallStep(c)
          PROVE  IInv'
      BY <2>3, DeclareIntentPreserves, CreateCartPreserves, ComposeIntentPreserves,
         StoreIntentPreserves, ReadIntentPreserves, ReadLinePreserves, ComposeCartPreserves,
         StoreCartPreserves DEF CallStep
    <2>4. CASE Tick \/ Crash \/ \E v \in Variants : Move(v)
      BY <2>4, TickPreserves, CrashPreserves, MovePreserves
    <2>5. CASE UNCHANGED vars
      BY <2>5, StutterPreserves
    <2> QED BY <2>1, <2>2, <2>3, <2>4, <2>5 DEF Next
  <1> QED BY <1>1, <1>2, PTL DEF Spec

(* Rows, calls and the Merchant's key are of their kind, and every stored  *)
(* amount fits its integer column.                                         *)
THEOREM TypesHold == Spec => []TypeOK
  <1>1. IInv => TypeOK
    <2> SUFFICES ASSUME IInv PROVE TypeOK
      OBVIOUS
    <2>1. \A c \in Calls : call[c].pc \in CallPc
      BY TheCall DEF IInv, CallOK
    <2> QED BY <2>1 DEF IInv, SeedsOK, RowsOK, WorldOK, TypeOK, CallPc
  <1> QED BY <1>1, InductiveInvariant, PTL

(* mandateFlow.ts: every mandate in the database verifies under the keys   *)
(* the Merchant and its Agent have now, and every Cart chains to a stored  *)
(* Intent of the same Agent.                                               *)
THEOREM ChainsVerify == Spec => []StoredChainVerifies
  <1>1. IInv => StoredChainVerifies
    BY DEF IInv, RowsOK, IntentOK, CartOK, StoredChainVerifies
  <1> QED BY <1>1, InductiveInvariant, PTL

(* createCart: whatever the catalog does between two reads, each line is   *)
(* at a price its Variant was published at while the call ran.             *)
THEOREM PinnedPricesHold == Spec => []PinnedPricesWereShown
  <1>1. IInv => PinnedPricesWereShown
    <2> SUFFICES ASSUME IInv, NEW c \in Calls, call[c].answer = "created"
                 PROVE  LET lines == call[c].lines
                            items == call[c].request.items
                        IN  /\ Len(lines) = Len(items)
                            /\ \A i \in DOMAIN lines :
                                   /\ lines[i].variant = items[i].variant
                                   /\ lines[i].quantity = items[i].quantity
                                   /\ <<lines[i].variant, lines[i].price>> \in call[c].window
      BY DEF PinnedPricesWereShown
    <2>1. CallOK(call[c])
      BY TheCall DEF IInv
    <2>2. LinesOK(call[c]) /\ call[c].pc = "answered"
      BY <2>1 DEF CallOK, CartCall
    <2> QED BY <2>2 DEF LinesOK
  <1> QED BY <1>1, InductiveInvariant, PTL

(* mandates.ts: the unique index on the hash makes a mandate one act, with *)
(* calls in one millisecond and signed payloads sent again.                *)
THEOREM HashesNameOneAct == Spec => []HashNamesOneAct
  <1>1. IInv => HashNamesOneAct
    BY DEF IInv
  <1> QED BY <1>1, InductiveInvariant, PTL

(* merchants.ts: any number of seeds at once agree on the key and the      *)
(* token, and at most one believes that it minted the token.               *)
THEOREM SeedRunsAgree == Spec => []SeedsAgree
  <1>1. IInv => SeedsAgree
    BY DEF IInv, SeedsOK
  <1> QED BY <1>1, InductiveInvariant, PTL
=============================================================================
