-------------------------- MODULE SubmissionProofs --------------------------
(***************************************************************************)
(* Proofs about Submission, for any number of calls, Agents, keys, carts   *)
(* and Intents, and any catalog.                                           *)
(***************************************************************************)
EXTENDS Submission, SumTheorems

CallRecord == [pc : CallPc, request : Requests \cup {NoRequest},
               view : Seq([price : Nat, stock : Nat]), overCap : BOOLEAN,
               order : Calls \cup {NoCall}, answer : Answers]

\* One call may have moved; every other is where it was.
Others(c) == \A d \in Calls : d # c => call'[d] = call[d]

(***************************************************************************)
(* How the operators that move a call change its record.                   *)
(***************************************************************************)
LEMMA GotoCall ==
    ASSUME TypeOK, NEW c \in Calls, NEW pc \in CallPc, Goto(c, pc)
    PROVE  /\ call' \in [Calls -> CallRecord]
           /\ call'[c] = [call[c] EXCEPT !.pc = pc]
           /\ call'[c].pc = pc
           /\ call'[c].request = call[c].request
           /\ call'[c].order = call[c].order
           /\ call'[c].answer = call[c].answer
           /\ Others(c)
  BY DEF TypeOK, Goto, CallRecord, Others

\* An answered call keeps its request, and the other calls are left alone.
LEMMA AnswerCall ==
    ASSUME TypeOK, NEW c \in Calls, NEW answer \in Answers, NEW order \in Calls \cup {NoCall},
           AnswerWith(c, answer, order)
    PROVE  /\ call' \in [Calls -> CallRecord]
           /\ call'[c].pc = "answered"
           /\ call'[c].request = call[c].request
           /\ call'[c].order = order
           /\ call'[c].answer = answer
           /\ Others(c)
  <1>1. call[c] \in CallRecord /\ call \in [Calls -> CallRecord]
    BY DEF TypeOK, CallRecord
  <1> DEFINE next == [call[c] EXCEPT !.pc = "answered", !.answer = answer, !.order = order]
  <1>2. /\ next \in CallRecord
        /\ next.pc = "answered" /\ next.request = call[c].request
        /\ next.order = order /\ next.answer = answer
    BY <1>1 DEF CallRecord, CallPc, Ended
  <1>3. call' = [call EXCEPT ![c] = next]
    BY <1>1 DEF AnswerWith
  <1> HIDE DEF next
  <1> QED BY <1>1, <1>2, <1>3 DEF Others

(* A call in flight has a request that is well formed.                     *)
LEMMA ItsRequest ==
    ASSUME TypeOK, NEW c \in Calls, call[c].request \in Requests
    PROVE  /\ call[c].request.agent \in Agents
           /\ call[c].request.key \in Keys
           /\ call[c].request.cart \in Carts
           /\ Owner[call[c].request.cart] \in Agents
           /\ IntentOf[call[c].request.cart] \in Intents
  BY SubmissionAssumption DEF Request

-----------------------------------------------------------------------------
\* The calls that have not committed an Order yet.
Uncommitted == {"idle", "lookup", "replay", "intent", "catalog", "order_tx", "key_conflict"}

(***************************************************************************)
(* What a call in each place knows of the rows: nothing is there before    *)
(* its commit, its own mandate after it, the replayed one when it replays. *)
(***************************************************************************)
CallFits(c) ==
    /\ call[c].pc # "idle" => call[c].request \in Requests
    /\ call[c].pc \notin Ended => WellFormed(call[c].request)
    /\ call[c].answer # "none" => call[c].pc = "answered"
    /\ call[c].pc \in Uncommitted => NoTrace(c)
    /\ call[c].answer \in RefusalCode \cup {"malformed"} => NoTrace(c)
    /\ call[c].pc = "replay" => MandateFor(c, call[c].order) \in paymentMandates
    /\ call[c].pc \in {"placed", "attempted", "created_link"} => MandateFor(c, c) \in paymentMandates
    /\ call[c].pc \in {"placed", "attempted"} => links[c] = 0
    /\ call[c].pc = "created_link" => links[c] = 1

CustodialCartsAreSigned == \A k \in Carts : Custodial[Owner[k]] => cartSigned[k]

GateInvariant ==
    /\ TypeOK
    /\ CustodialCartsAreSigned
    /\ KeyBuysOnce
    /\ PaidChainIsOneToOne
    /\ AnswersAreTrue
    /\ \A c \in Calls : CallFits(c)

\* The gate starts with no call, no row and no lock.
LEMMA InitGate == Init => GateInvariant
  <1> SUFFICES ASSUME Init PROVE GateInvariant
    OBVIOUS
  <1>1. Idle \in CallRecord
    BY DEF Idle, CallRecord, CallPc, Ended, Answers
  <1>2. TypeOK
    BY <1>1, SubmissionAssumption DEF Init, TypeOK, CallRecord
  <1>3. CustodialCartsAreSigned
    BY DEF Init, CustodialCartsAreSigned
  <1>4. KeyBuysOnce /\ PaidChainIsOneToOne
    BY DEF Init, KeyBuysOnce, PaidChainIsOneToOne
  <1>5. AnswersAreTrue
    BY DEF Init, AnswersAreTrue, AnswerIsTrue, Idle
  <1>6. \A c \in Calls : CallFits(c)
    BY SubmissionAssumption
       DEF Init, CallFits, Idle, NoTrace, Ended, Uncommitted, RefusalCode
  <1> QED BY <1>2, <1>3, <1>4, <1>5, <1>6 DEF GateInvariant

(* A step that writes no row only has to account for the call it moved.    *)
LEMMA QuietStep ==
    ASSUME GateInvariant, TypeOK', NEW c \in Calls, Others(c), CallFits(c)', AnswerIsTrue(c)',
           UNCHANGED <<orderVars, chainVars, links>>
    PROVE  GateInvariant'
  <1> USE DEF orderVars, chainVars
  <1>1. CustodialCartsAreSigned' /\ KeyBuysOnce' /\ PaidChainIsOneToOne'
    BY DEF GateInvariant, CustodialCartsAreSigned, KeyBuysOnce, PaidChainIsOneToOne
  <1>2. \A d \in Calls : d # c => CallFits(d)' /\ AnswerIsTrue(d)'
    BY DEF GateInvariant, CallFits, AnswersAreTrue, AnswerIsTrue, NoTrace, MandateFor,
           Existing, Consumed, Others
  <1> QED BY <1>1, <1>2 DEF GateInvariant, AnswersAreTrue

(* A call that has committed nothing and goes on inside the gate.          *)
LEMMA GoesOn ==
    ASSUME GateInvariant, NEW c \in Calls, call[c].pc \in Uncommitted \ {"idle"},
           NEW pc \in {"intent", "catalog", "key_conflict"}, Goto(c, pc),
           UNCHANGED <<orderVars, chainVars, links>>
    PROVE  call' \in [Calls -> CallRecord] /\ Others(c) /\ CallFits(c)' /\ AnswerIsTrue(c)'
  <1>1. /\ call' \in [Calls -> CallRecord]
        /\ call'[c].pc = pc
        /\ call'[c].request = call[c].request
        /\ call'[c].answer = call[c].answer
        /\ Others(c)
    BY GotoCall DEF GateInvariant, CallPc, Ended
  <1>2. call[c].answer = "none"
    BY DEF GateInvariant, CallFits, Uncommitted
  <1>3. NoTrace(c)' /\ call[c].request \in Requests /\ WellFormed(call[c].request)
    BY DEF GateInvariant, CallFits, NoTrace, Uncommitted, Ended, orderVars, chainVars
  <1>4. CallFits(c)'
    BY <1>1, <1>2, <1>3 DEF CallFits, WellFormed, RefusalCode
  <1>5. AnswerIsTrue(c)'
    BY <1>1, <1>2 DEF AnswerIsTrue
  <1> QED BY <1>1, <1>4, <1>5

(* A call that has committed nothing and is refused, truthfully.           *)
LEMMA IsRefused ==
    ASSUME GateInvariant, NEW c \in Calls, call[c].pc \in Uncommitted \ {"idle"},
           NEW code \in RefusalCode, Refuse(c, code),
           UNCHANGED <<orderVars, chainVars, links>>,
           code = "IDEMPOTENCY_REUSE" =>
               \E m \in Existing(call[c].request) : m.cart # call[c].request.cart,
           code = "INTENT_CONSUMED" => Consumed(IntentOf[call[c].request.cart])
    PROVE  call' \in [Calls -> CallRecord] /\ Others(c) /\ CallFits(c)' /\ AnswerIsTrue(c)'
  <1>1. /\ call' \in [Calls -> CallRecord]
        /\ call'[c].pc = "answered"
        /\ call'[c].request = call[c].request
        /\ call'[c].answer = code
        /\ Others(c)
    BY AnswerCall DEF GateInvariant, Refuse, Answers
  <1>2. NoTrace(c)'
    BY DEF GateInvariant, CallFits, NoTrace, orderVars, chainVars
  <1>3. CallFits(c)'
    BY <1>1, <1>2 DEF GateInvariant, CallFits, Ended, Uncommitted
  <1>4. AnswerIsTrue(c)'
    BY <1>1 DEF AnswerIsTrue, Existing, Consumed, RefusalCode, chainVars
  <1> QED BY <1>1, <1>3, <1>4

\* A new request writes nothing, malformed or not.
LEMMA SubmitKeeps ==
    ASSUME GateInvariant, NEW c \in Calls, NEW r \in Requests, Submit(c, r) \/ RejectMalformed(c, r)
    PROVE  GateInvariant'
  <1> USE DEF Private
  <1>1. /\ call[c] \in CallRecord /\ call \in [Calls -> CallRecord]
        /\ call[c].pc = "idle" /\ call[c].answer = "none"
    BY DEF GateInvariant, TypeOK, CallRecord, CallFits, Submit, RejectMalformed, At
  <1>2. PICK pc \in {"lookup", "answered"}, answer \in {"none", "malformed"} :
            /\ call' = [call EXCEPT ![c] =
                           [call[c] EXCEPT !.pc = pc, !.request = r, !.answer = answer]]
            /\ pc = "lookup" => answer = "none" /\ WellFormed(r)
            /\ answer = "malformed" => pc = "answered"
    <2>1. CASE Submit(c, r)
      <3>1. call' = [call EXCEPT ![c] =
                        [call[c] EXCEPT !.pc = "lookup", !.request = r, !.answer = "none"]]
        BY <1>1, <2>1 DEF Submit, CallRecord
      <3> QED BY <3>1, <2>1 DEF Submit
    <2>2. CASE RejectMalformed(c, r)
      <3>1. call' = [call EXCEPT ![c] =
                        [call[c] EXCEPT !.pc = "answered", !.request = r, !.answer = "malformed"]]
        BY <1>1, <2>2 DEF RejectMalformed, CallRecord
      <3> QED BY <3>1
    <2> QED BY <2>1, <2>2
  <1> DEFINE next == [call[c] EXCEPT !.pc = pc, !.request = r, !.answer = answer]
  <1>3. /\ next \in CallRecord
        /\ next.pc = pc /\ next.request = r /\ next.answer = answer
    BY <1>1 DEF CallRecord, CallPc, Ended, Answers
  <1>4. call' = [call EXCEPT ![c] = next]
    BY <1>2
  <1> HIDE DEF next
  <1>5. call' \in [Calls -> CallRecord] /\ call'[c] = next /\ Others(c)
    BY <1>1, <1>3, <1>4 DEF Others
  <1>6. UNCHANGED <<orderVars, chainVars, links, catalogVars, agentLock, crashes>>
    BY DEF Submit, RejectMalformed
  <1>7. NoTrace(c)'
    BY <1>1, <1>6 DEF GateInvariant, CallFits, NoTrace, orderVars, chainVars, Uncommitted
  <1>8. CallFits(c)'
    BY <1>2, <1>3, <1>5, <1>7 DEF CallFits, Ended, WellFormed
  <1>9. AnswerIsTrue(c)'
    BY <1>2, <1>3, <1>5 DEF AnswerIsTrue
  <1>10. TypeOK'
    BY <1>5, <1>6 DEF GateInvariant, TypeOK, CallRecord, orderVars, chainVars, catalogVars
  <1> QED BY <1>5, <1>6, <1>8, <1>9, <1>10, QuietStep

\* The checks before the transaction write nothing.
LEMMA GateStepKeeps ==
    ASSUME GateInvariant, NEW c \in Calls, call[c].pc \notin Ended, GateStep(c)
    PROVE  GateInvariant'
  <1> DEFINE r == call[c].request
  <1>1. r \in Requests /\ WellFormed(r) /\ r.cart \in Carts
    BY ItsRequest DEF GateInvariant, CallFits, Ended
  <1>2. /\ UNCHANGED <<orderVars, chainVars, links, catalogVars, agentLock, crashes>>
        /\ call' \in [Calls -> CallRecord]
        /\ Others(c) /\ CallFits(c)' /\ AnswerIsTrue(c)'
    <2> USE DEF Private, At
    <2>1. CASE RefuseKeyReuse(c)
      BY <2>1, IsRefused DEF RefuseKeyReuse, Uncommitted, RefusalCode
    <2>2. CASE BeginReplay(c)
      <3>1. PICK m \in Existing(r) :
                /\ m.cart = r.cart
                /\ call' = [call EXCEPT ![c].pc = "replay", ![c].order = m.order]
        BY <2>2 DEF BeginReplay
      <3>2. /\ call \in [Calls -> CallRecord] /\ call[c] \in CallRecord
            /\ m \in [agent : Agents, key : Keys, cart : Carts, order : Calls]
            /\ m.agent = r.agent /\ m.key = r.key /\ m \in paymentMandates
        BY DEF GateInvariant, TypeOK, CallRecord, Existing
      <3> DEFINE next == [call[c] EXCEPT !.pc = "replay", !.order = m.order]
      <3>3. /\ next \in CallRecord
            /\ next.pc = "replay" /\ next.request = r
            /\ next.order = m.order /\ next.answer = call[c].answer
        BY <3>2 DEF CallRecord, CallPc
      <3>4. call' = [call EXCEPT ![c] = next]
        BY <3>1
      <3> HIDE DEF next
      <3>5. /\ call' \in [Calls -> CallRecord] /\ Others(c)
            /\ call'[c] = next
        BY <3>2, <3>3, <3>4 DEF Others
      <3>6. UNCHANGED <<orderVars, chainVars, links, catalogVars, agentLock, crashes>>
        BY <2>2 DEF BeginReplay
      <3>7. call[c].answer = "none" /\ NoTrace(c)'
        BY <2>2, <3>6
           DEF GateInvariant, CallFits, BeginReplay, NoTrace, orderVars, chainVars, Uncommitted
      <3>8. m = [agent |-> r.agent, key |-> r.key, cart |-> r.cart, order |-> m.order]
        BY <3>1, <3>2
      <3>9. MandateFor(c, call[c].order)' \in paymentMandates'
        BY <3>2, <3>3, <3>5, <3>6, <3>8 DEF MandateFor, chainVars
      <3>10. CallFits(c)'
        BY <1>1, <3>3, <3>5, <3>7, <3>9 DEF CallFits, WellFormed, RefusalCode
      <3>11. AnswerIsTrue(c)'
        BY <3>3, <3>5, <3>7 DEF AnswerIsTrue
      <3> QED BY <3>5, <3>6, <3>10, <3>11
    <2>3. CASE KeyIsNew(c)
      BY <2>3, GoesOn DEF KeyIsNew, Uncommitted
    <2>4. CASE ReplayOriginal(c)
      <3>1. PICK answer \in {"replayed", "error"}, order \in Calls \cup {NoCall} :
                /\ AnswerWith(c, answer, order)
                /\ answer = "replayed" => linked[call[c].order] /\ order = call[c].order
        <4>1. call[c].order \in Calls \cup {NoCall}
          BY DEF GateInvariant, TypeOK
        <4> QED BY <2>4, <4>1 DEF ReplayOriginal
      <3>2. /\ call' \in [Calls -> CallRecord] /\ Others(c)
            /\ call'[c].pc = "answered" /\ call'[c].request = r
            /\ call'[c].order = order /\ call'[c].answer = answer
        BY <3>1, AnswerCall DEF GateInvariant, Answers
      <3>3. UNCHANGED <<orderVars, chainVars, links, catalogVars, agentLock, crashes>>
        BY <2>4 DEF ReplayOriginal
      <3>4. MandateFor(c, call[c].order) \in paymentMandates
        BY <2>4 DEF ReplayOriginal, GateInvariant, CallFits
      <3>5. CallFits(c)'
        BY <1>1, <3>2 DEF CallFits, Ended, Uncommitted, RefusalCode
      <3>6. AnswerIsTrue(c)'
        BY <3>1, <3>2, <3>3, <3>4 DEF AnswerIsTrue, MandateFor, orderVars, chainVars
      <3> QED BY <3>2, <3>3, <3>5, <3>6
    <2>5. CASE RefuseForged(c)
      BY <2>5, IsRefused DEF RefuseForged, Uncommitted, RefusalCode
    <2>6. CASE RefuseConsumed(c)
      BY <2>6, IsRefused DEF RefuseConsumed, Uncommitted, RefusalCode
    <2>7. CASE IntentIsOpen(c)
      BY <2>7, GoesOn DEF IntentIsOpen, Uncommitted
    <2>8. ASSUME NEW i \in 1..Len(Lines(c)), ReadLine(c, i)
          PROVE  /\ UNCHANGED <<orderVars, chainVars, links, catalogVars, agentLock, crashes>>
                 /\ call' \in [Calls -> CallRecord]
                 /\ Others(c) /\ CallFits(c)' /\ AnswerIsTrue(c)'
      <3>0. Lines(c) \in Seq(Line)
        BY <1>1, SubmissionAssumption DEF Lines
      <3>1. catalog[Lines(c)[i].variant] \in Entry
        <4>1. Lines(c)[i] \in Line
          BY <3>0
        <4>2. Lines(c)[i].variant \in Variants
          BY <4>1 DEF Line
        <4> QED BY <4>2 DEF GateInvariant, TypeOK
      <3> DEFINE read == [price |-> catalog[Lines(c)[i].variant].price,
                          stock |-> catalog[Lines(c)[i].variant].stock]
                 next == [call[c] EXCEPT !.view = Append(call[c].view, read)]
      <3>2. read \in [price : Nat, stock : Nat]
        BY <3>1 DEF Entry
      <3>3. call \in [Calls -> CallRecord] /\ call[c] \in CallRecord /\ call[c].pc = "catalog"
        BY <2>8 DEF GateInvariant, TypeOK, CallRecord, ReadLine, Reading
      <3>4. call' = [call EXCEPT ![c] = next]
        BY <2>8 DEF ReadLine
      <3>5. UNCHANGED <<orderVars, chainVars, links, catalogVars, agentLock, crashes>>
        BY <2>8 DEF ReadLine
      <3> HIDE DEF read
      <3>6. /\ next \in CallRecord
            /\ next.pc = "catalog" /\ next.request = r /\ next.answer = call[c].answer
        <4>1. Append(call[c].view, read) \in Seq([price : Nat, stock : Nat])
          <5>1. call[c].view \in Seq([price : Nat, stock : Nat])
            BY <3>3 DEF CallRecord
          <5> QED BY <5>1, <3>2
        <4> DEFINE view == Append(call[c].view, read)
        <4>2. next = [call[c] EXCEPT !.view = view]
          OBVIOUS
        <4> HIDE DEF view
        <4>3. view \in Seq([price : Nat, stock : Nat])
          BY <4>1 DEF view
        <4> QED BY <3>3, <4>2, <4>3 DEF CallRecord
      <3> HIDE DEF next
      <3>7. /\ call' \in [Calls -> CallRecord] /\ Others(c)
            /\ call'[c] = next
        BY <3>3, <3>4, <3>6 DEF Others
      <3>8. call[c].answer = "none" /\ NoTrace(c)'
        BY <3>3, <3>5
           DEF GateInvariant, CallFits, NoTrace, orderVars, chainVars, Uncommitted
      <3>9. CallFits(c)'
        BY <1>1, <3>6, <3>7, <3>8 DEF CallFits, WellFormed, RefusalCode
      <3>10. AnswerIsTrue(c)'
        BY <3>6, <3>7, <3>8 DEF AnswerIsTrue
      <3> QED BY <3>5, <3>7, <3>9, <3>10
    <2>9. ASSUME NEW i \in 1..Len(Lines(c)), RefuseUnpublished(c, i)
          PROVE  /\ UNCHANGED <<orderVars, chainVars, links, catalogVars, agentLock, crashes>>
                 /\ call' \in [Calls -> CallRecord]
                 /\ Others(c) /\ CallFits(c)' /\ AnswerIsTrue(c)'
      BY <2>9, IsRefused DEF RefuseUnpublished, Reading, Uncommitted, RefusalCode
    <2>10. CASE RefuseCart(c)
      <3>1. Verdict(c) \in {"PRICE_CHANGED", "OUT_OF_STOCK", "OVER_BUDGET"}
        BY <2>10 DEF RefuseCart, Verdict
      <3> QED BY <2>10, <3>1, IsRefused DEF RefuseCart, Viewed, Uncommitted, RefusalCode
    <2> QED BY <2>1, <2>2, <2>3, <2>4, <2>5, <2>6, <2>7, <2>8, <2>9, <2>10 DEF GateStep
  <1>3. TypeOK'
    BY <1>2 DEF GateInvariant, TypeOK, CallRecord, orderVars, chainVars, catalogVars
  <1> QED BY <1>2, <1>3, QuietStep

(* Taking or releasing the row lock of a well-formed request.              *)
LEMMA LockTypes ==
    ASSUME GateInvariant, NEW c \in Calls, call[c].request \in Requests,
           NEW holder \in Calls \cup {NoCall},
           agentLock' = [agentLock EXCEPT ![call[c].request.agent] = holder],
           call' \in [Calls -> CallRecord],
           UNCHANGED <<orderVars, chainVars, catalogVars, crashes, links>>
    PROVE  TypeOK'
  <1>1. call[c].request.agent \in Agents
    BY ItsRequest DEF GateInvariant
  <1>2. agentLock' \in [Agents -> Calls \cup {NoCall}]
    BY <1>1 DEF GateInvariant, TypeOK
  <1> QED BY <1>2 DEF GateInvariant, TypeOK, CallRecord, orderVars, chainVars, catalogVars

\* The transaction begins under the Agent's lock, which no other call holds.
LEMMA BeginOrderTxKeeps ==
    ASSUME GateInvariant, NEW c \in Calls, BeginOrderTx(c)
    PROVE  GateInvariant'
  <1> DEFINE r == call[c].request
  <1>1. /\ call \in [Calls -> CallRecord] /\ call[c] \in CallRecord
        /\ call[c].pc = "catalog" /\ call[c].answer = "none"
        /\ r \in Requests /\ WellFormed(r) /\ NoTrace(c)
    BY DEF GateInvariant, TypeOK, CallRecord, CallFits, BeginOrderTx, Viewed, At, Ended, Uncommitted
  <1>2. PICK over \in BOOLEAN : over = OverCap(r.agent, r.cart)
    <2>1. OverCap(r.agent, r.cart) \in BOOLEAN
      BY SMT DEF OverCap
    <2> QED BY <2>1, Zenon
  <1> DEFINE next == [call[c] EXCEPT !.pc = "order_tx", !.overCap = over]
  <1>3. /\ next \in CallRecord
        /\ next.pc = "order_tx" /\ next.request = r /\ next.answer = "none"
    BY <1>1 DEF CallRecord, CallPc
  <1>4. call' = [call EXCEPT ![c] = next]
    BY <1>2 DEF BeginOrderTx
  <1> HIDE DEF next
  <1>5. call' \in [Calls -> CallRecord] /\ call'[c] = next /\ Others(c)
    BY <1>1, <1>3, <1>4 DEF Others
  <1>6. UNCHANGED <<orderVars, chainVars, catalogVars, crashes, links>>
    BY DEF BeginOrderTx
  <1>7. TypeOK'
    BY <1>1, <1>5, <1>6, LockTypes DEF BeginOrderTx
  <1>8. NoTrace(c)'
    BY <1>1, <1>6 DEF NoTrace, orderVars, chainVars
  <1>9. CallFits(c)'
    BY <1>1, <1>3, <1>5, <1>8 DEF CallFits, WellFormed, RefusalCode
  <1>10. AnswerIsTrue(c)'
    BY <1>3, <1>5 DEF AnswerIsTrue
  <1> QED BY <1>5, <1>6, <1>7, <1>9, <1>10, QuietStep

(* The ways out of the order transaction that roll it back.                *)
LEMMA RollbackKeeps ==
    ASSUME GateInvariant, NEW c \in Calls,
           RefuseOverCap(c) \/ RefuseRacedIntent(c) \/ HitKeyIndex(c)
    PROVE  GateInvariant'
  <1>1. call[c].pc = "order_tx" /\ call[c].request \in Requests
    BY DEF GateInvariant, CallFits, RefuseOverCap, RefuseRacedIntent, HitKeyIndex, At, Ended
  <1>2. /\ UNCHANGED <<orderVars, chainVars, catalogVars, crashes, links>>
        /\ EndTx(c)
    BY DEF RefuseOverCap, RefuseRacedIntent, HitKeyIndex, RefuseInTx
  <1>3. call' \in [Calls -> CallRecord] /\ Others(c) /\ CallFits(c)' /\ AnswerIsTrue(c)'
    <2>1. CASE RefuseOverCap(c)
      BY <1>1, <1>2, <2>1, IsRefused DEF RefuseOverCap, RefuseInTx, Uncommitted, RefusalCode
    <2>2. CASE RefuseRacedIntent(c)
      BY <1>1, <1>2, <2>2, IsRefused
         DEF RefuseRacedIntent, RefuseInTx, Uncommitted, RefusalCode, IntentRaced
    <2>3. CASE HitKeyIndex(c)
      BY <1>1, <1>2, <2>3, GoesOn DEF HitKeyIndex, Uncommitted
    <2> QED BY <2>1, <2>2, <2>3
  <1>4. TypeOK'
    BY <1>1, <1>2, <1>3, LockTypes DEF EndTx
  <1> QED BY <1>2, <1>3, <1>4, QuietStep

\* The commit writes the order and its mandate together, for a fresh intent.
LEMMA CommitOrderKeeps ==
    ASSUME GateInvariant, NEW c \in Calls, CommitOrder(c)
    PROVE  GateInvariant'
  <1> DEFINE r == call[c].request
             intent == IntentOf[r.cart]
  <1>1. /\ call \in [Calls -> CallRecord] /\ call[c] \in CallRecord
        /\ call[c].pc = "order_tx" /\ call[c].answer = "none"
        /\ r \in Requests /\ WellFormed(r) /\ NoTrace(c)
    BY DEF GateInvariant, TypeOK, CallRecord, CallFits, CommitOrder, At, Ended, Uncommitted
  <1>2. r.agent \in Agents /\ r.key \in Keys /\ r.cart \in Carts /\ intent \in Intents
    BY <1>1, ItsRequest DEF GateInvariant
  <1>3. PICK new : new = [agent |-> r.agent, key |-> r.key, cart |-> r.cart, order |-> c]
    OBVIOUS
  <1>4. /\ status' = [status EXCEPT ![c] = "created"]
        /\ consumedBy' = [consumedBy EXCEPT ![intent] = c]
        /\ paymentMandates' = paymentMandates \cup {new}
        /\ cartSigned' = [cartSigned EXCEPT ![r.cart] = cartSigned[r.cart] \/ r.signature # "none"]
        /\ UNCHANGED <<linked, catalogVars, crashes, links>>
    BY <1>3 DEF CommitOrder, MandateFor
  <1>5. /\ consumedBy[intent] = NoCall
        /\ \A m \in paymentMandates : ~(m.agent = r.agent /\ m.key = r.key)
    BY DEF CommitOrder, IntentRaced, Consumed, KeyRaced, Existing
  <1>6. /\ new \in [agent : Agents, key : Keys, cart : Carts, order : Calls]
        /\ new.agent = r.agent /\ new.key = r.key /\ new.cart = r.cart /\ new.order = c
    BY <1>2, <1>3
  <1> USE DEF GateInvariant
  <1>7. /\ call' \in [Calls -> CallRecord] /\ Others(c)
        /\ call'[c].pc = "placed" /\ call'[c].request = r /\ call'[c].answer = "none"
    BY <1>1, GotoCall DEF CommitOrder, CallPc
  <1>8. TypeOK'
    <2>1. agentLock' \in [Agents -> Calls \cup {NoCall}]
      BY <1>2 DEF CommitOrder, EndTx, TypeOK
    <2>2. cartSigned' \in [Carts -> BOOLEAN]
      BY <1>2, <1>4 DEF TypeOK
    <2> QED BY <1>2, <1>4, <1>6, <1>7, <2>1, <2>2 DEF TypeOK, CallRecord, catalogVars
  <1>9. CustodialCartsAreSigned' /\ cartSigned'[r.cart]
    <2>1. cartSigned'[r.cart] = (cartSigned[r.cart] \/ r.signature # "none")
      BY <1>2, <1>4 DEF TypeOK
    <2>2. \A k \in Carts : k # r.cart => cartSigned'[k] = cartSigned[k]
      BY <1>4 DEF TypeOK
    <2>3. r.signature = "none" => Custodial[Owner[r.cart]]
      BY <1>1 DEF WellFormed
    <2> QED BY <1>2, <2>1, <2>2, <2>3 DEF CustodialCartsAreSigned
  <1>10. KeyBuysOnce'
    BY <1>4, <1>5, <1>6 DEF KeyBuysOnce
  <1>11. PaidChainIsOneToOne'
    <2>1. \A m \in paymentMandates :
              /\ m \in [agent : Agents, key : Keys, cart : Carts, order : Calls]
              /\ m.order # c /\ IntentOf[m.cart] # intent
      BY <1>1, <1>5, SubmissionAssumption DEF NoTrace, PaidChainIsOneToOne, TypeOK
    <2>2. \A m, n \in paymentMandates' :
              IntentOf[m.cart] = IntentOf[n.cart] \/ m.order = n.order => m = n
      BY <1>4, <1>6, <2>1 DEF PaidChainIsOneToOne
    <2>3. ASSUME NEW m \in paymentMandates'
          PROVE  /\ consumedBy'[IntentOf[m.cart]] = m.order
                 /\ Owner[m.cart] = m.agent
                 /\ cartSigned'[m.cart]
                 /\ status'[m.order] # "absent"
      <3>1. CASE m = new
        <4>1. consumedBy'[intent] = c /\ status'[c] = "created"
          BY <1>2, <1>4 DEF TypeOK
        <4> QED BY <1>1, <1>6, <1>9, <3>1, <4>1 DEF WellFormed
      <3>2. CASE m \in paymentMandates
        <4>1. /\ m.cart \in Carts /\ m.order \in Calls /\ IntentOf[m.cart] \in Intents
              /\ consumedBy[IntentOf[m.cart]] = m.order /\ Owner[m.cart] = m.agent
              /\ cartSigned[m.cart] /\ status[m.order] # "absent"
              /\ m.order # c /\ IntentOf[m.cart] # intent
          BY <2>1, <3>2, SubmissionAssumption DEF PaidChainIsOneToOne
        <4>2. consumedBy'[IntentOf[m.cart]] = m.order /\ status'[m.order] # "absent"
          BY <1>4, <4>1 DEF TypeOK
        <4>3. cartSigned'[m.cart]
          BY <1>4, <1>9, <4>1 DEF TypeOK
        <4> QED BY <4>1, <4>2, <4>3
      <3> QED BY <1>4, <3>1, <3>2
    <2>4. \A o \in Calls : status'[o] # "absent" => \E m \in paymentMandates' : m.order = o
      <3>1. \A o \in Calls : o # c => status'[o] = status[o]
        BY <1>4 DEF TypeOK
      <3> QED BY <1>4, <1>6, <3>1 DEF PaidChainIsOneToOne
    <2>5. \A i \in Intents : consumedBy'[i] # NoCall =>
              \E m \in paymentMandates' : IntentOf[m.cart] = i
      <3>1. \A i \in Intents : i # intent => consumedBy'[i] = consumedBy[i]
        BY <1>4 DEF TypeOK
      <3> QED BY <1>4, <1>6, <3>1 DEF PaidChainIsOneToOne
    <2> QED BY <2>2, <2>3, <2>4, <2>5 DEF PaidChainIsOneToOne
  <1>12. AnswersAreTrue'
    <2>1. ASSUME NEW d \in Calls, d # c
          PROVE  AnswerIsTrue(d)'
      <3>1. AnswerIsTrue(d) /\ call'[d] = call[d] /\ linked' = linked
        BY <1>4, <1>7, <2>1 DEF AnswersAreTrue, Others
      <3>2. paymentMandates \subseteq paymentMandates'
        BY <1>4
      <3>3. \A i \in Intents : consumedBy[i] # NoCall => consumedBy'[i] # NoCall
        BY <1>4, SubmissionAssumption DEF TypeOK
      <3>4. call[d].answer = "INTENT_CONSUMED" => IntentOf[call[d].request.cart] \in Intents
        BY ItsRequest DEF CallFits
      <3> QED BY <3>1, <3>2, <3>3, <3>4 DEF AnswerIsTrue, MandateFor, Existing, Consumed
    <2>2. AnswerIsTrue(c)'
      BY <1>7 DEF AnswerIsTrue
    <2> QED BY <2>1, <2>2 DEF AnswersAreTrue
  <1>13. ASSUME NEW d \in Calls PROVE CallFits(d)'
    <2>1. CASE d = c
      <3>1. MandateFor(c, c)' \in paymentMandates'
        BY <1>3, <1>4, <1>7 DEF MandateFor
      <3>2. links'[c] = 0
        BY <1>1, <1>4 DEF NoTrace
      <3> QED BY <1>1, <1>7, <2>1, <3>1, <3>2
              DEF CallFits, WellFormed, Uncommitted, RefusalCode, Ended
    <2>2. CASE d # c
      <3>1. CallFits(d) /\ call'[d] = call[d] /\ links' = links
        BY <1>4, <1>7, <2>2 DEF Others
      <3>2. NoTrace(d) => NoTrace(d)'
        BY <1>2, <1>4, <1>6, <2>2 DEF NoTrace, TypeOK
      <3> QED BY <1>4, <3>1, <3>2 DEF CallFits, MandateFor
    <2> QED BY <2>1, <2>2
  <1> QED BY <1>8, <1>9, <1>10, <1>11, <1>12, <1>13

(***************************************************************************)
(* The gateway link.                                                       *)
(***************************************************************************)
LEMMA AttemptLinkKeeps ==
    ASSUME GateInvariant, NEW c \in Calls, AttemptLink(c)
    PROVE  GateInvariant'
  <1>1. /\ call' \in [Calls -> CallRecord] /\ Others(c)
        /\ call'[c].pc = "attempted" /\ call'[c].request = call[c].request
        /\ call'[c].answer = call[c].answer
    BY GotoCall DEF GateInvariant, AttemptLink, CallPc
  <1>2. UNCHANGED <<orderVars, chainVars, catalogVars, agentLock, crashes, links>>
    BY DEF AttemptLink, Private
  <1>3. TypeOK'
    BY <1>1, <1>2 DEF GateInvariant, TypeOK, CallRecord, orderVars, chainVars, catalogVars
  <1>4. call[c].pc = "placed" /\ CallFits(c)
    BY DEF GateInvariant, AttemptLink, At
  <1>5. call[c].answer = "none"
    BY <1>4 DEF CallFits
  <1>6. CallFits(c)'
    BY <1>1, <1>2, <1>4, <1>5
       DEF CallFits, Uncommitted, Ended, RefusalCode, MandateFor, WellFormed, chainVars
  <1>7. AnswerIsTrue(c)'
    BY <1>1, <1>5 DEF AnswerIsTrue
  <1> QED BY <1>1, <1>2, <1>3, <1>6, <1>7, QuietStep

\* The gateway's answer moves only its own call.
LEMMA CreateLinkKeeps ==
    ASSUME GateInvariant, NEW c \in Calls, CreateLink(c) \/ CreateLinkFails(c)
    PROVE  GateInvariant'
  <1> USE DEF GateInvariant
  <1>1. PICK pc \in {"created_link", "answered"}, answer \in {"none", "error"} :
            /\ call' \in [Calls -> CallRecord] /\ Others(c)
            /\ call'[c].pc = pc /\ call'[c].request = call[c].request
            /\ call'[c].answer = answer
            /\ answer # "none" => pc = "answered"
            /\ pc = "created_link" => LinkCreated(c)
    <2>1. CASE CreateLink(c)
      BY <2>1, GotoCall DEF CreateLink, CallPc, CallFits, At
    <2>2. CASE CreateLinkFails(c)
      BY <2>2, AnswerCall DEF CreateLinkFails, Answers
    <2> QED BY <2>1, <2>2
  <1>2. /\ UNCHANGED <<orderVars, chainVars, catalogVars, agentLock, crashes>>
        /\ LinkCreated(c) \/ UNCHANGED links
        /\ call[c].pc = "attempted"
    BY DEF CreateLink, CreateLinkFails, At
  <1>3. /\ links[c] = 0 /\ call[c].request \in Requests /\ WellFormed(call[c].request)
        /\ MandateFor(c, c) \in paymentMandates
    BY <1>2 DEF CallFits, Ended
  <1>4. /\ links' \in [Calls -> Nat]
        /\ links'[c] \in 0..1
        /\ LinkCreated(c) => links'[c] = 1
        /\ \A o \in Calls : o # c => links'[o] = links[o]
    <2>1. links \in [Calls -> Nat]
      BY DEF TypeOK
    <2>2. CASE UNCHANGED links
      <3>1. ~LinkCreated(c)
        BY <1>3, <2>1, <2>2 DEF LinkCreated
      <3> QED BY <1>3, <2>1, <2>2, <3>1
    <2>3. CASE LinkCreated(c)
      BY <1>3, <2>1, <2>3 DEF LinkCreated
    <2> QED BY <1>2, <2>2, <2>3
  <1>5. TypeOK'
    BY <1>1, <1>2, <1>4 DEF TypeOK, CallRecord, orderVars, chainVars, catalogVars
  <1>6. CustodialCartsAreSigned' /\ PaidChainIsOneToOne'
    BY <1>2 DEF CustodialCartsAreSigned, PaidChainIsOneToOne, orderVars, chainVars
  <1>7. KeyBuysOnce'
    <2>1. linked[c] => links[c] = 1
      BY DEF KeyBuysOnce
    <2>2. \E m \in paymentMandates : m.order = c
      BY <1>3 DEF MandateFor
    <2> QED BY <1>2, <1>3, <1>4, <2>1, <2>2 DEF KeyBuysOnce, orderVars, chainVars
  <1>8. AnswersAreTrue'
    BY <1>1, <1>2
       DEF AnswersAreTrue, AnswerIsTrue, MandateFor, Existing, Consumed, Others, orderVars,
           chainVars
  <1>9. CallFits(c)'
    BY <1>1, <1>2, <1>3, <1>4
       DEF CallFits, Ended, Uncommitted, RefusalCode, WellFormed, MandateFor, chainVars
  <1>10. \A d \in Calls : d # c => CallFits(d)'
    BY <1>1, <1>2, <1>4 DEF CallFits, NoTrace, MandateFor, Others, orderVars, chainVars
  <1> QED BY <1>5, <1>6, <1>7, <1>8, <1>9, <1>10

\* Storing the link answers the call with its own order.
LEMMA StoreLinkKeeps ==
    ASSUME GateInvariant, NEW c \in Calls, StoreLink(c)
    PROVE  GateInvariant'
  <1> USE DEF GateInvariant
  <1>1. /\ call' \in [Calls -> CallRecord] /\ Others(c)
        /\ call'[c].pc = "answered" /\ call'[c].request = call[c].request
        /\ call'[c].answer = "created" /\ call'[c].order = c
    BY AnswerCall DEF StoreLink, Answers
  <1>2. /\ UNCHANGED <<chainVars, catalogVars, agentLock, crashes, links>>
        /\ links[c] = 1 /\ call[c].request \in Requests
        /\ MandateFor(c, c) \in paymentMandates
    BY DEF StoreLink, CallFits, At
  <1>3. /\ linked' \in [Calls -> BOOLEAN] /\ linked'[c]
        /\ \A o \in Calls : o # c => linked'[o] = linked[o]
        /\ \A o \in Calls : linked[o] => linked'[o]
    BY DEF TypeOK, StoreLink
  <1>4. /\ status'[c] = "awaiting_payment"
        /\ status' \in [Calls -> {"absent", "created", "awaiting_payment", "paid", "cancelled",
                                  "refunded"}]
        /\ \A o \in Calls : o # c => status'[o] = status[o]
    BY DEF TypeOK, StoreLink
  <1>5. TypeOK'
    BY <1>1, <1>2, <1>3, <1>4 DEF TypeOK, CallRecord, chainVars, catalogVars
  <1>6. CustodialCartsAreSigned'
    BY <1>2 DEF CustodialCartsAreSigned, chainVars
  <1>7. KeyBuysOnce'
    BY <1>2, <1>3 DEF KeyBuysOnce, chainVars
  <1>8. PaidChainIsOneToOne'
    <2>1. \E m \in paymentMandates : m.order = c
      BY <1>2 DEF MandateFor
    <2>2. \A m \in paymentMandates : m.order \in Calls
      BY DEF TypeOK
    <2> QED BY <1>2, <1>4, <2>1, <2>2 DEF PaidChainIsOneToOne, chainVars
  <1>9. AnswersAreTrue'
    <2>1. AnswerIsTrue(c)'
      BY <1>1, <1>2, <1>3 DEF AnswerIsTrue, MandateFor, chainVars
    <2>2. ASSUME NEW d \in Calls, d # c
          PROVE  AnswerIsTrue(d)'
      <3>1. call'[d] = call[d] /\ AnswerIsTrue(d)
        BY <1>1, <2>2 DEF Others, AnswersAreTrue
      <3>2. MandateFor(d, call[d].order) \in paymentMandates => call[d].order \in Calls
        BY DEF MandateFor, TypeOK
      <3> QED BY <1>2, <1>3, <3>1, <3>2
              DEF AnswerIsTrue, MandateFor, Existing, Consumed, chainVars
    <2> QED BY <2>1, <2>2 DEF AnswersAreTrue
  <1>10. CallFits(c)'
    BY <1>1, <1>2 DEF CallFits, Ended, Uncommitted, RefusalCode
  <1>11. \A d \in Calls : d # c => CallFits(d)'
    BY <1>1, <1>2, <1>4 DEF CallFits, NoTrace, MandateFor, Others, chainVars
  <1> QED BY <1>5, <1>6, <1>7, <1>8, <1>9, <1>10, <1>11

(***************************************************************************)
(* The steps that are not a call's own.                                    *)
(***************************************************************************)
LEMMA SettleKeeps ==
    ASSUME GateInvariant, NEW o \in Calls, Settle(o)
    PROVE  GateInvariant'
  <1> USE DEF GateInvariant
  <1>1. UNCHANGED <<linked, chainVars, catalogVars, agentLock, call, crashes, links>>
    BY DEF Settle
  <1>2. /\ status' \in [Calls -> {"absent", "created", "awaiting_payment", "paid", "cancelled",
                                  "refunded"}]
        /\ \A d \in Calls : status'[d] = "absent" <=> status[d] = "absent"
    <2>1. PICK s \in {"paid", "cancelled", "refunded"} : status' = [status EXCEPT ![o] = s]
      BY DEF Settle
    <2>2. status[o] # "absent"
      BY DEF Settle
    <2> QED BY <2>1, <2>2 DEF TypeOK
  <1>3. TypeOK' /\ CustodialCartsAreSigned' /\ KeyBuysOnce'
    BY <1>1, <1>2 DEF TypeOK, CustodialCartsAreSigned, KeyBuysOnce, chainVars, catalogVars
  <1>4. PaidChainIsOneToOne'
    <2>1. \A m \in paymentMandates : m.order \in Calls
      BY DEF TypeOK
    <2> QED BY <1>1, <1>2, <2>1 DEF PaidChainIsOneToOne, chainVars
  <1>5. AnswersAreTrue'
    BY <1>1 DEF AnswersAreTrue, AnswerIsTrue, MandateFor, Existing, Consumed, chainVars
  <1>6. \A d \in Calls : CallFits(d)'
    BY <1>1, <1>2 DEF CallFits, NoTrace, MandateFor, chainVars
  <1> QED BY <1>3, <1>4, <1>5, <1>6

\* The part of the invariant that speaks of rows and answers alone.
LEMMA Elsewhere ==
    ASSUME GateInvariant, TypeOK', UNCHANGED <<orderVars, chainVars, links, call>>
    PROVE  GateInvariant'
  <1> USE DEF GateInvariant, orderVars, chainVars
  <1>1. CustodialCartsAreSigned' /\ KeyBuysOnce' /\ PaidChainIsOneToOne'
    BY DEF CustodialCartsAreSigned, KeyBuysOnce, PaidChainIsOneToOne
  <1>2. AnswersAreTrue'
    BY DEF AnswersAreTrue, AnswerIsTrue, MandateFor, Existing, Consumed
  <1>3. \A d \in Calls : CallFits(d)'
    BY DEF CallFits, NoTrace, MandateFor
  <1> QED BY <1>1, <1>2, <1>3

\* The catalog moves under the calls without touching a row of theirs.
LEMMA CatalogMoves ==
    ASSUME GateInvariant, NEW v \in Variants,
           Sell(v) \/ Archive(v) \/ \E p \in Prices : Reprice(v, p)
    PROVE  GateInvariant'
  <1>1. catalog \in [Variants -> Entry] /\ catalog[v] \in Entry /\ moves \in 0..MaxMoves
    BY DEF GateInvariant, TypeOK
  <1>2. PICK entry \in Entry : MoveCatalog(v, entry)
    <2>1. CASE Sell(v)
      <3>1. [catalog[v] EXCEPT !.stock = @ - 1] \in Entry
        BY <1>1, <2>1 DEF Sell, Entry
      <3> QED BY <2>1, <3>1 DEF Sell
    <2>2. CASE Archive(v)
      <3>1. [catalog[v] EXCEPT !.published = FALSE] \in Entry
        BY <1>1 DEF Entry
      <3> QED BY <2>2, <3>1 DEF Archive
    <2>3. ASSUME NEW p \in Prices, Reprice(v, p)
          PROVE  \E entry \in Entry : MoveCatalog(v, entry)
      <3>1. [catalog[v] EXCEPT !.price = p] \in Entry
        BY <1>1, SubmissionAssumption DEF Entry
      <3> QED BY <2>3, <3>1 DEF Reprice
    <2> QED BY <2>1, <2>2, <2>3
  <1>3. TypeOK'
    BY <1>1, <1>2, SubmissionAssumption
       DEF GateInvariant, TypeOK, MoveCatalog, orderVars, chainVars
  <1> QED BY <1>2, <1>3, Elsewhere DEF MoveCatalog

\* A crash ends the calls in flight and keeps every committed row.
LEMMA CrashKeeps ==
    ASSUME GateInvariant, Crash
    PROVE  GateInvariant'
  <1> USE DEF GateInvariant
  <1>1. UNCHANGED <<orderVars, chainVars, catalogVars, links>>
    BY DEF Crash
  <1>2. ASSUME NEW c \in Calls
        PROVE  /\ call'[c] \in CallRecord
               /\ call'[c].pc = IF call[c].pc \in Ended THEN call[c].pc ELSE "dropped"
               /\ call'[c].request = call[c].request
               /\ call'[c].order = call[c].order
               /\ call'[c].answer = call[c].answer
    <2>1. call[c] \in CallRecord
      BY DEF TypeOK, CallRecord
    <2>2. call'[c] = IF call[c].pc \in Ended THEN call[c] ELSE [call[c] EXCEPT !.pc = "dropped"]
      BY DEF Crash
    <2>3. CASE call[c].pc \in Ended
      BY <2>1, <2>2, <2>3
    <2>4. CASE call[c].pc \notin Ended
      BY <2>1, <2>2, <2>4 DEF CallRecord, CallPc, Ended
    <2> QED BY <2>3, <2>4
  <1>3. call' \in [Calls -> CallRecord]
    BY <1>2 DEF Crash
  <1>4. TypeOK'
    <2>1. crashes' \in 0..MaxCrashes
      BY SubmissionAssumption DEF Crash, TypeOK
    <2>2. agentLock' \in [Agents -> Calls \cup {NoCall}]
      BY DEF Crash
    <2> QED BY <1>1, <1>3, <2>1, <2>2 DEF TypeOK, CallRecord, orderVars, chainVars, catalogVars
  <1>5. CustodialCartsAreSigned' /\ KeyBuysOnce' /\ PaidChainIsOneToOne'
    BY <1>1 DEF CustodialCartsAreSigned, KeyBuysOnce, PaidChainIsOneToOne, orderVars, chainVars
  <1>6. AnswersAreTrue'
    BY <1>1, <1>2
       DEF AnswersAreTrue, AnswerIsTrue, MandateFor, Existing, Consumed, orderVars, chainVars
  <1>7. \A d \in Calls : CallFits(d)'
    BY <1>1, <1>2
       DEF CallFits, NoTrace, MandateFor, Ended, Uncommitted, orderVars, chainVars
  <1> QED BY <1>4, <1>5, <1>6, <1>7

-----------------------------------------------------------------------------
\* Every step of a call keeps the invariant of the gate.
LEMMA CallStepKeeps ==
    ASSUME GateInvariant, NEW c \in Calls, CallStep(c)
    PROVE  GateInvariant'
  <1>1. call[c].pc \notin Ended /\ (GateStep(c) \/ TxStep(c) \/ LinkStep(c))
    BY DEF CallStep
  <1>2. CASE GateStep(c)
    BY <1>1, <1>2, GateStepKeeps
  <1>3. CASE TxStep(c)
    BY <1>3, BeginOrderTxKeeps, RollbackKeeps, CommitOrderKeeps DEF TxStep
  <1>4. CASE LinkStep(c)
    BY <1>4, AttemptLinkKeeps, CreateLinkKeeps, StoreLinkKeeps DEF LinkStep
  <1> QED BY <1>1, <1>2, <1>3, <1>4

\* Every step of the system keeps the invariant of the gate.
LEMMA StepKeepsGate == GateInvariant /\ [Next]_vars => GateInvariant'
  <1> SUFFICES ASSUME GateInvariant, [Next]_vars PROVE GateInvariant'
    OBVIOUS
  <1>1. CASE UNCHANGED vars
    <2>1. TypeOK'
      BY <1>1
         DEF GateInvariant, TypeOK, vars, orderVars, chainVars, catalogVars
    <2> QED BY <1>1, <2>1, Elsewhere DEF vars
  <1>2. ASSUME NEW c \in Calls, NEW r \in Requests, Submit(c, r) \/ RejectMalformed(c, r)
        PROVE  GateInvariant'
    BY <1>2, SubmitKeeps
  <1>3. ASSUME NEW c \in Calls, CallStep(c) \/ Settle(c)
        PROVE  GateInvariant'
    BY <1>3, CallStepKeeps, SettleKeeps
  <1>4. ASSUME NEW v \in Variants, Sell(v) \/ Archive(v) \/ \E p \in Prices : Reprice(v, p)
        PROVE  GateInvariant'
    BY <1>4, CatalogMoves
  <1>5. CASE Crash
    BY <1>5, CrashKeeps
  <1> QED BY <1>1, <1>2, <1>3, <1>4, <1>5 DEF Next

(* The gate's invariant holds whatever is retried, raced or dropped.       *)
THEOREM GateHolds == Spec => []GateInvariant
  <1> QED BY InitGate, StepKeepsGate, PTL DEF Spec

(* Every row and call is of its kind, for any number of calls.             *)
THEOREM GateTypes == Spec => []TypeOK
  <1>1. GateInvariant => TypeOK
    BY DEF GateInvariant
  <1> QED BY <1>1, GateHolds, PTL

(* An idempotency key buys once: the lookup, the unique index and the      *)
(* replay leave one mandate, one Order and at most one link for it.        *)
THEOREM OneOrderPerKey == Spec => []KeyBuysOnce
  <1>1. GateInvariant => KeyBuysOnce
    BY DEF GateInvariant
  <1> QED BY <1>1, GateHolds, PTL

(* Intent, cart, Payment mandate and Order correspond one to one: the      *)
(* guarded UPDATE that consumes the Intent decides every race of carts.    *)
THEOREM OneOrderPerIntent == Spec => []PaidChainIsOneToOne
  <1>1. GateInvariant => PaidChainIsOneToOne
    BY DEF GateInvariant
  <1> QED BY <1>1, GateHolds, PTL

(* A call is answered only with its own purchase, and blamed only for an   *)
(* earlier one that there is.                                              *)
THEOREM AnswersTrue == Spec => []AnswersAreTrue
  <1>1. GateInvariant => AnswersAreTrue
    BY DEF GateInvariant
  <1> QED BY <1>1, GateHolds, PTL

(* A refused or malformed call left no Order, mandate, consumed Intent or  *)
(* gateway link: every Refusal of the order transaction rolls it back.     *)
THEOREM RefusalsLeaveNothing == Spec => []RefusedLeavesNothing
  <1>1. GateInvariant => RefusedLeavesNothing
    BY DEF GateInvariant, CallFits, RefusedLeavesNothing
  <1> QED BY <1>1, GateHolds, PTL

-----------------------------------------------------------------------------
(***************************************************************************)
(* The Cap.  The sum is read when the transaction takes the lock of the    *)
(* Agent's row and used when it inserts the Order.  In between it can only *)
(* have become smaller: a settlement may release an Order's amount, but    *)
(* every other insert for the Agent needs the lock that this call holds.   *)
(***************************************************************************)
Uncounted == {"cancelled", "refunded"}

CapFits(c) ==
    /\ At(c, "order_tx") => agentLock[call[c].request.agent] = c
    /\ At(c, "order_tx") /\ ~call[c].overCap
          => ~OverCap(call[c].request.agent, call[c].request.cart)
    /\ call[c].pc \in {"placed", "attempted", "created_link"} => status[c] = "created"

CapInvariant ==
    /\ IsFiniteSet(paymentMandates)
    /\ CapHolds
    /\ \A c \in Calls : CapFits(c)

Mandate == [agent : Agents, key : Keys, cart : Carts, order : Calls]

\* What the mandates M amount to.
Amount(M) == SumFunctionOnSet([m \in M |-> Total(m.cart)], M)

\* A cart's total is a natural number, whatever its lines.
LEMMA TotalIsNat == ASSUME NEW k \in Carts PROVE Total(k) \in Nat
  <1> DEFINE f == [i \in DOMAIN Items[k] |-> Items[k][i].quantity * Items[k][i].price]
             S == DOMAIN Items[k]
  <1>1. Items[k] \in Seq(Line) /\ Len(Items[k]) \in Nat /\ S = 1..Len(Items[k])
    BY SubmissionAssumption
  <1>2. IsFiniteSet(S)
    BY <1>1, FS_Interval
  <1>3. \A i \in S : f[i] \in Nat
    <2>1. \A i \in S : Items[k][i] \in Line
      BY <1>1
    <2>2. \A l \in Line : l.quantity * l.price \in Nat
      BY DEF Line
    <2> QED BY <2>1, <2>2
  <1>4. Total(k) = SumFunctionOnSet(f, S)
    BY DEF Total, SumFunction
  <1> HIDE DEF f, S
  <1> QED BY <1>2, <1>3, <1>4, SumIsNat

\* Fewer mandates never amount to more, and one more adds its own total.
LEMMA AmountOfFewer ==
    ASSUME NEW M \in SUBSET Mandate, IsFiniteSet(M), NEW N \in SUBSET M
    PROVE  Amount(M) \in Nat /\ Amount(N) \in Nat /\ Amount(N) <= Amount(M)
  <1> DEFINE f == [m \in M |-> Total(m.cart)]
             g == [m \in N |-> Total(m.cart)]
  <1>1. \A m \in M : f[m] \in Nat
    BY TotalIsNat DEF Mandate
  <1>2. \A m \in N : f[m] \in Nat /\ g[m] = f[m]
    BY <1>1
  <1>3. IsFiniteSet(N)
    BY FS_Subset
  <1>4. Amount(M) = SumFunctionOnSet(f, M) /\ Amount(N) = SumFunctionOnSet(g, N)
    BY DEF Amount
  <1> HIDE DEF f, g
  <1>5. SumFunctionOnSet(g, N) = SumFunctionOnSet(f, N)
    BY <1>2, <1>3, SumAgrees
  <1>6. SumFunctionOnSet(f, N) <= SumFunctionOnSet(f, M)
    BY <1>1, SumOfAPart
  <1>7. SumFunctionOnSet(f, M) \in Nat /\ SumFunctionOnSet(f, N) \in Nat
    BY <1>1, <1>2, <1>3, SumIsNat
  <1> QED BY <1>4, <1>5, <1>6, <1>7

\* A mandate more adds its cart's total.
LEMMA AmountOfOneMore ==
    ASSUME NEW M \in SUBSET Mandate, IsFiniteSet(M), NEW n \in Mandate, n \notin M
    PROVE  Amount(M \cup {n}) = Amount(M) + Total(n.cart)
  <1> DEFINE f == [m \in M |-> Total(m.cart)]
             g == [m \in M \cup {n} |-> Total(m.cart)]
  <1>1. \A m \in M \cup {n} : g[m] \in Nat
    BY TotalIsNat DEF Mandate
  <1>2. \A m \in M : f[m] \in Nat /\ g[m] = f[m]
    BY TotalIsNat DEF Mandate
  <1>3. /\ Amount(M) = SumFunctionOnSet(f, M)
        /\ Amount(M \cup {n}) = SumFunctionOnSet(g, M \cup {n})
        /\ g[n] = Total(n.cart)
    BY DEF Amount
  <1> HIDE DEF f, g
  <1>4. SumFunctionOnSet(g, M \cup {n}) = SumFunctionOnSet(g, M) + g[n]
    BY <1>1, SumWithOneMore
  <1>5. SumFunctionOnSet(g, M) = SumFunctionOnSet(f, M)
    BY <1>2, SumAgrees
  <1> QED BY <1>3, <1>4, <1>5

\* Spent is the amount of the counting mandates, before and after a step.
LEMMA SpentIsAmount ==
    ASSUME NEW a
    PROVE  Spent(a) = Amount(Counting(a)) /\ Spent(a)' = Amount(Counting(a)')
  BY DEF Spent, SumFunction, Amount, Total

\* An Order that does not count any more frees its amount; none comes back.
LEMMA SpentShrinks ==
    ASSUME TypeOK, IsFiniteSet(paymentMandates), UNCHANGED paymentMandates,
           \A o \in Calls : status[o] \in Uncounted => status'[o] \in Uncounted
    PROVE  \A a \in Agents : Spent(a) \in Nat /\ Spent(a)' \in Nat /\ Spent(a)' <= Spent(a)
  <1> SUFFICES ASSUME NEW a \in Agents
               PROVE  Spent(a) \in Nat /\ Spent(a)' \in Nat /\ Spent(a)' <= Spent(a)
    OBVIOUS
  <1>1. PICK M : M = Counting(a)
    OBVIOUS
  <1>2. PICK N : N = Counting(a)'
    OBVIOUS
  <1>3. M \in SUBSET Mandate /\ M \subseteq paymentMandates
    BY <1>1 DEF Counting, TypeOK, Mandate
  <1>4. IsFiniteSet(M)
    BY <1>3, FS_Subset
  <1>5. N \in SUBSET M
    BY <1>1, <1>2 DEF Counting, TypeOK, Uncounted
  <1>6. Amount(M) \in Nat /\ Amount(N) \in Nat /\ Amount(N) <= Amount(M)
    BY <1>3, <1>4, <1>5, AmountOfFewer
  <1>7. Spent(a) = Amount(M) /\ Spent(a)' = Amount(N)
    BY <1>1, <1>2, SpentIsAmount
  <1> QED BY <1>6, <1>7

\* A call that does not move stays as it was, if its lock is let be and its
\* Agent spent no more.
LEMMA OthersFit ==
    ASSUME GateInvariant, CapInvariant, NEW d \in Calls,
           call'[d] = call[d], status'[d] = status[d] \/ status[d] # "created",
           \A a \in Agents : At(d, "order_tx") /\ call[d].request.agent = a =>
               /\ agentLock'[a] = agentLock[a]
               /\ Spent(a) \in Nat /\ Spent(a)' \in Nat /\ Spent(a)' <= Spent(a)
    PROVE  CapFits(d)'
  <1>1. CapFits(d)
    BY DEF CapInvariant
  <1>2. CASE At(d, "order_tx")
    <2>1. PICK a \in Agents, k \in Carts : a = call[d].request.agent /\ k = call[d].request.cart
      BY <1>2, ItsRequest DEF GateInvariant, CallFits, At
    <2>2. Total(k) \in Nat /\ Cap[a] \in Nat
      BY TotalIsNat, SubmissionAssumption
    <2>3. /\ agentLock'[a] = agentLock[a]
          /\ Spent(a) \in Nat /\ Spent(a)' \in Nat /\ Spent(a)' <= Spent(a)
      BY <1>2, <2>1
    <2>4. ~call[d].overCap => ~(Spent(a) + Total(k) > Cap[a])
      BY <1>1, <1>2, <2>1 DEF CapFits, OverCap
    <2>5. ~call[d].overCap => ~(Spent(a)' + Total(k) > Cap[a])
      BY <2>2, <2>3, <2>4
    <2>6. ~call[d].overCap => ~OverCap(a, k)'
      BY <2>5 DEF OverCap, Total
    <2>7. agentLock'[a] = d
      BY <1>1, <1>2, <2>1, <2>3 DEF CapFits
    <2> QED BY <1>2, <2>1, <2>6, <2>7 DEF CapFits, At
  <1>3. CASE ~At(d, "order_tx")
    BY <1>1, <1>3 DEF CapFits, At
  <1> QED BY <1>2, <1>3

\* A step of one call that writes no mandate and only shrinks what is spent.
LEMMA CapKept ==
    ASSUME GateInvariant, CapInvariant, UNCHANGED paymentMandates,
           \A o \in Calls : status[o] \in Uncounted => status'[o] \in Uncounted
    PROVE  /\ IsFiniteSet(paymentMandates)' /\ CapHolds'
           /\ \A a \in Agents : Spent(a) \in Nat /\ Spent(a)' \in Nat /\ Spent(a)' <= Spent(a)
  <1>1. \A a \in Agents : Spent(a) \in Nat /\ Spent(a)' \in Nat /\ Spent(a)' <= Spent(a)
    BY SpentShrinks DEF GateInvariant, CapInvariant
  <1>2. \A a \in Agents : Spent(a)' <= Cap[a]
    BY <1>1, SubmissionAssumption DEF CapInvariant, CapHolds
  <1> QED BY <1>1, <1>2 DEF CapInvariant, CapHolds

\* Only one call holds the lock of an Agent's row.
LEMMA LockIsExclusive ==
    ASSUME CapInvariant, NEW c \in Calls, NEW d \in Calls, At(c, "order_tx"), At(d, "order_tx"),
           call[c].request.agent = call[d].request.agent
    PROVE  c = d
  BY DEF CapInvariant, CapFits

\* Where a step of the gate outside the transaction leaves its call.
Outside == {"lookup", "intent", "catalog", "replay", "key_conflict", "answered"}

\* A refused call is outside the transaction.
LEMMA RefuseMoves ==
    ASSUME TypeOK, NEW c \in Calls, NEW code \in RefusalCode, Refuse(c, code)
    PROVE  call'[c].pc \in Outside /\ Others(c)
  BY AnswerCall DEF Refuse, Answers, Outside

\* A new request is outside the transaction.
LEMMA SubmitMoves ==
    ASSUME TypeOK, NEW c \in Calls, NEW r \in Requests, Submit(c, r) \/ RejectMalformed(c, r)
    PROVE  call'[c].pc \in Outside /\ Others(c) /\ Private
  <1>1. call \in [Calls -> CallRecord] /\ call[c] \in CallRecord
    BY DEF TypeOK, CallRecord
  <1>2. CASE Submit(c, r)
    <2>1. call' = [call EXCEPT ![c] = [call[c] EXCEPT !.pc = "lookup", !.request = r]]
      BY <1>1, <1>2 DEF Submit, CallRecord
    <2>2. call'[c].pc = "lookup" /\ Others(c)
      BY <1>1, <2>1 DEF CallRecord, Others
    <2> QED BY <1>2, <2>2 DEF Submit, Outside
  <1>3. CASE RejectMalformed(c, r)
    <2>1. call' = [call EXCEPT ![c] = [call[c] EXCEPT !.pc = "answered", !.request = r,
                                                      !.answer = "malformed"]]
      BY <1>1, <1>3 DEF RejectMalformed, CallRecord
    <2>2. call'[c].pc = "answered" /\ Others(c)
      BY <1>1, <2>1 DEF CallRecord, Others
    <2> QED BY <1>3, <2>2 DEF RejectMalformed, Outside
  <1> QED BY <1>2, <1>3

\* So is a call after any check of the gate.
LEMMA GateStepMoves ==
    ASSUME TypeOK, NEW c \in Calls,
           \/ GateStep(c)
           \/ \E r \in Requests : Submit(c, r) \/ RejectMalformed(c, r)
    PROVE  call'[c].pc \in Outside /\ Others(c) /\ Private
  <1> DEFINE Goal == call'[c].pc \in Outside /\ Others(c) /\ Private
  <1>0. call \in [Calls -> CallRecord] /\ call[c] \in CallRecord
    BY DEF TypeOK, CallRecord
  <1>1. ASSUME NEW next, next.pc \in Outside, call' = [call EXCEPT ![c] = next], Private
        PROVE  Goal
    BY <1>0, <1>1 DEF Others
  <1>2. ASSUME NEW r \in Requests, Submit(c, r) \/ RejectMalformed(c, r) PROVE Goal
    BY <1>2, SubmitMoves
  <1>4. CASE BeginReplay(c)
    <2>1. PICK order : call' = [call EXCEPT ![c].pc = "replay", ![c].order = order]
      BY <1>4 DEF BeginReplay
    <2> DEFINE next == [call[c] EXCEPT !.pc = "replay", !.order = order]
    <2>2. next.pc \in Outside /\ call' = [call EXCEPT ![c] = next] /\ Private
      BY <1>0, <1>4, <2>1 DEF BeginReplay, Outside, CallRecord
    <2> QED BY <1>1, <2>2
  <1>5. ASSUME NEW i \in 1..Len(Lines(c)), ReadLine(c, i) PROVE Goal
    <2>1. PICK view : call' = [call EXCEPT ![c].view = view]
      BY <1>5 DEF ReadLine
    <2> DEFINE next == [call[c] EXCEPT !.view = view]
    <2>2. next.pc \in Outside /\ call' = [call EXCEPT ![c] = next] /\ Private
      BY <1>0, <1>5, <2>1 DEF ReadLine, Reading, At, Outside, CallRecord
    <2> QED BY <1>1, <2>2
  <1>6. CASE KeyIsNew(c) \/ IntentIsOpen(c)
    BY <1>6, GotoCall DEF KeyIsNew, IntentIsOpen, Outside, CallPc
  <1>7. CASE ReplayOriginal(c)
    <2>1. call[c].order \in Calls \cup {NoCall}
      BY <1>0 DEF CallRecord
    <2> QED BY <1>7, <2>1, AnswerCall DEF ReplayOriginal, Outside, Answers
  <1>8. ASSUME NEW i \in 1..Len(Lines(c)), RefuseUnpublished(c, i) PROVE Goal
    BY <1>8, RefuseMoves DEF RefuseUnpublished, RefusalCode
  <1>9. CASE RefuseKeyReuse(c) \/ RefuseForged(c) \/ RefuseConsumed(c)
    BY <1>9, RefuseMoves DEF RefuseKeyReuse, RefuseForged, RefuseConsumed, RefusalCode
  <1>10. CASE RefuseCart(c)
    <2>1. Verdict(c) \in RefusalCode
      BY <1>10 DEF RefuseCart, Verdict, RefusalCode
    <2> QED BY <1>10, <2>1, RefuseMoves DEF RefuseCart
  <1> QED BY <1>2, <1>4, <1>5, <1>6, <1>7, <1>8, <1>9, <1>10 DEF GateStep

\* A step of one call that writes neither rows nor locks.
LEMMA PrivateKeepsCap ==
    ASSUME GateInvariant, CapInvariant, NEW c \in Calls, Others(c), CapFits(c)',
           UNCHANGED <<orderVars, chainVars, agentLock>>
    PROVE  CapInvariant'
  <1>0. UNCHANGED <<status, paymentMandates>>
    BY DEF orderVars, chainVars
  <1>1. /\ IsFiniteSet(paymentMandates)' /\ CapHolds'
        /\ \A a \in Agents : Spent(a) \in Nat /\ Spent(a)' \in Nat /\ Spent(a)' <= Spent(a)
    BY <1>0, CapKept
  <1>2. ASSUME NEW d \in Calls, d # c PROVE CapFits(d)'
    BY <1>0, <1>1, <1>2, OthersFit DEF Others
  <1> QED BY <1>1, <1>2 DEF CapInvariant

\* The lock is taken with the sum, and judged at once.
LEMMA BeginOrderTxKeepsCap ==
    ASSUME GateInvariant, CapInvariant, NEW c \in Calls, BeginOrderTx(c)
    PROVE  CapInvariant'
  <1> DEFINE r == call[c].request
  <1>1. /\ call \in [Calls -> CallRecord] /\ call[c] \in CallRecord
        /\ call[c].pc = "catalog" /\ r \in Requests
    BY DEF GateInvariant, TypeOK, CallRecord, CallFits, BeginOrderTx, Viewed, At
  <1>2. r.agent \in Agents /\ r.cart \in Carts
    BY <1>1, ItsRequest DEF GateInvariant
  <1>3. /\ agentLock[r.agent] = NoCall
        /\ agentLock' = [agentLock EXCEPT ![r.agent] = c]
        /\ UNCHANGED <<status, paymentMandates>>
    BY DEF BeginOrderTx, LockFree, orderVars, chainVars
  <1>4. PICK over \in BOOLEAN : over = OverCap(r.agent, r.cart)
    <2>1. OverCap(r.agent, r.cart) \in BOOLEAN
      BY SMT DEF OverCap
    <2> QED BY <2>1, Zenon
  <1> DEFINE next == [call[c] EXCEPT !.pc = "order_tx", !.overCap = over]
  <1>5. next.pc = "order_tx" /\ next.request = r /\ next.overCap = over
    BY <1>1 DEF CallRecord
  <1>6. call' = [call EXCEPT ![c] = next]
    BY <1>4 DEF BeginOrderTx
  <1> HIDE DEF next
  <1>7. call'[c] = next /\ Others(c)
    BY <1>1, <1>6 DEF Others
  <1>8. /\ IsFiniteSet(paymentMandates)' /\ CapHolds'
        /\ \A a \in Agents : Spent(a) \in Nat /\ Spent(a)' \in Nat /\ Spent(a)' <= Spent(a)
    BY <1>3, CapKept
  <1>9. agentLock'[r.agent] = c /\ \A a \in Agents : a # r.agent => agentLock'[a] = agentLock[a]
    BY <1>2, <1>3 DEF GateInvariant, TypeOK
  <1>10. CapFits(c)'
    <2>1. PICK a \in Agents, k \in Carts : a = r.agent /\ k = r.cart
      BY <1>2
    <2>2. /\ Total(k) \in Nat /\ Cap[a] \in Nat
          /\ Spent(a) \in Nat /\ Spent(a)' \in Nat /\ Spent(a)' <= Spent(a)
      BY <1>8, TotalIsNat, SubmissionAssumption
    <2>3. ~over => ~(Spent(a) + Total(k) > Cap[a])
      BY <1>4, <2>1 DEF OverCap
    <2>4. ~over => ~(Spent(a)' + Total(k) > Cap[a])
      BY <2>2, <2>3
    <2>5. ~over => ~OverCap(a, k)'
      BY <2>4 DEF OverCap, Total
    <2> QED BY <1>5, <1>7, <1>9, <2>1, <2>5 DEF CapFits, At
  <1>11. ASSUME NEW d \in Calls, d # c PROVE CapFits(d)'
    <2>1. At(d, "order_tx") => /\ call[d].request.agent \in Agents
                              /\ agentLock[call[d].request.agent] = d
      BY ItsRequest DEF GateInvariant, CallFits, CapInvariant, CapFits, At
    <2>2. At(d, "order_tx") => call[d].request.agent # r.agent
      BY <1>3, <2>1, SubmissionAssumption
    <2> QED BY <1>3, <1>7, <1>8, <1>9, <1>11, <2>1, <2>2, OthersFit DEF Others
  <1> QED BY <1>8, <1>10, <1>11 DEF CapInvariant

\* A call that leaves the order transaction releases no lock but its own.
LEMMA LeavingFreesOwnLock ==
    ASSUME GateInvariant, CapInvariant, NEW c \in Calls, At(c, "order_tx"), EndTx(c),
           NEW d \in Calls, d # c, At(d, "order_tx")
    PROVE  /\ call[d].request.agent \in Agents
           /\ call[d].request.agent # call[c].request.agent
           /\ agentLock'[call[d].request.agent] = agentLock[call[d].request.agent]
  <1>1. call[d].request.agent \in Agents /\ call[c].request.agent \in Agents
    BY ItsRequest DEF GateInvariant, CallFits, At
  <1>2. call[d].request.agent # call[c].request.agent
    BY LockIsExclusive
  <1> QED BY <1>1, <1>2 DEF EndTx, GateInvariant, TypeOK

\* A refusal inside the transaction rolls back: nothing is spent.
LEMMA RollbackKeepsCap ==
    ASSUME GateInvariant, CapInvariant, NEW c \in Calls,
           RefuseOverCap(c) \/ RefuseRacedIntent(c) \/ HitKeyIndex(c)
    PROVE  CapInvariant'
  <1>1. At(c, "order_tx") /\ EndTx(c) /\ UNCHANGED <<status, paymentMandates>>
    BY DEF RefuseOverCap, RefuseRacedIntent, HitKeyIndex, RefuseInTx, orderVars, chainVars
  <1>2. call'[c].pc \in Outside /\ Others(c)
    <2>1. CASE RefuseOverCap(c) \/ RefuseRacedIntent(c)
      BY <2>1, RefuseMoves
         DEF RefuseOverCap, RefuseRacedIntent, RefuseInTx, RefusalCode, GateInvariant
    <2>2. CASE HitKeyIndex(c)
      BY <2>2, GotoCall DEF HitKeyIndex, Outside, CallPc, GateInvariant
    <2> QED BY <2>1, <2>2
  <1>3. CapFits(c)'
    BY <1>2 DEF CapFits, At, Outside
  <1>4. /\ IsFiniteSet(paymentMandates)' /\ CapHolds'
        /\ \A a \in Agents : Spent(a) \in Nat /\ Spent(a)' \in Nat /\ Spent(a)' <= Spent(a)
    BY <1>1, CapKept
  <1>5. ASSUME NEW d \in Calls, d # c PROVE CapFits(d)'
    BY <1>1, <1>2, <1>4, <1>5, LeavingFreesOwnLock, OthersFit DEF Others
  <1> QED BY <1>3, <1>4, <1>5 DEF CapInvariant

\* The insert spends what the sum under the lock left room for.
LEMMA CommitOrderKeepsCap ==
    ASSUME GateInvariant, CapInvariant, NEW c \in Calls, CommitOrder(c)
    PROVE  CapInvariant'
  <1> DEFINE r == call[c].request
  <1>0. TypeOK
    BY DEF GateInvariant
  <1>1. /\ At(c, "order_tx") /\ ~call[c].overCap /\ EndTx(c)
        /\ status' = [status EXCEPT ![c] = "created"]
        /\ paymentMandates' = paymentMandates \cup {MandateFor(c, c)}
    BY DEF CommitOrder
  <1>2. r \in Requests /\ NoTrace(c)
    BY <1>1 DEF GateInvariant, CallFits, At, Uncommitted
  <1>3. r.agent \in Agents /\ r.key \in Keys /\ r.cart \in Carts
    BY <1>0, <1>2, ItsRequest
  <1>4. PICK new : new = MandateFor(c, c)
    OBVIOUS
  <1>5. /\ new \in Mandate /\ new.agent = r.agent /\ new.cart = r.cart /\ new.order = c
        /\ new \notin paymentMandates
    BY <1>2, <1>3, <1>4 DEF MandateFor, Mandate, NoTrace
  <1>6. \A m \in paymentMandates : m.order \in Calls /\ m.order # c /\ m \in Mandate
    BY <1>0, <1>2 DEF TypeOK, Mandate, NoTrace
  <1>7. status'[c] = "created" /\ \A o \in Calls : o # c => status'[o] = status[o]
    BY <1>0, <1>1 DEF TypeOK
  <1>8. paymentMandates' = paymentMandates \cup {new}
    BY <1>1, <1>4
  <1>9. IsFiniteSet(paymentMandates')
    BY <1>8, FS_AddElement DEF CapInvariant
  <1>10. ASSUME NEW a \in Agents
         PROVE  /\ Spent(a) \in Nat
                /\ Spent(a)' = IF a = r.agent THEN Spent(a) + Total(r.cart) ELSE Spent(a)
    <2>1. PICK M : M = Counting(a)
      OBVIOUS
    <2>2. M \in SUBSET Mandate /\ M \in SUBSET paymentMandates
      BY <1>6, <2>1 DEF Counting
    <2>3. IsFiniteSet(M)
      BY <2>2, FS_Subset DEF CapInvariant
    <2>4. Counting(a)' = IF a = r.agent THEN M \cup {new} ELSE M
      BY <1>5, <1>6, <1>7, <1>8, <2>1 DEF Counting
    <2>5. Spent(a) = Amount(M)
      BY <2>1, SpentIsAmount
    <2>6. Amount(M) \in Nat
      BY <2>2, <2>3, AmountOfFewer
    <2>7. Spent(a)' = Amount(Counting(a)')
      BY SpentIsAmount
    <2>8. Amount(M \cup {new}) = Amount(M) + Total(r.cart)
      BY <1>5, <2>2, <2>3, AmountOfOneMore
    <2>9. CASE a = r.agent
      BY <2>4, <2>5, <2>6, <2>7, <2>8, <2>9
    <2>10. CASE a # r.agent
      BY <2>4, <2>5, <2>6, <2>7, <2>10
    <2> QED BY <2>9, <2>10
  <1>11. Spent(r.agent) + Total(r.cart) <= Cap[r.agent]
    <2>1. ~(Spent(r.agent) + Total(r.cart) > Cap[r.agent])
      BY <1>1 DEF CapInvariant, CapFits, OverCap
    <2>2. Spent(r.agent) \in Nat /\ Total(r.cart) \in Nat /\ Cap[r.agent] \in Nat
      BY <1>3, <1>10, TotalIsNat, SubmissionAssumption
    <2> QED BY <2>1, <2>2
  <1>12. CapHolds'
    <2>1. \A a \in Agents : Spent(a)' <= Cap[a]
      BY <1>10, <1>11 DEF CapInvariant, CapHolds
    <2> QED BY <2>1 DEF CapHolds
  <1>13. call'[c].pc = "placed" /\ Others(c)
    BY <1>0, GotoCall DEF CommitOrder, CallPc
  <1>14. CapFits(c)'
    BY <1>7, <1>13 DEF CapFits, At
  <1>15. ASSUME NEW d \in Calls, d # c PROVE CapFits(d)'
    <2>1. ASSUME NEW a \in Agents, At(d, "order_tx"), call[d].request.agent = a
          PROVE  /\ agentLock'[a] = agentLock[a]
                 /\ Spent(a) \in Nat /\ Spent(a)' \in Nat /\ Spent(a)' <= Spent(a)
      <3>1. /\ call[d].request.agent \in Agents
            /\ call[d].request.agent # r.agent
            /\ agentLock'[call[d].request.agent] = agentLock[call[d].request.agent]
        BY <1>1, <1>15, <2>1, LeavingFreesOwnLock
      <3>2. Spent(a) \in Nat /\ Spent(a)' = Spent(a)
        BY <1>10, <2>1, <3>1
      <3> QED BY <2>1, <3>1, <3>2
    <2> QED BY <1>7, <1>13, <1>15, <2>1, OthersFit DEF Others
  <1> QED BY <1>9, <1>12, <1>14, <1>15 DEF CapInvariant

\* The gateway's part: a link is stored on an Order that is still created.
LEMMA LinkStepKeepsCap ==
    ASSUME GateInvariant, CapInvariant, NEW c \in Calls, LinkStep(c)
    PROVE  CapInvariant'
  <1>0. TypeOK
    BY DEF GateInvariant
  <1>1. call[c].pc \in {"placed", "attempted", "created_link"} /\ status[c] = "created"
    BY DEF LinkStep, AttemptLink, CreateLink, CreateLinkFails, StoreLink, At, CapInvariant, CapFits
  <1>2. UNCHANGED <<agentLock, paymentMandates>> /\ Others(c)
        /\ \/ call'[c].pc \in {"attempted", "created_link", "answered"} /\ UNCHANGED status
           \/ /\ call'[c].pc = "answered"
              /\ status' = [status EXCEPT ![c] = "awaiting_payment"]
    <2>1. CASE AttemptLink(c)
      BY <1>0, <2>1, GotoCall DEF AttemptLink, Private, CallPc, orderVars, chainVars
    <2>2. CASE CreateLink(c)
      BY <1>0, <2>2, GotoCall DEF CreateLink, CallPc, orderVars, chainVars
    <2>3. CASE CreateLinkFails(c)
      BY <1>0, <2>3, AnswerCall DEF CreateLinkFails, Answers, orderVars, chainVars
    <2>4. CASE StoreLink(c)
      BY <1>0, <2>4, AnswerCall DEF StoreLink, Answers, chainVars
    <2> QED BY <2>1, <2>2, <2>3, <2>4 DEF LinkStep
  <1>3. \A o \in Calls : o # c => status'[o] = status[o]
    BY <1>0, <1>2 DEF TypeOK
  <1>4. \A o \in Calls : status[o] \in Uncounted => status'[o] \in Uncounted
    BY <1>1, <1>3 DEF Uncounted
  <1>5. /\ IsFiniteSet(paymentMandates)' /\ CapHolds'
        /\ \A a \in Agents : Spent(a) \in Nat /\ Spent(a)' \in Nat /\ Spent(a)' <= Spent(a)
    BY <1>2, <1>4, CapKept
  <1>6. CapFits(c)'
    BY <1>1, <1>2 DEF CapFits, At
  <1>7. ASSUME NEW d \in Calls, d # c PROVE CapFits(d)'
    BY <1>2, <1>3, <1>5, <1>7, OthersFit DEF Others
  <1> QED BY <1>5, <1>6, <1>7 DEF CapInvariant

\* Settlements, the catalog and steps that change nothing move no call.
LEMMA ElsewhereKeepsCap ==
    ASSUME GateInvariant, CapInvariant, UNCHANGED <<paymentMandates, agentLock, call>>,
           \/ UNCHANGED status
           \/ \E o \in Calls : Settle(o)
    PROVE  CapInvariant'
  <1>0. TypeOK
    BY DEF GateInvariant
  <1> UNCHANGED paymentMandates /\ UNCHANGED agentLock /\ UNCHANGED call
    OBVIOUS
  <1>1. /\ \A o \in Calls : status[o] \in Uncounted => status'[o] \in Uncounted
        /\ \A o \in Calls : status'[o] = status[o] \/ status[o] # "created"
    BY <1>0 DEF Settle, Uncounted, TypeOK
  <1>2. /\ IsFiniteSet(paymentMandates)' /\ CapHolds'
        /\ \A a \in Agents : Spent(a) \in Nat /\ Spent(a)' \in Nat /\ Spent(a)' <= Spent(a)
    BY <1>1, CapKept
  <1>3. ASSUME NEW d \in Calls PROVE CapFits(d)'
    BY <1>1, <1>2, <1>3, OthersFit
  <1> QED BY <1>2, <1>3 DEF CapInvariant

\* A crash spends nothing, and a lost call no longer counts on its room.
LEMMA CrashKeepsCap ==
    ASSUME GateInvariant, CapInvariant, Crash
    PROVE  CapInvariant'
  <1>1. UNCHANGED <<status, paymentMandates>>
    BY DEF Crash, orderVars, chainVars
  <1>2. IsFiniteSet(paymentMandates)' /\ CapHolds'
    BY <1>1, CapKept
  <1>3. ASSUME NEW c \in Calls PROVE CapFits(c)'
    <2>1. call[c] \in CallRecord
      BY DEF GateInvariant, TypeOK, CallRecord
    <2>2. call'[c].pc \in Ended \cup {"dropped"}
      BY <2>1 DEF Crash, CallRecord
    <2> QED BY <2>2 DEF CapFits, At, Ended
  <1> QED BY <1>2, <1>3 DEF CapInvariant

\* Every step keeps every Agent within its cap.
LEMMA StepKeepsCap ==
    ASSUME GateInvariant, CapInvariant, [Next]_vars
    PROVE  CapInvariant'
  <1>0. TypeOK
    BY DEF GateInvariant
  <1>1. ASSUME NEW c \in Calls,
               \/ GateStep(c)
               \/ \E r \in Requests : Submit(c, r) \/ RejectMalformed(c, r)
        PROVE  CapInvariant'
    <2>1. call'[c].pc \in Outside /\ Others(c) /\ Private
      BY <1>0, <1>1, GateStepMoves
    <2>2. CapFits(c)'
      BY <2>1 DEF CapFits, At, Outside
    <2> QED BY <2>1, <2>2, PrivateKeepsCap DEF Private
  <1>2. ASSUME NEW c \in Calls, TxStep(c) PROVE CapInvariant'
    BY <1>2, BeginOrderTxKeepsCap, RollbackKeepsCap, CommitOrderKeepsCap DEF TxStep
  <1>3. ASSUME NEW c \in Calls, LinkStep(c) PROVE CapInvariant'
    BY <1>3, LinkStepKeepsCap
  <1>4. ASSUME NEW o \in Calls, Settle(o) PROVE CapInvariant'
    BY <1>4, ElsewhereKeepsCap DEF Settle, chainVars
  <1>5. ASSUME NEW v \in Variants, Sell(v) \/ Archive(v) \/ \E p \in Prices : Reprice(v, p)
        PROVE  CapInvariant'
    <2>1. UNCHANGED <<status, paymentMandates, agentLock, call>>
      BY <1>5 DEF Sell, Archive, Reprice, MoveCatalog, orderVars, chainVars
    <2> QED BY <2>1, ElsewhereKeepsCap
  <1>6. CASE Crash
    BY <1>6, CrashKeepsCap
  <1>7. CASE UNCHANGED vars
    BY <1>7, ElsewhereKeepsCap DEF vars, orderVars, chainVars
  <1> QED BY <1>1, <1>2, <1>3, <1>4, <1>5, <1>6, <1>7 DEF Next, CallStep

(* Captured and pending spend of an Agent never exceeds its Cap, however   *)
(* many submissions of it run at once, and whatever settles or restarts in *)
(* between.                                                                *)
THEOREM CapIsKept == Spec => []CapHolds
  <1>1. Init => CapInvariant
    <2> SUFFICES ASSUME Init PROVE CapInvariant
      OBVIOUS
    <2>1. paymentMandates = {} /\ IsFiniteSet(paymentMandates)
      BY FS_EmptySet DEF Init
    <2>2. ASSUME NEW a \in Agents PROVE Spent(a) = 0
      <3>1. Counting(a) = {}
        BY <2>1 DEF Counting
      <3>2. Spent(a) = Amount(Counting(a))
        BY SpentIsAmount
      <3>3. Amount({}) = 0
        BY SumOfNothing DEF Amount
      <3> QED BY <3>1, <3>2, <3>3
    <2>3. CapHolds
      BY <2>2, SubmissionAssumption DEF CapHolds
    <2>4. \A c \in Calls : CapFits(c)
      BY DEF Init, Idle, CapFits, At
    <2> QED BY <2>1, <2>3, <2>4 DEF CapInvariant
  <1>2. GateInvariant /\ CapInvariant /\ [Next]_vars => CapInvariant'
    BY StepKeepsCap
  <1>3. CapInvariant => CapHolds
    BY DEF CapInvariant
  <1> QED BY <1>1, <1>2, <1>3, GateHolds, PTL DEF Spec
=============================================================================
