--------------------------- MODULE StorefrontProofs ---------------------------
(***************************************************************************)
(* That the whole store is well typed, whatever its callers, its rows and  *)
(* its log: THEOREM StoreTypes.  The types of the rows and the uniqueness  *)
(* of the sequence numbers rest on what a request knows while it is open:  *)
(* the transaction it will commit, and the Order or Cart it goes on with.  *)
(* On it rests what the rows have to do with the log, and what a page of   *)
(* several queries knows between two of them: LEMMA StepKeepsReads.  What  *)
(* it says of an answer is LEMMA InvariantReads; that the events of a page *)
(* are the Order's, whose row LedgerProofs adds to them.                   *)
(***************************************************************************)
EXTENDS Storefront, TLAPS

\* The steps that go on with an Order, and those behind a commit.
OrderSteps ==
    {"attempt_link", "create_link", "issue_link", "apply", "fulfil", "refund", "refund_call",
     "refund_record", "refund_failed"}

AfterCommit == {"idle", "attempt_link", "create_link", "refund", "refund_call"}

\* The steps that find their transaction open.
InTx == {"commit", "apply", "fulfil"}

JobFields == {"step", "call", "after", "seen", "tx", "reply"}

TxFields == {"locks", "writes", "events"}

KnownOrder(w) == job[w].call.order \in DOMAIN RowsOf(db, "orders")

OwnOrders(w) == DOMAIN RowsOf(job[w].tx.writes, "orders")

\* The request's record, and the transaction it has open.
JobShape(w) ==
    /\ DOMAIN job[w] = JobFields
    /\ DOMAIN job[w].tx = TxFields
    /\ RowsFit(job[w].tx.writes)
    /\ job[w].tx # NoTx => job[w].step \in InTx
    /\ job[w].after \in AfterCommit

\* Who asked, and for what.
CallKnown(w) ==
    /\ job[w].step # "idle" =>
          \/ CallFits(job[w].call)
          \/ job[w].call.call = "webhook" /\ job[w].call.hook.order \in DOMAIN RowsOf(db, "orders")
    /\ job[w].step \in ClientCalls => job[w].call.call = job[w].step

\* The rows its next step takes for granted.
RowsKnown(w) ==
    /\ job[w].step = "place_order" => job[w].call.cart \in DOMAIN RowsOf(db, "carts")
    /\ job[w].step \in OrderSteps => KnownOrder(w)
    /\ job[w].step = "commit" /\ job[w].after \in OrderSteps =>
          KnownOrder(w) \/ job[w].call.order \in OwnOrders(w)
    /\ job[w].step = "fulfil" => job[w].call.order \in OwnOrders(w)

JobFits(w) == JobShape(w) /\ CallKnown(w) /\ RowsKnown(w)

\* The types of the sequence numbers.
Numbers ==
    /\ drawn \in Nat
    /\ DOMAIN log \subseteq 1 .. drawn
    /\ \A w \in Workers :
          /\ DOMAIN job[w].tx.events \subseteq (1 .. drawn) \ DOMAIN log
          /\ \A v \in Workers \ {w} :
                DOMAIN job[v].tx.events \cap DOMAIN job[w].tx.events = {}

\* The types of what the gateway holds.
GatewayFits ==
    /\ \A o \in DOMAIN links :
          /\ {"captured", "refunded"} \subseteq DOMAIN links[o]
          /\ links[o].captured \in BOOLEAN /\ links[o].refunded \in BOOLEAN
    /\ \A hook \in hooks : hook.order \in DOMAIN RowsOf(db, "orders")

\* No Variant ever leaves the store.
CatalogWhole == DOMAIN RowsOf(db, "variants") = DOMAIN Seeded.variants

\* The inductive invariant.
StoreInvariant ==
    /\ DOMAIN db = Tables /\ RowsFit(db) /\ CatalogWhole
    /\ DOMAIN job = Workers
    /\ \A w \in Workers : JobFits(w) /\ job[w].step \in Steps
    /\ Numbers
    /\ GatewayFits
    /\ at \in [Clients -> Nat]
    /\ rollbacks \in 0 .. MaxRollbacks

-----------------------------------------------------------------------------
(***************************************************************************)
(* Rows.                                                                   *)
(***************************************************************************)
\* Rows over rows are those of both, table by table.
LEMMA OverRows ==
    ASSUME NEW new, NEW old, NEW t
    PROVE  RowsOf(Over(new, old), t) = RowsOf(new, t) ++ RowsOf(old, t)
  <1>1. CASE t \in DOMAIN new \cup DOMAIN old
    BY <1>1 DEF Over, RowsOf
  <1>2. CASE t \notin DOMAIN new \cup DOMAIN old
    <2>1. RowsOf(Over(new, old), t) = <<>> /\ RowsOf(new, t) = <<>> /\ RowsOf(old, t) = <<>>
      BY <1>2 DEF Over, RowsOf
    <2> QED BY <2>1 DEF ++
  <1> QED BY <1>1, <1>2

\* Fitting rows over fitting rows fit.
LEMMA BothFit ==
    ASSUME NEW f, NEW g
    PROVE  /\ DOMAIN (f ++ g) = DOMAIN f \cup DOMAIN g
           /\ OrdersFit(f) /\ OrdersFit(g) => OrdersFit(f ++ g)
           /\ CartsFit(f) /\ CartsFit(g) => CartsFit(f ++ g)
           /\ VariantsFit(f) /\ VariantsFit(g) => VariantsFit(f ++ g)
  <1>1. \A x \in DOMAIN (f ++ g) :
            \/ x \in DOMAIN f /\ (f ++ g)[x] = f[x]
            \/ x \in DOMAIN g /\ (f ++ g)[x] = g[x]
    BY DEF ++
  <1>2. DOMAIN (f ++ g) = DOMAIN f \cup DOMAIN g
    BY DEF ++
  <1> QED BY <1>1, <1>2 DEF OrdersFit, CartsFit, VariantsFit

\* So what a transaction leaves in the tables fits, when both did.
LEMMA OverFits ==
    ASSUME NEW new, NEW old, RowsFit(new), RowsFit(old)
    PROVE  RowsFit(Over(new, old))
  <1>1. DOMAIN Over(new, old) \subseteq Tables
    BY DEF RowsFit, Over
  <1>2. \A t : RowsOf(Over(new, old), t) = RowsOf(new, t) ++ RowsOf(old, t)
    BY OverRows
  <1>3. OrdersFit(RowsOf(new, "orders") ++ RowsOf(old, "orders"))
    BY BothFit DEF RowsFit
  <1>4. CartsFit(RowsOf(new, "carts") ++ RowsOf(old, "carts"))
    BY BothFit DEF RowsFit
  <1>5. VariantsFit(RowsOf(new, "variants") ++ RowsOf(old, "variants"))
    BY BothFit DEF RowsFit
  <1> QED BY <1>1, <1>2, <1>3, <1>4, <1>5 DEF RowsFit

\* A transaction that writes nothing fits.
LEMMA NothingFits ==
    /\ RowsFit(<<>>) /\ \A t : RowsOf(<<>>, t) = <<>> /\ DOMAIN RowsOf(<<>>, t) = {}
    /\ DOMAIN NoTx = TxFields /\ NoTx.writes = <<>> /\ NoTx.events = <<>> /\ DOMAIN NoTx.events = {}
    /\ DOMAIN Idle = JobFields /\ Idle.tx = NoTx /\ Idle.step = "idle" /\ Idle.after = "idle"
  <1>1. DOMAIN << >> = {} /\ \A t : RowsOf(<<>>, t) = <<>>
    BY DEF RowsOf
  <1>2. OrdersFit(<<>>) /\ CartsFit(<<>>) /\ VariantsFit(<<>>)
    BY <1>1 DEF OrdersFit, CartsFit, VariantsFit
  <1>3. RowsFit(<<>>)
    BY <1>1, <1>2 DEF RowsFit
  <1>4. /\ DOMAIN NoTx = TxFields /\ NoTx.writes = <<>> /\ NoTx.events = <<>>
        /\ DOMAIN Idle = JobFields /\ Idle.tx = NoTx /\ Idle.step = "idle" /\ Idle.after = "idle"
    BY DEF NoTx, Idle, TxFields, JobFields
  <1> QED BY <1>1, <1>3, <1>4

-----------------------------------------------------------------------------
(***************************************************************************)
(* Steps, by what they leave alone.                                        *)
(***************************************************************************)
\* No Order and no Cart is ever taken out of the store.
Grows ==
    /\ DOMAIN RowsOf(db, "orders") \subseteq DOMAIN RowsOf(db', "orders")
    /\ DOMAIN RowsOf(db, "carts") \subseteq DOMAIN RowsOf(db', "carts")

OneMoves(w) == DOMAIN job' = Workers /\ \A v \in Workers \ {w} : job'[v] = job[v]

\* A request that is not the step's keeps what it knows.
LEMMA OthersKeep ==
    ASSUME NEW v, JobFits(v), job'[v] = job[v], Grows
    PROVE  JobFits(v)'
  <1>1. JobShape(v)'
    BY DEF JobFits, JobShape
  <1>2. CallKnown(v)'
    BY DEF JobFits, CallKnown, Grows
  <1>3. RowsKnown(v)'
    BY DEF JobFits, RowsKnown, Grows, KnownOrder, OwnOrders
  <1> QED BY <1>1, <1>2, <1>3 DEF JobFits

\* The invariant says more than the types.
LEMMA InvariantTypes == StoreInvariant => TypeOK
  <1> SUFFICES ASSUME StoreInvariant PROVE TypeOK
    OBVIOUS
  <1>1. AfterCommit \subseteq Steps
    BY DEF AfterCommit, Steps
  <1>2. RowsOf(db, "orders") = db.orders /\ RowsOf(db, "variants") = db.variants
    BY DEF StoreInvariant, RowsOf, Tables
  <1>3. /\ \A o \in DOMAIN db.orders : db.orders[o].status \in OrderStatuses
        /\ \A v \in DOMAIN db.variants : db.variants[v].stock \in Nat
    BY <1>2 DEF StoreInvariant, RowsFit, OrdersFit, VariantsFit, OrderFits, VariantFits
  <1>4. \A w \in Workers :
           /\ job[w].step \in Steps /\ job[w].after \in Steps
           /\ DOMAIN job[w].tx.events \subseteq (1 .. drawn) \ DOMAIN log
           /\ \A v \in Workers \ {w} :
                 DOMAIN job[v].tx.events \cap DOMAIN job[w].tx.events = {}
    BY <1>1 DEF StoreInvariant, JobFits, JobShape, Numbers
  <1>5. \A hook \in hooks : hook.order \in DOMAIN db.orders
    BY <1>2 DEF StoreInvariant, GatewayFits
  <1> QED BY <1>3, <1>4, <1>5 DEF TypeOK, StoreInvariant, Numbers, GatewayFits

-----------------------------------------------------------------------------
(***************************************************************************)
(* The two kinds of a handler's steps.                                     *)
(***************************************************************************)
\* What a step leaves of the request when its transaction stays as it is.
Moved(w, j) ==
    /\ job' = [job EXCEPT ![w] = j]
    /\ DOMAIN j = JobFields
    /\ j.call = job[w].call /\ j.after = job[w].after /\ j.tx = job[w].tx

\* Outside its transactions a request moves on, and goes on only with rows it has
\* found.
LEMMA OutsideKeeps ==
    ASSUME StoreInvariant, NEW w \in Workers, NEW j, Moved(w, j),
           job[w].step \notin InTx \cup {"idle"},
           j.step \in Steps \ (InTx \cup ClientCalls),
           j.step = "place_order" => job[w].call.cart \in DOMAIN RowsOf(db, "carts"),
           j.step \in OrderSteps => KnownOrder(w),
           UNCHANGED <<db, log, drawn, at, rollbacks>>,
           GatewayFits'
    PROVE  StoreInvariant'
  <1> USE DEF StoreInvariant
  <1>1. OneMoves(w) /\ job'[w] = j
    BY DEF Moved, OneMoves
  <1>2. Grows
    BY DEF Grows
  <1>3. \A v \in Workers \ {w} : JobFits(v)' /\ job'[v].step \in Steps
    BY <1>1, <1>2, OthersKeep DEF OneMoves
  <1>4. JobFits(w)'
    <2>0. JobFits(w) /\ job[w].tx = NoTx
      BY DEF JobFits, JobShape
    <2>1. JobShape(w)'
      BY <1>1, <2>0 DEF Moved, JobFits, JobShape
    <2>2. CallKnown(w)'
      BY <1>1, <2>0 DEF Moved, JobFits, CallKnown
    <2>3. RowsKnown(w)'
      BY <1>1 DEF Moved, RowsKnown, KnownOrder, OwnOrders, InTx
    <2> QED BY <2>1, <2>2, <2>3 DEF JobFits
  <1>5. \A v \in Workers : job'[v].tx = job[v].tx
    BY <1>1 DEF Moved, OneMoves
  <1>6. Numbers'
    BY <1>5 DEF Numbers
  <1>7. /\ DOMAIN db' = Tables /\ RowsFit(db') /\ CatalogWhole' /\ DOMAIN job' = Workers
        /\ at' \in [Clients -> Nat] /\ rollbacks' \in 0 .. MaxRollbacks
    BY <1>1 DEF OneMoves, CatalogWhole
  <1>8. \A v \in Workers : JobFits(v)' /\ job'[v].step \in Steps
    BY <1>1, <1>3, <1>4
  <1> QED BY <1>6, <1>7, <1>8

\* Inside one it takes locks and adds writes, and its events draw numbers that
\* nobody has.
LEMMA ExecuteKeeps ==
    ASSUME StoreInvariant, NEW w \in Workers,
           NEW locks, NEW writes, NEW events, NEW step, NEW after, NEW reply,
           Execute(w, locks, writes, events, step, after, reply),
           job[w].step # "idle",
           Len(events) \in Nat, RowsFit(writes),
           step \in {"commit", "fulfil"}, after \in AfterCommit,
           after \in OrderSteps \/ step = "fulfil" =>
               KnownOrder(w) \/ (step = "commit" /\ job[w].call.order \in DOMAIN RowsOf(writes, "orders")),
           step = "fulfil" => job[w].call.order \in DOMAIN RowsOf(writes, "orders"),
           UNCHANGED <<links, hooks>>
    PROVE  StoreInvariant'
  <1> USE DEF StoreInvariant
  <1> DEFINE numbers == drawn + 1 .. drawn + Len(events)
             fresh == [n \in numbers |-> events[n - drawn]]
             wrote == Over(writes, job[w].tx.writes)
  <1>0. JobFits(w) /\ drawn \in Nat
    BY DEF Numbers
  <1>1. /\ OneMoves(w) /\ DOMAIN job'[w] = JobFields
        /\ job'[w].step = step /\ job'[w].after = after /\ job'[w].call = job[w].call
        /\ DOMAIN job'[w].tx = TxFields
        /\ job'[w].tx.writes = wrote
        /\ job'[w].tx.events = fresh ++ job[w].tx.events
    BY <1>0 DEF Execute, OneMoves, JobFits, JobShape, JobFields, TxFields
  <1>2. UNCHANGED <<db, log, at, rollbacks>> /\ drawn' = drawn + Len(events)
    BY DEF Execute
  <1>3. \A v \in Workers \ {w} : JobFits(v)' /\ job'[v].step \in Steps
    BY <1>1, <1>2, OthersKeep DEF OneMoves, Grows
  <1>4. RowsFit(wrote) /\ RowsOf(wrote, "orders") = RowsOf(writes, "orders") ++ RowsOf(job[w].tx.writes, "orders")
    BY <1>0, OverFits, OverRows DEF JobFits, JobShape
  <1>5. DOMAIN RowsOf(writes, "orders") \subseteq DOMAIN RowsOf(wrote, "orders")
    <2> HIDE DEF wrote
    <2> QED BY <1>4 DEF ++
  <1>6. JobFits(w)'
    <2> HIDE DEF wrote
    <2>1. JobShape(w)'
      BY <1>1, <1>4 DEF JobShape, InTx
    <2>2. CallKnown(w)'
      BY <1>0, <1>1, <1>2 DEF JobFits, CallKnown, ClientCalls
    <2>3. RowsKnown(w)'
      BY <1>1, <1>2, <1>5 DEF RowsKnown, KnownOrder, OwnOrders, OrderSteps
    <2> QED BY <2>1, <2>2, <2>3 DEF JobFits
  <1>7. DOMAIN job'[w].tx.events = numbers \cup DOMAIN job[w].tx.events
    BY <1>1 DEF ++
  <1>8. Numbers'
    <2> HIDE DEF fresh
    <2>1. /\ drawn' \in Nat /\ drawn <= drawn' /\ numbers \subseteq 1 .. drawn'
          /\ numbers \cap (1 .. drawn) = {}
      BY <1>0, <1>2
    <2>2. 1 .. drawn \subseteq 1 .. drawn'
      BY <2>1, <1>0
    <2> HIDE DEF numbers
    <2>3. \A v \in Workers : DOMAIN job[v].tx.events \subseteq (1 .. drawn) \ DOMAIN log
      BY DEF Numbers
    <2>4. \A v \in Workers \ {w} : job'[v].tx.events = job[v].tx.events
      BY <1>1 DEF OneMoves
    <2>5. DOMAIN log \subseteq 1 .. drawn
      BY DEF Numbers
    <2>6. DOMAIN log' \subseteq 1 .. drawn'
      BY <2>2, <2>5, <1>2
    <2>7. \A v \in Workers : DOMAIN job'[v].tx.events \subseteq (1 .. drawn') \ DOMAIN log'
      BY <1>2, <1>7, <2>1, <2>2, <2>3, <2>4, <2>5
    <2>8. \A u \in Workers : \A v \in Workers \ {u} :
              DOMAIN job'[v].tx.events \cap DOMAIN job'[u].tx.events = {}
      <3>1. \A u \in Workers : \A v \in Workers \ {u} :
                DOMAIN job[v].tx.events \cap DOMAIN job[u].tx.events = {}
        BY DEF Numbers
      <3> QED BY <1>7, <2>1, <2>3, <2>4, <3>1
    <2> QED BY <2>1, <2>6, <2>7, <2>8 DEF Numbers
  <1>9. GatewayFits'
    BY <1>2 DEF GatewayFits
  <1>10. /\ DOMAIN db' = Tables /\ RowsFit(db') /\ CatalogWhole' /\ DOMAIN job' = Workers
         /\ at' \in [Clients -> Nat] /\ rollbacks' \in 0 .. MaxRollbacks
    BY <1>1, <1>2 DEF OneMoves, CatalogWhole
  <1>11. \A v \in Workers : JobFits(v)' /\ job'[v].step \in Steps
    BY <1>1, <1>3, <1>6 DEF Steps
  <1> QED BY <1>8, <1>9, <1>10, <1>11

\* The gateway holds what it held.
LEMMA GatewaySame ==
    ASSUME StoreInvariant, UNCHANGED <<db, links, hooks>>
    PROVE  GatewayFits'
  BY DEF StoreInvariant, GatewayFits

\* A step that only moves on, reads or answers.
LEMMA MovesOn ==
    ASSUME StoreInvariant, NEW w \in Workers, NEW step,
           \/ Go(w, step)
           \/ \E seen : Read(w, seen, step)
           \/ step = "idle" /\ \E reply : Reply(w, reply),
           job[w].step \notin InTx \cup {"idle"},
           step \in Steps \ (InTx \cup ClientCalls),
           step = "place_order" => job[w].call.cart \in DOMAIN RowsOf(db, "carts"),
           step \in OrderSteps => KnownOrder(w),
           GatewayFits'
    PROVE  StoreInvariant'
  <1>0. DOMAIN job = Workers /\ DOMAIN job[w] = JobFields
    BY DEF StoreInvariant, JobFits, JobShape
  <1>1. CASE Go(w, step)
    <2>1. Moved(w, [job[w] EXCEPT !.step = step])
      BY <1>0, <1>1 DEF Go, Moved, JobFields
    <2>2. [job[w] EXCEPT !.step = step].step = step
      BY <1>0 DEF JobFields
    <2>3. UNCHANGED <<db, log, drawn, at, rollbacks>>
      BY <1>1 DEF Go
    <2> QED BY <2>1, <2>2, <2>3, OutsideKeeps
  <1>2. ASSUME NEW seen, Read(w, seen, step) PROVE StoreInvariant'
    <2>1. Moved(w, [job[w] EXCEPT !.step = step, !.seen = seen])
      BY <1>0, <1>2 DEF Read, Moved, JobFields
    <2>2. [job[w] EXCEPT !.step = step, !.seen = seen].step = step
      BY <1>0 DEF JobFields
    <2>3. UNCHANGED <<db, log, drawn, at, rollbacks>>
      BY <1>2 DEF Read
    <2> QED BY <2>1, <2>2, <2>3, OutsideKeeps
  <1>3. ASSUME NEW reply, step = "idle", Reply(w, reply) PROVE StoreInvariant'
    <2>1. Moved(w, [job[w] EXCEPT !.step = "idle", !.reply = reply])
      BY <1>0, <1>3 DEF Reply, Moved, JobFields
    <2>2. [job[w] EXCEPT !.step = "idle", !.reply = reply].step = "idle"
      BY <1>0 DEF JobFields
    <2>3. UNCHANGED <<db, log, drawn, at, rollbacks>>
      BY <1>3 DEF Reply
    <2> QED BY <1>3, <2>1, <2>2, <2>3, OutsideKeeps
  <1> QED BY <1>1, <1>2, <1>3

\* An answer ends the call.
LEMMA ReplyKeeps ==
    ASSUME StoreInvariant, NEW w \in Workers, NEW reply, Reply(w, reply),
           job[w].step \notin InTx \cup {"idle"}, GatewayFits'
    PROVE  StoreInvariant'
  <1>1. "idle" \in Steps \ (InTx \cup ClientCalls) /\ "idle" \notin OrderSteps
    BY DEF Steps, InTx, ClientCalls, OrderSteps
  <1> QED BY <1>1, MovesOn

\* So does a transaction of statements that need nothing between them, unless the
\* call goes on with an Order.
LEMMA TransactKeeps ==
    ASSUME StoreInvariant, NEW w \in Workers,
           NEW locks, NEW writes, NEW events, NEW after, NEW reply,
           Transact(w, locks, writes, events, after, reply),
           job[w].step # "idle",
           Len(events) \in Nat, RowsFit(writes), after \in AfterCommit,
           after \in OrderSteps =>
               KnownOrder(w) \/ job[w].call.order \in DOMAIN RowsOf(writes, "orders"),
           UNCHANGED <<links, hooks>>
    PROVE  StoreInvariant'
  <1>1. Execute(w, locks, writes, events, "commit", after, reply)
    BY DEF Transact
  <1> DEFINE step == "commit"
  <1>2. step \in {"commit", "fulfil"} /\ step # "fulfil" /\ step = "commit"
    OBVIOUS
  <1>3. Execute(w, locks, writes, events, step, after, reply)
    BY <1>1
  <1> HIDE DEF step
  <1> QED BY <1>2, <1>3, ExecuteKeeps

\* An objection writes no row, whether it is logged or only answered.
LEMMA ObjectKeeps ==
    ASSUME StoreInvariant, NEW w \in Workers, NEW says, NEW type, NEW context,
           Object(w, says, type, context),
           job[w].step \notin InTx \cup {"idle"}, UNCHANGED <<links, hooks>>
    PROVE  StoreInvariant'
  <1>1. CASE Reply(w, says)
    <2>1. GatewayFits'
      BY <1>1, GatewaySame DEF Reply
    <2> QED BY <1>1, <2>1, ReplyKeeps
  <1>2. CASE ~ Reply(w, says)
    <2> DEFINE event == Event(type, NoField,
                              [code |-> says.code, reason |-> says.code,
                               recoverable |-> says.recoverable] ++ context)
    <2>1. Transact(w, {}, <<>>, <<event>>, "idle", says)
      BY <1>2 DEF Object
    <2>2. Len(<<event>>) \in Nat /\ RowsFit(<<>>)
      BY NothingFits
    <2>3. "idle" \in AfterCommit /\ "idle" \notin OrderSteps
      BY DEF AfterCommit, OrderSteps
    <2> HIDE DEF event
    <2> QED BY <2>1, <2>2, <2>3, TransactKeeps
  <1> QED BY <1>1, <1>2

-----------------------------------------------------------------------------
(***************************************************************************)
(* The mandates before payment.                                            *)
(***************************************************************************)
\* A table of one row.
LEMMA OneRow ==
    ASSUME NEW key, NEW row
    PROVE  DOMAIN Entry(key, row) = {key} /\ Entry(key, row)[key] = row
  BY DEF Entry

\* An unknown caller is refused.
LEMMA RefuseStrangerKeeps ==
    ASSUME StoreInvariant, NEW w \in Workers, RefuseStranger(w)
    PROVE  StoreInvariant'
  <1>1. job[w].step \notin InTx \cup {"idle"}
    BY DEF RefuseStranger, TokenSteps, InTx
  <1> QED BY <1>1, ObjectKeeps DEF RefuseStranger

\* A new Agent, or none.
LEMMA RegisterAgentKeeps ==
    ASSUME StoreInvariant, NEW w \in Workers, RegisterAgent(w)
    PROVE  StoreInvariant'
  <1> DEFINE c == job[w].call
             rows == [agents |-> Entry(c.agent, [capPaise |-> c.capPaise, custody |-> c.custody])]
             event == Event("agent.registered", NoField,
                            [agentId |-> c.agent, capPaise |-> c.capPaise])
  <1>0. /\ job[w].step \notin InTx \cup {"idle"} /\ UNCHANGED <<links, hooks>>
        /\ "idle" \in AfterCommit /\ "idle" \notin OrderSteps
    BY DEF RegisterAgent, InTx, AfterCommit, OrderSteps
  <1>1. RowsFit(rows)
    <2>1. DOMAIN rows = {"agents"}
      OBVIOUS
    <2>2. RowsOf(rows, "orders") = <<>> /\ RowsOf(rows, "carts") = <<>> /\ RowsOf(rows, "variants") = <<>>
      BY <2>1 DEF RowsOf
    <2> HIDE DEF rows
    <2> QED BY <2>1, <2>2, NothingFits DEF RowsFit, Tables
  <1>2. CASE c.capPaise <= 0
    <2>1. Reply(w, Invalid("INVALID_CAP"))
      BY <1>2 DEF RegisterAgent
    <2>2. GatewayFits'
      BY <1>0, <2>1, GatewaySame DEF Reply
    <2> QED BY <1>0, <2>1, <2>2, ReplyKeeps
  <1>3. CASE ~ (c.capPaise <= 0)
    <2>1. Transact(w, {<<"agents", c.agent>>}, rows, <<event>>, "idle", Ok([agent |-> c.agent]))
      BY <1>3 DEF RegisterAgent
    <2>2. Len(<<event>>) \in Nat
      OBVIOUS
    <2> HIDE DEF rows, event
    <2> QED BY <1>0, <1>1, <2>1, <2>2, TransactKeeps
  <1> QED BY <1>2, <1>3

\* Tables fit when each that has a type does.
LEMMA TablesFit ==
    ASSUME NEW rows, DOMAIN rows \subseteq Tables,
           "orders" \in DOMAIN rows => OrdersFit(rows["orders"]),
           "carts" \in DOMAIN rows => CartsFit(rows["carts"]),
           "variants" \in DOMAIN rows => VariantsFit(rows["variants"])
    PROVE  RowsFit(rows)
  <1>1. OrdersFit(<<>>) /\ CartsFit(<<>>) /\ VariantsFit(<<>>)
    BY NothingFits DEF RowsFit
  <1> QED BY <1>1 DEF RowsFit, RowsOf

\* One row fits its table.
LEMMA RowFits ==
    ASSUME NEW key, NEW row
    PROVE  /\ OrderFits(row) => OrdersFit(Entry(key, row))
           /\ CartFits(row) => CartsFit(Entry(key, row))
  BY DEF Entry, OrdersFit, CartsFit

\* A handler that objects to nothing has passed every check.
LEMMA NothingObjected ==
    ASSUME NEW checks, NEW n \in 0 .. 5, DOMAIN checks = 1 .. n,
           \A i \in 1 .. n : checks[i].says # NoField,
           FirstObjection(checks) = NoField
    PROVE  \A i \in 1 .. n : ~ checks[i].when
  <1> DEFINE raised == {i \in DOMAIN checks : checks[i].when}
  <1> SUFFICES ASSUME raised # {} PROVE FALSE
    OBVIOUS
  <1>1. raised \subseteq 1 .. 5
    OBVIOUS
  <1>2. 1 \in raised \/ 2 \in raised \/ 3 \in raised \/ 4 \in raised \/ 5 \in raised
    <2>1. 1 .. 5 = {1, 2, 3, 4, 5}
      OBVIOUS
    <2> HIDE DEF raised
    <2> QED BY <1>1, <2>1
  <1>3. \E i \in raised : \A j \in raised : i <= j
    <2> HIDE DEF raised
    <2> QED BY <1>1, <1>2, SMTT(30)
  <1>4. Min(raised) \in raised
    BY <1>3 DEF Min
  <1>5. FirstObjection(checks) = checks[Min(raised)].says
    BY DEF FirstObjection
  <1> QED BY <1>4, <1>5

\* A new Intent, or none.
LEMMA DeclareIntentKeeps ==
    ASSUME StoreInvariant, NEW w \in Workers, DeclareIntent(w)
    PROVE  StoreInvariant'
  <1> DEFINE c == job[w].call
             says == FirstObjection(
                <<Check(c.budgetPaise <= 0, Invalid("INVALID_BUDGET")),
                  Check(CustodyMismatch(c.token, c.signs), Invalid("CUSTODY_MISMATCH")),
                  Check(c.signs = "other bytes", Refusal("INVALID_MANDATE", FALSE))>>)
             rows == [intents |-> Entry(c.intent, [agentId |-> c.token,
                                                   budgetPaise |-> c.budgetPaise,
                                                   consumedBy |-> NoField])]
             event == Event("mandate.intent_declared", NoField,
                            [agentId |-> c.token, intentHash |-> c.intent,
                             budgetPaise |-> c.budgetPaise])
  <1>1. /\ job[w].step \notin InTx \cup {"idle"} /\ UNCHANGED <<links, hooks>>
        /\ "idle" \in AfterCommit /\ "idle" \notin OrderSteps
    BY DEF DeclareIntent, Registered, InTx, AfterCommit, OrderSteps
  <1>2. \/ Object(w, says, "mandate.refused", <<>>)
        \/ Reply(w, InternalError)
        \/ Transact(w, {<<"intents", c.intent>>}, rows, <<event>>, "idle",
                    Ok([intent |-> c.intent]))
    BY DEF DeclareIntent
  <1>3. RowsFit(rows)
    <2>1. DOMAIN rows = {"intents"}
      OBVIOUS
    <2> HIDE DEF rows
    <2> QED BY <2>1, TablesFit DEF Tables
  <1>4. Len(<<event>>) \in Nat
    OBVIOUS
  <1> HIDE DEF rows, event, says
  <1>5. Reply(w, InternalError) => GatewayFits'
    BY <1>1, GatewaySame DEF Reply
  <1> QED BY <1>1, <1>2, <1>3, <1>4, <1>5, ObjectKeeps, ReplyKeeps, TransactKeeps

\* A new Cart of published Variants, or none.
LEMMA CreateCartKeeps ==
    ASSUME StoreInvariant, NEW w \in Workers, CreateCart(w)
    PROVE  StoreInvariant'
  <1> DEFINE c == job[w].call
             checks == <<Check(~Own(db.intents, c.intent, c.token), Invalid("INTENT_NOT_FOUND")),
                         Check(DOMAIN c.items = {}, Invalid("INVALID_CART_ITEMS")),
                         Check(\E i \in DOMAIN c.items : c.items[i].quantity < 1,
                               Invalid("INVALID_QUANTITY")),
                         Check(\E i, j \in DOMAIN c.items :
                                   i # j /\ c.items[i].variantId = c.items[j].variantId,
                               Invalid("INVALID_CART_ITEMS")),
                         Check(\E i \in DOMAIN c.items : ~Published(c.items[i].variantId),
                               Invalid("VARIANT_NOT_FOUND"))>>
             items == Pinned(c.items)
             row == [agentId |-> c.token, intent |-> c.intent, items |-> items,
                     totalPaise |-> CartTotal(items),
                     signed |-> db.agents[c.token].custody = "custodial"]
             rows == [carts |-> Entry(c.cart, row)]
             event == Event("mandate.cart_created", NoField,
                            [agentId |-> c.token, cartHash |-> c.cart, intentHash |-> c.intent,
                             items |-> items, totalAmountPaise |-> CartTotal(items)])
  <1>1. /\ job[w].step \notin InTx \cup {"idle"} /\ UNCHANGED <<links, hooks>>
        /\ "idle" \in AfterCommit /\ "idle" \notin OrderSteps
        /\ job[w].step = "create_cart"
    BY DEF CreateCart, Registered, InTx, AfterCommit, OrderSteps
  <1>2. CASE FirstObjection(checks) # NoField
    <2>1. Reply(w, FirstObjection(checks))
      BY <1>2 DEF CreateCart
    <2>2. GatewayFits'
      BY <1>1, <2>1, GatewaySame DEF Reply
    <2> HIDE DEF checks
    <2> QED BY <1>1, <2>1, <2>2, ReplyKeeps
  <1>3. CASE FirstObjection(checks) = NoField /\ c.cart \in DOMAIN db.carts
    <2>1. Reply(w, InternalError)
      BY <1>3 DEF CreateCart
    <2>2. GatewayFits'
      BY <1>1, <2>1, GatewaySame DEF Reply
    <2> HIDE DEF checks
    <2> QED BY <1>1, <2>1, <2>2, ReplyKeeps
  <1>4. CASE FirstObjection(checks) = NoField /\ c.cart \notin DOMAIN db.carts
    <2>1. \A i \in 1 .. 5 : ~ checks[i].when
      <3>1. DOMAIN checks = 1 .. 5
        OBVIOUS
      <3>2. \A i \in 1 .. 5 : checks[i].says # NoField
        <4>1. /\ checks[1].says = Invalid("INTENT_NOT_FOUND")
              /\ checks[2].says = Invalid("INVALID_CART_ITEMS")
              /\ checks[3].says = Invalid("INVALID_QUANTITY")
              /\ checks[4].says = Invalid("INVALID_CART_ITEMS")
              /\ checks[5].says = Invalid("VARIANT_NOT_FOUND")
          BY DEF Check
        <4> HIDE DEF checks
        <4> QED BY <4>1, NoFieldAssumption DEF ValidationCode
      <3> HIDE DEF checks
      <3> QED BY <1>4, <3>1, <3>2, NothingObjected
    <2>2. \A i \in DOMAIN c.items : Published(c.items[i].variantId)
      BY <2>1 DEF Check
    <2>3. \A i \in DOMAIN c.items : c.items[i].quantity \in Int
      <3>1. c.call = "create_cart" /\ CallFits(c)
        BY <1>1 DEF StoreInvariant, JobFits, CallKnown, ClientCalls
      <3> QED BY <3>1 DEF CallFits
    <2>4. db.variants = RowsOf(db, "variants") /\ DOMAIN db.variants \subseteq DOMAIN Seeded.variants
      BY DEF StoreInvariant, RowsOf, Tables, RowsFit, VariantsFit
    <2>5. LinesFit(items)
      BY <2>2, <2>3, <2>4 DEF LinesFit, Pinned, Published
    <2>6. CartFits(row)
      BY <2>5 DEF CartFits
    <2>7. RowsFit(rows)
      <3>1. DOMAIN rows = {"carts"} /\ rows["carts"] = Entry(c.cart, row)
        OBVIOUS
      <3> HIDE DEF rows, row
      <3> QED BY <2>6, <3>1, TablesFit, RowFits DEF Tables
    <2>8. Transact(w, {<<"carts", c.cart>>}, rows, <<event>>, "idle",
                   Ok([cart |-> c.cart, agent |-> c.token, intent |-> c.intent,
                       totalPaise |-> CartTotal(items),
                       signed |-> db.agents[c.token].custody = "custodial"]))
      BY <1>4 DEF CreateCart
    <2>9. Len(<<event>>) \in Nat
      OBVIOUS
    <2> HIDE DEF rows, event
    <2> QED BY <1>1, <2>7, <2>8, <2>9, TransactKeeps
  <1> QED BY <1>2, <1>3, <1>4

-----------------------------------------------------------------------------
(***************************************************************************)
(* The trust gate, the Order and its payment link.                         *)
(***************************************************************************)
\* A refused payment is an objection.
LEMMA RefusePaymentKeeps ==
    ASSUME StoreInvariant, NEW w \in Workers, NEW says, RefusePayment(w, says),
           job[w].step \notin InTx \cup {"idle"}, UNCHANGED <<links, hooks>>
    PROVE  StoreInvariant'
  BY ObjectKeeps DEF RefusePayment

\* A step that moves on without an Order or a Cart.
LEMMA GoesOn ==
    ASSUME StoreInvariant, NEW w \in Workers, NEW step,
           Go(w, step) \/ \E seen : Read(w, seen, step),
           job[w].step \notin InTx \cup {"idle"},
           step \in Steps \ (InTx \cup ClientCalls \cup OrderSteps \cup {"place_order"}),
           UNCHANGED <<links, hooks>>
    PROVE  StoreInvariant'
  <1>1. GatewayFits'
    BY GatewaySame DEF Go, Read
  <1> QED BY <1>1, MovesOn

\* The gate lets a Cart through only where it found the Cart.
LEMMA VerifyPaymentKeeps ==
    ASSUME StoreInvariant, NEW w \in Workers, VerifyPayment(w)
    PROVE  StoreInvariant'
  <1> DEFINE c == job[w].call
             checks == <<Check(~Own(db.carts, c.cart, c.token), Invalid("CART_NOT_FOUND")),
                         Check(\E signs \in {c.signs, c.signsCart} : CustodyMismatch(c.token, signs),
                               Invalid("CUSTODY_MISMATCH"))>>
  <1>1. /\ job[w].step \notin InTx \cup {"idle"} /\ UNCHANGED <<links, hooks>>
    BY DEF VerifyPayment, Registered, InTx
  <1>2. \/ Reply(w, FirstObjection(checks))
        \/ Go(w, "key_known")
        \/ \E says : RefusePayment(w, says)
        \/ FirstObjection(checks) = NoField /\ Go(w, "place_order")
    BY Zenon DEF VerifyPayment
  <1>3. CASE Reply(w, FirstObjection(checks))
    <2>1. GatewayFits'
      BY <1>1, <1>3, GatewaySame DEF Reply
    <2> HIDE DEF checks
    <2> QED BY <1>1, <1>3, <2>1, ReplyKeeps
  <1>4. CASE Go(w, "key_known")
    <2>1. "key_known" \in Steps \ (InTx \cup ClientCalls \cup OrderSteps \cup {"place_order"})
      BY DEF Steps, InTx, ClientCalls, OrderSteps
    <2> QED BY <1>1, <1>4, <2>1, GoesOn
  <1>5. ASSUME NEW says, RefusePayment(w, says) PROVE StoreInvariant'
    BY <1>1, <1>5, RefusePaymentKeeps
  <1>6. CASE FirstObjection(checks) = NoField /\ Go(w, "place_order")
    <2>1. DOMAIN checks = 1 .. 2 /\ \A i \in 1 .. 2 : checks[i].says # NoField
      <3>1. checks[1].says = Invalid("CART_NOT_FOUND") /\ checks[2].says = Invalid("CUSTODY_MISMATCH")
        BY DEF Check
      <3>2. DOMAIN checks = 1 .. 2
        OBVIOUS
      <3> HIDE DEF checks
      <3> QED BY <3>1, <3>2, NoFieldAssumption DEF ValidationCode
    <2>2. ~ checks[1].when
      <3> HIDE DEF checks
      <3> QED BY <1>6, <2>1, NothingObjected
    <2>3. Own(db.carts, c.cart, c.token)
      BY <2>2 DEF Check
    <2>4. c.cart \in DOMAIN RowsOf(db, "carts")
      BY <2>3 DEF Own, StoreInvariant, RowsOf, Tables
    <2>5. GatewayFits'
      BY <1>1, <1>6, GatewaySame DEF Go
    <2>6. "place_order" \in Steps \ (InTx \cup ClientCalls \cup OrderSteps)
      BY DEF Steps, InTx, ClientCalls, OrderSteps
    <2> HIDE DEF checks
    <2> QED BY <1>1, <1>6, <2>4, <2>5, <2>6, MovesOn
  <1> QED BY <1>2, <1>3, <1>4, <1>5, <1>6

\* A replay writes no row.
LEMMA ReplayKeeps ==
    ASSUME StoreInvariant, NEW w \in Workers, ReplayOrRefuse(w)
    PROVE  StoreInvariant'
  <1>1. /\ job[w].step \notin InTx \cup {"idle"} /\ UNCHANGED <<links, hooks>>
        /\ "idle" \in AfterCommit /\ "idle" \notin OrderSteps
    BY DEF ReplayOrRefuse, InTx, AfterCommit, OrderSteps
  <1>2. \/ \E says : RefusePayment(w, says)
        \/ Reply(w, InternalError)
        \/ \E event, reply : Transact(w, {}, <<>>, <<event>>, "idle", reply)
    BY Zenon DEF ReplayOrRefuse
  <1>3. ASSUME NEW says, RefusePayment(w, says) PROVE StoreInvariant'
    BY <1>1, <1>3, RefusePaymentKeeps
  <1>4. CASE Reply(w, InternalError)
    <2>1. GatewayFits'
      BY <1>1, <1>4, GatewaySame DEF Reply
    <2> QED BY <1>1, <1>4, <2>1, ReplyKeeps
  <1>5. ASSUME NEW event, NEW reply, Transact(w, {}, <<>>, <<event>>, "idle", reply)
        PROVE  StoreInvariant'
    <2>1. Len(<<event>>) \in Nat /\ RowsFit(<<>>)
      BY NothingFits
    <2> QED BY <1>1, <1>5, <2>1, TransactKeeps
  <1> QED BY <1>2, <1>3, <1>4, <1>5

\* The new Order's lines are its Cart's.
LEMMA PlaceOrderKeeps ==
    ASSUME StoreInvariant, NEW w \in Workers, PlaceOrder(w)
    PROVE  StoreInvariant'
  <1> DEFINE c == job[w].call
             cart == db.carts[c.cart]
             order == [agentId |-> c.token, items |-> cart.items, amountPaise |-> cart.totalPaise,
                       status |-> "created", link |-> FALSE, gatewayOrderId |-> NoField,
                       gatewayPaymentId |-> NoField, declined |-> {}, shortfall |-> {},
                       cancellationReason |-> NoField, refundReason |-> NoField]
             signed == [cart EXCEPT !.signed = TRUE]
             locks == {<<"agents", c.token>>, <<"orders", c.order>>}
             rows == [orders |-> Entry(c.order, order),
                      intents |-> Entry(cart.intent, [db.intents[cart.intent] EXCEPT
                                                        !.consumedBy = c.order]),
                      carts |-> Entry(c.cart, signed),
                      payments |-> Entry(KeyOf(w), [cart |-> c.cart, order |-> c.order,
                                                    hash |-> PaymentHash(c)])]
  <1>1. /\ job[w].step \notin InTx \cup {"idle"} /\ UNCHANGED <<links, hooks>>
        /\ job[w].step = "place_order" /\ "attempt_link" \in AfterCommit
    BY DEF PlaceOrder, InTx, AfterCommit
  <1>2. \/ \E says : RefusePayment(w, says)
        \/ Go(w, "key_known")
        \/ \E verified, created :
              Transact(w, locks, rows, <<verified, created>>, "attempt_link", NoField)
    BY Zenon DEF PlaceOrder
  <1>3. ASSUME NEW says, RefusePayment(w, says) PROVE StoreInvariant'
    BY <1>1, <1>3, RefusePaymentKeeps
  <1>4. CASE Go(w, "key_known")
    <2>1. "key_known" \in Steps \ (InTx \cup ClientCalls \cup OrderSteps \cup {"place_order"})
      BY DEF Steps, InTx, ClientCalls, OrderSteps
    <2> QED BY <1>1, <1>4, <2>1, GoesOn
  <1>5. ASSUME NEW verified, NEW created,
               Transact(w, locks, rows, <<verified, created>>, "attempt_link", NoField)
        PROVE  StoreInvariant'
    <2>1. "items" \in DOMAIN cart /\ LinesFit(cart.items)
      <3>1. RowsOf(db, "carts") = db.carts /\ CartsFit(db.carts) /\ c.cart \in DOMAIN db.carts
        BY <1>1 DEF StoreInvariant, RowsOf, Tables, RowsFit, JobFits, RowsKnown
      <3> QED BY <3>1 DEF CartsFit, CartFits
    <2>2. OrderFits(order)
      BY <2>1 DEF OrderFits, OrderStatuses
    <2>3. CartFits(signed)
      BY <2>1 DEF CartFits
    <2>4. /\ DOMAIN rows = {"orders", "intents", "carts", "payments"}
          /\ rows["orders"] = Entry(c.order, order) /\ rows["carts"] = Entry(c.cart, signed)
      OBVIOUS
    <2>5. Len(<<verified, created>>) \in Nat
      OBVIOUS
    <2> HIDE DEF order, signed, rows
    <2>6. RowsFit(rows)
      BY <2>2, <2>3, <2>4, TablesFit, RowFits DEF Tables
    <2>7. c.order \in DOMAIN RowsOf(rows, "orders")
      <3>1. RowsOf(rows, "orders") = Entry(c.order, order)
        BY <2>4 DEF RowsOf
      <3> QED BY <3>1, OneRow
    <2> QED BY <1>1, <1>5, <2>5, <2>6, <2>7, TransactKeeps
  <1> QED BY <1>2, <1>3, <1>4, <1>5

\* The attempt is logged for the Order that was placed.
LEMMA AttemptLinkKeeps ==
    ASSUME StoreInvariant, NEW w \in Workers, AttemptLink(w)
    PROVE  StoreInvariant'
  <1>1. /\ job[w].step = "attempt_link" /\ job[w].step # "idle" /\ "create_link" \in AfterCommit
        /\ "attempt_link" \in OrderSteps /\ UNCHANGED <<links, hooks>>
    BY DEF AttemptLink, AfterCommit, OrderSteps
  <1>2. PICK event : Transact(w, {}, <<>>, <<event>>, "create_link", NoField)
    BY Zenon DEF AttemptLink
  <1>3. KnownOrder(w)
    BY <1>1 DEF StoreInvariant, JobFits, RowsKnown
  <1>4. Len(<<event>>) \in Nat /\ RowsFit(<<>>)
    BY NothingFits
  <1> QED BY <1>1, <1>2, <1>3, <1>4, TransactKeeps

\* The gateway opens a link, or the request fails.
LEMMA CreateLinkKeeps ==
    ASSUME StoreInvariant, NEW w \in Workers, CreateLink(w)
    PROVE  StoreInvariant'
  <1> DEFINE o == job[w].call.order
             link == NewLink(db.orders[o].amountPaise)
  <1>1. /\ job[w].step \notin InTx \cup {"idle"} /\ job[w].step \in OrderSteps /\ UNCHANGED hooks
    BY DEF CreateLink, InTx, OrderSteps
  <1>2. \/ links' = Entry(o, link) ++ links /\ Go(w, "issue_link")
        \/ Reply(w, InternalError) /\ UNCHANGED links
    BY Zenon DEF CreateLink
  <1>3. CASE links' = Entry(o, link) ++ links /\ Go(w, "issue_link")
    <2>1. /\ DOMAIN links' = {o} \cup DOMAIN links
          /\ links'[o] = link /\ \A x \in DOMAIN links : x # o => links'[x] = links[x]
      BY <1>3 DEF Entry, ++
    <2>2. /\ {"captured", "refunded"} \subseteq DOMAIN link
          /\ link.captured \in BOOLEAN /\ link.refunded \in BOOLEAN
      BY DEF NewLink
    <2>3. UNCHANGED db
      BY <1>3 DEF Go
    <2> HIDE DEF link, o
    <2>4. GatewayFits'
      BY <1>1, <2>1, <2>2, <2>3 DEF StoreInvariant, GatewayFits
    <2>5. "issue_link" \in Steps \ (InTx \cup ClientCalls) /\ "issue_link" # "place_order"
      BY DEF Steps, InTx, ClientCalls
    <2>6. KnownOrder(w)
      BY <1>1 DEF StoreInvariant, JobFits, RowsKnown
    <2> QED BY <1>1, <1>3, <2>4, <2>5, <2>6, MovesOn
  <1>4. CASE Reply(w, InternalError) /\ UNCHANGED links
    <2>1. GatewayFits'
      BY <1>1, <1>4, GatewaySame DEF Reply
    <2> QED BY <1>1, <1>4, <2>1, ReplyKeeps
  <1> QED BY <1>2, <1>3, <1>4

\* A step behind the commit knows a row that fits.
LEMMA KnownFits ==
    ASSUME StoreInvariant, NEW w \in Workers, job[w].step \in OrderSteps
    PROVE  /\ KnownOrder(w) /\ OrderOf(w) = db.orders[job[w].call.order] /\ OrderFits(OrderOf(w))
           /\ job[w].call.order \in DOMAIN db.orders /\ db.orders = RowsOf(db, "orders")
  <1>1. db.orders = RowsOf(db, "orders") /\ OrdersFit(db.orders)
    BY DEF StoreInvariant, RowsOf, Tables, RowsFit
  <1>2. KnownOrder(w)
    BY DEF StoreInvariant, JobFits, RowsKnown
  <1> QED BY <1>1, <1>2 DEF KnownOrder, OrdersFit, OrderOf

\* One row of Orders, and nothing of the other typed tables, fits.
LEMMA OneOrderFits ==
    ASSUME NEW rows, NEW o, NEW row, OrderFits(row),
           DOMAIN rows \subseteq Tables \ {"carts", "variants"},
           "orders" \in DOMAIN rows, rows["orders"] = Entry(o, row)
    PROVE  RowsFit(rows) /\ RowsOf(rows, "orders") = Entry(o, row) /\ o \in DOMAIN RowsOf(rows, "orders")
  <1>1. RowsFit(rows)
    BY TablesFit, RowFits
  <1>2. RowsOf(rows, "orders") = Entry(o, row)
    BY DEF RowsOf
  <1> QED BY <1>1, <1>2 DEF Entry

\* The link is stored on the Order, which now awaits its payment.
LEMMA IssueLinkKeeps ==
    ASSUME StoreInvariant, NEW w \in Workers, IssueLink(w)
    PROVE  StoreInvariant'
  <1> DEFINE o == job[w].call.order
             row == [db.orders[o] EXCEPT !.link = TRUE, !.status = "awaiting_payment"]
             rows == [orders |-> Entry(o, row)]
  <1>1. /\ job[w].step \in OrderSteps /\ job[w].step # "idle" /\ UNCHANGED <<links, hooks>>
        /\ "idle" \in AfterCommit /\ "idle" \notin OrderSteps
    BY DEF IssueLink, AfterCommit, OrderSteps
  <1>2. PICK event, reply : Transact(w, {<<"orders", o>>}, rows, <<event>>, "idle", reply)
    BY Zenon DEF IssueLink
  <1>3. OrderFits(db.orders[o])
    BY <1>1, KnownFits
  <1>4. OrderFits(row)
    BY <1>3 DEF OrderFits, OrderStatuses
  <1>5. DOMAIN rows = {"orders"} /\ rows["orders"] = Entry(o, row)
    OBVIOUS
  <1>6. Len(<<event>>) \in Nat
    OBVIOUS
  <1> HIDE DEF o, row, rows
  <1>7. RowsFit(rows)
    BY <1>4, <1>5, OneOrderFits DEF Tables
  <1> QED BY <1>1, <1>2, <1>6, <1>7, TransactKeeps

-----------------------------------------------------------------------------
(***************************************************************************)
(* The gateway, and the webhooks it sends.                                 *)
(***************************************************************************)
\* A capture fires two events of an Order the store has.
LEMMA CompletePaymentKeeps ==
    ASSUME StoreInvariant, NEW w \in Workers, CompletePayment(w)
    PROVE  StoreInvariant'
  <1> DEFINE o == job[w].call.order
  <1>1. job[w].step \notin InTx \cup {"idle"}
    BY DEF CompletePayment, InTx
  <1>2. \/ /\ HasLink(o)
           /\ links' = [links EXCEPT ![o].captured = TRUE]
           /\ \E p : hooks' = hooks \cup {Hook(o, "payment_link.paid", p),
                                         Hook(o, "payment.captured", CapturedPayment(o))}
        \/ UNCHANGED <<links, hooks>>
    BY DEF CompletePayment
  <1>3. PICK reply : Reply(w, reply)
    BY Zenon DEF CompletePayment
  <1>4. GatewayFits'
    <2>1. UNCHANGED db /\ db.orders = RowsOf(db, "orders")
      BY <1>3 DEF Reply, StoreInvariant, RowsOf, Tables
    <2>2. CASE UNCHANGED <<links, hooks>>
      BY <2>1, <2>2, GatewaySame
    <2>3. CASE ~ UNCHANGED <<links, hooks>>
      <3>1. /\ HasLink(o) /\ links' = [links EXCEPT ![o].captured = TRUE]
            /\ \E p : hooks' = hooks \cup {Hook(o, "payment_link.paid", p),
                                          Hook(o, "payment.captured", CapturedPayment(o))}
        BY <1>2, <2>3
      <3>2. \A hook \in hooks' : hook \in hooks \/ hook.order = o
        BY <3>1 DEF Hook
      <3>3. \A hook \in hooks' : hook.order \in DOMAIN RowsOf(db', "orders")
        BY <2>1, <3>1, <3>2 DEF HasLink, StoreInvariant, GatewayFits
      <3>4. DOMAIN links' = DOMAIN links
        BY <3>1
      <3>5. ASSUME NEW x \in DOMAIN links
            PROVE  /\ {"captured", "refunded"} \subseteq DOMAIN links'[x]
                   /\ links'[x].captured \in BOOLEAN /\ links'[x].refunded \in BOOLEAN
        BY <3>1 DEF StoreInvariant, GatewayFits
      <3> QED BY <3>3, <3>4, <3>5 DEF GatewayFits
    <2> QED BY <2>2, <2>3
  <1> QED BY <1>1, <1>3, <1>4, ReplyKeeps

\* A failed attempt fires one.
LEMMA FailPaymentKeeps ==
    ASSUME StoreInvariant, NEW w \in Workers, FailPayment(w)
    PROVE  StoreInvariant'
  <1> DEFINE o == job[w].call.order
  <1>1. job[w].step \notin InTx \cup {"idle"}
    BY DEF FailPayment, InTx
  <1>2. \/ /\ HasLink(o)
           /\ links' = [links EXCEPT ![o].failures = @ + 1]
           /\ \E payment : hooks' = hooks \cup {Hook(o, "payment.failed", payment)}
        \/ UNCHANGED <<links, hooks>>
    BY DEF FailPayment
  <1>3. PICK reply : Reply(w, reply)
    BY Zenon DEF FailPayment
  <1>4. GatewayFits'
    <2>1. UNCHANGED db /\ db.orders = RowsOf(db, "orders")
      BY <1>3 DEF Reply, StoreInvariant, RowsOf, Tables
    <2>2. CASE UNCHANGED <<links, hooks>>
      BY <2>1, <2>2, GatewaySame
    <2>3. CASE ~ UNCHANGED <<links, hooks>>
      <3>1. /\ HasLink(o) /\ links' = [links EXCEPT ![o].failures = @ + 1]
            /\ \E payment : hooks' = hooks \cup {Hook(o, "payment.failed", payment)}
        BY <1>2, <2>3
      <3>2. \A hook \in hooks' : hook \in hooks \/ hook.order = o
        BY <3>1 DEF Hook
      <3>3. \A hook \in hooks' : hook.order \in DOMAIN RowsOf(db', "orders")
        BY <2>1, <3>1, <3>2 DEF HasLink, StoreInvariant, GatewayFits
      <3>4. DOMAIN links' = DOMAIN links
        BY <3>1
      <3>5. ASSUME NEW x \in DOMAIN links
            PROVE  /\ {"captured", "refunded"} \subseteq DOMAIN links'[x]
                   /\ links'[x].captured \in BOOLEAN /\ links'[x].refunded \in BOOLEAN
        BY <3>1 DEF StoreInvariant, GatewayFits
      <3> QED BY <3>3, <3>4, <3>5 DEF GatewayFits
    <2> QED BY <2>2, <2>3
  <1> QED BY <1>1, <1>3, <1>4, ReplyKeeps

\* However many events follow the link's, they are a sequence.
LEMMA EventsCounted ==
    ASSUME NEW w, NEW a, NEW b
    PROVE  /\ Len(LinkEvents(w) \o <<>>) \in Nat
           /\ Len(LinkEvents(w) \o <<a>>) \in Nat
           /\ Len(LinkEvents(w) \o <<a, b>>) \in Nat
  <1> DEFINE event == Event("gateway.order_linked", job[w].call.order, <<>>)
             all == {event, a, b}
  <1>1. LinkEvents(w) = <<event>> \/ LinkEvents(w) = <<>>
    BY DEF LinkEvents
  <1> HIDE DEF event
  <1>2. /\ <<>> \in Seq(all) /\ <<a>> \in Seq(all) /\ <<a, b>> \in Seq(all)
        /\ <<event>> \in Seq(all)
    OBVIOUS
  <1> HIDE DEF all
  <1> QED BY <1>1, <1>2

\* The Order as every webhook leaves it fits.
LEMMA LinkedFits ==
    ASSUME StoreInvariant, NEW w \in Workers, job[w].step \in OrderSteps
    PROVE  OrderFits(Linked(w))
  BY KnownFits DEF Linked, OrderFits

\* An applied webhook writes its Order's row.
LEMMA ApplyKeeps ==
    ASSUME StoreInvariant, NEW w \in Workers, NEW row, NEW events, NEW outcome,
           job[w].step = "apply", OrderFits(row), Len(LinkEvents(w) \o events) \in Nat,
           ApplyTo(w, row, events, "commit", outcome), UNCHANGED <<links, hooks>>
    PROVE  StoreInvariant'
  <1> DEFINE o == job[w].call.order
             rows == [orders |-> Entry(o, row)]
             step == "commit"
             after == "idle"
  <1>1. Execute(w, {<<"orders", o>>}, rows, LinkEvents(w) \o events, step, after, outcome)
    BY DEF ApplyTo
  <1>2. DOMAIN rows = {"orders"} /\ rows["orders"] = Entry(o, row)
    OBVIOUS
  <1>3. /\ step \in {"commit", "fulfil"} /\ after \in AfterCommit /\ after \notin OrderSteps
        /\ step # "fulfil"
    BY DEF AfterCommit, OrderSteps
  <1> HIDE DEF o, rows, step, after
  <1>4. RowsFit(rows)
    BY <1>2, OneOrderFits DEF Tables
  <1> QED BY <1>1, <1>3, <1>4, ExecuteKeeps

\* A capture: the Order is paid and its Receipt minted, or it is only recorded.
LEMMA ApplyCaptureKeeps ==
    ASSUME StoreInvariant, NEW w \in Workers, ApplyCapture(w)
    PROVE  StoreInvariant'
  <1> DEFINE o == job[w].call.order
             row == Linked(w)
             paid == [row EXCEPT !.status = "paid", !.gatewayPaymentId = BoundPayment(w)]
             rows == [orders |-> Entry(o, paid), receipts |-> MintedReceipt(w)]
  <1>1. job[w].step = "apply" /\ job[w].step \in OrderSteps /\ UNCHANGED <<links, hooks>>
    BY DEF ApplyCapture, OrderSteps
  <1>2. \/ \E a, b : Execute(w, {<<"orders", o>>}, rows, LinkEvents(w) \o <<a, b>>,
                            "fulfil", "idle", NoField)
        \/ \E a, outcome : ApplyTo(w, row, <<a>>, "commit", outcome)
        \/ \E outcome : ApplyTo(w, row, <<>>, "commit", outcome)
    BY Zenon DEF ApplyCapture
  <1>3. OrderFits(row) /\ KnownOrder(w)
    BY <1>1, LinkedFits, KnownFits
  <1>4. OrderFits(paid)
    BY <1>3 DEF OrderFits, OrderStatuses
  <1>5. DOMAIN rows = {"orders", "receipts"} /\ rows["orders"] = Entry(o, paid)
    OBVIOUS
  <1>6. ASSUME NEW a, NEW b,
               Execute(w, {<<"orders", o>>}, rows, LinkEvents(w) \o <<a, b>>,
                       "fulfil", "idle", NoField)
        PROVE  StoreInvariant'
    <2> DEFINE step == "fulfil"
               after == "idle"
               events == LinkEvents(w) \o <<a, b>>
    <2>1. step \in {"commit", "fulfil"} /\ after \in AfterCommit
      BY DEF AfterCommit
    <2>2. Execute(w, {<<"orders", o>>}, rows, events, step, after, NoField)
      BY <1>6
    <2>3. Len(events) \in Nat
      BY EventsCounted
    <2> HIDE DEF paid, rows, row, step, after, events
    <2>4. RowsFit(rows) /\ o \in DOMAIN RowsOf(rows, "orders")
      BY <1>4, <1>5, OneOrderFits DEF Tables
    <2> QED BY <1>1, <1>3, <2>1, <2>2, <2>3, <2>4, ExecuteKeeps
  <1>7. ASSUME NEW a, NEW outcome, ApplyTo(w, row, <<a>>, "commit", outcome) PROVE StoreInvariant'
    <2> HIDE DEF row
    <2> QED BY <1>1, <1>3, <1>7, EventsCounted, ApplyKeeps
  <1>8. ASSUME NEW outcome, ApplyTo(w, row, <<>>, "commit", outcome) PROVE StoreInvariant'
    <2> HIDE DEF row
    <2> QED BY <1>1, <1>3, <1>8, EventsCounted, ApplyKeeps
  <1> QED BY <1>2, <1>6, <1>7, <1>8

\* A failed payment: counted, the last one cancels, or it is only recorded.
LEMMA ApplyFailureKeeps ==
    ASSUME StoreInvariant, NEW w \in Workers, ApplyFailure(w)
    PROVE  StoreInvariant'
  <1> DEFINE row == Linked(w)
             payment == job[w].call.hook.payment
             attempt == Cardinality(row.declined) + 1
             counted == [row EXCEPT !.declined = @ \cup {payment}]
             cancelled == [counted EXCEPT !.status = "cancelled",
                                          !.cancellationReason = DeclinePayload(attempt)]
  <1>1. job[w].step = "apply" /\ job[w].step \in OrderSteps /\ UNCHANGED <<links, hooks>>
    BY DEF ApplyFailure, OrderSteps
  <1>2. \/ \E outcome : ApplyTo(w, row, <<>>, "commit", outcome)
        \/ \E a, outcome : ApplyTo(w, counted, <<a>>, "commit", outcome)
        \/ \E a, b, outcome : ApplyTo(w, cancelled, <<a, b>>, "commit", outcome)
    BY Zenon DEF ApplyFailure
  <1>3. OrderFits(row)
    BY <1>1, LinkedFits
  <1>4. OrderFits(counted)
    BY <1>3 DEF OrderFits
  <1>5. OrderFits(cancelled)
    <2> HIDE DEF counted, attempt
    <2> QED BY <1>4 DEF OrderFits, OrderStatuses
  <1> HIDE DEF row, counted, cancelled
  <1>6. ASSUME NEW outcome, ApplyTo(w, row, <<>>, "commit", outcome) PROVE StoreInvariant'
    BY <1>1, <1>3, <1>6, EventsCounted, ApplyKeeps
  <1>7. ASSUME NEW a, NEW outcome, ApplyTo(w, counted, <<a>>, "commit", outcome)
        PROVE  StoreInvariant'
    BY <1>1, <1>4, <1>7, EventsCounted, ApplyKeeps
  <1>8. ASSUME NEW a, NEW b, NEW outcome, ApplyTo(w, cancelled, <<a, b>>, "commit", outcome)
        PROVE  StoreInvariant'
    BY <1>1, <1>5, <1>8, EventsCounted, ApplyKeeps
  <1> QED BY <1>2, <1>6, <1>7, <1>8

-----------------------------------------------------------------------------
(***************************************************************************)
(* Fulfilment, and the refund of what came up short.                       *)
(***************************************************************************)
\* Stock is taken only where there is enough of every line.
LEMMA FulfilKeeps ==
    ASSUME StoreInvariant, NEW w \in Workers, Fulfil(w)
    PROVE  StoreInvariant'
  <1> DEFINE o == job[w].call.order
             items == OrderOf(w).items
             row == job[w].tx.writes.orders[o]
             sold == {items[i].variantId : i \in DOMAIN items}
             Quantity(v) == items[CHOOSE i \in DOMAIN items : items[i].variantId = v].quantity
             short == {[variantId |-> v, requested |-> Quantity(v), available |-> db.variants[v].stock] :
                          v \in {v \in sold : db.variants[v].stock < Quantity(v)}}
             left == [v \in sold |-> [db.variants[v] EXCEPT !.stock = @ - Quantity(v)]]
             taken == [variants |-> left]
             oversold == [row EXCEPT !.shortfall = short]
             marked == [orders |-> Entry(o, oversold)]
             locks == {<<"variants", v>> : v \in sold}
  <1>1. job[w].step = "fulfil" /\ job[w].step \in OrderSteps /\ UNCHANGED <<links, hooks>>
    BY DEF Fulfil, OrderSteps
  <1>2. \/ short = {} /\ \E a, outcome : Execute(w, locks, taken, <<a>>, "commit", "idle", outcome)
        \/ \E a : Execute(w, locks, marked, <<a>>, "commit", "refund", NoField)
    BY Zenon DEF Fulfil
  <1>3. KnownOrder(w) /\ LinesFit(items)
    BY <1>1, KnownFits DEF OrderFits
  <1>4. ASSUME NEW a, NEW outcome, short = {},
               Execute(w, locks, taken, <<a>>, "commit", "idle", outcome)
        PROVE  StoreInvariant'
    <2> DEFINE step == "commit"
               after == "idle"
    <2>1. \A v \in sold : ~ (db.variants[v].stock < Quantity(v))
      BY <1>4
    <2>2. ASSUME NEW v \in sold
          PROVE  Quantity(v) \in Int /\ v \in DOMAIN Seeded.variants
      <3>1. PICK i \in DOMAIN items : items[i].variantId = v
        OBVIOUS
      <3>2. (CHOOSE j \in DOMAIN items : items[j].variantId = v) \in DOMAIN items
        BY <3>1
      <3> QED BY <1>3, <3>1, <3>2 DEF LinesFit
    <2> HIDE DEF short, sold, Quantity
    <2>3. ASSUME NEW v \in sold
          PROVE  VariantFits(left[v])
      <3>1. VariantFits(db.variants[v])
        <4>1. RowsOf(db, "variants") = db.variants
          BY DEF StoreInvariant, RowsOf, Tables
        <4> QED BY <2>2, <4>1 DEF StoreInvariant, CatalogWhole, RowsFit, VariantsFit
      <3>2. left[v] = [db.variants[v] EXCEPT !.stock = @ - Quantity(v)]
        OBVIOUS
      <3>3. /\ DOMAIN left[v] = DOMAIN db.variants[v]
            /\ left[v].stock = db.variants[v].stock - Quantity(v)
        BY <3>1, <3>2 DEF VariantFits
      <3> QED BY <2>1, <2>2, <3>1, <3>3 DEF VariantFits
    <2>4. VariantsFit(left)
      <3>1. DOMAIN left = sold
        OBVIOUS
      <3> HIDE DEF left
      <3> QED BY <2>2, <2>3, <3>1 DEF VariantsFit
    <2>5. DOMAIN taken = {"variants"} /\ taken["variants"] = left
      OBVIOUS
    <2>6. /\ step \in {"commit", "fulfil"} /\ after \in AfterCommit /\ after \notin OrderSteps
          /\ step # "fulfil" /\ Len(<<a>>) \in Nat
      BY DEF AfterCommit, OrderSteps
    <2>7. Execute(w, locks, taken, <<a>>, step, after, outcome)
      BY <1>4
    <2> HIDE DEF taken, left, locks, step, after
    <2>8. RowsFit(taken)
      BY <2>4, <2>5, TablesFit DEF Tables
    <2> QED BY <1>1, <2>6, <2>7, <2>8, ExecuteKeeps
  <1>5. ASSUME NEW a, Execute(w, locks, marked, <<a>>, "commit", "refund", NoField)
        PROVE  StoreInvariant'
    <2> DEFINE step == "commit"
               after == "refund"
    <2>1. OrderFits(row)
      <3>1. JobShape(w) /\ o \in OwnOrders(w)
        BY <1>1 DEF StoreInvariant, JobFits, RowsKnown
      <3>2. OrdersFit(RowsOf(job[w].tx.writes, "orders"))
        BY <3>1 DEF JobShape, RowsFit
      <3>3. RowsOf(job[w].tx.writes, "orders") = job[w].tx.writes.orders
        BY <3>1 DEF OwnOrders, RowsOf
      <3> QED BY <3>1, <3>2, <3>3 DEF OwnOrders, OrdersFit
    <2> HIDE DEF short, row
    <2>2. OrderFits(oversold)
      BY <2>1 DEF OrderFits
    <2>3. DOMAIN marked = {"orders"} /\ marked["orders"] = Entry(o, oversold)
      OBVIOUS
    <2>4. /\ step \in {"commit", "fulfil"} /\ after \in AfterCommit /\ step # "fulfil"
          /\ Len(<<a>>) \in Nat
      BY DEF AfterCommit
    <2>5. Execute(w, locks, marked, <<a>>, step, after, NoField)
      BY <1>5
    <2> HIDE DEF marked, oversold, locks, step, after, o
    <2>6. RowsFit(marked)
      BY <2>2, <2>3, OneOrderFits DEF Tables
    <2> QED BY <1>1, <1>3, <2>4, <2>5, <2>6, ExecuteKeeps
  <1> QED BY <1>2, <1>4, <1>5

\* The attempt is logged while the Order is still oversold.
LEMMA AttemptRefundKeeps ==
    ASSUME StoreInvariant, NEW w \in Workers, AttemptRefund(w)
    PROVE  StoreInvariant'
  <1>1. /\ job[w].step \notin InTx \cup {"idle"} /\ job[w].step \in OrderSteps
        /\ UNCHANGED <<links, hooks>> /\ {"refund_call", "idle"} \subseteq AfterCommit
    BY DEF AttemptRefund, OrderSteps, InTx, AfterCommit
  <1>2. \/ \E a : Transact(w, {}, <<>>, <<a>>, "refund_call", NoField)
        \/ \E a, reply : Transact(w, {}, <<>>, <<a>>, "idle", reply)
        \/ \E reply : Reply(w, reply)
    <2>1. \/ \E a : Transact(w, {}, <<>>, <<a>>, "refund_call", NoField)
          \/ FlagRefund(w)
          \/ \E reply : Reply(w, reply)
      BY Zenon DEF AttemptRefund
    <2>2. FlagRefund(w) => \E a, reply : Transact(w, {}, <<>>, <<a>>, "idle", reply)
      BY Zenon DEF FlagRefund
    <2> QED BY <2>1, <2>2
  <1>3. ASSUME NEW a, NEW after \in {"refund_call", "idle"}, NEW reply,
               Transact(w, {}, <<>>, <<a>>, after, reply)
        PROVE  StoreInvariant'
    <2>1. KnownOrder(w)
      BY <1>1, KnownFits
    <2>2. Len(<<a>>) \in Nat /\ RowsFit(<<>>)
      BY NothingFits
    <2> QED BY <1>1, <1>3, <2>1, <2>2, TransactKeeps
  <1>4. ASSUME NEW reply, Reply(w, reply) PROVE StoreInvariant'
    <2>1. GatewayFits'
      BY <1>1, <1>4, GatewaySame DEF Reply
    <2> QED BY <1>1, <1>4, <2>1, ReplyKeeps
  <1> QED BY <1>2, <1>3, <1>4

\* The gateway gives the money back, or does not.
LEMMA CallRefundKeeps ==
    ASSUME StoreInvariant, NEW w \in Workers, CallRefund(w)
    PROVE  StoreInvariant'
  <1> DEFINE o == job[w].call.order
  <1>1. /\ job[w].step \notin InTx \cup {"idle"} /\ job[w].step \in OrderSteps
        /\ UNCHANGED hooks
    BY DEF CallRefund, OrderSteps, InTx
  <1>2. PICK step \in {"refund_record", "refund_failed"} : Go(w, step)
    BY DEF CallRefund
  <1>3. links' = [links EXCEPT ![o].refunded = TRUE] \/ UNCHANGED links
    BY DEF CallRefund
  <1>4. GatewayFits'
    <2>1. UNCHANGED db
      BY <1>2 DEF Go
    <2>2. CASE UNCHANGED links
      BY <1>1, <2>1, <2>2, GatewaySame
    <2>3. CASE links' = [links EXCEPT ![o].refunded = TRUE]
      <3>1. DOMAIN links' = DOMAIN links
        BY <2>3
      <3>2. ASSUME NEW x \in DOMAIN links
            PROVE  /\ {"captured", "refunded"} \subseteq DOMAIN links'[x]
                   /\ links'[x].captured \in BOOLEAN /\ links'[x].refunded \in BOOLEAN
        BY <2>3 DEF StoreInvariant, GatewayFits
      <3> QED BY <1>1, <2>1, <3>1, <3>2 DEF StoreInvariant, GatewayFits
    <2> QED BY <1>3, <2>2, <2>3
  <1>5. KnownOrder(w)
    BY <1>1, KnownFits
  <1>6. step \in Steps \ (InTx \cup ClientCalls) /\ step # "place_order"
    BY DEF Steps, InTx, ClientCalls
  <1> QED BY <1>1, <1>2, <1>4, <1>5, <1>6, MovesOn

\* A refund is recorded on an Order that is still paid.
LEMMA RecordRefundKeeps ==
    ASSUME StoreInvariant, NEW w \in Workers, RecordRefund(w)
    PROVE  StoreInvariant'
  <1> DEFINE o == job[w].call.order
             row == [OrderOf(w) EXCEPT !.status = "refunded",
                                       !.refundReason = OversellPayload(OrderOf(w))]
             rows == [orders |-> Entry(o, row), refundReceipts |-> RefundReceipt(w)]
  <1>1. /\ job[w].step \notin InTx \cup {"idle"} /\ job[w].step \in OrderSteps
        /\ UNCHANGED <<links, hooks>> /\ "idle" \in AfterCommit /\ "idle" \notin OrderSteps
    BY DEF RecordRefund, OrderSteps, InTx, AfterCommit
  <1>2. \/ \E a, b, reply : Transact(w, {<<"orders", o>>}, rows, <<a, b>>, "idle", reply)
        \/ \E reply : Reply(w, reply)
    BY Zenon DEF RecordRefund
  <1>3. ASSUME NEW a, NEW b, NEW reply,
               Transact(w, {<<"orders", o>>}, rows, <<a, b>>, "idle", reply)
        PROVE  StoreInvariant'
    <2>1. OrderFits(OrderOf(w))
      BY <1>1, KnownFits
    <2>2. OrderFits(row)
      BY <2>1 DEF OrderFits, OrderStatuses
    <2>3. DOMAIN rows = {"orders", "refundReceipts"} /\ rows["orders"] = Entry(o, row)
      OBVIOUS
    <2>4. Len(<<a, b>>) \in Nat
      OBVIOUS
    <2> HIDE DEF row, rows, o
    <2>5. RowsFit(rows)
      BY <2>2, <2>3, OneOrderFits DEF Tables
    <2> QED BY <1>1, <1>3, <2>4, <2>5, TransactKeeps
  <1>4. ASSUME NEW reply, Reply(w, reply) PROVE StoreInvariant'
    <2>1. GatewayFits'
      BY <1>1, <1>4, GatewaySame DEF Reply
    <2> QED BY <1>1, <1>4, <2>1, ReplyKeeps
  <1> QED BY <1>2, <1>3, <1>4

\* A failed refund is only logged.
LEMMA RecordRefundFailureKeeps ==
    ASSUME StoreInvariant, NEW w \in Workers, RecordRefundFailure(w)
    PROVE  StoreInvariant'
  <1>1. /\ job[w].step # "idle" /\ UNCHANGED <<links, hooks>>
        /\ "idle" \in AfterCommit /\ "idle" \notin OrderSteps
    BY DEF RecordRefundFailure, OrderSteps, AfterCommit
  <1>2. PICK a, reply : Transact(w, {}, <<>>, <<a>>, "idle", reply)
    BY Zenon DEF RecordRefundFailure, FlagRefund
  <1>3. Len(<<a>>) \in Nat /\ RowsFit(<<>>)
    BY NothingFits
  <1> QED BY <1>1, <1>2, <1>3, TransactKeeps

-----------------------------------------------------------------------------
(***************************************************************************)
(* Pages, and the merchant's edits.                                        *)
(***************************************************************************)
\* Where a page of several queries goes on.
PageSteps ==
    {"read_receipt", "read_refund_receipt", "audit_mandates", "audit_events", "refusal_context"}

\* A page reads or answers.
LEMMA PagesOnlyRead ==
    ASSUME NEW w, Pages(w)
    PROVE  /\ job[w].step \notin InTx \cup {"idle"} /\ UNCHANGED <<links, hooks>>
           /\ \/ \E reply : Reply(w, reply)
              \/ \E seen : \E step \in PageSteps : Read(w, seen, step)
  <1> DEFINE Goal == /\ job[w].step \notin InTx \cup {"idle"} /\ UNCHANGED <<links, hooks>>
                     /\ \/ \E reply : Reply(w, reply)
                        \/ \E seen : \E step \in PageSteps : Read(w, seen, step)
  <1> USE DEF InTx, PageSteps
  <1>1. CASE GetProduct(w)
    BY <1>1 DEF GetProduct
  <1>2. CASE ReadOrder(w)
    BY <1>2 DEF ReadOrder, Registered
  <1>3. CASE ReadReceipt(w)
    BY <1>3 DEF ReadReceipt
  <1>4. CASE ReadRefundReceipt(w)
    BY <1>4 DEF ReadRefundReceipt
  <1>5. CASE ReadAuditedOrder(w)
    BY <1>5 DEF ReadAuditedOrder
  <1>6. CASE ReadMandates(w)
    BY <1>6 DEF ReadMandates
  <1>7. CASE ReadAuditEvents(w)
    BY <1>7 DEF ReadAuditEvents
  <1>8. CASE ReadRefusal(w)
    BY <1>8 DEF ReadRefusal
  <1>9. CASE ReadRefusalContext(w)
    BY <1>9 DEF ReadRefusalContext
  <1>10. CASE ReadStoreCounts(w)
    BY <1>10 DEF ReadStoreCounts
  <1> QED BY <1>1, <1>2, <1>3, <1>4, <1>5, <1>6, <1>7, <1>8, <1>9, <1>10 DEF Pages

\* So every page keeps the invariant.
LEMMA PagesKeep ==
    ASSUME StoreInvariant, NEW w \in Workers, Pages(w)
    PROVE  StoreInvariant'
  <1>1. job[w].step \notin InTx \cup {"idle"} /\ UNCHANGED <<links, hooks>>
    BY PagesOnlyRead
  <1>2. ASSUME NEW reply, Reply(w, reply) PROVE StoreInvariant'
    <2>1. GatewayFits'
      BY <1>1, <1>2, GatewaySame DEF Reply
    <2> QED BY <1>1, <1>2, <2>1, ReplyKeeps
  <1>3. ASSUME NEW seen, NEW step \in PageSteps, Read(w, seen, step) PROVE StoreInvariant'
    <2>1. step \in Steps \ (InTx \cup ClientCalls \cup OrderSteps \cup {"place_order"})
      BY DEF PageSteps, Steps, InTx, ClientCalls, OrderSteps
    <2> QED BY <1>1, <1>3, <2>1, GoesOn
  <1> QED BY <1>2, <1>3, PagesOnlyRead

\* A request that ends, and the numbers of its events with it.
LEMMA NumbersKept ==
    ASSUME StoreInvariant, NEW w \in Workers, OneMoves(w), UNCHANGED <<log, drawn>>,
           DOMAIN job'[w].tx.events = {}
    PROVE  Numbers'
  <1>1. \A v \in Workers : DOMAIN job'[v].tx.events \in {{}, DOMAIN job[v].tx.events}
    BY DEF OneMoves
  <1>2. Numbers
    BY DEF StoreInvariant
  <1>3. \A v \in Workers : DOMAIN job'[v].tx.events \subseteq (1 .. drawn) \ DOMAIN log
    BY <1>1, <1>2 DEF Numbers
  <1>4. \A u \in Workers : \A v \in Workers \ {u} :
            DOMAIN job'[v].tx.events \cap DOMAIN job'[u].tx.events = {}
    BY <1>1, <1>2 DEF Numbers
  <1> QED BY <1>2, <1>3, <1>4 DEF Numbers

\* What is left of a request that ends.
LEMMA EndedFits ==
    ASSUME NEW w, DOMAIN job'[w] = JobFields, job'[w].tx = NoTx, job'[w].step = "idle",
           job'[w].after \in AfterCommit
    PROVE  JobFits(w)' /\ job'[w].step \in Steps
  <1>1. JobShape(w)'
    BY NothingFits DEF JobShape
  <1>2. CallKnown(w)'
    BY DEF CallKnown, ClientCalls
  <1>3. RowsKnown(w)'
    BY DEF RowsKnown, OrderSteps
  <1> QED BY <1>1, <1>2, <1>3 DEF JobFits, Steps

\* An edited Variant keeps a stock.
LEMMA EditVariantKeeps ==
    ASSUME StoreInvariant, NEW w \in Workers, EditVariant(w)
    PROVE  StoreInvariant'
  <1> DEFINE c == job[w].call
             old == db.variants[c.variant]
  <1>0. /\ job[w].step = "edit_variant" /\ JobFits(w) /\ DOMAIN job = Workers
        /\ UNCHANGED <<log, drawn, at, links, hooks, rollbacks>>
    BY DEF EditVariant, StoreInvariant
  <1>1. job[w].tx = NoTx /\ DOMAIN job[w] = JobFields /\ job[w].after \in AfterCommit
    BY <1>0 DEF JobFits, JobShape, InTx
  <1>2. /\ OneMoves(w) /\ DOMAIN job'[w] = JobFields /\ job'[w].step = "idle"
        /\ job'[w].tx = NoTx /\ job'[w].after \in AfterCommit
    BY <1>0, <1>1 DEF EditVariant, OneMoves, JobFields
  <1>3. /\ db' = [db EXCEPT !.variants[c.variant] = c.set ++ old]
        /\ DOMAIN db = Tables
    BY DEF EditVariant, StoreInvariant
  <1>4. /\ DOMAIN db' = Tables
        /\ RowsOf(db', "orders") = RowsOf(db, "orders") /\ RowsOf(db', "carts") = RowsOf(db, "carts")
        /\ RowsOf(db, "variants") = db.variants /\ RowsOf(db', "variants") = db'.variants
        /\ db'.variants = [db.variants EXCEPT ![c.variant] = c.set ++ old]
    BY <1>3 DEF RowsOf, Tables
  <1>5. CallFits(c) /\ c.call = "edit_variant"
    BY <1>0 DEF JobFits, CallKnown, ClientCalls
  <1>6. VariantFits(old) => VariantFits(c.set ++ old)
    <2> HIDE DEF old
    <2> QED BY <1>5 DEF CallFits, VariantFits, ++
  <1>7. VariantsFit(db.variants) /\ RowsFit(db)
    BY <1>4 DEF StoreInvariant, RowsFit
  <1>8. DOMAIN db'.variants = DOMAIN db.variants
    BY <1>4
  <1>9. \A v \in DOMAIN db.variants : VariantFits(db'.variants[v])
    BY <1>4, <1>6, <1>7 DEF VariantsFit
  <1>10. VariantsFit(db'.variants)
    BY <1>7, <1>8, <1>9 DEF VariantsFit
  <1>11. RowsFit(db') /\ CatalogWhole'
    BY <1>4, <1>7, <1>8, <1>10 DEF RowsFit, CatalogWhole, StoreInvariant
  <1>12. Grows
    BY <1>4 DEF Grows
  <1>13. \A v \in Workers \ {w} : JobFits(v)' /\ job'[v].step \in Steps
    BY <1>2, <1>12, OthersKeep DEF OneMoves, StoreInvariant
  <1>14. JobFits(w)' /\ job'[w].step \in Steps
    BY <1>2, EndedFits
  <1>15. Numbers'
    BY <1>0, <1>2, NothingFits, NumbersKept
  <1>16. GatewayFits'
    BY <1>0, <1>4 DEF StoreInvariant, GatewayFits
  <1> QED BY <1>0, <1>2, <1>4, <1>11, <1>13, <1>14, <1>15, <1>16 DEF StoreInvariant, OneMoves

-----------------------------------------------------------------------------
(***************************************************************************)
(* The ends of a transaction, and the beginnings of a request.             *)
(***************************************************************************)
\* What is committed was fit to be, and no other transaction has its numbers.
LEMMA CommitKeeps ==
    ASSUME StoreInvariant, NEW w \in Workers, Commit(w)
    PROVE  StoreInvariant'
  <1> DEFINE writes == job[w].tx.writes
             events == job[w].tx.events
  <1>0. /\ job[w].step = "commit" /\ JobFits(w) /\ DOMAIN job = Workers /\ RowsFit(db)
        /\ UNCHANGED <<drawn, at, links, hooks, rollbacks>>
        /\ db' = Over(writes, db) /\ log' = events ++ log
    BY DEF Commit, StoreInvariant
  <1>1. /\ OneMoves(w) /\ DOMAIN job'[w] = JobFields /\ job'[w].step = job[w].after
        /\ job'[w].tx = NoTx /\ job'[w].after = job[w].after /\ job'[w].call = job[w].call
    BY <1>0 DEF Commit, OneMoves, JobFields, JobFits, JobShape
  <1>2. DOMAIN writes \subseteq Tables /\ RowsFit(writes) /\ job[w].after \in AfterCommit
    BY <1>0 DEF JobFits, JobShape, RowsFit
  <1> HIDE DEF writes, events
  <1>3. /\ RowsFit(db') /\ DOMAIN db' = Tables
        /\ \A t : RowsOf(db', t) = RowsOf(writes, t) ++ RowsOf(db, t)
    <2>1. DOMAIN db' = DOMAIN writes \cup DOMAIN db
      BY <1>0 DEF Over
    <2> QED BY <1>0, <1>2, <2>1, OverFits, OverRows DEF StoreInvariant
  <1>4. \A t : DOMAIN RowsOf(db', t) = DOMAIN RowsOf(writes, t) \cup DOMAIN RowsOf(db, t)
    BY <1>3, BothFit
  <1>5. Grows
    BY <1>4 DEF Grows
  <1>6. CatalogWhole'
    <2>1. DOMAIN RowsOf(writes, "variants") \subseteq DOMAIN Seeded.variants
      BY <1>2 DEF RowsFit, VariantsFit
    <2>2. DOMAIN RowsOf(db, "variants") = DOMAIN Seeded.variants
      BY DEF StoreInvariant, CatalogWhole
    <2>3. DOMAIN RowsOf(db', "variants") = DOMAIN RowsOf(writes, "variants") \cup DOMAIN RowsOf(db, "variants")
      BY <1>4
    <2> QED BY <2>1, <2>2, <2>3 DEF CatalogWhole
  <1>7. \A v \in Workers \ {w} : JobFits(v)' /\ job'[v].step \in Steps
    BY <1>1, <1>5, OthersKeep DEF OneMoves, StoreInvariant
  <1>8. JobFits(w)' /\ job'[w].step \in Steps
    <2>1. JobShape(w)'
      BY <1>1, <1>2, NothingFits DEF JobShape
    <2>2. CallKnown(w)'
      BY <1>0, <1>1, <1>2, <1>5 DEF JobFits, CallKnown, Grows, AfterCommit, ClientCalls
    <2>3. RowsKnown(w)'
      <3>1. job[w].after \in OrderSteps => KnownOrder(w) \/ job[w].call.order \in OwnOrders(w)
        BY <1>0 DEF JobFits, RowsKnown
      <3>2. DOMAIN RowsOf(db', "orders") = OwnOrders(w) \cup DOMAIN RowsOf(db, "orders")
        BY <1>4 DEF OwnOrders, writes
      <3>3. job[w].after \in OrderSteps => KnownOrder(w)'
        BY <1>1, <3>1, <3>2 DEF KnownOrder
      <3>4. job'[w].step \notin {"place_order", "commit", "fulfil"}
        BY <1>1, <1>2 DEF AfterCommit
      <3> QED BY <1>1, <3>3, <3>4 DEF RowsKnown
    <2> QED BY <1>1, <1>2, <2>1, <2>2, <2>3 DEF JobFits, AfterCommit, Steps
  <1>9. Numbers'
    <2>1. DOMAIN log' = DOMAIN events \cup DOMAIN log
      BY <1>0 DEF ++
    <2>2. /\ Numbers
          /\ \A v \in Workers : DOMAIN job[v].tx.events \subseteq (1 .. drawn) \ DOMAIN log
          /\ \A u \in Workers : \A v \in Workers \ {u} :
                DOMAIN job[v].tx.events \cap DOMAIN job[u].tx.events = {}
      BY DEF StoreInvariant, Numbers
    <2>3. \A v \in Workers \ {w} : job'[v].tx.events = job[v].tx.events
      BY <1>1 DEF OneMoves
    <2>4. DOMAIN job'[w].tx.events = {}
      BY <1>1, NothingFits
    <2>5. DOMAIN log' \subseteq 1 .. drawn'
      BY <1>0, <2>1, <2>2 DEF Numbers, events
    <2>6. \A v \in Workers : DOMAIN job'[v].tx.events \subseteq (1 .. drawn') \ DOMAIN log'
      BY <1>0, <2>1, <2>2, <2>3, <2>4 DEF events
    <2>7. \A u \in Workers : \A v \in Workers \ {u} :
              DOMAIN job'[v].tx.events \cap DOMAIN job'[u].tx.events = {}
      BY <2>2, <2>3, <2>4
    <2> QED BY <1>0, <2>2, <2>5, <2>6, <2>7 DEF Numbers
  <1>10. GatewayFits'
    BY <1>0, <1>5 DEF StoreInvariant, GatewayFits, Grows
  <1> QED BY <1>0, <1>1, <1>3, <1>6, <1>7, <1>8, <1>9, <1>10 DEF StoreInvariant, OneMoves

\* What is lost leaves its numbers unused, and its webhook with the gateway.
LEMMA RollbackKeeps ==
    ASSUME StoreInvariant, NEW w \in Workers, Rollback(w)
    PROVE  StoreInvariant'
  <1>0. /\ rollbacks < MaxRollbacks /\ job[w].tx # NoTx /\ rollbacks' = rollbacks + 1
        /\ UNCHANGED <<db, log, drawn, at, links>> /\ JobFits(w) /\ DOMAIN job = Workers
    BY DEF Rollback, StoreInvariant
  <1>1. /\ OneMoves(w) /\ DOMAIN job'[w] = JobFields /\ job'[w].step = "idle"
        /\ job'[w].tx = NoTx /\ job'[w].after \in AfterCommit
    BY <1>0 DEF Rollback, OneMoves, JobFields, JobFits, JobShape
  <1>2. Grows
    BY <1>0 DEF Grows
  <1>3. \A v \in Workers \ {w} : JobFits(v)' /\ job'[v].step \in Steps
    BY <1>1, <1>2, OthersKeep DEF OneMoves, StoreInvariant
  <1>4. JobFits(w)' /\ job'[w].step \in Steps
    BY <1>1, EndedFits
  <1>5. Numbers'
    BY <1>0, <1>1, NothingFits, NumbersKept
  <1>6. job[w].call.call = "webhook" => job[w].call.hook.order \in DOMAIN RowsOf(db, "orders")
    BY <1>0 DEF JobFits, JobShape, CallKnown, CallFits, ClientCalls, InTx
  <1>7. \A hook \in hooks' : hook \in hooks \/ (job[w].call.call = "webhook" /\ hook = job[w].call.hook)
    BY DEF Rollback
  <1>8. GatewayFits'
    BY <1>0, <1>6, <1>7 DEF StoreInvariant, GatewayFits
  <1>9. rollbacks' \in 0 .. MaxRollbacks
    BY <1>0, StorefrontAssumption DEF StoreInvariant
  <1>10. RowsFit(db') /\ CatalogWhole' /\ DOMAIN db' = Tables /\ at' \in [Clients -> Nat]
    BY <1>0 DEF StoreInvariant, CatalogWhole
  <1> QED BY <1>1, <1>3, <1>4, <1>5, <1>8, <1>9, <1>10 DEF StoreInvariant, OneMoves

\* A client asks for something its script lets it ask for.
LEMMA CallStoreKeeps ==
    ASSUME StoreInvariant, NEW c \in Clients, CallStore(c)
    PROVE  StoreInvariant'
  <1>0. /\ c \in Workers /\ DOMAIN job = Workers /\ at \in [Clients -> Nat]
        /\ at[c] < Len(Script[c]) /\ at' = [at EXCEPT ![c] = @ + 1]
        /\ UNCHANGED <<db, log, drawn, links, hooks, rollbacks>>
    BY DEF CallStore, StoreInvariant, Workers
  <1>1. PICK call \in Script[c][at[c] + 1] : Open(c, call)
    BY DEF CallStore
  <1>2. CallFits(call)
    <2>1. /\ Len(Script[c]) \in Nat /\ DOMAIN Script[c] = 1 .. Len(Script[c])
          /\ \A i \in DOMAIN Script[c] : \A x \in Script[c][i] : CallFits(x)
      BY StorefrontAssumption
    <2>2. at[c] + 1 \in DOMAIN Script[c]
      BY <1>0, <2>1
    <2> QED BY <1>1, <2>1, <2>2
  <1>3. /\ OneMoves(c) /\ DOMAIN job'[c] = JobFields
        /\ job'[c].step = call.call /\ job'[c].call = call
        /\ job'[c].tx = NoTx /\ job'[c].after = "idle"
    BY <1>0, <1>1 DEF Open, OneMoves, Idle, JobFields
  <1>4. Grows
    BY <1>0 DEF Grows
  <1>5. \A v \in Workers \ {c} : JobFits(v)' /\ job'[v].step \in Steps
    BY <1>3, <1>4, OthersKeep DEF OneMoves, StoreInvariant
  <1>6. JobFits(c)' /\ job'[c].step \in Steps
    <2>1. job'[c].step \in ClientCalls
      BY <1>2, <1>3 DEF CallFits
    <2>2. JobShape(c)'
      BY <1>3, NothingFits DEF JobShape, AfterCommit
    <2>3. CallKnown(c)'
      BY <1>2, <1>3 DEF CallKnown
    <2>4. RowsKnown(c)'
      BY <2>1 DEF RowsKnown, ClientCalls, OrderSteps
    <2>5. ClientCalls \subseteq Steps
      BY DEF ClientCalls, Steps
    <2> QED BY <2>1, <2>2, <2>3, <2>4, <2>5 DEF JobFits
  <1>7. Numbers'
    BY <1>0, <1>3, NothingFits, NumbersKept
  <1>8. GatewayFits'
    BY <1>0, GatewaySame
  <1>9. RowsFit(db') /\ CatalogWhole' /\ DOMAIN db' = Tables /\ at' \in [Clients -> Nat]
    BY <1>0 DEF StoreInvariant, CatalogWhole
  <1> QED BY <1>0, <1>3, <1>5, <1>6, <1>7, <1>8, <1>9 DEF StoreInvariant, OneMoves

\* A webhook is received for an Order the store has, under a number of its own.
LEMMA DeliverHookKeeps ==
    ASSUME StoreInvariant, NEW d \in Deliverers, DeliverHook(d)
    PROVE  StoreInvariant'
  <1>1. PICK hook \in hooks : Receive(d, hook)
    BY DEF DeliverHook
  <1> DEFINE call == [call |-> "webhook", hook |-> hook, order |-> hook.order]
             event == Event("gateway.webhook_received", hook.order, [kind |-> hook.event])
             received == Entry(drawn + 1, event)
  <1>0. /\ d \in Workers /\ DOMAIN job = Workers /\ drawn' = drawn + 1 /\ drawn \in Nat
        /\ hook.order \in DOMAIN RowsOf(db, "orders") /\ hooks' = hooks \ {hook}
        /\ UNCHANGED <<db, log, at, links, rollbacks>>
    BY <1>1 DEF DeliverHook, Receive, StoreInvariant, Workers, GatewayFits, Numbers
  <1>2. /\ OneMoves(d) /\ DOMAIN job'[d] = JobFields
        /\ job'[d].step = "apply" /\ job'[d].call = call /\ job'[d].after = "idle"
        /\ DOMAIN job'[d].tx = TxFields /\ job'[d].tx.writes = <<>> /\ job'[d].tx.events = received
    <2> HIDE DEF event
    <2>1. job' = [job EXCEPT ![d] = [Idle EXCEPT !.step = "apply", !.call = call,
                                                 !.tx.events = received]]
      BY <1>1 DEF Receive, event
    <2> HIDE DEF call, received
    <2> QED BY <1>0, <2>1, NothingFits DEF OneMoves, JobFields, TxFields
  <1>3. DOMAIN received = {drawn + 1}
    BY OneRow
  <1> HIDE DEF received
  <1>4. Grows
    BY <1>0 DEF Grows
  <1>5. \A v \in Workers \ {d} : JobFits(v)' /\ job'[v].step \in Steps
    BY <1>2, <1>4, OthersKeep DEF OneMoves, StoreInvariant
  <1>6. JobFits(d)' /\ job'[d].step \in Steps
    <2>1. JobShape(d)'
      BY <1>2, NothingFits DEF JobShape, AfterCommit, InTx
    <2>2. CallKnown(d)'
      BY <1>0, <1>2 DEF CallKnown, ClientCalls
    <2>3. RowsKnown(d)'
      BY <1>0, <1>2 DEF RowsKnown, KnownOrder
    <2> QED BY <1>2, <2>1, <2>2, <2>3 DEF JobFits, Steps
  <1>7. Numbers'
    <2>1. /\ DOMAIN log \subseteq 1 .. drawn
          /\ \A v \in Workers : DOMAIN job[v].tx.events \subseteq (1 .. drawn) \ DOMAIN log
          /\ \A u \in Workers : \A v \in Workers \ {u} :
                DOMAIN job[v].tx.events \cap DOMAIN job[u].tx.events = {}
      BY DEF StoreInvariant, Numbers
    <2>2. \A v \in Workers \ {d} : job'[v].tx.events = job[v].tx.events
      BY <1>2 DEF OneMoves
    <2>3. /\ drawn' \in Nat /\ 1 .. drawn \subseteq 1 .. drawn' /\ drawn + 1 \in 1 .. drawn'
          /\ drawn + 1 \notin 1 .. drawn
      BY <1>0
    <2>4. DOMAIN job'[d].tx.events = {drawn + 1}
      BY <1>2, <1>3
    <2>5. DOMAIN log' \subseteq 1 .. drawn'
      BY <1>0, <2>1, <2>3
    <2>6. \A v \in Workers : DOMAIN job'[v].tx.events \subseteq (1 .. drawn') \ DOMAIN log'
      BY <1>0, <2>1, <2>2, <2>3, <2>4
    <2>7. \A u \in Workers : \A v \in Workers \ {u} :
              DOMAIN job'[v].tx.events \cap DOMAIN job'[u].tx.events = {}
      BY <2>1, <2>2, <2>3, <2>4
    <2> QED BY <2>3, <2>5, <2>6, <2>7 DEF Numbers
  <1>8. GatewayFits'
    BY <1>0 DEF StoreInvariant, GatewayFits
  <1>9. RowsFit(db') /\ CatalogWhole' /\ DOMAIN db' = Tables /\ at' \in [Clients -> Nat]
    BY <1>0 DEF StoreInvariant, CatalogWhole
  <1> QED BY <1>0, <1>2, <1>5, <1>6, <1>7, <1>8, <1>9 DEF StoreInvariant, OneMoves

-----------------------------------------------------------------------------
(***************************************************************************)
(* The theorem.                                                            *)
(***************************************************************************)
\* The store opens with the rows and the log it was given, and nobody is asking.
LEMMA InitStore == Init => StoreInvariant
  <1> SUFFICES ASSUME Init PROVE StoreInvariant
    OBVIOUS
  <1>1. /\ DOMAIN db = Tables /\ RowsFit(db) /\ CatalogWhole
    <2>1. db = Seeded /\ DOMAIN Seeded = Tables /\ RowsFit(Seeded)
      BY StorefrontAssumption DEF Init
    <2>2. RowsOf(db, "variants") = Seeded.variants
      BY <2>1 DEF RowsOf, Tables
    <2> QED BY <2>1, <2>2 DEF CatalogWhole
  <1>2. DOMAIN job = Workers /\ \A w \in Workers : job[w] = Idle
    BY DEF Init
  <1>3. \A w \in Workers : JobFits(w) /\ job[w].step \in Steps
    <2> SUFFICES ASSUME NEW w \in Workers PROVE JobFits(w) /\ job[w].step \in Steps
      OBVIOUS
    <2>1. job[w] = Idle
      BY <1>2
    <2>2. JobShape(w)
      BY <2>1, NothingFits DEF JobShape, AfterCommit
    <2>3. CallKnown(w)
      BY <2>1, NothingFits DEF CallKnown, ClientCalls
    <2>4. RowsKnown(w)
      BY <2>1, NothingFits DEF RowsKnown, OrderSteps
    <2> QED BY <2>1, <2>2, <2>3, <2>4, NothingFits DEF JobFits, Steps
  <1>4. Numbers
    <2>1. PICK last \in {0} \cup DOMAIN SeededLog :
              DOMAIN SeededLog \subseteq 1 .. last /\ last \in Nat
      BY StorefrontAssumption
    <2>2. \A n \in {0} \cup DOMAIN SeededLog : n \in Nat /\ last >= n
      BY <2>1
    <2>3. /\ Max({0} \cup DOMAIN SeededLog) \in {0} \cup DOMAIN SeededLog
          /\ \A n \in {0} \cup DOMAIN SeededLog : Max({0} \cup DOMAIN SeededLog) >= n
      BY <2>1, <2>2 DEF Max
    <2>4. drawn \in Nat /\ \A n \in DOMAIN log : drawn >= n
      BY <2>2, <2>3 DEF Init
    <2>5. \A n \in DOMAIN log : n \in Nat /\ n >= 1
      BY <2>1 DEF Init
    <2>6. DOMAIN log \subseteq 1 .. drawn
      BY <2>4, <2>5
    <2>7. \A w \in Workers : DOMAIN job[w].tx.events = {}
      BY <1>2, NothingFits
    <2> QED BY <2>4, <2>6, <2>7 DEF Numbers
  <1>5. GatewayFits
    <2>1. hooks = {}
      BY DEF Init
    <2>2. \A o \in DOMAIN links : \E paise : links[o] = NewLink(paise)
      BY DEF Init
    <2>3. \A paise :
              /\ {"captured", "refunded"} \subseteq DOMAIN NewLink(paise)
              /\ NewLink(paise).captured \in BOOLEAN /\ NewLink(paise).refunded \in BOOLEAN
      BY DEF NewLink
    <2>4. \A o \in DOMAIN links :
              /\ {"captured", "refunded"} \subseteq DOMAIN links[o]
              /\ links[o].captured \in BOOLEAN /\ links[o].refunded \in BOOLEAN
      BY <2>2, <2>3
    <2> QED BY <2>1, <2>4 DEF GatewayFits
  <1>6. at \in [Clients -> Nat] /\ rollbacks \in 0 .. MaxRollbacks
    BY StorefrontAssumption DEF Init
  <1> QED BY <1>1, <1>2, <1>3, <1>4, <1>5, <1>6 DEF StoreInvariant

\* Every step of the store, whoever takes it, keeps the invariant.
LEMMA StepKeepsStore == StoreInvariant /\ [Next]_vars => StoreInvariant'
  <1> SUFFICES ASSUME StoreInvariant, [Next]_vars PROVE StoreInvariant'
    OBVIOUS
  <1>1. ASSUME NEW c \in Clients, CallStore(c) PROVE StoreInvariant'
    BY <1>1, CallStoreKeeps
  <1>2. ASSUME NEW d \in Deliverers, DeliverHook(d) PROVE StoreInvariant'
    BY <1>2, DeliverHookKeeps
  <1>3. ASSUME NEW w \in Workers, Mandates(w) PROVE StoreInvariant'
    BY <1>3, RefuseStrangerKeeps, RegisterAgentKeeps, DeclareIntentKeeps, CreateCartKeeps
       DEF Mandates
  <1>4. ASSUME NEW w \in Workers, Submission(w) PROVE StoreInvariant'
    BY <1>4, VerifyPaymentKeeps, ReplayKeeps, PlaceOrderKeeps, AttemptLinkKeeps, CreateLinkKeeps,
       IssueLinkKeeps DEF Submission
  <1>5. ASSUME NEW w \in Workers, Settlement(w) PROVE StoreInvariant'
    BY <1>5, CompletePaymentKeeps, FailPaymentKeeps, ApplyCaptureKeeps, ApplyFailureKeeps,
       FulfilKeeps, AttemptRefundKeeps, CallRefundKeeps, RecordRefundKeeps,
       RecordRefundFailureKeeps DEF Settlement
  <1>6. ASSUME NEW w \in Workers, Serve(w) PROVE StoreInvariant'
    BY <1>3, <1>4, <1>5, <1>6, PagesKeep, EditVariantKeeps, CommitKeeps, RollbackKeeps DEF Serve
  <1>7. ASSUME UNCHANGED vars PROVE StoreInvariant'
    <2>1. /\ UNCHANGED <<db, log, drawn, job, at, links, hooks, rollbacks>>
      BY <1>7 DEF vars
    <2>2. \A w \in Workers : JobFits(w)'
      <3>1. Grows
        BY <2>1 DEF Grows
      <3> QED BY <2>1, <3>1, OthersKeep DEF StoreInvariant
    <2>3. Numbers'
      BY <2>1 DEF StoreInvariant, Numbers
    <2>4. GatewayFits'
      BY <2>1, GatewaySame
    <2> QED BY <2>1, <2>2, <2>3, <2>4 DEF StoreInvariant, CatalogWhole
  <1> QED BY <1>1, <1>2, <1>6, <1>7 DEF Next, Closed

\* Whatever its callers ask for, in whatever order their requests and the
\* webhooks interleave, with whatever transactions lost: the rows of the store
\* keep their types - no stock below zero, no status out of nowhere - and every
\* sequence number of the audit log belongs to one committed event or to one
\* open transaction.
THEOREM StoreTypes == Spec => []TypeOK
  <1>1. Init => StoreInvariant
    BY InitStore
  <1>2. StoreInvariant /\ [Next]_vars => StoreInvariant'
    BY StepKeepsStore
  <1>3. StoreInvariant => TypeOK
    BY InvariantTypes
  <1> QED BY <1>1, <1>2, <1>3, PTL DEF Spec

-----------------------------------------------------------------------------
(***************************************************************************)
(* Answers put together by several queries.  The books behind them are the *)
(* rows of a purchase, its Receipts and the log, which every transaction   *)
(* keeps in step behind the locks it holds.                                *)
(***************************************************************************)
Stored(t) == RowsOf(db, t)

Writes(w, t) == RowsOf(job[w].tx.writes, t)

\* What w's own transaction would find.
View(w, t) == Writes(w, t) ++ Stored(t)

Logged == {log[n] : n \in DOMAIN log}

Pending(w) == {job[w].tx.events[n] : n \in DOMAIN job[w].tx.events}

Events(w) == Logged \cup Pending(w)

-----------------------------------------------------------------------------
(***************************************************************************)
(* The invariant.                                                          *)
(***************************************************************************)
\* An Order's row is written behind its lock, with what goes with it; a payment
\* behind the Agent's.
Guarded(w) ==
    /\ \A o \in DOMAIN Writes(w, "orders") : <<"orders", o>> \in job[w].tx.locks
    /\ DOMAIN Writes(w, "receipts") \subseteq DOMAIN Writes(w, "orders")
    /\ DOMAIN Writes(w, "refundReceipts") \subseteq DOMAIN Writes(w, "orders")
    /\ \A k \in DOMAIN Writes(w, "payments") : <<"agents", k[1]>> \in job[w].tx.locks

\* Receipts and payments are written once.
WritesNew(w) ==
    /\ \A t \in {"payments", "receipts", "refundReceipts"} :
          DOMAIN Writes(w, t) \cap DOMAIN Stored(t) = {}
    /\ \A k \in DOMAIN Writes(w, "payments") :
          Writes(w, "payments")[k].cart \in DOMAIN Stored("carts")

\* Neither its link nor its payment's id is taken off an Order.
KeepsLink(w) ==
    \A o \in DOMAIN Writes(w, "orders") \cap DOMAIN Stored("orders") :
        /\ Stored("orders")[o].link => Writes(w, "orders")[o].link
        /\ Stored("orders")[o].gatewayPaymentId # NoField =>
              Writes(w, "orders")[o].gatewayPaymentId # NoField

OrdersKept(w) ==
    \A o \in DOMAIN Writes(w, "orders") :
        OrderKept(o, Writes(w, "orders")[o], View(w, "payments"), RowAt(View(w, "receipts"), o),
                  RowAt(View(w, "refundReceipts"), o), Events(w))

MandatesKept(w) ==
    /\ \A k \in DOMAIN Writes(w, "carts") : CartKept(k, Writes(w, "carts")[k], Events(w))
    /\ \A i \in DOMAIN Writes(w, "intents") : i # NoField /\ ShowsIntent(Events(w), i)
    /\ \A e \in Pending(w) : RefusalKept(e, Logged)

TxKept(w) ==
    Guarded(w) /\ WritesNew(w) /\ KeepsLink(w) /\ OrdersKept(w) /\ MandatesKept(w)

\* From the Order's insert to its link.
Linking(w) ==
    \/ job[w].step \in {"attempt_link", "create_link", "issue_link"}
    \/ job[w].step = "commit" /\ job[w].after \in {"attempt_link", "create_link"}

\* Until then nothing has moved the Order, and nobody else is about to.
LinkFits(w) ==
    LET o == job[w].call.order IN
    /\ Linking(w) => o \in DOMAIN View(w, "orders") /\ ~View(w, "orders")[o].link
    /\ job[w].step \in {"create_link", "issue_link"} =>
          "gateway.payment_link_attempted" \in TypesOf(Logged, o)
    /\ job[w].step = "commit" /\ job[w].after = "create_link" =>
          "gateway.payment_link_attempted" \in TypesOf(Events(w), o)

LinksAlone(w) ==
    Linking(w) =>
        \A v \in Workers \ {w} :
            /\ job[w].call.order \notin DOMAIN Writes(v, "orders")
            /\ Linking(v) => job[v].call.order # job[w].call.order

\* A webhook is about an Order that carries its link.
IsLinked(o) == o \in DOMAIN Stored("orders") /\ Stored("orders")[o].link

\* What the gateway is asked to refund has an id.
Addressed(o) ==
    o \in DOMAIN Stored("orders") /\ Stored("orders")[o].gatewayPaymentId # NoField

Refunding(w) ==
    \/ job[w].step \in {"refund_call", "refund_record"}
    \/ job[w].step = "commit" /\ job[w].after = "refund_call"

HookFits(w) ==
    /\ Refunding(w) => Addressed(job[w].call.order)
    /\ job[w].step # "idle" /\ job[w].call.call = "webhook" =>
          job[w].call.order = job[w].call.hook.order /\ IsLinked(job[w].call.order)
    /\ job[w].step = "apply" =>
          /\ job[w].call.call = "webhook" /\ job[w].tx.writes = <<>>
          /\ "gateway.webhook_received" \in TypesOf(Pending(w), job[w].call.order)

\* What a status answer has read of the Order is still so.
SawOrder(o, row) ==
    /\ row.status \in Settled => o \in DOMAIN Stored("receipts") \/ Unbound(Logged, o)
    /\ row.status = "refunded" =>
          /\ o \in DOMAIN Stored("receipts")
          /\ o \in DOMAIN Stored("refundReceipts")
          /\ Stored("refundReceipts")[o].receipt = Stored("receipts")[o]
          /\ Stored("refundReceipts")[o].amountPaise = Stored("receipts")[o].amountPaise
          /\ row.refundReason.refundPaise = Stored("receipts")[o].amountPaise

\* And what it has read of its Receipt.
SawReceipt(o, row, receipts) ==
    /\ receipts \subseteq RowAt(Stored("receipts"), o)
    /\ receipts # {} => row.status \in Settled
    /\ receipts = {} /\ row.status \in Settled => Unbound(Logged, o)
    /\ row.status = "refunded" => receipts # {}
    /\ \A receipt \in receipts : Restates(receipt, o, Stored("payments"))

StatusFits(w) ==
    /\ job[w].step \in {"idle", "get_order_status", "commit", "read_receipt",
                        "read_refund_receipt"}
    /\ job[w].step = "commit" => job[w].after = "idle" /\ job[w].reply.result # "ok"
    /\ job[w].step \in {"read_receipt", "read_refund_receipt"} =>
          "row" \in DOMAIN job[w].seen /\ SawOrder(job[w].call.order, job[w].seen.row)
    /\ job[w].step = "read_refund_receipt" =>
          SawReceipt(job[w].call.order, job[w].seen.row, job[w].seen.receipt)
    /\ job[w].step = "idle" /\ job[w].reply.result = "ok" => StatusIsWhole(job[w].reply)

\* The events and the payment of an Order whose row was read.
SawPurchase(o, row) ==
    /\ row.status \in OrderStatuses
    /\ Recorded[row.status] \subseteq TypesOf(Logged, o)
    /\ row.status \in Settled =>
          {"receipt.issued", "order.anomaly_detected"} \cap TypesOf(Logged, o) # {}
    /\ \E k \in DOMAIN Stored("payments") : Stored("payments")[k].order = o

\* The page's events are on record, of the Order or of the mandates.
ShowsRecord(page, o) ==
    TypesOn(page) \subseteq
        TypesOf(Logged, o) \cup {"mandate.intent_declared", "mandate.cart_created"}

AuditFits(w) ==
    /\ job[w].step \in {"idle", "audit_page", "audit_mandates", "audit_events"}
    /\ job[w].step \in {"audit_mandates", "audit_events"} =>
          /\ "row" \in DOMAIN job[w].seen
          /\ \A row \in job[w].seen.row : SawPurchase(job[w].call.order, row)
    /\ job[w].step = "audit_events" /\ job[w].seen.row # {} =>
          /\ \E k \in job[w].seen.carts : ShowsCart(Logged, k)
          /\ \E i \in job[w].seen.intents : ShowsIntent(Logged, i)
    /\ job[w].step = "idle" /\ job[w].reply.result = "ok" /\ job[w].reply.status # NoField =>
          CoversStatus(job[w].reply) /\ ShowsRecord(job[w].reply, job[w].call.order)

RefusalFits(w) ==
    /\ job[w].step \in {"idle", "refusal_page", "refusal_context"}
    /\ job[w].step = "refusal_context" => job[w].seen \in Logged /\ job[w].seen.type \in RefusalTypes
    /\ job[w].step = "idle" /\ job[w].reply.result = "ok" => RefusalPageIsWhole(job[w].reply)

PagesFit(w) ==
    job[w].call # NoField =>
        /\ job[w].call.call = "get_order_status" => StatusFits(w)
        /\ job[w].call.call = "audit_page" => AuditFits(w)
        /\ job[w].call.call = "refusal_page" => RefusalFits(w)

LocksApart(w) ==
    \A v \in Workers \ {w} : job[v].tx.locks \cap job[w].tx.locks = {}

ReadsFit(w) == TxKept(w) /\ LinkFits(w) /\ HookFits(w) /\ PagesFit(w)

\* The inductive invariant.
ReadsInvariant ==
    /\ BooksKept(db, Logged)
    /\ \A w \in Workers : ReadsFit(w)
    /\ \A w \in Workers : LocksApart(w) /\ LinksAlone(w)
    /\ \A hook \in hooks : IsLinked(hook.order)

-----------------------------------------------------------------------------
(***************************************************************************)
(* What only grows.                                                        *)
(***************************************************************************)
Extends(f, g) == DOMAIN f \subseteq DOMAIN g /\ \A x \in DOMAIN f : g[x] = f[x]

\* What more events show.
LEMMA ShownStays ==
    ASSUME NEW events, NEW more, events \subseteq more
    PROVE  /\ \A o : TypesOf(events, o) \subseteq TypesOf(more, o)
           /\ \A o : Unbound(events, o) => Unbound(more, o)
           /\ \A k : ShowsCart(events, k) => ShowsCart(more, k)
           /\ \A i : ShowsIntent(events, i) => ShowsIntent(more, i)
           /\ \A k, row : CartKept(k, row, events) => CartKept(k, row, more)
           /\ \A e : RefusalKept(e, events) => RefusalKept(e, more)
  <1>1. \A o : TypesOf(events, o) \subseteq TypesOf(more, o)
    BY DEF TypesOf
  <1>2. \A k : ShowsCart(events, k) => ShowsCart(more, k)
    BY DEF ShowsCart
  <1>3. \A i : ShowsIntent(events, i) => ShowsIntent(more, i)
    BY DEF ShowsIntent
  <1>4. \A k, row : CartKept(k, row, events) => CartKept(k, row, more)
    BY <1>2, <1>3 DEF CartKept
  <1>5. \A e : RefusalKept(e, events) => RefusalKept(e, more)
    BY <1>2, <1>3 DEF RefusalKept
  <1>6. \A o : Unbound(events, o) => Unbound(more, o)
    BY DEF Unbound
  <1> QED BY <1>1, <1>2, <1>3, <1>4, <1>5, <1>6

\* A Receipt stays one for a payment that is still there.
LEMMA RestatesStill ==
    ASSUME NEW receipt, NEW o, NEW payments, NEW more, Extends(payments, more),
           Restates(receipt, o, payments)
    PROVE  Restates(receipt, o, more)
  BY DEF Restates, Extends

\* What goes with an Order's row stays so while payments and events are added.
LEMMA OrderStays ==
    ASSUME NEW o, NEW row, NEW payments, NEW receipts, NEW refunds, NEW events,
           NEW paid, NEW more,
           OrderKept(o, row, payments, receipts, refunds, events),
           Extends(payments, paid), events \subseteq more
    PROVE  OrderKept(o, row, paid, receipts, refunds, more)
  <1>1. TypesOf(events, o) \subseteq TypesOf(more, o)
    BY ShownStays
  <1>2. \E k \in DOMAIN paid : paid[k].order = o
    BY DEF OrderKept, Extends
  <1>3. \A receipt \in receipts : Restates(receipt, o, paid)
    BY RestatesStill DEF OrderKept
  <1>4. Unbound(events, o) => Unbound(more, o)
    BY ShownStays
  <1> QED BY <1>1, <1>2, <1>3, <1>4 DEF OrderKept

\* New rows over old ones keep the new ones, and the old ones whose keys are none
\* of theirs.
LEMMA OverExtends ==
    ASSUME NEW f, NEW g
    PROVE  /\ Extends(f, f ++ g)
           /\ DOMAIN f \cap DOMAIN g = {} => Extends(g, f ++ g)
           /\ \A x : RowAt(f ++ g, x) = IF x \in DOMAIN f THEN {f[x]} ELSE RowAt(g, x)
  <1>1. DOMAIN (f ++ g) = DOMAIN f \cup DOMAIN g
    BY DEF ++
  <1>2. \A x \in DOMAIN f \cup DOMAIN g : (f ++ g)[x] = IF x \in DOMAIN f THEN f[x] ELSE g[x]
    BY DEF ++
  <1>3. \A x : RowAt(f ++ g, x) = IF x \in DOMAIN f THEN {f[x]} ELSE RowAt(g, x)
    <2> SUFFICES ASSUME NEW x
                 PROVE  RowAt(f ++ g, x) = IF x \in DOMAIN f THEN {f[x]} ELSE RowAt(g, x)
      OBVIOUS
    <2>1. CASE x \in DOMAIN f
      BY <1>1, <1>2, <2>1 DEF RowAt
    <2>2. CASE x \notin DOMAIN f /\ x \in DOMAIN g
      BY <1>1, <1>2, <2>2 DEF RowAt
    <2>3. CASE x \notin DOMAIN f /\ x \notin DOMAIN g
      BY <1>1, <2>3 DEF RowAt
    <2> QED BY <2>1, <2>2, <2>3
  <1> QED BY <1>1, <1>2, <1>3 DEF Extends

\* The row of a key, or none.
LEMMA RowAtIs ==
    ASSUME NEW table, NEW key
    PROVE  /\ key \in DOMAIN table => RowAt(table, key) = {table[key]}
           /\ key \notin DOMAIN table => RowAt(table, key) = {}
           /\ (RowAt(table, key) # {}) = (key \in DOMAIN table)
  BY DEF RowAt

-----------------------------------------------------------------------------
(***************************************************************************)
(* Steps that commit nothing.                                              *)
(***************************************************************************)
\* The books are what they were: a Variant's stock and prices are none of them.
BooksStay ==
    /\ UNCHANGED log /\ db'.payments = db.payments
    /\ \A t : t # "variants" => RowsOf(db', t) = RowsOf(db, t)

\* What a request knows depends on the books and on itself.
LEMMA SameReads ==
    ASSUME NEW v, ReadsFit(v), job'[v] = job[v], BooksStay
    PROVE  ReadsFit(v)'
  <1>1. /\ \A t : t # "variants" => Stored(t)' = Stored(t)
        /\ \A t : Writes(v, t)' = Writes(v, t)
        /\ Logged' = Logged /\ Pending(v)' = Pending(v)
    BY DEF BooksStay, Stored, Writes, Logged, Pending
  <1>2. (\A t : t # "variants" => View(v, t)' = View(v, t)) /\ Events(v)' = Events(v)
    BY <1>1 DEF View, Events
  <1>3. TxKept(v)'
    <2>1. Guarded(v)' /\ WritesNew(v)' /\ KeepsLink(v)'
      BY <1>1 DEF ReadsFit, TxKept, Guarded, WritesNew, KeepsLink
    <2>2. OrdersKept(v)'
      BY <1>1, <1>2 DEF ReadsFit, TxKept, OrdersKept
    <2>3. MandatesKept(v)'
      BY <1>1, <1>2 DEF ReadsFit, TxKept, MandatesKept
    <2> QED BY <2>1, <2>2, <2>3 DEF TxKept
  <1>4. LinkFits(v)'
    BY <1>1, <1>2 DEF ReadsFit, LinkFits, Linking
  <1>5. HookFits(v)'
    BY <1>1 DEF ReadsFit, HookFits, IsLinked, Refunding, Addressed
  <1>6. PagesFit(v)'
    <2>1. StatusFits(v) => StatusFits(v)'
      BY <1>1 DEF StatusFits, SawOrder, SawReceipt, StatusIsWhole, BooksStay
    <2>2. AuditFits(v) => AuditFits(v)'
      BY <1>1 DEF AuditFits, SawPurchase, CoversStatus, TypesOn, ShowsRecord
    <2>3. RefusalFits(v) => RefusalFits(v)'
      BY <1>1 DEF RefusalFits, RefusalPageIsWhole
    <2> QED BY <2>1, <2>2, <2>3 DEF ReadsFit, PagesFit
  <1> QED BY <1>3, <1>4, <1>5, <1>6 DEF ReadsFit

\* So a step of one request that leaves the books alone is about that request.
LEMMA OneReads ==
    ASSUME ReadsInvariant, NEW w \in Workers, OneMoves(w), BooksStay,
           ReadsFit(w)', LocksApart(w)', \A v \in Workers : LinksAlone(v)',
           \A hook \in hooks' : IsLinked(hook.order)
    PROVE  ReadsInvariant'
  <1>1. \A v \in Workers : ReadsFit(v)'
    BY SameReads DEF ReadsInvariant, OneMoves
  <1>2. \A v \in Workers : LocksApart(v)'
    <2>1. \A v \in Workers \ {w} : \A u \in Workers \ {w, v} :
              job'[u].tx.locks \cap job'[v].tx.locks = {}
      BY DEF ReadsInvariant, LocksApart, OneMoves
    <2>2. \A v \in Workers \ {w} : job'[v].tx.locks \cap job'[w].tx.locks = {}
      BY DEF LocksApart
    <2> QED BY <2>1, <2>2 DEF LocksApart
  <1>3. BooksKept(db, Logged)'
    <2>1. Logged' = Logged /\ \A t : t # "variants" => RowsOf(db', t) = RowsOf(db, t)
      BY DEF Logged, BooksStay
    <2> QED BY <2>1 DEF ReadsInvariant, BooksKept
  <1>4. \A hook \in hooks' : IsLinked(hook.order)'
    BY DEF IsLinked, Stored, BooksStay
  <1> QED BY <1>1, <1>2, <1>3, <1>4 DEF ReadsInvariant

\* Nobody links an Order that carries its link.
LEMMA NotLinking ==
    ASSUME ReadsInvariant, NEW o, IsLinked(o), NEW v \in Workers, Linking(v)
    PROVE  job[v].call.order # o
  <1> SUFFICES ASSUME job[v].call.order = o PROVE FALSE
    OBVIOUS
  <1>1. o \in DOMAIN View(v, "orders") /\ ~View(v, "orders")[o].link
    BY DEF ReadsInvariant, ReadsFit, LinkFits
  <1>2. CASE o \in DOMAIN Writes(v, "orders")
    <2>1. View(v, "orders")[o] = Writes(v, "orders")[o]
      BY <1>2, OverExtends DEF View, Extends
    <2> QED BY <1>1, <1>2, <2>1 DEF ReadsInvariant, ReadsFit, TxKept, KeepsLink, IsLinked
  <1>3. CASE o \notin DOMAIN Writes(v, "orders")
    <2>1. View(v, "orders")[o] = Stored("orders")[o]
      BY <1>1, <1>3 DEF View, ++
    <2> QED BY <1>1, <2>1 DEF IsLinked
  <1> QED BY <1>2, <1>3

\* Who links alone goes on alone while a step starts no linking and writes only
\* Orders that carry their link.
LEMMA AloneStays ==
    ASSUME ReadsInvariant, NEW w \in Workers, OneMoves(w),
           Linking(w)' => Linking(w) /\ job'[w].call.order = job[w].call.order,
           \A o \in DOMAIN Writes(w, "orders")' :
               \/ o \in DOMAIN Writes(w, "orders")
               \/ \A v \in Workers \ {w} : Linking(v) => job[v].call.order # o
    PROVE  \A v \in Workers : LinksAlone(v)'
  <1> SUFFICES ASSUME NEW v \in Workers, Linking(v)', NEW u \in Workers \ {v}
               PROVE  /\ job'[v].call.order \notin DOMAIN Writes(u, "orders")'
                      /\ Linking(u)' => job'[u].call.order # job'[v].call.order
    BY DEF LinksAlone
  <1>1. /\ \A x \in Workers \ {w} : Linking(x)' = Linking(x)
        /\ \A x \in Workers \ {w} : Writes(x, "orders")' = Writes(x, "orders")
    BY DEF OneMoves, Linking, Writes
  <1>2. Linking(v) /\ job'[v].call.order = job[v].call.order
    BY <1>1 DEF OneMoves
  <1>3. /\ job[v].call.order \notin DOMAIN Writes(u, "orders")
        /\ Linking(u) => job[u].call.order # job[v].call.order
    BY <1>2 DEF ReadsInvariant, LinksAlone
  <1>4. Linking(u)' => Linking(u) /\ job'[u].call.order = job[u].call.order
    BY <1>1 DEF OneMoves
  <1>5. job[v].call.order \notin DOMAIN Writes(u, "orders")'
    <2>1. CASE u # w
      BY <1>1, <1>3, <2>1
    <2>2. CASE u = w
      BY <1>2, <1>3, <2>2
    <2> QED BY <2>1, <2>2
  <1> QED BY <1>2, <1>3, <1>4, <1>5

\* The steps of a call that shows no page.
ShowSteps ==
    {"idle", "commit", "get_order_status", "read_receipt", "read_refund_receipt", "audit_page",
     "audit_mandates", "audit_events", "refusal_page", "refusal_context"}

\* A call at any other step is none for a page, and stays none.
LEMMA NoPage ==
    ASSUME NEW w, PagesFit(w), job[w].step \notin ShowSteps, job'[w].call = job[w].call
    PROVE  PagesFit(w)'
  <1>1. ~StatusFits(w) /\ ~AuditFits(w) /\ ~RefusalFits(w)
    BY DEF StatusFits, AuditFits, RefusalFits, ShowSteps
  <1> QED BY <1>1 DEF PagesFit

\* A step that commits nothing leaves the books alone.
LEMMA UnchangedBooks == UNCHANGED <<db, log>> => BooksStay
  BY DEF BooksStay

\* A request with no transaction open has nothing to keep.
LEMMA EmptyTx ==
    ASSUME NEW w, job[w].tx = NoTx
    PROVE  /\ \A t : Writes(w, t) = <<>> /\ DOMAIN Writes(w, t) = {}
           /\ Pending(w) = {} /\ TxKept(w) /\ job[w].tx.locks = {}
  <1>1. \A t : Writes(w, t) = <<>> /\ DOMAIN Writes(w, t) = {}
    BY NothingFits DEF Writes
  <1>2. Pending(w) = {}
    BY NothingFits DEF Pending
  <1>3. Guarded(w) /\ WritesNew(w) /\ KeepsLink(w)
    BY <1>1 DEF Guarded, WritesNew, KeepsLink
  <1>4. OrdersKept(w) /\ MandatesKept(w)
    BY <1>1, <1>2 DEF OrdersKept, MandatesKept
  <1>5. job[w].tx.locks = {}
    BY DEF NoTx
  <1> QED BY <1>1, <1>2, <1>3, <1>4, <1>5 DEF TxKept

\* Nor when it has none any more.
LEMMA EmptyTxNext ==
    ASSUME NEW w, job'[w].tx = NoTx
    PROVE  /\ \A t : Writes(w, t)' = <<>> /\ DOMAIN Writes(w, t)' = {}
           /\ Pending(w)' = {} /\ TxKept(w)' /\ job'[w].tx.locks = {}
  <1>1. \A t : Writes(w, t)' = <<>> /\ DOMAIN Writes(w, t)' = {}
    BY NothingFits DEF Writes
  <1>2. Pending(w)' = {}
    BY NothingFits DEF Pending
  <1>3. Guarded(w)' /\ WritesNew(w)' /\ KeepsLink(w)'
    BY <1>1 DEF Guarded, WritesNew, KeepsLink
  <1>4. OrdersKept(w)' /\ MandatesKept(w)'
    BY <1>1, <1>2 DEF OrdersKept, MandatesKept
  <1>5. job'[w].tx.locks = {}
    BY DEF NoTx
  <1> QED BY <1>1, <1>2, <1>3, <1>4, <1>5 DEF TxKept

\* Outside its transactions a request moves on, towards a link only from where it
\* was already linking.
LEMMA MovedReads ==
    ASSUME StoreInvariant, ReadsInvariant, NEW w \in Workers, NEW j, Moved(w, j), BooksStay,
           job[w].step \notin InTx \cup {"idle"},
           j.step \notin InTx \cup {"attempt_link", "create_link"},
           j.step = "issue_link" => job[w].step = "create_link",
           j.step \in {"refund_call", "refund_record"} => job[w].step = "refund_call",
           PagesFit(w)', \A hook \in hooks' : IsLinked(hook.order)
    PROVE  ReadsInvariant'
  <1>1. /\ OneMoves(w) /\ job'[w] = j /\ job[w].tx = NoTx /\ j.tx = NoTx
        /\ j.call = job[w].call
    BY DEF Moved, OneMoves, StoreInvariant, JobFits, JobShape
  <1>2. /\ TxKept(w)' /\ job'[w].tx.locks = {}
        /\ \A t : Writes(w, t)' = Writes(w, t) /\ DOMAIN Writes(w, t)' = {}
    BY <1>1, EmptyTx, EmptyTxNext
  <1>3. \A t : t # "variants" => Stored(t)' = Stored(t)
    BY DEF BooksStay, Stored
  <1>4. Linking(w)' => Linking(w) /\ job[w].step = "create_link" /\ j.step = "issue_link"
    BY <1>1 DEF Linking, InTx
  <1>5. LinkFits(w)'
    <2>1. View(w, "orders")' = View(w, "orders") /\ Logged' = Logged
      BY <1>2, <1>3 DEF View, BooksStay, Logged
    <2>2. j.step # "commit" /\ j.step # "create_link"
      BY DEF InTx
    <2>3. LinkFits(w)
      BY DEF ReadsInvariant, ReadsFit
    <2> QED BY <1>1, <1>4, <2>1, <2>2, <2>3 DEF LinkFits
  <1>6. HookFits(w)'
    <2>1. HookFits(w)
      BY DEF ReadsInvariant, ReadsFit
    <2> QED BY <1>1, <1>3, <2>1 DEF HookFits, IsLinked, Refunding, Addressed, InTx
  <1>7. \A v \in Workers : LinksAlone(v)'
    BY <1>1, <1>2, <1>4, AloneStays
  <1>8. LocksApart(w)'
    BY <1>2 DEF LocksApart
  <1> QED BY <1>1, <1>2, <1>5, <1>6, <1>7, <1>8, OneReads DEF ReadsFit

\* What a move leaves of the request: a step outside every transaction.
LEMMA Moves ==
    ASSUME StoreInvariant, NEW w \in Workers, NEW step
    PROVE  /\ Go(w, step) =>
                \E j : Moved(w, j) /\ j.step = step /\ j.seen = job[w].seen /\ j.reply = job[w].reply
           /\ \A seen : Read(w, seen, step) =>
                \E j : Moved(w, j) /\ j.step = step /\ j.seen = seen /\ j.reply = job[w].reply
           /\ \A reply : Reply(w, reply) =>
                \E j : Moved(w, j) /\ j.step = "idle" /\ j.reply = reply
           /\ Go(w, step) \/ (\E seen : Read(w, seen, step)) \/ (\E reply : Reply(w, reply)) =>
                BooksStay
  <1>0. DOMAIN job = Workers /\ DOMAIN job[w] = JobFields
    BY DEF StoreInvariant, JobFits, JobShape
  <1>1. ASSUME Go(w, step)
        PROVE  \E j : Moved(w, j) /\ j.step = step /\ j.seen = job[w].seen /\ j.reply = job[w].reply
    <2> DEFINE j == [job[w] EXCEPT !.step = step]
    <2>1. Moved(w, j) /\ j.step = step /\ j.seen = job[w].seen /\ j.reply = job[w].reply
      BY <1>0, <1>1 DEF Go, Moved, JobFields
    <2> QED BY <2>1
  <1>2. ASSUME NEW seen, Read(w, seen, step)
        PROVE  \E j : Moved(w, j) /\ j.step = step /\ j.seen = seen /\ j.reply = job[w].reply
    <2> DEFINE j == [job[w] EXCEPT !.step = step, !.seen = seen]
    <2>1. Moved(w, j) /\ j.step = step /\ j.seen = seen /\ j.reply = job[w].reply
      BY <1>0, <1>2 DEF Read, Moved, JobFields
    <2> QED BY <2>1
  <1>3. ASSUME NEW reply, Reply(w, reply)
        PROVE  \E j : Moved(w, j) /\ j.step = "idle" /\ j.reply = reply
    <2> DEFINE j == [job[w] EXCEPT !.step = "idle", !.reply = reply]
    <2>1. Moved(w, j) /\ j.step = "idle" /\ j.reply = reply
      BY <1>0, <1>3 DEF Reply, Moved, JobFields
    <2> QED BY <2>1
  <1>4. Go(w, step) \/ (\E seen : Read(w, seen, step)) \/ (\E reply : Reply(w, reply)) => BooksStay
    BY UnchangedBooks DEF Go, Read, Reply
  <1> QED BY <1>1, <1>2, <1>3, <1>4

\* A step outside every transaction of a call that shows no page.
LEMMA QuietMoves ==
    ASSUME StoreInvariant, ReadsInvariant, NEW w \in Workers, NEW step,
           Go(w, step) \/ (step = "idle" /\ \E reply : Reply(w, reply)),
           job[w].step \notin InTx \cup ShowSteps,
           step \notin InTx \cup {"attempt_link", "create_link"},
           step = "issue_link" => job[w].step = "create_link",
           step \in {"refund_call", "refund_record"} => job[w].step = "refund_call",
           \A hook \in hooks' : IsLinked(hook.order)
    PROVE  ReadsInvariant'
  <1>1. PICK j : Moved(w, j) /\ j.step = step
    BY Moves
  <1>2. BooksStay
    BY Moves
  <1>3. job'[w].call = job[w].call
    BY <1>1 DEF Moved, StoreInvariant
  <1>4. PagesFit(w)'
    BY <1>3, NoPage DEF ReadsInvariant, ReadsFit
  <1>5. job[w].step \notin InTx \cup {"idle"}
    BY DEF ShowSteps
  <1> QED BY <1>1, <1>2, <1>4, <1>5, MovedReads

\* The webhooks on their way are those that were.
LEMMA HooksStay == ReadsInvariant /\ UNCHANGED hooks => \A hook \in hooks' : IsLinked(hook.order)
  BY DEF ReadsInvariant

-----------------------------------------------------------------------------
(***************************************************************************)
(* Statements of a transaction.                                            *)
(***************************************************************************)
\* What a step inside a transaction does to its request.
LEMMA Executed ==
    ASSUME StoreInvariant, NEW w \in Workers,
           NEW locks, NEW writes, NEW events, NEW step, NEW after, NEW reply,
           Execute(w, locks, writes, events, step, after, reply), Len(events) \in Nat
    PROVE  /\ OneMoves(w) /\ BooksStay /\ UNCHANGED <<db, log>>
           /\ job'[w].step = step /\ job'[w].after = after /\ job'[w].reply = reply
           /\ job'[w].call = job[w].call
           /\ job'[w].tx.locks = job[w].tx.locks \cup locks
           /\ \A t : Writes(w, t)' = RowsOf(writes, t) ++ Writes(w, t)
           /\ Pending(w)' = Pending(w) \cup {events[i] : i \in 1 .. Len(events)}
  <1> DEFINE numbers == drawn + 1 .. drawn + Len(events)
             fresh == [n \in numbers |-> events[n - drawn]]
  <1>0. /\ DOMAIN job = Workers /\ DOMAIN job[w] = JobFields /\ DOMAIN job[w].tx = TxFields
        /\ drawn \in Nat /\ DOMAIN job[w].tx.events \subseteq 1 .. drawn
    BY DEF StoreInvariant, JobFits, JobShape, Numbers
  <1>1. /\ OneMoves(w) /\ job'[w].step = step /\ job'[w].after = after /\ job'[w].reply = reply
        /\ job'[w].call = job[w].call
        /\ job'[w].tx.locks = job[w].tx.locks \cup locks
        /\ job'[w].tx.writes = Over(writes, job[w].tx.writes)
        /\ job'[w].tx.events = fresh ++ job[w].tx.events
    BY <1>0 DEF Execute, OneMoves, JobFields, TxFields
  <1>2. UNCHANGED <<db, log>> /\ BooksStay
    BY UnchangedBooks DEF Execute
  <1>3. \A t : Writes(w, t)' = RowsOf(writes, t) ++ Writes(w, t)
    BY <1>1, OverRows DEF Writes
  <1>4. Pending(w)' = Pending(w) \cup {events[i] : i \in 1 .. Len(events)}
    <2>1. numbers \cap DOMAIN job[w].tx.events = {}
      BY <1>0
    <2>2. DOMAIN fresh = numbers
      OBVIOUS
    <2>3. {fresh[n] : n \in numbers} = {events[i] : i \in 1 .. Len(events)}
      <3>1. \A n \in numbers : n - drawn \in 1 .. Len(events) /\ fresh[n] = events[n - drawn]
        BY <1>0
      <3>2. \A i \in 1 .. Len(events) : drawn + i \in numbers /\ fresh[drawn + i] = events[i]
        BY <1>0
      <3> HIDE DEF fresh, numbers
      <3> QED BY <3>1, <3>2
    <2> HIDE DEF fresh, numbers
    <2> DEFINE all == fresh ++ job[w].tx.events
    <2>4. DOMAIN all = numbers \cup DOMAIN job[w].tx.events
      BY <2>2 DEF ++
    <2>5. \A n \in numbers : all[n] = fresh[n]
      BY <2>2 DEF ++
    <2>6. \A n \in DOMAIN job[w].tx.events : all[n] = job[w].tx.events[n]
      BY <2>1, <2>2 DEF ++
    <2>7. job'[w].tx.events = all
      BY <1>1
    <2> HIDE DEF all
    <2>8. Pending(w)' = {all[n] : n \in DOMAIN all}
      BY <2>7 DEF Pending
    <2>9. {all[n] : n \in DOMAIN all}
              = {fresh[n] : n \in numbers} \cup {job[w].tx.events[n] : n \in DOMAIN job[w].tx.events}
      BY <2>4, <2>5, <2>6
    <2> QED BY <2>3, <2>8, <2>9 DEF Pending
  <1> QED BY <1>1, <1>2, <1>3, <1>4

\* So such a step is about what the request has written, knows and shows.
LEMMA ExecuteReads ==
    ASSUME StoreInvariant, ReadsInvariant, NEW w \in Workers,
           NEW locks, NEW writes, NEW events, NEW step, NEW after, NEW reply,
           Execute(w, locks, writes, events, step, after, reply), Len(events) \in Nat,
           ReadsFit(w)', \A v \in Workers : LinksAlone(v)', UNCHANGED hooks
    PROVE  ReadsInvariant'
  <1>1. /\ OneMoves(w) /\ BooksStay
        /\ job'[w].tx.locks = job[w].tx.locks \cup locks
    BY Executed
  <1>2. LocksApart(w)'
    <2>1. \A v \in Workers \ {w} : job[v].tx.locks \cap locks = {}
      BY DEF Execute, Free
    <2>2. \A v \in Workers \ {w} : job[v].tx.locks \cap job[w].tx.locks = {}
      BY DEF ReadsInvariant, LocksApart
    <2> QED BY <1>1, <2>1, <2>2 DEF LocksApart, OneMoves
  <1> QED BY <1>1, <1>2, HooksStay, OneReads

\* The first statements of a transaction: it writes what they write.
LEMMA FirstWrites ==
    ASSUME StoreInvariant, NEW w \in Workers, job[w].step \notin InTx,
           NEW locks, NEW writes, NEW events, NEW step, NEW after, NEW reply,
           Execute(w, locks, writes, events, step, after, reply), Len(events) \in Nat
    PROVE  /\ job[w].tx = NoTx /\ job'[w].tx.locks = locks
           /\ \A t : DOMAIN Writes(w, t)' = DOMAIN RowsOf(writes, t)
           /\ \A t : \A x \in DOMAIN RowsOf(writes, t) : Writes(w, t)'[x] = RowsOf(writes, t)[x]
           /\ Pending(w)' = {events[i] : i \in 1 .. Len(events)}
  <1>1. job[w].tx = NoTx
    BY DEF StoreInvariant, JobFits, JobShape
  <1>2. (\A t : DOMAIN Writes(w, t) = {}) /\ Pending(w) = {} /\ job[w].tx.locks = {}
    BY <1>1, EmptyTx
  <1>3. /\ \A t : Writes(w, t)' = RowsOf(writes, t) ++ Writes(w, t)
        /\ job'[w].tx.locks = job[w].tx.locks \cup locks
        /\ Pending(w)' = Pending(w) \cup {events[i] : i \in 1 .. Len(events)}
    BY Executed
  <1>4. \A t : DOMAIN Writes(w, t)' = DOMAIN RowsOf(writes, t)
    <2>1. \A t : DOMAIN (RowsOf(writes, t) ++ Writes(w, t)) = DOMAIN RowsOf(writes, t)
      <3> SUFFICES ASSUME NEW t
                   PROVE  DOMAIN (RowsOf(writes, t) ++ Writes(w, t)) = DOMAIN RowsOf(writes, t)
        OBVIOUS
      <3>1. DOMAIN (RowsOf(writes, t) ++ Writes(w, t))
                = DOMAIN RowsOf(writes, t) \cup DOMAIN Writes(w, t)
        BY BothFit
      <3> QED BY <1>2, <3>1
    <2> QED BY <1>3, <2>1
  <1>5. \A t : \A x \in DOMAIN RowsOf(writes, t) : Writes(w, t)'[x] = RowsOf(writes, t)[x]
    BY <1>2, <1>3 DEF ++
  <1> QED BY <1>1, <1>2, <1>3, <1>4, <1>5

\* What is then read through it: its own rows, and the store's others.
LEMMA ViewNext ==
    ASSUME NEW w, NEW t, t # "variants", BooksStay
    PROVE  /\ DOMAIN View(w, t)' = DOMAIN Writes(w, t)' \cup DOMAIN Stored(t)
           /\ \A x \in DOMAIN View(w, t)' :
                 View(w, t)'[x] = IF x \in DOMAIN Writes(w, t)' THEN Writes(w, t)'[x] ELSE Stored(t)[x]
           /\ DOMAIN Writes(w, t)' \cap DOMAIN Stored(t) = {} => Extends(Stored(t), View(w, t)')
           /\ \A x : RowAt(View(w, t)', x) = IF x \in DOMAIN Writes(w, t)' THEN {Writes(w, t)'[x]}
                                             ELSE RowAt(Stored(t), x)
  <1>1. View(w, t)' = Writes(w, t)' ++ Stored(t)
    BY DEF View, BooksStay, Stored
  <1>2. /\ DOMAIN View(w, t)' = DOMAIN Writes(w, t)' \cup DOMAIN Stored(t)
        /\ \A x \in DOMAIN View(w, t)' :
              View(w, t)'[x] = IF x \in DOMAIN Writes(w, t)' THEN Writes(w, t)'[x] ELSE Stored(t)[x]
    BY <1>1 DEF ++
  <1> QED BY <1>1, <1>2, OverExtends

\* No row, where neither has any.
LEMMA NoRowNext ==
    ASSUME BooksStay, NEW w, NEW key
    PROVE  \A t \in {"receipts", "refundReceipts"} :
               DOMAIN Writes(w, t)' = {} /\ key \notin DOMAIN Stored(t) => RowAt(View(w, t)', key) = {}
  <1> SUFFICES ASSUME NEW t \in {"receipts", "refundReceipts"},
                      DOMAIN Writes(w, t)' = {}, key \notin DOMAIN Stored(t)
               PROVE  RowAt(View(w, t)', key) = {}
    OBVIOUS
  <1>1. t # "variants"
    OBVIOUS
  <1>2. RowAt(View(w, t)', key) = IF key \in DOMAIN Writes(w, t)' THEN {Writes(w, t)'[key]}
                                  ELSE RowAt(Stored(t), key)
    BY <1>1, ViewNext, ZenonT(60)
  <1>3. RowAt(Stored(t), key) = {}
    BY RowAtIs
  <1> QED BY <1>2, <1>3

\* A transaction whose statements need nothing between them ends its request, or
\* the request goes on to a link.
LEMMA TransactReads ==
    ASSUME StoreInvariant, ReadsInvariant, NEW w \in Workers,
           NEW locks, NEW writes, NEW events, NEW after, NEW reply,
           Transact(w, locks, writes, events, after, reply), Len(events) \in Nat,
           job[w].step # "idle", UNCHANGED hooks,
           TxKept(w)', LinkFits(w)', PagesFit(w)', \A v \in Workers : LinksAlone(v)',
           after = "refund_call" => Addressed(job[w].call.order)
    PROVE  ReadsInvariant'
  <1> DEFINE step == "commit"
  <1>1. Execute(w, locks, writes, events, step, after, reply) /\ step = "commit"
    BY DEF Transact
  <1> HIDE DEF step
  <1>2. /\ BooksStay /\ job'[w].step = "commit" /\ job'[w].call = job[w].call
        /\ job'[w].after = after
    BY <1>1, Executed
  <1>3. HookFits(w)'
    <2>1. HookFits(w)
      BY DEF ReadsInvariant, ReadsFit
    <2> QED BY <1>2, <2>1 DEF HookFits, IsLinked, Refunding, Addressed, Stored, BooksStay
  <1>4. ReadsFit(w)'
    BY <1>3 DEF ReadsFit
  <1> QED BY <1>1, <1>4, ExecuteReads

\* When it ends there, all depends on its rows and on what it shows.
LEMMA EndsReads ==
    ASSUME StoreInvariant, ReadsInvariant, NEW w \in Workers,
           NEW locks, NEW writes, NEW events, NEW after, NEW reply,
           Transact(w, locks, writes, events, after, reply), Len(events) \in Nat,
           job[w].step \notin InTx \cup {"idle"}, UNCHANGED hooks,
           after \notin {"attempt_link", "create_link"},
           after = "refund_call" => Addressed(job[w].call.order),
           \A o \in DOMAIN RowsOf(writes, "orders") :
               \A v \in Workers \ {w} : Linking(v) => job[v].call.order # o,
           TxKept(w)', PagesFit(w)'
    PROVE  ReadsInvariant'
  <1> DEFINE step == "commit"
  <1>1. Execute(w, locks, writes, events, step, after, reply) /\ step = "commit"
    BY DEF Transact
  <1> HIDE DEF step
  <1>2. /\ OneMoves(w) /\ job'[w].step = "commit" /\ job'[w].after = after
        /\ DOMAIN Writes(w, "orders")' = DOMAIN RowsOf(writes, "orders")
    BY <1>1, Executed, FirstWrites
  <1>3. ~Linking(w)'
    BY <1>2 DEF Linking
  <1>4. LinkFits(w)'
    BY <1>2, <1>3 DEF LinkFits
  <1>5. \A v \in Workers : LinksAlone(v)'
    BY <1>2, <1>3, AloneStays
  <1> QED BY <1>4, <1>5, TransactReads

-----------------------------------------------------------------------------
(***************************************************************************)
(* Mandates, and what is only logged.                                      *)
(***************************************************************************)
\* The tables of a purchase: what a Receipt is about.
PurchaseTables == {"orders", "receipts", "refundReceipts", "payments"}

\* Without rows of these a transaction is about mandates and refusals.
LEMMA OnlyMandates ==
    ASSUME NEW w, \A t \in PurchaseTables : DOMAIN Writes(w, t)' = {}, MandatesKept(w)'
    PROVE  TxKept(w)'
  <1>1. /\ DOMAIN Writes(w, "orders")' = {} /\ DOMAIN Writes(w, "receipts")' = {}
        /\ DOMAIN Writes(w, "refundReceipts")' = {} /\ DOMAIN Writes(w, "payments")' = {}
    BY DEF PurchaseTables
  <1>2. Guarded(w)' /\ WritesNew(w)' /\ KeepsLink(w)' /\ OrdersKept(w)'
    BY <1>1 DEF Guarded, WritesNew, KeepsLink, OrdersKept
  <1> QED BY <1>2 DEF TxKept

\* A call that shows no page does not, whatever its transaction.
LEMMA QuietTransacts ==
    ASSUME StoreInvariant, ReadsInvariant, NEW w \in Workers,
           NEW locks, NEW writes, NEW events, NEW after, NEW reply,
           Transact(w, locks, writes, events, after, reply), Len(events) \in Nat,
           job[w].step \notin ShowSteps
    PROVE  PagesFit(w)'
  <1>1. job'[w].call = job[w].call
    BY Executed DEF Transact
  <1> QED BY <1>1, NoPage DEF ReadsInvariant, ReadsFit

\* One event, and no row.
LEMMA LogsReads ==
    ASSUME StoreInvariant, ReadsInvariant, NEW w \in Workers,
           NEW event, NEW after, NEW reply,
           Transact(w, {}, <<>>, <<event>>, after, reply),
           job[w].step \notin InTx \cup {"idle"}, UNCHANGED hooks,
           after \notin {"attempt_link", "create_link"},
           after = "refund_call" => Addressed(job[w].call.order),
           RefusalKept(event, Logged),
           job[w].step \in ShowSteps => PagesFit(w)'
    PROVE  ReadsInvariant'
  <1> DEFINE events == <<event>>
             step == "commit"
  <1>1. Len(events) = 1 /\ Len(events) \in Nat /\ events[1] = event
    OBVIOUS
  <1>2. Transact(w, {}, <<>>, events, after, reply) /\ Execute(w, {}, <<>>, events, step, after, reply)
    BY DEF Transact
  <1> HIDE DEF events, step
  <1>3. /\ \A t : DOMAIN Writes(w, t)' = {}
        /\ Pending(w)' = {events[i] : i \in 1 .. Len(events)}
    BY <1>1, <1>2, FirstWrites, NothingFits
  <1>4. Pending(w)' = {event}
    BY <1>1, <1>3
  <1>5. UNCHANGED log
    BY <1>2 DEF Execute
  <1>6. MandatesKept(w)'
    BY <1>3, <1>4, <1>5 DEF MandatesKept, Logged
  <1>7. TxKept(w)'
    BY <1>3, <1>6, OnlyMandates
  <1>8. PagesFit(w)'
    BY <1>1, <1>2, QuietTransacts
  <1>9. DOMAIN RowsOf(<<>>, "orders") = {}
    BY NothingFits
  <1> QED BY <1>1, <1>2, <1>7, <1>8, <1>9, EndsReads

\* An event that is no Refusal, or one of another code, has nothing to show.
LEMMA NoChain ==
    ASSUME NEW type, NEW order, NEW payload, NEW events,
           type \notin RefusalTypes \/ payload.code \notin ChainCodes
    PROVE  RefusalKept(Event(type, order, payload), events)
  BY DEF RefusalKept, Event

\* What is said first is what one of the checks says.
LEMMA SaysOne ==
    ASSUME NEW checks, NEW n \in 0 .. 5, DOMAIN checks = 1 .. n,
           FirstObjection(checks) # NoField
    PROVE  \E i \in 1 .. n : checks[i].when /\ FirstObjection(checks) = checks[i].says
  <1> DEFINE raised == {i \in DOMAIN checks : checks[i].when}
  <1>0. raised # {}
    BY DEF FirstObjection
  <1>1. raised \subseteq 1 .. 5
    OBVIOUS
  <1>2. 1 \in raised \/ 2 \in raised \/ 3 \in raised \/ 4 \in raised \/ 5 \in raised
    <2>1. 1 .. 5 = {1, 2, 3, 4, 5}
      OBVIOUS
    <2> HIDE DEF raised
    <2> QED BY <1>0, <1>1, <2>1
  <1>3. \E i \in raised : \A j \in raised : i <= j
    <2> HIDE DEF raised
    <2> QED BY <1>1, <1>2, SMTT(30)
  <1>4. Min(raised) \in raised
    BY <1>3 DEF Min
  <1>5. FirstObjection(checks) = checks[Min(raised)].says
    BY <1>0 DEF FirstObjection
  <1> QED BY <1>4, <1>5

\* An objection, whether it is logged or only answered.
LEMMA ObjectReads ==
    ASSUME StoreInvariant, ReadsInvariant, NEW w \in Workers, NEW says, NEW type, NEW context,
           Object(w, says, type, context), UNCHANGED hooks,
           job[w].step \notin InTx \cup {"idle"},
           RefusalKept(Event(type, NoField,
                             [code |-> says.code, reason |-> says.code,
                              recoverable |-> says.recoverable] ++ context), Logged),
           job[w].step \in ShowSteps => PagesFit(w)'
    PROVE  ReadsInvariant'
  <1> DEFINE event == Event(type, NoField,
                            [code |-> says.code, reason |-> says.code,
                             recoverable |-> says.recoverable] ++ context)
  <1>1. CASE says.result = "refusal"
    <2>1. Transact(w, {}, <<>>, <<event>>, "idle", says)
      BY <1>1 DEF Object
    <2>2. RefusalKept(event, Logged)
      OBVIOUS
    <2> HIDE DEF event
    <2> QED BY <2>1, <2>2, LogsReads
  <1>2. CASE says.result # "refusal"
    <2>1. Reply(w, says)
      BY <1>2 DEF Object
    <2>2. PICK j : Moved(w, j) /\ j.step = "idle"
      BY <2>1, Moves
    <2>3. BooksStay
      BY <2>1, Moves
    <2>4. PagesFit(w)'
      <3>1. job'[w].call = job[w].call
        BY <2>2 DEF Moved, StoreInvariant
      <3> QED BY <3>1, NoPage DEF ReadsInvariant, ReadsFit
    <2>5. \A hook \in hooks' : IsLinked(hook.order)
      BY HooksStay
    <2> HIDE DEF event
    <2> QED BY <2>2, <2>3, <2>4, <2>5, MovedReads DEF InTx
  <1> QED BY <1>1, <1>2

\* An unknown caller is told so, and that is logged.
LEMMA StrangerReads ==
    ASSUME StoreInvariant, ReadsInvariant, NEW w \in Workers, RefuseStranger(w)
    PROVE  ReadsInvariant'
  <1> DEFINE says == Refusal("UNREGISTERED_AGENT", TRUE)
             type == "agent.refused"
             payload == [code |-> says.code, reason |-> says.code,
                         recoverable |-> says.recoverable] ++ <<>>
             event == Event(type, NoField, payload)
  <1>1. /\ job[w].step \in TokenSteps /\ job[w].step \notin InTx \cup {"idle"} /\ UNCHANGED hooks
        /\ Object(w, says, type, <<>>)
    BY DEF RefuseStranger, TokenSteps, InTx
  <1>2. payload.code = "UNREGISTERED_AGENT"
    BY DEF Refusal, ++
  <1>3. RefusalKept(event, Logged)
    <2> HIDE DEF payload, type
    <2> QED BY <1>2, NoChain DEF ChainCodes
  <1>4. says.result = "refusal"
    BY DEF Refusal
  <1>5. ASSUME job[w].step \in ShowSteps PROVE PagesFit(w)'
    <2>1. job[w].step = "get_order_status"
      BY <1>1, <1>5 DEF ShowSteps, TokenSteps
    <2>2. job[w].call.call = "get_order_status"
      BY <2>1 DEF StoreInvariant, JobFits, CallKnown, ClientCalls
    <2>3. Transact(w, {}, <<>>, <<event>>, "idle", says)
      BY <1>1, <1>4 DEF Object
    <2> DEFINE step == "commit"
               events == <<event>>
    <2>4. Execute(w, {}, <<>>, events, step, "idle", says) /\ Len(events) \in Nat
      BY <2>3 DEF Transact
    <2>5. step = "commit"
      OBVIOUS
    <2>6. says.result # "ok"
      BY <1>4
    <2> HIDE DEF step, events, says
    <2>7. /\ job'[w].step = "commit" /\ job'[w].after = "idle" /\ job'[w].reply = says
          /\ job'[w].call = job[w].call
      BY <2>4, <2>5, Executed
    <2>8. StatusFits(w)'
      BY <2>6, <2>7 DEF StatusFits
    <2> QED BY <2>2, <2>7, <2>8 DEF PagesFit
  <1> HIDE DEF says, type
  <1>6. RefusalKept(Event(type, NoField, [code |-> says.code, reason |-> says.code,
                                          recoverable |-> says.recoverable] ++ <<>>), Logged)
    BY <1>3
  <1> HIDE DEF payload, event
  <1> QED BY <1>1, <1>5, <1>6, ObjectReads

\* A row of an Agent, an Intent or a Cart, with the event that shows it.
LEMMA MandateReads ==
    ASSUME StoreInvariant, ReadsInvariant, NEW w \in Workers,
           NEW locks, NEW writes, NEW event, NEW reply,
           Transact(w, locks, writes, <<event>>, "idle", reply), UNCHANGED hooks,
           job[w].step \notin InTx \cup ShowSteps, event.type \notin RefusalTypes,
           \A t \in PurchaseTables : t \notin DOMAIN writes,
           \A k \in DOMAIN RowsOf(writes, "carts") :
               CartKept(k, RowsOf(writes, "carts")[k], Logged \cup {event}),
           \A i \in DOMAIN RowsOf(writes, "intents") :
               i # NoField /\ ShowsIntent(Logged \cup {event}, i)
    PROVE  ReadsInvariant'
  <1> DEFINE events == <<event>>
             step == "commit"
             after == "idle"
  <1>1. Len(events) = 1 /\ Len(events) \in Nat /\ events[1] = event
    OBVIOUS
  <1>2. /\ Transact(w, locks, writes, events, after, reply)
        /\ Execute(w, locks, writes, events, step, after, reply)
        /\ after \notin {"attempt_link", "create_link"}
    BY DEF Transact
  <1> HIDE DEF events, step, after
  <1>3. /\ \A t : DOMAIN Writes(w, t)' = DOMAIN RowsOf(writes, t)
        /\ \A t : \A x \in DOMAIN RowsOf(writes, t) : Writes(w, t)'[x] = RowsOf(writes, t)[x]
        /\ Pending(w)' = {events[i] : i \in 1 .. Len(events)}
    BY <1>1, <1>2, FirstWrites
  <1>4. Pending(w)' = {event}
    BY <1>1, <1>3
  <1>5. Logged' = Logged /\ Events(w)' = Logged \cup {event}
    BY <1>2, <1>4 DEF Execute, Logged, Events
  <1>6. \A t \in PurchaseTables : RowsOf(writes, t) = <<>> /\ DOMAIN RowsOf(writes, t) = {}
    BY NothingFits DEF RowsOf
  <1>7. MandatesKept(w)'
    <2>1. \A k \in DOMAIN Writes(w, "carts")' :
              CartKept(k, Writes(w, "carts")'[k], Logged \cup {event})
      BY <1>3
    <2>2. \A i \in DOMAIN Writes(w, "intents")' : i # NoField /\ ShowsIntent(Logged \cup {event}, i)
      BY <1>3
    <2>3. \A e \in Pending(w)' : RefusalKept(e, Logged)
      BY <1>4 DEF RefusalKept
    <2> QED BY <1>5, <2>1, <2>2, <2>3 DEF MandatesKept
  <1>8. TxKept(w)'
    BY <1>3, <1>6, <1>7, OnlyMandates
  <1>9. PagesFit(w)' /\ job[w].step # "idle"
    BY <1>1, <1>2, QuietTransacts DEF ShowSteps
  <1>10. DOMAIN RowsOf(writes, "orders") = {}
    BY <1>6 DEF PurchaseTables
  <1> QED BY <1>1, <1>2, <1>8, <1>9, <1>10, EndsReads

\* A new Agent, or none.
LEMMA RegisterAgentReads ==
    ASSUME StoreInvariant, ReadsInvariant, NEW w \in Workers, RegisterAgent(w)
    PROVE  ReadsInvariant'
  <1> DEFINE c == job[w].call
             rows == [agents |-> Entry(c.agent, [capPaise |-> c.capPaise, custody |-> c.custody])]
             event == Event("agent.registered", NoField,
                            [agentId |-> c.agent, capPaise |-> c.capPaise])
  <1>1. job[w].step \notin InTx \cup ShowSteps /\ UNCHANGED hooks
    BY DEF RegisterAgent, InTx, ShowSteps
  <1>2. \/ Reply(w, Invalid("INVALID_CAP"))
        \/ Transact(w, {<<"agents", c.agent>>}, rows, <<event>>, "idle",
                    Ok([agent |-> c.agent]))
    BY DEF RegisterAgent
  <1>3. DOMAIN rows = {"agents"}
    OBVIOUS
  <1>4. event.type \notin RefusalTypes
    BY DEF Event, RefusalTypes
  <1>5. CASE Reply(w, Invalid("INVALID_CAP"))
    BY <1>1, <1>5, HooksStay, QuietMoves DEF InTx
  <1> HIDE DEF rows, event
  <1>6. CASE Transact(w, {<<"agents", c.agent>>}, rows, <<event>>, "idle",
                      Ok([agent |-> c.agent]))
    <2>1. RowsOf(rows, "carts") = <<>> /\ RowsOf(rows, "intents") = <<>>
      BY <1>3 DEF RowsOf
    <2>2. \A t \in PurchaseTables : t \notin DOMAIN rows
      BY <1>3 DEF PurchaseTables
    <2>3. DOMAIN RowsOf(rows, "carts") = {} /\ DOMAIN RowsOf(rows, "intents") = {}
      BY <2>1, NothingFits
    <2> QED BY <1>1, <1>4, <1>6, <2>2, <2>3, MandateReads
  <1> QED BY <1>2, <1>5, <1>6

\* A new Intent with the event that shows it, or none.
LEMMA DeclareIntentReads ==
    ASSUME StoreInvariant, ReadsInvariant, NEW w \in Workers, DeclareIntent(w)
    PROVE  ReadsInvariant'
  <1> DEFINE c == job[w].call
             checks == <<Check(c.budgetPaise <= 0, Invalid("INVALID_BUDGET")),
                         Check(CustodyMismatch(c.token, c.signs), Invalid("CUSTODY_MISMATCH")),
                         Check(c.signs = "other bytes", Refusal("INVALID_MANDATE", FALSE))>>
             says == FirstObjection(checks)
             type == "mandate.refused"
             rows == [intents |-> Entry(c.intent, [agentId |-> c.token,
                                                   budgetPaise |-> c.budgetPaise,
                                                   consumedBy |-> NoField])]
             event == Event("mandate.intent_declared", NoField,
                            [agentId |-> c.token, intentHash |-> c.intent,
                             budgetPaise |-> c.budgetPaise])
             locks == {<<"intents", c.intent>>}
  <1>1. /\ job[w].step \notin InTx \cup ShowSteps /\ UNCHANGED hooks /\ job[w].step = "declare_intent"
        /\ "idle" \in ShowSteps
    BY DEF DeclareIntent, Registered, InTx, ShowSteps
  <1>2. \/ says # NoField /\ Object(w, says, type, <<>>)
        \/ Reply(w, InternalError)
        \/ Transact(w, locks, rows, <<event>>, "idle", Ok([intent |-> c.intent]))
    BY DEF DeclareIntent
  <1>3. CASE says # NoField /\ Object(w, says, type, <<>>)
    <2>1. /\ DOMAIN checks = 1 .. 3
          /\ checks[1].says.code = "INVALID_BUDGET" /\ checks[2].says.code = "CUSTODY_MISMATCH"
          /\ checks[3].says.code = "INVALID_MANDATE"
      <3>1. /\ checks[1].says = Invalid("INVALID_BUDGET")
            /\ checks[2].says = Invalid("CUSTODY_MISMATCH")
            /\ checks[3].says = Refusal("INVALID_MANDATE", FALSE)
        BY DEF Check
      <3>2. DOMAIN checks = 1 .. 3
        OBVIOUS
      <3> HIDE DEF checks
      <3> QED BY <3>1, <3>2 DEF Invalid, Refusal
    <2> HIDE DEF checks, type
    <2>2. says.code \in {"INVALID_BUDGET", "CUSTODY_MISMATCH", "INVALID_MANDATE"}
      BY <1>3, <2>1, SaysOne
    <2> HIDE DEF says
    <2> DEFINE payload == [code |-> says.code, reason |-> says.code,
                           recoverable |-> says.recoverable] ++ <<>>
    <2>3. payload.code = says.code
      BY DEF ++
    <2>4. RefusalKept(Event(type, NoField, payload), Logged)
      <3> HIDE DEF payload
      <3> QED BY <2>2, <2>3, NoChain DEF ChainCodes
    <2> QED BY <1>1, <1>3, <2>4, ObjectReads
  <1>4. CASE Transact(w, locks, rows, <<event>>, "idle", Ok([intent |-> c.intent]))
    <2>1. c.intent # NoField
      BY <1>1 DEF StoreInvariant, JobFits, CallKnown, ClientCalls, CallFits
    <2>2. /\ event.type = "mandate.intent_declared" /\ event.order = NoField
          /\ Field(event, "intentHash") = c.intent
      BY DEF Event, Field
    <2>3. DOMAIN rows = {"intents"} /\ DOMAIN rows["intents"] = {c.intent}
      BY DEF Entry
    <2> HIDE DEF rows, event, checks, says, type
    <2>4. DOMAIN RowsOf(rows, "intents") = {c.intent} /\ RowsOf(rows, "carts") = <<>>
      BY <2>3 DEF RowsOf
    <2>5. ShowsIntent(Logged \cup {event}, c.intent)
      BY <2>2 DEF ShowsIntent
    <2>6. DOMAIN RowsOf(rows, "carts") = {}
      BY <2>4, NothingFits
    <2>7. \A t \in PurchaseTables : t \notin DOMAIN rows
      BY <2>3 DEF PurchaseTables
    <2>8. event.type \notin RefusalTypes
      BY <2>2 DEF RefusalTypes
    <2> HIDE DEF locks
    <2> QED BY <1>1, <1>4, <2>1, <2>4, <2>5, <2>6, <2>7, <2>8, MandateReads
  <1>5. CASE Reply(w, InternalError)
    BY <1>1, <1>5, HooksStay, QuietMoves DEF InTx
  <1> QED BY <1>2, <1>3, <1>4, <1>5

\* A new Cart with the event that shows it, under an Intent that is shown, or none.
LEMMA CreateCartReads ==
    ASSUME StoreInvariant, ReadsInvariant, NEW w \in Workers, CreateCart(w)
    PROVE  ReadsInvariant'
  <1> DEFINE c == job[w].call
             checks == <<Check(~Own(db.intents, c.intent, c.token), Invalid("INTENT_NOT_FOUND")),
                         Check(DOMAIN c.items = {}, Invalid("INVALID_CART_ITEMS")),
                         Check(\E i \in DOMAIN c.items : c.items[i].quantity < 1,
                               Invalid("INVALID_QUANTITY")),
                         Check(\E i, j \in DOMAIN c.items :
                                   i # j /\ c.items[i].variantId = c.items[j].variantId,
                               Invalid("INVALID_CART_ITEMS")),
                         Check(\E i \in DOMAIN c.items : ~Published(c.items[i].variantId),
                               Invalid("VARIANT_NOT_FOUND"))>>
             items == Pinned(c.items)
             row == [agentId |-> c.token, intent |-> c.intent, items |-> items,
                     totalPaise |-> CartTotal(items),
                     signed |-> db.agents[c.token].custody = "custodial"]
             rows == [carts |-> Entry(c.cart, row)]
             event == Event("mandate.cart_created", NoField,
                            [agentId |-> c.token, cartHash |-> c.cart, intentHash |-> c.intent,
                             items |-> items, totalAmountPaise |-> CartTotal(items)])
             locks == {<<"carts", c.cart>>}
             reply == Ok([cart |-> c.cart, agent |-> c.token, intent |-> c.intent,
                          totalPaise |-> CartTotal(items),
                          signed |-> db.agents[c.token].custody = "custodial"])
  <1>1. /\ job[w].step \notin InTx \cup ShowSteps /\ UNCHANGED hooks /\ job[w].step = "create_cart"
    BY DEF CreateCart, Registered, InTx, ShowSteps
  <1>2. CASE FirstObjection(checks) # NoField
    <2>1. Reply(w, FirstObjection(checks))
      BY <1>2 DEF CreateCart
    <2> HIDE DEF checks
    <2> QED BY <1>1, <2>1, HooksStay, QuietMoves DEF InTx
  <1>3. CASE FirstObjection(checks) = NoField /\ c.cart \in DOMAIN db.carts
    <2>1. Reply(w, InternalError)
      BY <1>3 DEF CreateCart
    <2> QED BY <1>1, <2>1, HooksStay, QuietMoves DEF InTx
  <1>4. CASE FirstObjection(checks) = NoField /\ c.cart \notin DOMAIN db.carts
    <2>1. ~ checks[1].when
      <3>1. DOMAIN checks = 1 .. 5
        OBVIOUS
      <3>2. \A i \in 1 .. 5 : checks[i].says # NoField
        <4>1. /\ checks[1].says = Invalid("INTENT_NOT_FOUND")
              /\ checks[2].says = Invalid("INVALID_CART_ITEMS")
              /\ checks[3].says = Invalid("INVALID_QUANTITY")
              /\ checks[4].says = Invalid("INVALID_CART_ITEMS")
              /\ checks[5].says = Invalid("VARIANT_NOT_FOUND")
          BY DEF Check
        <4> HIDE DEF checks
        <4> QED BY <4>1, NoFieldAssumption DEF ValidationCode
      <3> HIDE DEF checks
      <3> QED BY <1>4, <3>1, <3>2, NothingObjected
    <2>2. Own(db.intents, c.intent, c.token)
      BY <2>1 DEF Check
    <2>3. c.intent # NoField /\ ShowsIntent(Logged, c.intent)
      <3>1. c.intent \in DOMAIN RowsOf(db, "intents")
        BY <2>2 DEF Own, StoreInvariant, RowsOf, Tables
      <3> QED BY <3>1 DEF ReadsInvariant, BooksKept
    <2>4. c.cart # NoField
      BY <1>1 DEF StoreInvariant, JobFits, CallKnown, ClientCalls, CallFits
    <2>5. Transact(w, locks, rows, <<event>>, "idle", reply)
      BY <1>4 DEF CreateCart
    <2>6. /\ event.type = "mandate.cart_created" /\ event.order = NoField
          /\ Field(event, "cartHash") = c.cart
      BY DEF Event, Field
    <2>7. "intent" \in DOMAIN row /\ row.intent = c.intent
      OBVIOUS
    <2>8. DOMAIN rows = {"carts"} /\ rows["carts"] = Entry(c.cart, row)
      OBVIOUS
    <2> HIDE DEF rows, row, event, checks, items, reply, locks
    <2>9. DOMAIN RowsOf(rows, "carts") = {c.cart} /\ RowsOf(rows, "carts")[c.cart] = row
      BY <2>8, OneRow DEF RowsOf
    <2>10. CartKept(c.cart, row, Logged \cup {event})
      <3>1. ShowsCart(Logged \cup {event}, c.cart)
        BY <2>6 DEF ShowsCart
      <3>2. ShowsIntent(Logged \cup {event}, row.intent)
        BY <2>3, <2>7 DEF ShowsIntent
      <3> QED BY <2>3, <2>4, <2>7, <3>1, <3>2 DEF CartKept
    <2>11. DOMAIN RowsOf(rows, "intents") = {}
      BY <2>8, NothingFits DEF RowsOf
    <2>12. \A t \in PurchaseTables : t \notin DOMAIN rows
      BY <2>8 DEF PurchaseTables
    <2>13. event.type \notin RefusalTypes
      BY <2>6 DEF RefusalTypes
    <2> QED BY <1>1, <2>5, <2>9, <2>10, <2>11, <2>12, <2>13, MandateReads
  <1> QED BY <1>2, <1>3, <1>4

-----------------------------------------------------------------------------
(***************************************************************************)
(* The trust gate, the Order and its payment link.                         *)
(***************************************************************************)
\* A payment refused for a Cart of the store names what is shown of it.
LEMMA RefusePaymentReads ==
    ASSUME StoreInvariant, ReadsInvariant, NEW w \in Workers, NEW says, RefusePayment(w, says),
           job[w].step \notin InTx \cup ShowSteps, UNCHANGED hooks,
           says.code \in ChainCodes => job[w].call.cart \in DOMAIN RowsOf(db, "carts")
    PROVE  ReadsInvariant'
  <1> DEFINE c == job[w].call
             chain == ChainOf(c)
             said == [code |-> says.code, reason |-> says.code, recoverable |-> says.recoverable]
             payload == said ++ chain
             type == "payment.refused"
  <1>1. Object(w, says, type, chain)
    BY DEF RefusePayment
  <1>2. payload.code = says.code
    BY DEF ++
  <1>3. /\ {"cartHash", "intentHash"} \subseteq DOMAIN payload
        /\ payload.cartHash = c.cart /\ payload.intentHash = db.carts[c.cart].intent
    BY DEF ++, ChainOf
  <1> HIDE DEF type, chain, payload
  <1>4. RefusalKept(Event(type, NoField, payload), Logged)
    <2>1. CASE says.code \notin ChainCodes
      BY <1>2, <2>1, NoChain
    <2>2. CASE says.code \in ChainCodes
      <3>1. db.carts = RowsOf(db, "carts")
        BY DEF StoreInvariant, RowsOf, Tables
      <3>2. CartKept(c.cart, db.carts[c.cart], Logged)
        BY <2>2, <3>1 DEF ReadsInvariant, BooksKept
      <3> QED BY <1>3, <3>2 DEF CartKept, RefusalKept, Event
    <2> QED BY <2>1, <2>2
  <1>5. RefusalKept(Event(type, NoField, said ++ chain), Logged)
    BY <1>4 DEF payload
  <1>6. job[w].step \notin InTx \cup {"idle"} /\ job[w].step \notin ShowSteps
    BY DEF ShowSteps
  <1> QED BY <1>1, <1>5, <1>6, ObjectReads

\* The gate.
LEMMA VerifyPaymentReads ==
    ASSUME StoreInvariant, ReadsInvariant, NEW w \in Workers, VerifyPayment(w)
    PROVE  ReadsInvariant'
  <1> DEFINE c == job[w].call
             checks == <<Check(~Own(db.carts, c.cart, c.token), Invalid("CART_NOT_FOUND")),
                         Check(\E signs \in {c.signs, c.signsCart} : CustodyMismatch(c.token, signs),
                               Invalid("CUSTODY_MISMATCH"))>>
  <1>1. /\ job[w].step \notin InTx \cup ShowSteps /\ UNCHANGED hooks
        /\ \A step \in {"idle", "key_known", "place_order"} :
              step \notin InTx \cup {"attempt_link", "create_link", "issue_link"}
    BY DEF VerifyPayment, Registered, InTx, ShowSteps
  <1>2. \/ Reply(w, FirstObjection(checks))
        \/ Go(w, "key_known")
        \/ FirstObjection(checks) = NoField /\ \E says : RefusePayment(w, says)
        \/ Go(w, "place_order")
    BY Zenon DEF VerifyPayment
  <1>3. ASSUME NEW says, FirstObjection(checks) = NoField, RefusePayment(w, says)
        PROVE  ReadsInvariant'
    <2>1. DOMAIN checks = 1 .. 2 /\ \A i \in 1 .. 2 : checks[i].says # NoField
      <3>1. checks[1].says = Invalid("CART_NOT_FOUND") /\ checks[2].says = Invalid("CUSTODY_MISMATCH")
        BY DEF Check
      <3>2. DOMAIN checks = 1 .. 2
        OBVIOUS
      <3> HIDE DEF checks
      <3> QED BY <3>1, <3>2, NoFieldAssumption DEF ValidationCode
    <2>2. ~ checks[1].when
      <3> HIDE DEF checks
      <3> QED BY <1>3, <2>1, NothingObjected
    <2>3. Own(db.carts, c.cart, c.token)
      BY <2>2 DEF Check
    <2>4. c.cart \in DOMAIN RowsOf(db, "carts")
      BY <2>3 DEF Own, StoreInvariant, RowsOf, Tables
    <2> QED BY <1>1, <1>3, <2>4, RefusePaymentReads
  <1> HIDE DEF checks
  <1>4. CASE Reply(w, FirstObjection(checks))
    BY <1>1, <1>4, HooksStay, QuietMoves
  <1>5. CASE Go(w, "key_known")
    BY <1>1, <1>5, HooksStay, QuietMoves
  <1>6. CASE Go(w, "place_order")
    BY <1>1, <1>6, HooksStay, QuietMoves
  <1> QED BY <1>2, <1>3, <1>4, <1>5, <1>6

\* A replay.
LEMMA ReplayReads ==
    ASSUME StoreInvariant, ReadsInvariant, NEW w \in Workers, ReplayOrRefuse(w)
    PROVE  ReadsInvariant'
  <1>1. /\ job[w].step \notin InTx \cup ShowSteps /\ UNCHANGED hooks
        /\ "idle" \notin InTx \cup {"attempt_link", "create_link", "issue_link"}
    BY DEF ReplayOrRefuse, InTx, ShowSteps
  <1>2. \/ RefusePayment(w, Refusal("IDEMPOTENCY_REUSE", TRUE))
        \/ Reply(w, InternalError)
        \/ \E order, payload, reply :
              Transact(w, {}, <<>>, <<Event("payment.replayed", order, payload)>>, "idle", reply)
    BY Zenon DEF ReplayOrRefuse
  <1>3. CASE RefusePayment(w, Refusal("IDEMPOTENCY_REUSE", TRUE))
    <2>1. Refusal("IDEMPOTENCY_REUSE", TRUE).code \notin ChainCodes
      BY DEF Refusal, ChainCodes
    <2> QED BY <1>1, <1>3, <2>1, RefusePaymentReads
  <1>4. CASE Reply(w, InternalError)
    BY <1>1, <1>4, HooksStay, QuietMoves
  <1>5. ASSUME NEW order, NEW payload, NEW reply,
               Transact(w, {}, <<>>, <<Event("payment.replayed", order, payload)>>, "idle", reply)
        PROVE  ReadsInvariant'
    <2> DEFINE type == "payment.replayed"
               after == "idle"
    <2>1. type \notin RefusalTypes /\ after \notin {"attempt_link", "create_link", "refund_call"}
      BY DEF RefusalTypes
    <2>2. Transact(w, {}, <<>>, <<Event(type, order, payload)>>, after, reply)
      BY <1>5
    <2> HIDE DEF type, after
    <2>3. RefusalKept(Event(type, order, payload), Logged)
      BY <2>1, NoChain
    <2>4. job[w].step \notin InTx \cup {"idle"} /\ job[w].step \notin ShowSteps
      BY <1>1 DEF ShowSteps
    <2> QED BY <1>1, <2>1, <2>2, <2>3, <2>4, LogsReads
  <1> QED BY <1>2, <1>3, <1>4, <1>5

\* A row written over an Order's that carries its link or keeps its status, where
\* nothing else of the purchase changes.
LEMMA RowRewritten ==
    ASSUME NEW o, NEW row, NEW new, NEW payments, NEW receipts, NEW refunds, NEW events, NEW more,
           OrderKept(o, row, payments, receipts, refunds, events), events \subseteq more,
           DOMAIN row \subseteq DOMAIN new, new.link = row.link,
           row.link \/ new.status = row.status,
           new.amountPaise = row.amountPaise, new.refundReason = row.refundReason,
           new.gatewayPaymentId = row.gatewayPaymentId,
           (new.status \in Settled) = (row.status \in Settled),
           (new.status = "refunded") = (row.status = "refunded"),
           new.status = row.status \/ Recorded[new.status] \subseteq TypesOf(more, o)
    PROVE  OrderKept(o, new, payments, receipts, refunds, more)
  <1>1. TypesOf(events, o) \subseteq TypesOf(more, o) /\ (Unbound(events, o) => Unbound(more, o))
    BY ShownStays
  <1>2. Recorded[new.status] \subseteq TypesOf(more, o)
    BY <1>1 DEF OrderKept
  <1> QED BY <1>1, <1>2 DEF OrderKept

\* A transaction about one Order's row, and what goes with it.
LEMMA OneOrderKept ==
    ASSUME BooksStay, NEW w, NEW o,
           DOMAIN Writes(w, "orders")' = {o}, <<"orders", o>> \in job'[w].tx.locks,
           DOMAIN Writes(w, "receipts")' \subseteq {o} \ DOMAIN Stored("receipts"),
           DOMAIN Writes(w, "refundReceipts")' \subseteq {o} \ DOMAIN Stored("refundReceipts"),
           \A t \in {"payments", "carts", "intents"} : DOMAIN Writes(w, t)' = {},
           IsLinked(o) => Writes(w, "orders")'[o].link,
           Addressed(o) => Writes(w, "orders")'[o].gatewayPaymentId # NoField,
           OrderKept(o, Writes(w, "orders")'[o], Stored("payments"),
                     RowAt(View(w, "receipts")', o), RowAt(View(w, "refundReceipts")', o),
                     Logged \cup Pending(w)'),
           \A e \in Pending(w)' : RefusalKept(e, Logged)
    PROVE  TxKept(w)'
  <1>1. \A t : t # "variants" => Stored(t)' = Stored(t)
    BY DEF BooksStay, Stored
  <1>2. Logged' = Logged
    BY DEF BooksStay, Logged
  <1>3. Guarded(w)'
    BY DEF Guarded
  <1>4. WritesNew(w)'
    BY <1>1 DEF WritesNew
  <1>5. KeepsLink(w)'
    BY <1>1 DEF KeepsLink, IsLinked, Addressed
  <1>6. OrdersKept(w)'
    <2>1. Extends(Stored("payments"), View(w, "payments")')
      BY ViewNext
    <2>2. OrderKept(o, Writes(w, "orders")'[o], View(w, "payments")',
                    RowAt(View(w, "receipts")', o), RowAt(View(w, "refundReceipts")', o),
                    Logged \cup Pending(w)')
      BY <2>1, OrderStays
    <2>3. Events(w)' = Logged \cup Pending(w)'
      BY <1>2 DEF Events
    <2> QED BY <2>2, <2>3 DEF OrdersKept
  <1>7. MandatesKept(w)'
    BY <1>2 DEF MandatesKept
  <1> QED BY <1>3, <1>4, <1>5, <1>6, <1>7 DEF TxKept

\* The rows of an Order, as its own transaction finds them.
LEMMA OrderBook ==
    ASSUME StoreInvariant, ReadsInvariant, NEW o \in DOMAIN Stored("orders")
    PROVE  /\ OrderKept(o, Stored("orders")[o], Stored("payments"), RowAt(Stored("receipts"), o),
                        RowAt(Stored("refundReceipts"), o), Logged)
           /\ \A t \in Tables : db[t] = Stored(t)
  <1>1. \A t \in Tables : db[t] = Stored(t)
    BY DEF StoreInvariant, Stored, RowsOf
  <1> QED BY <1>1 DEF ReadsInvariant, BooksKept, Stored

\* The attempt is logged before the gateway is asked.
LEMMA AttemptLinkReads ==
    ASSUME StoreInvariant, ReadsInvariant, NEW w \in Workers, AttemptLink(w)
    PROVE  ReadsInvariant'
  <1> DEFINE o == job[w].call.order
             event == Event("gateway.payment_link_attempted", o,
                            [amountPaise |-> db.orders[o].amountPaise])
             events == <<event>>
             step == "commit"
             after == "create_link"
  <1>1. /\ job[w].step \notin InTx \cup ShowSteps /\ job[w].step = "attempt_link" /\ UNCHANGED hooks
        /\ job[w].step # "idle"
    BY DEF AttemptLink, InTx, ShowSteps
  <1>2. /\ Transact(w, {}, <<>>, events, after, NoField)
        /\ Execute(w, {}, <<>>, events, step, after, NoField)
    BY DEF AttemptLink, Transact
  <1>3. Len(events) = 1 /\ Len(events) \in Nat /\ events[1] = event
    OBVIOUS
  <1>4. event.type = "gateway.payment_link_attempted" /\ event.order = o
    BY DEF Event
  <1>5. step = "commit" /\ after = "create_link"
    OBVIOUS
  <1> HIDE DEF events, event, step, after
  <1>6. /\ OneMoves(w) /\ BooksStay /\ job'[w].step = step /\ job'[w].after = after
        /\ job'[w].call = job[w].call
    BY <1>2, <1>3, Executed
  <1>7. /\ job[w].tx = NoTx /\ (\A t : DOMAIN Writes(w, t)' = {})
        /\ Pending(w)' = {events[i] : i \in 1 .. Len(events)}
    BY <1>1, <1>2, <1>3, FirstWrites, NothingFits
  <1>8. Pending(w)' = {event}
    BY <1>3, <1>7
  <1>9. TxKept(w)'
    <2>1. MandatesKept(w)'
      BY <1>4, <1>7, <1>8 DEF MandatesKept, RefusalKept, RefusalTypes
    <2> QED BY <1>7, <2>1, OnlyMandates
  <1>10. LinkFits(w)'
    <2>1. o \in DOMAIN View(w, "orders") /\ ~View(w, "orders")[o].link
      BY <1>1 DEF ReadsInvariant, ReadsFit, LinkFits, Linking
    <2>2. \A x : RowAt(View(w, "orders")', x) = RowAt(Stored("orders"), x)
      BY <1>6, <1>7, ViewNext
    <2>3. DOMAIN View(w, "orders")' = DOMAIN Stored("orders")
      BY <1>6, <1>7, ViewNext
    <2>4. /\ DOMAIN View(w, "orders") = DOMAIN Stored("orders")
          /\ \A x \in DOMAIN Stored("orders") : View(w, "orders")[x] = Stored("orders")[x]
      BY <1>7, EmptyTx DEF View, ++
    <2>5. \A x \in DOMAIN Stored("orders") : View(w, "orders")'[x] = Stored("orders")[x]
      BY <1>6, <1>7, <2>3, ViewNext, ZenonT(60)
    <2>6. o \in DOMAIN View(w, "orders")' /\ ~View(w, "orders")'[o].link
      BY <2>1, <2>3, <2>4, <2>5
    <2>7. "gateway.payment_link_attempted" \in TypesOf(Events(w)', o)
      BY <1>4, <1>8 DEF TypesOf, Events
    <2> QED BY <1>5, <1>6, <2>6, <2>7 DEF LinkFits
  <1>11. \A v \in Workers : LinksAlone(v)'
    BY <1>1, <1>6, <1>7, AloneStays DEF Linking
  <1>12. PagesFit(w)'
    BY <1>1, <1>2, <1>3, QuietTransacts
  <1>13. after # "refund_call"
    BY <1>5
  <1> QED BY <1>1, <1>2, <1>3, <1>9, <1>10, <1>11, <1>12, <1>13, TransactReads

\* The gateway opens a link, or the request fails.
LEMMA CreateLinkReads ==
    ASSUME StoreInvariant, ReadsInvariant, NEW w \in Workers, CreateLink(w)
    PROVE  ReadsInvariant'
  <1>1. /\ job[w].step \notin InTx \cup ShowSteps /\ job[w].step = "create_link" /\ UNCHANGED hooks
        /\ \A step \in {"idle", "issue_link"} : step \notin InTx \cup {"attempt_link", "create_link"}
    BY DEF CreateLink, InTx, ShowSteps
  <1>2. Go(w, "issue_link") \/ Reply(w, InternalError)
    BY Zenon DEF CreateLink
  <1>3. CASE Go(w, "issue_link")
    BY <1>1, <1>3, HooksStay, QuietMoves
  <1>4. CASE Reply(w, InternalError)
    BY <1>1, <1>4, HooksStay, QuietMoves
  <1> QED BY <1>2, <1>3, <1>4

\* What is written with a new Order.
PlacedRows(c, key, rows) ==
    /\ DOMAIN rows = {"orders", "intents", "carts", "payments"}
    /\ DOMAIN rows["orders"] = {c.order} /\ DOMAIN rows["intents"] = {db.carts[c.cart].intent}
    /\ DOMAIN rows["carts"] = {c.cart} /\ DOMAIN rows["payments"] = {key}
    /\ {"status", "link", "amountPaise", "gatewayPaymentId", "refundReason"}
          \subseteq DOMAIN rows["orders"][c.order]
    /\ rows["orders"][c.order].status = "created" /\ rows["orders"][c.order].link = FALSE
    /\ rows["payments"][key].cart = c.cart /\ rows["payments"][key].order = c.order
    /\ "intent" \in DOMAIN rows["carts"][c.cart]
    /\ rows["carts"][c.cart].intent = db.carts[c.cart].intent

\* The Order, its payment, its Intent and its Cart are written together, with the
\* events that show them.
LEMMA PlacedKeeps ==
    ASSUME StoreInvariant, ReadsInvariant, NEW w \in Workers, NEW rows, NEW verified, NEW created,
           Transact(w, {<<"agents", job[w].call.token>>, <<"orders", job[w].call.order>>}, rows,
                    <<verified, created>>, "attempt_link", NoField),
           UNCHANGED hooks, job[w].step = "place_order",
           KeyOf(w) \notin DOMAIN db.payments, job[w].call.order \notin DOMAIN db.orders,
           PlacedRows(job[w].call, KeyOf(w), rows),
           verified.type = "payment.verified", verified.order = job[w].call.order,
           created.type = "order.created", created.order = job[w].call.order
    PROVE  ReadsInvariant'
  <1> DEFINE c == job[w].call
             order == rows["orders"][c.order]
             cart == rows["carts"][c.cart]
             payment == rows["payments"][KeyOf(w)]
             locks == {<<"agents", c.token>>, <<"orders", c.order>>}
             events == <<verified, created>>
             step == "commit"
             after == "attempt_link"
  <1>0. /\ {"status", "link", "amountPaise", "gatewayPaymentId", "refundReason"} \subseteq DOMAIN order
        /\ order.status = "created" /\ order.link = FALSE
        /\ payment.cart = c.cart /\ payment.order = c.order
        /\ "intent" \in DOMAIN cart /\ cart.intent = db.carts[c.cart].intent
    BY DEF PlacedRows
  <1>1. /\ job[w].step \notin InTx \cup ShowSteps /\ job[w].step # "idle"
    BY DEF InTx, ShowSteps
  <1>2. /\ Transact(w, locks, rows, events, after, NoField)
        /\ Execute(w, locks, rows, events, step, after, NoField)
    BY DEF Transact
  <1>3. Len(events) = 2 /\ Len(events) \in Nat /\ events[1] = verified /\ events[2] = created
    OBVIOUS
  <1>4. step = "commit" /\ after = "attempt_link"
    OBVIOUS
  <1> HIDE DEF events, step, after
  <1>5. /\ OneMoves(w) /\ BooksStay /\ job'[w].step = step /\ job'[w].after = after
        /\ job'[w].call = c
    BY <1>2, <1>3, Executed
  <1>6. /\ job[w].tx = NoTx /\ job'[w].tx.locks = locks
        /\ (\A t : DOMAIN Writes(w, t)' = DOMAIN RowsOf(rows, t))
        /\ \A t : \A x \in DOMAIN RowsOf(rows, t) : Writes(w, t)'[x] = RowsOf(rows, t)[x]
        /\ Pending(w)' = {events[i] : i \in 1 .. Len(events)}
    BY <1>1, <1>2, <1>3, FirstWrites
  <1>7. Pending(w)' = {verified, created}
    <2>1. 1 .. Len(events) = {1, 2}
      BY <1>3
    <2> QED BY <1>3, <1>6, <2>1
  <1>8. /\ DOMAIN Writes(w, "orders")' = {c.order} /\ Writes(w, "orders")'[c.order] = order
        /\ DOMAIN Writes(w, "payments")' = {KeyOf(w)} /\ Writes(w, "payments")'[KeyOf(w)] = payment
        /\ DOMAIN Writes(w, "carts")' = {c.cart} /\ Writes(w, "carts")'[c.cart] = cart
        /\ DOMAIN Writes(w, "intents")' = {cart.intent}
    <2>1. /\ RowsOf(rows, "orders") = rows["orders"] /\ RowsOf(rows, "payments") = rows["payments"]
          /\ RowsOf(rows, "carts") = rows["carts"] /\ RowsOf(rows, "intents") = rows["intents"]
      BY DEF RowsOf, PlacedRows
    <2>2. /\ DOMAIN rows["orders"] = {c.order} /\ DOMAIN rows["intents"] = {cart.intent}
          /\ DOMAIN rows["carts"] = {c.cart} /\ DOMAIN rows["payments"] = {KeyOf(w)}
      BY DEF PlacedRows
    <2>3. /\ DOMAIN Writes(w, "orders")' = {c.order} /\ Writes(w, "orders")'[c.order] = order
      <3>1. DOMAIN Writes(w, "orders")' = {c.order}
        BY <1>6, <2>1, <2>2
      <3>2. Writes(w, "orders")'[c.order] = RowsOf(rows, "orders")[c.order]
        BY <1>6, <2>1, <2>2
      <3> QED BY <2>1, <3>1, <3>2
    <2>4. DOMAIN Writes(w, "payments")' = {KeyOf(w)} /\ Writes(w, "payments")'[KeyOf(w)] = payment
      <3>1. DOMAIN Writes(w, "payments")' = {KeyOf(w)}
        BY <1>6, <2>1, <2>2, ZenonT(60)
      <3>2. Writes(w, "payments")'[KeyOf(w)] = RowsOf(rows, "payments")[KeyOf(w)]
        BY <1>6, <2>1, <2>2
      <3> QED BY <2>1, <3>1, <3>2
    <2>5. DOMAIN Writes(w, "carts")' = {c.cart} /\ Writes(w, "carts")'[c.cart] = cart
      <3>1. DOMAIN Writes(w, "carts")' = {c.cart}
        BY <1>6, <2>1, <2>2
      <3>2. Writes(w, "carts")'[c.cart] = RowsOf(rows, "carts")[c.cart]
        BY <1>6, <2>1, <2>2
      <3> QED BY <2>1, <3>1, <3>2
    <2>6. DOMAIN Writes(w, "intents")' = {cart.intent}
      BY <1>6, <2>1, <2>2
    <2> QED BY <2>3, <2>4, <2>5, <2>6
  <1>9. DOMAIN Writes(w, "receipts")' = {} /\ DOMAIN Writes(w, "refundReceipts")' = {}
    BY <1>6, NothingFits DEF RowsOf, PlacedRows
  <1> HIDE DEF order, cart, payment
  <1> USE <1>0
  <1>10. /\ \A t : t # "variants" => Stored(t)' = Stored(t)
         /\ Logged' = Logged
    BY <1>5 DEF BooksStay, Stored, Logged
  <1>11. db.orders = Stored("orders") /\ db.payments = Stored("payments") /\ db.carts = Stored("carts")
    BY DEF StoreInvariant, Stored, RowsOf, Tables
  <1>12. c.cart \in DOMAIN Stored("carts")
    BY DEF StoreInvariant, JobFits, RowsKnown, Stored
  <1>13. CartKept(c.cart, Stored("carts")[c.cart], Logged)
    BY <1>12 DEF ReadsInvariant, BooksKept, Stored
  <1>14. Guarded(w)'
    <2>1. KeyOf(w)[1] = c.token
      BY DEF KeyOf
    <2>2. \A k \in DOMAIN Writes(w, "payments")' : <<"agents", k[1]>> \in job'[w].tx.locks
      BY <1>6, <1>8, <2>1
    <2> QED BY <1>6, <1>8, <1>9, <2>2 DEF Guarded
  <1>15. WritesNew(w)'
    <2>1. \A t \in {"payments", "receipts", "refundReceipts"} :
              DOMAIN Writes(w, t)' \cap DOMAIN Stored(t)' = {}
      BY <1>8, <1>9, <1>10, <1>11
    <2> QED BY <1>8, <1>10, <1>12, <2>1 DEF WritesNew
  <1>16. KeepsLink(w)'
    BY <1>8, <1>10, <1>11 DEF KeepsLink
  <1>17. OrdersKept(w)'
    <2>1. KeyOf(w) \in DOMAIN View(w, "payments")' /\ View(w, "payments")'[KeyOf(w)] = payment
      BY <1>5, <1>8, ViewNext
    <2>2. RowAt(View(w, "receipts")', c.order) = {} /\ RowAt(View(w, "refundReceipts")', c.order) = {}
      <3>1. c.order \notin DOMAIN Stored("receipts") /\ c.order \notin DOMAIN Stored("refundReceipts")
        BY <1>11 DEF ReadsInvariant, BooksKept, Stored
      <3> QED BY <1>5, <1>9, <3>1, NoRowNext
    <2>3. {"payment.verified", "order.created"} \subseteq TypesOf(Events(w)', c.order)
      BY <1>7 DEF Events, TypesOf
    <2>4. "created" \notin Settled /\ order.status # "refunded"
      BY DEF Settled
    <2>5. OrderKept(c.order, order, View(w, "payments")', {}, {}, Events(w)')
      <3> DEFINE paid == View(w, "payments")'
                 shown == Events(w)'
      <3>1. \E k \in DOMAIN paid : paid[k].order = c.order
        BY <2>1
      <3>2. {"payment.verified", "order.created"} \subseteq TypesOf(shown, c.order)
        BY <2>3
      <3> HIDE DEF paid, shown
      <3>3. order.link \in BOOLEAN /\ ~order.link
        OBVIOUS
      <3>4. order.status \notin Settled /\ ({} # {}) = (order.status = "refunded")
        BY <2>4
      <3>6. Recorded[order.status] \subseteq TypesOf(shown, c.order)
        BY <3>2 DEF Recorded, WithOrder
      <3>5. OrderKept(c.order, order, paid, {}, {}, shown)
        BY <2>4, <3>1, <3>3, <3>4, <3>6, Zenon DEF OrderKept
      <3> QED BY <3>5 DEF paid, shown
    <2> QED BY <1>8, <2>2, <2>5 DEF OrdersKept
  <1>18. MandatesKept(w)'
    <2>1. CartKept(c.cart, Stored("carts")[c.cart], Events(w)')
      BY <1>10, <1>13, ShownStays DEF Events
    <2>2. CartKept(c.cart, cart, Events(w)')
      BY <1>11, <2>1 DEF CartKept
    <2>3. \A e \in Pending(w)' : RefusalKept(e, Logged)
      BY <1>7 DEF RefusalKept, RefusalTypes
    <2> QED BY <1>8, <1>10, <2>2, <2>3 DEF MandatesKept, CartKept
  <1>19. TxKept(w)'
    BY <1>14, <1>15, <1>16, <1>17, <1>18 DEF TxKept
  <1>20. LinkFits(w)'
    <2>1. c.order \in DOMAIN View(w, "orders")' /\ View(w, "orders")'[c.order] = order
      BY <1>5, <1>8, ViewNext
    <2> QED BY <1>4, <1>5, <2>1 DEF LinkFits
  <1>21. \A v \in Workers : LinksAlone(v)'
    <2>1. \A v \in Workers \ {w} : <<"orders", c.order>> \notin job[v].tx.locks
      BY <1>2 DEF Execute, Free
    <2>2. \A v \in Workers \ {w} : c.order \notin DOMAIN Writes(v, "orders")
      BY <2>1 DEF ReadsInvariant, ReadsFit, TxKept, Guarded
    <2>3. ASSUME NEW v \in Workers \ {w}, Linking(v) PROVE job[v].call.order # c.order
      <3>1. job[v].call.order \in DOMAIN View(v, "orders")
        BY <2>3 DEF ReadsInvariant, ReadsFit, LinkFits
      <3>2. DOMAIN View(v, "orders") = DOMAIN Writes(v, "orders") \cup DOMAIN Stored("orders")
        BY DEF View, ++
      <3> QED BY <1>11, <2>2, <3>1, <3>2
    <2>4. \A v \in Workers \ {w} :
              /\ Linking(v)' = Linking(v) /\ Writes(v, "orders")' = Writes(v, "orders")
              /\ job'[v].call.order = job[v].call.order
      BY <1>5 DEF OneMoves, Linking, Writes
    <2>5. \A v \in Workers : LinksAlone(v)
      BY DEF ReadsInvariant
    <2>6. LinksAlone(w)'
      BY <1>5, <2>2, <2>3, <2>4 DEF LinksAlone
    <2>7. ASSUME NEW v \in Workers \ {w}, Linking(v), NEW u \in Workers \ {v}
          PROVE  /\ job[v].call.order \notin DOMAIN Writes(u, "orders")'
                 /\ Linking(u)' => job'[u].call.order # job[v].call.order
      <3>1. CASE u = w
        BY <1>5, <1>8, <2>3, <2>7, <3>1
      <3>2. CASE u # w
        BY <2>4, <2>5, <2>7, <3>2 DEF LinksAlone
      <3> QED BY <3>1, <3>2
    <2> QED BY <2>4, <2>6, <2>7 DEF LinksAlone
  <1>22. PagesFit(w)'
    BY <1>1, <1>2, <1>3, QuietTransacts
  <1> QED BY <1>1, <1>2, <1>3, <1>19, <1>20, <1>21, <1>22, TransactReads

\* The transaction of the Order, a Refusal, or the other request's key.
LEMMA PlaceOrderReads ==
    ASSUME StoreInvariant, ReadsInvariant, NEW w \in Workers, PlaceOrder(w)
    PROVE  ReadsInvariant'
  <1> DEFINE c == job[w].call
             cart == db.carts[c.cart]
             order == [agentId |-> c.token, items |-> cart.items, amountPaise |-> cart.totalPaise,
                       status |-> "created", link |-> FALSE, gatewayOrderId |-> NoField,
                       gatewayPaymentId |-> NoField, declined |-> {}, shortfall |-> {},
                       cancellationReason |-> NoField, refundReason |-> NoField]
             intent == [db.intents[cart.intent] EXCEPT !.consumedBy = c.order]
             signed == [cart EXCEPT !.signed = TRUE]
             payment == [cart |-> c.cart, order |-> c.order, hash |-> PaymentHash(c)]
             rows == [orders |-> Entry(c.order, order), intents |-> Entry(cart.intent, intent),
                      carts |-> Entry(c.cart, signed), payments |-> Entry(KeyOf(w), payment)]
             locks == {<<"agents", c.token>>, <<"orders", c.order>>}
             verified == Event("payment.verified", c.order,
                               [agentId |-> c.token, intentHash |-> cart.intent,
                                cartHash |-> c.cart, paymentHash |-> PaymentHash(c),
                                amountPaise |-> cart.totalPaise, idempotencyKey |-> c.key])
             created == Event("order.created", c.order,
                              [agentId |-> c.token, cartHash |-> c.cart,
                               amountPaise |-> cart.totalPaise])
  <1>1. /\ job[w].step \notin InTx \cup ShowSteps /\ job[w].step = "place_order" /\ UNCHANGED hooks
        /\ "key_known" \notin InTx \cup {"attempt_link", "create_link", "issue_link"}
    BY DEF PlaceOrder, InTx, ShowSteps
  <1>2. c.cart \in DOMAIN RowsOf(db, "carts")
    BY <1>1 DEF StoreInvariant, JobFits, RowsKnown
  <1>3. \/ \E says : RefusePayment(w, says)
        \/ Go(w, "key_known")
        \/ /\ KeyOf(w) \notin DOMAIN db.payments /\ c.order \notin DOMAIN db.orders
           /\ Transact(w, locks, rows, <<verified, created>>, "attempt_link", NoField)
    BY Zenon DEF PlaceOrder
  <1>4. ASSUME NEW says, RefusePayment(w, says) PROVE ReadsInvariant'
    BY <1>1, <1>2, <1>4, RefusePaymentReads
  <1>5. CASE Go(w, "key_known")
    BY <1>1, <1>5, HooksStay, QuietMoves
  <1>6. CASE /\ KeyOf(w) \notin DOMAIN db.payments /\ c.order \notin DOMAIN db.orders
             /\ Transact(w, locks, rows, <<verified, created>>, "attempt_link", NoField)
    <2>1. /\ DOMAIN rows = {"orders", "intents", "carts", "payments"}
          /\ rows["orders"] = Entry(c.order, order) /\ rows["intents"] = Entry(cart.intent, intent)
          /\ rows["carts"] = Entry(c.cart, signed) /\ rows["payments"] = Entry(KeyOf(w), payment)
      OBVIOUS
    <2>2. /\ order.status = "created" /\ order.link = FALSE
          /\ {"status", "link", "amountPaise", "gatewayPaymentId", "refundReason"}
                \subseteq DOMAIN order
      OBVIOUS
    <2>3. payment.cart = c.cart /\ payment.order = c.order
      OBVIOUS
    <2>4. "intent" \in DOMAIN signed /\ signed.intent = cart.intent
      <3>1. "intent" \in DOMAIN cart
        BY <1>2 DEF StoreInvariant, RowsOf, Tables, ReadsInvariant, BooksKept, CartKept
      <3>2. DOMAIN signed = DOMAIN cart
        OBVIOUS
      <3> QED BY <3>1, <3>2
    <2>5. /\ verified.type = "payment.verified" /\ verified.order = c.order
          /\ created.type = "order.created" /\ created.order = c.order
      BY DEF Event
    <2> HIDE DEF rows, order, intent, signed, payment, verified, created
    <2>6. /\ DOMAIN rows["orders"] = {c.order} /\ rows["orders"][c.order] = order
          /\ DOMAIN rows["carts"] = {c.cart} /\ rows["carts"][c.cart] = signed
          /\ DOMAIN rows["payments"] = {KeyOf(w)} /\ rows["payments"][KeyOf(w)] = payment
          /\ DOMAIN rows["intents"] = {cart.intent}
      BY <2>1, OneRow, ZenonT(60)
    <2>7. PlacedRows(c, KeyOf(w), rows)
      BY <2>1, <2>2, <2>3, <2>4, <2>6 DEF PlacedRows
    <2> QED BY <1>1, <1>6, <2>5, <2>7, PlacedKeeps
  <1> QED BY <1>3, <1>4, <1>5, <1>6

\* The row of an Order that is found once a transaction has written.
Found(writes, t, o) ==
    IF o \in DOMAIN RowsOf(writes, t) THEN {RowsOf(writes, t)[o]} ELSE RowAt(Stored(t), o)

\* The events there are once it has logged these.
EventsOf(events) == {events[i] : i \in 1 .. Len(events)}

Shown(w, events) == Logged \cup Pending(w) \cup EventsOf(events)

\* A transaction's first rows are those it writes first.
LEMMA FreshWrites ==
    ASSUME StoreInvariant, NEW w \in Workers, job[w].tx.writes = <<>>,
           NEW locks, NEW writes, NEW events, NEW step, NEW after, NEW reply,
           Execute(w, locks, writes, events, step, after, reply), Len(events) \in Nat
    PROVE  /\ \A t : DOMAIN Writes(w, t)' = DOMAIN RowsOf(writes, t)
           /\ \A t : \A x \in DOMAIN RowsOf(writes, t) : Writes(w, t)'[x] = RowsOf(writes, t)[x]
  <1> SUFFICES ASSUME NEW t
               PROVE  /\ DOMAIN Writes(w, t)' = DOMAIN RowsOf(writes, t)
                      /\ \A x \in DOMAIN RowsOf(writes, t) : Writes(w, t)'[x] = RowsOf(writes, t)[x]
    OBVIOUS
  <1>1. DOMAIN Writes(w, t) = {}
    BY NothingFits DEF Writes
  <1>2. Writes(w, t)' = RowsOf(writes, t) ++ Writes(w, t)
    BY Executed
  <1>3. DOMAIN Writes(w, t)' = DOMAIN RowsOf(writes, t)
    <2>1. DOMAIN (RowsOf(writes, t) ++ Writes(w, t)) = DOMAIN RowsOf(writes, t) \cup DOMAIN Writes(w, t)
      BY BothFit
    <2> QED BY <1>1, <1>2, <2>1
  <1>4. \A x \in DOMAIN RowsOf(writes, t) : Writes(w, t)'[x] = RowsOf(writes, t)[x]
    BY <1>1, <1>2 DEF ++
  <1> QED BY <1>3, <1>4

\* It is what the transaction finds.
LEMMA FoundNext ==
    ASSUME BooksStay, NEW w, NEW writes, NEW o,
           \A t : DOMAIN Writes(w, t)' = DOMAIN RowsOf(writes, t),
           \A t : \A x \in DOMAIN RowsOf(writes, t) : Writes(w, t)'[x] = RowsOf(writes, t)[x]
    PROVE  \A t \in {"receipts", "refundReceipts"} : RowAt(View(w, t)', o) = Found(writes, t, o)
  <1> SUFFICES ASSUME NEW t \in {"receipts", "refundReceipts"}
               PROVE  RowAt(View(w, t)', o) = Found(writes, t, o)
    OBVIOUS
  <1>1. t # "variants"
    OBVIOUS
  <1>2. RowAt(View(w, t)', o) = IF o \in DOMAIN Writes(w, t)' THEN {Writes(w, t)'[o]}
                                ELSE RowAt(Stored(t), o)
    BY <1>1, ViewNext
  <1> QED BY <1>2 DEF Found

\* The statements are about one Order that carries its link or is given it, and
\* that nobody else links.
AboutOne(w, o, locks, writes, events) ==
    /\ <<"orders", o>> \in locks
    /\ DOMAIN writes \subseteq {"orders", "receipts", "refundReceipts"}
    /\ DOMAIN RowsOf(writes, "orders") = {o}
    /\ DOMAIN RowsOf(writes, "receipts") \subseteq {o} \ DOMAIN Stored("receipts")
    /\ DOMAIN RowsOf(writes, "refundReceipts") \subseteq {o} \ DOMAIN Stored("refundReceipts")
    /\ RowsOf(writes, "orders")[o].link
    /\ Addressed(o) => RowsOf(writes, "orders")[o].gatewayPaymentId # NoField
    /\ OrderKept(o, RowsOf(writes, "orders")[o], Stored("payments"),
                 Found(writes, "receipts", o), Found(writes, "refundReceipts", o),
                 Shown(w, events))
    /\ Len(events) \in Nat /\ \A i \in 1 .. Len(events) : events[i].type \notin RefusalTypes
    /\ \A v \in Workers \ {w} : Linking(v) => job[v].call.order # o

\* Such statements, the first of a transaction, keep what is known.
LEMMA OrderWritten ==
    ASSUME StoreInvariant, ReadsInvariant, NEW w \in Workers,
           NEW locks, NEW writes, NEW events, NEW step, NEW after, NEW reply,
           Execute(w, locks, writes, events, step, after, reply), UNCHANGED hooks,
           job[w].tx.writes = <<>>, job[w].step \notin ShowSteps, step \in {"commit", "fulfil"},
           after \notin {"attempt_link", "create_link", "refund_call"},
           NEW o, AboutOne(w, o, locks, writes, events)
    PROVE  ReadsInvariant'
  <1>0. /\ <<"orders", o>> \in locks
        /\ DOMAIN writes \subseteq {"orders", "receipts", "refundReceipts"}
        /\ DOMAIN RowsOf(writes, "orders") = {o}
        /\ DOMAIN RowsOf(writes, "receipts") \subseteq {o} \ DOMAIN Stored("receipts")
        /\ DOMAIN RowsOf(writes, "refundReceipts") \subseteq {o} \ DOMAIN Stored("refundReceipts")
        /\ RowsOf(writes, "orders")[o].link
        /\ Addressed(o) => RowsOf(writes, "orders")[o].gatewayPaymentId # NoField
        /\ OrderKept(o, RowsOf(writes, "orders")[o], Stored("payments"),
                     Found(writes, "receipts", o), Found(writes, "refundReceipts", o),
                     Shown(w, events))
        /\ Len(events) \in Nat /\ \A i \in 1 .. Len(events) : events[i].type \notin RefusalTypes
        /\ \A v \in Workers \ {w} : Linking(v) => job[v].call.order # o
    BY DEF AboutOne
  <1> USE <1>0
  <1>1. /\ OneMoves(w) /\ BooksStay /\ job'[w].step = step /\ job'[w].after = after
        /\ job'[w].call = job[w].call
        /\ job'[w].tx.locks = job[w].tx.locks \cup locks
        /\ Pending(w)' = Pending(w) \cup {events[i] : i \in 1 .. Len(events)}
    BY Executed
  <1>2. /\ \A t : DOMAIN Writes(w, t)' = DOMAIN RowsOf(writes, t)
        /\ \A t : \A x \in DOMAIN RowsOf(writes, t) : Writes(w, t)'[x] = RowsOf(writes, t)[x]
    BY FreshWrites
  <1>3. Writes(w, "orders")'[o] = RowsOf(writes, "orders")[o]
    BY <1>2
  <1>4. \A t \in {"receipts", "refundReceipts"} : RowAt(View(w, t)', o) = Found(writes, t, o)
    BY <1>1, <1>2, FoundNext
  <1>5. \A t \in {"payments", "carts", "intents"} : DOMAIN Writes(w, t)' = {}
    <2> SUFFICES ASSUME NEW t \in {"payments", "carts", "intents"} PROVE DOMAIN Writes(w, t)' = {}
      OBVIOUS
    <2>1. RowsOf(writes, t) = <<>>
      BY DEF RowsOf
    <2> QED BY <1>2, <2>1, NothingFits
  <1>6. \A e \in Pending(w)' : RefusalKept(e, Logged)
    <2>1. \A e \in Pending(w) : RefusalKept(e, Logged)
      BY DEF ReadsInvariant, ReadsFit, TxKept, MandatesKept
    <2>2. \A i \in 1 .. Len(events) : RefusalKept(events[i], Logged)
      BY DEF RefusalKept
    <2> QED BY <1>1, <2>1, <2>2
  <1>7. OrderKept(o, Writes(w, "orders")'[o], Stored("payments"),
                  RowAt(View(w, "receipts")', o), RowAt(View(w, "refundReceipts")', o),
                  Logged \cup Pending(w)')
    <2>1. /\ RowAt(View(w, "receipts")', o) = Found(writes, "receipts", o)
          /\ RowAt(View(w, "refundReceipts")', o) = Found(writes, "refundReceipts", o)
      BY <1>4
    <2>2. Logged \cup Pending(w)' = Shown(w, events)
      BY <1>1 DEF Shown, EventsOf
    <2> QED BY <1>3, <2>1, <2>2
  <1>8. TxKept(w)'
    <2>1. /\ DOMAIN Writes(w, "orders")' = {o}
          /\ DOMAIN Writes(w, "receipts")' \subseteq {o} \ DOMAIN Stored("receipts")
          /\ DOMAIN Writes(w, "refundReceipts")' \subseteq {o} \ DOMAIN Stored("refundReceipts")
      BY <1>2
    <2>2. <<"orders", o>> \in job'[w].tx.locks
      BY <1>1
    <2> QED BY <1>1, <1>3, <1>5, <1>6, <1>7, <2>1, <2>2, OneOrderKept
  <1>9. ~Linking(w)'
    BY <1>1 DEF Linking
  <1>10. LinkFits(w)'
    BY <1>1, <1>9 DEF LinkFits
  <1>11. HookFits(w)'
    <2>1. HookFits(w) /\ job[w].step # "idle"
      BY DEF ReadsInvariant, ReadsFit, ShowSteps
    <2> QED BY <1>1, <2>1 DEF HookFits, IsLinked, Refunding, Stored, BooksStay
  <1>12. PagesFit(w)'
    BY <1>1, NoPage DEF ReadsInvariant, ReadsFit
  <1>13. \A v \in Workers : LinksAlone(v)'
    <2>1. DOMAIN Writes(w, "orders")' = {o}
      BY <1>2
    <2> QED BY <1>1, <1>9, <2>1, AloneStays
  <1>14. ReadsFit(w)'
    BY <1>8, <1>10, <1>11, <1>12 DEF ReadsFit
  <1> QED BY <1>13, <1>14, ExecuteReads

\* The link is on the Order's row, and on the log.
LEMMA IssueLinkReads ==
    ASSUME StoreInvariant, ReadsInvariant, NEW w \in Workers, IssueLink(w)
    PROVE  ReadsInvariant'
  <1> DEFINE o == job[w].call.order
             old == db.orders[o]
             row == [old EXCEPT !.link = TRUE, !.status = "awaiting_payment"]
             rows == [orders |-> Entry(o, row)]
             locks == {<<"orders", o>>}
             event == Event("gateway.payment_link_issued", o, [amountPaise |-> links[o].amountPaise])
             events == <<event>>
             step == "commit"
             after == "idle"
             reply == Ok([order |-> o, status |-> "awaiting_payment", link |-> TRUE,
                          payment |-> PaymentHash(job[w].call)])
  <1>1. /\ job[w].step \notin InTx \cup ShowSteps /\ job[w].step = "issue_link" /\ UNCHANGED hooks
    BY DEF IssueLink, InTx, ShowSteps
  <1>2. Execute(w, locks, rows, events, step, after, reply)
    BY DEF IssueLink, Transact
  <1>3. Len(events) = 1 /\ Len(events) \in Nat /\ events[1] = event
    OBVIOUS
  <1>4. /\ step \in {"commit", "fulfil"} /\ after \notin {"attempt_link", "create_link", "refund_call"}
        /\ <<"orders", o>> \in locks
    OBVIOUS
  <1>5. job[w].tx = NoTx /\ job[w].tx.writes = <<>> /\ Pending(w) = {}
    BY <1>1, EmptyTx DEF StoreInvariant, JobFits, JobShape, NoTx
  <1>6. o \in DOMAIN Stored("orders") /\ ~Stored("orders")[o].link /\ old = Stored("orders")[o]
    <2>1. o \in DOMAIN View(w, "orders") /\ ~View(w, "orders")[o].link
      BY <1>1 DEF ReadsInvariant, ReadsFit, LinkFits, Linking
    <2>2. DOMAIN View(w, "orders") = DOMAIN Stored("orders")
      BY <1>5, EmptyTx DEF View, ++
    <2>3. View(w, "orders")[o] = Stored("orders")[o]
      BY <1>5, <2>1, <2>2, EmptyTx DEF View, ++
    <2>4. db.orders = Stored("orders")
      BY DEF StoreInvariant, Stored, RowsOf, Tables
    <2> QED BY <2>1, <2>2, <2>3, <2>4
  <1>7. OrderKept(o, old, Stored("payments"), RowAt(Stored("receipts"), o),
                  RowAt(Stored("refundReceipts"), o), Logged)
    BY <1>6, OrderBook
  <1>8. /\ old.status = "created"
        /\ {"status", "link", "amountPaise", "gatewayPaymentId", "refundReason"} \subseteq DOMAIN old
    BY <1>6, <1>7 DEF OrderKept
  <1>9. /\ row.link = TRUE /\ row.status = "awaiting_payment"
        /\ row.amountPaise = old.amountPaise /\ row.refundReason = old.refundReason
        /\ row.gatewayPaymentId = old.gatewayPaymentId
        /\ {"status", "link", "amountPaise", "gatewayPaymentId", "refundReason"} \subseteq DOMAIN row
    BY <1>8
  <1>10. /\ DOMAIN rows = {"orders"} /\ DOMAIN rows["orders"] = {o} /\ rows["orders"][o] = row
    BY DEF Entry
  <1>11. event.type = "gateway.payment_link_issued" /\ event.order = o
    BY DEF Event
  <1> HIDE DEF rows, row, old, event, events, step, after, reply, locks
  <1>12. /\ RowsOf(rows, "orders") = rows["orders"]
         /\ RowsOf(rows, "receipts") = <<>> /\ RowsOf(rows, "refundReceipts") = <<>>
    BY <1>10 DEF RowsOf
  <1>13. DOMAIN RowsOf(rows, "receipts") = {} /\ DOMAIN RowsOf(rows, "refundReceipts") = {}
    BY <1>12, NothingFits
  <1>14. OrderKept(o, row, Stored("payments"), Found(rows, "receipts", o),
                   Found(rows, "refundReceipts", o), Shown(w, events))
    <2> DEFINE shown == Shown(w, events)
    <2>1. /\ Found(rows, "receipts", o) = RowAt(Stored("receipts"), o)
          /\ Found(rows, "refundReceipts", o) = RowAt(Stored("refundReceipts"), o)
      BY <1>13 DEF Found
    <2>2. event \in shown /\ Logged \subseteq shown
      BY <1>3 DEF Shown, EventsOf
    <2> HIDE DEF shown
    <2>3. TypesOf(Logged, o) \subseteq TypesOf(shown, o)
      BY <2>2, ShownStays
    <2>4. "gateway.payment_link_issued" \in TypesOf(shown, o)
      BY <1>11, <2>2 DEF TypesOf
    <2>5. "gateway.payment_link_attempted" \in TypesOf(shown, o)
      BY <1>1, <2>3 DEF ReadsInvariant, ReadsFit, LinkFits
    <2>6. /\ row.status \notin Settled /\ row.status # "refunded"
          /\ old.status \notin Settled /\ old.status # "refunded"
      BY <1>8, <1>9 DEF Settled
    <2>7. RowAt(Stored("receipts"), o) = {} /\ RowAt(Stored("refundReceipts"), o) = {}
      BY <1>7, <2>6 DEF OrderKept
    <2>8. /\ \E k \in DOMAIN Stored("payments") : Stored("payments")[k].order = o
          /\ {"payment.verified", "order.created"} \subseteq TypesOf(shown, o)
      BY <1>7, <1>8, <2>3 DEF OrderKept, Recorded, WithOrder
    <2>9. row.link \in BOOLEAN
      BY <1>9
    <2>11. WithLink \subseteq TypesOf(shown, o) /\ Recorded[row.status] = WithLink
      BY <1>9, <2>4, <2>5, <2>8 DEF WithLink, WithOrder, Recorded
    <2>10. OrderKept(o, row, Stored("payments"), {}, {}, shown)
      BY <1>9, <2>6, <2>8, <2>9, <2>11 DEF OrderKept
    <2> QED BY <2>1, <2>7, <2>10 DEF shown
  <1>15. \A v \in Workers \ {w} : Linking(v) => job[v].call.order # o
    BY <1>1 DEF ReadsInvariant, LinksAlone, Linking
  <1>16. \A i \in 1 .. Len(events) : events[i].type \notin RefusalTypes
    BY <1>3, <1>11 DEF RefusalTypes
  <1>17. DOMAIN rows \subseteq {"orders", "receipts", "refundReceipts"}
    BY <1>10
  <1>18. RowsOf(rows, "orders")[o] = row /\ DOMAIN RowsOf(rows, "orders") = {o}
    BY <1>10, <1>12
  <1>19. job[w].step \notin ShowSteps
    BY <1>1
  <1>20. /\ DOMAIN RowsOf(rows, "receipts") \subseteq {o} \ DOMAIN Stored("receipts")
         /\ DOMAIN RowsOf(rows, "refundReceipts") \subseteq {o} \ DOMAIN Stored("refundReceipts")
    BY <1>13
  <1>21. /\ RowsOf(rows, "orders")[o].link
         /\ Addressed(o) => RowsOf(rows, "orders")[o].gatewayPaymentId # NoField
         /\ OrderKept(o, RowsOf(rows, "orders")[o], Stored("payments"), Found(rows, "receipts", o),
                      Found(rows, "refundReceipts", o), Shown(w, events))
    BY <1>6, <1>9, <1>14, <1>18 DEF Addressed
  <1>22. AboutOne(w, o, locks, rows, events)
    BY <1>3, <1>4, <1>15, <1>16, <1>17, <1>18, <1>20, <1>21 DEF AboutOne
  <1> QED BY <1>1, <1>2, <1>4, <1>5, <1>19, <1>22, OrderWritten

-----------------------------------------------------------------------------
(***************************************************************************)
(* What a webhook does to an Order that carries its link.                  *)
(***************************************************************************)
\* What a webhook finds.
LEMMA AtApply ==
    ASSUME StoreInvariant, ReadsInvariant, NEW w \in Workers, job[w].step = "apply"
    PROVE  /\ job[w].tx.writes = <<>> /\ IsLinked(job[w].call.order)
           /\ OrderOf(w) = Stored("orders")[job[w].call.order] /\ OrderOf(w).link
           /\ OrderKept(job[w].call.order, OrderOf(w), Stored("payments"),
                        RowAt(Stored("receipts"), job[w].call.order),
                        RowAt(Stored("refundReceipts"), job[w].call.order), Logged)
           /\ "gateway.webhook_received" \in TypesOf(Pending(w), job[w].call.order)
           /\ \A v \in Workers \ {w} : Linking(v) => job[v].call.order # job[w].call.order
  <1> DEFINE o == job[w].call.order
  <1>1. /\ job[w].tx.writes = <<>> /\ IsLinked(o)
        /\ "gateway.webhook_received" \in TypesOf(Pending(w), o)
    BY DEF ReadsInvariant, ReadsFit, HookFits
  <1>2. OrderOf(w) = Stored("orders")[o]
    BY DEF OrderOf, StoreInvariant, Stored, RowsOf, Tables
  <1>3. OrderKept(o, OrderOf(w), Stored("payments"), RowAt(Stored("receipts"), o),
                  RowAt(Stored("refundReceipts"), o), Logged)
    BY <1>1, <1>2, OrderBook DEF IsLinked
  <1>4. OrderOf(w).link
    BY <1>1, <1>2 DEF IsLinked
  <1>5. \A v \in Workers : Linking(v) => job[v].call.order # o
    BY <1>1, NotLinking
  <1> QED BY <1>1, <1>2, <1>3, <1>4, <1>5

\* The events of a webhook are no Refusals.
LEMMA LinkEventsAre ==
    ASSUME NEW w, NEW a, NEW b, a.type \notin RefusalTypes, b.type \notin RefusalTypes
    PROVE  /\ \A tail \in {<<>>, <<a>>, <<a, b>>} :
                 /\ Len(LinkEvents(w) \o tail) \in Nat
                 /\ \A i \in 1 .. Len(LinkEvents(w) \o tail) :
                       (LinkEvents(w) \o tail)[i].type \notin RefusalTypes
           /\ {a, b} \subseteq EventsOf(LinkEvents(w) \o <<a, b>>)
  <1> DEFINE event == Event("gateway.order_linked", job[w].call.order, <<>>)
             type == "gateway.order_linked"
             all == {event, a, b}
             head == LinkEvents(w)
  <1>1. head = <<event>> \/ head = <<>>
    BY DEF LinkEvents
  <1>2. event.type \notin RefusalTypes
    BY DEF Event, RefusalTypes
  <1> HIDE DEF event
  <1>3. /\ <<>> \in Seq(all) /\ <<a>> \in Seq(all) /\ <<a, b>> \in Seq(all)
        /\ <<event>> \in Seq(all)
    OBVIOUS
  <1>4. \A e \in all : e.type \notin RefusalTypes
    BY <1>2
  <1>5. head \in Seq(all)
    BY <1>1, <1>3
  <1> HIDE DEF all, head
  <1>7. \A tail \in Seq(all) : head \o tail \in Seq(all)
    BY <1>5
  <1>8. \A s \in Seq(all) : Len(s) \in Nat /\ \A i \in 1 .. Len(s) : s[i].type \notin RefusalTypes
    BY <1>4
  <1>9. {a, b} \subseteq {(head \o <<a, b>>)[i] : i \in 1 .. Len(head \o <<a, b>>)}
    <2> DEFINE whole == head \o <<a, b>>
    <2>1. CASE head = <<event>>
      <3>1. Len(whole) = 3 /\ whole[2] = a /\ whole[3] = b
        BY <2>1
      <3> HIDE DEF whole
      <3>2. {a, b} \subseteq {whole[i] : i \in 1 .. Len(whole)}
        BY <3>1
      <3> QED BY <3>2 DEF whole
    <2>2. CASE head = <<>>
      <3>1. Len(whole) = 2 /\ whole[1] = a /\ whole[2] = b
        BY <2>2
      <3> HIDE DEF whole
      <3>2. {a, b} \subseteq {whole[i] : i \in 1 .. Len(whole)}
        BY <3>1
      <3> QED BY <3>2 DEF whole
    <2> QED BY <1>1, <2>1, <2>2
  <1>10. \A tail \in {<<>>, <<a>>, <<a, b>>} :
             /\ Len(head \o tail) \in Nat
             /\ \A i \in 1 .. Len(head \o tail) : (head \o tail)[i].type \notin RefusalTypes
    <2> SUFFICES ASSUME NEW tail \in {<<>>, <<a>>, <<a, b>>}
                 PROVE  /\ Len(head \o tail) \in Nat
                        /\ \A i \in 1 .. Len(head \o tail) : (head \o tail)[i].type \notin RefusalTypes
      OBVIOUS
    <2>1. tail \in Seq(all)
      BY <1>3
    <2> QED BY <1>7, <1>8, <2>1
  <1> QED BY <1>9, <1>10 DEF head, EventsOf

\* What stays of an Order's row whatever a webhook counts or cancels.
SameTerms(row, old) ==
    /\ DOMAIN old \subseteq DOMAIN row /\ row.link = old.link
    /\ row.amountPaise = old.amountPaise /\ row.refundReason = old.refundReason
    /\ row.gatewayPaymentId = old.gatewayPaymentId
    /\ (row.status \in Settled) = (old.status \in Settled)
    /\ (row.status = "refunded") = (old.status = "refunded")

\* A webhook that settles nothing.
LEMMA ApplyReads ==
    ASSUME StoreInvariant, ReadsInvariant, NEW w \in Workers, NEW row, NEW tail, NEW outcome,
           job[w].step = "apply", ApplyTo(w, row, tail, "commit", outcome), UNCHANGED hooks,
           Len(LinkEvents(w) \o tail) \in Nat,
           \A i \in 1 .. Len(LinkEvents(w) \o tail) :
               (LinkEvents(w) \o tail)[i].type \notin RefusalTypes,
           SameTerms(row, OrderOf(w)),
           \/ row.status = OrderOf(w).status
           \/ Recorded[row.status] \subseteq TypesOf(Shown(w, LinkEvents(w) \o tail), job[w].call.order)
    PROVE  ReadsInvariant'
  <1> DEFINE o == job[w].call.order
             rows == [orders |-> Entry(o, row)]
             locks == {<<"orders", o>>}
             events == LinkEvents(w) \o tail
             step == "commit"
             after == "idle"
  <1>1. Execute(w, locks, rows, events, step, after, outcome)
    BY DEF ApplyTo
  <1>2. /\ step \in {"commit", "fulfil"} /\ after \notin {"attempt_link", "create_link", "refund_call"}
        /\ <<"orders", o>> \in locks
    OBVIOUS
  <1>13. \/ row.status = OrderOf(w).status
         \/ Recorded[row.status] \subseteq TypesOf(Shown(w, events), o)
    OBVIOUS
  <1>3. DOMAIN rows = {"orders"} /\ DOMAIN rows["orders"] = {o} /\ rows["orders"][o] = row
    BY DEF Entry
  <1>4. Len(events) \in Nat /\ \A i \in 1 .. Len(events) : events[i].type \notin RefusalTypes
    OBVIOUS
  <1>5. /\ OrderOf(w).link
        /\ OrderKept(o, OrderOf(w), Stored("payments"), RowAt(Stored("receipts"), o),
                     RowAt(Stored("refundReceipts"), o), Logged)
    BY AtApply
  <1>6. /\ job[w].step \notin ShowSteps /\ job[w].tx.writes = <<>>
        /\ \A v \in Workers \ {w} : Linking(v) => job[v].call.order # o
    BY AtApply DEF ShowSteps
  <1> HIDE DEF rows, events, step, after, locks
  <1>7. OrderKept(o, row, Stored("payments"), RowAt(Stored("receipts"), o),
                  RowAt(Stored("refundReceipts"), o), Shown(w, events))
    <2>1. Logged \subseteq Shown(w, events)
      BY DEF Shown
    <2> QED BY <1>5, <1>13, <2>1, RowRewritten DEF SameTerms
  <1>8. /\ RowsOf(rows, "orders") = rows["orders"]
        /\ RowsOf(rows, "receipts") = <<>> /\ RowsOf(rows, "refundReceipts") = <<>>
    BY <1>3 DEF RowsOf
  <1>9. DOMAIN RowsOf(rows, "receipts") = {} /\ DOMAIN RowsOf(rows, "refundReceipts") = {}
    BY <1>8, NothingFits
  <1>10. /\ DOMAIN RowsOf(rows, "receipts") \subseteq {o} \ DOMAIN Stored("receipts")
         /\ DOMAIN RowsOf(rows, "refundReceipts") \subseteq {o} \ DOMAIN Stored("refundReceipts")
         /\ DOMAIN rows \subseteq {"orders", "receipts", "refundReceipts"}
         /\ DOMAIN RowsOf(rows, "orders") = {o} /\ RowsOf(rows, "orders")[o].link
    BY <1>3, <1>5, <1>8, <1>9 DEF SameTerms
  <1>14. Addressed(o) => RowsOf(rows, "orders")[o].gatewayPaymentId # NoField
    BY <1>3, <1>8, AtApply DEF SameTerms, Addressed
  <1>11. OrderKept(o, RowsOf(rows, "orders")[o], Stored("payments"), Found(rows, "receipts", o),
                   Found(rows, "refundReceipts", o), Shown(w, events))
    BY <1>3, <1>7, <1>8, <1>9 DEF Found
  <1>12. AboutOne(w, o, locks, rows, events)
    BY <1>2, <1>4, <1>6, <1>10, <1>11, <1>14 DEF AboutOne
  <1> QED BY <1>1, <1>2, <1>6, <1>12, OrderWritten

\* A failed payment, counted or the last one.
LEMMA ApplyFailureReads ==
    ASSUME StoreInvariant, ReadsInvariant, NEW w \in Workers, ApplyFailure(w)
    PROVE  ReadsInvariant'
  <1> DEFINE o == job[w].call.order
             row == Linked(w)
             payment == job[w].call.hook.payment
             attempt == Cardinality(row.declined) + 1
             counted == [row EXCEPT !.declined = @ \cup {payment}]
             cancelled == [counted EXCEPT !.status = "cancelled",
                                          !.cancellationReason = DeclinePayload(attempt)]
             declined == Event("payment.declined", o, [attempt |-> attempt])
             over == Event("order.cancelled", o, [decline |-> DeclinePayload(attempt)])
  <1>1. job[w].step = "apply" /\ UNCHANGED hooks
    BY DEF ApplyFailure
  <1>2. \/ \E outcome : ApplyTo(w, row, <<>>, "commit", outcome)
        \/ \E outcome : ApplyTo(w, counted, <<declined>>, "commit", outcome)
        \/ Payable(row) /\ \E outcome : ApplyTo(w, cancelled, <<declined, over>>, "commit", outcome)
    BY Zenon DEF ApplyFailure
  <1>3. declined.type \notin RefusalTypes /\ over.type \notin RefusalTypes
    BY DEF Event, RefusalTypes
  <1>4. {"status", "link", "amountPaise", "gatewayPaymentId", "refundReason"} \subseteq DOMAIN OrderOf(w)
    BY <1>1, AtApply DEF OrderKept
  <1>11. /\ declined.type = "payment.declined" /\ declined.order = o
         /\ over.type = "order.cancelled" /\ over.order = o
    BY DEF Event
  <1>5. SameTerms(row, OrderOf(w)) /\ row.status = OrderOf(w).status
    BY <1>4 DEF Linked, SameTerms
  <1> HIDE DEF row, declined, over
  <1>6. SameTerms(counted, OrderOf(w)) /\ counted.status = row.status
    BY <1>4, <1>5 DEF SameTerms
  <1> HIDE DEF counted, attempt
  <1>7. ASSUME Payable(row) PROVE SameTerms(cancelled, OrderOf(w))
    <2>1. OrderOf(w).status \notin Settled /\ OrderOf(w).status # "refunded"
      BY <1>5, <1>7 DEF Payable, Settled
    <2>2. /\ DOMAIN cancelled = DOMAIN counted /\ cancelled.status = "cancelled"
          /\ cancelled.link = counted.link /\ cancelled.amountPaise = counted.amountPaise
          /\ cancelled.refundReason = counted.refundReason
          /\ cancelled.gatewayPaymentId = counted.gatewayPaymentId
      BY <1>4, <1>6 DEF SameTerms
    <2>3. "cancelled" \notin Settled
      BY DEF Settled
    <2> HIDE DEF cancelled
    <2> QED BY <1>6, <2>1, <2>2, <2>3 DEF SameTerms
  <1>12. cancelled.status = "cancelled"
    BY <1>4, <1>6 DEF SameTerms
  <1>13. Recorded["cancelled"] \subseteq TypesOf(Shown(w, LinkEvents(w) \o <<declined, over>>), o)
    <2> DEFINE shown == Shown(w, LinkEvents(w) \o <<declined, over>>)
    <2>1. Logged \subseteq shown /\ Pending(w) \subseteq shown /\ {declined, over} \subseteq shown
      BY <1>3, LinkEventsAre DEF Shown
    <2> HIDE DEF shown
    <2>2. /\ TypesOf(Logged, o) \subseteq TypesOf(shown, o)
          /\ TypesOf(Pending(w), o) \subseteq TypesOf(shown, o)
      BY <2>1, ShownStays
    <2>3. {"payment.declined", "order.cancelled"} \subseteq TypesOf(shown, o)
      BY <1>11, <2>1 DEF TypesOf
    <2>4. "gateway.webhook_received" \in TypesOf(shown, o) /\ WithLink \subseteq TypesOf(shown, o)
      BY <1>1, <2>2, AtApply DEF OrderKept
    <2>5. Recorded["cancelled"] \subseteq TypesOf(shown, o)
      BY <2>3, <2>4 DEF Recorded
    <2> QED BY <2>5 DEF shown
  <1> HIDE DEF cancelled
  <1>8. ASSUME NEW outcome, ApplyTo(w, row, <<>>, "commit", outcome) PROVE ReadsInvariant'
    BY <1>1, <1>3, <1>5, <1>8, LinkEventsAre, ApplyReads
  <1>9. ASSUME NEW outcome, ApplyTo(w, counted, <<declined>>, "commit", outcome)
        PROVE  ReadsInvariant'
    BY <1>1, <1>3, <1>5, <1>6, <1>9, LinkEventsAre, ApplyReads
  <1>10. ASSUME NEW outcome, Payable(row), ApplyTo(w, cancelled, <<declined, over>>, "commit", outcome)
         PROVE  ReadsInvariant'
    BY <1>1, <1>3, <1>7, <1>10, <1>12, <1>13, LinkEventsAre, ApplyReads
  <1> QED BY <1>2, <1>8, <1>9, <1>10

\* The Receipt restates what the Order was placed with.
LEMMA ReceiptRestates ==
    ASSUME StoreInvariant, NEW w \in Workers,
           \E k \in DOMAIN Stored("payments") : Stored("payments")[k].order = job[w].call.order
    PROVE  /\ Restates(ReceiptOf(w), job[w].call.order, Stored("payments"))
           /\ ReceiptOf(w).amountPaise = OrderOf(w).amountPaise
  <1> DEFINE o == job[w].call.order
             key == CHOOSE k \in DOMAIN db.payments : db.payments[k].order = o
  <1>1. db.payments = Stored("payments")
    BY DEF StoreInvariant, Stored, RowsOf, Tables
  <1>2. key \in DOMAIN db.payments /\ db.payments[key].order = o
    BY <1>1
  <1>3. /\ ReceiptOf(w).cartHash = db.payments[key].cart
        /\ ReceiptOf(w).paymentHash = db.payments[key].hash
        /\ ReceiptOf(w).amountPaise = OrderOf(w).amountPaise
    BY DEF ReceiptOf
  <1> HIDE DEF key
  <1> QED BY <1>1, <1>2, <1>3 DEF Restates

\* A capture: the Order is paid, with its Receipt, or nothing is settled.
LEMMA ApplyCaptureReads ==
    ASSUME StoreInvariant, ReadsInvariant, NEW w \in Workers, ApplyCapture(w)
    PROVE  ReadsInvariant'
  <1> DEFINE o == job[w].call.order
             row == Linked(w)
             payment == job[w].call.hook.payment
             paid == [row EXCEPT !.status = "paid", !.gatewayPaymentId = BoundPayment(w)]
             receipt == ReceiptOf(w)
             rows == [orders |-> Entry(o, paid), receipts |-> MintedReceipt(w)]
             paidEvent == Event("order.paid", o, [gatewayPaymentId |-> payment,
                                                  amountPaise |-> links[o].amountPaise])
             minted == MintEvent(w)
             anomaly == Event("order.anomaly_detected", o, [reason |-> "payment_after_cancellation"])
             locks == {<<"orders", o>>}
             events == LinkEvents(w) \o <<paidEvent, minted>>
             step == "fulfil"
             after == "idle"
  <1>1. job[w].step = "apply" /\ UNCHANGED hooks
    BY DEF ApplyCapture
  <1>2. \/ Payable(row) /\ Execute(w, locks, rows, events, step, after, NoField)
        \/ \E outcome : ApplyTo(w, row, <<anomaly>>, "commit", outcome)
        \/ \E outcome : ApplyTo(w, row, <<>>, "commit", outcome)
    BY Zenon DEF ApplyCapture
  <1>3. /\ {"status", "link", "amountPaise", "gatewayPaymentId", "refundReason"}
              \subseteq DOMAIN OrderOf(w)
        /\ OrderKept(o, OrderOf(w), Stored("payments"), RowAt(Stored("receipts"), o),
                     RowAt(Stored("refundReceipts"), o), Logged)
    BY <1>1, AtApply DEF OrderKept
  <1>4. SameTerms(row, OrderOf(w)) /\ row.status = OrderOf(w).status
    BY <1>3 DEF Linked, SameTerms
  <1>5. /\ paidEvent.type = "order.paid" /\ paidEvent.order = o
        /\ minted.order = o
        /\ BoundPayment(w) = NoField =>
              /\ minted.type = "order.anomaly_detected"
              /\ Field(minted, "reason") = "missing_gateway_payment_id"
        /\ BoundPayment(w) # NoField => minted.type = "receipt.issued"
        /\ anomaly.type = "order.anomaly_detected"
    BY DEF Event, MintEvent, Field
  <1>6. /\ paidEvent.type \notin RefusalTypes /\ minted.type \notin RefusalTypes
        /\ anomaly.type \notin RefusalTypes
    BY <1>5 DEF RefusalTypes
  <1> HIDE DEF row, paidEvent, minted, anomaly
  <1>7. ASSUME NEW outcome, ApplyTo(w, row, <<anomaly>>, "commit", outcome) PROVE ReadsInvariant'
    BY <1>1, <1>4, <1>6, <1>7, LinkEventsAre, ApplyReads
  <1>8. ASSUME NEW outcome, ApplyTo(w, row, <<>>, "commit", outcome) PROVE ReadsInvariant'
    BY <1>1, <1>4, <1>6, <1>8, LinkEventsAre, ApplyReads
  <1>9. CASE Payable(row) /\ Execute(w, locks, rows, events, step, after, NoField)
    <2>1. /\ {"status", "link", "amountPaise", "gatewayPaymentId", "refundReason"} \subseteq DOMAIN paid
          /\ paid.status = "paid" /\ paid.link = OrderOf(w).link
          /\ paid.amountPaise = OrderOf(w).amountPaise
          /\ paid.gatewayPaymentId = BoundPayment(w)
      BY <1>3, <1>4 DEF SameTerms
    <2>2. /\ DOMAIN rows = {"orders", "receipts"}
          /\ DOMAIN rows["orders"] = {o} /\ rows["orders"][o] = paid
          /\ rows["receipts"] = MintedReceipt(w)
      BY DEF Entry
    <2>3. /\ step \in {"commit", "fulfil"} /\ after \notin {"attempt_link", "create_link", "refund_call"}
          /\ <<"orders", o>> \in locks
      OBVIOUS
    <2>4. /\ Len(events) \in Nat /\ \A i \in 1 .. Len(events) : events[i].type \notin RefusalTypes
          /\ {paidEvent, minted} \subseteq EventsOf(events)
      <3>1. /\ \A tail \in {<<>>, <<paidEvent>>, <<paidEvent, minted>>} :
                  /\ Len(LinkEvents(w) \o tail) \in Nat
                  /\ \A i \in 1 .. Len(LinkEvents(w) \o tail) :
                        (LinkEvents(w) \o tail)[i].type \notin RefusalTypes
            /\ {paidEvent, minted} \subseteq EventsOf(LinkEvents(w) \o <<paidEvent, minted>>)
        BY <1>6, LinkEventsAre
      <3> QED BY <3>1
    <2>5. OrderOf(w).status \notin Settled /\ OrderOf(w).status # "refunded"
      BY <1>4, <1>9 DEF Payable, Settled
    <2>6. RowAt(Stored("receipts"), o) = {} /\ RowAt(Stored("refundReceipts"), o) = {}
      BY <1>3, <2>5 DEF OrderKept
    <2>7. Restates(receipt, o, Stored("payments")) /\ receipt.amountPaise = OrderOf(w).amountPaise
      BY <1>3, ReceiptRestates DEF OrderKept
    <2>8. Execute(w, locks, rows, events, step, after, NoField)
      BY <1>9
    <2>14. /\ BoundPayment(w) = NoField => DOMAIN rows["receipts"] = {}
           /\ BoundPayment(w) # NoField => DOMAIN rows["receipts"] = {o} /\ rows["receipts"][o] = receipt
      <3>1. CASE BoundPayment(w) = NoField
        BY <2>2, <3>1, NothingFits DEF MintedReceipt
      <3>2. CASE BoundPayment(w) # NoField
        BY <2>2, <3>2, OneRow DEF MintedReceipt
      <3> QED BY <3>1, <3>2
    <2> HIDE DEF rows, paid, receipt, events, step, after, locks
    <2>9. /\ RowsOf(rows, "orders") = rows["orders"] /\ RowsOf(rows, "receipts") = rows["receipts"]
          /\ DOMAIN RowsOf(rows, "refundReceipts") = {}
      BY <2>2, NothingFits DEF RowsOf
    <2> DEFINE receipts == IF BoundPayment(w) = NoField THEN {} ELSE {receipt}
    <2>10. OrderKept(o, paid, Stored("payments"), receipts, {}, Shown(w, events))
      <3> DEFINE shown == Shown(w, events)
      <3>1. Logged \subseteq shown /\ Pending(w) \subseteq shown /\ {paidEvent, minted} \subseteq shown
        BY <2>4 DEF Shown
      <3> HIDE DEF shown
      <3>2. /\ TypesOf(Logged, o) \subseteq TypesOf(shown, o)
            /\ TypesOf(Pending(w), o) \subseteq TypesOf(shown, o)
        BY <3>1, ShownStays
      <3>3. "order.paid" \in TypesOf(shown, o)
        BY <1>5, <3>1 DEF TypesOf
      <3>4. "gateway.webhook_received" \in TypesOf(shown, o) /\ OrderOf(w).link
        BY <1>1, <3>2, AtApply
      <3>5. /\ WithLink \subseteq TypesOf(shown, o)
            /\ \E k \in DOMAIN Stored("payments") : Stored("payments")[k].order = o
        BY <1>3, <3>2, <3>4 DEF OrderKept
      <3>6. paid.status \in Settled /\ paid.status # "refunded"
        BY <2>1 DEF Settled
      <3>7. paid.link /\ paid.link \in BOOLEAN
        BY <1>3, <2>1, <3>4 DEF OrderKept
      <3>9. Recorded[paid.status] \subseteq TypesOf(shown, o)
        BY <2>1, <3>3, <3>4, <3>5 DEF Recorded, WithPayment
      <3>10. CASE BoundPayment(w) = NoField
        <4>1. paid.gatewayPaymentId = NoField /\ receipts = {}
          BY <2>1, <3>10
        <4>2. Unbound(shown, o)
          <5>1. minted \in shown
            BY <3>1
          <5> QED BY <1>5, <3>10, <5>1 DEF Unbound
        <4> HIDE DEF receipts
        <4>3. OrderKept(o, paid, Stored("payments"), {}, {}, shown)
          BY <2>1, <3>5, <3>6, <3>7, <3>9, <4>1, <4>2 DEF OrderKept
        <4> QED BY <4>1, <4>3 DEF shown
      <3>11. CASE BoundPayment(w) # NoField
        <4>1. receipts = {receipt}
          BY <3>11
        <4>2. "receipt.issued" \in TypesOf(shown, o)
          <5>1. minted \in shown
            BY <3>1
          <5> QED BY <1>5, <3>11, <5>1 DEF TypesOf
        <4> HIDE DEF receipts
        <4>3. OrderKept(o, paid, Stored("payments"), {receipt}, {}, shown)
          BY <2>1, <2>7, <3>5, <3>6, <3>7, <3>9, <4>2 DEF OrderKept
        <4> QED BY <4>1, <4>3 DEF shown
      <3> QED BY <3>10, <3>11
    <2>11. AboutOne(w, o, locks, rows, events)
      <3>1. /\ Found(rows, "receipts", o) = receipts /\ Found(rows, "refundReceipts", o) = {}
        <4>1. CASE BoundPayment(w) = NoField
          BY <2>6, <2>9, <2>14, <4>1 DEF Found
        <4>2. CASE BoundPayment(w) # NoField
          BY <2>6, <2>9, <2>14, <4>2 DEF Found
        <4> QED BY <4>1, <4>2
      <3> HIDE DEF receipts
      <3>2. o \notin DOMAIN Stored("receipts")
        BY <2>6, RowAtIs
      <3>3. RowsOf(rows, "orders")[o].link /\ RowsOf(rows, "orders")[o] = paid
        BY <1>1, <2>1, <2>2, <2>9, AtApply
      <3>4. \A v \in Workers \ {w} : Linking(v) => job[v].call.order # o
        BY <1>1, AtApply
      <3>5. /\ DOMAIN rows \subseteq {"orders", "receipts", "refundReceipts"}
            /\ DOMAIN RowsOf(rows, "orders") = {o}
            /\ DOMAIN RowsOf(rows, "receipts") \subseteq {o} \ DOMAIN Stored("receipts")
            /\ DOMAIN RowsOf(rows, "refundReceipts") \subseteq {o} \ DOMAIN Stored("refundReceipts")
        BY <2>2, <2>9, <2>14, <3>2
      <3>6. Addressed(o) => paid.gatewayPaymentId # NoField
        BY <1>1, <2>1, AtApply DEF Addressed, BoundPayment
      <3> QED BY <2>3, <2>4, <2>10, <3>1, <3>3, <3>4, <3>5, <3>6 DEF AboutOne
    <2>12. job[w].tx.writes = <<>> /\ job[w].step \notin ShowSteps
      BY <1>1, AtApply DEF ShowSteps
    <2> QED BY <1>1, <2>3, <2>8, <2>11, <2>12, OrderWritten
  <1> QED BY <1>2, <1>7, <1>8, <1>9

\* Where it is found: among the transaction's own, or in the store.
LEMMA RowNext ==
    ASSUME BooksStay, NEW w, NEW t, t # "variants", NEW o
    PROVE  RowAt(View(w, t)', o) = IF o \in DOMAIN Writes(w, t)' THEN {Writes(w, t)'[o]}
                                   ELSE RowAt(Stored(t), o)
  BY ViewNext

\* A row is found as before where the transaction has the same.
LEMMA RowsStay ==
    ASSUME BooksStay, NEW w,
           \A t \in {"payments", "receipts", "refundReceipts", "carts", "intents"} :
               /\ DOMAIN Writes(w, t)' = DOMAIN Writes(w, t)
               /\ \A x \in DOMAIN Writes(w, t) : Writes(w, t)'[x] = Writes(w, t)[x]
    PROVE  \A t \in {"receipts", "refundReceipts"} : \A o :
               RowAt(View(w, t)', o) = RowAt(View(w, t), o)
  <1> SUFFICES ASSUME NEW t \in {"receipts", "refundReceipts"}, NEW o
               PROVE  RowAt(View(w, t)', o) = RowAt(View(w, t), o)
    OBVIOUS
  <1>1. t # "variants"
    OBVIOUS
  <1>2. RowAt(View(w, t)', o) = IF o \in DOMAIN Writes(w, t)' THEN {Writes(w, t)'[o]}
                                ELSE RowAt(Stored(t), o)
    BY <1>1, RowNext
  <1>3. RowAt(View(w, t), o) = IF o \in DOMAIN Writes(w, t) THEN {Writes(w, t)[o]}
                               ELSE RowAt(Stored(t), o)
    BY OverExtends DEF View
  <1>4. /\ DOMAIN Writes(w, t)' = DOMAIN Writes(w, t)
        /\ \A x \in DOMAIN Writes(w, t) : Writes(w, t)'[x] = Writes(w, t)[x]
    OBVIOUS
  <1> QED BY <1>2, <1>3, <1>4

\* Statements that follow in the transaction of a webhook touch only the rows of
\* Orders it has written, in what does not matter here.
LEMMA MoreWritten ==
    ASSUME StoreInvariant, ReadsInvariant, NEW w \in Workers,
           NEW locks, NEW writes, NEW events, NEW step, NEW after, NEW reply,
           Execute(w, locks, writes, events, step, after, reply), UNCHANGED hooks,
           Len(events) \in Nat, \A i \in 1 .. Len(events) : events[i].type \notin RefusalTypes,
           job[w].step = "fulfil", step = "commit",
           after \notin {"attempt_link", "create_link", "refund_call"},
           \A t \in {"payments", "receipts", "refundReceipts", "carts", "intents"} :
               DOMAIN RowsOf(writes, t) = {},
           DOMAIN RowsOf(writes, "orders") \subseteq DOMAIN Writes(w, "orders"),
           \A o \in DOMAIN RowsOf(writes, "orders") :
               /\ SameTerms(RowsOf(writes, "orders")[o], Writes(w, "orders")[o])
               /\ RowsOf(writes, "orders")[o].status = Writes(w, "orders")[o].status
    PROVE  ReadsInvariant'
  <1> DEFINE others == {"payments", "receipts", "refundReceipts", "carts", "intents"}
  <1>1. /\ OneMoves(w) /\ BooksStay /\ job'[w].step = step /\ job'[w].after = after
        /\ job'[w].call = job[w].call
        /\ job'[w].tx.locks = job[w].tx.locks \cup locks
        /\ Pending(w)' = Pending(w) \cup {events[i] : i \in 1 .. Len(events)}
        /\ \A t : Writes(w, t)' = RowsOf(writes, t) ++ Writes(w, t)
    BY Executed
  <1>2. TxKept(w)
    BY DEF ReadsInvariant, ReadsFit
  <1>3. \A t : t # "variants" => Stored(t)' = Stored(t)
    BY <1>1 DEF BooksStay, Stored
  <1>4. Logged' = Logged /\ Events(w) \subseteq Events(w)'
    BY <1>1 DEF BooksStay, Logged, Events
  <1>5. \A t \in others : /\ DOMAIN Writes(w, t)' = DOMAIN Writes(w, t)
                          /\ \A x \in DOMAIN Writes(w, t) : Writes(w, t)'[x] = Writes(w, t)[x]
    <2> SUFFICES ASSUME NEW t \in others
                 PROVE  /\ DOMAIN Writes(w, t)' = DOMAIN Writes(w, t)
                        /\ \A x \in DOMAIN Writes(w, t) : Writes(w, t)'[x] = Writes(w, t)[x]
      OBVIOUS
    <2>1. DOMAIN RowsOf(writes, t) = {}
      OBVIOUS
    <2>2. Writes(w, t)' = RowsOf(writes, t) ++ Writes(w, t)
      BY <1>1
    <2> QED BY <2>1, <2>2 DEF ++
  <1>6. \A o \in DOMAIN Writes(w, "orders") :
            Writes(w, "orders")'[o] = IF o \in DOMAIN RowsOf(writes, "orders")
                                      THEN RowsOf(writes, "orders")[o] ELSE Writes(w, "orders")[o]
    <2>1. Writes(w, "orders")' = RowsOf(writes, "orders") ++ Writes(w, "orders")
      BY <1>1
    <2> QED BY <2>1 DEF ++
  <1>7. \A o \in DOMAIN Writes(w, "orders") :
            /\ SameTerms(Writes(w, "orders")'[o], Writes(w, "orders")[o])
            /\ Writes(w, "orders")'[o].status = Writes(w, "orders")[o].status
    BY <1>6 DEF SameTerms
  <1>8. DOMAIN Writes(w, "orders")' = DOMAIN Writes(w, "orders")
    <2>1. Writes(w, "orders")' = RowsOf(writes, "orders") ++ Writes(w, "orders")
      BY <1>1
    <2> QED BY <2>1 DEF ++
  <1>9. \A t \in {"receipts", "refundReceipts"} : \A o :
            RowAt(View(w, t)', o) = RowAt(View(w, t), o)
    BY <1>1, <1>5, RowsStay
  <1>10. Extends(View(w, "payments"), View(w, "payments")')
    <2>1. /\ DOMAIN View(w, "payments") = DOMAIN Writes(w, "payments") \cup DOMAIN Stored("payments")
          /\ \A k \in DOMAIN View(w, "payments") :
                View(w, "payments")[k] = IF k \in DOMAIN Writes(w, "payments")
                                         THEN Writes(w, "payments")[k] ELSE Stored("payments")[k]
      BY DEF View, ++
    <2> DEFINE t == "payments"
    <2>2. t # "variants" /\ t \in others
      OBVIOUS
    <2> HIDE DEF t
    <2>3. /\ DOMAIN View(w, t)' = DOMAIN Writes(w, t)' \cup DOMAIN Stored(t)
          /\ \A k \in DOMAIN View(w, t)' :
                View(w, t)'[k] = IF k \in DOMAIN Writes(w, t)' THEN Writes(w, t)'[k] ELSE Stored(t)[k]
      BY <1>1, <2>2, ViewNext, ZenonT(60)
    <2>4. /\ DOMAIN Writes(w, t)' = DOMAIN Writes(w, t)
          /\ \A x \in DOMAIN Writes(w, t) : Writes(w, t)'[x] = Writes(w, t)[x]
      BY <1>5, <2>2
    <2>5. Extends(View(w, t), View(w, t)')
      BY <2>1, <2>3, <2>4 DEF Extends, t
    <2> QED BY <2>5 DEF t
  <1>11. OrdersKept(w)'
    <2> SUFFICES ASSUME NEW o \in DOMAIN Writes(w, "orders")
                 PROVE  OrderKept(o, Writes(w, "orders")'[o], View(w, "payments")',
                                  RowAt(View(w, "receipts")', o),
                                  RowAt(View(w, "refundReceipts")', o), Events(w)')
      BY <1>8 DEF OrdersKept
    <2>1. OrderKept(o, Writes(w, "orders")[o], View(w, "payments"), RowAt(View(w, "receipts"), o),
                    RowAt(View(w, "refundReceipts"), o), Events(w))
      BY <1>2 DEF TxKept, OrdersKept
    <2> DEFINE row == Writes(w, "orders")[o]
               new == Writes(w, "orders")'[o]
    <2>2. SameTerms(new, row) /\ new.status = row.status
      BY <1>7
    <2> HIDE DEF row, new
    <2>3. OrderKept(o, new, View(w, "payments"), RowAt(View(w, "receipts"), o),
                    RowAt(View(w, "refundReceipts"), o), Events(w)')
      BY <1>4, <2>1, <2>2, RowRewritten DEF SameTerms, row
    <2>4. OrderKept(o, new, View(w, "payments")', RowAt(View(w, "receipts"), o),
                    RowAt(View(w, "refundReceipts"), o), Events(w)')
      BY <1>10, <2>3, OrderStays
    <2> QED BY <1>9, <2>4 DEF new
  <1>12. Guarded(w)'
    BY <1>1, <1>2, <1>5, <1>8 DEF TxKept, Guarded
  <1>13. WritesNew(w)'
    BY <1>2, <1>3, <1>5 DEF TxKept, WritesNew
  <1>14. KeepsLink(w)'
    BY <1>2, <1>3, <1>7, <1>8 DEF TxKept, KeepsLink, SameTerms
  <1>15. MandatesKept(w)'
    <2>1. \A e \in Pending(w)' : RefusalKept(e, Logged)
      BY <1>1, <1>2 DEF TxKept, MandatesKept, RefusalKept
    <2>2. \A k \in DOMAIN Writes(w, "carts") : CartKept(k, Writes(w, "carts")[k], Events(w)')
      BY <1>2, <1>4, ShownStays DEF TxKept, MandatesKept
    <2>3. \A i \in DOMAIN Writes(w, "intents") : i # NoField /\ ShowsIntent(Events(w)', i)
      BY <1>2, <1>4, ShownStays DEF TxKept, MandatesKept
    <2> QED BY <1>4, <1>5, <2>1, <2>2, <2>3 DEF MandatesKept
  <1>16. ~Linking(w)'
    BY <1>1 DEF Linking
  <1>17. LinkFits(w)'
    BY <1>1, <1>16 DEF LinkFits
  <1>18. HookFits(w)'
    <2>1. HookFits(w)
      BY DEF ReadsInvariant, ReadsFit
    <2> QED BY <1>1, <1>3, <2>1 DEF HookFits, IsLinked, Refunding
  <1>19. PagesFit(w)'
    <2>1. job[w].step \notin ShowSteps
      BY DEF ShowSteps
    <2> QED BY <1>1, <2>1, NoPage DEF ReadsInvariant, ReadsFit
  <1>20. \A v \in Workers : LinksAlone(v)'
    BY <1>1, <1>8, <1>16, AloneStays
  <1>21. ReadsFit(w)'
    BY <1>11, <1>12, <1>13, <1>14, <1>15, <1>17, <1>18, <1>19 DEF ReadsFit, TxKept
  <1> QED BY <1>20, <1>21, ExecuteReads

\* Stock is taken, or the Order is marked as oversold.
LEMMA FulfilReads ==
    ASSUME StoreInvariant, ReadsInvariant, NEW w \in Workers, Fulfil(w)
    PROVE  ReadsInvariant'
  <1> DEFINE o == job[w].call.order
             items == OrderOf(w).items
             row == job[w].tx.writes.orders[o]
             sold == {items[i].variantId : i \in DOMAIN items}
             Quantity(v) == items[CHOOSE i \in DOMAIN items : items[i].variantId = v].quantity
             short == {[variantId |-> v, requested |-> Quantity(v), available |-> db.variants[v].stock] :
                          v \in {v \in sold : db.variants[v].stock < Quantity(v)}}
             left == [v \in sold |-> [db.variants[v] EXCEPT !.stock = @ - Quantity(v)]]
             taken == [variants |-> left]
             oversold == [row EXCEPT !.shortfall = short]
             marked == [orders |-> Entry(o, oversold)]
             locks == {<<"variants", v>> : v \in sold}
             fulfilled == Event("order.fulfilled", o, <<>>)
             detected == Event("order.oversell_detected", o, [shortfalls |-> short])
             step == "commit"
             ends == "idle"
             refunds == "refund"
  <1>1. job[w].step = "fulfil" /\ UNCHANGED hooks
    BY DEF Fulfil
  <1>2. \/ \E outcome : Execute(w, locks, taken, <<fulfilled>>, step, ends, outcome)
        \/ Execute(w, locks, marked, <<detected>>, step, refunds, NoField)
    BY Zenon DEF Fulfil
  <1>3. /\ step = "commit" /\ ends \notin {"attempt_link", "create_link", "refund_call"}
        /\ refunds \notin {"attempt_link", "create_link", "refund_call"}
    OBVIOUS
  <1>4. fulfilled.type \notin RefusalTypes /\ detected.type \notin RefusalTypes
    BY DEF Event, RefusalTypes
  <1>5. DOMAIN taken = {"variants"}
    OBVIOUS
  <1>6. DOMAIN marked = {"orders"} /\ DOMAIN marked["orders"] = {o} /\ marked["orders"][o] = oversold
    BY DEF Entry
  <1>7. o \in DOMAIN Writes(w, "orders") /\ row = Writes(w, "orders")[o]
    <2>1. o \in OwnOrders(w)
      BY <1>1 DEF StoreInvariant, JobFits, RowsKnown
    <2>2. "orders" \in DOMAIN job[w].tx.writes
      BY <2>1 DEF OwnOrders, RowsOf
    <2> QED BY <2>1, <2>2 DEF OwnOrders, Writes, RowsOf
  <1>8. {"status", "link", "amountPaise", "gatewayPaymentId", "refundReason"} \subseteq DOMAIN row
    BY <1>7 DEF ReadsInvariant, ReadsFit, TxKept, OrdersKept, OrderKept
  <1> HIDE DEF short, row
  <1>9. SameTerms(oversold, row) /\ oversold.status = row.status
    BY <1>8 DEF SameTerms
  <1> HIDE DEF taken, oversold, marked, locks, fulfilled, detected, step, ends, refunds
  <1>10. ASSUME NEW outcome, Execute(w, locks, taken, <<fulfilled>>, step, ends, outcome)
         PROVE  ReadsInvariant'
    <2> DEFINE events == <<fulfilled>>
    <2>1. Len(events) \in Nat /\ \A i \in 1 .. Len(events) : events[i].type \notin RefusalTypes
      BY <1>4
    <2>2. Execute(w, locks, taken, events, step, ends, outcome)
      BY <1>10
    <2>3. \A t \in {"payments", "receipts", "refundReceipts", "carts", "intents", "orders"} :
              DOMAIN RowsOf(taken, t) = {}
      BY <1>5, NothingFits DEF RowsOf
    <2>4. DOMAIN RowsOf(taken, "orders") = {}
      BY <2>3
    <2>5. \A t \in {"payments", "receipts", "refundReceipts", "carts", "intents"} :
              DOMAIN RowsOf(taken, t) = {}
      BY <2>3
    <2> HIDE DEF events
    <2> QED BY <1>1, <1>3, <2>1, <2>2, <2>4, <2>5, MoreWritten
  <1>11. CASE Execute(w, locks, marked, <<detected>>, step, refunds, NoField)
    <2> DEFINE events == <<detected>>
    <2>1. Len(events) \in Nat /\ \A i \in 1 .. Len(events) : events[i].type \notin RefusalTypes
      BY <1>4
    <2>2. Execute(w, locks, marked, events, step, refunds, NoField)
      BY <1>11
    <2>3. \A t \in {"payments", "receipts", "refundReceipts", "carts", "intents"} :
              DOMAIN RowsOf(marked, t) = {}
      BY <1>6, NothingFits DEF RowsOf
    <2>4. DOMAIN RowsOf(marked, "orders") = {o} /\ RowsOf(marked, "orders")[o] = oversold
      BY <1>6 DEF RowsOf
    <2>5. \A x \in DOMAIN RowsOf(marked, "orders") :
              /\ SameTerms(RowsOf(marked, "orders")[x], Writes(w, "orders")[x])
              /\ RowsOf(marked, "orders")[x].status = Writes(w, "orders")[x].status
      BY <1>7, <1>9, <2>4
    <2>6. DOMAIN RowsOf(marked, "orders") \subseteq DOMAIN Writes(w, "orders")
      BY <1>7, <2>4
    <2> HIDE DEF events
    <2> QED BY <1>1, <1>3, <2>1, <2>2, <2>3, <2>5, <2>6, MoreWritten
  <1> QED BY <1>2, <1>10, <1>11

\* That a refund failed is logged.
LEMMA FlagReads ==
    ASSUME StoreInvariant, ReadsInvariant, NEW w \in Workers, FlagRefund(w), UNCHANGED hooks,
           job[w].step \notin InTx \cup ShowSteps
    PROVE  ReadsInvariant'
  <1> DEFINE type == "order.anomaly_detected"
             payload == [reason |-> "refund_failed"]
             o == job[w].call.order
             after == "idle"
             reply == Refunded("refund_failed")
  <1>1. Transact(w, {}, <<>>, <<Event(type, o, payload)>>, after, reply)
    BY DEF FlagRefund
  <1>2. type \notin RefusalTypes /\ after \notin {"attempt_link", "create_link", "refund_call"}
    BY DEF RefusalTypes
  <1> HIDE DEF type, payload, o, after, reply
  <1>3. RefusalKept(Event(type, o, payload), Logged)
    BY <1>2, NoChain
  <1>4. job[w].step \notin InTx \cup {"idle"} /\ job[w].step \notin ShowSteps
    BY DEF ShowSteps
  <1> QED BY <1>1, <1>2, <1>3, <1>4, LogsReads

\* The attempt is logged, or that there is nothing to refund against.
LEMMA AttemptRefundReads ==
    ASSUME StoreInvariant, ReadsInvariant, NEW w \in Workers, AttemptRefund(w)
    PROVE  ReadsInvariant'
  <1> DEFINE type == "gateway.refund_attempted"
             payload == [amountPaise |-> OrderOf(w).amountPaise]
             o == job[w].call.order
             after == "refund_call"
  <1>1. /\ job[w].step \notin InTx \cup ShowSteps /\ UNCHANGED hooks
        /\ "idle" \notin InTx \cup {"attempt_link", "create_link", "issue_link"}
    BY DEF AttemptRefund, InTx, ShowSteps
  <1>2. \/ /\ OrderOf(w).gatewayPaymentId # NoField
           /\ Transact(w, {}, <<>>, <<Event(type, o, payload)>>, after, NoField)
        \/ FlagRefund(w)
        \/ Reply(w, Refunded("not_oversold"))
    BY Zenon DEF AttemptRefund
  <1>6. ASSUME OrderOf(w).gatewayPaymentId # NoField PROVE Addressed(job[w].call.order)
    <2>1. job[w].step = "refund"
      BY DEF AttemptRefund
    <2>2. o \in DOMAIN Stored("orders") /\ OrderOf(w) = Stored("orders")[o]
      BY <2>1 DEF StoreInvariant, JobFits, RowsKnown, OrderSteps, KnownOrder, Stored, RowsOf,
                  Tables, OrderOf
    <2> QED BY <1>6, <2>2 DEF Addressed
  <1>3. type \notin RefusalTypes /\ after \notin {"attempt_link", "create_link"}
    BY DEF RefusalTypes
  <1> HIDE DEF type, payload, o, after
  <1>4. CASE /\ OrderOf(w).gatewayPaymentId # NoField
             /\ Transact(w, {}, <<>>, <<Event(type, o, payload)>>, after, NoField)
    <2>1. RefusalKept(Event(type, o, payload), Logged)
      BY <1>3, NoChain
    <2>2. job[w].step \notin InTx \cup {"idle"} /\ job[w].step \notin ShowSteps
      BY <1>1 DEF ShowSteps
    <2> QED BY <1>1, <1>3, <1>4, <1>6, <2>1, <2>2, LogsReads
  <1>5. CASE Reply(w, Refunded("not_oversold"))
    BY <1>1, <1>5, HooksStay, QuietMoves
  <1>7. CASE FlagRefund(w)
    BY <1>1, <1>7, FlagReads
  <1> QED BY <1>2, <1>4, <1>5, <1>7

\* The gateway gives the money back, or does not.
LEMMA CallRefundReads ==
    ASSUME StoreInvariant, ReadsInvariant, NEW w \in Workers, CallRefund(w)
    PROVE  ReadsInvariant'
  <1>1. /\ job[w].step \notin InTx \cup ShowSteps /\ UNCHANGED hooks
        /\ \A step \in {"refund_record", "refund_failed"} :
              step \notin InTx \cup {"attempt_link", "create_link", "issue_link"}
        /\ job[w].step = "refund_call"
    BY DEF CallRefund, InTx, ShowSteps
  <1>2. Go(w, "refund_record") \/ Go(w, "refund_failed")
    BY Zenon DEF CallRefund
  <1>3. CASE Go(w, "refund_record")
    BY <1>1, <1>3, HooksStay, QuietMoves
  <1>4. CASE Go(w, "refund_failed")
    BY <1>1, <1>4, HooksStay, QuietMoves
  <1> QED BY <1>2, <1>3, <1>4

\* A refund that failed is logged.
LEMMA RecordRefundFailureReads ==
    ASSUME StoreInvariant, ReadsInvariant, NEW w \in Workers, RecordRefundFailure(w)
    PROVE  ReadsInvariant'
  <1>1. FlagRefund(w) /\ UNCHANGED hooks /\ job[w].step \notin InTx \cup ShowSteps
    BY DEF RecordRefundFailure, InTx, ShowSteps
  <1> QED BY <1>1, FlagReads

\* The refund is recorded with its receipt, once.
LEMMA RecordRefundReads ==
    ASSUME StoreInvariant, ReadsInvariant, NEW w \in Workers, RecordRefund(w)
    PROVE  ReadsInvariant'
  <1> DEFINE o == job[w].call.order
             old == OrderOf(w)
             oversell == OversellPayload(old)
             row == [old EXCEPT !.status = "refunded", !.refundReason = oversell]
             receipt == db.receipts[o]
             refund == [receipt |-> receipt, amountPaise |-> old.amountPaise]
             rows == [orders |-> Entry(o, row), refundReceipts |-> RefundReceipt(w)]
             locks == {<<"orders", o>>}
             refunded == Event("order.refunded", o, [amountPaise |-> old.amountPaise,
                                                     oversell |-> oversell])
             issued == RefundMintEvent(w)
             events == <<refunded, issued>>
             step == "commit"
             after == "idle"
             reply == Refunded("order_refunded")
  <1>1. /\ job[w].step \notin InTx \cup ShowSteps /\ job[w].step = "refund_record" /\ UNCHANGED hooks
        /\ "idle" \notin InTx \cup {"attempt_link", "create_link", "issue_link"}
    BY DEF RecordRefund, InTx, ShowSteps
  <1>2. \/ old.status = "paid" /\ Execute(w, locks, rows, events, step, after, reply)
        \/ Reply(w, Refunded("not_oversold"))
    BY DEF RecordRefund, Transact
  <1>3. CASE Reply(w, Refunded("not_oversold"))
    BY <1>1, <1>3, HooksStay, QuietMoves
  <1>4. CASE old.status = "paid" /\ Execute(w, locks, rows, events, step, after, reply)
    <2>1. o \in DOMAIN Stored("orders") /\ old = Stored("orders")[o]
      BY <1>1 DEF StoreInvariant, JobFits, RowsKnown, OrderSteps, KnownOrder, Stored, RowsOf,
                  Tables, OrderOf
    <2>2. OrderKept(o, old, Stored("payments"), RowAt(Stored("receipts"), o),
                    RowAt(Stored("refundReceipts"), o), Logged)
      BY <2>1, OrderBook
    <2>17. old.gatewayPaymentId # NoField
      BY <1>1, <2>1 DEF ReadsInvariant, ReadsFit, HookFits, Refunding, Addressed
    <2>3. /\ {"status", "link", "amountPaise", "gatewayPaymentId", "refundReason"} \subseteq DOMAIN old
          /\ old.link /\ old.link \in BOOLEAN
      BY <1>4, <2>2 DEF OrderKept
    <2>4. /\ o \in DOMAIN Stored("receipts") /\ RowAt(Stored("receipts"), o) = {receipt}
          /\ RowAt(Stored("refundReceipts"), o) = {}
      <3>1. RowAt(Stored("receipts"), o) # {} /\ RowAt(Stored("refundReceipts"), o) = {}
        BY <1>4, <2>2, <2>17 DEF OrderKept, Settled
      <3>2. Stored("receipts") = db.receipts
        BY DEF StoreInvariant, Stored, RowsOf, Tables
      <3> QED BY <3>1, <3>2, RowAtIs
    <2>5. /\ {"status", "link", "amountPaise", "gatewayPaymentId", "refundReason"} \subseteq DOMAIN row
          /\ row.status = "refunded" /\ row.link = old.link /\ row.amountPaise = old.amountPaise
          /\ row.refundReason = oversell /\ row.gatewayPaymentId = old.gatewayPaymentId
      BY <2>3
    <2>6. oversell.refundPaise = old.amountPaise
      BY DEF OversellPayload
    <2>7. refund.receipt = receipt /\ refund.amountPaise = old.amountPaise
      OBVIOUS
    <2>18. o \in DOMAIN db.receipts
      BY <2>4 DEF StoreInvariant, Stored, RowsOf, Tables
    <2>8. /\ refunded.type = "order.refunded" /\ refunded.order = o
          /\ issued.type = "receipt.refund_issued"
      BY <2>18 DEF Event, RefundMintEvent
    <2>9. /\ DOMAIN rows = {"orders", "refundReceipts"}
          /\ DOMAIN rows["orders"] = {o} /\ rows["orders"][o] = row
          /\ DOMAIN rows["refundReceipts"] = {o} /\ rows["refundReceipts"][o] = refund
      BY <2>18 DEF Entry, RefundReceipt
    <2>10. /\ step \in {"commit", "fulfil"} /\ after \notin {"attempt_link", "create_link", "refund_call"}
           /\ <<"orders", o>> \in locks
      OBVIOUS
    <2>11. Len(events) \in Nat /\ \A i \in 1 .. Len(events) : events[i].type \notin RefusalTypes
      <3>1. Len(events) = 2 /\ events[1] = refunded /\ events[2] = issued
        OBVIOUS
      <3>2. refunded.type \notin RefusalTypes /\ issued.type \notin RefusalTypes
        BY <2>8 DEF RefusalTypes
      <3> HIDE DEF events, refunded, issued
      <3>3. \A i \in 1 .. 2 : i = 1 \/ i = 2
        OBVIOUS
      <3> QED BY <3>1, <3>2, <3>3
    <2>12. Execute(w, locks, rows, events, step, after, reply)
      BY <1>4
    <2>19. refunded \in EventsOf(events)
      <3>1. Len(events) = 2 /\ events[1] = refunded
        OBVIOUS
      <3> HIDE DEF events, refunded
      <3> QED BY <3>1 DEF EventsOf
    <2> HIDE DEF old, oversell, row, receipt, refund, rows, locks, refunded, issued, events,
                 step, after, reply
    <2>13. /\ RowsOf(rows, "orders") = rows["orders"]
           /\ RowsOf(rows, "refundReceipts") = rows["refundReceipts"]
           /\ DOMAIN RowsOf(rows, "receipts") = {}
      BY <2>9, NothingFits DEF RowsOf
    <2>14. OrderKept(o, row, Stored("payments"), {receipt}, {refund}, Shown(w, events))
      <3> DEFINE shown == Shown(w, events)
      <3>1. Logged \subseteq shown /\ refunded \in shown
        BY <2>19 DEF Shown
      <3> HIDE DEF shown
      <3>2. TypesOf(Logged, o) \subseteq TypesOf(shown, o)
        BY <3>1, ShownStays
      <3>3. old.status = "paid" /\ row.status \in Settled
        BY <1>4, <2>5 DEF Settled, old
      <3>8. "order.refunded" \in TypesOf(shown, o)
        BY <2>8, <3>1 DEF TypesOf
      <3>9. /\ WithPayment \subseteq TypesOf(shown, o) /\ WithLink \subseteq TypesOf(shown, o)
            /\ "receipt.issued" \in TypesOf(shown, o)
        BY <2>2, <2>3, <2>4, <3>2, <3>3 DEF OrderKept, Recorded
      <3>4. /\ Recorded[row.status] \subseteq TypesOf(shown, o)
            /\ \E k \in DOMAIN Stored("payments") : Stored("payments")[k].order = o
        BY <2>2, <2>5, <3>8, <3>9 DEF OrderKept, Recorded
      <3>5. Restates(receipt, o, Stored("payments")) /\ receipt.amountPaise = old.amountPaise
        BY <2>2, <2>4 DEF OrderKept
      <3>6. row.link /\ row.link \in BOOLEAN
        BY <2>3, <2>5
      <3>7. OrderKept(o, row, Stored("payments"), {receipt}, {refund}, shown)
        BY <2>5, <2>6, <2>7, <3>3, <3>4, <3>5, <3>6, <3>9 DEF OrderKept
      <3> QED BY <3>7 DEF shown
    <2>15. AboutOne(w, o, locks, rows, events)
      <3>1. /\ Found(rows, "receipts", o) = {receipt} /\ Found(rows, "refundReceipts", o) = {refund}
        BY <2>4, <2>9, <2>13 DEF Found
      <3>2. o \notin DOMAIN Stored("refundReceipts")
        BY <2>4, RowAtIs
      <3>3. RowsOf(rows, "orders")[o].link /\ RowsOf(rows, "orders")[o] = row
        BY <2>3, <2>5, <2>9, <2>13
      <3>4. \A v \in Workers \ {w} : Linking(v) => job[v].call.order # o
        <4>1. IsLinked(o)
          BY <2>1, <2>3 DEF IsLinked
        <4> QED BY <4>1, NotLinking
      <3>5. /\ DOMAIN rows \subseteq {"orders", "receipts", "refundReceipts"}
            /\ DOMAIN RowsOf(rows, "orders") = {o}
            /\ DOMAIN RowsOf(rows, "receipts") \subseteq {o} \ DOMAIN Stored("receipts")
            /\ DOMAIN RowsOf(rows, "refundReceipts") \subseteq {o} \ DOMAIN Stored("refundReceipts")
        BY <2>9, <2>13, <3>2
      <3> QED BY <2>5, <2>10, <2>11, <2>14, <2>17, <3>1, <3>3, <3>4, <3>5 DEF AboutOne
    <2>16. job[w].tx.writes = <<>> /\ job[w].step \notin ShowSteps
      BY <1>1 DEF StoreInvariant, JobFits, JobShape, NoTx
    <2> QED BY <1>1, <2>10, <2>12, <2>15, <2>16, OrderWritten
  <1> QED BY <1>2, <1>3, <1>4

\* The human at the payment page finds an Order that carries its link.
LEMMA PayReads ==
    ASSUME StoreInvariant, ReadsInvariant, NEW w \in Workers, CompletePayment(w) \/ FailPayment(w)
    PROVE  ReadsInvariant'
  <1> DEFINE o == job[w].call.order
  <1>1. /\ job[w].step \notin InTx \cup ShowSteps
        /\ "idle" \notin InTx \cup {"attempt_link", "create_link", "issue_link"}
    BY DEF CompletePayment, FailPayment, InTx, ShowSteps
  <1>2. /\ \E reply : Reply(w, reply)
        /\ \/ UNCHANGED hooks
           \/ HasLink(o) /\ \A hook \in hooks' : hook \in hooks \/ hook.order = o
    <2>1. CASE CompletePayment(w)
      <3>1. \/ UNCHANGED hooks
            \/ /\ HasLink(o)
               /\ \E payment \in PaymentNamed(o) :
                     hooks' = hooks \cup {Hook(o, "payment_link.paid", payment),
                                         Hook(o, "payment.captured", CapturedPayment(o))}
        BY <2>1, Zenon DEF CompletePayment
      <3>2. \E reply : Reply(w, reply)
        BY <2>1, Zenon DEF CompletePayment
      <3> QED BY <3>1, <3>2 DEF Hook
    <2>2. CASE FailPayment(w)
      <3>1. \/ UNCHANGED hooks
            \/ /\ HasLink(o)
               /\ hooks' = hooks \cup {Hook(o, "payment.failed", <<o, links[o].failures + 1>>)}
        BY <2>2 DEF FailPayment
      <3>2. \E reply : Reply(w, reply)
        BY <2>2, Zenon DEF FailPayment
      <3> QED BY <3>1, <3>2 DEF Hook
    <2> QED BY <2>1, <2>2
  <1>3. HasLink(o) => IsLinked(o)
    BY DEF HasLink, IsLinked, StoreInvariant, Stored, RowsOf, Tables
  <1>4. \A hook \in hooks' : IsLinked(hook.order)
    BY <1>2, <1>3 DEF ReadsInvariant
  <1> QED BY <1>1, <1>2, <1>4, QuietMoves

\* The catalog and the store summary show no purchase.
LEMMA ShowsReads ==
    ASSUME StoreInvariant, ReadsInvariant, NEW w \in Workers, GetProduct(w) \/ ReadStoreCounts(w)
    PROVE  ReadsInvariant'
  <1>1. /\ job[w].step \notin InTx \cup ShowSteps /\ UNCHANGED hooks
        /\ "idle" \notin InTx \cup {"attempt_link", "create_link", "issue_link"}
    BY DEF GetProduct, ReadStoreCounts, InTx, ShowSteps
  <1>2. \E reply : Reply(w, reply)
    BY Zenon DEF GetProduct, ReadStoreCounts
  <1> QED BY <1>1, <1>2, HooksStay, QuietMoves

-----------------------------------------------------------------------------
(***************************************************************************)
(* The beginnings of a request, its ends, and the merchant's edits.        *)
(***************************************************************************)
\* A request with no transaction open that is not on its way to a link.
LEMMA NoTxReads ==
    ASSUME ReadsInvariant, NEW w \in Workers, OneMoves(w), BooksStay, job'[w].tx = NoTx,
           job'[w].step \notin InTx \cup {"attempt_link", "create_link", "issue_link"},
           PagesFit(w)', HookFits(w)', \A hook \in hooks' : IsLinked(hook.order)
    PROVE  ReadsInvariant'
  <1>1. /\ TxKept(w)' /\ job'[w].tx.locks = {} /\ DOMAIN Writes(w, "orders")' = {}
    BY EmptyTxNext
  <1>2. ~Linking(w)'
    BY DEF Linking, InTx
  <1>3. LinkFits(w)'
    BY <1>2 DEF LinkFits, InTx
  <1>4. \A v \in Workers : LinksAlone(v)'
    BY <1>1, <1>2, AloneStays
  <1>5. LocksApart(w)'
    BY <1>1 DEF LocksApart
  <1> QED BY <1>1, <1>3, <1>4, <1>5, OneReads DEF ReadsFit

\* A client's call starts with what it asks for.
LEMMA CallStoreReads ==
    ASSUME StoreInvariant, ReadsInvariant, NEW c \in Clients, CallStore(c)
    PROVE  ReadsInvariant'
  <1>0. /\ c \in Workers /\ DOMAIN job = Workers /\ at \in [Clients -> Nat]
        /\ at[c] < Len(Script[c]) /\ UNCHANGED <<db, log, hooks>>
    BY DEF CallStore, StoreInvariant, Workers
  <1>1. PICK call \in Script[c][at[c] + 1] : Open(c, call)
    BY DEF CallStore
  <1>2. call.call \in ClientCalls
    <2>1. /\ Len(Script[c]) \in Nat /\ DOMAIN Script[c] = 1 .. Len(Script[c])
          /\ \A i \in DOMAIN Script[c] : \A x \in Script[c][i] : CallFits(x)
      BY StorefrontAssumption
    <2>2. at[c] + 1 \in DOMAIN Script[c]
      BY <1>0, <2>1
    <2> QED BY <1>1, <2>1, <2>2 DEF CallFits
  <1>3. /\ OneMoves(c) /\ job'[c].step = call.call /\ job'[c].call = call /\ job'[c].tx = NoTx
    BY <1>0, <1>1 DEF Open, OneMoves, Idle
  <1>4. job'[c].step \notin InTx \cup {"attempt_link", "create_link", "issue_link"}
    BY <1>2, <1>3 DEF ClientCalls, InTx
  <1>5. HookFits(c)'
    BY <1>2, <1>3 DEF HookFits, Refunding, ClientCalls
  <1>6. PagesFit(c)'
    <2>1. call.call = "get_order_status" => StatusFits(c)'
      BY <1>3 DEF StatusFits
    <2>2. call.call = "audit_page" => AuditFits(c)'
      BY <1>3 DEF AuditFits
    <2>3. call.call = "refusal_page" => RefusalFits(c)'
      BY <1>3 DEF RefusalFits
    <2> QED BY <1>3, <2>1, <2>2, <2>3 DEF PagesFit
  <1> QED BY <1>0, <1>3, <1>4, <1>5, <1>6, HooksStay, UnchangedBooks, NoTxReads

\* A webhook is received for an Order that carries its link.
LEMMA DeliverHookReads ==
    ASSUME StoreInvariant, ReadsInvariant, NEW d \in Deliverers, DeliverHook(d)
    PROVE  ReadsInvariant'
  <1>1. PICK hook \in hooks : Receive(d, hook)
    BY DEF DeliverHook
  <1> DEFINE call == [call |-> "webhook", hook |-> hook, order |-> hook.order]
             event == Event("gateway.webhook_received", hook.order, [kind |-> hook.event])
             received == Entry(drawn + 1, event)
  <1>0. /\ d \in Workers /\ DOMAIN job = Workers /\ hooks' = hooks \ {hook}
        /\ UNCHANGED <<db, log>> /\ IsLinked(hook.order)
    BY <1>1 DEF DeliverHook, Receive, StoreInvariant, Workers, ReadsInvariant
  <1>2. BooksStay
    BY <1>0, UnchangedBooks
  <1>3. /\ OneMoves(d) /\ job'[d].step = "apply" /\ job'[d].call = call
        /\ job'[d].tx.writes = <<>> /\ job'[d].tx.events = received /\ job'[d].tx.locks = {}
    <2> HIDE DEF event
    <2>1. job' = [job EXCEPT ![d] = [Idle EXCEPT !.step = "apply", !.call = call,
                                                 !.tx.events = received]]
      BY <1>1 DEF Receive, event
    <2> HIDE DEF call, received
    <2>2. DOMAIN Idle = JobFields /\ Idle.tx = NoTx /\ DOMAIN NoTx = TxFields
      BY NothingFits
    <2>3. NoTx.locks = {} /\ NoTx.writes = <<>>
      BY DEF NoTx
    <2> QED BY <1>0, <2>1, <2>2, <2>3 DEF OneMoves, JobFields, TxFields
  <1>4. event.type = "gateway.webhook_received" /\ event.order = hook.order
    BY DEF Event
  <1>5. call.call = "webhook" /\ call.hook = hook /\ call.order = hook.order
    OBVIOUS
  <1>6. DOMAIN received = {drawn + 1} /\ received[drawn + 1] = event
    BY OneRow
  <1> HIDE DEF received, event, call
  <1>7. Pending(d)' = {event}
    BY <1>3, <1>6 DEF Pending
  <1>8. \A t : DOMAIN Writes(d, t)' = {}
    BY <1>3, NothingFits DEF Writes
  <1>9. TxKept(d)'
    <2>1. MandatesKept(d)'
      BY <1>4, <1>7, <1>8 DEF MandatesKept, RefusalKept, RefusalTypes
    <2> QED BY <1>8, <2>1, OnlyMandates
  <1>10. ~Linking(d)' /\ LinkFits(d)'
    BY <1>3 DEF Linking, LinkFits
  <1>11. HookFits(d)'
    <2>1. "gateway.webhook_received" \in TypesOf(Pending(d)', hook.order)
      BY <1>4, <1>7 DEF TypesOf
    <2>2. IsLinked(hook.order)'
      BY <1>0 DEF IsLinked, Stored
    <2> QED BY <1>3, <1>5, <2>1, <2>2 DEF HookFits, Refunding
  <1>12. PagesFit(d)'
    BY <1>3, <1>5 DEF PagesFit
  <1>13. \A v \in Workers : LinksAlone(v)'
    BY <1>0, <1>3, <1>8, <1>10, AloneStays
  <1>14. LocksApart(d)'
    BY <1>3 DEF LocksApart
  <1>15. \A h \in hooks' : IsLinked(h.order)
    BY <1>0 DEF ReadsInvariant
  <1> QED BY <1>0, <1>2, <1>3, <1>9, <1>10, <1>11, <1>12, <1>13, <1>14, <1>15, OneReads DEF ReadsFit

\* A transaction that is lost leaves nothing behind but its webhook.
LEMMA RollbackReads ==
    ASSUME StoreInvariant, ReadsInvariant, NEW w \in Workers, Rollback(w)
    PROVE  ReadsInvariant'
  <1>0. /\ job[w].tx # NoTx /\ UNCHANGED <<db, log>> /\ JobFits(w) /\ DOMAIN job = Workers
    BY DEF Rollback, StoreInvariant
  <1>1. job[w].step # "idle"
    BY <1>0 DEF JobFits, JobShape, InTx
  <1>2. /\ OneMoves(w) /\ job'[w].step = "idle" /\ job'[w].call = job[w].call
        /\ job'[w].tx = NoTx /\ job'[w].reply = InternalError
    BY <1>0 DEF Rollback, OneMoves, JobFields, JobFits, JobShape
  <1>3. InternalError.result # "ok"
    BY DEF InternalError
  <1>4. PagesFit(w)'
    BY <1>2, <1>3 DEF PagesFit, StatusFits, AuditFits, RefusalFits
  <1>5. HookFits(w)'
    BY <1>2 DEF HookFits, Refunding
  <1>6. \A hook \in hooks' : IsLinked(hook.order)
    <2>1. job[w].call.call = "webhook" => IsLinked(job[w].call.hook.order)
      BY <1>1 DEF ReadsInvariant, ReadsFit, HookFits
    <2>2. \A hook \in hooks' :
              hook \in hooks \/ (job[w].call.call = "webhook" /\ hook = job[w].call.hook)
      BY DEF Rollback
    <2> QED BY <2>1, <2>2 DEF ReadsInvariant
  <1>7. job'[w].step \notin InTx \cup {"attempt_link", "create_link", "issue_link"}
    BY <1>2 DEF InTx
  <1> QED BY <1>0, <1>2, <1>4, <1>5, <1>6, <1>7, UnchangedBooks, NoTxReads

\* An edited Variant is none of the books.
LEMMA EditVariantReads ==
    ASSUME StoreInvariant, ReadsInvariant, NEW w \in Workers, EditVariant(w)
    PROVE  ReadsInvariant'
  <1> DEFINE c == job[w].call
             row == c.set ++ db.variants[c.variant]
  <1>0. /\ job[w].step = "edit_variant" /\ DOMAIN job = Workers /\ DOMAIN db = Tables
        /\ DOMAIN job[w] = JobFields /\ job[w].tx = NoTx /\ UNCHANGED <<log, hooks>>
    BY DEF EditVariant, StoreInvariant, JobFits, JobShape, InTx
  <1>1. OneMoves(w) /\ job'[w].step = "idle" /\ job'[w].tx = NoTx /\ job'[w].call = job[w].call
    BY <1>0 DEF EditVariant, OneMoves, JobFields
  <1>2. db' = [db EXCEPT !.variants[c.variant] = row]
    BY DEF EditVariant
  <1> HIDE DEF row
  <1>3. BooksStay
    <2>1. DOMAIN db' = DOMAIN db /\ \A t \in DOMAIN db : t # "variants" => db'[t] = db[t]
      BY <1>0, <1>2
    <2>2. db'.payments = db.payments
      BY <1>0, <2>1 DEF Tables
    <2> QED BY <1>0, <2>1, <2>2 DEF BooksStay, RowsOf
  <1>4. PagesFit(w)'
    <2>1. job[w].step \notin ShowSteps
      BY <1>0 DEF ShowSteps
    <2> QED BY <1>1, <2>1, NoPage DEF ReadsInvariant, ReadsFit
  <1>5. HookFits(w)'
    BY <1>1 DEF HookFits, Refunding
  <1>6. job'[w].step \notin InTx \cup {"attempt_link", "create_link", "issue_link"}
    BY <1>1 DEF InTx
  <1> QED BY <1>0, <1>1, <1>3, <1>4, <1>5, <1>6, HooksStay, NoTxReads

-----------------------------------------------------------------------------
(***************************************************************************)
(* The pages, query by query.                                              *)
(***************************************************************************)
\* What a query of a page leaves as it was.
LEMMA QueryLeaves ==
    ASSUME StoreInvariant, NEW w \in Workers, NEW seen, NEW step, Read(w, seen, step)
    PROVE  /\ job'[w].step = step /\ job'[w].seen = seen /\ job'[w].call = job[w].call
           /\ UNCHANGED <<db, log>>
  BY DEF Read, StoreInvariant, JobFits, JobShape, JobFields

\* What an answer leaves as it was.
LEMMA AnswerLeaves ==
    ASSUME StoreInvariant, NEW w \in Workers, NEW reply, Reply(w, reply)
    PROVE  /\ job'[w].step = "idle" /\ job'[w].reply = reply /\ job'[w].call = job[w].call
           /\ UNCHANGED <<db, log>>
  BY DEF Reply, StoreInvariant, JobFits, JobShape, JobFields

\* A query of a page, or its answer, is about what the page has read.
LEMMA PageReads ==
    ASSUME StoreInvariant, ReadsInvariant, NEW w \in Workers, NEW step \in ShowSteps \ {"commit"},
           (\E seen : Read(w, seen, step)) \/ (step = "idle" /\ \E reply : Reply(w, reply)),
           job[w].step \notin InTx \cup {"idle"}, PagesFit(w)', UNCHANGED hooks
    PROVE  ReadsInvariant'
  <1>1. PICK j : Moved(w, j) /\ j.step = step
    BY Moves
  <1>2. BooksStay
    BY Moves
  <1>3. /\ step \notin InTx \cup {"attempt_link", "create_link"} /\ step # "issue_link"
        /\ step \notin {"refund_call", "refund_record"}
    BY DEF ShowSteps, InTx
  <1> QED BY <1>1, <1>2, <1>3, HooksStay, MovedReads

\* An objection to the input is no page.
LEMMA NotOk == \A code : Invalid(code).result # "ok"
  BY DEF Invalid

\* A field of an answer.
LEMMA OkFields ==
    ASSUME NEW fields, "result" \notin DOMAIN fields
    PROVE  Ok(fields).result = "ok" /\ \A f \in DOMAIN fields : Ok(fields)[f] = fields[f]
  BY DEF Ok, ++

\* get_order_status finds the Order's row.
LEMMA ReadOrderReads ==
    ASSUME StoreInvariant, ReadsInvariant, NEW w \in Workers, ReadOrder(w)
    PROVE  ReadsInvariant'
  <1> DEFINE o == job[w].call.order
  <1>1. /\ job[w].step = "get_order_status" /\ UNCHANGED hooks
        /\ job[w].call.call = "get_order_status"
    BY DEF ReadOrder, Registered, StoreInvariant, JobFits, CallKnown, ClientCalls
  <1>2. job[w].step \notin InTx \cup {"idle"}
    BY <1>1 DEF InTx
  <1>3. CASE o \notin DOMAIN db.orders
    <2>1. Reply(w, Invalid("ORDER_NOT_FOUND"))
      BY <1>3 DEF ReadOrder
    <2>2. PagesFit(w)'
      BY <1>1, <2>1, AnswerLeaves, NotOk DEF PagesFit, StatusFits
    <2>3. "idle" \in ShowSteps \ {"commit"}
      BY DEF ShowSteps
    <2> QED BY <1>1, <1>2, <2>1, <2>2, <2>3, PageReads
  <1>4. CASE o \in DOMAIN db.orders
    <2> DEFINE row == db.orders[o]
               seen == [row |-> row]
    <2>1. Read(w, seen, "read_receipt")
      BY <1>4 DEF ReadOrder
    <2>2. db.orders = Stored("orders")
      BY DEF StoreInvariant, Stored, RowsOf, Tables
    <2>3. OrderKept(o, row, Stored("payments"), RowAt(Stored("receipts"), o),
                    RowAt(Stored("refundReceipts"), o), Logged)
      BY <1>4, <2>2, OrderBook
    <2>4. SawOrder(o, row)
      <3> HIDE DEF row
      <3>1. \A t : /\ o \in DOMAIN Stored(t) => RowAt(Stored(t), o) = {Stored(t)[o]}
                  /\ (RowAt(Stored(t), o) # {}) = (o \in DOMAIN Stored(t))
        BY RowAtIs
      <3>2. row.status \in Settled => o \in DOMAIN Stored("receipts") \/ Unbound(Logged, o)
        BY <2>3, <3>1 DEF OrderKept
      <3>4. o \in DOMAIN Stored("receipts") => Stored("receipts")[o].amountPaise = row.amountPaise
        BY <2>3, <3>1 DEF OrderKept
      <3>3. row.status = "refunded" =>
                /\ o \in DOMAIN Stored("receipts") /\ o \in DOMAIN Stored("refundReceipts")
                /\ Stored("refundReceipts")[o].receipt = Stored("receipts")[o]
                /\ Stored("refundReceipts")[o].amountPaise = row.amountPaise
                /\ row.refundReason.refundPaise = row.amountPaise
        BY <2>3, <3>1 DEF OrderKept
      <3> QED BY <3>2, <3>3, <3>4 DEF SawOrder
    <2>5. "row" \in DOMAIN seen /\ seen.row = row
      OBVIOUS
    <2> HIDE DEF seen, row
    <2>6. /\ job'[w].step = "read_receipt" /\ job'[w].seen = seen /\ job'[w].call = job[w].call
          /\ UNCHANGED <<db, log>>
      BY <2>1, QueryLeaves
    <2>7. SawOrder(job[w].call.order, job[w].seen.row)'
      <3>1. (\A t : Stored(t)' = Stored(t)) /\ Logged' = Logged
        BY <2>6 DEF Stored, Logged
      <3> QED BY <2>4, <2>5, <2>6, <3>1 DEF SawOrder
    <2>8. StatusFits(w)'
      BY <2>5, <2>6, <2>7 DEF StatusFits
    <2>9. PagesFit(w)'
      BY <1>1, <2>6, <2>8 DEF PagesFit
    <2>10. "read_receipt" \in ShowSteps \ {"commit"}
      BY DEF ShowSteps
    <2> QED BY <1>1, <1>2, <2>1, <2>9, <2>10, PageReads
  <1> QED BY <1>3, <1>4

\* Then its Receipt, which no later commit takes away.
LEMMA ReadReceiptReads ==
    ASSUME StoreInvariant, ReadsInvariant, NEW w \in Workers, ReadReceipt(w)
    PROVE  ReadsInvariant'
  <1> DEFINE o == job[w].call.order
             row == job[w].seen.row
             receipt == IF row.status \in {"paid", "refunded"} THEN RowAt(db.receipts, o) ELSE {}
             more == [receipt |-> receipt]
             seen == more ++ job[w].seen
  <1>1. /\ job[w].step = "read_receipt" /\ UNCHANGED hooks
        /\ Read(w, seen, "read_refund_receipt")
    BY DEF ReadReceipt
  <1>2. /\ job[w].step \notin InTx \cup {"idle"}
        /\ "read_refund_receipt" \in ShowSteps \ {"commit"}
    BY <1>1 DEF InTx, ShowSteps
  <1>3. /\ job[w].call # NoField => job[w].call.call \notin {"audit_page", "refusal_page"}
        /\ job[w].call # NoField /\ job[w].call.call = "get_order_status" => StatusFits(w)
    BY <1>1 DEF ReadsInvariant, ReadsFit, PagesFit, AuditFits, RefusalFits
  <1>4. DOMAIN more = {"receipt"} /\ more.receipt = receipt
    OBVIOUS
  <1> HIDE DEF more
  <1>5. /\ seen.receipt = receipt
        /\ "row" \in DOMAIN job[w].seen => "row" \in DOMAIN seen /\ seen.row = row
    BY <1>4 DEF ++
  <1> HIDE DEF seen
  <1>6. /\ job'[w].step = "read_refund_receipt" /\ job'[w].seen = seen
        /\ job'[w].call = job[w].call /\ UNCHANGED <<db, log>>
    BY <1>1, QueryLeaves
  <1>7. ASSUME StatusFits(w) PROVE StatusFits(w)'
    <2>1. "row" \in DOMAIN job[w].seen /\ SawOrder(o, row)
      BY <1>1, <1>7 DEF StatusFits
    <2>2. db.receipts = Stored("receipts") /\ \A t : Stored(t)' = Stored(t)
      BY <1>6 DEF StoreInvariant, Stored, RowsOf, Tables
    <2>3. receipt = IF row.status \in Settled THEN RowAt(Stored("receipts"), o) ELSE {}
      BY <2>2 DEF Settled
    <2> HIDE DEF receipt
    <2>4. SawOrder(job[w].call.order, job[w].seen.row)'
      <3>1. Logged' = Logged
        BY <1>6 DEF Logged
      <3> QED BY <1>5, <1>6, <2>1, <2>2, <3>1 DEF SawOrder
    <2>5. SawReceipt(o, row, receipt)
      <3>1. \A r \in receipt : Restates(r, o, Stored("payments"))
        <4> SUFFICES ASSUME NEW r \in receipt PROVE Restates(r, o, Stored("payments"))
          OBVIOUS
        <4>1. r \in RowAt(Stored("receipts"), o) /\ o \in DOMAIN Stored("receipts")
          BY <2>3, RowAtIs
        <4>2. o \in DOMAIN Stored("orders")
          BY <4>1 DEF ReadsInvariant, BooksKept, Stored
        <4> QED BY <4>1, <4>2, OrderBook DEF OrderKept
      <3>2. RowAt(Stored("receipts"), o) # {} <=> o \in DOMAIN Stored("receipts")
        BY RowAtIs
      <3>3. row.status = "refunded" => row.status \in Settled
        BY DEF Settled
      <3> QED BY <2>1, <2>3, <3>1, <3>2, <3>3 DEF SawReceipt, SawOrder
    <2>6. SawReceipt(job[w].call.order, job[w].seen.row, job[w].seen.receipt)'
      <3>1. Logged' = Logged
        BY <1>6 DEF Logged
      <3> QED BY <1>5, <1>6, <2>1, <2>2, <2>5, <3>1 DEF SawReceipt
    <2> QED BY <1>5, <1>6, <2>1, <2>4, <2>6 DEF StatusFits
  <1>8. PagesFit(w)'
    BY <1>3, <1>6, <1>7 DEF PagesFit
  <1> QED BY <1>1, <1>2, <1>8, PageReads

\* Then its refund receipt, and the answer is whole.
LEMMA ReadRefundReceiptReads ==
    ASSUME StoreInvariant, ReadsInvariant, NEW w \in Workers, ReadRefundReceipt(w)
    PROVE  ReadsInvariant'
  <1> DEFINE o == job[w].call.order
             row == job[w].seen.row
             refund == IF row.status = "refunded" THEN RowAt(db.refundReceipts, o) ELSE {}
             fields == [order |-> o, receipt |-> job[w].seen.receipt, refundReceipt |-> refund]
                       ++ StatusView(row)
             reply == Ok(fields)
  <1>1. /\ job[w].step = "read_refund_receipt" /\ UNCHANGED hooks /\ Reply(w, reply)
    BY DEF ReadRefundReceipt
  <1>2. job[w].step \notin InTx \cup {"idle"} /\ "idle" \in ShowSteps \ {"commit"}
    BY <1>1 DEF InTx, ShowSteps
  <1>3. /\ job[w].call # NoField => job[w].call.call \notin {"audit_page", "refusal_page"}
        /\ job[w].call # NoField /\ job[w].call.call = "get_order_status" => StatusFits(w)
    BY <1>1 DEF ReadsInvariant, ReadsFit, PagesFit, AuditFits, RefusalFits
  <1> HIDE DEF refund
  <1>4. /\ DOMAIN fields = {"order", "receipt", "refundReceipt", "status", "decline", "oversell"}
        /\ fields.order = o /\ fields.receipt = job[w].seen.receipt
        /\ fields.refundReceipt = refund /\ fields.status = row.status
        /\ fields.oversell = row.refundReason
    BY DEF StatusView, ++
  <1> HIDE DEF fields
  <1>5. /\ reply.order = o /\ reply.receipt = job[w].seen.receipt
        /\ reply.refundReceipt = refund /\ reply.status = row.status
        /\ reply.oversell = row.refundReason
    BY <1>4, OkFields
  <1> HIDE DEF reply
  <1>6. /\ job'[w].step = "idle" /\ job'[w].reply = reply /\ job'[w].call = job[w].call
        /\ UNCHANGED <<db, log>>
    BY <1>1, AnswerLeaves
  <1>7. ASSUME StatusFits(w) PROVE StatusIsWhole(reply)
    <2>1. SawOrder(o, row) /\ SawReceipt(o, row, job[w].seen.receipt)
      BY <1>1, <1>7 DEF StatusFits
    <2>2. \A t \in Tables : db[t] = Stored(t)
      BY DEF StoreInvariant, Stored, RowsOf
    <2>3. db.payments = Stored("payments") /\ db.refundReceipts = Stored("refundReceipts")
      BY <2>2 DEF Tables
    <2>4. refund = IF row.status = "refunded" THEN {Stored("refundReceipts")[o]} ELSE {}
      <3>1. o \in DOMAIN Stored("refundReceipts") =>
                RowAt(Stored("refundReceipts"), o) = {Stored("refundReceipts")[o]}
        BY RowAtIs
      <3> QED BY <2>1, <2>3, <3>1 DEF SawOrder, refund
    <2>6. /\ reply.receipt # {} => reply.status \in Settled
          /\ reply.receipt = {} /\ reply.status \in Settled => Unbound(Logged, reply.order)
          /\ reply.status = "refunded" => reply.receipt # {}
      BY <1>5, <2>1 DEF SawReceipt
    <2>5. \A receipt \in reply.receipt : receipt = Stored("receipts")[o]
      BY <1>5, <2>1 DEF SawReceipt, RowAt
    <2>7. (reply.refundReceipt # {}) = (reply.status = "refunded")
      BY <1>5, <2>4
    <2>8. \A receipt \in reply.receipt : Restates(receipt, reply.order, db.payments)
      BY <1>5, <2>1, <2>3 DEF SawReceipt
    <2>9. \A receipt \in reply.receipt, refunded \in reply.refundReceipt :
              /\ refunded.receipt = receipt
              /\ refunded.amountPaise = receipt.amountPaise
              /\ reply.oversell.refundPaise = receipt.amountPaise
      BY <1>5, <2>1, <2>4, <2>5 DEF SawOrder
    <2> QED BY <2>6, <2>7, <2>8, <2>9 DEF StatusIsWhole, Logged
  <1>8. StatusFits(w) => StatusFits(w)'
    <2>1. StatusIsWhole(reply) => StatusIsWhole(job[w].reply)'
      BY <1>6 DEF StatusIsWhole
    <2> QED BY <1>6, <1>7, <2>1 DEF StatusFits
  <1>9. PagesFit(w)'
    BY <1>3, <1>6, <1>8 DEF PagesFit
  <1> QED BY <1>1, <1>2, <1>9, PageReads

\* The audit page finds the Order's row.
LEMMA ReadAuditedOrderReads ==
    ASSUME StoreInvariant, ReadsInvariant, NEW w \in Workers, ReadAuditedOrder(w)
    PROVE  ReadsInvariant'
  <1> DEFINE o == job[w].call.order
             seen == [row |-> RowAt(db.orders, o)]
  <1>1. /\ job[w].step = "audit_page" /\ UNCHANGED hooks /\ job[w].call.call = "audit_page"
        /\ Read(w, seen, "audit_mandates")
    BY DEF ReadAuditedOrder, StoreInvariant, JobFits, CallKnown, ClientCalls
  <1>2. job[w].step \notin InTx \cup {"idle"} /\ "audit_mandates" \in ShowSteps \ {"commit"}
    BY <1>1 DEF InTx, ShowSteps
  <1>3. db.orders = Stored("orders")
    BY DEF StoreInvariant, Stored, RowsOf, Tables
  <1>4. "row" \in DOMAIN seen /\ seen.row = RowAt(Stored("orders"), o)
    BY <1>3
  <1> HIDE DEF seen
  <1>5. ASSUME NEW row \in seen.row PROVE SawPurchase(o, row)
    <2>1. o \in DOMAIN Stored("orders") /\ row = Stored("orders")[o]
      BY <1>4, <1>5 DEF RowAt
    <2>2. OrderKept(o, row, Stored("payments"), RowAt(Stored("receipts"), o),
                    RowAt(Stored("refundReceipts"), o), Logged)
      BY <2>1, OrderBook
    <2>3. row.status \in OrderStatuses
      BY <2>1 DEF StoreInvariant, RowsFit, OrdersFit, OrderFits, Stored
    <2>4. Unbound(Logged, o) => "order.anomaly_detected" \in TypesOf(Logged, o)
      BY DEF Unbound, TypesOf
    <2> QED BY <2>2, <2>3, <2>4 DEF OrderKept, SawPurchase
  <1>6. /\ job'[w].step = "audit_mandates" /\ job'[w].seen = seen /\ job'[w].call = job[w].call
        /\ UNCHANGED <<db, log>>
    BY <1>1, QueryLeaves
  <1>7. \A row : SawPurchase(o, row) => SawPurchase(job[w].call.order, row)'
    BY <1>6 DEF SawPurchase, Stored, Logged
  <1>8. AuditFits(w)'
    BY <1>4, <1>5, <1>6, <1>7 DEF AuditFits
  <1>9. PagesFit(w)'
    BY <1>1, <1>6, <1>8 DEF PagesFit
  <1> QED BY <1>1, <1>2, <1>9, PageReads

\* Then the mandates the Order was bought under.
LEMMA ReadMandatesReads ==
    ASSUME StoreInvariant, ReadsInvariant, NEW w \in Workers, ReadMandates(w)
    PROVE  ReadsInvariant'
  <1> DEFINE o == job[w].call.order
             keys == {k \in DOMAIN db.payments : db.payments[k].order = o}
             carts == {db.payments[k].cart : k \in keys}
             intents == {db.carts[db.payments[k].cart].intent : k \in keys}
             more == [carts |-> carts, intents |-> intents]
             seen == more ++ job[w].seen
  <1>1. /\ job[w].step = "audit_mandates" /\ UNCHANGED hooks /\ Read(w, seen, "audit_events")
    BY DEF ReadMandates
  <1>2. job[w].step \notin InTx \cup {"idle"} /\ "audit_events" \in ShowSteps \ {"commit"}
    BY <1>1 DEF InTx, ShowSteps
  <1>3. /\ job[w].call # NoField => job[w].call.call \notin {"get_order_status", "refusal_page"}
        /\ job[w].call # NoField /\ job[w].call.call = "audit_page" => AuditFits(w)
    BY <1>1 DEF ReadsInvariant, ReadsFit, PagesFit, StatusFits, RefusalFits
  <1>4. /\ db.payments = Stored("payments") /\ db.carts = Stored("carts")
        /\ RowsOf(db, "payments") = Stored("payments") /\ RowsOf(db, "carts") = Stored("carts")
    BY DEF StoreInvariant, Stored, RowsOf, Tables
  <1>5. (\E row : SawPurchase(o, row)) =>
            /\ \E k \in carts : ShowsCart(Logged, k)
            /\ \E i \in intents : ShowsIntent(Logged, i)
    <2> SUFFICES ASSUME NEW row, SawPurchase(o, row)
                 PROVE  /\ \E k \in carts : ShowsCart(Logged, k)
                        /\ \E i \in intents : ShowsIntent(Logged, i)
      OBVIOUS
    <2>1. PICK k \in keys : TRUE
      BY <1>4 DEF SawPurchase
    <2> DEFINE cart == db.payments[k].cart
    <2>2. cart \in DOMAIN db.carts
      BY <1>4, <2>1 DEF ReadsInvariant, BooksKept
    <2>3. CartKept(cart, db.carts[cart], Logged)
      BY <1>4, <2>2 DEF ReadsInvariant, BooksKept
    <2>4. cart \in carts /\ db.carts[cart].intent \in intents
      BY <2>1
    <2> HIDE DEF carts, intents, cart
    <2> QED BY <2>3, <2>4 DEF CartKept
  <1>6. DOMAIN more = {"carts", "intents"} /\ more.carts = carts /\ more.intents = intents
    OBVIOUS
  <1> HIDE DEF more, carts, intents
  <1>7. /\ seen.carts = carts /\ seen.intents = intents
        /\ "row" \in DOMAIN job[w].seen => "row" \in DOMAIN seen /\ seen.row = job[w].seen.row
    BY <1>6 DEF ++
  <1> HIDE DEF seen
  <1>8. /\ job'[w].step = "audit_events" /\ job'[w].seen = seen /\ job'[w].call = job[w].call
        /\ UNCHANGED <<db, log>>
    BY <1>1, QueryLeaves
  <1>9. ASSUME AuditFits(w) PROVE AuditFits(w)'
    <2>1. /\ "row" \in DOMAIN job[w].seen
          /\ \A row \in job[w].seen.row : SawPurchase(o, row)
      BY <1>1, <1>9 DEF AuditFits
    <2>2. \A row : SawPurchase(o, row) => SawPurchase(job[w].call.order, row)'
      BY <1>8 DEF SawPurchase, Stored, Logged
    <2>3. Logged' = Logged
      BY <1>8 DEF Logged
    <2> QED BY <1>5, <1>7, <1>8, <2>1, <2>2, <2>3 DEF AuditFits
  <1>10. PagesFit(w)'
    BY <1>3, <1>8, <1>9 DEF PagesFit
  <1> QED BY <1>1, <1>2, <1>10, PageReads

\* An event that shows a mandate is among those of its mandate.
LEMMA MandateFound ==
    ASSUME NEW carts, NEW intents
    PROVE  /\ \A k \in carts : ShowsCart(Logged, k) =>
                  \E n \in MandateEvents(carts, intents) : log[n].type = "mandate.cart_created"
           /\ \A i \in intents : ShowsIntent(Logged, i) =>
                  \E n \in MandateEvents(carts, intents) : log[n].type = "mandate.intent_declared"
  <1>1. ASSUME NEW k \in carts, ShowsCart(Logged, k)
        PROVE  \E n \in MandateEvents(carts, intents) : log[n].type = "mandate.cart_created"
    <2>1. PICK n \in DOMAIN log : /\ log[n].type = "mandate.cart_created" /\ log[n].order = NoField
                                  /\ Field(log[n], "cartHash") = k
      BY <1>1 DEF ShowsCart, Logged
    <2> QED BY <2>1 DEF MandateEvents
  <1>2. ASSUME NEW i \in intents, ShowsIntent(Logged, i)
        PROVE  \E n \in MandateEvents(carts, intents) : log[n].type = "mandate.intent_declared"
    <2>1. PICK n \in DOMAIN log : /\ log[n].type = "mandate.intent_declared"
                                  /\ log[n].order = NoField /\ Field(log[n], "intentHash") = i
      BY <1>2 DEF ShowsIntent, Logged
    <2> QED BY <2>1 DEF MandateEvents
  <1> QED BY <1>1, <1>2

\* Then the events of both, and the answer is whole.
LEMMA ReadAuditEventsReads ==
    ASSUME StoreInvariant, ReadsInvariant, NEW w \in Workers, ReadAuditEvents(w)
    PROVE  ReadsInvariant'
  <1> DEFINE o == job[w].call.order
             found == job[w].seen.row
             mandates == MandateEvents(job[w].seen.carts, job[w].seen.intents)
             events == {n \in DOMAIN log : log[n].order = o} \cup mandates
             missing == MissingSteps(events)
             anomalies == Cardinality({n \in events : log[n].type = "order.anomaly_detected"})
             page == [order |-> o, chain |-> [n \in events |-> log[n].type],
                      missingSteps |-> missing, anomalies |-> anomalies]
             row == CHOOSE x \in found : TRUE
             view == IF found = {} THEN [status |-> NoField] ELSE StatusView(row)
             fields == page ++ view
             reply == IF found = {} /\ events = {} THEN Invalid("order_not_found") ELSE Ok(fields)
             chain == [n \in events |-> log[n].type]
             shown == {chain[n] : n \in DOMAIN chain}
  <1>1. job[w].step = "audit_events" /\ UNCHANGED hooks /\ Reply(w, reply)
    BY DEF ReadAuditEvents
  <1>2. job[w].step \notin InTx \cup {"idle"} /\ "idle" \in ShowSteps \ {"commit"}
    BY <1>1 DEF InTx, ShowSteps
  <1>3. /\ job[w].call # NoField => job[w].call.call \notin {"get_order_status", "refusal_page"}
        /\ job[w].call # NoField /\ job[w].call.call = "audit_page" => AuditFits(w)
    BY <1>1 DEF ReadsInvariant, ReadsFit, PagesFit, StatusFits, RefusalFits
  <1>0. shown \subseteq TypesOf(Logged, o) \cup {"mandate.intent_declared", "mandate.cart_created"}
    <2>1. \A n \in events : /\ n \in DOMAIN log
                             /\ \/ log[n].order = o
                                \/ log[n].type \in {"mandate.intent_declared",
                                                    "mandate.cart_created"}
      BY DEF MandateEvents
    <2>2. DOMAIN chain = events /\ \A n \in events : chain[n] = log[n].type
      OBVIOUS
    <2> HIDE DEF events, chain
    <2> QED BY <2>1, <2>2 DEF TypesOf, Logged
  <1>4. ASSUME AuditFits(w), NEW x \in found
        PROVE  /\ {"mandate.intent_declared", "mandate.cart_created"} \cup Recorded[x.status]
                     \subseteq shown
               /\ x.status \in Settled =>
                     /\ missing \subseteq {"receipt.issued"}
                     /\ missing = {} \/ "order.anomaly_detected" \in shown
    <2>1. /\ SawPurchase(o, x)
          /\ \E k \in job[w].seen.carts : ShowsCart(Logged, k)
          /\ \E i \in job[w].seen.intents : ShowsIntent(Logged, i)
      BY <1>1, <1>4 DEF AuditFits
    <2>2. /\ \E n \in mandates : log[n].type = "mandate.cart_created"
          /\ \E n \in mandates : log[n].type = "mandate.intent_declared"
      BY <2>1, MandateFound
    <2>3. \A n \in DOMAIN log : log[n].order = o => n \in events
      OBVIOUS
    <2>4. mandates \subseteq events /\ events \subseteq DOMAIN log
      BY DEF MandateEvents
    <2>5. DOMAIN chain = events /\ \A n \in events : chain[n] = log[n].type
      OBVIOUS
    <2>6. missing = HappyPath \ {log[n].type : n \in events}
      BY DEF MissingSteps
    <2> HIDE DEF mandates, events, chain, missing
    <2>7. TypesOf(Logged, o) \subseteq shown
      BY <2>3, <2>5 DEF TypesOf, Logged
    <2>8. {"mandate.intent_declared", "mandate.cart_created"} \subseteq shown
      BY <2>2, <2>4, <2>5
    <2>9. missing = HappyPath \ shown
      BY <2>5, <2>6
    <2> HIDE DEF shown
    <2>10. Recorded[x.status] \subseteq shown
      BY <2>1, <2>7 DEF SawPurchase
    <2>11. ASSUME x.status \in Settled
           PROVE  /\ missing \subseteq {"receipt.issued"}
                  /\ missing = {} \/ "order.anomaly_detected" \in shown
      <3>1. WithPayment \subseteq shown
        BY <2>10, <2>11 DEF Recorded, Settled
      <3>2. {"receipt.issued", "order.anomaly_detected"} \cap shown # {}
        BY <2>1, <2>7, <2>11 DEF SawPurchase
      <3>3. HappyPath = WithPayment \cup {"mandate.intent_declared", "mandate.cart_created",
                                         "receipt.issued"}
        BY DEF HappyPath, WithPayment, WithLink, WithOrder
      <3> QED BY <2>8, <2>9, <3>1, <3>2, <3>3
    <2> QED BY <2>8, <2>10, <2>11
  <1>5. /\ DOMAIN page = {"order", "chain", "missingSteps", "anomalies"}
        /\ page.missingSteps = missing /\ page.chain = chain
    OBVIOUS
  <1> HIDE DEF missing, anomalies, events, chain
  <1> HIDE DEF page
  <1>6. /\ DOMAIN view \in {{"status"}, {"status", "decline", "oversell"}}
        /\ view.status = IF found = {} THEN NoField ELSE row.status
    BY DEF StatusView
  <1> HIDE DEF view
  <1>7. /\ "result" \notin DOMAIN fields /\ {"chain", "missingSteps", "status"} \subseteq DOMAIN fields
        /\ fields.missingSteps = missing /\ fields.chain = chain
        /\ fields.status = IF found = {} THEN NoField ELSE row.status
    BY <1>5, <1>6 DEF ++
  <1> HIDE DEF fields
  <1>8. reply.result = "ok" =>
            /\ reply.missingSteps = missing /\ reply.chain = chain
            /\ reply.status = IF found = {} THEN NoField ELSE row.status
    BY <1>7, OkFields, NotOk
  <1> HIDE DEF reply
  <1>9. /\ job'[w].step = "idle" /\ job'[w].reply = reply /\ job'[w].call = job[w].call
        /\ Logged' = Logged
    <2>1. /\ job'[w].step = "idle" /\ job'[w].reply = reply /\ job'[w].call = job[w].call
          /\ UNCHANGED <<db, log>>
      BY <1>1, AnswerLeaves
    <2> QED BY <2>1 DEF Logged
  <1>10. ASSUME AuditFits(w), reply.result = "ok", reply.status # NoField
         PROVE  CoversStatus(reply) /\ ShowsRecord(reply, o)
    <2>1. found # {} /\ reply.status = row.status
      BY <1>8, <1>10
    <2>2. row \in found
      BY <2>1
    <2> HIDE DEF row
    <2>3. /\ {"mandate.intent_declared", "mandate.cart_created"} \cup Recorded[row.status]
                \subseteq shown
          /\ row.status \in Settled =>
                /\ missing \subseteq {"receipt.issued"}
                /\ missing = {} \/ "order.anomaly_detected" \in shown
      BY <1>4, <1>10, <2>2
    <2>4. TypesOn(reply) = shown /\ reply.missingSteps = missing
      BY <1>8, <1>10 DEF TypesOn
    <2>5. ShowsRecord(reply, o)
      BY <1>0, <2>4 DEF ShowsRecord
    <2> QED BY <2>1, <2>3, <2>4, <2>5 DEF CoversStatus
  <1>11. AuditFits(w) => AuditFits(w)'
    <2>1. CoversStatus(reply) => CoversStatus(job[w].reply)'
      BY <1>9 DEF CoversStatus, TypesOn
    <2>2. ShowsRecord(reply, o) => ShowsRecord(job[w].reply, job[w].call.order)'
      BY <1>9 DEF ShowsRecord, TypesOn
    <2> QED BY <1>9, <1>10, <2>1, <2>2 DEF AuditFits
  <1>12. PagesFit(w)'
    BY <1>3, <1>9, <1>11 DEF PagesFit
  <1> QED BY <1>1, <1>2, <1>12, PageReads

\* A Refusal's page finds its event.
LEMMA ReadRefusalReads ==
    ASSUME StoreInvariant, ReadsInvariant, NEW w \in Workers, ReadRefusal(w)
    PROVE  ReadsInvariant'
  <1> DEFINE n == job[w].call.seq
  <1>1. /\ job[w].step = "refusal_page" /\ UNCHANGED hooks
        /\ job[w].call.call = "refusal_page"
    BY DEF ReadRefusal, StoreInvariant, JobFits, CallKnown, ClientCalls
  <1>2. job[w].step \notin InTx \cup {"idle"}
    BY <1>1 DEF InTx
  <1>3. CASE ~(n \in DOMAIN log /\ log[n].type \in RefusalTypes)
    <2>1. Reply(w, Invalid("refusal_not_found"))
      BY <1>3 DEF ReadRefusal
    <2>2. PagesFit(w)'
      BY <1>1, <2>1, AnswerLeaves, NotOk DEF PagesFit, RefusalFits
    <2>3. "idle" \in ShowSteps \ {"commit"}
      BY DEF ShowSteps
    <2> QED BY <1>1, <1>2, <2>1, <2>2, <2>3, PageReads
  <1>4. CASE n \in DOMAIN log /\ log[n].type \in RefusalTypes
    <2>1. Read(w, log[n], "refusal_context") /\ log[n] \in Logged
      BY <1>4 DEF ReadRefusal, Logged
    <2>2. /\ job'[w].step = "refusal_context" /\ job'[w].seen = log[n]
          /\ job'[w].call = job[w].call /\ Logged' = Logged
      BY <2>1, QueryLeaves DEF Logged
    <2>3. RefusalFits(w)'
      BY <1>4, <2>1, <2>2 DEF RefusalFits
    <2>4. PagesFit(w)'
      BY <1>1, <2>2, <2>3 DEF PagesFit
    <2>5. "refusal_context" \in ShowSteps \ {"commit"}
      BY DEF ShowSteps
    <2> QED BY <1>1, <1>2, <2>1, <2>4, <2>5, PageReads
  <1> QED BY <1>3, <1>4

\* Then what it was refused for, and the page is whole.
LEMMA ReadRefusalContextReads ==
    ASSUME StoreInvariant, ReadsInvariant, NEW w \in Workers, ReadRefusalContext(w)
    PROVE  ReadsInvariant'
  <1> DEFINE e == job[w].seen
             about(f) == {Field(e, f)} \ {NoField}
             siblings == {n \in DOMAIN log : /\ log[n].type \in RefusalTypes
                                             /\ Field(log[n], "intentHash") \in about("intentHash")}
             mandates == MandateEvents(about("cartHash"), about("intentHash"))
             events == {job[w].call.seq} \cup siblings \cup mandates
             chain == [n \in events |-> log[n].type]
             fields == [refused |-> e.payload.code, chain |-> chain]
             reply == Ok(fields)
  <1>1. job[w].step = "refusal_context" /\ UNCHANGED hooks /\ Reply(w, reply)
    BY DEF ReadRefusalContext
  <1>2. job[w].step \notin InTx \cup {"idle"} /\ "idle" \in ShowSteps \ {"commit"}
    BY <1>1 DEF InTx, ShowSteps
  <1>3. /\ job[w].call # NoField => job[w].call.call \notin {"get_order_status", "audit_page"}
        /\ job[w].call # NoField /\ job[w].call.call = "refusal_page" => RefusalFits(w)
    BY <1>1 DEF ReadsInvariant, ReadsFit, PagesFit, StatusFits, AuditFits
  <1>4. mandates \subseteq DOMAIN chain /\ \A n \in mandates : chain[n] = log[n].type
    OBVIOUS
  <1> HIDE DEF chain
  <1>5. DOMAIN fields = {"refused", "chain"} /\ fields.refused = e.payload.code /\ fields.chain = chain
    OBVIOUS
  <1> HIDE DEF fields
  <1>6. reply.refused = e.payload.code /\ reply.chain = chain
    BY <1>5, OkFields
  <1> HIDE DEF reply
  <1>7. /\ job'[w].step = "idle" /\ job'[w].reply = reply /\ job'[w].call = job[w].call
    BY <1>1, AnswerLeaves
  <1>8. ASSUME RefusalFits(w) PROVE RefusalPageIsWhole(reply)
    <2> SUFFICES ASSUME e.payload.code \in ChainCodes
                 PROVE  {"mandate.cart_created", "mandate.intent_declared"}
                            \subseteq {chain[n] : n \in DOMAIN chain}
      BY <1>6 DEF RefusalPageIsWhole
    <2>1. RefusalKept(e, Logged) /\ e.type \in RefusalTypes
      BY <1>1, <1>8 DEF RefusalFits, ReadsInvariant, BooksKept
    <2>2. /\ Field(e, "cartHash") # NoField /\ ShowsCart(Logged, Field(e, "cartHash"))
          /\ Field(e, "intentHash") # NoField /\ ShowsIntent(Logged, Field(e, "intentHash"))
      BY <2>1 DEF RefusalKept, Field
    <2>3. /\ Field(e, "cartHash") \in about("cartHash")
          /\ Field(e, "intentHash") \in about("intentHash")
      BY <2>2
    <2> HIDE DEF about
    <2>4. /\ \E n \in mandates : log[n].type = "mandate.cart_created"
          /\ \E n \in mandates : log[n].type = "mandate.intent_declared"
      BY <2>2, <2>3, MandateFound
    <2> HIDE DEF mandates
    <2> QED BY <1>4, <2>4
  <1>9. RefusalFits(w) => RefusalFits(w)'
    <2>1. RefusalPageIsWhole(reply) => RefusalPageIsWhole(job[w].reply)'
      BY <1>7 DEF RefusalPageIsWhole
    <2> QED BY <1>7, <1>8, <2>1 DEF RefusalFits
  <1>10. PagesFit(w)'
    BY <1>3, <1>7, <1>9 DEF PagesFit
  <1> QED BY <1>1, <1>2, <1>10, PageReads

-----------------------------------------------------------------------------
(***************************************************************************)
(* Commits.                                                                *)
(***************************************************************************)
\* The row of a key is what it was.
SameRow(t, x) ==
    /\ (x \in DOMAIN Stored(t)') = (x \in DOMAIN Stored(t))
    /\ x \in DOMAIN Stored(t) => Stored(t)'[x] = Stored(t)[x]
    /\ RowAt(Stored(t)', x) = RowAt(Stored(t), x)

\* What w's commit does to the books: nothing is taken away, and of the Orders only
\* those w has locked change.
BooksGrow(w) ==
    /\ \A t \in {"payments", "receipts", "refundReceipts"} : Extends(Stored(t), Stored(t)')
    /\ \A t : DOMAIN Stored(t) \subseteq DOMAIN Stored(t)'
    /\ \A t \in {"orders", "receipts", "refundReceipts"} : \A o :
          o \notin DOMAIN Writes(w, "orders") => SameRow(t, o)
    /\ \A k : k \notin DOMAIN Writes(w, "payments") =>
          (k \in DOMAIN Stored("payments")') = (k \in DOMAIN Stored("payments"))
    /\ Logged \subseteq Logged'
    /\ \A o : IsLinked(o) => IsLinked(o)'
    /\ \A o : Addressed(o) => Addressed(o)'

\* What a commit makes of the rows, the log and the request.
LEMMA Committed ==
    ASSUME StoreInvariant, NEW w \in Workers, Commit(w)
    PROVE  /\ OneMoves(w) /\ job[w].step = "commit" /\ UNCHANGED hooks
           /\ job'[w].step = job[w].after /\ job'[w].after = job[w].after
           /\ job'[w].call = job[w].call /\ job'[w].reply = job[w].reply
           /\ job'[w].seen = job[w].seen /\ job'[w].tx = NoTx
           /\ \A t : Stored(t)' = View(w, t)
           /\ \A t : RowsOf(db', t) = View(w, t)
           /\ Logged' = Events(w)
  <1>1. JobFits(w) /\ DOMAIN job = Workers /\ Numbers
    BY DEF StoreInvariant
  <1>2. /\ OneMoves(w) /\ job[w].step = "commit" /\ UNCHANGED hooks
        /\ job'[w].step = job[w].after /\ job'[w].after = job[w].after
        /\ job'[w].call = job[w].call /\ job'[w].reply = job[w].reply
        /\ job'[w].seen = job[w].seen /\ job'[w].tx = NoTx
    BY <1>1 DEF Commit, OneMoves, JobFits, JobShape, JobFields
  <1>3. db' = Over(job[w].tx.writes, db) /\ log' = job[w].tx.events ++ log
    BY DEF Commit
  <1>4. \A t : RowsOf(db', t) = View(w, t)
    BY <1>3, OverRows DEF View, Writes, Stored
  <1>5. \A t : Stored(t)' = View(w, t)
    BY <1>4 DEF Stored
  <1>6. Logged' = Events(w)
    <2> DEFINE events == job[w].tx.events
               all == events ++ log
    <2>1. DOMAIN events \cap DOMAIN log = {}
      BY <1>1 DEF Numbers
    <2> HIDE DEF events
    <2>2. /\ DOMAIN all = DOMAIN events \cup DOMAIN log
          /\ \A n \in DOMAIN events : all[n] = events[n]
          /\ \A n \in DOMAIN log : all[n] = log[n]
      BY <2>1 DEF ++
    <2>3. log' = all
      BY <1>3 DEF events
    <2> HIDE DEF all
    <2>4. {all[n] : n \in DOMAIN all}
              = {log[n] : n \in DOMAIN log} \cup {events[n] : n \in DOMAIN events}
      BY <2>2
    <2> QED BY <2>3, <2>4 DEF Logged, Events, Pending, events
  <1> QED BY <1>2, <1>4, <1>5, <1>6

\* Rows over rows, key by key.
LEMMA OverAt ==
    ASSUME NEW f, NEW g
    PROVE  /\ DOMAIN (f ++ g) = DOMAIN f \cup DOMAIN g
           /\ \A x \in DOMAIN f : (f ++ g)[x] = f[x]
           /\ \A x \in DOMAIN g \ DOMAIN f : (f ++ g)[x] = g[x]
  BY DEF ++

\* A transaction's writes say nothing of the rows they do not name.
LEMMA UnnamedSame ==
    ASSUME NEW w, NEW t, NEW x, Stored(t)' = View(w, t), x \notin DOMAIN Writes(w, t)
    PROVE  SameRow(t, x)
  <1>0. /\ DOMAIN View(w, t) = DOMAIN Writes(w, t) \cup DOMAIN Stored(t)
        /\ \A k \in DOMAIN Stored(t) \ DOMAIN Writes(w, t) : View(w, t)[k] = Stored(t)[k]
    <2> DEFINE f == Writes(w, t)
               g == Stored(t)
    <2>1. View(w, t) = f ++ g
      BY DEF View
    <2> HIDE DEF f, g
    <2>2. /\ DOMAIN (f ++ g) = DOMAIN f \cup DOMAIN g
          /\ \A k \in DOMAIN g \ DOMAIN f : (f ++ g)[k] = g[k]
      BY OverAt
    <2>3. /\ DOMAIN View(w, t) = DOMAIN f \cup DOMAIN g
          /\ \A k \in DOMAIN g \ DOMAIN f : View(w, t)[k] = g[k]
      BY <2>1, <2>2
    <2> QED BY <2>3 DEF f, g
  <1>1. (x \in DOMAIN Stored(t)') = (x \in DOMAIN Stored(t))
    BY <1>0
  <1>2. x \in DOMAIN Stored(t) => Stored(t)'[x] = Stored(t)[x]
    BY <1>0
  <1>3. RowAt(Stored(t)', x) = RowAt(Stored(t), x)
    BY <1>1, <1>2 DEF RowAt
  <1> QED BY <1>1, <1>2, <1>3 DEF SameRow

\* So a commit only adds.
LEMMA CommitGrows ==
    ASSUME StoreInvariant, ReadsInvariant, NEW w \in Workers, Commit(w)
    PROVE  BooksGrow(w)
  <1>1. (\A t : Stored(t)' = View(w, t)) /\ Logged' = Events(w)
    BY Committed
  <1>2. TxKept(w)
    BY DEF ReadsInvariant, ReadsFit
  <1>3. ASSUME NEW t \in {"payments", "receipts", "refundReceipts"}
        PROVE  Extends(Stored(t), Stored(t)')
    <2>1. DOMAIN Writes(w, t) \cap DOMAIN Stored(t) = {}
      BY <1>2 DEF TxKept, WritesNew
    <2>2. Extends(Stored(t), Writes(w, t) ++ Stored(t))
      BY <2>1, OverExtends
    <2> QED BY <1>1, <2>2 DEF View
  <1>4. \A t : DOMAIN Stored(t) \subseteq DOMAIN Stored(t)'
    BY <1>1, OverAt DEF View
  <1>5. ASSUME NEW t \in {"orders", "receipts", "refundReceipts"},
               NEW o, o \notin DOMAIN Writes(w, "orders")
        PROVE  SameRow(t, o)
    <2>1. o \notin DOMAIN Writes(w, t)
      BY <1>2, <1>5 DEF TxKept, Guarded
    <2> QED BY <1>1, <2>1, UnnamedSame
  <1>6. ASSUME NEW k, k \notin DOMAIN Writes(w, "payments")
        PROVE  (k \in DOMAIN Stored("payments")') = (k \in DOMAIN Stored("payments"))
    <2>1. SameRow("payments", k)
      BY <1>1, <1>6, UnnamedSame
    <2> QED BY <2>1 DEF SameRow
  <1>7. Logged \subseteq Logged'
    BY <1>1 DEF Events
  <1>8. ASSUME NEW o, IsLinked(o) PROVE IsLinked(o)'
    <2>1. o \in DOMAIN Stored("orders") /\ Stored("orders")[o].link
      BY <1>8 DEF IsLinked
    <2>2. CASE o \in DOMAIN Writes(w, "orders")
      <3>1. Writes(w, "orders")[o].link
        BY <1>2, <2>1, <2>2 DEF TxKept, KeepsLink
      <3>2. View(w, "orders")[o] = Writes(w, "orders")[o]
        BY <2>2, OverAt DEF View
      <3> QED BY <1>1, <1>4, <2>1, <3>1, <3>2 DEF IsLinked
    <2>3. CASE o \notin DOMAIN Writes(w, "orders")
      BY <1>5, <2>1, <2>3 DEF SameRow, IsLinked
    <2> QED BY <2>2, <2>3
  <1>9. ASSUME NEW o, Addressed(o) PROVE Addressed(o)'
    <2>1. o \in DOMAIN Stored("orders") /\ Stored("orders")[o].gatewayPaymentId # NoField
      BY <1>9 DEF Addressed
    <2>2. CASE o \in DOMAIN Writes(w, "orders")
      <3>1. Writes(w, "orders")[o].gatewayPaymentId # NoField
        BY <1>2, <2>1, <2>2 DEF TxKept, KeepsLink
      <3>2. View(w, "orders")[o] = Writes(w, "orders")[o]
        BY <2>2, OverAt DEF View
      <3> QED BY <1>1, <1>4, <2>1, <3>1, <3>2 DEF Addressed
    <2>3. CASE o \notin DOMAIN Writes(w, "orders")
      BY <1>5, <2>1, <2>3 DEF SameRow, Addressed
    <2> QED BY <2>2, <2>3
  <1> QED BY <1>3, <1>4, <1>5, <1>6, <1>7, <1>8, <1>9 DEF BooksGrow

\* The books are in step after it.
LEMMA CommitBooks ==
    ASSUME StoreInvariant, ReadsInvariant, NEW w \in Workers, Commit(w)
    PROVE  BooksKept(db, Logged)'
  <1>1. /\ \A t : Stored(t)' = View(w, t) /\ RowsOf(db', t) = View(w, t)
        /\ Logged' = Events(w) /\ \A t : RowsOf(db', t) = Stored(t)'
    BY Committed
  <1>2. BooksGrow(w) /\ TxKept(w) /\ BooksKept(db, Logged)
    BY CommitGrows DEF ReadsInvariant, ReadsFit
  <1>3. /\ DOMAIN Stored("receipts")' \subseteq DOMAIN Stored("orders")'
        /\ DOMAIN Stored("refundReceipts")' \subseteq DOMAIN Stored("orders")'
    <2>1. /\ DOMAIN Stored("receipts") \subseteq DOMAIN Stored("orders")
          /\ DOMAIN Stored("refundReceipts") \subseteq DOMAIN Stored("orders")
      BY <1>2 DEF BooksKept, Stored
    <2>2. /\ DOMAIN Writes(w, "receipts") \subseteq DOMAIN Writes(w, "orders")
          /\ DOMAIN Writes(w, "refundReceipts") \subseteq DOMAIN Writes(w, "orders")
      BY <1>2 DEF TxKept, Guarded
    <2>3. \A t : DOMAIN Stored(t)' = DOMAIN Writes(w, t) \cup DOMAIN Stored(t)
      BY <1>1, OverAt DEF View
    <2> QED BY <2>1, <2>2, <2>3
  <1>4. ASSUME NEW o \in DOMAIN Stored("orders")'
        PROVE  OrderKept(o, Stored("orders")'[o], Stored("payments")', RowAt(Stored("receipts")', o),
                         RowAt(Stored("refundReceipts")', o), Logged')
    <2>1. CASE o \in DOMAIN Writes(w, "orders")
      <3>1. OrderKept(o, Writes(w, "orders")[o], View(w, "payments"), RowAt(View(w, "receipts"), o),
                      RowAt(View(w, "refundReceipts"), o), Events(w))
        BY <1>2, <2>1 DEF TxKept, OrdersKept
      <3>2. View(w, "orders")[o] = Writes(w, "orders")[o]
        BY <2>1, OverAt DEF View
      <3> QED BY <1>1, <3>1, <3>2
    <2>2. CASE o \notin DOMAIN Writes(w, "orders")
      <3>1. \A t \in {"orders", "receipts", "refundReceipts"} : SameRow(t, o)
        BY <1>2, <2>2 DEF BooksGrow
      <3>2. o \in DOMAIN Stored("orders") /\ Stored("orders")'[o] = Stored("orders")[o]
        BY <1>4, <3>1 DEF SameRow
      <3>3. OrderKept(o, Stored("orders")[o], Stored("payments"), RowAt(Stored("receipts"), o),
                      RowAt(Stored("refundReceipts"), o), Logged)
        BY <3>2, OrderBook
      <3>4. /\ RowAt(Stored("receipts")', o) = RowAt(Stored("receipts"), o)
            /\ RowAt(Stored("refundReceipts")', o) = RowAt(Stored("refundReceipts"), o)
        BY <3>1 DEF SameRow
      <3>5. Extends(Stored("payments"), Stored("payments")') /\ Logged \subseteq Logged'
        BY <1>2 DEF BooksGrow
      <3>6. OrderKept(o, Stored("orders")[o], Stored("payments")', RowAt(Stored("receipts"), o),
                      RowAt(Stored("refundReceipts"), o), Logged')
        BY <3>3, <3>5, OrderStays
      <3> QED BY <3>2, <3>4, <3>6
    <2> QED BY <2>1, <2>2
  <1>5. ASSUME NEW k \in DOMAIN Stored("payments")'
        PROVE  Stored("payments")'[k].cart \in DOMAIN Stored("carts")'
    <2>1. DOMAIN Stored("carts") \subseteq DOMAIN Stored("carts")'
      BY <1>2 DEF BooksGrow
    <2>2. CASE k \in DOMAIN Writes(w, "payments")
      <3>1. Writes(w, "payments")[k].cart \in DOMAIN Stored("carts")
        BY <1>2, <2>2 DEF TxKept, WritesNew
      <3>2. View(w, "payments")[k] = Writes(w, "payments")[k]
        BY <2>2, OverAt DEF View
      <3> QED BY <1>1, <2>1, <3>1, <3>2
    <2>3. CASE k \notin DOMAIN Writes(w, "payments")
      <3>1. SameRow("payments", k)
        BY <1>1, <2>3, UnnamedSame
      <3>2. k \in DOMAIN Stored("payments") /\ Stored("payments")'[k] = Stored("payments")[k]
        BY <1>5, <3>1 DEF SameRow
      <3>3. Stored("payments")[k].cart \in DOMAIN Stored("carts")
        BY <1>2, <3>2 DEF BooksKept, Stored
      <3> QED BY <2>1, <3>2, <3>3
    <2> QED BY <2>2, <2>3
  <1>6. /\ \A k, row : CartKept(k, row, Logged) => CartKept(k, row, Logged')
        /\ \A i : ShowsIntent(Logged, i) => ShowsIntent(Logged', i)
        /\ \A e : RefusalKept(e, Logged) => RefusalKept(e, Logged')
    BY <1>2, ShownStays DEF BooksGrow
  <1>7. ASSUME NEW k \in DOMAIN Stored("carts")' PROVE CartKept(k, Stored("carts")'[k], Logged')
    <2>1. CASE k \in DOMAIN Writes(w, "carts")
      <3>1. CartKept(k, Writes(w, "carts")[k], Events(w))
        BY <1>2, <2>1 DEF TxKept, MandatesKept
      <3>2. View(w, "carts")[k] = Writes(w, "carts")[k]
        BY <2>1, OverAt DEF View
      <3> QED BY <1>1, <3>1, <3>2
    <2>2. CASE k \notin DOMAIN Writes(w, "carts")
      <3>1. SameRow("carts", k)
        BY <1>1, <2>2, UnnamedSame
      <3>2. k \in DOMAIN Stored("carts") /\ Stored("carts")'[k] = Stored("carts")[k]
        BY <1>7, <3>1 DEF SameRow
      <3>3. CartKept(k, Stored("carts")[k], Logged)
        BY <1>2, <3>2 DEF BooksKept, Stored
      <3> QED BY <1>6, <3>2, <3>3
    <2> QED BY <2>1, <2>2
  <1>8. ASSUME NEW i \in DOMAIN Stored("intents")' PROVE i # NoField /\ ShowsIntent(Logged', i)
    <2>1. CASE i \in DOMAIN Writes(w, "intents")
      BY <1>1, <1>2, <2>1 DEF TxKept, MandatesKept
    <2>2. CASE i \notin DOMAIN Writes(w, "intents")
      <3>1. SameRow("intents", i)
        BY <1>1, <2>2, UnnamedSame
      <3>2. i \in DOMAIN Stored("intents")
        BY <1>8, <3>1 DEF SameRow
      <3> QED BY <1>2, <1>6, <3>2 DEF BooksKept, Stored
    <2> QED BY <2>1, <2>2
  <1>9. ASSUME NEW e \in Logged' PROVE RefusalKept(e, Logged')
    <2>1. RefusalKept(e, Logged)
      <3>1. e \in Logged \/ e \in Pending(w)
        BY <1>1, <1>9 DEF Events
      <3> QED BY <1>2, <3>1 DEF BooksKept, TxKept, MandatesKept
    <2> QED BY <1>6, <2>1
  <1> QED BY <1>1, <1>3, <1>4, <1>5, <1>7, <1>8, <1>9 DEF BooksKept

\* The same writes over more rows find more.
LEMMA OverGrows ==
    ASSUME NEW f, NEW g, NEW h, Extends(g, h)
    PROVE  Extends(f ++ g, f ++ h)
  <1>1. DOMAIN (f ++ g) = DOMAIN f \cup DOMAIN g /\ DOMAIN (f ++ h) = DOMAIN f \cup DOMAIN h
    BY DEF ++
  <1>2. \A x \in DOMAIN f : (f ++ g)[x] = f[x] /\ (f ++ h)[x] = f[x]
    BY DEF ++
  <1>3. \A x \in DOMAIN g \ DOMAIN f : (f ++ g)[x] = g[x]
    BY DEF ++
  <1>4. \A x \in DOMAIN h \ DOMAIN f : (f ++ h)[x] = h[x]
    BY DEF ++
  <1> QED BY <1>1, <1>2, <1>3, <1>4 DEF Extends

\* And what is at a row that is the same.
LEMMA SameRowOver ==
    ASSUME NEW f, NEW g, NEW h, NEW x, RowAt(h, x) = RowAt(g, x)
    PROVE  RowAt(f ++ h, x) = RowAt(f ++ g, x)
  BY OverExtends

\* The rows another transaction has written are not those of w.
LEMMA WritesApart ==
    ASSUME ReadsInvariant, NEW w \in Workers, NEW v \in Workers \ {w}
    PROVE  /\ \A t \in {"orders", "payments", "receipts", "refundReceipts"} :
                  DOMAIN Writes(v, t) \cap DOMAIN Writes(w, t) = {}
           /\ \A t \in {"receipts", "refundReceipts"} :
                  DOMAIN Writes(v, t) \cap DOMAIN Writes(w, "orders") = {}
  <1>1. job[v].tx.locks \cap job[w].tx.locks = {}
    BY DEF ReadsInvariant, LocksApart
  <1>2. Guarded(v) /\ Guarded(w)
    BY DEF ReadsInvariant, ReadsFit, TxKept
  <1>3. DOMAIN Writes(v, "orders") \cap DOMAIN Writes(w, "orders") = {}
    BY <1>1, <1>2 DEF Guarded
  <1>4. DOMAIN Writes(v, "payments") \cap DOMAIN Writes(w, "payments") = {}
    BY <1>1, <1>2 DEF Guarded
  <1> QED BY <1>2, <1>3, <1>4 DEF Guarded

\* What a page has seen only gains from a commit.
LEMMA PagesGain ==
    ASSUME NEW w, NEW v, BooksGrow(w), StoreInvariant, DOMAIN db' = Tables,
           job'[v] = job[v], PagesFit(v)
    PROVE  PagesFit(v)'
  <1>0. db.payments = Stored("payments") /\ db'.payments = Stored("payments")'
    BY DEF StoreInvariant, Stored, RowsOf, Tables
  <1>1. /\ \A t \in {"receipts", "refundReceipts"} : \A o \in DOMAIN Stored(t) :
               o \in DOMAIN Stored(t)' /\ Stored(t)'[o] = Stored(t)[o]
        /\ Extends(Stored("payments"), Stored("payments")')
    BY DEF BooksGrow, Extends
  <1>2. \A receipt, o : Restates(receipt, o, Stored("payments")) =>
                            Restates(receipt, o, Stored("payments")')
    BY <1>1, RestatesStill
  <1>3. /\ \A o : TypesOf(Logged, o) \subseteq TypesOf(Logged', o)
        /\ \A o : Unbound(Logged, o) => Unbound(Logged', o)
        /\ \A k : ShowsCart(Logged, k) => ShowsCart(Logged', k)
        /\ \A i : ShowsIntent(Logged, i) => ShowsIntent(Logged', i)
        /\ Logged \subseteq Logged'
    BY ShownStays DEF BooksGrow
  <1>4. ASSUME StatusFits(v) PROVE StatusFits(v)'
    <2>1. \A o, row : SawOrder(o, row) => SawOrder(o, row)'
      BY <1>1, <1>3 DEF SawOrder
    <2>2. \A o, row, receipts : SawReceipt(o, row, receipts) => SawReceipt(o, row, receipts)'
      <3> SUFFICES ASSUME NEW o, NEW row, NEW receipts, SawReceipt(o, row, receipts)
                   PROVE  SawReceipt(o, row, receipts)'
        OBVIOUS
      <3>1. RowAt(Stored("receipts"), o) \subseteq RowAt(Stored("receipts")', o)
        BY <1>1, RowAtIs DEF RowAt
      <3> QED BY <1>2, <1>3, <3>1 DEF SawReceipt
    <2>3. StatusIsWhole(job[v].reply) => StatusIsWhole(job[v].reply)'
      BY <1>0, <1>2, <1>3 DEF StatusIsWhole, Logged
    <2> QED BY <1>4, <2>1, <2>2, <2>3 DEF StatusFits
  <1>5. ASSUME AuditFits(v) PROVE AuditFits(v)'
    <2>1. \A o, row : SawPurchase(o, row) => SawPurchase(o, row)'
      BY <1>1, <1>3 DEF SawPurchase, Extends
    <2>2. CoversStatus(job[v].reply) => CoversStatus(job[v].reply)'
      BY DEF CoversStatus, TypesOn
    <2>3. \A page, o : ShowsRecord(page, o) => ShowsRecord(page, o)'
      BY <1>3 DEF ShowsRecord, TypesOn
    <2> QED BY <1>3, <1>5, <2>1, <2>2, <2>3 DEF AuditFits
  <1>6. ASSUME RefusalFits(v) PROVE RefusalFits(v)'
    <2>1. RefusalPageIsWhole(job[v].reply) => RefusalPageIsWhole(job[v].reply)'
      BY DEF RefusalPageIsWhole
    <2> QED BY <1>3, <1>6, <2>1 DEF RefusalFits
  <1> QED BY <1>4, <1>5, <1>6 DEF PagesFit

\* What another transaction will commit is in step with the books as they are now.
LEMMA OthersTx ==
    ASSUME StoreInvariant, ReadsInvariant, NEW w \in Workers, Commit(w), NEW v \in Workers \ {w}
    PROVE  TxKept(v)'
  <1>0. /\ job'[v] = job[v] /\ BooksGrow(w) /\ TxKept(v) /\ Logged \subseteq Logged'
        /\ \A t : DOMAIN Stored(t) \subseteq DOMAIN Stored(t)'
    BY Committed, CommitGrows DEF OneMoves, ReadsInvariant, ReadsFit, BooksGrow
  <1>1. (\A t : Writes(v, t)' = Writes(v, t)) /\ Pending(v)' = Pending(v)
    BY <1>0 DEF Writes, Pending
  <1>2. Guarded(v)'
    BY <1>0, <1>1 DEF TxKept, Guarded
  <1>3. WritesNew(v)'
    <2>1. \A t \in {"receipts", "refundReceipts"} : \A o \in DOMAIN Writes(v, t) :
              o \notin DOMAIN Stored(t)'
      <3> SUFFICES ASSUME NEW t \in {"receipts", "refundReceipts"}, NEW o \in DOMAIN Writes(v, t)
                   PROVE  o \notin DOMAIN Stored(t)'
        OBVIOUS
      <3>1. o \notin DOMAIN Writes(w, "orders")
        BY WritesApart
      <3>2. SameRow(t, o)
        BY <1>0, <3>1 DEF BooksGrow
      <3>3. o \notin DOMAIN Stored(t)
        BY <1>0 DEF TxKept, WritesNew
      <3> QED BY <3>2, <3>3 DEF SameRow
    <2>2. \A k \in DOMAIN Writes(v, "payments") : k \notin DOMAIN Stored("payments")'
      <3> SUFFICES ASSUME NEW k \in DOMAIN Writes(v, "payments")
                   PROVE  k \notin DOMAIN Stored("payments")'
        OBVIOUS
      <3>1. k \notin DOMAIN Writes(w, "payments")
        BY WritesApart
      <3>2. k \notin DOMAIN Stored("payments")
        BY <1>0 DEF TxKept, WritesNew
      <3> QED BY <1>0, <3>1, <3>2 DEF BooksGrow
    <2>3. \A k \in DOMAIN Writes(v, "payments") :
              Writes(v, "payments")[k].cart \in DOMAIN Stored("carts")'
      BY <1>0 DEF TxKept, WritesNew
    <2> QED BY <1>1, <2>1, <2>2, <2>3 DEF WritesNew
  <1>4. KeepsLink(v)'
    <2> SUFFICES ASSUME NEW o \in DOMAIN Writes(v, "orders"), o \in DOMAIN Stored("orders")'
                 PROVE  /\ Stored("orders")'[o].link => Writes(v, "orders")[o].link
                        /\ Stored("orders")'[o].gatewayPaymentId # NoField =>
                              Writes(v, "orders")[o].gatewayPaymentId # NoField
      BY <1>1 DEF KeepsLink
    <2>1. o \notin DOMAIN Writes(w, "orders")
      BY WritesApart
    <2>2. SameRow("orders", o)
      BY <1>0, <2>1 DEF BooksGrow
    <2> QED BY <1>0, <2>2 DEF SameRow, TxKept, KeepsLink
  <1>5. OrdersKept(v)'
    <2> SUFFICES ASSUME NEW o \in DOMAIN Writes(v, "orders")
                 PROVE  OrderKept(o, Writes(v, "orders")[o], View(v, "payments")',
                                  RowAt(View(v, "receipts")', o),
                                  RowAt(View(v, "refundReceipts")', o), Events(v)')
      BY <1>1 DEF OrdersKept
    <2>1. OrderKept(o, Writes(v, "orders")[o], View(v, "payments"), RowAt(View(v, "receipts"), o),
                    RowAt(View(v, "refundReceipts"), o), Events(v))
      BY <1>0 DEF TxKept, OrdersKept
    <2>2. Extends(View(v, "payments"), View(v, "payments")')
      <3>1. Extends(Stored("payments"), Stored("payments")')
        BY <1>0 DEF BooksGrow
      <3>2. View(v, "payments")' = Writes(v, "payments") ++ Stored("payments")'
        BY <1>1 DEF View
      <3>3. View(v, "payments") = Writes(v, "payments") ++ Stored("payments")
        BY DEF View
      <3> QED BY <3>1, <3>2, <3>3, OverGrows
    <2>3. \A t \in {"receipts", "refundReceipts"} : RowAt(View(v, t)', o) = RowAt(View(v, t), o)
      <3> SUFFICES ASSUME NEW t \in {"receipts", "refundReceipts"}
                   PROVE  RowAt(View(v, t)', o) = RowAt(View(v, t), o)
        OBVIOUS
      <3>1. o \notin DOMAIN Writes(w, "orders")
        BY WritesApart
      <3>2. SameRow(t, o)
        BY <1>0, <3>1 DEF BooksGrow
      <3>3. View(v, t)' = Writes(v, t) ++ Stored(t)'
        BY <1>1 DEF View
      <3>4. View(v, t) = Writes(v, t) ++ Stored(t)
        BY DEF View
      <3>5. RowAt(Stored(t)', o) = RowAt(Stored(t), o)
        BY <3>2 DEF SameRow
      <3> QED BY <3>3, <3>4, <3>5, SameRowOver
    <2>4. Events(v) \subseteq Events(v)'
      BY <1>0, <1>1 DEF Events
    <2> QED BY <2>1, <2>2, <2>3, <2>4, OrderStays
  <1>6. MandatesKept(v)'
    <2>1. Events(v) \subseteq Events(v)'
      BY <1>0, <1>1 DEF Events
    <2>2. /\ \A k, row : CartKept(k, row, Events(v)) => CartKept(k, row, Events(v)')
          /\ \A i : ShowsIntent(Events(v), i) => ShowsIntent(Events(v)', i)
      BY <2>1, ShownStays
    <2>3. \A e : RefusalKept(e, Logged) => RefusalKept(e, Logged')
      BY <1>0, ShownStays
    <2> QED BY <1>0, <1>1, <2>2, <2>3 DEF TxKept, MandatesKept
  <1> QED BY <1>2, <1>3, <1>4, <1>5, <1>6 DEF TxKept

\* And what another request knows is still so.
LEMMA OthersReads ==
    ASSUME StoreInvariant, ReadsInvariant, NEW w \in Workers, Commit(w), NEW v \in Workers \ {w}
    PROVE  ReadsFit(v)'
  <1> DEFINE o == job[v].call.order
  <1>0. /\ job'[v] = job[v] /\ BooksGrow(w) /\ ReadsFit(v) /\ Logged \subseteq Logged'
    BY Committed, CommitGrows DEF OneMoves, ReadsInvariant, BooksGrow
  <1>1. (\A t : Writes(v, t)' = Writes(v, t)) /\ Pending(v)' = Pending(v)
    BY <1>0 DEF Writes, Pending
  <1>2. LinkFits(v)'
    <2>1. Linking(v)' = Linking(v)
      BY <1>0 DEF Linking
    <2>2. ASSUME Linking(v) PROVE o \in DOMAIN View(v, "orders")' /\ ~View(v, "orders")'[o].link
      <3>1. o \notin DOMAIN Writes(w, "orders")
        BY <2>2 DEF ReadsInvariant, LinksAlone
      <3>2. SameRow("orders", o)
        BY <1>0, <3>1 DEF BooksGrow
      <3>3. o \in DOMAIN View(v, "orders") /\ ~View(v, "orders")[o].link
        BY <1>0, <2>2 DEF ReadsFit, LinkFits
      <3> DEFINE f == Writes(v, "orders")
                 g == Stored("orders")
                 h == Stored("orders")'
      <3>4. View(v, "orders")' = f ++ h /\ View(v, "orders") = f ++ g
        BY <1>1 DEF View
      <3>5. (o \in DOMAIN h <=> o \in DOMAIN g) /\ (o \in DOMAIN g => h[o] = g[o])
        BY <3>2 DEF SameRow
      <3> HIDE DEF f, g, h
      <3> HIDE DEF o
      <3>6. /\ DOMAIN (f ++ g) = DOMAIN f \cup DOMAIN g
            /\ \A x \in DOMAIN f : (f ++ g)[x] = f[x]
            /\ \A x \in DOMAIN g \ DOMAIN f : (f ++ g)[x] = g[x]
        BY OverAt
      <3>7. /\ DOMAIN (f ++ h) = DOMAIN f \cup DOMAIN h
            /\ \A x \in DOMAIN f : (f ++ h)[x] = f[x]
            /\ \A x \in DOMAIN h \ DOMAIN f : (f ++ h)[x] = h[x]
        BY OverAt
      <3> QED BY <3>3, <3>4, <3>5, <3>6, <3>7
    <2>3. TypesOf(Logged, o) \subseteq TypesOf(Logged', o)
      BY <1>0, ShownStays
    <2>4. TypesOf(Events(v), o) \subseteq TypesOf(Events(v)', o)
      <3>1. Events(v) \subseteq Events(v)'
        BY <1>0, <1>1 DEF Events
      <3> QED BY <3>1, ShownStays
    <2> QED BY <1>0, <2>1, <2>2, <2>3, <2>4 DEF ReadsFit, LinkFits
  <1>3. HookFits(v)'
    BY <1>0, <1>1 DEF ReadsFit, HookFits, BooksGrow, Refunding
  <1>4. PagesFit(v)'
    <2>1. DOMAIN db' = Tables
      BY DEF Commit, StoreInvariant, Over, JobFits, JobShape, RowsFit
    <2> QED BY <1>0, <2>1, PagesGain DEF ReadsFit
  <1>5. TxKept(v)'
    BY OthersTx
  <1> QED BY <1>2, <1>3, <1>4, <1>5 DEF ReadsFit

\* The request whose transaction it was goes on with what it has written.
LEMMA OwnReads ==
    ASSUME StoreInvariant, ReadsInvariant, NEW w \in Workers, Commit(w)
    PROVE  ReadsFit(w)'
  <1> DEFINE o == job[w].call.order
  <1>1. /\ job[w].step = "commit" /\ job'[w].step = job[w].after /\ job'[w].call = job[w].call
        /\ job'[w].reply = job[w].reply /\ job'[w].seen = job[w].seen /\ job'[w].tx = NoTx
        /\ \A t : Stored(t)' = View(w, t)
        /\ Logged' = Events(w)
    BY Committed
  <1>2. job[w].after \in AfterCommit
    BY DEF StoreInvariant, JobFits, JobShape
  <1>3. TxKept(w)' /\ \A t : DOMAIN Writes(w, t)' = {}
    BY <1>1, EmptyTxNext
  <1>4. ReadsFit(w) /\ BooksGrow(w)
    BY CommitGrows DEF ReadsInvariant
  <1>5. LinkFits(w)'
    <2>1. Linking(w)' => job[w].after \in {"attempt_link", "create_link"}
      BY <1>1, <1>2 DEF Linking, AfterCommit
    <2>2. Linking(w)' => o \in DOMAIN View(w, "orders") /\ ~View(w, "orders")[o].link
      BY <1>1, <1>4, <2>1 DEF ReadsFit, LinkFits, Linking
    <2>3. /\ DOMAIN View(w, "orders")' = DOMAIN View(w, "orders")
          /\ \A x \in DOMAIN View(w, "orders") : View(w, "orders")'[x] = View(w, "orders")[x]
      <3> DEFINE f == Writes(w, "orders")'
                 g == View(w, "orders")
      <3>1. View(w, "orders")' = f ++ g
        BY <1>1 DEF View
      <3>2. DOMAIN f = {}
        BY <1>3
      <3> HIDE DEF f, g
      <3>3. /\ DOMAIN (f ++ g) = DOMAIN f \cup DOMAIN g
            /\ \A x \in DOMAIN g \ DOMAIN f : (f ++ g)[x] = g[x]
        BY OverAt
      <3> QED BY <3>1, <3>2, <3>3 DEF g
    <2>4. job[w].after = "create_link" =>
              "gateway.payment_link_attempted" \in TypesOf(Events(w), o)
      BY <1>1, <1>4 DEF ReadsFit, LinkFits
    <2> QED BY <1>1, <1>2, <2>2, <2>3, <2>4 DEF LinkFits, AfterCommit
  <1>6. HookFits(w)'
    <2>1. job[w].call.call = "webhook" => o = job[w].call.hook.order /\ IsLinked(o)
      BY <1>1, <1>4 DEF ReadsFit, HookFits
    <2>2. /\ IsLinked(o) => IsLinked(job[w].call.order)'
          /\ Addressed(o) => Addressed(job[w].call.order)'
      BY <1>1, <1>4 DEF BooksGrow
    <2>3. Refunding(w)' => Refunding(w)
      BY <1>1, <1>2 DEF Refunding, AfterCommit
    <2>4. Refunding(w)' => Addressed(o)
      BY <1>4, <2>3 DEF ReadsFit, HookFits
    <2> QED BY <1>1, <1>2, <2>1, <2>2, <2>4 DEF HookFits, AfterCommit
  <1>7. PagesFit(w)'
    <2>1. StatusFits(w) => StatusFits(w)'
      BY <1>1 DEF StatusFits
    <2>2. ~AuditFits(w) /\ ~RefusalFits(w)
      BY <1>1 DEF AuditFits, RefusalFits
    <2> QED BY <1>1, <1>4, <2>1, <2>2 DEF ReadsFit, PagesFit
  <1> QED BY <1>3, <1>5, <1>6, <1>7 DEF ReadsFit

\* So a commit keeps the invariant.
LEMMA CommitReads ==
    ASSUME StoreInvariant, ReadsInvariant, NEW w \in Workers, Commit(w)
    PROVE  ReadsInvariant'
  <1>1. /\ OneMoves(w) /\ job[w].step = "commit" /\ UNCHANGED hooks
        /\ job'[w].step = job[w].after /\ job'[w].after = job[w].after
        /\ job'[w].call = job[w].call /\ job'[w].tx = NoTx
    BY Committed
  <1>2. job'[w].tx.locks = {} /\ DOMAIN Writes(w, "orders")' = {}
    BY <1>1, EmptyTxNext
  <1>3. \A v \in Workers : ReadsFit(v)'
    BY OthersReads, OwnReads
  <1>4. \A v \in Workers : LinksAlone(v)'
    <2>1. Linking(w)' => Linking(w)
      <3>1. job[w].after \in AfterCommit
        BY DEF StoreInvariant, JobFits, JobShape
      <3> QED BY <1>1, <3>1 DEF Linking, AfterCommit
    <2> QED BY <1>1, <1>2, <2>1, AloneStays
  <1>5. \A v \in Workers : LocksApart(v)'
    <2>1. \A v \in Workers \ {w} : job'[v].tx.locks = job[v].tx.locks
      BY <1>1 DEF OneMoves
    <2> QED BY <1>2, <2>1 DEF ReadsInvariant, LocksApart
  <1>6. \A hook \in hooks' : IsLinked(hook.order)'
    BY <1>1, CommitGrows DEF ReadsInvariant, BooksGrow
  <1>7. BooksKept(db, Logged)'
    BY CommitBooks
  <1> QED BY <1>3, <1>4, <1>5, <1>6, <1>7 DEF ReadsInvariant

-----------------------------------------------------------------------------
(***************************************************************************)
(* The theorem.                                                            *)
(***************************************************************************)
\* At first nobody has asked for anything, and the seeded books are in step.
LEMMA InitReads == Init => ReadsInvariant
  <1> SUFFICES ASSUME Init PROVE ReadsInvariant
    OBVIOUS
  <1>1. \A w \in Workers : job[w] = Idle
    BY DEF Init
  <1>2. db = Seeded /\ log = SeededLog /\ hooks = {}
    BY DEF Init
  <1>3. BooksKept(db, Logged)
    BY <1>2, StorefrontAssumption DEF Logged
  <1>4. ASSUME NEW w \in Workers
        PROVE  /\ job[w].step = "idle" /\ job[w].call = NoField /\ job[w].tx = NoTx
    BY <1>1 DEF Idle
  <1>5. ASSUME NEW w \in Workers PROVE ReadsFit(w) /\ LocksApart(w) /\ LinksAlone(w)
    <2>1. job[w].step = "idle" /\ job[w].call = NoField /\ job[w].tx = NoTx
      BY <1>4
    <2>2. TxKept(w) /\ job[w].tx.locks = {}
      BY <2>1, EmptyTx
    <2>3. LinkFits(w) /\ LinksAlone(w)
      BY <2>1 DEF LinkFits, LinksAlone, Linking
    <2>4. HookFits(w)
      BY <2>1 DEF HookFits, Refunding
    <2>5. PagesFit(w)
      BY <2>1 DEF PagesFit
    <2>6. LocksApart(w)
      BY <2>2 DEF LocksApart
    <2> QED BY <2>2, <2>3, <2>4, <2>5, <2>6 DEF ReadsFit
  <1> QED BY <1>2, <1>3, <1>5 DEF ReadsInvariant

\* A step of nobody.
LEMMA StutterReads == ReadsInvariant /\ UNCHANGED vars => ReadsInvariant'
  <1> SUFFICES ASSUME ReadsInvariant, UNCHANGED vars PROVE ReadsInvariant'
    OBVIOUS
  <1>1. UNCHANGED <<db, log, job, hooks>>
    BY DEF vars
  <1>2. BooksStay
    BY <1>1, UnchangedBooks
  <1>3. \A v \in Workers : ReadsFit(v)'
    BY <1>1, <1>2, SameReads DEF ReadsInvariant
  <1>4. \A v \in Workers : LocksApart(v)' /\ LinksAlone(v)'
    BY <1>1 DEF ReadsInvariant, LocksApart, LinksAlone, Linking, Writes
  <1>5. BooksKept(db, Logged)'
    BY <1>1 DEF ReadsInvariant, Logged
  <1>6. \A hook \in hooks' : IsLinked(hook.order)'
    BY <1>1 DEF ReadsInvariant, IsLinked, Stored
  <1> QED BY <1>3, <1>4, <1>5, <1>6 DEF ReadsInvariant

\* Every request of a purchase keeps the invariant.
LEMMA SubmissionReads ==
    ASSUME StoreInvariant, ReadsInvariant, NEW w \in Workers, Mandates(w) \/ Submission(w)
    PROVE  ReadsInvariant'
  BY StrangerReads, RegisterAgentReads, DeclareIntentReads, CreateCartReads, VerifyPaymentReads,
     ReplayReads, PlaceOrderReads, AttemptLinkReads, CreateLinkReads, IssueLinkReads
     DEF Mandates, Submission

\* So does everything that settles it.
LEMMA SettlementReads ==
    ASSUME StoreInvariant, ReadsInvariant, NEW w \in Workers, Settlement(w)
    PROVE  ReadsInvariant'
  BY PayReads, ApplyCaptureReads, ApplyFailureReads, FulfilReads, AttemptRefundReads,
     CallRefundReads, RecordRefundReads, RecordRefundFailureReads DEF Settlement

\* And every page.
LEMMA PagesReads ==
    ASSUME StoreInvariant, ReadsInvariant, NEW w \in Workers, Pages(w)
    PROVE  ReadsInvariant'
  BY ShowsReads, ReadOrderReads, ReadReceiptReads, ReadRefundReceiptReads, ReadAuditedOrderReads,
     ReadMandatesReads, ReadAuditEventsReads, ReadRefusalReads, ReadRefusalContextReads DEF Pages

\* Every step keeps it.
LEMMA StepKeepsReads ==
    StoreInvariant /\ ReadsInvariant /\ [Next]_vars => ReadsInvariant'
  <1> SUFFICES ASSUME StoreInvariant, ReadsInvariant, [Next]_vars PROVE ReadsInvariant'
    OBVIOUS
  <1>1. CASE \E c \in Clients : CallStore(c)
    BY <1>1, CallStoreReads
  <1>2. CASE \E d \in Deliverers : DeliverHook(d)
    BY <1>2, DeliverHookReads
  <1>3. ASSUME NEW w \in Workers, Serve(w) PROVE ReadsInvariant'
    BY <1>3, SubmissionReads, SettlementReads, PagesReads, EditVariantReads, CommitReads,
       RollbackReads DEF Serve
  <1>4. CASE UNCHANGED vars
    BY <1>4, StutterReads
  <1> QED BY <1>1, <1>2, <1>3, <1>4 DEF Next, Closed

\* And it says what the answers are to be.
LEMMA InvariantReads ==
    ASSUME ReadsInvariant, NEW w \in Clients, job[w].call # NoField
    PROVE  /\ Answered(w, "get_order_status") => StatusIsWhole(job[w].reply)
           /\ Answered(w, "audit_page") /\ job[w].reply.status # NoField =>
                 CoversStatus(job[w].reply) /\ ShowsRecord(job[w].reply, job[w].call.order)
           /\ Answered(w, "refusal_page") => RefusalPageIsWhole(job[w].reply)
  <1>1. PagesFit(w)
    BY DEF ReadsInvariant, ReadsFit, Workers
  <1> QED BY <1>1 DEF PagesFit, StatusFits, AuditFits, RefusalFits, Answered

=============================================================================
