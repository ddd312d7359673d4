---------------------------- MODULE LedgerProofs ----------------------------
(***************************************************************************)
(* That the store writes such a log, and books that agree with it:         *)
(* THEOREM AuditClean and THEOREM BooksBalance; and that no page shows two *)
(* ends of an Order: THEOREM ReadsWhole.  LedgerInvariant relates the      *)
(* committed log, the rows, the locks and what every open transaction is   *)
(* about to write; LedgerHolds keeps it through every step.                *)
(***************************************************************************)
EXTENDS StorefrontProofs, AuditProofs

\* What is written, on record or in a transaction that is open.
Written == Entries(log) \cup UNION {Entries(job[w].tx.events) : w \in Workers}

\* What every event rests on is on record, with a smaller number.
Grounded == \A p \in Written : Sound(p.event, Earlier(Entries(log), p.seq))

\* The locks that keep an event from being written twice.
EventLocked(e, locks) ==
    /\ e.type \in {"agent.registered", "payment.verified"} =>
          <<"agents", Field(e, "agentId")>> \in locks
    /\ Is(e, "mandate.intent_declared") => <<"intents", Field(e, "intentHash")>> \in locks
    /\ Is(e, "mandate.cart_created") => <<"carts", Field(e, "cartHash")>> \in locks
    /\ e.type \in PerOrder => <<"orders", e.order>> \in locks

\* An Order is not un-cancelled, un-paid or un-refunded.
Forward(old, new) ==
    /\ old.status = "cancelled" => new.status = "cancelled"
    /\ old.status \in Settled => new.status \in Settled
    /\ old.status = "refunded" => new.status = "refunded"

EventsFit(w) ==
    \A e \in Pending(w) : EventKept(e, job[w].tx.writes) /\ EventLocked(e, job[w].tx.locks)

RowsGoOn(w) ==
    /\ RowsShown(job[w].tx.writes, Events(w))
    /\ \A o \in DOMAIN Writes(w, "orders") :
          /\ Writes(w, "orders")[o].link => o \in DOMAIN links
          /\ o \in DOMAIN Stored("orders") => Forward(Stored("orders")[o], Writes(w, "orders")[o])

\* The Cart and the Intent a payment was verified against.
Affordable(c) ==
    \E k, i \in Logged :
        /\ Is(k, "mandate.cart_created") /\ Is(i, "mandate.intent_declared")
        /\ Field(k, "cartHash") = c.cart /\ Agrees(k, i, {"intentHash", "agentId"})
        /\ Field(k, "agentId") = c.token
        /\ Field(k, "totalAmountPaise") <= Field(i, "budgetPaise")

PurchaseFits(w) ==
    LET c == job[w].call IN
    /\ job[w].step = "place_order" =>
          /\ c.call = "submit_payment" /\ CallFits(c) /\ Affordable(c)
          /\ c.token \in DOMAIN Stored("agents")
    /\ job[w].step = "key_known" => KeyOf(w) \in DOMAIN Stored("payments")
    /\ job[w].step = "issue_link" => c.order \in DOMAIN links
    /\ job[w].step = "apply" => \A e \in Pending(w) : Is(e, "gateway.webhook_received")

LinksFit ==
    /\ \A o \in DOMAIN links :
          /\ "amountPaise" \in DOMAIN links[o]
          /\ \E e \in Logged : /\ Is(e, "payment.verified") /\ e.order = o
                               /\ Field(e, "amountPaise") = links[o].amountPaise
    /\ \A o \in DOMAIN Stored("orders") : Stored("orders")[o].link => o \in DOMAIN links

\* The inductive invariant.
LedgerInvariant ==
    /\ Grounded /\ Once(Written)
    /\ WithinCap(Written, Entries(log), Cancelled(db))
    /\ RowsShown(db, Logged) /\ \A e \in Logged : EventKept(e, db)
    /\ \A w \in Workers : EventsFit(w) /\ RowsGoOn(w) /\ PurchaseFits(w)
    /\ LinksFit

-----------------------------------------------------------------------------
(***************************************************************************)
(* What is written.                                                        *)
(***************************************************************************)
\* Numbers are drawn once each, and every event is that of one.
LEMMA WrittenIs ==
    ASSUME StoreInvariant
    PROVE  /\ IsFiniteSet(Written) /\ Entries(log) \subseteq Written
           /\ \A p \in Written : p.seq \in 1 .. drawn /\ p = [seq |-> p.seq, event |-> p.event]
           /\ \A p, q \in Written : p.seq = q.seq => p = q
           /\ \A p \in Entries(log) : p.event \in Logged
           /\ \A e \in Logged : \E p \in Entries(log) : p.event = e
           /\ \A p \in Written : p.event \in Logged \/ \E v \in Workers : p.event \in Pending(v)
           /\ \A n \in Nat : n > drawn => Earlier(Entries(log), n) = Logged
  <1>0. drawn \in Nat /\ DOMAIN log \subseteq 1 .. drawn
    BY DEF StoreInvariant, Numbers
  <1>1. \A p \in Entries(log) :
            /\ p.seq \in DOMAIN log /\ p.event = log[p.seq]
            /\ p = [seq |-> p.seq, event |-> p.event]
    BY DEF Entries
  <1>2. \A v \in Workers : \A p \in Entries(job[v].tx.events) :
            /\ p.seq \in DOMAIN job[v].tx.events /\ p.event = job[v].tx.events[p.seq]
            /\ p = [seq |-> p.seq, event |-> p.event]
    BY DEF Entries
  <1>3. Entries(log) \subseteq Written
    BY DEF Written
  <1>4. \A p \in Written : p \in Entries(log) \/ \E v \in Workers : p \in Entries(job[v].tx.events)
    BY DEF Written
  <1>5. \A v \in Workers : /\ DOMAIN job[v].tx.events \subseteq (1 .. drawn) \ DOMAIN log
                           /\ \A u \in Workers \ {v} :
                                 DOMAIN job[u].tx.events \cap DOMAIN job[v].tx.events = {}
    BY DEF StoreInvariant, Numbers
  <1>6. \A p \in Written : p.seq \in 1 .. drawn /\ p = [seq |-> p.seq, event |-> p.event]
    BY <1>0, <1>1, <1>2, <1>4, <1>5
  <1>7. ASSUME NEW p \in Written, NEW q \in Written, p.seq = q.seq PROVE p = q
    <2>1. CASE p \in Entries(log)
      <3>1. q \in Entries(log)
        BY <1>1, <1>2, <1>4, <1>5, <1>7, <2>1
      <3> QED BY <1>1, <1>7, <2>1, <3>1
    <2>2. ASSUME NEW v \in Workers, p \in Entries(job[v].tx.events) PROVE p = q
      <3>1. p.seq \in DOMAIN job[v].tx.events /\ p.event = job[v].tx.events[p.seq]
        BY <1>2, <2>2
      <3>2. q \notin Entries(log)
        BY <1>1, <1>5, <1>7, <3>1
      <3>3. PICK u \in Workers : q \in Entries(job[u].tx.events)
        BY <1>4, <3>2
      <3>4. q.seq \in DOMAIN job[u].tx.events /\ q.event = job[u].tx.events[q.seq]
        BY <1>2, <3>3
      <3>5. u = v
        BY <1>5, <1>7, <3>1, <3>4
      <3> QED BY <1>6, <1>7, <3>1, <3>4, <3>5
    <2> QED BY <1>4, <2>1, <2>2
  <1>8. IsFiniteSet(Written)
    <2> DEFINE number == [p \in Written |-> p.seq]
    <2>1. number \in Injection(Written, 1 .. drawn)
      BY <1>6, <1>7 DEF Injection, IsInjective
    <2>2. IsFiniteSet(1 .. drawn)
      BY <1>0, FS_Interval
    <2> HIDE DEF number
    <2> QED BY <2>1, <2>2, FS_Injection
  <1>9. /\ \A p \in Entries(log) : p.event \in Logged
        /\ \A e \in Logged : \E p \in Entries(log) : p.event = e
    <2>1. \A p \in Entries(log) : p.event \in Logged
      BY <1>1 DEF Logged
    <2>2. ASSUME NEW n \in DOMAIN log PROVE \E p \in Entries(log) : p.event = log[n]
      <3>1. [seq |-> n, event |-> log[n]] \in Entries(log)
        BY DEF Entries
      <3> QED BY <3>1
    <2> QED BY <2>1, <2>2 DEF Logged
  <1>10. \A p \in Written : p.event \in Logged \/ \E v \in Workers : p.event \in Pending(v)
    BY <1>1, <1>2, <1>4 DEF Logged, Pending
  <1>11. ASSUME NEW n \in Nat, n > drawn PROVE Earlier(Entries(log), n) = Logged
    <2>1. \A p \in Entries(log) : p.seq < n
      BY <1>0, <1>1, <1>11
    <2> QED BY <1>9, <2>1 DEF Earlier
  <1> QED BY <1>3, <1>6, <1>7, <1>8, <1>9, <1>10, <1>11

\* What an event rests on does not go away.
LEMMA SoundMore ==
    ASSUME NEW e, NEW before, NEW more, before \subseteq more, Sound(e, before)
    PROVE  Sound(e, more)
  <1>1. CartSound(e, before) => CartSound(e, more)
    BY DEF CartSound
  <1>2. VerifiedSound(e, before) => VerifiedSound(e, more)
    BY DEF VerifiedSound
  <1>3. ReplaySound(e, before) => ReplaySound(e, more)
    BY DEF ReplaySound
  <1>4. PaidSound(e, before) => PaidSound(e, more)
    BY DEF PaidSound
  <1>5. RefundSound(e, before) => RefundSound(e, more)
    BY DEF RefundSound
  <1>6. ReceiptSound(e, before) => ReceiptSound(e, more)
    BY DEF ReceiptSound
  <1> QED BY <1>1, <1>2, <1>3, <1>4, <1>5, <1>6 DEF Sound

\* Nor what shows a row.
LEMMA ShownMore ==
    ASSUME NEW tables, NEW events, NEW more, events \subseteq more, RowsShown(tables, events)
    PROVE  RowsShown(tables, more)
  <1>1. \A g, row : AgentShown(g, row, events) => AgentShown(g, row, more)
    BY DEF AgentShown
  <1>2. \A i, row : IntentShown(i, row, events) => IntentShown(i, row, more)
    BY DEF IntentShown
  <1>3. \A k, row : CartShown(k, row, events) => CartShown(k, row, more)
    BY DEF CartShown
  <1>4. \A key, row : PaymentShown(key, row, events) => PaymentShown(key, row, more)
    BY DEF PaymentShown
  <1>5. \A o, row : OrderShown(o, row, events) => OrderShown(o, row, more)
    BY DEF OrderShown
  <1> QED BY <1>1, <1>2, <1>3, <1>4, <1>5 DEF RowsShown

\* Rows over rows are shown by what shows both.
LEMMA ShownOver ==
    ASSUME NEW new, NEW old, NEW events, RowsShown(new, events), RowsShown(old, events)
    PROVE  RowsShown(Over(new, old), events)
  <1> DEFINE both(t) == RowsOf(new, t) ++ RowsOf(old, t)
  <1>1. \A t : RowsOf(Over(new, old), t) = both(t)
    BY OverRows
  <1>2. \A t : \A x \in DOMAIN both(t) :
            \/ x \in DOMAIN RowsOf(new, t) /\ both(t)[x] = RowsOf(new, t)[x]
            \/ x \in DOMAIN RowsOf(old, t) /\ both(t)[x] = RowsOf(old, t)[x]
    BY DEF ++
  <1> HIDE DEF both
  <1>3. \A g \in DOMAIN both("agents") : AgentShown(g, both("agents")[g], events)
    BY <1>2 DEF RowsShown
  <1>4. \A i \in DOMAIN both("intents") : IntentShown(i, both("intents")[i], events)
    BY <1>2 DEF RowsShown
  <1>5. \A k \in DOMAIN both("carts") : CartShown(k, both("carts")[k], events)
    BY <1>2 DEF RowsShown
  <1>6. \A key \in DOMAIN both("payments") : PaymentShown(key, both("payments")[key], events)
    BY <1>2 DEF RowsShown
  <1>7. \A o \in DOMAIN both("orders") : OrderShown(o, both("orders")[o], events)
    BY <1>2 DEF RowsShown
  <1> QED BY <1>1, <1>3, <1>4, <1>5, <1>6, <1>7 DEF RowsShown

\* The types of the events that go with a row: of those but the last each happens
\* once.
RowTypes ==
    {"agent.registered", "mandate.intent_declared", "mandate.cart_created"} \cup PerOrder
    \cup {"order.cancelled"}

\* Any other event is like none, and goes with no row and no lock.
LEMMA NotOnce ==
    ASSUME NEW e, e.type \notin RowTypes
    PROVE  /\ \A f : ~ Same(e, f) /\ ~ Same(f, e)
           /\ \A tables : EventKept(e, tables)
           /\ \A locks : EventLocked(e, locks)
           /\ ~ Is(e, "payment.verified") /\ ~ Is(e, "agent.registered")
  <1>1. /\ e.type \notin PerOrder /\ e.type # "payment.verified" /\ e.type # "order.paid"
        /\ e.type # "order.refunded" /\ e.type # "agent.registered"
        /\ e.type # "mandate.intent_declared" /\ e.type # "mandate.cart_created"
        /\ e.type # "order.cancelled"
    BY DEF RowTypes, PerOrder
  <1>2. \A f : ~ Same(e, f) /\ ~ Same(f, e)
    BY <1>1 DEF Same, Is
  <1>3. \A tables : EventKept(e, tables)
    BY <1>1 DEF EventKept, Is
  <1>4. \A locks : EventLocked(e, locks)
    BY <1>1 DEF EventLocked, Is
  <1> QED BY <1>1, <1>2, <1>3, <1>4 DEF Is

\* Events of most types say nothing the auditor could find wrong.
Silent(e) ==
    e.type \notin RowTypes \cup RefusalTypes \cup {"payment.replayed", "receipt.issued"}

\* Nothing has to go before such an event.
LEMMA SilentIsSound ==
    ASSUME NEW e, Silent(e), NEW before
    PROVE  Sound(e, before) /\ e.type \notin RowTypes
  <1>1. e.type \notin RowTypes /\ e.type \notin PerOrder /\ e.type \notin RefusalTypes
    BY DEF Silent, RowTypes
  <1>2. /\ e.type # "payment.verified" /\ e.type # "order.paid" /\ e.type # "order.refunded"
        /\ e.type # "agent.registered" /\ e.type # "mandate.intent_declared"
        /\ e.type # "mandate.cart_created" /\ e.type # "payment.replayed"
        /\ e.type # "receipt.issued"
    BY <1>1 DEF Silent, RowTypes, PerOrder
  <1> QED BY <1>1, <1>2 DEF Sound, Is

-----------------------------------------------------------------------------
(***************************************************************************)
(* Steps outside every transaction.                                        *)
(***************************************************************************)
\* What is written stays so while the open transactions do.
LEMMA SameWritten ==
    ASSUME UNCHANGED log, \A v \in Workers : job'[v].tx = job[v].tx
    PROVE  /\ Written' = Written /\ Logged' = Logged
           /\ \A v \in Workers : Pending(v)' = Pending(v) /\ Events(v)' = Events(v)
           /\ \A v \in Workers : \A t : Writes(v, t)' = Writes(v, t)
  BY DEF Written, Entries, Logged, Pending, Events, Writes

\* What the rows have to do with the events, when no row but a Variant's changed.
LEMMA SameShown ==
    ASSUME BooksStay
    PROVE  /\ Logged' = Logged /\ Entries(log)' = Entries(log) /\ Cancelled(db)' = Cancelled(db)
           /\ \A t : t # "variants" => Stored(t)' = Stored(t)
           /\ \A events : RowsShown(db, events) => RowsShown(db', events)
           /\ \A e : EventKept(e, db) => EventKept(e, db')
  <1>1. Logged' = Logged /\ Entries(log)' = Entries(log)
    BY DEF BooksStay, Logged, Entries
  <1>2. \A t : t # "variants" => RowsOf(db', t) = RowsOf(db, t)
    BY DEF BooksStay
  <1>3. Cancelled(db)' = Cancelled(db)
    BY <1>2 DEF Cancelled
  <1>4. \A events : RowsShown(db, events) => RowsShown(db', events)
    BY <1>2 DEF RowsShown
  <1>5. \A e : EventKept(e, db) => EventKept(e, db')
    BY <1>2 DEF EventKept
  <1> QED BY <1>1, <1>2, <1>3, <1>4, <1>5 DEF Stored

\* What a request that does not move knows, while links are only added.
LEMMA OthersGoOn ==
    ASSUME NEW v, job'[v] = job[v], BooksStay, DOMAIN links \subseteq DOMAIN links',
           EventsFit(v), RowsGoOn(v), PurchaseFits(v)
    PROVE  EventsFit(v)' /\ RowsGoOn(v)' /\ PurchaseFits(v)'
  <1>1. /\ Logged' = Logged /\ Pending(v)' = Pending(v) /\ Events(v)' = Events(v)
        /\ \A t : Writes(v, t)' = Writes(v, t)
        /\ \A t : t # "variants" => Stored(t)' = Stored(t)
    BY SameShown DEF Pending, Events, Writes
  <1>2. EventsFit(v)'
    BY <1>1 DEF EventsFit
  <1>3. RowsGoOn(v)'
    BY <1>1 DEF RowsGoOn
  <1>4. PurchaseFits(v)'
    BY <1>1 DEF PurchaseFits, Affordable, KeyOf
  <1> QED BY <1>2, <1>3, <1>4

\* A step that writes nothing is about its own request, and the gateway.
LEMMA OutsideLedger ==
    ASSUME LedgerInvariant, NEW w \in Workers, OneMoves(w), job'[w].tx = job[w].tx,
           BooksStay, DOMAIN links \subseteq DOMAIN links', PurchaseFits(w)', LinksFit'
    PROVE  LedgerInvariant'
  <1>1. \A v \in Workers : job'[v].tx = job[v].tx
    BY DEF OneMoves
  <1>2. /\ Written' = Written /\ Logged' = Logged
        /\ \A v \in Workers : Pending(v)' = Pending(v) /\ Events(v)' = Events(v)
        /\ \A v \in Workers : \A t : Writes(v, t)' = Writes(v, t)
    BY <1>1, SameWritten DEF BooksStay
  <1>3. Grounded' /\ Once(Written)' /\ WithinCap(Written, Entries(log), Cancelled(db))'
    BY <1>2, SameShown DEF LedgerInvariant, Grounded
  <1>4. (RowsShown(db, Logged) /\ \A e \in Logged : EventKept(e, db))'
    BY <1>2, SameShown DEF LedgerInvariant
  <1>5. \A v \in Workers \ {w} : EventsFit(v)' /\ RowsGoOn(v)' /\ PurchaseFits(v)'
    BY OthersGoOn DEF LedgerInvariant, OneMoves
  <1>6. EventsFit(w)'
    BY <1>1, <1>2 DEF LedgerInvariant, EventsFit
  <1>7. RowsGoOn(w)'
    <2>1. \A t : t # "variants" => Stored(t)' = Stored(t)
      BY SameShown
    <2> QED BY <1>1, <1>2, <2>1 DEF LedgerInvariant, RowsGoOn
  <1> QED BY <1>3, <1>4, <1>5, <1>6, <1>7 DEF LedgerInvariant

-----------------------------------------------------------------------------
(***************************************************************************)
(* Statements of a transaction.                                            *)
(***************************************************************************)
\* The events an insert writes, with the numbers they draw.
Inserted(events) == {[seq |-> drawn + i, event |-> events[i]] : i \in 1 .. Len(events)}

\* A later event is the same as an earlier one when the earlier is as the later.
LEMMA SameBothWays == ASSUME NEW e, NEW f, Same(e, f) PROVE Same(f, e)
  BY DEF Same, Is, Agrees

\* What happens once is written behind one lock.
LEMMA SameLock ==
    ASSUME NEW e, NEW f, NEW locks, NEW others, Same(e, f), EventLocked(e, locks),
           EventLocked(f, others)
    PROVE  locks \cap others # {}
  <1>1. CASE e.type = "agent.registered" /\ Agrees(e, f, {"agentId"})
    <2>1. <<"agents", Field(e, "agentId")>> \in locks /\ <<"agents", Field(f, "agentId")>> \in others
      BY <1>1 DEF Same, EventLocked
    <2>2. Field(e, "agentId") = Field(f, "agentId")
      BY <1>1 DEF Agrees
    <2> QED BY <2>1, <2>2
  <1>2. CASE e.type = "mandate.intent_declared" /\ Agrees(e, f, {"intentHash"})
    <2>1. /\ <<"intents", Field(e, "intentHash")>> \in locks
          /\ <<"intents", Field(f, "intentHash")>> \in others
      BY <1>2 DEF Same, EventLocked, Is
    <2>2. Field(e, "intentHash") = Field(f, "intentHash")
      BY <1>2 DEF Agrees
    <2> QED BY <2>1, <2>2
  <1>3. CASE e.type = "mandate.cart_created" /\ Agrees(e, f, {"cartHash"})
    <2>1. /\ <<"carts", Field(e, "cartHash")>> \in locks
          /\ <<"carts", Field(f, "cartHash")>> \in others
      BY <1>3 DEF Same, EventLocked, Is
    <2>2. Field(e, "cartHash") = Field(f, "cartHash")
      BY <1>3 DEF Agrees
    <2> QED BY <2>1, <2>2
  <1>4. CASE e.type = "payment.verified" /\ Agrees(e, f, {"agentId", "idempotencyKey"})
    <2>1. <<"agents", Field(e, "agentId")>> \in locks /\ <<"agents", Field(f, "agentId")>> \in others
      BY <1>4 DEF Same, EventLocked
    <2>2. Field(e, "agentId") = Field(f, "agentId")
      BY <1>4 DEF Agrees
    <2> QED BY <2>1, <2>2
  <1>5. CASE e.type \in PerOrder /\ e.order = f.order
    <2>1. <<"orders", e.order>> \in locks /\ <<"orders", f.order>> \in others
      BY <1>5 DEF Same, EventLocked
    <2> QED BY <1>5, <2>1
  <1> QED BY <1>1, <1>2, <1>3, <1>4, <1>5 DEF Same, Is

\* The locks are taken from nobody.
LEMMA LocksFree ==
    ASSUME StoreInvariant, ReadsInvariant, NEW w \in Workers,
           NEW locks, NEW writes, NEW events, NEW step, NEW after, NEW reply,
           Execute(w, locks, writes, events, step, after, reply), Len(events) \in Nat
    PROVE  \A v \in Workers \ {w} : job[v].tx.locks \cap job'[w].tx.locks = {}
  <1>1. job'[w].tx.locks = job[w].tx.locks \cup locks
    BY Executed
  <1>2. \A v \in Workers \ {w} : job[v].tx.locks \cap locks = {}
    BY DEF Execute, Free
  <1>3. \A v \in Workers \ {w} : job[v].tx.locks \cap job[w].tx.locks = {}
    BY DEF ReadsInvariant, LocksApart
  <1> QED BY <1>1, <1>2, <1>3

\* What an insert adds to what is written.
LEMMA WrittenNext ==
    ASSUME StoreInvariant, NEW w \in Workers,
           NEW locks, NEW writes, NEW events, NEW step, NEW after, NEW reply,
           Execute(w, locks, writes, events, step, after, reply), Len(events) \in Nat
    PROVE  Written' = Written \cup Inserted(events)
  <1> DEFINE numbers == drawn + 1 .. drawn + Len(events)
             fresh == [n \in numbers |-> events[n - drawn]]
             old == job[w].tx.events
             all == fresh ++ old
  <1>0. /\ DOMAIN job = Workers /\ DOMAIN job[w] = JobFields /\ DOMAIN job[w].tx = TxFields
        /\ drawn \in Nat /\ DOMAIN old \subseteq 1 .. drawn
    BY DEF StoreInvariant, JobFits, JobShape, Numbers
  <1>1. job'[w].tx.events = all /\ log' = log
    BY <1>0 DEF Execute, JobFields, TxFields
  <1>2. \A v \in Workers \ {w} : job'[v] = job[v]
    BY Executed DEF OneMoves
  <1>3. DOMAIN fresh = numbers /\ numbers \cap DOMAIN old = {}
    BY <1>0
  <1>4. \A n \in numbers : n - drawn \in 1 .. Len(events) /\ n = drawn + (n - drawn)
                           /\ fresh[n] = events[n - drawn]
    BY <1>0
  <1>5. \A i \in 1 .. Len(events) : drawn + i \in numbers /\ fresh[drawn + i] = events[i]
    BY <1>0
  <1> HIDE DEF fresh, numbers
  <1>6. /\ DOMAIN all = numbers \cup DOMAIN old
        /\ \A n \in numbers : all[n] = fresh[n]
        /\ \A n \in DOMAIN old : all[n] = old[n]
    <2>1. DOMAIN all = DOMAIN fresh \cup DOMAIN old
      BY BothFit
    <2>2. \A n \in DOMAIN fresh \cup DOMAIN old :
              all[n] = IF n \in DOMAIN fresh THEN fresh[n] ELSE old[n]
      BY DEF ++
    <2> QED BY <1>3, <2>1, <2>2
  <1> HIDE DEF all, old
  <1>7. Entries(all) = Entries(old) \cup Inserted(events)
    <2>1. ASSUME NEW n \in DOMAIN all
          PROVE  [seq |-> n, event |-> all[n]] \in Entries(old) \cup Inserted(events)
      <3>1. CASE n \in numbers
        BY <1>4, <1>6, <3>1 DEF Inserted
      <3>2. CASE n \in DOMAIN old
        BY <1>6, <3>2 DEF Entries
      <3> QED BY <1>6, <2>1, <3>1, <3>2
    <2>2. \A n \in DOMAIN old : [seq |-> n, event |-> old[n]] \in Entries(all)
      BY <1>6 DEF Entries
    <2>3. \A i \in 1 .. Len(events) : [seq |-> drawn + i, event |-> events[i]] \in Entries(all)
      BY <1>5, <1>6 DEF Entries
    <2> QED BY <2>1, <2>2, <2>3 DEF Entries, Inserted
  <1>8. Written' = Entries(log) \cup UNION {Entries(job'[v].tx.events) : v \in Workers}
    BY <1>1 DEF Written
  <1>9. Written = Entries(log) \cup UNION {Entries(job[v].tx.events) : v \in Workers}
    BY DEF Written
  <1>10. /\ \A v \in Workers \ {w} : Entries(job'[v].tx.events) = Entries(job[v].tx.events)
         /\ Entries(job'[w].tx.events) = Entries(job[w].tx.events) \cup Inserted(events)
    BY <1>1, <1>2, <1>7 DEF old
  <1>11. \A p : p \in Written' <=> \/ p \in Entries(log)
                                  \/ \E v \in Workers : p \in Entries(job'[v].tx.events)
    BY <1>8
  <1>12. \A p : p \in Written <=> \/ p \in Entries(log)
                                 \/ \E v \in Workers : p \in Entries(job[v].tx.events)
    BY <1>9
  <1>13. \A p : p \in Written' <=> p \in Written \cup Inserted(events)
    BY <1>10, <1>11, <1>12
  <1> QED BY <1>13

\* So what happens once still did, and everything rests on the record.
LEMMA ExecuteWrites ==
    ASSUME StoreInvariant, ReadsInvariant, LedgerInvariant, NEW w \in Workers,
           NEW locks, NEW writes, NEW events, NEW step, NEW after, NEW reply,
           Execute(w, locks, writes, events, step, after, reply), Len(events) \in Nat,
           \A i \in 1 .. Len(events) : Sound(events[i], Logged),
           \A i \in 1 .. Len(events) : \A f \in Events(w) : ~ Same(events[i], f),
           \A i, j \in 1 .. Len(events) : Same(events[i], events[j]) => i = j,
           EventsFit(w)'
    PROVE  /\ Written' = Written \cup Inserted(events) /\ Entries(log)' = Entries(log)
           /\ \A p \in Inserted(events) : p.seq > drawn /\ Sound(p.event, Logged)
           /\ Grounded' /\ Once(Written)'
  <1>0. drawn \in Nat
    BY DEF StoreInvariant, Numbers
  <1>1. Written' = Written \cup Inserted(events)
    BY WrittenNext
  <1>2. OneMoves(w) /\ UNCHANGED <<db, log>>
        /\ Pending(w)' = Pending(w) \cup {events[i] : i \in 1 .. Len(events)}
    BY Executed
  <1>3. Entries(log)' = Entries(log) /\ Logged' = Logged
    BY <1>2 DEF Entries, Logged
  <1>4. \A p \in Inserted(events) :
            /\ p.seq \in Nat /\ p.seq > drawn
            /\ \E i \in 1 .. Len(events) : p = [seq |-> drawn + i, event |-> events[i]]
    BY <1>0 DEF Inserted
  <1>5. Grounded'
    <2> SUFFICES ASSUME NEW p \in Written' PROVE Sound(p.event, Earlier(Entries(log), p.seq))
      BY <1>3 DEF Grounded
    <2>1. CASE p \in Written
      BY <2>1 DEF LedgerInvariant, Grounded
    <2>2. CASE p \in Inserted(events)
      <3>1. Earlier(Entries(log), p.seq) = Logged
        BY <1>4, <2>2, WrittenIs
      <3> QED BY <1>4, <2>2, <3>1
    <2> QED BY <1>1, <2>1, <2>2
  <1>6. ASSUME NEW p \in Inserted(events), NEW q \in Written' PROVE Same(p.event, q.event) => p = q
    <2> SUFFICES ASSUME Same(p.event, q.event) PROVE p = q
      OBVIOUS
    <2>1. PICK i \in 1 .. Len(events) : p = [seq |-> drawn + i, event |-> events[i]]
      BY <1>4
    <2>2. CASE q \in Inserted(events)
      <3>1. PICK j \in 1 .. Len(events) : q = [seq |-> drawn + j, event |-> events[j]]
        BY <1>4, <2>2
      <3>2. Same(events[i], events[j])
        BY <2>1, <3>1
      <3>3. i = j
        BY <3>2
      <3> QED BY <2>1, <3>1, <3>3
    <2>3. CASE q \in Written
      <3>1. p.event = events[i]
        BY <2>1
      <3>2. q.event \notin Events(w)
        BY <3>1
      <3>3. PICK v \in Workers : q.event \in Pending(v)
        BY <2>3, <3>2, WrittenIs DEF Events
      <3>4. v # w
        BY <3>2, <3>3 DEF Events
      <3>5. EventLocked(q.event, job[v].tx.locks)
        BY <3>3 DEF LedgerInvariant, EventsFit
      <3>6. p.event \in Pending(w)'
        BY <1>2, <3>1
      <3>7. EventLocked(p.event, job'[w].tx.locks)
        BY <3>6 DEF EventsFit
      <3>8. job'[w].tx.locks \cap job[v].tx.locks # {}
        BY <3>5, <3>7, SameLock
      <3> QED BY <3>4, <3>8, LocksFree
    <2> QED BY <1>1, <2>2, <2>3
  <1>7. Once(Written)'
    <2> SUFFICES ASSUME NEW p \in Written', NEW q \in Written', Same(p.event, q.event)
                 PROVE  p = q
      BY DEF Once
    <2>1. CASE p \in Inserted(events)
      BY <1>6, <2>1
    <2>2. CASE q \in Inserted(events)
      <3>1. Same(q.event, p.event)
        BY SameBothWays
      <3> QED BY <1>6, <2>2, <3>1
    <2>3. CASE p \in Written /\ q \in Written
      BY <2>3 DEF LedgerInvariant, Once
    <2> QED BY <1>1, <2>1, <2>2, <2>3
  <1>8. \A p \in Inserted(events) : p.seq > drawn /\ Sound(p.event, Logged)
    BY <1>4
  <1> QED BY <1>1, <1>3, <1>5, <1>7, <1>8

-----------------------------------------------------------------------------
(***************************************************************************)
(* The Cap.                                                                *)
(***************************************************************************)
\* What a registration and a verified payment on record say.
LEMMA WrittenSays ==
    ASSUME Grounded
    PROVE  /\ \A p \in VerifiedIn(Written) : Field(p.event, "amountPaise") \in Nat \ {0}
           /\ \A p \in Written : Is(p.event, "agent.registered") =>
                                     Field(p.event, "capPaise") \in Nat
           /\ \A p \in VerifiedIn(Written) :
                 \E r \in Entries(log) : /\ Is(r.event, "agent.registered") /\ r.seq < p.seq
                                         /\ Agrees(r.event, p.event, {"agentId"})
  <1>1. \A p \in Written : Sound(p.event, Earlier(Entries(log), p.seq))
    BY DEF Grounded
  <1>2. \A p \in VerifiedIn(Written) : VerifiedSound(p.event, Earlier(Entries(log), p.seq))
    BY <1>1 DEF VerifiedIn, Sound
  <1>3. \A p \in VerifiedIn(Written) : Field(p.event, "amountPaise") \in Nat \ {0}
    BY <1>2 DEF VerifiedSound
  <1>4. \A p \in Written : Is(p.event, "agent.registered") => Field(p.event, "capPaise") \in Nat
    BY <1>1 DEF Sound, RegistrationSound
  <1>5. ASSUME NEW p \in VerifiedIn(Written)
        PROVE  \E r \in Entries(log) : /\ Is(r.event, "agent.registered") /\ r.seq < p.seq
                                       /\ Agrees(r.event, p.event, {"agentId"})
    <2>1. PICK e \in Earlier(Entries(log), p.seq) :
              Is(e, "agent.registered") /\ Agrees(e, p.event, {"agentId"})
      BY <1>2 DEF VerifiedSound
    <2> QED BY <2>1 DEF Earlier
  <1> QED BY <1>3, <1>4, <1>5

\* The Cap holds of a part of what is written, as of more refunds and more Orders
\* given up.
LEMMA CapStays ==
    ASSUME NEW W, IsFiniteSet(W), NEW V \in SUBSET W, NEW R, NEW S, R \subseteq S, NEW G, NEW H,
           \A p \in VerifiedIn(W) : Field(p.event, "amountPaise") \in Nat,
           \A p \in W : Is(p.event, "agent.registered") => Field(p.event, "capPaise") \in Nat,
           \A p \in VerifiedIn(V) : p.event.order \in G => p.event.order \in H,
           WithinCap(W, R, G)
    PROVE  WithinCap(V, S, H)
  <1> SUFFICES ASSUME NEW q \in VerifiedIn(V), NEW r \in V,
                      Is(r.event, "agent.registered"), Agrees(r.event, q.event, {"agentId"})
               PROVE  SumFunctionOnSet(PaiseOf(V), Counting(V, S, H, q)) <= Field(r.event, "capPaise")
    BY DEF WithinCap
  <1> DEFINE more == Counting(W, R, G, q)
             less == Counting(V, S, H, q)
             f == PaiseOf(W)
             g == PaiseOf(V)
  <1>1. less \subseteq more
    <2> SUFFICES ASSUME NEW p \in less PROVE p \in more
      OBVIOUS
    <2>1. /\ p \in VerifiedIn(V) /\ p.seq <= q.seq /\ Agrees(p.event, q.event, {"agentId"})
          /\ p.event.order \notin H /\ ~ RefundedBefore(S, q.seq, p.event.order)
      BY DEF Counting
    <2>2. p \in VerifiedIn(W) /\ p.event.order \notin G
      BY <2>1 DEF VerifiedIn
    <2>3. ~ RefundedBefore(R, q.seq, p.event.order)
      BY <2>1 DEF RefundedBefore
    <2> QED BY <2>1, <2>2, <2>3 DEF Counting
  <1>2. more \subseteq VerifiedIn(W) /\ VerifiedIn(W) \subseteq W /\ less \subseteq V
    BY DEF Counting, VerifiedIn
  <1>3. IsFiniteSet(more) /\ IsFiniteSet(less)
    BY <1>1, <1>2, FS_Subset
  <1>4. (\A p \in more : f[p] \in Nat) /\ \A p \in less : f[p] \in Nat /\ g[p] = f[p]
    BY <1>1, <1>2 DEF PaiseOf
  <1>5. q \in VerifiedIn(W) /\ r \in W /\ Field(r.event, "capPaise") \in Nat
    BY DEF VerifiedIn
  <1>6. SumFunctionOnSet(f, more) <= Field(r.event, "capPaise")
    BY <1>5 DEF WithinCap
  <1> HIDE DEF f, g, more, less
  <1>7. SumFunctionOnSet(f, less) <= SumFunctionOnSet(f, more)
    BY <1>1, <1>3, <1>4, SumOfAPart
  <1>8. SumFunctionOnSet(g, less) = SumFunctionOnSet(f, less)
    BY <1>3, <1>4, SumAgrees
  <1>9. SumFunctionOnSet(f, less) \in Nat /\ SumFunctionOnSet(f, more) \in Nat
    BY <1>3, <1>4, SumIsNat
  <1>10. SumFunctionOnSet(g, less) <= Field(r.event, "capPaise")
    BY <1>5, <1>6, <1>7, <1>8, <1>9
  <1> QED BY <1>10 DEF g, less

\* An insert leaves what an Agent owed as of the payments before it.
LEMMA CapBefore ==
    ASSUME NEW W, IsFiniteSet(W), NEW V \in SUBSET W, NEW R, NEW G,
           NEW q \in VerifiedIn(V), \A p \in W \ V : ~ (p.seq <= q.seq),
           \A p \in VerifiedIn(V) : Field(p.event, "amountPaise") \in Nat
    PROVE  SumFunctionOnSet(PaiseOf(W), Counting(W, R, G, q))
               = SumFunctionOnSet(PaiseOf(V), Counting(V, R, G, q))
  <1> DEFINE S == Counting(V, R, G, q)
             f == PaiseOf(V)
             g == PaiseOf(W)
  <1>1. Counting(W, R, G, q) = S
    <2>1. \A p \in Counting(W, R, G, q) : p \in S
      BY DEF Counting, VerifiedIn
    <2>2. \A p \in S : p \in Counting(W, R, G, q)
      BY DEF Counting, VerifiedIn
    <2> QED BY <2>1, <2>2
  <1>2. S \subseteq V /\ \A p \in S : f[p] \in Nat /\ g[p] = f[p]
    BY DEF Counting, VerifiedIn, PaiseOf
  <1>3. IsFiniteSet(S)
    BY <1>2, FS_Subset
  <1> HIDE DEF S, f, g
  <1>4. SumFunctionOnSet(g, S) = SumFunctionOnSet(f, S)
    BY <1>2, <1>3, SumAgrees
  <1> QED BY <1>1, <1>4 DEF f, g, S

\* A statement of a transaction keeps the invariant: what it inserts rests on the
\* record, happened never before, and leaves its Agent within the Cap.
LEMMA ExecuteLedger ==
    ASSUME StoreInvariant, ReadsInvariant, LedgerInvariant, NEW w \in Workers,
           NEW locks, NEW writes, NEW events, NEW step, NEW after, NEW reply,
           Execute(w, locks, writes, events, step, after, reply), Len(events) \in Nat,
           UNCHANGED <<links, hooks>>,
           \A i \in 1 .. Len(events) : Sound(events[i], Logged),
           \A i \in 1 .. Len(events) : \A f \in Events(w) : ~ Same(events[i], f),
           \A i, j \in 1 .. Len(events) : Same(events[i], events[j]) => i = j,
           \A q \in Inserted(events), r \in Written' :
               /\ Is(q.event, "payment.verified")
               /\ Is(r.event, "agent.registered") /\ Agrees(r.event, q.event, {"agentId"})
               => SumFunctionOnSet(PaiseOf(Written'),
                                   Counting(Written', Entries(log), Cancelled(db), q))
                      <= Field(r.event, "capPaise"),
           EventsFit(w)', RowsGoOn(w)', PurchaseFits(w)'
    PROVE  LedgerInvariant'
  <1>1. /\ Written' = Written \cup Inserted(events) /\ Entries(log)' = Entries(log)
        /\ \A p \in Inserted(events) : p.seq > drawn /\ Sound(p.event, Logged)
        /\ Grounded' /\ Once(Written)'
    BY ExecuteWrites
  <1>2. OneMoves(w) /\ UNCHANGED <<db, log>> /\ BooksStay
    BY Executed
  <1>3. Cancelled(db)' = Cancelled(db) /\ Logged' = Logged
    BY <1>2, SameShown
  <1>4. WithinCap(Written, Entries(log), Cancelled(db))'
    <2> DEFINE W == Written'
               V == Written
               R == Entries(log)
               G == Cancelled(db)
    <2> SUFFICES ASSUME NEW q \in VerifiedIn(W), NEW r \in W,
                        Is(r.event, "agent.registered"), Agrees(r.event, q.event, {"agentId"})
                 PROVE  SumFunctionOnSet(PaiseOf(W), Counting(W, R, G, q))
                            <= Field(r.event, "capPaise")
      BY <1>1, <1>3 DEF WithinCap
    <2>1. CASE q \in Inserted(events)
      BY <2>1 DEF VerifiedIn
    <2>2. CASE q \in Written
      <3>1. q \in VerifiedIn(V)
        BY <2>2 DEF VerifiedIn
      <3>2. Grounded
        BY DEF LedgerInvariant
      <3>3. PICK x \in Entries(log) : /\ Is(x.event, "agent.registered")
                                      /\ Agrees(x.event, q.event, {"agentId"})
        BY <3>1, <3>2, WrittenSays
      <3>4. x \in V /\ x \in W
        BY <1>1, <3>3, WrittenIs
      <3>5. Same(x.event, r.event)
        BY <3>3 DEF Same, Is, Agrees
      <3>6. x = r
        BY <1>1, <3>4, <3>5 DEF Once
      <3>7. SumFunctionOnSet(PaiseOf(V), Counting(V, R, G, q)) <= Field(r.event, "capPaise")
        BY <3>1, <3>4, <3>6 DEF LedgerInvariant, WithinCap
      <3>8. \A p \in W \ V : ~ (p.seq <= q.seq)
        <4>1. q.seq \in 1 .. drawn /\ drawn \in Nat
          BY <2>2, WrittenIs DEF StoreInvariant, Numbers
        <4>2. \A p \in Inserted(events) : p.seq \in Nat /\ p.seq > drawn
          BY <4>1 DEF Inserted
        <4> QED BY <1>1, <4>1, <4>2
      <3>9. \A p \in VerifiedIn(V) : Field(p.event, "amountPaise") \in Nat
        BY <3>2, WrittenSays
      <3>10. IsFiniteSet(W) /\ V \in SUBSET W
        <4>1. IsFiniteSet(Inserted(events))
          <5> DEFINE n == Len(events)
                     put == [i \in 1 .. n |-> [seq |-> drawn + i, event |-> events[i]]]
          <5>1. n \in Nat /\ IsFiniteSet(1 .. n)
            BY FS_Interval
          <5>2. Inserted(events) = {put[i] : i \in 1 .. n}
            BY DEF Inserted
          <5>3. put \in Surjection(1 .. n, Inserted(events))
            BY <5>2 DEF Surjection
          <5> HIDE DEF put
          <5> QED BY <5>1, <5>3, FS_Surjection
        <4>2. IsFiniteSet(V)
          BY WrittenIs
        <4> QED BY <1>1, <4>1, <4>2, FS_Union
      <3> HIDE DEF V, W, R, G
      <3>11. SumFunctionOnSet(PaiseOf(W), Counting(W, R, G, q))
                 = SumFunctionOnSet(PaiseOf(V), Counting(V, R, G, q))
        BY <3>1, <3>8, <3>9, <3>10, CapBefore
      <3> QED BY <3>7, <3>11
    <2> QED BY <1>1, <2>1, <2>2 DEF VerifiedIn
  <1>5. (RowsShown(db, Logged) /\ \A e \in Logged : EventKept(e, db))'
    BY <1>2, <1>3 DEF LedgerInvariant
  <1>6. \A v \in Workers \ {w} : EventsFit(v)' /\ RowsGoOn(v)' /\ PurchaseFits(v)'
    BY <1>2, OthersGoOn DEF LedgerInvariant, OneMoves
  <1>7. LinksFit'
    BY <1>2, <1>3 DEF LedgerInvariant, LinksFit, Stored
  <1> QED BY <1>1, <1>4, <1>5, <1>6, <1>7 DEF LedgerInvariant

\* What a request does outside its transactions is about where it goes on.
LEMMA MovesLedger ==
    ASSUME StoreInvariant, LedgerInvariant, NEW w \in Workers, NEW j, Moved(w, j), BooksStay,
           job[w].step # "idle", DOMAIN links \subseteq DOMAIN links', LinksFit',
           j.step = "place_order" =>
               /\ job[w].call.call = "submit_payment" /\ CallFits(job[w].call)
               /\ Affordable(job[w].call) /\ job[w].call.token \in DOMAIN Stored("agents"),
           j.step = "key_known" => KeyOf(w) \in DOMAIN Stored("payments"),
           j.step = "issue_link" => job[w].call.order \in DOMAIN links',
           j.step # "apply"
    PROVE  LedgerInvariant'
  <1>1. OneMoves(w) /\ job'[w] = j /\ job'[w].tx = job[w].tx /\ job'[w].call = job[w].call
    BY DEF Moved, OneMoves, StoreInvariant
  <1>2. Logged' = Logged /\ \A t : t # "variants" => Stored(t)' = Stored(t)
    BY SameShown
  <1>3. KeyOf(w)' = KeyOf(w) /\ (Affordable(job[w].call) => Affordable(job[w].call)')
    BY <1>1, <1>2 DEF KeyOf, Affordable
  <1>4. PurchaseFits(w)
    BY DEF LedgerInvariant
  <1>5. PurchaseFits(w)'
    BY <1>1, <1>2, <1>3, <1>4 DEF PurchaseFits, Affordable
  <1> QED BY <1>1, <1>5, OutsideLedger

\* The gateway's links go with the same payments while nothing is committed.
LEMMA LinksStay ==
    ASSUME LedgerInvariant, BooksStay, UNCHANGED <<links, hooks>>
    PROVE  LinksFit'
  <1>1. Logged' = Logged /\ Stored("orders")' = Stored("orders")
    BY SameShown
  <1> QED BY <1>1 DEF LedgerInvariant, LinksFit

\* An answer, or a query.
LEMMA AnswersLedger ==
    ASSUME StoreInvariant, LedgerInvariant, NEW w \in Workers, job[w].step # "idle",
           UNCHANGED <<links, hooks>>, NEW step,
           Go(w, step) \/ (\E seen : Read(w, seen, step)) \/ (step = "idle" /\ \E reply : Reply(w, reply)),
           step \notin {"place_order", "key_known", "issue_link", "apply"}
    PROVE  LedgerInvariant'
  <1>1. PICK j : Moved(w, j) /\ j.step = step
    BY Moves
  <1>2. BooksStay
    BY Moves
  <1>3. LinksFit'
    BY <1>2, LinksStay
  <1> QED BY <1>1, <1>2, <1>3, MovesLedger

-----------------------------------------------------------------------------
(***************************************************************************)
(* Whole transactions.                                                     *)
(***************************************************************************)
\* Tables with the same rows are shown by the same events, and keep them.
LEMMA SameRows ==
    ASSUME NEW A, NEW B, \A t : DOMAIN RowsOf(A, t) = DOMAIN RowsOf(B, t),
           \A t : \A x \in DOMAIN RowsOf(A, t) : RowsOf(B, t)[x] = RowsOf(A, t)[x]
    PROVE  /\ \A e : EventKept(e, A) => EventKept(e, B)
           /\ \A events : RowsShown(A, events) => RowsShown(B, events)
  <1>1. \A e : EventKept(e, A) => EventKept(e, B)
    <2> SUFFICES ASSUME NEW e, EventKept(e, A) PROVE EventKept(e, B)
      OBVIOUS
    <2>1. /\ Is(e, "order.paid") => e.order \in DOMAIN RowsOf(A, "orders")
          /\ Is(e, "order.refunded") => e.order \in DOMAIN RowsOf(A, "orders")
          /\ Is(e, "order.cancelled") => e.order \in DOMAIN RowsOf(A, "orders")
      BY DEF EventKept, Is, PerOrder
    <2> QED BY <2>1 DEF EventKept
  <1>2. ASSUME NEW events, RowsShown(A, events) PROVE RowsShown(B, events)
    BY <1>2 DEF RowsShown
  <1> QED BY <1>1, <1>2

\* No payment is verified, and the Cap is none of the matter.
CapNext(events) ==
    \A q \in Inserted(events), r \in Written' :
        /\ Is(q.event, "payment.verified")
        /\ Is(r.event, "agent.registered") /\ Agrees(r.event, q.event, {"agentId"})
        => SumFunctionOnSet(PaiseOf(Written'), Counting(Written', Entries(log), Cancelled(db), q))
               <= Field(r.event, "capPaise")

\* Events without a verified payment leave every total under its cap.
LEMMA NoneVerified ==
    ASSUME NEW events, \A i \in 1 .. Len(events) : ~ Is(events[i], "payment.verified")
    PROVE  CapNext(events)
  <1>1. \A q \in Inserted(events) : \E i \in 1 .. Len(events) : q.event = events[i]
    BY DEF Inserted
  <1>2. \A q \in Inserted(events) : ~ Is(q.event, "payment.verified")
    BY <1>1
  <1> QED BY <1>2 DEF CapNext

\* What a request inside its transaction goes on with.
LEMMA ExecutedPurchase ==
    ASSUME StoreInvariant, LedgerInvariant, NEW w \in Workers, job[w].step # "idle",
           NEW locks, NEW writes, NEW events, NEW step, NEW after, NEW reply,
           Execute(w, locks, writes, events, step, after, reply), Len(events) \in Nat,
           step \in {"commit", "fulfil"}
    PROVE  PurchaseFits(w)'
  <1>1. job'[w].step = step /\ job'[w].call = job[w].call
    BY Executed
  <1>2. PurchaseFits(w)
    BY DEF LedgerInvariant
  <1> QED BY <1>1, <1>2 DEF PurchaseFits

\* The rows a transaction's first statements write go on from the store's.
RowsFollow(writes, events) ==
    /\ RowsShown(writes, Logged \cup EventsOf(events))
    /\ \A o \in DOMAIN RowsOf(writes, "orders") :
          /\ RowsOf(writes, "orders")[o].link => o \in DOMAIN links
          /\ o \in DOMAIN Stored("orders") =>
                Forward(Stored("orders")[o], RowsOf(writes, "orders")[o])

\* What may be inserted with them.
EventsFollow(locks, writes, events) ==
    /\ \A i \in 1 .. Len(events) :
          /\ Sound(events[i], Logged)
          /\ EventKept(events[i], writes) /\ EventLocked(events[i], locks)
          /\ \A f \in Logged : ~ Same(events[i], f)
    /\ \A i, j \in 1 .. Len(events) : Same(events[i], events[j]) => i = j

\* A transaction that opens with such rows and events holds what it needs.
LEMMA FirstFit ==
    ASSUME StoreInvariant, NEW w \in Workers, job[w].step \notin InTx,
           NEW locks, NEW writes, NEW events, NEW step, NEW after, NEW reply,
           Execute(w, locks, writes, events, step, after, reply), Len(events) \in Nat,
           UNCHANGED <<links, hooks>>,
           EventsFollow(locks, writes, events), RowsFollow(writes, events)
    PROVE  /\ EventsFit(w)' /\ RowsGoOn(w)'
           /\ \A i \in 1 .. Len(events) : \A f \in Events(w) : ~ Same(events[i], f)
  <1>1. /\ job[w].tx = NoTx /\ job'[w].tx.locks = locks
        /\ \A t : DOMAIN Writes(w, t)' = DOMAIN RowsOf(writes, t)
        /\ \A t : \A x \in DOMAIN RowsOf(writes, t) : Writes(w, t)'[x] = RowsOf(writes, t)[x]
        /\ Pending(w)' = {events[i] : i \in 1 .. Len(events)}
    BY FirstWrites
  <1>2. Logged' = Logged /\ Stored("orders")' = Stored("orders")
    BY Executed, SameShown
  <1>3. Events(w) = Logged /\ Events(w)' = Logged \cup EventsOf(events)
    BY <1>1, <1>2, EmptyTx DEF Events, EventsOf
  <1>4. \A t : Writes(w, t)' = RowsOf(job'[w].tx.writes, t)
    BY DEF Writes
  <1>5. /\ \A e : EventKept(e, writes) => EventKept(e, job'[w].tx.writes)
        /\ \A all : RowsShown(writes, all) => RowsShown(job'[w].tx.writes, all)
    BY <1>1, <1>4, SameRows
  <1>6. EventsFit(w)'
    BY <1>1, <1>5 DEF EventsFit, EventsFollow
  <1>7. RowsGoOn(w)'
    <2>1. RowsShown(job'[w].tx.writes, Events(w)')
      BY <1>3, <1>5 DEF RowsFollow
    <2> QED BY <1>1, <1>2, <2>1 DEF RowsGoOn, RowsFollow
  <1> QED BY <1>3, <1>6, <1>7 DEF EventsFollow

\* A request's first writes keep the ledger.
LEMMA FirstLedger ==
    ASSUME StoreInvariant, ReadsInvariant, LedgerInvariant, NEW w \in Workers,
           job[w].step \notin InTx \cup {"idle"},
           NEW locks, NEW writes, NEW events, NEW step, NEW after, NEW reply,
           Execute(w, locks, writes, events, step, after, reply), Len(events) \in Nat,
           step \in {"commit", "fulfil"}, UNCHANGED <<links, hooks>>,
           EventsFollow(locks, writes, events), RowsFollow(writes, events), CapNext(events)
    PROVE  LedgerInvariant'
  <1>1. /\ EventsFit(w)' /\ RowsGoOn(w)'
        /\ \A i \in 1 .. Len(events) : \A f \in Events(w) : ~ Same(events[i], f)
    BY FirstFit
  <1>2. PurchaseFits(w)'
    BY ExecutedPurchase
  <1>3. /\ \A i \in 1 .. Len(events) : Sound(events[i], Logged)
        /\ \A i, j \in 1 .. Len(events) : Same(events[i], events[j]) => i = j
    BY DEF EventsFollow
  <1> QED BY <1>1, <1>2, <1>3, ExecuteLedger DEF CapNext

\* Tables without rows.
LEMMA NoRows ==
    ASSUME NEW events
    PROVE  RowsFollow(<<>>, events)
  <1>1. \A t : DOMAIN RowsOf(<<>>, t) = {}
    BY NothingFits
  <1> QED BY <1>1 DEF RowsFollow, RowsShown

\* One event that happens more than once, and no row.
LEMMA LogsLedger ==
    ASSUME StoreInvariant, ReadsInvariant, LedgerInvariant, NEW w \in Workers,
           NEW event, NEW after, NEW reply,
           Transact(w, {}, <<>>, <<event>>, after, reply),
           job[w].step \notin InTx \cup {"idle"}, UNCHANGED <<links, hooks>>,
           Sound(event, Logged), event.type \notin RowTypes
    PROVE  LedgerInvariant'
  <1> DEFINE events == <<event>>
             step == "commit"
             locks == {}
             writes == <<>>
  <1>1. Len(events) = 1 /\ Len(events) \in Nat /\ events[1] = event
    OBVIOUS
  <1>2. Execute(w, locks, writes, events, step, after, reply) /\ step \in {"commit", "fulfil"}
    BY DEF Transact
  <1>3. RowsFollow(writes, events)
    BY NoRows
  <1> HIDE DEF events, step, locks, writes
  <1>4. EventsFollow(locks, writes, events)
    <2>1. \A i \in 1 .. Len(events) : i = 1 /\ events[i] = event
      BY <1>1
    <2> QED BY <2>1, NotOnce DEF EventsFollow
  <1>5. CapNext(events)
    BY <1>1, NotOnce, NoneVerified
  <1> QED BY <1>1, <1>2, <1>3, <1>4, <1>5, FirstLedger

\* One event, with the rows it shows.
LEMMA OneEventLedger ==
    ASSUME StoreInvariant, ReadsInvariant, LedgerInvariant, NEW w \in Workers,
           NEW locks, NEW writes, NEW event, NEW after, NEW reply,
           Transact(w, locks, writes, <<event>>, after, reply),
           job[w].step \notin InTx \cup {"idle"}, UNCHANGED <<links, hooks>>,
           Sound(event, Logged), EventKept(event, writes), EventLocked(event, locks),
           \A f \in Logged : ~ Same(event, f), ~ Is(event, "payment.verified"),
           RowsShown(writes, Logged \cup {event}),
           \A o \in DOMAIN RowsOf(writes, "orders") :
               /\ RowsOf(writes, "orders")[o].link => o \in DOMAIN links
               /\ o \in DOMAIN Stored("orders") =>
                     Forward(Stored("orders")[o], RowsOf(writes, "orders")[o])
    PROVE  LedgerInvariant'
  <1> DEFINE events == <<event>>
             step == "commit"
  <1>1. Len(events) = 1 /\ Len(events) \in Nat /\ events[1] = event
    OBVIOUS
  <1>2. Execute(w, locks, writes, events, step, after, reply) /\ step \in {"commit", "fulfil"}
    BY DEF Transact
  <1> HIDE DEF events, step
  <1>3. \A i \in 1 .. Len(events) : i = 1 /\ events[i] = event
    BY <1>1
  <1>4. EventsOf(events) = {event}
    BY <1>1, <1>3 DEF EventsOf
  <1>5. RowsFollow(writes, events)
    BY <1>4 DEF RowsFollow
  <1>6. EventsFollow(locks, writes, events)
    BY <1>3 DEF EventsFollow
  <1>7. CapNext(events)
    BY <1>3, NoneVerified
  <1> QED BY <1>1, <1>2, <1>5, <1>6, <1>7, FirstLedger

-----------------------------------------------------------------------------
(***************************************************************************)
(* Refusals, and the mandates before payment.                              *)
(***************************************************************************)
\* A Refusal says why, and whether trying again helps.
LEMMA RefusalTells ==
    ASSUME NEW code \in RefusalCodes, NEW recoverable \in BOOLEAN
    PROVE  /\ Refusal(code, recoverable).result = "refusal"
           /\ Refusal(code, recoverable).code # NoField
           /\ Refusal(code, recoverable).recoverable # NoField
  BY LedgerAssumption DEF Refusal

\* So the auditor finds nothing wrong with its event.
LEMMA RefusalIsSound ==
    ASSUME NEW says, NEW type \in RefusalTypes, NEW context, NEW before,
           says.code # NoField, says.recoverable # NoField
    PROVE  LET event == Event(type, NoField, [code |-> says.code, reason |-> says.code,
                                              recoverable |-> says.recoverable] ++ context) IN
           Sound(event, before) /\ event.type \notin RowTypes
  <1> DEFINE said == [code |-> says.code, reason |-> says.code, recoverable |-> says.recoverable]
             payload == said ++ context
             event == Event(type, NoField, payload)
  <1>1. /\ DOMAIN said = {"code", "reason", "recoverable"}
        /\ said["code"] = says.code /\ said["reason"] = says.code
        /\ said["recoverable"] = says.recoverable
    OBVIOUS
  <1> HIDE DEF said
  <1>2. \A x \in DOMAIN said : x \in DOMAIN payload /\ payload[x] = said[x]
    BY DEF ++
  <1> HIDE DEF payload
  <1>3. event.type = type /\ event.payload = payload
    BY DEF Event
  <1> HIDE DEF event
  <1>4. Field(event, "code") = says.code /\ Field(event, "reason") = says.code
        /\ Field(event, "recoverable") = says.recoverable
    BY <1>1, <1>2, <1>3 DEF Field
  <1>5. RefusalSound(event)
    BY <1>4 DEF RefusalSound
  <1>6. /\ event.type \notin RowTypes /\ event.type \notin PerOrder
        /\ event.type \notin {"agent.registered", "mandate.intent_declared",
                              "mandate.cart_created", "payment.replayed", "receipt.issued"}
    BY <1>3 DEF RefusalTypes, RowTypes, PerOrder
  <1>7. Sound(event, before)
    BY <1>5, <1>6 DEF Sound, Is, PerOrder
  <1> QED BY <1>6, <1>7 DEF event, payload, said

\* An objection, whether it is logged or only answered.
LEMMA ObjectLedger ==
    ASSUME StoreInvariant, ReadsInvariant, LedgerInvariant, NEW w \in Workers,
           NEW says, NEW type \in RefusalTypes, NEW context,
           Object(w, says, type, context), UNCHANGED <<links, hooks>>,
           job[w].step \notin InTx \cup {"idle"},
           says.result = "refusal" => says.code # NoField /\ says.recoverable # NoField
    PROVE  LedgerInvariant'
  <1> DEFINE event == Event(type, NoField, [code |-> says.code, reason |-> says.code,
                                            recoverable |-> says.recoverable] ++ context)
             after == "idle"
  <1>1. CASE says.result = "refusal"
    <2>1. Transact(w, {}, <<>>, <<event>>, after, says)
      BY <1>1 DEF Object
    <2>2. Sound(event, Logged) /\ event.type \notin RowTypes
      BY <1>1, RefusalIsSound
    <2> HIDE DEF event, after
    <2> QED BY <2>1, <2>2, LogsLedger
  <1>2. CASE says.result # "refusal"
    <2> DEFINE step == "idle"
    <2>1. Reply(w, says) /\ step = "idle"
      BY <1>2 DEF Object
    <2>2. step \notin {"place_order", "key_known", "issue_link", "apply"}
      OBVIOUS
    <2>3. job[w].step # "idle"
      OBVIOUS
    <2> HIDE DEF step
    <2> QED BY <2>1, <2>2, <2>3, AnswersLedger
  <1> QED BY <1>1, <1>2

\* An answer ends a request that is no purchase yet, or will be none.
LEMMA RepliesLedger ==
    ASSUME StoreInvariant, LedgerInvariant, NEW w \in Workers, job[w].step # "idle",
           UNCHANGED <<links, hooks>>, NEW reply, Reply(w, reply)
    PROVE  LedgerInvariant'
  <1> DEFINE step == "idle"
  <1>1. Reply(w, reply) /\ step = "idle" /\ step \notin {"place_order", "key_known", "issue_link", "apply"}
    OBVIOUS
  <1> HIDE DEF step
  <1> QED BY <1>1, AnswersLedger

\* An unknown caller.
LEMMA StrangerLedger ==
    ASSUME StoreInvariant, ReadsInvariant, LedgerInvariant, NEW w \in Workers, RefuseStranger(w)
    PROVE  LedgerInvariant'
  <1> DEFINE says == Refusal("UNREGISTERED_AGENT", TRUE)
             type == "agent.refused"
  <1>1. /\ job[w].step \notin InTx \cup {"idle"} /\ UNCHANGED <<links, hooks>>
        /\ Object(w, says, type, <<>>) /\ type \in RefusalTypes
    BY DEF RefuseStranger, TokenSteps, InTx, RefusalTypes
  <1>2. says.code # NoField /\ says.recoverable # NoField
    <2>1. "UNREGISTERED_AGENT" \in RefusalCodes /\ TRUE \in BOOLEAN
      BY DEF RefusalCodes
    <2> QED BY <2>1, RefusalTells
  <1> HIDE DEF says, type
  <1> QED BY <1>1, <1>2, ObjectLedger

\* A new Agent: its Cap is on the log, once.
LEMMA RegisterAgentLedger ==
    ASSUME StoreInvariant, ReadsInvariant, LedgerInvariant, NEW w \in Workers, RegisterAgent(w)
    PROVE  LedgerInvariant'
  <1> DEFINE c == job[w].call
             row == [capPaise |-> c.capPaise, custody |-> c.custody]
             rows == [agents |-> Entry(c.agent, row)]
             payload == [agentId |-> c.agent, capPaise |-> c.capPaise]
             event == Event("agent.registered", NoField, payload)
             locks == {<<"agents", c.agent>>}
             reply == Ok([agent |-> c.agent])
             after == "idle"
  <1>1. /\ job[w].step \notin InTx \cup {"idle"} /\ UNCHANGED <<links, hooks>>
        /\ c.agent # NoField /\ c.capPaise \in Int
    BY DEF RegisterAgent, InTx, StoreInvariant, JobFits, CallKnown, ClientCalls, CallFits
  <1>2. \/ Reply(w, Invalid("INVALID_CAP"))
        \/ /\ ~ (c.capPaise <= 0) /\ c.agent \notin DOMAIN db.agents
           /\ Transact(w, locks, rows, <<event>>, after, reply)
    BY DEF RegisterAgent
  <1>3. CASE Reply(w, Invalid("INVALID_CAP"))
    BY <1>1, <1>3, RepliesLedger
  <1>4. CASE /\ ~ (c.capPaise <= 0) /\ c.agent \notin DOMAIN db.agents
             /\ Transact(w, locks, rows, <<event>>, after, reply)
    <2>1. /\ event.type = "agent.registered"
          /\ Field(event, "agentId") = c.agent /\ Field(event, "capPaise") = c.capPaise
      BY DEF Event, Field
    <2>2. DOMAIN rows = {"agents"} /\ rows["agents"] = Entry(c.agent, row)
          /\ row.capPaise = c.capPaise
      OBVIOUS
    <2> HIDE DEF rows, row, event, reply, after
    <2>3. /\ DOMAIN RowsOf(rows, "agents") = {c.agent} /\ RowsOf(rows, "agents")[c.agent] = row
          /\ \A t \in {"intents", "carts", "payments", "orders"} : DOMAIN RowsOf(rows, t) = {}
      <3>1. RowsOf(rows, "agents") = Entry(c.agent, row)
        BY <2>2 DEF RowsOf
      <3>2. \A t \in {"intents", "carts", "payments", "orders"} : RowsOf(rows, t) = <<>>
        BY <2>2 DEF RowsOf
      <3> QED BY <3>1, <3>2, OneRow, NothingFits
    <2>4. Sound(event, Logged)
      <3>1. RegistrationSound(event)
        BY <1>1, <1>4, <2>1 DEF RegistrationSound
      <3>2. event.type \notin RefusalTypes
        BY <2>1 DEF RefusalTypes
      <3> QED BY <2>1, <3>1, <3>2 DEF Sound, Is
    <2>5. /\ EventKept(event, rows) /\ EventLocked(event, locks)
          /\ ~ Is(event, "payment.verified")
      BY <2>1, <2>3 DEF EventKept, EventLocked, Is, PerOrder
    <2>6. \A f \in Logged : ~ Same(event, f)
      <3> SUFFICES ASSUME NEW f \in Logged, Same(event, f) PROVE FALSE
        OBVIOUS
      <3>1. Is(f, "agent.registered") /\ Field(f, "agentId") = c.agent
        BY <2>1 DEF Same, Is, Agrees, PerOrder
      <3>2. EventKept(f, db)
        BY DEF LedgerInvariant
      <3>3. c.agent \in DOMAIN RowsOf(db, "agents")
        BY <3>1, <3>2 DEF EventKept
      <3> QED BY <1>4, <3>3 DEF StoreInvariant, RowsOf, Tables
    <2>7. RowsShown(rows, Logged \cup {event})
      <3>1. AgentShown(c.agent, row, Logged \cup {event})
        BY <2>1, <2>2 DEF AgentShown, Is
      <3> QED BY <2>3, <3>1 DEF RowsShown
    <2>8. DOMAIN RowsOf(rows, "orders") = {}
      BY <2>3
    <2> HIDE DEF locks
    <2> QED BY <1>1, <1>4, <2>4, <2>5, <2>6, <2>7, <2>8, OneEventLedger
  <1> QED BY <1>2, <1>3, <1>4

\* A new Intent: its budget is on the log, once; or none.
LEMMA DeclareIntentLedger ==
    ASSUME StoreInvariant, ReadsInvariant, LedgerInvariant, NEW w \in Workers, DeclareIntent(w)
    PROVE  LedgerInvariant'
  <1> DEFINE c == job[w].call
             forged == c.signs = "other bytes"
             checks == <<Check(c.budgetPaise <= 0, Invalid("INVALID_BUDGET")),
                         Check(CustodyMismatch(c.token, c.signs), Invalid("CUSTODY_MISMATCH")),
                         Check(forged, Refusal("INVALID_MANDATE", FALSE))>>
             says == FirstObjection(checks)
             type == "mandate.refused"
             row == [agentId |-> c.token, budgetPaise |-> c.budgetPaise, consumedBy |-> NoField]
             rows == [intents |-> Entry(c.intent, row)]
             event == Event("mandate.intent_declared", NoField,
                            [agentId |-> c.token, intentHash |-> c.intent,
                             budgetPaise |-> c.budgetPaise])
             locks == {<<"intents", c.intent>>}
             reply == Ok([intent |-> c.intent])
             after == "idle"
  <1>1. /\ job[w].step \notin InTx \cup {"idle"} /\ job[w].step # "idle" /\ UNCHANGED <<links, hooks>>
        /\ c.intent # NoField /\ c.budgetPaise \in Int /\ type \in RefusalTypes
    BY DEF DeclareIntent, Registered, InTx, StoreInvariant, JobFits, CallKnown, ClientCalls,
           CallFits, RefusalTypes
  <1>2. \/ says # NoField /\ Object(w, says, type, <<>>)
        \/ Reply(w, InternalError)
        \/ /\ says = NoField /\ c.intent \notin DOMAIN db.intents
           /\ Transact(w, locks, rows, <<event>>, after, reply)
    BY DEF DeclareIntent
  <1> HIDE DEF forged
  <1>8. DOMAIN checks = 1 .. 3
    OBVIOUS
  <1>3. /\ DOMAIN checks = 1 .. 3
        /\ checks[1].says = Invalid("INVALID_BUDGET") /\ checks[2].says = Invalid("CUSTODY_MISMATCH")
        /\ checks[3].says = Refusal("INVALID_MANDATE", FALSE)
    BY <1>8 DEF Check
  <1>7. ~ checks[1].when => ~ (c.budgetPaise <= 0)
    BY DEF Check
  <1> HIDE DEF checks, type
  <1>4. CASE says # NoField /\ Object(w, says, type, <<>>)
    <2>1. says.result = "refusal" => says.code # NoField /\ says.recoverable # NoField
      <3>0. \E i \in 1 .. 3 : says = checks[i].says
        BY <1>3, <1>4, SaysOne
      <3>1. says \in {Invalid("INVALID_BUDGET"), Invalid("CUSTODY_MISMATCH"),
                      Refusal("INVALID_MANDATE", FALSE)}
        <4>1. \A i \in 1 .. 3 : i = 1 \/ i = 2 \/ i = 3
          OBVIOUS
        <4> HIDE DEF says
        <4> QED BY <1>3, <3>0, <4>1
      <3>2. \A code : Invalid(code).result # "refusal"
        BY DEF Invalid
      <3>3. "INVALID_MANDATE" \in RefusalCodes /\ FALSE \in BOOLEAN
        BY DEF RefusalCodes
      <3> HIDE DEF says
      <3> QED BY <3>1, <3>2, <3>3, RefusalTells
    <2> HIDE DEF says
    <2> QED BY <1>1, <1>4, <2>1, ObjectLedger
  <1>5. CASE Reply(w, InternalError)
    BY <1>1, <1>5, RepliesLedger
  <1>6. CASE /\ says = NoField /\ c.intent \notin DOMAIN db.intents
             /\ Transact(w, locks, rows, <<event>>, after, reply)
    <2>0. c.budgetPaise \in Nat
      <3>1. \A i \in 1 .. 3 : checks[i].says # NoField
        <4>1. /\ Invalid("INVALID_BUDGET") # NoField /\ Invalid("CUSTODY_MISMATCH") # NoField
              /\ Refusal("INVALID_MANDATE", FALSE) # NoField
          BY NoFieldAssumption, LedgerAssumption DEF ValidationCode, RefusalCodes
        <4>2. \A i \in 1 .. 3 : i = 1 \/ i = 2 \/ i = 3
          OBVIOUS
        <4> QED BY <1>3, <4>1, <4>2
      <3>2. ~ checks[1].when
        BY <1>3, <1>6, <3>1, NothingObjected
      <3> QED BY <1>1, <1>7, <3>2
    <2>1. /\ event.type = "mandate.intent_declared" /\ Field(event, "agentId") = c.token
          /\ Field(event, "intentHash") = c.intent /\ Field(event, "budgetPaise") = c.budgetPaise
      BY DEF Event, Field
    <2>2. DOMAIN rows = {"intents"} /\ rows["intents"] = Entry(c.intent, row)
          /\ row.agentId = c.token /\ row.budgetPaise = c.budgetPaise
          /\ {"agentId", "budgetPaise", "consumedBy"} \subseteq DOMAIN row
      OBVIOUS
    <2> HIDE DEF rows, row, event, reply, after, says
    <2>3. /\ DOMAIN RowsOf(rows, "intents") = {c.intent} /\ RowsOf(rows, "intents")[c.intent] = row
          /\ \A t \in {"agents", "carts", "payments", "orders"} : DOMAIN RowsOf(rows, t) = {}
      <3>1. RowsOf(rows, "intents") = Entry(c.intent, row)
        BY <2>2 DEF RowsOf
      <3>2. \A t \in {"agents", "carts", "payments", "orders"} : RowsOf(rows, t) = <<>>
        BY <2>2 DEF RowsOf
      <3> QED BY <3>1, <3>2, OneRow, NothingFits
    <2>4. Sound(event, Logged)
      <3>1. IntentSound(event)
        BY <1>1, <2>0, <2>1 DEF IntentSound
      <3>2. event.type \notin RefusalTypes
        BY <2>1 DEF RefusalTypes
      <3> QED BY <2>1, <3>1, <3>2 DEF Sound, Is
    <2>5. /\ EventKept(event, rows) /\ EventLocked(event, locks)
          /\ ~ Is(event, "payment.verified")
      BY <2>1, <2>3 DEF EventKept, EventLocked, Is, PerOrder
    <2>6. \A f \in Logged : ~ Same(event, f)
      <3> SUFFICES ASSUME NEW f \in Logged, Same(event, f) PROVE FALSE
        OBVIOUS
      <3>1. Is(f, "mandate.intent_declared") /\ Field(f, "intentHash") = c.intent
        BY <2>1 DEF Same, Is, Agrees, PerOrder
      <3>2. EventKept(f, db)
        BY DEF LedgerInvariant
      <3>3. c.intent \in DOMAIN RowsOf(db, "intents")
        BY <3>1, <3>2 DEF EventKept
      <3> QED BY <1>6, <3>3 DEF StoreInvariant, RowsOf, Tables
    <2>7. RowsShown(rows, Logged \cup {event})
      <3>1. IntentShown(c.intent, row, Logged \cup {event})
        BY <2>1, <2>2 DEF IntentShown, Is
      <3> QED BY <2>3, <3>1 DEF RowsShown
    <2>8. DOMAIN RowsOf(rows, "orders") = {}
      BY <2>3
    <2> HIDE DEF locks
    <2> QED BY <1>1, <1>6, <2>4, <2>5, <2>6, <2>7, <2>8, OneEventLedger
  <1> QED BY <1>2, <1>4, <1>5, <1>6

\* What the Cart's lines come to, at the catalog's prices, is what the auditor
\* makes of them.
LEMMA TotalIsRecomputed ==
    ASSUME NEW items, IsFiniteSet(DOMAIN items), DOMAIN items # {},
           \A i \in DOMAIN items :
               items[i].quantity \in Nat \ {0} /\ items[i].unitPricePaise \in Nat \ {0}
    PROVE  CartTotal(items) \in Nat \ {0} /\ RecomputedTotal(items) = CartTotal(items)
  <1> DEFINE S == DOMAIN items
             f == [i \in S |-> items[i].quantity * items[i].unitPricePaise]
  <1>1. \A i \in S : f[i] \in Nat /\ f[i] > 0
    <2> SUFFICES ASSUME NEW i \in S PROVE f[i] \in Nat /\ f[i] > 0
      OBVIOUS
    <2>1. \A a, b \in Nat \ {0} : a * b \in Nat /\ a * b > 0
      BY Z3
    <2> QED BY <2>1
  <1>2. CartTotal(items) = SumFunctionOnSet(f, S)
    BY DEF CartTotal
  <1>3. PICK x : x \in S
    OBVIOUS
  <1> HIDE DEF f
  <1>4. SumFunctionOnSet(f, S) \in Nat
    BY <1>1, SumIsNat
  <1>5. SumFunctionOnSet(f, S) = SumFunctionOnSet(f, S \ {x}) + f[x]
    BY <1>1, <1>3, SumWithout
  <1>6. SumFunctionOnSet(f, S \ {x}) \in Nat
    <2>1. IsFiniteSet(S \ {x})
      BY FS_Subset
    <2> QED BY <1>1, <2>1, SumIsNat
  <1>7. SumFunctionOnSet(f, S) > 0
    BY <1>1, <1>3, <1>4, <1>5, <1>6
  <1>8. RecomputedTotal(items) = SumFunctionOnSet(f, S)
    BY DEF RecomputedTotal, f
  <1> QED BY <1>2, <1>4, <1>7, <1>8

\* A new Cart under an Intent that is on the log, with the total of its lines.
LEMMA CreateCartLedger ==
    ASSUME StoreInvariant, ReadsInvariant, LedgerInvariant, NEW w \in Workers, CreateCart(w)
    PROVE  LedgerInvariant'
  <1> DEFINE c == job[w].call
             strange == ~Own(db.intents, c.intent, c.token)
             empty == DOMAIN c.items = {}
             few == \E i \in DOMAIN c.items : c.items[i].quantity < 1
             double == \E i, j \in DOMAIN c.items :
                           i # j /\ c.items[i].variantId = c.items[j].variantId
             unknown == \E i \in DOMAIN c.items : ~Published(c.items[i].variantId)
             checks == <<Check(strange, Invalid("INTENT_NOT_FOUND")),
                         Check(empty, Invalid("INVALID_CART_ITEMS")),
                         Check(few, Invalid("INVALID_QUANTITY")),
                         Check(double, Invalid("INVALID_CART_ITEMS")),
                         Check(unknown, Invalid("VARIANT_NOT_FOUND"))>>
             items == Pinned(c.items)
             row == [agentId |-> c.token, intent |-> c.intent, items |-> items,
                     totalPaise |-> CartTotal(items),
                     signed |-> db.agents[c.token].custody = "custodial"]
             rows == [carts |-> Entry(c.cart, row)]
             event == Event("mandate.cart_created", NoField,
                            [agentId |-> c.token, cartHash |-> c.cart, intentHash |-> c.intent,
                             items |-> items, totalAmountPaise |-> CartTotal(items)])
             locks == {<<"carts", c.cart>>}
             reply == Ok([cart |-> c.cart, agent |-> c.token, intent |-> c.intent,
                          totalPaise |-> CartTotal(items),
                          signed |-> db.agents[c.token].custody = "custodial"])
             after == "idle"
  <1>1. /\ job[w].step \notin InTx \cup {"idle"} /\ job[w].step # "idle"
        /\ UNCHANGED <<links, hooks>> /\ c.cart # NoField
    BY DEF CreateCart, Registered, InTx, StoreInvariant, JobFits, CallKnown, ClientCalls, CallFits
  <1>2. CASE FirstObjection(checks) # NoField
    <2>1. Reply(w, FirstObjection(checks))
      BY <1>2 DEF CreateCart
    <2> HIDE DEF checks
    <2> QED BY <1>1, <2>1, RepliesLedger
  <1>3. CASE FirstObjection(checks) = NoField /\ c.cart \in DOMAIN db.carts
    <2>1. Reply(w, InternalError)
      BY <1>3 DEF CreateCart
    <2> QED BY <1>1, <2>1, RepliesLedger
  <1>4. CASE FirstObjection(checks) = NoField /\ c.cart \notin DOMAIN db.carts
    <2>1. \A i \in 1 .. 5 : ~ checks[i].when
      <3>1. DOMAIN checks = 1 .. 5
        OBVIOUS
      <3>2. \A i \in 1 .. 5 : checks[i].says # NoField
        <4>1. /\ checks[1].says = Invalid("INTENT_NOT_FOUND")
              /\ checks[2].says = Invalid("INVALID_CART_ITEMS")
              /\ checks[3].says = Invalid("INVALID_QUANTITY")
              /\ checks[4].says = Invalid("INVALID_CART_ITEMS")
              /\ checks[5].says = Invalid("VARIANT_NOT_FOUND")
          BY DEF Check
        <4> HIDE DEF checks
        <4> QED BY <4>1, NoFieldAssumption DEF ValidationCode
      <3> HIDE DEF checks
      <3> QED BY <1>4, <3>1, <3>2, NothingObjected
    <2>2. /\ Own(db.intents, c.intent, c.token) /\ DOMAIN c.items # {}
          /\ \A i \in DOMAIN c.items : /\ ~ (c.items[i].quantity < 1)
                                       /\ Published(c.items[i].variantId)
      <3> HIDE DEF strange, empty, few, double, unknown
      <3>1. ~strange /\ ~empty /\ ~few /\ ~unknown
        <4>1. ~ checks[1].when /\ ~ checks[2].when /\ ~ checks[3].when /\ ~ checks[5].when
          <5> HIDE DEF checks
          <5> QED BY <2>1
        <4> QED BY <4>1 DEF Check
      <3> QED BY <3>1 DEF strange, empty, few, unknown
    <2>3. Transact(w, locks, rows, <<event>>, after, reply)
      BY <1>4 DEF CreateCart
    <2>4. /\ event.type = "mandate.cart_created"
          /\ Field(event, "cartHash") = c.cart /\ Field(event, "agentId") = c.token
          /\ Field(event, "intentHash") = c.intent /\ Field(event, "items") = items
          /\ Field(event, "totalAmountPaise") = CartTotal(items)
      BY DEF Event, Field
    <2>5. /\ row.intent = c.intent /\ row.agentId = c.token /\ row.totalPaise = CartTotal(items)
          /\ {"agentId", "intent", "totalPaise", "signed"} \subseteq DOMAIN row
      OBVIOUS
    <2>6. DOMAIN rows = {"carts"} /\ rows["carts"] = Entry(c.cart, row)
      OBVIOUS
    <2>7. /\ IsFiniteSet(DOMAIN items) /\ DOMAIN items # {}
          /\ \A i \in DOMAIN items :
                items[i].quantity \in Nat \ {0} /\ items[i].unitPricePaise \in Nat \ {0}
      <3>1. c.call = "create_cart" /\ CallFits(c)
        BY DEF CreateCart, Registered, StoreInvariant, JobFits, CallKnown, ClientCalls
      <3>2. /\ \A i \in DOMAIN c.items : c.items[i].quantity \in Int
            /\ Len(c.items) \in Nat /\ DOMAIN c.items = 1 .. Len(c.items)
        BY <3>1 DEF CallFits
      <3>3. DOMAIN items = DOMAIN c.items
            /\ \A i \in DOMAIN items :
                  /\ items[i].quantity = c.items[i].quantity
                  /\ items[i].unitPricePaise = db.variants[c.items[i].variantId].pricePaise
        BY DEF Pinned
      <3>4. \A v \in DOMAIN db.variants : db.variants[v].pricePaise \in Nat \ {0}
        <4>1. VariantsFit(RowsOf(db, "variants")) /\ RowsOf(db, "variants") = db.variants
          BY DEF StoreInvariant, RowsFit, RowsOf, Tables
        <4> QED BY <4>1 DEF VariantsFit, VariantFits
      <3>5. IsFiniteSet(1 .. Len(c.items))
        BY <3>2, FS_Interval
      <3> HIDE DEF items, checks, row, rows, event
      <3>6. \A i \in DOMAIN items : items[i].unitPricePaise \in Nat \ {0}
        BY <2>2, <3>3, <3>4 DEF Published
      <3>7. \A i \in DOMAIN items : items[i].quantity \in Nat \ {0}
        <4> SUFFICES ASSUME NEW i \in DOMAIN c.items
                     PROVE  c.items[i].quantity \in Nat \ {0}
          BY <3>3
        <4>1. c.items[i].quantity \in Int /\ ~ (c.items[i].quantity < 1)
          BY <2>2, <3>2
        <4> QED BY <4>1
      <3> QED BY <2>2, <3>2, <3>3, <3>5, <3>6, <3>7
    <2> HIDE DEF rows, row, event, checks, items, reply, after
    <2>8. CartTotal(items) \in Nat \ {0} /\ RecomputedTotal(items) = CartTotal(items)
      BY <2>7, TotalIsRecomputed
    <2>9. /\ DOMAIN RowsOf(rows, "carts") = {c.cart} /\ RowsOf(rows, "carts")[c.cart] = row
          /\ \A t \in {"agents", "intents", "payments", "orders"} : DOMAIN RowsOf(rows, t) = {}
      <3>1. RowsOf(rows, "carts") = Entry(c.cart, row)
        BY <2>6 DEF RowsOf
      <3>2. \A t \in {"agents", "intents", "payments", "orders"} : RowsOf(rows, t) = <<>>
        BY <2>6 DEF RowsOf
      <3> QED BY <3>1, <3>2, OneRow, NothingFits
    <2>10. Sound(event, Logged)
      <3>1. \E e \in Logged : Is(e, "mandate.intent_declared") /\ Agrees(e, event, {"intentHash", "agentId"})
        <4>1. c.intent \in DOMAIN RowsOf(db, "intents") /\ RowsOf(db, "intents")[c.intent].agentId = c.token
          BY <2>2 DEF Own, StoreInvariant, RowsOf, Tables
        <4>2. IntentShown(c.intent, RowsOf(db, "intents")[c.intent], Logged)
          BY <4>1 DEF LedgerInvariant, RowsShown
        <4> QED BY <2>4, <4>1, <4>2 DEF IntentShown, Agrees
      <3>2. CartSound(event, Logged)
        BY <1>1, <2>4, <2>8, <3>1 DEF CartSound
      <3>3. event.type \notin RefusalTypes
        BY <2>4 DEF RefusalTypes
      <3> QED BY <2>4, <3>2, <3>3 DEF Sound, Is
    <2>11. /\ EventKept(event, rows) /\ EventLocked(event, locks)
           /\ ~ Is(event, "payment.verified")
      BY <2>4, <2>9 DEF EventKept, EventLocked, Is, PerOrder
    <2>12. \A f \in Logged : ~ Same(event, f)
      <3> SUFFICES ASSUME NEW f \in Logged, Same(event, f) PROVE FALSE
        OBVIOUS
      <3>1. Is(f, "mandate.cart_created") /\ Field(f, "cartHash") = c.cart
        BY <2>4 DEF Same, Is, Agrees, PerOrder
      <3>2. EventKept(f, db)
        BY DEF LedgerInvariant
      <3>3. c.cart \in DOMAIN RowsOf(db, "carts")
        BY <3>1, <3>2 DEF EventKept
      <3> QED BY <1>4, <3>3 DEF StoreInvariant, RowsOf, Tables
    <2>13. RowsShown(rows, Logged \cup {event})
      <3>1. CartShown(c.cart, row, Logged \cup {event})
        BY <2>4, <2>5 DEF CartShown, Is
      <3> QED BY <2>9, <3>1 DEF RowsShown
    <2>14. DOMAIN RowsOf(rows, "orders") = {}
      BY <2>9
    <2> HIDE DEF locks
    <2> QED BY <1>1, <2>3, <2>10, <2>11, <2>12, <2>13, <2>14, OneEventLedger
  <1> QED BY <1>2, <1>3, <1>4

-----------------------------------------------------------------------------
(***************************************************************************)
(* The trust gate, the Order and its payment link.                         *)
(***************************************************************************)
\* What is on record rests on the record, and happened once.
LEMMA OnRecord ==
    ASSUME StoreInvariant, LedgerInvariant
    PROVE  /\ \A e \in Logged : Sound(e, Logged)
           /\ \A e, f \in Logged : Same(e, f) => e = f
  <1>1. /\ \A e \in Logged : \E p \in Entries(log) : p.event = e
        /\ Entries(log) \subseteq Written /\ \A p \in Entries(log) : p.event \in Logged
    BY WrittenIs
  <1>2. ASSUME NEW e \in Logged PROVE Sound(e, Logged)
    <2>1. PICK p \in Entries(log) : p.event = e
      BY <1>1
    <2>2. Sound(e, Earlier(Entries(log), p.seq))
      BY <1>1, <2>1 DEF LedgerInvariant, Grounded
    <2>3. Earlier(Entries(log), p.seq) \subseteq Logged
      BY <1>1 DEF Earlier
    <2> QED BY <2>2, <2>3, SoundMore
  <1>3. ASSUME NEW e \in Logged, NEW f \in Logged, Same(e, f) PROVE e = f
    <2>1. PICK p \in Entries(log) : p.event = e
      BY <1>1
    <2>2. PICK q \in Entries(log) : q.event = f
      BY <1>1
    <2>3. p = q
      BY <1>1, <1>3, <2>1, <2>2 DEF LedgerInvariant, Once
    <2> QED BY <2>1, <2>2, <2>3
  <1> QED BY <1>2, <1>3

\* A Cart of the store and the Intent it names, as the log shows them.
LEMMA CartLogged ==
    ASSUME StoreInvariant, LedgerInvariant, NEW k \in DOMAIN Stored("carts")
    PROVE  LET row == Stored("carts")[k]
               intent == Stored("intents")[row.intent] IN
           /\ row.totalPaise \in Nat \ {0} /\ intent.budgetPaise \in Nat
           /\ row.intent \in DOMAIN Stored("intents")
           /\ \E e, i \in Logged :
                 /\ Is(e, "mandate.cart_created") /\ Field(e, "cartHash") = k
                 /\ Field(e, "agentId") = row.agentId /\ Field(e, "intentHash") = row.intent
                 /\ Field(e, "totalAmountPaise") = row.totalPaise
                 /\ Is(i, "mandate.intent_declared") /\ Agrees(e, i, {"intentHash", "agentId"})
                 /\ Field(i, "intentHash") = row.intent
                 /\ Field(i, "agentId") = intent.agentId
                 /\ Field(i, "budgetPaise") = intent.budgetPaise
  <1> DEFINE row == Stored("carts")[k]
             intent == Stored("intents")[row.intent]
  <1>1. CartShown(k, row, Logged)
    BY DEF LedgerInvariant, RowsShown, Stored
  <1> HIDE DEF row
  <1>2. PICK e \in Logged : /\ Is(e, "mandate.cart_created") /\ Field(e, "cartHash") = k
                            /\ Field(e, "agentId") = row.agentId
                            /\ Field(e, "intentHash") = row.intent
                            /\ Field(e, "totalAmountPaise") = row.totalPaise
    BY <1>1 DEF CartShown
  <1>3. CartSound(e, Logged)
    BY <1>2, OnRecord DEF Sound
  <1>4. PICK i \in Logged : Is(i, "mandate.intent_declared") /\ Agrees(i, e, {"intentHash", "agentId"})
    BY <1>3 DEF CartSound
  <1>5. /\ Agrees(e, i, {"intentHash", "agentId"}) /\ Field(i, "intentHash") = row.intent
    BY <1>2, <1>4 DEF Agrees
  <1>6. row.intent \in DOMAIN Stored("intents")
    <2>1. EventKept(i, db)
      BY DEF LedgerInvariant
    <2> QED BY <1>4, <1>5, <2>1 DEF EventKept, Stored
  <1>7. IntentShown(row.intent, intent, Logged)
    BY <1>6 DEF LedgerInvariant, RowsShown, Stored
  <1> HIDE DEF intent
  <1>8. PICK f \in Logged : /\ Is(f, "mandate.intent_declared") /\ Field(f, "intentHash") = row.intent
                            /\ Field(f, "agentId") = intent.agentId
                            /\ Field(f, "budgetPaise") = intent.budgetPaise
    BY <1>7 DEF IntentShown
  <1>9. f = i
    <2>1. Same(f, i)
      BY <1>4, <1>5, <1>8 DEF Same, Is, Agrees
    <2> QED BY <2>1, OnRecord
  <1>10. Field(i, "budgetPaise") \in Nat
    BY <1>4, OnRecord DEF Sound, IntentSound
  <1>11. row.totalPaise \in Nat \ {0}
    BY <1>2, <1>3 DEF CartSound
  <1>12. /\ row.totalPaise \in Nat \ {0} /\ intent.budgetPaise \in Nat
         /\ row.intent \in DOMAIN Stored("intents")
         /\ \E x, y \in Logged :
               /\ Is(x, "mandate.cart_created") /\ Field(x, "cartHash") = k
               /\ Field(x, "agentId") = row.agentId /\ Field(x, "intentHash") = row.intent
               /\ Field(x, "totalAmountPaise") = row.totalPaise
               /\ Is(y, "mandate.intent_declared") /\ Agrees(x, y, {"intentHash", "agentId"})
               /\ Field(y, "intentHash") = row.intent
               /\ Field(y, "agentId") = intent.agentId
               /\ Field(y, "budgetPaise") = intent.budgetPaise
    BY <1>2, <1>4, <1>5, <1>6, <1>8, <1>9, <1>10, <1>11
  <1> QED BY <1>12 DEF row, intent

\* A refused payment.
LEMMA RefusePaymentLedger ==
    ASSUME StoreInvariant, ReadsInvariant, LedgerInvariant, NEW w \in Workers, NEW says,
           RefusePayment(w, says), UNCHANGED <<links, hooks>>,
           job[w].step \notin InTx \cup {"idle"},
           says.code # NoField, says.recoverable # NoField
    PROVE  LedgerInvariant'
  <1> DEFINE type == "payment.refused"
             context == ChainOf(job[w].call)
  <1>1. Object(w, says, type, context) /\ type \in RefusalTypes
    BY DEF RefusePayment, RefusalTypes
  <1> HIDE DEF type, context
  <1> QED BY <1>1, ObjectLedger

\* The gate lets a payment through that its Intent's budget covers.
LEMMA VerifyPaymentLedger ==
    ASSUME StoreInvariant, ReadsInvariant, LedgerInvariant, NEW w \in Workers, VerifyPayment(w)
    PROVE  LedgerInvariant'
  <1> DEFINE c == job[w].call
             cart == db.carts[c.cart]
             intent == db.intents[cart.intent]
             strange == ~Own(db.carts, c.cart, c.token)
             mismatched == \E signs \in {c.signs, c.signsCart} : CustodyMismatch(c.token, signs)
             short == {i \in DOMAIN cart.items :
                          /\ Published(cart.items[i].variantId)
                          /\ db.variants[cart.items[i].variantId].stock < cart.items[i].quantity}
             forged == "other bytes" \in {c.signs, c.signsCart}
             consumed == intent.consumedBy # NoField
             repriced == \E i \in DOMAIN cart.items :
                             \/ ~Published(cart.items[i].variantId)
                             \/ db.variants[cart.items[i].variantId].pricePaise
                                    # cart.items[i].unitPricePaise
             soldOut == short # {}
             someLeft == short # {} /\ db.variants[cart.items[Min(short)].variantId].stock > 0
             dear == cart.totalPaise > intent.budgetPaise
             malformed == <<Check(strange, Invalid("CART_NOT_FOUND")),
                            Check(mismatched, Invalid("CUSTODY_MISMATCH"))>>
             checks == <<Check(forged, Refusal("INVALID_MANDATE", FALSE)),
                         Check(consumed, Refusal("INTENT_CONSUMED", TRUE)),
                         Check(repriced, Refusal("PRICE_CHANGED", TRUE)),
                         Check(soldOut, Refusal("OUT_OF_STOCK", someLeft)),
                         Check(dear, Refusal("OVER_BUDGET", TRUE))>>
             says == FirstObjection(checks)
  <1>1. /\ job[w].step \notin InTx \cup {"idle"} /\ job[w].step # "idle"
        /\ UNCHANGED <<links, hooks>> /\ job[w].step = "submit_payment"
        /\ c.token \in DOMAIN db.agents
    BY DEF VerifyPayment, Registered, InTx
  <1>2. \/ Reply(w, FirstObjection(malformed))
        \/ KeyOf(w) \in DOMAIN db.payments /\ Go(w, "key_known")
        \/ says # NoField /\ RefusePayment(w, says)
        \/ FirstObjection(malformed) = NoField /\ says = NoField /\ Go(w, "place_order")
    BY Zenon DEF VerifyPayment
  <1>3. /\ ~dear => ~(cart.totalPaise > intent.budgetPaise)
        /\ ~strange => Own(db.carts, c.cart, c.token)
    OBVIOUS
  <1>13. someLeft \in BOOLEAN
    OBVIOUS
  <1> HIDE DEF strange, mismatched, short, forged, consumed, repriced, soldOut, someLeft, dear
  <1>4. /\ malformed[1] = Check(strange, Invalid("CART_NOT_FOUND"))
        /\ malformed[2] = Check(mismatched, Invalid("CUSTODY_MISMATCH"))
        /\ DOMAIN malformed = 1 .. 2
    OBVIOUS
  <1>5. /\ checks[1] = Check(forged, Refusal("INVALID_MANDATE", FALSE))
        /\ checks[2] = Check(consumed, Refusal("INTENT_CONSUMED", TRUE))
        /\ checks[3] = Check(repriced, Refusal("PRICE_CHANGED", TRUE))
        /\ checks[4] = Check(soldOut, Refusal("OUT_OF_STOCK", someLeft))
        /\ checks[5] = Check(dear, Refusal("OVER_BUDGET", TRUE))
        /\ DOMAIN checks = 1 .. 5
    OBVIOUS
  <1>6. \A when, x : Check(when, x).says = x
    BY DEF Check
  <1>7. /\ ~ malformed[1].when => ~strange
        /\ ~ checks[5].when => ~dear
    <2>1. ~ malformed[1].when => ~strange
      BY DEF Check
    <2>2. ~ checks[5].when => ~dear
      BY DEF Check
    <2> QED BY <2>1, <2>2
  <1> HIDE DEF malformed, checks
  <1>8. CASE Reply(w, FirstObjection(malformed))
    BY <1>1, <1>8, RepliesLedger
  <1>9. CASE KeyOf(w) \in DOMAIN db.payments /\ Go(w, "key_known")
    <2> DEFINE step == "key_known"
    <2>1. Go(w, step) /\ step = "key_known"
      BY <1>9
    <2> HIDE DEF step
    <2>2. PICK j : Moved(w, j) /\ j.step = "key_known"
      BY <2>1, Moves
    <2>3. BooksStay
      BY <2>1, Moves
    <2>4. LinksFit'
      BY <1>1, <2>3, LinksStay
    <2>5. KeyOf(w) \in DOMAIN Stored("payments")
      BY <1>9 DEF Stored, RowsOf, StoreInvariant, Tables
    <2> QED BY <1>1, <2>2, <2>3, <2>4, <2>5, MovesLedger
  <1>10. \A i \in 1 .. 5 : /\ checks[i].says.code # NoField /\ checks[i].says.recoverable # NoField
                           /\ checks[i].says # NoField
    <2>1. \A code \in RefusalCodes, recoverable \in BOOLEAN :
              /\ Refusal(code, recoverable).code # NoField
              /\ Refusal(code, recoverable).recoverable # NoField
              /\ Refusal(code, recoverable) # NoField
      BY RefusalTells, LedgerAssumption
    <2>2. {"INVALID_MANDATE", "INTENT_CONSUMED", "PRICE_CHANGED", "OUT_OF_STOCK", "OVER_BUDGET"}
              \subseteq RefusalCodes
      BY DEF RefusalCodes
    <2>3. \A i \in 1 .. 5 : i = 1 \/ i = 2 \/ i = 3 \/ i = 4 \/ i = 5
      OBVIOUS
    <2>4. \A i \in 1 .. 5 : \E code \in RefusalCodes, recoverable \in BOOLEAN :
              checks[i].says = Refusal(code, recoverable)
      <3>1. /\ checks[1].says = Refusal("INVALID_MANDATE", FALSE)
            /\ checks[2].says = Refusal("INTENT_CONSUMED", TRUE)
            /\ checks[3].says = Refusal("PRICE_CHANGED", TRUE)
            /\ checks[4].says = Refusal("OUT_OF_STOCK", someLeft)
            /\ checks[5].says = Refusal("OVER_BUDGET", TRUE)
        BY <1>5, <1>6, ZenonT(60)
      <3>2. TRUE \in BOOLEAN /\ FALSE \in BOOLEAN
        OBVIOUS
      <3> DEFINE told(x) == \E code \in RefusalCodes, recoverable \in BOOLEAN :
                                x = Refusal(code, recoverable)
      <3>3. told(checks[1].says) /\ told(checks[2].says) /\ told(checks[3].says)
        BY Zenon, <2>2, <3>1, <3>2
      <3>4. told(checks[4].says) /\ told(checks[5].says)
        BY Zenon, <1>13, <2>2, <3>1, <3>2
      <3> HIDE DEF told
      <3>5. \A i \in 1 .. 5 : told(checks[i].says)
        BY <2>3, <3>3, <3>4
      <3> QED BY <3>5 DEF told
    <2> QED BY <2>1, <2>4
  <1>11. CASE says # NoField /\ RefusePayment(w, says)
    <2>1. \E i \in 1 .. 5 : says = checks[i].says
      BY <1>5, <1>11, SaysOne
    <2> HIDE DEF says
    <2> QED BY <1>1, <1>10, <1>11, <2>1, RefusePaymentLedger
  <1>12. CASE FirstObjection(malformed) = NoField /\ says = NoField /\ Go(w, "place_order")
    <2>1. Own(db.carts, c.cart, c.token)
      <3>1. \A i \in 1 .. 2 : malformed[i].says # NoField
        <4>1. Invalid("CART_NOT_FOUND") # NoField /\ Invalid("CUSTODY_MISMATCH") # NoField
          BY NoFieldAssumption DEF ValidationCode
        <4>2. \A i \in 1 .. 2 : i = 1 \/ i = 2
          OBVIOUS
        <4> QED BY <1>4, <1>6, <4>1, <4>2
      <3>2. ~ malformed[1].when
        BY <1>4, <1>12, <3>1, NothingObjected
      <3> QED BY <1>3, <1>7, <3>2
    <2>2. ~(cart.totalPaise > intent.budgetPaise)
      <3>1. ~ checks[5].when
        <4>1. \A i \in 1 .. 5 : checks[i].says # NoField
          BY <1>10
        <4>2. FirstObjection(checks) = NoField
          BY <1>12
        <4>3. \A i \in 1 .. 5 : ~ checks[i].when
          BY <1>5, <4>1, <4>2, NothingObjected
        <4> QED BY <4>3
      <3> QED BY <1>3, <1>7, <3>1
    <2>3. Stored("carts") = db.carts /\ Stored("intents") = db.intents /\ Stored("agents") = db.agents
      BY DEF Stored, RowsOf, StoreInvariant, Tables
    <2>4. c.cart \in DOMAIN Stored("carts") /\ cart.agentId = c.token
      BY <2>1, <2>3 DEF Own
    <2>13. cart = Stored("carts")[c.cart] /\ intent = Stored("intents")[cart.intent]
      BY <2>3
    <2> HIDE DEF cart, intent
    <2>5. Affordable(c)
      <3>1. cart.totalPaise \in Nat \ {0} /\ intent.budgetPaise \in Nat
        BY <2>4, <2>13, CartLogged
      <3>2. PICK e, i \in Logged :
                /\ Is(e, "mandate.cart_created") /\ Field(e, "cartHash") = c.cart
                /\ Field(e, "agentId") = cart.agentId
                /\ Field(e, "totalAmountPaise") = cart.totalPaise
                /\ Is(i, "mandate.intent_declared") /\ Agrees(e, i, {"intentHash", "agentId"})
                /\ Field(i, "budgetPaise") = intent.budgetPaise
        BY <2>4, <2>13, CartLogged
      <3>3. Field(e, "totalAmountPaise") <= Field(i, "budgetPaise")
        BY <2>2, <3>1, <3>2
      <3> QED BY <2>4, <3>2, <3>3 DEF Affordable
    <2>6. c.call = "submit_payment" /\ CallFits(c)
      BY <1>1 DEF StoreInvariant, JobFits, CallKnown, ClientCalls
    <2> DEFINE step == "place_order"
    <2>7. Go(w, step) /\ step = "place_order"
      BY <1>12
    <2> HIDE DEF step
    <2>8. PICK j : Moved(w, j) /\ j.step = "place_order"
      BY <2>7, Moves
    <2>9. BooksStay
      BY <2>7, Moves
    <2>10. LinksFit'
      BY <1>1, <2>9, LinksStay
    <2>11. j.step # "key_known" /\ j.step # "issue_link" /\ j.step # "apply"
      BY <2>8
    <2>12. c.token \in DOMAIN Stored("agents")
      BY <1>1, <2>3
    <2> QED BY <1>1, <2>5, <2>6, <2>8, <2>9, <2>10, <2>11, <2>12, MovesLedger
  <1> QED BY <1>2, <1>8, <1>9, <1>11, <1>12

\* A replay answers what was verified.
LEMMA ReplayLedger ==
    ASSUME StoreInvariant, ReadsInvariant, LedgerInvariant, NEW w \in Workers, ReplayOrRefuse(w)
    PROVE  LedgerInvariant'
  <1> DEFINE c == job[w].call
             payload == [agentId |-> c.token, idempotencyKey |-> c.key]
             order == db.payments[KeyOf(w)].order
             says == Refusal("IDEMPOTENCY_REUSE", TRUE)
             event == Event("payment.replayed", order, payload)
             after == "idle"
  <1>1. /\ job[w].step \notin InTx \cup {"idle"} /\ job[w].step # "idle"
        /\ UNCHANGED <<links, hooks>> /\ job[w].step = "key_known"
    BY DEF ReplayOrRefuse, InTx
  <1>2. \/ RefusePayment(w, says)
        \/ Reply(w, InternalError)
        \/ \E reply : Transact(w, {}, <<>>, <<event>>, after, reply)
    BY Zenon DEF ReplayOrRefuse
  <1>3. CASE RefusePayment(w, says)
    <2>1. says.code # NoField /\ says.recoverable # NoField
      <3>1. "IDEMPOTENCY_REUSE" \in RefusalCodes /\ TRUE \in BOOLEAN
        BY DEF RefusalCodes
      <3> QED BY <3>1, RefusalTells
    <2> HIDE DEF says
    <2> QED BY <1>1, <1>3, <2>1, RefusePaymentLedger
  <1>4. CASE Reply(w, InternalError)
    BY <1>1, <1>4, RepliesLedger
  <1>5. ASSUME NEW reply, Transact(w, {}, <<>>, <<event>>, after, reply)
        PROVE  LedgerInvariant'
    <2>1. /\ event.type = "payment.replayed" /\ Field(event, "agentId") = c.token
          /\ Field(event, "idempotencyKey") = c.key
      BY DEF Event, Field
    <2> HIDE DEF event, after
    <2>2. KeyOf(w) \in DOMAIN Stored("payments") /\ KeyOf(w) = <<c.token, c.key>>
      BY <1>1 DEF LedgerInvariant, PurchaseFits, KeyOf
    <2>3. PaymentShown(KeyOf(w), Stored("payments")[KeyOf(w)], Logged)
      BY <2>2 DEF LedgerInvariant, RowsShown, Stored
    <2>4. ReplaySound(event, Logged)
      BY <2>1, <2>2, <2>3 DEF PaymentShown, ReplaySound, Agrees
    <2>5. event.type \notin RefusalTypes /\ event.type \notin RowTypes
      BY <2>1 DEF RefusalTypes, RowTypes, PerOrder
    <2>6. Sound(event, Logged)
      BY <2>1, <2>4, <2>5 DEF Sound, Is
    <2> QED BY <1>1, <1>5, <2>5, <2>6, LogsLedger
  <1> QED BY <1>2, <1>3, <1>4, <1>5

\* An Agent's registration, and an Order's payment, as the log shows them.
LEMMA AgentLogged ==
    ASSUME StoreInvariant, LedgerInvariant, NEW g \in DOMAIN Stored("agents")
    PROVE  /\ g # NoField /\ Stored("agents")[g].capPaise \in Nat
           /\ \E r \in Entries(log) :
                 /\ r.event \in Logged /\ Is(r.event, "agent.registered")
                 /\ Field(r.event, "agentId") = g
                 /\ Field(r.event, "capPaise") = Stored("agents")[g].capPaise
  <1>1. AgentShown(g, Stored("agents")[g], Logged)
    BY DEF LedgerInvariant, RowsShown, Stored
  <1>2. PICK e \in Logged : /\ Is(e, "agent.registered") /\ Field(e, "agentId") = g
                            /\ Field(e, "capPaise") = Stored("agents")[g].capPaise
    BY <1>1 DEF AgentShown
  <1>3. RegistrationSound(e)
    BY <1>2, OnRecord DEF Sound
  <1>4. PICK r \in Entries(log) : r.event = e
    BY WrittenIs
  <1> QED BY <1>2, <1>3, <1>4 DEF RegistrationSound

\* An Order's payment is on record, with its Agent and its amount.
LEMMA OrderLogged ==
    ASSUME StoreInvariant, LedgerInvariant, NEW o \in DOMAIN Stored("orders")
    PROVE  /\ Stored("orders")[o].amountPaise \in Nat \ {0}
           /\ \E e \in Logged : /\ Is(e, "payment.verified") /\ e.order = o
                                /\ Field(e, "agentId") = Stored("orders")[o].agentId
                                /\ Field(e, "amountPaise") = Stored("orders")[o].amountPaise
  <1>1. OrderShown(o, Stored("orders")[o], Logged)
    BY DEF LedgerInvariant, RowsShown, Stored
  <1>2. PICK e \in Logged : /\ Is(e, "payment.verified") /\ e.order = o
                            /\ Field(e, "agentId") = Stored("orders")[o].agentId
                            /\ Field(e, "amountPaise") = Stored("orders")[o].amountPaise
    BY <1>1 DEF OrderShown
  <1>3. VerifiedSound(e, Logged)
    BY <1>2, OnRecord DEF Sound
  <1> QED BY <1>2, <1>3 DEF VerifiedSound

\* So there are finitely many Orders.
LEMMA OrdersFinite ==
    ASSUME StoreInvariant, LedgerInvariant
    PROVE  IsFiniteSet(DOMAIN Stored("orders"))
  <1> DEFINE S == {p \in Entries(log) : p.event.order \in DOMAIN Stored("orders")}
             orderOf == [p \in S |-> p.event.order]
  <1>1. IsFiniteSet(S)
    BY WrittenIs, FS_Subset
  <1>2. orderOf \in Surjection(S, DOMAIN Stored("orders"))
    <2>1. \A o \in DOMAIN Stored("orders") : \E p \in S : p.event.order = o
      BY OrderLogged, WrittenIs
    <2> QED BY <2>1 DEF Surjection
  <1> HIDE DEF orderOf, S
  <1> QED BY <1>1, <1>2, FS_Surjection

\* Behind the lock on an Agent's row, what it owes is what its live Orders say.
LEMMA OwedIsSpent ==
    ASSUME StoreInvariant, LedgerInvariant, NEW token, NEW q, q.seq \in Nat, q.seq > drawn,
           Field(q.event, "agentId") = token,
           NEW S, IsFiniteSet(S), S \subseteq VerifiedIn(Entries(log)), NEW W, S \subseteq W,
           \A p \in S : /\ Agrees(p.event, q.event, {"agentId"})
                        /\ p.event.order \notin Cancelled(db)
                        /\ ~ RefundedBefore(Entries(log), q.seq, p.event.order)
    PROVE  /\ Spent(token) \in Nat /\ SumFunctionOnSet(PaiseOf(W), S) \in Nat
           /\ SumFunctionOnSet(PaiseOf(W), S) <= Spent(token)
  <1> DEFINE T == {o \in DOMAIN db.orders :
                      /\ db.orders[o].agentId = token
                      /\ db.orders[o].status \notin {"cancelled", "refunded"}}
             f == PaiseOf(W)
             g == Amounts
             m == [p \in S |-> p.event.order]
  <1>0. Stored("orders") = db.orders
    BY DEF Stored, RowsOf, StoreInvariant, Tables
  <1>1. IsFiniteSet(T) /\ T \subseteq DOMAIN db.orders
    BY <1>0, OrdersFinite, FS_Subset
  <1>2. \A o \in T : g[o] \in Nat /\ g[o] = db.orders[o].amountPaise
    BY <1>0, <1>1, OrderLogged DEF Amounts
  <1>3. \A p \in S : /\ p \in Entries(log) /\ p.event \in Logged /\ Is(p.event, "payment.verified")
                     /\ f[p] = Field(p.event, "amountPaise")
    BY WrittenIs DEF VerifiedIn, PaiseOf
  <1>4. ASSUME NEW p \in S
        PROVE  /\ p.event.order \in T /\ f[p] = db.orders[p.event.order].amountPaise
    <2> DEFINE o == p.event.order
               row == Stored("orders")[o]
    <2>1. o \in DOMAIN Stored("orders")
      <3>1. EventKept(p.event, db)
        BY <1>3 DEF LedgerInvariant
      <3> QED BY <1>3, <3>1 DEF EventKept, Stored, Is, PerOrder
    <2>2. PICK e \in Logged : /\ Is(e, "payment.verified") /\ e.order = o
                              /\ Field(e, "agentId") = row.agentId
                              /\ Field(e, "amountPaise") = row.amountPaise
      BY <2>1, OrderLogged
    <2>3. e = p.event
      <3>1. Same(e, p.event)
        BY <1>3, <2>2 DEF Same, Is, PerOrder
      <3> QED BY <1>3, <3>1, OnRecord
    <2>4. row.agentId = token
      BY <2>2, <2>3 DEF Agrees
    <2>5. row.status # "cancelled"
      BY <2>1 DEF Cancelled, Stored
    <2>6. row.status # "refunded"
      <3> SUFFICES ASSUME row.status = "refunded" PROVE FALSE
        OBVIOUS
      <3>1. OrderShown(o, row, Logged)
        BY <2>1 DEF LedgerInvariant, RowsShown, Stored
      <3>2. PICK x \in Logged : Is(x, "order.refunded") /\ x.order = o
        BY <3>1 DEF OrderShown
      <3>3. PICK r \in Entries(log) : r.event = x
        BY WrittenIs
      <3>4. r.seq \in 1 .. drawn /\ drawn \in Nat
        BY <3>3, WrittenIs DEF StoreInvariant, Numbers
      <3>5. r.seq < q.seq
        BY <3>4
      <3> QED BY <3>2, <3>3, <3>5 DEF RefundedBefore
    <2> QED BY <1>0, <1>3, <2>1, <2>2, <2>3, <2>4, <2>5, <2>6
  <1>5. m \in [S -> T]
    BY <1>4
  <1>6. \A p, r \in S : m[p] = m[r] => p = r
    <2> SUFFICES ASSUME NEW p \in S, NEW r \in S, p.event.order = r.event.order PROVE p = r
      OBVIOUS
    <2>1. Same(p.event, r.event)
      BY <1>3 DEF Same, Is, PerOrder
    <2>2. p \in Written /\ r \in Written
      BY <1>3, WrittenIs
    <2> QED BY <2>1, <2>2 DEF LedgerInvariant, Once
  <1>7. \A p \in S : f[p] \in Nat /\ f[p] = g[m[p]] /\ f[p] <= g[m[p]]
    BY <1>2, <1>4
  <1> HIDE DEF f, g, m
  <1>8. /\ SumFunctionOnSet(f, S) \in Nat /\ SumFunctionOnSet(g, T) \in Nat
        /\ SumFunctionOnSet(f, S) <= SumFunctionOnSet(g, T)
    BY <1>1, <1>2, <1>5, <1>6, <1>7, SumMapped, SumIsNat
  <1> QED BY <1>8 DEF f, g, Spent

\* So a payment verified within the Cap leaves its Agent within it.
LEMMA PlacedWithinCap ==
    ASSUME StoreInvariant, LedgerInvariant, NEW w \in Workers, job[w].tx = NoTx,
           NEW token, Free(w, {<<"agents", token>>}), NEW cap \in Nat,
           NEW W, IsFiniteSet(W), NEW q \in W, q.seq \in Nat, q.seq > drawn,
           VerifiedIn(W) \subseteq Written \cup {q},
           Field(q.event, "agentId") = token, Field(q.event, "amountPaise") \in Nat,
           Spent(token) + Field(q.event, "amountPaise") <= cap
    PROVE  SumFunctionOnSet(PaiseOf(W), Counting(W, Entries(log), Cancelled(db), q)) <= cap
  <1> DEFINE C == Counting(W, Entries(log), Cancelled(db), q)
             S == C \ {q}
             f == PaiseOf(W)
  <1>1. /\ C \subseteq VerifiedIn(W) /\ VerifiedIn(W) \subseteq W
        /\ \A p \in C : /\ Agrees(p.event, q.event, {"agentId"})
                        /\ p.event.order \notin Cancelled(db)
                        /\ ~ RefundedBefore(Entries(log), q.seq, p.event.order)
    BY DEF Counting, VerifiedIn
  <1> HIDE DEF C
  <1>2. IsFiniteSet(C) /\ IsFiniteSet(S) /\ S \subseteq W
    BY <1>1, FS_Subset
  <1>3. S \subseteq VerifiedIn(Entries(log))
    <2> SUFFICES ASSUME NEW p \in S PROVE p \in VerifiedIn(Entries(log))
      OBVIOUS
    <2>1. p \in Written /\ Is(p.event, "payment.verified")
      BY <1>1 DEF VerifiedIn
    <2>2. p \in Entries(log)
      <3> SUFFICES ASSUME p \notin Entries(log) PROVE FALSE
        OBVIOUS
      <3>1. PICK v \in Workers : p \in Entries(job[v].tx.events)
        BY <2>1 DEF Written
      <3>2. p.event \in Pending(v)
        BY <3>1 DEF Entries, Pending
      <3>3. v # w
        BY <3>2, EmptyTx
      <3>4. <<"agents", Field(p.event, "agentId")>> \in job[v].tx.locks
        BY <2>1, <3>2 DEF LedgerInvariant, EventsFit, EventLocked, Is
      <3>5. Field(p.event, "agentId") = token
        BY <1>1 DEF Agrees
      <3> QED BY <3>3, <3>4, <3>5 DEF Free
    <2> QED BY <2>1, <2>2 DEF VerifiedIn
  <1>4. /\ Spent(token) \in Nat /\ SumFunctionOnSet(f, S) \in Nat
        /\ SumFunctionOnSet(f, S) <= Spent(token)
    BY <1>1, <1>2, <1>3, OwedIsSpent
  <1>5. f[q] = Field(q.event, "amountPaise")
    BY DEF PaiseOf
  <1> HIDE DEF f
  <1>6. CASE q \notin C
    <2>1. S = C
      BY <1>6
    <2> QED BY <1>4, <2>1 DEF C, f
  <1>7. CASE q \in C
    <2>1. \A p \in C : f[p] \in Nat
      <3>1. \A p \in S : p \in VerifiedIn(Written)
        BY <1>1, <1>3, WrittenIs DEF VerifiedIn
      <3>2. \A p \in S : Field(p.event, "amountPaise") \in Nat
        BY <3>1, WrittenSays DEF LedgerInvariant
      <3>3. \A p \in S : f[p] = Field(p.event, "amountPaise")
        BY <1>2 DEF f, PaiseOf
      <3> QED BY <1>5, <3>2, <3>3
    <2>2. SumFunctionOnSet(f, C) = SumFunctionOnSet(f, S) + f[q]
      BY <1>2, <1>7, <2>1, SumWithout
    <2>3. SumFunctionOnSet(f, C) <= cap
      BY <1>4, <1>5, <2>2
    <2> QED BY <2>3 DEF C, f
  <1> QED BY <1>6, <1>7

\* The event of a payment that passed the gate.
PaymentOf(c, cart, verified) ==
    /\ verified.type = "payment.verified" /\ verified.order = c.order
    /\ Field(verified, "agentId") = c.token /\ Field(verified, "idempotencyKey") = c.key
    /\ Field(verified, "intentHash") = cart.intent /\ Field(verified, "cartHash") = c.cart
    /\ Field(verified, "paymentHash") = PaymentHash(c)
    /\ Field(verified, "amountPaise") = cart.totalPaise

\* It rests on the registration, the Intent and the Cart on record.
LEMMA PlacedSound ==
    ASSUME StoreInvariant, LedgerInvariant, NEW w \in Workers, job[w].step = "place_order",
           NEW verified, PaymentOf(job[w].call, Stored("carts")[job[w].call.cart], verified)
    PROVE  /\ Sound(verified, Logged)
           /\ job[w].call.cart \in DOMAIN Stored("carts")
           /\ Stored("carts")[job[w].call.cart].agentId = job[w].call.token
           /\ Stored("carts")[job[w].call.cart].totalPaise \in Nat \ {0}
  <1> DEFINE c == job[w].call
             cart == Stored("carts")[c.cart]
  <1>1. /\ c.call = "submit_payment" /\ CallFits(c) /\ Affordable(c)
        /\ c.token \in DOMAIN Stored("agents")
    BY DEF LedgerInvariant, PurchaseFits
  <1>2. NoField \notin {c.key, PaymentHash(c), c.order}
    BY <1>1 DEF CallFits
  <1>3. PICK k, i \in Logged :
            /\ Is(k, "mandate.cart_created") /\ Is(i, "mandate.intent_declared")
            /\ Field(k, "cartHash") = c.cart /\ Agrees(k, i, {"intentHash", "agentId"})
            /\ Field(k, "agentId") = c.token
            /\ Field(k, "totalAmountPaise") <= Field(i, "budgetPaise")
    BY <1>1 DEF Affordable
  <1>4. c.cart \in DOMAIN Stored("carts")
    <2>1. EventKept(k, db)
      BY DEF LedgerInvariant
    <2> QED BY <1>3, <2>1 DEF EventKept, Stored
  <1> HIDE DEF c
  <1>5. PICK e \in Logged :
            /\ Is(e, "mandate.cart_created") /\ Field(e, "cartHash") = c.cart
            /\ Field(e, "agentId") = cart.agentId /\ Field(e, "intentHash") = cart.intent
            /\ Field(e, "totalAmountPaise") = cart.totalPaise
    BY <1>4, CartLogged
  <1>6. cart.totalPaise \in Nat \ {0}
    BY <1>4, CartLogged
  <1>7. PaymentOf(c, cart, verified)
    BY DEF c
  <1> HIDE DEF cart
  <1>8. e = k
    <2>1. Same(e, k)
      BY <1>3, <1>5 DEF Same, Is, Agrees
    <2> QED BY <2>1, OnRecord
  <1>9. cart.agentId = c.token
    BY <1>3, <1>5, <1>8
  <1>10. c.token # NoField /\ \E r \in Logged : Is(r, "agent.registered") /\ Agrees(r, verified, {"agentId"})
    <2>1. /\ c.token # NoField
          /\ \E r \in Entries(log) : /\ r.event \in Logged /\ Is(r.event, "agent.registered")
                                     /\ Field(r.event, "agentId") = c.token
      BY <1>1, AgentLogged DEF c
    <2> QED BY <1>7, <2>1 DEF PaymentOf, Agrees
  <1>11. \E x \in Logged : /\ Is(x, "mandate.intent_declared")
                           /\ Agrees(x, verified, {"intentHash", "agentId"})
                           /\ Field(verified, "amountPaise") <= Field(x, "budgetPaise")
    <2>1. Agrees(i, verified, {"intentHash", "agentId"})
      BY <1>3, <1>5, <1>7, <1>8 DEF PaymentOf, Agrees
    <2>2. Field(verified, "amountPaise") <= Field(i, "budgetPaise")
      BY <1>3, <1>5, <1>7, <1>8 DEF PaymentOf
    <2> QED BY <1>3, <2>1, <2>2
  <1>12. \E x \in Logged : /\ Is(x, "mandate.cart_created")
                           /\ Agrees(x, verified, {"cartHash", "intentHash", "agentId"})
                           /\ Field(x, "totalAmountPaise") = Field(verified, "amountPaise")
    <2>1. Agrees(e, verified, {"cartHash", "intentHash", "agentId"})
      BY <1>5, <1>7, <1>9 DEF PaymentOf, Agrees
    <2> QED BY <1>5, <1>7, <2>1 DEF PaymentOf
  <1>13. VerifiedSound(verified, Logged)
    <2>1. /\ verified.order # NoField
          /\ NoField \notin {Field(verified, f) : f \in {"agentId", "idempotencyKey", "paymentHash"}}
      BY <1>2, <1>7, <1>10 DEF PaymentOf, c
    <2>2. Field(verified, "amountPaise") \in Nat \ {0}
      BY <1>6, <1>7 DEF PaymentOf
    <2> QED BY <1>10, <1>11, <1>12, <2>1, <2>2 DEF VerifiedSound
  <1>14. verified.type \notin RefusalTypes
    BY <1>7 DEF RefusalTypes, PaymentOf
  <1>15. Sound(verified, Logged)
    BY <1>7, <1>13, <1>14 DEF Sound, Is, PaymentOf
  <1> QED BY <1>4, <1>6, <1>9, <1>15 DEF c, cart

\* Its key was not used, and its Order is a new one.
LEMMA PlacedIsNew ==
    ASSUME StoreInvariant, LedgerInvariant, NEW c, NEW cart, NEW verified,
           PaymentOf(c, cart, verified), <<c.token, c.key>> \notin DOMAIN Stored("payments"),
           c.order \notin DOMAIN Stored("orders")
    PROVE  \A f \in Logged : ~ Same(verified, f)
  <1> SUFFICES ASSUME NEW f \in Logged, Same(verified, f) PROVE FALSE
    OBVIOUS
  <1>1. EventKept(f, db)
    BY DEF LedgerInvariant
  <1>2. Is(f, "payment.verified")
    BY DEF Same, Is, PaymentOf
  <1>3. \/ f.order = c.order
        \/ Field(f, "agentId") = c.token /\ Field(f, "idempotencyKey") = c.key
    BY DEF Same, Is, Agrees, PaymentOf, PerOrder
  <1>4. /\ <<Field(f, "agentId"), Field(f, "idempotencyKey")>> \in DOMAIN Stored("payments")
        /\ f.order \in DOMAIN Stored("orders")
    BY <1>1, <1>2 DEF EventKept, Stored, Is, PerOrder
  <1> QED BY <1>3, <1>4

\* The rows that go with it.
PaidRows(c, key, cart, rows) ==
    /\ DOMAIN rows = {"orders", "intents", "carts", "payments"}
    /\ DOMAIN rows["orders"] = {c.order} /\ DOMAIN rows["intents"] = {cart.intent}
    /\ DOMAIN rows["carts"] = {c.cart} /\ DOMAIN rows["payments"] = {key}
    /\ {"agentId", "amountPaise", "status", "link"} \subseteq DOMAIN rows["orders"][c.order]
    /\ rows["orders"][c.order].status = "created" /\ rows["orders"][c.order].link = FALSE
    /\ rows["orders"][c.order].agentId = c.token
    /\ rows["orders"][c.order].amountPaise = cart.totalPaise
    /\ rows["payments"][key].cart = c.cart /\ rows["payments"][key].order = c.order
    /\ rows["payments"][key].hash = PaymentHash(c)
    /\ DOMAIN rows["carts"][c.cart] = DOMAIN cart
    /\ \A f \in {"agentId", "intent", "totalPaise"} : rows["carts"][c.cart][f] = cart[f]
    /\ DOMAIN rows["intents"][cart.intent] = DOMAIN Stored("intents")[cart.intent]
    /\ \A f \in {"agentId", "budgetPaise"} :
          rows["intents"][cart.intent][f] = Stored("intents")[cart.intent][f]

\* The rows a placed Order writes follow from its verified payment.
LEMMA PlacedFollows ==
    ASSUME StoreInvariant, LedgerInvariant, NEW c, c.cart \in DOMAIN Stored("carts"),
           NEW verified, PaymentOf(c, Stored("carts")[c.cart], verified),
           NEW rows, PaidRows(c, <<c.token, c.key>>, Stored("carts")[c.cart], rows),
           c.order \notin DOMAIN Stored("orders"), NEW events, verified \in EventsOf(events)
    PROVE  RowsFollow(rows, events)
  <1> DEFINE cart == Stored("carts")[c.cart]
             intent == Stored("intents")[cart.intent]
             key == <<c.token, c.key>>
             all == Logged \cup EventsOf(events)
             placed == RowsOf(rows, "orders")[c.order]
             signed == RowsOf(rows, "carts")[c.cart]
             consumed == RowsOf(rows, "intents")[cart.intent]
             payment == RowsOf(rows, "payments")[key]
  <1>1. /\ RowsOf(rows, "orders") = rows["orders"] /\ RowsOf(rows, "payments") = rows["payments"]
        /\ RowsOf(rows, "carts") = rows["carts"] /\ RowsOf(rows, "intents") = rows["intents"]
        /\ DOMAIN RowsOf(rows, "agents") = {}
    BY NothingFits DEF RowsOf, PaidRows
  <1>2. /\ DOMAIN RowsOf(rows, "orders") = {c.order} /\ DOMAIN RowsOf(rows, "intents") = {cart.intent}
        /\ DOMAIN RowsOf(rows, "carts") = {c.cart} /\ DOMAIN RowsOf(rows, "payments") = {key}
    BY <1>1 DEF PaidRows
  <1>3. /\ {"agentId", "amountPaise", "status", "link"} \subseteq DOMAIN placed
        /\ placed.status = "created" /\ placed.link = FALSE /\ placed.agentId = c.token
        /\ placed.amountPaise = cart.totalPaise
    BY <1>1 DEF PaidRows
  <1>4. payment.cart = c.cart /\ payment.order = c.order /\ payment.hash = PaymentHash(c)
    BY <1>1 DEF PaidRows
  <1>5. /\ DOMAIN signed = DOMAIN cart /\ signed.agentId = cart.agentId
        /\ signed.intent = cart.intent /\ signed.totalPaise = cart.totalPaise
    BY <1>1 DEF PaidRows
  <1>6. /\ DOMAIN consumed = DOMAIN intent /\ consumed.agentId = intent.agentId
        /\ consumed.budgetPaise = intent.budgetPaise
    BY <1>1 DEF PaidRows
  <1>7. verified \in all /\ Logged \subseteq all
    OBVIOUS
  <1>8. CartShown(c.cart, cart, Logged)
    BY DEF LedgerInvariant, RowsShown, Stored
  <1>9. cart.intent \in DOMAIN Stored("intents")
    BY CartLogged
  <1>10. IntentShown(cart.intent, intent, Logged)
    BY <1>9 DEF LedgerInvariant, RowsShown, Stored
  <1>11. key[1] = c.token /\ key[2] = c.key /\ PaymentOf(c, cart, verified)
    OBVIOUS
  <1> HIDE DEF placed, signed, consumed, payment, cart, intent, all
  <1>12. CartShown(c.cart, signed, all)
    <2>1. CartShown(c.cart, signed, Logged)
      BY <1>5, <1>8 DEF CartShown
    <2> QED BY <1>7, <2>1 DEF CartShown
  <1>13. IntentShown(cart.intent, consumed, all)
    <2>1. IntentShown(cart.intent, consumed, Logged)
      BY <1>6, <1>10 DEF IntentShown
    <2> QED BY <1>7, <2>1 DEF IntentShown
  <1>14. PaymentShown(key, payment, all)
    BY <1>4, <1>7, <1>11 DEF PaymentShown, PaymentOf, Is
  <1>15. OrderShown(c.order, placed, all)
    <2>1. placed.status \notin Settled /\ placed.status # "refunded"
      BY <1>3 DEF Settled
    <2> QED BY <1>3, <1>7, <1>11, <2>1 DEF OrderShown, PaymentOf, Is
  <1> HIDE DEF key
  <1>16. RowsShown(rows, all)
    BY <1>1, <1>2, <1>12, <1>13, <1>14, <1>15
       DEF RowsShown, placed, signed, consumed, payment
  <1> QED BY <1>2, <1>3, <1>16 DEF RowsFollow, all, placed

\* What counts against a Cap is a number of paise.
LEMMA SpentIsInt ==
    ASSUME StoreInvariant, LedgerInvariant, NEW token
    PROVE  Spent(token) \in Int
  <1> DEFINE T == {o \in DOMAIN db.orders :
                      /\ db.orders[o].agentId = token
                      /\ db.orders[o].status \notin {"cancelled", "refunded"}}
             g == Amounts
  <1>1. Stored("orders") = db.orders
    BY DEF Stored, RowsOf, StoreInvariant, Tables
  <1>2. IsFiniteSet(T) /\ T \subseteq DOMAIN db.orders
    BY <1>1, OrdersFinite, FS_Subset
  <1>3. \A o \in T : g[o] \in Nat
    BY <1>1, <1>2, OrderLogged DEF Amounts
  <1> HIDE DEF g
  <1>4. SumFunctionOnSet(g, T) \in Nat
    BY <1>2, <1>3, SumIsNat
  <1> QED BY <1>4 DEF g, Spent

\* The transaction of the Order leaves its Agent within the Cap.
LEMMA PlacedLedger ==
    ASSUME StoreInvariant, ReadsInvariant, LedgerInvariant, NEW w \in Workers,
           NEW rows, NEW verified, NEW created, NEW after, NEW reply,
           Transact(w, {<<"agents", job[w].call.token>>, <<"orders", job[w].call.order>>}, rows,
                    <<verified, created>>, after, reply),
           UNCHANGED <<links, hooks>>, job[w].step = "place_order",
           KeyOf(w) \notin DOMAIN Stored("payments"),
           job[w].call.order \notin DOMAIN Stored("orders"),
           PaymentOf(job[w].call, Stored("carts")[job[w].call.cart], verified),
           PaidRows(job[w].call, KeyOf(w), Stored("carts")[job[w].call.cart], rows),
           created.type = "order.created",
           Spent(job[w].call.token) + Stored("carts")[job[w].call.cart].totalPaise
               <= Stored("agents")[job[w].call.token].capPaise
    PROVE  LedgerInvariant'
  <1> DEFINE c == job[w].call
             cart == Stored("carts")[c.cart]
             locks == {<<"agents", c.token>>, <<"orders", c.order>>}
             events == <<verified, created>>
             step == "commit"
             q == [seq |-> drawn + 1, event |-> verified]
             cap == Stored("agents")[c.token].capPaise
  <1>1. job[w].step \notin InTx \cup {"idle"}
    BY DEF InTx
  <1>2. Execute(w, locks, rows, events, step, after, reply) /\ step \in {"commit", "fulfil"}
    BY DEF Transact
  <1>3. Len(events) = 2 /\ Len(events) \in Nat /\ events[1] = verified /\ events[2] = created
    OBVIOUS
  <1>4. Free(w, {<<"agents", c.token>>}) /\ job[w].tx = NoTx
    <2>1. Free(w, locks)
      BY <1>2 DEF Execute
    <2>2. job[w].tx = NoTx
      <3> HIDE DEF locks, events, step
      <3> QED BY <1>1, <1>2, <1>3, FirstWrites
    <2> QED BY <2>1, <2>2 DEF Free
  <1>5. KeyOf(w) = <<c.token, c.key>> /\ c.token \in DOMAIN Stored("agents")
    BY DEF KeyOf, LedgerInvariant, PurchaseFits
  <1>6. PaymentOf(c, cart, verified) /\ PaidRows(c, KeyOf(w), cart, rows)
    OBVIOUS
  <1>7. /\ Sound(verified, Logged) /\ c.cart \in DOMAIN Stored("carts")
        /\ cart.totalPaise \in Nat \ {0}
    BY PlacedSound
  <1>8. Spent(c.token) + cart.totalPaise <= cap
    OBVIOUS
  <1>9. KeyOf(w) \notin DOMAIN Stored("payments") /\ c.order \notin DOMAIN Stored("orders")
    OBVIOUS
  <1>18. q.seq = drawn + 1 /\ q.event = verified /\ q \in Inserted(events)
    <2>1. 1 \in 1 .. Len(events)
      BY <1>3
    <2> QED BY <1>3, <2>1 DEF Inserted
  <1>10. /\ <<"agents", c.token>> \in locks /\ <<"orders", c.order>> \in locks
         /\ created.type = "order.created"
    OBVIOUS
  <1>11. \A i \in 1 .. Len(events) : (i = 1 /\ events[i] = verified) \/ (i = 2 /\ events[i] = created)
    <2> DEFINE n == Len(events)
    <2>1. n = 2 /\ events[1] = verified /\ events[2] = created
      BY <1>3
    <2> HIDE DEF n, events
    <2>2. \A i \in 1 .. n : (i = 1 /\ events[i] = verified) \/ (i = 2 /\ events[i] = created)
      <3>1. \A i \in 1 .. n : i = 1 \/ i = 2
        BY <2>1
      <3> QED BY Zenon, <2>1, <3>1
    <2> QED BY <2>2 DEF n
  <1> HIDE DEF c, cart, locks, events, step, q, cap
  <1>12. /\ Sound(created, Logged) /\ created.type \notin RowTypes
    <2>1. Silent(created)
      BY <1>10 DEF Silent, RowTypes, PerOrder, RefusalTypes
    <2> QED BY <2>1, SilentIsSound
  <1>13. \A f \in Logged : ~ Same(verified, f)
    BY <1>5, <1>6, <1>9, PlacedIsNew
  <1>14. RowsFollow(rows, events)
    <2>1. verified \in EventsOf(events)
      <3>1. 1 \in 1 .. Len(events)
        BY <1>3
      <3> QED BY <1>3, <3>1 DEF EventsOf
    <2> QED BY <1>5, <1>6, <1>7, <1>9, <2>1, PlacedFollows DEF cart
  <1>15. EventsFollow(locks, rows, events)
    <2>1. EventKept(verified, rows)
      <3>1. /\ RowsOf(rows, "orders") = rows["orders"] /\ RowsOf(rows, "payments") = rows["payments"]
            /\ DOMAIN rows["orders"] = {c.order} /\ DOMAIN rows["payments"] = {KeyOf(w)}
        BY <1>6 DEF RowsOf, PaidRows
      <3> QED BY <1>5, <1>6, <3>1 DEF EventKept, PaymentOf, Is, PerOrder
    <2>2. EventLocked(verified, locks)
      BY <1>6, <1>10 DEF EventLocked, PaymentOf, Is, PerOrder
    <2>3. ~ Same(verified, created) /\ ~ Same(created, verified)
      BY <1>12, NotOnce
    <2>4. /\ EventKept(created, rows) /\ EventLocked(created, locks)
          /\ \A f \in Logged : ~ Same(created, f)
      BY <1>12, NotOnce
    <2>5. \A i \in 1 .. Len(events) :
              /\ Sound(events[i], Logged)
              /\ EventKept(events[i], rows) /\ EventLocked(events[i], locks)
              /\ \A f \in Logged : ~ Same(events[i], f)
      BY <1>7, <1>11, <1>12, <1>13, <2>1, <2>2, <2>4
    <2>6. \A i, j \in 1 .. Len(events) : Same(events[i], events[j]) => i = j
      BY <1>11, <2>3
    <2> QED BY <2>5, <2>6 DEF EventsFollow
  <1>16. CapNext(events)
    <2>1. /\ EventsFit(w)' /\ RowsGoOn(w)'
          /\ \A i \in 1 .. Len(events) : \A f \in Events(w) : ~ Same(events[i], f)
      BY <1>1, <1>2, <1>3, <1>14, <1>15, FirstFit
    <2>2. /\ \A i \in 1 .. Len(events) : Sound(events[i], Logged)
          /\ \A i, j \in 1 .. Len(events) : Same(events[i], events[j]) => i = j
      BY <1>15 DEF EventsFollow
    <2>3. Written' = Written \cup Inserted(events) /\ Once(Written)'
      BY <1>2, <1>3, <2>1, <2>2, ExecuteWrites
    <2>4. \A p \in Inserted(events) :
              p = q \/ p.event = created
      BY <1>11 DEF Inserted, q
    <2>5. PICK r \in Entries(log) : /\ Is(r.event, "agent.registered")
                                    /\ Field(r.event, "agentId") = c.token
                                    /\ Field(r.event, "capPaise") = cap
      BY <1>5, AgentLogged DEF cap
    <2>6. cap \in Nat
      BY <1>5, AgentLogged DEF cap
    <2>7. r \in Written'
      BY <2>3, <2>5, WrittenIs
    <2>8. IsFiniteSet(Written')
      <3>1. IsFiniteSet(Inserted(events))
        <4> DEFINE n == Len(events)
                   put == [i \in 1 .. n |-> [seq |-> drawn + i, event |-> events[i]]]
        <4>1. n \in Nat /\ IsFiniteSet(1 .. n)
          <5>1. n \in Nat
            BY <1>3
          <5> HIDE DEF n
          <5> QED BY <5>1, FS_Interval
        <4>2. Inserted(events) = {put[i] : i \in 1 .. n}
          BY DEF Inserted
        <4>3. put \in Surjection(1 .. n, Inserted(events))
          BY <4>2 DEF Surjection
        <4> HIDE DEF put
        <4> QED BY <4>1, <4>3, FS_Surjection
      <3>2. IsFiniteSet(Written)
        BY WrittenIs
      <3> QED BY <2>3, <3>1, <3>2, FS_Union
    <2> DEFINE W == Written'
    <2>9. q \in W /\ q.seq \in Nat /\ q.seq > drawn
      BY <1>18, <2>3 DEF StoreInvariant, Numbers
    <2>10. VerifiedIn(W) \subseteq Written \cup {q}
      <3>1. ~ Is(created, "payment.verified")
        BY <1>10 DEF Is
      <3> QED BY <2>3, <2>4, <3>1 DEF VerifiedIn
    <2>11. /\ Field(q.event, "agentId") = c.token /\ Field(q.event, "amountPaise") = cart.totalPaise
      BY <1>6, <1>18 DEF PaymentOf
    <2>12. IsFiniteSet(W) /\ W = Written'
      BY <2>8
    <2> HIDE DEF W
    <2>13. SumFunctionOnSet(PaiseOf(W), Counting(W, Entries(log), Cancelled(db), q)) <= cap
      <3>1. Field(q.event, "amountPaise") \in Nat
        BY <1>7, <2>11
      <3>2. Spent(c.token) + Field(q.event, "amountPaise") <= cap
        BY <1>8, <2>11
      <3> DEFINE token == c.token
      <3>3. Field(q.event, "agentId") = token /\ Free(w, {<<"agents", token>>})
        BY <1>4, <2>11
      <3>4. Spent(token) + Field(q.event, "amountPaise") <= cap
        BY <3>2
      <3> HIDE DEF token
      <3> QED BY <1>4, <2>6, <2>9, <2>10, <2>12, <3>1, <3>3, <3>4, PlacedWithinCap
    <2>14. ASSUME NEW p \in Inserted(events), NEW x \in Written', Is(p.event, "payment.verified"),
                  Is(x.event, "agent.registered"), Agrees(x.event, p.event, {"agentId"})
           PROVE  SumFunctionOnSet(PaiseOf(Written'),
                                   Counting(Written', Entries(log), Cancelled(db), p))
                      <= Field(x.event, "capPaise")
      <3>1. p = q
        BY <1>10, <2>4, <2>14 DEF Is
      <3>2. Same(x.event, r.event)
        BY <2>5, <2>11, <2>14, <3>1 DEF Same, Is, Agrees
      <3>3. x = r
        BY <2>3, <2>7, <3>2 DEF Once
      <3> QED BY <2>5, <2>12, <2>13, <3>1, <3>3
    <2> QED BY <2>14 DEF CapNext
  <1> QED BY <1>1, <1>2, <1>3, <1>14, <1>15, <1>16, FirstLedger

\* The transaction of the Order, a Refusal, or the other request's key.
LEMMA PlaceOrderLedger ==
    ASSUME StoreInvariant, ReadsInvariant, LedgerInvariant, NEW w \in Workers, PlaceOrder(w)
    PROVE  LedgerInvariant'
  <1> DEFINE c == job[w].call
             cart == db.carts[c.cart]
             order == [agentId |-> c.token, items |-> cart.items, amountPaise |-> cart.totalPaise,
                       status |-> "created", link |-> FALSE, gatewayOrderId |-> NoField,
                       gatewayPaymentId |-> NoField, declined |-> {}, shortfall |-> {},
                       cancellationReason |-> NoField, refundReason |-> NoField]
             intent == [db.intents[cart.intent] EXCEPT !.consumedBy = c.order]
             signed == [cart EXCEPT !.signed = TRUE]
             payment == [cart |-> c.cart, order |-> c.order, hash |-> PaymentHash(c)]
             rows == [orders |-> Entry(c.order, order), intents |-> Entry(cart.intent, intent),
                      carts |-> Entry(c.cart, signed), payments |-> Entry(KeyOf(w), payment)]
             locks == {<<"agents", c.token>>, <<"orders", c.order>>}
             verified == Event("payment.verified", c.order,
                               [agentId |-> c.token, intentHash |-> cart.intent,
                                cartHash |-> c.cart, paymentHash |-> PaymentHash(c),
                                amountPaise |-> cart.totalPaise, idempotencyKey |-> c.key])
             created == Event("order.created", c.order,
                              [agentId |-> c.token, cartHash |-> c.cart,
                               amountPaise |-> cart.totalPaise])
             over == Spent(c.token) + cart.totalPaise > db.agents[c.token].capPaise
             consumed == db.intents[cart.intent].consumedBy # NoField
             checks == <<Check(over, Refusal("OVER_CAP", FALSE)),
                         Check(consumed, Refusal("INTENT_CONSUMED", TRUE))>>
             says == FirstObjection(checks)
             after == "attempt_link"
  <1>1. /\ job[w].step \notin InTx \cup {"idle"} /\ job[w].step # "idle"
        /\ UNCHANGED <<links, hooks>> /\ job[w].step = "place_order"
    BY DEF PlaceOrder, InTx
  <1>2. \/ says # NoField /\ RefusePayment(w, says)
        \/ KeyOf(w) \in DOMAIN db.payments /\ Go(w, "key_known")
        \/ /\ says = NoField
           /\ KeyOf(w) \notin DOMAIN db.payments /\ c.order \notin DOMAIN db.orders
           /\ Transact(w, locks, rows, <<verified, created>>, after, NoField)
    BY Zenon DEF PlaceOrder
  <1>3. ~over => ~(Spent(c.token) + cart.totalPaise > db.agents[c.token].capPaise)
    OBVIOUS
  <1> HIDE DEF over, consumed
  <1>4. /\ checks[1] = Check(over, Refusal("OVER_CAP", FALSE))
        /\ checks[2] = Check(consumed, Refusal("INTENT_CONSUMED", TRUE))
        /\ DOMAIN checks = 1 .. 2
    OBVIOUS
  <1>5. \A when, x : Check(when, x).says = x
    BY DEF Check
  <1>6. ~ checks[1].when => ~over
    BY DEF Check
  <1> HIDE DEF checks
  <1>7. \A i \in 1 .. 2 : /\ checks[i].says.code # NoField /\ checks[i].says.recoverable # NoField
                          /\ checks[i].says # NoField
    <2>1. \A code \in RefusalCodes, recoverable \in BOOLEAN :
              /\ Refusal(code, recoverable).code # NoField
              /\ Refusal(code, recoverable).recoverable # NoField
              /\ Refusal(code, recoverable) # NoField
      BY RefusalTells, LedgerAssumption
    <2>2. {"OVER_CAP", "INTENT_CONSUMED"} \subseteq RefusalCodes
      BY DEF RefusalCodes
    <2>3. \A i \in 1 .. 2 : i = 1 \/ i = 2
      OBVIOUS
    <2>4. /\ checks[1].says = Refusal("OVER_CAP", FALSE)
          /\ checks[2].says = Refusal("INTENT_CONSUMED", TRUE)
      BY <1>4, <1>5
    <2>5. TRUE \in BOOLEAN /\ FALSE \in BOOLEAN
      OBVIOUS
    <2> DEFINE told(x) == x.code # NoField /\ x.recoverable # NoField /\ x # NoField
    <2>6. told(checks[1].says) /\ told(checks[2].says)
      BY Zenon, <2>1, <2>2, <2>4, <2>5
    <2> HIDE DEF told
    <2>7. \A i \in 1 .. 2 : told(checks[i].says)
      BY <2>3, <2>6
    <2> QED BY <2>7 DEF told
  <1>8. CASE says # NoField /\ RefusePayment(w, says)
    <2>1. \E i \in 1 .. 2 : says = checks[i].says
      BY <1>4, <1>8, SaysOne
    <2> HIDE DEF says
    <2> QED BY <1>1, <1>7, <1>8, <2>1, RefusePaymentLedger
  <1>9. CASE KeyOf(w) \in DOMAIN db.payments /\ Go(w, "key_known")
    <2> DEFINE step == "key_known"
    <2>1. Go(w, step) /\ step = "key_known"
      BY <1>9
    <2> HIDE DEF step
    <2>2. PICK j : Moved(w, j) /\ j.step = "key_known"
      BY <2>1, Moves
    <2>3. BooksStay
      BY <2>1, Moves
    <2>4. LinksFit'
      BY <1>1, <2>3, LinksStay
    <2>5. KeyOf(w) \in DOMAIN Stored("payments")
      BY <1>9 DEF Stored, RowsOf, StoreInvariant, Tables
    <2> QED BY <1>1, <2>2, <2>3, <2>4, <2>5, MovesLedger
  <1>10. CASE /\ says = NoField
              /\ KeyOf(w) \notin DOMAIN db.payments /\ c.order \notin DOMAIN db.orders
              /\ Transact(w, locks, rows, <<verified, created>>, after, NoField)
    <2>1. /\ Stored("carts") = db.carts /\ Stored("intents") = db.intents
          /\ Stored("agents") = db.agents /\ Stored("orders") = db.orders
          /\ Stored("payments") = db.payments
      BY DEF Stored, RowsOf, StoreInvariant, Tables
    <2>2. PaymentOf(c, cart, verified) /\ created.type = "order.created"
      BY DEF Event, Field, PaymentOf
    <2>3. /\ DOMAIN rows = {"orders", "intents", "carts", "payments"}
          /\ rows["orders"] = Entry(c.order, order) /\ rows["intents"] = Entry(cart.intent, intent)
          /\ rows["carts"] = Entry(c.cart, signed) /\ rows["payments"] = Entry(KeyOf(w), payment)
      OBVIOUS
    <2>4. /\ {"agentId", "amountPaise", "status", "link"} \subseteq DOMAIN order
          /\ order.status = "created" /\ order.link = FALSE
          /\ order.agentId = c.token /\ order.amountPaise = cart.totalPaise
      OBVIOUS
    <2>5. payment.cart = c.cart /\ payment.order = c.order /\ payment.hash = PaymentHash(c)
      OBVIOUS
    <2>6. /\ DOMAIN signed = DOMAIN cart
          /\ \A f \in {"agentId", "intent", "totalPaise"} : signed[f] = cart[f]
          /\ DOMAIN intent = DOMAIN db.intents[cart.intent]
          /\ \A f \in {"agentId", "budgetPaise"} : intent[f] = db.intents[cart.intent][f]
      <3>1. DOMAIN signed = DOMAIN cart /\ DOMAIN intent = DOMAIN db.intents[cart.intent]
        OBVIOUS
      <3>2. c.cart \in DOMAIN RowsOf(db, "carts")
        BY <1>1 DEF StoreInvariant, JobFits, RowsKnown
      <3>3. c.cart \in DOMAIN Stored("carts") /\ cart = Stored("carts")[c.cart]
        BY <2>1, <3>2 DEF Stored
      <3>4. {"agentId", "intent", "totalPaise"} \subseteq DOMAIN cart
        BY <3>3 DEF LedgerInvariant, RowsShown, CartShown, Stored
      <3>5. cart.intent \in DOMAIN Stored("intents")
        BY <3>3, CartLogged
      <3>6. {"agentId", "budgetPaise"} \subseteq DOMAIN db.intents[cart.intent]
        BY <2>1, <3>5 DEF LedgerInvariant, RowsShown, IntentShown, Stored
      <3>7. \A f \in {"agentId", "intent", "totalPaise"} : signed[f] = cart[f]
        BY <3>4
      <3>8. \A f \in {"agentId", "budgetPaise"} : intent[f] = db.intents[cart.intent][f]
        BY <3>6
      <3> QED BY <3>1, <3>7, <3>8
    <2>7. ~(Spent(c.token) + cart.totalPaise > db.agents[c.token].capPaise)
      <3>1. \A i \in 1 .. 2 : ~ checks[i].when
        <4>1. \A i \in 1 .. 2 : checks[i].says # NoField
          BY <1>7
        <4>2. FirstObjection(checks) = NoField
          BY <1>10
        <4> QED BY <1>4, <4>1, <4>2, NothingObjected
      <3>2. ~ checks[1].when
        BY <3>1
      <3> QED BY <1>3, <1>6, <3>2
    <2> HIDE DEF rows, order, intent, signed, payment, verified, created
    <2>8. PaidRows(c, KeyOf(w), cart, rows)
      <3>1. /\ DOMAIN rows["orders"] = {c.order} /\ rows["orders"][c.order] = order
            /\ DOMAIN rows["carts"] = {c.cart} /\ rows["carts"][c.cart] = signed
            /\ DOMAIN rows["payments"] = {KeyOf(w)} /\ rows["payments"][KeyOf(w)] = payment
            /\ DOMAIN rows["intents"] = {cart.intent} /\ rows["intents"][cart.intent] = intent
        <4> DEFINE key == KeyOf(w)
                   o == c.order
                   k == c.cart
                   i == cart.intent
        <4>1. /\ rows["orders"] = Entry(o, order) /\ rows["intents"] = Entry(i, intent)
              /\ rows["carts"] = Entry(k, signed) /\ rows["payments"] = Entry(key, payment)
          BY <2>3
        <4> HIDE DEF key, o, k, i
        <4>2. /\ DOMAIN Entry(o, order) = {o} /\ Entry(o, order)[o] = order
              /\ DOMAIN Entry(i, intent) = {i} /\ Entry(i, intent)[i] = intent
              /\ DOMAIN Entry(k, signed) = {k} /\ Entry(k, signed)[k] = signed
              /\ DOMAIN Entry(key, payment) = {key} /\ Entry(key, payment)[key] = payment
          BY OneRow
        <4> QED BY <4>1, <4>2 DEF key, o, k, i
      <3> HIDE DEF cart
      <3> QED BY <2>1, <2>3, <2>4, <2>5, <2>6, <3>1 DEF PaidRows
    <2>9. Spent(c.token) + Stored("carts")[c.cart].totalPaise <= Stored("agents")[c.token].capPaise
      <3>1. cart.totalPaise \in Nat /\ c.token \in DOMAIN Stored("agents")
        <4>1. cart.totalPaise \in Nat
          BY <1>1, <2>1, <2>2, PlacedSound
        <4>2. c.token \in DOMAIN Stored("agents")
          BY <1>1 DEF LedgerInvariant, PurchaseFits
        <4> QED BY <4>1, <4>2
      <3>2. db.agents[c.token].capPaise \in Nat
        BY <2>1, <3>1, AgentLogged
      <3>3. Spent(c.token) \in Int
        BY SpentIsInt
      <3>4. Spent(c.token) + cart.totalPaise <= db.agents[c.token].capPaise
        BY <2>7, <3>1, <3>2, <3>3
      <3> QED BY <2>1, <3>4
    <2> HIDE DEF after
    <2> QED BY <1>1, <1>10, <2>1, <2>2, <2>8, <2>9, PlacedLedger
  <1> QED BY <1>2, <1>8, <1>9, <1>10

\* Tables with the row of one Order are shown by what shows the row.
LEMMA OneOrderShown ==
    ASSUME NEW rows, DOMAIN rows \subseteq {"orders", "receipts", "refundReceipts"},
           NEW o, NEW row, "orders" \in DOMAIN rows, rows["orders"] = Entry(o, row),
           NEW events, OrderShown(o, row, events)
    PROVE  /\ RowsShown(rows, events)
           /\ DOMAIN RowsOf(rows, "orders") = {o} /\ RowsOf(rows, "orders")[o] = row
  <1>1. RowsOf(rows, "orders") = Entry(o, row)
    BY DEF RowsOf
  <1>2. DOMAIN RowsOf(rows, "orders") = {o} /\ RowsOf(rows, "orders")[o] = row
    BY <1>1, OneRow
  <1>3. \A t \in {"agents", "intents", "carts", "payments"} : DOMAIN RowsOf(rows, t) = {}
    <2>1. \A t \in {"agents", "intents", "carts", "payments"} : RowsOf(rows, t) = <<>>
      BY DEF RowsOf
    <2> QED BY <2>1, NothingFits
  <1> QED BY <1>2, <1>3 DEF RowsShown

\* A row written over another, of the same Agent and amount.
LEMMA OrderShownStill ==
    ASSUME NEW o, NEW old, NEW row, NEW events, NEW more, events \subseteq more,
           OrderShown(o, old, events),
           {"agentId", "amountPaise", "status", "link"} \subseteq DOMAIN row,
           row.agentId = old.agentId, row.amountPaise = old.amountPaise,
           row.status \in Settled => \E e \in more : Is(e, "order.paid") /\ e.order = o,
           row.status = "refunded" => \E e \in more : Is(e, "order.refunded") /\ e.order = o
    PROVE  OrderShown(o, row, more)
  <1>1. \E e \in more : /\ Is(e, "payment.verified") /\ e.order = o
                        /\ Field(e, "agentId") = row.agentId
                        /\ Field(e, "amountPaise") = row.amountPaise
    BY DEF OrderShown
  <1> QED BY <1>1 DEF OrderShown

\* The Order's row as a request finds it.
LEMMA OrderFound ==
    ASSUME StoreInvariant, LedgerInvariant, NEW w \in Workers, job[w].step \in OrderSteps
    PROVE  /\ job[w].call.order \in DOMAIN Stored("orders")
           /\ OrderOf(w) = Stored("orders")[job[w].call.order]
           /\ db.orders = Stored("orders")
           /\ OrderShown(job[w].call.order, OrderOf(w), Logged)
  <1>1. db.orders = Stored("orders")
    BY DEF StoreInvariant, Stored, RowsOf, Tables
  <1>2. job[w].call.order \in DOMAIN Stored("orders") /\ OrderOf(w) = Stored("orders")[job[w].call.order]
    BY <1>1, KnownFits
  <1>3. OrderShown(job[w].call.order, OrderOf(w), Logged)
    BY <1>2 DEF LedgerInvariant, RowsShown, Stored
  <1> QED BY <1>1, <1>2, <1>3

\* The link is asked for.
LEMMA AttemptLinkLedger ==
    ASSUME StoreInvariant, ReadsInvariant, LedgerInvariant, NEW w \in Workers, AttemptLink(w)
    PROVE  LedgerInvariant'
  <1> DEFINE o == job[w].call.order
             event == Event("gateway.payment_link_attempted", o,
                            [amountPaise |-> db.orders[o].amountPaise])
             after == "create_link"
  <1>1. /\ job[w].step \notin InTx \cup {"idle"} /\ UNCHANGED <<links, hooks>>
        /\ Transact(w, {}, <<>>, <<event>>, after, NoField)
    BY DEF AttemptLink, InTx
  <1>2. event.type = "gateway.payment_link_attempted"
    BY DEF Event
  <1> HIDE DEF event, after
  <1>3. Silent(event)
    BY <1>2 DEF Silent, RowTypes, PerOrder, RefusalTypes
  <1> QED BY <1>1, <1>3, SilentIsSound, LogsLedger

\* The gateway opens a link over the Order's amount, or the request fails.
LEMMA CreateLinkLedger ==
    ASSUME StoreInvariant, ReadsInvariant, LedgerInvariant, NEW w \in Workers, CreateLink(w)
    PROVE  LedgerInvariant'
  <1> DEFINE o == job[w].call.order
             link == NewLink(db.orders[o].amountPaise)
             step == "issue_link"
  <1>1. /\ job[w].step = "create_link" /\ job[w].step # "idle" /\ job[w].step \in OrderSteps
        /\ UNCHANGED hooks
    BY DEF CreateLink, OrderSteps
  <1>2. \/ links' = Entry(o, link) ++ links /\ Go(w, step)
        \/ Reply(w, InternalError) /\ UNCHANGED links
    BY Zenon DEF CreateLink
  <1>3. CASE Reply(w, InternalError) /\ UNCHANGED links
    BY <1>1, <1>3, RepliesLedger
  <1>4. CASE links' = Entry(o, link) ++ links /\ Go(w, step)
    <2>1. o \in DOMAIN Stored("orders") /\ db.orders = Stored("orders")
      BY <1>1, OrderFound
    <2>2. "amountPaise" \in DOMAIN link /\ link.amountPaise = Stored("orders")[o].amountPaise
      BY <2>1 DEF NewLink
    <2>3. step = "issue_link" /\ Go(w, step)
      BY <1>4
    <2> HIDE DEF link, step
    <2>4. /\ DOMAIN links' = {o} \cup DOMAIN links /\ links'[o] = link
          /\ \A x \in DOMAIN links \ {o} : links'[x] = links[x]
      <3>1. DOMAIN Entry(o, link) = {o} /\ Entry(o, link)[o] = link
        BY OneRow
      <3> QED BY <1>4, <3>1 DEF ++
    <2>5. PICK j : Moved(w, j) /\ j.step = "issue_link"
      BY <2>3, Moves
    <2>6. BooksStay
      BY <2>3, Moves
    <2>7. Logged' = Logged /\ Stored("orders")' = Stored("orders")
      BY <2>6, SameShown
    <2>8. \E e \in Logged : /\ Is(e, "payment.verified") /\ e.order = o
                            /\ Field(e, "amountPaise") = link.amountPaise
      BY <2>1, <2>2, OrderLogged
    <2>9. LinksFit'
      <3>1. \A x \in DOMAIN links' :
                /\ "amountPaise" \in DOMAIN links'[x]
                /\ \E e \in Logged : /\ Is(e, "payment.verified") /\ e.order = x
                                     /\ Field(e, "amountPaise") = links'[x].amountPaise
        BY <2>2, <2>4, <2>8 DEF LedgerInvariant, LinksFit
      <3>2. \A x \in DOMAIN Stored("orders") : Stored("orders")[x].link => x \in DOMAIN links'
        BY <2>4 DEF LedgerInvariant, LinksFit
      <3> QED BY <2>7, <3>1, <3>2 DEF LinksFit
    <2>10. o \in DOMAIN links' /\ DOMAIN links \subseteq DOMAIN links'
      BY <2>4
    <2>11. j.step # "place_order" /\ j.step # "key_known" /\ j.step # "apply"
      BY <2>5
    <2> QED BY <1>1, <2>5, <2>6, <2>9, <2>10, <2>11, MovesLedger
  <1> QED BY <1>2, <1>3, <1>4

\* The link is on the Order's row.
LEMMA IssueLinkLedger ==
    ASSUME StoreInvariant, ReadsInvariant, LedgerInvariant, NEW w \in Workers, IssueLink(w)
    PROVE  LedgerInvariant'
  <1> DEFINE o == job[w].call.order
             old == db.orders[o]
             row == [old EXCEPT !.link = TRUE, !.status = "awaiting_payment"]
             rows == [orders |-> Entry(o, row)]
             locks == {<<"orders", o>>}
             event == Event("gateway.payment_link_issued", o, [amountPaise |-> links[o].amountPaise])
             after == "idle"
             reply == Ok([order |-> o, status |-> "awaiting_payment", link |-> TRUE,
                          payment |-> PaymentHash(job[w].call)])
  <1>1. /\ job[w].step \notin InTx \cup {"idle"} /\ job[w].step = "issue_link"
        /\ job[w].step \in OrderSteps /\ UNCHANGED <<links, hooks>>
    BY DEF IssueLink, InTx, OrderSteps
  <1>2. Transact(w, locks, rows, <<event>>, after, reply)
    BY DEF IssueLink
  <1>3. /\ o \in DOMAIN Stored("orders") /\ old = Stored("orders")[o] /\ OrderShown(o, old, Logged)
    BY <1>1, OrderFound DEF OrderOf
  <1>4. old.status = "created"
    <2>1. o \in DOMAIN View(w, "orders") /\ ~View(w, "orders")[o].link
      BY <1>1 DEF ReadsInvariant, ReadsFit, LinkFits, Linking
    <2>2. job[w].tx = NoTx
      BY <1>1 DEF StoreInvariant, JobFits, JobShape
    <2>3. View(w, "orders")[o] = Stored("orders")[o]
      BY <2>1, <2>2, EmptyTx DEF View, ++
    <2>4. OrderKept(o, old, Stored("payments"), RowAt(Stored("receipts"), o),
                    RowAt(Stored("refundReceipts"), o), Logged)
      BY <1>3, OrderBook
    <2> QED BY <1>3, <2>1, <2>3, <2>4 DEF OrderKept
  <1>5. /\ {"agentId", "amountPaise", "status", "link"} \subseteq DOMAIN row
        /\ row.agentId = old.agentId /\ row.amountPaise = old.amountPaise
        /\ row.status = "awaiting_payment" /\ row.link = TRUE
    BY <1>3 DEF OrderShown
  <1>6. event.type = "gateway.payment_link_issued"
    BY DEF Event
  <1>7. /\ DOMAIN rows \subseteq {"orders", "receipts", "refundReceipts"}
        /\ "orders" \in DOMAIN rows /\ rows["orders"] = Entry(o, row)
    OBVIOUS
  <1> HIDE DEF rows, row, event, after, reply, locks, old
  <1>8. Silent(event)
    BY <1>6 DEF Silent, RowTypes, PerOrder, RefusalTypes
  <1> DEFINE more == Logged \cup {event}
  <1>9. OrderShown(o, row, more)
    <2>1. row.status \notin Settled /\ row.status # "refunded"
      BY <1>5 DEF Settled
    <2>2. Logged \subseteq more
      OBVIOUS
    <2> HIDE DEF more
    <2> QED BY <1>3, <1>5, <2>1, <2>2, OrderShownStill
  <1>10. /\ RowsShown(rows, Logged \cup {event})
         /\ DOMAIN RowsOf(rows, "orders") = {o} /\ RowsOf(rows, "orders")[o] = row
    <2> HIDE DEF o, more
    <2>1. /\ RowsShown(rows, more)
          /\ DOMAIN RowsOf(rows, "orders") = {o} /\ RowsOf(rows, "orders")[o] = row
      BY <1>7, <1>9, OneOrderShown
    <2> QED BY <2>1 DEF more
  <1>11. o \in DOMAIN links
    BY <1>1 DEF LedgerInvariant, PurchaseFits
  <1>12. Forward(Stored("orders")[o], row)
    BY <1>3, <1>4 DEF Forward, Settled
  <1>13. /\ Sound(event, Logged) /\ EventKept(event, rows) /\ EventLocked(event, locks)
         /\ (\A f \in Logged : ~ Same(event, f)) /\ ~ Is(event, "payment.verified")
    BY <1>8, SilentIsSound, NotOnce
  <1>14. \A x \in DOMAIN RowsOf(rows, "orders") :
             /\ RowsOf(rows, "orders")[x].link => x \in DOMAIN links
             /\ x \in DOMAIN Stored("orders") =>
                   Forward(Stored("orders")[x], RowsOf(rows, "orders")[x])
    BY <1>10, <1>11, <1>12
  <1> HIDE DEF more
  <1> QED BY <1>1, <1>2, <1>10, <1>13, <1>14, OneEventLedger

-----------------------------------------------------------------------------
(***************************************************************************)
(* The gateway, and the refund it is asked for.                            *)
(***************************************************************************)
\* A link's amount stays, whatever happens under it.
LEMMA LinksSame ==
    ASSUME LedgerInvariant, BooksStay, DOMAIN links' = DOMAIN links,
           \A x \in DOMAIN links : /\ DOMAIN links'[x] = DOMAIN links[x]
                                   /\ links'[x].amountPaise = links[x].amountPaise
    PROVE  LinksFit'
  <1>1. Logged' = Logged /\ Stored("orders")' = Stored("orders")
    BY SameShown
  <1>2. \A x \in DOMAIN links' :
            /\ "amountPaise" \in DOMAIN links'[x]
            /\ \E e \in Logged : /\ Is(e, "payment.verified") /\ e.order = x
                                 /\ Field(e, "amountPaise") = links'[x].amountPaise
    BY DEF LedgerInvariant, LinksFit
  <1>3. \A x \in DOMAIN Stored("orders") : Stored("orders")[x].link => x \in DOMAIN links'
    BY DEF LedgerInvariant, LinksFit
  <1> QED BY <1>1, <1>2, <1>3 DEF LinksFit

\* What the gateway does under a link, and what it answers.
LEMMA GatewayLedger ==
    ASSUME StoreInvariant, LedgerInvariant, NEW w \in Workers, job[w].step # "idle",
           NEW step, step \notin {"place_order", "key_known", "issue_link", "apply"},
           Go(w, step) \/ (step = "idle" /\ \E reply : Reply(w, reply)),
           DOMAIN links' = DOMAIN links,
           \A x \in DOMAIN links : /\ DOMAIN links'[x] = DOMAIN links[x]
                                   /\ links'[x].amountPaise = links[x].amountPaise
    PROVE  LedgerInvariant'
  <1>1. PICK j : Moved(w, j) /\ j.step = step
    BY Moves
  <1>2. BooksStay
    BY Moves
  <1>3. LinksFit'
    BY <1>2, LinksSame
  <1>4. DOMAIN links \subseteq DOMAIN links'
    OBVIOUS
  <1> QED BY <1>1, <1>2, <1>3, <1>4, MovesLedger

\* The buyer pays at the gateway.
LEMMA CompletePaymentLedger ==
    ASSUME StoreInvariant, ReadsInvariant, LedgerInvariant, NEW w \in Workers, CompletePayment(w)
    PROVE  LedgerInvariant'
  <1> DEFINE o == job[w].call.order
             step == "idle"
  <1>1. job[w].step # "idle"
    BY DEF CompletePayment
  <1>2. \/ Reply(w, InternalError) /\ UNCHANGED <<links, hooks>>
        \/ /\ HasLink(o) /\ Reply(w, Ok(<<>>))
           /\ links' = [links EXCEPT ![o].captured = TRUE]
    BY DEF CompletePayment
  <1>3. CASE Reply(w, InternalError) /\ UNCHANGED <<links, hooks>>
    BY <1>1, <1>3, RepliesLedger
  <1>4. CASE /\ HasLink(o) /\ Reply(w, Ok(<<>>))
             /\ links' = [links EXCEPT ![o].captured = TRUE]
    <2>1. /\ DOMAIN links' = DOMAIN links
          /\ \A x \in DOMAIN links : /\ DOMAIN links'[x] = DOMAIN links[x]
                                     /\ links'[x].amountPaise = links[x].amountPaise
      BY <1>4
    <2>2. step = "idle" /\ step \notin {"place_order", "key_known", "issue_link", "apply"}
      OBVIOUS
    <2>3. \E reply : Reply(w, reply)
      BY <1>4
    <2> HIDE DEF step
    <2> QED BY <1>1, <2>1, <2>2, <2>3, GatewayLedger
  <1> QED BY <1>2, <1>3, <1>4

\* Or fails to.
LEMMA FailPaymentLedger ==
    ASSUME StoreInvariant, ReadsInvariant, LedgerInvariant, NEW w \in Workers, FailPayment(w)
    PROVE  LedgerInvariant'
  <1> DEFINE o == job[w].call.order
             step == "idle"
  <1>1. job[w].step # "idle"
    BY DEF FailPayment
  <1>2. \/ Reply(w, InternalError) /\ UNCHANGED <<links, hooks>>
        \/ /\ HasLink(o) /\ Reply(w, Ok(<<>>))
           /\ links' = [links EXCEPT ![o].failures = @ + 1]
    BY DEF FailPayment
  <1>3. CASE Reply(w, InternalError) /\ UNCHANGED <<links, hooks>>
    BY <1>1, <1>3, RepliesLedger
  <1>4. CASE /\ HasLink(o) /\ Reply(w, Ok(<<>>))
             /\ links' = [links EXCEPT ![o].failures = @ + 1]
    <2>1. /\ DOMAIN links' = DOMAIN links
          /\ \A x \in DOMAIN links : /\ DOMAIN links'[x] = DOMAIN links[x]
                                     /\ links'[x].amountPaise = links[x].amountPaise
      BY <1>4
    <2>2. step = "idle" /\ step \notin {"place_order", "key_known", "issue_link", "apply"}
      OBVIOUS
    <2>3. \E reply : Reply(w, reply)
      BY <1>4
    <2> HIDE DEF step
    <2> QED BY <1>1, <2>1, <2>2, <2>3, GatewayLedger
  <1> QED BY <1>2, <1>3, <1>4

\* The refund of a paid Order is asked for, answered, or fails.
LEMMA AttemptRefundLedger ==
    ASSUME StoreInvariant, ReadsInvariant, LedgerInvariant, NEW w \in Workers, AttemptRefund(w)
    PROVE  LedgerInvariant'
  <1> DEFINE o == job[w].call.order
             event == Event("gateway.refund_attempted", o, [amountPaise |-> OrderOf(w).amountPaise])
             anomaly == Event("order.anomaly_detected", o, [reason |-> "refund_failed"])
             after == "refund_call"
             done == "idle"
             failed == Refunded("refund_failed")
  <1>1. /\ job[w].step \notin InTx \cup {"idle"} /\ job[w].step # "idle"
        /\ UNCHANGED <<links, hooks>>
    BY DEF AttemptRefund, InTx
  <1>2. \/ Transact(w, {}, <<>>, <<event>>, after, NoField)
        \/ Transact(w, {}, <<>>, <<anomaly>>, done, failed)
        \/ Reply(w, Refunded("not_oversold"))
    BY Zenon DEF AttemptRefund, FlagRefund
  <1>3. event.type = "gateway.refund_attempted" /\ anomaly.type = "order.anomaly_detected"
    BY DEF Event
  <1> HIDE DEF event, anomaly, after, done, failed
  <1>4. Silent(event) /\ Silent(anomaly)
    BY <1>3 DEF Silent, RowTypes, PerOrder, RefusalTypes
  <1>5. CASE Transact(w, {}, <<>>, <<event>>, after, NoField)
    BY <1>1, <1>4, <1>5, SilentIsSound, LogsLedger
  <1>6. CASE Transact(w, {}, <<>>, <<anomaly>>, done, failed)
    BY <1>1, <1>4, <1>6, SilentIsSound, LogsLedger
  <1>7. CASE Reply(w, Refunded("not_oversold"))
    BY <1>1, <1>7, RepliesLedger
  <1> QED BY <1>2, <1>5, <1>6, <1>7

\* The gateway is asked for the refund.
LEMMA CallRefundLedger ==
    ASSUME StoreInvariant, ReadsInvariant, LedgerInvariant, NEW w \in Workers, CallRefund(w)
    PROVE  LedgerInvariant'
  <1> DEFINE o == job[w].call.order
  <1>1. job[w].step # "idle" /\ UNCHANGED hooks
    BY DEF CallRefund
  <1>2. \/ links' = [links EXCEPT ![o].refunded = TRUE] /\ Go(w, "refund_record")
        \/ UNCHANGED links /\ Go(w, "refund_failed")
    BY DEF CallRefund
  <1>3. /\ DOMAIN links' = DOMAIN links
        /\ \A x \in DOMAIN links : /\ DOMAIN links'[x] = DOMAIN links[x]
                                   /\ links'[x].amountPaise = links[x].amountPaise
    <2>1. CASE links' = [links EXCEPT ![o].refunded = TRUE]
      BY <2>1
    <2>2. CASE UNCHANGED links
      BY <2>2
    <2> QED BY <1>2, <2>1, <2>2
  <1>4. \A step \in {"refund_record", "refund_failed"} :
            step \notin {"place_order", "key_known", "issue_link", "apply"}
    OBVIOUS
  <1>5. PICK step \in {"refund_record", "refund_failed"} : Go(w, step)
    BY <1>2
  <1>6. step \notin {"place_order", "key_known", "issue_link", "apply"}
    BY <1>4
  <1> QED BY <1>1, <1>3, <1>5, <1>6, GatewayLedger

\* The gateway would not refund.
LEMMA RecordRefundFailureLedger ==
    ASSUME StoreInvariant, ReadsInvariant, LedgerInvariant, NEW w \in Workers,
           RecordRefundFailure(w)
    PROVE  LedgerInvariant'
  <1> DEFINE event == Event("order.anomaly_detected", job[w].call.order,
                            [reason |-> "refund_failed"])
             after == "idle"
             reply == Refunded("refund_failed")
  <1>1. /\ job[w].step \notin InTx \cup {"idle"} /\ UNCHANGED <<links, hooks>>
        /\ Transact(w, {}, <<>>, <<event>>, after, reply)
    BY DEF RecordRefundFailure, FlagRefund, InTx
  <1>2. event.type = "order.anomaly_detected"
    BY DEF Event
  <1> HIDE DEF event, after, reply
  <1>3. Silent(event)
    BY <1>2 DEF Silent, RowTypes, PerOrder, RefusalTypes
  <1> QED BY <1>1, <1>3, SilentIsSound, LogsLedger

\* What was paid is given back, once.
LEMMA RecordRefundLedger ==
    ASSUME StoreInvariant, ReadsInvariant, LedgerInvariant, NEW w \in Workers, RecordRefund(w)
    PROVE  LedgerInvariant'
  <1> DEFINE o == job[w].call.order
             old == OrderOf(w)
             oversell == OversellPayload(old)
             row == [old EXCEPT !.status = "refunded", !.refundReason = oversell]
             rows == [orders |-> Entry(o, row), refundReceipts |-> RefundReceipt(w)]
             refunded == Event("order.refunded", o, [amountPaise |-> old.amountPaise,
                                                     oversell |-> oversell])
             issued == RefundMintEvent(w)
             locks == {<<"orders", o>>}
             events == <<refunded, issued>>
             step == "commit"
             after == "idle"
             reply == Refunded("order_refunded")
  <1>1. /\ job[w].step \notin InTx \cup {"idle"} /\ job[w].step # "idle"
        /\ job[w].step \in OrderSteps /\ UNCHANGED <<links, hooks>>
    BY DEF RecordRefund, InTx, OrderSteps
  <1>2. \/ old.status = "paid" /\ Transact(w, locks, rows, events, after, reply)
        \/ Reply(w, Refunded("not_oversold"))
    BY Zenon DEF RecordRefund
  <1>3. CASE Reply(w, Refunded("not_oversold"))
    BY <1>1, <1>3, RepliesLedger
  <1>4. CASE old.status = "paid" /\ Transact(w, locks, rows, events, after, reply)
    <2>1. /\ o \in DOMAIN Stored("orders") /\ old = Stored("orders")[o]
          /\ OrderShown(o, old, Logged)
      BY <1>1, OrderFound
    <2>2. /\ {"agentId", "amountPaise", "status", "link"} \subseteq DOMAIN row
          /\ row.agentId = old.agentId /\ row.amountPaise = old.amountPaise
          /\ row.status = "refunded" /\ row.link = old.link
      BY <2>1 DEF OrderShown
    <2>3. /\ refunded.type = "order.refunded" /\ refunded.order = o
          /\ Field(refunded, "amountPaise") = old.amountPaise
          /\ issued.type \in {"receipt.refund_issued", "order.anomaly_detected"}
      BY DEF Event, Field, RefundMintEvent
    <2>4. /\ DOMAIN rows \subseteq {"orders", "receipts", "refundReceipts"}
          /\ "orders" \in DOMAIN rows /\ rows["orders"] = Entry(o, row)
      OBVIOUS
    <2>5. Len(events) = 2 /\ Len(events) \in Nat /\ events[1] = refunded /\ events[2] = issued
      OBVIOUS
    <2>6. Execute(w, locks, rows, events, step, after, reply) /\ step \in {"commit", "fulfil"}
      BY <1>4 DEF Transact
    <2>7. old.status = "paid" /\ <<"orders", o>> \in locks
      BY <1>4
    <2>8. \A i \in 1 .. Len(events) : (i = 1 /\ events[i] = refunded) \/ (i = 2 /\ events[i] = issued)
      <3> DEFINE n == Len(events)
      <3>1. n = 2 /\ events[1] = refunded /\ events[2] = issued
        BY <2>5
      <3> HIDE DEF n, events
      <3>2. \A i \in 1 .. n : (i = 1 /\ events[i] = refunded) \/ (i = 2 /\ events[i] = issued)
        <4>1. \A i \in 1 .. n : i = 1 \/ i = 2
          BY <3>1
        <4> QED BY Zenon, <3>1, <4>1
      <3> QED BY <3>2 DEF n
    <2> HIDE DEF o, old, row, rows, refunded, issued, locks, events, step, after, reply, oversell
    <2>9. Sound(issued, Logged) /\ issued.type \notin RowTypes
      <3>1. Silent(issued)
        BY <2>3 DEF Silent, RowTypes, PerOrder, RefusalTypes
      <3> QED BY <3>1, SilentIsSound
    <2>10. Sound(refunded, Logged)
      <3>1. PICK p \in Logged : Is(p, "order.paid") /\ p.order = o
        BY <2>1, <2>7 DEF OrderShown, Settled
      <3>2. PaidSound(p, Logged)
        BY <3>1, OnRecord DEF Sound
      <3>3. PICK v \in Logged : /\ Is(v, "payment.verified") /\ v.order = p.order
                                /\ Agrees(v, p, {"amountPaise"})
        BY <3>2 DEF PaidSound
      <3>4. PICK u \in Logged : /\ Is(u, "payment.verified") /\ u.order = o
                                /\ Field(u, "amountPaise") = old.amountPaise
        BY <2>1, OrderLogged
      <3>5. u = v
        <4>1. Same(u, v)
          BY <3>1, <3>3, <3>4 DEF Same, Is, PerOrder
        <4> QED BY <4>1, OnRecord
      <3>6. RefundSound(refunded, Logged)
        BY <2>3, <3>1, <3>3, <3>4, <3>5 DEF RefundSound, Agrees
      <3>7. refunded.type \notin RefusalTypes
        BY <2>3 DEF RefusalTypes
      <3> QED BY <2>3, <3>6, <3>7 DEF Sound, Is
    <2>11. \A f \in Logged : ~ Same(refunded, f)
      <3> SUFFICES ASSUME NEW f \in Logged, Same(refunded, f) PROVE FALSE
        OBVIOUS
      <3>1. Is(f, "order.refunded") /\ f.order = o
        BY <2>3 DEF Same, Is, PerOrder
      <3>2. EventKept(f, db)
        BY DEF LedgerInvariant
      <3> QED BY <2>1, <2>7, <3>1, <3>2 DEF EventKept, Stored
    <2> DEFINE more == Logged \cup EventsOf(events)
    <2>12. OrderShown(o, row, more)
      <3>1. refunded \in more /\ Logged \subseteq more
        <4>1. 1 \in 1 .. Len(events)
          BY <2>5
        <4> QED BY <2>5, <4>1 DEF EventsOf
      <3> HIDE DEF more
      <3>2. \E e \in more : Is(e, "order.refunded") /\ e.order = o
        BY <2>3, <3>1 DEF Is
      <3>3. \E e \in more : Is(e, "order.paid") /\ e.order = o
        BY <2>1, <2>7, <3>1 DEF OrderShown, Settled
      <3> QED BY <2>1, <2>2, <3>1, <3>2, <3>3, OrderShownStill
    <2> HIDE DEF more
    <2>13. /\ RowsShown(rows, more)
           /\ DOMAIN RowsOf(rows, "orders") = {o} /\ RowsOf(rows, "orders")[o] = row
      BY <2>4, <2>12, OneOrderShown
    <2>14. RowsFollow(rows, events)
      <3>1. row.link => o \in DOMAIN links
        BY <2>1, <2>2 DEF LedgerInvariant, LinksFit
      <3>2. Forward(Stored("orders")[o], row)
        BY <2>1, <2>2, <2>7 DEF Forward, Settled
      <3> QED BY <2>13, <3>1, <3>2 DEF RowsFollow, more
    <2>15. EventsFollow(locks, rows, events)
      <3>1. EventKept(refunded, rows)
        BY <2>2, <2>3, <2>13 DEF EventKept, Is, PerOrder
      <3>2. EventLocked(refunded, locks)
        BY <2>3, <2>7 DEF EventLocked, Is, PerOrder
      <3>3. ~ Same(refunded, issued) /\ ~ Same(issued, refunded)
        BY <2>9, NotOnce
      <3>4. /\ EventKept(issued, rows) /\ EventLocked(issued, locks)
            /\ \A f \in Logged : ~ Same(issued, f)
        BY <2>9, NotOnce
      <3>5. \A i \in 1 .. Len(events) :
                /\ Sound(events[i], Logged)
                /\ EventKept(events[i], rows) /\ EventLocked(events[i], locks)
                /\ \A f \in Logged : ~ Same(events[i], f)
        BY <2>8, <2>9, <2>10, <2>11, <3>1, <3>2, <3>4
      <3>6. \A i, j \in 1 .. Len(events) : Same(events[i], events[j]) => i = j
        BY <2>8, <3>3
      <3> QED BY <3>5, <3>6 DEF EventsFollow
    <2>16. CapNext(events)
      <3>1. ~ Is(refunded, "payment.verified") /\ ~ Is(issued, "payment.verified")
        BY <2>3 DEF Is
      <3>2. \A i \in 1 .. Len(events) : ~ Is(events[i], "payment.verified")
        BY <2>8, <3>1
      <3> QED BY <3>2, NoneVerified
    <2> QED BY <1>1, <2>5, <2>6, <2>14, <2>15, <2>16, FirstLedger
  <1> QED BY <1>2, <1>3, <1>4

-----------------------------------------------------------------------------
(***************************************************************************)
(* What a webhook does, inside the transaction that recorded it.           *)
(***************************************************************************)
\* The first statements after the webhook was recorded: what is recorded of it
\* says nothing about rows.
LEMMA ApplyFit ==
    ASSUME StoreInvariant, ReadsInvariant, LedgerInvariant, NEW w \in Workers,
           job[w].step = "apply",
           NEW locks, NEW writes, NEW events, NEW step, NEW after, NEW reply,
           Execute(w, locks, writes, events, step, after, reply), Len(events) \in Nat,
           UNCHANGED <<links, hooks>>,
           EventsFollow(locks, writes, events), RowsFollow(writes, events)
    PROVE  /\ EventsFit(w)' /\ RowsGoOn(w)'
           /\ \A i \in 1 .. Len(events) : \A f \in Events(w) : ~ Same(events[i], f)
  <1>0. job[w].tx.writes = <<>>
    BY AtApply
  <1>1. /\ \A t : DOMAIN Writes(w, t)' = DOMAIN RowsOf(writes, t)
        /\ \A t : \A x \in DOMAIN RowsOf(writes, t) : Writes(w, t)'[x] = RowsOf(writes, t)[x]
    BY <1>0, FreshWrites
  <1>2. /\ job'[w].tx.locks = job[w].tx.locks \cup locks
        /\ Pending(w)' = Pending(w) \cup {events[i] : i \in 1 .. Len(events)}
        /\ BooksStay
    BY Executed
  <1>3. Logged' = Logged /\ Stored("orders")' = Stored("orders")
    BY <1>2, SameShown
  <1>4. \A e \in Pending(w) : e.type = "gateway.webhook_received"
    BY DEF LedgerInvariant, PurchaseFits, Is
  <1>5. \A e \in Pending(w) : e.type \notin RowTypes
    BY <1>4 DEF RowTypes, PerOrder
  <1>6. /\ \A e : EventKept(e, writes) => EventKept(e, job'[w].tx.writes)
        /\ \A all : RowsShown(writes, all) => RowsShown(job'[w].tx.writes, all)
    <2> DEFINE table == job'[w].tx.writes
    <2>1. \A t : Writes(w, t)' = RowsOf(table, t)
      BY DEF Writes
    <2> HIDE DEF table
    <2>2. /\ \A t : DOMAIN RowsOf(writes, t) = DOMAIN RowsOf(table, t)
          /\ \A t : \A x \in DOMAIN RowsOf(writes, t) : RowsOf(table, t)[x] = RowsOf(writes, t)[x]
      BY <1>1, <2>1
    <2>3. /\ \A e : EventKept(e, writes) => EventKept(e, table)
          /\ \A all : RowsShown(writes, all) => RowsShown(table, all)
      BY <2>2, SameRows
    <2> QED BY <2>3 DEF table
  <1>7. EventsFit(w)'
    <2> SUFFICES ASSUME NEW e \in Pending(w)'
                 PROVE  EventKept(e, job'[w].tx.writes) /\ EventLocked(e, job'[w].tx.locks)
      BY DEF EventsFit
    <2>1. CASE e \in Pending(w)
      BY <1>5, <2>1, NotOnce
    <2>2. CASE e \in {events[i] : i \in 1 .. Len(events)}
      <3>1. EventKept(e, writes) /\ EventLocked(e, locks)
        BY <2>2 DEF EventsFollow
      <3>2. locks \subseteq job'[w].tx.locks
        BY <1>2
      <3>3. EventLocked(e, job'[w].tx.locks)
        BY <3>1, <3>2 DEF EventLocked
      <3> QED BY <1>6, <3>1, <3>3
    <2> QED BY <1>2, <2>1, <2>2
  <1>8. RowsGoOn(w)'
    <2>1. Logged \cup EventsOf(events) \subseteq Events(w)'
      BY <1>2, <1>3 DEF Events, EventsOf
    <2>2. RowsShown(job'[w].tx.writes, Logged \cup EventsOf(events))
      BY <1>6 DEF RowsFollow
    <2>3. RowsShown(job'[w].tx.writes, Events(w)')
      BY <2>1, <2>2, ShownMore
    <2> QED BY <1>1, <1>3, <2>3 DEF RowsGoOn, RowsFollow
  <1>9. \A i \in 1 .. Len(events) : \A f \in Events(w) : ~ Same(events[i], f)
    BY <1>5, NotOnce DEF Events, EventsFollow
  <1> QED BY <1>7, <1>8, <1>9

\* So they keep the invariant as those of any transaction do.
LEMMA ApplyLedger ==
    ASSUME StoreInvariant, ReadsInvariant, LedgerInvariant, NEW w \in Workers,
           job[w].step = "apply",
           NEW locks, NEW writes, NEW events, NEW step, NEW after, NEW reply,
           Execute(w, locks, writes, events, step, after, reply), Len(events) \in Nat,
           step \in {"commit", "fulfil"}, UNCHANGED <<links, hooks>>,
           EventsFollow(locks, writes, events), RowsFollow(writes, events), CapNext(events)
    PROVE  LedgerInvariant'
  <1>1. /\ EventsFit(w)' /\ RowsGoOn(w)'
        /\ \A i \in 1 .. Len(events) : \A f \in Events(w) : ~ Same(events[i], f)
    BY ApplyFit
  <1>2. job[w].step # "idle"
    OBVIOUS
  <1>3. PurchaseFits(w)'
    BY <1>2, ExecutedPurchase
  <1>4. /\ \A i \in 1 .. Len(events) : Sound(events[i], Logged)
        /\ \A i, j \in 1 .. Len(events) : Same(events[i], events[j]) => i = j
    BY DEF EventsFollow
  <1> QED BY <1>1, <1>3, <1>4, ExecuteLedger DEF CapNext

\* An event of a webhook that pays nothing: it says that the Order is cancelled, as
\* its row is then, or nothing.
Quiet(e, o, row) ==
    Silent(e) \/ (Is(e, "order.cancelled") /\ e.order = o /\ row.status = "cancelled")

\* Nothing has to go before it, and nothing else is like it.
LEMMA QuietIs ==
    ASSUME NEW e, NEW o, NEW row, Quiet(e, o, row)
    PROVE  /\ \A before : Sound(e, before)
           /\ \A f : ~ Same(e, f) /\ ~ Same(f, e)
           /\ \A locks : EventLocked(e, locks)
           /\ ~ Is(e, "payment.verified")
  <1>1. CASE Silent(e)
    BY <1>1, SilentIsSound, NotOnce
  <1>2. CASE e.type = "order.cancelled"
    <2>1. /\ e.type \notin PerOrder /\ e.type \notin RefusalTypes /\ e.type # "payment.verified"
          /\ e.type # "order.paid" /\ e.type # "order.refunded" /\ e.type # "agent.registered"
          /\ e.type # "mandate.intent_declared" /\ e.type # "mandate.cart_created"
          /\ e.type # "payment.replayed" /\ e.type # "receipt.issued"
      BY <1>2 DEF PerOrder, RefusalTypes
    <2>2. \A before : Sound(e, before)
      BY <2>1 DEF Sound, Is
    <2>3. \A f : ~ Same(e, f) /\ ~ Same(f, e)
      BY <2>1 DEF Same, Is
    <2>4. \A locks : EventLocked(e, locks)
      BY <2>1 DEF EventLocked, Is
    <2> QED BY <2>1, <2>2, <2>3, <2>4 DEF Is
  <1> QED BY <1>1, <1>2 DEF Quiet, Is

\* The events of such a webhook.
LEMMA QuietTail ==
    ASSUME NEW w, NEW o, NEW row, NEW a, NEW b, Quiet(a, o, row), Quiet(b, o, row)
    PROVE  \A tail \in {<<>>, <<a>>, <<a, b>>} :
               /\ Len(LinkEvents(w) \o tail) \in Nat
               /\ \A i \in 1 .. Len(LinkEvents(w) \o tail) :
                     Quiet((LinkEvents(w) \o tail)[i], o, row)
  <1> DEFINE event == Event("gateway.order_linked", job[w].call.order, <<>>)
             all == {event, a, b}
             head == LinkEvents(w)
  <1>1. head = <<event>> \/ head = <<>>
    BY DEF LinkEvents
  <1>2. Silent(event)
    BY DEF Event, Silent, RowTypes, PerOrder, RefusalTypes
  <1> HIDE DEF event
  <1>3. <<>> \in Seq(all) /\ <<a>> \in Seq(all) /\ <<a, b>> \in Seq(all) /\ <<event>> \in Seq(all)
    OBVIOUS
  <1>4. \A e \in all : Quiet(e, o, row)
    BY <1>2 DEF Quiet
  <1>5. head \in Seq(all)
    BY <1>1, <1>3
  <1> HIDE DEF all, head
  <1>6. \A tail \in Seq(all) : head \o tail \in Seq(all)
    BY <1>5
  <1>7. \A s \in Seq(all) : Len(s) \in Nat /\ \A i \in 1 .. Len(s) : Quiet(s[i], o, row)
    BY <1>4
  <1>8. \A tail \in {<<>>, <<a>>, <<a, b>>} :
            /\ Len(head \o tail) \in Nat
            /\ \A i \in 1 .. Len(head \o tail) : Quiet((head \o tail)[i], o, row)
    <2> SUFFICES ASSUME NEW tail \in {<<>>, <<a>>, <<a, b>>}
                 PROVE  /\ Len(head \o tail) \in Nat
                        /\ \A i \in 1 .. Len(head \o tail) : Quiet((head \o tail)[i], o, row)
      OBVIOUS
    <2>1. tail \in Seq(all)
      BY <1>3
    <2> QED BY <1>6, <1>7, <2>1
  <1> QED BY <1>8 DEF head

\* And of the one that pays an Order.
EndWith(events, a, b) ==
    /\ Len(events) \in Nat /\ a \in EventsOf(events)
    /\ \A i \in 1 .. Len(events) : Silent(events[i]) \/ events[i] = a \/ events[i] = b
    /\ \A i \in 1 .. Len(events) : events[i].type \in RowTypes => i = Len(events) - 1

LEMMA PaidTail ==
    ASSUME NEW w, NEW a, NEW b, b.type \notin RowTypes
    PROVE  EndWith(LinkEvents(w) \o <<a, b>>, a, b)
  <1> DEFINE event == Event("gateway.order_linked", job[w].call.order, <<>>)
             head == LinkEvents(w)
             events == head \o <<a, b>>
             n == Len(events)
  <1>1. head = <<event>> \/ head = <<>>
    BY DEF LinkEvents
  <1>2. Silent(event) /\ event.type \notin RowTypes
    BY DEF Event, Silent, RowTypes, PerOrder, RefusalTypes
  <1> HIDE DEF event
  <1>3. CASE head = <<event>>
    <2>1. n = 3 /\ events[1] = event /\ events[2] = a /\ events[3] = b
      BY <1>3
    <2> HIDE DEF n, events
    <2>2. \A i \in 1 .. n : i = 1 \/ i = 2 \/ i = 3
      BY <2>1
    <2>3. n - 1 = 2 /\ 2 \in 1 .. n /\ n \in Nat
      BY <2>1
    <2>4. \A i \in 1 .. n : Silent(events[i]) \/ events[i] = a \/ events[i] = b
      BY Zenon, <1>2, <2>1, <2>2
    <2>5. \A i \in 1 .. n : events[i].type \in RowTypes => i = n - 1
      BY Zenon, <1>2, <2>1, <2>2, <2>3
    <2>6. a \in {events[i] : i \in 1 .. n}
      BY <2>1, <2>3
    <2> QED BY <2>3, <2>4, <2>5, <2>6 DEF n, events, head, EventsOf, EndWith
  <1>4. CASE head = <<>>
    <2>1. n = 2 /\ events[1] = a /\ events[2] = b
      BY <1>4
    <2> HIDE DEF n, events
    <2>2. \A i \in 1 .. n : i = 1 \/ i = 2
      BY <2>1
    <2>3. n - 1 = 1 /\ 1 \in 1 .. n /\ n \in Nat
      BY <2>1
    <2>4. \A i \in 1 .. n : Silent(events[i]) \/ events[i] = a \/ events[i] = b
      BY Zenon, <2>1, <2>2
    <2>5. \A i \in 1 .. n : events[i].type \in RowTypes => i = n - 1
      BY Zenon, <2>1, <2>2, <2>3
    <2>6. a \in {events[i] : i \in 1 .. n}
      BY <2>1, <2>3
    <2> QED BY <2>3, <2>4, <2>5, <2>6 DEF n, events, head, EventsOf, EndWith
  <1> QED BY <1>1, <1>3, <1>4

\* What stays of an Order's row whatever a webhook counts.
SameBooks(row, old) ==
    /\ SameTerms(row, old) /\ "agentId" \in DOMAIN row /\ row.agentId = old.agentId
    /\ old.status = "cancelled" => row.status = "cancelled"

\* A webhook that settles nothing.
LEMMA ApplySame ==
    ASSUME StoreInvariant, ReadsInvariant, LedgerInvariant, NEW w \in Workers,
           NEW row, NEW tail, NEW outcome, job[w].step = "apply",
           ApplyTo(w, row, tail, "commit", outcome), UNCHANGED <<links, hooks>>,
           Len(LinkEvents(w) \o tail) \in Nat,
           \A i \in 1 .. Len(LinkEvents(w) \o tail) :
               Quiet((LinkEvents(w) \o tail)[i], job[w].call.order, row),
           SameBooks(row, OrderOf(w))
    PROVE  LedgerInvariant'
  <1> DEFINE o == job[w].call.order
             old == OrderOf(w)
             rows == [orders |-> Entry(o, row)]
             locks == {<<"orders", o>>}
             events == LinkEvents(w) \o tail
             step == "commit"
             after == "idle"
  <1>1. Execute(w, locks, rows, events, step, after, outcome) /\ step \in {"commit", "fulfil"}
    BY DEF ApplyTo
  <1>2. /\ DOMAIN rows \subseteq {"orders", "receipts", "refundReceipts"}
        /\ "orders" \in DOMAIN rows /\ rows["orders"] = Entry(o, row)
    OBVIOUS
  <1>3. Len(events) \in Nat /\ \A i \in 1 .. Len(events) : Quiet(events[i], o, row)
    OBVIOUS
  <1>4. o \in DOMAIN Stored("orders") /\ old = Stored("orders")[o] /\ OrderShown(o, old, Logged)
    <2>1. job[w].step \in OrderSteps
      BY DEF OrderSteps
    <2> QED BY <2>1, OrderFound
  <1> DEFINE more == Logged \cup EventsOf(events)
  <1>5. Logged \subseteq more
    OBVIOUS
  <1> HIDE DEF o, old, rows, locks, events, step, after, more
  <1>6. OrderShown(o, row, more)
    <2>1. /\ {"agentId", "amountPaise", "status", "link"} \subseteq DOMAIN row
          /\ row.agentId = old.agentId /\ row.amountPaise = old.amountPaise
          /\ (row.status \in Settled) = (old.status \in Settled)
          /\ (row.status = "refunded") = (old.status = "refunded")
      BY <1>4 DEF SameBooks, SameTerms, OrderShown, old
    <2>2. row.status \in Settled => \E e \in more : Is(e, "order.paid") /\ e.order = o
      BY <1>4, <1>5, <2>1 DEF OrderShown
    <2>3. row.status = "refunded" => \E e \in more : Is(e, "order.refunded") /\ e.order = o
      BY <1>4, <1>5, <2>1 DEF OrderShown
    <2> QED BY <1>4, <1>5, <2>1, <2>2, <2>3, OrderShownStill
  <1>7. /\ RowsShown(rows, more)
        /\ DOMAIN RowsOf(rows, "orders") = {o} /\ RowsOf(rows, "orders")[o] = row
    BY <1>2, <1>6, OneOrderShown
  <1>8. RowsFollow(rows, events)
    <2>1. row.link => o \in DOMAIN links
      BY <1>4 DEF SameBooks, SameTerms, LedgerInvariant, LinksFit, old
    <2>2. Forward(Stored("orders")[o], row)
      BY <1>4 DEF Forward, SameBooks, SameTerms, old
    <2> QED BY <1>7, <2>1, <2>2 DEF RowsFollow, more
  <1>9. EventsFollow(locks, rows, events)
    <2>1. \A i \in 1 .. Len(events) : /\ Sound(events[i], Logged) /\ EventLocked(events[i], locks)
                                      /\ \A f : ~ Same(events[i], f)
      BY <1>3, QuietIs
    <2>2. ASSUME NEW i \in 1 .. Len(events) PROVE EventKept(events[i], rows)
      <3> DEFINE e == events[i]
      <3>0. Quiet(e, o, row)
        BY <1>3
      <3> HIDE DEF e
      <3>1. ASSUME Silent(e) PROVE EventKept(e, rows)
        BY <3>1, SilentIsSound, NotOnce
      <3>2. ASSUME Is(e, "order.cancelled"), e.order = o, row.status = "cancelled"
            PROVE  EventKept(e, rows)
        BY <1>7, <3>2 DEF EventKept, Is, PerOrder
      <3> QED BY <3>0, <3>1, <3>2 DEF Quiet, e
    <2> QED BY <2>1, <2>2 DEF EventsFollow
  <1>10. CapNext(events)
    <2>1. \A i \in 1 .. Len(events) : ~ Is(events[i], "payment.verified")
      BY <1>3, QuietIs
    <2> QED BY <2>1, NoneVerified
  <1> QED BY <1>1, <1>3, <1>8, <1>9, <1>10, ApplyLedger

\* A failed payment, counted or the last one.
LEMMA ApplyFailureLedger ==
    ASSUME StoreInvariant, ReadsInvariant, LedgerInvariant, NEW w \in Workers, ApplyFailure(w)
    PROVE  LedgerInvariant'
  <1> DEFINE o == job[w].call.order
             old == OrderOf(w)
             row == Linked(w)
             payment == job[w].call.hook.payment
             attempt == Cardinality(row.declined) + 1
             counted == [row EXCEPT !.declined = @ \cup {payment}]
             cancelled == [counted EXCEPT !.status = "cancelled",
                                          !.cancellationReason = DeclinePayload(attempt)]
             declined == Event("payment.declined", o, [attempt |-> attempt])
             over == Event("order.cancelled", o, [decline |-> DeclinePayload(attempt)])
  <1>1. job[w].step = "apply" /\ job[w].step \in OrderSteps /\ UNCHANGED <<links, hooks>>
    BY DEF ApplyFailure, OrderSteps
  <1>2. \/ \E outcome : ApplyTo(w, row, <<>>, "commit", outcome)
        \/ \E outcome : ApplyTo(w, counted, <<declined>>, "commit", outcome)
        \/ Payable(row) /\ \E outcome : ApplyTo(w, cancelled, <<declined, over>>, "commit", outcome)
    BY Zenon DEF ApplyFailure
  <1>3. /\ \A x : Quiet(declined, o, x)
        /\ \A x : x.status = "cancelled" => Quiet(over, o, x)
    <2>1. Silent(declined)
      BY DEF Event, Silent, RowTypes, PerOrder, RefusalTypes
    <2>2. Is(over, "order.cancelled") /\ over.order = o
      BY DEF Event, Is
    <2> QED BY <2>1, <2>2 DEF Quiet
  <1>4. {"status", "link", "amountPaise", "gatewayPaymentId", "refundReason", "agentId"}
            \subseteq DOMAIN old
    <2>1. {"status", "link", "amountPaise", "gatewayPaymentId", "refundReason"} \subseteq DOMAIN old
      BY <1>1, AtApply DEF OrderKept
    <2>2. "agentId" \in DOMAIN old
      BY <1>1, OrderFound DEF OrderShown
    <2> QED BY <2>1, <2>2
  <1> HIDE DEF declined, over
  <1>5. SameBooks(row, old) /\ row.status = old.status
    <2> HIDE DEF old
    <2>1. row = [old EXCEPT !.gatewayOrderId = <<"gateway order", job[w].call.order>>]
      BY DEF Linked, old
    <2> HIDE DEF row
    <2> QED BY <1>4, <2>1 DEF SameBooks, SameTerms
  <1> HIDE DEF row, old
  <1>6. SameBooks(counted, old) /\ counted.status = row.status
    BY <1>4, <1>5 DEF SameBooks, SameTerms
  <1> HIDE DEF counted, attempt
  <1>7. ASSUME Payable(row) PROVE SameBooks(cancelled, old) /\ cancelled.status = "cancelled"
    <2>1. old.status \notin Settled /\ old.status # "refunded"
      BY <1>5, <1>7 DEF Payable, Settled
    <2>2. /\ DOMAIN cancelled = DOMAIN counted /\ cancelled.status = "cancelled"
          /\ cancelled.link = counted.link /\ cancelled.amountPaise = counted.amountPaise
          /\ cancelled.refundReason = counted.refundReason /\ cancelled.agentId = counted.agentId
          /\ cancelled.gatewayPaymentId = counted.gatewayPaymentId
      BY <1>4, <1>6 DEF SameBooks, SameTerms
    <2>3. "cancelled" \notin Settled
      BY DEF Settled
    <2> HIDE DEF cancelled
    <2> QED BY <1>6, <2>1, <2>2, <2>3 DEF SameBooks, SameTerms
  <1> HIDE DEF cancelled
  <1>8. ASSUME NEW outcome, ApplyTo(w, row, <<>>, "commit", outcome) PROVE LedgerInvariant'
    BY <1>1, <1>3, <1>5, <1>8, QuietTail, ApplySame DEF old
  <1>9. ASSUME NEW outcome, ApplyTo(w, counted, <<declined>>, "commit", outcome)
        PROVE  LedgerInvariant'
    <2>1. Quiet(declined, o, counted)
      BY <1>3
    <2> QED BY <1>1, <1>6, <1>9, <2>1, QuietTail, ApplySame DEF old
  <1>10. ASSUME NEW outcome, Payable(row), ApplyTo(w, cancelled, <<declined, over>>, "commit", outcome)
         PROVE  LedgerInvariant'
    <2>1. Quiet(declined, o, cancelled) /\ Quiet(over, o, cancelled)
      BY <1>3, <1>7, <1>10
    <2> QED BY <1>1, <1>7, <1>10, <2>1, QuietTail, ApplySame DEF old
  <1> QED BY <1>2, <1>8, <1>9, <1>10

\* What the Receipt restates is what was verified for the Order.
LEMMA ReceiptShown ==
    ASSUME StoreInvariant, ReadsInvariant, LedgerInvariant, NEW w \in Workers,
           job[w].step = "apply"
    PROVE  \E v \in Logged :
               /\ Is(v, "payment.verified") /\ v.order = job[w].call.order
               /\ Field(v, "intentHash") = ReceiptOf(w).intentHash
               /\ Field(v, "cartHash") = ReceiptOf(w).cartHash
               /\ Field(v, "paymentHash") = ReceiptOf(w).paymentHash
               /\ Field(v, "amountPaise") = ReceiptOf(w).amountPaise
  <1> DEFINE o == job[w].call.order
             key == CHOOSE k \in DOMAIN db.payments : db.payments[k].order = o
             payment == db.payments[key]
             cart == payment.cart
             receipt == ReceiptOf(w)
  <1>1. db.payments = Stored("payments") /\ db.carts = Stored("carts")
    BY DEF StoreInvariant, Stored, RowsOf, Tables
  <1>2. /\ o \in DOMAIN Stored("orders") /\ OrderOf(w) = Stored("orders")[o]
        /\ OrderShown(o, OrderOf(w), Logged)
    <2>1. job[w].step \in OrderSteps
      BY DEF OrderSteps
    <2> QED BY <2>1, OrderFound
  <1>3. \E k \in DOMAIN db.payments : db.payments[k].order = o
    BY <1>1, AtApply DEF OrderKept
  <1>4. key \in DOMAIN db.payments /\ payment.order = o
    BY <1>3
  <1>5. /\ receipt.intentHash = db.carts[cart].intent /\ receipt.cartHash = cart
        /\ receipt.paymentHash = payment.hash /\ receipt.amountPaise = OrderOf(w).amountPaise
    BY DEF ReceiptOf
  <1> HIDE DEF key, receipt
  <1>6. PaymentShown(key, payment, Logged)
    BY <1>1, <1>4 DEF LedgerInvariant, RowsShown, Stored
  <1>7. PICK v \in Logged : /\ Is(v, "payment.verified") /\ v.order = payment.order
                            /\ Field(v, "cartHash") = cart /\ Field(v, "paymentHash") = payment.hash
    BY <1>6 DEF PaymentShown
  <1>8. Field(v, "amountPaise") = OrderOf(w).amountPaise
    <2>1. PICK u \in Logged : /\ Is(u, "payment.verified") /\ u.order = o
                              /\ Field(u, "amountPaise") = OrderOf(w).amountPaise
      BY <1>2 DEF OrderShown
    <2>2. Same(u, v)
      BY <1>4, <1>7, <2>1 DEF Same, Is, PerOrder
    <2>3. u = v
      BY <2>2, OnRecord
    <2> QED BY <2>1, <2>3
  <1>9. Field(v, "intentHash") = db.carts[cart].intent
    <2>1. VerifiedSound(v, Logged)
      BY <1>7, OnRecord DEF Sound
    <2>2. PICK k \in Logged : /\ Is(k, "mandate.cart_created")
                              /\ Agrees(k, v, {"cartHash", "intentHash", "agentId"})
      BY <2>1 DEF VerifiedSound
    <2>3. cart \in DOMAIN Stored("carts")
      BY <1>1, <1>4 DEF ReadsInvariant, BooksKept, Stored
    <2>4. CartShown(cart, Stored("carts")[cart], Logged)
      BY <2>3 DEF LedgerInvariant, RowsShown, Stored
    <2>5. PICK e \in Logged : /\ Is(e, "mandate.cart_created") /\ Field(e, "cartHash") = cart
                              /\ Field(e, "intentHash") = Stored("carts")[cart].intent
      BY <2>4 DEF CartShown
    <2>6. Same(e, k)
      BY <1>7, <2>2, <2>5 DEF Same, Is, Agrees
    <2>7. e = k
      BY <2>6, OnRecord
    <2> QED BY <1>1, <2>2, <2>5, <2>7 DEF Agrees
  <1> QED BY <1>4, <1>5, <1>7, <1>8, <1>9 DEF receipt

\* A capture: the Order is paid what its link asked for, once, with its Receipt; or
\* nothing is settled.
LEMMA ApplyCaptureLedger ==
    ASSUME StoreInvariant, ReadsInvariant, LedgerInvariant, NEW w \in Workers, ApplyCapture(w)
    PROVE  LedgerInvariant'
  <1> DEFINE o == job[w].call.order
             old == OrderOf(w)
             row == Linked(w)
             payment == job[w].call.hook.payment
             bound == BoundPayment(w)
             paid == [row EXCEPT !.status = "paid", !.gatewayPaymentId = bound]
             receipt == ReceiptOf(w)
             rows == [orders |-> Entry(o, paid), receipts |-> MintedReceipt(w)]
             paidEvent == Event("order.paid", o, [gatewayPaymentId |-> payment,
                                                  amountPaise |-> links[o].amountPaise])
             issued == MintEvent(w)
             anomaly == Event("order.anomaly_detected", o, [reason |-> "payment_after_cancellation"])
             locks == {<<"orders", o>>}
             events == LinkEvents(w) \o <<paidEvent, issued>>
             step == "fulfil"
             after == "idle"
  <1>1. /\ job[w].step = "apply" /\ job[w].step \in OrderSteps /\ UNCHANGED <<links, hooks>>
    BY DEF ApplyCapture, OrderSteps
  <1>2. \/ Payable(row) /\ Execute(w, locks, rows, events, step, after, NoField)
        \/ \E outcome : ApplyTo(w, row, <<anomaly>>, "commit", outcome)
        \/ \E outcome : ApplyTo(w, row, <<>>, "commit", outcome)
    BY Zenon DEF ApplyCapture
  <1>3. {"status", "link", "amountPaise", "gatewayPaymentId", "refundReason", "agentId"}
            \subseteq DOMAIN old
    <2>1. {"status", "link", "amountPaise", "gatewayPaymentId", "refundReason"} \subseteq DOMAIN old
      BY <1>1, AtApply DEF OrderKept
    <2>2. "agentId" \in DOMAIN old
      BY <1>1, OrderFound DEF OrderShown
    <2> QED BY <2>1, <2>2
  <1>4. SameBooks(row, old) /\ row.status = old.status
    <2> HIDE DEF old
    <2>1. row = [old EXCEPT !.gatewayOrderId = <<"gateway order", job[w].call.order>>]
      BY DEF Linked, old
    <2> HIDE DEF row
    <2> QED BY <1>3, <2>1 DEF SameBooks, SameTerms
  <1>5. /\ paidEvent.type = "order.paid" /\ paidEvent.order = o
        /\ Field(paidEvent, "amountPaise") = links[o].amountPaise
        /\ anomaly.type = "order.anomaly_detected"
    BY DEF Event, Field
  <1>6. \/ issued.type = "order.anomaly_detected"
        \/ /\ issued.type = "receipt.issued" /\ issued.order = o
           /\ receipt.gatewayPaymentId # NoField
           /\ \A f \in {"intentHash", "cartHash", "paymentHash", "amountPaise",
                         "gatewayPaymentId"} : Field(issued, f) = receipt[f]
    <2>1. CASE bound = NoField
      BY <2>1 DEF MintEvent, Event
    <2>2. CASE bound # NoField
      <3>1. issued = Event("receipt.issued", o, receipt) /\ receipt.gatewayPaymentId = bound
        BY <2>2 DEF MintEvent, ReceiptOf
      <3>2. {"intentHash", "cartHash", "paymentHash", "amountPaise", "gatewayPaymentId"}
                \subseteq DOMAIN receipt
        BY DEF ReceiptOf
      <3> HIDE DEF receipt, issued, bound
      <3> QED BY <2>2, <3>1, <3>2 DEF Event, Field
    <2> QED BY <2>1, <2>2
  <1> HIDE DEF row, old, bound, paidEvent, issued, anomaly, receipt
  <1>8. Silent(anomaly)
    BY <1>5 DEF Silent, RowTypes, PerOrder, RefusalTypes
  <1>9. ASSUME NEW outcome, ApplyTo(w, row, <<anomaly>>, "commit", outcome) PROVE LedgerInvariant'
    <2>1. Quiet(anomaly, o, row)
      BY <1>8 DEF Quiet
    <2> QED BY <1>1, <1>4, <1>9, <2>1, QuietTail, ApplySame DEF old
  <1>10. ASSUME NEW outcome, ApplyTo(w, row, <<>>, "commit", outcome) PROVE LedgerInvariant'
    <2>1. Quiet(anomaly, o, row)
      BY <1>8 DEF Quiet
    <2> QED BY <1>1, <1>4, <1>10, <2>1, QuietTail, ApplySame DEF old
  <1>11. CASE Payable(row) /\ Execute(w, locks, rows, events, step, after, NoField)
    <2>1. /\ {"agentId", "amountPaise", "status", "link"} \subseteq DOMAIN paid
          /\ paid.status = "paid" /\ paid.link = old.link
          /\ paid.amountPaise = old.amountPaise /\ paid.agentId = old.agentId
      BY <1>3, <1>4 DEF SameBooks, SameTerms
    <2>2. /\ DOMAIN rows \subseteq {"orders", "receipts", "refundReceipts"}
          /\ "orders" \in DOMAIN rows /\ rows["orders"] = Entry(o, paid)
      OBVIOUS
    <2>3. step \in {"commit", "fulfil"} /\ <<"orders", o>> \in locks
      OBVIOUS
    <2>4. issued.type \notin RowTypes
      BY <1>6 DEF RowTypes, PerOrder
    <2>5. /\ Len(events) \in Nat /\ paidEvent \in EventsOf(events)
          /\ \A i \in 1 .. Len(events) :
                Silent(events[i]) \/ events[i] = paidEvent \/ events[i] = issued
          /\ \A i \in 1 .. Len(events) : events[i].type \in RowTypes => i = Len(events) - 1
      <3>1. EndWith(events, paidEvent, issued)
        BY <2>4, PaidTail
      <3> HIDE DEF events
      <3> QED BY <3>1 DEF EndWith
    <2>6. old.status \notin Settled /\ old.status \notin {"cancelled", "refunded"}
      BY <1>4, <1>11 DEF Payable, Settled
    <2>7. /\ o \in DOMAIN Stored("orders") /\ old = Stored("orders")[o]
          /\ OrderShown(o, old, Logged)
      BY <1>1, OrderFound DEF old
    <2>8. Execute(w, locks, rows, events, step, after, NoField)
      BY <1>11
    <2> HIDE DEF o, rows, paid, events, step, after, locks
    <2>9. o \in DOMAIN links
      <3>1. Stored("orders")[o].link
        BY <1>1, AtApply DEF IsLinked, o
      <3> QED BY <2>7, <3>1 DEF LedgerInvariant, LinksFit
    <2>10. Sound(paidEvent, Logged)
      <3>1. PaidSound(paidEvent, Logged)
        BY <1>5, <2>9 DEF LedgerInvariant, LinksFit, PaidSound, Agrees
      <3>2. paidEvent.type \notin RefusalTypes
        BY <1>5 DEF RefusalTypes
      <3> QED BY <1>5, <3>1, <3>2 DEF Sound, Is
    <2>11. Sound(issued, Logged)
      <3>1. CASE issued.type = "order.anomaly_detected"
        <4>1. Silent(issued)
          BY <3>1 DEF Silent, RowTypes, PerOrder, RefusalTypes
        <4> QED BY <4>1, SilentIsSound
      <3>2. CASE /\ issued.type = "receipt.issued" /\ issued.order = o
                 /\ receipt.gatewayPaymentId # NoField
                 /\ \A f \in {"intentHash", "cartHash", "paymentHash", "amountPaise",
                               "gatewayPaymentId"} : Field(issued, f) = receipt[f]
        <4>1. PICK v \in Logged :
                  /\ Is(v, "payment.verified") /\ v.order = o
                  /\ Field(v, "intentHash") = receipt.intentHash
                  /\ Field(v, "cartHash") = receipt.cartHash
                  /\ Field(v, "paymentHash") = receipt.paymentHash
                  /\ Field(v, "amountPaise") = receipt.amountPaise
          BY <1>1, ReceiptShown DEF receipt, o
        <4>2. Agrees(v, issued, {"intentHash", "cartHash", "paymentHash", "amountPaise"})
          BY <3>2, <4>1 DEF Agrees
        <4>3. Field(issued, "gatewayPaymentId") # NoField
          BY <3>2
        <4>4. ReceiptSound(issued, Logged)
          BY <3>2, <4>1, <4>2, <4>3 DEF ReceiptSound
        <4>5. issued.type \notin RefusalTypes
          BY <3>2 DEF RefusalTypes
        <4> QED BY <3>2, <4>4, <4>5 DEF Sound, Is
      <3> QED BY <1>6, <3>1, <3>2 DEF o
    <2>12. \A f \in Logged : ~ Same(paidEvent, f)
      <3> SUFFICES ASSUME NEW f \in Logged, Same(paidEvent, f) PROVE FALSE
        OBVIOUS
      <3>1. Is(f, "order.paid") /\ f.order = o
        BY <1>5 DEF Same, Is, PerOrder
      <3>2. EventKept(f, db)
        BY DEF LedgerInvariant
      <3> QED BY <2>6, <2>7, <3>1, <3>2 DEF EventKept, Stored
    <2> DEFINE more == Logged \cup EventsOf(events)
    <2>13. OrderShown(o, paid, more)
      <3>1. Logged \subseteq more /\ paidEvent \in more
        BY <2>5
      <3> HIDE DEF more
      <3>2. \E e \in more : Is(e, "order.paid") /\ e.order = o
        BY <1>5, <3>1 DEF Is
      <3>3. paid.status # "refunded"
        BY <2>1
      <3> QED BY <2>1, <2>7, <3>1, <3>2, <3>3, OrderShownStill
    <2> HIDE DEF more
    <2>14. /\ RowsShown(rows, more)
           /\ DOMAIN RowsOf(rows, "orders") = {o} /\ RowsOf(rows, "orders")[o] = paid
      BY <2>2, <2>13, OneOrderShown
    <2>15. RowsFollow(rows, events)
      <3>1. Forward(Stored("orders")[o], paid)
        BY <2>1, <2>6, <2>7 DEF Forward
      <3> QED BY <2>9, <2>14, <3>1 DEF RowsFollow, more
    <2>16. EventsFollow(locks, rows, events)
      <3>1. EventKept(paidEvent, rows)
        BY <1>5, <2>1, <2>14 DEF EventKept, Is, PerOrder, Settled
      <3>2. EventLocked(paidEvent, locks)
        BY <1>5, <2>3 DEF EventLocked, Is, PerOrder
      <3>3. \A i \in 1 .. Len(events) :
                /\ Sound(events[i], Logged)
                /\ EventKept(events[i], rows) /\ EventLocked(events[i], locks)
                /\ \A f \in Logged : ~ Same(events[i], f)
        <4> SUFFICES ASSUME NEW i \in 1 .. Len(events)
                     PROVE  /\ Sound(events[i], Logged)
                            /\ EventKept(events[i], rows) /\ EventLocked(events[i], locks)
                            /\ \A f \in Logged : ~ Same(events[i], f)
          OBVIOUS
        <4>1. CASE Silent(events[i])
          BY <4>1, SilentIsSound, NotOnce
        <4>2. CASE events[i] = paidEvent
          BY <2>10, <2>12, <3>1, <3>2, <4>2
        <4>3. CASE events[i] = issued
          BY <2>4, <2>11, <4>3, NotOnce
        <4> QED BY <2>5, <4>1, <4>2, <4>3
      <3>4. ASSUME NEW i \in 1 .. Len(events), NEW j \in 1 .. Len(events), Same(events[i], events[j])
            PROVE  i = j
        <4>1. events[i].type \in RowTypes /\ events[j].type \in RowTypes
          BY <3>4, NotOnce
        <4> QED BY <2>5, <4>1
      <3> QED BY <3>3, <3>4 DEF EventsFollow
    <2>17. CapNext(events)
      <3>1. ~ Is(paidEvent, "payment.verified") /\ ~ Is(issued, "payment.verified")
        BY <1>5, <1>6 DEF Is
      <3>2. \A i \in 1 .. Len(events) : ~ Is(events[i], "payment.verified")
        BY <2>5, <3>1, SilentIsSound, NotOnce
      <3> QED BY <3>2, NoneVerified
    <2> QED BY <1>1, <2>3, <2>5, <2>8, <2>15, <2>16, <2>17, ApplyLedger
  <1> QED BY <1>2, <1>9, <1>10, <1>11

\* An event goes on with rows that went forward.
LEMMA KeptForward ==
    ASSUME NEW A, NEW B, \A t : DOMAIN RowsOf(A, t) \subseteq DOMAIN RowsOf(B, t),
           \A o \in DOMAIN RowsOf(A, "orders") :
               Forward(RowsOf(A, "orders")[o], RowsOf(B, "orders")[o])
    PROVE  \A e : EventKept(e, A) => EventKept(e, B)
  <1> SUFFICES ASSUME NEW e, EventKept(e, A) PROVE EventKept(e, B)
    OBVIOUS
  <1>1. /\ Is(e, "agent.registered") => Field(e, "agentId") \in DOMAIN RowsOf(B, "agents")
        /\ Is(e, "mandate.intent_declared") => Field(e, "intentHash") \in DOMAIN RowsOf(B, "intents")
        /\ Is(e, "mandate.cart_created") => Field(e, "cartHash") \in DOMAIN RowsOf(B, "carts")
        /\ Is(e, "payment.verified") =>
              <<Field(e, "agentId"), Field(e, "idempotencyKey")>> \in DOMAIN RowsOf(B, "payments")
        /\ e.type \in PerOrder => e.order \in DOMAIN RowsOf(B, "orders")
    BY DEF EventKept
  <1>2. ASSUME Is(e, "order.paid") PROVE RowsOf(B, "orders")[e.order].status \in Settled
    <2>1. e.order \in DOMAIN RowsOf(A, "orders") /\ RowsOf(A, "orders")[e.order].status \in Settled
      BY <1>2 DEF EventKept, Is, PerOrder
    <2> QED BY <2>1 DEF Forward
  <1>3. ASSUME Is(e, "order.refunded") PROVE RowsOf(B, "orders")[e.order].status = "refunded"
    <2>1. e.order \in DOMAIN RowsOf(A, "orders") /\ RowsOf(A, "orders")[e.order].status = "refunded"
      BY <1>3 DEF EventKept, Is, PerOrder
    <2> QED BY <2>1 DEF Forward
  <1>4. ASSUME Is(e, "order.cancelled")
        PROVE  /\ e.order \in DOMAIN RowsOf(B, "orders")
               /\ RowsOf(B, "orders")[e.order].status = "cancelled"
    <2>1. e.order \in DOMAIN RowsOf(A, "orders") /\ RowsOf(A, "orders")[e.order].status = "cancelled"
      BY <1>4 DEF EventKept
    <2> QED BY <2>1 DEF Forward
  <1> QED BY <1>1, <1>2, <1>3, <1>4 DEF EventKept

\* New rows over old ones, key by key.
IsOver(h, f, g) ==
    /\ DOMAIN h = DOMAIN f \cup DOMAIN g
    /\ \A x \in DOMAIN f : h[x] = f[x]
    /\ \A x \in DOMAIN g \ DOMAIN f : h[x] = g[x]

\* What a request has written when it has written more.
LEMMA WritesOver ==
    ASSUME StoreInvariant, ReadsInvariant, NEW w \in Workers,
           NEW locks, NEW writes, NEW events, NEW step, NEW after, NEW reply,
           Execute(w, locks, writes, events, step, after, reply), Len(events) \in Nat
    PROVE  \A t : IsOver(Writes(w, t)', RowsOf(writes, t), Writes(w, t))
  <1> SUFFICES ASSUME NEW t PROVE IsOver(Writes(w, t)', RowsOf(writes, t), Writes(w, t))
    OBVIOUS
  <1> DEFINE f == RowsOf(writes, t)
             g == Writes(w, t)
             h == Writes(w, t)'
  <1>1. h = f ++ g
    BY Executed
  <1> HIDE DEF f, g, h
  <1>2. /\ DOMAIN h = DOMAIN f \cup DOMAIN g
        /\ \A x \in DOMAIN f : h[x] = f[x]
        /\ \A x \in DOMAIN g \ DOMAIN f : h[x] = g[x]
    BY <1>1 DEF ++
  <1>3. IsOver(h, f, g)
    BY <1>2 DEF IsOver
  <1> QED BY <1>3 DEF f, g, h

\* Statements that follow in the transaction of a webhook touch no row of the books
\* but in what does not matter here.
LEMMA MoreLedger ==
    ASSUME StoreInvariant, ReadsInvariant, LedgerInvariant, NEW w \in Workers,
           NEW locks, NEW writes, NEW events, NEW step, NEW after, NEW reply,
           Execute(w, locks, writes, events, step, after, reply), UNCHANGED <<links, hooks>>,
           Len(events) \in Nat, \A i \in 1 .. Len(events) : Silent(events[i]),
           job[w].step = "fulfil", step = "commit",
           \A t \in {"agents", "intents", "carts", "payments"} : DOMAIN RowsOf(writes, t) = {},
           DOMAIN RowsOf(writes, "orders") \subseteq DOMAIN Writes(w, "orders"),
           \A o \in DOMAIN RowsOf(writes, "orders") :
               /\ SameBooks(RowsOf(writes, "orders")[o], Writes(w, "orders")[o])
               /\ RowsOf(writes, "orders")[o].status = Writes(w, "orders")[o].status
    PROVE  LedgerInvariant'
  <1> DEFINE old == job[w].tx.writes
             new == job'[w].tx.writes
  <1>1. /\ BooksStay /\ job'[w].tx.locks = job[w].tx.locks \cup locks
        /\ Pending(w)' = Pending(w) \cup {events[i] : i \in 1 .. Len(events)}
        /\ \A t : Writes(w, t)' = RowsOf(writes, t) ++ Writes(w, t)
    BY Executed
  <1>2. /\ Logged' = Logged /\ Stored("orders")' = Stored("orders")
        /\ Events(w) \subseteq Events(w)'
    <2>1. Logged' = Logged /\ Stored("orders")' = Stored("orders")
      BY <1>1, SameShown
    <2> QED BY <1>1, <2>1 DEF Events
  <1>3. \A t : RowsOf(new, t) = Writes(w, t)' /\ RowsOf(old, t) = Writes(w, t)
    BY DEF Writes
  <1> HIDE DEF old, new
  <1>4. \A t : /\ DOMAIN RowsOf(new, t) = DOMAIN RowsOf(writes, t) \cup DOMAIN RowsOf(old, t)
               /\ \A x \in DOMAIN RowsOf(writes, t) : RowsOf(new, t)[x] = RowsOf(writes, t)[x]
               /\ \A x \in DOMAIN RowsOf(old, t) \ DOMAIN RowsOf(writes, t) :
                     RowsOf(new, t)[x] = RowsOf(old, t)[x]
    <2>1. \A t : IsOver(Writes(w, t)', RowsOf(writes, t), Writes(w, t))
      BY WritesOver
    <2>2. \A t : IsOver(RowsOf(new, t), RowsOf(writes, t), RowsOf(old, t))
      BY <1>3, <2>1
    <2> QED BY <2>2 DEF IsOver
  <1>5. \A o \in DOMAIN RowsOf(old, "orders") :
            /\ o \in DOMAIN RowsOf(new, "orders")
            /\ RowsOf(new, "orders")[o].status = RowsOf(old, "orders")[o].status
            /\ RowsOf(new, "orders")[o].link = RowsOf(old, "orders")[o].link
    <2> SUFFICES ASSUME NEW o \in DOMAIN RowsOf(old, "orders")
                 PROVE  /\ o \in DOMAIN RowsOf(new, "orders")
                        /\ RowsOf(new, "orders")[o].status = RowsOf(old, "orders")[o].status
                        /\ RowsOf(new, "orders")[o].link = RowsOf(old, "orders")[o].link
      OBVIOUS
    <2> DEFINE a == RowsOf(old, "orders")[o]
               b == RowsOf(new, "orders")[o]
    <2>1. o \in DOMAIN RowsOf(new, "orders")
      BY <1>4
    <2>2. CASE o \in DOMAIN RowsOf(writes, "orders")
      <3>1. SameBooks(b, a) /\ b.status = a.status
        BY <1>3, <1>4, <2>2
      <3> HIDE DEF a, b
      <3>2. b.link = a.link
        BY <3>1 DEF SameBooks, SameTerms
      <3> QED BY <2>1, <3>1, <3>2 DEF a, b
    <2>3. CASE o \notin DOMAIN RowsOf(writes, "orders")
      BY <1>4, <2>1, <2>3
    <2> QED BY <2>2, <2>3
  <1>6. DOMAIN RowsOf(new, "orders") = DOMAIN RowsOf(old, "orders")
    BY <1>3, <1>4
  <1>7. EventsFit(w) /\ RowsGoOn(w)
    BY DEF LedgerInvariant
  <1>8. EventsFit(w)'
    <2> SUFFICES ASSUME NEW e \in Pending(w)'
                 PROVE  EventKept(e, new) /\ EventLocked(e, job'[w].tx.locks)
      BY DEF EventsFit, new
    <2>1. CASE e \in Pending(w)
      <3>1. EventKept(e, old) /\ EventLocked(e, job[w].tx.locks)
        BY <1>7, <2>1 DEF EventsFit, old
      <3>2. EventLocked(e, job'[w].tx.locks)
        BY <1>1, <3>1 DEF EventLocked
      <3>3. \A t : DOMAIN RowsOf(old, t) \subseteq DOMAIN RowsOf(new, t)
        BY <1>4
      <3>4. \A o \in DOMAIN RowsOf(old, "orders") :
                Forward(RowsOf(old, "orders")[o], RowsOf(new, "orders")[o])
        BY <1>5 DEF Forward
      <3>5. EventKept(e, new)
        BY <3>1, <3>3, <3>4, KeptForward
      <3> QED BY <3>2, <3>5
    <2>2. CASE e \in {events[i] : i \in 1 .. Len(events)}
      BY <2>2, SilentIsSound, NotOnce
    <2> QED BY <1>1, <2>1, <2>2
  <1>9. RowsShown(new, Events(w)')
    <2>1. RowsShown(old, Events(w)')
      BY <1>2, <1>7, ShownMore DEF RowsGoOn, old
    <2>2. ASSUME NEW o \in DOMAIN RowsOf(new, "orders")
          PROVE  OrderShown(o, RowsOf(new, "orders")[o], Events(w)')
      <3>1. o \in DOMAIN RowsOf(old, "orders")
        BY <1>6
      <3>2. OrderShown(o, RowsOf(old, "orders")[o], Events(w)')
        BY <2>1, <3>1 DEF RowsShown
      <3>3. CASE o \in DOMAIN RowsOf(writes, "orders")
        <4> DEFINE a == RowsOf(old, "orders")[o]
                   b == RowsOf(new, "orders")[o]
        <4>1. SameBooks(b, a) /\ b.status = a.status
          BY <1>3, <1>4, <3>3
        <4> HIDE DEF a, b
        <4>2. OrderShown(o, b, Events(w)')
          BY <3>2, <4>1 DEF OrderShown, SameBooks, SameTerms, a
        <4> QED BY <4>2 DEF b
      <3>4. CASE o \notin DOMAIN RowsOf(writes, "orders")
        BY <1>4, <3>1, <3>2, <3>4
      <3> QED BY <3>3, <3>4
    <2>3. ASSUME NEW t \in {"agents", "intents", "carts", "payments"}
          PROVE  /\ DOMAIN RowsOf(new, t) = DOMAIN RowsOf(old, t)
                 /\ \A x \in DOMAIN RowsOf(old, t) : RowsOf(new, t)[x] = RowsOf(old, t)[x]
      BY <1>4
    <2> QED BY <2>1, <2>2, <2>3 DEF RowsShown
  <1>10. RowsGoOn(w)'
    <2> SUFFICES ASSUME NEW o \in DOMAIN RowsOf(new, "orders")
                 PROVE  /\ RowsOf(new, "orders")[o].link => o \in DOMAIN links
                        /\ o \in DOMAIN Stored("orders") =>
                              Forward(Stored("orders")[o], RowsOf(new, "orders")[o])
      BY <1>2, <1>3, <1>9 DEF RowsGoOn, new
    <2>1. o \in DOMAIN RowsOf(old, "orders")
      BY <1>6
    <2>2. /\ RowsOf(old, "orders")[o].link => o \in DOMAIN links
          /\ o \in DOMAIN Stored("orders") => Forward(Stored("orders")[o], RowsOf(old, "orders")[o])
      BY <1>3, <1>7, <2>1 DEF RowsGoOn
    <2> QED BY <1>5, <2>1, <2>2 DEF Forward
  <1>11. PurchaseFits(w)'
    <2>1. step \in {"commit", "fulfil"} /\ job[w].step # "idle"
      OBVIOUS
    <2> QED BY <2>1, ExecutedPurchase
  <1>12. \A i \in 1 .. Len(events) :
             /\ Sound(events[i], Logged) /\ \A f : ~ Same(events[i], f)
             /\ ~ Is(events[i], "payment.verified")
    BY SilentIsSound, NotOnce
  <1>13. CapNext(events)
    BY <1>12, NoneVerified
  <1> QED BY <1>8, <1>10, <1>11, <1>12, <1>13, ExecuteLedger DEF CapNext

\* Stock is taken, or the Order is marked as oversold.
LEMMA FulfilLedger ==
    ASSUME StoreInvariant, ReadsInvariant, LedgerInvariant, NEW w \in Workers, Fulfil(w)
    PROVE  LedgerInvariant'
  <1> DEFINE o == job[w].call.order
             items == OrderOf(w).items
             row == job[w].tx.writes.orders[o]
             sold == {items[i].variantId : i \in DOMAIN items}
             Quantity(v) == items[CHOOSE i \in DOMAIN items : items[i].variantId = v].quantity
             short == {[variantId |-> v, requested |-> Quantity(v), available |-> db.variants[v].stock] :
                          v \in {v \in sold : db.variants[v].stock < Quantity(v)}}
             left == [v \in sold |-> [db.variants[v] EXCEPT !.stock = @ - Quantity(v)]]
             taken == [variants |-> left]
             oversold == [row EXCEPT !.shortfall = short]
             marked == [orders |-> Entry(o, oversold)]
             locks == {<<"variants", v>> : v \in sold}
             fulfilled == Event("order.fulfilled", o, <<>>)
             detected == Event("order.oversell_detected", o, [shortfalls |-> short])
             step == "commit"
             ends == "idle"
             refunds == "refund"
  <1>1. job[w].step = "fulfil" /\ UNCHANGED <<links, hooks>>
    BY DEF Fulfil
  <1>2. \/ \E outcome : Execute(w, locks, taken, <<fulfilled>>, step, ends, outcome)
        \/ Execute(w, locks, marked, <<detected>>, step, refunds, NoField)
    BY Zenon DEF Fulfil
  <1>3. step = "commit"
    OBVIOUS
  <1>4. Silent(fulfilled) /\ Silent(detected)
    BY DEF Event, Silent, RowTypes, PerOrder, RefusalTypes
  <1>5. DOMAIN taken = {"variants"}
    OBVIOUS
  <1>6. DOMAIN marked = {"orders"} /\ DOMAIN marked["orders"] = {o} /\ marked["orders"][o] = oversold
    BY DEF Entry
  <1>7. o \in DOMAIN Writes(w, "orders") /\ row = Writes(w, "orders")[o]
    <2>1. o \in OwnOrders(w)
      BY <1>1 DEF StoreInvariant, JobFits, RowsKnown
    <2>2. "orders" \in DOMAIN job[w].tx.writes
      BY <2>1 DEF OwnOrders, RowsOf
    <2> QED BY <2>1, <2>2 DEF OwnOrders, Writes, RowsOf
  <1>8. {"status", "link", "amountPaise", "gatewayPaymentId", "refundReason", "agentId"}
            \subseteq DOMAIN row
    <2>1. {"status", "link", "amountPaise", "gatewayPaymentId", "refundReason"} \subseteq DOMAIN row
      BY <1>7 DEF ReadsInvariant, ReadsFit, TxKept, OrdersKept, OrderKept
    <2>2. OrderShown(o, row, Events(w))
      BY <1>7 DEF LedgerInvariant, RowsGoOn, RowsShown, Writes
    <2> QED BY <2>1, <2>2 DEF OrderShown
  <1> HIDE DEF short, row
  <1>9. SameBooks(oversold, row) /\ oversold.status = row.status
    BY <1>8 DEF SameBooks, SameTerms
  <1> HIDE DEF taken, oversold, marked, locks, fulfilled, detected, step, ends, refunds
  <1>10. ASSUME NEW outcome, Execute(w, locks, taken, <<fulfilled>>, step, ends, outcome)
         PROVE  LedgerInvariant'
    <2> DEFINE events == <<fulfilled>>
    <2>1. Len(events) \in Nat /\ \A i \in 1 .. Len(events) : Silent(events[i])
      BY <1>4
    <2>2. Execute(w, locks, taken, events, step, ends, outcome)
      BY <1>10
    <2>3. \A t \in {"agents", "intents", "carts", "payments", "orders"} :
              DOMAIN RowsOf(taken, t) = {}
      BY <1>5, NothingFits DEF RowsOf
    <2>4. DOMAIN RowsOf(taken, "orders") = {}
      BY <2>3
    <2>5. \A t \in {"agents", "intents", "carts", "payments"} : DOMAIN RowsOf(taken, t) = {}
      BY <2>3
    <2> HIDE DEF events
    <2> QED BY <1>1, <1>3, <2>1, <2>2, <2>4, <2>5, MoreLedger
  <1>11. CASE Execute(w, locks, marked, <<detected>>, step, refunds, NoField)
    <2> DEFINE events == <<detected>>
    <2>1. Len(events) \in Nat /\ \A i \in 1 .. Len(events) : Silent(events[i])
      BY <1>4
    <2>2. Execute(w, locks, marked, events, step, refunds, NoField)
      BY <1>11
    <2>3. \A t \in {"agents", "intents", "carts", "payments"} : DOMAIN RowsOf(marked, t) = {}
      BY <1>6, NothingFits DEF RowsOf
    <2>4. DOMAIN RowsOf(marked, "orders") = {o} /\ RowsOf(marked, "orders")[o] = oversold
      BY <1>6 DEF RowsOf
    <2>5. \A x \in DOMAIN RowsOf(marked, "orders") :
              /\ SameBooks(RowsOf(marked, "orders")[x], Writes(w, "orders")[x])
              /\ RowsOf(marked, "orders")[x].status = Writes(w, "orders")[x].status
      BY <1>7, <1>9, <2>4
    <2>6. DOMAIN RowsOf(marked, "orders") \subseteq DOMAIN Writes(w, "orders")
      BY <1>7, <2>4
    <2> HIDE DEF events
    <2> QED BY <1>1, <1>3, <2>1, <2>2, <2>3, <2>5, <2>6, MoreLedger
  <1> QED BY <1>2, <1>10, <1>11

-----------------------------------------------------------------------------
(***************************************************************************)
(* Pages, edits, beginnings and ends.                                      *)
(***************************************************************************)
\* A page is only read.
LEMMA PagesLedger ==
    ASSUME StoreInvariant, LedgerInvariant, NEW w \in Workers, Pages(w)
    PROVE  LedgerInvariant'
  <1>1. /\ job[w].step # "idle" /\ UNCHANGED <<links, hooks>>
        /\ \/ \E reply : Reply(w, reply)
           \/ \E seen : \E step \in PageSteps : Read(w, seen, step)
    BY PagesOnlyRead
  <1> DEFINE ends == "idle"
  <1>2. ends = "idle" /\ ends \notin {"place_order", "key_known", "issue_link", "apply"}
    OBVIOUS
  <1> HIDE DEF ends
  <1>3. CASE \E reply : Reply(w, reply)
    BY <1>1, <1>2, <1>3, AnswersLedger
  <1>4. ASSUME NEW seen, NEW step \in PageSteps, Read(w, seen, step) PROVE LedgerInvariant'
    <2>1. step \notin {"place_order", "key_known", "issue_link", "apply"}
      BY DEF PageSteps
    <2> QED BY <1>1, <1>4, <2>1, AnswersLedger
  <1> QED BY <1>1, <1>3, <1>4

\* A request without a transaction has written nothing.
LEMMA NothingPending ==
    ASSUME NEW w, job'[w].tx = NoTx
    PROVE  /\ EventsFit(w)' /\ RowsGoOn(w)'
           /\ Entries(job'[w].tx.events) = {}
  <1>1. /\ \A t : Writes(w, t)' = <<>> /\ DOMAIN Writes(w, t)' = {}
        /\ Pending(w)' = {}
    BY EmptyTxNext
  <1>2. EventsFit(w)'
    BY <1>1 DEF EventsFit
  <1>3. \A t : DOMAIN RowsOf(job'[w].tx.writes, t) = {}
    BY <1>1 DEF Writes
  <1>4. RowsShown(job'[w].tx.writes, Events(w)')
    BY <1>3 DEF RowsShown
  <1>5. RowsGoOn(w)'
    BY <1>1, <1>4 DEF RowsGoOn
  <1>6. Entries(job'[w].tx.events) = {}
    <2>1. DOMAIN job'[w].tx.events = {}
      BY NothingFits DEF NoTx
    <2> QED BY <2>1 DEF Entries
  <1> QED BY <1>2, <1>5, <1>6

\* So a request that drops its transaction, or has none, is about itself and the
\* gateway.
LEMMA WithoutLedger ==
    ASSUME StoreInvariant, LedgerInvariant, NEW w \in Workers, OneMoves(w),
           job'[w].tx = NoTx, BooksStay, DOMAIN links \subseteq DOMAIN links',
           PurchaseFits(w)', LinksFit'
    PROVE  LedgerInvariant'
  <1>1. EventsFit(w)' /\ RowsGoOn(w)' /\ Entries(job'[w].tx.events) = {}
    BY NothingPending
  <1>2. Entries(log)' = Entries(log) /\ Cancelled(db)' = Cancelled(db) /\ Logged' = Logged
    BY SameShown
  <1>3. Written' \subseteq Written
    <2>1. \A v \in Workers \ {w} : job'[v] = job[v]
      BY DEF OneMoves
    <2>2. Written' = Entries(log) \cup UNION {Entries(job'[v].tx.events) : v \in Workers}
      BY <1>2 DEF Written
    <2>3. \A p \in Written' :
              p \in Entries(log) \/ \E v \in Workers : p \in Entries(job'[v].tx.events)
      BY <2>2
    <2>4. \A p : (p \in Entries(log) \/ \E v \in Workers : p \in Entries(job[v].tx.events))
                     => p \in Written
      BY DEF Written
    <2> QED BY <1>1, <2>1, <2>3, <2>4
  <1>4. Grounded'
    BY <1>2, <1>3 DEF LedgerInvariant, Grounded
  <1>5. Once(Written)'
    BY <1>3 DEF LedgerInvariant, Once
  <1>6. WithinCap(Written, Entries(log), Cancelled(db))'
    <2> DEFINE W == Written
               V == Written'
               R == Entries(log)
               G == Cancelled(db)
    <2>1. IsFiniteSet(W) /\ V \in SUBSET W
      BY <1>3, WrittenIs
    <2>2. /\ \A p \in VerifiedIn(W) : Field(p.event, "amountPaise") \in Nat
          /\ \A p \in W : Is(p.event, "agent.registered") => Field(p.event, "capPaise") \in Nat
      BY WrittenSays DEF LedgerInvariant
    <2>3. WithinCap(W, R, G)
      BY DEF LedgerInvariant
    <2> HIDE DEF W, V, R, G
    <2>4. WithinCap(V, R, G)
      BY <2>1, <2>2, <2>3, CapStays
    <2> QED BY <1>2, <2>4 DEF V, R, G
  <1>7. (RowsShown(db, Logged) /\ \A e \in Logged : EventKept(e, db))'
    BY <1>2, SameShown DEF LedgerInvariant
  <1>8. \A v \in Workers \ {w} : EventsFit(v)' /\ RowsGoOn(v)' /\ PurchaseFits(v)'
    BY OthersGoOn DEF LedgerInvariant, OneMoves
  <1> QED BY <1>1, <1>4, <1>5, <1>6, <1>7, <1>8 DEF LedgerInvariant

\* An edited Variant is none of the books.
LEMMA EditVariantLedger ==
    ASSUME StoreInvariant, LedgerInvariant, NEW w \in Workers, EditVariant(w)
    PROVE  LedgerInvariant'
  <1> DEFINE c == job[w].call
             row == c.set ++ db.variants[c.variant]
  <1>0. /\ job[w].step = "edit_variant" /\ DOMAIN job = Workers /\ DOMAIN db = Tables
        /\ DOMAIN job[w] = JobFields /\ job[w].tx = NoTx /\ UNCHANGED <<log, links, hooks>>
    BY DEF EditVariant, StoreInvariant, JobFits, JobShape, InTx
  <1>1. OneMoves(w) /\ job'[w].step = "idle" /\ job'[w].tx = NoTx
    BY <1>0 DEF EditVariant, OneMoves, JobFields
  <1>2. db' = [db EXCEPT !.variants[c.variant] = row]
    BY DEF EditVariant
  <1> HIDE DEF row
  <1>3. BooksStay
    <2>1. DOMAIN db' = DOMAIN db /\ \A t \in DOMAIN db : t # "variants" => db'[t] = db[t]
      BY <1>0, <1>2
    <2>2. db'.payments = db.payments
      BY <1>0, <2>1 DEF Tables
    <2> QED BY <1>0, <2>1, <2>2 DEF BooksStay, RowsOf
  <1>4. PurchaseFits(w)'
    BY <1>1 DEF PurchaseFits
  <1>5. LinksFit'
    BY <1>0, <1>3, LinksStay
  <1> QED BY <1>0, <1>1, <1>3, <1>4, <1>5, WithoutLedger

\* A transaction that is lost leaves nothing behind but its webhook.
LEMMA RollbackLedger ==
    ASSUME StoreInvariant, LedgerInvariant, NEW w \in Workers, Rollback(w)
    PROVE  LedgerInvariant'
  <1>0. /\ job[w].tx # NoTx /\ UNCHANGED <<db, log, links>> /\ JobFits(w) /\ DOMAIN job = Workers
    BY DEF Rollback, StoreInvariant
  <1>1. job[w].step # "idle"
    BY <1>0 DEF JobFits, JobShape, InTx
  <1>2. OneMoves(w) /\ job'[w].step = "idle" /\ job'[w].tx = NoTx
    BY <1>0 DEF Rollback, OneMoves, JobFields, JobFits, JobShape
  <1>3. BooksStay
    BY <1>0, UnchangedBooks
  <1>4. PurchaseFits(w)'
    BY <1>2 DEF PurchaseFits
  <1>5. LinksFit'
    BY <1>0, <1>3, LinksSame
  <1> QED BY <1>0, <1>2, <1>3, <1>4, <1>5, WithoutLedger

\* A client's call starts with what it asks for.
LEMMA CallStoreLedger ==
    ASSUME StoreInvariant, LedgerInvariant, NEW c \in Clients, CallStore(c)
    PROVE  LedgerInvariant'
  <1>0. /\ c \in Workers /\ DOMAIN job = Workers /\ at \in [Clients -> Nat]
        /\ at[c] < Len(Script[c]) /\ UNCHANGED <<db, log, links, hooks>>
    BY DEF CallStore, StoreInvariant, Workers
  <1>1. PICK call \in Script[c][at[c] + 1] : Open(c, call)
    BY DEF CallStore
  <1>2. call.call \in ClientCalls
    <2>1. /\ Len(Script[c]) \in Nat /\ DOMAIN Script[c] = 1 .. Len(Script[c])
          /\ \A i \in DOMAIN Script[c] : \A x \in Script[c][i] : CallFits(x)
      BY StorefrontAssumption
    <2>2. at[c] + 1 \in DOMAIN Script[c]
      BY <1>0, <2>1
    <2> QED BY <1>1, <2>1, <2>2 DEF CallFits
  <1>3. /\ OneMoves(c) /\ job'[c].step = call.call /\ job'[c].call = call /\ job'[c].tx = NoTx
    BY <1>0, <1>1 DEF Open, OneMoves, Idle
  <1>4. PurchaseFits(c)'
    BY <1>2, <1>3 DEF PurchaseFits, ClientCalls
  <1>5. BooksStay
    BY <1>0, UnchangedBooks
  <1>6. LinksFit'
    BY <1>0, <1>5, LinksStay
  <1> QED BY <1>0, <1>3, <1>4, <1>5, <1>6, WithoutLedger

\* A webhook is received, which is logged.
LEMMA DeliverHookLedger ==
    ASSUME StoreInvariant, LedgerInvariant, NEW d \in Deliverers, DeliverHook(d)
    PROVE  LedgerInvariant'
  <1>1. PICK hook \in hooks : Receive(d, hook)
    BY DEF DeliverHook
  <1> DEFINE call == [call |-> "webhook", hook |-> hook, order |-> hook.order]
             event == Event("gateway.webhook_received", hook.order, [kind |-> hook.event])
             received == Entry(drawn + 1, event)
             new == [seq |-> drawn + 1, event |-> event]
  <1>0. /\ d \in Workers /\ DOMAIN job = Workers /\ hooks' = hooks \ {hook} /\ drawn \in Nat
        /\ UNCHANGED <<db, log, links>> /\ job[d].tx = NoTx
    BY <1>1 DEF DeliverHook, Receive, StoreInvariant, Workers, Numbers, JobFits, JobShape, InTx
  <1>2. BooksStay
    BY <1>0, UnchangedBooks
  <1>3. /\ OneMoves(d) /\ job'[d].step = "apply" /\ job'[d].call = call
        /\ job'[d].tx.writes = <<>> /\ job'[d].tx.events = received
    <2> HIDE DEF event
    <2>1. job' = [job EXCEPT ![d] = [Idle EXCEPT !.step = "apply", !.call = call,
                                                 !.tx.events = received]]
      BY <1>1 DEF Receive, event
    <2> HIDE DEF call, received
    <2>2. DOMAIN Idle = JobFields /\ Idle.tx = NoTx /\ DOMAIN NoTx = TxFields
      BY NothingFits
    <2>3. NoTx.writes = <<>>
      BY DEF NoTx
    <2> QED BY <1>0, <2>1, <2>2, <2>3 DEF OneMoves, JobFields, TxFields
  <1>4. Is(event, "gateway.webhook_received") /\ Silent(event)
    BY DEF Event, Is, Silent, RowTypes, PerOrder, RefusalTypes
  <1>5. call.call = "webhook" /\ call.hook = hook
    OBVIOUS
  <1>6. DOMAIN received = {drawn + 1} /\ received[drawn + 1] = event
    BY OneRow
  <1>7. new.seq = drawn + 1 /\ new.event = event
    OBVIOUS
  <1>8. Entries(received) = {new}
    <2> HIDE DEF received
    <2> QED BY <1>6 DEF Entries
  <1> HIDE DEF received, event, call, new
  <1>9. Pending(d)' = {event}
    BY <1>3, <1>6 DEF Pending
  <1>10. \A t : DOMAIN Writes(d, t)' = {}
    BY <1>3, NothingFits DEF Writes
  <1>11. Written' = Written \cup {new}
    <2>1. \A v \in Workers \ {d} : job'[v] = job[v]
      BY <1>3 DEF OneMoves
    <2>2. Entries(job[d].tx.events) = {}
      <3>1. DOMAIN job[d].tx.events = {}
        BY <1>0, NothingFits DEF NoTx
      <3> QED BY <3>1 DEF Entries
    <2>3. Written' = Entries(log) \cup UNION {Entries(job'[v].tx.events) : v \in Workers}
      BY <1>0 DEF Written
    <2>4. \A p : p \in Written' <=>
              p \in Entries(log) \/ \E v \in Workers : p \in Entries(job'[v].tx.events)
      BY <2>3
    <2>5. \A p : p \in Written <=>
              p \in Entries(log) \/ \E v \in Workers : p \in Entries(job[v].tx.events)
      BY DEF Written
    <2>6. Entries(job'[d].tx.events) = {new}
      BY <1>3, <1>8
    <2>7. \A p : p \in Written' <=> p \in Written \/ p = new
      BY <1>0, <2>1, <2>2, <2>4, <2>5, <2>6
    <2> QED BY <2>7
  <1>12. Entries(log)' = Entries(log) /\ Cancelled(db)' = Cancelled(db) /\ Logged' = Logged
    BY <1>2, SameShown
  <1>13. Grounded'
    <2>1. Sound(new.event, Earlier(Entries(log), new.seq))
      BY <1>4, <1>7, SilentIsSound
    <2> QED BY <1>11, <1>12, <2>1 DEF LedgerInvariant, Grounded
  <1>14. /\ event.type \notin RowTypes /\ ~ Is(event, "payment.verified")
         /\ ~ Is(event, "agent.registered")
         /\ \A f : ~ Same(event, f) /\ ~ Same(f, event)
    BY <1>4, SilentIsSound, NotOnce
  <1>15. Once(Written)'
    BY <1>7, <1>11, <1>14 DEF LedgerInvariant, Once
  <1>16. WithinCap(Written, Entries(log), Cancelled(db))'
    <2> DEFINE W == Written'
               V == Written
               R == Entries(log)
               G == Cancelled(db)
    <2> SUFFICES ASSUME NEW q \in VerifiedIn(W), NEW r \in W,
                        Is(r.event, "agent.registered"), Agrees(r.event, q.event, {"agentId"})
                 PROVE  SumFunctionOnSet(PaiseOf(W), Counting(W, R, G, q))
                            <= Field(r.event, "capPaise")
      BY <1>12 DEF WithinCap
    <2>1. q \in VerifiedIn(V) /\ r \in V
      BY <1>7, <1>11, <1>14 DEF VerifiedIn
    <2>2. IsFiniteSet(W) /\ V \in SUBSET W
      BY <1>11, WrittenIs, FS_AddElement
    <2>3. \A p \in W \ V : ~ (p.seq <= q.seq)
      <3>1. q.seq \in 1 .. drawn
        BY <2>1, WrittenIs DEF VerifiedIn
      <3> QED BY <1>0, <1>7, <1>11, <3>1
    <2>4. \A p \in VerifiedIn(V) : Field(p.event, "amountPaise") \in Nat
      BY WrittenSays DEF LedgerInvariant
    <2>5. SumFunctionOnSet(PaiseOf(V), Counting(V, R, G, q)) <= Field(r.event, "capPaise")
      BY <2>1 DEF LedgerInvariant, WithinCap
    <2> HIDE DEF W, V, R, G
    <2>6. SumFunctionOnSet(PaiseOf(W), Counting(W, R, G, q))
              = SumFunctionOnSet(PaiseOf(V), Counting(V, R, G, q))
      BY <2>1, <2>2, <2>3, <2>4, CapBefore
    <2> QED BY <2>5, <2>6
  <1>17. (RowsShown(db, Logged) /\ \A e \in Logged : EventKept(e, db))'
    BY <1>2, <1>12, SameShown DEF LedgerInvariant
  <1>18. \A v \in Workers \ {d} : EventsFit(v)' /\ RowsGoOn(v)' /\ PurchaseFits(v)'
    BY <1>0, <1>2, <1>3, OthersGoOn DEF LedgerInvariant, OneMoves
  <1>19. EventsFit(d)'
    BY <1>9, <1>14, NotOnce DEF EventsFit
  <1>20. RowsGoOn(d)'
    <2>1. RowsShown(job'[d].tx.writes, Events(d)')
      BY <1>10 DEF RowsShown, Writes
    <2> QED BY <1>10, <2>1 DEF RowsGoOn
  <1>21. PurchaseFits(d)'
    BY <1>3, <1>4, <1>5, <1>9 DEF PurchaseFits
  <1>22. LinksFit'
    BY <1>0, <1>2, LinksSame
  <1> QED BY <1>13, <1>15, <1>16, <1>17, <1>18, <1>19, <1>20, <1>21, <1>22 DEF LedgerInvariant

-----------------------------------------------------------------------------
(***************************************************************************)
(* A commit.                                                               *)
(***************************************************************************)
\* It writes nothing new: what was open is on record.
LEMMA CommitWritten ==
    ASSUME StoreInvariant, NEW w \in Workers, Commit(w)
    PROVE  /\ Written' = Written /\ Entries(log) \subseteq Entries(log)'
           /\ Logged \subseteq Logged'
  <1> DEFINE events == job[w].tx.events
  <1>1. /\ OneMoves(w) /\ job'[w].tx = NoTx /\ Logged' = Events(w) /\ log' = events ++ log
    BY Committed DEF Commit
  <1>2. DOMAIN events \cap DOMAIN log = {}
    BY DEF StoreInvariant, Numbers
  <1>3. Entries(job'[w].tx.events) = {}
    BY <1>1, NothingPending
  <1> HIDE DEF events
  <1>4. /\ DOMAIN log' = DOMAIN events \cup DOMAIN log
        /\ \A n \in DOMAIN events : log'[n] = events[n]
        /\ \A n \in DOMAIN log : log'[n] = log[n]
    BY <1>1, <1>2 DEF ++
  <1>5. Entries(log') = Entries(events) \cup Entries(log)
    BY <1>4 DEF Entries
  <1>6. Entries(log)' = Entries(log')
    BY DEF Entries
  <1>7. Written' = Entries(log') \cup UNION {Entries(job'[v].tx.events) : v \in Workers}
    BY <1>6 DEF Written
  <1>8. \A p : p \in Written' <=>
            p \in Entries(log') \/ \E v \in Workers : p \in Entries(job'[v].tx.events)
    BY <1>7
  <1>9. \A p : p \in Written <=>
            p \in Entries(log) \/ \E v \in Workers : p \in Entries(job[v].tx.events)
    BY DEF Written
  <1>10. \A v \in Workers \ {w} : job'[v] = job[v]
    BY <1>1 DEF OneMoves
  <1>11. \A p : p \in Written' <=> p \in Written
    BY <1>3, <1>5, <1>8, <1>9, <1>10 DEF events
  <1>12. Logged \subseteq Logged'
    BY <1>1 DEF Events
  <1> QED BY <1>5, <1>6, <1>11, <1>12

\* Rows only go forward.
LEMMA CommitForward ==
    ASSUME StoreInvariant, LedgerInvariant, NEW w \in Workers, Commit(w)
    PROVE  /\ \A t : DOMAIN RowsOf(db, t) \subseteq DOMAIN RowsOf(db', t)
           /\ \A t : DOMAIN Writes(w, t) \subseteq DOMAIN RowsOf(db', t)
           /\ \A o \in DOMAIN Stored("orders") : Forward(Stored("orders")[o], RowsOf(db', "orders")[o])
           /\ \A o \in DOMAIN Writes(w, "orders") :
                 RowsOf(db', "orders")[o] = Writes(w, "orders")[o]
           /\ \A o \in DOMAIN Stored("orders") \ DOMAIN Writes(w, "orders") :
                 RowsOf(db', "orders")[o] = Stored("orders")[o]
           /\ DOMAIN RowsOf(db', "orders") = DOMAIN Writes(w, "orders") \cup DOMAIN Stored("orders")
  <1>1. \A t : RowsOf(db', t) = Writes(w, t) ++ Stored(t)
    BY Committed DEF View
  <1>2. \A t : IsOver(RowsOf(db', t), Writes(w, t), Stored(t))
    <2> SUFFICES ASSUME NEW t PROVE IsOver(RowsOf(db', t), Writes(w, t), Stored(t))
      OBVIOUS
    <2> DEFINE f == Writes(w, t)
               g == Stored(t)
               h == RowsOf(db', t)
    <2>1. h = f ++ g
      BY <1>1
    <2> HIDE DEF f, g, h
    <2>2. IsOver(h, f, g)
      BY <2>1 DEF ++, IsOver
    <2> QED BY <2>2 DEF f, g, h
  <1>3. \A t : DOMAIN RowsOf(db', t) = DOMAIN Writes(w, t) \cup DOMAIN Stored(t)
    BY <1>2 DEF IsOver
  <1>4. /\ \A o \in DOMAIN Writes(w, "orders") :
               RowsOf(db', "orders")[o] = Writes(w, "orders")[o]
        /\ \A o \in DOMAIN Stored("orders") \ DOMAIN Writes(w, "orders") :
               RowsOf(db', "orders")[o] = Stored("orders")[o]
    BY <1>2 DEF IsOver
  <1>5. \A o \in DOMAIN Stored("orders") : Forward(Stored("orders")[o], RowsOf(db', "orders")[o])
    <2> SUFFICES ASSUME NEW o \in DOMAIN Stored("orders")
                 PROVE  Forward(Stored("orders")[o], RowsOf(db', "orders")[o])
      OBVIOUS
    <2>1. CASE o \in DOMAIN Writes(w, "orders")
      <3>1. Forward(Stored("orders")[o], Writes(w, "orders")[o])
        BY <2>1 DEF LedgerInvariant, RowsGoOn
      <3> QED BY <1>4, <2>1, <3>1
    <2>2. CASE o \notin DOMAIN Writes(w, "orders")
      BY <1>4, <2>2 DEF Forward
    <2> QED BY <2>1, <2>2
  <1>6. \A t : Stored(t) = RowsOf(db, t)
    BY DEF Stored
  <1> QED BY <1>3, <1>4, <1>5, <1>6

\* What every row and event has to do with the other.
LEMMA CommitShown ==
    ASSUME StoreInvariant, LedgerInvariant, NEW w \in Workers, Commit(w)
    PROVE  (RowsShown(db, Logged) /\ \A e \in Logged : EventKept(e, db))'
  <1> DEFINE writes == job[w].tx.writes
  <1>1. Logged' = Events(w) /\ db' = Over(writes, db)
    BY Committed DEF Commit
  <1>2. /\ \A t : DOMAIN RowsOf(db, t) \subseteq DOMAIN RowsOf(db', t)
        /\ \A t : DOMAIN Writes(w, t) \subseteq DOMAIN RowsOf(db', t)
        /\ \A o \in DOMAIN Stored("orders") :
              Forward(Stored("orders")[o], RowsOf(db', "orders")[o])
        /\ \A o \in DOMAIN Writes(w, "orders") :
              RowsOf(db', "orders")[o] = Writes(w, "orders")[o]
    BY CommitForward
  <1>3. EventsFit(w) /\ RowsGoOn(w) /\ RowsShown(db, Logged) /\ \A e \in Logged : EventKept(e, db)
    BY DEF LedgerInvariant
  <1>4. RowsShown(writes, Events(w))
    BY <1>3 DEF RowsGoOn
  <1>5. RowsShown(db, Events(w))
    <2>1. Logged \subseteq Events(w)
      BY DEF Events
    <2> QED BY <1>3, <2>1, ShownMore
  <1>6. \A t : RowsOf(writes, t) = Writes(w, t)
    BY DEF Writes
  <1> HIDE DEF writes
  <1>7. RowsShown(db', Logged')
    BY <1>1, <1>4, <1>5, ShownOver
  <1>8. ASSUME NEW e \in Logged' PROVE EventKept(e, db')
    <2>1. CASE e \in Logged
      <3>1. EventKept(e, db)
        BY <1>3, <2>1
      <3>2. \A o \in DOMAIN RowsOf(db, "orders") :
                Forward(RowsOf(db, "orders")[o], RowsOf(db', "orders")[o])
        BY <1>2 DEF Stored
      <3> QED BY <1>2, <3>1, <3>2, KeptForward
    <2>2. CASE e \in Pending(w)
      <3>1. EventKept(e, writes)
        BY <1>3, <2>2 DEF EventsFit, writes
      <3>2. \A t : DOMAIN RowsOf(writes, t) \subseteq DOMAIN RowsOf(db', t)
        BY <1>2, <1>6
      <3>3. \A o \in DOMAIN RowsOf(writes, "orders") :
                Forward(RowsOf(writes, "orders")[o], RowsOf(db', "orders")[o])
        BY <1>2, <1>6 DEF Forward
      <3> QED BY <3>1, <3>2, <3>3, KeptForward
    <2> QED BY <1>1, <2>1, <2>2 DEF Events
  <1> QED BY <1>7, <1>8

\* And what another request is about to commit.
LEMMA CommitOthers ==
    ASSUME StoreInvariant, ReadsInvariant, LedgerInvariant, NEW w \in Workers, Commit(w),
           NEW v \in Workers \ {w}
    PROVE  EventsFit(v)' /\ RowsGoOn(v)' /\ PurchaseFits(v)'
  <1>1. job'[v] = job[v] /\ UNCHANGED links
    BY Committed DEF OneMoves, Commit
  <1>2. Logged \subseteq Logged'
    BY CommitWritten
  <1>3. /\ \A t : Writes(v, t)' = Writes(v, t)
        /\ Pending(v)' = Pending(v) /\ Events(v) \subseteq Events(v)'
    BY <1>1, <1>2 DEF Writes, Pending, Events
  <1>4. EventsFit(v) /\ RowsGoOn(v) /\ PurchaseFits(v)
    BY DEF LedgerInvariant
  <1>5. EventsFit(v)'
    BY <1>1, <1>3, <1>4 DEF EventsFit
  <1>6. /\ \A t : DOMAIN Stored(t) \subseteq DOMAIN Stored(t)'
        /\ \A o \in DOMAIN Stored("orders") \ DOMAIN Writes(w, "orders") :
               Stored("orders")'[o] = Stored("orders")[o]
        /\ DOMAIN Stored("orders")' = DOMAIN Writes(w, "orders") \cup DOMAIN Stored("orders")
    BY CommitForward DEF Stored
  <1>7. RowsGoOn(v)'
    <2>1. RowsShown(job'[v].tx.writes, Events(v)')
      <3>1. RowsShown(job[v].tx.writes, Events(v))
        BY <1>4 DEF RowsGoOn
      <3> QED BY <1>1, <1>3, <3>1, ShownMore
    <2>2. ASSUME NEW o \in DOMAIN Writes(v, "orders")
          PROVE  /\ Writes(v, "orders")[o].link => o \in DOMAIN links
                 /\ o \in DOMAIN Stored("orders")' =>
                        Forward(Stored("orders")'[o], Writes(v, "orders")[o])
      <3>1. o \notin DOMAIN Writes(w, "orders")
        BY <2>2, WritesApart
      <3>2. o \in DOMAIN Stored("orders")' =>
                o \in DOMAIN Stored("orders") /\ Stored("orders")'[o] = Stored("orders")[o]
        BY <1>6, <3>1
      <3> QED BY <1>4, <2>2, <3>2 DEF RowsGoOn
    <2> QED BY <1>1, <1>3, <2>1, <2>2 DEF RowsGoOn
  <1>8. PurchaseFits(v)'
    <2>1. Affordable(job[v].call) => Affordable(job[v].call)'
      BY <1>1, <1>2 DEF Affordable
    <2>2. KeyOf(v)' = KeyOf(v) /\ Pending(v)' = Pending(v)
      BY <1>1, <1>3 DEF KeyOf
    <2>3. /\ DOMAIN Stored("agents") \subseteq DOMAIN Stored("agents")'
          /\ DOMAIN Stored("payments") \subseteq DOMAIN Stored("payments")'
      BY <1>6
    <2> QED BY <1>1, <1>4, <2>1, <2>2, <2>3 DEF PurchaseFits
  <1> QED BY <1>5, <1>7, <1>8

\* So a commit keeps the invariant.
LEMMA CommitLedger ==
    ASSUME StoreInvariant, ReadsInvariant, LedgerInvariant, NEW w \in Workers, Commit(w)
    PROVE  LedgerInvariant'
  <1>1. /\ OneMoves(w) /\ job[w].step = "commit" /\ UNCHANGED <<links, hooks>>
        /\ job'[w].step = job[w].after /\ job'[w].call = job[w].call /\ job'[w].tx = NoTx
        /\ \A t : RowsOf(db', t) = View(w, t)
    BY Committed DEF Commit
  <1>2. job[w].after \in AfterCommit
    BY DEF StoreInvariant, JobFits, JobShape
  <1>3. /\ Written' = Written /\ Entries(log) \subseteq Entries(log)' /\ Logged \subseteq Logged'
    BY CommitWritten
  <1>4. /\ \A o \in DOMAIN Stored("orders") :
              Forward(Stored("orders")[o], RowsOf(db', "orders")[o])
        /\ \A o \in DOMAIN Writes(w, "orders") :
              RowsOf(db', "orders")[o] = Writes(w, "orders")[o]
        /\ \A o \in DOMAIN Stored("orders") \ DOMAIN Writes(w, "orders") :
              RowsOf(db', "orders")[o] = Stored("orders")[o]
        /\ DOMAIN RowsOf(db', "orders") = DOMAIN Writes(w, "orders") \cup DOMAIN Stored("orders")
    BY CommitForward
  <1>5. Grounded'
    <2> SUFFICES ASSUME NEW p \in Written PROVE Sound(p.event, Earlier(Entries(log)', p.seq))
      BY <1>3 DEF Grounded, Earlier
    <2>1. Sound(p.event, Earlier(Entries(log), p.seq))
      BY DEF LedgerInvariant, Grounded
    <2>2. Earlier(Entries(log), p.seq) \subseteq Earlier(Entries(log)', p.seq)
      BY <1>3 DEF Earlier
    <2> QED BY <2>1, <2>2, SoundMore
  <1>6. Once(Written)'
    BY <1>3 DEF LedgerInvariant, Once
  <1>7. WithinCap(Written, Entries(log), Cancelled(db))'
    <2> DEFINE W == Written
               R == Entries(log)
               S == Entries(log)'
               G == Cancelled(db)
               H == Cancelled(db)'
    <2>1. IsFiniteSet(W) /\ W \in SUBSET W /\ R \subseteq S
      BY <1>3, WrittenIs
    <2>2. /\ \A p \in VerifiedIn(W) : Field(p.event, "amountPaise") \in Nat
          /\ \A p \in W : Is(p.event, "agent.registered") => Field(p.event, "capPaise") \in Nat
      BY WrittenSays DEF LedgerInvariant
    <2>3. WithinCap(W, R, G)
      BY DEF LedgerInvariant
    <2>4. \A p \in VerifiedIn(W) : p.event.order \in G => p.event.order \in H
      <3>1. \A o \in G : o \in H
        BY <1>4 DEF Cancelled, Forward, Stored
      <3> QED BY <3>1
    <2> HIDE DEF W, R, S, G, H
    <2>5. WithinCap(W, S, H)
      BY <2>1, <2>2, <2>3, <2>4, CapStays
    <2> QED BY <1>3, <2>5 DEF W, S, H, WithinCap, Counting
  <1>8. (RowsShown(db, Logged) /\ \A e \in Logged : EventKept(e, db))'
    BY CommitShown
  <1>9. \A v \in Workers \ {w} : EventsFit(v)' /\ RowsGoOn(v)' /\ PurchaseFits(v)'
    BY CommitOthers
  <1>10. EventsFit(w)' /\ RowsGoOn(w)'
    BY <1>1, NothingPending
  <1>11. PurchaseFits(w)'
    <2>1. job[w].after \notin {"place_order", "key_known", "issue_link", "apply"}
      BY <1>2 DEF AfterCommit
    <2> QED BY <1>1, <2>1 DEF PurchaseFits
  <1>12. LinksFit'
    <2>1. \A o \in DOMAIN links :
              /\ "amountPaise" \in DOMAIN links[o]
              /\ \E e \in Logged' : /\ Is(e, "payment.verified") /\ e.order = o
                                    /\ Field(e, "amountPaise") = links[o].amountPaise
      BY <1>3 DEF LedgerInvariant, LinksFit
    <2>2. ASSUME NEW o \in DOMAIN RowsOf(db', "orders"), RowsOf(db', "orders")[o].link
          PROVE  o \in DOMAIN links
      <3>1. CASE o \in DOMAIN Writes(w, "orders")
        BY <1>4, <2>2, <3>1 DEF LedgerInvariant, RowsGoOn
      <3>2. CASE o \in DOMAIN Stored("orders") \ DOMAIN Writes(w, "orders")
        BY <1>4, <2>2, <3>2 DEF LedgerInvariant, LinksFit
      <3> QED BY <1>4, <3>1, <3>2
    <2>3. Stored("orders")' = RowsOf(db', "orders")
      BY DEF Stored
    <2> QED BY <1>1, <2>1, <2>2, <2>3 DEF LinksFit
  <1> QED BY <1>5, <1>6, <1>7, <1>8, <1>9, <1>10, <1>11, <1>12 DEF LedgerInvariant

-----------------------------------------------------------------------------
(***************************************************************************)
(* The invariant holds.                                                    *)
(***************************************************************************)
\* The store may start with any rows and log that go together.
LEMMA InitLedger == Init => LedgerInvariant
  <1> SUFFICES ASSUME Init PROVE LedgerInvariant
    OBVIOUS
  <1>1. \A w \in Workers : job[w] = Idle
    BY DEF Init
  <1>2. db = Seeded /\ log = SeededLog /\ hooks = {}
    BY DEF Init
  <1>3. ASSUME NEW w \in Workers PROVE job[w].step = "idle" /\ job[w].tx = NoTx
    BY <1>1 DEF Idle
  <1>4. /\ AllSound(Entries(log)) /\ Once(Entries(log))
        /\ WithinCap(Entries(log), Entries(log), Cancelled(db))
        /\ RowsShown(db, Logged) /\ \A e \in Logged : EventKept(e, db)
    BY <1>2, LedgerAssumption DEF LedgerKept, Logged
  <1>5. ASSUME NEW w \in Workers
        PROVE  /\ Entries(job[w].tx.events) = {}
               /\ EventsFit(w) /\ RowsGoOn(w) /\ PurchaseFits(w)
    <2>1. job[w].step = "idle" /\ job[w].tx = NoTx
      BY <1>3
    <2>2. /\ \A t : Writes(w, t) = <<>> /\ DOMAIN Writes(w, t) = {}
          /\ Pending(w) = {}
      BY <2>1, EmptyTx
    <2>3. Entries(job[w].tx.events) = {}
      <3>1. DOMAIN job[w].tx.events = {}
        BY <2>1, NothingFits DEF NoTx
      <3> QED BY <3>1 DEF Entries
    <2>4. RowsShown(job[w].tx.writes, Events(w))
      BY <2>2 DEF RowsShown, Writes
    <2>5. RowsGoOn(w)
      BY <2>2, <2>4 DEF RowsGoOn
    <2>6. EventsFit(w) /\ PurchaseFits(w)
      BY <2>1, <2>2 DEF EventsFit, PurchaseFits
    <2> QED BY <2>3, <2>5, <2>6
  <1>6. Written = Entries(log)
    BY <1>5 DEF Written
  <1>7. LinksFit
    <2> DEFINE linked == {o \in DOMAIN Seeded.orders : Seeded.orders[o].link}
    <2>0. Seeded.orders = RowsOf(Seeded, "orders")
      BY StorefrontAssumption DEF RowsOf, Tables
    <2>1. links = [o \in linked |-> NewLink(Seeded.orders[o].amountPaise)]
      BY DEF Init
    <2>2. ASSUME NEW o \in linked
          PROVE  /\ "amountPaise" \in DOMAIN links[o]
                 /\ \E e \in Logged : /\ Is(e, "payment.verified") /\ e.order = o
                                      /\ Field(e, "amountPaise") = links[o].amountPaise
      <3>1. "amountPaise" \in DOMAIN links[o] /\ links[o].amountPaise = Seeded.orders[o].amountPaise
        BY <2>1, <2>2 DEF NewLink
      <3>2. OrderShown(o, Seeded.orders[o], Logged)
        BY <1>2, <1>4, <2>0, <2>2 DEF RowsShown
      <3> QED BY <3>1, <3>2 DEF OrderShown
    <2>3. \A o \in DOMAIN Stored("orders") : Stored("orders")[o].link => o \in DOMAIN links
      BY <1>2, <2>0, <2>1 DEF Stored
    <2> QED BY <1>2, <2>1, <2>2, <2>3 DEF LinksFit
  <1> QED BY <1>4, <1>5, <1>6, <1>7 DEF LedgerInvariant, Grounded, AllSound

\* A step of nobody.
LEMMA StutterLedger == LedgerInvariant /\ UNCHANGED vars => LedgerInvariant'
  <1> SUFFICES ASSUME LedgerInvariant, UNCHANGED vars PROVE LedgerInvariant'
    OBVIOUS
  <1>1. UNCHANGED <<db, log, job, links, hooks>>
    BY DEF vars
  <1>2. BooksStay
    BY <1>1, UnchangedBooks
  <1>3. \A v \in Workers : EventsFit(v)' /\ RowsGoOn(v)' /\ PurchaseFits(v)'
    BY <1>1, <1>2, OthersGoOn DEF LedgerInvariant
  <1>4. Written' = Written /\ Logged' = Logged
    BY <1>1, SameWritten
  <1>5. Entries(log)' = Entries(log) /\ Cancelled(db)' = Cancelled(db)
    BY <1>2, SameShown
  <1>6. Grounded' /\ Once(Written)' /\ WithinCap(Written, Entries(log), Cancelled(db))'
    BY <1>4, <1>5 DEF LedgerInvariant, Grounded
  <1>7. (RowsShown(db, Logged) /\ \A e \in Logged : EventKept(e, db))'
    BY <1>2, <1>4, SameShown DEF LedgerInvariant
  <1>8. LinksFit'
    BY <1>1, <1>2, LinksStay
  <1> QED BY <1>3, <1>6, <1>7, <1>8 DEF LedgerInvariant

\* Every request of a purchase keeps the invariant.
LEMMA SubmissionLedger ==
    ASSUME StoreInvariant, ReadsInvariant, LedgerInvariant, NEW w \in Workers,
           Mandates(w) \/ Submission(w)
    PROVE  LedgerInvariant'
  BY StrangerLedger, RegisterAgentLedger, DeclareIntentLedger, CreateCartLedger,
     VerifyPaymentLedger, ReplayLedger, PlaceOrderLedger, AttemptLinkLedger, CreateLinkLedger,
     IssueLinkLedger
     DEF Mandates, Submission

\* So does everything that settles it.
LEMMA SettlementLedger ==
    ASSUME StoreInvariant, ReadsInvariant, LedgerInvariant, NEW w \in Workers, Settlement(w)
    PROVE  LedgerInvariant'
  BY CompletePaymentLedger, FailPaymentLedger, ApplyCaptureLedger, ApplyFailureLedger,
     FulfilLedger, AttemptRefundLedger, CallRefundLedger, RecordRefundLedger,
     RecordRefundFailureLedger
     DEF Settlement

\* Every step keeps it.
LEMMA StepKeepsLedger ==
    StoreInvariant /\ ReadsInvariant /\ LedgerInvariant /\ [Next]_vars => LedgerInvariant'
  <1> SUFFICES ASSUME StoreInvariant, ReadsInvariant, LedgerInvariant, [Next]_vars
               PROVE  LedgerInvariant'
    OBVIOUS
  <1>1. CASE \E c \in Clients : CallStore(c)
    BY <1>1, CallStoreLedger
  <1>2. CASE \E d \in Deliverers : DeliverHook(d)
    BY <1>2, DeliverHookLedger
  <1>3. ASSUME NEW w \in Workers, Serve(w) PROVE LedgerInvariant'
    BY <1>3, SubmissionLedger, SettlementLedger, PagesLedger, EditVariantLedger, CommitLedger,
       RollbackLedger DEF Serve
  <1>4. CASE UNCHANGED vars
    BY <1>4, StutterLedger
  <1> QED BY <1>1, <1>2, <1>3, <1>4 DEF Next, Closed

-----------------------------------------------------------------------------
(***************************************************************************)
(* What it says of the log.                                                *)
(***************************************************************************)
\* The log is one the rule auditor finds nothing wrong with: an Order that was
\* paid is none that was given up.
LEMMA LogIsSound == ASSUME StoreInvariant, LedgerInvariant PROVE LogFits(Entries(log))
  <1> DEFINE W == Written
             E == Entries(log)
             G == Cancelled(db)
             H == Unpaid(E)
  <1>1. /\ IsFiniteSet(W) /\ E \subseteq W
        /\ \A p \in W : p.seq \in 1 .. drawn
        /\ \A p, q \in W : p.seq = q.seq => p = q
        /\ \A p \in E : p.event \in Logged
    BY WrittenIs
  <1>2. drawn \in Nat
    BY DEF StoreInvariant, Numbers
  <1>3. IsFiniteSet(E) /\ \A p \in E : p.seq \in Nat
    BY <1>1, <1>2, FS_Subset
  <1>4. AllSound(E) /\ Once(E)
    BY <1>1 DEF LedgerInvariant, Grounded, AllSound, Once
  <1>5. /\ \A p \in VerifiedIn(W) : Field(p.event, "amountPaise") \in Nat
        /\ \A p \in W : Is(p.event, "agent.registered") => Field(p.event, "capPaise") \in Nat
    BY WrittenSays DEF LedgerInvariant
  <1>6. WithinCap(W, E, G)
    BY DEF LedgerInvariant
  <1>7. ASSUME NEW p \in VerifiedIn(E), p.event.order \in G PROVE p.event.order \in H
    <2> SUFFICES ASSUME p.event.order \in OrdersWith(E, "order.paid") PROVE FALSE
      BY DEF Unpaid
    <2>1. PICK r \in E : Is(r.event, "order.paid") /\ r.event.order = p.event.order
      BY DEF OrdersWith
    <2>2. EventKept(r.event, db)
      BY <1>1 DEF LedgerInvariant
    <2>3. RowsOf(db, "orders")[p.event.order].status \in Settled
      BY <2>1, <2>2 DEF EventKept
    <2>4. RowsOf(db, "orders")[p.event.order].status = "cancelled"
      BY <1>7 DEF Cancelled
    <2> QED BY <2>3, <2>4 DEF Settled
  <1> HIDE DEF W, E, G, H
  <1>8. WithinCap(E, E, H)
    BY <1>1, <1>5, <1>6, <1>7, CapStays
  <1>9. LogFits(E)
    BY <1>1, <1>3, <1>4, <1>8 DEF LogFits, H
  <1> QED BY <1>9 DEF E

\* So the auditor's book is that of the log.
LEMMA BookOfLog == ASSUME StoreInvariant, LedgerInvariant PROVE Book(Audit(<<log>>), Entries(log), Entries(log))
  <1>1. drawn \in Nat /\ DOMAIN log \subseteq 1 .. drawn
    BY DEF StoreInvariant, Numbers
  <1>2. LogFits(Entries(log))
    BY LogIsSound
  <1> QED BY <1>1, <1>2, AuditOfSound

\* The Orders of the log are those of the books.
LEMMA OrdersOfLog ==
    ASSUME StoreInvariant, LedgerInvariant
    PROVE  /\ Bucket("refunded") = OrdersWith(Entries(log), "order.refunded")
           /\ Bucket("paid") = OrdersWith(Entries(log), "order.paid")
                                   \ OrdersWith(Entries(log), "order.refunded")
  <1> DEFINE E == Entries(log)
             orders == Stored("orders")
  <1>0. orders = db.orders
    BY DEF StoreInvariant, Stored, RowsOf, Tables
  <1>1. /\ \A p \in E : p.event \in Logged
        /\ \A e \in Logged : \E p \in E : p.event = e
    BY WrittenIs
  <1>2. \A e \in Logged :
            /\ Is(e, "order.paid") => e.order \in DOMAIN orders /\ orders[e.order].status \in Settled
            /\ Is(e, "order.refunded") =>
                  e.order \in DOMAIN orders /\ orders[e.order].status = "refunded"
    BY DEF LedgerInvariant, EventKept, PerOrder, Is, Stored
  <1>3. \A o \in DOMAIN orders :
            /\ orders[o].status \in Settled => \E e \in Logged : Is(e, "order.paid") /\ e.order = o
            /\ orders[o].status = "refunded" =>
                  \E e \in Logged : Is(e, "order.refunded") /\ e.order = o
    BY DEF LedgerInvariant, RowsShown, OrderShown, Stored
  <1> HIDE DEF E, orders
  <1>4. /\ \A o \in OrdersWith(E, "order.paid") :
              o \in DOMAIN orders /\ orders[o].status \in Settled
        /\ \A o \in OrdersWith(E, "order.refunded") :
              o \in DOMAIN orders /\ orders[o].status = "refunded"
    BY <1>1, <1>2 DEF OrdersWith
  <1>5. \A o \in DOMAIN orders :
            /\ orders[o].status \in Settled => o \in OrdersWith(E, "order.paid")
            /\ orders[o].status = "refunded" => o \in OrdersWith(E, "order.refunded")
    BY <1>1, <1>3 DEF OrdersWith
  <1>6. Bucket("refunded") = OrdersWith(E, "order.refunded")
    BY <1>0, <1>4, <1>5 DEF Bucket
  <1>7. Bucket("paid") = OrdersWith(E, "order.paid") \ OrdersWith(E, "order.refunded")
    BY <1>0, <1>4, <1>5 DEF Bucket, Settled
  <1> QED BY <1>6, <1>7 DEF E

\* So is what they were paid: an Order's verified payment is one, of its amount.
LEMMA RevenueOfLog ==
    ASSUME StoreInvariant, LedgerInvariant
    PROVE  Paise(Bucket("paid")) = SumFunctionOnSet(PaiseOf(Entries(log)), Owing(Entries(log)))
  <1> DEFINE E == Entries(log)
             orders == Stored("orders")
             S == Owing(E)
             T == Bucket("paid")
             f == PaiseOf(E)
             g == Amounts
             orderOf == [p \in S |-> p.event.order]
             paymentOf == [o \in T |-> CHOOSE p \in S : p.event.order = o]
  <1>0. orders = db.orders
    BY DEF StoreInvariant, Stored, RowsOf, Tables
  <1>1. /\ IsFiniteSet(Written) /\ E \subseteq Written
        /\ \A p \in E : p.event \in Logged
        /\ \A e \in Logged : \E p \in E : p.event = e
    BY WrittenIs
  <1>2. T = OrdersWith(E, "order.paid") \ OrdersWith(E, "order.refunded")
    BY OrdersOfLog
  <1>3. /\ S = {p \in VerifiedIn(E) : p.event.order \in T}
        /\ VerifiedIn(E) = {p \in E : Is(p.event, "payment.verified")}
    BY <1>2 DEF Owing, VerifiedIn
  <1>4. \A p \in S : p \in E /\ Is(p.event, "payment.verified") /\ p.event.order \in T
    BY <1>3
  <1>5. T \subseteq DOMAIN orders
    BY <1>0 DEF Bucket
  <1>6. IsFiniteSet(S) /\ IsFiniteSet(T)
    <2>1. S \subseteq Written /\ IsFiniteSet(DOMAIN orders)
      BY <1>1, <1>4, OrdersFinite
    <2> QED BY <1>1, <1>5, <2>1, FS_Subset
  <1>7. \A p, q \in S : p.event.order = q.event.order => p = q
    <2> SUFFICES ASSUME NEW p \in S, NEW q \in S, p.event.order = q.event.order PROVE p = q
      OBVIOUS
    <2>1. Same(p.event, q.event)
      BY <1>4 DEF Same, Is, PerOrder
    <2> QED BY <1>1, <1>4, <2>1 DEF LedgerInvariant, Once
  <1>8. \A o \in T : \E p \in S : p.event.order = o /\ Field(p.event, "amountPaise") = g[o]
    <2> SUFFICES ASSUME NEW o \in T
                 PROVE  \E p \in S : p.event.order = o /\ Field(p.event, "amountPaise") = g[o]
      OBVIOUS
    <2>1. OrderShown(o, orders[o], Logged)
      BY <1>5 DEF LedgerInvariant, RowsShown, Stored
    <2>2. PICK e \in Logged : /\ Is(e, "payment.verified") /\ e.order = o
                              /\ Field(e, "amountPaise") = orders[o].amountPaise
      BY <2>1 DEF OrderShown
    <2>3. PICK p \in E : p.event = e
      BY <1>1
    <2>4. p \in S
      BY <1>3, <2>2, <2>3
    <2>5. g[o] = orders[o].amountPaise
      BY <1>0, <1>5 DEF Amounts
    <2> QED BY <2>2, <2>3, <2>4, <2>5
  <1>9. \A p \in S : f[p] = Field(p.event, "amountPaise") /\ f[p] \in Nat
    <2>1. \A p \in VerifiedIn(Written) : Field(p.event, "amountPaise") \in Nat
      BY WrittenSays DEF LedgerInvariant
    <2>2. S \subseteq VerifiedIn(Written)
      BY <1>1, <1>4 DEF VerifiedIn
    <2> QED BY <1>4, <2>1, <2>2 DEF PaiseOf
  <1> HIDE DEF E, orders, S, T, f, g
  <1>10. \A p \in S : g[p.event.order] = f[p]
    BY <1>4, <1>7, <1>8, <1>9
  <1>11. \A o \in T : g[o] \in Nat
    BY <1>8, <1>9
  <1>12. \A o \in T : paymentOf[o] \in S /\ paymentOf[o].event.order = o
    BY <1>8
  <1>13. orderOf \in [S -> T] /\ paymentOf \in [T -> S]
    BY <1>4, <1>12
  <1>14. /\ \A p, q \in S : orderOf[p] = orderOf[q] => p = q
         /\ \A p \in S : f[p] <= g[orderOf[p]]
    BY <1>7, <1>9, <1>10
  <1>15. /\ \A o, x \in T : paymentOf[o] = paymentOf[x] => o = x
         /\ \A o \in T : g[o] <= f[paymentOf[o]]
    BY <1>9, <1>10, <1>11, <1>12
  <1>16. (\A p \in S : f[p] \in Nat) /\ \A o \in T : g[o] \in Nat
    BY <1>9, <1>11
  <1> HIDE DEF orderOf, paymentOf
  <1>17. SumFunctionOnSet(f, S) <= SumFunctionOnSet(g, T)
    BY <1>6, <1>13, <1>14, <1>16, SumMapped
  <1>18. SumFunctionOnSet(g, T) <= SumFunctionOnSet(f, S)
    BY <1>6, <1>13, <1>15, <1>16, SumMapped
  <1>19. SumFunctionOnSet(f, S) \in Nat /\ SumFunctionOnSet(g, T) \in Nat
    BY <1>6, <1>16, SumIsNat
  <1>20. SumFunctionOnSet(g, T) = SumFunctionOnSet(f, S)
    BY <1>17, <1>18, <1>19
  <1> QED BY <1>20 DEF Paise, E, S, T, f, g

-----------------------------------------------------------------------------
(***************************************************************************)
(* The theorems.                                                           *)
(***************************************************************************)
\* The log, the books and what every request is about to write stay in step: each
\* event rests on the record, what happens once is written once, and no Agent owes
\* more than its Cap, in any interleaving of requests, webhooks, commits and
\* rollbacks.
THEOREM LedgerHolds == Spec => [](StoreInvariant /\ ReadsInvariant /\ LedgerInvariant)
  <1>1. Init => StoreInvariant /\ ReadsInvariant /\ LedgerInvariant
    BY InitStore, InitReads, InitLedger
  <1>2. (StoreInvariant /\ ReadsInvariant /\ LedgerInvariant) /\ [Next]_vars
            => (StoreInvariant /\ ReadsInvariant /\ LedgerInvariant)'
    BY StepKeepsStore, StepKeepsReads, StepKeepsLedger
  <1> QED BY <1>1, <1>2, PTL DEF Spec

\* The rule auditor finds nothing wrong with the committed log at any moment
\* (auditRules over exportAuditEvents): whatever the scripts, the callers, the
\* webhooks at once, the lost transactions and the log the store started with.
THEOREM AuditClean == Spec => []AuditFindsNothing
  <1>1. StoreInvariant /\ ReadsInvariant /\ LedgerInvariant => AuditFindsNothing
    BY BookOfLog DEF Book, AuditFindsNothing
  <1> QED BY <1>1, LedgerHolds, PTL

\* Whenever the store summary answers, its revenue is what the log says was
\* captured and not given back, and its paid and refunded Orders are the log's
\* (readStoreCounts beside auditRules).
THEOREM BooksBalance == Spec => []BooksAgree
  <1>1. ASSUME StoreInvariant, LedgerInvariant PROVE BooksAgree
    <2> DEFINE book == Audit(<<log>>)
               counts == [ordersByStatus |-> [s \in OrderStatuses |-> Cardinality(Bucket(s))],
                          revenuePaiseTotal |-> Paise(Bucket("paid"))]
    <2> SUFFICES ASSUME StoreCounts.result = "ok"
                 PROVE  /\ StoreCounts.revenuePaiseTotal = Captured(book)
                        /\ StoreCounts.ordersByStatus["paid"] = Cardinality(book.paid \ book.refunded)
                        /\ StoreCounts.ordersByStatus["refunded"] = Cardinality(book.refunded)
      BY DEF BooksAgree
    <2>1. StoreCounts = Ok(counts)
      BY DEF StoreCounts, InternalError
    <2>2. /\ StoreCounts.revenuePaiseTotal = counts.revenuePaiseTotal
          /\ StoreCounts.ordersByStatus = counts.ordersByStatus
      BY <2>1, OkFields
    <2>3. Book(book, Entries(log), Entries(log))
      BY <1>1, BookOfLog
    <2> HIDE DEF book
    <2>4. /\ book.paid = OrdersWith(Entries(log), "order.paid")
          /\ book.refunded = OrdersWith(Entries(log), "order.refunded")
          /\ Captured(book) = SumFunctionOnSet(PaiseOf(Entries(log)), Owing(Entries(log)))
      BY <2>3 DEF Book, KeysFit, MoneyFits
    <2>5. /\ Bucket("refunded") = book.refunded
          /\ Bucket("paid") = book.paid \ book.refunded
          /\ Paise(Bucket("paid")) = Captured(book)
      BY <1>1, <2>4, OrdersOfLog, RevenueOfLog
    <2>6. {"paid", "refunded"} \subseteq OrderStatuses
      BY DEF OrderStatuses
    <2> QED BY <2>2, <2>5, <2>6
  <1>2. StoreInvariant /\ ReadsInvariant /\ LedgerInvariant => BooksAgree
    BY <1>1
  <1> QED BY <1>2, LedgerHolds, PTL

\* An Order that is paid by the log is not cancelled by it: its row has one status.
LEMMA OneEnding ==
    ASSUME LedgerInvariant, NEW page, NEW o, ShowsRecord(page, o)
    PROVE  TellsOneEnding(page)
  <1> SUFFICES ASSUME "order.paid" \in TypesOn(page), "order.cancelled" \in TypesOn(page)
               PROVE  FALSE
    BY DEF TellsOneEnding
  <1>1. \A type \in {"order.paid", "order.cancelled"} :
            \E e \in Logged : Is(e, type) /\ e.order = o
    <2>1. \A type \in {"order.paid", "order.cancelled"} : type \in TypesOf(Logged, o)
      BY DEF ShowsRecord
    <2> QED BY <2>1 DEF TypesOf, Is
  <1>2. PICK p \in Logged : Is(p, "order.paid") /\ p.order = o
    BY <1>1
  <1>3. PICK c \in Logged : Is(c, "order.cancelled") /\ c.order = o
    BY <1>1
  <1>4. EventKept(p, db) /\ EventKept(c, db)
    BY DEF LedgerInvariant
  <1>5. Stored("orders")[o].status \in Settled /\ Stored("orders")[o].status = "cancelled"
    BY <1>2, <1>3, <1>4 DEF EventKept, Stored
  <1> QED BY <1>5 DEF Settled

\* An answer put together by several queries, with commits of others between them,
\* holds together: a status has the Receipts it promises, or the log says why there
\* is none; the status of an audit page is borne out by the chain beside it, and
\* not contradicted by it; a Refusal's page shows the mandates it was refused under
\* (readOrderStatus, GET /audit/:orderId, readRefusalContext).  The row of an audit
\* page may still be older than its chain.  For every script of calls, whatever
\* the number of callers, webhooks at once and lost transactions.
THEOREM ReadsWhole == Spec => []ReadsAreWhole
  <1>1. ASSUME ReadsInvariant, LedgerInvariant PROVE ReadsAreWhole
    <2> SUFFICES ASSUME NEW w \in Clients, job[w].call # NoField
                 PROVE  /\ Answered(w, "get_order_status") => StatusIsWhole(job[w].reply)
                        /\ Answered(w, "audit_page") => AuditPageIsWhole(job[w].reply)
                        /\ Answered(w, "refusal_page") => RefusalPageIsWhole(job[w].reply)
      BY DEF ReadsAreWhole
    <2>1. /\ Answered(w, "get_order_status") => StatusIsWhole(job[w].reply)
          /\ Answered(w, "audit_page") /\ job[w].reply.status # NoField =>
                CoversStatus(job[w].reply) /\ ShowsRecord(job[w].reply, job[w].call.order)
          /\ Answered(w, "refusal_page") => RefusalPageIsWhole(job[w].reply)
      BY <1>1, InvariantReads
    <2>2. ShowsRecord(job[w].reply, job[w].call.order) => TellsOneEnding(job[w].reply)
      BY <1>1, OneEnding
    <2> QED BY <2>1, <2>2 DEF AuditPageIsWhole
  <1>2. StoreInvariant /\ ReadsInvariant /\ LedgerInvariant => ReadsAreWhole
    BY <1>1
  <1> QED BY <1>2, LedgerHolds, PTL

=============================================================================
