----------------------------- MODULE AuditProofs -----------------------------
(***************************************************************************)
(* What the rule auditor makes of a log every entry of which rests on the  *)
(* entries before it: THEOREM AuditOfSound, by the auditor's walk from one *)
(* entry to the next.  Nothing here depends on how the log was written.    *)
(***************************************************************************)
EXTENDS Ledger, SumTheorems

-----------------------------------------------------------------------------
(***************************************************************************)
(* The auditor's walk.                                                     *)
(***************************************************************************)
\* Numbers of which there is one have a least one.
LEMMA LeastNumber ==
    ASSUME NEW B \in SUBSET Nat, B # {}
    PROVE  \E m \in B : \A n \in B : m <= n
  <1>1. \E m \in B : \A n \in B : ~ (<<n, m>> \in OpToRel(<, Nat))
    BY NatLessThanWellFounded, WFMin
  <1>2. PICK m \in B : \A n \in B : ~ (<<n, m>> \in OpToRel(<, Nat))
    BY <1>1
  <1>3. \A n \in B : ~ (n < m)
    BY <1>2 DEF OpToRel
  <1> QED BY <1>3

\* A walk of so many places through one log.
WalksOne(f, L, m) ==
    f = [k \in 0 .. m |-> IF k = 0 THEN Blank ELSE SeeNext(f[k - 1], <<L>>, k)]

\* The auditor's walk of one log is a function, however long the log.
LEMMA WalkExists ==
    ASSUME NEW L, NEW m \in Nat
    PROVE  \E f : WalksOne(f, L, m)
  <1> DEFINE Bad == {n \in Nat : ~ \E f : WalksOne(f, L, n)}
  <1> SUFFICES ASSUME Bad # {} PROVE FALSE
    OBVIOUS
  <1>1. PICK n \in Bad : \A j \in Bad : n <= j
    <2>1. Bad \in SUBSET Nat
      OBVIOUS
    <2> HIDE DEF Bad
    <2> QED BY <2>1, LeastNumber
  <1>2. CASE n = 0
    <2> DEFINE f == [k \in 0 .. 0 |-> Blank]
    <2>1. WalksOne(f, L, 0)
      <3>1. \A k \in 0 .. 0 : k = 0
        OBVIOUS
      <3> QED BY <3>1 DEF WalksOne
    <2> QED BY <1>1, <1>2, <2>1
  <1>3. CASE n # 0
    <2>1. n - 1 \in Nat /\ n - 1 \notin Bad
      BY <1>1, <1>3
    <2>2. PICK f : WalksOne(f, L, n - 1)
      BY <2>1
    <2> DEFINE g == [k \in 0 .. n |-> IF k = n THEN SeeNext(f[n - 1], <<L>>, n) ELSE f[k]]
    <2>3. \A k \in 0 .. n - 1 :
              f[k] = IF k = 0 THEN Blank ELSE SeeNext(f[k - 1], <<L>>, k)
      BY <2>2 DEF WalksOne
    <2>4. \A k \in 0 .. n : k - 1 \in 0 .. n - 1 \/ k = 0
      BY <2>1
    <2>5. \A k \in 0 .. n : g[k] = IF k = 0 THEN Blank ELSE SeeNext(g[k - 1], <<L>>, k)
      <3> SUFFICES ASSUME NEW k \in 0 .. n
                   PROVE  g[k] = IF k = 0 THEN Blank ELSE SeeNext(g[k - 1], <<L>>, k)
        OBVIOUS
      <3>1. CASE k = 0
        BY <1>3, <2>1, <2>3, <3>1
      <3>2. CASE k # 0 /\ k = n
        BY <2>1, <3>2
      <3>3. CASE k # 0 /\ k # n
        <4>1. k \in 0 .. n - 1 /\ k - 1 \in 0 .. n /\ k - 1 # n
          BY <2>1, <3>3
        <4> QED BY <2>3, <3>3, <4>1
      <3> QED BY <3>1, <3>2, <3>3
    <2>6. WalksOne(g, L, n)
      <3> DEFINE h == [k \in 0 .. n |-> IF k = 0 THEN Blank ELSE SeeNext(g[k - 1], <<L>>, k)]
      <3>1. g = h
        BY <2>5
      <3> QED BY <3>1 DEF WalksOne
    <2> QED BY <1>1, <2>6
  <1> QED BY <1>2, <1>3

\* The number of places is the log's last number.
LastOf(L, m) == m \in Nat /\ DOMAIN L \subseteq 1 .. m /\ (m = 0 \/ m \in DOMAIN L)

\* A log on its own has as many places as its last number.
LEMMA PlacesOfOne ==
    ASSUME NEW L, NEW m, LastOf(L, m)
    PROVE  Places(<<L>>) = m
  <1> DEFINE numbers == {0} \cup UNION {DOMAIN <<L>>[w] : w \in DOMAIN <<L>>}
  <1>1. numbers = {0} \cup DOMAIN L
    OBVIOUS
  <1>2. Cardinality(DOMAIN <<L>>) = 1
    <2>1. DOMAIN <<L>> = {1}
      OBVIOUS
    <2> QED BY <2>1, FS_Singleton
  <1>3. m \in numbers /\ (\A y \in numbers : m >= y) /\ numbers \subseteq Nat
    BY <1>1 DEF LastOf
  <1> HIDE DEF numbers
  <1>4. Max(numbers) = m
    <2>1. Max(numbers) \in numbers /\ \A y \in numbers : Max(numbers) >= y
      BY <1>3 DEF Max
    <2> DEFINE last == Max(numbers)
    <2>2. last \in Nat /\ m \in Nat /\ last >= m /\ m >= last
      BY <1>3, <2>1
    <2> HIDE DEF last
    <2>3. last = m
      BY <2>2
    <2> QED BY <2>3 DEF last
  <1>5. Places(<<L>>) = Max(numbers) * Cardinality(DOMAIN <<L>>)
    BY DEF Places, numbers
  <1> QED BY <1>2, <1>4, <1>5 DEF LastOf

\* auditRules of one log, place by place.
LEMMA AuditWalks ==
    ASSUME NEW L, NEW m, LastOf(L, m)
    PROVE  \E f : /\ f[0] = Blank
                  /\ \A k \in 1 .. m : f[k] = IF k \in DOMAIN L THEN See(f[k - 1], k, L[k])
                                              ELSE f[k - 1]
                  /\ Audit(<<L>>) = f[m]
  <1> DEFINE f == CHOOSE f : WalksOne(f, L, m)
  <1>0. m \in Nat
    BY DEF LastOf
  <1>1. WalksOne(f, L, m)
    BY <1>0, WalkExists
  <1>2. Audit(<<L>>) = f[m]
    BY PlacesOfOne DEF Audit, WalksOne
  <1> HIDE DEF f
  <1>3. f[0] = Blank
    BY <1>0, <1>1 DEF WalksOne
  <1>4. \A k \in 1 .. m : f[k] = IF k \in DOMAIN L THEN See(f[k - 1], k, L[k]) ELSE f[k - 1]
    <2> SUFFICES ASSUME NEW k \in 1 .. m
                 PROVE  f[k] = IF k \in DOMAIN L THEN See(f[k - 1], k, L[k]) ELSE f[k - 1]
      OBVIOUS
    <2>1. f[k] = SeeNext(f[k - 1], <<L>>, k)
      BY <1>0, <1>1 DEF WalksOne
    <2>2. Cardinality(DOMAIN <<L>>) = 1
      <3>1. DOMAIN <<L>> = {1}
        OBVIOUS
      <3> QED BY <3>1, FS_Singleton
    <2>3. ((k - 1) \div 1) + 1 = k /\ ((k - 1) % 1) + 1 = 1
      BY <1>0
    <2> QED BY <2>1, <2>2, <2>3 DEF SeeNext
  <1> QED BY <1>2, <1>3, <1>4

-----------------------------------------------------------------------------
(***************************************************************************)
(* What the auditor knows after a part of the log, when the log is sound.  *)
(***************************************************************************)
OrdersWith(entries, type) == {p.event.order : p \in {p \in entries : Is(p.event, type)}}

Unpaid(entries) ==
    {p.event.order : p \in VerifiedIn(entries)} \ OrdersWith(entries, "order.paid")

\* The payments that were captured and not given back.
Owing(entries) ==
    {p \in VerifiedIn(entries) :
        p.event.order \in OrdersWith(entries, "order.paid") \ OrdersWith(entries, "order.refunded")}

OwingBy(entries, agent) == {p \in Owing(entries) : Field(p.event, "agentId") = agent}

KeyIn(e) == <<Field(e, "agentId"), Field(e, "idempotencyKey")>>

LogFits(E) ==
    /\ IsFiniteSet(E) /\ \A p \in E : p.seq \in Nat
    /\ \A p, q \in E : p.seq = q.seq => p = q
    /\ AllSound(E) /\ Once(E) /\ WithinCap(E, E, Unpaid(E))

BookFields ==
    {"caps", "intents", "carts", "verified", "keysVerified", "keysCharged", "spent", "paid",
     "refunded", "violations"}

MapsFit(a, seen) ==
    \A p \in seen :
        /\ Is(p.event, "agent.registered") =>
              /\ Field(p.event, "agentId") \in DOMAIN a.caps
              /\ a.caps[Field(p.event, "agentId")] = Field(p.event, "capPaise")
        /\ Is(p.event, "mandate.intent_declared") =>
              /\ Field(p.event, "intentHash") \in DOMAIN a.intents
              /\ a.intents[Field(p.event, "intentHash")]
                     = [agentId |-> Field(p.event, "agentId"),
                        budgetPaise |-> Field(p.event, "budgetPaise")]
        /\ Is(p.event, "mandate.cart_created") =>
              /\ Field(p.event, "cartHash") \in DOMAIN a.carts
              /\ a.carts[Field(p.event, "cartHash")]
                     = [agentId |-> Field(p.event, "agentId"),
                        intentHash |-> Field(p.event, "intentHash"),
                        totals |-> {Field(p.event, "totalAmountPaise")}]
        /\ Is(p.event, "payment.verified") =>
              p.event.order \in DOMAIN a.verified /\ a.verified[p.event.order] = p.event

KeysFit(a, seen) ==
    /\ a.keysVerified = {KeyIn(p.event) : p \in VerifiedIn(seen)}
    /\ \A key \in a.keysCharged :
          \E p \in VerifiedIn(seen) :
              KeyIn(p.event) = key /\ p.event.order \in OrdersWith(seen, "order.paid")
    /\ a.paid = OrdersWith(seen, "order.paid")
    /\ a.refunded = OrdersWith(seen, "order.refunded")

MoneyFits(a, E, seen) ==
    /\ IsFiniteSet(DOMAIN a.spent)
    /\ \A agent : SpentBy(a, agent) = SumFunctionOnSet(PaiseOf(E), OwingBy(seen, agent))
    /\ Captured(a) = SumFunctionOnSet(PaiseOf(E), Owing(seen))

\* The auditor's book after it has seen these entries of the log.
Book(a, E, seen) ==
    /\ DOMAIN a = BookFields /\ a.violations = {}
    /\ MapsFit(a, seen) /\ KeysFit(a, seen) /\ MoneyFits(a, E, seen)

\* p comes next.
SeenUntil(E, seen, p) == p \in E /\ seen = {q \in E : q.seq < p.seq}

-----------------------------------------------------------------------------
\* g is f with value for key.
IsPut(g, key, value, f) ==
    /\ DOMAIN g = {key} \cup DOMAIN f
    /\ key \in DOMAIN g /\ g[key] = value
    /\ \A x \in DOMAIN f : x # key => x \in DOMAIN g /\ g[x] = f[x]

(***************************************************************************)
(* One entry more.                                                         *)
(***************************************************************************)
LEMMA PutIn ==
    ASSUME NEW key, NEW value, NEW f
    PROVE  IsPut(Entry(key, value) ++ f, key, value, f)
  <1> DEFINE e == Entry(key, value)
             g == e ++ f
  <1>1. DOMAIN e = {key} /\ e[key] = value
    BY DEF Entry
  <1> HIDE DEF e
  <1>2. DOMAIN (e ++ f) = {key} \cup DOMAIN f
    BY <1>1 DEF ++
  <1>3. \A x \in {key} \cup DOMAIN f : (e ++ f)[x] = IF x \in DOMAIN e THEN e[x] ELSE f[x]
    BY <1>1 DEF ++
  <1> HIDE DEF g
  <1>4. IsPut(g, key, value, f)
    BY <1>1, <1>2, <1>3 DEF IsPut, g
  <1> QED BY <1>4 DEF e, g

\* What an entry rests on was seen before, and it is none of what was.
LEMMA NextEntry ==
    ASSUME NEW E, NEW U, NEW p, LogFits(E), SeenUntil(E, U, p)
    PROVE  /\ U \subseteq E /\ p \notin U /\ p \in E /\ IsFiniteSet(U)
           /\ Sound(p.event, {q.event : q \in U})
           /\ \A q \in U : ~ Same(q.event, p.event) /\ q.seq < p.seq
           /\ \A q \in U : Sound(q.event, {x.event : x \in {x \in E : x.seq < q.seq}})
           /\ \A q \in U : {x \in E : x.seq < q.seq} \subseteq U
  <1>1. U \subseteq E /\ p \in E
    BY DEF SeenUntil
  <1>2. \A q \in U : q.seq < p.seq /\ q.seq \in Nat /\ p.seq \in Nat
    BY DEF SeenUntil, LogFits
  <1>3. p \notin U
    BY <1>2
  <1>4. IsFiniteSet(U)
    BY <1>1, FS_Subset DEF LogFits
  <1>5. Earlier(E, p.seq) = {q.event : q \in U}
    BY DEF Earlier, SeenUntil
  <1>6. Sound(p.event, {q.event : q \in U})
    BY <1>1, <1>5 DEF LogFits, AllSound
  <1>7. \A q \in U : ~ Same(q.event, p.event)
    BY <1>1, <1>3 DEF LogFits, Once
  <1>8. \A q \in U : Earlier(E, q.seq) = {x.event : x \in {x \in E : x.seq < q.seq}}
    BY DEF Earlier
  <1>9. \A q \in U : Sound(q.event, {x.event : x \in {x \in E : x.seq < q.seq}})
    BY <1>1, <1>8 DEF LogFits, AllSound
  <1>10. \A q \in U : {x \in E : x.seq < q.seq} \subseteq U
    <2> SUFFICES ASSUME NEW q \in U, NEW x \in E, x.seq < q.seq PROVE x \in U
      OBVIOUS
    <2>1. x.seq \in Nat /\ x.seq < p.seq
      BY <1>2 DEF LogFits
    <2> QED BY <2>1 DEF SeenUntil
  <1> QED BY <1>1, <1>2, <1>3, <1>4, <1>6, <1>7, <1>9, <1>10

\* What one entry more adds.
LEMMA OneMoreSeen ==
    ASSUME NEW U, NEW p
    PROVE  /\ VerifiedIn(U \cup {p}) =
                  VerifiedIn(U) \cup (IF Is(p.event, "payment.verified") THEN {p} ELSE {})
           /\ \A type : OrdersWith(U \cup {p}, type) =
                  OrdersWith(U, type) \cup (IF Is(p.event, type) THEN {p.event.order} ELSE {})
  <1>1. VerifiedIn(U \cup {p}) =
            VerifiedIn(U) \cup (IF Is(p.event, "payment.verified") THEN {p} ELSE {})
    BY DEF VerifiedIn
  <1>2. ASSUME NEW type
        PROVE  OrdersWith(U \cup {p}, type) =
                   OrdersWith(U, type) \cup (IF Is(p.event, type) THEN {p.event.order} ELSE {})
    BY DEF OrdersWith
  <1> QED BY <1>1, <1>2

\* The numbers summed are natural numbers, of finitely many payments.
LEMMA PaiseAreNat ==
    ASSUME NEW E, LogFits(E)
    PROVE  /\ IsFiniteSet(VerifiedIn(E))
           /\ \A p \in VerifiedIn(E) : /\ PaiseOf(E)[p] \in Nat \ {0}
                                       /\ PaiseOf(E)[p] = Field(p.event, "amountPaise")
  <1>1. IsFiniteSet(VerifiedIn(E))
    BY FS_Subset DEF VerifiedIn, LogFits
  <1>2. \A p \in VerifiedIn(E) : p \in E /\ VerifiedSound(p.event, Earlier(E, p.seq))
    BY DEF VerifiedIn, LogFits, AllSound, Sound
  <1>3. \A p \in VerifiedIn(E) : Field(p.event, "amountPaise") \in Nat \ {0}
    BY <1>2 DEF VerifiedSound
  <1> QED BY <1>1, <1>2, <1>3 DEF PaiseOf

\* Parts of them sum to natural numbers.
LEMMA OwingFits ==
    ASSUME NEW E, LogFits(E), NEW U \in SUBSET E
    PROVE  /\ IsFiniteSet(Owing(U)) /\ Owing(U) \subseteq VerifiedIn(E)
           /\ SumFunctionOnSet(PaiseOf(E), Owing(U)) \in Nat
           /\ \A agent : /\ IsFiniteSet(OwingBy(U, agent)) /\ OwingBy(U, agent) \subseteq Owing(U)
                         /\ SumFunctionOnSet(PaiseOf(E), OwingBy(U, agent)) \in Nat
  <1>1. Owing(U) \subseteq VerifiedIn(E) /\ \A agent : OwingBy(U, agent) \subseteq Owing(U)
    BY DEF Owing, OwingBy, VerifiedIn
  <1>2. IsFiniteSet(Owing(U)) /\ \A agent : IsFiniteSet(OwingBy(U, agent))
    BY <1>1, PaiseAreNat, FS_Subset
  <1>3. \A p \in VerifiedIn(E) : PaiseOf(E)[p] \in Nat
    BY PaiseAreNat
  <1>4. SumFunctionOnSet(PaiseOf(E), Owing(U)) \in Nat
    BY <1>1, <1>2, <1>3, SumIsNat
  <1>5. \A agent : SumFunctionOnSet(PaiseOf(E), OwingBy(U, agent)) \in Nat
    <2> SUFFICES ASSUME NEW agent PROVE SumFunctionOnSet(PaiseOf(E), OwingBy(U, agent)) \in Nat
      OBVIOUS
    <2>1. \A p \in OwingBy(U, agent) : PaiseOf(E)[p] \in Nat
      BY <1>1, <1>3
    <2> QED BY <1>2, <2>1, SumIsNat
  <1> QED BY <1>1, <1>2, <1>4, <1>5

\* An entry that is no payment, capture or refund moves no money.
LEMMA SameMoney ==
    ASSUME NEW E, NEW U, NEW p, NEW a, NEW b, Book(a, E, U),
           ~ Is(p.event, "payment.verified"), ~ Is(p.event, "order.paid"),
           ~ Is(p.event, "order.refunded"), DOMAIN b = BookFields, b.violations = {},
           \A f \in {"keysVerified", "keysCharged", "spent", "paid", "refunded"} : b[f] = a[f],
           MapsFit(b, U \cup {p})
    PROVE  Book(b, E, U \cup {p})
  <1>1. VerifiedIn(U \cup {p}) = VerifiedIn(U)
    BY DEF VerifiedIn
  <1>2. \A type \in {"order.paid", "order.refunded"} :
            OrdersWith(U \cup {p}, type) = OrdersWith(U, type)
    BY DEF OrdersWith
  <1>3. Owing(U \cup {p}) = Owing(U)
    BY <1>1, <1>2 DEF Owing
  <1>4. \A agent : OwingBy(U \cup {p}, agent) = OwingBy(U, agent)
    BY <1>3 DEF OwingBy
  <1>5. KeysFit(b, U \cup {p})
    BY <1>1, <1>2 DEF KeysFit, Book
  <1>6. Captured(b) = Captured(a) /\ \A agent : SpentBy(b, agent) = SpentBy(a, agent)
    BY DEF Captured, SpentBy, Known
  <1>7. MoneyFits(b, E, U \cup {p})
    BY <1>3, <1>4, <1>6 DEF MoneyFits, Book
  <1> QED BY <1>5, <1>7 DEF Book

\* An entry the auditor learns nothing from.
LEMMA SameMaps ==
    ASSUME NEW E, NEW U, NEW p, NEW a, NEW b, Book(a, E, U),
           \A type \in {"agent.registered", "mandate.intent_declared", "mandate.cart_created",
                        "payment.verified"} : ~ Is(p.event, type),
           \A f \in {"caps", "intents", "carts", "verified"} : b[f] = a[f]
    PROVE  MapsFit(b, U \cup {p})
  BY DEF Book, MapsFit

\* What happens once did not happen before.
LEMMA NotBefore ==
    ASSUME NEW E, NEW U, NEW p, LogFits(E), SeenUntil(E, U, p), NEW q \in U
    PROVE  /\ Is(q.event, "agent.registered") /\ Is(p.event, "agent.registered") =>
                  Field(q.event, "agentId") # Field(p.event, "agentId")
           /\ Is(q.event, "mandate.intent_declared") /\ Is(p.event, "mandate.intent_declared") =>
                  Field(q.event, "intentHash") # Field(p.event, "intentHash")
           /\ Is(q.event, "mandate.cart_created") /\ Is(p.event, "mandate.cart_created") =>
                  Field(q.event, "cartHash") # Field(p.event, "cartHash")
           /\ Is(q.event, "payment.verified") /\ Is(p.event, "payment.verified") =>
                  KeyIn(q.event) # KeyIn(p.event)
           /\ \A type \in PerOrder :
                  Is(q.event, type) /\ Is(p.event, type) => q.event.order # p.event.order
  <1> DEFINE e == q.event
             f == p.event
  <1>1. ~ Same(e, f)
    BY NextEntry
  <1> HIDE DEF e, f
  <1>2. Is(e, "agent.registered") /\ Is(f, "agent.registered") =>
            Field(e, "agentId") # Field(f, "agentId")
    BY <1>1 DEF Same, Agrees, Is
  <1>3. Is(e, "mandate.intent_declared") /\ Is(f, "mandate.intent_declared") =>
            Field(e, "intentHash") # Field(f, "intentHash")
    BY <1>1 DEF Same, Agrees, Is
  <1>4. Is(e, "mandate.cart_created") /\ Is(f, "mandate.cart_created") =>
            Field(e, "cartHash") # Field(f, "cartHash")
    BY <1>1 DEF Same, Agrees, Is
  <1>5. Is(e, "payment.verified") /\ Is(f, "payment.verified") => KeyIn(e) # KeyIn(f)
    BY <1>1 DEF Same, Agrees, Is, KeyIn
  <1>6. \A type \in PerOrder : Is(e, type) /\ Is(f, type) => e.order # f.order
    BY <1>1 DEF Same, Is
  <1> QED BY <1>2, <1>3, <1>4, <1>5, <1>6 DEF e, f

-----------------------------------------------------------------------------
(***************************************************************************)
(* What the auditor makes of an entry, by its type.                        *)
(***************************************************************************)
LEMMA SeesAgent ==
    ASSUME NEW E, NEW U, NEW p, NEW a, LogFits(E), SeenUntil(E, U, p), Book(a, E, U),
           Is(p.event, "agent.registered")
    PROVE  Book(SeeAgent(a, p.event), E, U \cup {p})
  <1> DEFINE e == p.event
             b == [a EXCEPT !.caps = Entry(Field(e, "agentId"), Field(e, "capPaise")) ++ @]
  <1>1. Field(e, "agentId") # NoField /\ Field(e, "capPaise") # NoField
    <2>1. Sound(e, {q.event : q \in U})
      BY NextEntry
    <2>2. RegistrationSound(e)
      BY <2>1 DEF Sound
    <2> QED BY <2>2, LedgerAssumption DEF RegistrationSound
  <1>2. SeeAgent(a, e) = b
    BY <1>1 DEF SeeAgent
  <1>3. /\ DOMAIN b = BookFields /\ b.violations = {}
        /\ \A f \in BookFields \ {"caps"} : b[f] = a[f]
        /\ b.caps = Entry(Field(e, "agentId"), Field(e, "capPaise")) ++ a.caps
    BY DEF Book, BookFields
  <1> HIDE DEF b
  <1>4. MapsFit(b, U \cup {p})
    <2>1. \A q \in U : Is(q.event, "agent.registered") =>
              Field(q.event, "agentId") # Field(e, "agentId")
      BY NotBefore
    <2>2. \A q \in U : Is(q.event, "agent.registered") =>
              /\ Field(q.event, "agentId") \in DOMAIN b.caps
              /\ b.caps[Field(q.event, "agentId")] = Field(q.event, "capPaise")
      <3>1. b.caps = Entry(Field(e, "agentId"), Field(e, "capPaise")) ++ a.caps
        BY <1>3
      <3>2. \A x \in DOMAIN a.caps : x # Field(e, "agentId") =>
                x \in DOMAIN b.caps /\ b.caps[x] = a.caps[x]
        <4>1. IsPut(b.caps, Field(e, "agentId"), Field(e, "capPaise"), a.caps)
          BY <3>1, PutIn
        <4> QED BY <4>1 DEF IsPut
      <3> QED BY <2>1, <3>2 DEF Book, MapsFit
    <2>3. /\ Field(e, "agentId") \in DOMAIN b.caps
          /\ b.caps[Field(e, "agentId")] = Field(e, "capPaise")
      <3>1. b.caps = Entry(Field(e, "agentId"), Field(e, "capPaise")) ++ a.caps
        BY <1>3
      <3>2. IsPut(b.caps, Field(e, "agentId"), Field(e, "capPaise"), a.caps)
        BY <3>1, PutIn
      <3> QED BY <3>2 DEF IsPut
    <2>4. b.intents = a.intents /\ b.carts = a.carts /\ b.verified = a.verified
      BY <1>3 DEF BookFields
    <2>5. \A type \in {"mandate.intent_declared", "mandate.cart_created", "payment.verified"} :
              ~ Is(e, type)
      BY DEF Is
    <2> QED BY <2>2, <2>3, <2>4, <2>5 DEF Book, MapsFit
  <1>5. /\ ~ Is(e, "payment.verified") /\ ~ Is(e, "order.paid") /\ ~ Is(e, "order.refunded")
        /\ \A f \in {"keysVerified", "keysCharged", "spent", "paid", "refunded"} : b[f] = a[f]
    BY <1>3 DEF Is, BookFields
  <1> QED BY <1>2, <1>3, <1>4, <1>5, SameMoney

\* A declared mandate.
LEMMA SeesIntent ==
    ASSUME NEW E, NEW U, NEW p, NEW a, LogFits(E), SeenUntil(E, U, p), Book(a, E, U),
           Is(p.event, "mandate.intent_declared")
    PROVE  Book(SeeIntent(a, p.event), E, U \cup {p})
  <1> DEFINE e == p.event
             learned == [agentId |-> Field(e, "agentId"), budgetPaise |-> Field(e, "budgetPaise")]
             b == [a EXCEPT !.intents = Entry(Field(e, "intentHash"), learned) ++ @]
  <1>1. Field(e, "intentHash") # NoField
    BY NextEntry DEF Sound, IntentSound
  <1>2. SeeIntent(a, e) = b
    BY <1>1 DEF SeeIntent
  <1>3. /\ DOMAIN b = BookFields /\ b.violations = {}
        /\ \A f \in BookFields \ {"intents"} : b[f] = a[f]
        /\ b.intents = Entry(Field(e, "intentHash"), learned) ++ a.intents
    BY DEF Book, BookFields
  <1> HIDE DEF b
  <1>4. MapsFit(b, U \cup {p})
    <2>1. \A q \in U : Is(q.event, "mandate.intent_declared") =>
              Field(q.event, "intentHash") # Field(e, "intentHash")
      BY NotBefore
    <2>2. \A q \in U : Is(q.event, "mandate.intent_declared") =>
              /\ Field(q.event, "intentHash") \in DOMAIN b.intents
              /\ b.intents[Field(q.event, "intentHash")]
                     = [agentId |-> Field(q.event, "agentId"),
                        budgetPaise |-> Field(q.event, "budgetPaise")]
      <3>1. \A q \in U : Is(q.event, "mandate.intent_declared") =>
                /\ Field(q.event, "intentHash") \in DOMAIN b.intents
                /\ b.intents[Field(q.event, "intentHash")] = a.intents[Field(q.event, "intentHash")]
        <4> HIDE DEF learned
        <4>1. b.intents = Entry(Field(e, "intentHash"), learned) ++ a.intents
          BY <1>3
        <4>2. \A x \in DOMAIN a.intents : x # Field(e, "intentHash") =>
                  x \in DOMAIN b.intents /\ b.intents[x] = a.intents[x]
          <5>1. IsPut(b.intents, Field(e, "intentHash"), learned, a.intents)
            BY <4>1, PutIn
          <5> QED BY <5>1 DEF IsPut
        <4> QED BY <2>1, <4>2 DEF Book, MapsFit
      <3> QED BY <3>1 DEF Book, MapsFit
    <2>3. /\ Field(e, "intentHash") \in DOMAIN b.intents
          /\ b.intents[Field(e, "intentHash")] = learned
      <3> HIDE DEF learned
      <3>1. b.intents = Entry(Field(e, "intentHash"), learned) ++ a.intents
        BY <1>3
      <3>2. IsPut(b.intents, Field(e, "intentHash"), learned, a.intents)
        BY <3>1, PutIn
      <3> QED BY <3>2 DEF IsPut
    <2>4. b.caps = a.caps /\ b.carts = a.carts /\ b.verified = a.verified
      BY <1>3 DEF BookFields
    <2>5. \A type \in {"agent.registered", "mandate.cart_created", "payment.verified"} :
              ~ Is(e, type)
      BY DEF Is
    <2> QED BY <2>2, <2>3, <2>4, <2>5 DEF Book, MapsFit
  <1>5. /\ ~ Is(e, "payment.verified") /\ ~ Is(e, "order.paid") /\ ~ Is(e, "order.refunded")
        /\ \A f \in {"keysVerified", "keysCharged", "spent", "paid", "refunded"} : b[f] = a[f]
    BY <1>3 DEF Is, BookFields
  <1> QED BY <1>2, <1>3, <1>4, <1>5, SameMoney

\* A Cart, its items and its total.
LEMMA SeesCart ==
    ASSUME NEW E, NEW U, NEW p, NEW a, LogFits(E), SeenUntil(E, U, p), Book(a, E, U),
           Is(p.event, "mandate.cart_created")
    PROVE  Book(SeeCart(a, p.event), E, U \cup {p})
  <1> DEFINE e == p.event
             learned == [agentId |-> Field(e, "agentId"), intentHash |-> Field(e, "intentHash"),
                         totals |-> {Field(e, "totalAmountPaise"),
                                     RecomputedTotal(Field(e, "items"))}]
             b == [a EXCEPT !.carts = Entry(Field(e, "cartHash"), learned) ++ @]
  <1>1. /\ Field(e, "cartHash") # NoField
        /\ RecomputedTotal(Field(e, "items")) = Field(e, "totalAmountPaise")
    BY NextEntry DEF Sound, CartSound
  <1>2. SeeCart(a, e) = b
    BY <1>1 DEF SeeCart
  <1>3. /\ DOMAIN b = BookFields /\ b.violations = {}
        /\ \A f \in BookFields \ {"carts"} : b[f] = a[f]
        /\ b.carts = Entry(Field(e, "cartHash"), learned) ++ a.carts
    BY DEF Book, BookFields
  <1> HIDE DEF b
  <1>4. MapsFit(b, U \cup {p})
    <2>1. \A q \in U : Is(q.event, "mandate.cart_created") =>
              Field(q.event, "cartHash") # Field(e, "cartHash")
      BY NotBefore
    <2>2. \A q \in U : Is(q.event, "mandate.cart_created") =>
              /\ Field(q.event, "cartHash") \in DOMAIN b.carts
              /\ b.carts[Field(q.event, "cartHash")]
                     = [agentId |-> Field(q.event, "agentId"),
                        intentHash |-> Field(q.event, "intentHash"),
                        totals |-> {Field(q.event, "totalAmountPaise")}]
      <3>1. \A q \in U : Is(q.event, "mandate.cart_created") =>
                /\ Field(q.event, "cartHash") \in DOMAIN b.carts
                /\ b.carts[Field(q.event, "cartHash")] = a.carts[Field(q.event, "cartHash")]
        <4> HIDE DEF learned
        <4>1. b.carts = Entry(Field(e, "cartHash"), learned) ++ a.carts
          BY <1>3
        <4>2. \A x \in DOMAIN a.carts : x # Field(e, "cartHash") =>
                  x \in DOMAIN b.carts /\ b.carts[x] = a.carts[x]
          <5>1. IsPut(b.carts, Field(e, "cartHash"), learned, a.carts)
            BY <4>1, PutIn
          <5> QED BY <5>1 DEF IsPut
        <4> QED BY <2>1, <4>2 DEF Book, MapsFit
      <3> QED BY <3>1 DEF Book, MapsFit
    <2>3. /\ Field(e, "cartHash") \in DOMAIN b.carts
          /\ b.carts[Field(e, "cartHash")]
                 = [agentId |-> Field(e, "agentId"), intentHash |-> Field(e, "intentHash"),
                    totals |-> {Field(e, "totalAmountPaise")}]
      <3>1. learned = [agentId |-> Field(e, "agentId"), intentHash |-> Field(e, "intentHash"),
                       totals |-> {Field(e, "totalAmountPaise")}]
        <4>1. {Field(e, "totalAmountPaise"), RecomputedTotal(Field(e, "items"))}
                  = {Field(e, "totalAmountPaise")}
          BY <1>1
        <4> QED BY <4>1
      <3> HIDE DEF learned
      <3>2. b.carts = Entry(Field(e, "cartHash"), learned) ++ a.carts
        BY <1>3
      <3>3. Field(e, "cartHash") \in DOMAIN b.carts /\ b.carts[Field(e, "cartHash")] = learned
        <4>1. IsPut(b.carts, Field(e, "cartHash"), learned, a.carts)
          BY <3>2, PutIn
        <4> QED BY <4>1 DEF IsPut
      <3> QED BY <3>1, <3>3
    <2>4. b.caps = a.caps /\ b.intents = a.intents /\ b.verified = a.verified
      BY <1>3 DEF BookFields
    <2>5. \A type \in {"agent.registered", "mandate.intent_declared", "payment.verified"} :
              ~ Is(e, type)
      BY DEF Is
    <2> QED BY <2>2, <2>3, <2>4, <2>5 DEF Book, MapsFit
  <1>5. /\ ~ Is(e, "payment.verified") /\ ~ Is(e, "order.paid") /\ ~ Is(e, "order.refunded")
        /\ \A f \in {"keysVerified", "keysCharged", "spent", "paid", "refunded"} : b[f] = a[f]
    BY <1>3 DEF Is, BookFields
  <1> QED BY <1>2, <1>3, <1>4, <1>5, SameMoney

\* Nothing is flagged when there is nothing to flag.
LEMMA NothingFlagged ==
    ASSUME NEW a, NEW n, DOMAIN a = BookFields, a.violations = {}
    PROVE  /\ DOMAIN Flagged(a, n, {}) = BookFields
           /\ \A f \in BookFields : Flagged(a, n, {})[f] = a[f]
  <1>1. /\ DOMAIN Flagged(a, n, {}) = DOMAIN a
        /\ \A f \in DOMAIN a \ {"violations"} : Flagged(a, n, {})[f] = a[f]
        /\ Flagged(a, n, {}).violations = a.violations \cup {}
    BY DEF Flagged, BookFields
  <1> QED BY <1>1 DEF BookFields

\* An entry that is only looked at.
LEMMA OnlyLooked ==
    ASSUME NEW E, NEW U, NEW p, NEW a, NEW b, Book(a, E, U), DOMAIN b = BookFields,
           \A f \in BookFields : b[f] = a[f],
           p.event.type \notin {"agent.registered", "mandate.intent_declared",
                                "mandate.cart_created", "payment.verified", "order.paid",
                                "order.refunded"}
    PROVE  Book(b, E, U \cup {p})
  <1>1. \A type \in {"agent.registered", "mandate.intent_declared", "mandate.cart_created",
                     "payment.verified", "order.paid", "order.refunded"} : ~ Is(p.event, type)
    BY DEF Is
  <1>2. /\ b.violations = {}
        /\ \A f \in {"keysVerified", "keysCharged", "spent", "paid", "refunded"} : b[f] = a[f]
        /\ \A f \in {"caps", "intents", "carts", "verified"} : b[f] = a[f]
    BY DEF BookFields, Book
  <1>3. MapsFit(b, U \cup {p})
    BY <1>1, <1>2, SameMaps
  <1> QED BY <1>1, <1>2, <1>3, SameMoney

\* A refusal.
LEMMA SeesRefusal ==
    ASSUME NEW E, NEW U, NEW p, NEW a, LogFits(E), SeenUntil(E, U, p), Book(a, E, U),
           p.event.type \in RefusalTypes
    PROVE  Book(SeeRefusal(a, p.seq, p.event), E, U \cup {p})
  <1>1. RefusalSound(p.event)
    BY NextEntry DEF Sound
  <1>2. SeeRefusal(a, p.seq, p.event) = Flagged(a, p.seq, {})
    BY <1>1 DEF SeeRefusal, When, RefusalSound
  <1>3. DOMAIN a = BookFields /\ a.violations = {}
    BY DEF Book
  <1> QED BY <1>2, <1>3, NothingFlagged, OnlyLooked DEF RefusalTypes

\* A replay, of a payment that was verified.
LEMMA SeesReplayed ==
    ASSUME NEW E, NEW U, NEW p, NEW a, LogFits(E), SeenUntil(E, U, p), Book(a, E, U),
           Is(p.event, "payment.replayed")
    PROVE  Book(SeeReplayed(a, p.seq, p.event), E, U \cup {p})
  <1>1. PICK v \in U : Is(v.event, "payment.verified")
                       /\ Agrees(v.event, p.event, {"agentId", "idempotencyKey"})
    <2>1. Sound(p.event, {q.event : q \in U})
      BY NextEntry
    <2> QED BY <2>1 DEF Sound, ReplaySound
  <1>2. KeyIn(v.event) = KeyIn(p.event) /\ v \in VerifiedIn(U)
    BY <1>1 DEF Agrees, KeyIn, VerifiedIn
  <1>3. KeyIn(p.event) \in a.keysVerified
    BY <1>2 DEF Book, KeysFit
  <1>4. SeeReplayed(a, p.seq, p.event) = Flagged(a, p.seq, {})
    BY <1>3 DEF SeeReplayed, When, KeyIn
  <1>5. DOMAIN a = BookFields /\ a.violations = {}
    BY DEF Book
  <1> QED BY <1>4, <1>5, NothingFlagged, OnlyLooked DEF Is

\* A Receipt, of a payment that was verified.
LEMMA SeesReceipt ==
    ASSUME NEW E, NEW U, NEW p, NEW a, LogFits(E), SeenUntil(E, U, p), Book(a, E, U),
           Is(p.event, "receipt.issued")
    PROVE  Book(SeeReceipt(a, p.seq, p.event), E, U \cup {p})
  <1>1. Field(p.event, "gatewayPaymentId") # NoField
    BY NextEntry DEF Sound, ReceiptSound
  <1>2. PICK v \in U :
            /\ Is(v.event, "payment.verified") /\ v.event.order = p.event.order
            /\ Agrees(v.event, p.event, {"intentHash", "cartHash", "paymentHash", "amountPaise"})
    <2>1. Sound(p.event, {q.event : q \in U})
      BY NextEntry
    <2> QED BY <2>1 DEF Sound, ReceiptSound
  <1>3. Known(a.verified, p.event.order) /\ a.verified[p.event.order] = v.event
    BY <1>2 DEF Book, MapsFit, Known
  <1>4. SeeReceipt(a, p.seq, p.event) = Flagged(a, p.seq, {})
    BY <1>1, <1>2, <1>3 DEF SeeReceipt, When, Agrees
  <1>5. DOMAIN a = BookFields /\ a.violations = {}
    BY DEF Book
  <1> QED BY <1>4, <1>5, NothingFlagged, OnlyLooked DEF Is

\* Among the entries U is the verified payment that e captures, the capture e gives back.
PaymentBefore(e, U) ==
    \E v \in VerifiedIn(U) : /\ v.event.order = e.order
                             /\ Field(v.event, "amountPaise") = Field(e, "amountPaise")
CaptureBefore(e, U) ==
    \E x \in U : /\ Is(x.event, "order.paid") /\ x.event.order = e.order
                 /\ Field(x.event, "amountPaise") = Field(e, "amountPaise")

\* The payment an Order's capture or refund is of, and a payment's chain.
LEMMA RestsOn ==
    ASSUME NEW E, NEW U, NEW p, LogFits(E), SeenUntil(E, U, p), NEW q \in U \cup {p}
    PROVE  /\ Is(q.event, "order.paid") => PaymentBefore(q.event, U)
           /\ Is(q.event, "order.refunded") => CaptureBefore(q.event, U)
           /\ Is(q.event, "payment.verified") =>
                  VerifiedSound(q.event, {x.event : x \in U})
  <1> DEFINE before == IF q = p THEN U ELSE {x \in E : x.seq < q.seq}
  <1>1. before \subseteq U /\ Sound(q.event, {x.event : x \in before})
    <2>1. CASE q = p
      BY <2>1, NextEntry
    <2>2. CASE q # p
      BY <2>2, NextEntry
    <2> QED BY <2>1, <2>2
  <1> HIDE DEF before
  <1>2. Is(q.event, "order.paid") => PaymentBefore(q.event, U)
    BY <1>1 DEF Sound, PaidSound, Agrees, VerifiedIn, PaymentBefore
  <1>3. Is(q.event, "order.refunded") => CaptureBefore(q.event, U)
    BY <1>1 DEF Sound, RefundSound, Agrees, CaptureBefore
  <1>4. Is(q.event, "payment.verified") => VerifiedSound(q.event, {x.event : x \in U})
    <2>1. {x.event : x \in before} \subseteq {x.event : x \in U}
      BY <1>1
    <2> QED BY <1>1, <2>1 DEF Sound, VerifiedSound
  <1> QED BY <1>2, <1>3, <1>4

\* Of a verified payment's Order nothing was captured or given back before.
LEMMA NothingBefore ==
    ASSUME NEW E, NEW U, NEW p, LogFits(E), SeenUntil(E, U, p)
    PROVE  /\ Is(p.event, "payment.verified") =>
                  p.event.order \notin OrdersWith(U, "order.paid")
           /\ Is(p.event, "order.paid") =>
                  /\ p.event.order \notin OrdersWith(U, "order.paid")
                  /\ p.event.order \notin OrdersWith(U, "order.refunded")
           /\ Is(p.event, "order.refunded") =>
                  p.event.order \notin OrdersWith(U, "order.refunded")
           /\ \A v, x \in VerifiedIn(U) : v.event.order = x.event.order => v = x
           /\ \A v, x \in VerifiedIn(U) : KeyIn(v.event) = KeyIn(x.event) => v = x
  <1>1. ASSUME Is(p.event, "payment.verified"), NEW q \in U, Is(q.event, "order.paid"),
               q.event.order = p.event.order
        PROVE  FALSE
    <2>1. PICK v \in VerifiedIn(U) : v.event.order = q.event.order
      BY <1>1, RestsOn DEF PaymentBefore
    <2> QED BY <1>1, <2>1, NotBefore DEF VerifiedIn, PerOrder
  <1>2. ASSUME Is(p.event, "order.paid"), NEW q \in U, Is(q.event, "order.paid"),
               q.event.order = p.event.order
        PROVE  FALSE
    BY <1>2, NotBefore DEF PerOrder
  <1>3. ASSUME Is(p.event, "order.paid"), NEW q \in U, Is(q.event, "order.refunded"),
               q.event.order = p.event.order
        PROVE  FALSE
    <2>1. PICK x \in U : Is(x.event, "order.paid") /\ x.event.order = q.event.order
      BY <1>3, RestsOn DEF CaptureBefore
    <2> QED BY <1>3, <2>1, NotBefore DEF PerOrder
  <1>4. ASSUME Is(p.event, "order.refunded"), NEW q \in U, Is(q.event, "order.refunded"),
               q.event.order = p.event.order
        PROVE  FALSE
    BY <1>4, NotBefore DEF PerOrder
  <1>5. \A v, x \in VerifiedIn(U) :
            v.event.order = x.event.order \/ KeyIn(v.event) = KeyIn(x.event) => v = x
    <2> SUFFICES ASSUME NEW v \in VerifiedIn(U), NEW x \in VerifiedIn(U),
                        v.event.order = x.event.order \/ KeyIn(v.event) = KeyIn(x.event)
                 PROVE  v = x
      OBVIOUS
    <2>1. v \in E /\ x \in E /\ Is(v.event, "payment.verified") /\ Is(x.event, "payment.verified")
      BY NextEntry DEF VerifiedIn
    <2>2. Same(v.event, x.event)
      BY <2>1 DEF Same, Is, PerOrder, KeyIn, Agrees
    <2> QED BY <2>1, <2>2 DEF LogFits, Once
  <1> QED BY <1>1, <1>2, <1>3, <1>4, <1>5 DEF OrdersWith

\* A verified payment, by its chain and its key.
LEMMA SeesVerified ==
    ASSUME NEW E, NEW U, NEW p, NEW a, LogFits(E), SeenUntil(E, U, p), Book(a, E, U),
           Is(p.event, "payment.verified")
    PROVE  Book(SeeVerified(a, p.seq, p.event), E, U \cup {p})
  <1> DEFINE e == p.event
             key == KeyIn(e)
             seen == [a EXCEPT !.verified = Entry(e.order, e) ++ @]
             keyed == [seen EXCEPT !.keysVerified = @ \cup {key}]
             b == Flagged(keyed, p.seq, {})
  <1>1. /\ e.order # NoField /\ Field(e, "agentId") # NoField
        /\ Field(e, "idempotencyKey") # NoField
    <2>1. VerifiedSound(e, {x.event : x \in U})
      BY RestsOn
    <2> QED BY <2>1 DEF VerifiedSound
  <1>2. key \notin a.keysVerified
    <2>1. \A q \in VerifiedIn(U) : KeyIn(q.event) # key
      BY NotBefore DEF VerifiedIn
    <2> QED BY <2>1 DEF Book, KeysFit
  <1>3. SeeVerified(a, p.seq, e) = b
    BY <1>1, <1>2 DEF SeeVerified, KeyIn, When
  <1>4. /\ DOMAIN b = BookFields /\ b.violations = {}
        /\ \A f \in BookFields \ {"verified", "keysVerified"} : b[f] = a[f]
        /\ b.verified = Entry(e.order, e) ++ a.verified
        /\ b.keysVerified = a.keysVerified \cup {key}
    <2>1. /\ DOMAIN seen = BookFields /\ seen.violations = {}
          /\ \A f \in BookFields \ {"verified"} : seen[f] = a[f]
          /\ seen.verified = Entry(e.order, e) ++ a.verified
      BY DEF Book, BookFields
    <2> HIDE DEF seen, key
    <2>2. /\ DOMAIN keyed = BookFields /\ keyed.violations = {}
          /\ \A f \in BookFields \ {"keysVerified"} : keyed[f] = seen[f]
          /\ keyed.keysVerified = seen.keysVerified \cup {key}
      BY <2>1 DEF BookFields
    <2> HIDE DEF keyed
    <2>3. DOMAIN b = BookFields /\ \A f \in BookFields : b[f] = keyed[f]
      BY <2>2, NothingFlagged
    <2> HIDE DEF b
    <2> QED BY <2>1, <2>2, <2>3 DEF BookFields
  <1> HIDE DEF b, seen, keyed
  <1>5. MapsFit(b, U \cup {p})
    <2>1. \A q \in U : Is(q.event, "payment.verified") => q.event.order # e.order
      BY NotBefore DEF PerOrder
    <2>2. /\ \A x \in DOMAIN a.verified : x # e.order =>
                 x \in DOMAIN b.verified /\ b.verified[x] = a.verified[x]
          /\ e.order \in DOMAIN b.verified /\ b.verified[e.order] = e
      <3>1. IsPut(b.verified, e.order, e, a.verified)
        BY <1>4, PutIn
      <3> QED BY <3>1 DEF IsPut
    <2>3. \A q \in U : Is(q.event, "payment.verified") =>
              q.event.order \in DOMAIN b.verified /\ b.verified[q.event.order] = q.event
      BY <2>1, <2>2 DEF Book, MapsFit
    <2>4. b.caps = a.caps /\ b.intents = a.intents /\ b.carts = a.carts
      BY <1>4 DEF BookFields
    <2>5. \A type \in {"agent.registered", "mandate.intent_declared", "mandate.cart_created"} :
              ~ Is(e, type)
      BY DEF Is
    <2> QED BY <2>2, <2>3, <2>4, <2>5 DEF Book, MapsFit
  <1>6. VerifiedIn(U \cup {p}) = VerifiedIn(U) \cup {p}
    BY DEF VerifiedIn
  <1>7. \A type \in {"order.paid", "order.refunded"} :
            OrdersWith(U \cup {p}, type) = OrdersWith(U, type)
    BY DEF OrdersWith, Is
  <1>8. KeysFit(b, U \cup {p})
    <2>1. /\ b.keysCharged = a.keysCharged /\ b.paid = a.paid /\ b.refunded = a.refunded
          /\ b.keysVerified = a.keysVerified \cup {key}
      BY <1>4 DEF BookFields
    <2> QED BY <1>6, <1>7, <2>1 DEF Book, KeysFit
  <1>9. Owing(U \cup {p}) = Owing(U)
    <2>1. p.event.order \notin OrdersWith(U, "order.paid")
      BY NothingBefore
    <2> QED BY <1>6, <1>7, <2>1 DEF Owing
  <1>10. MoneyFits(b, E, U \cup {p})
    <2>1. b.spent = a.spent
      BY <1>4 DEF BookFields
    <2>2. Captured(b) = Captured(a) /\ \A agent : SpentBy(b, agent) = SpentBy(a, agent)
      BY <2>1 DEF Captured, SpentBy, Known
    <2>3. \A agent : OwingBy(U \cup {p}, agent) = OwingBy(U, agent)
      BY <1>9 DEF OwingBy
    <2> QED BY <1>9, <2>1, <2>2, <2>3 DEF Book, MoneyFits
  <1> QED BY <1>3, <1>4, <1>5, <1>8, <1>10 DEF Book

\* b's books are a's, but that the Agent has spent n.
Respent(a, b, agent, n) ==
    /\ IsFiniteSet(DOMAIN b.spent) /\ Captured(a) \in Nat
    /\ SpentBy(b, agent) = n /\ \A g : g # agent => SpentBy(b, g) = SpentBy(a, g)
    /\ Captured(b) + SpentBy(a, agent) = Captured(a) + n

\* A new number of an Agent, in place of its old one.
LEMMA SpentPut ==
    ASSUME NEW a, NEW b, NEW agent, NEW n \in Nat, IsFiniteSet(DOMAIN a.spent),
           \A g : SpentBy(a, g) \in Nat, b.spent = Entry(agent, n) ++ a.spent
    PROVE  Respent(a, b, agent, n)
  <1>1. /\ DOMAIN b.spent = {agent} \cup DOMAIN a.spent /\ b.spent[agent] = n
        /\ \A x \in DOMAIN a.spent : x # agent => b.spent[x] = a.spent[x]
    <2>1. IsPut(b.spent, agent, n, a.spent)
      BY PutIn
    <2> QED BY <2>1 DEF IsPut
  <1>2. IsFiniteSet(DOMAIN b.spent)
    BY <1>1, FS_AddElement
  <1>3. SpentBy(b, agent) = n /\ \A g : g # agent => SpentBy(b, g) = SpentBy(a, g)
    BY <1>1 DEF SpentBy, Known
  <1>4. \A x \in DOMAIN a.spent : a.spent[x] \in Nat /\ a.spent[x] = SpentBy(a, x)
    BY DEF SpentBy, Known
  <1>5. Captured(a) \in Nat
    BY <1>4, SumIsNat DEF Captured
  <1> DEFINE f == a.spent
             g == b.spent
             S == DOMAIN a.spent
  <1>6. /\ IsFiniteSet(S) /\ \A y \in S : f[y] \in Nat
        /\ g[agent] \in Nat /\ \A y \in S \ {agent} : g[y] = f[y]
    BY <1>1, <1>4
  <1>7. (IF agent \in S THEN f[agent] ELSE 0) = SpentBy(a, agent)
    BY DEF SpentBy, Known
  <1>8. DOMAIN b.spent = S \cup {agent} /\ g[agent] = n
    BY <1>1
  <1> HIDE DEF f, g, S
  <1>9. SumFunctionOnSet(g, S \cup {agent}) + (IF agent \in S THEN f[agent] ELSE 0)
            = SumFunctionOnSet(f, S) + g[agent]
    BY <1>6, SumReplaced
  <1>10. Captured(b) + SpentBy(a, agent) = Captured(a) + n
    BY <1>7, <1>8, <1>9 DEF Captured, f, g, S
  <1> QED BY <1>2, <1>3, <1>5, <1>10 DEF Respent

\* What an Agent owes with one payment more is within its Cap: it was when the
\* last of those payments was verified.
LEMMA CapHolds ==
    ASSUME NEW E, NEW U, NEW p, LogFits(E), SeenUntil(E, U, p), Is(p.event, "order.paid"),
           NEW v \in VerifiedIn(U), v.event.order = p.event.order,
           NEW r \in U, Is(r.event, "agent.registered"), Agrees(r.event, v.event, {"agentId"})
    PROVE  SumFunctionOnSet(PaiseOf(E), OwingBy(U, Field(v.event, "agentId"))) + PaiseOf(E)[v]
               <= Field(r.event, "capPaise")
  <1> DEFINE agent == Field(v.event, "agentId")
             old == OwingBy(U, agent)
             all == old \cup {v}
             gaps == {p.seq - x.seq : x \in all}
  <1>1. /\ U \subseteq E /\ \A x \in U : x.seq \in Nat /\ p.seq \in Nat /\ x.seq < p.seq
    BY NextEntry DEF LogFits
  <1>2. all \subseteq VerifiedIn(U) /\ VerifiedIn(U) \subseteq U /\ VerifiedIn(U) \subseteq VerifiedIn(E)
    BY <1>1 DEF OwingBy, Owing, VerifiedIn
  <1>3. v \notin old
    BY NothingBefore DEF OwingBy, Owing
  <1>4. PICK q \in all : \A x \in all : x.seq <= q.seq
    <2> HIDE DEF all
    <2>1. gaps \in SUBSET Nat /\ gaps # {}
      <3>1. \A x \in all : p.seq - x.seq \in Nat
        BY <1>1, <1>2
      <3> QED BY <3>1 DEF all
    <2>2. PICK m \in gaps : \A n \in gaps : m <= n
      <3> HIDE DEF gaps
      <3> QED BY <2>1, LeastNumber
    <2>3. PICK q \in all : m = p.seq - q.seq
      BY <2>2
    <2>4. \A x \in all : p.seq - q.seq <= p.seq - x.seq
      BY <2>2, <2>3
    <2>5. \A x \in all : x.seq \in Nat /\ p.seq \in Nat
      BY <1>1, <1>2
    <2> QED BY <2>4, <2>5
  <1>5. all \subseteq Counting(E, E, Unpaid(E), q)
    <2> SUFFICES ASSUME NEW x \in all PROVE x \in Counting(E, E, Unpaid(E), q)
      OBVIOUS
    <2>1. x \in VerifiedIn(E) /\ x.seq <= q.seq /\ q \in U
      BY <1>2, <1>4
    <2>2. Agrees(x.event, q.event, {"agentId"})
      <3>1. \A y \in all : Field(y.event, "agentId") = agent
        BY DEF OwingBy
      <3> QED BY <3>1 DEF Agrees
    <2>3. x.event.order \in OrdersWith(E, "order.paid") /\ x.event.order \notin OrdersWith(U, "order.refunded")
      <3>1. CASE x \in old
        <4>1. x.event.order \in OrdersWith(U, "order.paid") \ OrdersWith(U, "order.refunded")
          BY <3>1 DEF OwingBy, Owing
        <4> QED BY <1>1, <4>1 DEF OrdersWith
      <3>2. CASE x = v
        <4>1. v.event.order \notin OrdersWith(U, "order.refunded")
          BY NothingBefore
        <4>2. p \in E
          BY NextEntry
        <4> QED BY <3>2, <4>1, <4>2 DEF OrdersWith
      <3> QED BY <3>1, <3>2
    <2>4. x.event.order \notin Unpaid(E)
      BY <2>3 DEF Unpaid
    <2>5. ~ RefundedBefore(E, q.seq, x.event.order)
      <3> SUFFICES ASSUME NEW y \in E, y.seq < q.seq, Is(y.event, "order.refunded"),
                          y.event.order = x.event.order
                   PROVE  FALSE
        BY DEF RefundedBefore
      <3>1. y \in U
        BY <2>1, NextEntry
      <3> QED BY <2>3, <3>1 DEF OrdersWith
    <2> QED BY <2>1, <2>2, <2>4, <2>5 DEF Counting
  <1>6. IsFiniteSet(old) /\ \A x \in VerifiedIn(E) : PaiseOf(E)[x] \in Nat
    BY <1>1, OwingFits, PaiseAreNat
  <1>7. SumFunctionOnSet(PaiseOf(E), all) = SumFunctionOnSet(PaiseOf(E), old) + PaiseOf(E)[v]
    <2>1. \A x \in old \cup {v} : PaiseOf(E)[x] \in Nat
      BY <1>2, <1>6
    <2> HIDE DEF old
    <2> QED BY <1>3, <1>6, <2>1, SumWithOneMore
  <1>8. SumFunctionOnSet(PaiseOf(E), all)
            <= SumFunctionOnSet(PaiseOf(E), Counting(E, E, Unpaid(E), q))
    <2> DEFINE counting == Counting(E, E, Unpaid(E), q)
    <2>1. counting \subseteq VerifiedIn(E)
      BY DEF Counting
    <2>2. IsFiniteSet(counting) /\ \A x \in counting : PaiseOf(E)[x] \in Nat
      BY <1>6, <2>1, PaiseAreNat, FS_Subset
    <2>3. all \in SUBSET counting
      BY <1>5
    <2> HIDE DEF all, counting
    <2>4. SumFunctionOnSet(PaiseOf(E), all) <= SumFunctionOnSet(PaiseOf(E), counting)
      BY <2>2, <2>3, SumOfAPart
    <2> QED BY <2>4 DEF counting
  <1>9. SumFunctionOnSet(PaiseOf(E), Counting(E, E, Unpaid(E), q)) <= Field(r.event, "capPaise")
    <2>1. Agrees(r.event, q.event, {"agentId"})
      <3>1. Field(q.event, "agentId") = agent
        BY <1>4 DEF OwingBy
      <3> QED BY <3>1 DEF Agrees
    <2>2. q \in VerifiedIn(E) /\ r \in E
      BY <1>1, <1>2, <1>4
    <2> QED BY <2>1, <2>2 DEF LogFits, WithinCap
  <1>10. Field(r.event, "capPaise") \in Nat
    <2>1. r \in E /\ RegistrationSound(r.event)
      BY <1>1 DEF LogFits, AllSound, Sound
    <2> QED BY <2>1 DEF RegistrationSound
  <1>11. /\ SumFunctionOnSet(PaiseOf(E), all) \in Nat
         /\ SumFunctionOnSet(PaiseOf(E), Counting(E, E, Unpaid(E), q)) \in Nat
    <2> DEFINE counting == Counting(E, E, Unpaid(E), q)
    <2>1. counting \subseteq VerifiedIn(E)
      BY DEF Counting
    <2>2. IsFiniteSet(counting) /\ \A x \in counting : PaiseOf(E)[x] \in Nat
      BY <1>6, <2>1, PaiseAreNat, FS_Subset
    <2>3. IsFiniteSet(all) /\ \A x \in all : PaiseOf(E)[x] \in Nat
      BY <1>2, <1>6, FS_AddElement
    <2> HIDE DEF all, counting
    <2> QED BY <2>2, <2>3, SumIsNat DEF counting
  <1> HIDE DEF all, old
  <1> QED BY <1>7, <1>8, <1>9, <1>10, <1>11 DEF old

\* Nothing is wrong with a sound capture.
LEMMA NothingToFlag ==
    ASSUME NEW E, NEW U, NEW p, NEW a, NEW c, LogFits(E), SeenUntil(E, U, p), Book(a, E, U),
           Is(p.event, "order.paid"), NEW v \in VerifiedIn(U), v.event.order = p.event.order,
           Field(v.event, "amountPaise") = Field(p.event, "amountPaise"),
           \A f \in BookFields \ {"paid"} : c[f] = a[f]
    PROVE  /\ ChainFlags(c, v.event, Field(p.event, "amountPaise")) = {}
           /\ KeyFlags(c, Field(v.event, "agentId"), Field(v.event, "idempotencyKey")) = {}
           /\ CapFlags(c, Field(v.event, "agentId"), Field(p.event, "amountPaise")) = {}
  <1> DEFINE amount == Field(p.event, "amountPaise")
             agent == Field(v.event, "agentId")
             key == Field(v.event, "idempotencyKey")
             before == {x.event : x \in U}
  <1>1. v \in U /\ VerifiedSound(v.event, before)
    BY RestsOn DEF VerifiedIn
  <1>2. /\ c.caps = a.caps /\ c.intents = a.intents /\ c.carts = a.carts /\ c.spent = a.spent
        /\ c.keysCharged = a.keysCharged
    BY DEF BookFields
  <1>3. ChainFlags(c, v.event, amount) = {}
    <2>1. PICK i \in U : /\ Is(i.event, "mandate.intent_declared")
                         /\ Agrees(i.event, v.event, {"intentHash", "agentId"})
                         /\ amount <= Field(i.event, "budgetPaise")
      BY <1>1 DEF VerifiedSound
    <2>2. PICK k \in U : /\ Is(k.event, "mandate.cart_created")
                         /\ Agrees(k.event, v.event, {"cartHash", "intentHash", "agentId"})
                         /\ Field(k.event, "totalAmountPaise") = amount
      BY <1>1 DEF VerifiedSound
    <2>3. /\ Known(c.intents, Field(v.event, "intentHash"))
          /\ c.intents[Field(v.event, "intentHash")]
                 = [agentId |-> agent, budgetPaise |-> Field(i.event, "budgetPaise")]
      BY <1>2, <2>1 DEF Book, MapsFit, Agrees, Known
    <2>4. /\ Known(c.carts, Field(v.event, "cartHash"))
          /\ c.carts[Field(v.event, "cartHash")]
                 = [agentId |-> agent, intentHash |-> Field(v.event, "intentHash"),
                    totals |-> {amount}]
      BY <1>2, <2>2 DEF Book, MapsFit, Agrees, Known
    <2>5. /\ agent # NoField /\ Field(v.event, "paymentHash") # NoField
          /\ Field(v.event, "amountPaise") = amount
      BY <1>1 DEF VerifiedSound
    <2>6. Field(i.event, "budgetPaise") # NoField
      <3>1. Sound(i.event, Earlier(E, i.seq))
        BY NextEntry DEF LogFits, AllSound
      <3> QED BY <2>1, <3>1, LedgerAssumption DEF Sound, IntentSound
    <2> HIDE DEF agent, amount
    <2>7. /\ c.intents[Field(v.event, "intentHash")].agentId = agent
          /\ c.intents[Field(v.event, "intentHash")].budgetPaise = Field(i.event, "budgetPaise")
          /\ c.carts[Field(v.event, "cartHash")].agentId = agent
          /\ c.carts[Field(v.event, "cartHash")].intentHash = Field(v.event, "intentHash")
          /\ c.carts[Field(v.event, "cartHash")].totals = {amount}
      BY <2>3, <2>4
    <2>8. {amount} \cup {Field(v.event, "amountPaise")} = {amount} /\ {agent, agent} = {agent}
      BY <2>5
    <2>9. ~ (amount > Field(i.event, "budgetPaise")) /\ amount <= Field(i.event, "budgetPaise")
      <3>1. amount \in Nat /\ Field(i.event, "budgetPaise") \in Nat
        <4>1. Sound(i.event, Earlier(E, i.seq))
          BY NextEntry DEF LogFits, AllSound
        <4> QED BY <1>1, <2>1, <2>5, <4>1 DEF Sound, IntentSound, VerifiedSound
      <3> QED BY <2>1, <3>1 DEF amount
    <2> QED BY <2>3, <2>4, <2>5, <2>6, <2>7, <2>8, <2>9 DEF ChainFlags, When, agent
  <1>4. KeyFlags(c, agent, key) = {}
    <2>1. <<agent, key>> \notin a.keysCharged
      <3> SUFFICES ASSUME <<agent, key>> \in a.keysCharged PROVE FALSE
        OBVIOUS
      <3>1. PICK x \in VerifiedIn(U) : /\ KeyIn(x.event) = <<agent, key>>
                                       /\ x.event.order \in OrdersWith(U, "order.paid")
        BY DEF Book, KeysFit
      <3>2. x = v
        BY <3>1, NothingBefore DEF KeyIn
      <3> QED BY <3>1, <3>2, NothingBefore
    <2>2. key # NoField
      BY <1>1 DEF VerifiedSound
    <2> QED BY <1>2, <2>1, <2>2 DEF KeyFlags, When
  <1>5. CapFlags(c, agent, amount) = {}
    <2>1. PICK r \in U : Is(r.event, "agent.registered") /\ Agrees(r.event, v.event, {"agentId"})
      BY <1>1 DEF VerifiedSound
    <2>2. SumFunctionOnSet(PaiseOf(E), OwingBy(U, agent)) + PaiseOf(E)[v] <= Field(r.event, "capPaise")
      BY <2>1, CapHolds
    <2>3. PaiseOf(E)[v] = amount
      BY <1>1, NextEntry DEF PaiseOf
    <2>4. SpentBy(c, agent) = SumFunctionOnSet(PaiseOf(E), OwingBy(U, agent))
      BY <1>2 DEF Book, MoneyFits, SpentBy, Known
    <2>5. Known(c.caps, agent) /\ c.caps[agent] = Field(r.event, "capPaise")
      BY <1>2, <2>1 DEF Book, MapsFit, Known, Agrees
    <2>6. /\ Field(r.event, "capPaise") \in Nat /\ amount \in Nat
          /\ SumFunctionOnSet(PaiseOf(E), OwingBy(U, agent)) \in Nat
      <3>1. Sound(r.event, Earlier(E, r.seq)) /\ U \in SUBSET E
        BY NextEntry DEF LogFits, AllSound
      <3>2. Field(r.event, "capPaise") \in Nat
        BY <2>1, <3>1 DEF Sound, RegistrationSound
      <3>3. amount \in Nat
        BY <1>1 DEF VerifiedSound
      <3> QED BY <3>1, <3>2, <3>3, OwingFits
    <2>7. ~ (SpentBy(c, agent) + amount > c.caps[agent])
      BY <2>2, <2>3, <2>4, <2>5, <2>6
    <2> QED BY <2>5, <2>7 DEF CapFlags, When
  <1> QED BY <1>3, <1>4, <1>5

\* A capture, by the chain and the cap of its Agent.
LEMMA SeesPaid ==
    ASSUME NEW E, NEW U, NEW p, NEW a, LogFits(E), SeenUntil(E, U, p), Book(a, E, U),
           Is(p.event, "order.paid")
    PROVE  Book(SeePaid(a, p.seq, p.event), E, U \cup {p})
  <1> DEFINE e == p.event
             amount == Field(e, "amountPaise")
             counted == [a EXCEPT !.paid = @ \cup {e.order}]
  <1>1. PICK v \in VerifiedIn(U) :
            v.event.order = e.order /\ Field(v.event, "amountPaise") = amount
    <2>1. PaymentBefore(p.event, U)
      BY RestsOn
    <2> QED BY <2>1 DEF PaymentBefore
  <1> DEFINE agent == Field(v.event, "agentId")
             key == Field(v.event, "idempotencyKey")
             chained == Flagged(counted, p.seq, {})
             charged == [chained EXCEPT
                            !.keysCharged = @ \cup {<<agent, key>>},
                            !.spent = Entry(agent, SpentBy(a, agent) + amount) ++ @]
             b == Flagged(charged, p.seq, {})
  <1>2. v \in U /\ VerifiedSound(v.event, {x.event : x \in U})
    BY RestsOn DEF VerifiedIn
  <1>3. /\ e.order # NoField /\ agent # NoField /\ key # NoField
        /\ amount \in Nat \ {0} /\ amount # NoField
    BY <1>1, <1>2, LedgerAssumption DEF VerifiedSound
  <1>4. e.order \notin a.paid
    BY NothingBefore DEF Book, KeysFit
  <1>5. Known(a.verified, e.order) /\ a.verified[e.order] = v.event
    BY <1>1, <1>2 DEF Book, MapsFit, VerifiedIn, Known
  <1>6. /\ DOMAIN counted = BookFields /\ counted.violations = {}
        /\ \A f \in BookFields \ {"paid"} : counted[f] = a[f]
        /\ counted.paid = a.paid \cup {e.order}
    BY DEF Book, BookFields
  <1> HIDE DEF counted
  <1>7. /\ ChainFlags(counted, v.event, amount) = {} /\ KeyFlags(counted, agent, key) = {}
        /\ CapFlags(counted, agent, amount) = {}
    BY <1>1, <1>6, NothingToFlag
  <1>8. SeePaid(a, p.seq, e) = Charge(counted, p.seq, v.event, amount)
    BY <1>3, <1>4, <1>5 DEF SeePaid, counted
  <1>9. Known(counted.caps, agent) /\ SpentBy(counted, agent) = SpentBy(a, agent)
    <2>1. counted.caps = a.caps /\ counted.spent = a.spent
      BY <1>6 DEF BookFields
    <2>2. PICK r \in U : Is(r.event, "agent.registered") /\ Agrees(r.event, v.event, {"agentId"})
      BY <1>2 DEF VerifiedSound
    <2>3. Known(a.caps, agent)
      BY <2>2 DEF Book, MapsFit, Agrees, Known
    <2> QED BY <2>1, <2>3 DEF SpentBy
  <1>10. Charge(counted, p.seq, v.event, amount) = b
    <2>1. KeyFlags(counted, agent, key) \cup CapFlags(counted, agent, amount) = {}
      BY <1>7
    <2> QED BY <1>3, <1>7, <1>9, <2>1 DEF Charge
  <1>11. /\ DOMAIN b = BookFields /\ b.violations = {}
         /\ \A f \in BookFields \ {"paid", "keysCharged", "spent"} : b[f] = a[f]
         /\ b.paid = a.paid \cup {e.order}
         /\ b.keysCharged = a.keysCharged \cup {<<agent, key>>}
         /\ b.spent = Entry(agent, SpentBy(a, agent) + amount) ++ a.spent
    <2>1. DOMAIN chained = BookFields /\ \A f \in BookFields : chained[f] = counted[f]
      BY <1>6, NothingFlagged
    <2> DEFINE spent == Entry(agent, SpentBy(a, agent) + amount)
               charge == <<agent, key>>
    <2> HIDE DEF chained, spent, charge
    <2>2. /\ DOMAIN charged = BookFields /\ charged.violations = {}
          /\ \A f \in BookFields \ {"keysCharged", "spent"} : charged[f] = chained[f]
          /\ charged.keysCharged = chained.keysCharged \cup {charge}
          /\ charged.spent = spent ++ chained.spent
      BY <1>6, <2>1 DEF BookFields, spent, charge
    <2> HIDE DEF charged
    <2>3. DOMAIN b = BookFields /\ \A f \in BookFields : b[f] = charged[f]
      BY <2>2, NothingFlagged
    <2> HIDE DEF b
    <2>4. /\ chained.keysCharged = a.keysCharged /\ chained.spent = a.spent
          /\ chained.paid = a.paid \cup {e.order} /\ b.violations = {}
          /\ \A f \in BookFields \ {"paid"} : chained[f] = a[f]
      BY <1>6, <2>1, <2>2, <2>3 DEF BookFields
    <2> QED BY <2>2, <2>3, <2>4 DEF BookFields, spent, charge
  <1> HIDE DEF b, chained, charged
  <1>12. VerifiedIn(U \cup {p}) = VerifiedIn(U)
    BY DEF VerifiedIn, Is
  <1>13. /\ OrdersWith(U \cup {p}, "order.paid") = OrdersWith(U, "order.paid") \cup {e.order}
         /\ OrdersWith(U \cup {p}, "order.refunded") = OrdersWith(U, "order.refunded")
    BY DEF OrdersWith, Is
  <1>14. MapsFit(b, U \cup {p})
    <2>1. \A type \in {"agent.registered", "mandate.intent_declared", "mandate.cart_created",
                       "payment.verified"} : ~ Is(e, type)
      BY DEF Is
    <2>2. \A f \in {"caps", "intents", "carts", "verified"} : b[f] = a[f]
      BY <1>11 DEF BookFields
    <2> QED BY <2>1, <2>2, SameMaps
  <1>15. KeysFit(b, U \cup {p})
    <2>1. b.keysVerified = a.keysVerified /\ b.refunded = a.refunded
      BY <1>11 DEF BookFields
    <2>2. ASSUME NEW x \in b.keysCharged
          PROVE  \E q \in VerifiedIn(U \cup {p}) :
                     KeyIn(q.event) = x /\ q.event.order \in OrdersWith(U \cup {p}, "order.paid")
      <3>1. CASE x \in a.keysCharged
        BY <1>12, <1>13, <3>1 DEF Book, KeysFit
      <3>2. CASE x = <<agent, key>>
        BY <1>1, <1>12, <1>13, <3>2 DEF KeyIn
      <3> QED BY <1>11, <2>2, <3>1, <3>2
    <2>3. b.paid = OrdersWith(U \cup {p}, "order.paid")
      BY <1>11, <1>13 DEF Book, KeysFit
    <2> QED BY <1>12, <1>13, <2>1, <2>2, <2>3 DEF Book, KeysFit
  <1>16. /\ Owing(U \cup {p}) = Owing(U) \cup {v} /\ v \notin Owing(U)
         /\ OwingBy(U \cup {p}, agent) = OwingBy(U, agent) \cup {v}
         /\ \A g : g # agent => OwingBy(U \cup {p}, g) = OwingBy(U, g)
    <2>1. e.order \notin OrdersWith(U, "order.refunded") /\ e.order \notin OrdersWith(U, "order.paid")
      BY NothingBefore
    <2>2. \A x \in VerifiedIn(U) : x.event.order = e.order => x = v
      BY <1>1, NothingBefore
    <2>3. v \notin Owing(U)
      BY <1>1, <2>1 DEF Owing
    <2>4. Owing(U \cup {p}) = Owing(U) \cup {v}
      <3>1. \A x : x \in Owing(U \cup {p}) <=>
                /\ x \in VerifiedIn(U)
                /\ x.event.order \in OrdersWith(U, "order.paid") \/ x.event.order = e.order
                /\ x.event.order \notin OrdersWith(U, "order.refunded")
        BY <1>12, <1>13 DEF Owing
      <3>2. \A x : x \in Owing(U) \cup {v} <=>
                /\ x \in VerifiedIn(U)
                /\ x.event.order \in OrdersWith(U, "order.paid") \/ x.event.order = e.order
                /\ x.event.order \notin OrdersWith(U, "order.refunded")
        BY <1>1, <2>1, <2>2 DEF Owing
      <3> QED BY <3>1, <3>2
    <2> QED BY <2>3, <2>4 DEF OwingBy
  <1>17. MoneyFits(b, E, U \cup {p})
    <2> DEFINE f == PaiseOf(E)
               paise == SpentBy(a, agent) + amount
    <2>1. /\ U \in SUBSET E
          /\ IsFiniteSet(Owing(U)) /\ SumFunctionOnSet(f, Owing(U)) \in Nat
          /\ IsFiniteSet(OwingBy(U, agent))
          /\ \A g : SumFunctionOnSet(f, OwingBy(U, g)) \in Nat
      <3>1. U \in SUBSET E
        BY DEF SeenUntil
      <3> QED BY <3>1, OwingFits
    <2>2. f[v] = amount
      BY <1>1, <1>2, NextEntry DEF PaiseOf
    <2>3. /\ \A x \in Owing(U) \cup {v} : f[x] \in Nat
          /\ \A x \in OwingBy(U, agent) \cup {v} : f[x] \in Nat
      <3>1. \A x \in VerifiedIn(E) : f[x] \in Nat
        BY PaiseAreNat
      <3>2. Owing(U) \cup {v} \subseteq VerifiedIn(E) /\ OwingBy(U, agent) \subseteq Owing(U)
        BY <1>1, <2>1 DEF Owing, OwingBy, VerifiedIn
      <3> HIDE DEF f
      <3> QED BY <3>1, <3>2
    <2> HIDE DEF f
    <2>4. SumFunctionOnSet(f, Owing(U \cup {p})) = SumFunctionOnSet(f, Owing(U)) + amount
      BY <1>16, <2>1, <2>2, <2>3, SumWithOneMore
    <2>5. SumFunctionOnSet(f, OwingBy(U \cup {p}, agent)) = SumFunctionOnSet(f, OwingBy(U, agent)) + amount
      <3>1. v \notin OwingBy(U, agent)
        BY <1>16 DEF OwingBy
      <3> QED BY <1>16, <2>1, <2>2, <2>3, <3>1, SumWithOneMore
    <2>6. /\ \A g : SpentBy(a, g) = SumFunctionOnSet(f, OwingBy(U, g))
          /\ Captured(a) = SumFunctionOnSet(f, Owing(U)) /\ IsFiniteSet(DOMAIN a.spent)
      BY DEF Book, MoneyFits, f
    <2>7. paise \in Nat /\ \A g : SpentBy(a, g) \in Nat
      BY <1>3, <2>1, <2>6
    <2>8. b.spent = Entry(agent, paise) ++ a.spent
      BY <1>11
    <2> HIDE DEF paise, agent, amount
    <2>9. /\ IsFiniteSet(DOMAIN b.spent) /\ Captured(a) \in Nat
          /\ SpentBy(b, agent) = paise /\ \A g : g # agent => SpentBy(b, g) = SpentBy(a, g)
          /\ Captured(b) + SpentBy(a, agent) = Captured(a) + paise
      <3>1. Respent(a, b, agent, paise)
        BY <2>6, <2>7, <2>8, SpentPut
      <3> QED BY <3>1 DEF Respent
    <2>10. \A g : SpentBy(b, g) = SumFunctionOnSet(f, OwingBy(U \cup {p}, g))
      <3> SUFFICES ASSUME NEW g PROVE SpentBy(b, g) = SumFunctionOnSet(f, OwingBy(U \cup {p}, g))
        OBVIOUS
      <3>1. CASE g = agent
        BY <2>5, <2>6, <2>9, <3>1 DEF paise
      <3>2. CASE g # agent
        BY <1>16, <2>6, <2>9, <3>2
      <3> QED BY <3>1, <3>2
    <2>11. Captured(b) = SumFunctionOnSet(f, Owing(U \cup {p}))
      <3>1. Captured(b) \in Nat
        <4>1. \A x \in DOMAIN b.spent : b.spent[x] \in Nat
          <5>1. \A x \in DOMAIN b.spent : b.spent[x] = SpentBy(b, x)
            BY DEF SpentBy, Known
          <5> QED BY <2>7, <2>9, <5>1
        <4> QED BY <2>9, <4>1, SumIsNat DEF Captured
      <3> QED BY <1>3, <2>1, <2>4, <2>6, <2>7, <2>9, <3>1 DEF paise, amount
    <2> QED BY <2>9, <2>10, <2>11 DEF MoneyFits, f
  <1> QED BY <1>8, <1>10, <1>11, <1>14, <1>15, <1>17 DEF Book

\* A refund, which the Agent's total comes down by.
LEMMA SeesRefund ==
    ASSUME NEW E, NEW U, NEW p, NEW a, LogFits(E), SeenUntil(E, U, p), Book(a, E, U),
           Is(p.event, "order.refunded")
    PROVE  Book(SeeRefunded(a, p.event), E, U \cup {p})
  <1> DEFINE e == p.event
             amount == Field(e, "amountPaise")
  <1>1. PICK q \in U : /\ Is(q.event, "order.paid") /\ q.event.order = e.order
                       /\ Field(q.event, "amountPaise") = amount
    <2>1. CaptureBefore(p.event, U)
      BY RestsOn
    <2> QED BY <2>1 DEF CaptureBefore
  <1>2. PICK v \in VerifiedIn(U) :
            v.event.order = e.order /\ Field(v.event, "amountPaise") = amount
    <2>1. PaymentBefore(q.event, U)
      BY <1>1, RestsOn
    <2> QED BY <1>1, <2>1 DEF PaymentBefore
  <1> DEFINE agent == Field(v.event, "agentId")
             b == [a EXCEPT !.refunded = @ \cup {e.order},
                            !.spent = Entry(agent, SpentBy(a, agent) - amount) ++ @]
  <1>3. v \in U /\ VerifiedSound(v.event, {x.event : x \in U})
    BY RestsOn DEF VerifiedIn
  <1>4. e.order # NoField /\ agent # NoField /\ amount \in Nat \ {0} /\ amount # NoField
    BY <1>2, <1>3, LedgerAssumption DEF VerifiedSound
  <1>5. e.order \notin OrdersWith(U, "order.refunded") /\ e.order \in OrdersWith(U, "order.paid")
    BY <1>1, NothingBefore DEF OrdersWith
  <1>6. Known(a.verified, e.order) /\ a.verified[e.order] = v.event /\ e.order \notin a.refunded
    BY <1>2, <1>3, <1>5 DEF Book, MapsFit, KeysFit, VerifiedIn, Known
  <1>7. SeeRefunded(a, e) = b
    BY <1>4, <1>6 DEF SeeRefunded
  <1>8. /\ DOMAIN b = BookFields /\ b.violations = {}
        /\ \A f \in BookFields \ {"refunded", "spent"} : b[f] = a[f]
        /\ b.refunded = a.refunded \cup {e.order}
        /\ b.spent = Entry(agent, SpentBy(a, agent) - amount) ++ a.spent
    <2> DEFINE spent == Entry(agent, SpentBy(a, agent) - amount)
    <2> HIDE DEF spent
    <2> QED BY DEF Book, BookFields, spent
  <1> HIDE DEF b
  <1>9. VerifiedIn(U \cup {p}) = VerifiedIn(U)
    BY DEF VerifiedIn, Is
  <1>10. /\ OrdersWith(U \cup {p}, "order.refunded") = OrdersWith(U, "order.refunded") \cup {e.order}
         /\ OrdersWith(U \cup {p}, "order.paid") = OrdersWith(U, "order.paid")
    BY DEF OrdersWith, Is
  <1>11. MapsFit(b, U \cup {p})
    <2>1. \A type \in {"agent.registered", "mandate.intent_declared", "mandate.cart_created",
                       "payment.verified"} : ~ Is(e, type)
      BY DEF Is
    <2>2. \A f \in {"caps", "intents", "carts", "verified"} : b[f] = a[f]
      BY <1>8 DEF BookFields
    <2> QED BY <2>1, <2>2, SameMaps
  <1>12. KeysFit(b, U \cup {p})
    <2>1. /\ b.keysVerified = a.keysVerified /\ b.keysCharged = a.keysCharged /\ b.paid = a.paid
          /\ b.refunded = a.refunded \cup {e.order}
      BY <1>8 DEF BookFields
    <2> QED BY <1>9, <1>10, <2>1 DEF Book, KeysFit
  <1>13. /\ Owing(U \cup {p}) = Owing(U) \ {v} /\ v \in Owing(U)
         /\ OwingBy(U \cup {p}, agent) = OwingBy(U, agent) \ {v} /\ v \in OwingBy(U, agent)
         /\ \A g : g # agent => OwingBy(U \cup {p}, g) = OwingBy(U, g)
    <2>1. \A x \in VerifiedIn(U) : x.event.order = e.order => x = v
      BY <1>2, NothingBefore
    <2>2. v \in Owing(U)
      BY <1>2, <1>5 DEF Owing
    <2>3. Owing(U \cup {p}) = Owing(U) \ {v}
      <3>1. \A x : x \in Owing(U \cup {p}) <=>
                /\ x \in VerifiedIn(U)
                /\ x.event.order \in OrdersWith(U, "order.paid")
                /\ x.event.order \notin OrdersWith(U, "order.refunded") /\ x.event.order # e.order
        BY <1>9, <1>10 DEF Owing
      <3>2. \A x : x \in Owing(U) \ {v} <=>
                /\ x \in VerifiedIn(U)
                /\ x.event.order \in OrdersWith(U, "order.paid")
                /\ x.event.order \notin OrdersWith(U, "order.refunded") /\ x.event.order # e.order
        BY <1>2, <2>1, <2>2 DEF Owing
      <3> QED BY <3>1, <3>2
    <2> QED BY <2>2, <2>3 DEF OwingBy
  <1>14. MoneyFits(b, E, U \cup {p})
    <2> DEFINE f == PaiseOf(E)
               paise == SpentBy(a, agent) - amount
    <2>1. /\ U \in SUBSET E
          /\ IsFiniteSet(Owing(U)) /\ SumFunctionOnSet(f, Owing(U)) \in Nat
          /\ IsFiniteSet(OwingBy(U, agent))
          /\ \A g : SumFunctionOnSet(f, OwingBy(U, g)) \in Nat
      <3>1. U \in SUBSET E
        BY DEF SeenUntil
      <3> QED BY <3>1, OwingFits
    <2>2. f[v] = amount
      BY <1>2, <1>3, NextEntry DEF PaiseOf
    <2>3. /\ \A x \in Owing(U) : f[x] \in Nat
          /\ \A x \in OwingBy(U, agent) : f[x] \in Nat
      <3>1. \A x \in VerifiedIn(E) : f[x] \in Nat
        BY PaiseAreNat
      <3>2. Owing(U) \subseteq VerifiedIn(E) /\ OwingBy(U, agent) \subseteq Owing(U)
        BY <2>1 DEF Owing, OwingBy, VerifiedIn
      <3> HIDE DEF f
      <3> QED BY <3>1, <3>2
    <2> HIDE DEF f
    <2>4. SumFunctionOnSet(f, Owing(U)) = SumFunctionOnSet(f, Owing(U \cup {p})) + amount
      BY <1>13, <2>1, <2>2, <2>3, SumWithout, ZenonT(60)
    <2>5. SumFunctionOnSet(f, OwingBy(U, agent))
              = SumFunctionOnSet(f, OwingBy(U \cup {p}, agent)) + amount
      <3> DEFINE S == OwingBy(U, agent)
      <3>1. IsFiniteSet(S) /\ (\A x \in S : f[x] \in Nat) /\ v \in S
            /\ OwingBy(U \cup {p}, agent) = S \ {v}
        BY <1>13, <2>1, <2>3
      <3> HIDE DEF S
      <3>2. SumFunctionOnSet(f, S) = SumFunctionOnSet(f, S \ {v}) + f[v]
        BY <3>1, SumWithout
      <3> QED BY <2>2, <3>1, <3>2 DEF S
    <2>6. /\ \A g : SpentBy(a, g) = SumFunctionOnSet(f, OwingBy(U, g))
          /\ Captured(a) = SumFunctionOnSet(f, Owing(U)) /\ IsFiniteSet(DOMAIN a.spent)
      BY DEF Book, MoneyFits, f
    <2>7. paise \in Nat /\ paise = SumFunctionOnSet(f, OwingBy(U \cup {p}, agent))
      <3>1. SumFunctionOnSet(f, OwingBy(U \cup {p}, agent)) \in Nat
        <4>1. U \cup {p} \in SUBSET E
          BY DEF SeenUntil
        <4> QED BY <4>1, OwingFits DEF f
      <3> QED BY <1>4, <2>5, <2>6, <3>1
    <2>8. (\A g : SpentBy(a, g) \in Nat) /\ b.spent = Entry(agent, paise) ++ a.spent
      BY <1>8, <2>1, <2>6
    <2> HIDE DEF paise, agent, amount
    <2>9. /\ IsFiniteSet(DOMAIN b.spent) /\ Captured(a) \in Nat
          /\ SpentBy(b, agent) = paise /\ \A g : g # agent => SpentBy(b, g) = SpentBy(a, g)
          /\ Captured(b) + SpentBy(a, agent) = Captured(a) + paise
      <3>1. Respent(a, b, agent, paise)
        BY <2>6, <2>7, <2>8, SpentPut
      <3> QED BY <3>1 DEF Respent
    <2>10. \A g : SpentBy(b, g) = SumFunctionOnSet(f, OwingBy(U \cup {p}, g))
      <3> SUFFICES ASSUME NEW g PROVE SpentBy(b, g) = SumFunctionOnSet(f, OwingBy(U \cup {p}, g))
        OBVIOUS
      <3>1. CASE g = agent
        BY <2>7, <2>9, <3>1
      <3>2. CASE g # agent
        BY <1>13, <2>6, <2>9, <3>2
      <3> QED BY <3>1, <3>2
    <2>11. Captured(b) = SumFunctionOnSet(f, Owing(U \cup {p}))
      <3>1. Captured(b) \in Nat
        <4>1. \A x \in DOMAIN b.spent : b.spent[x] \in Nat
          <5>1. \A x \in DOMAIN b.spent : b.spent[x] = SpentBy(b, x)
            BY DEF SpentBy, Known
          <5>2. \A x \in DOMAIN b.spent : SpentBy(b, x) \in Nat
            BY <2>7, <2>8, <2>9
          <5> QED BY <5>1, <5>2
        <4> QED BY <2>9, <4>1, SumIsNat DEF Captured
      <3>2. SumFunctionOnSet(f, Owing(U \cup {p})) \in Nat
        <4>1. U \cup {p} \in SUBSET E
          BY DEF SeenUntil
        <4> QED BY <4>1, OwingFits DEF f
      <3>3. SpentBy(a, agent) = paise + amount /\ amount \in Nat
        BY <1>4, <2>5, <2>6, <2>7 DEF amount
      <3> QED BY <2>1, <2>4, <2>6, <2>7, <2>9, <3>1, <3>2, <3>3
    <2> QED BY <2>9, <2>10, <2>11 DEF MoneyFits, f
  <1> QED BY <1>7, <1>8, <1>11, <1>12, <1>14 DEF Book

-----------------------------------------------------------------------------
(***************************************************************************)
(* The whole log.                                                          *)
(***************************************************************************)
\* One entry more, of whatever type.
LEMMA Sees ==
    ASSUME NEW E, NEW U, NEW p, NEW a, LogFits(E), SeenUntil(E, U, p), Book(a, E, U)
    PROVE  Book(See(a, p.seq, p.event), E, U \cup {p})
  <1>1. CASE Is(p.event, "agent.registered")
    <2>1. See(a, p.seq, p.event) = SeeAgent(a, p.event)
      BY <1>1 DEF See, Is, RefusalTypes
    <2>2. Book(SeeAgent(a, p.event), E, U \cup {p})
      BY <1>1, SeesAgent, Zenon
    <2> QED BY <2>1, <2>2
  <1>2. CASE Is(p.event, "mandate.intent_declared")
    <2>1. See(a, p.seq, p.event) = SeeIntent(a, p.event)
      BY <1>2 DEF See, Is, RefusalTypes
    <2>2. Book(SeeIntent(a, p.event), E, U \cup {p})
      BY <1>2, SeesIntent, Zenon
    <2> QED BY <2>1, <2>2
  <1>3. CASE Is(p.event, "mandate.cart_created")
    <2>1. See(a, p.seq, p.event) = SeeCart(a, p.event)
      BY <1>3 DEF See, Is, RefusalTypes
    <2>2. Book(SeeCart(a, p.event), E, U \cup {p})
      BY <1>3, SeesCart, Zenon
    <2> QED BY <2>1, <2>2
  <1>4. CASE Is(p.event, "payment.verified")
    <2>1. See(a, p.seq, p.event) = SeeVerified(a, p.seq, p.event)
      BY <1>4 DEF See, Is, RefusalTypes
    <2>2. Book(SeeVerified(a, p.seq, p.event), E, U \cup {p})
      BY <1>4, SeesVerified, Zenon
    <2> QED BY <2>1, <2>2
  <1>5. CASE Is(p.event, "payment.replayed")
    <2>1. See(a, p.seq, p.event) = SeeReplayed(a, p.seq, p.event)
      BY <1>5 DEF See, Is, RefusalTypes
    <2>2. Book(SeeReplayed(a, p.seq, p.event), E, U \cup {p})
      BY <1>5, SeesReplayed, Zenon
    <2> QED BY <2>1, <2>2
  <1>6. CASE Is(p.event, "order.paid")
    <2>1. See(a, p.seq, p.event) = SeePaid(a, p.seq, p.event)
      BY <1>6 DEF See, Is, RefusalTypes
    <2>2. Book(SeePaid(a, p.seq, p.event), E, U \cup {p})
      BY <1>6, SeesPaid, Zenon
    <2> QED BY <2>1, <2>2
  <1>7. CASE Is(p.event, "order.refunded")
    <2>1. See(a, p.seq, p.event) = SeeRefunded(a, p.event)
      BY <1>7 DEF See, Is, RefusalTypes
    <2>2. Book(SeeRefunded(a, p.event), E, U \cup {p})
      BY <1>7, SeesRefund, Zenon
    <2> QED BY <2>1, <2>2
  <1>8. CASE Is(p.event, "receipt.issued")
    <2>1. See(a, p.seq, p.event) = SeeReceipt(a, p.seq, p.event)
      BY <1>8 DEF See, Is, RefusalTypes
    <2>2. Book(SeeReceipt(a, p.seq, p.event), E, U \cup {p})
      BY <1>8, SeesReceipt, Zenon
    <2> QED BY <2>1, <2>2
  <1>9. CASE p.event.type \in RefusalTypes
    <2>1. See(a, p.seq, p.event) = SeeRefusal(a, p.seq, p.event)
      BY <1>9 DEF See, Is, RefusalTypes
    <2>2. Book(SeeRefusal(a, p.seq, p.event), E, U \cup {p})
      BY <1>9, SeesRefusal, Zenon
    <2> QED BY <2>1, <2>2
  <1>10. CASE /\ p.event.type \notin {"agent.registered", "mandate.intent_declared",
                                      "mandate.cart_created", "payment.verified",
                                      "payment.replayed", "order.paid", "order.refunded",
                                      "receipt.issued"}
              /\ p.event.type \notin RefusalTypes
    <2>1. See(a, p.seq, p.event) = a
      BY <1>10 DEF See
    <2>2. DOMAIN a = BookFields
      BY DEF Book
    <2>3. p.event.type \notin {"agent.registered", "mandate.intent_declared",
                               "mandate.cart_created", "payment.verified", "order.paid",
                               "order.refunded"}
      BY <1>10
    <2>4. Book(a, E, U \cup {p})
      BY <2>2, <2>3, OnlyLooked
    <2> QED BY <2>1, <2>4
  <1> QED BY <1>1, <1>2, <1>3, <1>4, <1>5, <1>6, <1>7, <1>8, <1>9, <1>10 DEF Is

\* Before the first entry.
LEMMA BlankBook == ASSUME NEW E PROVE Book(Blank, E, {})
  <1>1. /\ DOMAIN Blank = BookFields /\ Blank.violations = {} /\ Blank.keysVerified = {}
        /\ Blank.keysCharged = {} /\ Blank.paid = {} /\ Blank.refunded = {}
        /\ DOMAIN Blank.spent = {}
    BY DEF Blank, BookFields
  <1>2. VerifiedIn({}) = {} /\ (\A type : OrdersWith({}, type) = {}) /\ Owing({}) = {}
    BY DEF VerifiedIn, OrdersWith, Owing
  <1>3. \A agent : OwingBy({}, agent) = {} /\ SpentBy(Blank, agent) = 0
    BY <1>1, <1>2 DEF OwingBy, SpentBy, Known
  <1>4. Captured(Blank) = 0
    BY <1>1, SumOfNothing DEF Captured
  <1>5. MapsFit(Blank, {}) /\ KeysFit(Blank, {})
    BY <1>1, <1>2 DEF MapsFit, KeysFit
  <1>6. SumFunctionOnSet(PaiseOf(E), {}) = 0 /\ IsFiniteSet({})
    BY SumOfNothing, FS_EmptySet
  <1>7. MoneyFits(Blank, E, {})
    BY <1>1, <1>2, <1>3, <1>4, <1>6 DEF MoneyFits
  <1> QED BY <1>1, <1>5, <1>7 DEF Book

(* What the auditor makes of a log every entry of which is sound, in which *)
(* what happens once did, and no Agent ever owed more than its Cap: it     *)
(* finds nothing, and knows what was captured (auditRules).                *)
THEOREM AuditOfSound ==
    ASSUME NEW L, NEW m \in Nat, DOMAIN L \subseteq 1 .. m, LogFits(Entries(L))
    PROVE  Book(Audit(<<L>>), Entries(L), Entries(L))
  <1> DEFINE E == Entries(L)
             seen(k) == {p \in E : p.seq <= k}
  <1>0. /\ \A p \in E : p.seq \in DOMAIN L /\ p.event = L[p.seq] /\ p.seq \in Nat \ {0}
        /\ \A n \in DOMAIN L : [seq |-> n, event |-> L[n]] \in E
    BY DEF Entries
  <1>1. PICK last : LastOf(L, last)
    <2> DEFINE bounds == {n \in Nat : DOMAIN L \subseteq 1 .. n}
    <2>1. bounds \in SUBSET Nat /\ bounds # {}
      OBVIOUS
    <2>2. PICK n \in bounds : \A j \in bounds : n <= j
      <3> HIDE DEF bounds
      <3> QED BY <2>1, LeastNumber
    <2>3. n = 0 \/ n \in DOMAIN L
      <3> SUFFICES ASSUME n # 0, n \notin DOMAIN L PROVE FALSE
        OBVIOUS
      <3>1. n - 1 \in Nat /\ DOMAIN L \subseteq 1 .. n - 1
        BY <2>2
      <3> QED BY <2>2, <3>1
    <2> QED BY <2>2, <2>3 DEF LastOf
  <1>2. PICK f : /\ f[0] = Blank
                 /\ \A k \in 1 .. last : f[k] = IF k \in DOMAIN L THEN See(f[k - 1], k, L[k])
                                                ELSE f[k - 1]
                 /\ Audit(<<L>>) = f[last]
    BY <1>1, AuditWalks
  <1>3. last \in Nat /\ DOMAIN L \subseteq 1 .. last
    BY <1>1 DEF LastOf
  <1> HIDE DEF E
  <1>4. ASSUME NEW k \in 1 .. last, Book(f[k - 1], E, seen(k - 1))
        PROVE  Book(f[k], E, seen(k))
    <2>1. CASE k \notin DOMAIN L
      <3>1. seen(k) = seen(k - 1)
        BY <1>0, <1>3, <2>1
      <3>2. f[k] = f[k - 1]
        BY <1>2, <2>1
      <3> HIDE DEF seen
      <3> QED BY <1>4, <3>1, <3>2
    <2>2. CASE k \in DOMAIN L
      <3> DEFINE p == [seq |-> k, event |-> L[k]]
      <3>1. p \in E /\ p.seq = k /\ p.event = L[k]
        BY <1>0, <2>2
      <3>2. f[k] = See(f[k - 1], p.seq, p.event)
        BY <1>2, <2>2, <3>1
      <3> HIDE DEF p
      <3>3. seen(k - 1) = {q \in E : q.seq < p.seq}
        BY <1>0, <1>3, <3>1
      <3>4. seen(k) = seen(k - 1) \cup {p}
        <4>1. \A q \in E : q.seq = k => q = p
          BY <3>1 DEF LogFits, E
        <4> QED BY <1>0, <1>3, <3>1, <4>1
      <3> HIDE DEF seen
      <3>5. SeenUntil(E, seen(k - 1), p)
        BY <3>1, <3>3 DEF SeenUntil
      <3>6. LogFits(E)
        BY DEF E
      <3> DEFINE U == seen(k - 1)
      <3>7. Book(f[k - 1], E, U) /\ SeenUntil(E, U, p)
        BY <1>4, <3>5
      <3> HIDE DEF U
      <3>8. Book(See(f[k - 1], p.seq, p.event), E, U \cup {p})
        BY <3>6, <3>7, Sees, Zenon
      <3> QED BY <3>2, <3>4, <3>8 DEF U
    <2> QED BY <2>1, <2>2
  <1>5. \A k \in 0 .. last : Book(f[k], E, seen(k))
    <2> DEFINE Bad == {k \in 0 .. last : ~ Book(f[k], E, seen(k))}
    <2> HIDE DEF seen
    <2> SUFFICES ASSUME Bad # {} PROVE FALSE
      OBVIOUS
    <2>1. PICK k \in Bad : \A j \in Bad : k <= j
      <3>1. Bad \in SUBSET Nat
        OBVIOUS
      <3> HIDE DEF Bad
      <3> QED BY <3>1, LeastNumber
    <2>2. CASE k = 0
      <3>1. seen(0) = {}
        BY <1>0 DEF seen
      <3> QED BY <1>2, <2>1, <2>2, <3>1, BlankBook
    <2>3. CASE k # 0
      <3>1. k \in 1 .. last /\ k - 1 \in 0 .. last /\ ~ (k <= k - 1)
        BY <1>3, <2>1, <2>3
      <3>2. Book(f[k - 1], E, seen(k - 1))
        BY <2>1, <3>1
      <3> QED BY <1>4, <2>1, <3>1, <3>2
    <2> QED BY <2>2, <2>3
  <1>6. seen(last) = E
    BY <1>0, <1>3
  <1> HIDE DEF seen
  <1> QED BY <1>2, <1>3, <1>5, <1>6 DEF E

=============================================================================
