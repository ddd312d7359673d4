------------------------- MODULE ConfirmationProofs -------------------------
(***************************************************************************)
(* Proofs about Confirmation, for any Products, confirmations and          *)
(* extractions, and any forms and chat answers.                            *)
(***************************************************************************)
EXTENDS Confirmation, TLAPS

CallRecord == [pc : CallPc, product : Products \cup {Null}, chat : BOOLEAN, lines : SUBSET Line,
               drop : SUBSET Id, held : SUBSET Id, answer : Answers]

\* One call may have moved; every other is where it was.
Others(c) == \A d \in Calls : d # c => call'[d] = call[d]

-----------------------------------------------------------------------------
(******************************* the gate **********************************)

LEMMA EntryOf ==
    ASSUME NEW S, NEW s \in Seq(S), NEW i \in DOMAIN s
    PROVE  s[i] \in S
  OBVIOUS

LEMMA CountIsStated ==
    ASSUME NEW x \in Extraction, NEW label
    PROVE  CountFor(x.counts.value, label) \in Nat \cup {Null}
  <1> DEFINE counts == x.counts.value
             i == CHOOSE j \in DOMAIN counts : LastStated(counts, label, j)
  <1>1. \A j \in DOMAIN counts : counts[j].count \in Nat
    <2>1. counts \in Seq([label : Labels, count : Nat])
      BY DEF Extraction
    <2> HIDE DEF counts
    <2>2. \A j \in DOMAIN counts : counts[j] \in [label : Labels, count : Nat]
      BY <2>1, EntryOf, Zenon
    <2> QED BY <2>2
  <1>2. CASE \E j \in DOMAIN counts : LastStated(counts, label, j)
    <2>1. i \in DOMAIN counts
      BY <1>2, Zenon
    <2>2. CountFor(counts, label) = counts[i].count
      BY <1>2, Zenon DEF CountFor
    <2> HIDE DEF i
    <2> QED BY <1>1, <2>1, <2>2
  <1>3. CASE ~\E j \in DOMAIN counts : LastStated(counts, label, j)
    BY <1>3, Zenon DEF CountFor
  <1> QED BY <1>2, <1>3

(* What ingestion writes is a set of offers with their numbers or Null.    *)
LEMMA VariantsAreOffers ==
    ASSUME NEW x \in Extraction
    PROVE  /\ Variants(x) \subseteq Offer
           /\ Variants(x) # {}
           /\ \A v \in Variants(x) :
                  v.price = x.price.value /\ v.stock \in Nat \cup {Null, x.stock.value}
  <1>1. x.price.value \in Nat \cup {Null} /\ x.stock.value \in Int \cup {Null}
    BY DEF Extraction, Field
  <1>2. Kept(x.labels.value) \subseteq Labels
    BY DEF Extraction, Kept
  <1>3. CASE Kept(x.labels.value) = {}
    <2>1. Variants(x) = {[label |-> Null, price |-> x.price.value, stock |-> x.stock.value]}
      BY <1>3 DEF Variants
    <2>2. [label |-> Null, price |-> x.price.value, stock |-> x.stock.value] \in Offer
      BY <1>1 DEF Offer
    <2> QED BY <2>1, <2>2
  <1>4. CASE Kept(x.labels.value) # {}
    <2>1. Variants(x) = {[label |-> l, price |-> x.price.value,
                          stock |-> CountFor(x.counts.value, l)] : l \in Kept(x.labels.value)}
      BY <1>4 DEF Variants
    <2>2. ASSUME NEW l \in Labels
          PROVE  [label |-> l, price |-> x.price.value,
                  stock |-> CountFor(x.counts.value, l)] \in Offer
      <3> DEFINE n == CountFor(x.counts.value, l)
      <3>1. n \in Nat \cup {Null}
        BY CountIsStated
      <3> HIDE DEF n
      <3>2. [label |-> l, price |-> x.price.value, stock |-> n] \in Offer
        BY <1>1, <3>1 DEF Offer
      <3> QED BY <3>2 DEF n
    <2>3. \A v \in Variants(x) :
             \E l \in Labels : v = [label |-> l, price |-> x.price.value,
                                     stock |-> CountFor(x.counts.value, l)]
      BY <1>2, <2>1
    <2>4. Variants(x) # {}
      BY <1>4, <2>1
    <2>5. \A v \in Variants(x) : v.price = x.price.value /\ v.stock \in Nat \cup {Null}
      BY <2>3, CountIsStated
    <2> QED BY <2>2, <2>3, <2>4, <2>5
  <1> QED BY <1>3, <1>4

(* The belt of assembleProduct is redundant: without holds every Variant   *)
(* has a price and a stock already.                                        *)
LEMMA BeltIsRedundant ==
    ASSUME NEW x \in Extraction, Holds(x) = {}
    PROVE  \A v \in Variants(x) : v.price # Null /\ v.stock # Null
  <1>1. ~NeedsAnswer(x.price)
    <2>1. "price" \notin {f \in {"name", "description", "price"} : NeedsAnswer(x[f])}
      BY DEF Holds
    <2> QED BY <2>1
  <1>2. x.price.value # Null
    BY <1>1 DEF NeedsAnswer
  <1>3. ~\E v \in Variants(x) : v.stock = Null
    <2>1. "stock" \notin {f \in {"stock"} : \/ x.stock.value # Null /\ Unsure(x.stock)
                                            \/ \E v \in Variants(x) : v.stock = Null}
      BY DEF Holds
    <2> QED BY <2>1
  <1> QED BY <1>2, <1>3, VariantsAreOffers

LEMMA GateVerdict ==
    ASSUME NEW x \in Extraction
    PROVE  /\ Gate(x) = "published" <=> Holds(x) = {}
           /\ Gate(x) \in {"published", "needs_confirmation"}
  BY BeltIsRedundant DEF Gate

-----------------------------------------------------------------------------
(************************** submissions and rows ***************************)

\* A submission that passed normalizeSubmission: its numbers can be stored.
Submission == {lines \in SUBSET Line :
                  Normalizes(lines) /\ \A l \in lines : l.price \in Nat /\ l.stock \in Nat}

LEMMA Accepted ==
    ASSUME NEW lines \in SUBSET Line, Normalizes(lines),
           \A l \in lines : l.price # Null /\ l.stock # Null
    PROVE  lines \in Submission
  BY DEF Line, Normalizes, Submission

LEMMA OrIsStored ==
    ASSUME NEW edits \in SUBSET Line, NEW field \in {"price", "stock"}, NEW stored \in Int \cup {Null}
    PROVE  Or(edits, field, stored) \in Int \cup {Null}
  <1>1. \A e \in edits : e[field] \in Int \cup {Null}
    BY DEF Line
  <1>2. CASE \E e \in edits : e[field] # Null
    <2> DEFINE e == CHOOSE f \in edits : f[field] # Null
    <2>1. e \in edits
      BY <1>2, Zenon
    <2>2. Or(edits, field, stored) = e[field]
      BY <1>2, Zenon DEF Or
    <2> HIDE DEF e
    <2> QED BY <1>1, <2>1, <2>2
  <1>3. CASE ~\E e \in edits : e[field] # Null
    BY <1>3, Zenon DEF Or
  <1> QED BY <1>2, <1>3

(* The overlay keeps every stored row, by id.                              *)
LEMMA OverlayLines ==
    ASSUME NEW stored \in SUBSET Row, NEW edits \in SUBSET Line
    PROVE  /\ Overlay(stored, edits) \in SUBSET Line
           /\ Ids(stored) \subseteq Ids(Overlay(stored, edits))
  <1> DEFINE line(r) == [id |-> r.id, label |-> r.label,
                         price |-> Or({e \in edits : e.id = r.id}, "price", r.price),
                         stock |-> Or({e \in edits : e.id = r.id}, "stock", r.stock)]
  <1>1. Overlay(stored, edits) = {line(r) : r \in stored} \cup {e \in edits : e.id = Null}
    BY DEF Overlay
  <1>2. ASSUME NEW r \in stored
        PROVE  line(r) \in Line /\ line(r).id = r.id
    <2> DEFINE price == Or({e \in edits : e.id = r.id}, "price", r.price)
               stock == Or({e \in edits : e.id = r.id}, "stock", r.stock)
    <2>1. /\ r.id \in Id /\ r.label \in Labels \cup {Null}
          /\ r.price \in Int \cup {Null} /\ r.stock \in Int \cup {Null}
      BY DEF Row
    <2>2. price \in Int \cup {Null} /\ stock \in Int \cup {Null}
      BY <2>1, OrIsStored
    <2> HIDE DEF price, stock
    <2>3. [id |-> r.id, label |-> r.label, price |-> price, stock |-> stock] \in Line
      BY <2>1, <2>2 DEF Line
    <2> QED BY <2>3 DEF price, stock
  <1> HIDE DEF line
  <1>3. Overlay(stored, edits) \in SUBSET Line
    BY <1>1, <1>2
  <1>4. \A r \in stored : \E l \in Overlay(stored, edits) : l.id = r.id
    BY <1>1, <1>2
  <1> QED BY <1>3, <1>4 DEF Ids

(* A corrected row keeps its id and takes its numbers from one line.       *)
LEMMA CorrectedRow ==
    ASSUME NEW r \in Row, NEW lines \in Submission
    PROVE  /\ Corrected(r, lines) \in Row
           /\ Corrected(r, lines).id = r.id
           /\ (\E l \in lines : l.id = r.id) =>
                  \E l \in lines : /\ l.id = r.id
                                   /\ Corrected(r, lines).label = l.label
                                   /\ Corrected(r, lines).price = l.price
                                   /\ Corrected(r, lines).stock = l.stock
  <1>1. \A l \in lines : l.label \in Labels \cup {Null} /\ l.price \in Nat /\ l.stock \in Nat
    BY DEF Submission, Line
  <1>2. CASE \E l \in lines : l.id = r.id
    <2> DEFINE l == CHOOSE m \in lines : m.id = r.id
    <2>1. l \in lines /\ l.id = r.id
      BY <1>2, Zenon
    <2>2. Corrected(r, lines) = [id |-> r.id, label |-> l.label, price |-> l.price,
                                 stock |-> l.stock]
      BY <1>2, Zenon DEF Corrected
    <2> HIDE DEF l
    <2>3. r.id \in Id
      BY DEF Row
    <2>4. Corrected(r, lines) \in Row
      BY <1>1, <2>1, <2>2, <2>3 DEF Row
    <2> QED BY <2>1, <2>2, <2>4
  <1>3. CASE ~\E l \in lines : l.id = r.id
    BY <1>3, Zenon DEF Corrected
  <1> QED BY <1>2, <1>3

-----------------------------------------------------------------------------
(***************************** the invariant *******************************)

\* Published once, archived since or not.
Settled(p) == status[p] \in {"published", "draft"}

Writing == {"rows", "write", "publish"}

(***************************************************************************)
(* What a call knows of its Product.  The rows it read stay the stored ones*)
(* only as long as the Product is held, which is when it may publish.      *)
(***************************************************************************)
CallFits(c) ==
    LET p == call[c].product
        lines == call[c].lines
        pc == call[c].pc
    IN  /\ pc \notin Ended => p \in Products
        /\ call[c].answer # "none" => pc = "answered"
        /\ pc \in Writing \cup {"product"} => lines \in Submission
        /\ pc \in Writing \/ (call[c].chat /\ pc = "product") => Known(p)
        /\ pc \in Writing \cup {"product"} /\ call[c].chat /\ status[p] = "needs_confirmation" =>
               Ids(rows[p]) \subseteq Ids(lines)
        /\ pc \in {"write", "publish"} /\ status[p] = "needs_confirmation" =>
               /\ Ids(lines) \ {Null} \subseteq Ids(rows[p])
               /\ call[c].drop = Ids(rows[p]) \ (Ids(lines) \ {Null})
        /\ pc = "read_back" \/ call[c].answer = "confirmed" =>
               p \in Products /\ Settled(p) /\ stamp[p] = Vouches(lines)

CatalogInvariant ==
    /\ TypeOK
    /\ PublishedIsComplete
    /\ HoldsSayWhy
    /\ \A c \in Calls : CallFits(c)

LEMMA InitCatalog == Init => CatalogInvariant
  <1> SUFFICES ASSUME Init PROVE CatalogInvariant
    OBVIOUS
  <1>1. Idle \in CallRecord
    BY DEF Idle, CallRecord, CallPc, Ended, Answers
  <1>2. TypeOK
    BY <1>1, ConfirmationAssumption DEF Init, TypeOK, StockIsStated, CallRecord, NoStamp
  <1>3. PublishedIsComplete /\ HoldsSayWhy
    BY DEF Init, PublishedIsComplete, HoldsSayWhy, Known
  <1>4. \A c \in Calls : CallFits(c)
    BY DEF Init, CallFits, Idle, Writing, Ended
  <1> QED BY <1>2, <1>3, <1>4 DEF CatalogInvariant

(* The life of a Product: once known it stays known, held it keeps its     *)
(* rows, settled it stays settled.                                         *)
Evolves ==
    \A p \in Products :
        /\ Known(p) => Known(p)'
        /\ Known(p) /\ status'[p] = "needs_confirmation" =>
               status[p] = "needs_confirmation" /\ Ids(rows'[p]) = Ids(rows[p])
        /\ Settled(p) => /\ Settled(p)'
                         /\ Ids(rows'[p]) = Ids(rows[p])
                         /\ stamp'[p] = stamp[p] /\ record'[p] = record[p]

LEMMA StillEvolves ==
    ASSUME UNCHANGED catalogVars
    PROVE  Evolves
  BY DEF Evolves, catalogVars, Known, Settled

(* A call that does not move keeps what it knows.                          *)
LEMMA CallsKeepFitting ==
    ASSUME Evolves, NEW d \in Calls, CallFits(d), call'[d] = call[d]
    PROVE  CallFits(d)'
  <1> DEFINE p == call[d].product
  <1>1. CASE p \in Products
    <2>1. /\ Known(p) => Known(p)'
          /\ Known(p) /\ status'[p] = "needs_confirmation" =>
                 status[p] = "needs_confirmation" /\ Ids(rows'[p]) = Ids(rows[p])
          /\ Settled(p) => Settled(p)' /\ stamp'[p] = stamp[p]
      BY <1>1 DEF Evolves
    <2> DEFINE lines == call[d].lines
               pc == call[d].pc
    <2>2. pc \in Writing \/ (call[d].chat /\ pc = "product") => Known(p)'
      BY <2>1 DEF CallFits
    <2>3. pc \in Writing \cup {"product"} /\ call[d].chat /\ status'[p] = "needs_confirmation" =>
              Ids(rows'[p]) \subseteq Ids(lines)
      <3> SUFFICES ASSUME pc \in Writing \cup {"product"}, call[d].chat,
                          status'[p] = "needs_confirmation"
                   PROVE  Ids(rows'[p]) \subseteq Ids(lines)
        OBVIOUS
      <3>1. Known(p)
        BY DEF CallFits, Writing
      <3>2. status[p] = "needs_confirmation" /\ Ids(rows'[p]) = Ids(rows[p])
        BY <2>1, <3>1
      <3>3. Ids(rows[p]) \subseteq Ids(lines)
        BY <3>2, Zenon DEF CallFits
      <3> QED BY <3>2, <3>3
    <2>4. pc \in {"write", "publish"} /\ status'[p] = "needs_confirmation" =>
              /\ Ids(lines) \ {Null} \subseteq Ids(rows'[p])
              /\ call[d].drop = Ids(rows'[p]) \ (Ids(lines) \ {Null})
      <3> SUFFICES ASSUME pc \in {"write", "publish"}, status'[p] = "needs_confirmation"
                   PROVE  /\ Ids(lines) \ {Null} \subseteq Ids(rows'[p])
                          /\ call[d].drop = Ids(rows'[p]) \ (Ids(lines) \ {Null})
        OBVIOUS
      <3>1. Known(p)
        BY DEF CallFits, Writing
      <3>2. status[p] = "needs_confirmation" /\ Ids(rows'[p]) = Ids(rows[p])
        BY <2>1, <3>1
      <3>3. /\ Ids(lines) \ {Null} \subseteq Ids(rows[p])
            /\ call[d].drop = Ids(rows[p]) \ (Ids(lines) \ {Null})
        BY <3>2, Zenon DEF CallFits
      <3> QED BY <3>2, <3>3, Zenon
    <2>5. pc = "read_back" \/ call[d].answer = "confirmed" =>
              Settled(p)' /\ stamp'[p] = Vouches(lines)
      BY <2>1 DEF CallFits
    <2> QED BY <1>1, <2>2, <2>3, <2>4, <2>5 DEF CallFits, Settled, Known
  <1>2. CASE p \notin Products
    BY <1>2 DEF CallFits, Writing, Ended
  <1> QED BY <1>1, <1>2

(* A step of one call that leaves the catalog alone.                       *)
LEMMA QuietStep ==
    ASSUME CatalogInvariant, NEW c \in Calls, call' \in [Calls -> CallRecord],
           Others(c), CallFits(c)', UNCHANGED <<catalogVars, crashes>>
    PROVE  CatalogInvariant' /\ Evolves
  <1>1. TypeOK' /\ PublishedIsComplete' /\ HoldsSayWhy'
    BY DEF CatalogInvariant, catalogVars, TypeOK, StockIsStated, CallRecord, PublishedIsComplete,
           HoldsSayWhy, Known
  <1>2. Evolves
    BY StillEvolves
  <1>3. \A d \in Calls : d # c => CallFits(d)'
    BY <1>2, CallsKeepFitting DEF Others, CatalogInvariant
  <1> QED BY <1>1, <1>2, <1>3 DEF CatalogInvariant

(* The ways a call ends without having changed anything.                   *)
LEMMA EndsQuietly ==
    ASSUME CatalogInvariant, NEW c \in Calls,
           NEW answer \in Answers \ {"none", "confirmed"},
           EndWith(c, answer), UNCHANGED <<catalogVars, crashes>>
    PROVE  CatalogInvariant' /\ Evolves
  <1> DEFINE next == [call[c] EXCEPT !.pc = "answered", !.answer = answer, !.held = {}]
  <1>1. call \in [Calls -> CallRecord] /\ call[c] \in CallRecord
    BY DEF CatalogInvariant, TypeOK, CallRecord
  <1>2. /\ next \in CallRecord
        /\ next.pc = "answered" /\ next.answer = answer /\ next.product = call[c].product
    BY <1>1 DEF CallRecord, CallPc, Ended, Answers
  <1>3. call' = [call EXCEPT ![c] = next]
    BY <1>1 DEF EndWith
  <1> HIDE DEF next
  <1>4. call' \in [Calls -> CallRecord] /\ Others(c) /\ call'[c] = next
    BY <1>1, <1>2, <1>3 DEF Others
  <1>5. CallFits(c)'
    BY <1>2, <1>4 DEF CallFits, Writing, Ended
  <1> QED BY <1>4, <1>5, QuietStep

LEMMA MoveCall ==
    ASSUME CatalogInvariant, NEW c \in Calls, NEW next \in CallRecord,
           call' = [call EXCEPT ![c] = next]
    PROVE  call' \in [Calls -> CallRecord] /\ Others(c) /\ call'[c] = next
  BY DEF CatalogInvariant, TypeOK, CallRecord, Others

LEMMA ItsRecord ==
    ASSUME CatalogInvariant, NEW c \in Calls
    PROVE  /\ call[c] \in CallRecord
           /\ CallFits(c)
           /\ call[c].product \in Products =>
                  /\ rows[call[c].product] \in SUBSET Row
                  /\ Ids(rows[call[c].product]) \subseteq Id
  BY DEF CatalogInvariant, TypeOK, CallRecord, Ids, Row

-----------------------------------------------------------------------------
(********************** the steps of a confirmation ************************)

LEMMA PostFormStep ==
    ASSUME CatalogInvariant, NEW c \in Calls, NEW p \in Products, NEW form \in Forms,
           PostForm(c, p, form)
    PROVE  CatalogInvariant' /\ Evolves
  <1>1. CASE Normalizes(form)
    <2> DEFINE next == [Idle EXCEPT !.pc = "product", !.product = p, !.lines = form]
    <2>1. form \in Submission
      BY <1>1, Accepted, ConfirmationAssumption
    <2>2. /\ next \in CallRecord
          /\ next.pc = "product" /\ next.product = p /\ next.lines = form
          /\ next.chat = FALSE /\ next.answer = "none"
      BY <2>1 DEF CallRecord, Idle, CallPc, Ended, Answers, Submission
    <2>3. call' = [call EXCEPT ![c] = next] /\ UNCHANGED <<catalogVars, crashes>>
      BY <1>1 DEF PostForm
    <2> HIDE DEF next
    <2>4. call' \in [Calls -> CallRecord] /\ Others(c) /\ call'[c] = next
      BY <2>2, <2>3, MoveCall
    <2>5. CallFits(c)'
      BY <2>1, <2>2, <2>4 DEF CallFits, Writing
    <2> QED BY <2>3, <2>4, <2>5, QuietStep
  <1>2. CASE ~Normalizes(form)
    <2>1. EndWith(c, "invalid") /\ UNCHANGED <<catalogVars, crashes>>
      BY <1>2 DEF PostForm
    <2> QED BY <2>1, EndsQuietly DEF Answers
  <1> QED BY <1>1, <1>2

LEMMA AskChatStep ==
    ASSUME CatalogInvariant, NEW c \in Calls, NEW p \in Products, NEW edits \in Edits,
           AskChat(c, p, edits)
    PROVE  CatalogInvariant' /\ Evolves
  <1> DEFINE next == [Idle EXCEPT !.pc = "overlay", !.product = p, !.chat = TRUE, !.lines = edits]
  <1>1. /\ next \in CallRecord
        /\ next.pc = "overlay" /\ next.product = p /\ next.answer = "none"
    BY ConfirmationAssumption DEF CallRecord, Idle, CallPc, Ended, Answers
  <1>2. call' = [call EXCEPT ![c] = next] /\ UNCHANGED <<catalogVars, crashes>>
    BY DEF AskChat
  <1> HIDE DEF next
  <1>3. call' \in [Calls -> CallRecord] /\ Others(c) /\ call'[c] = next
    BY <1>1, <1>2, MoveCall
  <1>4. CallFits(c)'
    BY <1>1, <1>3 DEF CallFits, Writing
  <1> QED BY <1>2, <1>3, <1>4, QuietStep

LEMMA LayOverlayStep ==
    ASSUME CatalogInvariant, NEW c \in Calls, LayOverlay(c)
    PROVE  CatalogInvariant' /\ Evolves
  <1> DEFINE p == call[c].product
             lines == Overlay(rows[p], call[c].lines)
  <1>1. /\ p \in Products /\ rows[p] \in SUBSET Row
        /\ call[c] \in CallRecord /\ call[c].answer = "none" /\ call[c].lines \in SUBSET Line
    BY ItsRecord DEF LayOverlay, At, CallFits, Ended, CallRecord
  <1>2. CASE ~Known(p) \/ ~(Overlays(rows[p], call[c].lines) /\ Normalizes(lines))
    <2>1. \E answer \in {"not_found", "invalid"} : EndWith(c, answer)
      BY <1>2 DEF LayOverlay
    <2> QED BY <2>1, EndsQuietly DEF Answers, LayOverlay
  <1>3. CASE Known(p) /\ Overlays(rows[p], call[c].lines) /\ Normalizes(lines)
    <2> DEFINE next == [call[c] EXCEPT !.pc = "product", !.lines = lines]
    <2>1. lines \in Submission
      BY <1>1, <1>3, OverlayLines, Accepted DEF Overlays
    <2>2. Ids(rows[p]) \subseteq Ids(lines)
      BY <1>1, OverlayLines
    <2> HIDE DEF lines
    <2>3. /\ next \in CallRecord
          /\ next.pc = "product" /\ next.product = p /\ next.lines = lines
          /\ next.answer = "none"
      BY <1>1, <2>1 DEF CallRecord, CallPc, Ended, Submission
    <2>4. call' = [call EXCEPT ![c] = next] /\ UNCHANGED <<catalogVars, crashes>>
      BY <1>1, <1>3 DEF LayOverlay, CallRecord, lines
    <2> HIDE DEF next
    <2>5. call' \in [Calls -> CallRecord] /\ Others(c) /\ call'[c] = next
      BY <2>3, <2>4, MoveCall
    <2>6. CallFits(c)'
      BY <1>1, <1>3, <2>1, <2>2, <2>3, <2>4, <2>5 DEF CallFits, Writing, catalogVars, Known
    <2> QED BY <2>4, <2>5, <2>6, QuietStep
  <1> QED BY <1>2, <1>3

LEMMA ReadProductStep ==
    ASSUME CatalogInvariant, NEW c \in Calls, ReadProduct(c)
    PROVE  CatalogInvariant' /\ Evolves
  <1> DEFINE p == call[c].product
  <1>1. /\ p \in Products /\ call[c] \in CallRecord /\ call[c].answer = "none"
        /\ call[c].lines \in Submission
        /\ call[c].chat /\ status[p] = "needs_confirmation" =>
               Ids(rows[p]) \subseteq Ids(call[c].lines)
    BY ItsRecord DEF ReadProduct, At, CallFits, Ended
  <1>2. CASE status[p] # "needs_confirmation"
    <2>1. \E answer \in {"not_found", "not_confirmable"} : EndWith(c, answer)
      BY <1>2 DEF ReadProduct
    <2> QED BY <2>1, EndsQuietly DEF Answers, ReadProduct
  <1>3. CASE status[p] = "needs_confirmation"
    <2> DEFINE next == [call[c] EXCEPT !.pc = "rows"]
    <2>1. /\ next \in CallRecord
          /\ next.pc = "rows" /\ next.product = p /\ next.lines = call[c].lines
          /\ next.chat = call[c].chat /\ next.answer = "none"
      BY <1>1 DEF CallRecord, CallPc, Ended
    <2>2. call' = [call EXCEPT ![c] = next] /\ UNCHANGED <<catalogVars, crashes>>
      BY <1>1, <1>3 DEF ReadProduct, CallRecord
    <2> HIDE DEF next
    <2>3. call' \in [Calls -> CallRecord] /\ Others(c) /\ call'[c] = next
      BY <2>1, <2>2, MoveCall
    <2>4. CallFits(c)'
      BY <1>1, <1>3, <2>1, <2>2, <2>3 DEF CallFits, Writing, catalogVars, Known
    <2> QED BY <2>2, <2>3, <2>4, QuietStep
  <1> QED BY <1>2, <1>3

LEMMA ReadRowsStep ==
    ASSUME CatalogInvariant, NEW c \in Calls, ReadRows(c)
    PROVE  CatalogInvariant' /\ Evolves
  <1> DEFINE p == call[c].product
             kept == Ids(call[c].lines) \ {Null}
             drop == Ids(rows[p]) \ kept
  <1>1. /\ p \in Products /\ call[c] \in CallRecord /\ call[c].answer = "none"
        /\ call[c].lines \in Submission /\ Known(p)
        /\ call[c].chat /\ status[p] = "needs_confirmation" =>
               Ids(rows[p]) \subseteq Ids(call[c].lines)
        /\ drop \in SUBSET Id
    BY ItsRecord DEF ReadRows, At, CallFits, Ended, Writing
  <1>2. CASE ~(kept \subseteq Ids(rows[p]))
    <2>1. EndWith(c, "invalid") /\ UNCHANGED <<catalogVars, crashes>>
      BY <1>2 DEF ReadRows
    <2> QED BY <2>1, EndsQuietly DEF Answers
  <1>3. CASE kept \subseteq Ids(rows[p])
    <2> DEFINE next == [call[c] EXCEPT !.pc = "write", !.drop = drop]
    <2>1. /\ next \in CallRecord
          /\ next.pc = "write" /\ next.product = p /\ next.lines = call[c].lines
          /\ next.chat = call[c].chat /\ next.answer = "none" /\ next.drop = drop
      BY <1>1 DEF CallRecord, CallPc, Ended
    <2>2. call' = [call EXCEPT ![c] = next] /\ UNCHANGED <<catalogVars, crashes>>
      BY <1>1, <1>3 DEF ReadRows, CallRecord
    <2> HIDE DEF next
    <2>3. call' \in [Calls -> CallRecord] /\ Others(c) /\ call'[c] = next
      BY <2>1, <2>2, MoveCall
    <2>4. CallFits(c)'
      BY <1>1, <1>3, <2>1, <2>2, <2>3 DEF CallFits, Writing, catalogVars, Known
    <2> QED BY <2>2, <2>3, <2>4, QuietStep
  <1> QED BY <1>2, <1>3

LEMMA LockRowStep ==
    ASSUME CatalogInvariant, NEW c \in Calls, LockRow(c)
    PROVE  CatalogInvariant' /\ Evolves
  <1>1. call[c] \in CallRecord /\ At(c, "write")
    BY ItsRecord DEF LockRow, Wanted
  <1>2. PICK i \in Wanted(c) : call' = [call EXCEPT ![c].held = @ \cup {i}]
    BY DEF LockRow
  <1>3. call[c].product \in Products
    BY <1>1, ItsRecord DEF CallFits, At, Ended
  <1>4. i \in Id
    BY <1>2, <1>3, ItsRecord DEF Wanted
  <1> DEFINE next == [call[c] EXCEPT !.held = call[c].held \cup {i}]
  <1>5. /\ next \in CallRecord
        /\ next.pc = "write" /\ next.product = call[c].product /\ next.lines = call[c].lines
        /\ next.chat = call[c].chat /\ next.answer = call[c].answer /\ next.drop = call[c].drop
    BY <1>1, <1>4 DEF CallRecord, At
  <1>6. call' = [call EXCEPT ![c] = next] /\ UNCHANGED <<catalogVars, crashes>>
    BY <1>1, <1>2 DEF LockRow, CallRecord
  <1> HIDE DEF next
  <1>7. call' \in [Calls -> CallRecord] /\ Others(c) /\ call'[c] = next
    BY <1>5, <1>6, MoveCall
  <1>8. CallFits(c)'
    BY <1>1, <1>5, <1>6, <1>7, ItsRecord DEF CallFits, Writing, catalogVars, Known, Settled, At, Ended
  <1> QED BY <1>6, <1>7, <1>8, QuietStep

LEMMA WritesDoneStep ==
    ASSUME CatalogInvariant, NEW c \in Calls, WritesDone(c)
    PROVE  CatalogInvariant' /\ Evolves
  <1>1. call[c] \in CallRecord /\ At(c, "write")
    BY ItsRecord DEF WritesDone
  <1> DEFINE next == [call[c] EXCEPT !.pc = "publish"]
  <1>2. /\ next \in CallRecord
        /\ next.pc = "publish" /\ next.product = call[c].product /\ next.lines = call[c].lines
        /\ next.chat = call[c].chat /\ next.answer = call[c].answer /\ next.drop = call[c].drop
    BY <1>1 DEF CallRecord, CallPc, Ended
  <1>3. call' = [call EXCEPT ![c] = next] /\ UNCHANGED <<catalogVars, crashes>>
    BY <1>1 DEF WritesDone, CallRecord
  <1> HIDE DEF next
  <1>4. call' \in [Calls -> CallRecord] /\ Others(c) /\ call'[c] = next
    BY <1>2, <1>3, MoveCall
  <1>5. CallFits(c)'
    BY <1>1, <1>2, <1>3, <1>4, ItsRecord
       DEF CallFits, Writing, catalogVars, Known, Settled, At, Ended
  <1> QED BY <1>3, <1>4, <1>5, QuietStep

LEMMA ReadBackStep ==
    ASSUME CatalogInvariant, NEW c \in Calls, ReadBack(c)
    PROVE  CatalogInvariant' /\ Evolves
  <1>1. /\ call[c] \in CallRecord /\ At(c, "read_back") /\ call[c].product \in Products
        /\ Settled(call[c].product) /\ stamp[call[c].product] = Vouches(call[c].lines)
    BY ItsRecord DEF ReadBack, CallFits, At
  <1>2. CASE EndWith(c, "error")
    BY <1>2, EndsQuietly DEF Answers, ReadBack
  <1>3. CASE EndWith(c, "confirmed")
    <2> DEFINE next == [call[c] EXCEPT !.pc = "answered", !.answer = "confirmed", !.held = {}]
    <2>1. /\ next \in CallRecord
          /\ next.pc = "answered" /\ next.product = call[c].product /\ next.lines = call[c].lines
      BY <1>1 DEF CallRecord, CallPc, Ended, Answers
    <2>2. call' = [call EXCEPT ![c] = next] /\ UNCHANGED <<catalogVars, crashes>>
      BY <1>1, <1>3 DEF ReadBack, EndWith, CallRecord
    <2> HIDE DEF next
    <2>3. call' \in [Calls -> CallRecord] /\ Others(c) /\ call'[c] = next
      BY <2>1, <2>2, MoveCall
    <2>4. CallFits(c)'
      BY <1>1, <2>1, <2>2, <2>3 DEF CallFits, Writing, catalogVars, Settled, Ended
    <2> QED BY <2>2, <2>3, <2>4, QuietStep
  <1> QED BY <1>2, <1>3 DEF ReadBack

LEMMA CallEndsStep ==
    ASSUME CatalogInvariant, NEW c \in Calls, DeadlockDetected(c) \/ LoseConfirmation(c)
    PROVE  CatalogInvariant' /\ Evolves
  BY EndsQuietly DEF DeadlockDetected, LoseConfirmation, Answers

-----------------------------------------------------------------------------
(*************************** the catalog moves *****************************)

\* What Publish knows when it goes ahead.
LEMMA PublishKnows ==
    ASSUME CatalogInvariant, NEW c \in Calls, Publish(c)
    PROVE  /\ call[c] \in CallRecord /\ call[c].pc = "publish"
           /\ call[c].product \in Products
           /\ call[c].lines \in Submission /\ call[c].lines # {}
           /\ call[c].answer = "none"
           /\ status[call[c].product] = "needs_confirmation"
           /\ rows[call[c].product] \in SUBSET Row
           /\ Ids(call[c].lines) \ {Null} \subseteq Ids(rows[call[c].product])
           /\ call[c].drop = Ids(rows[call[c].product]) \ (Ids(call[c].lines) \ {Null})
           /\ call[c].chat => call[c].drop = {}
  <1>1. call[c] \in CallRecord /\ call[c].pc = "publish" /\ CallFits(c)
    BY ItsRecord DEF Publish, At
  <1>2. call[c].product \in Products /\ status[call[c].product] = "needs_confirmation"
    BY <1>1 DEF CallFits, Ended, Publish, Publishable
  <1>3. call[c].lines \in Submission /\ call[c].lines # {} /\ call[c].answer = "none"
    BY <1>1 DEF CallFits, Writing, Submission, Normalizes
  <1>4. /\ rows[call[c].product] \in SUBSET Row
        /\ Ids(rows[call[c].product]) \subseteq Id
    BY <1>2, ItsRecord
  <1>5. /\ Ids(call[c].lines) \ {Null} \subseteq Ids(rows[call[c].product])
        /\ call[c].drop = Ids(rows[call[c].product]) \ (Ids(call[c].lines) \ {Null})
    BY <1>1, <1>2 DEF CallFits
  <1>6. ASSUME call[c].chat PROVE call[c].drop = {}
    <2>1. Ids(rows[call[c].product]) \subseteq Ids(call[c].lines)
      BY <1>1, <1>2, <1>6 DEF CallFits, Writing
    <2> QED BY <1>4, <1>5, <2>1, ConfirmationAssumption
  <1> QED BY <1>1, <1>2, <1>3, <1>4, <1>5, <1>6

\* The row a new line becomes.
New(c, l) == [id |-> <<c, l.label>>, label |-> l.label, price |-> l.price, stock |-> l.stock]

LEMMA NewRow ==
    ASSUME NEW c \in Calls, NEW lines \in Submission, NEW l \in lines
    PROVE  New(c, l) \in Row /\ l.price \in Nat /\ l.stock \in Nat
  BY DEF New, Row, Submission, Line, Id

LEMMA WrittenIs ==
    ASSUME NEW c \in Calls
    PROVE  /\ \A r \in rows[call[c].product] :
                  r.id \notin call[c].drop => Corrected(r, call[c].lines) \in Written(c)
           /\ \A l \in call[c].lines : l.id = Null => New(c, l) \in Written(c)
           /\ \A w \in Written(c) :
                  \/ \E r \in rows[call[c].product] :
                         r.id \notin call[c].drop /\ w = Corrected(r, call[c].lines)
                  \/ \E l \in call[c].lines : l.id = Null /\ w = New(c, l)
  BY Zenon DEF Written, New

LEMMA WrittenRows ==
    ASSUME CatalogInvariant, NEW c \in Calls, Publish(c)
    PROVE  /\ Written(c) \in SUBSET Row
           /\ Written(c) # {}
           /\ \A w \in Written(c) : w.price \in Nat /\ w.stock \in Nat
           /\ call[c].chat => Ids(rows[call[c].product]) \subseteq Ids(Written(c))
  <1> DEFINE p == call[c].product
             lines == call[c].lines
             drop == call[c].drop
  <1>1. /\ lines \in Submission /\ lines # {} /\ rows[p] \in SUBSET Row
        /\ Ids(lines) \ {Null} \subseteq Ids(rows[p])
        /\ drop = Ids(rows[p]) \ (Ids(lines) \ {Null})
        /\ call[c].chat => drop = {}
    BY PublishKnows
  <1>2. ASSUME NEW r \in rows[p], r.id \notin drop
        PROVE  /\ Corrected(r, lines) \in Written(c) /\ Corrected(r, lines) \in Row
               /\ Corrected(r, lines).id = r.id
               /\ Corrected(r, lines).price \in Nat /\ Corrected(r, lines).stock \in Nat
    <2>1. \E l \in lines : l.id = r.id
      BY <1>1, <1>2 DEF Ids
    <2>2. \A l \in lines : l.price \in Nat /\ l.stock \in Nat
      BY <1>1 DEF Submission
    <2> QED BY <1>1, <1>2, <2>1, <2>2, CorrectedRow, WrittenIs
  <1>3. ASSUME NEW l \in lines, l.id = Null
        PROVE  /\ New(c, l) \in Written(c) /\ New(c, l) \in Row
               /\ New(c, l).price \in Nat /\ New(c, l).stock \in Nat
    BY <1>1, <1>3, NewRow, WrittenIs DEF New
  <1>4. \A w \in Written(c) : w \in Row /\ w.price \in Nat /\ w.stock \in Nat
    BY <1>2, <1>3, WrittenIs
  <1>5. Written(c) # {}
    <2>1. PICK l \in lines : TRUE
      BY <1>1
    <2>2. CASE l.id = Null
      BY <1>3, <2>2
    <2>3. CASE l.id # Null
      <3>1. PICK r \in rows[p] : r.id = l.id
        BY <1>1, <2>3 DEF Ids
      <3>2. r.id \notin drop
        BY <1>1, <2>3, <3>1 DEF Ids
      <3> QED BY <1>2, <3>2
    <2> QED BY <2>2, <2>3
  <1>6. ASSUME call[c].chat PROVE Ids(rows[p]) \subseteq Ids(Written(c))
    <2>1. \A r \in rows[p] : \E w \in Written(c) : w.id = r.id
      BY <1>1, <1>2, <1>6
    <2> QED BY <2>1 DEF Ids
  <1> QED BY <1>4, <1>5, <1>6

LEMMA PublishStep ==
    ASSUME CatalogInvariant, NEW c \in Calls, Publish(c)
    PROVE  CatalogInvariant' /\ Evolves
  <1> DEFINE p == call[c].product
             lines == call[c].lines
             next == [call[c] EXCEPT !.pc = "read_back", !.held = {}]
  <1>1. /\ call[c] \in CallRecord /\ p \in Products /\ lines \in Submission /\ lines # {}
        /\ call[c].answer = "none" /\ status[p] = "needs_confirmation"
    BY PublishKnows
  <1>2. /\ next \in CallRecord
        /\ next.pc = "read_back" /\ next.product = p /\ next.lines = lines /\ next.answer = "none"
    BY <1>1 DEF CallRecord, CallPc
  <1>3. /\ status' = [status EXCEPT ![p] = "published"]
        /\ stamp' = [stamp EXCEPT ![p] = Vouches(lines)]
        /\ rows' = [rows EXCEPT ![p] = Written(c)]
        /\ UNCHANGED <<record, sold, crashes>>
    BY DEF Publish
  <1>4. call' = [call EXCEPT ![c] = next]
    BY <1>1 DEF Publish, CallRecord
  <1> HIDE DEF next
  <1>5. call' \in [Calls -> CallRecord] /\ Others(c) /\ call'[c] = next
    BY <1>2, <1>4, MoveCall
  <1>6. Vouches(lines) \in SUBSET Offer /\ Vouches(lines) # {}
    <2>1. \A l \in lines : [label |-> l.label, price |-> l.price, stock |-> l.stock] \in Offer
      BY <1>1 DEF Offer, Submission, Line
    <2> QED BY <1>1, <2>1 DEF Vouches
  <1>7. TypeOK'
    <2>1. rows' \in [Products -> SUBSET Row]
      BY <1>1, <1>3, WrittenRows DEF CatalogInvariant, TypeOK
    <2>2. stamp' \in [Products -> SUBSET Offer]
      BY <1>1, <1>3, <1>6 DEF CatalogInvariant, TypeOK
    <2>3. status' \in [Products -> {"absent", "draft", "needs_confirmation", "published"}]
      BY <1>1, <1>3 DEF CatalogInvariant, TypeOK
    <2>4. StockIsStated'
      <3>1. \A q \in Products : q # p => rows'[q] = rows[q] /\ record'[q] = record[q]
        BY <1>3 DEF CatalogInvariant, TypeOK
      <3>2. rows'[p] = Written(c)
        BY <1>1, <1>3 DEF CatalogInvariant, TypeOK
      <3> HIDE DEF p
      <3> QED BY <3>1, <3>2, WrittenRows DEF CatalogInvariant, TypeOK, StockIsStated
    <2> QED BY <1>3, <1>5, <2>1, <2>2, <2>3, <2>4 DEF CatalogInvariant, TypeOK, CallRecord
  <1>8. \A q \in Products : q # p => /\ status'[q] = status[q] /\ rows'[q] = rows[q]
                                     /\ stamp'[q] = stamp[q]
    BY <1>3 DEF CatalogInvariant, TypeOK
  <1>9. status'[p] = "published" /\ rows'[p] = Written(c) /\ stamp'[p] = Vouches(lines)
    BY <1>1, <1>3 DEF CatalogInvariant, TypeOK
  <1>10. PublishedIsComplete'
    BY <1>8, <1>9, WrittenRows, IngestionAssumption DEF CatalogInvariant, PublishedIsComplete
  <1>11. HoldsSayWhy'
    BY <1>1, <1>3, <1>6, <1>8, <1>9 DEF CatalogInvariant, HoldsSayWhy, Known, NoStamp
  <1>12. Evolves
    BY <1>1, <1>3, <1>8, <1>9 DEF Evolves, Known, Settled
  <1>13. CallFits(c)'
    BY <1>1, <1>2, <1>5, <1>9 DEF CallFits, Writing, Settled
  <1>14. \A d \in Calls : d # c => CallFits(d)'
    BY <1>5, <1>12, CallsKeepFitting DEF Others, CatalogInvariant
  <1> QED BY <1>7, <1>10, <1>11, <1>12, <1>13, <1>14 DEF CatalogInvariant

\* The row ingestion writes for a Variant.
Ingested(p, v) == [id |-> <<p, v.label>>, label |-> v.label, price |-> v.price, stock |-> v.stock]

LEMMA IngestedRow ==
    ASSUME NEW p \in Products, NEW v \in Offer
    PROVE  Ingested(p, v) \in Row
  BY DEF Ingested, Row, Offer, Id

\* A step that no call takes only has to keep the catalog.
LEMMA OthersStep ==
    ASSUME CatalogInvariant, TypeOK', PublishedIsComplete', HoldsSayWhy', Evolves, UNCHANGED call
    PROVE  CatalogInvariant' /\ Evolves
  <1>1. \A d \in Calls : CallFits(d)'
    BY CallsKeepFitting DEF CatalogInvariant
  <1> QED BY <1>1 DEF CatalogInvariant

LEMMA IngestStep ==
    ASSUME CatalogInvariant, NEW p \in Products, NEW x \in Extractions, Ingest(p, x)
    PROVE  CatalogInvariant' /\ Evolves
  <1>1. CASE Known(p)
    <2>1. UNCHANGED <<catalogVars, call, crashes>>
      BY <1>1 DEF Ingest
    <2>2. TypeOK' /\ PublishedIsComplete' /\ HoldsSayWhy'
      BY <2>1 DEF CatalogInvariant, catalogVars, TypeOK, StockIsStated, PublishedIsComplete,
                      HoldsSayWhy, Known
    <2> QED BY <2>1, <2>2, StillEvolves, OthersStep
  <1>2. CASE ~Known(p)
    <2> DEFINE new == {Ingested(p, v) : v \in Variants(x)}
    <2>1. x \in Extraction
      BY ConfirmationAssumption
    <2>2. /\ Variants(x) \subseteq Offer /\ Variants(x) # {}
          /\ Gate(x) \in {"published", "needs_confirmation"}
          /\ Gate(x) = "published" <=> Holds(x) = {}
      BY <2>1, VariantsAreOffers, GateVerdict
    <2>3. new \in SUBSET Row /\ new # {}
      BY <2>2, IngestedRow
    <2>4. Gate(x) = "published" => \A r \in new : r.price # Null /\ r.stock # Null
      BY <2>1, <2>2, BeltIsRedundant DEF Ingested
    <2>5. /\ status' = [status EXCEPT ![p] = Gate(x)]
          /\ record' = [record EXCEPT ![p] = x]
          /\ stamp' = [stamp EXCEPT ![p] = NoStamp]
          /\ rows' = [rows EXCEPT ![p] = new]
          /\ UNCHANGED <<sold, call, crashes>>
      BY <1>2 DEF Ingest, Ingested
    <2>6. \A r \in new : r.stock \in Nat \cup {Null, x.stock.value}
      BY <2>1, VariantsAreOffers DEF Ingested
    <2> HIDE DEF new
    <2>7. \A q \in Products : q # p => /\ status'[q] = status[q] /\ rows'[q] = rows[q]
                                       /\ stamp'[q] = stamp[q] /\ record'[q] = record[q]
      BY <2>5 DEF CatalogInvariant, TypeOK
    <2>8. status'[p] = Gate(x) /\ rows'[p] = new /\ stamp'[p] = NoStamp /\ record'[p] = x
      BY <2>5 DEF CatalogInvariant, TypeOK
    <2>9. TypeOK'
      <3>1. StockIsStated'
        BY <2>6, <2>7, <2>8 DEF CatalogInvariant, TypeOK, StockIsStated
      <3> QED BY <2>1, <2>2, <2>3, <2>5, <3>1 DEF CatalogInvariant, TypeOK, NoStamp
    <2>10. PublishedIsComplete'
      BY <2>3, <2>4, <2>7, <2>8 DEF CatalogInvariant, PublishedIsComplete
    <2>11. HoldsSayWhy'
      BY <2>2, <2>7, <2>8 DEF CatalogInvariant, HoldsSayWhy, Known
    <2>12. Evolves
      BY <1>2, <2>7 DEF Evolves, Known, Settled
    <2> QED BY <2>5, <2>9, <2>10, <2>11, <2>12, OthersStep
  <1> QED BY <1>1, <1>2

LEMMA ArchiveStep ==
    ASSUME CatalogInvariant, NEW p \in Products, Archive(p)
    PROVE  CatalogInvariant' /\ Evolves
  <1>1. /\ status' = [status EXCEPT ![p] = "draft"]
        /\ UNCHANGED <<record, stamp, rows, sold, call, crashes>>
    BY DEF Archive
  <1>2. status'[p] = "draft" /\ \A q \in Products : q # p => status'[q] = status[q]
    BY <1>1 DEF CatalogInvariant, TypeOK
  <1>3. TypeOK'
    BY <1>1 DEF CatalogInvariant, TypeOK, StockIsStated
  <1>4. PublishedIsComplete' /\ HoldsSayWhy'
    BY <1>1, <1>2 DEF CatalogInvariant, PublishedIsComplete, HoldsSayWhy, Known
  <1>5. Evolves
    BY <1>1, <1>2 DEF Evolves, Known, Settled
  <1> QED BY <1>1, <1>3, <1>4, <1>5, OthersStep

\* One unit less on one row: ids and prices stay.
LEMMA SoldRow ==
    ASSUME NEW set \in SUBSET Row, NEW r \in set, InStock(r)
    PROVE  LET sale == [r EXCEPT !.stock = @ - 1]
               after == (set \ {r}) \cup {sale}
           IN  /\ after \in SUBSET Row /\ after # {}
               /\ sale.id = r.id /\ sale.price = r.price /\ sale.stock \in Nat
               /\ Ids(after) = Ids(set)
  <1> DEFINE sale == [r EXCEPT !.stock = @ - 1]
             after == (set \ {r}) \cup {sale}
  <1>1. r.stock \in Nat /\ r.stock > 0
    BY DEF InStock, Row
  <1>2. sale \in Row /\ sale.id = r.id /\ sale.price = r.price /\ sale.stock \in Nat
    BY <1>1 DEF Row
  <1> HIDE DEF sale
  <1>3. after \in SUBSET Row /\ after # {}
    BY <1>2
  <1>4. Ids(after) = Ids(set)
    BY <1>2 DEF Ids
  <1> QED BY <1>2, <1>3, <1>4 DEF sale

LEMMA SellStep ==
    ASSUME CatalogInvariant, NEW p \in Products, Sell(p)
    PROVE  CatalogInvariant' /\ Evolves
  <1>1. PICK r \in rows[p] :
            /\ InStock(r)
            /\ rows' = [rows EXCEPT ![p] = (@ \ {r}) \cup {[r EXCEPT !.stock = @ - 1]}]
            /\ sold' = [sold EXCEPT ![r.id] = @ + 1]
    BY DEF Sell
  <1>2. UNCHANGED <<status, record, stamp, call, crashes>>
    BY DEF Sell
  <1> DEFINE sale == [r EXCEPT !.stock = @ - 1]
             after == (rows[p] \ {r}) \cup {sale}
  <1>3. rows[p] \in SUBSET Row /\ r \in Row /\ r.id \in Id
    BY DEF CatalogInvariant, TypeOK, Row
  <1>4. /\ after \in SUBSET Row /\ after # {}
        /\ sale.price = r.price /\ sale.stock \in Nat
        /\ Ids(after) = Ids(rows[p])
    BY <1>1, <1>3, SoldRow
  <1>5. rows' = [rows EXCEPT ![p] = after]
    BY <1>1 DEF CatalogInvariant, TypeOK
  <1> HIDE DEF sale
  <1>6. \A q \in Products : rows'[q] = IF q = p THEN after ELSE rows[q]
    BY <1>5 DEF CatalogInvariant, TypeOK
  <1>7. TypeOK'
    <2>1. rows' \in [Products -> SUBSET Row]
      BY <1>4, <1>5 DEF CatalogInvariant, TypeOK
    <2>2. sold' \in [Id -> Nat]
      BY <1>1, <1>3 DEF CatalogInvariant, TypeOK
    <2>3. StockIsStated'
      BY <1>2, <1>4, <1>6 DEF CatalogInvariant, TypeOK, StockIsStated
    <2> QED BY <1>2, <2>1, <2>2, <2>3 DEF CatalogInvariant, TypeOK
  <1>8. PublishedIsComplete'
    BY <1>2, <1>4, <1>6, IngestionAssumption DEF CatalogInvariant, PublishedIsComplete
  <1>9. HoldsSayWhy'
    BY <1>2 DEF CatalogInvariant, HoldsSayWhy, Known
  <1>10. Evolves
    BY <1>2, <1>4, <1>6 DEF Evolves, Known, Settled
  <1> QED BY <1>2, <1>7, <1>8, <1>9, <1>10, OthersStep

LEMMA CrashStep ==
    ASSUME CatalogInvariant, Crash
    PROVE  CatalogInvariant' /\ Evolves
  <1>1. /\ call' = [c \in Calls |-> IF call[c].pc \in Ended THEN call[c]
                                    ELSE [call[c] EXCEPT !.pc = "dropped", !.held = {}]]
        /\ crashes' = crashes + 1 /\ crashes < MaxCrashes
        /\ UNCHANGED catalogVars
    BY DEF Crash
  <1>2. TypeOK'
    <2>1. \A c \in Calls : [call[c] EXCEPT !.pc = "dropped", !.held = {}] \in CallRecord
      BY DEF CatalogInvariant, TypeOK, CallRecord, CallPc, Ended
    <2>2. call' \in [Calls -> CallRecord]
      BY <1>1, <2>1 DEF CatalogInvariant, TypeOK, CallRecord
    <2>3. crashes' \in 0..MaxCrashes
      <3>1. crashes \in 0..MaxCrashes
        BY DEF CatalogInvariant, TypeOK
      <3>2. crashes' = crashes + 1 /\ crashes < MaxCrashes
        BY <1>1
      <3>3. MaxCrashes \in Nat
        BY ConfirmationAssumption
      <3> QED BY <3>1, <3>2, <3>3
    <2> QED BY <1>1, <2>2, <2>3
            DEF CatalogInvariant, TypeOK, StockIsStated, CallRecord, catalogVars
  <1>3. PublishedIsComplete' /\ HoldsSayWhy'
    BY <1>1 DEF CatalogInvariant, catalogVars, PublishedIsComplete, HoldsSayWhy, Known
  <1>4. Evolves
    BY <1>1, StillEvolves
  <1>5. ASSUME NEW c \in Calls PROVE CallFits(c)'
    <2>1. CASE call[c].pc \in Ended
      BY <1>1, <1>4, <2>1, CallsKeepFitting DEF CatalogInvariant
    <2>2. CASE call[c].pc \notin Ended
      <3> DEFINE next == [call[c] EXCEPT !.pc = "dropped", !.held = {}]
      <3>1. next.pc = "dropped" /\ next.answer = "none"
        BY <2>2, ItsRecord DEF CallRecord, CallFits, Ended
      <3>2. call'[c] = next
        BY <1>1, <2>2
      <3> HIDE DEF next
      <3> QED BY <3>1, <3>2 DEF CallFits, Writing, Ended
    <2> QED BY <2>1, <2>2
  <1> QED BY <1>2, <1>3, <1>4, <1>5 DEF CatalogInvariant

LEMMA StepKeepsCatalog ==
    ASSUME CatalogInvariant, [Next]_vars
    PROVE  CatalogInvariant' /\ Evolves
  <1>1. CASE Next
    <2>1. ASSUME NEW p \in Products, NEW x \in Extractions, Ingest(p, x)
          PROVE  CatalogInvariant' /\ Evolves
      BY <2>1, IngestStep
    <2>2. ASSUME NEW p \in Products, NEW c \in Calls, NEW form \in Forms, PostForm(c, p, form)
          PROVE  CatalogInvariant' /\ Evolves
      BY <2>2, PostFormStep
    <2>3. ASSUME NEW p \in Products, NEW c \in Calls, NEW edits \in Edits, AskChat(c, p, edits)
          PROVE  CatalogInvariant' /\ Evolves
      BY <2>3, AskChatStep
    <2>4. ASSUME NEW p \in Products, Archive(p) \/ Sell(p)
          PROVE  CatalogInvariant' /\ Evolves
      BY <2>4, ArchiveStep, SellStep
    <2>5. ASSUME NEW c \in Calls, CallStep(c)
          PROVE  CatalogInvariant' /\ Evolves
      BY <2>5, LayOverlayStep, ReadProductStep, ReadRowsStep, LockRowStep, WritesDoneStep,
         CallEndsStep, PublishStep, ReadBackStep DEF CallStep
    <2>6. CASE Crash
      BY <2>6, CrashStep
    <2> QED BY <1>1, <2>1, <2>2, <2>3, <2>4, <2>5, <2>6 DEF Next
  <1>2. CASE UNCHANGED vars
    <2>1. UNCHANGED <<catalogVars, call, crashes>>
      BY <1>2 DEF vars
    <2>2. TypeOK' /\ PublishedIsComplete' /\ HoldsSayWhy'
      BY <2>1 DEF CatalogInvariant, catalogVars, TypeOK, StockIsStated, PublishedIsComplete,
                      HoldsSayWhy, Known
    <2> QED BY <2>1, <2>2, StillEvolves, OthersStep
  <1> QED BY <1>1, <1>2

LEMMA CatalogInvariance == Spec => []CatalogInvariant
  <1>1. CatalogInvariant /\ [Next]_vars => CatalogInvariant'
    BY StepKeepsCatalog
  <1> QED BY <1>1, InitCatalog, PTL DEF Spec

-----------------------------------------------------------------------------
(******************************* theorems **********************************)

(* The catalog and the confirmations are well typed in every reachable     *)
(* state; no sale takes the stock of a Variant below zero.                 *)
THEOREM CatalogTypes == Spec => []TypeOK
  <1>1. CatalogInvariant => TypeOK
    BY DEF CatalogInvariant
  <1> QED BY <1>1, CatalogInvariance, PTL

(* Whatever was extracted and answered, and however confirmations, sales   *)
(* and archiving interleave, what buyers see has a price and a stock.      *)
THEOREM PublishedComplete == Spec => []PublishedIsComplete
  <1>1. CatalogInvariant => PublishedIsComplete
    BY DEF CatalogInvariant
  <1> QED BY <1>1, CatalogInvariance, PTL

(* A held Product always has a reason, and a Product that needed one has   *)
(* the answer of the merchant who published it.                            *)
THEOREM HoldsExplain == Spec => []HoldsSayWhy
  <1>1. CatalogInvariant => HoldsSayWhy
    BY DEF CatalogInvariant
  <1> QED BY <1>1, CatalogInvariance, PTL

(* At most one confirmation of a Product is told `published`: the recorded *)
(* answer is its own.                                                      *)
THEOREM ConfirmedMine == Spec => []ConfirmedIsMine
  <1>1. CatalogInvariant => ConfirmedIsMine
    BY DEF CatalogInvariant, CallFits, ConfirmedIsMine
  <1> QED BY <1>1, CatalogInvariance, PTL

(* No step removes a Variant of a Product that was published, nor touches  *)
(* its extraction or its answer.                                           *)
THEOREM AnswersStand == Spec => AnswerStands
  <1>1. CatalogInvariant /\ [Next]_vars =>
            [\A p \in Products :
                status[p] \in {"published", "draft"} =>
                    /\ Ids(rows'[p]) = Ids(rows[p])
                    /\ stamp'[p] = stamp[p] /\ record'[p] = record[p]]_vars
    BY StepKeepsCatalog DEF Evolves, Settled
  <1> QED BY <1>1, CatalogInvariance, PTL DEF Spec, AnswerStands

(* A chat answer that publishes a Product deletes none of its Variants,    *)
(* also when the rows it was laid over changed since.                      *)
THEOREM ChatKeepsRows == Spec => ChatDeletesNothing
  <1>1. ASSUME CatalogInvariant, [Next]_vars, NEW c \in Calls,
               call[c].chat, At(c, "publish"), call'[c].pc = "read_back"
        PROVE  Ids(rows[call[c].product]) \subseteq Ids(rows'[call[c].product])
    <2>1. call \in [Calls -> CallRecord] /\ call[c].pc = "publish"
      BY <1>1 DEF CatalogInvariant, TypeOK, CallRecord, At
    <2>2. Publish(c)
      <3>1. CASE Next
        <4>1. ASSUME NEW d \in Calls, CallStep(d) PROVE Publish(c)
          <5>1. CASE d = c
            <6>1. ~(LayOverlay(c) \/ ReadProduct(c) \/ ReadRows(c) \/ ReadBack(c))
              BY <2>1 DEF LayOverlay, ReadProduct, ReadRows, ReadBack, At
            <6>2. ~LockRow(c) /\ ~WritesDone(c)
              BY <2>1 DEF LockRow, Wanted, WritesDone, At
            <6>3. ~LoseConfirmation(c) /\ ~DeadlockDetected(c)
              BY <1>1, <2>1 DEF LoseConfirmation, DeadlockDetected, EndWith, CallRecord
            <6>4. CallStep(c)
              BY <4>1, <5>1
            <6> QED BY <6>1, <6>2, <6>3, <6>4, Zenon DEF CallStep
          <5>2. CASE d # c
            <6>1. call'[c] = call[c]
              BY <2>1, <4>1, <5>2
                 DEF CallStep, LayOverlay, ReadProduct, ReadRows, LockRow, WritesDone,
                     DeadlockDetected, Publish, LoseConfirmation, ReadBack, EndWith, CallRecord
            <6> QED BY <1>1, <2>1, <6>1
          <5> QED BY <5>1, <5>2
        <4>2. ASSUME NEW p \in Products, NEW d \in Calls, NEW form \in Forms,
                     PostForm(d, p, form)
              PROVE  Publish(c)
          <5>1. call'[c].pc # "read_back"
            BY <2>1, <4>2, ZenonT(60) DEF PostForm, EndWith, CallRecord, Idle
          <5> QED BY <1>1, <5>1
        <4>3. ASSUME NEW p \in Products, NEW d \in Calls, NEW edits \in Edits,
                     AskChat(d, p, edits)
              PROVE  Publish(c)
          BY <1>1, <2>1, <4>3 DEF AskChat, CallRecord, Idle
        <4>4. ASSUME NEW p \in Products, NEW x \in Extractions, Ingest(p, x)
              PROVE  Publish(c)
          BY <1>1, <2>1, <4>4 DEF Ingest
        <4>5. ASSUME NEW p \in Products, Archive(p) \/ Sell(p)
              PROVE  Publish(c)
          BY <1>1, <2>1, <4>5 DEF Archive, Sell
        <4>6. CASE Crash
          BY <1>1, <2>1, <4>6 DEF Crash, Ended, CallRecord
        <4> QED BY <3>1, <4>1, <4>2, <4>3, <4>4, <4>5, <4>6 DEF Next
      <3>2. CASE UNCHANGED vars
        BY <1>1, <2>1, <3>2 DEF vars
      <3> QED BY <1>1, <3>1, <3>2
    <2>3. rows'[call[c].product] = Written(c)
      BY <1>1, <2>2, PublishKnows DEF Publish, CatalogInvariant, TypeOK
    <2> QED BY <1>1, <2>2, <2>3, WrittenRows
  <1>2. CatalogInvariant /\ [Next]_vars =>
            [\A c \in Calls :
                call[c].chat /\ At(c, "publish") /\ call'[c].pc = "read_back" =>
                    Ids(rows[call[c].product]) \subseteq Ids(rows'[call[c].product])]_vars
    BY <1>1
  <1> QED BY <1>2, CatalogInvariance, PTL DEF Spec, ChatDeletesNothing

-----------------------------------------------------------------------------
(***************************************************************************)
(* RowsAreVouchedFor.  It needs more than the catalog's invariant: whose   *)
(* each row id is, and that nothing is sold of a row before its Product is *)
(* published.                                                              *)
(***************************************************************************)
\* The calls whose rows may be in the catalog.
Committed == {"read_back", "answered", "dropped"}

\* A row of p was inserted by its ingestion or by a confirmation of it.
Owned(p) ==
    \A r \in rows[p] :
        \/ r.id[1] = p
        \/ /\ r.id[1] \in Calls
           /\ call[r.id[1]].product = p
           /\ call[r.id[1]].pc \in Committed

\* Until a Product is published it has ingestion's rows only, none of it sold.
Untouched(p) ==
    ~Settled(p) =>
        /\ \A r \in rows[p] : r.id[1] = p
        /\ \A l \in Labels \cup {Null} : sold[<<p, l>>] = 0

Fresh(c) == call[c].pc \notin Committed => \A l \in Labels \cup {Null} : sold[<<c, l>>] = 0

RowsInvariant ==
    /\ \A p \in Products : Owned(p) /\ Untouched(p) /\ (~Known(p) => rows[p] = {})
    /\ \A c \in Calls : Fresh(c)
    /\ RowsAreVouchedFor

LEMMA InitRows == Init => RowsInvariant
  <1> SUFFICES ASSUME Init PROVE RowsInvariant
    OBVIOUS
  <1>1. \A p \in Products : Owned(p) /\ Untouched(p) /\ (~Known(p) => rows[p] = {})
    BY DEF Init, Owned, Untouched, Id
  <1>2. \A c \in Calls : Fresh(c)
    BY DEF Init, Fresh, Id
  <1>3. RowsAreVouchedFor
    BY DEF Init, RowsAreVouchedFor, Known
  <1> QED BY <1>1, <1>2, <1>3 DEF RowsInvariant

-----------------------------------------------------------------------------
(*************************** the calls advance *****************************)

\* No step takes a call out of Committed, nor changes its Product there.
Advances ==
    \A d \in Calls :
        call[d].pc \in Committed =>
            call'[d].pc \in Committed /\ call'[d].product = call[d].product

\* A step of c, which is not over.
LEMMA OneAdvances ==
    ASSUME CatalogInvariant, NEW c \in Calls, Others(c),
           call[c].pc \notin Committed
               \/ (call'[c].pc \in Committed /\ call'[c].product = call[c].product)
    PROVE  Advances
  BY DEF Others, Advances

LEMMA EndAdvances ==
    ASSUME CatalogInvariant, NEW c \in Calls, NEW answer, EndWith(c, answer)
    PROVE  /\ Others(c)
           /\ call'[c].pc \in Committed /\ call'[c].product = call[c].product
  <1>1. call \in [Calls -> CallRecord] /\ call[c] \in CallRecord
    BY DEF CatalogInvariant, TypeOK, CallRecord
  <1> QED BY <1>1 DEF EndWith, Others, CallRecord, Committed

LEMMA CallStepAdvances ==
    ASSUME CatalogInvariant, NEW c \in Calls, CallStep(c)
    PROVE  Advances
  <1>1. call \in [Calls -> CallRecord]
    BY DEF CatalogInvariant, TypeOK, CallRecord
  <1>2. CASE LayOverlay(c) \/ ReadProduct(c) \/ ReadRows(c)
    BY <1>1, <1>2, OneAdvances
       DEF LayOverlay, ReadProduct, ReadRows, EndWith, At, Committed, Others
  <1>3. CASE LockRow(c) \/ WritesDone(c) \/ Publish(c)
    BY <1>1, <1>3, OneAdvances DEF LockRow, Wanted, WritesDone, Publish, At, Committed, Others
  <1>4. CASE DeadlockDetected(c) \/ LoseConfirmation(c) \/ ReadBack(c)
    BY <1>4, EndAdvances, OneAdvances DEF DeadlockDetected, LoseConfirmation, ReadBack
  <1> QED BY <1>2, <1>3, <1>4 DEF CallStep

LEMMA StepAdvances ==
    ASSUME CatalogInvariant, [Next]_vars
    PROVE  Advances
  <1>1. call \in [Calls -> CallRecord]
    BY DEF CatalogInvariant, TypeOK, CallRecord
  <1>2. CASE Next
    <2>1. ASSUME NEW p \in Products, NEW x \in Extractions, Ingest(p, x)
          PROVE  Advances
      BY <2>1 DEF Ingest, Advances
    <2>2. ASSUME NEW p \in Products, NEW c \in Calls, NEW form \in Forms, PostForm(c, p, form)
          PROVE  Advances
      BY <1>1, <2>2, OneAdvances DEF PostForm, EndWith, At, Committed, Others
    <2>3. ASSUME NEW p \in Products, NEW c \in Calls, NEW edits \in Edits, AskChat(c, p, edits)
          PROVE  Advances
      BY <1>1, <2>3, OneAdvances DEF AskChat, At, Committed, Others
    <2>4. ASSUME NEW p \in Products, Archive(p) \/ Sell(p)
          PROVE  Advances
      BY <2>4 DEF Archive, Sell, Advances
    <2>5. ASSUME NEW c \in Calls, CallStep(c)
          PROVE  Advances
      BY <2>5, CallStepAdvances
    <2>6. CASE Crash
      BY <1>1, <2>6 DEF Crash, Ended, Committed, Advances, CallRecord
    <2> QED BY <1>2, <2>1, <2>2, <2>3, <2>4, <2>5, <2>6 DEF Next
  <1>3. CASE UNCHANGED vars
    BY <1>3 DEF vars, Advances
  <1> QED BY <1>2, <1>3

(* A step that leaves the catalog alone.                                   *)
LEMMA CatalogStays ==
    ASSUME RowsInvariant, Advances, UNCHANGED catalogVars
    PROVE  RowsInvariant'
  <1>1. ASSUME NEW p \in Products
        PROVE  (Owned(p) /\ Untouched(p) /\ (~Known(p) => rows[p] = {}))'
    BY DEF RowsInvariant, Advances, catalogVars, Owned, Untouched, Settled, Known
  <1>2. ASSUME NEW c \in Calls PROVE Fresh(c)'
    BY DEF RowsInvariant, Advances, catalogVars, Fresh
  <1>3. RowsAreVouchedFor'
    BY DEF RowsInvariant, catalogVars, RowsAreVouchedFor, Known, Offered
  <1> QED BY <1>1, <1>2, <1>3 DEF RowsInvariant

-----------------------------------------------------------------------------
(*************************** one Product's rows ****************************)

\* RowsAreVouchedFor, of one Product.
Vouched(p) ==
    Known(p) =>
        /\ Offered(p) = IF stamp[p] = NoStamp THEN Variants(record[p]) ELSE stamp[p]
        /\ \A r, s \in rows[p] : r.id = s.id => r = s

\* What a row was before anything of it was sold.
Original(r) ==
    [label |-> r.label, price |-> r.price,
     stock |-> IF r.stock = Null THEN Null ELSE r.stock + sold[r.id]]

LEMMA OfferedIs ==
    ASSUME NEW p \in Products
    PROVE  /\ \A r \in rows[p] : Original(r) \in Offered(p)
           /\ \A o \in Offered(p) : \E r \in rows[p] : o = Original(r)
  BY Zenon DEF Offered, Original

\* A Product whose rows, answer and sales a step leaves alone.
LEMMA StaysVouched ==
    ASSUME NEW p \in Products, Vouched(p), Known(p)' => Known(p),
           rows'[p] = rows[p], stamp'[p] = stamp[p], record'[p] = record[p],
           \A r \in rows[p] : sold'[r.id] = sold[r.id]
    PROVE  Vouched(p)'
  <1>1. Offered(p)' = Offered(p)
    BY DEF Offered
  <1> QED BY <1>1 DEF Vouched, Known

LEMMA StaysOwned ==
    ASSUME NEW p \in Products, Owned(p), Advances, rows'[p] = rows[p]
    PROVE  Owned(p)'
  BY DEF Owned, Advances

LEMMA VariantsByLabel ==
    ASSUME NEW x, NEW v \in Variants(x), NEW w \in Variants(x), v.label = w.label
    PROVE  v = w
  <1>1. CASE Kept(x.labels.value) = {}
    BY <1>1 DEF Variants
  <1>2. CASE Kept(x.labels.value) # {}
    BY <1>2 DEF Variants
  <1> QED BY <1>1, <1>2

LEMMA IngestKeepsRows ==
    ASSUME CatalogInvariant, RowsInvariant, Advances,
           NEW p \in Products, NEW x \in Extractions, Ingest(p, x)
    PROVE  RowsInvariant'
  <1>1. CASE Known(p)
    BY <1>1, CatalogStays DEF Ingest
  <1>2. CASE ~Known(p)
    <2> DEFINE new == {Ingested(p, v) : v \in Variants(x)}
    <2>1. x \in Extraction /\ Variants(x) \subseteq Offer
      BY ConfirmationAssumption, VariantsAreOffers
    <2>2. /\ status' = [status EXCEPT ![p] = Gate(x)]
          /\ record' = [record EXCEPT ![p] = x]
          /\ stamp' = [stamp EXCEPT ![p] = NoStamp]
          /\ rows' = [rows EXCEPT ![p] = new]
          /\ UNCHANGED <<sold, call, crashes>>
      BY <1>2 DEF Ingest, Ingested
    <2> HIDE DEF new
    <2>3. \A q \in Products : q # p => /\ status'[q] = status[q] /\ rows'[q] = rows[q]
                                       /\ stamp'[q] = stamp[q] /\ record'[q] = record[q]
      BY <2>2 DEF CatalogInvariant, TypeOK
    <2>4. status'[p] = Gate(x) /\ rows'[p] = new /\ stamp'[p] = NoStamp /\ record'[p] = x
      BY <2>2 DEF CatalogInvariant, TypeOK
    <2>5. \A l \in Labels \cup {Null} : sold[<<p, l>>] = 0
      BY <1>2 DEF RowsInvariant, Untouched, Known, Settled
    <2>6. ASSUME NEW v \in Variants(x)
          PROVE  /\ Ingested(p, v) \in new /\ Ingested(p, v).id = <<p, v.label>>
                 /\ Original(Ingested(p, v)) = v
      <3>1. v \in Offer /\ sold[<<p, v.label>>] = 0
        BY <2>1, <2>5 DEF Offer
      <3>2. Ingested(p, v) \in new
        BY DEF new
      <3>3. Original(Ingested(p, v)) = [label |-> v.label, price |-> v.price, stock |-> v.stock]
        BY <3>1, IngestionAssumption DEF Original, Ingested, Offer
      <3>4. v = [label |-> v.label, price |-> v.price, stock |-> v.stock]
        BY <3>1 DEF Offer
      <3>5. Ingested(p, v).id = <<p, v.label>>
        BY DEF Ingested
      <3> QED BY <3>2, <3>3, <3>4, <3>5
    <2>7. Vouched(p)'
      <3>1. \A r \in new : \E v \in Variants(x) : r = Ingested(p, v)
        BY DEF new
      <3>2. Offered(p)' = {Original(r) : r \in new}
        BY <2>2, <2>4 DEF Offered, Original
      <3>3. Offered(p)' = Variants(x)
        BY <2>6, <3>1, <3>2
      <3>4. \A r, s \in new : r.id = s.id => r = s
        BY <2>6, <3>1, VariantsByLabel
      <3> QED BY <2>4, <3>3, <3>4 DEF Vouched
    <2>8. ASSUME NEW q \in Products
          PROVE  (Owned(q) /\ Untouched(q) /\ (~Known(q) => rows[q] = {}) /\ Vouched(q))'
      <3>1. CASE q = p
        <4>1. \A r \in rows'[p] : r.id[1] = p
          BY <2>4, <2>6 DEF new, Ingested
        <4>2. Known(p)'
          BY <2>1, <2>4, GateVerdict DEF Known
        <4> QED BY <2>2, <2>5, <2>7, <3>1, <4>1, <4>2 DEF Owned, Untouched
      <3>2. CASE q # p
        <4>1. Vouched(q)
          BY DEF RowsInvariant, RowsAreVouchedFor, Vouched
        <4> QED BY <2>2, <2>3, <3>2, <4>1, StaysVouched, StaysOwned
                DEF RowsInvariant, Untouched, Known, Settled
      <3> QED BY <3>1, <3>2
    <2>9. ASSUME NEW c \in Calls PROVE Fresh(c)'
      BY <2>2 DEF RowsInvariant, Fresh
    <2> QED BY <2>8, <2>9 DEF RowsInvariant, RowsAreVouchedFor, Vouched
  <1> QED BY <1>1, <1>2

LEMMA ArchiveKeepsRows ==
    ASSUME CatalogInvariant, RowsInvariant, Advances, NEW p \in Products, Archive(p)
    PROVE  RowsInvariant'
  <1>1. UNCHANGED <<record, stamp, rows, sold, call>>
    BY DEF Archive
  <1>2. \A q \in Products : (Known(q)' <=> Known(q)) /\ (Settled(q) => Settled(q)')
    BY DEF Archive, Known, Settled, CatalogInvariant, TypeOK
  <1>3. ASSUME NEW q \in Products
        PROVE  (Owned(q) /\ Untouched(q) /\ (~Known(q) => rows[q] = {}) /\ Vouched(q))'
    <2>1. Vouched(q)
      BY DEF RowsInvariant, RowsAreVouchedFor, Vouched
    <2> QED BY <1>1, <1>2, <2>1, StaysVouched, StaysOwned DEF RowsInvariant, Untouched
  <1>4. ASSUME NEW c \in Calls PROVE Fresh(c)'
    BY <1>1 DEF RowsInvariant, Fresh
  <1> QED BY <1>3, <1>4 DEF RowsInvariant, RowsAreVouchedFor, Vouched

-----------------------------------------------------------------------------
(***************************** a confirmation ******************************)

LEMMA LinesAreDistinct ==
    ASSUME NEW lines \in Submission, NEW l \in lines, NEW m \in lines
    PROVE  /\ l.id # Null /\ l.id = m.id => l = m
           /\ l.label = m.label => l = m
           /\ l.label \in Labels \cup {Null}
  <1>1. /\ l.id # Null /\ l.id = m.id => l = m
        /\ l.label = Null => lines = {l}
        /\ l.label # Null /\ m.label # Null /\ StockKey[l.label] = StockKey[m.label] => l = m
    BY DEF Submission, Normalizes
  <1>2. l.label \in Labels \cup {Null}
    BY DEF Submission, Line
  <1> QED BY <1>1, <1>2

\* What a line says of the offer it becomes.
Offer1(l) == [label |-> l.label, price |-> l.price, stock |-> l.stock]

LEMMA WrittenOffers ==
    ASSUME CatalogInvariant, RowsInvariant, NEW c \in Calls, Publish(c)
    PROVE  /\ \A w \in Written(c) :
                  /\ w.id[1] = call[c].product \/ w.id[1] = c
                  /\ \E l \in call[c].lines : Original(w) = Offer1(l)
           /\ \A l \in call[c].lines : \E w \in Written(c) : Original(w) = Offer1(l)
           /\ \A v, w \in Written(c) : v.id = w.id => v = w
  <1> DEFINE p == call[c].product
             lines == call[c].lines
             drop == call[c].drop
  <1>1. /\ p \in Products /\ lines \in Submission /\ rows[p] \in SUBSET Row
        /\ status[p] = "needs_confirmation" /\ call[c].pc = "publish"
        /\ Ids(lines) \ {Null} \subseteq Ids(rows[p])
        /\ drop = Ids(rows[p]) \ (Ids(lines) \ {Null})
    BY PublishKnows
  <1>2. /\ \A r \in rows[p] : r.id[1] = p
        /\ \A l \in Labels \cup {Null} : sold[<<p, l>>] = 0 /\ sold[<<c, l>>] = 0
        /\ \A r, s \in rows[p] : r.id = s.id => r = s
    <2>1. ~Settled(p) /\ Known(p) /\ call[c].pc \notin Committed
      BY <1>1 DEF Settled, Known, Committed
    <2> QED BY <1>1, <2>1 DEF RowsInvariant, Untouched, Fresh, RowsAreVouchedFor
  <1>3. \A r \in rows[p] : sold[r.id] = 0 /\ r.id # Null
    <2>1. ASSUME NEW r \in rows[p] PROVE sold[r.id] = 0
      <3>1. r.id \in Id /\ r.id[1] = p
        BY <1>1, <1>2 DEF Row
      <3>2. PICK a \in Products \cup Calls, l \in Labels \cup {Null} : r.id = <<a, l>>
        BY <3>1 DEF Id
      <3>3. r.id = <<p, l>>
        BY <3>1, <3>2
      <3> QED BY <1>2, <3>3
    <2> QED BY <1>1, <2>1, ConfirmationAssumption DEF Row
  <1>4. ASSUME NEW r \in rows[p], r.id \notin drop
        PROVE  \E l \in lines : /\ l.id = r.id
                                /\ Corrected(r, lines).id = r.id
                                /\ Corrected(r, lines).label = l.label
                                /\ Original(Corrected(r, lines)) = Offer1(l)
    <2>1. r \in Row /\ r.id \in Ids(lines)
      BY <1>1, <1>4 DEF Ids
    <2>2. PICK l \in lines : /\ l.id = r.id
                             /\ Corrected(r, lines).label = l.label
                             /\ Corrected(r, lines).price = l.price
                             /\ Corrected(r, lines).stock = l.stock
      BY <1>1, <2>1, CorrectedRow DEF Ids
    <2>3. Corrected(r, lines).id = r.id
      BY <1>1, <2>1, CorrectedRow
    <2>4. l.stock \in Nat
      BY <1>1 DEF Submission
    <2>5. Original(Corrected(r, lines)) = Offer1(l)
      BY <1>3, <2>2, <2>3, <2>4, IngestionAssumption DEF Original, Offer1
    <2> QED BY <2>2, <2>3, <2>5
  <1>5. ASSUME NEW l \in lines
        PROVE  New(c, l).id = <<c, l.label>> /\ Original(New(c, l)) = Offer1(l)
    <2>1. l.stock \in Nat /\ sold[<<c, l.label>>] = 0
      BY <1>1, <1>2, LinesAreDistinct DEF Submission
    <2> QED BY <2>1, IngestionAssumption DEF New, Original, Offer1
  <1>6. ASSUME NEW w \in Written(c)
        PROVE  /\ w.id[1] = p \/ w.id[1] = c
               /\ \E l \in lines : Original(w) = Offer1(l)
    <2>1. CASE \E r \in rows[p] : r.id \notin drop /\ w = Corrected(r, lines)
      BY <1>2, <1>4, <2>1
    <2>2. CASE \E l \in lines : l.id = Null /\ w = New(c, l)
      BY <1>5, <2>2
    <2> QED BY <2>1, <2>2, WrittenIs
  <1>7. ASSUME NEW l \in lines
        PROVE  \E w \in Written(c) : Original(w) = Offer1(l)
    <2>1. CASE l.id = Null
      BY <1>5, <2>1, WrittenIs
    <2>2. CASE l.id # Null
      <3>1. PICK r \in rows[p] : r.id = l.id
        BY <1>1, <2>2 DEF Ids
      <3>2. r.id \notin drop
        BY <1>1, <2>2, <3>1 DEF Ids
      <3>3. PICK m \in lines : m.id = r.id /\ Original(Corrected(r, lines)) = Offer1(m)
        BY <1>4, <3>2
      <3>4. m = l
        BY <1>1, <2>2, <3>1, <3>3, LinesAreDistinct
      <3> QED BY <3>2, <3>3, <3>4, WrittenIs
    <2> QED BY <2>1, <2>2
  <1>8. ASSUME NEW v \in Written(c), NEW w \in Written(c), v.id = w.id
        PROVE  v = w
    <2>1. c # p
      BY <1>1, ConfirmationAssumption
    <2>2. CASE v.id[1] = p
      <3>1. \A z \in Written(c) :
                z.id[1] = p => \E r \in rows[p] : z.id = r.id /\ z = Corrected(r, lines)
        BY <1>4, <1>5, <2>1, WrittenIs
      <3> QED BY <1>2, <1>8, <2>2, <3>1
    <2>3. CASE v.id[1] = c
      <3>1. \A z \in Written(c) :
                z.id[1] = c => \E l \in lines : z.id = <<c, l.label>> /\ z = New(c, l)
        BY <1>2, <1>4, <1>5, <2>1, WrittenIs
      <3>2. PICK l \in lines : v.id = <<c, l.label>> /\ v = New(c, l)
        BY <2>3, <3>1
      <3>3. PICK m \in lines : w.id = <<c, m.label>> /\ w = New(c, m)
        BY <1>8, <2>3, <3>1
      <3>4. l.label = m.label
        <4>1. <<c, l.label>> = <<c, m.label>>
          BY <1>8, <3>2, <3>3
        <4> QED BY <4>1
      <3>5. l = m
        BY <1>1, <3>4, LinesAreDistinct
      <3> QED BY <3>2, <3>3, <3>5
    <2> QED BY <1>6, <2>2, <2>3
  <1> QED BY <1>6, <1>7, <1>8

LEMMA PublishKeepsRows ==
    ASSUME CatalogInvariant, RowsInvariant, Advances, NEW c \in Calls, Publish(c)
    PROVE  RowsInvariant'
  <1> DEFINE p == call[c].product
             lines == call[c].lines
  <1>1. /\ p \in Products /\ lines \in Submission /\ lines # {} /\ call[c] \in CallRecord
    BY PublishKnows
  <1>2. /\ status' = [status EXCEPT ![p] = "published"]
        /\ stamp' = [stamp EXCEPT ![p] = Vouches(lines)]
        /\ rows' = [rows EXCEPT ![p] = Written(c)]
        /\ UNCHANGED <<record, sold>>
        /\ call'[c].pc = "read_back" /\ call'[c].product = p
    BY <1>1 DEF Publish, CatalogInvariant, TypeOK, CallRecord
  <1>3. \A q \in Products : q # p => /\ status'[q] = status[q] /\ rows'[q] = rows[q]
                                     /\ stamp'[q] = stamp[q] /\ record'[q] = record[q]
    BY <1>2 DEF CatalogInvariant, TypeOK
  <1>4. status'[p] = "published" /\ rows'[p] = Written(c) /\ stamp'[p] = Vouches(lines)
    BY <1>1, <1>2 DEF CatalogInvariant, TypeOK
  <1>5. ASSUME NEW q \in Products, q = p PROVE Vouched(q)'
    <2>1. Offered(q)' = {Original(w) : w \in Written(c)}
      BY <1>2, <1>4, <1>5 DEF Offered, Original
    <2>2. Vouches(lines) = {Offer1(l) : l \in lines}
      BY DEF Vouches, Offer1
    <2>3. Offered(q)' = Vouches(lines)
      BY <2>1, <2>2, WrittenOffers
    <2>4. Vouches(lines) # NoStamp
      BY <1>1, <2>2 DEF NoStamp
    <2>5. \A v, w \in rows'[q] : v.id = w.id => v = w
      BY <1>4, <1>5, WrittenOffers
    <2>6. Offered(q)' = stamp'[q] /\ stamp'[q] # NoStamp
      BY <1>4, <1>5, <2>3, <2>4
    <2> QED BY <2>5, <2>6 DEF Vouched
  <1>6. ASSUME NEW q \in Products
        PROVE  (Owned(q) /\ Untouched(q) /\ (~Known(q) => rows[q] = {}) /\ Vouched(q))'
    <2>1. CASE q = p
      BY <1>2, <1>4, <1>5, <2>1, WrittenOffers
         DEF Owned, Untouched, Settled, Known, Committed
    <2>2. CASE q # p
      <3>1. Vouched(q)
        BY DEF RowsInvariant, RowsAreVouchedFor, Vouched
      <3> QED BY <1>2, <1>3, <2>2, <3>1, StaysVouched, StaysOwned
              DEF RowsInvariant, Untouched, Known, Settled
    <2> QED BY <2>1, <2>2
  <1>7. ASSUME NEW d \in Calls PROVE Fresh(d)'
    BY <1>2 DEF RowsInvariant, Fresh, Advances
  <1> QED BY <1>6, <1>7 DEF RowsInvariant, RowsAreVouchedFor, Vouched

-----------------------------------------------------------------------------
(********************************* a sale **********************************)

LEMMA SellKeepsRows ==
    ASSUME CatalogInvariant, RowsInvariant, Advances, NEW p \in Products, Sell(p)
    PROVE  RowsInvariant'
  <1>1. PICK r \in rows[p] :
            /\ Gate(record[p]) = "published" \/ stamp[p] # NoStamp
            /\ InStock(r)
            /\ rows' = [rows EXCEPT ![p] = (@ \ {r}) \cup {[r EXCEPT !.stock = @ - 1]}]
            /\ sold' = [sold EXCEPT ![r.id] = @ + 1]
    BY DEF Sell
  <1>2. UNCHANGED <<status, record, stamp, call>>
    BY DEF Sell
  <1> DEFINE sale == [r EXCEPT !.stock = @ - 1]
  <1>3. /\ rows[p] \in SUBSET Row /\ r \in Row /\ r.id \in Id
        /\ r.stock \in Nat /\ r.stock > 0 /\ sold[r.id] \in Nat
    BY <1>1 DEF CatalogInvariant, TypeOK, Row, InStock
  <1>4. /\ sale.id = r.id /\ sale.label = r.label /\ sale.price = r.price
        /\ sale.stock = r.stock - 1
    BY <1>3 DEF Row
  <1>5. rows' = [rows EXCEPT ![p] = (rows[p] \ {r}) \cup {sale}]
    BY <1>1 DEF CatalogInvariant, TypeOK
  <1> HIDE DEF sale
  <1>6. /\ rows'[p] = (rows[p] \ {r}) \cup {sale}
        /\ \A q \in Products : q # p => rows'[q] = rows[q]
    BY <1>5 DEF CatalogInvariant, TypeOK
  <1>7. /\ sold'[r.id] = sold[r.id] + 1
        /\ \A i \in Id : i # r.id => sold'[i] = sold[i]
    BY <1>1, <1>3 DEF CatalogInvariant, TypeOK
  <1>8. Settled(p) /\ Known(p)
    <2>1. Known(p)
      BY <1>1 DEF RowsInvariant
    <2>2. status[p] # "needs_confirmation"
      BY <1>1, <2>1 DEF CatalogInvariant, HoldsSayWhy, Gate
    <2> QED BY <2>1, <2>2 DEF Known, Settled, CatalogInvariant, TypeOK
  <1>9. \/ r.id[1] = p
        \/ /\ r.id[1] \in Calls /\ call[r.id[1]].product = p
           /\ call[r.id[1]].pc \in Committed
    BY <1>1 DEF RowsInvariant, Owned
  <1>10. Vouched(p)'
    <2>1. \A s \in rows[p] : s # r => s.id # r.id /\ s.id \in Id
      BY <1>3, <1>8 DEF RowsInvariant, RowsAreVouchedFor, Row
    <2> DEFINE After(s) ==
                   [label |-> s.label, price |-> s.price,
                    stock |-> IF s.stock = Null THEN Null ELSE s.stock + sold'[s.id]]
    <2>2. \A s \in rows[p] : s # r => After(s) = Original(s)
      BY <1>7, <2>1 DEF Original
    <2>3. Original(r) = [label |-> r.label, price |-> r.price, stock |-> r.stock + sold[r.id]]
      BY <1>3, IngestionAssumption DEF Original
    <2>4. After(sale) = Original(r)
      BY <1>3, <1>4, <1>7, <2>3, IngestionAssumption
    <2>5. Offered(p)' = {After(s) : s \in rows'[p]}
      BY DEF Offered
    <2> HIDE DEF After
    <2>6. Offered(p)' = {Original(s) : s \in rows[p]}
      BY <1>6, <2>2, <2>4, <2>5
    <2>7. Offered(p)' = Offered(p)
      BY <2>6 DEF Offered, Original
    <2>8. \A s, t \in rows'[p] : s.id = t.id => s = t
      BY <1>4, <1>6, <1>8, <2>1 DEF RowsInvariant, RowsAreVouchedFor
    <2> QED BY <1>2, <1>8, <2>7, <2>8 DEF RowsInvariant, RowsAreVouchedFor, Vouched, Known
  <1>11. ASSUME NEW q \in Products
         PROVE  (Owned(q) /\ Untouched(q) /\ (~Known(q) => rows[q] = {}) /\ Vouched(q))'
    <2>1. CASE q = p
      <3>1. Owned(p)'
        BY <1>2, <1>4, <1>6, <1>9 DEF RowsInvariant, Owned
      <3> QED BY <1>2, <1>8, <1>10, <2>1, <3>1 DEF Untouched, Settled, Known
    <2>2. CASE q # p
      <3>1. \A s \in rows[q] : s.id # r.id /\ s.id \in Id
        BY <1>9, <2>2, ConfirmationAssumption
           DEF RowsInvariant, Owned, CatalogInvariant, TypeOK, Row
      <3>2. \A l \in Labels \cup {Null} : <<q, l>> \in Id /\ <<q, l>> # r.id
        BY <1>9, <2>2, ConfirmationAssumption DEF Id
      <3>3. Vouched(q)
        BY DEF RowsInvariant, RowsAreVouchedFor, Vouched
      <3> QED BY <1>2, <1>6, <1>7, <2>2, <3>1, <3>2, <3>3, StaysVouched, StaysOwned
              DEF RowsInvariant, Untouched, Known, Settled
    <2> QED BY <2>1, <2>2
  <1>12. ASSUME NEW c \in Calls PROVE Fresh(c)'
    <2>1. SUFFICES ASSUME call[c].pc \notin Committed, NEW l \in Labels \cup {Null}
                   PROVE  sold'[<<c, l>>] = 0
      BY <1>2 DEF Fresh
    <2>2. <<c, l>> \in Id /\ <<c, l>> # r.id
      BY <1>9, <2>1, ConfirmationAssumption DEF Id
    <2> QED BY <1>7, <2>1, <2>2 DEF RowsInvariant, Fresh
  <1> QED BY <1>11, <1>12 DEF RowsInvariant, RowsAreVouchedFor, Vouched

-----------------------------------------------------------------------------
LEMMA StepKeepsRows ==
    ASSUME CatalogInvariant, RowsInvariant, [Next]_vars
    PROVE  RowsInvariant'
  <1>1. Advances
    BY StepAdvances
  <1>2. CASE Next
    <2>1. ASSUME NEW p \in Products, NEW x \in Extractions, Ingest(p, x)
          PROVE  RowsInvariant'
      BY <1>1, <2>1, IngestKeepsRows
    <2>2. ASSUME NEW p \in Products, NEW c \in Calls, NEW form \in Forms, PostForm(c, p, form)
          PROVE  RowsInvariant'
      BY <1>1, <2>2, CatalogStays DEF PostForm
    <2>3. ASSUME NEW p \in Products, NEW c \in Calls, NEW edits \in Edits, AskChat(c, p, edits)
          PROVE  RowsInvariant'
      BY <1>1, <2>3, CatalogStays DEF AskChat
    <2>4. ASSUME NEW p \in Products, Archive(p) \/ Sell(p)
          PROVE  RowsInvariant'
      BY <1>1, <2>4, ArchiveKeepsRows, SellKeepsRows
    <2>5. ASSUME NEW c \in Calls, CallStep(c)
          PROVE  RowsInvariant'
      <3>1. CASE Publish(c)
        BY <1>1, <3>1, PublishKeepsRows
      <3>2. CASE ~Publish(c)
        <4>1. UNCHANGED catalogVars
          BY <2>5, <3>2 DEF CallStep, LayOverlay, ReadProduct, ReadRows, LockRow, WritesDone,
                            DeadlockDetected, LoseConfirmation, ReadBack
        <4> QED BY <1>1, <4>1, CatalogStays
      <3> QED BY <3>1, <3>2
    <2>6. CASE Crash
      BY <1>1, <2>6, CatalogStays DEF Crash
    <2> QED BY <1>2, <2>1, <2>2, <2>3, <2>4, <2>5, <2>6 DEF Next
  <1>3. CASE UNCHANGED vars
    BY <1>1, <1>3, CatalogStays DEF vars
  <1> QED BY <1>2, <1>3

(* However confirmations, restarts and sales interleave, the Variants of a *)
(* Product are those of its extraction or of one confirmation as a whole,  *)
(* less what was sold of each.                                             *)
THEOREM RowsVouched == Spec => []RowsAreVouchedFor
  <1>1. CatalogInvariant /\ CatalogInvariant' /\ RowsInvariant /\ [Next]_vars => RowsInvariant'
    BY StepKeepsRows
  <1>2. RowsInvariant => RowsAreVouchedFor
    BY DEF RowsInvariant
  <1> QED BY <1>1, <1>2, InitRows, CatalogInvariance, PTL DEF Spec

=============================================================================
