---------------------------- MODULE Confirmation ----------------------------
(***************************************************************************)
(* The catalog's lifecycle: ingestion puts a Product in as published or    *)
(* held, a merchant confirms a held one from the web screen (complete      *)
(* final state) or from chat (an overlay on the stored rows), an operator  *)
(* archives, buyers' Orders take stock.  Confirmations run concurrently;   *)
(* each is one transaction of several statements under READ COMMITTED,     *)
(* modelled statement by statement with the row locks its writes take.     *)
(***************************************************************************)
EXTENDS Ingestion

CONSTANTS
    Products,
    Calls,          \* confirmations, each made once
    Extractions,    \* what the extraction model may answer
    Forms,          \* final states the web screen may post
    Edits,          \* answers the chat may carry
    MaxCrashes,
    NoRecord        \* products.extraction of a Product not there yet

\* A row's id says who inserted it: ingestion for the Product, or a call.
Id == (Products \cup Calls) \X (Labels \cup {Null})

\* A line of a submission or of a chat answer.
Line == [id : Id \cup {Null}, label : Labels \cup {Null}, price : Int \cup {Null},
         stock : Int \cup {Null}]

ASSUME ConfirmationAssumption ==
    /\ Extractions \subseteq Extraction
    /\ Edits \subseteq SUBSET Line
    /\ Forms \subseteq {f \in SUBSET Line : \A l \in f : l.price # Null /\ l.stock # Null}
    /\ MaxCrashes \in Nat
    /\ Products \cap Calls = {}
    /\ NoRecord \notin Extraction
    /\ Null \notin Id

VARIABLES
    status,   \* products.status
    record,   \* products.extraction: what was extracted
    stamp,    \* products.extraction.confirmation: what the merchant answered
    rows,     \* variants of each Product
    sold,     \* units buyers took of each row
    call,     \* the running confirmations
    crashes

catalogVars == <<status, record, stamp, rows, sold>>
vars == <<catalogVars, call, crashes>>

Row == [id : Id, label : Labels \cup {Null}, price : Nat \cup {Null}, stock : Int \cup {Null}]

Ended == {"idle", "answered", "dropped"}

CallPc == Ended \cup {"overlay", "product", "rows", "write", "publish", "read_back"}

Answers == {"none", "confirmed", "not_found", "not_confirmable", "invalid", "error"}

\* An extraction record without a confirmation: every confirmation has a line.
NoStamp == {}

Ids(set) == {r.id : r \in set}

\* lines: the chat's edits, then the submission; drop: rows to delete; held: locks.
Idle == [pc |-> "idle", product |-> Null, chat |-> FALSE, lines |-> {}, drop |-> {}, held |-> {},
         answer |-> "none"]

Init ==
    /\ status = [p \in Products |-> "absent"]
    /\ record = [p \in Products |-> NoRecord]
    /\ stamp = [p \in Products |-> NoStamp]
    /\ rows = [p \in Products |-> {}]
    /\ sold = [i \in Id |-> 0]
    /\ call = [c \in Calls |-> Idle]
    /\ crashes = 0

At(c, pc) == call[c].pc = pc

\* Mutant of EndWith: the connection goes back with its transaction open.
BrokenEndWith(c, answer) ==
    call' = [call EXCEPT ![c].pc = "answered", ![c].answer = answer]

\* The transaction is over, its locks with it.
EndWith(c, answer) ==
    call' = [call EXCEPT ![c].pc = "answered", ![c].answer = answer, ![c].held = {}]

-----------------------------------------------------------------------------
(******************************* ingest.ts *********************************)

\* Mutant of Known: a re-run of the ingestion starts over.
BrokenKnown(p) == FALSE

Known(p) == status[p] # "absent"

\* persistAssembledProduct: a Product lands whole, or is there already and
\* left untouched.
Ingest(p, x) ==
    /\ IF Known(p)
       THEN UNCHANGED catalogVars
       ELSE /\ status' = [status EXCEPT ![p] = Gate(x)]
            /\ record' = [record EXCEPT ![p] = x]
            /\ stamp' = [stamp EXCEPT ![p] = NoStamp]
            /\ rows' = [rows EXCEPT ![p] =
                   {[id |-> <<p, v.label>>, label |-> v.label, price |-> v.price,
                     stock |-> v.stock] : v \in Variants(x)}]
            /\ UNCHANGED sold
    /\ UNCHANGED <<call, crashes>>

-----------------------------------------------------------------------------
(************************** the merchant's faces ***************************)

\* POST /merchant/confirmations/:productId, up to normalizeSubmission.
PostForm(c, p, form) ==
    /\ At(c, "idle")
    /\ IF Normalizes(form)
       THEN call' = [call EXCEPT ![c] = [Idle EXCEPT !.pc = "product", !.product = p, !.lines = form]]
       ELSE EndWith(c, "invalid")
    /\ UNCHANGED <<catalogVars, crashes>>

\* The chat tool confirm_product: the answer arrives ...
AskChat(c, p, edits) ==
    /\ At(c, "idle")
    /\ call' = [call EXCEPT ![c] = [Idle EXCEPT !.pc = "overlay", !.product = p, !.chat = TRUE,
                                                !.lines = edits]]
    /\ UNCHANGED <<catalogVars, crashes>>

\* ... and is laid over the rows stored then, outside the transaction.
LayOverlay(c) ==
    LET stored == rows[call[c].product]
        edits == call[c].lines
    IN  /\ At(c, "overlay")
        /\ IF ~Known(call[c].product)
           THEN EndWith(c, "not_found")
           ELSE IF Overlays(stored, edits) /\ Normalizes(Overlay(stored, edits))
           THEN call' = [call EXCEPT ![c].pc = "product", ![c].lines = Overlay(stored, edits)]
           ELSE EndWith(c, "invalid")
        /\ UNCHANGED <<catalogVars, crashes>>

-----------------------------------------------------------------------------
(**************************** confirmProduct *******************************)

ReadProduct(c) ==
    LET p == call[c].product
    IN  /\ At(c, "product")
        /\ IF status[p] = "needs_confirmation"
           THEN call' = [call EXCEPT ![c].pc = "rows"]
           ELSE EndWith(c, IF Known(p) THEN "not_confirmable" ELSE "not_found")
        /\ UNCHANGED <<catalogVars, crashes>>

\* The rows there now, which may be newer than the status read before them.
ReadRows(c) ==
    LET existing == Ids(rows[call[c].product])
        kept == Ids(call[c].lines) \ {Null}
    IN  /\ At(c, "rows")
        /\ IF kept \subseteq existing
           THEN call' = [call EXCEPT ![c].pc = "write", ![c].drop = existing \ kept]
           ELSE EndWith(c, "invalid")
        /\ UNCHANGED <<catalogVars, crashes>>

\* The rows still to lock, the DELETE's first; a row that is gone matches nothing.
Wanted(c) ==
    LET there == Ids(rows[call[c].product]) \ call[c].held
    IN  IF ~At(c, "write") THEN {}
        ELSE IF call[c].drop \cap there # {} THEN call[c].drop \cap there
        ELSE Ids(call[c].lines) \cap there

Holder(i) == {d \in Calls : i \in call[d].held}

Waits(c, d) == c # d /\ \E i \in Wanted(c) : i \in call[d].held

\* DELETE and UPDATE lock row by row, in an order nobody fixed, and wait for
\* a row another transaction holds.
LockRow(c) ==
    /\ \E i \in Wanted(c) :
           /\ Holder(i) \subseteq {c}
           /\ call' = [call EXCEPT ![c].held = @ \cup {i}]
    /\ UNCHANGED <<catalogVars, crashes>>

WritesDone(c) ==
    /\ At(c, "write") /\ Wanted(c) = {}
    /\ call' = [call EXCEPT ![c].pc = "publish"]
    /\ UNCHANGED <<catalogVars, crashes>>

\* PostgreSQL ends one transaction of a cycle of waiting ones.
DeadlockDetected(c) ==
    /\ \E cycle \in SUBSET Calls :
           c \in cycle /\ \A d \in cycle : \E e \in cycle : Waits(d, e)
    /\ EndWith(c, "error")
    /\ UNCHANGED <<catalogVars, crashes>>

Corrected(r, lines) ==
    IF \E l \in lines : l.id = r.id
    THEN LET l == CHOOSE m \in lines : m.id = r.id
         IN  [id |-> r.id, label |-> l.label, price |-> l.price, stock |-> l.stock]
    ELSE r

\* Mutant of Written: rows the merchant dropped stay.
BrokenWritten(c) ==
    {Corrected(r, call[c].lines) : r \in rows[call[c].product]}
      \cup {[id |-> <<c, l.label>>, label |-> l.label, price |-> l.price, stock |-> l.stock] :
                l \in {m \in call[c].lines : m.id = Null}}

\* The Variants once the transaction's DELETE, UPDATEs and INSERTs are in.
Written(c) ==
    {Corrected(r, call[c].lines) : r \in {s \in rows[call[c].product] : s.id \notin call[c].drop}}
      \cup {[id |-> <<c, l.label>>, label |-> l.label, price |-> l.price, stock |-> l.stock] :
                l \in {m \in call[c].lines : m.id = Null}}

\* Mutant of Publishable: no status in the WHERE clause.
BrokenPublishable(p) == TRUE

Publishable(p) == status[p] = "needs_confirmation"

\* The guarded UPDATE of the status commits the writes before it.
Publish(c) ==
    LET p == call[c].product
    IN  /\ At(c, "publish") /\ Publishable(p)
        /\ status' = [status EXCEPT ![p] = "published"]
        /\ stamp' = [stamp EXCEPT ![p] = Vouches(call[c].lines)]
        /\ rows' = [rows EXCEPT ![p] = Written(c)]
        /\ call' = [call EXCEPT ![c].pc = "read_back", ![c].held = {}]
        /\ UNCHANGED <<record, sold, crashes>>

\* Zero rows updated: everything is rolled back.
LoseConfirmation(c) ==
    /\ At(c, "publish") /\ ~Publishable(call[c].product)
    /\ EndWith(c, "not_confirmable")
    /\ UNCHANGED <<catalogVars, crashes>>

\* findConfirmationProduct after the commit; not published is an exception.
ReadBack(c) ==
    /\ At(c, "read_back")
    /\ EndWith(c, IF status[call[c].product] = "published" THEN "confirmed" ELSE "error")
    /\ UNCHANGED <<catalogVars, crashes>>

-----------------------------------------------------------------------------
(********************** everybody else on the catalog **********************)

\* archiveProduct, whatever the status was.
Archive(p) ==
    /\ Known(p) /\ status[p] # "draft"
    /\ status' = [status EXCEPT ![p] = "draft"]
    /\ UNCHANGED <<record, stamp, rows, sold, call, crashes>>

\* Mutant of InStock: the decrement has no condition.
BrokenInStock(r) == r.stock # Null

InStock(r) == r.stock # Null /\ r.stock > 0

\* fulfillPaidOrder takes a unit of a Variant that was bought while published,
\* archived since or not; its UPDATE waits for a row lock too.
Sell(p) ==
    \E r \in rows[p] :
        /\ Gate(record[p]) = "published" \/ stamp[p] # NoStamp
        /\ InStock(r) /\ Holder(r.id) = {}
        /\ rows' = [rows EXCEPT ![p] = (@ \ {r}) \cup {[r EXCEPT !.stock = @ - 1]}]
        /\ sold' = [sold EXCEPT ![r.id] = @ + 1]
        /\ UNCHANGED <<status, record, stamp, call, crashes>>

\* The process restarts and PostgreSQL rolls back what it left open.
Crash ==
    /\ crashes < MaxCrashes
    /\ \E c \in Calls : call[c].pc \notin Ended
    /\ call' = [c \in Calls |-> IF call[c].pc \in Ended THEN call[c]
                                ELSE [call[c] EXCEPT !.pc = "dropped", !.held = {}]]
    /\ crashes' = crashes + 1
    /\ UNCHANGED catalogVars

-----------------------------------------------------------------------------
CallStep(c) ==
    \/ LayOverlay(c) \/ ReadProduct(c) \/ ReadRows(c) \/ LockRow(c) \/ WritesDone(c)
    \/ DeadlockDetected(c) \/ Publish(c) \/ LoseConfirmation(c) \/ ReadBack(c)

Next ==
    \/ \E p \in Products :
           \/ \E x \in Extractions : Ingest(p, x)
           \/ \E c \in Calls, form \in Forms : PostForm(c, p, form)
           \/ \E c \in Calls, edits \in Edits : AskChat(c, p, edits)
           \/ Archive(p) \/ Sell(p)
    \/ \E c \in Calls : CallStep(c)
    \/ Crash

Spec == Init /\ [][Next]_vars

\* The event loop and PostgreSQL, its deadlock detector included, keep going.
Fairness == \A c \in Calls : WF_vars(CallStep(c))

FairSpec == Spec /\ Fairness

-----------------------------------------------------------------------------
\* No sale takes a stock below zero: a negative one is what was extracted.
StockIsStated ==
    \A p \in Products : \A r \in rows[p] :
        r.stock \in Nat \cup {Null, record[p].stock.value}

(* Rows, records and calls are of their kind, and no row is oversold.      *)
TypeOK ==
    /\ status \in [Products -> {"absent", "draft", "needs_confirmation", "published"}]
    /\ record \in [Products -> Extraction \cup {NoRecord}]
    /\ stamp \in [Products -> SUBSET Offer]
    /\ rows \in [Products -> SUBSET Row]
    /\ StockIsStated
    /\ sold \in [Id -> Nat]
    /\ call \in [Calls -> [pc : CallPc, product : Products \cup {Null}, chat : BOOLEAN,
                           lines : SUBSET Line, drop : SUBSET Id,
                           held : SUBSET Id, answer : Answers]]
    /\ crashes \in 0..MaxCrashes

(* schema.ts on variants: every Variant of a published Product has a price *)
(* and a stock, and there is at least one, whichever way it was published. *)
PublishedIsComplete ==
    \A p \in Products : status[p] = "published" =>
        /\ rows[p] # {}
        /\ \A r \in rows[p] : r.price # Null /\ r.stock # Null

(* extractionRecord.ts: the holds are empty exactly when the Product       *)
(* published itself, and a confirmation is there exactly when the merchant *)
(* gave one, so a held Product always says what it is asking for.          *)
HoldsSayWhy ==
    \A p \in Products : Known(p) =>
        /\ status[p] = "needs_confirmation" => Holds(record[p]) # {} /\ stamp[p] = NoStamp
        /\ status[p] = "published" => (Holds(record[p]) = {} <=> stamp[p] = NoStamp)

Offered(p) ==
    {[label |-> r.label, price |-> r.price,
      stock |-> IF r.stock = Null THEN Null ELSE r.stock + sold[r.id]] : r \in rows[p]}

(* A Product is never half corrected: its Variants are the ones somebody   *)
(* vouched for as a whole, the extraction or one confirmation, less what   *)
(* was sold, however confirmations, restarts and sales interleave.         *)
RowsAreVouchedFor ==
    \A p \in Products : Known(p) =>
        /\ Offered(p) = IF stamp[p] = NoStamp THEN Variants(record[p]) ELSE stamp[p]
        /\ \A r, s \in rows[p] : r.id = s.id => r = s

(* A merchant told `published` reads the own answer in the catalog: no     *)
(* other confirmation overwrote it, and at most one of a Product wins.     *)
ConfirmedIsMine ==
    \A c \in Calls :
        call[c].answer = "confirmed" => stamp[call[c].product] = Vouches(call[c].lines)

(* merchantServer.ts: nothing is ever deleted from chat, whatever the rows *)
(* became between the overlay and the transaction that applies it.         *)
ChatDeletesNothing ==
    [][\A c \in Calls :
          call[c].chat /\ At(c, "publish") /\ call'[c].pc = "read_back" =>
              Ids(rows[call[c].product]) \subseteq Ids(rows'[call[c].product])]_vars

(* confirmation.ts: reshaping is safe because only a Product that was never*)
(* published is reshaped; the rows money may refer to keep their ids, and  *)
(* a re-run of the ingestion never undoes the merchant's answer.           *)
AnswerStands ==
    [][\A p \in Products :
          status[p] \in {"published", "draft"} =>
              /\ Ids(rows'[p]) = Ids(rows[p])
              /\ stamp'[p] = stamp[p] /\ record'[p] = record[p]]_vars

(* Confirmations that hold rows the others want do not wait for ever: each *)
(* is answered unless a restart drops it.                                  *)
ConfirmationsEnd ==
    \A c \in Calls : call[c].pc # "idle" ~> call[c].pc \in {"answered", "dropped"}

(* confirmProduct, after the commit: that the Product does not read back   *)
(* as published is unreachable by construction.                            *)
ReadsBackPublished ==
    \A c \in Calls : At(c, "read_back") => status[call[c].product] = "published"
=============================================================================
