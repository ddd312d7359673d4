------------------------------ MODULE Ingestion ------------------------------
(***************************************************************************)
(* The pure rules between an extraction and the catalog: what a caption's  *)
(* extraction becomes (src/ingestion/pipeline.ts), what a merchant's       *)
(* answer must look like to publish (normalizeSubmission), and how a chat  *)
(* answer is laid over the stored rows (overlayConfirmation).              *)
(*                                                                         *)
(* A label is a raw string; NormalName is what normalizeName makes of it   *)
(* and StockKey the same without spaces.  A submission is the set of its   *)
(* lines: two lines alike in everything are one.                           *)
(***************************************************************************)
EXTENDS Integers, Sequences, FiniteSets

CONSTANTS
    Labels,      \* labels as written in captions and answers
    Blank,       \* the ones that are empty when trimmed
    NormalName,  \* normalizeName
    StockKey,    \* stockKey: normalizeName without spaces
    Threshold,   \* AUTO_PUBLISH_THRESHOLD
    Sure,        \* the highest confidence a model reports
    Null

ASSUME IngestionAssumption ==
    /\ Blank \subseteq Labels
    /\ DOMAIN NormalName = Labels /\ DOMAIN StockKey = Labels
    /\ \A l, m \in Labels : NormalName[l] = NormalName[m] => StockKey[l] = StockKey[m]
    /\ Sure \in Nat /\ Threshold \in 1..Sure
    /\ Null \notin Labels /\ Null \notin Int

\* One extracted field: a null value never carries confidence.
Field(values) ==
    {f \in [value : values \cup {Null}, confidence : 0..Sure] : f.value = Null => f.confidence = 0}

\* variantLabels and variantStock are lists, empty when nothing is stated.  Only
\* the counts of Variants are checked for their sign.
Extraction ==
    [name : Field({"text"}), description : Field({"text"}), price : Field(Nat), stock : Field(Int),
     labels : [value : Seq(Labels), confidence : 0..Sure],
     counts : [value : Seq([label : Labels, count : Nat]), confidence : 0..Sure]]

\* A Variant as offered to buyers: what of a row a merchant vouches for.
Offer == [label : Labels \cup {Null}, price : Nat \cup {Null}, stock : Int \cup {Null}]

-----------------------------------------------------------------------------
(******************************* pipeline.ts *******************************)

Unsure(field) == field.confidence < Threshold

\* requireConfident: absent and under-confident fields are both held.
NeedsAnswer(field) == field.value = Null \/ Unsure(field)

\* dedupeLabels keeps the first label of each normalised name.
Kept(labels) ==
    {labels[i] : i \in {j \in DOMAIN labels :
        /\ labels[j] \notin Blank
        /\ \A k \in 1..j - 1 :
               labels[k] \notin Blank => NormalName[labels[k]] # NormalName[labels[j]]}}

\* counts is folded into a map by stock key: the last entry of a key stays.
LastStated(counts, label, i) ==
    /\ StockKey[counts[i].label] = StockKey[label]
    /\ \A j \in i + 1..Len(counts) : StockKey[counts[j].label] # StockKey[label]

CountFor(counts, label) ==
    IF \E i \in DOMAIN counts : LastStated(counts, label, i)
    THEN counts[CHOOSE i \in DOMAIN counts : LastStated(counts, label, i)].count
    ELSE Null

Variants(x) ==
    IF Kept(x.labels.value) = {}
    THEN {[label |-> Null, price |-> x.price.value, stock |-> x.stock.value]}
    ELSE {[label |-> l, price |-> x.price.value, stock |-> CountFor(x.counts.value, l)] :
              l \in Kept(x.labels.value)}

\* Mutant of Holds: a total is taken for the stock of every stated Variant.
BrokenHolds(x) ==
    {f \in {"name", "description", "price"} : NeedsAnswer(x[f])}
      \cup {f \in {"labels"} : Unsure(x.labels)}
      \cup {f \in {"counts"} : x.counts.value # <<>> /\ Unsure(x.counts)}
      \cup {f \in {"stock"} : NeedsAnswer(x.stock) /\ \E v \in Variants(x) : v.stock = Null}

\* The fields the merchant is asked for.
Holds(x) ==
    {f \in {"name", "description", "price"} : NeedsAnswer(x[f])}
      \cup {f \in {"labels"} : Unsure(x.labels)}
      \cup {f \in {"counts"} : x.counts.value # <<>> /\ Unsure(x.counts)}
      \cup {f \in {"stock"} : \/ x.stock.value # Null /\ Unsure(x.stock)
                              \/ \E v \in Variants(x) : v.stock = Null}

\* Mutant of Gate: the confidence of every field, and nothing about stock.
BrokenGate(x) ==
    IF Holds(x) \ {"stock"} = {} THEN "published" ELSE "needs_confirmation"

Gate(x) ==
    IF Holds(x) = {} /\ \A v \in Variants(x) : v.price # Null /\ v.stock # Null
    THEN "published" ELSE "needs_confirmation"

-----------------------------------------------------------------------------
(**************************** confirmation.ts ******************************)

\* normalizeSubmission: every line priced and counted, labels and ids distinct.
Normalizes(lines) ==
    /\ lines # {}
    /\ \A l \in lines : l.price > 0 /\ l.stock >= 0 /\ l.label \notin Blank
    /\ \A l \in lines : l.label = Null => lines = {l}
    /\ \A l, m \in lines :
           /\ l.label # Null /\ m.label # Null /\ StockKey[l.label] = StockKey[m.label] => l = m
           /\ l.id # Null /\ l.id = m.id => l = m

Vouches(lines) == {[label |-> l.label, price |-> l.price, stock |-> l.stock] : l \in lines}

-----------------------------------------------------------------------------
(**************************** merchantServer.ts ****************************)

Or(edits, field, stored) ==
    IF \E e \in edits : e[field] # Null THEN (CHOOSE e \in edits : e[field] # Null)[field] ELSE stored

\* Mutant of Overlay: what the chat did not mention is left out.
BrokenOverlay(stored, edits) == edits

\* Stored rows with what the chat corrected, and the new ones it named.
Overlay(stored, edits) ==
    {[id |-> r.id, label |-> r.label,
      price |-> Or({e \in edits : e.id = r.id}, "price", r.price),
      stock |-> Or({e \in edits : e.id = r.id}, "stock", r.stock)] : r \in stored}
      \cup {e \in edits : e.id = Null}

Overlays(stored, edits) ==
    /\ \A e \in edits : e.id = Null \/ \E r \in stored : r.id = e.id
    /\ \A e, f \in edits : e.id # Null /\ e.id = f.id => e = f
    /\ \A e \in edits : e.id = Null => e.label # Null
    /\ \A l \in Overlay(stored, edits) : l.price # Null /\ l.stock # Null
=============================================================================
