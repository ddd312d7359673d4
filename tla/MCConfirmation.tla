--------------------------- MODULE MCConfirmation ---------------------------
(***************************************************************************)
(* Instances of Confirmation for TLC: what the extraction model answers,   *)
(* what the merchant posts and says.                                       *)
(***************************************************************************)
EXTENDS Confirmation, TLC

CONSTANTS p1, m, uk10, uk10b, blank

\* "UK 10" and "UK10": two names, one stock key.
Names == [l \in Labels |-> CASE l = m -> "m" [] l = uk10 -> "uk 10" [] l = uk10b -> "uk10"
                             [] OTHER -> ""]
Keys == [l \in Labels |-> CASE l = m -> "m" [] l \in {uk10, uk10b} -> "uk10" [] OTHER -> ""]

Certain(v) == [value |-> v, confidence |-> 2]
Doubtful(v) == [value |-> v, confidence |-> 1]
Absent == [value |-> Null, confidence |-> 0]

Stated(l, n) == [label |-> l, count |-> n]

\* One sure product without sizes, and what a caption may leave open.
Plain == [name |-> Certain("text"), description |-> Certain("text"), price |-> Certain(1),
          stock |-> Certain(1), labels |-> Certain(<<>>), counts |-> Certain(<<>>)]
Unstated == [Plain EXCEPT !.stock = Absent]
Sized == [Plain EXCEPT !.stock = Absent, !.labels = Certain(<<m, blank, uk10, m>>),
                       !.counts = Certain(<<Stated(m, 1), Stated(uk10b, 1)>>)]
Total == [Plain EXCEPT !.labels = Certain(<<m, uk10>>)]

Doubted == [Sized EXCEPT !.name = Doubtful("text")]

Negative == [Plain EXCEPT !.stock = Certain(0 - 1)]
Unpriced == [Plain EXCEPT !.price = Absent]
Guessed == [Sized EXCEPT !.counts.confidence = 1]

\* What publishes itself, and what is held for one reason each.
Captions == {Plain, Negative, Sized, Unstated, Unpriced, Total, Doubted, Guessed}
OneTotal == {Total}

Row1(i, l, n) == [id |-> i, label |-> l, price |-> 1, stock |-> n]

\* The web screen: both rows answered, one dropped, one replaced, and a form
\* that names two labels of one key.
WebForms == {{Row1(<<p1, m>>, m, 1), Row1(<<p1, uk10>>, uk10, 1)},
             {Row1(<<p1, m>>, m, 1)},
             {Row1(<<p1, uk10>>, uk10, 0), Row1(Null, m, 1)},
             {Row1(<<p1, uk10>>, uk10, 1), Row1(Null, uk10b, 1)}}

\* The chat: nothing more, one row corrected, a stock for each of two rows or
\* for the only one.
Say(i, n) == [id |-> i, label |-> Null, price |-> Null, stock |-> n]
ChatEdits == {{}, {[Say(<<p1, m>>, 0) EXCEPT !.price = 1]},
              {Say(<<p1, m>>, 0), Say(<<p1, uk10>>, 1)},
              {Say(<<p1, Null>>, 1)}}
Nothing == {}
=============================================================================
