---------------------------- MODULE MCMandateFlow ----------------------------
(***************************************************************************)
(* Instances of MandateFlow for TLC: who declares what with which          *)
(* signature, and what goes into a basket.                                 *)
(***************************************************************************)
EXTENDS MandateFlow, TLC

CONSTANTS a1, a2, k1, s1, s2, v1, v2, tee

FirstPrefers == [s \in Seeds |-> IF s = s1 THEN "env" ELSE Null]

AllAtOne == [v \in Variants |-> [price |-> 1, published |-> TRUE]]

Entering == {[agent |-> a1, publicKey |-> Null, cap |-> 3], [agent |-> a2, publicKey |-> k1, cap |-> 3]}

Wanted(a, b, t) == [agent |-> a, want |-> tee, budget |-> b, createdAt |-> t]

Declared(a, b, t, signature) ==
    [agent |-> a, want |-> tee, budget |-> b, createdAt |-> t, signature |-> signature]

\* a custodial declaration, one that is over an integer column, a signed one,
\* and one with a signature over another budget.
Declaring == {Declared(a1, 1, Null, Null), Declared(a1, 4, Null, Null),
              Declared(a2, 2, 0, Sign(k1, Wanted(a2, 2, 0))),
              Declared(a2, 2, 0, Sign(k1, Wanted(a2, 1, 0)))}

Item(v, n) == [variant |-> v, quantity |-> n]

\* Two lines and one line whose total is over an integer column at price 2.
Basketfuls == {<<Item(v1, 1), Item(v2, 1)>>, <<Item(v1, 2)>>}

Symmetry == Permutations(Calls)
=============================================================================
