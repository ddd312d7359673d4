---------------------------- MODULE MCSubmission ----------------------------
(***************************************************************************)
(* Instances of Submission for TLC: who submits what, what the carts hold, *)
(* and which limits they meet.                                             *)
(***************************************************************************)
EXTENDS Submission, TLC

CONSTANTS a1, a2, k1, k2, cartA, cartB, cartC, cartD, i1, i2, i3, v1, v2

Asks(agents, keys, carts, signatures) ==
    [agent : agents, key : keys, cart : carts, signature : signatures]

\* a1 is custodial: cartA and cartB are two carts of one Intent, cartC is
\* another Intent's, and any two of them together exceed a Cap of 2.
RivalRequests == Asks({a1}, {k1, k2}, {cartA, cartC}, {"none"}) \cup Asks({a1}, {k2}, {cartB}, {"none"})
BasketRequests == Asks({a1}, {k1, k2}, {cartA, cartB}, {"none"})
RetryRequests == Asks({a1}, {k1}, {cartA}, {"none"})

\* a2, whose signing key is its own, buys cartD with the same idempotency key
\* as a1, forges, and reaches for a cart that is not its.
CustodyRequests == RivalRequests
                     \cup Asks({a1}, {k1}, {cartA}, {"valid"})
                     \cup Asks({a2}, {k1}, {cartD}, {"valid", "forged"})
                     \cup Asks({a2}, {k1}, {cartA}, {"valid"})

Owners == [k \in Carts |-> IF k = cartD THEN a2 ELSE a1]
IntentsOfCarts == [k \in Carts |-> CASE k = cartC -> i2 [] k = cartD -> i3 [] OTHER -> i1]
FirstCustodial == [a \in Agents |-> a = a1]

Item(v, n, p) == [variant |-> v, quantity |-> n, price |-> p]

\* cartA: one unit of v1; cartB: two lines; cartC and cartD: two units of v1.
CartItems ==
    [k \in Carts |-> CASE k = cartA -> <<Item(v1, 1, 1)>>
                       [] k = cartB -> <<Item(v1, 1, 1), Item(v2, 1, 1)>>
                       [] OTHER -> <<Item(v1, 2, 1)>>]

\* cartB is over the Budget of its Intent; cartA and cartC fit theirs.
Budgets == [i \in Intents |-> IF i = i1 THEN 1 ELSE 2]
Generous == [i \in Intents |-> 9]

TightCap == [a \in Agents |-> 2]
WideCap == [a \in Agents |-> 9]

Catalog == [v \in Variants |-> [price |-> 1, stock |-> IF v = v1 THEN 2 ELSE 1,
                                published |-> TRUE]]
OnePrice == {1}
TwoPrices == {1, 2}

Symmetry == Permutations(Calls)
=============================================================================
