--------------------------- MODULE MC_CronVoting ---------------------------
(* Model-checking instance of CronVoting: validators and checkpoint hashes  *)
(* are model values, validator sets are given as weight functions.          *)
EXTENDS CronVoting

CONSTANTS a1, a2, a3, a4, h1, h2

\* Four validators of weight one: the threshold is 2, consensus needs three
\* equal votes, and a 2-2 split aborts the round.
UnitFour == [a \in {a1, a2, a3, a4} |-> 1]

\* The same validators, then a4 leaves: a membership change mid-round.
ThreeOfFour == [a \in {a1, a2, a3} |-> 1]

MembershipsShrink == {UnitFour, ThreeOfFour}

MembershipsUnitFour == {UnitFour}

\* a4 leaves in MembershipsShrink; the other three stay interchangeable.
SymmShrink == Permutations({a1, a2, a3}) \cup Permutations({h1, h2})

Symm == Permutations({a1, a2, a3, a4}) \cup Permutations({h1, h2})
=============================================================================
