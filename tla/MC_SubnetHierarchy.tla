------------------------- MODULE MC_SubnetHierarchy -------------------------
(* apply_type of cross.rs, checked against the route a message takes, on *)
(* every triple (from, to, curr) of a three-level tree of subnets; and the *)
(* ordering check of CronCheckpoint::hash, on every short message          *)
(* sequence.  The state is the triple and a sequence; it never changes, so *)
(* TLC checks each initial state.                                          *)
EXTENDS SubnetHierarchy, CronCheckpoint, FiniteSets

CONSTANTS r, a, b   \* subnet names: the root and two names below each node

\* Nonces of top-down messages, and every message sequence of length at most
\* three over them, duplicates and disorder included.
Nonces == 0..2

Cps == BoundedSeq(Nonces, 3)

Ids == {<<r>>} \cup {<<r, x>> : x \in {a, b}} \cup {<<r, x, y>> : x, y \in {a, b}}

VARIABLES from, to, curr, top_down   \* top_down: nonces of a checkpoint's messages

vars == <<from, to, curr, top_down>>

Init == from \in Ids /\ to \in Ids /\ curr \in Ids /\ top_down \in Cps

Next == UNCHANGED vars

Spec == Init /\ [][Next]_vars

\* The lowest common ancestor of the source and the destination.
Lca == LongestCommonPrefix({from, to})

\* Along the route of a message (up from its source to the common ancestor,
\* then down to its destination) apply_type says bottom-up exactly on the
\* upward leg, the common ancestor included: the switch of direction at the
\* ancestor described for commit_cross_message and propagate.
RouteDirection ==
  IF IsPrefix(curr, from) /\ ~IsPrefix(from, to) THEN "BottomUp" ELSE "TopDown"

OnRoute == IsPrefix(Lca, curr) /\ (IsPrefix(curr, from) \/ IsPrefix(curr, to))

ApplyTypeFollowsRoute ==
  OnRoute => ApplyType(from, to, curr) = RouteDirection

\* The set of messages in top_down has exactly one ordering that
\* CronCheckpoint::hash accepts, so validators that saw the same messages
\* submit the same hash and their votes add up (the comment above hash
\* requires the order for this).  A checkpoint with a duplicated message is
\* refused rather than hashed as a second checkpoint of the same set.
HashCanonical ==
  Cardinality({s \in Cps : HashAccepts(s) /\ ToSet(s) = ToSet(top_down)}) = 1

=============================================================================
