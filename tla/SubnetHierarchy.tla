-------------------------- MODULE SubnetHierarchy --------------------------
(***************************************************************************)
(* Subnet ids and the classification of cross messages.                    *)
(*                                                                         *)
(* A SubnetID is the path of names from the root to the subnet, written    *)
(* as a sequence (root first); "/root/a/b" is <<root, a, b>>.  The         *)
(* operators on ids (common_parent, down, parent) live in ipc_sdk, outside *)
(* this repository, and are written here from their description: the      *)
(* longest shared prefix, and the next hop toward a descendant.  The       *)
(* classification of a cross message (is_bottomup, hc_type, apply_type in  *)
(* src/src/cross.rs) is written from the code.                             *)
(***************************************************************************)
EXTENDS Naturals, Sequences, SequencesExt

CONSTANT NoSubnet   \* None, for an id with no parent or no next hop

\* SubnetID::common_parent walks the two paths component by component and
\* stops at the first difference: the number of shared components (the
\* index it returns) ...
RECURSIVE CommonPrefixLen(_, _)
CommonPrefixLen(a, b) ==
  IF a = <<>> \/ b = <<>> \/ Head(a) /= Head(b) THEN 0
  ELSE 1 + CommonPrefixLen(Tail(a), Tail(b))

\* ... and the subnet they share (None, written <<>>, when nothing is shared).
CommonParent(a, b) == SubSeq(a, 1, CommonPrefixLen(a, b))

\* SubnetID::parent
Parent(s) == IF Len(s) <= 1 THEN NoSubnet ELSE SubSeq(s, 1, Len(s) - 1)

\* SubnetID::down: from curr, the next subnet on the way to `to`.
Down(to, curr) ==
  IF Len(to) <= Len(curr) THEN NoSubnet
  ELSE SubSeq(to, 1, CommonPrefixLen(to, curr) + 1)

\* is_bottomup: the message starts strictly below the subnet it shares
\* with its destination, so it first travels up.
IsBottomUp(from, to) ==
  LET index == CommonPrefixLen(from, to) IN
  index > 0 /\ Len(from) > index

\* StorableMsg::hc_type: the direction of the whole route.
HcType(from, to) == IF IsBottomUp(from, to) THEN "BottomUp" ELSE "TopDown"

\* Fault: the direction of the whole route is used at every hop.
ApplyTypeRouteOnly(from, to, curr) == HcType(from, to)

\* StorableMsg::apply_type at subnet curr: bottom-up while curr is on the
\* upward leg (it shares with the destination exactly what the source
\* shares), top-down once the message is on its way down.
ApplyType(from, to, curr) ==
  IF /\ CommonParent(curr, to) = CommonParent(from, to)
     /\ HcType(from, to) = "BottomUp"
  THEN "BottomUp" ELSE "TopDown"

=============================================================================
