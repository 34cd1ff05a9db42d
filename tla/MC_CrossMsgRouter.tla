------------------------- MODULE MC_CrossMsgRouter -------------------------
(***************************************************************************)
(* The router of subnet /r/a, with parent /r, children /r/a/b and /r/a/c,  *)
(* and /r/d a sibling: every direction of route passes through /r/a.       *)
(***************************************************************************)
EXTENDS CrossMsgRouter, TLC

CONSTANTS r, a, b, c, d, u, act, burnt

R == <<r>>
S == <<r, a>>
B == <<r, a, b>>
C == <<r, a, c>>
D == <<r, d>>

SubnetsMC == {R, S, B, C, D}
ChildrenMC == {B, C}

SendersMC == {B}


=============================================================================
