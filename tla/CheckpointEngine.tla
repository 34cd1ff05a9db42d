-------------------------- MODULE CheckpointEngine --------------------------
(***************************************************************************)
(* Child checkpoints committed to the gateway (commit_child_check) over    *)
(* the subnet registry, with time.  A child checkpoint is a record         *)
(* [source, epoch, prev, cross]; its CID is the record itself (CIDs are    *)
(* injective), so `prev` is the previous checkpoint or None.  `cross` is   *)
(* the cross-message meta it carries (None, or [value, msgs]: the value    *)
(* released and whether messages are attached).  The gateway's window     *)
(* checkpoints are modelled by their child lists, a function from window   *)
(* epoch to a function from child to its sequence of committed CIDs.       *)
(***************************************************************************)
EXTENDS SubnetRegistry, Sequences

CONSTANTS
  CheckPeriod,    \* st.check_period
  Epochs,         \* epochs a child names in its checkpoints
  MaxEpoch,       \* bound: the chain's epoch does not pass it
  MaxChecks,      \* bound: checkpoints of one child in one window
  MaxSupply,      \* bound: on a child's circulating supply
  Releases        \* values a child checkpoint may release

VARIABLES
  curr_epoch,     \* rt.curr_epoch()
  windows,        \* window checkpoint epoch -> (child -> Seq of CIDs)
  bottomup_nonce  \* st.bottomup_nonce: bottom-up metas stored

vars == <<subnets, total_subnets, curr_epoch, windows, bottomup_nonce>>

\* checkpoint_epoch: the epoch of the checkpoint of epoch e's period.
CheckpointEpoch(e) == (e \div CheckPeriod) * CheckPeriod

\* get_window_checkpoint: the stored child lists of the checkpoint at
\* checkpoint_epoch(epoch), or those of a new checkpoint.
GetWindowCheckpoint(epoch) ==
  LET ep == CheckpointEpoch(epoch) IN
  IF ep \in DOMAIN windows THEN windows[ep] ELSE [c \in {} |-> <<>>]

\* Fault: the release is not checked against the supply.
CanReleaseSupplyUnchecked(sub, value) == TRUE

\* Subnet::release_supply (ipc_sdk, not in this repository), as spec 4.3
\* states it: the value released leaves the circulating supply, which
\* cannot go below zero.
CanReleaseSupply(sub, value) == sub.circ_supply >= value

ReleaseSupply(sub, value) == [sub EXCEPT !.circ_supply = @ - value]

\* Fault: a second checkpoint of a child in one window is dropped.
AddChildCheckFirstOnly(ch, commit) ==
  IF commit.source \in DOMAIN ch THEN ch
  ELSE ch @@ (commit.source :> <<commit>>)

\* Checkpoint::add_child_check: append the CID to the child's list,
\* creating the list for a child's first checkpoint in the window.
AddChildCheck(ch, commit) ==
  IF commit.source \in DOMAIN ch
  THEN [ch EXCEPT ![commit.source] = Append(@, commit)]
  ELSE ch @@ (commit.source :> <<commit>>)

\* ... which fails if the CID is already in the list.
ChildCheckKnown(ch, commit) ==
  /\ commit.source \in DOMAIN ch
  /\ \E i \in 1..Len(ch[commit.source]) : ch[commit.source][i] = commit

\* The checks of commit_child_check on the previous checkpoint: it must not
\* be from a later epoch, and it must be the commit's prev.
ChainAccepts(prev, commit) ==
  prev /= None => /\ ~(prev.epoch > commit.epoch)
                  /\ commit.prev = prev

\* commit_child_check by subnet actor `a`.
CommitChildCheck(a, commit) ==
  /\ a = commit.source
  /\ a \in DOMAIN subnets
  /\ subnets[a].status = "Active"
  /\ ChainAccepts(subnets[a].prev_checkpoint, commit)
  /\ LET ch  == GetWindowCheckpoint(curr_epoch)
         sub == subnets[a]
         cm  == commit.cross
     IN
     /\ cm /= None => CanReleaseSupply(sub, cm.value)
     /\ ~ChildCheckKnown(ch, commit)
     /\ bottomup_nonce' = IF cm /= None /\ cm.msgs THEN bottomup_nonce + 1
                                                    ELSE bottomup_nonce
     /\ windows' = [e \in DOMAIN windows \cup {CheckpointEpoch(curr_epoch)} |->
                      IF e = CheckpointEpoch(curr_epoch) THEN AddChildCheck(ch, commit)
                      ELSE windows[e]]
     /\ subnets' = [subnets EXCEPT ![a] =
                      [(IF cm /= None THEN ReleaseSupply(sub, cm.value) ELSE sub)
                         EXCEPT !.prev_checkpoint = commit]]
  /\ UNCHANGED <<total_subnets, curr_epoch>>

\* commit_topdown_msg's effect on the registry: a top-down message (Fund,
\* SendCross, Propagate) for child `a` adds its value to the circulating
\* supply.  The queue itself is CrossMsgRouter's.
CommitTopDownValue(a, value) ==
  /\ a \in DOMAIN subnets
  /\ subnets' = [subnets EXCEPT ![a].circ_supply = @ + value]
  /\ UNCHANGED <<total_subnets, curr_epoch, windows, bottomup_nonce>>

\* The chain advances one epoch.
Tick ==
  /\ curr_epoch < MaxEpoch
  /\ curr_epoch' = curr_epoch + 1
  /\ UNCHANGED <<subnets, total_subnets, windows, bottomup_nonce>>

Crosses == {None} \cup [value : Releases, msgs : BOOLEAN]

\* The checkpoints a child may submit: any epoch, carrying value or not, on
\* top of nothing or of the checkpoint the gateway holds as its previous
\* one (a commit naming another prev is refused, as the one naming nothing
\* is once a previous checkpoint exists).
Commits(a) == [source : {a}, epoch : Epochs,
               prev : {None} \cup (IF a \in DOMAIN subnets THEN {subnets[a].prev_checkpoint} ELSE {}),
               cross : Crosses]

\* Bounds: a child's list in the current window has room, and its
\* circulating supply stays within MaxSupply.
ChecksRoom(a) ==
  LET ch == GetWindowCheckpoint(curr_epoch) IN
  a \in DOMAIN ch => Len(ch[a]) < MaxChecks

SupplyRoom(a, v) == a \in DOMAIN subnets => subnets[a].circ_supply + v <= MaxSupply

Init ==
  /\ RegistryInit
  /\ curr_epoch = 0
  /\ windows = [e \in {} |-> <<>>]
  /\ bottomup_nonce = 0

Next ==
  \/ RegistryNext /\ UNCHANGED <<curr_epoch, windows, bottomup_nonce>>
  \/ \E a \in SubnetActors : ChecksRoom(a) /\ \E c \in Commits(a) : CommitChildCheck(a, c)
  \/ \E a \in SubnetActors, v \in Amounts : SupplyRoom(a, v) /\ CommitTopDownValue(a, v)
  \/ Tick

Spec == Init /\ [][Next]_vars

(***************************************************************************)
(* Properties                                                              *)
(***************************************************************************)


\* Every registered subnet has its type; in particular no circulating
\* supply is negative, which release_supply must refuse in commit_child_check.
TypeOK ==
  /\ DOMAIN subnets \subseteq SubnetActors
  /\ \A a \in DOMAIN subnets :
        /\ subnets[a].stake \in Nat /\ subnets[a].status \in Statuses
        /\ subnets[a].circ_supply \in Nat
  /\ total_subnets \in Nat
  /\ curr_epoch \in 0..MaxEpoch
  /\ bottomup_nonce \in Nat

\* The prev_checkpoint commit_child_check keeps for a child is the last CID
\* the gateway recorded for it, in the latest window checkpoint that lists
\* it: the chain the next commit is checked against is the one the parent
\* propagates.
LatestWindowOf(a) ==
  CHOOSE e \in DOMAIN windows :
     /\ a \in DOMAIN windows[e]
     /\ \A f \in DOMAIN windows : a \in DOMAIN windows[f] => f <= e

LatestCommitRecorded ==
  \A a \in DOMAIN subnets :
     subnets[a].prev_checkpoint /= None =>
        LET l == windows[LatestWindowOf(a)][a] IN l[Len(l)] = subnets[a].prev_checkpoint

\* Spec 4.3: a committed checkpoint's epoch is strictly greater than that
\* of the checkpoint it follows (commit_child_check's check on the epoch).
ChildEpochsIncrease ==
  \A a \in DOMAIN subnets :
     LET p == subnets[a].prev_checkpoint IN
     p /= None /\ p.prev /= None => p.prev.epoch < p.epoch

\* The checkpoint of a window that has ended (its epoch is not after the
\* current one) is frozen for signing (checkpoint_epoch's own comment), so
\* no step of the gateway changes it: get_window_checkpoint must return the
\* window still open.
FrozenCheckpointUntouched ==
  [][\A e \in DOMAIN windows' :
        e <= curr_epoch => e \in DOMAIN windows /\ windows'[e] = windows[e]]_vars

=============================================================================
