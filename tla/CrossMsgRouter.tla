--------------------------- MODULE CrossMsgRouter ---------------------------
(***************************************************************************)
(* The cross-message router of the gateway of subnet NetworkName.          *)
(*                                                                         *)
(* Fund and Release inject value top-down to a child and bottom-up to the  *)
(* parent; SendCross lets an actor send an arbitrary cross message;        *)
(* ApplyMsg is how the system actor delivers the cross messages validated  *)
(* by consensus (top-down ones from the parent, in the parent's nonce      *)
(* order, and bottom-up ones from the children's checkpoints, in the order *)
(* of their batch nonces); a message applied here but bound elsewhere is   *)
(* parked in the postbox, from which an owner forwards it with Propagate.  *)
(* Every call is one atomic step; a call that fails is no step.            *)
(*                                                                         *)
(* Messages are records [from, to, value, nonce], an address being         *)
(* [subnet, raw].  The method and params of a message are left out: the    *)
(* router never reads them.  Value transfers to other actors (burning,     *)
(* fee distribution, the dispatch of a delivered message) are outside the  *)
(* gateway's state and are not modelled; nor is the gateway's balance, so  *)
(* the minting guard of ApplyMsg is taken to pass.                         *)
(***************************************************************************)
EXTENDS Naturals, Sequences, FiniteSets, SubnetHierarchy

CONSTANTS
  NetworkName,     \* st.network_name
  Children,        \* the registered child subnets of NetworkName
  Senders,         \* the children whose checkpoints' messages are applied here
  Subnets,         \* subnet ids that occur in messages
  Signable,        \* raw addresses of accounts (Fund, Release)
  Actors,          \* raw addresses of actors (SendCross)
  BurntFunds,      \* BURNT_FUNDS_ACTOR_ADDR
  CROSS_MSG_FEE,   \* the fee of a cross message
  Values,          \* amounts a caller may send with a call
  MAX_NONCE,       \* u64::MAX, the initial applied_bottomup_nonce
  MaxNonce,        \* bound: on every nonce counter of the model
  SendDown         \* TRUE: SendCross may name a destination below NetworkName

ASSUME /\ Children \subseteq Subnets /\ Senders \subseteq Children /\ NetworkName \in Subnets
       /\ \A c \in Children : Parent(c) = NetworkName
       /\ CROSS_MSG_FEE \in Nat /\ Values \subseteq Nat /\ MaxNonce \in Nat
       /\ MAX_NONCE \notin Nat /\ SendDown \in BOOLEAN

Raws == Signable \cup Actors \cup {BurntFunds}

Addr == [subnet : Subnets, raw : Raws]

VARIABLES
  subnets,                 \* child -> [nonce, circ_supply, topdown_msgs]
  nonce,                   \* st.nonce: bottom-up messages committed here
  bottomup_msgs,           \* the cross messages of the window checkpoint
  applied_topdown_nonce,   \* st.applied_topdown_nonce
  applied_bottomup_nonce,  \* st.applied_bottomup_nonce
  postbox,                 \* the set of postbox items [cross_msg, owners]
  parent_sent,             \* history: top-down messages of the parent applied here
  batch,                   \* history: nonce of the last bottom-up batch applied (-1: none)
  parked,                  \* history: number of postbox insertions
  forwarded                \* history: number of postbox items propagated

vars == <<subnets, nonce, bottomup_msgs, applied_topdown_nonce,
          applied_bottomup_nonce, postbox, parent_sent, batch, parked, forwarded>>

(***************************************************************************)
(* Messages and fees                                                       *)
(***************************************************************************)

\* StorableMsg::new_fund_msg: from the caller in the parent of `sub` to the
\* same caller in `sub`; the nonce is set when the message is committed.
NewFundMsg(sub, addr, value) ==
  [from |-> [subnet |-> Parent(sub), raw |-> addr],
   to   |-> [subnet |-> sub, raw |-> addr], value |-> value, nonce |-> 0]

\* StorableMsg::new_release_msg: from the burnt-funds actor here to the
\* caller in the parent, with the local nonce.
NewReleaseMsg(sub, addr, value, n) ==
  [from |-> [subnet |-> sub, raw |-> BurntFunds],
   to   |-> [subnet |-> Parent(sub), raw |-> addr], value |-> value, nonce |-> n]

\* Fault: only a negative balance is refused.
FeeCoveredNonNeg(balance) == balance >= 0

\* collect_cross_fee fails unless the balance covers the fee ...
FeeCovered(balance) == balance >= CROSS_MSG_FEE

\* ... and otherwise takes the fee out of it.
CollectCrossFee(balance) == balance - CROSS_MSG_FEE

(***************************************************************************)
(* Commit policies                                                         *)
(***************************************************************************)

\* commit_topdown_msg needs the next hop toward the destination to be a
\* registered child ...
TopDownHop(m) == Down(m.to.subnet, NetworkName)

CanCommitTopDown(m) == TopDownHop(m) \in DOMAIN subnets

\* Bound: a child's queue holds at most MaxNonce messages.
TopDownRoom(m) == subnets[TopDownHop(m)].nonce < MaxNonce

\* ... to whose queue it appends the message under the child's next nonce,
\* adding its value to the child's circulating supply.
CommitTopDownMsg(m) ==
  LET c == TopDownHop(m) IN
  [subnets EXCEPT ![c] = [@ EXCEPT !.topdown_msgs = Append(@, [m EXCEPT !.nonce = subnets[c].nonce]),
                                   !.nonce = @ + 1,
                                   !.circ_supply = @ + m.value]]

\* commit_bottomup_msg: store the message in the window checkpoint
\* (store_msg_in_checkpoint) and increment the local nonce.
CommitBottomUpMsg(m) ==
  /\ nonce < MaxNonce
  /\ bottomup_msgs' = Append(bottomup_msgs, m)
  /\ nonce' = nonce + 1

(***************************************************************************)
(* The postbox: items are keyed by the CID of their content, so the set of *)
(* items is the postbox itself.                                            *)
(***************************************************************************)

\* insert_postbox
InsertPostbox(owners, m) == postbox \cup {[cross_msg |-> m, owners |-> owners]}

\* swap_postbox_item: delete the item under its old key, store the new one.
SwapPostboxItem(old, new) == (postbox \ {old}) \cup {new}

\* remove_from_postbox
RemoveFromPostbox(item) == postbox \ {item}

\* Fault: a bottom-up message always goes on up, never turning down.
CommitCrossMessageNoTurn(m) ==
  /\ m.to.subnet /= NetworkName
  /\ IF ApplyType(m.from.subnet, m.to.subnet, NetworkName) = "BottomUp"
     THEN /\ CommitBottomUpMsg(m)
          /\ UNCHANGED <<subnets, applied_topdown_nonce>>
     ELSE /\ CanCommitTopDown(m)
          /\ TopDownRoom(m)
          /\ applied_topdown_nonce' = applied_topdown_nonce + 1
          /\ subnets' = CommitTopDownMsg(m)
          /\ UNCHANGED <<nonce, bottomup_msgs>>

\* Fault: a forwarded top-down message is not counted as applied.
CommitCrossMessageNoCount(m) ==
  /\ m.to.subnet /= NetworkName
  /\ IF ApplyType(m.from.subnet, m.to.subnet, NetworkName) = "BottomUp"
     THEN IF CommonParent(m.to.subnet, m.from.subnet) = NetworkName
          THEN /\ CanCommitTopDown(m)
               /\ TopDownRoom(m)
               /\ subnets' = CommitTopDownMsg(m)
               /\ UNCHANGED <<nonce, bottomup_msgs, applied_topdown_nonce>>
          ELSE /\ CommitBottomUpMsg(m)
               /\ UNCHANGED <<subnets, applied_topdown_nonce>>
     ELSE /\ CanCommitTopDown(m)
          /\ TopDownRoom(m)
          /\ subnets' = CommitTopDownMsg(m)
          /\ UNCHANGED <<nonce, bottomup_msgs, applied_topdown_nonce>>

(***************************************************************************)
(* commit_cross_message, for a message not bound here: bottom-up messages  *)
(* go up, or turn down at the common parent; top-down ones go down, and    *)
(* count as an applied top-down message.                                   *)
(***************************************************************************)
CommitCrossMessage(m) ==
  LET sto == m.to.subnet
      sfrom == m.from.subnet
  IN
  /\ sto /= NetworkName
  /\ IF ApplyType(sfrom, sto, NetworkName) = "BottomUp"
     THEN IF CommonParent(sto, sfrom) = NetworkName
          THEN /\ CanCommitTopDown(m)
               /\ TopDownRoom(m)
               /\ subnets' = CommitTopDownMsg(m)
               /\ UNCHANGED <<nonce, bottomup_msgs, applied_topdown_nonce>>
          ELSE /\ CommitBottomUpMsg(m)
               /\ UNCHANGED <<subnets, applied_topdown_nonce>>
     ELSE /\ CanCommitTopDown(m)
          /\ TopDownRoom(m)
          /\ applied_topdown_nonce' = applied_topdown_nonce + 1
          /\ subnets' = CommitTopDownMsg(m)
          /\ UNCHANGED <<nonce, bottomup_msgs>>


\* u64::wrapping_add(1) on a nonce that is either MAX_NONCE or small.
WrappingInc(n) == IF n = MAX_NONCE THEN 0 ELSE n + 1

BottomUpStateTransition(applied, n) ==
  IF applied = MAX_NONCE /\ n = 0 THEN 0
  ELSE IF WrappingInc(applied) = n THEN WrappingInc(applied)
  ELSE applied

(***************************************************************************)
(* Actions                                                                 *)
(***************************************************************************)

\* Fund by account `caller` of `value` for subnet `sub`.
Fund(caller, sub, value) ==
  /\ value > 0
  /\ FeeCovered(value)
  /\ Parent(sub) /= NoSubnet
  /\ LET m == NewFundMsg(sub, caller, CollectCrossFee(value)) IN
     /\ CanCommitTopDown(m)
     /\ TopDownRoom(m)
     /\ subnets' = CommitTopDownMsg(m)
  /\ UNCHANGED <<nonce, bottomup_msgs, applied_topdown_nonce,
                 applied_bottomup_nonce, postbox, parent_sent, batch, parked, forwarded>>

\* Release by account `caller` of `value` to the parent.
Release(caller, value) ==
  /\ value > 0
  /\ FeeCovered(value)
  /\ Parent(NetworkName) /= NoSubnet
  /\ CommitBottomUpMsg(NewReleaseMsg(NetworkName, caller, CollectCrossFee(value), nonce))
  /\ UNCHANGED <<subnets, applied_topdown_nonce, applied_bottomup_nonce,
                 postbox, parent_sent, batch, parked, forwarded>>

\* SendCross by actor `caller` of `value` to raw address `raw` of `dest`:
\* the gateway sets from and to, takes the fee and commits the message.
SendCross(caller, dest, raw, value) ==
  /\ dest /= NetworkName
  /\ SendDown \/ ~IsPrefix(NetworkName, dest)
  /\ FeeCovered(value)
  /\ CommitCrossMessage([from |-> [subnet |-> NetworkName, raw |-> caller],
                         to   |-> [subnet |-> dest, raw |-> raw],
                         value |-> CollectCrossFee(value), nonce |-> 0])
  /\ UNCHANGED <<applied_bottomup_nonce, postbox, parent_sent, batch, parked, forwarded>>

\* apply_msg_inner: a message bound here is checked against its nonce
\* counter and dispatched; any other is parked in the postbox, owned by its
\* sender.
ApplyMsg(m) ==
  LET sto  == m.to.subnet
      type == ApplyType(m.from.subnet, sto, NetworkName)
  IN
  /\ \/ /\ type = "BottomUp"
        /\ sto = NetworkName
        /\ BottomUpStateTransition(applied_bottomup_nonce, m.nonce) = m.nonce
        /\ applied_bottomup_nonce' = m.nonce
        /\ UNCHANGED <<applied_topdown_nonce, postbox, parked>>
     \/ /\ type = "TopDown"
        /\ sto = NetworkName
        /\ applied_topdown_nonce = m.nonce
        /\ applied_topdown_nonce' = applied_topdown_nonce + 1
        /\ UNCHANGED <<applied_bottomup_nonce, postbox, parked>>
     \/ /\ sto /= NetworkName
        /\ parked < MaxNonce
        /\ postbox' = InsertPostbox({m.from.raw}, m)
        /\ parked' = parked + 1
        /\ UNCHANGED <<applied_topdown_nonce, applied_bottomup_nonce>>
  /\ UNCHANGED <<subnets, nonce, bottomup_msgs, forwarded>>

\* whitelist_propagator by `caller`, an owner of `item`, adding `raw`.
WhitelistPropagator(caller, item, raw) ==
  /\ item \in postbox
  /\ caller \in item.owners
  /\ postbox' = SwapPostboxItem(item, [item EXCEPT !.owners = @ \cup {raw}])
  /\ UNCHANGED <<subnets, nonce, bottomup_msgs, applied_topdown_nonce,
                 applied_bottomup_nonce, parent_sent, batch, parked, forwarded>>

\* propagate by `caller`, an owner of `item`, paying `value`.
Propagate(caller, item, value) ==
  /\ item \in postbox
  /\ caller \in item.owners
  /\ FeeCovered(value)
  /\ CommitCrossMessage(item.cross_msg)
  /\ postbox' = RemoveFromPostbox(item)
  /\ forwarded' = forwarded + 1
  /\ UNCHANGED <<applied_bottomup_nonce, parent_sent, batch, parked>>

(***************************************************************************)
(* The messages the system actor applies.  Top-down ones are the parent's  *)
(* messages for this subnet's tree, numbered in the parent's queue for     *)
(* this subnet; bottom-up ones come from the children's checkpoints, with  *)
(* the nonce of their batch, batch after batch.                            *)
(***************************************************************************)
MsgValues == {CollectCrossFee(v) : v \in {x \in Values : FeeCovered(x)}}

ParentMsgs ==
  [from : {[subnet |-> Parent(NetworkName), raw |-> a] : a \in Signable},
   to : {[subnet |-> s, raw |-> a] : s \in {x \in Subnets : IsPrefix(NetworkName, x)},
                                      a \in Signable},
   value : MsgValues, nonce : {parent_sent}]

ChildMsgs ==
  {m \in [from : {[subnet |-> c, raw |-> a] : c \in Senders, a \in Signable},
          to : {[subnet |-> s, raw |-> a] : s \in Subnets, a \in Signable},
          value : MsgValues, nonce : {batch, batch + 1} \cap 0..(MaxNonce - 1)] :
     ApplyType(m.from.subnet, m.to.subnet, NetworkName) = "BottomUp"}

ApplyParentMsg(m) ==
  /\ parent_sent < MaxNonce
  /\ ApplyMsg(m)
  /\ parent_sent' = parent_sent + 1
  /\ UNCHANGED batch

ApplyChildMsg(m) ==
  /\ ApplyMsg(m)
  /\ batch' = m.nonce
  /\ UNCHANGED parent_sent

Init ==
  /\ subnets = [c \in Children |-> [nonce |-> 0, circ_supply |-> 0, topdown_msgs |-> <<>>]]
  /\ nonce = 0
  /\ bottomup_msgs = <<>>
  /\ applied_topdown_nonce = 0
  /\ applied_bottomup_nonce = MAX_NONCE
  /\ postbox = {}
  /\ parent_sent = 0
  /\ batch = -1
  /\ parked = 0
  /\ forwarded = 0

Next ==
  \/ \E a \in Signable, s \in Subnets, v \in Values : Fund(a, s, v)
  \/ \E a \in Signable, v \in Values : Release(a, v)
  \/ \E a \in Actors, d \in Subnets, r \in Signable, v \in Values : SendCross(a, d, r, v)
  \/ \E m \in ParentMsgs : ApplyParentMsg(m)
  \/ \E m \in ChildMsgs : ApplyChildMsg(m)
  \/ \E a \in Raws, it \in postbox, r \in Actors : WhitelistPropagator(a, it, r)
  \/ \E a \in Raws, it \in postbox, v \in Values : Propagate(a, it, v)

Spec == Init /\ [][Next]_vars

(***************************************************************************)
(* Properties                                                              *)
(***************************************************************************)

Msg == [from : Addr, to : Addr, value : Int, nonce : Nat \cup {MAX_NONCE}]

\* Every counter, queue and postbox item has its type; in particular no
\* message carries a negative value, which collect_cross_fee must ensure.
TypeOK ==
  /\ subnets \in [Children -> [nonce : 0..MaxNonce, circ_supply : Nat,
                                topdown_msgs : Seq(Msg)]]
  /\ \A c \in Children : \A i \in 1..Len(subnets[c].topdown_msgs) :
        subnets[c].topdown_msgs[i].value \in Nat
  /\ \A i \in 1..Len(bottomup_msgs) : bottomup_msgs[i] \in Msg /\ bottomup_msgs[i].value \in Nat
  /\ nonce \in 0..MaxNonce
  /\ applied_topdown_nonce \in Nat
  /\ applied_bottomup_nonce \in Nat \cup {MAX_NONCE}
  /\ \A it \in postbox : it.cross_msg \in Msg /\ it.owners \subseteq Raws

\* The child will check each message of its queue against its
\* applied_topdown_nonce; that stays in step with what this gateway sends
\* it only if every top-down message the parent sent here is counted once:
\* either applied here (ApplyMsg) or forwarded (commit_cross_message), the
\* rest waiting in the postbox.
PendingTopDown == {it \in postbox :
                     ApplyType(it.cross_msg.from.subnet, it.cross_msg.to.subnet,
                               NetworkName) = "TopDown"}

TopDownNonceInSync ==
  applied_topdown_nonce + Cardinality(PendingTopDown) = parent_sent

\* Every message is committed on its route: a child's queue only holds
\* messages for that child's subtree, and the checkpoint sent up only
\* messages for outside this subnet's subtree (commit_cross_message's
\* choice between commit_topdown_msg and commit_bottomup_msg).
RoutingSound ==
  /\ \A c \in Children : \A i \in 1..Len(subnets[c].topdown_msgs) :
        IsPrefix(c, subnets[c].topdown_msgs[i].to.subnet)
  /\ \A i \in 1..Len(bottomup_msgs) :
        ~IsPrefix(NetworkName, bottomup_msgs[i].to.subnet)

TopDownNonceCurrent == applied_topdown_nonce = parent_sent

\* Spec 4.2: likewise applied_bottomup_nonce follows every bottom-up batch
\* applied here, so the next batch's nonce is always the one accepted.
BottomUpNonceCurrent ==
  applied_bottomup_nonce = IF batch = -1 THEN MAX_NONCE ELSE batch

\* Every message parked in the postbox is still there until it is
\* propagated: insertions = propagations + items (insert_postbox keys an
\* item by the CID of its content).
PostboxConserved == parked = forwarded + Cardinality(postbox)

=============================================================================
