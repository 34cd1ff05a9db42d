--------------------------- MODULE SubnetRegistry ---------------------------
(***************************************************************************)
(* The registry of child subnets in the gateway: register, add_stake,     *)
(* release_stake and kill, called by a subnet actor for its own subnet.    *)
(* The id of the subnet of actor `a` is NetworkName/a, so the registry is  *)
(* keyed by the actor.  The record keeps the fields the gateway reads:     *)
(* stake, status, circ_supply and prev_checkpoint (the top-down queue and  *)
(* its nonce belong to CrossMsgRouter).  Value sent back to the actor and  *)
(* the gateway balance are not modelled: the balance holds every stake, so *)
(* the sanity checks on it pass.                                           *)
(***************************************************************************)
EXTENDS Integers, FiniteSets, TLC

CONSTANTS
  SubnetActors,   \* addresses of subnet actors that may register
  MinStake,       \* st.min_stake
  Amounts,        \* amounts a caller may send or ask for
  None,           \* Option::None (no previous checkpoint)
  MaxStake        \* bound: no stake grows past it

ASSUME MinStake \in Nat /\ Amounts \subseteq Nat

VARIABLES
  subnets,        \* actor -> [stake, status, circ_supply, prev_checkpoint]
  total_subnets   \* st.total_subnets

regVars == <<subnets, total_subnets>>

Statuses == {"Active", "Inactive"}

\* Subnet::add_stake (ipc_sdk, not in this repository), as spec 4.1 states
\* it: the stake moves by `value` and a subnet left below min_stake becomes
\* Inactive.  Nothing makes it Active again.
SubnetAddStake(sub, value) ==
  [sub EXCEPT !.stake = @ + value,
              !.status = IF sub.stake + value < MinStake THEN "Inactive" ELSE @]

\* register_subnet: a new Active subnet holding the value sent as its stake;
\* an id already present is left as it is, and only an insertion counts.
RegisterSubnet(a, value) ==
  /\ value >= MinStake
  /\ IF a \in DOMAIN subnets
     THEN UNCHANGED <<subnets, total_subnets>>
     ELSE /\ subnets' = subnets @@ (a :> [stake |-> value, status |-> "Active",
                                         circ_supply |-> 0, prev_checkpoint |-> None])
          /\ total_subnets' = total_subnets + 1

\* rm_subnet: delete the subnet; only a deletion decrements the counter.
RmSubnet(a) ==
  IF a \in DOMAIN subnets
  THEN /\ subnets' = [s \in DOMAIN subnets \ {a} |-> subnets[s]]
       /\ total_subnets' = total_subnets - 1
  ELSE UNCHANGED <<subnets, total_subnets>>

\* register: an actor not yet registered registers its subnet.
Register(a, value) ==
  /\ a \notin DOMAIN subnets
  /\ RegisterSubnet(a, value)

\* add_stake
AddStake(a, value) ==
  /\ value > 0
  /\ a \in DOMAIN subnets
  /\ subnets' = [subnets EXCEPT ![a] = SubnetAddStake(@, value)]
  /\ UNCHANGED total_subnets

\* release_stake: at most the stake is given back.
ReleaseStake(a, value) ==
  /\ value > 0
  /\ a \in DOMAIN subnets
  /\ subnets[a].stake >= value
  /\ subnets' = [subnets EXCEPT ![a] = SubnetAddStake(@, -value)]
  /\ UNCHANGED total_subnets

\* kill: only a subnet that holds no user funds is removed.
Kill(a) ==
  /\ a \in DOMAIN subnets
  /\ subnets[a].circ_supply <= 0
  /\ RmSubnet(a)

\* Bound: add_stake keeps the stake within MaxStake.
StakeRoom(a, v) == a \in DOMAIN subnets => subnets[a].stake + v <= MaxStake

RegistryNext ==
  \/ \E a \in SubnetActors, v \in Amounts : Register(a, v)
  \/ \E a \in SubnetActors, v \in Amounts : StakeRoom(a, v) /\ AddStake(a, v)
  \/ \E a \in SubnetActors, v \in Amounts : ReleaseStake(a, v)
  \/ \E a \in SubnetActors : Kill(a)

RegistryInit ==
  /\ subnets = [a \in {} |-> None]
  /\ total_subnets = 0

=============================================================================
