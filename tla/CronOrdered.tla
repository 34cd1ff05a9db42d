----------------------------- MODULE CronOrdered -----------------------------
(***************************************************************************)
(* What the cron checkpoint engine promises, without votes: each cron      *)
(* epoch is decided at most once, for one checkpoint, while it is above    *)
(* the watermark; decided checkpoints are executed strictly in epoch       *)
(* order, each once, and an executed epoch runs the checkpoint that was    *)
(* decided for it.  One step may decide an epoch and then execute a run    *)
(* of consecutive decided epochs (a SubmitCron call drains one queued      *)
(* epoch and may execute the epoch it votes on).                           *)
(***************************************************************************)
EXTENDS Integers, Sequences, TLC

CONSTANTS Hashes, GenesisEpoch, CronPeriod, MaxRound

VARIABLES
  last,      \* the watermark: the last executed epoch
  decided,   \* epoch -> the checkpoint decided for it
  done       \* the executed <<epoch, checkpoint>> in execution order

absVars == <<last, decided, done>>

Epochs == {GenesisEpoch + k * CronPeriod : k \in 1..MaxRound}

\* At most one new decision per step.
Decisions == {<<>>} \cup {e :> h : e \in Epochs, h \in Hashes}

\* Decide D, then execute the k epochs after the watermark.
Step(D, k) ==
  /\ \A e \in DOMAIN D : e > last /\ e \notin DOMAIN decided
  /\ LET dec == D @@ decided
         run == [i \in 1..k |-> last + i * CronPeriod]
     IN
     /\ \A i \in 1..k : run[i] \in DOMAIN dec
     /\ decided' = dec
     /\ last' = last + k * CronPeriod
     /\ done' = done \o [i \in 1..k |-> <<run[i], dec[run[i]]>>]

AbsInit ==
  /\ last = GenesisEpoch
  /\ decided = <<>>
  /\ done = <<>>

AbsNext == \E D \in Decisions, k \in 0..2 : Step(D, k)

AbsSpec == AbsInit /\ [][AbsNext]_absVars

=============================================================================
