----------------------------- MODULE CronVoting -----------------------------
(***************************************************************************)
(* The cron (top-down) checkpoint voting engine of the IPC gateway actor.  *)
(*                                                                         *)
(* Validators of the subnet submit, per cron epoch, the checkpoint of the  *)
(* parent chain they saw (SubmitCron).  The gateway tallies the submitted  *)
(* weight per checkpoint hash (CronSubmission in gateway/src/cron.rs),     *)
(* derives an execution status, and executes a checkpoint once it has more *)
(* than 2/3 of the total validator weight, strictly in epoch order; an     *)
(* epoch that reaches consensus early is parked in executable_epoch_queue  *)
(* and drained, one epoch per call, at the start of later SubmitCron calls *)
(* (execute_next_cron_epoch).  The system actor replaces the validator set *)
(* at any time (SetMembership).                                            *)
(*                                                                         *)
(* A checkpoint is identified by its hash: the hash is injective, so a     *)
(* checkpoint is a model value of Hashes.  Executing a checkpoint appends  *)
(* <<epoch, hash>> to the history `executed`; the top-down messages it     *)
(* carries are dispatched by the router (CrossMsgRouter), not here.        *)
(* Every public call is one atomic step: an error or a panic anywhere in   *)
(* the call reverts all of it, so a failing call is no step at all.        *)
(***************************************************************************)
EXTENDS Integers, Sequences, FiniteSets, Functions, TLC

CONSTANTS
  Addrs,         \* signable addresses that may be validators
  Hashes,        \* distinct cron checkpoints, identified by their hash
  NoHash,        \* most_voted_hash = None
  Memberships,   \* validator sets SetMembership may install: [subset of Addrs -> weight]
  GenesisEpoch,  \* genesis_epoch
  CronPeriod,    \* cron_period
  MaxRound,      \* bound: cron epochs GenesisEpoch + k*CronPeriod, k \in 1..MaxRound
  MaxMembershipChanges  \* bound: set_membership calls that change the set

ASSUME CronPeriod \in Nat \ {0} /\ MaxRound \in Nat \ {0}
ASSUME NoHash \notin Hashes
ASSUME \A m \in Memberships : DOMAIN m \subseteq Addrs /\ \A a \in DOMAIN m : m[a] \in Nat \ {0}

VARIABLES
  validators,                 \* st.validators: address -> weight
  last_cron_executed_epoch,   \* st.last_cron_executed_epoch
  executable_epoch_queue,     \* st.executable_epoch_queue (None = {})
  cron_submissions,           \* st.cron_submissions: epoch -> CronSubmission
  executed,                   \* history: <<epoch, hash>> of every executed checkpoint
  ballots,                    \* history: epoch -> (voter -> <<hash, weight>>) of the current round
  membership_changes          \* bound counter: set_membership calls that changed the set

vars == <<validators, last_cron_executed_epoch, executable_epoch_queue,
          cron_submissions, executed, ballots, membership_changes>>

CronEpochs == {GenesisEpoch + k * CronPeriod : k \in 1..MaxRound}

\* Epochs a validator may name in a submission: the cron epochs, the genesis
\* epoch (already executed) and one epoch off the cron grid.
EpochInputs == CronEpochs \cup {GenesisEpoch, GenesisEpoch + 1}

\* ValidatorSet::total_weight: the sum of the weights of the set.
TotalWeight(vs) == SumFunction(vs)

\* derive_execution_status: threshold = total * RATIO_NUMERATOR / RATIO_DENOMINATOR
Threshold(total) == (total * 2) \div 3

NoCounts == [h \in Hashes |-> 0]

\* CronSubmission::new
NewSubmission ==
  [total_submissions |-> 0, most_voted_hash |-> NoHash, submitters |-> {},
   submission_counts |-> NoCounts]

\* Fault: the round is reset but the per-hash counts are kept.
AbortKeepCounts(s) ==
  [s EXCEPT !.total_submissions = 0, !.submitters = {}, !.most_voted_hash = NoHash]

\* CronSubmission::abort: reset the round (the stored checkpoints, not
\* modelled, are kept).
Abort(s) ==
  [s EXCEPT !.total_submissions = 0, !.submitters = {},
            !.most_voted_hash = NoHash, !.submission_counts = NoCounts]

\* Fault: the "already submitted" check missing.
AlreadySubmittedNever(s, v) == FALSE

\* update_submitters refuses a validator already among the round's submitters.
AlreadySubmitted(s, v) == v \in s.submitters

\* update_submitters past its check, and insert_checkpoint.
\* The stored checkpoints (the `submissions` HAMT) are not kept: a checkpoint
\* is its hash, and the code reads that HAMT only at most_voted_hash, which
\* is always a hash submitted in the round.
UpdateSubmitters(s, v, w, h) ==
  [s EXCEPT !.submitters = @ \cup {v}, !.total_submissions = @ + w]

\* update_submission_count: add the weight to the hash and track the most
\* voted hash; returns the new submission and the most voted count.
UpdateSubmissionCount(s, h, w) ==
  LET newCount == s.submission_counts[h] + w
      counted  == [s EXCEPT !.submission_counts[h] = newCount]
      most     == s.most_voted_hash
  IN  CASE most = NoHash ->
             [sub |-> [counted EXCEPT !.most_voted_hash = h], count |-> newCount]
        [] most = h ->
             [sub |-> counted, count |-> newCount]
        [] newCount > counted.submission_counts[most] ->
             [sub |-> [counted EXCEPT !.most_voted_hash = h], count |-> newCount]
        [] OTHER ->
             [sub |-> counted, count |-> counted.submission_counts[most]]

\* CronSubmission::submit: record the submitter, then count the vote.
Submit(s, v, w, h) == UpdateSubmissionCount(UpdateSubmitters(s, v, w, h), h, w)

\* load_most_submitted_checkpoint (through get_submission): the checkpoint
\* of most_voted_hash, or NoHash for None, which the callers unwrap.
MostSubmittedCheckpoint(s) == s.most_voted_hash

\* Fault: consensus declared when the leader only reaches the threshold.
DeriveExecutionStatusAtThreshold(s, total, mostCount) ==
  LET th == Threshold(total) IN
  CASE s.total_submissions <= th                      -> "ThresholdNotReached"
    [] mostCount >= th                                 -> "ConsensusReached"
    [] th - mostCount >= total - s.total_submissions   -> "RoundAbort"
    [] OTHER                                           -> "ReachingConsensus"

\* derive_execution_status
DeriveExecutionStatus(s, total, mostCount) ==
  LET th == Threshold(total) IN
  CASE s.total_submissions <= th                      -> "ThresholdNotReached"
    [] mostCount > th                                  -> "ConsensusReached"
    [] th - mostCount >= total - s.total_submissions   -> "RoundAbort"
    [] OTHER                                           -> "ReachingConsensus"

(***************************************************************************)
(* execute_next_cron_epoch, as a function of the state: the post-state of  *)
(* its transaction, with ok = FALSE where the code panics (unreachable! on *)
(* a missing submission, unwrap on a None most_voted_hash).                *)
(***************************************************************************)
ExecuteNextCronEpoch ==
  LET unchanged == [ok |-> TRUE, last |-> last_cron_executed_epoch,
                    queue |-> executable_epoch_queue, subs |-> cron_submissions,
                    run |-> <<>>]
  IN
  IF \/ executable_epoch_queue = {}
     \/ \A q \in executable_epoch_queue :
          q > last_cron_executed_epoch + CronPeriod
  THEN unchanged
  ELSE LET e == CHOOSE q \in executable_epoch_queue :
                  \A p \in executable_epoch_queue : q <= p
       IN  IF \/ e \notin DOMAIN cron_submissions
              \/ MostSubmittedCheckpoint(cron_submissions[e]) = NoHash
           THEN [unchanged EXCEPT !.ok = FALSE]
           ELSE [ok |-> TRUE, last |-> e,
                 queue |-> executable_epoch_queue \ {e},
                 subs |-> Restrict(cron_submissions, DOMAIN cron_submissions \ {e}),
                 run |-> << <<e, MostSubmittedCheckpoint(cron_submissions[e])>> >>]

\* Fault: the epoch is not checked against the cron grid.
ValidateSubmitterAnyEpoch(r, v, e) ==
  /\ r.last < e
  /\ v \in DOMAIN validators

\* validate_submitter, against the state left by execute_next_cron_epoch.
ValidateSubmitter(r, v, e) ==
  /\ (e - GenesisEpoch) % CronPeriod = 0
  /\ r.last < e
  /\ v \in DOMAIN validators

(***************************************************************************)
(* handle_cron_submission on the state r left by execute_next_cron_epoch:  *)
(* the submission s after the vote of v (weight w) for h is stored, reset, *)
(* executed, or parked.  On a parked consensus the code returns before it  *)
(* flushes the submissions HAMT into the state, so cron_submissions keeps  *)
(* its previous value for the epoch.                                       *)
(***************************************************************************)
\* State::insert_executable_epoch
InsertExecutableEpoch(queue, e) == queue \cup {e}

\* Fault: a checkpoint that reaches consensus is executed at once, whether or
\* not the epochs before it have been executed.
HandleCronSubmissionUnordered(r, e, u, status) ==
  CASE status \in {"ThresholdNotReached", "ReachingConsensus"} ->
         [r EXCEPT !.subs = (e :> u.sub) @@ r.subs]
    [] status = "RoundAbort" ->
         [r EXCEPT !.subs = (e :> Abort(u.sub)) @@ r.subs]
    [] OTHER ->
         [r EXCEPT !.last = e,
                   !.subs = Restrict(r.subs, DOMAIN r.subs \ {e}),
                   !.run  = Append(@, <<e, MostSubmittedCheckpoint(u.sub)>>)]

HandleCronSubmission(r, e, u, status) ==
  CASE status \in {"ThresholdNotReached", "ReachingConsensus"} ->
         [r EXCEPT !.subs = (e :> u.sub) @@ r.subs]
    [] status = "RoundAbort" ->
         [r EXCEPT !.subs = (e :> Abort(u.sub)) @@ r.subs]
    [] r.last + CronPeriod /= e ->
         [r EXCEPT !.queue = InsertExecutableEpoch(@, e)]
    [] OTHER ->
         [r EXCEPT !.last = e,
                   !.subs = Restrict(r.subs, DOMAIN r.subs \ {e}),
                   !.run  = Append(@, <<e, MostSubmittedCheckpoint(u.sub)>>)]

(***************************************************************************)
(* Actions                                                                 *)
(***************************************************************************)

\* A validator that keeps to the protocol votes once per round of an epoch;
\* when it does not see its transaction land it retries, resending the same
\* checkpoint.  Whether a retry is refused is up to the gateway.
Voters(e) == IF e \in DOMAIN ballots THEN DOMAIN ballots[e] ELSE {}

MayVote(v, e, h) == v \in Voters(e) => ballots[e][v][1] = h

\* SubmitCron by validator v: checkpoint h for epoch e.
SubmitCron(v, e, h) ==
  LET r == ExecuteNextCronEpoch IN
  /\ MayVote(v, e, h)
  /\ r.ok
  /\ ValidateSubmitter(r, v, e)
  /\ LET w      == validators[v]
         total  == TotalWeight(validators)
         s0     == IF e \in DOMAIN r.subs THEN r.subs[e] ELSE NewSubmission
         u      == Submit(s0, v, w, h)
         status == DeriveExecutionStatus(u.sub, total, u.count)
         out    == HandleCronSubmission(r, e, u, status)
         votes  == IF e \in DOMAIN ballots THEN ballots[e] ELSE <<>>
     IN
     /\ ~AlreadySubmitted(s0, v)
     /\ last_cron_executed_epoch' = out.last
     /\ executable_epoch_queue'   = out.queue
     /\ cron_submissions'         = out.subs
     /\ executed' = executed \o out.run
     /\ ballots' = (e :> IF status = "RoundAbort" THEN <<>>
                         ELSE (v :> <<h, w>>) @@ votes) @@ ballots
     /\ UNCHANGED <<validators, membership_changes>>

\* SetMembership by the system actor: the new set replaces the old one at
\* once, whatever rounds are open.
SetMembership(m) ==
  /\ m /= validators => membership_changes < MaxMembershipChanges
  /\ validators' = m
  /\ membership_changes' = IF m /= validators THEN membership_changes + 1
                                              ELSE membership_changes
  /\ UNCHANGED <<last_cron_executed_epoch, executable_epoch_queue,
                 cron_submissions, executed, ballots>>

Init ==
  /\ validators = <<>>
  /\ last_cron_executed_epoch = GenesisEpoch
  /\ executable_epoch_queue = {}
  /\ cron_submissions = <<>>
  /\ executed = <<>>
  /\ ballots = <<>>
  /\ membership_changes = 0

Next ==
  \/ \E m \in Memberships : SetMembership(m)
  \/ \E v \in Addrs, e \in EpochInputs, h \in Hashes : SubmitCron(v, e, h)

Spec == Init /\ [][Next]_vars

(***************************************************************************)
(* Properties                                                              *)
(***************************************************************************)

\* The type of every variable; stored submissions are only ever kept for
\* epochs on the cron grid (validate_submitter's epoch check).
TypeOK ==
  /\ DOMAIN validators \subseteq Addrs
  /\ \A a \in DOMAIN validators : validators[a] \in Nat \ {0}
  /\ last_cron_executed_epoch \in CronEpochs \cup {GenesisEpoch}
  /\ executable_epoch_queue \subseteq CronEpochs
  /\ DOMAIN cron_submissions \subseteq CronEpochs
  /\ \A e \in DOMAIN cron_submissions :
       LET s == cron_submissions[e] IN
       /\ s.total_submissions \in Nat
       /\ s.most_voted_hash \in Hashes \cup {NoHash}
       /\ s.submitters \subseteq Addrs
       /\ s.submission_counts \in [Hashes -> Nat]
  /\ executed \in Seq(CronEpochs \X Hashes)

\* Weight of the ballots of epoch e cast for hash h in the current round.
BallotWeight(e, h) ==
  IF e \in DOMAIN ballots
  THEN SumFunction([v \in {x \in DOMAIN ballots[e] : ballots[e][x][1] = h} |->
                      ballots[e][v][2]])
  ELSE 0

\* Cron never halts: execute_next_cron_epoch, which every submit_cron runs
\* first, never reaches one of its panics (unreachable! on a popped epoch
\* whose submission is gone, unwrap of a missing most voted checkpoint).
\* Once it would, every submit_cron reverts and no cron epoch is executed
\* again, while its doc comment says it exists so that no epoch is stuck.
CronNeverHalts == ExecuteNextCronEpoch.ok

\* A checkpoint is executed only if the validators who voted for it in the
\* deciding round hold more than 2/3 of the total weight (the threshold of
\* derive_execution_status), including when it is executed late from the
\* queue by execute_next_cron_epoch.
ExecutedHasSupermajority ==
  \A i \in 1..Len(executed) :
    LET e == executed[i][1]
        h == executed[i][2]
    IN  BallotWeight(e, h) > Threshold(TotalWeight(validators))

\* For every epoch still being voted on, the stored tally agrees with the
\* ballots accepted in the current round: each validator counted once, its
\* weight added to the hash it voted for, and most_voted_hash a hash with
\* the largest count (update_submitters, update_submission_count, abort).
TallyMatchesBallots ==
  \A e \in DOMAIN cron_submissions \ executable_epoch_queue :
    LET s == cron_submissions[e] IN
    /\ s.submitters = DOMAIN ballots[e]
    /\ s.total_submissions = SumFunction([v \in DOMAIN ballots[e] |-> ballots[e][v][2]])
    /\ \A h \in Hashes : s.submission_counts[h] = BallotWeight(e, h)
    /\ (s.most_voted_hash = NoHash) <=> (s.total_submissions = 0)
    /\ s.most_voted_hash /= NoHash =>
         \A h \in Hashes : s.submission_counts[h] <= s.submission_counts[s.most_voted_hash]

(***************************************************************************)
(* Refinement: the voting engine implements CronOrdered.  An epoch counts  *)
(* as decided once it is executed, or once the ballots of its current      *)
(* round give one checkpoint more than 2/3 of the weight.                  *)
(***************************************************************************)

ExecutedEpochs == {executed[i][1] : i \in DOMAIN executed}

ExecutedHash(e) == CHOOSE x \in {executed[i][2] : i \in {j \in DOMAIN executed : executed[j][1] = e}} : TRUE

Winner(e) == {h \in Hashes : BallotWeight(e, h) > Threshold(TotalWeight(validators))}

DecidedEpochs == ExecutedEpochs \cup {e \in CronEpochs : Winner(e) /= {}}

DecidedBar ==
  [e \in DecidedEpochs |->
     IF e \in ExecutedEpochs THEN ExecutedHash(e) ELSE CHOOSE h \in Winner(e) : TRUE]

Ordered == INSTANCE CronOrdered WITH
  last <- last_cron_executed_epoch, decided <- DecidedBar, done <- executed

\* The cron engine is an ordered log of decisions: an epoch's checkpoint is
\* decided at most once and never changes afterwards, even while the epoch
\* waits in executable_epoch_queue; execute_next_cron_epoch and the direct
\* branch of handle_cron_submission execute decided epochs one after the
\* other from the watermark, each with the checkpoint decided for it.
OrderedSpec == Ordered!AbsSpec

=============================================================================
