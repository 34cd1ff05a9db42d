--------------------------- MODULE CronCheckpoint ---------------------------
(***************************************************************************)
(* The ordering check of CronCheckpoint::hash.  Before hashing, the        *)
(* checkpoint's top-down messages are compared pairwise, each with the one *)
(* after it, by nonce; the first pair that is not strictly ascending fails *)
(* the submission.  A message is its nonce here: the check reads nothing   *)
(* else, and the hash of an accepted checkpoint is a function of its       *)
(* message sequence (Blake2b over its encoding, taken as injective).       *)
(***************************************************************************)
EXTENDS Naturals, Sequences, SequencesExt

\* Fault: equal nonces pass the comparison (the Ordering::Equal arm missing).
RECURSIVE CheckFromNoDistinct(_, _)
CheckFromNoDistinct(ns, i) ==
  IF i > Len(ns) THEN "ok"
  ELSE IF ns[i - 1] <= ns[i] THEN CheckFromNoDistinct(ns, i + 1)
  ELSE "not sorted"

\* The loop of hash from index i on: Less goes on, Equal and Greater return
\* their errors.
RECURSIVE CheckFrom(_, _)
CheckFrom(ns, i) ==
  IF i > Len(ns) THEN "ok"
  ELSE CASE ns[i - 1] < ns[i] -> CheckFrom(ns, i + 1)
         [] ns[i - 1] = ns[i] -> "top down messages not distinct"
         [] OTHER             -> "top down messages not sorted"

\* hash returns a hash (not an error) for the checkpoint with these nonces.
HashAccepts(ns) == CheckFrom(ns, 2) = "ok"

=============================================================================
