----------------------------- MODULE DurableLog -----------------------------
(***************************************************************************)
(* What the journal promises its users, the stamper above all: an ordered  *)
(* log of commitments that only grows at its end, and in which the first   *)
(* stable records are there for good, at the same index and unchanged,     *)
(* whatever fails.  Records past them are readable but a power loss may    *)
(* still take them back, from the end.                                     *)
(*                                                                         *)
(* The promise is for a file system whose writes succeed.  Once an append  *)
(* has failed the log is damaged: what was stable by then stays, and       *)
(* nothing is promised about the rest.                                     *)
(***************************************************************************)
EXTENDS Integers, Sequences

CONSTANT Commitment

VARIABLES log, stable, damaged

logVars == <<log, stable, damaged>>

LogInit == log = <<>> /\ stable = 0 /\ damaged = FALSE

\* One more record at the end, durable at once or not yet.
Extend(c) ==
  /\ log' = Append(log, c)
  /\ stable' \in {stable, Len(log) + 1}

\* Records that are not stable are lost from the end; the rest is on disk.
LoseTail ==
  \E n \in stable..Len(log) :
    /\ log' = SubSeq(log, 1, n)
    /\ stable' = n

Sound ==
  /\ ~damaged
  /\ damaged' = FALSE
  /\ LoseTail \/ \E c \in Commitment : Extend(c)

\* An append fails, or anything happens after one has failed.
Damage ==
  /\ damaged' = TRUE
  /\ stable' = stable
  /\ stable <= Len(log')
  /\ SubSeq(log', 1, stable) = SubSeq(log, 1, stable)

LogNext == Sound \/ Damage

LogSpec == LogInit /\ [][LogNext]_logVars
=============================================================================
