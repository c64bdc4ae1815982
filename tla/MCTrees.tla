------------------------------ MODULE MCTrees ------------------------------
(***************************************************************************)
(* Instances of BlockProof and ProofMerge for TLC: the calendar's trees    *)
(* and a client's.  The two never touch the same tree (proofs travel as    *)
(* bytes), so a behaviour is one of the calendar or one of the client:     *)
(* interleaving their steps would only multiply the states.                *)
(*                                                                         *)
(* The shapes of the client's trees are chosen to overlap: the same op at  *)
(* the root, the same message by two ways, the same attestation twice, an  *)
(* op twice, and a message at the length limit.                            *)
(***************************************************************************)
EXTENDS BlockProof

CONSTANTS Calendar, MaxMsgLength, MaxUpgrades

VARIABLES
  side,         \* whose behaviour it is
  proof, pc, waiting, arrived, items, before, upgraded, start, pooled, given, rounds

clientVars ==
  <<proof, pc, waiting, arrived, items, before, upgraded, start, pooled, given, rounds>>

-----------------------------------------------------------------------------
X == AppendOp(Atom("nonce", 1))
Y == AppendOp(Atom("nonce", 2))
XY == AppendOp(Atom("nonce", 1) \o Atom("nonce", 2))

PendingA == <<"pending", "a">>
PendingB == <<"pending", "b">>
Block1 == <<"bitcoin", 1>>
Block2 == <<"bitcoin", 2>>

Attested(atts) == [atts |-> atts, ops |-> <<>>]
Under(o, s) == [op |-> o, stamp |-> s]
Branching(ops) == [atts |-> <<>>, ops |-> ops]
Path(o, s) == Branching(<<Under(o, s)>>)

Receipts ==
  {Path(X, Attested(<<PendingA>>)),
   Path(X, Path(Y, Attested(<<PendingB>>))),
   Path(XY, Attested(<<PendingB, PendingA>>)),
   Branching(<<Under(X, Attested(<<PendingB>>)),
               Under(X, Path(Sha256Op, Attested(<<PendingA, PendingA>>)))>>)}

Answers ==
  {Attested(<<PendingA>>),
   [atts |-> <<PendingA, PendingA>>, ops |-> <<Under(Sha256Op, Attested(<<Block1>>))>>],
   Branching(<<Under(Sha256Op, Attested(<<Block2>>)),
               Under(Sha256Op, Attested(<<Block1>>))>>),
   Path(Y, Attested(<<PendingB>>))}

Foreign ==
  {Branching(<<Under(X, Attested(<<PendingA>>)), Under(X, Attested(<<Block1, PendingA>>))>>),
   [atts |-> <<PendingB, PendingB>>,
    ops |-> <<Under(XY, Attested(<<PendingB>>)), Under(X, Path(Y, Attested(<<PendingA>>)))>>]}

Client == INSTANCE ProofMerge WITH Digest <- Atom("digest", 0)

-----------------------------------------------------------------------------
TreesInit ==
  /\ side \in {"calendar", "client"}
  /\ Init /\ (side = "client" => ~receipts)
  /\ Client!Init

CalendarNext == side = "calendar" /\ Next /\ UNCHANGED <<side, clientVars>>

ClientNext == side = "client" /\ Client!Next /\ UNCHANGED <<side, vars>>

TreesSpec == TreesInit /\ [][CalendarNext \/ ClientNext]_<<side, vars, clientVars>>

-----------------------------------------------------------------------------
\* The variables of Upgrade and Stamp keep their types, and every proof they
\* make can be serialized and has the messages its ops compute.
ClientTypeOK == Client!TypeOK

\* No attestation that Load, Stamp or Upgrade got is lost, by Merge or by
\* findNode in a tree that has changed, or ends up on another message.
NothingLost == Client!NothingLost

\* Stamp's proof does not depend on the order in which calendars answer.
OrderIrrelevant == Client!OrderIrrelevant

\* Merge never repeats an attestation or an op in a proof the pool made.
NoRepeats == Client!NoRepeats

\* Upgrade, which compares numbers of attestations, tells truly whether the
\* proof has gained any.
ReportsGain == Client!ReportsGain
=============================================================================
