--------------------------- MODULE TimestampTree ---------------------------
(***************************************************************************)
(* internal/core/timestamp/timestamp.go: proof trees as the code builds    *)
(* them, in memory, where nodes are shared and changed in place.           *)
(*                                                                         *)
(* A heap is a sequence of nodes and a *Timestamp an index into it; an     *)
(* operation maps a heap to a result [h, id, ok]: the new heap, the node   *)
(* returned, and whether the error is nil.  What an operation changed      *)
(* before it failed stays changed.                                         *)
(*                                                                         *)
(* Messages are sequences of atoms.  Hashes are opaque and without         *)
(* collisions: SHA-256 of a message is one atom that contains it.          *)
(***************************************************************************)
EXTENDS Integers, Sequences, FiniteSets

Atom(kind, x) == <<<<kind, x>>>>

Sha(m) == <<<<"H", m>>>>

\* The ops used to build proofs (internal/core/op), by tag and argument.
AppendOp(m) == <<"append", m>>
PrependOp(m) == <<"prepend", m>>
Sha256Op == <<"sha256", <<>>>>

Apply(o, m) ==
  CASE o[1] = "append"  -> m \o o[2]
    [] o[1] = "prepend" -> o[2] \o m
    [] o[1] = "sha256"  -> Sha(m)

Result(h, id, ok) == [h |-> h, id |-> id, ok |-> ok]

Node(m) == [msg |-> m, atts |-> {}, ops |-> <<>>]

\* New: a node without attestations and ops.
New(H, m) == Result(Append(H, Node(m)), Len(H) + 1, TRUE)

\* The position of op o among t's ops, if it is there.
OpIndex(H, t, o) == {i \in DOMAIN H[t].ops : H[t].ops[i].op = o}

\* AddOp: the existing child for that op, with all that hangs on it, or a
\* new one.
AddOp(H, t, o) ==
  IF OpIndex(H, t, o) # {}
  THEN Result(H, H[t].ops[CHOOSE i \in OpIndex(H, t, o) : TRUE].to, TRUE)
  ELSE New([H EXCEPT ![t].ops = Append(@, [op |-> o, to |-> Len(H) + 1])],
           Apply(o, H[t].msg))

\* AddOp to what another operation returned, unless that was an error.
Then(r, o) == IF r.ok THEN AddOp(r.h, r.id, o) ELSE r

SetOpResult(H, t, o, stamp) ==
  [H EXCEPT ![t].ops[CHOOSE i \in OpIndex(H, t, o) : TRUE].to = stamp]

\* Mutant: the height is one too many.
AttestNext(H, t, a) == [H EXCEPT ![t].atts = @ \cup {a + 1}]

\* root.Attestations = append(root.Attestations, att)
Attest(H, t, a) == [H EXCEPT ![t].atts = @ \cup {a}]

\* Equal: same message, same attestations, and equal children under each op.
RECURSIVE TreeEqual(_, _, _)
TreeEqual(H, a, b) ==
  /\ H[a].msg = H[b].msg
  /\ H[a].atts = H[b].atts
  /\ Len(H[a].ops) = Len(H[b].ops)
  /\ \A i \in DOMAIN H[a].ops :
       \E j \in OpIndex(H, b, H[a].ops[i].op) :
         TreeEqual(H, H[a].ops[i].to, H[b].ops[j].to)

\* Serialize succeeds: no node below t is empty.
RECURSIVE Serializable(_, _)
Serializable(H, t) ==
  /\ H[t].atts # {} \/ H[t].ops # <<>>
  /\ \A i \in DOMAIN H[t].ops : Serializable(H, H[t].ops[i].to)

-----------------------------------------------------------------------------
\* The append child of left and the prepend child of right.
CatChildren(H, left, right) ==
  LET Right(a) == [left |-> a.id, right |-> AddOp(a.h, right, PrependOp(H[left].msg))]
  IN  Right(AddOp(H, left, AppendOp(H[right].msg)))

\* Mutant: the left branch keeps its own node, below which nothing is added.
CatDeadEnd(H, left, right) ==
  LET Join(c) == IF TreeEqual(c.right.h, c.left, c.right.id)
                 THEN Then(c.right, Sha256Op)
                 ELSE [c.right EXCEPT !.ok = FALSE]
  IN  Join(CatChildren(H, left, right))

\* CatThenUnaryOp with SHA-256: if the children are equal, right's replaces
\* left's, so that both lead to one shared node.
CatSHA256(H, left, right) ==
  LET Join(c) == IF TreeEqual(c.right.h, c.left, c.right.id)
                 THEN AddOp(SetOpResult(c.right.h, left, AppendOp(H[right].msg), c.right.id),
                            c.right.id, Sha256Op)
                 ELSE [c.right EXCEPT !.ok = FALSE]
  IN  Join(CatChildren(H, left, right))

CatSHA256d(H, left, right) == Then(CatSHA256(H, left, right), Sha256Op)

\* One level of a merkle tree, hashing once or twice: neighbours are combined
\* from the left, a last one without neighbour is passed on.  [h, ids, ok].
RECURSIVE PairUp(_, _, _)
PairUp(H, ids, twice) ==
  IF Len(ids) < 2
  THEN [h |-> H, ids |-> ids, ok |-> TRUE]
  ELSE LET Rest(parent) ==
             IF parent.ok
             THEN [PairUp(parent.h, SubSeq(ids, 3, Len(ids)), twice)
                     EXCEPT !.ids = <<parent.id>> \o @]
             ELSE [h |-> parent.h, ids |-> <<>>, ok |-> FALSE]
       IN  Rest(IF twice THEN CatSHA256d(H, ids[1], ids[2])
                         ELSE CatSHA256(H, ids[1], ids[2]))

RECURSIVE MakeMerkleTree(_, _)
MakeMerkleTree(H, ids) ==
  IF Len(ids) = 1
  THEN Result(H, ids[1], TRUE)
  ELSE LET Up(next) == IF next.ok THEN MakeMerkleTree(next.h, next.ids)
                                  ELSE Result(next.h, 0, FALSE)
       IN  Up(PairUp(H, ids, FALSE))

-----------------------------------------------------------------------------
(***************************************************************************)
(* Stored trees: SerializeBytes writes the tree out, sharing undone, and   *)
(* DeserializeBytes reads it back, so a stored proof is a plain value.     *)
(***************************************************************************)
RECURSIVE Serialize(_, _)
Serialize(H, t) ==
  [msg  |-> H[t].msg,
   atts |-> H[t].atts,
   ops  |-> {<<H[t].ops[i].op, Serialize(H, H[t].ops[i].to)>> : i \in DOMAIN H[t].ops}]

\* Mutant: what is stored already wins.
KeepStored(v, w) == v

\* Merge: attestations and ops of both; trees under the same op are merged.
RECURSIVE Merge(_, _)
Merge(v, w) ==
  LET shared == {p \in v.ops \X w.ops : p[1][1] = p[2][1]}
      only(a, b) == {p \in a.ops : \A q \in b.ops : q[1] # p[1]}
  IN  [msg  |-> v.msg,
       atts |-> v.atts \cup w.atts,
       ops  |-> only(v, w) \cup only(w, v)
                  \cup {<<p[1][1], Merge(p[1][2], p[2][2])>> : p \in shared}]

\* AllAttestations: every attestation in the tree with the message it is on.
RECURSIVE AllAttestations(_)
AllAttestations(v) ==
  {[msg |-> v.msg, att |-> a] : a \in v.atts}
    \cup UNION {AllAttestations(p[2]) : p \in v.ops}
=============================================================================
