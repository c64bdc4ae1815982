-------------------------- MODULE MCProofTransfer --------------------------
(* Instances of ProofTransfer for TLC: attestations at the limits of the   *)
(* scaled-down format, and ops that reach MaxLength from a digest.         *)
EXTENDS ProofTransfer

MCAttestations ==
  {[tag |-> pendingTag,  val |-> <<3, 4>>],   \* a URI of MaxURILength
   [tag |-> bitcoinTag,  val |-> <<1>>],
   [tag |-> bitcoinTag,  val |-> <<9>>],      \* two bytes
   [tag |-> litecoinTag, val |-> <<31>>],     \* the largest word, three bytes
   [tag |-> <<4, 4>>,    val |-> <<>>],       \* of unknown kind
   [tag |-> <<4, 4>>,    val |-> <<5>>]}

MCOps ==
  {[tag |-> sha256Tag,  arg |-> <<>>],
   [tag |-> appendTag,  arg |-> <<1>>],
   [tag |-> prependTag, arg |-> <<0, 7>>]}
=============================================================================
