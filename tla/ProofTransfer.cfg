SPECIFICATION Spec
CONSTANTS
  Group = 4
  Word = 32
  DigestLength = 2
  MaxLength = 4
  MaxPayloadSize = 3
  MaxURILength = 2
  RecursionLimit = 3
  MaxNesting = 4
  Attestations <- MCAttestations
  Ops <- MCOps
  Trailing = {0, 7}
  MaxItems = 4
  MaxAltered = 3
INVARIANTS
  TypeOK
  RoundTrip
  CutConfined
  PassedOn
  ParsedFacts
CHECK_DEADLOCK FALSE
