SPECIFICATION Spec
CONSTANT
  Nets <- MCNets
INVARIANTS
  ForwardSound
  RelevantSound
  SigFaithful
  WriteCoversLive
PROPERTY
  FlagsGiveOneVerdict
