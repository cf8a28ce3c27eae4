SPECIFICATION Spec
CONSTANTS
  VerifyBlockTransition <- MCVerify
  RecomputeHashes <- MCHashes
  Byte <- MCByte
  Utf8 <- MCUtf8
  Json <- MCJson
  EmptyPendingMints = EmptyPendingMints
  Rejected = Rejected
  Requests <- AllRequests
  NotHex = NotHex
  NoFile = NoFile
  Nothing = Nothing
  OtherValue = OtherValue
  NoJob = NoJob
  Jobs <- MCJobs
  ManualInputs <- MCManualInputs
  CustodianInputs <- MCCustodianInputs
  HASH_SIZE = 1
  RETURN_OUTPUT_SIZE = 1
  U64_SIZE = 1
  MaxStarts = 2
  MaxWork = 3
INVARIANTS
  PipelineTypeOK
  ProofMatchesRequest
  HostGuestAgree
  SameIdSameWork
  ResultProvesJob
  ValuesBindStatements
  ChainIsContinuous
  PublishedChain
PROPERTIES
  DropIsLast
CHECK_DEADLOCK FALSE
