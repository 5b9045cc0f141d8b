SPECIFICATION Spec
CONSTANTS
  BlockSize = 2
  UCharSpan = 4
  ULongSpan = 16
  UInt64Span = 64
  MaxTransferLength = 10
  Sizes = {0, 8, 17, 40}
  FlagSets <- MCFlagSets
  SerialLengths = {2, 3}
  Interface = {"Read", "Write", "Flush", "Unmap"}
  QueuedSrbs <- MCQueuedSrbs
  EmulatedSrbs <- MCEmulatedSrbs
INVARIANTS
  TypeOK
  ExactIo
  TrimWithin
  AdvertisedIsServed
  TruthfulAnswers
