SPECIFICATION MCSpec
CONSTANTS
  Instances <- StartingInstances
  FileInstances <- TransferInstances
  Content <- TransferContent
INVARIANTS StartSound FilesSound StreamsKept LineSound
CHECK_DEADLOCK FALSE
