SPECIFICATION HttpSpec
CONSTANTS
  Scripts <- MCScripts
  NoData = NoData
  ClientStreams = {1}
  PushStreams = {2}
  MaxStreams = 1
  Kinds = {"noLength"}
INVARIANT PopWithinBuffer
CHECK_DEADLOCK FALSE
