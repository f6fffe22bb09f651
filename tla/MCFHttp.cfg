SPECIFICATION HttpSpec
CONSTANTS
  Scripts <- MCScripts
  NoData = NoData
  ClientStreams = {1, 3, 5}
  PushStreams = {2}
  MaxStreams = 2
  Kinds = {"noLength", "zero", "length"}
INVARIANTS
  Http1TypeOK CutsDoNotMatter AnswersArrive
  Http2TypeOK CountersMatch PointersAreValid WithinLimit AnsweredOnce ContextLifetime
PROPERTIES ClosedAfterAnswer DataAfterClose WaitingIsAnswered TimedOutIsClosed
CHECK_DEADLOCK FALSE
