\* A frame is two units, and a ring of five holds two, one of them cut in
\* two by its end.  The ratio of buffer and stride is the source's.
SPECIFICATION Spec
CONSTANTS
  NChannel = 2
  NBuffer = 2
  BufferBytes = 256
  ScanBytes = 24
  FrameBytes = 2
  QueueSize = 5
  Frame <- ChannelFrames
  Nothing = Nothing
  AnswerLength <- FullFrames
INVARIANT FirstBufferReturns
PROPERTIES ImplementsQueues QueuesMove
