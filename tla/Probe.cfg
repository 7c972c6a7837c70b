SPECIFICATION FairSpec
CONSTANTS
  s1 = s1
  s2 = s2
  Streams = {s1, s2}
  Wire <- TwoStreams
  RingSize = 2
  Early = 1
  NoStream = NoStream
\* Every stream is finite: once all of it has passed, the probe waits.
CHECK_DEADLOCK FALSE
INVARIANTS TypeOK HandledInOrder HandledOnce
PROPERTIES CaptureNeverStalls CapturedIsReported
