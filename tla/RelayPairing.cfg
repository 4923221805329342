SPECIFICATION FairSpec
CONSTANTS
  Conn = {c1, c2, c3}
  Session = {s1, s2}
  NoConn = NoConn
  MaxChunks = 3
  Buffer = 1
INVARIANTS PairedOnce WholeStream
PROPERTIES  StreamsReleased
CHECK_DEADLOCK FALSE
