SPECIFICATION SSLSpec
CONSTANTS
  FlightLen = 2
  PayloadLen = 2
  BufferSize = 5
  MaxWrites = 2
CHECK_DEADLOCK FALSE
INVARIANT PipeExact
INVARIANT ReadExact
INVARIANT NothingInTheClear
PROPERTY HandshakeDecided
PROPERTY PayloadRead
PROPERTY SSLStartupStalls
