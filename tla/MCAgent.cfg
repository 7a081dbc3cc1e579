\* Two commands, one result kept, one command per answer, two connections.
CONSTANTS
  Command = {c1, c2}
  KeepResults = 1
  BatchLimit = 1
  MaxConn = 2
  MaxFaults = 1
SPECIFICATION ChannelFairSpec
INVARIANT ExecutedAtMostOnce
PROPERTIES
  IssuedIsExecuted
  ImplementsDelivery
