\* One command, whose answer is lost and which is then too old.
CONSTANTS
  Command = {c1}
  KeepResults = 1
  BatchLimit = 1
  MaxConn = 1
  MaxFaults = 2
SPECIFICATION ChannelFairSpec
PROPERTY TimedOutIsRequeued
