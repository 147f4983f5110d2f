SPECIFICATION FairSpec
CONSTANTS
  a = a
  b = b
  Topic = {a, b}
  Lasting = {a}
  None = None
  NumMessages = 4
  TopicOf <- Interleaved
  Relayed = {1, 2, 4}
  Window = 3
  DrainLimit = 2
  MaxFaults = 1
  MaxChanges = 2
INVARIANTS TypeOK OnceInOrder WakesForBacklog IInv
PROPERTIES RelaysAtLeastOnce EventuallyRelayed
