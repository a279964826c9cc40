SPECIFICATION FairSpec
CONSTANTS
  Readers = {r1, r2}
  Fields = {timestamp, accelerometer}
  Unread = unread
  SeqMod = 3
  Polls = 2
  MaxSamples = 3
INVARIANTS FreshRead TornOnlyByOverlap
PROPERTIES ConnectionAnswered
CHECK_DEADLOCK FALSE
