\* One call of a few turns with a Redis that works or fails.
CONSTANTS
  SilenceFrames = 2
  MaxFrames = 4
  MaxSpeech = 3
  NoSession = NoSession
SPECIFICATION FairSpec
INVARIANTS
  TypeOK
  BufferBounded
  NoSpeechLost
  HistoryIsDialogue
  RepliesInOrder
PROPERTY
  TurnsAreAnswered
