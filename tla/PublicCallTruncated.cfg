CONSTANTS
  TokenScale = 10
  MaxTimeout = 1
  MaxSafeInteger = 1000
  MaxMessages = 3
  MaxItems = 2
  RequestTokens = 1
  MessageTokens = 1
  PartTokens = 1
  ImageTokens = 3
  CharsPerPiece = 4
  MaxEvents = 3
  MaxUnread = 1
  MaxSplits = 1
  Bundles <- MCBundles
  Keys <- MCKeys
  Bodies <- MCBodies
  Answers <- MCAnswers
  Beginnings <- MCBeginnings
  OpenAiEvents <- MCOpenAiEvents
SPECIFICATION PublicCallSpec
INVARIANTS
  TruncationIsTold
CHECK_DEADLOCK FALSE
