CONSTANTS
  FieldHeader = 2
  UintLimit = 8
  Ids <- TwoIds
  FieldSizes <- Lengths
  MaxPayload = 5
  AnswerSizes <- Answers
  HeaderSize = 2
  SocketBuffer = 3
  ReadTimeout = 2
  WriteTimeout = 1
  Attempts = 2
SPECIFICATION FairSpec
PROPERTIES CallsTimeOut
