SPECIFICATION FairSpec
CONSTANTS
  Handlers = {h1, h2}
  ShortIds = {s1}
  Urls = {u1}
  MaxAttempts = 2
  NoHandler = NoHandler
  NoId = NoId
  NoUrl = NoUrl
PROPERTIES
  RequestsEnd
  ShutdownEnds
