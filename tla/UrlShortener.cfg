SPECIFICATION Spec
CONSTANTS
  Handlers = {h1, h2}
  ShortIds = {s1, s2}
  Urls = {u1, u2}
  MaxAttempts = 2
  NoHandler = NoHandler
  NoId = NoId
  NoUrl = NoUrl
SYMMETRY Symmetry
INVARIANTS
  TypeOK
  SingleConnection
  UniqueShortIds
  IssuedResolves
  NoLost404
  AtMostOneRow
  AnswersMatchRows
PROPERTIES
  KeepsPromise
  RequestsAreBounded
