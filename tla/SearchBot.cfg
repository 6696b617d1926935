SPECIFICATION FairSpec
CONSTANTS
  Nicks = {n1, n2}
  rust = rust
  Rust = Rust
  go = go
  Texts <- MCTexts
  Folded <- MCFolded
  Miss = Miss
  NoNick = NoNick
  NoText = NoText
  PerUserCooldown = 2
  ChannelCooldown = 1
  Ttl = 2
  MaxEntries = 1
  MaxTime = 2
  Urls = {u1, u2}
  ShortIds = {s1}
  ResultCount = 2
INVARIANTS
  TypeOK
  ShownLinksLead
PROPERTIES
  RepeatIsFree
  UpstreamIsRationed
  NeverRefetchesFresh
  QueriesEnd
  QueriesAreBounded
