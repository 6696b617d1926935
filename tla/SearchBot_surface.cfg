SPECIFICATION Spec
CONSTANTS
  Nicks = {n1}
  rust = rust
  Rust = Rust
  go = go
  Texts <- MCTexts
  Folded <- MCFolded
  Miss = Miss
  NoNick = NoNick
  NoText = NoText
  PerUserCooldown = 2
  ChannelCooldown = 1
  Ttl = 2
  MaxEntries = 1
  MaxTime = 3
  Urls = {u1}
  ShortIds = {s1}
  ResultCount = 2
PROPERTIES
  ShortenerNeverSurfaces
