SPECIFICATION Spec
CONSTANTS
  rust = rust
  Rust = Rust
  go = go
  zig = zig
  Texts <- MCTexts
  Folded <- MCFolded
  Answers = {a1, a2}
  Miss = Miss
  Ttl = 3
  MaxEntries = 2
  MaxTime = 5
SYMMETRY Symmetry
INVARIANTS
  WithinCap
  AnswersAreCurrent
  KeepsTheNewest
