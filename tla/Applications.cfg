SPECIFICATION Spec
CONSTANTS
  Slug = {orders, billing}
  Code = {prod}
  Req = {r1, r2}
  MaxTokens = 3
SYMMETRY Symmetry
INVARIANTS
  TypeOK
  TokensAccounted
  NoDeadTokenPasses
  ListsAreCurrent
