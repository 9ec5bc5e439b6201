CONSTANTS
  e1 = e1
  e2 = e2
  e3 = e3
  e4 = e4
  Email = {e1, e2, e3, e4}
  NoEmail = NoEmail
  Card = {c1, c2}
  NoCard = NoCard
  SlashlessMin = 6
  Message <- MCMessage
  About <- MCAbout
  Allowlist <- MCAllowlist
  Backends = {"llm", "regex"}
  Date <- MCDate
  PageMax = 2
  MayFail <- SomeCalls
  Budget <- MCBudget
  MaxKinds = 7
SPECIFICATION FairSpec
INVARIANTS CommentOnItsOwnClaim
PROPERTIES ImplementsPipeline EveryEmailSettles NoticeReachesItsClaim FallbackClassIsTrue
