SPECIFICATION OnePart
CONSTANTS
  IdleBudget = 2
  TotalBudget = 3
  MaxAttempts = 2
  QueueSize = 1
  MaxChunks = 2
  Texts <- ShortTexts
  Word <- Think
  Providers = {pa, pb}
  Models = {ma, mb}
  pa = pa
  pb = pb
  ma = ma
  mb = mb
  Unset = Unset
  Requests = {r1, r2}
  r1 = r1
  r2 = r2
  Chats = {t1}
  t1 = t1
  DefaultModel <- Catalogue
  FallbackProvider = pa
  ConfigProvider = pb
  ConfigModel = mb
  MaxUses = 2
  Emails = {"root", "u"}
  Root = "root"
  MaxCalls = 4
  MaxOpen = 2
  SignupAllowed = TRUE
  Named = {1, 2}
  Titles = {"A", "B"}
  MaxRenames = 2
  MaxTitling = 2
CHECK_DEADLOCK FALSE
INVARIANTS
  ServicesTypeOK
  AnswerIsOneAttempt
  SplitsAlike
  ChoiceHolds
  BillsTrue
  TokensHold
  OwnedApart
  NamesApart
PROPERTIES
  WorkEnds
