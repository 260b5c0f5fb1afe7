CONSTANTS
  Sessions = {sa, sb}
  NewSessions = {sb}
  Prompts = {p1, p2}
  Conns = {1, 2, 3}
  Refreshes = {1, 2}
  Budgets <- MCBudgets
  None = None
  Builtins = {b}
  Customs = {c}
  Values = {0, 1}
  MaxHandlers = 2
  NoId = NoId
  NewId = NewId
  NoRow = NoRow
  MaxHeight = 2
  Duration = 2
  MaxActs = 2
  Models = {m1, m2}
  Tiers = {medium}
  DefaultTier = medium
  TaskFields = {"chat", "titleGeneration"}
  FollowChat = follow_chat
  NoStrategy = NoStrategy
  PageBudgets <- MCPageBudgets
SPECIFICATION MCSpec
INVARIANTS WebChatInv SettledScreen ScrollInv SettingsInv
SYMMETRY PromptSymmetry
CHECK_DEADLOCK FALSE
