CONSTANTS
  Packages = {"basic", "kit"}
  BasicKit = "basic"
  Contents <- MCContents
  Persona <- MCPersona
  Agents = {x1}
  Ops = {o1, o2}
  Limits <- MCLimits
  Torn = Torn
  None = None
  SkillsOf <- MCSkillsOf
  Calls = {1, 2}
  Budgets <- MCBudgets
SPECIFICATION MCSpec
INVARIANTS MarketInv AgentRegistryInv
CHECK_DEADLOCK FALSE
SYMMETRY Symmetry
