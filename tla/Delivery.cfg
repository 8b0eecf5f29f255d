SPECIFICATION MCSpec
CONSTANTS
  d = d  r = r  g = g  h1 = h1  h2 = h2
  Assets = {a1, a2}
  PoolMode = "exclusive"
  MaxAllocations = 2
  DeliveryOrders = {d}
  RecipeOrders = {r}
  AssignmentOrders = {g}
  NoOrder = none
  Primary <- MCPrimary
  FallbackSources <- MCFallback
  Rules <- MCRules
  PanelSources = {"panel", "rule"}
  Required = {"stock", "stock rule"}
  Quantity <- MCQuantity
  RuleMode <- MCRuleMode
  StrictOrders = {d}
  MaxDeliveryFaults = 1
  MaxEdits = 2
  TrialHandlers = {h1, h2}
  MaxTrials = 3
  MaxTrialFaults = 1
INVARIANTS TypeOK SoldOnce SourceQuota CompletedIsDelivered OneTrialPerCooldown
CHECK_DEADLOCK FALSE
SYMMETRY Symmetry
