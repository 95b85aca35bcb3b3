SPECIFICATION Spec
CONSTANTS
  s1 = s1
  Sessions = {s1}
  CallKinds <- MCKinds
  Model <- MCModel
  Reports <- MCReports
  PromptTokens = 6
  CompletionCap = 4
  PerMillion = 10
  MaxSafe = 40
CHECK_DEADLOCK FALSE
INVARIANTS OneAnswers OneEnd OutcomesAgree ChargesBounded
PROPERTIES AbortsEnd
