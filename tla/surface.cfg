SPECIFICATION MCSpec
CONSTANTS
  Text <- MCText
  TextBefore <- MCTextBefore
  Digits <- ToString
  MaxPosition = 10
  MaxDepth = 2
  JsonDepth <- MCJsonDepth
  Objects <- MCObjects
  Results <- MCResults
  Modules <- MCModules
  MaxWaiting = 1
  Capabilities = {"log", "network"}
  Log = "log"
  Params <- MCParams
  PolicyParams <- MCPolicyParams
  SomeLimit = "5"
INVARIANTS
  PlainComesBack
  ModuleArrives
  OnlyYesBinds
  ProviderSeesGrant
PROPERTIES
  SettlesAfterOneCall
CHECK_DEADLOCK FALSE
