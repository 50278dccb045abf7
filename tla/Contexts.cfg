SPECIFICATION Spec
CONSTANTS
  Procs = {p1, p2}
  Ids = {"c1"}
  Texts <- MCTexts
  GivenLayers = {3, 4}
  GivenMarks = {"seal", "hard_delete"}
  Rules <- MCRules
  Fields <- MCFields
  Targets = {"local", "external"}
  Mixes <- MCMixes
  MaxEvents = 3
  MaxMarks = 2
  MaxPackages = 1
  MaxCrashes = 1
SYMMETRY Perms
CHECK_DEADLOCK FALSE
INVARIANT EditKeepsTheRest
INVARIANT PackagesKeepSecrets
INVARIANT ReviewStopsSensitive
INVARIANT PackageFilesComplete
INVARIANT PlanObeysRules
