SPECIFICATION Spec
CONSTANTS
  Top = 5
  MaxTemp = 5
  Flare = 1
  Warm = 1
  ProveRise = 1
  ExitRise = 2
  Hot = 4
  ProveS = 2
  HoldS = 1
  FlatS = 1
  Drop = 3
  Percent = 80
  ConfirmS = 1
  RelightProveS = 1
  IgniterMaxS = 2
  ProbeFaultS = 0
  SmokeMin = 4
  SetPoints = {4, 5}
  Retries = 1
INVARIANTS LightEnds IgniterIsCapped DeadPotIsNoticed
PROPERTIES ImplementsSupervisor
