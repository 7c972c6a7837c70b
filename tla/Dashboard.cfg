SPECIFICATION Spec
CONSTANTS
  a1 = a1
  a2 = a2
  Alerts = {a1, a2}
  Second <- Seconds
  Cap = 3
  Channel = 2
  None = None
INVARIANTS LiveOnce NothingVanishes DiagnosisArrives
