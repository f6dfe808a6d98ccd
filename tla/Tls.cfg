CONSTANTS
    TlsModes = {"half", "full"}
    MaxRecords = 2
    MaxTlsOps = 3
    MaxStops = 1
    MaxSettings = 2
SPECIFICATION MCSpec
INVARIANTS
  
  TlsVerdicts
  
CHECK_DEADLOCK FALSE
