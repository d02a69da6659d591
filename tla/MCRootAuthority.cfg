SPECIFICATION ASpec
CONSTANTS
  p1 = p1
  p2 = p2
  Processes <- MCProcesses
  Keys <- MCKeys
  Values <- MCValues
  SdkValues <- MCSdkValues
  RootKey = "root-key"
  RootCertificate = "root-cert"
  Ipk = "ipk"
  NoValue = NoValue
  MaximumKeys = 4
  NoFile = NoFile
  NoProcess = NoProcess
  CommitLimit = 8
  CrashLimit = 2
SYMMETRY Symmetry
INVARIANTS
  WholeAuthority
  IdentityKept
PROPERTY StoreIsAtomic
CHECK_DEADLOCK FALSE
