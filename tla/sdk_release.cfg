SPECIFICATION Spec
CONSTANTS
  Sdks = {s1}
  Callers = {c1, c2}
  Workers = {w1}
  SdkOf <- OneSdk
  Activations = {a1, a2}
  Keys = {k1}
  KeyOf <- OneKey
  LicenseEnd <- Ends2
  Machine = "m1"
  Grace = 1
  ChainLife = 2
  MinInterval = 1
  Start = 2
  MaxClock = 3
  None = None
  InitialFiles <- SoundFiles
  Calls = {"activate", "deactivate", "check"}
  Forgeries = {"forged"}
  IoMayFail = FALSE
  StartMayFail = TRUE
  CrashMay = TRUE
  ClockMayStepBack = TRUE
  Absent = Absent
  MasterKeys <- Roots
  Issuer = "licenselatte"
  MaxGrace = 4
  MaxAge = 5
  RenewAfter = 1
  NeverExpires = 20
  a1 = a1
  a2 = a2
  k1 = k1
  k2 = k2
  s1 = s1
INVARIANTS
  ReleasedNotCached
SYMMETRY CallerSymmetry
