SPECIFICATION Spec
CONSTANTS
  Absent = Absent
  MasterKeys <- MCRoots
  Issuer = "licenselatte"
  MaxGrace = 4
  MaxAge = 5
  RenewAfter = 1
  NeverExpires = 11
  Entries <- MCEntries
  Machine = "m1"
  Names <- MCNames
  Ents <- MCEnts
  Horizon = 12
INVARIANT RecoversByItself
CHECK_DEADLOCK FALSE
