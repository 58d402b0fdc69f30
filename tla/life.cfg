SPECIFICATION Spec
CONSTANTS
  Absent = Absent
  MasterKeys <- MCRoots
  Issuer = "licenselatte"
  MaxGrace = 4
  MaxAge = 5
  RenewAfter = 1
  NeverExpires = 11
  Entries <- MCEntries
  Machine = "m1"
  Names <- MCNames
  Ents <- MCEnts
  Horizon = 12
INVARIANTS
  AcceptedExactlyInWindow
  WarnedUntilTheEnd
  EntitlementsAsSet
  TooOldNeverRaised
  OnlyOwnTokensRenewed
  HardExpiryReported
PROPERTIES
  LapseIsFinal
  SignedStaysSigned
  RecoversUnlessSubmasterLapsed
\* The clock stops at Horizon.
CHECK_DEADLOCK FALSE
