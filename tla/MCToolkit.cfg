CONSTANTS
  Ybegin = Ybegin
  Ypart = Ypart
  Yend = Yend
  Absent = Absent
  Malformed = Malformed
  Failed = Failed
  Status = Status
  NoBody = NoBody
  Bodies <- MCBodies
  Releases <- MCReleases
  NoRelease = NoRelease
  MaxPacket = 8
  Unreadable = Unreadable
  Documents <- MCDocuments
  NoDocument = NoDocument
  Lt = Lt
  Gt = Gt
  Space = Space
  RefLt = RefLt
  RefGt = RefGt
  RefOther = RefOther
  Rejected = Rejected
  w1 = w1
  w2 = w2
  Logins = {l1, l2, l3}
  Ttls <- MCTtls
  Forever = Forever
  MaxClock = 4
  Invocations <- MCInvocations
  Unset = Unset
  Bad = Bad
  WithExtension <- MCWithExtension
  EnvironmentVariables <- MCEnvironmentVariables
  Packages = {p1, p2}
  MaxRuns = 2
SPECIFICATION Spec
INVARIANTS
  RepliesAsSent DecodedAsPosted SurvivorsAreFound OneVolumeIsEnough VerdictIsTheBytes ParsedAsWritten
  SecretIsFresh ExitTellsTheTruth SecretGoesWhereNamed SuccessMeansDeprecated
CHECK_DEADLOCK FALSE
