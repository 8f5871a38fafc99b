CONSTANTS
  Requests = {r1, r2, r3, r4}
  Clients = {c1, c2, c3, c4}
  Connections = 3
  NoClient = NoClient
SPECIFICATION Spec
INVARIANTS
  TypeOK OneOwnerPerClient QueueIsParked OpenCountsLive LiveWithinLimit
  NobodyParkedBesideIdle ParkedWillBeWoken
PROPERTIES
  FailedOnlyWhenNothingLive CallsSettle ContractSpec
