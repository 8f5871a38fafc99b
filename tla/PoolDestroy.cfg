CONSTANTS
  Requests = {r1, r2, r3}
  Clients = {c1, c2, c3}
  Connections = 2
  NoClient = NoClient
SPECIFICATION Spec
PROPERTIES CallsSettleThroughDestroy
