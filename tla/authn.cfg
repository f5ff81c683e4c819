CONSTANTS
  Uri = {"uri1", "uri2"}
  Key <- MCKey
  Caller = {c1, c2}
  FirstKeys <- MCFirstKeys
  MinLife = 0
  MaxLife = 0
  MaxTime = 2
  MaxTurns = 1
  None = None
  App = {"app1", "app2"}
  Jwt <- MCJwt
  FederationRow <- MCFederationRow
  FederatedIdn <- MCFederatedIdn
SPECIFICATION FairFederationSpec
CHECK_DEADLOCK FALSE
INVARIANTS
  TypeOK
  AsPublished
  FetchOnlyWhenStale
PROPERTIES
  ServedInTime
  GenuineAtAcceptance
  RefusedForCause
  ChecksReturn
