SPECIFICATION KeysSpec
CONSTANTS
  p1 = p1
  p2 = p2
  h1 = h1
  h2 = h2
  away = away
  u1 = u1
  bad = bad
  corp = corp
  CORP = CORP
  none = none
  alice = alice
  bob = bob
  c1 = c1
  c2 = c2
  c3 = c3
  NoVal = NoVal
  Procs <- TwoProcs
  Requests <- Lines
  Addresses <- Lookup
  Lower <- LowerCase
  BadNames <- Bad
  Others <- OneOther
  Stashed <- Earlier
  MaxFailures = 2
  KeyRequests <- Asked
  LowerHost <- Names
  Canonical <- Domains
  NameOf <- ByAddress
  Services <- Known
  KeytabUsers <- InKeytab
  CacheNames <- Scanned
  CacheOwner <- Owners
  LastEnd = 2
  MaxRenewals = 1
  Winbind <- Mapped
CHECK_DEADLOCK FALSE
INVARIANTS
  KeysAreRestricted
  ClearedIsGone
  TicketIsRight
  BestIsLongest
PROPERTIES
  StashedIsKept
  CommandsEnd
  RequestEnds
