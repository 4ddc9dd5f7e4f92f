SPECIFICATION Spec
CONSTANTS
  None = None
  ClientIds = {c1, c2}
  ServerIds = {s1}
  Tools = {safe, shadow}
  Blocked = {}
  Allowed = {safe}
  Strict = TRUE
  Guardrails = TRUE
  Mode = "block"
  Strip = TRUE
  PipeCap = 1
  Listings = {{safe}, {safe, shadow}}
  Frames = {"text", "batch"}
  LogFaults = TRUE
  ServerFaults = TRUE
  ClientFaults = TRUE
  Stubborn = TRUE
  Signals = {"TERM"}
INVARIANTS
  TypeOK
  ListFiltered
  OneAnswer
  PendingExact
  
CHECK_DEADLOCK FALSE
