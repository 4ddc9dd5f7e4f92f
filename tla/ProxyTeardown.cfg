SPECIFICATION FairSpec
CONSTANTS
  None = None
  ClientIds = {c1}
  ServerIds = {s1}
  Tools = {safe, shadow}
  Blocked = {}
  Allowed = {safe}
  Strict = TRUE
  Guardrails = TRUE
  Mode = "audit"
  Strip = TRUE
  PipeCap = 2
  Listings = {{safe}, {safe, shadow}}
  Frames = {"text"}
  LogFaults = FALSE
  ServerFaults = TRUE
  ClientFaults = FALSE
  Stubborn = FALSE
  Signals = {"INT"}

  
PROPERTIES
  Answered
  HangUpEnds
CHECK_DEADLOCK FALSE
