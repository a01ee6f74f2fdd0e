SPECIFICATION PFairSpec
CONSTANTS
  vm = vm
  lb = lb
  topic = topic
  strict = strict
  pubsub = pubsub
  vms = vms
  global = global
  regional = regional
  NoRef = NoRef
  Strict = strict
  StubType = {pubsub}
  EnrCall = {vms, global, regional}
  Ref <- MCRef
  Parts <- MCParts
  Tolerant = {}
  Listing <- MCListing
  ApiFault = {"denied", "invalid", "canceled"}
  EnrichCap = 1
  ChanCap = 1
PROPERTIES ClosesWhenCancelled
CHECK_DEADLOCK FALSE
