SPECIFICATION Spec
CONSTANTS
  vm = vm
  fn = fn
  topic = topic
  strict = strict
  pubsub = pubsub
  vms = vms
  run = run
  functions = functions
  NoRef = NoRef
  Strict = strict
  StubType = {pubsub}
  EnrCall = {vms, run, functions}
  Ref <- MCRef
  Parts <- MCParts
  Tolerant = {2}
  Listing <- MCListing
  ApiFault = {"denied", "canceled", "rpcCanceled"}
  EnrichCap = 1
  ChanCap = 1
  ScanBatch = 2
  StoreFaults = FALSE
INVARIANT InterruptLeavesRunning
CHECK_DEADLOCK FALSE
