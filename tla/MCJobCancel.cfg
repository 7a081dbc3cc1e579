\* One run that finished an HTTP request is cancelled.
CONSTANTS
  Run = {r1}
  MaxJobs = 1
  Caller = {c1}
  Stopper = Stopper
  Kind = {"child", "reply"}
SPECIFICATION Spec
INVARIANT CancelStopsTheJobOnly
