\* One run whose process was started through sudo times out.
CONSTANTS
  Run = {r1}
  MaxJobs = 1
  Caller = {c1}
  Stopper = Stopper
  Kind = {"child", "privileged"}
SPECIFICATION Spec
INVARIANT TimeoutIsEnforced
