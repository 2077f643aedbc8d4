\* One transfer, two requests at once, every fault, polled again and again.
SPECIFICATION FairSpec
CONSTANTS
  a1 = a1
  a2 = a2
  w1 = w1
  w2 = w2
  None = None
  Actions = {a1}
  Workers = {w1, w2}
  MaxHistory = 3
  Faults = {"timeout", "refusal", "blank", "reorder", "crash"}
INVARIANT FinalIsTrue
INVARIANT NotificationOnce
INVARIANT SubmittedIsTracked
PROPERTY PollingReconciles
