\* Signals, extensions and expiry in every order; lost answers and reports; a
\* restart of the worker at any moment; the intent the revert merges is edited.
CONSTANTS
  Interfaces = {e1}
  OtherSections = {}
  Descriptions = {d1}
  OtherValues = {v1}
  Absent = Absent
  NotRendered = NotRendered
  Defects = {"none"}
  MaxAttempts = 2
  Faults = {"ackLost", "reportLost", "intentEdit", "workerRestart"}
  MaxDuration = 1
  MaxExtensions = 2
  MaxMiscounts = 1
SPECIFICATION FairSpec
INVARIANTS
  WindowHonoured
  LifecycleTruthful
  MetricsTruthful
PROPERTIES
  Lifecycle
  EventuallyCloses
