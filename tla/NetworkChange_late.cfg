\* A timed-out SET of an earlier attempt may land at any later time, after a
\* rollback too; nobody else configures the device.  The intent is fetchable.
CONSTANTS
  Interfaces = {e1}
  OtherSections = {system}
  Descriptions = {d1, d2}
  OtherValues = {v1}
  Absent = Absent
  NotRendered = NotRendered
  Defects = {"none", "unrenderable", "unhygienic"}
  MaxAttempts = 3
  Faults = {"ackLost", "lateSet"}
SPECIFICATION FairSpec
INVARIANTS
  NoThirdConfiguration
PROPERTIES
  EventuallyEnds
