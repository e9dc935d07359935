\* Lost acknowledgements; changes that overwrite, add, or do both; the intent,
\* which this workflow does not read, is edited meanwhile.
CONSTANTS
  Interfaces = {e1}
  OtherSections = {system}
  Descriptions = {d1, d2}
  OtherValues = {v1}
  Absent = Absent
  NotRendered = NotRendered
  Defects = {"none"}
  MaxAttempts = 3
  Faults = {"ackLost", "intentEdit"}
SPECIFICATION FairSpec
INVARIANTS
  UnsettledInMaintenance
  ChangeIsAudited
PROPERTIES
  IsTransaction
  TtlHonoured
  EventuallyCloses
