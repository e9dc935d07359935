\* The documented release of the workflow ID; the intent is fetchable.
CONSTANTS
  Interfaces = {e1}
  OtherSections = {system}
  Descriptions = {d1}
  OtherValues = {v1}
  Absent = Absent
  NotRendered = NotRendered
  Defects = {"none", "unrenderable", "unhygienic"}
  MaxAttempts = 3
  Faults = {"ackLost"}
SPECIFICATION FairSpec
PROPERTIES
  EventuallyCloses
