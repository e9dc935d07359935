\* Lost acknowledgements, and an intent that is edited meanwhile; the SoT is
\* fetchable and renders, or no run would close.
CONSTANTS
  Interfaces = {e1}
  OtherSections = {system}
  Descriptions = {d1, d2}
  OtherValues = {v1}
  Absent = Absent
  NotRendered = NotRendered
  Defects = {"none", "unhygienic"}
  MaxAttempts = 3
  Faults = {"ackLost", "intentEdit"}
SPECIFICATION FairSpec
INVARIANTS
  OutcomeIsRecorded
PROPERTIES
  IsTransaction
  ChangesInOrder
  EventuallyCloses
