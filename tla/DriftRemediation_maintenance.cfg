\* An operator sets the status while the workflow runs.
CONSTANTS
  Interfaces = {e1}
  OtherSections = {system}
  Descriptions = {d1}
  OtherValues = {v1}
  Absent = Absent
  NotRendered = NotRendered
  Defects = {"none"}
  MaxAttempts = 1
  Faults = {"statusEdit"}
SPECIFICATION Spec
PROPERTIES
  MaintenanceNeverTouched
