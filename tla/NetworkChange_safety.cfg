\* Every fault but those that change the device behind the workflow.
CONSTANTS
  Interfaces = {e1}
  OtherSections = {system}
  Descriptions = {d1, d2}
  OtherValues = {v1}
  Absent = Absent
  NotRendered = NotRendered
  Defects = {"none", "unfetchable", "unrenderable", "unhygienic"}
  MaxAttempts = 3
  Faults = {"ackLost", "intentEdit", "statusEdit"}
SPECIFICATION Spec
SYMMETRY Symmetry
INVARIANTS
  TypeOK
  RolledBackToBaseline
  OnlyHygienicIntentDeployed
  SuccessMeansIntended
PROPERTIES
  IsTransaction
