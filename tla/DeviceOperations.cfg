\* Two runs of either kind; the intent is edited between and during them.
CONSTANTS
  Interfaces = {e1}
  OtherSections = {}
  Descriptions = {d1, d2}
  OtherValues = {v1}
  Absent = Absent
  NotRendered = NotRendered
  Defects = {"none", "unhygienic"}
  MaxAttempts = 2
  Faults = {"ackLost", "intentEdit"}
  MaxStarts = 2
SPECIFICATION Spec
SYMMETRY Symmetry
INVARIANTS
  BaselineKept
  ReportIsTrue
