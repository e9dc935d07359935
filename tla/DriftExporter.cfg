\* The exporter ends when its first poll fails, if its port is taken, or when its bounded polls are done.
CONSTANTS
  Devices = {d1, d2}
  MaxPolls = 3
  MaxFailures = 1
CHECK_DEADLOCK FALSE
SPECIFICATION ExporterFairSpec
INVARIANTS
  GaugesAgree
  FreshAsStamped
  ScrapesAreCoherent
PROPERTIES
  PollsGoOn
