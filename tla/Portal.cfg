\* Every way through the handlers: starts of two types on one device, one under
\* another name of it, a viewer, a listing, a blank name, an invalid body.
CONSTANTS
  Requests = {"deploy", "override", "alias", "viewer", "list", "blank", "invalid"}
  Call <- MCCall
  Identities <- MCIdentities
  NoClient = NoClient
  NoRun = NoRun
SPECIFICATION Spec
INVARIANTS
  OnlyAliasesOverlap
  RunsAccountedFor
CHECK_DEADLOCK FALSE
