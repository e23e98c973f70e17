\* One pull request that touches infrastructure, of which the owner pushes at
\* most once; three acts of people, completions of CI and faults together.
CONSTANTS
  Editors = {"owner", "other"}
  Owner = "owner"
  Editable = {"deploy-sandbox", "teardown-sandbox"}
  Files = {"control"}
  Kinds = {"instance", "volume"}
  Roots = 1
  MaxHead = 2
  MaxActs = 3
  MaxInbox = 1
SPECIFICATION Spec
INVARIANTS
  TypeOK
  NothingUnlabelled
  GateIsOfHead
PROPERTY
  TornDown
CHECK_DEADLOCK FALSE
