CONSTANTS
  alice = alice
  c1 = c1
  c2 = c2
  bob = bob
  Users = {alice, bob}
  Creator = alice
  Invitee = bob
  Creations = {c1, c2}
  Power <- MCPower
  Txns = {"t1"}
  Contents = {"c1"}
  Reasons = {"r1"}
  JoinRules = {"public", "knock"}
  Redactable = {"send"}
  RefusedRoutes = {"create", "creator_join", "bootstrap", "create_invite",
                   "send", "state", "redact", "join"}
  MaxEvents = 5
  MaxRefusals = 1
SYMMETRY Symmetric
SPECIFICATION Spec
INVARIANTS AdmissionInv CommittedOnce AcceptedIsTrue CreatedIsComplete
PROPERTIES BanHolds
CHECK_DEADLOCK FALSE
