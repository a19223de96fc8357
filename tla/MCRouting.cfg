SPECIFICATION Spec
CONSTANTS
  Users = {u1, u2}
  Jobs <- AllJobs
  Overlap <- MixOverlap
  Ids = {1, 2}
  Plain <- SmartKeys
  Tries = 2
  Faults = {"fail", "put", "delete", "claim", "look", "kill", "unplug", "stale", "move", "restart"}
  MaxFaults = 2
SYMMETRY Symmetry
INVARIANTS TypeOK OwnerMarks Traceable MixAgrees
PROPERTIES SuccessIsTrue StepsCount NoCommandTakesForeign
