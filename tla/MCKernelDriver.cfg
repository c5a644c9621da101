CONSTANTS
  UsableFrames <- MCUsable
  AcpiFrame <- MCAcpiFrame
  Machines <- MCMachines
  Tables = {"madt", "hpet"}
  Blocks = {"b1", "b2", "b3", "b4"}
SPECIFICATION Spec
INVARIANTS
  FailureIsReported
