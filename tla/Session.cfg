\* A lossy, a jittery, a reordering and a duplicating link, with losses in a row the design
\* bears and others it does not; six ticks, a snapshot every second one.
SPECIFICATION Spec
CONSTANTS
  TickTime = 2
  Arena = 4
  Thrust = 3
  Step = 2
  Tolerance = 2
  MaxHistory = 8
  Redundancy = 2
  SnapshotEvery = 2
  Inputs <- MCInputs
  Unsaid = Unsaid
  Scenarios <- MCScenarios
  MaxTick = 6
INVARIANTS
  ClientTracksServer
  CorrectedForACause
  StarvedOnlyAtStartup
PROPERTY NeverBackwards
CHECK_DEADLOCK FALSE
