\* One session of two players over five ticks, and two sessions over three.
SPECIFICATION Spec
CONSTANTS
  Inputs = {idle, fire}
  idle = idle
  fire = fire
  Default = idle
  Players = {p1, p2}
  p1 = p1
  p2 = p2
  MaxRollback = 2
  InputHistory = 4
  Games <- MCGames
INVARIANTS
  TruthPrevails
  WindowIsSaved
  SavedStatesAreThePast
  ResimulationReproduces
  PeersAgree
PROPERTIES
  CompleteStateIsFinal
SYMMETRY Symmetry
CHECK_DEADLOCK FALSE
