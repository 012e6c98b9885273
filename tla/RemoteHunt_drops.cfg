\* The same lane; records the server rejects.
CONSTANT Emissions <- MixedEmissions
SPECIFICATION Spec
CHECK_DEADLOCK FALSE
INVARIANT RejectsReachTheOrchestrator
