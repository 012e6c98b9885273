\* One lane over A2A: losses, orphans, retries on both sides.
CONSTANT Emissions <- MixedEmissions
SPECIFICATION FairSpec
CHECK_DEADLOCK FALSE
INVARIANTS TypeOK OneAnswerOnly RetriesShow
PROPERTY EverythingStops
