\* Narrow and broad targets at every budget, ingested or handed over as a map.
CONSTANTS
  Maps <- SampleMaps
  Texts <- SampleTexts
SPECIFICATION IntakeSpec
CHECK_DEADLOCK FALSE
INVARIANTS EveryLaneAccounted CapRespected DropsRespectPriority SpecialistsRun EvidenceFires
