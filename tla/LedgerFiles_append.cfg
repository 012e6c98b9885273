CONSTANTS
  Records <- SampleRecords
  Texts <- SampleTexts
  Agents = {"x", "y"}
  Unfit = {"bad", "lone"}
  Unencodable = {"lone"}
  Separated = {"sep"}
  MaxFaults = 1
SPECIFICATION FairSpec
INVARIANTS TypeOK SaidIsTaken AnswersOnDisk ReadAllComplete
PROPERTY AppendsEnd
CHECK_DEADLOCK FALSE
