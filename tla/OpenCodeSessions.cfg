SPECIFICATION FairSessionSpec
CONSTANTS
  Driver = driver
  Others = {other}
  MaxTasks = 2
INVARIANTS CompletedIsAnswered OneTaskAtATime
PROPERTIES AnswerIsSeen
CHECK_DEADLOCK FALSE
