SPECIFICATION Spec
CONSTANTS
  Half = 16
  PerMS = 3
  Slack = 7
  DefaultMaxWait = 1
  DefaultPoll = 1
  PollEnv = {{}, {0}, {2}, {8}, {11}, {12}}
  CallTime = 3
  Asked = {0, 2, 5, 13}
  Lag = 0
  Fails = 1
INVARIANTS
  TypeOK
  PromptlyTold
  OutcomeBeatsTimer
  PollRate
