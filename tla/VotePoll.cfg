CONSTANTS
  q1 = q1
  q2 = q2
  tabs = tabs
  Questions <- MCQuestions
  Options <- MCOptions
  Seeds = 2
  MaxVotes <- MCMaxVotes
  MaxFaults = 2
SPECIFICATION Spec
INVARIANTS TypeOK NeverOvercounts Counted
PROPERTY PollOpens
CHECK_DEADLOCK FALSE
