CONSTANTS
  c1 = c1
  c2 = c2
  Clients <- MCClients
  NoClient = NoClient
  Arguments <- MCArguments
SPECIFICATION FairSpec
INVARIANTS DaemonSurvives AnswersFit
 
CHECK_DEADLOCK FALSE
