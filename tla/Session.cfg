SPECIFICATION FairSpec
CONSTANTS
  Lines <- MCLines
  Blank <- MCBlank
  Upper <- MCUpper
  Cuts <- MCCuts
  Messages <- MCMessages
  Answers <- MCAnswers
INVARIANTS
  NoSelfDeadlock
  SplitIndependent
  ReplyIsToLogged
  ReadIsParsed
PROPERTIES
  AbandonedEnds
  WholeRequestEnds
CHECK_DEADLOCK FALSE
