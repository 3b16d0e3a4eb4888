CONSTANTS
  c1 = c1
  c2 = c2
  c3 = c3
  NoConn = NoConn
  Conns <- ConnSet
  Timeouts <- TimeoutSet
  MaxOpen = 3
SPECIFICATION FairSpec
INVARIANTS Safe
PROPERTIES LoneQuestionAnswered AnsweredOnce
