SPECIFICATION Spec
CONSTANTS
  N = 3
  Delay <- CodeDelay
  Edges = 2
INVARIANTS NoEdgeForgotten NoAnswerInvented AnsweredInTime
PROPERTY EveryEdgeAnswered
