SPECIFICATION Spec
CONSTANTS
  w1 = w1
  w2 = w2
  r1 = r1
  r2 = r2
  Workers <- MCWorkers
  Rows <- MCRows
  Share <- MCShare
  Troubles = {"cancelled", "deadline", "memory", "function", "panic", "refused"}
  TupleLimit = 2
INVARIANTS
  NoRowMissing
  SilenceHasAReason
  PublishedBeforeReported
  AnswerIsDeserved
PROPERTIES
  EveryEvaluationAnswers
  PromiseSpec
