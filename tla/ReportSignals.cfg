\* Hooks write any rows while a commit or a range is reported on with a
\* matcher, a plugin and the local explainer.
SPECIFICATION FairSpec
CONSTANTS
  Tree <- SomeTree
  Rows <- SomeRows
  Sensitive = {"auth.go"}
  Manifests = {"go.mod"}
  TestFiles = {"auth_test.go"}
  ManyFiles = 1
  Regens = 2
  Window = 3001
  Matching = TRUE
  Plugins <- OnePlugin
  PluginReplies <- SomeReplies
  MaxLate = 2
  Requests <- SomeRequests
  Backend = "local"
INVARIANTS
  TypeOK
  SignalsBracketed
  NothingOverlooked
  ScoresAddUp
PROPERTY
  ReportEnds
\* Nobody is obliged to ask again.
CHECK_DEADLOCK FALSE
