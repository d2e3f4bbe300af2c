SPECIFICATION FairQueueSpec
CONSTANTS
  Tasks <- MCTasks
  Worker <- MCWorker
  Comparer <- MCComparer
  SystemOf <- MCSystemOf
  MaxDeaths = 1
INVARIANTS
  QueueTypeOK
  TasksAccounted
  ComparisonMissesFew
  ComparedOnce
PROPERTIES
  ResultsArrive
  TargetsCompared
