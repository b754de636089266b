\* All programs of three items, two clients, room for every thread; under fairness
\* everybody is answered, with the right value.
SPECIFICATION FairEvalSpec
CONSTANTS
  NumItems = 3
  Items <- MCItems
  Threads <- MCItems
  NoThread = NoThread
  Clients = {api, oport}
  Programs <- MCPrograms
  MaxStack = 3
  NumAceThreads = 3
INVARIANTS EvalTypeOK QueueConsistent OneEvaluator SomebodyWorks
PROPERTIES EveryoneAnswered CallByNeed
