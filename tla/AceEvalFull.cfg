\* Stacks too small to enter anything on, and a queue with no room for every item's
\* thread: the failure "out of threads".
SPECIFICATION EvalSpec
CONSTANTS
  NumItems = 3
  Items <- MCItems
  Threads <- MCItems
  NoThread = NoThread
  Clients = {api, oport}
  Programs <- MCPrograms
  MaxStack = 2
  NumAceThreads = 2
SYMMETRY Symmetry
INVARIANTS SoundValues
