\* The watcher: four files (one that is defined and deleted, a rival definition,
\* a caller that starts to import or defines a fallback, a star barrel that may
\* define the name too), chains of one hop, four events, every fault once,
\* stop() at any time.  The memories: two functions, four trees to start from.
\* A stopped watcher does nothing more: no deadlock check.
SPECIFICATION IndexSpec
CONSTANTS
  n = n
  Names = {n}
  Files <- MCFiles
  External = External
  MaxHops = 1
  NoFile = NoFile
  Absent = Absent
  Texts <- MCTexts
  Deletable = {2}
  ClosureBudget = 1
  WatcherFaults = {"read", "store", "context"}
  MaxEvents = 4
  MayStop = TRUE
  a = a
  b = b
  c = c
  first = first
  second = second
  here = here
  there = there
  x = x
  y = y
  Paths = {here, there}
  Symbols = {a, b, c}
  Bodies = {x, y}
  Functions = {first, second}
  Contents = {"note"}
  Starts <- MCStarts
  Nobody = Nobody
INVARIANTS WatcherTypeOK QueueIsArmed NothingForgotten EdgesHaveNodes DivergesOnlyAsKnown
  MemoryTypeOK RetiredStaysRetired
PROPERTIES CarriesItsOwn LostOnlyAsKnown
CHECK_DEADLOCK FALSE
