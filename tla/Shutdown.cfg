SPECIFICATION Spec
CONSTANTS
  insert = insert  delete = delete  sink = sink
  runaway = runaway  quick = quick  STOP = STOP
  Calls = {insert, delete, sink}
  Streams = {sink}
  Reads = {runaway, quick}
  Runaway = {runaway}
  Statements = 2
  Workers = 1
INVARIANTS TypeOK ConnOutlivesUsers NoStreamStranded Drained
PROPERTIES BegunIsAnswered Served CloseEnds QueriesReturn
CHECK_DEADLOCK FALSE
