CONSTANTS
  r1 = r1
  r2 = r2
  main = main
  binder = binder
  null = null
  Requests = {r1, r2}
  Main = main
  Binder = binder
  None = null
  MaxInstances = 3
  MaxStops = 2
SPECIFICATION Spec
CONSTRAINT UpToDisturbance
INVARIANTS TypeOK AnsweredOnce OnlyStdinIsLeft
CHECK_DEADLOCK FALSE
PROPERTIES StopsEnd
