\* Two goroutines that emit, one of them twice, two subscribers with any filter
\* that cancel up to twice, and a bus that may be closed; and a stream with room
\* for two fragments, whose run emits two and another run one.
SPECIFICATION MCSpec
CONSTANTS
  Scopes = {"bus", "stream"}
  Emitters = {e1, e2}
  once = e2
  Subscribers = {s1, s2}
  Owner = owner
  Kinds = {a}
  Capacity = 1
  BusCloses = TRUE
  MaxEvents = 2
  MaxCancels = 2
  StreamCapacity = 2
  MaxDeltas = 2
  MaxOthers = 1
  Askers = {}
  Responders = {}
  MaxQuestions = 0
  c1 = c1  c2 = c2  c3 = c3  c4 = c4
  shell = shell  edit = edit  read = read
  Calls = {}
  ToolOf <- SomeTools
  Safe = {}
  None = None
INVARIANTS
  NeverPanics
  EmitReachesEverySubscriber
  InOrderOfEmission
PROPERTIES
  EmitReturns
  StreamEndsOrPanics
CHECK_DEADLOCK FALSE
