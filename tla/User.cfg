\* Two runs ask three questions, two users answer and cancel; four tool calls
\* that need consent, of which two are of one tool.  Nobody emits.
SPECIFICATION MCSpec
CONSTANTS
  Scopes = {"question", "in turn", "free"}
  Emitters = {e1}
  once = e1
  Subscribers = {}
  Owner = owner
  Kinds = {a}
  Capacity = 1
  BusCloses = FALSE
  MaxEvents = 0
  MaxCancels = 0
  StreamCapacity = 1
  MaxDeltas = 0
  MaxOthers = 0
  Askers = {a1, a2}
  Responders = {u1, u2}
  MaxQuestions = 3
  c1 = c1  c2 = c2  c3 = c3  c4 = c4
  shell = shell  edit = edit  read = read
  Calls = {c1, c2, c3, c4}
  ToolOf <- SomeTools
  Safe = {read}
  None = None
INVARIANTS
  AnswersStayWithTheirQuestion
  DecisionsFindTheirCall
PROPERTIES
  AnsweredReturn
CHECK_DEADLOCK FALSE
