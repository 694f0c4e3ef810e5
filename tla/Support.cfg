\* One user, two requests at a time; a history of two messages.
SPECIFICATION Spec
CONSTANTS
  Users = {ann}
  Requests = {r1, r2}
  r1 = r1
  r2 = r2
  weather = weather
  Questions = {weather, setup}
  setup = setup
  Features <- MCFeatures
  HistoryLimit = 2
  MaxRating = 1
  MaxSessions = 2
  MaxStamp = 4
SYMMETRY RequestsAlike
INVARIANTS TypeOK NoneIsLate DoublesOverlap AskIsAnswered
PROPERTIES ResolvedStays
