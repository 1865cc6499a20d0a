\* Without users nobody can ask for anything, and the stops are bounded.
CHECK_DEADLOCK FALSE
SPECIFICATION FairSpec
CONSTANTS
  None = None
  Fresh = Fresh
  Default = default
  Names = {default, a, b}
  Registered = {default, a}
  Keys = {k, l}
  Browsers = {p}
  MaxStops = 2
INVARIANTS TypeOK AccountsSurvive MarksSurvive CookiesStayValid SomeoneCanLogIn
PROPERTIES MarksTornOneByOne StartsServing
