SPECIFICATION FairSpec
CONSTANTS
  Callers = {c1, c2}
  MaxVersion = 3
  NoOne = NoOne
INVARIANTS
  FetchOnlyWhenStale
  AnswerNotOlder
  SomebodyGoesOn
PROPERTIES
  NeverOlder
  ImplementsCache
  CallReturns
