SPECIFICATION NamesSpec
CONSTANTS
  h1 = h1
  h2 = h2
  c1 = c1
  c2 = c2
  c3 = c3
  Hosts = {h1, h2}
  Closures = {c1, c2, c3}
  Programs <- MCPrograms
  PassesBefore = 1
  PassesAfter = 2
  None = None
  t1 = t1
  t2 = t2
  Types = {t1, t2}
  InvariantImpls <- MCInvariantImpls
INVARIANTS
  TypeOK
  ClosureIsInOnePlace
  SpecClosuresReferencedOnce
  ContractsInOrder
  NoEncodingLeft
  CleanupReachesEveryBody
  NamesTellNesting
PROPERTIES
  EveryBodyGetsNamed
