CONSTANTS
  Host = host
  Manual = {}
  Reader = {page}
  NoSnapshot = NoSnapshot
  NoTime = NoTime
  NoError = NoError
  Message = {failed}
  MaxVersion = 2
  MaxTime = 2
SPECIFICATION Spec
INVARIANTS
  TypeOK
  ReadyStatusHasTime
PROPERTIES
  KeepsPromise
  ShownTimeNeverGoesBack
  StopShortensHost
