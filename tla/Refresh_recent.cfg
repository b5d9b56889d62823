CONSTANTS
  Host = host
  Manual = {tab}
  Reader = {}
  NoSnapshot = NoSnapshot
  NoTime = NoTime
  NoError = NoError
  Message = {failed}
  MaxVersion = 1
  MaxTime = 1
SPECIFICATION Spec
PROPERTIES
  CurrentIsMostRecent
