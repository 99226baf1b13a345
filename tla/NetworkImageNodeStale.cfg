SPECIFICATION FairSpec
CONSTANTS
  URLs = {u1, u2}
  FileURLs = {}
  NoURL = NoURL
  NoImage = NoImage
  External = External
  Resets = {TRUE}
  Setups <- MCSetups
  MaxEvents = 3
PROPERTIES CanceledLookupIsDropped
CHECK_DEADLOCK FALSE
