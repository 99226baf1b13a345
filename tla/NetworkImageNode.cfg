SPECIFICATION FairSpec
CONSTANTS
  URLs = {u1, u2}
  FileURLs = {u2}
  NoURL = NoURL
  NoImage = NoImage
  External = External
  Resets = {FALSE}
  Setups <- MCSetups
  MaxEvents = 3
INVARIANTS DownloadMatchesURL LoadedIsCurrent
PROPERTIES NoForeignImage LoadsWhenWanted
CHECK_DEADLOCK FALSE
