SPECIFICATION DownloadSpec
CONSTANTS
  h1 = h1
  Starts = {1, 2}
  Threads = {h1}
  Styles <- MCStyles
  MaxPings = 1
  MaxCuts = 1
INVARIANTS
  DownloadTypeOK
  EventsHandledOnce
  DoneMeansDownloaded
PROPERTIES
  DownloadSettles
CHECK_DEADLOCK FALSE
ACTION_CONSTRAINT FirstDisturbed
