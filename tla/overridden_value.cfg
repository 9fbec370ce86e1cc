SPECIFICATION SetupSpec
CONSTANTS
  t1 = t1
  t2 = t2
  n1 = n1
  n2 = n2
  p1 = p1
  Absent = Absent
  NotPem = NotPem
  NoTab = NoTab
  NoCreds = NoCreds
  NoFile = NoFile
  EmptyFile = EmptyFile
  NoBody = NoBody
  Tabs = {t1, t2}
  Conns = {n1, n2}
  Keys <- MCKeys
  Values <- MCValues
  ConfigKeys <- MCConfigKeys
  EditableKeys <- MCConfigKeys
  ModelKeys <- MCModelKeys
  NginxKeys <- MCNginxKeys
  Shown <- MCShown
  MaxEdits = 1
  Typed <- MCTyped
  VhostSlots = {"sm"}
  Pairs = {p1}
  Creds = {"ann", "bob"}
  Encoding <- MCEncoding
  InitialFiles <- OverriddenFiles
  Troubles = {}
PROPERTIES
  ActiveUpdatedInPlace
CHECK_DEADLOCK FALSE
