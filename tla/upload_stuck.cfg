SPECIFICATION FairMessagingSpec
CONSTANTS
  p1 = p1
  p2 = p2
  p3 = p3
  w1 = w1
  w2 = w2
  k1 = k1
  k2 = k2
  hello = hello
  bye = bye
  None = None
  Hosted = {"transfer"}
  Requests = {p1, p2, p3}
  TxTimeout = 5
  NoUpload = None
  NoCall = None
  Scenes <- Crashes
  Completions = {p1}
  LastPart = 4
  MaxAssemblies = 3
  NoFile = None
  NoAssembly = None
  Uploaders = {p1, p2}
  Workers = {w1, w2}
  Attempts = 2
  MaxJobs = 2
  NoWork = None
  Files <- AllFiles
  Clients = {p1, p2}
  Readers = {p3}
  Keys = {k1, k2}
  Texts = {hello, bye}
  KeyText <- Honest
  NoSend = None
  NoKey = None
  Rooms <- AllSends
  Configs <- AllServers
PROPERTIES EndsEventually
CHECK_DEADLOCK FALSE
