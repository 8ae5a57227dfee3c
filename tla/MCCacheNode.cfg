CONSTANTS
  a = a
  b = b
  Elsewhere = Elsewhere
  OtherFiles <- MCOtherFiles
  Nobody = Nobody
  Clients <- MCClients
  Scripts <- MCScripts
  FirstSock = 1
  LastSock = 2
  BufferSize = 4
  HeaderLength = 1
  RecordLength = 1
SPECIFICATION NodeFairSpec
CHECK_DEADLOCK FALSE
INVARIANTS TableTellsSockets EventsAreFresh MessagesAreFromTheirSession RecordsOfASession OnlyOthersEndTheNode
PROPERTIES SentIsCached NobodyLeftWaiting DescriptorsComeBack
