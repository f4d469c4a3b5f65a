CONSTANTS
  Files <- SomeFiles
  Ips <- SomeIps
  Ports <- SomePorts
  Backlog = 2
  MaxClients = 3
  MayFail <- AllButConnect
SPECIFICATION FairSpec
INVARIANTS
  TypeOK
  ServerOutlivesThread
  ListensWhereTold
PROPERTIES
  QuitEnds
CHECK_DEADLOCK FALSE
