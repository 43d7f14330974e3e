SPECIFICATION FairSpec
CONSTANTS
  s1 = s1
  s2 = s2
  a1 = a1
  a2 = a2
  d1 = d1
  d2 = d2
  d3 = d3
  dns = dns
  Sock <- MCSock
  Addr <- MCAddr
  Dst <- MCDst
  Dns <- MCDns
  Unroutable <- MCUnroutable
  NoAddr = NoAddr
  NoProcessor = NoProcessor
  MaxSends = 2
  MaxFlows = 2
  CheckTicks = 2
  IdleTicks = 4
  SendsCopied = TRUE
INVARIANTS
  TypeOK
  FlowOwnsEntry
  DeliveredAsSent
  AnswerBelongs
  IdleBounded
PROPERTIES
  IdleFlowsGo
  KeepsService
