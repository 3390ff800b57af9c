SPECIFICATION SceneSpec
CONSTANTS
  Commands <- MCCommands
  MaxCounted = 2
  MaxTunnels = 2
  Plans <- MCPlans
  Canon <- MCCanon
  Loopback = {"l"}
  Denied = {"d"}
  Background = {"b"}
  TypeOrder <- MCTypeOrder
  MaxEvents = 3
  MaxTypes = 2
  Overhead = 2
  UnknownHeaders = 2
  VolumeSlack = 1
  TimeSlack = 1
  MaxGap = 1
  IdleMax = 2
  Resolution = 2
  Negotiation = 1
  Handshake = 2
  MaxTime = 3
  Values <- MCValues
  Numerals <- MCNumerals
  Glues <- MCGlues
  Tails <- MCTails
  MaxNumbers = 2
  MaxZeros = 4
INVARIANTS
  CommandEndsTruly
  EventsAreThePrefix
  BytesAreShared
  ReportedHostsAreExplained
  PagesAreTimed
  OnlyBypassIsReported
  NumbersAreRead
CHECK_DEADLOCK FALSE
