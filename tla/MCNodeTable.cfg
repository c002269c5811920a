\* Every shape of row in pairs; two administrator's steps on a plain row.
SPECIFICATION Spec
CONSTANTS
  HostOf <- MCHostOf
  IPv4 <- MCIPv4
  IPv6 <- MCIPv6
  Loopback <- MCLoopback
  PortFallbacks <- MCPortFallbacks
  PublicIP <- MCPublicIP
  Tables <- MCTables
  InboundForms <- MCInboundForms
  ImportItems <- MCImportItems
  Emails <- MCEmails
  Uuids <- MCUuids
  NewUuid = "fresh"
  Expiries <- MCExpiries
  Rules <- MCRules
  Outbounds <- MCOutbounds
  Presets <- MCPresets
  Domain <- MCDomain
  OccupiedPorts <- MCOccupiedPorts
  SubRequests <- MCSubRequests
  TTL = 1
  MaxTime = 3
  MaxFills = 1
INVARIANTS  RulesWorkAlike  DeployedAcceptsOnlyRows PresetsFit CachedAnswersHold
CHECK_DEADLOCK FALSE
