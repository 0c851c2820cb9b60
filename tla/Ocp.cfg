SPECIFICATION OcpSpec
CONSTANTS
  Invocations <- OcpInvocations
  Capacity = 3
  Space = 24
  Byte = 8
  Clusters <- NodeLists
  Servers <- ServerAddresses
  Wants = {0, 1, 3, 5}
  Namespaces = {1, 2, 3, 4, 5}
  PerTenant = 2
  LastPriority = 2
INVARIANTS
  IInv HealthyCluster FlagsFirst ExitTells ConfigServed SetValuesUsed LoopsFully SubnetsFit RoomKept
  EgressAddresses InCidr TenantsCovered PrioritiesApart
PROPERTIES
  CommandExits CommandHolds
