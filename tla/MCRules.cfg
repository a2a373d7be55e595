\* Every question on bounded inputs; two calls on a builder.
SPECIFICATION Spec
CONSTANTS
  Null = Null
  Unset = Unset
  Malformed = Malformed
  Sample <- MCSample
  Histories <- MCHistories
  Filters <- MCFilters
  MonthStart <- MCMonthStart
  Clock <- MCClock
  Outages <- MCOutages
  Requests <- MCRequests
  Environments <- MCEnvironments
  Ids = {1, 2, 3}
  MaxCalls = 2
INVARIANTS ClientFits LoadersComplete OneAudience AvailabilityTrue ScopesKept ConfigSound
CHECK_DEADLOCK FALSE
