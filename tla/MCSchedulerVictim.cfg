SPECIFICATION TraceSpec
CONSTANTS
  Jobs <- MCJobs
  Priority <- MCPriority
  Arrival <- MCArrival
  Need <- MCNeed
  Durations = {1, 2, 3}
  Nodes <- MCNodes
  Total <- MCTotal
  MaxTicks = 6
PROPERTIES
  PreemptionHelps
