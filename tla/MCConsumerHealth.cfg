SPECIFICATION Spec
CONSTANTS
  Window = 2
  MinSuccessRate = 50
  MaxFailures = 2
  None = None
  MaxNow = 5
  MaxMessages = 5
INVARIANTS
  MetricsDescribeHistory
  HealthMeans
  BusyTimeWithinUptime
