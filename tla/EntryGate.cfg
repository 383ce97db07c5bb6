CONSTANTS
  Keys <- MCKeys
  MaxCalls = 7
  MaxEffects = 2
SPECIFICATION FairSpec
INVARIANTS TypeOK KernelNeverReentered FlagsTellTheStack QueueLosesNothing DuplicatesAreCovered EffectsPrecedeLaterIngress FailureReportedOnce
PROPERTIES ReportSeesNoAuthority QueuedIngressBegins
