CONSTANTS
  Programs <- MCSupported
  Numel = 2
  MaxCached = 3
SPECIFICATION Spec
INVARIANT SupportedRuns
