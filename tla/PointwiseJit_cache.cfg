CONSTANTS
  Programs <- MCPrograms
  Numel = 2
  MaxCached = 3
SPECIFICATION Spec
INVARIANTS TypeOK CachedBuilt NearKernel BackendsAgree
