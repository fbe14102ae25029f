CONSTANTS
  MaxDepth <- MCMaxDepth
SPECIFICATION Spec
INVARIANT NoCollectDuringCall InhibitRestored
