\* The provisioning loop always ends, even when the service never resolves.
SPECIFICATION Spec
CONSTANTS
  h1 = h1
  h2 = h2
  None = None
  Hubs <- MCHubs
  ArgCounts <- MCArgCounts
INVARIANT TypeOK
PROPERTY Termination
