\* An HTTP error or a failed registration still prints credentials, built on None.
SPECIFICATION Spec
CONSTANTS
  h1 = h1
  h2 = h2
  None = None
  Hubs <- MCHubs
  ArgCounts <- MCArgCounts
INVARIANT CredentialsOnlyForAssignedHub
