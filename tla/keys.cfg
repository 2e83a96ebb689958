SPECIFICATION Spec
CONSTANTS
  providers <- MCProviders
  k1 = k1
  k2 = k2
  Key = {k1, k2}
  cli = cli
  server = server
  Process = {cli, server}
  serve = server
  arbiterVar <- MCArbiterVar
  providerVar <- MCProviderVar
  stored <- MCStored
  Account <- MCAccount
  refusal <- MCRefusal
  Catalogue <- MCCatalogue
  PanelSpec <- MCPanelSpec
  Suggested = 2
  TTL = 1
  MaxTime = 2
  MaxChanges = 1
  MaxRequests = 2
INVARIANTS VerdictsAreEarned BilledOnce SuggestionsSpread EveryCardSettles
PROPERTIES UsableIsSeated CompareEnds
CHECK_DEADLOCK FALSE
