SPECIFICATION Spec
CHECK_DEADLOCK FALSE
CONSTANTS
  Providers = {1, 2}
  Credentials = {k1, k2}
  Rules = {1, 2}
  Scopes <- TwoScopes
  RuleContents <- RulesOfEachKind
  ProviderContents <- TwoProviders
  Handlers = {h1, h2}
  DownAfter = 3
  MaxTries = 3
  MaxFailures = 2
  MaxChanges = 2
  None = None
SYMMETRY Symmetry
INVARIANT MostSpecificRuleDecides
INVARIANT DeletedProvidersAreNotAsked
INVARIANT DownMeansFailures
PROPERTY CredentialsAreReplacedAtOnce
