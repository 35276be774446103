------------------------- MODULE MCProviderRouting -------------------------
(* Instances of ProviderRouting for TLC.                                    *)
EXTENDS ProviderRouting

Symmetry == Permutations(Handlers) \cup Permutations(Credentials)

Default == [app |-> None, country |-> None, environment |-> None, priority |-> 1, provider |-> 1,
            fallbacks |-> {}, enabled |-> TRUE, fallbackEnabled |-> TRUE, isActive |-> TRUE]

(* A country's that is off, an app's for one environment, and the system's *)
(* without fallback.                                                        *)
RulesOfEachKind ==
  {[Default EXCEPT !.country = "880", !.enabled = FALSE],
   [Default EXCEPT !.app = "app", !.environment = "LIVE", !.provider = None],
   [Default EXCEPT !.priority = 2, !.provider = 2, !.fallbacks = {1}, !.fallbackEnabled = FALSE]}

Local == [country |-> "880", isGlobal |-> FALSE, environment |-> "LIVE", priority |-> 2, serves |-> TRUE]

TwoProviders == {Local, [Local EXCEPT !.country = None, !.isGlobal = TRUE, !.environment = "SANDBOX"]}

TwoScopes ==
  {[app |-> "app", country |-> "880", environment |-> None],
   [app |-> None, country |-> "880", environment |-> "SANDBOX"]}
=============================================================================
