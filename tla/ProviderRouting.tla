--------------------------- MODULE ProviderRouting ---------------------------
(***************************************************************************)
(* Which providers a message of one channel and purpose is offered to: the *)
(* most specific active routing rule decides, then the providers that may  *)
(* serve are ranked and tried in turn, and each answer moves the health of *)
(* the provider.  Next to the deliveries administrators test, change and   *)
(* delete providers, credentials and rules.                                *)
(*                                                                         *)
(* Providers and rules are numbered in the order of their creation.  What  *)
(* a PATCH leaves unsaid it copies from the row read before, so any        *)
(* content may result.  Whether a provider's rate limit refuses is left    *)
(* open; OTP templates, audit rows and notifications are left out.         *)
(***************************************************************************)
EXTENDS FiniteSets, Naturals, SequencesExt

CONSTANTS
  Providers,         \* CommunicationProvider rows, numbers
  Credentials,       \* CommunicationProviderCredential rows
  Rules,             \* CommunicationRoutingRule rows, numbers
  Scopes,            \* what deliveries ask for: app, country and environment
  RuleContents,      \* what rules may say
  ProviderContents,  \* what providers may be
  Handlers,          \* deliveries and administrators in flight
  DownAfter,         \* failures after which a provider is DOWN
  MaxTries,          \* MAX_DELIVERY_ATTEMPTS
  MaxFailures,       \* BOUND on the failures of all providers
  MaxChanges,        \* BOUND on changes administrators make
  None               \* the SQL NULL

(* TESTING is routed like ACTIVE, and DISABLED like INACTIVE.               *)
Statuses == {"ACTIVE", "INACTIVE"}

(* Nothing tells UNKNOWN, which a provider begins with, from HEALTHY.       *)
Health == {"HEALTHY", "DEGRADED", "DOWN"}

(* serves: supportedPurposes has the purpose                                *)
ASSUME RoutingAssumption ==
  /\ Providers \subseteq Nat /\ IsFiniteSet(Providers) /\ Rules \subseteq Nat /\ None \notin Providers
  /\ DownAfter \in Nat \ {0} /\ MaxTries \in Nat \ {0}
  /\ MaxFailures \in Nat /\ MaxChanges \in Nat
  /\ \A c \in RuleContents :
       /\ c.priority \in Nat /\ c.provider \in Providers \cup {None}
       /\ c.fallbacks \subseteq Providers
       /\ {c.enabled, c.fallbackEnabled, c.isActive} \subseteq BOOLEAN
  /\ ProviderContents # {}
  /\ \A c \in ProviderContents : c.priority \in Nat /\ {c.isGlobal, c.serves} \subseteq BOOLEAN

VARIABLES
  provider,    \* CommunicationProvider
  credential,  \* CommunicationProviderCredential
  rule,        \* CommunicationRoutingRule
  handler,     \* deliveries and administrators in flight
  gone,        \* history: providers deleted before each delivery began
  changes      \* changes administrators have made

tables == <<provider, credential, rule>>
vars == <<tables, handler, gone, changes>>

NoProvider == [exists |-> FALSE, deleted |-> FALSE, status |-> "INACTIVE", health |-> "HEALTHY",
               failures |-> 0, content |-> None]

NoRule == [isActive |-> FALSE]

Awaits == {"idle", "providers", "attempt", "success", "failure", "judge",
           "update", "delete", "status", "commit"}

(* left: candidates still to try; of: the provider at work; seen: the count *)
(* its update returned; doomed: active credentials the transaction found    *)
Idle == [at |-> "idle", scope |-> None, rule |-> NoRule, left |-> <<>>, of |-> None, seen |-> 0,
         doomed |-> {}, credential |-> None, status |-> "ACTIVE"]

TypeOK ==
  /\ \A p \in Providers :
       /\ provider[p].status \in Statuses /\ provider[p].health \in Health
       /\ provider[p].failures \in 0 .. MaxFailures
       /\ provider[p].content \in ProviderContents \cup {None}
       /\ provider[p].exists = (provider[p].content # None)
  /\ credential \in [Credentials -> [owner : Providers \cup {None}, isActive : BOOLEAN]]
  /\ \A r \in Rules : rule[r] \in RuleContents \cup {NoRule}
  /\ \A h \in Handlers :
       /\ handler[h].at \in Awaits
       /\ handler[h].left \in UNION {[1 .. n -> Providers] : n \in 0 .. MaxTries}
       /\ (handler[h].at = "attempt") = (handler[h].left # <<>> /\ handler[h].of = None)
  /\ gone \in [Handlers -> SUBSET Providers]
  /\ changes \in 0 .. MaxChanges

(* Each provider is set up and has a credential of its own, or is not there *)
(* BOUND: those that are set up are the oldest and alike, and there is one  *)
(* rule at most.                                                            *)
Init ==
  /\ \E owner \in [Credentials -> Providers \cup {None}] :
       /\ \A k, l \in Credentials : owner[k] = owner[l] /\ owner[k] # None => k = l
       /\ \A k \in Credentials, p \in Providers :
            owner[k] # None /\ p < owner[k] => \E l \in Credentials : owner[l] = p
       /\ credential = [k \in Credentials |-> [owner |-> owner[k], isActive |-> owner[k] # None]]
       /\ provider = [p \in Providers |->
            IF \E k \in Credentials : owner[k] = p
            THEN [NoProvider EXCEPT !.exists = TRUE, !.status = "ACTIVE",
                                    !.content = CHOOSE c \in ProviderContents : TRUE]
            ELSE NoProvider]
  /\ \E c \in RuleContents \cup {NoRule} :
       rule = [r \in Rules |-> IF \E q \in Rules : q < r THEN NoRule ELSE c]
  /\ handler = [h \in Handlers |-> Idle]
  /\ gone = [h \in Handlers |-> {}]
  /\ changes = 0

----------------------------------------------------------------------------
(* Helpers *)

At(h, await) == handler[h].at = await
Goto(h, await) == handler' = [handler EXCEPT ![h].at = await]

Finish(h) ==
  /\ handler' = [handler EXCEPT ![h] = Idle]
  /\ gone' = [gone EXCEPT ![h] = {}]

Change == changes < MaxChanges /\ changes' = changes + 1

HasCredential(p) == \E k \in Credentials : credential[k].owner = p /\ credential[k].isActive

----------------------------------------------------------------------------
(* findCandidateProviders *)

(* The rules the query returns,                                             *)
ActiveRules(s) ==
  {r \in Rules : /\ rule[r].isActive
                 /\ rule[r].app \in {s.app, None} /\ rule[r].country \in {s.country, None}}

(* those of a compatible environment,                                       *)
Compatible(s) ==
  {r \in ActiveRules(s) : None \in {rule[r].environment, s.environment}
                            \/ rule[r].environment = s.environment}

(* and the tiers they are looked for in, one after the other.               *)
Tier(s) ==
  <<{r \in Compatible(s) : s.app # None /\ rule[r].app = s.app /\ s.country # None /\ rule[r].country = s.country},
    {r \in Compatible(s) : s.app # None /\ rule[r].app = s.app /\ rule[r].country = None},
    {r \in Compatible(s) : rule[r].app = None /\ s.country # None /\ rule[r].country = s.country},
    {r \in Compatible(s) : rule[r].app = None /\ rule[r].country = None}>>

Sooner(a, b) == rule[a].priority < rule[b].priority \/ (rule[a].priority = rule[b].priority /\ a < b)

(* Variant: looks for a country before it looks for an app                  *)
ResolveByCountry(s) ==
  LET tiers == {i \in {1, 3, 2, 4} : Tier(s)[i] # {}}
      first == IF 1 \in tiers THEN 1 ELSE IF 3 \in tiers THEN 3 ELSE IF 2 \in tiers THEN 2 ELSE 4
  IN IF tiers = {} THEN None
     ELSE CHOOSE r \in Tier(s)[first] : \A q \in Tier(s)[first] \ {r} : Sooner(r, q)

ResolveMostSpecificRule(s) ==
  LET tiers == {i \in 1 .. 4 : Tier(s)[i] # {}}
      first == CHOOSE i \in tiers : \A j \in tiers : i <= j
  IN IF tiers = {} THEN None
     ELSE CHOOSE r \in Tier(s)[first] : \A q \in Tier(s)[first] \ {r} : Sooner(r, q)

Routed(r) == IF r = NoRule THEN {} ELSE ({r.provider} \ {None}) \cup r.fallbacks

(* Only the chain of the rule may be tried.                                 *)
Restricted(r) == r # NoRule /\ ~r.fallbackEnabled /\ Routed(r) # {}

Eligible(p, s) ==
  LET c == provider[p].content
  IN /\ c.serves
     /\ provider[p].status = "ACTIVE" /\ provider[p].health # "DOWN"
     /\ s.environment = None \/ c.environment = s.environment
     /\ s.country = None \/ c.country = s.country \/ c.isGlobal

(* Variant: the chain of a rule as it is                                    *)
CandidatesOfChain(r, s) ==
  {p \in Providers : /\ provider[p].exists /\ HasCredential(p)
                     /\ IF Restricted(r) THEN p \in Routed(r) ELSE ~provider[p].deleted /\ Eligible(p, s)}

Candidates(r, s) ==
  {p \in Providers : /\ provider[p].exists /\ ~provider[p].deleted /\ HasCredential(p)
                     /\ IF Restricted(r) THEN p \in Routed(r) ELSE Eligible(p, s)}

Distance(p, s) ==
  IF provider[p].content.country = s.country THEN 0 ELSE IF provider[p].content.isGlobal THEN 1 ELSE 2

(* Routed providers first, then those of the country, then by priority and  *)
(* age: the one order of the candidates in which each comes before the next *)
Rankings(r, s) ==
  LET Key(p) == <<IF p \in Routed(r) THEN 0 ELSE 1, Distance(p, s), provider[p].content.priority, p>>
      Before(p, q) == \E i \in 1 .. 4 : Key(p)[i] < Key(q)[i] /\ \A j \in 1 .. i - 1 : Key(p)[j] = Key(q)[j]
  IN {q \in [1 .. Cardinality(Candidates(r, s)) -> Candidates(r, s)] :
        \A i, j \in DOMAIN q : i < j => Before(q[i], q[j])}

(* A delivery reads the rules; one that is not enabled ends it.             *)
FindRule(h, s) ==
  LET r == ResolveMostSpecificRule(s)
  IN /\ At(h, "idle")
     /\ r # None => rule[r].enabled
     /\ handler' = [handler EXCEPT ![h] =
          [Idle EXCEPT !.at = "providers", !.scope = s, !.rule = IF r = None THEN NoRule ELSE rule[r]]]
     /\ gone' = [gone EXCEPT ![h] = {p \in Providers : provider[p].deleted}]
     /\ UNCHANGED <<tables, changes>>

(* Then it reads the providers.                                             *)
FindCandidateProviders(h) ==
  /\ At(h, "providers")
  /\ \E ranked \in Rankings(handler[h].rule, handler[h].scope) :
       IF ranked = <<>> THEN Finish(h)
       ELSE /\ handler' = [handler EXCEPT ![h] =
                 [Idle EXCEPT !.at = "attempt",
                    !.left = SubSeq(ranked, 1, IF Len(ranked) < MaxTries THEN Len(ranked) ELSE MaxTries)]]
            /\ UNCHANGED gone
  /\ UNCHANGED <<tables, changes>>

----------------------------------------------------------------------------
(* Attempts and the health of providers *)

(* The loop goes on with the next candidate or ends.                        *)
NextAttempt(h, left) ==
  IF left = <<>> THEN Finish(h)
  ELSE /\ handler' = [handler EXCEPT ![h].at = "attempt", ![h].left = left, ![h].of = None,
                                 ![h].seen = 0]
       /\ UNCHANGED gone

(* checkProviderRateLimit refuses.                                          *)
SkipLimited(h) ==
  /\ At(h, "attempt")
  /\ NextAttempt(h, Tail(handler[h].left))
  /\ UNCHANGED <<tables, changes>>

Send(h, ok) ==
  /\ At(h, "attempt")
  /\ handler' = [handler EXCEPT ![h].at = IF ok THEN "success" ELSE "failure",
                   ![h].of = Head(handler[h].left), ![h].left = Tail(handler[h].left)]
  /\ UNCHANGED <<tables, gone, changes>>

(* testProvider sends through a provider that has a credential, deleted or  *)
(* not, unless the abuse limits refuse.                                     *)
TestProvider(h, p, ok) ==
  /\ At(h, "idle") /\ Change
  /\ provider[p].exists /\ HasCredential(p)
  /\ handler' = [handler EXCEPT ![h] =
       [Idle EXCEPT !.at = IF ok THEN "success" ELSE "failure", !.of = p]]
  /\ UNCHANGED <<tables, gone>>

(* updateProviderHealth                                                     *)
RecordSuccess(h) ==
  /\ At(h, "success")
  /\ provider' = [provider EXCEPT ![handler[h].of].health = "HEALTHY"]
  /\ Finish(h)
  /\ UNCHANGED <<credential, rule, changes>>

CountFailure(h) ==
  LET p == handler[h].of
  IN /\ At(h, "failure") /\ MapThenSumSet(LAMBDA q : provider[q].failures, Providers) < MaxFailures
     /\ provider' = [provider EXCEPT ![p].failures = @ + 1]
     /\ handler' = [handler EXCEPT ![h].at = "judge", ![h].seen = provider[p].failures + 1]
     /\ UNCHANGED <<credential, rule, gone, changes>>

(* Variant: one failure early                                               *)
JudgeHealthEarly(h) ==
  /\ At(h, "judge")
  /\ provider' = [provider EXCEPT ![handler[h].of].health =
       IF handler[h].seen + 2 >= DownAfter THEN "DOWN" ELSE "DEGRADED"]
  /\ NextAttempt(h, handler[h].left)
  /\ UNCHANGED <<credential, rule, changes>>

(* The count the update returned is incremented once more.                  *)
JudgeHealth(h) ==
  /\ At(h, "judge")
  /\ provider' = [provider EXCEPT ![handler[h].of].health =
       IF handler[h].seen + 1 >= DownAfter THEN "DOWN" ELSE "DEGRADED"]
  /\ NextAttempt(h, handler[h].left)
  /\ UNCHANGED <<credential, rule, changes>>

----------------------------------------------------------------------------
(* Administration *)

CreateProvider(p, c, status) ==
  /\ \A q \in Providers : q >= p => ~provider[q].exists
  /\ Change
  /\ provider' = [provider EXCEPT ![p] =
       [NoProvider EXCEPT !.exists = TRUE, !.content = c, !.status = status]]
  /\ UNCHANGED <<credential, rule, handler, gone>>

(* PATCH reads a provider that is not deleted                               *)
GetProviderById(h, p) ==
  /\ At(h, "idle") /\ Change
  /\ provider[p].exists /\ ~provider[p].deleted
  /\ handler' = [handler EXCEPT ![h] = [Idle EXCEPT !.at = "update", !.of = p]]
  /\ UNCHANGED <<tables, gone>>

(* and writes what it read with what it was given.                          *)
UpdateProvider(h, c, status) ==
  /\ At(h, "update")
  /\ provider' = [provider EXCEPT ![handler[h].of] = [@ EXCEPT !.content = c, !.status = status]]
  /\ Finish(h)
  /\ UNCHANGED <<credential, rule, changes>>

(* softDeleteProvider looks for a rule whose first provider this is,        *)
FindActiveRule(h, p) ==
  /\ At(h, "idle") /\ Change
  /\ provider[p].exists
  /\ ~ \E r \in Rules : rule[r].isActive /\ rule[r].provider = p
  /\ handler' = [handler EXCEPT ![h] = [Idle EXCEPT !.at = "delete", !.of = p]]
  /\ UNCHANGED <<tables, gone>>

SoftDeleteProvider(h) ==
  /\ At(h, "delete")
  /\ provider' = [provider EXCEPT ![handler[h].of].deleted = TRUE, ![handler[h].of].status = "INACTIVE"]
  /\ Finish(h)
  /\ UNCHANGED <<credential, rule, changes>>

(* setProviderStatus looks for an active credential before ACTIVE.          *)
FindActiveCredential(h, p, status) ==
  /\ At(h, "idle") /\ Change
  /\ provider[p].exists /\ (status = "ACTIVE" => HasCredential(p))
  /\ handler' = [handler EXCEPT ![h] = [Idle EXCEPT !.at = "status", !.of = p, !.status = status]]
  /\ UNCHANGED <<tables, gone>>

SetProviderStatus(h) ==
  /\ At(h, "status")
  /\ provider' = [provider EXCEPT ![handler[h].of].status = handler[h].status]
  /\ Finish(h)
  /\ UNCHANGED <<credential, rule, changes>>

ActiveOf(p) == {k \in Credentials : credential[k].owner = p /\ credential[k].isActive}

(* Variant: without a transaction                                           *)
DeactivateAtOnce(h, p, k) ==
  /\ At(h, "idle") /\ Change
  /\ provider[p].exists
  /\ credential' = [x \in Credentials |-> IF x \in ActiveOf(p) THEN [credential[x] EXCEPT !.isActive = FALSE]
                                                                ELSE credential[x]]
  /\ handler' = [handler EXCEPT ![h] = [Idle EXCEPT !.at = "commit", !.of = p, !.credential = k]]
  /\ UNCHANGED <<provider, rule, gone>>

(* upsertProviderCredential: the transaction deactivates the credentials it *)
(* finds active,                                                            *)
DeactivateCredentials(h, p, k) ==
  /\ At(h, "idle") /\ Change
  /\ provider[p].exists
  /\ handler' = [handler EXCEPT ![h] =
       [Idle EXCEPT !.at = "commit", !.of = p, !.credential = k, !.doomed = ActiveOf(p)]]
  /\ UNCHANGED <<tables, gone>>

(* and stores one, new or found by its identifier whosever it is.           *)
StoreCredential(h) ==
  LET k == handler[h].credential
  IN /\ At(h, "commit")
     /\ credential' = [x \in Credentials |->
          IF x = k THEN [owner |-> IF credential[k].owner = None THEN handler[h].of ELSE credential[k].owner,
                         isActive |-> TRUE]
          ELSE IF x \in handler[h].doomed THEN [credential[x] EXCEPT !.isActive = FALSE]
          ELSE credential[x]]
     /\ Finish(h)
     /\ UNCHANGED <<provider, rule, changes>>

(* The same with isActive false, which deactivates no other.                *)
StoreInactiveCredential(k) ==
  /\ Change
  /\ credential[k].owner # None
  /\ credential' = [credential EXCEPT ![k].isActive = FALSE]
  /\ UNCHANGED <<provider, rule, handler, gone>>

(* upsertRoutingRule asks nothing of the providers it names.  A new rule is *)
(* the youngest.                                                            *)
UpsertRoutingRule(r, c) ==
  /\ Change
  /\ rule[r] # NoRule \/ \A q \in Rules : q > r => rule[q] = NoRule
  /\ rule' = [rule EXCEPT ![r] = c]
  /\ UNCHANGED <<provider, credential, handler, gone>>

DeleteRoutingRule(r) ==
  /\ Change
  /\ rule[r] # NoRule
  /\ rule' = [rule EXCEPT ![r] = NoRule]
  /\ UNCHANGED <<provider, credential, handler, gone>>

(* The process dies, or an adapter or the database throws.                  *)
Crash(h) ==
  /\ ~At(h, "idle")
  /\ Finish(h)
  /\ UNCHANGED <<tables, changes>>

----------------------------------------------------------------------------
(* Specification *)

UpdateProviderHealth(h) == RecordSuccess(h) \/ CountFailure(h) \/ JudgeHealth(h)

Delivery(h) ==
  \/ \E s \in Scopes : FindRule(h, s)
  \/ FindCandidateProviders(h) \/ SkipLimited(h) \/ UpdateProviderHealth(h)
  \/ \E ok \in BOOLEAN : Send(h, ok) \/ \E p \in Providers : TestProvider(h, p, ok)

CreateOrUpdateProvider(h) ==
  \/ \E p \in Providers : GetProviderById(h, p)
  \/ \E c \in ProviderContents, status \in Statuses :
       UpdateProvider(h, c, status) \/ \E p \in Providers : CreateProvider(p, c, status)

UpsertProviderCredential(h) ==
  \/ \E p \in Providers, k \in Credentials : DeactivateCredentials(h, p, k)
  \/ StoreCredential(h)

Administration(h) ==
  \/ CreateOrUpdateProvider(h) \/ UpsertProviderCredential(h)
  \/ \E p \in Providers : FindActiveRule(h, p) \/ \E status \in Statuses : FindActiveCredential(h, p, status)
  \/ SoftDeleteProvider(h) \/ SetProviderStatus(h)

Next ==
  \/ \E h \in Handlers : Delivery(h) \/ Administration(h) \/ Crash(h)
  \/ \E k \in Credentials : StoreInactiveCredential(k)
  \/ \E r \in Rules : DeleteRoutingRule(r) \/ \E c \in RuleContents : UpsertRoutingRule(r, c)

Spec == Init /\ [][Next]_vars

----------------------------------------------------------------------------
(* Properties *)

(* r speaks about s, and a speaks more precisely about it than b.           *)
Covers(r, s) ==
  /\ rule[r].isActive
  /\ rule[r].app = None \/ rule[r].app = s.app
  /\ rule[r].country = None \/ rule[r].country = s.country
  /\ s.environment = None \/ rule[r].environment = None \/ rule[r].environment = s.environment

Precedes(a, b) ==
  LET Says(r) == (IF rule[r].app = None THEN 0 ELSE 2) + (IF rule[r].country = None THEN 0 ELSE 1)
  IN Says(a) > Says(b) \/ (Says(a) = Says(b) /\ Sooner(a, b))

(* Whatever rules there are, the one that decides covers the scope, and     *)
(* none that covers it names the app, or then the country, more precisely,  *)
(* has a lower priority number or is older; and if none covers it, none     *)
(* decides.                                                                 *)
MostSpecificRuleDecides ==
  \A s \in Scopes :
    LET r == ResolveMostSpecificRule(s)
        covering == {x \in Rules : Covers(x, s)}
    IN IF covering = {} THEN r = None
       ELSE r \in covering /\ \A x \in covering \ {r} : Precedes(r, x)

(* No delivery that began after a provider was deleted is offered to it,    *)
(* by a rule or without one, however its row is written at the same time.   *)
DeletedProvidersAreNotAsked ==
  \A h \in Handlers : \A p \in gone[h] :
    /\ provider[p].deleted
    /\ handler[h].of # p /\ \A i \in DOMAIN handler[h].left : handler[h].left[i] # p

(* A provider is not taken out of routing for less than the failures it may *)
(* have, however judgements, successes and tests overlap.                   *)
DownMeansFailures ==
  \A p \in Providers : provider[p].health = "DOWN" => provider[p].failures + 1 >= DownAfter

(* The last active credential of a provider goes away only when an          *)
(* administrator deactivates it or stores it for a provider it was not      *)
(* found under, never while another one replaces it, whatever dies.         *)
CredentialsAreReplacedAtOnce ==
  [][\A p \in Providers :
       HasCredential(p) /\ ~HasCredential(p)' =>
         \E k \in Credentials : StoreInactiveCredential(k)
                             \/ \E h \in Handlers : At(h, "commit") /\ handler[h].of = p
                                                    /\ credential[handler[h].credential].owner \notin {p, None}]_vars

=============================================================================
