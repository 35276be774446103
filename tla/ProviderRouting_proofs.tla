------------------------ MODULE ProviderRouting_proofs ------------------------
(***************************************************************************)
(* Whatever rules there are, the search through the tiers finds the most   *)
(* specific one; a credential that replaces another leaves no gap; and     *)
(* what deliveries have in hand is neither deleted before they began nor   *)
(* taken down for less than its failures: for any number of providers,     *)
(* credentials, rules and handlers.                                        *)
(***************************************************************************)
EXTENDS ProviderRouting, WellFoundedInduction, FiniteSetTheorems, TLAPS

----------------------------------------------------------------------------
(* Rules *)

RulesAreTyped == rule \in [Rules -> RuleContents \cup {NoRule}]

LEMMA LeastNumber ==
  ASSUME NEW S \in SUBSET Nat, S # {}
  PROVE  \E m \in S : \A n \in S : m <= n
  <1> DEFINE Less == {ss \in Nat \X Nat : ss[1] < ss[2]}
  <1>1. IsWellFoundedOn(Less, Nat)
    BY NatLessThanWellFounded DEF OpToRel
  <1>2. PICK m \in S : \A n \in S : <<n, m>> \notin Less
    BY <1>1, WFMin
  <1>3. ASSUME NEW n \in S PROVE m <= n
    <2>1. n \in Nat /\ m \in Nat /\ <<n, m>> \notin Less
      BY <1>2
    <2>2. ~(n < m)
      BY <2>1
    <2>3. QED
      BY <2>1, <2>2
  <1>4. QED
    BY <1>3

(* A tier that is not empty has a rule that comes before its others.        *)
LEMMA FirstRule ==
  ASSUME RulesAreTyped, NEW T \in SUBSET {r \in Rules : rule[r].isActive}, T # {}
  PROVE  \E r \in T : \A q \in T \ {r} : Sooner(r, q)
  <1>1. \A r \in T : r \in Nat /\ rule[r].priority \in Nat
    BY RoutingAssumption DEF RulesAreTyped, NoRule
  <1>2. PICK m \in {rule[r].priority : r \in T} :
          \A n \in {rule[r].priority : r \in T} : m <= n
    <2>1. {rule[r].priority : r \in T} \in SUBSET Nat /\ {rule[r].priority : r \in T} # {}
      BY <1>1
    <2>2. QED
      BY <2>1, LeastNumber
  <1>3. PICK r \in {q \in T : rule[q].priority = m} :
          \A q \in {q \in T : rule[q].priority = m} : r <= q
    <2>1. /\ {q \in T : rule[q].priority = m} \in SUBSET Nat
          /\ {q \in T : rule[q].priority = m} # {}
      BY <1>1, <1>2
    <2>2. QED
      BY <2>1, LeastNumber
  <1>4. \A q \in T \ {r} : Sooner(r, q)
    BY <1>1, <1>2, <1>3 DEF Sooner
  <1>5. QED
    BY <1>3, <1>4

(* The tiers partition the rules that cover a scope, the most specific      *)
(* first.                                                                   *)
LEMMA TiersAreCovering ==
  ASSUME NEW s \in Scopes, NEW r \in Rules
  PROVE  Covers(r, s) <=> \E i \in 1 .. 4 : r \in Tier(s)[i]
  BY DEF Covers, Tier, Compatible, ActiveRules

LEMMA TiersAreRanked ==
  ASSUME RulesAreTyped, NEW s \in Scopes, NEW i \in 1 .. 4, NEW j \in i .. 4,
         NEW r \in Tier(s)[i], NEW q \in Tier(s)[j], i = j => Sooner(r, q)
  PROVE  Precedes(r, q)
  BY DEF Tier, Compatible, ActiveRules, Precedes

LEMMA MostSpecificRule ==
  ASSUME RulesAreTyped, NEW s \in Scopes
  PROVE  LET r == ResolveMostSpecificRule(s)
             covering == {x \in Rules : Covers(x, s)}
         IN IF covering = {} THEN r = None
            ELSE r \in covering /\ \A x \in covering \ {r} : Precedes(r, x)
  <1> DEFINE tiers == {i \in 1 .. 4 : Tier(s)[i] # {}}
             first == CHOOSE i \in tiers : \A j \in tiers : i <= j
             covering == {x \in Rules : Covers(x, s)}
  <1>1. \A i \in 1 .. 4 : Tier(s)[i] \in SUBSET {r \in Rules : rule[r].isActive}
    BY DEF Tier, Compatible, ActiveRules
  <1>2. CASE tiers = {}
    <2>1. covering = {}
      BY <1>1, <1>2, TiersAreCovering
    <2>2. QED
      BY <1>2, <2>1 DEF ResolveMostSpecificRule
  <1>3. CASE tiers # {}
    <2>1. first \in tiers /\ \A j \in tiers : first <= j
      <3>1. \E i \in tiers : \A j \in tiers : i <= j
        BY <1>3, LeastNumber
      <3>2. QED
        BY <3>1
    <2>2. PICK r \in Tier(s)[first] : /\ \A q \in Tier(s)[first] \ {r} : Sooner(r, q)
                                      /\ r = ResolveMostSpecificRule(s)
      <3>1. \E r \in Tier(s)[first] : \A q \in Tier(s)[first] \ {r} : Sooner(r, q)
        BY <1>1, <2>1, FirstRule
      <3>2. ResolveMostSpecificRule(s)
              = CHOOSE r \in Tier(s)[first] : \A q \in Tier(s)[first] \ {r} : Sooner(r, q)
        BY <1>3 DEF ResolveMostSpecificRule
      <3>3. QED
        BY <3>1, <3>2
    <2>3. r \in covering
      BY <1>1, <2>1, <2>2, TiersAreCovering
    <2>4. ASSUME NEW x \in covering \ {r} PROVE Precedes(r, x)
      <3>1. PICK j \in 1 .. 4 : x \in Tier(s)[j]
        BY TiersAreCovering
      <3>2. first \in 1 .. 4 /\ j \in first .. 4
        BY <2>1, <3>1
      <3>3. first = j => Sooner(r, x)
        BY <2>2, <2>4, <3>1
      <3>4. QED
        BY <2>2, <3>1, <3>2, <3>3, TiersAreRanked
    <2>5. QED
      BY <2>2, <2>3, <2>4
  <1>4. QED
    BY <1>2, <1>3

LEMMA RulesStayTyped ==
  ASSUME RulesAreTyped, [Next]_vars
  PROVE  RulesAreTyped'
  <1>1. ASSUME NEW r \in Rules, DeleteRoutingRule(r) PROVE RulesAreTyped'
    BY <1>1 DEF RulesAreTyped, DeleteRoutingRule
  <1>2. ASSUME NEW r \in Rules, NEW c \in RuleContents, UpsertRoutingRule(r, c)
        PROVE  RulesAreTyped'
    BY <1>2 DEF RulesAreTyped, UpsertRoutingRule
  <1>3. CASE UNCHANGED rule
    BY <1>3 DEF RulesAreTyped
  <1>4. ASSUME NEW h \in Handlers, Delivery(h) PROVE UNCHANGED rule
    BY <1>4 DEF Delivery, FindRule, FindCandidateProviders, SkipLimited, UpdateProviderHealth,
      RecordSuccess, CountFailure, JudgeHealth, Send, TestProvider, tables
  <1>5. ASSUME NEW h \in Handlers, Administration(h) PROVE UNCHANGED rule
    BY <1>5 DEF Administration, CreateOrUpdateProvider, UpsertProviderCredential, GetProviderById,
      UpdateProvider, CreateProvider, DeactivateCredentials, StoreCredential, FindActiveRule,
      FindActiveCredential, SoftDeleteProvider, SetProviderStatus, tables
  <1>6. ASSUME NEW h \in Handlers, Crash(h) PROVE UNCHANGED rule
    BY <1>6 DEF Crash, tables
  <1>7. QED
    BY <1>1, <1>2, <1>3, <1>4, <1>5, <1>6 DEF Next, vars, tables, StoreInactiveCredential

(* The rule that decides covers the scope, and no rule that covers it is    *)
(* more specific, of a lower priority number or older.                      *)
THEOREM MostSpecificRuleAlwaysDecides == Spec => []MostSpecificRuleDecides
  <1>1. Init => RulesAreTyped
    <2>1. SUFFICES ASSUME Init PROVE RulesAreTyped
      OBVIOUS
    <2>2. PICK c \in RuleContents \cup {NoRule} :
            rule = [r \in Rules |-> IF \E q \in Rules : q < r THEN NoRule ELSE c]
      BY <2>1 DEF Init
    <2>3. QED
      BY <2>2 DEF RulesAreTyped
  <1>2. RulesAreTyped /\ [Next]_vars => RulesAreTyped'
    BY RulesStayTyped
  <1>3. RulesAreTyped => MostSpecificRuleDecides
    BY MostSpecificRule DEF MostSpecificRuleDecides
  <1>4. QED
    BY <1>1, <1>2, <1>3, PTL DEF Spec

----------------------------------------------------------------------------
(* Credentials *)

Fields == {"at", "scope", "rule", "left", "of", "seen", "doomed", "credential", "status"}

HandlersAreRecords ==
  DOMAIN handler = Handlers /\ \A h \in Handlers : DOMAIN handler[h] = Fields

CredentialsAreTyped ==
  credential \in [Credentials -> [owner : Providers \cup {None}, isActive : BOOLEAN]]

(* A transaction deactivates credentials of its own provider only.          *)
Sound(x) ==
  x.at = "commit" => /\ x.of \in Providers /\ x.credential \in Credentials
                     /\ \A k \in x.doomed : k \in Credentials /\ credential[k].owner = x.of

TransactionsAreSound == \A h \in Handlers : Sound(handler[h])

CredentialInv == HandlersAreRecords /\ CredentialsAreTyped /\ TransactionsAreSound

(* The action property, for one step.                                       *)
GapStep ==
  \A p \in Providers :
       HasCredential(p) /\ ~HasCredential(p)' =>
         \E k \in Credentials : StoreInactiveCredential(k)
                             \/ \E h \in Handlers : At(h, "commit") /\ handler[h].of = p
                                                    /\ credential[handler[h].credential].owner \notin {p, None}

OwnersStay ==
  /\ CredentialsAreTyped'
  /\ \A k \in Credentials : credential[k].owner # None => credential'[k].owner = credential[k].owner

LEMMA IdleIsARecord == DOMAIN Idle = Fields /\ Idle.at = "idle"
  BY DEF Idle, Fields

LEMMA SoundStaysSound ==
  ASSUME CredentialInv, OwnersStay, NEW h \in Handlers
  PROVE  \A x : x = handler[h] => Sound(x)'
  <1>1. SUFFICES ASSUME NEW x, x = handler[h] PROVE Sound(x)'
    OBVIOUS
  <1>2. Sound(x)
    BY <1>1 DEF CredentialInv, TransactionsAreSound, Sound
  <1>3. x.at = "commit" => x.of # None
    BY <1>2, RoutingAssumption DEF Sound
  <1>4. QED
    BY <1>2, <1>3 DEF Sound, OwnersStay

LEMMA SlotStep ==
  ASSUME CredentialInv, OwnersStay, NEW h \in Handlers, NEW x, DOMAIN x = Fields, Sound(x)',
         handler' = [handler EXCEPT ![h] = x]
  PROVE  CredentialInv'
  <1>1. HandlersAreRecords'
    BY DEF CredentialInv, HandlersAreRecords
  <1>2. ASSUME NEW g \in Handlers PROVE Sound(handler[g])'
    <2>1. CASE g = h
      <3>1. handler'[g] = x
        BY <2>1 DEF CredentialInv, HandlersAreRecords
      <3>2. QED
        BY <3>1 DEF Sound
    <2>2. CASE g # h
      <3>1. PICK y : y = handler[g] /\ handler'[g] = y
        BY <2>2 DEF CredentialInv, HandlersAreRecords
      <3>2. Sound(y)'
        BY <3>1, SoundStaysSound
      <3>3. QED
        BY <3>1, <3>2 DEF Sound
    <2>3. QED
      BY <2>1, <2>2
  <1>3. QED
    BY <1>1, <1>2 DEF CredentialInv, TransactionsAreSound, OwnersStay

(* A step that leaves the credentials alone.                                *)
LEMMA OtherStep ==
  ASSUME CredentialInv, UNCHANGED credential
  PROVE  OwnersStay /\ GapStep
  BY DEF CredentialInv, CredentialsAreTyped, OwnersStay, GapStep, HasCredential

LEMMA QuietStep ==
  ASSUME CredentialInv, NEW h \in Handlers, NEW x, DOMAIN x = Fields, x.at # "commit",
         handler' = [handler EXCEPT ![h] = x], UNCHANGED credential
  PROVE  CredentialInv' /\ GapStep
  <1>1. Sound(x)'
    BY DEF Sound
  <1>2. QED
    BY <1>1, OtherStep, SlotStep

LEMMA FinishStep ==
  ASSUME CredentialInv, NEW h \in Handlers, Finish(h), UNCHANGED credential
  PROVE  CredentialInv' /\ GapStep
  BY IdleIsARecord, QuietStep DEF Finish

LEMMA DeliveryStep ==
  ASSUME CredentialInv, NEW h \in Handlers, Delivery(h)
  PROVE  CredentialInv' /\ GapStep
  <1>1. UNCHANGED credential
    BY DEF Delivery, FindRule, FindCandidateProviders, SkipLimited, UpdateProviderHealth,
      RecordSuccess, CountFailure, JudgeHealth, Send, TestProvider, tables
  <1>2. DOMAIN handler[h] = Fields
    BY DEF CredentialInv, HandlersAreRecords
  <1>3. \E x : /\ handler' = [handler EXCEPT ![h] = x]
               /\ DOMAIN x = Fields /\ x.at # "commit"
    <2> DEFINE Quiet == \E x : /\ handler' = [handler EXCEPT ![h] = x]
                               /\ DOMAIN x = Fields /\ x.at # "commit"
    <2>1. ASSUME Finish(h) PROVE Quiet
      BY <2>1, IdleIsARecord DEF Finish
    <2>2. ASSUME NEW left, NextAttempt(h, left) PROVE Quiet
      <3>1. CASE Finish(h)
        BY <2>1, <3>1
      <3>2. CASE left # <<>>
        <4>1. PICK x : /\ x = [handler[h] EXCEPT !.at = "attempt", !.left = left, !.of = None,
                                                 !.seen = 0]
                       /\ handler' = [handler EXCEPT ![h] = x]
          BY <2>2, <3>2 DEF NextAttempt
        <4>2. DOMAIN x = Fields /\ x.at = "attempt"
          BY <1>2, <4>1 DEF Fields
        <4>3. QED
          BY <4>1, <4>2
      <3>3. QED
        BY <2>2, <3>1, <3>2 DEF NextAttempt
    <2>3. ASSUME NEW s \in Scopes, FindRule(h, s) PROVE Quiet
      <3>1. PICK x, r : /\ x = [Idle EXCEPT !.at = "providers", !.scope = s, !.rule = r]
                        /\ handler' = [handler EXCEPT ![h] = x]
        BY <2>3 DEF FindRule
      <3>2. DOMAIN x = Fields /\ x.at = "providers"
        BY <3>1 DEF Idle, Fields
      <3>3. QED
        BY <3>1, <3>2
    <2>4. ASSUME FindCandidateProviders(h) PROVE Quiet
      <3>1. CASE Finish(h)
        BY <2>1, <3>1
      <3>2. CASE ~Finish(h)
        <4>1. PICK x, left : /\ x = [Idle EXCEPT !.at = "attempt", !.left = left]
                             /\ handler' = [handler EXCEPT ![h] = x]
          BY <2>4, <3>2 DEF FindCandidateProviders
        <4>2. DOMAIN x = Fields /\ x.at = "attempt"
          BY <4>1 DEF Idle, Fields
        <4>3. QED
          BY <4>1, <4>2
      <3>3. QED
        BY <3>1, <3>2
    <2>5. ASSUME SkipLimited(h) \/ JudgeHealth(h) PROVE Quiet
      BY <2>2, <2>5 DEF SkipLimited, JudgeHealth
    <2>6. ASSUME RecordSuccess(h) PROVE Quiet
      BY <2>1, <2>6 DEF RecordSuccess
    <2>7. ASSUME CountFailure(h) PROVE Quiet
      <3>1. PICK x : /\ x = [handler[h] EXCEPT !.at = "judge",
                                               !.seen = provider[handler[h].of].failures + 1]
                     /\ handler' = [handler EXCEPT ![h] = x]
        BY <1>2, <2>7 DEF CountFailure, CredentialInv, HandlersAreRecords
      <3>2. DOMAIN x = Fields /\ x.at = "judge"
        BY <1>2, <3>1 DEF Fields
      <3>3. QED
        BY <3>1, <3>2
    <2>8. ASSUME NEW ok \in BOOLEAN, Send(h, ok) PROVE Quiet
      <3>1. PICK x : /\ x = [handler[h] EXCEPT !.at = IF ok THEN "success" ELSE "failure",
                                !.of = Head(handler[h].left), !.left = Tail(handler[h].left)]
                     /\ handler' = [handler EXCEPT ![h] = x]
        BY <1>2, <2>8 DEF Send, CredentialInv, HandlersAreRecords
      <3>2. DOMAIN x = Fields /\ x.at # "commit"
        BY <1>2, <3>1 DEF Fields
      <3>3. QED
        BY <3>1, <3>2
    <2>9. ASSUME NEW p \in Providers, NEW ok \in BOOLEAN, TestProvider(h, p, ok) PROVE Quiet
      <3>1. PICK x : /\ x = [Idle EXCEPT !.at = IF ok THEN "success" ELSE "failure", !.of = p]
                     /\ handler' = [handler EXCEPT ![h] = x]
        BY <2>9 DEF TestProvider
      <3>2. DOMAIN x = Fields /\ x.at # "commit"
        BY <3>1 DEF Idle, Fields
      <3>3. QED
        BY <3>1, <3>2
    <2>10. QED
      BY <2>3, <2>4, <2>5, <2>6, <2>7, <2>8, <2>9 DEF Delivery, UpdateProviderHealth
  <1>4. QED
    BY <1>1, <1>3, QuietStep

LEMMA DeactivateStep ==
  ASSUME CredentialInv, NEW h \in Handlers, NEW p \in Providers, NEW k \in Credentials,
         DeactivateCredentials(h, p, k)
  PROVE  CredentialInv' /\ GapStep
  <1>1. PICK x : /\ x = [Idle EXCEPT !.at = "commit", !.of = p, !.credential = k, !.doomed = ActiveOf(p)]
                 /\ handler' = [handler EXCEPT ![h] = x]
    BY DEF DeactivateCredentials
  <1>2. /\ DOMAIN x = Fields /\ x.of = p /\ x.credential = k /\ x.doomed = ActiveOf(p)
        /\ UNCHANGED credential
    BY <1>1 DEF Idle, Fields, DeactivateCredentials, tables
  <1>3. Sound(x)'
    BY <1>2 DEF Sound, ActiveOf
  <1>4. QED
    BY <1>1, <1>2, <1>3, OtherStep, SlotStep

LEMMA StoreStep ==
  ASSUME CredentialInv, NEW h \in Handlers, StoreCredential(h)
  PROVE  CredentialInv' /\ GapStep
  <1> DEFINE k == handler[h].credential
             p == handler[h].of
             doomed == handler[h].doomed
  <1>1. /\ handler[h].at = "commit" /\ k \in Credentials /\ p \in Providers /\ p # None
        /\ \A d \in doomed : d \in Credentials /\ credential[d].owner = p
    BY RoutingAssumption DEF StoreCredential, At, CredentialInv, TransactionsAreSound, Sound
  <1>2. credential' = [x \in Credentials |->
          IF x = k THEN [owner |-> IF credential[k].owner = None THEN p ELSE credential[k].owner,
                         isActive |-> TRUE]
          ELSE IF x \in doomed THEN [credential[x] EXCEPT !.isActive = FALSE]
          ELSE credential[x]]
    BY DEF StoreCredential
  <1>3. OwnersStay
    BY <1>1, <1>2 DEF OwnersStay, CredentialInv, CredentialsAreTyped
  <1>4. CredentialInv'
    <2>1. Sound(Idle)'
      BY IdleIsARecord DEF Sound
    <2>2. QED
      BY <1>3, <2>1, IdleIsARecord, SlotStep DEF StoreCredential, Finish
  <1>5. ASSUME NEW q \in Providers, HasCredential(q), ~HasCredential(q)'
        PROVE  At(h, "commit") /\ p = q /\ credential[k].owner \notin {q, None}
    <2>1. PICK x \in Credentials : credential[x].owner = q /\ credential[x].isActive
      BY <1>5 DEF HasCredential
    <2>2. x # k /\ x \in doomed
      <3>1. q # None
        BY RoutingAssumption
      <3>2. credential'[x].owner = q /\ (x = k \/ x \notin doomed => credential'[x].isActive)
        BY <1>2, <2>1, <3>1
      <3>3. ~credential'[x].isActive
        BY <1>5, <3>2 DEF HasCredential
      <3>4. QED
        BY <3>2, <3>3
    <2>3. p = q
      BY <1>1, <2>1, <2>2
    <2>4. credential'[k].isActive
          /\ (credential[k].owner \in {q, None} => credential'[k].owner = q)
      BY <1>1, <1>2, <2>3
    <2>5. QED
      BY <1>1, <1>5, <2>3, <2>4 DEF HasCredential, At
  <1>6. GapStep
    BY <1>1, <1>5 DEF GapStep
  <1>7. QED
    BY <1>4, <1>6

LEMMA AdministrationStep ==
  ASSUME CredentialInv, NEW h \in Handlers, Administration(h)
  PROVE  CredentialInv' /\ GapStep
  <1>1. ASSUME NEW p \in Providers, GetProviderById(h, p) PROVE CredentialInv' /\ GapStep
    <2>1. PICK x : x = [Idle EXCEPT !.at = "update", !.of = p] /\ handler' = [handler EXCEPT ![h] = x]
      BY <1>1 DEF GetProviderById
    <2>2. DOMAIN x = Fields /\ x.at # "commit"
      BY <2>1 DEF Idle, Fields
    <2>3. QED
      BY <1>1, <2>1, <2>2, QuietStep DEF GetProviderById, tables
  <1>2. ASSUME NEW p \in Providers, FindActiveRule(h, p) PROVE CredentialInv' /\ GapStep
    <2>1. PICK x : x = [Idle EXCEPT !.at = "delete", !.of = p] /\ handler' = [handler EXCEPT ![h] = x]
      BY <1>2 DEF FindActiveRule
    <2>2. DOMAIN x = Fields /\ x.at # "commit"
      BY <2>1 DEF Idle, Fields
    <2>3. QED
      BY <1>2, <2>1, <2>2, QuietStep DEF FindActiveRule, tables
  <1>3. ASSUME NEW p \in Providers, NEW status \in Statuses, FindActiveCredential(h, p, status)
        PROVE  CredentialInv' /\ GapStep
    <2>1. PICK x : /\ x = [Idle EXCEPT !.at = "status", !.of = p, !.status = status]
                   /\ handler' = [handler EXCEPT ![h] = x]
      BY <1>3 DEF FindActiveCredential
    <2>2. DOMAIN x = Fields /\ x.at # "commit"
      BY <2>1 DEF Idle, Fields
    <2>3. QED
      BY <1>3, <2>1, <2>2, QuietStep DEF FindActiveCredential, tables
  <1>4. ASSUME NEW p \in Providers, NEW c \in ProviderContents, NEW status \in Statuses,
               CreateProvider(p, c, status)
        PROVE  CredentialInv' /\ GapStep
    <2>1. UNCHANGED <<credential, handler>>
      BY <1>4 DEF CreateProvider
    <2>2. QED
      BY <2>1, OtherStep DEF CredentialInv, HandlersAreRecords, CredentialsAreTyped,
        TransactionsAreSound, Sound
  <1>5. ASSUME \/ SoftDeleteProvider(h) \/ SetProviderStatus(h)
               \/ \E c \in ProviderContents, status \in Statuses : UpdateProvider(h, c, status)
        PROVE  CredentialInv' /\ GapStep
    BY <1>5, FinishStep DEF SoftDeleteProvider, SetProviderStatus, UpdateProvider
  <1>6. QED
    BY <1>1, <1>2, <1>3, <1>4, <1>5, DeactivateStep, StoreStep
    DEF Administration, CreateOrUpdateProvider, UpsertProviderCredential

LEMMA DeactivatedByHand ==
  ASSUME CredentialInv, NEW k \in Credentials, StoreInactiveCredential(k)
  PROVE  CredentialInv' /\ GapStep
  <1>1. UNCHANGED handler /\ credential' = [credential EXCEPT ![k].isActive = FALSE]
    BY DEF StoreInactiveCredential
  <1>2. CredentialsAreTyped' /\ \A l \in Credentials : credential'[l].owner = credential[l].owner
    BY <1>1 DEF CredentialInv, CredentialsAreTyped
  <1>3. GapStep
    BY DEF GapStep
  <1>4. QED
    BY <1>1, <1>2, <1>3 DEF CredentialInv, HandlersAreRecords, TransactionsAreSound, Sound

LEMMA CredentialsStep ==
  ASSUME CredentialInv, [Next]_vars
  PROVE  CredentialInv' /\ GapStep
  <1>1. ASSUME NEW h \in Handlers, Crash(h) PROVE CredentialInv' /\ GapStep
    BY <1>1, FinishStep DEF Crash, tables
  <1>2. CASE UNCHANGED <<credential, handler>>
    BY <1>2, OtherStep DEF CredentialInv, HandlersAreRecords, CredentialsAreTyped,
      TransactionsAreSound, Sound
  <1>3. ASSUME NEW r \in Rules, DeleteRoutingRule(r) \/ \E c \in RuleContents : UpsertRoutingRule(r, c)
        PROVE  UNCHANGED <<credential, handler>>
    BY <1>3 DEF DeleteRoutingRule, UpsertRoutingRule
  <1>4. QED
    BY <1>1, <1>2, <1>3, DeliveryStep, AdministrationStep, DeactivatedByHand
    DEF Next, vars, tables

(* A provider loses its last active credential by hand, or to a credential  *)
(* of another provider, and never while one replaces it.                    *)
THEOREM CredentialsAreAlwaysReplacedAtOnce == Spec => CredentialsAreReplacedAtOnce
  <1>1. Init => CredentialInv
    <2>1. SUFFICES ASSUME Init PROVE CredentialInv
      OBVIOUS
    <2>2. PICK owner \in [Credentials -> Providers \cup {None}] :
            credential = [k \in Credentials |-> [owner |-> owner[k], isActive |-> owner[k] # None]]
      BY <2>1 DEF Init
    <2>3. HandlersAreRecords /\ TransactionsAreSound
      BY <2>1, IdleIsARecord DEF Init, HandlersAreRecords, TransactionsAreSound, Sound
    <2>4. QED
      BY <2>2, <2>3 DEF CredentialInv, CredentialsAreTyped
  <1>2. CredentialInv /\ [Next]_vars => CredentialInv' /\ [GapStep]_vars
    BY CredentialsStep
  <1>3. CredentialsAreReplacedAtOnce <=> [][GapStep]_vars
    BY PTL DEF CredentialsAreReplacedAtOnce, GapStep
  <1>4. QED
    BY <1>1, <1>2, <1>3, PTL DEF Spec

----------------------------------------------------------------------------
(* Providers in use *)

ProvidersAreTyped ==
  provider \in [Providers -> [exists : BOOLEAN, deleted : BOOLEAN, status : Statuses, health : Health,
                              failures : Nat, content : ProviderContents \cup {None}]]

Deleted == {p \in Providers : provider[p].deleted}

ProvidersAreSound ==
  /\ \A p \in Deleted : provider[p].exists
  /\ DownMeansFailures

(* What a delivery may ask that found the providers G deleted.              *)
Offered(G) == {p \in Providers \ G : provider[p].exists}

(* What a handler x that found the providers G deleted has in hand.         *)
Routes(x, G) ==
  /\ x.left \in Seq(Offered(G))
  /\ x.at \notin {"idle", "providers", "attempt"} => x.of \in Offered(G)
  /\ x.at = "attempt" => x.left # <<>>
  /\ x.of \notin G
  /\ x.at = "idle" => G = {}
  /\ x.at = "judge" => x.seen \in Nat /\ x.seen <= provider[x.of].failures
  /\ x.status \in Statuses
  /\ G \subseteq Deleted

RoutesAreSound == \A h \in Handlers : Routes(handler[h], gone[h])

RoutingInv ==
  /\ HandlersAreRecords /\ gone \in [Handlers -> SUBSET Providers]
  /\ ProvidersAreTyped /\ ProvidersAreSound /\ RoutesAreSound

(* What no step takes back from a provider that is there.                   *)
ProvidersStay ==
  /\ ProvidersAreTyped' /\ ProvidersAreSound'
  /\ \A p \in Providers :
       /\ provider[p].exists => provider'[p].exists /\ provider[p].failures <= provider'[p].failures
       /\ provider[p].deleted => provider'[p].deleted

LEMMA RoutesStayRoutes ==
  ASSUME ProvidersAreTyped, ProvidersStay, NEW x, NEW G, Routes(x, G)
  PROVE  Routes(x, G)'
  <1>1. Offered(G) \subseteq Offered(G)' /\ Deleted \subseteq Deleted'
    BY DEF ProvidersStay, Offered, Deleted
  <1>2. x.left \in Seq(Offered(G)')
    BY <1>1 DEF Routes
  <1>3. x.at = "judge" => x.seen <= provider'[x.of].failures
    <2>1. ASSUME x.at = "judge" PROVE x.seen <= provider'[x.of].failures
      <3>1. x.of \in Providers /\ provider[x.of].exists
            /\ x.seen \in Nat /\ x.seen <= provider[x.of].failures
        BY <2>1 DEF Routes, Offered
      <3>2. provider[x.of].failures <= provider'[x.of].failures
        BY <3>1 DEF ProvidersStay
      <3>3. provider[x.of].failures \in Nat /\ provider'[x.of].failures \in Nat
        BY <3>1 DEF ProvidersAreTyped, ProvidersStay
      <3>4. QED
        BY <3>1, <3>2, <3>3
    <2>2. QED
      BY <2>1
  <1>4. QED
    BY <1>1, <1>2, <1>3 DEF Routes

LEMMA ProvidersRest ==
  ASSUME RoutingInv, UNCHANGED provider
  PROVE  ProvidersStay
  <1>1. ProvidersAreTyped' /\ ProvidersAreSound'
    BY DEF RoutingInv, ProvidersAreTyped, ProvidersAreSound, Deleted, DownMeansFailures
  <1>2. \A p \in Providers : provider[p].failures \in Nat
    BY DEF RoutingInv, ProvidersAreTyped
  <1>3. QED
    BY <1>1, <1>2 DEF ProvidersStay

(* One slot changes; the others keep what they have in hand.                *)
LEMMA RouteStep ==
  ASSUME RoutingInv, ProvidersStay, NEW h \in Handlers, NEW x, NEW G,
         DOMAIN x = Fields, Routes(x, G)',
         handler' = [handler EXCEPT ![h] = x], gone' = [gone EXCEPT ![h] = G]
  PROVE  RoutingInv'
  <1>1. HandlersAreRecords' /\ gone' \in [Handlers -> SUBSET Providers]
    <2>1. G \subseteq Providers
      BY DEF Routes, Deleted
    <2>2. QED
      BY <2>1 DEF RoutingInv, HandlersAreRecords
  <1>2. ASSUME NEW g \in Handlers PROVE Routes(handler[g], gone[g])'
    <2>1. CASE g = h
      <3>1. handler'[g] = x /\ gone'[g] = G
        BY <2>1 DEF RoutingInv, HandlersAreRecords
      <3>2. QED
        BY <3>1 DEF Routes
    <2>2. CASE g # h
      <3>1. PICK y, H : y = handler[g] /\ handler'[g] = y /\ H = gone[g] /\ gone'[g] = H
        BY <2>2 DEF RoutingInv, HandlersAreRecords
      <3>2. Routes(y, H)
        BY <3>1 DEF RoutingInv, RoutesAreSound
      <3>3. Routes(y, H)'
        BY <3>2, RoutesStayRoutes DEF RoutingInv
      <3>4. QED
        BY <3>1, <3>3 DEF Routes
    <2>3. QED
      BY <2>1, <2>2
  <1>3. QED
    BY <1>1, <1>2 DEF RoutingInv, ProvidersStay, RoutesAreSound

(* No slot changes.                                                         *)
LEMMA RowsOnlyStep ==
  ASSUME RoutingInv, ProvidersStay, UNCHANGED <<handler, gone>>
  PROVE  RoutingInv'
  <1>1. ASSUME NEW g \in Handlers PROVE Routes(handler[g], gone[g])'
    <2>1. PICK y, H : y = handler[g] /\ handler'[g] = y /\ H = gone[g] /\ gone'[g] = H
      OBVIOUS
    <2>2. Routes(y, H)
      BY <2>1 DEF RoutingInv, RoutesAreSound
    <2>3. Routes(y, H)'
      BY <2>2, RoutesStayRoutes DEF RoutingInv
    <2>4. QED
      BY <2>1, <2>3 DEF Routes
  <1>2. QED
    BY <1>1 DEF RoutingInv, HandlersAreRecords, ProvidersStay, RoutesAreSound

LEMMA IdleHasNothing ==
  /\ DOMAIN Idle = Fields /\ Idle.at = "idle" /\ Idle.left = <<>> /\ Idle.of = None
  /\ Idle.seen = 0 /\ Idle.status = "ACTIVE"
  BY DEF Idle, Fields

LEMMA DoneStep ==
  ASSUME RoutingInv, ProvidersStay, NEW h \in Handlers, Finish(h)
  PROVE  RoutingInv'
  <1>1. Routes(Idle, {})'
    BY IdleHasNothing DEF Routes, Statuses
  <1>2. QED
    BY <1>1, IdleHasNothing, RouteStep DEF Finish

(* A slot that keeps what it knows of deletions.                            *)
LEMMA GoOnStep ==
  ASSUME RoutingInv, ProvidersStay, NEW h \in Handlers, NEW x, DOMAIN x = Fields,
         Routes(x, gone[h])', handler' = [handler EXCEPT ![h] = x], UNCHANGED gone
  PROVE  RoutingInv'
  <1>1. PICK G : G = gone[h]
    OBVIOUS
  <1>2. gone' = [gone EXCEPT ![h] = G]
    BY <1>1 DEF RoutingInv
  <1>3. Routes(x, G)'
    BY <1>1 DEF Routes
  <1>4. QED
    BY <1>2, <1>3, RouteStep

LEMMA NextStep ==
  ASSUME RoutingInv, ProvidersStay, NEW h \in Handlers, NEW left \in Seq(Offered(gone[h])),
         NextAttempt(h, left)
  PROVE  RoutingInv'
  <1>1. CASE left = <<>>
    BY <1>1, DoneStep DEF NextAttempt
  <1>2. CASE left # <<>>
    <2>1. PICK y, G : y = handler[h] /\ DOMAIN y = Fields /\ G = gone[h] /\ Routes(y, G)
      BY DEF RoutingInv, HandlersAreRecords, RoutesAreSound
    <2>2. PICK x : /\ x = [y EXCEPT !.at = "attempt", !.left = left, !.of = None, !.seen = 0]
                   /\ handler' = [handler EXCEPT ![h] = x]
      BY <1>2, <2>1 DEF NextAttempt
    <2>3. DOMAIN x = Fields /\ x.at = "attempt" /\ x.left = left /\ x.of = None /\ x.status = y.status
      BY <2>1, <2>2 DEF Fields
    <2>4. left \in Seq(Offered(G)) /\ None \notin G
      BY <2>1, RoutingAssumption DEF Routes, Deleted
    <2>5. Routes(x, G)
      BY <1>2, <2>1, <2>3, <2>4 DEF Routes
    <2>6. Routes(x, G)'
      BY <2>5, RoutesStayRoutes DEF RoutingInv
    <2>7. UNCHANGED gone
      BY <1>2 DEF NextAttempt
    <2>8. gone' = [gone EXCEPT ![h] = G]
      BY <2>1, <2>7 DEF RoutingInv
    <2>9. QED
      BY <2>2, <2>3, <2>6, <2>8, RouteStep
  <1>3. QED
    BY <1>1, <1>2

(* What is ranked are candidates.                                           *)
LEMMA RankingsAreCandidates ==
  ASSUME NEW r, NEW s, NEW q \in Rankings(r, s)
  PROVE  q \in Seq(Candidates(r, s))
  <1>1. Candidates(r, s) \subseteq Providers
    BY DEF Candidates
  <1>2. Cardinality(Candidates(r, s)) \in Nat
    BY <1>1, RoutingAssumption, FS_Subset, FS_CardinalityType
  <1>3. q \in [1 .. Cardinality(Candidates(r, s)) -> Candidates(r, s)]
    BY DEF Rankings
  <1>4. QED
    BY <1>2, <1>3

LEMMA FindRuleStep ==
  ASSUME RoutingInv, NEW h \in Handlers, NEW s \in Scopes, FindRule(h, s)
  PROVE  RoutingInv'
  <1>1. PICK x, r : /\ x = [Idle EXCEPT !.at = "providers", !.scope = s, !.rule = r]
                    /\ handler' = [handler EXCEPT ![h] = x]
    BY DEF FindRule
  <1>2. PICK G : G = Deleted
    OBVIOUS
  <1>3. gone' = [gone EXCEPT ![h] = G] /\ UNCHANGED provider
    BY <1>2 DEF FindRule, Deleted, tables
  <1>4. /\ DOMAIN x = Fields /\ x.at = "providers" /\ x.left = <<>> /\ x.of = None
        /\ x.status = "ACTIVE"
    BY <1>1 DEF Idle, Fields
  <1>5. Routes(x, G)
    BY <1>2, <1>4, RoutingAssumption DEF Routes, Deleted, Statuses
  <1>6. ProvidersStay
    BY <1>3, ProvidersRest
  <1>7. Routes(x, G)'
    BY <1>5, <1>6, RoutesStayRoutes DEF RoutingInv
  <1>8. QED
    BY <1>1, <1>3, <1>4, <1>6, <1>7, RouteStep

LEMMA FindProvidersStep ==
  ASSUME RoutingInv, NEW h \in Handlers, FindCandidateProviders(h)
  PROVE  RoutingInv'
  <1>1. ProvidersStay
    BY ProvidersRest DEF FindCandidateProviders, tables
  <1>2. CASE Finish(h)
    BY <1>1, <1>2, DoneStep
  <1>3. CASE ~Finish(h)
    <2>1. PICK q : q \in Rankings(handler[h].rule, handler[h].scope) /\ q # <<>>
                   /\ handler' = [handler EXCEPT ![h] = [Idle EXCEPT !.at = "attempt",
                        !.left = SubSeq(q, 1, IF Len(q) < MaxTries THEN Len(q) ELSE MaxTries)]]
                   /\ UNCHANGED gone
      BY <1>3 DEF FindCandidateProviders
    <2>2. PICK G : G = gone[h] /\ G \subseteq Deleted
      BY DEF RoutingInv, RoutesAreSound, Routes
    <2>3. Candidates(handler[h].rule, handler[h].scope) \subseteq Offered(G)
      BY <2>2 DEF Candidates, Offered, Deleted
    <2>4. q \in Seq(Offered(G)) /\ q # <<>>
      BY <2>1, <2>3, RankingsAreCandidates
    <2>5. PICK left : left = SubSeq(q, 1, IF Len(q) < MaxTries THEN Len(q) ELSE MaxTries)
      OBVIOUS
    <2>6. left \in Seq(Offered(G)) /\ left # <<>>
      <3>1. PICK n \in Nat : n = Len(q) /\ n # 0
        BY <2>4
      <3>2. PICK m \in 1 .. n : m = IF n < MaxTries THEN n ELSE MaxTries
        BY <3>1, RoutingAssumption
      <3>3. left = SubSeq(q, 1, m)
        BY <2>5, <3>1, <3>2
      <3>4. left \in Seq(Offered(G)) /\ Len(left) = m
        BY <2>4, <3>1, <3>2, <3>3
      <3>5. QED
        BY <3>2, <3>4
    <2>7. PICK x : x = [Idle EXCEPT !.at = "attempt", !.left = left]
                   /\ handler' = [handler EXCEPT ![h] = x]
      BY <2>1, <2>5
    <2>8. /\ DOMAIN x = Fields /\ x.at = "attempt" /\ x.left = left /\ x.of = None
          /\ x.status = "ACTIVE"
      BY <2>7 DEF Idle, Fields
    <2>9. Routes(x, G)
      BY <2>2, <2>6, <2>8, RoutingAssumption DEF Routes, Deleted, Statuses
    <2>10. Routes(x, G)'
      BY <1>1, <2>9, RoutesStayRoutes DEF RoutingInv
    <2>11. gone' = [gone EXCEPT ![h] = G]
      BY <2>1, <2>2 DEF RoutingInv
    <2>12. QED
      BY <1>1, <2>7, <2>8, <2>10, <2>11, RouteStep
  <1>4. QED
    BY <1>2, <1>3

LEMMA HeadAndTail ==
  ASSUME NEW S, NEW q \in Seq(S), q # <<>>
  PROVE  Head(q) \in S /\ Tail(q) \in Seq(S)
  OBVIOUS

LEMMA SkipStep ==
  ASSUME RoutingInv, NEW h \in Handlers, SkipLimited(h)
  PROVE  RoutingInv'
  <1>1. ProvidersStay
    BY ProvidersRest DEF SkipLimited, tables
  <1>2. Routes(handler[h], gone[h]) /\ handler[h].at = "attempt"
    BY DEF RoutingInv, RoutesAreSound, SkipLimited, At
  <1>3. Tail(handler[h].left) \in Seq(Offered(gone[h]))
    BY <1>2, HeadAndTail DEF Routes
  <1>4. QED
    BY <1>1, <1>3, NextStep DEF SkipLimited

LEMMA SendStep ==
  ASSUME RoutingInv, NEW h \in Handlers, NEW ok \in BOOLEAN, Send(h, ok)
  PROVE  RoutingInv'
  <1>1. ProvidersStay
    BY ProvidersRest DEF Send, tables
  <1>2. PICK y, G : y = handler[h] /\ DOMAIN y = Fields /\ G = gone[h] /\ Routes(y, G)
                    /\ y.at = "attempt"
    BY DEF RoutingInv, HandlersAreRecords, RoutesAreSound, Send, At
  <1>3. Head(y.left) \in Offered(G) /\ Tail(y.left) \in Seq(Offered(G))
    BY <1>2, HeadAndTail DEF Routes
  <1>4. PICK x : /\ x = [y EXCEPT !.at = IF ok THEN "success" ELSE "failure",
                           !.of = Head(y.left), !.left = Tail(y.left)]
                 /\ handler' = [handler EXCEPT ![h] = x]
    BY <1>2 DEF Send, RoutingInv, HandlersAreRecords
  <1>5. /\ DOMAIN x = Fields /\ x.at \in {"success", "failure"} /\ x.of = Head(y.left)
        /\ x.left = Tail(y.left) /\ x.status = y.status
    BY <1>2, <1>4 DEF Fields
  <1>6. Routes(x, G)
    BY <1>2, <1>3, <1>5 DEF Routes, Offered
  <1>7. Routes(x, G)'
    BY <1>1, <1>6, RoutesStayRoutes DEF RoutingInv
  <1>8. gone' = [gone EXCEPT ![h] = G]
    BY <1>2 DEF Send, RoutingInv
  <1>9. QED
    BY <1>1, <1>4, <1>5, <1>7, <1>8, RouteStep

(* An idle handler takes up a provider that is there.                       *)
LEMMA TakeUpStep ==
  ASSUME RoutingInv, NEW h \in Handlers, At(h, "idle"), NEW p \in Providers, provider[p].exists,
         NEW x, DOMAIN x = Fields, x.at \notin {"attempt", "idle", "judge"}, x.left = <<>>, x.of = p,
         x.status \in Statuses, handler' = [handler EXCEPT ![h] = x], UNCHANGED <<provider, gone>>
  PROVE  RoutingInv'
  <1>1. ProvidersStay
    BY ProvidersRest
  <1>2. PICK G : G = gone[h] /\ G = {}
    BY DEF RoutingInv, RoutesAreSound, Routes, At
  <1>3. Routes(x, G)
    BY <1>2 DEF Routes, Offered
  <1>4. Routes(x, G)'
    BY <1>1, <1>3, RoutesStayRoutes DEF RoutingInv
  <1>5. gone' = [gone EXCEPT ![h] = G]
    BY <1>2 DEF RoutingInv
  <1>6. QED
    BY <1>1, <1>4, <1>5, RouteStep

(* A provider's row changes; its content and status may be any.             *)
LEMMA RowStep ==
  ASSUME RoutingInv, NEW p \in Providers,
         NEW row \in [exists : BOOLEAN, deleted : BOOLEAN, status : Statuses, health : Health,
                      failures : Nat, content : ProviderContents \cup {None}],
         row.exists, provider[p].exists => provider[p].failures <= row.failures,
         provider[p].deleted => row.deleted,
         row.health = "DOWN" => row.failures + 1 >= DownAfter,
         provider' = [provider EXCEPT ![p] = row]
  PROVE  ProvidersStay
  <1>1. ProvidersAreTyped'
    BY DEF RoutingInv, ProvidersAreTyped
  <1>2. /\ provider'[p] = row
        /\ \A q \in Providers : q # p => provider'[q] = provider[q]
        /\ \A q \in Providers : provider[q].failures \in Nat
    BY DEF RoutingInv, ProvidersAreTyped
  <1>3. ProvidersAreSound'
    <2>1. \A q \in Deleted' : provider'[q].exists
      BY <1>2 DEF RoutingInv, ProvidersAreSound, Deleted
    <2>2. DownMeansFailures'
      BY <1>2 DEF RoutingInv, ProvidersAreSound, DownMeansFailures
    <2>3. QED
      BY <2>1, <2>2 DEF ProvidersAreSound
  <1>4. QED
    BY <1>1, <1>2, <1>3 DEF ProvidersStay

LEMMA HandIsSound ==
  ASSUME RoutingInv, NEW h \in Handlers, handler[h].at \notin {"idle", "providers", "attempt"}
  PROVE  handler[h].of \in Providers /\ provider[handler[h].of].exists
  BY DEF RoutingInv, RoutesAreSound, Routes, Offered

LEMMA SuccessStep ==
  ASSUME RoutingInv, NEW h \in Handlers, RecordSuccess(h)
  PROVE  RoutingInv'
  <1>1. PICK p : p = handler[h].of /\ p \in Providers /\ provider[p].exists
    BY HandIsSound DEF RecordSuccess, At
  <1>2. PICK row : row = [provider[p] EXCEPT !.health = "HEALTHY"]
                   /\ provider' = [provider EXCEPT ![p] = row]
    BY <1>1 DEF RecordSuccess, RoutingInv, ProvidersAreTyped
  <1>3. /\ row \in [exists : BOOLEAN, deleted : BOOLEAN, status : Statuses, health : Health,
                    failures : Nat, content : ProviderContents \cup {None}]
        /\ row.exists /\ provider[p].failures <= row.failures /\ row.deleted = provider[p].deleted
        /\ row.health = "HEALTHY"
    BY <1>1, <1>2 DEF RoutingInv, ProvidersAreTyped, Health
  <1>4. ProvidersStay
    BY <1>1, <1>2, <1>3, RowStep
  <1>5. QED
    BY <1>4, DoneStep DEF RecordSuccess

LEMMA FailureStep ==
  ASSUME RoutingInv, NEW h \in Handlers, CountFailure(h)
  PROVE  RoutingInv'
  <1>1. PICK y, G : y = handler[h] /\ DOMAIN y = Fields /\ G = gone[h] /\ Routes(y, G)
                    /\ y.at = "failure"
    BY DEF RoutingInv, HandlersAreRecords, RoutesAreSound, CountFailure, At
  <1>2. PICK p : p = y.of /\ p \in Offered(G) /\ p \in Providers /\ provider[p].exists
    BY <1>1 DEF Routes, Offered
  <1>3. PICK n \in Nat : n = provider[p].failures
    BY <1>2 DEF RoutingInv, ProvidersAreTyped
  <1>4. PICK row : row = [provider[p] EXCEPT !.failures = n + 1]
                   /\ provider' = [provider EXCEPT ![p] = row]
    BY <1>1, <1>2, <1>3 DEF CountFailure, RoutingInv, ProvidersAreTyped
  <1>5. /\ row \in [exists : BOOLEAN, deleted : BOOLEAN, status : Statuses, health : Health,
                    failures : Nat, content : ProviderContents \cup {None}]
        /\ row.exists /\ row.failures = n + 1 /\ row.deleted = provider[p].deleted
        /\ row.health = provider[p].health
    BY <1>2, <1>3, <1>4 DEF RoutingInv, ProvidersAreTyped
  <1>6. row.health = "DOWN" => row.failures + 1 >= DownAfter
    <2>1. row.health = "DOWN" => n + 1 >= DownAfter
      BY <1>2, <1>3, <1>5 DEF RoutingInv, ProvidersAreSound, DownMeansFailures
    <2>2. DownAfter \in Nat
      BY RoutingAssumption
    <2>3. QED
      BY <1>5, <2>1, <2>2
  <1>7. ProvidersStay
    <2>1. provider[p].failures <= row.failures
      BY <1>3, <1>5
    <2>2. QED
      BY <1>2, <1>4, <1>5, <1>6, <2>1, RowStep
  <1>8. PICK x : x = [y EXCEPT !.at = "judge", !.seen = n + 1] /\ handler' = [handler EXCEPT ![h] = x]
    BY <1>1, <1>2, <1>3 DEF CountFailure, RoutingInv, HandlersAreRecords
  <1>9. /\ DOMAIN x = Fields /\ x.at = "judge" /\ x.of = p /\ x.left = y.left /\ x.seen = n + 1
        /\ x.status = y.status
    BY <1>1, <1>2, <1>8 DEF Fields
  <1>10. Routes(y, G)'
    BY <1>1, <1>7, RoutesStayRoutes DEF RoutingInv
  <1>11. provider'[p].failures = n + 1 /\ p \in Offered(G)'
    BY <1>2, <1>4, <1>5 DEF RoutingInv, ProvidersAreTyped, Offered
  <1>12. Routes(x, G)'
    BY <1>1, <1>2, <1>9, <1>10, <1>11 DEF Routes
  <1>13. gone' = [gone EXCEPT ![h] = G]
    BY <1>1 DEF CountFailure, RoutingInv
  <1>14. QED
    BY <1>7, <1>8, <1>9, <1>12, <1>13, RouteStep

LEMMA JudgeStep ==
  ASSUME RoutingInv, NEW h \in Handlers, JudgeHealth(h)
  PROVE  RoutingInv'
  <1>1. PICK y, G : y = handler[h] /\ G = gone[h] /\ Routes(y, G) /\ y.at = "judge"
    BY DEF RoutingInv, RoutesAreSound, JudgeHealth, At
  <1>2. PICK p : p = y.of /\ p \in Providers /\ provider[p].exists
    BY <1>1 DEF Routes, Offered
  <1>3. PICK health : /\ health = IF y.seen + 1 >= DownAfter THEN "DOWN" ELSE "DEGRADED"
                      /\ provider' = [provider EXCEPT ![p].health = health]
    BY <1>1, <1>2 DEF JudgeHealth
  <1>4. PICK row : row = [provider[p] EXCEPT !.health = health]
                   /\ provider' = [provider EXCEPT ![p] = row]
    BY <1>2, <1>3 DEF RoutingInv, ProvidersAreTyped
  <1>5. /\ row \in [exists : BOOLEAN, deleted : BOOLEAN, status : Statuses, health : Health,
                    failures : Nat, content : ProviderContents \cup {None}]
        /\ row.exists /\ row.failures = provider[p].failures /\ row.deleted = provider[p].deleted
        /\ row.health = health
    BY <1>2, <1>3, <1>4 DEF RoutingInv, ProvidersAreTyped, Health
  <1>6. y.seen \in Nat /\ y.seen <= provider[p].failures /\ provider[p].failures \in Nat
    BY <1>1, <1>2 DEF Routes, RoutingInv, ProvidersAreTyped
  <1>7. health = "DOWN" => row.failures + 1 >= DownAfter
    BY <1>3, <1>5, <1>6, RoutingAssumption
  <1>8. ProvidersStay
    <2>1. provider[p].failures <= row.failures /\ (row.health = "DOWN" => row.failures + 1 >= DownAfter)
      BY <1>5, <1>6, <1>7
    <2>2. QED
      BY <1>2, <1>4, <1>5, <2>1, RowStep
  <1>9. QED
    BY <1>1, <1>8, NextStep DEF JudgeHealth, Routes

LEMMA HealthDeliveryStep ==
  ASSUME RoutingInv, NEW h \in Handlers, Delivery(h)
  PROVE  RoutingInv'
  <1>1. ASSUME NEW p \in Providers, NEW ok \in BOOLEAN, TestProvider(h, p, ok) PROVE RoutingInv'
    <2>1. PICK x : /\ x = [Idle EXCEPT !.at = IF ok THEN "success" ELSE "failure", !.of = p]
                   /\ handler' = [handler EXCEPT ![h] = x]
      BY <1>1 DEF TestProvider
    <2>2. /\ DOMAIN x = Fields /\ x.at \in {"success", "failure"} /\ x.left = <<>> /\ x.of = p
          /\ x.status \in Statuses
      BY <2>1 DEF Idle, Fields, Statuses
    <2>3. provider[p].exists /\ At(h, "idle") /\ UNCHANGED <<provider, gone>>
      BY <1>1 DEF TestProvider, tables
    <2>4. QED
      BY <2>1, <2>2, <2>3, TakeUpStep
  <1>2. QED
    BY <1>1, FindRuleStep, FindProvidersStep, SkipStep, SendStep, SuccessStep, FailureStep, JudgeStep
    DEF Delivery, UpdateProviderHealth

LEMMA HealthAdministrationStep ==
  ASSUME RoutingInv, NEW h \in Handlers, Administration(h)
  PROVE  RoutingInv'
  <1> DEFINE TakesUp == \E p \in Providers : \E x :
               /\ provider[p].exists /\ At(h, "idle") /\ UNCHANGED <<provider, gone>>
               /\ DOMAIN x = Fields /\ x.at \notin {"attempt", "idle", "judge"} /\ x.left = <<>>
               /\ x.of = p /\ x.status \in Statuses /\ handler' = [handler EXCEPT ![h] = x]
  <1>1. ASSUME TakesUp PROVE RoutingInv'
    BY <1>1, TakeUpStep
  <1>2. ASSUME NEW p \in Providers, GetProviderById(h, p) PROVE TakesUp
    <2>1. PICK x : x = [Idle EXCEPT !.at = "update", !.of = p] /\ handler' = [handler EXCEPT ![h] = x]
      BY <1>2 DEF GetProviderById
    <2>2. DOMAIN x = Fields /\ x.at = "update" /\ x.left = <<>> /\ x.of = p /\ x.status \in Statuses
      BY <2>1 DEF Idle, Fields, Statuses
    <2>3. provider[p].exists /\ At(h, "idle") /\ UNCHANGED <<provider, gone>>
      BY <1>2 DEF GetProviderById, tables
    <2>4. QED
      BY <2>1, <2>2, <2>3
  <1>3. ASSUME NEW p \in Providers, FindActiveRule(h, p) PROVE TakesUp
    <2>1. PICK x : x = [Idle EXCEPT !.at = "delete", !.of = p] /\ handler' = [handler EXCEPT ![h] = x]
      BY <1>3 DEF FindActiveRule
    <2>2. DOMAIN x = Fields /\ x.at = "delete" /\ x.left = <<>> /\ x.of = p /\ x.status \in Statuses
      BY <2>1 DEF Idle, Fields, Statuses
    <2>3. provider[p].exists /\ At(h, "idle") /\ UNCHANGED <<provider, gone>>
      BY <1>3 DEF FindActiveRule, tables
    <2>4. QED
      BY <2>1, <2>2, <2>3
  <1>4. ASSUME NEW p \in Providers, NEW status \in Statuses, FindActiveCredential(h, p, status)
        PROVE  TakesUp
    <2>1. PICK x : /\ x = [Idle EXCEPT !.at = "status", !.of = p, !.status = status]
                   /\ handler' = [handler EXCEPT ![h] = x]
      BY <1>4 DEF FindActiveCredential
    <2>2. DOMAIN x = Fields /\ x.at = "status" /\ x.left = <<>> /\ x.of = p /\ x.status \in Statuses
      BY <2>1 DEF Idle, Fields
    <2>3. provider[p].exists /\ At(h, "idle") /\ UNCHANGED <<provider, gone>>
      BY <1>4 DEF FindActiveCredential, tables
    <2>4. QED
      BY <2>1, <2>2, <2>3
  <1>5. ASSUME NEW p \in Providers, NEW k \in Credentials, DeactivateCredentials(h, p, k) PROVE TakesUp
    <2>1. PICK x : /\ x = [Idle EXCEPT !.at = "commit", !.of = p, !.credential = k, !.doomed = ActiveOf(p)]
                   /\ handler' = [handler EXCEPT ![h] = x]
      BY <1>5 DEF DeactivateCredentials
    <2>2. DOMAIN x = Fields /\ x.at = "commit" /\ x.left = <<>> /\ x.of = p /\ x.status \in Statuses
      BY <2>1 DEF Idle, Fields, Statuses
    <2>3. provider[p].exists /\ At(h, "idle") /\ UNCHANGED <<provider, gone>>
      BY <1>5 DEF DeactivateCredentials, tables
    <2>4. QED
      BY <2>1, <2>2, <2>3
  <1>6. ASSUME NEW p \in Providers, NEW c \in ProviderContents, NEW status \in Statuses,
               CreateProvider(p, c, status)
        PROVE  RoutingInv'
    <2>1. PICK row : /\ row = [NoProvider EXCEPT !.exists = TRUE, !.content = c, !.status = status]
                     /\ provider' = [provider EXCEPT ![p] = row]
      BY <1>6 DEF CreateProvider
    <2>2. /\ row \in [exists : BOOLEAN, deleted : BOOLEAN, status : Statuses, health : Health,
                      failures : Nat, content : ProviderContents \cup {None}]
          /\ row.exists /\ row.health = "HEALTHY"
      BY <2>1 DEF NoProvider, Health
    <2>3. ~provider[p].exists /\ ~provider[p].deleted
      <3>1. p \in Nat
        BY RoutingAssumption
      <3>2. ~provider[p].exists
        BY <1>6, <3>1 DEF CreateProvider
      <3>3. QED
        BY <3>2 DEF RoutingInv, ProvidersAreSound, Deleted
    <2>4. ProvidersStay
      BY <2>1, <2>2, <2>3, RowStep
    <2>5. UNCHANGED <<handler, gone>>
      BY <1>6 DEF CreateProvider
    <2>6. QED
      BY <2>4, <2>5, RowsOnlyStep
  <1>7. ASSUME NEW row, NEW p \in Providers, p = handler[h].of, provider[p].exists,
               row \in [exists : BOOLEAN, deleted : BOOLEAN, status : Statuses, health : Health,
                        failures : Nat, content : ProviderContents \cup {None}],
               row.exists, provider[p].deleted => row.deleted, row.failures = provider[p].failures,
               row.health = provider[p].health, provider' = [provider EXCEPT ![p] = row], Finish(h)
        PROVE  RoutingInv'
    <2>1. provider[p].failures \in Nat
      BY <1>7 DEF RoutingInv, ProvidersAreTyped
    <2>2. row.health = "DOWN" => row.failures + 1 >= DownAfter
      BY <1>7 DEF RoutingInv, ProvidersAreSound, DownMeansFailures
    <2>3. provider[p].failures <= row.failures
      BY <1>7, <2>1
    <2>4. ProvidersStay
      BY <1>7, <2>2, <2>3, RowStep
    <2>5. QED
      BY <1>7, <2>4, DoneStep
  <1>8. ASSUME NEW c \in ProviderContents, NEW status \in Statuses, UpdateProvider(h, c, status)
        PROVE  RoutingInv'
    <2>1. PICK p \in Providers : p = handler[h].of /\ provider[p].exists
      BY <1>8, HandIsSound DEF UpdateProvider, At
    <2>2. PICK row : /\ row = [provider[p] EXCEPT !.content = c, !.status = status]
                     /\ provider' = [provider EXCEPT ![p] = row]
      BY <1>8, <2>1 DEF UpdateProvider, RoutingInv, ProvidersAreTyped
    <2>3. /\ row \in [exists : BOOLEAN, deleted : BOOLEAN, status : Statuses, health : Health,
                      failures : Nat, content : ProviderContents \cup {None}]
          /\ row.exists /\ row.deleted = provider[p].deleted /\ row.failures = provider[p].failures
          /\ row.health = provider[p].health
      BY <2>1, <2>2 DEF RoutingInv, ProvidersAreTyped
    <2>4. QED
      BY <1>7, <1>8, <2>1, <2>2, <2>3 DEF UpdateProvider
  <1>9. ASSUME SoftDeleteProvider(h) PROVE RoutingInv'
    <2>1. PICK p \in Providers : p = handler[h].of /\ provider[p].exists
      BY <1>9, HandIsSound DEF SoftDeleteProvider, At
    <2>2. PICK row : /\ row = [provider[p] EXCEPT !.deleted = TRUE, !.status = "INACTIVE"]
                     /\ provider' = [provider EXCEPT ![p] = row]
      BY <1>9, <2>1 DEF SoftDeleteProvider, RoutingInv, ProvidersAreTyped
    <2>3. /\ row \in [exists : BOOLEAN, deleted : BOOLEAN, status : Statuses, health : Health,
                      failures : Nat, content : ProviderContents \cup {None}]
          /\ row.exists /\ row.deleted /\ row.failures = provider[p].failures
          /\ row.health = provider[p].health
      BY <2>1, <2>2 DEF RoutingInv, ProvidersAreTyped, Statuses
    <2>4. QED
      BY <1>7, <1>9, <2>1, <2>2, <2>3 DEF SoftDeleteProvider
  <1>10. ASSUME SetProviderStatus(h) PROVE RoutingInv'
    <2>1. PICK p \in Providers : p = handler[h].of /\ provider[p].exists
      BY <1>10, HandIsSound DEF SetProviderStatus, At
    <2>2. PICK status \in Statuses : status = handler[h].status
      BY DEF RoutingInv, RoutesAreSound, Routes
    <2>3. PICK row : /\ row = [provider[p] EXCEPT !.status = status]
                     /\ provider' = [provider EXCEPT ![p] = row]
      BY <1>10, <2>1, <2>2 DEF SetProviderStatus, RoutingInv, ProvidersAreTyped
    <2>4. /\ row \in [exists : BOOLEAN, deleted : BOOLEAN, status : Statuses, health : Health,
                      failures : Nat, content : ProviderContents \cup {None}]
          /\ row.exists /\ row.deleted = provider[p].deleted /\ row.failures = provider[p].failures
          /\ row.health = provider[p].health
      BY <2>1, <2>3 DEF RoutingInv, ProvidersAreTyped
    <2>5. QED
      BY <1>7, <1>10, <2>1, <2>3, <2>4 DEF SetProviderStatus
  <1>11. ASSUME StoreCredential(h) PROVE RoutingInv'
    BY <1>11, ProvidersRest, DoneStep DEF StoreCredential
  <1>12. QED
    BY <1>1, <1>2, <1>3, <1>4, <1>5, <1>6, <1>8, <1>9, <1>10, <1>11
    DEF Administration, CreateOrUpdateProvider, UpsertProviderCredential

LEMMA RoutingStep ==
  ASSUME RoutingInv, [Next]_vars
  PROVE  RoutingInv'
  <1>1. ASSUME NEW h \in Handlers, Crash(h) PROVE RoutingInv'
    BY <1>1, ProvidersRest, DoneStep DEF Crash, tables
  <1>2. CASE UNCHANGED <<provider, handler, gone>>
    BY <1>2, ProvidersRest, RowsOnlyStep
  <1>3. ASSUME \/ \E k \in Credentials : StoreInactiveCredential(k)
               \/ \E r \in Rules : DeleteRoutingRule(r) \/ \E c \in RuleContents : UpsertRoutingRule(r, c)
        PROVE  UNCHANGED <<provider, handler, gone>>
    BY <1>3 DEF StoreInactiveCredential, DeleteRoutingRule, UpsertRoutingRule
  <1>4. QED
    BY <1>1, <1>2, <1>3, HealthDeliveryStep, HealthAdministrationStep DEF Next, vars, tables

LEMMA RoutingStarts ==
  ASSUME Init
  PROVE  RoutingInv
  <1>1. HandlersAreRecords /\ gone \in [Handlers -> SUBSET Providers]
    BY IdleIsARecord DEF Init, HandlersAreRecords
  <1>2. PICK owner \in [Credentials -> Providers \cup {None}] : provider = [p \in Providers |->
            IF \E k \in Credentials : owner[k] = p
            THEN [NoProvider EXCEPT !.exists = TRUE, !.status = "ACTIVE",
                                    !.content = CHOOSE c \in ProviderContents : TRUE]
            ELSE NoProvider]
    BY DEF Init
  <1>3. \A p \in Providers : /\ provider[p].deleted = FALSE /\ provider[p].health = "HEALTHY"
    BY <1>2 DEF NoProvider
  <1>4. ProvidersAreTyped
    <2>1. (CHOOSE c \in ProviderContents : TRUE) \in ProviderContents
      BY RoutingAssumption
    <2>2. QED
      BY <1>2, <2>1 DEF ProvidersAreTyped, NoProvider, Statuses, Health
  <1>5. RoutesAreSound
    <2>1. Routes(Idle, {})
      BY IdleHasNothing DEF Routes, Statuses
    <2>2. QED
      BY <2>1 DEF Init, RoutesAreSound
  <1>6. ProvidersAreSound
    BY <1>3 DEF ProvidersAreSound, Deleted, DownMeansFailures
  <1>7. QED
    BY <1>1, <1>4, <1>5, <1>6 DEF RoutingInv

LEMMA RoutingAlwaysSound == Spec => []RoutingInv
  <1>1. Init => RoutingInv
    BY RoutingStarts
  <1>2. RoutingInv /\ [Next]_vars => RoutingInv'
    BY RoutingStep
  <1>3. QED
    BY <1>1, <1>2, PTL DEF Spec

(* A provider that is DOWN has had the failures it may have but one, and    *)
(* whatever overlapped did not count one twice.                             *)
THEOREM DownAlwaysMeansFailures == Spec => []DownMeansFailures
  <1>1. RoutingInv => DownMeansFailures
    BY DEF RoutingInv, ProvidersAreSound
  <1>2. QED
    BY <1>1, RoutingAlwaysSound, PTL

(* A delivery asks no provider that was deleted before it began, whatever   *)
(* rule it follows and however the provider's row is written meanwhile.     *)
THEOREM DeletedProvidersAreNeverAsked == Spec => []DeletedProvidersAreNotAsked
  <1>1. ASSUME RoutingInv, NEW h \in Handlers, NEW p \in gone[h]
        PROVE  /\ provider[p].deleted
               /\ handler[h].of # p /\ \A i \in DOMAIN handler[h].left : handler[h].left[i] # p
    <2>1. Routes(handler[h], gone[h])
      BY <1>1 DEF RoutingInv, RoutesAreSound
    <2>2. \A i \in DOMAIN handler[h].left : handler[h].left[i] \in Offered(gone[h])
      BY <2>1 DEF Routes
    <2>3. QED
      BY <1>1, <2>1, <2>2 DEF Routes, Deleted, Offered
  <1>2. RoutingInv => DeletedProvidersAreNotAsked
    BY <1>1 DEF DeletedProvidersAreNotAsked
  <1>3. QED
    BY <1>2, RoutingAlwaysSound, PTL

=============================================================================
