--------------------------- MODULE SocialProviders ---------------------------
(***************************************************************************)
(* The identity providers administrators configure.  A provider may be     *)
(* signed in with once its row is complete, an administrator's test        *)
(* sign-in has succeeded and it is switched on.  A test goes to the        *)
(* provider and comes back with a state kept in Redis; the row it tested   *)
(* may have been changed, or deleted and made anew, meanwhile.             *)
(*                                                                         *)
(* Of a row's settings and credentials only whether they are complete is   *)
(* kept.  lastSuccessfulTestAt is never cleared, by new credentials        *)
(* neither.                                                                *)
(***************************************************************************)
EXTENDS AccountRows

CONSTANTS
  Configs,      \* SocialIdentityProviderConfig rows, existing or not
  NameOf,       \* the provider of each
  Tests         \* states of provider tests

ASSUME ProvidersAssumption == Configs \cup Tests \subseteq Items

VARIABLES
  configs,   \* the rows
  tests      \* social:admin-provider-test:<nonce>

providerVars == <<configs, tests>>

(* asked, wanted: history, whether a test of the row was started, and the   *)
(* status an administrator set last.  stale: that status was set while an   *)
(* update that had read another one was under way.                          *)
Config ==
  [state : {"none", "there", "deleted"}, complete : BOOLEAN, tested : BOOLEAN,
   status : {"ACTIVE", "INACTIVE"}, asked : BOOLEAN, wanted : {"ACTIVE", "INACTIVE"}, stale : BOOLEAN]

NoConfig ==
  [state |-> "none", complete |-> FALSE, tested |-> FALSE, status |-> "INACTIVE",
   asked |-> FALSE, wanted |-> "INACTIVE", stale |-> FALSE]

(* shared: history, two callbacks had the state before it was deleted       *)
Test ==
  [state : {"none", "pending", "gone"}, config : Configs \cup {None},
   outcomes : Nat, shared : BOOLEAN]

NoTest == [state |-> "none", config |-> None, outcomes |-> 0, shared |-> FALSE]

ProvidersAreTyped == configs \in [Configs -> Config] /\ tests \in [Tests -> Test]

ProvidersInit(table) == configs = table /\ tests = [t \in Tests |-> NoTest]

SameProviders == UNCHANGED providerVars

There(c) == configs[c].state = "there"

(* computeProviderReadiness: canTest, publicLoginReady                      *)
CanTest(c) == configs[c].complete
PublicLoginReady(c) == CanTest(c) /\ configs[c].tested

(* findUnique by the provider, or None                                      *)
ConfigOf(p) ==
  IF \E c \in Configs : There(c) /\ NameOf[c] = p
  THEN CHOOSE c \in Configs : There(c) /\ NameOf[c] = p ELSE None

Offered(p) ==
  LET c == ConfigOf(p) IN c # None /\ configs[c].status = "ACTIVE" /\ PublicLoginReady(c)

(* A row of a provider that has none, switched off and never tested         *)
NewConfig(c, complete) ==
  /\ configs[c].state = "none" /\ ConfigOf(NameOf[c]) = None
  /\ configs' = [configs EXCEPT ![c] = [NoConfig EXCEPT !.state = "there", !.complete = complete]]

(* getConfig: a row is made of the defaults when there is none.             *)
EnsureConfig(p) ==
  IF ConfigOf(p) # None THEN UNCHANGED configs
  ELSE \E c \in Configs : NameOf[c] = p /\ NewConfig(c, FALSE)

----------------------------------------------------------------------------
(* Administrators *)

CreateSocialProvider(h, c, complete) ==
  /\ Begin(h, "providers")
  /\ NewConfig(c, complete)
  /\ SameRows /\ UNCHANGED <<handler, duty, crashes, tests>>

(* The row is read; seen: 1 when it is switched on.                         *)
UpdateSocialProvider(h, c) ==
  /\ Begin(h, "providers") /\ There(c)
  /\ Wait(h, [Idle EXCEPT !.at = "update_provider", !.item = c,
                          !.seen = IF configs[c].status = "ACTIVE" THEN 1 ELSE 0])
  /\ SameRows /\ SameProviders /\ UNCHANGED <<duty, crashes>>

(* Variant: the status is taken from the request                            *)
CommitUpdateFromBody(h) ==
  /\ At(h, "update_provider")
  /\ LET c == handler[h].item IN
     \E complete \in BOOLEAN, status \in {"ACTIVE", "INACTIVE"} :
       configs' = IF There(c)
                  THEN [configs EXCEPT ![c].complete = complete, ![c].status = status] ELSE configs
  /\ Finish(h) /\ SameRows /\ SameRequests /\ UNCHANGED tests

(* Every column is written, the status as it was read.                      *)
CommitUpdate(h) ==
  /\ At(h, "update_provider")
  /\ LET c == handler[h].item IN
     \E complete \in BOOLEAN :
       configs' = IF There(c)
                  THEN [configs EXCEPT ![c].complete = complete,
                                       ![c].status = IF handler[h].seen = 1 THEN "ACTIVE" ELSE "INACTIVE"]
                  ELSE configs
  /\ Finish(h) /\ SameRows /\ SameRequests /\ UNCHANGED tests

(* The row as read must be ready to be switched on.                         *)
UpdateSocialProviderStatus(h, c, status) ==
  /\ Begin(h, "providers") /\ There(c)
  /\ status = "ACTIVE" => PublicLoginReady(c)
  /\ Wait(h, [Idle EXCEPT !.at = IF status = "ACTIVE" THEN "switch_on" ELSE "switch_off", !.item = c])
  /\ SameRows /\ SameProviders /\ UNCHANGED <<duty, crashes>>

CommitStatus(h) ==
  /\ At(h, "switch_on") \/ At(h, "switch_off")
  /\ LET c == handler[h].item
         on == At(h, "switch_on")
         status == IF on THEN "ACTIVE" ELSE "INACTIVE"
         others == {g \in Handlers \ {h} : At(g, "update_provider") /\ handler[g].item = c} IN
     configs' = IF There(c)
                THEN [configs EXCEPT ![c].status = status, ![c].wanted = status,
                                     ![c].stale = \E g \in others : (handler[g].seen = 1) # on]
                ELSE configs
  /\ Finish(h) /\ SameRows /\ SameRequests /\ UNCHANGED tests

DeleteSocialProvider(h, c) ==
  /\ Begin(h, "providers") /\ There(c)
  /\ configs' = [configs EXCEPT ![c] = [NoConfig EXCEPT !.state = "deleted"]]
  /\ SameRows /\ UNCHANGED <<handler, duty, crashes, tests>>

(* A sign-in that names a provider without a row                            *)
NameProvider(h, p) ==
  /\ Begin(h, "providers") /\ ConfigOf(p) = None
  /\ EnsureConfig(p)
  /\ SameRows /\ UNCHANGED <<handler, duty, crashes, tests>>

----------------------------------------------------------------------------
(* Tests *)

(* testProvider                                                             *)
TestProvider(h, c) ==
  /\ Begin(h, "providers") /\ There(c) /\ CanTest(c)
  /\ Wait(h, [Idle EXCEPT !.at = "test_provider", !.item = c])
  /\ SameRows /\ SameProviders /\ UNCHANGED <<duty, crashes>>

(* getAdminTestStartRedirect, getStartRedirect: the row is read once more,  *)
(* and by its provider.                                                     *)
CreateTest(h) ==
  /\ At(h, "test_provider")
  /\ LET c == handler[h].item IN
     IF There(c) /\ CanTest(c)
     THEN \E t \in Tests :
            /\ tests[t].state = "none"
            /\ tests' = [tests EXCEPT ![t].state = "pending", ![t].config = c]
            /\ configs' = [configs EXCEPT ![c].asked = TRUE]
     ELSE SameProviders
  /\ Finish(h) /\ SameRows /\ SameRequests

(* History: who else has the state                                          *)
ReadTest(h, t) ==
  /\ tests[t].state = "pending"
  /\ tests' = [tests EXCEPT ![t].shared = @ \/ \E g \in Handlers \ {h} : handler[g].to = t]

(* handleCallback: the provider's row is read, or made, and the state is    *)
(* read; seen: 1 when the row is complete.                                  *)
TestCallback(h, t) ==
  /\ Begin(h, "providers") /\ ReadTest(h, t)
  /\ LET p == NameOf[tests[t].config]  c == ConfigOf(p) IN
     /\ EnsureConfig(p)
     /\ Wait(h, [Idle EXCEPT !.at = "passed", !.to = t, !.item = c,
                             !.seen = IF c # None /\ CanTest(c) THEN 1 ELSE 0])
  /\ SameRows /\ UNCHANGED <<duty, crashes>>

(* The provider's answer is an error.                                       *)
RefusedCallback(h, t) ==
  /\ Begin(h, "providers") /\ ReadTest(h, t)
  /\ Wait(h, [Idle EXCEPT !.at = "refused", !.to = t, !.item = tests[t].config])
  /\ SameRows /\ UNCHANGED <<duty, crashes, configs>>

(* Variant: whichever row the provider has is taken to be tested            *)
ConsumeTestOfAny(h) ==
  /\ At(h, "passed")
  /\ LET t == handler[h].to IN
     /\ tests' = [tests EXCEPT ![t].state = "gone"]
     /\ \/ handler[h].seen = 1 /\ Goto(h, "record_success")
        \/ Finish(h)
  /\ SameRows /\ SameRequests /\ UNCHANGED configs

(* The state is deleted.  The row must be complete, the provider give its   *)
(* tokens and its profile, and the state be of the row.                     *)
ConsumeTest(h) ==
  /\ At(h, "passed")
  /\ LET t == handler[h].to IN
     /\ tests' = [tests EXCEPT ![t].state = "gone"]
     /\ \/ handler[h].seen = 1 /\ tests[t].config = handler[h].item /\ Goto(h, "record_success")
        \/ Finish(h)
  /\ SameRows /\ SameRequests /\ UNCHANGED configs

ConsumeRefused(h) ==
  /\ At(h, "refused")
  /\ tests' = [tests EXCEPT ![handler[h].to].state = "gone"]
  /\ Goto(h, "record_failure")
  /\ SameRows /\ SameRequests /\ UNCHANGED configs

(* recordProviderTestOutcome: by the row's id                               *)
RecordOutcome(h, success) ==
  LET c == handler[h].item IN
  /\ IF There(c)
     THEN /\ configs' = [configs EXCEPT ![c].tested = @ \/ success]
          /\ tests' = [tests EXCEPT ![handler[h].to].outcomes = @ + 1]
     ELSE SameProviders
  /\ Finish(h) /\ SameRows /\ SameRequests

RecordTest(h) == At(h, "record_success") /\ RecordOutcome(h, TRUE)
RecordTestFailure(h) == At(h, "record_failure") /\ RecordOutcome(h, FALSE)

TestExpires(t) ==
  /\ tests[t].state = "pending"
  /\ tests' = [tests EXCEPT ![t].state = "gone"]
  /\ SameRows /\ SameRequests /\ UNCHANGED <<handler, configs>>

ProvidersNext ==
  \/ \E h \in Handlers :
       \/ /\ MayBegin(h, "providers")
          /\ \/ \E c \in Configs :
                  \/ \E complete \in BOOLEAN : CreateSocialProvider(h, c, complete)
                  \/ UpdateSocialProvider(h, c) \/ DeleteSocialProvider(h, c) \/ TestProvider(h, c)
                  \/ \E status \in {"ACTIVE", "INACTIVE"} : UpdateSocialProviderStatus(h, c, status)
                  \/ NameProvider(h, NameOf[c])
             \/ \E t \in Tests : TestCallback(h, t) \/ RefusedCallback(h, t)
       \/ /\ handler[h] # Idle
          /\ \/ CommitUpdate(h) \/ CommitStatus(h) \/ CreateTest(h)
             \/ ConsumeTest(h) \/ ConsumeRefused(h) \/ RecordTest(h) \/ RecordTestFailure(h)
  \/ \E t \in Tests : TestExpires(t)

----------------------------------------------------------------------------
(* Properties *)

(* A provider is switched on only after a sign-in through it succeeded that *)
(* an administrator started for this very row, not for one deleted since;   *)
(* and a started test has one outcome, unless two callbacks read its state  *)
(* before either deleted it.                                                *)
ProvidersPassTheirOwnTest ==
  /\ \A c \in Configs : There(c) =>
       /\ configs[c].tested => configs[c].asked
       /\ configs[c].status = "ACTIVE" => configs[c].tested
  /\ \A t \in Tests : tests[t].outcomes <= 1 \/ tests[t].shared

(* A provider is on only when the last change of its status switched it on, *)
(* unless an update of its settings was under way during that change: the   *)
(* update writes back the status it read.                                   *)
SwitchedOffStaysOff ==
  \A c \in Configs :
    There(c) /\ configs[c].status = "ACTIVE" => configs[c].wanted = "ACTIVE" \/ configs[c].stale
=============================================================================
