------------------------------ MODULE PlatformAdmin ------------------------------
(***************************************************************************)
(* What a platform admin maintains for all projects: an LLM model of the   *)
(* gateway (admin/service.go), a base job template (basetmpladmin,         *)
(* jobtemplate) and which coding agents are offered (codingagentadmin);    *)
(* and a project's template that is baked from the base                    *)
(* (projecttemplate/service.go).                                           *)
(*                                                                         *)
(* Each operation reads its row, works on it and writes it back whole.  An *)
(* operation on the model calls the gateway in between: its calls are the  *)
(* steps of `todo`.  A call fails, or takes effect and loses its reply.    *)
(***************************************************************************)
EXTENDS Naturals, FiniteSets, Sequences

CONSTANTS
  Requests,
  Founder,       \* who made what is there at first, none of Requests
  Sources,       \* job sources that pass ValidatePlaceholders
  Agents,        \* coding agents: "claude", "bob"
  Addons,        \* MCP servers a template may reference
  None,          \* none of the values above
  MaxInFlight,   \* bound: requests at work at the same time
  MaxFaults      \* bound: failed calls and crashes

ASSUME CatalogueAssumption ==
  /\ Founder \notin Requests
  /\ None \notin Requests \cup {Founder}
  /\ {MaxInFlight, MaxFaults} \subseteq Nat

VARIABLES
  provider,      \* Vault: the key of the LLM provider is there
  model,         \* database: the model's row
  gateway,       \* the deployments that serve the model's name, and the test key
  base,          \* database: the base template
  disabled,      \* database: the coding agents not offered
  flavor,        \* database: the project's template
  asked,         \* the requests
  failures,      \* bound
  releases,      \* history: the versions of the base and their sources
  wanted,        \* history: the add-ons last chosen for the template
  notes          \* history: what went wrong that the properties except

catalogue == <<provider, model, gateway, base, disabled, flavor, asked, failures,
               releases, wanted, notes>>

NoModel  == [status |-> "none", backend |-> None, id |-> None, answered |-> None]
NoFlavor == [version |-> 0, baked |-> None, agent |-> None, addons |-> {},
             rendered |-> << >>]
Unused(op) == [op |-> op, model |-> NoModel, base |-> << >>, flavor |-> NoFlavor,
               answered |-> None, todo |-> << >>]

\* The markers of a baked base are replaced by what the agent and the add-ons
\* need: the secrets that are rendered, and what is set up from them at boot.
\* Bob has no key of the gateway.
secretsBlock(addons, agent) ==
  addons \cup (IF agent = "bob" THEN {} ELSE {"llm-key", "managed-settings"})

entrypointBlock(addons, agent) == [settings |-> agent # "bob", registers |-> addons]

Inject(baked, addons, agent) ==
  [source |-> baked, secrets |-> secretsBlock(addons, agent),
   entrypoint |-> entrypointBlock(addons, agent)]

\* The shipped template, published as version 1.
SeedBaseTemplates(s) ==
  [status |-> "published", version |-> 1, draft |-> s, published |-> s]

\* A model may be there: onboarded, tested, published.
Onboarded(stage) ==
  /\ model = [status |-> IF stage = "published" THEN "published" ELSE "draft",
              backend |-> Founder, id |-> Founder,
              answered |-> IF stage = "draft" THEN None ELSE Founder]
  /\ gateway = [serves |-> {Founder}, key |-> None]

\* So may a template with add-ons, and a draft of the next release of its base.
Derived(s, agent, addons) ==
  [version |-> 1, baked |-> s, agent |-> agent, addons |-> addons,
   rendered |-> Inject(s, addons, agent)]

CatalogueInit ==
  /\ \/ provider = FALSE /\ model = NoModel /\ gateway = [serves |-> {}, key |-> None]
     \/ provider = TRUE /\ \E stage \in {"draft", "tested", "published"} : Onboarded(stage)
  /\ \E s, draft \in Sources :
       /\ base = [SeedBaseTemplates(s) EXCEPT !.draft = draft,
                    !.status = IF draft = s THEN @ ELSE "draft"]
       /\ releases = {<<1, s>>}
       /\ \/ flavor = NoFlavor /\ wanted = {}
          \/ \E a \in Agents, addons \in SUBSET Addons :
               flavor = Derived(s, a, addons) /\ wanted = addons
  /\ disabled = {}
  /\ asked = [r \in Requests |-> Unused("new")]
  /\ failures = 0
  /\ notes = {}

--------------------------------------------------------------------------------
(* The steps of a request.                                                 *)

Over == {"new", "over"}
Pending == {r \in Requests : asked[r].op \notin Over}
At(r, step) == asked[r].todo # << >> /\ Head(asked[r].todo) = step
Last(r) == Len(asked[r].todo) = 1
Fault == failures < MaxFaults /\ failures' = failures + 1

\* History: operations that write what the other has read; of the tests, one that
\* has read a draft and one that has read the published row.
Clash(p, q) ==
  LET ops == {p.op, q.op} IN
  \/ /\ ops \subseteq {"onboard", "test", "publish", "delete"}
     /\ ops \cap {"onboard", "delete"} # {}
  \/ ops = {"test"} /\ p.model.status # q.model.status
  \/ ops \subseteq {"draft", "release"} /\ "release" \in ops
  \/ ops \subseteq {"create", "update", "addons"}

Clashing(r) ==
  IF \E q \in Pending \ {r} : Clash(asked[q], asked[r]) THEN {"raced"} ELSE {}

Become(r, new) ==
  asked' = [asked EXCEPT ![r] = IF new.todo = << >> THEN Unused("over") ELSE new]

TestPlan == <<"key", "ping", "unkey", "recheck", "save", "unkey">>

\* Mutant: the key is not revoked when the test cannot go on.
RemainingKeepingKey(r, step) ==
  CASE step = "unkey" /\ ~Last(r) -> <<"save", "unkey">>
    [] step \in {"resolve", "recheck", "unadd"} -> Tail(asked[r].todo)
    [] OTHER -> << >>

\* What is left to do when a step fails: the test key goes in any case.
Remaining(r, step) ==
  CASE step = "ping" \/ (step = "save" /\ asked[r].op = "test") -> <<"unkey">>
    [] step = "unkey" /\ ~Last(r) -> <<"save", "unkey">>
    [] step \in {"resolve", "recheck", "unadd"} -> Tail(asked[r].todo)
    [] OTHER -> << >>

\* History: failures that nothing makes good, done or not.
Unrepaired(r, step, done) ==
  \/ step \in {"add", "key"} /\ done
  \/ step = "resolve"
  \/ step \in {"unadd", "drop"} /\ ~done
  \/ step = "save" /\ ~done /\ asked[r].op = "onboard"
  \/ step = "unkey" /\ ~done /\ Last(r) /\ gateway.key = r

Fails(r, done) ==
  LET step == Head(asked[r].todo) IN
  /\ Become(r, [asked[r] EXCEPT !.todo = Remaining(r, step)])
  /\ notes' = notes \cup Clashing(r)
                \cup (IF Unrepaired(r, step, done) THEN {"torn"} ELSE {})

\* The step is done, and r goes on as `new`; or its reply is lost.
DoneAs(r, new, come) ==
  \/ /\ Become(r, [new EXCEPT !.todo = Tail(@)])
     /\ notes' = notes \cup Clashing(r) \cup come
     /\ UNCHANGED failures
  \/ /\ Fault
     /\ Become(r, [asked[r] EXCEPT !.todo = Remaining(r, Head(@))])
     /\ notes' = notes \cup Clashing(r) \cup come
                   \cup (IF Unrepaired(r, Head(asked[r].todo), TRUE) THEN {"torn"} ELSE {})

Done(r) == DoneAs(r, asked[r], {})
Refused(r) == Fails(r, FALSE) /\ UNCHANGED failures

Begin(r, new) ==
  /\ asked[r].op = "new"
  /\ Cardinality(Pending) < MaxInFlight
  /\ asked' = [asked EXCEPT ![r] = new]
  /\ UNCHANGED <<provider, model, gateway, base, disabled, flavor, failures, releases,
                 wanted, notes>>

OnModel == UNCHANGED <<provider, base, disabled, flavor, releases, wanted>>
OnTemplates == UNCHANGED <<provider, model, gateway, disabled>>

--------------------------------------------------------------------------------
(* The LLM model.                                                          *)

SetProviderKey ==
  /\ provider' = TRUE
  /\ UNCHANGED <<model, gateway, base, disabled, flavor, asked, failures, releases,
                 wanted, notes>>

OnboardLLMModel(r) ==
  /\ provider
  /\ Begin(r, [Unused("onboard") EXCEPT
                 !.model = [NoModel EXCEPT !.status = "draft", !.backend = r],
                 !.todo = <<"add", "resolve", "save">>])

\* The result starts as a failure: the model is the one that is saved.
TestLLMModel(r) ==
  /\ model # NoModel
  /\ Begin(r, [Unused("test") EXCEPT !.model = [model EXCEPT !.answered = None],
                                     !.todo = TestPlan])

\* Mutant: a model that was tested, passed or not, can be published.
PublishUntested(r) ==
  /\ model # NoModel /\ model.status # "published"
  /\ Begin(r, [Unused("publish") EXCEPT !.model = [model EXCEPT !.status = "published"],
                                        !.todo = <<"save">>])

PublishLLMModel(r) ==
  /\ model # NoModel /\ model.status # "published"
  /\ model.answered # None
  /\ Begin(r, [Unused("publish") EXCEPT !.model = [model EXCEPT !.status = "published"],
                                        !.todo = <<"save">>])

\* A model whose id was not found is not deleted from the gateway.
DeleteLLMModel(r) ==
  /\ model # NoModel
  /\ Begin(r, [Unused("delete") EXCEPT
                 !.model = model,
                 !.todo = IF model.id = None THEN <<"drop">> ELSE <<"unadd", "drop">>])

\* The gateway serves a name by all the deployments that have it.
AddModel(r) ==
  /\ At(r, "add")
  /\ gateway' = [gateway EXCEPT !.serves = @ \cup {r}]
  /\ DoneAs(r, asked[r], IF gateway.serves # {} \/ model # NoModel THEN {"doubled"} ELSE {})
  /\ UNCHANGED model /\ OnModel

\* The id is that of one of them.
ResolveLiteLLMID(r) ==
  /\ At(r, "resolve")
  /\ IF gateway.serves = {} THEN Refused(r)
     ELSE \E id \in gateway.serves : DoneAs(r, [asked[r] EXCEPT !.model.id = id], {})
  /\ UNCHANGED <<model, gateway>> /\ OnModel

UpsertLLMModel(r) ==
  /\ At(r, "save")
  /\ model' = asked[r].model
  /\ Done(r)
  /\ UNCHANGED gateway /\ OnModel

DeleteModel(r) ==
  /\ At(r, "unadd")
  /\ gateway' = [gateway EXCEPT !.serves = @ \ {asked[r].model.id}]
  /\ Done(r)
  /\ UNCHANGED model /\ OnModel

DropLLMModel(r) ==
  /\ At(r, "drop")
  /\ model' = NoModel
  /\ IF model = NoModel THEN Refused(r) ELSE Done(r)
  /\ UNCHANGED gateway /\ OnModel

\* A key of the same alias is refused.
GenerateKey(r) ==
  /\ At(r, "key")
  /\ IF gateway.key = None
     THEN gateway' = [gateway EXCEPT !.key = r] /\ Done(r)
     ELSE Refused(r) /\ UNCHANGED gateway
  /\ UNCHANGED model /\ OnModel

\* One of the deployments answers, if the key is still good.
TestCompletion(r) ==
  /\ At(r, "ping")
  /\ IF gateway.serves = {} \/ gateway.key # r
     THEN DoneAs(r, [asked[r] EXCEPT !.answered = None], {})
     ELSE \E b \in gateway.serves : DoneAs(r, [asked[r] EXCEPT !.answered = b], {})
  /\ UNCHANGED <<model, gateway>> /\ OnModel

\* The key goes by its alias, whoever made it.
DeleteKeyByAlias(r) ==
  /\ At(r, "unkey")
  /\ gateway' = [gateway EXCEPT !.key = None]
  /\ Done(r)
  /\ UNCHANGED model /\ OnModel

\* A test passes when its key is refused after it was revoked.
RecheckKey(r) ==
  /\ At(r, "recheck")
  /\ DoneAs(r, [asked[r] EXCEPT !.model.answered =
                  IF gateway.key # r THEN asked[r].answered ELSE None], {})
  /\ UNCHANGED <<model, gateway>> /\ OnModel

--------------------------------------------------------------------------------
(* The base template, the coding agents, and a template baked from it.     *)

\* Mutant: a draft does not show that a release is pending.
UpdateDraftQuietly(r, s) ==
  Begin(r, [Unused("draft") EXCEPT !.base = [base EXCEPT !.draft = s],
                                   !.todo = <<"save-base">>])

UpdateDraft(r, s) ==
  Begin(r, [Unused("draft") EXCEPT
              !.base = [base EXCEPT !.draft = s, !.status = "draft"],
              !.todo = <<"save-base">>])

Publish(r) ==
  Begin(r, [Unused("release") EXCEPT
              !.base = [base EXCEPT !.published = base.draft, !.version = @ + 1,
                                    !.status = "published"],
              !.todo = <<"save-base">>])

UpsertBaseJobTemplate(r) ==
  /\ At(r, "save-base")
  /\ base' = asked[r].base
  /\ releases' = releases \cup {<<base'.version, base'.published>>}
  /\ Done(r)
  /\ UNCHANGED <<flavor, wanted>> /\ OnTemplates

\* Agents are offered unless they are disabled.
IsAgentEnabled(a) == a \notin disabled

SetEnabled(a) ==
  /\ \/ disabled' = disabled \cup {a}
     \/ disabled' = disabled \ {a}
  /\ UNCHANGED <<provider, model, gateway, base, flavor, asked, failures, releases,
                 wanted, notes>>

\* The rows a template is made from.
BasePublished == base.status = "published"
HasTemplate == flavor # NoFlavor

\* The base as it is published now.
Bake(row) == [row EXCEPT !.version = base.version, !.baked = base.published,
                         !.rendered = Inject(base.published, row.addons, row.agent)]

\* A template that is there is replaced, its add-ons too.
Create(r, agent) ==
  /\ BasePublished
  /\ IsAgentEnabled(agent)
  /\ Begin(r, [Unused("create") EXCEPT !.flavor = Bake([NoFlavor EXCEPT !.agent = agent]),
                                       !.todo = <<"save-flavor">>])

\* Mutant: the add-ons are not injected again into the new source.
UpdateUninjected(r) ==
  /\ HasTemplate
  /\ BasePublished
  /\ Begin(r, [Unused("update") EXCEPT
                 !.flavor = [Bake(flavor) EXCEPT !.rendered =
                               Inject(base.published, {}, flavor.agent)],
                 !.todo = <<"save-flavor">>])

\* A new repository: the template is baked again from the base of today.
Update(r) ==
  /\ HasTemplate
  /\ BasePublished
  /\ Begin(r, [Unused("update") EXCEPT !.flavor = Bake(flavor),
                                       !.todo = <<"save-flavor">>])

SetAddons(r, addons) ==
  /\ HasTemplate
  /\ Begin(r, [Unused("addons") EXCEPT
                 !.flavor = [flavor EXCEPT !.addons = addons,
                               !.rendered = Inject(flavor.baked, addons, flavor.agent)],
                 !.todo = <<"save-flavor">>])

SaveFlavor(r) ==
  /\ At(r, "save-flavor")
  /\ flavor' = asked[r].flavor
  /\ wanted' = IF asked[r].op = "update" THEN wanted ELSE asked[r].flavor.addons
  /\ Done(r)
  /\ UNCHANGED <<base, releases>> /\ OnTemplates

--------------------------------------------------------------------------------
CallFails(r) ==
  /\ Fault
  /\ Fails(r, FALSE)
  /\ UNCHANGED <<model, gateway>> /\ OnModel

Crash ==
  /\ Pending # {}
  /\ Fault
  /\ asked' = [r \in Requests |-> IF r \in Pending THEN Unused("over") ELSE asked[r]]
  /\ notes' = notes \cup {"torn"}
  /\ UNCHANGED <<model, gateway>> /\ OnModel

CatalogueNext ==
  \/ SetProviderKey
  \/ \E a \in Agents : SetEnabled(a)
  \/ \E r \in Requests :
       \/ OnboardLLMModel(r) \/ TestLLMModel(r) \/ PublishLLMModel(r) \/ DeleteLLMModel(r)
       \/ Publish(r) \/ Update(r)
       \/ \E s \in Sources : UpdateDraft(r, s)
       \/ \E a \in Agents : Create(r, a)
       \/ \E addons \in SUBSET Addons : SetAddons(r, addons)
  \/ \E r \in Pending :
       \/ AddModel(r) \/ ResolveLiteLLMID(r) \/ UpsertLLMModel(r)
       \/ DeleteModel(r) \/ DropLLMModel(r)
       \/ GenerateKey(r) \/ TestCompletion(r) \/ DeleteKeyByAlias(r) \/ RecheckKey(r)
       \/ UpsertBaseJobTemplate(r) \/ SaveFlavor(r)
       \/ CallFails(r)
  \/ Crash

CatalogueSpec == CatalogueInit /\ [][CatalogueNext]_catalogue

--------------------------------------------------------------------------------
(* Properties                                                              *)

\* The inventory an admin sees: the gateway's models, joined with the row.
ListLLMModels ==
  [unmanaged |-> gateway.serves # {} /\ model = NoModel,
   orphaned  |-> gateway.serves = {} /\ model # NoModel]

Calm(exceptions) == Pending = {} /\ notes \cap exceptions = {}

Deployments == Requests \cup {Founder}
Versions == Nat \ {0}
Bases == [status : {"draft", "published"}, version : Versions, draft : Sources,
          published : Sources]
Launches == {Inject(s, x, a) : s \in Sources, x \in SUBSET Addons, a \in Agents}
Flavors == [version : Versions, baked : Sources, agent : Agents, addons : SUBSET Addons,
            rendered : Launches]
Models == [status : {"draft", "published"}, backend : Deployments,
           id : Deployments \cup {None}, answered : Deployments \cup {None}]

\* Every variable keeps its type, and a base template that shows as published
\* has no draft waiting.  (UpdateDraft, Publish)
PlatformTypeOK ==
  /\ provider \in BOOLEAN
  /\ model \in Models \cup {NoModel}
  /\ gateway \in [serves : SUBSET Deployments, key : Requests \cup {None}]
  /\ base \in Bases /\ (base.status = "published" => base.draft = base.published)
  /\ disabled \subseteq Agents
  /\ flavor \in Flavors \cup {NoFlavor}
  /\ \A r \in Requests :
       /\ asked[r].op \in Over <=> asked[r].todo = << >>
       /\ asked[r].model \in Models \cup {NoModel}
       /\ asked[r].base \in Bases \cup {<< >>}
       /\ asked[r].flavor \in Flavors \cup {NoFlavor}
  /\ failures \in 0 .. MaxFaults
  /\ releases \subseteq Versions \X Sources /\ wanted \subseteq Addons
  /\ notes \subseteq {"raced", "torn", "doubled"}

\* While nobody is at work, the inventory shows no model that is not managed or
\* has lost its deployment, the one deployment is the one its row records, and no
\* test key is left, also by tests whose ping, first revocation or save failed
\* and by tests that overlapped.  Excepted, each until the end of the behaviour:
\* `doubled`, a model onboarded over one that is there; `raced`, an operation
\* beside an onboarding or a delete, and a test of the draft beside one of the
\* published row; and `torn`, what the code does not repair: an onboarding whose
\* AddModel lost its reply, or whose look-up of the id or save failed; a delete
\* that went on after DeleteModel failed, or whose own row stayed; a test whose
\* GenerateKey lost its reply, or whose last revocation failed; and a crash.
\* DeleteRemovesModel is the claim one of these breaks.
\* (OnboardLLMModel, TestLLMModel, DeleteLLMModel)
GatewayMatchesRows ==
  Calm({"raced", "torn", "doubled"}) =>
    /\ ListLLMModels = [unmanaged |-> FALSE, orphaned |-> FALSE]
    /\ gateway.serves \subseteq {model.backend}
    /\ gateway.key = None

\* A model leaves the table only when its deployment has left the gateway: what
\* admin/service.go line 301 says of DeleteLLMModel.
DeleteRemovesModel ==
  [][model # NoModel /\ model' = NoModel => model.backend \notin gateway'.serves]_catalogue

\* A model becomes published only with a test result that says its own deployment
\* answered, also when a test overlaps the publication.  Excepted are a model
\* onboarded twice, one onboarded anew by an operation that overlaps, and a test
\* of the published row that overlaps a test of the draft: the draft is written
\* back, and the failed test then publishes.  (TestLLMModel, PublishLLMModel)
PublishedWasTested ==
  [][model.status # "published" /\ model'.status = "published"
       => notes' \cap {"raced", "doubled"} # {} \/ model'.answered = model'.backend]_catalogue

\* A version of a base template names one source for good; a project's template
\* is launched from the source of the version it shows, with its agent and the
\* add-ons last chosen, also when it was baked again.  Excepted are operations
\* that overlapped on the same row, two drafts of a base apart.
\* (Publish, Update, SetAddons)
VersionsNameOneSource ==
  ~("raced" \in notes) =>
    /\ \A p, q \in releases : p[1] = q[1] => p[2] = q[2]
    /\ flavor # NoFlavor =>
         /\ <<flavor.version, flavor.baked>> \in releases
         /\ flavor.addons = wanted
         /\ flavor.rendered = Inject(flavor.baked, flavor.addons, flavor.agent)
=============================================================================
