# Verification of the secured development workspace

TLA+ specifications of the control logic of this repository: the developer
portal (`src/portal/backend`, Go) and the Nomad-to-Boundary host sync
(`src/nomad-boundary-host-sync`, Go). TLC checks the specifications on small
instances; TLAPS proves most of what the runs check for every instance.

`B` below stands for `src/portal/backend/internal`.

## 1. The system

A portal process serves HTTP requests, each in a goroutine of its own. It keeps
almost nothing in memory: its state is in Postgres rows, in Nomad (jobs and
volumes), in Boundary (targets, host-sets, roles), in Vault (secrets) and in two
gateways (LiteLLM keys, ContextForge virtual servers). An operation is a
sequence of remote calls. There is no transaction around it, no queue behind it
and, except for one mutex in the workspace service, no lock: what goes wrong
goes wrong between two calls.

| component | state | operations | interacts with |
|---|---|---|---|
| workspace ports (`B/workspace/service.go` 43-92, `B/portgen`, `UsedPorts`) | `reserved` set under `mu`; ports in Nomad jobs | reserve, release, list | every Create, Destroy and Start through the Nomad jobs |
| workspace lifecycle (`B/workspace/service.go`, `B/hashistack`) | Nomad job and CSI volume; Boundary host-set, target, roles, alias | Create, Stop, Start, Destroy, list | ports, host sync, shared volumes |
| host sync (`src/nomad-boundary-host-sync`) | none of its own; hosts in Boundary | one pass per tick | reads Nomad services, writes hosts into the portal's host-sets |
| agent instances (`B/agents/instances.go`) | a row per (project, template, user); one Nomad job | Ensure, Chat, Delete, ReapIdle | templates (their secrets), the reaper's ticker in `main.go` |
| agent templates (`B/agents/service.go`) | template row; test job, LLM key, KV, virtual servers and tokens | Save, DeployTest, Test, ChatTest, Publish, Delete | MCP servers (tools), instances |
| MCP servers (`B/projectadmin`, `B/blueprint`, `B/mcpgw`) | server row; Vault mount, roles and policies; Nomad job; gateway peer, virtual server and tokens; the stored token | Deploy, Update, Test, Delete; wiring by `SetAddons` | Vault, gateway, project and agent templates |
| projects and descriptors (`B/projectbootstrap`, `projectengines`, `projecttemplate`, `projectrole`) | one descriptor row per project, rewritten whole by several services; namespaces, policies, scope, engines, LLM key; template and role rows | create, update, delete, provision engines, set credentials, maintain templates, grant and revoke roles | everything that reads the descriptor |
| shared volumes (`B/sharedvolume`) | row and Nomad volume | create, delete | workspace Create, delete of the project |
| platform administration (`B/admin`, `basetmpladmin`, `codingagentadmin`, `jobtemplate`) | LLM model rows and the gateway's deployments; base templates with versions; disabled agents | onboard, test, publish, delete; draft, publish; enable | LLM gateway; project templates are baked from the base |
| token exchange (`src/token-exchange`) | token cache under a lock | exchange | the identity provider |
| authentication, middleware, store, rendering, local SSH, frontend, infrastructure | single rows, pure checks, presentation | | |

What is hard, and where it bites, is the list of hazards in `PROJECT.json`: stale
snapshots (ports read before the lock, a pass's addresses, the reaper's listing,
rows written back whole), operations cut in two by a failure or a crash, replies
that are lost, concurrent operations on one object, and a few things that must
eventually happen. What makes each component correct:

* ports: two workspaces never share a host port; no port leaks;
* lifecycle: a Create that succeeds is usable, a Destroy that succeeds leaves
  nothing, and a failure leaves something that can be retried;
* host sync: the address of a workspace that stays put becomes and stays right;
* agent instances: a job is always in a row, a chat heals whatever it finds, an
  idle instance is stopped and an active one is not;
* agent templates, MCP servers: what a row names exists, and what exists is
  named by a row; an engine belongs to one server;
* projects: no service undoes what another has recorded in the descriptor; what
  shows as ready is provisioned; a delete leaves nothing behind and orphans no
  data; a project keeps an admin;
* shared volumes: a volume has a row and a row has a volume;
* platform administration: the gateway serves what the rows say, only a tested
  model is published, a version of a base template names one source;
* token exchange: only an entitled caller gets a token, and never a stale one.

The code does not live up to all of this. Where a comment or document of the
repository promises what the code does not keep, a configuration shows it violated
(section 6), and the property that holds says in its comment what it excepts.

## 2. Plan

Most important first: the data path of a workspace, then the agents, then the
administration.

1. `PortReservation` with the abstract `PortPool`, and its proofs - done
2. `HostSync` - done
3. `WorkspaceLifecycle` - done
4. `AgentInstances` - done
5. `AgentTemplates` - done
6. `McpServers` - done
7. `Projects`: descriptors, engines, templates, roles, shared volumes - done
8. `PlatformAdmin`: models, base templates, agents - done
9. Proofs of the invariants and action properties, component by component, in a
   module `<Component>Proofs` beside each - done.

## 3. The modules

### PortPool, PortReservation, PortReservationProofs

`PortPool` is what the reservation promises: a port is leased to at most one
Create in flight, and a lease ends when its holder gives it back or the process
dies. `PortReservation` is the code. `pc[c]` is the place of a Create: `new`,
`reading` (inside `UsedPorts`, one job read at a time: `ListJobs`, `ReadJob`,
`SkipJob`), `held` (after `reserve`), `registered`, then `returned` or `failed`.
`Reserve` is the critical section of `reserve`: the lowest port that is neither
in the snapshot `used[c]` nor in `reserved`. `Abort`, `RegisterLost` and `Return`
run the deferred release. `Purge`, `StartRead` and `StartRegister` are the calls
of Destroy and Start on the job, and `Restart` empties `reserved`. A workspace
is named after the one Create that made it, because its name is random.

* `ReservationsAccounted`: `reserved` is exactly the ports of the Creates between
  reservation and return.
* `SerialCreatesDistinct`: a Create that began after another had returned has a
  different port, if it could read every job it listed. `before` and `missed`
  are history variables that say so.
* `ImplementsPool`: the refinement, with `Lease` as the mapping.
* `PublishedPortsDistinct` is what the comments claim, and fails (section 6).

### HostSync

One process with a program counter: `StartPass` (List), `GetService` per service,
then for each service `ReadHostSet`, and `CreateHost`, `AddHost` or `ReadHost`,
`UpdateHost`. Each is one call, so that Nomad (`Place`, `DropOne`, `DropAll`) and
the portal (`RegisterJob`, `CreateHostSet`, `Stop`, `Start`, `Purge`,
`DeleteHostSet`, `DeleteHost`) interleave with them. Registrations of a
workspace are kept oldest first, so `pickCurrent`, the highest ModifyIndex, is
the last. Faults: a failed call (`ListFails` abandons the pass, `CallFails` one
service), a Create whose reply is lost, and a crash.

* `PassResultFresh`: the address a pass has left was current at some moment of
  that pass. `seen` records the current addresses since the pass began.
* `HostsFollowHostSets`: no host before its host-set, none in a deleted one, and
  none of a destroyed workspace, unless the sync had read the host-set and was
  about to create the host when Destroy deleted (`late`). Without that exception it
  is `DestroyRemovesHost`, which fails (section 6).
* `ConvergedStays`: a converged host is not moved away.
* `Convergence`: under fairness, a workspace that stays put gets its address,
  unless a fault fell between Create and AddHosts (`split`).

### WorkspaceLifecycle

`create[w]` is the next call of the Create of `w`; `AllocateAndRegister`,
`CreateHostVolume` and `Provision` say for each call of those functions which one
follows. `destroy[w]` is the next call of its Destroy.
`has[w]` is what exists for the workspace and `shared` what exists for the
developer: managed group and two roles with their bindings. `Lookup` is
find-or-create, `CreateRefused` what the server refuses (a missing target, a
second role of one name). `Attach` and `Detach` are the CSI driver. Every call
can fail before or after its effect, and the portal can crash between any two.
One Destroy at a time runs per workspace, and it is started from the list, hence
only while the job is listed. The host inside the host-set belongs to `HostSync`.

* `DestroyIsComplete`: a Destroy that returned nil leaves nothing, unless a Create
  or Start of the same workspace went on meanwhile (`raced`).
* `NoVolumeOrphanedByDestroy`: a workspace that left the list by Destroy has no
  volume: the point of the order stop, delete, purge.
* `CreateIsUsable`: a successful Create has all its parts and its grant is on a
  role that is bound, or a failure cut that role off from its binding
  (`unbound`), or its creator is still at it.

### AgentInstances

One row per user, one Nomad job per user. `pc[c]` follows a chat through
`EnsureInstance` (`probe`, `register`, `place`, `save`, `wait`) and
`ChatInstance` (`post`, `repost`, `stamp`); `inst[c]` is the copy of the row it
writes back. The reaper keeps a listing (`listed`, `passNow`) and works it off
(`ReapSkip`, `ReapPurge`, `ReapStop`), and a delete purges, then drops the row.
Purge errors are ignored by every caller, which `PurgeLost` models. A clock
decides what is idle.

* `JobTracked`: a running job is in its row unless a chat is still at work or
  one of the named accidents happened (`untidy`): a delete or stop overlapped a
  chat, a reply or purge was lost, or the portal crashed.
* `CalmChatServed`: a chat that nothing disturbs is answered, however stale the
  row was that it began with.
* `IdleIsReaped`: a tracked instance that stays idle is stopped.

The template is published and fixed; addresses are never reused.

### AgentTemplates

One template and its row. A request is one operation: it reads the row into
`copy[r]`, follows its calls through `pc[r]` and writes the whole row back
(`Upsert`). What a deployment makes is marked with its request: the test job
(`job`), the LLM key under the alias (`key`), the stored key (`kv`) and per server
the virtual server, its tokens and the stored token (`vs`, `tok`, `mkv`). A Save
is the version of the YAML. `Call` is a call that makes something, with its reply
lost or not; `DeployFails` one that had no effect; `Undo` is where the clean-up
begins and `UndoJob` to `UndoKV` are its calls; `CallLost` is a call whose error
the code drops. `EnsureInstance`, `InstanceSaved` and `InstanceGone` are what
`AgentInstances` does, as far as the template sees it. Replacing a virtual server
(find, delete, create) is one call, and a Save never changes the selected servers.

* `TestedReflectsJob`, `PublishedHasCredentials`: key, stored key, virtual servers
  and tokens are of one deployment and live, and the job that runs is of the
  saved YAML. Not claimed while somebody is at work on them, after an operation
  overwrote another (`raced`, until a deployment that runs alone), or after one
  gave up half way (`spoiled`, until the next deployment).
  `TestedIsCurrent`, without `raced`, fails.
* `FailedDeployCleans`: nothing a failed deployment made is left, whatever ran
  beside it, but for failures inside a server's wiring, lost replies and failed
  clean-up calls (`leaked`). `FailureOrphansNothing`, for a failure inside a
  server's wiring too, fails, and so does `DeleteIsBlocked`: no template is deleted
  under an instance.

### McpServers, McpServersProofs

Two servers of one project that want the same Vault mount or a static secret.
A request is one operation: `req[r].todo` is what it still has to do, built from
the plans (`DeployPlan`, `UpdatePlan`, `TestPlan`, `DeletePlan`, and `Instantiate`,
`Deprovision` and `Wire` inside them), which list the calls in the order of the
code. A call takes effect, is refused, fails, or takes effect and loses its
reply; `DeployFails`, `UpdateFails`, `TestFails` and `DeleteFails` say what is left
to do then: the undo of the code, or nothing. `RejectMountCollision` reads the
rows and compares the mounts as they are written (`spelt`: with or without the
trailing slash), while the engine is the same for both spellings; `Save` writes
the rows. `gw` is the gateway: peers, virtual servers and tokens,
also those a test makes (`probe`). `Reschedule` moves a job, `Deactivate` is the
gateway giving up a dead peer, `Lease` a running server taking credentials.

* `RowIsServed`: a stored server that nobody works on has a job of its definition and
  what its credential needs. `RejectMountCollision` is there for this: without it a
  delete takes the engine of another server, and the property is violated.
* `NothingLeftBehind`, `ProbesLeaveNothing`: without a row nothing is left; tests
  clean up after themselves.
* `WiringServes`: the token that workspaces read from Vault is live, of the virtual
  server that exists, over an active peer at the address of the job.
* `UnmountsAfterRevoke`: an engine is unmounted only after its leases.

The exceptions are history variables: `raced` (servers and engines whose operations
disturbed each other: `Clashing`, a row that is no longer the one that was read, or
an engine claimed under another spelling, `Respelt`), `torn` (servers with a failure
the code does not repair: `Unrepaired`), `unwired` (the last wiring failed),
`strayed` (a peer may have a dead address, or one that the row does not name) and
`doomed` (a delete that has not finished). Overlapping tests, and operations that
find the row they have read, are no exception. What the exceptions hide is stated by
properties that fail: `EngineHasOneServer` (two spellings, or two deployments at
once), `TestKeepsDefinition`, `WireGoesWithServer`, `DroppedIsStopped` and
`UnmountsNothingLeased`.

### Projects

One project with its descriptor row, everything `CreateProject`, `Provision` and
`DeleteProject` make or remove in Vault, Nomad, Boundary and the LLM gateway
(`up`, `lib`, `llm`), the tables of templates, roles, capabilities and shared
volumes (`db`), and a workspace with its home volume (`nomad`). Requests work as in
`McpServers`: `copy` is the descriptor as it was read, which `Upsert` writes back
whole. `Ensures` is a call that finds or makes a thing and is refused when what
it stands on is missing; `Verdict` is the last step of a delete. `Launch` and
`Detach` are what `WorkspaceLifecycle` does, as far as a project sees it.

* `FlavorsFollowTemplates`: the flavors are the templates, whichever of its six
  writers rewrote the row.
* `ReadyMeansProvisioned`: what shows as ready has the shell, the engines, its library
  and a live key.
* `DeleteIsComplete`: a delete that removed the row left nothing in Vault and
  Boundary, and in Nomad at most home volumes as orphans.
* `NoVolumeOrphaned`: no namespace goes over a volume that was not tried.
* `SharedVolumeBacked`: row and volume of a shared volume go together.

`marks` names the accidents that are excepted: `torn` is a failure the code does not
repair, the lost reply of the read with which a failed provisioning begins to
record its error among them, and `undone` is a delete that failed, until the
descriptor is written anew. A project that the CLI command
`provision-project` makes is a `CreateTemplate` followed by a `Provision`; it has
no action of its own. `HomesAreSwept`, `LastAdminStays`, `SyncPreservesRest` and
`FailedCreateClearsItsOwn` say what comments of the code promise of volumes,
admins, the descriptor and shared volumes, without exceptions, and fail (section 6).

### PlatformAdmin, MCPlatform

One LLM model, one base template, the switch of each coding agent and one project
template baked from the base. `asked[r]` is a request with the row it has read; an
operation on the model calls the gateway between reading and writing. `Inject` says
which secrets and which entrypoint lines a baked template has. The gateway serves
a name by every deployment that was added under it, and deletes by id.

* `GatewayMatchesRows`: the gateway serves the deployment the row records, no test
  key is left. Excepted are also a model onboarded twice (`doubled`) and the
  failures the code does not repair (`torn`); one of these is that of
  `DeleteRemovesModel`, which fails (section 6).
* `PublishedWasTested`: a model becomes published only after its own deployment
  answered.
* `VersionsNameOneSource`: a version names one source for good, and a template is
  what its version, agent and add-ons make it.

Excepted are operations of which one writes what the other has read (`raced`): an
onboarding or delete beside any, a test of the draft beside one of the published
row, a release beside a draft or a release, two edits of the project template.
Two drafts of the base do not disturb each other.

`MCPlatform` checks `PortReservation` and `PlatformAdmin` side by side, which is why
the definitions of `PlatformAdmin` are called `CatalogueInit`, `CatalogueNext` and
`Pending`: the variable `part` is chosen at the start and says whose behaviour it is; the other part stands
still. The components share no state, so this is the sum of two state spaces, not
their product, and each property is checked on all behaviours of its part.

## 4. Runs

| run | instance | states | shows |
|---|---|---|---|
| `port_reservation` | ports: 3 Creates, 2 ports, 1 error, 1 restart; catalogue: 2 requests, 2 sources, 2 agents, 1 fault; symmetry | 368,022 (335,734 of them ports) | exact reservations, serial Creates, refinement; catalogue and gateway agree |
| `port_window` | ports alone, without faults | violation, 8 states | the snapshot is read before the lock |
| `host_sync` | 2 workspaces, 2 nodes, 3 placements, 1 stop, 1 fault | 435,082 | freshness, host-set discipline, no flapping, convergence |
| `host_sync_stranded` | 1 workspace, 1 placement, 1 fault | violation | a host left outside its set for ever |
| `workspace_lifecycle` | 2 workspaces of one developer, 2 requests, 1 fault, symmetry | 1,401,699 | complete Destroy, no orphaned volume, usable Create |
| `destroy_unlisted` | 1 workspace, 1 request, 1 fault | violation, 10 states | a failed Destroy can leave the list |
| `agent_instances` | 1 user, 2 clients, 3 chats, 1 delete, 3 allocations, 1 fault | 1,335,639 | tracking, healing, reaping |
| `reaper_race` | the same without faults | violation, 12 states | the reaper purges an active instance |
| `agent_templates` | 5 requests, 2 at a time, 1 server, 1 fault, symmetry | 547,810 | credentials of one deployment, clean-up |
| `template_forgotten` | 4 requests, one at a time, no fault | violation, 23 states | a Save makes the template forget its deployment |
| `mcp_servers` | 2 requests, 2 servers, 1 mount in 2 spellings, 2 definitions, 1 fault, symmetry | 702,855 | a stored server is served and wired, leases go before engines, nothing is left |
| `projects` | 2 requests, 2 flavors, 2 people, 1 workspace, 1 fault, symmetry | 491,607 | the descriptor tells the truth, deletes are complete, volumes are tried |

Beside the runs, these configurations show claims of comments and documents that the
code does not keep (section 6). TLC stops at the counterexample, whose states are
given: `tlc -config EngineShared.cfg MCMcpServers`.

| configuration | module | claim | instance | states | shows |
|---|---|---|---|---|---|
| `HostSyncStray.cfg` | `MCHostSync` | `DestroyRemovesHost` | 1 workspace, 1 placement, no fault | 14 | a host made after Destroy deleted the hosts |
| `ModelKept.cfg` | `PlatformAdmin` | `DeleteRemovesModel` | the catalogue, 1 request, 1 fault | 4 | a failed removal leaves the deployment served |
| `TemplateUnderInstance.cfg` | `MCAgentTemplates` | `DeleteIsBlocked` | one request at a time, no fault | 28 | an instance between count and teardown |
| `TemplateTestStale.cfg` | `MCAgentTemplates` | `TestedIsCurrent` | 2 requests at a time, no fault | 22 | a test writes back the row of before a Save |
| `WiringOrphaned.cfg` | `MCAgentTemplates` | `FailureOrphansNothing` | one request at a time, 1 fault | 7 | a virtual server outside the list the clean-up has |
| `EngineShared.cfg` | `MCMcpServers` | `EngineHasOneServer` | 2 requests one after the other, 2 spellings, no fault | 10 | two spellings of one engine pass the check |
| `EngineOverlap.cfg` | `MCMcpServers` | `EngineHasOneServer` | 2 requests at once, 1 spelling, no fault | 19 | two deployments pass the check together |
| `TestOverUpdate.cfg` | `MCMcpServers` | `TestKeepsDefinition` | 2 requests at once, no fault | 18 | a test writes back the old definition |
| `PeerKept.cfg` | `MCMcpServers` | `WireGoesWithServer` | 2 requests one after the other, no fault | 19 | the peer of a wiring survives the server |
| `DropsRunning.cfg` | `MCMcpServers` | `DroppedIsStopped` | 1 request, 1 fault | 9 | the row goes, the job stays |
| `UnmountsLeased.cfg` | `MCMcpServers` | `UnmountsNothingLeased` | 1 request, 1 fault | 10 | an engine is unmounted over a lease |
| `HomesOrphaned.cfg` | `MCProjects` | `HomesAreSwept` | 2 requests one after the other, no fault | 5 | the namespace goes over an attached home volume |
| `AdminsOverlap.cfg` | `MCProjects` | `LastAdminStays` | 3 requests, 2 at a time, no fault | 7 | two revocations take both admins |
| `SyncOverwrites.cfg` | `MCProjects` | `SyncPreservesRest` | 2 requests, 2 groups, no fault | 7 | the sync of the flavors undoes an update |
| `VolumeOverlap.cfg` | `MCProjects` | `FailedCreateClearsItsOwn` | 2 requests, no fault | 10 | a failed Create deletes the volume of another |

Why the bounds are enough. Three Creates over two ports make the range run out
and let a port be freed and given again. Two nodes and three placements give an
overlap, a move and a move back. Two workspaces of one developer race for the
shared group and roles, and one of them can be destroyed while the other is
created; two requests give a Destroy and its retry, or a Start racing it. Two
clients and three chats give a concurrent pair on a row that an earlier chat has
left. Five requests are what it takes to save, deploy, test and publish a
template and then do one more thing to it. Two requests are enough for servers,
projects and the catalogue because their initial states include the one a longer
history leads to: a deployed, tested or wired server, a ready project in use, an
onboarded, tested or published model, a base with a draft waiting and a template
baked from it. Two servers on one mount collide, or share it by its two spellings; the sources `wif-token` and
`none` take a part of the calls of `static`, which stands for them. One fault
anywhere is the case the code tries to handle; the theorems of section 5 hold for
any number of them. `TTL = 0` with two instants makes "idle" and "active" both reachable.

Deadlock is checked in the host sync runs. In the others
a finished instance really stops: all operations are done and the bounds spent.

Fairness. `HostSync` assumes weak fairness of the steps of the sync process:
`Run` is a loop on a ticker until shutdown, its calls return, and Nomad restarts
the process. Nothing is assumed of Nomad, the portal or the users.
`AgentInstances` assumes weak fairness of the reaper, a ticker loop in `main.go`
whose pass waits for nobody; nothing is assumed of chats. The other
components claim no liveness.

## 5. Theorems

Every theorem is about the specification the runs check, for every value of its
constants: any number of requests, users, workspaces and servers, and any bounds.
The assumptions are the named `ASSUME`s of the modules, which TLC evaluates in the
runs: bounds are natural numbers, `None` and `Founder` are none of the requests, the
port range is not empty. Each `IInv` was checked by TLC on the instance of its run
before it was proved; those of `McpServers` also with two faults on one server with
two definitions. In each module lemmas prove that `Init` implies `IInv` and that
each action keeps it; the theorems follow.

| module | theorems | properties |
|---|---|---|
| `PortReservationProofs` | `TypeCorrect`, `NoReservationLeak`, `SerialCreates`, `Implements` | `TypeOK`, `ReservationsAccounted`, `SerialCreatesDistinct`, `ImplementsPool` |
| `HostSyncProofs` | `TypeCorrect`, `PassesAreFresh`, `HostsInTheirSets`, `NoFlapping` | `TypeOK`, `PassResultFresh`, `HostsFollowHostSets`, `ConvergedStays` |
| `WorkspaceLifecycleProofs` | `TypeCorrect`, `DestroyCompletes`, `NoVolumeOrphaned`, `CreatedIsUsable` | `TypeOK`, `DestroyIsComplete`, `NoVolumeOrphanedByDestroy`, `CreateIsUsable` |
| `AgentInstancesProofs` | `TypeCorrect`, `JobsAreTracked`, `CalmChatsAreServed` | `TypeOK`, `JobTracked`, `CalmChatServed` |
| `AgentTemplatesProofs` | `TypeCorrect`, `TestedIsDeployed`, `PublishedServes`, `FailuresClean` | `TypeOK`, `TestedReflectsJob`, `PublishedHasCredentials`, `FailedDeployCleans` |
| `PlatformAdminProofs` | `TypeCorrect`, `GatewayIsAccountedFor`, `OneSourcePerVersion`, `PublishedAfterTest` | `PlatformTypeOK`, `GatewayMatchesRows`, `VersionsNameOneSource`, `PublishedWasTested` |
| `ProjectsProofs` | `TypeCorrect`, `DeletesAreComplete`, `FlavorsAreTemplates`, `ReadyIsProvisioned`, `SharedVolumesAreBacked`, `NoDataOrphaned` | `TypeOK`, `DeleteIsComplete`, `FlavorsFollowTemplates`, `ReadyMeansProvisioned`, `SharedVolumeBacked`, `NoVolumeOrphaned` |
| `McpServersProofs` | `TypesKept`, `ProbesAreThrownAway`, `RevokedBeforeUnmounted`, `RowsServed`, `NothingIsLeft`, `ReferencedIsServed` | `TypeOK`, `ProbesLeaveNothing`, `UnmountsAfterRevoke`, `RowIsServed`, `NothingLeftBehind`, `WiringServes` |

None of the properties is inductive alone. What `IInv` adds, and why:

* `PortReservation`. `HoldersDistinct`: two Creates in flight hold different ports,
  without which a release by one would take the port of the other out of
  `reserved`. `PortsAssigned`: every Create that got to `held` has a port.
  `BeforeReturned`: a job in `before[c]` belongs to a Create that had returned, so
  its port can no longer change. `ScanComplete`: during a scan, each such job that
  was not missed is still unread or has its port in `used[c]`. `ChosenDistinct`
  carries that to the chosen port, for purged jobs too, because a Start may
  register one again. `LeaseStep` proves the refinement from it.
* `HostSync`. It follows an address from Nomad to Boundary: what is current has been
  seen since the pass began (`CurrentSeen`), so has what the pass read
  (`SnapSeen`), and the host between Create and AddHosts has the address that was
  read or was removed by the portal (`AddFresh`); a destroyed workspace has no host
  and nobody is about to create one, or it is `late` (`DestroyedForGood`).
* `WorkspaceLifecycle`. `Made` and `SharedMade`: a Create has made the parts of the
  calls it is past; `RoleBound`, `AliasBound`: a role is bound, or somebody is at it,
  or `unbound`; `Removed`: a Destroy has removed what `Gone` says for its next call;
  `EarlyUnlisted`: before its job is registered only Create works on a workspace.
* `AgentInstances`. `Recorded`: a job is in a row, or in the hands of a chat that will
  record or undo it; `RemovedAlone`: a delete or stop nobody chats beside has purged
  before it writes; `Served`: what an undisturbed chat knows of its allocation.
* `AgentTemplates`. `Control`: which rows a request can hold at which step; `Alone`:
  without `raced` one request owns the template; `Built`: what it has made so far;
  `Traces`: what of a request can still be there at which step, for those that lost
  track of nothing; `RowKeyed`, `RowJob`: what the stored row speaks of is there
  unless its owner is at work.
* `PlatformAdmin`. `Modelled`: who is at work on the model knows its deployment;
  `Keyed`: a test key belongs to a test that will revoke it; `Served`: row and
  deployment come and go together; `Based`: who works on the base has read its
  version.
* `Projects`. `Typed` says that a request is in the middle of a plan of the code and
  what it holds there. `Progress`: who makes a project has made what it is past;
  `Deleted`: what a delete that has not failed is past is gone; `Ready`: what the
  row shows is there, or a provisioning that revoked the key is at work, or a
  delete; `Listed`, `Absent`, `Swept`, `Backed` and `Gone` say the like of
  templates, volumes and the deleted project. The proof goes over the
  effects of the calls: lemmas say what each call does to the state, and one
  argument per part of the invariant covers all calls with the same effect.
* `McpServers`. `Typed` has `Control`: what a request has left to do is a chain in
  which each step may follow the one before (`Follows`), from its plan or from what
  the code does about a failure (`Recovery`); the proofs look at the first step of a
  plan (`Now`) and, for deletes and updates, at its last (`LastStep`). On it stand
  five invariants, `Serving`, `Tidy` and `Linking` each also on those before. `Probes`: a virtual server, decoy or
  token of a test belongs to a test that will throw it away. `Owned`: a deployment
  has its engine for itself (`Claims`), two rows share none unless `raced`
  (`MountsHaveOneOwner`), a delete works on the row it has read
  (`Deletes`) and has revoked what it unmounts (`Revoked`). `Serving`: what a
  deployment has made before each step (`Made`), what an update has registered
  (`Updated`), what each knows of the row it began with (`Marked`), and that a
  stored server is served or a request is changing it (`Served`). `Tidy`: what there
  is without a row is in the hands of a deployment (`Bare`), a stored server has
  nothing its credential does not need (`Fitted`), what a delete is past is gone
  (`Erased`, `Cleared`), and an engine is that of a row or of a deployment
  (`Mounted`). `Linking`: a referenced server is wired or will be wired again by a
  request at work (`Joins`), its peer is where the job is or an update is moving it
  (`PeerFollows`), each step of a wiring finds what the one before has made
  (`Linked`), and an update that takes its peer back has the wiring before it
  (`Returns`). One lemma (`CallEffect`) turns the 38 calls into one equation for each
  variable (`Effect`) and three outcomes; the arguments about the parts use
  that, and a second one (`CallTakes`) where the end of a plan matters.

Only model-checked: `Convergence` and `IdleIsReaped`, which are liveness under fairness and need ENABLED, out of reach of the prover. No
fact proved here needs induction over data: plans are followed by position. No
module uses RECURSIVE.

## 6. Findings

* `port_window`: A lists and reserves; B lists; A registers, returns and releases;
  B reserves with its old snapshot and gets the port of A. The comments on
  `Service.mu` and `reserve` (service.go 49-52, 73-75) say this cannot happen.
* `host_sync_stranded`: CreateHostInSet makes two calls. After the first alone
  the set stays empty and the unique name refuses every later attempt
  (boundary.go 195-215), while reconcile.go 1-6 promises the address of every
  live workspace.
* `destroy_unlisted`: service.go 337-339 says that a failed Destroy leaves the job
  listed and can be run again; the job is purged before the Boundary calls.
* `reaper_race`: instances.go 163-164 says that stamping keeps the reaper off an
  active session; ReapIdle decides by the rows it listed before.
* `template_forgotten`: Save writes a fresh row (service.go 203-207 of agents), so
  a template that was deployed and saved again no longer names its job, key and
  wiring. Delete, which "purges the admin test job, tears down the gateway wiring
  + test LiteLLM key + KV" (457-458), leaves all but the stored LLM key.

The configurations beside the runs refute these:

* `DestroyRemovesHost`: the sync reads the host-set, the portal deletes host-set
  and hosts, the sync creates the host. README.md 29 of the host sync and
  boundary.go 311-312 say that Destroy removes both.
* `DeleteIsBlocked`: DeleteTemplate is "blocked while any project-user still has
  an instance" (agents/service.go 458-459); it counts once, at 469.
* `TestedIsCurrent`: "tested always reflects the currently-deployed job"
  (360-361); Test writes back the row it read before its probe (381).
* `FailureOrphansNothing`: a failed deployment "never accrues orphaned wiring"
  (238-240); a virtual server is recorded for the clean-up only after its token is
  stored (530).
* `EngineHasOneServer`: a deployment is refused when its mount is claimed
  (projectadmin/service.go 292-294); the mounts are compared as written (311-312)
  and trimmed where they are used (executor.go 81), and nothing holds the mount
  between the check and the row.
* `TestKeepsDefinition`: TestServer is to "record the result on the row" (483) and
  writes the whole row as it was before its probe (574).
* `WireGoesWithServer`: "the wire plane's artifacts must not outlive the server"
  (639); the peer that WireMCPServer registered does, as the row does not name it
  (636).
* `DroppedIsStopped`: "a partial state still converges to clean" (623); the row
  goes although the job could not be purged (634), and nothing finds the job
  again.
* `UnmountsNothingLeased`: "a mount never has live leases at unmount"
  (vaultadmin.go 362-363); a job that was not purged takes one after the
  revocation, and a revocation that failed does not keep Deprovision from
  unmounting (executor.go 212).
* `HomesAreSwept`: home volumes are swept before the namespace so that none is
  orphaned (projectbootstrap 386-388); a volume that cannot be deleted yet is
  noted as a failure and the namespace deleted (393-398).
* `LastAdminStays`: a revocation that "would leave the project with zero
  project-admins" is refused (projectrole 55); it counts and deletes in two calls.
* `SyncPreservesRest`: the sync of the flavors is "preserving every other
  descriptor field" (projecttemplate 444); it writes the whole row it has read
  (446, 473).
* `FailedCreateClearsItsOwn`: a failed Create removes its volume (sharedvolume
  67-69); when two Creates of one name overlap it removes that of the other (104).
* `DeleteRemovesModel`: DeleteLLMModel "removes the model from LiteLLM" (admin
  301); it drops the error of that call (308) and then the row.

Met while modelling and excepted by the properties, or outside what the model
tells apart, without a run of their own:

* MCP servers. `DeleteProject` revokes gateway tokens by the prefix
  `<project>-<name>` (projectbootstrap 368), which no token made here has: they
  begin with `mcp-`. A prefix of one server (`mcp-p-foo-client`) also matches the
  tokens of a server named `foo-client`, and only the first 100 tokens are listed.
  A peer that a delete has left is taken over by a redeployment with its dead
  address; an update whose look-up of the peer failed forgets the peer, too.
  `Instantiate` that fails half way, and a job whose registration lost its reply,
  are not undone. `UpdateServer` that fails at placement has changed the job and
  not the row. `DeployServer` takes any error of its first read for "not
  deployed". The token under `projects/mcp/<name>` is never removed.
* Projects. Rows of shared volumes and agents outlive the project. The volume of a
  workspace started between two overlapping deletes is orphaned. `CreateProject`
  over an existing row drops flavors, library and GitHub flag, and writes `ready`
  before the first admin is granted. The token of a deleted Vault namespace stays
  in the cache of `brokerToken` (vaultadmin 132), so that provisioning a project
  created anew is refused until it expires; the model has that as failed calls.
* Catalogue. A model onboarded twice is served by both deployments, and a test may
  be answered by the older. A lost reply of `GenerateKey` leaves the test key,
  which refuses every later test; it has the alias of the key of a project named
  `test-<model>`. A published model that fails a later test stays published, and a
  test that overlaps a publication writes the draft back. `UpdateDraft` beside
  `Publish` can set the version back and give one version to two sources. Creating
  a project template again drops its add-ons.

## 7. Not modelled

* Token exchange: one process with a token cache under a lock. What it answers is
  decided per request by the identity provider; a late eviction costs one more
  exchange.
* Authentication, sessions and middleware: checks per request. The rate limiter's
  table is a performance guard.
* Rendering beyond `Inject`, configuration, frontend, local SSH files and
  infrastructure: no concurrent state.
* `backfill-from-vault` (cmd/portal), a migration run once by hand: run again it
  would bring back deleted projects and undo edits.
* Inside modelled components: the parsing of job files, the contents of policies,
  the validation of YAML and placeholders, the re-authentication of Boundary
  clients, audit records, and the read-only listings.
