-------------------------------- MODULE Projects --------------------------------
(***************************************************************************)
(* One project of the portal: a platform admin creates, edits and deletes  *)
(* it (projectbootstrap/service.go), its admins provision its engines      *)
(* (projectengines/service.go), maintain its templates                     *)
(* (projecttemplate/service.go), roles (projectrole/service.go) and shared *)
(* volumes (sharedvolume/service.go), and its users start workspaces.      *)
(*                                                                         *)
(* The project is a row, the descriptor, of which each service reads the   *)
(* whole, changes a field and writes the whole back, and a number of       *)
(* things in Vault, Nomad, Boundary, the LLM gateway and other tables.     *)
(* A request is one operation: it reads, then takes the steps of `todo`    *)
(* one after the other.  A call fails, or takes effect and loses its       *)
(* reply; `todo` becomes what the code then does.                          *)
(***************************************************************************)
EXTENDS Naturals, FiniteSets, Sequences

CONSTANTS
  Requests,
  Founder,       \* who made what is there at first
  Flavors,       \* names of templates
  Subjects,      \* people that may be project admins
  Groups,        \* developer groups
  None,
  MaxInFlight,   \* bound: requests at work at the same time
  MaxFaults      \* bound: failed calls and crashes

ASSUME ProjectsAssumption ==
  /\ Founder \notin Requests
  /\ None \notin Requests \cup {Founder} \cup Groups
  /\ {MaxInFlight, MaxFaults} \subseteq Nat

VARIABLES
  row,           \* database: the descriptor and its status
  db,            \* database: templates, admins, capabilities, shared volumes
  up,            \* what stands in Vault, Nomad and Boundary
  lib,           \* Boundary: the credential library
  llm,           \* the key the gateway has, and the one in the project's KV
  nomad,         \* the workspace's job and volume, the shared volume
  req,           \* the requests
  faults,        \* bound
  marks          \* history: what went wrong that the properties except

vars == <<row, db, up, lib, llm, nomad, req, faults, marks>>

NoRow == [status |-> "none", group |-> None, lib |-> None, github |-> FALSE,
          flavors |-> {}]
Idle(op) == [op |-> op, arg |-> None, copy |-> NoRow, lib |-> None, flavors |-> {},
             failed |-> FALSE, swept |-> FALSE, todo |-> << >>]

--------------------------------------------------------------------------------
(* What a project is made of.                                              *)

VaultThings == {"vault-ns", "jwt", "secret-kv", "provisioner", "ws-role", "ssh",
                "ssh-ca", "ssh-role", "github", "github-config", "policies",
                "cred-policy"}
BoundaryThings == {"scope", "catalog", "cred-store"}
NomadThings == {"nomad-ns", "nomad-policy", "binding"}

Shell == {"vault-ns", "jwt", "secret-kv", "provisioner", "ws-role", "scope",
          "catalog"} \cup NomadThings
Engines == {"ssh", "ssh-ca", "ssh-role", "github", "policies", "cred-policy",
            "cred-store"}

--------------------------------------------------------------------------------
(* The plans.                                                              *)

CreatePlan == <<"vault-ns", "jwt", "secret-kv", "provisioner", "ws-role",
                "nomad-ns", "nomad-policy", "binding", "scope", "catalog",
                "descriptor", "grant", "read">>

GitHubPlan == <<"github-config", "github-read", "github-save">>

ProvisionPlan(github) ==
  <<"ssh", "ssh-ca", "ssh-role", "github">>
    \o (IF github THEN <<"github-config">> ELSE << >>)
    \o <<"policies", "unkey", "key", "llm-kv", "cred-policy", "token",
         "cred-store", "library">>
    \o (IF github THEN <<"github-read", "github-save">> ELSE << >>)
    \o <<"lib-read", "lib-save">>

Sync == <<"sync-read", "sync-list", "sync-save">>

\* Mutant: the namespace goes before the volumes in it.
DeleteNamespaceFirst ==
  <<"jobs", "un-nomad-ns", "volumes", "un-binding", "un-nomad-policy", "un-scope",
    "un-vault-ns", "unkey", "templates", "roles", "capabilities", "verdict">>

DeletePlan ==
  <<"jobs", "volumes", "un-nomad-ns", "un-binding", "un-nomad-policy", "un-scope",
    "un-vault-ns", "unkey", "templates", "roles", "capabilities", "verdict">>

Provisioning == {"ssh", "ssh-ca", "ssh-role", "github", "github-config", "policies",
                 "unkey", "key", "llm-kv", "cred-policy", "token", "cred-store",
                 "library", "github-read", "github-save", "lib-read", "lib-save"}

Syncing == {"sync-read", "sync-list", "sync-save"}

--------------------------------------------------------------------------------
(* The first state: no project, or one that is ready.                      *)

Empty ==
  /\ row = NoRow
  /\ db = [templates |-> {}, admins |-> {}, restricted |-> FALSE, shared |-> FALSE]
  /\ up = {} /\ lib = None
  /\ llm = [key |-> None, kv |-> None]
  /\ nomad = [job |-> FALSE, volume |-> "none", shared |-> FALSE]

Founded(g, f, a, used) ==
  /\ row = [status |-> "ready", group |-> g, lib |-> Founder, github |-> FALSE,
            flavors |-> {f}]
  /\ db = [templates |-> {f}, admins |-> {a}, restricted |-> FALSE, shared |-> used]
  /\ up = Shell \cup Engines /\ lib = Founder
  /\ llm = [key |-> Founder, kv |-> Founder]
  /\ nomad = [job |-> used, volume |-> IF used THEN "attached" ELSE "none",
              shared |-> used]

Init ==
  /\ \/ Empty
     \/ \E g \in Groups, f \in Flavors, a \in Subjects, used \in BOOLEAN :
          Founded(g, f, a, used)
  /\ req = [r \in Requests |-> Idle("new")]
  /\ faults = 0
  /\ marks = {}

--------------------------------------------------------------------------------
(* The steps of a request.                                                 *)

Over == {"new", "over"}
InFlight == {r \in Requests : req[r].op \notin Over}
At(r, step) == req[r].todo # << >> /\ Head(req[r].todo) = step
Fault == faults < MaxFaults /\ faults' = faults + 1

Become(r, new) ==
  req' = [req EXCEPT ![r] = IF new.todo = << >> THEN Idle("over") ELSE new]

\* History: pairs of operations that get in each other's way.
Volumes == {"volume-create", "volume-delete"}
Clash(ops) ==
  \/ "delete" \in ops
  \/ ops \subseteq {"create", "provision"}

Clashing(r) ==
  (IF \E q \in InFlight \ {r} : Clash({req[q].op, req[r].op}) THEN {"raced"} ELSE {})
    \cup (IF \E q \in InFlight \ {r} : {req[q].op, req[r].op} \subseteq Volumes
          THEN {"volume-raced"} ELSE {})

\* What is left to do when a step fails.
Remaining(r, step) ==
  CASE req[r].op = "delete" /\ step # "verdict" -> Tail(req[r].todo)
    [] req[r].op \in {"create", "provision"} /\ step \in Provisioning ->
         IF step = "unkey" THEN Tail(req[r].todo) ELSE <<"fail-read", "fail-save">>
    [] step = "volume-row" -> <<"unvolume">>
    [] OTHER -> << >>

\* History: failures nothing makes good, done or not.
Unrepaired(r, step, done) ==
  (IF \/ step = "fail-read"
      \/ step \in {"fail-save", "verdict"} /\ ~done
   THEN {"torn"} ELSE {})
    \cup (IF step \in Syncing THEN {"unsynced"} ELSE {})
    \cup (IF step = "unkey" /\ req[r].op = "delete" /\ ~done THEN {"key-left"} ELSE {})
    \cup (IF \/ step = "volume-row" /\ done
             \/ step = "volume-unrow" /\ ~done
             \/ step \in {"volume", "volume-wait", "unvolume"}
          THEN {"volume-raced"} ELSE {})

Fails(r, done) ==
  LET step == Head(req[r].todo) IN
  /\ Become(r, [req[r] EXCEPT !.todo = Remaining(r, step),
                              !.failed = @ \/ step # "unkey"])
  /\ marks' = marks \cup Clashing(r) \cup Unrepaired(r, step, done)

\* The step is done: r goes on as `new`, with marks gone or new, or its reply
\* is lost.
DoneAs(r, new, gone, come) ==
  \/ /\ Become(r, [new EXCEPT !.todo = Tail(@)])
     /\ marks' = (marks \ gone) \cup come \cup Clashing(r)
     /\ UNCHANGED faults
  \/ /\ Fault
     /\ LET step == Head(req[r].todo) IN
        /\ Become(r, [req[r] EXCEPT !.todo = Remaining(r, step),
                                    !.failed = @ \/ step # "unkey"])
        /\ marks' = marks \cup come \cup Clashing(r) \cup Unrepaired(r, step, TRUE)

Done(r) == DoneAs(r, req[r], {}, {})
Refused(r) == Fails(r, FALSE) /\ UNCHANGED faults

Stale(r) == IF row # req[r].copy THEN {"raced"} ELSE {}

Begin(r, op, arg, plan) ==
  /\ req[r].op = "new"
  /\ Cardinality(InFlight) < MaxInFlight
  /\ req' = [req EXCEPT ![r] = [Idle(op) EXCEPT !.arg = arg, !.copy = row, !.todo = plan]]
  /\ UNCHANGED <<row, db, up, lib, llm, nomad, faults>>

Exists == row # NoRow

--------------------------------------------------------------------------------
(* The operations.                                                         *)

CreateProject(r, g, a) ==
  Begin(r, "create", <<g, a>>, CreatePlan) /\ marks' = marks \ {"deleted"}

Provision(r, github) ==
  Exists /\ Begin(r, "provision", None, ProvisionPlan(github)) /\ UNCHANGED marks

SetGitHubCredentials(r) ==
  /\ Exists
  /\ Begin(r, "github", None, <<"github">> \o GitHubPlan)
  /\ UNCHANGED marks

UpdateProject(r, g) ==
  Exists /\ Begin(r, "update", g, <<"group-save">>) /\ UNCHANGED marks

CreateTemplate(r, f) ==
  Exists /\ Begin(r, "template", f, <<"template-save">> \o Sync) /\ UNCHANGED marks

\* Its row is read before it is written back.
UpdateTemplate(r, f) ==
  /\ Exists /\ f \in db.templates
  /\ Begin(r, "template", f, <<"template-save">> \o Sync)
  /\ UNCHANGED marks

DeleteTemplate(r, f) ==
  Exists /\ Begin(r, "template", f, <<"template-drop">> \o Sync) /\ UNCHANGED marks

DeleteProject(r) ==
  Exists /\ Begin(r, "delete", None, DeletePlan) /\ UNCHANGED marks

Grant(r, a) == Exists /\ Begin(r, "grant", a, <<"grant">>) /\ UNCHANGED marks

\* The last admin is refused.
ListProjectRoles == db.admins

Revoke(r, a) ==
  /\ Exists
  /\ ListProjectRoles # {a}
  /\ Begin(r, "revoke", a, <<"revoke">>)
  /\ UNCHANGED marks

SetCapabilities(r) ==
  Exists /\ Begin(r, "capabilities", None, <<"restrict">>) /\ UNCHANGED marks

CreateVolume(r) ==
  /\ Exists /\ ~db.shared
  /\ Begin(r, "volume-create", None, <<"volume", "volume-wait", "volume-row">>)
  /\ UNCHANGED marks

DeleteVolume(r) ==
  /\ Exists /\ db.shared
  /\ Begin(r, "volume-delete", None, <<"unvolume", "volume-unrow">>)
  /\ UNCHANGED marks

--------------------------------------------------------------------------------
(* Vault, Nomad, Boundary: what is there already is kept.                  *)

Ensures(r, thing, needs) ==
  /\ At(r, thing)
  /\ IF needs \subseteq up THEN up' = up \cup {thing} /\ Done(r)
                           ELSE Refused(r) /\ UNCHANGED up
  /\ UNCHANGED <<row, db, lib, llm, nomad>>

CreateVaultNamespace(r) == Ensures(r, "vault-ns", {})
EnableJWTNomad(r)       == Ensures(r, "jwt", {"vault-ns"})
MountSecretKV(r)        == Ensures(r, "secret-kv", {"vault-ns"})
SeedProvisioner(r)      == Ensures(r, "provisioner", {"jwt"})
SeedWorkspaceRole(r)    == Ensures(r, "ws-role", {"jwt"})
CreateNomadNamespace(r) == Ensures(r, "nomad-ns", {})
UpsertACLPolicy(r)      == Ensures(r, "nomad-policy", {})
CreateBindingRule(r)    == Ensures(r, "binding", {})
CreateProjectScope(r)   == Ensures(r, "scope", {})
CreateHostCatalog(r)    == Ensures(r, "catalog", {"scope"})

\* The engines are made with a token of the namespace's provisioner.
BrokerToken(r, thing, needs) == Ensures(r, thing, {"provisioner"} \cup needs)

MountSSH(r)           == BrokerToken(r, "ssh", {})
WriteSSHCA(r)         == BrokerToken(r, "ssh-ca", {"ssh"})
WriteSSHRole(r)       == BrokerToken(r, "ssh-role", {"ssh"})
MountGitHub(r)        == BrokerToken(r, "github", {})
WriteGitHubConfig(r)  == BrokerToken(r, "github-config", {"github"})
WriteReadPolicies(r)  == BrokerToken(r, "policies", {})
WriteCredPolicy(r)    == BrokerToken(r, "cred-policy", {})
CreateCredentialStore(r) == Ensures(r, "cred-store", {"scope"})

CreatePeriodicToken(r) ==
  /\ At(r, "token")
  /\ IF "provisioner" \in up THEN Done(r) ELSE Refused(r)
  /\ UNCHANGED <<row, db, up, lib, llm, nomad>>

CreateSSHCertLibrary(r) ==
  /\ At(r, "library")
  /\ LET id == IF lib = None THEN r ELSE lib IN
     IF "cred-store" \in up
     THEN lib' = id /\ DoneAs(r, [req[r] EXCEPT !.lib = id], {}, {})
     ELSE Refused(r) /\ UNCHANGED lib
  /\ UNCHANGED <<row, db, up, llm, nomad>>

--------------------------------------------------------------------------------
(* The LLM key: the gateway refuses a second key of the same name.         *)

DeleteKeyByAlias(r) ==
  /\ At(r, "unkey")
  /\ llm' = [llm EXCEPT !.key = None]
  /\ Done(r)
  /\ UNCHANGED <<row, db, up, lib, nomad>>

GenerateKey(r) ==
  /\ At(r, "key")
  /\ IF llm.key = None THEN llm' = [llm EXCEPT !.key = r] /\ Done(r)
                       ELSE Refused(r) /\ UNCHANGED llm
  /\ UNCHANGED <<row, db, up, lib, nomad>>

WriteKey(r) ==
  /\ At(r, "llm-kv")
  /\ IF "secret-kv" \in up THEN llm' = [llm EXCEPT !.kv = r] /\ Done(r)
                           ELSE Refused(r) /\ UNCHANGED llm
  /\ UNCHANGED <<row, db, up, lib, nomad>>

--------------------------------------------------------------------------------
(* The descriptor.                                                         *)

\* A row of the project that is there is replaced.  (History: a project that a
\* failed delete has left in part is made good by its creation alone.)
WriteDescriptor(r) ==
  /\ At(r, "descriptor")
  /\ row' = [NoRow EXCEPT !.status = "ready", !.group = req[r].arg[1]]
  /\ DoneAs(r, req[r], {"undone"}, IF Exists THEN {"rebuilt"} ELSE {})
  /\ UNCHANGED <<db, up, lib, llm, nomad>>

Reads == {"read", "github-read", "lib-read", "sync-read", "fail-read"}

\* ProvisionAtCreate reads what CreateProject has written, then provisions.
ReadDescriptor(r) ==
  /\ \E step \in Reads : At(r, step)
  /\ IF Exists
     THEN DoneAs(r, [req[r] EXCEPT !.copy = row,
                                   !.todo = IF At(r, "read")
                                            THEN @ \o ProvisionPlan(FALSE) ELSE @], {}, {})
     ELSE Refused(r)
  /\ UNCHANGED <<row, db, up, lib, llm, nomad>>

Upsert(r, step, new) ==
  /\ At(r, step)
  /\ row' = new
  /\ DoneAs(r, req[r], IF step = "sync-save" THEN {"unsynced", "rebuilt"} ELSE {}, Stale(r))
  /\ UNCHANGED <<db, up, lib, llm, nomad>>

\* Mutant: an empty group is let through.
SaveAnyGroup(r) == Upsert(r, "group-save", [req[r].copy EXCEPT !.group = None])

SaveGroup(r) == Upsert(r, "group-save", [req[r].copy EXCEPT !.group = req[r].arg])

SaveGitHub(r) == Upsert(r, "github-save", [req[r].copy EXCEPT !.github = TRUE])

SaveLibrary(r) ==
  Upsert(r, "lib-save", [req[r].copy EXCEPT !.lib = req[r].lib, !.status = "ready"])

\* Mutant: a provisioning that failed leaves the status as it was.
SaveErrorUnmarked(r) == Upsert(r, "fail-save", req[r].copy)

\* A provisioning that failed is shown.
SaveError(r) == Upsert(r, "fail-save", [req[r].copy EXCEPT !.status = "error"])

SaveFlavors(r) == Upsert(r, "sync-save", [req[r].copy EXCEPT !.flavors = req[r].flavors])

--------------------------------------------------------------------------------
(* Templates, roles, capabilities.                                         *)

InTables == UNCHANGED <<row, up, lib, llm, nomad>>

\* A template changes; a request that has listed the templates is late.
Changed == {"unsynced"} \cup
           (IF \E q \in InFlight : At(q, "sync-save") THEN {"raced"} ELSE {})

SaveTemplate(r) ==
  /\ At(r, "template-save")
  /\ db' = [db EXCEPT !.templates = @ \cup {req[r].arg}]
  /\ DoneAs(r, req[r], {}, Changed)
  /\ InTables

DropTemplate(r) ==
  /\ At(r, "template-drop")
  /\ IF req[r].arg \in db.templates
     THEN /\ db' = [db EXCEPT !.templates = @ \ {req[r].arg}]
          /\ DoneAs(r, req[r], {}, Changed)
     ELSE Refused(r) /\ UNCHANGED db
  /\ InTables

\* Mutant: the flavors are those the template rows had when the request began.
ListNothing(r) ==
  /\ At(r, "sync-list")
  /\ DoneAs(r, [req[r] EXCEPT !.flavors = req[r].copy.flavors], {}, {})
  /\ UNCHANGED db /\ InTables

ListTemplates(r) ==
  /\ At(r, "sync-list")
  /\ DoneAs(r, [req[r] EXCEPT !.flavors = db.templates], {}, {})
  /\ UNCHANGED db /\ InTables

GrantRole(r) ==
  /\ At(r, "grant")
  /\ LET a == IF req[r].op = "create" THEN req[r].arg[2] ELSE req[r].arg IN
     db' = [db EXCEPT !.admins = @ \cup {a}]
  /\ Done(r)
  /\ InTables

RevokeRole(r) ==
  /\ At(r, "revoke")
  /\ db' = [db EXCEPT !.admins = @ \ {req[r].arg}]
  /\ Done(r)
  /\ InTables

\* Project users may no longer start workspaces; admins always may.
RestrictUsers(r) ==
  /\ At(r, "restrict")
  /\ db' = [db EXCEPT !.restricted = TRUE]
  /\ Done(r)
  /\ InTables

--------------------------------------------------------------------------------
(* Shared volumes: a row and a volume in Nomad.                            *)

CreateSharedVolume(r) ==
  /\ At(r, "volume")
  /\ IF "nomad-ns" \in up THEN nomad' = [nomad EXCEPT !.shared = TRUE] /\ Done(r)
                          ELSE Refused(r) /\ UNCHANGED nomad
  /\ UNCHANGED <<row, db, up, lib, llm>>

\* It has to become schedulable in time.
WaitSchedulable(r) ==
  /\ At(r, "volume-wait")
  /\ IF nomad.shared THEN Done(r) ELSE Refused(r)
  /\ UNCHANGED <<row, db, up, lib, llm, nomad>>

\* Mutant: the volume is gone before its row is written.
InsertAfterUndo(r) ==
  /\ At(r, "volume-row")
  /\ db' = [db EXCEPT !.shared = TRUE]
  /\ nomad' = [nomad EXCEPT !.shared = FALSE]
  /\ Done(r)
  /\ UNCHANGED <<row, up, lib, llm>>

InsertVolume(r) ==
  /\ At(r, "volume-row")
  /\ IF db.shared THEN Refused(r) /\ UNCHANGED db
                  ELSE Done(r) /\ db' = [db EXCEPT !.shared = TRUE]
  /\ InTables

DeleteSharedVolume(r) ==
  /\ At(r, "unvolume")
  /\ nomad' = [nomad EXCEPT !.shared = FALSE]
  /\ Done(r)
  /\ UNCHANGED <<row, db, up, lib, llm>>

DropVolumeRow(r) ==
  /\ At(r, "volume-unrow")
  /\ IF db.shared THEN Done(r) ELSE Refused(r)
  /\ db' = [db EXCEPT !.shared = FALSE]
  /\ InTables

--------------------------------------------------------------------------------
(* Deleting the project.                                                   *)

InPlanes == UNCHANGED <<row, db, llm>>

\* A shared volume goes with the project, its row does not.
Unbacked == IF db.shared \/ nomad.shared THEN {"volume-raced"} ELSE {}

PurgeJobs(r) ==
  /\ At(r, "jobs")
  /\ nomad' = [nomad EXCEPT !.job = FALSE]
  /\ Done(r)
  /\ UNCHANGED <<up, lib>> /\ InPlanes

\* A volume that is still attached is refused; the rest is swept.  The rows of
\* the shared volumes stay.
SweepVolumes(r) ==
  /\ At(r, "volumes")
  /\ nomad' = [nomad EXCEPT !.volume = IF @ = "detached" THEN "none" ELSE @,
                            !.shared = FALSE]
  /\ DoneAs(r, IF nomad.volume = "attached" THEN [req[r] EXCEPT !.failed = TRUE]
                                           ELSE [req[r] EXCEPT !.swept = TRUE],
            {}, Unbacked)
  /\ UNCHANGED <<up, lib>> /\ InPlanes

\* Nomad refuses to delete a namespace with jobs, and orphans its volumes.
DeleteNomadNamespace(r) ==
  /\ At(r, "un-nomad-ns")
  /\ IF nomad.job THEN Refused(r) /\ UNCHANGED <<up, nomad>>
     ELSE /\ up' = up \ {"nomad-ns"}
          /\ nomad' = [nomad EXCEPT !.volume = IF @ = "none" THEN @ ELSE "orphaned",
                                    !.shared = FALSE]
          /\ DoneAs(r, req[r], {}, Unbacked)
  /\ UNCHANGED lib /\ InPlanes

Removes(r, step, things) ==
  /\ At(r, step)
  /\ up' = up \ things
  /\ Done(r)
  /\ UNCHANGED nomad /\ InPlanes

DeleteBindingRules(r) == Removes(r, "un-binding", {"binding"}) /\ UNCHANGED lib

DeleteACLPolicy(r) == Removes(r, "un-nomad-policy", {"nomad-policy"}) /\ UNCHANGED lib

DeleteScope(r) == Removes(r, "un-scope", BoundaryThings) /\ lib' = None

\* What the namespace holds goes with it.
DeleteVaultNamespace(r) ==
  /\ At(r, "un-vault-ns")
  /\ up' = up \ VaultThings
  /\ llm' = [llm EXCEPT !.kv = None]
  /\ Done(r)
  /\ UNCHANGED <<row, db, lib, nomad>>

DeleteTemplates(r) ==
  /\ At(r, "templates")
  /\ db' = [db EXCEPT !.templates = {}]
  /\ Done(r)
  /\ InTables

DeleteRoles(r) ==
  /\ At(r, "roles")
  /\ db' = [db EXCEPT !.admins = {}]
  /\ Done(r)
  /\ InTables

DeleteCapabilities(r) ==
  /\ At(r, "capabilities")
  /\ db' = [db EXCEPT !.restricted = FALSE]
  /\ Done(r)
  /\ InTables

\* Mutant: the row goes although a step failed.
VerdictRegardless(r) ==
  /\ At(r, "verdict")
  /\ row' = NoRow
  /\ DoneAs(r, req[r], {}, {"deleted"})
  /\ UNCHANGED <<db, up, lib, llm, nomad>>

\* The row goes when every step was done; otherwise the row as it was read
\* comes back as an error.
Verdict(r) ==
  /\ At(r, "verdict")
  /\ IF req[r].failed
     THEN row' = [req[r].copy EXCEPT !.status = "error"]
          /\ DoneAs(r, req[r], {}, {"undone"})
     ELSE row' = NoRow /\ DoneAs(r, req[r], {}, {"deleted"})
  /\ UNCHANGED <<db, up, lib, llm, nomad>>

--------------------------------------------------------------------------------
(* Around the requests.                                                    *)

\* Users have the capability unless it is taken from them; admins keep it.
HasProjectRole(a) == a \in db.admins
GetProjectCapabilities == [launch |-> ~db.restricted]
EffectiveCapability(a) == HasProjectRole(a) \/ GetProjectCapabilities.launch

\* A user's workspace needs a provisioned project (WorkspaceLifecycle).
Launch(a) ==
  /\ Exists /\ row.lib # None
  /\ EffectiveCapability(a)
  /\ "nomad-ns" \in up
  /\ nomad.volume = "none"
  /\ nomad' = [nomad EXCEPT !.job = TRUE, !.volume = "attached"]
  /\ UNCHANGED <<row, db, up, lib, llm, req, faults, marks>>

\* The disk detaches some time after its job is gone.
Detach ==
  /\ nomad.volume = "attached" /\ ~nomad.job
  /\ nomad' = [nomad EXCEPT !.volume = "detached"]
  /\ UNCHANGED <<row, db, up, lib, llm, req, faults, marks>>

CallFails(r) ==
  /\ Fault
  /\ Fails(r, FALSE)
  /\ UNCHANGED <<row, db, up, lib, llm, nomad>>

Crash ==
  /\ InFlight # {}
  /\ Fault
  /\ req' = [r \in Requests |-> IF r \in InFlight THEN Idle("over") ELSE req[r]]
  /\ marks' = marks \cup {"torn", "volume-raced"}
  /\ UNCHANGED <<row, db, up, lib, llm, nomad>>

Start(r) ==
  \/ \E g \in Groups, a \in Subjects : CreateProject(r, g, a)
  \/ \E github \in BOOLEAN : Provision(r, github)
  \/ SetGitHubCredentials(r)
  \/ \E g \in Groups : UpdateProject(r, g)
  \/ \E f \in Flavors : CreateTemplate(r, f) \/ UpdateTemplate(r, f) \/ DeleteTemplate(r, f)
  \/ DeleteProject(r)
  \/ \E a \in Subjects : Grant(r, a) \/ Revoke(r, a)
  \/ SetCapabilities(r)
  \/ CreateVolume(r) \/ DeleteVolume(r)

Calls(r) ==
  \/ CreateVaultNamespace(r) \/ EnableJWTNomad(r) \/ MountSecretKV(r)
  \/ SeedProvisioner(r) \/ SeedWorkspaceRole(r)
  \/ CreateNomadNamespace(r) \/ UpsertACLPolicy(r) \/ CreateBindingRule(r)
  \/ CreateProjectScope(r) \/ CreateHostCatalog(r)
  \/ MountSSH(r) \/ WriteSSHCA(r) \/ WriteSSHRole(r)
  \/ MountGitHub(r) \/ WriteGitHubConfig(r) \/ WriteReadPolicies(r)
  \/ WriteCredPolicy(r) \/ CreatePeriodicToken(r) \/ CreateCredentialStore(r)
  \/ CreateSSHCertLibrary(r)
  \/ DeleteKeyByAlias(r) \/ GenerateKey(r) \/ WriteKey(r)
  \/ WriteDescriptor(r) \/ ReadDescriptor(r)
  \/ SaveGroup(r) \/ SaveGitHub(r) \/ SaveLibrary(r) \/ SaveError(r) \/ SaveFlavors(r)
  \/ SaveTemplate(r) \/ DropTemplate(r) \/ ListTemplates(r)
  \/ GrantRole(r) \/ RevokeRole(r) \/ RestrictUsers(r)
  \/ CreateSharedVolume(r) \/ WaitSchedulable(r) \/ InsertVolume(r)
  \/ DeleteSharedVolume(r) \/ DropVolumeRow(r)
  \/ PurgeJobs(r) \/ SweepVolumes(r) \/ DeleteNomadNamespace(r)
  \/ DeleteBindingRules(r) \/ DeleteACLPolicy(r) \/ DeleteScope(r)
  \/ DeleteVaultNamespace(r) \/ DeleteTemplates(r) \/ DeleteRoles(r)
  \/ DeleteCapabilities(r) \/ Verdict(r)
  \/ CallFails(r)

Next ==
  \/ \E r \in Requests : Start(r)
  \/ \E r \in InFlight : Calls(r)
  \/ \E a \in Subjects : Launch(a)
  \/ Detach
  \/ Crash

Spec == Init /\ [][Next]_vars

--------------------------------------------------------------------------------
(* Properties                                                              *)

Quiet == InFlight = {}
Calm(exceptions) == Quiet /\ marks \cap ({"raced", "torn"} \cup exceptions) = {}

Makers == Requests \cup {Founder}
Row == [status : {"ready", "error"}, group : Groups, lib : Makers \cup {None},
        github : BOOLEAN, flavors : SUBSET Flavors] \cup {NoRow}

\* Every variable keeps its type; nothing stands in Vault, Nomad or Boundary
\* without what it stands on, and a request in flight has something to do.
TypeOK ==
  /\ row \in Row
  /\ db \in [templates : SUBSET Flavors, admins : SUBSET Subjects,
             restricted : BOOLEAN, shared : BOOLEAN]
  /\ up \subseteq VaultThings \cup BoundaryThings \cup NomadThings
  /\ up \cap VaultThings # {} => "vault-ns" \in up
  /\ up \cap BoundaryThings # {} => "scope" \in up
  /\ lib \in Makers \cup {None}
  /\ lib # None => "cred-store" \in up
  /\ llm \in [key : Makers \cup {None}, kv : Makers \cup {None}]
  /\ llm.kv # None => "secret-kv" \in up
  /\ nomad \in [job : BOOLEAN, volume : {"none", "attached", "detached", "orphaned"},
                shared : BOOLEAN]
  /\ \A r \in Requests :
       /\ req[r].op \in Over <=> req[r].todo = << >>
       /\ req[r].copy \in Row /\ req[r].lib \in Makers \cup {None}
       /\ req[r].flavors \subseteq Flavors
  /\ faults \in 0 .. MaxFaults
  /\ marks \subseteq {"raced", "torn", "unsynced", "rebuilt", "deleted", "key-left",
                      "undone", "volume-raced"}

\* The flavors users may launch are the project's templates, whatever else was
\* changed in the descriptor meanwhile: only a write of what was read before
\* another write, a re-created project, a sync that failed or a failed delete
\* that is provisioned over parts them.
\* (syncDescriptorFlavors, and every writer of the descriptor)
FlavorsFollowTemplates ==
  Exists /\ row.status = "ready" /\ Calm({"unsynced", "rebuilt", "undone"})
    => row.flavors = db.templates

\* A project that is shown as ready with a credential library has everything a
\* workspace needs: the shell, the engines, the library its row names, and in
\* its KV the key the LLM gateway knows; also when it was provisioned again and
\* failed half way, as long as the error is recorded.  Excepted are a crash and
\* a failed read or write of the error, provisionings, creations and deletes
\* that overlap, and a descriptor written back over a newer one; and a project
\* that a failed delete has left in part and a provisioning, which makes only
\* the engines, shows as ready again.  (provision, failf, DeleteProject)
ReadyMeansProvisioned ==
  row.status = "ready" /\ row.lib # None /\ Calm({"undone"}) =>
    /\ Shell \cup Engines \subseteq up
    /\ row.lib = lib
    /\ llm.key # None /\ llm.key = llm.kv

\* The row of a deleted project goes last: after it the project has no namespace,
\* mount, policy, scope or running job, no key in Vault, and no template, role or
\* capability; deletes that failed have left the row for another try.  Its home
\* volumes may be left as orphans, the rows of its shared volumes stay, and the
\* gateway keeps a key whose deletion failed.  Excepted are operations that
\* overlap, and a crash.  (DeleteProject)
DeleteIsComplete ==
  "deleted" \in marks /\ Calm({}) =>
    /\ row = NoRow
    /\ up = {} /\ lib = None
    /\ llm.kv = None /\ (llm.key = None \/ "key-left" \in marks)
    /\ ~nomad.job /\ nomad.volume \in {"none", "orphaned"}
    /\ db.templates = {} /\ db.admins = {} /\ ~db.restricted

\* A namespace is not deleted over a volume, which would orphan the data in it,
\* except by a delete that has tried to sweep the volumes and failed, or that
\* overlapped another: a workspace started after the sweep of the one is purged
\* by the other.  (DeleteProject)
NoVolumeOrphaned == [][
  nomad'.volume = "orphaned" /\ nomad.volume # "orphaned" =>
    \/ \E r \in InFlight : req[r].op = "delete" /\ req[r].failed /\ ~req[r].swept
    \/ "raced" \in marks']_vars

\* A shared volume that users can choose exists, and one that exists can be
\* seen and deleted, except after overlapping operations on it, a call that
\* failed between its two halves, a crash, or the delete of its project.
\* (sharedvolume Create, Delete)
SharedVolumeBacked == Calm({"volume-raced"}) => db.shared = nomad.shared

--------------------------------------------------------------------------------
(* What the comments of the code claim, and its runs do not keep.          *)

\* A namespace is never deleted over the home volumes in it. (projectbootstrap,
\* DeleteProject: "Sweep dynamic host volumes (workspace homes) BEFORE the
\* namespace")
HomesAreSwept == [][nomad'.volume = "orphaned" => nomad.volume = "orphaned"]_vars

\* The last admin of a project is only taken by its delete. (projectrole, Revoke:
\* "it refuses a revoke that would leave the project with zero project-admins")
LastAdminStays == [][
  db.admins # {} /\ db'.admins = {} => \E r \in InFlight : At(r, "roles")]_vars

\* A sync of the flavors changes nothing else in the descriptor.
\* (projecttemplate, syncDescriptorFlavors: "preserving every other descriptor
\* field")
SyncPreservesRest == [][
  \A r \in Requests : At(r, "sync-save") /\ Exists /\ row' # row
    => row' = [row EXCEPT !.flavors = row'.flavors]]_vars

\* What a failed creation of a shared volume clears away is its own volume, not
\* one that has a row. (sharedvolume, Create: "If the row write fails after the
\* volume is created, the volume is best-effort removed so a failed create leaves
\* nothing orphaned")
FailedCreateClearsItsOwn == [][
  \A r \in Requests : req[r].op = "volume-create" /\ At(r, "unvolume") /\ db.shared
    => nomad'.shared = nomad.shared]_vars
=============================================================================
