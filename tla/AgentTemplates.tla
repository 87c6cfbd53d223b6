----------------------------- MODULE AgentTemplates -----------------------------
(***************************************************************************)
(* One agent template of a project                                         *)
(* (portal/backend/internal/agents/service.go): an administrator saves it, *)
(* deploys a test job with a virtual server and token per MCP server and   *)
(* an LLM key, tests, publishes and deletes it, and users start instances  *)
(* of it once it is published.                                             *)
(*                                                                         *)
(* An operation reads the template's row, makes remote calls under names   *)
(* derived from the template, and writes the whole row back.  Each request *)
(* is one operation; requests overlap.  What a deployment makes is marked  *)
(* with its request.                                                       *)
(***************************************************************************)
EXTENDS Naturals, FiniteSets

CONSTANTS
  Requests,
  Servers,       \* the MCP servers the template selects
  None,
  MaxInFlight,   \* bound: requests at work at the same time
  MaxFaults      \* bound: failed calls and crashes

ASSUME TemplatesAssumption ==
  /\ None \notin Requests
  /\ {MaxInFlight, MaxFaults} \subseteq Nat

VARIABLES
  row,           \* the stored template
  job,           \* Nomad: whose test job runs, and of which saved version
  key, kv,       \* LLM gateway: whose key has the alias; Vault: whose key is stored
  vs, tok, mkv,  \* per server: virtual server, tokens and stored token
  pc, copy,      \* each request: its next step, and the row it read
  wire,          \* servers it has wired
  inst,          \* a user's instance: "none", "starting" or "running"
  faults,        \* bound
  \* history
  raced,         \* since the last deployment that ran alone: did an operation
                 \* overwrite or undo another?
  spoiled,       \* did an operation fail half way since the last deployment?
  leaked         \* failed deployments that could not undo what they made

llmVars  == <<key, kv>>
mcpVars  == <<vs, tok, mkv>>
history  == <<raced, spoiled, leaked>>

vars == <<row, job, llmVars, mcpVars, pc, copy, wire, inst, faults, history>>

NoJob == [by |-> None, ver |-> None]
Unwired == [s \in Servers |-> None]
NoRow == [status |-> "none", ver |-> None, job |-> FALSE, keyed |-> FALSE,
          wiring |-> Unwired]

Init ==
  /\ row = NoRow
  /\ job = NoJob
  /\ key = None /\ kv = None
  /\ vs = Unwired /\ mkv = Unwired
  /\ tok = [s \in Servers |-> {}]
  /\ pc = [r \in Requests |-> "new"]
  /\ copy = [r \in Requests |-> NoRow]
  /\ wire = [r \in Requests |-> {}]
  /\ inst = "none"
  /\ faults = 0
  /\ raced = FALSE /\ spoiled = FALSE /\ leaked = {}

Ended    == {"new", "done", "failed", "crashed"}
Wiring   == {"vs", "revoke", "token", "mcpkv"}
Building == {"dropkey", "genkey", "kv", "register"}
Undoing  == {"unjob", "unwire", "unkey", "unkv", "unwireonly"}
Deleting == {"delpurge", "delwire", "delkey", "delkv", "deldrop"}
Publishing == {"pubpurge", "publish"}
RowWrites == {"save", "testpass", "testsave", "publish", "deldrop"}
Deploying == {"purge"} \cup Wiring \cup Building \cup {"persist"} \cup Undoing

Owning == Deploying \cup Deleting \cup Publishing

InFlight == {r \in Requests : pc[r] \notin Ended}
At(steps) == {r \in Requests : pc[r] \in steps}

Fault == faults < MaxFaults /\ faults' = faults + 1

\* Request r goes on; once it has ended, what it read and wired is forgotten.
GoOn(r, next, wired) ==
  /\ pc' = [pc EXCEPT ![r] = next]
  /\ copy' = [copy EXCEPT ![r] = IF next \in Ended THEN NoRow ELSE @]
  /\ wire' = [wire EXCEPT ![r] = IF next \in Ended THEN {} ELSE wired]

Goto(r, next) == GoOn(r, next, wire[r])

\* Request r has done the call of `step`.
Step(r, step, next) == pc[r] = step /\ Goto(r, next)

\* The row is written back as `new`; by then it may not be the one r read.
Upsert(r, new) ==
  /\ row' = new
  /\ raced' = (raced \/ row # copy[r])

--------------------------------------------------------------------------------
(* The requests begin by reading the row.                                  *)

Begin(r, step) ==
  /\ pc[r] = "new"
  /\ Cardinality(InFlight) < MaxInFlight
  /\ pc' = [pc EXCEPT ![r] = step]
  /\ copy' = [copy EXCEPT ![r] = row]
  /\ UNCHANGED <<row, job, llmVars, mcpVars, wire, inst, spoiled, leaked>>

\* Only a delete depends on more than the row.
Start(r, step) == Begin(r, step) /\ UNCHANGED faults

\* History: these work on what the template owns outside its row.
Exclusive == raced' = (raced \/ At(Owning) # {})

Save(r) == Start(r, "save") /\ UNCHANGED raced

DeployTest(r) ==
  /\ row.status # "none"
  /\ Start(r, "purge")
  /\ raced' = ((raced /\ InFlight # {}) \/ At(Owning) # {})

Test(r) == row.job /\ Start(r, "probe") /\ UNCHANGED raced

Publish(r) == row.status = "tested" /\ Start(r, "pubpurge") /\ Exclusive

\* The test job answers no more: its new address goes into the row.
ChatTest(r) == row.job /\ Start(r, "chatsave") /\ UNCHANGED raced

DeleteTemplate(r) ==
  row.status # "none" /\ inst # "running" /\ Start(r, "delpurge") /\ Exclusive

\* An error of the count is ignored.
CountFails(r) ==
  /\ row.status # "none"
  /\ Fault
  /\ Begin(r, "delpurge")
  /\ Exclusive

--------------------------------------------------------------------------------
(* Save, Test, Publish, ChatTest                                           *)

RowOnly == UNCHANGED <<llmVars, mcpVars, inst, faults, spoiled, leaked>>

\* Mutant: a saved change leaves the status as it was.
SaveKeepingStatus(r) ==
  /\ Step(r, "save", "done")
  /\ Upsert(r, [row EXCEPT !.ver = r,
                           !.status = IF @ = "none" THEN "draft" ELSE @])
  /\ RowOnly /\ UNCHANGED job

\* Mutant: a saved draft forgets the wiring but not the key.
SaveKeepingKey(r) ==
  /\ Step(r, "save", "done")
  /\ Upsert(r, [NoRow EXCEPT !.status = "draft", !.ver = r, !.keyed = row.keyed])
  /\ RowOnly /\ UNCHANGED job

\* A fresh draft: the job, key and wiring of the old row are not in it.
SaveRow(r) ==
  /\ Step(r, "save", "done")
  /\ Upsert(r, [NoRow EXCEPT !.status = "draft", !.ver = r])
  /\ RowOnly /\ UNCHANGED job

\* Probe /healthz of whatever runs under the job's name.
Probe(r) ==
  /\ \/ job # NoJob /\ copy[r].status # "published" /\ Step(r, "probe", "testpass")
     \/ Step(r, "probe", "testsave")
  /\ RowOnly /\ UNCHANGED <<row, job, raced>>

SaveTest(r) ==
  /\ \/ Step(r, "testpass", "done") /\ Upsert(r, [copy[r] EXCEPT !.status = "tested"])
     \/ Step(r, "testsave", "done") /\ Upsert(r, copy[r])
  /\ RowOnly /\ UNCHANGED job

PublishPurge(r) ==
  /\ Step(r, "pubpurge", "publish")
  /\ job' = IF copy[r].job THEN NoJob ELSE job
  /\ RowOnly /\ UNCHANGED <<row, raced>>

PublishRow(r) ==
  /\ Step(r, "publish", "done")
  /\ Upsert(r, [copy[r] EXCEPT !.status = "published", !.job = FALSE])
  /\ RowOnly /\ UNCHANGED job

ChatSave(r) ==
  /\ Step(r, "chatsave", "done")
  /\ Upsert(r, copy[r])
  /\ RowOnly /\ UNCHANGED job

--------------------------------------------------------------------------------
(* DeployTest                                                              *)

\* What no call of a deployment but the last touches.
Apart == UNCHANGED <<row, inst, raced>>

ToWire(r) == Servers \ wire[r]
NextWire(r, wired) == IF wired = Servers THEN "dropkey" ELSE "vs"

PurgeOld(r) ==
  /\ Step(r, "purge", NextWire(r, {}))
  /\ job' = IF copy[r].job THEN NoJob ELSE job
  /\ Apart /\ UNCHANGED <<llmVars, mcpVars, faults, spoiled, leaked>>

\* The prior job is gone, but the agents' Vault access cannot be set up.
AccessFails(r) ==
  /\ Fault
  /\ Step(r, "purge", "failed")
  /\ job' = IF copy[r].job THEN NoJob ELSE job
  /\ spoiled' = TRUE
  /\ Apart /\ UNCHANGED <<llmVars, mcpVars, leaked>>

\* Mutant: a job that could not be placed or recorded is left.
UndoKeepingJob(step) ==
  IF step \in Wiring THEN "unwireonly" ELSE "unwire"

\* Where the clean-up begins, by the call that failed.
Undo(step) ==
  CASE step \in Wiring -> "unwireonly"
    [] step \in Building -> "unwire"
    [] OTHER -> "unjob"

\* A call that makes something has its effect; when its reply is lost, the
\* deployment takes it for a failure.
Call(r, step, next, wired) ==
  /\ pc[r] = step
  /\ \/ GoOn(r, next, wired) /\ UNCHANGED <<faults, spoiled, leaked>>
     \/ /\ Fault
        /\ Goto(r, Undo(step))
        /\ spoiled' = TRUE
        /\ leaked' = IF step \in Wiring \cup {"register"} THEN leaked \cup {r} ELSE leaked

\* The servers are wired one after the other; the current one's old virtual
\* server of the same name is replaced, ...
Current(r) == CHOOSE s \in ToWire(r) : TRUE

CreateVirtualServer(r) ==
  /\ Call(r, "vs", "revoke", wire[r])
  /\ vs' = [vs EXCEPT ![Current(r)] = r]
  /\ Apart /\ UNCHANGED <<job, llmVars, tok, mkv>>

\* ... the tokens of earlier deployments revoked by their common prefix, ...
RevokeTokens(r) ==
  /\ Step(r, "revoke", "token")
  /\ tok' = [tok EXCEPT ![Current(r)] = {}]
  /\ Apart /\ UNCHANGED <<job, llmVars, vs, mkv, faults, spoiled, leaked>>

\* Mutant: the revocation by prefix comes after the new token.
CreateThenRevoke(r) ==
  /\ Call(r, "token", "mcpkv", wire[r])
  /\ tok' = [tok EXCEPT ![Current(r)] = {}]
  /\ Apart /\ UNCHANGED <<job, llmVars, vs, mkv>>

CreateToken(r) ==
  /\ Call(r, "token", "mcpkv", wire[r])
  /\ tok' = [tok EXCEPT ![Current(r)] = @ \cup {r}]
  /\ Apart /\ UNCHANGED <<job, llmVars, vs, mkv>>

\* ... and only a server that is through counts as wired.
WriteToken(r) ==
  LET wired == wire[r] \cup {Current(r)} IN
    /\ Call(r, "mcpkv", NextWire(r, wired), wired)
    /\ mkv' = [mkv EXCEPT ![Current(r)] = r]
    /\ Apart /\ UNCHANGED <<job, llmVars, vs, tok>>

DropKey(r) ==
  /\ Step(r, "dropkey", "genkey")
  /\ key' = None
  /\ Apart /\ UNCHANGED <<job, kv, mcpVars, faults, spoiled, leaked>>

\* Aliases are unique at the LLM gateway.
GenerateKey(r) ==
  /\ key = None
  /\ Call(r, "genkey", "kv", wire[r])
  /\ key' = r
  /\ Apart /\ UNCHANGED <<job, kv, mcpVars>>

WriteKey(r) ==
  /\ Call(r, "kv", "register", wire[r])
  /\ kv' = r
  /\ Apart /\ UNCHANGED <<job, key, mcpVars>>

RegisterTestJob(r) ==
  /\ Call(r, "register", "persist", wire[r])
  /\ job' = [by |-> r, ver |-> copy[r].ver]
  /\ Apart /\ UNCHANGED <<llmVars, mcpVars>>

\* The placement found, the deployment is written into the row it has read.
Persist(r) ==
  /\ Step(r, "persist", "done")
  /\ Upsert(r, [status |-> "draft", ver |-> copy[r].ver, job |-> TRUE,
                keyed |-> TRUE,
                wiring |-> [s \in Servers |-> r]])
  /\ spoiled' = FALSE
  /\ UNCHANGED <<job, llmVars, mcpVars, inst, faults, leaked>>

--------------------------------------------------------------------------------
(* A call of a deployment fails: it undoes what it has made.               *)

\* A failure inside a server's wiring leaves that server's part; the old
\* virtual server goes before the new one is made.
DeployFails(r) ==
  /\ pc[r] \in Wiring \cup (Building \ {"dropkey"}) \cup {"persist"}
  /\ \/ Fault
     \/ pc[r] = "genkey" /\ key # None /\ UNCHANGED faults
  /\ Goto(r, Undo(pc[r]))
  /\ spoiled' = TRUE
  /\ leaked' = IF pc[r] \in Wiring \ {"vs"} THEN leaked \cup {r} ELSE leaked
  /\ \/ UNCHANGED vs
     \/ pc[r] = "vs" /\ vs' = [vs EXCEPT ![Current(r)] = None]
  /\ Apart /\ UNCHANGED <<job, llmVars, tok, mkv>>

UndoJob(r) ==
  /\ Step(r, "unjob", "unwire")
  /\ job' = NoJob
  /\ Apart /\ UNCHANGED <<llmVars, mcpVars, faults, spoiled, leaked>>

\* Virtual servers and tokens go by their ids, stored tokens by their path.
Teardown(wiring) ==
  LET mine == {s \in Servers : wiring[s] # None} IN
    /\ vs' = [s \in Servers |->
                IF s \in mine /\ vs[s] = wiring[s] THEN None ELSE vs[s]]
    /\ tok' = [s \in Servers |-> tok[s] \ {wiring[s]}]
    /\ mkv' = [s \in Servers |-> IF s \in mine THEN None ELSE mkv[s]]

UndoWiring(r) ==
  /\ Step(r, "unwire", "unkey") \/ Step(r, "unwireonly", "failed")
  /\ Teardown([s \in Servers |-> IF s \in wire[r] THEN r ELSE None])
  /\ Apart /\ UNCHANGED <<job, llmVars, faults, spoiled, leaked>>

UndoKey(r) ==
  /\ Step(r, "unkey", "unkv")
  /\ key' = None
  /\ Apart /\ UNCHANGED <<job, kv, mcpVars, faults, spoiled, leaked>>

UndoKV(r) ==
  /\ Step(r, "unkv", "failed")
  /\ kv' = None
  /\ Apart /\ UNCHANGED <<job, key, mcpVars, faults, spoiled, leaked>>

--------------------------------------------------------------------------------
(* DeleteTemplate: what the row it read names, then the row.               *)

DeleteApart == UNCHANGED <<inst, faults, spoiled, leaked>>

DeletePurge(r) ==
  /\ Step(r, "delpurge", "delwire")
  /\ job' = IF copy[r].job THEN NoJob ELSE job
  /\ DeleteApart /\ UNCHANGED <<row, llmVars, mcpVars, raced>>

DeleteWiring(r) ==
  /\ Step(r, "delwire", "delkey")
  /\ Teardown(copy[r].wiring)
  /\ DeleteApart /\ UNCHANGED <<row, job, llmVars, raced>>

DeleteKey(r) ==
  /\ Step(r, "delkey", "delkv")
  /\ key' = IF copy[r].keyed THEN None ELSE key
  /\ DeleteApart /\ UNCHANGED <<row, job, kv, mcpVars, raced>>

DeleteKV(r) ==
  /\ Step(r, "delkv", "deldrop")
  /\ kv' = None
  /\ DeleteApart /\ UNCHANGED <<row, job, key, mcpVars, raced>>

DeleteRow(r) ==
  /\ Step(r, "deldrop", "done")
  /\ Upsert(r, NoRow)
  /\ DeleteApart /\ UNCHANGED <<job, llmVars, mcpVars>>

--------------------------------------------------------------------------------
(* A user's instance (see AgentInstances), and crashes of the portal       *)

InstanceApart == UNCHANGED <<row, job, llmVars, mcpVars, pc, copy, wire, faults,
                             raced, spoiled, leaked>>

EnsureInstance ==
  /\ inst = "none" /\ row.status = "published"
  /\ inst' = "starting"
  /\ InstanceApart

InstanceSaved ==
  /\ inst = "starting"
  /\ inst' = "running"
  /\ InstanceApart

InstanceGone ==
  /\ inst # "none"
  /\ inst' = "none"
  /\ InstanceApart

\* The portal's database refuses the write of a row.
WriteFails(r) ==
  /\ Fault
  /\ pc[r] \in RowWrites
  /\ Goto(r, "failed")
  /\ spoiled' = (spoiled \/ pc[r] \in Owning)
  /\ UNCHANGED <<row, job, llmVars, mcpVars, inst, raced, leaked>>

\* A call whose error the code ignores fails: the request goes on.
AfterLost ==
  [purge |-> IF Servers = {} THEN "dropkey" ELSE "vs", dropkey |-> "genkey",
   unjob |-> "unwire", unwire |-> "unkey", unkey |-> "unkv", unkv |-> "failed",
   unwireonly |-> "failed", pubpurge |-> "publish", delpurge |-> "delwire",
   delwire |-> "delkey", delkey |-> "delkv", delkv |-> "deldrop"]

CallLost(r) ==
  /\ Fault
  /\ pc[r] \in DOMAIN AfterLost
  /\ Goto(r, AfterLost[pc[r]])
  /\ leaked' = IF pc[r] \in Undoing THEN leaked \cup {r} ELSE leaked
  /\ UNCHANGED <<row, job, llmVars, mcpVars, inst, raced, spoiled>>

Crash ==
  /\ Fault
  /\ InFlight # {}
  /\ pc' = [r \in Requests |-> IF r \in InFlight THEN "crashed" ELSE pc[r]]
  /\ copy' = [r \in Requests |-> NoRow] /\ wire' = [r \in Requests |-> {}]
  /\ inst' = IF inst = "starting" THEN "none" ELSE inst
  /\ spoiled' = (spoiled \/ At(Owning) # {})
  /\ UNCHANGED <<row, job, llmVars, mcpVars, raced, leaked>>

Deploy(r) ==
  \/ DeployTest(r) \/ PurgeOld(r) \/ AccessFails(r)
  \/ CreateVirtualServer(r) \/ RevokeTokens(r) \/ CreateToken(r) \/ WriteToken(r)
  \/ DropKey(r) \/ GenerateKey(r) \/ WriteKey(r)
  \/ RegisterTestJob(r) \/ Persist(r)
  \/ DeployFails(r) \/ UndoJob(r) \/ UndoWiring(r) \/ UndoKey(r) \/ UndoKV(r)

Delete(r) ==
  \/ DeleteTemplate(r) \/ CountFails(r) \/ DeletePurge(r) \/ DeleteWiring(r)
  \/ DeleteKey(r) \/ DeleteKV(r) \/ DeleteRow(r)

Next ==
  \/ \E r \in Requests :
       \/ Save(r) \/ SaveRow(r)
       \/ Deploy(r)
       \/ Test(r) \/ Probe(r) \/ SaveTest(r)
       \/ Publish(r) \/ PublishPurge(r) \/ PublishRow(r)
       \/ ChatTest(r) \/ ChatSave(r)
       \/ Delete(r)
       \/ WriteFails(r) \/ CallLost(r)
  \/ EnsureInstance \/ InstanceSaved \/ InstanceGone
  \/ Crash

Spec == Init /\ [][Next]_vars

--------------------------------------------------------------------------------

\* Type correctness: in particular the row's wiring is complete (one virtual
\* server and token per selected server) exactly when it names an LLM key.
TypeOK ==
  LET Made == Requests \cup {None} IN
    /\ row \in [status : {"none", "draft", "tested", "published"}, ver : Made,
               job : BOOLEAN, keyed : BOOLEAN, wiring : [Servers -> Made]]
    /\ \A s \in Servers : row.keyed <=> row.wiring[s] # None
    /\ job \in [by : Made, ver : Made]
    /\ key \in Made /\ kv \in Made
    /\ vs \in [Servers -> Made] /\ mkv \in [Servers -> Made]
    /\ tok \in [Servers -> SUBSET Requests]
    /\ pc \in [Requests -> Ended \cup Owning \cup RowWrites \cup {"probe", "chatsave"}]
    /\ copy \in [Requests -> [status : {"none", "draft", "tested", "published"},
                             ver : Made, job : BOOLEAN, keyed : BOOLEAN,
                             wiring : [Servers -> Made]]]
    /\ wire \in [Requests -> SUBSET Servers]
    /\ inst \in {"none", "starting", "running"}
    /\ faults \in 0..MaxFaults
    /\ {raced, spoiled} \subseteq BOOLEAN
    /\ leaked \subseteq Requests

\* Nobody is at work on what the template owns, nobody was while another was,
\* and nobody gave up half way.
Settled == At(Owning) = {} /\ ~raced /\ ~spoiled

\* All the credentials are of one deployment, and live: the gateway's key is
\* the one stored in Vault, and each server's stored token opens the virtual
\* server there is.
OneDeployment ==
  /\ key # None /\ kv = key
  /\ \A s \in Servers : vs[s] = key /\ mkv[s] = key /\ key \in tok[s]

\* The job of a template that shows as tested is of the saved configuration and
\* has live credentials of one deployment (Test), whatever deployments, tests,
\* publications and deletes came before.  Only while Settled: after an operation
\* wrote back a row that another had changed, or worked on the template beside
\* another, nothing is claimed until a deployment that ran alone (TestedIsCurrent
\* is then false), and after one that gave up half way until the next deployment.
TestedReflectsJob ==
  Settled /\ row.status = "tested" =>
    /\ row.job /\ job.ver = row.ver
    /\ job.by = key /\ OneDeployment

\* A published template's instances find the LLM key, the scoped tokens and
\* the stored secrets that the deployment they were tested with left (Publish
\* retires only the job).  Only while Settled: a deployment of the published
\* template that fails takes the credentials of its instances with it.
PublishedHasCredentials ==
  Settled /\ row.status = "published" =>
    OneDeployment /\ \A s \in Servers : row.wiring[s] = key

\* A deployment that fails leaves nothing it made (DeployTest), whatever else
\* is at work, but for those in `leaked`: a call of the clean-up failed, the
\* registration of the job lost its reply, or the failure was inside the wiring
\* of one server (FailureOrphansNothing is then false).
FailedDeployCleans ==
  \A r \in Requests \ leaked :
    pc[r] = "failed" =>
      /\ r \notin {job.by, key, kv}
      /\ \A s \in Servers : r \notin {vs[s], mkv[s]} \cup tok[s]

\* Claimed: a delete is "blocked while any project-user still has an instance"
\* (lines 458-459 of agents/service.go).
DeleteIsBlocked ==
  [][row.status # "none" /\ row'.status = "none" => inst # "running"]_vars

\* Claimed: "tested always reflects the currently-deployed job" (lines 360-361),
\* here while nobody is at work and of the configuration alone.
TestedIsCurrent ==
  InFlight = {} /\ row.status = "tested" => job.ver = row.ver

\* Claimed: a failed deployment is torn down "so a project never accrues orphaned
\* wiring" (lines 238-240), here of those whose clean-up calls all succeed.
FailureOrphansNothing ==
  \A r \in Requests :
    pc[r] = "failed" => \A s \in Servers : r \notin {vs[s], mkv[s]} \cup tok[s]

\* Claimed: "DeleteTemplate purges the admin test job, tears down the gateway
\* wiring + test LiteLLM key + KV, and drops the row".
DeleteLeavesNothing ==
  Settled /\ row = NoRow /\ faults = 0 =>
    /\ job = NoJob /\ key = None /\ kv = None
    /\ \A s \in Servers : vs[s] = None /\ tok[s] = {} /\ mkv[s] = None

=============================================================================
