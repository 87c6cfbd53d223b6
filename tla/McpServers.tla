------------------------------- MODULE McpServers -------------------------------
(***************************************************************************)
(* The MCP servers of one project                                          *)
(* (portal/backend/internal/projectadmin/service.go): a project admin      *)
(* deploys a server with a credential, updates its definition, tests it,   *)
(* references it from a workspace template and deletes it.                 *)
(*                                                                         *)
(* Each request is one operation.  It reads the server's row, then makes   *)
(* the remote calls of its plan, `todo`, one after the other: to Vault     *)
(* (blueprint/executor.go, vaultadmin.go), to Nomad, to the MCP gateway    *)
(* (mcpgw/mcpgw.go) and to the portal's database.  A call may fail, or     *)
(* take effect and lose its reply; the plan then becomes what the code     *)
(* does about it.  What a request makes is marked with the request.        *)
(***************************************************************************)
EXTENDS Naturals, FiniteSets, Sequences

CONSTANTS
  Requests,
  Founder,       \* who deployed, tested and wired what is there at first
  Servers,       \* the names of the project's MCP servers
  Mounts,        \* where a dynamic credential mounts its secrets engine
  Spellings,     \* how a mount is written: with and without a slash at its end
  Sources,       \* the other credentials: "static", "wif-token", "none"
  Definitions,   \* container definitions
  None,
  MaxInFlight,   \* bound: requests at work at the same time
  MaxFaults      \* bound: failed calls, crashes, and jobs Nomad moves

ASSUME ServersAssumption ==
  /\ Sources \subseteq {"static", "wif-token", "none"}
  /\ Founder \notin Requests
  /\ None \notin Requests \cup {Founder} \cup Mounts \cup Sources \cup Definitions
  /\ Mounts \cap (Servers \cup {"static", "wif-token", "none"}) = {}
  /\ {MaxInFlight, MaxFaults} \subseteq Nat

VARIABLES
  row,           \* database: the stored servers
  addons,        \* database: the servers some workspace template references
  job,           \* Nomad: each server's job and the address it has now
  vault,         \* Vault: engines, leases, what each server has, wiring tokens
  gw,            \* gateway: peers, virtual servers, tokens, probes
  req,           \* the requests
  faults,        \* bound
  \* history
  raced,         \* servers and engines whose requests disturbed each other, and
                 \* engines two rows spell in different ways
  torn,          \* servers with a failure nothing makes good
  unwired,       \* servers whose last wiring failed
  strayed,       \* servers whose peer may have an address that died
  doomed         \* servers with a delete that has not finished

history == <<raced, torn, unwired, strayed, doomed>>
vars == <<row, addons, job, vault, gw, req, faults, history>>

Credentials == Mounts \cup Sources

NoRow  == [cred |-> None, spelt |-> None, def |-> None, addr |-> None, peer |-> None]
NoJob  == [def |-> None, addr |-> None]
NoPeer == [id |-> None, addr |-> None, active |-> FALSE]
NoVS   == [id |-> None, peer |-> None]
NoProbe == [test |-> None, decoy |-> None, tokens |-> {}]
Idle(op) == [op |-> op, s |-> None, seen |-> NoRow, row |-> NoRow, todo |-> << >>]

PerServer(x) == [s \in Servers |-> x]

\* The row stores a mount as it was written; the engine is the trimmed path.
Spelling(c) == IF c \in Mounts THEN Spellings ELSE {None}

Holds(c) ==
  CASE c = "static" -> {"secret", "policy", "role"}
    [] c = "none"   -> {}
    [] OTHER        -> {"policy", "role"}

\* One server may be there: deployed, then tested, then wired.
Founded(s, c, d, stage) ==
  LET tested == stage # "deployed"
      wired == stage = "wired"
      addr == <<Founder, 0>>
      Only(x, y) == [PerServer(y) EXCEPT ![s] = x]
  IN
  /\ \E w \in Spelling(c) :
       row = Only([cred |-> c, spelt |-> w, def |-> d, addr |-> addr,
                   peer |-> IF tested THEN Founder ELSE None], NoRow)
  /\ addons = IF wired THEN {s} ELSE {}
  /\ job = Only([def |-> d, addr |-> addr], NoJob)
  /\ vault = [engine |-> [m \in Mounts |-> IF m = c THEN "configured" ELSE "absent"],
              leases |-> {},
              has |-> Only(Holds(c), {}),
              kv |-> Only(IF wired THEN Founder ELSE None, None)]
  /\ gw = [peer |-> Only(IF tested THEN [id |-> Founder, addr |-> addr, active |-> TRUE]
                           ELSE NoPeer, NoPeer),
           vs |-> Only(IF wired THEN [id |-> Founder, peer |-> Founder] ELSE NoVS, NoVS),
           tokens |-> Only(IF wired THEN {Founder} ELSE {}, {}),
           probe |-> PerServer(NoProbe)]

Empty ==
  /\ row = PerServer(NoRow)
  /\ addons = {}
  /\ job = PerServer(NoJob)
  /\ vault = [engine |-> [m \in Mounts |-> "absent"], leases |-> {},
              has |-> PerServer({}), kv |-> PerServer(None)]
  /\ gw = [peer |-> PerServer(NoPeer), vs |-> PerServer(NoVS),
           tokens |-> PerServer({}), probe |-> PerServer(NoProbe)]

Init ==
  /\ \/ Empty
     \/ \E s \in Servers, c \in Credentials, d \in Definitions :
          \E stage \in {"deployed", "tested", "wired"} : Founded(s, c, d, stage)
  /\ req = [r \in Requests |-> Idle("new")]
  /\ faults = 0
  /\ raced = {} /\ torn = {} /\ unwired = {} /\ strayed = {} /\ doomed = {}

--------------------------------------------------------------------------------
(* The plans.                                                              *)

\* What the source of a credential needs in Vault, in the order it is made.
Instantiate(c) ==
  CASE c \in Mounts      -> <<"mount", "configure", "policy", "role">>
    [] c = "static"      -> <<"secret", "policy", "role">>
    [] c = "wif-token"   -> <<"policy", "role">>
    [] OTHER             -> << >>

\* Mutant: the engine goes before its leases are revoked.
DeprovisionUnmountFirst(c) ==
  CASE c \in Mounts      -> <<"unmount", "revoke", "unpolicy", "unrole">>
    [] c = "static"      -> <<"unpolicy", "unrole", "unsecret">>
    [] c = "wif-token"   -> <<"unpolicy", "unrole">>
    [] OTHER             -> << >>

\* Its teardown: leases first, engines last.
Deprovision(c) ==
  CASE c \in Mounts      -> <<"revoke", "unpolicy", "unrole", "unmount">>
    [] c = "static"      -> <<"unpolicy", "unrole", "unsecret">>
    [] c = "wif-token"   -> <<"unpolicy", "unrole">>
    [] OTHER             -> << >>

Deprovisioning == {"revoke", "unpolicy", "unrole", "unsecret", "unmount"}

Wire == <<"read", "wirepeer", "tools", "unvs", "vs", "untokens", "token", "kv">>

Wiring == {"referenced", "read", "wirepeer", "tools", "unvs", "vs", "untokens",
           "token", "kv"}

Redo == <<"register", "place">>

DeployPlan(c) ==
  (IF c \in Mounts THEN <<"collide">> ELSE << >>)
    \o Instantiate(c) \o Redo \o <<"save", "referenced">>

\* The peer of a row that names none is looked up, or made.
UpdatePlan(old, def) ==
  (IF old.cred = "none" THEN << >> ELSE <<"grants">>)
    \o (IF old.def = def THEN << >>
        ELSE Redo \o (IF old.peer = None THEN <<"peer">> ELSE << >>)
                  \o <<"repoint", "activate">>)
    \o <<"save">>

ProbeCleanup == <<"unprobetoken", "undecoy", "untest">>

TestPlan == <<"place", "peer", "repoint", "activate", "tools", "testvs", "decoy",
              "probetoken", "probe", "save">> \o ProbeCleanup

DeletePlan(old) ==
  <<"purge">> \o (IF old.peer = None THEN << >> ELSE <<"unpeer">>)
    \o <<"unvs", "untokens">> \o Deprovision(old.cred) \o <<"unrow">>

--------------------------------------------------------------------------------
(* The steps of a request.                                                 *)

Over == {"new", "over"}
InFlight == {r \in Requests : req[r].op \notin Over}
On(s) == {r \in InFlight : req[r].s = s}

At(r, step) == req[r].todo # << >> /\ Head(req[r].todo) = step
Server(r) == req[r].s
Mount(r) == req[r].row.cred

Fault == faults < MaxFaults /\ faults' = faults + 1

\* Request r becomes `new`; one with nothing left to do is over.
Become(r, new) ==
  req' = [req EXCEPT ![r] = IF new.todo = << >> THEN Idle("over") ELSE new]

Deploying(q) == req[q].op = "deploy" /\ Mount(q) \in Mounts /\ ~At(q, "collide")

\* History: the requests that r's next step gets in the way of, or that get in
\* its way.  Tests and the other operations on a server do not, as long as the
\* row is the one that was read and no delete is at work.
Clashing(r) ==
  {q \in InFlight \ {r} :
     \/ /\ Server(q) = Server(r)
        /\ \/ req[q].op # "test" /\ req[r].op # "test"
           \/ "delete" \in {req[q].op, req[r].op}
     \/ Deploying(q) /\ Deploying(r) /\ Mount(q) = Mount(r)}

Claimed(m) == \E s \in Servers : row[s].cred = m

\* Some row names the mount of r, written as r writes it.
Collides(r) == \E s \in Servers :
  row[s].cred = Mount(r) /\ row[s].spelt = req[r].row.spelt

\* History: the engine of r is that of a row which writes it in another way.
Respelt(r) == At(r, "collide") /\ Claimed(Mount(r)) /\ ~Collides(r)

Touches(r) == {Server(r)} \cup ({Mount(r)} \cap Mounts)

Disturbed(r) ==
  (UNION {Touches(q) : q \in Clashing(r)})
    \cup (IF Clashing(r) # {} \/ row[Server(r)] # req[r].seen THEN Touches(r) ELSE {})
    \cup (IF Respelt(r) THEN {Mount(r)} \cap Mounts ELSE {})

\* Mutant: what a failed deployment has made in Vault stays.
DeployFailsKeepingVault(r, step) ==
  CASE step \in {"place", "save"} -> <<"purge">>
    [] step \in Deprovisioning \cup {"purge"} -> Tail(req[r].todo)
    [] OTHER -> << >>

\* What is left to do when a call of a request fails.
DeployFails(r, step) ==
  CASE step = "register" -> Deprovision(Mount(r))
    [] step \in {"place", "save"} -> <<"purge">> \o Deprovision(Mount(r))
    [] step \in Deprovisioning \cup {"purge"} -> Tail(req[r].todo)
    [] OTHER -> << >>

UpdateFails(r, step) ==
  CASE step = "peer" -> <<"save", "referenced">>
    [] step \in {"repoint", "activate"} -> <<"unpeer", "save", "referenced">>
    [] step = "unpeer" -> Tail(req[r].todo)
    [] OTHER -> << >>

\* Mutant: a failed probe leaves its virtual servers.
TestFailsKeepingProbe(r, step) ==
  CASE step = "decoy" -> <<"untest">>
    [] step \in {"probe", "save"} -> <<"unprobetoken">>
    [] step \in {"unprobetoken", "undecoy", "untest"} -> Tail(req[r].todo)
    [] OTHER -> << >>

TestFails(r, step) ==
  CASE step = "decoy" -> <<"untest">>
    [] step = "probetoken" -> <<"undecoy", "untest">>
    [] step \in {"probe", "save"} -> ProbeCleanup
    [] step \in {"unprobetoken", "undecoy", "untest"} -> Tail(req[r].todo)
    [] OTHER -> << >>

\* A plan without its last step, if that is to delete the row.
KeepingRow(todo) ==
  IF todo # << >> /\ todo[Len(todo)] = "unrow" THEN SubSeq(todo, 1, Len(todo) - 1)
                                              ELSE todo

\* Only the failures in Vault keep the row of a deleted server.
DeleteFails(r, step) ==
  CASE step \in Deprovisioning -> KeepingRow(Tail(req[r].todo))
    [] step = "unrow" -> << >>
    [] OTHER -> Tail(req[r].todo)

Remaining(r, step) ==
  CASE req[r].op = "deploy" -> DeployFails(r, step)
    [] req[r].op = "update" -> UpdateFails(r, step)
    [] req[r].op = "test"   -> TestFails(r, step)
    [] req[r].op = "delete" -> DeleteFails(r, step)
    [] OTHER -> << >>

\* History: the failures of a call, done or not, that the code does not repair.
Unrepaired(r, step, done) ==
  CASE req[r].op = "deploy" ->
         \/ step \in {"mount", "configure", "secret", "policy", "role"}
         \/ step \in {"register", "save"} /\ done
         \/ step \in Deprovisioning \cup {"purge"} /\ ~done
    [] req[r].op = "update" ->
         \/ step = "register" /\ done
         \/ step \in {"place", "save"}
         \/ step = "peer" /\ gw.peer[Server(r)] # NoPeer
         \/ step = "unpeer" /\ ~done
    [] req[r].op = "test" ->
         \/ step \in {"testvs", "decoy", "probetoken"} /\ done
         \/ step \in {"unprobetoken", "undecoy", "untest"} /\ ~done
    [] req[r].op = "delete" ->
         step \in {"purge", "unpeer", "unvs", "untokens", "revoke"} /\ ~done
    [] OTHER -> FALSE

\* The peer of an update that goes wrong is not recorded.
Forgets(r, step) ==
  req[r].op = "update" /\ step \in {"peer", "repoint", "activate", "unpeer"}

Fails(r, done) ==
  LET step == Head(req[r].todo) IN
  /\ Become(r, [req[r] EXCEPT !.todo = Remaining(r, step),
                              !.row.peer = IF Forgets(r, step) THEN None ELSE @])
  /\ torn' = IF Unrepaired(r, step, done) THEN torn \cup {Server(r)} ELSE torn
  /\ unwired' = IF step \in Wiring THEN unwired \cup {Server(r)} ELSE unwired
  /\ raced' = raced \cup Disturbed(r)

\* The call has taken effect: r goes on as `new`, or the reply is lost.
AnsweredAs(r, new) ==
  \/ /\ Become(r, [new EXCEPT !.todo = Tail(@)])
     /\ raced' = raced \cup Disturbed(r)
     /\ unwired' = IF At(r, "kv") THEN unwired \ {Server(r)} ELSE unwired
     /\ UNCHANGED <<torn, faults>>
  \/ Fault /\ Fails(r, TRUE)

Answered(r) == AnsweredAs(r, req[r])

Refused(r) == Fails(r, FALSE) /\ UNCHANGED <<faults, strayed, doomed>>

Local    == UNCHANGED <<addons, job, vault, gw>>
InNomad  == UNCHANGED <<row, addons, vault, gw, strayed, doomed>>
InVault  == UNCHANGED <<row, addons, job, gw, strayed, doomed>>
InGateway == UNCHANGED <<row, addons, job, vault, doomed>>

--------------------------------------------------------------------------------
(* The requests begin by reading the row.                                  *)

\* Bound: requests on two servers overlap only if both use an engine; they
\* share nothing else.
Begin(r, op, s, seen, new, plan) ==
  /\ req[r].op = "new"
  /\ Cardinality(InFlight) < MaxInFlight
  /\ \A q \in InFlight : Server(q) = s \/ {new.cred, Mount(q)} \subseteq Mounts
  /\ req' = [req EXCEPT ![r] = [op |-> op, s |-> s, seen |-> seen, row |-> new,
                                todo |-> plan]]
  /\ UNCHANGED <<row, raced, torn, unwired>>
  /\ Local

Deploy(r, s, c, d) ==
  /\ \E w \in Spelling(c) :
       Begin(r, "deploy", s, NoRow, [NoRow EXCEPT !.cred = c, !.spelt = w, !.def = d],
             DeployPlan(c))
  /\ UNCHANGED <<strayed, doomed>>

DeployServer(r, s, c, d) == row[s] = NoRow /\ Deploy(r, s, c, d) /\ UNCHANGED faults

\* Any error of the read is taken for "not deployed".
DeployUnread(r, s, c, d) == row[s] # NoRow /\ Fault /\ Deploy(r, s, c, d)

UpdateServer(r, s, d) ==
  /\ row[s] # NoRow
  /\ Begin(r, "update", s, row[s], [row[s] EXCEPT !.def = d], UpdatePlan(row[s], d))
  /\ UNCHANGED <<faults, strayed, doomed>>

TestServer(r, s) ==
  /\ row[s] # NoRow
  /\ Begin(r, "test", s, row[s], row[s], TestPlan)
  /\ UNCHANGED <<faults, strayed, doomed>>

\* History: a peer the row does not name will stay.
DeleteServer(r, s) ==
  /\ row[s] # NoRow
  /\ Begin(r, "delete", s, row[s], row[s], DeletePlan(row[s]))
  /\ doomed' = doomed \cup {s}
  /\ strayed' = IF row[s].peer # gw.peer[s].id THEN strayed \cup {s} ELSE strayed
  /\ UNCHANGED faults

SetAddons(r, s) ==
  /\ Begin(r, "addons", s, row[s], row[s], Wire \o <<"addons">>)
  /\ UNCHANGED <<faults, strayed, doomed>>

--------------------------------------------------------------------------------
(* The portal's database.                                                  *)

\* Mutant: a mount that another server has claimed is taken as well.
CollideUnchecked(r) ==
  At(r, "collide") /\ Answered(r) /\ UNCHANGED <<row, strayed, doomed>> /\ Local

\* The mounts are compared as they are written, not as Vault trims them.
RejectMountCollision(r) ==
  /\ At(r, "collide")
  /\ IF Collides(r) THEN Refused(r) ELSE Answered(r)
  /\ UNCHANGED <<row, strayed, doomed>> /\ Local

Save(r) ==
  /\ At(r, "save")
  /\ row' = [row EXCEPT ![Server(r)] = req[r].row]
  /\ AnsweredAs(r, [req[r] EXCEPT !.seen = req[r].row])
  /\ UNCHANGED <<strayed, doomed>> /\ Local

DeleteRow(r) ==
  /\ At(r, "unrow")
  /\ IF row[Server(r)] = NoRow THEN Refused(r) ELSE Answered(r)
  /\ row' = [row EXCEPT ![Server(r)] = NoRow]
  /\ doomed' = doomed \ {Server(r)}
  /\ UNCHANGED strayed /\ Local

\* Templates that reference the server get it wired again.
RewireIfReferenced(r) ==
  /\ At(r, "referenced")
  /\ AnsweredAs(r, [req[r] EXCEPT !.todo =
       IF Server(r) \in addons THEN @ \o Wire ELSE @])
  /\ UNCHANGED <<row, strayed, doomed>> /\ Local

\* Mutant: a row that is not there is taken for an empty one.
ReadUnchecked(r) ==
  /\ At(r, "read")
  /\ AnsweredAs(r, [req[r] EXCEPT !.row = row[Server(r)], !.seen = row[Server(r)]])
  /\ UNCHANGED <<row, strayed, doomed>> /\ Local

ReadRow(r) ==
  /\ At(r, "read")
  /\ IF row[Server(r)] = NoRow THEN Refused(r)
     ELSE AnsweredAs(r, [req[r] EXCEPT !.row = row[Server(r)], !.seen = row[Server(r)]])
  /\ UNCHANGED <<row, strayed, doomed>> /\ Local

SaveAddons(r) ==
  /\ At(r, "addons")
  /\ addons' = addons \cup {Server(r)}
  /\ Answered(r)
  /\ UNCHANGED <<row, job, vault, gw, strayed, doomed>>

--------------------------------------------------------------------------------
(* Nomad                                                                   *)

RegisterJob(r) ==
  /\ At(r, "register")
  /\ job' = [job EXCEPT ![Server(r)] =
               [def |-> req[r].row.def, addr |-> <<r, faults>>]]
  /\ Answered(r)
  /\ InNomad

ResolvePlacement(r) ==
  /\ At(r, "place")
  /\ IF job[Server(r)] = NoJob THEN Refused(r)
     ELSE AnsweredAs(r, [req[r] EXCEPT !.row.addr = job[Server(r)].addr])
  /\ UNCHANGED job /\ InNomad

PurgeJob(r) ==
  /\ At(r, "purge")
  /\ job' = [job EXCEPT ![Server(r)] = NoJob]
  /\ Answered(r)
  /\ InNomad

--------------------------------------------------------------------------------
(* Vault                                                                   *)

\* An engine that is already mounted is kept.
MountEngine(r) ==
  /\ At(r, "mount")
  /\ vault' = [vault EXCEPT !.engine[Mount(r)] = IF @ = "absent" THEN "mounted" ELSE @]
  /\ Answered(r)
  /\ InVault

\* A write below an engine that is not there fails.
ConfigureEngine(r) ==
  /\ At(r, "configure")
  /\ IF vault.engine[Mount(r)] = "absent"
     THEN Refused(r) /\ UNCHANGED vault
     ELSE Answered(r) /\ vault' = [vault EXCEPT !.engine[Mount(r)] = "configured"]
  /\ InVault

Gains(r, step, item) ==
  /\ At(r, step)
  /\ vault' = [vault EXCEPT !.has[Server(r)] = @ \cup {item}]
  /\ Answered(r)
  /\ InVault

Loses(r, step, item) ==
  /\ At(r, step)
  /\ vault' = [vault EXCEPT !.has[Server(r)] = @ \ {item}]
  /\ Answered(r)
  /\ InVault

WriteSecret(r)  == Gains(r, "secret", "secret")
WritePolicy(r)  == Gains(r, "policy", "policy")
WriteWIFRole(r) == Gains(r, "role", "role")
UpdateGrants(r) == Gains(r, "grants", "policy")
DeletePolicy(r)  == Loses(r, "unpolicy", "policy")
DeleteWIFRole(r) == Loses(r, "unrole", "role")
DeleteSecret(r)  == Loses(r, "unsecret", "secret")

RevokeLeases(r) ==
  /\ At(r, "revoke")
  /\ vault' = [vault EXCEPT !.leases = @ \ {Mount(r)}]
  /\ Answered(r)
  /\ InVault

UnmountEngine(r) ==
  /\ At(r, "unmount")
  /\ vault' = [vault EXCEPT !.engine[Mount(r)] = "absent", !.leases = @ \ {Mount(r)}]
  /\ Answered(r)
  /\ InVault

WriteWiring(r) ==
  /\ At(r, "kv")
  /\ vault' = [vault EXCEPT !.kv[Server(r)] = r]
  /\ Answered(r)
  /\ InVault

--------------------------------------------------------------------------------
(* The gateway.  It shakes hands with a peer it is given the address of.   *)

Listening(r) == req[r].row.addr = job[Server(r)].addr
Found(r) == gw.peer[Server(r)].id
IsPeer(r) == req[r].row.peer # None /\ Found(r) = req[r].row.peer

\* A peer of the name is taken as it is.
RegisterPeer(r) ==
  /\ At(r, "peer") \/ At(r, "wirepeer")
  /\ \/ /\ Found(r) # None
        /\ UNCHANGED gw
        /\ AnsweredAs(r, [req[r] EXCEPT !.row.peer = Found(r)])
     \/ /\ Found(r) = None /\ Listening(r)
        /\ gw' = [gw EXCEPT !.peer[Server(r)] =
                    [id |-> r, addr |-> req[r].row.addr, active |-> TRUE]]
        /\ AnsweredAs(r, [req[r] EXCEPT !.row.peer = r])
     \/ /\ Found(r) = None /\ ~Listening(r)
        /\ UNCHANGED gw
        /\ Refused(r)
  /\ UNCHANGED strayed /\ InGateway

\* Mutant: the peer keeps its address.
RepointNowhere(r) ==
  /\ At(r, "repoint")
  /\ Answered(r)
  /\ UNCHANGED <<gw, strayed>>
  /\ InGateway

UpdatePeer(r) ==
  /\ At(r, "repoint")
  /\ IF IsPeer(r) /\ Listening(r)
     THEN /\ gw' = [gw EXCEPT !.peer[Server(r)].addr = req[r].row.addr]
          /\ Answered(r)
     ELSE Refused(r) /\ UNCHANGED gw
  /\ UNCHANGED strayed /\ InGateway

ActivatePeer(r) ==
  /\ At(r, "activate")
  /\ IF IsPeer(r)
     THEN /\ gw' = [gw EXCEPT !.peer[Server(r)].active = TRUE]
          /\ strayed' = IF gw.peer[Server(r)].addr = job[Server(r)].addr
                          THEN strayed \ {Server(r)} ELSE strayed
          /\ Answered(r)
     ELSE Refused(r) /\ UNCHANGED gw
  /\ InGateway

\* The tools of a peer that is gone or inactive do not show up in time.
DiscoverTools(r) ==
  /\ At(r, "tools")
  /\ IF IsPeer(r) /\ gw.peer[Server(r)].active THEN Answered(r) ELSE Refused(r)
  /\ UNCHANGED <<gw, strayed>> /\ InGateway

DeletePeer(r) ==
  /\ At(r, "unpeer")
  /\ LET peer == IF req[r].op = "update" THEN Found(r) ELSE req[r].row.peer IN
     gw' = [gw EXCEPT !.peer[Server(r)] = IF @.id = peer THEN NoPeer ELSE @]
  /\ Answered(r)
  /\ strayed' = IF gw'.peer[Server(r)] = NoPeer THEN strayed \ {Server(r)} ELSE strayed
  /\ InGateway

OnGateway(r, step, new) ==
  /\ At(r, step)
  /\ gw' = new
  /\ Answered(r)
  /\ UNCHANGED strayed /\ InGateway

DeleteVirtualServer(r) == OnGateway(r, "unvs", [gw EXCEPT !.vs[Server(r)] = NoVS])

CreateVirtualServer(r) == OnGateway(r, "vs",
  [gw EXCEPT !.vs[Server(r)] = [id |-> r, peer |-> req[r].row.peer]])

RevokeTokensByPrefix(r) == OnGateway(r, "untokens", [gw EXCEPT !.tokens[Server(r)] = {}])

CreateScopedToken(r) == OnGateway(r, "token", [gw EXCEPT !.tokens[Server(r)] = @ \cup {r}])

(* A test's probe: a virtual server, a decoy and a token, all thrown away. *)

ProbeVS(r)    == OnGateway(r, "testvs", [gw EXCEPT !.probe[Server(r)].test = r])
ProbeDecoy(r) == OnGateway(r, "decoy", [gw EXCEPT !.probe[Server(r)].decoy = r])
ProbeToken(r) == OnGateway(r, "probetoken",
                   [gw EXCEPT !.probe[Server(r)].tokens = @ \cup {r}])
ProbeScopedToken(r) == OnGateway(r, "probe", gw)
DropProbeTokens(r)  == OnGateway(r, "unprobetoken",
                         [gw EXCEPT !.probe[Server(r)].tokens = {}])

Unless(r, id) == IF id = r THEN None ELSE id

DropProbeDecoy(r) == OnGateway(r, "undecoy",
                       [gw EXCEPT !.probe[Server(r)].decoy = Unless(r, @)])
DropProbeVS(r)    == OnGateway(r, "untest",
                       [gw EXCEPT !.probe[Server(r)].test = Unless(r, @)])

--------------------------------------------------------------------------------
(* What happens around the requests.                                       *)

CallFails(r) ==
  /\ Fault
  /\ Fails(r, FALSE)
  /\ UNCHANGED <<row, strayed, doomed>> /\ Local

\* The portal stops: its requests are gone.
Crash ==
  /\ InFlight # {}
  /\ Fault
  /\ req' = [r \in Requests |-> IF r \in InFlight THEN Idle("over") ELSE req[r]]
  /\ torn' = torn \cup {Server(r) : r \in {q \in InFlight : req[q].op # "delete"}}
  /\ UNCHANGED <<row, raced, unwired, strayed, doomed>> /\ Local

\* Nomad gives the job another allocation.
Reschedule(s) ==
  /\ job[s] # NoJob
  /\ Fault
  /\ job' = [job EXCEPT ![s].addr = <<@[1], faults + 1>>]
  /\ strayed' = strayed \cup {s}
  /\ UNCHANGED <<row, addons, vault, gw, req, raced, torn, unwired, doomed>>

\* The gateway gives up a peer whose address is dead.
Deactivate(s) ==
  /\ gw.peer[s].active
  /\ gw.peer[s].addr # job[s].addr
  /\ gw' = [gw EXCEPT !.peer[s].active = FALSE]
  /\ UNCHANGED <<row, addons, job, vault, req, faults, history>>

\* A running server takes credentials from its engine.
Lease(s) ==
  /\ job[s] # NoJob
  /\ row[s].cred \in Mounts
  /\ vault.engine[row[s].cred] = "configured"
  /\ {"policy", "role"} \subseteq vault.has[s]
  /\ row[s].cred \notin vault.leases
  /\ vault' = [vault EXCEPT !.leases = @ \cup {row[s].cred}]
  /\ UNCHANGED <<row, addons, job, gw, req, faults, history>>

Calls(r) ==
  \/ RejectMountCollision(r) \/ Save(r) \/ DeleteRow(r) \/ RewireIfReferenced(r)
  \/ ReadRow(r) \/ SaveAddons(r)
  \/ RegisterJob(r) \/ ResolvePlacement(r) \/ PurgeJob(r)
  \/ MountEngine(r) \/ ConfigureEngine(r) \/ WriteSecret(r) \/ WritePolicy(r)
  \/ WriteWIFRole(r) \/ UpdateGrants(r)
  \/ RevokeLeases(r) \/ DeletePolicy(r) \/ DeleteWIFRole(r) \/ DeleteSecret(r)
  \/ UnmountEngine(r) \/ WriteWiring(r)
  \/ RegisterPeer(r) \/ UpdatePeer(r) \/ ActivatePeer(r) \/ DiscoverTools(r)
  \/ DeletePeer(r) \/ DeleteVirtualServer(r) \/ CreateVirtualServer(r)
  \/ RevokeTokensByPrefix(r) \/ CreateScopedToken(r)
  \/ ProbeVS(r) \/ ProbeDecoy(r) \/ ProbeToken(r) \/ ProbeScopedToken(r)
  \/ DropProbeTokens(r) \/ DropProbeDecoy(r) \/ DropProbeVS(r)
  \/ CallFails(r)

Next ==
  \/ \E r \in Requests, s \in Servers :
       \/ \E c \in Credentials, d \in Definitions :
            DeployServer(r, s, c, d) \/ DeployUnread(r, s, c, d)
       \/ \E d \in Definitions : UpdateServer(r, s, d)
       \/ TestServer(r, s) \/ DeleteServer(r, s) \/ SetAddons(r, s)
  \/ \E r \in InFlight : Calls(r)
  \/ Crash
  \/ \E s \in Servers : Reschedule(s) \/ Deactivate(s) \/ Lease(s)

Spec == Init /\ [][Next]_vars

--------------------------------------------------------------------------------
(* Properties                                                              *)

Quiet(s) == On(s) = {}
Sound(s) == Quiet(s) /\ s \notin raced \cup torn /\ row[s].cred \notin raced

Makers == Requests \cup {Founder}
Address == Makers \X (0 .. MaxFaults)
Row == [cred : Credentials, spelt : Spellings \cup {None}, def : Definitions, addr : Address, peer : Makers \cup {None}]
Copy == [cred : Credentials \cup {None}, spelt : Spellings \cup {None},
         def : Definitions \cup {None}, addr : Address \cup {None}, peer : Makers \cup {None}]
Steps == Wiring \cup Deprovisioning \cup
  {"collide", "mount", "configure", "secret", "policy", "role", "grants",
   "register", "place", "purge", "save", "unrow", "addons", "peer", "repoint",
   "activate", "unpeer", "testvs", "decoy", "probetoken", "probe",
   "unprobetoken", "undecoy", "untest"}

\* Every variable keeps its type: stored servers, jobs and peers have an address
\* and virtual servers a peer; a request in flight has something left to do, and
\* what it is to do is a step some action takes.
TypeOK ==
  /\ row \in [Servers -> Row \cup {NoRow}]
  /\ addons \subseteq Servers
  /\ job \in [Servers -> [def : Definitions, addr : Address] \cup {NoJob}]
  /\ vault.engine \in [Mounts -> {"absent", "mounted", "configured"}]
  /\ vault.leases \subseteq Mounts
  /\ vault.has \in [Servers -> SUBSET {"secret", "policy", "role"}]
  /\ vault.kv \in [Servers -> Makers \cup {None}]
  /\ gw.peer \in [Servers ->
       [id : Makers, addr : Address, active : BOOLEAN] \cup {NoPeer}]
  /\ gw.vs \in [Servers -> [id : Makers, peer : Makers] \cup {NoVS}]
  /\ gw.tokens \in [Servers -> SUBSET Makers]
  /\ gw.probe \in [Servers -> [test : Requests \cup {None},
                               decoy : Requests \cup {None}, tokens : SUBSET Requests]]
  /\ \A r \in Requests :
       /\ req[r].row \in Copy /\ req[r].seen \in Row \cup {NoRow}
       /\ req[r].op \in Over => req[r] = Idle(req[r].op)
       /\ r \in InFlight =>
            /\ req[r].op \in {"deploy", "update", "test", "delete", "addons"}
            /\ req[r].s \in Servers
            /\ req[r].todo # << >>
            /\ \A i \in DOMAIN req[r].todo : req[r].todo[i] \in Steps
  /\ faults \in 0 .. MaxFaults
  /\ raced \subseteq Servers \cup Mounts
  /\ \A marked \in {torn, unwired, strayed, doomed} : marked \subseteq Servers

Provisioned(s, c) ==
  /\ c \in Mounts => vault.engine[c] = "configured"
  /\ c = "static" => "secret" \in vault.has[s]
  /\ c # "none" => {"policy", "role"} \subseteq vault.has[s]

\* A stored server that nobody is working on runs: its job is of the stored
\* definition and everything its credential needs is in Vault; failed tests,
\* failed deployments of other servers, failed re-wirings and repeated deletes
\* do not take that away.  Excepted are servers whose row was written over by a
\* request that had read another one (a test that overlaps an update stores the
\* old definition), engines two rows share, a crash, and an update that fails
\* after it has changed the job. (DeployServer, UpdateServer, TestServer)
RowIsServed == \A s \in Servers :
  row[s] # NoRow /\ Sound(s) /\ s \notin doomed =>
    job[s].def = row[s].def /\ Provisioned(s, row[s].cred)

\* A server whose row is gone, or was never stored, has no job, nothing of a
\* credential in Vault and no virtual server or token on the gateway: failed
\* deployments undo what they made, and deletes that are repeated finish.  Its
\* peer is gone, too, unless the row did not name it when the delete read the
\* row, or its job had moved.  Excepted are requests that overlap on the server,
\* a deployment whose Vault setup fails half way or that the portal does not
\* survive, and a failed call of a teardown that nothing repeats.
\* With nothing of that, every engine is one that a row names.
\* (DeployServer, DeleteServer, Deprovision)
NothingLeftBehind ==
  /\ \A s \in Servers :
       row[s] = NoRow /\ Sound(s) =>
         /\ job[s] = NoJob
         /\ vault.has[s] = {}
         /\ gw.vs[s] = NoVS /\ gw.tokens[s] = {}
         /\ gw.peer[s] = NoPeer \/ s \in strayed
  /\ \A m \in Mounts :
       vault.engine[m] # "absent" /\ InFlight = {} /\ raced \cup torn = {}
         => Claimed(m)

\* A server that templates reference answers under what workspaces read from
\* Vault: the stored token is live and of the virtual server that exists, this
\* is made of the tools of the registered peer, and the peer is active at the
\* address of the job; also after updates, healed peers and redeployments.
\* Excepted are servers whose last wiring failed, whose job has moved, or whose
\* requests overlapped or left a failure unrepaired.
\* (WireMCPServer, rewireIfReferenced, UpdateServer)
WiringServes == \A s \in addons :
  row[s] # NoRow /\ Sound(s) /\ s \notin unwired \cup strayed \cup doomed =>
    /\ vault.kv[s] # None
    /\ vault.kv[s] = gw.vs[s].id /\ vault.kv[s] \in gw.tokens[s]
    /\ gw.vs[s].peer = gw.peer[s].id
    /\ gw.peer[s].addr = job[s].addr /\ gw.peer[s].active

\* However tests overlap with each other and with everything else, and wherever
\* they fail, they leave no virtual server, decoy or token of theirs unless a
\* call of the clean-up failed or the reply to a creation was lost. (TestServer)
ProbesLeaveNothing == \A s \in Servers :
  Quiet(s) /\ s \notin torn => gw.probe[s] = NoProbe

\* An engine that two requests or two rows did not share is unmounted only when
\* no lease of it lives, also when the teardown is that of a failed deployment
\* or was begun again; only after a revocation that failed, or a failure of the
\* server that nothing repaired, it may have one. (Deprovision)
UnmountsAfterRevoke == [][\A r \in Requests :
  At(r, "unmount") /\ vault'.engine # vault.engine
    => Mount(r) \notin vault.leases \/ Mount(r) \in raced \/ Server(r) \in torn]_vars

--------------------------------------------------------------------------------
(* What the comments of the code claim, and its runs do not keep.          *)

\* No two stored servers share an engine, whatever they did at the same time and
\* however they write its mount. (service.go, rejectMountCollision: "refuses a
\* dynamic deploy whose engine mount is already claimed by another server")
EngineHasOneServer == \A s, t \in Servers :
  s # t /\ row[s].cred \in Mounts => row[s].cred # row[t].cred

\* A test adds its result to the row and keeps the definition that is stored.
\* (service.go, TestServer: "record the result on the row")
TestKeepsDefinition == [][\A r \in Requests :
  req[r].op = "test" /\ At(r, "save") /\ row[Server(r)] # NoRow
    => row'[Server(r)].def = row[Server(r)].def]_vars

\* When a delete drops the row, the gateway has nothing of the server any more.
\* (service.go, DeleteServer: "The wire plane's artifacts must not outlive the
\* server")
WireGoesWithServer == [][\A r \in Requests :
  At(r, "unrow") /\ row' # row =>
    /\ gw.vs[Server(r)] = NoVS /\ gw.tokens[Server(r)] = {}
    /\ gw.peer[Server(r)] = NoPeer]_vars

\* When a delete drops the row, the job is stopped, so that a delete which was
\* only partly carried out can be repeated. (service.go, DeleteServer: "a partial
\* state still converges to clean")
DroppedIsStopped == [][\A r \in Requests :
  At(r, "unrow") /\ row' # row => job[Server(r)] = NoJob]_vars

\* No engine is ever unmounted while a lease of it lives. (vaultadmin.go,
\* RevokeLeasesByPrefix: "a mount never has live leases at unmount")
UnmountsNothingLeased == [][\A r \in Requests :
  At(r, "unmount") /\ vault'.engine # vault.engine
    => Mount(r) \notin vault.leases]_vars
=============================================================================
