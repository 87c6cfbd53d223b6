-------------------------------- MODULE HostSync --------------------------------
(***************************************************************************)
(* nomad-boundary-host-sync: one process that, pass after pass, copies the *)
(* node address Nomad has for each workspace into the one host of the      *)
(* workspace's Boundary host-set.                                          *)
(*                                                                         *)
(* Around it: Nomad places, moves and drops the workspace's registrations, *)
(* and the portal creates the host-set (Provision), stops and starts the   *)
(* job, and removes host-set and host (Destroy).  Every call of a pass is  *)
(* a step of its own, so all of them interleave.                           *)
(***************************************************************************)
EXTENDS Sequences, Naturals, FiniteSets

CONSTANTS
  Workspaces,
  Nodes,        \* node addresses
  None,         \* no address
  MaxPlaced,    \* bound: allocations Nomad places, all workspaces together
  MaxStops,     \* bound: portal Stops, all workspaces together
  MaxFaults     \* bound: failed calls and crashes of the sync process

ASSUME HostSyncAssumption ==
  /\ None \notin Nodes
  /\ {MaxPlaced, MaxStops, MaxFaults} \subseteq Nat

VARIABLES
  \* Nomad and the portal
  job,      \* "absent", "running", "stopped", "purged" or "destroyed"
  regs,     \* registrations of the workspace's service, oldest first
  placed, stops,    \* bounds
  \* Boundary
  hset,     \* the workspace's host-set: "none", "live" or "deleted"
  host,     \* address of the host named after the workspace, or None
  inSet,    \* is that host in the host-set?
  \* the sync process
  pc,       \* "idle", "get", "ready", or what the current ensure does next
  toGet,    \* services listed and still to read
  snap,     \* address read for each service in this pass, or None
  todo,     \* services of the snapshot still to ensure
  cur,      \* the workspaces being ensured: none or one
  faults,   \* bound
  \* history
  seen,     \* addresses that were current since the last pass began
  ensured,  \* workspaces that pass has left with the host in place
  split,    \* workspaces whose Create a fault cut off from its AddHosts
  late      \* workspaces destroyed while a Create of their host was under way

nomadVars == <<job, regs, placed, stops>>
syncVars  == <<pc, toGet, snap, todo, cur, faults>>
bndryVars == <<hset, host, inSet>>
history   == <<seen, ensured, split, late>>

vars == <<nomadVars, syncVars, bndryVars, history>>

Init ==
  /\ job = [w \in Workspaces |-> "absent"]
  /\ regs = [w \in Workspaces |-> <<>>]
  /\ placed = 0 /\ stops = 0
  /\ hset = [w \in Workspaces |-> "none"]
  /\ host = [w \in Workspaces |-> None]
  /\ inSet = [w \in Workspaces |-> FALSE]
  /\ pc = "idle"
  /\ toGet = {}
  /\ snap = [w \in Workspaces |-> None]
  /\ todo = {}
  /\ cur = {}
  /\ faults = 0
  /\ seen = [w \in Workspaces |-> {}]
  /\ ensured = {}
  /\ split = {} /\ late = {}

\* Mutant: the lowest ModifyIndex wins.
PickOldest(rs) == IF rs = <<>> THEN None ELSE Head(rs)

\* The registration with the highest ModifyIndex, the newest allocation's.
pickCurrent(rs) == IF rs = <<>> THEN None ELSE rs[Len(rs)]

Newest(rs) == IF rs = <<>> THEN {} ELSE {rs[Len(rs)]}

--------------------------------------------------------------------------------
(* Nomad                                                                   *)

SetRegs(w, rs) ==
  /\ regs' = [regs EXCEPT ![w] = rs]
  /\ seen' = [seen EXCEPT ![w] = @ \cup Newest(rs)]

\* The first allocation, or the replacement of one that is to stop: the two
\* are registered together for a while.
Place(w, n) ==
  /\ job[w] = "running"
  /\ Len(regs[w]) < 2
  /\ \A i \in DOMAIN regs[w] : regs[w][i] # n
  /\ placed < MaxPlaced
  /\ placed' = placed + 1
  /\ SetRegs(w, Append(regs[w], n))
  /\ UNCHANGED <<job, stops, bndryVars, syncVars, ensured, split, late>>

\* One of two overlapping allocations deregisters, usually the older.
DropOne(w) ==
  /\ Len(regs[w]) = 2
  /\ \E i \in 1 .. 2 : SetRegs(w, <<regs[w][i]>>)
  /\ UNCHANGED <<job, placed, stops, bndryVars, syncVars, ensured, split, late>>

\* The allocations of a job that is not running end.
DropAll(w) ==
  /\ job[w] # "running"
  /\ regs[w] # <<>>
  /\ SetRegs(w, <<>>)
  /\ UNCHANGED <<job, placed, stops, bndryVars, syncVars, ensured, split, late>>

--------------------------------------------------------------------------------
(* The portal                                                              *)

SetJob(w, from, to) ==
  /\ job[w] = from
  /\ job' = [job EXCEPT ![w] = to]
  /\ UNCHANGED <<regs, placed, syncVars, seen, ensured, split>>

RegisterJob(w) ==
  SetJob(w, "absent", "running") /\ UNCHANGED <<stops, bndryVars, late>>

\* Provision's host-set, some time after the job is registered.
CreateHostSet(w) ==
  /\ job[w] \in {"running", "stopped"}
  /\ hset[w] = "none"
  /\ hset' = [hset EXCEPT ![w] = "live"]
  /\ UNCHANGED <<host, inSet, nomadVars, syncVars, history>>

Stop(w) ==
  /\ stops < MaxStops
  /\ stops' = stops + 1
  /\ SetJob(w, "running", "stopped")
  /\ UNCHANGED <<bndryVars, late>>

Start(w) ==
  SetJob(w, "stopped", "running") /\ UNCHANGED <<stops, bndryVars, late>>

\* Destroy, from the purge on.  The home volume has been deleted by then, so
\* no allocation has it mounted.
Purge(w) ==
  /\ regs[w] = <<>>
  /\ SetJob(w, "stopped", "purged")
  /\ UNCHANGED <<stops, bndryVars, late>>

DeleteHostSet(w) ==
  /\ job[w] = "purged"
  /\ hset[w] = "live"
  /\ hset' = [hset EXCEPT ![w] = "deleted"]
  /\ inSet' = [inSet EXCEPT ![w] = FALSE]
  /\ UNCHANGED <<host, nomadVars, syncVars, history>>

\* Mutant: the host is looked for among the members of the set.
DeleteHostOfSet(w) ==
  /\ hset[w] # "live"
  /\ SetJob(w, "purged", "destroyed")
  /\ host' = IF inSet[w] THEN [host EXCEPT ![w] = None] ELSE host
  /\ inSet' = [inSet EXCEPT ![w] = FALSE]
  /\ late' = IF pc = "create" /\ w \in cur THEN late \cup {w} ELSE late
  /\ UNCHANGED <<hset, stops>>

\* List the catalog's hosts, delete the one of this name if there is one.
DeleteHost(w) ==
  /\ hset[w] # "live"
  /\ SetJob(w, "purged", "destroyed")
  /\ host' = [host EXCEPT ![w] = None]
  /\ inSet' = [inSet EXCEPT ![w] = FALSE]
  /\ late' = IF pc = "create" /\ w \in cur THEN late \cup {w} ELSE late
  /\ UNCHANGED <<hset, stops>>

--------------------------------------------------------------------------------
(* The sync process: ListWorkspaceServices                                 *)

\* The ticker fires: List of all namespaces.
StartPass ==
  /\ pc = "idle"
  /\ pc' = "get"
  /\ toGet' = {w \in Workspaces : regs[w] # <<>>}
  /\ snap' = [w \in Workspaces |-> None]
  /\ todo' = {}
  /\ seen' = [w \in Workspaces |-> Newest(regs[w])]
  /\ ensured' = {}
  /\ UNCHANGED <<cur, faults, split, late, nomadVars, bndryVars>>

\* Get one service.  It may have gone since the List.
GetService(w) ==
  /\ pc = "get"
  /\ w \in toGet
  /\ toGet' = toGet \ {w}
  /\ snap' = [snap EXCEPT ![w] = pickCurrent(regs[w])]
  /\ todo' = IF regs[w] = <<>> THEN todo ELSE todo \cup {w}
  /\ UNCHANGED <<pc, cur, faults, nomadVars, bndryVars, history>>

GotAll ==
  /\ pc = "get"
  /\ toGet = {}
  /\ pc' = "ready"
  /\ UNCHANGED <<toGet, snap, todo, cur, faults, nomadVars, bndryVars, history>>

--------------------------------------------------------------------------------
(* ensure, one service at a time                                           *)

\* ensure(w) goes on with the call `step` makes next.
Continue(step) == pc' = step /\ UNCHANGED <<cur, todo>>

\* Mutant: the service being ensured is not cleared.
ReturnInCall(w, ok) ==
  /\ pc' = "ready"
  /\ cur' = cur
  /\ todo' = todo \ {w}
  /\ ensured' = IF ok THEN ensured \cup {w} ELSE ensured

\* ensure(w) returns, with the host known to be right or not.
Return(w, ok) ==
  /\ pc' = "ready"
  /\ cur' = {}
  /\ todo' = todo \ {w}
  /\ ensured' = IF ok THEN ensured \cup {w} ELSE ensured

\* Scope, catalog and host-set by name, then the set's members.
ReadHostSet(w) ==
  /\ pc = "ready"
  /\ w \in todo
  /\ IF hset[w] # "live"
       THEN Return(w, FALSE)       \* not provisioned yet: skip
       ELSE /\ pc' = IF inSet[w] THEN "read" ELSE "create"
            /\ cur' = {w}
            /\ UNCHANGED <<todo, ensured>>
  /\ UNCHANGED <<toGet, snap, faults, seen, split, late, nomadVars, bndryVars>>

\* Host names are unique in the catalog: a second Create is refused.
CreateHost(w) ==
  /\ pc = "create"
  /\ w \in cur
  /\ IF host[w] = None
       THEN /\ host' = [host EXCEPT ![w] = snap[w]]
            /\ Continue("add")
            /\ UNCHANGED ensured
       ELSE /\ Return(w, FALSE)
            /\ UNCHANGED host
  /\ UNCHANGED <<hset, inSet, toGet, snap, faults, seen, split, late, nomadVars>>

\* AddHosts, which needs the set and the host still to be there.
AddHost(w) ==
  /\ pc = "add"
  /\ w \in cur
  /\ LET ok == hset[w] = "live" /\ host[w] # None IN
       /\ inSet' = [inSet EXCEPT ![w] = ok]
       /\ Return(w, ok)
  /\ UNCHANGED <<hset, host, toGet, snap, faults, seen, split, late, nomadVars>>

\* Mutant: a host that exists is taken to be right.
ReadHostOnly(w) ==
  /\ pc = "read"
  /\ w \in cur
  /\ Return(w, host[w] # None)
  /\ UNCHANGED <<toGet, snap, faults, seen, split, late, nomadVars, bndryVars>>

ReadHost(w) ==
  /\ pc = "read"
  /\ w \in cur
  /\ IF host[w] \in {None, snap[w]}
       THEN Return(w, host[w] # None)
       ELSE Continue("update") /\ UNCHANGED ensured
  /\ UNCHANGED <<toGet, snap, faults, seen, split, late, nomadVars, bndryVars>>

UpdateHost(w) ==
  /\ pc = "update"
  /\ w \in cur
  /\ host' = [host EXCEPT ![w] = IF @ = None THEN None ELSE snap[w]]
  /\ Return(w, host[w] # None)
  /\ UNCHANGED <<hset, inSet, toGet, snap, faults, seen, split, late, nomadVars>>

EndPass ==
  /\ pc = "ready"
  /\ todo = {}
  /\ pc' = "idle"
  /\ UNCHANGED <<toGet, snap, todo, cur, faults, nomadVars, bndryVars, history>>

--------------------------------------------------------------------------------
(* Faults of the sync process                                              *)

Fault == faults < MaxFaults /\ faults' = faults + 1

\* List or Get fails: the pass is over.
ListFails ==
  /\ pc = "get"
  /\ Fault
  /\ pc' = "idle"
  /\ toGet' = {} /\ todo' = {}
  /\ UNCHANGED <<snap, cur, nomadVars, bndryVars, history>>

\* A Boundary call fails without effect: logged, and on to the next service.
CallFails(w) ==
  /\ Fault
  /\ \/ pc = "ready" /\ w \in todo
     \/ pc \in {"create", "add", "read", "update"} /\ w \in cur
  /\ Return(w, FALSE)
  /\ split' = IF pc = "add" THEN split \cup {w} ELSE split
  /\ UNCHANGED <<toGet, snap, seen, late, nomadVars, bndryVars>>

\* Create takes effect and its reply is lost: AddHosts is never called.
CreateReplyLost(w) ==
  /\ Fault
  /\ pc = "create" /\ w \in cur
  /\ host[w] = None
  /\ host' = [host EXCEPT ![w] = snap[w]]
  /\ Return(w, FALSE)
  /\ split' = split \cup {w}
  /\ UNCHANGED <<hset, inSet, toGet, snap, seen, late, nomadVars>>

\* The process dies and Nomad starts it again.  It keeps nothing.
Crash ==
  /\ Fault
  /\ pc' = "idle"
  /\ toGet' = {} /\ todo' = {} /\ cur' = {}
  /\ snap' = [w \in Workspaces |-> None]
  /\ split' = IF pc = "add" THEN split \cup cur ELSE split
  /\ UNCHANGED <<nomadVars, bndryVars, seen, ensured, late>>

--------------------------------------------------------------------------------

Ensure(w) ==
  \/ ReadHostSet(w)
  \/ CreateHost(w)
  \/ AddHost(w)
  \/ ReadHost(w)
  \/ UpdateHost(w)

SyncStep ==
  \/ StartPass
  \/ GotAll
  \/ EndPass
  \/ \E w \in Workspaces : GetService(w) \/ Ensure(w)

FaultStep ==
  \/ ListFails
  \/ Crash
  \/ \E w \in Workspaces : CallFails(w) \/ CreateReplyLost(w)

NomadStep(w) ==
  \/ \E n \in Nodes : Place(w, n)
  \/ DropOne(w)
  \/ DropAll(w)

PortalStep(w) ==
  \/ RegisterJob(w)
  \/ CreateHostSet(w)
  \/ Stop(w)
  \/ Start(w)
  \/ Purge(w)
  \/ DeleteHostSet(w)
  \/ DeleteHost(w)

Next ==
  \/ SyncStep
  \/ FaultStep
  \/ \E w \in Workspaces : NomadStep(w) \/ PortalStep(w)

\* Run's ticker keeps firing and the calls of a pass return.  Nothing is
\* assumed of Nomad, the portal or the developers.
Spec == Init /\ [][Next]_vars /\ WF_vars(SyncStep)

--------------------------------------------------------------------------------
(* Properties                                                              *)

\* The types of the variables; a pass is inside an ensure exactly when it has
\* a current workspace.
TypeOK ==
  /\ job \in [Workspaces -> {"absent", "running", "stopped", "purged", "destroyed"}]
  /\ \A w \in Workspaces : regs[w] \in Seq(Nodes) /\ Len(regs[w]) <= 2
  /\ placed \in 0 .. MaxPlaced /\ stops \in 0 .. MaxStops
  /\ hset \in [Workspaces -> {"none", "live", "deleted"}]
  /\ host \in [Workspaces -> Nodes \cup {None}]
  /\ inSet \in [Workspaces -> BOOLEAN]
  /\ pc \in {"idle", "get", "ready", "create", "add", "read", "update"}
  /\ toGet \subseteq Workspaces /\ todo \subseteq Workspaces
  /\ snap \in [Workspaces -> Nodes \cup {None}]
  /\ cur \subseteq Workspaces /\ Cardinality(cur) <= 1
  /\ (cur # {}) = (pc \in {"create", "add", "read", "update"})
  /\ faults \in 0 .. MaxFaults
  /\ seen \in [Workspaces -> SUBSET Nodes]
  /\ {ensured, split, late} \subseteq SUBSET Workspaces

\* When ensure has returned nil for a workspace, its host holds an address
\* that was the workspace's current one at some moment of that pass, until
\* the portal removes the host: a pass never leaves an address that was
\* already stale when the pass began.
PassResultFresh ==
  \A w \in ensured : host[w] # None => host[w] \in seen[w]

\* Host, host-set and job of a workspace agree, with the sync process and the
\* portal changing them beside each other: no host precedes the host-set the
\* portal makes, a host in a set is in one that has not been deleted, and a
\* destroyed workspace has no host, whatever of an ensure fell between the
\* deletes of Destroy.  The exception is the one DestroyRemovesHost runs into:
\* an ensure that read the host-set before Destroy deleted it and creates the
\* host after Destroy deleted the hosts.
HostsFollowHostSets ==
  \A w \in Workspaces :
    /\ host[w] # None => hset[w] # "none"
    /\ inSet[w] => hset[w] = "live" /\ host[w] # None
    /\ job[w] = "destroyed" /\ w \notin late => host[w] = None

\* The last part without the exception: README.md line 29 of the host sync
\* and boundary.go lines 311-312 of the portal say that Destroy removes the
\* host-set and its host.
DestroyRemovesHost ==
  \A w \in Workspaces : job[w] = "destroyed" => host[w] = None

\* No flapping: once the host holds the only address that has been current
\* since the pass began, no step of that pass moves it away again.
ConvergedStays ==
  [][\A w \in Workspaces :
       (inSet[w] /\ seen[w] = {host[w]}) => host'[w] \in {host[w], None}]_vars

Settled(w) ==
  (job[w] = "running" /\ regs[w] # <<>> /\ hset[w] = "live")
    => inSet[w] /\ host[w] = pickCurrent(regs[w])

\* Every live, provisioned workspace ends up with its host in the host-set at
\* its current address once it stops moving, whatever calls failed and
\* whenever the process died, unless that fell between a host's Create and
\* its AddHosts.
Convergence == \A w \in Workspaces : <>[](w \notin split => Settled(w))

\* The same without the exception: what reconcile.go lines 1-6 and README.md
\* lines 27-32 say of every live workspace.
EveryLiveWorkspaceConverges == \A w \in Workspaces : <>[]Settled(w)

=============================================================================
