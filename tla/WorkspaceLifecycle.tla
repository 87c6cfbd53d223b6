--------------------------- MODULE WorkspaceLifecycle ---------------------------
(***************************************************************************)
(* Create, Stop, Start and Destroy of one developer's workspaces           *)
(* (portal/backend/internal/workspace/service.go), with the Boundary graph *)
(* that Provision builds and Boundary's Destroy removes                    *)
(* (hashistack/boundary.go).                                               *)
(*                                                                         *)
(* Each operation is a sequence of remote calls in its own goroutine.  A   *)
(* call may fail, may take effect and lose its reply, or may never be made *)
(* because the portal died; no operation undoes what it did before a       *)
(* failure.  A workspace may be destroyed while its Create is still        *)
(* provisioning (it is listed from Register on) and started meanwhile, and *)
(* the developer's workspaces share a managed group and two roles.         *)
(*                                                                         *)
(* What a call makes is named by the step of Create that makes it.         *)
(***************************************************************************)
EXTENDS Naturals

CONSTANTS
  Workspaces,
  MaxFaults,     \* bound: failed calls, lost replies and portal crashes
  MaxRequests    \* bound: Stops, Starts and Destroys, all workspaces together

ASSUME BoundsAssumption == {MaxFaults, MaxRequests} \subseteq Nat

--------------------------------------------------------------------------------
(* Create: for each of its calls, the one that follows.                    *)

\* "allocate" is the name and the port.
AllocateAndRegister == [allocate |-> "volume", job |-> "hostset"]

\* Create the home volume, and wait until it can be scheduled.
CreateHostVolume == [volume |-> "schedulable", schedulable |-> "job"]

Provision == [
  hostset |-> "target", target |-> "hostsource", hostsource |-> "credsource",
  credsource |-> "findgroup",
  findgroup |-> "group", group |-> "findrole",
  findrole |-> "role", role |-> "rolescope", rolescope |-> "roleprincipal",
  roleprincipal |-> "grant", grant |-> "findaliasrole",
  findaliasrole |-> "aliasrole", aliasrole |-> "aliasscope",
  aliasscope |-> "aliasprincipal", aliasprincipal |-> "aliasgrant",
  aliasgrant |-> "alias", alias |-> "done"]

CreateSteps ==
  DOMAIN AllocateAndRegister \cup DOMAIN CreateHostVolume \cup DOMAIN Provision
    \cup {"done"}

After(step) ==
  CASE step \in DOMAIN AllocateAndRegister -> AllocateAndRegister[step]
    [] step \in DOMAIN CreateHostVolume    -> CreateHostVolume[step]
    [] step \in DOMAIN Provision           -> Provision[step]

\* Made per workspace, and made once per developer.
Own    == {"volume", "job", "hostset", "target", "hostsource", "credsource",
           "grant", "alias"}
Shared == {"group", "role", "rolescope", "roleprincipal",
           "aliasrole", "aliasscope", "aliasprincipal", "aliasgrant"}

\* What a call needs to find, or the server refuses it.
Needs(step) ==
  CASE step = "hostsource" -> {"target", "hostset"}
    [] step \in {"credsource", "alias"} -> {"target"}
    [] OTHER -> {}

\* Names Boundary keeps unique: a second Create of one is refused.
Unique == {"group", "role", "aliasrole"}

\* Mutant: a developer who has the role is taken to have the grant.
LookupsSkippingGrant ==
  [findgroup     |-> [what |-> "group",     then |-> "findrole"],
   findrole      |-> [what |-> "role",      then |-> "findaliasrole"],
   findaliasrole |-> [what |-> "aliasrole", then |-> "aliasgrant"]]

\* findOrCreate: what the listing looks for, and where it goes if it is there.
Lookups == [findgroup     |-> [what |-> "group",     then |-> "findrole"],
            findrole      |-> [what |-> "role",      then |-> "grant"],
            findaliasrole |-> [what |-> "aliasrole", then |-> "aliasgrant"]]

\* Binding a role takes two calls after the one that creates it.
Binding == {"rolescope", "roleprincipal", "aliasscope", "aliasprincipal"}

VARIABLES
  create,    \* next call of the workspace's Create; "failed" when it gave up
  destroy,   \* next call of its Destroy; "no" before the first, "failed"
  has,       \* what exists for each workspace, a subset of Own
  shared,    \* what exists for the developer, a subset of Shared
  running,   \* jobs that are not stopped
  attached,  \* home volumes attached to a node
  starting,  \* Starts between their read and their register
  faults, requests,   \* bounds
  \* history
  raced,     \* workspaces a Create or Start touched after their Destroy began
  unbound    \* did a failure or crash cut a role off from its binding?

vars == <<create, destroy, has, shared, running, attached, starting, faults,
          requests, raced, unbound>>

Init ==
  /\ create = [w \in Workspaces |-> "allocate"]
  /\ destroy = [w \in Workspaces |-> "no"]
  /\ has = [w \in Workspaces |-> {}]
  /\ shared = {}
  /\ running = {}
  /\ attached = {}
  /\ starting = {}
  /\ faults = 0
  /\ requests = 0
  /\ raced = {}
  /\ unbound = FALSE

\* A create or a start that touches w while or after it is being destroyed.
NoteRace(w) == raced' = IF destroy[w] = "no" THEN raced ELSE raced \cup {w}

\* The workspace is in the developer's list, which is the list of Nomad jobs.
Listed(w) == "job" \in has[w]

--------------------------------------------------------------------------------
(* Create and Provision                                                    *)

\* The effect of the call at `step`.
Make(w, step) ==
  /\ has' = [has EXCEPT ![w] = @ \cup ({step} \cap Own)]
  /\ shared' = shared \cup ({step} \cap Shared)
  /\ running' = IF step = "job" THEN running \cup {w} ELSE running
  /\ NoteRace(w)

Refused(w, step) ==
  \/ ~(Needs(step) \subseteq has[w])
  \/ step \in Unique \cap shared

CreateCall(w) ==
  LET step == create[w] IN
    /\ step \notin {"done", "failed"} \cup DOMAIN Lookups
    /\ ~Refused(w, step)
    /\ Make(w, step)
    /\ create' = [create EXCEPT ![w] = After(step)]
    /\ UNCHANGED <<destroy, attached, starting, faults, requests, unbound>>

CreateRefused(w) ==
  /\ create[w] \in CreateSteps
  /\ Refused(w, create[w])
  /\ create' = [create EXCEPT ![w] = "failed"]
  /\ UNCHANGED <<destroy, has, shared, running, attached, starting, faults,
                 requests, raced, unbound>>

\* findOrCreateManagedGroup and findOrCreateRole list first.
Lookup(w) ==
  /\ create[w] \in DOMAIN Lookups
  /\ LET l == Lookups[create[w]] IN
       create' = [create EXCEPT ![w] = IF l.what \in shared
                                         THEN l.then
                                         ELSE l.what]
  /\ UNCHANGED <<destroy, has, shared, running, attached, starting, faults,
                 requests, raced, unbound>>

--------------------------------------------------------------------------------
(* Nomad                                                                   *)

Attach(w) ==
  /\ w \in running
  /\ "volume" \in has[w]
  /\ attached' = attached \cup {w}
  /\ UNCHANGED <<create, destroy, has, shared, running, starting, faults,
                 requests, raced, unbound>>

\* The disk lags the end of the allocation.
Detach(w) ==
  /\ w \in attached \ running
  /\ attached' = attached \ {w}
  /\ UNCHANGED <<create, destroy, has, shared, running, starting, faults,
                 requests, raced, unbound>>

--------------------------------------------------------------------------------
(* Stop and Start                                                          *)

Request == requests < MaxRequests /\ requests' = requests + 1

Stop(w) ==
  /\ Listed(w)
  /\ Request
  /\ running' = running \ {w}
  /\ UNCHANGED <<create, destroy, has, shared, attached, starting, faults,
                 raced, unbound>>

StartRead(w) ==
  /\ Listed(w)
  /\ Request
  /\ starting' = starting \cup {w}
  /\ UNCHANGED <<create, destroy, has, shared, running, attached, faults,
                 raced, unbound>>

\* Register what was read, purged meanwhile or not.
StartRegister(w) ==
  /\ w \in starting
  /\ starting' = starting \ {w}
  /\ Make(w, "job")
  /\ UNCHANGED <<create, destroy, attached, faults, requests, unbound>>

--------------------------------------------------------------------------------
(* Destroy                                                                 *)

DestroySteps == {"stop", "volume", "purge", "findtarget", "grant", "target",
                 "hostset", "alias"}

\* From the developer's list, and again after a failure while still listed.
BeginDestroy(w) ==
  /\ destroy[w] \in {"no", "failed"}
  /\ Listed(w)
  /\ Request
  /\ destroy' = [destroy EXCEPT ![w] = "stop"]
  /\ UNCHANGED <<create, has, shared, running, attached, starting, faults,
                 raced, unbound>>

\* The call of Destroy at `step` removes `gone` and goes on to `next`.
DestroyCall(w, step, gone, next) ==
  /\ destroy[w] = step
  /\ destroy' = [destroy EXCEPT ![w] = next]
  /\ has' = [has EXCEPT ![w] = @ \ gone]
  /\ UNCHANGED <<create, shared, attached, starting, faults, requests, raced,
                 unbound>>

\* Mutant: the first call purges the job instead of stopping it.
StopJobByPurge(w) ==
  DestroyCall(w, "stop", {"job"}, "volume") /\ running' = running \ {w}

StopJob(w)   == DestroyCall(w, "stop", {}, "volume") /\ running' = running \ {w}

\* VolumeInUse is retried until the detach completes.
DeleteVolume(w) ==
  /\ w \notin attached
  /\ DestroyCall(w, "volume", {"volume"}, "purge")
  /\ UNCHANGED running

\* ... or the attempts are spent, the volume having stayed attached.
GiveUpVolume(w) ==
  /\ w \in attached
  /\ DestroyCall(w, "volume", {}, "failed")
  /\ UNCHANGED running

\* Mutant: the purge trusts the earlier stop.
PurgeStoppedJob(w) ==
  DestroyCall(w, "purge", {"job"}, "findtarget") /\ UNCHANGED running

PurgeJob(w)  == DestroyCall(w, "purge", {"job"}, "findtarget")
                  /\ running' = running \ {w}

\* Mutant: without a target there is nothing left to remove.
FindTargetOrReturn(w) ==
  /\ DestroyCall(w, "findtarget", {},
                 IF "target" \in has[w] THEN "grant" ELSE "done")
  /\ UNCHANGED running

\* Boundary's Destroy: grant and target only if the target is found.
FindTarget(w) ==
  /\ DestroyCall(w, "findtarget", {},
                 IF "target" \in has[w] THEN "grant" ELSE "hostset")
  /\ UNCHANGED running

RemoveGrant(w)   == DestroyCall(w, "grant", {"grant"}, "target") /\ UNCHANGED running

DeleteTarget(w)  ==
  /\ DestroyCall(w, "target", {"target", "hostsource", "credsource"}, "hostset")
  /\ UNCHANGED running

\* The host-set and the host the host-sync put in it (see HostSync).
DeleteHostSet(w) ==
  /\ DestroyCall(w, "hostset", {"hostset", "hostsource"}, "alias")
  /\ UNCHANGED running

DeleteAlias(w)   == DestroyCall(w, "alias", {"alias"}, "done") /\ UNCHANGED running

DestroyStep(w) ==
  \/ StopJob(w)
  \/ DeleteVolume(w)
  \/ GiveUpVolume(w)
  \/ PurgeJob(w)
  \/ FindTarget(w)
  \/ RemoveGrant(w)
  \/ DeleteTarget(w)
  \/ DeleteHostSet(w)
  \/ DeleteAlias(w)

--------------------------------------------------------------------------------
(* Failures                                                                *)

Fault == faults < MaxFaults /\ faults' = faults + 1

\* A call of Create fails, without effect or after it.
CreateFails(w) ==
  /\ create[w] \in CreateSteps \ {"done"}
  /\ Fault
  /\ create' = [create EXCEPT ![w] = "failed"]
  /\ \/ /\ UNCHANGED <<has, shared, running, raced>>
        /\ unbound' = (unbound \/ create[w] \in Binding)
     \/ /\ create[w] \notin DOMAIN Lookups
        /\ ~Refused(w, create[w])
        /\ Make(w, create[w])
        /\ unbound' = (unbound \/ After(create[w]) \in Binding)
  /\ UNCHANGED <<destroy, attached, starting, requests>>

\* A call of Destroy fails, without effect or (as the step after it) with.
DestroyFails(w) ==
  /\ destroy[w] \in DestroySteps
  /\ Fault
  /\ destroy' = [destroy EXCEPT ![w] = "failed"]
  /\ UNCHANGED <<create, has, shared, running, attached, starting, requests,
                 raced, unbound>>

\* The portal dies with every operation in progress.
Crash ==
  /\ Fault
  /\ create' = [w \in Workspaces |->
                  IF create[w] \in CreateSteps \ {"allocate", "done"}
                    THEN "failed" ELSE create[w]]
  /\ destroy' = [w \in Workspaces |->
                  IF destroy[w] \in DestroySteps THEN "failed" ELSE destroy[w]]
  /\ starting' = {}
  /\ unbound' = (unbound \/ \E w \in Workspaces : create[w] \in Binding)
  /\ UNCHANGED <<has, shared, running, attached, requests, raced>>

Next ==
  \/ \E w \in Workspaces :
       \/ CreateCall(w)
       \/ CreateRefused(w)
       \/ Lookup(w)
       \/ Attach(w)
       \/ Detach(w)
       \/ Stop(w)
       \/ StartRead(w)
       \/ StartRegister(w)
       \/ BeginDestroy(w)
       \/ DestroyStep(w)
       \/ CreateFails(w)
       \/ DestroyFails(w)
  \/ Crash

Spec == Init /\ [][Next]_vars

--------------------------------------------------------------------------------
(* Properties                                                              *)

\* The types of the variables; only a job Nomad has can run.
TypeOK ==
  /\ create \in [Workspaces -> CreateSteps \cup {"failed"}]
  /\ destroy \in [Workspaces -> DestroySteps \cup {"no", "done", "failed"}]
  /\ has \in [Workspaces -> SUBSET Own]
  /\ shared \subseteq Shared
  /\ running \subseteq {w \in Workspaces : Listed(w)}
  /\ attached \subseteq Workspaces
  /\ starting \subseteq Workspaces
  /\ faults \in 0 .. MaxFaults
  /\ requests \in 0 .. MaxRequests
  /\ raced \subseteq Workspaces
  /\ unbound \in BOOLEAN

\* A Destroy that returns nil leaves nothing of the workspace, whatever
\* earlier failures of Create or Destroy left behind, unless a Create or
\* Start of the same workspace went on after it began.
DestroyIsComplete ==
  \A w \in Workspaces : destroy[w] = "done" /\ w \notin raced => has[w] = {}

\* A home volume outlives its workspace's place in the list only if Create
\* itself never got as far as registering the job.
NoVolumeOrphanedByDestroy ==
  \A w \in Workspaces :
    (destroy[w] # "no" /\ ~Listed(w)) => "volume" \notin has[w]

\* A Create that succeeded, and was not destroyed since, has all its parts,
\* its grant is on a role that is scoped and bound to the developer's group,
\* or another Create is still binding it, and likewise for the alias role.
CreateIsUsable ==
  \A w \in Workspaces :
    (create[w] = "done" /\ destroy[w] = "no") =>
      /\ has[w] = Own
      /\ {"group", "role", "aliasrole", "aliasgrant"} \subseteq shared
      /\ \/ Binding \subseteq shared
         \/ unbound
         \/ \E v \in Workspaces : create[v] \in Binding

\* service.go lines 337-339: "With this order a failure leaves the (dead) job
\* listed and the whole Destroy is safe to re-run to convergence."
FailedDestroyStaysListed ==
  \A w \in Workspaces : destroy[w] = "failed" => Listed(w)

=============================================================================
