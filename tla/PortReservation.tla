---------------------------- MODULE PortReservation ----------------------------
(***************************************************************************)
(* How the portal gives every workspace a host port of its own             *)
(* (portal/backend/internal/workspace/service.go, portgen, and the port    *)
(* listing of hashistack/nomad.go).                                        *)
(*                                                                         *)
(* A Create reads the ports of every Nomad job one job at a time, then     *)
(* picks the lowest port that is neither in what it read nor in the        *)
(* portal's in-memory `reserved` set, under a mutex, and keeps that        *)
(* reservation until it returns.  Creates of many users run concurrently   *)
(* with each other, with Destroy (which purges a job), with Start (which   *)
(* reads a job and registers it again) and with restarts of the portal.    *)
(*                                                                         *)
(* A workspace stands for the one Create that made it: job ids are fresh.  *)
(***************************************************************************)
EXTENDS Naturals

CONSTANTS
  Workspaces,       \* the Creates, each with the job it registers
  MinPort, MaxPort, \* portgen.Range
  MaxErrors,        \* bound: reads Nomad fails and replies of it that are lost
  MaxRestarts       \* bound: restarts of the portal process

ASSUME RangeAssumption ==
  /\ MinPort \in Nat \ {0}
  /\ MaxPort \in Nat
  /\ MinPort <= MaxPort

ASSUME BoundsAssumption == MaxErrors \in Nat /\ MaxRestarts \in Nat

Ports  == MinPort .. MaxPort
NoPort == 0

VARIABLES
  pc,         \* where each Create is
  unread,     \* jobs its listing named whose ports it has still to read
  used,       \* the ports it has read: the `used` snapshot
  port,       \* the port it was given
  reserved,   \* the portal's in-memory set of in-flight ports
  jobs,       \* the workspace jobs Nomad knows, running or stopped
  starting,   \* jobs a Start has read and is about to register again
  errors, restarts,   \* bounds
  before,     \* history: jobs whose Create had returned when c listed
  missed      \* history: jobs c listed and could not read

vars == <<pc, unread, used, port, reserved, jobs, starting, errors,
          restarts, before, missed>>

Phases == {"new", "reading", "held", "registered", "returned", "failed"}

InFlight == {"reading", "held", "registered"}
Holding  == {"held", "registered"}

Holders == {c \in Workspaces : pc[c] \in Holding}

Init ==
  /\ pc = [c \in Workspaces |-> "new"]
  /\ unread = [c \in Workspaces |-> {}]
  /\ used = [c \in Workspaces |-> {}]
  /\ port = [c \in Workspaces |-> NoPort]
  /\ reserved = {}
  /\ jobs = {}
  /\ starting = {}
  /\ errors = 0
  /\ restarts = 0
  /\ before = [c \in Workspaces |-> {}]
  /\ missed = [c \in Workspaces |-> {}]

Goto(c, phase) == pc' = [pc EXCEPT ![c] = phase]

--------------------------------------------------------------------------------
(* UsedPorts: one listing over every namespace, then one read per job.     *)

ListJobs(c) ==
  /\ pc[c] = "new"
  /\ Goto(c, "reading")
  /\ unread' = [unread EXCEPT ![c] = jobs]
  /\ before' = [before EXCEPT ![c] = {w \in jobs : pc[w] = "returned"}]
  /\ UNCHANGED <<used, port, reserved, jobs, starting, errors, restarts,
                 missed>>

\* The checks before the reservation, or the listing, fail the Create.
FailBeforeReserve(c) ==
  /\ pc[c] = "new"
  /\ Goto(c, "failed")
  /\ UNCHANGED <<unread, used, port, reserved, jobs, starting, errors,
                 restarts, before, missed>>

ReadJob(c, w) ==
  /\ pc[c] = "reading"
  /\ w \in unread[c] \cap jobs
  /\ unread' = [unread EXCEPT ![c] = @ \ {w}]
  /\ used' = [used EXCEPT ![c] = @ \cup {port[w]}]
  /\ UNCHANGED <<pc, port, reserved, jobs, starting, errors, restarts,
                 before, missed>>

\* A job whose read fails is left out: it was purged meanwhile, or the read
\* met a transient error.
SkipJob(c, w) ==
  /\ pc[c] = "reading"
  /\ w \in unread[c]
  /\ w \in jobs => errors < MaxErrors
  /\ unread' = [unread EXCEPT ![c] = @ \ {w}]
  /\ missed' = [missed EXCEPT ![c] = @ \cup {w}]
  /\ errors' = IF w \in jobs THEN errors + 1 ELSE errors
  /\ UNCHANGED <<pc, used, port, reserved, jobs, starting, restarts, before>>

--------------------------------------------------------------------------------
(* reserve and portgen.Allocate, in one critical section of Service.mu.    *)

\* Mutants: the two halves of the union dropped, and a range one too long.
FreeIgnoringReserved(c) == Ports \ used[c]
FreeIgnoringUsed(c)     == Ports \ reserved
FreePastRange(c)        == (MinPort .. MaxPort + 1) \ (used[c] \cup reserved)

Free(c) == Ports \ (used[c] \cup reserved)

Reserve(c) ==
  /\ pc[c] = "reading"
  /\ unread[c] = {}
  /\ \E p \in Free(c) :
       /\ \A q \in Free(c) : p <= q
       /\ port' = [port EXCEPT ![c] = p]
       /\ reserved' = reserved \cup {p}
  /\ Goto(c, "held")
  /\ UNCHANGED <<unread, used, jobs, starting, errors, restarts, before,
                 missed>>

\* "no free port in range"
Exhausted(c) ==
  /\ pc[c] = "reading"
  /\ unread[c] = {}
  /\ Free(c) = {}
  /\ Goto(c, "failed")
  /\ UNCHANGED <<unread, used, port, reserved, jobs, starting, errors,
                 restarts, before, missed>>

--------------------------------------------------------------------------------
(* The rest of Create, which runs with `defer release()` pending.          *)

\* Mutant: an error return that misses the deferred release.
AbortKeepingPort(c) ==
  /\ pc[c] = "held"
  /\ Goto(c, "failed")
  /\ UNCHANGED <<unread, used, port, reserved, jobs, starting, errors,
                 restarts, before, missed>>

\* Template, shared volumes, rendering, home volume or Register fails.
Abort(c) ==
  /\ pc[c] = "held"
  /\ Goto(c, "failed")
  /\ reserved' = reserved \ {port[c]}
  /\ UNCHANGED <<unread, used, port, jobs, starting, errors, restarts,
                 before, missed>>

Register(c) ==
  /\ pc[c] = "held"
  /\ Goto(c, "registered")
  /\ jobs' = jobs \cup {c}
  /\ UNCHANGED <<unread, used, port, reserved, starting, errors, restarts,
                 before, missed>>

\* Nomad registers the job and the reply is lost: Create returns the error.
RegisterLost(c) ==
  /\ pc[c] = "held"
  /\ errors < MaxErrors
  /\ errors' = errors + 1
  /\ Goto(c, "failed")
  /\ jobs' = jobs \cup {c}
  /\ reserved' = reserved \ {port[c]}
  /\ UNCHANGED <<unread, used, port, starting, restarts, before, missed>>

\* Boundary provisioning has succeeded or failed; either way Create returns.
Return(c) ==
  /\ pc[c] = "registered"
  /\ Goto(c, "returned")
  /\ reserved' = reserved \ {port[c]}
  /\ UNCHANGED <<unread, used, port, jobs, starting, errors, restarts,
                 before, missed>>

--------------------------------------------------------------------------------
(* What else adds or removes a job.                                        *)

\* Destroy reaches its PurgeJob.  Any listed job can be destroyed.
Purge(w) ==
  /\ w \in jobs
  /\ jobs' = jobs \ {w}
  /\ UNCHANGED <<pc, unread, used, port, reserved, starting, errors,
                 restarts, before, missed>>

\* StartJob reads the definition Nomad kept ...
StartRead(w) ==
  /\ w \in jobs
  /\ starting' = starting \cup {w}
  /\ UNCHANGED <<pc, unread, used, port, reserved, jobs, errors, restarts,
                 before, missed>>

\* ... and registers what it read, whatever happened to the job meanwhile.
StartRegister(w) ==
  /\ w \in starting
  /\ starting' = starting \ {w}
  /\ jobs' = jobs \cup {w}
  /\ UNCHANGED <<pc, unread, used, port, reserved, errors, restarts,
                 before, missed>>

\* The portal dies: its Creates and Starts with it, and `reserved` is empty
\* in the next process.
Restart ==
  /\ restarts < MaxRestarts
  /\ restarts' = restarts + 1
  /\ pc' = [c \in Workspaces |->
              IF pc[c] \in InFlight THEN "failed" ELSE pc[c]]
  /\ reserved' = {}
  /\ starting' = {}
  /\ UNCHANGED <<unread, used, port, jobs, errors, before, missed>>

CreateStep(c) ==
  \/ ListJobs(c)
  \/ FailBeforeReserve(c)
  \/ \E w \in Workspaces : ReadJob(c, w)
  \/ \E w \in Workspaces : SkipJob(c, w)
  \/ Reserve(c)
  \/ Exhausted(c)
  \/ Abort(c)
  \/ Register(c)
  \/ RegisterLost(c)
  \/ Return(c)

JobStep(w) == Purge(w) \/ StartRead(w) \/ StartRegister(w)

Next ==
  \/ \E c \in Workspaces : CreateStep(c)
  \/ \E w \in Workspaces : JobStep(w)
  \/ Restart

Spec == Init /\ [][Next]_vars

--------------------------------------------------------------------------------
(* Properties                                                              *)

\* The types of the variables; a reserved port is one of the configured range.
TypeOK ==
  /\ pc \in [Workspaces -> Phases]
  /\ unread \in [Workspaces -> SUBSET Workspaces]
  /\ used \in [Workspaces -> SUBSET (Ports \cup {NoPort})]
  /\ port \in [Workspaces -> Ports \cup {NoPort}]
  /\ reserved \subseteq Ports
  /\ jobs \subseteq Workspaces
  /\ starting \subseteq Workspaces
  /\ errors \in 0 .. MaxErrors
  /\ restarts \in 0 .. MaxRestarts
  /\ before \in [Workspaces -> SUBSET Workspaces]
  /\ missed \in [Workspaces -> SUBSET Workspaces]

\* The in-memory set is exactly the ports of the Creates now between their
\* reservation and their return: no error path or restart leaks a port, and
\* no return gives back a port another Create still holds.
ReservationsAccounted == reserved = {port[c] : c \in Holders}

\* A Create that begins after another has returned, and whose scan read every
\* job it listed, never shares a port with it while both jobs exist, whatever
\* Destroys, Starts and restarts happened around them.
SerialCreatesDistinct ==
  \A c, w \in jobs :
    (w \in before[c] /\ missed[c] = {} /\ c # w) => port[c] # port[w]

\* The reservation implements PortPool: two Creates in flight never hold the
\* same port, and a held port comes back only when its own Create returns or
\* the portal dies.
Lease == [c \in Workspaces |-> IF c \in Holders THEN port[c] ELSE NoPort]

Pool == INSTANCE PortPool WITH Clients <- Workspaces, lease <- Lease

ImplementsPool == Pool!Spec

\* What the comments on Service.mu, reserve and portgen say: all published
\* workspaces have distinct ports (service.go lines 49-52 and 73-75).
PublishedPortsDistinct ==
  \A c, w \in jobs : c # w => port[c] # port[w]

=============================================================================
