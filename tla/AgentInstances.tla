----------------------------- MODULE AgentInstances -----------------------------
(***************************************************************************)
(* The per-user instances of one published agent template                  *)
(* (portal/backend/internal/agents/instances.go): EnsureInstance and       *)
(* ChatInstance, which start a Nomad job on demand and stamp the row's     *)
(* LastActiveAt, DeleteInstance, and the reaper's ReapIdle, which stops    *)
(* what has been idle for longer than a TTL.                               *)
(*                                                                         *)
(* Each operation reads the row, calls Nomad and the agent, and writes the *)
(* whole row back.  Requests, deletes and the reaper run concurrently and  *)
(* nothing locks a row.  Chats of a template that is not published are     *)
(* refused before they have any effect and are left out.  An address is    *)
(* the number of the allocation that has it and is never used again.       *)
(***************************************************************************)
EXTENDS Naturals, FiniteSets

CONSTANTS
  Subjects,    \* users, each with at most one instance
  Clients,     \* requests of chats that can be in flight
  SubjectOf,   \* whose each client is
  TTL,         \* the reaper's idle limit
  MaxTime,     \* bound: clock
  MaxAllocs,   \* bound: allocations, all subjects together
  MaxChats,    \* bound: chats begun
  MaxDeletes,  \* bound: deletes begun
  MaxFaults    \* bound: failed calls, moves, slow boots and crashes

ASSUME InstancesAssumption ==
  /\ SubjectOf \in [Clients -> Subjects]
  /\ {TTL, MaxTime, MaxAllocs, MaxChats, MaxDeletes, MaxFaults} \subseteq Nat

VARIABLES
  now,       \* the clock
  row,       \* the stored instance of each subject
  alloc,     \* Nomad: the allocation of the subject's job, 0 when it has no job
  serving,   \* does that allocation answer yet?
  pc, inst,  \* each chat: where it is, and its copy of the row
  del,       \* each subject's delete: "idle", "purge" or "drop"
  passNow,   \* the reaper: the clock when its pass began,
  batch,     \*   subjects of its listing it has still to deal with,
  listed,    \*   its copies of their rows,
  reaping,   \*   the subject it has purged and is marking stopped
  allocs, chats, deletes, faults,   \* bounds
  \* history
  calm,      \* chats that nothing has disturbed since they began
  untidy     \* subjects whose job may have escaped its row (see JobTracked)

chatVars   == <<pc, inst>>
nomadVars  == <<alloc, serving>>
reaperVars == <<passNow, batch, listed, reaping>>
bounds     == <<allocs, chats, deletes, faults>>
history    == <<calm, untidy>>

vars == <<now, row, nomadVars, chatVars, del, reaperVars, bounds, history>>

NoRow     == [status |-> "none", job |-> FALSE, ep |-> 0, last |-> 0]
StoppedAt(t) == [status |-> "stopped", job |-> FALSE, ep |-> 0, last |-> t]

Init ==
  /\ now = 0
  /\ row = [s \in Subjects |-> NoRow]
  /\ alloc = [s \in Subjects |-> 0]
  /\ serving = [s \in Subjects |-> FALSE]
  /\ pc = [c \in Clients |-> "idle"]
  /\ inst = [c \in Clients |-> NoRow]
  /\ del = [s \in Subjects |-> "idle"]
  /\ passNow = 0
  /\ batch = {} /\ reaping = {}
  /\ listed = [s \in Subjects |-> NoRow]
  /\ allocs = 0 /\ chats = 0 /\ deletes = 0 /\ faults = 0
  /\ calm = {}
  /\ untidy = {}

Fault == faults < MaxFaults /\ faults' = faults + 1

ChatsOf(s) == {c \in Clients : SubjectOf[c] = s}
Busy       == {c \in Clients : pc[c] \notin {"idle", "answered", "failed"}}
Chatting(s) == ChatsOf(s) \cap Busy # {}

\* History: a change that chats of s in flight did not make themselves.
Disturbs(s) == calm' = calm \ ChatsOf(s)

\* History: a delete or a stop of s begins while s is chatting.
Overlaps(s) == untidy' = IF Chatting(s) THEN untidy \cup {s} ELSE untidy

\* The agent of s answers at the address `ep`.
Answers(s, ep) == ep # 0 /\ alloc[s] = ep /\ serving[s]

--------------------------------------------------------------------------------
(* Time, Nomad                                                             *)

Tick ==
  /\ now < MaxTime
  /\ now' = now + 1
  /\ UNCHANGED <<row, nomadVars, chatVars, del, reaperVars, bounds, history>>

\* The container of a placed allocation comes up.
Boot(s) ==
  /\ alloc[s] # 0
  /\ ~serving[s]
  /\ serving' = [serving EXCEPT ![s] = TRUE]
  /\ UNCHANGED <<now, row, alloc, chatVars, del, reaperVars, bounds, history>>

SetAlloc(s, a) ==
  /\ alloc' = [alloc EXCEPT ![s] = a]
  /\ serving' = [serving EXCEPT ![s] = FALSE]

NewAlloc(s) ==
  /\ allocs < MaxAllocs
  /\ allocs' = allocs + 1
  /\ SetAlloc(s, allocs + 1)

\* Nomad reschedules the job: another host and port.
Move(s) ==
  /\ alloc[s] # 0
  /\ Fault
  /\ NewAlloc(s)
  /\ Disturbs(s)
  /\ UNCHANGED <<now, row, chatVars, del, reaperVars, chats, deletes, untidy>>

\* Registering a job that is there leaves its allocation alone.
RegisterJob(s) ==
  IF alloc[s] = 0 THEN NewAlloc(s) ELSE UNCHANGED <<nomadVars, allocs>>

PurgeDone(s) == SetAlloc(s, 0) /\ UNCHANGED faults

\* Every caller ignores the error of a purge, so one that fails goes unnoticed.
PurgeLost(s) == alloc[s] # 0 /\ Fault /\ UNCHANGED nomadVars

--------------------------------------------------------------------------------
(* EnsureInstance                                                          *)

Goto(c, step) == pc' = [pc EXCEPT ![c] = step]

\* The chat ends, and its copy of the row with it.
End(c, result) == Goto(c, result) /\ inst' = [inst EXCEPT ![c] = NoRow]

\* What a step of a chat never touches.
Apart == UNCHANGED <<now, del, reaperVars, chats, deletes>>

\* Published; the row is read, and believed only as far as asking the agent.
BeginChat(c) ==
  LET s == SubjectOf[c] IN
    /\ c \notin Busy
    /\ chats < MaxChats
    /\ chats' = chats + 1
    /\ inst' = [inst EXCEPT ![c] = row[s]]
    /\ Goto(c, IF row[s].status = "running" /\ row[s].job THEN "probe"
                                                          ELSE "register")
    /\ calm' = calm \cup {c}
    /\ untidy' = IF del[s] # "idle" \/ s \in reaping THEN untidy \cup {s}
                                                     ELSE untidy
    /\ UNCHANGED <<now, row, nomadVars, del, reaperVars, allocs, deletes, faults>>

\* Mutant: a row that says running is believed.
ProbeNothing(c) ==
  /\ pc[c] = "probe"
  /\ Goto(c, "post")
  /\ Apart /\ UNCHANGED <<row, inst, nomadVars, allocs, faults, history>>

\* The job exists and /healthz passes: the instance is returned as it is.
Probe(c) ==
  /\ pc[c] = "probe"
  /\ Goto(c, IF Answers(SubjectOf[c], inst[c].ep) THEN "post" ELSE "register")
  /\ Apart /\ UNCHANGED <<row, inst, nomadVars, allocs, faults, history>>

Register(c) ==
  /\ pc[c] = "register"
  /\ RegisterJob(SubjectOf[c])
  /\ Goto(c, "place")
  /\ Apart /\ UNCHANGED <<row, inst, faults, history>>

\* The registration is refused, or made with its reply lost; nothing is undone.
RegisterFails(c) ==
  LET s == SubjectOf[c] IN
    /\ pc[c] = "register"
    /\ Fault
    /\ \/ UNCHANGED <<nomadVars, allocs, untidy>>
       \/ RegisterJob(s) /\ untidy' = untidy \cup {s}
    /\ calm' = calm \ {c}
    /\ End(c, "failed")
    /\ Apart /\ UNCHANGED row

\* ResolvePlacement: the address of the job's allocation, or none after 30
\* seconds because the job has gone.
Place(c) ==
  LET a == alloc[SubjectOf[c]] IN
    /\ pc[c] = "place"
    /\ inst' = [inst EXCEPT ![c].ep = a]
    /\ Goto(c, IF a # 0 THEN "save" ELSE "unplace")
    /\ Apart /\ UNCHANGED <<row, nomadVars, allocs, faults, history>>

SaveRow(c) ==
  LET r == [status |-> "running", job |-> TRUE, ep |-> inst[c].ep,
            last |-> now] IN
    /\ pc[c] = "save"
    /\ row' = [row EXCEPT ![SubjectOf[c]] = r]
    /\ inst' = [inst EXCEPT ![c] = r]
    /\ Goto(c, "wait")
    /\ Apart /\ UNCHANGED <<nomadVars, allocs, faults, history>>

\* ResolvePlacement or the upsert fails.
PlaceOrSaveFails(c) ==
  /\ pc[c] \in {"place", "save"}
  /\ Fault
  /\ calm' = calm \ {c}
  /\ Goto(c, "unplace")
  /\ Apart /\ UNCHANGED <<row, inst, nomadVars, allocs, untidy>>

\* Mutant: a failed start leaves the job it registered.
UnplaceKeepingJob(c) ==
  /\ pc[c] = "unplace"
  /\ End(c, "failed")
  /\ Apart /\ UNCHANGED <<row, nomadVars, allocs, faults, history>>

\* The job of a failed start is purged, whoever else has come to use it.
Unplace(c) ==
  LET s == SubjectOf[c] IN
    /\ pc[c] = "unplace"
    /\ \/ PurgeDone(s) /\ UNCHANGED untidy
       \/ PurgeLost(s) /\ untidy' = untidy \cup {s}
    /\ calm' = calm \ (ChatsOf(s) \ {c})
    /\ End(c, "failed")
    /\ Apart /\ UNCHANGED <<row, allocs>>

\* waitAgentReady polls /healthz of the address it has.
Ready(c) ==
  /\ pc[c] = "wait"
  /\ Answers(SubjectOf[c], inst[c].ep)
  /\ Goto(c, "post")
  /\ Apart /\ UNCHANGED <<row, inst, nomadVars, allocs, faults, history>>

\* 503, and the row and the job stay: the job has left that address, or it
\* boots for longer than the 90 seconds (counted as a fault).
NotReady(c) ==
  LET s == SubjectOf[c] IN
    /\ pc[c] = "wait"
    /\ ~Answers(s, inst[c].ep)
    /\ IF alloc[s] = inst[c].ep THEN Fault /\ calm' = calm \ {c}
                                ELSE UNCHANGED <<faults, calm>>
    /\ End(c, "failed")
    /\ Apart /\ UNCHANGED <<row, nomadVars, allocs, untidy>>

--------------------------------------------------------------------------------
(* ChatInstance, after EnsureInstance                                      *)

Post(c) ==
  /\ pc[c] = "post"
  /\ Goto(c, IF Answers(SubjectOf[c], inst[c].ep) THEN "stamp" ELSE "repost")
  /\ Apart /\ UNCHANGED <<row, inst, nomadVars, allocs, faults, history>>

\* Resolve the placement again and post once more.
Repost(c) ==
  LET s == SubjectOf[c] IN
    /\ pc[c] = "repost"
    /\ IF Answers(s, alloc[s])
         THEN Goto(c, "stamp") /\ inst' = [inst EXCEPT ![c].ep = alloc[s]]
         ELSE End(c, "failed")
    /\ Apart /\ UNCHANGED <<row, nomadVars, allocs, faults, history>>

\* LastActiveAt, by writing the whole copy back; an error is ignored.
Stamp(c) ==
  /\ pc[c] = "stamp"
  /\ \/ /\ row' = [row EXCEPT ![SubjectOf[c]] = [inst[c] EXCEPT !.last = now]]
        /\ UNCHANGED faults
     \/ Fault /\ UNCHANGED row
  /\ End(c, "answered")
  /\ Apart /\ UNCHANGED <<nomadVars, allocs, history>>

--------------------------------------------------------------------------------
(* DeleteInstance                                                          *)

BeginDelete(s) ==
  /\ del[s] = "idle"
  /\ row[s].status # "none"
  /\ deletes < MaxDeletes
  /\ deletes' = deletes + 1
  /\ del' = [del EXCEPT ![s] = IF row[s].job THEN "purge" ELSE "drop"]
  /\ Overlaps(s)
  /\ Disturbs(s)
  /\ UNCHANGED <<now, row, nomadVars, chatVars, reaperVars, allocs, chats, faults>>

DeletePurge(s) ==
  /\ del[s] = "purge"
  /\ \/ PurgeDone(s) /\ UNCHANGED untidy
     \/ PurgeLost(s) /\ untidy' = untidy \cup {s}
  /\ Disturbs(s)
  /\ del' = [del EXCEPT ![s] = "drop"]
  /\ UNCHANGED <<now, row, chatVars, reaperVars, allocs, chats, deletes>>

\* The row is dropped, or stays when the store fails.
DeleteDrop(s) ==
  /\ del[s] = "drop"
  /\ \/ row' = [row EXCEPT ![s] = NoRow] /\ UNCHANGED faults
     \/ Fault /\ UNCHANGED row
  /\ Disturbs(s)
  /\ del' = [del EXCEPT ![s] = "idle"]
  /\ UNCHANGED <<now, nomadVars, chatVars, reaperVars, allocs, chats, deletes,
                 untidy>>

--------------------------------------------------------------------------------
(* ReapIdle                                                                *)

ReapList ==
  /\ batch = {}
  /\ passNow' = now
  /\ batch' = {s \in Subjects : row[s].status = "running"}
  /\ batch' # {}
  /\ listed' = row
  /\ UNCHANGED <<now, row, nomadVars, chatVars, del, reaping, bounds, history>>

\* Mutant: the operands are swapped and nothing is ever idle.
NeverIdleAt(r, t) == r.last > t + TTL

IdleAt(r, t) == t > r.last + TTL

ReapSkip(s) ==
  /\ s \in batch /\ reaping = {}
  /\ ~IdleAt(listed[s], passNow)
  /\ batch' = batch \ {s}
  /\ UNCHANGED <<now, row, nomadVars, chatVars, del, passNow, listed, reaping,
                 bounds, history>>

ReapPurge(s) ==
  /\ s \in batch /\ reaping = {}
  /\ IdleAt(listed[s], passNow)
  /\ \/ PurgeDone(s) /\ Overlaps(s)
     \/ PurgeLost(s) /\ untidy' = untidy \cup {s}
  /\ Disturbs(s)
  /\ reaping' = {s}
  /\ UNCHANGED <<now, row, chatVars, del, passNow, batch, listed, allocs, chats,
                 deletes>>

\* Mutant: the stopped row keeps its JobID.
ReapStopKeepingJob(s) ==
  /\ s \in reaping
  /\ row' = [row EXCEPT ![s] = [StoppedAt(listed[s].last) EXCEPT !.job = TRUE]]
  /\ Disturbs(s)
  /\ reaping' = {} /\ batch' = batch \ {s}
  /\ UNCHANGED <<now, nomadVars, chatVars, del, passNow, listed, bounds, untidy>>

\* The listed copy goes back as stopped, whatever has become of the row; the
\* pass goes on when the store fails.
ReapStop(s) ==
  /\ s \in reaping
  /\ \/ row' = [row EXCEPT ![s] = StoppedAt(listed[s].last)] /\ UNCHANGED faults
     \/ Fault /\ UNCHANGED row
  /\ Disturbs(s)
  /\ reaping' = {} /\ batch' = batch \ {s}
  /\ UNCHANGED <<now, nomadVars, chatVars, del, passNow, listed, allocs, chats,
                 deletes, untidy>>

--------------------------------------------------------------------------------

\* The portal dies.  A job registered and not yet in its row is left behind.
Crash ==
  /\ Fault
  /\ pc' = [c \in Clients |-> IF c \in Busy THEN "idle" ELSE pc[c]]
  /\ inst' = [c \in Clients |-> NoRow]
  /\ calm' = calm \ Busy
  /\ del' = [s \in Subjects |-> "idle"]
  /\ batch' = {} /\ reaping' = {}
  /\ untidy' = untidy \cup {SubjectOf[c] :
                 c \in {d \in Clients : pc[d] \in {"place", "save", "unplace"}}}
  /\ UNCHANGED <<now, row, nomadVars, passNow, listed, allocs, chats, deletes>>

Chat(c) ==
  \/ BeginChat(c) \/ Probe(c)
  \/ Register(c) \/ RegisterFails(c)
  \/ Place(c) \/ SaveRow(c) \/ PlaceOrSaveFails(c) \/ Unplace(c)
  \/ Ready(c) \/ NotReady(c)
  \/ Post(c) \/ Repost(c) \/ Stamp(c)

Delete(s) == BeginDelete(s) \/ DeletePurge(s) \/ DeleteDrop(s)

Reap == ReapList \/ \E s \in Subjects : ReapSkip(s) \/ ReapPurge(s) \/ ReapStop(s)

Next ==
  \/ Tick
  \/ \E s \in Subjects : Boot(s) \/ Move(s) \/ Delete(s)
  \/ \E c \in Clients : Chat(c)
  \/ Reap
  \/ Crash

\* The reaper's ticker fires until shutdown and a pass never waits for a chat.
Spec == Init /\ [][Next]_vars /\ WF_vars(Reap)

--------------------------------------------------------------------------------

Steps == {"idle", "probe", "register", "place", "save", "unplace", "wait",
          "post", "repost", "stamp", "answered", "failed"}

\* What a chat can hold in its copy of the row.
Copies == [status : {"none", "running", "stopped"}, job : BOOLEAN,
           ep : 0 .. MaxAllocs, last : 0 .. MaxTime]

\* A stored row is missing, running with a job and an address, or stopped
\* with neither.
Rows == {r \in Copies : /\ r.status = "running" <=> r.job
                        /\ r.job <=> r.ep # 0
                        /\ r.status = "none" => r.last = 0}

\* The types of the variables (instances.go).
TypeOK ==
  /\ now \in 0 .. MaxTime /\ passNow \in 0 .. now
  /\ row \in [Subjects -> Rows] /\ listed \in [Subjects -> Rows]
  /\ alloc \in [Subjects -> 0 .. MaxAllocs]
  /\ serving \in [Subjects -> BOOLEAN]
  /\ pc \in [Clients -> Steps]
  /\ inst \in [Clients -> Copies]
  /\ del \in [Subjects -> {"idle", "purge", "drop"}]
  /\ batch \subseteq Subjects /\ reaping \subseteq batch
  /\ allocs \in 0 .. MaxAllocs /\ chats \in 0 .. MaxChats
  /\ deletes \in 0 .. MaxDeletes /\ faults \in 0 .. MaxFaults
  /\ calm \subseteq Clients /\ untidy \subseteq Subjects

\* A running job is in its row, where the reaper and a delete find it, unless
\* a chat of its subject is still at work: EnsureInstance undoes what it
\* cannot record, and DeleteInstance and ReapIdle purge before they forget
\* (instances.go:138-151, 201-205, 226-232).  It takes a delete or a stop
\* that overlaps a chat, a lost reply or purge, or a crash to lose one.
JobTracked ==
  \A s \in Subjects \ untidy :
    alloc[s] # 0 /\ ~Chatting(s) => row[s].status = "running" /\ row[s].job

\* However stale the row is when a chat begins (its job gone, moved, stopped
\* by the reaper, its start half done before a crash), a chat that nothing
\* disturbs is answered (instances.go:94-161).
CalmChatServed ==
  \A c \in calm : pc[c] # "failed"

\* No chat has been stamped on the row of s for longer than the limit.
Overdue(s) == row[s].status = "running" /\ now > row[s].last + TTL

\* A tracked instance that stays idle is stopped (instances.go:211-239,
\* main.go:231-250).
IdleIsReaped ==
  \A s \in Subjects :
    []<>~(alloc[s] # 0 /\ s \notin untidy /\ Overdue(s))

\* The comment on ChatInstance: it stamps LastActiveAt "so the idle reaper
\* leaves an active session alone" (instances.go:163-164).
ActiveSessionLeftAlone ==
  [][\A s \in reaping' \ reaping :
       row[s].status = "running" => Overdue(s)]_vars

=============================================================================
