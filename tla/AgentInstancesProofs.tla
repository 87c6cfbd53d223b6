-------------------------- MODULE AgentInstancesProofs --------------------------
(***************************************************************************)
(* Proofs about AgentInstances, for any users and clients, any idle limit  *)
(* and any bounds.                                                         *)
(***************************************************************************)
EXTENDS AgentInstances, TLAPS

(* The inductive invariant.  A job is in its row or in the hands of a chat *)
(* that will record or undo it (Recorded); a delete or a stop that nobody  *)
(* chats beside has purged the job before it writes (RemovedAlone); and a  *)
(* chat that nothing disturbs keeps the address it was given (Served).     *)

\* A chat that has an instance has a running one, with an address.
RunningCopy == \A c \in Clients :
  /\ pc[c] \in {"probe", "wait", "post", "repost", "stamp"} =>
       inst[c].status = "running" /\ inst[c].job
  /\ pc[c] \in {"probe", "save", "wait", "post", "repost", "stamp"} =>
       inst[c].ep # 0

\* A chat between the registration and the row, or undoing the registration.
Recording(c) == pc[c] \in {"place", "save", "unplace"}

Recorded == \A s \in Subjects \ untidy :
  alloc[s] # 0 =>
    row[s].status = "running" \/ \E c \in Clients : SubjectOf[c] = s /\ Recording(c)

RemovedAlone == \A s \in Subjects \ untidy :
  /\ del[s] # "idle" \/ s \in reaping => ~Chatting(s)
  /\ del[s] = "drop" \/ s \in reaping => alloc[s] = 0

Served == \A c \in calm :
  /\ pc[c] \notin {"unplace", "failed"}
  /\ pc[c] = "place" => alloc[SubjectOf[c]] # 0
  /\ pc[c] \in {"save", "wait"} => alloc[SubjectOf[c]] = inst[c].ep
  /\ pc[c] \in {"post", "repost"} =>
       alloc[SubjectOf[c]] # 0 /\ serving[SubjectOf[c]]

Typed == TypeOK /\ RunningCopy
Kept  == Recorded /\ RemovedAlone /\ Served

\* The inductive invariant.
IInv == Typed /\ Kept

--------------------------------------------------------------------------------

LEMMA Bounds ==
  /\ TTL \in Nat /\ MaxTime \in Nat /\ MaxAllocs \in Nat
  /\ MaxChats \in Nat /\ MaxDeletes \in Nat /\ MaxFaults \in Nat
  /\ \A c \in Clients : SubjectOf[c] \in Subjects
BY InstancesAssumption

\* A chat can copy a row.
LEMMA RowIsCopy ==
  ASSUME NEW r \in Rows
  PROVE  /\ r \in Copies
         /\ r.status \in {"none", "running", "stopped"} /\ r.job \in BOOLEAN
         /\ r.ep \in 0 .. MaxAllocs /\ r.last \in 0 .. MaxTime
         /\ r.status = "running" => r.job /\ r.ep # 0
BY DEF Rows, Copies

LEMMA RowKinds ==
  /\ NoRow \in Rows /\ NoRow \in Copies
  /\ \A t \in 0 .. MaxTime : StoppedAt(t) \in Rows
  /\ \A r \in Copies : r.status = "running" /\ r.job /\ r.ep # 0 => r \in Rows
BY Bounds DEF Rows, Copies, NoRow, StoppedAt

\* A chat's copy with another address or another stamp.
LEMMA CopyExcept ==
  ASSUME NEW r \in Copies, NEW a \in 0 .. MaxAllocs, NEW t \in 0 .. MaxTime
  PROVE  /\ [r EXCEPT !.ep = a] \in Copies
         /\ [r EXCEPT !.ep = a].ep = a
         /\ [r EXCEPT !.ep = a].status = r.status
         /\ [r EXCEPT !.ep = a].job = r.job
         /\ r.status = "running" /\ r.job /\ r.ep # 0 =>
              [r EXCEPT !.last = t] \in Rows
<1>1. /\ [r EXCEPT !.ep = a] \in Copies
      /\ [r EXCEPT !.ep = a].ep = a
      /\ [r EXCEPT !.ep = a].status = r.status
      /\ [r EXCEPT !.ep = a].job = r.job
  BY DEF Copies
<1>2. /\ [r EXCEPT !.last = t] \in Copies
      /\ [r EXCEPT !.last = t].ep = r.ep
      /\ [r EXCEPT !.last = t].status = r.status
      /\ [r EXCEPT !.last = t].job = r.job
  BY DEF Copies
<1>. QED  BY <1>1, <1>2, RowKinds

\* What Nomad holds keeps its type.
AllocTyped ==
  /\ alloc \in [Subjects -> 0 .. MaxAllocs]
  /\ serving \in [Subjects -> BOOLEAN]
  /\ allocs \in 0 .. MaxAllocs

LEMMA RegisterTyped ==
  ASSUME AllocTyped, NEW s \in Subjects, RegisterJob(s)
  PROVE  AllocTyped' /\ alloc'[s] # 0
<1>1. CASE alloc[s] = 0
  <2>1. allocs + 1 \in 1 .. MaxAllocs
    BY <1>1, Bounds DEF AllocTyped, RegisterJob, NewAlloc
  <2>2. /\ allocs' = allocs + 1
        /\ alloc' = [alloc EXCEPT ![s] = allocs + 1]
        /\ serving' = [serving EXCEPT ![s] = FALSE]
    BY <1>1 DEF RegisterJob, NewAlloc, SetAlloc
  <2>. QED  BY <2>1, <2>2, Bounds DEF AllocTyped
<1>2. CASE alloc[s] # 0
  BY <1>2 DEF AllocTyped, RegisterJob, nomadVars
<1>. QED  BY <1>1, <1>2

LEMMA PurgeTyped ==
  ASSUME TypeOK, NEW s \in Subjects, PurgeDone(s) \/ PurgeLost(s)
  PROVE  /\ alloc' \in [Subjects -> 0 .. MaxAllocs]
         /\ serving' \in [Subjects -> BOOLEAN]
         /\ faults' \in 0 .. MaxFaults
<1>1. CASE PurgeDone(s)
  BY <1>1, Bounds DEF TypeOK, PurgeDone, SetAlloc
<1>2. CASE PurgeLost(s)
  BY <1>2, Bounds DEF TypeOK, PurgeLost, Fault, nomadVars
<1>. QED  BY <1>1, <1>2

LEMMA InitIInv == Init => IInv
<1> SUFFICES ASSUME Init PROVE IInv
  OBVIOUS
<1>1. /\ now \in 0 .. MaxTime /\ passNow \in 0 .. now
      /\ row \in [Subjects -> Rows] /\ listed \in [Subjects -> Rows]
      /\ inst \in [Clients -> Copies]
  BY Bounds, RowKinds DEF Init
<1>2. /\ alloc \in [Subjects -> 0 .. MaxAllocs]
      /\ pc \in [Clients -> Steps]
      /\ del \in [Subjects -> {"idle", "purge", "drop"}]
  BY Bounds DEF Init, Steps
<1>3. TypeOK
  BY <1>1, <1>2, Bounds DEF Init, TypeOK, Copies
<1>. QED
  BY <1>3 DEF Init, IInv, Typed, Kept, RunningCopy, Recorded, RemovedAlone, Served

\* Every step keeps the types: one step of the proof per action.
LEMMA NextTyped == IInv /\ [Next]_vars => Typed'
<1> SUFFICES ASSUME IInv, [Next]_vars PROVE Typed'
  OBVIOUS
<1> USE Bounds DEF IInv, Typed, TypeOK, RunningCopy, Steps, chatVars, nomadVars,
   reaperVars, bounds, history
<1>0. /\ inst \in [Clients -> Copies]
      /\ AllocTyped
  BY DEF AllocTyped
<1>1. ASSUME NEW s \in Subjects, Boot(s) PROVE Typed'
  BY <1>1 DEF Boot
<1>2. ASSUME NEW s \in Subjects, Move(s) PROVE Typed'
  BY <1>2 DEF Move, Fault, NewAlloc, SetAlloc, Disturbs
<1>3. ASSUME NEW c \in Clients, BeginChat(c) PROVE Typed'
  BY <1>3, <1>0, RowIsCopy DEF BeginChat, Goto, Busy
<1>4. ASSUME NEW c \in Clients, Probe(c) PROVE Typed'
  BY <1>4 DEF Probe, Goto, Apart, Answers
<1>5. ASSUME NEW c \in Clients, Register(c) PROVE Typed'
  <2>1. AllocTyped'
    BY <1>5, <1>0, RegisterTyped DEF Register
  <2>. QED  BY <1>5, <1>0, <2>1 DEF Register, Goto, Apart, AllocTyped
<1>6. ASSUME NEW c \in Clients, RegisterFails(c) PROVE Typed'
  <2>1. AllocTyped' /\ untidy' \subseteq Subjects
    BY <1>6, <1>0, RegisterTyped DEF RegisterFails, AllocTyped
  <2>. QED  BY <1>6, <1>0, <2>1, RowKinds
       DEF RegisterFails, Goto, End, Apart, Fault, AllocTyped, NoRow
<1>7. ASSUME NEW c \in Clients, Place(c) PROVE Typed'
  <2>1. inst' \in [Clients -> Copies]
    BY <1>7, <1>0, CopyExcept DEF Place
  <2>. QED  BY <1>7, <1>0, <2>1, CopyExcept DEF Place, Goto, Apart
<1>8. ASSUME NEW c \in Clients, SaveRow(c) PROVE Typed'
  <2>1. inst'[c] \in Copies /\ inst'[c] \in Rows
    BY <1>8, RowKinds DEF SaveRow, Copies
  <2>. QED  BY <1>8, <1>0, <2>1 DEF SaveRow, Goto, Apart
<1>9. ASSUME NEW c \in Clients, PlaceOrSaveFails(c) PROVE Typed'
  BY <1>9 DEF PlaceOrSaveFails, Goto, Apart, Fault
<1>10. ASSUME NEW c \in Clients, Unplace(c) PROVE Typed'
  <2>1. AllocTyped' /\ faults' \in 0 .. MaxFaults /\ untidy' \subseteq Subjects
    BY <1>10, PurgeTyped DEF Unplace, Apart, AllocTyped, nomadVars
  <2>. QED  BY <1>10, <1>0, <2>1, RowKinds DEF Unplace, Goto, End, Apart, AllocTyped
<1>11. ASSUME NEW c \in Clients, Ready(c) PROVE Typed'
  BY <1>11 DEF Ready, Goto, Apart, Answers
<1>12. ASSUME NEW c \in Clients, NotReady(c) PROVE Typed'
  BY <1>12, <1>0, RowKinds DEF NotReady, Goto, End, Apart, Fault
<1>13. ASSUME NEW c \in Clients, Post(c) PROVE Typed'
  BY <1>13 DEF Post, Goto, Apart, Answers
<1>14. ASSUME NEW c \in Clients, Repost(c) PROVE Typed'
  <2>1. CASE Answers(SubjectOf[c], alloc[SubjectOf[c]])
    <3> DEFINE a == alloc[SubjectOf[c]]
    <3>1. a \in 0 .. MaxAllocs /\ a # 0 /\ inst[c] \in Copies
      BY <1>0, <2>1 DEF Answers, AllocTyped
    <3>2. /\ inst' = [inst EXCEPT ![c] = [inst[c] EXCEPT !.ep = a]]
          /\ pc' = [pc EXCEPT ![c] = "stamp"]
      BY <1>14, <1>0, <2>1 DEF Repost, Goto
    <3> HIDE DEF a
    <3>3. inst'[c] \in Copies /\ inst'[c].ep = a
          /\ inst'[c].status = inst[c].status /\ inst'[c].job = inst[c].job
      <4>1. inst'[c] = [inst[c] EXCEPT !.ep = a]
        BY <1>0, <3>2
      <4>2. 0 \in 0 .. MaxTime
        OBVIOUS
      <4>. HIDE DEF IInv, Typed, TypeOK, RunningCopy
      <4>3. /\ [inst[c] EXCEPT !.ep = a] \in Copies
            /\ [inst[c] EXCEPT !.ep = a].ep = a
            /\ [inst[c] EXCEPT !.ep = a].status = inst[c].status
            /\ [inst[c] EXCEPT !.ep = a].job = inst[c].job
        BY <3>1, <4>2, CopyExcept
      <4>. QED  BY <4>1, <4>3
    <3>. QED  BY <1>14, <1>0, <3>1, <3>2, <3>3 DEF Repost, Apart
  <2>2. CASE ~Answers(SubjectOf[c], alloc[SubjectOf[c]])
    BY <1>14, <1>0, <2>2, RowKinds DEF Repost, Goto, End, Apart
  <2>. QED  BY <2>1, <2>2
<1>15. ASSUME NEW c \in Clients, Stamp(c) PROVE Typed'
  <2>1. inst' \in [Clients -> Copies]
    BY <1>15, <1>0, RowKinds DEF Stamp, End
  <2>2. [inst[c] EXCEPT !.last = now] \in Rows
    BY <1>15, <1>0, CopyExcept DEF Stamp
  <2>3. row' \in [Subjects -> Rows]
    BY <1>15, <2>2 DEF Stamp
  <2>. QED  BY <1>15, <1>0, <2>1, <2>3 DEF Stamp, Goto, End, Apart, Fault
<1>16. ASSUME NEW s \in Subjects, BeginDelete(s) PROVE Typed'
  BY <1>16 DEF BeginDelete, Overlaps, Disturbs
<1>17. ASSUME NEW s \in Subjects, DeletePurge(s) PROVE Typed'
  <2>1. AllocTyped' /\ faults' \in 0 .. MaxFaults /\ untidy' \subseteq Subjects
    BY <1>17, PurgeTyped DEF DeletePurge, AllocTyped
  <2>. QED  BY <1>17, <2>1 DEF DeletePurge, Disturbs, AllocTyped
<1>18. ASSUME NEW s \in Subjects, DeleteDrop(s) PROVE Typed'
  <2>1. row' \in [Subjects -> Rows]
    BY <1>18, RowKinds DEF DeleteDrop
  <2>2. faults' \in 0 .. MaxFaults
    BY <1>18 DEF DeleteDrop, Fault
  <2>. QED  BY <1>18, <2>1, <2>2 DEF DeleteDrop, Disturbs
<1>19. ASSUME NEW s \in Subjects, ReapSkip(s) PROVE Typed'
  BY <1>19 DEF ReapSkip
<1>20. ASSUME NEW s \in Subjects, ReapPurge(s) PROVE Typed'
  <2>1. AllocTyped' /\ faults' \in 0 .. MaxFaults /\ untidy' \subseteq Subjects
    BY <1>20, PurgeTyped DEF ReapPurge, Overlaps, AllocTyped
  <2>. QED  BY <1>20, <2>1 DEF ReapPurge, Disturbs, AllocTyped
<1>21. ASSUME NEW s \in Subjects, ReapStop(s) PROVE Typed'
  <2>1. row' \in [Subjects -> Rows]
    BY <1>21, RowKinds, RowIsCopy DEF ReapStop
  <2>. QED  BY <1>21, <2>1 DEF ReapStop, Disturbs, Fault
<1>22. ASSUME Tick PROVE Typed'
  BY <1>22 DEF Tick
<1>23. ASSUME ReapList PROVE Typed'
  BY <1>23 DEF ReapList
<1>24. ASSUME Crash PROVE Typed'
  BY <1>24, <1>0, RowKinds DEF Crash, Fault, Busy
<1>25. ASSUME UNCHANGED vars PROVE Typed'
  BY <1>25 DEF vars
<1>. QED
  BY <1>1, <1>2, <1>3, <1>4, <1>5, <1>6, <1>7, <1>8, <1>9, <1>10, <1>11, <1>12,
     <1>13, <1>14, <1>15, <1>16, <1>17, <1>18, <1>19, <1>20, <1>21, <1>22,
     <1>23, <1>24, <1>25 DEF Next, Chat, Delete, Reap

\* Every step keeps the rest of the invariant.
LEMMA NextKept == IInv /\ [Next]_vars => Kept'
<1> SUFFICES ASSUME IInv, [Next]_vars PROVE Kept'
  OBVIOUS
<1> USE Bounds DEF IInv, Typed, TypeOK, RunningCopy, Kept, Recorded, Recording,
   RemovedAlone, Chatting, ChatsOf, Busy, Served, chatVars, nomadVars, reaperVars,
   bounds, history
<1>0. /\ \A s \in Subjects : row[s].status = "running" => row[s].job /\ row[s].ep # 0
      /\ \A s \in Subjects : row[s].job => row[s].status = "running"
  BY DEF Rows, Copies
<1>1. ASSUME NEW s \in Subjects, Boot(s) PROVE Kept'
  BY <1>1 DEF Boot
<1>2. ASSUME NEW s \in Subjects, Move(s) PROVE Kept'
  BY <1>2 DEF Move, Fault, NewAlloc, SetAlloc, Disturbs
<1>3. ASSUME NEW c \in Clients, BeginChat(c) PROVE Kept'
  BY <1>3, <1>0 DEF BeginChat, Goto, Busy
<1>4. ASSUME NEW c \in Clients, Probe(c) PROVE Kept'
  BY <1>4 DEF Probe, Goto, Apart, Answers
<1>5. ASSUME NEW c \in Clients, Register(c) PROVE Kept'
  BY <1>5 DEF Register, Goto, Apart, RegisterJob, NewAlloc, SetAlloc
<1>6. ASSUME NEW c \in Clients, RegisterFails(c) PROVE Kept'
  BY <1>6 DEF RegisterFails, Goto, End, Apart, Fault, RegisterJob, NewAlloc,
     SetAlloc
<1>7. ASSUME NEW c \in Clients, Place(c) PROVE Kept'
  BY <1>7 DEF Place, Goto, Apart
<1>8. ASSUME NEW c \in Clients, SaveRow(c) PROVE Kept'
  BY <1>8 DEF SaveRow, Goto, Apart
<1>9. ASSUME NEW c \in Clients, PlaceOrSaveFails(c) PROVE Kept'
  BY <1>9 DEF PlaceOrSaveFails, Goto, Apart, Fault
<1>10. ASSUME NEW c \in Clients, Unplace(c) PROVE Kept'
  BY <1>10 DEF Unplace, Goto, End, Apart, PurgeDone, PurgeLost, Fault, SetAlloc
<1>11. ASSUME NEW c \in Clients, Ready(c) PROVE Kept'
  BY <1>11 DEF Ready, Goto, Apart, Answers
<1>12. ASSUME NEW c \in Clients, NotReady(c) PROVE Kept'
  BY <1>12 DEF NotReady, Goto, End, Apart, Answers, Fault
<1>13. ASSUME NEW c \in Clients, Post(c) PROVE Kept'
  BY <1>13 DEF Post, Goto, Apart, Answers
<1>14. ASSUME NEW c \in Clients, Repost(c) PROVE Kept'
  BY <1>14 DEF Repost, Goto, End, Apart, Answers
<1>15. ASSUME NEW c \in Clients, Stamp(c) PROVE Kept'
  <2> DEFINE r == [inst[c] EXCEPT !.last = now]
  <2>1. r.status = "running"
    BY <1>15 DEF Stamp, Copies
  <2>2. row' = row \/ row' = [row EXCEPT ![SubjectOf[c]] = r]
    BY <1>15 DEF Stamp
  <2> HIDE DEF r
  <2>3. \A s \in Subjects : row[s].status = "running" => row'[s].status = "running"
    BY <2>1, <2>2
  <2>. QED  BY <1>15, <2>3 DEF Stamp, Goto, End, Apart
<1>16. ASSUME NEW s \in Subjects, BeginDelete(s) PROVE Kept'
  BY <1>16, <1>0 DEF BeginDelete, Overlaps, Disturbs
<1>17. ASSUME NEW s \in Subjects, DeletePurge(s) PROVE Kept'
  BY <1>17 DEF DeletePurge, PurgeDone, PurgeLost, Fault, SetAlloc, Disturbs
<1>18. ASSUME NEW s \in Subjects, DeleteDrop(s) PROVE Kept'
  BY <1>18 DEF DeleteDrop, Fault, Disturbs
<1>19. ASSUME NEW s \in Subjects, ReapSkip(s) PROVE Kept'
  BY <1>19 DEF ReapSkip
<1>20. ASSUME NEW s \in Subjects, ReapPurge(s) PROVE Kept'
  BY <1>20 DEF ReapPurge, PurgeDone, PurgeLost, Fault, SetAlloc, Disturbs, Overlaps
<1>21. ASSUME NEW s \in Subjects, ReapStop(s) PROVE Kept'
  BY <1>21 DEF ReapStop, Fault, Disturbs
<1>22. ASSUME Tick PROVE Kept'
  BY <1>22 DEF Tick
<1>23. ASSUME ReapList PROVE Kept'
  BY <1>23 DEF ReapList
<1>24. ASSUME Crash PROVE Kept'
  BY <1>24 DEF Crash, Fault, Busy
<1>25. ASSUME UNCHANGED vars PROVE Kept'
  BY <1>25 DEF vars
<1>. QED
  BY <1>1, <1>2, <1>3, <1>4, <1>5, <1>6, <1>7, <1>8, <1>9, <1>10, <1>11, <1>12,
     <1>13, <1>14, <1>15, <1>16, <1>17, <1>18, <1>19, <1>20, <1>21, <1>22,
     <1>23, <1>24, <1>25 DEF Next, Chat, Delete, Reap

LEMMA InvariantHolds == Spec => []IInv
<1>1. IInv /\ [Next]_vars => IInv'
  BY NextTyped, NextKept DEF IInv
<1>. QED  BY InitIInv, <1>1, PTL DEF Spec

\* The variables keep their types.
THEOREM TypeCorrect == Spec => []TypeOK
<1>1. IInv => TypeOK
  BY DEF IInv, Typed
<1>. QED  BY <1>1, InvariantHolds, PTL

\* A job that runs is in its row unless a chat is at work on it: what
\* EnsureInstance cannot record it undoes, and DeleteInstance and ReapIdle
\* purge before they forget.
THEOREM JobsAreTracked == Spec => []JobTracked
<1>1. IInv => JobTracked
  BY DEF IInv, Typed, TypeOK, Kept, Recorded, Recording, JobTracked, Chatting,
     ChatsOf, Busy, Rows, Copies
<1>. QED  BY <1>1, InvariantHolds, PTL

\* A chat that nothing disturbs is answered, however stale the row it began
\* with (EnsureInstance, ChatInstance).
THEOREM CalmChatsAreServed == Spec => []CalmChatServed
<1>1. IInv => CalmChatServed
  BY DEF IInv, Kept, Served, CalmChatServed
<1>. QED  BY <1>1, InvariantHolds, PTL

=============================================================================
