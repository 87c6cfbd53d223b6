------------------------- MODULE PortReservationProofs -------------------------
(***************************************************************************)
(* Proofs about PortReservation, for any set of Creates, any port range    *)
(* and any bounds.                                                         *)
(***************************************************************************)
EXTENDS PortReservation, TLAPS

(* The inductive invariant.  ReservationsAccounted alone is not inductive: *)
(* releasing port[c] also takes it from any other holder of the same port, *)
(* so holders must be known to differ.  SerialCreatesDistinct needs to     *)
(* know what a scan in progress has still to read.                         *)

HoldersDistinct ==
  \A c, d \in Holders : c # d => port[c] # port[d]

PortsAssigned ==
  /\ \A c \in Workspaces : pc[c] \in {"new", "reading"} => port[c] = NoPort
  /\ \A c \in Holders \cup jobs \cup starting : port[c] \in Ports

BeforeReturned ==
  \A c \in Workspaces : \A w \in before[c] :
    /\ pc[w] = "returned"
    /\ pc[c] # "new"

ScanComplete ==
  \A c \in Workspaces : \A w \in before[c] \ missed[c] :
    pc[c] = "reading" => w \in unread[c] \/ port[w] \in used[c]

ChosenDistinct ==
  \A c \in Workspaces : \A w \in before[c] \ missed[c] :
    port[c] # NoPort => port[c] # port[w]

IInv ==
  /\ TypeOK
  /\ ReservationsAccounted
  /\ HoldersDistinct
  /\ PortsAssigned
  /\ BeforeReturned
  /\ ScanComplete
  /\ ChosenDistinct

--------------------------------------------------------------------------------

\* Every initial state satisfies the invariant.
LEMMA InitIInv == Init => IInv
<1> SUFFICES ASSUME Init PROVE IInv
  OBVIOUS
<1> USE RangeAssumption, BoundsAssumption DEF Init, Holders, Holding
<1>1. TypeOK
  BY DEF TypeOK, Phases, Ports
<1>2. ReservationsAccounted /\ HoldersDistinct /\ PortsAssigned
  BY DEF ReservationsAccounted, HoldersDistinct, PortsAssigned
<1>3. BeforeReturned /\ ScanComplete /\ ChosenDistinct
  BY DEF BeforeReturned, ScanComplete, ChosenDistinct
<1>. QED  BY <1>1, <1>2, <1>3 DEF IInv

\* Every step keeps it: one step of the proof per action.
LEMMA NextIInv == IInv /\ [Next]_vars => IInv'
<1> SUFFICES ASSUME IInv, [Next]_vars PROVE IInv'
  OBVIOUS
<1> USE RangeAssumption, BoundsAssumption
<1> USE DEF IInv, TypeOK, Phases, Ports, NoPort, Goto, Holders, Holding
<1>1. ASSUME NEW c \in Workspaces, ListJobs(c) PROVE IInv'
  <2>1. TypeOK'
    BY <1>1 DEF ListJobs
  <2>2. BeforeReturned'
    BY <1>1 DEF ListJobs, BeforeReturned
  <2>3. ScanComplete'
    BY <1>1 DEF ListJobs, ScanComplete, BeforeReturned
  <2>4. ChosenDistinct'
    BY <1>1 DEF ListJobs, ChosenDistinct, PortsAssigned
  <2>5. (ReservationsAccounted /\ HoldersDistinct /\ PortsAssigned)'
    BY <1>1 DEF ListJobs, ReservationsAccounted, HoldersDistinct,
       PortsAssigned
  <2>. QED  BY <2>1, <2>2, <2>3, <2>4, <2>5
<1>2. ASSUME NEW c \in Workspaces, FailBeforeReserve(c) PROVE IInv'
  <2>1. TypeOK'
    BY <1>2 DEF FailBeforeReserve
  <2>2. (ReservationsAccounted /\ HoldersDistinct /\ PortsAssigned /\
         BeforeReturned /\ ScanComplete /\ ChosenDistinct)'
    BY <1>2 DEF FailBeforeReserve, ReservationsAccounted, HoldersDistinct,
       PortsAssigned, BeforeReturned, ScanComplete, ChosenDistinct
  <2>. QED  BY <2>1, <2>2
<1>3. ASSUME NEW c \in Workspaces, NEW w \in Workspaces, ReadJob(c, w) PROVE IInv'
  <2>1. TypeOK'
    BY <1>3 DEF ReadJob
  <2>2. ScanComplete'
    BY <1>3 DEF ReadJob, ScanComplete
  <2>3. (ReservationsAccounted /\ HoldersDistinct /\ PortsAssigned /\
         BeforeReturned /\ ChosenDistinct)'
    BY <1>3 DEF ReadJob, ReservationsAccounted, HoldersDistinct,
       PortsAssigned, BeforeReturned, ChosenDistinct
  <2>. QED  BY <2>1, <2>2, <2>3
<1>4. ASSUME NEW c \in Workspaces, NEW w \in Workspaces, SkipJob(c, w) PROVE IInv'
  <2>1. TypeOK'
    BY <1>4 DEF SkipJob
  <2>2. ScanComplete'
    BY <1>4 DEF SkipJob, ScanComplete
  <2>3. ChosenDistinct'
    BY <1>4 DEF SkipJob, ChosenDistinct
  <2>4. (ReservationsAccounted /\ HoldersDistinct /\ PortsAssigned /\
         BeforeReturned)'
    BY <1>4 DEF SkipJob, ReservationsAccounted, HoldersDistinct,
       PortsAssigned, BeforeReturned
  <2>. QED  BY <2>1, <2>2, <2>3, <2>4
<1>5. ASSUME NEW c \in Workspaces, Reserve(c) PROVE IInv'
  <2>1. TypeOK'
    BY <1>5 DEF Reserve, Free
  <2>2. ReservationsAccounted'
    BY <1>5 DEF Reserve, ReservationsAccounted, HoldersDistinct,
       PortsAssigned, Free
  <2>3. HoldersDistinct'
    BY <1>5 DEF Reserve, HoldersDistinct, ReservationsAccounted, Free
  <2>4. PortsAssigned'
    BY <1>5 DEF Reserve, PortsAssigned, Free
  <2>5. ScanComplete'
    BY <1>5 DEF Reserve, ScanComplete, BeforeReturned
  <2>6. ChosenDistinct'
    BY <1>5 DEF Reserve, ChosenDistinct, PortsAssigned, BeforeReturned,
       ScanComplete, Free
  <2>7. BeforeReturned'
    BY <1>5 DEF Reserve, BeforeReturned
  <2>. QED  BY <2>1, <2>2, <2>3, <2>4, <2>5, <2>6, <2>7
<1>6. ASSUME NEW c \in Workspaces, Exhausted(c) PROVE IInv'
  <2>1. TypeOK'
    BY <1>6 DEF Exhausted
  <2>2. (ReservationsAccounted /\ HoldersDistinct /\ PortsAssigned /\
         BeforeReturned /\ ScanComplete /\ ChosenDistinct)'
    BY <1>6 DEF Exhausted, ReservationsAccounted, HoldersDistinct,
       PortsAssigned, BeforeReturned, ScanComplete, ChosenDistinct
  <2>. QED  BY <2>1, <2>2
<1>7. ASSUME NEW c \in Workspaces, Abort(c) PROVE IInv'
  <2>1. TypeOK'
    BY <1>7 DEF Abort
  <2>2. ReservationsAccounted'
    BY <1>7 DEF Abort, ReservationsAccounted, HoldersDistinct,
       PortsAssigned
  <2>3. (HoldersDistinct /\ PortsAssigned /\ BeforeReturned /\ ScanComplete
         /\ ChosenDistinct)'
    BY <1>7 DEF Abort, HoldersDistinct, PortsAssigned, BeforeReturned,
       ScanComplete, ChosenDistinct
  <2>. QED  BY <2>1, <2>2, <2>3
<1>8. ASSUME NEW c \in Workspaces, Register(c) PROVE IInv'
  <2>1. TypeOK'
    BY <1>8 DEF Register
  <2>2. ReservationsAccounted'
    BY <1>8 DEF Register, ReservationsAccounted
  <2>3. PortsAssigned'
    BY <1>8 DEF Register, PortsAssigned
  <2>4. (HoldersDistinct /\ BeforeReturned /\ ScanComplete /\
         ChosenDistinct)'
    BY <1>8 DEF Register, HoldersDistinct, BeforeReturned, ScanComplete,
       ChosenDistinct
  <2>. QED  BY <2>1, <2>2, <2>3, <2>4
<1>9. ASSUME NEW c \in Workspaces, RegisterLost(c) PROVE IInv'
  <2>1. TypeOK'
    <3>1. errors' \in 0 .. MaxErrors
      BY <1>9 DEF RegisterLost
    <3>. QED  BY <1>9, <3>1 DEF RegisterLost
  <2>2. ReservationsAccounted'
    BY <1>9 DEF RegisterLost, ReservationsAccounted, HoldersDistinct,
       PortsAssigned
  <2>3. PortsAssigned'
    BY <1>9 DEF RegisterLost, PortsAssigned
  <2>4. (HoldersDistinct /\ BeforeReturned /\ ScanComplete /\
         ChosenDistinct)'
    BY <1>9 DEF RegisterLost, HoldersDistinct, BeforeReturned,
       ScanComplete, ChosenDistinct
  <2>. QED  BY <2>1, <2>2, <2>3, <2>4
<1>10. ASSUME NEW c \in Workspaces, Return(c) PROVE IInv'
  <2>1. TypeOK'
    BY <1>10 DEF Return
  <2>2. ReservationsAccounted'
    BY <1>10 DEF Return, ReservationsAccounted, HoldersDistinct,
       PortsAssigned
  <2>3. BeforeReturned'
    BY <1>10 DEF Return, BeforeReturned
  <2>4. (HoldersDistinct /\ PortsAssigned /\ ScanComplete /\
         ChosenDistinct)'
    BY <1>10 DEF Return, HoldersDistinct, PortsAssigned, ScanComplete,
       ChosenDistinct
  <2>. QED  BY <2>1, <2>2, <2>3, <2>4
<1>11. ASSUME NEW w \in Workspaces, Purge(w) PROVE IInv'
  <2>1. TypeOK'
    BY <1>11 DEF Purge
  <2>2. (ReservationsAccounted /\ HoldersDistinct /\ PortsAssigned /\
         BeforeReturned /\ ScanComplete /\ ChosenDistinct)'
    BY <1>11 DEF Purge, ReservationsAccounted, HoldersDistinct,
       PortsAssigned, BeforeReturned, ScanComplete, ChosenDistinct
  <2>. QED  BY <2>1, <2>2
<1>12. ASSUME NEW w \in Workspaces, StartRead(w) PROVE IInv'
  <2>1. TypeOK'
    BY <1>12 DEF StartRead
  <2>2. PortsAssigned'
    BY <1>12 DEF StartRead, PortsAssigned
  <2>3. (ReservationsAccounted /\ HoldersDistinct /\ BeforeReturned /\
         ScanComplete /\ ChosenDistinct)'
    BY <1>12 DEF StartRead, ReservationsAccounted, HoldersDistinct,
       BeforeReturned, ScanComplete, ChosenDistinct
  <2>. QED  BY <2>1, <2>2, <2>3
<1>13. ASSUME NEW w \in Workspaces, StartRegister(w) PROVE IInv'
  <2>1. TypeOK'
    BY <1>13 DEF StartRegister
  <2>2. PortsAssigned'
    BY <1>13 DEF StartRegister, PortsAssigned
  <2>3. (ReservationsAccounted /\ HoldersDistinct /\ BeforeReturned /\
         ScanComplete /\ ChosenDistinct)'
    BY <1>13 DEF StartRegister, ReservationsAccounted, HoldersDistinct,
       BeforeReturned, ScanComplete, ChosenDistinct
  <2>. QED  BY <2>1, <2>2, <2>3
<1>14. ASSUME Restart PROVE IInv'
  <2>1. TypeOK'
    BY <1>14 DEF Restart, InFlight
  <2>2. ReservationsAccounted'
    BY <1>14 DEF Restart, ReservationsAccounted, InFlight
  <2>3. PortsAssigned'
    BY <1>14 DEF Restart, PortsAssigned, InFlight
  <2>4. (HoldersDistinct /\ BeforeReturned /\ ScanComplete /\
         ChosenDistinct)'
    BY <1>14 DEF Restart, HoldersDistinct, BeforeReturned, ScanComplete,
       ChosenDistinct, InFlight
  <2>. QED  BY <2>1, <2>2, <2>3, <2>4
<1>15. CASE UNCHANGED vars
    BY <1>15 DEF vars, ReservationsAccounted, HoldersDistinct, PortsAssigned,
         BeforeReturned, ScanComplete, ChosenDistinct
<1>. QED
    BY <1>1, <1>2, <1>3, <1>4, <1>5, <1>6, <1>7, <1>8, <1>9, <1>10, <1>11,
         <1>12, <1>13, <1>14, <1>15
     DEF Next, CreateStep, JobStep

--------------------------------------------------------------------------------

\* The inductive invariant holds in every reachable state of the reservation
\* code of service.go, for any number of Creates and any port range.
THEOREM InvariantHolds == Spec => []IInv
  BY InitIInv, NextIInv, PTL DEF Spec

\* Type correctness of the reservation state, for every set of Creates and
\* every port range.
THEOREM TypeCorrect == Spec => []TypeOK
<1>1. IInv => TypeOK
  BY DEF IInv
<1>. QED  BY <1>1, InvariantHolds, PTL

\* The in-memory reservations of service.go's reserve and release are always
\* exactly those of the Creates between the two: nothing leaks and nothing is
\* given back early.
THEOREM NoReservationLeak == Spec => []ReservationsAccounted
<1>1. IInv => ReservationsAccounted
  BY DEF IInv
<1>. QED  BY <1>1, InvariantHolds, PTL

\* Creates that do not overlap publish distinct ports, provided the later one
\* could read every job it listed.
THEOREM SerialCreates == Spec => []SerialCreatesDistinct
<1>1. IInv => SerialCreatesDistinct
  <2> SUFFICES ASSUME IInv, NEW c \in jobs, NEW w \in jobs,
                      w \in before[c], missed[c] = {}
               PROVE  port[c] # port[w]
    BY DEF SerialCreatesDistinct
  <2>1. c \in Workspaces /\ port[c] # NoPort
    BY RangeAssumption DEF IInv, TypeOK, PortsAssigned, Ports, NoPort
  <2>. QED  BY <2>1 DEF IInv, ChosenDistinct
<1>. QED  BY <1>1, InvariantHolds, PTL

--------------------------------------------------------------------------------
(* The reservation implements the pool of leases.                          *)

\* No Create holds a port to begin with, and the abstract pool starts empty.
LEMMA LeaseInit == Init => Pool!Init
  BY DEF Init, Pool!Init, Lease, Holders, Holding

\* A step that leaves every holder and its port alone leaves the leases alone.
LEMMA LeaseStutters ==
  ASSUME \A c \in Workspaces :
           /\ (pc'[c] \in Holding) <=> (pc[c] \in Holding)
           /\ pc[c] \in Holding => port'[c] = port[c]
  PROVE  Lease' = Lease
  BY DEF Lease, Holders

\* A Create that stops holding releases its own lease and no other.
LEMMA LeaseReleased ==
  ASSUME TypeOK, NEW c \in Workspaces, NEW phase \in {"returned", "failed"},
         pc' = [pc EXCEPT ![c] = phase], port' = port
  PROVE  Pool!Release({c})
  BY DEF TypeOK, Pool!Release, Lease, Holders, Holding

\* The lowest free port, taken under the mutex, is one nobody leases.
LEMMA LeaseAcquired ==
  ASSUME IInv, NEW c \in Workspaces, Reserve(c)
  PROVE  \E p \in Ports : Pool!Acquire(c, p)
<1>1. PICK p \in Free(c) : /\ port' = [port EXCEPT ![c] = p]
                           /\ pc' = [pc EXCEPT ![c] = "held"]
  BY DEF Reserve, Goto
<1>2. p \in Ports /\ p \notin reserved
  BY <1>1 DEF Free
<1>3. p # NoPort
  BY <1>2, RangeAssumption DEF Ports, NoPort
<1>4. Lease[c] = NoPort
  BY DEF Reserve, Lease, Holders, Holding
<1>5. \A d \in Workspaces : Lease[d] # p
  BY <1>2, <1>3 DEF IInv, ReservationsAccounted, Lease
<1>6. Lease' = [Lease EXCEPT ![c] = p]
  <2>1. \A d \in Workspaces :
          Lease'[d] = IF d = c THEN p ELSE Lease[d]
    BY <1>1 DEF IInv, TypeOK, Lease, Holders, Holding
  <2>. QED  BY <2>1 DEF Lease
<1>. QED  BY <1>2, <1>4, <1>5, <1>6 DEF Pool!Acquire

\* Every step of a Create, a job or the process is a step of the pool, or none.
LEMMA LeaseStep == IInv /\ [Next]_vars => [Pool!Next]_Lease
<1> SUFFICES ASSUME IInv, [Next]_vars PROVE [Pool!Next]_Lease
  OBVIOUS
<1> USE DEF IInv, TypeOK, Goto
<1>1. ASSUME NEW c \in Workspaces,
             \/ ListJobs(c)
             \/ FailBeforeReserve(c)
             \/ \E w \in Workspaces : ReadJob(c, w) \/ SkipJob(c, w)
             \/ Exhausted(c)
             \/ Register(c)
      PROVE  Lease' = Lease
  BY <1>1, LeaseStutters
     DEF ListJobs, FailBeforeReserve, ReadJob, SkipJob, Exhausted, Register,
         Holding
<1>2. ASSUME NEW c \in Workspaces, Reserve(c) PROVE Pool!Next
  BY <1>2, LeaseAcquired DEF Pool!Next
<1>3. ASSUME NEW c \in Workspaces, Abort(c) \/ RegisterLost(c) \/ Return(c)
      PROVE  Pool!Next
  <2>1. Pool!Release({c})
    BY <1>3, LeaseReleased DEF Abort, RegisterLost, Return
  <2>. QED  BY <2>1 DEF Pool!Next
<1>4. ASSUME NEW w \in Workspaces, JobStep(w) PROVE Lease' = Lease
  BY <1>4, LeaseStutters DEF JobStep, Purge, StartRead, StartRegister
<1>5. ASSUME Restart PROVE Pool!Next
  <2>1. Pool!Release(Workspaces)
    BY <1>5 DEF Restart, InFlight, Holding, Holders, Lease, Pool!Release
  <2>. QED  BY <2>1 DEF Pool!Next
<1>6. CASE UNCHANGED vars
  BY <1>6, LeaseStutters DEF vars
<1>. QED
  BY <1>1, <1>2, <1>3, <1>4, <1>5, <1>6 DEF Next, CreateStep

\* The mutex and the reserved set give what PortPool promises: no two Creates
\* in flight hold the same port, and a port is released by its holder alone.
THEOREM Implements == Spec => ImplementsPool
  BY LeaseInit, LeaseStep, InvariantHolds, PTL DEF Spec, ImplementsPool, Pool!Spec

=============================================================================
