----------------------------- MODULE HostSyncProofs -----------------------------
(***************************************************************************)
(* Proofs about HostSync, for any sets of workspaces and nodes and any     *)
(* bounds.                                                                 *)
(***************************************************************************)
EXTENDS HostSync, FiniteSetTheorems, TLAPS

(* The inductive invariant.  What a pass writes into Boundary is what it   *)
(* has read from Nomad, so the invariant follows the address from the      *)
(* registrations (CurrentSeen) over the snapshot (SnapSeen, SnapKnown) to  *)
(* the host (AddFresh).                                                    *)

\* cur without counting.
OneCurrent == cur = {} \/ \E w \in Workspaces : cur = {w}

\* What is current now has been seen.
CurrentSeen == \A w \in Workspaces : Newest(regs[w]) \subseteq seen[w]

\* A service is read before it is ensured.
ReadOnce == toGet \cap todo = {}

\* What a pass has read was current since it began.
SnapSeen == \A w \in Workspaces : snap[w] # None => snap[w] \in seen[w]

\* Only services that have an address are ensured.
SnapKnown == \A w \in todo \cup cur : snap[w] # None

\* The host-set that was read is there, or has been deleted since.
CurrentProvisioned == \A w \in cur : hset[w] # "none"

\* After Destroy no ensure that read the host-set before is still to create
\* the host, but for the late ones.
DestroyedForGood ==
  \A w \in Workspaces :
    job[w] = "destroyed" => /\ hset[w] # "live"
                            /\ pc = "create" /\ w \in cur => w \in late

\* The host to be added has the address of the snapshot, or was removed.
AddFresh == pc = "add" => \A w \in cur : host[w] \in {None, snap[w]}

\* The address is followed from Nomad to Boundary.
Followed ==
  /\ CurrentSeen
  /\ ReadOnce
  /\ SnapSeen
  /\ SnapKnown
  /\ CurrentProvisioned
  /\ DestroyedForGood
  /\ AddFresh
  /\ PassResultFresh
  /\ HostsFollowHostSets

Typed == TypeOK /\ OneCurrent

\* The inductive invariant.
IInv == Typed /\ Followed

--------------------------------------------------------------------------------

\* No current workspace, or one, is at most one.
LEMMA AtMostOne ==
  ASSUME NEW S, S = {} \/ \E w \in Workspaces : S = {w}
  PROVE  Cardinality(S) <= 1
<1>1. CASE S = {}
  <2>1. Cardinality({}) <= 1
    BY FS_EmptySet
  <2>. QED  BY <1>1, <2>1
<1>2. CASE \E w \in Workspaces : S = {w}
  <2>1. PICK w \in Workspaces : S = {w}
    BY <1>2
  <2>2. Cardinality({w}) <= 1
    BY FS_Singleton
  <2>. QED  BY <2>1, <2>2
<1>. QED  BY <1>1, <1>2

\* Every step keeps the types: one step of the proof per action.
LEMMA NextTyped == IInv /\ [Next]_vars => Typed'
<1> SUFFICES ASSUME IInv, [Next]_vars PROVE Typed'
  OBVIOUS
<1> USE HostSyncAssumption DEF IInv, Typed, TypeOK, OneCurrent, vars, nomadVars,
   bndryVars, syncVars, history
<1>1. ASSUME NEW w \in Workspaces, NEW n \in Nodes, Place(w, n) PROVE Typed'
  BY <1>1 DEF Place, SetRegs, Newest
<1>2. ASSUME NEW w \in Workspaces, DropOne(w) PROVE Typed'
  BY <1>2 DEF DropOne, SetRegs, Newest
<1>3. ASSUME NEW w \in Workspaces, DropAll(w) PROVE Typed'
  BY <1>3 DEF DropAll, SetRegs, Newest
<1>4. ASSUME NEW w \in Workspaces, RegisterJob(w) PROVE Typed'
  BY <1>4 DEF RegisterJob, SetJob
<1>5. ASSUME NEW w \in Workspaces, CreateHostSet(w) PROVE Typed'
  BY <1>5 DEF CreateHostSet
<1>6. ASSUME NEW w \in Workspaces, Stop(w) PROVE Typed'
  BY <1>6 DEF Stop, SetJob
<1>7. ASSUME NEW w \in Workspaces, Start(w) PROVE Typed'
  BY <1>7 DEF Start, SetJob
<1>8. ASSUME NEW w \in Workspaces, Purge(w) PROVE Typed'
  BY <1>8 DEF Purge, SetJob
<1>9. ASSUME NEW w \in Workspaces, DeleteHostSet(w) PROVE Typed'
  BY <1>9 DEF DeleteHostSet
<1>10. ASSUME NEW w \in Workspaces, DeleteHost(w) PROVE Typed'
  BY <1>10 DEF DeleteHost, SetJob
<1>11. ASSUME StartPass PROVE Typed'
  BY <1>11 DEF StartPass, Newest
<1>12. ASSUME NEW w \in Workspaces, GetService(w) PROVE Typed'
  BY <1>12 DEF GetService, pickCurrent
<1>13. ASSUME GotAll PROVE Typed'
  BY <1>13 DEF GotAll
<1>14. ASSUME NEW w \in Workspaces, ReadHostSet(w) PROVE Typed'
  <2>1. OneCurrent'
    BY <1>14 DEF ReadHostSet, Return
  <2>2. Cardinality(cur') <= 1
    BY <2>1, AtMostOne DEF OneCurrent
  <2>. QED  BY <1>14, <2>1, <2>2 DEF ReadHostSet, Return
<1>15. ASSUME NEW w \in Workspaces, CreateHost(w) PROVE Typed'
  <2>1. OneCurrent'
    BY <1>15 DEF CreateHost, Return, Continue
  <2>2. Cardinality(cur') <= 1
    BY <2>1, AtMostOne DEF OneCurrent
  <2>3. CASE host[w] = None
    BY <1>15, <2>1, <2>2, <2>3 DEF CreateHost, Continue
  <2>4. CASE host[w] # None
    BY <1>15, <2>1, <2>2, <2>4 DEF CreateHost, Return
  <2>. QED  BY <2>3, <2>4
<1>16. ASSUME NEW w \in Workspaces, AddHost(w) PROVE Typed'
  <2>1. OneCurrent'
    BY <1>16 DEF AddHost, Return
  <2>2. Cardinality(cur') <= 1
    BY <2>1, AtMostOne DEF OneCurrent
  <2>. QED  BY <1>16, <2>1, <2>2 DEF AddHost, Return
<1>17. ASSUME NEW w \in Workspaces, ReadHost(w) PROVE Typed'
  <2>1. OneCurrent'
    BY <1>17 DEF ReadHost, Return, Continue
  <2>2. Cardinality(cur') <= 1
    BY <2>1, AtMostOne DEF OneCurrent
  <2>. QED  BY <1>17, <2>1, <2>2 DEF ReadHost, Return, Continue
<1>18. ASSUME NEW w \in Workspaces, UpdateHost(w) PROVE Typed'
  <2>1. OneCurrent'
    BY <1>18 DEF UpdateHost, Return
  <2>2. Cardinality(cur') <= 1
    BY <2>1, AtMostOne DEF OneCurrent
  <2>. QED  BY <1>18, <2>1, <2>2 DEF UpdateHost, Return
<1>19. ASSUME EndPass PROVE Typed'
  BY <1>19 DEF EndPass
<1>20. ASSUME ListFails PROVE Typed'
  BY <1>20 DEF ListFails, Fault
<1>21. ASSUME NEW w \in Workspaces, CallFails(w) PROVE Typed'
  <2>1. OneCurrent'
    BY <1>21 DEF CallFails, Return, Fault
  <2>2. Cardinality(cur') <= 1
    BY <2>1, AtMostOne DEF OneCurrent
  <2>. QED  BY <1>21, <2>1, <2>2 DEF CallFails, Return, Fault
<1>22. ASSUME NEW w \in Workspaces, CreateReplyLost(w) PROVE Typed'
  <2>1. OneCurrent'
    BY <1>22 DEF CreateReplyLost, Return, Fault
  <2>2. Cardinality(cur') <= 1
    BY <2>1, AtMostOne DEF OneCurrent
  <2>. QED  BY <1>22, <2>1, <2>2 DEF CreateReplyLost, Return, Fault
<1>23. ASSUME Crash PROVE Typed'
  <2>1. OneCurrent'
    BY <1>23 DEF Crash, Fault
  <2>2. Cardinality(cur') <= 1
    BY <2>1, AtMostOne DEF OneCurrent
  <2>. QED  BY <1>23, <2>1, <2>2 DEF Crash, Fault
<1>24. CASE UNCHANGED vars
  BY <1>24 DEF vars
<1>. QED
  BY <1>1, <1>2, <1>3, <1>4, <1>5, <1>6, <1>7, <1>8, <1>9, <1>10, <1>11,
     <1>12, <1>13, <1>14, <1>15, <1>16, <1>17, <1>18, <1>19, <1>20, <1>21,
     <1>22, <1>23, <1>24
  DEF Next, SyncStep, FaultStep, NomadStep, PortalStep, Ensure

\* Every step keeps what the pass has read and written in order.
LEMMA NextFollowed == IInv /\ [Next]_vars => Followed'
<1> SUFFICES ASSUME IInv, [Next]_vars PROVE Followed'
  OBVIOUS
<1> USE HostSyncAssumption DEF IInv, Typed, TypeOK, OneCurrent, vars, nomadVars,
   bndryVars, syncVars, history, Followed, CurrentSeen, ReadOnce, SnapSeen,
   SnapKnown, CurrentProvisioned, DestroyedForGood, AddFresh,
   PassResultFresh, HostsFollowHostSets
<1>1. ASSUME NEW w \in Workspaces, NEW n \in Nodes, Place(w, n) PROVE Followed'
  BY <1>1 DEF Place, SetRegs, Newest
<1>2. ASSUME NEW w \in Workspaces, DropOne(w) PROVE Followed'
  BY <1>2 DEF DropOne, SetRegs, Newest
<1>3. ASSUME NEW w \in Workspaces, DropAll(w) PROVE Followed'
  BY <1>3 DEF DropAll, SetRegs, Newest
<1>4. ASSUME NEW w \in Workspaces, RegisterJob(w) PROVE Followed'
  BY <1>4 DEF RegisterJob, SetJob, Newest
<1>5. ASSUME NEW w \in Workspaces, CreateHostSet(w) PROVE Followed'
  BY <1>5 DEF CreateHostSet, Newest
<1>6. ASSUME NEW w \in Workspaces, Stop(w) PROVE Followed'
  BY <1>6 DEF Stop, SetJob, Newest
<1>7. ASSUME NEW w \in Workspaces, Start(w) PROVE Followed'
  BY <1>7 DEF Start, SetJob, Newest
<1>8. ASSUME NEW w \in Workspaces, Purge(w) PROVE Followed'
  BY <1>8 DEF Purge, SetJob, Newest
<1>9. ASSUME NEW w \in Workspaces, DeleteHostSet(w) PROVE Followed'
  BY <1>9 DEF DeleteHostSet, Newest
<1>10. ASSUME NEW w \in Workspaces, DeleteHost(w) PROVE Followed'
  BY <1>10 DEF DeleteHost, SetJob, Newest
<1>11. ASSUME StartPass PROVE Followed'
  BY <1>11 DEF StartPass, Newest
<1>12. ASSUME NEW w \in Workspaces, GetService(w) PROVE Followed'
  <2>1. regs[w] # <<>> => /\ snap'[w] \in seen[w]
                          /\ snap'[w] \in Nodes
    BY <1>12 DEF GetService, pickCurrent, Newest
  <2>2. regs[w] = <<>> => snap'[w] = None /\ todo' = todo
    BY <1>12 DEF GetService, pickCurrent
  <2>3. w \notin cur
    BY <1>12 DEF GetService
  <2>4. (SnapSeen /\ SnapKnown)'
    BY <1>12, <2>1, <2>2, <2>3 DEF GetService
  <2>. QED  BY <1>12, <2>4 DEF GetService
<1>13. ASSUME GotAll PROVE Followed'
  BY <1>13 DEF GotAll, Newest
<1>14. ASSUME NEW w \in Workspaces, ReadHostSet(w) PROVE Followed'
  BY <1>14 DEF ReadHostSet, Return, Newest
<1>15. ASSUME NEW w \in Workspaces, CreateHost(w) PROVE Followed'
  BY <1>15 DEF CreateHost, Return, Continue, Newest
<1>16. ASSUME NEW w \in Workspaces, AddHost(w) PROVE Followed'
  BY <1>16 DEF AddHost, Return, Newest
<1>17. ASSUME NEW w \in Workspaces, ReadHost(w) PROVE Followed'
  BY <1>17 DEF ReadHost, Return, Continue, Newest
<1>18. ASSUME NEW w \in Workspaces, UpdateHost(w) PROVE Followed'
  BY <1>18 DEF UpdateHost, Return, Newest
<1>19. ASSUME EndPass PROVE Followed'
  BY <1>19 DEF EndPass, Newest
<1>20. ASSUME ListFails PROVE Followed'
  BY <1>20 DEF ListFails, Fault, Newest
<1>21. ASSUME NEW w \in Workspaces, CallFails(w) PROVE Followed'
  BY <1>21 DEF CallFails, Return, Fault, Newest
<1>22. ASSUME NEW w \in Workspaces, CreateReplyLost(w) PROVE Followed'
  BY <1>22 DEF CreateReplyLost, Return, Fault, Newest
<1>23. ASSUME Crash PROVE Followed'
  BY <1>23 DEF Crash, Fault, Newest
<1>24. CASE UNCHANGED vars
  BY <1>24 DEF vars
<1>. QED
  BY <1>1, <1>2, <1>3, <1>4, <1>5, <1>6, <1>7, <1>8, <1>9, <1>10, <1>11,
     <1>12, <1>13, <1>14, <1>15, <1>16, <1>17, <1>18, <1>19, <1>20, <1>21,
     <1>22, <1>23, <1>24
  DEF Next, SyncStep, FaultStep, NomadStep, PortalStep, Ensure

--------------------------------------------------------------------------------

\* Every initial state satisfies the invariant.
LEMMA InitIInv == Init => IInv
<1> SUFFICES ASSUME Init PROVE IInv
  OBVIOUS
<1> USE HostSyncAssumption DEF Init
<1>1. OneCurrent
  BY DEF OneCurrent
<1>2. Cardinality(cur) <= 1
  BY <1>1, AtMostOne DEF OneCurrent
<1>3. TypeOK
  BY <1>2 DEF TypeOK
<1>4. Followed
  BY DEF Followed, CurrentSeen, ReadOnce, SnapSeen, SnapKnown, CurrentProvisioned,
         DestroyedForGood, AddFresh, PassResultFresh, HostsFollowHostSets, Newest
<1>. QED  BY <1>1, <1>3, <1>4 DEF IInv, Typed

\* The inductive invariant holds in every reachable state of the host sync,
\* with Nomad, the portal and faults around it.
THEOREM InvariantHolds == Spec => []IInv
<1>1. IInv /\ [Next]_vars => IInv'
  BY NextTyped, NextFollowed DEF IInv
<1>. QED  BY InitIInv, <1>1, PTL DEF Spec

\* The state of the sync process and of what it works on is well typed.
THEOREM TypeCorrect == Spec => []TypeOK
<1>1. IInv => TypeOK
  BY DEF IInv, Typed
<1>. QED  BY <1>1, InvariantHolds, PTL

\* A pass never leaves an address that was stale when the pass began, however
\* Nomad moved the workspace and the portal worked on it meanwhile.  (ensure)
THEOREM PassesAreFresh == Spec => []PassResultFresh
<1>1. IInv => PassResultFresh
  BY DEF IInv, Followed
<1>. QED  BY <1>1, InvariantHolds, PTL

\* No host precedes its host-set, a host in a set is in one that has not been
\* deleted, and a destroyed workspace has no host unless the host was being
\* created when Destroy deleted the hosts.  (ReadHostSet, CreateHostInSet)
THEOREM HostsInTheirSets == Spec => []HostsFollowHostSets
<1>1. IInv => HostsFollowHostSets
  BY DEF IInv, Followed
<1>. QED  BY <1>1, InvariantHolds, PTL

\* No step of a pass moves a host away from the only address that has been
\* current since the pass began.  (UpdateHost)
THEOREM NoFlapping == Spec => ConvergedStays
<1>1. IInv /\ [Next]_vars =>
        [\A w \in Workspaces :
           inSet[w] /\ seen[w] = {host[w]} => host'[w] \in {host[w], None}]_vars
  <2> SUFFICES ASSUME IInv, Next, NEW w \in Workspaces,
                      inSet[w], seen[w] = {host[w]}
               PROVE  host'[w] \in {host[w], None}
    OBVIOUS
  <2>1. snap[w] \in {host[w], None} /\ host \in [Workspaces -> Nodes \cup {None}]
    BY DEF IInv, Typed, TypeOK, Followed, SnapSeen
  <2>2. ASSUME NEW v \in Workspaces,
               CreateHost(v) \/ UpdateHost(v) \/ CreateReplyLost(v)
        PROVE  host'[w] \in {host[w], None}
    BY <2>1, <2>2 DEF CreateHost, UpdateHost, CreateReplyLost
  <2>3. ASSUME NEW v \in Workspaces, DeleteHost(v)
        PROVE  host'[w] \in {host[w], None}
    BY <2>1, <2>3 DEF DeleteHost
  <2>4. ASSUME UNCHANGED host PROVE host'[w] \in {host[w], None}
    BY <2>4
  <2>. QED
    BY <2>2, <2>3, <2>4
    DEF Next, SyncStep, FaultStep, NomadStep, PortalStep, Ensure, bndryVars,
        Place, DropOne, DropAll, RegisterJob, CreateHostSet, Stop, Start, Purge,
        DeleteHostSet, StartPass, GetService, GotAll, ReadHostSet, AddHost,
        ReadHost, EndPass, ListFails, CallFails, Crash
<1>. QED  BY <1>1, InvariantHolds, PTL DEF Spec, ConvergedStays

================================================================================
