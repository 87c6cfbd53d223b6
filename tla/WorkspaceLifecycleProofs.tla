------------------------ MODULE WorkspaceLifecycleProofs ------------------------
(***************************************************************************)
(* Proofs about WorkspaceLifecycle, for any number of workspaces of the    *)
(* developer and any bounds.                                               *)
(***************************************************************************)
EXTENDS WorkspaceLifecycle, TLAPS

(* The inductive invariant.  Create makes its parts in order (Made,        *)
(* SharedMade, RoleBound), Destroy removes them in order (Removed), and    *)
(* a workspace is listed between the two (EarlyUnlisted).                  *)

\* The place of each call in Create.
Place == [
  allocate |-> 1, volume |-> 2, schedulable |-> 3, job |-> 4, hostset |-> 5,
  target |-> 6, hostsource |-> 7, credsource |-> 8, findgroup |-> 9, group |-> 10,
  findrole |-> 11, role |-> 12, rolescope |-> 13, roleprincipal |-> 14,
  grant |-> 15, findaliasrole |-> 16, aliasrole |-> 17, aliasscope |-> 18,
  aliasprincipal |-> 19, aliasgrant |-> 20, alias |-> 21, done |-> 22]

\* The Create of w has come past the call `step`.
Past(w, step) == create[w] # "failed" /\ Place[step] < Place[create[w]]

\* Until a Destroy begins, Create has made what its calls up to now make.
Made == \A w \in Workspaces : destroy[w] = "no" =>
  \A step \in Own : Past(w, step) => step \in has[w]

\* What is found, or made if it is not, is there afterwards.
SharedMade == \A w \in Workspaces :
  \A step \in {"group", "role", "aliasrole", "aliasgrant"} :
    Past(w, step) => step \in shared

\* A role is bound, or being bound, or was cut off from its binding.
RoleBound ==
  "role" \in shared =>
    \/ {"rolescope", "roleprincipal"} \subseteq shared
    \/ unbound
    \/ \E w \in Workspaces : create[w] \in {"rolescope", "roleprincipal"}

AliasBound ==
  "aliasrole" \in shared =>
    \/ {"aliasscope", "aliasprincipal"} \subseteq shared
    \/ unbound
    \/ \E w \in Workspaces : create[w] \in {"aliasscope", "aliasprincipal"}

\* Scope first, then principal.
ScopeFirst == \A w \in Workspaces :
  /\ create[w] = "roleprincipal" => "rolescope" \in shared
  /\ create[w] = "aliasprincipal" => "aliasscope" \in shared

Early == {"allocate", "volume", "schedulable", "job"}

\* Before its job is registered nothing but Create works on a workspace.
EarlyUnlisted == \A w \in Workspaces : create[w] \in Early =>
  /\ "job" \notin has[w]
  /\ destroy[w] = "no"
  /\ w \notin starting

\* What Destroy has removed when it comes to a call.
Gone == [
  stop |-> {}, volume |-> {}, purge |-> {"volume"}, findtarget |-> {"volume", "job"},
  grant |-> {"volume", "job"}, target |-> {"volume", "job", "grant"},
  hostset |-> {"volume", "job", "grant", "target", "hostsource", "credsource"},
  alias |-> Own \ {"alias"}, done |-> Own]

Removed == \A w \in Workspaces : destroy[w] \in DOMAIN Gone =>
  /\ w \notin raced => has[w] \cap Gone[destroy[w]] = {}
  /\ "volume" \in Gone[destroy[w]] => "volume" \notin has[w]

\* Nothing hangs on a target that is not there.
TargetFirst == \A w \in Workspaces \ raced :
  "target" \notin has[w] => has[w] \cap {"grant", "hostsource", "credsource"} = {}

\* The inductive invariant.
IInv ==
  /\ TypeOK
  /\ Made /\ SharedMade
  /\ RoleBound /\ AliasBound /\ ScopeFirst
  /\ EarlyUnlisted
  /\ Removed /\ TargetFirst
  /\ NoVolumeOrphanedByDestroy

--------------------------------------------------------------------------------
(* The order of Create's calls                                             *)

Parts == Own \cup Shared
Calls == CreateSteps \ ({"done"} \cup DOMAIN Lookups)

LEMMA StepNames ==
  CreateSteps = {"allocate", "volume", "schedulable", "job", "hostset", "target",
    "hostsource", "credsource", "findgroup", "group", "findrole", "role",
    "rolescope", "roleprincipal", "grant", "findaliasrole", "aliasrole",
    "aliasscope", "aliasprincipal", "aliasgrant", "alias", "done"}
BY DEF CreateSteps, AllocateAndRegister, CreateHostVolume, Provision

\* After a call, that call's part is the only one more that is past.
LEMMA AfterCall ==
  ASSUME NEW s \in Calls
  PROVE  /\ After(s) \in CreateSteps
         /\ After(s) \in Early => s \in Early \ {"job"}
         /\ \A part \in Parts :
              Place[part] < Place[After(s)] => part = s \/ Place[part] < Place[s]
         /\ s = "role" => After(s) = "rolescope"
         /\ s = "rolescope" => After(s) = "roleprincipal"
         /\ s = "aliasrole" => After(s) = "aliasscope"
         /\ s = "aliasscope" => After(s) = "aliasprincipal"
         /\ After(s) \in Binding => s \in {"role", "rolescope", "aliasrole", "aliasscope"}
         /\ After(s) = "rolescope" => s = "role"
         /\ After(s) = "roleprincipal" => s = "rolescope"
         /\ After(s) = "aliasscope" => s = "aliasrole"
         /\ After(s) = "aliasprincipal" => s = "aliasscope"
<1> USE DEF After, AllocateAndRegister, CreateHostVolume, Provision, Place, Parts, Own,
   Shared, Binding, Early
<1>1. CASE s = "allocate"
  BY <1>1, StepNames
<1>2. CASE s = "volume"
  BY <1>2, StepNames
<1>3. CASE s = "schedulable"
  BY <1>3, StepNames
<1>4. CASE s = "job"
  BY <1>4, StepNames
<1>5. CASE s = "hostset"
  BY <1>5, StepNames
<1>6. CASE s = "target"
  BY <1>6, StepNames
<1>7. CASE s = "hostsource"
  BY <1>7, StepNames
<1>8. CASE s = "credsource"
  BY <1>8, StepNames
<1>9. CASE s = "group"
  BY <1>9, StepNames
<1>10. CASE s = "role"
  BY <1>10, StepNames
<1>11. CASE s = "rolescope"
  BY <1>11, StepNames
<1>12. CASE s = "roleprincipal"
  BY <1>12, StepNames
<1>13. CASE s = "grant"
  BY <1>13, StepNames
<1>14. CASE s = "aliasrole"
  BY <1>14, StepNames
<1>15. CASE s = "aliasscope"
  BY <1>15, StepNames
<1>16. CASE s = "aliasprincipal"
  BY <1>16, StepNames
<1>17. CASE s = "aliasgrant"
  BY <1>17, StepNames
<1>18. CASE s = "alias"
  BY <1>18, StepNames
<1>. QED  BY StepNames, <1>1, <1>2, <1>3, <1>4, <1>5, <1>6, <1>7, <1>8, <1>9, <1>10,
   <1>11, <1>12, <1>13, <1>14, <1>15, <1>16, <1>17, <1>18 DEF Calls, Lookups

\* A listing moves Create on to the call it saves or to the one after what it
\* found, and never past a part of the workspace's own.
LEMMA AfterLookup ==
  ASSUME NEW s \in DOMAIN Lookups, NEW next \in {Lookups[s].what, Lookups[s].then}
  PROVE  /\ s \in CreateSteps
         /\ Lookups[s].what # Lookups[s].then
         /\ next \in CreateSteps \ (Early \cup Binding)
         /\ \A part \in Own : Place[part] < Place[next] => Place[part] < Place[s]
         /\ \A part \in {"group", "role", "aliasrole", "aliasgrant"} :
              Place[part] < Place[next] =>
                \/ Place[part] < Place[s]
                \/ next = Lookups[s].then /\ part = Lookups[s].what
<1> USE StepNames DEF Lookups, Place, Own, Early, Binding
<1>1. CASE s = "findgroup"
  BY <1>1
<1>2. CASE s = "findrole"
  BY <1>2
<1>3. CASE s = "findaliasrole"
  BY <1>3
<1>. QED  BY <1>1, <1>2, <1>3

\* The two sets that Create adds to.
LEMMA PartSets == Own \cap Shared = {} /\ Binding \subseteq Shared
BY DEF Own, Shared, Binding

--------------------------------------------------------------------------------
(* The invariant                                                           *)

LEMMA InitIInv == Init => IInv
<1> SUFFICES ASSUME Init PROVE IInv
  OBVIOUS
<1>1. TypeOK
  <2>1. MaxFaults \in Nat /\ MaxRequests \in Nat
    BY BoundsAssumption
  <2>2. create \in [Workspaces -> CreateSteps \cup {"failed"}]
    BY StepNames DEF Init
  <2>3. running \subseteq {w \in Workspaces : Listed(w)}
    BY DEF Init
  <2>4. has \in [Workspaces -> SUBSET Own] /\ shared \subseteq Shared
    BY DEF Init
  <2>5. 0 \in 0 .. MaxFaults /\ 0 \in 0 .. MaxRequests
    BY <2>1
  <2>. QED  BY <2>2, <2>3, <2>4, <2>5 DEF Init, TypeOK
<1>2. \A w \in Workspaces, part \in Parts : ~Past(w, part)
  BY DEF Init, Past, Place, Parts, Own, Shared
<1>3. Made /\ SharedMade
  BY <1>2 DEF Made, SharedMade, Parts, Shared
<1>. QED
  BY <1>1, <1>3 DEF Init, IInv, RoleBound, AliasBound, ScopeFirst, EarlyUnlisted,
     Removed,
     TargetFirst, NoVolumeOrphanedByDestroy, Gone

\* A step of Create, or its last one before it fails, keeps the invariant.
LEMMA CreateCallIInv ==
  ASSUME IInv, NEW w \in Workspaces, CreateCall(w)
  PROVE  IInv'
<1> DEFINE s == create[w]
<1>1. s \in Calls /\ s \in CreateSteps /\ s # "failed"
  BY DEF IInv, TypeOK, CreateCall, Calls
<1>2. /\ create' = [create EXCEPT ![w] = After(s)]
      /\ has' = [has EXCEPT ![w] = @ \cup ({s} \cap Own)]
      /\ shared' = shared \cup ({s} \cap Shared)
      /\ running' = IF s = "job" THEN running \cup {w} ELSE running
      /\ raced' = IF destroy[w] = "no" THEN raced ELSE raced \cup {w}
      /\ UNCHANGED <<destroy, attached, starting, faults, requests, unbound>>
      /\ Needs(s) \subseteq has[w]
  BY DEF CreateCall, Make, NoteRace, Refused
<1> HIDE DEF s
<1>3. TypeOK'
  <2>1. "job" \in Own
    BY DEF Own
  <2>. QED  BY <1>1, <1>2, <2>1, AfterCall DEF IInv, TypeOK, Listed
<1>4. Made'
  BY <1>1, <1>2, AfterCall DEF IInv, TypeOK, Made, Past, Parts, s
<1>5. SharedMade'
  <2>1. SUFFICES ASSUME NEW v \in Workspaces,
                        NEW part \in {"group", "role", "aliasrole", "aliasgrant"},
                        Past(v, part)'
                 PROVE  part \in shared'
    BY DEF SharedMade
  <2>2. part \in Shared
    BY DEF Shared
  <2>3. CASE v = w
    BY <1>1, <1>2, <2>1, <2>2, <2>3, AfterCall DEF IInv, TypeOK, SharedMade, Past,
       Parts, s
  <2>4. CASE v # w
    BY <1>2, <2>1, <2>4 DEF IInv, TypeOK, SharedMade, Past
  <2>. QED  BY <2>3, <2>4
<1>6. /\ s = "role" => create'[w] = "rolescope"
      /\ s = "rolescope" => create'[w] = "roleprincipal"
      /\ s = "aliasrole" => create'[w] = "aliasscope"
      /\ s = "aliasscope" => create'[w] = "aliasprincipal"
      /\ \A v \in Workspaces \ {w} : create'[v] = create[v]
      /\ s = create[w]
  BY <1>1, <1>2, AfterCall DEF IInv, TypeOK, s
<1>7. RoleBound' /\ AliasBound'
  <2>1. RoleBound'
    BY <1>2, <1>6 DEF IInv, RoleBound, ScopeFirst, Shared
  <2>2. AliasBound'
    BY <1>2, <1>6 DEF IInv, AliasBound, ScopeFirst, Shared
  <2>. QED  BY <2>1, <2>2
<1>8. ScopeFirst'
  BY <1>1, <1>2, AfterCall DEF IInv, TypeOK, ScopeFirst, Shared, s
<1>9. EarlyUnlisted'
  BY <1>1, <1>2, AfterCall DEF IInv, TypeOK, EarlyUnlisted, s
<1>10. Removed'
  BY <1>1, <1>2 DEF IInv, TypeOK, Removed, EarlyUnlisted, Early, Gone, s
<1>11. TargetFirst'
  <2>1. destroy[w] = "no" /\ s = "grant" => "target" \in has[w]
    BY <1>1 DEF IInv, Made, Past, Own, Place, s
  <2>. QED  BY <1>2, <2>1 DEF IInv, TypeOK, TargetFirst, Needs, s
<1>12. NoVolumeOrphanedByDestroy'
  BY <1>1, <1>2 DEF IInv, TypeOK, NoVolumeOrphanedByDestroy, Listed, EarlyUnlisted,
     Early, s
<1>. QED  BY <1>3, <1>4, <1>5, <1>7, <1>8, <1>9, <1>10, <1>11, <1>12 DEF IInv

\* A call of Create that takes effect and is the last one.
LEMMA CreateFailsIInv ==
  ASSUME IInv, NEW w \in Workspaces, CreateFails(w)
  PROVE  IInv'
<1> DEFINE s == create[w]
<1>1. s \in CreateSteps \ {"done"} /\ s # "failed"
  BY StepNames DEF CreateFails
<1>2. /\ create' = [create EXCEPT ![w] = "failed"]
      /\ faults \in 0 .. MaxFaults => faults' \in 0 .. MaxFaults
      /\ UNCHANGED <<destroy, attached, starting, requests>>
  BY BoundsAssumption DEF CreateFails, Fault
<1>3. CASE UNCHANGED <<has, shared, running, raced>> /\ unbound' = (unbound \/ s \in Binding)
  <2>1. TypeOK'
    BY <1>2, <1>3 DEF IInv, TypeOK, Listed
  <2>2. Made' /\ SharedMade' /\ ScopeFirst' /\ EarlyUnlisted' /\ Removed' /\ TargetFirst'
    BY <1>2, <1>3 DEF IInv, TypeOK, Made, SharedMade, Past, ScopeFirst,
       EarlyUnlisted, Early,
       Removed, TargetFirst
  <2>3. RoleBound' /\ AliasBound' /\ NoVolumeOrphanedByDestroy'
    BY <1>2, <1>3 DEF IInv, TypeOK, RoleBound, AliasBound, Binding,
       NoVolumeOrphanedByDestroy, Listed
  <2>. QED  BY <2>1, <2>2, <2>3 DEF IInv
<1>4. CASE /\ s \notin DOMAIN Lookups
           /\ ~Refused(w, s)
           /\ Make(w, s)
           /\ unbound' = (unbound \/ After(s) \in Binding)
  <2>1. s \in Calls
    BY <1>1, <1>4 DEF Calls
  <2>2. /\ has' = [has EXCEPT ![w] = @ \cup ({s} \cap Own)]
        /\ shared' = shared \cup ({s} \cap Shared)
        /\ running' = IF s = "job" THEN running \cup {w} ELSE running
        /\ raced' = IF destroy[w] = "no" THEN raced ELSE raced \cup {w}
        /\ unbound' = (unbound \/ After(s) \in Binding)
        /\ Needs(s) \subseteq has[w]
    BY <1>4 DEF Make, NoteRace, Refused
  <2> HIDE DEF s
  <2>3. TypeOK'
    <3>1. "job" \in Own
      BY DEF Own
    <3>. QED  BY <1>1, <1>2, <2>2, <3>1 DEF IInv, TypeOK, Listed
  <2>4. Made' /\ SharedMade'
    BY <1>2, <2>2 DEF IInv, TypeOK, Made, SharedMade, Past
  <2>5. RoleBound'
    BY <1>2, <2>1, <2>2, AfterCall
       DEF IInv, TypeOK, RoleBound, ScopeFirst, Shared, Binding, s
  <2>6. AliasBound'
    BY <1>2, <2>1, <2>2, AfterCall
       DEF IInv, TypeOK, AliasBound, ScopeFirst, Shared, Binding, s
  <2>7. ScopeFirst' /\ EarlyUnlisted'
    BY <1>2, <2>2 DEF IInv, TypeOK, ScopeFirst, EarlyUnlisted, Early, s
  <2>8. Removed'
    BY <1>2, <2>2 DEF IInv, TypeOK, Removed, EarlyUnlisted, Early, Gone, s
  <2>9. TargetFirst'
    <3>1. destroy[w] = "no" /\ s = "grant" => "target" \in has[w]
      BY <1>1 DEF IInv, Made, Past, Own, Place, s
    <3>. QED  BY <1>2, <2>2, <3>1 DEF IInv, TypeOK, TargetFirst, Needs, s
  <2>10. NoVolumeOrphanedByDestroy'
    BY <1>2, <2>2 DEF IInv, TypeOK, NoVolumeOrphanedByDestroy, Listed, EarlyUnlisted,
       Early, s
  <2>. QED  BY <2>3, <2>4, <2>5, <2>6, <2>7, <2>8, <2>9, <2>10 DEF IInv
<1>. QED  BY <1>3, <1>4 DEF CreateFails

\* findOrCreate's listing keeps the invariant.
LEMMA LookupIInv ==
  ASSUME IInv, NEW w \in Workspaces, Lookup(w)
  PROVE  IInv'
<1> DEFINE s == create[w]
           next == create'[w]
<1>1. /\ s \in DOMAIN Lookups
      /\ next = IF Lookups[s].what \in shared THEN Lookups[s].then ELSE Lookups[s].what
      /\ create' = [create EXCEPT ![w] = next]
      /\ UNCHANGED <<destroy, has, shared, running, attached, starting, faults,
                     requests, raced, unbound>>
  BY DEF Lookup, IInv, TypeOK
<1>2. /\ next \in CreateSteps \ (Early \cup Binding)
      /\ next # "failed"
      /\ s \notin Binding /\ s # "failed"
  BY <1>1, AfterLookup, StepNames DEF Binding, Lookups
<1>3. /\ \A part \in Own : Place[part] < Place[next] => Place[part] < Place[s]
      /\ \A part \in {"group", "role", "aliasrole", "aliasgrant"} :
           Place[part] < Place[next] => Place[part] < Place[s] \/ part \in shared
  BY <1>1, AfterLookup
<1> HIDE DEF next
<1>4. TypeOK'
  BY <1>1, <1>2 DEF IInv, TypeOK, Listed
<1>5. Made' /\ SharedMade'
  BY <1>1, <1>2, <1>3 DEF IInv, TypeOK, Made, SharedMade, Past
<1>6. RoleBound' /\ AliasBound' /\ ScopeFirst'
  BY <1>1, <1>2 DEF IInv, TypeOK, RoleBound, AliasBound, ScopeFirst, Binding
<1>7. EarlyUnlisted' /\ Removed' /\ TargetFirst' /\ NoVolumeOrphanedByDestroy'
  BY <1>1, <1>2 DEF IInv, TypeOK, EarlyUnlisted, Removed, TargetFirst,
     NoVolumeOrphanedByDestroy, Listed
<1>. QED  BY <1>4, <1>5, <1>6, <1>7 DEF IInv

\* Every step keeps the invariant: one step of the proof per action.
LEMMA NextIInv == IInv /\ [Next]_vars => IInv'
<1> SUFFICES ASSUME IInv, [Next]_vars PROVE IInv'
  OBVIOUS
<1>0. MaxFaults \in Nat /\ MaxRequests \in Nat
  BY BoundsAssumption
<1> USE <1>0 DEF IInv, TypeOK, Made, SharedMade, Past, RoleBound, AliasBound, ScopeFirst,
   EarlyUnlisted, Early, Removed, Gone, TargetFirst, NoVolumeOrphanedByDestroy, Listed
<1>1. ASSUME NEW w \in Workspaces, CreateRefused(w) PROVE IInv'
  BY <1>1, StepNames DEF CreateRefused, Refused, Needs, Unique
<1>2. ASSUME NEW w \in Workspaces, Attach(w) PROVE IInv'
  <2>1. TypeOK'
    BY <1>2 DEF Attach
  <2>2. Made' /\ SharedMade' /\ RoleBound' /\ AliasBound' /\ ScopeFirst'
    BY <1>2 DEF Attach
  <2>3. EarlyUnlisted' /\ Removed' /\ TargetFirst' /\ NoVolumeOrphanedByDestroy'
    BY <1>2 DEF Attach
  <2>. QED  BY <2>1, <2>2, <2>3 DEF IInv
<1>3. ASSUME NEW w \in Workspaces, Detach(w) PROVE IInv'
  <2>1. TypeOK'
    BY <1>3 DEF Detach
  <2>2. Made' /\ SharedMade' /\ RoleBound' /\ AliasBound' /\ ScopeFirst'
    BY <1>3 DEF Detach
  <2>3. EarlyUnlisted' /\ Removed' /\ TargetFirst' /\ NoVolumeOrphanedByDestroy'
    BY <1>3 DEF Detach
  <2>. QED  BY <2>1, <2>2, <2>3 DEF IInv
<1>4. ASSUME NEW w \in Workspaces, Stop(w) PROVE IInv'
  BY <1>4 DEF Stop, Request
<1>5. ASSUME NEW w \in Workspaces, StartRead(w) PROVE IInv'
  BY <1>5 DEF StartRead, Request
<1>6. ASSUME NEW w \in Workspaces, StartRegister(w) PROVE IInv'
  BY <1>6 DEF StartRegister, Make, NoteRace, Own, Shared
<1>7. ASSUME NEW w \in Workspaces, BeginDestroy(w) PROVE IInv'
  BY <1>7 DEF BeginDestroy, Request, DestroySteps
<1>8. ASSUME NEW w \in Workspaces, StopJob(w) PROVE IInv'
  BY <1>8 DEF StopJob, DestroyCall, DestroySteps, Own
<1>9. ASSUME NEW w \in Workspaces, DeleteVolume(w) PROVE IInv'
  BY <1>9 DEF DeleteVolume, DestroyCall, DestroySteps, Own
<1>10. ASSUME NEW w \in Workspaces, GiveUpVolume(w) PROVE IInv'
  BY <1>10 DEF GiveUpVolume, DestroyCall, DestroySteps, Own
<1>11. ASSUME NEW w \in Workspaces, PurgeJob(w) PROVE IInv'
  BY <1>11 DEF PurgeJob, DestroyCall, DestroySteps, Own
<1>12. ASSUME NEW w \in Workspaces, FindTarget(w) PROVE IInv'
  BY <1>12 DEF FindTarget, DestroyCall, DestroySteps, Own
<1>13. ASSUME NEW w \in Workspaces, RemoveGrant(w) PROVE IInv'
  BY <1>13 DEF RemoveGrant, DestroyCall, DestroySteps, Own
<1>14. ASSUME NEW w \in Workspaces, DeleteTarget(w) PROVE IInv'
  BY <1>14 DEF DeleteTarget, DestroyCall, DestroySteps, Own
<1>15. ASSUME NEW w \in Workspaces, DeleteHostSet(w) PROVE IInv'
  BY <1>15 DEF DeleteHostSet, DestroyCall, DestroySteps, Own
<1>16. ASSUME NEW w \in Workspaces, DeleteAlias(w) PROVE IInv'
  BY <1>16 DEF DeleteAlias, DestroyCall, DestroySteps, Own
<1>17. ASSUME NEW w \in Workspaces, DestroyFails(w) PROVE IInv'
  BY <1>17 DEF DestroyFails, Fault, DestroySteps
<1>18. ASSUME Crash PROVE IInv'
  <2>1. TypeOK'
    BY <1>0, <1>18 DEF Crash, Fault, IInv, TypeOK, Listed
  <2>2. Made' /\ SharedMade' /\ ScopeFirst' /\ EarlyUnlisted'
    BY <1>18 DEF Crash, DestroySteps, IInv, TypeOK, Made, SharedMade, Past,
       ScopeFirst, EarlyUnlisted, Early
  <2>3. RoleBound' /\ AliasBound'
    BY <1>18 DEF Crash, IInv, TypeOK, RoleBound, AliasBound, Binding
  <2>4. Removed'
    BY <1>18 DEF Crash, IInv, TypeOK, Removed, Gone, DestroySteps
  <2>5. TargetFirst' /\ NoVolumeOrphanedByDestroy'
    BY <1>18 DEF Crash, DestroySteps, IInv, TypeOK, TargetFirst,
       NoVolumeOrphanedByDestroy, Listed
  <2>. QED  BY <2>1, <2>2, <2>3, <2>4, <2>5 DEF IInv
<1>19. ASSUME UNCHANGED vars PROVE IInv'
  BY <1>19 DEF IInv, TypeOK, Listed, Made, SharedMade, Past, RoleBound, AliasBound,
     ScopeFirst, EarlyUnlisted, Removed, TargetFirst, NoVolumeOrphanedByDestroy, vars
<1>. QED
  BY CreateCallIInv, LookupIInv, CreateFailsIInv, <1>1, <1>2, <1>3, <1>4, <1>5,
     <1>6, <1>7, <1>8, <1>9, <1>10, <1>11, <1>12, <1>13, <1>14, <1>15, <1>16,
     <1>17, <1>18, <1>19 DEF Next, DestroyStep

--------------------------------------------------------------------------------
(* The theorems                                                            *)

LEMMA InvariantHolds == Spec => []IInv
<1>1. IInv /\ [Next]_vars => IInv'
  BY NextIInv
<1>. QED  BY InitIInv, <1>1, PTL DEF Spec

\* The variables keep their types.
THEOREM TypeCorrect == Spec => []TypeOK
<1>1. IInv => TypeOK
  BY DEF IInv
<1>. QED  BY <1>1, InvariantHolds, PTL

\* A Destroy that returns nil leaves nothing of the workspace, unless a Create
\* or a Start of it went on meanwhile (Destroy, hashistack.Boundary.Destroy).
THEOREM DestroyCompletes == Spec => []DestroyIsComplete
<1>1. IInv => DestroyIsComplete
  BY DEF IInv, TypeOK, Removed, Gone, DestroyIsComplete
<1>. QED  BY <1>1, InvariantHolds, PTL

\* Destroy deletes the home volume before it purges the job, so the volume of
\* an unlisted workspace is gone.
THEOREM NoVolumeOrphaned == Spec => []NoVolumeOrphanedByDestroy
<1>1. IInv => NoVolumeOrphanedByDestroy
  BY DEF IInv
<1>. QED  BY <1>1, InvariantHolds, PTL

\* A Create that returned a workspace has built all of it, roles included.
THEOREM CreatedIsUsable == Spec => []CreateIsUsable
<1>1. ASSUME IInv PROVE CreateIsUsable
  <2>1. SUFFICES ASSUME NEW w \in Workspaces, create[w] = "done", destroy[w] = "no"
                 PROVE  /\ has[w] = Own
                        /\ {"group", "role", "aliasrole", "aliasgrant"} \subseteq shared
                        /\ \/ Binding \subseteq shared
                           \/ unbound
                           \/ \E v \in Workspaces : create[v] \in Binding
    BY DEF CreateIsUsable
  <2>2. \A part \in Parts : Past(w, part)
    BY <2>1 DEF Past, Place, Parts, Own, Shared
  <2>3. has[w] = Own
    BY <1>1, <2>1, <2>2 DEF IInv, TypeOK, Made, Parts
  <2>4. {"group", "role", "aliasrole", "aliasgrant"} \subseteq shared
    BY <1>1, <2>1, <2>2 DEF IInv, SharedMade, Parts, Shared
  <2>5. \/ Binding \subseteq shared
        \/ unbound
        \/ \E v \in Workspaces : create[v] \in Binding
    BY <1>1, <2>4 DEF IInv, RoleBound, AliasBound, Binding
  <2>. QED  BY <2>3, <2>4, <2>5
<1>. QED  BY <1>1, InvariantHolds, PTL

=============================================================================
