-------------------------- MODULE AgentTemplatesProofs --------------------------
(***************************************************************************)
(* Proofs about AgentTemplates, for any number of requests and servers and *)
(* any bounds.                                                             *)
(***************************************************************************)
EXTENDS AgentTemplates, TLAPS

--------------------------------------------------------------------------------
(* The inductive invariant                                                 *)

\* What every row satisfies that is stored or held by a request.
Shaped(t) ==
  /\ \A s \in Servers : t.keyed <=> t.wiring[s] # None
  /\ t.job => t.keyed /\ t.status # "none"
  /\ t.status = "tested" => t.job
  /\ t.status = "published" => t.keyed

\* What the next step says of the row that was read and the servers wired.
Fits(step, t, wired) ==
  /\ step \in {"probe", "testpass", "testsave", "chatsave"} => t.job
  /\ step \in Publishing => t.status = "tested"
  /\ step \in Ended \cup {"purge"} => wired = {}
  /\ step \in Wiring => wired # Servers
  /\ step \in Building \cup {"persist", "unjob", "unwire"} => wired = Servers

Control == \A r \in Requests : Shaped(copy[r]) /\ Fits(pc[r], copy[r], wire[r])

\* Request r has left nothing of its own.
NotInJob(r) == job.by # r
NotInLLM(r) == key # r /\ kv # r
NotAt(r, s) == vs[s] # r /\ mkv[s] # r /\ r \notin tok[s]

\* The servers a deployment has touched, or may have.
Touched(r) ==
  CASE pc[r] \in {"revoke", "token", "mcpkv"} -> wire[r] \cup {Current(r)}
    [] pc[r] \in {"vs", "unwireonly"} -> wire[r]
    [] OTHER -> {}

\* What a request has made that has neither ended well nor lost track of it.
Traces == \A r \in Requests \ leaked :
  /\ pc[r] \notin {"persist", "unjob", "done", "crashed"} => NotInJob(r)
  /\ pc[r] \notin {"persist", "unjob", "done", "crashed", "kv", "register",
                   "unwire", "unkey"} => key # r
  /\ pc[r] \notin {"persist", "unjob", "done", "crashed", "register",
                   "unwire", "unkey", "unkv"} => kv # r
  /\ pc[r] \notin Building \cup {"persist", "unjob", "unwire", "done", "crashed"} =>
       \A s \in Servers \ Touched(r) : NotAt(r, s)

\* Nobody else is at work on what the template owns.
Alone == ~raced => \A q, r \in At(Owning) : q = r

Serves(r, s) == vs[s] = r /\ mkv[s] = r /\ r \in tok[s]

\* What a deployment that is alone has made.
Built == ~raced => \A r \in Requests :
  /\ pc[r] \in Wiring \cup Building \cup {"persist"} =>
       \A s \in wire[r] : Serves(r, s)
  /\ pc[r] \in {"revoke", "token", "mcpkv"} => vs[Current(r)] = r
  /\ pc[r] = "mcpkv" => r \in tok[Current(r)]
  /\ pc[r] \in {"kv", "register", "persist"} => key = r
  /\ pc[r] \in {"register", "persist"} => kv = r
  /\ pc[r] = "persist" => job = [by |-> r, ver |-> copy[r].ver]

UndoneIsSpoiled == ~raced /\ At(Undoing) # {} => spoiled

\* The credentials a row speaks of are there, and the test job.
RowKeyed ==
  ~raced /\ ~spoiled /\ At(Deploying \cup Deleting) = {} /\ row.keyed =>
    OneDeployment /\ \A s \in Servers : row.wiring[s] = key

RowJob ==
  ~raced /\ ~spoiled /\ At(Owning) = {} /\ row.job =>
    job = [by |-> key, ver |-> row.ver]

IInv ==
  /\ TypeOK
  /\ Shaped(row) /\ Control
  /\ Traces
  /\ Alone /\ Built /\ UndoneIsSpoiled /\ RowKeyed /\ RowJob

--------------------------------------------------------------------------------
(* The requests' steps                                                     *)

LEMMA Bounds == MaxFaults \in Nat /\ MaxInFlight \in Nat /\ None \notin Requests
BY TemplatesAssumption

Steps == Ended \cup Owning \cup RowWrites \cup {"probe", "chatsave"}
Row == [status : {"none", "draft", "tested", "published"}, ver : Requests \cup {None},
        job : BOOLEAN, keyed : BOOLEAN, wiring : [Servers -> Requests \cup {None}]]

\* The part of the invariant about the requests, and the rest of the types.
ControlTyped ==
  /\ pc \in [Requests -> Steps]
  /\ copy \in [Requests -> Row]
  /\ wire \in [Requests -> SUBSET Servers]

DataTyped ==
  /\ row \in Row
  /\ job \in [by : Requests \cup {None}, ver : Requests \cup {None}]
  /\ {key, kv} \subseteq Requests \cup {None}
  /\ vs \in [Servers -> Requests \cup {None}]
  /\ mkv \in [Servers -> Requests \cup {None}]
  /\ tok \in [Servers -> SUBSET Requests]
  /\ inst \in {"none", "starting", "running"}
  /\ faults \in 0 .. MaxFaults
  /\ raced \in BOOLEAN /\ spoiled \in BOOLEAN
  /\ leaked \subseteq Requests

LEMMA Parts == TypeOK /\ Shaped(row) <=> ControlTyped /\ DataTyped /\ Shaped(row)
BY DEF TypeOK, ControlTyped, DataTyped, Shaped, Row, Steps

LEMMA TypesNext ==
  ASSUME ControlTyped', DataTyped', Shaped(row)'
  PROVE  TypeOK'
BY DEF TypeOK, ControlTyped, DataTyped, Shaped, Row, Steps

LEMMA NoRowShaped == NoRow \in Row /\ Shaped(NoRow)
BY DEF NoRow, Row, Unwired, Shaped

\* A request that goes on keeps the control part.
LEMMA GoOnKeeps ==
  ASSUME ControlTyped, Control, NEW r \in Requests, NEW next \in Steps,
         NEW wired \in SUBSET Servers, GoOn(r, next, wired),
         next \notin Ended => Fits(next, copy[r], wired)
  PROVE  ControlTyped' /\ Control'
<1> USE DEF ControlTyped, Control, GoOn
<1>1. ControlTyped'
  BY NoRowShaped
<1>2. \A q \in Requests \ {r} :
        pc'[q] = pc[q] /\ copy'[q] = copy[q] /\ wire'[q] = wire[q]
  OBVIOUS
<1>3. pc'[r] = next
  OBVIOUS
<1>4. CASE next \in Ended
  BY <1>2, <1>3, <1>4, NoRowShaped
     DEF Ended, Fits, Wiring, Building, Publishing
<1>5. CASE next \notin Ended
  BY <1>2, <1>3, <1>5
<1>. QED  BY <1>1, <1>4, <1>5

LEMMA CallKeeps ==
  ASSUME ControlTyped, Control, NEW r \in Requests, NEW step \in Wiring \cup Building,
         NEW next \in Steps, NEW wired \in SUBSET Servers,
         Fits(next, copy[r], wired), Call(r, step, next, wired)
  PROVE  ControlTyped' /\ Control'
<1>1. CASE GoOn(r, next, wired)
  BY <1>1, GoOnKeeps
<1>2. CASE Goto(r, Undo(step))
  <2>1. Undo(step) \in Steps /\ Fits(Undo(step), copy[r], wire[r])
    BY DEF Call, ControlTyped, Control, Fits, Undo, Steps, Owning, Deploying, Undoing,
       Wiring, Building, Publishing, Ended
  <2>. QED  BY <1>2, <2>1, GoOnKeeps DEF Goto, ControlTyped
<1>. QED  BY <1>1, <1>2 DEF Call

\* One that begins has read the row.
LEMMA BeginKeeps ==
  ASSUME ControlTyped, Control, DataTyped, Shaped(row), NEW r \in Requests,
         NEW step \in Steps, Fits(step, row, {}), Begin(r, step)
  PROVE  ControlTyped' /\ Control'
BY DEF ControlTyped, Control, DataTyped, Begin, Fits, Ended

--------------------------------------------------------------------------------

LEMMA CurrentServer ==
  ASSUME NEW r \in Requests, wire[r] \in SUBSET Servers, wire[r] # Servers
  PROVE  Current(r) \in Servers \ wire[r]
BY DEF Current, ToWire

LEMMA CallTyped ==
  ASSUME DataTyped, NEW r \in Requests, NEW step, NEW next, NEW wired,
         Call(r, step, next, wired)
  PROVE  faults' \in 0 .. MaxFaults /\ spoiled' \in BOOLEAN /\ leaked' \subseteq Requests
<1>1. CASE UNCHANGED <<faults, spoiled, leaked>>
  BY <1>1 DEF DataTyped
<1>2. CASE /\ Fault
           /\ spoiled' = TRUE
           /\ leaked' = IF step \in Wiring \cup {"register"} THEN leaked \cup {r} ELSE leaked
  BY <1>2, Bounds DEF DataTyped, Fault
<1>. QED  BY <1>1, <1>2 DEF Call

LEMMA ControlKept ==
  ASSUME IInv, [Next]_vars
  PROVE  ControlTyped' /\ Control'
<1>0. ControlTyped /\ Control /\ DataTyped /\ Shaped(row)
  BY Parts DEF IInv
<1>a. \A r \in Requests :
        pc[r] \in Steps /\ wire[r] \in SUBSET Servers /\ Fits(pc[r], copy[r], wire[r])
  BY <1>0 DEF ControlTyped, Control
<1> USE <1>0
<1> USE DEF Steps, Ended, Wiring, Building, Undoing, Deleting, Publishing, RowWrites,
   Deploying, Owning
<1>1. ASSUME NEW r \in Requests, SaveRow(r) PROVE ControlTyped' /\ Control'
  BY <1>1, <1>a, GoOnKeeps DEF SaveRow, Step, Goto, Fits
<1>2. ASSUME NEW r \in Requests, Save(r) PROVE ControlTyped' /\ Control'
  BY <1>2, BeginKeeps DEF Save, Start, Fits, Shaped
<1>3. ASSUME NEW r \in Requests, DeployTest(r) PROVE ControlTyped' /\ Control'
  BY <1>3, BeginKeeps DEF DeployTest, Start, Fits, Shaped
<1>4. ASSUME NEW r \in Requests, PurgeOld(r) PROVE ControlTyped' /\ Control'
  BY <1>4, <1>a, GoOnKeeps DEF PurgeOld, NextWire, ToWire, Step, Goto, Fits
<1>5. ASSUME NEW r \in Requests, AccessFails(r) PROVE ControlTyped' /\ Control'
  BY <1>5, <1>a, GoOnKeeps DEF AccessFails, Step, Goto, Fits
<1>6. ASSUME NEW r \in Requests, CreateVirtualServer(r) PROVE ControlTyped' /\ Control'
  <2>1. pc[r] = "vs"
    BY <1>6 DEF CreateVirtualServer, Call
  <2>. QED  BY <1>6, <1>a, <2>1, CallKeeps DEF CreateVirtualServer, Fits
<1>7. ASSUME NEW r \in Requests, RevokeTokens(r) PROVE ControlTyped' /\ Control'
  BY <1>7, <1>a, GoOnKeeps DEF RevokeTokens, Step, Goto, Fits
<1>8. ASSUME NEW r \in Requests, CreateToken(r) PROVE ControlTyped' /\ Control'
  <2>1. pc[r] = "token"
    BY <1>8 DEF CreateToken, Call
  <2>. QED  BY <1>8, <1>a, <2>1, CallKeeps DEF CreateToken, Fits
<1>9. ASSUME NEW r \in Requests, WriteToken(r) PROVE ControlTyped' /\ Control'
  <2> DEFINE wired == wire[r] \cup {Current(r)}
  <2>1. Call(r, "mcpkv", NextWire(r, wired), wired)
    BY <1>9 DEF WriteToken
  <2>2. wire[r] \in SUBSET Servers /\ wire[r] # Servers
    BY <2>1 DEF ControlTyped, Control, Fits, Call
  <2>3. wired \in SUBSET Servers
    BY <2>2, CurrentServer
  <2>4. NextWire(r, wired) \in Steps /\ Fits(NextWire(r, wired), copy[r], wired)
    BY DEF NextWire, Fits
  <2>. QED  BY <2>1, <2>3, <2>4, CallKeeps
<1>10. ASSUME NEW r \in Requests, DropKey(r) PROVE ControlTyped' /\ Control'
  BY <1>10, <1>a, GoOnKeeps DEF DropKey, Step, Goto, Fits
<1>11. ASSUME NEW r \in Requests, GenerateKey(r) PROVE ControlTyped' /\ Control'
  <2>1. pc[r] = "genkey"
    BY <1>11 DEF GenerateKey, Call
  <2>. QED  BY <1>11, <1>a, <2>1, CallKeeps DEF GenerateKey, Fits
<1>12. ASSUME NEW r \in Requests, WriteKey(r) PROVE ControlTyped' /\ Control'
  <2>1. pc[r] = "kv"
    BY <1>12 DEF WriteKey, Call
  <2>. QED  BY <1>12, <1>a, <2>1, CallKeeps DEF WriteKey, Fits
<1>13. ASSUME NEW r \in Requests, RegisterTestJob(r) PROVE ControlTyped' /\ Control'
  <2>1. pc[r] = "register"
    BY <1>13 DEF RegisterTestJob, Call
  <2>. QED  BY <1>13, <1>a, <2>1, CallKeeps DEF RegisterTestJob, Fits
<1>14. ASSUME NEW r \in Requests, Persist(r) PROVE ControlTyped' /\ Control'
  BY <1>14, <1>a, GoOnKeeps DEF Persist, Step, Goto, Fits
<1>15. ASSUME NEW r \in Requests, DeployFails(r) PROVE ControlTyped' /\ Control'
  BY <1>15, <1>a, GoOnKeeps DEF DeployFails, Undo, Step, Goto, Fits
<1>16. ASSUME NEW r \in Requests, UndoJob(r) PROVE ControlTyped' /\ Control'
  BY <1>16, <1>a, GoOnKeeps DEF UndoJob, Step, Goto, Fits
<1>17. ASSUME NEW r \in Requests, UndoWiring(r) PROVE ControlTyped' /\ Control'
  BY <1>17, <1>a, GoOnKeeps DEF UndoWiring, Step, Goto, Fits
<1>18. ASSUME NEW r \in Requests, UndoKey(r) PROVE ControlTyped' /\ Control'
  BY <1>18, <1>a, GoOnKeeps DEF UndoKey, Step, Goto, Fits
<1>19. ASSUME NEW r \in Requests, UndoKV(r) PROVE ControlTyped' /\ Control'
  BY <1>19, <1>a, GoOnKeeps DEF UndoKV, Step, Goto, Fits
<1>20. ASSUME NEW r \in Requests, Test(r) PROVE ControlTyped' /\ Control'
  BY <1>20, BeginKeeps DEF Test, Start, Fits, Shaped
<1>21. ASSUME NEW r \in Requests, Probe(r) PROVE ControlTyped' /\ Control'
  BY <1>21, <1>a, GoOnKeeps DEF Probe, Step, Goto, Fits
<1>22. ASSUME NEW r \in Requests, SaveTest(r) PROVE ControlTyped' /\ Control'
  BY <1>22, <1>a, GoOnKeeps DEF SaveTest, Step, Goto, Fits
<1>23. ASSUME NEW r \in Requests, Publish(r) PROVE ControlTyped' /\ Control'
  BY <1>23, BeginKeeps DEF Publish, Start, Fits, Shaped
<1>24. ASSUME NEW r \in Requests, PublishPurge(r) PROVE ControlTyped' /\ Control'
  BY <1>24, <1>a, GoOnKeeps DEF PublishPurge, Step, Goto, Fits
<1>25. ASSUME NEW r \in Requests, PublishRow(r) PROVE ControlTyped' /\ Control'
  BY <1>25, <1>a, GoOnKeeps DEF PublishRow, Step, Goto, Fits
<1>26. ASSUME NEW r \in Requests, ChatTest(r) PROVE ControlTyped' /\ Control'
  BY <1>26, BeginKeeps DEF ChatTest, Start, Fits, Shaped
<1>27. ASSUME NEW r \in Requests, ChatSave(r) PROVE ControlTyped' /\ Control'
  BY <1>27, <1>a, GoOnKeeps DEF ChatSave, Step, Goto, Fits
<1>28. ASSUME NEW r \in Requests, DeleteTemplate(r) PROVE ControlTyped' /\ Control'
  BY <1>28, BeginKeeps DEF DeleteTemplate, Start, Fits, Shaped
<1>29. ASSUME NEW r \in Requests, CountFails(r) PROVE ControlTyped' /\ Control'
  BY <1>29, BeginKeeps DEF CountFails, Fits, Shaped
<1>30. ASSUME NEW r \in Requests, DeletePurge(r) PROVE ControlTyped' /\ Control'
  BY <1>30, <1>a, GoOnKeeps DEF DeletePurge, Step, Goto, Fits
<1>31. ASSUME NEW r \in Requests, DeleteWiring(r) PROVE ControlTyped' /\ Control'
  BY <1>31, <1>a, GoOnKeeps DEF DeleteWiring, Step, Goto, Fits
<1>32. ASSUME NEW r \in Requests, DeleteKey(r) PROVE ControlTyped' /\ Control'
  BY <1>32, <1>a, GoOnKeeps DEF DeleteKey, Step, Goto, Fits
<1>33. ASSUME NEW r \in Requests, DeleteKV(r) PROVE ControlTyped' /\ Control'
  BY <1>33, <1>a, GoOnKeeps DEF DeleteKV, Step, Goto, Fits
<1>34. ASSUME NEW r \in Requests, DeleteRow(r) PROVE ControlTyped' /\ Control'
  BY <1>34, <1>a, GoOnKeeps DEF DeleteRow, Step, Goto, Fits
<1>35. ASSUME NEW r \in Requests, WriteFails(r) PROVE ControlTyped' /\ Control'
  BY <1>35, <1>a, GoOnKeeps DEF WriteFails, RowWrites, Step, Goto, Fits
<1>36. ASSUME NEW r \in Requests, CallLost(r) PROVE ControlTyped' /\ Control'
  <2>1. AfterLost[pc[r]] \in Steps
    BY <1>36, <1>a DEF CallLost, AfterLost
  <2>2. AfterLost[pc[r]] \notin Ended => Fits(AfterLost[pc[r]], copy[r], wire[r])
    <3>0. CASE pc[r] = "purge"
      <4>1. AfterLost[pc[r]] = IF Servers = {} THEN "dropkey" ELSE "vs"
        BY <3>0 DEF AfterLost
      <4>2. wire[r] = {}
        BY <1>a, <3>0 DEF Fits
      <4>. QED  BY <4>1, <4>2 DEF Fits
    <3>1. CASE pc[r] \in {"dropkey", "unjob"}
      BY <1>36, <1>a, <3>1 DEF CallLost, AfterLost, Fits
    <3>2. CASE pc[r] \in {"unwire", "unkey", "unkv", "unwireonly"}
      BY <1>36, <1>a, <3>2 DEF CallLost, AfterLost, Fits
    <3>3. CASE pc[r] \in {"pubpurge", "delpurge", "delwire", "delkey", "delkv"}
      BY <1>36, <1>a, <3>3 DEF CallLost, AfterLost, Fits
    <3>. QED  BY <1>36, <3>0, <3>1, <3>2, <3>3 DEF CallLost, AfterLost
  <2>. QED  BY <1>36, <1>a, <2>1, <2>2, GoOnKeeps DEF CallLost, Goto
<1>37. ASSUME EnsureInstance PROVE ControlTyped' /\ Control'
  BY <1>37, NoRowShaped DEF EnsureInstance, InstanceApart, ControlTyped, Control, Fits
<1>38. ASSUME InstanceSaved PROVE ControlTyped' /\ Control'
  BY <1>38, NoRowShaped DEF InstanceSaved, InstanceApart, ControlTyped, Control, Fits
<1>39. ASSUME InstanceGone PROVE ControlTyped' /\ Control'
  BY <1>39, NoRowShaped DEF InstanceGone, InstanceApart, ControlTyped, Control, Fits
<1>40. ASSUME Crash PROVE ControlTyped' /\ Control'
  <2>1. ControlTyped'
    BY <1>40, NoRowShaped DEF Crash, ControlTyped
  <2>2. \A q \in Requests : pc'[q] \in Ended /\ copy'[q] = NoRow /\ wire'[q] = {}
    BY <1>40 DEF Crash, InFlight, ControlTyped
  <2>3. Control'
    BY <2>2, NoRowShaped DEF Control, Fits
  <2>. QED  BY <2>1, <2>3
<1>41. ASSUME UNCHANGED vars PROVE ControlTyped' /\ Control'
  BY <1>41, NoRowShaped DEF vars, llmVars, mcpVars, history, ControlTyped, Control, Fits
<1>. QED
  BY <1>1, <1>2, <1>3, <1>4, <1>5, <1>6, <1>7, <1>8, <1>9, <1>10, <1>11, <1>12,
     <1>13, <1>14, <1>15, <1>16, <1>17, <1>18, <1>19, <1>20, <1>21, <1>22, <1>23,
     <1>24, <1>25, <1>26, <1>27, <1>28, <1>29, <1>30, <1>31, <1>32, <1>33, <1>34,
     <1>35, <1>36, <1>37, <1>38, <1>39, <1>40, <1>41 DEF Next, Deploy, Delete

LEMMA DataKept ==
  ASSUME IInv, [Next]_vars
  PROVE  DataTyped' /\ Shaped(row)'
<1>0. ControlTyped /\ Control /\ DataTyped /\ Shaped(row)
  BY Parts DEF IInv
<1> USE <1>0, Bounds, NoRowShaped DEF DataTyped
<1>1. ASSUME NEW r \in Requests, SaveRow(r) PROVE DataTyped' /\ Shaped(row)'
  BY <1>1
         DEF SaveRow, Upsert, RowOnly, llmVars, mcpVars, history, ControlTyped, Control,
         Fits, Shaped, Row
<1>2. ASSUME NEW r \in Requests, Save(r) PROVE DataTyped' /\ Shaped(row)'
  BY <1>2 DEF Save, Start, Begin, llmVars, mcpVars, history
<1>3. ASSUME NEW r \in Requests, DeployTest(r) PROVE DataTyped' /\ Shaped(row)'
  BY <1>3 DEF DeployTest, Start, Begin, llmVars, mcpVars, history
<1>4. ASSUME NEW r \in Requests, PurgeOld(r) PROVE DataTyped' /\ Shaped(row)'
  BY <1>4 DEF PurgeOld, NextWire, Apart, NoJob, llmVars, mcpVars, history
<1>5. ASSUME NEW r \in Requests, AccessFails(r) PROVE DataTyped' /\ Shaped(row)'
  BY <1>5 DEF AccessFails, Apart, Fault, NoJob, llmVars, mcpVars, history
<1>6. ASSUME NEW r \in Requests, CreateVirtualServer(r) PROVE DataTyped' /\ Shaped(row)'
  BY <1>6, CallTyped DEF CreateVirtualServer, Apart, llmVars, mcpVars, history
<1>7. ASSUME NEW r \in Requests, RevokeTokens(r) PROVE DataTyped' /\ Shaped(row)'
  BY <1>7 DEF RevokeTokens, Apart, llmVars, mcpVars, history
<1>8. ASSUME NEW r \in Requests, CreateToken(r) PROVE DataTyped' /\ Shaped(row)'
  BY <1>8, CallTyped DEF CreateToken, Apart, llmVars, mcpVars, history
<1>9. ASSUME NEW r \in Requests, WriteToken(r) PROVE DataTyped' /\ Shaped(row)'
  BY <1>9, CallTyped DEF WriteToken, NextWire, Apart, llmVars, mcpVars, history
<1>10. ASSUME NEW r \in Requests, DropKey(r) PROVE DataTyped' /\ Shaped(row)'
  BY <1>10 DEF DropKey, Apart, llmVars, mcpVars, history
<1>11. ASSUME NEW r \in Requests, GenerateKey(r) PROVE DataTyped' /\ Shaped(row)'
  BY <1>11, CallTyped DEF GenerateKey, Apart, llmVars, mcpVars, history
<1>12. ASSUME NEW r \in Requests, WriteKey(r) PROVE DataTyped' /\ Shaped(row)'
  BY <1>12, CallTyped DEF WriteKey, Apart, llmVars, mcpVars, history
<1>13. ASSUME NEW r \in Requests, RegisterTestJob(r) PROVE DataTyped' /\ Shaped(row)'
  BY <1>13, CallTyped
         DEF RegisterTestJob, Apart, NoJob, llmVars, mcpVars, history, ControlTyped, Row
<1>14. ASSUME NEW r \in Requests, Persist(r) PROVE DataTyped' /\ Shaped(row)'
  BY <1>14
         DEF Persist, Upsert, llmVars, mcpVars, history, ControlTyped, Control, Fits,
         Shaped, Row
<1>15. ASSUME NEW r \in Requests, DeployFails(r) PROVE DataTyped' /\ Shaped(row)'
  BY <1>15 DEF DeployFails, Apart, Undo, Fault, llmVars, mcpVars, history
<1>16. ASSUME NEW r \in Requests, UndoJob(r) PROVE DataTyped' /\ Shaped(row)'
  BY <1>16 DEF UndoJob, Apart, NoJob, llmVars, mcpVars, history
<1>17. ASSUME NEW r \in Requests, UndoWiring(r) PROVE DataTyped' /\ Shaped(row)'
  BY <1>17 DEF UndoWiring, Apart, Teardown, llmVars, mcpVars, history
<1>18. ASSUME NEW r \in Requests, UndoKey(r) PROVE DataTyped' /\ Shaped(row)'
  BY <1>18 DEF UndoKey, Apart, llmVars, mcpVars, history
<1>19. ASSUME NEW r \in Requests, UndoKV(r) PROVE DataTyped' /\ Shaped(row)'
  BY <1>19 DEF UndoKV, Apart, llmVars, mcpVars, history
<1>20. ASSUME NEW r \in Requests, Test(r) PROVE DataTyped' /\ Shaped(row)'
  BY <1>20 DEF Test, Start, Begin, llmVars, mcpVars, history
<1>21. ASSUME NEW r \in Requests, Probe(r) PROVE DataTyped' /\ Shaped(row)'
  BY <1>21 DEF Probe, RowOnly, llmVars, mcpVars, history
<1>22. ASSUME NEW r \in Requests, SaveTest(r) PROVE DataTyped' /\ Shaped(row)'
  <2>1. copy[r] \in Row /\ Shaped(copy[r]) /\ Fits(pc[r], copy[r], wire[r])
    BY DEF ControlTyped, Control
  <2>. QED  BY <1>22, <2>1
       DEF SaveTest, Step, Upsert, RowOnly, llmVars, mcpVars, history, Fits, Shaped,
       Row, Publishing
<1>23. ASSUME NEW r \in Requests, Publish(r) PROVE DataTyped' /\ Shaped(row)'
  BY <1>23 DEF Publish, Start, Begin, Exclusive, llmVars, mcpVars, history
<1>24. ASSUME NEW r \in Requests, PublishPurge(r) PROVE DataTyped' /\ Shaped(row)'
  BY <1>24 DEF PublishPurge, RowOnly, NoJob, llmVars, mcpVars, history
<1>25. ASSUME NEW r \in Requests, PublishRow(r) PROVE DataTyped' /\ Shaped(row)'
  <2>1. copy[r] \in Row /\ Shaped(copy[r]) /\ Fits(pc[r], copy[r], wire[r])
    BY DEF ControlTyped, Control
  <2>. QED  BY <1>25, <2>1
       DEF PublishRow, Step, Upsert, RowOnly, llmVars, mcpVars, history, Fits, Shaped,
       Row, Publishing
<1>26. ASSUME NEW r \in Requests, ChatTest(r) PROVE DataTyped' /\ Shaped(row)'
  BY <1>26 DEF ChatTest, Start, Begin, llmVars, mcpVars, history
<1>27. ASSUME NEW r \in Requests, ChatSave(r) PROVE DataTyped' /\ Shaped(row)'
  BY <1>27
         DEF ChatSave, Upsert, RowOnly, llmVars, mcpVars, history, ControlTyped, Control,
         Fits, Shaped, Row
<1>28. ASSUME NEW r \in Requests, DeleteTemplate(r) PROVE DataTyped' /\ Shaped(row)'
  BY <1>28 DEF DeleteTemplate, Start, Begin, Exclusive, llmVars, mcpVars, history
<1>29. ASSUME NEW r \in Requests, CountFails(r) PROVE DataTyped' /\ Shaped(row)'
  BY <1>29 DEF CountFails, Begin, Fault, Exclusive, llmVars, mcpVars, history
<1>30. ASSUME NEW r \in Requests, DeletePurge(r) PROVE DataTyped' /\ Shaped(row)'
  BY <1>30 DEF DeletePurge, DeleteApart, NoJob, llmVars, mcpVars, history
<1>31. ASSUME NEW r \in Requests, DeleteWiring(r) PROVE DataTyped' /\ Shaped(row)'
  BY <1>31 DEF DeleteWiring, DeleteApart, Teardown, llmVars, mcpVars, history
<1>32. ASSUME NEW r \in Requests, DeleteKey(r) PROVE DataTyped' /\ Shaped(row)'
  BY <1>32 DEF DeleteKey, DeleteApart, llmVars, mcpVars, history
<1>33. ASSUME NEW r \in Requests, DeleteKV(r) PROVE DataTyped' /\ Shaped(row)'
  BY <1>33 DEF DeleteKV, DeleteApart, llmVars, mcpVars, history
<1>34. ASSUME NEW r \in Requests, DeleteRow(r) PROVE DataTyped' /\ Shaped(row)'
  BY <1>34
         DEF DeleteRow, DeleteApart, Upsert, llmVars, mcpVars, history, ControlTyped,
         Control, Fits, Shaped, Row
<1>35. ASSUME NEW r \in Requests, WriteFails(r) PROVE DataTyped' /\ Shaped(row)'
  BY <1>35 DEF WriteFails, RowWrites, Fault, llmVars, mcpVars, history
<1>36. ASSUME NEW r \in Requests, CallLost(r) PROVE DataTyped' /\ Shaped(row)'
  BY <1>36 DEF CallLost, AfterLost, Fault, llmVars, mcpVars, history
<1>37. ASSUME EnsureInstance PROVE DataTyped' /\ Shaped(row)'
  BY <1>37 DEF EnsureInstance, InstanceApart, Fault, llmVars, mcpVars, history
<1>38. ASSUME InstanceSaved PROVE DataTyped' /\ Shaped(row)'
  BY <1>38 DEF InstanceSaved, InstanceApart, Fault, llmVars, mcpVars, history
<1>39. ASSUME InstanceGone PROVE DataTyped' /\ Shaped(row)'
  BY <1>39 DEF InstanceGone, InstanceApart, Fault, llmVars, mcpVars, history
<1>40. ASSUME Crash PROVE DataTyped' /\ Shaped(row)'
  BY <1>40 DEF Crash, Fault, llmVars, mcpVars, history
<1>41. ASSUME UNCHANGED vars PROVE DataTyped' /\ Shaped(row)'
  BY <1>41 DEF vars, llmVars, mcpVars, history, Fault, llmVars, mcpVars, history
<1>. QED
  BY <1>1, <1>2, <1>3, <1>4, <1>5, <1>6, <1>7, <1>8, <1>9, <1>10, <1>11, <1>12,
     <1>13, <1>14, <1>15, <1>16, <1>17, <1>18, <1>19, <1>20, <1>21, <1>22, <1>23,
     <1>24, <1>25, <1>26, <1>27, <1>28, <1>29, <1>30, <1>31, <1>32, <1>33, <1>34,
     <1>35, <1>36, <1>37, <1>38, <1>39, <1>40, <1>41 DEF Next, Deploy, Delete

LEMMA CurrentKept ==
  ASSUME NEW r \in Requests, wire'[r] = wire[r]
  PROVE  Current(r)' = Current(r)
BY DEF Current, ToWire

LEMMA UndoWiringSteps ==
  ASSUME ControlTyped, NEW r \in Requests, UndoWiring(r)
  PROVE  \/ pc[r] = "unwire" /\ pc'[r] = "unkey"
         \/ pc[r] = "unwireonly" /\ pc'[r] = "failed"
BY DEF UndoWiring, Step, Goto, GoOn, ControlTyped

LEMMA CrashSteps ==
  ASSUME Crash
  PROVE  \A r \in Requests : pc'[r] = "crashed" \/ (pc[r] \in Ended /\ pc'[r] = pc[r])
BY DEF Crash, InFlight

\* What a deployment has left stays within what its next steps undo.
LEMMA TracesKept ==
  ASSUME IInv, ControlTyped', Control', DataTyped', [Next]_vars
  PROVE  Traces'
<1>0. ControlTyped /\ Control /\ DataTyped /\ Shaped(row)
  BY Parts DEF IInv
<1> USE <1>0, Bounds DEF ControlTyped, Control, DataTyped, IInv, Traces, Touched,
   NotInJob, NotAt, Ended, Wiring, Building, Undoing, Deleting, Publishing, RowWrites,
   Deploying, Owning, Step, Goto, GoOn, llmVars, mcpVars, history, NoRow, NoJob
<1>1. ASSUME NEW r \in Requests, SaveRow(r) PROVE Traces'
  BY <1>1, CurrentKept DEF SaveRow, Upsert, RowOnly
<1>2. ASSUME NEW r \in Requests, Save(r) PROVE Traces'
  BY <1>2, CurrentKept DEF Save, Start, Begin
<1>3. ASSUME NEW r \in Requests, DeployTest(r) PROVE Traces'
  BY <1>3, CurrentKept DEF DeployTest, Start, Begin
<1>4. ASSUME NEW r \in Requests, PurgeOld(r) PROVE Traces'
  BY <1>4, CurrentKept DEF PurgeOld, NextWire, Apart
<1>5. ASSUME NEW r \in Requests, AccessFails(r) PROVE Traces'
  BY <1>5, CurrentKept DEF AccessFails, Apart
<1>6. ASSUME NEW r \in Requests, CreateVirtualServer(r) PROVE Traces'
  BY <1>6, CurrentKept DEF CreateVirtualServer, Apart, Call, Undo
<1>7. ASSUME NEW r \in Requests, RevokeTokens(r) PROVE Traces'
  BY <1>7, CurrentKept DEF RevokeTokens, Apart
<1>8. ASSUME NEW r \in Requests, CreateToken(r) PROVE Traces'
  BY <1>8, CurrentKept DEF CreateToken, Apart, Call, Undo
<1>9. ASSUME NEW r \in Requests, WriteToken(r) PROVE Traces'
  BY <1>9, CurrentKept DEF WriteToken, NextWire, Apart, Call, Undo
<1>10. ASSUME NEW r \in Requests, DropKey(r) PROVE Traces'
  BY <1>10, CurrentKept DEF DropKey, Apart
<1>11. ASSUME NEW r \in Requests, GenerateKey(r) PROVE Traces'
  BY <1>11, CurrentKept DEF GenerateKey, Apart, Call, Undo
<1>12. ASSUME NEW r \in Requests, WriteKey(r) PROVE Traces'
  BY <1>12, CurrentKept DEF WriteKey, Apart, Call, Undo
<1>13. ASSUME NEW r \in Requests, RegisterTestJob(r) PROVE Traces'
  BY <1>13, CurrentKept DEF RegisterTestJob, Apart, Call, Undo
<1>14. ASSUME NEW r \in Requests, Persist(r) PROVE Traces'
  BY <1>14, CurrentKept DEF Persist, Upsert
<1>15. ASSUME NEW r \in Requests, DeployFails(r) PROVE Traces'
  BY <1>15, CurrentKept DEF DeployFails, Apart, Undo
<1>16. ASSUME NEW r \in Requests, UndoJob(r) PROVE Traces'
  BY <1>16, CurrentKept DEF UndoJob, Apart
<1>17. ASSUME NEW r \in Requests, UndoWiring(r) PROVE Traces'
  <2> HIDE DEF Traces, Touched, NotInJob, NotAt, IInv, Control, DataTyped
  <2>1. \/ pc[r] = "unwire" /\ pc'[r] = "unkey"
        \/ pc[r] = "unwireonly" /\ pc'[r] = "failed"
    BY <1>17, UndoWiringSteps
  <2>2. UNCHANGED <<job, key, kv, leaked>>
    BY <1>17 DEF UndoWiring, Apart
  <2>3. \A s \in wire[r] : NotAt(r, s)'
    BY <1>17 DEF UndoWiring, Teardown, NotAt
  <2>4. \A s \in Servers, q \in Requests : NotAt(q, s) => NotAt(q, s)'
    BY <1>17 DEF UndoWiring, Teardown, NotAt
  <2>5. \A q \in Requests \ {r} : 
          pc'[q] = pc[q] /\ wire'[q] = wire[q] /\ Touched(q)' = Touched(q)
    BY <1>17, CurrentKept DEF UndoWiring, Touched
  <2>6. ASSUME NEW q \in Requests \ leaked
        PROVE  /\ pc'[q] \notin {"persist", "unjob", "done", "crashed"} => NotInJob(q)'
               /\ pc'[q] \notin {"persist", "unjob", "done", "crashed", "kv", "register",
                                 "unwire", "unkey"} => key' # q
               /\ pc'[q] \notin {"persist", "unjob", "done", "crashed", "register",
                                 "unwire", "unkey", "unkv"} => kv' # q
    BY <2>1, <2>2, <2>5, <2>6 DEF IInv, Traces, NotInJob
  <2>7. ASSUME NEW q \in Requests \ leaked,
               pc'[q] \notin Building \cup {"persist", "unjob", "unwire", "done", "crashed"},
               NEW s \in Servers, s \notin Touched(q)'
        PROVE  NotAt(q, s)'
    <3>1. CASE q # r
      BY <2>4, <2>5, <2>7, <3>1 DEF IInv, Traces
    <3>2. CASE q = r
      BY <2>1, <2>3, <2>4, <2>7, <3>2 DEF IInv, Traces, Touched, Control, Fits
    <3>. QED  BY <3>1, <3>2
  <2>. QED  BY <2>2, <2>6, <2>7 DEF Traces
<1>18. ASSUME NEW r \in Requests, UndoKey(r) PROVE Traces'
  BY <1>18, CurrentKept DEF UndoKey, Apart
<1>19. ASSUME NEW r \in Requests, UndoKV(r) PROVE Traces'
  BY <1>19, CurrentKept DEF UndoKV, Apart
<1>20. ASSUME NEW r \in Requests, Test(r) PROVE Traces'
  BY <1>20, CurrentKept DEF Test, Start, Begin
<1>21. ASSUME NEW r \in Requests, Probe(r) PROVE Traces'
  BY <1>21, CurrentKept DEF Probe, RowOnly
<1>22. ASSUME NEW r \in Requests, SaveTest(r) PROVE Traces'
  BY <1>22, CurrentKept DEF SaveTest, Upsert, RowOnly
<1>23. ASSUME NEW r \in Requests, Publish(r) PROVE Traces'
  BY <1>23, CurrentKept DEF Publish, Start, Begin, Exclusive
<1>24. ASSUME NEW r \in Requests, PublishPurge(r) PROVE Traces'
  BY <1>24, CurrentKept DEF PublishPurge, RowOnly
<1>25. ASSUME NEW r \in Requests, PublishRow(r) PROVE Traces'
  BY <1>25, CurrentKept DEF PublishRow, Upsert, RowOnly
<1>26. ASSUME NEW r \in Requests, ChatTest(r) PROVE Traces'
  BY <1>26, CurrentKept DEF ChatTest, Start, Begin
<1>27. ASSUME NEW r \in Requests, ChatSave(r) PROVE Traces'
  BY <1>27, CurrentKept DEF ChatSave, Upsert, RowOnly
<1>28. ASSUME NEW r \in Requests, DeleteTemplate(r) PROVE Traces'
  BY <1>28, CurrentKept DEF DeleteTemplate, Start, Begin, Exclusive
<1>29. ASSUME NEW r \in Requests, CountFails(r) PROVE Traces'
  BY <1>29, CurrentKept DEF CountFails, Begin, Exclusive
<1>30. ASSUME NEW r \in Requests, DeletePurge(r) PROVE Traces'
  BY <1>30, CurrentKept DEF DeletePurge, DeleteApart
<1>31. ASSUME NEW r \in Requests, DeleteWiring(r) PROVE Traces'
  BY <1>31, CurrentKept DEF DeleteWiring, DeleteApart, Teardown
<1>32. ASSUME NEW r \in Requests, DeleteKey(r) PROVE Traces'
  BY <1>32, CurrentKept DEF DeleteKey, DeleteApart
<1>33. ASSUME NEW r \in Requests, DeleteKV(r) PROVE Traces'
  BY <1>33, CurrentKept DEF DeleteKV, DeleteApart
<1>34. ASSUME NEW r \in Requests, DeleteRow(r) PROVE Traces'
  BY <1>34, CurrentKept DEF DeleteRow, DeleteApart, Upsert
<1>35. ASSUME NEW r \in Requests, WriteFails(r) PROVE Traces'
  BY <1>35, CurrentKept DEF WriteFails, RowWrites
<1>36. ASSUME NEW r \in Requests, CallLost(r) PROVE Traces'
  BY <1>36, CurrentKept DEF CallLost, AfterLost
<1>37. ASSUME EnsureInstance PROVE Traces'
  BY <1>37, CurrentKept DEF EnsureInstance, InstanceApart
<1>38. ASSUME InstanceSaved PROVE Traces'
  BY <1>38, CurrentKept DEF InstanceSaved, InstanceApart
<1>39. ASSUME InstanceGone PROVE Traces'
  BY <1>39, CurrentKept DEF InstanceGone, InstanceApart
<1>40. ASSUME Crash PROVE Traces'
  <2> HIDE DEF Traces, Touched, NotInJob, NotAt, IInv, Control, DataTyped
  <2>1. \A r \in Requests : pc'[r] = "crashed" \/ (pc[r] \in Ended /\ pc'[r] = pc[r])
    BY <1>40, CrashSteps
  <2>2. UNCHANGED <<job, key, kv, vs, tok, mkv, leaked>>
    BY <1>40 DEF Crash
  <2>. QED  BY <2>1, <2>2 DEF IInv, Traces, NotInJob, NotAt, Touched
<1>41. ASSUME UNCHANGED vars PROVE Traces'
  BY <1>41, CurrentKept DEF vars, llmVars, mcpVars, history
<1>. QED
  BY <1>1, <1>2, <1>3, <1>4, <1>5, <1>6, <1>7, <1>8, <1>9, <1>10, <1>11, <1>12,
     <1>13, <1>14, <1>15, <1>16, <1>17, <1>18, <1>19, <1>20, <1>21, <1>22, <1>23,
     <1>24, <1>25, <1>26, <1>27, <1>28, <1>29, <1>30, <1>31, <1>32, <1>33, <1>34,
     <1>35, <1>36, <1>37, <1>38, <1>39, <1>40, <1>41 DEF Next, Deploy, Delete

\* Of two that overlap, the second to begin sets raced.
LEMMA AloneKept ==
  ASSUME IInv, ControlTyped', Control', DataTyped', [Next]_vars
  PROVE  Alone' /\ UndoneIsSpoiled'
<1>0. ControlTyped /\ Control /\ DataTyped /\ Shaped(row)
  BY Parts DEF IInv
<1> USE <1>0, Bounds DEF ControlTyped, Control, DataTyped, IInv, Alone,
   UndoneIsSpoiled, At, InFlight, Ended, Wiring, Building, Undoing, Deleting, Publishing,
   RowWrites, Deploying, Owning, Step, Goto, GoOn, llmVars, mcpVars, history, NoRow,
   NoJob
<1>1. ASSUME NEW r \in Requests, SaveRow(r) PROVE Alone' /\ UndoneIsSpoiled'
  BY <1>1 DEF SaveRow, Upsert, RowOnly
<1>2. ASSUME NEW r \in Requests, Save(r) PROVE Alone' /\ UndoneIsSpoiled'
  BY <1>2 DEF Save, Start, Begin
<1>3. ASSUME NEW r \in Requests, DeployTest(r) PROVE Alone' /\ UndoneIsSpoiled'
  <2>1. ~raced' => At(Owning) = {}
    BY <1>3 DEF DeployTest, Start, Exclusive
  <2>2. \A q \in Requests \ {r} : pc'[q] = pc[q]
    BY <1>3 DEF DeployTest, Start, Begin, Exclusive
  <2>3. Alone'
    BY <2>1, <2>2 DEF Alone, At
  <2>4. UndoneIsSpoiled'
    BY <1>3 DEF DeployTest, Start, Begin, Exclusive
  <2>. QED  BY <2>3, <2>4
<1>4. ASSUME NEW r \in Requests, PurgeOld(r) PROVE Alone' /\ UndoneIsSpoiled'
  BY <1>4 DEF PurgeOld, NextWire, Apart
<1>5. ASSUME NEW r \in Requests, AccessFails(r) PROVE Alone' /\ UndoneIsSpoiled'
  BY <1>5 DEF AccessFails, Apart
<1>6. ASSUME NEW r \in Requests, CreateVirtualServer(r) PROVE Alone' /\ UndoneIsSpoiled'
  BY <1>6 DEF CreateVirtualServer, Apart, Call, Undo
<1>7. ASSUME NEW r \in Requests, RevokeTokens(r) PROVE Alone' /\ UndoneIsSpoiled'
  BY <1>7 DEF RevokeTokens, Apart
<1>8. ASSUME NEW r \in Requests, CreateToken(r) PROVE Alone' /\ UndoneIsSpoiled'
  BY <1>8 DEF CreateToken, Apart, Call, Undo
<1>9. ASSUME NEW r \in Requests, WriteToken(r) PROVE Alone' /\ UndoneIsSpoiled'
  BY <1>9 DEF WriteToken, NextWire, Apart, Call, Undo
<1>10. ASSUME NEW r \in Requests, DropKey(r) PROVE Alone' /\ UndoneIsSpoiled'
  BY <1>10 DEF DropKey, Apart
<1>11. ASSUME NEW r \in Requests, GenerateKey(r) PROVE Alone' /\ UndoneIsSpoiled'
  BY <1>11 DEF GenerateKey, Apart, Call, Undo
<1>12. ASSUME NEW r \in Requests, WriteKey(r) PROVE Alone' /\ UndoneIsSpoiled'
  BY <1>12 DEF WriteKey, Apart, Call, Undo
<1>13. ASSUME NEW r \in Requests, RegisterTestJob(r) PROVE Alone' /\ UndoneIsSpoiled'
  BY <1>13 DEF RegisterTestJob, Apart, Call, Undo
<1>14. ASSUME NEW r \in Requests, Persist(r) PROVE Alone' /\ UndoneIsSpoiled'
  BY <1>14 DEF Persist, Upsert
<1>15. ASSUME NEW r \in Requests, DeployFails(r) PROVE Alone' /\ UndoneIsSpoiled'
  BY <1>15 DEF DeployFails, Apart, Undo
<1>16. ASSUME NEW r \in Requests, UndoJob(r) PROVE Alone' /\ UndoneIsSpoiled'
  BY <1>16 DEF UndoJob, Apart
<1>17. ASSUME NEW r \in Requests, UndoWiring(r) PROVE Alone' /\ UndoneIsSpoiled'
  BY <1>17 DEF UndoWiring, Apart, Teardown
<1>18. ASSUME NEW r \in Requests, UndoKey(r) PROVE Alone' /\ UndoneIsSpoiled'
  BY <1>18 DEF UndoKey, Apart
<1>19. ASSUME NEW r \in Requests, UndoKV(r) PROVE Alone' /\ UndoneIsSpoiled'
  BY <1>19 DEF UndoKV, Apart
<1>20. ASSUME NEW r \in Requests, Test(r) PROVE Alone' /\ UndoneIsSpoiled'
  BY <1>20 DEF Test, Start, Begin
<1>21. ASSUME NEW r \in Requests, Probe(r) PROVE Alone' /\ UndoneIsSpoiled'
  BY <1>21 DEF Probe, RowOnly
<1>22. ASSUME NEW r \in Requests, SaveTest(r) PROVE Alone' /\ UndoneIsSpoiled'
  BY <1>22 DEF SaveTest, Upsert, RowOnly
<1>23. ASSUME NEW r \in Requests, Publish(r) PROVE Alone' /\ UndoneIsSpoiled'
  <2>1. ~raced' => At(Owning) = {}
    BY <1>23 DEF Publish, Start, Exclusive
  <2>2. \A q \in Requests \ {r} : pc'[q] = pc[q]
    BY <1>23 DEF Publish, Start, Begin, Exclusive
  <2>3. Alone'
    BY <2>1, <2>2 DEF Alone, At
  <2>4. UndoneIsSpoiled'
    BY <1>23 DEF Publish, Start, Begin, Exclusive
  <2>. QED  BY <2>3, <2>4
<1>24. ASSUME NEW r \in Requests, PublishPurge(r) PROVE Alone' /\ UndoneIsSpoiled'
  BY <1>24 DEF PublishPurge, RowOnly
<1>25. ASSUME NEW r \in Requests, PublishRow(r) PROVE Alone' /\ UndoneIsSpoiled'
  BY <1>25 DEF PublishRow, Upsert, RowOnly
<1>26. ASSUME NEW r \in Requests, ChatTest(r) PROVE Alone' /\ UndoneIsSpoiled'
  BY <1>26 DEF ChatTest, Start, Begin
<1>27. ASSUME NEW r \in Requests, ChatSave(r) PROVE Alone' /\ UndoneIsSpoiled'
  BY <1>27 DEF ChatSave, Upsert, RowOnly
<1>28. ASSUME NEW r \in Requests, DeleteTemplate(r) PROVE Alone' /\ UndoneIsSpoiled'
  <2>1. ~raced' => At(Owning) = {}
    BY <1>28 DEF DeleteTemplate, Start, Exclusive
  <2>2. \A q \in Requests \ {r} : pc'[q] = pc[q]
    BY <1>28 DEF DeleteTemplate, Start, Begin, Exclusive
  <2>3. Alone'
    BY <2>1, <2>2 DEF Alone, At
  <2>4. UndoneIsSpoiled'
    BY <1>28 DEF DeleteTemplate, Start, Begin, Exclusive
  <2>. QED  BY <2>3, <2>4
<1>29. ASSUME NEW r \in Requests, CountFails(r) PROVE Alone' /\ UndoneIsSpoiled'
  <2>1. ~raced' => At(Owning) = {}
    BY <1>29 DEF CountFails, Exclusive
  <2>2. \A q \in Requests \ {r} : pc'[q] = pc[q]
    BY <1>29 DEF CountFails, Begin, Exclusive
  <2>3. Alone'
    BY <2>1, <2>2 DEF Alone, At
  <2>4. UndoneIsSpoiled'
    BY <1>29 DEF CountFails, Begin, Exclusive
  <2>. QED  BY <2>3, <2>4
<1>30. ASSUME NEW r \in Requests, DeletePurge(r) PROVE Alone' /\ UndoneIsSpoiled'
  BY <1>30 DEF DeletePurge, DeleteApart
<1>31. ASSUME NEW r \in Requests, DeleteWiring(r) PROVE Alone' /\ UndoneIsSpoiled'
  BY <1>31 DEF DeleteWiring, DeleteApart, Teardown
<1>32. ASSUME NEW r \in Requests, DeleteKey(r) PROVE Alone' /\ UndoneIsSpoiled'
  BY <1>32 DEF DeleteKey, DeleteApart
<1>33. ASSUME NEW r \in Requests, DeleteKV(r) PROVE Alone' /\ UndoneIsSpoiled'
  BY <1>33 DEF DeleteKV, DeleteApart
<1>34. ASSUME NEW r \in Requests, DeleteRow(r) PROVE Alone' /\ UndoneIsSpoiled'
  BY <1>34 DEF DeleteRow, DeleteApart, Upsert
<1>35. ASSUME NEW r \in Requests, WriteFails(r) PROVE Alone' /\ UndoneIsSpoiled'
  BY <1>35 DEF WriteFails, RowWrites
<1>36. ASSUME NEW r \in Requests, CallLost(r) PROVE Alone' /\ UndoneIsSpoiled'
  BY <1>36 DEF CallLost, AfterLost
<1>37. ASSUME EnsureInstance PROVE Alone' /\ UndoneIsSpoiled'
  BY <1>37 DEF EnsureInstance, InstanceApart
<1>38. ASSUME InstanceSaved PROVE Alone' /\ UndoneIsSpoiled'
  BY <1>38 DEF InstanceSaved, InstanceApart
<1>39. ASSUME InstanceGone PROVE Alone' /\ UndoneIsSpoiled'
  BY <1>39 DEF InstanceGone, InstanceApart
<1>40. ASSUME Crash PROVE Alone' /\ UndoneIsSpoiled'
  BY <1>40 DEF Crash
<1>41. ASSUME UNCHANGED vars PROVE Alone' /\ UndoneIsSpoiled'
  BY <1>41 DEF vars, llmVars, mcpVars, history
<1>. QED
  BY <1>1, <1>2, <1>3, <1>4, <1>5, <1>6, <1>7, <1>8, <1>9, <1>10, <1>11, <1>12,
     <1>13, <1>14, <1>15, <1>16, <1>17, <1>18, <1>19, <1>20, <1>21, <1>22, <1>23,
     <1>24, <1>25, <1>26, <1>27, <1>28, <1>29, <1>30, <1>31, <1>32, <1>33, <1>34,
     <1>35, <1>36, <1>37, <1>38, <1>39, <1>40, <1>41 DEF Next, Deploy, Delete

\* What a deployment that is alone has made stays until it ends.
LEMMA BuiltKept ==
  ASSUME IInv, ControlTyped', Control', DataTyped', [Next]_vars
  PROVE  Built'
<1>0. ControlTyped /\ Control /\ DataTyped /\ Shaped(row)
  BY Parts DEF IInv
<1> USE <1>0, Bounds DEF ControlTyped, Control, DataTyped, IInv, Built, Alone, Serves,
   At, InFlight, Fits, Ended, Wiring, Building, Undoing, Deleting, Publishing, RowWrites,
   Deploying, Owning, Step, Goto, GoOn, llmVars, mcpVars, history, NoRow, NoJob
<1>1. ASSUME NEW r \in Requests, SaveRow(r) PROVE Built'
  BY <1>1, CurrentKept DEF SaveRow, Upsert, RowOnly
<1>2. ASSUME NEW r \in Requests, Save(r) PROVE Built'
  BY <1>2, CurrentKept DEF Save, Start, Begin
<1>3. ASSUME NEW r \in Requests, DeployTest(r) PROVE Built'
  BY <1>3, CurrentKept DEF DeployTest, Start, Begin
<1>4. ASSUME NEW r \in Requests, PurgeOld(r) PROVE Built'
  BY <1>4, CurrentKept DEF PurgeOld, NextWire, Apart
<1>5. ASSUME NEW r \in Requests, AccessFails(r) PROVE Built'
  BY <1>5, CurrentKept DEF AccessFails, Apart
<1>6. ASSUME NEW r \in Requests, CreateVirtualServer(r) PROVE Built'
  BY <1>6, CurrentKept DEF CreateVirtualServer, Apart, Call, Undo
<1>7. ASSUME NEW r \in Requests, RevokeTokens(r) PROVE Built'
  <2> HIDE DEF Built, Alone, Serves, At, InFlight, Fits
  <2>1. pc[r] = "revoke" /\ pc' = [pc EXCEPT ![r] = "token"] /\ wire'[r] = wire[r]
    BY <1>7 DEF RevokeTokens
  <2>2. Current(r) \in Servers \ wire[r]
    BY <2>1, CurrentServer DEF Fits
  <2>3. /\ tok' = [tok EXCEPT ![Current(r)] = {}]
        /\ UNCHANGED <<vs, mkv, key, kv, job, raced>>
    BY <1>7 DEF RevokeTokens, Apart
  <2>4. ~raced => \A q \in Requests \ {r} : pc[q] \notin Owning
    BY <2>1 DEF Alone, At
  <2>5. Current(r)' = Current(r)
    BY <2>1, CurrentKept
  <2>. QED  BY <2>1, <2>2, <2>3, <2>4, <2>5 DEF Built, Serves
<1>8. ASSUME NEW r \in Requests, CreateToken(r) PROVE Built'
  BY <1>8, CurrentKept DEF CreateToken, Apart, Call, Undo
<1>9. ASSUME NEW r \in Requests, WriteToken(r) PROVE Built'
  BY <1>9, CurrentKept DEF WriteToken, NextWire, Apart, Call, Undo
<1>10. ASSUME NEW r \in Requests, DropKey(r) PROVE Built'
  BY <1>10, CurrentKept DEF DropKey, Apart
<1>11. ASSUME NEW r \in Requests, GenerateKey(r) PROVE Built'
  BY <1>11, CurrentKept DEF GenerateKey, Apart, Call, Undo
<1>12. ASSUME NEW r \in Requests, WriteKey(r) PROVE Built'
  BY <1>12, CurrentKept DEF WriteKey, Apart, Call, Undo
<1>13. ASSUME NEW r \in Requests, RegisterTestJob(r) PROVE Built'
  BY <1>13, CurrentKept DEF RegisterTestJob, Apart, Call, Undo
<1>14. ASSUME NEW r \in Requests, Persist(r) PROVE Built'
  BY <1>14, CurrentKept DEF Persist, Upsert
<1>15. ASSUME NEW r \in Requests, DeployFails(r) PROVE Built'
  BY <1>15, CurrentKept DEF DeployFails, Apart, Undo
<1>16. ASSUME NEW r \in Requests, UndoJob(r) PROVE Built'
  BY <1>16, CurrentKept DEF UndoJob, Apart
<1>17. ASSUME NEW r \in Requests, UndoWiring(r) PROVE Built'
  BY <1>17, CurrentKept DEF UndoWiring, Apart, Teardown
<1>18. ASSUME NEW r \in Requests, UndoKey(r) PROVE Built'
  BY <1>18, CurrentKept DEF UndoKey, Apart
<1>19. ASSUME NEW r \in Requests, UndoKV(r) PROVE Built'
  BY <1>19, CurrentKept DEF UndoKV, Apart
<1>20. ASSUME NEW r \in Requests, Test(r) PROVE Built'
  BY <1>20, CurrentKept DEF Test, Start, Begin
<1>21. ASSUME NEW r \in Requests, Probe(r) PROVE Built'
  BY <1>21, CurrentKept DEF Probe, RowOnly
<1>22. ASSUME NEW r \in Requests, SaveTest(r) PROVE Built'
  BY <1>22, CurrentKept DEF SaveTest, Upsert, RowOnly
<1>23. ASSUME NEW r \in Requests, Publish(r) PROVE Built'
  BY <1>23, CurrentKept DEF Publish, Start, Begin, Exclusive
<1>24. ASSUME NEW r \in Requests, PublishPurge(r) PROVE Built'
  BY <1>24, CurrentKept DEF PublishPurge, RowOnly
<1>25. ASSUME NEW r \in Requests, PublishRow(r) PROVE Built'
  BY <1>25, CurrentKept DEF PublishRow, Upsert, RowOnly
<1>26. ASSUME NEW r \in Requests, ChatTest(r) PROVE Built'
  BY <1>26, CurrentKept DEF ChatTest, Start, Begin
<1>27. ASSUME NEW r \in Requests, ChatSave(r) PROVE Built'
  BY <1>27, CurrentKept DEF ChatSave, Upsert, RowOnly
<1>28. ASSUME NEW r \in Requests, DeleteTemplate(r) PROVE Built'
  BY <1>28, CurrentKept DEF DeleteTemplate, Start, Begin, Exclusive
<1>29. ASSUME NEW r \in Requests, CountFails(r) PROVE Built'
  BY <1>29, CurrentKept DEF CountFails, Begin, Exclusive
<1>30. ASSUME NEW r \in Requests, DeletePurge(r) PROVE Built'
  BY <1>30, CurrentKept DEF DeletePurge, DeleteApart
<1>31. ASSUME NEW r \in Requests, DeleteWiring(r) PROVE Built'
  BY <1>31, CurrentKept DEF DeleteWiring, DeleteApart, Teardown
<1>32. ASSUME NEW r \in Requests, DeleteKey(r) PROVE Built'
  BY <1>32, CurrentKept DEF DeleteKey, DeleteApart
<1>33. ASSUME NEW r \in Requests, DeleteKV(r) PROVE Built'
  BY <1>33, CurrentKept DEF DeleteKV, DeleteApart
<1>34. ASSUME NEW r \in Requests, DeleteRow(r) PROVE Built'
  BY <1>34, CurrentKept DEF DeleteRow, DeleteApart, Upsert
<1>35. ASSUME NEW r \in Requests, WriteFails(r) PROVE Built'
  BY <1>35, CurrentKept DEF WriteFails, RowWrites
<1>36. ASSUME NEW r \in Requests, CallLost(r) PROVE Built'
  BY <1>36, CurrentKept DEF CallLost, AfterLost
<1>37. ASSUME EnsureInstance PROVE Built'
  BY <1>37, CurrentKept DEF EnsureInstance, InstanceApart
<1>38. ASSUME InstanceSaved PROVE Built'
  BY <1>38, CurrentKept DEF InstanceSaved, InstanceApart
<1>39. ASSUME InstanceGone PROVE Built'
  BY <1>39, CurrentKept DEF InstanceGone, InstanceApart
<1>40. ASSUME Crash PROVE Built'
  BY <1>40, CurrentKept DEF Crash
<1>41. ASSUME UNCHANGED vars PROVE Built'
  BY <1>41, CurrentKept DEF vars, llmVars, mcpVars, history
<1>. QED
  BY <1>1, <1>2, <1>3, <1>4, <1>5, <1>6, <1>7, <1>8, <1>9, <1>10, <1>11, <1>12,
     <1>13, <1>14, <1>15, <1>16, <1>17, <1>18, <1>19, <1>20, <1>21, <1>22, <1>23,
     <1>24, <1>25, <1>26, <1>27, <1>28, <1>29, <1>30, <1>31, <1>32, <1>33, <1>34,
     <1>35, <1>36, <1>37, <1>38, <1>39, <1>40, <1>41 DEF Next, Deploy, Delete

\* What a row speaks of changes only under a request that owns it.
LEMMA RowKept ==
  ASSUME IInv, ControlTyped', Control', DataTyped', [Next]_vars
  PROVE  RowKeyed' /\ RowJob'
<1>0. ControlTyped /\ Control /\ DataTyped /\ Shaped(row)
  BY Parts DEF IInv
<1> USE <1>0, Bounds DEF ControlTyped, Control, DataTyped, IInv, RowKeyed, RowJob,
   OneDeployment, Built, Alone, UndoneIsSpoiled, Serves, At, InFlight, Fits, Shaped,
   Ended, Wiring, Building, Undoing, Deleting, Publishing, RowWrites, Deploying, Owning,
   Step, Goto, GoOn, llmVars, mcpVars, history, NoRow, NoJob
<1>1. ASSUME NEW r \in Requests, SaveRow(r) PROVE RowKeyed' /\ RowJob'
  BY <1>1 DEF SaveRow, Upsert, RowOnly
<1>2. ASSUME NEW r \in Requests, Save(r) PROVE RowKeyed' /\ RowJob'
  BY <1>2 DEF Save, Start, Begin
<1>3. ASSUME NEW r \in Requests, DeployTest(r) PROVE RowKeyed' /\ RowJob'
  BY <1>3 DEF DeployTest, Start, Begin
<1>4. ASSUME NEW r \in Requests, PurgeOld(r) PROVE RowKeyed' /\ RowJob'
  BY <1>4 DEF PurgeOld, NextWire, Apart
<1>5. ASSUME NEW r \in Requests, AccessFails(r) PROVE RowKeyed' /\ RowJob'
  BY <1>5 DEF AccessFails, Apart
<1>6. ASSUME NEW r \in Requests, CreateVirtualServer(r) PROVE RowKeyed' /\ RowJob'
  BY <1>6 DEF CreateVirtualServer, Apart, Call, Undo
<1>7. ASSUME NEW r \in Requests, RevokeTokens(r) PROVE RowKeyed' /\ RowJob'
  BY <1>7 DEF RevokeTokens, Apart
<1>8. ASSUME NEW r \in Requests, CreateToken(r) PROVE RowKeyed' /\ RowJob'
  BY <1>8 DEF CreateToken, Apart, Call, Undo
<1>9. ASSUME NEW r \in Requests, WriteToken(r) PROVE RowKeyed' /\ RowJob'
  BY <1>9 DEF WriteToken, NextWire, Apart, Call, Undo
<1>10. ASSUME NEW r \in Requests, DropKey(r) PROVE RowKeyed' /\ RowJob'
  BY <1>10 DEF DropKey, Apart
<1>11. ASSUME NEW r \in Requests, GenerateKey(r) PROVE RowKeyed' /\ RowJob'
  BY <1>11 DEF GenerateKey, Apart, Call, Undo
<1>12. ASSUME NEW r \in Requests, WriteKey(r) PROVE RowKeyed' /\ RowJob'
  BY <1>12 DEF WriteKey, Apart, Call, Undo
<1>13. ASSUME NEW r \in Requests, RegisterTestJob(r) PROVE RowKeyed' /\ RowJob'
  BY <1>13 DEF RegisterTestJob, Apart, Call, Undo
<1>14. ASSUME NEW r \in Requests, Persist(r) PROVE RowKeyed' /\ RowJob'
  BY <1>14 DEF Persist, Upsert
<1>15. ASSUME NEW r \in Requests, DeployFails(r) PROVE RowKeyed' /\ RowJob'
  BY <1>15 DEF DeployFails, Apart, Undo
<1>16. ASSUME NEW r \in Requests, UndoJob(r) PROVE RowKeyed' /\ RowJob'
  BY <1>16 DEF UndoJob, Apart
<1>17. ASSUME NEW r \in Requests, UndoWiring(r) PROVE RowKeyed' /\ RowJob'
  BY <1>17 DEF UndoWiring, Apart, Teardown
<1>18. ASSUME NEW r \in Requests, UndoKey(r) PROVE RowKeyed' /\ RowJob'
  BY <1>18 DEF UndoKey, Apart
<1>19. ASSUME NEW r \in Requests, UndoKV(r) PROVE RowKeyed' /\ RowJob'
  BY <1>19 DEF UndoKV, Apart
<1>20. ASSUME NEW r \in Requests, Test(r) PROVE RowKeyed' /\ RowJob'
  BY <1>20 DEF Test, Start, Begin
<1>21. ASSUME NEW r \in Requests, Probe(r) PROVE RowKeyed' /\ RowJob'
  BY <1>21 DEF Probe, RowOnly
<1>22. ASSUME NEW r \in Requests, SaveTest(r) PROVE RowKeyed' /\ RowJob'
  <2> HIDE DEF RowKeyed, RowJob, OneDeployment, Built, Alone, UndoneIsSpoiled, Serves,
     At, InFlight, Fits, Shaped
  <2>1. pc[r] \in {"testpass", "testsave"} /\ pc'[r] = "done" /\ copy[r].job
    BY <1>22 DEF SaveTest, Fits
  <2>2. /\ At(Deploying \cup Deleting)' = {} => At(Deploying \cup Deleting) = {}
        /\ At(Owning)' = {} => At(Owning) = {}
    BY <1>22, <2>1 DEF SaveTest, At
  <2>3. ~raced' => ~raced /\ row = copy[r]
    BY <1>22 DEF SaveTest, Upsert
  <2>4. /\ row'.keyed = copy[r].keyed /\ row'.job = copy[r].job
        /\ row'.ver = copy[r].ver /\ row'.wiring = copy[r].wiring
    BY <1>22 DEF SaveTest, Upsert, Row
  <2>5. UNCHANGED <<job, key, kv, vs, tok, mkv, spoiled>>
    BY <1>22 DEF SaveTest, RowOnly
  <2>. QED  BY <2>2, <2>3, <2>4, <2>5 DEF RowKeyed, RowJob, OneDeployment
<1>23. ASSUME NEW r \in Requests, Publish(r) PROVE RowKeyed' /\ RowJob'
  BY <1>23 DEF Publish, Start, Begin, Exclusive
<1>24. ASSUME NEW r \in Requests, PublishPurge(r) PROVE RowKeyed' /\ RowJob'
  BY <1>24 DEF PublishPurge, RowOnly
<1>25. ASSUME NEW r \in Requests, PublishRow(r) PROVE RowKeyed' /\ RowJob'
  <2> HIDE DEF RowKeyed, RowJob, OneDeployment, Built, Alone, UndoneIsSpoiled, Serves,
     At, InFlight, Fits, Shaped
  <2>1. pc[r] = "publish" /\ pc'[r] = "done"
    BY <1>25 DEF PublishRow
  <2>2. At(Deploying \cup Deleting)' = {} => At(Deploying \cup Deleting) = {}
    BY <1>25, <2>1 DEF PublishRow, At
  <2>3. ~raced' => ~raced /\ row = copy[r]
    BY <1>25 DEF PublishRow, Upsert
  <2>4. /\ row'.keyed = copy[r].keyed /\ ~row'.job /\ row'.wiring = copy[r].wiring
    BY <1>25 DEF PublishRow, Upsert, Row
  <2>5. UNCHANGED <<key, kv, vs, tok, mkv, spoiled>>
    BY <1>25 DEF PublishRow, RowOnly
  <2>. QED  BY <2>2, <2>3, <2>4, <2>5 DEF RowKeyed, RowJob, OneDeployment
<1>26. ASSUME NEW r \in Requests, ChatTest(r) PROVE RowKeyed' /\ RowJob'
  BY <1>26 DEF ChatTest, Start, Begin
<1>27. ASSUME NEW r \in Requests, ChatSave(r) PROVE RowKeyed' /\ RowJob'
  <2> HIDE DEF RowKeyed, RowJob, OneDeployment, Built, Alone, UndoneIsSpoiled, Serves,
     At, InFlight, Fits, Shaped
  <2>1. pc[r] \in {"chatsave"} /\ pc'[r] = "done" /\ copy[r].job
    BY <1>27 DEF ChatSave, Fits
  <2>2. /\ At(Deploying \cup Deleting)' = {} => At(Deploying \cup Deleting) = {}
        /\ At(Owning)' = {} => At(Owning) = {}
    BY <1>27, <2>1 DEF ChatSave, At
  <2>3. ~raced' => ~raced /\ row = copy[r]
    BY <1>27 DEF ChatSave, Upsert
  <2>4. /\ row'.keyed = copy[r].keyed /\ row'.job = copy[r].job
        /\ row'.ver = copy[r].ver /\ row'.wiring = copy[r].wiring
    BY <1>27 DEF ChatSave, Upsert, Row
  <2>5. UNCHANGED <<job, key, kv, vs, tok, mkv, spoiled>>
    BY <1>27 DEF ChatSave, RowOnly
  <2>. QED  BY <2>2, <2>3, <2>4, <2>5 DEF RowKeyed, RowJob, OneDeployment
<1>28. ASSUME NEW r \in Requests, DeleteTemplate(r) PROVE RowKeyed' /\ RowJob'
  BY <1>28 DEF DeleteTemplate, Start, Begin, Exclusive
<1>29. ASSUME NEW r \in Requests, CountFails(r) PROVE RowKeyed' /\ RowJob'
  BY <1>29 DEF CountFails, Begin, Exclusive
<1>30. ASSUME NEW r \in Requests, DeletePurge(r) PROVE RowKeyed' /\ RowJob'
  BY <1>30 DEF DeletePurge, DeleteApart
<1>31. ASSUME NEW r \in Requests, DeleteWiring(r) PROVE RowKeyed' /\ RowJob'
  BY <1>31 DEF DeleteWiring, DeleteApart, Teardown
<1>32. ASSUME NEW r \in Requests, DeleteKey(r) PROVE RowKeyed' /\ RowJob'
  BY <1>32 DEF DeleteKey, DeleteApart
<1>33. ASSUME NEW r \in Requests, DeleteKV(r) PROVE RowKeyed' /\ RowJob'
  BY <1>33 DEF DeleteKV, DeleteApart
<1>34. ASSUME NEW r \in Requests, DeleteRow(r) PROVE RowKeyed' /\ RowJob'
  BY <1>34 DEF DeleteRow, DeleteApart, Upsert
<1>35. ASSUME NEW r \in Requests, WriteFails(r) PROVE RowKeyed' /\ RowJob'
  <2> HIDE DEF RowKeyed, RowJob, OneDeployment, Built, Alone, UndoneIsSpoiled, Serves,
     At, InFlight, Fits, Shaped
  <2>1. pc'[r] = "failed" /\ (~spoiled' => ~spoiled /\ pc[r] \notin Owning)
    BY <1>35 DEF WriteFails
  <2>2. /\ ~spoiled' /\ At(Deploying \cup Deleting)' = {} => At(Deploying \cup Deleting) = {}
        /\ ~spoiled' /\ At(Owning)' = {} => At(Owning) = {}
    BY <1>35, <2>1 DEF WriteFails, At
  <2>3. UNCHANGED <<row, job, key, kv, vs, tok, mkv, raced>>
    BY <1>35 DEF WriteFails
  <2>. QED  BY <2>1, <2>2, <2>3 DEF RowKeyed, RowJob, OneDeployment
<1>36. ASSUME NEW r \in Requests, CallLost(r) PROVE RowKeyed' /\ RowJob'
  BY <1>36 DEF CallLost, AfterLost
<1>37. ASSUME EnsureInstance PROVE RowKeyed' /\ RowJob'
  BY <1>37 DEF EnsureInstance, InstanceApart
<1>38. ASSUME InstanceSaved PROVE RowKeyed' /\ RowJob'
  BY <1>38 DEF InstanceSaved, InstanceApart
<1>39. ASSUME InstanceGone PROVE RowKeyed' /\ RowJob'
  BY <1>39 DEF InstanceGone, InstanceApart
<1>40. ASSUME Crash PROVE RowKeyed' /\ RowJob'
  <2> HIDE DEF RowKeyed, RowJob, OneDeployment, Built, Alone, UndoneIsSpoiled, Serves,
     At, InFlight, Fits, Shaped
  <2>1. ~spoiled' => ~spoiled /\ At(Owning) = {}
    BY <1>40 DEF Crash
  <2>2. At(Owning) = {} => At(Deploying \cup Deleting) = {}
    BY DEF At
  <2>3. UNCHANGED <<row, job, key, kv, vs, tok, mkv, raced>>
    BY <1>40 DEF Crash
  <2>. QED  BY <2>1, <2>2, <2>3 DEF RowKeyed, RowJob, OneDeployment
<1>41. ASSUME UNCHANGED vars PROVE RowKeyed' /\ RowJob'
  BY <1>41 DEF vars, llmVars, mcpVars, history
<1>. QED
  BY <1>1, <1>2, <1>3, <1>4, <1>5, <1>6, <1>7, <1>8, <1>9, <1>10, <1>11, <1>12,
     <1>13, <1>14, <1>15, <1>16, <1>17, <1>18, <1>19, <1>20, <1>21, <1>22, <1>23,
     <1>24, <1>25, <1>26, <1>27, <1>28, <1>29, <1>30, <1>31, <1>32, <1>33, <1>34,
     <1>35, <1>36, <1>37, <1>38, <1>39, <1>40, <1>41 DEF Next, Deploy, Delete

--------------------------------------------------------------------------------
(* The theorems                                                            *)

LEMMA InitIInv == Init => IInv
<1> SUFFICES ASSUME Init PROVE IInv
  OBVIOUS
<1>1. ControlTyped /\ Control
  BY NoRowShaped DEF Init, ControlTyped, Control, Fits, Steps, Ended, Wiring, Building,
     Publishing
<1>2. DataTyped /\ Shaped(row)
  <2>1. faults \in 0 .. MaxFaults
    BY Bounds DEF Init
  <2>2. row \in Row /\ Shaped(row)
    BY NoRowShaped DEF Init
  <2>3. /\ vs \in [Servers -> Requests \cup {None}]
        /\ mkv \in [Servers -> Requests \cup {None}]
        /\ tok \in [Servers -> SUBSET Requests]
    BY DEF Init, Unwired
  <2>. QED  BY <2>1, <2>2, <2>3 DEF Init, DataTyped, NoJob
<1>3. Traces
  BY Bounds DEF Init, Traces, NotInJob, NotAt, NoJob, Unwired
<1>4. \A S : At(S) \subseteq {r \in Requests : "new" \in S}
  BY DEF Init, At
<1>5. At(Owning) = {} /\ At(Deleting) = {} /\ At(Undoing) = {}
  BY DEF Init, At, Owning, Deploying, Deleting, Publishing, Undoing, Wiring, Building
<1>6. Alone /\ UndoneIsSpoiled
  BY <1>5 DEF Alone, UndoneIsSpoiled
<1>7. Built
  BY DEF Init, Built, Wiring, Building
<1>8. RowKeyed /\ RowJob
  BY DEF Init, RowKeyed, RowJob, NoRow
<1>. QED  BY <1>1, <1>2, <1>3, <1>6, <1>7, <1>8, Parts DEF IInv

LEMMA NextIInv == IInv /\ [Next]_vars => IInv'
<1> SUFFICES ASSUME IInv, [Next]_vars PROVE IInv'
  OBVIOUS
<1>1. ControlTyped' /\ Control' /\ DataTyped' /\ Shaped(row)'
  BY ControlKept, DataKept
<1>2. TypeOK'
  BY <1>1, TypesNext
<1>. QED
  BY <1>1, <1>2, TracesKept, AloneKept, BuiltKept, RowKept DEF IInv

LEMMA InvariantHolds == Spec => []IInv
<1>1. IInv /\ [Next]_vars => IInv'
  BY NextIInv
<1>. QED  BY InitIInv, <1>1, PTL DEF Spec

\* The variables keep their types, and the stored row has the wiring of every
\* server exactly when it names an LLM key.
THEOREM TypeCorrect == Spec => []TypeOK
<1>1. IInv => TypeOK
  BY DEF IInv
<1>. QED  BY <1>1, InvariantHolds, PTL

\* A deployment that fails leaves no job, key, virtual server or token of its
\* own, whatever the other requests do and however often calls fail, unless a
\* call of its clean-up fails or the failure was inside the wiring of a server.
THEOREM FailuresClean == Spec => []FailedDeployCleans
<1>1. IInv => FailedDeployCleans
  BY DEF IInv, Traces, NotInJob, NotAt, Touched, Building, FailedDeployCleans
<1>. QED  BY <1>1, InvariantHolds, PTL

\* A template that is shown as tested has the running job of its saved version
\* and the live credentials of one deployment, when the template is Settled:
\* nobody is at work on what it owns, and since the last deployment that ran alone
\* no operation overwrote or undid another and none gave up half way.
THEOREM TestedIsDeployed == Spec => []TestedReflectsJob
<1>1. ASSUME IInv PROVE TestedReflectsJob
  <2>1. Shaped(row)
    BY <1>1 DEF IInv
  <2>2. At(Owning) = {} => At(Deploying \cup Deleting) = {}
    BY DEF At, Owning
  <2>3. SUFFICES ASSUME Settled, row.status = "tested"
                 PROVE  row.job /\ job.ver = row.ver /\ job.by = key /\ OneDeployment
    BY DEF TestedReflectsJob
  <2>4. row.job /\ row.keyed
    BY <2>1, <2>3 DEF Shaped
  <2>5. OneDeployment
    BY <1>1, <2>2, <2>3, <2>4 DEF IInv, Settled, RowKeyed
  <2>6. job = [by |-> key, ver |-> row.ver]
    BY <1>1, <2>3, <2>4 DEF IInv, Settled, RowJob
  <2>. QED  BY <2>4, <2>5, <2>6
<1>. QED  BY <1>1, InvariantHolds, PTL

\* A published template's instances find the credentials of the deployment
\* that was tested, when the template is Settled.
THEOREM PublishedServes == Spec => []PublishedHasCredentials
<1>1. ASSUME IInv PROVE PublishedHasCredentials
  <2>1. Shaped(row)
    BY <1>1 DEF IInv
  <2>2. At(Owning) = {} => At(Deploying \cup Deleting) = {}
    BY DEF At, Owning
  <2>. QED
    BY <1>1, <2>1, <2>2 DEF IInv, PublishedHasCredentials, Settled, RowKeyed, Shaped
<1>. QED  BY <1>1, InvariantHolds, PTL

=============================================================================
