---------------------------- MODULE McpServersProofs ----------------------------
(***************************************************************************)
(* Proofs about McpServers, for any sets of requests, servers, engines and *)
(* definitions and any bounds.                                             *)
(***************************************************************************)
EXTENDS McpServers, TLAPS

--------------------------------------------------------------------------------
(* What a request is to do.  The proofs look at a plan through its first    *)
(* step only: Follows says which step may come after which, and a plan      *)
(* stays such a chain as it gets shorter.                                   *)

Opening == {"collide", "grants"}

\* The steps that may come after the row was read again.
AfterRead == {"wirepeer", "tools", "unvs", "vs", "untokens", "token", "kv", "addons"}

StepsOf(op) ==
  CASE op = "deploy" -> Wiring \cup Deprovisioning \cup
         {"collide", "mount", "configure", "secret", "policy", "role", "register",
          "place", "save", "purge"}
    [] op = "update" -> Wiring \cup
         {"grants", "register", "place", "peer", "repoint", "activate", "unpeer", "save"}
    [] op = "test"   ->
         {"place", "peer", "repoint", "activate", "tools", "testvs", "decoy",
          "probetoken", "probe", "save", "unprobetoken", "undecoy", "untest"}
    [] op = "delete" -> Deprovisioning \cup
         {"purge", "unpeer", "unvs", "untokens", "unrow"}
    [] OTHER         -> (Wiring \ {"referenced"}) \cup {"addons"}

Ends(a) == IF a.op = "delete" THEN {"unrow", "over"} ELSE {"over"}

\* How the teardown of a's credential begins.
Teardown(a) ==
  IF a.row.cred \in Mounts THEN {"revoke"}
  ELSE IF a.row.cred \in {"static", "wif-token"} THEN {"unpolicy"}
  ELSE Ends(a)

\* What may come after a step that the requests of all operations share.
Shared(a, step) ==
  CASE step = "register" -> {"place"}
    [] step = "referenced" -> {"over"}
    [] step = "read"     -> {"wirepeer"}
    [] step = "wirepeer" -> {"tools"}
    [] step = "tools"    -> {"unvs"}
    [] step = "unvs"     -> {"vs"}
    [] step = "vs"       -> {"untokens"}
    [] step = "untokens" -> {"token"}
    [] step = "token"    -> {"kv"}
    [] step = "kv"       -> IF a.op = "addons" THEN {"addons"} ELSE {"over"}
    [] step = "revoke"   -> {"unpolicy"}
    [] step = "unpolicy" -> {"unrole"}
    [] step = "unrole"   -> IF a.row.cred \in Mounts THEN {"unmount"}
                            ELSE IF a.row.cred = "static" THEN {"unsecret"}
                            ELSE Ends(a)
    [] step \in {"unmount", "unsecret"} -> Ends(a)
    [] OTHER             -> {"over"}

Follows(a, step) ==
  CASE a.op = "deploy" /\ step = "collide"    -> {"mount"}
    [] a.op = "deploy" /\ step = "mount"      -> {"configure"}
    [] a.op = "deploy" /\ step = "configure"  -> {"policy"}
    [] a.op = "deploy" /\ step = "secret"     -> {"policy"}
    [] a.op = "deploy" /\ step = "policy"     -> {"role"}
    [] a.op = "deploy" /\ step = "role"       -> {"register"}
    [] a.op = "deploy" /\ step = "place"      -> {"save"}
    [] a.op = "deploy" /\ step = "save"       -> {"referenced"}
    [] a.op = "deploy" /\ step = "purge"      -> Teardown(a)
    [] a.op = "update" /\ step = "grants"     ->
         IF a.seen.def = a.row.def THEN {"save"} ELSE {"register"}
    [] a.op = "update" /\ step = "place"      -> {"peer", "repoint"}
    [] a.op = "update" /\ step = "peer"       -> {"repoint"}
    [] a.op = "update" /\ step = "repoint"    -> {"activate"}
    [] a.op = "update" /\ step = "activate"   -> {"save"}
    [] a.op = "update" /\ step = "unpeer"     -> {"save"}
    [] a.op = "update" /\ step = "save"       -> {"referenced", "over"}
    [] a.op = "test" /\ step = "place"        -> {"peer"}
    [] a.op = "test" /\ step = "peer"         -> {"repoint"}
    [] a.op = "test" /\ step = "repoint"      -> {"activate"}
    [] a.op = "test" /\ step = "activate"     -> {"tools"}
    [] a.op = "test" /\ step = "tools"        -> {"testvs"}
    [] a.op = "test" /\ step = "testvs"       -> {"decoy"}
    [] a.op = "test" /\ step = "decoy"        -> {"probetoken"}
    [] a.op = "test" /\ step = "probetoken"   -> {"probe"}
    [] a.op = "test" /\ step = "probe"        -> {"save"}
    [] a.op = "test" /\ step = "save"         -> {"unprobetoken"}
    [] a.op = "test" /\ step = "unprobetoken" -> {"undecoy"}
    [] a.op = "test" /\ step = "undecoy"      -> {"untest"}
    [] a.op = "delete" /\ step = "purge"      ->
         IF a.row.peer = None THEN {"unvs"} ELSE {"unpeer"}
    [] a.op = "delete" /\ step = "unpeer"     -> {"unvs"}
    [] a.op = "delete" /\ step = "unvs"       -> {"untokens"}
    [] a.op = "delete" /\ step = "untokens"   -> Teardown(a)
    [] OTHER -> Shared(a, step)

\* What comes after a failure.
Recovery(a, step) ==
  CASE a.op = "deploy" /\ step = "register" -> Teardown(a)
    [] a.op = "deploy" /\ step \in {"place", "save"} -> {"purge"}
    [] a.op = "deploy" /\ step \in Deprovisioning \cup {"purge"} -> Follows(a, step)
    [] a.op = "update" /\ step \in {"peer", "unpeer"} -> {"save"}
    [] a.op = "update" /\ step \in {"repoint", "activate"} -> {"unpeer"}
    [] a.op = "test" /\ step = "decoy" -> {"untest"}
    [] a.op = "test" /\ step = "probetoken" -> {"undecoy"}
    [] a.op = "test" /\ step \in {"probe", "save"} -> {"unprobetoken"}
    [] a.op = "test" /\ step \in {"unprobetoken", "undecoy", "untest"} ->
         Follows(a, step)
    [] a.op = "delete" /\ step # "unrow" -> Follows(a, step)
    [] OTHER -> {"over"}

\* The first step of a plan, if there is any, or what comes after it.
Lead(todo, end) == IF todo = << >> THEN end ELSE todo[1]

\* A plan that leads to `end`.
Plan(a, todo, end) ==
  /\ todo \in Seq(StepsOf(a.op))
  /\ \A i \in 1 .. Len(todo) :
       (IF i = Len(todo) THEN end ELSE todo[i + 1]) \in Follows(a, todo[i])
  /\ \A i \in 1 .. Len(todo) : i # 1 => todo[i] \notin Opening
  /\ \A i, j \in 1 .. Len(todo) : i < j /\ todo[i] = "read" => todo[j] \in AfterRead

\* What the next step relies on.
Fits(a, step) ==
  /\ a.op = "deploy" => a.row.cred \in Credentials /\ a.row.def \in Definitions
  /\ a.op = "deploy" /\ step \in Wiring \cup {"save"} => a.row \in Row
  /\ a.op \in {"update", "test", "delete"} => a.row \in Row /\ a.seen.cred = a.row.cred
  /\ a.op = "addons" /\ step \in AfterRead => a.row \in Row
  /\ a.op \in {"deploy", "update", "addons"} /\ step \in {"tools", "unvs", "vs"}
       => a.row.peer # None

Working == {"deploy", "update", "test", "delete", "addons"}
Op == [op : Over \cup Working, s : Servers \cup {None}, seen : Row \cup {NoRow},
       row : Copy, todo : Seq(Steps)]

Planned(a) ==
  /\ a.s \in Servers
  /\ a.todo # << >>
  /\ Plan(a, a.todo, "over")
  /\ Fits(a, Lead(a.todo, "over"))

Control ==
  /\ req \in [Requests -> Op]
  /\ \A r \in Requests : IF req[r].op \in Over THEN req[r] = Idle(req[r].op)
                                               ELSE Planned(req[r])

Data ==
  /\ row \in [Servers -> Row \cup {NoRow}]
  /\ addons \subseteq Servers
  /\ job \in [Servers -> [def : Definitions, addr : Address] \cup {NoJob}]
  /\ vault \in [engine : [Mounts -> {"absent", "mounted", "configured"}],
                leases : SUBSET Mounts,
                has : [Servers -> SUBSET {"secret", "policy", "role"}],
                kv : [Servers -> Makers \cup {None}]]
  /\ gw \in [peer : [Servers ->
               [id : Makers, addr : Address, active : BOOLEAN] \cup {NoPeer}],
             vs : [Servers -> [id : Makers, peer : Makers] \cup {NoVS}],
             tokens : [Servers -> SUBSET Makers],
             probe : [Servers -> [test : Requests \cup {None},
                                  decoy : Requests \cup {None},
                                  tokens : SUBSET Requests]]]
  /\ faults \in 0 .. MaxFaults
  /\ raced \subseteq Servers \cup Mounts
  /\ torn \subseteq Servers /\ unwired \subseteq Servers
  /\ strayed \subseteq Servers /\ doomed \subseteq Servers

Typed == Control /\ Data

\* The step a request is at.
Now(r) == Lead(req[r].todo, "over")

--------------------------------------------------------------------------------
(* What the requests at work are owed, as long as nothing disturbed them.   *)

\* Request q tests s and is at one of `steps`.
Testing(q, s, steps) ==
  q \in InFlight /\ req[q].op = "test" /\ Server(q) = s /\ Now(q) \in steps

Probing(s) ==
  LET p == gw.probe[s] IN
  /\ p.test # None => Testing(p.test, s, {"decoy", "probetoken", "probe", "save",
                                          "unprobetoken", "undecoy", "untest"})
  /\ p.decoy # None => Testing(p.decoy, s, {"probetoken", "probe", "save",
                                            "unprobetoken", "undecoy"})
  /\ \A q \in p.tokens : Testing(q, s, {"probe", "save", "unprobetoken"})

Probes == \A s \in Servers \ torn : Probing(s)

\* An engine whose requests were not disturbed.
Calm(r) == Mount(r) \in Mounts \ raced

Undoing == Deprovisioning \cup {"purge"}

\* The steps of a deployment that was not rejected, up to the stored row.
Making == {"mount", "configure", "secret", "policy", "role", "register", "place", "save"}

\* A deployment has its engine for itself: no row of another server names it, and
\* its own server's does so only if the deployment failed without being told.
Claims(r) ==
  req[r].op = "deploy" /\ Calm(r) /\ Now(r) \in Making \cup Undoing =>
    \A s \in Servers : row[s].cred = Mount(r) =>
      s = Server(r) /\ s \in torn /\ Now(r) \in Undoing

\* A delete works on the row it has read, and its server stops first.
Deletes(r) ==
  req[r].op = "delete" /\ Calm(r) =>
    /\ row[Server(r)] = req[r].seen
    /\ Now(r) = "purge" \/ Server(r) \in torn \/ job[Server(r)] = NoJob

\* The leases of an engine that is taken down are revoked.
Revoked(r) ==
  Calm(r) /\ Now(r) \in {"unpolicy", "unrole", "unmount"} /\ Server(r) \notin torn
    => Mount(r) \notin vault.leases

\* No two stored servers mount the same engine unless their deployments
\* overlapped, or the two rows spell it in different ways.
MountsHaveOneOwner == \A s, t \in Servers :
  s # t /\ row[s].cred \in Mounts /\ row[s].cred = row[t].cred
    => row[s].cred \in raced

Owned ==
  /\ MountsHaveOneOwner
  /\ \A r \in InFlight : Claims(r) /\ Deletes(r) /\ Revoked(r)

--------------------------------------------------------------------------------
(* What is made for a row, until it is stored and from then on.             *)

\* Request q brings another definition to s and has not stored it yet.
Changing(q, s) ==
  /\ q \in On(s) /\ req[q].op = "update"
  /\ Now(q) \in {"place", "peer", "repoint", "activate", "unpeer", "save"}
  /\ req[q].seen.def # req[q].row.def

Served(s) ==
  row[s] # NoRow /\ s \notin raced \cup torn \cup doomed /\ row[s].cred \notin raced =>
    /\ Provisioned(s, row[s].cred)
    /\ job[s].def = row[s].def \/ \E q \in Requests : Changing(q, s)

\* A deployment has made, so far, what its next step builds on.
Made(r) ==
  LET c == Mount(r) s == Server(r) step == Now(r) IN
  req[r].op = "deploy" /\ s \notin raced \cup torn /\ c \notin raced =>
    /\ step \in {"policy", "role", "register", "place", "save"} =>
         /\ c \in Mounts => vault.engine[c] = "configured"
         /\ c = "static" => "secret" \in vault.has[s]
    /\ step \in {"role", "register", "place", "save"} /\ c # "none" =>
         "policy" \in vault.has[s]
    /\ step \in {"register", "place", "save"} /\ c # "none" => "role" \in vault.has[s]
    /\ step \in {"place", "save"} => job[s].def = req[r].row.def

\* The job of an update is of its definition, once it is registered.
Updated(r) ==
  LET s == Server(r) step == Now(r) IN
  req[r].op = "update" /\ s \notin raced \cup torn =>
    \/ job[s].def = req[r].row.def
    \/ step \in {"grants", "register"} \cup Wiring
    \/ step = "save" /\ req[r].seen.def = req[r].row.def

\* What the requests know of the row they began with.
Marked(r) ==
  LET step == Now(r) IN
  /\ req[r].op = "delete" => Server(r) \in doomed \cup raced
  /\ req[r].op = "test" => req[r].row.def = req[r].seen.def
  /\ req[r].op = "update" /\ step \in {"register", "place", "peer", "repoint", "activate",
                                      "unpeer"} => req[r].seen.def # req[r].row.def
  /\ req[r].op = "deploy" /\ step \in {"collide"} \cup Making \cup Undoing =>
       req[r].seen = NoRow
  /\ req[r].op = "deploy" /\ step \in {"collide", "mount", "configure"} =>
       Mount(r) \in Mounts
  /\ req[r].op = "deploy" /\ step = "secret" => Mount(r) = "static"

Serving ==
  /\ \A s \in Servers : Served(s)
  /\ \A r \in InFlight : Made(r) /\ Updated(r) /\ Marked(r)

--------------------------------------------------------------------------------
(* What is left of a server, and what is there before it is stored.         *)

\* The last step of what request r is to do.
LastStep(r) == req[r].todo[Len(req[r].todo)]

\* A delete that no failure in Vault keeps from deleting the row.
Whole(r) == LastStep(r) = "unrow"

\* What a deployment or delete of a credential can find in Vault at a step.
Remains(c, step) ==
  CASE step \in {"collide", "mount", "configure", "secret", "unmount", "unrow"} -> {}
    [] step = "unrole"   -> Holds(c) \ {"policy"}
    [] step = "unsecret" -> Holds(c) \ {"policy", "role"}
    [] OTHER -> Holds(c)

\* Request q brings s up, or takes back what it has made, and is at one of `steps`.
Raising(q, s, steps) ==
  q \in On(s) /\ req[q].op = "deploy" /\ Now(q) \in steps

\* What there is without a row is in the hands of a deployment.
Bare(s) ==
  row[s] = NoRow /\ s \notin raced \cup torn =>
    /\ job[s] = NoJob \/ \E q \in Requests : Raising(q, s, {"place", "save", "purge"})
    /\ \A x \in vault.has[s] : \E q \in Requests :
         /\ Raising(q, s, {"collide"} \cup Making \cup Undoing)
         /\ x \in Remains(Mount(q), Now(q))
    /\ gw.vs[s] = NoVS /\ gw.tokens[s] = {}
    /\ gw.peer[s] = NoPeer \/ s \in strayed

\* A stored server has nothing in Vault but what its credential needs.
Fitted(s) ==
  row[s] # NoRow /\ s \notin raced \cup torn => vault.has[s] \subseteq Holds(row[s].cred)

\* What a delete has gone past is gone.
Erased(r) ==
  LET s == Server(r) step == Now(r) IN
  req[r].op = "delete" /\ s \notin raced \cup torn =>
    /\ step # "purge" => job[s] = NoJob
    /\ step \in {"purge", "unpeer"} => gw.peer[s].id = req[r].row.peer \/ s \in strayed
    /\ step \notin {"purge", "unpeer"} => gw.peer[s] = NoPeer \/ s \in strayed
    /\ step \notin {"purge", "unpeer", "unvs"} => gw.vs[s] = NoVS
    /\ step \in Deprovisioning \cup {"unrow"} => gw.tokens[s] = {}
    /\ Whole(r) => vault.has[s] \subseteq Remains(Mount(r), step)

\* A delete deletes the row after the engine.
Cleared(r) ==
  req[r].op = "delete" /\ Now(r) = "unrow" /\ raced \cup torn = {} /\ Mount(r) \in Mounts
    => vault.engine[Mount(r)] = "absent"

\* The row that wiring works on was there when it was read; the credential that is
\* written or taken back is the one the plan was made for.
Known(r) ==
  /\ req[r].op = "deploy" /\ Now(r) \in Wiring => req[r].seen.cred = Mount(r)
  /\ req[r].op = "addons" /\ Now(r) \in AfterRead => req[r].seen.cred = Mount(r)
  /\ req[r].op = "update" /\ Now(r) = "grants" => Mount(r) # "none"
  /\ req[r].op = "deploy" /\ Now(r) \in {"policy", "role"} => Mount(r) # "none"
  /\ req[r].op \in {"deploy", "delete"} /\ Now(r) = "unsecret" => Mount(r) = "static"

\* An engine is that of a stored server, or of a deployment at work.
Mounted(m) ==
  vault.engine[m] # "absent" /\ raced \cup torn = {} =>
    \/ Claimed(m)
    \/ \E q \in InFlight : /\ req[q].op = "deploy" /\ Mount(q) = m
                           /\ Now(q) \in (Making \ {"mount"}) \cup Undoing

Tidy ==
  /\ \A s \in Servers : Bare(s) /\ Fitted(s)
  /\ \A r \in InFlight : Erased(r) /\ Cleared(r) /\ Known(r)
  /\ \A m \in Mounts : Mounted(m)

--------------------------------------------------------------------------------
(* What workspaces are given of a server.                                  *)

Rewirers == {"deploy", "update", "addons"}

Live(s) == gw.peer[s].addr = job[s].addr /\ gw.peer[s].active

\* The token in Vault is one of the virtual server, and this is over the peer.
Wired(s) ==
  /\ vault.kv[s] # None /\ vault.kv[s] = gw.vs[s].id /\ vault.kv[s] \in gw.tokens[s]
  /\ gw.vs[s].peer = gw.peer[s].id

\* Request q will wire s again.
Rewires(q, s) ==
  /\ q \in On(s) /\ req[q].op \in Rewirers
  /\ \/ Now(q) \in Wiring
     \/ req[q].op = "update" /\ Now(q) \in {"unpeer", "save"} /\ LastStep(q) = "referenced"

Joins(s) ==
  s \in addons /\ row[s] # NoRow /\ s \notin raced \cup torn \cup unwired \cup doomed =>
    Wired(s) \/ \E q \in Requests : Rewires(q, s)

\* The update q moves the job of s, and its peer after it.
Moves(q, s) ==
  /\ q \in On(s) /\ req[q].op = "update"
  /\ Now(q) \in {"place", "peer", "repoint", "activate", "unpeer"}

\* A peer is where its job is.
PeerFollows(s) ==
  row[s] # NoRow /\ s \notin raced \cup torn \cup strayed \cup doomed =>
    gw.peer[s] = NoPeer \/ Live(s) \/ \E q \in Requests : Moves(q, s)

\* What wiring has made so far, and an update before it turns the peer on.
Linked(r) ==
  LET s == Server(r) step == Now(r) peer == req[r].row.peer IN
  s \notin raced =>
    /\ req[r].op \in Rewirers /\ step \in {"tools", "unvs", "vs", "untokens", "token", "kv"}
         => peer # None /\ gw.peer[s].id = peer
    /\ req[r].op \in Rewirers /\ step \in {"untokens", "token", "kv"}
         => gw.vs[s] = [id |-> r, peer |-> peer]
    /\ req[r].op \in Rewirers /\ step = "kv" => r \in gw.tokens[s]
    /\ step = "addons" => Wired(s)
    /\ req[r].op = "update" /\ step = "activate" /\ s \notin strayed \cup torn \cup doomed
         => gw.peer[s] = NoPeer \/ gw.peer[s].addr = job[s].addr

\* An update that takes its peer back wires the server again.
Returns(r) ==
  req[r].op = "update" /\ Now(r) = "unpeer" => LastStep(r) = "referenced"

Linking ==
  /\ \A s \in Servers : Joins(s) /\ PeerFollows(s)
  /\ \A r \in InFlight : Linked(r) /\ Returns(r)

--------------------------------------------------------------------------------
(* Plans                                                                   *)

LEMMA Names ==
  /\ None \notin Requests /\ None \notin Makers /\ None \notin Credentials
  /\ None \notin Definitions
  /\ Mounts \cap Servers = {} /\ Mounts \cap {"static", "wif-token", "none"} = {}
  /\ Sources \subseteq {"static", "wif-token", "none"}
  /\ Founder \notin Requests
  /\ MaxFaults \in Nat /\ MaxInFlight \in Nat
BY ServersAssumption DEF Makers, Credentials

LEMMA StepNames == \A op : StepsOf(op) \subseteq Steps
BY DEF StepsOf, Steps, Wiring, Deprovisioning

LEMMA NotAStep == {"over", "new"} \cap Steps = {}
BY DEF Steps, Wiring, Deprovisioning

LEMMA NoLength == \A s : Len(s) \in Nat \ {0} => s # << >>
<1>1. Len(<< >>) = 0
  OBVIOUS
<1>. QED  BY <1>1

\* An empty plan leads where it ends.
LEMMA NoPlan == \A a, end : Plan(a, << >>, end)
BY DEF Plan

\* What is left of a plan is a plan, and begins with what follows its first step.
LEMMA TailPlan ==
  ASSUME NEW a, NEW todo, NEW end, todo # << >>, Plan(a, todo, end)
  PROVE  /\ Plan(a, Tail(todo), end)
         /\ Lead(Tail(todo), end) \in Follows(a, todo[1])
         /\ todo[1] \in StepsOf(a.op)
         /\ todo[1] = Head(todo)
         /\ \A i \in 1 .. Len(Tail(todo)) : Tail(todo)[i] \notin Opening
         /\ todo[1] = "read" =>
              \A i \in 1 .. Len(Tail(todo)) : Tail(todo)[i] \in AfterRead
<1> DEFINE S == StepsOf(a.op)
<1>0. todo \in Seq(S) /\ Len(todo) \in Nat /\ Len(todo) >= 1
  BY DEF Plan
<1>a. Tail(todo) \in Seq(S) /\ Len(Tail(todo)) = Len(todo) - 1
  BY <1>0
<1>b. Len(Tail(todo)) \in Nat
  BY <1>a
<1>1. /\ Tail(todo) \in Seq(S) /\ Len(Tail(todo)) = Len(todo) - 1
      /\ \A i \in 1 .. Len(Tail(todo)) : Tail(todo)[i] = todo[i + 1] /\ i + 1 \in 1 .. Len(todo)
  BY <1>0, <1>a, <1>b
<1>2. todo[1] \in S /\ todo[1] = Head(todo)
  BY <1>0
<1>3. Tail(todo) = << >> <=> Len(todo) = 1
  BY <1>0, <1>1
<1>4. Lead(Tail(todo), end) \in Follows(a, todo[1])
  <2>1. CASE Len(todo) = 1
    BY <1>0, <1>3, <2>1 DEF Plan, Lead
  <2>2. CASE Len(todo) # 1
    <3>1. 1 \in 1 .. Len(Tail(todo)) /\ Tail(todo) # << >>
      BY <1>0, <1>1, <1>3, <2>2
    <3>2. Tail(todo)[1] = todo[1 + 1]
      BY <1>1, <3>1
    <3>3. 1 \in 1 .. Len(todo)
      BY <1>0
    <3>4. (IF 1 = Len(todo) THEN end ELSE todo[1 + 1]) \in Follows(a, todo[1])
      BY <3>3 DEF Plan
    <3>. QED  BY <2>2, <3>1, <3>2, <3>4 DEF Lead
  <2>. QED  BY <2>1, <2>2
<1>5. \A i \in 1 .. Len(Tail(todo)) :
        (IF i = Len(Tail(todo)) THEN end ELSE Tail(todo)[i + 1]) \in Follows(a, Tail(todo)[i])
  <2> TAKE i \in 1 .. Len(Tail(todo))
  <2>1. i + 1 \in 1 .. Len(todo) /\ Tail(todo)[i] = todo[i + 1]
    BY <1>1
  <2>2. (IF i + 1 = Len(todo) THEN end ELSE todo[i + 1 + 1]) \in Follows(a, todo[i + 1])
    BY <2>1 DEF Plan
  <2>3. i # Len(Tail(todo)) => Tail(todo)[i + 1] = todo[i + 1 + 1]
    <3>. SUFFICES ASSUME i # Len(Tail(todo)) PROVE Tail(todo)[i + 1] = todo[i + 1 + 1]
      OBVIOUS
    <3>1. i + 1 \in 1 .. Len(Tail(todo))
      <4>1. i \in Nat /\ 1 <= i /\ i <= Len(Tail(todo))
        BY <1>b
      <4>. QED  BY <1>b, <4>1
    <3>. QED  BY <1>1, <3>1
  <2>4. i = Len(Tail(todo)) <=> i + 1 = Len(todo)
    BY <1>0, <1>1
  <2>. QED  BY <2>1, <2>2, <2>3, <2>4
<1>6. \A i \in 1 .. Len(Tail(todo)) : Tail(todo)[i] \notin Opening
  <2> TAKE i \in 1 .. Len(Tail(todo))
  <2>1. i + 1 \in 1 .. Len(todo) /\ Tail(todo)[i] = todo[i + 1] /\ i + 1 # 1
    BY <1>0, <1>1
  <2>. QED  BY <2>1 DEF Plan
<1>7. \A i, j \in 1 .. Len(Tail(todo)) :
        i < j /\ Tail(todo)[i] = "read" => Tail(todo)[j] \in AfterRead
  <2> TAKE i, j \in 1 .. Len(Tail(todo))
  <2>1. /\ i + 1 \in 1 .. Len(todo) /\ Tail(todo)[i] = todo[i + 1]
        /\ j + 1 \in 1 .. Len(todo) /\ Tail(todo)[j] = todo[j + 1]
    BY <1>1
  <2>. QED  BY <1>0, <2>1 DEF Plan
<1>8. todo[1] = "read" => \A i \in 1 .. Len(Tail(todo)) : Tail(todo)[i] \in AfterRead
  <2> SUFFICES ASSUME todo[1] = "read", NEW i \in 1 .. Len(Tail(todo))
               PROVE  Tail(todo)[i] \in AfterRead
    OBVIOUS
  <2>1. i + 1 \in 1 .. Len(todo) /\ Tail(todo)[i] = todo[i + 1] /\ 1 < i + 1
    BY <1>0, <1>1
  <2>2. 1 \in 1 .. Len(todo)
    BY <1>0
  <2>. QED  BY <2>1, <2>2 DEF Plan
<1>9. Plan(a, Tail(todo), end)
  BY <1>1, <1>5, <1>6, <1>7 DEF Plan
<1>. QED  BY <1>2, <1>4, <1>6, <1>8, <1>9

LEMMA Concatenated ==
  ASSUME NEW S, NEW s \in Seq(S), NEW t \in Seq(S)
  PROVE  /\ s \o t \in Seq(S) /\ Len(s \o t) = Len(s) + Len(t)
         /\ \A i \in 1 .. Len(s) : (s \o t)[i] = s[i]
         /\ \A i \in 1 .. Len(t) : (s \o t)[Len(s) + i] = t[i]
         /\ \A i \in 1 .. Len(s \o t) :
              \/ \E j \in 1 .. Len(s) : (s \o t)[i] = s[j]
              \/ \E j \in 1 .. Len(t) : (s \o t)[i] = t[j]
<1>1. /\ s \o t \in Seq(S) /\ Len(s \o t) = Len(s) + Len(t)
      /\ Len(s) \in Nat /\ Len(t) \in Nat
      /\ \A i \in 1 .. Len(s) : (s \o t)[i] = s[i]
      /\ \A i \in 1 .. Len(t) : (s \o t)[Len(s) + i] = t[i]
  OBVIOUS
<1>2. \A i \in 1 .. Len(s \o t) : i \notin 1 .. Len(s) =>
        \E j \in 1 .. Len(t) : i = Len(s) + j
  <2> TAKE i \in 1 .. Len(s \o t)
  <2> SUFFICES ASSUME i \notin 1 .. Len(s)
               PROVE  \E j \in 1 .. Len(t) : i = Len(s) + j
    OBVIOUS
  <2>1. i - Len(s) \in 1 .. Len(t) /\ i = Len(s) + (i - Len(s))
    BY <1>1
  <2>. QED  BY <2>1
<1>. QED  BY <1>1, <1>2

LEMMA TailOfOne ==
  ASSUME NEW S, NEW s \in Seq(S), NEW t \in Seq(S)
  PROVE  Len(s) = 1 => Tail(s \o t) = t
<1> DEFINE w == s \o t
<1>1. w \in Seq(S) /\ Len(w) = Len(s) + Len(t) /\ Len(t) \in Nat
      /\ \A i \in 1 .. Len(t) : w[Len(s) + i] = t[i]
  BY Concatenated
<1> HIDE DEF w
<1> SUFFICES ASSUME Len(s) = 1 PROVE Tail(w) = t
  BY DEF w
<1>2. w # << >>
  <2>1. Len(w) \in Nat \ {0}
    BY <1>1
  <2>. QED  BY <2>1, NoLength
<1>3. Tail(w) \in Seq(S) /\ Len(Tail(w)) = Len(t)
      /\ \A i \in 1 .. Len(t) : Tail(w)[i] = t[i]
  BY <1>1, <1>2
<1>. QED  BY <1>3

\* Two plans of which one leads to the other are one.
LEMMA Joined ==
  ASSUME NEW a, NEW first, NEW second, NEW end,
         Plan(a, second, end), Plan(a, first, Lead(second, end)),
         \A i \in 1 .. Len(first) : first[i] # "read",
         \A i \in 1 .. Len(second) : first # << >> => second[i] \notin Opening
  PROVE  /\ Plan(a, first \o second, end)
         /\ Lead(first \o second, end) = Lead(first, Lead(second, end))
<1> DEFINE S == StepsOf(a.op)
           both == first \o second
<1>0. first \in Seq(S) /\ second \in Seq(S)
  BY DEF Plan
<1>1. /\ both \in Seq(S) /\ Len(both) = Len(first) + Len(second)
      /\ Len(first) \in Nat /\ Len(second) \in Nat
      /\ \A i \in 1 .. Len(first) : both[i] = first[i]
      /\ \A i \in 1 .. Len(both) : i > Len(first) =>
           both[i] = second[i - Len(first)] /\ i - Len(first) \in 1 .. Len(second)
  BY <1>0
<1>2. \A i \in 1 .. Len(both) :
        (IF i = Len(both) THEN end ELSE both[i + 1]) \in Follows(a, both[i])
  <2> TAKE i \in 1 .. Len(both)
  <2>1. CASE i < Len(first)
    <3>1. both[i] = first[i] /\ both[i + 1] = first[i + 1] /\ i # Len(both)
      BY <1>1, <2>1
    <3>2. first[i + 1] \in Follows(a, first[i])
      BY <1>1, <2>1 DEF Plan
    <3>. QED  BY <3>1, <3>2
  <2>2. CASE i = Len(first)
    <3>1. both[i] = first[i] /\ Lead(second, end) \in Follows(a, first[i])
      BY <1>1, <2>2 DEF Plan
    <3>2. CASE second = << >>
      BY <1>1, <2>2, <3>1, <3>2 DEF Lead
    <3>3. CASE second # << >>
      <4>1. Len(second) >= 1
        BY <1>0, <3>3
      <4>2. i # Len(both) /\ both[i + 1] = second[1]
        BY <1>1, <2>2, <4>1
      <4>. QED  BY <3>1, <3>3, <4>2 DEF Lead
    <3>. QED  BY <3>2, <3>3
  <2>3. CASE i > Len(first)
    <3> DEFINE k == i - Len(first)
    <3>1. k \in 1 .. Len(second) /\ both[i] = second[k] /\ i \in Nat
      BY <1>1, <2>3
    <3>2. (IF k = Len(second) THEN end ELSE second[k + 1]) \in Follows(a, second[k])
      BY <3>1 DEF Plan
    <3>3. k = Len(second) <=> i = Len(both)
      <4> HIDE DEF both
      <4>1. /\ Len(both) = Len(first) + Len(second) /\ Len(second) \in Nat
            /\ Len(first) \in Nat
        BY <1>1
      <4>. QED  BY <3>1, <4>1
    <3>4. k # Len(second) => both[i + 1] = second[k + 1]
      <4>. SUFFICES ASSUME k # Len(second) PROVE both[i + 1] = second[k + 1]
        OBVIOUS
      <4> DEFINE j == i + 1
      <4>1. /\ Len(both) = Len(first) + Len(second) /\ Len(second) \in Nat
            /\ Len(first) \in Nat
        BY <1>1
      <4>2. j \in 1 .. Len(both) /\ j > Len(first) /\ j - Len(first) = k + 1
        <5> HIDE DEF both
        <5>. QED  BY <2>3, <3>1, <4>1
      <4>3. both[j] = second[j - Len(first)]
        BY <1>1, <4>2
      <4>4. both[j] = second[k + 1]
        <5> HIDE DEF j, k, both
        <5>. QED  BY <4>2, <4>3
      <4>. QED  BY <4>4
    <3>. QED  BY <3>1, <3>2, <3>3, <3>4
  <2>4. i < Len(first) \/ i = Len(first) \/ i > Len(first)
    <3> HIDE DEF both
    <3>. QED  BY <1>1
  <2> HIDE DEF both
  <2>. QED  BY <2>1, <2>2, <2>3, <2>4
<1>3. \A i \in 1 .. Len(both) : i # 1 => both[i] \notin Opening
  <2> TAKE i \in 1 .. Len(both)
  <2>1. CASE i <= Len(first)
    BY <1>1, <2>1 DEF Plan
  <2>2. CASE i > Len(first) /\ first # << >>
    BY <1>1, <2>2
  <2>3. CASE i > Len(first) /\ first = << >>
    <3>1. Len(first) = 0
      BY <2>3
    <3>2. both[i] = second[i] /\ i \in 1 .. Len(second)
      BY <1>1, <3>1
    <3>. QED  BY <3>2 DEF Plan
  <2>. QED  BY <1>1, <2>1, <2>2, <2>3
<1>4. \A i, j \in 1 .. Len(both) : i < j /\ both[i] = "read" => both[j] \in AfterRead
  <2> SUFFICES ASSUME NEW i \in 1 .. Len(both), NEW j \in 1 .. Len(both),
                      i < j, both[i] = "read"
               PROVE  both[j] \in AfterRead
    OBVIOUS
  <2>1. i > Len(first)
    BY <1>1
  <2>2. j > Len(first)
    BY <1>1, <2>1
  <2>3. /\ i - Len(first) \in 1 .. Len(second) /\ second[i - Len(first)] = "read"
        /\ j - Len(first) \in 1 .. Len(second) /\ both[j] = second[j - Len(first)]
    BY <1>1, <2>1, <2>2
  <2>4. i - Len(first) < j - Len(first)
    BY <1>1
  <2>. QED  BY <2>3, <2>4 DEF Plan
<1>5. Plan(a, both, end)
  BY <1>1, <1>2, <1>3, <1>4 DEF Plan
<1>6. Lead(both, end) = Lead(first, Lead(second, end))
  <2>1. CASE first = << >>
    <3>1. both = second
      BY <1>0, <2>1
    <3>. QED  BY <2>1, <3>1 DEF Lead
  <2>2. CASE first # << >>
    <3>1. Len(first) >= 1
      BY <1>0, <2>2
    <3>2. both[1] = first[1] /\ both # << >>
      BY <1>1, <3>1
    <3>. QED  BY <2>2, <3>2 DEF Lead
  <2>. QED  BY <2>1, <2>2
<1>. QED  BY <1>5, <1>6

\* A literal plan.
LEMMA WirePlan ==
  ASSUME NEW a, a.op \in {"deploy", "update"}
  PROVE  Plan(a, Wire, "over") /\ Wire # << >> /\ Lead(Wire, "over") = "read"
<1> DEFINE w == <<"read", "wirepeer", "tools", "unvs", "vs", "untokens", "token", "kv">>
<1>0. Wiring \subseteq StepsOf(a.op)
  BY DEF StepsOf
<1>1. w \in Seq(StepsOf(a.op)) /\ Len(w) = 8
  BY <1>0 DEF Wiring
<1>2. \A i \in 1 .. 8 : (IF i = 8 THEN "over" ELSE w[i + 1]) \in Follows(a, w[i])
  BY DEF Follows, Shared
<1>3. \A i \in 1 .. 8 : i # 1 => w[i] \notin Opening /\ w[i] # "read" /\ w[i] \in AfterRead
  BY DEF Opening, AfterRead
<1>4. Plan(a, w, "over")
  BY <1>1, <1>2, <1>3 DEF Plan
<1>. QED  BY <1>4 DEF Wire, Lead

LEMMA TestPlanned ==
  ASSUME NEW a, a.op = "test"
  PROVE  /\ Plan(a, TestPlan, "over") /\ Plan(a, ProbeCleanup, "over")
         /\ TestPlan # << >> /\ Lead(TestPlan, "over") = "place"
         /\ ProbeCleanup # << >> /\ Lead(ProbeCleanup, "over") = "unprobetoken"
<1> DEFINE w == <<"place", "peer", "repoint", "activate", "tools", "testvs", "decoy",
                  "probetoken", "probe", "save">>
           c == <<"unprobetoken", "undecoy", "untest">>
<1>1. w \in Seq(StepsOf(a.op)) /\ Len(w) = 10 /\ c \in Seq(StepsOf(a.op)) /\ Len(c) = 3
  BY DEF StepsOf
<1>2. \A i \in 1 .. 10 :
        (IF i = 10 THEN "unprobetoken" ELSE w[i + 1]) \in Follows(a, w[i])
  BY DEF Follows
<1>3. \A i \in 1 .. 3 : (IF i = 3 THEN "over" ELSE c[i + 1]) \in Follows(a, c[i])
  BY DEF Follows, Shared
<1>4. \A i \in 1 .. 10 : w[i] \notin Opening /\ w[i] # "read"
  BY DEF Opening
<1>5. \A i \in 1 .. 3 : c[i] \notin Opening /\ c[i] # "read"
  BY DEF Opening
<1>6. Plan(a, w, "unprobetoken")
  BY <1>1, <1>2, <1>4 DEF Plan
<1>7. Plan(a, c, "over")
  BY <1>1, <1>3, <1>5 DEF Plan
<1>8. Lead(c, "over") = "unprobetoken" /\ Lead(w, "unprobetoken") = "place"
  BY DEF Lead
<1>9. Plan(a, w \o c, "over") /\ Lead(w \o c, "over") = "place"
  <2> HIDE DEF w, c
  <2>1. \A i \in 1 .. Len(c) : c[i] \notin Opening /\ c[i] # "read"
    BY <1>1, <1>5
  <2>2. \A i \in 1 .. Len(w) : w[i] # "read"
    BY <1>1, <1>4
  <2>3. Plan(a, w, Lead(c, "over"))
    BY <1>6, <1>8
  <2>. QED  BY <1>7, <1>8, <2>1, <2>2, <2>3, Joined
<1>10. w \o c # << >>
  <2>1. Lead(<< >>, "over") = "over"
    BY DEF Lead
  <2>. QED  BY <1>9, <2>1
<1>. QED  BY <1>7, <1>8, <1>9, <1>10 DEF TestPlan, ProbeCleanup

\* The teardown of a credential.
LEMMA TeardownPlan ==
  ASSUME NEW a, a.op \in {"deploy", "delete"}, a.row.cred \in Credentials,
         NEW end, end \in Ends(a)
  PROVE  LET todo == Deprovision(a.row.cred) IN
         /\ Plan(a, todo, end)
         /\ Lead(todo, end) \in Teardown(a)
         /\ \A i \in 1 .. Len(todo) : todo[i] \notin Opening /\ todo[i] # "read"
<1> DEFINE todo == Deprovision(a.row.cred)
<1>0. Deprovisioning \subseteq StepsOf(a.op)
  BY DEF StepsOf
<1>1. CASE a.row.cred \in Mounts
  <2> DEFINE w == <<"revoke", "unpolicy", "unrole", "unmount">>
  <2>1. todo = w
    BY <1>1, Names DEF Deprovision
  <2>2. w \in Seq(StepsOf(a.op)) /\ Len(w) = 4
    BY <1>0 DEF Deprovisioning
  <2>3. \A i \in 1 .. 4 : (IF i = 4 THEN end ELSE w[i + 1]) \in Follows(a, w[i])
    BY <1>1 DEF Follows, Shared
  <2>4. \A i \in 1 .. 4 : w[i] \notin Opening /\ w[i] # "read"
    BY DEF Opening
  <2>5. Plan(a, w, end)
    BY <2>2, <2>3, <2>4 DEF Plan
  <2>6. Lead(w, end) \in Teardown(a)
    BY <1>1 DEF Lead, Teardown
  <2>. QED  BY <2>1, <2>2, <2>4, <2>5, <2>6
<1>2. CASE a.row.cred = "static"
  <2> DEFINE w == <<"unpolicy", "unrole", "unsecret">>
  <2>0. a.row.cred \notin Mounts
    BY <1>2, Names
  <2>1. todo = w
    BY <1>2, <2>0 DEF Deprovision
  <2>2. w \in Seq(StepsOf(a.op)) /\ Len(w) = 3
    BY <1>0 DEF Deprovisioning
  <2>3. \A i \in 1 .. 3 : (IF i = 3 THEN end ELSE w[i + 1]) \in Follows(a, w[i])
    BY <1>2, <2>0 DEF Follows, Shared
  <2>4. \A i \in 1 .. 3 : w[i] \notin Opening /\ w[i] # "read"
    BY DEF Opening
  <2>5. Plan(a, w, end)
    BY <2>2, <2>3, <2>4 DEF Plan
  <2>6. Lead(w, end) \in Teardown(a)
    BY <1>2, <2>0 DEF Lead, Teardown
  <2>. QED  BY <2>1, <2>2, <2>4, <2>5, <2>6
<1>3. CASE a.row.cred = "wif-token"
  <2> DEFINE w == <<"unpolicy", "unrole">>
  <2>0. a.row.cred \notin Mounts
    BY <1>3, Names
  <2>1. todo = w
    BY <1>3, <2>0 DEF Deprovision
  <2>2. w \in Seq(StepsOf(a.op)) /\ Len(w) = 2
    BY <1>0 DEF Deprovisioning
  <2>3. \A i \in 1 .. 2 : (IF i = 2 THEN end ELSE w[i + 1]) \in Follows(a, w[i])
    BY <1>3, <2>0 DEF Follows, Shared
  <2>4. \A i \in 1 .. 2 : w[i] \notin Opening /\ w[i] # "read"
    BY DEF Opening
  <2>5. Plan(a, w, end)
    BY <2>2, <2>3, <2>4 DEF Plan
  <2>6. Lead(w, end) \in Teardown(a)
    BY <1>3, <2>0 DEF Lead, Teardown
  <2>. QED  BY <2>1, <2>2, <2>4, <2>5, <2>6
<1>4. CASE a.row.cred \notin Mounts \cup {"static", "wif-token"}
  <2>1. todo = << >>
    BY <1>4 DEF Deprovision
  <2>. QED  BY <1>4, <2>1 DEF Plan, Lead, Teardown
<1>. QED  BY <1>1, <1>2, <1>3, <1>4

\* A plan of one step.
LEMMA OneStep ==
  ASSUME NEW a, NEW step, NEW end, step \in StepsOf(a.op), end \in Follows(a, step)
  PROVE  /\ Plan(a, <<step>>, end) /\ Lead(<<step>>, end) = step /\ <<step>> # << >>
         /\ \A i \in 1 .. Len(<<step>>) : <<step>>[i] = step
<1>1. Len(<<step>>) = 1 /\ <<step>>[1] = step /\ <<step>> # << >>
      /\ <<step>> \in Seq(StepsOf(a.op))
  OBVIOUS
<1>. QED  BY <1>1 DEF Plan, Lead

LEMMA TwoSteps ==
  ASSUME NEW a, NEW one, NEW two, NEW end, {one, two} \subseteq StepsOf(a.op),
         two \in Follows(a, one), end \in Follows(a, two),
         two \notin Opening, one # "read"
  PROVE  /\ Plan(a, <<one, two>>, end) /\ Lead(<<one, two>>, end) = one
         /\ <<one, two>> # << >>
         /\ \A i \in 1 .. Len(<<one, two>>) : <<one, two>>[i] \in {one, two}
<1> DEFINE w == <<one, two>>
<1>1. Len(w) = 2 /\ w[1] = one /\ w[2] = two /\ w # << >> /\ w \in Seq(StepsOf(a.op))
  OBVIOUS
<1>2. \A i \in 1 .. 2 : i = 1 \/ i = 2
  OBVIOUS
<1> HIDE DEF w
<1>3. Plan(a, w, end)
  BY <1>1, <1>2 DEF Plan
<1>4. Lead(w, end) = one
  BY <1>1 DEF Lead
<1>5. \A i \in 1 .. Len(w) : w[i] \in {one, two}
  BY <1>1, <1>2
<1>. QED  BY <1>1, <1>3, <1>4, <1>5 DEF w

LEMMA AddonsPlan ==
  ASSUME NEW a, a.op = "addons"
  PROVE  /\ Plan(a, Wire \o <<"addons">>, "over") /\ Wire \o <<"addons">> # << >>
         /\ Lead(Wire \o <<"addons">>, "over") = "read"
<1> DEFINE S == StepsOf(a.op)
           v == <<"addons">>
           w == Wire \o v
<1>0. Wire \in Seq(S) /\ v \in Seq(S)
  <2>1. {"read", "wirepeer", "tools", "unvs", "vs", "untokens", "token", "kv", "addons"}
          \subseteq StepsOf(a.op)
    BY DEF StepsOf, Wiring
  <2>. QED  BY <2>1 DEF Wire
<1>a. /\ w \in Seq(S) /\ Len(w) = Len(Wire) + Len(v)
      /\ \A i \in 1 .. Len(Wire) : w[i] = Wire[i]
      /\ \A i \in 1 .. Len(v) : w[Len(Wire) + i] = v[i]
  <2> HIDE DEF v, S
  <2>. QED  BY <1>0
<1>1. Len(Wire) = 8 /\ Len(v) = 1 /\ v[1] = "addons"
  BY DEF Wire
<1> HIDE DEF v, S, w
<1>2. /\ w \in Seq(S) /\ Len(w) = 9
      /\ \A i \in 1 .. 8 : w[i] = Wire[i]
      /\ w[9] = "addons"
  BY <1>1, <1>a
<1>3. /\ w[1] = "read" /\ w[2] = "wirepeer" /\ w[3] = "tools" /\ w[4] = "unvs"
      /\ w[5] = "vs" /\ w[6] = "untokens" /\ w[7] = "token" /\ w[8] = "kv"
  BY <1>2 DEF Wire
<1>4. \A i \in 1 .. 9 : (IF i = 9 THEN "over" ELSE w[i + 1]) \in Follows(a, w[i])
  BY <1>2, <1>3 DEF Follows, Shared
<1>5. \A i \in 1 .. 9 : i # 1 => w[i] \notin Opening /\ w[i] # "read" /\ w[i] \in AfterRead
  BY <1>2, <1>3 DEF Opening, AfterRead
<1>6. Plan(a, w, "over")
  BY <1>2, <1>4, <1>5 DEF Plan, S
<1>7. w # << >> /\ Lead(w, "over") = "read"
  <2>1. Len(w) \in Nat \ {0}
    BY <1>2
  <2>2. w # << >>
    BY <2>1, NoLength
  <2>. QED  BY <1>3, <2>2 DEF Lead
<1>. QED  BY <1>6, <1>7 DEF w, v

LEMMA RedoPlan ==
  ASSUME NEW a, a.op \in {"deploy", "update"}, NEW end, end \in Follows(a, "place")
  PROVE  /\ Plan(a, Redo, end) /\ Lead(Redo, end) = "register" /\ Redo # << >>
         /\ \A i \in 1 .. Len(Redo) : Redo[i] \in {"register", "place"}
<1>1. {"register", "place"} \subseteq StepsOf(a.op)
  BY DEF StepsOf
<1>2. "place" \in Follows(a, "register")
  BY DEF Follows, Shared
<1>. QED  BY <1>1, <1>2, TwoSteps DEF Redo, Opening

\* What the source of a credential needs is made before the job.
LEMMA InstantiatePlan ==
  ASSUME NEW a, a.op = "deploy", a.row.cred \in Credentials
  PROVE  LET todo == Instantiate(a.row.cred) IN
         /\ Plan(a, todo, "register")
         /\ \A i \in 1 .. Len(todo) : todo[i] \notin Opening /\ todo[i] # "read"
         /\ a.row.cred \in Mounts => Lead(todo, "register") = "mount" /\ todo # << >>
         /\ a.row.cred = "static" => Lead(todo, "register") = "secret"
         /\ a.row.cred = "wif-token" => Lead(todo, "register") = "policy"
         /\ a.row.cred \notin Mounts \cup {"static", "wif-token"} =>
              Lead(todo, "register") = "register"
<1> DEFINE todo == Instantiate(a.row.cred)
<1>0. {"mount", "configure", "secret", "policy", "role"} \subseteq StepsOf(a.op)
  BY DEF StepsOf
<1>1. CASE a.row.cred \in Mounts
  <2> DEFINE w == <<"mount", "configure", "policy", "role">>
  <2>1. todo = w /\ a.row.cred \notin {"static", "wif-token"}
    BY <1>1, Names DEF Instantiate
  <2>2. w \in Seq(StepsOf(a.op)) /\ Len(w) = 4
    BY <1>0
  <2>3. \A i \in 1 .. 4 : (IF i = 4 THEN "register" ELSE w[i + 1]) \in Follows(a, w[i])
    BY DEF Follows
  <2>4. \A i \in 1 .. 4 : w[i] \notin Opening /\ w[i] # "read"
    BY DEF Opening
  <2>5. Plan(a, w, "register")
    BY <2>2, <2>3, <2>4 DEF Plan
  <2>6. Lead(w, "register") = "mount" /\ w # << >>
    BY DEF Lead
  <2>. QED  BY <1>1, <2>1, <2>2, <2>4, <2>5, <2>6
<1>2. CASE a.row.cred = "static"
  <2> DEFINE w == <<"secret", "policy", "role">>
  <2>0. a.row.cred \notin Mounts
    BY <1>2, Names
  <2>1. todo = w
    BY <1>2, <2>0 DEF Instantiate
  <2>2. w \in Seq(StepsOf(a.op)) /\ Len(w) = 3
    BY <1>0
  <2>3. \A i \in 1 .. 3 : (IF i = 3 THEN "register" ELSE w[i + 1]) \in Follows(a, w[i])
    BY DEF Follows
  <2>4. \A i \in 1 .. 3 : w[i] \notin Opening /\ w[i] # "read"
    BY DEF Opening
  <2>5. Plan(a, w, "register")
    BY <2>2, <2>3, <2>4 DEF Plan
  <2>6. Lead(w, "register") = "secret"
    BY DEF Lead
  <2>. QED  BY <1>2, <2>0, <2>1, <2>2, <2>4, <2>5, <2>6
<1>3. CASE a.row.cred = "wif-token"
  <2>0. a.row.cred \notin Mounts
    BY <1>3, Names
  <2>1. todo = <<"policy", "role">>
    BY <1>3, <2>0 DEF Instantiate
  <2>2. "role" \in Follows(a, "policy") /\ "register" \in Follows(a, "role")
    BY DEF Follows
  <2>3. {"policy", "role"} \cap (Opening \cup {"read"}) = {}
    BY DEF Opening
  <2>. QED  BY <1>0, <1>3, <2>0, <2>1, <2>2, <2>3, TwoSteps
<1>4. CASE a.row.cred \notin Mounts \cup {"static", "wif-token"}
  <2>1. todo = << >>
    BY <1>4 DEF Instantiate
  <2>. QED  BY <1>4, <2>1 DEF Plan, Lead
<1>. QED  BY <1>1, <1>2, <1>3, <1>4

\* Where a deployment begins.
Starts(c) ==
  IF c \in Mounts THEN "collide"
  ELSE IF c = "static" THEN "secret"
  ELSE IF c = "wif-token" THEN "policy" ELSE "register"

LEMMA DeployPlanned ==
  ASSUME NEW a, a.op = "deploy", a.row.cred \in Credentials
  PROVE  LET todo == DeployPlan(a.row.cred) IN
         /\ Plan(a, todo, "over") /\ todo # << >> 
         /\ Lead(todo, "over") = Starts(a.row.cred)
<1> DEFINE p1 == IF a.row.cred \in Mounts THEN <<"collide">> ELSE << >>
           p2 == Instantiate(a.row.cred)
           p4 == <<"save", "referenced">>
<1>1. /\ Plan(a, p4, "over") /\ Lead(p4, "over") = "save"
      /\ \A i \in 1 .. Len(p4) : p4[i] \notin Opening
  <2>1. {"save", "referenced"} \subseteq StepsOf(a.op)
    BY DEF StepsOf, Wiring
  <2>2. "referenced" \in Follows(a, "save") /\ "over" \in Follows(a, "referenced")
    BY DEF Follows, Shared
  <2>3. {"save", "referenced"} \cap Opening = {}
    BY DEF Opening
  <2>. QED  BY <2>1, <2>2, <2>3, TwoSteps
<1>2. /\ Plan(a, Redo, "save") /\ Lead(Redo, "save") = "register"
      /\ \A i \in 1 .. Len(Redo) : Redo[i] \notin Opening /\ Redo[i] # "read"
  <2>1. "save" \in Follows(a, "place")
    BY DEF Follows
  <2>2. {"register", "place"} \cap (Opening \cup {"read"}) = {}
    BY DEF Opening
  <2>. QED  BY <2>1, <2>2, RedoPlan
<1>3. /\ Plan(a, p2, "register")
      /\ \A i \in 1 .. Len(p2) : p2[i] \notin Opening /\ p2[i] # "read"
  BY InstantiatePlan
<1>4. Plan(a, p1, Lead(p2, "register")) /\ \A i \in 1 .. Len(p1) : p1[i] # "read"
  <2>1. CASE a.row.cred \in Mounts
    <3>1. "collide" \in StepsOf(a.op) /\ "mount" \in Follows(a, "collide")
      BY DEF StepsOf, Follows
    <3>2. Lead(p2, "register") = "mount"
      BY <2>1, InstantiatePlan
    <3>. QED  BY <2>1, <3>1, <3>2, OneStep
  <2>2. CASE a.row.cred \notin Mounts
    BY <2>2, NoPlan
  <2>. QED  BY <2>1, <2>2
<1>5. p1 # << >> => p1 = <<"collide">>
  OBVIOUS
<1>6. Lead(p1, Lead(p2, "register")) = Starts(a.row.cred)
  <2>1. CASE a.row.cred \in Mounts
    BY <2>1 DEF Lead, Starts
  <2>2. CASE a.row.cred \notin Mounts
    BY <2>2, InstantiatePlan DEF Lead, Starts
  <2>. QED  BY <2>1, <2>2
<1>7. p1 \in Seq(StepsOf(a.op)) /\ p2 \in Seq(StepsOf(a.op))
      /\ Redo \in Seq(StepsOf(a.op)) /\ p4 \in Seq(StepsOf(a.op))
  BY <1>1, <1>2, <1>3, <1>4 DEF Plan
<1>8. DeployPlan(a.row.cred) = ((p1 \o p2) \o Redo) \o p4
  BY DEF DeployPlan
<1> HIDE DEF p1, p2, p4
<1> DEFINE q == p1 \o p2
<1>9. Plan(a, q, "register") /\ Lead(q, "register") = Starts(a.row.cred)
  BY <1>3, <1>4, <1>6, Joined
<1>10. q \in Seq(StepsOf(a.op)) /\ \A i \in 1 .. Len(q) : q[i] # "read"
  BY <1>3, <1>4, <1>7
<1> HIDE DEF q
<1> DEFINE u == q \o Redo
<1>11. Plan(a, u, "save") /\ Lead(u, "save") = Starts(a.row.cred)
  BY <1>2, <1>9, <1>10, Joined
<1>12. u \in Seq(StepsOf(a.op)) /\ \A i \in 1 .. Len(u) : u[i] # "read"
  BY <1>2, <1>7, <1>10
<1> HIDE DEF u
<1>13. Plan(a, u \o p4, "over") /\ Lead(u \o p4, "over") = Starts(a.row.cred)
  BY <1>1, <1>11, <1>12, Joined
<1>14. u \o p4 # << >>
  <2>1. Lead(<< >>, "over") = "over" /\ Starts(a.row.cred) # "over"
    BY DEF Lead, Starts
  <2>. QED  BY <1>13, <2>1
<1>. QED  BY <1>8, <1>13, <1>14 DEF u, q

LEMMA UpdatePlanned ==
  ASSUME NEW a, a.op = "update", NEW old, old.cred = a.row.cred,
         old.def = a.seen.def
  PROVE  LET todo == UpdatePlan(old, a.row.def) IN
         /\ Plan(a, todo, "over") /\ todo # << >>
         /\ Lead(todo, "over") =
              IF a.row.cred # "none" THEN "grants"
              ELSE IF a.seen.def = a.row.def THEN "save" ELSE "register"
<1> DEFINE S == StepsOf(a.op)
           g == IF old.cred = "none" THEN << >> ELSE <<"grants">>
           p == IF old.peer = None THEN <<"peer">> ELSE << >>
           t == <<"repoint", "activate">>
           q == Redo \o p
           same == old.def = a.row.def
           m == IF same THEN << >> ELSE q \o t
           z == <<"save">>
<1>0. UpdatePlan(old, a.row.def) = (g \o m) \o z
  BY DEF UpdatePlan
<1>1. Plan(a, z, "over") /\ Lead(z, "over") = "save" /\ \A i \in 1 .. Len(z) : z[i] = "save"
  <2>1. "save" \in S /\ "over" \in Follows(a, "save")
    BY DEF StepsOf, Follows
  <2>. QED  BY <2>1, OneStep
<1>2. /\ Plan(a, t, "save") /\ Lead(t, "save") = "repoint"
      /\ \A i \in 1 .. Len(t) : t[i] \in {"repoint", "activate"}
  <2>1. {"repoint", "activate"} \subseteq S /\ "activate" \in Follows(a, "repoint")
        /\ "save" \in Follows(a, "activate")
    BY DEF StepsOf, Follows
  <2>. QED  BY <2>1, TwoSteps DEF Opening
<1>3. /\ Plan(a, p, "repoint") /\ Lead(p, "repoint") \in Follows(a, "place")
      /\ \A i \in 1 .. Len(p) : p[i] = "peer"
  <2>1. "peer" \in S /\ "repoint" \in Follows(a, "peer")
        /\ {"peer", "repoint"} \subseteq Follows(a, "place")
    BY DEF StepsOf, Follows
  <2>. QED  BY <2>1, OneStep, NoPlan DEF Lead
<1>4. /\ Plan(a, Redo, Lead(p, "repoint")) /\ Lead(Redo, Lead(p, "repoint")) = "register"
      /\ \A i \in 1 .. Len(Redo) : Redo[i] \in {"register", "place"}
  BY <1>3, RedoPlan
<1>5. Plan(a, g, IF same THEN "save" ELSE "register")
  <2>1. "grants" \in S
        /\ (IF same THEN "save" ELSE "register") \in Follows(a, "grants")
    BY DEF StepsOf, Follows
  <2>2. CASE old.cred = "none"
    BY <2>2, NoPlan
  <2>3. CASE old.cred # "none"
    BY <2>1, <2>3, OneStep
  <2>. QED  BY <2>2, <2>3
<1>6. (g = << >> /\ old.cred = "none") \/ (g = <<"grants">> /\ old.cred # "none")
  OBVIOUS
<1>7. \A i \in 1 .. Len(g) : g[i] = "grants"
  BY <1>6
<1>8. Lead(g, IF same THEN "save" ELSE "register") =
        IF a.row.cred # "none" THEN "grants" ELSE IF same THEN "save" ELSE "register"
  BY <1>6 DEF Lead
<1>9. p \in Seq(S) /\ t \in Seq(S) /\ g \in Seq(S) /\ z \in Seq(S) /\ Redo \in Seq(S)
  BY <1>1, <1>2, <1>3, <1>4, <1>5 DEF Plan
<1> HIDE DEF g, p, t, z
<1>10. Plan(a, q, "repoint") /\ Lead(q, "repoint") = "register"
  BY <1>3, <1>4, Joined DEF Opening
<1>11. q \in Seq(S) /\ \A i \in 1 .. Len(q) : q[i] \notin Opening /\ q[i] # "read"
  <2>1. q \in Seq(S) /\ \A i \in 1 .. Len(q) : q[i] \in {"register", "place", "peer"}
    BY <1>3, <1>4, <1>9, Concatenated
  <2> HIDE DEF q
  <2>. QED  BY <2>1 DEF Opening
<1> HIDE DEF q
<1>12. Plan(a, q \o t, "save") /\ Lead(q \o t, "save") = "register"
  BY <1>2, <1>10, <1>11, Joined DEF Opening
<1>13. q \o t \in Seq(S)
       /\ \A i \in 1 .. Len(q \o t) : (q \o t)[i] \notin Opening /\ (q \o t)[i] # "read"
  <2>1. \A i \in 1 .. Len(t) : t[i] \notin Opening /\ t[i] # "read"
    BY <1>2 DEF Opening
  <2>. QED  BY <1>9, <1>11, <2>1, Concatenated
<1>14. /\ Plan(a, m, "save") /\ Lead(m, "save") = IF same THEN "save" ELSE "register"
       /\ \A i \in 1 .. Len(m) : m[i] \notin Opening /\ m[i] # "read"
       /\ m \in Seq(S)
  <2>1. CASE same
    <3>1. m = << >>
      BY <2>1
    <3>. QED  BY <2>1, <3>1, NoPlan DEF Lead
  <2>2. CASE ~same
    <3>1. m = q \o t
      BY <2>2
    <3> HIDE DEF m
    <3>. QED  BY <2>2, <3>1, <1>12, <1>13
  <2>. QED  BY <2>1, <2>2
<1> HIDE DEF m
<1>15. Plan(a, g \o m, "save") /\ Lead(g \o m, "save") =
         IF a.row.cred # "none" THEN "grants" ELSE IF same THEN "save" ELSE "register"
  BY <1>5, <1>7, <1>8, <1>14, Joined
<1> DEFINE u == g \o m
<1>16. u \in Seq(S) /\ \A i \in 1 .. Len(u) : u[i] # "read"
  BY <1>7, <1>9, <1>14
<1>17. Plan(a, u, "save") /\ Lead(u, "save") =
         IF a.row.cred # "none" THEN "grants" ELSE IF same THEN "save" ELSE "register"
  BY <1>15
<1> HIDE DEF u
<1>18. Plan(a, u \o z, "over") /\ Lead(u \o z, "over") =
         IF a.row.cred # "none" THEN "grants" ELSE IF same THEN "save" ELSE "register"
  BY <1>1, <1>16, <1>17, Joined DEF Opening
<1>19. u \o z # << >>
  <2>1. Lead(<< >>, "over") = "over"
    BY DEF Lead
  <2>. QED  BY <1>18, <2>1
<1>. QED  BY <1>0, <1>18, <1>19 DEF u

LEMMA DeletePlanned ==
  ASSUME NEW a, a.op = "delete", a.row.cred \in Credentials
  PROVE  LET todo == DeletePlan(a.row) IN
         /\ Plan(a, todo, "over") /\ todo # << >> /\ Lead(todo, "over") = "purge"
         /\ todo[Len(todo)] = "unrow"
<1> DEFINE S == StepsOf(a.op)
           f == <<"purge">>
           p == IF a.row.peer = None THEN << >> ELSE <<"unpeer">>
           g == <<"unvs", "untokens">>
           d == Deprovision(a.row.cred)
           z == <<"unrow">>
           q == f \o p
           u == q \o g
           w == u \o d
<1>0. DeletePlan(a.row) = ((((f \o p) \o g) \o d) \o z)
  BY DEF DeletePlan
<1>1. /\ Plan(a, z, "over") /\ Lead(z, "over") = "unrow"
      /\ \A i \in 1 .. Len(z) : z[i] = "unrow"
  <2>1. "unrow" \in S /\ "over" \in Follows(a, "unrow")
    BY DEF StepsOf, Follows, Shared
  <2>. QED  BY <2>1, OneStep
<1>2. /\ Plan(a, d, "unrow") /\ Lead(d, "unrow") \in Teardown(a)
      /\ \A i \in 1 .. Len(d) : d[i] \notin Opening /\ d[i] # "read"
  <2>1. "unrow" \in Ends(a)
    BY DEF Ends
  <2>. QED  BY <2>1, TeardownPlan
<1>3. /\ Plan(a, g, Lead(d, "unrow")) /\ Lead(g, Lead(d, "unrow")) = "unvs"
      /\ \A i \in 1 .. Len(g) : g[i] \in {"unvs", "untokens"}
  <2>1. {"unvs", "untokens"} \subseteq S /\ "untokens" \in Follows(a, "unvs")
        /\ Follows(a, "untokens") = Teardown(a)
    BY DEF StepsOf, Follows
  <2>. QED  BY <1>2, <2>1, TwoSteps DEF Opening
<1>4. /\ Plan(a, p, "unvs") /\ Lead(p, "unvs") \in Follows(a, "purge")
      /\ \A i \in 1 .. Len(p) : p[i] = "unpeer"
  <2>1. "unpeer" \in S /\ "unvs" \in Follows(a, "unpeer")
        /\ Follows(a, "purge") = IF a.row.peer = None THEN {"unvs"} ELSE {"unpeer"}
    BY DEF StepsOf, Follows
  <2>2. CASE a.row.peer = None
    BY <2>1, <2>2, NoPlan DEF Lead
  <2>3. CASE a.row.peer # None
    BY <2>1, <2>3, OneStep
  <2>. QED  BY <2>2, <2>3
<1>5. /\ Plan(a, f, Lead(p, "unvs")) /\ Lead(f, Lead(p, "unvs")) = "purge"
      /\ \A i \in 1 .. Len(f) : f[i] = "purge"
  <2>1. "purge" \in S
    BY DEF StepsOf
  <2>. QED  BY <1>4, <2>1, OneStep
<1>6. /\ f \in Seq(S) /\ p \in Seq(S) /\ g \in Seq(S) /\ d \in Seq(S) /\ z \in Seq(S)
      /\ Len(z) = 1 /\ z[1] = "unrow"
  BY <1>1, <1>2, <1>3, <1>4, <1>5 DEF Plan
<1> HIDE DEF f, p, g, d, z
<1>7. Plan(a, q, "unvs") /\ Lead(q, "unvs") = "purge"
  <2>1. \A i \in 1 .. Len(p) : p[i] \notin Opening
    BY <1>4 DEF Opening
  <2>2. \A i \in 1 .. Len(f) : f[i] # "read"
    BY <1>5
  <2>. QED  BY <1>4, <1>5, <2>1, <2>2, Joined
<1>8. q \in Seq(S) /\ \A i \in 1 .. Len(q) : q[i] # "read"
  <2>1. /\ q \in Seq(S)
        /\ \A i \in 1 .. Len(q) : \/ \E j \in 1 .. Len(f) : q[i] = f[j]
                                  \/ \E j \in 1 .. Len(p) : q[i] = p[j]
    <3>1. f \in Seq(S) /\ p \in Seq(S)
      BY <1>6
    <3> HIDE DEF S
    <3>. QED  BY <3>1, Concatenated
  <2> HIDE DEF q
  <2>. QED  BY <1>4, <1>5, <2>1
<1> HIDE DEF q
<1>9. Plan(a, u, Lead(d, "unrow")) /\ Lead(u, Lead(d, "unrow")) = "purge"
  <2>1. \A i \in 1 .. Len(g) : g[i] \notin Opening
    BY <1>3 DEF Opening
  <2>. QED  BY <1>3, <1>7, <1>8, <2>1, Joined
<1>10. u \in Seq(S) /\ \A i \in 1 .. Len(u) : u[i] # "read"
  <2>1. \A i \in 1 .. Len(g) : g[i] # "read"
    BY <1>3
  <2>. QED  BY <1>6, <1>8, <2>1, Concatenated
<1> HIDE DEF u
<1>11. Plan(a, w, "unrow") /\ Lead(w, "unrow") = "purge"
  BY <1>2, <1>9, <1>10, Joined
<1>12. w \in Seq(S) /\ \A i \in 1 .. Len(w) : w[i] # "read"
  BY <1>2, <1>6, <1>10
<1> HIDE DEF w
<1>13. Plan(a, w \o z, "over") /\ Lead(w \o z, "over") = "purge"
  BY <1>1, <1>11, <1>12, Joined DEF Opening
<1>14. w \o z # << >>
  <2>1. Lead(<< >>, "over") = "over"
    BY DEF Lead
  <2>. QED  BY <1>13, <2>1
<1>15. (w \o z)[Len(w \o z)] = "unrow"
  <2>0. w \in Seq(S) /\ z \in Seq(S)
    BY <1>6, <1>12
  <2>1. /\ Len(w \o z) = Len(w) + Len(z) /\ Len(w) \in Nat
        /\ \A i \in 1 .. Len(z) : (w \o z)[Len(w) + i] = z[i]
    BY <2>0, Concatenated
  <2>. QED  BY <1>6, <2>1
<1>. QED  BY <1>0, <1>13, <1>14, <1>15 DEF q, u, w

--------------------------------------------------------------------------------
(* What is left of a plan after a failure.                                 *)

LEMMA SameFollows ==
  ASSUME NEW a, NEW b, NEW step, a.op = b.op, a.row.cred = b.row.cred,
         a.op = "delete" => a.row.peer = b.row.peer,
         step = "grants" => a.seen.def = b.seen.def /\ a.row.def = b.row.def
  PROVE  Follows(a, step) = Follows(b, step)
<1>1. Ends(a) = Ends(b) /\ Teardown(a) = Teardown(b)
  BY DEF Ends, Teardown
<1>2. Shared(a, step) = Shared(b, step)
  BY <1>1 DEF Shared
<1>. QED  BY <1>1, <1>2 DEF Follows

LEMMA SamePlan ==
  ASSUME NEW a, NEW b, NEW todo, NEW end, Plan(a, todo, end), a.op = b.op,
         a.row.cred = b.row.cred, a.op = "delete" => a.row.peer = b.row.peer,
         \/ a.seen.def = b.seen.def /\ a.row.def = b.row.def
         \/ \A i \in 1 .. Len(todo) : todo[i] \notin Opening
  PROVE  Plan(b, todo, end)
<1>1. \A i \in 1 .. Len(todo) : Follows(a, todo[i]) = Follows(b, todo[i])
  BY SameFollows DEF Opening
<1>. QED  BY <1>1 DEF Plan

\* After it has read the row again a request only wires.
LEMMA ReadAgain ==
  ASSUME NEW a, NEW b, NEW todo, NEW end, Plan(a, todo, end), a.op = b.op,
         a.op # "delete", \A i \in 1 .. Len(todo) : todo[i] \in AfterRead
  PROVE  Plan(b, todo, end)
<1>1. \A i \in 1 .. Len(todo) : Follows(a, todo[i]) = Follows(b, todo[i])
  BY DEF AfterRead, Follows, Shared
<1>. QED  BY <1>1 DEF Plan

LEMMA EndsTogether ==
  ASSUME NEW a, a.op = "delete", NEW step, "unrow" \in Follows(a, step)
  PROVE  "over" \in Follows(a, step)
BY DEF Follows, Shared, Ends, Teardown

LEMMA KeptPlan ==
  ASSUME NEW a, a.op = "delete", NEW todo, Plan(a, todo, "over")
  PROVE  /\ Plan(a, KeepingRow(todo), "over")
         /\ \/ Lead(KeepingRow(todo), "over") = Lead(todo, "over")
            \/ Lead(KeepingRow(todo), "over") = "over" /\ Lead(todo, "over") = "unrow"
<1> DEFINE S == StepsOf(a.op)
           n == Len(todo) - 1
           kept == SubSeq(todo, 1, n)
<1>1. CASE KeepingRow(todo) = todo
  BY <1>1
<1>2. CASE todo # << >> /\ todo[Len(todo)] = "unrow"
  <2>0. todo \in Seq(S) /\ Len(todo) \in Nat \ {0}
    BY <1>2 DEF Plan
  <2>a. n \in Nat /\ n + 1 = Len(todo)
    BY <2>0
  <2>b. \A i \in 1 .. n : i \in 1 .. Len(todo) /\ todo[i] \in S
    BY <2>0, <2>a
  <2> HIDE DEF n
  <2>1. /\ kept \in Seq(S) /\ Len(kept) = n /\ n \in Nat
        /\ \A i \in 1 .. n : kept[i] = todo[i] /\ i \in 1 .. Len(todo)
    BY <2>0, <2>a, <2>b
  <2> USE DEF n
  <2>2. KeepingRow(todo) = kept
    BY <1>2 DEF KeepingRow
  <2> HIDE DEF kept
  <2>3. \A i \in 1 .. n :
          (IF i = n THEN "over" ELSE kept[i + 1]) \in Follows(a, kept[i])
    <3> TAKE i \in 1 .. n
    <3>1. todo[i + 1] \in Follows(a, todo[i]) /\ kept[i] = todo[i]
      <4>1. i \in 1 .. Len(todo) /\ i # Len(todo)
        BY <2>0, <2>1
      <4>. QED  BY <2>1, <4>1 DEF Plan
    <3>2. CASE i = n
      <4>1. todo[i + 1] = "unrow"
        BY <1>2, <2>0, <3>2
      <4>. QED  BY <3>1, <3>2, <4>1, EndsTogether
    <3>3. CASE i # n
      <4>1. kept[i + 1] = todo[i + 1]
        BY <2>1, <3>3
      <4>. QED  BY <3>1, <3>3, <4>1
    <3>. QED  BY <3>2, <3>3
  <2>4. \A i \in 1 .. n : i # 1 => kept[i] \notin Opening
    BY <2>1 DEF Plan
  <2>5. \A i, j \in 1 .. n : i < j /\ kept[i] = "read" => kept[j] \in AfterRead
    BY <2>1 DEF Plan
  <2>6. Plan(a, kept, "over")
    BY <2>1, <2>3, <2>4, <2>5 DEF Plan
  <2>7. \/ Lead(kept, "over") = Lead(todo, "over")
        \/ Lead(kept, "over") = "over" /\ Lead(todo, "over") = "unrow"
    <3>1. CASE n = 0
      <4>1. kept = << >> /\ todo[1] = "unrow"
        BY <1>2, <2>0, <2>1, <3>1
      <4>. QED  BY <1>2, <4>1 DEF Lead
    <3>2. CASE n # 0
      <4>1. 1 \in 1 .. n
        BY <2>1, <3>2
      <4>2. kept[1] = todo[1] /\ kept # << >>
        BY <2>1, <4>1
      <4>. QED  BY <1>2, <4>2 DEF Lead
    <3>. QED  BY <3>1, <3>2
  <2>. QED  BY <2>2, <2>6, <2>7
<1>. QED  BY <1>1, <1>2 DEF KeepingRow

\* What is left after a failure is a plan, and begins as Recovery says.
LEMMA RemainingPlan ==
  ASSUME NEW r, LET a == req[r] IN
         a.op \in Working /\ Planned(a) /\ (a.op # "addons" => a.row.cred \in Credentials)
  PROVE  LET a == req[r]
             step == Lead(a.todo, "over")
             todo == Remaining(r, step)
         IN  /\ step = Head(a.todo)
             /\ Plan(a, todo, "over") /\ Lead(todo, "over") \in Recovery(a, step)
             /\ step = "save" => \A i \in 1 .. Len(todo) : todo[i] \notin Opening
<1> DEFINE a == req[r]
           step == Lead(a.todo, "over")
           todo == Remaining(r, step)
           tail == Tail(a.todo)
<1>0. /\ a.todo # << >> /\ step = a.todo[1] /\ step = Head(a.todo) /\ Plan(a, a.todo, "over")
      /\ Plan(a, tail, "over") /\ Lead(tail, "over") \in Follows(a, step)
      /\ step \in StepsOf(a.op)
  <2>1. a.todo # << >> /\ Plan(a, a.todo, "over")
    BY DEF Planned
  <2>2. step = a.todo[1]
    BY <2>1 DEF Lead
  <2>. QED  BY <2>1, <2>2, TailPlan
<1>b. a.op # "addons" => a.row.cred \in Credentials
  OBVIOUS
<1>a. Plan(a, << >>, "over") /\ Lead(<< >>, "over") = "over" /\ Len(<< >>) = 0
  BY NoPlan DEF Lead
<1>1. CASE a.op = "deploy"
  <2> DEFINE d == Deprovision(a.row.cred)
  <2>1. /\ Plan(a, d, "over") /\ Lead(d, "over") \in Teardown(a)
        /\ \A i \in 1 .. Len(d) : d[i] \notin Opening /\ d[i] # "read"
    <3>1. "over" \in Ends(a)
      BY <1>1 DEF Ends
    <3>2. a.op \in {"deploy", "delete"} /\ a.row.cred \in Credentials
      BY <1>1, <1>b
    <3> HIDE DEF a
    <3>. QED  BY <3>1, <3>2, TeardownPlan
  <2>2. /\ Plan(a, <<"purge">> \o d, "over") /\ Lead(<<"purge">> \o d, "over") = "purge"
        /\ \A i \in 1 .. Len(<<"purge">> \o d) : (<<"purge">> \o d)[i] \notin Opening
    <3> DEFINE f == <<"purge">>
    <3>1. "purge" \in StepsOf(a.op) /\ Follows(a, "purge") = Teardown(a)
      BY <1>1 DEF StepsOf, Follows
    <3>2. Plan(a, f, Lead(d, "over")) /\ Lead(f, Lead(d, "over")) = "purge"
          /\ \A i \in 1 .. Len(f) : f[i] = "purge"
      BY <2>1, <3>1, OneStep
    <3>3. f \in Seq(StepsOf(a.op)) /\ d \in Seq(StepsOf(a.op))
      BY <2>1, <3>2 DEF Plan
    <3> HIDE DEF f, d
    <3>4. \A i \in 1 .. Len(f) : f[i] \notin Opening /\ f[i] # "read"
      BY <3>2 DEF Opening
    <3>5. Plan(a, f \o d, "over") /\ Lead(f \o d, "over") = "purge"
      BY <2>1, <3>2, <3>4, Joined
    <3>6. \A i \in 1 .. Len(f \o d) : (f \o d)[i] \notin Opening
      BY <2>1, <3>3, <3>4, Concatenated
    <3>. QED  BY <3>5, <3>6 DEF f
  <2>3. todo = DeployFails(r, step)
    BY <1>1 DEF Remaining
  <2> HIDE DEF d
  <2>4. CASE step = "register"
    <3>1. todo = d
      BY <2>3, <2>4 DEF DeployFails, Deprovisioning, Mount, d
    <3>2. Recovery(a, step) = Teardown(a)
      BY <1>1, <2>4 DEF Recovery, Deprovisioning
    <3>. QED  BY <1>0, <2>1, <2>4, <3>1, <3>2
  <2>5. CASE step \in {"place", "save"}
    <3>1. todo = <<"purge">> \o d
      BY <2>3, <2>5 DEF DeployFails, Deprovisioning, Mount, d
    <3>2. Recovery(a, step) = {"purge"}
      BY <1>1, <2>5 DEF Recovery, Deprovisioning
    <3> DEFINE e == <<"purge">> \o d
    <3>3. /\ Plan(a, e, "over") /\ Lead(e, "over") = "purge" /\ todo = e
          /\ \A i \in 1 .. Len(e) : e[i] \notin Opening
      BY <2>2, <3>1
    <3> HIDE DEF e
    <3>. QED  BY <1>0, <3>2, <3>3
  <2>6. CASE step \in Deprovisioning \cup {"purge"}
    <3>1. todo = tail
      BY <2>3, <2>6 DEF DeployFails, Deprovisioning
    <3>2. Recovery(a, step) = Follows(a, step) /\ step # "save"
      BY <1>1, <2>6 DEF Recovery, Deprovisioning
    <3>. QED  BY <1>0, <3>1, <3>2
  <2>7. CASE step \notin Deprovisioning \cup {"purge", "register", "place", "save"}
    <3>1. todo = << >>
      BY <2>3, <2>7 DEF DeployFails
    <3>2. Recovery(a, step) = {"over"}
      BY <1>1, <2>7 DEF Recovery
    <3>. QED  BY <1>0, <1>a, <2>7, <3>1, <3>2
  <2>. QED  BY <2>4, <2>5, <2>6, <2>7
<1>2. CASE a.op = "update"
  <2>3. todo = UpdateFails(r, step)
    BY <1>2 DEF Remaining
  <2>1. {"save", "referenced", "unpeer"} \subseteq StepsOf(a.op)
        /\ Follows(a, "save") = {"referenced", "over"}
        /\ Follows(a, "referenced") = {"over"} /\ Follows(a, "unpeer") = {"save"}
    BY <1>2 DEF StepsOf, Wiring, Follows, Shared
  <2>2. Plan(a, <<"save", "referenced">>, "over")
        /\ Lead(<<"save", "referenced">>, "over") = "save"
    BY <2>1, TwoSteps DEF Opening
  <2>4. CASE step = "peer"
    <3>1. todo = <<"save", "referenced">>
      BY <2>3, <2>4 DEF UpdateFails
    <3>2. Recovery(a, step) = {"save"}
      BY <1>2, <2>4 DEF Recovery
    <3>. QED  BY <1>0, <2>2, <2>4, <3>1, <3>2
  <2>5. CASE step \in {"repoint", "activate"}
    <3>1. todo = <<"unpeer", "save", "referenced">>
      BY <2>3, <2>5 DEF UpdateFails
    <3>2. Recovery(a, step) = {"unpeer"}
      BY <1>2, <2>5 DEF Recovery
    <3> DEFINE w == <<"unpeer", "save", "referenced">>
    <3>3. w \in Seq(StepsOf(a.op)) /\ Len(w) = 3
          /\ w[1] = "unpeer" /\ w[2] = "save" /\ w[3] = "referenced"
      BY <2>1
    <3>5. Lead(w, "over") = "unpeer"
      BY DEF Lead
    <3> HIDE DEF w
    <3>4. Plan(a, w, "over")
      BY <2>1, <3>3 DEF Plan, Opening
    <3>. QED  BY <1>0, <2>5, <3>1, <3>2, <3>4, <3>5 DEF w
  <2>6. CASE step = "unpeer"
    <3>1. todo = tail
      BY <2>3, <2>6 DEF UpdateFails
    <3>2. Recovery(a, step) = Follows(a, step)
      BY <1>2, <2>1, <2>6 DEF Recovery
    <3>. QED  BY <1>0, <2>6, <3>1, <3>2
  <2>7. CASE step \notin {"peer", "repoint", "activate", "unpeer"}
    <3>1. todo = << >>
      BY <2>3, <2>7 DEF UpdateFails
    <3>2. Recovery(a, step) = {"over"}
      BY <1>2, <2>7 DEF Recovery
    <3>. QED  BY <1>0, <1>a, <3>1, <3>2
  <2>. QED  BY <2>4, <2>5, <2>6, <2>7
<1>3. CASE a.op = "test"
  <2>3. todo = TestFails(r, step)
    BY <1>3 DEF Remaining
  <2>1. {"undecoy", "untest"} \subseteq StepsOf(a.op)
        /\ Follows(a, "undecoy") = {"untest"} /\ Follows(a, "untest") = {"over"}
    BY <1>3 DEF StepsOf, Follows, Shared
  <2>4. CASE step = "decoy"
    <3>1. todo = <<"untest">>
      BY <2>3, <2>4 DEF TestFails
    <3>2. Recovery(a, step) = {"untest"}
      BY <1>3, <2>4 DEF Recovery
    <3>. QED  BY <1>0, <2>1, <2>4, <3>1, <3>2, OneStep
  <2>5. CASE step = "probetoken"
    <3>1. todo = <<"undecoy", "untest">>
      BY <2>3, <2>5 DEF TestFails
    <3>2. Recovery(a, step) = {"undecoy"}
      BY <1>3, <2>5 DEF Recovery
    <3>. QED  BY <1>0, <2>1, <2>5, <3>1, <3>2, TwoSteps DEF Opening
  <2>6. CASE step \in {"probe", "save"}
    <3>1. todo = ProbeCleanup
      BY <2>3, <2>6 DEF TestFails
    <3>2. Recovery(a, step) = {"unprobetoken"}
      BY <1>3, <2>6 DEF Recovery
    <3>3. \A i \in 1 .. Len(ProbeCleanup) : ProbeCleanup[i] \notin Opening
      BY DEF ProbeCleanup, Opening
    <3>. QED  BY <1>0, <1>3, <3>1, <3>2, <3>3, TestPlanned
  <2>7. CASE step \in {"unprobetoken", "undecoy", "untest"}
    <3>1. todo = tail
      BY <2>3, <2>7 DEF TestFails
    <3>2. Recovery(a, step) = Follows(a, step)
      BY <1>3, <2>7 DEF Recovery
    <3>. QED  BY <1>0, <2>7, <3>1, <3>2
  <2>8. CASE step \notin {"decoy", "probetoken", "probe", "save", "unprobetoken",
                          "undecoy", "untest"}
    <3>1. todo = << >>
      BY <2>3, <2>8 DEF TestFails
    <3>2. Recovery(a, step) = {"over"}
      BY <1>3, <2>8 DEF Recovery
    <3>. QED  BY <1>0, <1>a, <3>1, <3>2
  <2>. QED  BY <2>4, <2>5, <2>6, <2>7, <2>8
<1>4. CASE a.op = "delete"
  <2>3. todo = DeleteFails(r, step)
    BY <1>4 DEF Remaining
  <2>0. step # "save"
    BY <1>0, <1>4 DEF StepsOf, Deprovisioning
  <2>4. CASE step \in Deprovisioning
    <3>1. todo = KeepingRow(tail)
      BY <2>3, <2>4 DEF DeleteFails, Deprovisioning
    <3>2. Recovery(a, step) = Follows(a, step)
      BY <1>4, <2>4 DEF Recovery, Deprovisioning
    <3>. QED  BY <1>0, <1>4, <2>0, <3>1, <3>2, KeptPlan, EndsTogether
  <2>5. CASE step = "unrow"
    <3>1. todo = << >>
      BY <2>3, <2>5 DEF DeleteFails, Deprovisioning
    <3>2. Recovery(a, step) = {"over"}
      BY <1>4, <2>5 DEF Recovery
    <3>. QED  BY <1>0, <1>a, <2>0, <3>1, <3>2
  <2>6. CASE step \notin Deprovisioning \cup {"unrow"}
    <3>1. todo = tail
      BY <2>3, <2>6 DEF DeleteFails
    <3>2. Recovery(a, step) = Follows(a, step)
      BY <1>4, <2>6 DEF Recovery
    <3>. QED  BY <1>0, <2>0, <3>1, <3>2
  <2>. QED  BY <2>4, <2>5, <2>6
<1>5. CASE a.op = "addons"
  <2>1. todo = << >> /\ Recovery(a, step) = {"over"}
    BY <1>5 DEF Remaining, Recovery
  <2>. QED  BY <1>0, <1>a, <2>1
<1>. QED  BY <1>1, <1>2, <1>3, <1>4, <1>5 DEF Working

--------------------------------------------------------------------------------
(* The requests' own part of a step.                                       *)

\* Request r goes on as `new`, at one of `nexts`, or is over.
Moved(r, new, nexts) ==
  /\ \A q \in Requests \ {r} : req'[q] = req[q]
  /\ Now(r)' \in nexts
  /\ IF Now(r)' = "over" THEN req'[r] = Idle("over")
     ELSE /\ req'[r].op = new.op /\ req'[r].s = new.s
          /\ req'[r].seen = new.seen /\ req'[r].row = new.row

Went(r, new, nexts) ==
  /\ Moved(r, new, nexts)
  /\ raced' = raced \cup Disturbed(r)
  /\ unwired' = IF Now(r) = "kv" THEN unwired \ {Server(r)} ELSE unwired
  /\ UNCHANGED <<torn, faults>>

Forgotten(r) ==
  [req[r] EXCEPT !.row.peer = IF Forgets(r, Now(r)) THEN None ELSE @]

Broke(r, done) ==
  /\ Moved(r, Forgotten(r), Recovery(req[r], Now(r)))
  /\ raced' = raced \cup Disturbed(r)
  /\ torn' = IF Unrepaired(r, Now(r), done) THEN torn \cup {Server(r)} ELSE torn
  /\ unwired' = IF Now(r) \in Wiring THEN unwired \cup {Server(r)} ELSE unwired

Outcome(r, new, nexts) == Went(r, new, nexts) \/ (Fault /\ Broke(r, TRUE))

LEMMA NoRowTypes ==
  /\ NoRow \in Copy /\ NoRow \notin Row /\ Row \subseteq Copy
  /\ \A op \in Over : Idle(op) \in Op /\ Idle(op).todo = << >> /\ Idle(op).op = op
  /\ Over \cap Working = {}
BY Names DEF NoRow, Copy, Row, Idle, Op, Over, Working

\* What is known of a request at work.
LEMMA AtWork ==
  ASSUME Control, NEW r \in InFlight
  PROVE  /\ r \in Requests /\ req[r] \in Op /\ req[r].op \in Working
         /\ Planned(req[r]) /\ req[r].s \in Servers
         /\ req[r].todo # << >> /\ Now(r) = Head(req[r].todo)
         /\ Now(r) \in StepsOf(req[r].op) /\ Now(r) \in Steps /\ Now(r) # "over"
         /\ Plan(req[r], req[r].todo, "over") /\ Fits(req[r], Now(r))
         /\ req[r].op # "addons" => req[r].row.cred \in Credentials
<1>1. r \in Requests /\ req[r] \in Op /\ req[r].op \in Working /\ Planned(req[r])
  BY DEF InFlight, Control, Op
<1>2. req[r].s \in Servers /\ req[r].todo # << >> /\ Fits(req[r], Now(r))
      /\ Plan(req[r], req[r].todo, "over")
  BY <1>1 DEF Planned, Now
<1>3. Now(r) = req[r].todo[1]
  BY <1>2 DEF Now, Lead
<1>4. Now(r) \in StepsOf(req[r].op) /\ Now(r) = Head(req[r].todo)
  BY <1>2, <1>3, TailPlan
<1>5. Now(r) \in Steps /\ Now(r) # "over"
  BY <1>4, StepNames, NotAStep
<1>6. req[r].op # "addons" => req[r].row.cred \in Credentials
  BY <1>1, <1>2 DEF Fits, Working, Row
<1>. QED  BY <1>1, <1>2, <1>4, <1>5, <1>6

LEMMA Idleness ==
  ASSUME Control, NEW r \in Requests, r \notin InFlight
  PROVE  req[r] = Idle(req[r].op) /\ req[r].op \in Over /\ Now(r) = "over"
<1>1. req[r] = Idle(req[r].op) /\ req[r].op \in Over
  BY DEF Control, InFlight
<1>2. req[r].todo = << >>
  BY <1>1, NoRowTypes
<1>. QED  BY <1>1, <1>2 DEF Now, Lead

LEMMA BecomeKeeps ==
  ASSUME Control, NEW r \in Requests, NEW new \in Op, new.op \in Working,
         new.s \in Servers, Plan(new, new.todo, "over"),
         new.todo # << >> => Fits(new, Lead(new.todo, "over")), Become(r, new)
  PROVE  Control' /\ Moved(r, new, {Lead(new.todo, "over")})
<1>1. CASE new.todo = << >>
  <2>1. req' = [req EXCEPT ![r] = Idle("over")]
    BY <1>1 DEF Become
  <2>2. req' \in [Requests -> Op] /\ req'[r] = Idle("over")
        /\ \A q \in Requests \ {r} : req'[q] = req[q]
    BY <2>1, NoRowTypes DEF Control, Over
  <2>3. req'[r].op \in Over /\ req'[r] = Idle(req'[r].op) /\ req'[r].todo = << >>
    BY <2>2, NoRowTypes DEF Over
  <2>4. Control'
    BY <2>2, <2>3 DEF Control
  <2>5. Now(r)' = "over" /\ Lead(new.todo, "over") = "over"
    BY <1>1, <2>3 DEF Now, Lead
  <2>. QED  BY <2>2, <2>4, <2>5 DEF Moved
<1>2. CASE new.todo # << >>
  <2>1. req' = [req EXCEPT ![r] = new]
    BY <1>2 DEF Become
  <2>2. req' \in [Requests -> Op] /\ req'[r] = new
        /\ \A q \in Requests \ {r} : req'[q] = req[q]
    BY <2>1 DEF Control
  <2>3. new.op \notin Over /\ Planned(new)
    BY <1>2, NoRowTypes DEF Planned
  <2>4. \A q \in Requests : IF req'[q].op \in Over THEN req'[q] = Idle(req'[q].op)
                                                  ELSE Planned(req'[q])
    BY <2>2, <2>3 DEF Control
  <2>5. Control'
    BY <2>2, <2>4 DEF Control
  <2>6. Lead(new.todo, "over") # "over"
    BY <1>2, TailPlan, StepNames, NotAStep DEF Lead
  <2>7. Now(r)' = Lead(new.todo, "over")
    BY <2>2 DEF Now
  <2>. QED  BY <2>2, <2>5, <2>6, <2>7 DEF Moved
<1>. QED  BY <1>1, <1>2

\* What a step relies on, the next one does.
LEMMA FitsOn ==
  ASSUME NEW a, NEW step, NEW next, Fits(a, step), step \in StepsOf(a.op),
         next \in Follows(a, step), step \notin {"place", "read", "wirepeer"},
         a.op \in Working
  PROVE  Fits(a, next)
<1>1. CASE a.op = "deploy"
  <2>1. next \in Wiring \cup {"save"} => step \in Wiring \cup {"save"}
    BY <1>1 DEF Follows, Shared, Teardown, Ends, Wiring, StepsOf, Deprovisioning
  <2>2. next \in {"tools", "unvs", "vs"} => step \in {"tools", "unvs", "vs"}
    BY <1>1 DEF Follows, Shared, Teardown, Ends, Wiring, StepsOf, Deprovisioning
  <2>. QED  BY <1>1, <2>1, <2>2 DEF Fits
<1>2. CASE a.op = "update"
  <2>2. next \in {"tools", "unvs", "vs"} => step \in {"tools", "unvs", "vs"}
    BY <1>2 DEF Follows, Shared, Ends, Wiring, StepsOf
  <2>. QED  BY <1>2, <2>2 DEF Fits
<1>3. CASE a.op \in {"test", "delete"}
  BY <1>3 DEF Fits
<1>4. CASE a.op = "addons"
  <2>1. step \in AfterRead
    BY <1>4 DEF StepsOf, AfterRead, Wiring
  <2>2. next \in {"tools", "unvs", "vs"} => step \in {"tools", "unvs", "vs"}
    BY <1>4 DEF Follows, Shared, Ends, Wiring, StepsOf
  <2>. QED  BY <1>4, <2>1, <2>2 DEF Fits
<1>. QED  BY <1>1, <1>2, <1>3, <1>4 DEF Working

\* A request that goes on.
LEMMA GoesOn ==
  ASSUME Control, NEW r \in InFlight, NEW new \in Op, new.op = req[r].op,
         new.s = req[r].s, new.todo = req[r].todo,
         Plan(new, Tail(req[r].todo), "over"),
         \A x \in Follows(req[r], Now(r)) \ {"over"} : Fits(new, x),
         Become(r, [new EXCEPT !.todo = Tail(@)])
  PROVE  Control' /\ Moved(r, new, Follows(req[r], Now(r)))
<1> DEFINE tail == Tail(req[r].todo)
           b == [new EXCEPT !.todo = tail]
<1>1. /\ tail \in Seq(Steps) /\ Lead(tail, "over") \in Follows(req[r], Now(r))
      /\ Lead(tail, "over") = "over" => tail = << >>
  <2>1. Plan(req[r], tail, "over") /\ Lead(tail, "over") \in Follows(req[r], req[r].todo[1])
    BY AtWork, TailPlan
  <2>2. Now(r) = req[r].todo[1]
    BY AtWork DEF Now, Lead
  <2>3. tail \in Seq(StepsOf(req[r].op))
    BY <2>1 DEF Plan
  <2>4. tail \in Seq(Steps)
    <3> HIDE DEF tail
    <3>. QED  BY <2>3, StepNames
  <2>5. Lead(tail, "over") = "over" => tail = << >>
    <3>1. tail # << >> => tail[1] \in Steps
      BY <2>4
    <3>. QED  BY <3>1, NotAStep DEF Lead
  <2>. QED  BY <2>1, <2>2, <2>4, <2>5
<1>2. /\ b \in Op /\ b.op = new.op /\ b.s = new.s /\ b.seen = new.seen
      /\ b.row = new.row /\ b.todo = tail
  BY <1>1 DEF Op
<1>3. b.op \in Working /\ b.s \in Servers
  BY <1>2, AtWork
<1>4. Become(r, b)
  OBVIOUS
<1> HIDE DEF b
<1>5. Plan(b, b.todo, "over")
  BY <1>2, SamePlan, AtWork, TailPlan
<1>6. b.todo # << >> => Fits(b, Lead(b.todo, "over"))
  BY <1>1, <1>2 DEF Fits
<1>7. r \in Requests
  BY AtWork
<1>8. Control' /\ Moved(r, b, {Lead(tail, "over")})
  BY <1>2, <1>3, <1>4, <1>5, <1>6, <1>7, BecomeKeeps
<1>. QED  BY <1>1, <1>2, <1>8 DEF Moved

LEMMA FailsKeeps ==
  ASSUME Control, NEW r \in InFlight, NEW done, Fails(r, done)
  PROVE  Control' /\ Broke(r, done)
<1> DEFINE a == req[r]
           step == Now(r)
           todo == Remaining(r, step)
           f == Forgotten(r)
           b == [a EXCEPT !.todo = todo,
                          !.row.peer = IF Forgets(r, step) THEN None ELSE @]
<1>1. /\ Plan(a, todo, "over") /\ Lead(todo, "over") \in Recovery(a, step)
      /\ step = Head(a.todo)
  BY AtWork, RemainingPlan DEF Now
<1>2. todo \in Seq(Steps) /\ (Lead(todo, "over") = "over" => todo = << >>)
  <2>1. todo \in Seq(StepsOf(a.op))
    BY <1>1 DEF Plan
  <2>2. todo \in Seq(Steps)
    BY <2>1, StepNames
  <2>3. todo # << >> => todo[1] \in Steps
    BY <2>2
  <2>. QED  BY <2>2, <2>3, NotAStep DEF Lead
<1>3. /\ Become(r, b)
      /\ raced' = raced \cup Disturbed(r)
      /\ torn' = IF Unrepaired(r, step, done) THEN torn \cup {Server(r)} ELSE torn
      /\ unwired' = IF step \in Wiring THEN unwired \cup {Server(r)} ELSE unwired
  BY <1>1 DEF Fails
<1>4. a \in Op /\ a.op \in Working /\ a.s \in Servers /\ Fits(a, step)
  BY AtWork
<1>5. /\ b \in Op /\ b.op = a.op /\ b.s = a.s /\ b.seen = a.seen /\ b.todo = todo
      /\ b.row.cred = a.row.cred /\ b.row.def = a.row.def /\ b.row.addr = a.row.addr
      /\ b.row \in Copy /\ b.row.peer \in {a.row.peer, None}
      /\ a.op # "update" => b.row = a.row
      /\ a.row \in Row => b.row \in Row
  BY <1>2, <1>4 DEF Op, Copy, Row, Forgets
<1>6. f.op = a.op /\ f.s = a.s /\ f.seen = a.seen /\ f.row = b.row
  BY <1>4 DEF Forgotten, Op, Copy
<1> HIDE DEF b, f, todo
<1>7. Plan(b, b.todo, "over")
  <2>1. Plan(b, todo, "over")
    <3>1. a.op = "delete" => a.row.peer = b.row.peer
      BY <1>5
    <3>. QED  BY <1>1, <1>5, <3>1, SamePlan
  <2>. QED  BY <1>5, <2>1
<1>8. \A x \in Recovery(a, step) \ {"over"} : Fits(b, x)
  <2> TAKE x \in Recovery(a, step) \ {"over"}
  <2>1. CASE a.op = "deploy"
    <3>1. x \notin Wiring \cup {"save"}
      BY <2>1 DEF Recovery, Follows, Shared, Teardown, Ends, Wiring, Deprovisioning
    <3>. QED  BY <1>4, <1>5, <2>1, <3>1 DEF Fits, Wiring
  <2>2. CASE a.op = "update"
    <3>1. x \in {"save", "unpeer"}
      BY <2>2 DEF Recovery
    <3>. QED  BY <1>4, <1>5, <2>2, <3>1 DEF Fits
  <2>3. CASE a.op \in {"test", "delete"}
    BY <1>4, <1>5, <2>3 DEF Fits
  <2>4. CASE a.op = "addons"
    BY <2>4 DEF Recovery
  <2>. QED  BY <1>4, <2>1, <2>2, <2>3, <2>4 DEF Working
<1>9. Control' /\ Moved(r, b, {Lead(todo, "over")})
  <2>1. b.todo # << >> => Fits(b, Lead(b.todo, "over"))
    BY <1>1, <1>2, <1>5, <1>8
  <2>2. r \in Requests /\ b.op \in Working /\ b.s \in Servers
    BY <1>4, <1>5, AtWork
  <2>. QED  BY <1>3, <1>5, <1>7, <2>1, <2>2, BecomeKeeps
<1>10. Moved(r, f, Recovery(a, step))
  BY <1>1, <1>5, <1>6, <1>9 DEF Moved
<1>. QED  BY <1>3, <1>9, <1>10 DEF Broke, f

\* A call has an outcome: it is answered, or took effect and lost its reply.
LEMMA AnswerKeeps ==
  ASSUME Control, NEW r \in InFlight, NEW new \in Op, new.op = req[r].op,
         new.s = req[r].s, new.todo = req[r].todo,
         Plan(new, Tail(req[r].todo), "over"),
         \A x \in Follows(req[r], Now(r)) \ {"over"} : Fits(new, x),
         AnsweredAs(r, new)
  PROVE  Control' /\ Outcome(r, new, Follows(req[r], Now(r)))
<1>1. At(r, "kv") <=> Now(r) = "kv"
  BY AtWork DEF At
<1>2. CASE Fault /\ Fails(r, TRUE)
  BY <1>2, FailsKeeps DEF Outcome
<1>3. CASE /\ Become(r, [new EXCEPT !.todo = Tail(@)])
           /\ raced' = raced \cup Disturbed(r)
           /\ unwired' = IF At(r, "kv") THEN unwired \ {Server(r)} ELSE unwired
           /\ UNCHANGED <<torn, faults>>
  BY <1>1, <1>3, GoesOn DEF Outcome, Went
<1>. QED  BY <1>2, <1>3 DEF AnsweredAs

\* Most calls change nothing of the request's own.
LEMMA AnsweredKeeps ==
  ASSUME Control, NEW r \in InFlight, Answered(r),
         Now(r) \notin {"place", "read", "wirepeer"}
  PROVE  Control' /\ Outcome(r, req[r], Follows(req[r], Now(r)))
<1>1. /\ req[r] \in Op /\ Plan(req[r], Tail(req[r].todo), "over")
  BY AtWork, TailPlan
<1>2. \A x \in Follows(req[r], Now(r)) \ {"over"} : Fits(req[r], x)
  BY AtWork, FitsOn
<1>. QED  BY <1>1, <1>2, AnswerKeeps DEF Answered

LEMMA RefusedKeeps ==
  ASSUME Control, NEW r \in InFlight, Refused(r)
  PROVE  Control' /\ Broke(r, FALSE) /\ UNCHANGED faults
BY FailsKeeps DEF Refused

--------------------------------------------------------------------------------
(* What a call changes, variable by variable.                              *)

NewOf(r) ==
  LET a == req[r] s == Server(r) IN
  CASE Now(r) = "save"  -> [a EXCEPT !.seen = a.row]
    [] Now(r) = "read"  -> [a EXCEPT !.row = row[s], !.seen = row[s]]
    [] Now(r) = "place" -> [a EXCEPT !.row.addr = job[s].addr]
    [] Now(r) \in {"peer", "wirepeer"} ->
         [a EXCEPT !.row.peer = IF Found(r) # None THEN Found(r) ELSE r]
    [] OTHER -> a

NextsOf(r) ==
  IF Now(r) = "referenced" THEN IF Server(r) \in addons THEN {"read"} ELSE {"over"}
                           ELSE Follows(req[r], Now(r))

RowAfter(r) ==
  CASE Now(r) = "save"  -> [row EXCEPT ![Server(r)] = req[r].row]
    [] Now(r) = "unrow" -> [row EXCEPT ![Server(r)] = NoRow]
    [] OTHER -> row

AddonsAfter(r) == IF Now(r) = "addons" THEN addons \cup {Server(r)} ELSE addons

DoomedAfter(r) == IF Now(r) = "unrow" THEN doomed \ {Server(r)} ELSE doomed

JobAfter(r) ==
  CASE Now(r) = "register" ->
         [job EXCEPT ![Server(r)] = [def |-> req[r].row.def, addr |-> <<r, faults>>]]
    [] Now(r) = "purge" -> [job EXCEPT ![Server(r)] = NoJob]
    [] OTHER -> job

EngineAfter(r) ==
  LET m == Mount(r) IN
  CASE Now(r) = "mount" ->
         [vault.engine EXCEPT ![m] = IF @ = "absent" THEN "mounted" ELSE @]
    [] Now(r) = "configure" -> [vault.engine EXCEPT ![m] = "configured"]
    [] Now(r) = "unmount"   -> [vault.engine EXCEPT ![m] = "absent"]
    [] OTHER -> vault.engine

LeasesAfter(r) ==
  IF Now(r) \in {"revoke", "unmount"} THEN vault.leases \ {Mount(r)} ELSE vault.leases

HasAfter(r) ==
  LET s == Server(r) IN
  CASE Now(r) = "secret" -> [vault.has EXCEPT ![s] = @ \cup {"secret"}]
    [] Now(r) \in {"policy", "grants"} -> [vault.has EXCEPT ![s] = @ \cup {"policy"}]
    [] Now(r) = "role" -> [vault.has EXCEPT ![s] = @ \cup {"role"}]
    [] Now(r) = "unsecret" -> [vault.has EXCEPT ![s] = @ \ {"secret"}]
    [] Now(r) = "unpolicy" -> [vault.has EXCEPT ![s] = @ \ {"policy"}]
    [] Now(r) = "unrole" -> [vault.has EXCEPT ![s] = @ \ {"role"}]
    [] OTHER -> vault.has

KVAfter(r) ==
  IF Now(r) = "kv" THEN [vault.kv EXCEPT ![Server(r)] = r] ELSE vault.kv

PeerAfter(r) ==
  LET s == Server(r) IN
  CASE Now(r) \in {"peer", "wirepeer"} /\ Found(r) = None ->
         [gw.peer EXCEPT ![s] = [id |-> r, addr |-> req[r].row.addr, active |-> TRUE]]
    [] Now(r) = "repoint"  -> [gw.peer EXCEPT ![s].addr = req[r].row.addr]
    [] Now(r) = "activate" -> [gw.peer EXCEPT ![s].active = TRUE]
    [] Now(r) = "unpeer" ->
         LET peer == IF req[r].op = "update" THEN Found(r) ELSE req[r].row.peer IN
         [gw.peer EXCEPT ![s] = IF @.id = peer THEN NoPeer ELSE @]
    [] OTHER -> gw.peer

VSAfter(r) ==
  CASE Now(r) = "unvs" -> [gw.vs EXCEPT ![Server(r)] = NoVS]
    [] Now(r) = "vs" ->
         [gw.vs EXCEPT ![Server(r)] = [id |-> r, peer |-> req[r].row.peer]]
    [] OTHER -> gw.vs

TokensAfter(r) ==
  CASE Now(r) = "untokens" -> [gw.tokens EXCEPT ![Server(r)] = {}]
    [] Now(r) = "token" -> [gw.tokens EXCEPT ![Server(r)] = @ \cup {r}]
    [] OTHER -> gw.tokens

ProbeAfter(r) ==
  LET s == Server(r) IN
  CASE Now(r) = "testvs" -> [gw.probe EXCEPT ![s].test = r]
    [] Now(r) = "decoy"  -> [gw.probe EXCEPT ![s].decoy = r]
    [] Now(r) = "probetoken"   -> [gw.probe EXCEPT ![s].tokens = @ \cup {r}]
    [] Now(r) = "unprobetoken" -> [gw.probe EXCEPT ![s].tokens = {}]
    [] Now(r) = "undecoy" -> [gw.probe EXCEPT ![s].decoy = Unless(r, @)]
    [] Now(r) = "untest"  -> [gw.probe EXCEPT ![s].test = Unless(r, @)]
    [] OTHER -> gw.probe

StrayedAfter(r) ==
  LET s == Server(r) IN
  IF \/ Now(r) = "activate" /\ gw.peer[s].addr = job[s].addr
     \/ Now(r) = "unpeer" /\ PeerAfter(r)[s] = NoPeer
  THEN strayed \ {s} ELSE strayed

\* What a call that takes effect has found.
Allowed(r) ==
  /\ Now(r) = "collide" => ~Collides(r)
  /\ Now(r) \in {"read", "unrow"} => row[Server(r)] # NoRow
  /\ Now(r) = "place" => job[Server(r)] # NoJob
  /\ Now(r) = "configure" => vault.engine[Mount(r)] # "absent"
  /\ Now(r) \in {"peer", "wirepeer"} => Found(r) # None \/ Listening(r)
  /\ Now(r) \in {"repoint", "activate", "tools"} => IsPeer(r)
  /\ Now(r) = "repoint" => Listening(r)
  /\ Now(r) = "tools" => gw.peer[Server(r)].active

Effect(r) ==
  /\ row' = RowAfter(r) /\ addons' = AddonsAfter(r) /\ job' = JobAfter(r)
  /\ vault' = [engine |-> EngineAfter(r), leases |-> LeasesAfter(r),
               has |-> HasAfter(r), kv |-> KVAfter(r)]
  /\ gw' = [peer |-> PeerAfter(r), vs |-> VSAfter(r), tokens |-> TokensAfter(r),
            probe |-> ProbeAfter(r)]
  /\ strayed' = StrayedAfter(r) /\ doomed' = DoomedAfter(r)
  /\ Allowed(r)

Acting(r) == Effect(r) /\ Outcome(r, NewOf(r), NextsOf(r))

Failing(r) ==
  /\ Broke(r, FALSE) /\ (Fault \/ UNCHANGED faults)
  /\ UNCHANGED <<row, addons, job, vault, gw, strayed, doomed>>

--------------------------------------------------------------------------------
(* Types                                                                   *)

LEMMA TypedOK == Typed => TypeOK
<1> SUFFICES ASSUME Typed PROVE TypeOK
  OBVIOUS
<1>1. Data /\ Control
  BY DEF Typed
<1>2. \A r \in Requests :
        /\ req[r].row \in Copy /\ req[r].seen \in Row \cup {NoRow}
        /\ req[r].op \in Over => req[r] = Idle(req[r].op)
        /\ r \in InFlight =>
             /\ req[r].op \in {"deploy", "update", "test", "delete", "addons"}
             /\ req[r].s \in Servers
             /\ req[r].todo # << >>
             /\ \A i \in DOMAIN req[r].todo : req[r].todo[i] \in Steps
  <2> TAKE r \in Requests
  <2>1. req[r] \in Op
    BY <1>1 DEF Control
  <2>2. req[r].row \in Copy /\ req[r].seen \in Row \cup {NoRow} /\ req[r].todo \in Seq(Steps)
    BY <2>1 DEF Op
  <2>3. r \in InFlight => req[r].op \in Working /\ req[r].s \in Servers /\ req[r].todo # << >>
    BY <1>1, AtWork
  <2>4. \A i \in DOMAIN req[r].todo : req[r].todo[i] \in Steps
    BY <2>2
  <2>. QED  BY <1>1, <2>2, <2>3, <2>4 DEF Control, Working
<1>. QED  BY <1>1, <1>2 DEF Data, TypeOK

LEMMA InitTyped == Init => Typed
<1> SUFFICES ASSUME Init PROVE Typed
  OBVIOUS
<1>1. Control
  <2>1. req \in [Requests -> Op] /\ \A r \in Requests : req[r] = Idle("new")
    BY NoRowTypes DEF Init, Over
  <2>2. Idle("new").op \in Over /\ Idle("new") = Idle(Idle("new").op)
    BY NoRowTypes DEF Over
  <2>. QED  BY <2>1, <2>2 DEF Control
<1>2. CASE Empty
  <2>1. /\ row \in [Servers -> Row \cup {NoRow}] /\ addons \subseteq Servers
        /\ job \in [Servers -> [def : Definitions, addr : Address] \cup {NoJob}]
    BY <1>2 DEF Empty, PerServer
  <2>2. vault \in [engine : [Mounts -> {"absent", "mounted", "configured"}],
                leases : SUBSET Mounts,
                has : [Servers -> SUBSET {"secret", "policy", "role"}],
                kv : [Servers -> Makers \cup {None}]]
    BY <1>2 DEF Empty, PerServer
  <2>3. gw \in [peer : [Servers ->
               [id : Makers, addr : Address, active : BOOLEAN] \cup {NoPeer}],
             vs : [Servers -> [id : Makers, peer : Makers] \cup {NoVS}],
             tokens : [Servers -> SUBSET Makers],
             probe : [Servers -> [test : Requests \cup {None},
                                  decoy : Requests \cup {None},
                                  tokens : SUBSET Requests]]]
    BY <1>2 DEF Empty, PerServer, NoProbe
  <2>. QED  BY <1>1, <2>1, <2>2, <2>3, Names DEF Init, Data, Typed
<1>3. CASE \E s \in Servers, c \in Credentials, d \in Definitions :
             \E stage \in {"deployed", "tested", "wired"} : Founded(s, c, d, stage)
  <2> PICK s \in Servers, c \in Credentials, d \in Definitions,
           stage \in {"deployed", "tested", "wired"} : Founded(s, c, d, stage)
    BY <1>3
  <2>1. Founder \in Makers /\ <<Founder, 0>> \in Address
    BY Names DEF Makers, Address
  <2>2. row \in [Servers -> Row \cup {NoRow}] /\ addons \subseteq Servers
    BY <2>1 DEF Founded, PerServer, Row, Spelling
  <2>3. job \in [Servers -> [def : Definitions, addr : Address] \cup {NoJob}]
    BY <2>1 DEF Founded, PerServer
  <2>4. Holds(c) \in SUBSET {"secret", "policy", "role"}
    BY DEF Holds
  <2>5. vault \in [engine : [Mounts -> {"absent", "mounted", "configured"}],
                leases : SUBSET Mounts,
                has : [Servers -> SUBSET {"secret", "policy", "role"}],
                kv : [Servers -> Makers \cup {None}]]
    BY <2>1, <2>4 DEF Founded, PerServer
  <2>6. gw \in [peer : [Servers ->
               [id : Makers, addr : Address, active : BOOLEAN] \cup {NoPeer}],
             vs : [Servers -> [id : Makers, peer : Makers] \cup {NoVS}],
             tokens : [Servers -> SUBSET Makers],
             probe : [Servers -> [test : Requests \cup {None},
                                  decoy : Requests \cup {None},
                                  tokens : SUBSET Requests]]]
    BY <2>1 DEF Founded, PerServer, NoProbe
  <2>. QED  BY <1>1, <2>2, <2>3, <2>5, <2>6, Names DEF Init, Data, Typed
<1>. QED  BY <1>1, <1>2, <1>3 DEF Init, Typed

\* Every call has one of two outcomes.
LEMMA CallEffect ==
  ASSUME Typed, NEW r \in InFlight, Calls(r)
  PROVE  Control' /\ (Acting(r) \/ Failing(r))
<1> USE DEF Typed
<1>0. /\ r \in Requests /\ req[r] \in Op /\ req[r].s \in Servers /\ req[r].op \in Working
      /\ Server(r) \in Servers /\ \A step : At(r, step) <=> Now(r) = step
  BY AtWork DEF At, Server
<1>v. vault = [engine |-> vault.engine, leases |-> vault.leases, has |-> vault.has,
               kv |-> vault.kv]
  BY DEF Data
<1>g. gw = [peer |-> gw.peer, vs |-> gw.vs, tokens |-> gw.tokens, probe |-> gw.probe]
  BY DEF Data
<1>r. ASSUME Refused(r), UNCHANGED <<row, addons, job, vault, gw>>
      PROVE  Control' /\ Failing(r)
  BY <1>r, RefusedKeeps DEF Failing, Refused
<1>a. ASSUME Answered(r), Now(r) \notin {"place", "read", "wirepeer", "peer", "save",
                                         "referenced"}
      PROVE  Control' /\ Outcome(r, NewOf(r), NextsOf(r))
  <2>1. NewOf(r) = req[r] /\ NextsOf(r) = Follows(req[r], Now(r))
    BY <1>a DEF NewOf, NextsOf
  <2>. QED  BY <1>a, <2>1, AnsweredKeeps
<1> USE DEF Local, InNomad, InVault, InGateway
<1>1. ASSUME RejectMountCollision(r) PROVE Control' /\ (Acting(r) \/ Failing(r))
  <2>1. Now(r) = "collide"
    BY <1>0, <1>1 DEF RejectMountCollision
  <2>2. CASE Collides(r)
    BY <1>1, <1>r, <2>2 DEF RejectMountCollision
  <2>3. CASE ~Collides(r)
    <3>1. Effect(r)
      BY <1>1, <1>v, <1>g, <2>1, <2>3 DEF RejectMountCollision, Effect, Allowed, RowAfter, AddonsAfter, JobAfter, EngineAfter,
         LeasesAfter, HasAfter, KVAfter, PeerAfter, VSAfter, TokensAfter, ProbeAfter,
         StrayedAfter, DoomedAfter
    <3>. QED  BY <1>1, <1>a, <2>1, <2>3, <3>1 DEF RejectMountCollision, Acting
  <2>. QED  BY <2>2, <2>3
<1>2. ASSUME Save(r) PROVE Control' /\ (Acting(r) \/ Failing(r))
  <2> DEFINE new == [req[r] EXCEPT !.seen = req[r].row]
  <2>1. Now(r) = "save" /\ At(r, "save")
    BY <1>0, <1>2 DEF Save
  <2>2. Effect(r)
    BY <1>2, <1>v, <1>g, <2>1 DEF Save, Effect, Allowed, RowAfter, AddonsAfter, JobAfter, EngineAfter,
         LeasesAfter, HasAfter, KVAfter, PeerAfter, VSAfter, TokensAfter, ProbeAfter,
         StrayedAfter, DoomedAfter
  <2>3. req[r].row \in Row
    BY <1>0, <2>1, AtWork DEF Fits, Working, StepsOf, Wiring
  <2>4. /\ new \in Op /\ new.op = req[r].op /\ new.s = req[r].s
        /\ new.todo = req[r].todo /\ new.row = req[r].row /\ new.seen = req[r].row
    BY <1>0, <2>3 DEF Op
  <2>5. NewOf(r) = new /\ NextsOf(r) = Follows(req[r], Now(r)) /\ AnsweredAs(r, new)
    BY <1>2, <2>1 DEF NewOf, NextsOf, Save
  <2> HIDE DEF new
  <2>6. Plan(new, Tail(req[r].todo), "over")
    <3>1. Plan(req[r], Tail(req[r].todo), "over")
          /\ \A i \in 1 .. Len(Tail(req[r].todo)) : Tail(req[r].todo)[i] \notin Opening
      BY AtWork, TailPlan
    <3>. QED  BY <2>4, <3>1, SamePlan
  <2>7. \A x \in Follows(req[r], Now(r)) \ {"over"} : Fits(new, x)
    <3> TAKE x \in Follows(req[r], Now(r)) \ {"over"}
    <3>1. Fits(req[r], x)
      BY <1>0, <2>1, AtWork, FitsOn
    <3>. QED  BY <2>4, <3>1 DEF Fits
  <2>8. Control' /\ Outcome(r, new, Follows(req[r], Now(r)))
    BY <2>4, <2>5, <2>6, <2>7, AnswerKeeps
  <2>. QED  BY <2>2, <2>5, <2>8 DEF Acting
<1>3. ASSUME DeleteRow(r) PROVE Control' /\ (Acting(r) \/ Failing(r))
  <2>1. Now(r) = "unrow"
    BY <1>0, <1>3 DEF DeleteRow
  <2>2. CASE row[Server(r)] = NoRow
    <3>1. row' = row
      BY <1>0, <1>3, <2>2 DEF DeleteRow, Data
    <3>. QED  BY <1>3, <1>r, <2>2, <3>1 DEF DeleteRow
  <2>3. CASE row[Server(r)] # NoRow
    <3>1. Effect(r)
      BY <1>3, <1>v, <1>g, <2>1, <2>3 DEF DeleteRow, Effect, Allowed, RowAfter, AddonsAfter, JobAfter, EngineAfter,
         LeasesAfter, HasAfter, KVAfter, PeerAfter, VSAfter, TokensAfter, ProbeAfter,
         StrayedAfter, DoomedAfter
    <3>. QED  BY <1>3, <1>a, <2>1, <2>3, <3>1 DEF DeleteRow, Acting
  <2>. QED  BY <2>2, <2>3
<1>4. ASSUME RewireIfReferenced(r) PROVE Control' /\ (Acting(r) \/ Failing(r))
  <2>1. Now(r) = "referenced" /\ At(r, "referenced")
    BY <1>0, <1>4 DEF RewireIfReferenced
  <2>2. Effect(r)
    BY <1>4, <1>v, <1>g, <2>1 DEF RewireIfReferenced, Effect, Allowed, RowAfter, AddonsAfter, JobAfter, EngineAfter,
         LeasesAfter, HasAfter, KVAfter, PeerAfter, VSAfter, TokensAfter, ProbeAfter,
         StrayedAfter, DoomedAfter
  <2>3. CASE Server(r) \notin addons
    <3>1. Answered(r)
      BY <1>0, <1>4, <2>3 DEF RewireIfReferenced, Answered, Op
    <3>2. NewOf(r) = req[r] /\ NextsOf(r) = {"over"} /\ Follows(req[r], Now(r)) = {"over"}
      BY <2>1, <2>3 DEF NewOf, NextsOf, Follows, Shared
    <3>. QED  BY <2>1, <2>2, <3>1, <3>2, AnsweredKeeps DEF Acting
  <2>4. CASE Server(r) \in addons
    <3> DEFINE todo == req[r].todo
               all == todo \o Wire
               new == [req[r] EXCEPT !.todo = all]
               b == [req[r] EXCEPT !.todo = Wire]
    <3>1. /\ Lead(Tail(todo), "over") \in Follows(req[r], "referenced")
          /\ todo[1] = "referenced" /\ todo \in Seq(Steps) /\ todo # << >>
          /\ Tail(todo) \in Seq(Steps)
      <4>1. Plan(req[r], todo, "over") /\ todo # << >> /\ todo \in Seq(Steps)
        BY <1>0, AtWork DEF Op
      <4>2. todo[1] = "referenced"
        BY <2>1, <4>1 DEF Now, Lead
      <4>3. Lead(Tail(todo), "over") \in Follows(req[r], todo[1])
        BY <4>1, TailPlan
      <4>4. Tail(todo) \in Seq(Steps)
        <5> HIDE DEF todo
        <5>. QED  BY <4>1
      <4>. QED  BY <4>1, <4>2, <4>3, <4>4
    <3>2. Lead(Tail(todo), "over") = "over"
      BY <3>1 DEF Follows, Shared
    <3>3. Tail(todo) = << >>
      <4> DEFINE tail == Tail(todo)
      <4>1. tail \in Seq(Steps) /\ Lead(tail, "over") = "over"
        BY <3>1, <3>2
      <4> HIDE DEF tail
      <4>2. tail # << >> => tail[1] \in Steps
        BY <4>1
      <4>3. tail = << >>
        BY <4>1, <4>2, NotAStep DEF Lead
      <4>. QED  BY <4>3 DEF tail
    <3>4. Len(todo) = 1
      <4> HIDE DEF todo
      <4>1. Len(Tail(todo)) = Len(todo) - 1 /\ Len(todo) \in Nat
        BY <3>1
      <4>2. Len(<< >>) = 0
        OBVIOUS
      <4>3. Len(Tail(todo)) = 0
        BY <3>3, <4>2
      <4>. QED  BY <4>1, <4>3
    <3>5. Tail(all) = Wire
      <4>1. Wire \in Seq(Steps)
        BY DEF Wire, Steps, Wiring
      <4> HIDE DEF todo
      <4>. QED  BY <3>1, <3>4, <4>1, TailOfOne
    <3>6. [new EXCEPT !.todo = Tail(@)] = b
      BY <1>0, <3>5 DEF Op
    <3>7. req[r].op \in {"deploy", "update"}
      BY <2>1, AtWork DEF StepsOf, Working, Wiring, Deprovisioning
    <3>8. /\ Plan(req[r], Wire, "over") /\ Wire # << >> /\ Lead(Wire, "over") = "read"
      BY <3>7, WirePlan
    <3>9. /\ b \in Op /\ b.op = req[r].op /\ b.s = req[r].s /\ b.seen = req[r].seen
          /\ b.row = req[r].row /\ b.todo = Wire
      <4>1. Wire \in Seq(Steps)
        BY DEF Wire, Steps, Wiring
      <4>. QED  BY <1>0, <4>1 DEF Op
    <3> HIDE DEF b, todo
    <3>10. Plan(b, b.todo, "over")
      BY <3>8, <3>9, SamePlan
    <3>11. Fits(b, "read")
      <4>1. Fits(req[r], "referenced")
        BY <2>1, AtWork
      <4>. QED  BY <3>7, <3>9, <4>1 DEF Fits, Wiring
    <3>12. NewOf(r) = req[r] /\ NextsOf(r) = {"read"}
      BY <2>1, <2>4 DEF NewOf, NextsOf
    <3>13. CASE Fault /\ Fails(r, TRUE)
      BY <2>2, <3>12, <3>13, FailsKeeps DEF Acting, Outcome
    <3>14. CASE /\ Become(r, b)
                /\ raced' = raced \cup Disturbed(r)
                /\ unwired' = IF At(r, "kv") THEN unwired \ {Server(r)} ELSE unwired
                /\ UNCHANGED <<torn, faults>>
      <4>1. Control' /\ Moved(r, b, {"read"})
        BY <1>0, <3>7, <3>8, <3>9, <3>10, <3>11, <3>14, BecomeKeeps
      <4>2. Moved(r, req[r], {"read"})
        BY <3>9, <4>1 DEF Moved
      <4>3. Went(r, NewOf(r), NextsOf(r))
        BY <1>0, <3>12, <3>14, <4>2 DEF Went
      <4>. QED  BY <2>2, <4>1, <4>3 DEF Acting, Outcome
    <3>. QED
      BY <1>4, <2>4, <3>6, <3>13, <3>14 DEF RewireIfReferenced, AnsweredAs, todo
  <2>. QED  BY <2>3, <2>4
<1>5. ASSUME ReadRow(r) PROVE Control' /\ (Acting(r) \/ Failing(r))
  <2> DEFINE new == [req[r] EXCEPT !.row = row[Server(r)], !.seen = row[Server(r)]]
  <2>1. Now(r) = "read" /\ At(r, "read")
    BY <1>0, <1>5 DEF ReadRow
  <2>2. CASE row[Server(r)] = NoRow
    BY <1>5, <1>r, <2>2 DEF ReadRow
  <2>3. CASE row[Server(r)] # NoRow
    <3>1. Effect(r)
      BY <1>5, <1>v, <1>g, <2>1, <2>3 DEF ReadRow, Effect, Allowed, RowAfter, AddonsAfter, JobAfter, EngineAfter,
         LeasesAfter, HasAfter, KVAfter, PeerAfter, VSAfter, TokensAfter, ProbeAfter,
         StrayedAfter, DoomedAfter
    <3>2. row[Server(r)] \in Row
      BY <1>0, <2>3 DEF Data
    <3>3. /\ new \in Op /\ new.op = req[r].op /\ new.s = req[r].s
          /\ new.todo = req[r].todo /\ new.row = row[Server(r)] /\ new.seen = new.row
      BY <1>0, <3>2, NoRowTypes DEF Op
    <3>4. NewOf(r) = new /\ NextsOf(r) = Follows(req[r], Now(r)) /\ AnsweredAs(r, new)
      BY <1>5, <2>1, <2>3 DEF NewOf, NextsOf, ReadRow
    <3> HIDE DEF new
    <3>5. req[r].op \in {"deploy", "update", "addons"}
      BY <2>1, AtWork DEF StepsOf, Working, Wiring, Deprovisioning
    <3>6. Plan(new, Tail(req[r].todo), "over")
      <4>1. /\ Plan(req[r], Tail(req[r].todo), "over")
            /\ \A i \in 1 .. Len(Tail(req[r].todo)) : Tail(req[r].todo)[i] \in AfterRead
        BY <2>1, AtWork, TailPlan
      <4>. QED  BY <3>3, <3>5, <4>1, ReadAgain
    <3>7. Follows(req[r], Now(r)) = {"wirepeer"}
      BY <2>1 DEF Follows, Shared
    <3>8. Fits(new, "wirepeer")
      BY <3>2, <3>3, <3>5 DEF Fits, Row
    <3>9. Control' /\ Outcome(r, new, Follows(req[r], Now(r)))
      BY <3>3, <3>4, <3>6, <3>7, <3>8, AnswerKeeps
    <3>. QED  BY <3>1, <3>4, <3>9 DEF Acting
  <2>. QED  BY <2>2, <2>3
<1>6. ASSUME SaveAddons(r) PROVE Control' /\ (Acting(r) \/ Failing(r))
  <2>1. Now(r) = "addons"
    BY <1>0, <1>6 DEF SaveAddons
  <2>2. Effect(r)
    BY <1>6, <1>v, <1>g, <2>1 DEF SaveAddons, Effect, Allowed, RowAfter, AddonsAfter, JobAfter, EngineAfter,
         LeasesAfter, HasAfter, KVAfter, PeerAfter, VSAfter, TokensAfter, ProbeAfter,
         StrayedAfter, DoomedAfter
  <2>. QED  BY <1>6, <1>a, <2>1, <2>2 DEF SaveAddons, Acting
<1>7. ASSUME RegisterJob(r) PROVE Control' /\ (Acting(r) \/ Failing(r))
  <2>1. Now(r) = "register"
    BY <1>0, <1>7 DEF RegisterJob
  <2>2. Effect(r)
    BY <1>7, <1>v, <1>g, <2>1 DEF RegisterJob, Effect, Allowed, RowAfter, AddonsAfter, JobAfter, EngineAfter,
         LeasesAfter, HasAfter, KVAfter, PeerAfter, VSAfter, TokensAfter, ProbeAfter,
         StrayedAfter, DoomedAfter
  <2>. QED  BY <1>7, <1>a, <2>1, <2>2 DEF RegisterJob, Acting
<1>8. ASSUME ResolvePlacement(r) PROVE Control' /\ (Acting(r) \/ Failing(r))
  <2> DEFINE new == [req[r] EXCEPT !.row.addr = job[Server(r)].addr]
  <2>1. Now(r) = "place" /\ At(r, "place")
    BY <1>0, <1>8 DEF ResolvePlacement
  <2>2. CASE job[Server(r)] = NoJob
    BY <1>8, <1>r, <2>2 DEF ResolvePlacement
  <2>3. CASE job[Server(r)] # NoJob
    <3>1. Effect(r)
      BY <1>8, <1>v, <1>g, <2>1, <2>3 DEF ResolvePlacement, Effect, Allowed, RowAfter, AddonsAfter, JobAfter, EngineAfter,
         LeasesAfter, HasAfter, KVAfter, PeerAfter, VSAfter, TokensAfter, ProbeAfter,
         StrayedAfter, DoomedAfter
    <3>2. job[Server(r)].addr \in Address
      BY <1>0, <2>3 DEF Data
    <3>3. /\ new \in Op /\ new.op = req[r].op /\ new.s = req[r].s
          /\ new.todo = req[r].todo /\ new.seen = req[r].seen
          /\ new.row = [req[r].row EXCEPT !.addr = job[Server(r)].addr]
      BY <1>0, <3>2 DEF Op, Copy
    <3>a. /\ new.row.cred = req[r].row.cred /\ new.row.def = req[r].row.def
          /\ new.row.peer = req[r].row.peer
          /\ req[r].row.cred \in Credentials /\ req[r].row.def \in Definitions =>
               new.row \in Row
      BY <1>0, <3>2, <3>3 DEF Op, Copy, Row
    <3>4. NewOf(r) = new /\ NextsOf(r) = Follows(req[r], Now(r)) /\ AnsweredAs(r, new)
      BY <1>8, <2>1, <2>3 DEF NewOf, NextsOf, ResolvePlacement
    <3> HIDE DEF new
    <3>5. req[r].op \in {"deploy", "update", "test"}
      BY <2>1, AtWork DEF StepsOf, Working, Wiring, Deprovisioning
    <3>6. Plan(new, Tail(req[r].todo), "over")
      <4>1. Plan(req[r], Tail(req[r].todo), "over")
        BY AtWork, TailPlan
      <4>. QED  BY <3>3, <3>5, <3>a, <4>1, SamePlan
    <3>7. \A x \in Follows(req[r], Now(r)) \ {"over"} : Fits(new, x)
      <4>1. Fits(req[r], "place")
        BY <2>1, AtWork
      <4>2. Follows(req[r], Now(r)) \subseteq {"save", "peer", "repoint"}
        BY <2>1, <3>5 DEF Follows
      <4>3. new.row \in Row
        BY <3>5, <3>a, <4>1 DEF Fits, Row
      <4>. QED  BY <3>3, <3>5, <3>a, <4>1, <4>2, <4>3 DEF Fits
    <3>9. Control' /\ Outcome(r, new, Follows(req[r], Now(r)))
      BY <3>3, <3>4, <3>6, <3>7, AnswerKeeps
    <3>. QED  BY <3>1, <3>4, <3>9 DEF Acting
  <2>. QED  BY <2>2, <2>3
<1>9. ASSUME PurgeJob(r) PROVE Control' /\ (Acting(r) \/ Failing(r))
  <2>1. Now(r) = "purge"
    BY <1>0, <1>9 DEF PurgeJob
  <2>2. Effect(r)
    BY <1>9, <1>v, <1>g, <2>1 DEF PurgeJob, Effect, Allowed, RowAfter, AddonsAfter, JobAfter, EngineAfter,
         LeasesAfter, HasAfter, KVAfter, PeerAfter, VSAfter, TokensAfter, ProbeAfter,
         StrayedAfter, DoomedAfter
  <2>. QED  BY <1>9, <1>a, <2>1, <2>2 DEF PurgeJob, Acting
<1>10. ASSUME MountEngine(r) PROVE Control' /\ (Acting(r) \/ Failing(r))
  <2>1. Now(r) = "mount"
    BY <1>0, <1>10 DEF MountEngine
  <2>2. Effect(r)
    BY <1>10, <1>v, <1>g, <2>1 DEF MountEngine, Effect, Allowed, RowAfter, AddonsAfter, JobAfter, EngineAfter,
         LeasesAfter, HasAfter, KVAfter, PeerAfter, VSAfter, TokensAfter, ProbeAfter,
         StrayedAfter, DoomedAfter
  <2>. QED  BY <1>10, <1>a, <2>1, <2>2 DEF MountEngine, Acting
<1>11. ASSUME ConfigureEngine(r) PROVE Control' /\ (Acting(r) \/ Failing(r))
  <2>1. Now(r) = "configure"
    BY <1>0, <1>11 DEF ConfigureEngine
  <2>2. CASE ~(vault.engine[Mount(r)] # "absent")
    BY <1>11, <1>r, <2>2 DEF ConfigureEngine
  <2>3. CASE vault.engine[Mount(r)] # "absent"
    <3>1. Effect(r)
      BY <1>11, <1>v, <1>g, <2>1, <2>3 DEF ConfigureEngine, Effect, Allowed, RowAfter, AddonsAfter, JobAfter, EngineAfter,
         LeasesAfter, HasAfter, KVAfter, PeerAfter, VSAfter, TokensAfter, ProbeAfter,
         StrayedAfter, DoomedAfter
    <3>. QED  BY <1>11, <1>a, <2>1, <2>3, <3>1 DEF ConfigureEngine, Acting
  <2>. QED  BY <2>2, <2>3
<1>12. ASSUME WriteSecret(r) PROVE Control' /\ (Acting(r) \/ Failing(r))
  <2>1. Now(r) = "secret"
    BY <1>0, <1>12 DEF WriteSecret, Gains
  <2>2. Effect(r)
    BY <1>12, <1>v, <1>g, <2>1 DEF WriteSecret, Gains, Effect, Allowed, RowAfter, AddonsAfter, JobAfter, EngineAfter,
         LeasesAfter, HasAfter, KVAfter, PeerAfter, VSAfter, TokensAfter, ProbeAfter,
         StrayedAfter, DoomedAfter
  <2>. QED  BY <1>12, <1>a, <2>1, <2>2 DEF WriteSecret, Gains, Acting
<1>13. ASSUME WritePolicy(r) PROVE Control' /\ (Acting(r) \/ Failing(r))
  <2>1. Now(r) = "policy"
    BY <1>0, <1>13 DEF WritePolicy, Gains
  <2>2. Effect(r)
    BY <1>13, <1>v, <1>g, <2>1 DEF WritePolicy, Gains, Effect, Allowed, RowAfter, AddonsAfter, JobAfter, EngineAfter,
         LeasesAfter, HasAfter, KVAfter, PeerAfter, VSAfter, TokensAfter, ProbeAfter,
         StrayedAfter, DoomedAfter
  <2>. QED  BY <1>13, <1>a, <2>1, <2>2 DEF WritePolicy, Gains, Acting
<1>14. ASSUME WriteWIFRole(r) PROVE Control' /\ (Acting(r) \/ Failing(r))
  <2>1. Now(r) = "role"
    BY <1>0, <1>14 DEF WriteWIFRole, Gains
  <2>2. Effect(r)
    BY <1>14, <1>v, <1>g, <2>1 DEF WriteWIFRole, Gains, Effect, Allowed, RowAfter, AddonsAfter, JobAfter, EngineAfter,
         LeasesAfter, HasAfter, KVAfter, PeerAfter, VSAfter, TokensAfter, ProbeAfter,
         StrayedAfter, DoomedAfter
  <2>. QED  BY <1>14, <1>a, <2>1, <2>2 DEF WriteWIFRole, Gains, Acting
<1>15. ASSUME UpdateGrants(r) PROVE Control' /\ (Acting(r) \/ Failing(r))
  <2>1. Now(r) = "grants"
    BY <1>0, <1>15 DEF UpdateGrants, Gains
  <2>2. Effect(r)
    BY <1>15, <1>v, <1>g, <2>1 DEF UpdateGrants, Gains, Effect, Allowed, RowAfter, AddonsAfter, JobAfter, EngineAfter,
         LeasesAfter, HasAfter, KVAfter, PeerAfter, VSAfter, TokensAfter, ProbeAfter,
         StrayedAfter, DoomedAfter
  <2>. QED  BY <1>15, <1>a, <2>1, <2>2 DEF UpdateGrants, Gains, Acting
<1>16. ASSUME DeletePolicy(r) PROVE Control' /\ (Acting(r) \/ Failing(r))
  <2>1. Now(r) = "unpolicy"
    BY <1>0, <1>16 DEF DeletePolicy, Loses
  <2>2. Effect(r)
    BY <1>16, <1>v, <1>g, <2>1 DEF DeletePolicy, Loses, Effect, Allowed, RowAfter, AddonsAfter, JobAfter, EngineAfter,
         LeasesAfter, HasAfter, KVAfter, PeerAfter, VSAfter, TokensAfter, ProbeAfter,
         StrayedAfter, DoomedAfter
  <2>. QED  BY <1>16, <1>a, <2>1, <2>2 DEF DeletePolicy, Loses, Acting
<1>17. ASSUME DeleteWIFRole(r) PROVE Control' /\ (Acting(r) \/ Failing(r))
  <2>1. Now(r) = "unrole"
    BY <1>0, <1>17 DEF DeleteWIFRole, Loses
  <2>2. Effect(r)
    BY <1>17, <1>v, <1>g, <2>1 DEF DeleteWIFRole, Loses, Effect, Allowed, RowAfter, AddonsAfter, JobAfter, EngineAfter,
         LeasesAfter, HasAfter, KVAfter, PeerAfter, VSAfter, TokensAfter, ProbeAfter,
         StrayedAfter, DoomedAfter
  <2>. QED  BY <1>17, <1>a, <2>1, <2>2 DEF DeleteWIFRole, Loses, Acting
<1>18. ASSUME DeleteSecret(r) PROVE Control' /\ (Acting(r) \/ Failing(r))
  <2>1. Now(r) = "unsecret"
    BY <1>0, <1>18 DEF DeleteSecret, Loses
  <2>2. Effect(r)
    BY <1>18, <1>v, <1>g, <2>1 DEF DeleteSecret, Loses, Effect, Allowed, RowAfter, AddonsAfter, JobAfter, EngineAfter,
         LeasesAfter, HasAfter, KVAfter, PeerAfter, VSAfter, TokensAfter, ProbeAfter,
         StrayedAfter, DoomedAfter
  <2>. QED  BY <1>18, <1>a, <2>1, <2>2 DEF DeleteSecret, Loses, Acting
<1>19. ASSUME RevokeLeases(r) PROVE Control' /\ (Acting(r) \/ Failing(r))
  <2>1. Now(r) = "revoke"
    BY <1>0, <1>19 DEF RevokeLeases
  <2>2. Effect(r)
    BY <1>19, <1>v, <1>g, <2>1 DEF RevokeLeases, Effect, Allowed, RowAfter, AddonsAfter, JobAfter, EngineAfter,
         LeasesAfter, HasAfter, KVAfter, PeerAfter, VSAfter, TokensAfter, ProbeAfter,
         StrayedAfter, DoomedAfter
  <2>. QED  BY <1>19, <1>a, <2>1, <2>2 DEF RevokeLeases, Acting
<1>20. ASSUME UnmountEngine(r) PROVE Control' /\ (Acting(r) \/ Failing(r))
  <2>1. Now(r) = "unmount"
    BY <1>0, <1>20 DEF UnmountEngine
  <2>2. Effect(r)
    BY <1>20, <1>v, <1>g, <2>1 DEF UnmountEngine, Effect, Allowed, RowAfter, AddonsAfter, JobAfter, EngineAfter,
         LeasesAfter, HasAfter, KVAfter, PeerAfter, VSAfter, TokensAfter, ProbeAfter,
         StrayedAfter, DoomedAfter
  <2>. QED  BY <1>20, <1>a, <2>1, <2>2 DEF UnmountEngine, Acting
<1>21. ASSUME WriteWiring(r) PROVE Control' /\ (Acting(r) \/ Failing(r))
  <2>1. Now(r) = "kv"
    BY <1>0, <1>21 DEF WriteWiring
  <2>2. Effect(r)
    BY <1>21, <1>v, <1>g, <2>1 DEF WriteWiring, Effect, Allowed, RowAfter, AddonsAfter, JobAfter, EngineAfter,
         LeasesAfter, HasAfter, KVAfter, PeerAfter, VSAfter, TokensAfter, ProbeAfter,
         StrayedAfter, DoomedAfter
  <2>. QED  BY <1>21, <1>a, <2>1, <2>2 DEF WriteWiring, Acting
<1>22. ASSUME RegisterPeer(r) PROVE Control' /\ (Acting(r) \/ Failing(r))
  <2> DEFINE id == IF Found(r) # None THEN Found(r) ELSE r
             new == [req[r] EXCEPT !.row.peer = id]
  <2>1. Now(r) \in {"peer", "wirepeer"}
    BY <1>0, <1>22 DEF RegisterPeer
  <2>2. CASE Found(r) = None /\ ~Listening(r)
    BY <1>22, <1>r, <2>2 DEF RegisterPeer
  <2>3. CASE Found(r) # None \/ Listening(r)
    <3>1. Effect(r)
      BY <1>22, <1>v, <1>g, <2>1, <2>3 DEF RegisterPeer, Effect, Allowed, RowAfter, AddonsAfter, JobAfter, EngineAfter,
         LeasesAfter, HasAfter, KVAfter, PeerAfter, VSAfter, TokensAfter, ProbeAfter,
         StrayedAfter, DoomedAfter
    <3>2. id \in Makers
      <4>1. gw.peer[Server(r)].id \in Makers \cup {None}
        BY <1>0 DEF Data, NoPeer
      <4>. QED  BY <1>0, <4>1 DEF Found, Makers
    <3>3. /\ new \in Op /\ new.op = req[r].op /\ new.s = req[r].s
          /\ new.todo = req[r].todo /\ new.seen = req[r].seen
          /\ new.row = [req[r].row EXCEPT !.peer = id]
      BY <1>0, <3>2 DEF Op, Copy
    <3>a. /\ new.row.cred = req[r].row.cred /\ new.row.def = req[r].row.def
          /\ new.row.peer = id /\ id # None
          /\ req[r].row \in Row => new.row \in Row
      BY <1>0, <3>2, <3>3, Names DEF Op, Copy, Row
    <3>4. NewOf(r) = new /\ NextsOf(r) = Follows(req[r], Now(r)) /\ AnsweredAs(r, new)
      BY <1>22, <2>1, <2>3 DEF NewOf, NextsOf, RegisterPeer
    <3> HIDE DEF new, id
    <3>5. /\ req[r].op \in {"deploy", "update", "test", "addons"}
          /\ req[r].op = "deploy" => Now(r) \in Wiring
          /\ req[r].op = "addons" => Now(r) \in AfterRead
      BY <2>1, AtWork DEF StepsOf, Working, Wiring, Deprovisioning, AfterRead
    <3>6. Plan(new, Tail(req[r].todo), "over")
      <4>1. Plan(req[r], Tail(req[r].todo), "over")
        BY AtWork, TailPlan
      <4>. QED  BY <3>3, <3>5, <3>a, <4>1, SamePlan
    <3>7. \A x \in Follows(req[r], Now(r)) \ {"over"} : Fits(new, x)
      <4>1. Fits(req[r], Now(r))
        BY AtWork
      <4>2. req[r].row \in Row
        BY <3>5, <4>1 DEF Fits
      <4>. QED  BY <3>3, <3>5, <3>a, <4>1, <4>2 DEF Fits, Row
    <3>9. Control' /\ Outcome(r, new, Follows(req[r], Now(r)))
      BY <3>3, <3>4, <3>6, <3>7, AnswerKeeps
    <3>. QED  BY <3>1, <3>4, <3>9 DEF Acting
  <2>. QED  BY <2>2, <2>3
<1>23. ASSUME UpdatePeer(r) PROVE Control' /\ (Acting(r) \/ Failing(r))
  <2>1. Now(r) = "repoint"
    BY <1>0, <1>23 DEF UpdatePeer
  <2>2. CASE ~(IsPeer(r) /\ Listening(r))
    BY <1>23, <1>r, <2>2 DEF UpdatePeer
  <2>3. CASE IsPeer(r) /\ Listening(r)
    <3>1. Effect(r)
      BY <1>23, <1>v, <1>g, <2>1, <2>3 DEF UpdatePeer, Effect, Allowed, RowAfter, AddonsAfter, JobAfter, EngineAfter,
         LeasesAfter, HasAfter, KVAfter, PeerAfter, VSAfter, TokensAfter, ProbeAfter,
         StrayedAfter, DoomedAfter
    <3>. QED  BY <1>23, <1>a, <2>1, <2>3, <3>1 DEF UpdatePeer, Acting
  <2>. QED  BY <2>2, <2>3
<1>24. ASSUME ActivatePeer(r) PROVE Control' /\ (Acting(r) \/ Failing(r))
  <2>1. Now(r) = "activate"
    BY <1>0, <1>24 DEF ActivatePeer
  <2>2. CASE ~(IsPeer(r))
    BY <1>24, <1>r, <2>2 DEF ActivatePeer
  <2>3. CASE IsPeer(r)
    <3>1. Effect(r)
      BY <1>24, <1>v, <1>g, <2>1, <2>3 DEF ActivatePeer, Effect, Allowed, RowAfter, AddonsAfter, JobAfter, EngineAfter,
         LeasesAfter, HasAfter, KVAfter, PeerAfter, VSAfter, TokensAfter, ProbeAfter,
         StrayedAfter, DoomedAfter
    <3>. QED  BY <1>24, <1>a, <2>1, <2>3, <3>1 DEF ActivatePeer, Acting
  <2>. QED  BY <2>2, <2>3
<1>25. ASSUME DiscoverTools(r) PROVE Control' /\ (Acting(r) \/ Failing(r))
  <2>1. Now(r) = "tools"
    BY <1>0, <1>25 DEF DiscoverTools
  <2>2. CASE ~(IsPeer(r) /\ gw.peer[Server(r)].active)
    BY <1>25, <1>r, <2>2 DEF DiscoverTools
  <2>3. CASE IsPeer(r) /\ gw.peer[Server(r)].active
    <3>1. Effect(r)
      BY <1>25, <1>v, <1>g, <2>1, <2>3 DEF DiscoverTools, Effect, Allowed, RowAfter, AddonsAfter, JobAfter, EngineAfter,
         LeasesAfter, HasAfter, KVAfter, PeerAfter, VSAfter, TokensAfter, ProbeAfter,
         StrayedAfter, DoomedAfter
    <3>. QED  BY <1>25, <1>a, <2>1, <2>3, <3>1 DEF DiscoverTools, Acting
  <2>. QED  BY <2>2, <2>3
<1>26. ASSUME DeletePeer(r) PROVE Control' /\ (Acting(r) \/ Failing(r))
  <2>1. Now(r) = "unpeer"
    BY <1>0, <1>26 DEF DeletePeer
  <2>2. Effect(r)
    BY <1>26, <1>v, <1>g, <2>1 DEF DeletePeer, Effect, Allowed, RowAfter, AddonsAfter, JobAfter, EngineAfter,
         LeasesAfter, HasAfter, KVAfter, PeerAfter, VSAfter, TokensAfter, ProbeAfter,
         StrayedAfter, DoomedAfter
  <2>. QED  BY <1>26, <1>a, <2>1, <2>2 DEF DeletePeer, Acting
<1>27. ASSUME DeleteVirtualServer(r) PROVE Control' /\ (Acting(r) \/ Failing(r))
  <2>1. Now(r) = "unvs"
    BY <1>0, <1>27 DEF DeleteVirtualServer, OnGateway
  <2>2. Effect(r)
    BY <1>27, <1>v, <1>g, <2>1 DEF DeleteVirtualServer, OnGateway, Effect, Allowed, RowAfter, AddonsAfter, JobAfter, EngineAfter,
         LeasesAfter, HasAfter, KVAfter, PeerAfter, VSAfter, TokensAfter, ProbeAfter,
         StrayedAfter, DoomedAfter
  <2>. QED  BY <1>27, <1>a, <2>1, <2>2 DEF DeleteVirtualServer, OnGateway, Acting
<1>28. ASSUME CreateVirtualServer(r) PROVE Control' /\ (Acting(r) \/ Failing(r))
  <2>1. Now(r) = "vs"
    BY <1>0, <1>28 DEF CreateVirtualServer, OnGateway
  <2>2. Effect(r)
    BY <1>28, <1>v, <1>g, <2>1 DEF CreateVirtualServer, OnGateway, Effect, Allowed, RowAfter, AddonsAfter, JobAfter, EngineAfter,
         LeasesAfter, HasAfter, KVAfter, PeerAfter, VSAfter, TokensAfter, ProbeAfter,
         StrayedAfter, DoomedAfter
  <2>. QED  BY <1>28, <1>a, <2>1, <2>2 DEF CreateVirtualServer, OnGateway, Acting
<1>29. ASSUME RevokeTokensByPrefix(r) PROVE Control' /\ (Acting(r) \/ Failing(r))
  <2>1. Now(r) = "untokens"
    BY <1>0, <1>29 DEF RevokeTokensByPrefix, OnGateway
  <2>2. Effect(r)
    BY <1>29, <1>v, <1>g, <2>1 DEF RevokeTokensByPrefix, OnGateway, Effect, Allowed, RowAfter, AddonsAfter, JobAfter, EngineAfter,
         LeasesAfter, HasAfter, KVAfter, PeerAfter, VSAfter, TokensAfter, ProbeAfter,
         StrayedAfter, DoomedAfter
  <2>. QED  BY <1>29, <1>a, <2>1, <2>2 DEF RevokeTokensByPrefix, OnGateway, Acting
<1>30. ASSUME CreateScopedToken(r) PROVE Control' /\ (Acting(r) \/ Failing(r))
  <2>1. Now(r) = "token"
    BY <1>0, <1>30 DEF CreateScopedToken, OnGateway
  <2>2. Effect(r)
    BY <1>30, <1>v, <1>g, <2>1 DEF CreateScopedToken, OnGateway, Effect, Allowed, RowAfter, AddonsAfter, JobAfter, EngineAfter,
         LeasesAfter, HasAfter, KVAfter, PeerAfter, VSAfter, TokensAfter, ProbeAfter,
         StrayedAfter, DoomedAfter
  <2>. QED  BY <1>30, <1>a, <2>1, <2>2 DEF CreateScopedToken, OnGateway, Acting
<1>31. ASSUME ProbeVS(r) PROVE Control' /\ (Acting(r) \/ Failing(r))
  <2>1. Now(r) = "testvs"
    BY <1>0, <1>31 DEF ProbeVS, OnGateway
  <2>2. Effect(r)
    BY <1>31, <1>v, <1>g, <2>1 DEF ProbeVS, OnGateway, Effect, Allowed, RowAfter, AddonsAfter, JobAfter, EngineAfter,
         LeasesAfter, HasAfter, KVAfter, PeerAfter, VSAfter, TokensAfter, ProbeAfter,
         StrayedAfter, DoomedAfter
  <2>. QED  BY <1>31, <1>a, <2>1, <2>2 DEF ProbeVS, OnGateway, Acting
<1>32. ASSUME ProbeDecoy(r) PROVE Control' /\ (Acting(r) \/ Failing(r))
  <2>1. Now(r) = "decoy"
    BY <1>0, <1>32 DEF ProbeDecoy, OnGateway
  <2>2. Effect(r)
    BY <1>32, <1>v, <1>g, <2>1 DEF ProbeDecoy, OnGateway, Effect, Allowed, RowAfter, AddonsAfter, JobAfter, EngineAfter,
         LeasesAfter, HasAfter, KVAfter, PeerAfter, VSAfter, TokensAfter, ProbeAfter,
         StrayedAfter, DoomedAfter
  <2>. QED  BY <1>32, <1>a, <2>1, <2>2 DEF ProbeDecoy, OnGateway, Acting
<1>33. ASSUME ProbeToken(r) PROVE Control' /\ (Acting(r) \/ Failing(r))
  <2>1. Now(r) = "probetoken"
    BY <1>0, <1>33 DEF ProbeToken, OnGateway
  <2>2. Effect(r)
    BY <1>33, <1>v, <1>g, <2>1 DEF ProbeToken, OnGateway, Effect, Allowed, RowAfter, AddonsAfter, JobAfter, EngineAfter,
         LeasesAfter, HasAfter, KVAfter, PeerAfter, VSAfter, TokensAfter, ProbeAfter,
         StrayedAfter, DoomedAfter
  <2>. QED  BY <1>33, <1>a, <2>1, <2>2 DEF ProbeToken, OnGateway, Acting
<1>34. ASSUME ProbeScopedToken(r) PROVE Control' /\ (Acting(r) \/ Failing(r))
  <2>1. Now(r) = "probe"
    BY <1>0, <1>34 DEF ProbeScopedToken, OnGateway
  <2>2. Effect(r)
    BY <1>34, <1>v, <1>g, <2>1 DEF ProbeScopedToken, OnGateway, Effect, Allowed, RowAfter, AddonsAfter, JobAfter, EngineAfter,
         LeasesAfter, HasAfter, KVAfter, PeerAfter, VSAfter, TokensAfter, ProbeAfter,
         StrayedAfter, DoomedAfter
  <2>. QED  BY <1>34, <1>a, <2>1, <2>2 DEF ProbeScopedToken, OnGateway, Acting
<1>35. ASSUME DropProbeTokens(r) PROVE Control' /\ (Acting(r) \/ Failing(r))
  <2>1. Now(r) = "unprobetoken"
    BY <1>0, <1>35 DEF DropProbeTokens, OnGateway
  <2>2. Effect(r)
    BY <1>35, <1>v, <1>g, <2>1 DEF DropProbeTokens, OnGateway, Effect, Allowed, RowAfter, AddonsAfter, JobAfter, EngineAfter,
         LeasesAfter, HasAfter, KVAfter, PeerAfter, VSAfter, TokensAfter, ProbeAfter,
         StrayedAfter, DoomedAfter
  <2>. QED  BY <1>35, <1>a, <2>1, <2>2 DEF DropProbeTokens, OnGateway, Acting
<1>36. ASSUME DropProbeDecoy(r) PROVE Control' /\ (Acting(r) \/ Failing(r))
  <2>1. Now(r) = "undecoy"
    BY <1>0, <1>36 DEF DropProbeDecoy, OnGateway
  <2>2. Effect(r)
    BY <1>36, <1>v, <1>g, <2>1 DEF DropProbeDecoy, OnGateway, Effect, Allowed, RowAfter, AddonsAfter, JobAfter, EngineAfter,
         LeasesAfter, HasAfter, KVAfter, PeerAfter, VSAfter, TokensAfter, ProbeAfter,
         StrayedAfter, DoomedAfter
  <2>. QED  BY <1>36, <1>a, <2>1, <2>2 DEF DropProbeDecoy, OnGateway, Acting
<1>37. ASSUME DropProbeVS(r) PROVE Control' /\ (Acting(r) \/ Failing(r))
  <2>1. Now(r) = "untest"
    BY <1>0, <1>37 DEF DropProbeVS, OnGateway
  <2>2. Effect(r)
    BY <1>37, <1>v, <1>g, <2>1 DEF DropProbeVS, OnGateway, Effect, Allowed, RowAfter, AddonsAfter, JobAfter, EngineAfter,
         LeasesAfter, HasAfter, KVAfter, PeerAfter, VSAfter, TokensAfter, ProbeAfter,
         StrayedAfter, DoomedAfter
  <2>. QED  BY <1>37, <1>a, <2>1, <2>2 DEF DropProbeVS, OnGateway, Acting
<1>38. ASSUME CallFails(r) PROVE Control' /\ (Acting(r) \/ Failing(r))
  BY <1>38, FailsKeeps DEF CallFails, Failing
<1>. QED
  BY <1>1, <1>2, <1>3, <1>4, <1>5, <1>6, <1>7, <1>8, <1>9, <1>10, <1>11, <1>12, <1>13, <1>14, <1>15, <1>16, <1>17, <1>18, <1>19, <1>20, <1>21, <1>22, <1>23, <1>24, <1>25, <1>26, <1>27, <1>28, <1>29, <1>30, <1>31, <1>32, <1>33, <1>34, <1>35, <1>36, <1>37, <1>38 DEF Calls

\* What each variable is after a call has its type.
LEMMA ActingTyped ==
  ASSUME Typed, NEW r \in InFlight, Effect(r)
  PROVE  /\ row' \in [Servers -> Row \cup {NoRow}] /\ addons' \subseteq Servers
         /\ job' \in [Servers -> [def : Definitions, addr : Address] \cup {NoJob}]
         /\ vault' \in [engine : [Mounts -> {"absent", "mounted", "configured"}],
                        leases : SUBSET Mounts,
                        has : [Servers -> SUBSET {"secret", "policy", "role"}],
                        kv : [Servers -> Makers \cup {None}]]
         /\ gw' \in [peer : [Servers ->
                       [id : Makers, addr : Address, active : BOOLEAN] \cup {NoPeer}],
                     vs : [Servers -> [id : Makers, peer : Makers] \cup {NoVS}],
                     tokens : [Servers -> SUBSET Makers],
                     probe : [Servers -> [test : Requests \cup {None},
                                          decoy : Requests \cup {None},
                                          tokens : SUBSET Requests]]]
         /\ strayed' \subseteq Servers /\ doomed' \subseteq Servers
<1>0. /\ r \in Requests /\ req[r] \in Op /\ Server(r) \in Servers /\ req[r].op \in Working
      /\ Fits(req[r], Now(r)) /\ Now(r) \in StepsOf(req[r].op) /\ r \in Makers
  BY AtWork DEF Typed, Server, Makers
<1>d. Data
  BY DEF Typed
<1>1. row' \in [Servers -> Row \cup {NoRow}]
  <2>1. CASE Now(r) = "save"
    <3>1. req[r].row \in Row
      BY <1>0, <2>1 DEF Fits, Working, StepsOf, Wiring
    <3>. QED  BY <1>0, <1>d, <2>1, <3>1 DEF Effect, RowAfter, Data
  <2>2. CASE Now(r) # "save"
    BY <1>0, <1>d, <2>2 DEF Effect, RowAfter, Data
  <2>. QED  BY <2>1, <2>2
<1>2. addons' \subseteq Servers /\ strayed' \subseteq Servers /\ doomed' \subseteq Servers
  BY <1>0, <1>d DEF Effect, AddonsAfter, StrayedAfter, DoomedAfter, Data
<1>3. job' \in [Servers -> [def : Definitions, addr : Address] \cup {NoJob}]
  <2>1. CASE Now(r) = "register"
    <3>1. req[r].row.def \in Definitions
      BY <1>0, <2>1 DEF Fits, Working, StepsOf, Wiring, Deprovisioning, Row
    <3>2. <<r, faults>> \in Address
      BY <1>0, <1>d DEF Address, Data
    <3>. QED  BY <1>0, <1>d, <2>1, <3>1, <3>2 DEF Effect, JobAfter, Data
  <2>2. CASE Now(r) # "register"
    BY <1>0, <1>d, <2>2 DEF Effect, JobAfter, Data
  <2>. QED  BY <2>1, <2>2
<1>4. EngineAfter(r) \in [Mounts -> {"absent", "mounted", "configured"}]
  BY <1>d DEF EngineAfter, Data
<1>5. LeasesAfter(r) \in SUBSET Mounts
  BY <1>d DEF LeasesAfter, Data
<1>6. HasAfter(r) \in [Servers -> SUBSET {"secret", "policy", "role"}]
  BY <1>0, <1>d DEF HasAfter, Data
<1>7. KVAfter(r) \in [Servers -> Makers \cup {None}]
  BY <1>0, <1>d DEF KVAfter, Data
<1>8. PeerAfter(r) \in [Servers -> [id : Makers, addr : Address, active : BOOLEAN]
                                   \cup {NoPeer}]
  <2> DEFINE Peers == [id : Makers, addr : Address, active : BOOLEAN]
  <2>0. gw.peer \in [Servers -> Peers \cup {NoPeer}]
    BY <1>d DEF Data
  <2>1. CASE Now(r) \in {"peer", "wirepeer"}
    <3>1. req[r].row \in Row
      <4>1. req[r].op \in {"update", "test"} \/ Now(r) = "wirepeer"
        BY <1>0, <2>1 DEF Working, StepsOf, Wiring, Deprovisioning
      <4>. QED  BY <1>0, <2>1, <4>1 DEF Fits, Working, Wiring, AfterRead, StepsOf, Deprovisioning
    <3>2. [id |-> r, addr |-> req[r].row.addr, active |-> TRUE] \in Peers
      BY <1>0, <3>1 DEF Row
    <3>. QED  BY <1>0, <2>0, <2>1, <3>2 DEF PeerAfter
  <2>2. CASE Now(r) \in {"repoint", "activate"}
    <3>1. gw.peer[Server(r)] \in Peers
      <4>1. gw.peer[Server(r)].id # None
        BY <2>2 DEF Effect, Allowed, IsPeer, Found
      <4>2. gw.peer[Server(r)] # NoPeer
        BY <4>1 DEF NoPeer
      <4>. QED  BY <1>0, <2>0, <4>2
    <3>2. req[r].row.addr \in Address
      BY <1>0, <2>2 DEF Fits, Working, StepsOf, Wiring, Deprovisioning, Row
    <3>3. /\ [gw.peer[Server(r)] EXCEPT !.addr = req[r].row.addr] \in Peers
          /\ [gw.peer[Server(r)] EXCEPT !.active = TRUE] \in Peers
      BY <3>1, <3>2
    <3>. QED  BY <1>0, <2>0, <2>2, <3>3 DEF PeerAfter
  <2>3. CASE Now(r) = "unpeer"
    BY <1>0, <2>0, <2>3 DEF PeerAfter
  <2>4. CASE Now(r) \notin {"peer", "wirepeer", "repoint", "activate", "unpeer"}
    BY <2>0, <2>4 DEF PeerAfter
  <2>. QED  BY <2>1, <2>2, <2>3, <2>4
<1>9. VSAfter(r) \in [Servers -> [id : Makers, peer : Makers] \cup {NoVS}]
  <2>1. CASE Now(r) = "vs"
    <3>1. req[r].op \in {"deploy", "update", "addons"}
      BY <1>0, <2>1 DEF Working, StepsOf, Wiring, Deprovisioning
    <3>2. req[r].row \in Copy /\ req[r].row.peer # None
      BY <1>0, <2>1, <3>1 DEF Fits, Op
    <3>3. req[r].row.peer \in Makers
      BY <3>2 DEF Copy
    <3>. QED  BY <1>0, <1>d, <2>1, <3>3 DEF VSAfter, Data
  <2>2. CASE Now(r) # "vs"
    BY <1>0, <1>d, <2>2 DEF VSAfter, Data
  <2>. QED  BY <2>1, <2>2
<1>10. TokensAfter(r) \in [Servers -> SUBSET Makers]
  BY <1>0, <1>d DEF TokensAfter, Data
<1>11. ProbeAfter(r) \in [Servers -> [test : Requests \cup {None},
                                      decoy : Requests \cup {None},
                                      tokens : SUBSET Requests]]
  <2> DEFINE Probed == [test : Requests \cup {None}, decoy : Requests \cup {None},
                        tokens : SUBSET Requests]
  <2>1. gw.probe \in [Servers -> Probed]
    BY <1>d DEF Data
  <2>2. gw.probe[Server(r)] \in Probed
    BY <1>0, <2>1
  <2>. QED  BY <1>0, <2>1, <2>2 DEF ProbeAfter, Unless
<1>. QED
  BY <1>1, <1>2, <1>3, <1>4, <1>5, <1>6, <1>7, <1>8, <1>9, <1>10, <1>11 DEF Effect

--------------------------------------------------------------------------------
(* How requests begin, and what happens around them.                       *)

\* Request r begins at `start`.
Began(r, op, s, seen, new, start) ==
  /\ req[r].op = "new" /\ s \in Servers
  /\ req'[r].op = op /\ req'[r].s = s /\ req'[r].seen = seen /\ req'[r].row = new
  /\ Now(r)' = start
  /\ \A q \in Requests \ {r} : req'[q] = req[q]
  /\ UNCHANGED <<row, raced, torn, unwired, addons, job, vault, gw>>

DeployBegan(r, s, c, d) ==
  /\ \E w \in Spelling(c) :
       Began(r, "deploy", s, NoRow, [NoRow EXCEPT !.cred = c, !.spelt = w, !.def = d],
             Starts(c))
  /\ UNCHANGED <<strayed, doomed>> /\ (Fault \/ (UNCHANGED faults /\ row[s] = NoRow))

UpdateBegan(r, s, d) ==
  /\ row[s] # NoRow
  /\ Began(r, "update", s, row[s], [row[s] EXCEPT !.def = d],
           IF row[s].cred # "none" THEN "grants"
           ELSE IF row[s].def = d THEN "save" ELSE "register")
  /\ UNCHANGED <<faults, strayed, doomed>>

TestBegan(r, s) ==
  /\ row[s] # NoRow /\ Began(r, "test", s, row[s], row[s], "place")
  /\ UNCHANGED <<faults, strayed, doomed>>

DeleteBegan(r, s) ==
  /\ row[s] # NoRow /\ Began(r, "delete", s, row[s], row[s], "purge")
  /\ doomed' = doomed \cup {s}
  /\ strayed' = IF row[s].peer # gw.peer[s].id THEN strayed \cup {s} ELSE strayed
  /\ UNCHANGED faults

AddonsBegan(r, s) ==
  /\ Began(r, "addons", s, row[s], row[s], "read")
  /\ UNCHANGED <<faults, strayed, doomed>>

Begun(r, s) ==
  \/ \E c \in Credentials, d \in Definitions : DeployBegan(r, s, c, d)
  \/ \E d \in Definitions : UpdateBegan(r, s, d)
  \/ TestBegan(r, s) \/ DeleteBegan(r, s) \/ AddonsBegan(r, s)

Crashed ==
  /\ \A r \in Requests : IF r \in InFlight THEN req'[r] = Idle("over") ELSE req'[r] = req[r]
  /\ Fault
  /\ torn' = torn \cup {Server(r) : r \in {q \in InFlight : req[q].op # "delete"}}
  /\ UNCHANGED <<row, addons, job, vault, gw, raced, unwired, strayed, doomed>>

Step ==
  \/ \E r \in InFlight : Calls(r) /\ (Acting(r) \/ Failing(r))
  \/ \E r \in Requests, s \in Servers : Begun(r, s)
  \/ Crashed
  \/ \E s \in Servers : Reschedule(s) \/ Deactivate(s) \/ Lease(s)
  \/ UNCHANGED vars

LEMMA BeginKeeps ==
  ASSUME Control, NEW r \in Requests, NEW s \in Servers, NEW op \in Working,
         NEW seen, NEW new, NEW plan, NEW start, Begin(r, op, s, seen, new, plan),
         seen \in Row \cup {NoRow}, new \in Copy, plan # << >>,
         LET a == [op |-> op, s |-> s, seen |-> seen, row |-> new, todo |-> plan] IN
           Plan(a, plan, "over") /\ Fits(a, start) /\ Lead(plan, "over") = start
  PROVE  Control' /\ Began(r, op, s, seen, new, start)
<1> DEFINE a == [op |-> op, s |-> s, seen |-> seen, row |-> new, todo |-> plan]
<1>1. /\ a.op = op /\ a.s = s /\ a.seen = seen /\ a.row = new /\ a.todo = plan
      /\ req' = [req EXCEPT ![r] = a]
  BY DEF Begin
<1>2. Plan(a, plan, "over") /\ Fits(a, start) /\ Lead(plan, "over") = start
  OBVIOUS
<1>3. a \in Op
  <2>1. plan \in Seq(StepsOf(op))
    BY <1>1, <1>2 DEF Plan
  <2>2. plan \in Seq(Steps)
    BY <2>1, StepNames
  <2>. QED  BY <2>2 DEF Op
<1> HIDE DEF a
<1>4. req' \in [Requests -> Op] /\ req'[r] = a
      /\ \A q \in Requests \ {r} : req'[q] = req[q]
  BY <1>1, <1>3 DEF Control
<1>5. a.op \notin Over /\ Planned(a)
  BY <1>1, <1>2, NoRowTypes DEF Planned
<1>6. Control'
  BY <1>4, <1>5 DEF Control
<1>. QED  BY <1>1, <1>2, <1>4, <1>6 DEF Began, Begin, Local, Now

LEMMA DeployBegins ==
  ASSUME Control, NEW r \in Requests, NEW s \in Servers, NEW c \in Credentials,
         NEW d \in Definitions, Deploy(r, s, c, d)
  PROVE  /\ Control'
         /\ \E w \in Spelling(c) :
              Began(r, "deploy", s, NoRow, [NoRow EXCEPT !.cred = c, !.spelt = w, !.def = d],
                    Starts(c))
<1> PICK w \in Spelling(c) :
      Begin(r, "deploy", s, NoRow, [NoRow EXCEPT !.cred = c, !.spelt = w, !.def = d],
            DeployPlan(c))
  BY DEF Deploy
<1> DEFINE new == [NoRow EXCEPT !.cred = c, !.spelt = w, !.def = d]
           plan == DeployPlan(c)
           a == [op |-> "deploy", s |-> s, seen |-> NoRow, row |-> new, todo |-> plan]
<1>1. new \in Copy /\ new.cred = c /\ new.def = d
  BY DEF NoRow, Copy, Spelling
<1>2. a.op = "deploy" /\ a.row = new
  OBVIOUS
<1> HIDE DEF a, new
<1>3. Plan(a, plan, "over") /\ plan # << >> /\ Lead(plan, "over") = Starts(c)
  BY <1>1, <1>2, DeployPlanned
<1>4. Fits(a, Starts(c))
  BY <1>1, <1>2 DEF Fits, Starts, Wiring
<1>5. Begin(r, "deploy", s, NoRow, new, plan)
  BY DEF new
<1> HIDE DEF plan
<1>6. Control' /\ Began(r, "deploy", s, NoRow, new, Starts(c))
  BY <1>1, <1>3, <1>4, <1>5, BeginKeeps DEF Working, a
<1>. QED  BY <1>6 DEF new

LEMMA StepKeepsControl ==
  ASSUME Typed, [Next]_vars
  PROVE  Control' /\ Step
<1>c. Control /\ Data
  BY DEF Typed
<1>1. ASSUME NEW r \in InFlight, Calls(r) PROVE Control' /\ Step
  BY <1>1, CallEffect DEF Step
<1> SUFFICES ASSUME ~ \E r \in InFlight : Calls(r) PROVE Control' /\ Step
  BY <1>1
<1>2. ASSUME NEW r \in Requests, NEW s \in Servers, NEW c \in Credentials,
             NEW d \in Definitions, DeployServer(r, s, c, d) \/ DeployUnread(r, s, c, d)
      PROVE  Control' /\ Step
  <2>1. Deploy(r, s, c, d)
    BY <1>2 DEF DeployServer, DeployUnread
  <2>2. UNCHANGED <<strayed, doomed>>
    BY <2>1 DEF Deploy
  <2>3. Fault \/ (UNCHANGED faults /\ row[s] = NoRow)
    BY <1>2 DEF DeployServer, DeployUnread
  <2>4. /\ Control'
        /\ \E w \in Spelling(c) :
             Began(r, "deploy", s, NoRow, [NoRow EXCEPT !.cred = c, !.spelt = w, !.def = d],
                   Starts(c))
    BY <1>c, <2>1, DeployBegins
  <2>5. DeployBegan(r, s, c, d)
    BY <2>2, <2>3, <2>4 DEF DeployBegan
  <2>. QED  BY <2>4, <2>5 DEF Step, Begun
<1>3. ASSUME NEW r \in Requests, NEW s \in Servers, NEW d \in Definitions,
             UpdateServer(r, s, d)
      PROVE  Control' /\ Step
  <2> DEFINE old == row[s]
             new == [old EXCEPT !.def = d]
             plan == UpdatePlan(old, d)
             start == IF old.cred # "none" THEN "grants"
                      ELSE IF old.def = d THEN "save" ELSE "register"
             a == [op |-> "update", s |-> s, seen |-> old, row |-> new, todo |-> plan]
  <2>1. row[s] # NoRow /\ Begin(r, "update", s, old, new, plan)
        /\ UNCHANGED <<faults, strayed, doomed>>
    BY <1>3 DEF UpdateServer
  <2>2. old \in Row
    BY <1>c, <2>1 DEF Data
  <2> HIDE DEF old
  <2>3. new \in Row /\ new.cred = old.cred /\ new.def = d
    BY <2>2 DEF Row
  <2>4. a.op = "update" /\ a.seen = old /\ a.row = new
    OBVIOUS
  <2> HIDE DEF a, new
  <2>5. Plan(a, plan, "over") /\ plan # << >> /\ Lead(plan, "over") = start
    BY <2>3, <2>4, UpdatePlanned
  <2>6. Fits(a, start)
    BY <2>3, <2>4 DEF Fits
  <2> HIDE DEF plan, start
  <2>7. Control' /\ Began(r, "update", s, old, new, start)
    BY <1>c, <2>1, <2>2, <2>3, <2>5, <2>6, BeginKeeps, NoRowTypes DEF Working, a
  <2>8. UpdateBegan(r, s, d)
    BY <2>1, <2>7 DEF UpdateBegan, old, new, start
  <2>. QED  BY <2>7, <2>8 DEF Step, Begun
<1>4. ASSUME NEW r \in Requests, NEW s \in Servers, TestServer(r, s)
      PROVE  Control' /\ Step
  <2> DEFINE a == [op |-> "test", s |-> s, seen |-> row[s], row |-> row[s],
                   todo |-> TestPlan]
  <2>1. row[s] # NoRow /\ Begin(r, "test", s, row[s], row[s], TestPlan)
        /\ UNCHANGED <<faults, strayed, doomed>>
    BY <1>4 DEF TestServer
  <2>2. row[s] \in Row
    BY <1>c, <2>1 DEF Data
  <2>3. a.op = "test" /\ a.seen = row[s] /\ a.row = row[s]
    OBVIOUS
  <2> HIDE DEF a
  <2>4. Plan(a, TestPlan, "over") /\ TestPlan # << >> /\ Lead(TestPlan, "over") = "place"
    BY <2>3, TestPlanned
  <2>5. Fits(a, "place")
    BY <2>2, <2>3 DEF Fits
  <2>6. Control' /\ Began(r, "test", s, row[s], row[s], "place")
    BY <1>c, <2>1, <2>2, <2>4, <2>5, BeginKeeps, NoRowTypes DEF Working, a
  <2>. QED  BY <2>1, <2>6 DEF Step, Begun, TestBegan
<1>5. ASSUME NEW r \in Requests, NEW s \in Servers, DeleteServer(r, s)
      PROVE  Control' /\ Step
  <2> DEFINE plan == DeletePlan(row[s])
             a == [op |-> "delete", s |-> s, seen |-> row[s], row |-> row[s],
                   todo |-> plan]
  <2>1. row[s] # NoRow /\ Begin(r, "delete", s, row[s], row[s], plan)
        /\ doomed' = doomed \cup {s} /\ UNCHANGED faults
        /\ strayed' = IF row[s].peer # gw.peer[s].id THEN strayed \cup {s} ELSE strayed
    BY <1>5 DEF DeleteServer
  <2>2. row[s] \in Row /\ row[s].cred \in Credentials
    BY <1>c, <2>1 DEF Data, Row
  <2>3. a.op = "delete" /\ a.seen = row[s] /\ a.row = row[s]
    OBVIOUS
  <2> HIDE DEF a
  <2>4. Plan(a, plan, "over") /\ plan # << >> /\ Lead(plan, "over") = "purge"
    BY <2>2, <2>3, DeletePlanned
  <2>5. Fits(a, "purge")
    BY <2>2, <2>3 DEF Fits
  <2> HIDE DEF plan
  <2>6. Control' /\ Began(r, "delete", s, row[s], row[s], "purge")
    BY <1>c, <2>1, <2>2, <2>4, <2>5, BeginKeeps, NoRowTypes DEF Working, a
  <2>. QED  BY <2>1, <2>6 DEF Step, Begun, DeleteBegan
<1>6. ASSUME NEW r \in Requests, NEW s \in Servers, SetAddons(r, s)
      PROVE  Control' /\ Step
  <2> DEFINE plan == Wire \o <<"addons">>
             a == [op |-> "addons", s |-> s, seen |-> row[s], row |-> row[s],
                   todo |-> plan]
  <2>1. Begin(r, "addons", s, row[s], row[s], plan) /\ UNCHANGED <<faults, strayed, doomed>>
    BY <1>6 DEF SetAddons
  <2>2. row[s] \in Row \cup {NoRow}
    BY <1>c DEF Data
  <2>3. a.op = "addons" /\ a.seen = row[s] /\ a.row = row[s]
    OBVIOUS
  <2> HIDE DEF a
  <2>4. Plan(a, plan, "over") /\ plan # << >> /\ Lead(plan, "over") = "read"
    BY <2>3, AddonsPlan
  <2>5. Fits(a, "read")
    BY <2>3 DEF Fits, AfterRead
  <2> HIDE DEF plan
  <2>6. Control' /\ Began(r, "addons", s, row[s], row[s], "read")
    BY <1>c, <2>1, <2>2, <2>4, <2>5, BeginKeeps, NoRowTypes DEF Working, a
  <2>. QED  BY <2>1, <2>6 DEF Step, Begun, AddonsBegan
<1>7. ASSUME Crash PROVE Control' /\ Step
  <2>1. req' = [r \in Requests |-> IF r \in InFlight THEN Idle("over") ELSE req[r]]
    BY <1>7 DEF Crash
  <2>2. req' \in [Requests -> Op]
    BY <1>c, <2>1, NoRowTypes DEF Control, Over
  <2>3. \A r \in Requests : IF r \in InFlight THEN req'[r] = Idle("over")
                                              ELSE req'[r] = req[r]
    BY <2>1
  <2>4. \A r \in Requests : req'[r].op \in Over /\ req'[r] = Idle(req'[r].op)
    BY <1>c, <2>3, Idleness, NoRowTypes DEF Over
  <2>5. Control'
    BY <2>2, <2>4 DEF Control
  <2>. QED  BY <1>7, <2>3, <2>5 DEF Step, Crashed, Crash, Local
<1>8. ASSUME NEW s \in Servers, Reschedule(s) \/ Deactivate(s) \/ Lease(s)
      PROVE  Control' /\ Step
  <2>1. req' = req
    BY <1>8 DEF Reschedule, Deactivate, Lease
  <2>. QED  BY <1>8, <1>c, <2>1 DEF Step, Control
<1>9. ASSUME UNCHANGED vars PROVE Control' /\ Step
  BY <1>9, <1>c DEF Step, vars, Control
<1>. QED  BY <1>2, <1>3, <1>4, <1>5, <1>6, <1>7, <1>8, <1>9 DEF Next

--------------------------------------------------------------------------------
(* The types.                                                              *)

LEMMA HistoryTyped ==
  ASSUME Typed, NEW r \in InFlight
  PROVE  Disturbed(r) \subseteq Servers \cup Mounts /\ Server(r) \in Servers
<1>1. \A q \in InFlight : Server(q) \in Servers
  BY AtWork DEF Typed, Server
<1>2. \A q \in InFlight : Touches(q) \subseteq Servers \cup Mounts
  BY <1>1 DEF Touches
<1>3. Clashing(r) \subseteq InFlight
  BY DEF Clashing
<1> DEFINE others == UNION {Touches(q) : q \in Clashing(r)}
           own == IF Clashing(r) # {} \/ row[Server(r)] # req[r].seen
                  THEN Touches(r) ELSE {}
           respelt == IF Respelt(r) THEN {Mount(r)} \cap Mounts ELSE {}
<1>4. others \subseteq Servers \cup Mounts
  BY <1>2, <1>3
<1>5. own \subseteq Servers \cup Mounts
  BY <1>2
<1>6. Disturbed(r) = others \cup own \cup respelt
  BY DEF Disturbed
<1>7. respelt \subseteq Mounts
  OBVIOUS
<1> HIDE DEF others, own, respelt
<1>. QED  BY <1>1, <1>4, <1>5, <1>6, <1>7

LEMMA StepKeepsTypes ==
  ASSUME Typed, [Next]_vars
  PROVE  Typed'
<1>1. Control' /\ Step
  BY StepKeepsControl
<1>d. Data /\ MaxFaults \in Nat
  BY ServersAssumption DEF Typed
<1>2. ASSUME NEW r \in InFlight, Acting(r) \/ Failing(r) PROVE Data'
  <2>1. Disturbed(r) \subseteq Servers \cup Mounts /\ Server(r) \in Servers
    BY HistoryTyped
  <2>2. Outcome(r, NewOf(r), NextsOf(r)) \/ (Broke(r, FALSE) /\ (Fault \/ UNCHANGED faults))
    BY <1>2 DEF Acting, Failing
  <2>3. /\ faults' \in 0 .. MaxFaults
        /\ raced' \subseteq Servers \cup Mounts
        /\ torn' \subseteq Servers /\ unwired' \subseteq Servers
    <3>1. faults' \in 0 .. MaxFaults
      <4>1. faults' = faults \/ (faults < MaxFaults /\ faults' = faults + 1)
        BY <2>2 DEF Outcome, Went, Fault
      <4>. QED  BY <1>d, <4>1 DEF Data
    <3>2. raced' = raced \cup Disturbed(r)
      BY <2>2 DEF Outcome, Went, Broke
    <3>3. torn' = torn \/ torn' = torn \cup {Server(r)}
      BY <2>2 DEF Outcome, Went, Broke
    <3>4. unwired' \subseteq unwired \cup {Server(r)}
      BY <2>2 DEF Outcome, Went, Broke
    <3>. QED  BY <1>d, <2>1, <3>1, <3>2, <3>3, <3>4 DEF Data
  <2>4. CASE Acting(r)
    BY <2>3, <2>4, ActingTyped DEF Acting, Data
  <2>5. CASE Failing(r)
    BY <1>d, <2>3, <2>5 DEF Failing, Data
  <2>. QED  BY <1>2, <2>4, <2>5
<1>3. ASSUME NEW r \in Requests, NEW s \in Servers, Begun(r, s) PROVE Data'
  <2>1. /\ UNCHANGED <<row, raced, torn, unwired, addons, job, vault, gw>>
        /\ strayed' \subseteq strayed \cup {s} /\ doomed' \subseteq doomed \cup {s}
        /\ UNCHANGED faults \/ Fault
    BY <1>3 DEF Begun, DeployBegan, UpdateBegan, TestBegan, DeleteBegan, AddonsBegan, Began
  <2>2. faults' \in 0 .. MaxFaults
    BY <1>d, <2>1 DEF Fault, Data
  <2>. QED  BY <1>d, <2>1, <2>2 DEF Data
<1>4. ASSUME Crashed PROVE Data'
  <2>1. {Server(r) : r \in {q \in InFlight : req[q].op # "delete"}} \subseteq Servers
    BY HistoryTyped
  <2>. QED  BY <1>d, <1>4, <2>1 DEF Crashed, Fault, Data
<1>5. ASSUME NEW s \in Servers, Reschedule(s) PROVE Data'
  <2>1. job[s] \in [def : Definitions, addr : Address] /\ faults' \in 0 .. MaxFaults
    BY <1>d, <1>5 DEF Reschedule, Fault, Data
  <2>2. <<job[s].addr[1], faults + 1>> \in Address
    BY <1>d, <1>5, <2>1 DEF Address, Reschedule, Fault, Data
  <2>3. job' \in [Servers -> [def : Definitions, addr : Address] \cup {NoJob}]
    BY <1>d, <1>5, <2>1, <2>2 DEF Reschedule, Data
  <2>. QED  BY <1>d, <1>5, <2>1, <2>3 DEF Reschedule, Data
<1>6. ASSUME NEW s \in Servers, Deactivate(s) PROVE Data'
  <2>1. gw.peer[s] # NoPeer
    BY <1>6 DEF Deactivate, NoPeer
  <2>2. gw.peer[s] \in [id : Makers, addr : Address, active : BOOLEAN]
    BY <1>d, <2>1 DEF Data
  <2>3. gw' = [gw EXCEPT !.peer = [gw.peer EXCEPT ![s] = [@ EXCEPT !.active = FALSE]]]
    BY <1>d, <1>6 DEF Deactivate, Data
  <2>4. gw'.peer \in [Servers ->
               [id : Makers, addr : Address, active : BOOLEAN] \cup {NoPeer}]
    BY <1>d, <2>2, <2>3 DEF Data
  <2>. QED  BY <1>d, <1>6, <2>3, <2>4 DEF Deactivate, Data, history
<1>7. ASSUME NEW s \in Servers, Lease(s) PROVE Data'
  BY <1>d, <1>7 DEF Lease, Data, history
<1>8. ASSUME UNCHANGED vars PROVE Data'
  BY <1>d, <1>8 DEF vars, history, Data
<1>9. Data'
  BY <1>1, <1>2, <1>3, <1>4, <1>5, <1>6, <1>7, <1>8 DEF Step
<1>. QED  BY <1>1, <1>9 DEF Typed

LEMMA AlwaysTyped == Spec => []Typed
<1>1. Init => Typed
  BY InitTyped
<1>2. Typed /\ [Next]_vars => Typed'
  BY StepKeepsTypes
<1>. QED  BY <1>1, <1>2, PTL DEF Spec

\* Every variable keeps its type: stored servers, jobs and peers have an
\* address and virtual servers a peer; a request in flight has something left
\* to do, and every step of its plan is one some action takes, however its plan
\* has become what it is: by answers, by failures and by what the code does
\* about them, or by wiring the server again. (projectadmin/service.go)
THEOREM TypesKept == Spec => []TypeOK
<1>1. Typed => TypeOK
  BY TypedOK
<1>. QED  BY <1>1, AlwaysTyped, PTL

--------------------------------------------------------------------------------
(* A step of one request leaves the others where they are.                  *)

LEMMA OthersStay ==
  ASSUME NEW r \in InFlight, Acting(r) \/ Failing(r), NEW q \in Requests \ {r}
  PROVE  /\ req'[q] = req[q] /\ Now(q)' = Now(q) /\ (q \in InFlight' <=> q \in InFlight)
         /\ Mount(q)' = Mount(q) /\ Server(q)' = Server(q)
<1>1. req'[q] = req[q]
  BY DEF Acting, Failing, Outcome, Went, Broke, Moved
<1>. QED  BY <1>1 DEF Now, InFlight, Mount, Server

LEMMA ForgottenKeeps ==
  ASSUME Typed, NEW r \in InFlight
  PROVE  LET f == Forgotten(r) IN
         /\ f.op = req[r].op /\ f.s = req[r].s /\ f.seen = req[r].seen
         /\ f.row.cred = req[r].row.cred /\ f.row.def = req[r].row.def
         /\ f.row.addr = req[r].row.addr
         /\ req[r].op # "update" => f.row = req[r].row
<1>1. req[r] \in Op
  BY AtWork DEF Typed
<1>. QED  BY <1>1 DEF Forgotten, Forgets, Op, Copy

LEMMA NewKeeps ==
  ASSUME Typed, NEW r \in InFlight
  PROVE  LET n == NewOf(r) IN
         /\ n.op = req[r].op /\ n.s = req[r].s
         /\ Now(r) \notin {"save", "read"} => n.seen = req[r].seen
         /\ Now(r) = "save" => n.seen = req[r].row
         /\ Now(r) = "read" => n.row = row[Server(r)] /\ n.seen = n.row
         /\ Now(r) # "read" => n.row.cred = req[r].row.cred /\ n.row.def = req[r].row.def
         /\ Now(r) \notin {"read", "place", "peer", "wirepeer"} => n.row = req[r].row
<1>1. req[r] \in Op
  BY AtWork DEF Typed
<1>. QED  BY <1>1 DEF NewOf, Op, Copy

\* What becomes of the request that makes a call.
LEMMA Itself ==
  ASSUME Typed, NEW r \in InFlight, Acting(r) \/ Failing(r)
  PROVE  /\ Now(r)' \in NextsOf(r) \cup Recovery(req[r], Now(r))
         /\ r \in InFlight' <=> Now(r)' # "over"
         /\ r \in InFlight' => req'[r].op = req[r].op /\ Server(r)' = Server(r)
         /\ r \in InFlight' /\ Now(r) # "read" =>
              Mount(r)' = Mount(r) /\ req'[r].row.def = req[r].row.def
         /\ r \in InFlight' /\ Now(r) \notin {"read", "save"} => req'[r].seen = req[r].seen
         /\ raced' = raced \cup Disturbed(r) /\ torn \subseteq torn'
<1>1. \/ Moved(r, NewOf(r), NextsOf(r))
      \/ Moved(r, Forgotten(r), Recovery(req[r], Now(r)))
  BY DEF Acting, Failing, Outcome, Went, Broke
<1>2. r \in Requests /\ req[r].op \in Working
  BY AtWork DEF Typed
<1>3. r \in InFlight' <=> Now(r)' # "over"
  <2>1. CASE Now(r)' = "over"
    <3>1. req'[r] = Idle("over")
      BY <1>1, <2>1 DEF Moved
    <3>. QED  BY <2>1, <3>1, NoRowTypes DEF InFlight, Over
  <2>2. CASE Now(r)' # "over"
    <3>1. req'[r].op = req[r].op
      BY <1>1, <2>2, NewKeeps, ForgottenKeeps DEF Moved
    <3>. QED  BY <1>2, <2>2, <3>1, NoRowTypes DEF InFlight
  <2>. QED  BY <2>1, <2>2
<1>4. r \in InFlight' =>
         /\ req'[r].op = req[r].op /\ req'[r].s = req[r].s
         /\ Now(r) # "read" =>
              req'[r].row.cred = req[r].row.cred /\ req'[r].row.def = req[r].row.def
         /\ Now(r) \notin {"read", "save"} => req'[r].seen = req[r].seen
  BY <1>1, <1>3, NewKeeps, ForgottenKeeps DEF Moved
<1>5. raced' = raced \cup Disturbed(r) /\ torn \subseteq torn'
  BY DEF Acting, Failing, Outcome, Went, Broke
<1>6. Now(r)' \in NextsOf(r) \cup Recovery(req[r], Now(r))
  BY <1>1 DEF Moved
<1>. QED  BY <1>3, <1>4, <1>5, <1>6 DEF Mount, Server

\* Others act while r does not.
LEMMA BeginOthers ==
  ASSUME NEW r \in Requests, NEW s \in Servers, Begun(r, s), NEW q \in Requests \ {r}
  PROVE  /\ req'[q] = req[q] /\ Now(q)' = Now(q) /\ (q \in InFlight' <=> q \in InFlight)
         /\ Mount(q)' = Mount(q) /\ Server(q)' = Server(q)
<1>1. req'[q] = req[q]
  BY DEF Begun, DeployBegan, UpdateBegan, TestBegan, DeleteBegan, AddonsBegan, Began
<1>. QED  BY <1>1 DEF Now, InFlight, Mount, Server

LEMMA BeginEffect ==
  ASSUME NEW r \in Requests, NEW s \in Servers, Begun(r, s)
  PROVE  /\ r \notin InFlight
         /\ UNCHANGED <<row, raced, torn, unwired, addons, job, vault, gw>>
         /\ strayed \subseteq strayed' /\ doomed \subseteq doomed'
<1>1. req[r].op = "new"
  BY DEF Begun, DeployBegan, UpdateBegan, TestBegan, DeleteBegan, AddonsBegan, Began
<1>2. r \notin InFlight
  BY <1>1 DEF InFlight, Over
<1>. QED  BY <1>2 DEF Begun, DeployBegan, UpdateBegan, TestBegan, DeleteBegan,
                      AddonsBegan, Began

--------------------------------------------------------------------------------
(* The probes of tests.                                                    *)

\* Only a test changes the probe of its server.
LEMMA ProbeChanges ==
  ASSUME Typed, NEW r \in InFlight, Acting(r) \/ Failing(r), NEW s \in Servers,
         req[r].op # "test" \/ Server(r) # s
  PROVE  gw'.probe[s] = gw.probe[s]
<1>1. CASE Failing(r)
  BY <1>1 DEF Failing
<1>2. CASE Acting(r)
  <2>1. gw'.probe = ProbeAfter(r) /\ Data
    BY <1>2 DEF Acting, Effect, Typed
  <2>2. CASE req[r].op # "test"
    <3>1. Now(r) \notin {"testvs", "decoy", "probetoken", "unprobetoken", "undecoy", "untest"}
      BY <2>2, AtWork DEF Typed, Working, StepsOf, Wiring, Deprovisioning
    <3>. QED  BY <2>1, <3>1 DEF ProbeAfter
  <2>3. CASE Server(r) # s
    BY <2>1, <2>3 DEF ProbeAfter, Data
  <2>. QED  BY <2>2, <2>3
<1>. QED  BY <1>1, <1>2

LEMMA ProbingSame ==
  ASSUME NEW s \in Servers, Probing(s), gw'.probe[s] = gw.probe[s],
         \A q \in InFlight : req[q].op = "test" /\ Server(q) = s =>
           /\ q \in InFlight' /\ req'[q].op = "test" /\ Server(q)' = s /\ Now(q)' = Now(q)
  PROVE  Probing(s)'
BY DEF Probing, Testing

\* A step of test r from one of `steps` to one of `nexts`, that makes `new` of the
\* probe of s.
ProbeStep(r, s, steps, nexts, new) ==
  Now(r) \in steps /\ Now(r)' \in nexts /\ gw'.probe[s] = new

ProbeSteps(r, s) ==
  LET p == gw.probe[s] IN
  \/ Now(r) \in {"place", "peer", "repoint", "activate", "tools"} /\ gw'.probe[s] = p
  \/ ProbeStep(r, s, {"testvs"}, {"over"}, p)
  \/ ProbeStep(r, s, {"testvs"}, {"decoy"}, [p EXCEPT !.test = r])
  \/ ProbeStep(r, s, {"decoy"}, {"untest"}, p)
  \/ ProbeStep(r, s, {"decoy"}, {"probetoken"}, [p EXCEPT !.decoy = r])
  \/ ProbeStep(r, s, {"probetoken"}, {"undecoy"}, p)
  \/ ProbeStep(r, s, {"probetoken"}, {"probe"}, [p EXCEPT !.tokens = @ \cup {r}])
  \/ ProbeStep(r, s, {"probe", "save"}, {"save", "unprobetoken"}, p)
  \/ ProbeStep(r, s, {"unprobetoken"}, {"undecoy"}, [p EXCEPT !.tokens = {}])
  \/ ProbeStep(r, s, {"undecoy"}, {"untest"}, [p EXCEPT !.decoy = Unless(r, @)])
  \/ ProbeStep(r, s, {"untest"}, {"over"}, [p EXCEPT !.test = Unless(r, @)])

\* What a test's step makes of the probe, and where it goes.
LEMMA TestSteps ==
  ASSUME Typed, NEW r \in InFlight, Acting(r) \/ Failing(r), req[r].op = "test",
         NEW s, s = Server(r), s \notin torn'
  PROVE  ProbeSteps(r, s)
<1>. USE DEF ProbeSteps, ProbeStep
<1> DEFINE step == Now(r)
<1>1. /\ s \in Servers /\ gw.probe \in [Servers -> [test : Requests \cup {None},
                                          decoy : Requests \cup {None},
                                          tokens : SUBSET Requests]]
      /\ step \in StepsOf("test")
  BY AtWork DEF Typed, Data, Server
<1>2. step \in {"place", "peer", "repoint", "activate", "tools", "testvs", "decoy",
                "probetoken", "probe", "save", "unprobetoken", "undecoy", "untest"}
  BY <1>1 DEF StepsOf
<1> DEFINE p == gw.probe[s]
           after == CASE step = "testvs" -> [p EXCEPT !.test = r]
                      [] step = "decoy" -> [p EXCEPT !.decoy = r]
                      [] step = "probetoken" -> [p EXCEPT !.tokens = @ \cup {r}]
                      [] step = "unprobetoken" -> [p EXCEPT !.tokens = {}]
                      [] step = "undecoy" -> [p EXCEPT !.decoy = Unless(r, @)]
                      [] step = "untest" -> [p EXCEPT !.test = Unless(r, @)]
                      [] OTHER -> p
<1>3. CASE Acting(r)
  <2>0. gw'.probe = ProbeAfter(r)
    BY <1>3 DEF Acting, Effect
  <2>1. gw'.probe[s] = after
    BY <1>1, <1>2, <2>0 DEF ProbeAfter
  <2>2. CASE Went(r, NewOf(r), NextsOf(r))
    <3>1. Now(r)' \in Follows(req[r], step)
      BY <1>2, <2>2 DEF Went, Moved, NextsOf
    <3>2. Now(r)' \in
            CASE step = "testvs" -> {"decoy"}
              [] step = "decoy" -> {"probetoken"}
              [] step = "probetoken" -> {"probe"}
              [] step \in {"probe", "save"} -> {"save", "unprobetoken"}
              [] step = "unprobetoken" -> {"undecoy"}
              [] step = "undecoy" -> {"untest"}
              [] step = "untest" -> {"over"}
              [] OTHER -> {Now(r)'}
      BY <1>2, <3>1 DEF Follows, Shared
    <3>. QED  BY <1>2, <2>1, <3>2
  <2>3. CASE Broke(r, TRUE)
    <3>1. Now(r)' \in Recovery(req[r], step) /\ ~Unrepaired(r, step, TRUE)
      BY <2>3 DEF Broke, Moved, Unrepaired
    <3>2. step \notin {"testvs", "decoy", "probetoken"}
      BY <3>1 DEF Unrepaired
    <3>3. Now(r)' \in
            CASE step \in {"probe", "save"} -> {"save", "unprobetoken"}
              [] step = "unprobetoken" -> {"undecoy"}
              [] step = "undecoy" -> {"untest"}
              [] step = "untest" -> {"over"}
              [] OTHER -> {Now(r)'}
      BY <1>2, <3>1 DEF Recovery, Follows, Shared
    <3>. QED  BY <1>2, <2>1, <3>2, <3>3
  <2>. QED  BY <1>3, <2>2, <2>3 DEF Acting, Outcome
<1>4. CASE Failing(r)
  <2>1. gw' = gw /\ Now(r)' \in Recovery(req[r], step) /\ ~Unrepaired(r, step, FALSE)
    BY <1>4 DEF Failing, Broke, Moved, Unrepaired
  <2>2. step \notin {"unprobetoken", "undecoy", "untest"}
    BY <2>1 DEF Unrepaired
  <2>. QED  BY <1>2, <2>1, <2>2 DEF Recovery, Follows
<1>. QED  BY <1>3, <1>4

LEMMA TestKeepsProbing ==
  ASSUME Typed, NEW r \in InFlight, Acting(r) \/ Failing(r), req[r].op = "test",
         NEW s \in Servers, s = Server(r), s \notin torn', Probing(s)
  PROVE  Probing(s)'
<1> DEFINE p == gw.probe[s]
           pp == gw'.probe[s]
<1>1. \A q \in InFlight \ {r} :
        /\ q \in InFlight' /\ req'[q].op = req[q].op
        /\ Server(q)' = Server(q) /\ Now(q)' = Now(q)
  <2> TAKE q \in InFlight \ {r}
  <2>1. q \in Requests \ {r}
    BY DEF InFlight
  <2>. QED  BY <2>1, OthersStay
<1>2. Now(r)' # "over" => r \in InFlight' /\ req'[r].op = "test" /\ Server(r)' = s
  BY Itself
<1>3. p \in [test : Requests \cup {None}, decoy : Requests \cup {None},
             tokens : SUBSET Requests]
  BY DEF Typed, Data
<1>. USE DEF Testing
<1>4. CASE Now(r) \in {"place", "peer", "repoint", "activate", "tools"} /\ pp = p
  BY <1>1, <1>2, <1>4 DEF Probing
<1>5. CASE ProbeStep(r, s, {"testvs"}, {"over"}, p)
  BY <1>1, <1>2, <1>5 DEF Probing, ProbeStep
<1>6. CASE ProbeStep(r, s, {"testvs"}, {"decoy"}, [p EXCEPT !.test = r])
  BY <1>1, <1>2, <1>3, <1>6 DEF Probing, ProbeStep
<1>7. CASE ProbeStep(r, s, {"decoy"}, {"untest"}, p)
  BY <1>1, <1>2, <1>3, <1>7 DEF Probing, ProbeStep
<1>8. CASE ProbeStep(r, s, {"decoy"}, {"probetoken"}, [p EXCEPT !.decoy = r])
  BY <1>1, <1>2, <1>3, <1>8 DEF Probing, ProbeStep
<1>9. CASE ProbeStep(r, s, {"probetoken"}, {"undecoy"}, p)
  BY <1>1, <1>2, <1>3, <1>9 DEF Probing, ProbeStep
<1>10. CASE ProbeStep(r, s, {"probetoken"}, {"probe"}, [p EXCEPT !.tokens = @ \cup {r}])
  BY <1>1, <1>2, <1>3, <1>10 DEF Probing, ProbeStep
<1>11. CASE ProbeStep(r, s, {"probe", "save"}, {"save", "unprobetoken"}, p)
  BY <1>1, <1>2, <1>3, <1>11 DEF Probing, ProbeStep
<1>12. CASE ProbeStep(r, s, {"unprobetoken"}, {"undecoy"}, [p EXCEPT !.tokens = {}])
  BY <1>1, <1>2, <1>3, <1>12 DEF Probing, ProbeStep
<1>13. CASE ProbeStep(r, s, {"undecoy"}, {"untest"}, [p EXCEPT !.decoy = Unless(r, @)])
  BY <1>1, <1>2, <1>3, <1>13 DEF Probing, ProbeStep, Unless
<1>14. CASE ProbeStep(r, s, {"untest"}, {"over"}, [p EXCEPT !.test = Unless(r, @)])
  BY <1>1, <1>2, <1>3, <1>14 DEF Probing, ProbeStep, Unless
<1>15. ProbeSteps(r, s)
  BY TestSteps
<1>. QED  BY <1>4, <1>5, <1>6, <1>7, <1>8, <1>9, <1>10, <1>11, <1>12, <1>13, <1>14,
             <1>15 DEF ProbeSteps

LEMMA StepKeepsProbes ==
  ASSUME Typed, Probes, [Next]_vars
  PROVE  Probes'
<1>1. Step
  BY StepKeepsControl
<1>2. ASSUME NEW r \in InFlight, Acting(r) \/ Failing(r) PROVE Probes'
  <2> SUFFICES ASSUME NEW s \in Servers, s \notin torn' PROVE Probing(s)'
    BY DEF Probes
  <2>1. s \notin torn /\ Probing(s)
    BY <1>2, Itself DEF Probes
  <2>2. CASE req[r].op = "test" /\ Server(r) = s
    BY <1>2, <2>1, <2>2, TestKeepsProbing
  <2>3. CASE req[r].op # "test" \/ Server(r) # s
    <3>1. gw'.probe[s] = gw.probe[s]
      BY <1>2, <2>3, ProbeChanges
    <3>2. ASSUME NEW q \in InFlight, req[q].op = "test", Server(q) = s
          PROVE  /\ q \in InFlight' /\ req'[q].op = "test" /\ Server(q)' = s
                 /\ Now(q)' = Now(q)
      <4>1. q \in Requests \ {r}
        BY <2>3, <3>2 DEF InFlight
      <4>. QED  BY <1>2, <3>2, <4>1, OthersStay
    <3>. QED  BY <2>1, <3>1, <3>2, ProbingSame
  <2>. QED  BY <2>2, <2>3
<1>3. ASSUME NEW r \in Requests, NEW s \in Servers, Begun(r, s) PROVE Probes'
  <2> SUFFICES ASSUME NEW t \in Servers, t \notin torn' PROVE Probing(t)'
    BY DEF Probes
  <2>1. Probing(t) /\ gw' = gw /\ r \notin InFlight
    BY <1>3, BeginEffect DEF Probes
  <2>2. ASSUME NEW q \in InFlight, req[q].op = "test", Server(q) = t
        PROVE  /\ q \in InFlight' /\ req'[q].op = "test" /\ Server(q)' = t
               /\ Now(q)' = Now(q)
    <3>1. q \in Requests \ {r}
      BY <2>1, <2>2 DEF InFlight
    <3>. QED  BY <1>3, <2>2, <3>1, BeginOthers
  <2>. QED  BY <2>1, <2>2, ProbingSame
<1>4. ASSUME Crashed PROVE Probes'
  <2> SUFFICES ASSUME NEW s \in Servers, s \notin torn' PROVE Probing(s)'
    BY DEF Probes
  <2>1. /\ s \notin torn /\ gw' = gw
        /\ \A q \in InFlight : Server(q) = s => req[q].op = "delete"
    BY <1>4 DEF Crashed
  <2>2. Probing(s)
    BY <2>1 DEF Probes
  <2>. QED  BY <2>1, <2>2, ProbingSame
<1>5. ASSUME NEW t \in Servers, Reschedule(t) \/ Deactivate(t) \/ Lease(t) PROVE Probes'
  <2>1. req' = req /\ torn' = torn /\ gw'.probe = gw.probe
    BY <1>5 DEF Reschedule, Deactivate, Lease, history, Typed, Data
  <2>. QED  BY <2>1 DEF Probes, Probing, Testing, InFlight, Server, Now
<1>6. ASSUME UNCHANGED vars PROVE Probes'
  BY <1>6 DEF vars, history, Probes, Probing, Testing, InFlight, Server, Now
<1>. QED  BY <1>1, <1>2, <1>3, <1>4, <1>5, <1>6 DEF Step

LEMMA AlwaysProbes == Spec => []Probes
<1>1. Init => Probes
  <2>1. Init => \A s \in Servers : gw.probe[s] = NoProbe
    BY DEF Init, Empty, Founded, PerServer
  <2>. QED  BY <2>1 DEF Probes, Probing, NoProbe
<1>2. Typed /\ Probes /\ [Next]_vars => Probes'
  BY StepKeepsProbes
<1>. QED  BY <1>1, <1>2, AlwaysTyped, PTL DEF Spec

\* However tests overlap with each other and with everything else, and wherever
\* they fail, they leave no virtual server, decoy or token of theirs, unless a
\* call of the clean-up failed or the reply to a creation was lost. (TestServer)
THEOREM ProbesAreThrownAway == Spec => []ProbesLeaveNothing
<1>1. Typed /\ Probes => ProbesLeaveNothing
  <2> SUFFICES ASSUME Typed, Probes, NEW s \in Servers, Quiet(s), s \notin torn
               PROVE  gw.probe[s] = NoProbe
    BY DEF ProbesLeaveNothing
  <2>1. Probing(s) /\ gw.probe[s] \in [test : Requests \cup {None},
                                       decoy : Requests \cup {None},
                                       tokens : SUBSET Requests]
    BY DEF Probes, Typed, Data
  <2>2. \A q \in Requests : \A steps : ~Testing(q, s, steps)
    BY DEF Testing, Quiet, On, Server
  <2>3. gw.probe[s].test = None /\ gw.probe[s].decoy = None /\ gw.probe[s].tokens = {}
    BY <2>1, <2>2 DEF Probing
  <2>. QED  BY <2>1, <2>3 DEF NoProbe
<1>. QED  BY <1>1, AlwaysProbes, AlwaysTyped, PTL

--------------------------------------------------------------------------------
(* The engines and their owners.                                           *)

\* Requests that were not disturbed by a step worked on the row they had read
\* and alone.
LEMMA Undisturbed ==
  ASSUME NEW r \in InFlight, raced' = raced \cup Disturbed(r)
  PROVE  /\ \A q \in Clashing(r) : Server(q) \in raced'
                                   /\ (Mount(q) \in Mounts => Mount(q) \in raced')
         /\ Clashing(r) # {} \/ row[Server(r)] # req[r].seen =>
              Server(r) \in raced' /\ (Mount(r) \in Mounts => Mount(r) \in raced')
BY DEF Disturbed, Touches

LEMMA AtNow ==
  ASSUME Typed, NEW r \in InFlight, NEW step
  PROVE  At(r, step) <=> Now(r) = step
BY AtWork DEF Typed, At

LEMMA RowChanges ==
  ASSUME Typed, NEW r \in InFlight, Acting(r) \/ Failing(r)
  PROVE  /\ \A t \in Servers \ {Server(r)} : row'[t] = row[t]
         /\ \/ row' = row
            \/ Now(r) = "save" /\ row'[Server(r)] = req[r].row
               /\ req[r].op \in {"deploy", "update", "test"}
            \/ Now(r) = "unrow" /\ row'[Server(r)] = NoRow /\ req[r].op = "delete"
<1>1. /\ Now(r) = "save" => req[r].op \in {"deploy", "update", "test"}
      /\ Now(r) = "unrow" => req[r].op = "delete"
      /\ Server(r) \in Servers
  BY AtWork DEF Typed, StepsOf, Working, Wiring, Deprovisioning, Server
<1>2. CASE Failing(r)
  BY <1>2 DEF Failing
<1>3. CASE Acting(r)
  BY <1>1, <1>3 DEF Acting, Effect, RowAfter, Typed, Data
<1>. QED  BY <1>2, <1>3

\* Who stores a row in which an undisturbed engine is named, owns the engine.
LEMMA SavesItsOwn ==
  ASSUME Typed, Owned, NEW r \in InFlight, Acting(r) \/ Failing(r), Now(r) = "save",
         Mount(r) \in Mounts, Mount(r) \notin raced'
  PROVE  /\ req[r].op # "deploy" => row[Server(r)].cred = Mount(r)
         /\ \A t \in Servers \ {Server(r)} : row[t].cred # Mount(r)
<1>1. raced' = raced \cup Disturbed(r)
  BY Itself
<1>2. row[Server(r)] = req[r].seen /\ Mount(r) \notin raced
  BY <1>1, Undisturbed
<1>3. /\ req[r].op \in {"deploy", "update", "test"}
      /\ req[r].op # "deploy" => req[r].seen.cred = Mount(r)
      /\ Server(r) \in Servers
  <2>1. /\ req[r].op \in Working /\ Now(r) \in StepsOf(req[r].op) /\ req[r].s \in Servers
        /\ Fits(req[r], Now(r))
    BY AtWork DEF Typed
  <2>2. req[r].op \in {"deploy", "update", "test"}
    BY <2>1 DEF StepsOf, Working, Wiring, Deprovisioning
  <2>. QED  BY <2>1, <2>2 DEF Fits, Mount, Server
<1>4. CASE req[r].op = "deploy"
  BY <1>2, <1>4 DEF Owned, Claims, Calm, Making
<1>5. CASE req[r].op # "deploy"
  BY <1>2, <1>3, <1>5 DEF Owned, MountsHaveOneOwner
<1>. QED  BY <1>4, <1>5

LEMMA CallKeepsOwner ==
  ASSUME Typed, Owned, NEW r \in InFlight, Acting(r) \/ Failing(r)
  PROVE  MountsHaveOneOwner'
<1> SUFFICES ASSUME NEW s \in Servers, NEW t \in Servers, s # t,
                    row'[s].cred \in Mounts, row'[s].cred = row'[t].cred,
                    row'[s].cred \notin raced'
             PROVE  FALSE
  BY DEF MountsHaveOneOwner
<1>1. raced \subseteq raced' /\ None \notin Mounts
  BY Itself, ServersAssumption
<1>2. row' # row
  BY <1>1 DEF Owned, MountsHaveOneOwner
<1>3. /\ Now(r) = "save" /\ row'[Server(r)] = req[r].row
      /\ \A u \in Servers \ {Server(r)} : row'[u] = row[u]
      \/ row'[Server(r)] = NoRow
  BY <1>2, RowChanges
<1>4. CASE row'[Server(r)] = NoRow
  <2>1. s # Server(r) /\ t # Server(r)
    BY <1>1, <1>4 DEF NoRow
  <2>2. row'[s] = row[s] /\ row'[t] = row[t]
    BY <2>1, RowChanges
  <2>. QED  BY <1>1, <2>2 DEF Owned, MountsHaveOneOwner
<1>5. CASE Now(r) = "save" /\ row'[Server(r)] = req[r].row
  <2>1. \A u \in Servers \ {Server(r)} : row'[u] = row[u]
    BY RowChanges
  <2>2. CASE Server(r) \in {s, t}
    <3>1. Mount(r) = row'[s].cred
      BY <1>5, <2>2 DEF Mount
    <3>2. \A u \in Servers \ {Server(r)} : row[u].cred # Mount(r)
      BY <1>5, <3>1, SavesItsOwn
    <3>. QED  BY <2>1, <2>2, <3>1, <3>2
  <2>3. CASE Server(r) \notin {s, t}
    BY <1>1, <2>1, <2>3 DEF Owned, MountsHaveOneOwner
  <2>. QED  BY <2>2, <2>3
<1>. QED  BY <1>3, <1>4, <1>5

\* The claims of the other deployments.
LEMMA CallKeepsClaims ==
  ASSUME Typed, Owned, NEW r \in InFlight, Acting(r) \/ Failing(r),
         NEW q \in InFlight, q # r
  PROVE  Claims(q)'
<1>1. q \in Requests \ {r} /\ None \notin Mounts
  BY ServersAssumption DEF InFlight
<1>2. /\ req'[q] = req[q] /\ Now(q)' = Now(q)
      /\ Mount(q)' = Mount(q) /\ Server(q)' = Server(q)
  BY <1>1, OthersStay
<1>3. raced' = raced \cup Disturbed(r) /\ torn \subseteq torn'
  BY Itself
<1> SUFFICES ASSUME req[q].op = "deploy", Mount(q) \in Mounts, Mount(q) \notin raced',
                    Now(q) \in Making \cup Undoing,
                    NEW s \in Servers, row'[s].cred = Mount(q),
                    ~(s = Server(q) /\ s \in torn' /\ Now(q) \in Undoing)
             PROVE  FALSE
  BY <1>2 DEF Claims, Calm
<1>4. /\ \A t \in Servers : row[t].cred = Mount(q) =>
           t = Server(q) /\ t \in torn /\ Now(q) \in Undoing
      /\ row[s].cred # Mount(q)
  BY <1>3 DEF Owned, Claims, Calm
<1>5. s = Server(r) /\ Now(r) = "save" /\ row'[s] = req[r].row
  BY <1>1, <1>4, RowChanges DEF NoRow
<1>6. Mount(r) = Mount(q)
  BY <1>5 DEF Mount
<1>7. req[r].op = "deploy"
  BY <1>4, <1>5, <1>6, SavesItsOwn
<1>8. q \in Clashing(r)
  <2>1. Now(q) # "collide" /\ Now(r) # "collide"
    BY <1>5 DEF Making, Undoing, Deprovisioning
  <2>. QED  BY <1>6, <1>7, <2>1, AtNow DEF Clashing, Deploying
<1>. QED  BY <1>3, <1>8, Undisturbed

\* The claim of the deployment itself.
LEMMA CallKeepsItsClaim ==
  ASSUME Typed, Owned, NEW r \in InFlight, Acting(r) \/ Failing(r), r \in InFlight'
  PROVE  Claims(r)'
<1>1. /\ req'[r].op = req[r].op /\ Server(r)' = Server(r)
      /\ Now(r) # "read" => Mount(r)' = Mount(r)
      /\ raced \subseteq raced' /\ torn \subseteq torn'
      /\ Now(r)' \in NextsOf(r) \cup Recovery(req[r], Now(r))
  BY Itself
<1> SUFFICES ASSUME req[r].op = "deploy", Calm(r)', Now(r)' \in Making \cup Undoing,
                    NEW s \in Servers, row'[s].cred = Mount(r)'
             PROVE  s = Server(r) /\ s \in torn' /\ Now(r)' \in Undoing
  BY <1>1 DEF Claims
<1>2. Now(r) \in StepsOf("deploy")
  BY AtWork DEF Typed
<1>3. Now(r) \in {"collide"} \cup (Making \ {"save"}) \cup Undoing
      \/ (Now(r) = "save" /\ Now(r)' = "purge")
  BY <1>1, <1>2 DEF StepsOf, NextsOf, Recovery, Follows, Shared, Making, Undoing,
                    Deprovisioning, Wiring
<1>4. Now(r) # "read" /\ Mount(r)' = Mount(r) /\ Calm(r)
  BY <1>1, <1>3 DEF Making, Undoing, Deprovisioning, Calm
<1>5. CASE Now(r) = "collide"
  <2>1. Acting(r)
    BY <1>1, <1>5 DEF Failing, Broke, Moved, Recovery, Making, Undoing, Deprovisioning
  <2>2. ~Collides(r) /\ row' = row
    BY <1>5, <2>1 DEF Acting, Effect, Allowed, RowAfter
  <2>3. Mount(r) \in Mounts \ raced' /\ raced' = raced \cup Disturbed(r)
    BY <1>4, Itself DEF Calm
  <2>4. ~Respelt(r)
    BY <2>3 DEF Disturbed
  <2>. QED  BY <1>4, <1>5, <2>2, <2>4, AtNow DEF Respelt, Claimed
<1>6. CASE Now(r) \in (Making \ {"save"}) \cup Undoing
  <2>1. row' = row
    BY <1>6, RowChanges DEF Making, Undoing, Deprovisioning
  <2>2. s = Server(r) /\ s \in torn /\ Now(r) \in Undoing
    BY <1>4, <1>6, <2>1 DEF Owned, Claims
  <2>3. Now(r) \in Undoing => Now(r)' \in Undoing
    BY <1>1 DEF NextsOf, Recovery, Follows, Shared, Making, Undoing, Deprovisioning,
                Teardown, Ends
  <2>. QED  BY <1>1, <2>2, <2>3
<1>7. CASE Now(r) = "save" /\ Now(r)' = "purge"
  <2>1. row[s].cred # Mount(r)
    BY <1>4, <1>7 DEF Owned, Claims, Making, Undoing, Deprovisioning
  <2>2. row' # row /\ s = Server(r)
    BY <1>4, <2>1, RowChanges
  <2>3. Acting(r)
    BY <2>2 DEF Failing
  <2>4. Now(r)' \notin NextsOf(r)
    BY <1>7 DEF NextsOf, Follows
  <2>5. Broke(r, TRUE)
    BY <2>3, <2>4 DEF Acting, Outcome, Went, Moved
  <2>6. Unrepaired(r, Now(r), TRUE)
    BY <1>7 DEF Unrepaired
  <2>. QED  BY <1>7, <2>2, <2>5, <2>6 DEF Broke, Undoing
<1>. QED  BY <1>3, <1>5, <1>6, <1>7

\* A delete's row and job stay as they are, but for its own doing.
LEMMA CallKeepsDeletes ==
  ASSUME Typed, Owned, NEW r \in InFlight, Acting(r) \/ Failing(r),
         NEW q \in InFlight, q # r
  PROVE  Deletes(q)'
<1>1. q \in Requests \ {r} /\ Server(q) \in Servers /\ Server(r) \in Servers
  BY AtWork DEF InFlight, Typed, Server
<1>2. /\ req'[q] = req[q] /\ Now(q)' = Now(q)
      /\ Mount(q)' = Mount(q) /\ Server(q)' = Server(q)
  BY <1>1, OthersStay
<1>3. raced' = raced \cup Disturbed(r) /\ torn \subseteq torn'
  BY Itself
<1> SUFFICES ASSUME req[q].op = "delete", Mount(q) \in Mounts, Mount(q) \notin raced'
             PROVE  /\ row'[Server(q)] = req[q].seen
                    /\ Now(q) = "purge" \/ Server(q) \in torn' \/ job'[Server(q)] = NoJob
  BY <1>2 DEF Deletes, Calm
<1>4. q \notin Clashing(r)
  BY <1>3, Undisturbed
<1>5. Server(q) # Server(r)
  BY <1>4 DEF Clashing
<1>6. row'[Server(q)] = row[Server(q)]
  BY <1>1, <1>5, RowChanges
<1>7. job'[Server(q)] = job[Server(q)]
  BY <1>1, <1>5 DEF Acting, Failing, Effect, JobAfter, Typed, Data
<1>. QED  BY <1>3, <1>6, <1>7 DEF Owned, Deletes, Calm

LEMMA CallKeepsItsDelete ==
  ASSUME Typed, Owned, NEW r \in InFlight, Acting(r) \/ Failing(r), r \in InFlight'
  PROVE  Deletes(r)'
<1>1. /\ req'[r].op = req[r].op /\ Server(r)' = Server(r)
      /\ Now(r) # "read" => Mount(r)' = Mount(r)
      /\ Now(r) \notin {"read", "save"} => req'[r].seen = req[r].seen
      /\ raced \subseteq raced' /\ torn \subseteq torn'
      /\ Now(r)' \in NextsOf(r) \cup Recovery(req[r], Now(r)) /\ Now(r)' # "over"
  BY Itself
<1> SUFFICES ASSUME req[r].op = "delete", Calm(r)'
             PROVE  /\ row'[Server(r)] = req'[r].seen
                    /\ Server(r) \in torn' \/ job'[Server(r)] = NoJob
  BY <1>1 DEF Deletes
<1>2. Now(r) \in StepsOf("delete") /\ Server(r) \in Servers
  BY AtWork DEF Typed, Server
<1>3. Now(r) \notin {"read", "save", "register"}
  BY <1>2 DEF StepsOf, Deprovisioning
<1>4. Now(r) # "unrow"
  BY <1>1 DEF NextsOf, Recovery, Follows, Shared
<1>5. row' = row /\ req'[r].seen = req[r].seen /\ Calm(r)
  BY <1>1, <1>3, <1>4, RowChanges DEF Calm
<1>6. row[Server(r)] = req[r].seen
      /\ (Now(r) = "purge" \/ Server(r) \in torn \/ job[Server(r)] = NoJob)
  BY <1>5 DEF Owned, Deletes
<1>7. CASE Now(r) # "purge"
  <2>1. job' = job
    BY <1>3, <1>7 DEF Acting, Failing, Effect, JobAfter
  <2>. QED  BY <1>1, <1>5, <1>6, <1>7, <2>1
<1>8. CASE Now(r) = "purge"
  <2>1. CASE Acting(r)
    <3>1. job'[Server(r)] = NoJob
      BY <1>2, <1>8, <2>1 DEF Acting, Effect, JobAfter, Typed, Data
    <3>. QED  BY <1>5, <1>6, <3>1
  <2>2. CASE Failing(r)
    <3>1. Server(r) \in torn'
      BY <1>8, <2>2 DEF Failing, Broke, Unrepaired
    <3>. QED  BY <1>5, <1>6, <3>1
  <2>. QED  BY <2>1, <2>2
<1>. QED  BY <1>7, <1>8

\* Calls only take leases away.
LEMMA LeasesShrink ==
  ASSUME NEW r \in InFlight, Acting(r) \/ Failing(r)
  PROVE  vault'.leases \subseteq vault.leases
<1>1. Failing(r) => vault' = vault
  BY DEF Failing
<1>2. Acting(r) => vault'.leases = LeasesAfter(r)
  BY DEF Acting, Effect
<1>. QED  BY <1>1, <1>2 DEF LeasesAfter

LEMMA CallKeepsRevoked ==
  ASSUME Typed, Owned, NEW r \in InFlight, Acting(r) \/ Failing(r),
         NEW q \in InFlight, q # r
  PROVE  Revoked(q)'
<1>1. q \in Requests \ {r}
  BY DEF InFlight
<1>2. /\ Now(q)' = Now(q) /\ Mount(q)' = Mount(q) /\ Server(q)' = Server(q)
      /\ raced \subseteq raced' /\ torn \subseteq torn'
      /\ vault'.leases \subseteq vault.leases
  BY <1>1, OthersStay, Itself, LeasesShrink
<1>. QED  BY <1>2 DEF Owned, Revoked, Calm

LEMMA CallKeepsItsRevoked ==
  ASSUME Typed, Owned, NEW r \in InFlight, Acting(r) \/ Failing(r), r \in InFlight'
  PROVE  Revoked(r)'
<1>1. /\ Server(r)' = Server(r)
      /\ Now(r) # "read" => Mount(r)' = Mount(r)
      /\ raced \subseteq raced' /\ torn \subseteq torn'
      /\ Now(r)' \in NextsOf(r) \cup Recovery(req[r], Now(r))
      /\ vault'.leases \subseteq vault.leases
  BY Itself, LeasesShrink
<1>2. /\ req[r].op \in Working /\ Now(r) \in StepsOf(req[r].op)
      /\ req[r].op # "addons" => req[r].row.cred \in Credentials
  BY AtWork DEF Typed
<1> SUFFICES ASSUME Calm(r)', Server(r) \notin torn',
                    Now(r)' \in {"unpolicy", "unrole", "unmount"}
             PROVE  Mount(r)' \notin vault'.leases
  BY <1>1 DEF Revoked
<1>3. Now(r) # "read"
  <2>1. Now(r) = "read" => NextsOf(r) = {"wirepeer"}
    BY <1>2 DEF NextsOf, Follows, Shared, StepsOf, Working
  <2>2. Now(r) = "read" => Recovery(req[r], Now(r)) = {"over"}
    BY <1>2 DEF Recovery, StepsOf, Working, Deprovisioning
  <2>. QED  BY <1>1, <2>1, <2>2
<1>4. Mount(r)' = Mount(r) /\ Calm(r) /\ req[r].row.cred \in Mounts
  BY <1>1, <1>3 DEF Calm, Mount
<1>5. Now(r) \in {"revoke", "unpolicy", "unrole"} /\ req[r].op \in {"deploy", "delete"}
  <2>1. Now(r)' \in Recovery(req[r], Now(r)) \cup Follows(req[r], Now(r))
    <3>1. Now(r) # "referenced"
      BY <1>1, <1>2 DEF NextsOf, Recovery, Follows, Shared, StepsOf, Working,
                        Deprovisioning
    <3>. QED  BY <1>1, <3>1 DEF NextsOf
  <2>2. CASE req[r].op = "deploy"
    BY <1>2, <1>4, <2>1, <2>2 DEF Recovery, Follows, Shared, Teardown, Ends, StepsOf,
                             Deprovisioning, Wiring
  <2>3. CASE req[r].op = "delete"
    BY <1>2, <1>4, <2>1, <2>3 DEF Recovery, Follows, Shared, Teardown, Ends, StepsOf,
                             Deprovisioning, Wiring
  <2>4. CASE req[r].op \in {"update", "test", "addons"}
    BY <1>2, <1>4, <2>1, <2>4 DEF Recovery, Follows, Shared, StepsOf,
                             Deprovisioning, Wiring
  <2>. QED  BY <1>2, <2>2, <2>3, <2>4 DEF Working
<1>6. CASE Now(r) = "revoke"
  <2>1. CASE Acting(r)
    BY <1>4, <1>6, <2>1 DEF Acting, Effect, LeasesAfter
  <2>2. CASE Failing(r)
    BY <1>5, <1>6, <2>2 DEF Failing, Broke, Unrepaired, Deprovisioning
  <2>. QED  BY <2>1, <2>2
<1>7. CASE Now(r) \in {"unpolicy", "unrole"}
  BY <1>1, <1>4, <1>7 DEF Owned, Revoked
<1>. QED  BY <1>5, <1>6, <1>7

LEMMA BeginKeepsOwned ==
  ASSUME Typed, Owned, NEW r \in Requests, NEW s \in Servers, Begun(r, s)
  PROVE  Owned'
<1>1. /\ r \notin InFlight /\ UNCHANGED <<row, raced, torn, job, vault>>
  BY BeginEffect
<1>2. MountsHaveOneOwner'
  BY <1>1 DEF Owned, MountsHaveOneOwner
<1>3. ASSUME NEW q \in InFlight', q # r PROVE (Claims(q) /\ Deletes(q) /\ Revoked(q))'
  <2>1. q \in Requests \ {r}
    BY <1>3 DEF InFlight
  <2>2. /\ q \in InFlight /\ req'[q] = req[q] /\ Now(q)' = Now(q)
        /\ Mount(q)' = Mount(q) /\ Server(q)' = Server(q)
    BY <2>1, <1>3, BeginOthers
  <2>. QED  BY <1>1, <2>2 DEF Owned, Claims, Deletes, Revoked, Calm
<1>4. (Claims(r) /\ Deletes(r) /\ Revoked(r))'
  <2>1. \/ \E c \in Credentials : /\ req'[r].op = "deploy" /\ Now(r)' = Starts(c)
                                  /\ Mount(r)' = c
        \/ req'[r].op = "update" /\ Now(r)' \in {"grants", "save", "register"}
        \/ req'[r].op = "test" /\ Now(r)' = "place"
        \/ req'[r].op = "delete" /\ Now(r)' = "purge" /\ Server(r)' = s
           /\ req'[r].seen = row[s]
        \/ req'[r].op = "addons" /\ Now(r)' = "read"
    BY DEF Begun, DeployBegan, UpdateBegan, TestBegan, DeleteBegan, AddonsBegan, Began,
           Mount, Server, NoRow
  <2>2. CASE \E c \in Credentials : /\ req'[r].op = "deploy" /\ Now(r)' = Starts(c)
                                    /\ Mount(r)' = c
    BY <2>2 DEF Starts, Claims, Deletes, Revoked, Calm, Making, Undoing, Deprovisioning
  <2>3. CASE req'[r].op = "delete" /\ Now(r)' = "purge" /\ Server(r)' = s
             /\ req'[r].seen = row[s]
    BY <1>1, <2>3 DEF Claims, Deletes, Revoked
  <2>. QED  BY <2>1, <2>2, <2>3 DEF Claims, Deletes, Revoked
<1>. QED  BY <1>2, <1>3, <1>4 DEF Owned

\* A server that takes credentials does not do so from an engine on its way down.
LEMMA LeaseKeepsOwned ==
  ASSUME Typed, Owned, NEW s \in Servers, Lease(s)
  PROVE  Owned'
<1>1. /\ UNCHANGED <<row, job, req, raced, torn>> /\ job[s] # NoJob
      /\ vault'.leases = vault.leases \cup {row[s].cred}
  BY DEF Lease, history, Typed, Data
<1>2. InFlight' = InFlight
      /\ \A q \in InFlight : Now(q)' = Now(q) /\ Mount(q)' = Mount(q)
                             /\ Server(q)' = Server(q) /\ req'[q] = req[q]
  BY <1>1 DEF InFlight, Now, Mount, Server
<1>3. ASSUME NEW q \in InFlight, Calm(q), Server(q) \notin torn,
             Now(q) \in {"unpolicy", "unrole", "unmount"}
      PROVE  row[s].cred # Mount(q)
  <2>1. req[q].op \in Working /\ Now(q) \in StepsOf(req[q].op) /\ Fits(req[q], Now(q))
    BY AtWork DEF Typed
  <2>2. req[q].op \in {"deploy", "delete"}
    BY <1>3, <2>1 DEF Working, StepsOf, Wiring
  <2>3. CASE req[q].op = "deploy"
    BY <1>3, <2>3 DEF Owned, Claims, Undoing, Deprovisioning
  <2>4. CASE req[q].op = "delete"
    <3>1. row[Server(q)] = req[q].seen /\ job[Server(q)] = NoJob
      BY <1>3, <2>4 DEF Owned, Deletes
    <3>2. row[Server(q)].cred = Mount(q) /\ s # Server(q)
      BY <1>1, <2>1, <2>4, <3>1 DEF Fits, Mount
    <3>3. Server(q) \in Servers
      BY AtWork DEF Typed, Server
    <3>. QED  BY <1>3, <3>2, <3>3 DEF Owned, MountsHaveOneOwner, Calm
  <2>. QED  BY <2>2, <2>3, <2>4
<1>4. MountsHaveOneOwner'
  BY <1>1 DEF Owned, MountsHaveOneOwner
<1>5. ASSUME NEW q \in InFlight PROVE (Claims(q) /\ Deletes(q) /\ Revoked(q))'
  BY <1>1, <1>2, <1>3, <1>5 DEF Owned, Claims, Deletes, Revoked, Calm
<1>. QED  BY <1>2, <1>4, <1>5 DEF Owned

LEMMA StepKeepsOwned ==
  ASSUME Typed, Owned, [Next]_vars
  PROVE  Owned'
<1>1. Step
  BY StepKeepsControl
<1>2. ASSUME NEW r \in InFlight, Acting(r) \/ Failing(r) PROVE Owned'
  <2>1. ASSUME NEW q \in InFlight' PROVE (Claims(q) /\ Deletes(q) /\ Revoked(q))'
    <3>1. CASE q = r
      BY <1>2, <3>1, <2>1, CallKeepsItsClaim, CallKeepsItsDelete, CallKeepsItsRevoked
    <3>2. CASE q # r
      <4>1. q \in InFlight
        BY <1>2, <3>2, OthersStay DEF InFlight
      <4>. QED  BY <1>2, <3>2, <4>1, CallKeepsClaims, CallKeepsDeletes, CallKeepsRevoked
    <3>. QED  BY <3>1, <3>2
  <2>. QED  BY <1>2, <2>1, CallKeepsOwner DEF Owned
<1>3. ASSUME NEW r \in Requests, NEW s \in Servers, Begun(r, s) PROVE Owned'
  BY <1>3, BeginKeepsOwned
<1>4. ASSUME Crashed PROVE Owned'
  <2>1. InFlight' = {}
    BY <1>4, NoRowTypes DEF Crashed, InFlight, Over
  <2>. QED  BY <1>4, <2>1 DEF Crashed, Owned, MountsHaveOneOwner
<1>5. ASSUME NEW s \in Servers, Reschedule(s) \/ Deactivate(s) PROVE Owned'
  <2>1. /\ UNCHANGED <<row, req, vault, raced, torn>>
        /\ \A t \in Servers : job[t] = NoJob => job'[t] = NoJob
    BY <1>5 DEF Reschedule, Deactivate, history, Typed, Data
  <2>2. \A q \in InFlight : Server(q) \in Servers
    BY AtWork DEF Typed, Server
  <2>. QED  BY <2>1, <2>2 DEF Owned, MountsHaveOneOwner, InFlight, Claims, Deletes,
                              Revoked, Calm, Now, Mount, Server
<1>6. ASSUME NEW s \in Servers, Lease(s) PROVE Owned'
  BY <1>6, LeaseKeepsOwned
<1>7. ASSUME UNCHANGED vars PROVE Owned'
  BY <1>7 DEF vars, history, Owned, MountsHaveOneOwner, InFlight, Claims, Deletes,
              Revoked, Calm, Now, Mount, Server
<1>. QED  BY <1>1, <1>2, <1>3, <1>4, <1>5, <1>6, <1>7 DEF Step

LEMMA AlwaysOwned == Spec => []Owned
<1>1. Init => Owned
  <2> SUFFICES ASSUME Init PROVE Owned
    OBVIOUS
  <2>1. InFlight = {}
    BY DEF Init, InFlight, Over, Idle
  <2>2. MountsHaveOneOwner
    <3>1. \E t : \A s \in Servers \ {t} : row[s] = NoRow
      <4>1. Empty => \A s \in Servers : row[s] = NoRow
        BY DEF Empty, PerServer
      <4>2. \A t, c, d, stage :
              Founded(t, c, d, stage) => \A s \in Servers \ {t} : row[s] = NoRow
        BY DEF Founded, PerServer
      <4>. QED  BY <4>1, <4>2 DEF Init
    <3>. QED  BY <3>1, ServersAssumption DEF MountsHaveOneOwner, NoRow
  <2>. QED  BY <2>1, <2>2 DEF Owned
<1>2. Typed /\ Owned /\ [Next]_vars => Owned'
  BY StepKeepsOwned
<1>. QED  BY <1>1, <1>2, AlwaysTyped, PTL DEF Spec

\* An engine that no two requests and no two rows share is unmounted only when no
\* lease of it lives, unless a call of the server's has failed that nothing
\* repairs, the purge or the revocation itself: the job that takes credentials
\* is purged first, so what is revoked stays revoked. (Deprovision, DeleteServer)
THEOREM RevokedBeforeUnmounted == Spec => UnmountsAfterRevoke
<1>1. ASSUME Typed, Owned, [Next]_vars, NEW r \in Requests, At(r, "unmount"),
             vault'.engine # vault.engine
      PROVE  Mount(r) \notin vault.leases \/ Mount(r) \in raced \/ Server(r) \in torn
  <2>1. Now(r) = "unmount"
    BY <1>1 DEF At, Now, Lead
  <2>2. r \in InFlight
    BY <1>1, <2>1, Idleness DEF Typed
  <2>3. Revoked(r)
    BY <1>1, <2>2 DEF Owned
  <2>4. vault.leases \subseteq Mounts
    BY <1>1 DEF Typed, Data
  <2>. QED  BY <2>1, <2>3, <2>4 DEF Revoked, Calm
<1>2. Typed /\ Owned /\ [Next]_vars =>
        [\A r \in Requests : At(r, "unmount") /\ vault'.engine # vault.engine
           => Mount(r) \notin vault.leases \/ Mount(r) \in raced \/ Server(r) \in torn]_vars
  BY <1>1
<1>. QED  BY <1>2, AlwaysTyped, AlwaysOwned, PTL DEF Spec, UnmountsAfterRevoke

--------------------------------------------------------------------------------
(* The rows and what they promise.                                         *)

\* What the requests know of the row they began with, they go on knowing.
LEMMA CallKeepsMarked ==
  ASSUME Typed, Serving, NEW r \in InFlight, Acting(r) \/ Failing(r),
         NEW q \in InFlight, q # r
  PROVE  Marked(q)'
<1>1. q \in Requests \ {r}
  BY DEF InFlight
<1>2. /\ req'[q] = req[q] /\ Now(q)' = Now(q)
      /\ Mount(q)' = Mount(q) /\ Server(q)' = Server(q)
      /\ raced' = raced \cup Disturbed(r)
  BY <1>1, OthersStay, Itself
<1>3. Marked(q)
  BY DEF Serving
<1>4. ASSUME req[q].op = "delete" PROVE Server(q) \in doomed' \cup raced'
  <2>1. CASE Server(q) = Server(r)
    <3>1. q \in Clashing(r)
      BY <1>4, <2>1 DEF Clashing
    <3>. QED  BY <1>2, <3>1, Undisturbed
  <2>2. CASE Server(q) # Server(r)
    <3>1. Server(q) \in doomed \cup raced
      BY <1>3, <1>4 DEF Marked
    <3>2. doomed \subseteq doomed' \cup {Server(r)}
      BY DEF Acting, Failing, Effect, DoomedAfter
    <3>. QED  BY <1>2, <2>2, <3>1, <3>2
  <2>. QED  BY <2>1, <2>2
<1>. QED  BY <1>2, <1>3, <1>4 DEF Marked

\* Where a deployment goes before its row is stored, or after it has failed.
LEMMA DeployGoes ==
  ASSUME Typed, NEW r \in InFlight, Acting(r) \/ Failing(r), req[r].op = "deploy",
         Now(r)' \in {"collide"} \cup Making \cup Undoing
  PROVE  /\ Now(r) \in {"collide"} \cup Making \cup Undoing
         /\ Now(r)' # "collide" /\ Now(r)' # "secret"
         /\ Now(r) = "save" => Now(r)' = "purge"
         /\ Now(r)' = "mount" => Now(r) = "collide"
         /\ Now(r)' = "configure" => Now(r) = "mount"
<1>1. Now(r)' \in NextsOf(r) \cup Recovery(req[r], Now(r)) /\ Now(r) \in StepsOf("deploy")
  BY Itself, AtWork DEF Typed
<1>2. CASE Now(r) \in Wiring
  BY <1>1, <1>2 DEF NextsOf, Recovery, Follows, Shared, Making, Undoing, Deprovisioning,
                    Wiring
<1>3. CASE Now(r) \in {"collide"} \cup Making \cup Undoing
  <2>1. CASE Now(r) \in {"collide"} \cup Making
    BY <1>1, <2>1 DEF NextsOf, Recovery, Follows, Shared, Making, Undoing, Deprovisioning,
                      Teardown, Ends
  <2>2. CASE Now(r) \in Undoing
    BY <1>1, <2>2 DEF NextsOf, Recovery, Follows, Shared, Making, Undoing, Deprovisioning,
                      Teardown, Ends
  <2>. QED  BY <1>3, <2>1, <2>2
<1>. QED  BY <1>1, <1>2, <1>3 DEF StepsOf, Making, Undoing

LEMMA CallKeepsItsMarks ==
  ASSUME Typed, Serving, NEW r \in InFlight, Acting(r) \/ Failing(r), r \in InFlight'
  PROVE  Marked(r)'
<1>1. /\ req'[r].op = req[r].op /\ Server(r)' = Server(r)
      /\ Now(r) # "read" => Mount(r)' = Mount(r) /\ req'[r].row.def = req[r].row.def
      /\ Now(r) \notin {"read", "save"} => req'[r].seen = req[r].seen
      /\ raced \subseteq raced' /\ Now(r)' # "over"
      /\ Now(r)' \in NextsOf(r) \cup Recovery(req[r], Now(r))
  BY Itself
<1>2. Marked(r) /\ Now(r) \in StepsOf(req[r].op) /\ req[r].op \in Working
  BY AtWork DEF Serving, Typed
<1>3. ASSUME req[r].op = "delete" PROVE Server(r) \in doomed' \cup raced'
  <2>1. Now(r) # "unrow"
    BY <1>1, <1>3 DEF NextsOf, Recovery, Follows, Shared
  <2>2. doomed' = doomed
    BY <2>1 DEF Acting, Failing, Effect, DoomedAfter
  <2>. QED  BY <1>1, <1>2, <1>3, <2>2 DEF Marked
<1>4. ASSUME req[r].op = "test" PROVE req'[r].row.def = req'[r].seen.def
  <2>1. Now(r) # "read"
    BY <1>2, <1>4 DEF StepsOf
  <2>2. CASE Now(r) # "save"
    BY <1>1, <1>2, <1>4, <2>1, <2>2 DEF Marked
  <2>3. CASE Now(r) = "save"
    <3>1. \/ Moved(r, NewOf(r), NextsOf(r)) \/ Moved(r, Forgotten(r), Recovery(req[r], Now(r)))
      BY DEF Acting, Failing, Outcome, Went, Broke
    <3>2. \/ req'[r].row = NewOf(r).row /\ req'[r].seen = NewOf(r).seen
          \/ req'[r].row = Forgotten(r).row /\ req'[r].seen = Forgotten(r).seen
      BY <1>1, <3>1 DEF Moved
    <3>. QED  BY <1>2, <1>4, <2>3, <3>2, NewKeeps, ForgottenKeeps DEF Marked
  <2>. QED  BY <2>2, <2>3
<1>5. ASSUME req[r].op = "update",
             Now(r)' \in {"register", "place", "peer", "repoint", "activate", "unpeer"}
      PROVE  req'[r].seen.def # req'[r].row.def
  <2>1. /\ Now(r) \in {"grants", "register", "place", "peer", "repoint", "activate", "unpeer"}
        /\ Now(r) = "grants" => req[r].seen.def # req[r].row.def
    BY <1>1, <1>2, <1>5 DEF StepsOf, Wiring, NextsOf, Recovery, Follows, Shared
  <2>. QED  BY <1>1, <1>2, <1>5, <2>1 DEF Marked
<1>6. ASSUME req[r].op = "deploy", Now(r)' \in {"collide"} \cup Making \cup Undoing
      PROVE  /\ req'[r].seen = NoRow
             /\ Now(r)' \in {"collide", "mount", "configure"} => Mount(r)' \in Mounts
             /\ Now(r)' # "secret"
  <2>1. /\ Now(r) \in {"collide"} \cup Making \cup Undoing
        /\ Now(r)' # "collide" /\ Now(r)' # "secret"
        /\ Now(r) = "save" => Now(r)' = "purge"
        /\ Now(r)' = "mount" => Now(r) = "collide"
        /\ Now(r)' = "configure" => Now(r) = "mount"
    BY <1>6, DeployGoes
  <2>2. Now(r) # "read"
    BY <2>1 DEF Making, Undoing, Deprovisioning
  <2>3. req'[r].seen = req[r].seen
    <3>1. CASE Now(r) = "save"
      <4>1. Now(r)' \notin NextsOf(r)
        BY <1>6, <2>1, <3>1 DEF NextsOf, Follows
      <4>2. Moved(r, Forgotten(r), Recovery(req[r], Now(r)))
        BY <4>1 DEF Acting, Failing, Outcome, Went, Broke, Moved
      <4>. QED  BY <1>1, <4>2, ForgottenKeeps DEF Moved
    <3>. QED  BY <1>1, <2>2, <3>1
  <2>. QED  BY <1>1, <1>2, <1>6, <2>1, <2>2, <2>3 DEF Marked
<1>. QED  BY <1>1, <1>3, <1>4, <1>5, <1>6 DEF Marked, Making

\* Nomad's job and the credentials of a server change at the hands of its own
\* requests only, and neither tests nor the wiring change them.
LEMMA ServerChanges ==
  ASSUME Typed, NEW r \in InFlight, Acting(r) \/ Failing(r), NEW s \in Servers
  PROVE  /\ job'[s] # job[s] => /\ Server(r) = s /\ Acting(r)
                                /\ Now(r) \in {"register", "purge"}
         /\ ~(vault.has[s] \subseteq vault'.has[s]) =>
              /\ Server(r) = s /\ Acting(r)
              /\ Now(r) \in {"unsecret", "unpolicy", "unrole"}
<1>1. CASE Failing(r)
  BY <1>1 DEF Failing
<1>2. CASE Acting(r)
  <2>1. job' = JobAfter(r) /\ vault'.has = HasAfter(r)
    BY <1>2 DEF Acting, Effect
  <2>2. Server(r) \in Servers
    BY AtWork DEF Typed, Server
  <2>. QED  BY <1>2, <2>1, <2>2 DEF JobAfter, HasAfter, Typed, Data
<1>. QED  BY <1>1, <1>2

LEMMA EngineChanges ==
  ASSUME Typed, NEW r \in InFlight, Acting(r) \/ Failing(r), NEW m \in Mounts,
         vault.engine[m] = "configured", vault'.engine[m] # "configured"
  PROVE  Acting(r) /\ Now(r) = "unmount" /\ Mount(r) = m
         /\ req[r].op \in {"deploy", "delete"}
<1>1. Acting(r)
  BY DEF Failing
<1>2. vault'.engine = EngineAfter(r) /\ vault.engine \in [Mounts -> {"absent", "mounted", "configured"}]
  BY <1>1 DEF Acting, Effect, Typed, Data
<1>3. Now(r) = "unmount" /\ Mount(r) = m
  BY <1>2 DEF EngineAfter
<1>4. req[r].op \in {"deploy", "delete"}
  BY <1>3, AtWork DEF Typed, Working, StepsOf, Wiring
<1>. QED  BY <1>1, <1>3, <1>4

\* Who takes down an undisturbed engine has it for itself.
LEMMA UnmountsItsOwn ==
  ASSUME Typed, Owned, NEW r \in InFlight, Acting(r) \/ Failing(r), NEW m \in Mounts,
         m \notin raced', vault.engine[m] = "configured", vault'.engine[m] # "configured"
  PROVE  /\ row' = row /\ Mount(r) = m /\ Now(r) = "unmount"
         /\ req[r].op \in {"deploy", "delete"}
         /\ \A s \in Servers \ {Server(r)} : row[s].cred # m
         /\ req[r].op = "delete" => row[Server(r)].cred = m
<1>1. Now(r) = "unmount" /\ Mount(r) = m /\ req[r].op \in {"deploy", "delete"}
  BY EngineChanges
<1>2. row' = row /\ Calm(r)
  BY <1>1, RowChanges, Itself DEF Calm
<1>3. CASE req[r].op = "deploy"
  BY <1>1, <1>2, <1>3 DEF Owned, Claims, Undoing, Deprovisioning
<1>4. CASE req[r].op = "delete"
  <2>1. row[Server(r)] = req[r].seen /\ Fits(req[r], Now(r)) /\ Server(r) \in Servers
    BY <1>2, <1>4, AtWork DEF Owned, Deletes, Typed, Server
  <2>2. row[Server(r)].cred = m
    BY <1>1, <1>4, <2>1 DEF Fits, Mount
  <2>. QED  BY <1>1, <1>2, <1>4, <2>1, <2>2 DEF Owned, MountsHaveOneOwner, Calm
<1>. QED  BY <1>1, <1>2, <1>3, <1>4

\* Requests that bring a server up or change it are alone with it, but for tests.
LEMMA AloneOrTest ==
  ASSUME Typed, NEW r \in InFlight, Acting(r) \/ Failing(r), NEW q \in InFlight, q # r,
         req[q].op # "test", Server(q) = Server(r), Server(q) \notin raced'
  PROVE  req[r].op = "test"
<1>1. raced' = raced \cup Disturbed(r)
  BY Itself
<1>. QED  BY <1>1, Undisturbed DEF Clashing

LEMMA TestChangesLittle ==
  ASSUME Typed, NEW r \in InFlight, Acting(r) \/ Failing(r), req[r].op = "test",
         NEW s \in Servers
  PROVE  job'[s] = job[s] /\ vault.has[s] \subseteq vault'.has[s]
<1>1. Now(r) \notin {"register", "purge", "unsecret", "unpolicy", "unrole"}
  BY AtWork DEF Typed, StepsOf
<1>. QED  BY <1>1, ServerChanges

LEMMA CallKeepsMade ==
  ASSUME Typed, Owned, Serving, NEW r \in InFlight, Acting(r) \/ Failing(r),
         NEW q \in InFlight, q # r
  PROVE  Made(q)'
<1>1. q \in Requests \ {r} /\ Server(q) \in Servers
  BY AtWork DEF InFlight, Typed, Server
<1>2. /\ req'[q] = req[q] /\ Now(q)' = Now(q)
      /\ Mount(q)' = Mount(q) /\ Server(q)' = Server(q)
      /\ raced' = raced \cup Disturbed(r) /\ torn \subseteq torn'
  BY <1>1, OthersStay, Itself
<1> SUFFICES ASSUME req[q].op = "deploy", Server(q) \notin raced' \cup torn',
                    Mount(q) \notin raced',
                    Now(q) \in {"policy", "role", "register", "place", "save"}
             PROVE  /\ Mount(q) \in Mounts /\ vault.engine[Mount(q)] = "configured"
                         => vault'.engine[Mount(q)] = "configured"
                    /\ vault.has[Server(q)] \subseteq vault'.has[Server(q)]
                    /\ job'[Server(q)] = job[Server(q)]
  <2>1. Made(q)
    BY DEF Serving
  <2>. QED  BY <1>2, <2>1 DEF Made
<1>3. vault.has[Server(q)] \subseteq vault'.has[Server(q)] /\ job'[Server(q)] = job[Server(q)]
  <2>1. CASE Server(r) = Server(q)
    BY <1>1, <2>1, AloneOrTest, TestChangesLittle
  <2>2. CASE Server(r) # Server(q)
    BY <1>1, <2>2, ServerChanges
  <2>. QED  BY <2>1, <2>2
<1>4. ASSUME Mount(q) \in Mounts, vault.engine[Mount(q)] = "configured",
             vault'.engine[Mount(q)] # "configured"
      PROVE  FALSE
  <2>1. /\ row' = row /\ Mount(r) = Mount(q) /\ Now(r) = "unmount"
        /\ req[r].op \in {"deploy", "delete"}
        /\ req[r].op = "delete" => row[Server(r)].cred = Mount(q)
    BY <1>4, UnmountsItsOwn
  <2>2. CASE req[r].op = "deploy"
    <3>1. q \in Clashing(r)
      BY <1>4, <2>1, <2>2, AtNow DEF Clashing, Deploying
    <3>. QED  BY <1>2, <1>4, <3>1, Undisturbed
  <2>3. CASE req[r].op = "delete"
    <3>1. Claims(q) /\ Calm(q)
      BY <1>2, <1>4 DEF Owned, Calm
    <3>2. Server(r) \in Servers /\ Now(q) \in Making
      BY AtWork DEF Typed, Server, Making
    <3>3. Now(q) \notin Undoing
      BY DEF Undoing, Deprovisioning
    <3>. QED  BY <2>1, <2>3, <3>1, <3>2, <3>3 DEF Claims
  <2>. QED  BY <2>1, <2>2, <2>3
<1>. QED  BY <1>3, <1>4

LEMMA CallKeepsUpdated ==
  ASSUME Typed, Serving, NEW r \in InFlight, Acting(r) \/ Failing(r),
         NEW q \in InFlight, q # r
  PROVE  Updated(q)'
<1>1. q \in Requests \ {r} /\ Server(q) \in Servers
  BY AtWork DEF InFlight, Typed, Server
<1>2. /\ req'[q] = req[q] /\ Now(q)' = Now(q) /\ Server(q)' = Server(q)
      /\ raced' = raced \cup Disturbed(r) /\ torn \subseteq torn'
  BY <1>1, OthersStay, Itself
<1>3. ASSUME req[q].op = "update", Server(q) \notin raced' PROVE job'[Server(q)] = job[Server(q)]
  <2>1. CASE Server(r) = Server(q)
    BY <1>1, <1>3, <2>1, AloneOrTest, TestChangesLittle
  <2>2. CASE Server(r) # Server(q)
    BY <1>1, <2>2, ServerChanges
  <2>. QED  BY <2>1, <2>2
<1>4. Updated(q)
  BY DEF Serving
<1>. QED  BY <1>2, <1>3, <1>4 DEF Updated

\* A deployment makes what its next step builds on.
LEMMA CallKeepsItsMade ==
  ASSUME Typed, Serving, NEW r \in InFlight, Acting(r) \/ Failing(r), r \in InFlight'
  PROVE  Made(r)'
<1> DEFINE s == Server(r)
           c == Mount(r)
           step == Now(r)
           next == Now(r)'
<1>1. /\ req'[r].op = req[r].op /\ Server(r)' = s
      /\ step # "read" => Mount(r)' = c /\ req'[r].row.def = req[r].row.def
      /\ raced \subseteq raced' /\ torn \subseteq torn'
      /\ next \in NextsOf(r) \cup Recovery(req[r], step)
  BY Itself
<1> SUFFICES ASSUME req[r].op = "deploy", s \notin raced' \cup torn', Mount(r)' \notin raced',
                    next \in {"policy", "role", "register", "place", "save"}
             PROVE  Made(r)'
  BY <1>1 DEF Made
<1>2. /\ step \in {"collide"} \cup Making \cup Undoing
      /\ step = "save" => next = "purge"
  BY DeployGoes DEF Making
<1>3. step # "read" /\ step # "save"
  BY <1>2 DEF Making, Undoing, Deprovisioning
<1>4. /\ \/ step \in {"configure", "secret"} /\ next = "policy"
         \/ step = "policy" /\ next = "role"
         \/ step = "role" /\ next = "register"
         \/ step = "register" /\ next = "place"
         \/ step = "place" /\ next = "save"
      /\ next \notin Recovery(req[r], step)
  <2>1. step \in {"collide"} \cup Making \cup Deprovisioning \cup {"purge"}
    BY <1>2 DEF Undoing
  <2>2. next \notin Recovery(req[r], step)
    BY <1>3, <2>1 DEF Recovery, Follows, Shared, Teardown, Ends, Making, Deprovisioning
  <2>3. next \in Follows(req[r], step)
    BY <1>1, <1>2, <2>2 DEF NextsOf, Making, Undoing, Deprovisioning
  <2>. QED  BY <1>3, <2>1, <2>2, <2>3 DEF Follows, Shared, Teardown, Ends, Making,
                                          Deprovisioning
<1>5. Acting(r)
  BY <1>4 DEF Failing, Broke, Moved
<1>6. /\ vault'.engine = EngineAfter(r) /\ vault'.has = HasAfter(r) /\ job' = JobAfter(r)
      /\ vault.engine \in [Mounts -> {"absent", "mounted", "configured"}]
      /\ vault.has \in [Servers -> SUBSET {"secret", "policy", "role"}]
      /\ job \in [Servers -> [def : Definitions, addr : Address] \cup {NoJob}]
      /\ s \in Servers
  BY <1>5, AtWork DEF Acting, Effect, Typed, Data, Server
<1>7. /\ Mount(r)' = c /\ req'[r].row.def = req[r].row.def
      /\ s \notin raced \cup torn /\ c \notin raced
  BY <1>1, <1>3
<1>8. Made(r) /\ Marked(r)
  BY DEF Serving
<1>9. Mounts \cap {"static", "wif-token", "none"} = {}
  BY ServersAssumption
<1>10. CASE step = "configure" /\ next = "policy"
  BY <1>1, <1>6, <1>7, <1>8, <1>9, <1>10 DEF Made, Marked, EngineAfter
<1>11. CASE step = "secret" /\ next = "policy"
  BY <1>1, <1>6, <1>7, <1>8, <1>9, <1>11 DEF Made, Marked, HasAfter
<1>12. CASE step = "policy" /\ next = "role"
  BY <1>1, <1>6, <1>7, <1>8, <1>12 DEF Made, HasAfter, EngineAfter
<1>13. CASE step = "role" /\ next = "register"
  BY <1>1, <1>6, <1>7, <1>8, <1>13 DEF Made, HasAfter, EngineAfter
<1>14. CASE step = "register" /\ next = "place"
  BY <1>1, <1>6, <1>7, <1>8, <1>14 DEF Made, HasAfter, EngineAfter, JobAfter
<1>15. CASE step = "place" /\ next = "save"
  BY <1>1, <1>6, <1>7, <1>8, <1>15 DEF Made, HasAfter, EngineAfter, JobAfter
<1>. QED  BY <1>4, <1>10, <1>11, <1>12, <1>13, <1>14, <1>15

LEMMA CallKeepsItsUpdate ==
  ASSUME Typed, Serving, NEW r \in InFlight, Acting(r) \/ Failing(r), r \in InFlight'
  PROVE  Updated(r)'
<1> DEFINE s == Server(r)
           step == Now(r)
           next == Now(r)'
<1>1. /\ req'[r].op = req[r].op /\ Server(r)' = s
      /\ step # "read" => req'[r].row.def = req[r].row.def
      /\ step \notin {"read", "save"} => req'[r].seen = req[r].seen
      /\ raced \subseteq raced' /\ torn \subseteq torn' /\ next # "over"
      /\ next \in NextsOf(r) \cup Recovery(req[r], step)
  BY Itself
<1> SUFFICES ASSUME req[r].op = "update", s \notin raced' \cup torn',
                    next \notin {"grants", "register"} \cup Wiring
             PROVE  \/ job'[s].def = req'[r].row.def
                    \/ next = "save" /\ req'[r].seen.def = req'[r].row.def
  BY <1>1 DEF Updated
<1>2. step \in StepsOf("update") /\ s \in Servers
  BY AtWork DEF Typed, Server
<1>3. step \in {"grants", "register", "place", "peer", "repoint", "activate", "unpeer"}
  BY <1>1, <1>2 DEF StepsOf, Wiring, NextsOf, Recovery, Follows, Shared
<1>4. CASE step = "grants"
  BY <1>1, <1>4 DEF NextsOf, Recovery, Follows
<1>5. CASE step = "register"
  <2>1. Acting(r)
    BY <1>1, <1>5 DEF Failing, Broke, Moved, Recovery
  <2>2. job' = JobAfter(r)
    BY <2>1 DEF Acting, Effect
  <2>. QED  BY <1>1, <1>2, <1>5, <2>2 DEF JobAfter, Typed, Data
<1>6. CASE step \in {"place", "peer", "repoint", "activate", "unpeer"}
  <2>1. job' = job
    BY <1>6 DEF Acting, Failing, Effect, JobAfter
  <2>2. Updated(r)
    BY DEF Serving
  <2>. QED  BY <1>1, <1>6, <2>1, <2>2 DEF Updated, Wiring
<1>. QED  BY <1>3, <1>4, <1>5, <1>6

LEMMA ChangingOthers ==
  ASSUME NEW r \in InFlight, Acting(r) \/ Failing(r), NEW q \in InFlight, q # r,
         NEW s \in Servers, Changing(q, s)
  PROVE  Changing(q, s)'
<1>1. q \in Requests \ {r}
  BY DEF InFlight
<1>. QED  BY <1>1, OthersStay DEF Changing, On

\* An update that has not stored its definition goes on until it does.
LEMMA ChangingGoesOn ==
  ASSUME Typed, NEW r \in InFlight, Acting(r) \/ Failing(r), NEW s \in Servers,
         Changing(r, s), s \notin torn'
  PROVE  Changing(r, s)' \/ (Acting(r) /\ Now(r) = "save")
<1>1. /\ req[r].op = "update" /\ Server(r) = s /\ r \in Requests
      /\ Now(r) \in {"place", "peer", "repoint", "activate", "unpeer", "save"}
      /\ req[r].seen.def # req[r].row.def
  BY AtWork DEF Changing, On, Server, Typed
<1>2. /\ r \in InFlight' <=> Now(r)' # "over"
      /\ r \in InFlight' => req'[r].op = req[r].op /\ Server(r)' = Server(r)
      /\ r \in InFlight' => req'[r].row.def = req[r].row.def
      /\ r \in InFlight' /\ Now(r) # "save" => req'[r].seen = req[r].seen
      /\ Now(r)' \in NextsOf(r) \cup Recovery(req[r], Now(r))
  BY <1>1, Itself
<1> SUFFICES ASSUME ~(Acting(r) /\ Now(r) = "save") PROVE Changing(r, s)'
  OBVIOUS
<1>3. CASE Now(r) \in {"place", "save"}
  <2>1. ~Broke(r, TRUE) /\ ~Broke(r, FALSE)
    BY <1>1, <1>3 DEF Broke, Unrepaired
  <2>2. Acting(r) /\ Now(r) = "place" /\ Now(r)' \in NextsOf(r)
    BY <1>3, <2>1 DEF Acting, Failing, Outcome, Went, Moved
  <2>3. Now(r)' \in {"peer", "repoint"}
    BY <1>1, <2>2 DEF NextsOf, Follows
  <2>. QED  BY <1>1, <1>2, <2>2, <2>3 DEF Changing, On, Server
<1>4. CASE Now(r) \in {"peer", "repoint", "activate", "unpeer"}
  <2>1. Now(r)' \in {"repoint", "activate", "unpeer", "save"}
    BY <1>1, <1>2, <1>4 DEF NextsOf, Recovery, Follows
  <2>. QED  BY <1>1, <1>2, <1>4, <2>1 DEF Changing, On, Server
<1>. QED  BY <1>1, <1>3, <1>4

\* A row that is undisturbed has the request's own row in it.
LEMMA ReadsItsRow ==
  ASSUME Typed, NEW r \in InFlight, Acting(r) \/ Failing(r), Server(r) \notin raced'
  PROVE  row[Server(r)] = req[r].seen /\ Clashing(r) = {}
<1>1. raced' = raced \cup Disturbed(r)
  BY Itself
<1>. QED  BY <1>1, Undisturbed

\* What a server has is not taken from under an undisturbed row.
LEMMA CallKeepsProvisioned ==
  ASSUME Typed, Owned, Serving, NEW r \in InFlight, Acting(r) \/ Failing(r),
         NEW s \in Servers, NEW c \in Credentials, row[s] # NoRow, row[s].cred = c,
         row'[s] = row[s], s \notin raced' \cup torn' \cup doomed', c \notin raced',
         Provisioned(s, c)
  PROVE  Provisioned(s, c)' /\ (job'[s].def = job[s].def \/ Changing(r, s)')
<1>1. raced \subseteq raced' /\ Marked(r) /\ Server(r) \in Servers
  BY Itself, AtWork DEF Serving, Typed, Server
<1>2. ASSUME Server(r) = s PROVE req[r].op # "delete"
                                 /\ (req[r].op = "deploy" => Now(r) \notin Making \cup Undoing)
  <2>1. row[s] = req[r].seen
    BY <1>2, ReadsItsRow
  <2>2. ASSUME req[r].op = "delete" PROVE FALSE
    <3>1. s \in doomed
      BY <1>1, <1>2, <2>2 DEF Marked
    <3>2. Now(r) = "unrow" /\ Acting(r)
      BY <3>1 DEF Acting, Failing, Effect, DoomedAfter
    <3>3. row'[s] = NoRow
      BY <1>2, <3>2 DEF Acting, Effect, RowAfter, Typed, Data
    <3>. QED  BY <3>3
  <2>3. req[r].op = "deploy" => Now(r) \notin Making \cup Undoing
    BY <1>1, <2>1 DEF Marked
  <2>. QED  BY <2>2, <2>3
<1>3. vault.has[s] \subseteq vault'.has[s]
  <2> SUFFICES ASSUME ~(vault.has[s] \subseteq vault'.has[s]) PROVE FALSE
    OBVIOUS
  <2>1. Server(r) = s /\ Now(r) \in {"unsecret", "unpolicy", "unrole"}
    BY ServerChanges
  <2>2. req[r].op \in {"deploy", "delete"}
    BY <2>1, AtWork DEF Typed, Working, StepsOf, Wiring
  <2>. QED  BY <1>2, <2>1, <2>2 DEF Undoing, Deprovisioning
<1>4. ASSUME c \in Mounts, vault.engine[c] = "configured", vault'.engine[c] # "configured"
      PROVE  FALSE
  <2>1. /\ Now(r) = "unmount" /\ req[r].op \in {"deploy", "delete"}
        /\ \A t \in Servers \ {Server(r)} : row[t].cred # c
    BY <1>4, UnmountsItsOwn
  <2>. QED  BY <1>2, <2>1 DEF Undoing, Deprovisioning
<1>5. job'[s].def = job[s].def \/ Changing(r, s)'
  <2> SUFFICES ASSUME job'[s] # job[s] PROVE Changing(r, s)'
    OBVIOUS
  <2>1. Server(r) = s /\ Acting(r) /\ Now(r) \in {"register", "purge"}
    BY ServerChanges
  <2>2. req[r].op = "update" /\ Now(r) = "register"
    <3>1. Now(r) \in StepsOf(req[r].op) /\ req[r].op \in Working
      BY AtWork DEF Typed
    <3>. QED  BY <1>2, <2>1, <3>1 DEF Working, StepsOf, Wiring, Deprovisioning, Making,
                                      Undoing
  <2>3. ~Broke(r, TRUE)
    BY <2>1, <2>2 DEF Broke, Unrepaired
  <2>4. Now(r)' = "place"
    BY <2>1, <2>2, <2>3 DEF Acting, Outcome, Went, Moved, NextsOf, Follows, Shared
  <2>5. /\ r \in InFlight' /\ r \in Requests /\ req'[r].op = "update" /\ Server(r)' = s
        /\ req'[r].row.def = req[r].row.def /\ req'[r].seen = req[r].seen
    BY <2>1, <2>2, <2>4, Itself, AtWork DEF Typed
  <2>. QED  BY <1>1, <2>2, <2>4, <2>5 DEF Changing, On, Server, Marked
<1>. QED  BY <1>3, <1>4, <1>5 DEF Provisioned

\* A row that is stored is one whose server runs.
LEMMA SaveServes ==
  ASSUME Typed, Owned, Serving, NEW r \in InFlight, Acting(r) \/ Failing(r),
         Now(r) = "save", NEW s \in Servers, s = Server(r), row'[s] = req[r].row,
         row' # row,
         s \notin raced' \cup torn' \cup doomed', NEW c, c = Mount(r), c \notin raced'
  PROVE  Provisioned(s, c)' /\ (job'[s].def = req[r].row.def
                                       \/ \E q \in Requests : Changing(q, s)')
<1>1. /\ row[s] = req[r].seen /\ Clashing(r) = {}
      /\ raced \subseteq raced' /\ torn \subseteq torn'
  BY ReadsItsRow, Itself
<1>2. Acting(r) /\ vault' = vault /\ job' = job /\ doomed' = doomed
  <2>1. Acting(r)
    BY DEF Failing
  <2>. QED  BY <2>1 DEF Acting, Effect, EngineAfter, LeasesAfter, HasAfter, KVAfter,
                        JobAfter, DoomedAfter, Typed, Data
<1>3. /\ Fits(req[r], "save") /\ req[r].op \in {"deploy", "update", "test"}
      /\ req[r].op # "deploy" => req[r].seen.cred = c
      /\ None \notin Credentials /\ c \in Credentials
  <2>1. None \notin Credentials
    BY ServersAssumption DEF Credentials
  <2>. QED  BY <2>1, RowChanges, AtWork DEF Typed, Fits, Mount
<1>4. Made(r) /\ Updated(r) /\ Marked(r)
  BY DEF Serving
<1>5. CASE req[r].op = "deploy"
  <2>1. Provisioned(s, c) /\ job[s].def = req[r].row.def
    BY <1>1, <1>4, <1>5 DEF Made, Provisioned
  <2>. QED  BY <1>2, <2>1 DEF Provisioned
<1>6. CASE req[r].op # "deploy"
  <2>1. row[s] # NoRow /\ row[s].cred = c
    BY <1>1, <1>3, <1>6 DEF NoRow
  <2>2. /\ Provisioned(s, c)
        /\ job[s].def = row[s].def \/ \E q \in Requests : Changing(q, s)
    BY <1>1, <1>2, <2>1 DEF Serving, Served
  <2>3. Provisioned(s, c)'
    BY <1>2, <2>2 DEF Provisioned
  <2>4. CASE req[r].op = "test"
    <3>1. req[r].row.def = row[s].def
      BY <1>1, <1>4, <2>4 DEF Marked
    <3>2. ASSUME NEW q \in Requests, Changing(q, s) PROVE Changing(q, s)'
      BY <2>4, <3>2, ChangingOthers DEF Changing, On
    <3>. QED  BY <1>2, <2>2, <2>3, <3>1, <3>2
  <2>5. CASE req[r].op = "update"
    <3>1. ASSUME NEW q \in Requests, Changing(q, s) PROVE q = r
      BY <1>1, <2>5, <3>1 DEF Changing, On, Clashing, Server
    <3>2. job[s].def = req[r].row.def
      BY <1>1, <1>4, <2>2, <2>5, <3>1 DEF Updated, Changing, Wiring
    <3>. QED  BY <1>2, <2>3, <3>2
  <2>. QED  BY <1>3, <1>6, <2>4, <2>5
<1>. QED  BY <1>5, <1>6

LEMMA CallKeepsServed ==
  ASSUME Typed, Owned, Serving, NEW r \in InFlight, Acting(r) \/ Failing(r),
         NEW s \in Servers
  PROVE  Served(s)'
<1> SUFFICES ASSUME row'[s] # NoRow, s \notin raced' \cup torn' \cup doomed',
                    NEW c, c = row'[s].cred, c \notin raced'
             PROVE  /\ Provisioned(s, c)'
                    /\ job'[s].def = row'[s].def \/ \E q \in Requests : Changing(q, s)'
  <2>1. ASSUME row'[s] # NoRow, s \notin raced' \cup torn' \cup doomed', row'[s].cred \notin raced'
        PROVE  \E c : c = row'[s].cred
    OBVIOUS
  <2>. QED  BY <2>1 DEF Served, Provisioned
<1>1. raced \subseteq raced' /\ torn \subseteq torn' /\ r \in Requests
  BY Itself, AtWork DEF Typed
<1>2. CASE row'[s] = row[s]
  <2>1. s \notin doomed
    <3>1. ASSUME s \in doomed PROVE FALSE
      <4>1. Now(r) = "unrow" /\ Acting(r) /\ s = Server(r)
        BY <3>1 DEF Acting, Failing, Effect, DoomedAfter
      <4>2. row'[s] = NoRow
        BY <4>1 DEF Acting, Effect, RowAfter, Typed, Data
      <4>. QED  BY <4>2
    <3>. QED  BY <3>1
  <2>2. /\ Provisioned(s, c) /\ c \in Credentials
        /\ job[s].def = row[s].def \/ \E q \in Requests : Changing(q, s)
    <3>1. row[s] \in Row
      BY <1>2 DEF Typed, Data
    <3>. QED  BY <1>1, <1>2, <2>1, <3>1 DEF Serving, Served, Row
  <2>3. Provisioned(s, c)' /\ (job'[s].def = job[s].def \/ Changing(r, s)')
    BY <1>2, <2>2, CallKeepsProvisioned
  <2>4. CASE job[s].def = row[s].def
    BY <1>1, <1>2, <2>3, <2>4
  <2>5. CASE \E q \in Requests : Changing(q, s)
    <3>1. PICK q \in Requests : Changing(q, s)
      BY <2>5
    <3>2. CASE q # r
      BY <2>3, <3>1, <3>2, ChangingOthers DEF Changing, On
    <3>3. CASE q = r
      <4>1. ~(Acting(r) /\ Now(r) = "save")
        <5>1. Server(r) = s /\ req[r].seen # req[r].row
          BY <3>1, <3>3 DEF Changing, On, Server
        <5>2. row[s] = req[r].seen
          BY <5>1, ReadsItsRow
        <5>3. Acting(r) /\ Now(r) = "save" => row'[s] = req[r].row
          BY <5>1 DEF Acting, Effect, RowAfter, Typed, Data
        <5>. QED  BY <1>2, <5>1, <5>2, <5>3
      <4>2. Changing(r, s)'
        BY <3>1, <3>3, <4>1, ChangingGoesOn
      <4>. QED  BY <1>1, <2>3, <4>2
    <3>. QED  BY <3>2, <3>3
  <2>. QED  BY <2>2, <2>4, <2>5
<1>3. CASE row'[s] # row[s]
  <2>1. s = Server(r) /\ Now(r) = "save" /\ row'[s] = req[r].row /\ row' # row
    BY <1>3, RowChanges
  <2>2. c = Mount(r)
    BY <2>1 DEF Mount
  <2>3. Provisioned(s, c)' /\ (job'[s].def = req[r].row.def
                               \/ \E q \in Requests : Changing(q, s)')
    BY <2>1, <2>2, SaveServes
  <2>. QED  BY <2>1, <2>3
<1>. QED  BY <1>2, <1>3

LEMMA BeginKeepsServing ==
  ASSUME Typed, Serving, NEW r \in Requests, NEW s \in Servers, Begun(r, s)
  PROVE  Serving'
<1>1. /\ r \notin InFlight /\ UNCHANGED <<row, raced, torn, job, vault>>
      /\ doomed \subseteq doomed'
  BY BeginEffect
<1>2. ASSUME NEW q \in InFlight PROVE /\ q \in Requests \ {r} /\ q \in InFlight'
                                      /\ req'[q] = req[q] /\ Now(q)' = Now(q)
                                      /\ Mount(q)' = Mount(q) /\ Server(q)' = Server(q)
  <2>1. q \in Requests \ {r}
    BY <1>1 DEF InFlight
  <2>. QED  BY <2>1, BeginOthers
<1>3. ASSUME NEW t \in Servers PROVE Served(t)'
  <2>1. \A q \in Requests : Changing(q, t) => Changing(q, t)'
    BY <1>2 DEF Changing, On
  <2>. QED  BY <1>1, <2>1 DEF Serving, Served, Provisioned
<1>4. ASSUME NEW q \in InFlight', q # r PROVE (Made(q) /\ Updated(q) /\ Marked(q))'
  <2>1. q \in Requests \ {r}
    BY <1>4 DEF InFlight
  <2>2. q \in InFlight
    BY <1>4, <2>1, BeginOthers
  <2>. QED  BY <1>1, <1>2, <2>2 DEF Serving, Made, Updated, Marked
<1>5. (Made(r) /\ Updated(r) /\ Marked(r))'
  <2>1. \/ \E c \in Credentials, d \in Definitions : DeployBegan(r, s, c, d)
        \/ \E d \in Definitions : UpdateBegan(r, s, d)
        \/ TestBegan(r, s) \/ DeleteBegan(r, s) \/ AddonsBegan(r, s)
    BY DEF Begun
  <2>2. ASSUME NEW c \in Credentials, NEW d \in Definitions, DeployBegan(r, s, c, d)
        PROVE  (Made(r) /\ Updated(r) /\ Marked(r))'
    <3>1. /\ req'[r].op = "deploy" /\ Mount(r)' = c /\ Now(r)' = Starts(c)
          /\ req'[r].seen = NoRow
      BY <2>2 DEF DeployBegan, Began, Mount, NoRow
    <3>2. /\ c \in Mounts => Starts(c) = "collide"
          /\ c = "static" /\ c \notin Mounts => Starts(c) = "secret"
          /\ c \notin Mounts /\ c # "static" =>
               Starts(c) = "policy" \/ (Starts(c) = "register" /\ c = "none")
      BY ServersAssumption DEF Starts, Credentials
    <3>. QED  BY <3>1, <3>2 DEF Made, Updated, Marked
  <2>3. ASSUME NEW d \in Definitions, UpdateBegan(r, s, d)
        PROVE  (Made(r) /\ Updated(r) /\ Marked(r))'
    <3>1. row[s] \in Row
      BY <2>3 DEF UpdateBegan, Typed, Data
    <3>2. /\ req'[r].op = "update" /\ req'[r].seen.def = row[s].def /\ req'[r].row.def = d
          /\ Now(r)' \in {"grants", "save", "register"}
          /\ Now(r)' = "save" <=> row[s].cred = "none" /\ row[s].def = d
          /\ Now(r)' = "register" => row[s].def # d
      BY <2>3, <3>1 DEF UpdateBegan, Began, Row
    <3>. QED  BY <3>2 DEF Made, Updated, Marked
  <2>4. CASE TestBegan(r, s)
    BY <2>4 DEF TestBegan, Began, Made, Updated, Marked
  <2>5. CASE DeleteBegan(r, s)
    BY <2>5 DEF DeleteBegan, Began, Made, Updated, Marked, Server
  <2>6. CASE AddonsBegan(r, s)
    BY <2>6 DEF AddonsBegan, Began, Made, Updated, Marked
  <2>. QED  BY <2>1, <2>2, <2>3, <2>4, <2>5, <2>6
<1>. QED  BY <1>3, <1>4, <1>5 DEF Serving

LEMMA StepKeepsServing ==
  ASSUME Typed, Owned, Serving, [Next]_vars
  PROVE  Serving'
<1>1. Step
  BY StepKeepsControl
<1>2. ASSUME NEW r \in InFlight, Acting(r) \/ Failing(r) PROVE Serving'
  <2>1. ASSUME NEW q \in InFlight' PROVE (Made(q) /\ Updated(q) /\ Marked(q))'
    <3>1. CASE q = r
      BY <1>2, <3>1, <2>1, CallKeepsItsMade, CallKeepsItsUpdate, CallKeepsItsMarks
    <3>2. CASE q # r
      <4>1. q \in InFlight
        BY <1>2, <3>2, OthersStay DEF InFlight
      <4>. QED  BY <1>2, <3>2, <4>1, CallKeepsMade, CallKeepsUpdated, CallKeepsMarked
    <3>. QED  BY <3>1, <3>2
  <2>. QED  BY <1>2, <2>1, CallKeepsServed DEF Serving
<1>3. ASSUME NEW r \in Requests, NEW s \in Servers, Begun(r, s) PROVE Serving'
  BY <1>3, BeginKeepsServing
<1>4. ASSUME Crashed PROVE Serving'
  <2>1. InFlight' = {}
    BY <1>4, NoRowTypes DEF Crashed, InFlight, Over
  <2>2. ASSUME NEW s \in Servers, s \notin torn' PROVE ~ \E q \in Requests : Changing(q, s)
    BY <1>4, <2>2 DEF Crashed, Changing, On, Server
  <2>. QED  BY <1>4, <2>1, <2>2 DEF Crashed, Serving, Served, Provisioned
<1>5. ASSUME NEW s \in Servers, Reschedule(s) \/ Deactivate(s) \/ Lease(s) PROVE Serving'
  <2>1. /\ UNCHANGED <<row, req, raced, torn, doomed>>
        /\ vault'.engine = vault.engine /\ vault'.has = vault.has
        /\ \A t \in Servers : job'[t].def = job[t].def
    <3>1. CASE Reschedule(s)
      BY <3>1 DEF Reschedule, Typed, Data, NoJob
    <3>2. CASE Deactivate(s)
      BY <3>2 DEF Deactivate, history
    <3>3. CASE Lease(s)
      BY <3>3 DEF Lease, history, Typed, Data
    <3>. QED  BY <1>5, <3>1, <3>2, <3>3
  <2>2. \A q \in InFlight : Server(q) \in Servers
    BY AtWork DEF Typed, Server
  <2>. QED  BY <2>1, <2>2 DEF Serving, Served, Provisioned, Changing, On, InFlight, Made,
                              Updated, Marked, Now, Mount, Server
<1>6. ASSUME UNCHANGED vars PROVE Serving'
  BY <1>6 DEF vars, history, Serving, Served, Provisioned, Changing, On, InFlight, Made,
              Updated, Marked, Now, Mount, Server
<1>. QED  BY <1>1, <1>2, <1>3, <1>4, <1>5, <1>6 DEF Step

LEMMA AlwaysServing == Spec => []Serving
<1>1. Init => Serving
  <2> SUFFICES ASSUME Init PROVE Serving
    OBVIOUS
  <2>1. InFlight = {}
    BY DEF Init, InFlight, Over, Idle
  <2>2. ASSUME NEW s \in Servers, row[s] # NoRow
        PROVE  job[s].def = row[s].def /\ Provisioned(s, row[s].cred)
    <3>1. ~Empty
      BY <2>2 DEF Empty, PerServer
    <3>2. PICK t \in Servers, c \in Credentials, d \in Definitions,
               stage \in {"deployed", "tested", "wired"} : Founded(t, c, d, stage)
      BY <3>1 DEF Init
    <3>3. s = t
      BY <2>2, <3>2 DEF Founded, PerServer
    <3>4. /\ row[s].cred = c /\ row[s].def = d /\ job[s].def = d
          /\ vault.has[s] = Holds(c)
          /\ c \in Mounts => vault.engine[c] = "configured"
      BY <3>2, <3>3 DEF Founded, PerServer
    <3>. QED  BY <3>4 DEF Provisioned, Holds
  <2>. QED  BY <2>1, <2>2 DEF Serving, Served
<1>2. Typed /\ Owned /\ Serving /\ [Next]_vars => Serving'
  BY StepKeepsServing
<1>. QED  BY <1>1, <1>2, AlwaysTyped, AlwaysOwned, PTL DEF Spec

\* A stored server that nobody is working on runs: its job is of the stored
\* definition and everything its credential needs is in Vault, although failed
\* tests and deployments of others have come and gone.  Excepted are rows that a
\* request wrote over which had read another row, engines two rows share, a
\* crash, and an update that fails after it has changed the job.
\* (DeployServer, UpdateServer, TestServer)
THEOREM RowsServed == Spec => []RowIsServed
<1>1. Serving => RowIsServed
  BY DEF Serving, Served, RowIsServed, Sound, Quiet, Changing
<1>. QED  BY <1>1, AlwaysServing, PTL

--------------------------------------------------------------------------------
(* The last step of a plan.                                                *)

\* Request r has `todo` left.
Took(r, todo) == IF todo = << >> THEN req'[r] = Idle("over") ELSE req'[r].todo = todo

\* The teardown of a credential has done what it does in Vault.
Undone(r) ==
  Now(r) \in Deprovisioning => vault'.has = HasAfter(r) /\ vault'.engine = EngineAfter(r)

LEMMA FailsTakes ==
  ASSUME Typed, NEW r \in InFlight, NEW done, Fails(r, done)
  PROVE  Took(r, Remaining(r, Now(r)))
<1> DEFINE todo == Remaining(r, Now(r))
           b == [req[r] EXCEPT !.todo = todo,
                               !.row.peer = IF Forgets(r, Now(r)) THEN None ELSE @]
<1>1. r \in Requests /\ req[r] \in Op /\ Now(r) = Head(req[r].todo)
      /\ req \in [Requests -> Op]
  BY AtWork DEF Typed, Control
<1>2. Become(r, b)
  BY <1>1 DEF Fails
<1>3. b.todo = todo
  BY <1>1 DEF Op
<1> HIDE DEF todo, b
<1>4. IF todo = << >> THEN req'[r] = Idle("over") ELSE req'[r] = b
  BY <1>1, <1>2, <1>3 DEF Become
<1>. QED  BY <1>3, <1>4 DEF Took, todo

LEMMA AnswerTakes ==
  ASSUME Typed, NEW r \in InFlight, NEW new, new.todo = req[r].todo,
         new = [op |-> new.op, s |-> new.s, seen |-> new.seen, row |-> new.row,
                todo |-> new.todo],
         AnsweredAs(r, new)
  PROVE  Took(r, Tail(req[r].todo)) \/ Took(r, Remaining(r, Now(r)))
<1> DEFINE b == [new EXCEPT !.todo = Tail(@)]
<1>1. b.todo = Tail(req[r].todo)
  OBVIOUS
<1>2. r \in Requests /\ req \in [Requests -> Op]
  BY AtWork DEF Typed, Control
<1>3. CASE Become(r, b)
  <2> HIDE DEF b
  <2>1. IF b.todo = << >> THEN req'[r] = Idle("over") ELSE req'[r] = b
    BY <1>2, <1>3 DEF Become
  <2>. QED  BY <1>1, <2>1 DEF Took
<1>4. CASE Fails(r, TRUE)
  BY <1>4, FailsTakes
<1>. QED  BY <1>3, <1>4 DEF AnsweredAs

\* A call takes its step off the plan, or leaves what is to be done after a failure.
LEMMA CallTakes ==
  ASSUME Typed, NEW r \in InFlight, Calls(r), Now(r) # "referenced"
  PROVE  \/ Took(r, Tail(req[r].todo)) /\ Undone(r)
         \/ Took(r, Remaining(r, Now(r)))
<1>0. /\ req[r] \in Op /\ \A step : At(r, step) <=> Now(r) = step
  BY AtWork, AtNow DEF Typed
<1>f. ASSUME NEW done, Fails(r, done) PROVE Took(r, Remaining(r, Now(r)))
  BY <1>f, FailsTakes
<1>w. \/ Took(r, Tail(req[r].todo)) \/ Took(r, Remaining(r, Now(r)))
  <2>1. ASSUME Answered(r) PROVE Took(r, Tail(req[r].todo)) \/ Took(r, Remaining(r, Now(r)))
    <3>1. req[r] = [op |-> req[r].op, s |-> req[r].s, seen |-> req[r].seen,
                    row |-> req[r].row, todo |-> req[r].todo]
      BY <1>0 DEF Op
    <3>. QED  BY <2>1, <3>1, AnswerTakes DEF Answered
  <2>2. ASSUME NEW seen, NEW new, AnsweredAs(r, new),
               new = [req[r] EXCEPT !.seen = seen] \/ new = [req[r] EXCEPT !.row = seen]
               \/ new = [req[r] EXCEPT !.row = seen, !.seen = seen]
        PROVE  Took(r, Tail(req[r].todo)) \/ Took(r, Remaining(r, Now(r)))
    <3>1. /\ new.todo = req[r].todo
          /\ new = [op |-> new.op, s |-> new.s, seen |-> new.seen, row |-> new.row,
                    todo |-> new.todo]
      BY <1>0, <2>2 DEF Op
    <3>. QED  BY <2>2, <3>1, AnswerTakes
  <2>3. ASSUME Refused(r) PROVE Took(r, Remaining(r, Now(r)))
    BY <1>f, <2>3 DEF Refused
  <2>4. ASSUME NEW x, AnsweredAs(r, [req[r] EXCEPT !.row.addr = x])
                      \/ AnsweredAs(r, [req[r] EXCEPT !.row.peer = x])
        PROVE  Took(r, Tail(req[r].todo)) \/ Took(r, Remaining(r, Now(r)))
    <3>1. /\ [req[r] EXCEPT !.row.addr = x] =
               [req[r] EXCEPT !.row = [req[r].row EXCEPT !.addr = x]]
          /\ [req[r] EXCEPT !.row.peer = x] =
               [req[r] EXCEPT !.row = [req[r].row EXCEPT !.peer = x]]
      BY <1>0 DEF Op
    <3>. QED  BY <2>2, <2>4, <3>1
  <2>5. CASE Save(r)
    BY <2>2, <2>5 DEF Save
  <2>6. CASE ReadRow(r)
    BY <2>2, <2>3, <2>6 DEF ReadRow
  <2>7. CASE ResolvePlacement(r)
    BY <2>3, <2>4, <2>7 DEF ResolvePlacement
  <2>8. CASE RegisterPeer(r)
    BY <2>3, <2>4, <2>8 DEF RegisterPeer
  <2>9. CASE CallFails(r)
    BY <1>f, <2>9 DEF CallFails
  <2>10. CASE Answered(r) \/ Refused(r)
    BY <2>1, <2>3, <2>10
  <2>. QED
    BY <1>0, <2>5, <2>6, <2>7, <2>8, <2>9, <2>10
    DEF Calls, RejectMountCollision, DeleteRow, RewireIfReferenced, SaveAddons, RegisterJob,
        PurgeJob, MountEngine, ConfigureEngine, WriteSecret, WritePolicy, WriteWIFRole,
        UpdateGrants, RevokeLeases, DeletePolicy, DeleteWIFRole, DeleteSecret, Gains, Loses,
        UnmountEngine, WriteWiring, UpdatePeer, ActivatePeer, DiscoverTools, DeletePeer,
        DeleteVirtualServer, CreateVirtualServer, RevokeTokensByPrefix, CreateScopedToken,
        ProbeVS, ProbeDecoy, ProbeToken, ProbeScopedToken, DropProbeTokens, DropProbeDecoy,
        DropProbeVS, OnGateway
<1>u. Undone(r) \/ Took(r, Remaining(r, Now(r)))
  <2> SUFFICES ASSUME Now(r) \in Deprovisioning
               PROVE  Undone(r) \/ Took(r, Remaining(r, Now(r)))
    BY DEF Undone
  <2>1. CASE CallFails(r)
    BY <1>f, <2>1 DEF CallFails
  <2>2. CASE RevokeLeases(r) \/ UnmountEngine(r) \/ DeletePolicy(r) \/ DeleteWIFRole(r)
             \/ DeleteSecret(r)
    <3>1. CASE RevokeLeases(r)
      BY <1>0, <3>1 DEF RevokeLeases, Undone, HasAfter, EngineAfter, Typed, Data
    <3>2. CASE UnmountEngine(r)
      BY <1>0, <3>2 DEF UnmountEngine, Undone, HasAfter, EngineAfter, Typed, Data
    <3>3. CASE DeletePolicy(r) \/ DeleteWIFRole(r) \/ DeleteSecret(r)
      BY <1>0, <3>3 DEF DeletePolicy, DeleteWIFRole, DeleteSecret, Loses, Undone, HasAfter,
                        EngineAfter, Typed, Data
    <3>. QED  BY <2>2, <3>1, <3>2, <3>3
  <2>. QED
    BY <1>0, <2>1, <2>2
    DEF Calls, Deprovisioning, RejectMountCollision, Save, DeleteRow, RewireIfReferenced,
        ReadRow, SaveAddons, RegisterJob, ResolvePlacement, PurgeJob, MountEngine,
        ConfigureEngine, WriteSecret, WritePolicy, WriteWIFRole, UpdateGrants, Gains,
        WriteWiring, RegisterPeer, UpdatePeer, ActivatePeer, DiscoverTools, DeletePeer,
        DeleteVirtualServer, CreateVirtualServer, RevokeTokensByPrefix, CreateScopedToken,
        ProbeVS, ProbeDecoy, ProbeToken, ProbeScopedToken, DropProbeTokens, DropProbeDecoy,
        DropProbeVS, OnGateway
<1>. QED  BY <1>w, <1>u

\* The step that deletes the row is the last one.
LEMMA UnrowIsLast ==
  ASSUME NEW todo, Lead(todo, "over") = "unrow", NEW a, Plan(a, todo, "over"),
         "over" \notin StepsOf(a.op), a.op = "delete", todo # << >>
  PROVE  todo[Len(todo)] = "unrow"
<1>1. todo \in Seq(StepsOf(a.op)) /\ todo[1] = "unrow" /\ Len(todo) \in Nat \ {0}
  BY DEF Plan, Lead
<1>2. Follows(a, "unrow") = {"over"}
  BY DEF Follows, Shared, Deprovisioning
<1>3. CASE Len(todo) = 1
  BY <1>1, <1>3
<1>4. CASE Len(todo) # 1
  <2> DEFINE n == Len(todo)
  <2>0. n \in Nat /\ n # 0 /\ n # 1
    BY <1>1, <1>4
  <2> HIDE DEF n
  <2>1. 1 \in 1 .. n /\ 2 \in 1 .. n /\ 1 + 1 = 2
    BY <2>0
  <2>2. todo[2] \in Follows(a, todo[1])
    <3>1. (IF 1 = n THEN "over" ELSE todo[1 + 1]) \in Follows(a, todo[1])
      BY <2>1 DEF Plan, n
    <3>. QED  BY <2>0, <2>1, <3>1
  <2>3. todo[2] \in StepsOf(a.op)
    BY <1>1, <2>1 DEF n
  <2>. QED  BY <1>1, <1>2, <2>2, <2>3
<1>. QED  BY <1>3, <1>4

\* A plan that keeps the row has no step that deletes it.
LEMMA KeptRow ==
  ASSUME NEW a, NEW todo, Plan(a, todo, "over"), "over" \notin StepsOf(a.op),
         a.op = "delete", KeepingRow(todo) # << >>
  PROVE  LET kept == KeepingRow(todo) IN kept[Len(kept)] # "unrow"
<1>1. todo \in Seq(StepsOf(a.op))
  BY DEF Plan
<1>2. CASE todo # << >> /\ todo[Len(todo)] = "unrow"
  <2> DEFINE n == Len(todo)
             kept == SubSeq(todo, 1, n - 1)
  <2>1. n \in Nat \ {0} /\ KeepingRow(todo) = kept
    BY <1>1, <1>2 DEF KeepingRow
  <2>2. n # 1
    <3>1. n = 1 => kept = << >>
      BY <1>1, <2>1
    <3>. QED  BY <2>1, <3>1
  <2>3. Len(kept) = n - 1 /\ kept[n - 1] = todo[n - 1] /\ n - 1 \in 1 .. n /\ n \in 1 .. n
    BY <1>1, <2>1, <2>2
  <2>4. todo[n] \in Follows(a, todo[n - 1])
    <3>1. \A i \in 1 .. n : (IF i = n THEN "over" ELSE todo[i + 1]) \in Follows(a, todo[i])
      BY DEF Plan
    <3>2. n \in Nat /\ n # 0 /\ n # 1
      BY <2>1, <2>2
    <3> HIDE DEF n
    <3>3. n - 1 # n /\ (n - 1) + 1 = n /\ n - 1 \in 1 .. n
      BY <3>2
    <3>. QED  BY <3>1, <3>3
  <2>5. Follows(a, "unrow") = {"over"}
    BY DEF Follows, Shared, Deprovisioning
  <2>6. todo[n] \in StepsOf(a.op)
    BY <1>1, <2>3
  <2>. QED  BY <2>1, <2>3, <2>4, <2>5, <2>6
<1>3. CASE ~(todo # << >> /\ todo[Len(todo)] = "unrow")
  BY <1>3 DEF KeepingRow
<1>. QED  BY <1>2, <1>3

LEMMA TailLast ==
  ASSUME NEW S, NEW todo \in Seq(S), Tail(todo) # << >>, todo # << >>
  PROVE  Tail(todo)[Len(Tail(todo))] = todo[Len(todo)]
<1>1. Len(todo) \in Nat \ {0} /\ Len(Tail(todo)) = Len(todo) - 1 /\ Tail(todo) \in Seq(S)
  OBVIOUS
<1>2. Len(Tail(todo)) \in Nat \ {0}
  BY <1>1
<1>. QED  BY <1>1, <1>2

\* A delete keeps its last step, or fails in Vault and keeps the row.
LEMMA WholeKept ==
  ASSUME Typed, NEW r \in InFlight, Calls(r), Acting(r) \/ Failing(r), r \in InFlight',
         req[r].op = "delete", Whole(r)'
  PROVE  Whole(r) /\ Undone(r)
<1> DEFINE todo == req[r].todo
<1>1. /\ req[r] \in Op /\ todo # << >> /\ Plan(req[r], todo, "over")
      /\ Now(r) \in StepsOf("delete") /\ todo \in Seq(StepsOf("delete"))
      /\ "over" \notin StepsOf("delete")
  <2>1. "over" \notin StepsOf("delete")
    BY StepNames, NotAStep
  <2>. QED  BY <2>1, AtWork DEF Typed, Plan
<1>2. req'[r] # Idle("over")
  BY NoRowTypes DEF InFlight, Over
<1>3. Now(r) # "referenced"
  BY <1>1 DEF StepsOf, Deprovisioning
<1>4. LastStep(r)' = "unrow"
  BY DEF Whole
<1>5. CASE Took(r, Tail(todo)) /\ Undone(r)
  <2>1. Tail(todo) # << >> /\ req'[r].todo = Tail(todo)
    BY <1>2, <1>5 DEF Took
  <2>2. Tail(todo)[Len(Tail(todo))] = todo[Len(todo)]
    BY <1>1, <2>1, TailLast
  <2>. QED  BY <1>4, <1>5, <2>1, <2>2 DEF Whole, LastStep
<1>6. CASE Took(r, Remaining(r, Now(r)))
  <2>1. Remaining(r, Now(r)) = DeleteFails(r, Now(r))
    BY DEF Remaining
  <2>2. DeleteFails(r, Now(r)) # << >> /\ req'[r].todo = DeleteFails(r, Now(r))
    BY <1>2, <1>6, <2>1 DEF Took
  <2>3. CASE Now(r) \in Deprovisioning
    <3>1. Plan(req[r], Tail(todo), "over")
      BY <1>1, TailPlan
    <3>2. DeleteFails(r, Now(r)) = KeepingRow(Tail(todo))
      BY <2>3 DEF DeleteFails, Deprovisioning
    <3>. QED  BY <1>1, <1>4, <2>2, <3>1, <3>2, KeptRow DEF LastStep
  <2>4. CASE Now(r) \notin Deprovisioning
    <3>1. DeleteFails(r, Now(r)) = Tail(todo)
      BY <2>2, <2>4 DEF DeleteFails
    <3>2. Tail(todo)[Len(Tail(todo))] = todo[Len(todo)]
      BY <1>1, <2>2, <3>1, TailLast
    <3>. QED  BY <1>4, <2>2, <2>4, <3>1, <3>2 DEF Whole, LastStep, Undone
  <2>. QED  BY <2>3, <2>4
<1>. QED  BY <1>3, <1>5, <1>6, CallTakes

--------------------------------------------------------------------------------
(* What is left of a server that is not stored.                            *)

\* A call is about one server.
LEMMA OtherServer ==
  ASSUME Typed, NEW r \in InFlight, Acting(r) \/ Failing(r), NEW s \in Servers,
         s # Server(r)
  PROVE  /\ row'[s] = row[s] /\ job'[s] = job[s] /\ vault'.has[s] = vault.has[s]
         /\ vault'.kv[s] = vault.kv[s] /\ gw'.peer[s] = gw.peer[s]
         /\ gw'.vs[s] = gw.vs[s] /\ gw'.tokens[s] = gw.tokens[s]
         /\ (s \in strayed' <=> s \in strayed) /\ (s \in doomed' <=> s \in doomed)
         /\ (s \in addons' <=> s \in addons) /\ (s \in unwired' <=> s \in unwired)
         /\ (s \in torn' <=> s \in torn)
<1>1. Server(r) \in Servers
  BY AtWork DEF Typed, Server
<1>2. (s \in unwired' <=> s \in unwired) /\ (s \in torn' <=> s \in torn)
  BY DEF Acting, Failing, Outcome, Went, Broke
<1>3. CASE Failing(r)
  BY <1>2, <1>3 DEF Failing
<1>4. CASE Acting(r)
  <2>1. row'[s] = row[s] /\ job'[s] = job[s]
    BY <1>1, <1>4 DEF Acting, Effect, RowAfter, JobAfter, Typed, Data
  <2>2. vault'.has[s] = vault.has[s] /\ vault'.kv[s] = vault.kv[s]
    BY <1>1, <1>4 DEF Acting, Effect, HasAfter, KVAfter, Typed, Data
  <2>3. gw'.peer[s] = gw.peer[s]
    BY <1>1, <1>4 DEF Acting, Effect, PeerAfter, Typed, Data
  <2>4. gw'.vs[s] = gw.vs[s] /\ gw'.tokens[s] = gw.tokens[s]
    BY <1>1, <1>4 DEF Acting, Effect, VSAfter, TokensAfter, Typed, Data
  <2>5. /\ (s \in strayed' <=> s \in strayed) /\ (s \in doomed' <=> s \in doomed)
        /\ (s \in addons' <=> s \in addons)
    BY <1>1, <1>4 DEF Acting, Effect, StrayedAfter, DoomedAfter, AddonsAfter
  <2>. QED  BY <1>2, <2>1, <2>2, <2>3, <2>4, <2>5
<1>. QED  BY <1>3, <1>4

\* What an undisturbed request finds is what it has itself left, but for what tests do.
LEMMA CallKeepsErased ==
  ASSUME Typed, Tidy, NEW r \in InFlight, Acting(r) \/ Failing(r), NEW q \in InFlight,
         q # r
  PROVE  Erased(q)'
<1>1. q \in Requests \ {r} /\ Server(q) \in Servers
  BY AtWork DEF InFlight, Typed, Server
<1>2. /\ req'[q] = req[q] /\ Now(q)' = Now(q)
      /\ Mount(q)' = Mount(q) /\ Server(q)' = Server(q)
      /\ raced' = raced \cup Disturbed(r) /\ torn \subseteq torn'
  BY <1>1, OthersStay, Itself
<1> SUFFICES ASSUME req[q].op = "delete", Server(q) \notin raced' \cup torn'
             PROVE  Erased(q)'
  BY <1>2 DEF Erased
<1>3. Server(q) # Server(r)
  <2>1. Server(q) = Server(r) => q \in Clashing(r)
    BY DEF Clashing
  <2>. QED  BY <1>2, <2>1, Undisturbed
<1>4. /\ job'[Server(q)] = job[Server(q)] /\ vault'.has[Server(q)] = vault.has[Server(q)]
      /\ gw'.peer[Server(q)] = gw.peer[Server(q)] /\ gw'.vs[Server(q)] = gw.vs[Server(q)]
      /\ gw'.tokens[Server(q)] = gw.tokens[Server(q)]
      /\ (Server(q) \in strayed' <=> Server(q) \in strayed)
  BY <1>1, <1>3, OtherServer
<1>5. Erased(q) /\ Server(q) \notin raced \cup torn
  BY <1>2 DEF Tidy
<1>6. Whole(q)' <=> Whole(q)
  BY <1>2 DEF Whole, LastStep
<1>. QED  BY <1>2, <1>4, <1>5, <1>6 DEF Erased

\* An engine comes into being at the hands of a deployment only.
LEMMA EngineAppears ==
  ASSUME Typed, NEW r \in InFlight, Acting(r) \/ Failing(r), NEW m \in Mounts,
         vault.engine[m] = "absent", vault'.engine[m] # "absent"
  PROVE  Acting(r) /\ Now(r) = "mount" /\ Mount(r) = m /\ req[r].op = "deploy"
<1>1. Acting(r)
  BY DEF Failing
<1>2. vault'.engine = EngineAfter(r)
      /\ vault.engine \in [Mounts -> {"absent", "mounted", "configured"}]
  BY <1>1 DEF Acting, Effect, Typed, Data
<1>3. Now(r) \in {"mount", "configure"} /\ Mount(r) = m
  BY <1>2 DEF EngineAfter
<1>4. Now(r) # "configure"
  BY <1>1, <1>3 DEF Acting, Effect, Allowed
<1>5. req[r].op = "deploy"
  BY <1>3, AtWork DEF Typed, Working, StepsOf, Wiring, Deprovisioning
<1>. QED  BY <1>1, <1>3, <1>4, <1>5

LEMMA CallKeepsCleared ==
  ASSUME Typed, Owned, Tidy, NEW r \in InFlight, Acting(r) \/ Failing(r),
         NEW q \in InFlight, q # r
  PROVE  Cleared(q)'
<1>1. q \in Requests \ {r} /\ Server(q) \in Servers /\ Server(r) \in Servers
  BY AtWork DEF InFlight, Typed, Server
<1>2. /\ req'[q] = req[q] /\ Now(q)' = Now(q) /\ Mount(q)' = Mount(q)
      /\ raced \subseteq raced' /\ torn \subseteq torn'
  BY <1>1, OthersStay, Itself
<1> SUFFICES ASSUME req[q].op = "delete", Now(q) = "unrow", raced \cup torn = {},
                    Mount(q) \in Mounts, vault'.engine[Mount(q)] # "absent"
             PROVE  FALSE
  BY <1>2 DEF Cleared
<1>3. vault.engine[Mount(q)] = "absent"
  BY DEF Tidy, Cleared
<1>4. Now(r) = "mount" /\ Mount(r) = Mount(q) /\ req[r].op = "deploy"
  BY <1>3, EngineAppears
<1>5. row[Server(q)].cred = Mount(q)
  <2>1. row[Server(q)] = req[q].seen /\ Fits(req[q], Now(q))
    BY AtWork DEF Owned, Deletes, Calm, Typed
  <2>. QED  BY <2>1 DEF Fits, Mount
<1>. QED  BY <1>1, <1>4, <1>5 DEF Owned, Claims, Calm, Making

\* An engine that its deployment has mounted is the deployment's until it is stored,
\* or taken down.
LEMMA DeployerKeepsMount ==
  ASSUME Typed, Tidy, NEW r \in InFlight, Acting(r) \/ Failing(r), req[r].op = "deploy",
         NEW m \in Mounts, Mount(r) = m, Server(r) \notin torn',
         \/ Now(r) \in (Making \ {"mount"}) \cup Undoing
         \/ Now(r) = "mount" /\ Acting(r)
  PROVE  \/ /\ r \in InFlight' /\ req'[r].op = "deploy" /\ Mount(r)' = m
            /\ Now(r)' \in (Making \ {"mount"}) \cup Undoing
         \/ Acting(r) /\ Now(r) = "save"
         \/ Acting(r) /\ Now(r) = "unmount"
<1> SUFFICES ASSUME ~(Acting(r) /\ Now(r) = "save"), ~(Acting(r) /\ Now(r) = "unmount")
             PROVE  Now(r)' \in (Making \ {"mount"}) \cup Undoing
  <2>1. Now(r) # "read" /\ "over" \notin Making \cup Undoing
    BY DEF Making, Undoing, Deprovisioning
  <2>. QED  BY <2>1, Itself
<1>0. m \notin {"static", "wif-token", "none"}
  BY ServersAssumption
<1>s. Now(r) # "unsecret"
  BY <1>0 DEF Tidy, Known
<1>1. \/ Acting(r) /\ Now(r)' \in Follows(req[r], Now(r))
      \/ Broke(r, TRUE)
      \/ Broke(r, FALSE)
  BY DEF Acting, Failing, Outcome, Went, Moved, NextsOf, Making, Undoing, Deprovisioning
<1>2. CASE Broke(r, TRUE) \/ Broke(r, FALSE)
  <2>1. Now(r)' \in Recovery(req[r], Now(r))
    BY <1>2 DEF Broke, Moved
  <2>2. Now(r) \notin {"mount", "configure", "secret", "policy", "role"}
    BY <1>2 DEF Broke, Unrepaired
  <2>3. CASE Now(r) \in {"register", "place", "save"}
    BY <1>0, <2>1, <2>3 DEF Recovery, Teardown, Mount, Undoing, Deprovisioning
  <2>4. CASE Now(r) \in Undoing /\ Now(r) # "unmount" /\ Now(r) # "unsecret"
    BY <1>0, <2>1, <2>4 DEF Recovery, Follows, Shared, Teardown, Mount, Undoing, Deprovisioning
  <2>5. CASE Now(r) = "unmount"
    <3>1. Broke(r, TRUE) \/ Broke(r, FALSE) => ~Failing(r)
      BY <2>5 DEF Failing, Broke, Unrepaired, Deprovisioning
    <3>. QED  BY <1>2, <2>5, <3>1
  <2>. QED  BY <1>s, <2>2, <2>3, <2>4, <2>5 DEF Making
<1>3. CASE Acting(r) /\ Now(r)' \in Follows(req[r], Now(r))
  <2>1. CASE Now(r) \in Making
    BY <1>0, <1>3, <2>1 DEF Follows, Shared, Making, Mount
  <2>2. CASE Now(r) \in Undoing
    BY <1>0, <1>s, <1>3, <2>2 DEF Follows, Shared, Teardown, Mount, Undoing, Deprovisioning
  <2>. QED  BY <2>1, <2>2 DEF Making
<1>. QED  BY <1>1, <1>2, <1>3

LEMMA CallKeepsMounted ==
  ASSUME Typed, Owned, Serving, Tidy, NEW r \in InFlight, Acting(r) \/ Failing(r),
         NEW m \in Mounts
  PROVE  Mounted(m)'
<1>1. /\ Server(r) \in Servers /\ raced \subseteq raced' /\ torn \subseteq torn'
      /\ req[r].op \in Working /\ Fits(req[r], Now(r)) /\ None \notin Mounts
  BY Itself, AtWork, ServersAssumption DEF Typed, Server
<1> SUFFICES ASSUME vault'.engine[m] # "absent", raced' \cup torn' = {}
             PROVE  \/ \E s \in Servers : row'[s].cred = m
                    \/ \E q \in InFlight' : /\ req'[q].op = "deploy" /\ Mount(q)' = m
                                            /\ Now(q)' \in (Making \ {"mount"}) \cup Undoing
  BY DEF Mounted, Claimed
<1>2. row[Server(r)] = req[r].seen
  BY ReadsItsRow
<1>3. vault'.engine = EngineAfter(r) \/ Failing(r)
  BY DEF Acting, Effect
<1>4. ASSUME req[r].op = "deploy", Mount(r) = m,
             \/ Now(r) \in (Making \ {"mount"}) \cup Undoing
             \/ Now(r) = "mount" /\ Acting(r)
      PROVE  \/ \E s \in Servers : row'[s].cred = m
             \/ \E q \in InFlight' : /\ req'[q].op = "deploy" /\ Mount(q)' = m
                                     /\ Now(q)' \in (Making \ {"mount"}) \cup Undoing
  <2>1. CASE Acting(r) /\ Now(r) = "save"
    <3>1. row'[Server(r)] = req[r].row
      BY <1>1, <2>1 DEF Acting, Effect, RowAfter, Typed, Data
    <3>. QED  BY <1>1, <1>4, <3>1 DEF Mount
  <2>2. CASE Acting(r) /\ Now(r) = "unmount"
    <3>1. vault'.engine[m] = "absent"
      BY <1>4, <2>2 DEF Acting, Effect, EngineAfter, Typed, Data
    <3>. QED  BY <3>1
  <2>. QED  BY <1>1, <1>4, <2>1, <2>2, DeployerKeepsMount
<1>5. CASE vault.engine[m] = "absent"
  BY <1>4, <1>5, EngineAppears
<1>6. CASE Claimed(m)
  <2> PICK s \in Servers : row[s].cred = m
    BY <1>6 DEF Claimed
  <2>1. CASE row'[s] = row[s]
    BY <2>1
  <2>2. CASE row'[s] # row[s]
    <3>1. s = Server(r) /\ row' # row
      BY <2>2, RowChanges
    <3>2. req[r].seen.cred = m /\ req[r].seen # NoRow
      BY <1>1, <1>2, <3>1 DEF NoRow
    <3>3. CASE Now(r) = "save" /\ row'[s] = req[r].row
      <4>1. req[r].op \in {"update", "test"}
        BY <3>1, <3>2, <3>3, RowChanges DEF Serving, Marked, Making
      <4>. QED  BY <1>1, <3>2, <3>3, <4>1 DEF Fits
    <3>4. CASE Now(r) = "unrow" /\ req[r].op = "delete"
      <4>1. Mount(r) = m
        BY <1>1, <3>2, <3>4 DEF Fits, Mount
      <4>2. vault.engine[m] = "absent"
        BY <1>1, <3>4, <4>1 DEF Tidy, Cleared
      <4>. QED  BY <1>5, <4>2
    <3>. QED  BY <3>1, <3>3, <3>4, RowChanges
  <2>. QED  BY <2>1, <2>2
<1>7. CASE \E q \in InFlight : /\ req[q].op = "deploy" /\ Mount(q) = m
                               /\ Now(q) \in (Making \ {"mount"}) \cup Undoing
  <2> PICK q \in InFlight : /\ req[q].op = "deploy" /\ Mount(q) = m
                            /\ Now(q) \in (Making \ {"mount"}) \cup Undoing
    BY <1>7
  <2>1. CASE q = r
    BY <1>4, <2>1
  <2>2. CASE q # r
    <3>1. q \in Requests \ {r}
      BY <2>2 DEF InFlight
    <3>. QED  BY <3>1, OthersStay
  <2>. QED  BY <2>1, <2>2
<1>8. vault.engine[m] # "absent" => Mounted(m) /\ raced \cup torn = {}
  BY <1>1 DEF Tidy
<1>. QED  BY <1>5, <1>6, <1>7, <1>8 DEF Mounted

\* Who works on a server without a row: a deployment that brings it up, or takes back
\* what it has made, and an administrator whose request finds nothing.
LEMMA Rowless ==
  ASSUME Typed, Serving, Tidy, NEW r \in InFlight, Acting(r) \/ Failing(r),
         Server(r) \notin raced', row[Server(r)] = NoRow
  PROVE  \/ /\ req[r].op = "deploy" /\ Now(r) \in {"collide"} \cup Making \cup Undoing
            /\ \A q \in On(Server(r)) : q = r \/ req[q].op = "test"
         \/ req[r].op = "addons" /\ Now(r) = "read" /\ Failing(r)
<1>1. req[r].seen = NoRow /\ Clashing(r) = {}
  BY ReadsItsRow
<1>2. /\ req[r].op \in Working /\ Now(r) \in StepsOf(req[r].op) /\ Fits(req[r], Now(r))
      /\ Known(r) /\ NoRow.cred = None /\ None \notin Credentials
  BY AtWork, Names DEF Typed, Tidy, NoRow
<1>3. req[r].op \notin {"update", "test", "delete"}
  BY <1>1, <1>2 DEF Fits, Row
<1>4. CASE req[r].op = "deploy"
  <2>1. Now(r) \notin Wiring
    BY <1>1, <1>2, <1>4 DEF Known, Fits, Row, Mount
  <2>2. Now(r) \in {"collide"} \cup Making \cup Undoing
    BY <1>2, <1>4, <2>1 DEF StepsOf, Making, Undoing
  <2>3. ASSUME NEW q \in On(Server(r)) PROVE q = r \/ req[q].op = "test"
    BY <1>1, <1>4, <2>3 DEF Clashing, On, Server
  <2>. QED  BY <1>4, <2>2, <2>3
<1>5. CASE req[r].op = "addons"
  <2>1. Now(r) \notin AfterRead
    BY <1>1, <1>2, <1>5 DEF Known, Fits, Row, Mount
  <2>2. Now(r) = "read"
    BY <1>2, <1>5, <2>1 DEF StepsOf, Wiring, AfterRead
  <2>3. ~Acting(r)
    BY <2>2 DEF Acting, Effect, Allowed
  <2>. QED  BY <1>5, <2>2, <2>3
<1>. QED  BY <1>2, <1>3, <1>4, <1>5 DEF Working

\* Who brings up a server is still there after a step of another.
LEMMA RaisingOthers ==
  ASSUME NEW r \in InFlight, Acting(r) \/ Failing(r), NEW q \in Requests \ {r},
         NEW s, NEW steps, Raising(q, s, steps)
  PROVE  Raising(q, s, steps)' /\ Now(q)' = Now(q) /\ Mount(q)' = Mount(q)
BY OthersStay DEF Raising, On

\* What a deployment leaves behind it, step by step.
LEMMA DeploymentLeaves ==
  ASSUME Typed, Serving, Tidy, NEW r \in InFlight, Acting(r) \/ Failing(r),
         req[r].op = "deploy", Now(r) \in {"collide"} \cup Making \cup Undoing,
         NEW s, s = Server(r), s \notin torn', ~(Acting(r) /\ Now(r) = "save"),
         NEW c, c = Mount(r), vault.has[s] \subseteq Remains(c, Now(r)),
         job[s] = NoJob \/ Now(r) \in {"place", "save", "purge"}
  PROVE  LET next == Now(r)' IN
         /\ next = "over" \/ next \in Making \cup Undoing
         /\ job'[s] = NoJob \/ next \in {"place", "save", "purge"}
         /\ IF next = "over" THEN vault'.has[s] = {}
                             ELSE vault'.has[s] \subseteq Remains(c, next)
<1> DEFINE step == Now(r)
           next == Now(r)'
<1>1. /\ \/ Acting(r) /\ next \in Follows(req[r], step)
         \/ Acting(r) /\ Broke(r, TRUE)
         \/ Failing(r) /\ Broke(r, FALSE)
      /\ Broke(r, TRUE) \/ Broke(r, FALSE) => next \in Recovery(req[r], step)
  BY DEF Acting, Failing, Outcome, Went, Broke, Moved, NextsOf, Making, Undoing, Deprovisioning
<1>2. /\ Acting(r) => vault'.has = HasAfter(r) /\ job' = JobAfter(r)
      /\ Failing(r) => vault' = vault /\ job' = job
  <2>1. Acting(r) => vault'.has = HasAfter(r) /\ job' = JobAfter(r)
    BY DEF Acting, Effect
  <2>2. Failing(r) => vault' = vault /\ job' = job
    BY DEF Failing
  <2>. QED  BY <2>1, <2>2
<1>3. /\ vault.has \in [Servers -> SUBSET {"secret", "policy", "role"}]
      /\ job \in [Servers -> [def : Definitions, addr : Address] \cup {NoJob}]
      /\ s \in Servers /\ c \in Credentials /\ req[r].row.cred = c
      /\ c \in Mounts \cup {"static", "wif-token", "none"}
      /\ Mounts \cap {"static", "wif-token", "none"} = {}
  BY AtWork, ServersAssumption DEF Typed, Data, Server, Mount, Credentials
<1>4. Known(r) /\ Marked(r)
  BY DEF Tidy, Serving
<1>5. CASE step \in {"collide", "mount", "configure"}
  <2>1. vault'.has = vault.has /\ job' = job /\ vault.has[s] = {}
    BY <1>1, <1>2, <1>5 DEF HasAfter, JobAfter, Remains
  <2>2. next \in {"over", "mount", "configure", "policy"}
    BY <1>1, <1>5 DEF Follows, Recovery
  <2>. QED  BY <1>5, <2>1, <2>2 DEF Making, Undoing, Deprovisioning
<1>6. CASE step \in {"secret", "policy", "role"}
  <2>1. Acting(r) /\ next \in Follows(req[r], step)
    BY <1>1, <1>6 DEF Broke, Unrepaired
  <2>2. /\ step = "secret" => next = "policy"
        /\ step = "policy" => next = "role"
        /\ step = "role" => next = "register"
    BY <2>1 DEF Follows
  <2>3. job' = job
    BY <1>2, <1>6, <2>1 DEF JobAfter
  <2>4. vault'.has[s] \subseteq Holds(c)
    <3>1. CASE step = "secret"
      BY <1>2, <1>3, <1>4, <2>1, <3>1 DEF HasAfter, Remains, Holds, Marked, Mount
    <3>2. CASE step = "policy"
      BY <1>2, <1>3, <1>4, <2>1, <3>2 DEF HasAfter, Remains, Holds, Known, Mount, Deprovisioning
    <3>3. CASE step = "role"
      BY <1>2, <1>3, <1>4, <2>1, <3>3 DEF HasAfter, Remains, Holds, Known, Mount, Deprovisioning
    <3>. QED  BY <1>6, <3>1, <3>2, <3>3
  <2>. QED  BY <1>6, <2>2, <2>3, <2>4 DEF Making, Remains
<1>7. CASE step \in {"register", "place", "save", "purge"}
  <2>1. vault'.has = vault.has /\ vault.has[s] \subseteq Holds(c)
    BY <1>1, <1>2, <1>7 DEF HasAfter, Remains
  <2>2. /\ step = "register" => next = "place" \/ (job'[s] = job[s] /\ next \in Teardown(req[r]))
        /\ step = "place" => next \in {"save", "purge"}
        /\ step = "save" => next = "purge"
        /\ step = "purge" => job'[s] = NoJob /\ next \in Teardown(req[r])
    <3>1. CASE Acting(r) /\ next \in Follows(req[r], step)
      BY <1>2, <1>3, <1>7, <3>1 DEF Follows, Shared, JobAfter
    <3>2. CASE Acting(r) /\ Broke(r, TRUE)
      BY <1>1, <1>2, <1>3, <1>7, <3>2 DEF Broke, Unrepaired, Recovery, Follows, JobAfter
    <3>3. CASE Failing(r) /\ Broke(r, FALSE)
      BY <1>1, <1>2, <1>3, <1>7, <3>3 DEF Broke, Unrepaired, Recovery, Follows
    <3>. QED  BY <1>1, <3>1, <3>2, <3>3
  <2>3. next \in Teardown(req[r]) =>
          \/ next \in {"revoke", "unpolicy"}
          \/ next = "over" /\ Holds(c) = {}
    BY <1>3 DEF Teardown, Ends, Holds
  <2>4. \A x \in {"place", "save", "purge", "revoke", "unpolicy"} : Remains(c, x) = Holds(c)
    BY DEF Remains
  <2>5. {"place", "save", "purge", "revoke", "unpolicy"} \subseteq Making \cup Undoing
    BY DEF Making, Undoing, Deprovisioning
  <2>. QED  BY <1>7, <2>1, <2>2, <2>3, <2>4, <2>5
<1>8. CASE step \in Deprovisioning
  <2>1. Acting(r) /\ next \in Follows(req[r], step)
    <3>1. ~Broke(r, FALSE)
      BY <1>8 DEF Broke, Unrepaired
    <3>2. Recovery(req[r], step) = Follows(req[r], step)
      BY <1>8 DEF Recovery, Deprovisioning
    <3>. QED  BY <1>1, <3>1, <3>2
  <2>2. job' = job /\ job[s] = NoJob
    BY <1>2, <1>8, <2>1 DEF JobAfter, Deprovisioning
  <2>3. \/ step = "revoke" /\ next = "unpolicy"
        \/ step = "unpolicy" /\ next = "unrole"
        \/ step = "unrole" /\ c \in Mounts /\ next = "unmount"
        \/ step = "unrole" /\ c = "static" /\ next = "unsecret"
        \/ step = "unrole" /\ c \in {"wif-token", "none"} /\ next = "over"
        \/ step \in {"unmount", "unsecret"} /\ next = "over"
    BY <1>3, <1>8, <2>1 DEF Follows, Shared, Ends, Deprovisioning
  <2>4. CASE step \in {"revoke", "unpolicy"}
    BY <1>2, <1>3, <2>1, <2>2, <2>3, <2>4 DEF HasAfter, Remains, Holds, Undoing, Deprovisioning
  <2>5. CASE step = "unrole"
    BY <1>2, <1>3, <2>1, <2>2, <2>3, <2>5 DEF HasAfter, Remains, Holds, Undoing, Deprovisioning
  <2>6. CASE step \in {"unmount", "unsecret"}
    BY <1>2, <1>3, <2>1, <2>2, <2>3, <2>6 DEF HasAfter, Remains, Holds
  <2>. QED  BY <2>3, <2>4, <2>5, <2>6
<1>. QED  BY <1>5, <1>6, <1>7, <1>8 DEF Making, Undoing

LEMMA CallKeepsBare ==
  ASSUME Typed, Serving, Tidy, Control', NEW r \in InFlight, Calls(r), Acting(r) \/ Failing(r),
         NEW s \in Servers
  PROVE  Bare(s)'
<1> SUFFICES ASSUME row'[s] = NoRow, s \notin raced' \cup torn' PROVE Bare(s)'
  BY DEF Bare
<1>1. /\ Server(r) \in Servers /\ raced \subseteq raced' /\ torn \subseteq torn'
      /\ r \in Requests /\ Now(r) \in StepsOf(req[r].op) /\ Fits(req[r], Now(r))
      /\ Plan(req[r], req[r].todo, "over") /\ req[r].todo # << >>
  BY Itself, AtWork DEF Typed, Server
<1>2. CASE s # Server(r)
  <2>1. /\ row[s] = NoRow /\ job'[s] = job[s] /\ vault'.has[s] = vault.has[s]
        /\ gw'.peer[s] = gw.peer[s] /\ gw'.vs[s] = gw.vs[s]
        /\ gw'.tokens[s] = gw.tokens[s] /\ (s \in strayed' <=> s \in strayed)
    BY <1>2, OtherServer
  <2>2. Bare(s)
    BY DEF Tidy
  <2>3. \A q \in Requests : \A steps :
          Raising(q, s, steps) => Raising(q, s, steps)' /\ Now(q)' = Now(q) /\ Mount(q)' = Mount(q)
    <3> TAKE q \in Requests
    <3> TAKE steps
    <3> HAVE Raising(q, s, steps)
    <3>1. q # r
      BY <1>2 DEF Raising, On, Server
    <3>. QED  BY <3>1, RaisingOthers
  <2>. QED  BY <1>1, <2>1, <2>2, <2>3 DEF Bare
<1>3. CASE s = Server(r) /\ row[s] = NoRow
  <2>1. \/ /\ req[r].op = "deploy" /\ Now(r) \in {"collide"} \cup Making \cup Undoing
           /\ \A q \in On(Server(r)) : q = r \/ req[q].op = "test"
        \/ req[r].op = "addons" /\ Now(r) = "read" /\ Failing(r)
    BY <1>3, Rowless
  <2>2. Bare(s)
    BY DEF Tidy
  <2>3. CASE req[r].op = "addons" /\ Failing(r)
    <3>1. UNCHANGED <<row, job, vault, gw, strayed>>
      BY <2>3 DEF Failing
    <3>2. \A q \in Requests : \A steps :
            Raising(q, s, steps) => Raising(q, s, steps)' /\ Now(q)' = Now(q) /\ Mount(q)' = Mount(q)
      <4> TAKE q \in Requests
      <4> TAKE steps
      <4> HAVE Raising(q, s, steps)
      <4>1. q # r
        BY <2>3 DEF Raising
      <4>. QED  BY <4>1, RaisingOthers
    <3>. QED  BY <1>1, <1>3, <2>2, <3>1, <3>2 DEF Bare
  <2>4. CASE /\ req[r].op = "deploy" /\ Now(r) \in {"collide"} \cup Making \cup Undoing
             /\ \A q \in On(Server(r)) : q = r \/ req[q].op = "test"
    <3>1. \A q \in Requests : \A steps : Raising(q, s, steps) => q = r /\ Now(r) \in steps
      BY <1>3, <2>4 DEF Raising
    <3>2. /\ job[s] = NoJob \/ Now(r) \in {"place", "save", "purge"}
          /\ vault.has[s] \subseteq Remains(Mount(r), Now(r))
      BY <1>1, <1>3, <2>2, <3>1 DEF Bare
    <3>3. ~(Acting(r) /\ Now(r) = "save")
      <4>1. Now(r) = "save" => req[r].row # NoRow
        BY <1>1, <2>4, NoRowTypes DEF Fits
      <4>. QED  BY <1>1, <1>3, <4>1 DEF Acting, Effect, RowAfter, Typed, Data
    <3>4. LET next == Now(r)' IN
          /\ next = "over" \/ next \in Making \cup Undoing
          /\ job'[s] = NoJob \/ next \in {"place", "save", "purge"}
          /\ IF next = "over" THEN vault'.has[s] = {}
                              ELSE vault'.has[s] \subseteq Remains(Mount(r), next)
      BY <1>3, <2>4, <3>2, <3>3, DeploymentLeaves
    <3>5. Now(r)' # "over" => /\ \A steps : Raising(r, s, steps)' <=> Now(r)' \in steps
                              /\ Mount(r)' = Mount(r)
      <4>1. Now(r) # "read"
        BY <2>4 DEF Making, Undoing, Deprovisioning
      <4>. QED  BY <1>1, <1>3, <2>4, <4>1, Itself DEF Raising, On, Server
    <3>6. gw' = gw /\ strayed' = strayed
      <4>1. Now(r) \notin {"peer", "wirepeer", "repoint", "activate", "unpeer", "unvs", "vs",
                           "untokens", "token", "testvs", "decoy", "probetoken",
                           "unprobetoken", "undecoy", "untest"}
        BY <2>4 DEF Making, Undoing, Deprovisioning
      <4>. QED  BY <4>1 DEF Acting, Failing, Effect, PeerAfter, VSAfter, TokensAfter,
                           ProbeAfter, StrayedAfter, Typed, Data
    <3>7. /\ gw.vs[s] = NoVS /\ gw.tokens[s] = {} /\ (gw.peer[s] = NoPeer \/ s \in strayed)
      BY <1>1, <1>3, <2>2 DEF Bare
    <3>8. job'[s] = NoJob \/ \E q \in Requests : Raising(q, s, {"place", "save", "purge"})'
      BY <1>1, <3>4, <3>5
    <3>9. \A x \in vault'.has[s] : \E q \in Requests :
            /\ Raising(q, s, {"collide"} \cup Making \cup Undoing)'
            /\ x \in Remains(Mount(q)', Now(q)')
      BY <1>1, <3>4, <3>5
    <3>. QED  BY <3>6, <3>7, <3>8, <3>9 DEF Bare, Remains
  <2>. QED  BY <2>1, <2>3, <2>4
<1>4. CASE s = Server(r) /\ row[s] # NoRow
  <2>1. Now(r) = "unrow" /\ req[r].op = "delete"
    <3>1. req[r].op \in {"deploy", "update", "test"} /\ Now(r) = "save" => req[r].row # NoRow
      BY <1>1, NoRowTypes DEF Fits
    <3>. QED  BY <1>4, <3>1, RowChanges
  <2>2. Erased(r) /\ s \notin raced \cup torn
    BY <1>1 DEF Tidy
  <2>3. Whole(r)
    <3>1. "over" \notin StepsOf(req[r].op)
      BY StepNames, NotAStep
    <3>. QED  BY <1>1, <2>1, <3>1, UnrowIsLast DEF Whole, LastStep, Now
  <2>4. /\ job[s] = NoJob /\ (gw.peer[s] = NoPeer \/ s \in strayed) /\ gw.vs[s] = NoVS
        /\ gw.tokens[s] = {} /\ vault.has[s] = {}
    BY <1>4, <2>1, <2>2, <2>3 DEF Erased, Remains
  <2>5. job' = job /\ vault'.has = vault.has /\ gw' = gw /\ strayed' = strayed
    <3>1. CASE Failing(r)
      BY <3>1 DEF Failing
    <3>2. CASE Acting(r)
      <4>1. job' = job /\ vault'.has = vault.has /\ strayed' = strayed
        BY <2>1, <3>2 DEF Acting, Effect, JobAfter, HasAfter, StrayedAfter
      <4>2. gw' = gw
        BY <2>1, <3>2 DEF Acting, Effect, PeerAfter, VSAfter, TokensAfter, ProbeAfter, Typed,
                          Data
      <4>. QED  BY <4>1, <4>2
    <3>. QED  BY <3>1, <3>2
  <2>. QED  BY <2>4, <2>5 DEF Bare
<1>. QED  BY <1>2, <1>3, <1>4

LEMMA CallKeepsFitted ==
  ASSUME Typed, Serving, Tidy, NEW r \in InFlight, Acting(r) \/ Failing(r),
         NEW s \in Servers
  PROVE  Fitted(s)'
<1> SUFFICES ASSUME row'[s] # NoRow, s \notin raced' \cup torn'
             PROVE  vault'.has[s] \subseteq Holds(row'[s].cred)
  BY DEF Fitted
<1>1. /\ Server(r) \in Servers /\ raced \subseteq raced' /\ torn \subseteq torn'
      /\ r \in Requests /\ Now(r) \in StepsOf(req[r].op) /\ Fits(req[r], Now(r))
      /\ req[r].op \in Working
  BY Itself, AtWork DEF Typed, Server
<1>2. CASE s # Server(r)
  <2>1. row'[s] = row[s] /\ vault'.has[s] = vault.has[s]
    BY <1>2, OtherServer
  <2>. QED  BY <1>1, <2>1 DEF Tidy, Fitted
<1>3. CASE s = Server(r) /\ row[s] = NoRow
  <2>1. Now(r) = "save" /\ row'[s] = req[r].row
    BY <1>3, RowChanges
  <2>2. /\ req[r].op = "deploy" /\ \A q \in On(s) : q = r \/ req[q].op = "test"
    BY <1>3, <2>1, Rowless
  <2>3. vault.has[s] \subseteq Holds(Mount(r))
    <3>1. \A q \in Requests : \A steps : Raising(q, s, steps) => q = r
      BY <2>2 DEF Raising
    <3>. QED  BY <1>1, <1>3, <2>1, <3>1 DEF Tidy, Bare, Remains
  <2>4. vault'.has = vault.has
    <3>1. CASE Failing(r)
      BY <3>1 DEF Failing
    <3>2. CASE Acting(r)
      BY <2>1, <3>2 DEF Acting, Effect, HasAfter
    <3>. QED  BY <3>1, <3>2
  <2>. QED  BY <2>1, <2>3, <2>4 DEF Mount
<1>4. CASE s = Server(r) /\ row[s] # NoRow
  <2>1. row[s] = req[r].seen /\ vault.has[s] \subseteq Holds(row[s].cred)
    BY <1>1, <1>4, ReadsItsRow DEF Tidy, Fitted
  <2>2. req[r].op = "deploy" => Now(r) \notin {"collide"} \cup Making \cup Undoing
    BY <1>4, <2>1 DEF Serving, Marked
  <2>3. row'[s].cred = row[s].cred
    <3>1. CASE Now(r) = "save" /\ row'[s] = req[r].row /\ req[r].op \in {"update", "test"}
      BY <1>1, <2>1, <3>1 DEF Fits
    <3>. QED  BY <1>4, <2>2, <3>1, RowChanges DEF Making
  <2>4. vault'.has[s] \subseteq vault.has[s] \cup Holds(row[s].cred)
    <3>1. CASE Failing(r)
      BY <3>1 DEF Failing
    <3>2. CASE Acting(r)
      <4>1. Now(r) \notin {"secret", "policy", "role"}
        BY <1>1, <2>2 DEF Working, StepsOf, Making, Wiring, Deprovisioning
      <4>2. Now(r) = "grants" => "policy" \in Holds(row[s].cred)
        <5> HAVE Now(r) = "grants"
        <5>1. req[r].op = "update"
          BY <1>1 DEF Working, StepsOf, Wiring, Deprovisioning
        <5>2. row[s].cred = Mount(r) /\ Mount(r) # "none"
          BY <1>1, <2>1, <5>1 DEF Fits, Mount, Tidy, Known
        <5>. QED  BY <5>2 DEF Holds
      <4>3. vault'.has = HasAfter(r)
        BY <3>2 DEF Acting, Effect
      <4>. QED  BY <1>1, <1>4, <4>1, <4>2, <4>3 DEF HasAfter, Typed, Data
    <3>. QED  BY <3>1, <3>2
  <2>. QED  BY <2>1, <2>3, <2>4
<1>. QED  BY <1>2, <1>3, <1>4

\* A delete takes away what it says, one after the other.
LEMMA CallKeepsItsErased ==
  ASSUME Typed, Tidy, NEW r \in InFlight, Calls(r), Acting(r) \/ Failing(r), r \in InFlight'
  PROVE  Erased(r)'
<1> DEFINE step == Now(r)
           next == Now(r)'
           a == req[r]
<1>1. /\ req'[r].op = a.op /\ Server(r)' = Server(r)
      /\ step # "read" => Mount(r)' = Mount(r)
      /\ raced \subseteq raced' /\ torn \subseteq torn' /\ next # "over"
  BY Itself
<1> SUFFICES ASSUME a.op = "delete", NEW s, s = Server(r), s \notin raced' \cup torn'
             PROVE  Erased(r)'
  BY <1>1 DEF Erased
<1>2. /\ s \in Servers /\ step \in StepsOf("delete") /\ Fits(a, step) /\ a.row \in Row
      /\ a.row.cred \in Credentials
  BY AtWork DEF Typed, Server, Fits, Row
<1>3. step \in {"purge", "unpeer", "unvs", "untokens"} \cup Deprovisioning
  <2>1. step # "unrow"
    BY <1>1, Itself DEF NextsOf, Recovery, Follows, Shared
  <2>. QED  BY <1>2, <2>1 DEF StepsOf
<1>4. next \in Follows(a, step)
  BY <1>3, Itself DEF NextsOf, Recovery, Deprovisioning
<1>5. req'[r].row = a.row /\ Mount(r)' = Mount(r)
  <2>1. step \notin {"read", "place", "peer", "wirepeer"}
    BY <1>3 DEF Deprovisioning
  <2>2. req'[r].row = a.row
    BY <1>1, <2>1, NewKeeps, ForgottenKeeps DEF Acting, Failing, Outcome, Went, Broke, Moved
  <2>. QED  BY <2>2 DEF Mount
<1>6. Erased(r)
  BY DEF Tidy
<1>7. step \in {"purge", "unpeer", "unvs", "untokens", "revoke"} => Acting(r)
  BY DEF Failing, Broke, Unrepaired
<1>8. Whole(r)' => Whole(r) /\ Undone(r)
  BY WholeKept
<1>9. /\ Acting(r) => /\ job' = JobAfter(r) /\ gw'.peer = PeerAfter(r) /\ gw'.vs = VSAfter(r)
                      /\ gw'.tokens = TokensAfter(r) /\ vault'.has = HasAfter(r)
                      /\ strayed' = StrayedAfter(r)
      /\ Failing(r) => UNCHANGED <<job, gw, vault, strayed>>
  <2>1. Acting(r) => /\ job' = JobAfter(r) /\ gw'.peer = PeerAfter(r) /\ gw'.vs = VSAfter(r)
                     /\ gw'.tokens = TokensAfter(r) /\ vault'.has = HasAfter(r)
                     /\ strayed' = StrayedAfter(r)
    BY DEF Acting, Effect
  <2>2. Failing(r) => UNCHANGED <<job, gw, vault, strayed>>
    BY DEF Failing
  <2>. QED  BY <2>1, <2>2
<1>10. job'[s] = NoJob
  <2>1. CASE step = "purge"
    BY <1>2, <1>7, <1>9, <2>1 DEF JobAfter, Typed, Data
  <2>2. CASE step # "purge"
    <3>1. job' = job
      BY <1>3, <1>9, <2>2 DEF JobAfter, Deprovisioning
    <3>. QED  BY <1>1, <1>6, <2>2, <3>1 DEF Erased
  <2>. QED  BY <2>1, <2>2
<1>11. /\ next = "unpeer" => gw'.peer[s].id = a.row.peer \/ s \in strayed'
       /\ next # "unpeer" => gw'.peer[s] = NoPeer \/ s \in strayed'
  <2>1. CASE step = "purge"
    <3>1. gw'.peer[s] = gw.peer[s] /\ strayed' = strayed
      BY <1>9, <2>1 DEF PeerAfter, StrayedAfter
    <3>2. gw.peer[s].id = a.row.peer \/ s \in strayed
      BY <1>1, <1>6, <2>1 DEF Erased
    <3>3. next # "unpeer" => a.row.peer = None
      BY <1>4, <2>1 DEF Follows
    <3>4. gw.peer[s].id = None => gw.peer[s] = NoPeer
      BY <1>2, Names DEF Typed, Data
    <3>. QED  BY <3>1, <3>2, <3>3, <3>4
  <2>2. CASE step = "unpeer"
    <3>1. gw.peer[s].id = a.row.peer \/ s \in strayed
      BY <1>1, <1>6, <2>2 DEF Erased
    <3>2. /\ gw.peer[s].id = a.row.peer => gw'.peer[s] = NoPeer
          /\ s \in strayed => gw'.peer[s] = NoPeer \/ s \in strayed'
      BY <1>2, <1>7, <1>9, <2>2 DEF PeerAfter, StrayedAfter, Typed, Data
    <3>3. next # "unpeer"
      BY <1>4, <2>2 DEF Follows
    <3>. QED  BY <3>1, <3>2, <3>3
  <2>3. CASE step \notin {"purge", "unpeer"}
    <3>1. gw'.peer[s] = gw.peer[s] /\ strayed' = strayed
      BY <1>3, <1>9, <2>3 DEF PeerAfter, StrayedAfter, Deprovisioning
    <3>2. gw.peer[s] = NoPeer \/ s \in strayed
      BY <1>1, <1>6, <2>3 DEF Erased
    <3>3. next # "unpeer"
      BY <1>3, <1>4, <2>3 DEF Follows, Shared, Teardown, Ends, Deprovisioning
    <3>. QED  BY <3>1, <3>2, <3>3
  <2>. QED  BY <2>1, <2>2, <2>3
<1>12. next \notin {"unpeer", "unvs"} => gw'.vs[s] = NoVS
  <2> HAVE next \notin {"unpeer", "unvs"}
  <2>1. step \notin {"purge", "unpeer"}
    BY <1>4 DEF Follows
  <2>2. CASE step = "unvs"
    BY <1>2, <1>7, <1>9, <2>2 DEF VSAfter, Typed, Data
  <2>3. CASE step # "unvs"
    <3>1. gw'.vs = gw.vs
      BY <1>3, <1>9, <2>1, <2>3 DEF VSAfter, Deprovisioning
    <3>. QED  BY <1>1, <1>6, <2>1, <2>3, <3>1 DEF Erased
  <2>. QED  BY <2>2, <2>3
<1>13. next \in Deprovisioning \cup {"unrow"} => gw'.tokens[s] = {}
  <2> HAVE next \in Deprovisioning \cup {"unrow"}
  <2>1. step \notin {"purge", "unpeer", "unvs"}
    BY <1>4 DEF Follows, Deprovisioning
  <2>2. CASE step = "untokens"
    BY <1>2, <1>7, <1>9, <2>2 DEF TokensAfter, Typed, Data
  <2>3. CASE step # "untokens"
    <3>1. gw'.tokens = gw.tokens
      BY <1>3, <1>9, <2>1, <2>3 DEF TokensAfter, Deprovisioning
    <3>. QED  BY <1>1, <1>3, <1>6, <2>1, <2>3, <3>1 DEF Erased
  <2>. QED  BY <2>2, <2>3
<1>14. Whole(r)' => vault'.has[s] \subseteq Remains(Mount(r), next)
  <2> HAVE Whole(r)'
  <2> DEFINE c == a.row.cred
  <2>1. vault.has[s] \subseteq Remains(c, step) /\ Undone(r) /\ Mount(r) = c
    BY <1>1, <1>6, <1>8 DEF Erased, Mount
  <2>2. /\ c \in Mounts \cup {"static", "wif-token", "none"}
        /\ Mounts \cap {"static", "wif-token", "none"} = {}
    BY <1>2, ServersAssumption DEF Credentials
  <2>3. CASE step \in {"purge", "unpeer", "unvs", "untokens"}
    <3>1. vault'.has = vault.has /\ Remains(c, step) = Holds(c)
      BY <1>9, <2>3 DEF HasAfter, Remains
    <3>2. next \in {"unpeer", "unvs", "untokens", "revoke", "unpolicy"} \/ Holds(c) = {}
      BY <1>4, <2>2, <2>3 DEF Follows, Teardown, Ends, Holds
    <3>3. \A x \in {"unpeer", "unvs", "untokens", "revoke", "unpolicy"} : Remains(c, x) = Holds(c)
      BY DEF Remains
    <3>. QED  BY <2>1, <3>1, <3>2, <3>3
  <2>4. CASE step \in Deprovisioning
    <3>1. vault'.has = HasAfter(r)
      BY <2>1, <2>4 DEF Undone
    <3>2. \/ step = "revoke" /\ next = "unpolicy"
          \/ step = "unpolicy" /\ next = "unrole"
          \/ step = "unrole" /\ c \in Mounts /\ next = "unmount"
          \/ step = "unrole" /\ c = "static" /\ next = "unsecret"
          \/ step = "unrole" /\ c \in {"wif-token", "none"} /\ next \in {"unrow", "over"}
          \/ step \in {"unmount", "unsecret"} /\ next \in {"unrow", "over"}
      BY <1>4, <2>2, <2>4 DEF Follows, Shared, Ends, Deprovisioning
    <3>3. vault.has \in [Servers -> SUBSET {"secret", "policy", "role"}]
      BY DEF Typed, Data
    <3>. QED  BY <1>1, <1>2, <2>1, <2>2, <3>1, <3>2, <3>3 DEF HasAfter, Remains, Holds
  <2>. QED  BY <1>3, <2>3, <2>4
<1>15. next # "purge"
  BY <1>3, <1>4 DEF Follows, Shared, Teardown, Ends, Deprovisioning
<1>16. /\ Now(r)' = "unpeer" => gw'.peer[s].id = req'[r].row.peer \/ s \in strayed'
       /\ Server(r)' = s
  BY <1>1, <1>5, <1>11
<1>. QED  BY <1>1, <1>5, <1>10, <1>11, <1>12, <1>13, <1>14, <1>15, <1>16 DEF Erased

LEMMA CallKeepsItsCleared ==
  ASSUME Typed, Tidy, Control', NEW r \in InFlight, Calls(r), Acting(r) \/ Failing(r),
         r \in InFlight'
  PROVE  Cleared(r)'
<1>1. /\ req'[r].op = req[r].op /\ (Now(r) # "read" => Mount(r)' = Mount(r))
      /\ Now(r)' \in NextsOf(r) \cup Recovery(req[r], Now(r))
  BY Itself
<1> SUFFICES ASSUME req[r].op = "delete", Now(r)' = "unrow", Mount(r)' \in Mounts
             PROVE  vault'.engine[Mount(r)'] = "absent"
  BY <1>1 DEF Cleared
<1>2. Now(r) \in StepsOf("delete") /\ Mounts \cap {"static", "wif-token", "none"} = {}
  BY AtWork, ServersAssumption DEF Typed
<1>3. Mount(r)' = Mount(r) /\ Mount(r) \in Mounts
  BY <1>1, <1>2 DEF StepsOf, Deprovisioning
<1>4. Now(r) = "unmount"
  <2>1. "unrow" \in Follows(req[r], Now(r))
    BY <1>1, <1>2 DEF StepsOf, NextsOf, Recovery, Deprovisioning
  <2>2. Now(r) # "unsecret"
    BY <1>2, <1>3 DEF Tidy, Known
  <2>. QED  BY <1>2, <1>3, <2>1, <2>2 DEF StepsOf, Follows, Shared, Teardown, Ends, Mount,
                                          Deprovisioning
<1>5. Whole(r)'
  <2>1. /\ req'[r].todo # << >> /\ Plan(req'[r], req'[r].todo, "over")
        /\ Lead(req'[r].todo, "over") = "unrow"
    <3>1. r \in Requests /\ req'[r].op \notin Over
      BY AtWork DEF Typed, InFlight
    <3>2. Planned(req'[r])
      BY <3>1 DEF Control
    <3>. QED  BY <3>2 DEF Planned, Now
  <2>2. "over" \notin StepsOf(req'[r].op)
    BY StepNames, NotAStep
  <2>3. LET todo == req'[r].todo IN todo[Len(todo)] = "unrow"
    BY <1>1, <2>1, <2>2, UnrowIsLast
  <2>. QED  BY <2>3 DEF Whole, LastStep
<1>6. Undone(r)
  BY <1>5, WholeKept
<1>. QED  BY <1>3, <1>4, <1>6 DEF Undone, EngineAfter, Deprovisioning, Typed, Data

LEMMA CallKeepsItsKnown ==
  ASSUME Typed, Serving, Tidy, NEW r \in InFlight, Acting(r) \/ Failing(r), r \in InFlight'
  PROVE  Known(r)'
<1> DEFINE step == Now(r)
           next == Now(r)'
<1>1. /\ req'[r].op = req[r].op /\ next # "over"
      /\ step # "read" => Mount(r)' = Mount(r)
      /\ step \notin {"read", "save"} => req'[r].seen = req[r].seen
      /\ next \in NextsOf(r) \cup Recovery(req[r], step)
  BY Itself
<1>2. /\ req[r].op \in Working /\ step \in StepsOf(req[r].op) /\ Known(r) /\ Marked(r)
      /\ Mounts \cap {"static", "wif-token", "none"} = {}
  BY AtWork, ServersAssumption DEF Typed, Tidy, Serving
<1>3. step = "save" => req'[r].seen.cred = req[r].row.cred \/ Broke(r, TRUE) \/ Broke(r, FALSE)
  <2> HAVE step = "save"
  <2>1. Moved(r, NewOf(r), NextsOf(r)) \/ Broke(r, TRUE) \/ Broke(r, FALSE)
    BY DEF Acting, Failing, Outcome, Went
  <2>. QED  BY <1>1, <2>1, NewKeeps DEF Moved
<1>4. step = "read" =>
        (Broke(r, TRUE) \/ Broke(r, FALSE) \/ req'[r].seen.cred = req'[r].row.cred)
  <2> HAVE step = "read"
  <2>1. Moved(r, NewOf(r), NextsOf(r)) \/ Broke(r, TRUE) \/ Broke(r, FALSE)
    BY DEF Acting, Failing, Outcome, Went
  <2>. QED  BY <1>1, <2>1, NewKeeps DEF Moved
<1>5. Broke(r, TRUE) \/ Broke(r, FALSE) => next \in Recovery(req[r], step)
  BY DEF Broke, Moved
<1>6. ASSUME req[r].op = "deploy", next \in Wiring PROVE req'[r].seen.cred = Mount(r)'
  <2>1. next \notin Recovery(req[r], step)
    BY <1>6, <1>2 DEF Recovery, Follows, Shared, Teardown, Ends, Wiring, Deprovisioning
  <2>2. step \in Wiring \cup {"save"}
    BY <1>1, <1>2, <1>6, <2>1 DEF NextsOf, Follows, Shared, Teardown, Ends, StepsOf, Wiring,
                                  Deprovisioning
  <2>. QED  BY <1>1, <1>2, <1>3, <1>4, <1>5, <1>6, <2>1, <2>2 DEF Known, Mount, Wiring
<1>7. ASSUME req[r].op = "addons", next \in AfterRead PROVE req'[r].seen.cred = Mount(r)'
  <2>1. next \notin Recovery(req[r], step)
    BY <1>1, <1>7 DEF Recovery
  <2>2. step \in AfterRead \cup {"read"} /\ step # "save"
    BY <1>2, <1>7 DEF StepsOf, Wiring, AfterRead
  <2>. QED  BY <1>1, <1>2, <1>4, <1>5, <1>7, <2>1, <2>2 DEF Known, Mount
<1>8. req[r].op = "update" => next # "grants"
  BY <1>1, <1>2 DEF NextsOf, Recovery, Follows, Shared, StepsOf, Wiring
<1>9. ASSUME req[r].op = "deploy", next \in {"policy", "role"} PROVE Mount(r)' # "none"
  <2>1. step \in {"configure", "secret", "policy"}
    BY <1>1, <1>2, <1>9 DEF NextsOf, Recovery, Follows, Shared, Teardown, Ends, StepsOf, Wiring,
                            Deprovisioning
  <2>. QED  BY <1>1, <1>2, <1>9, <2>1 DEF Known, Marked
<1>10. ASSUME req[r].op \in {"deploy", "delete"}, next = "unsecret" PROVE Mount(r)' = "static"
  <2>1. step # "referenced" => next \in Follows(req[r], step) \/ next \in Recovery(req[r], step)
    BY <1>1 DEF NextsOf
  <2>2. step # "referenced"
    BY <1>1, <1>10 DEF NextsOf, Recovery, Follows, Shared, Deprovisioning
  <2>3. "unsecret" \notin Teardown(req[r]) \cup Ends(req[r])
    BY DEF Teardown, Ends
  <2>4. step \notin Deprovisioning => "unsecret" \notin Follows(req[r], step)
    BY <2>3 DEF Follows, Shared, Deprovisioning
  <2>5. "unsecret" \in Follows(req[r], step)
    BY <1>10, <2>1, <2>2, <2>3 DEF Recovery
  <2>6. step \in Deprovisioning
    BY <2>4, <2>5
  <2>7. step = "unrole" /\ req[r].row.cred = "static"
    BY <1>2, <2>3, <2>5, <2>6 DEF Follows, Shared, Deprovisioning
  <2>. QED  BY <1>1, <2>7 DEF Mount
<1>. QED  BY <1>1, <1>6, <1>7, <1>8, <1>9, <1>10 DEF Known

LEMMA BeginKeepsTidy ==
  ASSUME Typed, Tidy, NEW r \in Requests, NEW s \in Servers, Begun(r, s)
  PROVE  Tidy'
<1>1. /\ r \notin InFlight /\ UNCHANGED <<row, raced, torn, job, vault, gw>>
      /\ strayed \subseteq strayed'
  BY BeginEffect
<1>2. ASSUME NEW q \in InFlight PROVE /\ q \in Requests \ {r} /\ q \in InFlight'
                                      /\ req'[q] = req[q] /\ Now(q)' = Now(q)
                                      /\ Mount(q)' = Mount(q) /\ Server(q)' = Server(q)
  <2>1. q \in Requests \ {r}
    BY <1>1 DEF InFlight
  <2>. QED  BY <2>1, BeginOthers
<1>3. ASSUME NEW t \in Servers PROVE Bare(t)' /\ Fitted(t)'
  <2>1. \A q \in Requests : \A steps : Raising(q, t, steps) =>
          Raising(q, t, steps)' /\ Now(q)' = Now(q) /\ Mount(q)' = Mount(q)
    BY <1>2 DEF Raising, On
  <2>2. Bare(t) /\ Fitted(t)
    BY DEF Tidy
  <2>3. Bare(t)'
    BY <1>1, <2>1, <2>2 DEF Bare
  <2>. QED  BY <1>1, <2>2, <2>3 DEF Fitted
<1>4. ASSUME NEW m \in Mounts PROVE Mounted(m)'
  BY <1>1, <1>2 DEF Tidy, Mounted, Claimed
<1>5. ASSUME NEW q \in InFlight', q # r PROVE (Erased(q) /\ Cleared(q) /\ Known(q))'
  <2>1. q \in Requests \ {r}
    BY <1>5 DEF InFlight
  <2>2. q \in InFlight
    BY <1>5, <2>1, BeginOthers
  <2>3. /\ req'[q] = req[q] /\ Now(q)' = Now(q) /\ Mount(q)' = Mount(q)
        /\ Server(q)' = Server(q) /\ (Whole(q)' <=> Whole(q))
    BY <1>2, <2>2 DEF Whole, LastStep
  <2>4. Erased(q) /\ Cleared(q) /\ Known(q)
    BY <2>2 DEF Tidy
  <2>5. Erased(q)'
    BY <1>1, <2>3, <2>4 DEF Erased
  <2>. QED  BY <1>1, <2>3, <2>4, <2>5 DEF Cleared, Known
<1>6. (Erased(r) /\ Cleared(r) /\ Known(r))'
  <2>1. \/ \E c \in Credentials, d \in Definitions : DeployBegan(r, s, c, d)
        \/ \E d \in Definitions : UpdateBegan(r, s, d)
        \/ TestBegan(r, s) \/ DeleteBegan(r, s) \/ AddonsBegan(r, s)
    BY DEF Begun
  <2>2. ASSUME NEW c \in Credentials, NEW d \in Definitions, DeployBegan(r, s, c, d)
        PROVE  (Erased(r) /\ Cleared(r) /\ Known(r))'
    <3>1. req'[r].op = "deploy" /\ Mount(r)' = c /\ Now(r)' = Starts(c)
      BY <2>2 DEF DeployBegan, Began, Mount, NoRow
    <3>2. /\ Starts(c) \in {"collide", "secret", "policy", "register"}
          /\ Starts(c) = "policy" => c # "none"
      BY ServersAssumption DEF Starts, Credentials
    <3>. QED  BY <3>1, <3>2 DEF Erased, Cleared, Known, Wiring
  <2>3. ASSUME NEW d \in Definitions, UpdateBegan(r, s, d)
        PROVE  (Erased(r) /\ Cleared(r) /\ Known(r))'
    <3>1. row[s] \in Row
      BY <2>3 DEF UpdateBegan, Typed, Data
    <3>2. /\ req'[r].op = "update" /\ Mount(r)' = row[s].cred
          /\ Now(r)' = "grants" => row[s].cred # "none"
      BY <2>3, <3>1 DEF UpdateBegan, Began, Row, Mount
    <3>. QED  BY <3>2 DEF Erased, Cleared, Known
  <2>4. CASE TestBegan(r, s)
    BY <2>4 DEF TestBegan, Began, Erased, Cleared, Known
  <2>5. CASE DeleteBegan(r, s)
    <3>1. /\ req'[r].op = "delete" /\ Now(r)' = "purge" /\ Server(r)' = s
          /\ req'[r].row = row[s] /\ Mount(r)' = row[s].cred /\ row[s] # NoRow
          /\ strayed' = IF row[s].peer # gw.peer[s].id THEN strayed \cup {s} ELSE strayed
      BY <2>5 DEF DeleteBegan, Began, Server, Mount
    <3>2. s \notin raced \cup torn => vault.has[s] \subseteq Remains(row[s].cred, "purge")
      BY <3>1 DEF Tidy, Fitted, Remains
    <3>3. gw.peer[s].id = row[s].peer \/ s \in strayed'
      BY <3>1
    <3>. QED  BY <1>1, <3>1, <3>2, <3>3 DEF Erased, Cleared, Known, Deprovisioning
  <2>6. CASE AddonsBegan(r, s)
    BY <2>6 DEF AddonsBegan, Began, Erased, Cleared, Known, AfterRead
  <2>. QED  BY <2>1, <2>2, <2>3, <2>4, <2>5, <2>6
<1>. QED  BY <1>3, <1>4, <1>5, <1>6 DEF Tidy

LEMMA CrashKeepsTidy ==
  ASSUME Typed, Tidy, Crashed
  PROVE  Tidy'
<1>1. InFlight' = {} /\ UNCHANGED <<row, job, vault, gw, raced, strayed>> /\ torn \subseteq torn'
  BY NoRowTypes DEF Crashed, InFlight, Over
<1>2. ASSUME NEW q \in InFlight, req[q].op = "deploy" PROVE Server(q) \in torn'
  BY <1>2 DEF Crashed
<1>3. ASSUME NEW s \in Servers PROVE Bare(s)' /\ Fitted(s)'
  <2>1. s \notin torn' => \A q \in Requests : \A steps : ~Raising(q, s, steps)
    BY <1>2 DEF Raising, On, Server
  <2>2. Bare(s) /\ Fitted(s)
    BY DEF Tidy
  <2>3. Fitted(s)'
    BY <1>1, <2>2 DEF Fitted
  <2>4. row[s] = NoRow /\ s \notin raced \cup torn' =>
          /\ job[s] = NoJob /\ vault.has[s] = {} /\ gw.vs[s] = NoVS /\ gw.tokens[s] = {}
          /\ (gw.peer[s] = NoPeer \/ s \in strayed)
    BY <1>1, <2>1, <2>2 DEF Bare
  <2>. QED  BY <1>1, <2>3, <2>4 DEF Bare
<1>4. ASSUME NEW m \in Mounts PROVE Mounted(m)'
  BY <1>1, <1>2 DEF Tidy, Mounted, Claimed
<1>. QED  BY <1>1, <1>3, <1>4 DEF Tidy

LEMMA SurroundingsKeepTidy ==
  ASSUME Typed, Tidy, NEW s \in Servers, Reschedule(s) \/ Deactivate(s) \/ Lease(s)
  PROVE  Tidy'
<1>1. /\ UNCHANGED <<row, req, raced, torn>> /\ strayed \subseteq strayed'
      /\ vault'.engine = vault.engine /\ vault'.has = vault.has
      /\ gw'.vs = gw.vs /\ gw'.tokens = gw.tokens
      /\ \A t \in Servers : job[t] = NoJob => job'[t] = NoJob
      /\ \A t \in Servers : gw'.peer[t].id = gw.peer[t].id
      /\ \A t \in Servers : gw.peer[t] = NoPeer => gw'.peer[t] = NoPeer
  <2>1. CASE Reschedule(s)
    BY <2>1 DEF Reschedule, Typed, Data
  <2>2. CASE Deactivate(s)
    BY <2>2 DEF Deactivate, history, Typed, Data, NoPeer
  <2>3. CASE Lease(s)
    BY <2>3 DEF Lease, history, Typed, Data
  <2>. QED  BY <2>1, <2>2, <2>3
<1>2. /\ InFlight' = InFlight /\ \A q \in Requests : req'[q] = req[q] /\ Now(q)' = Now(q)
      /\ \A q \in Requests : Mount(q)' = Mount(q) /\ Server(q)' = Server(q)
      /\ \A q \in Requests : Whole(q)' <=> Whole(q)
  BY <1>1 DEF InFlight, Now, Mount, Server, Whole, LastStep
<1>3. ASSUME NEW t \in Servers PROVE Bare(t)' /\ Fitted(t)'
  <2>1. \A q \in Requests : \A steps : Raising(q, t, steps)' <=> Raising(q, t, steps)
    BY <1>2 DEF Raising, On
  <2>2. Bare(t) /\ Fitted(t)
    BY DEF Tidy
  <2>3. Bare(t)'
    BY <1>1, <1>2, <2>1, <2>2 DEF Bare
  <2>. QED  BY <1>1, <2>2, <2>3 DEF Fitted
<1>4. ASSUME NEW m \in Mounts PROVE Mounted(m)'
  <2>1. \A q \in InFlight : q \in Requests
    BY DEF InFlight
  <2>. QED  BY <1>1, <1>2, <2>1 DEF Tidy, Mounted, Claimed
<1>5. ASSUME NEW q \in InFlight' PROVE (Erased(q) /\ Cleared(q) /\ Known(q))'
  <2>1. q \in InFlight /\ q \in Requests /\ Server(q) \in Servers
    BY <1>2, <1>5, AtWork DEF Typed, Server
  <2>2. Erased(q) /\ Cleared(q) /\ Known(q)
    BY <2>1 DEF Tidy
  <2>3. Erased(q)'
    BY <1>1, <1>2, <2>1, <2>2 DEF Erased
  <2>. QED  BY <1>1, <1>2, <2>1, <2>2, <2>3 DEF Cleared, Known
<1>. QED  BY <1>3, <1>4, <1>5 DEF Tidy

LEMMA StepKeepsTidy ==
  ASSUME Typed, Owned, Serving, Tidy, [Next]_vars
  PROVE  Tidy'
<1>1. Control' /\ Step
  BY StepKeepsControl
<1>2. ASSUME NEW r \in InFlight, Calls(r), Acting(r) \/ Failing(r) PROVE Tidy'
  <2>1. ASSUME NEW q \in InFlight' PROVE (Erased(q) /\ Cleared(q) /\ Known(q))'
    <3>1. CASE q = r
      BY <1>1, <1>2, <3>1, <2>1, CallKeepsItsErased, CallKeepsItsCleared, CallKeepsItsKnown
    <3>2. CASE q # r
      <4>1. q \in InFlight /\ q \in Requests \ {r}
        BY <1>2, <2>1, <3>2, OthersStay DEF InFlight
      <4>2. Known(q)'
        BY <1>2, <4>1, OthersStay DEF Tidy, Known
      <4>. QED  BY <1>2, <3>2, <4>1, <4>2, CallKeepsErased, CallKeepsCleared
    <3>. QED  BY <3>1, <3>2
  <2>2. ASSUME NEW s \in Servers PROVE Bare(s)' /\ Fitted(s)'
    BY <1>1, <1>2, CallKeepsBare, CallKeepsFitted
  <2>3. ASSUME NEW m \in Mounts PROVE Mounted(m)'
    BY <1>2, CallKeepsMounted
  <2>. QED  BY <2>1, <2>2, <2>3 DEF Tidy
<1>3. ASSUME UNCHANGED vars PROVE Tidy'
  <2>1. /\ UNCHANGED <<row, req, raced, torn, job, vault, gw, strayed>> /\ InFlight' = InFlight
    BY <1>3 DEF vars, history, InFlight
  <2>. QED  BY <2>1 DEF Tidy, Bare, Fitted, Erased, Cleared, Known, Mounted, Claimed, Raising, On,
                        Now, Mount, Server, Whole, LastStep
<1>. QED  BY <1>1, <1>2, <1>3, BeginKeepsTidy, CrashKeepsTidy, SurroundingsKeepTidy DEF Step

LEMMA AlwaysTidy == Spec => []Tidy
<1>1. Init => Tidy
  <2> SUFFICES ASSUME Init PROVE Tidy
    OBVIOUS
  <2>1. InFlight = {}
    BY DEF Init, InFlight, Over, Idle
  <2>2. CASE Empty
    <3>1. NoRow \notin Row /\ \A s \in Servers : row[s] = NoRow
      BY <2>2, NoRowTypes DEF Empty, PerServer
    <3>. QED  BY <2>1, <2>2, <3>1 DEF Empty, PerServer, Tidy, Bare, Fitted, Mounted
  <2>3. ASSUME NEW t \in Servers, NEW c \in Credentials, NEW d \in Definitions,
               NEW stage \in {"deployed", "tested", "wired"}, Founded(t, c, d, stage)
        PROVE  Tidy
    <3>1. /\ row[t].cred = c /\ \A s \in Servers \ {t} : row[s] = NoRow
          /\ vault.has[t] = Holds(c)
          /\ \A m \in Mounts : vault.engine[m] # "absent" => m = c
      BY <2>3 DEF Founded, PerServer
    <3>2. row[t] # NoRow
      BY <3>1, Names DEF NoRow
    <3>3. \A s \in Servers \ {t} : /\ job[s] = NoJob /\ vault.has[s] = {} /\ gw.vs[s] = NoVS
                                   /\ gw.tokens[s] = {} /\ gw.peer[s] = NoPeer
      BY <2>3 DEF Founded, PerServer
    <3>. QED  BY <2>1, <3>1, <3>2, <3>3 DEF Tidy, Bare, Fitted, Mounted, Claimed
  <2>. QED  BY <2>2, <2>3 DEF Init
<1>2. Typed /\ Owned /\ Serving /\ Tidy /\ [Next]_vars => Tidy'
  BY StepKeepsTidy
<1>. QED  BY <1>1, <1>2, AlwaysTyped, AlwaysOwned, AlwaysServing, PTL DEF Spec

\* A server without a row has no job, nothing in Vault, no virtual server and no
\* token: a failed deployment is undone, and a delete has removed all that before
\* the row.  Its peer is gone as well if the row named it, which it does not for
\* a peer that only a wiring has registered.  Excepted are overlapping requests
\* on the server, a setup in Vault that fails half way, a crash and a failed call
\* of a teardown; without any of these, every engine is that of a stored server.
\* (DeployServer, DeleteServer, Deprovision)
THEOREM NothingIsLeft == Spec => []NothingLeftBehind
<1>1. Typed /\ Tidy => NothingLeftBehind
  <2> SUFFICES ASSUME Typed, Tidy PROVE NothingLeftBehind
    OBVIOUS
  <2>1. ASSUME NEW s \in Servers, row[s] = NoRow, Sound(s)
        PROVE  /\ job[s] = NoJob /\ vault.has[s] = {} /\ gw.vs[s] = NoVS
               /\ gw.tokens[s] = {} /\ (gw.peer[s] = NoPeer \/ s \in strayed)
    <3>1. \A q \in Requests : \A steps : ~Raising(q, s, steps)
      BY <2>1 DEF Sound, Quiet, Raising
    <3>. QED  BY <2>1, <3>1 DEF Tidy, Bare, Sound
  <2>2. ASSUME NEW m \in Mounts, vault.engine[m] # "absent", InFlight = {}, raced \cup torn = {}
        PROVE  Claimed(m)
    BY <2>2 DEF Tidy, Mounted
  <2>. QED  BY <2>1, <2>2 DEF NothingLeftBehind
<1>. QED  BY <1>1, AlwaysTyped, AlwaysTidy, PTL

--------------------------------------------------------------------------------
(* The wiring.                                                             *)

\* An update that takes its peer back has the wiring before it.
LEMMA CallKeepsItsReturn ==
  ASSUME Typed, Linking, NEW r \in InFlight, Calls(r), Acting(r) \/ Failing(r),
         r \in InFlight', req[r].op = "update"
  PROVE  /\ Now(r)' = "unpeer" => LastStep(r)' = "referenced"
         /\ Now(r) = "unpeer" => Now(r)' = "save" /\ LastStep(r)' = "referenced"
<1> DEFINE todo == req[r].todo
<1>1. /\ req[r] \in Op /\ todo # << >> /\ Plan(req[r], todo, "over") /\ todo[1] = Now(r)
      /\ Now(r) \in StepsOf("update") /\ todo \in Seq(StepsOf("update"))
  BY AtWork DEF Typed, Plan, Now, Lead
<1>2. req'[r] # Idle("over")
  BY NoRowTypes DEF InFlight, Over
<1>3. /\ Now(r)' # "over"
      /\ Now(r)' \in NextsOf(r) \cup Recovery(req[r], Now(r))
  BY Itself
<1>4. Now(r)' = "unpeer" => Now(r) \in {"repoint", "activate"}
  BY <1>1, <1>3 DEF NextsOf, Recovery, Follows, Shared, StepsOf, Wiring
<1>5. ASSUME Now(r) \in {"repoint", "activate"}, Now(r)' = "unpeer"
      PROVE  LastStep(r)' = "referenced"
  <2>1. Remaining(r, Now(r)) = <<"unpeer", "save", "referenced">>
    BY <1>5 DEF Remaining, UpdateFails
  <2>2. ~Took(r, Tail(todo))
    <3>1. Lead(Tail(todo), "over") \in Follows(req[r], Now(r))
      BY <1>1, TailPlan
    <3>2. Lead(Tail(todo), "over") # "unpeer"
      BY <1>5, <3>1 DEF Follows
    <3>3. ASSUME Took(r, Tail(todo)) PROVE Now(r)' = Lead(Tail(todo), "over")
      BY <1>2, <3>3 DEF Took, Now
    <3>. QED  BY <1>5, <3>2, <3>3
  <2>3. req'[r].todo = <<"unpeer", "save", "referenced">>
    BY <1>2, <1>5, <2>1, <2>2, CallTakes DEF Took
  <2>. QED  BY <2>3 DEF LastStep
<1>6. ASSUME Now(r) = "unpeer" PROVE Now(r)' = "save" /\ LastStep(r)' = "referenced"
  <2>1. Now(r)' = "save"
    BY <1>3, <1>6 DEF NextsOf, Recovery, Follows
  <2>2. Remaining(r, Now(r)) = Tail(todo)
    BY <1>6 DEF Remaining, UpdateFails
  <2>3. Tail(todo) # << >> /\ req'[r].todo = Tail(todo)
    BY <1>2, <1>6, <2>2, CallTakes DEF Took
  <2>4. Tail(todo)[Len(Tail(todo))] = todo[Len(todo)]
    BY <1>1, <2>3, TailLast
  <2>5. todo[Len(todo)] = "referenced"
    BY <1>6 DEF Linking, Returns, LastStep
  <2>. QED  BY <2>1, <2>3, <2>4, <2>5 DEF LastStep
<1>. QED  BY <1>4, <1>5, <1>6

\* An update that will wire the server again goes on when it has stored the row.
LEMMA SaveGoesOn ==
  ASSUME Typed, NEW r \in InFlight, Calls(r), req[r].op = "update", Now(r) = "save",
         LastStep(r) = "referenced", Server(r) \notin torn'
  PROVE  Now(r)' = "referenced"
<1> DEFINE todo == req[r].todo
           b == [[req[r] EXCEPT !.seen = req[r].row] EXCEPT !.todo = Tail(@)]
<1>1. /\ req[r] \in Op /\ todo # << >> /\ Plan(req[r], todo, "over") /\ todo[1] = "save"
      /\ todo \in Seq(StepsOf("update")) /\ Head(todo) = "save"
      /\ r \in Requests /\ req \in [Requests -> Op]
  BY AtWork DEF Typed, Plan, Now, Lead, Control
<1>2. \A step : At(r, step) <=> step = "save"
  BY AtNow
<1>3. ~Fails(r, TRUE) /\ ~Fails(r, FALSE)
  BY <1>1 DEF Fails, Unrepaired
<1>4. Save(r)
  BY <1>2, <1>3
  DEF Calls, CallFails, RejectMountCollision, DeleteRow, RewireIfReferenced, ReadRow, SaveAddons,
      RegisterJob, ResolvePlacement, PurgeJob, MountEngine, ConfigureEngine, WriteSecret,
      WritePolicy, WriteWIFRole, UpdateGrants, RevokeLeases, DeletePolicy, DeleteWIFRole,
      DeleteSecret, Gains, Loses, UnmountEngine, WriteWiring, RegisterPeer, UpdatePeer,
      ActivatePeer, DiscoverTools, DeletePeer, DeleteVirtualServer, CreateVirtualServer,
      RevokeTokensByPrefix, CreateScopedToken, ProbeVS, ProbeDecoy, ProbeToken,
      ProbeScopedToken, DropProbeTokens, DropProbeDecoy, DropProbeVS, OnGateway
<1>5. Become(r, b)
  BY <1>3, <1>4 DEF Save, AnsweredAs
<1>6. b.todo = Tail(todo)
  BY <1>1 DEF Op
<1> HIDE DEF b
<1>7. Tail(todo) # << >> /\ Tail(todo)[1] \in StepsOf("update")
  <2> DEFINE S == StepsOf("update")
             n == Len(todo)
  <2>1. todo \in Seq(S) /\ todo # << >> /\ n \in Nat /\ n # 0
    BY <1>1
  <2>2. n = 1 => todo[n] = "save"
    BY <1>1
  <2>3. n # 1
    BY <2>2 DEF LastStep
  <2>4. Tail(todo) \in Seq(S) /\ Len(Tail(todo)) = n - 1
    BY <2>1
  <2> HIDE DEF S, n
  <2>5. n - 1 \in Nat \ {0}
    BY <2>1, <2>3
  <2>6. Len(Tail(todo)) \in Nat \ {0}
    BY <2>4, <2>5
  <2>7. Tail(todo) # << >>
    BY <2>6, NoLength
  <2>8. Tail(todo)[1] \in S
    <3> DEFINE t == Tail(todo)
    <3>1. t \in Seq(S) /\ Len(t) \in Nat \ {0}
      BY <2>4, <2>6
    <3> HIDE DEF t
    <3>2. t[1] \in S
      BY <3>1
    <3>. QED  BY <3>2 DEF t
  <2>. QED  BY <2>7, <2>8 DEF S
<1>8. req'[r].todo = Tail(todo)
  BY <1>1, <1>5, <1>6, <1>7 DEF Become
<1>9. Lead(Tail(todo), "over") \in {"referenced", "over"}
  <2>1. Lead(Tail(todo), "over") \in Follows(req[r], todo[1])
    BY <1>1, TailPlan
  <2>. QED  BY <1>1, <2>1 DEF Follows
<1>10. Lead(Tail(todo), "over") # "over"
  BY <1>7, StepNames, NotAStep DEF Lead
<1>. QED  BY <1>8, <1>9, <1>10 DEF Now

\* What is wired stays so as long as nothing touches it, or a peer is looked up.
LEMMA TestKeepsWiring ==
  ASSUME Typed, NEW r \in InFlight, Acting(r) \/ Failing(r), NEW s \in Servers,
         s # Server(r) \/ Now(r) \notin {"unpeer", "unvs", "vs", "untokens", "token", "kv"}
  PROVE  /\ gw.peer[s].id # None => gw'.peer[s].id = gw.peer[s].id
         /\ gw'.vs[s] = gw.vs[s] /\ gw'.tokens[s] = gw.tokens[s] /\ vault'.kv[s] = vault.kv[s]
         /\ Wired(s) => Wired(s)'
<1>1. CASE s # Server(r)
  BY <1>1, OtherServer DEF Wired
<1>2. CASE s = Server(r) /\ Failing(r)
  BY <1>2 DEF Failing, Wired
<1>3. CASE s = Server(r) /\ Acting(r)
  <2>1. gw'.vs[s] = gw.vs[s] /\ gw'.tokens[s] = gw.tokens[s] /\ vault'.kv[s] = vault.kv[s]
    BY <1>3 DEF Acting, Effect, VSAfter, TokensAfter, KVAfter
  <2>2. gw.peer[s].id # None => gw'.peer[s].id = gw.peer[s].id
    BY <1>3 DEF Acting, Effect, PeerAfter, Found, Typed, Data
  <2>3. Wired(s) => gw.peer[s].id # None
    BY Names DEF Wired, Typed, Data, NoVS
  <2>. QED  BY <2>1, <2>2, <2>3 DEF Wired
<1>. QED  BY <1>1, <1>2, <1>3

LEMMA OthersGoOn ==
  ASSUME NEW r \in InFlight, Acting(r) \/ Failing(r), NEW q \in Requests \ {r}, NEW s
  PROVE  (Rewires(q, s) => Rewires(q, s)') /\ (Moves(q, s) => Moves(q, s)')
<1>1. /\ req'[q] = req[q] /\ Now(q)' = Now(q) /\ (q \in InFlight' <=> q \in InFlight)
      /\ LastStep(q)' = LastStep(q)
  BY OthersStay DEF LastStep
<1>. QED  BY <1>1 DEF Rewires, Moves, On

\* The token that is written last is of what has been made before.
LEMMA WrittenIsWired ==
  ASSUME Typed, Linking, NEW r \in InFlight, Acting(r), Now(r) = "kv",
         NEW s, s = Server(r), s \notin raced
  PROVE  Wired(s)'
<1>1. req[r].op \in Rewirers /\ s \in Servers /\ r \in Requests /\ r # None
  BY AtWork, Names DEF Typed, Working, StepsOf, Deprovisioning, Rewirers, Server
<1>2. /\ gw.peer[s].id = req[r].row.peer /\ gw.vs[s] = [id |-> r, peer |-> req[r].row.peer]
      /\ r \in gw.tokens[s]
  BY <1>1 DEF Linking, Linked
<1>3. vault'.kv[s] = r
  BY <1>1 DEF Acting, Effect, KVAfter, Typed, Data
<1>4. gw'.peer[s] = gw.peer[s] /\ gw'.vs[s] = gw.vs[s] /\ gw'.tokens[s] = gw.tokens[s]
  BY DEF Acting, Effect, PeerAfter, VSAfter, TokensAfter
<1>. QED  BY <1>1, <1>2, <1>3, <1>4 DEF Wired

\* A request that will wire a referenced server again does so, unless it fails.
LEMMA WiringGoesOn ==
  ASSUME Typed, Linking, NEW r \in InFlight, Calls(r), Acting(r) \/ Failing(r),
         NEW s, s = Server(r), Rewires(r, s), s \in addons,
         s \notin raced' \cup torn' \cup unwired'
  PROVE  Rewires(r, s)' \/ Wired(s)'
<1>1. /\ Now(r)' \in NextsOf(r) \cup Recovery(req[r], Now(r))
      /\ Now(r)' # "over" => r \in On(s)' /\ req'[r].op = req[r].op
      /\ s \notin raced /\ req[r].op \in Rewirers
  BY Itself DEF Rewires, On, InFlight, Server
<1>2. CASE Now(r) \in Wiring
  <2>1. ~Broke(r, TRUE) /\ ~Broke(r, FALSE)
    BY <1>2 DEF Broke
  <2>2. Acting(r) /\ Now(r)' \in NextsOf(r)
    BY <2>1 DEF Acting, Failing, Outcome, Went, Moved
  <2>3. CASE Now(r) = "kv"
    BY <1>1, <2>2, <2>3, WrittenIsWired
  <2>4. CASE Now(r) # "kv"
    <3>1. Now(r)' \in Wiring
      BY <1>1, <1>2, <2>2, <2>4 DEF NextsOf, Follows, Shared, Wiring, Rewirers
    <3>2. Now(r)' # "over"
      BY <3>1 DEF Wiring
    <3>. QED  BY <1>1, <3>1, <3>2 DEF Rewires
  <2>. QED  BY <2>3, <2>4
<1>3. CASE req[r].op = "update" /\ Now(r) = "unpeer"
  <2>1. Now(r)' = "save"
    BY <1>1, <1>3 DEF NextsOf, Recovery, Follows
  <2>2. r \in InFlight'
    BY <2>1, Itself
  <2>3. LastStep(r)' = "referenced"
    BY <1>3, <2>2, CallKeepsItsReturn
  <2>. QED  BY <1>1, <1>3, <2>1, <2>3 DEF Rewires
<1>4. CASE req[r].op = "update" /\ Now(r) = "save" /\ LastStep(r) = "referenced"
  <2>1. Now(r)' = "referenced"
    BY <1>4, SaveGoesOn
  <2>. QED  BY <1>1, <2>1 DEF Rewires, Wiring
<1>. QED  BY <1>2, <1>3, <1>4 DEF Rewires

\* A stored server is at the hands of a deployment only when that wires it.
LEMMA StoredIsKept ==
  ASSUME Typed, Serving, NEW r \in InFlight, Acting(r) \/ Failing(r), NEW s,
         s = Server(r), s \notin raced' \cup doomed', row[s] # NoRow, row'[s] # NoRow
  PROVE  /\ s \notin doomed /\ req[r].op # "delete"
         /\ req[r].op = "deploy" => Now(r) \in Wiring
<1>1. s \in Servers /\ s \notin raced /\ row[s] = req[r].seen
  BY AtWork, Itself, ReadsItsRow DEF Typed, Server
<1>2. s \notin doomed
  <2>1. CASE Failing(r)
    BY <2>1 DEF Failing
  <2>2. CASE Acting(r)
    <3>1. Now(r) # "unrow"
      BY <1>1, <2>2 DEF Acting, Effect, RowAfter, Typed, Data
    <3>. QED  BY <2>2, <3>1 DEF Acting, Effect, DoomedAfter
  <2>. QED  BY <2>1, <2>2
<1>3. Marked(r) /\ Now(r) \in StepsOf(req[r].op)
  BY AtWork DEF Serving, Typed
<1>4. req[r].op # "delete"
  BY <1>1, <1>2, <1>3 DEF Marked
<1>5. req[r].op = "deploy" => Now(r) \in Wiring
  BY <1>1, <1>3 DEF Marked, StepsOf, Making, Undoing
<1>. QED  BY <1>2, <1>4, <1>5

LEMMA CallKeepsJoins ==
  ASSUME Typed, Serving, Tidy, Linking, NEW r \in InFlight, Calls(r),
         Acting(r) \/ Failing(r), NEW s \in Servers
  PROVE  Joins(s)'
<1> SUFFICES ASSUME s \in addons', row'[s] # NoRow,
                    s \notin raced' \cup torn' \cup unwired' \cup doomed',
                    \A q \in Requests : ~Rewires(q, s)'
             PROVE  Wired(s)'
  BY DEF Joins
<1>1. s \notin raced \cup torn /\ r \in Requests
  BY Itself DEF InFlight
<1>2. \A q \in Requests \ {r} : ~Rewires(q, s)
  BY OthersGoOn
<1>3. CASE s # Server(r)
  <2>1. ~Rewires(r, s)
    BY <1>3 DEF Rewires, On, Server
  <2>2. Wired(s)
    BY <1>1, <1>2, <1>3, <2>1, OtherServer DEF Linking, Joins
  <2>. QED  BY <1>3, <2>2, TestKeepsWiring
<1>4. CASE s = Server(r) /\ row[s] = NoRow
  <2>1. Now(r) = "save" /\ Acting(r)
    BY <1>4, RowChanges DEF Failing
  <2>2. req[r].op = "deploy"
    BY <1>4, <2>1, Rowless
  <2>3. ~Broke(r, TRUE)
    BY <1>4, <2>1, <2>2 DEF Broke, Unrepaired
  <2>4. Now(r)' = "referenced"
    BY <2>1, <2>2, <2>3 DEF Acting, Outcome, Went, Moved, NextsOf, Follows
  <2>5. Rewires(r, s)'
    BY <1>4, <2>2, <2>4, Itself DEF Rewires, On, Rewirers, Wiring, InFlight, Server
  <2>. QED  BY <1>1, <2>5
<1>5. CASE s = Server(r) /\ row[s] # NoRow
  <2>1. s \notin doomed /\ req[r].op # "delete"
    BY <1>5, StoredIsKept
  <2>2. CASE Acting(r) /\ Now(r) = "kv"
    BY <1>1, <1>5, <2>2, WrittenIsWired
  <2>3. CASE ~(Acting(r) /\ Now(r) = "kv")
    <3>1. s \notin unwired
      BY <2>3 DEF Acting, Failing, Outcome, Went, Broke
    <3>2. CASE s \notin addons
      <4>1. Now(r) = "addons"
        BY <3>2 DEF Acting, Failing, Effect, AddonsAfter
      <4>2. Wired(s)
        BY <1>1, <1>5, <4>1 DEF Linking, Linked
      <4>. QED  BY <4>1, <4>2, TestKeepsWiring
    <3>3. CASE s \in addons
      <4>1. CASE Rewires(r, s)
        BY <1>1, <1>5, <3>3, <4>1, WiringGoesOn
      <4>2. CASE ~Rewires(r, s)
        <5>1. Wired(s)
          BY <1>1, <1>2, <1>5, <2>1, <3>1, <3>3, <4>2 DEF Linking, Joins
        <5>2. Now(r) \notin {"unpeer", "unvs", "vs", "untokens", "token", "kv"}
          <6>1. r \in On(s) /\ Returns(r) /\ Now(r) \in StepsOf(req[r].op)
                /\ req[r].op \in Working
            BY <1>5, AtWork DEF On, Server, Linking, Typed
          <6>2. req[r].op \in Rewirers => Now(r) \notin Wiring
            BY <4>2, <6>1 DEF Rewires
          <6>3. Now(r) # "unpeer"
            BY <2>1, <4>2, <6>1 DEF Rewires, Returns, Rewirers, StepsOf, Working, Wiring,
                                    Deprovisioning
          <6>. QED  BY <2>1, <6>1, <6>2, <6>3 DEF StepsOf, Working, Rewirers, Wiring
        <5>. QED  BY <5>1, <5>2, TestKeepsWiring
      <4>. QED  BY <4>1, <4>2
    <3>. QED  BY <3>2, <3>3
  <2>. QED  BY <2>2, <2>3
<1>. QED  BY <1>3, <1>4, <1>5

\* A peer that a call touches is where the job is, or moved by the call's request.
LEMMA CallKeepsPeer ==
  ASSUME Typed, Serving, Tidy, Linking, NEW r \in InFlight, Calls(r),
         Acting(r) \/ Failing(r), NEW s \in Servers
  PROVE  PeerFollows(s)'
<1> SUFFICES ASSUME row'[s] # NoRow, s \notin raced' \cup torn' \cup strayed' \cup doomed',
                    \A q \in Requests : ~Moves(q, s)', gw'.peer[s] # NoPeer
             PROVE  Live(s)'
  BY DEF PeerFollows
<1>1. s \notin raced \cup torn /\ r \in Requests
  BY Itself DEF InFlight
<1>2. \A q \in Requests \ {r} : ~Moves(q, s)
  BY OthersGoOn
<1>3. CASE s # Server(r)
  <2>1. ~Moves(r, s)
    BY <1>3 DEF Moves, On, Server
  <2>2. Live(s)
    BY <1>1, <1>2, <1>3, <2>1, OtherServer DEF Linking, PeerFollows
  <2>. QED  BY <1>3, <2>2, OtherServer DEF Live
<1>4. CASE s = Server(r) /\ row[s] = NoRow
  <2>1. Now(r) = "save" /\ Acting(r)
    BY <1>4, RowChanges DEF Failing
  <2>2. gw'.peer = gw.peer /\ strayed' = strayed
    BY <2>1 DEF Acting, Effect, PeerAfter, StrayedAfter
  <2>. QED  BY <1>1, <1>4, <2>2 DEF Tidy, Bare
<1>5. CASE s = Server(r) /\ row[s] # NoRow
  <2>1. /\ s \notin doomed /\ req[r].op # "delete"
        /\ req[r].op = "deploy" => Now(r) \in Wiring
    BY <1>5, StoredIsKept
  <2>2. /\ Now(r) \in StepsOf(req[r].op) /\ req[r].op \in Working
        /\ r \in On(s) /\ Linked(r)
        /\ Now(r)' \in NextsOf(r) \cup Recovery(req[r], Now(r))
        /\ Now(r)' # "over" => r \in On(s)' /\ req'[r].op = req[r].op
    BY <1>5, AtWork, Itself DEF Typed, Linking, On, Server, InFlight
  <2>3. s \in strayed \/ gw.peer[s] = NoPeer \/ Live(s) \/ Moves(r, s)
    BY <1>1, <1>2, <1>5, <2>1 DEF Linking, PeerFollows
  <2>4. req[r].op = "update" => Now(r)' \notin {"place", "peer", "repoint", "activate", "unpeer"}
    BY <1>1, <2>2 DEF Moves
  <2>5. CASE Failing(r)
    <3>1. ~Unrepaired(r, Now(r), FALSE) /\ Now(r)' \in Recovery(req[r], Now(r))
      BY <1>5, <2>5 DEF Failing, Broke, Moved
    <3>2. gw' = gw /\ job' = job /\ strayed' = strayed
      BY <2>5 DEF Failing
    <3>3. ~Moves(r, s)
      <4> SUFFICES ASSUME Moves(r, s) PROVE FALSE
        OBVIOUS
      <4>1. Now(r) \notin {"place", "unpeer"}
        BY <3>1 DEF Moves, Unrepaired
      <4>2. Now(r) # "peer"
        BY <1>5, <3>1, <3>2 DEF Moves, Unrepaired
      <4>3. Now(r) \in {"repoint", "activate"}
        BY <4>1, <4>2 DEF Moves
      <4>. QED  BY <2>4, <3>1, <4>3 DEF Moves, Recovery
    <3>. QED  BY <2>3, <3>2, <3>3 DEF Live
  <2>6. CASE Acting(r)
    <3>1. /\ \/ Now(r)' \in NextsOf(r)
             \/ Now(r)' \in Recovery(req[r], Now(r)) /\ ~Unrepaired(r, Now(r), TRUE)
          /\ gw'.peer = PeerAfter(r) /\ strayed' = StrayedAfter(r) /\ Allowed(r)
          /\ job' = JobAfter(r)
      BY <1>5, <2>6 DEF Acting, Effect, Outcome, Went, Broke, Moved
    <3>2. /\ gw.peer \in [Servers ->
               [id : Makers, addr : Address, active : BOOLEAN] \cup {NoPeer}]
          /\ NoPeer.id = None /\ None \notin Makers
      BY Names DEF Typed, Data, NoPeer
    <3>3. Now(r) # "unpeer"
      <4>1. Now(r) = "unpeer" => req[r].op = "update"
        BY <2>1, <2>2 DEF StepsOf, Working, Wiring, Deprovisioning
      <4>. QED  BY <1>5, <3>1, <3>2, <4>1 DEF PeerAfter, Found
    <3>4. Now(r) \notin {"register", "purge"}
      <4>1. Now(r) \in {"register", "purge"} => req[r].op = "update" /\ Now(r) = "register"
        BY <2>1, <2>2 DEF StepsOf, Working, Wiring, Deprovisioning
      <4>. QED  BY <2>4, <3>1, <4>1 DEF NextsOf, Follows, Shared, Unrepaired
    <3>5. job' = job
      BY <3>1, <3>4 DEF JobAfter
    <3>6. CASE Now(r) \in {"peer", "wirepeer"} /\ Found(r) = None
      <4>1. gw'.peer[s] = [id |-> r, addr |-> req[r].row.addr, active |-> TRUE]
        BY <1>5, <3>1, <3>2, <3>6 DEF PeerAfter
      <4>2. req[r].row.addr = job[s].addr
        BY <1>5, <3>1, <3>6 DEF Allowed, Listening
      <4>. QED  BY <3>5, <4>1, <4>2 DEF Live
    <3>7. CASE Now(r) = "repoint"
      <4>1. req[r].op # "update"
        <5>1. req[r].op = "update" =>
                Now(r)' \in NextsOf(r) \cup Recovery(req[r], Now(r))
          BY <2>2
        <5>. QED  BY <2>4, <3>7, <5>1 DEF NextsOf, Follows, Recovery
      <4>2. gw'.peer[s] = [gw.peer[s] EXCEPT !.addr = req[r].row.addr]
            /\ req[r].row.addr = job[s].addr /\ gw.peer[s].id # None
        BY <1>5, <3>1, <3>2, <3>7 DEF PeerAfter, Allowed, Listening, IsPeer, Found
      <4>3. gw.peer[s].active
        BY <2>3, <3>1, <3>2, <3>7, <4>1, <4>2 DEF Live, Moves, StrayedAfter
      <4>. QED  BY <3>2, <3>5, <4>2, <4>3 DEF Live
    <3>8. CASE Now(r) = "activate"
      <4>1. /\ gw'.peer[s] = [gw.peer[s] EXCEPT !.active = TRUE]
            /\ gw.peer[s].id # None
        BY <1>5, <3>1, <3>2, <3>8 DEF PeerAfter, Allowed, IsPeer, Found
      <4>2. gw.peer[s].addr = job[s].addr
        <5>1. CASE s \in strayed
          BY <1>5, <3>1, <3>8, <5>1 DEF StrayedAfter
        <5>2. CASE s \notin strayed /\ req[r].op = "update"
          BY <1>1, <1>5, <2>1, <2>2, <3>2, <3>8, <4>1, <5>2 DEF Linked
        <5>3. CASE s \notin strayed /\ req[r].op # "update"
          BY <2>3, <3>2, <4>1, <5>3 DEF Live, Moves
        <5>. QED  BY <5>1, <5>2, <5>3
      <4>. QED  BY <3>2, <3>5, <4>1, <4>2 DEF Live
    <3>9. CASE /\ Now(r) \notin {"repoint", "activate"}
               /\ ~(Now(r) \in {"peer", "wirepeer"} /\ Found(r) = None)
      <4>1. gw'.peer[s] = gw.peer[s] /\ strayed' = strayed
        BY <3>1, <3>3, <3>9 DEF PeerAfter, StrayedAfter
      <4>2. ~Moves(r, s)
        <5>1. Moves(r, s) => Now(r) \in {"place", "peer"} /\ req[r].op = "update"
          BY <3>3, <3>9 DEF Moves
        <5>2. Moves(r, s) /\ Now(r) = "place" => FALSE
          BY <2>4, <3>1, <5>1 DEF NextsOf, Follows, Unrepaired
        <5>3. Moves(r, s) /\ Now(r) = "peer" => FALSE
          <6>1. Now(r) = "peer" => gw.peer[s] # NoPeer
            BY <4>1
          <6>. QED  BY <1>5, <2>4, <3>1, <5>1, <6>1 DEF NextsOf, Follows, Unrepaired
        <5>. QED  BY <5>1, <5>2, <5>3
      <4>. QED  BY <2>3, <3>5, <4>1, <4>2 DEF Live
    <3>. QED  BY <3>6, <3>7, <3>8, <3>9
  <2>. QED  BY <2>5, <2>6
<1>. QED  BY <1>3, <1>4, <1>5

\* What one request has linked another one does not take apart: only a test works on
\* the server at the same time.
LEMMA CallKeepsLinked ==
  ASSUME Typed, Linking, NEW r \in InFlight, Acting(r) \/ Failing(r),
         NEW q \in InFlight, q # r, NEW s, s = Server(q)
  PROVE  Linked(q)'
<1>1. q \in Requests \ {r} /\ s \in Servers /\ Now(q) \in StepsOf(req[q].op)
  BY AtWork DEF InFlight, Typed, Server
<1>2. /\ req'[q] = req[q] /\ Now(q)' = Now(q) /\ Server(q)' = s
      /\ raced \subseteq raced' /\ torn \subseteq torn'
  BY <1>1, OthersStay, Itself
<1> SUFFICES ASSUME s \notin raced' PROVE Linked(q)'
  BY <1>2 DEF Linked
<1>3. Linked(q) /\ s \notin raced
  BY <1>2 DEF Linking
<1>4. CASE s # Server(r)
  <2>1. /\ job'[s] = job[s] /\ gw'.peer[s] = gw.peer[s] /\ gw'.vs[s] = gw.vs[s]
        /\ gw'.tokens[s] = gw.tokens[s]
        /\ (s \in strayed' <=> s \in strayed) /\ (s \in doomed' <=> s \in doomed)
    BY <1>1, <1>4, OtherServer
  <2>2. Wired(s) => Wired(s)'
    BY <1>1, <1>4, TestKeepsWiring
  <2>. QED  BY <1>2, <1>3, <2>1, <2>2 DEF Linked
<1>5. CASE s = Server(r) /\ req[q].op = "test"
  <2>1. Now(q) # "addons"
    BY <1>1, <1>5 DEF StepsOf
  <2>. QED  BY <1>2, <1>5, <2>1 DEF Linked, Rewirers
<1>6. CASE s = Server(r) /\ req[q].op # "test"
  <2>1. req[r].op = "test"
    BY <1>6, AloneOrTest
  <2>2. Now(r) \in StepsOf("test")
    BY <2>1, AtWork DEF Typed
  <2>3. /\ gw.peer[s].id # None => gw'.peer[s].id = gw.peer[s].id
        /\ gw'.vs[s] = gw.vs[s] /\ gw'.tokens[s] = gw.tokens[s]
        /\ Wired(s) => Wired(s)'
    BY <1>1, <2>2, TestKeepsWiring DEF StepsOf
  <2>4. s \notin strayed' \cup torn' \cup doomed' /\ req[q].op = "update" /\ Now(q) = "activate"
        => gw'.peer[s] = NoPeer \/ gw'.peer[s].addr = job'[s].addr
    <3> SUFFICES ASSUME s \notin strayed' \cup torn' \cup doomed', req[q].op = "update",
                        Now(q) = "activate"
                 PROVE  gw'.peer[s] = NoPeer \/ gw'.peer[s].addr = job'[s].addr
      OBVIOUS
    <3>1. s \notin strayed \cup torn \cup doomed =>
            gw.peer[s] = NoPeer \/ gw.peer[s].addr = job[s].addr
      BY <1>3 DEF Linked
    <3>2. CASE Failing(r)
      BY <1>2, <3>1, <3>2 DEF Failing
    <3>3. CASE Acting(r)
      <4>1. /\ job' = job /\ doomed' = doomed /\ gw'.peer = PeerAfter(r)
            /\ strayed' = StrayedAfter(r) /\ Allowed(r)
        BY <2>2, <3>3 DEF Acting, Effect, JobAfter, DoomedAfter, StepsOf
      <4>2. gw.peer \in [Servers ->
               [id : Makers, addr : Address, active : BOOLEAN] \cup {NoPeer}]
            /\ NoPeer.id = None
        BY DEF Typed, Data, NoPeer
      <4>3. CASE Now(r) = "peer" /\ Found(r) = None
        BY <1>1, <1>6, <4>1, <4>2, <4>3 DEF PeerAfter, Allowed, Listening
      <4>4. CASE Now(r) = "repoint"
        BY <1>1, <1>6, <4>1, <4>2, <4>4 DEF PeerAfter, Allowed, Listening
      <4>5. CASE Now(r) = "activate"
        <5>1. gw'.peer[s].addr = gw.peer[s].addr /\ gw.peer[s] # NoPeer
          BY <1>1, <1>6, <4>1, <4>2, <4>5 DEF PeerAfter, Allowed, IsPeer, Found
        <5>. QED  BY <1>2, <1>6, <3>1, <4>1, <4>5, <5>1 DEF StrayedAfter
      <4>6. CASE Now(r) \notin {"repoint", "activate"} /\ ~(Now(r) = "peer" /\ Found(r) = None)
        <5>1. gw'.peer = gw.peer /\ strayed' = strayed
          BY <2>2, <4>1, <4>6 DEF PeerAfter, StrayedAfter, StepsOf
        <5>. QED  BY <1>2, <3>1, <4>1, <5>1
      <4>. QED  BY <4>3, <4>4, <4>5, <4>6
    <3>. QED  BY <3>2, <3>3
  <2>. QED  BY <1>2, <1>3, <2>3, <2>4 DEF Linked
<1>. QED  BY <1>4, <1>5, <1>6

\* Each step of a wiring finds what the one before it has made.
LEMMA CallKeepsItsLink ==
  ASSUME Typed, Linking, NEW r \in InFlight, Acting(r) \/ Failing(r), r \in InFlight',
         NEW s, s = Server(r)
  PROVE  Linked(r)'
<1> DEFINE step == Now(r)
           next == Now(r)'
           peer == req'[r].row.peer
<1>1. /\ req'[r].op = req[r].op /\ Server(r)' = s /\ next # "over"
      /\ next \in NextsOf(r) \cup Recovery(req[r], step) /\ raced \subseteq raced'
  BY Itself
<1>2. s \in Servers /\ step \in StepsOf(req[r].op) /\ req[r].op \in Working
      /\ r \in Makers /\ r # None /\ None \notin Makers
  BY AtWork, Names DEF Typed, Server, Makers
<1> SUFFICES ASSUME s \notin raced' PROVE Linked(r)'
  BY <1>1 DEF Linked
<1>3. Linked(r) /\ s \notin raced
  BY <1>1 DEF Linking
<1>4. gw.peer \in [Servers -> [id : Makers, addr : Address, active : BOOLEAN] \cup {NoPeer}]
      /\ gw.vs \in [Servers -> [id : Makers, peer : Makers] \cup {NoVS}]
      /\ gw.tokens \in [Servers -> SUBSET Makers]
  BY DEF Typed, Data
<1>5. next \in Recovery(req[r], step) =>
        /\ req[r].op \in Rewirers =>
             next \notin {"tools", "unvs", "vs", "untokens", "token", "kv", "activate"}
        /\ next # "addons"
  BY <1>2 DEF Recovery, Follows, Shared, Teardown, Ends, Rewirers, Deprovisioning, Working
<1>6. next \notin Recovery(req[r], step) =>
        /\ Acting(r) /\ next \in NextsOf(r) /\ req'[r].row = NewOf(r).row
  BY <1>1 DEF Acting, Failing, Outcome, Went, Broke, Moved
<1>7. ASSUME req[r].op \in Rewirers, next \in {"tools", "unvs", "vs", "untokens", "token", "kv"}
      PROVE  /\ peer # None /\ gw'.peer[s].id = peer
             /\ next \in {"untokens", "token", "kv"} => gw'.vs[s] = [id |-> r, peer |-> peer]
             /\ next = "kv" => r \in gw'.tokens[s]
  <2>1. Acting(r) /\ next \in NextsOf(r) /\ req'[r].row = NewOf(r).row
    BY <1>5, <1>6, <1>7
  <2>2. /\ step \in {"wirepeer", "tools", "unvs", "vs", "untokens", "token"}
        /\ next = "tools" => step = "wirepeer"
        /\ next = "unvs" => step = "tools"
        /\ next = "vs" => step = "unvs"
        /\ next = "untokens" => step = "vs"
        /\ next = "token" => step = "untokens"
        /\ next = "kv" => step = "token"
    BY <1>2, <1>7, <2>1
    DEF NextsOf, Follows, Shared, Teardown, Ends, StepsOf, Wiring, Deprovisioning, Rewirers
  <2>3. gw'.peer = PeerAfter(r) /\ gw'.vs = VSAfter(r) /\ gw'.tokens = TokensAfter(r)
    BY <2>1 DEF Acting, Effect
  <2>4. CASE step = "wirepeer"
    <3>1. peer = IF Found(r) # None THEN Found(r) ELSE r
      <4>1. req[r] \in Op
        BY AtWork DEF Typed
      <4>. QED  BY <2>1, <2>4, <4>1 DEF NewOf, Op, Copy
    <3>2. gw'.peer[s].id = IF Found(r) # None THEN Found(r) ELSE r
      BY <1>2, <1>4, <2>3, <2>4 DEF PeerAfter, Found
    <3>. QED  BY <1>2, <2>2, <2>4, <3>1, <3>2
  <2>5. CASE step # "wirepeer"
    <3>1. peer = req[r].row.peer
      BY <2>1, <2>2, <2>5, NewKeeps
    <3>2. peer # None /\ gw.peer[s].id = peer
      BY <1>3, <1>7, <2>2, <2>5, <3>1 DEF Linked
    <3>3. gw'.peer = gw.peer
      BY <2>2, <2>3, <2>5 DEF PeerAfter
    <3>4. next \in {"untokens", "token", "kv"} => gw'.vs[s] = [id |-> r, peer |-> peer]
      <4>1. CASE step = "vs"
        BY <1>2, <1>4, <2>3, <3>1, <4>1 DEF VSAfter
      <4>2. CASE step \in {"untokens", "token"}
        BY <1>3, <1>7, <2>3, <3>1, <4>2 DEF Linked, VSAfter
      <4>. QED  BY <2>2, <4>1, <4>2
    <3>5. next = "kv" => r \in gw'.tokens[s]
      BY <1>2, <1>4, <2>2, <2>3 DEF TokensAfter
    <3>. QED  BY <3>2, <3>3, <3>4, <3>5
  <2>. QED  BY <2>4, <2>5
<1>8. ASSUME next = "addons" PROVE Wired(s)'
  <2>1. Acting(r) /\ next \in NextsOf(r)
    BY <1>5, <1>6, <1>8
  <2>2. step = "kv"
    BY <1>2, <1>8, <2>1
    DEF NextsOf, Follows, Shared, Teardown, Ends, StepsOf, Wiring, Deprovisioning
  <2>. QED  BY <1>3, <2>1, <2>2, WrittenIsWired
<1>9. ASSUME req[r].op = "update", next = "activate"
      PROVE  gw'.peer[s] = NoPeer \/ gw'.peer[s].addr = job'[s].addr
  <2>1. Acting(r) /\ next \in NextsOf(r)
    BY <1>5, <1>6, <1>9 DEF Rewirers
  <2>2. step = "repoint"
    BY <1>2, <1>9, <2>1 DEF NextsOf, Follows, Shared, StepsOf, Wiring
  <2>3. gw'.peer = PeerAfter(r) /\ job' = job /\ req[r].row.addr = job[s].addr
    BY <2>1, <2>2 DEF Acting, Effect, JobAfter, Allowed, Listening
  <2>. QED  BY <1>2, <1>4, <2>2, <2>3 DEF PeerAfter
<1>. QED  BY <1>1, <1>7, <1>8, <1>9 DEF Linked

LEMMA BeginKeepsLinking ==
  ASSUME Typed, Linking, NEW r \in Requests, NEW s \in Servers, Begun(r, s)
  PROVE  Linking'
<1>1. /\ r \notin InFlight /\ UNCHANGED <<row, raced, torn, unwired, addons, job, vault, gw>>
      /\ strayed \subseteq strayed' /\ doomed \subseteq doomed'
  BY BeginEffect
<1>2. ASSUME NEW q \in InFlight
      PROVE  /\ q \in Requests \ {r} /\ q \in InFlight' /\ req'[q] = req[q] /\ Now(q)' = Now(q)
             /\ Server(q)' = Server(q) /\ LastStep(q)' = LastStep(q)
  <2>1. q \in Requests \ {r}
    BY <1>1 DEF InFlight
  <2>. QED  BY <2>1, BeginOthers DEF LastStep
<1>3. ASSUME NEW t \in Servers PROVE Joins(t)' /\ PeerFollows(t)'
  <2>1. \A q \in Requests : /\ Rewires(q, t) => Rewires(q, t)'
                            /\ Moves(q, t) => Moves(q, t)'
    BY <1>2 DEF Rewires, Moves, On
  <2>2. /\ Joins(t) /\ PeerFollows(t) /\ (Wired(t)' <=> Wired(t)) /\ (Live(t)' <=> Live(t))
    BY <1>1 DEF Linking, Wired, Live
  <2>3. Joins(t)'
    BY <1>1, <2>1, <2>2 DEF Joins
  <2>. QED  BY <1>1, <2>1, <2>2, <2>3 DEF PeerFollows
<1>4. ASSUME NEW q \in InFlight', q # r PROVE Linked(q)' /\ Returns(q)'
  <2>1. q \in InFlight
    BY <1>4, BeginOthers DEF InFlight
  <2>2. Linked(q) /\ Returns(q)
    BY <2>1 DEF Linking
  <2>3. Linked(q)'
    BY <1>1, <1>2, <2>1, <2>2 DEF Linked, Wired
  <2>. QED  BY <1>2, <2>1, <2>2, <2>3 DEF Returns
<1>5. Linked(r)' /\ Returns(r)'
  <2>1. /\ Now(r)' \in {"collide", "secret", "policy", "register", "grants", "save", "place",
                        "purge", "read"}
    BY DEF Begun, DeployBegan, UpdateBegan, TestBegan, DeleteBegan, AddonsBegan, Began, Starts
  <2>. QED  BY <2>1 DEF Linked, Returns
<1>. QED  BY <1>3, <1>4, <1>5 DEF Linking

LEMMA CrashKeepsLinking ==
  ASSUME Typed, Linking, Crashed
  PROVE  Linking'
<1>1. /\ InFlight' = {} /\ torn \subseteq torn'
      /\ UNCHANGED <<row, addons, job, vault, gw, raced, unwired, strayed, doomed>>
  BY NoRowTypes DEF Crashed, InFlight, Over
<1>2. ASSUME NEW q \in InFlight, req[q].op \in Rewirers PROVE Server(q) \in torn'
  BY <1>2 DEF Crashed, Rewirers
<1>3. ASSUME NEW s \in Servers PROVE Joins(s)' /\ PeerFollows(s)'
  <2>1. s \notin torn' => \A q \in Requests : ~Rewires(q, s) /\ ~Moves(q, s)
    BY <1>2 DEF Rewires, Moves, On, Server, Rewirers
  <2>2. /\ Joins(s) /\ PeerFollows(s) /\ (Wired(s)' <=> Wired(s)) /\ (Live(s)' <=> Live(s))
    BY <1>1 DEF Linking, Wired, Live
  <2>3. Joins(s)'
    BY <1>1, <2>1, <2>2 DEF Joins
  <2>. QED  BY <1>1, <2>1, <2>2, <2>3 DEF PeerFollows
<1>. QED  BY <1>1, <1>3 DEF Linking

LEMMA SurroundingsKeepLinking ==
  ASSUME Typed, Linking, NEW s \in Servers, Reschedule(s) \/ Deactivate(s) \/ Lease(s)
  PROVE  Linking'
<1>1. /\ UNCHANGED <<row, addons, req, raced, torn, unwired, doomed>>
      /\ strayed \subseteq strayed' /\ vault'.kv = vault.kv
      /\ gw'.vs = gw.vs /\ gw'.tokens = gw.tokens
      /\ \A t \in Servers : /\ gw'.peer[t].id = gw.peer[t].id
                            /\ gw'.peer[t].addr = gw.peer[t].addr
                            /\ gw.peer[t] = NoPeer => gw'.peer[t] = NoPeer
                            /\ t \notin strayed' => job'[t] = job[t]
                            /\ t \notin strayed' /\ Live(t) => Live(t)'
  <2>1. CASE Reschedule(s)
    BY <2>1 DEF Reschedule, Typed, Data, Live
  <2>2. CASE Deactivate(s)
    BY <2>2 DEF Deactivate, history, Typed, Data, NoPeer, Live
  <2>3. CASE Lease(s)
    BY <2>3 DEF Lease, history, Typed, Data, Live
  <2>. QED  BY <2>1, <2>2, <2>3
<1>2. /\ InFlight' = InFlight
      /\ \A q \in Requests : /\ req'[q] = req[q] /\ Now(q)' = Now(q) /\ Server(q)' = Server(q)
                             /\ LastStep(q)' = LastStep(q)
      /\ \A t \in Servers : Wired(t)' <=> Wired(t)
  BY <1>1 DEF InFlight, Now, Server, LastStep, Wired
<1>3. ASSUME NEW t \in Servers PROVE Joins(t)' /\ PeerFollows(t)'
  <2>1. \A q \in Requests : (Rewires(q, t)' <=> Rewires(q, t)) /\ (Moves(q, t)' <=> Moves(q, t))
    BY <1>2 DEF Rewires, Moves, On
  <2>2. Joins(t) /\ PeerFollows(t)
    BY DEF Linking
  <2>3. Joins(t)'
    BY <1>1, <1>2, <2>1, <2>2 DEF Joins
  <2>. QED  BY <1>1, <2>1, <2>2, <2>3 DEF PeerFollows
<1>4. ASSUME NEW q \in InFlight' PROVE Linked(q)' /\ Returns(q)'
  <2>1. q \in InFlight /\ q \in Requests /\ Server(q) \in Servers
    BY <1>2, <1>4, AtWork DEF Typed, Server
  <2>2. Linked(q) /\ Returns(q)
    BY <2>1 DEF Linking
  <2>3. Linked(q)'
    BY <1>1, <1>2, <2>1, <2>2 DEF Linked, Wired
  <2>. QED  BY <1>2, <2>1, <2>2, <2>3 DEF Returns
<1>. QED  BY <1>3, <1>4 DEF Linking

LEMMA StepKeepsLinking ==
  ASSUME Typed, Serving, Tidy, Linking, [Next]_vars
  PROVE  Linking'
<1>1. Control' /\ Step
  BY StepKeepsControl
<1>2. ASSUME NEW r \in InFlight, Calls(r), Acting(r) \/ Failing(r) PROVE Linking'
  <2>1. ASSUME NEW q \in InFlight' PROVE Linked(q)' /\ Returns(q)'
    <3>1. CASE q = r
      <4>1. Linked(r)'
        BY <1>2, <2>1, <3>1, CallKeepsItsLink
      <4>2. req'[r].op = req[r].op
        BY <1>2, <2>1, <3>1, Itself
      <4>3. Returns(r)'
        BY <1>2, <2>1, <3>1, <4>2, CallKeepsItsReturn DEF Returns
      <4>. QED  BY <3>1, <4>1, <4>3
    <3>2. CASE q # r
      <4>1. q \in InFlight /\ q \in Requests \ {r}
        BY <1>2, <2>1, <3>2, OthersStay DEF InFlight
      <4>2. Returns(q)'
        BY <1>2, <4>1, OthersStay DEF Linking, Returns, LastStep
      <4>. QED  BY <1>2, <3>2, <4>1, <4>2, CallKeepsLinked
    <3>. QED  BY <3>1, <3>2
  <2>2. ASSUME NEW s \in Servers PROVE Joins(s)' /\ PeerFollows(s)'
    BY <1>2, CallKeepsJoins, CallKeepsPeer
  <2>. QED  BY <2>1, <2>2 DEF Linking
<1>3. ASSUME UNCHANGED vars PROVE Linking'
  <2>1. /\ UNCHANGED <<row, addons, req, raced, torn, unwired, job, vault, gw, strayed, doomed>>
        /\ InFlight' = InFlight
    BY <1>3 DEF vars, history, InFlight
  <2>. QED  BY <2>1 DEF Linking, Joins, PeerFollows, Linked, Returns, Wired, Live, Rewires, Moves,
                        On, Now, Server, LastStep
<1>. QED  BY <1>1, <1>2, <1>3, BeginKeepsLinking, CrashKeepsLinking, SurroundingsKeepLinking
          DEF Step

LEMMA AlwaysLinking == Spec => []Linking
<1>1. Init => Linking
  <2> SUFFICES ASSUME Init PROVE Linking
    OBVIOUS
  <2>1. InFlight = {}
    BY DEF Init, InFlight, Over, Idle
  <2>2. CASE Empty
    BY <2>1, <2>2 DEF Empty, PerServer, Linking, Joins, PeerFollows
  <2>3. ASSUME NEW t \in Servers, NEW c \in Credentials, NEW d \in Definitions,
               NEW stage \in {"deployed", "tested", "wired"}, Founded(t, c, d, stage)
        PROVE  Linking
    <3>1. /\ \A s \in Servers \ {t} : row[s] = NoRow
          /\ addons = IF stage = "wired" THEN {t} ELSE {}
          /\ job[t] = [def |-> d, addr |-> <<Founder, 0>>]
          /\ stage = "wired" => /\ vault.kv[t] = Founder
                                /\ gw.vs[t] = [id |-> Founder, peer |-> Founder]
                                /\ gw.tokens[t] = {Founder}
          /\ gw.peer[t] = IF stage # "deployed"
                            THEN [id |-> Founder, addr |-> <<Founder, 0>>, active |-> TRUE]
                            ELSE NoPeer
      BY <2>3 DEF Founded, PerServer
    <3>2. Founder # None
      BY Names DEF Makers
    <3>3. Joins(t) /\ PeerFollows(t)
      BY <3>1, <3>2 DEF Joins, PeerFollows, Wired, Live
    <3>4. ASSUME NEW s \in Servers \ {t} PROVE Joins(s) /\ PeerFollows(s)
      BY <3>1 DEF Joins, PeerFollows
    <3>. QED  BY <2>1, <3>3, <3>4 DEF Linking
  <2>. QED  BY <2>2, <2>3 DEF Init
<1>2. Typed /\ Serving /\ Tidy /\ Linking /\ [Next]_vars => Linking'
  BY StepKeepsLinking
<1>. QED  BY <1>1, <1>2, AlwaysTyped, AlwaysServing, AlwaysTidy, PTL DEF Spec

\* A server that templates reference answers under what workspaces read from Vault:
\* whichever of updates, healed peers, redeployments and references went before, and
\* whatever failed in them and was made good, the stored token is live and of the
\* virtual server there is, this is of the registered peer, and the peer is active
\* where the job is.  Excepted are servers whose last wiring failed, whose job has
\* moved, or whose requests overlapped or left a failure unrepaired.
\* (WireMCPServer, rewireIfReferenced, UpdateServer)
THEOREM ReferencedIsServed == Spec => []WiringServes
<1>1. Typed /\ Linking => WiringServes
  <2> SUFFICES ASSUME Typed, Linking, NEW s \in addons, row[s] # NoRow, Sound(s),
                      s \notin unwired \cup strayed \cup doomed
               PROVE  Wired(s) /\ Live(s)
    BY DEF WiringServes, Wired, Live
  <2>1. s \in Servers /\ s \notin raced \cup torn
    BY DEF Typed, Data, Sound
  <2>2. \A q \in Requests : ~Rewires(q, s) /\ ~Moves(q, s)
    BY DEF Sound, Quiet, Rewires, Moves
  <2>3. Wired(s)
    BY <2>1, <2>2 DEF Linking, Joins
  <2>4. gw.peer[s] = NoPeer \/ Live(s)
    BY <2>1, <2>2 DEF Linking, PeerFollows
  <2>5. gw.peer[s] # NoPeer
    <3>1. gw.vs[s] \in [id : Makers, peer : Makers] \cup {NoVS} /\ None \notin Makers
      BY <2>1, Names DEF Typed, Data
    <3>. QED  BY <2>3, <3>1 DEF Wired, NoVS, NoPeer
  <2>. QED  BY <2>3, <2>4, <2>5
<1>. QED  BY <1>1, AlwaysTyped, AlwaysLinking, PTL
=============================================================================
