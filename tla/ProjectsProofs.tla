----------------------------- MODULE ProjectsProofs -----------------------------
(***************************************************************************)
(* Proofs about Projects, for any requests, people, templates and groups   *)
(* and any bounds.                                                         *)
(***************************************************************************)
EXTENDS Projects, TLAPS

--------------------------------------------------------------------------------
(* The inductive invariant                                                 *)

\* The steps of a plan, and what is left of it after some of them.
Left(todo) == {todo[i] : i \in 1 .. Len(todo)}
Suffix(todo, plan) ==
  \E k \in 0 .. Len(plan) :
    /\ Len(todo) = Len(plan) - k
    /\ \A i \in 1 .. Len(todo) : todo[i] = plan[i + k]

Makings == {"create", "provision"}
Others  == {"github", "update", "template", "delete", "grant", "revoke", "capabilities",
            "volume-create", "volume-delete"}
Ops == Over \cup Makings \cup Others

\* The steps.
Making == {"vault-ns", "jwt", "secret-kv", "provisioner", "ws-role", "nomad-ns",
           "nomad-policy", "binding", "scope", "catalog", "descriptor", "grant", "read"}
Failing == {"fail-read", "fail-save"}
Deleting == {"jobs", "volumes", "un-nomad-ns", "un-binding", "un-nomad-policy", "un-scope",
             "un-vault-ns", "unkey", "templates", "roles", "capabilities", "verdict"}
Tabling == {"group-save", "template-save", "template-drop", "revoke", "restrict"}
Sharing == {"volume", "volume-wait", "volume-row", "unvolume", "volume-unrow"}
Steps == Making \cup Provisioning \cup Failing \cup Syncing \cup Deleting \cup Tabling
           \cup Sharing

Plain == ProvisionPlan(FALSE)
WithGitHub == ProvisionPlan(TRUE)
FailPlan == <<"fail-read", "fail-save">>

\* What a request of each kind has to do.
Plans(op) ==
  CASE op \in Over -> {<< >>}
    [] op = "create" -> {CreatePlan, Plain, FailPlan}
    [] op = "provision" -> {Plain, WithGitHub, FailPlan}
    [] op = "github" -> {<<"github">> \o GitHubPlan}
    [] op = "update" -> {<<"group-save">>}
    [] op = "template" -> {<<"template-save">> \o Sync, <<"template-drop">> \o Sync}
    [] op = "delete" -> {DeletePlan}
    [] op = "grant" -> {<<"grant">>}
    [] op = "revoke" -> {<<"revoke">>}
    [] op = "capabilities" -> {<<"restrict">>}
    [] op = "volume-create" -> {<<"volume", "volume-wait", "volume-row">>, <<"unvolume">>}
    [] OTHER -> {<<"unvolume", "volume-unrow">>}

Args(op) ==
  CASE op = "create" -> Groups \X Subjects
    [] op = "update" -> Groups
    [] op = "template" -> Flavors
    [] op \in {"grant", "revoke"} -> Subjects
    [] OTHER -> {None}

Askings == [op : Ops, arg : UNION {Args(op) : op \in Ops}, copy : Row,
            lib : Makers \cup {None}, flavors : SUBSET Flavors,
            failed : BOOLEAN, swept : BOOLEAN, todo : Seq(Steps)]

\* What a request holds suits what it does; what it writes back, it has read.
Fits(a) ==
  /\ a \in Askings /\ a.arg \in Args(a.op)
  /\ a.todo = << >> <=> a.op \in Over
  /\ \E plan \in Plans(a.op) : Suffix(a.todo, plan)
  /\ a.op \notin Over /\ "read" \notin Left(a.todo) => a.copy # NoRow

Typed ==
  /\ TypeOK
  /\ req \in [Requests -> Askings]
  /\ \A r \in Requests : Fits(req[r])

\* A delete that has swept the volumes finds none, or finds a job.
Swept ==
  \A r \in Requests : req[r].op = "delete" =>
    IF "volumes" \in Left(req[r].todo)
    THEN ~req[r].swept
    ELSE /\ req[r].swept \/ req[r].failed
         /\ req[r].swept /\ "raced" \notin marks =>
              nomad.volume \in {"none", "orphaned"} \/ nomad.job

\* What a delete that has not failed is past, is gone.
Cleared(a, step) == a.op = "delete" /\ ~a.failed /\ step \notin Left(a.todo)

Deleted == "raced" \notin marks => \A r \in Requests :
  /\ Cleared(req[r], "un-nomad-ns") =>
       "nomad-ns" \notin up /\ ~nomad.job /\ nomad.volume \in {"none", "orphaned"}
  /\ Cleared(req[r], "un-binding") => "binding" \notin up
  /\ Cleared(req[r], "un-nomad-policy") => "nomad-policy" \notin up
  /\ Cleared(req[r], "un-scope") => up \cap BoundaryThings = {} /\ lib = None
  /\ Cleared(req[r], "un-vault-ns") => up \cap VaultThings = {} /\ llm.kv = None
  /\ Cleared(req[r], "unkey") => llm.key = None \/ "key-left" \in marks
  /\ Cleared(req[r], "templates") => db.templates = {}
  /\ Cleared(req[r], "roles") => db.admins = {}
  /\ Cleared(req[r], "capabilities") => ~db.restricted

\* After a delete nothing is there and nothing is at work.
Gone == "raced" \notin marks /\ "deleted" \in marks =>
  /\ InFlight = {} /\ row = NoRow
  /\ up = {} /\ lib = None
  /\ llm.kv = None /\ (llm.key = None \/ "key-left" \in marks)
  /\ ~nomad.job /\ nomad.volume \in {"none", "orphaned"}
  /\ db.templates = {} /\ db.admins = {} /\ ~db.restricted

\* Where there is no project, only a creation is at work.
Absent == "raced" \notin marks /\ row = NoRow =>
  db.templates = {} /\ \A r \in InFlight : req[r].op = "create"

\* What was listed is what is there; and what the row says is what is there, but
\* for a delete that is past the templates.
Listed ==
  /\ "raced" \notin marks =>
       \A r \in Requests : req[r].todo = <<"sync-save">> => req[r].flavors = db.templates
  /\ marks \cap {"raced", "torn", "unsynced", "rebuilt", "undone"} = {} /\ Exists =>
       \/ row.flavors = db.templates
       \/ \E r \in Requests : req[r].op = "delete" /\ "templates" \notin Left(req[r].todo)

\* Who makes a project has made what it is past, with the key it generated.
Progress == "raced" \notin marks => \A r \in Requests :
  /\ req[r].op = "create" /\ "read" \in Left(req[r].todo) =>
       Shell \subseteq up \cup Left(req[r].todo)
  /\ req[r].op \in Makings /\ "lib-save" \in Left(req[r].todo) =>
       /\ Engines \subseteq up \cup Left(req[r].todo)
       /\ "library" \in Left(req[r].todo) \/ (req[r].lib = lib /\ lib # None)
       /\ "key" \in Left(req[r].todo) \/ llm.key = r
       /\ "llm-kv" \in Left(req[r].todo) \/ llm.kv = r

\* What is shown as ready is there, but for a delete at work; its key, but for a
\* provisioning that has revoked it, and will save a new one or an error.
Rekeying(a) == a.op \in Makings /\ Left(a.todo) \cap {"read", "unkey"} = {}

Ready == marks \cap {"raced", "torn", "undone"} = {} =>
  \/ \E r \in Requests : req[r].op = "delete"
  \/ /\ Exists => Shell \subseteq up
     /\ row.status = "ready" /\ row.lib # None =>
          /\ Engines \subseteq up
          /\ row.lib = lib
          /\ \/ llm.key # None /\ llm.key = llm.kv
             \/ \E r \in Requests : Rekeying(req[r])

\* A volume request that is midway, has done the one half.
HalfMade(a)    == a.op = "volume-create"
                    /\ a.todo # <<"volume", "volume-wait", "volume-row">>
HalfDropped(a) == a.op = "volume-delete" /\ a.todo # <<"unvolume", "volume-unrow">>
Half(a) == HalfMade(a) \/ HalfDropped(a)

Backed == "volume-raced" \notin marks =>
  /\ \A r, q \in Requests : Half(req[r]) /\ Half(req[q]) => r = q
  /\ \A r \in Requests :
       /\ req[r].op = "volume-create" => ~db.shared
       /\ req[r].op = "volume-delete" => db.shared
       /\ HalfMade(req[r]) => nomad.shared
       /\ HalfDropped(req[r]) => ~nomad.shared
  /\ db.shared = nomad.shared \/ \E r \in Requests : Half(req[r])

IInv == /\ Typed /\ Swept /\ Deleted /\ Gone /\ Absent /\ Listed
        /\ Progress /\ Ready /\ Backed

--------------------------------------------------------------------------------
(* Plans and what is left of them                                          *)

LEMMA NoLength ==
  ASSUME NEW S, NEW s \in Seq(S)
  PROVE  s = << >> <=> Len(s) = 0
<1>1. ASSUME Len(s) = 0 PROVE s = << >>
  BY <1>1
<1>. QED  BY <1>1

LEMMA TailLeft ==
  ASSUME NEW s \in Seq(Steps), s # << >>
  PROVE  /\ Head(s) \in Steps /\ Tail(s) \in Seq(Steps)
         /\ Left(s) = {Head(s)} \cup Left(Tail(s))
<1>1. /\ Len(s) \in Nat \ {0} /\ Head(s) = s[1] /\ Tail(s) \in Seq(Steps)
      /\ Len(Tail(s)) = Len(s) - 1 /\ \A i \in 1 .. Len(s) - 1 : Tail(s)[i] = s[i + 1]
  OBVIOUS
<1>2. Head(s) \in Steps
  BY <1>1
<1>3. ASSUME NEW x \in Left(s) PROVE x \in {Head(s)} \cup Left(Tail(s))
  <2>1. PICK i \in 1 .. Len(s) : x = s[i]
    BY <1>3 DEF Left
  <2>2. CASE i = 1
    BY <1>1, <2>1, <2>2
  <2>3. CASE i # 1
    <3>1. i - 1 \in 1 .. Len(Tail(s)) /\ Tail(s)[i - 1] = x
      BY <1>1, <2>1, <2>3
    <3>. QED  BY <3>1 DEF Left
  <2>. QED  BY <2>2, <2>3
<1>4. ASSUME NEW x \in {Head(s)} \cup Left(Tail(s)) PROVE x \in Left(s)
  BY <1>1, <1>4 DEF Left
<1>. QED  BY <1>1, <1>2, <1>3, <1>4

LEMMA TailSuffix ==
  ASSUME NEW s \in Seq(Steps), s # << >>, NEW plan \in Seq(Steps), Suffix(s, plan)
  PROVE  Suffix(Tail(s), plan)
<1>1. /\ Len(s) \in Nat \ {0} /\ Len(plan) \in Nat
      /\ Len(Tail(s)) = Len(s) - 1 /\ \A i \in 1 .. Len(s) - 1 : Tail(s)[i] = s[i + 1]
  OBVIOUS
<1>2. PICK k \in 0 .. Len(plan) :
        Len(s) = Len(plan) - k /\ \A i \in 1 .. Len(s) : s[i] = plan[i + k]
  BY DEF Suffix
<1>3. /\ k + 1 \in 0 .. Len(plan)
      /\ Len(Tail(s)) = Len(plan) - (k + 1)
      /\ \A i \in 1 .. Len(Tail(s)) : Tail(s)[i] = plan[i + (k + 1)]
  BY <1>1, <1>2
<1>. QED  BY <1>3 DEF Suffix

LEMMA WholeSuffix ==
  ASSUME NEW plan \in Seq(Steps)
  PROVE  Suffix(plan, plan)
<1>1. 0 \in 0 .. Len(plan) /\ Len(plan) = Len(plan) - 0
      /\ \A i \in 1 .. Len(plan) : plan[i] = plan[i + 0]
  OBVIOUS
<1>. QED  BY <1>1 DEF Suffix

LEMMA LeftOfOne ==
  ASSUME NEW s
  PROVE  Left(<< >>) = {} /\ Left(<<s>>) = {s}
<1>1. Len(<<s>>) = 1 /\ <<s>>[1] = s /\ Len(<< >>) = 0 /\ 1 .. 1 = {1} /\ 1 .. 0 = {}
  OBVIOUS
<1>. QED  BY <1>1 DEF Left

LEMMA PlansAreSteps ==
  /\ CreatePlan \in Seq(Steps) /\ DeletePlan \in Seq(Steps)
  /\ Plain \in Seq(Steps) /\ WithGitHub \in Seq(Steps)
<1>1. CreatePlan \in Seq(Steps) /\ DeletePlan \in Seq(Steps)
  BY DEF CreatePlan, Making, DeletePlan, Deleting, Steps
<1>. DEFINE a == <<"ssh", "ssh-ca", "ssh-role", "github">>
            b == <<"policies", "unkey", "key", "llm-kv", "cred-policy", "token",
                   "cred-store", "library">>
            c == <<"lib-read", "lib-save">>
            d == <<"github-config">>
            e == <<"github-read", "github-save">>
<1>2. {a, b, c, d, e, << >>} \subseteq Seq(Steps)
  BY DEF Steps, Provisioning
<1>3. Plain = a \o << >> \o b \o << >> \o c
  BY DEF Plain, ProvisionPlan
<1>4. WithGitHub = a \o d \o b \o e \o c
  BY DEF WithGitHub, ProvisionPlan
<1>5. Plain \in Seq(Steps) /\ WithGitHub \in Seq(Steps)
  <2>. HIDE DEF a, b, c, d, e
  <2>1. a \o << >> \in Seq(Steps) /\ a \o d \in Seq(Steps)
    BY <1>2
  <2>2. a \o << >> \o b \in Seq(Steps) /\ a \o d \o b \in Seq(Steps)
    BY <1>2, <2>1
  <2>3. a \o << >> \o b \o << >> \in Seq(Steps) /\ a \o d \o b \o e \in Seq(Steps)
    BY <1>2, <2>2
  <2>4. /\ a \o << >> \o b \o << >> \o c \in Seq(Steps)
        /\ a \o d \o b \o e \o c \in Seq(Steps)
    BY <1>2, <2>3
  <2>. QED  BY <1>3, <1>4, <2>4
<1>. QED  BY <1>1, <1>5

\* Where the steps stand.
LEMMA CreateSpots ==
  /\ Len(CreatePlan) = 13
  /\ \A k \in 0 .. 12 :
       /\ CreatePlan[1 + k] \in Making
       /\ CreatePlan[1 + k] = "read" <=> k = 12
       /\ CreatePlan[1 + k] \in {"descriptor", "grant", "read"} <=> k >= 10
<1>1. Len(CreatePlan) = 13
  BY DEF CreatePlan
<1>2. \A k \in 0 .. 12 : CreatePlan[1 + k] \in Making
  BY DEF CreatePlan, Making
<1>3. \A k \in 0 .. 12 : CreatePlan[1 + k] = "read" <=> k = 12
  BY DEF CreatePlan
<1>4. \A k \in 0 .. 12 : CreatePlan[1 + k] \in {"descriptor", "grant", "read"} <=> k >= 10
  BY DEF CreatePlan
<1>. QED  BY <1>1, <1>2, <1>3, <1>4

LEMMA DeleteSpots ==
  /\ Len(DeletePlan) = 12
  /\ \A k \in 0 .. 11 :
       /\ DeletePlan[1 + k] \in Deleting
       /\ DeletePlan[1 + k] = "jobs" <=> k = 0
       /\ DeletePlan[1 + k] = "volumes" <=> k = 1
       /\ DeletePlan[1 + k] = "un-nomad-ns" <=> k = 2
       /\ DeletePlan[1 + k] = "un-binding" <=> k = 3
       /\ DeletePlan[1 + k] = "un-nomad-policy" <=> k = 4
       /\ DeletePlan[1 + k] = "un-scope" <=> k = 5
       /\ DeletePlan[1 + k] = "un-vault-ns" <=> k = 6
       /\ DeletePlan[1 + k] = "unkey" <=> k = 7
       /\ DeletePlan[1 + k] = "templates" <=> k = 8
       /\ DeletePlan[1 + k] = "roles" <=> k = 9
       /\ DeletePlan[1 + k] = "capabilities" <=> k = 10
       /\ DeletePlan[1 + k] = "verdict" <=> k = 11
<1>1. Len(DeletePlan) = 12
  BY DEF DeletePlan
<1>2. \A k \in 0 .. 11 : DeletePlan[1 + k] \in Deleting
  BY DEF DeletePlan, Deleting
<1>3. \A k \in 0 .. 11 : DeletePlan[1 + k] = "jobs" <=> k = 0
  BY DEF DeletePlan
<1>4. \A k \in 0 .. 11 : DeletePlan[1 + k] = "volumes" <=> k = 1
  BY DEF DeletePlan
<1>5. \A k \in 0 .. 11 : DeletePlan[1 + k] = "un-nomad-ns" <=> k = 2
  BY DEF DeletePlan
<1>6. \A k \in 0 .. 11 : DeletePlan[1 + k] = "un-binding" <=> k = 3
  BY DEF DeletePlan
<1>7. \A k \in 0 .. 11 : DeletePlan[1 + k] = "un-nomad-policy" <=> k = 4
  BY DEF DeletePlan
<1>8. \A k \in 0 .. 11 : DeletePlan[1 + k] = "un-scope" <=> k = 5
  BY DEF DeletePlan
<1>9. \A k \in 0 .. 11 : DeletePlan[1 + k] = "un-vault-ns" <=> k = 6
  BY DEF DeletePlan
<1>10. \A k \in 0 .. 11 : DeletePlan[1 + k] = "unkey" <=> k = 7
  BY DEF DeletePlan
<1>11. \A k \in 0 .. 11 : DeletePlan[1 + k] = "templates" <=> k = 8
  BY DEF DeletePlan
<1>12. \A k \in 0 .. 11 : DeletePlan[1 + k] = "roles" <=> k = 9
  BY DEF DeletePlan
<1>13. \A k \in 0 .. 11 : DeletePlan[1 + k] = "capabilities" <=> k = 10
  BY DEF DeletePlan
<1>14. \A k \in 0 .. 11 : DeletePlan[1 + k] = "verdict" <=> k = 11
  BY DEF DeletePlan
<1>. QED  BY <1>1, <1>2, <1>3, <1>4, <1>5, <1>6, <1>7, <1>8, <1>9, <1>10, <1>11, <1>12,
             <1>13, <1>14

LEMMA ProvisionSpots ==
  /\ Len(Plain) = 14
  /\ \A k \in 0 .. 13 :
       /\ Plain[1 + k] \in Provisioning
       /\ Plain[1 + k] = "unkey" <=> k = 5
       /\ Plain[1 + k] = "key" <=> k = 6
       /\ Plain[1 + k] = "llm-kv" <=> k = 7
       /\ Plain[1 + k] = "lib-save" <=> k = 13
<1>1. Len(Plain) = 14
  BY DEF Plain, WithGitHub, ProvisionPlan
<1>2. \A k \in 0 .. 13 : Plain[1 + k] \in Provisioning
  BY DEF Plain, WithGitHub, ProvisionPlan, Provisioning
<1>3. \A k \in 0 .. 13 : Plain[1 + k] = "unkey" <=> k = 5
  BY DEF Plain, WithGitHub, ProvisionPlan
<1>4. \A k \in 0 .. 13 : Plain[1 + k] = "key" <=> k = 6
  BY DEF Plain, WithGitHub, ProvisionPlan
<1>5. \A k \in 0 .. 13 : Plain[1 + k] = "lib-save" <=> k = 13
  BY DEF Plain, WithGitHub, ProvisionPlan
<1>6. \A k \in 0 .. 13 : Plain[1 + k] = "llm-kv" <=> k = 7
  BY DEF Plain, WithGitHub, ProvisionPlan
<1>. QED  BY <1>1, <1>2, <1>3, <1>4, <1>5, <1>6

LEMMA GitHubSpots ==
  /\ Len(WithGitHub) = 17
  /\ \A k \in 0 .. 16 :
       /\ WithGitHub[1 + k] \in Provisioning
       /\ WithGitHub[1 + k] = "unkey" <=> k = 6
       /\ WithGitHub[1 + k] = "key" <=> k = 7
       /\ WithGitHub[1 + k] = "llm-kv" <=> k = 8
       /\ WithGitHub[1 + k] = "lib-save" <=> k = 16
<1>1. Len(WithGitHub) = 17
  BY DEF Plain, WithGitHub, ProvisionPlan
<1>2. \A k \in 0 .. 16 : WithGitHub[1 + k] \in Provisioning
  BY DEF Plain, WithGitHub, ProvisionPlan, Provisioning
<1>3. \A k \in 0 .. 16 : WithGitHub[1 + k] = "unkey" <=> k = 6
  BY DEF Plain, WithGitHub, ProvisionPlan
<1>4. \A k \in 0 .. 16 : WithGitHub[1 + k] = "key" <=> k = 7
  BY DEF Plain, WithGitHub, ProvisionPlan
<1>5. \A k \in 0 .. 16 : WithGitHub[1 + k] = "lib-save" <=> k = 16
  BY DEF Plain, WithGitHub, ProvisionPlan
<1>6. \A k \in 0 .. 16 : WithGitHub[1 + k] = "llm-kv" <=> k = 8
  BY DEF Plain, WithGitHub, ProvisionPlan
<1>. QED  BY <1>1, <1>2, <1>3, <1>4, <1>5, <1>6

LEMMA Spread ==
  ASSUME NEW s \in Seq(Steps), s # << >>, NEW plan \in Seq(Steps), Suffix(s, plan)
  PROVE  \E k \in 0 .. Len(plan) - 1 :
           /\ Len(s) = Len(plan) - k /\ Head(s) = plan[1 + k]
           /\ Tail(s) = << >> <=> k = Len(plan) - 1
           /\ Left(s) = {plan[1 + j] : j \in k .. Len(plan) - 1}
           /\ Left(Tail(s)) = {plan[1 + j] : j \in (k + 1) .. Len(plan) - 1}
<1>1. /\ Len(s) \in Nat \ {0} /\ Head(s) = s[1] /\ Len(plan) \in Nat
      /\ Len(Tail(s)) = Len(s) - 1 /\ \A i \in 1 .. Len(s) - 1 : Tail(s)[i] = s[i + 1]
      /\ Tail(s) = << >> <=> Len(Tail(s)) = 0
  <2>1. Tail(s) \in Seq(Steps) /\ Len(Tail(s)) = Len(s) - 1
    OBVIOUS
  <2>2. Tail(s) = << >> <=> Len(Tail(s)) = 0
    BY <2>1, NoLength
  <2>3. Len(s) \in Nat \ {0} /\ Head(s) = s[1] /\ Len(plan) \in Nat
        /\ \A i \in 1 .. Len(s) - 1 : Tail(s)[i] = s[i + 1]
    OBVIOUS
  <2>. QED  BY <2>1, <2>2, <2>3
<1>2. PICK k \in 0 .. Len(plan) :
        Len(s) = Len(plan) - k /\ \A i \in 1 .. Len(s) : s[i] = plan[i + k]
  BY DEF Suffix
<1>3. k \in 0 .. Len(plan) - 1 /\ Head(s) = plan[1 + k]
      /\ (Tail(s) = << >> <=> k = Len(plan) - 1)
  BY <1>1, <1>2
<1>4. Left(s) = {plan[1 + j] : j \in k .. Len(plan) - 1}
  <2>1. ASSUME NEW x \in Left(s) PROVE \E j \in k .. Len(plan) - 1 : x = plan[1 + j]
    <3>1. PICK i \in 1 .. Len(s) : x = s[i]
      BY <2>1 DEF Left
    <3>2. i + k - 1 \in k .. Len(plan) - 1 /\ x = plan[1 + (i + k - 1)]
      BY <1>1, <1>2, <1>3, <3>1
    <3>. QED  BY <3>2
  <2>2. ASSUME NEW j \in k .. Len(plan) - 1 PROVE plan[1 + j] \in Left(s)
    <3>1. 1 + j - k \in 1 .. Len(s) /\ s[1 + j - k] = plan[1 + j]
      BY <1>1, <1>2, <1>3, <2>2
    <3>. QED  BY <3>1 DEF Left
  <2>. QED  BY <2>1, <2>2
<1>5. Left(Tail(s)) = {plan[1 + j] : j \in (k + 1) .. Len(plan) - 1}
  <2>1. ASSUME NEW x \in Left(Tail(s))
        PROVE \E j \in (k + 1) .. Len(plan) - 1 : x = plan[1 + j]
    <3>1. PICK i \in 1 .. Len(s) - 1 : x = s[i + 1]
      BY <1>1, <2>1 DEF Left
    <3>2. i + k \in (k + 1) .. Len(plan) - 1 /\ x = plan[1 + (i + k)]
      BY <1>1, <1>2, <1>3, <3>1
    <3>. QED  BY <3>2
  <2>2. ASSUME NEW j \in (k + 1) .. Len(plan) - 1 PROVE plan[1 + j] \in Left(Tail(s))
    <3>1. j - k \in 1 .. Len(s) - 1 /\ j - k + 1 \in 1 .. Len(s) /\ j - k + 1 + k = 1 + j
      BY <1>2, <1>3, <2>2
    <3>2. Tail(s)[j - k] = plan[1 + j]
      BY <1>1, <1>2, <3>1
    <3>. QED  BY <1>1, <3>1, <3>2 DEF Left
  <2>. QED  BY <2>1, <2>2
<1>. QED  BY <1>2, <1>3, <1>4, <1>5

\* What is next in a plan, and what comes after it.
LEMMA CreateLeft ==
  ASSUME NEW s \in Seq(Steps), s # << >>, Suffix(s, CreatePlan)
  PROVE  /\ Head(s) \in Making
         /\ Head(s) = "read" <=> Tail(s) = << >>
         /\ Head(s) = "read" => s = <<"read">>
         /\ "read" \in Left(s)
         /\ Head(s) # "read" => "read" \in Left(Tail(s))
         /\ Head(s) \in {"descriptor", "grant", "read"} => Left(s) \cap Shell = {}
         /\ Left(s) \subseteq Making
<1>1. PICK k \in 0 .. 12 :
        /\ Len(s) = 13 - k /\ Head(s) = CreatePlan[1 + k]
        /\ Tail(s) = << >> <=> k = 12
        /\ Left(s) = {CreatePlan[1 + j] : j \in k .. 12}
        /\ Left(Tail(s)) = {CreatePlan[1 + j] : j \in (k + 1) .. 12}
  <2>1. CreatePlan \in Seq(Steps) /\ Len(CreatePlan) = 13
    BY PlansAreSteps, CreateSpots
  <2>2. \E k \in 0 .. Len(CreatePlan) - 1 :
          /\ Len(s) = Len(CreatePlan) - k /\ Head(s) = CreatePlan[1 + k]
          /\ Tail(s) = << >> <=> k = Len(CreatePlan) - 1
          /\ Left(s) = {CreatePlan[1 + j] : j \in k .. Len(CreatePlan) - 1}
          /\ Left(Tail(s)) = {CreatePlan[1 + j] : j \in (k + 1) .. Len(CreatePlan) - 1}
    BY <2>1, Spread
  <2>3. Len(CreatePlan) - 1 = 12
    BY <2>1
  <2>. QED  BY <2>1, <2>2, <2>3
<1>2. \A j \in 0 .. 12 : CreatePlan[1 + j] \in Making
  BY CreateSpots DEF Making
<1>3. Head(s) \in Making /\ Left(s) \subseteq Making
  <2>1. \A j \in k .. 12 : j \in 0 .. 12
    OBVIOUS
  <2>. QED  BY <1>1, <1>2, <2>1
<1>4. Head(s) = "read" <=> Tail(s) = << >>
  BY <1>1, CreateSpots
<1>5. "read" = CreatePlan[1 + 12] /\ 12 \in k .. 12
  BY CreateSpots
<1>6. "read" \in Left(s)
  BY <1>1, <1>5
<1>7. ASSUME Head(s) # "read" PROVE "read" \in Left(Tail(s))
  <2>1. 12 \in (k + 1) .. 12
    BY <1>1, <1>4, <1>7
  <2>. QED  BY <2>1, <1>1, <1>5
<1>8. ASSUME Head(s) = "read" PROVE s = <<"read">>
  <2>1. Len(s) = 1 /\ s[1] = "read"
    BY <1>1, <1>4, <1>8
  <2>. QED  BY <2>1
<1>9. ASSUME Head(s) \in {"descriptor", "grant", "read"} PROVE Left(s) \cap Shell = {}
  <2>1. k >= 10
    BY <1>1, <1>9, CreateSpots
  <2>2. \A j \in k .. 12 : CreatePlan[1 + j] \in {"descriptor", "grant", "read"}
    BY <2>1, CreateSpots
  <2>. QED  BY <2>2, <1>1 DEF Shell, NomadThings
<1>. QED  BY <1>3, <1>4, <1>6, <1>7, <1>8, <1>9

LEMMA DeleteLeft ==
  ASSUME NEW s \in Seq(Steps), s # << >>, Suffix(s, DeletePlan)
  PROVE  /\ Head(s) \in Deleting
         /\ Head(s) = "verdict" <=> Tail(s) = << >>
         /\ Head(s) = "verdict" => Left(s) = {"verdict"}
         /\ Head(s) = "jobs" => "volumes" \in Left(Tail(s))
         /\ Head(s) \notin Left(Tail(s))
         /\ Left(s) \subseteq Deleting
<1>1. PICK k \in 0 .. 11 :
        /\ Len(s) = 12 - k /\ Head(s) = DeletePlan[1 + k]
        /\ Tail(s) = << >> <=> k = 11
        /\ Left(s) = {DeletePlan[1 + j] : j \in k .. 11}
        /\ Left(Tail(s)) = {DeletePlan[1 + j] : j \in (k + 1) .. 11}
  <2>1. DeletePlan \in Seq(Steps) /\ Len(DeletePlan) = 12
    BY PlansAreSteps, DeleteSpots
  <2>2. \E k \in 0 .. Len(DeletePlan) - 1 :
          /\ Len(s) = Len(DeletePlan) - k /\ Head(s) = DeletePlan[1 + k]
          /\ Tail(s) = << >> <=> k = Len(DeletePlan) - 1
          /\ Left(s) = {DeletePlan[1 + j] : j \in k .. Len(DeletePlan) - 1}
          /\ Left(Tail(s)) = {DeletePlan[1 + j] : j \in (k + 1) .. Len(DeletePlan) - 1}
    BY <2>1, Spread
  <2>3. Len(DeletePlan) - 1 = 11
    BY <2>1
  <2>. QED  BY <2>1, <2>2, <2>3
<1>2. \A j \in 0 .. 11 : DeletePlan[1 + j] \in Deleting
  BY DeleteSpots DEF Deleting
<1>3. Head(s) \in Deleting /\ Left(s) \subseteq Deleting
  <2>1. \A j \in k .. 11 : j \in 0 .. 11
    OBVIOUS
  <2>. QED  BY <1>1, <1>2, <2>1
<1>4. Head(s) = "verdict" <=> Tail(s) = << >>
  BY <1>1, DeleteSpots
<1>5. ASSUME Head(s) = "verdict" PROVE Left(s) = {"verdict"}
  <2>1. k = 11
    BY <1>1, <1>4, <1>5
  <2>. QED  BY <1>1, <2>1, <1>5
<1>6. ASSUME Head(s) = "jobs" PROVE "volumes" \in Left(Tail(s))
  <2>1. k = 0
    BY <1>1, <1>6, DeleteSpots
  <2>2. DeletePlan[1 + 1] = "volumes" /\ 1 \in (k + 1) .. 11
    BY <2>1, DeleteSpots
  <2>. QED  BY <1>1, <2>2
<1>7. ASSUME Head(s) \in Left(Tail(s)) PROVE FALSE
  <2>1. PICK j \in (k + 1) .. 11 : DeletePlan[1 + j] = DeletePlan[1 + k]
    BY <1>1, <1>7
  <2>2. j \in 0 .. 11 /\ j # k
    OBVIOUS
  <2>. QED  BY <2>1, <2>2, DeleteSpots
<1>. QED  BY <1>3, <1>4, <1>5, <1>6, <1>7

LEMMA ProvisionLeft ==
  ASSUME NEW s \in Seq(Steps), s # << >>, Suffix(s, Plain)
  PROVE  /\ Head(s) \in Provisioning
         /\ Head(s) = "lib-save" <=> Tail(s) = << >>
         /\ Head(s) = "lib-save" => Left(s) = {"lib-save"}
         /\ "lib-save" \in Left(s)
         /\ Head(s) # "lib-save" => "lib-save" \in Left(Tail(s))
         /\ Head(s) = "unkey" => "key" \in Left(Tail(s)) /\ "unkey" \notin Left(Tail(s))
         /\ Head(s) = "llm-kv" => "unkey" \notin Left(Tail(s))
         /\ Left(s) \subseteq Provisioning
<1>1. PICK k \in 0 .. 13 :
        /\ Len(s) = 14 - k /\ Head(s) = Plain[1 + k]
        /\ Tail(s) = << >> <=> k = 13
        /\ Left(s) = {Plain[1 + j] : j \in k .. 13}
        /\ Left(Tail(s)) = {Plain[1 + j] : j \in (k + 1) .. 13}
  <2>1. Plain \in Seq(Steps) /\ Len(Plain) = 14
    BY PlansAreSteps, ProvisionSpots
  <2>2. \E k \in 0 .. Len(Plain) - 1 :
          /\ Len(s) = Len(Plain) - k /\ Head(s) = Plain[1 + k]
          /\ Tail(s) = << >> <=> k = Len(Plain) - 1
          /\ Left(s) = {Plain[1 + j] : j \in k .. Len(Plain) - 1}
          /\ Left(Tail(s)) = {Plain[1 + j] : j \in (k + 1) .. Len(Plain) - 1}
    BY <2>1, Spread
  <2>3. Len(Plain) - 1 = 13
    BY <2>1
  <2>. QED  BY <2>1, <2>2, <2>3
<1>2. \A j \in 0 .. 13 : Plain[1 + j] \in Provisioning
  BY ProvisionSpots DEF Provisioning
<1>3. Head(s) \in Provisioning /\ Left(s) \subseteq Provisioning
  <2>1. \A j \in k .. 13 : j \in 0 .. 13
    OBVIOUS
  <2>. QED  BY <1>1, <1>2, <2>1
<1>4. Head(s) = "lib-save" <=> Tail(s) = << >>
  BY <1>1, ProvisionSpots
<1>5. "lib-save" = Plain[1 + 13] /\ 13 \in k .. 13
  BY ProvisionSpots
<1>6. "lib-save" \in Left(s)
  BY <1>1, <1>5
<1>7. ASSUME Head(s) # "lib-save" PROVE "lib-save" \in Left(Tail(s))
  <2>1. 13 \in (k + 1) .. 13
    BY <1>1, <1>4, <1>7
  <2>. QED  BY <2>1, <1>1, <1>5
<1>8. ASSUME Head(s) = "lib-save" PROVE Left(s) = {"lib-save"}
  <2>1. k = 13
    BY <1>1, <1>4, <1>8
  <2>. QED  BY <1>1, <2>1, <1>8
<1>9. ASSUME Head(s) = "unkey"
      PROVE "key" \in Left(Tail(s)) /\ "unkey" \notin Left(Tail(s))
  <2>1. k = 5 /\ Plain[1 + 6] = "key" /\ 6 \in (k + 1) .. 13
    BY <1>1, <1>9, ProvisionSpots
  <2>2. \A j \in (k + 1) .. 13 : Plain[1 + j] # "unkey"
    BY <2>1, ProvisionSpots
  <2>. QED  BY <1>1, <2>1, <2>2
<1>10. ASSUME Head(s) = "llm-kv" PROVE "unkey" \notin Left(Tail(s))
  <2>1. k = 7
    BY <1>1, <1>10, ProvisionSpots
  <2>2. \A j \in (k + 1) .. 13 : Plain[1 + j] # "unkey"
    BY <2>1, ProvisionSpots
  <2>. QED  BY <1>1, <2>2
<1>. QED  BY <1>3, <1>4, <1>6, <1>7, <1>8, <1>9, <1>10

LEMMA GitHubLeft ==
  ASSUME NEW s \in Seq(Steps), s # << >>, Suffix(s, WithGitHub)
  PROVE  /\ Head(s) \in Provisioning
         /\ Head(s) = "lib-save" <=> Tail(s) = << >>
         /\ Head(s) = "lib-save" => Left(s) = {"lib-save"}
         /\ "lib-save" \in Left(s)
         /\ Head(s) # "lib-save" => "lib-save" \in Left(Tail(s))
         /\ Head(s) = "unkey" => "key" \in Left(Tail(s)) /\ "unkey" \notin Left(Tail(s))
         /\ Head(s) = "llm-kv" => "unkey" \notin Left(Tail(s))
         /\ Left(s) \subseteq Provisioning
<1>1. PICK k \in 0 .. 16 :
        /\ Len(s) = 17 - k /\ Head(s) = WithGitHub[1 + k]
        /\ Tail(s) = << >> <=> k = 16
        /\ Left(s) = {WithGitHub[1 + j] : j \in k .. 16}
        /\ Left(Tail(s)) = {WithGitHub[1 + j] : j \in (k + 1) .. 16}
  <2>1. WithGitHub \in Seq(Steps) /\ Len(WithGitHub) = 17
    BY PlansAreSteps, GitHubSpots
  <2>2. \E k \in 0 .. Len(WithGitHub) - 1 :
          /\ Len(s) = Len(WithGitHub) - k /\ Head(s) = WithGitHub[1 + k]
          /\ Tail(s) = << >> <=> k = Len(WithGitHub) - 1
          /\ Left(s) = {WithGitHub[1 + j] : j \in k .. Len(WithGitHub) - 1}
          /\ Left(Tail(s)) = {WithGitHub[1 + j] : j \in (k + 1) .. Len(WithGitHub) - 1}
    BY <2>1, Spread
  <2>3. Len(WithGitHub) - 1 = 16
    BY <2>1
  <2>. QED  BY <2>1, <2>2, <2>3
<1>2. \A j \in 0 .. 16 : WithGitHub[1 + j] \in Provisioning
  BY GitHubSpots DEF Provisioning
<1>3. Head(s) \in Provisioning /\ Left(s) \subseteq Provisioning
  <2>1. \A j \in k .. 16 : j \in 0 .. 16
    OBVIOUS
  <2>. QED  BY <1>1, <1>2, <2>1
<1>4. Head(s) = "lib-save" <=> Tail(s) = << >>
  BY <1>1, GitHubSpots
<1>5. "lib-save" = WithGitHub[1 + 16] /\ 16 \in k .. 16
  BY GitHubSpots
<1>6. "lib-save" \in Left(s)
  BY <1>1, <1>5
<1>7. ASSUME Head(s) # "lib-save" PROVE "lib-save" \in Left(Tail(s))
  <2>1. 16 \in (k + 1) .. 16
    BY <1>1, <1>4, <1>7
  <2>. QED  BY <2>1, <1>1, <1>5
<1>8. ASSUME Head(s) = "lib-save" PROVE Left(s) = {"lib-save"}
  <2>1. k = 16
    BY <1>1, <1>4, <1>8
  <2>. QED  BY <1>1, <2>1, <1>8
<1>9. ASSUME Head(s) = "unkey"
      PROVE "key" \in Left(Tail(s)) /\ "unkey" \notin Left(Tail(s))
  <2>0. k = 6
    BY <1>1, <1>9, GitHubSpots
  <2>1. k = 6 /\ WithGitHub[1 + 7] = "key" /\ 7 \in (k + 1) .. 16
    BY <2>0, GitHubSpots
  <2>2. \A j \in (k + 1) .. 16 : WithGitHub[1 + j] # "unkey"
    BY <2>1, GitHubSpots
  <2>. QED  BY <1>1, <2>1, <2>2
<1>10. ASSUME Head(s) = "llm-kv" PROVE "unkey" \notin Left(Tail(s))
  <2>1. k = 8
    BY <1>1, <1>10, GitHubSpots
  <2>2. \A j \in (k + 1) .. 16 : WithGitHub[1 + j] # "unkey"
    BY <2>1, GitHubSpots
  <2>. QED  BY <1>1, <2>2
<1>. QED  BY <1>3, <1>4, <1>6, <1>7, <1>8, <1>9, <1>10

LEMMA OneLeft ==
  ASSUME NEW x \in Steps, NEW s \in Seq(Steps), s # << >>, Suffix(s, <<x>>)
  PROVE  s = <<x>> /\ Head(s) = x /\ Tail(s) = << >>
<1>1. PICK k \in 0 .. Len(<<x>>) :
        Len(s) = Len(<<x>>) - k /\ \A i \in 1 .. Len(s) : s[i] = <<x>>[i + k]
  BY DEF Suffix
<1>2. k = 0 /\ Len(s) = 1 /\ s[1] = x
  BY <1>1, NoLength
<1>3. s = <<x>>
  BY <1>2
<1>. QED  BY <1>3

LEMMA TwoLeft ==
  ASSUME NEW x \in Steps, NEW y \in Steps, NEW s \in Seq(Steps), s # << >>,
         Suffix(s, <<x, y>>)
  PROVE  s \in {<<x, y>>, <<y>>}
<1>1. PICK k \in 0 .. Len(<<x, y>>) :
        Len(s) = Len(<<x, y>>) - k /\ \A i \in 1 .. Len(s) : s[i] = <<x, y>>[i + k]
  BY DEF Suffix
<1>2. \/ Len(s) = 2 /\ s[1] = x /\ s[2] = y
      \/ Len(s) = 1 /\ s[1] = y
  BY <1>1, NoLength
<1>. QED  BY <1>2

LEMMA ThreeLeft ==
  ASSUME NEW x \in Steps, NEW y \in Steps, NEW z \in Steps,
         NEW s \in Seq(Steps), s # << >>, Suffix(s, <<x, y, z>>)
  PROVE  s \in {<<x, y, z>>, <<y, z>>, <<z>>}
<1>1. PICK k \in 0 .. Len(<<x, y, z>>) :
        Len(s) = Len(<<x, y, z>>) - k /\ \A i \in 1 .. Len(s) : s[i] = <<x, y, z>>[i + k]
  BY DEF Suffix
<1>2. \/ Len(s) = 3 /\ s[1] = x /\ s[2] = y /\ s[3] = z
      \/ Len(s) = 2 /\ s[1] = y /\ s[2] = z
      \/ Len(s) = 1 /\ s[1] = z
  BY <1>1, NoLength
<1>. QED  BY <1>2

LEMMA FourLeft ==
  ASSUME NEW w \in Steps, NEW x \in Steps, NEW y \in Steps, NEW z \in Steps,
         NEW s \in Seq(Steps), s # << >>, Suffix(s, <<w, x, y, z>>)
  PROVE  s \in {<<w, x, y, z>>, <<x, y, z>>, <<y, z>>, <<z>>}
<1>1. PICK k \in 0 .. Len(<<w, x, y, z>>) :
        Len(s) = Len(<<w, x, y, z>>) - k
          /\ \A i \in 1 .. Len(s) : s[i] = <<w, x, y, z>>[i + k]
  BY DEF Suffix
<1>2. \/ Len(s) = 4 /\ s[1] = w /\ s[2] = x /\ s[3] = y /\ s[4] = z
      \/ Len(s) = 3 /\ s[1] = x /\ s[2] = y /\ s[3] = z
      \/ Len(s) = 2 /\ s[1] = y /\ s[2] = z
      \/ Len(s) = 1 /\ s[1] = z
  BY <1>1, NoLength
<1>. QED  BY <1>2

LEMMA ShortPlans ==
  /\ <<"github">> \o GitHubPlan = <<"github", "github-config", "github-read", "github-save">>
  /\ <<"template-save">> \o Sync = <<"template-save", "sync-read", "sync-list", "sync-save">>
  /\ <<"template-drop">> \o Sync = <<"template-drop", "sync-read", "sync-list", "sync-save">>
<1>1. ASSUME NEW w \in Steps, NEW x \in Steps, NEW y \in Steps, NEW z \in Steps
      PROVE  <<w>> \o <<x, y, z>> = <<w, x, y, z>>
  <2>. DEFINE s == <<w>> \o <<x, y, z>>
  <2>1. <<w>> \in Seq(Steps) /\ <<x, y, z>> \in Seq(Steps)
    OBVIOUS
  <2>2. s \in Seq(Steps) /\ Len(s) = 4
    BY <2>1
  <2>3. s[1] = w /\ s[2] = x /\ s[3] = y /\ s[4] = z
    BY <2>1
  <2>4. s = <<w, x, y, z>>
    <3>. HIDE DEF s
    <3>. QED  BY <2>2, <2>3
  <2>. QED  BY <2>4
<1>2. {"github", "github-config", "github-read", "github-save", "template-save",
       "template-drop", "sync-read", "sync-list", "sync-save"} \subseteq Steps
  BY DEF Steps, Provisioning, Tabling, Syncing
<1>. QED  BY <1>1, <1>2 DEF GitHubPlan, Sync

LEMMA AllPlans ==
  ASSUME NEW op \in Ops, NEW plan \in Plans(op)
  PROVE  plan \in Seq(Steps)
<1>1. /\ << >> \in Seq(Steps) /\ FailPlan \in Seq(Steps)
      /\ <<"github", "github-config", "github-read", "github-save">> \in Seq(Steps)
      /\ <<"group-save">> \in Seq(Steps)
  BY DEF FailPlan, Steps, Failing, Provisioning, Tabling
<1>2. /\ <<"template-save", "sync-read", "sync-list", "sync-save">> \in Seq(Steps)
      /\ <<"template-drop", "sync-read", "sync-list", "sync-save">> \in Seq(Steps)
      /\ <<"grant">> \in Seq(Steps) /\ <<"revoke">> \in Seq(Steps)
      /\ <<"restrict">> \in Seq(Steps)
  BY DEF Steps, Making, Tabling, Syncing
<1>3. /\ <<"volume", "volume-wait", "volume-row">> \in Seq(Steps)
      /\ <<"unvolume">> \in Seq(Steps) /\ <<"unvolume", "volume-unrow">> \in Seq(Steps)
  BY DEF Steps, Sharing
<1>. QED
  BY <1>1, <1>2, <1>3, PlansAreSteps, ShortPlans DEF Plans, Ops, Over, Makings, Others

--------------------------------------------------------------------------------
(* What a request is doing, by its operation.                              *)

\* It makes a project, or what a workspace needs in it, or has failed to.
Founding(a)     == a.op = "create" /\ Suffix(a.todo, CreatePlan)
Provisioned(a)  == a.op \in Makings /\ (Suffix(a.todo, Plain) \/ Suffix(a.todo, WithGitHub))
Stopping(a)     == a.op \in Makings /\ a.todo \in {FailPlan, <<"fail-save">>}
Clearing(a)     == a.op = "delete" /\ Suffix(a.todo, DeletePlan)
Rest(op) ==
  CASE op = "github" -> {<<"github", "github-config", "github-read", "github-save">>,
                         <<"github-config", "github-read", "github-save">>,
                         <<"github-read", "github-save">>, <<"github-save">>}
    [] op = "update" -> {<<"group-save">>}
    [] op = "template" -> {<<"template-save", "sync-read", "sync-list", "sync-save">>,
                           <<"template-drop", "sync-read", "sync-list", "sync-save">>,
                           <<"sync-read", "sync-list", "sync-save">>,
                           <<"sync-list", "sync-save">>, <<"sync-save">>}
    [] op = "grant" -> {<<"grant">>}
    [] op = "revoke" -> {<<"revoke">>}
    [] op = "capabilities" -> {<<"restrict">>}
    [] op = "volume-create" -> {<<"volume", "volume-wait", "volume-row">>,
                                <<"volume-wait", "volume-row">>, <<"volume-row">>,
                                <<"unvolume">>}
    [] op = "volume-delete" -> {<<"unvolume", "volume-unrow">>, <<"volume-unrow">>}
    [] OTHER -> {}

LEMMA Doings ==
  ASSUME NEW a, Fits(a), a.op \notin Over
  PROVE  /\ a.todo \in Seq(Steps) /\ a.todo # << >>
         /\ \/ Founding(a) \/ Provisioned(a) \/ Stopping(a) \/ Clearing(a)
            \/ a.todo \in Rest(a.op)
<1>1. /\ a.todo \in Seq(Steps) /\ a.todo # << >> /\ a.op \in Ops
      /\ \E plan \in Plans(a.op) : Suffix(a.todo, plan)
  BY DEF Fits, Askings
<1>2. CASE a.op = "create"
  <2>1. \/ Suffix(a.todo, CreatePlan) \/ Suffix(a.todo, Plain) \/ Suffix(a.todo, FailPlan)
    BY <1>1, <1>2 DEF Plans, Over
  <2>2. Suffix(a.todo, FailPlan) => a.todo \in {FailPlan, <<"fail-save">>}
    BY <1>1, TwoLeft DEF FailPlan, Steps, Failing
  <2>. QED  BY <1>1, <1>2, <2>1, <2>2 DEF Founding, Provisioned, Stopping, Makings
<1>3. CASE a.op = "provision"
  <2>1. \/ Suffix(a.todo, Plain) \/ Suffix(a.todo, WithGitHub) \/ Suffix(a.todo, FailPlan)
    BY <1>1, <1>3 DEF Plans, Over
  <2>2. Suffix(a.todo, FailPlan) => a.todo \in {FailPlan, <<"fail-save">>}
    BY <1>1, TwoLeft DEF FailPlan, Steps, Failing
  <2>. QED  BY <1>1, <1>3, <2>1, <2>2 DEF Provisioned, Stopping, Makings
<1>4. CASE a.op = "github"
  <2>1. Suffix(a.todo, <<"github", "github-config", "github-read", "github-save">>)
    BY <1>1, <1>4, ShortPlans DEF Plans, Over
  <2>. QED  BY <1>1, <1>4, <2>1, FourLeft DEF Rest, Steps, Provisioning
<1>5. CASE a.op = "update"
  BY <1>1, <1>5, OneLeft DEF Plans, Over, Rest, Steps, Tabling
<1>6. CASE a.op = "template"
  <2>1. \/ Suffix(a.todo, <<"template-save", "sync-read", "sync-list", "sync-save">>)
        \/ Suffix(a.todo, <<"template-drop", "sync-read", "sync-list", "sync-save">>)
    BY <1>1, <1>6, ShortPlans DEF Plans, Over
  <2>2. {"template-save", "template-drop", "sync-read", "sync-list", "sync-save"}
          \subseteq Steps
    BY DEF Steps, Tabling, Syncing
  <2>3. CASE Suffix(a.todo, <<"template-save", "sync-read", "sync-list", "sync-save">>)
    BY <1>1, <1>6, <2>2, <2>3, FourLeft DEF Rest
  <2>4. CASE Suffix(a.todo, <<"template-drop", "sync-read", "sync-list", "sync-save">>)
    BY <1>1, <1>6, <2>2, <2>4, FourLeft DEF Rest
  <2>. QED  BY <2>1, <2>3, <2>4
<1>7. CASE a.op = "delete"
  BY <1>1, <1>7 DEF Plans, Over, Clearing
<1>8. CASE a.op \in {"grant", "revoke", "capabilities"}
  BY <1>1, <1>8, OneLeft DEF Plans, Over, Rest, Steps, Tabling, Making
<1>9. CASE a.op = "volume-create"
  <2>1. Suffix(a.todo, <<"volume", "volume-wait", "volume-row">>)
        \/ Suffix(a.todo, <<"unvolume">>)
    BY <1>1, <1>9 DEF Plans, Over
  <2>2. {"volume", "volume-wait", "volume-row", "unvolume"} \subseteq Steps
    BY DEF Steps, Sharing
  <2>3. CASE Suffix(a.todo, <<"volume", "volume-wait", "volume-row">>)
    BY <1>1, <1>9, <2>2, <2>3, ThreeLeft DEF Rest
  <2>4. CASE Suffix(a.todo, <<"unvolume">>)
    BY <1>1, <1>9, <2>2, <2>4, OneLeft DEF Rest
  <2>. QED  BY <2>1, <2>3, <2>4
<1>10. CASE a.op = "volume-delete"
  <2>1. Suffix(a.todo, <<"unvolume", "volume-unrow">>)
    BY <1>1, <1>10 DEF Plans, Over
  <2>. QED  BY <1>1, <1>10, <2>1, TwoLeft DEF Rest, Steps, Sharing
<1>. QED
  BY <1>1, <1>2, <1>3, <1>4, <1>5, <1>6, <1>7, <1>8, <1>9, <1>10
     DEF Ops, Makings, Others

LEMMA ShortSteps ==
  ASSUME NEW a, a.todo \in Rest(a.op)
  PROVE
    \/ /\ a.op = "github"
       /\ a.todo = <<"github", "github-config", "github-read", "github-save">>
       /\ Head(a.todo) = "github"
          /\ Tail(a.todo) = <<"github-config", "github-read", "github-save">>
    \/ /\ a.op = "github" /\ a.todo = <<"github-config", "github-read", "github-save">>
       /\ Head(a.todo) = "github-config" /\ Tail(a.todo) = <<"github-read", "github-save">>
    \/ /\ a.op = "github" /\ a.todo = <<"github-read", "github-save">>
       /\ Head(a.todo) = "github-read" /\ Tail(a.todo) = <<"github-save">>
    \/ /\ a.op = "github" /\ a.todo = <<"github-save">>
       /\ Head(a.todo) = "github-save" /\ Tail(a.todo) = << >>
    \/ /\ a.op = "update" /\ a.todo = <<"group-save">>
       /\ Head(a.todo) = "group-save" /\ Tail(a.todo) = << >>
    \/ /\ a.op = "template"
       /\ a.todo = <<"template-save", "sync-read", "sync-list", "sync-save">>
       /\ Head(a.todo) = "template-save"
          /\ Tail(a.todo) = <<"sync-read", "sync-list", "sync-save">>
    \/ /\ a.op = "template" /\ a.todo = <<"sync-read", "sync-list", "sync-save">>
       /\ Head(a.todo) = "sync-read" /\ Tail(a.todo) = <<"sync-list", "sync-save">>
    \/ /\ a.op = "template" /\ a.todo = <<"sync-list", "sync-save">>
       /\ Head(a.todo) = "sync-list" /\ Tail(a.todo) = <<"sync-save">>
    \/ /\ a.op = "template" /\ a.todo = <<"sync-save">>
       /\ Head(a.todo) = "sync-save" /\ Tail(a.todo) = << >>
    \/ /\ a.op = "template"
       /\ a.todo = <<"template-drop", "sync-read", "sync-list", "sync-save">>
       /\ Head(a.todo) = "template-drop"
          /\ Tail(a.todo) = <<"sync-read", "sync-list", "sync-save">>
    \/ /\ a.op = "grant" /\ a.todo = <<"grant">>
       /\ Head(a.todo) = "grant" /\ Tail(a.todo) = << >>
    \/ /\ a.op = "revoke" /\ a.todo = <<"revoke">>
       /\ Head(a.todo) = "revoke" /\ Tail(a.todo) = << >>
    \/ /\ a.op = "capabilities" /\ a.todo = <<"restrict">>
       /\ Head(a.todo) = "restrict" /\ Tail(a.todo) = << >>
    \/ /\ a.op = "volume-create" /\ a.todo = <<"volume", "volume-wait", "volume-row">>
       /\ Head(a.todo) = "volume" /\ Tail(a.todo) = <<"volume-wait", "volume-row">>
    \/ /\ a.op = "volume-create" /\ a.todo = <<"volume-wait", "volume-row">>
       /\ Head(a.todo) = "volume-wait" /\ Tail(a.todo) = <<"volume-row">>
    \/ /\ a.op = "volume-create" /\ a.todo = <<"volume-row">>
       /\ Head(a.todo) = "volume-row" /\ Tail(a.todo) = << >>
    \/ /\ a.op = "volume-create" /\ a.todo = <<"unvolume">>
       /\ Head(a.todo) = "unvolume" /\ Tail(a.todo) = << >>
    \/ /\ a.op = "volume-delete" /\ a.todo = <<"unvolume", "volume-unrow">>
       /\ Head(a.todo) = "unvolume" /\ Tail(a.todo) = <<"volume-unrow">>
    \/ /\ a.op = "volume-delete" /\ a.todo = <<"volume-unrow">>
       /\ Head(a.todo) = "volume-unrow" /\ Tail(a.todo) = << >>
<1>1. CASE a.op = "github"
  <2>1. ASSUME a.todo = <<"github", "github-config", "github-read", "github-save">>
        PROVE Head(a.todo) = "github"
              /\ Tail(a.todo) = <<"github-config", "github-read", "github-save">>
    BY <2>1
  <2>2. ASSUME a.todo = <<"github-config", "github-read", "github-save">>
        PROVE Head(a.todo) = "github-config" /\ Tail(a.todo) = <<"github-read", "github-save">>
    BY <2>2
  <2>3. ASSUME a.todo = <<"github-read", "github-save">>
        PROVE Head(a.todo) = "github-read" /\ Tail(a.todo) = <<"github-save">>
    BY <2>3
  <2>4. ASSUME a.todo = <<"github-save">>
        PROVE Head(a.todo) = "github-save" /\ Tail(a.todo) = << >>
    BY <2>4
  <2>. QED  BY <1>1, <2>1, <2>2, <2>3, <2>4 DEF Rest
<1>2. CASE a.op = "update"
  <2>1. ASSUME a.todo = <<"group-save">>
        PROVE Head(a.todo) = "group-save" /\ Tail(a.todo) = << >>
    BY <2>1
  <2>. QED  BY <1>2, <2>1 DEF Rest
<1>3. CASE a.op = "template"
  <2>1. ASSUME a.todo = <<"template-save", "sync-read", "sync-list", "sync-save">>
        PROVE Head(a.todo) = "template-save"
              /\ Tail(a.todo) = <<"sync-read", "sync-list", "sync-save">>
    BY <2>1
  <2>2. ASSUME a.todo = <<"sync-read", "sync-list", "sync-save">>
        PROVE Head(a.todo) = "sync-read" /\ Tail(a.todo) = <<"sync-list", "sync-save">>
    BY <2>2
  <2>3. ASSUME a.todo = <<"sync-list", "sync-save">>
        PROVE Head(a.todo) = "sync-list" /\ Tail(a.todo) = <<"sync-save">>
    BY <2>3
  <2>4. ASSUME a.todo = <<"sync-save">>
        PROVE Head(a.todo) = "sync-save" /\ Tail(a.todo) = << >>
    BY <2>4
  <2>5. ASSUME a.todo = <<"template-drop", "sync-read", "sync-list", "sync-save">>
        PROVE Head(a.todo) = "template-drop"
              /\ Tail(a.todo) = <<"sync-read", "sync-list", "sync-save">>
    BY <2>5
  <2>. QED  BY <1>3, <2>1, <2>2, <2>3, <2>4, <2>5 DEF Rest
<1>4. CASE a.op = "grant"
  <2>1. ASSUME a.todo = <<"grant">>
        PROVE Head(a.todo) = "grant" /\ Tail(a.todo) = << >>
    BY <2>1
  <2>. QED  BY <1>4, <2>1 DEF Rest
<1>5. CASE a.op = "revoke"
  <2>1. ASSUME a.todo = <<"revoke">>
        PROVE Head(a.todo) = "revoke" /\ Tail(a.todo) = << >>
    BY <2>1
  <2>. QED  BY <1>5, <2>1 DEF Rest
<1>6. CASE a.op = "capabilities"
  <2>1. ASSUME a.todo = <<"restrict">>
        PROVE Head(a.todo) = "restrict" /\ Tail(a.todo) = << >>
    BY <2>1
  <2>. QED  BY <1>6, <2>1 DEF Rest
<1>7. CASE a.op = "volume-create"
  <2>1. ASSUME a.todo = <<"volume", "volume-wait", "volume-row">>
        PROVE Head(a.todo) = "volume" /\ Tail(a.todo) = <<"volume-wait", "volume-row">>
    BY <2>1
  <2>2. ASSUME a.todo = <<"volume-wait", "volume-row">>
        PROVE Head(a.todo) = "volume-wait" /\ Tail(a.todo) = <<"volume-row">>
    BY <2>2
  <2>3. ASSUME a.todo = <<"volume-row">>
        PROVE Head(a.todo) = "volume-row" /\ Tail(a.todo) = << >>
    BY <2>3
  <2>4. ASSUME a.todo = <<"unvolume">>
        PROVE Head(a.todo) = "unvolume" /\ Tail(a.todo) = << >>
    BY <2>4
  <2>. QED  BY <1>7, <2>1, <2>2, <2>3, <2>4 DEF Rest
<1>8. CASE a.op = "volume-delete"
  <2>1. ASSUME a.todo = <<"unvolume", "volume-unrow">>
        PROVE Head(a.todo) = "unvolume" /\ Tail(a.todo) = <<"volume-unrow">>
    BY <2>1
  <2>2. ASSUME a.todo = <<"volume-unrow">>
        PROVE Head(a.todo) = "volume-unrow" /\ Tail(a.todo) = << >>
    BY <2>2
  <2>. QED  BY <1>8, <2>1, <2>2 DEF Rest
<1>. QED  BY <1>1, <1>2, <1>3, <1>4, <1>5, <1>6, <1>7, <1>8 DEF Rest

\* The step that is next, and what is left after it.
LEMMA Heads ==
  ASSUME NEW a, Fits(a), a.op \notin Over
  PROVE  LET h == Head(a.todo)
             left == Tail(a.todo) IN
         /\ h \in Steps /\ left \in Seq(Steps) /\ Left(a.todo) = {h} \cup Left(left)
         /\ \E plan \in Plans(a.op) : Suffix(left, plan)
         /\ h \in Making => (a.op = "create" /\ Founding(a)) \/ (a.op = "grant" /\ h = "grant")
         /\ h \in Provisioning =>
              \/ Provisioned(a)
              \/ a.op = "github"
                   /\ h \in {"github", "github-config", "github-read", "github-save"}
              \/ a.op = "delete" /\ h = "unkey"
         /\ h \in Failing => Stopping(a)
         /\ h \in Deleting => Clearing(a) \/ (h = "unkey" /\ Provisioned(a))
         /\ h = "group-save" => a.op = "update"
         /\ h \in Syncing \cup {"template-save", "template-drop"} => a.op = "template"
         /\ h = "revoke" => a.op = "revoke"
         /\ h = "restrict" => a.op = "capabilities"
         /\ h \in Sharing => a.op \in Volumes
<1>1. a.todo \in Seq(Steps) /\ a.todo # << >> /\ a.op \in Ops
  BY Doings DEF Fits, Askings
<1>2. /\ Head(a.todo) \in Steps /\ Tail(a.todo) \in Seq(Steps)
      /\ Left(a.todo) = {Head(a.todo)} \cup Left(Tail(a.todo))
  BY <1>1, TailLeft
<1>3. \E plan \in Plans(a.op) : Suffix(Tail(a.todo), plan)
  <2>1. PICK plan \in Plans(a.op) : Suffix(a.todo, plan)
    BY DEF Fits
  <2>2. plan \in Seq(Steps)
    BY <1>1, AllPlans
  <2>. QED  BY <1>1, <2>1, <2>2, TailSuffix
<1>4. CASE Founding(a)
  <2>1. Head(a.todo) \in Making /\ a.op = "create"
    BY <1>1, <1>4, CreateLeft DEF Founding
  <2>2. Head(a.todo) \notin Provisioning \cup Failing \cup Deleting
    BY <2>1 DEF Making, Provisioning, Failing, Deleting
  <2>3. Head(a.todo) \notin Syncing \cup Sharing \cup Tabling
    BY <2>1 DEF Making, Syncing, Sharing, Tabling
  <2>. QED  BY <1>2, <1>3, <1>4, <2>1, <2>2, <2>3 DEF Tabling
<1>5. CASE Provisioned(a)
  <2>1. Head(a.todo) \in Provisioning
    BY <1>1, <1>5, ProvisionLeft, GitHubLeft DEF Provisioned
  <2>. QED
    BY <1>2, <1>3, <1>5, <2>1
       DEF Making, Provisioning, Failing, Deleting, Syncing, Sharing
<1>6. CASE Stopping(a)
  <2>1. Head(FailPlan) = "fail-read" /\ Head(<<"fail-save">>) = "fail-save"
    BY DEF FailPlan
  <2>2. Head(a.todo) \in Failing
    BY <1>6, <2>1 DEF Stopping, Failing
  <2>. QED
    BY <1>2, <1>3, <1>6, <2>2
       DEF Making, Provisioning, Failing, Deleting, Syncing, Sharing
<1>7. CASE Clearing(a)
  <2>1. Head(a.todo) \in Deleting /\ a.op = "delete"
    BY <1>1, <1>7, DeleteLeft DEF Clearing
  <2>2. Head(a.todo) \notin Making \cup Failing \cup Syncing
    BY <2>1 DEF Making, Failing, Deleting, Syncing
  <2>3. Head(a.todo) \notin Sharing \cup Tabling
    BY <2>1 DEF Deleting, Sharing, Tabling
  <2>4. Head(a.todo) \in Provisioning => Head(a.todo) = "unkey"
    BY <2>1 DEF Deleting, Provisioning
  <2>. QED  BY <1>2, <1>3, <1>7, <2>1, <2>2, <2>3, <2>4 DEF Tabling
<1>8. CASE a.todo \in Rest(a.op)
  <2>1. /\ Head(a.todo) \in Making => a.op = "grant" /\ Head(a.todo) = "grant"
        /\ Head(a.todo) \in Provisioning =>
              a.op = "github" /\ Head(a.todo) \in
                {"github", "github-config", "github-read", "github-save"}
        /\ Head(a.todo) \notin Failing /\ Head(a.todo) \notin Deleting
    BY <1>8, ShortSteps DEF Making, Provisioning, Failing, Deleting
  <2>2. /\ Head(a.todo) = "group-save" => a.op = "update"
        /\ Head(a.todo) \in Syncing \cup {"template-save", "template-drop"}
              => a.op = "template"
        /\ Head(a.todo) = "revoke" => a.op = "revoke"
        /\ Head(a.todo) = "restrict" => a.op = "capabilities"
        /\ Head(a.todo) \in Sharing => a.op \in Volumes
    BY <1>8, ShortSteps DEF Syncing, Sharing, Volumes
  <2>. QED  BY <1>2, <1>3, <2>1, <2>2
<1>. QED  BY <1>4, <1>5, <1>6, <1>7, <1>8, Doings

--------------------------------------------------------------------------------
(* What a step does to its request and to the marks.                       *)

Marks == {"raced", "torn", "unsynced", "rebuilt", "deleted", "key-left", "undone",
          "volume-raced"}
Accidents == {"torn", "unsynced", "key-left", "volume-raced"}

\* Request b is a with `todo` left, or it is over.
Onward(b, a, todo, failed) ==
  IF todo = << >> THEN b = Idle("over")
  ELSE /\ b.op = a.op /\ b.arg = a.arg /\ b.copy = a.copy /\ b.lib = a.lib
       /\ b.flavors = a.flavors /\ b.swept = a.swept
       /\ b.failed = failed /\ b.todo = todo

Noted(r, gone, come) ==
  /\ (marks \ gone) \cup come \cup Clashing(r) \subseteq marks'
  /\ marks' \subseteq marks \cup come \cup Clashing(r) \cup Accidents
  /\ faults' \in 0 .. MaxFaults

\* Request r alone changes, and keeps its type.
Alone(r) == /\ req' \in [Requests -> Askings]
            /\ \A q \in Requests \ {r} : req'[q] = req[q]

Went(r, new, gone, come) ==
  Onward(req'[r], new, Tail(new.todo), new.failed) /\ Noted(r, gone, come)

Lost(r, come, done) ==
  LET h == Head(req[r].todo) IN
  /\ Onward(req'[r], req[r], Remaining(r, h), req[r].failed \/ h # "unkey")
  /\ Noted(r, {}, come \cup Unrepaired(r, h, done))

LEMMA IdleIsTyped == Idle("over") \in Askings /\ Fits(Idle("over")) /\ Fits(Idle("new"))
<1>1. /\ Idle("over").op = "over" /\ Idle("over").arg = None /\ Idle("over").todo = << >>
      /\ Idle("new").op = "new" /\ Idle("new").arg = None /\ Idle("new").todo = << >>
  BY DEF Idle
<1>2. None \in Args("over") /\ None \in Args("new") /\ "over" \in Ops /\ "new" \in Ops
  BY DEF Args, Ops, Over
<1>3. << >> \in Seq(Steps) /\ NoRow \in Row
  BY DEF Row
<1>4. Idle("over") \in Askings /\ Idle("new") \in Askings
  BY <1>2, <1>3 DEF Idle, Askings
<1>5. Suffix(<< >>, << >>)
  BY DEF Suffix
<1>6. /\ \E plan \in Plans("over") : Suffix(<< >>, plan)
      /\ \E plan \in Plans("new") : Suffix(<< >>, plan)
  BY <1>5 DEF Plans, Over
<1>. QED  BY <1>1, <1>2, <1>4, <1>6 DEF Fits, Over

LEMMA RequestFits ==
  ASSUME Typed, NEW r \in InFlight
  PROVE  /\ r \in Requests /\ req[r] \in Askings /\ Fits(req[r]) /\ req[r].op \notin Over
         /\ req[r].todo # << >> /\ req[r].todo \in Seq(Steps)
         /\ req[r].op \in Makings \cup Others
BY DEF Typed, InFlight, Fits, Askings, Ops

\* What is left when a step fails.
LEMMA RemainingSteps ==
  ASSUME Typed, NEW r \in InFlight
  PROVE  LET a == req[r]
             h == Head(req[r].todo)
             rest == Remaining(r, Head(req[r].todo)) IN
         /\ Clearing(a) => rest = Tail(a.todo)
         /\ Provisioned(a) => rest = IF h = "unkey" THEN Tail(a.todo) ELSE FailPlan
         /\ a.op = "volume-create" =>
              rest = IF h = "volume-row" THEN <<"unvolume">> ELSE << >>
         /\ Founding(a) \/ Stopping(a) => rest = << >>
         /\ a.op \in Others \ {"delete", "volume-create"} => rest = << >>
<1>1. /\ req[r].op \in Makings \cup Others
      /\ req[r].todo # << >> /\ req[r].todo \in Seq(Steps) /\ Fits(req[r])
      /\ req[r].op \notin Over
  BY RequestFits
<1>2. CASE Clearing(req[r])
  <2>1. CASE Head(req[r].todo) = "verdict"
    <3>1. Tail(req[r].todo) = << >>
      BY <1>1, <1>2, <2>1, DeleteLeft DEF Clearing
    <3>. QED
      BY <1>2, <2>1, <3>1
         DEF Remaining, Clearing, Makings, Others, Founding, Stopping, Provisioned
  <2>2. CASE Head(req[r].todo) # "verdict"
    <3>1. Head(req[r].todo) # "volume-row"
      BY <1>1, <1>2, DeleteLeft DEF Clearing, Deleting
    <3>. QED
      BY <1>2, <2>2, <3>1
         DEF Remaining, Clearing, Makings, Others, Founding, Stopping, Provisioned
  <2>. QED  BY <2>1, <2>2
<1>3. CASE Provisioned(req[r])
  <2>1. Head(req[r].todo) \in Provisioning /\ Left(req[r].todo) \subseteq Provisioning
        /\ "read" \notin Left(req[r].todo)
    BY <1>1, <1>3, ProvisionLeft, GitHubLeft DEF Provisioned, Provisioning
  <2>2. ~Founding(req[r])
    BY <1>1, <2>1, CreateLeft DEF Founding
  <2>3. ~Stopping(req[r])
    <3>1. Head(FailPlan) = "fail-read" /\ Head(<<"fail-save">>) = "fail-save"
      BY DEF FailPlan
    <3>. QED  BY <2>1, <3>1 DEF Stopping, Provisioning
  <2>4. Head(req[r].todo) # "volume-row"
    BY <2>1 DEF Provisioning
  <2>. QED
    BY <1>3, <2>1, <2>2, <2>3, <2>4
       DEF Remaining, Clearing, Makings, Others, Provisioned, FailPlan
<1>4. CASE Founding(req[r])
  <2>1. Head(req[r].todo) \in Making
    BY <1>1, <1>4, CreateLeft DEF Founding
  <2>2. Head(req[r].todo) \notin Provisioning /\ Head(req[r].todo) # "volume-row"
    BY <2>1 DEF Making, Provisioning
  <2>3. ~Provisioned(req[r])
    BY <1>1, <2>2, ProvisionLeft, GitHubLeft DEF Provisioned
  <2>. QED
    BY <1>4, <2>2, <2>3 DEF Remaining, Clearing, Makings, Others, Founding
<1>5. CASE Stopping(req[r])
  <2>1. Head(FailPlan) = "fail-read" /\ Head(<<"fail-save">>) = "fail-save"
    BY DEF FailPlan
  <2>2. Head(req[r].todo) \in {"fail-read", "fail-save"}
    BY <1>5, <2>1 DEF Stopping
  <2>3. Head(req[r].todo) \notin Provisioning /\ Head(req[r].todo) # "volume-row"
    BY <2>2 DEF Provisioning
  <2>4. ~Provisioned(req[r])
    BY <1>1, <2>3, ProvisionLeft, GitHubLeft DEF Provisioned
  <2>. QED
    BY <1>5, <2>3, <2>4 DEF Remaining, Clearing, Makings, Others, Stopping
<1>6. CASE req[r].todo \in Rest(req[r].op)
  <2>1. Head(req[r].todo) = "volume-row" => req[r].op = "volume-create"
    BY <1>6, ShortSteps
  <2>2. req[r].op \in Others \ {"delete"}
    BY <1>1, <1>6 DEF Rest, Others, Makings
  <2>. QED
    BY <2>1, <2>2
       DEF Remaining, Clearing, Makings, Others, Founding, Stopping, Provisioned
<1>. QED  BY <1>1, <1>2, <1>3, <1>4, <1>5, <1>6, Doings

LEMMA RestIsTyped ==
  ASSUME Typed, NEW r \in InFlight
  PROVE  LET rest == Remaining(r, Head(req[r].todo)) IN
         /\ rest \in Seq(Steps)
         /\ rest # << >> => \E plan \in Plans(req[r].op) : Suffix(rest, plan)
<1>1. /\ req[r].op \in Makings \cup Others
      /\ req[r].todo # << >> /\ req[r].todo \in Seq(Steps) /\ Fits(req[r])
      /\ req[r].op \notin Over
  BY RequestFits
<1>2. /\ Tail(req[r].todo) \in Seq(Steps)
      /\ \E plan \in Plans(req[r].op) : Suffix(Tail(req[r].todo), plan)
  BY <1>1, Heads
<1>3. /\ << >> \in Seq(Steps)
      /\ FailPlan \in Seq(Steps) /\ <<"unvolume">> \in Seq(Steps)
  BY DEF FailPlan, Steps, Failing, Sharing
<1>4. Suffix(FailPlan, FailPlan) /\ Suffix(<<"unvolume">>, <<"unvolume">>)
  BY <1>3, WholeSuffix
<1>5. /\ req[r].op \in Makings => FailPlan \in Plans(req[r].op)
      /\ req[r].op = "volume-create" => <<"unvolume">> \in Plans(req[r].op)
  BY DEF Plans, Makings, Over
<1>6. CASE Clearing(req[r])
  BY <1>2, <1>6, RemainingSteps
<1>7. CASE Provisioned(req[r])
  BY <1>2, <1>3, <1>4, <1>5, <1>7, RemainingSteps DEF Provisioned
<1>8. CASE Founding(req[r]) \/ Stopping(req[r])
  BY <1>3, <1>8, RemainingSteps
<1>9. CASE req[r].todo \in Rest(req[r].op)
  <2>1. req[r].op \in Others \ {"delete"}
    BY <1>1, <1>9 DEF Rest, Others, Makings
  <2>. QED  BY <1>3, <1>4, <1>5, <2>1, RemainingSteps
<1>. QED  BY <1>1, <1>6, <1>7, <1>8, <1>9, Doings

LEMMA NotedMarks ==
  ASSUME Typed, NEW r \in InFlight, NEW h, NEW done
  PROVE  Clashing(r) \subseteq {"raced", "volume-raced"}
         /\ Unrepaired(r, h, done) \subseteq Accidents
BY DEF Clashing, Unrepaired, Accidents

LEMMA BecomeSteps ==
  ASSUME Typed, NEW r \in InFlight, NEW a \in Askings, NEW todo \in Seq(Steps),
         NEW failed \in BOOLEAN, NEW new,
         new \in [op : {a.op}, arg : {a.arg}, copy : {a.copy}, lib : {a.lib},
                  flavors : {a.flavors}, failed : {failed}, swept : {a.swept},
                  todo : {todo}],
         Become(r, new)
  PROVE  Alone(r) /\ Onward(req'[r], a, todo, failed)
<1>1. new \in Askings /\ new.todo = todo
  BY DEF Askings
<1>2. req \in [Requests -> Askings] /\ r \in Requests
  BY DEF Typed, InFlight
<1>3. CASE todo = << >>
  <2>1. req' = [req EXCEPT ![r] = Idle("over")]
    BY <1>1, <1>3 DEF Become
  <2>. QED  BY <1>2, <1>3, <2>1, IdleIsTyped DEF Alone, Onward
<1>4. CASE todo # << >>
  <2>1. req' = [req EXCEPT ![r] = new]
    BY <1>1, <1>4 DEF Become
  <2>2. req'[r] = new
    BY <1>2, <2>1
  <2>3. Onward(new, a, todo, failed)
    BY <1>4 DEF Onward
  <2>. QED  BY <1>1, <1>2, <2>1, <2>2, <2>3 DEF Alone
<1>. QED  BY <1>3, <1>4

LEMMA FailSteps ==
  ASSUME Typed, NEW r \in InFlight, NEW done \in BOOLEAN, Fails(r, done),
         faults' = faults \/ Fault
  PROVE  Alone(r) /\ Lost(r, {}, done)
<1>. DEFINE h == Head(req[r].todo)
            rest == Remaining(r, h)
            new == [req[r] EXCEPT !.todo = rest, !.failed = @ \/ h # "unkey"]
<1>1. req[r] \in Askings /\ rest \in Seq(Steps) /\ (req[r].failed \/ h # "unkey") \in BOOLEAN
  BY RequestFits, RestIsTyped DEF Askings
<1>2. new \in [op : {req[r].op}, arg : {req[r].arg}, copy : {req[r].copy},
               lib : {req[r].lib}, flavors : {req[r].flavors},
               failed : {req[r].failed \/ h # "unkey"}, swept : {req[r].swept},
               todo : {rest}]
  <2>. HIDE DEF rest, h
  <2>. QED  BY <1>1 DEF Askings
<1>3. Become(r, new)
  BY DEF Fails
<1>4. Alone(r) /\ Onward(req'[r], req[r], rest, req[r].failed \/ h # "unkey")
  <2>. HIDE DEF new, rest, h
  <2>. QED  BY <1>1, <1>2, <1>3, BecomeSteps
<1>5. faults' \in 0 .. MaxFaults
  BY ProjectsAssumption DEF Typed, TypeOK, Fault
<1>6. Noted(r, {}, {} \cup Unrepaired(r, h, done))
  BY <1>5, NotedMarks DEF Fails, Noted
<1>. QED  BY <1>4, <1>6 DEF Lost

LEMMA DoneSteps ==
  ASSUME Typed, NEW r \in InFlight, NEW new \in Askings, new.todo # << >>,
         NEW gone, NEW come, DoneAs(r, new, gone, come)
  PROVE  Alone(r) /\ (Went(r, new, gone, come) \/ Lost(r, come, TRUE))
<1>1. CASE /\ Become(r, [new EXCEPT !.todo = Tail(@)])
           /\ marks' = (marks \ gone) \cup come \cup Clashing(r)
           /\ UNCHANGED faults
  <2>. DEFINE b == [new EXCEPT !.todo = Tail(@)]
  <2>1. Tail(new.todo) \in Seq(Steps) /\ new.failed \in BOOLEAN
    BY DEF Askings
  <2>2. b \in [op : {new.op}, arg : {new.arg}, copy : {new.copy}, lib : {new.lib},
               flavors : {new.flavors}, failed : {new.failed}, swept : {new.swept},
               todo : {Tail(new.todo)}]
    BY DEF Askings
  <2>3. Alone(r) /\ Onward(req'[r], new, Tail(new.todo), new.failed)
    <3>1. Become(r, b)
      BY <1>1
    <3>. HIDE DEF b
    <3>. QED  BY <2>1, <2>2, <3>1, BecomeSteps
  <2>4. Noted(r, gone, come)
    BY <1>1 DEF Noted, Typed, TypeOK
  <2>. QED  BY <2>3, <2>4 DEF Went
<1>2. CASE /\ Fault
           /\ LET step == Head(req[r].todo) IN
              /\ Become(r, [req[r] EXCEPT !.todo = Remaining(r, step),
                                          !.failed = @ \/ step # "unkey"])
              /\ marks' = marks \cup come \cup Clashing(r) \cup Unrepaired(r, step, TRUE)
  <2>. DEFINE h == Head(req[r].todo)
              rest == Remaining(r, h)
              b == [req[r] EXCEPT !.todo = rest, !.failed = @ \/ h # "unkey"]
  <2>1. req[r] \in Askings /\ rest \in Seq(Steps)
        /\ (req[r].failed \/ h # "unkey") \in BOOLEAN
    BY RequestFits, RestIsTyped DEF Askings
  <2>2. b \in [op : {req[r].op}, arg : {req[r].arg}, copy : {req[r].copy},
               lib : {req[r].lib}, flavors : {req[r].flavors},
               failed : {req[r].failed \/ h # "unkey"}, swept : {req[r].swept},
               todo : {rest}]
    <3>. HIDE DEF rest, h
    <3>. QED  BY <2>1 DEF Askings
  <2>3. Become(r, b)
    BY <1>2
  <2>4. Alone(r) /\ Onward(req'[r], req[r], rest, req[r].failed \/ h # "unkey")
    <3>. HIDE DEF b, rest, h
    <3>. QED  BY <2>1, <2>2, <2>3, BecomeSteps
  <2>5. faults' \in 0 .. MaxFaults
    BY <1>2, ProjectsAssumption DEF Typed, TypeOK, Fault
  <2>6. Noted(r, {}, come \cup Unrepaired(r, h, TRUE))
    BY <1>2, <2>5, NotedMarks DEF Noted
  <2>. QED  BY <2>4, <2>6 DEF Lost
<1>. QED  BY <1>1, <1>2 DEF DoneAs

\* After a failed step a request still fits what it does.
LEMMA LostFits ==
  ASSUME Typed, NEW r \in InFlight, Alone(r), NEW come, NEW done, Lost(r, come, done)
  PROVE  Fits(req'[r])
<1>. DEFINE h == Head(req[r].todo)
            rest == Remaining(r, h)
<1>1. /\ req[r] \in Askings /\ Fits(req[r]) /\ req[r].op \notin Over /\ r \in Requests
      /\ req'[r] \in Askings
  BY RequestFits DEF Alone
<1>2. CASE rest = << >>
  BY <1>2, IdleIsTyped DEF Lost, Onward
<1>3. CASE rest # << >>
  <2>1. /\ req'[r].op = req[r].op /\ req'[r].arg = req[r].arg
        /\ req'[r].copy = req[r].copy /\ req'[r].todo = rest
    BY <1>3 DEF Lost, Onward
  <2>2. \E plan \in Plans(req[r].op) : Suffix(rest, plan)
    BY <1>3, RestIsTyped
  <2>3. req[r].copy # NoRow
    <3>1. ~Founding(req[r])
      BY <1>3, RemainingSteps
    <3>2. "read" \notin Left(req[r].todo)
      <4>1. CASE Provisioned(req[r])
        BY <1>1, <4>1, ProvisionLeft, GitHubLeft, Doings DEF Provisioned, Provisioning
      <4>2. CASE Clearing(req[r])
        BY <1>1, <4>2, DeleteLeft, Doings DEF Clearing, Deleting
      <4>3. CASE req[r].todo \in Rest(req[r].op)
        <5>1. req[r].op = "volume-create" /\ Head(req[r].todo) = "volume-row"
          <6>1. req[r].op \in Others \ {"delete"}
            BY <1>1, <4>3, RequestFits DEF Rest, Others, Makings
          <6>. QED  BY <1>3, <6>1, RemainingSteps
        <5>2. req[r].todo = <<"volume-row">>
          BY <4>3, <5>1, ShortSteps
        <5>. QED  BY <5>2, LeftOfOne
      <4>4. ~Stopping(req[r])
        BY <1>3, RemainingSteps
      <4>. QED  BY <1>1, <3>1, <4>1, <4>2, <4>3, <4>4, Doings
    <3>. QED  BY <1>1, <3>2 DEF Fits
  <2>. QED  BY <1>1, <1>3, <2>1, <2>2, <2>3 DEF Fits
<1>. QED  BY <1>2, <1>3

\* A request that goes on fits what it does; only a creation reads what it will
\* write back.
LEMMA WentFits ==
  ASSUME Typed, NEW r \in InFlight, Alone(r), NEW new \in Askings, NEW gone, NEW come,
         Went(r, new, gone, come),
         new.op = req[r].op, new.arg = req[r].arg, new.todo = req[r].todo,
         new.copy # NoRow \/ (new.copy = req[r].copy /\ Head(req[r].todo) # "read")
  PROVE  Fits(req'[r])
<1>. DEFINE left == Tail(req[r].todo)
<1>1. /\ req[r] \in Askings /\ Fits(req[r]) /\ req[r].op \notin Over /\ r \in Requests
      /\ req'[r] \in Askings
  BY RequestFits DEF Alone
<1>2. CASE left = << >>
  BY <1>2, IdleIsTyped DEF Went, Onward
<1>3. CASE left # << >>
  <2>1. /\ req'[r].op = req[r].op /\ req'[r].arg = req[r].arg
        /\ req'[r].copy = new.copy /\ req'[r].todo = left
    BY <1>3 DEF Went, Onward
  <2>2. /\ \E plan \in Plans(req[r].op) : Suffix(left, plan)
        /\ Left(req[r].todo) = {Head(req[r].todo)} \cup Left(left)
    BY <1>1, Heads
  <2>. QED  BY <1>1, <1>3, <2>1, <2>2 DEF Fits
<1>. QED  BY <1>2, <1>3

--------------------------------------------------------------------------------
(* The steps, one by one.                                                  *)

LEMMA ReadOn ==
  /\ Tail(<<"read">> \o Plain) = Plain /\ Plain # << >> /\ Plain \in Seq(Steps)
  /\ Suffix(Plain, Plain)
<1>1. ASSUME NEW x \in Steps, NEW s \in Seq(Steps) PROVE Tail(<<x>> \o s) = s
  <2>. DEFINE t == Tail(<<x>> \o s)
  <2>1. <<x>> \in Seq(Steps) /\ <<x>> \o s \in Seq(Steps) /\ Len(<<x>> \o s) = 1 + Len(s)
        /\ \A i \in 1 .. Len(s) : (<<x>> \o s)[1 + i] = s[i]
    OBVIOUS
  <2>2. t \in Seq(Steps) /\ Len(t) = Len(s) /\ \A i \in 1 .. Len(s) : t[i] = s[i]
    BY <2>1
  <2>3. t = s
    <3>. HIDE DEF t
    <3>. QED  BY <2>2
  <2>. QED  BY <2>3
<1>2. "read" \in Steps
  BY DEF Steps, Making
<1>3. Plain # << >>
  <2>1. Len(Plain) = 14 /\ Plain \in Seq(Steps)
    BY ProvisionSpots, PlansAreSteps
  <2>2. Plain = << >> <=> Len(Plain) = 0
    BY <2>1, NoLength
  <2>. QED  BY <2>1, <2>2
<1>. QED  BY <1>1, <1>2, <1>3, PlansAreSteps, WholeSuffix

LEMMA WholeLeft ==
  /\ Shell \cup {"read"} \subseteq Left(CreatePlan)
  /\ Engines \cup {"library", "unkey", "key", "llm-kv", "lib-save"} \subseteq Left(Plain)
  /\ Engines \cup {"library", "unkey", "key", "llm-kv", "lib-save"} \subseteq Left(WithGitHub)
  /\ "read" \notin Left(Plain) /\ "read" \notin Left(WithGitHub)
  /\ "lib-save" \notin Left(CreatePlan)
  /\ Deleting \subseteq Left(DeletePlan)
<1>1. Shell \cup {"read"} \subseteq Left(CreatePlan)
  BY DEF Left, CreatePlan, Shell, NomadThings
<1>2. Engines \cup {"library", "unkey", "key", "llm-kv", "lib-save"} \subseteq Left(Plain)
  BY DEF Left, Plain, ProvisionPlan, Engines
<1>3. Engines \cup {"library", "unkey", "key", "llm-kv", "lib-save"} \subseteq Left(WithGitHub)
  BY DEF Left, WithGitHub, ProvisionPlan, Engines
<1>4. "read" \notin Left(Plain) /\ "read" \notin Left(WithGitHub)
  <2>1. Plain # << >>
    <3>1. Len(Plain) = 14 /\ Plain \in Seq(Steps)
      BY ProvisionSpots, PlansAreSteps
    <3>2. Plain = << >> <=> Len(Plain) = 0
      BY <3>1, NoLength
    <3>. QED  BY <3>1, <3>2
  <2>2. WithGitHub # << >>
    <3>1. Len(WithGitHub) = 17 /\ WithGitHub \in Seq(Steps)
      BY GitHubSpots, PlansAreSteps
    <3>2. WithGitHub = << >> <=> Len(WithGitHub) = 0
      BY <3>1, NoLength
    <3>. QED  BY <3>1, <3>2
  <2>. QED
    BY <2>1, <2>2, ProvisionLeft, GitHubLeft, PlansAreSteps, WholeSuffix DEF Provisioning
<1>5. "lib-save" \notin Left(CreatePlan)
  <2>1. CreatePlan # << >>
    BY CreateSpots
  <2>. QED  BY <2>1, CreateLeft, PlansAreSteps, WholeSuffix DEF Making
<1>6. Deleting \subseteq Left(DeletePlan)
  BY DEF Left, DeletePlan, Deleting
<1>. QED  BY <1>1, <1>2, <1>3, <1>4, <1>5, <1>6

--------------------------------------------------------------------------------
(* The calls by what they change.  Done (Went), or failed or done without a *)
(* reply (Lost), a call is one of the effects below.                        *)

\* Request r alone moves; what it holds still suits what it does.
Moves(r) == Alone(r) /\ Fits(req'[r]) /\ marks' \subseteq Marks /\ faults' \in 0 .. MaxFaults
Step(r) == Head(req[r].todo)

Does(r, gone, come) == Went(r, req[r], gone, come) \/ Lost(r, come, TRUE)

\* Request r goes on with a field of its own changed.
Goes(r, todo) ==
  /\ req'[r].op = req[r].op /\ req'[r].arg = req[r].arg /\ req'[r].todo = todo

Stays(r) ==
  /\ UNCHANGED <<row, db, up, lib, llm, nomad>>
  /\ \/ Step(r) \in {"token", "volume-wait"} /\ Went(r, req[r], {}, {})
     \/ Lost(r, {}, FALSE)

Builds(r) ==
  /\ Step(r) \in Shell \cup Engines \cup {"github-config"}
  /\ up' = up \cup {Step(r)}
  /\ Step(r) \in VaultThings => Step(r) = "vault-ns" \/ "vault-ns" \in up
  /\ Step(r) \in BoundaryThings => Step(r) = "scope" \/ "scope" \in up
  /\ Does(r, {}, {})
  /\ UNCHANGED <<row, db, lib, llm, nomad>>

MakesLibrary(r) ==
  /\ Step(r) = "library"
  /\ lib' = IF lib = None THEN r ELSE lib
  /\ "cred-store" \in up
  /\ \/ Lost(r, {}, TRUE)
     \/ /\ Goes(r, Tail(req[r].todo)) /\ Noted(r, {}, {})
        /\ req'[r].lib = lib' /\ req'[r].failed = req[r].failed
        /\ req'[r].swept = req[r].swept
  /\ UNCHANGED <<row, db, up, llm, nomad>>

Keying(r) ==
  /\ \/ Step(r) = "unkey" /\ llm' = [key |-> None, kv |-> llm.kv]
     \/ Step(r) = "key" /\ llm.key = None /\ llm' = [key |-> r, kv |-> llm.kv]
     \/ Step(r) = "llm-kv" /\ "secret-kv" \in up /\ llm' = [key |-> llm.key, kv |-> r]
  /\ Does(r, {}, {})
  /\ UNCHANGED <<row, db, up, lib, nomad>>

Describes(r) ==
  /\ Step(r) = "descriptor"
  /\ \E g \in Groups : row' = [status |-> "ready", group |-> g, lib |-> None,
                               github |-> FALSE, flavors |-> {}]
  /\ Does(r, {"undone"}, IF Exists THEN {"rebuilt"} ELSE {})
  /\ UNCHANGED <<db, up, lib, llm, nomad>>

Reading(r) ==
  /\ Step(r) \in Reads /\ Exists
  /\ Goes(r, IF Step(r) = "read" THEN Plain ELSE Tail(req[r].todo)) /\ Noted(r, {}, {})
  /\ req'[r].copy = row /\ req'[r].lib = req[r].lib /\ req'[r].flavors = req[r].flavors
  /\ req'[r].failed = req[r].failed /\ req'[r].swept = req[r].swept
  /\ UNCHANGED <<row, db, up, lib, llm, nomad>>

Upserts(r) ==
  /\ Step(r) \in {"group-save", "github-save", "lib-save", "fail-save", "sync-save"}
  /\ req[r].copy # NoRow /\ row' \in Row /\ row' # NoRow
  /\ row'.status = CASE Step(r) = "lib-save" -> "ready"
                     [] Step(r) = "fail-save" -> "error"
                     [] OTHER -> req[r].copy.status
  /\ row'.lib = IF Step(r) = "lib-save" THEN req[r].lib ELSE req[r].copy.lib
  /\ row'.flavors = IF Step(r) = "sync-save" THEN req[r].flavors ELSE req[r].copy.flavors
  /\ Does(r, IF Step(r) = "sync-save" THEN {"unsynced", "rebuilt"} ELSE {}, Stale(r))
  /\ UNCHANGED <<db, up, lib, llm, nomad>>

\* A change of the tables, field by field.
Tables(templates, admins, restricted, shared) ==
  /\ db' = [templates |-> templates, admins |-> admins, restricted |-> restricted,
            shared |-> shared]
  /\ UNCHANGED <<row, up, lib, llm, nomad>>

Templating(r) ==
  /\ Step(r) \in {"template-save", "template-drop"}
  /\ \E t \in SUBSET Flavors : Tables(t, db.admins, db.restricted, db.shared)
  /\ Does(r, {}, Changed)

Lists(r) ==
  /\ Step(r) = "sync-list"
  /\ Goes(r, Tail(req[r].todo)) /\ Noted(r, {}, {})
  /\ req'[r].flavors = db.templates
  /\ UNCHANGED <<row, db, up, lib, llm, nomad>>

Granting(r) ==
  /\ \/ /\ Step(r) = "grant"
        /\ \E a \in Subjects :
             Tables(db.templates, db.admins \cup {a}, db.restricted, db.shared)
     \/ /\ Step(r) = "revoke"
        /\ Tables(db.templates, db.admins \ {req[r].arg}, db.restricted, db.shared)
     \/ Step(r) = "restrict" /\ Tables(db.templates, db.admins, TRUE, db.shared)
  /\ Does(r, {}, {})

VolumeRows(r) ==
  /\ \/ Step(r) = "volume-row" /\ ~db.shared
          /\ Tables(db.templates, db.admins, db.restricted, TRUE)
     \/ Step(r) = "volume-unrow" /\ db.shared
          /\ Tables(db.templates, db.admins, db.restricted, FALSE)
  /\ Does(r, {}, {})

Emptying(r) ==
  /\ \/ Step(r) = "templates" /\ Tables({}, db.admins, db.restricted, db.shared)
     \/ Step(r) = "roles" /\ Tables(db.templates, {}, db.restricted, db.shared)
     \/ Step(r) = "capabilities" /\ Tables(db.templates, db.admins, FALSE, db.shared)
  /\ Does(r, {}, {})

Plane(job, volume, shared) == nomad' = [job |-> job, volume |-> volume, shared |-> shared]

Volumed(r) ==
  /\ \/ Step(r) = "volume" /\ Plane(nomad.job, nomad.volume, TRUE)
     \/ Step(r) = "unvolume" /\ Plane(nomad.job, nomad.volume, FALSE)
  /\ Does(r, {}, {})
  /\ UNCHANGED <<row, db, up, lib, llm>>

Purges(r) ==
  /\ Step(r) = "jobs" /\ Plane(FALSE, nomad.volume, nomad.shared)
  /\ Does(r, {}, {})
  /\ UNCHANGED <<row, db, up, lib, llm>>

Sweeps(r) ==
  /\ Step(r) = "volumes"
  /\ Plane(nomad.job, IF nomad.volume = "detached" THEN "none" ELSE nomad.volume, FALSE)
  /\ \/ Lost(r, Unbacked, TRUE)
     \/ /\ Goes(r, Tail(req[r].todo)) /\ Noted(r, {}, Unbacked)
        /\ IF nomad.volume = "attached"
           THEN req'[r].failed = TRUE /\ req'[r].swept = req[r].swept
           ELSE req'[r].failed = req[r].failed /\ req'[r].swept = TRUE
  /\ UNCHANGED <<row, db, up, lib, llm>>

Denames(r) ==
  /\ Step(r) = "un-nomad-ns" /\ ~nomad.job
  /\ up' = up \ {"nomad-ns"}
  /\ Plane(nomad.job, IF nomad.volume = "none" THEN "none" ELSE "orphaned", FALSE)
  /\ Does(r, {}, Unbacked)
  /\ UNCHANGED <<row, db, lib, llm>>

Removing(r) ==
  /\ \/ Step(r) = "un-binding" /\ up' = up \ {"binding"} /\ UNCHANGED <<lib, llm>>
     \/ Step(r) = "un-nomad-policy" /\ up' = up \ {"nomad-policy"} /\ UNCHANGED <<lib, llm>>
     \/ Step(r) = "un-scope" /\ up' = up \ BoundaryThings /\ lib' = None /\ UNCHANGED llm
     \/ /\ Step(r) = "un-vault-ns" /\ up' = up \ VaultThings
        /\ llm' = [key |-> llm.key, kv |-> None] /\ UNCHANGED lib
  /\ Does(r, {}, {})
  /\ UNCHANGED <<row, db, nomad>>

Judges(r) ==
  /\ Step(r) = "verdict"
  /\ IF req[r].failed
     THEN /\ row' \in Row /\ row' # NoRow /\ row'.status = "error"
          /\ Does(r, {}, {"undone"})
     ELSE row' = NoRow /\ Does(r, {}, {"deleted"})
  /\ UNCHANGED <<db, up, lib, llm, nomad>>

LEMMA Simply ==
  ASSUME Typed, NEW r \in InFlight, Step(r) # "read", NEW gone, NEW come,
         come \subseteq Marks, DoneAs(r, req[r], gone, come)
  PROVE  Moves(r) /\ Does(r, gone, come)
<1>1. req[r] \in Askings /\ req[r].todo # << >>
  BY RequestFits
<1>2. Alone(r) /\ (Went(r, req[r], gone, come) \/ Lost(r, come, TRUE))
  BY <1>1, DoneSteps
<1>3. Fits(req'[r])
  BY <1>1, <1>2, WentFits, LostFits DEF Step
<1>4. marks' \subseteq Marks /\ faults' \in 0 .. MaxFaults
  BY <1>2, NotedMarks DEF Went, Lost, Noted, Typed, TypeOK, Marks, Accidents
<1>. QED  BY <1>2, <1>3, <1>4 DEF Moves, Does

LEMMA Refusing ==
  ASSUME Typed, NEW r \in InFlight, Fails(r, FALSE), faults' = faults \/ Fault
  PROVE  Moves(r) /\ Lost(r, {}, FALSE)
<1>1. Alone(r) /\ Lost(r, {}, FALSE)
  BY FailSteps
<1>2. Fits(req'[r])
  BY <1>1, LostFits
<1>3. Clashing(r) \subseteq Marks /\ Unrepaired(r, Step(r), FALSE) \subseteq Marks
  BY NotedMarks DEF Marks, Accidents
<1>4. Noted(r, {}, {} \cup Unrepaired(r, Step(r), FALSE))
  BY <1>1 DEF Lost, Step
<1>5. marks' \subseteq Marks
  BY <1>3, <1>4 DEF Noted, Typed, TypeOK, Marks, Accidents
<1>6. faults' \in 0 .. MaxFaults
  BY <1>4 DEF Noted, Typed, TypeOK
<1>. QED  BY <1>1, <1>2, <1>5, <1>6 DEF Moves

\* A call that only reads comes to the same when its reply is lost.
LEMMA OnlyReading ==
  ASSUME Typed, NEW r \in InFlight, Lost(r, {}, TRUE),
         Step(r) \in {"token", "volume-wait", "sync-list"} \cup Reads
  PROVE  Lost(r, {}, FALSE)
<1>1. Unrepaired(r, Step(r), TRUE) = Unrepaired(r, Step(r), FALSE)
  BY DEF Unrepaired, Reads, Syncing
<1>. QED  BY <1>1 DEF Lost, Step

LEMMA EnsureSteps ==
  ASSUME Typed, NEW r \in InFlight, NEW thing, NEW needs, Ensures(r, thing, needs),
         thing \in Shell \cup Engines \cup {"github-config"},
         thing \in VaultThings \ {"vault-ns"} => needs \cap VaultThings # {},
         thing \in BoundaryThings \ {"scope"} => "scope" \in needs
  PROVE  Moves(r) /\ (Builds(r) \/ Stays(r))
<1>1. Step(r) = thing /\ Step(r) # "read"
  BY DEF Ensures, At, Step, Shell, NomadThings, Engines
<1>2. CASE needs \subseteq up
  <2>1. up' = up \cup {thing} /\ DoneAs(r, req[r], {}, {})
    BY <1>2 DEF Ensures, Done
  <2>2. Moves(r) /\ Does(r, {}, {})
    BY <1>1, <2>1, Simply
  <2>3. /\ thing \in VaultThings => thing = "vault-ns" \/ "vault-ns" \in up
        /\ thing \in BoundaryThings => thing = "scope" \/ "scope" \in up
    BY <1>2 DEF Typed, TypeOK
  <2>. QED  BY <1>1, <2>1, <2>2, <2>3 DEF Builds, Ensures
<1>3. CASE ~(needs \subseteq up)
  <2>1. Fails(r, FALSE) /\ UNCHANGED faults /\ UNCHANGED <<row, db, up, lib, llm, nomad>>
    BY <1>3 DEF Ensures, Refused
  <2>. QED  BY <2>1, Refusing DEF Stays
<1>. QED  BY <1>2, <1>3

LEMMA BuildSteps ==
  ASSUME Typed, NEW r \in InFlight,
         \/ CreateVaultNamespace(r) \/ EnableJWTNomad(r) \/ MountSecretKV(r)
         \/ SeedProvisioner(r) \/ SeedWorkspaceRole(r)
         \/ CreateNomadNamespace(r) \/ UpsertACLPolicy(r) \/ CreateBindingRule(r)
         \/ CreateProjectScope(r) \/ CreateHostCatalog(r)
         \/ MountSSH(r) \/ WriteSSHCA(r) \/ WriteSSHRole(r)
         \/ MountGitHub(r) \/ WriteGitHubConfig(r) \/ WriteReadPolicies(r)
         \/ WriteCredPolicy(r) \/ CreateCredentialStore(r)
  PROVE  Moves(r) /\ (Builds(r) \/ Stays(r))
<1>. USE DEF Shell, NomadThings, Engines, VaultThings, BoundaryThings
<1>1. CASE CreateVaultNamespace(r)
  BY <1>1, EnsureSteps DEF CreateVaultNamespace
<1>2. CASE EnableJWTNomad(r)
  BY <1>2, EnsureSteps DEF EnableJWTNomad
<1>3. CASE MountSecretKV(r)
  BY <1>3, EnsureSteps DEF MountSecretKV
<1>4. CASE SeedProvisioner(r)
  BY <1>4, EnsureSteps DEF SeedProvisioner
<1>5. CASE SeedWorkspaceRole(r)
  BY <1>5, EnsureSteps DEF SeedWorkspaceRole
<1>6. CASE CreateNomadNamespace(r)
  BY <1>6, EnsureSteps DEF CreateNomadNamespace
<1>7. CASE UpsertACLPolicy(r)
  BY <1>7, EnsureSteps DEF UpsertACLPolicy
<1>8. CASE CreateBindingRule(r)
  BY <1>8, EnsureSteps DEF CreateBindingRule
<1>9. CASE CreateProjectScope(r)
  BY <1>9, EnsureSteps DEF CreateProjectScope
<1>10. CASE CreateHostCatalog(r)
  BY <1>10, EnsureSteps DEF CreateHostCatalog
<1>11. CASE CreateCredentialStore(r)
  BY <1>11, EnsureSteps DEF CreateCredentialStore
<1>12. CASE MountSSH(r)
  BY <1>12, EnsureSteps DEF MountSSH, BrokerToken
<1>13. CASE WriteSSHCA(r)
  BY <1>13, EnsureSteps DEF WriteSSHCA, BrokerToken
<1>14. CASE WriteSSHRole(r)
  BY <1>14, EnsureSteps DEF WriteSSHRole, BrokerToken
<1>15. CASE MountGitHub(r)
  BY <1>15, EnsureSteps DEF MountGitHub, BrokerToken
<1>16. CASE WriteGitHubConfig(r)
  BY <1>16, EnsureSteps DEF WriteGitHubConfig, BrokerToken
<1>17. CASE WriteReadPolicies(r)
  BY <1>17, EnsureSteps DEF WriteReadPolicies, BrokerToken
<1>18. CASE WriteCredPolicy(r)
  BY <1>18, EnsureSteps DEF WriteCredPolicy, BrokerToken
<1>. QED
  BY <1>1, <1>2, <1>3, <1>4, <1>5, <1>6, <1>7, <1>8, <1>9,
     <1>10, <1>11, <1>12, <1>13, <1>14, <1>15, <1>16, <1>17, <1>18

\* The request as it goes on with its credential library.
LEMMA LibrarySteps ==
  ASSUME Typed, NEW r \in InFlight, CreateSSHCertLibrary(r)
  PROVE  Moves(r) /\ (MakesLibrary(r) \/ Stays(r))
<1>1. Step(r) = "library"
  BY DEF CreateSSHCertLibrary, At, Step
<1>2. /\ req[r] \in Askings /\ req[r].todo # << >> /\ Fits(req[r]) /\ r \in Requests
      /\ req[r].op \notin Over
  BY RequestFits
<1>3. Provisioned(req[r]) /\ Tail(req[r].todo) # << >>
  <2>1. Provisioned(req[r])
    BY <1>1, <1>2, Heads DEF Step, Provisioning
  <2>. QED
    BY <1>1, <1>2, <2>1, ProvisionLeft, GitHubLeft, Doings DEF Step, Provisioned
<1>4. CASE "cred-store" \in up
  <2>. DEFINE id == IF lib = None THEN r ELSE lib
              new == [req[r] EXCEPT !.lib = id]
  <2>1. /\ lib' = id /\ DoneAs(r, new, {}, {})
        /\ UNCHANGED <<row, db, up, llm, nomad>>
    BY <1>4 DEF CreateSSHCertLibrary
  <2>2. id \in Makers \cup {None}
    BY <1>2 DEF Makers, Typed, TypeOK
  <2>3. new \in [op : {req[r].op}, arg : {req[r].arg}, copy : {req[r].copy}, lib : {id},
                 flavors : {req[r].flavors}, failed : {req[r].failed},
                 swept : {req[r].swept}, todo : {req[r].todo}]
    <3>. HIDE DEF id
    <3>. QED  BY <1>2 DEF Askings
  <2>. HIDE DEF new
  <2>4. /\ new \in Askings /\ new.op = req[r].op /\ new.arg = req[r].arg
        /\ new.copy = req[r].copy /\ new.lib = id /\ new.failed = req[r].failed
        /\ new.swept = req[r].swept /\ new.todo = req[r].todo
    <3>. HIDE DEF id
    <3>. QED  BY <1>2, <2>2, <2>3 DEF Askings
  <2>. HIDE DEF id
  <2>5. Alone(r) /\ (Went(r, new, {}, {}) \/ Lost(r, {}, TRUE))
    BY <1>2, <2>1, <2>4, DoneSteps
  <2>6. Fits(req'[r])
    BY <1>1, <2>4, <2>5, WentFits, LostFits DEF Step
  <2>7. marks' \subseteq Marks /\ faults' \in 0 .. MaxFaults
    BY <2>5, NotedMarks DEF Went, Lost, Noted, Typed, TypeOK, Marks, Accidents
  <2>8. Went(r, new, {}, {}) =>
          /\ Goes(r, Tail(req[r].todo)) /\ Noted(r, {}, {})
          /\ req'[r].lib = id /\ req'[r].failed = req[r].failed
          /\ req'[r].swept = req[r].swept
    BY <1>3, <2>4 DEF Went, Onward, Goes
  <2>9. Moves(r)
    BY <2>5, <2>6, <2>7 DEF Moves
  <2>10. lib' = IF lib = None THEN r ELSE lib
    BY <2>1 DEF id
  <2>. QED  BY <1>1, <1>4, <2>1, <2>5, <2>8, <2>9, <2>10 DEF MakesLibrary
<1>5. CASE "cred-store" \notin up
  <2>1. Fails(r, FALSE) /\ UNCHANGED faults /\ UNCHANGED <<row, db, up, lib, llm, nomad>>
    BY <1>5 DEF CreateSSHCertLibrary, Refused
  <2>. QED  BY <2>1, Refusing DEF Stays
<1>. QED  BY <1>4, <1>5

LEMMA KeySteps ==
  ASSUME Typed, NEW r \in InFlight,
         DeleteKeyByAlias(r) \/ GenerateKey(r) \/ WriteKey(r)
  PROVE  Moves(r) /\ (Keying(r) \/ Stays(r))
<1>0. llm \in [key : Makers \cup {None}, kv : Makers \cup {None}]
  BY DEF Typed, TypeOK
<1>1. CASE DeleteKeyByAlias(r)
  <2>1. Step(r) = "unkey" /\ DoneAs(r, req[r], {}, {})
        /\ UNCHANGED <<row, db, up, lib, nomad>>
    BY <1>1 DEF DeleteKeyByAlias, At, Step, Done
  <2>2. llm' = [key |-> None, kv |-> llm.kv]
    BY <1>0, <1>1 DEF DeleteKeyByAlias
  <2>. QED  BY <2>1, <2>2, Simply DEF Keying
<1>2. CASE GenerateKey(r)
  <2>1. CASE llm.key = None
    <3>1. Step(r) = "key" /\ DoneAs(r, req[r], {}, {})
          /\ UNCHANGED <<row, db, up, lib, nomad>>
      BY <1>2, <2>1 DEF GenerateKey, At, Step, Done
    <3>2. llm' = [key |-> r, kv |-> llm.kv]
      BY <1>0, <1>2, <2>1 DEF GenerateKey
    <3>. QED  BY <2>1, <3>1, <3>2, Simply DEF Keying
  <2>2. CASE llm.key # None
    <3>1. Fails(r, FALSE) /\ UNCHANGED faults /\ UNCHANGED <<row, db, up, lib, llm, nomad>>
      BY <1>2, <2>2 DEF GenerateKey, Refused
    <3>. QED  BY <3>1, Refusing DEF Stays
  <2>. QED  BY <2>1, <2>2
<1>3. CASE WriteKey(r)
  <2>1. CASE "secret-kv" \in up
    <3>1. Step(r) = "llm-kv" /\ DoneAs(r, req[r], {}, {})
          /\ UNCHANGED <<row, db, up, lib, nomad>>
      BY <1>3, <2>1 DEF WriteKey, At, Step, Done
    <3>2. llm' = [key |-> llm.key, kv |-> r]
      BY <1>0, <1>3, <2>1 DEF WriteKey
    <3>. QED  BY <2>1, <3>1, <3>2, Simply DEF Keying
  <2>2. CASE "secret-kv" \notin up
    <3>1. Fails(r, FALSE) /\ UNCHANGED faults /\ UNCHANGED <<row, db, up, lib, llm, nomad>>
      BY <1>3, <2>2 DEF WriteKey, Refused
    <3>. QED  BY <3>1, Refusing DEF Stays
  <2>. QED  BY <2>1, <2>2
<1>. QED  BY <1>1, <1>2, <1>3

LEMMA StaySteps ==
  ASSUME Typed, NEW r \in InFlight,
         CreatePeriodicToken(r) \/ WaitSchedulable(r) \/ CallFails(r)
  PROVE  Moves(r) /\ Stays(r)
<1>1. UNCHANGED <<row, db, up, lib, llm, nomad>>
  BY DEF CreatePeriodicToken, WaitSchedulable, CallFails
<1>2. CASE Step(r) \in {"token", "volume-wait"} /\ DoneAs(r, req[r], {}, {})
  <2>1. Moves(r) /\ Does(r, {}, {})
    BY <1>2, Simply
  <2>2. Lost(r, {}, TRUE) => Lost(r, {}, FALSE)
    BY <1>2, OnlyReading
  <2>. QED  BY <1>1, <1>2, <2>1, <2>2 DEF Stays, Does
<1>3. CASE Fails(r, FALSE) /\ (faults' = faults \/ Fault)
  BY <1>1, <1>3, Refusing DEF Stays
<1>. QED
  BY <1>2, <1>3
     DEF CreatePeriodicToken, WaitSchedulable, CallFails, At, Step, Done, Refused

LEMMA DescriptorSteps ==
  ASSUME Typed, NEW r \in InFlight, WriteDescriptor(r)
  PROVE  Moves(r) /\ Describes(r)
<1>1. Step(r) = "descriptor" /\ UNCHANGED <<db, up, lib, llm, nomad>>
      /\ DoneAs(r, req[r], {"undone"}, IF Exists THEN {"rebuilt"} ELSE {})
  BY DEF WriteDescriptor, At, Step
<1>2. req[r].op = "create"
  BY <1>1, RequestFits, Heads DEF Step, Making
<1>3. req[r].arg \in Groups \X Subjects
  BY <1>2, RequestFits DEF Fits, Args
<1>4. /\ row' = [NoRow EXCEPT !.status = "ready", !.group = req[r].arg[1]]
      /\ req[r].arg[1] \in Groups
  BY <1>3 DEF WriteDescriptor
<1>5. row' = [status |-> "ready", group |-> req[r].arg[1], lib |-> None,
              github |-> FALSE, flavors |-> {}]
  BY <1>4 DEF NoRow
<1>6. Moves(r) /\ Does(r, {"undone"}, IF Exists THEN {"rebuilt"} ELSE {})
  BY <1>1, Simply DEF Marks
<1>. QED  BY <1>1, <1>4, <1>5, <1>6 DEF Describes

LEMMA ReadSteps ==
  ASSUME Typed, NEW r \in InFlight, ReadDescriptor(r)
  PROVE  Moves(r) /\ (Reading(r) \/ Stays(r))
<1>1. Step(r) \in Reads /\ UNCHANGED <<row, db, up, lib, llm, nomad>>
  BY DEF ReadDescriptor, At, Step
<1>2. /\ req[r] \in Askings /\ req[r].todo # << >> /\ Fits(req[r]) /\ r \in Requests
      /\ req[r].op \notin Over /\ req[r].todo \in Seq(Steps)
  BY RequestFits
<1>3. At(r, "read") <=> Step(r) = "read"
  BY <1>2 DEF At, Step
<1>4. CASE ~Exists
  <2>1. Fails(r, FALSE) /\ UNCHANGED faults
    BY <1>4 DEF ReadDescriptor, Refused
  <2>. QED  BY <1>1, <2>1, Refusing DEF Stays
<1>5. CASE Exists /\ Step(r) # "read"
  <2>. DEFINE new == [req[r] EXCEPT !.copy = row,
                                    !.todo = IF At(r, "read")
                                             THEN @ \o ProvisionPlan(FALSE) ELSE @]
  <2>1. DoneAs(r, new, {}, {})
    BY <1>5 DEF ReadDescriptor
  <2>2. new \in [op : {req[r].op}, arg : {req[r].arg}, copy : {row}, lib : {req[r].lib},
                 flavors : {req[r].flavors}, failed : {req[r].failed},
                 swept : {req[r].swept}, todo : {req[r].todo}]
    BY <1>2, <1>3, <1>5 DEF Askings
  <2>. HIDE DEF new
  <2>3. /\ new \in Askings /\ new.op = req[r].op /\ new.arg = req[r].arg
        /\ new.copy = row /\ new.lib = req[r].lib /\ new.failed = req[r].failed
        /\ new.swept = req[r].swept /\ new.flavors = req[r].flavors
        /\ new.todo = req[r].todo
    BY <1>2, <2>2 DEF Askings, Typed, TypeOK
  <2>4. Alone(r) /\ (Went(r, new, {}, {}) \/ Lost(r, {}, TRUE))
    BY <1>2, <2>1, <2>3, DoneSteps
  <2>5. Fits(req'[r])
    BY <1>2, <1>5, <2>3, <2>4, WentFits, LostFits DEF Exists
  <2>6. marks' \subseteq Marks /\ faults' \in 0 .. MaxFaults
    BY <2>4, NotedMarks DEF Went, Lost, Noted, Typed, TypeOK, Marks, Accidents
  <2>7. Tail(req[r].todo) # << >>
    <3>1. CASE Provisioned(req[r])
      BY <1>1, <1>2, <3>1, ProvisionLeft, GitHubLeft DEF Step, Reads, Provisioned
    <3>2. CASE Stopping(req[r])
      <4>1. Head(<<"fail-save">>) = "fail-save" /\ Tail(FailPlan) = <<"fail-save">>
        BY DEF FailPlan
      <4>2. <<"fail-save">> # << >>
        OBVIOUS
      <4>. QED  BY <1>1, <3>2, <4>1, <4>2 DEF Stopping, Step, Reads
    <3>3. CASE req[r].todo \in Rest(req[r].op)
      <4>1. <<"github-save">> # << >> /\ <<"sync-list", "sync-save">> # << >>
        OBVIOUS
      <4>2. \/ Step(r) = "github-read" /\ Tail(req[r].todo) = <<"github-save">>
            \/ Step(r) = "sync-read" /\ Tail(req[r].todo) = <<"sync-list", "sync-save">>
        BY <1>1, <1>5, <3>3, ShortSteps DEF Step, Reads
      <4>. QED  BY <4>1, <4>2
    <3>4. CASE Founding(req[r])
      BY <1>1, <1>2, <1>5, <3>4, CreateLeft DEF Step, Reads, Founding
    <3>5. ~Clearing(req[r])
      BY <1>1, <1>2, DeleteLeft DEF Step, Reads, Clearing, Deleting
    <3>. QED  BY <1>2, <3>1, <3>2, <3>3, <3>4, <3>5, Doings
  <2>8. Went(r, new, {}, {}) =>
          /\ Goes(r, Tail(req[r].todo)) /\ Noted(r, {}, {})
          /\ req'[r].copy = row /\ req'[r].lib = req[r].lib
          /\ req'[r].flavors = req[r].flavors
          /\ req'[r].failed = req[r].failed /\ req'[r].swept = req[r].swept
    BY <2>3, <2>7 DEF Went, Onward, Goes
  <2>9. Moves(r)
    BY <2>4, <2>5, <2>6 DEF Moves
  <2>. QED
    BY <1>1, <1>5, <2>4, <2>8, <2>9, OnlyReading DEF Reading, Stays
<1>6. CASE Exists /\ Step(r) = "read"
  <2>. DEFINE new == [req[r] EXCEPT !.copy = row,
                                    !.todo = IF At(r, "read")
                                             THEN @ \o ProvisionPlan(FALSE) ELSE @]
              todo == req[r].todo \o Plain
  <2>1. DoneAs(r, new, {}, {})
    BY <1>6 DEF ReadDescriptor
  <2>2. new \in [op : {req[r].op}, arg : {req[r].arg}, copy : {row}, lib : {req[r].lib},
                 flavors : {req[r].flavors}, failed : {req[r].failed},
                 swept : {req[r].swept}, todo : {todo}]
    BY <1>2, <1>3, <1>6 DEF Askings, Plain
  <2>3. Founding(req[r]) /\ req[r].op = "create"
    BY <1>2, <1>6, Heads DEF Step, Making
  <2>4. req[r].todo = <<"read">>
    BY <1>2, <1>6, <2>3, CreateLeft DEF Step, Founding
  <2>5. todo \in Seq(Steps) /\ todo # << >> /\ Tail(todo) = Plain
    <3>1. todo \in Seq(Steps) /\ Len(todo) = Len(req[r].todo) + Len(Plain)
      BY <1>2, ReadOn
    <3>2. Tail(todo) = Plain
      BY <2>4, ReadOn
    <3>3. todo # << >>
      <4>1. Len(req[r].todo) = 1 /\ Len(Plain) = 14
        BY <2>4, ProvisionSpots
      <4>. QED  BY <3>1, <4>1
    <3>. QED  BY <3>1, <3>2, <3>3
  <2>. HIDE DEF new, todo
  <2>6. /\ new \in Askings /\ new.op = req[r].op /\ new.arg = req[r].arg
        /\ new.copy = row /\ new.lib = req[r].lib /\ new.failed = req[r].failed
        /\ new.swept = req[r].swept /\ new.flavors = req[r].flavors
        /\ new.todo = todo
    BY <1>2, <2>2, <2>5 DEF Askings, Typed, TypeOK
  <2>7. Alone(r) /\ (Went(r, new, {}, {}) \/ Lost(r, {}, TRUE))
    BY <1>2, <2>1, <2>5, <2>6, DoneSteps
  <2>8. Went(r, new, {}, {}) =>
          /\ Goes(r, Plain) /\ Noted(r, {}, {})
          /\ req'[r].copy = row /\ req'[r].lib = req[r].lib
          /\ req'[r].flavors = req[r].flavors
          /\ req'[r].failed = req[r].failed /\ req'[r].swept = req[r].swept
    BY <2>5, <2>6, ReadOn DEF Went, Onward, Goes
  <2>9. Fits(req'[r])
    <3>1. CASE Lost(r, {}, TRUE)
      BY <2>7, <3>1, LostFits
    <3>2. CASE Went(r, new, {}, {})
      <4>1. Plain \in Plans("create")
        BY DEF Plans, Over
      <4>2. /\ req'[r].op = "create" /\ req'[r].arg = req[r].arg /\ req'[r].todo = Plain
            /\ req'[r].copy # NoRow /\ req'[r] \in Askings
        BY <1>2, <1>6, <2>3, <2>7, <2>8, <3>2 DEF Goes, Exists, Alone
      <4>. QED  BY <1>2, <2>3, <4>1, <4>2, ReadOn DEF Fits, Over
    <3>. QED  BY <2>7, <3>1, <3>2
  <2>10. marks' \subseteq Marks /\ faults' \in 0 .. MaxFaults
    BY <2>7, NotedMarks DEF Went, Lost, Noted, Typed, TypeOK, Marks, Accidents
  <2>11. Moves(r)
    BY <2>7, <2>9, <2>10 DEF Moves
  <2>. QED
    BY <1>1, <1>6, <2>7, <2>8, <2>11, OnlyReading DEF Reading, Stays
<1>. QED  BY <1>4, <1>5, <1>6

LEMMA UpsertSteps ==
  ASSUME Typed, NEW r \in InFlight,
         SaveGroup(r) \/ SaveGitHub(r) \/ SaveLibrary(r) \/ SaveError(r) \/ SaveFlavors(r)
  PROVE  Moves(r) /\ Upserts(r)
<1>1. /\ req[r] \in Askings /\ Fits(req[r]) /\ r \in Requests /\ req[r].op \notin Over
      /\ req[r].todo # << >> /\ req[r].todo \in Seq(Steps)
  BY RequestFits
<1>2. /\ Step(r) \in {"group-save", "github-save", "lib-save", "fail-save", "sync-save"}
      /\ UNCHANGED <<db, up, lib, llm, nomad>>
      /\ DoneAs(r, req[r], IF Step(r) = "sync-save" THEN {"unsynced", "rebuilt"} ELSE {},
                Stale(r))
  BY DEF SaveGroup, SaveGitHub, SaveLibrary, SaveError, SaveFlavors, Upsert, At, Step
<1>3. Moves(r) /\ Does(r, IF Step(r) = "sync-save" THEN {"unsynced", "rebuilt"} ELSE {},
                       Stale(r))
  BY <1>2, Simply DEF Stale, Marks
<1>4. req[r].copy # NoRow
  <2>1. ~Founding(req[r])
    BY <1>1, <1>2, CreateLeft DEF Founding, Step, Making
  <2>2. req[r].op = "create" => "read" \notin Left(req[r].todo)
    <3>1. CASE Provisioned(req[r])
      BY <1>1, <3>1, ProvisionLeft, GitHubLeft DEF Provisioned, Provisioning
    <3>2. CASE Stopping(req[r])
      <4>1. \A s \in {FailPlan, <<"fail-save">>} : "read" \notin Left(s)
        BY LeftOfOne DEF FailPlan, Left
      <4>. QED  BY <3>2, <4>1 DEF Stopping
    <3>. QED  BY <1>1, <2>1, <3>1, <3>2, Doings DEF Clearing, Rest
  <2>3. req[r].op # "create" => "read" \notin Left(req[r].todo)
    <3>1. CASE Provisioned(req[r])
      BY <1>1, <3>1, ProvisionLeft, GitHubLeft DEF Provisioned, Provisioning
    <3>2. CASE Stopping(req[r])
      <4>1. \A s \in {FailPlan, <<"fail-save">>} : "read" \notin Left(s)
        BY LeftOfOne DEF FailPlan, Left
      <4>. QED  BY <3>2, <4>1 DEF Stopping
    <3>3. ~Clearing(req[r])
      BY <1>1, <1>2, DeleteLeft DEF Clearing, Step, Deleting
    <3>4. CASE req[r].todo \in Rest(req[r].op)
      <4>1. req[r].todo \in {<<"group-save">>, <<"github-save">>, <<"sync-save">>}
        BY <1>2, <3>4, ShortSteps DEF Step
      <4>. QED  BY <4>1, LeftOfOne
    <3>. QED  BY <1>1, <2>1, <3>1, <3>2, <3>3, <3>4, Doings
  <2>. QED  BY <1>1, <2>2, <2>3 DEF Fits
<1>5. /\ req[r].copy \in Row \ {NoRow} /\ req[r].lib \in Makers \cup {None}
      /\ req[r].flavors \in SUBSET Flavors
  BY <1>1, <1>4 DEF Askings
<1>6. /\ row' \in Row /\ row' # NoRow
      /\ row'.status = CASE Step(r) = "lib-save" -> "ready"
                         [] Step(r) = "fail-save" -> "error"
                         [] OTHER -> req[r].copy.status
      /\ row'.lib = IF Step(r) = "lib-save" THEN req[r].lib ELSE req[r].copy.lib
      /\ row'.flavors = IF Step(r) = "sync-save" THEN req[r].flavors ELSE req[r].copy.flavors
  <2>. DEFINE R == [status : {"ready", "error"}, group : Groups, lib : Makers \cup {None},
                    github : BOOLEAN, flavors : SUBSET Flavors]
  <2>0. req[r].copy \in R /\ (\A x \in R : x # NoRow) /\ Row = R \cup {NoRow}
    BY <1>5 DEF Row, NoRow
  <2>1. CASE SaveGroup(r)
    <3>1. req[r].arg \in Groups
      <4>1. req[r].op = "update"
        BY <1>1, <2>1, Heads DEF SaveGroup, Upsert, At
      <4>. QED  BY <1>1, <4>1 DEF Fits, Args
    <3>2. Step(r) = "group-save" /\ row' = [req[r].copy EXCEPT !.group = req[r].arg]
      BY <2>1 DEF SaveGroup, Upsert, At, Step
    <3>. QED  BY <2>0, <3>1, <3>2
  <2>2. CASE SaveGitHub(r)
    <3>1. Step(r) = "github-save" /\ row' = [req[r].copy EXCEPT !.github = TRUE]
      BY <2>2 DEF SaveGitHub, Upsert, At, Step
    <3>. QED  BY <2>0, <3>1
  <2>3. CASE SaveLibrary(r)
    <3>1. Step(r) = "lib-save"
          /\ row' = [req[r].copy EXCEPT !.lib = req[r].lib, !.status = "ready"]
      BY <2>3 DEF SaveLibrary, Upsert, At, Step
    <3>. QED  BY <1>5, <2>0, <3>1
  <2>4. CASE SaveError(r)
    <3>1. Step(r) = "fail-save" /\ row' = [req[r].copy EXCEPT !.status = "error"]
      BY <2>4 DEF SaveError, Upsert, At, Step
    <3>. QED  BY <2>0, <3>1
  <2>5. CASE SaveFlavors(r)
    <3>1. Step(r) = "sync-save" /\ row' = [req[r].copy EXCEPT !.flavors = req[r].flavors]
      BY <2>5 DEF SaveFlavors, Upsert, At, Step
    <3>. QED  BY <1>5, <2>0, <3>1
  <2>. QED  BY <2>1, <2>2, <2>3, <2>4, <2>5
<1>. QED  BY <1>2, <1>3, <1>4, <1>6 DEF Upserts

LEMMA TableTypes ==
  ASSUME Typed
  PROVE  /\ db.templates \in SUBSET Flavors /\ db.admins \in SUBSET Subjects
         /\ db.restricted \in BOOLEAN /\ db.shared \in BOOLEAN
         /\ db = [templates |-> db.templates, admins |-> db.admins,
                  restricted |-> db.restricted, shared |-> db.shared]
         /\ nomad.job \in BOOLEAN /\ nomad.shared \in BOOLEAN
         /\ nomad.volume \in {"none", "attached", "detached", "orphaned"}
         /\ nomad = [job |-> nomad.job, volume |-> nomad.volume, shared |-> nomad.shared]
         /\ llm.key \in Makers \cup {None} /\ llm.kv \in Makers \cup {None}
         /\ llm = [key |-> llm.key, kv |-> llm.kv]
BY DEF Typed, TypeOK

LEMMA TemplateSteps ==
  ASSUME Typed, NEW r \in InFlight, SaveTemplate(r) \/ DropTemplate(r)
  PROVE  Moves(r) /\ (Templating(r) \/ Stays(r))
<1>1. Step(r) \in {"template-save", "template-drop"}
  BY DEF SaveTemplate, DropTemplate, At, Step
<1>2. req[r].arg \in Flavors
  BY <1>1, RequestFits, Heads DEF Step, Fits, Args
<1>3. CASE SaveTemplate(r)
  <2>1. DoneAs(r, req[r], {}, Changed)
    BY <1>3 DEF SaveTemplate
  <2>2. Tables(db.templates \cup {req[r].arg}, db.admins, db.restricted, db.shared)
    BY <1>3, TableTypes DEF SaveTemplate, InTables, Tables
  <2>3. Moves(r) /\ Does(r, {}, Changed)
    BY <1>1, <2>1, Simply DEF Changed, Marks
  <2>. QED  BY <1>1, <1>2, <2>2, <2>3, TableTypes DEF Templating
<1>4. CASE DropTemplate(r) /\ req[r].arg \in db.templates
  <2>1. DoneAs(r, req[r], {}, Changed)
    BY <1>4 DEF DropTemplate
  <2>2. Tables(db.templates \ {req[r].arg}, db.admins, db.restricted, db.shared)
    BY <1>4, TableTypes DEF DropTemplate, InTables, Tables
  <2>3. Moves(r) /\ Does(r, {}, Changed)
    BY <1>1, <2>1, Simply DEF Changed, Marks
  <2>. QED  BY <1>1, <1>2, <2>2, <2>3, TableTypes DEF Templating
<1>5. CASE DropTemplate(r) /\ req[r].arg \notin db.templates
  <2>1. Fails(r, FALSE) /\ UNCHANGED faults /\ UNCHANGED <<row, db, up, lib, llm, nomad>>
    BY <1>5 DEF DropTemplate, Refused, InTables
  <2>. QED  BY <2>1, Refusing DEF Stays
<1>. QED  BY <1>3, <1>4, <1>5

LEMMA ListSteps ==
  ASSUME Typed, NEW r \in InFlight, ListTemplates(r)
  PROVE  Moves(r) /\ (Lists(r) \/ Stays(r))
<1>1. Step(r) = "sync-list" /\ UNCHANGED <<row, db, up, lib, llm, nomad>>
  BY DEF ListTemplates, At, Step, InTables
<1>2. /\ req[r] \in Askings /\ req[r].todo # << >> /\ Fits(req[r]) /\ r \in Requests
      /\ req[r].op \notin Over
  BY RequestFits
<1>3. Tail(req[r].todo) = <<"sync-save">> /\ <<"sync-save">> # << >>
  <2>1. ~Founding(req[r]) /\ ~Provisioned(req[r]) /\ ~Clearing(req[r])
    <3>0. req[r].todo \in Seq(Steps) /\ Head(req[r].todo) = "sync-list"
      BY <1>1, <1>2 DEF Askings, Step
    <3>1. ~Founding(req[r])
      BY <3>0, <1>2, CreateLeft DEF Founding, Making
    <3>2. ~Provisioned(req[r])
      BY <3>0, <1>2, ProvisionLeft, GitHubLeft DEF Provisioned, Provisioning
    <3>3. ~Clearing(req[r])
      BY <3>0, <1>2, DeleteLeft DEF Clearing, Deleting
    <3>. QED  BY <3>1, <3>2, <3>3
  <2>2. ~Stopping(req[r])
    <3>1. Head(FailPlan) = "fail-read" /\ Head(<<"fail-save">>) = "fail-save"
      BY DEF FailPlan
    <3>. QED  BY <1>1, <3>1 DEF Stopping, Step
  <2>3. req[r].todo \in Rest(req[r].op)
    BY <1>2, <2>1, <2>2, Doings
  <2>. QED  BY <1>1, <2>3, ShortSteps DEF Step
<1>. DEFINE new == [req[r] EXCEPT !.flavors = db.templates]
<1>4. DoneAs(r, new, {}, {})
  BY DEF ListTemplates
<1>5. new \in [op : {req[r].op}, arg : {req[r].arg}, copy : {req[r].copy},
               lib : {req[r].lib}, flavors : {db.templates}, failed : {req[r].failed},
               swept : {req[r].swept}, todo : {req[r].todo}]
  BY <1>2 DEF Askings
<1>. HIDE DEF new
<1>6. /\ new \in Askings /\ new.op = req[r].op /\ new.arg = req[r].arg
      /\ new.copy = req[r].copy /\ new.flavors = db.templates
      /\ new.todo = req[r].todo
  BY <1>2, <1>5, TableTypes DEF Askings
<1>7. Alone(r) /\ (Went(r, new, {}, {}) \/ Lost(r, {}, TRUE))
  BY <1>2, <1>4, <1>6, DoneSteps
<1>8. Fits(req'[r])
  BY <1>1, <1>6, <1>7, WentFits, LostFits DEF Step
<1>9. marks' \subseteq Marks /\ faults' \in 0 .. MaxFaults
  BY <1>7, NotedMarks DEF Went, Lost, Noted, Typed, TypeOK, Marks, Accidents
<1>10. Moves(r)
  BY <1>7, <1>8, <1>9 DEF Moves
<1>11. Went(r, new, {}, {}) =>
         /\ Goes(r, Tail(req[r].todo)) /\ Noted(r, {}, {})
         /\ req'[r].flavors = db.templates
  BY <1>3, <1>6 DEF Went, Onward, Goes
<1>. QED  BY <1>1, <1>7, <1>10, <1>11, OnlyReading DEF Lists, Stays

LEMMA RoleSteps ==
  ASSUME Typed, NEW r \in InFlight, GrantRole(r) \/ RevokeRole(r) \/ RestrictUsers(r)
  PROVE  Moves(r) /\ Granting(r)
<1>1. Step(r) \in {"grant", "revoke", "restrict"} /\ DoneAs(r, req[r], {}, {})
  BY DEF GrantRole, RevokeRole, RestrictUsers, At, Step, Done
<1>2. Moves(r) /\ Does(r, {}, {})
  BY <1>1, Simply
<1>3. CASE GrantRole(r)
  <2>. DEFINE a == IF req[r].op = "create" THEN req[r].arg[2] ELSE req[r].arg
  <2>1. Step(r) = "grant"
    BY <1>3 DEF GrantRole, At, Step
  <2>2. a \in Subjects
    <3>1. req[r].op \in {"create", "grant"}
      BY <2>1, RequestFits, Heads DEF Step, Making
    <3>2. req[r].op = "create" => req[r].arg \in Groups \X Subjects
      BY RequestFits DEF Fits, Args
    <3>3. req[r].op = "grant" => req[r].arg \in Subjects
      BY RequestFits DEF Fits, Args
    <3>. QED  BY <3>1, <3>2, <3>3
  <2>3. Tables(db.templates, db.admins \cup {a}, db.restricted, db.shared)
    <3>1. db' = [db EXCEPT !.admins = @ \cup {a}] /\ UNCHANGED <<row, up, lib, llm, nomad>>
      BY <1>3 DEF GrantRole, InTables
    <3>. HIDE DEF a
    <3>. QED  BY <3>1, TableTypes DEF Tables
  <2>. QED  BY <1>2, <2>1, <2>2, <2>3 DEF Granting
<1>4. CASE RevokeRole(r)
  <2>1. Step(r) = "revoke"
    BY <1>4 DEF RevokeRole, At, Step
  <2>2. Tables(db.templates, db.admins \ {req[r].arg}, db.restricted, db.shared)
    BY <1>4, TableTypes DEF RevokeRole, InTables, Tables
  <2>. QED  BY <1>2, <2>1, <2>2 DEF Granting
<1>5. CASE RestrictUsers(r)
  <2>1. Step(r) = "restrict"
    BY <1>5 DEF RestrictUsers, At, Step
  <2>2. Tables(db.templates, db.admins, TRUE, db.shared)
    BY <1>5, TableTypes DEF RestrictUsers, InTables, Tables
  <2>. QED  BY <1>2, <2>1, <2>2 DEF Granting
<1>. QED  BY <1>3, <1>4, <1>5

LEMMA VolumeSteps ==
  ASSUME Typed, NEW r \in InFlight,
         CreateSharedVolume(r) \/ InsertVolume(r) \/ DeleteSharedVolume(r) \/ DropVolumeRow(r)
  PROVE  Moves(r) /\ (Volumed(r) \/ VolumeRows(r) \/ Stays(r))
<1>1. CASE Fails(r, FALSE) /\ UNCHANGED faults /\ UNCHANGED <<row, db, up, lib, llm, nomad>>
  BY <1>1, Refusing DEF Stays
<1>2. CASE CreateSharedVolume(r) /\ "nomad-ns" \in up
  <2>1. Step(r) = "volume" /\ DoneAs(r, req[r], {}, {})
        /\ UNCHANGED <<row, db, up, lib, llm>>
    BY <1>2 DEF CreateSharedVolume, At, Step, Done
  <2>2. Plane(nomad.job, nomad.volume, TRUE)
    BY <1>2, TableTypes DEF CreateSharedVolume, Plane
  <2>3. Moves(r) /\ Does(r, {}, {})
    BY <2>1, Simply
  <2>. QED  BY <2>1, <2>2, <2>3 DEF Volumed
<1>3. CASE InsertVolume(r) /\ ~db.shared
  <2>1. Step(r) = "volume-row" /\ DoneAs(r, req[r], {}, {})
    BY <1>3 DEF InsertVolume, At, Step, Done
  <2>2. Tables(db.templates, db.admins, db.restricted, TRUE)
    BY <1>3, TableTypes DEF InsertVolume, InTables, Tables
  <2>3. Moves(r) /\ Does(r, {}, {})
    BY <2>1, Simply
  <2>. QED  BY <1>3, <2>1, <2>2, <2>3 DEF VolumeRows
<1>4. CASE DeleteSharedVolume(r)
  <2>1. Step(r) = "unvolume" /\ DoneAs(r, req[r], {}, {})
        /\ UNCHANGED <<row, db, up, lib, llm>>
    BY <1>4 DEF DeleteSharedVolume, At, Step, Done
  <2>2. Plane(nomad.job, nomad.volume, FALSE)
    BY <1>4, TableTypes DEF DeleteSharedVolume, Plane
  <2>3. Moves(r) /\ Does(r, {}, {})
    BY <2>1, Simply
  <2>. QED  BY <2>1, <2>2, <2>3 DEF Volumed
<1>5. CASE DropVolumeRow(r) /\ db.shared
  <2>1. Step(r) = "volume-unrow" /\ DoneAs(r, req[r], {}, {})
    BY <1>5 DEF DropVolumeRow, At, Step, Done
  <2>2. Tables(db.templates, db.admins, db.restricted, FALSE)
    BY <1>5, TableTypes DEF DropVolumeRow, InTables, Tables
  <2>3. Moves(r) /\ Does(r, {}, {})
    BY <2>1, Simply
  <2>. QED  BY <1>5, <2>1, <2>2, <2>3 DEF VolumeRows
<1>6. CASE DropVolumeRow(r) /\ ~db.shared
  <2>1. [db EXCEPT !.shared = FALSE] = db
    BY <1>6, TableTypes
  <2>. QED  BY <1>6, <2>1, <1>1 DEF DropVolumeRow, Refused, InTables
<1>. QED
  BY <1>1, <1>2, <1>3, <1>4, <1>5, <1>6
     DEF CreateSharedVolume, InsertVolume, Refused, InTables

LEMMA DeleteCalls ==
  ASSUME Typed, NEW r \in InFlight,
         \/ PurgeJobs(r) \/ DeleteNomadNamespace(r)
         \/ DeleteBindingRules(r) \/ DeleteACLPolicy(r) \/ DeleteScope(r)
         \/ DeleteVaultNamespace(r) \/ DeleteTemplates(r) \/ DeleteRoles(r)
         \/ DeleteCapabilities(r)
  PROVE  /\ Moves(r)
         /\ Purges(r) \/ Denames(r) \/ Removing(r) \/ Emptying(r) \/ Stays(r)
<1>1. CASE PurgeJobs(r)
  <2>1. Step(r) = "jobs" /\ DoneAs(r, req[r], {}, {}) /\ UNCHANGED <<row, db, up, lib, llm>>
    BY <1>1 DEF PurgeJobs, At, Step, Done, InPlanes
  <2>2. Plane(FALSE, nomad.volume, nomad.shared)
    BY <1>1, TableTypes DEF PurgeJobs, Plane
  <2>3. Moves(r) /\ Does(r, {}, {})
    BY <2>1, Simply
  <2>. QED  BY <2>1, <2>2, <2>3 DEF Purges
<1>2. CASE DeleteNomadNamespace(r) /\ ~nomad.job
  <2>1. Step(r) = "un-nomad-ns" /\ DoneAs(r, req[r], {}, Unbacked)
        /\ up' = up \ {"nomad-ns"} /\ UNCHANGED <<row, db, lib, llm>>
    BY <1>2 DEF DeleteNomadNamespace, At, Step, InPlanes
  <2>2. Plane(nomad.job, IF nomad.volume = "none" THEN "none" ELSE "orphaned", FALSE)
    BY <1>2, TableTypes DEF DeleteNomadNamespace, Plane
  <2>3. Moves(r) /\ Does(r, {}, Unbacked)
    BY <2>1, Simply DEF Unbacked, Marks
  <2>. QED  BY <1>2, <2>1, <2>2, <2>3 DEF Denames
<1>3. CASE DeleteNomadNamespace(r) /\ nomad.job
  <2>1. Fails(r, FALSE) /\ UNCHANGED faults /\ UNCHANGED <<row, db, up, lib, llm, nomad>>
    BY <1>3 DEF DeleteNomadNamespace, Refused, InPlanes
  <2>. QED  BY <2>1, Refusing DEF Stays
<1>4. CASE DeleteBindingRules(r) \/ DeleteACLPolicy(r)
  <2>1. /\ \/ Step(r) = "un-binding" /\ up' = up \ {"binding"}
           \/ Step(r) = "un-nomad-policy" /\ up' = up \ {"nomad-policy"}
        /\ DoneAs(r, req[r], {}, {}) /\ UNCHANGED <<row, db, lib, llm, nomad>>
    BY <1>4 DEF DeleteBindingRules, DeleteACLPolicy, Removes, At, Step, Done, InPlanes
  <2>2. Moves(r) /\ Does(r, {}, {})
    BY <2>1, Simply
  <2>. QED  BY <2>1, <2>2 DEF Removing
<1>5. CASE DeleteScope(r)
  <2>1. /\ Step(r) = "un-scope" /\ up' = up \ BoundaryThings /\ lib' = None
        /\ DoneAs(r, req[r], {}, {}) /\ UNCHANGED <<row, db, llm, nomad>>
    BY <1>5 DEF DeleteScope, Removes, At, Step, Done, InPlanes
  <2>2. Moves(r) /\ Does(r, {}, {})
    BY <2>1, Simply
  <2>. QED  BY <2>1, <2>2 DEF Removing
<1>6. CASE DeleteVaultNamespace(r)
  <2>1. /\ Step(r) = "un-vault-ns" /\ up' = up \ VaultThings
        /\ DoneAs(r, req[r], {}, {}) /\ UNCHANGED <<row, db, lib, nomad>>
    BY <1>6 DEF DeleteVaultNamespace, At, Step, Done
  <2>2. llm' = [key |-> llm.key, kv |-> None]
    BY <1>6, TableTypes DEF DeleteVaultNamespace
  <2>3. Moves(r) /\ Does(r, {}, {})
    BY <2>1, Simply
  <2>. QED  BY <2>1, <2>2, <2>3 DEF Removing
<1>7. CASE DeleteTemplates(r)
  <2>1. Step(r) = "templates" /\ DoneAs(r, req[r], {}, {})
    BY <1>7 DEF DeleteTemplates, At, Step, Done
  <2>2. Tables({}, db.admins, db.restricted, db.shared)
    BY <1>7, TableTypes DEF DeleteTemplates, InTables, Tables
  <2>3. Moves(r) /\ Does(r, {}, {})
    BY <2>1, Simply
  <2>. QED  BY <2>1, <2>2, <2>3 DEF Emptying
<1>8. CASE DeleteRoles(r)
  <2>1. Step(r) = "roles" /\ DoneAs(r, req[r], {}, {})
    BY <1>8 DEF DeleteRoles, At, Step, Done
  <2>2. Tables(db.templates, {}, db.restricted, db.shared)
    BY <1>8, TableTypes DEF DeleteRoles, InTables, Tables
  <2>3. Moves(r) /\ Does(r, {}, {})
    BY <2>1, Simply
  <2>. QED  BY <2>1, <2>2, <2>3 DEF Emptying
<1>9. CASE DeleteCapabilities(r)
  <2>1. Step(r) = "capabilities" /\ DoneAs(r, req[r], {}, {})
    BY <1>9 DEF DeleteCapabilities, At, Step, Done
  <2>2. Tables(db.templates, db.admins, FALSE, db.shared)
    BY <1>9, TableTypes DEF DeleteCapabilities, InTables, Tables
  <2>3. Moves(r) /\ Does(r, {}, {})
    BY <2>1, Simply
  <2>. QED  BY <2>1, <2>2, <2>3 DEF Emptying
<1>. QED  BY <1>1, <1>2, <1>3, <1>4, <1>5, <1>6, <1>7, <1>8, <1>9

LEMMA SweepSteps ==
  ASSUME Typed, NEW r \in InFlight, SweepVolumes(r)
  PROVE  Moves(r) /\ Sweeps(r)
<1>1. Step(r) = "volumes" /\ UNCHANGED <<row, db, up, lib, llm>>
  BY DEF SweepVolumes, At, Step, InPlanes
<1>2. /\ req[r] \in Askings /\ req[r].todo # << >> /\ Fits(req[r]) /\ r \in Requests
      /\ req[r].op \notin Over
  BY RequestFits
<1>3. Tail(req[r].todo) # << >>
  <2>1. Clearing(req[r])
    BY <1>1, <1>2, Heads DEF Step, Deleting
  <2>. QED  BY <1>1, <1>2, <2>1, DeleteLeft, Doings DEF Step, Clearing
<1>4. Plane(nomad.job, IF nomad.volume = "detached" THEN "none" ELSE nomad.volume, FALSE)
  BY TableTypes DEF SweepVolumes, Plane
<1>. DEFINE att == nomad.volume = "attached"
            new == IF att THEN [req[r] EXCEPT !.failed = TRUE]
                          ELSE [req[r] EXCEPT !.swept = TRUE]
<1>5. DoneAs(r, new, {}, Unbacked)
  BY DEF SweepVolumes
<1>6. /\ new \in Askings /\ new.op = req[r].op /\ new.arg = req[r].arg
      /\ new.copy = req[r].copy /\ new.todo = req[r].todo
      /\ IF att THEN new.failed = TRUE /\ new.swept = req[r].swept
                ELSE new.failed = req[r].failed /\ new.swept = TRUE
  <2>1. CASE att
    <3>1. [req[r] EXCEPT !.failed = TRUE] \in
            [op : {req[r].op}, arg : {req[r].arg}, copy : {req[r].copy},
             lib : {req[r].lib}, flavors : {req[r].flavors}, failed : {TRUE},
             swept : {req[r].swept}, todo : {req[r].todo}]
      BY <1>2 DEF Askings
    <3>2. new = [req[r] EXCEPT !.failed = TRUE]
      BY <2>1
    <3>. HIDE DEF new, att
    <3>. QED  BY <1>2, <2>1, <3>1, <3>2 DEF Askings
  <2>2. CASE ~att
    <3>1. [req[r] EXCEPT !.swept = TRUE] \in
            [op : {req[r].op}, arg : {req[r].arg}, copy : {req[r].copy},
             lib : {req[r].lib}, flavors : {req[r].flavors}, failed : {req[r].failed},
             swept : {TRUE}, todo : {req[r].todo}]
      BY <1>2 DEF Askings
    <3>2. new = [req[r] EXCEPT !.swept = TRUE]
      BY <2>2
    <3>. HIDE DEF new, att
    <3>. QED  BY <1>2, <2>2, <3>1, <3>2 DEF Askings
  <2>. QED  BY <2>1, <2>2
<1>. HIDE DEF new
<1>7. Alone(r) /\ (Went(r, new, {}, Unbacked) \/ Lost(r, Unbacked, TRUE))
  BY <1>2, <1>5, <1>6, DoneSteps
<1>8. Fits(req'[r])
  BY <1>1, <1>6, <1>7, WentFits, LostFits DEF Step
<1>9. marks' \subseteq Marks /\ faults' \in 0 .. MaxFaults
  BY <1>7, NotedMarks DEF Went, Lost, Noted, Typed, TypeOK, Marks, Accidents, Unbacked
<1>10. Moves(r)
  BY <1>7, <1>8, <1>9 DEF Moves
<1>11. Went(r, new, {}, Unbacked) =>
         /\ Goes(r, Tail(req[r].todo)) /\ Noted(r, {}, Unbacked)
         /\ IF nomad.volume = "attached"
            THEN req'[r].failed = TRUE /\ req'[r].swept = req[r].swept
            ELSE req'[r].failed = req[r].failed /\ req'[r].swept = TRUE
  BY <1>3, <1>6 DEF Went, Onward, Goes
<1>. QED  BY <1>1, <1>4, <1>7, <1>10, <1>11 DEF Sweeps

LEMMA VerdictSteps ==
  ASSUME Typed, NEW r \in InFlight, Verdict(r)
  PROVE  Moves(r) /\ Judges(r)
<1>1. Step(r) = "verdict" /\ UNCHANGED <<db, up, lib, llm, nomad>>
  BY DEF Verdict, At, Step
<1>2. /\ req[r] \in Askings /\ req[r].todo # << >> /\ Fits(req[r]) /\ r \in Requests
      /\ req[r].op \notin Over
  BY RequestFits
<1>3. req[r].copy \in Row /\ req[r].copy # NoRow
  <2>1. Clearing(req[r])
    BY <1>1, <1>2, Heads DEF Step, Deleting
  <2>2. "read" \notin Left(req[r].todo)
    BY <1>2, <2>1, DeleteLeft, Doings DEF Clearing, Deleting
  <2>. QED  BY <1>2, <2>2 DEF Fits, Askings
<1>4. CASE req[r].failed
  <2>1. row' = [req[r].copy EXCEPT !.status = "error"] /\ DoneAs(r, req[r], {}, {"undone"})
    BY <1>4 DEF Verdict
  <2>2. row' \in Row /\ row' # NoRow /\ row'.status = "error"
    <3>. DEFINE R == [status : {"ready", "error"}, group : Groups,
                      lib : Makers \cup {None}, github : BOOLEAN,
                      flavors : SUBSET Flavors]
    <3>1. req[r].copy \in Row \ {NoRow}
      BY <1>3
    <3>2. (\A x \in R : x # NoRow) /\ Row = R \cup {NoRow}
      BY DEF Row, NoRow
    <3>3. req[r].copy \in R
      BY <3>1, <3>2
    <3>. QED  BY <2>1, <3>2, <3>3
  <2>3. Moves(r) /\ Does(r, {}, {"undone"})
    BY <1>1, <2>1, Simply DEF Marks
  <2>. QED  BY <1>1, <1>4, <2>2, <2>3 DEF Judges
<1>5. CASE ~req[r].failed
  <2>1. row' = NoRow /\ DoneAs(r, req[r], {}, {"deleted"})
    BY <1>5 DEF Verdict
  <2>2. Moves(r) /\ Does(r, {}, {"deleted"})
    BY <1>1, <2>1, Simply DEF Marks
  <2>. QED  BY <1>1, <1>5, <2>1, <2>2 DEF Judges
<1>. QED  BY <1>4, <1>5

\* Every step of a request is one of these.
LEMMA CallSteps ==
  ASSUME Typed, NEW r \in InFlight, Calls(r)
  PROVE  /\ Moves(r)
         /\ \/ Stays(r) \/ Builds(r) \/ MakesLibrary(r) \/ Keying(r) \/ Describes(r)
            \/ Reading(r) \/ Upserts(r) \/ Templating(r) \/ Lists(r) \/ Granting(r)
            \/ VolumeRows(r) \/ Emptying(r) \/ Volumed(r) \/ Purges(r) \/ Sweeps(r)
            \/ Denames(r) \/ Removing(r) \/ Judges(r)
BY BuildSteps, LibrarySteps, KeySteps, StaySteps, DescriptorSteps, ReadSteps, UpsertSteps,
   TemplateSteps, ListSteps, RoleSteps, VolumeSteps, DeleteCalls, SweepSteps, VerdictSteps
   DEF Calls

--------------------------------------------------------------------------------
(* The first state, and the start of a request.                            *)

\* Request r begins: nothing else changes.
Begins(r) ==
  /\ r \in Requests /\ req[r].op = "new"
  /\ Alone(r) /\ Fits(req'[r])
  /\ LET b == req'[r] IN
     /\ b.op \in Makings \cup Others /\ b.copy = row /\ ~b.failed /\ ~b.swept
     /\ b.op # "create" => Exists
     /\ b.op = "create" => b.todo = CreatePlan
     /\ b.op = "provision" => b.todo \in {Plain, WithGitHub}
     /\ b.op = "template" => b.todo # <<"sync-save">>
     /\ b.op = "delete" => b.todo = DeletePlan
     /\ b.op = "revoke" => db.admins # {b.arg}
     /\ b.op = "volume-create" =>
          ~db.shared /\ b.todo = <<"volume", "volume-wait", "volume-row">>
     /\ b.op = "volume-delete" => db.shared /\ b.todo = <<"unvolume", "volume-unrow">>
     /\ marks' = IF b.op = "create" THEN marks \ {"deleted"} ELSE marks
  /\ UNCHANGED <<row, db, up, lib, llm, nomad, faults>>

LEMMA BeginFits ==
  ASSUME Typed, NEW r \in Requests, NEW op \in Makings \cup Others, NEW arg \in Args(op),
         NEW plan \in Plans(op), plan # << >>, op # "create" => Exists,
         op = "create" => plan = CreatePlan, Begin(r, op, arg, plan)
  PROVE  /\ req[r].op = "new" /\ Alone(r) /\ Fits(req'[r])
         /\ req'[r].op = op /\ req'[r].arg = arg /\ req'[r].todo = plan
         /\ req'[r].copy = row /\ req'[r].failed = FALSE /\ req'[r].swept = FALSE
         /\ UNCHANGED <<row, db, up, lib, llm, nomad, faults>>
<1>. DEFINE b == [Idle(op) EXCEPT !.arg = arg, !.copy = row, !.todo = plan]
<1>1. /\ op \in Ops /\ op \notin Over /\ plan \in Seq(Steps)
      /\ row \in Row /\ arg \in UNION {Args(o) : o \in Ops}
  <2>1. op \in Ops /\ op \notin Over
    BY DEF Ops, Makings, Others, Over
  <2>2. plan \in Seq(Steps)
    BY <2>1, AllPlans
  <2>. QED  BY <2>1, <2>2 DEF Typed, TypeOK
<1>2. b \in [op : {op}, arg : {arg}, copy : {row}, lib : {None}, flavors : {{}},
             failed : {FALSE}, swept : {FALSE}, todo : {plan}]
  BY DEF Idle
<1>3. b \in Askings
  <2>. HIDE DEF b
  <2>. QED  BY <1>1, <1>2 DEF Askings
<1>4. req' = [req EXCEPT ![r] = b] /\ req[r].op = "new"
      /\ UNCHANGED <<row, db, up, lib, llm, nomad, faults>>
  BY DEF Begin
<1>5. Alone(r) /\ req'[r] = b
  <2>. HIDE DEF b
  <2>. QED  BY <1>3, <1>4 DEF Alone, Typed
<1>6. /\ b.op = op /\ b.arg = arg /\ b.todo = plan /\ b.copy = row
      /\ b.failed = FALSE /\ b.swept = FALSE
  <2>. HIDE DEF b
  <2>. QED  BY <1>2
<1>7. Suffix(plan, plan)
  BY <1>1, WholeSuffix
<1>8. op = "create" => "read" \in Left(plan)
  BY WholeLeft
<1>9. Fits(b)
  <2>. HIDE DEF b
  <2>. QED  BY <1>1, <1>3, <1>6, <1>7, <1>8 DEF Fits, Exists
<1>. HIDE DEF b
<1>. QED  BY <1>4, <1>5, <1>6, <1>9

LEMMA BeginSteps ==
  ASSUME Typed, NEW r \in Requests, Start(r)
  PROVE  Begins(r)
<1>0. Plain # << >> /\ WithGitHub # << >> /\ CreatePlan # << >> /\ DeletePlan # << >>
  <2>1. /\ Len(WithGitHub) = 17 /\ WithGitHub \in Seq(Steps)
        /\ Len(DeletePlan) = 12 /\ DeletePlan \in Seq(Steps)
    BY GitHubSpots, DeleteSpots, PlansAreSteps
  <2>2. /\ Len(Plain) = 14 /\ Plain \in Seq(Steps)
        /\ Len(CreatePlan) = 13 /\ CreatePlan \in Seq(Steps)
    BY ProvisionSpots, CreateSpots, PlansAreSteps
  <2>3. /\ WithGitHub = << >> <=> Len(WithGitHub) = 0
        /\ DeletePlan = << >> <=> Len(DeletePlan) = 0
    BY <2>1, NoLength
  <2>4. /\ Plain = << >> <=> Len(Plain) = 0
        /\ CreatePlan = << >> <=> Len(CreatePlan) = 0
    BY <2>2, NoLength
  <2>. QED  BY <2>1, <2>2, <2>3, <2>4
<1>. USE DEF Makings, Others
<1>1. ASSUME NEW g \in Groups, NEW a \in Subjects, CreateProject(r, g, a)
      PROVE  Begins(r)
  <2>1. Begin(r, "create", <<g, a>>, CreatePlan) /\ marks' = marks \ {"deleted"}
    BY <1>1 DEF CreateProject
  <2>2. <<g, a>> \in Args("create") /\ CreatePlan \in Plans("create")
    BY DEF Args, Plans, Over
  <2>3. /\ req[r].op = "new" /\ Alone(r) /\ Fits(req'[r])
        /\ req'[r].op = "create" /\ req'[r].todo = CreatePlan
        /\ req'[r].copy = row /\ req'[r].failed = FALSE /\ req'[r].swept = FALSE
        /\ UNCHANGED <<row, db, up, lib, llm, nomad, faults>>
    BY <1>0, <2>1, <2>2, BeginFits
  <2>. QED  BY <2>1, <2>3 DEF Begins
<1>2. ASSUME NEW github \in BOOLEAN, Provision(r, github)
      PROVE  Begins(r)
  <2>1. Exists /\ Begin(r, "provision", None, ProvisionPlan(github)) /\ UNCHANGED marks
    BY <1>2 DEF Provision
  <2>2. ProvisionPlan(github) \in {Plain, WithGitHub}
    BY DEF Plain, WithGitHub
  <2>3. None \in Args("provision") /\ ProvisionPlan(github) \in Plans("provision")
    BY <2>2 DEF Args, Plans, Over
  <2>. HIDE DEF Makings, Others
  <2>4. "provision" \in Makings \cup Others
    BY DEF Makings
  <2>5. /\ req[r].op = "new" /\ Alone(r) /\ Fits(req'[r])
        /\ req'[r].op = "provision" /\ req'[r].todo = ProvisionPlan(github)
        /\ req'[r].copy = row /\ req'[r].failed = FALSE /\ req'[r].swept = FALSE
        /\ UNCHANGED <<row, db, up, lib, llm, nomad, faults>>
    <3>. DEFINE plan == ProvisionPlan(github)
    <3>1. plan # << >>
      BY <1>0, <2>2
    <3>. HIDE DEF plan
    <3>. QED  BY <2>1, <2>3, <2>4, <3>1, BeginFits DEF plan
  <2>. QED  BY <2>1, <2>2, <2>4, <2>5 DEF Begins
<1>3. CASE SetGitHubCredentials(r)
  <2>. DEFINE plan == <<"github">> \o GitHubPlan
  <2>1. Exists /\ Begin(r, "github", None, plan) /\ UNCHANGED marks
    BY <1>3 DEF SetGitHubCredentials
  <2>2. None \in Args("github") /\ plan \in Plans("github")
    BY DEF Args, Plans, Over
  <2>3. plan # << >>
    BY ShortPlans
  <2>. HIDE DEF plan
  <2>4. /\ req[r].op = "new" /\ Alone(r) /\ Fits(req'[r])
        /\ req'[r].op = "github" /\ req'[r].arg = None /\ req'[r].todo = plan
        /\ req'[r].copy = row /\ req'[r].failed = FALSE /\ req'[r].swept = FALSE
        /\ UNCHANGED <<row, db, up, lib, llm, nomad, faults>>
    BY <2>1, <2>2, <2>3, BeginFits
  <2>. QED  BY <2>1, <2>2, <2>3, <2>4 DEF Begins
<1>4. ASSUME NEW g \in Groups, UpdateProject(r, g)
      PROVE  Begins(r)
  <2>1. Exists /\ Begin(r, "update", g, <<"group-save">>) /\ UNCHANGED marks
    BY <1>4 DEF UpdateProject
  <2>2. g \in Args("update") /\ <<"group-save">> \in Plans("update")
    BY DEF Args, Plans, Over
  <2>3. /\ req[r].op = "new" /\ Alone(r) /\ Fits(req'[r])
        /\ req'[r].op = "update" /\ req'[r].arg = g /\ req'[r].todo = <<"group-save">>
        /\ req'[r].copy = row /\ req'[r].failed = FALSE /\ req'[r].swept = FALSE
        /\ UNCHANGED <<row, db, up, lib, llm, nomad, faults>>
    BY <2>1, <2>2, BeginFits
  <2>. QED  BY <2>1, <2>2, <2>3 DEF Begins
<1>5. ASSUME NEW f \in Flavors, CreateTemplate(r, f) \/ UpdateTemplate(r, f)
      PROVE  Begins(r)
  <2>. DEFINE plan == <<"template-save">> \o Sync
  <2>1. Exists /\ Begin(r, "template", f, plan) /\ UNCHANGED marks
    BY <1>5 DEF CreateTemplate, UpdateTemplate
  <2>2. f \in Args("template") /\ plan \in Plans("template")
    BY DEF Args, Plans, Over
  <2>3. plan # << >> /\ plan # <<"sync-save">>
    <3>1. plan = <<"template-save", "sync-read", "sync-list", "sync-save">>
      BY ShortPlans
    <3>2. /\ <<"template-save", "sync-read", "sync-list", "sync-save">> # << >>
          /\ <<"template-save", "sync-read", "sync-list", "sync-save">> # <<"sync-save">>
      OBVIOUS
    <3>. HIDE DEF plan
    <3>. QED  BY <3>1, <3>2
  <2>. HIDE DEF plan
  <2>4. /\ req[r].op = "new" /\ Alone(r) /\ Fits(req'[r])
        /\ req'[r].op = "template" /\ req'[r].arg = f /\ req'[r].todo = plan
        /\ req'[r].copy = row /\ req'[r].failed = FALSE /\ req'[r].swept = FALSE
        /\ UNCHANGED <<row, db, up, lib, llm, nomad, faults>>
    BY <2>1, <2>2, <2>3, BeginFits
  <2>. QED  BY <2>1, <2>2, <2>3, <2>4 DEF Begins
<1>6. ASSUME NEW f \in Flavors, DeleteTemplate(r, f)
      PROVE  Begins(r)
  <2>. DEFINE plan == <<"template-drop">> \o Sync
  <2>1. Exists /\ Begin(r, "template", f, plan) /\ UNCHANGED marks
    BY <1>6 DEF DeleteTemplate
  <2>2. f \in Args("template") /\ plan \in Plans("template")
    BY DEF Args, Plans, Over
  <2>3. plan # << >> /\ plan # <<"sync-save">>
    <3>1. plan = <<"template-drop", "sync-read", "sync-list", "sync-save">>
      BY ShortPlans
    <3>2. /\ <<"template-drop", "sync-read", "sync-list", "sync-save">> # << >>
          /\ <<"template-drop", "sync-read", "sync-list", "sync-save">> # <<"sync-save">>
      OBVIOUS
    <3>. HIDE DEF plan
    <3>. QED  BY <3>1, <3>2
  <2>. HIDE DEF plan
  <2>4. /\ req[r].op = "new" /\ Alone(r) /\ Fits(req'[r])
        /\ req'[r].op = "template" /\ req'[r].arg = f /\ req'[r].todo = plan
        /\ req'[r].copy = row /\ req'[r].failed = FALSE /\ req'[r].swept = FALSE
        /\ UNCHANGED <<row, db, up, lib, llm, nomad, faults>>
    BY <2>1, <2>2, <2>3, BeginFits
  <2>. QED  BY <2>1, <2>2, <2>3, <2>4 DEF Begins
<1>7. CASE DeleteProject(r)
  <2>1. Exists /\ Begin(r, "delete", None, DeletePlan) /\ UNCHANGED marks
    BY <1>7 DEF DeleteProject
  <2>2. None \in Args("delete") /\ DeletePlan \in Plans("delete")
    BY DEF Args, Plans, Over
  <2>3. /\ req[r].op = "new" /\ Alone(r) /\ Fits(req'[r])
        /\ req'[r].op = "delete" /\ req'[r].arg = None /\ req'[r].todo = DeletePlan
        /\ req'[r].copy = row /\ req'[r].failed = FALSE /\ req'[r].swept = FALSE
        /\ UNCHANGED <<row, db, up, lib, llm, nomad, faults>>
    BY <1>0, <2>1, <2>2, BeginFits
  <2>. QED  BY <2>1, <2>2, <2>3 DEF Begins
<1>8. ASSUME NEW a \in Subjects, Grant(r, a)
      PROVE  Begins(r)
  <2>1. Exists /\ Begin(r, "grant", a, <<"grant">>) /\ UNCHANGED marks
    BY <1>8 DEF Grant
  <2>2. a \in Args("grant") /\ <<"grant">> \in Plans("grant")
    BY DEF Args, Plans, Over
  <2>3. /\ req[r].op = "new" /\ Alone(r) /\ Fits(req'[r])
        /\ req'[r].op = "grant" /\ req'[r].arg = a /\ req'[r].todo = <<"grant">>
        /\ req'[r].copy = row /\ req'[r].failed = FALSE /\ req'[r].swept = FALSE
        /\ UNCHANGED <<row, db, up, lib, llm, nomad, faults>>
    BY <2>1, <2>2, BeginFits
  <2>. QED  BY <2>1, <2>2, <2>3 DEF Begins
<1>9. ASSUME NEW a \in Subjects, Revoke(r, a)
      PROVE  Begins(r)
  <2>1. /\ Exists /\ db.admins # {a} /\ Begin(r, "revoke", a, <<"revoke">>)
        /\ UNCHANGED marks
    BY <1>9 DEF Revoke, ListProjectRoles
  <2>2. a \in Args("revoke") /\ <<"revoke">> \in Plans("revoke")
    BY DEF Args, Plans, Over
  <2>3. /\ req[r].op = "new" /\ Alone(r) /\ Fits(req'[r])
        /\ req'[r].op = "revoke" /\ req'[r].arg = a /\ req'[r].todo = <<"revoke">>
        /\ req'[r].copy = row /\ req'[r].failed = FALSE /\ req'[r].swept = FALSE
        /\ UNCHANGED <<row, db, up, lib, llm, nomad, faults>>
    BY <2>1, <2>2, BeginFits
  <2>. QED  BY <2>1, <2>2, <2>3 DEF Begins
<1>10. CASE SetCapabilities(r)
  <2>1. Exists /\ Begin(r, "capabilities", None, <<"restrict">>) /\ UNCHANGED marks
    BY <1>10 DEF SetCapabilities
  <2>2. None \in Args("capabilities") /\ <<"restrict">> \in Plans("capabilities")
    BY DEF Args, Plans, Over
  <2>3. /\ req[r].op = "new" /\ Alone(r) /\ Fits(req'[r])
        /\ req'[r].op = "capabilities" /\ req'[r].arg = None /\ req'[r].todo = <<"restrict">>
        /\ req'[r].copy = row /\ req'[r].failed = FALSE /\ req'[r].swept = FALSE
        /\ UNCHANGED <<row, db, up, lib, llm, nomad, faults>>
    BY <2>1, <2>2, BeginFits
  <2>. QED  BY <2>1, <2>2, <2>3 DEF Begins
<1>11. CASE CreateVolume(r)
  <2>. DEFINE plan == <<"volume", "volume-wait", "volume-row">>
  <2>1. Exists /\ ~db.shared /\ Begin(r, "volume-create", None, plan) /\ UNCHANGED marks
    BY <1>11 DEF CreateVolume
  <2>2. None \in Args("volume-create") /\ plan \in Plans("volume-create")
    BY DEF Args, Plans, Over
  <2>3. plan # << >>
    OBVIOUS
  <2>4. plan = <<"volume", "volume-wait", "volume-row">>
    OBVIOUS
  <2>. HIDE DEF plan
  <2>5. /\ req[r].op = "new" /\ Alone(r) /\ Fits(req'[r])
        /\ req'[r].op = "volume-create" /\ req'[r].arg = None /\ req'[r].todo = plan
        /\ req'[r].copy = row /\ req'[r].failed = FALSE /\ req'[r].swept = FALSE
        /\ UNCHANGED <<row, db, up, lib, llm, nomad, faults>>
    BY <2>1, <2>2, <2>3, BeginFits
  <2>. QED  BY <2>1, <2>2, <2>3, <2>4, <2>5 DEF Begins
<1>12. CASE DeleteVolume(r)
  <2>. DEFINE plan == <<"unvolume", "volume-unrow">>
  <2>1. Exists /\ db.shared /\ Begin(r, "volume-delete", None, plan) /\ UNCHANGED marks
    BY <1>12 DEF DeleteVolume
  <2>2. None \in Args("volume-delete") /\ plan \in Plans("volume-delete")
    BY DEF Args, Plans, Over
  <2>3. plan # << >>
    OBVIOUS
  <2>4. plan = <<"unvolume", "volume-unrow">>
    OBVIOUS
  <2>. HIDE DEF plan
  <2>5. /\ req[r].op = "new" /\ Alone(r) /\ Fits(req'[r])
        /\ req'[r].op = "volume-delete" /\ req'[r].arg = None /\ req'[r].todo = plan
        /\ req'[r].copy = row /\ req'[r].failed = FALSE /\ req'[r].swept = FALSE
        /\ UNCHANGED <<row, db, up, lib, llm, nomad, faults>>
    BY <2>1, <2>2, <2>3, BeginFits
  <2>. QED  BY <2>1, <2>2, <2>3, <2>4, <2>5 DEF Begins
<1>. HIDE DEF Makings, Others
<1>. QED
  BY <1>1, <1>2, <1>3, <1>4, <1>5, <1>6, <1>7, <1>8, <1>9, <1>10, <1>11, <1>12 DEF Start

--------------------------------------------------------------------------------
(* Types.                                                                  *)

\* What a step of request r comes to.
Effects(r) ==
  \/ Stays(r) \/ Builds(r) \/ MakesLibrary(r) \/ Keying(r) \/ Describes(r)
  \/ Reading(r) \/ Upserts(r) \/ Templating(r) \/ Lists(r) \/ Granting(r)
  \/ VolumeRows(r) \/ Emptying(r) \/ Volumed(r) \/ Purges(r) \/ Sweeps(r)
  \/ Denames(r) \/ Removing(r) \/ Judges(r)

LEMMA EffectSteps ==
  ASSUME Typed, NEW r \in InFlight, Calls(r)
  PROVE  Moves(r) /\ Effects(r)
BY CallSteps DEF Effects

\* The part of the type invariant that is not about the requests.
Kinds ==
  /\ row \in Row
  /\ db \in [templates : SUBSET Flavors, admins : SUBSET Subjects,
             restricted : BOOLEAN, shared : BOOLEAN]
  /\ up \subseteq VaultThings \cup BoundaryThings \cup NomadThings
  /\ up \cap VaultThings # {} => "vault-ns" \in up
  /\ up \cap BoundaryThings # {} => "scope" \in up
  /\ lib \in Makers \cup {None}
  /\ lib # None => "cred-store" \in up
  /\ llm \in [key : Makers \cup {None}, kv : Makers \cup {None}]
  /\ llm.kv # None => "secret-kv" \in up
  /\ nomad \in [job : BOOLEAN, volume : {"none", "attached", "detached", "orphaned"},
                shared : BOOLEAN]

LEMMA KindsAreTyped ==
  ASSUME Kinds, req \in [Requests -> Askings], \A r \in Requests : Fits(req[r]),
         marks \subseteq Marks, faults \in 0 .. MaxFaults
  PROVE  Typed
<1>1. \A r \in Requests :
        /\ req[r].op \in Over <=> req[r].todo = << >>
        /\ req[r].copy \in Row /\ req[r].lib \in Makers \cup {None}
        /\ req[r].flavors \subseteq Flavors
  BY DEF Fits, Askings
<1>. QED  BY <1>1 DEF Kinds, Typed, TypeOK, Marks

LEMMA KindsAreTypedNext ==
  ASSUME Kinds', req' \in [Requests -> Askings], \A r \in Requests : Fits(req'[r]),
         marks' \subseteq Marks, faults' \in 0 .. MaxFaults
  PROVE  Typed'
<1>1. \A r \in Requests :
        /\ req'[r].op \in Over <=> req'[r].todo = << >>
        /\ req'[r].copy \in Row /\ req'[r].lib \in Makers \cup {None}
        /\ req'[r].flavors \subseteq Flavors
  BY DEF Fits, Askings
<1>. QED  BY <1>1 DEF Kinds, Typed, TypeOK, Marks

LEMMA TypedKinds ==
  ASSUME Typed
  PROVE  Kinds
BY DEF Typed, TypeOK, Kinds

LEMMA TypedInit ==
  ASSUME Init
  PROVE  Typed
<1>1. req \in [Requests -> Askings] /\ \A r \in Requests : Fits(req[r])
  <2>1. Idle("new") \in Askings /\ Fits(Idle("new"))
    BY IdleIsTyped DEF Fits
  <2>. QED  BY <2>1 DEF Init
<1>2. marks \subseteq Marks /\ faults \in 0 .. MaxFaults
  BY ProjectsAssumption DEF Init
<1>3. CASE Empty
  <2>1. row \in Row
    BY <1>3 DEF Empty, Row
  <2>2. Kinds
    BY <1>3, <2>1 DEF Empty, Kinds, VaultThings, BoundaryThings, NomadThings
  <2>. QED  BY <1>1, <1>2, <2>2, KindsAreTyped
<1>4. ASSUME NEW g \in Groups, NEW f \in Flavors, NEW a \in Subjects, NEW used \in BOOLEAN,
             Founded(g, f, a, used)
      PROVE  Typed
  <2>1. row \in Row
    BY <1>4 DEF Founded, Row, Makers
  <2>2. db \in [templates : SUBSET Flavors, admins : SUBSET Subjects,
                restricted : BOOLEAN, shared : BOOLEAN]
    BY <1>4 DEF Founded
  <2>3. /\ up \subseteq VaultThings \cup BoundaryThings \cup NomadThings
        /\ "vault-ns" \in up /\ "scope" \in up /\ "cred-store" \in up /\ "secret-kv" \in up
    BY <1>4 DEF Founded, Shell, Engines, VaultThings, BoundaryThings, NomadThings
  <2>4. /\ lib \in Makers \cup {None}
        /\ llm \in [key : Makers \cup {None}, kv : Makers \cup {None}]
    BY <1>4 DEF Founded, Makers
  <2>5. nomad \in [job : BOOLEAN, volume : {"none", "attached", "detached", "orphaned"},
                   shared : BOOLEAN]
    BY <1>4 DEF Founded
  <2>6. Kinds
    BY <2>1, <2>2, <2>3, <2>4, <2>5 DEF Kinds
  <2>. QED  BY <1>1, <1>2, <2>6, KindsAreTyped
<1>. QED  BY <1>3, <1>4 DEF Init

LEMMA TablesKind ==
  ASSUME Kinds, NEW t \in SUBSET Flavors, NEW a \in SUBSET Subjects,
         NEW x \in BOOLEAN, NEW s \in BOOLEAN, Tables(t, a, x, s)
  PROVE  Kinds'
BY DEF Tables, Kinds

LEMMA PlaneKind ==
  ASSUME Kinds, NEW j \in BOOLEAN, NEW s \in BOOLEAN,
         NEW v \in {"none", "attached", "detached", "orphaned"}, Plane(j, v, s),
         UNCHANGED <<row, db, up, lib, llm>>
  PROVE  Kinds'
BY DEF Plane, Kinds

LEMMA KindsFields ==
  ASSUME Kinds
  PROVE  /\ db.templates \in SUBSET Flavors /\ db.admins \in SUBSET Subjects
         /\ db.restricted \in BOOLEAN /\ db.shared \in BOOLEAN
         /\ nomad.job \in BOOLEAN /\ nomad.shared \in BOOLEAN
         /\ nomad.volume \in {"none", "attached", "detached", "orphaned"}
BY DEF Kinds

LEMMA KindsEffects ==
  ASSUME Typed, NEW r \in InFlight, Effects(r)
  PROVE  Kinds'
<1>. USE TypedKinds DEF Kinds
<1>0. r \in Requests /\ r # None /\ r \in Makers /\ req[r].lib \in Makers \cup {None}
  BY RequestFits, ProjectsAssumption DEF Makers, Askings
<1>1. CASE Stays(r)
  BY <1>1 DEF Stays
<1>2. CASE Builds(r)
  <2>1. Step(r) \in VaultThings \cup BoundaryThings \cup NomadThings
    BY <1>2 DEF Builds, Shell, Engines, VaultThings, BoundaryThings, NomadThings
  <2>. QED  BY <1>2, <2>1 DEF Builds
<1>3. CASE MakesLibrary(r)
  BY <1>0, <1>3 DEF MakesLibrary
<1>4. CASE Keying(r)
  BY <1>0, <1>4 DEF Keying
<1>5. CASE Describes(r)
  <2>1. row' \in Row
    BY <1>5 DEF Describes, Row
  <2>. QED  BY <1>5, <2>1 DEF Describes
<1>6. CASE Reading(r)
  BY <1>6 DEF Reading
<1>7. CASE Upserts(r)
  BY <1>7 DEF Upserts
<1>8. CASE Templating(r)
  BY <1>8 DEF Templating, Tables
<1>9. CASE Lists(r)
  BY <1>9 DEF Lists
<1>10. CASE Granting(r)
  <2>. HIDE DEF Kinds
  <2>. QED  BY <1>10, TypedKinds, KindsFields, TablesKind DEF Granting
<1>11. CASE VolumeRows(r)
  <2>. HIDE DEF Kinds
  <2>. QED  BY <1>11, TypedKinds, KindsFields, TablesKind DEF VolumeRows
<1>12. CASE Emptying(r)
  <2>. HIDE DEF Kinds
  <2>. QED  BY <1>12, TypedKinds, KindsFields, TablesKind DEF Emptying
<1>13. CASE Volumed(r)
  <2>. HIDE DEF Kinds
  <2>. QED  BY <1>13, TypedKinds, KindsFields, PlaneKind DEF Volumed
<1>14. CASE Purges(r)
  BY <1>14 DEF Purges, Plane
<1>15. CASE Sweeps(r)
  BY <1>15 DEF Sweeps, Plane
<1>16. CASE Denames(r)
  BY <1>16 DEF Denames, Plane, VaultThings, BoundaryThings
<1>17. CASE Removing(r)
  BY <1>17 DEF Removing, VaultThings, BoundaryThings
<1>18. CASE Judges(r)
  <2>1. row' \in Row
    BY <1>18 DEF Judges, Row
  <2>. QED  BY <1>18, <2>1 DEF Judges
<1>. QED
  BY <1>1, <1>2, <1>3, <1>4, <1>5, <1>6, <1>7, <1>8, <1>9, <1>10, <1>11, <1>12, <1>13,
     <1>14, <1>15, <1>16, <1>17, <1>18 DEF Effects

LEMMA TypedCalls ==
  ASSUME Typed, NEW r \in InFlight, Moves(r), Effects(r)
  PROVE  Typed'
<1>1. Kinds'
  BY KindsEffects
<1>2. /\ req' \in [Requests -> Askings] /\ \A q \in Requests : Fits(req'[q])
      /\ marks' \subseteq Marks /\ faults' \in 0 .. MaxFaults
  BY DEF Moves, Alone, Typed
<1>. QED  BY <1>1, <1>2, KindsAreTypedNext

LEMMA TypedBegins ==
  ASSUME Typed, NEW r, Begins(r)
  PROVE  Typed'
<1>1. Kinds'
  BY TypedKinds DEF Begins, Kinds
<1>2. /\ req' \in [Requests -> Askings] /\ \A q \in Requests : Fits(req'[q])
      /\ marks' \subseteq Marks /\ faults' \in 0 .. MaxFaults
  BY DEF Begins, Alone, Typed, TypeOK, Marks
<1>. QED  BY <1>1, <1>2, KindsAreTypedNext

\* Around the requests: a workspace is started, a disk detaches, the portal stops.
Launches ==
  /\ Exists /\ "nomad-ns" \in up /\ Plane(TRUE, "attached", nomad.shared)
  /\ UNCHANGED <<row, db, up, lib, llm, req, faults, marks>>
Detaches ==
  /\ nomad.volume = "attached" /\ ~nomad.job /\ Plane(nomad.job, "detached", nomad.shared)
  /\ UNCHANGED <<row, db, up, lib, llm, req, faults, marks>>
Crashes ==
  /\ InFlight # {} /\ faults' \in 0 .. MaxFaults
  /\ req' \in [Requests -> Askings]
  /\ \A r \in Requests : Fits(req'[r]) /\ req'[r].op \in Over /\ req'[r].todo = << >>
  /\ marks' = marks \cup {"torn", "volume-raced"}
  /\ UNCHANGED <<row, db, up, lib, llm, nomad>>

LEMMA AroundSteps ==
  ASSUME Typed
  PROVE  /\ \A a : Launch(a) => Launches
         /\ Detach => Detaches
         /\ Crash => Crashes
<1>1. \A a : Launch(a) => Launches
  BY DEF Launch, Launches, Plane, Typed, TypeOK
<1>2. Detach => Detaches
  BY DEF Detach, Detaches, Plane, Typed, TypeOK
<1>3. ASSUME Crash PROVE Crashes
  <2>1. faults' \in 0 .. MaxFaults
    BY <1>3, ProjectsAssumption DEF Crash, Fault, Typed, TypeOK
  <2>2. \A r \in Requests : req'[r] = Idle("over") \/ (req'[r] = req[r] /\ req[r].op \in Over)
    BY <1>3 DEF Crash, InFlight
  <2>3. Idle("over") \in Askings /\ Fits(Idle("over"))
    BY IdleIsTyped
  <2>4. Idle("over").op = "over" /\ Idle("over").todo = << >> /\ "over" \in Over
    BY DEF Idle, Over
  <2>5. \A r \in Requests : /\ req'[r] \in Askings /\ Fits(req'[r])
                            /\ req'[r].op \in Over /\ req'[r].todo = << >>
    <3>. HIDE DEF Idle
    <3>. QED  BY <2>2, <2>3, <2>4 DEF Typed, Fits
  <2>6. req' \in [Requests -> Askings]
    <3>1. req' = [r \in Requests |-> req'[r]]
      BY <1>3 DEF Crash
    <3>. QED  BY <2>5, <3>1
  <2>. QED  BY <1>3, <2>1, <2>5, <2>6 DEF Crash, Crashes
<1>. QED  BY <1>1, <1>2, <1>3

LEMMA TypedAround ==
  ASSUME Typed, Launches \/ Detaches \/ Crashes
  PROVE  Typed'
<1>1. Kinds'
  <2>1. CASE Launches \/ Detaches
    BY <2>1, TypedKinds, KindsFields, PlaneKind DEF Launches, Detaches
  <2>2. CASE Crashes
    BY <2>2, TypedKinds DEF Crashes, Kinds
  <2>. QED  BY <2>1, <2>2
<1>2. /\ req' \in [Requests -> Askings] /\ \A q \in Requests : Fits(req'[q])
      /\ marks' \subseteq Marks /\ faults' \in 0 .. MaxFaults
  <2>1. CASE Launches \/ Detaches
    BY <2>1 DEF Launches, Detaches, Typed, TypeOK, Marks
  <2>2. CASE Crashes
    BY <2>2 DEF Crashes, Typed, TypeOK, Marks
  <2>. QED  BY <2>1, <2>2
<1>. QED  BY <1>1, <1>2, KindsAreTypedNext

\* A step is one of these.
LEMMA NextSteps ==
  ASSUME Typed, Next
  PROVE  \/ \E r \in Requests : Begins(r)
         \/ \E r \in InFlight : Moves(r) /\ Effects(r)
         \/ Launches \/ Detaches \/ Crashes
BY BeginSteps, EffectSteps, AroundSteps DEF Next

LEMMA TypedNext ==
  ASSUME Typed, [Next]_vars
  PROVE  Typed'
<1>1. CASE Next
  BY <1>1, NextSteps, TypedBegins, TypedCalls, TypedAround
<1>2. CASE UNCHANGED vars
  <2>1. Kinds'
    BY <1>2, TypedKinds DEF Kinds, vars
  <2>2. /\ req' \in [Requests -> Askings] /\ \A q \in Requests : Fits(req'[q])
        /\ marks' \subseteq Marks /\ faults' \in 0 .. MaxFaults
    BY <1>2 DEF Typed, TypeOK, Marks, vars
  <2>. QED  BY <2>1, <2>2, KindsAreTypedNext
<1>. QED  BY <1>1, <1>2

--------------------------------------------------------------------------------
(* What all steps have in common, and those of a delete and of a creation. *)

LEMMA Noting ==
  ASSUME Typed, NEW r \in InFlight, Effects(r)
  PROVE  /\ marks \ {"undone", "unsynced", "rebuilt"} \subseteq marks'
         /\ ~Describes(r) => marks \ {"unsynced", "rebuilt"} \subseteq marks'
         /\ ~Upserts(r) => marks \ {"undone"} \subseteq marks'
         /\ Clashing(r) \subseteq marks'
         /\ "deleted" \in marks' => "deleted" \in marks \/ (Judges(r) /\ ~req[r].failed)
<1>1. Clashing(r) \subseteq {"raced", "volume-raced"}
  BY DEF Clashing
<1>2. \A h, d : Unrepaired(r, h, d) \subseteq Accidents
  BY DEF Unrepaired, Accidents
<1>3. ASSUME NEW come, come \subseteq Marks \ {"deleted"},
             \/ Does(r, {}, come) \/ Lost(r, {}, FALSE)
             \/ Lost(r, come, TRUE) \/ Noted(r, {}, come)
      PROVE  marks \subseteq marks' /\ Clashing(r) \subseteq marks'
             /\ ("deleted" \in marks' => "deleted" \in marks)
  <2>1. \E more : more \subseteq come \cup Accidents /\ Noted(r, {}, more)
    <3>1. CASE Noted(r, {}, come) \/ Went(r, req[r], {}, come)
      BY <3>1 DEF Went
    <3>2. ASSUME NEW before, before \in {{}, come}, NEW done, Lost(r, before, done)
          PROVE  \E more : more \subseteq come \cup Accidents /\ Noted(r, {}, more)
      <4>1. Noted(r, {}, before \cup Unrepaired(r, Head(req[r].todo), done))
        BY <3>2 DEF Lost
      <4>2. before \cup Unrepaired(r, Head(req[r].todo), done) \subseteq come \cup Accidents
        BY <1>2, <3>2
      <4>. QED  BY <4>1, <4>2
    <3>. QED  BY <1>3, <3>1, <3>2 DEF Does
  <2>. QED  BY <1>1, <1>3, <2>1 DEF Noted, Accidents
<1>. USE DEF Marks
<1>4. CASE Stays(r)
  <2>1. Does(r, {}, {}) \/ Lost(r, {}, FALSE)
    BY <1>4 DEF Stays, Does
  <2>2. {} \subseteq Marks \ {"deleted"}
    OBVIOUS
  <2>. QED  BY <1>3, <2>1, <2>2
<1>5. CASE Builds(r) \/ MakesLibrary(r) \/ Keying(r) \/ Reading(r) \/ Lists(r) \/ Granting(r)
           \/ VolumeRows(r) \/ Emptying(r) \/ Volumed(r) \/ Purges(r) \/ Removing(r)
  BY <1>3, <1>5
     DEF Builds, MakesLibrary, Keying, Reading, Lists, Granting, VolumeRows, Emptying,
         Volumed, Purges, Removing
<1>6. CASE Templating(r) \/ Sweeps(r) \/ Denames(r)
  <2>1. Changed \subseteq Marks \ {"deleted"} /\ Unbacked \subseteq Marks \ {"deleted"}
    BY DEF Changed, Unbacked
  <2>. QED  BY <1>3, <1>6, <2>1 DEF Templating, Sweeps, Denames
<1>7. CASE Describes(r)
  <2>. DEFINE come == IF Exists THEN {"rebuilt"} ELSE {}
  <2>1. Does(r, {"undone"}, come) /\ come \subseteq {"rebuilt"}
    BY <1>7 DEF Describes
  <2>. HIDE DEF come
  <2>. QED  BY <1>1, <1>2, <1>7, <2>1 DEF Does, Went, Lost, Noted, Accidents
<1>8. CASE Upserts(r)
  <2>. DEFINE gone == IF Step(r) = "sync-save" THEN {"unsynced", "rebuilt"} ELSE {}
  <2>1. Does(r, gone, Stale(r)) /\ gone \subseteq {"unsynced", "rebuilt"}
        /\ Stale(r) \subseteq {"raced"}
    BY <1>8 DEF Upserts, Stale
  <2>2. Step(r) # "descriptor" /\ ~Describes(r)
    BY <1>8 DEF Upserts, Describes
  <2>. HIDE DEF gone
  <2>. QED  BY <1>1, <1>2, <1>8, <2>1, <2>2 DEF Does, Went, Lost, Noted, Accidents
<1>9. CASE Judges(r)
  <2>1. PICK come \in {{"undone"}, {"deleted"}} :
          Does(r, {}, come) /\ (come = {"deleted"} => ~req[r].failed)
    BY <1>9 DEF Judges
  <2>2. PICK more : more \subseteq come \cup Accidents /\ Noted(r, {}, more)
    <3>1. CASE Went(r, req[r], {}, come)
      BY <3>1 DEF Went
    <3>2. CASE Lost(r, come, TRUE)
      <4>1. Noted(r, {}, come \cup Unrepaired(r, Head(req[r].todo), TRUE))
        BY <3>2 DEF Lost
      <4>2. come \cup Unrepaired(r, Head(req[r].todo), TRUE) \subseteq come \cup Accidents
        BY <1>2
      <4>. QED  BY <4>1, <4>2
    <3>. QED  BY <2>1, <3>1, <3>2 DEF Does
  <2>3. "deleted" \in more => ~req[r].failed
    BY <2>1, <2>2 DEF Accidents
  <2>. QED  BY <1>1, <1>9, <2>2, <2>3 DEF Noted, Accidents
<1>. QED  BY <1>4, <1>5, <1>6, <1>7, <1>8, <1>9 DEF Effects

\* Two requests that get in each other's way.
LEMMA Rivals ==
  ASSUME Typed, NEW r \in InFlight, Effects(r), NEW q \in InFlight, q # r
  PROVE  /\ req[q].op = "delete" \/ req[r].op = "delete" => "raced" \in marks'
         /\ req[q].op \in Makings /\ req[r].op \in Makings => "raced" \in marks'
         /\ req[q].op \in Volumes /\ req[r].op \in Volumes => "volume-raced" \in marks'
<1>1. Clashing(r) \subseteq marks'
  BY Noting
<1>2. q \in InFlight \ {r}
  OBVIOUS
<1>3. req[q].op = "delete" \/ req[r].op = "delete" => Clash({req[q].op, req[r].op})
  BY DEF Clash
<1>4. req[q].op \in Makings /\ req[r].op \in Makings => Clash({req[q].op, req[r].op})
  BY DEF Clash, Makings
<1>5. req[q].op \in Volumes /\ req[r].op \in Volumes =>
        {req[q].op, req[r].op} \subseteq Volumes
  OBVIOUS
<1>6. /\ Clash({req[q].op, req[r].op}) => "raced" \in Clashing(r)
      /\ {req[q].op, req[r].op} \subseteq Volumes => "volume-raced" \in Clashing(r)
  BY <1>2 DEF Clashing
<1>. QED  BY <1>1, <1>3, <1>4, <1>5, <1>6

\* A request that is over, holds nothing.
LEMMA Continuing ==
  ASSUME Typed, NEW r \in InFlight, Moves(r), Effects(r)
  PROVE  \/ req'[r].op = "over" /\ req'[r].todo = << >>
         \/ req'[r].op = req[r].op /\ req'[r].arg = req[r].arg
<1>1. Idle("over").op = "over" /\ Idle("over").todo = << >>
  BY DEF Idle
<1>2. ASSUME NEW todo, NEW failed, Onward(req'[r], req[r], todo, failed)
      PROVE  \/ req'[r].op = "over" /\ req'[r].todo = << >>
             \/ req'[r].op = req[r].op /\ req'[r].arg = req[r].arg
  BY <1>1, <1>2 DEF Onward
<1>3. ASSUME NEW come, NEW done, Lost(r, come, done)
      PROVE  \/ req'[r].op = "over" /\ req'[r].todo = << >>
             \/ req'[r].op = req[r].op /\ req'[r].arg = req[r].arg
  BY <1>2, <1>3 DEF Lost
<1>4. ASSUME NEW gone, NEW come, Went(r, req[r], gone, come) \/ Does(r, gone, come)
      PROVE  \/ req'[r].op = "over" /\ req'[r].todo = << >>
             \/ req'[r].op = req[r].op /\ req'[r].arg = req[r].arg
  BY <1>2, <1>3, <1>4 DEF Went, Does
<1>5. CASE \E todo : Goes(r, todo)
  BY <1>5 DEF Goes
<1>6. CASE Stays(r)
  BY <1>3, <1>4, <1>6 DEF Stays
<1>7. CASE Builds(r) \/ Keying(r) \/ Granting(r) \/ VolumeRows(r) \/ Emptying(r)
           \/ Volumed(r) \/ Purges(r) \/ Removing(r) \/ Templating(r) \/ Denames(r)
  BY <1>4, <1>7
     DEF Builds, Keying, Granting, VolumeRows, Emptying, Volumed, Purges, Removing,
         Templating, Denames
<1>8. CASE Describes(r) \/ Upserts(r) \/ Judges(r)
  BY <1>4, <1>8 DEF Describes, Upserts, Judges
<1>9. CASE MakesLibrary(r) \/ Reading(r) \/ Lists(r) \/ Sweeps(r)
  BY <1>3, <1>5, <1>9 DEF MakesLibrary, Reading, Lists, Sweeps
<1>. QED  BY <1>6, <1>7, <1>8, <1>9 DEF Effects

\* The others are as they were.
LEMMA Bystanders ==
  ASSUME Typed, NEW r \in InFlight, Moves(r), Effects(r)
  PROVE  /\ \A q \in Requests \ {r} : req'[q] = req[q]
         /\ \A q \in Requests : q # r /\ req[q].op \notin Over => q \in InFlight
         /\ \A q \in Requests : req'[q].op \notin Over => q \in InFlight
         /\ InFlight' \subseteq InFlight /\ InFlight' \subseteq Requests
         /\ r \in Requests
<1>1. req'[r].op \notin Over => req[r].op \notin Over
  BY Continuing DEF Over
<1>. QED  BY <1>1 DEF Moves, Alone, InFlight

\* Which steps change what.
LEMMA Touching ==
  ASSUME NEW r, Effects(r)
  PROVE  /\ row' = row \/ Describes(r) \/ Upserts(r) \/ Judges(r)
         /\ db' = db \/ Templating(r) \/ Granting(r) \/ VolumeRows(r) \/ Emptying(r)
         /\ up' = up \/ Builds(r) \/ Denames(r) \/ Removing(r)
         /\ lib' = lib \/ MakesLibrary(r) \/ Removing(r)
         /\ llm' = llm \/ Keying(r) \/ Removing(r)
         /\ nomad' = nomad \/ Volumed(r) \/ Purges(r) \/ Sweeps(r) \/ Denames(r)
<1>1. Stays(r) => UNCHANGED <<row, db, up, lib, llm, nomad>>
  BY DEF Stays
<1>2. Builds(r) => UNCHANGED <<row, db, lib, llm, nomad>>
  BY DEF Builds
<1>3. MakesLibrary(r) => UNCHANGED <<row, db, up, llm, nomad>>
  BY DEF MakesLibrary
<1>4. Keying(r) => UNCHANGED <<row, db, up, lib, nomad>>
  BY DEF Keying
<1>5. Describes(r) => UNCHANGED <<db, up, lib, llm, nomad>>
  BY DEF Describes
<1>6. Reading(r) => UNCHANGED <<row, db, up, lib, llm, nomad>>
  BY DEF Reading
<1>7. Upserts(r) => UNCHANGED <<db, up, lib, llm, nomad>>
  BY DEF Upserts
<1>8. Templating(r) => UNCHANGED <<row, up, lib, llm, nomad>>
  BY DEF Templating, Tables
<1>9. Lists(r) => UNCHANGED <<row, db, up, lib, llm, nomad>>
  BY DEF Lists
<1>10. Granting(r) => UNCHANGED <<row, up, lib, llm, nomad>>
  BY DEF Granting, Tables
<1>11. VolumeRows(r) => UNCHANGED <<row, up, lib, llm, nomad>>
  BY DEF VolumeRows, Tables
<1>12. Emptying(r) => UNCHANGED <<row, up, lib, llm, nomad>>
  BY DEF Emptying, Tables
<1>13. Volumed(r) => UNCHANGED <<row, db, up, lib, llm>>
  BY DEF Volumed
<1>14. Purges(r) => UNCHANGED <<row, db, up, lib, llm>>
  BY DEF Purges
<1>15. Sweeps(r) => UNCHANGED <<row, db, up, lib, llm>>
  BY DEF Sweeps
<1>16. Denames(r) => UNCHANGED <<row, db, lib, llm>>
  BY DEF Denames
<1>17. Removing(r) => UNCHANGED <<row, db, nomad>>
  BY DEF Removing
<1>18. Judges(r) => UNCHANGED <<db, up, lib, llm, nomad>>
  BY DEF Judges
<1>. QED
  BY <1>1, <1>2, <1>3, <1>4, <1>5, <1>6, <1>7, <1>8, <1>9, <1>10, <1>11, <1>12, <1>13,
     <1>14, <1>15, <1>16, <1>17, <1>18 DEF Effects

\* A delete takes its steps one by one, whatever they come to.
LEMMA Erasing ==
  ASSUME Typed, NEW r \in InFlight, Moves(r), Effects(r), req[r].op = "delete"
  PROVE  LET a == req[r]
             b == req'[r] IN
         /\ Step(r) \in Deleting
         /\ Left(a.todo) = {Step(r)} \cup Left(Tail(a.todo))
         /\ Step(r) \notin Left(Tail(a.todo))
         /\ Step(r) = "verdict" => b.op = "over" /\ Left(a.todo) = {"verdict"}
         /\ Step(r) # "verdict" =>
              /\ b.op = "delete" /\ b.todo = Tail(a.todo)
              /\ a.failed => b.failed
              /\ Stays(r) => b.failed \/ (Step(r) = "unkey" /\ "key-left" \in marks')
         /\ Step(r) \notin {"verdict", "volumes"} => b.swept = a.swept
         /\ Step(r) = "volumes" =>
              \/ b.failed /\ b.swept = a.swept
              \/ b.swept /\ nomad.volume # "attached" /\ Sweeps(r)
         /\ Step(r) = "jobs" => "volumes" \in Left(Tail(a.todo))
<1>1. /\ req[r] \in Askings /\ Fits(req[r]) /\ req[r].op \notin Over
      /\ req[r].todo # << >> /\ req[r].todo \in Seq(Steps)
  BY RequestFits
<1>2. Clearing(req[r])
  BY <1>1, Doings DEF Founding, Provisioned, Stopping, Makings, Rest
<1>3. /\ Step(r) \in Deleting /\ Left(req[r].todo) = {Step(r)} \cup Left(Tail(req[r].todo))
      /\ Step(r) \notin Left(Tail(req[r].todo))
      /\ Step(r) = "verdict" <=> Tail(req[r].todo) = << >>
      /\ Step(r) = "verdict" => Left(req[r].todo) = {"verdict"}
      /\ Step(r) = "jobs" => "volumes" \in Left(Tail(req[r].todo))
  BY <1>1, <1>2, TailLeft, DeleteLeft DEF Step, Clearing
<1>4. Remaining(r, Head(req[r].todo)) = Tail(req[r].todo)
  BY <1>2, RemainingSteps
<1>5. Idle("over").op = "over"
  BY DEF Idle
<1>6. ASSUME NEW come, NEW done, Lost(r, come, done)
      PROVE  /\ Step(r) = "verdict" => req'[r].op = "over"
             /\ Step(r) # "verdict" =>
                  /\ req'[r].op = "delete" /\ req'[r].todo = Tail(req[r].todo)
                  /\ req'[r].swept = req[r].swept
                  /\ req'[r].failed = (req[r].failed \/ Step(r) # "unkey")
  BY <1>3, <1>4, <1>5, <1>6 DEF Lost, Onward, Step
<1>7. ASSUME NEW gone, NEW come, Went(r, req[r], gone, come)
      PROVE  /\ Step(r) = "verdict" => req'[r].op = "over"
             /\ Step(r) # "verdict" =>
                  /\ req'[r].op = "delete" /\ req'[r].todo = Tail(req[r].todo)
                  /\ req'[r].swept = req[r].swept /\ req'[r].failed = req[r].failed
  BY <1>3, <1>5, <1>7 DEF Went, Onward, Step
<1>9. CASE Stays(r)
  <2>1. Lost(r, {}, FALSE)
    BY <1>3, <1>9 DEF Stays, Deleting
  <2>2. Step(r) = "unkey" => "key-left" \in marks'
    BY <2>1 DEF Lost, Noted, Unrepaired, Step
  <2>. QED  BY <1>3, <1>6, <2>1, <2>2
<1>10. CASE Sweeps(r)
  <2>1. Step(r) = "volumes"
    BY <1>10 DEF Sweeps
  <2>2. ~Stays(r) \/ Lost(r, {}, FALSE)
    BY <2>1 DEF Stays
  <2>3. CASE Lost(r, Unbacked, TRUE) \/ Lost(r, {}, FALSE)
    BY <1>3, <1>6, <2>1, <2>3
  <2>4. CASE /\ ~Lost(r, {}, FALSE)
             /\ Goes(r, Tail(req[r].todo)) /\ Noted(r, {}, Unbacked)
             /\ IF nomad.volume = "attached"
                THEN req'[r].failed = TRUE /\ req'[r].swept = req[r].swept
                ELSE req'[r].failed = req[r].failed /\ req'[r].swept = TRUE
    BY <1>3, <1>10, <2>1, <2>2, <2>4 DEF Goes
  <2>. QED  BY <1>10, <2>3, <2>4 DEF Sweeps
<1>11. CASE \E gone, come : Does(r, gone, come)
  <2>0. CASE Stays(r)
    BY <1>9, <2>0
  <2>1. CASE ~Stays(r) /\ Step(r) # "volumes"
    BY <1>3, <1>6, <1>7, <1>11, <2>1 DEF Does
  <2>2. CASE ~Stays(r) /\ Step(r) = "volumes"
    <3>1. Sweeps(r)
      BY <2>2 DEF Effects, Builds, Shell, Engines, NomadThings, MakesLibrary, Keying,
              Describes, Reading, Reads, Upserts, Templating, Lists, Granting, VolumeRows,
              Emptying, Volumed, Purges, Denames, Removing, Judges
    <3>. QED  BY <1>10, <3>1
  <2>. QED  BY <2>0, <2>1, <2>2
<1>12. CASE Builds(r) \/ Keying(r) \/ Granting(r) \/ VolumeRows(r) \/ Emptying(r)
            \/ Volumed(r) \/ Purges(r) \/ Removing(r) \/ Templating(r) \/ Denames(r)
            \/ Describes(r) \/ Upserts(r) \/ Judges(r)
  <2>1. \E gone, come : Does(r, gone, come)
    BY <1>12 DEF Builds, Keying, Granting, VolumeRows, Emptying, Volumed, Purges, Removing,
       Templating, Denames, Describes, Upserts, Judges
  <2>. QED  BY <1>11, <2>1
<1>13. CASE MakesLibrary(r) \/ Reading(r) \/ Lists(r)
  <2>1. Step(r) \in {"library", "sync-list"} \cup Reads
    BY <1>13 DEF MakesLibrary, Reading, Lists
  <2>. QED  BY <1>3, <2>1 DEF Reads, Deleting
<1>. QED  BY <1>9, <1>10, <1>12, <1>13 DEF Effects

\* A step of a request neither attaches a volume, nor starts a job.
LEMMA Planes ==
  ASSUME Typed, NEW r \in InFlight, Effects(r)
  PROVE  /\ nomad.volume \in {"none", "orphaned"} => nomad'.volume \in {"none", "orphaned"}
         /\ nomad'.volume = "orphaned" => nomad.volume = "orphaned" \/ Denames(r)
         /\ nomad.job /\ Step(r) # "jobs" => nomad'.job
         /\ nomad'.job => nomad.job
<1>1. CASE nomad' = nomad
  BY <1>1
<1>2. CASE Volumed(r)
  BY <1>2 DEF Volumed, Plane
<1>3. CASE Purges(r)
  BY <1>3 DEF Purges, Plane
<1>4. CASE Sweeps(r)
  BY <1>4 DEF Sweeps, Plane
<1>5. CASE Denames(r)
  BY <1>5 DEF Denames, Plane
<1>. QED  BY <1>1, <1>2, <1>3, <1>4, <1>5, Touching

--------------------------------------------------------------------------------
(* The sweep of the volumes.                                               *)

LEMMA SweptCalls ==
  ASSUME Typed, Swept, NEW r \in InFlight, Moves(r), Effects(r)
  PROVE  Swept'
<1>1. SUFFICES ASSUME NEW q \in Requests, req'[q].op = "delete"
               PROVE  IF "volumes" \in Left(req'[q].todo)
                      THEN ~req'[q].swept
                      ELSE /\ req'[q].swept \/ req'[q].failed
                           /\ req'[q].swept /\ "raced" \notin marks' =>
                                nomad'.volume \in {"none", "orphaned"} \/ nomad'.job
  BY DEF Swept
<1>2. q \in InFlight /\ req[q].op = "delete" /\ q \in Requests
  BY <1>1, Bystanders, Continuing DEF Over
<1>3. IF "volumes" \in Left(req[q].todo)
      THEN ~req[q].swept
      ELSE /\ req[q].swept \/ req[q].failed
           /\ req[q].swept /\ "raced" \notin marks =>
                nomad.volume \in {"none", "orphaned"} \/ nomad.job
  BY <1>2 DEF Swept
<1>4. CASE q # r
  <2>1. req'[q] = req[q] /\ "raced" \in marks'
    BY <1>2, <1>4, Bystanders, Rivals
  <2>. QED  BY <1>3, <2>1
<1>5. CASE q = r
  <2>1. Step(r) # "verdict" /\ req'[r].todo = Tail(req[r].todo)
    BY <1>1, <1>2, <1>5, Erasing
  <2>2. Left(req[r].todo) = {Step(r)} \cup Left(req'[r].todo)
        /\ Step(r) \notin Left(req'[r].todo)
    BY <1>2, <1>5, <2>1, Erasing
  <2>3. CASE Step(r) = "volumes"
    <3>1. \/ req'[r].failed /\ req'[r].swept = req[r].swept
          \/ req'[r].swept /\ nomad.volume # "attached" /\ Sweeps(r)
      BY <1>2, <1>5, <2>3, Erasing
    <3>2. ~req[r].swept /\ "volumes" \notin Left(req'[r].todo)
      BY <1>3, <1>5, <2>2, <2>3
    <3>3. CASE req'[r].failed /\ req'[r].swept = req[r].swept
      BY <1>5, <3>2, <3>3
    <3>4. CASE req'[r].swept /\ nomad.volume # "attached" /\ Sweeps(r)
      <4>1. nomad'.volume \in {"none", "orphaned"}
        BY <3>4 DEF Sweeps, Plane, Typed, TypeOK
      <4>. QED  BY <1>5, <3>2, <3>4, <4>1
    <3>. QED  BY <3>1, <3>3, <3>4
  <2>4. CASE Step(r) # "volumes"
    <3>1. req'[r].swept = req[r].swept /\ (req[r].failed => req'[r].failed)
      BY <1>2, <1>5, <2>1, <2>4, Erasing
    <3>2. "volumes" \in Left(req[r].todo) <=> "volumes" \in Left(req'[r].todo)
      BY <2>2, <2>4
    <3>3. "raced" \in marks => "raced" \in marks'
      BY Noting
    <3>4. nomad.volume \in {"none", "orphaned"} => nomad'.volume \in {"none", "orphaned"}
      BY Planes
    <3>5. nomad.job /\ Step(r) # "jobs" => nomad'.job
      BY Planes
    <3>6. Step(r) = "jobs" => "volumes" \in Left(req'[r].todo)
      BY <1>2, <1>5, <2>1, Erasing
    <3>7. CASE "volumes" \in Left(req'[r].todo)
      BY <1>3, <1>5, <3>1, <3>2, <3>7
    <3>8. CASE "volumes" \notin Left(req'[r].todo)
      <4>1. Step(r) # "jobs"
        BY <3>6, <3>8
      <4>. QED  BY <1>3, <1>5, <3>1, <3>2, <3>3, <3>4, <3>5, <3>8, <4>1
    <3>. QED  BY <3>7, <3>8
  <2>. QED  BY <2>3, <2>4
<1>. QED  BY <1>4, <1>5

LEMMA SweptOthers ==
  ASSUME Typed, Swept, (\E r : Begins(r)) \/ Launches \/ Detaches \/ Crashes
  PROVE  Swept'
<1>1. ASSUME NEW r, Begins(r) PROVE Swept'
  <2>1. "volumes" \in Left(DeletePlan)
    BY WholeLeft DEF Deleting
  <2>2. "raced" \in marks' <=> "raced" \in marks
    BY <1>1 DEF Begins
  <2>. QED  BY <1>1, <2>1, <2>2 DEF Begins, Alone, Swept
<1>2. CASE Launches \/ Detaches
  BY <1>2 DEF Launches, Detaches, Plane, Swept
<1>3. CASE Crashes
  BY <1>3 DEF Crashes, Swept, Over
<1>. QED  BY <1>1, <1>2, <1>3

--------------------------------------------------------------------------------
(* What a delete is past, is gone.                                         *)

\* A delete takes away, and each of its steps takes away its own.
LEMMA Shrinking ==
  ASSUME Typed, NEW r \in InFlight, Effects(r), Step(r) \in Deleting
  PROVE  /\ Stays(r) \/ Keying(r) \/ Emptying(r) \/ Purges(r) \/ Sweeps(r) \/ Denames(r)
            \/ Removing(r) \/ Judges(r)
         /\ up' \subseteq up /\ lib' \in {lib, None}
         /\ llm'.key \in {llm.key, None} /\ llm'.kv \in {llm.kv, None}
         /\ db'.templates \subseteq db.templates /\ db'.admins \subseteq db.admins
         /\ db'.restricted => db.restricted
<1>1. Stays(r) \/ Keying(r) \/ Emptying(r) \/ Purges(r) \/ Sweeps(r) \/ Denames(r)
      \/ Removing(r) \/ Judges(r)
  <2>1. ~Builds(r) /\ ~MakesLibrary(r) /\ ~Describes(r) /\ ~Reading(r)
    BY DEF Builds, Shell, Engines, NomadThings, MakesLibrary, Describes, Reading, Reads,
           Deleting
  <2>2. ~Upserts(r) /\ ~Templating(r) /\ ~Lists(r) /\ ~Granting(r)
    BY DEF Upserts, Templating, Lists, Granting, Deleting
  <2>3. ~VolumeRows(r) /\ ~Volumed(r)
    BY DEF VolumeRows, Volumed, Deleting
  <2>. QED  BY <2>1, <2>2, <2>3 DEF Effects
<1>2. up' \subseteq up /\ lib' \in {lib, None}
  BY <1>1, Touching DEF Denames, Removing, Stays, Keying, Emptying, Tables, Purges, Sweeps,
     Judges
<1>3. llm'.key \in {llm.key, None} /\ llm'.kv \in {llm.kv, None}
  <2>1. CASE Keying(r)
    BY <2>1 DEF Keying, Deleting
  <2>2. CASE Removing(r)
    BY <2>2 DEF Removing
  <2>3. CASE ~Keying(r) /\ ~Removing(r)
    BY <2>3, Touching
  <2>. QED  BY <2>1, <2>2, <2>3
<1>4. /\ db'.templates \subseteq db.templates /\ db'.admins \subseteq db.admins
      /\ db'.restricted => db.restricted
  <2>1. CASE Emptying(r)
    BY <2>1 DEF Emptying, Tables
  <2>2. CASE ~Emptying(r)
    BY <1>1, <2>2, Touching DEF Stays, Keying, Purges, Sweeps, Denames, Removing, Judges
  <2>. QED  BY <2>1, <2>2
<1>. QED  BY <1>1, <1>2, <1>3, <1>4

LEMMA DeletedCalls ==
  ASSUME Typed, Deleted, NEW r \in InFlight, Moves(r), Effects(r)
  PROVE  Deleted'
<1>1. SUFFICES ASSUME "raced" \notin marks', NEW q \in Requests, req'[q].op = "delete",
                      ~req'[q].failed
      PROVE
        LET past(step) == step \notin Left(req'[q].todo) IN
        /\ past("un-nomad-ns") => "nomad-ns" \notin up' /\ ~nomad'.job
                                    /\ nomad'.volume \in {"none", "orphaned"}
        /\ past("un-binding") => "binding" \notin up'
        /\ past("un-nomad-policy") => "nomad-policy" \notin up'
        /\ past("un-scope") => up' \cap BoundaryThings = {} /\ lib' = None
        /\ past("un-vault-ns") => up' \cap VaultThings = {} /\ llm'.kv = None
        /\ past("unkey") => llm'.key = None \/ "key-left" \in marks'
        /\ past("templates") => db'.templates = {}
        /\ past("roles") => db'.admins = {}
        /\ past("capabilities") => ~db'.restricted
  BY DEF Deleted, Cleared
<1>2. q \in InFlight /\ req[q].op = "delete" /\ "raced" \notin marks
  BY <1>1, Bystanders, Continuing, Noting DEF Over
<1>3. q = r
  BY <1>1, <1>2, Rivals
<1>4. /\ Step(r) \in Deleting /\ Step(r) # "verdict" /\ req'[r].todo = Tail(req[r].todo)
      /\ ~req[r].failed
      /\ Stays(r) => Step(r) = "unkey" /\ "key-left" \in marks'
  BY <1>1, <1>2, <1>3, Erasing
<1>5. \A step : step \notin Left(req'[r].todo) =>
        step = Step(r) \/ step \notin Left(req[r].todo)
  BY <1>2, <1>3, <1>4, Erasing
<1>6. /\ Stays(r) \/ Keying(r) \/ Emptying(r) \/ Purges(r) \/ Sweeps(r) \/ Denames(r)
         \/ Removing(r) \/ Judges(r)
      /\ up' \subseteq up /\ lib' \in {lib, None}
      /\ llm'.key \in {llm.key, None} /\ llm'.kv \in {llm.kv, None}
      /\ db'.templates \subseteq db.templates /\ db'.admins \subseteq db.admins
      /\ db'.restricted => db.restricted
  BY <1>4, Shrinking
<1>7. /\ nomad.volume \in {"none", "orphaned"} => nomad'.volume \in {"none", "orphaned"}
      /\ nomad'.job => nomad.job
      /\ "key-left" \in marks => "key-left" \in marks'
  BY Planes, Noting
<1>8. ASSUME NEW step, step \notin Left(req[r].todo)
      PROVE  Cleared(req[r], step)
  BY <1>2, <1>3, <1>4, <1>8 DEF Cleared
<1>9. /\ Cleared(req[r], "un-nomad-ns") =>
          "nomad-ns" \notin up /\ ~nomad.job /\ nomad.volume \in {"none", "orphaned"}
      /\ Cleared(req[r], "un-binding") => "binding" \notin up
      /\ Cleared(req[r], "un-nomad-policy") => "nomad-policy" \notin up
      /\ Cleared(req[r], "un-scope") => up \cap BoundaryThings = {} /\ lib = None
      /\ Cleared(req[r], "un-vault-ns") => up \cap VaultThings = {} /\ llm.kv = None
      /\ Cleared(req[r], "unkey") => llm.key = None \/ "key-left" \in marks
      /\ Cleared(req[r], "templates") => db.templates = {}
      /\ Cleared(req[r], "roles") => db.admins = {}
      /\ Cleared(req[r], "capabilities") => ~db.restricted
  BY <1>2, <1>3 DEF Deleted
<1>10. Step(r) = "un-nomad-ns" => "nomad-ns" \notin up' /\ ~nomad'.job
                                    /\ nomad'.volume \in {"none", "orphaned"}
  BY <1>4, <1>6 DEF Keying, Emptying, Purges, Sweeps, Denames, Plane, Removing, Judges
<1>11. /\ Step(r) = "un-binding" => "binding" \notin up'
       /\ Step(r) = "un-nomad-policy" => "nomad-policy" \notin up'
       /\ Step(r) = "un-scope" => up' \cap BoundaryThings = {} /\ lib' = None
       /\ Step(r) = "un-vault-ns" => up' \cap VaultThings = {} /\ llm'.kv = None
  <2>1. Step(r) \in {"un-binding", "un-nomad-policy", "un-scope", "un-vault-ns"} =>
          Removing(r)
    BY <1>4, <1>6 DEF Keying, Emptying, Purges, Sweeps, Denames, Judges
  <2>. QED  BY <2>1 DEF Removing
<1>12. Step(r) = "unkey" => llm'.key = None \/ "key-left" \in marks'
  BY <1>4, <1>6 DEF Keying, Emptying, Purges, Sweeps, Denames, Removing, Judges
<1>13. /\ Step(r) = "templates" => db'.templates = {}
       /\ Step(r) = "roles" => db'.admins = {}
       /\ Step(r) = "capabilities" => ~db'.restricted
  <2>1. Step(r) \in {"templates", "roles", "capabilities"} => Emptying(r)
    BY <1>4, <1>6 DEF Keying, Purges, Sweeps, Denames, Removing, Judges
  <2>. QED  BY <2>1 DEF Emptying, Tables
<1>14. "un-nomad-ns" \notin Left(req'[r].todo) =>
         "nomad-ns" \notin up' /\ ~nomad'.job /\ nomad'.volume \in {"none", "orphaned"}
  BY <1>5, <1>6, <1>7, <1>8, <1>9, <1>10
<1>15. /\ "un-binding" \notin Left(req'[r].todo) => "binding" \notin up'
       /\ "un-nomad-policy" \notin Left(req'[r].todo) => "nomad-policy" \notin up'
       /\ "un-scope" \notin Left(req'[r].todo) => up' \cap BoundaryThings = {} /\ lib' = None
       /\ "un-vault-ns" \notin Left(req'[r].todo) =>
            up' \cap VaultThings = {} /\ llm'.kv = None
  BY <1>5, <1>6, <1>8, <1>9, <1>11
<1>16. "unkey" \notin Left(req'[r].todo) => llm'.key = None \/ "key-left" \in marks'
  BY <1>5, <1>6, <1>7, <1>8, <1>9, <1>12
<1>17. /\ "templates" \notin Left(req'[r].todo) => db'.templates = {}
       /\ "roles" \notin Left(req'[r].todo) => db'.admins = {}
       /\ "capabilities" \notin Left(req'[r].todo) => ~db'.restricted
  BY <1>5, <1>6, <1>8, <1>9, <1>13
<1>. QED  BY <1>3, <1>14, <1>15, <1>16, <1>17

LEMMA DeletedOthers ==
  ASSUME Typed, Deleted, (\E r : Begins(r)) \/ Launches \/ Detaches \/ Crashes
  PROVE  Deleted'
<1>1. ASSUME NEW r, Begins(r) PROVE Deleted'
  <2>1. \A step \in Deleting : ~Cleared(req'[r], step)
    BY <1>1, WholeLeft DEF Begins, Cleared
  <2>2. /\ "raced" \in marks' <=> "raced" \in marks
        /\ "key-left" \in marks' <=> "key-left" \in marks
        /\ UNCHANGED <<row, db, up, lib, llm, nomad>>
    BY <1>1 DEF Begins
  <2>3. \A q \in Requests : q # r => req'[q] = req[q]
    BY <1>1 DEF Begins, Alone
  <2>. QED  BY <2>1, <2>2, <2>3 DEF Deleted, Deleting
<1>2. CASE Launches
  BY <1>2 DEF Launches, Plane, Deleted
<1>3. CASE Detaches
  BY <1>3 DEF Detaches, Plane, Deleted
<1>4. CASE Crashes
  BY <1>4 DEF Crashes, Deleted, Cleared, Over
<1>. QED  BY <1>1, <1>2, <1>3, <1>4

--------------------------------------------------------------------------------
(* After a delete.                                                         *)

\* The delete that ends has taken everything.
LEMMA TakenAll ==
  ASSUME Typed, Deleted, NEW r \in InFlight, req[r].op = "delete", ~req[r].failed,
         Left(req[r].todo) = {"verdict"}, "raced" \notin marks
  PROVE  /\ up = {} /\ lib = None
         /\ llm.kv = None /\ (llm.key = None \/ "key-left" \in marks)
         /\ ~nomad.job /\ nomad.volume \in {"none", "orphaned"}
         /\ db.templates = {} /\ db.admins = {} /\ ~db.restricted
<1>1. \A step : step # "verdict" => Cleared(req[r], step)
  BY DEF Cleared
<1>2. r \in Requests
  BY DEF InFlight
<1>3. /\ "nomad-ns" \notin up /\ "binding" \notin up /\ "nomad-policy" \notin up
      /\ up \cap BoundaryThings = {} /\ up \cap VaultThings = {}
      /\ lib = None /\ llm.kv = None
  BY <1>1, <1>2 DEF Deleted
<1>4. up = {}
  BY <1>3 DEF Typed, TypeOK, NomadThings
<1>. QED  BY <1>1, <1>2, <1>3, <1>4 DEF Deleted

\* The verdict of a delete comes when nothing else is at work.
LEMMA Judging ==
  ASSUME Typed, Deleted, NEW r \in InFlight, Moves(r), Effects(r), Judges(r), ~req[r].failed,
         "raced" \notin marks'
  PROVE  /\ InFlight' = {} /\ row' = NoRow /\ UNCHANGED <<db, up, lib, llm, nomad>>
         /\ up = {} /\ lib = None
         /\ llm.kv = None /\ (llm.key = None \/ "key-left" \in marks)
         /\ ~nomad.job /\ nomad.volume \in {"none", "orphaned"}
         /\ db.templates = {} /\ db.admins = {} /\ ~db.restricted
<1>1. Step(r) = "verdict" /\ row' = NoRow /\ UNCHANGED <<db, up, lib, llm, nomad>>
  BY DEF Judges
<1>2. req[r].op = "delete"
  BY <1>1, RequestFits, Heads DEF Step, Deleting, Clearing
<1>3. req'[r].op = "over" /\ Left(req[r].todo) = {"verdict"}
  BY <1>1, <1>2, Erasing
<1>4. InFlight' = {}
  <2>1. ASSUME NEW q \in Requests, req'[q].op \notin Over PROVE FALSE
    <3>1. q \in InFlight /\ q # r
      BY <1>3, <2>1, Bystanders DEF Over
    <3>. QED  BY <1>2, <3>1, Rivals
  <2>. QED  BY <2>1 DEF InFlight
<1>5. "raced" \notin marks
  BY Noting
<1>. QED  BY <1>1, <1>2, <1>3, <1>4, <1>5, TakenAll

LEMMA GoneCalls ==
  ASSUME Typed, Deleted, Gone, NEW r \in InFlight, Moves(r), Effects(r)
  PROVE  Gone'
<1>1. SUFFICES ASSUME "raced" \notin marks', "deleted" \in marks'
      PROVE  /\ InFlight' = {} /\ row' = NoRow
             /\ up' = {} /\ lib' = None
             /\ llm'.kv = None /\ (llm'.key = None \/ "key-left" \in marks')
             /\ ~nomad'.job /\ nomad'.volume \in {"none", "orphaned"}
             /\ db'.templates = {} /\ db'.admins = {} /\ ~db'.restricted
  BY DEF Gone
<1>2. "raced" \notin marks /\ "deleted" \notin marks
  BY <1>1, Noting DEF Gone
<1>3. Judges(r) /\ ~req[r].failed
  BY <1>1, <1>2, Noting
<1>4. "key-left" \in marks => "key-left" \in marks'
  BY Noting
<1>. QED  BY <1>1, <1>3, <1>4, Judging

LEMMA GoneOthers ==
  ASSUME Typed, Gone, (\E r : Begins(r)) \/ Launches \/ Detaches \/ Crashes
  PROVE  Gone'
<1>1. ASSUME NEW r, Begins(r) PROVE Gone'
  <2>1. "deleted" \in marks' => marks' = marks /\ row # NoRow
    BY <1>1 DEF Begins, Exists
  <2>2. "raced" \in marks' <=> "raced" \in marks
    BY <1>1 DEF Begins
  <2>. QED  BY <2>1, <2>2 DEF Gone
<1>2. CASE Launches
  BY <1>2 DEF Launches, Exists, Gone
<1>3. CASE Detaches
  BY <1>3 DEF Detaches, Gone
<1>4. CASE Crashes
  BY <1>4 DEF Crashes, Gone
<1>. QED  BY <1>1, <1>2, <1>3, <1>4

--------------------------------------------------------------------------------
(* Where there is no project.                                              *)

LEMMA AbsentCalls ==
  ASSUME Typed, Deleted, Absent, NEW r \in InFlight, Moves(r), Effects(r)
  PROVE  Absent'
<1>1. SUFFICES ASSUME "raced" \notin marks', row' = NoRow
      PROVE  db'.templates = {} /\ \A q \in InFlight' : req'[q].op = "create"
  BY DEF Absent
<1>2. "raced" \notin marks
  BY <1>1, Noting
<1>3. CASE row # NoRow
  <2>1. Judges(r) /\ ~req[r].failed
    <3>1. ~Upserts(r)
      BY <1>1 DEF Upserts
    <3>2. ~Describes(r)
      BY <1>1 DEF Describes, NoRow
    <3>. QED  BY <1>1, <1>3, <3>1, <3>2, Touching DEF Judges
  <2>. QED  BY <1>1, <2>1, Judging
<1>4. CASE row = NoRow
  <2>1. db.templates = {} /\ \A q \in InFlight : req[q].op = "create"
    BY <1>2, <1>4 DEF Absent
  <2>2. req[r].op = "create"
    BY <2>1
  <2>3. ~Templating(r) /\ ~Emptying(r)
    <3>1. /\ Step(r) \in {"template-save", "template-drop"} => req[r].op = "template"
          /\ Step(r) \in Deleting => Clearing(req[r]) \/ Step(r) = "unkey"
      BY RequestFits, Heads DEF Step
    <3>. QED  BY <2>2, <3>1 DEF Templating, Emptying, Deleting, Clearing
  <2>4. db'.templates = db.templates
    BY <2>3, Touching DEF Granting, VolumeRows, Tables
  <2>5. ASSUME NEW q \in InFlight' PROVE req'[q].op = "create"
    <3>1. q \in InFlight /\ req'[q].op \notin Over
      BY <2>5, Bystanders DEF InFlight
    <3>2. q = r \/ req'[q] = req[q]
      BY <3>1, Bystanders DEF InFlight
    <3>. QED  BY <2>1, <3>1, <3>2, Continuing DEF Over
  <2>. QED  BY <2>1, <2>4, <2>5
<1>. QED  BY <1>3, <1>4

LEMMA AbsentOthers ==
  ASSUME Typed, Absent, (\E r : Begins(r)) \/ Launches \/ Detaches \/ Crashes
  PROVE  Absent'
<1>1. ASSUME NEW r, Begins(r) PROVE Absent'
  <2>1. /\ "raced" \in marks' <=> "raced" \in marks
        /\ UNCHANGED <<row, db>>
        /\ \A q \in Requests : q # r => req'[q] = req[q]
        /\ row = NoRow => req'[r].op = "create"
    BY <1>1 DEF Begins, Alone, Exists
  <2>2. \A q \in InFlight' : q = r \/ (q \in InFlight /\ req'[q] = req[q])
    BY <2>1 DEF InFlight
  <2>. QED  BY <2>1, <2>2 DEF Absent
<1>2. CASE Launches
  BY <1>2 DEF Launches, Exists, Absent
<1>3. CASE Detaches
  BY <1>3 DEF Detaches, Absent, InFlight
<1>4. CASE Crashes
  BY <1>4 DEF Crashes, Absent, InFlight
<1>. QED  BY <1>1, <1>2, <1>3, <1>4

--------------------------------------------------------------------------------
(* The steps of who makes a project.                                       *)

LEMMA FailingLeft ==
  /\ Left(FailPlan) = {"fail-read", "fail-save"}
  /\ Left(<<"fail-save">>) = {"fail-save"}
  /\ Head(FailPlan) = "fail-read" /\ Tail(FailPlan) = <<"fail-save">>
  /\ Head(<<"fail-save">>) = "fail-save" /\ Tail(<<"fail-save">>) = << >>
<1>1. /\ Head(FailPlan) = "fail-read" /\ Tail(FailPlan) = <<"fail-save">>
      /\ Head(<<"fail-save">>) = "fail-save" /\ Tail(<<"fail-save">>) = << >>
  BY DEF FailPlan
<1>2. FailPlan \in Seq(Steps) /\ FailPlan # << >>
  BY DEF FailPlan, Steps, Failing
<1>3. Left(FailPlan) = {"fail-read"} \cup Left(<<"fail-save">>)
  BY <1>1, <1>2, TailLeft
<1>. QED  BY <1>1, <1>3, LeftOfOne

LEMMA Foundations ==
  ASSUME Typed, NEW r \in InFlight, Moves(r), Effects(r), Founding(req[r])
  PROVE  /\ Step(r) \in Making
         /\ \/ req'[r].op = "over"
            \/ /\ Step(r) # "read" /\ (Builds(r) \/ Describes(r) \/ Granting(r))
               /\ req'[r].op = "create" /\ req'[r].todo = Tail(req[r].todo)
               /\ Left(req[r].todo) = {Step(r)} \cup Left(req'[r].todo)
               /\ "lib-save" \notin Left(req'[r].todo)
            \/ /\ Step(r) = "read" /\ Reading(r)
               /\ req'[r].op = "create" /\ req'[r].todo = Plain
<1>1. /\ req[r].todo # << >> /\ req[r].todo \in Seq(Steps) /\ req[r].op = "create"
  BY RequestFits DEF Founding
<1>2. /\ Step(r) \in Making /\ Left(req[r].todo) = {Step(r)} \cup Left(Tail(req[r].todo))
      /\ Left(req[r].todo) \subseteq Making
  BY <1>1, TailLeft, CreateLeft DEF Step, Founding
<1>3. "lib-save" \notin Left(Tail(req[r].todo))
  BY <1>2 DEF Making
<1>4. Remaining(r, Head(req[r].todo)) = << >> /\ Idle("over").op = "over"
  BY RemainingSteps DEF Idle
<1>5. ASSUME NEW come, NEW done, Lost(r, come, done)
      PROVE  req'[r].op = "over"
  BY <1>4, <1>5 DEF Lost, Onward
<1>6. ASSUME NEW gone, NEW come, Does(r, gone, come)
      PROVE  \/ req'[r].op = "over"
             \/ req'[r].op = "create" /\ req'[r].todo = Tail(req[r].todo)
  BY <1>1, <1>4, <1>5, <1>6 DEF Does, Went, Onward
<1>7. CASE Stays(r)
  BY <1>2, <1>5, <1>7 DEF Stays, Making
<1>8. CASE Reading(r)
  <2>1. Step(r) = "read"
    BY <1>2, <1>8 DEF Reading, Reads, Making
  <2>. QED  BY <1>1, <1>2, <1>8, <2>1 DEF Reading, Goes
<1>9. CASE Builds(r) \/ Describes(r) \/ Granting(r)
  <2>1. Step(r) # "read"
    BY <1>9 DEF Builds, Shell, NomadThings, Engines, Describes, Granting
  <2>2. \E gone, come : Does(r, gone, come)
    BY <1>9 DEF Builds, Describes, Granting
  <2>. QED  BY <1>2, <1>3, <1>6, <1>9, <2>1, <2>2
<1>10. Stays(r) \/ Reading(r) \/ Builds(r) \/ Describes(r) \/ Granting(r)
  <2>1. ~MakesLibrary(r) /\ ~Keying(r) /\ ~Upserts(r) /\ ~Templating(r) /\ ~Lists(r)
    BY <1>2 DEF Making, MakesLibrary, Keying, Upserts, Templating, Lists
  <2>2. ~VolumeRows(r) /\ ~Emptying(r) /\ ~Volumed(r) /\ ~Purges(r) /\ ~Sweeps(r)
        /\ ~Denames(r) /\ ~Removing(r) /\ ~Judges(r)
    BY <1>2 DEF Making, VolumeRows, Emptying, Volumed, Purges, Sweeps, Denames, Removing,
                Judges
  <2>. QED  BY <2>1, <2>2 DEF Effects
<1>. QED  BY <1>2, <1>7, <1>8, <1>9, <1>10

LEMMA Provisions ==
  ASSUME Typed, NEW r \in InFlight, Moves(r), Effects(r), Provisioned(req[r])
  PROVE  /\ Step(r) \in Provisioning
         /\ Stays(r) \/ Builds(r) \/ MakesLibrary(r) \/ Keying(r) \/ Reading(r) \/ Upserts(r)
         /\ \/ /\ req'[r].op = req[r].op /\ req'[r].todo = FailPlan
            \/ /\ req'[r].op = req[r].op /\ req'[r].todo = Tail(req[r].todo)
               /\ Left(req[r].todo) = {Step(r)} \cup Left(req'[r].todo)
               /\ Step(r) # "lib-save"
               /\ Stays(r) => Step(r) \in {"token", "unkey"}
               /\ req'[r].lib = IF Step(r) = "library" THEN lib' ELSE req[r].lib
            \/ /\ req'[r].op = "over" /\ Step(r) = "lib-save" /\ Upserts(r)
<1>1. /\ req[r].todo # << >> /\ req[r].todo \in Seq(Steps) /\ req[r].op \in Makings
  BY RequestFits DEF Provisioned
<1>2. /\ Step(r) \in Provisioning /\ Left(req[r].todo) = {Step(r)} \cup Left(Tail(req[r].todo))
      /\ Step(r) = "lib-save" <=> Tail(req[r].todo) = << >>
  BY <1>1, TailLeft, ProvisionLeft, GitHubLeft DEF Step, Provisioned
<1>3. /\ Remaining(r, Head(req[r].todo)) =
           IF Step(r) = "unkey" THEN Tail(req[r].todo) ELSE FailPlan
      /\ FailPlan # << >>
  BY RemainingSteps DEF Step, FailPlan
<1>4. Idle("over").op = "over"
  BY DEF Idle
<1>5. ASSUME NEW come, NEW done, Lost(r, come, done)
      PROVE  \/ req'[r].op = req[r].op /\ req'[r].todo = FailPlan
             \/ /\ req'[r].op = req[r].op /\ req'[r].todo = Tail(req[r].todo)
                /\ Step(r) = "unkey" /\ req'[r].lib = req[r].lib
  BY <1>2, <1>3, <1>5 DEF Lost, Onward
<1>6. ASSUME NEW gone, NEW come, Went(r, req[r], gone, come)
      PROVE  \/ req'[r].op = "over" /\ Step(r) = "lib-save"
             \/ /\ req'[r].op = req[r].op /\ req'[r].todo = Tail(req[r].todo)
                /\ Step(r) # "lib-save" /\ req'[r].lib = req[r].lib
  BY <1>2, <1>4, <1>6 DEF Went, Onward
<1>7. Stays(r) \/ Builds(r) \/ MakesLibrary(r) \/ Keying(r) \/ Reading(r) \/ Upserts(r)
  <2>1. ~Describes(r) /\ ~Templating(r) /\ ~Lists(r) /\ ~Granting(r) /\ ~VolumeRows(r)
    BY <1>2 DEF Provisioning, Describes, Templating, Lists, Granting, VolumeRows
  <2>2. ~Emptying(r) /\ ~Volumed(r) /\ ~Purges(r) /\ ~Sweeps(r) /\ ~Denames(r)
        /\ ~Removing(r) /\ ~Judges(r)
    BY <1>2 DEF Provisioning, Emptying, Volumed, Purges, Sweeps, Denames, Removing, Judges
  <2>. QED  BY <2>1, <2>2 DEF Effects
<1>8. CASE Stays(r)
  <2>1. \/ Step(r) \in {"token", "volume-wait"} /\ Went(r, req[r], {}, {})
        \/ Lost(r, {}, FALSE)
    BY <1>8 DEF Stays
  <2>2. Step(r) # "volume-wait"
    BY <1>2 DEF Provisioning
  <2>. QED  BY <1>2, <1>5, <1>6, <1>8, <2>1, <2>2
<1>9. CASE ~Stays(r) /\ (Builds(r) \/ Keying(r))
  <2>1. Does(r, {}, {}) /\ Step(r) # "library" /\ Step(r) # "lib-save"
    BY <1>9 DEF Builds, Keying, Shell, Engines, NomadThings
  <2>. QED  BY <1>2, <1>5, <1>6, <1>9, <2>1 DEF Does
<1>10. CASE ~Stays(r) /\ Upserts(r)
  <2>1. Step(r) # "library" /\ \E gone, come : Does(r, gone, come)
    BY <1>10 DEF Upserts
  <2>. QED  BY <1>2, <1>5, <1>6, <1>10, <2>1 DEF Does
<1>11. CASE ~Stays(r) /\ Reading(r)
  <2>1. Step(r) \in {"github-read", "lib-read"}
    BY <1>2, <1>11 DEF Reading, Reads, Provisioning
  <2>. QED  BY <1>2, <1>11, <2>1 DEF Reading, Goes
<1>12. CASE ~Stays(r) /\ MakesLibrary(r)
  <2>1. /\ Step(r) = "library"
        /\ \/ Lost(r, {}, TRUE)
           \/ Goes(r, Tail(req[r].todo)) /\ req'[r].lib = lib'
    BY <1>12 DEF MakesLibrary
  <2>. QED  BY <1>2, <1>5, <1>12, <2>1 DEF Goes
<1>. QED  BY <1>2, <1>7, <1>8, <1>9, <1>10, <1>11, <1>12

LEMMA Stops ==
  ASSUME Typed, NEW r \in InFlight, Moves(r), Effects(r), Stopping(req[r])
  PROVE  /\ Stays(r) \/ Reading(r) \/ Upserts(r)
         /\ Stays(r) => "torn" \in marks'
         /\ Upserts(r) => Step(r) = "fail-save"
         /\ \/ req'[r].op = "over" /\ ~Reading(r)
            \/ req'[r].op = req[r].op /\ Left(req'[r].todo) = {"fail-save"}
<1>1. \/ Step(r) = "fail-read" /\ Tail(req[r].todo) = <<"fail-save">>
      \/ Step(r) = "fail-save" /\ Tail(req[r].todo) = << >>
  BY FailingLeft DEF Stopping, Step
<1>2. Remaining(r, Head(req[r].todo)) = << >> /\ Idle("over").op = "over"
  BY RemainingSteps DEF Idle
<1>3. Stays(r) \/ Reading(r) \/ Upserts(r)
  <2>1. ~Builds(r) /\ ~MakesLibrary(r) /\ ~Keying(r) /\ ~Describes(r)
    BY <1>1 DEF Builds, Shell, Engines, NomadThings, MakesLibrary, Keying, Describes
  <2>2. ~Templating(r) /\ ~Lists(r) /\ ~Granting(r) /\ ~VolumeRows(r)
    BY <1>1 DEF Templating, Lists, Granting, VolumeRows
  <2>3. ~Emptying(r) /\ ~Volumed(r) /\ ~Purges(r) /\ ~Sweeps(r) /\ ~Denames(r)
        /\ ~Removing(r) /\ ~Judges(r)
    BY <1>1 DEF Emptying, Volumed, Purges, Sweeps, Denames, Removing, Judges
  <2>. QED  BY <2>1, <2>2, <2>3 DEF Effects
<1>4. ASSUME NEW come, NEW done, Lost(r, come, done)
      PROVE  req'[r].op = "over"
  BY <1>2, <1>4 DEF Lost, Onward
<1>5. CASE Stays(r)
  <2>1. Lost(r, {}, FALSE)
    BY <1>1, <1>5 DEF Stays
  <2>2. "torn" \in marks'
    BY <1>1, <2>1 DEF Lost, Noted, Unrepaired, Step
  <2>3. ~Reading(r)
    <3>1. ASSUME Reading(r) PROVE FALSE
      BY <1>4, <2>1, <3>1, RequestFits DEF Reading, Goes, Over
    <3>. QED  BY <3>1
  <2>4. Upserts(r) => Step(r) = "fail-save"
    BY <1>1 DEF Upserts
  <2>. QED  BY <1>4, <1>5, <2>1, <2>2, <2>3, <2>4
<1>6. CASE Reading(r) /\ ~Stays(r)
  <2>1. Step(r) = "fail-read" /\ Goes(r, Tail(req[r].todo))
    BY <1>1, <1>6 DEF Reading, Reads
  <2>2. ~Upserts(r)
    BY <2>1 DEF Upserts
  <2>. QED  BY <1>1, <1>6, <2>1, <2>2, FailingLeft DEF Goes
<1>7. CASE Upserts(r) /\ ~Stays(r) /\ ~Reading(r)
  <2>1. Step(r) = "fail-save" /\ \E gone, come : Does(r, gone, come)
    BY <1>1, <1>7 DEF Upserts
  <2>2. req'[r].op = "over"
    BY <1>1, <1>2, <1>4, <2>1 DEF Does, Went, Onward
  <2>. QED  BY <1>7, <2>1, <2>2
<1>. QED  BY <1>3, <1>5, <1>6, <1>7

\* What the other requests leave alone.
LEMMA Sideways ==
  ASSUME Typed, NEW r \in InFlight, Effects(r), req[r].op \notin Makings \cup {"delete"}
  PROVE  /\ up \subseteq up' /\ lib' = lib /\ llm' = llm
         /\ ~Describes(r) /\ ~Judges(r) /\ ~Emptying(r) /\ ~Sweeps(r) /\ ~Denames(r)
<1>1. /\ Step(r) \in Provisioning =>
            Step(r) \in {"github", "github-config", "github-read", "github-save"}
      /\ Step(r) \notin Deleting
      /\ Step(r) \in Making => Step(r) = "grant"
  <2>1. ~Provisioned(req[r]) /\ ~Clearing(req[r]) /\ ~Founding(req[r])
    BY DEF Provisioned, Clearing, Founding, Makings
  <2>2. req[r].op # "delete" /\ req[r].op # "create"
    BY DEF Makings
  <2>. QED  BY <2>1, <2>2, RequestFits, Heads DEF Step, Deleting, Provisioning
<1>2. ~MakesLibrary(r) /\ ~Keying(r)
  BY <1>1 DEF MakesLibrary, Keying, Provisioning
<1>3. ~Removing(r) /\ ~Denames(r) /\ ~Judges(r) /\ ~Emptying(r) /\ ~Sweeps(r)
  BY <1>1 DEF Removing, Denames, Judges, Emptying, Sweeps, Deleting
<1>4. ~Describes(r)
  BY <1>1 DEF Describes, Making
<1>. QED  BY <1>2, <1>3, <1>4, Touching DEF Builds

--------------------------------------------------------------------------------
(* The flavors.                                                            *)

LEMMA LateCalls ==
  ASSUME Typed, Listed, NEW r \in InFlight, Moves(r), Effects(r), "raced" \notin marks',
         NEW q \in Requests, req'[q].todo = <<"sync-save">>
  PROVE  req'[q].flavors = db'.templates
<1>0. "raced" \notin marks
  BY Noting
<1>1. req'[q].op \notin Over /\ q \in InFlight
  <2>1. req'[q].todo # << >>
    OBVIOUS
  <2>2. Fits(req'[q])
    BY DEF Moves, Alone, Typed
  <2>. QED  BY <2>1, <2>2, Bystanders DEF Fits
<1>2. CASE q # r
  <2>1. req'[q] = req[q] /\ req[q].flavors = db.templates
    BY <1>0, <1>2, Bystanders DEF Listed
  <2>2. Head(req[q].todo) = "sync-save" /\ req[q].todo # << >>
    <3>1. req[q].todo = <<"sync-save">>
      BY <2>1
    <3>2. Head(<<"sync-save">>) = "sync-save" /\ <<"sync-save">> # << >>
      OBVIOUS
    <3>. QED  BY <3>1, <3>2
  <2>3. ~Templating(r)
    <3>1. Changed \subseteq marks' \/ ~Templating(r)
      BY DEF Templating, Does, Went, Lost, Noted
    <3>2. "raced" \in Changed
      BY <1>1, <2>2 DEF Changed, At
    <3>. QED  BY <3>1, <3>2
  <2>4. ~Emptying(r)
    <3>1. Step(r) \in Deleting \ {"unkey"} => req[r].op = "delete"
      BY RequestFits, Heads DEF Step, Clearing
    <3>. QED  BY <1>1, <1>2, <3>1, Rivals DEF Emptying, Deleting
  <2>5. db'.templates = db.templates
    BY <2>3, <2>4, Touching DEF Granting, VolumeRows, Tables
  <2>. QED  BY <2>1, <2>5
<1>3. CASE q = r
  <2>0. /\ Fits(req'[r]) /\ Fits(req[r]) /\ req[r].op \notin Over /\ req'[r].op \notin Over
        /\ Head(req'[r].todo) = "sync-save"
    BY <1>1, <1>3, RequestFits DEF Moves
  <2>1. req'[r].op = "template"
    BY <2>0, Heads DEF Syncing
  <2>2. req[r].op = "template"
    BY <2>1, Continuing
  <2>3. req[r].todo \in Rest("template")
    BY <2>0, <2>2, Doings DEF Founding, Provisioned, Stopping, Makings, Clearing
  <2>4. Remaining(r, Head(req[r].todo)) = << >> /\ Idle("over").op = "over"
    BY <2>2, RemainingSteps DEF Others, Idle
  <2>5. ASSUME NEW come, NEW done, Lost(r, come, done)
        PROVE  FALSE
    BY <2>1, <2>4, <2>5 DEF Lost, Onward
  <2>6. /\ <<"sync-read", "sync-list", "sync-save">> # <<"sync-save">>
        /\ <<"sync-list", "sync-save">> # <<"sync-save">>
        /\ << >> # <<"sync-save">>
    OBVIOUS
  <2>7. ASSUME req'[r].todo = Tail(req[r].todo)
        PROVE  Step(r) = "sync-list"
    <3>1. Tail(req[r].todo) = <<"sync-save">>
      BY <1>3, <2>7
    <3>. QED  BY <2>2, <2>3, <2>6, <3>1, ShortSteps DEF Step
  <2>8. ASSUME NEW gone, NEW come, Does(r, gone, come)
        PROVE  Step(r) = "sync-list"
    BY <2>1, <2>4, <2>5, <2>7, <2>8 DEF Does, Went, Onward
  <2>9. Lists(r)
    <3>1. ~Stays(r)
      <4>1. ASSUME Stays(r) PROVE FALSE
        <5>1. Step(r) \in {"token", "volume-wait"} /\ Does(r, {}, {})
          BY <2>5, <4>1 DEF Stays, Does
        <5>. QED  BY <2>8, <5>1
      <4>. QED  BY <4>1
    <3>2. ~Builds(r) /\ ~Keying(r) /\ ~Describes(r) /\ ~Upserts(r)
      BY <2>8 DEF Builds, Shell, Engines, NomadThings, Keying, Describes, Upserts
    <3>3. ~Templating(r) /\ ~Granting(r) /\ ~VolumeRows(r) /\ ~Emptying(r) /\ ~Volumed(r)
      BY <2>8 DEF Templating, Granting, VolumeRows, Emptying, Volumed
    <3>4. ~Purges(r) /\ ~Denames(r) /\ ~Removing(r) /\ ~Judges(r)
      BY <2>8 DEF Purges, Denames, Removing, Judges
    <3>5. ~MakesLibrary(r) /\ ~Sweeps(r)
      BY <2>5, <2>7 DEF MakesLibrary, Sweeps, Goes
    <3>6. ~Reading(r)
      <4>1. ASSUME Reading(r) PROVE FALSE
        <5>1. Step(r) \in Reads /\ Step(r) # "read"
          <6>1. Step(r) \in Making => req[r].op # "template"
            BY <2>0, Heads DEF Step
          <6>. QED  BY <2>2, <4>1, <6>1 DEF Reading, Making
        <5>2. Step(r) = "sync-list"
          BY <2>7, <4>1, <5>1 DEF Reading, Goes
        <5>. QED  BY <5>1, <5>2 DEF Reads
      <4>. QED  BY <4>1
    <3>. QED  BY <3>1, <3>2, <3>3, <3>4, <3>5, <3>6 DEF Effects
  <2>. QED  BY <1>3, <2>9 DEF Lists
<1>. QED  BY <1>2, <1>3

LEMMA ListedCalls ==
  ASSUME Typed, Absent, Listed, NEW r \in InFlight, Moves(r), Effects(r)
  PROVE  Listed'
<1>1. SUFFICES ASSUME marks' \cap {"raced", "torn", "unsynced", "rebuilt", "undone"} = {},
                      row' # NoRow
               PROVE  \/ row'.flavors = db'.templates
                      \/ \E q \in Requests : /\ req'[q].op = "delete"
                                             /\ "templates" \notin Left(req'[q].todo)
  BY LateCalls DEF Listed, Exists
<1>2. "raced" \notin marks /\ "torn" \notin marks
  BY <1>1, Noting
<1>3. CASE Describes(r)
  <2>1. row = NoRow
    <3>1. (IF Exists THEN {"rebuilt"} ELSE {}) \subseteq marks'
      BY <1>3 DEF Describes, Does, Went, Lost, Noted
    <3>. QED  BY <1>1, <3>1 DEF Exists
  <2>. QED  BY <1>2, <1>3, <2>1 DEF Describes, Absent
<1>4. CASE Judges(r)
  <2>1. req[r].failed => "undone" \in marks'
    BY <1>4 DEF Judges, Does, Went, Lost, Noted
  <2>. QED  BY <1>1, <1>4, <2>1 DEF Judges
<1>5. CASE Upserts(r)
  <2>1. row = req[r].copy /\ Stale(r) = {} /\ row # NoRow /\ db' = db
    <3>1. Stale(r) \subseteq marks'
      BY <1>5 DEF Upserts, Does, Went, Lost, Noted
    <3>. QED  BY <1>1, <1>5, <3>1 DEF Stale, Upserts
  <2>2. CASE Step(r) = "sync-save"
    <3>1. req[r].op = "template"
      BY <2>2, RequestFits, Heads DEF Step, Syncing
    <3>2. req[r].todo = <<"sync-save">>
      <4>1. req[r].todo \in Rest("template")
        BY <3>1, RequestFits, Doings DEF Founding, Provisioned, Stopping, Makings, Clearing
      <4>. QED  BY <2>2, <3>1, <4>1, ShortSteps DEF Step
    <3>3. req[r].flavors = db.templates
      BY <1>2, <3>2, RequestFits DEF Listed
    <3>. QED  BY <1>5, <2>1, <2>2, <3>3 DEF Upserts
  <2>3. CASE Step(r) # "sync-save"
    <3>1. marks \subseteq marks'
      BY <1>5, <2>3 DEF Upserts, Does, Went, Lost, Noted
    <3>2. row'.flavors = row.flavors
      BY <1>5, <2>1, <2>3 DEF Upserts
    <3>3. ASSUME NEW q \in Requests, req[q].op = "delete" PROVE FALSE
      <4>1. Step(r) \notin Deleting
        BY <1>5 DEF Upserts, Deleting
      <4>2. q # r /\ q \in InFlight
        BY <3>3, <4>1, Erasing DEF InFlight, Over
      <4>. QED  BY <1>1, <3>3, <4>2, Rivals
    <3>. QED  BY <1>1, <2>1, <3>1, <3>2, <3>3 DEF Listed, Exists
  <2>. QED  BY <2>2, <2>3
<1>6. CASE ~Describes(r) /\ ~Judges(r) /\ ~Upserts(r)
  <2>1. marks \subseteq marks' /\ row' = row
    BY <1>6, Noting, Touching
  <2>2. ~Templating(r)
    BY <1>1 DEF Templating, Does, Went, Lost, Noted, Changed
  <2>3. CASE Emptying(r)
    <3>1. Step(r) \in Deleting \ {"unkey", "verdict"}
      BY <2>3 DEF Emptying, Deleting
    <3>2. req[r].op = "delete"
      BY <3>1, RequestFits, Heads DEF Step, Clearing
    <3>3. req'[r].op = "delete" /\ Step(r) \notin Left(req'[r].todo)
      BY <3>1, <3>2, Erasing
    <3>4. \/ Step(r) = "templates" \/ db'.templates = db.templates
      BY <2>3 DEF Emptying, Tables
    <3>5. Left(req'[r].todo) \subseteq Left(req[r].todo)
      BY <3>1, <3>2, Erasing
    <3>6. CASE Step(r) = "templates"
      BY <3>3, <3>6, RequestFits
    <3>7. CASE Step(r) # "templates"
      <4>1. \/ row.flavors = db.templates
            \/ \E q \in Requests : /\ req[q].op = "delete"
                                   /\ "templates" \notin Left(req[q].todo)
        BY <1>1, <2>1 DEF Listed, Exists
      <4>2. ASSUME NEW q \in Requests, req[q].op = "delete" PROVE q = r
        <5>1. q \in InFlight
          BY <4>2 DEF InFlight, Over
        <5>. QED  BY <1>1, <4>2, <5>1, Rivals
      <4>. QED  BY <2>1, <3>3, <3>4, <3>5, <3>7, <4>1, <4>2
    <3>. QED  BY <3>6, <3>7
  <2>4. CASE ~Emptying(r)
    <3>1. db'.templates = db.templates
      BY <2>2, <2>4, Touching DEF Granting, VolumeRows, Tables
    <3>2. \/ row.flavors = db.templates
          \/ \E q \in Requests : /\ req[q].op = "delete"
                                 /\ "templates" \notin Left(req[q].todo)
      BY <1>1, <2>1 DEF Listed, Exists
    <3>3. ASSUME NEW q \in Requests, req[q].op = "delete",
                 "templates" \notin Left(req[q].todo)
          PROVE  req'[q].op = "delete" /\ "templates" \notin Left(req'[q].todo)
      <4>1. q = r
        <5>1. q \in InFlight
          BY <3>3 DEF InFlight, Over
        <5>. QED  BY <1>1, <3>3, <5>1, Rivals
      <4>2. Step(r) \in Deleting
        BY <3>3, <4>1, Erasing
      <4>3. Step(r) # "verdict"
        <5>1. ASSUME Step(r) = "verdict" PROVE FALSE
          <6>1. Stays(r)
            BY <1>6, <4>2, <5>1, Shrinking
               DEF Keying, Emptying, Purges, Sweeps, Denames, Removing
          <6>2. "torn" \in marks'
            BY <5>1, <6>1 DEF Stays, Lost, Noted, Unrepaired, Step
          <6>. QED  BY <1>1, <6>2
        <5>. QED  BY <5>1
      <4>. QED  BY <3>3, <4>1, <4>3, Erasing
    <3>. QED  BY <2>1, <3>1, <3>2, <3>3
  <2>. QED  BY <2>3, <2>4
<1>. QED  BY <1>3, <1>4, <1>5, <1>6

LEMMA ListedOthers ==
  ASSUME Typed, Listed, (\E r : Begins(r)) \/ Launches \/ Detaches \/ Crashes
  PROVE  Listed'
<1>1. ASSUME NEW r, Begins(r) PROVE Listed'
  <2>1. /\ marks' \ {"deleted"} = marks \ {"deleted"} /\ UNCHANGED <<row, db>>
        /\ \A q \in Requests : q # r => req'[q] = req[q]
        /\ req[r].op = "new" /\ Fits(req'[r]) /\ r \in Requests
        /\ req'[r].op \notin Over
    BY <1>1 DEF Begins, Alone, Makings, Others, Over
  <2>2. req'[r].todo # <<"sync-save">>
    <3>1. ASSUME req'[r].todo = <<"sync-save">> PROVE FALSE
      <4>1. Head(req'[r].todo) = "sync-save"
        BY <3>1
      <4>2. req'[r].op = "template"
        BY <2>1, <4>1, Heads DEF Syncing
      <4>. QED  BY <1>1, <3>1, <4>2 DEF Begins
    <3>. QED  BY <3>1
  <2>3. \A q \in Requests : req[q].op = "delete" => q # r
    BY <2>1
  <2>4. "raced" \notin marks' =>
          \A q \in Requests : req'[q].todo = <<"sync-save">> => req'[q].flavors = db'.templates
    BY <2>1, <2>2 DEF Listed
  <2>5. marks' \cap {"raced", "torn", "unsynced", "rebuilt", "undone"} =
        marks \cap {"raced", "torn", "unsynced", "rebuilt", "undone"}
    BY <2>1
  <2>. QED  BY <2>1, <2>3, <2>4, <2>5 DEF Listed, Exists
<1>2. CASE Launches
  BY <1>2 DEF Launches, Exists, Listed
<1>3. CASE Detaches
  BY <1>3 DEF Detaches, Exists, Listed
<1>4. CASE Crashes
  <2>1. \A q \in Requests : req'[q].todo # <<"sync-save">>
    <3>1. << >> # <<"sync-save">>
      OBVIOUS
    <3>. QED  BY <1>4, <3>1 DEF Crashes
  <2>. QED  BY <1>4, <2>1 DEF Crashes, Listed
<1>. QED  BY <1>1, <1>2, <1>3, <1>4

--------------------------------------------------------------------------------
(* What has been made.                                                     *)

LEMMA ProgressCalls ==
  ASSUME Typed, Progress, NEW r \in InFlight, Moves(r), Effects(r)
  PROVE  Progress'
<1>. DEFINE
  MadeShell(a, u) ==
       a.op = "create" /\ "read" \in Left(a.todo) => Shell \subseteq u \cup Left(a.todo)
  MadeEngines(q, a, u, l, k) == a.op \in Makings /\ "lib-save" \in Left(a.todo) =>
       /\ Engines \subseteq u \cup Left(a.todo)
       /\ "library" \in Left(a.todo) \/ (a.lib = l /\ l # None)
       /\ "key" \in Left(a.todo) \/ k.key = q
       /\ "llm-kv" \in Left(a.todo) \/ k.kv = q
<1>1. SUFFICES ASSUME "raced" \notin marks', NEW q \in Requests
               PROVE  MadeShell(req'[q], up') /\ MadeEngines(q, req'[q], up', lib', llm')
  BY DEF Progress
<1>2. "raced" \notin marks
  BY <1>1, Noting
<1>3. MadeShell(req[q], up) /\ MadeEngines(q, req[q], up, lib, llm)
  BY <1>1, <1>2 DEF Progress
<1>4. CASE req'[q].op \notin Makings
  BY <1>4 DEF Makings
<1>5. CASE req'[q].op \in Makings /\ q # r
  <2>1. req'[q] = req[q] /\ q \in InFlight
    BY <1>5, Bystanders DEF Makings, Over
  <2>2. req[r].op \notin Makings \cup {"delete"}
    BY <1>1, <1>5, <2>1, Rivals
  <2>3. up \subseteq up' /\ lib' = lib /\ llm' = llm
    BY <2>2, Sideways
  <2>. QED  BY <1>3, <2>1, <2>3
<1>6. CASE req'[r].op \in Makings /\ q = r
  <2>1. req[r].op = req'[r].op
    BY <1>6, Continuing DEF Makings
  <2>2. Founding(req[r]) \/ Provisioned(req[r]) \/ Stopping(req[r])
    BY <1>6, <2>1, RequestFits, Doings DEF Clearing, Rest, Makings
  <2>3. CASE Founding(req[r])
    <3>1. CASE /\ Step(r) # "read" /\ (Builds(r) \/ Describes(r) \/ Granting(r))
               /\ req'[r].op = "create" /\ req'[r].todo = Tail(req[r].todo)
               /\ Left(req[r].todo) = {Step(r)} \cup Left(req'[r].todo)
               /\ "lib-save" \notin Left(req'[r].todo)
      <4>1. up \subseteq up' /\ (Builds(r) => Step(r) \in up')
        BY <3>1, Touching DEF Builds, Describes, Granting, Tables
      <4>2. Step(r) \in Shell => Builds(r)
        BY <3>1 DEF Shell, NomadThings, Describes, Granting
      <4>3. Shell \subseteq up' \cup Left(req'[r].todo) \/ "read" \notin Left(req'[r].todo)
        BY <1>3, <1>6, <2>1, <3>1, <4>1, <4>2
      <4>. QED  BY <1>6, <3>1, <4>3
    <3>2. CASE Step(r) = "read" /\ req'[r].op = "create" /\ req'[r].todo = Plain
      <4>1. "read" \notin Left(Plain)
            /\ Engines \cup {"library", "unkey", "key", "llm-kv", "lib-save"}
                 \subseteq Left(Plain)
        BY WholeLeft
      <4>. QED  BY <1>6, <3>2, <4>1
    <3>. QED  BY <1>6, <2>3, <3>1, <3>2, Foundations DEF Makings
  <2>4. CASE Provisioned(req[r])
    <3>0. "read" \notin Left(req[r].todo) /\ "lib-save" \in Left(req[r].todo)
      BY <2>4, RequestFits, ProvisionLeft, GitHubLeft DEF Provisioned, Provisioning
    <3>1. CASE req'[r].todo = FailPlan
      BY <1>6, <3>1, FailingLeft
    <3>2. CASE /\ req'[r].op = req[r].op /\ req'[r].todo = Tail(req[r].todo)
               /\ Left(req[r].todo) = {Step(r)} \cup Left(req'[r].todo)
               /\ Step(r) # "lib-save"
               /\ Stays(r) => Step(r) \in {"token", "unkey"}
               /\ req'[r].lib = IF Step(r) = "library" THEN lib' ELSE req[r].lib
      <4>1. Stays(r) \/ Builds(r) \/ MakesLibrary(r) \/ Keying(r) \/ Reading(r) \/ Upserts(r)
        BY <2>4, Provisions
      <4>2. Engines \subseteq up' \cup Left(req'[r].todo)
        <5>1. up \subseteq up' /\ (Builds(r) => Step(r) \in up')
          BY <4>1, Touching DEF Builds, Stays, MakesLibrary, Keying, Reading, Upserts
        <5>2. Step(r) \in Engines => Builds(r)
          BY <3>2, <4>1 DEF Engines, MakesLibrary, Keying, Reading, Reads, Upserts
        <5>. QED  BY <1>3, <1>6, <2>1, <3>0, <3>2, <5>1, <5>2
      <4>3. "library" \in Left(req'[r].todo) \/ (req'[r].lib = lib' /\ lib' # None)
        <5>1. CASE Step(r) = "library"
          <6>1. MakesLibrary(r)
            BY <3>2, <4>1, <5>1
               DEF Builds, Shell, Engines, NomadThings, Keying, Reading, Reads, Upserts
          <6>2. lib' # None
            BY <6>1, RequestFits, ProjectsAssumption DEF MakesLibrary
          <6>. QED  BY <3>2, <5>1, <6>2
        <5>2. CASE Step(r) # "library"
          <6>1. lib' = lib
            BY <4>1, <5>2 DEF Stays, Builds, MakesLibrary, Keying, Reading, Upserts
          <6>. QED  BY <1>3, <1>6, <2>1, <3>0, <3>2, <5>2, <6>1
        <5>. QED  BY <5>1, <5>2
      <4>4. "key" \in Left(req'[r].todo) \/ llm'.key = r
        <5>1. CASE Step(r) = "key"
          <6>1. Keying(r)
            BY <3>2, <4>1, <5>1
               DEF Builds, Shell, Engines, NomadThings, MakesLibrary, Reading, Reads, Upserts
          <6>. QED  BY <5>1, <6>1 DEF Keying
        <5>2. CASE Step(r) = "unkey"
          <6>1. "key" \in Left(Tail(req[r].todo))
            BY <2>4, <5>2, RequestFits, ProvisionLeft, GitHubLeft DEF Provisioned, Step
          <6>. QED  BY <3>2, <6>1
        <5>3. CASE Step(r) \notin {"key", "unkey"}
          <6>1. llm'.key = llm.key
            <7>1. Keying(r) => llm'.key = llm.key
              BY <5>3 DEF Keying
            <7>2. ~Keying(r) => llm' = llm
              BY <4>1 DEF Stays, Builds, MakesLibrary, Reading, Upserts
            <7>. QED  BY <7>1, <7>2
          <6>. QED  BY <1>3, <1>6, <2>1, <3>0, <3>2, <5>3, <6>1
        <5>. QED  BY <5>1, <5>2, <5>3
      <4>5. "llm-kv" \in Left(req'[r].todo) \/ llm'.kv = r
        <5>1. CASE Step(r) = "llm-kv"
          <6>1. Keying(r)
            BY <3>2, <4>1, <5>1
               DEF Builds, Shell, Engines, NomadThings, MakesLibrary, Reading, Reads, Upserts
          <6>. QED  BY <5>1, <6>1 DEF Keying
        <5>2. CASE Step(r) # "llm-kv"
          <6>1. llm'.kv = llm.kv
            <7>1. Keying(r) => llm'.kv = llm.kv
              BY <5>2 DEF Keying
            <7>2. ~Keying(r) => llm' = llm
              BY <4>1 DEF Stays, Builds, MakesLibrary, Reading, Upserts
            <7>. QED  BY <7>1, <7>2
          <6>. QED  BY <1>3, <1>6, <2>1, <3>0, <3>2, <5>2, <6>1
        <5>. QED  BY <5>1, <5>2
      <4>6. "read" \notin Left(req'[r].todo)
        BY <3>0, <3>2
      <4>. QED  BY <1>6, <4>2, <4>3, <4>4, <4>5, <4>6
    <3>. QED  BY <1>6, <2>4, <3>1, <3>2, Provisions DEF Makings
  <2>5. CASE Stopping(req[r])
    <3>1. Left(req'[r].todo) = {"fail-save"}
      BY <1>6, <2>5, Stops DEF Makings
    <3>. QED  BY <1>6, <3>1
  <2>. QED  BY <2>2, <2>3, <2>4, <2>5
<1>. QED  BY <1>4, <1>5, <1>6

LEMMA ProgressOthers ==
  ASSUME Typed, Progress, (\E r : Begins(r)) \/ Launches \/ Detaches \/ Crashes
  PROVE  Progress'
<1>1. ASSUME NEW r, Begins(r) PROVE Progress'
  <2>1. /\ "raced" \in marks' <=> "raced" \in marks
        /\ UNCHANGED <<up, lib, llm>>
        /\ \A q \in Requests : q # r => req'[q] = req[q]
    BY <1>1 DEF Begins, Alone
  <2>2. req'[r].op = "create" =>
          Shell \subseteq Left(req'[r].todo) /\ "lib-save" \notin Left(req'[r].todo)
    BY <1>1, WholeLeft DEF Begins
  <2>3. req'[r].op = "provision" =>
          Engines \cup {"library", "key", "llm-kv"} \subseteq Left(req'[r].todo)
    BY <1>1, WholeLeft DEF Begins
  <2>4. ~(req'[r].op = "create" /\ req'[r].op = "provision")
    OBVIOUS
  <2>. QED  BY <2>1, <2>2, <2>3, <2>4 DEF Progress, Makings
<1>2. CASE Launches \/ Detaches
  BY <1>2 DEF Launches, Detaches, Progress
<1>3. CASE Crashes
  BY <1>3 DEF Crashes, Progress, Over, Makings
<1>. QED  BY <1>1, <1>2, <1>3

--------------------------------------------------------------------------------
(* What is shown as ready.                                                 *)

LEMMA RekeyingStays ==
  ASSUME Typed, NEW r \in InFlight, Moves(r), Effects(r), "torn" \notin marks',
         Rekeying(req[r])
  PROVE  Rekeying(req'[r]) \/ (Upserts(r) /\ Step(r) \in {"lib-save", "fail-save"})
<1>1. Founding(req[r]) \/ Provisioned(req[r]) \/ Stopping(req[r])
  BY RequestFits, Doings DEF Clearing, Rest, Makings, Rekeying
<1>2. ~Founding(req[r])
  BY RequestFits, CreateLeft DEF Founding, Rekeying
<1>3. CASE Provisioned(req[r])
  BY <1>3, Provisions, FailingLeft DEF Rekeying, Makings
<1>4. CASE Stopping(req[r])
  BY <1>4, Stops DEF Rekeying, Makings
<1>. QED  BY <1>1, <1>2, <1>3, <1>4

LEMMA KeyingRekeys ==
  ASSUME Typed, NEW r \in InFlight, Moves(r), Effects(r), Keying(r), req[r].op # "delete",
         Step(r) = "key" => Rekeying(req[r])
  PROVE  Rekeying(req'[r])
<1>1. Provisioned(req[r])
  <2>1. Step(r) \in {"unkey", "key", "llm-kv"}
    BY DEF Keying
  <2>. QED  BY <2>1, RequestFits, Heads DEF Step, Provisioning
<1>2. \/ req'[r].op = req[r].op /\ req'[r].todo = FailPlan
      \/ req'[r].op = req[r].op /\ req'[r].todo = Tail(req[r].todo)
  <2>1. ~Upserts(r)
    BY DEF Keying, Upserts
  <2>. QED  BY <1>1, <2>1, Provisions
<1>3. CASE req'[r].todo = FailPlan
  BY <1>1, <1>2, <1>3, FailingLeft DEF Rekeying, Provisioned
<1>4. CASE req'[r].op = req[r].op /\ req'[r].todo = Tail(req[r].todo)
  <2>1. /\ req[r].todo # << >> /\ req[r].todo \in Seq(Steps)
        /\ Left(req[r].todo) = {Step(r)} \cup Left(req'[r].todo)
        /\ Left(req[r].todo) \subseteq Provisioning
    BY <1>1, <1>4, RequestFits, TailLeft, ProvisionLeft, GitHubLeft DEF Step, Provisioned
  <2>2. Step(r) \in {"unkey", "llm-kv"} => "unkey" \notin Left(req'[r].todo)
    BY <1>1, <1>4, <2>1, ProvisionLeft, GitHubLeft DEF Step, Provisioned
  <2>3. Step(r) = "key" => "unkey" \notin Left(req'[r].todo)
    BY <2>1 DEF Rekeying
  <2>4. "read" \notin Left(req'[r].todo)
    BY <2>1 DEF Provisioning
  <2>5. Step(r) \in {"unkey", "key", "llm-kv"}
    BY DEF Keying
  <2>. QED  BY <1>1, <1>4, <2>2, <2>3, <2>4, <2>5 DEF Rekeying, Provisioned
<1>. QED  BY <1>2, <1>3, <1>4

\* A key is saved, or will be.
Keyed == \/ llm.key # None /\ llm.key = llm.kv
         \/ \E r \in Requests : Rekeying(req[r])
Shown == row.status = "ready" /\ row.lib # None

LEMMA ReadyCalls ==
  ASSUME Typed, Progress, Ready, NEW r \in InFlight, Moves(r), Effects(r)
  PROVE  Ready'
<1>1. SUFFICES ASSUME marks' \cap {"raced", "torn", "undone"} = {},
                      ~ \E q \in Requests : req'[q].op = "delete"
               PROVE  /\ row' # NoRow => Shell \subseteq up'
                      /\ row'.status = "ready" /\ row'.lib # None =>
                           /\ Engines \subseteq up'
                           /\ row'.lib = lib'
                           /\ \/ llm'.key # None /\ llm'.key = llm'.kv
                              \/ \E q \in Requests : Rekeying(req'[q])
  BY DEF Ready, Exists
<1>2. "raced" \notin marks /\ "torn" \notin marks
  BY <1>1, Noting
<1>3. CASE Judges(r)
  <2>1. ~req[r].failed
    BY <1>1, <1>3 DEF Judges, Does, Went, Lost, Noted
  <2>2. NoRow.status = "none"
    BY DEF NoRow
  <2>. QED  BY <1>3, <2>1, <2>2 DEF Judges
<1>4. CASE Describes(r)
  <2>1. Step(r) = "descriptor" /\ row'.lib = None /\ up' = up
    BY <1>4 DEF Describes
  <2>2. Founding(req[r])
    BY <2>1, RequestFits, Heads DEF Step, Making
  <2>3. Left(req[r].todo) \cap Shell = {} /\ "read" \in Left(req[r].todo)
    BY <2>1, <2>2, RequestFits, CreateLeft DEF Step, Founding
  <2>4. Shell \subseteq up \cup Left(req[r].todo)
    BY <1>2, <2>2, <2>3, RequestFits DEF Progress, Founding
  <2>. QED  BY <2>1, <2>3, <2>4
<1>5. CASE ~Judges(r) /\ ~Describes(r)
  <2>1. "undone" \notin marks
    BY <1>1, <1>5, Noting
  <2>2. req[r].op # "delete"
    <3>1. ASSUME req[r].op = "delete" PROVE FALSE
      <4>1. Step(r) = "verdict" /\ Step(r) \in Deleting
        BY <1>1, <3>1, Erasing, RequestFits
      <4>2. Stays(r)
        BY <1>5, <4>1, Shrinking
           DEF Keying, Emptying, Purges, Sweeps, Denames, Removing
      <4>3. "torn" \in marks'
        BY <4>1, <4>2 DEF Stays, Lost, Noted, Unrepaired, Step
      <4>. QED  BY <1>1, <4>3
    <3>. QED  BY <3>1
  <2>3. \A q \in Requests : req[q].op # "delete"
    <3>1. ASSUME NEW q \in Requests, req[q].op = "delete" PROVE FALSE
      <4>1. q # r /\ q \in InFlight
        BY <2>2, <3>1 DEF InFlight, Over
      <4>. QED  BY <1>1, <3>1, <4>1, Rivals
    <3>. QED  BY <3>1
  <2>4. /\ row # NoRow => Shell \subseteq up
        /\ Shown => Engines \subseteq up /\ row.lib = lib /\ Keyed
    BY <1>2, <2>1, <2>3 DEF Ready, Exists, Shown, Keyed
  <2>5. ~Removing(r) /\ ~Denames(r)
    <3>1. Step(r) \notin Deleting \ {"unkey"}
      BY <2>2, RequestFits, Heads DEF Step, Clearing
    <3>. QED  BY <3>1 DEF Removing, Denames, Deleting
  <2>6. up \subseteq up'
    BY <2>5, Touching DEF Builds
  <2>7. CASE Upserts(r)
    <3>1. row = req[r].copy /\ row # NoRow /\ UNCHANGED <<db, up, lib, llm, nomad>>
      <4>1. Stale(r) \subseteq marks'
        BY <2>7 DEF Upserts, Does, Went, Lost, Noted
      <4>. QED  BY <1>1, <2>7, <4>1 DEF Stale, Upserts
    <3>2. CASE Step(r) = "lib-save"
      <4>1. row'.lib = req[r].lib
        BY <2>7, <3>2 DEF Upserts
      <4>2. Provisioned(req[r]) /\ req[r].op \in Makings
        BY <3>2, RequestFits, Heads DEF Step, Provisioning, Provisioned
      <4>3. Left(req[r].todo) = {"lib-save"}
        BY <3>2, <4>2, RequestFits, ProvisionLeft, GitHubLeft DEF Step, Provisioned
      <4>4. /\ Engines \subseteq up \cup {"lib-save"} /\ req[r].lib = lib
            /\ llm.key = r /\ llm.kv = r
        BY <1>2, <4>2, <4>3, RequestFits DEF Progress
      <4>5. r # None /\ Engines \subseteq up
        BY <4>4, RequestFits, ProjectsAssumption DEF Engines
      <4>. QED  BY <2>4, <3>1, <4>1, <4>4, <4>5
    <3>3. CASE Step(r) = "fail-save"
      <4>1. row'.status = "error"
        BY <2>7, <3>3 DEF Upserts
      <4>. QED  BY <2>4, <3>1, <4>1
    <3>4. CASE Step(r) \notin {"lib-save", "fail-save"}
      <4>1. row'.status = row.status /\ row'.lib = row.lib
        BY <2>7, <3>1, <3>4 DEF Upserts
      <4>2. \A q \in Requests : Rekeying(req[q]) => Rekeying(req'[q])
        <5>1. ASSUME NEW q \in Requests, Rekeying(req[q]) PROVE Rekeying(req'[q])
          <6>1. CASE q = r
            BY <1>1, <3>4, <5>1, <6>1, RekeyingStays
          <6>2. CASE q # r
            BY <5>1, <6>2, Bystanders
          <6>. QED  BY <6>1, <6>2
        <5>. QED  BY <5>1
      <4>. QED  BY <2>4, <3>1, <4>1, <4>2 DEF Shown, Keyed
    <3>. QED  BY <3>2, <3>3, <3>4
  <2>8. CASE ~Upserts(r)
    <3>1. row' = row
      BY <1>5, <2>8, Touching
    <3>2. ASSUME Shown PROVE lib' = lib
      <4>1. lib # None
        BY <2>4, <3>2 DEF Shown
      <4>. QED  BY <2>5, <4>1, Touching DEF MakesLibrary
    <3>3. \A q \in Requests : Rekeying(req[q]) => Rekeying(req'[q])
      <4>1. ASSUME NEW q \in Requests, Rekeying(req[q]) PROVE Rekeying(req'[q])
        <5>1. CASE q = r
          BY <1>1, <2>8, <4>1, <5>1, RekeyingStays
        <5>2. CASE q # r
          BY <4>1, <5>2, Bystanders
        <5>. QED  BY <5>1, <5>2
      <4>. QED  BY <4>1
    <3>4. ASSUME Shown
          PROVE  \/ llm'.key # None /\ llm'.key = llm'.kv
                 \/ \E q \in Requests : Rekeying(req'[q])
      <4>1. CASE ~Keying(r)
        <5>1. llm' = llm
          BY <2>5, <4>1, Touching
        <5>. QED  BY <2>4, <3>3, <3>4, <5>1 DEF Keyed
      <4>2. CASE Keying(r)
        <5>1. CASE Step(r) = "key"
          <6>1. llm.key = None
            BY <4>2, <5>1 DEF Keying
          <6>2. \E q \in Requests : Rekeying(req[q])
            BY <2>4, <3>4, <6>1 DEF Keyed
          <6>. QED  BY <3>3, <6>2
        <5>2. CASE Step(r) # "key"
          <6>1. Rekeying(req'[r])
            BY <2>2, <4>2, <5>2, KeyingRekeys
          <6>. QED  BY <6>1, RequestFits
        <5>. QED  BY <5>1, <5>2
      <4>. QED  BY <4>1, <4>2
    <3>. QED  BY <2>4, <2>6, <3>1, <3>2, <3>4 DEF Shown
  <2>. QED  BY <2>7, <2>8
<1>. QED  BY <1>3, <1>4, <1>5

LEMMA ReadyOthers ==
  ASSUME Typed, Ready, (\E r : Begins(r)) \/ Launches \/ Detaches \/ Crashes
  PROVE  Ready'
<1>1. ASSUME NEW r, Begins(r) PROVE Ready'
  <2>1. /\ marks' \cap {"raced", "torn", "undone"} = marks \cap {"raced", "torn", "undone"}
        /\ UNCHANGED <<row, up, lib, llm>>
        /\ req[r].op = "new"
    BY <1>1 DEF Begins
  <2>2. \A q \in Requests : q # r => req'[q] = req[q]
    BY <1>1 DEF Begins, Alone
  <2>3. \A q \in Requests : (Rekeying(req[q]) \/ req[q].op = "delete") => q # r
    BY <2>1 DEF Rekeying, Makings
  <2>4. ASSUME NEW q \in Requests
        PROVE  /\ Rekeying(req[q]) => Rekeying(req'[q])
               /\ req[q].op = "delete" => req'[q].op = "delete"
    BY <2>2, <2>3
  <2>. QED  BY <2>1, <2>4 DEF Ready, Exists
<1>2. CASE Launches \/ Detaches
  BY <1>2 DEF Launches, Detaches, Exists, Ready
<1>3. CASE Crashes
  BY <1>3 DEF Crashes, Ready
<1>. QED  BY <1>1, <1>2, <1>3

--------------------------------------------------------------------------------
(* Shared volumes and their rows.                                          *)

LEMMA VolumePlans ==
  /\ <<"volume", "volume-wait", "volume-row">>
        \notin {<<"volume-wait", "volume-row">>, <<"volume-row">>, <<"unvolume">>, << >>}
  /\ <<"unvolume", "volume-unrow">> \notin {<<"volume-unrow">>, << >>}
OBVIOUS

\* What a step of a request for a volume does to it and to its row.
LEMMA Sharings ==
  ASSUME Typed, NEW r \in InFlight, Moves(r), Effects(r), req[r].op \in Volumes,
         "volume-raced" \notin marks'
  PROVE
    \/ /\ req[r].op = "volume-create" /\ HalfMade(req'[r]) /\ db'.shared = db.shared
       /\ nomad'.shared = TRUE \/ (nomad'.shared = nomad.shared /\ HalfMade(req[r]))
    \/ /\ req[r].op = "volume-delete" /\ HalfDropped(req'[r])
       /\ db'.shared = db.shared /\ nomad'.shared = FALSE
    \/ /\ req[r].op = "volume-create" /\ req'[r].op = "over" /\ HalfMade(req[r])
       /\ \/ db'.shared = TRUE /\ nomad'.shared = nomad.shared
          \/ db'.shared = db.shared /\ nomad'.shared = FALSE
    \/ /\ req[r].op = "volume-delete" /\ req'[r].op = "over" /\ HalfDropped(req[r])
       /\ db'.shared = FALSE /\ nomad'.shared = nomad.shared
<1>1. req[r].todo \in Rest(req[r].op)
  <2>1. ~Founding(req[r]) /\ ~Provisioned(req[r]) /\ ~Stopping(req[r]) /\ ~Clearing(req[r])
    BY DEF Founding, Provisioned, Stopping, Clearing, Makings, Volumes
  <2>. QED  BY <2>1, RequestFits, Doings
<1>2. \/ /\ req[r].op = "volume-create" /\ Step(r) = "volume"
         /\ Tail(req[r].todo) = <<"volume-wait", "volume-row">>
      \/ /\ req[r].op = "volume-create" /\ Step(r) = "volume-wait"
         /\ req[r].todo = <<"volume-wait", "volume-row">>
         /\ Tail(req[r].todo) = <<"volume-row">>
      \/ /\ req[r].op = "volume-create" /\ Step(r) = "volume-row"
         /\ req[r].todo = <<"volume-row">> /\ Tail(req[r].todo) = << >>
      \/ /\ req[r].op = "volume-create" /\ Step(r) = "unvolume"
         /\ req[r].todo = <<"unvolume">> /\ Tail(req[r].todo) = << >>
      \/ /\ req[r].op = "volume-delete" /\ Step(r) = "unvolume"
         /\ Tail(req[r].todo) = <<"volume-unrow">>
      \/ /\ req[r].op = "volume-delete" /\ Step(r) = "volume-unrow"
         /\ req[r].todo = <<"volume-unrow">> /\ Tail(req[r].todo) = << >>
  BY <1>1, ShortSteps DEF Step, Volumes
<1>3. Stays(r) \/ Volumed(r) \/ VolumeRows(r)
  <2>1. Step(r) \in Sharing
    BY <1>2 DEF Sharing
  <2>2. ~Builds(r) /\ ~MakesLibrary(r) /\ ~Keying(r) /\ ~Describes(r)
    BY <1>2 DEF Builds, Shell, Engines, NomadThings, MakesLibrary, Keying, Describes
  <2>3. ~Reading(r) /\ ~Upserts(r) /\ ~Templating(r) /\ ~Lists(r) /\ ~Granting(r)
    BY <1>2 DEF Reading, Reads, Upserts, Templating, Lists, Granting
  <2>4. ~Emptying(r) /\ ~Purges(r) /\ ~Sweeps(r) /\ ~Denames(r)
        /\ ~Removing(r) /\ ~Judges(r)
    BY <1>2 DEF Emptying, Purges, Sweeps, Denames, Removing, Judges
  <2>. QED  BY <2>2, <2>3, <2>4 DEF Effects
<1>4. /\ req[r].op = "volume-create" =>
           Remaining(r, Step(r)) = IF Step(r) = "volume-row" THEN <<"unvolume">> ELSE << >>
      /\ Idle("over").op = "over" /\ <<"unvolume">> # << >>
  BY RemainingSteps DEF Idle, Step
<1>5. ASSUME NEW come, NEW done, Lost(r, come, done)
      PROVE  \/ /\ Step(r) = "volume-row" /\ ~done /\ req[r].op = "volume-create"
                /\ req'[r].op = "volume-create" /\ req'[r].todo = <<"unvolume">>
             \/ Step(r) = "volume-unrow" /\ done
  <2>1. Unrepaired(r, Step(r), done) \subseteq marks'
    BY <1>5 DEF Lost, Noted, Step
  <2>2. \/ Step(r) = "volume-row" /\ ~done
        \/ Step(r) = "volume-unrow" /\ done
    BY <1>2, <2>1 DEF Unrepaired
  <2>. QED  BY <1>2, <1>4, <1>5, <2>2 DEF Lost, Onward, Step
<1>6. ASSUME NEW gone, NEW come, Went(r, req[r], gone, come)
      PROVE  IF Tail(req[r].todo) = << >> THEN req'[r].op = "over"
             ELSE req'[r].op = req[r].op /\ req'[r].todo = Tail(req[r].todo)
  BY <1>4, <1>6 DEF Went, Onward
<1>7. /\ nomad.shared \in BOOLEAN /\ db.shared \in BOOLEAN
      /\ \A j, v, s : Plane(j, v, s) => nomad'.shared = s
      /\ \A t, a, x, s : Tables(t, a, x, s) => db'.shared = s /\ nomad' = nomad
  BY TableTypes DEF Plane, Tables
<1>. USE VolumePlans DEF HalfMade, HalfDropped
<1>8. CASE Stays(r)
  <2>1. UNCHANGED <<db, nomad>>
    BY <1>8 DEF Stays
  <2>2. CASE Lost(r, {}, FALSE)
    <3>1. /\ Step(r) = "volume-row" /\ req[r].op = "volume-create"
          /\ req'[r].op = "volume-create" /\ req'[r].todo = <<"unvolume">>
      BY <1>5, <2>2
    <3>. QED  BY <1>2, <2>1, <3>1
  <2>3. CASE Step(r) \in {"token", "volume-wait"} /\ Went(r, req[r], {}, {})
    <3>0. <<"volume-row">> # << >>
      OBVIOUS
    <3>1. req'[r].op = req[r].op /\ req'[r].todo = <<"volume-row">> /\ Step(r) = "volume-wait"
      <4>1. Step(r) = "volume-wait" /\ Tail(req[r].todo) = <<"volume-row">>
        BY <1>2, <2>3
      <4>2. Went(r, req[r], {}, {})
        BY <2>3
      <4>. QED  BY <1>6, <3>0, <4>1, <4>2
    <3>. QED  BY <1>2, <2>1, <3>1
  <2>. QED  BY <1>8, <2>2, <2>3 DEF Stays
<1>9. CASE Volumed(r)
  <2>1. Step(r) \in {"volume", "unvolume"} /\ db' = db /\ Does(r, {}, {})
        /\ nomad'.shared = (Step(r) = "volume")
    BY <1>7, <1>9 DEF Volumed
  <2>2. IF Tail(req[r].todo) = << >> THEN req'[r].op = "over"
        ELSE req'[r].op = req[r].op /\ req'[r].todo = Tail(req[r].todo)
    BY <1>5, <1>6, <2>1 DEF Does
  <2>3. <<"volume-wait", "volume-row">> # << >> /\ <<"volume-unrow">> # << >>
    OBVIOUS
  <2>4. \/ /\ req[r].op = "volume-create" /\ Step(r) = "volume"
           /\ req'[r].op = "volume-create" /\ req'[r].todo = <<"volume-wait", "volume-row">>
        \/ /\ req[r].op = "volume-create" /\ Step(r) = "unvolume"
           /\ req[r].todo = <<"unvolume">> /\ req'[r].op = "over"
        \/ /\ req[r].op = "volume-delete" /\ Step(r) = "unvolume"
           /\ req'[r].op = "volume-delete" /\ req'[r].todo = <<"volume-unrow">>
    BY <1>2, <2>1, <2>2, <2>3
  <2>. QED  BY <2>1, <2>4
<1>10. CASE VolumeRows(r)
  <2>1. Step(r) \in {"volume-row", "volume-unrow"} /\ nomad' = nomad /\ Does(r, {}, {})
        /\ db'.shared = (Step(r) = "volume-row")
    BY <1>7, <1>10 DEF VolumeRows
  <2>2. Lost(r, {}, TRUE) => req'[r].op = "over"
    <3>1. ASSUME Lost(r, {}, TRUE) PROVE req'[r].op = "over"
      <4>1. Step(r) = "volume-unrow"
        BY <1>5, <3>1
      <4>2. Remaining(r, Step(r)) = << >>
        BY <1>2, <4>1 DEF Remaining, Provisioning
      <4>. QED  BY <1>4, <3>1, <4>2 DEF Lost, Onward, Step
    <3>. QED  BY <3>1
  <2>3. req'[r].op = "over"
    BY <1>2, <1>6, <2>1, <2>2 DEF Does
  <2>. QED  BY <1>2, <2>1, <2>3
<1>. QED  BY <1>3, <1>8, <1>9, <1>10

LEMMA BackedCalls ==
  ASSUME Typed, Backed, NEW r \in InFlight, Moves(r), Effects(r)
  PROVE  Backed'
<1>1. SUFFICES ASSUME "volume-raced" \notin marks' PROVE Backed'
  BY DEF Backed
<1>2. "volume-raced" \notin marks
  BY <1>1, Noting
<1>3. /\ \A q \in Requests \ {r} : req'[q] = req[q]
      /\ req[r].op \notin Over /\ r \in Requests
      /\ \A a : a.op = "over" => ~Half(a) /\ a.op \notin Volumes
      /\ \A a : Half(a) => a.op \in Volumes
  BY Bystanders, RequestFits DEF Half, HalfMade, HalfDropped, Volumes
<1>4. CASE req[r].op \in Volumes
  <2>1. \A q \in Requests \ {r} : req[q].op \notin Volumes
    <3>1. ASSUME NEW q \in Requests \ {r}, req[q].op \in Volumes PROVE FALSE
      <4>1. q \in InFlight
        BY <3>1, Bystanders DEF Volumes, Over
      <4>. QED  BY <1>1, <1>4, <3>1, <4>1, Rivals
    <3>. QED  BY <3>1
  <2>2. \A q \in Requests : Half(req'[q]) \/ req'[q].op \in Volumes => q = r
    BY <1>3, <2>1
  <2>3. /\ req[r].op = "volume-create" => ~db.shared
        /\ req[r].op = "volume-delete" => db.shared
        /\ HalfMade(req[r]) => nomad.shared
        /\ HalfDropped(req[r]) => ~nomad.shared
    BY <1>2, <1>3 DEF Backed
  <2>4. /\ nomad.shared \in BOOLEAN /\ db.shared \in BOOLEAN
    BY TableTypes
  <2>5. /\ req'[r].op = "volume-create" => ~db'.shared
        /\ req'[r].op = "volume-delete" => db'.shared
        /\ HalfMade(req'[r]) => nomad'.shared
        /\ HalfDropped(req'[r]) => ~nomad'.shared
        /\ db'.shared = nomad'.shared \/ Half(req'[r])
    BY <1>1, <1>4, <2>3, <2>4, Sharings DEF Half, HalfMade, HalfDropped
  <2>. QED  BY <1>3, <2>2, <2>5 DEF Backed, Half, HalfMade, HalfDropped, Volumes
<1>5. CASE req[r].op \notin Volumes
  <2>1. Step(r) \notin Sharing
    BY <1>5, RequestFits, Heads DEF Step
  <2>2. ~VolumeRows(r) /\ ~Volumed(r)
    BY <2>1 DEF VolumeRows, Volumed, Sharing
  <2>3. db'.shared = db.shared
    <3>1. \A t, a, x, s : Tables(t, a, x, s) => db'.shared = s
      BY DEF Tables
    <3>. QED  BY <2>2, <3>1, Touching DEF Templating, Granting, Emptying
  <2>4. nomad'.shared = nomad.shared
    <3>1. \A j, v, s : Plane(j, v, s) => nomad'.shared = s
      BY DEF Plane
    <3>2. CASE Sweeps(r) \/ Denames(r)
      <4>1. Unbacked \subseteq marks'
        BY <3>2 DEF Sweeps, Denames, Does, Went, Lost, Noted
      <4>2. ~nomad.shared
        BY <1>1, <4>1 DEF Unbacked
      <4>. QED  BY <3>1, <3>2, <4>2, TableTypes DEF Sweeps, Denames
    <3>3. CASE ~(Sweeps(r) \/ Denames(r))
      BY <2>2, <3>1, <3>3, Touching DEF Purges
    <3>. QED  BY <3>2, <3>3
  <2>5. req'[r].op \notin Volumes /\ ~Half(req'[r]) /\ ~Half(req[r])
    BY <1>3, <1>5, Continuing DEF Volumes
  <2>6. \A q \in Requests : /\ Half(req'[q]) <=> Half(req[q])
                            /\ HalfMade(req'[q]) => HalfMade(req[q])
                            /\ HalfDropped(req'[q]) => HalfDropped(req[q])
                            /\ req'[q].op \in Volumes => req'[q].op = req[q].op
    BY <1>3, <2>5 DEF Half
  <2>. HIDE DEF Half, HalfMade, HalfDropped
  <2>. QED  BY <1>2, <2>3, <2>4, <2>6 DEF Backed, Volumes
<1>. QED  BY <1>4, <1>5

LEMMA BackedOthers ==
  ASSUME Typed, Backed, (\E r : Begins(r)) \/ Launches \/ Detaches \/ Crashes
  PROVE  Backed'
<1>1. ASSUME NEW r, Begins(r) PROVE Backed'
  <2>1. /\ "volume-raced" \in marks <=> "volume-raced" \in marks'
        /\ UNCHANGED <<db, nomad>> /\ r \in Requests
        /\ req'[r].op = "volume-create" =>
             ~db.shared /\ req'[r].todo = <<"volume", "volume-wait", "volume-row">>
        /\ req'[r].op = "volume-delete" =>
             db.shared /\ req'[r].todo = <<"unvolume", "volume-unrow">>
        /\ req[r].op = "new"
    BY <1>1 DEF Begins
  <2>2. \A q \in Requests \ {r} : req'[q] = req[q]
    BY <1>1 DEF Begins, Alone
  <2>3. ~Half(req'[r]) /\ ~HalfMade(req'[r]) /\ ~HalfDropped(req'[r]) /\ ~Half(req[r])
    BY <2>1 DEF Half, HalfMade, HalfDropped
  <2>4. \A q \in Requests : /\ Half(req'[q]) <=> Half(req[q])
                            /\ HalfMade(req'[q]) => HalfMade(req[q])
                            /\ HalfDropped(req'[q]) => HalfDropped(req[q])
    BY <2>2, <2>3
  <2>5. \A q \in Requests \ {r} : req'[q].op = req[q].op
    BY <2>2
  <2>. QED  BY <2>1, <2>4, <2>5 DEF Backed
<1>2. CASE Launches \/ Detaches
  <2>1. UNCHANGED <<db, req, marks>> /\ nomad'.shared = nomad.shared
    BY <1>2 DEF Launches, Detaches, Plane
  <2>. QED  BY <2>1 DEF Backed, Half, HalfMade, HalfDropped
<1>3. CASE Crashes
  BY <1>3 DEF Crashes, Backed
<1>. QED  BY <1>1, <1>2, <1>3
--------------------------------------------------------------------------------
(* The invariant.                                                          *)

LEMMA FirstState ==
  ASSUME Init
  PROVE  Swept /\ Deleted /\ Gone /\ Absent /\ Listed /\ Progress /\ Ready /\ Backed
<1>1. /\ marks = {} /\ \A r \in Requests : req[r].op = "new" /\ req[r].todo = << >>
      /\ InFlight = {}
  BY DEF Init, Idle, InFlight, Over
<1>2. << >> # <<"sync-save">> /\ NoRow.status = "none" /\ NoRow.lib = None
  BY DEF NoRow
<1>3. CASE Empty
  <2>1. row = NoRow /\ db.templates = {} /\ db.shared = FALSE /\ nomad.shared = FALSE
    BY <1>3 DEF Empty
  <2>. QED
    BY <1>1, <1>2, <2>1
       DEF Swept, Deleted, Cleared, Gone, Absent, Listed, Exists, Progress, Makings,
           Ready,
           Backed, Half, HalfMade, HalfDropped
<1>4. ASSUME NEW g \in Groups, NEW f \in Flavors, NEW a \in Subjects, NEW used \in BOOLEAN,
             Founded(g, f, a, used)
      PROVE  /\ Swept /\ Deleted /\ Gone /\ Absent /\ Listed /\ Progress /\ Ready
             /\ Backed
  <2>1. /\ row.status = "ready" /\ row.lib = Founder /\ row.flavors = {f}
        /\ db.templates = {f} /\ db.shared = used /\ nomad.shared = used
        /\ up = Shell \cup Engines /\ lib = Founder
        /\ llm.key = Founder /\ llm.kv = Founder
    BY <1>4 DEF Founded
  <2>2. row # NoRow /\ Founder # None
    BY <1>2, <2>1, ProjectsAssumption
  <2>3. /\ Swept /\ Deleted /\ Gone /\ Absent /\ Progress
    BY <1>1, <2>2 DEF Swept, Deleted, Cleared, Gone, Absent, Progress, Makings
  <2>4. Listed
    BY <1>1, <1>2, <2>1 DEF Listed
  <2>5. Ready
    BY <1>1, <2>1, <2>2 DEF Ready
  <2>6. Backed
    BY <1>1, <2>1 DEF Backed, Half, HalfMade, HalfDropped
  <2>. QED  BY <2>3, <2>4, <2>5, <2>6
<1>. QED  BY <1>3, <1>4 DEF Init

LEMMA Preserved ==
  ASSUME IInv, Next
  PROVE  IInv'
<1>. USE DEF IInv
<1>1. Typed'
  BY TypedNext
<1>2. ASSUME NEW r \in InFlight, Moves(r), Effects(r) PROVE IInv'
  <2>1. Swept' /\ Deleted' /\ Gone' /\ Absent'
    BY <1>2, SweptCalls, DeletedCalls, GoneCalls, AbsentCalls
  <2>2. Listed' /\ Progress' /\ Ready' /\ Backed'
    BY <1>2, ListedCalls, ProgressCalls, ReadyCalls, BackedCalls
  <2>. QED  BY <1>1, <2>1, <2>2
<1>3. CASE (\E r : Begins(r)) \/ Launches \/ Detaches \/ Crashes
  <2>1. Swept' /\ Deleted' /\ Gone' /\ Absent'
    BY <1>3, SweptOthers, DeletedOthers, GoneOthers, AbsentOthers
  <2>2. Listed' /\ Progress' /\ Ready' /\ Backed'
    BY <1>3, ListedOthers, ProgressOthers, ReadyOthers, BackedOthers
  <2>. QED  BY <1>1, <2>1, <2>2
<1>4. \/ \E r \in Requests : Begins(r)
      \/ \E r \in InFlight : Moves(r) /\ Effects(r)
      \/ Launches \/ Detaches \/ Crashes
  BY NextSteps
<1>. QED  BY <1>2, <1>3, <1>4

LEMMA Stuttering ==
  ASSUME IInv, UNCHANGED vars
  PROVE  IInv'
<1>. USE DEF IInv, vars
<1>1. Typed'
  BY TypedNext
<1>2. Swept'
  BY DEF Swept
<1>3. Deleted'
  BY DEF Deleted, Cleared
<1>4. Gone' /\ Absent'
  BY DEF Gone, Absent, InFlight
<1>5. Listed' /\ Progress'
  BY DEF Listed, Exists, Progress
<1>6. Ready'
  BY DEF Ready, Exists, Rekeying
<1>7. Backed'
  BY DEF Backed, Half, HalfMade, HalfDropped
<1>. QED  BY <1>1, <1>2, <1>3, <1>4, <1>5, <1>6, <1>7

\* The inductive invariant holds.
THEOREM InvariantHolds == Spec => []IInv
<1>1. Init => IInv
  BY TypedInit, FirstState DEF IInv
<1>2. IInv /\ [Next]_vars => IInv'
  BY Preserved, Stuttering
<1>. QED  BY <1>1, <1>2, PTL DEF Spec

--------------------------------------------------------------------------------
(* What the runs check, for every instance.                                *)

LEMMA QuietIsOver ==
  ASSUME Quiet
  PROVE  \A r \in Requests : req[r].op \in Over
BY DEF Quiet, InFlight

\* Every variable keeps its type.
THEOREM TypeCorrect == Spec => []TypeOK
<1>1. IInv => TypeOK
  BY DEF IInv, Typed
<1>. QED  BY <1>1, InvariantHolds, PTL

\* The row of a deleted project goes last: whatever failed and was tried again,
\* after it the project has no namespace, mount, policy, scope or running job, no
\* key in Vault, and no template, role or capability.  Its home volumes may be
\* left as orphans, the rows of its shared volumes stay, and the gateway keeps a
\* key whose deletion failed.  Excepted are operations that overlap, and a crash.
\* (DeleteProject)
THEOREM DeletesAreComplete == Spec => []DeleteIsComplete
<1>1. IInv => DeleteIsComplete
  BY DEF IInv, Gone, DeleteIsComplete, Calm
<1>. QED  BY <1>1, InvariantHolds, PTL

\* The flavors users may launch are the project's templates.  Excepted are a
\* descriptor written back over a newer one, a failed sync, a project that was
\* created again, and a failed delete that is provisioned over.
\* (syncDescriptorFlavors, and every writer of the descriptor)
THEOREM FlavorsAreTemplates == Spec => []FlavorsFollowTemplates
<1>1. IInv => FlavorsFollowTemplates
  BY QuietIsOver DEF IInv, Listed, FlavorsFollowTemplates, Calm, Over
<1>. QED  BY <1>1, InvariantHolds, PTL

\* A project that is shown as ready with a library has all a workspace needs, also
\* after provisionings that failed and recorded it.  Excepted are a crash and a
\* failed read or write of that record, overlapping provisionings, creations and
\* deletes, a descriptor written back over a newer one, and a project that a
\* failed delete has left in part and a provisioning shows as ready again.
\* (provision, failf, DeleteProject)
THEOREM ReadyIsProvisioned == Spec => []ReadyMeansProvisioned
<1>1. NoRow.status = "none"
  BY DEF NoRow
<1>2. IInv => ReadyMeansProvisioned
  BY <1>1, QuietIsOver
     DEF IInv, Ready, ReadyMeansProvisioned, Calm, Over, Exists, Rekeying, Makings
<1>. QED  BY <1>2, InvariantHolds, PTL

\* A shared volume that can be chosen exists, and one that exists can be seen.
\* Excepted are overlapping operations on it, a call that fails between its two
\* halves, a crash, and the delete of its project. (sharedvolume Create, Delete)
THEOREM SharedVolumesAreBacked == Spec => []SharedVolumeBacked
<1>1. IInv => SharedVolumeBacked
  BY QuietIsOver
     DEF IInv, Backed, SharedVolumeBacked, Calm, Over, Half, HalfMade, HalfDropped
<1>. QED  BY <1>1, InvariantHolds, PTL

LEMMA SweptBefore ==
  ASSUME NEW s \in Seq(Steps), s # << >>, Suffix(s, DeletePlan), Head(s) = "un-nomad-ns"
  PROVE  "volumes" \notin Left(s)
<1>1. DeletePlan \in Seq(Steps) /\ Len(DeletePlan) = 12
  BY PlansAreSteps, DeleteSpots
<1>2. \E k \in 0 .. Len(DeletePlan) - 1 :
        /\ Len(s) = Len(DeletePlan) - k /\ Head(s) = DeletePlan[1 + k]
        /\ Tail(s) = << >> <=> k = Len(DeletePlan) - 1
        /\ Left(s) = {DeletePlan[1 + j] : j \in k .. Len(DeletePlan) - 1}
        /\ Left(Tail(s)) = {DeletePlan[1 + j] : j \in (k + 1) .. Len(DeletePlan) - 1}
  BY <1>1, Spread
<1>3. PICK k \in 0 .. 11 : /\ Head(s) = DeletePlan[1 + k]
                           /\ Left(s) = {DeletePlan[1 + j] : j \in k .. 11}
  <2>1. Len(DeletePlan) - 1 = 11
    BY <1>1
  <2>. QED  BY <1>2, <2>1
<1>4. k = 2
  BY <1>3, DeleteSpots
<1>5. \A j \in k .. 11 : DeletePlan[1 + j] # "volumes"
  BY <1>4, DeleteSpots
<1>. QED  BY <1>3, <1>5

\* A namespace is only deleted over a volume by a delete that could not sweep
\* it, or that overlapped another operation.  (DeleteProject)
THEOREM NoDataOrphaned == Spec => NoVolumeOrphaned
<1>. DEFINE A == nomad'.volume = "orphaned" /\ nomad.volume # "orphaned" =>
         \/ \E r \in InFlight : req[r].op = "delete" /\ req[r].failed /\ ~req[r].swept
         \/ "raced" \in marks'
<1>1. ASSUME IInv, [Next]_vars PROVE A
  <2>1. SUFFICES ASSUME nomad'.volume = "orphaned", nomad.volume # "orphaned",
                        "raced" \notin marks'
                 PROVE  \E r \in InFlight :
                          req[r].op = "delete" /\ req[r].failed /\ ~req[r].swept
    OBVIOUS
  <2>2. \A j, v, s : Plane(j, v, s) => nomad'.volume = v
    BY DEF Plane
  <2>3. PICK r \in InFlight : Moves(r) /\ Effects(r)
    <3>1. ~Launches /\ ~Detaches
      BY <2>1, <2>2 DEF Launches, Detaches
    <3>2. nomad' # nomad
      BY <2>1
    <3>. QED  BY <1>1, <3>1, <3>2, NextSteps DEF IInv, vars, Begins, Crashes
  <2>4. Typed /\ Swept /\ "raced" \notin marks
    BY <1>1, <2>1, <2>3, Noting DEF IInv
  <2>5. Denames(r)
    BY <2>1, <2>3, <2>4, Planes
  <2>6. Step(r) = "un-nomad-ns" /\ ~nomad.job /\ nomad.volume # "none"
    BY <2>1, <2>2, <2>5 DEF Denames
  <2>7. Clearing(req[r])
    BY <2>4, <2>6, RequestFits, Heads DEF Step, Deleting
  <2>8. req[r].op = "delete" /\ r \in Requests /\ "volumes" \notin Left(req[r].todo)
    BY <2>4, <2>6, <2>7, RequestFits, SweptBefore DEF Clearing, Step
  <2>. QED  BY <2>1, <2>4, <2>6, <2>8 DEF Swept
<1>. QED  BY <1>1, InvariantHolds, PTL DEF Spec, NoVolumeOrphaned
=============================================================================
