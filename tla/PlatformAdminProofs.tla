--------------------------- MODULE PlatformAdminProofs ---------------------------
(***************************************************************************)
(* Proofs about PlatformAdmin, for any requests, sources, agents and       *)
(* add-ons and any bounds.                                                 *)
(***************************************************************************)
EXTENDS PlatformAdmin, TLAPS

--------------------------------------------------------------------------------
(* The inductive invariant                                                 *)

OnModels  == {"onboard", "test", "publish", "delete"}
OnBases   == {"draft", "release"}
OnFlavors == {"create", "update", "addons"}
Ops       == Over \cup OnModels \cup OnBases \cup OnFlavors

\* What a request of each kind may have left to do.
Plans(op) ==
  CASE op \in Over -> {<< >>}
    [] op = "onboard" -> {<<"add", "resolve", "save">>, <<"resolve", "save">>, <<"save">>}
    [] op = "test" -> {TestPlan, <<"ping", "unkey", "recheck", "save", "unkey">>,
                       <<"unkey", "recheck", "save", "unkey">>,
                       <<"recheck", "save", "unkey">>, <<"save", "unkey">>, <<"unkey">>}
    [] op = "delete" -> {<<"unadd", "drop">>, <<"drop">>}
    [] op = "publish" -> {<<"save">>}
    [] op \in OnBases -> {<<"save-base">>}
    [] OTHER -> {<<"save-flavor">>}

\* A base that shows as published has no draft waiting.
Settled(b) == b \in Bases /\ (b.status = "published" => b.draft = b.published)

\* What a request holds suits what it does.
Askings == [op : Ops, model : Models \cup {NoModel}, base : Bases \cup {<< >>},
            flavor : Flavors \cup {NoFlavor}, answered : Deployments \cup {None},
            todo : UNION {Plans(op) : op \in Ops}]

Fits(a) ==
  /\ a \in Askings /\ a.todo \in Plans(a.op)
  /\ a.op \in OnModels => a.model \in Models
  /\ a.op \in OnBases => Settled(a.base)
  /\ a.op \in OnFlavors => a.flavor \in Flavors

Typed ==
  /\ PlatformTypeOK
  /\ asked \in [Requests -> Askings]
  /\ \A r \in Requests : Fits(asked[r])

\* An onboarding that has added its deployment.
PastAdd(a) == a.op = "onboard" /\ a.todo # <<"add", "resolve", "save">>

\* Without a race the one deployment is that of the row, or of the onboarding
\* that is to save it; and what is at work on the row knows its deployment.
Modelled == notes \cap {"raced", "doubled"} = {} =>
  /\ model # NoModel =>
       /\ gateway.serves \subseteq {model.backend}
       /\ model.id \in {None, model.backend} /\ model.answered \in {None, model.backend}
  /\ \A r \in Requests :
       /\ PastAdd(asked[r]) => model = NoModel /\ gateway.serves \subseteq {r}
       /\ asked[r].op = "onboard" =>
            /\ asked[r].model.backend = r /\ asked[r].model.id \in {None, r}
            /\ asked[r].model.status = "draft" /\ asked[r].model.answered = None
       /\ asked[r].op \in {"test", "publish", "delete"} =>
            /\ model # NoModel
            /\ asked[r].model.backend = model.backend /\ asked[r].model.id = model.id
            /\ {asked[r].model.answered, asked[r].answered} \subseteq {None, model.backend}
       /\ asked[r].op = "publish" =>
            asked[r].model.answered # None /\ asked[r].model.status = "published"
       /\ asked[r].op = "test" /\ asked[r].model.status = "published" =>
            model.status = "published"

\* A key there is belongs to a test that will still revoke it.
Keyed == "torn" \notin notes /\ gateway.key # None =>
  asked[gateway.key].op = "test" /\ asked[gateway.key].todo # TestPlan

Dropping(a) == a.op = "delete" /\ a.todo = <<"drop">>

\* When nothing went wrong, row and deployment come and go together, but for the
\* onboarding or the delete that is between the two.
Served == notes \cap {"raced", "torn", "doubled"} = {} =>
  /\ model # NoModel =>
       /\ model.id # None
       /\ gateway.serves # {} \/ \E r \in Requests : Dropping(asked[r])
  /\ model = NoModel /\ gateway.serves # {} => \E r \in Requests : PastAdd(asked[r])
  /\ \A r \in Requests :
       /\ PastAdd(asked[r]) => gateway.serves # {}
       /\ PastAdd(asked[r]) /\ asked[r].todo = <<"save">> => asked[r].model.id # None
       /\ Dropping(asked[r]) => gateway.serves = {}

\* A template is launched from a source that was released under its version.
Baked(f) ==
  /\ <<f.version, f.baked>> \in releases
  /\ f.rendered = Inject(f.baked, f.addons, f.agent)

\* Without a race, what is at work on the base has read its present version, and
\* an update keeps the add-ons last chosen.
Based ==
  /\ <<base.version, base.published>> \in releases
  /\ flavor # NoFlavor => Baked(flavor)
  /\ \A r \in Requests : asked[r].op \in OnFlavors => Baked(asked[r].flavor)
  /\ "raced" \notin notes =>
       /\ \A p, q \in releases : p[1] = q[1] => p[2] = q[2]
       /\ \A p \in releases : p[1] <= base.version
       /\ flavor # NoFlavor => flavor.addons = wanted
       /\ \A r \in Requests :
            /\ asked[r].op = "draft" =>
                 asked[r].base.version = base.version
                   /\ asked[r].base.published = base.published
            /\ asked[r].op = "release" => asked[r].base.version = base.version + 1
            /\ asked[r].op = "update" => asked[r].flavor.addons = wanted

IInv == Typed /\ Modelled /\ Keyed /\ Served /\ Based


--------------------------------------------------------------------------------
(* The steps of the plans                                                  *)

LEMMA Onboarding ==
  /\ Head(<<"add", "resolve", "save">>) = "add"
  /\ Tail(<<"add", "resolve", "save">>) = <<"resolve", "save">>
  /\ Len(<<"add", "resolve", "save">>) = 3
  /\ Head(<<"resolve", "save">>) = "resolve"
  /\ Tail(<<"resolve", "save">>) = <<"save">>
  /\ Len(<<"resolve", "save">>) = 2
OBVIOUS

LEMMA Testing ==
  /\ Head(TestPlan) = "key" /\ Len(TestPlan) = 6
  /\ Tail(TestPlan) = <<"ping", "unkey", "recheck", "save", "unkey">>
  /\ Head(<<"ping", "unkey", "recheck", "save", "unkey">>) = "ping"
  /\ Len(<<"ping", "unkey", "recheck", "save", "unkey">>) = 5
  /\ Tail(<<"ping", "unkey", "recheck", "save", "unkey">>) =
       <<"unkey", "recheck", "save", "unkey">>
  /\ Head(<<"unkey", "recheck", "save", "unkey">>) = "unkey"
  /\ Len(<<"unkey", "recheck", "save", "unkey">>) = 4
  /\ Tail(<<"unkey", "recheck", "save", "unkey">>) = <<"recheck", "save", "unkey">>
  /\ Head(<<"recheck", "save", "unkey">>) = "recheck"
  /\ Len(<<"recheck", "save", "unkey">>) = 3
  /\ Tail(<<"recheck", "save", "unkey">>) = <<"save", "unkey">>
  /\ Head(<<"save", "unkey">>) = "save"
  /\ Len(<<"save", "unkey">>) = 2
  /\ Tail(<<"save", "unkey">>) = <<"unkey">>
BY DEF TestPlan

LEMMA Deleting ==
  /\ Head(<<"unadd", "drop">>) = "unadd"
  /\ Tail(<<"unadd", "drop">>) = <<"drop">>
  /\ Len(<<"unadd", "drop">>) = 2
OBVIOUS

LEMMA LastSteps == \A s \in {"save", "unkey", "drop", "save-base", "save-flavor"} :
  Head(<<s>>) = s /\ Tail(<<s>>) = << >> /\ Len(<<s>>) = 1 /\ <<s>> # << >>
OBVIOUS

\* A plan, case by case.
LEMMA PlansListed ==
  ASSUME NEW op \in Ops, NEW todo \in Plans(op), todo # << >>
  PROVE  \/ op = "onboard" /\ todo \in {<<"add", "resolve", "save">>,
                                       <<"resolve", "save">>, <<"save">>}
         \/ op = "test" /\ todo \in {TestPlan,
              <<"ping", "unkey", "recheck", "save", "unkey">>,
              <<"unkey", "recheck", "save", "unkey">>, <<"recheck", "save", "unkey">>,
              <<"save", "unkey">>, <<"unkey">>}
         \/ op = "delete" /\ todo \in {<<"unadd", "drop">>, <<"drop">>}
         \/ op = "publish" /\ todo = <<"save">>
         \/ op \in OnBases /\ todo = <<"save-base">>
         \/ op \in OnFlavors /\ todo = <<"save-flavor">>
BY DEF Plans, Ops, Over, OnModels, OnBases, OnFlavors

\* The next step tells the operation and what is left of it.
LEMMA Heads ==
  ASSUME NEW op \in Ops, NEW todo \in Plans(op), todo # << >>, NEW h, h = Head(todo)
  PROVE  /\ h = "add" => op = "onboard" /\ todo = <<"add", "resolve", "save">>
         /\ h = "resolve" => op = "onboard" /\ todo = <<"resolve", "save">>
         /\ h = "save" => \/ op \in {"onboard", "publish"} /\ todo = <<"save">>
                          \/ op = "test" /\ todo = <<"save", "unkey">>
         /\ h = "key" => op = "test" /\ todo = TestPlan
         /\ h = "ping" =>
              op = "test" /\ todo = <<"ping", "unkey", "recheck", "save", "unkey">>
         /\ h = "unkey" => /\ op = "test"
                           /\ \/ todo = <<"unkey", "recheck", "save", "unkey">>
                              \/ todo = <<"unkey">>
         /\ h = "recheck" => op = "test" /\ todo = <<"recheck", "save", "unkey">>
         /\ h = "unadd" => op = "delete" /\ todo = <<"unadd", "drop">>
         /\ h = "drop" => op = "delete" /\ todo = <<"drop">>
         /\ h = "save-base" => op \in OnBases /\ todo = <<"save-base">>
         /\ h = "save-flavor" => op \in OnFlavors /\ todo = <<"save-flavor">>
         /\ h \in {"add", "resolve", "save", "key", "ping", "unkey", "recheck", "unadd",
                   "drop", "save-base", "save-flavor"}
<1>1. CASE op = "onboard"
  BY <1>1, PlansListed, Onboarding, LastSteps DEF OnBases, OnFlavors
<1>2. CASE op = "test"
  BY <1>2, PlansListed, Testing, LastSteps DEF OnBases, OnFlavors
<1>3. CASE op = "delete"
  BY <1>3, PlansListed, Deleting, LastSteps DEF OnBases, OnFlavors
<1>4. CASE op \in {"publish"} \cup OnBases \cup OnFlavors
  BY <1>4, PlansListed, LastSteps DEF OnBases, OnFlavors
<1>. QED
  BY <1>1, <1>2, <1>3, <1>4, PlansListed

--------------------------------------------------------------------------------
(* What a step does to a request                                           *)

\* Request r becomes a, a race is noted, and nothing noted is forgotten.
Stepped(r, a) ==
  /\ asked' = [asked EXCEPT ![r] = a]
  /\ notes \cup Clashing(r) \subseteq notes'
  /\ notes' \subseteq {"raced", "torn", "doubled"}
  /\ failures' \in 0 .. MaxFaults

\* The request with `todo` left to do.
Onward(a, todo) == IF todo = << >> THEN Unused("over") ELSE [a EXCEPT !.todo = todo]

LEMMA DoneSteps ==
  ASSUME MaxFaults \in Nat, Typed, NEW r \in Pending, NEW new \in Askings, NEW come,
         DoneAs(r, new, come), new.todo = asked[r].todo,
         come \subseteq {"raced", "torn", "doubled"}
  PROVE  /\ come \subseteq notes'
         /\ \/ Stepped(r, Onward(new, Tail(asked[r].todo)))
            \/ /\ Stepped(r, Onward(asked[r], Remaining(r, Head(asked[r].todo))))
               /\ Unrepaired(r, Head(asked[r].todo), TRUE) => "torn" \in notes'
<1>1. Clashing(r) \subseteq {"raced"}
  BY DEF Clashing
<1>2. notes \subseteq {"raced", "torn", "doubled"} /\ failures \in 0 .. MaxFaults
  BY DEF Typed, PlatformTypeOK
<1>3. CASE Become(r, [new EXCEPT !.todo = Tail(@)])
           /\ notes' = notes \cup Clashing(r) \cup come /\ UNCHANGED failures
  <2>1. asked' = [asked EXCEPT ![r] = Onward(new, Tail(asked[r].todo))]
    <3>1. CASE Tail(asked[r].todo) = << >>
      <4>1. [new EXCEPT !.todo = Tail(@)].todo = << >>
        BY <3>1 DEF Askings
      <4>. QED  BY <1>3, <3>1, <4>1 DEF Become, Onward
    <3>2. CASE Tail(asked[r].todo) # << >>
      BY <1>3, <3>2 DEF Become, Onward
    <3>. QED  BY <3>1, <3>2
  <2>. QED  BY <2>1, <1>1, <1>2, <1>3 DEF Stepped
<1>4. CASE /\ Fault
           /\ Become(r, [asked[r] EXCEPT !.todo = Remaining(r, Head(@))])
           /\ notes' = notes \cup Clashing(r) \cup come
                \cup (IF Unrepaired(r, Head(asked[r].todo), TRUE) THEN {"torn"} ELSE {})
  <2>1. asked' = [asked EXCEPT ![r] =
                    Onward(asked[r], Remaining(r, Head(asked[r].todo)))]
    BY <1>4 DEF Become, Onward, Typed, Fits, Askings, Pending
  <2>2. failures' \in 0 .. MaxFaults
    BY <1>2, <1>4 DEF Fault
  <2>. QED  BY <2>1, <2>2, <1>1, <1>2, <1>4 DEF Stepped
<1>. QED
  BY <1>3, <1>4 DEF DoneAs

LEMMA FailedSteps ==
  ASSUME MaxFaults \in Nat, Typed, NEW r \in Pending, Fails(r, FALSE),
         failures' = failures \/ Fault
  PROVE  /\ Stepped(r, Onward(asked[r], Remaining(r, Head(asked[r].todo))))
         /\ Unrepaired(r, Head(asked[r].todo), FALSE) => "torn" \in notes'
<1>1. Clashing(r) \subseteq {"raced"}
  BY DEF Clashing
<1>2. notes \subseteq {"raced", "torn", "doubled"} /\ failures \in 0 .. MaxFaults
  BY DEF Typed, PlatformTypeOK
<1>3. failures' \in 0 .. MaxFaults
  BY <1>2 DEF Fault
<1>4. asked' = [asked EXCEPT ![r] =
                  Onward(asked[r], Remaining(r, Head(asked[r].todo)))]
  BY DEF Fails, Become, Onward, Typed, Fits, Askings, Pending
<1>. QED  BY <1>1, <1>2, <1>3, <1>4 DEF Stepped, Fails


\* What is left to do after a step that is done, and after one that fails.
LEMMA Sequels ==
  ASSUME Typed, NEW r \in Pending, NEW h, At(r, h)
  PROVE  LET a == asked[r]
             left == Tail(asked[r].todo)
             rest == Remaining(r, Head(asked[r].todo)) IN
         /\ h = "add" => /\ a.op = "onboard" /\ a.todo = <<"add", "resolve", "save">>
                         /\ left = <<"resolve", "save">> /\ rest = << >>
         /\ h = "resolve" => /\ a.op = "onboard" /\ a.todo = <<"resolve", "save">>
                             /\ left = <<"save">> /\ rest = <<"save">>
         /\ h = "save" =>
              \/ /\ a.op \in {"onboard", "publish"} /\ a.todo = <<"save">>
                 /\ left = << >> /\ rest = << >>
              \/ /\ a.op = "test" /\ a.todo = <<"save", "unkey">>
                 /\ left = <<"unkey">> /\ rest = <<"unkey">>
         /\ h = "key" =>
              /\ a.op = "test" /\ a.todo = TestPlan /\ rest = << >>
              /\ left = <<"ping", "unkey", "recheck", "save", "unkey">>
         /\ h = "ping" =>
              /\ a.op = "test" /\ a.todo = <<"ping", "unkey", "recheck", "save", "unkey">>
              /\ left = <<"unkey", "recheck", "save", "unkey">> /\ rest = <<"unkey">>
         /\ h = "unkey" =>
              /\ a.op = "test"
              /\ \/ /\ a.todo = <<"unkey", "recheck", "save", "unkey">> /\ ~Last(r)
                    /\ left = <<"recheck", "save", "unkey">> /\ rest = <<"save", "unkey">>
                 \/ a.todo = <<"unkey">> /\ Last(r) /\ left = << >> /\ rest = << >>
         /\ h = "recheck" =>
              /\ a.op = "test" /\ a.todo = <<"recheck", "save", "unkey">>
              /\ left = <<"save", "unkey">> /\ rest = <<"save", "unkey">>
         /\ h = "unadd" => /\ a.op = "delete" /\ a.todo = <<"unadd", "drop">>
                           /\ left = <<"drop">> /\ rest = <<"drop">>
         /\ h = "drop" => /\ a.op = "delete" /\ a.todo = <<"drop">>
                          /\ left = << >> /\ rest = << >>
         /\ h = "save-base" => a.op \in OnBases /\ left = << >> /\ rest = << >>
         /\ h = "save-flavor" => a.op \in OnFlavors /\ left = << >> /\ rest = << >>
<1>1. /\ asked[r].op \in Ops /\ asked[r].todo \in Plans(asked[r].op)
      /\ asked[r].todo # << >> /\ h = Head(asked[r].todo)
  BY DEF Typed, Fits, Askings, At, Pending

<1>3. CASE h = "add"
  <2>1. asked[r].op = "onboard" /\ asked[r].todo = <<"add", "resolve", "save">>
    BY <1>1, <1>3, Heads
  <2>2. Tail(asked[r].todo) = <<"resolve", "save">>
    BY <2>1, Onboarding
  <2>3. Remaining(r, "add") = << >>
    BY <2>1, <2>2 DEF Remaining
  <2>. QED  BY <1>1, <1>3, <2>1, <2>2, <2>3
<1>4. CASE h = "resolve"
  <2>1. asked[r].op = "onboard" /\ asked[r].todo = <<"resolve", "save">>
    BY <1>1, <1>4, Heads
  <2>2. Tail(asked[r].todo) = <<"save">>
    BY <2>1, Onboarding
  <2>3. Remaining(r, "resolve") = <<"save">>
    BY <2>1, <2>2 DEF Remaining
  <2>. QED  BY <1>1, <1>4, <2>1, <2>2, <2>3
<1>5. CASE h = "save"
  <2>1. \/ asked[r].op \in {"onboard", "publish"} /\ asked[r].todo = <<"save">>
        \/ asked[r].op = "test" /\ asked[r].todo = <<"save", "unkey">>
    BY <1>1, <1>5, Heads
  <2>2. CASE asked[r].op \in {"onboard", "publish"} /\ asked[r].todo = <<"save">>
    <3>1. Tail(asked[r].todo) = << >>
      BY <2>2, Testing, LastSteps
    <3>2. Remaining(r, "save") = << >>
      BY <2>2, <3>1 DEF Remaining
    <3>. QED  BY <1>1, <1>5, <2>2, <3>1, <3>2
  <2>3. CASE asked[r].op = "test" /\ asked[r].todo = <<"save", "unkey">>
    <3>1. Tail(asked[r].todo) = <<"unkey">>
      BY <2>3, Testing, LastSteps
    <3>2. Remaining(r, "save") = <<"unkey">>
      BY <2>3, <3>1 DEF Remaining
    <3>. QED  BY <1>1, <1>5, <2>3, <3>1, <3>2
  <2>. QED  BY <2>1, <2>2, <2>3
<1>6. CASE h = "key"
  <2>1. asked[r].op = "test" /\ asked[r].todo = TestPlan
    BY <1>1, <1>6, Heads
  <2>2. Tail(asked[r].todo) = <<"ping", "unkey", "recheck", "save", "unkey">>
    BY <2>1, Testing
  <2>3. Remaining(r, "key") = << >>
    BY <2>1, <2>2 DEF Remaining
  <2>. QED  BY <1>1, <1>6, <2>1, <2>2, <2>3
<1>7. CASE h = "ping"
  <2>1. asked[r].op = "test" /\ asked[r].todo = <<"ping", "unkey", "recheck", "save", "unkey">>
    BY <1>1, <1>7, Heads
  <2>2. Tail(asked[r].todo) = <<"unkey", "recheck", "save", "unkey">>
    BY <2>1, Testing
  <2>3. Remaining(r, "ping") = <<"unkey">>
    BY <2>1, <2>2 DEF Remaining
  <2>. QED  BY <1>1, <1>7, <2>1, <2>2, <2>3
<1>8. CASE h = "unkey"
  <2>1. \/ asked[r].op = "test" /\ asked[r].todo = <<"unkey", "recheck", "save", "unkey">>
        \/ asked[r].op = "test" /\ asked[r].todo = <<"unkey">>
    BY <1>1, <1>8, Heads
  <2>2. CASE asked[r].op = "test" /\ asked[r].todo = <<"unkey", "recheck", "save", "unkey">>
    <3>1. Tail(asked[r].todo) = <<"recheck", "save", "unkey">> /\ ~Last(r)
      BY <2>2, Testing, LastSteps DEF Last
    <3>2. Remaining(r, "unkey") = <<"save", "unkey">>
      BY <2>2, <3>1 DEF Remaining
    <3>. QED  BY <1>1, <1>8, <2>2, <3>1, <3>2
  <2>3. CASE asked[r].op = "test" /\ asked[r].todo = <<"unkey">>
    <3>1. Tail(asked[r].todo) = << >> /\ Last(r)
      BY <2>3, Testing, LastSteps DEF Last
    <3>2. Remaining(r, "unkey") = << >>
      BY <2>3, <3>1 DEF Remaining
    <3>. QED  BY <1>1, <1>8, <2>3, <3>1, <3>2
  <2>. QED  BY <2>1, <2>2, <2>3
<1>9. CASE h = "recheck"
  <2>1. asked[r].op = "test" /\ asked[r].todo = <<"recheck", "save", "unkey">>
    BY <1>1, <1>9, Heads
  <2>2. Tail(asked[r].todo) = <<"save", "unkey">>
    BY <2>1, Testing
  <2>3. Remaining(r, "recheck") = <<"save", "unkey">>
    BY <2>1, <2>2 DEF Remaining
  <2>. QED  BY <1>1, <1>9, <2>1, <2>2, <2>3
<1>10. CASE h = "unadd"
  <2>1. asked[r].op = "delete" /\ asked[r].todo = <<"unadd", "drop">>
    BY <1>1, <1>10, Heads
  <2>2. Tail(asked[r].todo) = <<"drop">>
    BY <2>1, Deleting
  <2>3. Remaining(r, "unadd") = <<"drop">>
    BY <2>1, <2>2 DEF Remaining
  <2>. QED  BY <1>1, <1>10, <2>1, <2>2, <2>3
<1>11. CASE h = "drop"
  <2>1. asked[r].op = "delete" /\ asked[r].todo = <<"drop">>
    BY <1>1, <1>11, Heads
  <2>2. Tail(asked[r].todo) = << >>
    BY <2>1, LastSteps
  <2>3. Remaining(r, "drop") = << >>
    BY <2>1, <2>2 DEF Remaining
  <2>. QED  BY <1>1, <1>11, <2>1, <2>2, <2>3
<1>12. CASE h = "save-base"
  <2>1. asked[r].op \in OnBases /\ asked[r].todo = <<"save-base">>
    BY <1>1, <1>12, Heads
  <2>2. Tail(asked[r].todo) = << >>
    BY <2>1, LastSteps
  <2>3. Remaining(r, "save-base") = << >>
    BY <2>1, <2>2 DEF Remaining
  <2>. QED  BY <1>1, <1>12, <2>1, <2>2, <2>3
<1>13. CASE h = "save-flavor"
  <2>1. asked[r].op \in OnFlavors /\ asked[r].todo = <<"save-flavor">>
    BY <1>1, <1>13, Heads
  <2>2. Tail(asked[r].todo) = << >>
    BY <2>1, LastSteps
  <2>3. Remaining(r, "save-flavor") = << >>
    BY <2>1, <2>2 DEF Remaining
  <2>. QED  BY <1>1, <1>13, <2>1, <2>2, <2>3
<1>. QED
  BY <1>3, <1>4, <1>5, <1>6, <1>7, <1>8, <1>9, <1>10, <1>11, <1>12, <1>13, <1>1, Heads

--------------------------------------------------------------------------------
(* The effect of each step                                                 *)

LEMMA AddSteps ==
  ASSUME MaxFaults \in Nat, Typed, NEW r \in Pending, AddModel(r)
  PROVE  /\ asked[r].op = "onboard" /\ asked[r].todo = <<"add", "resolve", "save">>
         /\ gateway' = [gateway EXCEPT !.serves = @ \cup {r}] /\ UNCHANGED model /\ OnModel
         /\ gateway.serves # {} \/ model # NoModel => "doubled" \in notes'
         /\ \/ Stepped(r, [asked[r] EXCEPT !.todo = <<"resolve", "save">>])
            \/ Stepped(r, Unused("over")) /\ "torn" \in notes'
<1>1. At(r, "add") /\ asked[r] \in Askings /\ Head(asked[r].todo) = "add"
  BY DEF AddModel, At, Typed, Pending
<1>2. Unrepaired(r, "add", TRUE)
  BY DEF Unrepaired
<1>3. /\ asked[r].op = "onboard" /\ asked[r].todo = <<"add", "resolve", "save">>
      /\ Tail(asked[r].todo) = <<"resolve", "save">> /\ Remaining(r, "add") = << >>
  BY <1>1, Sequels
<1>4. PICK come \in SUBSET {"raced", "torn", "doubled"} :
        /\ gateway.serves # {} \/ model # NoModel => "doubled" \in come
        /\ DoneAs(r, asked[r], come)
  BY DEF AddModel
<1>5. Onward(asked[r], <<"resolve", "save">>) =
        [asked[r] EXCEPT !.todo = <<"resolve", "save">>]
      /\ Onward(asked[r], << >>) = Unused("over")
  BY DEF Onward
<1>6. /\ come \subseteq notes'
      /\ \/ Stepped(r, Onward(asked[r], <<"resolve", "save">>))
         \/ Stepped(r, Onward(asked[r], << >>)) /\ "torn" \in notes'
  BY <1>1, <1>2, <1>3, <1>4, DoneSteps
<1>. QED  BY <1>3, <1>4, <1>5, <1>6 DEF AddModel

LEMMA ResolveSteps ==
  ASSUME MaxFaults \in Nat, Typed, NEW r \in Pending, ResolveLiteLLMID(r)
  PROVE  /\ asked[r].op = "onboard" /\ asked[r].todo = <<"resolve", "save">>
         /\ UNCHANGED <<model, gateway>> /\ OnModel
         /\ \/ \E id \in gateway.serves :
                 Stepped(r, [asked[r] EXCEPT !.model.id = id, !.todo = <<"save">>])
            \/ Stepped(r, [asked[r] EXCEPT !.todo = <<"save">>]) /\ "torn" \in notes'
<1>1. At(r, "resolve") /\ asked[r] \in Askings /\ Head(asked[r].todo) = "resolve"
  BY DEF ResolveLiteLLMID, At, Typed, Pending
<1>2. Unrepaired(r, "resolve", TRUE) /\ Unrepaired(r, "resolve", FALSE)
  BY DEF Unrepaired
<1>3. CASE Refused(r)
  <2>1. Remaining(r, "resolve") = <<"save">>
    BY <1>1, Sequels
  <2>2. Stepped(r, Onward(asked[r], <<"save">>)) /\ "torn" \in notes'
    BY <1>1, <1>2, <1>3, <2>1, FailedSteps DEF Refused
  <2>3. Stepped(r, [asked[r] EXCEPT !.todo = <<"save">>]) /\ "torn" \in notes'
    BY <2>2, LastSteps DEF Onward
  <2>. QED  BY <1>1, <2>3, Sequels DEF ResolveLiteLLMID
<1>4. ASSUME NEW id \in gateway.serves, DoneAs(r, [asked[r] EXCEPT !.model.id = id], {})
      PROVE  \/ Stepped(r, [asked[r] EXCEPT !.model.id = id, !.todo = <<"save">>])
             \/ Stepped(r, [asked[r] EXCEPT !.todo = <<"save">>]) /\ "torn" \in notes'
  <2>1. asked[r].model \in Models /\ id \in Deployments
    BY <1>1, Sequels DEF Typed, Fits, PlatformTypeOK, OnModels, Pending
  <2>2. [asked[r] EXCEPT !.model.id = id] \in Askings
        /\ [asked[r] EXCEPT !.model.id = id].todo = asked[r].todo
    BY <1>1, <2>1 DEF Askings, Models
  <2>. HIDE DEF Askings
  <2>3. PICK new \in Askings : new = [asked[r] EXCEPT !.model.id = id]
                               /\ new.todo = asked[r].todo /\ DoneAs(r, new, {})
    BY <2>2, <1>4
  <2>4. \/ Stepped(r, Onward(new, <<"save">>))
        \/ Stepped(r, Onward(asked[r], <<"save">>)) /\ "torn" \in notes'
    BY <1>1, <1>2, <2>3, Sequels, DoneSteps
  <2>5. Onward(new, <<"save">>) = [asked[r] EXCEPT !.model.id = id, !.todo = <<"save">>]
        /\ Onward(asked[r], <<"save">>) = [asked[r] EXCEPT !.todo = <<"save">>]
    BY <2>3, LastSteps DEF Onward
  <2>. QED  BY <2>4, <2>5
<1>. QED  BY <1>1, <1>3, <1>4, Sequels DEF ResolveLiteLLMID

LEMMA SaveSteps ==
  ASSUME MaxFaults \in Nat, Typed, NEW r \in Pending, UpsertLLMModel(r)
  PROVE  /\ model' = asked[r].model /\ UNCHANGED gateway /\ OnModel
         /\ \/ /\ asked[r].op \in {"onboard", "publish"} /\ asked[r].todo = <<"save">>
               /\ Stepped(r, Unused("over"))
            \/ /\ asked[r].op = "test" /\ asked[r].todo = <<"save", "unkey">>
               /\ Stepped(r, [asked[r] EXCEPT !.todo = <<"unkey">>])
<1>1. At(r, "save") /\ asked[r] \in Askings /\ Head(asked[r].todo) = "save"
  BY DEF UpsertLLMModel, At, Typed, Pending
<1>. QED  BY <1>1, Sequels, DoneSteps, LastSteps DEF UpsertLLMModel, Done, Onward

LEMMA UnaddSteps ==
  ASSUME MaxFaults \in Nat, Typed, NEW r \in Pending, DeleteModel(r)
  PROVE  /\ asked[r].op = "delete" /\ asked[r].todo = <<"unadd", "drop">>
         /\ gateway' = [gateway EXCEPT !.serves = @ \ {asked[r].model.id}]
         /\ UNCHANGED model /\ OnModel
         /\ Stepped(r, [asked[r] EXCEPT !.todo = <<"drop">>])
<1>1. At(r, "unadd") /\ asked[r] \in Askings /\ Head(asked[r].todo) = "unadd"
  BY DEF DeleteModel, At, Typed, Pending
<1>. QED  BY <1>1, Sequels, DoneSteps, LastSteps DEF DeleteModel, Done, Onward

LEMMA DropSteps ==
  ASSUME MaxFaults \in Nat, Typed, NEW r \in Pending, DropLLMModel(r)
  PROVE  /\ asked[r].op = "delete" /\ asked[r].todo = <<"drop">>
         /\ model' = NoModel /\ UNCHANGED gateway /\ OnModel
         /\ Stepped(r, Unused("over"))
         /\ model = NoModel => "torn" \in notes'
<1>1. At(r, "drop") /\ asked[r] \in Askings /\ Head(asked[r].todo) = "drop"
  BY DEF DropLLMModel, At, Typed, Pending
<1>2. Unrepaired(r, "drop", FALSE)
  BY DEF Unrepaired
<1>3. CASE model = NoModel
  BY <1>1, <1>2, <1>3, Sequels, FailedSteps DEF DropLLMModel, Refused, Onward
<1>4. CASE model # NoModel
  BY <1>1, <1>4, Sequels, DoneSteps DEF DropLLMModel, Done, Onward
<1>. QED  BY <1>3, <1>4

LEMMA KeySteps ==
  ASSUME MaxFaults \in Nat, Typed, NEW r \in Pending, GenerateKey(r)
  PROVE  /\ asked[r].op = "test" /\ asked[r].todo = TestPlan
         /\ UNCHANGED model /\ OnModel
         /\ \/ /\ gateway.key = None /\ gateway' = [gateway EXCEPT !.key = r]
               /\ \/ Stepped(r, [asked[r] EXCEPT !.todo =
                                   <<"ping", "unkey", "recheck", "save", "unkey">>])
                  \/ Stepped(r, Unused("over")) /\ "torn" \in notes'
            \/ /\ gateway.key # None /\ UNCHANGED gateway
               /\ Stepped(r, Unused("over"))
<1>1. At(r, "key") /\ asked[r] \in Askings /\ Head(asked[r].todo) = "key"
  BY DEF GenerateKey, At, Typed, Pending
<1>2. Unrepaired(r, "key", TRUE)
  BY DEF Unrepaired
<1>3. CASE gateway.key # None
  BY <1>1, <1>3, Sequels, FailedSteps DEF GenerateKey, Refused, Onward
<1>4. CASE gateway.key = None
  <2>1. /\ Tail(asked[r].todo) = <<"ping", "unkey", "recheck", "save", "unkey">>
        /\ Remaining(r, "key") = << >>
    BY <1>1, Sequels
  <2>2. \/ Stepped(r, Onward(asked[r], <<"ping", "unkey", "recheck", "save", "unkey">>))
        \/ Stepped(r, Onward(asked[r], << >>)) /\ "torn" \in notes'
    BY <1>1, <1>2, <1>4, <2>1, DoneSteps DEF GenerateKey, Done
  <2>3. Onward(asked[r], << >>) = Unused("over")
        /\ Onward(asked[r], <<"ping", "unkey", "recheck", "save", "unkey">>) =
             [asked[r] EXCEPT !.todo = <<"ping", "unkey", "recheck", "save", "unkey">>]
    BY DEF Onward
  <2>. QED  BY <1>1, <1>4, <2>2, <2>3, Sequels DEF GenerateKey
<1>. QED  BY <1>3, <1>4

LEMMA PingSteps ==
  ASSUME MaxFaults \in Nat, Typed, NEW r \in Pending, TestCompletion(r)
  PROVE  /\ asked[r].op = "test" /\ UNCHANGED <<model, gateway>> /\ OnModel
         /\ asked[r].todo = <<"ping", "unkey", "recheck", "save", "unkey">>
         /\ \/ \E b \in gateway.serves \cup {None} :
                 Stepped(r, [asked[r] EXCEPT !.answered = b,
                               !.todo = <<"unkey", "recheck", "save", "unkey">>])
            \/ Stepped(r, [asked[r] EXCEPT !.todo = <<"unkey">>])
<1>1. At(r, "ping") /\ asked[r] \in Askings /\ Head(asked[r].todo) = "ping"
  BY DEF TestCompletion, At, Typed, Pending
<1>2. PICK b \in gateway.serves \cup {None} :
        DoneAs(r, [asked[r] EXCEPT !.answered = b], {})
  BY DEF TestCompletion
<1>3. b \in Deployments \cup {None}
  BY <1>2 DEF Typed, PlatformTypeOK, Deployments
<1>4. [asked[r] EXCEPT !.answered = b] \in Askings
      /\ [asked[r] EXCEPT !.answered = b].todo = asked[r].todo
  BY <1>1, <1>3 DEF Askings
<1>. HIDE DEF Askings
<1>5. PICK new \in Askings : new = [asked[r] EXCEPT !.answered = b]
                             /\ new.todo = asked[r].todo /\ DoneAs(r, new, {})
  BY <1>2, <1>4
<1>6. \/ Stepped(r, Onward(new, <<"unkey", "recheck", "save", "unkey">>))
      \/ Stepped(r, Onward(asked[r], <<"unkey">>))
  BY <1>1, <1>5, Sequels, DoneSteps
<1>7. /\ Onward(new, <<"unkey", "recheck", "save", "unkey">>) =
           [asked[r] EXCEPT !.answered = b, !.todo = <<"unkey", "recheck", "save", "unkey">>]
      /\ Onward(asked[r], <<"unkey">>) = [asked[r] EXCEPT !.todo = <<"unkey">>]
  BY <1>5, LastSteps DEF Onward
<1>8. asked[r].op = "test"
      /\ asked[r].todo = <<"ping", "unkey", "recheck", "save", "unkey">>
  BY <1>1, Sequels
<1>. QED  BY <1>2, <1>6, <1>7, <1>8 DEF TestCompletion

LEMMA UnkeySteps ==
  ASSUME MaxFaults \in Nat, Typed, NEW r \in Pending, DeleteKeyByAlias(r)
  PROVE  /\ asked[r].op = "test" /\ asked[r].todo # TestPlan
         /\ gateway' = [gateway EXCEPT !.key = None] /\ UNCHANGED model /\ OnModel
         /\ \/ Stepped(r, [asked[r] EXCEPT !.todo = <<"recheck", "save", "unkey">>])
            \/ Stepped(r, [asked[r] EXCEPT !.todo = <<"save", "unkey">>])
            \/ Stepped(r, Unused("over"))
<1>1. At(r, "unkey") /\ asked[r] \in Askings /\ Head(asked[r].todo) = "unkey"
  BY DEF DeleteKeyByAlias, At, Typed, Pending
<1>. QED
  BY <1>1, Sequels, DoneSteps, Testing DEF DeleteKeyByAlias, Done, Onward

LEMMA RecheckSteps ==
  ASSUME MaxFaults \in Nat, Typed, NEW r \in Pending, RecheckKey(r)
  PROVE  /\ asked[r].op = "test" /\ asked[r].todo = <<"recheck", "save", "unkey">>
         /\ UNCHANGED <<model, gateway>> /\ OnModel
         /\ \/ \E b \in {asked[r].answered, None} :
                 Stepped(r, [asked[r] EXCEPT !.model.answered = b,
                                             !.todo = <<"save", "unkey">>])
            \/ Stepped(r, [asked[r] EXCEPT !.todo = <<"save", "unkey">>])
<1>1. At(r, "recheck") /\ asked[r] \in Askings /\ Head(asked[r].todo) = "recheck"
  BY DEF RecheckKey, At, Typed, Pending
<1>2. PICK b \in {asked[r].answered, None} :
        DoneAs(r, [asked[r] EXCEPT !.model.answered = b], {})
  BY DEF RecheckKey
<1>3. b \in Deployments \cup {None} /\ asked[r].model \in Models
  BY <1>1, <1>2, Sequels DEF Typed, Fits, Askings, OnModels, Pending
<1>4. [asked[r] EXCEPT !.model.answered = b] \in Askings
      /\ [asked[r] EXCEPT !.model.answered = b].todo = asked[r].todo
  BY <1>1, <1>3 DEF Askings, Models
<1>. HIDE DEF Askings
<1>5. PICK new \in Askings : new = [asked[r] EXCEPT !.model.answered = b]
                             /\ new.todo = asked[r].todo /\ DoneAs(r, new, {})
  BY <1>2, <1>4
<1>6. \/ Stepped(r, Onward(new, <<"save", "unkey">>))
      \/ Stepped(r, Onward(asked[r], <<"save", "unkey">>))
  BY <1>1, <1>5, Sequels, DoneSteps
<1>7. /\ Onward(new, <<"save", "unkey">>) =
           [asked[r] EXCEPT !.model.answered = b, !.todo = <<"save", "unkey">>]
      /\ Onward(asked[r], <<"save", "unkey">>) =
           [asked[r] EXCEPT !.todo = <<"save", "unkey">>]
  BY <1>5 DEF Onward
<1>. QED  BY <1>1, <1>6, <1>7, Sequels DEF RecheckKey

LEMMA BaseSteps ==
  ASSUME MaxFaults \in Nat, Typed, NEW r \in Pending, UpsertBaseJobTemplate(r)
  PROVE  /\ asked[r].op \in OnBases /\ base' = asked[r].base
         /\ releases' = releases \cup {<<base'.version, base'.published>>}
         /\ UNCHANGED <<flavor, wanted>> /\ OnTemplates
         /\ Stepped(r, Unused("over"))
<1>1. At(r, "save-base") /\ asked[r] \in Askings /\ Head(asked[r].todo) = "save-base"
  BY DEF UpsertBaseJobTemplate, At, Typed, Pending
<1>. QED  BY <1>1, Sequels, DoneSteps DEF UpsertBaseJobTemplate, Done, Onward

LEMMA FlavorSteps ==
  ASSUME MaxFaults \in Nat, Typed, NEW r \in Pending, SaveFlavor(r)
  PROVE  /\ asked[r].op \in OnFlavors /\ flavor' = asked[r].flavor
         /\ wanted' = IF asked[r].op = "update" THEN wanted ELSE asked[r].flavor.addons
         /\ UNCHANGED <<base, releases>> /\ OnTemplates
         /\ Stepped(r, Unused("over"))
<1>1. At(r, "save-flavor") /\ asked[r] \in Askings /\ Head(asked[r].todo) = "save-flavor"
  BY DEF SaveFlavor, At, Typed, Pending
<1>. QED  BY <1>1, Sequels, DoneSteps DEF SaveFlavor, Done, Onward

\* A call that fails leaves everything but the request as it is.
LEMMA FailureSteps ==
  ASSUME MaxFaults \in Nat, Typed, NEW r \in Pending, CallFails(r)
  PROVE  /\ UNCHANGED <<model, gateway>> /\ OnModel
         /\ \/ /\ asked[r].op = "onboard"
               /\ \/ Stepped(r, Unused("over")) /\ asked[r].todo # <<"save">>
                       /\ ~PastAdd(asked[r])
                  \/ Stepped(r, [asked[r] EXCEPT !.todo = <<"save">>]) /\ "torn" \in notes'
                       /\ PastAdd(asked[r])
                  \/ Stepped(r, Unused("over")) /\ "torn" \in notes'
            \/ /\ asked[r].op = "test" /\ asked[r].todo # TestPlan
               /\ \E rest \in {<<"unkey">>, <<"save", "unkey">>} :
                    Stepped(r, [asked[r] EXCEPT !.todo = rest])
            \/ /\ asked[r].op = "test" /\ Stepped(r, Unused("over"))
               /\ asked[r].todo = TestPlan \/ gateway.key # r \/ "torn" \in notes'
            \/ /\ asked[r].op = "delete" /\ "torn" \in notes'
               /\ \/ Stepped(r, [asked[r] EXCEPT !.todo = <<"drop">>])
                  \/ Stepped(r, Unused("over"))
            \/ /\ asked[r].op \notin {"onboard", "test", "delete"}
               /\ Stepped(r, Unused("over"))
<1>. DEFINE h == Head(asked[r].todo)
<1>1. At(r, h) /\ asked[r].op \in Ops
      /\ h \in {"add", "resolve", "save", "key", "ping", "unkey", "recheck", "unadd",
                "drop", "save-base", "save-flavor"}
  <2>1. asked[r].op \in Ops /\ asked[r].todo \in Plans(asked[r].op)
        /\ asked[r].todo # << >>
    BY DEF Typed, PlatformTypeOK, Fits, Askings, Pending
  <2>. QED  BY <2>1, Heads DEF At
<1>2. Stepped(r, Onward(asked[r], Remaining(r, h)))
      /\ (Unrepaired(r, h, FALSE) => "torn" \in notes')
      /\ UNCHANGED <<model, gateway>> /\ OnModel
  BY FailedSteps DEF CallFails
<1>. HIDE DEF h
<1>3. \A left \in {<<"save">>, <<"unkey">>, <<"save", "unkey">>, <<"drop">>} :
        Onward(asked[r], left) = [asked[r] EXCEPT !.todo = left]
  BY LastSteps DEF Onward
<1>4. Onward(asked[r], << >>) = Unused("over")
  BY DEF Onward

<1>5. CASE h = "add"
  <2>1. At(r, "add") /\ Head(asked[r].todo) = h
    BY <1>1, <1>5 DEF h
  <2>2. asked[r].op = "onboard" /\ asked[r].todo = <<"add", "resolve", "save">>
        /\ Remaining(r, h) = << >>
    BY <2>1, Sequels
  <2>3. Stepped(r, Onward(asked[r], << >>))
    BY <1>2, <2>2
  <2>. QED
    BY <1>5, <1>2, <1>3, <1>4, <2>2, <2>3, Testing, Onboarding, LastSteps
    DEF PastAdd, Unrepaired, OnBases, OnFlavors
<1>6. CASE h = "resolve"
  <2>1. At(r, "resolve") /\ Head(asked[r].todo) = h
    BY <1>1, <1>6 DEF h
  <2>2. asked[r].op = "onboard" /\ asked[r].todo = <<"resolve", "save">>
        /\ Remaining(r, h) = <<"save">>
    BY <2>1, Sequels
  <2>3. Stepped(r, Onward(asked[r], <<"save">>))
    BY <1>2, <2>2
  <2>. QED
    BY <1>6, <1>2, <1>3, <1>4, <2>2, <2>3, Testing, Onboarding, LastSteps
    DEF PastAdd, Unrepaired, OnBases, OnFlavors
<1>7. CASE h = "save"
  <2>1. At(r, "save") /\ Head(asked[r].todo) = h
    BY <1>1, <1>7 DEF h
  <2>2. CASE /\ asked[r].op \in {"onboard", "publish"} /\ Remaining(r, h) = << >>
    BY <1>7, <1>2, <1>4, <2>2 DEF Unrepaired
  <2>3. CASE /\ asked[r].op = "test" /\ asked[r].todo = <<"save", "unkey">>
             /\ Remaining(r, h) = <<"unkey">>
    BY <1>2, <1>3, <2>3, Testing
  <2>. QED  BY <2>1, <2>2, <2>3, Sequels
<1>8. CASE h = "key"
  <2>1. At(r, "key") /\ Head(asked[r].todo) = h
    BY <1>1, <1>8 DEF h
  <2>2. asked[r].op = "test" /\ asked[r].todo = TestPlan
        /\ Remaining(r, h) = << >>
    BY <2>1, Sequels
  <2>3. Stepped(r, Onward(asked[r], << >>))
    BY <1>2, <2>2
  <2>. QED
    BY <1>8, <1>2, <1>3, <1>4, <2>2, <2>3, Testing, Onboarding, LastSteps
    DEF PastAdd, Unrepaired, OnBases, OnFlavors
<1>9. CASE h = "ping"
  <2>1. At(r, "ping") /\ Head(asked[r].todo) = h
    BY <1>1, <1>9 DEF h
  <2>2. asked[r].op = "test" /\ asked[r].todo = <<"ping", "unkey", "recheck", "save", "unkey">>
        /\ Remaining(r, h) = <<"unkey">>
    BY <2>1, Sequels
  <2>3. Stepped(r, Onward(asked[r], <<"unkey">>))
    BY <1>2, <2>2
  <2>. QED
    BY <1>9, <1>2, <1>3, <1>4, <2>2, <2>3, Testing, Onboarding, LastSteps
    DEF PastAdd, Unrepaired, OnBases, OnFlavors
<1>10. CASE h = "unkey"
  <2>1. At(r, "unkey") /\ Head(asked[r].todo) = h
    BY <1>1, <1>10 DEF h
  <2>2. CASE /\ asked[r].op = "test" /\ Remaining(r, h) = <<"save", "unkey">>
             /\ asked[r].todo = <<"unkey", "recheck", "save", "unkey">>
    BY <1>2, <1>3, <2>2, Testing
  <2>3. CASE /\ asked[r].op = "test" /\ Remaining(r, h) = << >> /\ Last(r)
    BY <1>10, <1>2, <1>4, <2>3 DEF Unrepaired
  <2>. QED  BY <2>1, <2>2, <2>3, Sequels
<1>11. CASE h = "recheck"
  <2>1. At(r, "recheck") /\ Head(asked[r].todo) = h
    BY <1>1, <1>11 DEF h
  <2>2. asked[r].op = "test" /\ asked[r].todo = <<"recheck", "save", "unkey">>
        /\ Remaining(r, h) = <<"save", "unkey">>
    BY <2>1, Sequels
  <2>3. Stepped(r, Onward(asked[r], <<"save", "unkey">>))
    BY <1>2, <2>2
  <2>. QED
    BY <1>11, <1>2, <1>3, <1>4, <2>2, <2>3, Testing, Onboarding, LastSteps
    DEF PastAdd, Unrepaired, OnBases, OnFlavors
<1>12. CASE h = "unadd"
  <2>1. At(r, "unadd") /\ Head(asked[r].todo) = h
    BY <1>1, <1>12 DEF h
  <2>2. asked[r].op = "delete"
        /\ Remaining(r, h) = <<"drop">>
    BY <2>1, Sequels
  <2>3. Stepped(r, Onward(asked[r], <<"drop">>))
    BY <1>2, <2>2
  <2>. QED
    BY <1>12, <1>2, <1>3, <1>4, <2>2, <2>3, Testing, Onboarding, LastSteps
    DEF PastAdd, Unrepaired, OnBases, OnFlavors
<1>13. CASE h = "drop"
  <2>1. At(r, "drop") /\ Head(asked[r].todo) = h
    BY <1>1, <1>13 DEF h
  <2>2. asked[r].op = "delete"
        /\ Remaining(r, h) = << >>
    BY <2>1, Sequels
  <2>3. Stepped(r, Onward(asked[r], << >>))
    BY <1>2, <2>2
  <2>. QED
    BY <1>13, <1>2, <1>3, <1>4, <2>2, <2>3, Testing, Onboarding, LastSteps
    DEF PastAdd, Unrepaired, OnBases, OnFlavors
<1>14. CASE h = "save-base"
  <2>1. At(r, "save-base") /\ Head(asked[r].todo) = h
    BY <1>1, <1>14 DEF h
  <2>2. asked[r].op \in OnBases
        /\ Remaining(r, h) = << >>
    BY <2>1, Sequels
  <2>3. Stepped(r, Onward(asked[r], << >>))
    BY <1>2, <2>2
  <2>. QED
    BY <1>14, <1>2, <1>3, <1>4, <2>2, <2>3, Testing, Onboarding, LastSteps
    DEF PastAdd, Unrepaired, OnBases, OnFlavors
<1>15. CASE h = "save-flavor"
  <2>1. At(r, "save-flavor") /\ Head(asked[r].todo) = h
    BY <1>1, <1>15 DEF h
  <2>2. asked[r].op \in OnFlavors
        /\ Remaining(r, h) = << >>
    BY <2>1, Sequels
  <2>3. Stepped(r, Onward(asked[r], << >>))
    BY <1>2, <2>2
  <2>. QED
    BY <1>15, <1>2, <1>3, <1>4, <2>2, <2>3, Testing, Onboarding, LastSteps
    DEF PastAdd, Unrepaired, OnBases, OnFlavors
<1>. QED  BY <1>1, <1>5, <1>6, <1>7, <1>8, <1>9, <1>10, <1>11, <1>12, <1>13, <1>14, <1>15

--------------------------------------------------------------------------------
(* Types                                                                   *)

LEMMA OverFits == \A op \in Over : Fits(Unused(op))
<1>1. Plans("over") = {<< >>} /\ Plans("new") = {<< >>}
  BY DEF Plans, Over, OnBases
<1>2. << >> \in UNION {Plans(op) : op \in Ops}
  BY <1>1 DEF Ops, Over
<1>. QED
  BY <1>1, <1>2 DEF Fits, Unused, Askings, Ops, Over, OnModels, OnBases, OnFlavors

LEMMA OnwardFits ==
  ASSUME NEW a, Fits(a), NEW todo \in Plans(a.op)
  PROVE  Fits([a EXCEPT !.todo = todo])
<1>1. a \in Askings /\ a.op \in Ops
  BY DEF Fits, Askings
<1>2. todo \in UNION {Plans(op) : op \in Ops}
  BY <1>1
<1>3. [a EXCEPT !.todo = todo] \in Askings
  BY <1>1, <1>2 DEF Askings
<1>. QED  BY <1>1, <1>3 DEF Fits, Askings

\* The rest of what a plan may be.
LEMMA PlansOf ==
  /\ <<"resolve", "save">> \in Plans("onboard") /\ <<"save">> \in Plans("onboard")
  /\ <<"add", "resolve", "save">> \in Plans("onboard")
  /\ \A todo \in {TestPlan, <<"ping", "unkey", "recheck", "save", "unkey">>,
                  <<"unkey", "recheck", "save", "unkey">>,
                  <<"recheck", "save", "unkey">>, <<"save", "unkey">>, <<"unkey">>} :
       todo \in Plans("test")
  /\ <<"unadd", "drop">> \in Plans("delete") /\ <<"drop">> \in Plans("delete")
  /\ <<"save">> \in Plans("publish")
  /\ \A op \in OnBases : <<"save-base">> \in Plans(op)
  /\ \A op \in OnFlavors : <<"save-flavor">> \in Plans(op)
  /\ Plans("over") = {<< >>} /\ Plans("new") = {<< >>}
BY DEF Plans, Over, OnBases, OnFlavors

\* Only asked changes in the types that a request's step may break.
LEMMA AskedTyped ==
  ASSUME Typed, NEW r \in Requests, NEW a, asked' = [asked EXCEPT ![r] = a], Fits(a)
  PROVE  /\ asked' \in [Requests -> Askings]
         /\ \A q \in Requests : Fits(asked'[q])
<1>1. a \in Askings
  BY DEF Fits
<1>. QED  BY <1>1 DEF Typed

\* What a request fits is what PlatformTypeOK says of it.
LEMMA FitsTyped ==
  ASSUME NEW a, Fits(a)
  PROVE  /\ a.op \in Over <=> a.todo = << >>
         /\ a.model \in Models \cup {NoModel}
         /\ a.base \in Bases \cup {<< >>}
         /\ a.flavor \in Flavors \cup {NoFlavor}
<1>1. a \in Askings /\ a.todo \in Plans(a.op) /\ a.op \in Ops
  BY DEF Fits, Askings
<1>2. a.op \in Over => a.todo = << >>
  BY <1>1 DEF Plans, Over, OnBases
<1>3. ASSUME a.op \notin Over PROVE a.todo # << >>
  BY <1>1, <1>3, Testing DEF Plans, Ops, OnModels, OnBases, OnFlavors, TestPlan
<1>. QED  BY <1>1, <1>2, <1>3 DEF Askings

\* The variables but asked.
Kept ==
  /\ provider \in BOOLEAN
  /\ model \in Models \cup {NoModel}
  /\ gateway \in [serves : SUBSET Deployments, key : Requests \cup {None}]
  /\ Settled(base)
  /\ disabled \subseteq Agents
  /\ flavor \in Flavors \cup {NoFlavor}
  /\ failures \in 0 .. MaxFaults
  /\ releases \subseteq Versions \X Sources /\ wanted \subseteq Addons
  /\ notes \subseteq {"raced", "torn", "doubled"}

LEMMA TypedSplit ==
  ASSUME Kept, asked \in [Requests -> Askings], \A r \in Requests : Fits(asked[r])
  PROVE  Typed
BY FitsTyped DEF Kept, Typed, PlatformTypeOK, Settled

LEMMA TypedSplitNext ==
  ASSUME Kept', asked' \in [Requests -> Askings], \A r \in Requests : Fits(asked'[r])
  PROVE  Typed'
BY FitsTyped DEF Kept, Typed, PlatformTypeOK, Settled

LEMMA TypedIsKept == Typed => Kept
BY DEF Kept, Typed, PlatformTypeOK, Settled

LEMMA InjectLaunches ==
  ASSUME NEW s \in Sources, NEW addons \in SUBSET Addons, NEW a \in Agents
  PROVE  Inject(s, addons, a) \in Launches
BY DEF Launches

LEMMA TypedInit == ASSUME MaxFaults \in Nat, CatalogueInit PROVE Typed
<1>1. model \in Models \cup {NoModel}
      /\ gateway \in [serves : SUBSET Deployments, key : Requests \cup {None}]
      /\ provider \in BOOLEAN
  <2>1. CASE provider = FALSE /\ model = NoModel /\ gateway = [serves |-> {}, key |-> None]
    BY <2>1
  <2>2. ASSUME provider = TRUE, NEW stage, Onboarded(stage)
        PROVE  /\ model \in Models
               /\ gateway \in [serves : SUBSET Deployments, key : Requests \cup {None}]
    BY <2>2 DEF Onboarded, Models, Deployments
  <2>. QED  BY <2>1, <2>2 DEF CatalogueInit
<1>2. Settled(base)
  <2>1. PICK s \in Sources, draft \in Sources :
          base = [SeedBaseTemplates(s) EXCEPT !.draft = draft,
                    !.status = IF draft = s THEN @ ELSE "draft"]
    BY DEF CatalogueInit
  <2>2. base = [status |-> IF draft = s THEN "published" ELSE "draft", version |-> 1,
                draft |-> draft, published |-> s]
    BY <2>1 DEF SeedBaseTemplates
  <2>. QED  BY <2>2 DEF Settled, Bases, Versions
<1>3. releases \subseteq Versions \X Sources
  BY DEF CatalogueInit, Versions
<1>4. flavor \in Flavors \cup {NoFlavor} /\ wanted \subseteq Addons
  <2>1. CASE flavor = NoFlavor /\ wanted = {}
    BY <2>1
  <2>2. ASSUME NEW s \in Sources, NEW a \in Agents, NEW addons \in SUBSET Addons,
               flavor = Derived(s, a, addons), wanted = addons
        PROVE  flavor \in Flavors /\ wanted \subseteq Addons
    <3>1. Inject(s, addons, a) \in Launches
      BY InjectLaunches
    <3>. HIDE DEF Inject, Launches
    <3>. QED  BY <2>2, <3>1 DEF Derived, Flavors, Versions
  <2>. QED  BY <2>1, <2>2 DEF CatalogueInit
<1>5. disabled \subseteq Agents /\ failures \in 0 .. MaxFaults
      /\ notes \subseteq {"raced", "torn", "doubled"}
  BY DEF CatalogueInit
<1>6. asked \in [Requests -> Askings] /\ \A r \in Requests : Fits(asked[r])
  BY OverFits DEF CatalogueInit, Over, Fits
<1>. QED  BY <1>1, <1>2, <1>3, <1>4, <1>5, <1>6, TypedSplit DEF Kept


\* Request r begins as new, and nothing else changes.
Begun(r, new) ==
  /\ r \in Requests /\ asked[r].op = "new" /\ asked' = [asked EXCEPT ![r] = new]
  /\ UNCHANGED <<provider, model, gateway, base, disabled, flavor, failures, releases,
                 wanted, notes>>

LEMMA OnboardBegins ==
  ASSUME Typed, NEW r \in Requests, OnboardLLMModel(r)
  PROVE  \E new : /\ Begun(r, new) /\ Fits(new) /\ new.op = "onboard"
                  /\ new.todo = <<"add", "resolve", "save">>
                  /\ new.model = [NoModel EXCEPT !.status = "draft", !.backend = r]
<1>. DEFINE mod == [NoModel EXCEPT !.status = "draft", !.backend = r]
            todo == <<"add", "resolve", "save">>
            new == [Unused("onboard") EXCEPT !.model = mod, !.todo = todo]
<1>0. todo \in Plans("onboard")
  BY PlansOf
<1>1. mod \in Models
  BY DEF Models, NoModel, Deployments
<1>2. Begun(r, new)
  BY DEF OnboardLLMModel, Begin, Begun
<1>. HIDE DEF mod, todo
<1>3. new \in [op : {"onboard"}, model : {mod}, base : {<< >>}, flavor : {NoFlavor},
                   answered : {None}, todo : {todo}]
  BY DEF mod, Unused
<1>4. Fits(new)
  <2>. HIDE DEF new
  <2>. QED
    BY <1>0, <1>1, <1>3 DEF Fits, Askings, Ops, OnModels, OnBases, OnFlavors
<1>. QED  BY <1>2, <1>3, <1>4 DEF mod, todo

LEMMA TestBegins ==
  ASSUME Typed, NEW r \in Requests, TestLLMModel(r)
  PROVE  \E new : /\ Begun(r, new) /\ Fits(new) /\ new.op = "test"
                  /\ new.todo = TestPlan /\ new.answered = None /\ model # NoModel
                  /\ new.model = [model EXCEPT !.answered = None]
<1>. DEFINE mod == [model EXCEPT !.answered = None]
            todo == TestPlan
            new == [Unused("test") EXCEPT !.model = mod, !.todo = todo]
<1>0. todo \in Plans("test")
  BY PlansOf
<1>1. mod \in Models /\ model # NoModel
  BY DEF TestLLMModel, Models, Typed, PlatformTypeOK
<1>2. Begun(r, new)
  BY DEF TestLLMModel, Begin, Begun
<1>. HIDE DEF mod, todo
<1>3. new \in [op : {"test"}, model : {mod}, base : {<< >>}, flavor : {NoFlavor},
                   answered : {None}, todo : {todo}]
  BY DEF mod, Unused
<1>4. Fits(new)
  <2>. HIDE DEF new
  <2>. QED
    BY <1>0, <1>1, <1>3 DEF Fits, Askings, Ops, OnModels, OnBases, OnFlavors
<1>. QED  BY <1>1, <1>2, <1>3, <1>4 DEF mod, todo

LEMMA PublishBegins ==
  ASSUME Typed, NEW r \in Requests, PublishLLMModel(r)
  PROVE  \E new : /\ Begun(r, new) /\ Fits(new) /\ new.op = "publish"
                  /\ new.todo = <<"save">> /\ new.answered = None
                  /\ model # NoModel /\ model.answered # None
                  /\ new.model = [model EXCEPT !.status = "published"]
<1>. DEFINE mod == [model EXCEPT !.status = "published"]
            todo == <<"save">>
            new == [Unused("publish") EXCEPT !.model = mod, !.todo = todo]
<1>0. todo \in Plans("publish")
  BY PlansOf
<1>1. mod \in Models /\ model # NoModel /\ model.answered # None
  BY DEF PublishLLMModel, Models, Typed, PlatformTypeOK
<1>2. Begun(r, new)
  BY DEF PublishLLMModel, Begin, Begun
<1>. HIDE DEF mod, todo
<1>3. new \in [op : {"publish"}, model : {mod}, base : {<< >>}, flavor : {NoFlavor},
                   answered : {None}, todo : {todo}]
  BY DEF mod, Unused
<1>4. Fits(new)
  <2>. HIDE DEF new
  <2>. QED
    BY <1>0, <1>1, <1>3 DEF Fits, Askings, Ops, OnModels, OnBases, OnFlavors
<1>. QED  BY <1>1, <1>2, <1>3, <1>4 DEF mod, todo

LEMMA DeleteBegins ==
  ASSUME Typed, NEW r \in Requests, DeleteLLMModel(r)
  PROVE  \E new : /\ Begun(r, new) /\ Fits(new) /\ new.op = "delete"
                  /\ new.todo = IF model.id = None THEN <<"drop">> ELSE <<"unadd", "drop">>
                  /\ new.answered = None /\ model # NoModel /\ new.model = model
<1>. DEFINE todo == IF model.id = None THEN <<"drop">> ELSE <<"unadd", "drop">>
            new == [Unused("delete") EXCEPT !.model = model, !.todo = todo]
<1>1. model \in Models /\ model # NoModel
  BY DEF DeleteLLMModel, Typed, PlatformTypeOK
<1>2. Begun(r, new)
  BY DEF DeleteLLMModel, Begin, Begun
<1>3. todo \in Plans("delete")
  BY PlansOf
<1>. HIDE DEF todo
<1>4. new \in [op : {"delete"}, model : {model}, base : {<< >>}, flavor : {NoFlavor},
                   answered : {None}, todo : {todo}]
  BY DEF Unused
<1>5. Fits(new)
  BY <1>1, <1>3, <1>4 DEF Fits, Askings, Ops, OnModels, OnBases, OnFlavors
<1>. QED  BY <1>1, <1>2, <1>4, <1>5 DEF todo

\* An operation on a base holds the row it will save.
LEMMA BaseFits ==
  ASSUME NEW op \in OnBases, NEW b, Settled(b)
  PROVE  /\ Fits([Unused(op) EXCEPT !.base = b, !.todo = <<"save-base">>])
         /\ [Unused(op) EXCEPT !.base = b, !.todo = <<"save-base">>].op = op
         /\ [Unused(op) EXCEPT !.base = b, !.todo = <<"save-base">>].base = b
<1>. DEFINE todo == <<"save-base">>
            new == [Unused(op) EXCEPT !.base = b, !.todo = todo]
<1>0. todo \in Plans(op)
  BY PlansOf
<1>. HIDE DEF todo
<1>1. new \in [op : {op}, model : {NoModel}, base : {b}, flavor : {NoFlavor},
                   answered : {None}, todo : {todo}]
  BY DEF Unused
<1>2. new.op = op /\ new.base = b
  BY <1>1
<1>3. Fits(new)
  BY <1>0, <1>1 DEF Settled, Fits, Askings, Ops, OnModels, OnBases, OnFlavors
<1>. QED  BY <1>2, <1>3 DEF todo

LEMMA DraftBegins ==
  ASSUME Typed, NEW r \in Requests, NEW s \in Sources, UpdateDraft(r, s)
  PROVE  \E new : /\ Begun(r, new) /\ Fits(new) /\ new.op = "draft"
                  /\ new.base.version = base.version
                  /\ new.base.published = base.published
<1>. DEFINE b == [base EXCEPT !.draft = s, !.status = "draft"]
<1>1. Settled(b) /\ b.version = base.version /\ b.published = base.published
  BY DEF Typed, PlatformTypeOK, Settled, Bases
<1>2. Begun(r, [Unused("draft") EXCEPT !.base = b, !.todo = <<"save-base">>])
  BY DEF UpdateDraft, Begin, Begun
<1>. HIDE DEF b
<1>. DEFINE new == [Unused("draft") EXCEPT !.base = b, !.todo = <<"save-base">>]
<1>3. "draft" \in OnBases
  BY DEF OnBases
<1>4. Fits(new) /\ new.op = "draft" /\ new.base = b
  BY <1>1, <1>3, BaseFits
<1>. HIDE DEF new
<1>. QED  BY <1>1, <1>2, <1>4 DEF new

LEMMA ReleaseBegins ==
  ASSUME Typed, NEW r \in Requests, Publish(r)
  PROVE  \E new : /\ Begun(r, new) /\ Fits(new) /\ new.op = "release"
                  /\ new.base.version = base.version + 1
<1>. DEFINE b == [base EXCEPT !.published = base.draft, !.version = @ + 1,
                              !.status = "published"]
<1>1. Settled(b) /\ b.version = base.version + 1
  <2>1. base \in Bases
    BY DEF Typed, PlatformTypeOK
  <2>2. base.version \in Nat /\ base.version + 1 \in Versions /\ base.draft \in Sources
    BY <2>1 DEF Bases, Versions
  <2>3. b \in [status : {"published"}, version : {base.version + 1}, draft : {base.draft},
               published : {base.draft}]
    BY <2>1 DEF Bases
  <2>. QED  BY <2>2, <2>3 DEF Settled, Bases
<1>2. Begun(r, [Unused("release") EXCEPT !.base = b, !.todo = <<"save-base">>])
  BY DEF Publish, Begin, Begun
<1>. HIDE DEF b
<1>. DEFINE new == [Unused("release") EXCEPT !.base = b, !.todo = <<"save-base">>]
<1>3. "release" \in OnBases
  BY DEF OnBases
<1>4. Fits(new) /\ new.op = "release" /\ new.base = b
  BY <1>1, <1>3, BaseFits
<1>. HIDE DEF new
<1>. QED  BY <1>1, <1>2, <1>4 DEF new

\* An operation on a template holds the template it will save.
LEMMA FlavorFits ==
  ASSUME NEW op \in OnFlavors, NEW f \in Flavors
  PROVE  /\ Fits([Unused(op) EXCEPT !.flavor = f, !.todo = <<"save-flavor">>])
         /\ [Unused(op) EXCEPT !.flavor = f, !.todo = <<"save-flavor">>].op = op
         /\ [Unused(op) EXCEPT !.flavor = f, !.todo = <<"save-flavor">>].flavor = f
<1>. DEFINE todo == <<"save-flavor">>
            new == [Unused(op) EXCEPT !.flavor = f, !.todo = todo]
<1>0. todo \in Plans(op)
  BY PlansOf
<1>. HIDE DEF todo
<1>1. new \in [op : {op}, model : {NoModel}, base : {<< >>}, flavor : {f},
                   answered : {None}, todo : {todo}]
  BY DEF Unused
<1>2. new.op = op /\ new.flavor = f
  BY <1>1
<1>3. Fits(new)
  BY <1>0, <1>1 DEF Fits, Askings, Ops, OnModels, OnBases, OnFlavors
<1>. QED  BY <1>2, <1>3 DEF todo

\* What is baked from the published base is launched from a source that was
\* released, once the base is.
LEMMA BakeBakes ==
  ASSUME Typed, NEW row,
         row \in Flavors \/ \E a \in Agents : row = [NoFlavor EXCEPT !.agent = a]
  PROVE  /\ Bake(row) \in Flavors /\ Bake(row).addons = row.addons
         /\ <<base.version, base.published>> \in releases => Baked(Bake(row))
<1>1. row.addons \in SUBSET Addons /\ row.agent \in Agents
      /\ base.published \in Sources /\ base.version \in Versions
  BY DEF Flavors, NoFlavor, Typed, PlatformTypeOK, Bases
<1>2. Inject(base.published, row.addons, row.agent) \in Launches
  BY <1>1, InjectLaunches
<1>3. Bake(row) = [version |-> base.version, baked |-> base.published,
                   agent |-> row.agent, addons |-> row.addons,
                   rendered |-> Inject(base.published, row.addons, row.agent)]
  <2>. DEFINE inj == Inject(base.published, row.addons, row.agent)
  <2>1. CASE row \in Flavors
    <3>1. Bake(row) \in [version : {base.version}, baked : {base.published},
                         agent : {row.agent}, addons : {row.addons}, rendered : {inj}]
      BY <2>1 DEF Bake, Flavors
    <3>. QED  BY <3>1
  <2>2. ASSUME NEW a \in Agents, row = [NoFlavor EXCEPT !.agent = a]
        PROVE  Bake(row) = [version |-> base.version, baked |-> base.published,
                            agent |-> row.agent, addons |-> row.addons,
                            rendered |-> Inject(base.published, row.addons, row.agent)]
    <3>1. Bake(row) \in [version : {base.version}, baked : {base.published},
                         agent : {row.agent}, addons : {row.addons}, rendered : {inj}]
      BY <2>2 DEF Bake, NoFlavor
    <3>. QED  BY <3>1
  <2>. QED  BY <2>1, <2>2
<1>. HIDE DEF Inject, Launches, Bake
<1>. QED  BY <1>1, <1>2, <1>3 DEF Flavors, Baked

LEMMA CreateBegins ==
  ASSUME Typed, NEW r \in Requests, NEW a \in Agents, Create(r, a)
  PROVE  \E new : /\ Begun(r, new) /\ Fits(new) /\ new.op = "create"
                  /\ <<base.version, base.published>> \in releases => Baked(new.flavor)
<1>. DEFINE f == Bake([NoFlavor EXCEPT !.agent = a])
<1>1. f \in Flavors /\ (<<base.version, base.published>> \in releases => Baked(f))
  BY BakeBakes
<1>0. "create" \in OnFlavors
  BY DEF OnFlavors
<1>2. Begun(r, [Unused("create") EXCEPT !.flavor = f, !.todo = <<"save-flavor">>])
  BY DEF Create, Begin, Begun
<1>. HIDE DEF f
<1>. DEFINE new == [Unused("create") EXCEPT !.flavor = f, !.todo = <<"save-flavor">>]
<1>5. Fits(new) /\ new.op = "create" /\ new.flavor = f
  BY <1>0, <1>1, FlavorFits
<1>6. Begun(r, new)
  BY <1>2
<1>. HIDE DEF new
<1>. QED  BY <1>1, <1>2, <1>5, <1>6

LEMMA UpdateBegins ==
  ASSUME Typed, NEW r \in Requests, Update(r)
  PROVE  \E new : /\ Begun(r, new) /\ Fits(new) /\ new.op = "update"
                  /\ flavor # NoFlavor /\ new.flavor.addons = flavor.addons
                  /\ <<base.version, base.published>> \in releases => Baked(new.flavor)
<1>. DEFINE f == Bake(flavor)
<1>1. flavor # NoFlavor /\ f \in Flavors /\ f.addons = flavor.addons
      /\ (<<base.version, base.published>> \in releases => Baked(f))
  BY BakeBakes DEF Update, HasTemplate, Typed, PlatformTypeOK
<1>0. "update" \in OnFlavors
  BY DEF OnFlavors
<1>2. Begun(r, [Unused("update") EXCEPT !.flavor = f, !.todo = <<"save-flavor">>])
  BY DEF Update, Begin, Begun
<1>. HIDE DEF f
<1>. DEFINE new == [Unused("update") EXCEPT !.flavor = f, !.todo = <<"save-flavor">>]
<1>5. Fits(new) /\ new.op = "update" /\ new.flavor = f
  BY <1>0, <1>1, FlavorFits
<1>6. Begun(r, new)
  BY <1>2
<1>. HIDE DEF new
<1>. QED  BY <1>1, <1>2, <1>5, <1>6

LEMMA AddonsBegins ==
  ASSUME Typed, NEW r \in Requests, NEW addons \in SUBSET Addons, SetAddons(r, addons)
  PROVE  \E new : /\ Begun(r, new) /\ Fits(new) /\ new.op = "addons"
                  /\ flavor # NoFlavor /\ (Baked(flavor) => Baked(new.flavor))
<1>. DEFINE f == [flavor EXCEPT !.addons = addons,
                    !.rendered = Inject(flavor.baked, addons, flavor.agent)]
<1>1. flavor # NoFlavor /\ flavor \in Flavors
  BY DEF SetAddons, HasTemplate, Typed, PlatformTypeOK
<1>2. Inject(flavor.baked, addons, flavor.agent) \in Launches
  BY <1>1, InjectLaunches DEF Flavors
<1>0. "addons" \in OnFlavors
  BY DEF OnFlavors
<1>3. Begun(r, [Unused("addons") EXCEPT !.flavor = f, !.todo = <<"save-flavor">>])
  BY DEF SetAddons, Begin, Begun
<1>4. f \in Flavors /\ (Baked(flavor) => Baked(f))
  <2>. HIDE DEF Inject, Launches
  <2>. QED  BY <1>1, <1>2 DEF Flavors, Baked
<1>. HIDE DEF f
<1>. DEFINE new == [Unused("addons") EXCEPT !.flavor = f, !.todo = <<"save-flavor">>]
<1>5. Fits(new) /\ new.op = "addons" /\ new.flavor = f
  BY <1>0, <1>4, FlavorFits
<1>6. Begun(r, new)
  BY <1>3
<1>. HIDE DEF new
<1>. QED  BY <1>1, <1>3, <1>4, <1>5, <1>6


\* The crash ends what is in flight.
LEMMA CrashSteps ==
  ASSUME MaxFaults \in Nat, Typed, Crash
  PROVE  /\ UNCHANGED <<model, gateway>> /\ OnModel /\ "torn" \in notes'
         /\ notes \subseteq notes' /\ notes' \subseteq {"raced", "torn", "doubled"}
         /\ failures' \in 0 .. MaxFaults
         /\ asked' \in [Requests -> Askings]
         /\ \A r \in Requests : Fits(asked'[r]) /\ asked'[r].op \in Over
<1>1. failures' \in 0 .. MaxFaults
  BY DEF Crash, Fault, Typed, PlatformTypeOK
<1>2. \A r \in Requests : asked'[r] = IF r \in Pending THEN Unused("over") ELSE asked[r]
  BY DEF Crash
<1>3. Unused("over").op = "over" /\ Fits(Unused("over"))
  BY OverFits DEF Unused, Over
<1>4. \A r \in Requests : Fits(asked'[r]) /\ asked'[r].op \in Over
  BY <1>2, <1>3 DEF Typed, Pending, Over
<1>5. asked' \in [Requests -> Askings]
  <2>1. Unused("over") \in Askings
    BY <1>3 DEF Fits
  <2>. QED  BY <2>1 DEF Crash, Typed
<1>. QED  BY <1>1, <1>4, <1>5 DEF Crash, Typed, PlatformTypeOK

LEMMA BegunTyped ==
  ASSUME Typed, NEW r \in Requests, NEW new, Begun(r, new), Fits(new)
  PROVE  Typed'
<1>1. Kept /\ asked' = [asked EXCEPT ![r] = new]
  BY TypedIsKept DEF Begun
<1>2. Kept'
  BY <1>1 DEF Begun, Kept, Settled
<1>3. asked' \in [Requests -> Askings] /\ \A q \in Requests : Fits(asked'[q])
  BY <1>1, AskedTyped
<1>. QED  BY <1>2, <1>3, TypedSplitNext

LEMMA SteppedTyped ==
  ASSUME Typed, NEW r \in Requests, NEW a, Stepped(r, a), Fits(a),
         provider' \in BOOLEAN, model' \in Models \cup {NoModel},
         gateway' \in [serves : SUBSET Deployments, key : Requests \cup {None}],
         Settled(base'), disabled' \subseteq Agents, flavor' \in Flavors \cup {NoFlavor},
         releases' \subseteq Versions \X Sources, wanted' \subseteq Addons
  PROVE  Typed'
<1>1. asked' \in [Requests -> Askings] /\ \A q \in Requests : Fits(asked'[q])
  BY AskedTyped DEF Stepped
<1>2. Kept'
  BY DEF Kept, Stepped
<1>. QED  BY <1>1, <1>2, TypedSplitNext

LEMMA TypedNext ==
  ASSUME MaxFaults \in Nat, Typed, [CatalogueNext]_catalogue
  PROVE  Typed'
<1>. USE TypedIsKept DEF Kept
<1>1. CASE SetProviderKey
  BY <1>1, TypedSplitNext DEF SetProviderKey, Settled, Typed
<1>2. ASSUME NEW a \in Agents, SetEnabled(a) PROVE Typed'
  BY <1>2, TypedSplitNext DEF SetEnabled, Settled, Typed
<1>3. ASSUME NEW r \in Requests,
             \/ OnboardLLMModel(r) \/ TestLLMModel(r) \/ PublishLLMModel(r)
             \/ DeleteLLMModel(r) \/ Publish(r) \/ Update(r)
             \/ \E s \in Sources : UpdateDraft(r, s)
             \/ \E a \in Agents : Create(r, a)
             \/ \E addons \in SUBSET Addons : SetAddons(r, addons)
      PROVE  Typed'
  BY <1>3, BegunTyped, OnboardBegins, TestBegins, PublishBegins, DeleteBegins,
     ReleaseBegins, UpdateBegins, DraftBegins, CreateBegins, AddonsBegins
<1>4. ASSUME NEW r \in Pending
      PROVE  r \in Requests /\ Fits(asked[r]) /\ asked[r] \in Askings
  BY DEF Pending, Typed
<1>5. Unused("over").op = "over" /\ Fits(Unused("over"))
  BY OverFits DEF Unused, Over
<1>6. ASSUME NEW r \in Pending, AddModel(r) PROVE Typed'
  <2>1. asked[r].op = "onboard" /\ OnModel
    BY <1>6, AddSteps
  <2>2. Fits([asked[r] EXCEPT !.todo = <<"resolve", "save">>])
    BY <2>1, <1>4, PlansOf, OnwardFits
  <2>3. \E a : Stepped(r, a) /\ Fits(a)
    BY <1>6, <1>5, <2>2, AddSteps
  <2>0. UNCHANGED model /\ gateway' = [gateway EXCEPT !.serves = @ \cup {r}]
    BY <1>6, AddSteps
  <2>4. /\ model' \in Models \cup {NoModel}
        /\ gateway' \in [serves : SUBSET Deployments, key : Requests \cup {None}]
    BY <1>4, <2>0 DEF Deployments
  <2>. QED  BY <1>4, <2>1, <2>3, <2>4, SteppedTyped DEF OnModel
<1>7. ASSUME NEW r \in Pending, ResolveLiteLLMID(r) PROVE Typed'
  <2>1. asked[r].op = "onboard" /\ OnModel /\ UNCHANGED <<model, gateway>>
    BY <1>7, ResolveSteps
  <2>2. Fits([asked[r] EXCEPT !.todo = <<"save">>])
    BY <2>1, <1>4, PlansOf, OnwardFits
  <2>3. ASSUME NEW id \in gateway.serves
        PROVE  Fits([asked[r] EXCEPT !.model.id = id, !.todo = <<"save">>])
    <3>. DEFINE a == [asked[r] EXCEPT !.todo = <<"save">>]
    <3>1. a.op = "onboard" /\ a.model \in Models /\ id \in Deployments /\ Fits(a)
      BY <2>1, <2>2, <1>4 DEF Fits, Askings, OnModels
    <3>2. [asked[r] EXCEPT !.model.id = id, !.todo = <<"save">>] = [a EXCEPT !.model.id = id]
      BY <1>4 DEF Askings
    <3>. HIDE DEF a
    <3>. DEFINE n == [a EXCEPT !.model.id = id]
    <3>3. n \in Askings
      BY <3>1 DEF Fits, Askings, Models
    <3>4. n.op = "onboard" /\ n.todo = a.todo /\ n.model \in Models
      BY <3>1 DEF Fits, Askings, Models
    <3>5. n.todo \in Plans(n.op)
      BY <3>1, <3>4 DEF Fits
    <3>. HIDE DEF n
    <3>6. Fits(n)
      BY <3>3, <3>4, <3>5 DEF Fits, OnBases, OnFlavors
    <3>. QED  BY <3>2, <3>6 DEF n
  <2>4. \E a : Stepped(r, a) /\ Fits(a)
    BY <1>7, <2>2, <2>3, ResolveSteps
  <2>. QED  BY <1>4, <2>1, <2>4, SteppedTyped DEF OnModel
<1>8. ASSUME NEW r \in Pending, UpsertLLMModel(r) PROVE Typed'
  <2>1. OnModel /\ UNCHANGED gateway /\ model' = asked[r].model
    BY <1>8, SaveSteps
  <2>2. asked[r].op = "test" => Fits([asked[r] EXCEPT !.todo = <<"unkey">>])
    BY <1>4, PlansOf, OnwardFits
  <2>3. \E a : Stepped(r, a) /\ Fits(a)
    BY <1>5, <1>8, <2>2, SaveSteps
  <2>4. asked[r].model \in Models \cup {NoModel}
    BY <1>4 DEF Askings
  <2>. QED  BY <1>4, <2>1, <2>3, <2>4, SteppedTyped DEF OnModel
<1>9. ASSUME NEW r \in Pending, DeleteModel(r) PROVE Typed'
  <2>1. asked[r].op = "delete" /\ OnModel
    BY <1>9, UnaddSteps
  <2>2. Fits([asked[r] EXCEPT !.todo = <<"drop">>])
    BY <2>1, <1>4, PlansOf, OnwardFits
  <2>3. \E a : Stepped(r, a) /\ Fits(a)
    BY <1>9, <1>5, <2>2, UnaddSteps
  <2>0. UNCHANGED model /\ gateway' = [gateway EXCEPT !.serves = @ \ {asked[r].model.id}]
    BY <1>9, UnaddSteps
  <2>4. /\ model' \in Models \cup {NoModel}
        /\ gateway' \in [serves : SUBSET Deployments, key : Requests \cup {None}]
    BY <1>4, <2>0
  <2>. QED  BY <1>4, <2>1, <2>3, <2>4, SteppedTyped DEF OnModel
<1>10. ASSUME NEW r \in Pending, DropLLMModel(r) PROVE Typed'
  <2>1. asked[r].op = "delete" /\ OnModel
    BY <1>10, DropSteps
  <2>3. \E a : Stepped(r, a) /\ Fits(a)
    BY <1>10, <1>5, DropSteps
  <2>4. /\ model' \in Models \cup {NoModel}
        /\ gateway' \in [serves : SUBSET Deployments, key : Requests \cup {None}]
    BY <1>4, <1>10, DropSteps
  <2>. QED  BY <1>4, <2>1, <2>3, <2>4, SteppedTyped DEF OnModel
<1>11. ASSUME NEW r \in Pending, GenerateKey(r) PROVE Typed'
  <2>1. asked[r].op = "test" /\ OnModel /\ UNCHANGED model
        /\ gateway' \in {gateway, [gateway EXCEPT !.key = r]}
    BY <1>11, KeySteps
  <2>2. Fits([asked[r] EXCEPT !.todo = <<"ping", "unkey", "recheck", "save", "unkey">>])
    BY <2>1, <1>4, PlansOf, OnwardFits
  <2>3. \E a : Stepped(r, a) /\ Fits(a)
    BY <1>11, <1>5, <2>2, KeySteps
  <2>4. gateway' \in [serves : SUBSET Deployments, key : Requests \cup {None}]
    BY <1>4, <2>1
  <2>. QED  BY <1>4, <2>1, <2>3, <2>4, SteppedTyped DEF OnModel
<1>12. ASSUME NEW r \in Pending, TestCompletion(r) PROVE Typed'
  <2>1. asked[r].op = "test" /\ OnModel /\ UNCHANGED <<model, gateway>>
    BY <1>12, PingSteps
  <2>2. Fits([asked[r] EXCEPT !.todo = <<"unkey">>])
    BY <2>1, <1>4, PlansOf, OnwardFits
  <2>3. ASSUME NEW b \in gateway.serves \cup {None}
        PROVE  Fits([asked[r] EXCEPT !.answered = b,
                                     !.todo = <<"unkey", "recheck", "save", "unkey">>])
    <3>. DEFINE a == [asked[r] EXCEPT !.todo = <<"unkey", "recheck", "save", "unkey">>]
    <3>1. a.op = "test" /\ b \in Deployments \cup {None} /\ Fits(a)
      BY <2>1, <1>4, PlansOf, OnwardFits DEF Askings
    <3>2. [asked[r] EXCEPT !.answered = b, !.todo = <<"unkey", "recheck", "save", "unkey">>]
            = [a EXCEPT !.answered = b]
      BY <1>4 DEF Askings
    <3>. HIDE DEF a
    <3>. QED  BY <3>1, <3>2 DEF Fits, Askings
  <2>4. \E a : Stepped(r, a) /\ Fits(a)
    BY <1>12, <2>2, <2>3, PingSteps
  <2>. QED  BY <1>4, <2>1, <2>4, SteppedTyped DEF OnModel
<1>13. ASSUME NEW r \in Pending, DeleteKeyByAlias(r) PROVE Typed'
  <2>1. asked[r].op = "test" /\ OnModel
    BY <1>13, UnkeySteps
  <2>2. Fits([asked[r] EXCEPT !.todo = <<"recheck", "save", "unkey">>])
        /\ Fits([asked[r] EXCEPT !.todo = <<"save", "unkey">>])
    BY <2>1, <1>4, PlansOf, OnwardFits
  <2>3. \E a : Stepped(r, a) /\ Fits(a)
    BY <1>13, <1>5, <2>2, UnkeySteps
  <2>4. /\ model' \in Models \cup {NoModel}
        /\ gateway' \in [serves : SUBSET Deployments, key : Requests \cup {None}]
    BY <1>4, <1>13, UnkeySteps
  <2>. QED  BY <1>4, <2>1, <2>3, <2>4, SteppedTyped DEF OnModel
<1>14. ASSUME NEW r \in Pending, RecheckKey(r) PROVE Typed'
  <2>1. asked[r].op = "test" /\ OnModel /\ UNCHANGED <<model, gateway>>
    BY <1>14, RecheckSteps
  <2>2. Fits([asked[r] EXCEPT !.todo = <<"save", "unkey">>])
    BY <2>1, <1>4, PlansOf, OnwardFits
  <2>3. ASSUME NEW b \in {asked[r].answered, None}
        PROVE  Fits([asked[r] EXCEPT !.model.answered = b, !.todo = <<"save", "unkey">>])
    <3>. DEFINE a == [asked[r] EXCEPT !.todo = <<"save", "unkey">>]
    <3>1. a.op = "test" /\ a.model \in Models /\ b \in Deployments \cup {None} /\ Fits(a)
      BY <2>1, <2>2, <1>4 DEF Fits, Askings, OnModels
    <3>2. [asked[r] EXCEPT !.model.answered = b, !.todo = <<"save", "unkey">>]
            = [a EXCEPT !.model.answered = b]
      BY <1>4 DEF Askings
    <3>. HIDE DEF a
    <3>. DEFINE n == [a EXCEPT !.model.answered = b]
    <3>3. n \in Askings
      BY <3>1 DEF Fits, Askings, Models
    <3>4. n.op = "test" /\ n.todo = a.todo /\ n.model \in Models
      BY <3>1 DEF Fits, Askings, Models
    <3>5. n.todo \in Plans(n.op)
      BY <3>1, <3>4 DEF Fits
    <3>. HIDE DEF n
    <3>6. Fits(n)
      BY <3>3, <3>4, <3>5 DEF Fits, OnBases, OnFlavors
    <3>. QED  BY <3>2, <3>6 DEF n
  <2>4. \E a : Stepped(r, a) /\ Fits(a)
    BY <1>14, <2>2, <2>3, RecheckSteps
  <2>. QED  BY <1>4, <2>1, <2>4, SteppedTyped DEF OnModel
<1>15. ASSUME NEW r \in Pending, UpsertBaseJobTemplate(r) PROVE Typed'
  <2>1. /\ UNCHANGED <<provider, model, gateway, disabled, flavor, wanted>>
        /\ base' = asked[r].base /\ Settled(base')
        /\ releases' = releases \cup {<<base'.version, base'.published>>}
        /\ Stepped(r, Unused("over"))
    BY <1>4, <1>15, BaseSteps DEF Fits, OnTemplates
  <2>2. releases' \subseteq Versions \X Sources
    BY <2>1 DEF Settled, Bases
  <2>. QED  BY <1>4, <1>5, <2>1, <2>2, SteppedTyped
<1>16. ASSUME NEW r \in Pending, SaveFlavor(r) PROVE Typed'
  <2>1. /\ UNCHANGED <<provider, model, gateway, disabled, base, releases>>
        /\ flavor' \in Flavors
        /\ wanted' = wanted \/ wanted' = flavor'.addons
        /\ Stepped(r, Unused("over"))
    BY <1>4, <1>16, FlavorSteps DEF Fits, OnTemplates
  <2>2. wanted' \subseteq Addons
    BY <2>1 DEF Flavors
  <2>. QED  BY <1>4, <1>5, <2>1, <2>2, SteppedTyped
<1>17. ASSUME NEW r \in Pending, CallFails(r) PROVE Typed'
  <2>1. OnModel /\ UNCHANGED <<model, gateway>>
    BY <1>17, FailureSteps
  <2>2. \A rest \in Plans(asked[r].op) : Fits([asked[r] EXCEPT !.todo = rest])
    BY <1>4, OnwardFits
  <2>3. \E a : Stepped(r, a) /\ Fits(a)
    BY <1>5, <1>17, <2>2, PlansOf, FailureSteps
  <2>. QED  BY <1>4, <2>1, <2>3, SteppedTyped DEF OnModel
<1>18. CASE Crash
  BY <1>18, CrashSteps, TypedSplitNext DEF OnModel, Settled
<1>19. CASE UNCHANGED catalogue
  BY <1>19, TypedSplitNext DEF catalogue, Settled, Typed
<1>. QED
  BY <1>1, <1>2, <1>3, <1>6, <1>7, <1>8, <1>9, <1>10, <1>11, <1>12, <1>13, <1>14, <1>15,
     <1>16, <1>17, <1>18, <1>19 DEF CatalogueNext

--------------------------------------------------------------------------------
(* The base and the template                                               *)

\* A step on the model leaves the other rows, and the requests that hold them.
OnTheModel(r) ==
  \/ AddModel(r) \/ ResolveLiteLLMID(r) \/ UpsertLLMModel(r)
  \/ DeleteModel(r) \/ DropLLMModel(r)
  \/ GenerateKey(r) \/ TestCompletion(r) \/ DeleteKeyByAlias(r) \/ RecheckKey(r)

LEMMA ModelSteps ==
  ASSUME MaxFaults \in Nat, Typed, NEW r \in Pending, OnTheModel(r) \/ CallFails(r)
  PROVE  /\ OnModel /\ notes \subseteq notes' /\ r \in Requests
         /\ \E a : /\ asked' = [asked EXCEPT ![r] = a]
                   /\ a.op = "over" \/ (asked[r].op \in OnModels /\ a.op = asked[r].op)
<1>. DEFINE Same(a) == a.op = "over" \/ (asked[r].op \in OnModels /\ a.op = asked[r].op)
<1>. SUFFICES /\ OnModel
              /\ \E a : Stepped(r, a) /\ Same(a)
  BY DEF Stepped, Pending
<1>1. asked[r] \in Askings /\ Same(Unused("over"))
  <2>1. asked[r] \in Askings
    BY DEF Pending, Typed
  <2>2. Unused("over").op = "over"
    BY DEF Unused
  <2>. QED  BY <2>1, <2>2
<1>2. ASSUME asked[r].op \in OnModels
      PROVE  /\ \A todo : Same([asked[r] EXCEPT !.todo = todo])
             /\ \A id : Same([asked[r] EXCEPT !.model.id = id, !.todo = <<"save">>])
             /\ \A b : Same([asked[r] EXCEPT !.model.answered = b,
                                             !.todo = <<"save", "unkey">>])
             /\ \A b : Same([asked[r] EXCEPT !.answered = b,
                               !.todo = <<"unkey", "recheck", "save", "unkey">>])
  BY <1>1, <1>2 DEF Askings
<1>. HIDE DEF Same
<1>3. CASE AddModel(r)
  BY <1>1, <1>2, <1>3, AddSteps DEF OnModels
<1>4. CASE ResolveLiteLLMID(r)
  BY <1>1, <1>2, <1>4, ResolveSteps DEF OnModels
<1>5. CASE UpsertLLMModel(r)
  BY <1>1, <1>2, <1>5, SaveSteps DEF OnModels
<1>6. CASE DeleteModel(r)
  BY <1>1, <1>2, <1>6, UnaddSteps DEF OnModels
<1>7. CASE DropLLMModel(r)
  BY <1>1, <1>2, <1>7, DropSteps DEF OnModels
<1>8. CASE GenerateKey(r)
  BY <1>1, <1>2, <1>8, KeySteps DEF OnModels
<1>9. CASE TestCompletion(r)
  BY <1>1, <1>2, <1>9, PingSteps DEF OnModels
<1>10. CASE DeleteKeyByAlias(r)
  BY <1>1, <1>2, <1>10, UnkeySteps DEF OnModels
<1>11. CASE RecheckKey(r)
  BY <1>1, <1>2, <1>11, RecheckSteps DEF OnModels
<1>12. CASE CallFails(r)
  BY <1>1, <1>2, <1>12, FailureSteps DEF OnModels
<1>. QED
  BY <1>3, <1>4, <1>5, <1>6, <1>7, <1>8, <1>9, <1>10, <1>11, <1>12 DEF OnTheModel

LEMMA BasedInit == CatalogueInit => Based
<1>. SUFFICES ASSUME CatalogueInit PROVE Based
  OBVIOUS
<1>1. PICK s \in Sources, draft \in Sources :
        /\ base = [SeedBaseTemplates(s) EXCEPT !.draft = draft,
                     !.status = IF draft = s THEN @ ELSE "draft"]
        /\ releases = {<<1, s>>}
        /\ \/ flavor = NoFlavor /\ wanted = {}
           \/ \E a \in Agents, addons \in SUBSET Addons :
                flavor = Derived(s, a, addons) /\ wanted = addons
  BY DEF CatalogueInit
<1>2. base.version = 1 /\ base.published = s
  BY <1>1 DEF SeedBaseTemplates
<1>3. \A r \in Requests : asked[r].op = "new"
  BY DEF CatalogueInit, Unused
<1>4. flavor # NoFlavor => Baked(flavor) /\ flavor.addons = wanted
  <2>. SUFFICES ASSUME NEW a \in Agents, NEW addons \in SUBSET Addons,
                       flavor = Derived(s, a, addons), wanted = addons
                PROVE  Baked(flavor) /\ flavor.addons = wanted
    BY <1>1
  <2>. HIDE DEF Inject
  <2>. QED  BY <1>1 DEF Derived, Baked
<1>. QED
  BY <1>1, <1>2, <1>3, <1>4 DEF Based, OnFlavors

\* Steps on other rows keep what is said of the base and the template.
LEMMA BasedFrame ==
  ASSUME Based, UNCHANGED <<base, flavor, releases, wanted>>, notes \subseteq notes',
         \A q \in Requests :
           asked'[q].op \in OnBases \cup OnFlavors => asked'[q] = asked[q]
  PROVE  Based'
BY DEF Based, Baked, OnBases, OnFlavors

\* So does an operation that begins, when what it holds is in order.
LEMMA BasedBegin ==
  ASSUME Typed, Based, NEW r \in Requests, NEW new, Begun(r, new),
         new.op = "draft" => /\ new.base.version = base.version
                             /\ new.base.published = base.published,
         new.op = "release" => new.base.version = base.version + 1,
         new.op \in OnFlavors => Baked(new.flavor),
         new.op = "update" /\ "raced" \notin notes => new.flavor.addons = wanted
  PROVE  Based'
<1>1. \A q \in Requests : asked'[q] = IF q = r THEN new ELSE asked[q]
  BY DEF Begun, Typed
<1>2. UNCHANGED <<base, flavor, releases, wanted, notes>>
  BY DEF Begun
<1>3. \A f : Baked(f) => Baked(f)'
  BY <1>2 DEF Baked
<1>. QED
  BY <1>1, <1>2, <1>3 DEF Based

LEMMA BasedSaveBase ==
  ASSUME MaxFaults \in Nat, Typed, Based, NEW r \in Pending, UpsertBaseJobTemplate(r)
  PROVE  Based'
<1>. DEFINE new == asked[r].base
<1>1. /\ asked[r].op \in OnBases /\ base' = new
      /\ releases' = releases \cup {<<base'.version, base'.published>>}
      /\ UNCHANGED <<flavor, wanted>> /\ Stepped(r, Unused("over"))
  BY BaseSteps
<1>2. r \in Requests /\ Settled(new) /\ Settled(base)
  BY <1>1 DEF Pending, Typed, Fits, PlatformTypeOK, Settled
<1>3. \A q \in Requests : asked'[q] = IF q = r THEN Unused("over") ELSE asked[q]
  BY <1>1 DEF Stepped, Typed
<1>4. Unused("over").op = "over" /\ notes \subseteq notes'
  BY <1>1 DEF Unused, Stepped
<1>5. \A f : Baked(f) => Baked(f)'
  BY <1>1 DEF Baked
<1>6. /\ <<base'.version, base'.published>> \in releases'
      /\ flavor' # NoFlavor => Baked(flavor)'
      /\ \A q \in Requests : asked'[q].op \in OnFlavors => Baked(asked[q].flavor)'
  BY <1>1, <1>3, <1>4, <1>5 DEF Based, OnFlavors
<1>7. ASSUME "raced" \notin notes'
      PROVE  /\ \A p, q \in releases' : p[1] = q[1] => p[2] = q[2]
             /\ \A p \in releases' : p[1] <= base'.version
             /\ \A q \in Requests :
                  /\ asked'[q].op = "draft" =>
                       asked'[q].base.version = base'.version
                         /\ asked'[q].base.published = base'.published
                  /\ asked'[q].op = "release" =>
                       asked'[q].base.version = base'.version + 1
  <2>1. "raced" \notin notes
    BY <1>4, <1>7
  <2>2. \A q \in Pending \ {r} : ~Clash(asked[q], asked[r])
    BY <1>1, <1>7 DEF Stepped, Clashing
  <2>3. releases \subseteq Versions \X Sources /\ base.version \in Nat /\ new.version \in Nat
        /\ base.published \in Sources /\ new.published \in Sources
    BY <1>2 DEF Typed, PlatformTypeOK, Settled, Bases, Versions
  <2>4. \A p \in releases : p[1] \in Nat
    BY <2>3 DEF Versions
  <2>5. CASE asked[r].op = "draft"
    <3>1. new.version = base.version /\ new.published = base.published
      BY <2>1, <2>5, <1>2 DEF Based
    <3>2. releases' = releases
      BY <1>1, <3>1 DEF Based
    <3>3. \A q \in Requests \ {r} : asked[q].op # "release"
      <4>. SUFFICES ASSUME NEW q \in Requests \ {r}, asked[q].op = "release" PROVE FALSE
        OBVIOUS
      <4>1. q \in Pending \ {r}
        BY DEF Pending, Over
      <4>. QED  BY <2>2, <2>5, <4>1 DEF Clash
    <3>. QED  BY <2>1, <3>1, <3>2, <3>3, <1>1, <1>3, <1>4 DEF Based
  <2>6. CASE asked[r].op = "release"
    <3>1. new.version = base.version + 1
      BY <2>1, <2>6, <1>2 DEF Based
    <3>2. \A q \in Requests \ {r} : asked[q].op \notin {"draft", "release"}
      <4>. SUFFICES ASSUME NEW q \in Requests \ {r}, asked[q].op \in {"draft", "release"}
                    PROVE FALSE
        OBVIOUS
      <4>1. q \in Pending \ {r}
        BY DEF Pending, Over
      <4>. QED  BY <2>2, <2>6, <4>1 DEF Clash
    <3>3. \A p \in releases : p[1] <= base.version
      BY <2>1 DEF Based
    <3>4. \A p, q \in releases : p[1] = q[1] => p[2] = q[2]
      BY <2>1 DEF Based
    <3>. DEFINE added == <<new.version, new.published>>
    <3>5. added[1] = new.version /\ added[2] = new.published
      OBVIOUS
    <3>6. releases' = releases \cup {added} /\ base'.version = new.version
      BY <1>1
    <3>. HIDE DEF added
    <3>7. \A p \in releases' : p[1] <= base'.version
      BY <2>3, <2>4, <3>1, <3>3, <3>5, <3>6
    <3>8. \A p \in releases : p[1] # added[1]
      BY <2>3, <2>4, <3>1, <3>3, <3>5
    <3>9. \A p, q \in releases' : p[1] = q[1] => p[2] = q[2]
      BY <3>4, <3>6, <3>8
    <3>. QED  BY <3>2, <3>7, <3>9, <1>3, <1>4
  <2>. QED  BY <1>1, <2>5, <2>6 DEF OnBases
<1>8. ASSUME "raced" \notin notes'
      PROVE  /\ flavor' # NoFlavor => flavor'.addons = wanted'
             /\ \A q \in Requests : asked'[q].op = "update" =>
                  asked'[q].flavor.addons = wanted'
  BY <1>1, <1>3, <1>4, <1>8 DEF Based
<1>. QED
  BY <1>6, <1>7, <1>8 DEF Based

LEMMA BasedSaveFlavor ==
  ASSUME MaxFaults \in Nat, Typed, Based, NEW r \in Pending, SaveFlavor(r)
  PROVE  Based'
<1>1. /\ asked[r].op \in OnFlavors /\ flavor' = asked[r].flavor
      /\ wanted' = IF asked[r].op = "update" THEN wanted ELSE asked[r].flavor.addons
      /\ UNCHANGED <<base, releases>> /\ Stepped(r, Unused("over"))
  BY FlavorSteps
<1>2. r \in Requests
  BY DEF Pending
<1>3. \A q \in Requests : asked'[q] = IF q = r THEN Unused("over") ELSE asked[q]
  BY <1>1, <1>2 DEF Stepped, Typed
<1>4. Unused("over").op = "over" /\ notes \subseteq notes'
  BY <1>1 DEF Unused, Stepped
<1>5. \A f : Baked(f) => Baked(f)'
  BY <1>1 DEF Baked
<1>6. /\ <<base'.version, base'.published>> \in releases'
      /\ flavor' # NoFlavor => Baked(flavor)'
      /\ \A q \in Requests : asked'[q].op \in OnFlavors => Baked(asked[q].flavor)'
  BY <1>1, <1>2, <1>3, <1>4, <1>5 DEF Based, OnFlavors
<1>7. ASSUME "raced" \notin notes'
      PROVE  /\ flavor'.addons = wanted'
             /\ \A q \in Requests : asked'[q].op # "update"
  <2>1. "raced" \notin notes
    BY <1>4, <1>7
  <2>2. \A q \in Pending \ {r} : ~Clash(asked[q], asked[r])
    BY <1>1, <1>7 DEF Stepped, Clashing
  <2>3. \A q \in Requests \ {r} : asked[q].op # "update"
    <3>. SUFFICES ASSUME NEW q \in Requests \ {r}, asked[q].op = "update" PROVE FALSE
      OBVIOUS
    <3>1. q \in Pending \ {r}
      BY DEF Pending, Over
    <3>. QED  BY <1>1, <2>2, <3>1 DEF Clash, OnFlavors
  <2>. QED  BY <1>1, <1>2, <1>3, <1>4, <2>1, <2>3 DEF Based
<1>8. ASSUME "raced" \notin notes'
      PROVE  /\ \A p, q \in releases' : p[1] = q[1] => p[2] = q[2]
             /\ \A p \in releases' : p[1] <= base'.version
             /\ \A q \in Requests :
                  /\ asked'[q].op = "draft" =>
                       asked'[q].base.version = base'.version
                         /\ asked'[q].base.published = base'.published
                  /\ asked'[q].op = "release" =>
                       asked'[q].base.version = base'.version + 1
  BY <1>1, <1>3, <1>4, <1>8 DEF Based
<1>. QED
  BY <1>6, <1>7, <1>8 DEF Based

LEMMA BasedNext ==
  ASSUME MaxFaults \in Nat, Typed, Based, [CatalogueNext]_catalogue
  PROVE  Based'
<1>1. CASE SetProviderKey \/ (\E a \in Agents : SetEnabled(a)) \/ UNCHANGED catalogue
  BY <1>1, BasedFrame DEF SetProviderKey, SetEnabled, catalogue
<1>2. ASSUME NEW r \in Requests,
             \/ OnboardLLMModel(r) \/ TestLLMModel(r) \/ PublishLLMModel(r)
             \/ DeleteLLMModel(r)
      PROVE  Based'
  BY <1>2, BasedBegin, OnboardBegins, TestBegins, PublishBegins, DeleteBegins
     DEF OnFlavors
<1>3. ASSUME NEW r \in Requests,
             \/ Publish(r) \/ Update(r)
             \/ \E s \in Sources : UpdateDraft(r, s)
             \/ \E a \in Agents : Create(r, a)
             \/ \E addons \in SUBSET Addons : SetAddons(r, addons)
      PROVE  Based'
  <2>1. /\ <<base.version, base.published>> \in releases
        /\ flavor # NoFlavor => Baked(flavor)
        /\ flavor # NoFlavor /\ "raced" \notin notes => flavor.addons = wanted
    BY DEF Based
  <2>2. CASE Publish(r)
    BY <2>2, BasedBegin, ReleaseBegins DEF OnFlavors
  <2>3. CASE Update(r)
    BY <2>1, <2>3, BasedBegin, UpdateBegins
  <2>4. ASSUME NEW s \in Sources, UpdateDraft(r, s) PROVE Based'
    BY <2>4, BasedBegin, DraftBegins DEF OnFlavors
  <2>5. ASSUME NEW a \in Agents, Create(r, a) PROVE Based'
    BY <2>1, <2>5, BasedBegin, CreateBegins
  <2>6. ASSUME NEW addons \in SUBSET Addons, SetAddons(r, addons) PROVE Based'
    BY <2>1, <2>6, BasedBegin, AddonsBegins
  <2>. QED  BY <1>3, <2>2, <2>3, <2>4, <2>5, <2>6
<1>4. ASSUME NEW r \in Pending, OnTheModel(r) \/ CallFails(r) PROVE Based'
  <2>1. /\ OnModel /\ notes \subseteq notes'
        /\ \A q \in Requests :
             asked'[q].op \in OnBases \cup OnFlavors => asked'[q] = asked[q]
    BY <1>4, ModelSteps DEF Typed, OnModels, OnBases, OnFlavors
  <2>. QED  BY <2>1, BasedFrame DEF OnModel
<1>5. CASE Crash
  BY <1>5, CrashSteps, BasedFrame DEF OnModel, Over, OnBases, OnFlavors
<1>6. ASSUME NEW r \in Pending, UpsertBaseJobTemplate(r) PROVE Based'
  BY <1>6, BasedSaveBase
<1>7. ASSUME NEW r \in Pending, SaveFlavor(r) PROVE Based'
  BY <1>7, BasedSaveFlavor
<1>. QED
  BY <1>1, <1>2, <1>3, <1>4, <1>5, <1>6, <1>7 DEF CatalogueNext, OnTheModel


--------------------------------------------------------------------------------
(* The model and the gateway                                               *)

\* What the steps on the model leave alone keeps the invariant's three parts.
LEMMA ModelFrame ==
  ASSUME Typed, Modelled, Keyed, Served, UNCHANGED <<model, gateway>>,
         notes \subseteq notes',
         \A q \in Requests : \/ asked'[q] = asked[q]
                             \/ asked[q].op \notin OnModels /\ asked'[q].op \notin OnModels
  PROVE  Modelled' /\ Keyed' /\ Served'
<1>1. Modelled'
  BY DEF Modelled, PastAdd, OnModels
<1>2. Keyed'
  <2>1. gateway.key \in Requests \cup {None}
    BY DEF Typed, PlatformTypeOK
  <2>. QED  BY <2>1 DEF Keyed, OnModels
<1>3. Served'
  BY DEF Served, PastAdd, Dropping, OnModels
<1>. QED  BY <1>1, <1>2, <1>3

\* Who is beside a step that notes no race.
LEMMA Unraced ==
  ASSUME Typed, NEW r \in Pending, NEW a, Stepped(r, a), "raced" \notin notes'
  PROVE  /\ r \in Requests
         /\ \A q \in Requests : asked'[q] = IF q = r THEN a ELSE asked[q]
         /\ asked[r].op \in {"onboard", "delete"} =>
              \A q \in Requests \ {r} : asked[q].op \notin OnModels
         /\ asked[r].op \in OnModels =>
              \A q \in Requests \ {r} : asked[q].op \notin {"onboard", "delete"}
         /\ asked[r].op = "test" =>
              \A q \in Requests \ {r} :
                asked[q].op = "test" => asked[q].model.status = asked[r].model.status
<1>1. r \in Requests /\ \A q \in Requests : asked'[q] = IF q = r THEN a ELSE asked[q]
  BY DEF Pending, Stepped, Typed
<1>2. \A q \in Pending \ {r} : ~Clash(asked[q], asked[r])
  BY DEF Stepped, Clashing
<1>3. \A q \in Requests : asked[q].op \in OnModels => q \in Pending
  BY DEF Pending, OnModels, Over
<1>. QED
  BY <1>1, <1>2, <1>3 DEF Clash, OnModels

\* The conclusion of Modelled.
Known ==
  /\ model # NoModel =>
       /\ gateway.serves \subseteq {model.backend}
       /\ model.id \in {None, model.backend} /\ model.answered \in {None, model.backend}
  /\ \A r \in Requests :
       /\ PastAdd(asked[r]) => model = NoModel /\ gateway.serves \subseteq {r}
       /\ asked[r].op = "onboard" =>
            /\ asked[r].model.backend = r /\ asked[r].model.id \in {None, r}
            /\ asked[r].model.status = "draft" /\ asked[r].model.answered = None
       /\ asked[r].op \in {"test", "publish", "delete"} =>
            /\ model # NoModel
            /\ asked[r].model.backend = model.backend /\ asked[r].model.id = model.id
            /\ {asked[r].model.answered, asked[r].answered} \subseteq {None, model.backend}
       /\ asked[r].op = "publish" =>
            asked[r].model.answered # None /\ asked[r].model.status = "published"
       /\ asked[r].op = "test" /\ asked[r].model.status = "published" =>
            model.status = "published"

LEMMA ModelledInit ==
  ASSUME None \notin Deployments, CatalogueInit
  PROVE  Modelled /\ Keyed /\ Served
<1>1. \A r \in Requests : asked[r].op = "new"
  BY DEF CatalogueInit, Unused
<1>2. CASE model = NoModel /\ gateway = [serves |-> {}, key |-> None]
  BY <1>1, <1>2 DEF Modelled, Keyed, Served, PastAdd, Dropping
<1>3. ASSUME NEW stage, Onboarded(stage)
      PROVE  Modelled /\ Keyed /\ Served
  <2>1. /\ gateway.serves = {Founder} /\ gateway.key = None
        /\ model.backend = Founder /\ model.id = Founder
        /\ model.answered \in {None, Founder} /\ model # NoModel
    BY <1>3 DEF Onboarded, NoModel
  <2>2. None # Founder
    BY DEF Deployments
  <2>. QED  BY <1>1, <2>1, <2>2 DEF Modelled, Keyed, Served, PastAdd, Dropping
<1>. QED  BY <1>2, <1>3 DEF CatalogueInit

LEMMA BegunKnown ==
  ASSUME Typed, Modelled, NEW r \in Requests, NEW new, Begun(r, new),
         ~PastAdd(new),
         new.op = "onboard" => /\ new.model.backend = r /\ new.model.id = None
                               /\ new.model.status = "draft" /\ new.model.answered = None,
         new.op \in {"test", "publish", "delete"} =>
           /\ model # NoModel /\ new.answered = None
           /\ new.model.backend = model.backend /\ new.model.id = model.id
           /\ new.model.answered \in {None, model.answered},
         new.op = "publish" => new.model.answered # None /\ new.model.status = "published",
         new.op = "test" => new.model.status = model.status
  PROVE  Modelled'
<1>1. \A q \in Requests : asked'[q] = IF q = r THEN new ELSE asked[q]
  BY DEF Begun, Typed
<1>2. UNCHANGED <<model, gateway, notes>>
  BY DEF Begun
<1>. QED
  BY <1>1, <1>2 DEF Modelled

\* The model's row, where there is one.
LEMMA Rows ==
  ASSUME Typed, model # NoModel
  PROVE  model \in Models
BY DEF Typed, PlatformTypeOK

LEMMA ModelledBegin ==
  ASSUME Typed, Modelled, NEW r \in Requests,
         OnboardLLMModel(r) \/ TestLLMModel(r) \/ PublishLLMModel(r) \/ DeleteLLMModel(r)
  PROVE  Modelled'
<1>1. CASE OnboardLLMModel(r)
  <2>1. PICK new : /\ Begun(r, new) /\ new.op = "onboard"
                   /\ new.todo = <<"add", "resolve", "save">>
                   /\ new.model = [NoModel EXCEPT !.status = "draft", !.backend = r]
    BY <1>1, OnboardBegins
  <2>2. new.model.backend = r /\ new.model.id = None
        /\ new.model.status = "draft" /\ new.model.answered = None
    BY <2>1 DEF NoModel
  <2>. QED  BY <2>1, <2>2, BegunKnown DEF PastAdd
<1>2. CASE TestLLMModel(r)
  <2>1. PICK new : /\ Begun(r, new) /\ new.op = "test" /\ model # NoModel
                   /\ new.answered = None
                   /\ new.model = [model EXCEPT !.answered = None]
    BY <1>2, TestBegins
  <2>2. /\ new.model.backend = model.backend /\ new.model.id = model.id
        /\ new.model.answered = None /\ new.model.status = model.status
    BY <2>1, Rows DEF Models
  <2>. QED  BY <2>1, <2>2, BegunKnown DEF PastAdd
<1>3. CASE PublishLLMModel(r)
  <2>1. PICK new : /\ Begun(r, new) /\ new.op = "publish" /\ model # NoModel
                   /\ new.answered = None /\ model.answered # None
                   /\ new.model = [model EXCEPT !.status = "published"]
    BY <1>3, PublishBegins
  <2>2. /\ new.model.backend = model.backend /\ new.model.id = model.id
        /\ new.model.answered = model.answered /\ new.model.status = "published"
    BY <2>1, Rows DEF Models
  <2>. QED  BY <2>1, <2>2, BegunKnown DEF PastAdd
<1>4. CASE DeleteLLMModel(r)
  BY <1>4, DeleteBegins, BegunKnown DEF PastAdd
<1>. QED  BY <1>1, <1>2, <1>3, <1>4

\* No race, no second deployment: what is known before a step.
LEMMA KnownBefore ==
  ASSUME Typed, Modelled, notes \subseteq notes', notes' \cap {"raced", "doubled"} = {}
  PROVE  Known
BY DEF Modelled, Known

LEMMA ModelledStep ==
  ASSUME MaxFaults \in Nat, Typed, Modelled, NEW r \in Pending,
         OnTheModel(r) \/ CallFails(r)
  PROVE  Modelled'
<1>. SUFFICES ASSUME notes' \cap {"raced", "doubled"} = {} PROVE Known'
  BY DEF Modelled, Known
<1>1. Known /\ "raced" \notin notes' /\ "doubled" \notin notes'
  BY KnownBefore, ModelSteps
<1>2. r \in Requests /\ asked[r] \in Askings /\ Fits(asked[r])
  BY DEF Pending, Typed
<1>3. Unused("over").op = "over"
  BY DEF Unused
\* Nothing but the steps left changes.
<1>5. ASSUME UNCHANGED model, gateway'.serves = gateway.serves,
             NEW a, Stepped(r, a),
             \/ a.op = "over"
             \/ /\ a.op = asked[r].op /\ a.model = asked[r].model
                /\ a.answered = asked[r].answered
                /\ PastAdd(a) => PastAdd(asked[r])
      PROVE  Known'
  BY <1>1, <1>5, Unraced DEF Known, PastAdd
<1>6. CASE AddModel(r)
  <2>1. asked[r].op = "onboard" /\ UNCHANGED model /\ gateway.serves = {}
        /\ model = NoModel /\ gateway' = [gateway EXCEPT !.serves = @ \cup {r}]
    BY <1>1, <1>6, AddSteps
  <2>2. gateway'.serves = {r}
    BY <2>1 DEF Typed, PlatformTypeOK
  <2>. DEFINE b == [asked[r] EXCEPT !.todo = <<"resolve", "save">>]
  <2>4. b.op = asked[r].op /\ b.model = asked[r].model
    BY <1>2 DEF Askings
  <2>5. Stepped(r, b) \/ Stepped(r, Unused("over"))
    BY <1>6, AddSteps
  <2>. HIDE DEF b
  <2>3. PICK a : /\ Stepped(r, a)
                 /\ \/ a.op = "over"
                    \/ a.op = "onboard" /\ a.model = asked[r].model
    BY <1>3, <2>1, <2>4, <2>5
  <2>. QED  BY <1>1, <2>1, <2>2, <2>3, Unraced DEF Known, PastAdd, OnModels
<1>7. CASE ResolveLiteLLMID(r)
  <2>1. asked[r].op = "onboard" /\ UNCHANGED <<model, gateway>>
        /\ asked[r].todo = <<"resolve", "save">>
    BY <1>7, ResolveSteps
  <2>2. asked[r].model \in Models
    BY <1>2, <2>1 DEF Fits, OnModels
  <2>3. PastAdd(asked[r])
    BY <2>1, Onboarding DEF PastAdd
  <2>4. PICK a : /\ Stepped(r, a) /\ a.op = "onboard"
                 /\ a.model.backend = asked[r].model.backend
                 /\ a.model.status = asked[r].model.status
                 /\ a.model.answered = asked[r].model.answered
                 /\ a.model.id \in gateway.serves \cup {asked[r].model.id}
    <3>1. ASSUME NEW id, Stepped(r, [asked[r] EXCEPT !.model.id = id, !.todo = <<"save">>]),
                 id \in gateway.serves
          PROVE  \E a : /\ Stepped(r, a) /\ a.op = "onboard"
                        /\ a.model.backend = asked[r].model.backend
                        /\ a.model.status = asked[r].model.status
                        /\ a.model.answered = asked[r].model.answered
                        /\ a.model.id \in gateway.serves \cup {asked[r].model.id}
      <4>. DEFINE a == [asked[r] EXCEPT !.model.id = id, !.todo = <<"save">>]
      <4>1. /\ a.op = asked[r].op /\ a.model.backend = asked[r].model.backend
            /\ a.model.status = asked[r].model.status /\ a.model.id = id
            /\ a.model.answered = asked[r].model.answered
        BY <1>2, <2>2 DEF Askings, Models
      <4>2. Stepped(r, a)
        BY <3>1
      <4>. HIDE DEF a
      <4>. QED  BY <2>1, <3>1, <4>1, <4>2
    <3>. DEFINE b == [asked[r] EXCEPT !.todo = <<"save">>]
    <3>2. b.op = asked[r].op /\ b.model = asked[r].model
      BY <1>2 DEF Askings
    <3>3. Stepped(r, b) \/ \E id \in gateway.serves :
            Stepped(r, [asked[r] EXCEPT !.model.id = id, !.todo = <<"save">>])
      BY <1>7, ResolveSteps
    <3>. HIDE DEF b
    <3>. QED  BY <2>1, <3>1, <3>2, <3>3
  <2>. QED  BY <1>1, <1>2, <2>1, <2>3, <2>4, Unraced DEF Known, PastAdd, OnModels
<1>8. CASE UpsertLLMModel(r)
  <2>1. model' = asked[r].model /\ UNCHANGED gateway
    BY <1>8, SaveSteps
  <2>2. CASE asked[r].op = "onboard" /\ asked[r].todo = <<"save">>
             /\ Stepped(r, Unused("over"))
    <3>1. PastAdd(asked[r])
      BY <2>2, Onboarding, LastSteps DEF PastAdd
    <3>. QED  BY <1>1, <1>2, <1>3, <2>1, <2>2, <3>1, Unraced DEF Known, PastAdd, OnModels
  <2>. DEFINE b == [asked[r] EXCEPT !.todo = <<"unkey">>]
  <2>3. b.op = asked[r].op /\ b.model = asked[r].model /\ b.answered = asked[r].answered
    BY <1>2 DEF Askings
  <2>4. \/ asked[r].op = "test" /\ Stepped(r, b)
        \/ asked[r].op = "publish" /\ Stepped(r, Unused("over"))
        \/ /\ asked[r].op = "onboard" /\ asked[r].todo = <<"save">>
           /\ Stepped(r, Unused("over"))
    BY <1>8, SaveSteps
  <2>. HIDE DEF b
  <2>5. ASSUME asked[r].op \in {"publish", "test"}
        PROVE  Known'
    <3>1. /\ asked[r].model \in Models /\ model # NoModel
          /\ asked[r].model.backend = model.backend /\ asked[r].model.id = model.id
          /\ asked[r].model.answered \in {None, model.backend}
      BY <1>1, <1>2, <2>5 DEF Known, Fits, OnModels
    <3>2. asked[r].model # NoModel
      BY <3>1 DEF Models, NoModel
    <3>3. CASE asked[r].op = "test" /\ Stepped(r, b)
      BY <1>1, <1>2, <2>1, <2>3, <3>1, <3>2, <3>3, Unraced DEF Known, PastAdd, OnModels
    <3>4. CASE asked[r].op = "publish" /\ Stepped(r, Unused("over"))
      <4>1. \A q \in Requests : asked[q].op = "test" => asked[q].model.backend = model.backend
        BY <1>1 DEF Known
      <4>2. model'.status = "published"
        BY <2>1, <3>4, <1>1, <1>2 DEF Known
      <4>. QED
        BY <1>1, <1>2, <1>3, <2>1, <3>1, <3>2, <3>4, <4>2, Unraced DEF Known, PastAdd, OnModels
    <3>. QED  BY <2>4, <2>5, <3>3, <3>4
  <2>. QED  BY <2>2, <2>4, <2>5
<1>9. CASE DeleteModel(r)
  <2>1. asked[r].op = "delete" /\ UNCHANGED model
        /\ gateway' = [gateway EXCEPT !.serves = @ \ {asked[r].model.id}]
    BY <1>9, UnaddSteps
  <2>2. gateway'.serves \subseteq gateway.serves
    BY <2>1 DEF Typed, PlatformTypeOK
  <2>. DEFINE b == [asked[r] EXCEPT !.todo = <<"drop">>]
  <2>4. b.op = asked[r].op /\ b.model = asked[r].model /\ b.answered = asked[r].answered
    BY <1>2 DEF Askings
  <2>5. Stepped(r, b)
    BY <1>9, UnaddSteps
  <2>. HIDE DEF b
  <2>3. PICK a : Stepped(r, a) /\ a.op = "delete" /\ a.model = asked[r].model
                 /\ a.answered = asked[r].answered
    BY <2>1, <2>4, <2>5
  <2>. QED  BY <1>1, <2>1, <2>2, <2>3, Unraced DEF Known, PastAdd, OnModels
<1>10. CASE DropLLMModel(r)
  <2>1. asked[r].op = "delete" /\ model' = NoModel /\ UNCHANGED gateway
        /\ Stepped(r, Unused("over"))
    BY <1>10, DropSteps
  <2>. QED  BY <1>1, <1>3, <2>1, Unraced DEF Known, PastAdd, OnModels
<1>11. CASE GenerateKey(r)
  <2>1. asked[r].op = "test" /\ UNCHANGED model /\ gateway'.serves = gateway.serves
    BY <1>11, KeySteps DEF Typed, PlatformTypeOK
  <2>. DEFINE b1 == [asked[r] EXCEPT !.todo = <<"ping", "unkey", "recheck", "save", "unkey">>]
  <2>3. b1.op = asked[r].op /\ b1.model = asked[r].model
        /\ b1.answered = asked[r].answered
    BY <1>2 DEF Askings
  <2>4. Stepped(r, b1) \/ Stepped(r, Unused("over"))
    BY <1>11, KeySteps
  <2>. HIDE DEF b1
  <2>2. PICK a : /\ Stepped(r, a)
                 /\ \/ a.op = "over"
                    \/ /\ a.op = "test" /\ a.model = asked[r].model
                       /\ a.answered = asked[r].answered
    BY <1>3, <2>1, <2>3, <2>4
  <2>. QED  BY <1>5, <2>1, <2>2 DEF PastAdd
<1>12. CASE TestCompletion(r)
  <2>1. asked[r].op = "test" /\ UNCHANGED <<model, gateway>>
    BY <1>12, PingSteps
  <2>2. PICK a : /\ Stepped(r, a) /\ a.op = "test" /\ a.model = asked[r].model
                 /\ a.answered \in gateway.serves \cup {None, asked[r].answered}
    <3>1. ASSUME NEW b \in gateway.serves \cup {None},
                 Stepped(r, [asked[r] EXCEPT !.answered = b,
                               !.todo = <<"unkey", "recheck", "save", "unkey">>])
          PROVE  \E a : /\ Stepped(r, a) /\ a.op = "test" /\ a.model = asked[r].model
                        /\ a.answered \in gateway.serves \cup {None, asked[r].answered}
      <4>. DEFINE a == [asked[r] EXCEPT !.answered = b,
                          !.todo = <<"unkey", "recheck", "save", "unkey">>]
      <4>1. a.op = asked[r].op /\ a.model = asked[r].model /\ a.answered = b
        BY <1>2 DEF Askings
      <4>2. Stepped(r, a)
        BY <3>1
      <4>. HIDE DEF a
      <4>. QED  BY <2>1, <4>1, <4>2
    <3>. DEFINE c == [asked[r] EXCEPT !.todo = <<"unkey">>]
    <3>2. c.op = asked[r].op /\ c.model = asked[r].model /\ c.answered = asked[r].answered
      BY <1>2 DEF Askings
    <3>3. Stepped(r, c) \/ \E b \in gateway.serves \cup {None} :
            Stepped(r, [asked[r] EXCEPT !.answered = b,
                          !.todo = <<"unkey", "recheck", "save", "unkey">>])
      BY <1>12, PingSteps
    <3>. HIDE DEF c
    <3>4. CASE Stepped(r, c)
      BY <2>1, <3>2, <3>4
    <3>. QED  BY <3>1, <3>3, <3>4
  <2>. QED  BY <1>1, <1>2, <2>1, <2>2, Unraced DEF Known, PastAdd, OnModels
<1>13. CASE DeleteKeyByAlias(r)
  <2>1. asked[r].op = "test" /\ UNCHANGED model /\ gateway'.serves = gateway.serves
    BY <1>13, UnkeySteps DEF Typed, PlatformTypeOK
  <2>. DEFINE b1 == [asked[r] EXCEPT !.todo = <<"recheck", "save", "unkey">>]
              b2 == [asked[r] EXCEPT !.todo = <<"save", "unkey">>]
  <2>3. b1.op = asked[r].op /\ b1.model = asked[r].model
        /\ b1.answered = asked[r].answered
    BY <1>2 DEF Askings
  <2>4. b2.op = asked[r].op /\ b2.model = asked[r].model
        /\ b2.answered = asked[r].answered
    BY <1>2 DEF Askings
  <2>5. Stepped(r, b1) \/ Stepped(r, b2) \/ Stepped(r, Unused("over"))
    BY <1>13, UnkeySteps
  <2>. HIDE DEF b1, b2
  <2>2. PICK a : /\ Stepped(r, a)
                 /\ \/ a.op = "over"
                    \/ /\ a.op = "test" /\ a.model = asked[r].model
                       /\ a.answered = asked[r].answered
    BY <1>3, <2>1, <2>3, <2>4, <2>5
  <2>. QED  BY <1>5, <2>1, <2>2 DEF PastAdd
<1>14. CASE RecheckKey(r)
  <2>1. asked[r].op = "test" /\ UNCHANGED <<model, gateway>>
    BY <1>14, RecheckSteps
  <2>2. asked[r].model \in Models
    BY <1>2, <2>1 DEF Fits, OnModels
  <2>3. PICK a : /\ Stepped(r, a) /\ a.op = "test" /\ a.answered = asked[r].answered
                 /\ a.model.backend = asked[r].model.backend
                 /\ a.model.id = asked[r].model.id
                 /\ a.model.status = asked[r].model.status
                 /\ a.model.answered \in {None, asked[r].answered, asked[r].model.answered}
    <3>1. ASSUME NEW b \in {asked[r].answered, None},
                 Stepped(r, [asked[r] EXCEPT !.model.answered = b,
                                             !.todo = <<"save", "unkey">>])
          PROVE  \E a : /\ Stepped(r, a) /\ a.op = asked[r].op
                        /\ a.answered = asked[r].answered
                        /\ a.model.backend = asked[r].model.backend
                        /\ a.model.id = asked[r].model.id
                        /\ a.model.status = asked[r].model.status
                        /\ a.model.answered = b
      <4>. DEFINE a == [asked[r] EXCEPT !.model.answered = b, !.todo = <<"save", "unkey">>]
      <4>1. /\ a.op = asked[r].op /\ a.answered = asked[r].answered
            /\ a.model.backend = asked[r].model.backend
            /\ a.model.id = asked[r].model.id
            /\ a.model.status = asked[r].model.status /\ a.model.answered = b
        BY <1>2, <2>2 DEF Askings, Models
      <4>2. Stepped(r, a)
        BY <3>1
      <4>. HIDE DEF a
      <4>. QED  BY <4>1, <4>2
    <3>. DEFINE c == [asked[r] EXCEPT !.todo = <<"save", "unkey">>]
    <3>2. c.op = asked[r].op /\ c.model = asked[r].model /\ c.answered = asked[r].answered
      BY <1>2 DEF Askings
    <3>3. Stepped(r, c) \/ \E b \in {asked[r].answered, None} :
            Stepped(r, [asked[r] EXCEPT !.model.answered = b,
                                        !.todo = <<"save", "unkey">>])
      BY <1>14, RecheckSteps
    <3>. HIDE DEF c
    <3>4. CASE Stepped(r, c)
      BY <2>1, <3>2, <3>4
    <3>. QED  BY <2>1, <3>1, <3>3, <3>4
  <2>. QED  BY <1>1, <1>2, <2>1, <2>3, Unraced DEF Known, PastAdd, OnModels
<1>15. CASE CallFails(r)
  <2>1. UNCHANGED <<model, gateway>>
    BY <1>15, FailureSteps
  <2>2. PICK a : /\ Stepped(r, a)
                 /\ \/ a.op = "over"
                    \/ /\ a.op = asked[r].op /\ a.model = asked[r].model
                       /\ a.answered = asked[r].answered
                       /\ PastAdd(a) => PastAdd(asked[r])
    <3>. DEFINE to(rest) == [asked[r] EXCEPT !.todo = rest]
    <3>1. ASSUME NEW rest
          PROVE  /\ to(rest).op = asked[r].op /\ to(rest).model = asked[r].model
                 /\ to(rest).answered = asked[r].answered
      BY <1>2 DEF Askings
    <3>2. \/ Stepped(r, Unused("over"))
          \/ asked[r].op = "onboard" /\ Stepped(r, to(<<"save">>)) /\ PastAdd(asked[r])
          \/ asked[r].op = "test" /\ \E rest : Stepped(r, to(rest))
          \/ asked[r].op = "delete" /\ Stepped(r, to(<<"drop">>))
      BY <1>15, FailureSteps
    <3>. HIDE DEF to
    <3>. QED  BY <1>3, <3>1, <3>2 DEF PastAdd
  <2>. QED  BY <1>5, <2>1, <2>2
<1>. QED
  BY <1>6, <1>7, <1>8, <1>9, <1>10, <1>11, <1>12, <1>13, <1>14, <1>15 DEF OnTheModel


\* Past its first step a test is never where it began.
LEMMA PastKey ==
  \A todo \in {<<"ping", "unkey", "recheck", "save", "unkey">>,
               <<"unkey", "recheck", "save", "unkey">>, <<"recheck", "save", "unkey">>,
               <<"save", "unkey">>, <<"unkey">>} : todo # TestPlan
BY Testing, LastSteps

\* Request r goes on to do todo.
To(r, todo) == [asked[r] EXCEPT !.todo = todo]

LEMMA ToFields ==
  ASSUME Typed, NEW r \in Pending, NEW todo
  PROVE  /\ To(r, todo).op = asked[r].op /\ To(r, todo).todo = todo
         /\ To(r, todo).model = asked[r].model
<1>1. asked[r] \in Askings
  BY DEF Pending, Typed
<1>. QED  BY <1>1 DEF To, Askings

LEMMA BegunKeyed ==
  ASSUME Typed, Keyed, NEW r \in Requests, NEW new, Begun(r, new)
  PROVE  Keyed'
<1>1. \A q \in Requests \ {r} : asked'[q] = asked[q]
  BY DEF Begun, Typed
<1>2. UNCHANGED <<gateway, notes>> /\ asked[r].op = "new"
  BY DEF Begun
<1>3. gateway.key \in Requests \cup {None}
  BY DEF Typed, PlatformTypeOK
<1>. QED  BY <1>1, <1>2, <1>3 DEF Keyed

\* A step keeps the key's owner, or the key goes.
LEMMA SteppedKeyed ==
  ASSUME Typed, Keyed, NEW r \in Pending, NEW a, Stepped(r, a),
         \/ gateway'.key = None
         \/ gateway'.key = r /\ a.op = "test" /\ a.todo # TestPlan
         \/ /\ gateway'.key = gateway.key
            /\ \/ asked[r].op # "test" \/ asked[r].todo = TestPlan
               \/ a.op = "test" /\ a.todo # TestPlan
               \/ gateway.key # r
         \/ "torn" \in notes'
  PROVE  Keyed'
<1>1. \A q \in Requests : asked'[q] = IF q = r THEN a ELSE asked[q]
  BY DEF Stepped, Typed
<1>2. gateway.key \in Requests \cup {None} /\ r \in Requests
  BY DEF Typed, PlatformTypeOK, Pending
<1>3. notes \subseteq notes'
  BY DEF Stepped
<1>. QED  BY <1>1, <1>2, <1>3 DEF Keyed

LEMMA KeyedStep ==
  ASSUME MaxFaults \in Nat, Typed, Keyed, NEW r \in Pending,
         OnTheModel(r) \/ CallFails(r)
  PROVE  Keyed'
<1>0. gateway \in [serves : SUBSET Deployments, key : Requests \cup {None}]
  BY DEF Typed, PlatformTypeOK
<1>1. CASE AddModel(r)
  BY <1>0, <1>1, AddSteps, SteppedKeyed
<1>2. CASE ResolveLiteLLMID(r)
  BY <1>2, ResolveSteps, SteppedKeyed
<1>3. CASE UpsertLLMModel(r)
  <2>1. UNCHANGED gateway
    BY <1>3, SaveSteps
  <2>2. \/ asked[r].op # "test" /\ Stepped(r, Unused("over"))
        \/ Stepped(r, To(r, <<"unkey">>)) /\ asked[r].op = "test"
    BY <1>3, SaveSteps DEF To
  <2>. QED  BY <2>1, <2>2, ToFields, PastKey, SteppedKeyed
<1>4. CASE DeleteModel(r)
  BY <1>0, <1>4, UnaddSteps, SteppedKeyed
<1>5. CASE DropLLMModel(r)
  BY <1>5, DropSteps, SteppedKeyed
<1>6. CASE GenerateKey(r)
  <2>1. asked[r].op = "test" /\ asked[r].todo = TestPlan
    BY <1>6, KeySteps
  <2>. DEFINE b == To(r, <<"ping", "unkey", "recheck", "save", "unkey">>)
  <2>2. b.op = "test" /\ b.todo # TestPlan
    BY <2>1, ToFields, PastKey
  <2>3. \/ gateway'.key = r /\ Stepped(r, b)
        \/ "torn" \in notes' /\ Stepped(r, Unused("over"))
        \/ gateway'.key = gateway.key /\ Stepped(r, Unused("over"))
    BY <1>0, <1>6, KeySteps DEF To
  <2>. HIDE DEF b
  <2>. QED  BY <2>1, <2>2, <2>3, SteppedKeyed
<1>7. CASE TestCompletion(r)
  <2>1. UNCHANGED gateway /\ asked[r].op = "test" /\ asked[r] \in Askings
    BY <1>7, PingSteps DEF Typed, Pending
  <2>2. ASSUME NEW b, Stepped(r, [asked[r] EXCEPT !.answered = b,
                        !.todo = <<"unkey", "recheck", "save", "unkey">>])
        PROVE  Keyed'
    <3>. DEFINE a == [asked[r] EXCEPT !.answered = b,
                        !.todo = <<"unkey", "recheck", "save", "unkey">>]
    <3>1. a.op = "test" /\ a.todo = <<"unkey", "recheck", "save", "unkey">>
      BY <2>1 DEF Askings
    <3>2. Stepped(r, a)
      BY <2>2
    <3>. HIDE DEF a
    <3>. QED  BY <2>1, <3>1, <3>2, PastKey, SteppedKeyed
  <2>3. CASE Stepped(r, To(r, <<"unkey">>))
    BY <2>1, <2>3, ToFields, PastKey, SteppedKeyed
  <2>. QED  BY <1>7, <2>2, <2>3, PingSteps DEF To
<1>8. CASE DeleteKeyByAlias(r)
  <2>1. gateway'.key = None
    BY <1>0, <1>8, UnkeySteps
  <2>2. PICK a : Stepped(r, a)
    BY <1>8, UnkeySteps
  <2>. QED  BY <2>1, <2>2, SteppedKeyed
<1>9. CASE RecheckKey(r)
  <2>1. UNCHANGED gateway /\ asked[r].op = "test" /\ asked[r] \in Askings
    BY <1>9, RecheckSteps DEF Typed, Pending
  <2>2. ASSUME NEW b, Stepped(r, [asked[r] EXCEPT !.model.answered = b,
                                                  !.todo = <<"save", "unkey">>])
        PROVE  Keyed'
    <3>. DEFINE a == [asked[r] EXCEPT !.model.answered = b, !.todo = <<"save", "unkey">>]
    <3>1. a.op = "test" /\ a.todo = <<"save", "unkey">>
      BY <2>1 DEF Askings
    <3>2. Stepped(r, a)
      BY <2>2
    <3>. HIDE DEF a
    <3>. QED  BY <2>1, <3>1, <3>2, PastKey, SteppedKeyed
  <2>3. CASE Stepped(r, To(r, <<"save", "unkey">>))
    BY <2>1, <2>3, ToFields, PastKey, SteppedKeyed
  <2>. QED  BY <1>9, <2>2, <2>3, RecheckSteps DEF To
<1>10. CASE CallFails(r)
  <2>1. UNCHANGED gateway
    BY <1>10, FailureSteps
  <2>2. \/ asked[r].op # "test" /\ \E a : Stepped(r, a)
        \/ /\ asked[r].op = "test"
           /\ Stepped(r, To(r, <<"unkey">>)) \/ Stepped(r, To(r, <<"save", "unkey">>))
        \/ /\ Stepped(r, Unused("over"))
           /\ asked[r].todo = TestPlan \/ gateway.key # r \/ "torn" \in notes'
    BY <1>10, FailureSteps DEF To
  <2>. QED  BY <2>1, <2>2, ToFields, PastKey, SteppedKeyed
<1>. QED
  BY <1>1, <1>2, <1>3, <1>4, <1>5, <1>6, <1>7, <1>8, <1>9, <1>10 DEF OnTheModel

LEMMA BegunServed ==
  ASSUME Typed, Served, NEW r \in Requests, NEW new, Begun(r, new), ~PastAdd(new),
         Dropping(new) => notes \cap {"raced", "torn", "doubled"} # {}
  PROVE  Served'
<1>1. \A q \in Requests : asked'[q] = IF q = r THEN new ELSE asked[q]
  BY DEF Begun, Typed
<1>2. UNCHANGED <<model, gateway, notes>> /\ asked[r].op = "new"
  BY DEF Begun
<1>3. ~PastAdd(asked[r]) /\ ~Dropping(asked[r])
  BY <1>2 DEF PastAdd, Dropping
<1>. QED  BY <1>1, <1>2, <1>3 DEF Served

LEMMA ServedBegin ==
  ASSUME Typed, Served, NEW r \in Requests,
         OnboardLLMModel(r) \/ TestLLMModel(r) \/ PublishLLMModel(r) \/ DeleteLLMModel(r)
  PROVE  Served'
<1>1. CASE DeleteLLMModel(r)
  <2>1. PICK new : /\ Begun(r, new) /\ new.op = "delete" /\ model # NoModel
                   /\ new.todo = IF model.id = None THEN <<"drop">>
                                 ELSE <<"unadd", "drop">>
    BY <1>1, DeleteBegins
  <2>2. Dropping(new) => model.id = None
    BY <2>1, Deleting, LastSteps DEF Dropping
  <2>. QED  BY <2>1, <2>2, BegunServed DEF Served, PastAdd
<1>2. CASE OnboardLLMModel(r)
  BY <1>2, OnboardBegins, BegunServed DEF PastAdd, Dropping
<1>3. CASE TestLLMModel(r)
  BY <1>3, TestBegins, BegunServed DEF PastAdd, Dropping
<1>4. CASE PublishLLMModel(r)
  BY <1>4, PublishBegins, BegunServed DEF PastAdd, Dropping
<1>. QED  BY <1>1, <1>2, <1>3, <1>4

\* A step of r that leaves the row and the deployments, and where r stands
\* between the two.
LEMMA SteppedServed ==
  ASSUME Typed, Served, NEW r \in Pending, NEW a, Stepped(r, a),
         UNCHANGED model, gateway'.serves = gateway.serves,
         \/ "torn" \in notes'
         \/ asked[r].op \notin {"onboard", "delete"} /\ a.op \notin {"onboard", "delete"}
         \/ a.op = "over" /\ ~PastAdd(asked[r]) /\ ~Dropping(asked[r])
  PROVE  Served'
<1>1. r \in Requests /\ \A q \in Requests : asked'[q] = IF q = r THEN a ELSE asked[q]
  BY DEF Stepped, Typed, Pending
<1>2. notes \subseteq notes'
  BY DEF Stepped
<1>. QED  BY <1>1, <1>2 DEF Served, PastAdd, Dropping

\* The conclusion of Served.
Paired ==
  /\ model # NoModel =>
       /\ model.id # None
       /\ gateway.serves # {} \/ \E r \in Requests : Dropping(asked[r])
  /\ model = NoModel /\ gateway.serves # {} => \E r \in Requests : PastAdd(asked[r])
  /\ \A r \in Requests :
       /\ PastAdd(asked[r]) => gateway.serves # {}
       /\ PastAdd(asked[r]) /\ asked[r].todo = <<"save">> => asked[r].model.id # None
       /\ Dropping(asked[r]) => gateway.serves = {}

LEMMA ServedStep ==
  ASSUME MaxFaults \in Nat, None \notin Deployments, Typed, Modelled, Served,
         NEW r \in Pending, OnTheModel(r) \/ CallFails(r)
  PROVE  Served'
<1>0. gateway \in [serves : SUBSET Deployments, key : Requests \cup {None}]
      /\ Unused("over").op = "over"
  BY DEF Typed, PlatformTypeOK, Unused
<1>1. r \in Requests /\ asked[r] \in Askings /\ Fits(asked[r])
  BY DEF Pending, Typed
<1>2. ASSUME notes' \cap {"raced", "torn", "doubled"} = {}
      PROVE  /\ Known /\ Paired
             /\ "raced" \notin notes' /\ "torn" \notin notes' /\ "doubled" \notin notes'
  <2>1. notes \subseteq notes'
    BY ModelSteps
  <2>. QED  BY <1>2, <2>1, KnownBefore DEF Served, Paired
<1>3. CASE AddModel(r)
  <2>. SUFFICES ASSUME notes' \cap {"raced", "torn", "doubled"} = {} PROVE Paired'
    BY DEF Served, Paired
  <2>. DEFINE b == To(r, <<"resolve", "save">>)
  <2>1. /\ asked[r].op = "onboard" /\ UNCHANGED model /\ model = NoModel
        /\ gateway' = [gateway EXCEPT !.serves = @ \cup {r}] /\ Stepped(r, b)
    BY <1>2, <1>3, AddSteps DEF To
  <2>2. gateway'.serves # {} /\ b.op = "onboard" /\ b.todo = <<"resolve", "save">>
    BY <1>0, <2>1, ToFields
  <2>3. PastAdd(b) /\ b.todo # <<"save">>
    BY <2>2, Onboarding, LastSteps DEF PastAdd
  <2>. HIDE DEF b
  <2>. QED  BY <1>1, <1>2, <2>1, <2>2, <2>3, Unraced DEF Paired, PastAdd, Dropping, OnModels
<1>4. CASE ResolveLiteLLMID(r)
  <2>. SUFFICES ASSUME notes' \cap {"raced", "torn", "doubled"} = {} PROVE Paired'
    BY DEF Served, Paired
  <2>1. /\ asked[r].op = "onboard" /\ UNCHANGED <<model, gateway>>
        /\ asked[r].todo = <<"resolve", "save">>
        /\ \E id \in gateway.serves :
             Stepped(r, [asked[r] EXCEPT !.model.id = id, !.todo = <<"save">>])
    BY <1>2, <1>4, ResolveSteps
  <2>2. PICK id \in gateway.serves :
          Stepped(r, [asked[r] EXCEPT !.model.id = id, !.todo = <<"save">>])
    BY <2>1
  <2>. DEFINE b == [asked[r] EXCEPT !.model.id = id, !.todo = <<"save">>]
  <2>3. asked[r].model \in Models /\ id # None
    BY <1>0, <1>1, <2>1 DEF Fits, OnModels
  <2>4. b.op = "onboard" /\ b.model.id # None /\ b.todo = <<"save">>
    BY <1>1, <2>1, <2>3 DEF Askings, Models
  <2>5. Stepped(r, b)
    BY <2>2
  <2>. HIDE DEF b
  <2>6. PastAdd(asked[r]) /\ PastAdd(b)
    BY <2>1, <2>4, Onboarding, LastSteps DEF PastAdd
  <2>. QED
    BY <1>1, <1>2, <2>1, <2>4, <2>5, <2>6, Unraced DEF Paired, Dropping, OnModels
<1>5. CASE UpsertLLMModel(r)
  <2>. SUFFICES ASSUME notes' \cap {"raced", "torn", "doubled"} = {} PROVE Paired'
    BY DEF Served, Paired
  <2>1. model' = asked[r].model /\ UNCHANGED gateway
    BY <1>5, SaveSteps
  <2>2. \/ /\ asked[r].op = "onboard" /\ asked[r].todo = <<"save">>
           /\ Stepped(r, Unused("over"))
        \/ /\ asked[r].op \in {"publish", "test"}
           /\ \E a : Stepped(r, a) /\ a.op \notin {"onboard", "delete"}
    <3>1. asked[r].op = "test" => To(r, <<"unkey">>).op = "test"
      BY ToFields
    <3>2. \/ /\ asked[r].op \in {"onboard", "publish"} /\ asked[r].todo = <<"save">>
             /\ Stepped(r, Unused("over"))
          \/ asked[r].op = "test" /\ Stepped(r, To(r, <<"unkey">>))
      BY <1>5, SaveSteps DEF To
    <3>. QED  BY <1>0, <3>1, <3>2
  <2>3. asked[r].model \in Models /\ asked[r].model # NoModel
    <3>1. asked[r].model \in Models
      BY <1>1, <2>2 DEF Fits, OnModels
    <3>. QED  BY <3>1 DEF Models, NoModel
  <2>4. CASE asked[r].op = "onboard" /\ asked[r].todo = <<"save">>
             /\ Stepped(r, Unused("over"))
    <3>1. PastAdd(asked[r])
      BY <2>4, Onboarding, LastSteps DEF PastAdd
    <3>. QED
      BY <1>0, <1>1, <1>2, <2>1, <2>3, <2>4, <3>1, Unraced
      DEF Paired, PastAdd, Dropping, OnModels
  <2>5. ASSUME asked[r].op \in {"publish", "test"},
               NEW a, Stepped(r, a), a.op \notin {"onboard", "delete"}
        PROVE  Paired'
    <3>1. model # NoModel /\ asked[r].model.id = model.id
      BY <1>1, <1>2, <2>5 DEF Known
    <3>. QED
      BY <1>1, <1>2, <2>1, <2>3, <2>5, <3>1, Unraced DEF Paired, PastAdd, Dropping
  <2>. QED  BY <2>2, <2>4, <2>5
<1>6. CASE DeleteModel(r)
  <2>. SUFFICES ASSUME notes' \cap {"raced", "torn", "doubled"} = {} PROVE Paired'
    BY DEF Served, Paired
  <2>. DEFINE b == To(r, <<"drop">>)
  <2>1. /\ asked[r].op = "delete" /\ UNCHANGED model /\ Stepped(r, b)
        /\ gateway' = [gateway EXCEPT !.serves = @ \ {asked[r].model.id}]
    BY <1>6, UnaddSteps DEF To
  <2>2. b.op = "delete" /\ b.todo = <<"drop">>
    BY <2>1, ToFields
  <2>3. gateway.serves \subseteq {model.backend} /\ asked[r].model.id = model.backend
        /\ model # NoModel
    BY <1>1, <1>2, <2>1 DEF Known, Paired
  <2>4. gateway'.serves = {}
    BY <1>0, <2>1, <2>3
  <2>5. \A q \in Requests : ~PastAdd(asked[q])
    BY <1>2, <2>3 DEF Known
  <2>. HIDE DEF b
  <2>. QED
    BY <1>1, <1>2, <2>1, <2>2, <2>3, <2>4, <2>5, Unraced
    DEF Paired, PastAdd, Dropping, OnModels
<1>7. CASE DropLLMModel(r)
  <2>. SUFFICES ASSUME notes' \cap {"raced", "torn", "doubled"} = {} PROVE Paired'
    BY DEF Served, Paired
  <2>1. /\ asked[r].op = "delete" /\ asked[r].todo = <<"drop">> /\ model' = NoModel
        /\ UNCHANGED gateway /\ Stepped(r, Unused("over"))
    BY <1>7, DropSteps
  <2>2. gateway.serves = {}
    BY <1>1, <1>2, <2>1 DEF Paired, Dropping
  <2>. QED
    BY <1>0, <1>1, <1>2, <2>1, <2>2, Unraced DEF Paired, PastAdd, Dropping, OnModels
<1>8. CASE GenerateKey(r)
  <2>1. asked[r].op = "test" /\ UNCHANGED model /\ gateway'.serves = gateway.serves
    BY <1>0, <1>8, KeySteps
  <2>2. \/ Stepped(r, Unused("over"))
        \/ Stepped(r, To(r, <<"ping", "unkey", "recheck", "save", "unkey">>))
    BY <1>8, KeySteps DEF To
  <2>. QED  BY <1>0, <2>1, <2>2, ToFields, SteppedServed
<1>9. CASE TestCompletion(r)
  <2>1. UNCHANGED <<model, gateway>> /\ asked[r].op = "test"
    BY <1>9, PingSteps
  <2>2. ASSUME NEW b, Stepped(r, [asked[r] EXCEPT !.answered = b,
                        !.todo = <<"unkey", "recheck", "save", "unkey">>])
        PROVE  Served'
    <3>. DEFINE a == [asked[r] EXCEPT !.answered = b,
                        !.todo = <<"unkey", "recheck", "save", "unkey">>]
    <3>1. a.op = "test"
      BY <1>1, <2>1 DEF Askings
    <3>2. Stepped(r, a)
      BY <2>2
    <3>. HIDE DEF a
    <3>. QED  BY <2>1, <3>1, <3>2, SteppedServed
  <2>3. CASE Stepped(r, To(r, <<"unkey">>))
    BY <2>1, <2>3, ToFields, SteppedServed
  <2>. QED  BY <1>9, <2>2, <2>3, PingSteps DEF To
<1>10. CASE DeleteKeyByAlias(r)
  <2>1. asked[r].op = "test" /\ UNCHANGED model /\ gateway'.serves = gateway.serves
    BY <1>0, <1>10, UnkeySteps
  <2>2. \/ Stepped(r, Unused("over")) \/ Stepped(r, To(r, <<"save", "unkey">>))
        \/ Stepped(r, To(r, <<"recheck", "save", "unkey">>))
    BY <1>10, UnkeySteps DEF To
  <2>. QED  BY <1>0, <2>1, <2>2, ToFields, SteppedServed
<1>11. CASE RecheckKey(r)
  <2>1. UNCHANGED <<model, gateway>> /\ asked[r].op = "test"
    BY <1>11, RecheckSteps
  <2>2. ASSUME NEW b, Stepped(r, [asked[r] EXCEPT !.model.answered = b,
                                                  !.todo = <<"save", "unkey">>])
        PROVE  Served'
    <3>. DEFINE a == [asked[r] EXCEPT !.model.answered = b, !.todo = <<"save", "unkey">>]
    <3>1. a.op = "test"
      BY <1>1, <2>1 DEF Askings
    <3>2. Stepped(r, a)
      BY <2>2
    <3>. HIDE DEF a
    <3>. QED  BY <2>1, <3>1, <3>2, SteppedServed
  <2>3. CASE Stepped(r, To(r, <<"save", "unkey">>))
    BY <2>1, <2>3, ToFields, SteppedServed
  <2>. QED  BY <1>11, <2>2, <2>3, RecheckSteps DEF To
<1>12. CASE CallFails(r)
  <2>1. UNCHANGED <<model, gateway>>
    BY <1>12, FailureSteps
  <2>2. \/ "torn" \in notes' /\ \E a : Stepped(r, a)
        \/ asked[r].op = "onboard" /\ Stepped(r, Unused("over")) /\ ~PastAdd(asked[r])
        \/ asked[r].op \notin {"onboard", "delete"} /\ Stepped(r, Unused("over"))
        \/ asked[r].op = "test" /\ Stepped(r, To(r, <<"unkey">>))
        \/ asked[r].op = "test" /\ Stepped(r, To(r, <<"save", "unkey">>))
    BY <1>12, FailureSteps DEF To
  <2>. QED  BY <1>0, <2>1, <2>2, ToFields, SteppedServed DEF Dropping
<1>. QED
  BY <1>3, <1>4, <1>5, <1>6, <1>7, <1>8, <1>9, <1>10, <1>11, <1>12 DEF OnTheModel


LEMMA ModelNext ==
  ASSUME MaxFaults \in Nat, None \notin Deployments,
         Typed, Modelled, Keyed, Served, [CatalogueNext]_catalogue
  PROVE  Modelled' /\ Keyed' /\ Served'
<1>1. CASE SetProviderKey \/ (\E a \in Agents : SetEnabled(a)) \/ UNCHANGED catalogue
  BY <1>1, ModelFrame DEF SetProviderKey, SetEnabled, catalogue
<1>2. ASSUME NEW r \in Requests,
             \/ OnboardLLMModel(r) \/ TestLLMModel(r) \/ PublishLLMModel(r)
             \/ DeleteLLMModel(r)
      PROVE  Modelled' /\ Keyed' /\ Served'
  <2>1. \E new : Begun(r, new)
    BY <1>2, OnboardBegins, TestBegins, PublishBegins, DeleteBegins
  <2>. QED  BY <1>2, <2>1, ModelledBegin, BegunKeyed, ServedBegin
<1>3. ASSUME NEW r \in Requests,
             \/ Publish(r) \/ Update(r)
             \/ \E s \in Sources : UpdateDraft(r, s)
             \/ \E a \in Agents : Create(r, a)
             \/ \E addons \in SUBSET Addons : SetAddons(r, addons)
      PROVE  Modelled' /\ Keyed' /\ Served'
  <2>1. \E new : Begun(r, new) /\ new.op \notin OnModels
    BY <1>3, ReleaseBegins, UpdateBegins, DraftBegins, CreateBegins, AddonsBegins
    DEF OnModels
  <2>2. /\ UNCHANGED <<model, gateway, notes>>
        /\ \A q \in Requests :
             \/ asked'[q] = asked[q]
             \/ asked[q].op \notin OnModels /\ asked'[q].op \notin OnModels
    BY <2>1 DEF Begun, Typed, OnModels
  <2>. QED  BY <2>2, ModelFrame
<1>4. ASSUME NEW r \in Pending, OnTheModel(r) \/ CallFails(r)
      PROVE  Modelled' /\ Keyed' /\ Served'
  BY <1>4, ModelledStep, KeyedStep, ServedStep
<1>5. CASE Crash
  <2>1. /\ UNCHANGED <<model, gateway>> /\ "torn" \in notes' /\ notes \subseteq notes'
        /\ \A q \in Requests : asked'[q].op \notin OnModels
    BY <1>5, CrashSteps DEF Over, OnModels
  <2>2. Modelled'
    BY <2>1 DEF Modelled, PastAdd, OnModels
  <2>. QED  BY <2>1, <2>2 DEF Keyed, Served
<1>6. ASSUME NEW r \in Pending, UpsertBaseJobTemplate(r) \/ SaveFlavor(r)
      PROVE  Modelled' /\ Keyed' /\ Served'
  <2>1. /\ asked[r].op \in OnBases \cup OnFlavors /\ OnTemplates
        /\ Stepped(r, Unused("over"))
    BY <1>6, BaseSteps, FlavorSteps
  <2>2. Unused("over").op = "over" /\ notes \subseteq notes'
    BY <2>1 DEF Unused, Stepped
  <2>3. \A q \in Requests :
          \/ asked'[q] = asked[q]
          \/ asked[q].op \notin OnModels /\ asked'[q].op \notin OnModels
    BY <2>1, <2>2 DEF Stepped, Typed, OnModels, OnBases, OnFlavors
  <2>. QED  BY <2>1, <2>2, <2>3, ModelFrame DEF OnTemplates
<1>. QED
  BY <1>1, <1>2, <1>3, <1>4, <1>5, <1>6 DEF CatalogueNext, OnTheModel

--------------------------------------------------------------------------------
(* The theorems                                                            *)

\* Every variable keeps its type, and a base template that shows as published
\* has no draft waiting.  (UpdateDraft, Publish)
THEOREM TypeCorrect == CatalogueSpec => []PlatformTypeOK
<1>1. CatalogueInit => Typed
  BY TypedInit, CatalogueAssumption
<1>2. Typed /\ [CatalogueNext]_catalogue => Typed'
  BY TypedNext, CatalogueAssumption
<1>3. Typed => PlatformTypeOK
  BY DEF Typed
<1>. QED  BY <1>1, <1>2, <1>3, PTL DEF CatalogueSpec

\* A version of a base template names one source for good, and a project's
\* template is launched from the source of the version it shows, unless
\* operations overlapped on the same row.  (Publish, Update, SetAddons)
THEOREM OneSourcePerVersion == CatalogueSpec => []VersionsNameOneSource
<1>1. CatalogueInit => Typed /\ Based
  BY TypedInit, BasedInit, CatalogueAssumption
<1>2. Typed /\ Based /\ [CatalogueNext]_catalogue => (Typed /\ Based)'
  BY TypedNext, BasedNext, CatalogueAssumption
<1>3. Typed /\ Based => VersionsNameOneSource
  BY DEF Based, Baked, VersionsNameOneSource
<1>. QED  BY <1>1, <1>2, <1>3, PTL DEF CatalogueSpec

\* The inductive invariant holds: the types, what a version of a base template
\* names, and what the requests at work know of the model and the gateway.
THEOREM InvariantHolds == CatalogueSpec => []IInv
<1>1. CatalogueInit => IInv
  BY TypedInit, BasedInit, ModelledInit, CatalogueAssumption DEF IInv, Deployments
<1>2. IInv /\ [CatalogueNext]_catalogue => IInv'
  BY TypedNext, BasedNext, ModelNext, CatalogueAssumption DEF IInv, Deployments
<1>. QED  BY <1>1, <1>2, PTL DEF CatalogueSpec

\* When nobody is at work, the gateway serves the model that has a row, by the
\* deployment the row records, and no test key is left, unless a model was
\* onboarded twice (`doubled`), an onboarding or delete overlapped another
\* operation (`raced`), or a failure was one the code does not repair (`torn`).
\* (OnboardLLMModel, TestLLMModel, DeleteLLMModel)
THEOREM GatewayIsAccountedFor == CatalogueSpec => []GatewayMatchesRows
<1>1. IInv => GatewayMatchesRows
  <2>. SUFFICES ASSUME IInv, Calm({"raced", "torn", "doubled"})
                PROVE  /\ ListLLMModels = [unmanaged |-> FALSE, orphaned |-> FALSE]
                       /\ gateway.serves \subseteq {model.backend}
                       /\ gateway.key = None
    BY DEF GatewayMatchesRows
  <2>1. \A r \in Requests : ~PastAdd(asked[r]) /\ ~Dropping(asked[r]) /\ asked[r].op # "test"
    BY DEF Calm, Pending, Over, PastAdd, Dropping
  <2>2. notes \cap {"raced", "doubled"} = {} /\ "torn" \notin notes
        /\ notes \cap {"raced", "torn", "doubled"} = {}
    BY DEF Calm
  <2>3. gateway.key = None
    BY <2>1, <2>2 DEF IInv, Keyed, Typed, PlatformTypeOK
  <2>4. (model = NoModel) <=> (gateway.serves = {})
    BY <2>1, <2>2 DEF IInv, Served
  <2>5. gateway.serves \subseteq {model.backend}
    BY <2>2, <2>4 DEF IInv, Modelled
  <2>6. ListLLMModels = [unmanaged |-> FALSE, orphaned |-> FALSE]
    BY <2>4 DEF ListLLMModels
  <2>. QED  BY <2>3, <2>5, <2>6
<1>. QED  BY <1>1, InvariantHolds, PTL

\* A model becomes published only with a test result that says its own
\* deployment answered, whatever failed, also when a test of the draft overlaps
\* the publication, unless it was onboarded twice (`doubled`), or onboarded or
\* deleted beside the operation, or tested as a draft and as published at the
\* same time (`raced`).  (TestLLMModel, PublishLLMModel)
THEOREM PublishedAfterTest == CatalogueSpec => PublishedWasTested
<1>1. IInv /\ [CatalogueNext]_catalogue =>
        [model.status # "published" /\ model'.status = "published"
           => \/ notes' \cap {"raced", "doubled"} # {}
              \/ model'.answered = model'.backend]_catalogue
  <2>. SUFFICES ASSUME IInv, CatalogueNext, notes' \cap {"raced", "doubled"} = {},
                       model.status # "published", model'.status = "published"
                PROVE  model'.answered = model'.backend
    OBVIOUS
  <2>. USE DEF IInv
  <2>1. ASSUME NEW r \in Pending, UpsertLLMModel(r)
        PROVE  model'.answered = model'.backend
    <3>0. MaxFaults \in Nat /\ None \notin Deployments
      BY CatalogueAssumption DEF Deployments
    <3>1. model' = asked[r].model /\ r \in Requests
          /\ asked[r].op \in {"onboard", "publish", "test"}
      BY <2>1, <3>0, SaveSteps DEF Pending
    <3>2. Known
      BY <2>1, <3>0, KnownBefore, ModelSteps DEF OnTheModel
    <3>3. asked[r].op = "publish"
      BY <3>1, <3>2 DEF Known
    <3>. QED  BY <3>1, <3>2, <3>3 DEF Known
  <2>2. CASE UNCHANGED model
    BY <2>2
  <2>3. ASSUME NEW r \in Pending, DropLLMModel(r) PROVE FALSE
    BY <2>3, DropSteps, CatalogueAssumption DEF NoModel
  <2>4. ASSUME NEW r \in Requests,
               \/ OnboardLLMModel(r) \/ TestLLMModel(r) \/ PublishLLMModel(r)
               \/ DeleteLLMModel(r) \/ Publish(r) \/ Update(r)
               \/ \E s \in Sources : UpdateDraft(r, s)
               \/ \E a \in Agents : Create(r, a)
               \/ \E addons \in SUBSET Addons : SetAddons(r, addons)
        PROVE  UNCHANGED model
    BY <2>4 DEF OnboardLLMModel, TestLLMModel, PublishLLMModel, DeleteLLMModel, Publish,
                Update, UpdateDraft, Create, SetAddons, Begin
  <2>5. ASSUME NEW r \in Pending,
               \/ AddModel(r) \/ ResolveLiteLLMID(r) \/ DeleteModel(r) \/ GenerateKey(r)
               \/ TestCompletion(r) \/ DeleteKeyByAlias(r) \/ RecheckKey(r)
               \/ UpsertBaseJobTemplate(r) \/ SaveFlavor(r) \/ CallFails(r)
        PROVE  UNCHANGED model
    BY <2>5 DEF AddModel, ResolveLiteLLMID, DeleteModel, GenerateKey, TestCompletion,
                DeleteKeyByAlias, RecheckKey, UpsertBaseJobTemplate, SaveFlavor, CallFails,
                OnTemplates
  <2>. QED
    BY <2>1, <2>2, <2>3, <2>4, <2>5 DEF CatalogueNext, SetProviderKey, SetEnabled, Crash
<1>. QED  BY <1>1, InvariantHolds, PTL DEF CatalogueSpec, PublishedWasTested

================================================================================
