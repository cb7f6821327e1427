---------------------------- MODULE SetupProofs ----------------------------
(***************************************************************************)
(* Theorems about Setup, for every set of configurations, hosts and tokens *)
(* and any number of seconds: wherever the scripts are interrupted and     *)
(* however often they are run, the operator's configuration is kept, and   *)
(* it is what every process is started with.  Of ServiceProofs only the    *)
(* lemmas about the operators of Config are used.                          *)
(***************************************************************************)
EXTENDS Setup, ServiceProofs, SequenceTheorems

Seconds == 0..MaxSecond
Copy(s) == <<"app", s>>

\* The operator's configuration as saved, and as an upgrade leaves it.
Own == {own, Merge(own)}

\* What config/app.json may hold when it holds something: once there is a
\* configuration of the operator that one, and before the shipped token.
Customers(c) == c \in Config /\ IF own = NoFile THEN c.token = Placeholder ELSE c \in Own

Steps == {"copyExample", "stamp", "copyOverride", "copyNginx", "verify", "validate", "render",
          "load", "up", "backupApp", "merge", "backupNginx", "backupOverride"}

Has(q, step) == \E i \in 1..Len(q) : q[i] = step

\* What a script may have left: the stamp comes right after the copy of the
\* example, the merge right after the backup, and up is last.
Shape(q) ==
    /\ q \in Seq(Steps)
    /\ \A i \in 1..Len(q) :
           /\ q[i] = "copyExample" => i < Len(q) /\ q[i+1] = "stamp"
           /\ q[i] = "stamp" /\ i > 1 => q[i-1] = "copyExample"
           /\ q[i] = "merge" /\ i > 1 => q[i-1] = "backupApp"
           /\ q[i] = "up" => i = Len(q)

Writing == held # Nothing

Types ==
    /\ fs = [f \in File |-> fs[f]]
    /\ \A s \in Seconds : fs[Copy(s)] \in Config \cup {NoFile, Torn}
    /\ clock \in 1..MaxSecond
    /\ own \in Config \cup {NoFile}
    /\ conf \in Config \cup {Created, Down}
    /\ stale \in BOOLEAN /\ collided \in BOOLEAN

\* The write in progress is the one of the step the script is at.
WriteInProgress ==
    Writing =>
        /\ todo # <<>>
        /\ fs[held.file] = Torn
        /\ Head(todo) = "copyExample" => held = [file |-> App, content |-> Example] /\ own = NoFile
        /\ Head(todo) = "stamp" => held.file = App /\ held.content \in Config
        /\ Head(todo) = "backupApp" =>
               \E s \in 1..MaxSecond : held = [file |-> Copy(s), content |-> fs[App]]
        /\ Head(todo) = "merge" => held.file = App /\ Customers(held.content)
        /\ Head(todo) \notin {"copyExample", "stamp", "backupApp", "merge"} =>
               Head(todo) # "validate" /\ held.file \in {Nginx, Override}

\* The stamp is for an example just copied.
Stamping ==
    todo # <<>> /\ Head(todo) = "stamp" =>
        own = NoFile /\ (~Writing => fs[App] \in Config)

AppFile ==
    /\ fs[App] \in {NoFile, Torn} \/ Customers(fs[App])
    /\ own # NoFile => fs[App] # NoFile

BackedUp == \E s \in 1..MaxSecond : fs[Copy(s)] \in Own

Kept ==
    own # NoFile /\ ~collided =>
        /\ fs[App] \in Own \/ BackedUp
        /\ todo # <<>> /\ Head(todo) = "merge" => BackedUp

\* No container is made before the check has passed, which only a
\* configuration of the operator does.
Checked ==
    /\ Has(todo, "up") /\ ~Has(todo, "validate") => own # NoFile
    /\ container # NoContainer => own # NoFile

Serving ==
    /\ conf # Down => container # NoContainer
    /\ ~Running => ~stale
    /\ Running /\ ~stale => conf \in Own

IInv == /\ Types /\ Shape(todo) /\ WriteInProgress /\ Stamping
        /\ AppFile /\ Kept /\ Checked /\ Serving

-----------------------------------------------------------------------------
(* Files and steps *)

LEMMA Files ==
    /\ App = Copy(0) /\ 0 \in Seconds
    /\ \A s \in Seconds : Copy(s) \in File /\ Copy(s) \notin {Nginx, Override}
    /\ \A s, t \in Seconds : Copy(s) = Copy(t) => s = t
    /\ {Nginx, Override} \subseteq File
    /\ \A s \in 1..MaxSecond : s \in Seconds /\ Copy(s) # App
  BY SetupAssumption DEF App, Nginx, Override, File, Copy, Seconds

LEMMA ExampleType == Example \in Config /\ Example.token = Placeholder
  BY ConfigAssumption DEF Example, Config, LogPath, Credential

LEMMA StampType ==
    ASSUME NEW c \in Config PROVE [c EXCEPT !.token = NewToken] \in Config
  BY SetupAssumption, ConfigAssumption DEF Config

LEMMA HeadIsFirst ==
    ASSUME NEW q \in Seq(Steps), Len(q) >= 1 PROVE q # <<>> /\ Head(q) = q[1]
  OBVIOUS

LEMMA ShapeOfRest ==
    ASSUME NEW q, Shape(q), NEW n \in {1, 2}, NEW r, r \in Seq(Steps), Len(r) = Len(q) - n,
           \A i \in 1..Len(r) : r[i] = q[i + n]
    PROVE  Shape(r)
  <1>1. q \in Seq(Steps) /\ Len(q) \in Nat
    BY DEF Shape
  <1>2. \A j \in 1..Len(q) :
            /\ q[j] = "copyExample" => j < Len(q) /\ q[j+1] = "stamp"
            /\ q[j] = "stamp" /\ j > 1 => q[j-1] = "copyExample"
            /\ q[j] = "merge" /\ j > 1 => q[j-1] = "backupApp"
            /\ q[j] = "up" => j = Len(q)
    BY DEF Shape
  <1>3. ASSUME NEW i \in 1..Len(r)
        PROVE  /\ r[i] = "copyExample" => i < Len(r) /\ r[i+1] = "stamp"
               /\ r[i] = "stamp" /\ i > 1 => r[i-1] = "copyExample"
               /\ r[i] = "merge" /\ i > 1 => r[i-1] = "backupApp"
               /\ r[i] = "up" => i = Len(r)
    <2>1. i + n \in 1..Len(q) /\ r[i] = q[i + n]
      BY <1>1
    <2>2. r[i] = "copyExample" => i < Len(r) /\ r[i+1] = "stamp"
      <3>1. i < Len(r) => r[i + 1] = q[(i + n) + 1]
        <4>1. i < Len(r) => i + 1 \in 1..Len(r) /\ (i + 1) + n = (i + n) + 1
          BY <1>1
        <4> QED BY <4>1
      <3>2. i + n < Len(q) => i < Len(r)
        BY <1>1
      <3> QED BY <1>2, <2>1, <3>1, <3>2
    <2>3. i > 1 => r[i - 1] = q[(i + n) - 1] /\ i + n > 1
      <3>1. i > 1 => i - 1 \in 1..Len(r) /\ (i - 1) + n = (i + n) - 1 /\ i + n > 1
        BY <1>1
      <3> QED BY <3>1
    <2>4. i + n = Len(q) => i = Len(r)
      BY <1>1
    <2> QED BY <1>2, <2>1, <2>2, <2>3, <2>4
  <1> QED BY <1>3 DEF Shape

\* What is left of a script after its next one or two steps.
LEMMA Rest ==
    ASSUME NEW q, Shape(q), q # <<>>, NEW n \in {1, 2},
           n = 2 <=> Head(q) = "copyExample",
           NEW r, r = SubSeq(q, n + 1, Len(q))
    PROVE  /\ Shape(r)
           /\ r # <<>> => Head(r) # "stamp"
           /\ r # <<>> /\ Head(r) = "merge" => Head(q) = "backupApp"
           /\ Has(r, "up") => Has(q, "up")
           /\ Has(q, "validate") => Has(r, "validate") \/ Head(q) = "validate"
  <1>1. /\ q \in Seq(Steps) /\ Len(q) \in Nat /\ Len(q) >= 1 /\ Head(q) = q[1]
        /\ n = 2 => Len(q) >= 2 /\ q[2] = "stamp"
    BY DEF Shape
  <1>2. /\ r \in Seq(Steps) /\ Len(r) = Len(q) - n
        /\ \A i \in 1..Len(r) : r[i] = q[i + n]
        /\ r # <<>> => Len(r) >= 1 /\ Head(r) = r[1]
    BY <1>1
  <1>3. Shape(r)
    BY <1>1, <1>2, ShapeOfRest
  <1>4. ASSUME r # <<>>
        PROVE  /\ Head(r) # "stamp"
               /\ Head(r) = "merge" => Head(q) = "backupApp"
    <2>1. Head(r) = q[n + 1] /\ n + 1 \in 1..Len(q) /\ n + 1 > 1
      BY <1>1, <1>2, <1>4
    <2>2. q[n] # "copyExample" /\ (n = 2 => q[n] # "backupApp")
      BY <1>1
    <2> QED BY <1>1, <2>1, <2>2 DEF Shape
  <1>5. Has(r, "up") => Has(q, "up")
    BY <1>1, <1>2 DEF Has
  <1>6. ASSUME Has(q, "validate"), Head(q) # "validate" PROVE Has(r, "validate")
    <2>1. PICK i \in 1..Len(q) : q[i] = "validate"
      BY <1>6 DEF Has
    <2>2. i > n
      BY <1>1, <1>6, <2>1
    <2>3. i - n \in 1..Len(r) /\ r[i - n] = "validate"
      BY <1>1, <1>2, <2>1, <2>2
    <2> QED BY <2>3 DEF Has
  <1> QED BY <1>3, <1>4, <1>5, <1>6

\* After a step that wrote a file.
LEMMA RestOfWrite ==
    ASSUME NEW q, Shape(q), q # <<>>, NEW r, r = Tail(q)
    PROVE  /\ Shape(r)
           /\ r # <<>> /\ Head(r) = "stamp" => Head(q) = "copyExample"
           /\ r # <<>> /\ Head(r) = "merge" => Head(q) = "backupApp"
           /\ Has(r, "up") => Has(q, "up")
           /\ Has(q, "validate") => Has(r, "validate") \/ Head(q) = "validate"
  <1>1. /\ q \in Seq(Steps) /\ Len(q) \in Nat /\ Len(q) >= 1 /\ Head(q) = q[1]
    BY DEF Shape
  <1>2. /\ r \in Seq(Steps) /\ Len(r) = Len(q) - 1
        /\ \A i \in 1..Len(r) : r[i] = q[i + 1]
        /\ r # <<>> => Len(r) >= 1 /\ Head(r) = r[1]
    BY <1>1
  <1>3. Shape(r)
    BY <1>1, <1>2, ShapeOfRest
  <1>4. ASSUME r # <<>>
        PROVE  /\ Head(r) = "stamp" => Head(q) = "copyExample"
               /\ Head(r) = "merge" => Head(q) = "backupApp"
    <2>1. Head(r) = q[2] /\ 2 \in 1..Len(q) /\ 2 > 1 /\ 2 - 1 = 1
      BY <1>1, <1>2, <1>4
    <2> QED BY <1>1, <2>1 DEF Shape
  <1>5. Has(r, "up") => Has(q, "up")
    BY <1>1, <1>2 DEF Has
  <1>6. ASSUME Has(q, "validate"), Head(q) # "validate" PROVE Has(r, "validate")
    <2>1. PICK i \in 1..Len(q) : q[i] = "validate"
      BY <1>6 DEF Has
    <2>2. i > 1
      BY <1>1, <1>6, <2>1
    <2>3. i - 1 \in 1..Len(r) /\ r[i - 1] = "validate"
      BY <1>1, <1>2, <2>1, <2>2
    <2> QED BY <2>3 DEF Has
  <1> QED BY <1>3, <1>4, <1>5, <1>6

LEMMA InitShape ==
    /\ InitSteps \in Seq(Steps) /\ Len(InitSteps) = 4
    /\ InitSteps[1] = "copyExample" /\ InitSteps[2] = "stamp"
    /\ InitSteps[3] = "copyOverride" /\ InitSteps[4] = "copyNginx"
  <1>1. InitSteps \in Seq(Steps)
    BY DEF InitSteps, Steps
  <1> QED BY <1>1 DEF InitSteps

More == <<"verify", "validate", "render", "load", "up">>

LEMMA MoreShape ==
    /\ More \in Seq(Steps) /\ Len(More) = 5
    /\ More[1] = "verify" /\ More[2] = "validate" /\ More[3] = "render"
    /\ More[4] = "load" /\ More[5] = "up"
  <1>1. More \in Seq(Steps)
    BY DEF More, Steps
  <1> QED BY <1>1 DEF More

LEMMA SetupShape ==
    /\ SetupSteps \in Seq(Steps) /\ Len(SetupSteps) = 9
    /\ SetupSteps[1] = "copyExample" /\ SetupSteps[2] = "stamp"
    /\ SetupSteps[3] = "copyOverride" /\ SetupSteps[4] = "copyNginx"
    /\ SetupSteps[5] = "verify" /\ SetupSteps[6] = "validate"
    /\ SetupSteps[7] = "render" /\ SetupSteps[8] = "load" /\ SetupSteps[9] = "up"
  <1>1. SetupSteps = InitSteps \o More
    BY DEF SetupSteps, More
  <1>2. InitSteps \in Seq(Steps) /\ More \in Seq(Steps)
    BY InitShape, MoreShape
  <1>3. /\ SetupSteps \in Seq(Steps)
        /\ Len(SetupSteps) = Len(InitSteps) + Len(More)
        /\ \A i \in 1..Len(InitSteps) + Len(More) :
               SetupSteps[i] = IF i <= Len(InitSteps) THEN InitSteps[i] ELSE More[i - Len(InitSteps)]
    BY <1>1, <1>2, ConcatProperties
  <1>4. /\ Len(SetupSteps) = 9
        /\ \A i \in 1..4 : SetupSteps[i] = InitSteps[i]
        /\ \A i \in 5..9 : SetupSteps[i] = More[i - 4]
    BY <1>3, InitShape, MoreShape
  <1> QED BY <1>3, <1>4, InitShape, MoreShape

First == <<"verify", "backupApp", "merge", "backupNginx", "backupOverride">>

LEMMA FirstShape ==
    /\ First \in Seq(Steps) /\ Len(First) = 5
    /\ First[1] = "verify" /\ First[2] = "backupApp" /\ First[3] = "merge"
    /\ First[4] = "backupNginx" /\ First[5] = "backupOverride"
  <1>1. First \in Seq(Steps)
    BY DEF First, Steps
  <1> QED BY <1>1 DEF First

LEMMA UpgradeShape ==
    /\ UpgradeSteps \in Seq(Steps) /\ Len(UpgradeSteps) = 14
    /\ UpgradeSteps[1] = "verify" /\ UpgradeSteps[2] = "backupApp" /\ UpgradeSteps[3] = "merge"
    /\ UpgradeSteps[4] = "backupNginx" /\ UpgradeSteps[5] = "backupOverride"
    /\ \A i \in 6..14 : UpgradeSteps[i] = SetupSteps[i - 5]
  <1>1. UpgradeSteps = First \o SetupSteps
    BY DEF UpgradeSteps, First
  <1>2. First \in Seq(Steps) /\ SetupSteps \in Seq(Steps)
    BY FirstShape, SetupShape
  <1>3. /\ UpgradeSteps \in Seq(Steps)
        /\ Len(UpgradeSteps) = Len(First) + Len(SetupSteps)
        /\ \A i \in 1..Len(First) + Len(SetupSteps) :
               UpgradeSteps[i] = IF i <= Len(First) THEN First[i] ELSE SetupSteps[i - Len(First)]
    BY <1>1, <1>2, ConcatProperties
  <1> HIDE DEF UpgradeSteps
  <1>4. /\ Len(UpgradeSteps) = 14
        /\ \A i \in 1..5 : UpgradeSteps[i] = First[i]
        /\ \A i \in 6..14 : UpgradeSteps[i] = SetupSteps[i - 5]
    BY <1>3, FirstShape, SetupShape
  <1>5. /\ UpgradeSteps[1] = "verify" /\ UpgradeSteps[2] = "backupApp" /\ UpgradeSteps[3] = "merge"
        /\ UpgradeSteps[4] = "backupNginx" /\ UpgradeSteps[5] = "backupOverride"
    BY <1>4, FirstShape
  <1> QED BY <1>3, <1>4, <1>5

LEMMA ScriptShapes ==
    ASSUME NEW q \in {InitSteps, SetupSteps, UpgradeSteps}
    PROVE  /\ Shape(q) /\ q # <<>> /\ Head(q) \notin {"stamp", "merge"}
           /\ Has(q, "up") => Has(q, "validate")
  <1>1. CASE q = InitSteps
    <2>1. \A i \in 1..4 : i = 1 \/ i = 2 \/ i = 3 \/ i = 4
      OBVIOUS
    <2>2. Shape(q)
      BY <1>1, <2>1, InitShape DEF Shape
    <2>3. ~Has(q, "up")
      BY <1>1, <2>1, InitShape DEF Has
    <2>4. q # <<>> /\ Head(q) = "copyExample"
      BY <1>1, InitShape
    <2> QED BY <2>2, <2>3, <2>4
  <1>2. CASE q = SetupSteps
    <2>1. \A i \in 1..9 : i = 1 \/ i = 2 \/ i = 3 \/ i = 4 \/ i = 5 \/ i = 6 \/ i = 7 \/ i = 8 \/ i = 9
      OBVIOUS
    <2>2. Shape(q)
      BY <1>2, <2>1, SetupShape DEF Shape
    <2>3. q[6] = "validate" /\ 6 \in 1..Len(q)
      BY <1>2, SetupShape
    <2>4. q # <<>> /\ Head(q) = "copyExample"
      BY <1>2, SetupShape
    <2> QED BY <2>2, <2>3, <2>4 DEF Has
  <1>3. CASE q = UpgradeSteps
    <2>1. \A i \in 1..14 : i \in 6..14 \/ i = 1 \/ i = 2 \/ i = 3 \/ i = 4 \/ i = 5
      OBVIOUS
    <2>2. Shape(SetupSteps)
      <3>1. \A i \in 1..9 : i = 1 \/ i = 2 \/ i = 3 \/ i = 4 \/ i = 5 \/ i = 6 \/ i = 7 \/ i = 8 \/ i = 9
        OBVIOUS
      <3> QED BY <3>1, SetupShape DEF Shape
    <2>3. ASSUME NEW i \in 6..14
          PROVE  /\ q[i] = "copyExample" => i < Len(q) /\ q[i+1] = "stamp"
                 /\ q[i] = "stamp" /\ i > 1 => q[i-1] = "copyExample"
                 /\ q[i] = "merge" /\ i > 1 => q[i-1] = "backupApp"
                 /\ q[i] = "up" => i = Len(q)
      <3>1. \A j \in 6..14 : q[j] = SetupSteps[j - 5]
        BY <1>3, UpgradeShape
      <3>2. /\ i - 5 \in 1..9 /\ q[i] = SetupSteps[i - 5]
            /\ i > 6 => q[i-1] = SetupSteps[(i - 5) - 1]
            /\ i < 14 => q[i+1] = SetupSteps[(i - 5) + 1]
        BY <3>1
      <3> QED BY <1>3, <2>2, <3>1, <3>2, SetupShape, UpgradeShape DEF Shape
    <2>4. Shape(q)
      BY <1>3, <2>1, <2>3, UpgradeShape DEF Shape
    <2>5. q[11] = "validate" /\ 11 \in 1..Len(q)
      BY <1>3, UpgradeShape, SetupShape
    <2>6. q # <<>> /\ Head(q) = "verify"
      <3>1. Len(q) = 14 /\ q[1] = "verify"
        BY <1>3, UpgradeShape
      <3>2. q \in Seq(Steps)
        BY <2>4 DEF Shape
      <3>3. Len(q) >= 1
        BY <3>1
      <3> QED BY <3>1, <3>2, <3>3, HeadIsFirst
    <2> QED BY <2>4, <2>5, <2>6 DEF Has
  <1> QED BY <1>1, <1>2, <1>3

-----------------------------------------------------------------------------
(* The script's steps *)

LEMMA Written ==
    ASSUME NEW a, a = [x \in File |-> a[x]], NEW f \in File, NEW v,
           NEW b, b = [a EXCEPT ![f] = v]
    PROVE  b = [x \in File |-> b[x]] /\ b[f] = v /\ \A x \in File \ {f} : b[x] = a[x]
  OBVIOUS

\* A step that writes nothing, a script that starts and one that stops.
LEMMA ScriptGoes ==
    ASSUME IInv, UNCHANGED <<fs, clock, docker, operator>>, held' = Nothing,
           Shape(todo'),
           todo' # <<>> => Head(todo') # "stamp",
           todo' # <<>> /\ Head(todo') = "merge" => own = NoFile,
           Has(todo', "up") /\ ~Has(todo', "validate") => own # NoFile
    PROVE  IInv'
  <1>1. /\ Types' /\ Shape(todo)' /\ AppFile' /\ Serving'
    BY DEF IInv, Types, AppFile, Serving, docker, operator, Customers, Own, Running
  <1>2. WriteInProgress' /\ Stamping'
    BY DEF WriteInProgress, Writing, Stamping, Nothing, App
  <1>3. Kept'
    BY DEF IInv, Kept, BackedUp, docker, operator, Own
  <1>4. Checked'
    BY DEF IInv, Checked, docker, operator
  <1> QED BY <1>1, <1>2, <1>3, <1>4 DEF IInv

LEMMA ScriptStarts ==
    ASSUME IInv, NEW q \in {InitSteps, SetupSteps, UpgradeSteps}, NEW m, Run(q, m)
    PROVE  IInv'
  <1>1. todo' = q /\ held' = Nothing /\ UNCHANGED <<fs, clock, docker, operator>>
    BY DEF Run, IInv, WriteInProgress, Writing
  <1> QED BY <1>1, ScriptShapes, ScriptGoes

LEMMA Stops ==
    ASSUME IInv, Fail, UNCHANGED <<fs, clock, docker, operator>>
    PROVE  IInv'
  <1>1. todo' = <<>> /\ held' = Nothing
    BY DEF Fail
  <1>2. Shape(todo') /\ ~Has(todo', "up")
    BY <1>1 DEF Shape, Has
  <1> QED BY <1>1, <1>2, ScriptGoes

LEMMA MovesOn ==
    ASSUME IInv, NEW step, At(step), NEW n \in {1, 2}, n = 2 <=> step = "copyExample",
           todo' = SubSeq(todo, n + 1, Len(todo)), held' = held,
           UNCHANGED <<fs, clock, docker, operator>>,
           step = "backupApp" => own = NoFile,
           step = "validate" => own # NoFile
    PROVE  IInv'
  <1>1. Shape(todo) /\ todo # <<>> /\ Head(todo) = step /\ held' = Nothing
    BY DEF At, IInv
  <1>2. /\ Shape(todo')
        /\ todo' # <<>> => Head(todo') # "stamp"
        /\ todo' # <<>> /\ Head(todo') = "merge" => Head(todo) = "backupApp"
        /\ Has(todo', "up") => Has(todo, "up")
        /\ Has(todo, "validate") => Has(todo', "validate") \/ Head(todo) = "validate"
    BY <1>1, Rest
  <1>3. Has(todo', "up") /\ ~Has(todo', "validate") => own # NoFile
    BY <1>1, <1>2 DEF IInv, Checked
  <1> QED BY <1>1, <1>2, <1>3, ScriptGoes

LEMMA Skips ==
    ASSUME IInv, NEW step, NEW n \in {1, 2}, n = 2 <=> step = "copyExample", Skip(step, n),
           step = "backupApp" => own = NoFile, step # "validate"
    PROVE  IInv'
  BY MovesOn DEF Skip

LEMMA Proceeds ==
    ASSUME IInv, NEW step, At(step), Proceed, UNCHANGED <<fs, clock, docker, operator>>,
           step \notin {"copyExample", "backupApp"},
           step = "validate" => own # NoFile
    PROVE  IInv'
  <1>1. todo' = SubSeq(todo, 1 + 1, Len(todo))
    BY DEF Proceed, At, IInv, Shape
  <1> QED BY <1>1, MovesOn DEF Proceed

-----------------------------------------------------------------------------
(* Writes *)

\* Nothing is in progress but what the step at the head began.
LEMMA IdleHeld ==
    ASSUME IInv, todo = <<>> PROVE held = Nothing
  BY DEF IInv, WriteInProgress, Writing

LEMMA BeginsOther ==
    ASSUME IInv, NEW step, At(step), step \in {"copyOverride", "copyNginx", "render"},
           NEW f \in {Nginx, Override}, NEW content, BeginWrite(f, content), UNCHANGED operator
    PROVE  IInv'
  <1>1. /\ fs = [x \in File |-> fs[x]] /\ f \in File /\ fs' = [fs EXCEPT ![f] = Torn]
        /\ held' = [file |-> f, content |-> content] /\ todo' = todo
        /\ todo # <<>> /\ Head(todo) = step
        /\ UNCHANGED <<clock, container, conf, own, stale, collided>>
    BY Files DEF IInv, Types, BeginWrite, At, docker, operator
  <1>2. /\ fs' = [x \in File |-> fs'[x]] /\ fs'[f] = Torn
        /\ \A x \in File \ {f} : fs'[x] = fs[x]
    BY <1>1, Written
  <1>3. fs'[App] = fs[App] /\ \A s \in Seconds : fs'[Copy(s)] = fs[Copy(s)]
    BY <1>2, Files
  <1>4. Types' /\ Shape(todo')
    BY <1>1, <1>2, <1>3 DEF IInv, Types
  <1>5. WriteInProgress' /\ Stamping'
    BY <1>1, <1>2 DEF WriteInProgress, Writing, Stamping
  <1>6. BackedUp' <=> BackedUp
    BY <1>1, <1>3, Files DEF BackedUp, Own
  <1>7. AppFile' /\ Kept'
    BY <1>1, <1>3, <1>6 DEF IInv, AppFile, Kept, Customers, Own
  <1>8. Checked' /\ Serving'
    BY <1>1 DEF IInv, Checked, Serving, Running, Own
  <1> QED BY <1>4, <1>5, <1>7, <1>8 DEF IInv

LEMMA BeginsApp ==
    ASSUME IInv, NEW step, At(step), step \in {"copyExample", "stamp", "merge"},
           NEW content \in Config, BeginWrite(App, content), UNCHANGED operator,
           step = "copyExample" => content = Example /\ own = NoFile,
           step = "stamp" => own = NoFile,
           step = "merge" => Customers(content)
    PROVE  IInv'
  <1>1. /\ fs = [x \in File |-> fs[x]] /\ App \in File /\ fs' = [fs EXCEPT ![App] = Torn]
        /\ held' = [file |-> App, content |-> content] /\ todo' = todo
        /\ todo # <<>> /\ Head(todo) = step
        /\ UNCHANGED <<clock, container, conf, own, stale, collided>>
    BY Files DEF IInv, Types, BeginWrite, At, docker, operator
  <1>2. /\ fs' = [x \in File |-> fs'[x]] /\ fs'[App] = Torn
        /\ \A x \in File \ {App} : fs'[x] = fs[x]
    BY <1>1, Written
  <1>3. \A s \in 1..MaxSecond : fs'[Copy(s)] = fs[Copy(s)]
    BY <1>2, Files
  <1>4. \A s \in Seconds : fs'[Copy(s)] \in Config \cup {NoFile, Torn}
    BY <1>2, Files DEF IInv, Types
  <1>5. Types' /\ Shape(todo')
    BY <1>1, <1>2, <1>4 DEF IInv, Types
  <1>6. held' # Nothing
    BY <1>1, SetupAssumption DEF Nothing
  <1>7. WriteInProgress'
    BY <1>1, <1>2 DEF WriteInProgress, Writing, Customers, Own
  <1>8. Stamping'
    BY <1>1, <1>6 DEF Stamping, Writing
  <1>9. BackedUp' <=> BackedUp
    BY <1>1, <1>3 DEF BackedUp, Own
  <1>10. Kept'
    BY <1>1, <1>9 DEF IInv, Kept
  <1>11. AppFile'
    BY <1>2, SetupAssumption DEF AppFile
  <1>12. Checked' /\ Serving'
    BY <1>1 DEF IInv, Checked, Serving, Running, Own
  <1> QED BY <1>5, <1>7, <1>8, <1>10, <1>11, <1>12 DEF IInv

LEMMA BeginsBackup ==
    ASSUME IInv, At("backupApp"), fs[App] # NoFile, BeginWrite(Copy(clock), fs[App]),
           collided' = (collided \/ fs[Copy(clock)] # NoFile), UNCHANGED <<own, stale>>
    PROVE  IInv'
  <1>1. /\ clock \in 1..MaxSecond /\ Copy(clock) \in File /\ Copy(clock) # App
        /\ fs = [x \in File |-> fs[x]] /\ fs' = [fs EXCEPT ![Copy(clock)] = Torn]
        /\ held' = [file |-> Copy(clock), content |-> fs[App]] /\ todo' = todo
        /\ todo # <<>> /\ Head(todo) = "backupApp"
        /\ UNCHANGED <<clock, container, conf, own, stale>>
    BY Files DEF IInv, Types, BeginWrite, At, docker
  <1>2. /\ fs' = [x \in File |-> fs'[x]] /\ fs'[Copy(clock)] = Torn
        /\ \A x \in File \ {Copy(clock)} : fs'[x] = fs[x]
    BY <1>1, Written
  <1>3. /\ fs'[App] = fs[App]
        /\ \A s \in Seconds : s # clock => fs'[Copy(s)] = fs[Copy(s)]
    BY <1>1, <1>2, Files
  <1>4. \A s \in Seconds : fs'[Copy(s)] \in Config \cup {NoFile, Torn}
    BY <1>2, <1>3 DEF IInv, Types
  <1>5. collided' \in BOOLEAN /\ (~collided' => ~collided /\ fs[Copy(clock)] = NoFile)
    BY Zenon DEF IInv, Types
  <1>6. Types' /\ Shape(todo')
    BY <1>1, <1>2, <1>4, <1>5 DEF IInv, Types
  <1>7. WriteInProgress' /\ Stamping'
    BY <1>1, <1>2, <1>3 DEF WriteInProgress, Writing, Stamping
  <1>8. own # NoFile /\ ~collided' /\ BackedUp => BackedUp'
    <2>1. SUFFICES ASSUME own # NoFile, ~collided', NEW s \in 1..MaxSecond, fs[Copy(s)] \in Own
                   PROVE  BackedUp'
      BY DEF BackedUp
    <2>2. own \in Config
      BY <2>1 DEF IInv, Types
    <2>3. NoFile \notin Own
      BY <2>2, MergeType, SetupAssumption DEF Own
    <2>4. s # clock /\ s \in Seconds
      BY <1>5, <2>1, <2>3, Files
    <2> QED BY <1>1, <1>3, <2>1, <2>4 DEF BackedUp, Own
  <1>9. AppFile'
    BY <1>1, <1>3 DEF IInv, AppFile, Customers, Own
  <1>10. Kept'
    BY <1>1, <1>3, <1>5, <1>8 DEF IInv, Kept, Own
  <1>11. Checked' /\ Serving'
    BY <1>1 DEF IInv, Checked, Serving, Running, Own
  <1> QED BY <1>6, <1>7, <1>9, <1>10, <1>11 DEF IInv

\* What EndWrite does, whatever the file.
LEMMA Ends ==
    ASSUME IInv, EndWrite, NEW f, f = held.file, f \in File
    PROVE  /\ held' = Nothing /\ todo # <<>>
           /\ Shape(todo')
           /\ todo' # <<>> /\ Head(todo') = "stamp" => Head(todo) = "copyExample"
           /\ todo' # <<>> /\ Head(todo') = "merge" => Head(todo) = "backupApp"
           /\ Has(todo', "up") /\ ~Has(todo', "validate") => own # NoFile \/ Head(todo) = "validate"
           /\ fs' = [x \in File |-> fs'[x]] /\ fs'[f] = held.content
           /\ \A x \in File \ {f} : fs'[x] = fs[x]
           /\ UNCHANGED <<clock, container, conf, stale, collided>>
           /\ own' = IF Head(todo) = "stamp" THEN held.content ELSE own
  <1>1. /\ fs = [x \in File |-> fs[x]] /\ fs' = [fs EXCEPT ![f] = held.content]
        /\ todo # <<>> /\ Shape(todo) /\ todo' = Tail(todo) /\ held' = Nothing
        /\ UNCHANGED <<clock, container, conf, stale, collided>>
        /\ own' = IF Head(todo) = "stamp" THEN held.content ELSE own
    BY DEF IInv, Types, WriteInProgress, Writing, EndWrite, docker
  <1>2. /\ Shape(todo')
        /\ todo' # <<>> /\ Head(todo') = "stamp" => Head(todo) = "copyExample"
        /\ todo' # <<>> /\ Head(todo') = "merge" => Head(todo) = "backupApp"
        /\ Has(todo', "up") => Has(todo, "up")
        /\ Has(todo, "validate") => Has(todo', "validate") \/ Head(todo) = "validate"
    BY <1>1, RestOfWrite
  <1>3. Has(todo', "up") /\ ~Has(todo', "validate") => own # NoFile \/ Head(todo) = "validate"
    BY <1>2 DEF IInv, Checked
  <1>4. /\ fs' = [x \in File |-> fs'[x]] /\ fs'[f] = held.content
        /\ \A x \in File \ {f} : fs'[x] = fs[x]
    BY <1>1, Written
  <1> QED BY <1>1, <1>2, <1>3, <1>4

LEMMA EndsApp ==
    ASSUME IInv, EndWrite, Head(todo) \in {"copyExample", "stamp", "merge"}
    PROVE  IInv'
  <1>1. /\ held.file = App /\ App \in File /\ held.content \in Config
        /\ Head(todo) = "copyExample" => held.content = Example /\ own = NoFile
        /\ Head(todo) = "stamp" => own = NoFile
        /\ Head(todo) = "merge" => Customers(held.content)
    BY Files, ExampleType DEF IInv, WriteInProgress, Writing, EndWrite, Stamping, Customers
  <1>2. /\ held' = Nothing /\ todo # <<>> /\ Shape(todo')
        /\ todo' # <<>> /\ Head(todo') = "stamp" => Head(todo) = "copyExample"
        /\ todo' # <<>> => Head(todo') # "merge"
        /\ Has(todo', "up") /\ ~Has(todo', "validate") => own # NoFile
        /\ fs' = [x \in File |-> fs'[x]] /\ fs'[App] = held.content
        /\ \A x \in File \ {App} : fs'[x] = fs[x]
        /\ UNCHANGED <<clock, container, conf, stale, collided>>
        /\ own' = IF Head(todo) = "stamp" THEN held.content ELSE own
    BY <1>1, Ends
  <1>3. own' \in Config \cup {NoFile} /\ (own # NoFile => own' = own)
    BY <1>1, <1>2 DEF IInv, Types
  <1>4. /\ \A s \in 1..MaxSecond : fs'[Copy(s)] = fs[Copy(s)]
        /\ \A s \in Seconds : fs'[Copy(s)] \in Config \cup {NoFile, Torn}
    BY <1>1, <1>2, Files DEF IInv, Types
  <1>5. Types'
    BY <1>2, <1>3, <1>4 DEF IInv, Types
  <1>6. /\ own' = NoFile => held.content.token = Placeholder
        /\ own' # NoFile => held.content \in {own', Merge(own')}
    <2>1. CASE Head(todo) = "copyExample"
      BY <1>1, <1>2, <2>1, ExampleType DEF Customers
    <2>2. CASE Head(todo) = "stamp"
      BY <1>1, <1>2, <2>2, SetupAssumption DEF Customers, Own
    <2>3. CASE Head(todo) = "merge"
      BY <1>1, <1>2, <2>3 DEF Customers, Own
    <2> QED BY <2>1, <2>2, <2>3
  <1>7. AppFile'
    BY <1>1, <1>2, <1>6, SetupAssumption DEF AppFile, Customers, Own
  <1>8. WriteInProgress' /\ Stamping'
    BY <1>1, <1>2 DEF WriteInProgress, Writing, Stamping
  <1>9. Kept'
    BY <1>2, <1>6 DEF Kept, Customers, Own
  <1>10. Checked' /\ Serving'
    <2>1. CASE Head(todo) = "stamp"
      BY <1>1, <1>2, <2>1, SetupAssumption DEF IInv, Checked, Serving, Running
    <2>2. CASE Head(todo) # "stamp"
      BY <1>2, <2>2 DEF IInv, Checked, Serving, Running, Own
    <2> QED BY <2>1, <2>2
  <1> QED BY <1>2, <1>5, <1>7, <1>8, <1>9, <1>10 DEF IInv

LEMMA EndsBackup ==
    ASSUME IInv, EndWrite, Head(todo) = "backupApp"
    PROVE  IInv'
  <1>1. PICK s \in 1..MaxSecond : held = [file |-> Copy(s), content |-> fs[App]]
    BY DEF IInv, WriteInProgress, Writing, EndWrite
  <1>2. /\ held.file = Copy(s) /\ held.content = fs[App] /\ fs[Copy(s)] = Torn
        /\ s \in Seconds /\ Copy(s) \in File /\ Copy(s) # App /\ App \in File
        /\ \A t \in Seconds : t # s => Copy(t) \in File \ {Copy(s)}
    BY <1>1, Files DEF IInv, WriteInProgress, Writing, EndWrite
  <1>3. /\ held' = Nothing /\ todo # <<>> /\ Shape(todo')
        /\ todo' # <<>> => Head(todo') # "stamp"
        /\ Has(todo', "up") /\ ~Has(todo', "validate") => own # NoFile
        /\ fs' = [x \in File |-> fs'[x]] /\ fs'[Copy(s)] = fs[App]
        /\ \A x \in File \ {Copy(s)} : fs'[x] = fs[x]
        /\ UNCHANGED <<clock, container, conf, own, stale, collided>>
    BY <1>2, Ends
  <1>4. /\ fs'[App] = fs[App]
        /\ \A t \in Seconds : t # s => fs'[Copy(t)] = fs[Copy(t)]
    BY <1>2, <1>3
  <1>5. Types'
    <2>1. fs[App] \in Config \cup {NoFile, Torn}
      BY Files DEF IInv, Types
    <2>2. \A t \in Seconds : fs'[Copy(t)] \in Config \cup {NoFile, Torn}
      BY <1>3, <1>4, <2>1 DEF IInv, Types
    <2> QED BY <1>3, <2>2 DEF IInv, Types
  <1>6. WriteInProgress' /\ Stamping'
    BY <1>3 DEF WriteInProgress, Writing, Stamping
  <1>7. own # NoFile /\ BackedUp => BackedUp'
    <2>1. SUFFICES ASSUME own # NoFile, NEW t \in 1..MaxSecond, fs[Copy(t)] \in Own
                   PROVE  BackedUp'
      BY DEF BackedUp
    <2>2. Torn \notin Own
      BY <2>1, MergeType, SetupAssumption DEF IInv, Types, Own
    <2>3. t # s /\ t \in Seconds
      BY <1>2, <2>1, <2>2, Files
    <2> QED BY <1>3, <1>4, <2>1, <2>3 DEF BackedUp, Own
  <1>8. fs[App] \in Own => BackedUp'
    BY <1>3 DEF BackedUp, Own
  <1>9. Kept'
    BY <1>3, <1>7, <1>8 DEF IInv, Kept
  <1>10. AppFile'
    BY <1>3, <1>4 DEF IInv, AppFile, Customers, Own
  <1>11. Checked' /\ Serving'
    BY <1>3 DEF IInv, Checked, Serving, Running, Own
  <1> QED BY <1>3, <1>5, <1>6, <1>9, <1>10, <1>11 DEF IInv

LEMMA EndsOther ==
    ASSUME IInv, EndWrite, Head(todo) \notin {"copyExample", "stamp", "merge", "backupApp"}
    PROVE  IInv'
  <1>1. held.file \in {Nginx, Override} /\ held.file \in File /\ Head(todo) # "validate"
    BY Files DEF IInv, WriteInProgress, Writing, EndWrite
  <1>2. /\ held' = Nothing /\ todo # <<>> /\ Shape(todo')
        /\ todo' # <<>> => Head(todo') \notin {"stamp", "merge"}
        /\ Has(todo', "up") /\ ~Has(todo', "validate") => own # NoFile
        /\ fs' = [x \in File |-> fs'[x]]
        /\ \A x \in File \ {held.file} : fs'[x] = fs[x]
        /\ UNCHANGED <<clock, container, conf, own, stale, collided>>
    BY <1>1, Ends
  <1>3. fs'[App] = fs[App] /\ \A s \in Seconds : fs'[Copy(s)] = fs[Copy(s)]
    BY <1>1, <1>2, Files
  <1>4. Types'
    BY <1>2, <1>3 DEF IInv, Types
  <1>5. WriteInProgress' /\ Stamping'
    BY <1>2 DEF WriteInProgress, Writing, Stamping
  <1>6. BackedUp' <=> BackedUp
    BY <1>2, <1>3, Files DEF BackedUp, Own
  <1>7. AppFile' /\ Kept'
    BY <1>2, <1>3, <1>6 DEF IInv, AppFile, Kept, Customers, Own
  <1>8. Checked' /\ Serving'
    BY <1>2 DEF IInv, Checked, Serving, Running, Own
  <1> QED BY <1>2, <1>4, <1>5, <1>7, <1>8 DEF IInv

LEMMA EndWriteKeeps ==
    ASSUME IInv, EndWrite PROVE IInv'
  BY EndsApp, EndsBackup, EndsOther

-----------------------------------------------------------------------------
(* The actions *)

\* Merging a customer's file leaves a customer's file, whoever interrupted what.
LEMMA CustomersMerge ==
    ASSUME IInv, NEW c, Customers(c) PROVE Customers(Merge(c))
  <1>1. c \in Config /\ Merge(c) \in Config
    BY MergeType DEF Customers
  <1>2. CASE own = NoFile
    <2>1. c.token = Placeholder /\ Given(c.token) /\ c.token # Missing
      BY <1>2, ConfigAssumption DEF Customers, Given
    <2> QED BY <1>1, <1>2, <2>1, MergedAdmin DEF Customers, Else
  <1>3. CASE own # NoFile
    <2>1. own \in Config
      BY <1>3 DEF IInv, Types
    <2> QED BY <1>1, <1>3, <2>1, MergeTwice DEF Customers, Own
  <1> QED BY <1>2, <1>3

LEMMA StepKeeps ==
    ASSUME IInv, Step PROVE IInv'
  <1>1. CASE CopyExample
    <2>1. fs[App] = NoFile => own = NoFile
      BY DEF IInv, AppFile
    <2>2. At("copyExample") /\ fs[App] = NoFile /\ BeginWrite(App, Example) /\ UNCHANGED operator => IInv'
      BY <2>1, BeginsApp, ExampleType
    <2>3. Skip("copyExample", 2) => IInv'
      BY Skips
    <2> QED BY <1>1, <2>2, <2>3 DEF CopyExample
  <1>2. CASE Stamp
    <2>1. At("stamp") /\ own = NoFile /\ fs[App] \in Config
      BY <1>2 DEF Stamp, IInv, Stamping, At, Writing
    <2>2. [fs[App] EXCEPT !.token = NewToken] \in Config
      BY <2>1, StampType
    <2> QED BY <1>2, <2>1, <2>2, BeginsApp DEF Stamp
  <1>3. CASE CopyOverride
    BY <1>3, BeginsOther, Skips DEF CopyOverride
  <1>4. CASE CopyNginx
    BY <1>4, BeginsOther, Skips DEF CopyNginx
  <1>5. CASE Render
    BY <1>5, BeginsOther, Skips, Stops DEF Render
  <1>6. CASE Backup
    <2>1. fs[App] = NoFile => own = NoFile
      BY DEF IInv, AppFile
    <2>2. Skip("backupApp", 1) /\ own = NoFile => IInv'
      BY Skips
    <2> QED BY <1>6, <2>1, <2>2, BeginsBackup DEF Backup, Copy
  <1>7. CASE MergeStep
    <2>1. At("merge") /\ fs[App] \notin {NoFile, Torn} /\ BeginWrite(App, Merge(fs[App]))
             /\ UNCHANGED operator => IInv'
      <3>1. fs[App] \notin {NoFile, Torn} => Customers(Merge(fs[App])) /\ Merge(fs[App]) \in Config
        <4>1. fs[App] \notin {NoFile, Torn} => Customers(fs[App])
          BY DEF IInv, AppFile
        <4> QED BY <4>1, CustomersMerge DEF Customers
      <3> QED BY <3>1, BeginsApp
    <2>2. Skip("merge", 1) => IInv'
      BY Skips
    <2> QED BY <1>7, <2>1, <2>2, Stops DEF MergeStep
  <1>8. CASE Validate
    <2>1. fs[App] \notin {NoFile, Torn} /\ Valid(fs[App], FALSE) => own # NoFile
      BY DEF IInv, AppFile, Customers, Valid
    <2>2. At("validate") /\ UNCHANGED <<fs, clock, docker, operator>>
      BY <1>8 DEF Validate
    <2> QED BY <1>8, <2>1, <2>2, Proceeds, Stops DEF Validate
  <1>9. CASE \E step \in {"verify", "backupNginx", "backupOverride", "load"} : Command(step)
    BY <1>9, Proceeds DEF Command
  <1>10. CASE Up
    <2>1. At("up") /\ todo # <<>> /\ Head(todo) = "up" /\ held = Nothing
      BY <1>10 DEF Up, At
    <2>2. own # NoFile
      <3>1. todo \in Seq(Steps) /\ Len(todo) >= 1
        BY <2>1 DEF IInv, Shape
      <3>2. 1 \in 1..Len(todo) /\ todo[1] = "up"
        BY <2>1, <3>1, HeadIsFirst
      <3>3. Len(todo) = 1
        BY <3>2 DEF IInv, Shape
      <3>4. Has(todo, "up") /\ ~Has(todo, "validate")
        BY <3>2, <3>3 DEF Has
      <3> QED BY <3>4 DEF IInv, Checked
    <2>3. /\ UNCHANGED <<fs, clock, own, collided>>
          /\ stale' = (stale /\ conf' # Created)
          /\ \/ UNCHANGED <<container, conf>>
             \/ container' = <<"1.0.4", mode, fs[Override]>> /\ conf' \in {conf, Created}
      BY <1>10 DEF Up, docker
    <2>4. todo' \in {<<>>, Tail(todo)} /\ held' = Nothing
      BY <1>10, <2>1 DEF Up, Proceed, Fail
    <2>5. /\ Shape(todo')
          /\ todo' # <<>> => Head(todo') \notin {"stamp", "merge"}
      <3>1. CASE todo' = <<>>
        BY <3>1 DEF Shape
      <3>2. CASE todo' = Tail(todo)
        BY <2>1, <3>2, RestOfWrite DEF IInv
      <3> QED BY <2>4, <3>1, <3>2
    <2>6. stale' \in BOOLEAN /\ conf' \in Config \cup {Created, Down}
      <3>1. stale' \in BOOLEAN
        BY <2>3, Zenon
      <3> QED BY <2>3, <3>1 DEF IInv, Types
    <2>7. Types' /\ AppFile'
      BY <2>3, <2>6 DEF IInv, Types, AppFile, Customers, Own
    <2>8. WriteInProgress' /\ Stamping'
      BY <2>4, <2>5 DEF WriteInProgress, Writing, Stamping
    <2>9. BackedUp' <=> BackedUp
      BY <2>3 DEF BackedUp, Own
    <2>10. Kept' /\ Checked'
      BY <2>2, <2>3, <2>5, <2>9 DEF IInv, Kept, Checked, Own
    <2>11. Serving'
      <3>1. <<"1.0.4", mode, fs[Override]>> # NoContainer
        BY DEF NoContainer
      <3>2. conf' # Down => container' # NoContainer
        BY <2>3, <3>1 DEF IInv, Serving
      <3>3. ~Running' => ~stale'
        BY <2>3 DEF IInv, Serving, Running
      <3>4. Running' /\ ~stale' => conf' \in Own'
        BY <2>3 DEF IInv, Serving, Running, Own
      <3> QED BY <3>2, <3>3, <3>4 DEF Serving
    <2> QED BY <2>5, <2>7, <2>8, <2>10, <2>11 DEF IInv
  <1> QED BY <1>1, <1>2, <1>3, <1>4, <1>5, <1>6, <1>7, <1>8, <1>9, <1>10, EndWriteKeeps DEF Step

LEMMA EditKeeps ==
    ASSUME IInv, NEW c \in Saved, Edit(c) PROVE IInv'
  <1>1. /\ c \in Config /\ App \in File /\ fs = [x \in File |-> fs[x]]
        /\ fs' = [fs EXCEPT ![App] = c] /\ own' = c /\ stale' = Running
        /\ todo = <<>> /\ UNCHANGED <<clock, todo, held, container, conf, collided>>
        /\ fs[App] # NoFile
    BY Files, SetupAssumption DEF IInv, Types, Edit, script, docker
  <1>2. fs' = [x \in File |-> fs'[x]] /\ fs'[App] = c /\ \A x \in File \ {App} : fs'[x] = fs[x]
    BY <1>1, Written
  <1>3. \A s \in Seconds : fs'[Copy(s)] \in Config \cup {NoFile, Torn}
    BY <1>1, <1>2, Files DEF IInv, Types
  <1>4. stale' \in BOOLEAN
    BY <1>1, Zenon DEF Running
  <1>5. Types' /\ Shape(todo')
    BY <1>1, <1>2, <1>3, <1>4 DEF IInv, Types
  <1>6. WriteInProgress' /\ Stamping' /\ AppFile' /\ Kept'
    BY <1>1, <1>2, IdleHeld, SetupAssumption
       DEF WriteInProgress, Writing, Stamping, AppFile, Kept, Customers, Own, Nothing
  <1>7. Checked'
    BY <1>1, SetupAssumption DEF Checked
  <1>8. Serving'
    BY <1>1 DEF IInv, Serving, Running
  <1> QED BY <1>5, <1>6, <1>7, <1>8 DEF IInv

LEMMA HostKeeps ==
    ASSUME IInv, Tick \/ Dies \/ StartProcess \/ RestartProcess PROVE IInv'
  <1>1. /\ UNCHANGED <<fs, todo, held, container, own, collided>>
        /\ clock' \in 1..MaxSecond
    BY SetupAssumption DEF IInv, Types, Tick, Dies, StartProcess, RestartProcess,
                             script, docker, operator
  <1>2. container # NoContainer /\ Bootable => fs[App] \in Own /\ fs[App] \in Config
    BY DEF IInv, AppFile, Customers, Checked, Bootable
  <1>3. StartProcess => /\ container # NoContainer /\ stale' = stale /\ ~Running
                        /\ conf' = Down \/ (conf' \in Own /\ conf' \in Config)
    <2>1. StartProcess => container # NoContainer /\ stale' = stale /\ ~Running
      BY SetupAssumption DEF IInv, Serving, Running, StartProcess, operator
    <2> QED BY <1>2, <2>1 DEF StartProcess
  <1>4. RestartProcess => /\ container # NoContainer /\ stale' = stale /\ ~Running
                          /\ conf' \in Own /\ conf' \in Config
    <2>1. RestartProcess => container # NoContainer
      BY SetupAssumption DEF RestartProcess, Restarts, NoContainer
    <2>2. RestartProcess => stale' = stale /\ ~Running
      BY DEF RestartProcess, Running, operator
    <2> QED BY <1>2, <2>1, <2>2 DEF RestartProcess
  <1>5. /\ conf' \in Config \cup {Created, Down} /\ stale' \in BOOLEAN
        /\ conf' # Down => container # NoContainer
        /\ ~Running' => ~stale'
        /\ Running' /\ ~stale' => conf' \in Own
    <2>1. CASE Tick
      BY <2>1 DEF IInv, Types, Serving, Running, Tick, docker, operator
    <2>2. CASE Dies
      BY <2>2 DEF IInv, Types, Serving, Running, Dies
    <2>3. CASE StartProcess
      BY <1>3, <2>3, SetupAssumption DEF IInv, Types, Serving, Running
    <2>4. CASE RestartProcess
      BY <1>4, <2>4, SetupAssumption DEF IInv, Types, Serving, Running
    <2> QED BY <2>1, <2>2, <2>3, <2>4
  <1>6. Types' /\ Shape(todo')
    BY <1>1, <1>5 DEF IInv, Types
  <1>7. BackedUp' <=> BackedUp
    BY <1>1 DEF BackedUp, Own
  <1>8. WriteInProgress' /\ Stamping' /\ AppFile'
    BY <1>1 DEF IInv, WriteInProgress, Writing, Stamping, AppFile, Customers, Own
  <1>9. Kept' /\ Checked' /\ Serving'
    BY <1>1, <1>5, <1>7 DEF IInv, Kept, Checked, Serving, Own
  <1> QED BY <1>6, <1>8, <1>9 DEF IInv

-----------------------------------------------------------------------------
(* The theorems *)

LEMMA InitHolds == Init => IInv
  <1> SUFFICES ASSUME Init PROVE IInv
    OBVIOUS
  <1>1. /\ clock \in 1..MaxSecond /\ todo = <<>> /\ held = Nothing
        /\ stale = FALSE /\ collided = FALSE /\ Shape(todo)
    BY SetupAssumption DEF Init, Shape
  <1>2. WriteInProgress /\ Stamping /\ ~Has(todo, "up")
    BY <1>1 DEF WriteInProgress, Writing, Stamping, Has
  <1>3. CASE Fresh
    <2>1. /\ fs = [f \in File |-> fs[f]] /\ \A s \in Seconds : fs[Copy(s)] = NoFile
          /\ fs[App] = NoFile
      BY <1>3, Files DEF Fresh
    <2>2. own = NoFile /\ container = NoContainer /\ conf = Down
      BY <1>3 DEF Fresh
    <2> QED BY <1>1, <1>2, <2>1, <2>2
            DEF IInv, Types, AppFile, Kept, Checked, Serving, Running
  <1>4. CASE Installed
    <2>1. PICK c \in Legacy, m \in Mode, override \in Overrides :
             /\ fs = [f \in File |-> CASE f = App -> c
                                       [] f = Nginx /\ m = "nginx" -> "http"
                                       [] f = Override -> override
                                       [] OTHER -> NoFile]
             /\ own = c /\ container = <<"older", m, override>>
             /\ conf = IF Starts(c) THEN c ELSE Down
      BY <1>4 DEF Installed
    <2>2. c \in Config /\ c # NoFile
      BY SetupAssumption
    <2>3. fs = [f \in File |-> fs[f]]
      BY <2>1
    <2>4. fs[App] = c
      BY <2>1, Files
    <2>5. \A s \in 1..MaxSecond : fs[Copy(s)] = NoFile
      BY <2>1, Files
    <2>6. \A s \in Seconds : fs[Copy(s)] \in Config \cup {NoFile, Torn}
      BY <2>2, <2>4, <2>5, Files, SetupAssumption DEF Seconds
    <2>7. conf \in Config \cup {Created, Down} /\ conf \in {c, Down} /\ container # NoContainer
      BY <2>1, <2>2 DEF NoContainer
    <2> QED BY <1>1, <1>2, <2>1, <2>2, <2>3, <2>4, <2>6, <2>7, SetupAssumption
            DEF IInv, Types, AppFile, Customers, Kept, Own, Checked, Serving, Running
  <1> QED BY <1>3, <1>4 DEF Init

LEMMA IInvHolds == Spec => []IInv
  <1>1. IInv /\ [Next]_vars => IInv'
    <2> SUFFICES ASSUME IInv, [Next]_vars PROVE IInv'
      OBVIOUS
    <2>1. CASE \E steps \in {InitSteps, SetupSteps, UpgradeSteps}, m \in Mode : Run(steps, m)
      BY <2>1, ScriptStarts
    <2>2. CASE Interrupt
      BY <2>2, Stops DEF Interrupt
    <2>3. CASE \E c \in Saved : Edit(c)
      BY <2>3, EditKeeps
    <2>4. CASE UNCHANGED vars
      BY <2>4 DEF IInv, Types, WriteInProgress, Writing, Stamping, AppFile, Customers, Kept,
                  BackedUp, Checked, Serving, Running, Own, vars, script, docker, operator
    <2> QED BY <2>1, <2>2, <2>3, <2>4, StepKeeps, HostKeeps DEF Next
  <1> QED BY <1>1, InitHolds, PTL DEF Spec

\* Wherever setup.sh is interrupted and however often it is run again, the
\* operator's last configuration is in place, as saved or merged, or backed up.
THEOREM CustomerConfigKeptHolds == Spec => []CustomerConfigKept
  <1>1. IInv => CustomerConfigKept
    <2> SUFFICES ASSUME IInv, own # NoFile, ~collided
                 PROVE  \E s \in 0..MaxSecond : fs[<<"app", s>>] \in {own, Merge(own)}
      BY DEF CustomerConfigKept
    <2>1. fs[App] \in Own \/ BackedUp
      BY DEF IInv, Kept
    <2>2. CASE fs[App] \in Own
      BY <2>2, Files DEF Own, Copy, Seconds
    <2>3. CASE BackedUp
      BY <2>3, Files DEF BackedUp, Own, Copy, Seconds
    <2> QED BY <2>1, <2>2, <2>3
  <1> QED BY <1>1, IInvHolds, PTL

\* Every process is started on what the operator saved, or on a merge of it
\* that behaves alike.
THEOREM ServesCustomerFileHolds == Spec => []ServesCustomerFile
  <1>1. IInv => ServesCustomerFile
    <2> SUFFICES ASSUME IInv, Running, ~stale
                 PROVE  /\ own # NoFile
                        /\ ShadowedToken(own) \/ Behaviour(conf) = Behaviour(own)
      BY DEF ServesCustomerFile
    <2>1. conf \in Own /\ own # NoFile
      BY DEF IInv, Serving, Checked, Running
    <2>2. own \in Config
      BY <2>1 DEF IInv, Types
    <2>3. ~ShadowedToken(own) => Behaviour(Merge(own)) = Behaviour(own)
      BY <2>2, MergeKeepsBehaviour
    <2> QED BY <2>1, <2>3 DEF Own
  <1> QED BY <1>1, IInvHolds, PTL
=============================================================================
