------------------------------- MODULE Setup -------------------------------
(***************************************************************************)
(* setup.sh on the customer's host: init, setup and upgrade as the file    *)
(* operations and commands they are made of, the operator who runs them,   *)
(* interrupts them and edits config/app.json in between, and the           *)
(* containers that go on running, die and come back beside them.           *)
(*                                                                         *)
(* No write is atomic: cp and writeFileSync truncate the file first.  One  *)
(* script runs at a time and files are edited while none does.  Docker is  *)
(* modelled by what `up -d' does: it creates the containers of the compose *)
(* files, starts those that are stopped, and leaves one alone that runs    *)
(* and whose image and definition have not changed, whatever has become of *)
(* the files mounted into it.  Those of an older package have: another     *)
(* image for the service; port 443 and ./config/tls for nginx.             *)
(***************************************************************************)
EXTENDS Config, Sequences, Integers

CONSTANTS Mode,        \* deployment modes the operator uses
          Legacy,      \* files an older installation may have
          Overrides,   \* overrides an older installation may have
          Saved,       \* files an operator may save
          NewToken,    \* the token the stamp draws
          MaxSecond,   \* bound of the clock
          NoFile, Torn,
          Created,     \* a container whose process has not been started yet
          Down         \* one whose process has ended

ASSUME SetupAssumption ==
    /\ Mode \subseteq {"app", "nginx"}
    /\ Legacy \cup Saved \subseteq Config
    /\ Overrides \subseteq {NoFile, "example", "custom"}
    /\ NewToken \in Long \ {Placeholder}
    /\ MaxSecond \in Nat \ {0}
    /\ NoFile \notin {Torn, "example"} /\ Created # Down
    /\ {NoFile, Torn, Created, Down} \cap Config = {}

\* Second 0 stands for the file in place, the others for its backups, whose
\* names end in `date +%Y%m%d%H%M%S'.  Nothing is said of what the backups of
\* nginx.conf and of the override hold: those two copies are only steps.
App == <<"app", 0>>
Nginx == <<"nginx", 0>>
Override == <<"override", 0>>
File == {<<"app", s>> : s \in 0..MaxSecond} \cup {Nginx, Override}

VARIABLES fs,          \* what each file holds
          clock,       \* the second
          todo, mode,  \* the steps the script has left, and its mode
          held,        \* the write in progress: to which file, and what
          container,   \* the service's container: its package, mode and override
          conf,        \* what its process read at its start
          nginx,       \* the nginx container: its package, the configuration it loaded
          \* of the operator:
          own,         \* the last configuration the operator saved or init drew
          stale,       \* it was saved after the process started
          collided     \* a backup was overwritten by one of the same second

script == <<todo, mode, held>>
docker == <<container, conf, nginx>>
operator == <<own, stale, collided>>
vars == <<fs, clock, script, docker, operator>>

Nothing == [file |-> App, content |-> NoFile]
NoContainer == <<"none", "none", NoFile>>
Running == conf \notin {Created, Down}
Bootable == fs[App] \notin {NoFile, Torn} /\ Starts(fs[App])

\* The example of the override sets restart to unless-stopped; the compose files
\* themselves, of this package and of older ones, set no restart policy.
Restarts == container[3] = "example"

Fresh ==
    /\ fs = [f \in File |-> NoFile]
    /\ own = NoFile
    /\ container = NoContainer
    /\ conf = Down
    /\ nginx = NoContainer

\* The older package was started with no override, with the example or with one
\* that the customer wrote and that sets no restart policy.
Installed ==
    \E c \in Legacy, m \in Mode, override \in Overrides :
        /\ fs = [f \in File |-> CASE f = App -> c
                                  [] f = Nginx /\ m = "nginx" -> "http"
                                  [] f = Override -> override
                                  [] OTHER -> NoFile]
        /\ own = c
        /\ container = <<"older", m, override>>
        /\ conf = IF Starts(c) THEN c ELSE Down
        /\ nginx = IF m = "nginx" THEN <<"older", "http">> ELSE NoContainer

Init ==
    /\ Fresh \/ Installed
    /\ clock = 1
    /\ todo = <<>>
    /\ mode \in Mode
    /\ held = Nothing
    /\ stale = FALSE
    /\ collided = FALSE

-----------------------------------------------------------------------------
(* The script *)

InitSteps == <<"copyExample", "stamp", "copyOverride", "copyNginx">>
SetupSteps == InitSteps \o <<"verify", "validate", "render", "load", "up">>
\* Fault: the backup comes after the merge.
UpgradeMergingFirst ==
    <<"verify", "merge", "backupApp", "backupNginx", "backupOverride">> \o SetupSteps
UpgradeSteps ==
    <<"verify", "backupApp", "merge", "backupNginx", "backupOverride">> \o SetupSteps

Run(steps, m) ==
    /\ todo = <<>>
    /\ todo' = steps
    /\ mode' = m
    /\ UNCHANGED <<fs, clock, held, docker, operator>>

At(step) == todo # <<>> /\ Head(todo) = step /\ held = Nothing
Proceed == todo' = Tail(todo) /\ UNCHANGED <<mode, held>>
\* set -e
Fail == todo' = <<>> /\ held' = Nothing /\ UNCHANGED mode

\* cp and writeFileSync: the file is truncated now and holds the content when
\* EndWrite comes, if it does.
BeginWrite(f, content) ==
    /\ fs' = [fs EXCEPT ![f] = Torn]
    /\ held' = [file |-> f, content |-> content]
    /\ UNCHANGED <<todo, mode, clock, docker>>

EndWrite ==
    /\ held # Nothing
    /\ fs' = [fs EXCEPT ![held.file] = held.content]
    /\ own' = IF Head(todo) = "stamp" THEN held.content ELSE own
    /\ held' = Nothing
    /\ todo' = Tail(todo)
    /\ UNCHANGED <<mode, clock, docker, stale, collided>>

\* A step whose file is there already, or not to be written in this mode.
Skip(step, n) ==
    /\ At(step)
    /\ todo' = SubSeq(todo, n + 1, Len(todo))
    /\ UNCHANGED <<fs, mode, held, clock, docker, operator>>

\* The example is copied and stamped if there is no config/app.json.
CopyExample ==
    \/ At("copyExample") /\ fs[App] = NoFile /\ BeginWrite(App, Example) /\ UNCHANGED operator
    \/ fs[App] # NoFile /\ Skip("copyExample", 2)

Stamp ==
    /\ At("stamp")
    /\ BeginWrite(App, [fs[App] EXCEPT !.token = NewToken])
    /\ UNCHANGED operator

CopyOverride ==
    \/ /\ At("copyOverride") /\ fs[Override] = NoFile
       /\ BeginWrite(Override, "example") /\ UNCHANGED operator
    \/ fs[Override] # NoFile /\ Skip("copyOverride", 1)

CopyNginx ==
    \/ /\ At("copyNginx") /\ mode = "nginx" /\ fs[Nginx] = NoFile
       /\ BeginWrite(Nginx, "http") /\ UNCHANGED operator
    \/ (mode # "nginx" \/ fs[Nginx] # NoFile) /\ Skip("copyNginx", 1)

\* cp -f config/app.json backup/app.json.$(date +%Y%m%d%H%M%S)
Backup ==
    LET copy == <<"app", clock>>
    IN  \/ /\ At("backupApp") /\ fs[App] # NoFile
           /\ BeginWrite(copy, fs[App])
           /\ collided' = (collided \/ fs[copy] # NoFile)
           /\ UNCHANGED <<own, stale>>
        \/ fs[App] = NoFile /\ Skip("backupApp", 1)

\* config-merge.js reads the file, then writes it; what it cannot parse stops
\* the script.
MergeStep ==
    \/ /\ At("merge") /\ fs[App] \notin {NoFile, Torn}
       /\ BeginWrite(App, Merge(fs[App])) /\ UNCHANGED operator
    \/ fs[App] = NoFile /\ Skip("merge", 1)
    \/ /\ At("merge") /\ fs[App] = Torn
       /\ Fail /\ UNCHANGED <<fs, clock, docker, operator>>

\* validate-config.js without --strict.
Validate ==
    /\ At("validate")
    /\ IF fs[App] \notin {NoFile, Torn} /\ Valid(fs[App], FALSE) THEN Proceed ELSE Fail
    /\ UNCHANGED <<fs, clock, docker, operator>>

\* The template that goes with tls.enabled.
Template(c) == IF c.tlsEnabled = TRUE THEN "https" ELSE "http"

\* HTTPS needs the two files, named as the template names them, to be there.
Render ==
    \/ /\ At("render") /\ mode = "nginx"
       /\ Template(fs[App]) = "https" => fs[App].tlsFiles = "standard"
       /\ BeginWrite(Nginx, Template(fs[App])) /\ UNCHANGED operator
    \/ /\ At("render") /\ mode = "nginx" /\ Template(fs[App]) = "https"
       /\ Fail /\ UNCHANGED <<fs, clock, docker, operator>>
    \/ mode # "nginx" /\ Skip("render", 1)

\* Checksums, copies of what may be there, docker load: they succeed, or Interrupt stops the script.
Command(step) ==
    /\ At(step)
    /\ Proceed
    /\ UNCHANGED <<fs, clock, docker, operator>>

\* Fault: the override is not given to docker compose.
UpWithoutOverride ==
    /\ At("up")
    /\ Proceed
    /\ container' = <<"1.0.4", mode, NoFile>>
    /\ conf' = IF container' = container /\ Running THEN conf ELSE Created
    /\ nginx' = IF mode = "nginx" /\ nginx[1] # "1.0.4"
                THEN <<"1.0.4", fs[Nginx]>> ELSE nginx
    /\ UNCHANGED <<fs, clock, own, collided>>
    /\ stale' = (stale /\ conf' # Created)

\* docker compose -f docker-compose.generated.yaml -f docker-compose.override.yaml up -d
Up ==
    /\ At("up")
    /\ IF fs[Override] = Torn THEN Fail /\ UNCHANGED docker
       ELSE /\ Proceed
            /\ container' = <<"1.0.4", mode, fs[Override]>>
            /\ conf' = IF container' = container /\ Running THEN conf ELSE Created
            /\ nginx' = IF mode = "nginx" /\ nginx[1] # "1.0.4"
                        THEN <<"1.0.4", fs[Nginx]>> ELSE nginx
    /\ UNCHANGED <<fs, clock, own, collided>>
    /\ stale' = (stale /\ conf' # Created)

Step ==
    \/ CopyExample \/ Stamp \/ CopyOverride \/ CopyNginx
    \/ \E step \in {"verify", "backupNginx", "backupOverride", "load"} : Command(step)
    \/ Backup \/ MergeStep \/ Validate \/ Render \/ Up \/ EndWrite

-----------------------------------------------------------------------------
(* The operator, the host and the containers *)

\* Ctrl-C, a failing command or a power cut, at any moment of the script.
Interrupt ==
    /\ todo # <<>>
    /\ Fail
    /\ UNCHANGED <<fs, clock, docker, operator>>

Edit(c) ==
    /\ todo = <<>>
    /\ fs[App] # NoFile
    /\ fs' = [fs EXCEPT ![App] = c]
    /\ own' = c
    /\ stale' = Running
    /\ UNCHANGED <<clock, script, docker, collided>>

Tick ==
    /\ clock < MaxSecond
    /\ clock' = clock + 1
    /\ UNCHANGED <<fs, script, docker, operator>>

Dies ==
    /\ Running
    /\ conf' = Down
    /\ stale' = FALSE
    /\ UNCHANGED <<fs, clock, script, container, nginx, own, collided>>

\* The process of a container that `up -d' created or started.
StartProcess ==
    /\ conf = Created
    /\ conf' = IF Bootable THEN fs[App] ELSE Down
    /\ UNCHANGED <<fs, clock, script, container, nginx, operator>>

\* One that died is tried again until it stays, if its container is to restart.
RestartProcess ==
    /\ conf = Down
    /\ Restarts
    /\ Bootable
    /\ conf' = fs[App]
    /\ UNCHANGED <<fs, clock, script, container, nginx, operator>>

Next ==
    \/ \E steps \in {InitSteps, SetupSteps, UpgradeSteps}, m \in Mode : Run(steps, m)
    \/ Step
    \/ Interrupt \/ Tick \/ Dies \/ StartProcess \/ RestartProcess
    \/ \E c \in Saved : Edit(c)

\* A script that is not interrupted goes on, and Docker starts a container's
\* process and retries it where it is told to; nothing is asked of the operator.
Fairness == WF_vars(Step) /\ WF_vars(StartProcess) /\ SF_vars(RestartProcess)

Spec == Init /\ [][Next]_vars /\ Fairness

-----------------------------------------------------------------------------
(* Properties *)

\* Wherever a setup or an upgrade is interrupted and however often it is run
\* again, the operator's last configuration is in place, as saved or merged,
\* or in a backup; unless a second backup came in the second of the first.
CustomerConfigKept ==
    own # NoFile /\ ~collided =>
        \E s \in 0..MaxSecond : fs[<<"app", s>>] \in {own, Merge(own)}

\* Whenever a process is started, in the middle of an upgrade or after a
\* failed one included, it behaves as the operator's own configuration says
\* (the one case excepted in which a merge gives access); and none is started
\* before there is one, as when the first init was interrupted before it drew
\* a token.
ServesCustomerFile ==
    Running /\ ~stale =>
        /\ own # NoFile
        /\ ShadowedToken(own) \/ Behaviour(conf) = Behaviour(own)

\* Beside the example of the override, the process of a container of this package
\* that died comes back, unless the script is over and has left, or the operator
\* has saved, a file no process can start with.
ServiceComesBack ==
    container[1] = "1.0.4" /\ fs[Override] = "example" /\ ~Running
        ~> Running \/ (todo = <<>> /\ ~Bootable)

\* src/README.md:92-96: with tls.enabled set in config/app.json and setup or
\* upgrade run again, nginx serves HTTPS.
HttpsAfterSetup ==
    [][Up /\ fs[Override] # Torn /\ mode = "nginx" /\ Template(fs[App]) = "https"
          => nginx'[2] = "https"]_vars
=============================================================================
