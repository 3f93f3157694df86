----------------------------- MODULE StartupProofs -----------------------------
(***************************************************************************)
(* Proofs about Startup, for any configuration files, any world and any    *)
(* changes of it: what a successful doctor has looked at, what an accepted *)
(* configuration guarantees to the steps that rely on it, and what the two *)
(* together leave that can stop the daemon.                                *)
(***************************************************************************)
EXTENDS Startup, TLAPS

DoctorSteps == {"config", "token", "auth", "docker", "image", "network", "create", "version",
                "login", "report"}

\* The steps of the daemon after Load.
LoadedSteps == {"directory", "broker", "sink", "store", "ingestor", "polling", "serving",
                "sandbox", "enqueue", "turn", "answer", "answered"}

Statuses == {"none", "passed", "failed", "skipped"}

Ran(names) == \A n \in names : report[n] \in {"passed", "failed"}

AuthCheck == IF UsesBroker THEN "key" ELSE "auth file"

-----------------------------------------------------------------------------
(* The doctor. *)

\* The checks that have run at each step.  One that has not run by the end was left out
\* because another has failed.
VerdictInv ==
    /\ report \in [Checks -> Statuses]
    /\ exit \in {"none", "failure", "success"}
    /\ pc \in DoctorSteps => exit = "none"
    /\ pc \in {"token", "auth", "docker", "image", "network", "create", "version", "login"}
           => Ran({"config"})
    /\ pc \in {"auth", "docker", "image", "network", "create", "version", "login"}
           => Ran({"token"})
    /\ pc \in {"docker", "image", "network", "create", "version", "login"}
           => Ran({AuthCheck})
    /\ pc \in {"image", "network", "create", "version", "login"} => Ran({"docker"})
    /\ pc \in {"network", "create", "version", "login"} => Ran({"image"})
    /\ pc \in {"version", "login"} => Ran({"network"})
    /\ pc = "login" => Ran({"version"}) /\ ~UsesBroker
    /\ pc = "report" => Ran(ChecksOfMode) \/ HasFailures
    /\ VerdictIsWhole

LEMMA VerdictInit == Init => VerdictInv
BY DEF Init, VerdictInv, VerdictIsWhole, DoctorSteps, Statuses, Checks

\* A check that has run changes its own status only.
PushedOne(name) == report' \in {Pushed({name}, "passed"), Pushed({name}, "failed")}

LEMMA RunFacts ==
    ASSUME report \in [Checks -> Statuses], NEW name \in Checks, PushedOne(name)
    PROVE  /\ report' \in [Checks -> Statuses]
           /\ report'[name] \in {"passed", "failed"}
           /\ \A n \in Checks \ {name} : report'[n] = report[n]
BY DEF PushedOne, Pushed, Statuses

LEMMA SkipFacts ==
    ASSUME report \in [Checks -> Statuses], NEW names \in SUBSET Checks,
           report' = Pushed(names, "skipped")
    PROVE  /\ report' \in [Checks -> Statuses]
           /\ \A n \in Checks \ names : report'[n] = report[n]
BY DEF Pushed, Statuses

LEMMA FailFacts ==
    ASSUME report \in [Checks -> Statuses], NEW names \in SUBSET Checks, NEW name \in Checks,
           report' = [Pushed(names, "skipped") EXCEPT ![name] = "failed"]
    PROVE  report' \in [Checks -> Statuses] /\ HasFailures'
<1>1. report' \in [Checks -> Statuses] /\ report'[name] = "failed"
  BY DEF Pushed, Statuses
<1> QED BY <1>1 DEF HasFailures

LEMMA VerdictStep == VerdictInv /\ [Next]_vars => VerdictInv'
<1> SUFFICES ASSUME VerdictInv, [Next]_vars
             PROVE  VerdictInv'
    OBVIOUS
<1> USE DEF VerdictInv, Ran, AuthCheck, ChecksOfMode, DoctorSteps, UsesBroker, VerdictIsWhole
<1>1. CASE RunDoctor
  BY <1>1 DEF RunDoctor, HasFailures
<1>2. CASE RunDaemon
  BY <1>2 DEF RunDaemon, HasFailures
<1>3. CASE WorldChanges
  BY <1>3 DEF WorldChanges, HasFailures
<1>4. CASE DoctorConfig
  <2>1. CASE Loads
    <3>1. PushedOne("config")
      BY <1>4, <2>1 DEF DoctorConfig, Push, PushedOne
    <3>2. /\ report' \in [Checks -> Statuses]
          /\ report'["config"] \in {"passed", "failed"}
      BY <3>1, RunFacts DEF Checks
    <3> QED BY <1>4, <2>1, <3>2 DEF DoctorConfig, doctorUnchanged
  <2>2. CASE ~Loads
    <3>1. report' \in [Checks -> Statuses] /\ HasFailures'
      BY <1>4, <2>2, FailFacts DEF DoctorConfig, Checks
    <3> QED BY <1>4, <2>2, <3>1 DEF DoctorConfig, doctorUnchanged
  <2> QED BY <2>1, <2>2
<1>5. CASE DoctorToken
  <2>1. PushedOne("token")
    BY <1>5 DEF DoctorToken, Push, PushedOne
  <2>2. /\ report' \in [Checks -> Statuses]
        /\ report'["token"] \in {"passed", "failed"}
        /\ \A n \in Checks \ {"token"} : report'[n] = report[n]
    BY <2>1, RunFacts DEF Checks
  <2> QED BY <1>5, <2>2 DEF DoctorToken, doctorUnchanged, Checks
<1>6. CASE DoctorAuth
  <2>1. CASE UsesBroker /\ config.broker
    <3>1. PushedOne("key")
      BY <1>6, <2>1 DEF DoctorAuth, Push, PushedOne
    <3>2. /\ report' \in [Checks -> Statuses]
          /\ report'["key"] \in {"passed", "failed"}
          /\ \A n \in Checks \ {"key"} : report'[n] = report[n]
      BY <3>1, RunFacts DEF Checks
    <3> QED BY <1>6, <2>1, <3>2 DEF DoctorAuth, doctorUnchanged, Checks
  <2>2. CASE UsesBroker /\ ~config.broker
    <3>1. report' \in [Checks -> Statuses] /\ HasFailures'
      BY <1>6, <2>2, FailFacts DEF DoctorAuth, Checks
    <3> QED BY <1>6, <2>2, <3>1 DEF DoctorAuth, doctorUnchanged
  <2>3. CASE ~UsesBroker
    <3>1. PushedOne("auth file")
      BY <1>6, <2>3 DEF DoctorAuth, Push, PushedOne
    <3>2. /\ report' \in [Checks -> Statuses]
          /\ report'["auth file"] \in {"passed", "failed"}
          /\ \A n \in Checks \ {"auth file"} : report'[n] = report[n]
      BY <3>1, RunFacts DEF Checks
    <3> QED BY <1>6, <2>3, <3>2 DEF DoctorAuth, doctorUnchanged, Checks
  <2> QED BY <2>1, <2>2, <2>3
<1>7. CASE DoctorDocker
  <2>1. CASE world.docker = "good"
    <3>1. PushedOne("docker")
      BY <1>7, <2>1 DEF DoctorDocker, Push, PushedOne
    <3>2. /\ report' \in [Checks -> Statuses]
          /\ report'["docker"] \in {"passed", "failed"}
          /\ \A n \in Checks \ {"docker"} : report'[n] = report[n]
      BY <3>1, RunFacts DEF Checks
    <3> QED BY <1>7, <2>1, <3>2 DEF DoctorDocker, doctorUnchanged, Checks
  <2>2. CASE world.docker # "good"
    <3>1. {"image", "network"} \cup Probes \subseteq Checks
      BY DEF Probes, Checks
    <3>2. report' \in [Checks -> Statuses] /\ HasFailures'
      BY <1>7, <2>2, <3>1, FailFacts DEF DoctorDocker, Checks
    <3> QED BY <1>7, <2>2, <3>2 DEF DoctorDocker, doctorUnchanged
  <2> QED BY <2>1, <2>2
<1>8. CASE DoctorImage
  <2>1. PushedOne("image")
    BY <1>8 DEF DoctorImage, Push, PushedOne
  <2>2. /\ report' \in [Checks -> Statuses]
        /\ report'["image"] \in {"passed", "failed"}
        /\ \A n \in Checks \ {"image"} : report'[n] = report[n]
    BY <2>1, RunFacts DEF Checks
  <2> QED BY <1>8, <2>2 DEF DoctorImage, doctorUnchanged, Checks
<1>9. CASE DoctorNetwork
  <2>1. CASE report' = report /\ pc' = "create"
    BY <1>9, <2>1 DEF DoctorNetwork, doctorUnchanged
  <2>2. CASE PushedOne("network") /\ pc' = "version"
    <3>1. /\ report' \in [Checks -> Statuses]
          /\ report'["network"] \in {"passed", "failed"}
          /\ \A n \in Checks \ {"network"} : report'[n] = report[n]
      BY <2>2, RunFacts DEF Checks
    <3> QED BY <1>9, <2>2, <3>1 DEF DoctorNetwork, doctorUnchanged, Checks
  <2> QED BY <1>9, <2>1, <2>2 DEF DoctorNetwork, Push, PushedOne
<1>10. CASE DoctorCreatesNetwork
  <2>1. PushedOne("network")
    BY <1>10 DEF DoctorCreatesNetwork, Push, PushedOne
  <2>2. /\ report' \in [Checks -> Statuses]
        /\ report'["network"] \in {"passed", "failed"}
        /\ \A n \in Checks \ {"network"} : report'[n] = report[n]
    BY <2>1, RunFacts DEF Checks
  <2> QED BY <1>10, <2>2 DEF DoctorCreatesNetwork, doctorUnchanged, Checks
<1>11. CASE DoctorVersion
  <2>1. CASE report["image"] = "passed" /\ report["network"] = "passed"
    <3>1. PushedOne("version")
      BY <1>11, <2>1 DEF DoctorVersion, Push, PushedOne
    <3>2. /\ report' \in [Checks -> Statuses]
          /\ report'["version"] \in {"passed", "failed"}
          /\ \A n \in Checks \ {"version"} : report'[n] = report[n]
      BY <3>1, RunFacts DEF Checks
    <3> QED BY <1>11, <2>1, <3>2 DEF DoctorVersion, doctorUnchanged, Checks
  <2>2. CASE ~(report["image"] = "passed" /\ report["network"] = "passed")
    <3>1. report["image"] = "failed" \/ report["network"] = "failed"
      BY <1>11, <2>2 DEF DoctorVersion
    <3>2. /\ report' \in [Checks -> Statuses]
          /\ \A n \in Checks \ Probes : report'[n] = report[n]
      BY <1>11, <2>2, SkipFacts DEF DoctorVersion, Probes, Checks
    <3>3. HasFailures'
      BY <3>1, <3>2 DEF HasFailures, Probes, Checks
    <3> QED BY <1>11, <2>2, <3>2, <3>3 DEF DoctorVersion, doctorUnchanged
  <2> QED BY <2>1, <2>2
<1>12. CASE DoctorLogin
  <2>1. CASE report["auth file"] = "passed"
    <3>1. PushedOne("login")
      BY <1>12, <2>1 DEF DoctorLogin, Push, PushedOne
    <3>2. /\ report' \in [Checks -> Statuses]
          /\ report'["login"] \in {"passed", "failed"}
          /\ \A n \in Checks \ {"login"} : report'[n] = report[n]
      BY <3>1, RunFacts DEF Checks
    <3>3. ~UsesBroker /\ config' = config
      BY <1>12 DEF DoctorLogin, doctorUnchanged
    <3>4. ChecksOfMode' = {"config", "token", "docker", "image", "network", "version",
                           "auth file", "login"}
      BY <3>3
    <3>5. Ran({"config", "token", "docker", "image", "network", "version", "auth file"})
      BY <1>12, <3>3 DEF DoctorLogin
    <3>6. \A n \in {"config", "token", "docker", "image", "network", "version", "auth file"} :
              report'[n] = report[n]
      BY <3>2 DEF Checks
    <3>7. \A n \in ChecksOfMode' : report'[n] \in {"passed", "failed"}
      BY <3>2, <3>4, <3>5, <3>6
    <3> QED BY <1>12, <3>2, <3>7 DEF DoctorLogin, doctorUnchanged
  <2>2. CASE report["auth file"] # "passed"
    <3>1. report["auth file"] = "failed"
      BY <1>12, <2>2 DEF DoctorLogin
    <3>2. report' = Pushed({"login"}, "skipped")
      BY <1>12, <2>2 DEF DoctorLogin
    <3>3. /\ report' \in [Checks -> Statuses]
          /\ report'["auth file"] = report["auth file"]
      BY <3>2 DEF Pushed, Checks, Statuses
    <3>4. HasFailures'
      BY <3>1, <3>3 DEF HasFailures, Checks
    <3> QED BY <1>12, <2>2, <3>3, <3>4 DEF DoctorLogin, doctorUnchanged
  <2> QED BY <2>1, <2>2
<1>13. CASE DoctorExits
  BY <1>13 DEF DoctorExits, HasFailures, Checks
<1>14. CASE Daemon
  BY <1>14 DEF Daemon, Load, CreateDataDir, StartBroker, StartSink, ConnectStore, StartIngestor,
               StartPolling, BuildSpec, StartSandbox, Enqueue, FirstTurn, Answer, StepOr,
               daemonUnchanged
<1>15. CASE UNCHANGED vars
  BY <1>15 DEF vars, HasFailures
<1> QED BY <1>1, <1>2, <1>3, <1>4, <1>5, <1>6, <1>7, <1>8, <1>9, <1>10, <1>11, <1>12, <1>13,
           <1>14, <1>15 DEF Next, Doctor

\* Success means that every check of the mode has run and passed (doctor::run).
THEOREM VerdictIsWholeHolds == Spec => []VerdictIsWhole
<1>1. VerdictInv => VerdictIsWhole
  BY DEF VerdictInv
<1> QED BY VerdictInit, VerdictStep, <1>1, PTL DEF Spec

-----------------------------------------------------------------------------
(* The daemon. *)

\* Nothing runs with a configuration that was refused.
LoadedInv ==
    /\ config \in Configs
    /\ pc \in LoadedSteps => Errors(config) = {}
    /\ failure \in {"no broker", "no auth path"} => pc = "stopped"
    /\ AcceptedIsComplete

\* What validation guarantees to the steps that use a field without looking again.
LEMMA ErrorsFree ==
    ASSUME NEW c \in Configs, Errors(c) = {}
    PROVE  /\ c.auth_mode = "broker_api_key" => c.broker
           /\ c.auth_mode # "broker_api_key" => c.auth_host_path # "none"
           /\ c.per_group_queue_depth \in Nat \ {0}
           /\ c.telegram_chunk_chars # 0
<1>1. AuthErrors(c) = {} /\ LimitErrors(c) = {}
  BY DEF Errors
<1>2. ASSUME c.auth_mode = "broker_api_key"
      PROVE  c.broker
  BY <1>1, <1>2 DEF AuthErrors
<1>3. ASSUME c.auth_mode # "broker_api_key"
      PROVE  c.auth_host_path # "none"
  <2>1. c.auth_mode = "chatgpt_oauth"
    BY <1>3, StartupAssumption
  <2>2. {f \in {"auth_host_path"} : c[f] \in {"none", ""}} = {}
    BY <1>1, <2>1 DEF AuthErrors
  <2> QED BY <2>2
<1>4. c.per_group_queue_depth \in Nat /\ c.telegram_chunk_chars \in Nat
  BY StartupAssumption
<1>5. ~(c["per_group_queue_depth"] < 1)
  BY <1>1 DEF LimitErrors, Below
<1>6. ~(c["telegram_chunk_chars"] < 256)
  BY <1>1 DEF LimitErrors, Below
<1> QED BY <1>2, <1>3, <1>4, <1>5, <1>6

LEMMA Capacity == \A depth \in Nat \ {0}, max \in Nat : depth \in 1..max \/ depth > max
OBVIOUS

LEMMA LoadedStep == LoadedInv /\ [Next]_vars => LoadedInv'
<1> SUFFICES ASSUME LoadedInv, [Next]_vars
             PROVE  LoadedInv'
    OBVIOUS
<1> USE DEF LoadedInv, LoadedSteps, AcceptedIsComplete
<1>1. CASE RunDoctor \/ RunDaemon \/ WorldChanges
  BY <1>1 DEF RunDoctor, RunDaemon, WorldChanges
<1>2. CASE Doctor
  BY <1>2 DEF Doctor, DoctorConfig, DoctorToken, DoctorAuth, DoctorDocker, DoctorImage,
              DoctorNetwork, DoctorCreatesNetwork, DoctorVersion, DoctorLogin, DoctorExits,
              doctorUnchanged
<1>3. CASE Load
  BY <1>3 DEF Load, StepOr, When, daemonUnchanged, Loads
<1>4. CASE StartBroker
  BY <1>4, ErrorsFree DEF StartBroker, StepOr, When, daemonUnchanged, UsesBroker
<1>5. CASE BuildSpec
  BY <1>5, ErrorsFree DEF BuildSpec, StepOr, When, daemonUnchanged, UsesBroker
<1>6. CASE Enqueue
  <2>1. config.per_group_queue_depth \in Nat \ {0}
    BY <1>6, ErrorsFree DEF Enqueue, StepOr
  <2>2. config.per_group_queue_depth \in 1..QueueMax \/ config.per_group_queue_depth > QueueMax
    BY <2>1, Capacity, StartupAssumption
  <2> QED BY <1>6, <2>2 DEF Enqueue, StepOr, When, daemonUnchanged
<1>7. CASE FirstTurn
  BY <1>7 DEF FirstTurn, StepOr, When, daemonUnchanged
<1>8. CASE Answer
  BY <1>8, ErrorsFree DEF Answer, StepOr, When, daemonUnchanged
<1>9. CASE CreateDataDir \/ StartSink \/ ConnectStore \/ StartIngestor \/ StartPolling \/ StartSandbox
  BY <1>9 DEF CreateDataDir, StartSink, ConnectStore, StartIngestor, StartPolling, StartSandbox,
              StepOr, When, daemonUnchanged
<1>10. CASE UNCHANGED vars
  BY <1>10 DEF vars
<1> QED BY <1>1, <1>2, <1>3, <1>4, <1>5, <1>6, <1>7, <1>8, <1>9, <1>10 DEF Next, Daemon

\* Whatever was validated holds where it is relied on (spec_for_chat, the channel of a
\* worker, chunk_for_telegram), for any file that can be read.
THEOREM AcceptedIsCompleteHolds == Spec => []AcceptedIsComplete
<1>1. Init => LoadedInv
  BY DEF Init, LoadedInv, LoadedSteps, AcceptedIsComplete
<1>2. LoadedInv => AcceptedIsComplete
  BY DEF LoadedInv
<1> QED BY <1>1, LoadedStep, <1>2, PTL DEF Spec
-----------------------------------------------------------------------------
(* The doctor and the daemon together. *)

\* What a check that has passed says of the configuration and the world.
Fact(n) ==
    /\ n = "config" => Loads
    /\ n = "token" => EnvIsGood(world.token)
    /\ n = "key" => EnvIsGood(world.key)
    /\ n \in {"auth file", "login"} => AuthFileIsGood
    /\ n \in {"docker", "image", "network"} => world.docker = "good"
    /\ n = "image" => world.image = "good"
    /\ n = "network" => world.network = "good"
    /\ n = "version" => world.codex = "good"
    /\ n = "login" => world.login = "good"

\* As long as nothing has changed since the doctor began, what has passed is still so.  The
\* doctor itself begins before any check has run.
GoodVerdictInv ==
    /\ Parts \subseteq DOMAIN world
    /\ pc = "shell" /\ exit = "none" => \A n \in Checks : report[n] # "passed"
    /\ failure # "none" => pc = "stopped"
    /\ ~changed => \A n \in Checks : report[n] = "passed" => Fact(n)
    /\ GoodVerdictStarts

LEMMA GoodVerdictInit == Init => GoodVerdictInv
BY StartupAssumption DEF Init, GoodVerdictInv, GoodVerdictStarts

LEMMA FactStays ==
    ASSUME UNCHANGED <<config, world>>
    PROVE  \A n : Fact(n)' <=> Fact(n)
BY DEF Fact, Loads, EnvIsGood, AuthFileIsGood

\* A check that passes because it has found what it looks for.
LEMMA PushFacts ==
    ASSUME NEW name \in Checks, NEW good \in BOOLEAN, Push(name, good)
    PROVE  \A n \in Checks : report'[n] = "passed" =>
               report[n] = "passed" \/ (n = name /\ good)
BY DEF Push, Pushed

LEMMA NoNewPass ==
    ASSUME NEW names, NEW name \in Checks,
           \/ report' = Pushed(names, "skipped")
           \/ report' = [Pushed(names, "skipped") EXCEPT ![name] = "failed"]
    PROVE  \A n \in Checks : report'[n] = "passed" => report[n] = "passed"
BY DEF Pushed

\* A step of the doctor that has found what it reports.
LEMMA DoctorKeeps ==
    ASSUME GoodVerdictInv, doctorUnchanged, UNCHANGED world,
           pc \in DoctorSteps, pc' \in DoctorSteps, VerdictInv,
           \A n \in Checks : report'[n] = "passed" => report[n] = "passed" \/ Fact(n)
    PROVE  GoodVerdictInv'
<1>1. \A n : Fact(n)' <=> Fact(n)
  BY FactStays DEF doctorUnchanged
<1>2. exit' = "none" /\ failure' = failure /\ pc # "stopped" /\ pc' # "shell"
  BY DEF VerdictInv, doctorUnchanged, DoctorSteps
<1> QED BY <1>1, <1>2 DEF GoodVerdictInv, GoodVerdictStarts, doctorUnchanged

LEMMA DoctorFacts == GoodVerdictInv /\ VerdictInv /\ Doctor => GoodVerdictInv'
<1> SUFFICES ASSUME GoodVerdictInv, VerdictInv, Doctor
             PROVE  GoodVerdictInv'
    OBVIOUS
<1>0. \A n \in {"config", "token", "key", "auth file", "docker", "image", "network", "version",
                "login"} : n \in Checks
  BY DEF Checks
<1>1. CASE DoctorConfig
  <2>1. \A n \in Checks : report'[n] = "passed" => report[n] = "passed" \/ Fact(n)
    <3>1. CASE Loads
      BY <1>0, <1>1, <3>1, PushFacts DEF DoctorConfig, Fact
    <3>2. CASE ~Loads
      BY <1>0, <1>1, <3>2, NoNewPass DEF DoctorConfig
    <3> QED BY <3>1, <3>2
  <2> QED BY <1>1, <2>1, DoctorKeeps DEF DoctorConfig, DoctorSteps
<1>2. CASE DoctorToken
  <2>1. \A n \in Checks : report'[n] = "passed" => report[n] = "passed" \/ Fact(n)
    BY <1>0, <1>2, PushFacts DEF DoctorToken, Fact, EnvIsGood
  <2> QED BY <1>2, <2>1, DoctorKeeps DEF DoctorToken, DoctorSteps
<1>3. CASE DoctorAuth
  <2>1. \A n \in Checks : report'[n] = "passed" => report[n] = "passed" \/ Fact(n)
    <3>1. CASE Push("key", EnvIsGood(world.key))
      BY <1>0, <3>1, PushFacts DEF Fact, EnvIsGood
    <3>2. CASE Push("auth file", AuthFileIsGood)
      BY <1>0, <3>2, PushFacts DEF Fact, AuthFileIsGood
    <3>3. CASE UsesBroker /\ ~config.broker
      <4>1. report' = [Pushed({"docker", "image", "network", "version"}, "skipped")
                           EXCEPT !["broker"] = "failed"]
        BY <1>3, <3>3 DEF DoctorAuth
      <4> QED BY <4>1, NoNewPass DEF Checks
    <3> QED BY <1>3, <3>1, <3>2, <3>3 DEF DoctorAuth
  <2> QED BY <1>3, <2>1, DoctorKeeps DEF DoctorAuth, DoctorSteps
<1>4. CASE DoctorDocker
  <2>1. \A n \in Checks : report'[n] = "passed" => report[n] = "passed" \/ Fact(n)
    <3>1. CASE world.docker = "good"
      BY <1>0, <1>4, <3>1, PushFacts DEF DoctorDocker, Fact
    <3>2. CASE world.docker # "good"
      BY <1>0, <1>4, <3>2, NoNewPass DEF DoctorDocker
    <3> QED BY <3>1, <3>2
  <2> QED BY <1>4, <2>1, DoctorKeeps DEF DoctorDocker, DoctorSteps
<1>5. CASE DoctorImage
  <2>1. \A n \in Checks : report'[n] = "passed" => report[n] = "passed" \/ Fact(n)
    BY <1>0, <1>5, PushFacts DEF DoctorImage, Fact, DockerHas
  <2> QED BY <1>5, <2>1, DoctorKeeps DEF DoctorImage, DoctorSteps
<1>6. CASE DoctorNetwork
  <2>1. \A n \in Checks : report'[n] = "passed" => report[n] = "passed" \/ Fact(n)
    <3>1. CASE UNCHANGED report
      BY <3>1
    <3>2. CASE Push("network", DockerHas("network"))
      BY <1>0, <3>2, PushFacts DEF Fact, DockerHas
    <3> QED BY <1>6, <3>1, <3>2 DEF DoctorNetwork
  <2> QED BY <1>6, <2>1, DoctorKeeps DEF DoctorNetwork, DoctorSteps
<1>7. CASE DoctorCreatesNetwork
  <2>1. CASE Push("network", FALSE) /\ UNCHANGED world
    <3>1. \A n \in Checks : report'[n] = "passed" => report[n] = "passed" \/ Fact(n)
      BY <1>0, <2>1, PushFacts
    <3> QED BY <1>7, <2>1, <3>1, DoctorKeeps DEF DoctorCreatesNetwork, DoctorSteps
  <2>2. CASE /\ world.docker = "good"
             /\ Push("network", TRUE)
             /\ world' = [world EXCEPT !.network = "good"]
    <3>1. Parts \subseteq DOMAIN world'
      BY <2>2 DEF GoodVerdictInv
    <3>2. /\ world'.network = "good"
          /\ \A part \in Parts \ {"network"} : world'[part] = world[part]
      BY <2>2 DEF GoodVerdictInv, Parts
    <3>3. \A n \in Checks : Fact(n) => Fact(n)'
      BY <1>7, <3>2 DEF DoctorCreatesNetwork, doctorUnchanged, Fact, Loads, EnvIsGood,
                        AuthFileIsGood, Parts
    <3>4. Fact("network")'
      BY <2>2, <3>2 DEF Fact, Parts
    <3>5. \A n \in Checks : report'[n] = "passed" => report[n] = "passed" \/ n = "network"
      BY <1>0, <2>2, PushFacts
    <3>6. ~changed' => \A n \in Checks : report'[n] = "passed" => Fact(n)'
      BY <1>7, <3>3, <3>4, <3>5 DEF GoodVerdictInv, DoctorCreatesNetwork, doctorUnchanged
    <3>7. pc' = "version" /\ failure' = failure /\ exit' = exit /\ exit = "none" /\ pc # "stopped"
      BY <1>7 DEF DoctorCreatesNetwork, doctorUnchanged, VerdictInv, DoctorSteps
    <3> QED BY <3>1, <3>6, <3>7 DEF GoodVerdictInv, GoodVerdictStarts
  <2> QED BY <1>7, <2>1, <2>2 DEF DoctorCreatesNetwork
<1>8. CASE DoctorVersion
  <2>1. \A n \in Checks : report'[n] = "passed" => report[n] = "passed" \/ Fact(n)
    <3>1. CASE report["image"] = "passed" /\ report["network"] = "passed"
      BY <1>0, <1>8, <3>1, PushFacts DEF DoctorVersion, Fact
    <3>2. CASE ~(report["image"] = "passed" /\ report["network"] = "passed")
      BY <1>0, <1>8, <3>2, NoNewPass DEF DoctorVersion
    <3> QED BY <3>1, <3>2
  <2> QED BY <1>8, <2>1, DoctorKeeps DEF DoctorVersion, DoctorSteps
<1>9. CASE DoctorLogin
  <2>1. \A n \in Checks : report'[n] = "passed" => report[n] = "passed" \/ Fact(n)
    <3>1. CASE report["auth file"] = "passed"
      BY <1>0, <1>9, <3>1, PushFacts DEF DoctorLogin, Fact, AuthFileIsGood
    <3>2. CASE report["auth file"] # "passed"
      BY <1>0, <1>9, <3>2, NoNewPass DEF DoctorLogin
    <3> QED BY <3>1, <3>2
  <2> QED BY <1>9, <2>1, DoctorKeeps DEF DoctorLogin, DoctorSteps
<1>10. CASE DoctorExits
  <2>1. \A n : Fact(n)' <=> Fact(n)
    BY <1>10, FactStays DEF DoctorExits
  <2>2. /\ pc = "report" /\ exit' # "none" /\ failure' = failure
        /\ UNCHANGED <<world, report, changed>>
    BY <1>10 DEF DoctorExits
  <2> QED BY <2>1, <2>2 DEF GoodVerdictInv, GoodVerdictStarts
<1> QED BY <1>1, <1>2, <1>3, <1>4, <1>5, <1>6, <1>7, <1>8, <1>9, <1>10 DEF Doctor

\* With a good verdict each cause of a failure is one the doctor does not look at.
LEMMA DaemonCauses ==
    ASSUME GoodVerdictInv, VerdictInv, LoadedInv, Daemon, exit = "success", ~changed
    PROVE  failure' \in NotDoctored \cup {"none"}
<1>1. \A n \in ChecksOfMode : n \in Checks /\ Fact(n)
  BY DEF VerdictInv, VerdictIsWhole, GoodVerdictInv, ChecksOfMode, Checks
<1>2. /\ Loads
      /\ world.token = "set"
      /\ world.docker = "good" /\ world.image = "good" /\ world.network = "good"
      /\ world.codex = "good"
  BY <1>1 DEF ChecksOfMode, Fact, EnvIsGood
<1>3. UsesBroker => world.key = "set"
  BY <1>1 DEF ChecksOfMode, Fact, EnvIsGood
<1>4. ~UsesBroker => world.auth = "good" /\ world.login = "good"
  BY <1>1 DEF ChecksOfMode, Fact, AuthFileIsGood
<1>5. /\ UsesBroker => config.broker
      /\ ~UsesBroker => config.auth_host_path # "none"
  BY <1>2, ErrorsFree DEF LoadedInv, Loads, UsesBroker
<1>6. failure \in NotDoctored \cup {"none"}
  BY DEF GoodVerdictInv, GoodVerdictStarts
<1> QED BY <1>2, <1>3, <1>4, <1>5, <1>6
        DEF Daemon, Load, CreateDataDir, StartBroker, StartSink, ConnectStore, StartIngestor,
            StartPolling, BuildSpec, StartSandbox, Enqueue, FirstTurn, Answer, StepOr, When,
            Readable, NotDoctored

LEMMA GoodVerdictStep ==
    GoodVerdictInv /\ VerdictInv /\ LoadedInv /\ [Next]_vars => GoodVerdictInv'
<1> SUFFICES ASSUME GoodVerdictInv, VerdictInv, LoadedInv, [Next]_vars
             PROVE  GoodVerdictInv'
    OBVIOUS
<1>1. CASE RunDoctor
  <2>1. \A n : Fact(n)' <=> Fact(n)
    BY <1>1, FactStays DEF RunDoctor
  <2> QED BY <1>1, <2>1 DEF GoodVerdictInv, GoodVerdictStarts, RunDoctor
<1>2. CASE RunDaemon
  <2>1. \A n : Fact(n)' <=> Fact(n)
    BY <1>2, FactStays DEF RunDaemon
  <2> QED BY <1>2, <2>1 DEF GoodVerdictInv, GoodVerdictStarts, RunDaemon
<1>3. CASE WorldChanges
  <2>1. DOMAIN world' = DOMAIN world
    BY <1>3 DEF WorldChanges
  <2> QED BY <1>3, <2>1 DEF GoodVerdictInv, GoodVerdictStarts, WorldChanges
<1>4. CASE Doctor
  BY <1>4, DoctorFacts
<1>5. CASE Daemon
  <2>1. /\ daemonUnchanged /\ pc \notin {"shell", "stopped"} /\ pc' # "shell"
        /\ pc' = "stopped" \/ failure' = failure
    BY <1>5 DEF Daemon, Load, CreateDataDir, StartBroker, StartSink, ConnectStore, StartIngestor,
                StartPolling, BuildSpec, StartSandbox, Enqueue, FirstTurn, Answer, StepOr
  <2>2. \A n : Fact(n)' <=> Fact(n)
    BY <2>1, FactStays DEF daemonUnchanged
  <2>3. exit' = "success" /\ ~changed' => failure' \in NotDoctored \cup {"none"}
    BY <1>5, <2>1, DaemonCauses DEF daemonUnchanged
  <2> QED BY <2>1, <2>2, <2>3 DEF GoodVerdictInv, GoodVerdictStarts, daemonUnchanged
<1>6. CASE UNCHANGED vars
  <2>1. \A n : Fact(n)' <=> Fact(n)
    BY <1>6, FactStays DEF vars
  <2> QED BY <1>6, <2>1 DEF GoodVerdictInv, GoodVerdictStarts, vars
<1> QED BY <1>1, <1>2, <1>3, <1>4, <1>5, <1>6 DEF Next

\* A successful doctor promises a daemon that comes up and answers, but for what the doctor
\* does not look at, whatever the files and the world are (doctor::run, app::run).
THEOREM GoodVerdictStartsHolds == Spec => []GoodVerdictStarts
<1>1. GoodVerdictInv => GoodVerdictStarts
  BY DEF GoodVerdictInv
<1>2. Init => LoadedInv
  BY DEF Init, LoadedInv, LoadedSteps, AcceptedIsComplete
<1> QED BY VerdictInit, VerdictStep, LoadedStep, GoodVerdictInit, GoodVerdictStep, <1>1, <1>2,
           PTL DEF Spec
=============================================================================
