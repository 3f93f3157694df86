-------------------------------- MODULE Startup --------------------------------
(***************************************************************************)
(* From the configuration file to the first answer: loading and validating *)
(* (src/config.rs), `telellm doctor` (src/doctor.rs, src/main.rs), the     *)
(* start of the daemon (app::run of src/app.rs) and what the first request *)
(* of a chat then uses of the configuration (src/runtime.rs,               *)
(* src/sandbox/docker.rs, src/codex/pty.rs).                               *)
(*                                                                         *)
(* A configuration is a record of the fields that are checked or can stop  *)
(* the daemon.  A text is "set" or "" (also for blanks), a path in the     *)
(* workspace is "relative", "absolute", "parent" or "", and a number is    *)
(* itself.  Which of several errors is the one reported is left out.       *)
(*                                                                         *)
(* The world is external: the files, the environment, docker, the port,    *)
(* what a turn talks to, and Telegram.  It may change between any two      *)
(* steps.                                                                  *)
(***************************************************************************)
EXTENDS Naturals

CONSTANTS
    Configs,    \* what configuration files say
    Worlds,     \* what the world is like at first
    Changes,    \* what may change: pairs of a part of the world and its new state
    QueueMax,   \* the largest capacity of a tokio channel
    SecondsMax  \* seconds that can be added to an Instant

\* What the commands depend on.  "codex" is the command of that name in the image;
\* "command line" the one that a turn runs, with its arguments and the model; "route" the
\* way from the sandbox to public_base_url; "upstream" the service that answers, which
\* takes the key and is fast enough for the limits of a turn.
Parts == {"file", "token", "key", "auth", "login", "docker", "image", "network", "volume",
          "codex", "command line", "route", "upstream",
          "directory", "store", "port", "telegram"}

\* What a file that toml can read may hold, as far as the properties depend on it, and that
\* a world has a state of each part.
ASSUME StartupAssumption ==
    /\ QueueMax \in Nat
    /\ SecondsMax \in Nat
    /\ \A c \in Configs :
           /\ c.auth_mode \in {"broker_api_key", "chatgpt_oauth"}
           /\ c.broker \in BOOLEAN
           /\ {c.per_group_queue_depth, c.telegram_chunk_chars} \subseteq Nat
    /\ \A w \in Worlds : Parts \subseteq DOMAIN w

VARIABLES
    config,    \* what the configuration file says
    world,
    pc,        \* where the command is
    create,    \* doctor --create-network
    report,    \* status of each check of the doctor
    exit,      \* exit status of the doctor
    failure,   \* what stopped the daemon or its first request
    changed    \* HISTORY: the world changed since the doctor began

vars == <<config, world, pc, create, report, exit, failure, changed>>

-----------------------------------------------------------------------------
(* Configuration: what is taken for an absent field, and what is refused. *)

UxDefaults == [typing_refresh_secs |-> 4, streaming_update_interval_millis |-> 1500,
               streaming_min_delta_chars |-> 80, streaming_max_chars |-> 3900]

FileDefaults == [attachment_dir |-> "relative", attachment_max_bytes |-> 20000000,
                 output_dir |-> "relative", output_max_bytes |-> 20000000, output_max_files |-> 4,
                 audio_dir |-> "relative", audio_max_bytes |-> 20000000]

ToolDefaults == [stt |-> FALSE, stt_command |-> "set", stt_timeout_secs |-> 120,
                 tts |-> FALSE, tts_command |-> "set", tts_timeout_secs |-> 120]

UrlDefaults == [urls_enabled |-> TRUE, url_dir |-> "relative", url_max |-> 3,
                url_max_bytes |-> 2000000, url_timeout_secs |-> 20, user_agent |-> "set"]

LimitsDefaults ==
    [per_group_queue_depth |-> 16, telegram_chunk_chars |-> 3900,
     recent_buffer_messages |-> 200, codex_first_byte_timeout_secs |-> 300,
     codex_inactivity_secs |-> 600, codex_max_turn_secs |-> 900,
     codex_max_output_bytes |-> 524288, broker_max_requests_per_window |-> 120,
     broker_rate_limit_window_secs |-> 60, broker_max_concurrent_requests |-> 4]

\* The fields without a default, the system prompt, and whether the arguments of codex
\* make it answer one prompt (codex exec).
RequiredFields ==
    [bot_token_env |-> "set", bot_username |-> "set", system_prompt |-> "set",
     image |-> "set", network |-> "set", volume_prefix |-> "set",
     command |-> "codex", model |-> "set", noninteractive |-> TRUE]

AuthDefaults ==
    [auth_mode |-> "broker_api_key", auth_host_path |-> "none", broker |-> TRUE,
     public_base_url |-> "set", upstream_base_url |-> "set", upstream_api_key_env |-> "set"]

\* require_non_empty
Blank(c, fields) == {f \in fields : c[f] = ""}

\* require_positive_u64 and the other lower bounds
Below(c, least, fields) == {f \in fields : c[f] < least}

\* validate_relative_workspace_path, after require_non_empty
NotRelative(c, fields) == {f \in fields : c[f] # "relative"}

UxErrors(c) ==
    Below(c, 1, {"typing_refresh_secs", "streaming_update_interval_millis",
                 "streaming_min_delta_chars"})
    \cup Below(c, 256, {"streaming_max_chars"})

AttachmentErrors(c) ==
    NotRelative(c, {"attachment_dir"}) \cup Below(c, 1, {"attachment_max_bytes"})

OutputErrors(c) ==
    NotRelative(c, {"output_dir"}) \cup Below(c, 1, {"output_max_bytes", "output_max_files"})

DownloadLimit == 20000000

AudioErrors(c) ==
    NotRelative(c, {"audio_dir"})
    \cup Below(c, 1, {"audio_max_bytes"})
    \cup {f \in {"audio_max_bytes"} : c[f] > DownloadLimit}
    \cup (IF c.stt THEN Blank(c, {"stt_command"}) \cup Below(c, 1, {"stt_timeout_secs"}) ELSE {})
    \cup (IF c.tts THEN Blank(c, {"tts_command"}) \cup Below(c, 1, {"tts_timeout_secs"}) ELSE {})

UrlErrors(c) ==
    NotRelative(c, {"url_dir"})
    \cup Blank(c, {"user_agent"})
    \cup Below(c, 1, {"url_max", "url_max_bytes", "url_timeout_secs"})

BrokerErrors(c) ==
    IF c.broker THEN Blank(c, {"public_base_url", "upstream_base_url", "upstream_api_key_env"})
                ELSE {}

\* The broker is required in one mode and checked in both, the auth file's path
\* required in the other.
AuthErrors(c) ==
    BrokerErrors(c)
    \cup {f \in {"broker"} : c.auth_mode = "broker_api_key" /\ ~c.broker}
    \cup {f \in {"auth_host_path"} : c.auth_mode = "chatgpt_oauth" /\ c[f] \in {"none", ""}}

\* MUTANT of LimitErrors: the queue's depth is not checked.
LimitErrorsButDepth(c) ==
    Below(c, 256, {"telegram_chunk_chars"}) \cup Below(c, 1, {"codex_max_turn_secs"})

\* recent_buffer_messages is not checked: RollingBuffer takes one at least
LimitErrors(c) ==
    Below(c, 256, {"telegram_chunk_chars"})
    \cup Below(c, 1, {"per_group_queue_depth", "codex_first_byte_timeout_secs",
                      "codex_inactivity_secs", "codex_max_turn_secs", "codex_max_output_bytes",
                      "broker_max_requests_per_window", "broker_rate_limit_window_secs",
                      "broker_max_concurrent_requests"})

\* AppConfig::validate
Errors(c) ==
    Blank(c, {"bot_token_env", "bot_username", "system_prompt", "image", "network",
              "volume_prefix", "command", "model"})
    \cup UxErrors(c) \cup AttachmentErrors(c) \cup OutputErrors(c) \cup AudioErrors(c)
    \cup UrlErrors(c) \cup AuthErrors(c) \cup LimitErrors(c)

\* AppConfig::from_path
Loads == world.file = "good" /\ Errors(config) = {}

UsesBroker == config.auth_mode = "broker_api_key"

-----------------------------------------------------------------------------
(* The command line. *)

Checks == {"config", "broker", "token", "key", "auth file", "docker", "image", "network",
           "version", "login"}

Init ==
    /\ config \in Configs
    /\ world \in Worlds
    /\ pc = "shell"
    /\ create = FALSE
    /\ report = [n \in Checks |-> "none"]
    /\ exit = "none"
    /\ failure = "none"
    /\ changed = FALSE

\* telellm doctor, once, before the daemon
RunDoctor ==
    /\ pc = "shell"
    /\ exit = "none"
    /\ create' \in BOOLEAN
    /\ changed' = FALSE
    /\ pc' = "config"
    /\ UNCHANGED <<config, world, report, exit, failure>>

\* telellm run
RunDaemon ==
    /\ pc = "shell"
    /\ pc' = "load"
    /\ UNCHANGED <<config, world, create, report, exit, failure, changed>>

\* BOUND: one change
WorldChanges ==
    /\ ~changed
    /\ \E change \in Changes :
           /\ world[change[1]] # change[2]
           /\ world' = [world EXCEPT ![change[1]] = change[2]]
    /\ changed' = TRUE
    /\ UNCHANGED <<config, pc, create, report, exit, failure>>

-----------------------------------------------------------------------------
(* The doctor, one check after the other. *)

Pushed(names, status) == [n \in Checks |-> IF n \in names THEN status ELSE report[n]]

Push(name, good) == report' = Pushed({name}, IF good THEN "passed" ELSE "failed")

doctorUnchanged == UNCHANGED <<config, create, exit, failure, changed>>

\* The checks that are left out with docker or the image or the network.
Probes == IF UsesBroker THEN {"version"} ELSE {"version", "login"}

DoctorConfig ==
    /\ pc = "config"
    /\ IF Loads THEN Push("config", TRUE) /\ pc' = "token"
       ELSE /\ report' = [Pushed(Checks \ {"broker"}, "skipped") EXCEPT !["config"] = "failed"]
            /\ pc' = "report"
    /\ UNCHANGED world
    /\ doctorUnchanged

\* MUTANT of EnvIsGood: a variable that cannot be read is taken for set.
EnvIsNotEmpty(value) == value \notin {"unset", "empty"}

\* env_check
EnvIsGood(value) == value = "set"

DoctorToken ==
    /\ pc = "token"
    /\ Push("token", EnvIsGood(world.token))
    /\ pc' = "auth"
    /\ UNCHANGED world
    /\ doctorUnchanged

\* codex_auth_file_check: a file, not empty, that can be opened
AuthFileIsGood == world.auth = "good"

\* Without a broker in the broker's mode the doctor stops.
DoctorAuth ==
    /\ pc = "auth"
    /\ \/ UsesBroker /\ config.broker /\ Push("key", EnvIsGood(world.key)) /\ pc' = "docker"
       \/ /\ UsesBroker /\ ~config.broker
          /\ report' = [Pushed({"docker", "image", "network", "version"}, "skipped")
                            EXCEPT !["broker"] = "failed"]
          /\ pc' = "report"
       \/ ~UsesBroker /\ Push("auth file", AuthFileIsGood) /\ pc' = "docker"
    /\ UNCHANGED world
    /\ doctorUnchanged

DoctorDocker ==
    /\ pc = "docker"
    /\ IF world.docker = "good" THEN Push("docker", TRUE) /\ pc' = "image"
       ELSE /\ report' = [Pushed({"image", "network"} \cup Probes, "skipped")
                              EXCEPT !["docker"] = "failed"]
            /\ pc' = "report"
    /\ UNCHANGED world
    /\ doctorUnchanged

DockerHas(part) == world.docker = "good" /\ world[part] = "good"

DoctorImage ==
    /\ pc = "image"
    /\ Push("image", DockerHas("image"))
    /\ pc' = "network"
    /\ UNCHANGED world
    /\ doctorUnchanged

\* output_mentions_missing_network knows two wordings of docker.  A network is "unreadable"
\* if the inspection fails with any other message, be it there or not.
SaysMissing(network) == network = "missing"

\* docker network inspect
DoctorNetwork ==
    /\ pc = "network"
    /\ IF create /\ world.docker = "good" /\ SaysMissing(world.network)
       THEN pc' = "create" /\ UNCHANGED report
       ELSE Push("network", DockerHas("network")) /\ pc' = "version"
    /\ UNCHANGED world
    /\ doctorUnchanged

\* docker network create: fails also when somebody has created it meanwhile
DoctorCreatesNetwork ==
    /\ pc = "create"
    /\ IF world.docker = "good" /\ world.network # "good"
       THEN \/ Push("network", TRUE) /\ world' = [world EXCEPT !.network = "good"]
            \/ Push("network", FALSE) /\ UNCHANGED world
       ELSE Push("network", FALSE) /\ UNCHANGED world
    /\ pc' = "version"
    /\ doctorUnchanged

\* What a container needs to run.
ContainerRuns == DockerHas("image") /\ DockerHas("network")

\* MUTANT of DoctorVersion: a missing image only skips the probes.
DoctorVersionForgiving ==
    /\ pc = "version"
    /\ report' = IF report["image"] = "passed" /\ report["network"] = "passed"
                 THEN Pushed({"version"}, "passed")
                 ELSE [n \in Checks |-> IF report[n] = "failed" THEN "skipped" ELSE report[n]]
    /\ pc' = "login"
    /\ UNCHANGED world
    /\ doctorUnchanged

\* codex_version_probe_args: docker run of the image with the literal command codex
DoctorVersion ==
    /\ pc = "version"
    /\ IF report["image"] = "passed" /\ report["network"] = "passed"
       THEN /\ Push("version", ContainerRuns /\ world.codex = "good")
            /\ pc' = IF UsesBroker THEN "report" ELSE "login"
       ELSE /\ report' = Pushed(Probes, "skipped")
            /\ pc' = "report"
    /\ UNCHANGED world
    /\ doctorUnchanged

DoctorLogin ==
    /\ pc = "login"
    /\ IF report["auth file"] = "passed"
       THEN Push("login", ContainerRuns /\ world.codex = "good" /\ world.auth = "good"
                          /\ world.login = "good")
       ELSE report' = Pushed({"login"}, "skipped")
    /\ pc' = "report"
    /\ UNCHANGED world
    /\ doctorUnchanged

HasFailures == \E n \in Checks : report[n] = "failed"

\* run_doctor prints the report; the daemon can be started after it
DoctorExits ==
    /\ pc = "report"
    /\ exit' = IF HasFailures THEN "failure" ELSE "success"
    /\ pc' = "shell"
    /\ UNCHANGED <<config, world, create, report, failure, changed>>

-----------------------------------------------------------------------------
(* The daemon: app::run, then the first request of a chat. *)

daemonUnchanged == UNCHANGED <<config, world, create, report, exit, changed>>

\* The cause, when something is wrong.
When(cause, wrong) == {c \in {cause} : wrong}

\* A step that fails when there is a cause.
StepOr(from, to, causes) ==
    /\ pc = from
    /\ \/ causes # {} /\ failure' \in causes /\ pc' = "stopped"
       \/ causes = {} /\ pc' = to /\ UNCHANGED failure
    /\ daemonUnchanged

Load == StepOr("load", "directory", When("config", ~Loads))

CreateDataDir == StepOr("directory", "broker", When("data directory", world.directory # "good"))

\* The doctor wants more of a variable than that it can be read.
Readable(value) == value \in {"set", "empty"}

StartBroker ==
    StepOr("broker", "sink",
           When("no broker", UsesBroker /\ ~config.broker)
           \cup When("key", UsesBroker /\ ~Readable(world.key))
           \cup When("port", UsesBroker /\ world.port # "good"))

StartSink == StepOr("sink", "store", When("token", ~Readable(world.token)))

ConnectStore == StepOr("store", "ingestor", When("store", world.store # "good"))

\* A user agent that is no header value is refused by the client's builder.
StartIngestor ==
    StepOr("ingestor", "polling",
           When("user agent", config.urls_enabled /\ config.user_agent = "no header"))

StartPolling == StepOr("polling", "serving", When("telegram", world.telegram # "good"))

\* spec_for_chat
BuildSpec ==
    StepOr("serving", "sandbox",
           When("no broker", UsesBroker /\ ~config.broker)
           \cup When("base url", UsesBroker /\ config.public_base_url = "no url")
           \cup When("no auth path", ~UsesBroker /\ config.auth_host_path = "none"))

\* validate_spec and docker run, which mounts the chat's volume as no probe does
StartSandbox ==
    StepOr("sandbox", "enqueue",
           When("auth file", ~UsesBroker /\ world.auth \notin {"good", "blank"})
           \cup When("docker", world.docker # "good")
           \cup When("image", world.image # "good")
           \cup When("network", world.network # "good")
           \cup When("volume", world.volume # "good"))

\* Router::sender_for_chat makes a channel for the worker.
Enqueue ==
    StepOr("enqueue", "turn", When("panic", config.per_group_queue_depth \notin 1..QueueMax))

\* A turn of a terminal session computes its deadline.  codex_command_parts names the
\* configured command, its arguments and the model; in the broker's mode its requests go
\* through the broker, which needs a way to it and one from it to the upstream.
FirstTurn ==
    StepOr("turn", "answer",
           When("panic", ~config.noninteractive /\ config.codex_max_turn_secs > SecondsMax)
           \cup When("codex", config.command = "codex" /\ world.codex # "good")
           \cup When("command line", world["command line"] # "good")
           \cup When("login", ~UsesBroker /\ (world.login # "good" \/ world.auth # "good"))
           \cup When("route", UsesBroker /\ world.route # "good")
           \cup When("upstream", \/ world.upstream # "good"
                                 \/ UsesBroker /\ config.upstream_base_url = "no url"))

\* chunk_for_telegram asserts that the limit is positive
Answer ==
    StepOr("answer", "answered",
           When("panic", config.telegram_chunk_chars = 0)
           \cup When("telegram", world.telegram # "good"))

-----------------------------------------------------------------------------

Doctor ==
    \/ DoctorConfig \/ DoctorToken \/ DoctorAuth \/ DoctorDocker \/ DoctorImage
    \/ DoctorNetwork \/ DoctorCreatesNetwork \/ DoctorVersion \/ DoctorLogin \/ DoctorExits

Daemon ==
    \/ Load \/ CreateDataDir \/ StartBroker \/ StartSink \/ ConnectStore \/ StartIngestor
    \/ StartPolling \/ BuildSpec \/ StartSandbox \/ Enqueue \/ FirstTurn \/ Answer

Next == RunDoctor \/ RunDaemon \/ WorldChanges \/ Doctor \/ Daemon

Spec == Init /\ [][Next]_vars

-----------------------------------------------------------------------------
(* Properties. *)

\* The checks of the doctor that concern the configured mode.
ChecksOfMode ==
    {"config", "token", "docker", "image", "network", "version"}
    \cup (IF UsesBroker THEN {"key"} ELSE {"auth file", "login"})

\* A doctor that exits with success has run every check that concerns the mode, and
\* each has passed: nothing was left out silently because of something else, though
\* docker may come and go between the checks (docs/how-to/validate-and-troubleshoot.md).
VerdictIsWhole ==
    exit = "success" => \A n \in ChecksOfMode : report[n] = "passed"

\* What the doctor does not look at.  Of these, validate-and-troubleshoot.md names
\* Telegram, the store and, with it, its directory.  Its probes run the command codex, not
\* the configured one, without the volume, the broker and a request to the upstream.
NotDoctored ==
    {"data directory", "store", "telegram", "port", "user agent", "base url", "panic",
     "volume", "command line", "route", "upstream"}

\* After a successful doctor, the daemon starts and answers its first request, unless the
\* world has changed since or one of the things is wrong which the doctor does not look
\* at: what it did look at does not fail then.
GoodVerdictStarts ==
    exit = "success" /\ ~changed => failure \in NotDoctored \cup {"none"}

\* A configuration that was accepted is never found incomplete by the steps that rely
\* on it, and none of them panics for a number that was let through, unless the
\* number is beyond what tokio and Instant can take.
AcceptedIsComplete ==
    /\ failure \notin {"no broker", "no auth path"}
    /\ failure = "panic" => \/ config.per_group_queue_depth > QueueMax
                            \/ config.codex_max_turn_secs > SecondsMax
=============================================================================
