------------------------------ MODULE MCStartup ------------------------------
(* Constants for TLC: a configuration of each mode with one field changed, in  *)
(* a world with at most one thing wrong, which changes once at any time.       *)
EXTENDS Startup, TLC

Base ==
    UxDefaults @@ FileDefaults @@ ToolDefaults @@ UrlDefaults @@ LimitsDefaults
    @@ RequiredFields @@ AuthDefaults

OAuth == [Base EXCEPT !.auth_mode = "chatgpt_oauth", !.auth_host_path = "set", !.broker = FALSE,
                      !.noninteractive = FALSE, !.stt = TRUE, !.tts = TRUE]

Huge == 1000000000

Numbers == DOMAIN UxDefaults \cup DOMAIN LimitsDefaults
           \cup {"attachment_max_bytes", "output_max_bytes", "output_max_files",
                 "audio_max_bytes", "stt_timeout_secs", "tts_timeout_secs",
                 "url_max", "url_max_bytes", "url_timeout_secs"}
Dirs == {"attachment_dir", "output_dir", "audio_dir", "url_dir"}
Texts == {"bot_token_env", "bot_username", "system_prompt", "image", "network", "volume_prefix",
          "model", "user_agent", "stt_command", "tts_command", "public_base_url",
          "upstream_base_url", "upstream_api_key_env", "auth_host_path"}

Values(f) ==
    IF f \in Numbers THEN {0, 1, 255, 256, Huge}
    ELSE IF f \in Dirs THEN {"", "absolute", "parent"}
    ELSE IF f \in Texts THEN {"", "none", "no url", "no header"}
    ELSE IF f = "command" THEN {"", "other"}
    ELSE IF f = "auth_mode" THEN {"broker_api_key", "chatgpt_oauth"}
    ELSE BOOLEAN

MCConfigs == UNION {{[c EXCEPT ![f] = v] : v \in Values(f)} : f \in DOMAIN Base, c \in {Base, OAuth}}

GoodWorld == [part \in Parts |-> IF part \in {"token", "key"} THEN "set" ELSE "good"]

Wrong == {<<"file", "malformed">>, <<"token", "unset">>, <<"token", "empty">>,
          <<"token", "garbled">>, <<"key", "unset">>, <<"key", "garbled">>,
          <<"auth", "missing">>, <<"auth", "blank">>, <<"login", "out">>,
          <<"docker", "down">>, <<"image", "missing">>, <<"network", "missing">>,
          <<"network", "unreadable">>, <<"volume", "refused">>, <<"codex", "broken">>,
          <<"command line", "refused">>, <<"route", "closed">>, <<"upstream", "refuses">>,
          <<"directory", "no">>, <<"store", "no">>, <<"port", "taken">>, <<"telegram", "down">>}

MCWorlds == {GoodWorld} \cup {[GoodWorld EXCEPT ![w[1]] = w[2]] : w \in Wrong}

MCChanges == {<<"docker", "down">>, <<"docker", "good">>, <<"network", "good">>,
              <<"image", "missing">>, <<"auth", "missing">>, <<"token", "unset">>}
=============================================================================
