-------------------------------- MODULE Config --------------------------------
(***************************************************************************)
(* config/config.go: what a process makes of its environment, and           *)
(* k8s/production: the environment the Deployment gives it.                 *)
(*                                                                          *)
(* Data.  A number or a duration is the text it is written as, and Garbage a *)
(* text that is neither; the empty text is a setting that is not set, which  *)
(* viper treats alike.                                                      *)
(***************************************************************************)

CONSTANTS
    Secret,   \* the Secret auth-secrets, created by hand
    Dropped,  \* the settings a faulty ConfigMap has lost
    Garbled,  \* ... and those it gives a text that means nothing
    Garbage,  \* that text
    NoConfig  \* the error of Load

\* SetDefault of each setting; the last five have none.
Defaults == [
    APP_PORT |-> "8080", APP_ENV |-> "development",
    DB_HOST |-> "localhost", DB_PORT |-> "5432", DB_USER |-> "postgres",
    DB_PASSWORD |-> "postgres", DB_NAME |-> "auth", DB_SSLMODE |-> "disable",
    REDIS_HOST |-> "localhost", REDIS_PORT |-> "6379", REDIS_PASSWORD |-> "", REDIS_DB |-> "0",
    JWT_ACCESS_TTL |-> "15m", JWT_REFRESH_TTL |-> "168h",
    BRUTE_FORCE_MAX_ATTEMPTS |-> "5", BRUTE_FORCE_WINDOW |-> "15m", LOG_LEVEL |-> "info",
    CACHE_TTL |-> "60s", OLLAMA_MODEL |-> "llama3.2:1b", OLLAMA_TIMEOUT |-> "60s",
    LLM_SUMMARY_TTL |-> "5m", LLM_MAX_ATTEMPTS |-> "20", LLM_MAX_EVENTS |-> "20",
    JWT_SECRET |-> "", OLLAMA_URL |-> "", CF_ACCESS_CLIENT_ID |-> "",
    CF_ACCESS_CLIENT_SECRET |-> "", BOOTSTRAP_ADMIN_EMAIL |-> "",
    BOOTSTRAP_ADMIN_PASSWORD |-> ""]

Settings == DOMAIN Defaults

\* What is read with GetInt and with GetDuration; the rest with GetString.
Numbers == {"REDIS_DB", "BRUTE_FORCE_MAX_ATTEMPTS", "LLM_MAX_ATTEMPTS", "LLM_MAX_EVENTS"}
Durations == {"JWT_ACCESS_TTL", "JWT_REFRESH_TTL", "BRUTE_FORCE_WINDOW", "CACHE_TTL",
              "OLLAMA_TIMEOUT", "LLM_SUMMARY_TTL"}

ASSUME SecretAssumption ==
    /\ {"DB_USER", "DB_PASSWORD", "REDIS_PASSWORD"} \subseteq DOMAIN Secret
    /\ DOMAIN Secret \subseteq Settings
ASSUME FaultAssumption == Dropped \subseteq Settings /\ Garbled \subseteq Settings

\* The ConfigMap auth-config.
Production == [
    APP_PORT |-> "8080", APP_ENV |-> "production",
    DB_HOST |-> "postgres", DB_PORT |-> "5432", DB_NAME |-> "auth", DB_SSLMODE |-> "disable",
    REDIS_HOST |-> "redis", REDIS_PORT |-> "6379", REDIS_DB |-> "0",
    JWT_ACCESS_TTL |-> "15m", JWT_REFRESH_TTL |-> "168h",
    BRUTE_FORCE_MAX_ATTEMPTS |-> "5", BRUTE_FORCE_WINDOW |-> "15m", LOG_LEVEL |-> "info",
    OLLAMA_URL |-> "https://ollama.shariski.com", OLLAMA_MODEL |-> "llama3.2:1b",
    OLLAMA_TIMEOUT |-> "60s", LLM_SUMMARY_TTL |-> "5m",
    LLM_MAX_ATTEMPTS |-> "20", LLM_MAX_EVENTS |-> "20"]

\* envFrom: the ConfigMap, and over it the Secret.
Environment(map) ==
    [s \in Settings |->
        IF s \in DOMAIN Secret THEN Secret[s]
        ELSE IF s \in DOMAIN map THEN map[s] ELSE ""]

Faulty(map) == [s \in DOMAIN map \ Dropped |-> IF s \in Garbled THEN Garbage ELSE map[s]]

\* GetInt and GetDuration return zero for what they cannot read, and no error.
Converted(s, text) == IF s \in Numbers \cup Durations /\ text = Garbage THEN "0" ELSE text

\* JWT_SECRET is required; nothing else is checked.
Load(env) ==
    IF env["JWT_SECRET"] = "" THEN NoConfig
    ELSE [s \in Settings |-> IF env[s] # "" THEN Converted(s, env[s]) ELSE Defaults[s]]

\* DBConfig.DSN and RedisConfig.Addr name the Services, with the user and the
\* passwords these were given from the same Secret.  Postgres serves without TLS.
DSN(cfg) ==
    /\ cfg["DB_HOST"] = "postgres" /\ cfg["DB_PORT"] = "5432" /\ cfg["DB_NAME"] = "auth"
    /\ cfg["DB_USER"] = Secret["DB_USER"] /\ cfg["DB_PASSWORD"] = Secret["DB_PASSWORD"]
    /\ cfg["DB_SSLMODE"] \in {"disable", "allow", "prefer"}

Addr(cfg) ==
    /\ cfg["REDIS_HOST"] = "redis" /\ cfg["REDIS_PORT"] = "6379"
    /\ cfg["REDIS_PASSWORD"] = Secret["REDIS_PASSWORD"]

\* server.New listens on the port the probes ask.
Listens(cfg) == cfg["APP_PORT"] = "8080"

Usable(map) ==
    LET cfg == Load(Environment(map))
    IN  cfg # NoConfig /\ DSN(cfg) /\ Addr(cfg) /\ Listens(cfg)
=============================================================================
