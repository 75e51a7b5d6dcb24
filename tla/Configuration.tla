---------------------------- MODULE Configuration ----------------------------
(***************************************************************************)
(* config.Load: from the variables of the environment, and those a local   *)
(* .env file adds, to the configuration a command runs with, or to the     *)
(* errors that stop it (internal/platform/config/config.go).               *)
(*                                                                         *)
(* A set of variables is a function from their names to their texts.  A    *)
(* text is reduced to what the code asks of it: "" is empty, "junk" does   *)
(* not parse or is no known word, and a number is "negative", "zero",      *)
(* "small" or "huge", where only "huge" is above the limit of a setting    *)
(* that has one (a port, a ratio).  Credentials, names of models and       *)
(* cookies, and the warnings of LOG_LEVEL and LOG_FORMAT are left out.     *)
(***************************************************************************)
Number == {"negative", "zero", "small", "huge"}

PoolSize == {"DB_MAX_OPEN_CONNS", "DB_MAX_IDLE_CONNS"}

\* The settings Load refuses unless they are greater than zero.
Positive == {"INSIGHTER_CACHE_SIZE", "INSIGHTER_TIMEOUT",
             "INSIGHTER_CACHE_TTL", "MARKETDATA_REFRESH_INTERVAL",
             "MARKETDATA_TIMEOUT"}

\* The durations any value of which is accepted, even a negative one.
Unchecked == {"HTTP_READ_TIMEOUT", "HTTP_WRITE_TIMEOUT", "HTTP_IDLE_TIMEOUT",
              "SHUTDOWN_TIMEOUT", "DB_CONN_MAX_LIFETIME",
              "DB_CONN_MAX_IDLE_TIME", "DB_CONNECT_TIMEOUT", "SESSION_TTL"}

Url == {"INSIGHTER_OLLAMA_BASE_URL", "INSIGHTER_GROQ_BASE_URL",
        "MARKETDATA_FUNDAMENTUS_BASE_URL", "MARKETDATA_YAHOO_BASE_URL",
        "MARKETDATA_BCB_BASE_URL"}

\* The settings that take a word of a fixed vocabulary.
Word == {"OTEL_EXPORTER_KIND", "INSIGHTER_PROVIDER", "MARKETDATA_PROVIDER",
         "MARKETDATA_SCHEDULER_ENABLED"}

\* The settings that take any text.
Text == {"DATABASE_URL", "OTEL_EXPORTER_OTLP_ENDPOINT",
         "INSIGHTER_GROQ_API_KEY", "MARKETDATA_WATCHLIST"}

Numeric == {"APP_PORT", "OTEL_TRACE_SAMPLE_RATIO"}
           \cup PoolSize \cup Positive \cup Unchecked
Setting == Numeric \cup Url \cup Word \cup Text

\* The value of a setting that is not given.
Default == [s \in Setting |->
    CASE s \in Text \cup {"OTEL_EXPORTER_KIND"} -> ""
      [] s = "INSIGHTER_PROVIDER" -> "ollama"
      [] s = "MARKETDATA_PROVIDER" -> "fake"
      [] s = "MARKETDATA_SCHEDULER_ENABLED" -> "true"
      [] s = "INSIGHTER_OLLAMA_BASE_URL" -> "http"
      [] s \in Url -> "https"
      [] OTHER -> "small"]

\* loadDotEnvIfPresent: a key that is set, even to nothing, is kept.
Seeded(real, dotenv) ==
    [key \in DOMAIN real \cup DOMAIN dotenv |->
        IF key \in DOMAIN real THEN real[key] ELSE dotenv[key]]

\* getString, getInt, getFloat, getBool, getDuration: empty is not given.
Lookup(env) ==
    [s \in Setting |->
        IF s \in DOMAIN env /\ env[s] # "" THEN env[s] ELSE Default[s]]

\* The exporter kind defaults to otlp when there is an endpoint.
ExporterKind(value) ==
    IF value["OTEL_EXPORTER_KIND"] # "" THEN value["OTEL_EXPORTER_KIND"]
    ELSE IF value["OTEL_EXPORTER_OTLP_ENDPOINT"] # "" THEN "otlp"
    ELSE "none"

(***************************************************************************)
(* The values of a setting that Load accepts, by themselves.               *)
(***************************************************************************)
\* Faulty variant of AcceptedNumber: the refresh interval is not checked.
AcceptedInterval(s) ==
    CASE s = "APP_PORT" -> {"small"}
      [] s = "OTEL_TRACE_SAMPLE_RATIO" -> {"zero", "small"}
      [] s \in PoolSize -> Number \ {"negative"}
      [] s \in Positive \ {"MARKETDATA_REFRESH_INTERVAL"} -> {"small", "huge"}
      [] OTHER -> Number

\* Faulty variant of AcceptedNumber: a text that does not parse gets through.
AcceptedJunk(s) ==
    CASE s = "APP_PORT" -> {"small"}
      [] s = "OTEL_TRACE_SAMPLE_RATIO" -> {"zero", "small"}
      [] s \in PoolSize -> Number \ {"negative"}
      [] s \in Positive -> {"small", "huge", "junk"}
      [] OTHER -> Number \cup {"junk"}

AcceptedNumber(s) ==
    CASE s = "APP_PORT" -> {"small"}
      [] s = "OTEL_TRACE_SAMPLE_RATIO" -> {"zero", "small"}
      [] s \in PoolSize -> Number \ {"negative"}
      [] s \in Positive -> {"small", "huge"}
      [] OTHER -> Number

AcceptedWord(s) ==
    CASE s = "OTEL_EXPORTER_KIND" -> {"", "otlp", "stdout", "none"}
      [] s = "INSIGHTER_PROVIDER" -> {"ollama", "groq", "fake"}
      [] s = "MARKETDATA_PROVIDER" -> {"fake", "live"}
      [] s = "MARKETDATA_SCHEDULER_ENABLED" -> {"true", "false"}

\* The settings Load reports: it goes through all of them before it gives up.
Errors(value) ==
    {s \in Numeric : value[s] \notin AcceptedNumber(s)}
    \cup {s \in Word : value[s] \notin AcceptedWord(s)}
    \cup {s \in Url : value[s] \notin {"http", "https"}}
    \cup {s \in {"DATABASE_URL"} : value[s] = ""}
    \cup {s \in {"INSIGHTER_GROQ_API_KEY"} :
             value["INSIGHTER_PROVIDER"] = "groq" /\ value[s] = ""}

(***************************************************************************)
(* What the lifecycle of a process depends on, of a configuration.         *)
(***************************************************************************)
Config == [telemetryEnabled : BOOLEAN,
           schedulerEnabled : BOOLEAN,
           refreshInterval : Number,
           watchlistParses : BOOLEAN]

Configured(value) ==
    [telemetryEnabled |-> ExporterKind(value) # "none",
     schedulerEnabled |-> value["MARKETDATA_SCHEDULER_ENABLED"] = "true",
     refreshInterval  |-> value["MARKETDATA_REFRESH_INTERVAL"],
     watchlistParses  |-> value["MARKETDATA_WATCHLIST"] # "junk"]
=============================================================================
