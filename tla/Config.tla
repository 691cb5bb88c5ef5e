-------------------------------- MODULE Config --------------------------------
(***************************************************************************)
(* The configuration (internal/config): where a setting's text comes from, *)
(* what the texts mean and which of them are refused.  A text that is not  *)
(* set is "", as in the code; what strconv and time make of a text is      *)
(* given by constants.                                                     *)
(***************************************************************************)
EXTENDS Advice, FiniteSetsExt, TLC

CONSTANTS
    Floats,          \* texts strconv.ParseFloat accepts: their value, in percent
    Durations,       \* texts time.ParseDuration accepts: their value
    Booleans,        \* texts strconv.ParseBool accepts: their value
    Lowercase,       \* texts with capitals: without them
    Trimmed          \* texts with blanks around them: without them

ASSUME TextsAssumption ==
    /\ Floats \in [DOMAIN Floats -> Int]
    /\ Durations \in [DOMAIN Durations -> Int]
    /\ Booleans \in [DOMAIN Booleans -> BOOLEAN]
    /\ Lowercase \in [DOMAIN Lowercase -> STRING]
    /\ Trimmed \in [DOMAIN Trimmed -> STRING]

\* The settings and their defaults
settings ==
    "gitlab.url" :> "https://gitlab.com" @@ "prometheus.url" :> ""
    @@ "prometheus.scrape_interval" :> "30s" @@ "pod_resolver" :> "trace"
    @@ "webhook.auth_method" :> "secret" @@ "report.throttle_warn_ratio" :> "0.25"
    @@ "report.long_job_duration" :> "10m" @@ "report.memory_pressure_ratio" :> "0.9"
    @@ "commands.enabled" :> "false" @@ "commands.chart_format" :> "png"
    @@ "server.listen_addr" :> ":8080" @@ "server.ops_addr" :> ":8081"
    @@ "log.level" :> "info"

-----------------------------------------------------------------------------
(* Resolve: the flags, the environment and the configuration files *)

\* What the process is given: the flags that were set, the environment's
\* settings and secrets, the path from --config, the one from $CIGAR_CONFIG,
\* and the files there are: path -> settings, or Broken.
Broken == "log.level" :> "not a file of settings"
SearchPath == <<"./config.yaml", "/etc/cigar/config.yaml">>
NoFile == [k \in {} |-> ""]

\* readConfigFile: a path that is given must be readable; one of the search
\* path may be missing, but not broken.
ConfigFile(given) ==
    LET path == IF given.flagPath # "" THEN given.flagPath ELSE given.envPath
        there == SelectSeq(SearchPath, LAMBDA p : p \in DOMAIN given.files)
    IN  CASE path # "" /\ path \notin DOMAIN given.files -> Broken
          [] path # "" /\ path \in DOMAIN given.files -> given.files[path]
          [] path = "" /\ there = <<>> -> NoFile
          [] OTHER -> given.files[Head(there)]

\* Mutant: the environment hides the flags.
GetStringEnvFirst(given, key) ==
    CASE key \in DOMAIN given.env /\ given.env[key] # "" -> given.env[key]
      [] key \in DOMAIN given.flags -> given.flags[key]
      [] key \in DOMAIN ConfigFile(given) -> ConfigFile(given)[key]
      [] OTHER -> settings[key]

\* viper: changed flag > environment, unless empty > file > default
GetString(given, key) ==
    CASE key \in DOMAIN given.flags -> given.flags[key]
      [] key \notin DOMAIN given.flags /\ key \in DOMAIN given.env /\ given.env[key] # "" ->
            given.env[key]
      [] OTHER -> IF key \in DOMAIN ConfigFile(given) THEN ConfigFile(given)[key] ELSE settings[key]

-----------------------------------------------------------------------------
(* Load *)

ToLower(text) == IF text \in DOMAIN Lowercase THEN Lowercase[text] ELSE text
TrimSpace(text) == IF text \in DOMAIN Trimmed THEN Trimmed[text] ELSE text

\* Refuses what is below 0 or above 1, and 0 too unless it is allowed; NaN
\* is neither.
RatioOK(text, allowZero) ==
    /\ text \in DOMAIN Floats
    /\ ~Below(Floats[text], 0) /\ ~Below(100, Floats[text])
    /\ allowZero \/ ~AtMost(Floats[text], 0)

DurationOK(text) == text \in DOMAIN Durations /\ Durations[text] > 0
BoolOK(text) == text = "" \/ text \in DOMAIN Booleans
ParseBool(text) == text # "" /\ Booleans[text]

authMethod(given) ==
    LET m == ToLower(TrimSpace(GetString(given, "webhook.auth_method")))
    IN  IF m = "" THEN "secret" ELSE m

\* What Load looks at, in its order, and whether it passes
Checks(given) ==
    LET v(key) == GetString(given, key)
    IN  << <<"throttle ratio", RatioOK(v("report.throttle_warn_ratio"), TRUE)>>,
           <<"memory ratio", RatioOK(v("report.memory_pressure_ratio"), FALSE)>>,
           <<"scrape interval", DurationOK(v("prometheus.scrape_interval"))>>,
           <<"long job", DurationOK(v("report.long_job_duration"))>>,
           <<"commands", BoolOK(v("commands.enabled"))>>,
           <<"auth method", authMethod(given) \in {"secret", "signing_token"}>>,
           <<"pod resolver", v("pod_resolver") \in {"prometheus", "trace"}>>,
           <<"chart format", ToLower(v("commands.chart_format")) \in {"png", "svg", "markdown", "md"}>> >>

\* The places of those that do not
Refused(given) == {i \in DOMAIN Checks(given) : ~Checks(given)[i][2]}

\* The required ones are looked at last, in the random order of a map.
Missing(given) ==
    {name \in {"token", "prometheus"} :
        IF name = "token" THEN given.secrets.token = "" ELSE GetString(given, "prometheus.url") = ""}

\* The errors Load can end with
LoadErrors(given) ==
    IF Refused(given) # {} THEN {Checks(given)[Min(Refused(given))][1]} ELSE Missing(given)

\* Load and newAdviceEngine, for settings that are not refused
Load(given) ==
    [method |-> authMethod(given),
     commands |-> ParseBool(GetString(given, "commands.enabled")),
     format |-> LET f == ToLower(GetString(given, "commands.chart_format"))
                IN  IF f = "md" THEN "markdown" ELSE f,
     limits |-> [throttle |-> Floats[GetString(given, "report.throttle_warn_ratio")],
                 longJob |-> Durations[GetString(given, "report.long_job_duration")],
                 memory |-> Floats[GetString(given, "report.memory_pressure_ratio")]]]
=============================================================================
