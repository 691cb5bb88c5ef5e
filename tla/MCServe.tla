------------------------------- MODULE MCServe -------------------------------
(* Serve on small instances. *)
EXTENDS Serve

MCFloats == "0" :> 0 @@ "0.25" :> 25 @@ "0.5" :> 50 @@ "0.9" :> 90 @@ "1.5" :> 150 @@ "-1" :> -100 @@ "NaN" :> NaN
MCDurations == "0s" :> 0 @@ "30s" :> 1 @@ "10m" :> 20 @@ "-1s" :> -2
MCBooleans == "true" :> TRUE @@ "1" :> TRUE @@ "false" :> FALSE
MCLowercase == "PNG" :> "png" @@ "Signing_Token" :> "signing_token"
MCTrimmed == " Signing_Token " :> "Signing_Token"
MCKeys == "whsec_key" :> "key"
MCSeconds == "0" :> 0

None == [k \in {} |-> ""]
Secrets == [webhook |-> "secret", signing |-> "whsec_key", token |-> "token", commands |-> "key"]
Basic == [flags |-> None, env |-> "prometheus.url" :> "http://prometheus", flagPath |-> "",
          envPath |-> "", files |-> None, secrets |-> Secrets]
Env(settings_) == [Basic EXCEPT !.env = settings_ @@ @]
Without(secret) == [Basic EXCEPT !.secrets[secret] = ""]
Commands == "commands.enabled" :> "true"

\* Configurations that serve ...
Good ==
    {[Env(Commands) EXCEPT !.flags = "report.memory_pressure_ratio" :> "0.5" @@ "log.level" :> "error",
                           !.env = "report.memory_pressure_ratio" :> "0.9" @@ @],
     [Env("webhook.auth_method" :> " Signing_Token ") EXCEPT
         !.files = "/etc/cigar/config.yaml" :> ("commands.enabled" :> "1" @@ "commands.chart_format" :> "PNG")],
     [Basic EXCEPT !.envPath = "c.yaml", !.secrets.signing = "",
                   !.files = "c.yaml" :> ("report.throttle_warn_ratio" :> "NaN" @@ "pod_resolver" :> "prometheus")]}
\* ... and ones that are refused
Bad ==
    {[Basic EXCEPT !.flagPath = "none.yaml"], Env("log.level" :> "loud"),
     Env("report.throttle_warn_ratio" :> "1.5"), Env("report.memory_pressure_ratio" :> "0"),
     Env("report.memory_pressure_ratio" :> "-1"), Env("prometheus.scrape_interval" :> "soon"),
     Env("report.long_job_duration" :> "0s"), Env("report.long_job_duration" :> "-1s"),
     Env("commands.enabled" :> "yes"), Env("webhook.auth_method" :> "none"),
     Env("pod_resolver" :> "guess"), Env("commands.chart_format" :> " PNG"), Env("gitlab.url" :> "::"),
     [Basic EXCEPT !.env = None], Without("token"), Without("webhook"),
     [Without("signing") EXCEPT !.flags = "webhook.auth_method" :> "signing_token"],
     [Without("commands") EXCEPT !.flags = Commands]}
MCGiven == Good \cup Bad

Signed(key) == [id |-> "id", ts |-> "0", body |-> "b", signatures |-> <<MAC(key, "id", "0", "b")>>]
Delivery(event, user, work) ==
    [token |-> "secret", signed |-> Signed("key"), event |-> event, malformed |-> FALSE,
     project |-> 7, user |-> user, work |-> work, oversize |-> FALSE]
MCDeliveries ==
    {Delivery("Pipeline Hook", 1, TRUE), Delivery("Pipeline Hook", 0, TRUE),
     Delivery("Note Hook", 2, TRUE), Delivery("Pipeline Hook", 1, FALSE), Delivery("Push Hook", 1, TRUE),
     [Delivery("Note Hook", 2, TRUE) EXCEPT !.malformed = TRUE],
     [Delivery("Pipeline Hook", 1, TRUE) EXCEPT !.oversize = TRUE],
     [Delivery("Pipeline Hook", 1, TRUE) EXCEPT !.token = "", !.signed = Signed("other")]}
=============================================================================
