-------------------------------- MODULE Serve --------------------------------
(***************************************************************************)
(* The life of `bot serve`: from its configuration to its two servers and  *)
(* to its end (cmd/bot), the webhook requests answered meanwhile           *)
(* (internal/webhook) and what they are counted as (internal/telemetry).   *)
(* The queue is a depth here: WorkQueue has its steps, and Bot what the    *)
(* worker does.                                                            *)
(***************************************************************************)
EXTENDS Config, WebhookAuth, FiniteSets, Bags

CONSTANTS
    Given,           \* what the process may be given
    Keys,            \* the signing tokens that decode to a key, and which
    BadURLs,         \* texts that are no URL
    Requests,        \* the webhook requests
    Deliveries,      \* what a request may carry
    QueueSize,       \* events the queue holds (128 in the code)
    Nobody           \* not a request

ASSUME KeysAssumption == Keys \in [DOMAIN Keys -> STRING]
ASSUME QueueSizeAssumption == QueueSize \in Nat \ {0}
ASSUME NobodyAssumption == Nobody \notin Requests
ASSUME DeliveriesAssumption == \A d \in Deliveries : d.user \in Nat

Servers == {"webhook", "ops"}

VARIABLES
    given,           \* what this process was given
    pc,              \* how far serve is
    config,          \* the configuration loaded
    cancelled,       \* SIGINT or SIGTERM was received
    server,          \* what each server is doing
    errCh,           \* the results of Listen not yet collected
    collected,       \* how many were
    requests,        \* the requests: step, delivery, answer
    depth, warned,   \* the queue: events in it, and its flag
    users, mu, gauge,   \* the users seen, the lock of the set, cigar_users_active
    calls,           \* cigar_webhook_calls_total: a bag of <<project, status>>
    logs             \* cigar_log_total: a bag of <<level, name>>

processVars == <<given, pc, config, cancelled>>
serverVars == <<server, errCh, collected>>
metricVars == <<users, mu, gauge, calls, logs>>
vars == <<processVars, serverVars, requests, depth, warned, metricVars>>

-----------------------------------------------------------------------------
(* Logging: zap and countingCore *)

\* The levels in their order; a level that is not set is "info".
Levels == {"", "debug", "info", "warn", "error", "fatal"}
Rank == [l \in Levels |-> CASE l = "debug" -> 0 [] l \in {"", "info"} -> 1 [] l = "warn" -> 2
                            [] l = "error" -> 3 [] l = "fatal" -> 6]

\* Mutant: an entry below the configured level is dropped before it is counted.
EnabledAsPrinted(level) == Rank[level] >= Rank[GetString(given, "log.level")]

\* zap drops an entry that its core is not enabled for.
Enabled(level) == Rank[level] >= Rank["warn"] \/ Rank[level] >= Rank[GetString(given, "log.level")]

Log(level, name) ==
    logs' = IF Enabled(level) /\ Rank[level] >= Rank["warn"]
            THEN logs (+) SetToBag({<<level, name>>}) ELSE logs

-----------------------------------------------------------------------------
(* serve *)

Exit == pc' = "exited"

\* PersistentPreRunE: Resolve and newLogger
Resolve ==
    /\ pc = "resolve"
    /\ IF ConfigFile(given) = Broken \/ GetString(given, "log.level") \notin DOMAIN Rank
       THEN Exit ELSE pc' = "load"
    /\ UNCHANGED <<given, config, cancelled, serverVars, requests, depth, warned, metricVars>>

\* Load, newReporter and the check of the signing key
LoadConfig ==
    /\ pc = "load"
    /\ IF \/ LoadErrors(given) # {}
          \/ GetString(given, "gitlab.url") \in BadURLs
          \/ GetString(given, "prometheus.url") \in BadURLs
          \/ Load(given).commands /\ given.secrets.commands = ""
       THEN Exit /\ UNCHANGED config
       ELSE /\ config' = Load(given)
            /\ pc' = IF config'.commands THEN "bot user" ELSE "authenticator"
    /\ UNCHANGED <<given, cancelled, serverVars, requests, depth, warned, metricVars>>

\* CurrentUser, which waits for GitLab as long as the context lasts
CurrentUser ==
    /\ pc = "bot user"
    /\ (~cancelled /\ pc' = "authenticator") \/ Exit
    /\ UNCHANGED <<given, config, cancelled, serverVars, requests, depth, warned, metricVars>>

HasCredential ==
    IF config.method = "secret" THEN given.secrets.webhook # ""
    ELSE given.secrets.signing \in DOMAIN Keys

\* buildAuthenticator, and Listen begins on both servers.
BuildAuthenticator ==
    /\ pc = "authenticator"
    /\ IF HasCredential
       THEN pc' = "collect" /\ server' = [s \in Servers |-> "starting"]
       ELSE Exit /\ UNCHANGED server
    /\ UNCHANGED <<given, config, cancelled, errCh, collected, requests, depth, warned, metricVars>>

\* Mutant: both results are waited for before one is looked at.
CollectBoth ==
    /\ pc = "collect" /\ Len(errCh) = 2
    /\ Exit
    /\ UNCHANGED <<given, config, cancelled, serverVars, requests, depth, warned, metricVars>>

\* serve ends with the first error, or when both servers are down.
Collect ==
    /\ pc = "collect" /\ errCh # <<>>
    /\ errCh' = Tail(errCh)
    /\ collected' = collected + 1
    /\ IF Head(errCh) = "error" \/ collected' = 2 THEN Exit ELSE UNCHANGED pc
    /\ UNCHANGED <<given, config, cancelled, server, requests, depth, warned, metricVars>>

Cancel ==
    /\ pc # "exited" /\ ~cancelled
    /\ cancelled' = TRUE
    /\ UNCHANGED <<given, pc, config, serverVars, requests, depth, warned, metricVars>>

-----------------------------------------------------------------------------
(* fiber: Listen *)

Returns(s, state, result) ==
    /\ server' = [server EXCEPT ![s] = state]
    /\ errCh' = Append(errCh, result)

\* The address may be taken.
Listen(s) ==
    /\ pc = "collect" /\ server[s] = "starting"
    /\ \/ server' = [server EXCEPT ![s] = "listening"] /\ UNCHANGED errCh
       \/ Returns(s, "failed", "error")
    /\ UNCHANGED <<processVars, collected, requests, depth, warned, metricVars>>

\* Listen returns once the context is done; requests go on until the exit.
ShutDown(s) ==
    /\ pc = "collect" /\ server[s] = "listening" /\ cancelled
    /\ Returns(s, "stopped", "nil")
    /\ UNCHANGED <<processVars, collected, requests, depth, warned, metricVars>>

-----------------------------------------------------------------------------
(* The webhook requests: handle, handlePipeline and handleNote *)

Waiting == [step |-> "none"]
TooLarge(delivery) == [step |-> "refused", delivery |-> delivery, project |-> 0, status |-> 413, size |-> 0]
Request(delivery) == [step |-> "handle", delivery |-> delivery, project |-> 0, status |-> 0, size |-> 0]
AtStep(r, step) == pc # "exited" /\ requests[r].step = step
GoOn(r, step) == requests' = [requests EXCEPT ![r].step = step]
Answer(r, status) == requests' = [requests EXCEPT ![r] = [@ EXCEPT !.status = status, !.step = "record"]]

\* fiber answers a request whose body is over maxBodyBytes itself: it never
\* comes to the handler, nor to what the handler defers.
Receive(r) ==
    /\ AtStep(r, "none")
    /\ server["webhook"] = "listening"
    /\ \E d \in Deliveries :
          requests' = [requests EXCEPT ![r] = IF d.oversize THEN TooLarge(d) ELSE Request(d)]
    /\ UNCHANGED <<processVars, serverVars, depth, warned, metricVars>>

\* Deliveries are dated 0, which is now.
Authenticate(d) ==
    IF config.method = "secret" THEN SecretMatches(given.secrets.webhook, d.token)
    ELSE SignatureMatches(Keys[given.secrets.signing], 0, d.signed)

Routed(event) == event = "Pipeline Hook" \/ (event = "Note Hook" /\ config.commands)

\* The payload is parsed, and its project known from then on.
Handle(r) ==
    /\ AtStep(r, "handle")
    /\ LET d == requests[r].delivery IN
       CASE ~Authenticate(d) -> Answer(r, 401) /\ Log("warn", "webhook")
         [] Authenticate(d) /\ ~Routed(d.event) -> Answer(r, 200) /\ UNCHANGED logs
         [] Authenticate(d) /\ Routed(d.event) /\ d.malformed -> Answer(r, 400) /\ Log("warn", "webhook")
         [] OTHER ->
              /\ requests' = [requests EXCEPT ![r] =
                    [@ EXCEPT !.project = d.project, !.step = IF d.user > 0 THEN "user" ELSE "filter"]]
              /\ UNCHANGED logs
    /\ UNCHANGED <<processVars, serverVars, depth, warned, users, mu, gauge, calls>>

\* Mutant: the set of users is not locked.
LockUsersFree(r) ==
    /\ AtStep(r, "user")
    /\ users' = users \cup {requests[r].delivery.user}
    /\ requests' = [requests EXCEPT ![r] = [@ EXCEPT !.step = "gauge", !.size = Cardinality(users')]]
    /\ UNCHANGED <<processVars, serverVars, depth, warned, mu, gauge, calls, logs>>

\* RecordUser: under the lock, a new user is added and the set measured, ...
LockUsers(r) ==
    /\ AtStep(r, "user")
    /\ mu = Nobody
    /\ IF requests[r].delivery.user \in users
       THEN GoOn(r, "filter") /\ UNCHANGED <<users, mu>>
       ELSE /\ mu' = r
            /\ users' = users \cup {requests[r].delivery.user}
            /\ requests' = [requests EXCEPT ![r] = [@ EXCEPT !.step = "gauge", !.size = Cardinality(users')]]
    /\ UNCHANGED <<processVars, serverVars, depth, warned, gauge, calls, logs>>

\* ... the gauge is set, and the lock released.
SetGauge(r) ==
    /\ AtStep(r, "gauge")
    /\ gauge' = requests[r].size
    /\ mu' = Nobody
    /\ GoOn(r, "filter")
    /\ UNCHANGED <<processVars, serverVars, depth, warned, users, calls, logs>>

WarnAt == (QueueSize * 80 + 99) \div 100

\* Mutant: one event more than the queue holds is taken.
FullOneLate == depth > QueueSize

Full == depth = QueueSize

\* The delivery calls for work or not; Enqueue as one step
Enqueue(r) ==
    /\ AtStep(r, "filter")
    /\ CASE ~requests[r].delivery.work -> Answer(r, 200) /\ UNCHANGED <<depth, warned, logs>>
         [] requests[r].delivery.work /\ Full ->
               Answer(r, 503) /\ Log("error", "webhook") /\ UNCHANGED <<depth, warned>>
         [] OTHER ->
               /\ Answer(r, 200)
               /\ depth' = depth + 1
               /\ warned' = (depth' >= WarnAt)
               /\ IF warned' /\ ~warned THEN Log("warn", "queue") ELSE UNCHANGED logs
    /\ UNCHANGED <<processVars, serverVars, users, mu, gauge, calls>>

\* Mutant: the arguments of the deferred call are evaluated when it is deferred.
RecordAsDeferred(r) ==
    /\ AtStep(r, "record")
    /\ calls' = calls (+) SetToBag({<<0, 200>>})
    /\ GoOn(r, "done")
    /\ UNCHANGED <<processVars, serverVars, depth, warned, users, mu, gauge, logs>>

\* RecordWebhook, deferred to the end of the handler
Record(r) ==
    /\ AtStep(r, "record")
    /\ calls' = calls (+) SetToBag({<<requests[r].project, requests[r].status>>})
    /\ GoOn(r, "done")
    /\ UNCHANGED <<processVars, serverVars, depth, warned, users, mu, gauge, logs>>

\* The worker takes an event.
Take ==
    /\ pc # "exited" /\ depth > 0
    /\ depth' = depth - 1
    /\ UNCHANGED <<processVars, serverVars, requests, warned, metricVars>>

-----------------------------------------------------------------------------
(* The specification *)

Init ==
    /\ given \in Given
    /\ pc = "resolve" /\ config = <<>> /\ cancelled = FALSE
    /\ server = [s \in Servers |-> "off"] /\ errCh = <<>> /\ collected = 0
    /\ requests = [r \in Requests |-> Waiting]
    /\ depth = 0 /\ warned = FALSE
    /\ users = {} /\ mu = Nobody /\ gauge = 0
    /\ calls = EmptyBag /\ logs = EmptyBag

Main == Resolve \/ LoadConfig \/ BuildAuthenticator \/ Collect

Next ==
    \/ Main \/ CurrentUser \/ Cancel \/ Take
    \/ \E s \in Servers : Listen(s) \/ ShutDown(s)
    \/ \E r \in Requests :
          Receive(r) \/ Handle(r) \/ LockUsers(r) \/ SetGauge(r) \/ Enqueue(r) \/ Record(r)

\* serve and fiber go on; of GitLab's answer nothing is assumed, so that only
\* a signal is sure to end the wait for it.
FairSpec ==
    /\ Init /\ [][Next]_vars
    /\ WF_vars(Main) /\ WF_vars(CurrentUser /\ cancelled)
    /\ \A s \in Servers : WF_vars(Listen(s)) /\ WF_vars(ShutDown(s))

-----------------------------------------------------------------------------
(* Properties *)

Counted(label, counter) == IF label \in DOMAIN counter THEN counter[label] ELSE 0
Done == {r \in Requests : requests[r].step = "done"}

ServeTypeOK ==
    /\ given \in Given /\ cancelled \in BOOLEAN
    /\ pc \in {"resolve", "load", "bot user", "authenticator", "collect", "exited"}
    /\ server \in [Servers -> {"off", "starting", "listening", "stopped", "failed"}]
    /\ collected + Len(errCh) = Cardinality({s \in Servers : server[s] \in {"stopped", "failed"}})
    /\ depth \in 0..QueueSize /\ warned \in BOOLEAN
    /\ users \subseteq {d.user : d \in Deliveries} /\ mu \in Requests \cup {Nobody}
    /\ BagToSet(calls) \subseteq ({0} \cup {d.project : d \in Deliveries}) \X {200, 400, 401, 503}
    /\ BagToSet(logs) \subseteq {"warn", "error"} \X {"webhook", "queue"}

\* Each request that reached the handler and was answered is counted once,
\* under the status it was answered with, and under its project unless its
\* payload was never read; of the requests that fiber refused none is counted.
CallsCounted ==
    LET label(r) == LET d == requests[r].delivery
                        unread == requests[r].status \in {400, 401} \/ ~Routed(d.event)
                    IN  <<IF unread THEN 0 ELSE d.project, requests[r].status>>
        counted == BagToSet(calls) \cup {label(r) : r \in Done}
    IN  \A l \in counted : Counted(l, calls) = Cardinality({r \in Done : label(r) = l})

\* Whenever nobody holds the lock, the gauge is the number of users seen, and
\* the users of all requests that got past it are among them.
GaugeMatchesUsers ==
    mu = Nobody =>
        /\ gauge = Cardinality(users)
        /\ \A r \in Requests : requests[r].step = "filter" =>
              requests[r].delivery.user \in users \cup {0}

\* telemetry/logcore.go: the counters tell what the bot experienced, whatever
\* the operator chose to print: a warning per request refused, an error per
\* event dropped.
WarningsCounted ==
    LET answered(codes) == Cardinality({r \in Requests :
                              requests[r].step \in {"record", "done"} /\ requests[r].status \in codes})
    IN  /\ Counted(<<"warn", "webhook">>, logs) = answered({400, 401})
        /\ Counted(<<"error", "webhook">>, logs) = answered({503})

\* A server that listens has what the requests and the worker will need: the
\* credential its method checks, the key and the chart format of the commands,
\* thresholds in their ranges, and the flags as they were set.
ListensOnlyWhenReady ==
    server["webhook"] = "listening" =>
        /\ \A ts \in DOMAIN Seconds : Seconds[ts] = 0 =>
              Authenticate([token |-> given.secrets.webhook,
                 signed |-> [id |-> "id", ts |-> ts, body |-> "b",
                    signatures |-> <<MAC(IF given.secrets.signing \in DOMAIN Keys
                                         THEN Keys[given.secrets.signing] ELSE "none", "id", ts, "b")>>]])
        /\ config.commands => given.secrets.commands # "" /\ config.format \in {"png", "svg", "markdown"}
        /\ config.limits \in Thresholds /\ config.limits.longJob > 0 /\ config.limits.memory # 0
        /\ \A key \in DOMAIN given.flags \cap {"report.memory_pressure_ratio"} :
              config.limits.memory = Floats[given.flags[key]]

\* Once a signal is received, or one server fails, the process ends, also
\* while it waits for GitLab at its start.
StopsWhenTold == (cancelled \/ \E s \in Servers : server[s] = "failed") ~> pc = "exited"
=============================================================================
