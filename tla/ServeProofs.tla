---------------------------- MODULE ServeProofs ----------------------------
(***************************************************************************)
(* Proofs about Serve, for every number of requests and any deliveries,    *)
(* configurations and queue sizes: cigar_users_active, what the other      *)
(* counters of the telemetry count, and what a server that listens has.    *)
(***************************************************************************)
EXTENDS Serve, FiniteSetTheorems, SequenceTheorems, TLAPS

\* What a request that was received looks like
Steps == {"refused", "handle", "user", "gauge", "filter", "record", "done"}
Projects == {0} \cup {d.project : d \in Deliveries}
Statuses == {0, 200, 400, 401, 413, 503}
Received == [step : Steps, delivery : Deliveries, project : Projects, status : Statuses, size : Nat]

RequestsOK == requests \in [Requests -> {Waiting} \cup Received]

\* The lock is held exactly by the request that is about to set the gauge,
\* and it holds the size of the set of users.
LockOK ==
    /\ mu \in Requests \cup {Nobody}
    /\ mu # Nobody => requests[mu].step = "gauge" /\ requests[mu].size = Cardinality(users)
    /\ \A r \in Requests : requests[r].step = "gauge" => mu = r

\* A request that got past RecordUser has its user in the set.
UsersOK ==
    /\ IsFiniteSet(users)
    /\ mu = Nobody => gauge = Cardinality(users)
    /\ \A r \in Requests :
          /\ requests[r].step = "gauge" => requests[r].delivery.user \in users
          /\ requests[r].step = "filter" => requests[r].delivery.user \in users \cup {0}

\* The inductive invariant: GaugeMatchesUsers alone does not say what the
\* holder of the lock is about to write.
GaugeInvariant == RequestsOK /\ LockOK /\ UsersOK

-----------------------------------------------------------------------------
(* The steps *)

\* A request moves between steps that have nothing to do with the lock.
LEMMA MovesElsewhere ==
    ASSUME GaugeInvariant, NEW r \in Requests, NEW rec \in Received,
           requests' = [requests EXCEPT ![r] = rec],
           requests[r].step # "gauge", rec.step # "gauge",
           rec.step = "filter" => rec.delivery.user \in users \cup {0},
           UNCHANGED <<users, mu, gauge>>
    PROVE  GaugeInvariant'
<1>1. requests' \in [Requests -> {Waiting} \cup Received]
    BY DEF GaugeInvariant, RequestsOK
<1>2. requests'[r] = rec /\ \A s \in Requests \ {r} : requests'[s] = requests[s]
    BY DEF GaugeInvariant, RequestsOK
<1>3. LockOK'
    <2>1. mu # Nobody => mu # r /\ mu \in Requests
        BY DEF GaugeInvariant, LockOK
    <2> QED
        BY <1>2, <2>1 DEF GaugeInvariant, LockOK
<1>4. UsersOK'
    BY <1>2 DEF GaugeInvariant, UsersOK
<1> QED
    BY <1>1, <1>3, <1>4 DEF GaugeInvariant, RequestsOK

\* A request at a step after its reception is a record of a received one.
LEMMA AtAStep ==
    ASSUME RequestsOK, NEW r \in Requests, requests[r].step # "none"
    PROVE  requests[r] \in Received
BY DEF RequestsOK, Waiting

\* An answer leads to the recording of the call.
LEMMA AnswerKeeps ==
    ASSUME GaugeInvariant, NEW r \in Requests, NEW status \in {200, 400, 401, 503},
           requests[r].step \in {"handle", "filter"}, Answer(r, status),
           UNCHANGED <<users, mu, gauge>>
    PROVE  GaugeInvariant'
<1> DEFINE rec == [requests[r] EXCEPT !.status = status, !.step = "record"]
<1>1. requests[r] \in Received
    BY AtAStep DEF GaugeInvariant
<1>2. status \in Statuses /\ "record" \in Steps
    BY DEF Statuses, Steps
<1>3. rec \in Received /\ rec.step = "record"
    BY <1>1, <1>2 DEF Received
<1>4. requests' = [requests EXCEPT ![r] = rec]
    BY DEF Answer, GaugeInvariant, RequestsOK
<1> HIDE DEF rec
<1>5. requests[r].step # "gauge" /\ rec.step # "gauge" /\ rec.step # "filter"
    BY <1>3
<1> QED
    BY <1>3, <1>4, <1>5, MovesElsewhere

\* A request is received, or refused for its size.
LEMMA Reception ==
    ASSUME NEW r \in Requests, Receive(r)
    PROVE  \E rec \in Received :
              /\ requests' = [requests EXCEPT ![r] = rec]
              /\ rec.step \in {"handle", "refused"} /\ rec.project = 0
<1>1. PICK d \in Deliveries :
         requests' = [requests EXCEPT ![r] = IF d.oversize THEN TooLarge(d) ELSE Request(d)]
    BY DEF Receive
<1>2. Request(d) \in Received /\ Request(d).step = "handle" /\ Request(d).project = 0
    BY DEF Request, Received, Steps, Projects, Statuses
<1>3. TooLarge(d) \in Received /\ TooLarge(d).step = "refused" /\ TooLarge(d).project = 0
    BY DEF TooLarge, Received, Steps, Projects, Statuses
<1>4. CASE d.oversize
    BY <1>1, <1>3, <1>4
<1>5. CASE ~d.oversize
    BY <1>1, <1>2, <1>5
<1> QED
    BY <1>4, <1>5

LEMMA ReceiveKeeps ==
    ASSUME GaugeInvariant, NEW r \in Requests, Receive(r)
    PROVE  GaugeInvariant'
<1>1. PICK rec \in Received :
         requests' = [requests EXCEPT ![r] = rec] /\ rec.step \in {"handle", "refused"}
    BY Reception
<1>2. requests[r].step = "none" /\ UNCHANGED <<users, mu, gauge>>
    BY DEF Receive, AtStep, metricVars
<1> QED
    BY <1>1, <1>2, MovesElsewhere

\* A request is handled up to its user.
LEMMA HandleKeeps ==
    ASSUME GaugeInvariant, NEW r \in Requests, Handle(r)
    PROVE  GaugeInvariant'
<1> DEFINE d == requests[r].delivery
<1> DEFINE rec == [requests[r] EXCEPT !.project = d.project,
                                      !.step = IF d.user > 0 THEN "user" ELSE "filter"]
<1>1. requests[r].step = "handle" /\ UNCHANGED <<users, mu, gauge>>
    BY DEF Handle, AtStep
<1>2. requests[r] \in Received /\ d \in Deliveries
    BY <1>1, AtAStep DEF GaugeInvariant, Received
<1>3. \/ \E status \in {200, 400, 401} : Answer(r, status)
      \/ requests' = [requests EXCEPT ![r] = rec]
    <2>1. CASE ~Authenticate(d)
        BY <2>1 DEF Handle
    <2>2. CASE Authenticate(d) /\ ~Routed(d.event)
        BY <2>2 DEF Handle
    <2>3. CASE Authenticate(d) /\ Routed(d.event) /\ d.malformed
        BY <2>3 DEF Handle
    <2>4. CASE Authenticate(d) /\ Routed(d.event) /\ ~d.malformed
        BY <2>4 DEF Handle
    <2> QED
        BY <2>1, <2>2, <2>3, <2>4
<1>4. CASE \E status \in {200, 400, 401} : Answer(r, status)
    BY <1>1, <1>4, AnswerKeeps
<1>5. CASE requests' = [requests EXCEPT ![r] = rec]
    <2>1. rec \in Received /\ rec.delivery = d /\ rec.step = (IF d.user > 0 THEN "user" ELSE "filter")
        <3> DEFINE step == IF d.user > 0 THEN "user" ELSE "filter"
        <3>1. step \in Steps /\ d.project \in Projects
            BY <1>2 DEF Steps, Projects
        <3> HIDE DEF step
        <3>2. [requests[r] EXCEPT !.project = d.project, !.step = step] \in Received
            BY <1>2, <3>1 DEF Received
        <3>3. /\ [requests[r] EXCEPT !.project = d.project, !.step = step].delivery = d
              /\ [requests[r] EXCEPT !.project = d.project, !.step = step].step = step
            BY <1>2 DEF Received
        <3> QED
            BY <3>2, <3>3 DEF step
    <2>3. d.user \in Nat
        BY <1>2, DeliveriesAssumption
    <2>4. rec.step # "gauge"
        BY <2>1
    <2>5. rec.step = "filter" => rec.delivery.user \in users \cup {0}
        <3>1. rec.step = "filter" => ~(d.user > 0)
            BY <2>1
        <3>2. ~(d.user > 0) => d.user = 0
            BY <2>3, SMT
        <3> QED
            BY <2>1, <3>1, <3>2
    <2> HIDE DEF rec
    <2> QED
        BY <1>1, <1>5, <2>1, <2>4, <2>5, MovesElsewhere
<1> QED
    BY <1>3, <1>4, <1>5

\* The lock is taken for a new user only; an old one needs no gauge.
LEMMA LockUsersKeeps ==
    ASSUME GaugeInvariant, NEW r \in Requests, LockUsers(r)
    PROVE  GaugeInvariant'
<1> DEFINE user == requests[r].delivery.user
<1>1. requests[r].step = "user" /\ mu = Nobody /\ UNCHANGED gauge
    BY DEF LockUsers, AtStep
<1>2. requests[r] \in Received
    BY <1>1, AtAStep DEF GaugeInvariant
<1>3. CASE user \in users
    <2> DEFINE rec == [requests[r] EXCEPT !.step = "filter"]
    <2>1. rec \in Received /\ rec.step = "filter" /\ rec.delivery.user = user
        BY <1>2 DEF Received, Steps
    <2>2. requests' = [requests EXCEPT ![r] = rec] /\ UNCHANGED <<users, mu, gauge>>
        BY <1>3 DEF LockUsers, GoOn, GaugeInvariant, RequestsOK
    <2> HIDE DEF rec
    <2> QED
        BY <1>1, <1>3, <2>1, <2>2, MovesElsewhere
<1>4. CASE user \notin users
    <2> DEFINE rec == [requests[r] EXCEPT !.step = "gauge", !.size = Cardinality(users')]
    <2>1. mu' = r /\ users' = users \cup {user} /\ requests' = [requests EXCEPT ![r] = rec]
        BY <1>4 DEF LockUsers, GaugeInvariant, RequestsOK
    <2>2. IsFiniteSet(users')
        BY <2>1, FS_AddElement DEF GaugeInvariant, UsersOK
    <2>3. Cardinality(users') \in Nat
        BY <2>2, FS_CardinalityType
    <2>4. rec \in Received /\ rec.step = "gauge" /\ rec.size = Cardinality(users') /\ rec.delivery.user = user
        BY <1>2, <2>3 DEF Received, Steps
    <2> HIDE DEF rec
    <2>5. requests' \in [Requests -> {Waiting} \cup Received]
        BY <2>1, <2>4 DEF GaugeInvariant, RequestsOK
    <2>6. requests'[r] = rec /\ \A s \in Requests \ {r} : requests'[s] = requests[s]
        BY <2>1 DEF GaugeInvariant, RequestsOK
    <2>7. \A s \in Requests : requests[s].step # "gauge"
        BY <1>1, NobodyAssumption DEF GaugeInvariant, LockOK
    <2>8. LockOK'
        BY <2>1, <2>4, <2>6, <2>7 DEF LockOK
    <2>9. UsersOK'
        <3>1. mu' # Nobody
            BY <2>1, NobodyAssumption
        <3> QED
            BY <2>1, <2>2, <2>4, <2>6, <3>1 DEF GaugeInvariant, UsersOK
    <2> QED
        BY <2>5, <2>8, <2>9 DEF GaugeInvariant, RequestsOK
<1> QED
    BY <1>3, <1>4

\* The gauge is set to the size read under the lock, which is then released.
LEMMA SetGaugeKeeps ==
    ASSUME GaugeInvariant, NEW r \in Requests, SetGauge(r)
    PROVE  GaugeInvariant'
<1> DEFINE rec == [requests[r] EXCEPT !.step = "filter"]
<1>1. /\ requests[r].step = "gauge" /\ mu' = Nobody /\ gauge' = requests[r].size
      /\ users' = users
    BY DEF SetGauge, AtStep
<1>2. mu = r /\ r # Nobody
    BY <1>1, NobodyAssumption DEF GaugeInvariant, LockOK
<1>3. gauge' = Cardinality(users')
    BY <1>1, <1>2 DEF GaugeInvariant, LockOK
<1>4. requests[r] \in Received
    BY <1>1, AtAStep DEF GaugeInvariant
<1>5. rec \in Received /\ rec.step = "filter" /\ rec.delivery = requests[r].delivery
    BY <1>4 DEF Received, Steps
<1>6. requests' = [requests EXCEPT ![r] = rec]
    BY DEF SetGauge, GoOn, GaugeInvariant, RequestsOK
<1> HIDE DEF rec
<1>7. requests' \in [Requests -> {Waiting} \cup Received]
    BY <1>5, <1>6 DEF GaugeInvariant, RequestsOK
<1>8. requests'[r] = rec /\ \A s \in Requests \ {r} : requests'[s] = requests[s]
    BY <1>6 DEF GaugeInvariant, RequestsOK
<1>9. \A s \in Requests \ {r} : requests[s].step # "gauge"
    BY <1>2 DEF GaugeInvariant, LockOK
<1>10. LockOK'
    BY <1>1, <1>5, <1>8, <1>9 DEF LockOK
<1>11. UsersOK'
    BY <1>1, <1>3, <1>5, <1>8 DEF GaugeInvariant, UsersOK
<1> QED
    BY <1>7, <1>10, <1>11 DEF GaugeInvariant, RequestsOK

\* The delivery is queued, or dropped, or asks for nothing.
LEMMA EnqueueKeeps ==
    ASSUME GaugeInvariant, NEW r \in Requests, Enqueue(r)
    PROVE  GaugeInvariant'
<1>1. requests[r].step = "filter" /\ UNCHANGED <<users, mu, gauge>>
    BY DEF Enqueue, AtStep
<1>2. \E status \in {200, 503} : Answer(r, status)
    <2>1. CASE ~requests[r].delivery.work
        BY <2>1 DEF Enqueue
    <2>2. CASE requests[r].delivery.work /\ Full
        BY <2>2 DEF Enqueue
    <2>3. CASE requests[r].delivery.work /\ ~Full
        BY <2>3 DEF Enqueue
    <2> QED
        BY <2>1, <2>2, <2>3
<1> QED
    BY <1>1, <1>2, AnswerKeeps

\* The call is recorded.
LEMMA RecordKeeps ==
    ASSUME GaugeInvariant, NEW r \in Requests, Record(r)
    PROVE  GaugeInvariant'
<1> DEFINE rec == [requests[r] EXCEPT !.step = "done"]
<1>1. requests[r].step = "record" /\ UNCHANGED <<users, mu, gauge>>
    BY DEF Record, AtStep
<1>2. requests[r] \in Received
    BY <1>1, AtAStep DEF GaugeInvariant
<1>3. rec \in Received /\ rec.step = "done"
    BY <1>2 DEF Received, Steps
<1>4. requests' = [requests EXCEPT ![r] = rec]
    BY DEF Record, GoOn, GaugeInvariant, RequestsOK
<1> HIDE DEF rec
<1> QED
    BY <1>1, <1>3, <1>4, MovesElsewhere

-----------------------------------------------------------------------------
(* The theorem *)

\* Nothing else touches the requests or the users.
LEMMA OthersKeep ==
    ASSUME GaugeInvariant, UNCHANGED <<requests, users, mu, gauge>>
    PROVE  GaugeInvariant'
BY DEF GaugeInvariant, RequestsOK, LockOK, UsersOK

LEMMA GaugeInit == Init => GaugeInvariant
<1> SUFFICES ASSUME Init PROVE GaugeInvariant
    OBVIOUS
<1>1. \A r \in Requests : requests[r] = Waiting /\ requests[r].step = "none"
    BY DEF Init, Waiting
<1>2. RequestsOK
    BY DEF Init, RequestsOK
<1>3. LockOK
    BY <1>1 DEF Init, LockOK
<1>4. UsersOK
    BY <1>1, FS_EmptySet DEF Init, UsersOK
<1> QED
    BY <1>2, <1>3, <1>4 DEF GaugeInvariant

LEMMA GaugeStep == GaugeInvariant /\ [Next]_vars => GaugeInvariant'
<1> SUFFICES ASSUME GaugeInvariant, [Next]_vars PROVE GaugeInvariant'
    OBVIOUS
<1>1. CASE Main \/ CurrentUser \/ Cancel \/ Take
    BY <1>1, OthersKeep
    DEF Main, Resolve, LoadConfig, BuildAuthenticator, Collect, CurrentUser, Cancel, Take, metricVars
<1>2. CASE \E s \in Servers : Listen(s) \/ ShutDown(s)
    BY <1>2, OthersKeep DEF Listen, ShutDown, metricVars
<1>3. CASE \E r \in Requests :
              Receive(r) \/ Handle(r) \/ LockUsers(r) \/ SetGauge(r) \/ Enqueue(r) \/ Record(r)
    BY <1>3, ReceiveKeeps, HandleKeeps, LockUsersKeeps, SetGaugeKeeps, EnqueueKeeps, RecordKeeps
<1>4. CASE UNCHANGED vars
    BY <1>4, OthersKeep DEF vars, metricVars
<1> QED
    BY <1>1, <1>2, <1>3, <1>4 DEF Next

\* Once every recorder has released the lock, cigar_users_active is the number
\* of distinct users of the deliveries recorded, however the requests interleave.
THEOREM GaugeCorrect == FairSpec => []GaugeMatchesUsers
<1>1. GaugeInvariant => GaugeMatchesUsers
    BY DEF GaugeInvariant, UsersOK, GaugeMatchesUsers
<1> QED
    BY <1>1, GaugeInit, GaugeStep, PTL DEF FairSpec

-----------------------------------------------------------------------------
(* The life of the process *)

\* What LoadConfig has checked when it goes on
Loaded ==
    /\ config = Load(given)
    /\ LoadErrors(given) = {}
    /\ config.commands => given.secrets.commands # ""

Early == {"resolve", "load", "bot user", "authenticator"}
States == {"off", "starting", "listening", "stopped", "failed"}
Ended == {s \in Servers : server[s] \in {"stopped", "failed"}}

\* Until the authenticator is built no server runs and no request is there;
\* from then on the configuration is the one that was checked.
LifeOK ==
    /\ given \in Given /\ cancelled \in BOOLEAN
    /\ pc \in Early \cup {"collect", "exited"}
    /\ server \in [Servers -> States]
    /\ pc \in Early => \A s \in Servers : server[s] = "off"
    /\ pc \in Early => \A r \in Requests : requests[r].step = "none"
    /\ pc \in {"bot user", "authenticator", "collect"} => Loaded
    /\ \A s \in Servers : server[s] # "off" => Loaded /\ HasCredential

\* Each server that ended has its result in errCh, or it was collected.
ResultsOK ==
    /\ errCh \in Seq({"nil", "error"}) /\ collected \in Nat
    /\ collected + Len(errCh) = Cardinality(Ended)

LEMMA EndedFinite == IsFiniteSet(Ended)
<1>1. IsFiniteSet({"webhook"} \cup {"ops"})
    BY FS_Singleton, FS_AddElement
<1>2. Servers = {"webhook"} \cup {"ops"}
    BY DEF Servers
<1> QED
    BY <1>1, <1>2, FS_Subset DEF Ended

\* A server that ended hands in one result.
LEMMA ReturnsOne ==
    ASSUME LifeOK, ResultsOK, NEW s \in Servers, server[s] \in {"starting", "listening"},
           NEW state \in {"stopped", "failed"}, NEW result \in {"nil", "error"},
           Returns(s, state, result), UNCHANGED collected
    PROVE  ResultsOK'
<1>1. server' = [server EXCEPT ![s] = state] /\ errCh' = Append(errCh, result)
    BY DEF Returns
<1>2. server'[s] = state /\ \A u \in Servers : u # s => server'[u] = server[u]
    BY <1>1 DEF LifeOK
<1>3. Ended' = Ended \cup {s} /\ s \notin Ended
    BY <1>2 DEF Ended
<1>4. Cardinality(Ended') = Cardinality(Ended) + 1 /\ Cardinality(Ended) \in Nat
    BY <1>3, EndedFinite, FS_AddElement, FS_CardinalityType
<1>5. errCh' \in Seq({"nil", "error"}) /\ Len(errCh') = Len(errCh) + 1 /\ Len(errCh) \in Nat
    BY <1>1, AppendProperties, LenProperties DEF ResultsOK
<1> QED
    BY <1>4, <1>5 DEF ResultsOK

\* The servers run in serve only, and a request needs one that listens.
LEMMA LifeStep ==
    ASSUME LifeOK, ResultsOK, RequestsOK, [Next]_vars
    PROVE  LifeOK' /\ ResultsOK'
<1> USE DEF processVars, serverVars
<1>1. CASE Resolve
    <2>1. pc = "resolve" /\ pc' \in {"load", "exited"}
          /\ UNCHANGED <<given, config, cancelled, server, errCh, collected, requests>>
        BY <1>1 DEF Resolve, Exit
    <2>2. LifeOK'
        BY <2>1 DEF LifeOK, Early, Loaded, HasCredential
    <2>3. ResultsOK'
        BY <2>1 DEF ResultsOK, Ended
    <2> QED
        BY <2>2, <2>3
<1>2. CASE LoadConfig
    <2>1. pc = "load" /\ UNCHANGED <<given, cancelled, server, errCh, collected, requests>>
        BY <1>2 DEF LoadConfig
    <2>2. pc' \in {"bot user", "authenticator", "exited"}
        BY <1>2 DEF LoadConfig, Exit
    <2>3. pc' \in {"bot user", "authenticator", "collect"} => Loaded'
        BY <1>2, <2>1 DEF LoadConfig, Exit, Loaded
    <2>4. \A s \in Servers : server[s] = "off"
        BY <2>1 DEF LifeOK, Early
    <2>5. LifeOK'
        BY <2>1, <2>2, <2>3, <2>4 DEF LifeOK, Early
    <2>6. ResultsOK'
        BY <2>1 DEF ResultsOK, Ended
    <2> QED
        BY <2>5, <2>6
<1>3. CASE CurrentUser
    <2>1. pc = "bot user" /\ pc' \in {"authenticator", "exited"}
          /\ UNCHANGED <<given, config, cancelled, server, errCh, collected, requests>>
        BY <1>3 DEF CurrentUser, Exit
    <2>2. LifeOK'
        BY <2>1 DEF LifeOK, Early, Loaded, HasCredential
    <2>3. ResultsOK'
        BY <2>1 DEF ResultsOK, Ended
    <2> QED
        BY <2>2, <2>3
<1>4. CASE BuildAuthenticator
    <2>1. pc = "authenticator" /\ UNCHANGED <<given, config, cancelled, errCh, collected, requests>>
        BY <1>4 DEF BuildAuthenticator
    <2>2. CASE HasCredential
        <3>1. pc' = "collect" /\ server' = [s \in Servers |-> "starting"]
            BY <1>4, <2>2 DEF BuildAuthenticator
        <3>2. Loaded /\ Loaded' /\ HasCredential'
            BY <2>1, <2>2 DEF LifeOK, Loaded, HasCredential
        <3>3. LifeOK'
            BY <2>1, <3>1, <3>2 DEF LifeOK, Early, States
        <3>4. Ended = {} /\ Ended' = {}
            BY <2>1, <3>1 DEF Ended, LifeOK, Early
        <3> QED
            BY <2>1, <3>3, <3>4 DEF ResultsOK
    <2>3. CASE ~HasCredential
        <3>1. pc' = "exited" /\ server' = server
            BY <1>4, <2>3 DEF BuildAuthenticator, Exit
        <3>2. LifeOK'
            BY <2>1, <3>1 DEF LifeOK, Early, Loaded, HasCredential
        <3> QED
            BY <2>1, <3>1, <3>2 DEF ResultsOK, Ended
    <2> QED
        BY <2>2, <2>3
<1>5. CASE Collect
    <2>1. pc = "collect" /\ pc' \in {"collect", "exited"} /\ errCh # <<>>
          /\ errCh' = Tail(errCh) /\ collected' = collected + 1
          /\ UNCHANGED <<given, config, cancelled, server, requests>>
        BY <1>5 DEF Collect, Exit
    <2>2. LifeOK'
        BY <2>1 DEF LifeOK, Early, Loaded, HasCredential
    <2>3. Len(errCh) \in Nat /\ errCh' \in Seq({"nil", "error"}) /\ Len(errCh') = Len(errCh) - 1
        BY <2>1, HeadTailProperties, LenProperties DEF ResultsOK
    <2>4. ResultsOK'
        BY <2>1, <2>3 DEF ResultsOK, Ended
    <2> QED
        BY <2>2, <2>4
<1>6. CASE Cancel
    <2>1. cancelled' = TRUE /\ UNCHANGED <<given, pc, config, server, errCh, collected, requests>>
        BY <1>6 DEF Cancel
    <2>2. LifeOK'
        BY <2>1 DEF LifeOK, Early, Loaded, HasCredential
    <2> QED
        BY <2>1, <2>2 DEF ResultsOK, Ended
<1>7. ASSUME NEW s \in Servers, Listen(s) \/ ShutDown(s) PROVE LifeOK' /\ ResultsOK'
    <2>1. pc = "collect" /\ server[s] \in {"starting", "listening"}
          /\ UNCHANGED <<given, pc, config, cancelled, collected, requests>>
        BY <1>7 DEF Listen, ShutDown
    <2>2. PICK state \in {"listening", "stopped", "failed"} : server' = [server EXCEPT ![s] = state]
        BY <1>7 DEF Listen, ShutDown, Returns
    <2>3. Loaded /\ HasCredential /\ Loaded' /\ HasCredential'
        BY <2>1 DEF LifeOK, Loaded, HasCredential
    <2>4. server' \in [Servers -> States]
        BY <2>2 DEF LifeOK, States
    <2>5. LifeOK'
        BY <2>1, <2>3, <2>4 DEF LifeOK, Early
    <2>6. \/ \E state2 \in {"stopped", "failed"}, result \in {"nil", "error"} : Returns(s, state2, result)
          \/ server' = [server EXCEPT ![s] = "listening"] /\ UNCHANGED errCh
        BY <1>7 DEF Listen, ShutDown
    <2>7. ASSUME server' = [server EXCEPT ![s] = "listening"], UNCHANGED errCh PROVE ResultsOK'
        <3>1. \A u \in Servers : server'[u] = IF u = s THEN "listening" ELSE server[u]
            BY <2>7 DEF LifeOK
        <3>2. Ended' = Ended
            BY <2>1, <3>1 DEF Ended
        <3> QED
            BY <2>1, <2>7, <3>2 DEF ResultsOK
    <2> QED
        BY <2>1, <2>5, <2>6, <2>7, ReturnsOne
<1>8. ASSUME NEW r \in Requests,
             Receive(r) \/ Handle(r) \/ LockUsers(r) \/ SetGauge(r) \/ Enqueue(r) \/ Record(r)
      PROVE  LifeOK' /\ ResultsOK'
    <2>1. UNCHANGED <<given, pc, config, cancelled, server, errCh, collected>>
        BY <1>8 DEF Receive, Handle, LockUsers, SetGauge, Enqueue, Record
    <2>2. requests[r].step # "none" \/ server["webhook"] = "listening"
        BY <1>8 DEF Receive, Handle, LockUsers, SetGauge, Enqueue, Record, AtStep
    <2>3. pc \notin Early
        BY <2>2 DEF LifeOK, Servers
    <2>4. LifeOK'
        BY <2>1, <2>3 DEF LifeOK, Loaded, HasCredential
    <2> QED
        BY <2>1, <2>4 DEF ResultsOK, Ended
<1>9. CASE Take \/ UNCHANGED vars
    <2>1. UNCHANGED <<given, pc, config, cancelled, server, errCh, collected, requests>>
        BY <1>9 DEF Take, vars
    <2>2. LifeOK'
        BY <2>1 DEF LifeOK, Loaded, HasCredential
    <2> QED
        BY <2>1, <2>2 DEF ResultsOK, Ended
<1> QED
    BY <1>1, <1>2, <1>3, <1>4, <1>5, <1>6, <1>7, <1>8, <1>9 DEF Next, Main

LEMMA LifeInit == Init => LifeOK /\ ResultsOK /\ GaugeInvariant
<1> SUFFICES ASSUME Init PROVE LifeOK /\ ResultsOK /\ GaugeInvariant
    OBVIOUS
<1>1. \A r \in Requests : requests[r] = Waiting /\ requests[r].step = "none"
    BY DEF Init, Waiting
<1>2. LifeOK
    BY <1>1 DEF Init, LifeOK, Early, States
<1>3. Ended = {} /\ Len(errCh) = 0 /\ errCh \in Seq({"nil", "error"}) /\ collected = 0
    BY DEF Init, Ended
<1>4. ResultsOK
    BY <1>3, FS_EmptySet DEF ResultsOK
<1> QED
    BY <1>2, <1>4, GaugeInit

-----------------------------------------------------------------------------
(* A server that listens is ready *)

\* A configuration that Load did not refuse passed each of its checks.
LEMMA LoadChecks ==
    ASSUME NEW g, LoadErrors(g) = {}
    PROVE  /\ RatioOK(GetString(g, "report.throttle_warn_ratio"), TRUE)
           /\ RatioOK(GetString(g, "report.memory_pressure_ratio"), FALSE)
           /\ DurationOK(GetString(g, "report.long_job_duration"))
           /\ ToLower(GetString(g, "commands.chart_format")) \in {"png", "svg", "markdown", "md"}
<1>1. Refused(g) = {}
    BY DEF LoadErrors
<1>2. \A i \in DOMAIN Checks(g) : Checks(g)[i][2]
    BY <1>1 DEF Refused
<1>3. DOMAIN Checks(g) = 1..8
    BY DEF Checks
<1>4. Checks(g)[1][2] /\ Checks(g)[2][2] /\ Checks(g)[4][2] /\ Checks(g)[8][2]
    BY <1>2, <1>3
<1> QED
    BY <1>4 DEF Checks

\* A ratio that is not refused is a percentage or NaN; the memory ratio is
\* not 0.
LEMMA RatiosAreRatios ==
    ASSUME NEW text, NEW allowZero \in BOOLEAN, RatioOK(text, allowZero)
    PROVE  Floats[text] \in Ratios /\ (~allowZero => Floats[text] # 0)
<1>1. text \in DOMAIN Floats /\ Floats[text] \in Int
    BY TextsAssumption DEF RatioOK
<1>2. ~Below(Floats[text], 0)
    BY DEF RatioOK
<1>3. allowZero \/ ~AtMost(Floats[text], 0)
    BY DEF RatioOK
<1>4. Floats[text] \in Ratios
    BY <1>1, <1>2 DEF Below, Ratios, NaN
<1> QED
    BY <1>1, <1>3, <1>4 DEF AtMost, NaN

\* The thresholds that are loaded are in their ranges.
LEMMA LimitsAreThresholds ==
    ASSUME NEW g, LoadErrors(g) = {}
    PROVE  /\ Load(g).limits \in Thresholds
           /\ Load(g).limits.longJob > 0 /\ Load(g).limits.memory # 0
<1> DEFINE throttle == Floats[GetString(g, "report.throttle_warn_ratio")]
           memory == Floats[GetString(g, "report.memory_pressure_ratio")]
           longJob == Durations[GetString(g, "report.long_job_duration")]
<1>1. throttle \in Ratios
    BY LoadChecks, RatiosAreRatios
<1>2. memory \in Ratios /\ memory # 0
    BY LoadChecks, RatiosAreRatios
<1>3. longJob \in Int /\ longJob > 0
    BY LoadChecks, TextsAssumption DEF DurationOK
<1>4. Load(g).limits = [throttle |-> throttle, longJob |-> longJob, memory |-> memory]
    BY DEF Load
<1> HIDE DEF throttle, memory, longJob
<1> QED
    BY <1>1, <1>2, <1>3, <1>4 DEF Thresholds

\* The credential that was looked for lets a request through that has it.
LEMMA CredentialLetsIn ==
    ASSUME HasCredential, NEW ts \in DOMAIN Seconds, Seconds[ts] = 0
    PROVE  Authenticate([token |-> given.secrets.webhook,
              signed |-> [id |-> "id", ts |-> ts, body |-> "b",
                 signatures |-> <<MAC(IF given.secrets.signing \in DOMAIN Keys
                                      THEN Keys[given.secrets.signing] ELSE "none", "id", ts, "b")>>]])
<1>1. CASE config.method = "secret"
    BY <1>1 DEF HasCredential, Authenticate, SecretMatches
<1>2. CASE config.method # "secret"
    <2>1. given.secrets.signing \in DOMAIN Keys
        BY <1>2 DEF HasCredential
    <2> DEFINE key == Keys[given.secrets.signing]
               mac == MAC(key, "id", ts, "b")
               r == [id |-> "id", ts |-> ts, body |-> "b", signatures |-> <<mac>>]
    <2>2. r.id # "" /\ r.ts # "" /\ r.ts \in DOMAIN Seconds /\ r.signatures # <<>>
        BY SecondsAssumption
    <2>3. Fresh(0, Seconds[r.ts])
        BY ToleranceAssumption DEF Fresh
    <2>4. 1 \in DOMAIN r.signatures /\ r.signatures[1] = MAC(key, r.id, r.ts, r.body)
        BY DEF MAC
    <2>5. SignatureMatches(key, 0, r)
        <3> HIDE DEF r, mac
        <3> QED
            BY <2>2, <2>3, <2>4 DEF SignatureMatches
    <2> QED
        BY <1>2, <2>1, <2>5 DEF Authenticate
<1> QED
    BY <1>1, <1>2

\* The life of the process, with what the requests are.
ProcessInvariant == GaugeInvariant /\ LifeOK /\ ResultsOK

LEMMA ProcessStep == ProcessInvariant /\ [Next]_vars => ProcessInvariant'
BY LifeStep, GaugeStep DEF ProcessInvariant, GaugeInvariant

\* Whatever the flags, the environment, the files and the secrets are, a server
\* that listens lets in who has its credential, can sign and draw what the
\* commands ask for, and measures with thresholds in their ranges, the flags'
\* where they were set.
THEOREM ListensReady == FairSpec => []ListensOnlyWhenReady
<1>1. ProcessInvariant => ListensOnlyWhenReady
    <2> SUFFICES ASSUME ProcessInvariant, server["webhook"] = "listening"
                 PROVE  ListensOnlyWhenReady
        BY DEF ListensOnlyWhenReady
    <2>1. Loaded /\ HasCredential
        BY DEF ProcessInvariant, LifeOK, Servers
    <2>2. Load(given).format \in {"png", "svg", "markdown"}
        BY <2>1, LoadChecks DEF Loaded, Load
    <2>3. config.commands => given.secrets.commands # "" /\ config.format \in {"png", "svg", "markdown"}
        BY <2>1, <2>2 DEF Loaded
    <2>4. config.limits \in Thresholds /\ config.limits.longJob > 0 /\ config.limits.memory # 0
        BY <2>1, LimitsAreThresholds DEF Loaded
    <2>5. ASSUME NEW key \in DOMAIN given.flags \cap {"report.memory_pressure_ratio"}
          PROVE  config.limits.memory = Floats[given.flags[key]]
        <3>1. GetString(given, "report.memory_pressure_ratio") = given.flags["report.memory_pressure_ratio"]
            BY <2>5 DEF GetString
        <3> QED
            BY <2>1, <2>5, <3>1 DEF Loaded, Load
    <2> QED
        BY <2>1, <2>3, <2>4, <2>5, CredentialLetsIn DEF ListensOnlyWhenReady
<1>2. Init => ProcessInvariant
    BY LifeInit DEF ProcessInvariant
<1> QED
    BY <1>1, <1>2, ProcessStep, PTL DEF FairSpec

-----------------------------------------------------------------------------
(* The counters *)

Plus(counter, e) == counter (+) SetToBag({e})

\* One more in a counter: of its own label only.
LEMMA OneMore ==
    ASSUME NEW counter, NEW e, NEW l, Counted(l, counter) \in Nat
    PROVE  Counted(l, Plus(counter, e)) = Counted(l, counter) + (IF l = e THEN 1 ELSE 0)
<1> DEFINE one == SetToBag({e})
           more == [x \in DOMAIN counter \cup DOMAIN one |->
                      (IF x \in DOMAIN counter THEN counter[x] ELSE 0)
                        + (IF x \in DOMAIN one THEN one[x] ELSE 0)]
<1>1. DOMAIN one = {e} /\ one[e] = 1
    BY DEF SetToBag
<1>2. Plus(counter, e) = more
    BY DEF Plus, (+)
<1>3. DOMAIN more = DOMAIN counter \cup {e}
    BY <1>1
<1>4. CASE l \in DOMAIN counter
    <2>1. Counted(l, counter) = counter[l] /\ l \in DOMAIN more
        BY <1>3, <1>4 DEF Counted
    <2>2. more[l] = counter[l] + (IF l = e THEN 1 ELSE 0)
        BY <1>1, <1>4
    <2> HIDE DEF more
    <2> QED
        BY <1>2, <2>1, <2>2 DEF Counted
<1>5. CASE l \notin DOMAIN counter
    <2>1. Counted(l, counter) = 0
        BY <1>5 DEF Counted
    <2>2. l = e => more[l] = 1
        BY <1>1, <1>5
    <2> HIDE DEF more
    <2> QED
        BY <1>2, <1>3, <1>5, <2>1, <2>2 DEF Counted
<1> QED
    BY <1>4, <1>5

\* The level of an entry that is counted is enabled, whatever is printed.
LEMMA WarningsEnabled == Enabled("warn") /\ Enabled("error")
<1>1. Rank["warn"] = 2 /\ Rank["error"] = 3
    BY DEF Rank, Levels
<1> QED
    BY <1>1 DEF Enabled

LEMMA LogAdds ==
    ASSUME NEW level \in {"warn", "error"}, NEW name, Log(level, name)
    PROVE  logs' = Plus(logs, <<level, name>>)
<1>1. Rank["warn"] = 2 /\ Rank["error"] = 3
    BY DEF Rank, Levels
<1> QED
    BY <1>1, WarningsEnabled DEF Log, Plus

\* What the property calls the label of a request
Label(r) ==
    LET d == requests[r].delivery
        unread == requests[r].status \in {400, 401} \/ ~Routed(d.event)
    IN  <<IF unread THEN 0 ELSE d.project, requests[r].status>>

Open == {"handle", "user", "gauge", "filter"}
Codes == {200, 400, 401, 503}

\* A request knows its project once its payload was read, and not before.
Knows(rec) ==
    /\ rec.step = "handle" => rec.project = 0
    /\ rec.step \in {"user", "gauge", "filter"} =>
          rec.project = rec.delivery.project /\ Routed(rec.delivery.event)
    /\ rec.step \in {"record", "done"} =>
          /\ rec.status \in Codes
          /\ rec.project = IF rec.status \in {400, 401} \/ ~Routed(rec.delivery.event)
                           THEN 0 ELSE rec.delivery.project

AnsweredWith(codes) ==
    {r \in Requests : requests[r].step \in {"record", "done"} /\ requests[r].status \in codes}
DoneAs(l) == {r \in Done : Label(r) = l}

CountInv ==
    /\ \A r \in Requests : requests[r].step # "none" => Knows(requests[r])
    /\ IsFiniteSet(Done)
    /\ \A l : Counted(l, calls) = Cardinality(DoneAs(l))
    /\ IsFiniteSet(AnsweredWith({400, 401})) /\ IsFiniteSet(AnsweredWith({503}))
    /\ Counted(<<"warn", "webhook">>, logs) = Cardinality(AnsweredWith({400, 401}))
    /\ Counted(<<"error", "webhook">>, logs) = Cardinality(AnsweredWith({503}))

\* The ways in which a request moves: it stays open or is refused before the
\* handler, it is answered, or the call is recorded.
StaysOpen(r, rec) ==
    /\ requests[r].step \notin {"record", "done"} /\ rec.step \in Open \cup {"refused"}
    /\ UNCHANGED <<calls, logs>>

IsAnswered(r, rec) ==
    /\ requests[r].step \in Open /\ rec.step = "record"
    /\ calls' = calls
    /\ rec.status \in {400, 401} => logs' = Plus(logs, <<"warn", "webhook">>)
    /\ rec.status = 503 => logs' = Plus(logs, <<"error", "webhook">>)
    /\ rec.status = 200 => logs' \in {logs, Plus(logs, <<"warn", "queue">>)}

IsRecorded(r, rec) ==
    /\ requests[r].step = "record" /\ rec.step = "done"
    /\ rec.status = requests[r].status /\ rec.project = requests[r].project
    /\ rec.delivery = requests[r].delivery
    /\ calls' = Plus(calls, <<rec.project, rec.status>>)
    /\ logs' = logs

Moves(r, rec) == StaysOpen(r, rec) \/ IsAnswered(r, rec) \/ IsRecorded(r, rec)

\* The effect of an answer on the request
LEMMA AnswerRecord ==
    ASSUME RequestsOK, NEW r \in Requests, requests[r].step # "none", NEW status \in Codes,
           Answer(r, status)
    PROVE  \E rec \in Received :
              /\ requests' = [requests EXCEPT ![r] = rec]
              /\ rec.step = "record" /\ rec.status = status
              /\ rec.project = requests[r].project /\ rec.delivery = requests[r].delivery
<1> DEFINE rec == [requests[r] EXCEPT !.status = status, !.step = "record"]
<1>1. requests[r] \in Received /\ status \in Statuses /\ "record" \in Steps
    BY AtAStep DEF Codes, Statuses, Steps
<1>2. /\ rec \in Received /\ rec.step = "record" /\ rec.status = status
      /\ rec.project = requests[r].project /\ rec.delivery = requests[r].delivery
    BY <1>1 DEF Received
<1>3. requests' = [requests EXCEPT ![r] = rec]
    BY DEF Answer, RequestsOK
<1> HIDE DEF rec
<1> QED
    BY <1>2, <1>3

LEMMA HandleMoves ==
    ASSUME RequestsOK, CountInv, NEW r \in Requests, Handle(r)
    PROVE  \E rec \in Received :
              requests' = [requests EXCEPT ![r] = rec] /\ Knows(rec) /\ Moves(r, rec)
<1> DEFINE d == requests[r].delivery
<1>1. requests[r].step = "handle" /\ calls' = calls
    BY DEF Handle, AtStep
<1>2. requests[r] \in Received /\ d \in Deliveries
    BY <1>1, AtAStep DEF Received
<1>3. requests[r].project = 0
    BY <1>1 DEF CountInv, Knows
<1>4. ASSUME NEW status \in {400, 401}, Answer(r, status), Log("warn", "webhook")
      PROVE  \E rec \in Received :
                requests' = [requests EXCEPT ![r] = rec] /\ Knows(rec) /\ Moves(r, rec)
    <2>1. logs' = Plus(logs, <<"warn", "webhook">>)
        BY <1>4, LogAdds
    <2>2. PICK rec \in Received :
             /\ requests' = [requests EXCEPT ![r] = rec]
             /\ rec.step = "record" /\ rec.status = status
             /\ rec.project = requests[r].project /\ rec.delivery = d
        BY <1>1, <1>4, AnswerRecord DEF Codes
    <2>3. Knows(rec)
        BY <1>3, <2>2 DEF Knows, Codes
    <2>4. IsAnswered(r, rec)
        BY <1>1, <2>1, <2>2 DEF IsAnswered, Open
    <2> QED
        BY <2>2, <2>3, <2>4 DEF Moves
<1>5. CASE ~Authenticate(d)
    BY <1>4, <1>5 DEF Handle
<1>6. CASE Authenticate(d) /\ ~Routed(d.event)
    <2>1. Answer(r, 200) /\ logs' = logs
        BY <1>6 DEF Handle
    <2>2. PICK rec \in Received :
             /\ requests' = [requests EXCEPT ![r] = rec]
             /\ rec.step = "record" /\ rec.status = 200
             /\ rec.project = requests[r].project /\ rec.delivery = d
        BY <1>1, <2>1, AnswerRecord DEF Codes
    <2>3. Knows(rec)
        BY <1>3, <1>6, <2>2 DEF Knows, Codes
    <2>4. IsAnswered(r, rec)
        BY <1>1, <2>1, <2>2 DEF IsAnswered, Open
    <2> QED
        BY <2>2, <2>3, <2>4 DEF Moves
<1>7. CASE Authenticate(d) /\ Routed(d.event) /\ d.malformed
    BY <1>4, <1>7 DEF Handle
<1>8. CASE Authenticate(d) /\ Routed(d.event) /\ ~d.malformed
    <2> DEFINE step == IF d.user > 0 THEN "user" ELSE "filter"
               rec == [requests[r] EXCEPT !.project = d.project, !.step = step]
    <2>1. logs' = logs /\ requests' = [requests EXCEPT ![r] = rec]
        BY <1>8 DEF Handle, RequestsOK
    <2>2. step \in Steps /\ step \in {"user", "filter"} /\ d.project \in Projects
        BY <1>2 DEF Steps, Projects
    <2> HIDE DEF step
    <2>3. rec \in Received /\ rec.step = step /\ rec.project = d.project /\ rec.delivery = d
        BY <1>2, <2>2 DEF Received
    <2> HIDE DEF rec
    <2>4. Knows(rec)
        BY <1>8, <2>2, <2>3 DEF Knows
    <2>5. StaysOpen(r, rec)
        BY <1>1, <2>1, <2>2, <2>3 DEF StaysOpen, Open
    <2> QED
        BY <2>1, <2>3, <2>4, <2>5 DEF Moves
<1> QED
    BY <1>5, <1>6, <1>7, <1>8

LEMMA EnqueueMoves ==
    ASSUME RequestsOK, CountInv, NEW r \in Requests, Enqueue(r)
    PROVE  \E rec \in Received :
              requests' = [requests EXCEPT ![r] = rec] /\ Knows(rec) /\ Moves(r, rec)
<1> DEFINE d == requests[r].delivery
<1>1. requests[r].step = "filter" /\ calls' = calls
    BY DEF Enqueue, AtStep
<1>2. requests[r].project = d.project /\ Routed(d.event)
    BY <1>1 DEF CountInv, Knows
<1>3. \/ Answer(r, 200) /\ (logs' = logs \/ Log("warn", "queue"))
      \/ Answer(r, 503) /\ Log("error", "webhook")
    <2>1. CASE ~d.work
        BY <2>1 DEF Enqueue
    <2>2. CASE d.work /\ Full
        BY <2>2 DEF Enqueue
    <2>3. CASE d.work /\ ~Full
        BY <2>3 DEF Enqueue
    <2> QED
        BY <2>1, <2>2, <2>3
<1>4. PICK status \in {200, 503} :
         /\ Answer(r, status)
         /\ status = 200 => logs' \in {logs, Plus(logs, <<"warn", "queue">>)}
         /\ status = 503 => logs' = Plus(logs, <<"error", "webhook">>)
    <2>1. CASE Answer(r, 200) /\ (logs' = logs \/ Log("warn", "queue"))
        BY <2>1, LogAdds
    <2>2. CASE Answer(r, 503) /\ Log("error", "webhook")
        BY <2>2, LogAdds
    <2> QED
        BY <1>3, <2>1, <2>2
<1>5. PICK rec \in Received :
         /\ requests' = [requests EXCEPT ![r] = rec]
         /\ rec.step = "record" /\ rec.status = status
         /\ rec.project = requests[r].project /\ rec.delivery = d
    BY <1>1, <1>4, AnswerRecord DEF Codes
<1>6. Knows(rec)
    BY <1>2, <1>5 DEF Knows, Codes
<1>7. IsAnswered(r, rec)
    BY <1>1, <1>4, <1>5 DEF IsAnswered, Open
<1> QED
    BY <1>5, <1>6, <1>7 DEF Moves

LEMMA UserMoves ==
    ASSUME GaugeInvariant, CountInv, NEW r \in Requests, LockUsers(r) \/ SetGauge(r)
    PROVE  \E rec \in Received :
              requests' = [requests EXCEPT ![r] = rec] /\ Knows(rec) /\ Moves(r, rec)
<1>1. requests[r].step \in {"user", "gauge"} /\ UNCHANGED <<calls, logs>>
    BY DEF LockUsers, SetGauge, AtStep
<1>2. requests[r] \in Received
    BY <1>1, AtAStep DEF GaugeInvariant
<1>3. Knows(requests[r])
    BY <1>1 DEF CountInv
<1>4. PICK step \in {"gauge", "filter"}, size \in Nat :
         requests' = [requests EXCEPT ![r] = [requests[r] EXCEPT !.step = step, !.size = size]]
    <2>1. CASE GoOn(r, "filter")
        <3>1. requests' = [requests EXCEPT ![r] = [requests[r] EXCEPT !.step = "filter"]]
            BY <2>1 DEF GoOn, GaugeInvariant, RequestsOK
        <3>2. [requests[r] EXCEPT !.step = "filter"]
                = [requests[r] EXCEPT !.step = "filter", !.size = requests[r].size]
            BY <1>2 DEF Received
        <3>3. requests[r].size \in Nat
            BY <1>2 DEF Received
        <3> QED
            BY <3>1, <3>2, <3>3
    <2>2. CASE ~GoOn(r, "filter")
        <3>1. /\ users' = users \cup {requests[r].delivery.user}
              /\ requests' = [requests EXCEPT ![r] =
                                [@ EXCEPT !.step = "gauge", !.size = Cardinality(users')]]
            BY <2>2 DEF LockUsers, SetGauge
        <3>2. Cardinality(users') \in Nat
            BY <3>1, FS_AddElement, FS_CardinalityType DEF GaugeInvariant, UsersOK
        <3>3. requests' = [requests EXCEPT ![r] =
                             [requests[r] EXCEPT !.step = "gauge", !.size = Cardinality(users')]]
            BY <3>1 DEF GaugeInvariant, RequestsOK
        <3> QED
            BY <3>2, <3>3
    <2> QED
        BY <2>1, <2>2
<1> DEFINE rec == [requests[r] EXCEPT !.step = step, !.size = size]
<1>5. rec.step = step /\ rec.project = requests[r].project /\ rec.delivery = requests[r].delivery
    BY <1>2 DEF Received
<1>6. rec \in Received
    BY <1>2 DEF Received, Steps
<1> HIDE DEF rec
<1>7. Knows(rec)
    BY <1>1, <1>3, <1>5 DEF Knows
<1>8. StaysOpen(r, rec)
    BY <1>1, <1>5 DEF StaysOpen, Open
<1> QED
    BY <1>4, <1>6, <1>7, <1>8 DEF Moves, rec

LEMMA OtherMoves ==
    ASSUME GaugeInvariant, CountInv, NEW r \in Requests, Receive(r) \/ Record(r)
    PROVE  \E rec \in Received :
              requests' = [requests EXCEPT ![r] = rec] /\ Knows(rec) /\ Moves(r, rec)
<1>1. CASE Receive(r)
    <2>1. PICK rec \in Received :
             /\ requests' = [requests EXCEPT ![r] = rec]
             /\ rec.step \in {"handle", "refused"} /\ rec.project = 0
        BY <1>1, Reception
    <2>2. Knows(rec)
        BY <2>1 DEF Knows
    <2>3. StaysOpen(r, rec)
        BY <1>1, <2>1 DEF Receive, AtStep, StaysOpen, Open, metricVars
    <2> QED
        BY <2>1, <2>2, <2>3 DEF Moves
<1>2. CASE Record(r)
    <2> DEFINE rec == [requests[r] EXCEPT !.step = "done"]
    <2>1. requests[r].step = "record" /\ logs' = logs
          /\ calls' = Plus(calls, <<requests[r].project, requests[r].status>>)
        BY <1>2 DEF Record, AtStep, Plus
    <2>2. requests[r] \in Received
        BY <2>1, AtAStep DEF GaugeInvariant
    <2>3. /\ rec \in Received /\ rec.step = "done" /\ rec.status = requests[r].status
          /\ rec.project = requests[r].project /\ rec.delivery = requests[r].delivery
        BY <2>2 DEF Received, Steps
    <2>4. requests' = [requests EXCEPT ![r] = rec]
        BY <1>2 DEF Record, GoOn, GaugeInvariant, RequestsOK
    <2>5. Knows(requests[r])
        BY <2>1 DEF CountInv
    <2> HIDE DEF rec
    <2>6. Knows(rec)
        BY <2>1, <2>3, <2>5 DEF Knows
    <2>7. IsRecorded(r, rec)
        BY <2>1, <2>3 DEF IsRecorded
    <2> QED
        BY <2>3, <2>4, <2>6, <2>7 DEF Moves
<1> QED
    BY <1>1, <1>2

\* A move of one request changes the counters by what it changes of the sets.
LEMMA MoveCounts ==
    ASSUME RequestsOK, CountInv, UNCHANGED config, NEW r \in Requests, NEW rec \in Received,
           requests' = [requests EXCEPT ![r] = rec], Knows(rec), Moves(r, rec)
    PROVE  CountInv'
<1>1. requests'[r] = rec /\ \A s \in Requests : s # r => requests'[s] = requests[s]
    BY DEF RequestsOK
<1>a. \A event : Routed(event)' <=> Routed(event)
    BY DEF Routed
<1>b. \A other : Knows(other)' <=> Knows(other)
    BY <1>a DEF Knows
<1>2. ASSUME NEW s \in Requests, requests'[s].step # "none" PROVE Knows(requests[s])'
    <2>1. CASE s = r
        BY <1>1, <1>b, <2>1
    <2>2. CASE s # r
        BY <1>1, <1>2, <1>b, <2>2 DEF CountInv
    <2> QED
        BY <2>1, <2>2
<1>3. \A s \in Requests : s # r => Label(s)' = Label(s)
    BY <1>1, <1>a DEF Label
<1>4. \A l : Cardinality(DoneAs(l)) \in Nat /\ IsFiniteSet(DoneAs(l))
    <2> TAKE l
    <2>1. DoneAs(l) \in SUBSET Done /\ IsFiniteSet(Done)
        BY DEF CountInv, DoneAs
    <2>2. IsFiniteSet(DoneAs(l))
        BY <2>1, FS_Subset
    <2> QED
        BY <2>2, FS_CardinalityType
<1>5. \A codes \in {{400, 401}, {503}} : Cardinality(AnsweredWith(codes)) \in Nat
    <2>1. Cardinality(AnsweredWith({400, 401})) \in Nat
        BY FS_CardinalityType DEF CountInv
    <2>2. Cardinality(AnsweredWith({503})) \in Nat
        BY FS_CardinalityType DEF CountInv
    <2> QED
        BY <2>1, <2>2
<1>6. CASE StaysOpen(r, rec)
    <2>1. requests[r].step \notin {"record", "done"} /\ requests'[r].step \notin {"record", "done"}
        BY <1>1, <1>6 DEF StaysOpen, Open
    <2>2. Done' = Done
        BY <1>1, <2>1 DEF Done
    <2>3. \A l : DoneAs(l)' = DoneAs(l)
        BY <1>3, <2>1, <2>2 DEF DoneAs, Done
    <2>4. \A codes : AnsweredWith(codes)' = AnsweredWith(codes)
        BY <1>1, <2>1 DEF AnsweredWith
    <2>5. calls' = calls /\ logs' = logs
        BY <1>6 DEF StaysOpen
    <2> QED
        BY <1>2, <2>2, <2>3, <2>4, <2>5 DEF CountInv
<1>7. CASE IsAnswered(r, rec)
    <2>1. requests[r].step \notin {"record", "done"} /\ requests'[r].step = "record" /\ calls' = calls
        BY <1>1, <1>7 DEF IsAnswered, Open
    <2>2. Done' = Done
        BY <1>1, <2>1 DEF Done
    <2>3. \A l : DoneAs(l)' = DoneAs(l)
        BY <1>3, <2>1, <2>2 DEF DoneAs, Done
    <2>4. \A codes : AnsweredWith(codes)' =
              (IF rec.status \in codes THEN AnsweredWith(codes) \cup {r} ELSE AnsweredWith(codes))
        BY <1>1, <2>1 DEF AnsweredWith
    <2>5. \A codes : r \notin AnsweredWith(codes)
        BY <2>1 DEF AnsweredWith
    <2>6. ASSUME NEW codes \in {{400, 401}, {503}}
          PROVE  /\ IsFiniteSet(AnsweredWith(codes)')
                 /\ Cardinality(AnsweredWith(codes)') =
                      Cardinality(AnsweredWith(codes)) + (IF rec.status \in codes THEN 1 ELSE 0)
        <3>1. IsFiniteSet(AnsweredWith(codes))
            BY DEF CountInv
        <3>2. CASE rec.status \in codes
            <4>1. AnsweredWith(codes)' = AnsweredWith(codes) \cup {r}
                BY <2>4, <3>2
            <4> QED
                BY <2>5, <3>1, <3>2, <4>1, FS_AddElement
        <3>3. CASE rec.status \notin codes
            <4>1. AnsweredWith(codes)' = AnsweredWith(codes)
                BY <2>4, <3>3
            <4> QED
                BY <1>5, <3>1, <3>3, <4>1
        <3> QED
            BY <3>2, <3>3
    <2>7. rec.status \in Codes
        BY <1>7 DEF Knows, IsAnswered
    <2> DEFINE W == <<"warn", "webhook">>
               E == <<"error", "webhook">>
    <2>8. Counted(W, logs) \in Nat /\ Counted(E, logs) \in Nat
        BY <1>5 DEF CountInv
    <2>9. /\ Counted(W, logs') = Counted(W, logs) + (IF rec.status \in {400, 401} THEN 1 ELSE 0)
          /\ Counted(E, logs') = Counted(E, logs) + (IF rec.status = 503 THEN 1 ELSE 0)
        <3>1. CASE rec.status \in {400, 401}
            <4>1. logs' = Plus(logs, W)
                BY <1>7, <3>1 DEF IsAnswered
            <4>2. W # E /\ rec.status # 503
                BY <3>1
            <4> HIDE DEF W, E
            <4>3. /\ Counted(W, logs') = Counted(W, logs) + 1
                  /\ Counted(E, logs') = Counted(E, logs) + 0
                BY <2>8, <4>1, <4>2, OneMore
            <4> QED
                BY <3>1, <4>2, <4>3
        <3>2. CASE rec.status = 503
            <4>1. logs' = Plus(logs, E)
                BY <1>7, <3>2 DEF IsAnswered
            <4>2. W # E /\ rec.status \notin {400, 401}
                BY <3>2
            <4> HIDE DEF W, E
            <4>3. /\ Counted(W, logs') = Counted(W, logs) + 0
                  /\ Counted(E, logs') = Counted(E, logs) + 1
                BY <2>8, <4>1, <4>2, OneMore
            <4> QED
                BY <3>2, <4>2, <4>3
        <3>3. CASE rec.status = 200
            <4>1. logs' \in {logs, Plus(logs, <<"warn", "queue">>)}
                BY <1>7, <3>3 DEF IsAnswered
            <4>2. CASE logs' = logs
                BY <2>8, <3>3, <4>2
            <4>3. CASE logs' = Plus(logs, <<"warn", "queue">>)
                <5> DEFINE q == <<"warn", "queue">>
                <5>1. W # q /\ E # q /\ rec.status # 503 /\ rec.status \notin {400, 401}
                    BY <3>3
                <5>2. logs' = Plus(logs, q)
                    BY <4>3
                <5> HIDE DEF W, E, q
                <5>3. /\ Counted(W, logs') = Counted(W, logs) + 0
                      /\ Counted(E, logs') = Counted(E, logs) + 0
                    BY <2>8, <5>1, <5>2, OneMore
                <5> QED
                    BY <5>1, <5>3
            <4> QED
                BY <4>1, <4>2, <4>3
        <3> QED
            BY <2>7, <3>1, <3>2, <3>3 DEF Codes
    <2>10. /\ Counted(W, logs') = Cardinality(AnsweredWith({400, 401})')
           /\ Counted(E, logs') = Cardinality(AnsweredWith({503})')
        BY <2>6, <2>9 DEF CountInv
    <2>11. IsFiniteSet(AnsweredWith({400, 401})') /\ IsFiniteSet(AnsweredWith({503})')
        BY <2>6
    <2> QED
        BY <1>2, <2>1, <2>2, <2>3, <2>10, <2>11 DEF CountInv
<1>8. CASE IsRecorded(r, rec)
    <2>1. /\ requests[r].step = "record" /\ requests'[r].step = "done"
          /\ requests'[r].status = requests[r].status /\ requests'[r].delivery = requests[r].delivery
          /\ logs' = logs
        BY <1>1, <1>8 DEF IsRecorded
    <2>2. Done' = Done \cup {r} /\ r \notin Done
        BY <1>1, <2>1 DEF Done
    <2>3. IsFiniteSet(Done')
        BY <2>2, FS_AddElement DEF CountInv
    <2>4. Label(r)' = <<rec.project, rec.status>>
        <3>1. rec.project = IF rec.status \in {400, 401} \/ ~Routed(rec.delivery.event)
                            THEN 0 ELSE rec.delivery.project
            BY <1>8 DEF IsRecorded, Knows
        <3>2. /\ requests'[r].status = rec.status /\ requests'[r].delivery = rec.delivery
              /\ Routed(rec.delivery.event)' <=> Routed(rec.delivery.event)
            BY <1>1, <1>a
        <3> QED
            BY <3>1, <3>2 DEF Label
    <2>5. calls' = Plus(calls, Label(r)')
        BY <1>8, <2>4 DEF IsRecorded
    <2>6. ASSUME NEW l PROVE Counted(l, calls') = Cardinality(DoneAs(l)')
        <3>1. DoneAs(l)' = IF l = Label(r)' THEN DoneAs(l) \cup {r} ELSE DoneAs(l)
            BY <1>3, <2>2 DEF DoneAs, Done
        <3>2. r \notin DoneAs(l)
            BY <2>2 DEF DoneAs
        <3>3. Counted(l, calls) = Cardinality(DoneAs(l))
            BY DEF CountInv
        <3>4. Counted(l, calls') = Counted(l, calls) + (IF l = Label(r)' THEN 1 ELSE 0)
            <4> DEFINE e == Label(r)'
            <4>1. calls' = Plus(calls, e) /\ Counted(l, calls) \in Nat
                BY <1>4, <2>5, <3>3
            <4> HIDE DEF e
            <4>2. Counted(l, calls') = Counted(l, calls) + (IF l = e THEN 1 ELSE 0)
                BY <4>1, OneMore
            <4> QED
                BY <4>2 DEF e
        <3>5. CASE l = Label(r)'
            <4>1. DoneAs(l)' = DoneAs(l) \cup {r}
                BY <3>1, <3>5
            <4>2. Cardinality(DoneAs(l) \cup {r}) = Cardinality(DoneAs(l)) + 1
                BY <1>4, <3>2, FS_AddElement
            <4>3. Counted(l, calls') = Counted(l, calls) + 1
                BY <3>4, <3>5
            <4> QED
                BY <3>3, <4>1, <4>2, <4>3
        <3>6. CASE l # Label(r)'
            BY <1>4, <3>1, <3>3, <3>4, <3>6
        <3> QED
            BY <3>5, <3>6
    <2>7. \A codes : AnsweredWith(codes)' = AnsweredWith(codes)
        BY <1>1, <2>1 DEF AnsweredWith
    <2> QED
        BY <1>2, <2>1, <2>3, <2>6, <2>7 DEF CountInv
<1> QED
    BY <1>6, <1>7, <1>8 DEF Moves

LEMMA CountInit == Init => CountInv
<1> SUFFICES ASSUME Init PROVE CountInv
    OBVIOUS
<1>1. \A r \in Requests : requests[r].step = "none"
    BY DEF Init, Waiting
<1>2. Done = {} /\ (\A l : DoneAs(l) = {}) /\ \A codes : AnsweredWith(codes) = {}
    BY <1>1 DEF Done, DoneAs, AnsweredWith
<1>3. DOMAIN calls = {} /\ DOMAIN logs = {}
    BY DEF Init, EmptyBag, SetToBag
<1>4. \A l : Counted(l, calls) = 0 /\ Counted(l, logs) = 0
    BY <1>3 DEF Counted
<1> QED
    BY <1>1, <1>2, <1>4, FS_EmptySet DEF CountInv

LEMMA CountStep == ProcessInvariant /\ CountInv /\ [Next]_vars => CountInv'
<1> SUFFICES ASSUME ProcessInvariant, CountInv, [Next]_vars PROVE CountInv'
    OBVIOUS
<1>1. GaugeInvariant /\ RequestsOK
    BY DEF ProcessInvariant, GaugeInvariant
<1>2. ASSUME UNCHANGED <<requests, calls, logs, config>> PROVE CountInv'
    <2>1. \A event : Routed(event)' <=> Routed(event)
        BY <1>2 DEF Routed
    <2>2. \A rec : Knows(rec)' <=> Knows(rec)
        BY <2>1 DEF Knows
    <2>3. \A r \in Requests : Label(r)' = Label(r)
        BY <1>2, <2>1 DEF Label
    <2>4. Done' = Done /\ \A codes : AnsweredWith(codes)' = AnsweredWith(codes)
        BY <1>2 DEF Done, AnsweredWith
    <2>5. \A l : DoneAs(l)' = DoneAs(l)
        BY <2>3, <2>4 DEF DoneAs, Done
    <2> QED
        BY <1>2, <2>2, <2>4, <2>5 DEF CountInv
<1>3. CASE LoadConfig
    <2>1. \A r \in Requests : requests[r].step = "none"
        BY <1>3 DEF LoadConfig, ProcessInvariant, LifeOK, Early
    <2>2. UNCHANGED <<requests, calls, logs>>
        BY <1>3 DEF LoadConfig, metricVars
    <2>3. Done' = Done /\ \A codes : AnsweredWith(codes)' = AnsweredWith(codes)
        BY <2>2 DEF Done, AnsweredWith
    <2>4. \A l : DoneAs(l)' = DoneAs(l)
        BY <2>1, <2>2 DEF DoneAs, Done
    <2>5. \A r \in Requests : requests'[r].step = "none"
        BY <2>1, <2>2
    <2> QED
        BY <2>2, <2>3, <2>4, <2>5 DEF CountInv
<1>4. CASE Resolve \/ BuildAuthenticator \/ Collect \/ CurrentUser \/ Cancel \/ Take
           \/ (\E s \in Servers : Listen(s) \/ ShutDown(s)) \/ UNCHANGED vars
    BY <1>2, <1>4
    DEF Resolve, BuildAuthenticator, Collect, CurrentUser, Cancel, Take, Listen, ShutDown, vars,
        processVars, metricVars
<1>5. ASSUME NEW r \in Requests,
             Receive(r) \/ Handle(r) \/ LockUsers(r) \/ SetGauge(r) \/ Enqueue(r) \/ Record(r)
      PROVE  CountInv'
    <2>1. config' = config
        BY <1>5 DEF Receive, Handle, LockUsers, SetGauge, Enqueue, Record, processVars
    <2>2. PICK rec \in Received :
             requests' = [requests EXCEPT ![r] = rec] /\ Knows(rec) /\ Moves(r, rec)
        BY <1>1, <1>5, HandleMoves, EnqueueMoves, UserMoves, OtherMoves
    <2> QED
        BY <1>1, <2>1, <2>2, MoveCounts
<1> QED
    BY <1>3, <1>4, <1>5 DEF Next, Main

\* Each request that reached the handler and was answered is counted once,
\* under the status it got and under its project if its payload was read, for
\* any number of concurrent requests; one that fiber refused for its size is
\* counted under no label.
THEOREM EveryCallCounted == FairSpec => []CallsCounted
<1>1. CountInv => CallsCounted
    BY DEF CountInv, CallsCounted, DoneAs, Label
<1> QED
    BY <1>1, LifeInit, CountInit, ProcessStep, CountStep, PTL DEF FairSpec, ProcessInvariant

\* Whatever level the operator chose to print, a warning is counted for each
\* request that is refused and an error for each event that is dropped.
THEOREM EveryWarningCounted == FairSpec => []WarningsCounted
<1>1. CountInv => WarningsCounted
    BY DEF CountInv, WarningsCounted, AnsweredWith
<1> QED
    BY <1>1, LifeInit, CountInit, ProcessStep, CountStep, PTL DEF FairSpec, ProcessInvariant

-----------------------------------------------------------------------------
(* Types *)

CallLabels == Projects \X Codes
LogLabels == {"warn", "error"} \X {"webhook", "queue"}

MetricsOK ==
    /\ depth \in 0..QueueSize /\ warned \in BOOLEAN
    /\ users \subseteq {d.user : d \in Deliveries}
    /\ BagToSet(calls) \subseteq CallLabels
    /\ BagToSet(logs) \subseteq LogLabels

\* A counter that counts one more has no label but its own and the new one.
LEMMA PlusLabels ==
    ASSUME NEW counter, NEW e
    PROVE  BagToSet(Plus(counter, e)) = BagToSet(counter) \cup {e}
<1>1. DOMAIN SetToBag({e}) = {e}
    BY DEF SetToBag
<1>2. DOMAIN (counter (+) SetToBag({e})) = DOMAIN counter \cup DOMAIN SetToBag({e})
    BY DEF (+)
<1> QED
    BY <1>1, <1>2 DEF Plus, BagToSet

\* The counters get the labels they may have.
LEMMA MoveLabels ==
    ASSUME MetricsOK, NEW r \in Requests, NEW rec \in Received, Knows(rec), Moves(r, rec)
    PROVE  BagToSet(calls') \subseteq CallLabels /\ BagToSet(logs') \subseteq LogLabels
<1>1. CASE StaysOpen(r, rec)
    BY <1>1 DEF StaysOpen, MetricsOK
<1>2. CASE IsAnswered(r, rec)
    <2>1. rec.status \in Codes /\ calls' = calls
        BY <1>2 DEF IsAnswered, Knows
    <2>2. logs' = logs \/ \E l \in LogLabels : logs' = Plus(logs, l)
        <3>1. <<"warn", "webhook">> \in LogLabels /\ <<"error", "webhook">> \in LogLabels
              /\ <<"warn", "queue">> \in LogLabels
            BY DEF LogLabels
        <3> QED
            BY <1>2, <2>1, <3>1 DEF IsAnswered, Codes
    <2> QED
        BY <2>1, <2>2, PlusLabels DEF MetricsOK
<1>3. CASE IsRecorded(r, rec)
    <2>1. calls' = Plus(calls, <<rec.project, rec.status>>) /\ logs' = logs
        BY <1>3 DEF IsRecorded
    <2>2. rec.project \in Projects /\ rec.status \in Codes
        BY <1>3 DEF IsRecorded, Knows, Received
    <2>3. <<rec.project, rec.status>> \in CallLabels
        BY <2>2 DEF CallLabels
    <2> DEFINE l == <<rec.project, rec.status>>
    <2> HIDE DEF l
    <2>4. BagToSet(calls') = BagToSet(calls) \cup {l}
        BY <2>1, PlusLabels DEF l
    <2> QED
        BY <2>1, <2>3, <2>4 DEF MetricsOK, l
<1> QED
    BY <1>1, <1>2, <1>3 DEF Moves

LEMMA MetricsInit == Init => MetricsOK
<1> SUFFICES ASSUME Init PROVE MetricsOK
    OBVIOUS
<1>1. DOMAIN calls = {} /\ DOMAIN logs = {}
    BY DEF Init, EmptyBag, SetToBag
<1>2. BagToSet(calls) = {} /\ BagToSet(logs) = {}
    BY <1>1 DEF BagToSet
<1>3. depth \in 0..QueueSize
    BY QueueSizeAssumption DEF Init
<1>4. warned \in BOOLEAN /\ users = {}
    BY DEF Init
<1> QED
    BY <1>2, <1>3, <1>4 DEF MetricsOK

LEMMA MetricsStep == ProcessInvariant /\ CountInv /\ MetricsOK /\ [Next]_vars => MetricsOK'
<1> SUFFICES ASSUME ProcessInvariant, CountInv, MetricsOK, [Next]_vars PROVE MetricsOK'
    OBVIOUS
<1>1. GaugeInvariant /\ RequestsOK
    BY DEF ProcessInvariant, GaugeInvariant
<1>2. ASSUME UNCHANGED <<depth, warned, users, calls, logs>> PROVE MetricsOK'
    BY <1>2 DEF MetricsOK
<1>3. CASE Take
    <2>1. depth > 0 /\ depth' = depth - 1 /\ UNCHANGED <<warned, users, calls, logs>>
        BY <1>3 DEF Take, metricVars
    <2>2. depth' \in 0..QueueSize
        BY <2>1, QueueSizeAssumption DEF MetricsOK
    <2> QED
        BY <2>1, <2>2 DEF MetricsOK
<1>4. CASE Main \/ CurrentUser \/ Cancel
           \/ (\E s \in Servers : Listen(s) \/ ShutDown(s)) \/ UNCHANGED vars
    BY <1>2, <1>4
    DEF Main, Resolve, LoadConfig, BuildAuthenticator, Collect, CurrentUser, Cancel, Listen, ShutDown,
        vars, metricVars
<1>5. ASSUME NEW r \in Requests,
             Receive(r) \/ Handle(r) \/ LockUsers(r) \/ SetGauge(r) \/ Enqueue(r) \/ Record(r)
      PROVE  MetricsOK'
    <2>1. PICK rec \in Received :
             requests' = [requests EXCEPT ![r] = rec] /\ Knows(rec) /\ Moves(r, rec)
        BY <1>1, <1>5, HandleMoves, EnqueueMoves, UserMoves, OtherMoves
    <2>2. BagToSet(calls') \subseteq CallLabels /\ BagToSet(logs') \subseteq LogLabels
        BY <2>1, MoveLabels
    <2>3. users' \subseteq {d.user : d \in Deliveries}
        <3>1. CASE LockUsers(r)
            <4>1. requests[r] \in Received
                BY <1>1, <3>1, AtAStep DEF LockUsers, AtStep
            <4>2. requests[r].delivery \in Deliveries
                BY <4>1 DEF Received
            <4>3. users' = users \/ users' = users \cup {requests[r].delivery.user}
                BY <3>1 DEF LockUsers
            <4> QED
                BY <4>2, <4>3 DEF MetricsOK
        <3>2. CASE ~LockUsers(r)
            <4>1. users' = users
                BY <1>5, <3>2 DEF Receive, Handle, SetGauge, Enqueue, Record, metricVars
            <4> QED
                BY <4>1 DEF MetricsOK
        <3> QED
            BY <3>1, <3>2
    <2>4. depth' \in 0..QueueSize /\ warned' \in BOOLEAN
        <3>1. CASE Enqueue(r)
            <4>1. \/ UNCHANGED <<depth, warned>>
                  \/ ~Full /\ depth' = depth + 1 /\ warned' = (depth' >= WarnAt)
                <5>1. CASE ~requests[r].delivery.work
                    BY <3>1, <5>1 DEF Enqueue
                <5>2. CASE requests[r].delivery.work /\ Full
                    BY <3>1, <5>2 DEF Enqueue
                <5>3. CASE requests[r].delivery.work /\ ~Full
                    BY <3>1, <5>3 DEF Enqueue
                <5> QED
                    BY <5>1, <5>2, <5>3
            <4>2. warned' \in BOOLEAN
                <5>1. (depth' >= WarnAt) \in BOOLEAN
                    BY SMT
                <5> QED
                    BY <4>1, <5>1, Zenon DEF MetricsOK
            <4>3. depth' \in 0..QueueSize
                BY <4>1, QueueSizeAssumption DEF MetricsOK, Full
            <4> QED
                BY <4>2, <4>3
        <3>2. CASE ~Enqueue(r)
            <4>1. UNCHANGED <<depth, warned>>
                BY <1>5, <3>2 DEF Receive, Handle, LockUsers, SetGauge, Record
            <4> QED
                BY <4>1 DEF MetricsOK
        <3> QED
            BY <3>1, <3>2
    <2> QED
        BY <2>2, <2>3, <2>4 DEF MetricsOK
<1> QED
    BY <1>3, <1>4, <1>5 DEF Next

\* What the process is made of, with any number of requests: every server that
\* ended has handed in one result, the queue is within its capacity, and the
\* counters have no labels but those that are documented.
THEOREM ServeTypeCorrect == FairSpec => []ServeTypeOK
<1>1. ProcessInvariant /\ MetricsOK => ServeTypeOK
    <2> SUFFICES ASSUME ProcessInvariant, MetricsOK PROVE ServeTypeOK
        OBVIOUS
    <2>1. given \in Given /\ cancelled \in BOOLEAN
        BY DEF ProcessInvariant, LifeOK
    <2>2. pc \in {"resolve", "load", "bot user", "authenticator", "collect", "exited"}
        BY DEF ProcessInvariant, LifeOK, Early
    <2>3. server \in [Servers -> {"off", "starting", "listening", "stopped", "failed"}]
        BY DEF ProcessInvariant, LifeOK, States
    <2>4. collected + Len(errCh) = Cardinality({s \in Servers : server[s] \in {"stopped", "failed"}})
        BY DEF ProcessInvariant, ResultsOK, Ended
    <2>5. mu \in Requests \cup {Nobody}
        BY DEF ProcessInvariant, GaugeInvariant, LockOK
    <2> QED
        BY <2>1, <2>2, <2>3, <2>4, <2>5
        DEF ServeTypeOK, MetricsOK, CallLabels, LogLabels, Projects, Codes
<1> QED
    BY <1>1, LifeInit, CountInit, MetricsInit, ProcessStep, CountStep, MetricsStep, PTL
    DEF FairSpec, ProcessInvariant
=============================================================================
