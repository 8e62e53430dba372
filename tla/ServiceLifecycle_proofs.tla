------------------------ MODULE ServiceLifecycle_proofs ------------------------
(***************************************************************************)
(* Theorems about Configuration, for every configuration, and about        *)
(* ServiceLifecycle, for any files, environments, checkers, calls and      *)
(* ports that other processes hold.                                        *)
(***************************************************************************)
EXTENDS ServiceLifecycle, SequenceTheorems, TLAPS

-----------------------------------------------------------------------------
(* The rules of the configuration.                                         *)

LEMMA NeverConflicting == \A ports : Conflicting(ports) = {}
BY DEF Conflicting

\* validation.go:154 announces a check for port conflicts.  It finds none: a
\* configuration that Validate accepts is accepted with any other ports in
\* range, so also with one port for all three servers.
THEOREM PortConflictsUnseen ==
    ASSUME NEW c \in Config, ValidateConfiguration(c),
           NEW p \in MinPort..MaxPort, NEW q \in MinPort..MaxPort, NEW r \in MinPort..MaxPort
    PROVE  ValidateConfiguration([c EXCEPT !.Port = p, !.MetricsPort = q, !.ProfilingPort = r])
<1> DEFINE d == [c EXCEPT !.Port = p, !.MetricsPort = q, !.ProfilingPort = r]
<1>1. /\ d.Port = p /\ d.MetricsPort = q /\ d.ProfilingPort = r
      /\ d.Brokers = c.Brokers /\ d.BatchSize = c.BatchSize
      /\ d.MaxMessageBytes = c.MaxMessageBytes /\ d.Compression = c.Compression
      /\ d.MaxAttempts = c.MaxAttempts /\ d.BackoffMultiplier = c.BackoffMultiplier
      /\ d.Protocol = c.Protocol /\ d.Host = c.Host /\ d.Level = c.Level /\ d.Format = c.Format
      /\ d.ProfilingEnabled = c.ProfilingEnabled
    BY DEF Config
<1>2. /\ d.WorkerPoolSize = c.WorkerPoolSize /\ d.ChannelBufferSize = c.ChannelBufferSize
      /\ d.MessagePoolSize = c.MessagePoolSize /\ d.Connection = c.Connection
      /\ d.Request = c.Request /\ d.Delivery = c.Delivery
      /\ d.ShutdownTimeout = c.ShutdownTimeout /\ d.WriteTimeout = c.WriteTimeout
      /\ d.Username = c.Username /\ d.CertificatePath = c.CertificatePath
    BY DEF Config
<1> HIDE DEF d
<1>3. validateKafkaConfig(d)
  <2>1. validateBrokers(d)
      BY <1>1 DEF ValidateConfiguration, validateKafkaConfig, validateBrokers
  <2>2. validateKafkaConfig(c)
      BY DEF ValidateConfiguration
  <2> QED BY <1>1, <2>1, <2>2 DEF validateKafkaConfig
<1>7. validateServerConfig(d)
    BY <1>1 DEF ValidateConfiguration, validateServerConfig
<1>8. validateLoggingConfig(d)
    BY <1>1 DEF ValidateConfiguration, validateLoggingConfig
<1>4. validateMonitoringConfig(d)
    BY <1>1 DEF validateMonitoringConfig
<1>6. validatePerformanceConfig(d)
    BY <1>2 DEF ValidateConfiguration, validatePerformanceConfig
<1>5. validateCrossFieldRules(d)
  <2>1. /\ d.Connection <= d.Request /\ d.Request <= d.Delivery
        /\ d.ShutdownTimeout >= d.WriteTimeout
        /\ d.MessagePoolSize >= 2 * d.ChannelBufferSize
      BY <1>2 DEF ValidateConfiguration, validateCrossFieldRules
  <2>2. d.BatchSize * d.MaxMessageBytes <= 100 * MB
      BY <1>1 DEF ValidateConfiguration, validateCrossFieldRules
  <2>3. /\ d.Protocol.exact /\ d.Protocol.word \in SASL => d.Username # ""
        /\ d.Protocol.exact /\ d.Protocol.word \in TLS => d.CertificatePath # ""
      BY <1>1, <1>2 DEF ValidateConfiguration, validateCrossFieldRules
  <2> QED BY <2>1, <2>2, <2>3, NeverConflicting DEF validateCrossFieldRules
<1> QED BY <1>3, <1>4, <1>5, <1>6, <1>7, <1>8 DEF ValidateConfiguration, d

\* What a validated configuration still has to satisfy for the producer: the
\* constructor rules on fields that Validate passes over, and on some of those
\* that it allows a wider range.
THEOREM ProducerGap ==
    ASSUME NEW c \in Config, ValidateConfiguration(c)
    PROVE  ProducerAccepts(c) <=>
             /\ c.MaxMessageBytes <= MB /\ c.FlushFrequency \in 1..10 * Second
             /\ c.InitialBackoff \in 10..Second /\ c.MaxBackoff \in Second..300 * Second
             /\ c.Connection \in Second..30 * Second
             /\ c.Request <= 60 * Second /\ c.Delivery <= 300 * Second
             /\ c.Protocol.word \in SASL => c.Username # "" /\ c.Password # ""
<1>1. /\ c.MaxMessageBytes \in Int /\ c.Connection \in Int /\ c.Request \in Int
      /\ c.Delivery \in Int
    BY DEF Config
<1>2. validateBrokers(c) /\ setCompressionType(c)
    BY ZenonT(40) DEF ValidateConfiguration, validateKafkaConfig, setCompressionType, isValidChoice
<1>3. setBatchSettings(c) <=> c.MaxMessageBytes <= MB /\ c.FlushFrequency \in 1..10 * Second
  <2>1. /\ KB \in Int /\ MB \in Int /\ MB <= 10 * MB /\ 10 * MB \in Int
      BY DEF KB, MB
  <2>2. c.BatchSize \in 1..1000 /\ c.MaxMessageBytes \in KB..10 * MB
      BY DEF ValidateConfiguration, validateKafkaConfig
  <2> QED BY <1>1, <2>1, <2>2 DEF setBatchSettings
<1>4. setRetryPolicy(c) <=> c.InitialBackoff \in 10..Second /\ c.MaxBackoff \in Second..300 * Second
    BY DEF ValidateConfiguration, validateKafkaConfig, setRetryPolicy
<1>5. setTimeoutSettings(c) <=>
        /\ c.Connection \in Second..30 * Second
        /\ c.Request <= 60 * Second /\ c.Delivery <= 300 * Second
  <2>1. Second \in Int /\ 30 * Second \in Int /\ 60 * Second \in Int /\ 300 * Second \in Int
      BY DEF Second
  <2>2. c.Connection <= c.Request /\ c.Request <= c.Delivery
      BY DEF ValidateConfiguration, validateCrossFieldRules
  <2> QED BY <1>1, <2>1, <2>2 DEF setTimeoutSettings
<1>6. setSecurityConfig(c) <=> (c.Protocol.word \in SASL => c.Username # "" /\ c.Password # "")
    BY ZenonT(40) DEF ValidateConfiguration, validateKafkaConfig, isValidChoice, setSecurityConfig
<1> QED BY <1>2, <1>3, <1>4, <1>5, <1>6, ZenonT(40) DEF ProducerAccepts

\* The backoffs of a configuration that the producer accepts are in order, which
\* Validate does not look at.
THEOREM BackoffsInOrder ==
    ASSUME NEW c \in Config, ProducerAccepts(c)
    PROVE  0 < c.InitialBackoff /\ c.InitialBackoff <= c.MaxBackoff /\ c.BackoffMultiplier >= 10
<1>1. Second \in Int /\ 300 * Second \in Int
    BY DEF Second
<1>2. /\ c.InitialBackoff \in 10..Second /\ c.MaxBackoff \in Second..300 * Second
      /\ c.BackoffMultiplier \in 10..50
    BY DEF ProducerAccepts, setRetryPolicy
<1> QED BY <1>1, <1>2

\* Written in capitals a TLS protocol needs a certificate.  Written otherwise it
\* needs none, and the client is told to use TLS all the same.
THEOREM CertificateByCase ==
    ASSUME NEW c \in Config, ValidateConfiguration(c), SaramaConfig(c).TLS
    PROVE  c.CertificatePath # "" \/ ~c.Protocol.exact
<1>1. c.Protocol.word \in TLS
    BY DEF SaramaConfig
<1> QED BY <1>1 DEF ValidateConfiguration, validateCrossFieldRules

\* Without a file's pools Load's own defaults are not fit to run.
THEOREM DefaultsUnfit == ~ValidateConfiguration(DefaultConfig)
<1>1. DefaultConfig.MessagePoolSize = 1000 /\ DefaultConfig.ChannelBufferSize = 1024
    BY DEF DefaultConfig
<1>2. ~validateCrossFieldRules(DefaultConfig)
    BY <1>1 DEF validateCrossFieldRules
<1> QED BY <1>2 DEF ValidateConfiguration

LEMMA OverridesType ==
    ASSUME NEW c \in Config, NEW e \in Environment
    PROVE  applyEnvironmentOverrides(c, e) \in Config
<1> DEFINE brokers == IF e.KAFKA_BROKERS # <<>> THEN OneBroker(e.KAFKA_BROKERS) ELSE c.Brokers
           port == IF e.SERVER_PORT > 0 THEN e.SERVER_PORT ELSE c.Port
           level == IF e.LOG_LEVEL.word # "" THEN e.LOG_LEVEL ELSE c.Level
<1>1. e.KAFKA_BROKERS \in Seq(Broker) /\ c.Brokers \in Seq(Broker)
    BY DEF Config, Environment
<1>2. ASSUME NEW list \in Seq(Broker), list # <<>> PROVE OneBroker(list) \in Seq(Broker)
  <2>1. list[1] \in Broker
      BY <1>2
  <2>2. [list[1] EXCEPT !.port = 0] \in Broker
      BY <2>1, SMTT(40) DEF Broker
  <2> QED BY <2>2 DEF OneBroker
<1>3. brokers \in Seq(Broker)
    BY <1>1, <1>2
<1>4. port \in Int /\ level \in Word
    BY DEF Config, Environment
<1>5. applyEnvironmentOverrides(c, e) =
        [c EXCEPT !.Brokers = brokers, !.Port = port, !.Level = level]
    BY DEF applyEnvironmentOverrides
<1> HIDE DEF brokers, port, level
<1>6. [c EXCEPT !.Brokers = brokers] \in Config
    BY <1>3 DEF Config
<1>7. [c EXCEPT !.Brokers = brokers, !.Port = port] \in Config
    BY <1>4, <1>6, ZenonT(60) DEF Config
<1>8. [c EXCEPT !.Brokers = brokers, !.Port = port, !.Level = level] \in Config
    BY <1>4, <1>7, ZenonT(60) DEF Config
<1> QED BY <1>5, <1>8

-----------------------------------------------------------------------------
(* Types.                                                                  *)

LEMMA HealthTypeStep ==
    ASSUME HealthTypeOK, NEW c \in Call, HealthStep(c)
    PROVE  HealthTypeOK'
<1> USE DEF HealthTypeOK
<1>1. CASE CheckHealth(c)
  <2>1. DOMAIN checkers \subseteq Nat
      BY LenProperties
  <2> QED BY <1>1, <2>1 DEF CheckHealth
<1>2. ASSUME NEW i \in running[c], CheckReturns(c, i) PROVE HealthTypeOK'
  <2>1. PICK status \in Statuses :
           /\ channel' = [channel EXCEPT ![c] = Append(@, [name |-> Name[snapshot[c][i]],
                                                           status |-> status])]
           /\ results' = [results EXCEPT ![c] = @ \cup {[index |-> i, status |-> status]}]
      BY <1>2 DEF CheckReturns
  <2>2. snapshot[c][i] \in Checker
      BY LenProperties
  <2>3. [name |-> Name[snapshot[c][i]], status |-> status] \in Result
      BY <2>2 DEF Result, Names
  <2>4. channel' \in [Call -> Seq(Result)]
      BY <2>1, <2>3, AppendProperties
  <2>5. /\ running' \in [Call -> SUBSET Nat]
        /\ \A d \in Call : running'[d] \subseteq running[d]
      BY <1>2 DEF CheckReturns
  <2>6. results' \in [Call -> SUBSET [index : Nat, status : Statuses]]
    <3>1. [index |-> i, status |-> status] \in [index : Nat, status : Statuses]
        OBVIOUS
    <3> QED BY <2>1, <3>1
  <2> QED BY <1>2, <2>4, <2>5, <2>6 DEF CheckReturns
<1>3. CASE Collect(c)
  <2> DEFINE result == Head(channel[c])
             checks == response[c].Checks
             status == Overall(response[c].Status, result.status)
             all == [n \in DOMAIN checks \cup {result.name} |->
                        IF n = result.name THEN result.status ELSE checks[n]]
             Checks == UNION {[N -> Statuses] : N \in SUBSET Names}
  <2>1. /\ response' = [response EXCEPT ![c] = [Status |-> status, Checks |-> all]]
        /\ channel' = [channel EXCEPT ![c] = Tail(@)]
        /\ channel[c] # <<>> /\ UNCHANGED <<checkers, snapshot, running, code, results>>
      BY <1>3 DEF Collect
  <2>2. result \in Result /\ Tail(channel[c]) \in Seq(Result)
      BY <2>1, HeadTailProperties
  <2>3. status \in Statuses
      BY <2>2 DEF Overall, Result, Statuses
  <2>0. checks \in Checks
      OBVIOUS
  <2>4. PICK N \in SUBSET Names : checks \in [N -> Statuses]
    <3> HIDE DEF checks
    <3> QED BY <2>0
  <2>5. all \in [N \cup {result.name} -> Statuses] /\ N \cup {result.name} \in SUBSET Names
      BY <2>2, <2>4 DEF Result
  <2> HIDE DEF result, checks, status, all
  <2>6. all \in Checks
    <3>1. PICK M \in SUBSET Names : all \in [M -> Statuses]
        BY <2>5
    <3>2. [M -> Statuses] \in {[K -> Statuses] : K \in SUBSET Names}
        OBVIOUS
    <3> QED BY <3>1, <3>2
  <2>7. response' \in [Call -> [Status : Statuses, Checks : Checks]]
      BY <2>1, <2>3, <2>6
  <2>8. channel' \in [Call -> Seq(Result)]
      BY <2>1, <2>2
  <2> QED BY <2>1, <2>7, <2>8
<1>4. CASE ServeHTTP(c)
    BY <1>4 DEF ServeHTTP
<1> QED BY <1>1, <1>2, <1>3, <1>4 DEF HealthStep

LEMMA RegisterType ==
    ASSUME HealthTypeOK, NEW k \in Checker, RegisterChecker(k) PROVE HealthTypeOK'
BY AppendProperties DEF HealthTypeOK, RegisterChecker

LEMMA TypeInit == Init => TypeOK
<1> SUFFICES ASSUME Init PROVE TypeOK
    OBVIOUS
<1>1. EmptyResponse \in [Status : Statuses, Checks : UNION {[N -> Statuses] : N \in SUBSET Names}]
  <2>1. [n \in {} |-> "healthy"] \in [{} -> Statuses] /\ {} \in SUBSET Names
      OBVIOUS
  <2> QED BY <2>1 DEF EmptyResponse, Statuses
<1>2. HealthTypeOK
    BY <1>1, EmptySeq DEF Init, HealthInit, HealthTypeOK
<1> QED BY <1>2, LifecycleAssumption DEF Init, TypeOK, LifecycleAssumption

States == {"off", "starting", "made", "listening", "failed", "closed"}

LEMMA CloseType ==
    ASSUME TypeOK, NEW s \in Server, Close(s)
    PROVE  /\ listener' \in [Server -> States]
           /\ s # "metrics" => listener'["metrics"] = listener["metrics"]
           /\ \A o \in Server : listener'[o] = "off" => listener[o] = "off"
BY DEF TypeOK, Close, States, Server

LEMMA TypeStep == TypeOK /\ [Next]_vars => TypeOK'
<1> SUFFICES ASSUME TypeOK, [Next]_vars PROVE TypeOK'
    OBVIOUS
<1>t. HealthTypeOK /\ listener \in [Server -> States]
    BY DEF TypeOK, States
<1>h. UNCHANGED healthVars => HealthTypeOK'
    BY <1>t DEF healthVars, HealthTypeOK
<1>1. CASE Load
  <2>1. file # Unreadable => applyEnvironmentOverrides(file, env) \in Config
      BY OverridesType DEF TypeOK
  <2> QED BY <1>1, <1>h, <2>1 DEF Load, Exit, Goto, TypeOK, start
<1>2. CASE Validate \/ SetupLogger \/ Drained \/ MainReturns \/ TimeoutExpires
    BY <1>2, <1>h DEF Validate, SetupLogger, Drained, MainReturns, TimeoutExpires, Exit, Goto,
                      TypeOK, start
<1>3. CASE StartServices
  <2>1. HealthTypeOK'
      BY <1>3, <1>t, RegisterType, LifecycleAssumption DEF StartServices, LifecycleAssumption
  <2>2. listener' \in [Server -> States]
      BY <1>3 DEF StartServices, States
  <2> QED BY <1>3, <2>1, <2>2 DEF StartServices, Goto, TypeOK, start, States
<1>4. CASE StartProfiler
    BY <1>4, <1>h DEF StartProfiler, TypeOK, start
<1>5. ASSUME NEW s \in Server, ListenAndServe(s) PROVE TypeOK'
  <2>1. listener' \in [Server -> States]
      BY <1>5, <1>t DEF ListenAndServe, States
  <2> QED BY <1>5, <1>h, <2>1 DEF ListenAndServe, TypeOK, start, States
<1>6. ASSUME NEW c \in Call, HandleHealth(c) PROVE TypeOK'
  <2>1. HealthTypeOK'
      BY <1>6, <1>t, HealthTypeStep DEF HandleHealth
  <2> QED BY <1>6, <2>1 DEF HandleHealth, lifeVars, TypeOK, start
<1>7. CASE RegisterAnother
  <2>1. HealthTypeOK'
      BY <1>7, <1>t, RegisterType DEF RegisterAnother
  <2> QED BY <1>7, <2>1 DEF RegisterAnother, lifeVars, TypeOK, start
<1>8. CASE Signal
    BY <1>8, <1>h DEF Signal, Exit, TypeOK, start
<1>9. CASE BeginShutdown
  <2>1. listener' \in [Server -> States]
      BY <1>9, CloseType DEF BeginShutdown, Server
  <2> QED BY <1>9, <1>h, <2>1 DEF BeginShutdown, Goto, TypeOK, start, States
<1>10. CASE StopProfiler
  <2>1. listener' \in [Server -> States]
      BY <1>10, <1>t, CloseType DEF StopProfiler, Server
  <2> QED BY <1>10, <1>h, <2>1 DEF StopProfiler, Goto, TypeOK, start, States
<1>11. CASE UNCHANGED vars
    BY <1>11, <1>h DEF vars, start, TypeOK
<1> QED BY <1>1, <1>2, <1>3, <1>4, <1>5, <1>6, <1>7, <1>8, <1>9, <1>10, <1>11
        DEF Next, MainStep, ServerStep

\* The state of the process and of the health manager is well typed.
THEOREM TypeCorrect == Spec => []TypeOK
BY TypeInit, TypeStep, PTL DEF Spec

-----------------------------------------------------------------------------
(* What is served, and how the process ends.                               *)

BeforeStart == {"loading", "validating", "logger", "starting"}
Loaded == config = applyEnvironmentOverrides(file, env)

\* Each step of main relies on those before it; and nobody tells the metrics
\* server to stop.
LifeInv ==
    /\ main \in BeforeStart => \A s \in Server : listener[s] = "off"
    /\ main = "validating" => Loaded
    /\ main \notin {"loading", "validating", "exited"} => Loaded /\ ValidateConfiguration(config)
    /\ (\E s \in Server : listener[s] # "off") => Loaded /\ ValidateConfiguration(config)
    /\ ended = "config" => \A s \in Server : listener[s] = "off"
    /\ listener["metrics"] # "closed"
    /\ ended = "clean" => listener["metrics"] = "failed"
    /\ main = "exited" <=> ended # "not"

LEMMA LifeInit == Init => LifeInv
BY DEF Init, LifeInv, Server

LEMMA LifeStep == TypeOK /\ LifeInv /\ [Next]_vars => LifeInv'
<1> SUFFICES ASSUME TypeOK, LifeInv, [Next]_vars PROVE LifeInv'
    OBVIOUS
<1> USE DEF LifeInv, BeforeStart
<1>t. listener \in [Server -> States] /\ "metrics" \in Server
    BY DEF TypeOK, States, Server
<1>1. CASE Load
    BY <1>1, <1>t DEF Load, Exit, Goto, start, Loaded
<1>2. CASE Validate
    BY <1>2, <1>t DEF Validate, Exit, Goto, start, Loaded
<1>3. CASE SetupLogger
    BY <1>3, <1>t DEF SetupLogger, Exit, Goto, start, Loaded
<1>4. CASE Drained \/ TimeoutExpires
    BY <1>4, <1>t DEF Drained, TimeoutExpires, Goto, start, Loaded
<1>5. CASE MainReturns
  <2>1. ended' = "clean" => listener["metrics"] = "failed"
      BY <1>5, <1>t DEF MainReturns, Exit, Done
  <2> QED BY <1>5, <1>t, <2>1 DEF MainReturns, Exit, start, Loaded
<1>6. CASE StartServices
  <2>1. listener'["metrics"] # "closed"
      BY <1>6, <1>t DEF StartServices
  <2> QED BY <1>6, <1>t, <2>1 DEF StartServices, Goto, start, Loaded
<1>7. ASSUME NEW s \in Server, listener[s] # "off", main # "exited",
             listener' = [listener EXCEPT ![s] = listener'[s]], listener'[s] # "closed",
             UNCHANGED <<start, config, main, ended>>
      PROVE  LifeInv'
  <2>1. main \notin BeforeStart /\ ended = "not" /\ Loaded /\ ValidateConfiguration(config)
      BY <1>7
  <2>2. listener'["metrics"] # "closed"
      BY <1>7, <1>t
  <2> QED BY <1>7, <2>1, <2>2 DEF start, Loaded
<1>8. CASE StartProfiler
    BY <1>7, <1>8, <1>t DEF StartProfiler, Alive, Server
<1>9. ASSUME NEW s \in Server, ListenAndServe(s) PROVE LifeInv'
  <2>1. listener[s] # "off" /\ listener'[s] # "closed"
      BY <1>9, <1>t DEF ListenAndServe
  <2> QED BY <1>7, <1>9, <1>t, <2>1 DEF ListenAndServe, Alive
<1>10. ASSUME NEW c \in Call, HandleHealth(c) PROVE LifeInv'
    BY <1>10 DEF HandleHealth, lifeVars, start, Loaded
<1>11. CASE RegisterAnother
    BY <1>11 DEF RegisterAnother, lifeVars, start, Loaded
<1>12. CASE Signal
    BY <1>12 DEF Signal, Exit, start, Loaded
<1>13. CASE BeginShutdown
  <2>1. listener'["metrics"] = listener["metrics"]
      BY <1>13, CloseType DEF BeginShutdown, Server
  <2> QED BY <1>13, <2>1 DEF BeginShutdown, Goto, start, Loaded
<1>14. CASE StopProfiler
  <2>1. listener'["metrics"] = listener["metrics"]
      BY <1>14, CloseType DEF StopProfiler, Server
  <2> QED BY <1>14, <2>1 DEF StopProfiler, Goto, start, Loaded
<1>15. CASE UNCHANGED vars
    BY <1>15 DEF vars, start, Loaded
<1> QED BY <1>1, <1>2, <1>3, <1>4, <1>5, <1>6, <1>8, <1>9, <1>10, <1>11, <1>12, <1>13, <1>14, <1>15
        DEF Next, MainStep, ServerStep

LEMMA LifeHolds == Spec => []LifeInv
BY TypeCorrect, LifeInit, LifeStep, PTL DEF Spec

\* Whatever the file and the environment say, no listener runs on a
\* configuration that was not validated with the environment over it.
THEOREM ServesValidated == Spec => []ServesWhatWasValidated
<1>1. LifeInv => ServesWhatWasValidated
    BY DEF LifeInv, ServesWhatWasValidated, Loaded
<1> QED BY <1>1, LifeHolds, PTL

\* main reports a clean shutdown only of a service without metrics.
THEOREM CleanShutdown == Spec => []CleanOnlyWithoutMetrics
<1>1. LifeInv => CleanOnlyWithoutMetrics
    BY DEF LifeInv, CleanOnlyWithoutMetrics
<1> QED BY <1>1, LifeHolds, PTL

-----------------------------------------------------------------------------
(* What a health check answers.                                            *)

Carries(list, m) == \E k \in DOMAIN list : list[k] = m

LEMMA Sent ==
    ASSUME NEW list \in Seq(Result), NEW r \in Result
    PROVE  \A m : Carries(Append(list, r), m) <=> Carries(list, m) \/ m = r
<1>1. /\ DOMAIN list = 1..Len(list) /\ DOMAIN Append(list, r) = 1..(Len(list) + 1)
      /\ Len(list) \in Nat
      /\ \A k \in 1..Len(list) : Append(list, r)[k] = list[k]
      /\ Append(list, r)[Len(list) + 1] = r
    BY AppendProperties, LenProperties
<1>2. 1..(Len(list) + 1) = 1..Len(list) \cup {Len(list) + 1}
    BY <1>1
<1> DEFINE longer == Append(list, r)
<1> HIDE DEF longer
<1>3. \A m : Carries(longer, m) <=> Carries(list, m) \/ m = r
    BY <1>1, <1>2 DEF Carries, longer
<1> QED BY <1>3 DEF longer

LEMMA Received ==
    ASSUME NEW list \in Seq(Result), list # <<>>
    PROVE  \A m : Carries(list, m) <=> Carries(Tail(list), m) \/ m = Head(list)
<1>1. /\ DOMAIN list = 1..Len(list) /\ DOMAIN Tail(list) = 1..(Len(list) - 1)
      /\ Len(list) \in Nat \ {0} /\ Head(list) = list[1]
      /\ \A k \in 1..(Len(list) - 1) : Tail(list)[k] = list[k + 1]
    BY HeadTailProperties, LenProperties, EmptySeq
<1>2. /\ \A k \in 1..(Len(list) - 1) : k + 1 \in 1..Len(list)
      /\ \A k \in 1..Len(list) : k = 1 \/ (k - 1 \in 1..(Len(list) - 1) /\ (k - 1) + 1 = k)
      /\ 1 \in 1..Len(list)
    BY <1>1
<1> DEFINE shorter == Tail(list)
<1> HIDE DEF shorter
<1>3. DOMAIN shorter = 1..(Len(list) - 1) /\ \A k \in 1..(Len(list) - 1) : shorter[k] = list[k + 1]
    BY <1>1 DEF shorter
<1>4. \A k \in 1..Len(list) : k = 1 \/ shorter[k - 1] = list[k]
    BY <1>2, <1>3
<1>5. ASSUME NEW m, Carries(list, m) PROVE Carries(shorter, m) \/ m = Head(list)
    BY <1>1, <1>2, <1>3, <1>4, <1>5 DEF Carries
<1>6. ASSUME NEW m, Carries(shorter, m) PROVE Carries(list, m)
    BY <1>1, <1>2, <1>3, <1>6 DEF Carries
<1>7. Carries(list, Head(list))
    BY <1>1, <1>2 DEF Carries
<1> QED BY <1>5, <1>6, <1>7 DEF shorter

\* A result as it is sent, and what the response shows once it is collected.
Message(c, r) == [name |-> Name[snapshot[c][r.index]], status |-> r.status]
Collected(c, r) ==
    /\ Name[snapshot[c][r.index]] \in DOMAIN response[c].Checks
    /\ r.status = "unhealthy" => response[c].Status = "unhealthy"
    /\ r.status = "degraded" => response[c].Status # "healthy"

\* Each check asked is running or has a result, each result is in the channel or
\* collected, and what the channel and the response show are results.
AnswerInv(c) ==
    /\ \A r \in results[c] : r.index \in DOMAIN snapshot[c]
    /\ \A i \in DOMAIN snapshot[c] : i \in running[c] \/ \E r \in results[c] : r.index = i
    /\ \A m : Carries(channel[c], m) => \E r \in results[c] : m = Message(c, r)
    /\ \A r \in results[c] : Carries(channel[c], Message(c, r)) \/ Collected(c, r)
    /\ \A n \in DOMAIN response[c].Checks :
         \E r \in results[c] : Message(c, r) = [name |-> n, status |-> response[c].Checks[n]]
    /\ response[c].Status # "healthy" => \E r \in results[c] : r.status = response[c].Status
    /\ code[c] # 0 =>
         /\ running[c] = {} /\ channel[c] = <<>>
         /\ code[c] = IF response[c].Status = "unhealthy" THEN 503 ELSE 200

LEMMA AnswerKept ==
    ASSUME NEW c \in Call, AnswerInv(c),
           snapshot'[c] = snapshot[c], running'[c] = running[c], channel'[c] = channel[c],
           response'[c] = response[c], code'[c] = code[c], results'[c] = results[c]
    PROVE  AnswerInv(c)'
<1>1. \A r : Message(c, r)' = Message(c, r) /\ (Collected(c, r)' <=> Collected(c, r))
    BY DEF Message, Collected
<1> QED BY <1>1 DEF AnswerInv

LEMMA AskStep ==
    ASSUME HealthTypeOK, NEW c \in Call, AnswerInv(c), CheckHealth(c)
    PROVE  AnswerInv(c)'
<1>1. /\ snapshot[c] = <<>> /\ code[c] = 0 /\ code' = code
      /\ snapshot'[c] = checkers /\ running'[c] = DOMAIN checkers
      /\ channel' = channel /\ response' = response /\ results' = results
    BY DEF CheckHealth, HealthTypeOK
<1>2. results[c] = {}
    BY <1>1 DEF AnswerInv
<1> QED BY <1>1, <1>2 DEF AnswerInv

LEMMA ReturnStep ==
    ASSUME HealthTypeOK, NEW c \in Call, NEW i \in running[c], AnswerInv(c), CheckReturns(c, i)
    PROVE  AnswerInv(c)'
<1>1. PICK status \in Statuses :
         /\ channel'[c] = Append(channel[c], [name |-> Name[snapshot[c][i]], status |-> status])
         /\ results'[c] = results[c] \cup {[index |-> i, status |-> status]}
    BY DEF CheckReturns, HealthTypeOK
<1>2. /\ running'[c] = running[c] \ {i} /\ i \in DOMAIN snapshot[c]
      /\ UNCHANGED <<snapshot, response, code>>
    BY DEF CheckReturns, HealthTypeOK
<1> DEFINE new == [index |-> i, status |-> status]
           m == [name |-> Name[snapshot[c][i]], status |-> status]
<1>3. m \in Result /\ channel[c] \in Seq(Result) /\ m = Message(c, new) /\ new.index = i
  <2>1. snapshot[c] \in Seq(Checker) /\ channel[c] \in Seq(Result)
      BY DEF HealthTypeOK
  <2>2. snapshot[c][i] \in Checker
      BY <1>2, <2>1, ElementOfSeq, LenProperties
  <2>3. m \in Result
      BY <2>2 DEF Result, Names
  <2>4. new.index = i /\ new.status = status
      OBVIOUS
  <2>5. m = Message(c, new)
      BY <2>4 DEF Message
  <2> QED BY <2>1, <2>3, <2>4, <2>5
<1>4. \A o : Carries(channel'[c], o) <=> Carries(channel[c], o) \/ o = m
    BY <1>1, <1>3, Sent
<1> HIDE DEF new, m
<1>5. results'[c] = results[c] \cup {new}
    BY <1>1 DEF new
<1>6. \A r : Message(c, r)' = Message(c, r) /\ (Collected(c, r)' <=> Collected(c, r))
    BY <1>2 DEF Message, Collected
<1>7. code'[c] = 0
    BY <1>2 DEF AnswerInv
<1>8. /\ \A r \in results'[c] : r.index \in DOMAIN snapshot'[c]
      /\ \A j \in DOMAIN snapshot'[c] : j \in running'[c] \/ \E r \in results'[c] : r.index = j
    BY <1>2, <1>3, <1>5 DEF AnswerInv
<1>9. /\ \A o : Carries(channel'[c], o) => \E r \in results'[c] : o = Message(c, r)'
      /\ \A r \in results'[c] : Carries(channel'[c], Message(c, r)') \/ Collected(c, r)'
    BY <1>3, <1>4, <1>5, <1>6 DEF AnswerInv
<1>10. /\ \A n \in DOMAIN response'[c].Checks :
            \E r \in results'[c] : Message(c, r)' = [name |-> n, status |-> response'[c].Checks[n]]
       /\ response'[c].Status # "healthy" => \E r \in results'[c] : r.status = response'[c].Status
    BY <1>2, <1>5, <1>6 DEF AnswerInv
<1> QED BY <1>7, <1>8, <1>9, <1>10 DEF AnswerInv

LEMMA CollectStep ==
    ASSUME HealthTypeOK, NEW c \in Call, AnswerInv(c), Collect(c)
    PROVE  AnswerInv(c)'
<1> DEFINE result == Head(channel[c])
           checks == response[c].Checks
           status == Overall(response[c].Status, result.status)
           all == [n \in DOMAIN checks \cup {result.name} |->
                      IF n = result.name THEN result.status ELSE checks[n]]
<1>1. /\ response'[c] = [Status |-> status, Checks |-> all]
      /\ channel'[c] = Tail(channel[c]) /\ channel[c] # <<>>
      /\ UNCHANGED <<snapshot, running, code, results>>
    BY DEF Collect, HealthTypeOK
<1>2. /\ channel[c] \in Seq(Result) /\ result \in Result /\ result.status \in Statuses
      /\ response[c].Status \in Statuses
  <2>1. channel[c] \in Seq(Result)
      BY DEF HealthTypeOK
  <2>2. result \in Result
      BY <1>1, <2>1, HeadTailProperties
  <2>3. response[c].Status \in Statuses
      BY DEF HealthTypeOK
  <2> HIDE DEF result
  <2> QED BY <2>1, <2>2, <2>3 DEF Result
<1>3. \A m : Carries(channel[c], m) <=> Carries(channel'[c], m) \/ m = result
    BY <1>1, <1>2, Received
<1>4. /\ DOMAIN all = DOMAIN checks \cup {result.name} /\ all[result.name] = result.status
      /\ \A n \in DOMAIN checks : n # result.name => all[n] = checks[n]
    OBVIOUS
<1>5. /\ response[c].Status = "unhealthy" \/ result.status = "unhealthy" => status = "unhealthy"
      /\ response[c].Status # "healthy" \/ result.status = "degraded" => status # "healthy"
      /\ status \in {response[c].Status, result.status}
    BY <1>2 DEF Overall, Statuses
<1>6. response'[c].Status = status /\ response'[c].Checks = all
    BY <1>1
<1>7. PICK own \in results[c] : Message(c, own) = result
  <2>1. Carries(channel[c], result)
      BY <1>3
  <2>2. \A m : Carries(channel[c], m) => \E r \in results[c] : m = Message(c, r)
      BY DEF AnswerInv
  <2> HIDE DEF result
  <2> QED BY <2>1, <2>2
<1>8. code'[c] = 0
  <2>1. channel[c] # <<>> /\ code'[c] = code[c]
      BY <1>1
  <2> QED BY <2>1 DEF AnswerInv
<1> HIDE DEF result, checks, status, all
<1>9. result = [name |-> result.name, status |-> result.status] /\ own.status = result.status
  <2>1. result = [name |-> result.name, status |-> result.status]
      BY <1>2 DEF Result
  <2>2. Message(c, own).status = own.status
      BY DEF Message
  <2> QED BY <2>1, <2>2, <1>7
<1>10. \A r : Message(c, r)' = Message(c, r)
    BY <1>1 DEF Message
<1>11. ASSUME NEW r \in results[c]
       PROVE  Carries(channel'[c], Message(c, r)') \/ Collected(c, r)'
  <2>1. CASE Collected(c, r)
      BY <1>1, <1>4, <1>5, <1>6, <2>1 DEF Collected, checks
  <2>2. CASE Message(c, r) = result
    <3>1. Name[snapshot[c][r.index]] = result.name /\ r.status = result.status
        BY <1>9, <2>2 DEF Message
    <3> QED BY <1>1, <1>4, <1>5, <1>6, <3>1 DEF Collected
  <2>3. CASE Carries(channel[c], Message(c, r)) /\ Message(c, r) # result
      BY <1>3, <1>10, <2>3
  <2> QED BY <2>1, <2>2, <2>3 DEF AnswerInv
<1>12. ASSUME NEW n \in DOMAIN all
       PROVE  \E r \in results[c] : Message(c, r) = [name |-> n, status |-> all[n]]
  <2>1. CASE n = result.name
      BY <1>4, <1>7, <1>9, <2>1
  <2>2. CASE n # result.name
    <3>1. n \in DOMAIN checks /\ all[n] = checks[n]
        BY <1>4, <2>2
    <3> QED BY <3>1 DEF AnswerInv, checks
  <2> QED BY <2>1, <2>2
<1>13. status # "healthy" => \E r \in results[c] : r.status = status
    BY <1>5, <1>9 DEF AnswerInv
<1>14. \A m : Carries(channel'[c], m) => \E r \in results[c] : m = Message(c, r)
    BY <1>3 DEF AnswerInv
<1> QED BY <1>1, <1>6, <1>8, <1>10, <1>11, <1>12, <1>13, <1>14 DEF AnswerInv

LEMMA ServeStep ==
    ASSUME HealthTypeOK, NEW c \in Call, AnswerInv(c), ServeHTTP(c)
    PROVE  AnswerInv(c)'
<1>1. /\ running[c] = {} /\ channel[c] = <<>>
      /\ code'[c] = IF response[c].Status = "unhealthy" THEN 503 ELSE 200
      /\ UNCHANGED <<snapshot, running, channel, response, results>>
    BY DEF ServeHTTP, HealthTypeOK
<1>2. \A r : Message(c, r)' = Message(c, r) /\ (Collected(c, r)' <=> Collected(c, r))
    BY <1>1 DEF Message, Collected
<1>3. code'[c] # 0 => code'[c] = IF response'[c].Status = "unhealthy" THEN 503 ELSE 200
    BY <1>1
<1> QED BY <1>1, <1>2, <1>3 DEF AnswerInv

Answers == \A c \in Call : AnswerInv(c)

LEMMA AnswersInit == Init => Answers
<1> SUFFICES ASSUME Init, NEW c \in Call PROVE AnswerInv(c)
    BY DEF Answers
<1>1. /\ snapshot[c] = <<>> /\ running[c] = {} /\ channel[c] = <<>>
      /\ response[c] = EmptyResponse /\ code[c] = 0 /\ results[c] = {}
    BY DEF Init, HealthInit
<1>2. response[c].Status = "healthy" /\ DOMAIN response[c].Checks = {}
    BY <1>1 DEF EmptyResponse
<1>3. \A m : ~Carries(channel[c], m)
    BY <1>1 DEF Carries
<1> QED BY <1>1, <1>2, <1>3 DEF AnswerInv

LEMMA AnswersStep == TypeOK /\ Answers /\ [Next]_vars => Answers'
<1> SUFFICES ASSUME TypeOK, Answers, [Next]_vars, NEW c \in Call PROVE AnswerInv(c)'
    BY DEF Answers
<1> DEFINE Same == /\ snapshot'[c] = snapshot[c] /\ running'[c] = running[c]
                   /\ channel'[c] = channel[c] /\ response'[c] = response[c]
                   /\ code'[c] = code[c] /\ results'[c] = results[c]
<1>1. HealthTypeOK /\ AnswerInv(c)
    BY DEF TypeOK, Answers
<1>2. Same => AnswerInv(c)'
    BY <1>1, AnswerKept
<1>3. ASSUME NEW d \in Call, HandleHealth(d) PROVE AnswerInv(c)'
  <2>1. HealthStep(d)
      BY <1>3 DEF HandleHealth
  <2>2. CASE d = c
      BY <1>1, <2>1, <2>2, AskStep, ReturnStep, CollectStep, ServeStep DEF HealthStep
  <2>3. CASE d # c
    <3>1. CASE CheckHealth(d)
        BY <1>1, <1>2, <2>3, <3>1 DEF CheckHealth, HealthTypeOK
    <3>2. ASSUME NEW i \in running[d], CheckReturns(d, i) PROVE Same
        BY <1>1, <2>3, <3>2 DEF CheckReturns, HealthTypeOK
    <3>3. CASE Collect(d)
        BY <1>1, <1>2, <2>3, <3>3 DEF Collect, HealthTypeOK
    <3>4. CASE ServeHTTP(d)
        BY <1>1, <1>2, <2>3, <3>4 DEF ServeHTTP, HealthTypeOK
    <3> QED BY <1>2, <2>1, <3>1, <3>2, <3>3, <3>4 DEF HealthStep
  <2> QED BY <2>2, <2>3
<1>4. CASE StartServices \/ RegisterAnother
    BY <1>2, <1>4 DEF StartServices, RegisterAnother, RegisterChecker
<1>5. ASSUME UNCHANGED healthVars PROVE AnswerInv(c)'
    BY <1>2, <1>5 DEF healthVars
<1>6. CASE Load \/ Validate \/ SetupLogger \/ BeginShutdown \/ Drained \/ StopProfiler
           \/ MainReturns
    BY <1>5, <1>6 DEF Load, Validate, SetupLogger, BeginShutdown, Drained, StopProfiler,
                      MainReturns
<1>7. CASE ServerStep \/ Signal \/ TimeoutExpires \/ UNCHANGED vars
    BY <1>5, <1>7 DEF ServerStep, StartProfiler, ListenAndServe, Signal, TimeoutExpires, vars
<1> QED BY <1>3, <1>4, <1>6, <1>7 DEF Next, MainStep

\* Whatever the order in which checks return, whoever registers more of them and
\* whatever names they share, the answer has waited for all that were asked and
\* is as bad as the worst of their results, one that Checks has lost included.
THEOREM AnswersAreWorst == Spec => []WorstDecides
<1>1. TypeOK /\ Answers => WorstDecides
  <2> SUFFICES ASSUME TypeOK, Answers, NEW c \in Call, code[c] # 0
               PROVE  /\ {r.index : r \in results[c]} = DOMAIN snapshot[c]
                      /\ code[c] = 503 <=> \E r \in results[c] : r.status = "unhealthy"
                      /\ response[c].Status = "degraded" <=>
                            /\ \E r \in results[c] : r.status = "degraded"
                            /\ ~\E r \in results[c] : r.status = "unhealthy"
                      /\ DOMAIN response[c].Checks = {Name[snapshot[c][i]] : i \in DOMAIN snapshot[c]}
                      /\ \A n \in DOMAIN response[c].Checks :
                           \E r \in results[c] : /\ Name[snapshot[c][r.index]] = n
                                                 /\ r.status = response[c].Checks[n]
      BY DEF WorstDecides
  <2>1. /\ AnswerInv(c) /\ running[c] = {} /\ channel[c] = <<>>
        /\ code[c] = IF response[c].Status = "unhealthy" THEN 503 ELSE 200
      BY DEF Answers, AnswerInv
  <2>2. \A r \in results[c] : Collected(c, r)
    <3>1. \A m : ~Carries(channel[c], m)
        BY <2>1 DEF Carries
    <3> QED BY <2>1, <3>1 DEF AnswerInv
  <2>3. {r.index : r \in results[c]} = DOMAIN snapshot[c]
      BY <2>1 DEF AnswerInv
  <2>4. response[c].Status \in Statuses
      BY DEF TypeOK, HealthTypeOK
  <2>5. code[c] = 503 <=> \E r \in results[c] : r.status = "unhealthy"
      BY <2>1, <2>2 DEF AnswerInv, Collected
  <2>6. response[c].Status = "degraded" <=>
            /\ \E r \in results[c] : r.status = "degraded"
            /\ ~\E r \in results[c] : r.status = "unhealthy"
      BY <2>1, <2>2, <2>4 DEF AnswerInv, Collected, Statuses
  <2>7. \A n \in DOMAIN response[c].Checks :
           \E r \in results[c] : /\ Name[snapshot[c][r.index]] = n
                                 /\ r.status = response[c].Checks[n]
      BY <2>1 DEF AnswerInv, Message
  <2>8. \A i \in DOMAIN snapshot[c] : Name[snapshot[c][i]] \in DOMAIN response[c].Checks
      BY <2>2, <2>3 DEF Collected
  <2>9. \A r \in results[c] : r.index \in DOMAIN snapshot[c]
      BY <2>3
  <2> QED BY <2>3, <2>5, <2>6, <2>7, <2>8, <2>9
<1> QED BY <1>1, AnswersInit, AnswersStep, TypeCorrect, PTL DEF Spec
=============================================================================
