---------------------------- MODULE Configuration ----------------------------
(***************************************************************************)
(* The rules of internal/config: what Load makes of a file and of the      *)
(* environment, which configurations Validate accepts, and which ones the  *)
(* constructor of the Sarama producer and the logger accept after it.      *)
(* Pure operators; ServiceLifecycle runs them.                             *)
(*                                                                         *)
(* Durations are in milliseconds, multipliers in tenths (and not NaN).  A  *)
(* word that is compared with a list is its spelling in the list, and      *)
(* whether it is written exactly so or in other letters' case.  An address *)
(* is its host and port; what SplitHostPort or Atoi refuse has port 0.     *)
(* Fields that no rule reads are left out.  Products do not overflow:      *)
(* their factors' own rules refuse what would.                             *)
(***************************************************************************)
EXTENDS Integers, Sequences

Broker == [host : STRING, port : Int]
Word == [word : STRING, exact : BOOLEAN]

Config == [
    Brokers : Seq(Broker), Compression : Word,
    BatchSize : Int, FlushFrequency : Int, MaxMessageBytes : Int,
    MaxAttempts : Int, InitialBackoff : Int, MaxBackoff : Int, BackoffMultiplier : Int,
    Connection : Int, Request : Int, Delivery : Int,
    Protocol : Word, Username : STRING, Password : STRING, CertificatePath : STRING,
    Host : STRING, Port : Int, WriteTimeout : Int, ShutdownTimeout : Int,
    Level : Word, Format : Word, Output : STRING,
    MetricsPort : Int, ProfilingEnabled : BOOLEAN, ProfilingPort : Int,
    WorkerPoolSize : Int, ChannelBufferSize : Int, MessagePoolSize : Int]

Second == 1000
KB == 1024
MB == 1024 * KB

Exactly(w) == [word |-> w, exact |-> TRUE]

-----------------------------------------------------------------------------
(* Load.                                                                   *)

DefaultConfig == [
    Brokers |-> <<[host |-> "localhost", port |-> 9092]>>, Compression |-> Exactly("lz4"),
    BatchSize |-> 100, FlushFrequency |-> 5, MaxMessageBytes |-> MB,
    MaxAttempts |-> 3, InitialBackoff |-> 100, MaxBackoff |-> 30 * Second, BackoffMultiplier |-> 20,
    Connection |-> 30 * Second, Request |-> 60 * Second, Delivery |-> 300 * Second,
    Protocol |-> Exactly("PLAINTEXT"), Username |-> "", Password |-> "", CertificatePath |-> "",
    Host |-> "0.0.0.0", Port |-> 8080, WriteTimeout |-> 30 * Second, ShutdownTimeout |-> 60 * Second,
    Level |-> Exactly("info"), Format |-> Exactly("json"), Output |-> "stdout",
    MetricsPort |-> 9090, ProfilingEnabled |-> TRUE, ProfilingPort |-> 6060,
    WorkerPoolSize |-> 10, ChannelBufferSize |-> 1024, MessagePoolSize |-> 1000]

\* What configs/kafka-producer.yaml, laid over the defaults, amounts to.
ShippedConfig == [DefaultConfig EXCEPT !.MessagePoolSize = 2048]

\* KAFKA_BROKERS lists some well-formed addresses, or none; SERVER_PORT is 0
\* when it is not set, or not a number; LOG_LEVEL is "" when it is not set.
Environment == [KAFKA_BROKERS : Seq(Broker), SERVER_PORT : Int, LOG_LEVEL : Word]

\* Addresses that are not split at their commas are one address with too many
\* colons.
OneBroker(list) == IF Len(list) = 1 THEN list ELSE <<[list[1] EXCEPT !.port = 0]>>

applyEnvironmentOverrides(c, env) ==
    [c EXCEPT !.Brokers = IF env.KAFKA_BROKERS # <<>> THEN OneBroker(env.KAFKA_BROKERS) ELSE @,
              !.Port = IF env.SERVER_PORT > 0 THEN env.SERVER_PORT ELSE @,
              !.Level = IF env.LOG_LEVEL.word # "" THEN env.LOG_LEVEL ELSE @]

-----------------------------------------------------------------------------
(* Validate, which collects the errors of all rules: whether there is none. *)

MinPort == 1
MaxPort == 65535
MaxChannelBufferSize == 10000
MaxMessagePoolSize == 100000
ValidCompressionTypes == {"none", "gzip", "lz4", "snappy", "zstd"}
ValidLogLevels == {"debug", "info", "warn", "error"}
ValidLogFormats == {"json", "text"}
ValidSecurityProtocols == {"PLAINTEXT", "SASL_PLAINTEXT", "SASL_SSL", "SSL"}
SASL == {"SASL_PLAINTEXT", "SASL_SSL"}
TLS == {"SASL_SSL", "SSL"}

\* Every caller compares without regard to case.
isValidChoice(value, validChoices) == value.word \in validChoices

validateBrokerAddress(b) == b.host # "" /\ b.port \in MinPort..MaxPort

validateBrokers(c) ==
    c.Brokers # <<>> /\ \A i \in DOMAIN c.Brokers : validateBrokerAddress(c.Brokers[i])

validateKafkaConfig(c) ==
    /\ validateBrokers(c)
    /\ c.BatchSize \in 1..1000
    /\ c.MaxMessageBytes \in KB..10 * MB
    /\ isValidChoice(c.Compression, ValidCompressionTypes)
    /\ c.MaxAttempts \in 0..10
    /\ c.BackoffMultiplier \in 10..50
    /\ isValidChoice(c.Protocol, ValidSecurityProtocols)

validateServerConfig(c) ==
    /\ c.Port \in MinPort..MaxPort
    /\ c.Host # ""

validateLoggingConfig(c) ==
    /\ isValidChoice(c.Level, ValidLogLevels)
    /\ isValidChoice(c.Format, ValidLogFormats)

validateMonitoringConfig(c) ==
    /\ c.MetricsPort \in MinPort..MaxPort
    /\ c.ProfilingEnabled => c.ProfilingPort \in MinPort..MaxPort

validatePerformanceConfig(c) ==
    /\ c.WorkerPoolSize \in 1..100
    /\ c.ChannelBufferSize \in 1..MaxChannelBufferSize
    /\ c.MessagePoolSize \in 100..MaxMessagePoolSize

Ports(c) == {c.Port, c.MetricsPort} \cup (IF c.ProfilingEnabled THEN {c.ProfilingPort} ELSE {})

\* Ports that are seen a second time.  They are the keys of a map before they
\* are compared, so of two equal ports one is left.
Conflicting(ports) == {p \in ports : \E q \in ports \ {p} : q = p}

\* Here the protocol is compared exactly.
validateCrossFieldRules(c) ==
    /\ Conflicting(Ports(c)) = {}
    /\ c.Connection <= c.Request
    /\ c.Request <= c.Delivery
    /\ c.BatchSize * c.MaxMessageBytes <= 100 * MB
    /\ c.ShutdownTimeout >= c.WriteTimeout
    /\ c.MessagePoolSize >= 2 * c.ChannelBufferSize
    /\ c.Protocol.exact /\ c.Protocol.word \in SASL => c.Username # ""
    /\ c.Protocol.exact /\ c.Protocol.word \in TLS => c.CertificatePath # ""

ValidateConfiguration(c) ==
    /\ validateKafkaConfig(c) /\ validateServerConfig(c) /\ validateLoggingConfig(c)
    /\ validateMonitoringConfig(c) /\ validatePerformanceConfig(c) /\ validateCrossFieldRules(c)

\* Two more sets of rules, which nothing in the program calls.
ValidateRuntimeConstraints(c) ==
    /\ c.BatchSize * c.MaxMessageBytes * c.WorkerPoolSize <= 512 * MB
    /\ c.FlushFrequency \in 1..60 * Second

ValidateForProduction(c) ==
    /\ c.Level # Exactly("debug")
    /\ ~c.ProfilingEnabled
    /\ c.Protocol # Exactly("PLAINTEXT")

-----------------------------------------------------------------------------
(* What the logger and the producer make of a configuration.               *)

\* SetupLogger compares the format exactly, and ParseLevel knows more levels.
LoggerAccepts(c) ==
    /\ c.Level.word \in ValidLogLevels \cup {"", "dpanic", "panic", "fatal"}
    /\ c.Format.exact /\ c.Format.word \in ValidLogFormats

setCompressionType(c) == c.Compression.word \in ValidCompressionTypes \cup {""}

setBatchSettings(c) ==
    /\ c.BatchSize \in 1..1000 /\ c.MaxMessageBytes \in KB..MB
    /\ c.FlushFrequency \in 1..10 * Second

setRetryPolicy(c) ==
    /\ c.MaxAttempts \in 0..10
    /\ c.InitialBackoff \in 10..Second /\ c.MaxBackoff \in Second..300 * Second
    /\ c.BackoffMultiplier \in 10..50

setTimeoutSettings(c) ==
    /\ c.Connection \in Second..30 * Second /\ c.Request \in Second..60 * Second
    /\ c.Delivery \in Second..300 * Second

setSecurityConfig(c) ==
    /\ c.Protocol.word \in ValidSecurityProtocols
    /\ c.Protocol.word \in SASL => c.Username # "" /\ c.Password # ""

\* NewProducerConfiguration returns a model of the configuration, or an error.
ProducerAccepts(c) == /\ validateBrokers(c) /\ setCompressionType(c) /\ setBatchSettings(c)
                      /\ setRetryPolicy(c) /\ setTimeoutSettings(c) /\ setSecurityConfig(c)

\* What the Sarama client is told: acks and certificate are not passed on.
SaramaConfig(c) == [
    RequiredAcks |-> "all",
    Compression |-> IF c.Compression.word = "" THEN "none" ELSE c.Compression.word,
    RetryMax |-> c.MaxAttempts, RetryBackoff |-> c.InitialBackoff,
    FlushMessages |-> c.BatchSize, FlushBytes |-> c.MaxMessageBytes,
    FlushFrequency |-> c.FlushFrequency,
    DialTimeout |-> c.Connection, WriteTimeout |-> c.Request, ReadTimeout |-> c.Request,
    TLS |-> c.Protocol.word \in TLS,
    SASL |-> IF c.Protocol.word \in SASL THEN <<c.Username, c.Password>> ELSE <<>>]
=============================================================================
