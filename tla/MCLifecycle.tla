----------------------------- MODULE MCLifecycle -----------------------------
(* Instances of ServiceLifecycle for TLC. *)
EXTENDS ServiceLifecycle

CONSTANTS get, service, broker, replica

\* The shipped file, the defaults alone, one port for two servers, no profiler
\* and a log file, a log format in capitals.
SomeFiles ==
    {ShippedConfig, DefaultConfig,
     [ShippedConfig EXCEPT !.MetricsPort = 8080],
     [ShippedConfig EXCEPT !.ProfilingEnabled = FALSE, !.ProfilingPort = 0,
                           !.Output = "service.log"],
     [ShippedConfig EXCEPT !.Format.exact = FALSE]}

Address(h) == [host |-> h, port |-> 9092]
Unset == [KAFKA_BROKERS |-> <<>>, SERVER_PORT |-> 0, LOG_LEVEL |-> Exactly("")]

\* Nothing set; the port of the profiler; a port that another process has; two
\* brokers; a level that is none.
SomeEnvironments ==
    {Unset,
     [Unset EXCEPT !.SERVER_PORT = 6060],
     [Unset EXCEPT !.SERVER_PORT = 7070],
     [Unset EXCEPT !.KAFKA_BROKERS = <<Address("kafka-1"), Address("kafka-2")>>],
     [Unset EXCEPT !.LOG_LEVEL = Exactly("verbose")]}

\* Two checkers report under one name.
ServiceNames == [k \in Checker |-> IF k = service THEN "service" ELSE "kafka"]
=============================================================================
