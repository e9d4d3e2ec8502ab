----------------------------- MODULE MCWriteLoop ----------------------------
(* Small instances of WriteLoop.                                           *)
EXTENDS WriteLoop

\* Every way to configure the server.  "other" stands for a value that main()
\* does not know.
AllModes   == {NoFlag, "low-latency", "balanced", "high-throughput", "other"}
AllFlushes == {NoFlag, "immediate", "periodic", "auto", "other"}

\* One way to get each strategy.
NoMode     == {NoFlag}
Strategies == {"immediate", "periodic", "auto"}

=============================================================================
