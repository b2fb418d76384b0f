---------------------------- MODULE MCSecretStore ----------------------------
\* Constant values for the runs of SecretStore.
EXTENDS SecretStore

CONSTANTS t1, t2, t3, server, cli

\* Two threads of the server, and the command line beside it.
MCProcessOf == [t \in Threads |-> IF t = t3 THEN cli ELSE server]

=============================================================================
