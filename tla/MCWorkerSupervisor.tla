--------------------------- MODULE MCWorkerSupervisor ---------------------------
\* The bounds are in the cfg files: small limits, so that runs of failures and
\* of exits come to their end.
EXTENDS WorkerSupervisor

=============================================================================
