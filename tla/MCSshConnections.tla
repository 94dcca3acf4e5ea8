-------------------------- MODULE MCSshConnections ---------------------------
(***************************************************************************)
(* Instances of SshConnections for TLC.                                    *)
(***************************************************************************)
EXTENDS SshConnections, TLC

\* As long as the code keeps a connection.
Expiry == SSH_CACHE - EXPIRED_INTERVAL_MS
OneExpiry == {Expiry}

Interchangeable == Permutations(Reqs) \union Permutations(Ids) \union Permutations(Ports)

===============================================================================
