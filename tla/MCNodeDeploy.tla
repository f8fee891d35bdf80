----------------------------- MODULE MCNodeDeploy -----------------------------
(* Instances of NodeDeploy for TLC. *)
EXTENDS NodeDeploy, TLC

\* Every user attached to every listener, in other respects any.
MCFirstDatabases == [rows: SUBSET Listeners, clients: [Listeners -> {Users}],
                     enabled: SUBSET Users, chain: BOOLEAN]
=============================================================================
