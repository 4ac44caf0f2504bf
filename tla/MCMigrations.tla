---------------------------- MODULE MCMigrations ----------------------------
(* An old image, the next one, and a longer fork that differs from the     *)
(* second migration on, bootstrapping one database.                        *)
EXTENDS MigrationRunner, TLC

CONSTANTS old, new, fork, m1, m2, f2, f3

MCDeployments == {old, new, fork}
MCMigrationSet == {m1, m2, f2, f3}
MCCarries == (old :> <<m1>>) @@ (new :> <<m1, m2>>) @@ (fork :> <<m1, f2, f3>>)
=============================================================================
