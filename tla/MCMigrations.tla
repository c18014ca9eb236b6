---------------------------- MODULE MCMigrations ----------------------------
(* An instance of Migrations: a first build, one that adds files, and one  *)
(* that edits a file.                                                      *)
EXTENDS Migrations

CONSTANTS r1, r2, c1, c2

MCBuilds == {<<c1>>, <<c1, c1, c1>>, <<c1, c2>>}
=============================================================================
