---------------------------- MODULE MCMigrations ----------------------------
(***************************************************************************)
(* A TLC instance of Migrations: four files that stand for the kinds in    *)
(* the repository.                                                         *)
(***************************************************************************)
EXTENDS Migrations

\* businesses (001), api_keys, which refers to it (004), a column added to
\* the first (009) and one added to the second (011).
RepositoryNeeds == <<{}, {1}, {1}, {2}>>
=============================================================================
