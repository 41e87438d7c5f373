--------------------------- MODULE MCPgRepository ---------------------------
(* Instances of PgRepository for TLC. *)
EXTENDS PgRepository
=============================================================================
