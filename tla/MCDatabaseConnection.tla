------------------------ MODULE MCDatabaseConnection ------------------------
(* Instances of DatabaseConnection for TLC. *)
EXTENDS DatabaseConnection

===============================================================================
