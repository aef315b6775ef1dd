----------------------------- MODULE MCDatabase -----------------------------
(* Database with saves of two statements, told apart by two numbers and tried *)
(* twice, two losses of the connection and one refused statement.             *)
EXTENDS Database

MCKind == {"player", "houses"}
=============================================================================
