-------------------------- MODULE MCDatabaseTasks ---------------------------
(* DatabaseTasks with three queries, one with a callback, added and flushed by *)
(* the dispatcher's and one more thread.                                       *)
EXTENDS DatabaseTasks

MCQuery == {"q1", "q2", "q3"}
MCWithCallback == {"q1"}
MCThread == {"dispatcher", "main"}
=============================================================================
