---------------------------- MODULE MCDispatcher ----------------------------
(* Dispatcher with two timers, two tasks of the network (one that may expire) *)
(* and the task of shutdown(), on three threads.                              *)
EXTENDS Dispatcher

MCTimer == {"timer1", "timer2"}
MCExpiring == {"walk"}
MCTask == {"timer1", "timer2", "walk", "login", "closing"}
MCThread == {"dispatcher", "scheduler", "network"}
=============================================================================
