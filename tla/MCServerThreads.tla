-------------------------- MODULE MCServerThreads ---------------------------
(* ServerThreads with one timer, one query with a callback, one request of the *)
(* network and at most two signals.                                            *)
EXTENDS ServerThreads

MCEvent == {"timer"}
MCNoDelay == {0}
MCDelay == {1}
MCQuery == {"query"}
MCCallback == {"callback"}
MCCallbackOf == [q \in MCQuery |-> "callback"]
MCLogin == {"login"}
MCSigint == {"sigint"}
MCSignal == {"sigint", "sigterm"}
=============================================================================
