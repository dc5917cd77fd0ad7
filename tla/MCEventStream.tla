--------------------------- MODULE MCEventStream ---------------------------
(* EventStream on a small instance: two API processes behind one database   *)
(* and one subscriber.                                                      *)
EXTENDS EventStream
=============================================================================
