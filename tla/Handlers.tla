------------------------------ MODULE Handlers ------------------------------
(***************************************************************************)
(* What models of request handlers share. Each worker runs one request at  *)
(* a time, a handler of the API with a session of its own (get_session,    *)
(* app/dependencies/database.py), and the request is at one of its steps:  *)
(* between two statements other workers run.                               *)
(***************************************************************************)
CONSTANTS
  Workers,  \* requests that can be in flight together
  None      \* no value

VARIABLE req  \* the request each worker is running

At(w, pc) == req[w].pc = pc
=============================================================================
