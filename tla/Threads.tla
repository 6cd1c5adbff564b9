------------------------------ MODULE Threads -------------------------------
(***************************************************************************)
(* The threads app.run serves requests on, one each (app.py:508-541).      *)
(* Connections are in autocommit mode (engine/db.py:280-292), so a thread  *)
(* can be overtaken, or die, between any two of its statements; what it    *)
(* does at each position is said by the modules that extend this one.      *)
(***************************************************************************)

CONSTANT Requests   \* request threads, each serving one call

VARIABLE pc         \* where each request stands

\* Request r gets to its next statement, or to its end.
GoTo(r, where) == pc' = [pc EXCEPT ![r] = where]
=============================================================================
