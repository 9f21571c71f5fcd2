-------------------------------- MODULE Desk --------------------------------
(* The requests the router is serving at the same time.  A handler that    *)
(* holds no lock is a clerk going through its statements one by one; what  *)
(* it read may be stale when it writes.                                    *)
CONSTANT Clerk      \* requests in flight

NoOne == "idle"     \* the step of a clerk that serves nothing
=============================================================================
