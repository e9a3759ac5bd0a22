----------------------------- MODULE Goroutines -----------------------------
(* Who calls the objects that the handlers of a process share, those of      *)
(* KeyLock, RateLimit and Metrics.                                           *)
CONSTANTS Caller,  \* goroutines, one for each update or request being handled
          None     \* nil: nobody, nothing

=============================================================================
