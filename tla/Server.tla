------------------------------- MODULE Server -------------------------------
(***************************************************************************)
(* The API's process, as sign-in (RateLimiter, AccountAccess) and tenants  *)
(* (TenantOnboarding, TenantPlan) see it.  The endpoints are plain         *)
(* functions, which FastAPI runs in a pool of threads, one request to a    *)
(* thread; a step of a request ends where another thread may come between. *)
(***************************************************************************)

CONSTANT Threads  \* threads of the pool

VARIABLE at       \* the step of its request each thread is at

=============================================================================
