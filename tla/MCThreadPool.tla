---------------------------- MODULE MCThreadPool ----------------------------
(* ThreadPool with three users and two workers: two of the users can sleep on
   cvar_queue when a worker becomes free.                                     *)
EXTENDS ThreadPool

CONSTANTS u1, u2, u3
MCUsers == {u1, u2, u3}
=============================================================================
