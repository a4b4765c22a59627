----------------------------- MODULE MCEvThread -----------------------------
(* One or two event threads, their owner and another thread that wakes them. *)
EXTENDS EvThread

\* What the lists hold and what the loop watches add up to the threads between
\* their start and their end, through every run, and a request that waits in a
\* list has been told to the loop.
RegistrationKept == TypeOK /\ RegistrationSettles /\ RegistrationTold
=============================================================================
