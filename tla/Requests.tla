-------------------------------- MODULE Requests --------------------------------
(***************************************************************************)
(* What the services around the memory share: the threads that serve the   *)
(* requests of one user, and the backend their rows are kept in.           *)
(***************************************************************************)
EXTENDS Integers, FiniteSets

CONSTANT Threads
ASSUME ThreadsAssumption == IsFiniteSet(Threads) /\ Threads # {}

VARIABLE local      \* SQLite of a single process, else Postgres

(* A thread without a request; one with a request has it at some step.     *)
Rest == [at |-> "rest"]
=============================================================================
