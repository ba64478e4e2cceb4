------------------------------ MODULE MCFacade ------------------------------
(* The facade for TLC.  Threads that make the same calls are interchangeable.  *)
EXTENDS Facade

CONSTANTS
    Calls,      \* the kinds of calls of a thread
    ReadingOnly \* threads that make live reads only

MCWorkload == [t \in Thread |-> IF t \in ReadingOnly THEN {"read"} ELSE Calls]

ThreadSymmetry == Permutations(Thread)
=============================================================================
