---------------------------- MODULE ConcurrentPeek ----------------------------
(***************************************************************************)
(* include/sbbdep/utils/concurrentpeek.hpp: threads pick the elements of a *)
(* vector, one at a time and under a mutex, until they are given the       *)
(* end-of-list element.  Positions stand for the elements, 0 for the end.  *)
(***************************************************************************)
EXTENDS Naturals

CONSTANT Size           \* number of elements of _data
ASSUME SizeAssumption == Size \in Nat

VARIABLE pos            \* _pos

PeekInit == pos = 1

AtEnd == pos > Size

Peeked == IF AtEnd THEN 0 ELSE pos

\* Mutants: the position is not advanced, or advanced beyond the end.
PeekStays == UNCHANGED pos

PeekBeyond == pos' = pos + 1

\* operator() and pop(): the value returned is Peeked.
Peek == pos' = IF AtEnd THEN pos ELSE pos + 1
=============================================================================
