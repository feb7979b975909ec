------------------------------- MODULE CArray -------------------------------
(***************************************************************************)
(* The growing array of tree_sitter/array.h in which the C scanner keeps   *)
(* its indentation stack: the operations scanner.c uses.                   *)
(*                                                                         *)
(* Data.  contents is the memory the array owns, slot by slot, <<>> for    *)
(* NULL; a slot that was allocated and not written yet holds Unwritten.    *)
(* capacity is the field of that name, which the macros trust to be the    *)
(* number of slots.                                                        *)
(***************************************************************************)
EXTENDS Integers, Sequences

CONSTANT LeastCapacity  \* the slots of a first allocation, 8 in the code

ASSUME LeastCapacityAssumption == LeastCapacity \in Nat \ {0}

Unwritten == -1

\* array_init
NullArray == [contents |-> <<>>, size |-> 0, capacity |-> 0]

\* array_delete: the memory is given back.
Deleted(array) == [array EXCEPT !.contents = <<>>, !.size = 0, !.capacity = 0]

\* Variant (mutation testing): the memory is new and the old slots are not copied.
Allocated(slots, n) == [i \in 1 .. n |-> Unwritten]

\* ts_malloc and ts_realloc: old slots keep what they hold.
Reallocated(slots, n) ==
  [i \in 1 .. n |-> IF i <= Len(slots) THEN slots[i] ELSE Unwritten]

\* _array__reserve
Reserved(array, capacity) ==
  IF capacity > array.capacity
    THEN [array EXCEPT !.contents = Reallocated(@, capacity), !.capacity = capacity]
    ELSE array

\* _array__grow: at least twice the capacity, at least LeastCapacity slots.
Grown(array, count) ==
  LET needed == array.size + count
      doubled == IF 2 * array.capacity < LeastCapacity THEN LeastCapacity
                 ELSE 2 * array.capacity
  IN IF needed > array.capacity
       THEN Reserved(array, IF doubled < needed THEN needed ELSE doubled)
       ELSE array

\* array_push
Pushed(array, element) ==
  LET grown == Grown(array, 1)
  IN [grown EXCEPT !.contents = [@ EXCEPT ![array.size + 1] = element], !.size = @ + 1]

\* array_pop, which leaves the memory as it is, and array_back.
Popped(array) == [array EXCEPT !.size = @ - 1]
Back(array) == array.contents[array.size]

\* What the array means, and that its fields tell the truth about its memory.
Stack(array) == SubSeq(array.contents, 1, array.size)

Sound(array) ==
  /\ array.capacity = Len(array.contents)
  /\ array.size \in 0 .. array.capacity
=============================================================================
