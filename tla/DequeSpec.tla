----------------------------- MODULE DequeSpec -----------------------------
(***************************************************************************)
(* What the id pools of package stack promise: a double-ended queue of     *)
(* values.  A pop of an empty deque returns nil and changes nothing.  The  *)
(* detailed linked list of StackList is checked against this module.       *)
(***************************************************************************)
EXTENDS Naturals, Sequences

CONSTANTS Values,   \* the values that are pushed
          Nil       \* what a pop of an empty deque returns

VARIABLES items,    \* the deque, front (bottom) first
          ret       \* the value the last pop returned

vars == <<items, ret>>

Init == /\ items = <<>>
        /\ ret = Nil

PushBack(v)  == /\ items' = Append(items, v)
                /\ UNCHANGED ret

PushFront(v) == /\ items' = <<v>> \o items
                /\ UNCHANGED ret

PopBack ==
    IF items = <<>>
    THEN /\ ret' = Nil
         /\ UNCHANGED items
    ELSE /\ ret' = items[Len(items)]
         /\ items' = SubSeq(items, 1, Len(items) - 1)

PopFront ==
    IF items = <<>>
    THEN /\ ret' = Nil
         /\ UNCHANGED items
    ELSE /\ ret' = Head(items)
         /\ items' = Tail(items)

Next == \/ \E v \in Values : PushBack(v) \/ PushFront(v)
        \/ PopBack
        \/ PopFront

Spec == Init /\ [][Next]_vars
=============================================================================
