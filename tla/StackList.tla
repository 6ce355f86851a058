----------------------------- MODULE StackList -----------------------------
(***************************************************************************)
(* The doubly linked list of src/pkg/stack/stack.go.  The Go heap is a     *)
(* function from node addresses to node records; a push takes a fresh      *)
(* address (the Go allocator never hands out a live one, and nothing       *)
(* frees a node while a pointer still names it in a way that is read).     *)
(* Address 0 is nil.  The list refines DequeSpec under the mapping that    *)
(* walks `length' nodes from `bot' along `next'.                          *)
(***************************************************************************)
EXTENDS Naturals, Sequences, FiniteSets, TLC

CONSTANTS Values,     \* the values pushed (the pools push id numbers)
          MaxNodes,   \* bound on allocations: the number of pushes
          Nil         \* the nil interface{} PopBack/PopFront return

ASSUME MaxNodes \in Nat \ {0}

nil == 0
Addrs == 1..MaxNodes

VARIABLES heap,     \* address -> [value, prev, next] of every allocated node
          top, bot, length,
          ret       \* the value the last pop returned

vars == <<heap, top, bot, length, ret>>

\* A fresh node from &node{value: value}: prev and next are nil.
NewNode(v) == [value |-> v, prev |-> nil, next |-> nil]

\* The next address the allocator hands out.
Fresh == Cardinality(DOMAIN heap) + 1

\* New: &Stack{nil, nil, 0}
Init == /\ heap = [a \in {} |-> NewNode(Nil)]
        /\ top = nil /\ bot = nil /\ length = 0
        /\ ret = Nil

\* Len
StackLen == length

\* A field write p.f = x through a pointer p.
SetField(h, p, f, x) == [h EXCEPT ![p][f] = x]

\* Mutant: PopBack returns the node itself (`return n' for
\* `return n.value'), which compiles because the result is interface{}.
PopBackReturnsNode ==
    IF length = 0
    THEN /\ ret' = Nil
         /\ UNCHANGED <<heap, top, bot, length>>
    ELSE /\ top' = heap[top].prev
         /\ heap' = IF heap[top].prev # nil
                    THEN SetField(heap, heap[top].prev, "next", nil) ELSE heap
         /\ length' = length - 1
         /\ ret' = top
         /\ UNCHANGED bot

PopBack ==
    IF length = 0
    THEN /\ ret' = Nil
         /\ UNCHANGED <<heap, top, bot, length>>
    ELSE LET n == top
             t == heap[n].prev
         IN /\ top' = t
            /\ heap' = IF t # nil THEN SetField(heap, t, "next", nil) ELSE heap
            /\ length' = length - 1
            /\ ret' = heap[n].value
            /\ UNCHANGED bot

\* Mutant: PushBack links the old top forward but not the new node back.
PushBackNoPrev(v) ==
    /\ Fresh <= MaxNodes
    /\ LET n == Fresh
           h == n :> NewNode(v) @@ heap
       IN IF length = 0
          THEN /\ top' = n /\ bot' = n
               /\ heap' = h
          ELSE /\ heap' = SetField(h, top, "next", n)
               /\ top' = n
               /\ UNCHANGED bot
    /\ length' = length + 1
    /\ UNCHANGED ret

PushBack(v) ==
    /\ Fresh <= MaxNodes
    /\ LET n == Fresh
           h == n :> NewNode(v) @@ heap
       IN IF length = 0
          THEN /\ top' = n /\ bot' = n
               /\ heap' = h
          ELSE /\ heap' = [SetField(h, top, "next", n) EXCEPT ![n].prev = top]
               /\ top' = n
               /\ UNCHANGED bot
    /\ length' = length + 1
    /\ UNCHANGED ret

PopFront ==
    IF length = 0
    THEN /\ ret' = Nil
         /\ UNCHANGED <<heap, top, bot, length>>
    ELSE LET n == bot
             b == heap[n].next
         IN /\ bot' = b
            /\ heap' = IF b # nil THEN SetField(heap, b, "prev", nil) ELSE heap
            /\ length' = length - 1
            /\ ret' = heap[n].value
            /\ UNCHANGED top

\* Mutant: PushFront links the old bottom back but not the new node forward.
PushFrontNoNext(v) ==
    /\ Fresh <= MaxNodes
    /\ LET n == Fresh
           h == n :> NewNode(v) @@ heap
       IN IF length = 0
          THEN /\ top' = n /\ bot' = n
               /\ heap' = h
          ELSE /\ heap' = SetField(h, bot, "prev", n)
               /\ bot' = n
               /\ UNCHANGED top
    /\ length' = length + 1
    /\ UNCHANGED ret

PushFront(v) ==
    /\ Fresh <= MaxNodes
    /\ LET n == Fresh
           h == n :> NewNode(v) @@ heap
       IN IF length = 0
          THEN /\ top' = n /\ bot' = n
               /\ heap' = h
          ELSE /\ heap' = [SetField(h, bot, "prev", n) EXCEPT ![n].next = bot]
               /\ bot' = n
               /\ UNCHANGED top
    /\ length' = length + 1
    /\ UNCHANGED ret

Next == \/ \E v \in Values : PushBack(v) \/ PushFront(v)
        \/ PopBack
        \/ PopFront

Spec == Init /\ [][Next]_vars

-----------------------------------------------------------------------------
(***************************************************************************)
(* Properties.                                                             *)
(***************************************************************************)

\* The values of k nodes from address p along next, front first.  A nil
\* pointer met before k nodes ends the walk early.
RECURSIVE Walk(_, _)
Walk(p, k) == IF k = 0 \/ p = nil THEN <<>>
              ELSE <<heap[p].value>> \o Walk(heap[p].next, k - 1)

\* The values from address p back along prev, the way PopBack reaches them.
RECURSIVE WalkBack(_, _)
WalkBack(p, k) == IF k = 0 \/ p = nil THEN <<>>
                  ELSE <<heap[p].value>> \o WalkBack(heap[p].prev, k - 1)

Node == [value : Values, prev : {nil} \cup Addrs, next : {nil} \cup Addrs]

\* Every allocated node is a node record, and length counts at most the
\* allocated nodes.
TypeOK ==
    /\ \E D \in SUBSET Addrs : heap \in [D -> Node]
    /\ {top, bot} \subseteq {nil} \cup DOMAIN heap
    /\ length \in 0..Cardinality(DOMAIN heap)
    /\ ret \in Values \cup {Nil}

\* The pool contents the list stands for: `length' nodes from bot on.
Deque == INSTANCE DequeSpec WITH items <- Walk(bot, length)

\* Every behaviour of the list, through all four of PushBack, PushFront,
\* PopBack and PopFront and the stale top/bot pointers an emptied stack
\* keeps, is a behaviour of the abstract deque: the same values in the same
\* order, and each pop returns the value the deque would return.
ImplementsDeque == Deque!Spec

\* Walking back from top along prev gives the same values in reverse: the
\* prev links PopBack follows agree with the next links PopFront follows.
LinksAgree ==
    LET fwd == Walk(bot, length)
    IN /\ Len(fwd) = length
       /\ WalkBack(top, length) = [i \in 1..length |-> fwd[length + 1 - i]]
=============================================================================
