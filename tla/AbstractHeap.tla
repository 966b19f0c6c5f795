---------------------------- MODULE AbstractHeap ----------------------------
(***************************************************************************)
(* What the running program may observe of its heap: the arrays it can     *)
(* reach and what is in them. There are no offsets and there is no         *)
(* collection here; every collector implements this specification, so a    *)
(* collection is a step that changes nothing.                              *)
(***************************************************************************)
EXTENDS Integers, Sequences, FiniteSets

CONSTANTS Ids, NoId, RootSlots, Lengths, Ints

VARIABLES stack,   \* the array each root slot holds
          store    \* the reachable arrays: kind and elements

vars == <<stack, store>>

Targets(a) == IF a.ref THEN {a.elems[k] : k \in DOMAIN a.elems} \cap Ids ELSE {}

\* What the stack st reaches in the store S.
Live(st, S) ==
    LET close[R \in SUBSET Ids] ==
            LET N == R \cup UNION {Targets(S[i]) : i \in R}
            IN  IF N = R THEN R ELSE close[N]
    IN  close[{st[r] : r \in RootSlots} \cap Ids]

\* The store holds what is reachable and nothing else.
Becomes(st, S) ==
    /\ stack' = st
    /\ \A i \in DOMAIN store' : i \in DOMAIN S /\ store'[i] = S[i]
    /\ DOMAIN store' = Live(st, S)

Init == /\ stack = [r \in RootSlots |-> NoId]
        /\ store = [i \in {} |-> NoId]

\* A new array has an identity not in use and zeroed elements; an allocator
\* may round its length up by one.
New(r) ==
    /\ stack[r] = NoId
    /\ \E i \in (DOMAIN store') \ DOMAIN store :
         /\ store'[i].ref \in BOOLEAN
         /\ \E len \in Lengths, slack \in {0, 1} :
              store'[i].elems = [k \in 1 .. len + slack |-> 0]
         /\ Becomes([stack EXCEPT ![r] = i],
                    [j \in DOMAIN store \cup {i} |->
                       IF j = i THEN store'[i] ELSE store[j]])

StoreRef(r, k, s) ==
    /\ stack[r] # NoId
    /\ store[stack[r]].ref
    /\ k \in DOMAIN store[stack[r]].elems
    /\ Becomes(stack, [store EXCEPT ![stack[r]].elems[k] = stack[s]])

StoreInt(r, k, v) ==
    /\ stack[r] # NoId
    /\ ~store[stack[r]].ref
    /\ k \in DOMAIN store[stack[r]].elems
    /\ Becomes(stack, [store EXCEPT ![stack[r]].elems[k] = v])

LoadRef(r, k, s) ==
    /\ stack[r] # NoId
    /\ store[stack[r]].ref
    /\ k \in DOMAIN store[stack[r]].elems
    /\ Becomes([stack EXCEPT ![s] = store[stack[r]].elems[k]], store)

Drop(r) == Becomes([stack EXCEPT ![r] = NoId], store)

Index == UNION {DOMAIN store[i].elems : i \in DOMAIN store}

Next ==
    \/ \E r \in RootSlots : New(r) \/ Drop(r)
    \/ \E r, s \in RootSlots, k \in Index : StoreRef(r, k, s) \/ LoadRef(r, k, s)
    \/ \E r \in RootSlots, k \in Index, v \in Ints : StoreInt(r, k, v)

Spec == Init /\ [][Next]_vars
=============================================================================
