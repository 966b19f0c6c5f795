------------------------------ MODULE Workload ------------------------------
(***************************************************************************)
(* A generated workload on the VM: the programs that gen_workload.py emits *)
(* for every draw of their tables, executed instruction by instruction.    *)
(***************************************************************************)
EXTENDS GenWorkload, IJVM, FiniteSetsExt

VARIABLES family, draws

vars == <<family, draws, code, machine>>

Init ==
    /\ family \in Families
    /\ draws \in Draws(family)
    /\ code = Emit(family, draws)
    /\ Boot

Next == Execute /\ UNCHANGED <<family, draws, code>>

\* The VM executes the next instruction while there is one.
Spec == Init /\ [][Next]_vars /\ WF_vars(Next)

-----------------------------------------------------------------------------
(* What a program is expected to do, told from its draws alone.            *)

Table(name) == Drawn(family, draws, name)

\* The entry that iteration i reads, counted from the first use of the index.
Entry(i) == ((i - 1) % TableSize) + 1

\* The arrays allocated before the main loop: the tables, then the keeper, the
\* list or the directory and its nodes.
Startup ==
    CASE family \in {"churn", "density"} -> Len(draws) + 1
      [] family = "longlived" -> 1 + 2 * Nodes
      [] family = "mutate" -> Len(draws) + 1 + Nodes

Structure ==
    CASE family \in {"churn", "density"} -> <<KeeperSlots>>
      [] family = "longlived" ->
             [k \in 1..(2 * Nodes) |-> IF k % 2 = 1 THEN 2 ELSE draws[1][Entry(k \div 2)]]
      [] family = "mutate" -> <<Nodes>> \o [k \in 1..Nodes |-> 2]

\* The iterations that allocate, and the lengths they allocate. The sizes are
\* the first values that churn, longlived and density draw, whatever else they
\* draw: this is why two families allocate alike under one seed.
Allocating ==
    IF family = "mutate"
    THEN SelectSeq([i \in 1..Iterations |-> i], LAMBDA i : Table("allocs")[Entry(i)] = 1)
    ELSE [i \in 1..Iterations |-> i]
LengthAt(i) ==
    CASE family = "mutate" -> Table("sizes")[Entry(i)]
      [] family = "longlived" -> draws[1][Entry(Nodes + i)]
      [] OTHER -> draws[1][Entry(i)]

Lengths ==
    [k \in DOMAIN draws |-> TableSize] \o Structure
    \o [k \in DOMAIN Allocating |-> LengthAt(Allocating[k])]

\* The array that iteration i allocates.
ArrayOf(i) == Startup + CHOOSE k \in DOMAIN Allocating : Allocating[k] = i

\* The last iteration of a set, or otherwise.
LastOr(is, what(_), otherwise) == IF is = {} THEN otherwise ELSE what(Max(is))

KeeperExpected ==
    [s \in 1..KeeperSlots |->
        LastOr({i \in 1..Iterations : /\ Table("survive")[Entry(i)] = 1
                                      /\ Table("victims")[Entry(i)] = s - 1}, ArrayOf, 0)]

Elems(k) == arrays[k].elems

ListExpected ==
    /\ locals["root"].n = 2 * Nodes
    /\ \A k \in 1..Nodes : Elems(2 * k) = <<2 * (k - 1), 2 * k + 1>>

RingExpected ==
    LET directory == Len(draws) + 1
        Node(p) == directory + 1 + p
        Writes(p) == {i \in 1..Iterations : Table("srcs")[Entry(i)] = p}
        Target(i) == Node(Table("dsts")[Entry(i)])
        Ring(p) == Node(IF p = 0 THEN Nodes - 1 ELSE p - 1)
        NextOf(p) == LastOr(Writes(p), Target, Ring(p))
        PayloadOf(p) == LastOr({i \in Writes(p) : Table("allocs")[Entry(i)] = 1}, ArrayOf, 0)
    IN  /\ Elems(directory) = [p \in 1..Nodes |-> Node(p - 1)]
        /\ \A p \in 0..(Nodes - 1) : Elems(Node(p)) = <<NextOf(p), PayloadOf(p)>>

FilledExpected ==
    \A i \in 1..Iterations :
        LET a == arrays[Startup + i]
            refs == Table("kinds")[Entry(i)] = 1
        IN  /\ a.refs = refs
            /\ ToSet(a.elems) = {IF refs THEN Startup ELSE Table("fills")[Entry(i)]}

-----------------------------------------------------------------------------
(* Properties.                                                             *)

\* No workload ever makes the VM fail: an instruction that is executed is in the
\* program and finds operands it is defined for, so every index is within its
\* array, no reference is used before it is assigned and the two kinds of arrays
\* are never confused.
NoFault == status = "run" => Ready

\* The stack is empty whenever a program jumps back and when it halts: on every
\* path through a loop's body what is pushed is popped, and a run of fifty
\* thousand iterations needs no more stack than one of two.
StackBalanced ==
    LET ends == /\ ip \in DOMAIN code
                /\ Ins.op = "HALT" \/ (Ins.op = "GOTO" /\ Ins.n < 0)
    IN  ends => stack = <<>>

\* The arrays a program allocates have the lengths its draws say, in their
\* order, and it allocates all of them before it halts. The lengths of churn,
\* longlived and density are their first draws: "churn and density issue the
\* same sequence of per-iteration allocation sizes under a given seed"
\* (report/content/implementation.typ).
AllocationsFollowSeed ==
    LET lengths == [k \in DOMAIN arrays |-> Len(Elems(k))]
    IN  /\ IsPrefix(lengths, Lengths)
        /\ status = "halt" => lengths = Lengths

\* At the end the heap is what the family promises: the tables hold what was
\* drawn; the keeper holds the last survivor put into each slot; the list holds
\* every node with its payload; the next pointers of the ring are those of the
\* last rewrites and the payloads the last ones allocated; and every array of
\* density is filled.
StructureHolds ==
    status = "halt" =>
        /\ \A k \in DOMAIN draws : Elems(k) = draws[k]
        /\ family \in {"churn", "density"} => Elems(Startup) = KeeperExpected
        /\ family = "longlived" => ListExpected
        /\ family = "mutate" => RingExpected
        /\ family = "density" => FilledExpected

\* Every workload ends, by its HALT or because the heap is full.
Halts == <>(status \in {"halt", "oom"})
=============================================================================
