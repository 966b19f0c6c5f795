-------------------------------- MODULE IJVM --------------------------------
(***************************************************************************)
(* The part of the IJVM interpreter that a workload uses. The interpreter  *)
(* is not in the repository: this is what the generator and the notes on   *)
(* the VM rely on. Every word has a tag, which tells a reference from an   *)
(* integer; a reference is the number of an array, in the order of their   *)
(* allocation, and the null reference is 0. Collections are left out: they *)
(* keep what a program can see, which is what Mutator is about.            *)
(***************************************************************************)
EXTENDS Integers, Sequences, TLC

CONSTANT MaxArrays      \* bound: the heap of the VM is full at the latest then

VARIABLES
    code, ip,           \* the program, and the instruction to be executed
    stack,              \* its words, the top one last
    locals,             \* the locals that have been assigned
    arrays,             \* the arrays that have been allocated: [refs, elems]
    status              \* "run", "halt" or "oom"

machine == <<ip, stack, locals, arrays, status>>

Word(tag, n) == [tag |-> tag, n |-> n]
SignedByte(n) == ((n + 128) % 256) - 128

Ins == code[ip]
Top(k) == stack[Len(stack) - k]
Pop(k) == SubSeq(stack, 1, Len(stack) - k)

IsInt(w) == w.tag = 0
IsArray(w, refs) == w.tag = 1 /\ w.n \in DOMAIN arrays /\ arrays[w.n].refs = refs
InBounds(index, array) == IsInt(index) /\ index.n + 1 \in DOMAIN arrays[array.n].elems

\* The instruction is there and finds the operands it is defined for.
Ready ==
    /\ ip \in DOMAIN code
    /\ CASE Ins.op \in {"BIPUSH", "LDC_W", "GOTO", "HALT"} -> TRUE
         [] Ins.op = "ILOAD" -> Ins.var \in DOMAIN locals
         [] Ins.op = "IINC" -> Ins.var \in DOMAIN locals /\ IsInt(locals[Ins.var])
         [] Ins.op = "ISTORE" -> Len(stack) >= 1
         [] Ins.op = "IFEQ" -> Len(stack) >= 1 /\ IsInt(Top(0))
         [] Ins.op = "IF_ICMPEQ" -> Len(stack) >= 2 /\ IsInt(Top(0)) /\ IsInt(Top(1))
         [] Ins.op \in {"NEWARRAY", "ANEWARRAY"} ->
                Len(stack) >= 1 /\ IsInt(Top(0)) /\ Top(0).n > 0
         [] Ins.op = "IALOAD" ->
                Len(stack) >= 2 /\ IsArray(Top(0), FALSE) /\ InBounds(Top(1), Top(0))
         [] Ins.op = "AIALOAD" ->
                Len(stack) >= 2 /\ IsArray(Top(0), TRUE) /\ InBounds(Top(1), Top(0))
         [] Ins.op = "IASTORE" ->
                /\ Len(stack) >= 3 /\ IsArray(Top(0), FALSE) /\ InBounds(Top(1), Top(0))
                /\ IsInt(Top(2))
         [] Ins.op = "AIASTORE" ->
                /\ Len(stack) >= 3 /\ IsArray(Top(0), TRUE) /\ InBounds(Top(1), Top(0))
                /\ Top(2).tag = 1 \/ Top(2).n = 0

Can(ops) == status = "run" /\ Ready /\ Ins.op \in ops
Advance == ip' = ip + 1 /\ UNCHANGED status

PushConstant ==
    /\ Can({"BIPUSH", "LDC_W"})
    /\ stack' = Append(stack,
                    Word(0, IF Ins.op = "BIPUSH" THEN SignedByte(Ins.n) ELSE Ins.n))
    /\ Advance /\ UNCHANGED <<locals, arrays>>

LoadLocal ==
    /\ Can({"ILOAD"})
    /\ stack' = Append(stack, locals[Ins.var])
    /\ Advance /\ UNCHANGED <<locals, arrays>>

StoreLocal ==
    /\ Can({"ISTORE"})
    /\ locals' = (Ins.var :> Top(0)) @@ locals
    /\ stack' = Pop(1)
    /\ Advance /\ UNCHANGED arrays

Increment ==
    /\ Can({"IINC"})
    /\ locals' = [locals EXCEPT ![Ins.var].n = @ + Ins.n]
    /\ Advance /\ UNCHANGED <<stack, arrays>>

NewArray ==
    /\ Can({"NEWARRAY", "ANEWARRAY"})
    /\ Len(arrays) < MaxArrays
    /\ arrays' = Append(arrays, [refs  |-> Ins.op = "ANEWARRAY",
                                 elems |-> [i \in 1..Top(0).n |-> 0]])
    /\ stack' = Append(Pop(1), Word(1, Len(arrays) + 1))
    /\ Advance /\ UNCHANGED locals

\* The heap is full and a collection has not made room.
OutOfMemory ==
    /\ Can({"NEWARRAY", "ANEWARRAY"})
    /\ status' = "oom"
    /\ UNCHANGED <<ip, stack, locals, arrays>>

LoadElement ==
    /\ Can({"IALOAD", "AIALOAD"})
    /\ LET a == arrays[Top(0).n]
       IN  stack' = Append(Pop(2), Word(IF a.refs THEN 1 ELSE 0, a.elems[Top(1).n + 1]))
    /\ Advance /\ UNCHANGED <<locals, arrays>>

StoreElement ==
    /\ Can({"IASTORE", "AIASTORE"})
    /\ arrays' = [arrays EXCEPT ![Top(0).n].elems[Top(1).n + 1] = Top(2).n]
    /\ stack' = Pop(3)
    /\ Advance /\ UNCHANGED locals

\* A jump is relative to its own instruction.
JumpTo(k, taken) ==
    /\ ip' = IF taken THEN ip + Ins.n ELSE ip + 1
    /\ stack' = Pop(k)
    /\ UNCHANGED <<locals, arrays, status>>
JumpIfZero == Can({"IFEQ"}) /\ JumpTo(1, Top(0).n = 0)
JumpIfEqual == Can({"IF_ICMPEQ"}) /\ JumpTo(2, Top(0).n = Top(1).n)
Jump == Can({"GOTO"}) /\ JumpTo(0, TRUE)

Halt ==
    /\ Can({"HALT"})
    /\ status' = "halt"
    /\ UNCHANGED <<ip, stack, locals, arrays>>

\* A program starts with nothing but its code.
Boot ==
    /\ ip = 1 /\ stack = <<>> /\ locals = <<>> /\ arrays = <<>> /\ status = "run"

Execute ==
    \/ PushConstant \/ LoadLocal \/ StoreLocal \/ Increment
    \/ NewArray \/ OutOfMemory \/ LoadElement \/ StoreElement
    \/ JumpIfZero \/ JumpIfEqual \/ Jump
    \/ Halt
=============================================================================
