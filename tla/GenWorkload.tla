---------------------------- MODULE GenWorkload ----------------------------
(***************************************************************************)
(* The workload generator, gen_workload.py: the program that each family   *)
(* emitter writes for the values it draws.                                 *)
(*                                                                         *)
(* A program is a sequence of instructions [op, var, n]: a local, or a     *)
(* number, which is the relative target of a jump (the assembler has       *)
(* resolved the labels, so Prog.label and Prog.mark are offsets here).     *)
(***************************************************************************)
EXTENDS Integers, Sequences, SequencesExt

CONSTANTS
    Iterations,     \* --iterations
    TableSize,      \* --table-size
    SizeMin,        \* --size-min
    SizeMax,        \* --size-max
    Nodes,          \* --nodes
    KeeperSlots,    \* KEEPER_SLOTS
    Fills           \* the values drawn by randint(0, 32767), bounded

\* What main() accepts.
ASSUME ArgumentsAccepted ==
    /\ Iterations \in Nat \ {0} /\ TableSize \in Nat \ {0}
    /\ SizeMin \in Nat \ {0} /\ SizeMax \in Nat /\ SizeMin <= SizeMax
    /\ Nodes \in Nat \ {0} /\ KeeperSlots \in Nat \ {0}
    /\ Fills \subseteq 0..32767

-----------------------------------------------------------------------------
(* class Prog.                                                             *)

Op(op) == [op |-> op, var |-> "", n |-> 0]
Load(var) == [op |-> "ILOAD", var |-> var, n |-> 0]
Store(var) == [op |-> "ISTORE", var |-> var, n |-> 0]
Inc(var, n) == [op |-> "IINC", var |-> var, n |-> n]
Num(op, n) == [op |-> op, var |-> "", n |-> n]

\* A constant that fits a signed byte is in the instruction, any other one in
\* the constant pool.
Push_UnsignedByte(value) ==                                      \* mutant
    IF value \in -128..255 THEN <<Num("BIPUSH", value)>> ELSE <<Num("LDC_W", value)>>
Push(value) ==
    IF value \in -128..127 THEN <<Num("BIPUSH", value)>> ELSE <<Num("LDC_W", value)>>

-----------------------------------------------------------------------------
(* The shared emitter helpers.                                             *)

EmitTable(tbl, values) ==
    Push(Len(values))
    \o <<Op("NEWARRAY"), Store(tbl), Num("BIPUSH", 0), Store("run")>>
    \o FlattenSeq([i \in DOMAIN values |->
           Push(values[i]) \o <<Load("run"), Load(tbl), Op("IASTORE"), Inc("run", 1)>>])

ReadTable(idx, tbl) == <<Load(idx), Load(tbl), Op("IALOAD")>>

AdvanceIndex_WrapsLate(idx, size) ==                             \* mutant
    <<Inc(idx, 1), Load(idx)>> \o Push(size + 1)
    \o <<Num("IF_ICMPEQ", 2), Num("GOTO", 3), Num("BIPUSH", 0), Store(idx)>>
AdvanceIndex(idx, size) ==
    <<Inc(idx, 1), Load(idx)>> \o Push(size)
    \o <<Num("IF_ICMPEQ", 2), Num("GOTO", 3), Num("BIPUSH", 0), Store(idx)>>

\* begin_countdown, the body and end_countdown.
Countdown_LoopsToSetup(ctr, count, body) ==                      \* mutant
    Push(count) \o <<Store(ctr), Load(ctr), Num("IFEQ", Len(body) + 3)>>
    \o body \o <<Inc(ctr, -1), Num("GOTO", -(Len(body) + 5))>>
Countdown(ctr, count, body) ==
    Push(count) \o <<Store(ctr), Load(ctr), Num("IFEQ", Len(body) + 3)>>
    \o body \o <<Inc(ctr, -1), Num("GOTO", -(Len(body) + 3))>>

IfNonzero(body) == <<Num("IFEQ", Len(body) + 1)>> \o body
IfNonzeroElse(body, other) ==
    <<Num("IFEQ", Len(body) + 2)>> \o body \o <<Num("GOTO", Len(other) + 1)>> \o other

-----------------------------------------------------------------------------
(* The draws of one program, in the order in which the emitter draws them: *)
(* a row of TableSize values for each of its tables.                       *)

Families == {"churn", "longlived", "mutate", "density"}

DrawOrder_KindsFirst ==                                          \* mutant
    [churn     |-> <<"sizes", "survive", "victims">>,
     longlived |-> <<"sizes">>,
     mutate    |-> <<"srcs", "dsts", "allocs", "sizes">>,
     density   |-> <<"kinds", "sizes", "survive", "victims", "fills">>]
DrawOrder ==
    [churn     |-> <<"sizes", "survive", "victims">>,
     longlived |-> <<"sizes">>,
     mutate    |-> <<"srcs", "dsts", "allocs", "sizes">>,
     density   |-> <<"sizes", "kinds", "survive", "victims", "fills">>]

DrawRange ==
    [sizes |-> SizeMin..SizeMax, survive |-> {0, 1}, kinds |-> {0, 1}, allocs |-> {0, 1},
     victims |-> 0..(KeeperSlots - 1), srcs |-> 0..(Nodes - 1), dsts |-> 0..(Nodes - 1),
     fills |-> Fills]

Draws(family) ==
    LET order == DrawOrder[family]
    IN  {d \in [DOMAIN order -> UNION {[1..TableSize -> DrawRange[table]] :
                                          table \in ToSet(order)}] :
            \A i \in DOMAIN order : d[i] \in [1..TableSize -> DrawRange[order[i]]]}

\* The table of that name.
Drawn(family, draws, table) ==
    draws[CHOOSE i \in DOMAIN draws : DrawOrder[family][i] = table]

-----------------------------------------------------------------------------
(* The family emitters.                                                    *)

\* The end of a churn and of a density iteration.
KeepIfSurvives_LoadsFirst ==                                     \* mutant
    <<Load("tmp")>> \o ReadTable("idx", "surv_tbl")
    \o IfNonzero(ReadTable("idx", "vict_tbl") \o <<Load("keeper"), Op("AIASTORE")>>)
KeepIfSurvives ==
    ReadTable("idx", "surv_tbl")
    \o IfNonzero(<<Load("tmp")>> \o ReadTable("idx", "vict_tbl")
                 \o <<Load("keeper"), Op("AIASTORE")>>)

EmitKeeper ==
    Push(KeeperSlots)
    \o <<Op("ANEWARRAY"), Store("keeper"), Num("BIPUSH", 0), Store("idx")>>

EmitChurn(draws) ==
    EmitTable("size_tbl", Drawn("churn", draws, "sizes"))
    \o EmitTable("surv_tbl", Drawn("churn", draws, "survive"))
    \o EmitTable("vict_tbl", Drawn("churn", draws, "victims"))
    \o EmitKeeper
    \o Countdown("ctr", Iterations,
           ReadTable("idx", "size_tbl") \o <<Op("NEWARRAY"), Store("tmp")>>
           \o KeepIfSurvives
           \o AdvanceIndex("idx", TableSize))

EmitLonglived(draws) ==
    EmitTable("size_tbl", Drawn("longlived", draws, "sizes"))
    \o <<Num("BIPUSH", 0), Store("root"), Num("BIPUSH", 0), Store("idx")>>
    \o Countdown("ctr", Nodes,
           <<Num("BIPUSH", 2), Op("ANEWARRAY"), Store("node"),
             Load("root"), Num("BIPUSH", 0), Load("node"), Op("AIASTORE")>>
           \o ReadTable("idx", "size_tbl")
           \o <<Op("NEWARRAY"), Num("BIPUSH", 1), Load("node"), Op("AIASTORE"),
                Load("node"), Store("root")>>
           \o AdvanceIndex("idx", TableSize))
    \o Countdown("ctr", Iterations,
           ReadTable("idx", "size_tbl") \o <<Op("NEWARRAY"), Store("tmp")>>
           \o AdvanceIndex("idx", TableSize))

\* The build loop of mutate, and one rewrite of its main loop.
BuildRing_StoresNodeFirst ==                                     \* mutant
    Countdown("ctr", Nodes,
        <<Num("BIPUSH", 2), Op("ANEWARRAY"), Store("node"), Load("node"), Store("prev"),
          Load("prev"), Num("BIPUSH", 0), Load("node"), Op("AIASTORE"),
          Load("node"), Load("pos"), Load("nodedir"), Op("AIASTORE"), Inc("pos", 1)>>)
BuildRing ==
    Countdown("ctr", Nodes,
        <<Num("BIPUSH", 2), Op("ANEWARRAY"), Store("node"),
          Load("prev"), Num("BIPUSH", 0), Load("node"), Op("AIASTORE"),
          Load("node"), Load("pos"), Load("nodedir"), Op("AIASTORE"),
          Load("node"), Store("prev"), Inc("pos", 1)>>)

Rewrite ==
    ReadTable("idx", "dst_tbl") \o <<Load("nodedir"), Op("AIALOAD"), Num("BIPUSH", 0)>>
    \o ReadTable("idx", "src_tbl") \o <<Load("nodedir"), Op("AIALOAD"), Op("AIASTORE")>>

EmitMutate(draws) ==
    EmitTable("src_tbl", Drawn("mutate", draws, "srcs"))
    \o EmitTable("dst_tbl", Drawn("mutate", draws, "dsts"))
    \o EmitTable("alloc_tbl", Drawn("mutate", draws, "allocs"))
    \o EmitTable("size_tbl", Drawn("mutate", draws, "sizes"))
    \o Push(Nodes)
    \o <<Op("ANEWARRAY"), Store("nodedir"),
         Num("BIPUSH", 0), Store("prev"), Num("BIPUSH", 0), Store("pos")>>
    \o BuildRing
    \o <<Load("prev"), Num("BIPUSH", 0), Num("BIPUSH", 0), Load("nodedir"), Op("AIALOAD"),
         Op("AIASTORE"), Num("BIPUSH", 0), Store("idx")>>
    \o Countdown("ctr", Iterations,
           Rewrite
           \o ReadTable("idx", "alloc_tbl")
           \o IfNonzero(ReadTable("idx", "size_tbl") \o <<Op("NEWARRAY"), Num("BIPUSH", 1)>>
                        \o ReadTable("idx", "src_tbl")
                        \o <<Load("nodedir"), Op("AIALOAD"), Op("AIASTORE")>>)
           \o AdvanceIndex("idx", TableSize))

\* fill_loop: for (j = length; j != 0; ) { j--; tmp[j] = value; }
FillLoop(value, store_op) ==
    <<Load("length"), Store("j"), Load("j"), Num("IFEQ", 7), Inc("j", -1),
      Load(value), Load("j"), Load("tmp"), Op(store_op), Num("GOTO", -7)>>

EmitDensity(draws) ==
    EmitTable("size_tbl", Drawn("density", draws, "sizes"))
    \o EmitTable("kind_tbl", Drawn("density", draws, "kinds"))
    \o EmitTable("surv_tbl", Drawn("density", draws, "survive"))
    \o EmitTable("vict_tbl", Drawn("density", draws, "victims"))
    \o EmitTable("fill_tbl", Drawn("density", draws, "fills"))
    \o EmitKeeper
    \o Countdown("ctr", Iterations,
           ReadTable("idx", "size_tbl") \o <<Store("length")>>
           \o ReadTable("idx", "fill_tbl") \o <<Store("fillv")>>
           \o ReadTable("idx", "kind_tbl")
           \o IfNonzeroElse(
                  <<Load("length"), Op("ANEWARRAY"), Store("tmp")>>
                      \o FillLoop("keeper", "AIASTORE"),
                  <<Load("length"), Op("NEWARRAY"), Store("tmp")>>
                      \o FillLoop("fillv", "IASTORE"))
           \o KeepIfSurvives
           \o AdvanceIndex("idx", TableSize))

\* EMITTERS, and the HALT that main() adds.
Emit(family, draws) ==
    (CASE family = "churn" -> EmitChurn(draws)
       [] family = "longlived" -> EmitLonglived(draws)
       [] family = "mutate" -> EmitMutate(draws)
       [] family = "density" -> EmitDensity(draws)) \o <<Op("HALT")>>
=============================================================================
