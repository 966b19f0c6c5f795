------------------------------- MODULE Driver -------------------------------
(***************************************************************************)
(* The experiment driver (gc/harness/driver.py): it enumerates the runs of *)
(* a matrix, skips those that runs.csv already records, builds the program *)
(* of each (workload, seed) once, runs the VM, and appends one row per run.*)
(* The driver may be killed at any step and started again; what is on disk *)
(* survives, what main() holds in its variables does not. pc says where    *)
(* main() is:                                                              *)
(*   "off"       no driver is running: not started yet, or killed          *)
(*   "done"      the last driver came to its end                           *)
(*   "refused"   load_statuses has ended it: the header is not its own     *)
(*   "next"      at the head of the loop over the pending runs             *)
(*   "generate", "assemble", "execute"   a subprocess runs                 *)
(*   "log"       a failed run's log is about to be written                 *)
(*   "append"    append_row is about to open runs.csv                      *)
(*   "write"     runs.csv is open, its new bytes are still in the buffer   *)
(***************************************************************************)
EXTENDS Integers, Sequences, FiniteSets

CONSTANTS
    Configs,      \* the (collector, budget) pairs of the matrix, in its order
    Pairs,        \* its (workload, seed) pairs, in its order
    Shorter,      \* <<p, q>>: the run id with p is the beginning of that with q
    Iterations,   \* the iteration counts its file is given, over time
    ExitStatuses, \* values of the exit_status column the VM writes
    TornWrites,   \* may the disk fill up in the middle of a write?
    MaxStarts     \* bound: how often the driver is started

VARIABLES
    csv,          \* runs.csv: its first line, its rows as csv.DictReader reads them,
                  \* and (a ghost) the rows that ended up inside another line
    binary,       \* workloads/<stem>.ijvm, by program
    summary,      \* summary/<run_id>.summary.csv
    series,       \* series/<run_id>.series.csv
    log,          \* is there a logs/<run_id>.log?
    pc,
    iterations,   \* of the matrix this driver was started with
    pending,      \* the positions, in the matrix, of the runs still to do
    workload_cache,
    result,       \* what this iteration of the loop will record
    write_header,
    starts

disk == <<csv, binary, summary, series, log>>
process == <<pc, iterations, pending, workload_cache, result, write_header>>
vars == <<disk, process, starts>>

-----------------------------------------------------------------------------
(* The matrix.                                                             *)

\* enumerate_runs: the cross product, its last axis the fastest.
Runs ==
    [k \in 1 .. Len(Configs) * Len(Pairs) |->
        [config |-> Configs[((k - 1) \div Len(Pairs)) + 1],
         pair   |-> Pairs[((k - 1) % Len(Pairs)) + 1]]]
Positions == DOMAIN Runs
Run == {Runs[k] : k \in Positions}

\* The run id of a line that is cut inside it.
NoRun == [config |-> "", pair |-> ""]

\* load_matrix and name_safe; in addition no run id is listed twice, which they
\* do not check.
ASSUME MatrixAssumption ==
    /\ Configs \in Seq(STRING) /\ Configs # <<>>
    /\ Pairs \in Seq(STRING) /\ Pairs # <<>>
    /\ Shorter \subseteq {Pairs[i] : i \in DOMAIN Pairs} \X {Pairs[i] : i \in DOMAIN Pairs}
    /\ Iterations \subseteq Nat \ {0}
    /\ ExitStatuses \subseteq Nat
    /\ TornWrites \in BOOLEAN
    /\ MaxStarts \in Nat
    /\ \A j, k \in Positions : Runs[j] = Runs[k] => j = k
    /\ NoRun \notin Run

\* The program depends on the iterations as well: they are in the file's name.
Program == {Pairs[i] : i \in DOMAIN Pairs} \X Iterations

-----------------------------------------------------------------------------
(* Files.                                                                  *)

ES_UNSET == 0
ES_COMPLETED == 1
ES_OOM == 2
ES_FAULT == 3

\* A file the VM writes. "bad" does not parse (it is empty or cut short). Of a
\* summary only the exit_status column matters; a series has none.
File(kind, es) == [kind |-> kind, es |-> es]
Absent == File("absent", ES_UNSET)
Bad == File("bad", ES_UNSET)
Good(es) == File("good", es)

Parsed(f) == f.kind = "good"            \* parse_summary, parse_series

\* A row of runs.csv. did and by are ghosts: what the VM really did, and in which
\* start of the driver.
Row(run, status, did, by) ==
    [run |-> run, status |-> status, did |-> did, by |-> by, open |-> "no"]

\* open says where the last line of the file stops, if it has no newline: in or
\* right after its run id; before its status; in or right after its status (or
\* before its first letter); behind the comma after it; in its quoted reason.
Cut == {"in_id", "early", "status", "later", "quoted"}

\* Where a line that is open at from can stop when some of a row follows on it. Is
\* the reason of that row quoted? Text goes on in an open quote until the next one.
Reach(from, quoted) ==
    LET quote == IF quoted THEN {"quoted"} ELSE {}
    IN  CASE from = "quoted" -> {"quoted"} \cup (IF quoted THEN {"later"} ELSE {})
          [] from = "in_id"  -> {"in_id", "early", "status", "later"} \cup quote
          [] from = "early"  -> {"early", "status", "later"} \cup quote
          [] from = "status" -> {"status", "later"} \cup quote
          [] from = "later"  -> {"later"} \cup quote

\* Where it stops when all of the row follows: at a newline, unless that is quoted.
Whole(from, quoted) == IF from = "quoted" /\ ~quoted THEN "quoted" ELSE "no"

\* The status column of a row that stops at at.
StatusText(status, at) ==
    CASE at \in {"in_id", "early"} -> {"none"}
      [] at = "status" -> {"garbage", status}
      [] OTHER -> {status}

\* What DictReader makes of the row on a line of its own. Cut in its run id it may
\* have that of another run.
ReadIds(row, at) ==
    IF at # "in_id" THEN {row.run}
    ELSE {NoRun, row.run} \cup
         {r \in Run : r.config = row.run.config /\ <<r.pair, row.run.pair>> \in Shorter}
ReadAs(row, id, text, at) == [row EXCEPT !.run = id, !.status = text, !.open = at]
Line(row, at) ==
    {ReadAs(row, id, text, at) :
        id \in ReadIds(row, at), text \in StatusText(row.status, at)}

\* And of the row behind an open line: the field that was cut goes on with the run
\* id of the row, and the row's other fields come after it. No id is made of two
\* pieces, since each begins with a collector's name; of two pieces of a status
\* there is "oo" and the m of mark_sweep.
Joined(line, row, at) ==
    CASE line.open = "in_id" ->
            {[row EXCEPT !.run = NoRun, !.status = text, !.open = at] :
                text \in StatusText(row.status, at)}
      [] line.open = "early" ->
            {[line EXCEPT !.status = IF at = "early" THEN "none" ELSE "garbage", !.open = at]}
      [] line.open = "status" ->
            {[line EXCEPT !.status = text, !.open = at] :
                text \in {"garbage"} \cup (IF at = "status" THEN {line.did} \cap {"oom"} ELSE {})}
      [] OTHER -> {[line EXCEPT !.open = at]}

EndsOpen(rows) == rows # <<>> /\ rows[Len(rows)].open # "no"
ReplaceLast(rows, row) == [rows EXCEPT ![Len(rows)] = row]

LinesOf(rows, run) == {k \in DOMAIN rows : rows[k].run = run}

\* The tables that appending the row to t can make. A row behind a header without
\* a newline becomes part of the header.
Appended_FirstWins(t, row, quoted) ==                            \* mutant
    IF LinesOf(t.rows, row.run) # {} THEN {t} ELSE {[t EXCEPT !.rows = Append(@, row)]}
Appended(t, row, quoted) ==
    IF t.head = "open" THEN {[t EXCEPT !.head = "cut", !.lost = @ \cup {row}]}
    ELSE IF EndsOpen(t.rows)
    THEN LET last == t.rows[Len(t.rows)]
         IN  {[t EXCEPT !.rows = ReplaceLast(@, line), !.lost = @ \cup {row}] :
                 line \in Joined(last, row, Whole(last.open, quoted))}
    ELSE {[t EXCEPT !.rows = Append(@, row)]}

\* The same if some bytes of it are missing. Without its very last byte it is whole:
\* the carriage return ends the line.
Torn(t, row, quoted) ==
    {t} \cup Appended(t, row, quoted) \cup
    IF t.head = "open" THEN {[t EXCEPT !.head = "cut"]}
    ELSE IF EndsOpen(t.rows)
    THEN LET last == t.rows[Len(t.rows)]
         IN  {[t EXCEPT !.rows = ReplaceLast(@, line)] :
                 line \in UNION {Joined(last, row, at) : at \in Reach(last.open, quoted)}}
    ELSE {[t EXCEPT !.rows = Append(@, line)] :
             line \in UNION {Line(row, at) : at \in Reach("in_id", quoted)}}

\* load_statuses: the latest row of a run wins; "none" is Python's None.
LatestStatus_First(rows, run) ==                                 \* mutant
    LET at == LinesOf(rows, run)
    IN  IF at = {} THEN "none"
        ELSE rows[CHOOSE k \in at : \A j \in at : k <= j].status
LatestStatus(rows, run) ==
    LET at == LinesOf(rows, run)
    IN  IF at = {} THEN "none"
        ELSE rows[CHOOSE k \in at : \A j \in at : j <= k].status

ShouldSkip_RerunsAll(status, rerun_failed) ==                    \* mutant
    status # "none" /\ ~rerun_failed
ShouldSkip(status, rerun_failed) ==
    \/ status \in {"ok", "oom"}
    \/ status # "none" /\ ~rerun_failed

-----------------------------------------------------------------------------
(* The VM, which is not in the repository: what run_one relies on.         *)

Timeout == -1       \* subprocess.TimeoutExpired: the VM was killed
NoExitCode == -2    \* the VM was not started
Died == 3           \* any exit code but 0, 1 and 2

\* files: has the VM not opened its two files yet ("kept"), opened them (which
\* empties them), written the summary only, or dumped both? A VM that ends with
\* exit code 0 has opened them, and it refuses a program that is cut short.
VMOutcomes(program) ==
    {vm \in [rc : {0, 1, 2, Died, Timeout}, es : ExitStatuses,
             files : {"kept", "opened", "half", "dumped"}] :
        /\ vm.rc = 0 => program = "whole" /\ vm.files # "kept"
        /\ vm.rc = 1 => vm.files \in {"kept", "opened"}
        /\ vm.rc = 2 => vm.es # ES_COMPLETED}

SummaryAfter(vm, old) ==
    CASE vm.files = "kept" -> old
      [] vm.files = "opened" -> Bad
      [] OTHER -> Good(vm.es)
SeriesAfter(vm, old) ==
    CASE vm.files = "kept" -> old
      [] vm.files = "dumped" -> Good(ES_UNSET)
      [] OTHER -> Bad

\* What the VM has really done.
Did(vm) ==
    CASE vm.rc = 0 /\ vm.es = ES_COMPLETED -> "ok"
      [] vm.rc = 0 /\ vm.es = ES_OOM -> "oom"
      [] OTHER -> "failed"

\* run_one, once the VM has ended: the exit code first, then the files.
RunOne_SummaryDecides(rc, sum, ser) ==                           \* mutant
    IF Parsed(sum) /\ sum.es \in {ES_COMPLETED, ES_OOM} /\ Parsed(ser)
    THEN IF sum.es = ES_OOM THEN "oom" ELSE "ok"
    ELSE "failed"
RunOne(rc, sum, ser) ==
    IF /\ rc = 0
       /\ Parsed(sum) /\ sum.es \in {ES_COMPLETED, ES_OOM}
       /\ Parsed(ser)
    THEN IF sum.es = ES_OOM THEN "oom" ELSE "ok"
    ELSE "failed"

-----------------------------------------------------------------------------
(* main().                                                                 *)

NoResult == [status |-> "none", did |-> "none", quoted |-> FALSE]
Idle ==
    /\ pending = {}
    /\ workload_cache = [p \in {Pairs[i] : i \in DOMAIN Pairs} |-> "unset"]
    /\ result = NoResult
    /\ write_header = FALSE

Init ==
    /\ csv = [head |-> "absent", rows |-> <<>>, lost |-> {}]
    /\ binary = [p \in Program |-> "absent"]
    /\ summary = [r \in Run |-> Absent]
    /\ series = [r \in Run |-> Absent]
    /\ log = [r \in Run |-> FALSE]
    /\ pc = "off"
    /\ iterations \in Iterations
    /\ Idle
    /\ starts = 0

\* What Python forgets when the process ends.
Forget ==
    /\ pending' = {}
    /\ workload_cache' = [p \in DOMAIN workload_cache |-> "unset"]
    /\ result' = NoResult
    /\ write_header' = FALSE

\* The loop takes the pending runs in their order.
Current == CHOOSE k \in pending : \A j \in pending : k <= j
CurrentRun == Runs[Current]
CurrentProgram == <<CurrentRun.pair, iterations>>

ToDo(rerun_failed) ==
    {k \in Positions : ~ShouldSkip(LatestStatus(csv.rows, Runs[k]), rerun_failed)}

\* From the start of main() to its loop. The header is checked only if the file
\* is there; a dry run prints its plan and returns.
Start(its, rerun_failed, dry_run) ==
    /\ pc \in {"off", "done", "refused"}
    /\ starts < MaxStarts
    /\ starts' = starts + 1
    /\ iterations' = its
    /\ \/ /\ csv.head \notin {"absent", "header", "open"}
          /\ pc' = "refused"
          /\ UNCHANGED pending
       \/ /\ csv.head \in {"absent", "header", "open"}
          /\ pc' = IF dry_run THEN "done" ELSE "next"
          /\ pending' = IF dry_run THEN {} ELSE ToDo(rerun_failed)
    /\ UNCHANGED <<disk, workload_cache, result, write_header>>

\* A result is in; a failed run gets its log first. Only the reason that goes with
\* exit code 2 has a comma, so that csv quotes it.
LogNeeded_VMOnly(status, rc) == status = "failed" /\ rc # Timeout  \* mutant
LogNeeded(status, rc) == status = "failed"

Conclude(status, did, rc) ==
    /\ result' = [status |-> status, did |-> did, quoted |-> rc = 2]
    /\ pc' = IF LogNeeded(status, rc) THEN "log" ELSE "append"

\* The head of the loop, and ensure_workload_binary up to its subprocesses: a
\* binary that exists is reused, a failure is not tried again by this process.
NextRun ==
    /\ pc = "next"
    /\ pending # {}
    /\ \/ /\ workload_cache[CurrentRun.pair] = "failed"
          /\ Conclude("failed", "failed", NoExitCode)
          /\ UNCHANGED workload_cache
       \/ /\ workload_cache[CurrentRun.pair] = "built"
          /\ pc' = "execute"
          /\ UNCHANGED <<workload_cache, result>>
       \/ /\ workload_cache[CurrentRun.pair] = "unset"
          /\ binary[CurrentProgram] # "absent"
          /\ workload_cache' = [workload_cache EXCEPT ![CurrentRun.pair] = "built"]
          /\ pc' = "execute"
          /\ UNCHANGED result
       \/ /\ workload_cache[CurrentRun.pair] = "unset"
          /\ binary[CurrentProgram] = "absent"
          /\ pc' = "generate"
          /\ UNCHANGED <<workload_cache, result>>
    /\ UNCHANGED <<disk, iterations, pending, write_header, starts>>

WorkloadFails ==
    /\ workload_cache' = [workload_cache EXCEPT ![CurrentRun.pair] = "failed"]
    /\ Conclude("failed", "failed", NoExitCode)

\* gen_workload.py: its .jas file is written anew each time, so only its exit
\* matters. It may time out.
Generate ==
    /\ pc = "generate"
    /\ \/ pc' = "assemble" /\ UNCHANGED <<workload_cache, result>>
       \/ WorkloadFails
    /\ UNCHANGED <<disk, iterations, pending, write_header, starts>>

\* What an assembler that is killed, or fails, leaves behind.
AssemblerLeaves(left) ==
    binary' = [binary EXCEPT ![CurrentProgram] = left]

Assemble ==
    /\ pc = "assemble"
    /\ \/ /\ AssemblerLeaves("whole")
          /\ workload_cache' = [workload_cache EXCEPT ![CurrentRun.pair] = "built"]
          /\ pc' = "execute"
          /\ UNCHANGED result
       \/ /\ \E left \in {"absent", "part", "whole"} : AssemblerLeaves(left)
          /\ WorkloadFails
    /\ UNCHANGED <<csv, summary, series, log, iterations, pending, write_header, starts>>

VMLeaves(vm) ==
    /\ summary' = [summary EXCEPT ![CurrentRun] = SummaryAfter(vm, @)]
    /\ series' = [series EXCEPT ![CurrentRun] = SeriesAfter(vm, @)]

Execute ==
    /\ pc = "execute"
    /\ \E vm \in VMOutcomes(binary[CurrentProgram]) :
          /\ VMLeaves(vm)
          /\ Conclude(RunOne(vm.rc, summary'[CurrentRun], series'[CurrentRun]),
                      Did(vm), vm.rc)
    /\ UNCHANGED <<csv, binary, log, iterations, pending, workload_cache,
                   write_header, starts>>

WriteLog ==
    /\ pc = "log"
    /\ log' = [log EXCEPT ![CurrentRun] = TRUE]
    /\ pc' = "append"
    /\ UNCHANGED <<csv, binary, summary, series, iterations, pending,
                   workload_cache, result, write_header, starts>>

\* append_row: is there a file? Then open it, which creates it if not ...
OpenTable ==
    /\ pc = "append"
    /\ write_header' = (csv.head = "absent")
    /\ csv' = [csv EXCEPT !.head = IF @ = "absent" THEN "empty" ELSE @]
    /\ pc' = "write"
    /\ UNCHANGED <<binary, summary, series, log, iterations, pending,
                   workload_cache, result, starts>>

\* ... and write header and row, which leave the buffer together on close.
NewRow == Row(CurrentRun, result.status, result.did, starts)
WithHeader == [csv EXCEPT !.head = IF write_header THEN "header" ELSE @]

WriteRow ==
    /\ pc = "write"
    /\ csv' \in Appended(WithHeader, NewRow, result.quoted)
    /\ pending' = pending \ {Current}
    /\ result' = NoResult
    /\ write_header' = FALSE
    /\ pc' = "next"
    /\ UNCHANGED <<binary, summary, series, log, iterations, workload_cache, starts>>

Finish ==
    /\ pc = "next"
    /\ pending = {}
    /\ pc' = "done"
    /\ Forget
    /\ UNCHANGED <<disk, iterations, starts>>

-----------------------------------------------------------------------------
(* Faults.                                                                 *)

\* The disk is full: a part of the bytes is written, then close() raises. A header
\* without its newline is still the header.
TornWrite ==
    /\ TornWrites
    /\ pc = "write"
    /\ \/ /\ write_header
          /\ \E head \in {"empty", "cut", "open"} : csv' = [csv EXCEPT !.head = head]
       \/ csv' \in Torn(WithHeader, NewRow, result.quoted)
    /\ pc' = "off"
    /\ Forget
    /\ UNCHANGED <<binary, summary, series, log, iterations, starts>>

\* The driver and the subprocess it waits for are killed. The subprocess may
\* have done any part of its work.
Kill ==
    /\ pc \notin {"off", "done", "refused"}
    /\ \/ pc # "execute" /\ UNCHANGED <<summary, series>>
       \/ /\ pc = "execute"
          /\ \E vm \in VMOutcomes(binary[CurrentProgram]) : VMLeaves(vm)
    /\ \/ pc # "assemble" /\ UNCHANGED binary
       \/ /\ pc = "assemble"
          /\ \E left \in {"absent", "part", "whole"} : AssemblerLeaves(left)
    /\ pc' = "off"
    /\ Forget
    /\ UNCHANGED <<csv, log, iterations, starts>>

Step ==
    \/ NextRun \/ Generate \/ Assemble \/ Execute
    \/ WriteLog \/ OpenTable \/ WriteRow \/ Finish

Next ==
    \/ \E its \in Iterations, rerun_failed, dry_run \in BOOLEAN :
          Start(its, rerun_failed, dry_run)
    \/ Step
    \/ TornWrite
    \/ Kill

Spec == Init /\ [][Next]_vars /\ WF_vars(Step)
-----------------------------------------------------------------------------
Status == {"ok", "oom", "failed", "garbage", "none"}
Final == {"ok", "oom"}
RowType ==
    [run : Run \cup {NoRun}, status : Status, open : Cut \cup {"no"},
     did : {"ok", "oom", "failed"}, by : 0 .. MaxStarts]
TableType ==
    [head : {"absent", "empty", "cut", "open", "header"}, rows : Seq(RowType),
     lost : SUBSET RowType]
FileType ==
    [kind : {"absent", "bad", "good"}, es : ExitStatuses \cup {ES_UNSET}]

TypeOK ==
    /\ csv \in TableType
    /\ binary \in [Program -> {"absent", "part", "whole"}]
    /\ summary \in [Run -> FileType] /\ series \in [Run -> FileType]
    /\ log \in [Run -> BOOLEAN]
    /\ pc \in {"off", "done", "refused", "next", "generate", "assemble",
               "execute", "log", "append", "write"}
    /\ iterations \in Iterations
    /\ pending \subseteq Positions
    /\ starts \in 0 .. MaxStarts

Rows == {csv.rows[k] : k \in DOMAIN csv.rows}

\* The final result that a row shows is what the VM did in that very attempt, not
\* what a file of an earlier one says (run_one); and a run recorded as failed can
\* be inspected, because its log was there first (main). Torn rows included.
RowIsTrue ==
    \A row \in Rows :
        /\ row.status \in Final => row.status = row.did
        /\ row.status = "failed" /\ row.run # NoRun => log[row.run]

\* A driver that is not killed writes, in this very start, a row for each run it set
\* out to do. On a line that an earlier driver left open it may end up inside that.
EveryRunRecorded ==
    \A k \in Positions :
        k \in pending
            ~> \/ \E row \in Rows \cup csv.lost : row.run = Runs[k] /\ row.by = starts
               \/ pc = "off"

\* An interrupted sweep can be resumed (load_statuses, append_row).
ResumesAfterInterruption == pc # "refused"

\* A status with nothing behind it is not safe yet: the next row is joined to it.
Settled(row) == IF row.open = "status" THEN "none" ELSE row.status

\* The runs whose id no cut can turn another id into.
Unmistakable ==
    {r \in Run : TornWrites => \A pair \in {Pairs[i] : i \in DOMAIN Pairs} :
                                  <<r.pair, pair>> \notin Shorter}

\* A run whose final result runs.csv shows is not executed again, whatever order of
\* kills, torn rows, restarts and --rerun-failed led here (should_skip).
NeverRedone ==
    \A k \in pending, row \in Rows :
        row.run = Runs[k] /\ row.run \in Unmistakable => Settled(row) \notin Final

\* The same of every whole row that ever reached the disk: an interrupted sweep
\* resumes by skipping the runs already recorded. Torn rows break it.
RecordedIsSkipped ==
    \A k \in pending, row \in Rows \cup csv.lost :
        row.run = Runs[k] => row.status \notin Final

Outcome(rows, run) ==
    LET at == LinesOf(rows, run)
        latest == CHOOSE k \in at : \A j \in at : j <= k
    IN  IF at # {} /\ Settled(rows[latest]) \in Final THEN Settled(rows[latest]) ELSE "open"

\* runs.csv gives each such run at most one final result, and never loses it once
\* as much as the comma after the status is on disk: whatever is killed, torn,
\* joined and restarted (load_statuses, should_skip, append_row).
Table == INSTANCE ResultsTable
            WITH Run <- Unmistakable,
                 outcome <- [r \in Unmistakable |-> Outcome(csv.rows, r)]
RefinesResultsTable == Table!Spec
=============================================================================
