--------------------------- MODULE DriverTheorems ---------------------------
(***************************************************************************)
(* What runs.csv promises, for every matrix: a row says what happened, and *)
(* a final result that is followed by its comma is never lost, nor its run *)
(* executed again, whatever is killed, torn, joined and restarted (for the *)
(* runs whose id no cut can turn into another run's, see Unmistakable);    *)
(* and on a disk that does not fill up the same of every row ever written. *)
(*                                                                         *)
(* The argument: no row of a run follows a settled final one of the same   *)
(* run (FinalIsLast), so that the latest row, which is all load_statuses   *)
(* looks at, is settled and final whenever any is.                         *)
(***************************************************************************)
EXTENDS Driver, TLAPS, WellFoundedInduction

\* Row i gives run r the final result st for good.
HasFinal(rows, r, st) == \E i \in DOMAIN rows : rows[i].run = r /\ Settled(rows[i]) = st

FinalIsLast(rows) ==
    \A i, j \in DOMAIN rows :
        i < j /\ rows[i].run \in Unmistakable /\ Settled(rows[i]) \in Final
            => rows[j].run # rows[i].run

\* A line cut before its status shows none.
EarlyHasNone(line) == line.open \in {"in_id", "early"} => line.status = "none"
CutHasNoStatus(rows) == \A i \in DOMAIN rows : EarlyHasNone(rows[i])

RowsSound(rows) ==
    /\ rows \in Seq(RowType)
    /\ FinalIsLast(rows)
    /\ CutHasNoStatus(rows)

\* The final result of a row is that of its attempt, and a failed run has its log.
RowTrue(row, lg) ==
    /\ row.status \in Final => row.status = row.did
    /\ row.status = "failed" /\ row.run # NoRun => lg[row.run]

RowsTrue(rows, lg) == \A i \in DOMAIN rows : RowTrue(rows[i], lg)

\* None of the runs at positions ks has a final result.
Unfinished(rows, ks) ==
    \A k \in ks, st \in Final : Runs[k] \in Unmistakable => ~HasFinal(rows, Runs[k], st)

Busy == {"generate", "assemble", "execute", "log", "append", "write"}
Recording == {"log", "append", "write"}
Result == {"ok", "oom", "failed"}

ShapeInv ==
    /\ DOMAIN summary = Run /\ DOMAIN series = Run
    /\ starts \in 0 .. MaxStarts

\* What a row says is true.
TrueInv ==
    /\ csv \in TableType
    /\ CutHasNoStatus(csv.rows)
    /\ log \in [Run -> BOOLEAN]
    /\ pending \in SUBSET Positions
    /\ pc \in Busy => pending # {}
    /\ pc \in Recording =>
          /\ result \in [status : Result, did : Result, quoted : BOOLEAN]
          /\ result.status \in Final => result.did = result.status
    /\ pc \in {"append", "write"} /\ result.status = "failed" => log[CurrentRun]
    /\ RowsTrue(csv.rows, log)

\* A settled final row is the last of its run.
OnceInv ==
    /\ RowsSound(csv.rows)
    /\ Unfinished(csv.rows, pending)

\* Where no write is torn, every row is a line of its own.
WholeInv ==
    TornWrites = FALSE =>
        /\ csv.head # "open" /\ csv.lost = {}
        /\ \A i \in DOMAIN csv.rows : csv.rows[i].open = "no"

-----------------------------------------------------------------------------
(* Least and greatest elements, for the two CHOOSEs of the model.          *)

LEMMA LeastExists ==
    ASSUME NEW S \in SUBSET Nat, S # {}
    PROVE  \E m \in S : \A k \in S : m <= k
<1>1. PICK m \in S : \A k \in S : <<k, m>> \notin OpToRel(<, Nat)
  BY WFMin, NatLessThanWellFounded, Zenon
<1>2. \A k \in S : ~(k < m)
  BY <1>1, Zenon DEF OpToRel
<1>3. \A k \in S : m <= k
  <2> TAKE k \in S
  <2>1. k \in Nat /\ m \in Nat
    OBVIOUS
  <2>2. ~(k < m)
    BY <1>2
  <2> QED  BY <2>1, <2>2
<1> QED  BY <1>3

LEMMA GreatestExists ==
    ASSUME NEW n \in Nat, NEW S \in SUBSET (1..n), S # {}
    PROVE  \E m \in S : \A k \in S : k <= m
<1> DEFINE T == {n - k : k \in S}
<1>1. \A k \in S : k \in Nat /\ n - k \in Nat
  OBVIOUS
<1>2. T \in SUBSET Nat
  BY <1>1
<1>3. T # {}
  OBVIOUS
<1>4. PICK t \in T : \A u \in T : t <= u
  <2> HIDE DEF T
  <2> QED  BY <1>2, <1>3, LeastExists
<1>5. PICK m \in S : t = n - m
  OBVIOUS
<1>6. \A k \in S : k <= m
  <2> TAKE k \in S
  <2>1. n - m <= n - k
    BY <1>4, <1>5
  <2> QED  BY <2>1, <1>1
<1> QED  BY <1>6

\* The run the loop works on is one of those it has left to do.
LEMMA CurrentIsPending ==
    ASSUME pending \in SUBSET Positions, pending # {}
    PROVE  /\ Current \in pending
           /\ CurrentRun = Runs[Current]
           /\ CurrentRun \in Run
<1>1. Positions \in SUBSET Nat
  <2>1. Len(Configs) \in Nat /\ Len(Pairs) \in Nat
    BY MatrixAssumption
  <2>2. Len(Configs) * Len(Pairs) \in Int
    BY <2>1
  <2>3. Positions = 1 .. Len(Configs) * Len(Pairs)
    BY DEF Positions, Runs
  <2> QED  BY <2>2, <2>3
<1>2. \E m \in pending : \A k \in pending : m <= k
  BY <1>1, LeastExists
<1>3. Current \in pending
  BY <1>2 DEF Current
<1> QED  BY <1>3 DEF CurrentRun, Run

-----------------------------------------------------------------------------
(* The rows.                                                               *)

\* The latest row shows a settled final result exactly if there is one.
LEMMA LatestIsFinal ==
    ASSUME NEW rows, RowsSound(rows), NEW r \in Unmistakable, NEW st \in Final
    PROVE  /\ Outcome(rows, r) = st <=> HasFinal(rows, r, st)
           /\ HasFinal(rows, r, st) => LatestStatus(rows, r) = st
<1> DEFINE at == LinesOf(rows, r)
<1>1. /\ rows \in Seq(RowType) /\ Len(rows) \in Nat /\ DOMAIN rows = 1..Len(rows)
  BY DEF RowsSound
<1>2. at \in SUBSET (1..Len(rows))
  BY <1>1 DEF LinesOf
<1>3. CASE at = {}
  <2>1. Outcome(rows, r) = "open"
    BY <1>3 DEF Outcome
  <2>2. ~HasFinal(rows, r, st)
    BY <1>3 DEF HasFinal, LinesOf
  <2> QED  BY <2>1, <2>2 DEF Final
<1>4. CASE at # {}
  <2> DEFINE m == CHOOSE k \in at : \A j \in at : j <= k
  <2>1. \E k \in at : \A j \in at : j <= k
    <3> HIDE DEF at
    <3> QED  BY <1>1, <1>2, <1>4, GreatestExists
  <2>2. m \in at /\ \A j \in at : j <= m
    <3> HIDE DEF at
    <3> QED  BY <2>1
  <2>3. /\ Outcome(rows, r) = IF Settled(rows[m]) \in Final THEN Settled(rows[m]) ELSE "open"
        /\ LatestStatus(rows, r) = rows[m].status
    BY <1>4 DEF Outcome, LatestStatus
  <2> HIDE DEF m
  <2>4. m \in DOMAIN rows /\ rows[m].run = r
    BY <2>2 DEF LinesOf
  <2>5. ASSUME NEW i \in DOMAIN rows, rows[i].run = r, Settled(rows[i]) = st
        PROVE  i = m
    <3>1. i \in at /\ i <= m
      BY <2>2, <2>5 DEF LinesOf
    <3>2. ~(i < m)
      BY <2>4, <2>5 DEF RowsSound, FinalIsLast
    <3> QED  BY <1>1, <2>4, <3>1, <3>2
  <2>6. Outcome(rows, r) = st <=> Settled(rows[m]) = st
    BY <2>3 DEF Final
  <2>7. HasFinal(rows, r, st) <=> Settled(rows[m]) = st
    BY <2>4, <2>5 DEF HasFinal
  <2>8. Settled(rows[m]) = st => rows[m].status = st
    BY DEF Settled, Final
  <2> QED  BY <2>3, <2>6, <2>7, <2>8
<1> QED  BY <1>3, <1>4

\* A run that is to be done has no final result yet.
LEMMA ToDoHasNoFinal ==
    ASSUME RowsSound(csv.rows), NEW rerun \in BOOLEAN, NEW k \in ToDo(rerun),
           NEW st \in Final, Runs[k] \in Unmistakable
    PROVE  ~HasFinal(csv.rows, Runs[k], st)
<1>1. LatestStatus(csv.rows, Runs[k]) \notin Final
  BY DEF ToDo, ShouldSkip, Final
<1> QED  BY <1>1, LatestIsFinal

\* The table after a row is written, whole or in part: no final result is lost,
\* and the only new one is that of the row.
Grown(rows, new, row) ==
    /\ RowsSound(new)
    /\ \A r \in Unmistakable, st \in Final :
          /\ HasFinal(rows, r, st) => HasFinal(new, r, st)
          /\ HasFinal(new, r, st) => \/ HasFinal(rows, r, st)
                                     \/ r = row.run /\ st = row.status

\* A new line: the row, or what is left of it.
PartOf(line, row) ==
    /\ EarlyHasNone(line)
    /\ line.status \in Result => line.run = row.run /\ line.status = row.status
                                  /\ line.did = row.did
    /\ line.run \in Unmistakable => line.run = row.run

\* An open line with the row, or what is left of it, behind it.
Follows(line, last, row) ==
    /\ EarlyHasNone(line)
    /\ last.open = "in_id" =>
          /\ line.run = NoRun /\ line.did = row.did
          /\ line.status \in {"none", "garbage", row.status}
    /\ last.open # "in_id" => line.run = last.run /\ line.did = last.did
    /\ last.open = "early" => line.status \in {"none", "garbage"}
    /\ last.open = "status" => \/ line.status = "garbage"
                               \/ line.open = "status" /\ line.status = "oom" /\ last.did = "oom"
    /\ last.open \in {"later", "quoted"} => line.status = last.status /\ line.open # "status"

LEMMA AppendGrows ==
    ASSUME NEW rows, RowsSound(rows), NEW row \in RowType, NEW line \in RowType,
           PartOf(line, row),
           \A st \in Final : row.run \in Unmistakable => ~HasFinal(rows, row.run, st)
    PROVE  Grown(rows, Append(rows, line), row)
<1> DEFINE new == Append(rows, line)
<1>1. rows \in Seq(RowType) /\ FinalIsLast(rows) /\ CutHasNoStatus(rows)
  BY DEF RowsSound
<1>2. /\ Len(rows) \in Nat /\ DOMAIN rows = 1..Len(rows)
      /\ new \in Seq(RowType) /\ DOMAIN new = 1..(Len(rows) + 1)
      /\ \A i \in 1..Len(rows) : new[i] = rows[i]
      /\ new[Len(rows) + 1] = line
  BY <1>1
<1>3. /\ EarlyHasNone(line)
      /\ Settled(line) \in Final => line.run = row.run /\ Settled(line) = row.status
      /\ line.run \in Unmistakable => line.run = row.run
  BY DEF PartOf, Settled, Final, Result
<1> HIDE DEF new
<1>4. FinalIsLast(new)
  <2> SUFFICES ASSUME NEW i \in DOMAIN new, NEW j \in DOMAIN new, i < j,
                      new[i].run \in Unmistakable, Settled(new[i]) \in Final
               PROVE  new[j].run # new[i].run
    BY DEF FinalIsLast
  <2>1. i \in DOMAIN rows /\ new[i] = rows[i]
    BY <1>2
  <2>2. CASE j \in DOMAIN rows
    BY <1>1, <1>2, <2>1, <2>2 DEF FinalIsLast
  <2>3. CASE j = Len(rows) + 1
    BY <1>2, <1>3, <2>1, <2>3 DEF HasFinal
  <2> QED  BY <1>2, <2>2, <2>3
<1>5. CutHasNoStatus(new)
  BY <1>1, <1>2, <1>3 DEF CutHasNoStatus
<1>6. ASSUME NEW r \in Unmistakable, NEW st \in Final
      PROVE  /\ HasFinal(rows, r, st) => HasFinal(new, r, st)
             /\ HasFinal(new, r, st) => HasFinal(rows, r, st) \/ (r = row.run /\ st = row.status)
  <2>1. HasFinal(rows, r, st) => HasFinal(new, r, st)
    BY <1>2 DEF HasFinal
  <2>2. HasFinal(new, r, st) => HasFinal(rows, r, st) \/ (r = row.run /\ st = row.status)
    BY <1>2, <1>3 DEF HasFinal
  <2> QED  BY <2>1, <2>2
<1>7. Grown(rows, new, row)
  BY <1>2, <1>4, <1>5, <1>6 DEF Grown, RowsSound
<1> QED  BY <1>7 DEF new

LEMMA JoinGrows ==
    ASSUME NEW rows, RowsSound(rows), EndsOpen(rows), NEW row \in RowType,
           NEW line \in RowType, Follows(line, rows[Len(rows)], row)
    PROVE  Grown(rows, ReplaceLast(rows, line), row)
<1> DEFINE last == rows[Len(rows)]
           new == ReplaceLast(rows, line)
<1>1. rows \in Seq(RowType) /\ FinalIsLast(rows) /\ CutHasNoStatus(rows) /\ rows # <<>>
      /\ last.open # "no"
  BY DEF RowsSound, EndsOpen
<1>2. Len(rows) \in Nat \ {0} /\ DOMAIN rows = 1..Len(rows) /\ Len(rows) \in DOMAIN rows
  BY <1>1
<1>3. last \in RowType /\ EarlyHasNone(last)
  BY <1>1, <1>2 DEF CutHasNoStatus
<1>4. /\ new \in Seq(RowType) /\ DOMAIN new = DOMAIN rows
      /\ \A i \in DOMAIN rows : i # Len(rows) => new[i] = rows[i]
      /\ new[Len(rows)] = line
  BY <1>1, <1>2 DEF ReplaceLast
<1>5. NoRun \notin Unmistakable
  BY MatrixAssumption DEF Unmistakable
<1>6. last.open \in {"in_id", "early", "status", "later", "quoted"}
  BY <1>1, <1>3 DEF RowType, Cut
<1> HIDE DEF last, new
\* The line settles a final result exactly if the open one did.
<1>7. /\ line.run \in Unmistakable => line.run = last.run
      /\ \A r \in Unmistakable, st \in Final :
            line.run = r /\ Settled(line) = st <=> last.run = r /\ Settled(last) = st
  <2>1. Follows(line, last, row) /\ EarlyHasNone(last)
    BY <1>3 DEF last
  <2>2. CASE last.open = "in_id"
    BY <1>5, <2>1, <2>2 DEF Follows, EarlyHasNone, Settled, Final
  <2>3. CASE last.open = "early"
    BY <2>1, <2>3 DEF Follows, EarlyHasNone, Settled, Final
  <2>4. CASE last.open = "status"
    BY <2>1, <2>4 DEF Follows, Settled, Final
  <2>5. CASE last.open \in {"later", "quoted"}
    BY <2>1, <2>5 DEF Follows, Settled, Final
  <2> QED  BY <1>6, <2>2, <2>3, <2>4, <2>5
<1>8. FinalIsLast(new)
  <2> SUFFICES ASSUME NEW i \in DOMAIN new, NEW j \in DOMAIN new, i < j,
                      new[i].run \in Unmistakable, Settled(new[i]) \in Final
               PROVE  new[j].run # new[i].run
    BY DEF FinalIsLast
  <2>1. i \in DOMAIN rows /\ j \in DOMAIN rows /\ i # Len(rows) /\ new[i] = rows[i]
    BY <1>2, <1>4
  <2>2. rows[j].run # rows[i].run
    BY <1>1, <2>1 DEF FinalIsLast
  <2>3. CASE j # Len(rows)
    BY <1>4, <2>1, <2>2, <2>3
  <2>4. CASE j = Len(rows)
    BY <1>4, <1>7, <2>1, <2>2, <2>4 DEF last
  <2> QED  BY <2>3, <2>4
<1>9. CutHasNoStatus(new)
  BY <1>1, <1>4 DEF CutHasNoStatus, Follows
<1>10. ASSUME NEW r \in Unmistakable, NEW st \in Final
       PROVE  HasFinal(rows, r, st) <=> HasFinal(new, r, st)
  <2>1. ASSUME NEW i \in DOMAIN rows
        PROVE  rows[i].run = r /\ Settled(rows[i]) = st <=> new[i].run = r /\ Settled(new[i]) = st
    <3>1. CASE i # Len(rows)
      BY <1>4, <2>1, <3>1
    <3>2. CASE i = Len(rows)
      BY <1>4, <1>7, <3>2 DEF last
    <3> QED  BY <3>1, <3>2
  <2> QED  BY <1>4, <2>1 DEF HasFinal
<1>11. Grown(rows, new, row)
  BY <1>4, <1>8, <1>9, <1>10 DEF Grown, RowsSound
<1> QED  BY <1>11 DEF new

LEMMA PairListed ==
    ASSUME NEW r \in Run
    PROVE  r.pair \in {Pairs[i] : i \in DOMAIN Pairs}
<1> DEFINE n == Len(Configs)
           m == Len(Pairs)
<1>1. n \in Nat /\ m \in Nat /\ m > 0 /\ DOMAIN Pairs = 1 .. m
  BY MatrixAssumption
<1>2. PICK k \in 1 .. n * m : r.pair = Pairs[((k - 1) % m) + 1]
  BY DEF Run, Positions, Runs
<1>3. n * m \in Int
  BY <1>1
<1>4. k - 1 \in Int /\ (k - 1) % m \in 0 .. m - 1
  BY <1>1, <1>2, <1>3
<1> QED  BY <1>1, <1>2, <1>4

\* A line of its own.
LEMMA LineIsPart ==
    ASSUME TornWrites, NEW row \in RowType, row.run \in Run, row.status \in Result,
           NEW at \in Cut, NEW line \in Line(row, at)
    PROVE  line \in RowType /\ PartOf(line, row)
<1>1. PICK id \in Run \cup {NoRun}, text \in StatusText(row.status, at) :
         /\ line = [row EXCEPT !.run = id, !.status = text, !.open = at]
         /\ at # "in_id" => id = row.run
         /\ id \in Run => id = row.run \/ <<id.pair, row.run.pair>> \in Shorter
  <2>1. PICK id \in ReadIds(row, at), text \in StatusText(row.status, at) :
           line = ReadAs(row, id, text, at)
    BY DEF Line
  <2>2. /\ id \in Run \cup {NoRun}
        /\ at # "in_id" => id = row.run
        /\ id \in Run => id = row.run \/ <<id.pair, row.run.pair>> \in Shorter
    BY MatrixAssumption DEF ReadIds
  <2> QED  BY <2>1, <2>2 DEF ReadAs
<1>2. /\ text \in {"none", "garbage", row.status}
      /\ at \in {"in_id", "early"} => text = "none"
  BY <1>1 DEF StatusText
<1>3. id \in Unmistakable => id = row.run
  <2> SUFFICES ASSUME id \in Unmistakable PROVE id = row.run
    OBVIOUS
  <2>1. id \in Run /\ \A pair \in {Pairs[i] : i \in DOMAIN Pairs} : <<id.pair, pair>> \notin Shorter
    BY DEF Unmistakable
  <2>2. row.run.pair \in {Pairs[i] : i \in DOMAIN Pairs}
    BY PairListed
  <2> QED  BY <1>1, <2>1, <2>2
<1>4. /\ line \in RowType
      /\ line.run = id /\ line.status = text /\ line.open = at /\ line.did = row.did
  BY <1>1, <1>2 DEF RowType, Status
<1>5. text \in Result => id = row.run /\ text = row.status
  BY <1>1, <1>2 DEF Result
<1> QED  BY <1>2, <1>3, <1>4, <1>5 DEF PartOf, EarlyHasNone

\* A line that goes on. It stops where Reach or Whole say.
LEMMA JoinedFollows ==
    ASSUME NEW last \in RowType, last.open # "no", NEW row \in RowType,
           NEW quoted, NEW at, at \in Reach(last.open, quoted) \/ at = Whole(last.open, quoted),
           NEW line \in Joined(last, row, at)
    PROVE  line \in RowType /\ Follows(line, last, row)
<1>1. /\ last.open \in {"in_id", "early", "status", "later", "quoted"}
      /\ last.run \in Run \cup {NoRun} /\ last.did \in {"ok", "oom", "failed"}
      /\ last.status \in Status /\ row.status \in Status
  BY DEF RowType, Cut
<1>2. /\ at \in {"in_id", "early", "status", "later", "quoted", "no"}
      /\ last.open # "in_id" => at # "in_id"
      /\ last.open \in {"status", "later", "quoted"} => at # "early"
      /\ last.open \in {"later", "quoted"} => at # "status"
  BY <1>1 DEF Reach, Whole
<1>3. CASE last.open = "in_id"
  <2>1. PICK text \in StatusText(row.status, at) :
           line = [row EXCEPT !.run = NoRun, !.status = text, !.open = at]
    BY <1>3 DEF Joined
  <2>2. /\ text \in {"none", "garbage", row.status}
        /\ at \in {"in_id", "early"} => text = "none"
    BY <2>1 DEF StatusText
  <2>3. /\ line \in RowType
        /\ line.run = NoRun /\ line.status = text /\ line.open = at /\ line.did = row.did
    BY <1>2, <2>1, <2>2 DEF RowType, Status, Cut
  <2> QED  BY <1>3, <2>2, <2>3 DEF Follows, EarlyHasNone
<1>4. CASE last.open # "in_id"
  <2>1. PICK text \in Status :
           /\ line = [last EXCEPT !.status = text, !.open = at]
           /\ last.open = "early" => text = IF at = "early" THEN "none" ELSE "garbage"
           /\ last.open = "status" =>
                 text = "garbage" \/ (at = "status" /\ text = "oom" /\ last.did = "oom")
           /\ last.open \in {"later", "quoted"} => text = last.status
    <3>1. CASE last.open = "early"
      BY <3>1 DEF Joined, Status
    <3>2. CASE last.open = "status"
      <4>1. PICK text \in {"garbage"} \cup (IF at = "status" THEN {last.did} \cap {"oom"} ELSE {}) :
               line = [last EXCEPT !.status = text, !.open = at]
        BY <3>2 DEF Joined
      <4>2. text = "garbage" \/ (at = "status" /\ text = "oom" /\ last.did = "oom")
        BY <4>1
      <4> QED  BY <3>2, <4>1, <4>2 DEF Status
    <3>3. CASE last.open \in {"later", "quoted"}
      <4>1. line = [last EXCEPT !.open = at]
        BY <3>3 DEF Joined
      <4>2. line = [last EXCEPT !.status = last.status, !.open = at]
        BY <4>1 DEF RowType
      <4> QED  BY <1>1, <3>3, <4>2
    <3> QED  BY <1>1, <1>4, <3>1, <3>2, <3>3
  <2>2. /\ line \in RowType
        /\ line.run = last.run /\ line.status = text /\ line.open = at /\ line.did = last.did
    BY <1>2, <2>1 DEF RowType, Cut
  <2> QED  BY <1>1, <1>2, <1>4, <2>1, <2>2 DEF Follows, EarlyHasNone
<1> QED  BY <1>3, <1>4

\* All that a write, finished or torn, makes of the table.
LEMMA Written ==
    ASSUME NEW t \in TableType, NEW row \in RowType, row.run \in Run,
           row.status \in Result, row.open = "no",
           NEW quoted, NEW new,
           new \in Appended(t, row, quoted) \/ (TornWrites /\ new \in Torn(t, row, quoted))
    PROVE  /\ new \in TableType
           /\ \/ new.rows = t.rows
              \/ \E line \in RowType : PartOf(line, row) /\ new.rows = Append(t.rows, line)
              \/ /\ EndsOpen(t.rows)
                 /\ \E line \in RowType : /\ Follows(line, t.rows[Len(t.rows)], row)
                                          /\ new.rows = ReplaceLast(t.rows, line)
<1> DEFINE last == t.rows[Len(t.rows)]
<1>1. /\ t.rows \in Seq(RowType) /\ t.lost \in SUBSET RowType
      /\ t = [head |-> t.head, rows |-> t.rows, lost |-> t.lost]
      /\ t.head \in {"absent", "empty", "cut", "open", "header"}
  BY DEF TableType
<1>2. PICK rows, head, lost :
         /\ new = [head |-> head, rows |-> rows, lost |-> lost]
         /\ head \in {t.head, "cut"} /\ lost \in {t.lost, t.lost \cup {row}}
         /\ \/ rows = t.rows
            \/ rows = Append(t.rows, row)
            \/ /\ TornWrites
               /\ \E at \in Reach("in_id", quoted) : \E line \in Line(row, at) :
                     rows = Append(t.rows, line)
            \/ /\ EndsOpen(t.rows)
               /\ \E at \in Reach(last.open, quoted) \cup {Whole(last.open, quoted)} :
                     \E line \in Joined(last, row, at) : rows = ReplaceLast(t.rows, line)
  <2>1. CASE new \in Appended(t, row, quoted)
    <3>1. CASE t.head = "open"
      BY <1>1, <2>1, <3>1 DEF Appended
    <3>2. CASE t.head # "open" /\ EndsOpen(t.rows)
      <4>1. PICK line \in Joined(last, row, Whole(last.open, quoted)) :
               new = [t EXCEPT !.rows = ReplaceLast(t.rows, line), !.lost = t.lost \cup {row}]
        BY <2>1, <3>2 DEF Appended
      <4>2. new = [head |-> t.head, rows |-> ReplaceLast(t.rows, line), lost |-> t.lost \cup {row}]
        BY <1>1, <4>1
      <4> QED  BY <3>2, <4>1, <4>2
    <3>3. CASE t.head # "open" /\ ~EndsOpen(t.rows)
      BY <1>1, <2>1, <3>3 DEF Appended
    <3> QED  BY <3>1, <3>2, <3>3
  <2>2. CASE new = t
    BY <1>1, <2>2
  <2>3. CASE /\ TornWrites /\ new \in Torn(t, row, quoted)
             /\ new # t /\ new \notin Appended(t, row, quoted)
    <3>1. CASE t.head = "open"
      BY <1>1, <2>3, <3>1 DEF Torn
    <3>2. CASE t.head # "open" /\ EndsOpen(t.rows)
      <4>1. PICK at \in Reach(last.open, quoted) : \E line \in Joined(last, row, at) :
               new = [t EXCEPT !.rows = ReplaceLast(t.rows, line)]
        BY <2>3, <3>2 DEF Torn
      <4>2. PICK line \in Joined(last, row, at) :
               new = [t EXCEPT !.rows = ReplaceLast(t.rows, line)]
        BY <4>1
      <4>3. new = [head |-> t.head, rows |-> ReplaceLast(t.rows, line), lost |-> t.lost]
        BY <1>1, <4>2
      <4> QED  BY <3>2, <4>1, <4>2, <4>3
    <3>3. CASE t.head # "open" /\ ~EndsOpen(t.rows)
      <4>1. PICK at \in Reach("in_id", quoted) : \E line \in Line(row, at) :
               new = [t EXCEPT !.rows = Append(t.rows, line)]
        BY <2>3, <3>3 DEF Torn
      <4>2. PICK line \in Line(row, at) : new = [t EXCEPT !.rows = Append(t.rows, line)]
        BY <4>1
      <4>3. new = [head |-> t.head, rows |-> Append(t.rows, line), lost |-> t.lost]
        BY <1>1, <4>2
      <4> QED  BY <2>3, <4>1, <4>2, <4>3
    <3> QED  BY <3>1, <3>2, <3>3
  <2> QED  BY <2>1, <2>2, <2>3
<1>3. /\ \/ rows = t.rows
         \/ \E line \in RowType : PartOf(line, row) /\ rows = Append(t.rows, line)
         \/ /\ EndsOpen(t.rows)
            /\ \E line \in RowType : Follows(line, last, row) /\ rows = ReplaceLast(t.rows, line)
      /\ rows \in Seq(RowType)
  <2>1. CASE rows = t.rows
    BY <1>1, <2>1
  <2>2. CASE rows = Append(t.rows, row)
    <3>1. PartOf(row, row)
      BY DEF PartOf, EarlyHasNone
    <3> QED  BY <1>1, <2>2, <3>1
  <2>3. ASSUME TornWrites, NEW at \in Reach("in_id", quoted), NEW line \in Line(row, at),
               rows = Append(t.rows, line)
        PROVE  /\ line \in RowType /\ PartOf(line, row)
               /\ rows \in Seq(RowType)
    <3>1. at \in Cut
      BY DEF Reach, Cut
    <3>2. line \in RowType /\ PartOf(line, row)
      BY <2>3, <3>1, LineIsPart
    <3> QED  BY <1>1, <2>3, <3>2
  <2>4. ASSUME EndsOpen(t.rows), NEW at \in Reach(last.open, quoted) \cup {Whole(last.open, quoted)},
               NEW line \in Joined(last, row, at), rows = ReplaceLast(t.rows, line)
        PROVE  /\ line \in RowType /\ Follows(line, last, row)
               /\ rows \in Seq(RowType)
    <3>1. last.open # "no" /\ Len(t.rows) \in DOMAIN t.rows /\ last \in RowType
      BY <1>1, <2>4 DEF EndsOpen
    <3> HIDE DEF last
    <3>2. line \in RowType /\ Follows(line, last, row)
      BY <3>1, JoinedFollows
    <3>3. rows \in Seq(RowType)
      BY <1>1, <2>4, <3>1, <3>2 DEF ReplaceLast
    <3> QED  BY <3>2, <3>3
  <2> QED  BY <1>2, <2>1, <2>2, <2>3, <2>4
<1>4. new.rows = rows /\ new \in TableType
  BY <1>1, <1>2, <1>3 DEF TableType
<1> QED  BY <1>3, <1>4

LEMMA WrittenGrows ==
    ASSUME NEW t \in TableType, RowsSound(t.rows), NEW row \in RowType, row.run \in Run,
           row.status \in Result, row.open = "no",
           \A st \in Final : row.run \in Unmistakable => ~HasFinal(t.rows, row.run, st),
           NEW quoted, NEW new,
           new \in Appended(t, row, quoted) \/ (TornWrites /\ new \in Torn(t, row, quoted))
    PROVE  Grown(t.rows, new.rows, row)
<1>1. CASE new.rows = t.rows
  BY <1>1 DEF Grown
<1>2. CASE \E line \in RowType : PartOf(line, row) /\ new.rows = Append(t.rows, line)
  BY <1>2, AppendGrows
<1>3. CASE /\ EndsOpen(t.rows)
           /\ \E line \in RowType : /\ Follows(line, t.rows[Len(t.rows)], row)
                                    /\ new.rows = ReplaceLast(t.rows, line)
  BY <1>3, JoinGrows
<1> QED  BY <1>1, <1>2, <1>3, Written

LEMMA WrittenTrue ==
    ASSUME NEW t \in TableType, CutHasNoStatus(t.rows), NEW lg, RowsTrue(t.rows, lg),
           NEW row \in RowType, row.run \in Run, row.status \in Result, row.open = "no",
           RowTrue(row, lg),
           NEW quoted, NEW new,
           new \in Appended(t, row, quoted) \/ (TornWrites /\ new \in Torn(t, row, quoted))
    PROVE  new \in TableType /\ CutHasNoStatus(new.rows) /\ RowsTrue(new.rows, lg)
<1> DEFINE rows == t.rows
<1>1. new \in TableType /\ rows \in Seq(RowType)
  BY Written DEF TableType
<1>2. CASE new.rows = rows
  BY <1>1, <1>2
<1>3. CASE \E line \in RowType : PartOf(line, row) /\ new.rows = Append(rows, line)
  <2>1. PICK line \in RowType : PartOf(line, row) /\ new.rows = Append(rows, line)
    BY <1>3
  <2>2. EarlyHasNone(line) /\ RowTrue(line, lg)
    BY <2>1 DEF PartOf, RowTrue, Final, Result
  <2>3. /\ Len(rows) \in Nat /\ DOMAIN rows = 1..Len(rows)
        /\ DOMAIN new.rows = 1..(Len(rows) + 1)
        /\ \A i \in 1..Len(rows) : new.rows[i] = rows[i]
        /\ new.rows[Len(rows) + 1] = line
    BY <1>1, <2>1
  <2> QED  BY <1>1, <2>2, <2>3 DEF CutHasNoStatus, RowsTrue
<1>4. CASE /\ EndsOpen(rows)
           /\ \E line \in RowType : /\ Follows(line, rows[Len(rows)], row)
                                    /\ new.rows = ReplaceLast(rows, line)
  <2> DEFINE last == rows[Len(rows)]
  <2>1. PICK line \in RowType : Follows(line, last, row) /\ new.rows = ReplaceLast(rows, line)
    BY <1>4
  <2>2. Len(rows) \in Nat \ {0} /\ DOMAIN rows = 1..Len(rows) /\ Len(rows) \in DOMAIN rows
    BY <1>1, <1>4 DEF EndsOpen
  <2>3. last.open \in {"in_id", "early", "status", "later", "quoted"}
    <3>1. last \in RowType /\ last.open # "no"
      BY <1>1, <1>4, <2>2 DEF EndsOpen
    <3> HIDE DEF last
    <3> QED  BY <3>1 DEF RowType, Cut
  <2>4. RowTrue(last, lg)
    BY <2>2 DEF RowsTrue
  <2> HIDE DEF last
  <2>5. EarlyHasNone(line) /\ RowTrue(line, lg)
    <3>1. CASE last.open = "in_id"
      BY <2>1, <3>1 DEF Follows, RowTrue, Final
    <3>2. CASE last.open = "early"
      BY <2>1, <3>2 DEF Follows, RowTrue, Final
    <3>3. CASE last.open = "status"
      BY <2>1, <3>3 DEF Follows, RowTrue, Final
    <3>4. CASE last.open \in {"later", "quoted"}
      BY <2>1, <2>4, <3>4 DEF Follows, RowTrue, Final
    <3> QED  BY <2>1, <2>3, <3>1, <3>2, <3>3, <3>4 DEF Follows
  <2>6. /\ DOMAIN new.rows = DOMAIN rows
        /\ \A i \in DOMAIN rows : i # Len(rows) => new.rows[i] = rows[i]
        /\ new.rows[Len(rows)] = line
    BY <2>1, <2>2 DEF ReplaceLast
  <2> QED  BY <1>1, <2>5, <2>6 DEF CutHasNoStatus, RowsTrue
<1> QED  BY <1>1, <1>2, <1>3, <1>4, Written

-----------------------------------------------------------------------------
(* What a row says is true.                                                *)

\* A result that Conclude hands over is logged, or about to be.
LEMMA ConcludeTrue ==
    ASSUME TrueInv, pending # {}, NEW status \in Result, NEW did \in Result, NEW rc,
           status \in Final => did = status,
           Conclude(status, did, rc),
           UNCHANGED <<csv, log, pending>>
    PROVE  TrueInv'
<1>1. /\ pc' \in {"log", "append"} /\ (pc' = "append" => status # "failed")
      /\ result' = [status |-> status, did |-> did, quoted |-> rc = 2]
  BY DEF Conclude, LogNeeded
<1>2. /\ result' \in [status : Result, did : Result, quoted : BOOLEAN]
      /\ result'.status = status /\ result'.did = did
  BY <1>1
<1>3. CurrentRun' = CurrentRun
  BY DEF CurrentRun, Current, Runs
<1> QED
  BY <1>1, <1>2, <1>3 DEF TrueInv, Busy, Recording

\* Nothing is recorded yet: only the place in the loop has changed.
LEMMA NothingRecorded ==
    ASSUME TrueInv, UNCHANGED <<csv, log>>, pc' \notin Recording,
           pending' \in SUBSET Positions, pc' \in Busy => pending' # {}
    PROVE  TrueInv'
BY DEF TrueInv, Recording

\* The VM ended with exit code 0 only after it had opened its two files, so what
\* run_one reads in them is of this attempt.
LEMMA RunOneTrue ==
    ASSUME NEW program, NEW vm \in VMOutcomes(program), NEW old, NEW older
    PROVE  LET status == RunOne(vm.rc, SummaryAfter(vm, old), SeriesAfter(vm, older))
           IN  /\ status \in Result /\ Did(vm) \in Result
               /\ status \in Final => Did(vm) = status
<1> DEFINE sum == SummaryAfter(vm, old)
           ser == SeriesAfter(vm, older)
<1>1. RunOne(vm.rc, sum, ser) \in Result /\ Did(vm) \in Result
  BY DEF RunOne, Did, Result
<1>2. ASSUME RunOne(vm.rc, sum, ser) \in Final
      PROVE  Did(vm) = RunOne(vm.rc, sum, ser)
  <2>1. vm.rc = 0 /\ Parsed(sum) /\ sum.es \in {ES_COMPLETED, ES_OOM}
    BY <1>2 DEF RunOne, Final
  <2>2. vm.files # "kept"
    BY <2>1 DEF VMOutcomes
  <2>3. sum = Good(vm.es)
    BY <2>1, <2>2 DEF SummaryAfter, Parsed, Bad, File
  <2>4. sum.es = vm.es
    BY <2>3 DEF Good, File
  <2> QED  BY <1>2, <2>1, <2>4 DEF RunOne, Did, ES_COMPLETED, ES_OOM, Final
<1> QED  BY <1>1, <1>2

LEMMA NewRowSound ==
    ASSUME TrueInv, ShapeInv, pc = "write"
    PROVE  /\ NewRow \in RowType /\ NewRow.run = CurrentRun /\ CurrentRun \in Run
           /\ NewRow.status \in Result /\ NewRow.open = "no"
           /\ RowTrue(NewRow, log)
<1>1. CurrentRun \in Run
  BY CurrentIsPending DEF TrueInv, Busy
<1>2. /\ result.status \in Result /\ result.did \in Result
      /\ result.status \in Final => result.did = result.status
      /\ result.status = "failed" => log[CurrentRun]
  BY DEF TrueInv, Recording
<1>3. NewRow = [run |-> CurrentRun, status |-> result.status, did |-> result.did,
              by |-> starts, open |-> "no"]
  BY DEF NewRow, Row
<1> QED  BY <1>1, <1>2, <1>3 DEF ShapeInv, RowType, Cut, Status, Result, RowTrue, Final

LEMMA HeaderTyped ==
    ASSUME csv \in TableType
    PROVE  WithHeader \in TableType /\ WithHeader.rows = csv.rows /\ WithHeader.lost = csv.lost
BY DEF WithHeader, TableType

\* A row is written, or a part of it.
LEMMA WriteTrue ==
    ASSUME TrueInv, ShapeInv, pc = "write",
           csv' \in Appended(WithHeader, NewRow, result.quoted)
              \/ (TornWrites /\ csv' \in Torn(WithHeader, NewRow, result.quoted)),
           UNCHANGED log, pending' \in SUBSET Positions, pc' \notin Busy
    PROVE  TrueInv'
<1> DEFINE t == WithHeader
<1>1. t \in TableType /\ CutHasNoStatus(t.rows) /\ RowsTrue(t.rows, log)
  BY HeaderTyped DEF TrueInv
<1> HIDE DEF t
<1>2. csv' \in TableType /\ CutHasNoStatus(csv'.rows) /\ RowsTrue(csv'.rows, log)
  BY <1>1, NewRowSound, WrittenTrue DEF t
<1> QED  BY <1>2 DEF TrueInv, Busy, Recording

LEMMA TrueInit == Init => TrueInv
<1> SUFFICES ASSUME Init PROVE TrueInv
  OBVIOUS
<1>1. csv \in TableType /\ csv.rows = << >>
  BY DEF Init, TableType
<1>2. CutHasNoStatus(csv.rows) /\ RowsTrue(csv.rows, log)
  BY <1>1 DEF CutHasNoStatus, RowsTrue
<1> QED  BY <1>1, <1>2 DEF Init, Idle, TrueInv, Busy, Recording

LEMMA ShapeStep == ShapeInv /\ [Next]_vars => ShapeInv'
<1> SUFFICES ASSUME ShapeInv, [Next]_vars PROVE ShapeInv'
  OBVIOUS
<1>1. MaxStarts \in Nat
  BY MatrixAssumption
<1>2. CASE \E its \in Iterations, rerun_failed, dry_run \in BOOLEAN : Start(its, rerun_failed, dry_run)
  BY <1>1, <1>2 DEF Start, disk, ShapeInv
<1>3. CASE Step \/ TornWrite \/ Kill \/ UNCHANGED vars
  BY <1>3 DEF ShapeInv, Step, vars, disk, process, NextRun, Generate, Assemble, Execute, WriteLog,
              OpenTable, WriteRow, Finish, TornWrite, Kill, VMLeaves
<1> QED  BY <1>2, <1>3 DEF Next

LEMMA TrueStep == TrueInv /\ ShapeInv /\ [Next]_vars => TrueInv'
<1> SUFFICES ASSUME TrueInv, ShapeInv, [Next]_vars PROVE TrueInv'
  OBVIOUS
<1> USE DEF Busy, Recording
<1>1. ASSUME NEW its \in Iterations, NEW rerun_failed \in BOOLEAN, NEW dry_run \in BOOLEAN,
             Start(its, rerun_failed, dry_run)
      PROVE  TrueInv'
  <2>1. /\ UNCHANGED <<csv, log>> /\ pc' \in {"refused", "done", "next"}
        /\ pending' = pending \/ pending' = {} \/ pending' = ToDo(rerun_failed)
    BY <1>1 DEF Start, disk
  <2>2. pending' \in SUBSET Positions
    BY <2>1 DEF TrueInv, ToDo
  <2> QED  BY <2>1, <2>2, NothingRecorded
<1>2. CASE NextRun
  <2>1. UNCHANGED <<csv, log, pending>> /\ pending # {} /\ pending \in SUBSET Positions
    BY <1>2 DEF NextRun, disk, TrueInv
  <2>2. CASE Conclude("failed", "failed", NoExitCode)
    BY <2>1, <2>2, ConcludeTrue DEF Result, Final
  <2>3. CASE pc' \in {"execute", "generate"}
    BY <2>1, <2>3, NothingRecorded
  <2> QED  BY <1>2, <2>2, <2>3 DEF NextRun
<1>3. CASE Generate
  <2>1. UNCHANGED <<csv, log, pending>> /\ pending # {} /\ pending \in SUBSET Positions
    BY <1>3 DEF Generate, disk, TrueInv
  <2>2. CASE WorkloadFails
    BY <2>1, <2>2, ConcludeTrue DEF WorkloadFails, Result, Final
  <2>3. CASE pc' = "assemble"
    BY <2>1, <2>3, NothingRecorded
  <2> QED  BY <1>3, <2>2, <2>3 DEF Generate
<1>4. CASE Assemble
  <2>1. UNCHANGED <<csv, log, pending>> /\ pending # {} /\ pending \in SUBSET Positions
    BY <1>4 DEF Assemble, TrueInv
  <2>2. CASE WorkloadFails
    BY <2>1, <2>2, ConcludeTrue DEF WorkloadFails, Result, Final
  <2>3. CASE pc' = "execute"
    BY <2>1, <2>3, NothingRecorded
  <2> QED  BY <1>4, <2>2, <2>3 DEF Assemble
<1>5. CASE Execute
  <2>1. PICK vm \in VMOutcomes(binary[CurrentProgram]) :
           /\ VMLeaves(vm)
           /\ Conclude(RunOne(vm.rc, summary'[CurrentRun], series'[CurrentRun]), Did(vm), vm.rc)
    BY <1>5 DEF Execute
  <2>2. UNCHANGED <<csv, log, pending>> /\ pending # {} /\ CurrentRun \in Run
    BY <1>5, CurrentIsPending DEF Execute, TrueInv
  <2>3. /\ summary'[CurrentRun] = SummaryAfter(vm, summary[CurrentRun])
        /\ series'[CurrentRun] = SeriesAfter(vm, series[CurrentRun])
    BY <2>1, <2>2 DEF VMLeaves, ShapeInv
  <2> QED  BY <2>1, <2>2, <2>3, RunOneTrue, ConcludeTrue
<1>6. CASE WriteLog
  <2>1. /\ UNCHANGED <<csv, pending, result>> /\ pc = "log" /\ pc' = "append"
        /\ log' = [log EXCEPT ![CurrentRun] = TRUE]
    BY <1>6 DEF WriteLog
  <2>2. CurrentRun \in Run /\ CurrentRun' = CurrentRun
    BY <2>1, CurrentIsPending DEF TrueInv, CurrentRun, Current, Runs
  <2>3. log' \in [Run -> BOOLEAN] /\ log'[CurrentRun]
        /\ \A r \in Run : log[r] => log'[r]
    BY <2>1, <2>2 DEF TrueInv
  <2>4. RowsTrue(csv.rows, log')
    <3> SUFFICES ASSUME NEW i \in DOMAIN csv.rows PROVE RowTrue(csv.rows[i], log')
      BY DEF RowsTrue
    <3>1. csv.rows[i] \in RowType /\ RowTrue(csv.rows[i], log)
      BY DEF TrueInv, TableType, RowsTrue
    <3>2. csv.rows[i].run \in Run \cup {NoRun}
      BY <3>1 DEF RowType
    <3> QED  BY <2>3, <3>1, <3>2 DEF RowTrue
  <2> QED  BY <2>1, <2>2, <2>3, <2>4 DEF TrueInv
<1>7. CASE OpenTable
  <2>1. /\ UNCHANGED <<log, pending, result>> /\ pc = "append" /\ pc' = "write"
        /\ csv' = [csv EXCEPT !.head = IF @ = "absent" THEN "empty" ELSE @]
    BY <1>7 DEF OpenTable
  <2>2. CurrentRun' = CurrentRun
    BY <2>1 DEF CurrentRun, Current, Runs
  <2>3. csv'.rows = csv.rows /\ csv' \in TableType
    BY <2>1 DEF TrueInv, TableType
  <2> QED  BY <2>1, <2>2, <2>3 DEF TrueInv
<1>8. CASE WriteRow
  BY <1>8, WriteTrue DEF WriteRow, TrueInv
<1>9. CASE Finish
  BY <1>9, NothingRecorded DEF Finish, Forget, disk
<1>10. CASE TornWrite
  <2>1. CASE \E head \in {"empty", "cut", "open"} : csv' = [csv EXCEPT !.head = head]
    <3>1. csv'.rows = csv.rows /\ csv' \in TableType
      BY <2>1 DEF TrueInv, TableType
    <3> QED  BY <1>10, <3>1 DEF TornWrite, Forget, TrueInv
  <2>2. CASE csv' \in Torn(WithHeader, NewRow, result.quoted)
    BY <1>10, <2>2, WriteTrue DEF TornWrite, Forget
  <2> QED  BY <1>10, <2>1, <2>2 DEF TornWrite
<1>11. CASE Kill
  BY <1>11, NothingRecorded DEF Kill, Forget
<1>12. CASE UNCHANGED vars
  BY <1>12 DEF vars, disk, process, TrueInv, CurrentRun, Current, Runs
<1> QED
  BY <1>1, <1>2, <1>3, <1>4, <1>5, <1>6, <1>7, <1>8, <1>9, <1>10, <1>11, <1>12 DEF Next, Step

\* A final result that a row of runs.csv shows is what the VM did in that attempt,
\* and the log of a failed run is on disk: whatever is killed, torn, joined or
\* restarted, and whatever the run ids (run_one, main, append_row).
THEOREM DriverRowIsTrue == Spec => []RowIsTrue
<1>1. Init => TrueInv /\ ShapeInv
  BY TrueInit, MatrixAssumption DEF Init, ShapeInv
<1>2. TrueInv /\ ShapeInv /\ [Next]_vars => (TrueInv /\ ShapeInv)'
  BY TrueStep, ShapeStep
<1>3. TrueInv => RowIsTrue
  BY DEF TrueInv, RowsTrue, RowTrue, RowIsTrue, Rows, Final
<1> QED  BY <1>1, <1>2, <1>3, PTL DEF Spec

-----------------------------------------------------------------------------
(* A run with a final result is left alone.                                *)

LEMMA OnceInit == Init => OnceInv
<1> SUFFICES ASSUME Init PROVE OnceInv
  OBVIOUS
<1>1. csv.rows = << >> /\ pending = {}
  BY DEF Init, Idle
<1> QED  BY <1>1 DEF OnceInv, RowsSound, FinalIsLast, CutHasNoStatus, Unfinished

\* What a write does to the table, under both invariants.
LEMMA WriteGrows ==
    ASSUME TrueInv, ShapeInv, OnceInv, pc = "write",
           csv' \in Appended(WithHeader, NewRow, result.quoted)
              \/ (TornWrites /\ csv' \in Torn(WithHeader, NewRow, result.quoted))
    PROVE  /\ Grown(csv.rows, csv'.rows, NewRow)
           /\ \A st \in Final : NewRow.run \in Unmistakable => ~HasFinal(csv.rows, NewRow.run, st)
<1>1. \A st \in Final : NewRow.run \in Unmistakable => ~HasFinal(csv.rows, NewRow.run, st)
  <2>1. Current \in pending /\ CurrentRun = Runs[Current]
    BY CurrentIsPending DEF TrueInv, Busy
  <2> QED  BY <2>1, NewRowSound DEF OnceInv, Unfinished
<1> DEFINE t == WithHeader
<1>2. t \in TableType /\ t.rows = csv.rows
  BY HeaderTyped DEF TrueInv
<1> HIDE DEF t
<1>3. Grown(t.rows, csv'.rows, NewRow)
  BY <1>1, <1>2, NewRowSound, WrittenGrows DEF OnceInv, t
<1> QED  BY <1>1, <1>2, <1>3

\* The steps that leave the rows alone.
SameRows == csv'.rows = csv.rows /\ (pending' = pending \/ pending' = {})

LEMMA StepKinds ==
    ASSUME TrueInv, [Next]_vars
    PROVE  \/ SameRows
           \/ csv' = csv /\ \E rerun_failed \in BOOLEAN : pending' = ToDo(rerun_failed)
           \/ WriteRow
           \/ /\ pc = "write" /\ pending' = {}
              /\ TornWrites /\ csv' \in Torn(WithHeader, NewRow, result.quoted)
<1>1. ASSUME NEW its \in Iterations, NEW rerun_failed \in BOOLEAN, NEW dry_run \in BOOLEAN,
             Start(its, rerun_failed, dry_run)
      PROVE  \/ SameRows
             \/ csv' = csv /\ pending' = ToDo(rerun_failed)
  BY <1>1 DEF Start, disk, SameRows
<1>2. CASE NextRun \/ Generate \/ Assemble \/ Execute \/ WriteLog \/ Finish \/ Kill
           \/ UNCHANGED vars
  BY <1>2 DEF NextRun, Generate, Assemble, Execute, WriteLog, Finish, Kill, Forget, vars, disk,
              process, SameRows
<1>3. CASE OpenTable
  <2>1. csv'.rows = csv.rows
    BY <1>3 DEF OpenTable, TrueInv, TableType
  <2> QED  BY <1>3, <2>1 DEF OpenTable, SameRows
<1>4. CASE TornWrite
  <2>1. TornWrites /\ pc = "write" /\ pending' = {}
    BY <1>4 DEF TornWrite, Forget
  <2>2. CASE \E head \in {"empty", "cut", "open"} : csv' = [csv EXCEPT !.head = head]
    BY <2>1, <2>2 DEF TrueInv, TableType, SameRows
  <2>3. CASE csv' \in Torn(WithHeader, NewRow, result.quoted)
    BY <2>1, <2>3
  <2> QED  BY <1>4, <2>2, <2>3 DEF TornWrite
<1> QED  BY <1>1, <1>2, <1>3, <1>4 DEF Next, Step

LEMMA OnceStep ==
    ASSUME TrueInv, ShapeInv, OnceInv, [Next]_vars
    PROVE  OnceInv'
<1>1. CASE SameRows
  BY <1>1 DEF SameRows, OnceInv, Unfinished
<1>2. CASE csv' = csv /\ \E rerun_failed \in BOOLEAN : pending' = ToDo(rerun_failed)
  <2>1. PICK rerun_failed \in BOOLEAN : pending' = ToDo(rerun_failed)
    BY <1>2
  <2>2. \A k \in ToDo(rerun_failed), st \in Final :
           Runs[k] \in Unmistakable => ~HasFinal(csv.rows, Runs[k], st)
    BY ToDoHasNoFinal DEF OnceInv
  <2> QED  BY <1>2, <2>1, <2>2 DEF OnceInv, Unfinished
<1>3. CASE WriteRow
  <2>1. /\ pc = "write" /\ pending' = pending \ {Current}
        /\ csv' \in Appended(WithHeader, NewRow, result.quoted)
    BY <1>3 DEF WriteRow
  <2>2. Grown(csv.rows, csv'.rows, NewRow)
    BY <2>1, WriteGrows
  <2>3. NewRow.run = Runs[Current] /\ Current \in Positions /\ pending \in SUBSET Positions
    BY <2>1, NewRowSound, CurrentIsPending DEF TrueInv, Busy
  <2>4. ASSUME NEW k \in pending', NEW st \in Final, Runs[k] \in Unmistakable
        PROVE  ~HasFinal(csv'.rows, Runs[k], st)
    <3>1. k \in Positions /\ k \in pending /\ k # Current
      BY <2>1, <2>3
    <3>2. Runs[k] # NewRow.run
      BY <2>3, <3>1, MatrixAssumption DEF Run
    <3>3. ~HasFinal(csv.rows, Runs[k], st)
      BY <2>4, <3>1 DEF OnceInv, Unfinished
    <3> QED  BY <2>2, <2>4, <3>2, <3>3 DEF Grown
  <2> QED  BY <2>2, <2>4 DEF OnceInv, Unfinished, Grown
<1>4. CASE pc = "write" /\ pending' = {} /\ TornWrites /\ csv' \in Torn(WithHeader, NewRow, result.quoted)
  <2>1. Grown(csv.rows, csv'.rows, NewRow)
    BY <1>4, WriteGrows
  <2> QED  BY <1>4, <2>1 DEF OnceInv, Unfinished, Grown
<1> QED  BY <1>1, <1>2, <1>3, <1>4, StepKinds

\* A disk that does not fill up: only the steps that write to the table matter.
LEMMA WholeStep ==
    ASSUME TrueInv, ShapeInv, WholeInv, [Next]_vars
    PROVE  WholeInv'
<1> SUFFICES ASSUME TornWrites = FALSE
             PROVE  /\ csv'.head # "open" /\ csv'.lost = {}
                    /\ \A i \in DOMAIN csv'.rows : csv'.rows[i].open = "no"
  BY DEF WholeInv
<1>1. /\ csv.head # "open" /\ csv.lost = {}
      /\ \A i \in DOMAIN csv.rows : csv.rows[i].open = "no"
      /\ csv \in TableType
  BY DEF WholeInv, TrueInv
<1>2. CASE csv' = csv
  BY <1>1, <1>2
<1>3. CASE OpenTable
  BY <1>1, <1>3 DEF OpenTable, TableType
<1>4. CASE WriteRow
  <2> DEFINE t == WithHeader
  <2>1. /\ pc = "write" /\ csv' \in Appended(t, NewRow, result.quoted)
        /\ t \in TableType /\ t.rows = csv.rows /\ t.lost = {} /\ t.head # "open"
    BY <1>1, <1>4, HeaderTyped DEF WriteRow, WithHeader, TableType
  <2>2. NewRow.open = "no" /\ NewRow \in RowType
    BY <2>1, NewRowSound
  <2> HIDE DEF t
  <2>3. ~EndsOpen(t.rows)
    BY <1>1, <2>1 DEF EndsOpen, TableType
  <2>4. csv' = [t EXCEPT !.rows = Append(t.rows, NewRow)]
    BY <2>1, <2>3 DEF Appended
  <2>5. csv'.rows = Append(csv.rows, NewRow) /\ csv'.lost = {} /\ csv'.head # "open"
    BY <2>1, <2>4 DEF TableType
  <2>6. csv.rows \in Seq(RowType)
    BY <1>1 DEF TableType
  <2> QED  BY <1>1, <2>2, <2>5, <2>6
<1>5. CASE UNCHANGED vars
  BY <1>2, <1>5 DEF vars, disk
<1>6. CASE \E its \in Iterations, rerun_failed, dry_run \in BOOLEAN : Start(its, rerun_failed, dry_run)
  BY <1>2, <1>6 DEF Start, disk
<1>7. CASE NextRun \/ Generate \/ Assemble \/ Execute \/ WriteLog \/ Finish \/ Kill
  BY <1>2, <1>7 DEF NextRun, Generate, Assemble, Execute, WriteLog, Finish, Kill, disk
<1>8. ~TornWrite
  BY DEF TornWrite
<1> QED  BY <1>3, <1>4, <1>5, <1>6, <1>7, <1>8 DEF Next, Step

IInv == TrueInv /\ ShapeInv /\ OnceInv /\ WholeInv

THEOREM DriverInvariant == Spec => []IInv
<1>1. Init => IInv
  <2> SUFFICES ASSUME Init PROVE IInv
    OBVIOUS
  <2>1. ShapeInv
    BY MatrixAssumption DEF Init, ShapeInv
  <2>2. WholeInv
    BY DEF Init, WholeInv
  <2> QED  BY <2>1, <2>2, TrueInit, OnceInit DEF IInv
<1>2. IInv /\ [Next]_vars => IInv'
  BY TrueStep, ShapeStep, OnceStep, WholeStep DEF IInv
<1> QED  BY <1>1, <1>2, PTL DEF Spec

\* A run whose final result runs.csv shows is never pending again, whenever the
\* drivers are killed and started and whatever rows are torn (should_skip).
THEOREM DriverNeverRedone == Spec => []NeverRedone
<1>1. IInv => NeverRedone
  <2> SUFFICES ASSUME IInv, NEW k \in pending, NEW row \in Rows,
                      row.run = Runs[k], row.run \in Unmistakable, Settled(row) \in Final
               PROVE  FALSE
    BY DEF NeverRedone
  <2>1. PICK i \in DOMAIN csv.rows : row = csv.rows[i]
    BY DEF Rows
  <2>2. HasFinal(csv.rows, Runs[k], Settled(row))
    BY <2>1 DEF HasFinal
  <2> QED  BY <2>2 DEF IInv, OnceInv, Unfinished
<1> QED  BY <1>1, DriverInvariant, PTL

\* On a disk that does not fill up every row with a final result makes the later
\* drivers skip its run, whenever they are killed and started (load_statuses).
THEOREM DriverRecordedIsSkipped ==
    ASSUME TornWrites = FALSE
    PROVE  Spec => []RecordedIsSkipped
<1>1. IInv => RecordedIsSkipped
  <2> SUFFICES ASSUME IInv, NEW k \in pending, NEW row \in Rows \cup csv.lost,
                      row.run = Runs[k], row.status \in Final
               PROVE  FALSE
    BY DEF RecordedIsSkipped
  <2>1. /\ csv.lost = {} /\ \A i \in DOMAIN csv.rows : csv.rows[i].open = "no"
    BY DEF IInv, WholeInv
  <2>2. PICK i \in DOMAIN csv.rows : row = csv.rows[i]
    BY <2>1 DEF Rows
  <2>3. HasFinal(csv.rows, Runs[k], row.status)
    BY <2>1, <2>2 DEF HasFinal, Settled
  <2>4. Runs[k] \in Unmistakable
    BY DEF IInv, TrueInv, Run, Unmistakable
  <2> QED  BY <2>3, <2>4 DEF IInv, OnceInv, Unfinished
<1> QED  BY <1>1, DriverInvariant, PTL

-----------------------------------------------------------------------------
(* The driver implements ResultsTable.                                     *)

Outcomes(rows) == [r \in Unmistakable |-> Outcome(rows, r)]

\* What a write adds is at most one final result, to a run that had none.
LEMMA GrownStep ==
    ASSUME NEW rows, RowsSound(rows), NEW row, NEW new, Grown(rows, new, row),
           \A st \in Final : row.run \in Unmistakable => ~HasFinal(rows, row.run, st)
    PROVE  \/ Outcomes(new) = Outcomes(rows)
           \/ \E st \in Final :
                 /\ row.run \in Unmistakable /\ Outcome(rows, row.run) = "open"
                 /\ Outcomes(new) = [Outcomes(rows) EXCEPT ![row.run] = st]
<1>1. ASSUME NEW r \in Unmistakable
      PROVE  /\ Outcome(rows, r) \in Final \cup {"open"}
             /\ Outcome(new, r) \in Final \cup {"open"}
             /\ \A st \in Final :
                   /\ Outcome(rows, r) = st <=> HasFinal(rows, r, st)
                   /\ Outcome(new, r) = st <=> HasFinal(new, r, st)
  <2>1. /\ Outcome(rows, r) \in Final \cup {"open"}
        /\ Outcome(new, r) \in Final \cup {"open"}
    BY DEF Outcome
  <2>2. RowsSound(new)
    BY DEF Grown
  <2> QED  BY <1>1, <2>1, <2>2, LatestIsFinal
<1>2. \A r \in Unmistakable : r # row.run => Outcome(new, r) = Outcome(rows, r)
  BY <1>1 DEF Grown, Final
<1>3. CASE row.run \notin Unmistakable
  BY <1>2, <1>3 DEF Outcomes
<1>4. CASE row.run \in Unmistakable
  <2>1. Outcome(rows, row.run) = "open"
    BY <1>1, <1>4
  <2>2. CASE Outcome(new, row.run) = "open"
    BY <1>2, <2>1, <2>2 DEF Outcomes
  <2>3. CASE Outcome(new, row.run) \in Final
    <3>1. Outcomes(new) = [Outcomes(rows) EXCEPT ![row.run] = Outcome(new, row.run)]
      BY <1>2 DEF Outcomes
    <3> QED  BY <1>4, <2>1, <2>3, <3>1
  <2> QED  BY <1>1, <1>4, <2>2, <2>3
<1> QED  BY <1>3, <1>4

LEMMA TableStep ==
    ASSUME IInv, [Next]_vars
    PROVE  [Table!Next]_(Outcomes(csv.rows))
<1> USE DEF IInv
<1>1. CASE csv'.rows = csv.rows
  BY <1>1 DEF Outcomes
<1>2. ASSUME pc = "write",
             csv' \in Appended(WithHeader, NewRow, result.quoted)
                \/ (TornWrites /\ csv' \in Torn(WithHeader, NewRow, result.quoted))
      PROVE  [Table!Next]_(Outcomes(csv.rows))
  <2>1. /\ RowsSound(csv.rows) /\ Grown(csv.rows, csv'.rows, NewRow)
        /\ \A st \in Final : NewRow.run \in Unmistakable => ~HasFinal(csv.rows, NewRow.run, st)
    BY <1>2, WriteGrows DEF OnceInv
  <2>2. CASE Outcomes(csv'.rows) = Outcomes(csv.rows)
    BY <2>2 DEF Outcomes
  <2>3. ASSUME NEW st \in Final, NewRow.run \in Unmistakable,
               Outcome(csv.rows, NewRow.run) = "open",
               Outcomes(csv'.rows) = [Outcomes(csv.rows) EXCEPT ![NewRow.run] = st]
        PROVE  Table!Next
    <3>1. Table!Record(NewRow.run, st)
      BY <2>3 DEF Table!Record, Outcomes
    <3> QED  BY <2>3, <3>1 DEF Table!Next, Table!Final, Final
  <2> QED  BY <2>1, <2>2, <2>3, GrownStep
<1>3. CASE WriteRow
  <2>1. pc = "write" /\ csv' \in Appended(WithHeader, NewRow, result.quoted)
    BY <1>3 DEF WriteRow
  <2> QED  BY <1>2, <2>1
<1>4. CASE SameRows \/ csv' = csv
  BY <1>1, <1>4 DEF SameRows
<1> QED  BY <1>2, <1>3, <1>4, StepKinds

\* Each run gets at most one final result and keeps it, on a disk that may fill up
\* too: what the readers of runs.csv rely on (load_statuses, append_row).
THEOREM DriverRefinesResultsTable == Spec => RefinesResultsTable
<1>1. Init => Table!Init
  <2> SUFFICES ASSUME Init PROVE Table!Init
    OBVIOUS
  <2>1. \A r \in Run : Outcome(csv.rows, r) = "open"
    BY DEF Init, Outcome, LinesOf
  <2> QED  BY <2>1 DEF Table!Init, Unmistakable
<1>2. IInv /\ [Next]_vars => [Table!Next]_(Outcomes(csv.rows))
  BY TableStep
<1> QED  BY <1>1, <1>2, DriverInvariant, PTL DEF Spec, RefinesResultsTable, Table!Spec, Outcomes

=============================================================================
