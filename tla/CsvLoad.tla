------------------------------ MODULE CsvLoad ------------------------------
(***************************************************************************)
(* Loading a CSV file with several threads (src/src/te_csv.c).             *)
(*                                                                         *)
(* The data part of the file is cut into n chunks of equal length, cuts    *)
(* fall anywhere.  A worker owns the rows that begin in its chunk; it      *)
(* finds its first row by skipping to the line end after its cut.  The     *)
(* scanner works in place: it overwrites the end of each line it reads     *)
(* with NUL, in the one buffer that all workers share.                     *)
(*                                                                         *)
(*   "rows"   csv_parse_parallel with wrapper objects: a linked list per   *)
(*            worker, and the columns written through at reserved places   *)
(*   "cols"   csv_parse_parallel in pure columnar mode: columns only       *)
(*   "frame"  csv_build_dataframe: all workers find their first row and    *)
(*            count (phase A) before any of them scans (phase B)           *)
(*                                                                         *)
(* The file is a sequence of the bytes "x" (a byte of a row), "n" (the end *)
(* of a line) and, after a scan, "0" (NUL).  A row stands for the place of *)
(* its first byte, where the pointers of its fields point.  A scan is one  *)
(* step: line ends only disappear, so a scan byte by byte finds what one   *)
(* at the instant of its last read finds.                                  *)
(***************************************************************************)
EXTENDS Integers, Sequences, FiniteSets, FiniteSetsExt, SequencesExt

CONSTANTS Files,     \* the data parts of files that are loaded
          Counts,    \* numbers of workers; 1 is the sequential load
          Modes      \* a subset of {"rows", "cols", "frame"}

ASSUME CsvAssumption ==
    /\ Counts \subseteq Nat \ {0}
    /\ Files \subseteq Seq({"x", "n"})
    /\ Modes \subseteq {"rows", "cols", "frame"}

VARIABLES
    file,     \* the bytes on disk; never change
    n,        \* the number of workers
    mode,
    buf,      \* src: the bytes in memory
    worker,   \* per worker its pc, pos, the rows it stored and its reserved rows
    cols,     \* the places of a column: the reserved ones and one more
    list,     \* the linked list of wrapper objects
    table     \* the columns of the result

csvVars == <<file, n, mode, buf, worker, cols, list, table>>
input == <<file, n, mode>>

Workers == 1 .. n
Eof == Len(file) + 1
Blank == 0                     \* a place nobody wrote
NoTable == <<-1>>              \* not loaded yet

(* The scanners of line ends on the bytes b from place p on.               *)
LineEnd(b, p) == Min({k \in p .. Len(b) : b[k] = "n"} \cup {Len(b) + 1})
NextLine(b, p) == Min({LineEnd(b, p) + 1, Len(b) + 1})
Newlines(b, lo, hi) == Cardinality({k \in lo .. hi - 1 : b[k] = "n"})
SkipBlank(b, p) == Min({k \in p .. Len(b) : b[k] # "n"} \cup {Len(b) + 1})

(* The chunk of worker i is the half-open interval From(i) .. To(i) - 1.   *)
From(i) == (i - 1) * (Len(file) \div n) + 1
To(i) == IF i = n THEN Eof ELSE i * (Len(file) \div n) + 1

(* Faulty variant: the cut is taken as it falls, in the middle of a row. *)
FirstRowAtCut(b, p) == p

(* Where a cut at p really falls: at p when a row begins there, else at    *)
(* the next line.                                                          *)
FirstRow(b, p) == IF b[p - 1] # "n" THEN NextLine(b, p) ELSE p
Start(b, i) == IF i = 1 THEN From(i) ELSE FirstRow(b, From(i))

(* The rows reserved for worker i.  For the lists main counts line ends    *)
(* before it creates the threads; the sequential load adds a last row that *)
(* has no line end.                                                        *)
Unfinished == file[Len(file)] # "n"
Stop(i) == IF To(i) < Eof THEN FirstRow(buf, To(i)) ELSE Eof
ListRows(i) ==
    LET ended == Newlines(buf, Start(buf, i), Stop(i))
    IN  IF n = 1 /\ Unfinished /\ ended > 0 THEN ended + 1 ELSE ended

(* Faulty variant: the row across the cut is not counted. *)
FrameRowsOfChunk(i) == Newlines(buf, Start(buf, i), To(i))

(* csv_df_count_rows, in phase A of worker i: the lines that end before    *)
(* the first row of the next worker, and a last row without a line end.    *)
FrameRows(i) ==
    Newlines(buf, Start(buf, i), Stop(i))
      + (IF Stop(i) = Eof /\ Start(buf, i) < Eof /\ Unfinished THEN 1 ELSE 0)

(* How many places there are before those of worker i, when worker w has   *)
(* count[w] of them.                                                       *)
Before(count, i) == Cardinality(UNION {{w} \X (1 .. count[w]) : w \in 1 .. i - 1})

Offset(i) == Before([w \in Workers |-> worker[w].reserved], i)
Total == Offset(n + 1)

(* Whether the list load writes columns, and whether it makes objects.     *)
HasColumns == Total > 0
Wrapped == mode = "rows" \/ n = 1 \/ ~HasColumns

CsvInit ==
    /\ file \in Files
    /\ n \in {k \in Counts : k <= Len(file)}
    /\ mode \in Modes
    /\ buf = file
    /\ worker = [i \in Workers |->
           [pc |-> "start", pos |-> 1, rows |-> <<>>,
            reserved |-> IF mode = "frame" THEN 0 ELSE ListRows(i)]]
    /\ cols = [k \in 1 .. Eof |-> Blank]
    /\ list = <<>>
    /\ table = NoTable

(***************************************************************************)
(* The workers.                                                            *)
(***************************************************************************)
(* A worker finds its first row in the buffer as it is by now: the count   *)
(* of main was made before, other workers may be scanning.                 *)
FindStart(i) ==
    /\ worker[i].pc = "start"
    /\ mode # "frame"
    /\ worker' = [worker EXCEPT ![i].pc = "scan", ![i].pos = Start(buf, i)]
    /\ UNCHANGED <<input, buf, cols, list, table>>

(* Phase A of csv_combined_col_worker, up to phase_a_done.                 *)
PhaseA(i) ==
    /\ worker[i].pc = "start"
    /\ mode = "frame"
    /\ worker' = [worker EXCEPT ![i].pc = "counted", ![i].pos = Start(buf, i),
                                ![i].reserved = FrameRows(i)]
    /\ UNCHANGED <<input, buf, cols, list, table>>

(* Main saw every phase_a_done: it lays out the columns, go_phase_b.       *)
AllCounted == \A i \in Workers : worker[i].pc = "counted"
GoPhaseB ==
    /\ AllCounted
    /\ worker' = [i \in Workers |-> [worker[i] EXCEPT !.pc = "scan"]]
    /\ UNCHANGED <<input, buf, cols, list, table>>

(* One record: csv_next_record_zerocopy skips line ends, which may take it *)
(* past the end of the chunk, and ends the record with NUL.  A record that *)
(* begins with NUL is empty and is passed over.                            *)
Record(i) ==
    LET first == SkipBlank(buf, worker[i].pos)
        end == LineEnd(buf, first)
        place == Offset(i) + Len(worker[i].rows) + 1
        empty == buf[first] = "0"
    IN  /\ worker[i].pc = "scan"
        /\ worker[i].pos < To(i)
        /\ first < Eof
        /\ buf' = IF end < Eof THEN [buf EXCEPT ![end] = "0"] ELSE buf
        /\ worker' = [worker EXCEPT ![i].pos = NextLine(buf, first),
                                    ![i].rows = IF empty THEN @ ELSE Append(@, first)]
        /\ cols' = IF empty \/ ~HasColumns THEN cols ELSE [cols EXCEPT ![place] = first]
        /\ UNCHANGED <<input, list, table>>

ScanEnds(i) ==
    /\ worker[i].pc = "scan"
    /\ worker[i].pos >= To(i) \/ SkipBlank(buf, worker[i].pos) = Eof
    /\ worker' = [worker EXCEPT ![i].pc = "done"]
    /\ UNCHANGED <<input, buf, cols, list, table>>

(***************************************************************************)
(* Main joins the workers.                                                 *)
(***************************************************************************)
AllDone == \A i \in Workers : worker[i].pc = "done"

(* The rows of the workers, one worker after the other.                    *)
Parsed ==
    LET at(i) == Before([w \in Workers |-> Len(worker[w].rows)], i)
    IN  [k \in 1 .. at(n + 1) |->
            LET i == CHOOSE i \in Workers : at(i) < k /\ k <= at(i + 1)
            IN  worker[i].rows[k - at(i)]]

(* Faulty variant: two errors may cancel out. *)
AsCountedInAll == Len(Parsed) = Total

(* The columns are kept only when each worker wrote what was reserved.     *)
AsCounted == \A i \in Workers : Len(worker[i].rows) = worker[i].reserved

(* The lists are linked in the order of the chunks.  Columns that do not   *)
(* match are dropped and te_colcache_build makes them again from the list, *)
(* which is empty when there are no objects.                               *)
JoinList ==
    /\ AllDone
    /\ mode # "frame"
    /\ table = NoTable
    /\ list' = IF Wrapped THEN Parsed ELSE <<>>
    /\ table' = IF HasColumns /\ AsCounted THEN SubSeq(cols, 1, Total) ELSE list'
    /\ UNCHANGED <<input, buf, worker, cols>>

(* csv_build_dataframe: as many rows as were written.                      *)
JoinFrame ==
    /\ AllDone
    /\ mode = "frame"
    /\ table = NoTable
    /\ table' = SubSeq(cols, 1, Len(Parsed))
    /\ UNCHANGED <<input, buf, worker, cols, list>>

Step(i) == FindStart(i) \/ PhaseA(i) \/ Record(i) \/ ScanEnds(i)
CsvNext == (\E i \in Workers : Step(i)) \/ GoPhaseB \/ JoinList \/ JoinFrame

CsvSpec == CsvInit /\ [][CsvNext]_csvVars

(***************************************************************************)
(* Properties.                                                             *)
(***************************************************************************)
Loaded == table # NoTable
RowStarts == {k \in 1 .. Len(file) : file[k] = "x" /\ (k = 1 \/ file[k - 1] = "n")}

(* The rows of the file from the first to the last.                        *)
RowsOfFile(t) == /\ ToSet(t) = RowStarts
                 /\ \A j, k \in DOMAIN t : j < k => t[j] < t[k]

(* A file without blank lines, not even one before its end.                *)
Clean ==
    /\ file[1] = "x"
    /\ \A k \in 2 .. Len(file) : ~(file[k - 1] = "n" /\ file[k] = "n")

(* The columns that LINQ reads and the objects that a loop visits are the  *)
(* same rows in the same order, though workers write the columns at places *)
(* that were reserved by a count made before they started (the mismatch    *)
(* test of csv_parse_parallel).                                            *)
ColumnsMirrorList == Loaded /\ Wrapped /\ mode # "frame" => table = list

(* A dataframe has the rows of the file in order, whatever the number of   *)
(* threads and the order in which they run (csv_df_count_rows and the two  *)
(* phases).                                                                *)
FrameIsFile == Loaded /\ mode = "frame" /\ Clean => RowsOfFile(table)

(* The same of the lists.  Violated: a worker that starts late finds the   *)
(* line end at its cut overwritten and passes over a whole row.            *)
EveryRowLoaded == Loaded /\ Clean => RowsOfFile(table)
============================================================================
