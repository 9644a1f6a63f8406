-------------------------------- MODULE Lines -------------------------------
(***************************************************************************)
(* The line table of a chunk (src/lineArray.c): which line of the text each*)
(* byte of code came from, kept as runs of bytes of one line, and looked   *)
(* up by binary search when a runtime error prints its trace.  Session     *)
(* writes it and looks lines up.                                           *)
(*                                                                         *)
(* `ranges` holds ranges[0 .. count] of the code at positions 1 .. count+1;*)
(* it is empty until the first byte is written.                            *)
(***************************************************************************)
EXTENDS Integers, Sequences

CONSTANTS FirstCapacity,  \* GROW_CAPACITY(0)
          MaxCode         \* bound of the model: bytes in a chunk

VARIABLES
  ranges,    \* lines.ranges: the line of a run and the offset of its last byte
  capacity,  \* lines.capacity
  written,   \* the line given with each byte of the code so far
  search     \* the lookup in progress, or the last one

vars == <<ranges, capacity, written, search>>

NoLine == -1
Idle == [state |-> "idle", offset |-> 0, low |-> 0, high |-> 0, line |-> NoLine]

GROW_CAPACITY(c) == IF c < FirstCapacity THEN FirstCapacity ELSE 2 * c
LastRun == ranges[Len(ranges)]

(* A mutant: the table grows when it is full, one range late. *)
GrowsLate(c) == Len(ranges) > c

NeedsGrowth(c) == Len(ranges) >= c

(* lineArray_write: the last run is prolonged, or a run begins. *)
RunsAfter(line, offset) ==
  IF ranges # <<>> /\ LastRun.line = line
    THEN [ranges EXCEPT ![Len(ranges)].offset = offset]
    ELSE Append(ranges, [line |-> line, offset |-> offset])

lineArray_write(line, offset) ==
  /\ capacity' = IF NeedsGrowth(capacity) THEN GROW_CAPACITY(capacity) ELSE capacity
  /\ ranges' = RunsAfter(line, offset)

----------------------------------------------------------------------------
Init ==
  /\ ranges = <<>> /\ capacity = 0
  /\ written = <<>>
  /\ search = Idle

(* chunk_write, of any byte. *)
chunk_write(line) ==
  /\ search = Idle
  /\ Len(written) < MaxCode
  /\ lineArray_write(line, Len(written))
  /\ written' = Append(written, line)
  /\ UNCHANGED search

(* getLine(offset), called by runtimeError for a byte of each frame's code. *)
getLine(offset) ==
  /\ search.state # "searching"
  /\ search' = [Idle EXCEPT !.state = "searching", !.offset = offset, !.high = Len(ranges) - 1]
  /\ UNCHANGED <<ranges, capacity, written>>

(* A mutant: the run in the middle is left out when the offset is below it. *)
BelowMiddle(mid) == mid - 1

(* The new upper bound when the offset is before the last byte of run mid. *)
UpTo(mid) == mid

(* One turn of its loop. *)
Halve ==
  /\ search.state = "searching" /\ search.low < search.high
  /\ LET mid == search.low + (search.high - search.low) \div 2
         run == ranges[mid + 1]
     IN  search' =
           IF search.offset > run.offset THEN [search EXCEPT !.low = mid + 1]
           ELSE IF search.offset < run.offset THEN [search EXCEPT !.high = UpTo(mid)]
           ELSE [search EXCEPT !.state = "found", !.line = run.line]
  /\ UNCHANGED <<ranges, capacity, written>>

(* Its end, when one run is left. *)
Conclude ==
  /\ search.state = "searching" /\ search.low >= search.high
  /\ LET run == ranges[search.low + 1]
     IN  search' = [search EXCEPT !.state = "found",
                                  !.line = IF search.offset <= run.offset THEN run.line ELSE NoLine]
  /\ UNCHANGED <<ranges, capacity, written>>

----------------------------------------------------------------------------
(* Properties. *)

TypeOK ==
  /\ ranges \in Seq([line : Nat, offset : Nat])
  /\ capacity \in Nat
  /\ written \in Seq(Nat)
  /\ search \in [state : {"idle", "searching", "found"}, offset : Nat, low : Nat, high : Int,
                 line : Nat \cup {NoLine}]

(* A new run is always written inside the array (lineArray.c:33).           *)
RunsFit == Len(ranges) <= capacity

(* A lookup gives the line its byte was written with: for the first and the *)
(* last byte of a run, for the first and the last run, and when a line comes *)
(* back after another (lineArray.c:49, vm.c:65).                             *)
LineFound == search.state = "found" => search.line = written[search.offset + 1]
=============================================================================
