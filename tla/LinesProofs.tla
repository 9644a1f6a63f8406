---------------------------- MODULE LinesProofs -----------------------------
(***************************************************************************)
(* Lemmas about the line table, for any lines and any chunk: each action   *)
(* keeps the invariant LinesInv, from which it follows that a lookup gives *)
(* the line its byte was written with.  SessionProofs uses them.           *)
(***************************************************************************)
EXTENDS Lines, SequenceTheorems, TLAPS

Runs(S) == [line : S, offset : Nat]
Searches(S) ==
  [state : {"idle", "searching", "found"}, offset : Nat, low : Nat, high : Int,
   line : S \cup {NoLine}]

(* The runs end at growing offsets, the last one at the last byte of code... *)
RunsSorted ==
  /\ \A i, j \in 1 .. Len(ranges) : i < j => ranges[i].offset < ranges[j].offset
  /\ (ranges = <<>>) = (written = <<>>)
  /\ ranges # <<>> => ranges[Len(ranges)].offset = Len(written) - 1

(* ... and the first run that reaches a byte has its line.                    *)
RunsCover ==
  \A o \in 0 .. Len(written) - 1, i \in 1 .. Len(ranges) :
    o <= ranges[i].offset /\ (\A j \in 1 .. i - 1 : ranges[j].offset < o)
      => ranges[i].line = written[o + 1]

(* The run that is looked for is never left out of low .. high. *)
Window ==
  search.state = "searching" =>
    /\ search.offset \in 0 .. Len(written) - 1
    /\ search.low \in Nat /\ search.high \in Nat
    /\ search.low <= search.high /\ search.high < Len(ranges)
    /\ search.offset <= ranges[search.high + 1].offset
    /\ \A j \in 1 .. search.low : ranges[j].offset < search.offset

LinesTypeOK(S) ==
  /\ ranges \in Seq(Runs(S))
  /\ capacity \in Nat
  /\ written \in Seq(S)
  /\ search \in Searches(S)

LinesInv(S) == LinesTypeOK(S) /\ RunsSorted /\ RunsCover /\ Window /\ LineFound /\ RunsFit

----------------------------------------------------------------------------
LEMMA EmptyLines ==
  ASSUME NEW S, ranges = <<>>, capacity = 0, written = <<>>, search = Idle
  PROVE  LinesInv(S)
BY DEF LinesInv, LinesTypeOK, Runs, Searches, RunsSorted, RunsCover, Window, LineFound, RunsFit, Idle, NoLine

LEMMA Elements ==
  ASSUME NEW S, LinesInv(S)
  PROVE  /\ Len(ranges) \in Nat /\ Len(written) \in Nat /\ capacity \in Nat
         /\ \A i \in 1 .. Len(ranges) : /\ ranges[i] \in Runs(S)
                                       /\ ranges[i].offset \in Nat /\ ranges[i].line \in S
         /\ (ranges = <<>>) = (Len(ranges) = 0)
         /\ (written = <<>>) = (Len(written) = 0)
<1>1. ranges \in Seq(Runs(S)) /\ written \in Seq(S) /\ capacity \in Nat
  BY DEF LinesInv, LinesTypeOK
<1>2. \A r \in Runs(S) : r.offset \in Nat /\ r.line \in S
  BY DEF Runs
<1> QED BY <1>1, <1>2

(* The runs a write leaves: one longer last run, or one more run. *)
LEMMA WriteRuns ==
  ASSUME NEW S, LinesInv(S), NEW line \in S, chunk_write(line)
  PROVE  /\ written' = Append(written, line)
         /\ ranges' \in Seq(Runs(S))
         /\ Len(ranges') \in Nat \ {0}
         /\ Len(ranges') = Len(ranges) \/ Len(ranges') = Len(ranges) + 1
         /\ Len(ranges') = Len(ranges) => LastRun.line = line
         /\ ranges'[Len(ranges')] = [line |-> line, offset |-> Len(written)]
         /\ \A i \in 1 .. Len(ranges') - 1 : ranges'[i] = ranges[i]
<1> DEFINE new == [line |-> line, offset |-> Len(written)]
<1>1. /\ ranges \in Seq(Runs(S)) /\ Len(ranges) \in Nat /\ Len(written) \in Nat
      /\ written' = Append(written, line) /\ ranges' = RunsAfter(line, Len(written))
  BY Elements DEF LinesInv, LinesTypeOK, chunk_write, lineArray_write
<1>2. new \in Runs(S)
  BY <1>1 DEF Runs
<1>3. CASE ranges # <<>> /\ LastRun.line = line
  <2>1. ranges' = [ranges EXCEPT ![Len(ranges)].offset = Len(written)]
    BY <1>1, <1>3 DEF RunsAfter
  <2>2. Len(ranges) \in Nat \ {0} /\ ranges[Len(ranges)] \in Runs(S)
    BY <1>1, <1>3
  <2>3. [ranges[Len(ranges)] EXCEPT !.offset = Len(written)] = new
    BY <1>3, <2>2 DEF LastRun, Runs
  <2>4. ranges' = [ranges EXCEPT ![Len(ranges)] = new]
    BY <2>1, <2>3
  <2> HIDE DEF new
  <2>5. /\ ranges' \in Seq(Runs(S)) /\ Len(ranges') = Len(ranges) /\ ranges'[Len(ranges)] = new
        /\ \A i \in 1 .. Len(ranges) - 1 : ranges'[i] = ranges[i]
    BY <2>2, <2>4, <1>1, <1>2
  <2> QED BY <1>1, <1>3, <2>2, <2>5 DEF new
<1>4. CASE ~(ranges # <<>> /\ LastRun.line = line)
  <2>1. ranges' = Append(ranges, new)
    BY <1>1, <1>4 DEF RunsAfter
  <2> HIDE DEF new
  <2>2. /\ Append(ranges, new) \in Seq(Runs(S))
        /\ Len(Append(ranges, new)) = Len(ranges) + 1
        /\ Append(ranges, new)[Len(ranges) + 1] = new
        /\ \A i \in 1 .. Len(ranges) : Append(ranges, new)[i] = ranges[i]
    <3>1. ranges \in Seq(Runs(S)) /\ new \in Runs(S)
      BY <1>1, <1>2
    <3> QED BY <3>1, AppendProperties
  <2> QED BY <1>1, <2>1, <2>2 DEF new
<1> QED BY <1>3, <1>4

LEMMA Covered ==
  ASSUME NEW S, LinesInv(S), NEW o \in 0 .. Len(written) - 1, NEW i \in 1 .. Len(ranges),
         o <= ranges[i].offset, \A j \in 1 .. i - 1 : ranges[j].offset < o
  PROVE  ranges[i].line = written[o + 1]
BY DEF LinesInv, RunsCover

LEMMA WriteKeepsTypes ==
  ASSUME NEW S, FirstCapacity \in Nat \ {0}, LinesInv(S), NEW line \in S, chunk_write(line)
  PROVE  LinesTypeOK(S)' /\ Window' /\ LineFound'
<1>1. search' = Idle /\ search = Idle
  BY DEF chunk_write
<1>2. Idle \in Searches(S)
  BY DEF Idle, Searches
<1>3. capacity' \in Nat
  BY Elements DEF chunk_write, lineArray_write, GROW_CAPACITY
<1>4. written' \in Seq(S)
  <2>1. written \in Seq(S) /\ written' = Append(written, line)
    BY WriteRuns DEF LinesInv, LinesTypeOK
  <2> QED BY <2>1, AppendProperties
<1>5. LinesTypeOK(S)'
  BY <1>1, <1>2, <1>3, <1>4, WriteRuns DEF LinesTypeOK
<1> QED BY <1>1, <1>5 DEF Window, LineFound, Idle

LEMMA WriteKeepsRuns ==
  ASSUME NEW S, LinesInv(S), NEW line \in S, chunk_write(line)
  PROVE  RunsSorted' /\ RunsCover'
<1> DEFINE n == Len(ranges')
<1>1. /\ ranges \in Seq(Runs(S)) /\ written \in Seq(S) /\ Len(written) \in Nat /\ Len(ranges) \in Nat
      /\ \A i \in 1 .. Len(ranges) : ranges[i].offset \in Nat
  BY Elements DEF LinesInv, LinesTypeOK
<1>2. /\ written' = Append(written, line) /\ ranges' # <<>> /\ n \in Nat \ {0}
      /\ n = Len(ranges) \/ n = Len(ranges) + 1
      /\ n = Len(ranges) => LastRun.line = line
      /\ ranges'[n] = [line |-> line, offset |-> Len(written)]
      /\ \A i \in 1 .. n - 1 : ranges'[i] = ranges[i]
  BY WriteRuns
<1>3. Len(written') = Len(written) + 1 /\ written'[Len(written) + 1] = line
      /\ \A p \in 1 .. Len(written) : written'[p] = written[p]
  BY <1>1, <1>2
<1>4. \A i \in 1 .. Len(ranges) : ranges[i].offset < Len(written)
  <2>1. ranges # <<>> => ranges[Len(ranges)].offset = Len(written) - 1
    BY DEF LinesInv, RunsSorted
  <2>2. \A i \in 1 .. Len(ranges) : i < Len(ranges) => ranges[i].offset < ranges[Len(ranges)].offset
    BY <1>1 DEF LinesInv, RunsSorted
  <2> QED BY <1>1, <2>1, <2>2
<1>5. RunsSorted'
  <2>1. ASSUME NEW i \in 1 .. n, NEW j \in 1 .. n, i < j
        PROVE  ranges'[i].offset < ranges'[j].offset
    <3>1. i \in 1 .. n - 1 /\ i \in 1 .. Len(ranges) /\ ranges'[i] = ranges[i]
      BY <2>1, <1>1, <1>2
    <3>2. CASE j = n
      BY <3>1, <3>2, <1>2, <1>4
    <3>3. CASE j # n
      <4>1. j \in 1 .. Len(ranges) /\ ranges'[j] = ranges[j]
        BY <3>3, <1>1, <1>2
      <4> QED BY <2>1, <3>1, <4>1 DEF LinesInv, RunsSorted
    <3> QED BY <3>2, <3>3
  <2>2. written' # <<>>
    BY <1>1, <1>2
  <2> QED BY <1>1, <1>2, <1>3, <2>1, <2>2 DEF RunsSorted
<1>6. RunsCover'
  <2>1. ASSUME NEW o \in 0 .. Len(written), NEW i \in 1 .. n,
               o <= ranges'[i].offset,
               \A j \in 1 .. i - 1 : ranges'[j].offset < o
        PROVE  ranges'[i].line = written'[o + 1]
    <3>1. CASE o = Len(written)
      <4>1. i = n
        BY <3>1, <2>1, <1>1, <1>2, <1>4
      <4> QED BY <3>1, <4>1, <1>2, <1>3
    <3>2. CASE o # Len(written) /\ i # n
      <4>1. i \in 1 .. Len(ranges) /\ \A j \in 1 .. i : ranges'[j] = ranges[j]
        BY <3>2, <1>1, <1>2
      <4>2. ranges[i].line = written[o + 1]
        <5>1. o \in 0 .. Len(written) - 1 /\ o <= ranges[i].offset
          BY <2>1, <3>2, <4>1, <1>1
        <5>2. \A j \in 1 .. i - 1 : ranges[j].offset < o
          BY <2>1, <4>1
        <5> QED BY <4>1, <5>1, <5>2, Covered
      <4>3. written'[o + 1] = written[o + 1]
        BY <3>2, <1>1, <1>3
      <4> QED BY <4>1, <4>2, <4>3
    <3>3. CASE o # Len(written) /\ i = n
      <4>1. Len(written) > 0 /\ Len(ranges) > 0 /\ ranges[Len(ranges)].offset = Len(written) - 1
        BY <3>3, <1>1, Elements DEF LinesInv, RunsSorted
      <4>2. n = Len(ranges)
        BY <2>1, <3>3, <4>1, <1>1, <1>2
      <4>3. \A j \in 1 .. Len(ranges) - 1 : ranges[j].offset < o
        BY <2>1, <3>3, <4>2, <1>2
      <4>4. o \in 0 .. Len(written) - 1 /\ o <= ranges[Len(ranges)].offset /\ Len(ranges) \in 1 .. Len(ranges)
        BY <3>3, <4>1, <1>1
      <4>5. LastRun.line = written[o + 1]
        BY <4>3, <4>4, Covered DEF LastRun
      <4>6. written'[o + 1] = written[o + 1]
        BY <3>3, <1>1, <1>3
      <4> QED BY <3>3, <4>2, <4>5, <4>6, <1>2
    <3> QED BY <3>1, <3>2, <3>3
  <2>2. Len(written') - 1 = Len(written)
    BY <1>1, <1>3
  <2>3. \A o \in 0 .. Len(written') - 1, i \in 1 .. Len(ranges') :
          o <= ranges'[i].offset /\ (\A j \in 1 .. i - 1 : ranges'[j].offset < o)
            => ranges'[i].line = written'[o + 1]
    BY <2>1, <2>2, Zenon
  <2> QED BY <2>3, Zenon DEF RunsCover
<1> QED BY <1>5, <1>6

LEMMA WriteFits ==
  ASSUME NEW S, FirstCapacity \in Nat \ {0}, LinesInv(S), NEW line \in S, chunk_write(line)
  PROVE  RunsFit'
<1>1. Len(ranges) \in Nat /\ capacity \in Nat /\ Len(ranges) <= capacity
  BY DEF LinesInv, LinesTypeOK, RunsFit
<1>2. Len(ranges') = Len(ranges) \/ Len(ranges') = Len(ranges) + 1
  BY WriteRuns
<1>3. capacity' > Len(ranges)
  BY <1>1 DEF chunk_write, lineArray_write, NeedsGrowth, GROW_CAPACITY
<1> QED BY <1>1, <1>2, <1>3 DEF RunsFit, chunk_write, lineArray_write, NeedsGrowth, GROW_CAPACITY

(* Writing a byte keeps the invariant. *)
LEMMA WriteKeeps ==
  ASSUME NEW S, FirstCapacity \in Nat \ {0}, LinesInv(S), NEW line \in S, chunk_write(line)
  PROVE  LinesInv(S)'
BY WriteKeepsTypes, WriteKeepsRuns, WriteFits DEF LinesInv

----------------------------------------------------------------------------
(* What no step of the search changes. *)
LEMMA TableStays ==
  ASSUME NEW S, LinesInv(S), UNCHANGED <<ranges, capacity, written>>
  PROVE  RunsSorted' /\ RunsCover' /\ RunsFit'
BY DEF LinesInv, RunsSorted, RunsCover, RunsFit

LEMMA SearchBegins ==
  ASSUME NEW S, LinesInv(S), NEW offset \in 0 .. Len(written) - 1, getLine(offset)
  PROVE  LinesInv(S)'
<1>1. Len(ranges) \in Nat \ {0} /\ ranges[Len(ranges)].offset = Len(written) - 1 /\ offset \in Nat
  BY Elements DEF LinesInv, RunsSorted
<1>2. search' = [state |-> "searching", offset |-> offset, low |-> 0, high |-> Len(ranges) - 1, line |-> NoLine]
  BY DEF Idle, getLine
<1>3. UNCHANGED <<ranges, capacity, written>>
  BY DEF getLine
<1>4. LinesTypeOK(S)'
  BY <1>1, <1>2, <1>3 DEF LinesInv, LinesTypeOK, Searches
<1>5. Window'
  BY <1>1, <1>2, <1>3, Elements DEF Window
<1> QED BY <1>2, <1>3, <1>4, <1>5, TableStays DEF LinesInv, LineFound, Searches

LEMMA HalveKeeps ==
  ASSUME NEW S, LinesInv(S), Halve
  PROVE  LinesInv(S)'
<1> DEFINE mid == search.low + (search.high - search.low) \div 2
           run == ranges[mid + 1]
<1>1. /\ search.offset \in 0 .. Len(written) - 1 /\ Len(written) \in Nat
      /\ search.low \in Nat /\ search.high \in Nat /\ Len(ranges) \in Nat
      /\ search.low < search.high /\ search.high < Len(ranges)
      /\ search.offset <= ranges[search.high + 1].offset
      /\ \A j \in 1 .. search.low : ranges[j].offset < search.offset
      /\ \A i \in 1 .. Len(ranges) : ranges[i].offset \in Nat
      /\ \A i, j \in 1 .. Len(ranges) : i < j => ranges[i].offset < ranges[j].offset
  BY Elements DEF LinesInv, RunsSorted, Window, Halve
<1>9. (search.high - search.low) \div 2 \in Nat
      /\ (search.high - search.low) \div 2 < search.high - search.low
  <2>1. \A x \in Nat : x > 0 => x \div 2 \in Nat /\ x \div 2 < x
    OBVIOUS
  <2>2. search.high - search.low \in Nat /\ search.high - search.low > 0
    BY <1>1
  <2> QED BY <2>1, <2>2
<1> DEFINE half == (search.high - search.low) \div 2
<1>11. /\ mid \in Nat /\ search.low <= mid /\ mid < search.high /\ mid + 1 \in 1 .. Len(ranges)
  <2>1. half \in Nat /\ half < search.high - search.low /\ mid = search.low + half
    BY <1>9
  <2> HIDE DEF half, mid
  <2>2. /\ search.low \in Nat /\ search.high \in Nat /\ Len(ranges) \in Nat
        /\ search.low < search.high /\ search.high < Len(ranges)
    BY <1>1
  <2> QED BY <2>1, <2>2
<1> HIDE DEF mid
<1>2. /\ mid \in Nat /\ search.low <= mid /\ mid < search.high /\ mid + 1 \in 1 .. Len(ranges)
      /\ run \in Runs(S) /\ run.offset \in Nat /\ run.line \in S
  BY <1>11, Elements
<1>3. /\ UNCHANGED <<ranges, capacity, written>> /\ search.state = "searching"
      /\ search' = IF search.offset > run.offset THEN [search EXCEPT !.low = mid + 1]
                   ELSE IF search.offset < run.offset THEN [search EXCEPT !.high = mid]
                   ELSE [search EXCEPT !.state = "found", !.line = run.line]
  BY DEF Halve, UpTo, mid
<1> HIDE DEF run
<1>4. search \in Searches(S)
  BY DEF LinesInv, LinesTypeOK
<1>5. search' \in Searches(S) => LinesTypeOK(S)'
  BY <1>3 DEF LinesInv, LinesTypeOK
<1>6. CASE search.offset > run.offset
  <2>1. search' = [search EXCEPT !.low = mid + 1]
    BY <1>3, <1>6
  <2>2. \A j \in 1 .. mid + 1 : ranges[j].offset < search.offset
    BY <1>1, <1>2, <1>6 DEF run
  <2>3. Window'
    BY <1>1, <1>2, <1>3, <1>4, <2>1, <2>2 DEF Window, Searches
  <2>9. search' \in Searches(S)
    BY <1>2, <1>4, <2>1 DEF Searches
  <2> QED BY <1>3, <1>4, <1>5, <2>9, <2>1, <2>3, TableStays DEF LinesInv, LineFound, Searches
<1>7. CASE search.offset < run.offset
  <2>1. search' = [search EXCEPT !.high = mid]
    BY <1>1, <1>2, <1>3, <1>7
  <2>2. Window'
    BY <1>1, <1>2, <1>3, <1>4, <1>7, <2>1 DEF Window, run, Searches
  <2>9. search' \in Searches(S)
    BY <1>2, <1>4, <2>1 DEF Searches
  <2> QED BY <1>3, <1>4, <1>5, <2>9, <2>1, <2>2, TableStays DEF LinesInv, LineFound, Searches
<1>8. CASE search.offset = run.offset
  <2>1. search' = [search EXCEPT !.state = "found", !.line = run.line]
    BY <1>3, <1>8, <1>2
  <2>2. \A j \in 1 .. mid : ranges[j].offset < search.offset
    BY <1>1, <1>2, <1>8 DEF run
  <2>3. run.line = written[search.offset + 1]
    <3>1. mid + 1 \in 1 .. Len(ranges) /\ (mid + 1) - 1 = mid /\ search.offset <= run.offset
      BY <1>1, <1>2, <1>8
    <3> QED BY <1>1, <2>2, <3>1, Covered DEF run
  <2>9. search' \in Searches(S)
    BY <1>2, <1>4, <2>1 DEF Searches
  <2> QED BY <1>3, <1>4, <1>5, <2>9, <2>1, <2>3, TableStays DEF LinesInv, LineFound, Searches, Window
<1> QED BY <1>1, <1>2, <1>6, <1>7, <1>8

LEMMA ConcludeKeeps ==
  ASSUME NEW S, LinesInv(S), Conclude
  PROVE  LinesInv(S)'
<1> DEFINE run == ranges[search.low + 1]
<1>1. /\ search.offset \in 0 .. Len(written) - 1 /\ Len(written) \in Nat
      /\ search.low \in Nat /\ search.high = search.low /\ search.high < Len(ranges)
      /\ Len(ranges) \in Nat
      /\ search.offset <= run.offset
      /\ \A j \in 1 .. search.low : ranges[j].offset < search.offset
  BY Elements DEF LinesInv, Window, Conclude
<1>2. /\ search.low + 1 \in 1 .. Len(ranges) /\ (search.low + 1) - 1 = search.low
      /\ run.line \in S
  BY <1>1, Elements
<1>3. UNCHANGED <<ranges, capacity, written>>
      /\ search' = [search EXCEPT !.state = "found", !.line = run.line]
  BY <1>1 DEF Conclude
<1>4. run.line = written[search.offset + 1]
  BY <1>1, <1>2, Covered
<1> HIDE DEF run
<1>5. search \in Searches(S)
  BY DEF LinesInv, LinesTypeOK
<1>6. LinesTypeOK(S)'
  BY <1>2, <1>3, <1>5 DEF LinesInv, LinesTypeOK, Searches
<1> QED BY <1>3, <1>4, <1>5, <1>6, TableStays DEF LinesInv, LineFound, Searches, Window

----------------------------------------------------------------------------
(* The lines come from a recursive definition: they are members of no set   *)
(* that could be given, but each table has a set of its own.                *)
LinesHold == \E S : LinesInv(S)

(* What the actions do to the invariant; writing adds a line to the set.    *)
LEMMA EmptyHolds ==
  ASSUME ranges = <<>>, capacity = 0, written = <<>>, search = Idle
  PROVE  LinesHold
BY EmptyLines DEF LinesHold

LEMMA MoreLines ==
  ASSUME NEW S, LinesInv(S), NEW T, S \subseteq T
  PROVE  LinesInv(T)
<1>1. Runs(S) \subseteq Runs(T) /\ Searches(S) \subseteq Searches(T)
  BY DEF Runs, Searches
<1>2. Seq(Runs(S)) \subseteq Seq(Runs(T)) /\ Seq(S) \subseteq Seq(T)
  BY <1>1
<1> QED BY <1>1, <1>2 DEF LinesInv, LinesTypeOK

LEMMA WriteHolds ==
  ASSUME FirstCapacity \in Nat \ {0}, LinesHold, NEW line, chunk_write(line)
  PROVE  LinesHold'
<1>1. PICK S : LinesInv(S)
  BY DEF LinesHold
<1>2. PICK T : T = S \cup {line}
  OBVIOUS
<1>3. LinesInv(T) /\ line \in T
  BY <1>1, <1>2, MoreLines
<1>4. LinesInv(T)'
  BY <1>3, WriteKeeps
<1> QED BY <1>4 DEF LinesHold

LEMMA LookupHolds ==
  ASSUME LinesHold,
         (\E offset \in 0 .. Len(written) - 1 : getLine(offset)) \/ Halve \/ Conclude
  PROVE  LinesHold'
BY SearchBegins, HalveKeeps, ConcludeKeeps DEF LinesHold

LEMMA StayHolds ==
  ASSUME LinesHold, UNCHANGED vars
  PROVE  LinesHold'
<1>1. PICK S : LinesInv(S)
  BY DEF LinesHold
<1>2. LinesInv(S)'
  BY <1>1 DEF vars, LinesInv, LinesTypeOK, RunsSorted, RunsCover, Window, LineFound, RunsFit
<1> QED BY <1>2 DEF LinesHold

LEMMA LinesSound ==
  ASSUME LinesHold
  PROVE  LineFound /\ RunsFit
BY DEF LinesHold, LinesInv
=============================================================================
