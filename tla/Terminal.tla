------------------------------ MODULE Terminal ------------------------------
(***************************************************************************)
(* The programs that read through a CSVHelper: cache_test and multi_test   *)
(* of terminal/main.cpp, unit-test/dir.cpp, and unit-test/extra.cpp,       *)
(* arrange.cpp and sort.cpp with CSVHelper's extract, arrange and sort.    *)
(*                                                                         *)
(* A program goes through rounds.  In a round it splits the directory,     *)
(* starts threads each with its range of subsets, and joins them.  A       *)
(* thread takes record after record until next_record returns false, then  *)
(* goes to its next subset.                                                *)
(***************************************************************************)
EXTENDS CSVHelper, SequencesExt

CONSTANTS
  Programs,       \* which of the programs run
  Batch,          \* subsets in the smallest range of a thread: 30 in
                  \* cache_test, 5 in multi_test
  Dated,          \* the lines whose time extract can read
  Vehicles,       \* numbers that begin with a W
  No,             \* the first field of each line, the vehicle's number
  When,           \* the second field of each line, which sort sorts by
  Whole           \* the lines with 24 fields

ASSUME TerminalAssumption ==
  /\ Threads = 1 .. 4
  /\ Programs \subseteq {"cache_test", "multi_test", "extra", "dir", "arrange", "sort"}
  /\ Batch \in Nat \ {0}

VARIABLES
  program,
  round,          \* the round that runs or is about to start
  started,        \* its threads have been started
  running,        \* FALSE when the process has come to grief
  cut,            \* history: a thread gave up in this round
  line,           \* extract's line: the records whose fields are in it
  extracted,      \* the rows each thread's extract has written
  arranged,       \* the rows arrange has written for each vehicle
  sorted          \* the rows in the file sort has written under each number

output == <<line, extracted, arranged, sorted>>

vars == <<csvFiles, fromTo, indexOfFiles, indexOfRecords, recordsPerFile, currentIfs, titles,
          recordsCount, pc, thr, given, program, round, started, running, cut, line, extracted,
          arranged, sorted>>

Init ==
  /\ ReaderInit
  /\ program \in Programs
  /\ round = 1 /\ started = FALSE /\ running = TRUE /\ cut = FALSE
  /\ line = [t \in Threads |-> <<>>] /\ extracted = [t \in Threads |-> <<>>]
  /\ arranged = [v \in Vehicles |-> <<>>]
  /\ sorted = [no \in {No[l] : l \in DOMAIN No} |-> <<>>]

Nobody == <<1, 0>>

\* cache_test: four threads with a batch each, cut off at the number of files.
CacheTest ==
  [t \in Threads |->
     <<(t - 1) * Batch + 1, IF t * Batch < Len(csvFiles) THEN t * Batch ELSE Len(csvFiles)>>]

\* multi_test, whatever the number of files: six batches go to one node, then
\* three to each of two, then one to each of three.
ToOneNode == [t \in Threads |-> IF t = 1 THEN <<1, 6 * Batch>> ELSE Nobody]
ToTwoNodes ==
  [t \in Threads |-> IF t <= 2 THEN <<3 * Batch * (t - 1) + 1, 3 * Batch * t>> ELSE Nobody]
ToThreeNodes ==
  [t \in Threads |->
     IF t <= 3 THEN <<2 * Batch * (t - 1) + 1, 2 * Batch * (t - 1) + Batch>> ELSE Nobody]

\* extra and dir: four threads with a subset each.  arrange and sort: one with all of
\* them, which is one or one for each file.
Extra == [t \in Threads |-> <<t, t>>]
Arranging == [t \in Threads |-> IF t = 1 THEN <<1, 1>> ELSE Nobody]
Sorting == [t \in Threads |-> IF t = 1 THEN <<1, Len(csvFiles)>> ELSE Nobody]

\* The ranges of subsets the threads have in this round.
Shares ==
  CASE program = "cache_test" -> CacheTest
    [] program \in {"extra", "dir"} -> Extra
    [] program = "arrange" -> Arranging
    [] program = "sort" -> Sorting
    [] OTHER -> CASE round = 1 -> ToOneNode [] round = 2 -> ToTwoNodes [] OTHER -> ToThreeNodes

Rounds == IF program = "multi_test" THEN 3 ELSE 1

\* What the programs split the directory into.
Pieces ==
  CASE program \in {"extra", "dir"} -> 4 [] program = "arrange" -> 1 [] OTHER -> Len(csvFiles)

Over == ~running \/ round > Rounds

-----------------------------------------------------------------------------
(* The main thread.                                                        *)

StartRound ==
  /\ ~Over /\ ~started
  /\ \/ Split(Pieces)
     \/ /\ Pieces > Len(csvFiles)
        /\ UNCHANGED <<files, buffers, shared, given>>
  /\ started' = TRUE /\ cut' = FALSE
  /\ thr' = [t \in Threads |-> Shares[t][1]]
  /\ pc' = [t \in Threads |-> IF Shares[t][1] <= Shares[t][2] THEN "next" ELSE "done"]
  /\ UNCHANGED <<program, round, running, output>>

\* split(0), of a directory without files.
DividesByZero ==
  /\ ~Over /\ ~started /\ Pieces = 0
  /\ running' = FALSE
  /\ UNCHANGED <<reader, program, round, started, cut, output>>

\* The joins.  multi_test sends to one node from its main thread, and returns
\* from there if that fails.
EndRound ==
  /\ ~Over /\ started /\ \A t \in Threads : pc[t] = "done"
  /\ round' = IF cut /\ round = 1 THEN Rounds + 1 ELSE round + 1
  /\ started' = FALSE
  /\ UNCHANGED <<reader, program, running, cut, output>>

-----------------------------------------------------------------------------
(* The threads.                                                            *)

Goes(t, to) == pc' = [pc EXCEPT ![t] = to]

AtRecord(t) == pc[t] = "record"
RecordOf(t) == given[thr[t]][Len(given[thr[t]])]
Text(r) == LinesOf(r[1])[r[2]]

\* The record goes into the cache, or is sent whole, or is only counted, or is
\* kept for sorting.
UseRecord(t) ==
  /\ AtRecord(t) /\ program \in {"cache_test", "multi_test", "dir", "sort"}
  /\ Goes(t, "next")
  /\ UNCHANGED <<files, buffers, shared, thr, given, program, round, started, running, cut,
                 output>>

\* A row is the sequence of records whose fields it has; the titles are none.
TitlesRow == <<>>

\* A mistake the run must notice: a record without a time is written as well.
HasTimeAlways(r) == TRUE

HasTime(r) == Text(r) \in Dated

\* extract() counts the record a second time and adds its fields to the line.
\* If its time can be read the line is written; if not the record is skipped,
\* but what it put into the line stays there.
Extract(t) ==
  LET all == Append(line[t], RecordOf(t))
      header == IF extracted[t] = <<>> THEN <<TitlesRow>> ELSE extracted[t]
  IN
  /\ AtRecord(t) /\ program = "extra"
  /\ recordsCount' = recordsCount + 1
  /\ IF HasTime(RecordOf(t))
     THEN /\ extracted' = [extracted EXCEPT ![t] = Append(header, all)]
          /\ line' = [line EXCEPT ![t] = <<>>]
     ELSE /\ extracted' = [extracted EXCEPT ![t] = header]
          /\ line' = [line EXCEPT ![t] = all]
  /\ Goes(t, "next")
  /\ UNCHANGED <<files, buffers, titles, thr, given, program, round, started, running, cut,
                 arranged, sorted>>

\* arrange() passes over records that are not a vehicle's, and those whose file
\* it cannot open; it tries again with the vehicle's next.
ArrangePasses(t) ==
  /\ AtRecord(t) /\ program = "arrange"
  /\ No[Text(RecordOf(t))] \in Vehicles => arranged[No[Text(RecordOf(t))]] = <<>>
  /\ Goes(t, "next")
  /\ UNCHANGED <<files, buffers, shared, thr, given, program, round, started, running, cut,
                 output>>

\* The record is written to its vehicle's file, and counted a second time.
Arrange(t) ==
  LET no == No[Text(RecordOf(t))] IN
  /\ AtRecord(t) /\ program = "arrange"
  /\ no \in Vehicles
  /\ arranged' = [arranged EXCEPT ![no] =
                    (IF @ = <<>> THEN <<TitlesRow>> ELSE @) \o <<<<RecordOf(t)>>>>]
  /\ recordsCount' = recordsCount + 1
  /\ Goes(t, "next")
  /\ UNCHANGED <<files, buffers, titles, thr, given, program, round, started, running, cut, line,
                 extracted, sorted>>

Ascending(records) ==
  \A i, j \in DOMAIN records : i < j => When[Text(records[i])] <= When[Text(records[j])]

\* sort(), which has read the subset: its records that are whole, in some order
\* of their times, replace what is in the file named after its first record.
\* Nothing is written if there is none, or the file cannot be opened.
SortWrites(t) ==
  LET all == given[thr[t]]
      whole == {r \in ToSet(all) : Text(r) \in Whole}
  IN
  /\ pc[t] = "false" /\ program = "sort"
  /\ \/ /\ all # <<>>
        /\ \E order \in SetToSeqs(whole) :
             /\ Ascending(order)
             /\ sorted' = [sorted EXCEPT ![No[Text(Head(all))]] =
                             <<TitlesRow>> \o [n \in DOMAIN order |-> <<order[n]>>]]
     \/ UNCHANGED sorted
  /\ Goes(t, "written")
  /\ UNCHANGED <<files, buffers, shared, thr, given, program, round, started, running, cut, line,
                 extracted, arranged>>

\* connect() or send() fails, and the thread returns.
GivesUp(t) ==
  /\ program = "multi_test"
  /\ \/ AtRecord(t)
     \/ /\ AtNext(t) /\ thr[t] = Shares[t][1]
        /\ indexOfFiles[thr[t]] = fromTo[thr[t]][1]
  /\ Goes(t, "done") /\ cut' = TRUE
  /\ UNCHANGED <<files, buffers, shared, thr, given, program, round, started, running, output>>

\* The subset is done with, and the thread goes to its next, if it has one.
NextSubset(t) ==
  /\ pc[t] = IF program = "sort" THEN "written" ELSE "false"
  /\ IF thr[t] < Shares[t][2]
     THEN Goes(t, "next") /\ thr' = [thr EXCEPT ![t] = @ + 1]
     ELSE Goes(t, "done") /\ UNCHANGED thr
  /\ UNCHANGED <<files, buffers, shared, given, program, round, started, running, cut, output>>

\* A thread's extract writes the titles while another assigns them.
TitlesTorn ==
  \E t, u \in Threads :
    program = "extra" /\ AtRecord(t) /\ extracted[t] = <<>> /\ pc[u] = "titles"

\* Reading past the ends of the vectors, or a race for titles, may end the
\* process.  A race may also come out well: SetTitles, Extract.
Crash ==
  /\ ~Over
  /\ TitlesClash \/ TitlesTorn \/ \E t \in Threads : Strays(t)
  /\ running' = FALSE
  /\ UNCHANGED <<reader, program, round, started, cut, output>>

Reads(t) ==
  /\ TakeRecord(t) \/ NextFails(t) \/ NextFile(t) \/ SetTitles(t) \/ ReadLines(t)
  /\ UNCHANGED <<program, round, started, running, cut, output>>

Thread(t) ==
  /\ running
  /\ \/ Reads(t) \/ UseRecord(t) \/ Extract(t) \/ ArrangePasses(t) \/ Arrange(t)
     \/ SortWrites(t) \/ GivesUp(t) \/ NextSubset(t)

Main == StartRound \/ DividesByZero \/ EndRound

Next == Main \/ Crash \/ \E t \in Threads : Thread(t)

Spec == Init /\ [][Next]_vars

\* The main thread goes on when it can, and so does each of the others.
FairSpec == Spec /\ WF_vars(Main) /\ \A t \in Threads : WF_vars(Thread(t))

-----------------------------------------------------------------------------
IsRecord(r) == LinesOf(r[1])[r[2]] # "blank"

\* The records of a file that are not the first line of a buffer: next_file takes
\* a line for the header each time it fills the buffer, not for each file.
Kept(f) ==
  {r \in {f} \X DOMAIN LinesOf(f) : IsRecord(r) /\ r[2] % (MaxLines + 1) # 1}

\* A subset goes as far as its files can be opened.
Reached(i, f) == f \in (fromTo[i][1] + 1) .. fromTo[i][2]
                 /\ \A g \in (fromTo[i][1] + 1) .. f : csvFiles[g].opens

Promised(i) ==
  UNION {Kept(f) : f \in {f \in (fromTo[i][1] + 1) .. fromTo[i][2] : Reached(i, f)}}

\* The order of the directory.
Ahead(q, r) == q[1] < r[1] \/ (q[1] = r[1] /\ q[2] < r[2])

InOrder(records) == \A m, n \in DOMAIN records : m < n => Ahead(records[m], records[n])

\* next_record gives a subset's records in order and once each, without a gap,
\* leaving out only the first line of each buffer, and returns false when there
\* are no more: also in a later round, after one in which threads gave up half way.
ReadInOrder ==
  /\ \A i \in DOMAIN given :
       /\ InOrder(given[i])
       /\ ToSet(given[i]) \subseteq Promised(i)
       /\ \A r \in ToSet(given[i]), q \in Promised(i) : Ahead(q, r) => q \in ToSet(given[i])
  /\ \A t \in Threads : pc[t] = "false" => ToSet(given[thr[t]]) = Promised(thr[t])

\* The subsets that are ranges of the last split.
Subsets == 1 .. Len(Ranges(Pieces))

SharedOut == UNION {Shares[t][1] .. Shares[t][2] : t \in Threads}

\* Splitting a directory loses no file and gives none out twice: if a round whose
\* threads had all the subsets ends, every file was read once, in the order of
\* the directory, one subset after the other.
WholeDirectory ==
  started /\ SharedOut = Subsets /\ ~cut /\ (\A t \in Threads : pc[t] = "done")
    /\ (\A f \in DOMAIN csvFiles : csvFiles[f].opens)
  => /\ \A i \in Subsets : InOrder(given[i])
     /\ \A i, j \in Subsets : i < j =>
          \A q \in ToSet(given[i]), r \in ToSet(given[j]) : Ahead(q, r)
     /\ UNION {ToSet(given[i]) : i \in Subsets} = UNION {Kept(f) : f \in DOMAIN csvFiles}

\* multi_test never assigns titles while several threads read, since its first
\* round, in one thread, has met every file the others read.
TitlesSettled ==
  program = "multi_test" /\ round > 1 => \A t \in Threads : pc[t] # "titles"

\* Whatever is in the files, the calls of next_record come to an end, and so
\* does the program, unless it reads beyond its subsets.
RoundsEnd == <>(Over \/ \E t \in Threads : Strays(t))

\* The records of thread t's subset that it is done with.
Handled(t) ==
  LET all == given[thr[t]] IN IF AtRecord(t) THEN Front(all) ELSE all

Reading(t) == thr[t] \in DOMAIN given

LastOfEach(rows) == [n \in DOMAIN rows |-> Last(rows[n])]

\* What extract writes are the titles and then, for each record whose time it can
\* read, in order, one line that ends with it; whatever it skipped before, and
\* left in the line, can only come in front.
ExtractedInOrder ==
  \A t \in Threads : program = "extra" /\ Reading(t) =>
    IF Handled(t) = <<>> THEN extracted[t] = <<>>
    ELSE /\ extracted[t] # <<>> /\ Head(extracted[t]) = TitlesRow
         /\ LET ends == LastOfEach(Tail(extracted[t]))
            IN  /\ InOrder(ends)
                /\ ToSet(ends) = {r \in ToSet(Handled(t)) : Text(r) \in Dated}
         /\ \A n \in 2 .. Len(extracted[t]) : \A r \in ToSet(Front(extracted[t][n])) :
              Text(r) \notin Dated

\* The file arrange writes for a vehicle has the titles once and then the
\* vehicle's records in the order they were read, all from the first time that
\* the file could be opened.
ArrangedInOrder ==
  program = "arrange" /\ Reading(1) =>
    \A v \in Vehicles : arranged[v] # <<>> =>
      LET ends == LastOfEach(Tail(arranged[v]))
          its == {r \in ToSet(Handled(1)) : No[Text(r)] = v}
      IN  /\ Head(arranged[v]) = TitlesRow
          /\ InOrder(ends) /\ ToSet(ends) \subseteq its
          /\ \A q \in ToSet(ends), r \in its : Ahead(q, r) => r \in ToSet(ends)

\* A file sort has written has the titles once and the whole records of one
\* subset, whose first record gave the name, once each, in the order of their times.
SortedInOrder ==
  \A no \in DOMAIN sorted : sorted[no] # <<>> =>
    LET ends == LastOfEach(Tail(sorted[no])) IN
    /\ Head(sorted[no]) = TitlesRow
    /\ Ascending(ends) /\ IsInjective(ends)
    /\ \E i \in DOMAIN given :
         /\ given[i] # <<>> /\ No[Text(Head(given[i]))] = no
         /\ ToSet(ends) = {r \in ToSet(given[i]) : Text(r) \in Whole}

\* What extract, arrange and sort write is what they were given, without loss,
\* repetition or disorder, but for what they skip.
WrittenInOrder == ExtractedInOrder /\ ArrangedInOrder /\ SortedInOrder

\* "Get the next record; by calling this function the records can be obtained
\* one by one" (file.h:79): when it returns false, all were.
EachRecordIsGiven ==
  \A t \in Threads : pc[t] = "false" =>
    \A f \in DOMAIN csvFiles : Reached(thr[t], f) =>
      \A l \in 2 .. Len(LinesOf(f)) : IsRecord(<<f, l>>) =>
        \E n \in DOMAIN given[thr[t]] : given[thr[t]][n] = <<f, l>>
=============================================================================
