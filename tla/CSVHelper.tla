------------------------------ MODULE CSVHelper ------------------------------
(***************************************************************************)
(* class CSVHelper (terminal/file.h, file.cpp): the CSV files of a         *)
(* directory, dealt out to threads in subsets, which they read record by   *)
(* record through a buffer for each subset.                                *)
(*                                                                         *)
(* A file is its readable flag and its lines, and a record is named        *)
(* <<f, l>>: line l of file f.  Threads and subsets count from 1.  Two     *)
(* calls of next_record for different subsets share only recordsCount,     *)
(* which is atomic, and titles, which is not: next_file is cut where it    *)
(* has seen that titles is empty and is about to assign it.                *)
(***************************************************************************)
EXTENDS Integers, Sequences

CONSTANTS
  Threads,        \* threads that read
  Directories,    \* what process_directory() may find: sequences of files
  MaxLines        \* lines in a buffer: 1024

ASSUME CSVAssumption ==
  /\ MaxLines \in Nat \ {0}
  /\ \A d \in Directories : d \in Seq([opens : BOOLEAN, lines : Seq(STRING)])

VARIABLES
  csvFiles,       \* CSVHelper::csvFiles, with what is in the files
  fromTo,         \* the subsets: <<from, to>> are files from + 1 to to
  indexOfFiles,   \* for each subset, how many files of csvFiles are behind it
  indexOfRecords, \* for each subset, how much of its buffer was given out
  recordsPerFile, \* for each subset, its buffer
  currentIfs,     \* for each subset, the stream it reads from
  titles,         \* the file whose header is CSVHelper::titles; 0 for none
  recordsCount,   \* how many records were given out since the last split
  pc,             \* where each thread is
  thr,            \* the subset each thread reads
  given           \* history: the records of each subset given out since the split

files == <<csvFiles, fromTo>>
buffers == <<indexOfFiles, indexOfRecords, recordsPerFile, currentIfs>>
shared == <<titles, recordsCount>>
reader == <<csvFiles, fromTo, indexOfFiles, indexOfRecords, recordsPerFile, currentIfs, titles,
            recordsCount, pc, thr, given>>

\* An ifstream is closed (file 0), or open on a file with pos lines behind it;
\* once a getline has failed it is not good.
Closed == [file |-> 0, pos |-> 0, good |-> TRUE]
Opened(f) == [file |-> f, pos |-> 0, good |-> TRUE]

LinesOf(f) == csvFiles[f].lines

\* getline(): the next line, or a failed stream at the end.
Getline(ifs) ==
  IF ifs.good /\ ifs.pos < Len(LinesOf(ifs.file)) THEN [ifs EXCEPT !.pos = @ + 1]
  ELSE [ifs EXCEPT !.good = FALSE]

ReaderInit ==
  /\ csvFiles \in Directories
  /\ fromTo = <<>>
  /\ indexOfFiles = <<>> /\ indexOfRecords = <<>> /\ recordsPerFile = <<>> /\ currentIfs = <<>>
  /\ titles = 0 /\ recordsCount = 0
  /\ pc = [t \in Threads |-> "done"] /\ thr = [t \in Threads |-> 0]
  /\ given = <<>>

-----------------------------------------------------------------------------
(* split()                                                                 *)

\* A mistake the runs must notice: the division is rounded down.
ShareRoundedDown(s) == Len(csvFiles) \div s

\* The smallest whole number of files that makes s subsets enough.
Share(s) ==
  LET n == Len(csvFiles) IN IF (n \div s) * s < n THEN n \div s + 1 ELSE n \div s

\* The pairs one call of split(s) appends: it stops at the end of csvFiles, so
\* there may be fewer than s.
Ranges(s) ==
  LET n == Len(csvFiles)
      To(k) == IF k * Share(s) > n THEN n ELSE k * Share(s)
      count == CHOOSE k \in 1 .. s : /\ \A j \in 1 .. (k - 1) : To(j) # n
                                     /\ To(k) = n \/ k = s
  IN  [k \in 1 .. count |-> <<To(k - 1), To(k)>>]

\* A mistake the runs must notice: the streams stay open.
StreamKept(i) == IF i \in DOMAIN currentIfs THEN currentIfs[i] ELSE Closed

\* The stream of subset i after a split.
NewStream(i) == Closed

\* Every subset starts anew; fromTo only grows, so after a second split the
\* first ranges are still those of the first.  split(0) divides by zero first,
\* and with s > n it changes nothing.
Split(s) ==
  /\ s \in 1 .. Len(csvFiles)
  /\ fromTo' = fromTo \o Ranges(s)
  /\ recordsPerFile' = [i \in DOMAIN fromTo' |-> <<>>]
  /\ indexOfFiles' = [i \in DOMAIN fromTo' |-> fromTo'[i][1]]
  /\ indexOfRecords' = [i \in DOMAIN fromTo' |-> 0]
  /\ currentIfs' = [i \in DOMAIN fromTo' |-> NewStream(i)]
  /\ recordsCount' = 0
  /\ given' = [i \in DOMAIN fromTo' |-> <<>>]
  /\ UNCHANGED <<csvFiles, titles>>

-----------------------------------------------------------------------------
(* next_record(), by a thread t that is at pc "next"                       *)

Drained(i) == indexOfRecords[i] >= Len(recordsPerFile[i])

\* The subset is not one of fromTo: the vectors are read past their ends.
Strays(t) == pc[t] = "next" /\ thr[t] \notin DOMAIN fromTo

AtNext(t) == pc[t] = "next" /\ thr[t] \in DOMAIN fromTo

\* The next record of the buffer.
TakeRecord(t) ==
  LET i == thr[t] IN
  /\ AtNext(t) /\ ~Drained(i)
  /\ recordsCount' = recordsCount + 1
  /\ indexOfRecords' = [indexOfRecords EXCEPT ![i] = @ + 1]
  /\ given' = [given EXCEPT ![i] = Append(@, recordsPerFile[i][indexOfRecords[i] + 1])]
  /\ pc' = [pc EXCEPT ![t] = "record"]
  /\ UNCHANGED <<files, indexOfFiles, recordsPerFile, currentIfs, titles, thr>>

NoMoreFiles(i) == indexOfFiles[i] >= fromTo[i][2]

\* next_file() has no stream and no file left in the subset, or cannot open the
\* next one, which it leaves behind: next_record() returns false.
NextFails(t) ==
  LET i == thr[t] IN
  /\ AtNext(t) /\ Drained(i) /\ currentIfs[i].file = 0
  /\ \/ NoMoreFiles(i) /\ UNCHANGED indexOfFiles
     \/ /\ ~NoMoreFiles(i) /\ ~csvFiles[indexOfFiles[i] + 1].opens
        /\ indexOfFiles' = [indexOfFiles EXCEPT ![i] = @ + 1]
  /\ pc' = [pc EXCEPT ![t] = "false"]
  /\ UNCHANGED <<files, indexOfRecords, recordsPerFile, currentIfs, shared, thr, given>>

\* A mistake the runs must notice: the titles are those of the last file opened.
NeedsTitlesOfFile(i) == currentIfs[i].file = 0

NeedsTitles(i) == titles = 0

\* next_file() opens a file, or goes on in the one that is open, takes a line
\* for the header and looks whether there are titles.
NextFile(t) ==
  LET i == thr[t]
      f == indexOfFiles[i] + 1
      Header(ifs) ==
        /\ currentIfs' = [currentIfs EXCEPT ![i] = Getline(ifs)]
        /\ pc' = [pc EXCEPT ![t] = IF NeedsTitles(i) THEN "titles" ELSE "lines"]
  IN
  /\ AtNext(t) /\ Drained(i)
  /\ \/ currentIfs[i].file # 0 /\ Header(currentIfs[i]) /\ UNCHANGED indexOfFiles
     \/ /\ currentIfs[i].file = 0 /\ ~NoMoreFiles(i) /\ csvFiles[f].opens
        /\ indexOfFiles' = [indexOfFiles EXCEPT ![i] = @ + 1]
        /\ Header(Opened(f))
  /\ UNCHANGED <<files, indexOfRecords, recordsPerFile, shared, thr, given>>

\* titles = process_line(header); of an empty file too, whose header is one
\* empty field.
SetTitles(t) ==
  /\ pc[t] = "titles"
  /\ titles' = currentIfs[thr[t]].file
  /\ pc' = [pc EXCEPT ![t] = "lines"]
  /\ UNCHANGED <<files, buffers, recordsCount, thr, given>>

\* Two threads assign the vector at once.
TitlesClash == \E t, u \in Threads : t # u /\ pc[t] = "titles" /\ pc[u] = "titles"

\* The loop that takes the lines after line p of file f, up to line q, and pushes
\* those that are not empty.
RecordsBetween(f, p, q) ==
  LET upTo[l \in p .. q] ==
        IF l = p THEN <<>>
        ELSE IF LinesOf(f)[l] = "blank" THEN upTo[l - 1] ELSE Append(upTo[l - 1], <<f, l>>)
  IN  upTo[q]

\* A mistake the runs must notice: a stream that has failed is not closed.
FailedStays(ifs) == [ifs EXCEPT !.good = FALSE]

\* What becomes of a stream that has failed.
Failed(ifs) == Closed

\* The buffer is filled.  The loop ends after MaxLines lines, or with a getline
\* that fails at the end of the file, and then the stream is closed.
ReadLines(t) ==
  LET i == thr[t]
      ifs == currentIfs[i]
      end == Len(LinesOf(ifs.file))
      last == IF end - ifs.pos < MaxLines THEN end ELSE ifs.pos + MaxLines
  IN
  /\ pc[t] = "lines"
  /\ recordsPerFile' = [recordsPerFile EXCEPT ![i] =
                          IF ifs.good THEN RecordsBetween(ifs.file, ifs.pos, last) ELSE <<>>]
  /\ currentIfs' = [currentIfs EXCEPT ![i] =
                      IF ifs.good /\ end - ifs.pos >= MaxLines THEN [ifs EXCEPT !.pos = last]
                      ELSE Failed(ifs)]
  /\ indexOfRecords' = [indexOfRecords EXCEPT ![i] = 0]
  /\ pc' = [pc EXCEPT ![t] = "next"]
  /\ UNCHANGED <<files, indexOfFiles, shared, thr, given>>
=============================================================================
