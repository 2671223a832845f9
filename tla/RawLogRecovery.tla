--------------------------- MODULE RawLogRecovery ---------------------------
(***************************************************************************)
(* What RawLogReader::open() (raw_log_reader.cpp) makes of a log that      *)
(* RawLogRecorder was writing when the process or the machine stopped: the *)
(* file may end anywhere, inside its own header and inside a record too.   *)
(*                                                                         *)
(* The file begins with two cells for its header, which RawLogWriter       *)
(* writes when it opens the file.  A record is four cells: two halves of   *)
(* its marker, the rest of its header, and its source id with its payload. *)
(* Markers and lengths that are wrong, which a log cut short does not      *)
(* have, are left out.                                                     *)
(***************************************************************************)
EXTENDS RawLogRecorder, Integers, SequencesExt

CONSTANT ReceiveTime   \* of each chunk: clocks may go back, so it need not grow

ASSUME TimesAssumption == ReceiveTime \in [1..MaxChunks -> Int]

FileHeader == 2
Marker == 2
Header == 1
Data == 1
Record == Marker + Header + Data

\* The file as it is on the disk: the header is cells that belong to no chunk.
Cells(records) ==
    [i \in 1..(FileHeader + Record * Len(records)) |->
        IF i <= FileHeader THEN 0 ELSE records[((i - FileHeader - 1) \div Record) + 1]]

\* A mutant: a seek past the end of a file succeeds.
SeekSucceeds(left) == TRUE

\* The file size is compared before the data is skipped.
DataPresent(left) == left >= Data

\* open(): whether the file has its header, the records after it, and whether something is left
\* that is not a record.
Scanned(cells) ==
    LET scan[o \in 0..(Len(cells) + Record)] ==
            LET left == Len(cells) - o
            IN  IF left < Marker
                THEN [opened |-> TRUE, records |-> <<>>, truncated |-> left > 0]
                ELSE IF left < Marker + Header \/ ~DataPresent(left - Marker - Header)
                THEN [opened |-> TRUE, records |-> <<>>, truncated |-> TRUE]
                ELSE [scan[o + Record] EXCEPT !.records = <<cells[o + 1]>> \o @]
    IN  IF Len(cells) < FileHeader
        THEN [opened |-> FALSE, records |-> <<>>, truncated |-> FALSE]
        ELSE scan[FileHeader]

\* std::max of the time of the record before and of this one.
Held(last, received) == IF last < received THEN received ELSE last

\* The times of the index entries: the first record is taken as it is.
Timeline(records) ==
    LET time[i \in DOMAIN records] ==
            IF i = 1 THEN ReceiveTime[records[i]]
            ELSE Held(time[i - 1], ReceiveTime[records[i]])
    IN  time

-----------------------------------------------------------------------------

\* Wherever the file ends, open() refuses it exactly if its own header is not whole; then it holds
\* no record either.  Otherwise it finds exactly the records that are whole, in the order in which
\* they were accepted, and says whether a piece of one more is there.
RecoveredIsPrefix ==
    \A end \in 0..(FileHeader + Record * Len(file)) :
        LET found == Scanned(SubSeq(Cells(file), 1, end))
            bytes == IF end < FileHeader THEN 0 ELSE end - FileHeader
        IN  /\ found.opened = (end >= FileHeader)
            /\ found.records = SubSeq(file, 1, bytes \div Record)
            /\ found.truncated = (bytes % Record # 0)
            /\ lost = 0 => IsPrefix(found.records, accepted)

\* The timeline that lowerBound() (raw_log_reader.cpp:196-203) searches by bisection: however many
\* records are recovered, their times never go back, also where the clock did, no record is placed
\* before it was received, and each is placed where it or an earlier one was received.
TimelineIsSorted ==
    \A n \in 0..Len(file) :
        LET t == Timeline(SubSeq(file, 1, n))
        IN  /\ DOMAIN t = 1..n
            /\ \A i, j \in 1..n : i < j => t[i] <= t[j]
            /\ \A i \in 1..n : /\ t[i] >= ReceiveTime[file[i]]
                              /\ \E j \in 1..i : t[i] = ReceiveTime[file[j]]

\* What a crash leaves can be played: wherever the file ends, open() finds its whole records and no
\* others, unless it has no whole header, and lowerBound() finds its way among them.
RecoveredIsPlayable == RecoveredIsPrefix /\ TimelineIsSorted
=============================================================================
