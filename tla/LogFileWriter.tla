---------------------------- MODULE LogFileWriter ----------------------------
(***************************************************************************)
(* logger::log_file_writer (sax/logger/log_file_writer.h): lines are       *)
(* written to a file; when it is large enough the files name.1, name.2 ... *)
(* are moved up by one and the file becomes name.1.  A lock makes each     *)
(* call one of its own, but the process may be restarted between any two   *)
(* steps of a rotation, and a file may fail to open.                       *)
(*                                                                         *)
(* Lines are numbered and of size 1.  A file is the set of its lines, and  *)
(* number 0 is the file that is written.                                   *)
(***************************************************************************)
EXTENDS Integers, FiniteSets

CONSTANTS Names,             \* the names of files that may be set
          Configured,        \* the one of them that the process starts with
          MostFiles,         \* the largest value of _max_logfiles
          _size_per_logfile,
          MaxLines           \* bound: lines

LogAssumption ==
  /\ MostFiles \in Nat /\ MaxLines \in Nat /\ _size_per_logfile \in Nat \ {0}
  /\ Configured \in Names \cup {"stdout"}

(* The process starts with the name of a file. *)
ToAFile == LogAssumption /\ Configured \in Names \ {"stdout"}

VARIABLES file,              \* the files of each name
          _logfile_name, _max_logfiles, _curr_logfiles, _curr_size, _curr_logfile,
          stdout_open,
          doing, i,          \* where the rotation is, and its loop's variable
          lines,             \* how many lines there have been
          printed,           \* those that went to stdout
          clean              \* nothing has happened that the files of a rotation
                             \* may be miscounted for

vars == <<file, _logfile_name, _max_logfiles, _curr_logfiles, _curr_size, _curr_logfile,
          stdout_open, doing, i, lines, printed, clean>>

Absent == {0}
Maxima == 1 .. MostFiles
Numbers == 0 .. MostFiles
Lines == SUBSET (1 .. MaxLines)

TypeOK ==
  /\ file \in [Names -> [Numbers -> Lines \cup {Absent}]]
  /\ _logfile_name \in Names \cup {"stdout"}
  /\ _max_logfiles \in Maxima /\ _curr_logfiles \in Numbers
  /\ _curr_size \in 0 .. _size_per_logfile
  /\ _curr_logfile \in {"file", "stdout", "NULL"}
  /\ doing \in {"log", "remove", "shift", "open"} /\ i \in Numbers

Init ==
  /\ file = [n \in Names |-> [k \in Numbers |-> Absent]]
  /\ _logfile_name = Configured
  /\ _max_logfiles \in Maxima
  /\ _curr_logfiles = 0 /\ _curr_size = 0 /\ _curr_logfile = "NULL"
  /\ stdout_open = TRUE
  /\ doing = "open" /\ i = 0
  /\ lines = 0 /\ printed = {} /\ clean = TRUE

(* log; what is written to a stream that has been closed is nowhere.       *)
log ==
  /\ doing = "log" /\ lines < MaxLines
  /\ lines' = lines + 1
  /\ IF _curr_logfile = "file"
     THEN file' = [file EXCEPT ![_logfile_name][0] = @ \cup {lines'}] /\ UNCHANGED printed
     ELSE /\ printed' = IF stdout_open THEN printed \cup {lines'} ELSE printed
          /\ UNCHANGED file
  /\ LET rotate == _curr_size + 1 >= _size_per_logfile
         std == _logfile_name = "stdout" IN
       /\ _curr_size' = IF rotate /\ std THEN 0 ELSE _curr_size + 1
       /\ doing' = IF rotate /\ ~std THEN "remove" ELSE "log"
       /\ _curr_logfiles' = IF rotate /\ ~std /\ _curr_logfiles < _max_logfiles
                            THEN _curr_logfiles + 1 ELSE _curr_logfiles
  /\ UNCHANGED <<_logfile_name, _max_logfiles, _curr_logfile, stdout_open, i, clean>>

-----------------------------------------------------------------------------
(* rotate *)

Remove ==
  /\ doing = "remove"
  /\ file' = [file EXCEPT ![_logfile_name][_curr_logfiles] = Absent]
  /\ i' = _curr_logfiles - 1
  /\ doing' = "shift"
  /\ UNCHANGED <<_logfile_name, _max_logfiles, _curr_logfiles, _curr_size, _curr_logfile,
                 stdout_open, lines, printed, clean>>

(* rename; a file that is not there cannot be renamed. *)
Renamed(from, to) ==
  IF file[_logfile_name][from] = Absent THEN file
  ELSE [file EXCEPT ![_logfile_name][to] = file[_logfile_name][from],
                    ![_logfile_name][from] = Absent]

Shift ==
  /\ doing = "shift" /\ i > 0
  /\ file' = Renamed(i, i + 1)
  /\ i' = i - 1
  /\ UNCHANGED <<_logfile_name, _max_logfiles, _curr_logfiles, _curr_size, _curr_logfile,
                 stdout_open, doing, lines, printed, clean>>

(* close: unless a standard stream is what was asked for, the stream that  *)
(* is written is closed, even if it is stdout that stands in for a file.   *)
Close ==
  IF _logfile_name = "stdout" THEN UNCHANGED <<_curr_logfile, stdout_open>>
  ELSE /\ stdout_open' = (stdout_open /\ _curr_logfile # "stdout")
       /\ _curr_logfile' = "NULL"

(* A slip: the file goes to the end of the row, and the others stay.       *)
MoveLast ==
  /\ doing = "shift"
  /\ Close
  /\ file' = Renamed(0, _curr_logfiles)
  /\ i' = 0
  /\ doing' = "open"
  /\ UNCHANGED <<_logfile_name, _max_logfiles, _curr_logfiles, _curr_size, lines, printed, clean>>

Move ==
  /\ doing = "shift" /\ i = 0
  /\ Close
  /\ file' = Renamed(0, 1)
  /\ doing' = "open"
  /\ UNCHANGED <<_logfile_name, _max_logfiles, _curr_logfiles, _curr_size, i, lines, printed, clean>>

AtMost(bound, n) == IF n < bound THEN n ELSE bound

(* open; the size of a file that is too large already does not matter ...  *)
Open ==
  /\ doing = "open"
  /\ IF _logfile_name = "stdout"
     THEN _curr_logfile' = "stdout" /\ _curr_size' = 0 /\ UNCHANGED file
     ELSE LET there == file[_logfile_name][0] \ Absent IN
          /\ file' = [file EXCEPT ![_logfile_name][0] = there]
          /\ _curr_size' = AtMost(_size_per_logfile - 1, Cardinality(there))
          /\ _curr_logfile' = "file"
  /\ doing' = "log"
  /\ UNCHANGED <<_logfile_name, _max_logfiles, _curr_logfiles, stdout_open, i, lines, printed, clean>>

(* ... which logs to stdout instead if the file cannot be opened.          *)
FailToOpen ==
  /\ doing = "open" /\ _logfile_name # "stdout"
  /\ _curr_logfile' = "stdout" /\ _curr_size' = 0
  /\ doing' = "log"
  /\ clean' = FALSE
  /\ UNCHANGED <<file, _logfile_name, _max_logfiles, _curr_logfiles, stdout_open, i, lines, printed>>

-----------------------------------------------------------------------------

(* set_logfile_name; the files of the new name are not counted.            *)
set_logfile_name(n) ==
  /\ doing = "log"
  /\ Close
  /\ _logfile_name' = n
  /\ doing' = "open"
  /\ clean' = FALSE
  /\ UNCHANGED <<file, _max_logfiles, _curr_logfiles, _curr_size, i, lines, printed>>

(* set_max_logfiles; files beyond a smaller number stay.                   *)
set_max_logfiles(amount) ==
  /\ doing = "log"
  /\ _max_logfiles' = amount
  /\ clean' = (clean /\ amount >= _max_logfiles)
  /\ UNCHANGED <<file, _logfile_name, _curr_logfiles, _curr_size, _curr_logfile, stdout_open,
                 doing, i, lines, printed>>

(* A slip: the files that are there are not counted. *)
CountedNone == 0

(* The files that the constructor counts: as far as there is no gap.       *)
Counted ==
  Cardinality({k \in 1 .. _max_logfiles - 1 : \A j \in 1 .. k : file[Configured][j] # Absent})

(* The process ends at any moment, and another one constructs its writer.  *)
(* A gap that a rotation has left in the row is taken for its end.         *)
Restart ==
  /\ clean' = (clean /\ ~(doing = "shift" /\ i < _curr_logfiles - 1))
  /\ _logfile_name' = Configured
  /\ _curr_logfiles' = Counted
  /\ _curr_size' = 0 /\ _curr_logfile' = "NULL"
  /\ stdout_open' = TRUE
  /\ doing' = "open" /\ i' = 0
  /\ UNCHANGED <<file, _max_logfiles, lines, printed>>

Next ==
  \/ log \/ Remove \/ Shift \/ Move \/ Open \/ FailToOpen \/ Restart
  \/ \E n \in Names \cup {"stdout"} : set_logfile_name(n)
  \/ \E amount \in Maxima : set_max_logfiles(amount)

Spec == Init /\ [][Next]_vars

-----------------------------------------------------------------------------
(* Properties *)

(* The smaller its number, the newer the lines of a file, at any moment,   *)
(* whatever has failed and wherever a rotation has been cut off.           *)
Ordered ==
  \A n \in Names : \A j, k \in Numbers :
    j < k => \A new \in file[n][j] \ Absent, old \in file[n][k] \ Absent : old < new

(* As long as rotations run through, files open, and neither the name nor  *)
(* a smaller number of files is set, only the oldest lines are dropped.    *)
DropsOldest ==
  LET kept == UNION {file[Configured][k] \ Absent : k \in Numbers} IN
  clean => \A line \in kept : line .. lines \subseteq kept
=============================================================================
