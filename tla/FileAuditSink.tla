----------------------------- MODULE FileAuditSink -----------------------------
(***************************************************************************)
(* The audit file (seraph/FileAuditSink): every run of the kernel opens it *)
(* in append mode and writes one line per event, flushed at once.  Nothing *)
(* keeps two runs from having the file open together (a kernel, and a      *)
(* --status beside it), and a run begins with what earlier ones have left. *)
(*                                                                         *)
(* The file is a sequence of fragments.  One that is whole ends its line;  *)
(* the next one begins where a torn one ends, on the same line.  The       *)
(* ofstream is external: an open may fail; a write may stop short with a   *)
(* part of the line or nothing in the file, after which the stream is in a *)
(* failed state and takes no more, since nothing clears it, but keeps the  *)
(* line in its buffer and tries it once again when it is closed; and       *)
(* flush() reaches the system but not the disk, so that a loss of power    *)
(* takes an end of the file away.  A line goes to the file in one write.   *)
(***************************************************************************)
EXTENDS Naturals, Sequences

CONSTANTS
  Runs,       \* the runs of the program, in one life of the file
  MaxFaults   \* bound on what goes wrong in it

VARIABLES
  file,
  stream,    \* out_stream_ of each run: "closed", "good" or "failed"
  buffered,  \* the event of each run whose line is left in its buffer, 0: none
  reported,  \* history: the events each run has passed to a Log function
  faults     \* history: how often something went wrong

sinkVars == <<file, stream, buffered, reported, faults>>

Fragments(Events) == [run : Runs, n : Nat, event : Events, whole : BOOLEAN]

SinkTypeOK(Events) ==
  /\ file \in Seq(Fragments(Events))
  /\ stream \in [Runs -> {"closed", "good", "failed"}]
  /\ buffered \in [Runs -> Nat]
  /\ reported \in [Runs -> Seq(Events)]
  /\ faults \in Nat

SinkInit ==
  /\ file = <<>>
  /\ stream = [r \in Runs |-> "closed"]
  /\ buffered = [r \in Runs |-> 0]
  /\ reported = [r \in Runs |-> <<>>]
  /\ faults = 0

Fault == faults < MaxFaults /\ faults' = faults + 1

(* An event on its way to the file; its number among the events of its    *)
(* run is a history field.                                                 *)
Fragment(r, n, event, whole) == [run |-> r, n |-> n, event |-> event, whole |-> whole]

(* The constructor. *)
Open(r) ==
  /\ \/ stream' = [stream EXCEPT ![r] = "good"] /\ UNCHANGED faults
     \/ UNCHANGED stream /\ Fault
  /\ UNCHANGED <<file, buffered, reported>>

(* Slip: the failed state is cleared before each write. *)
Writable_Cleared(r) == stream[r] # "closed"

Writable(r) == stream[r] = "good"

(* A line of which nothing, or a part, reaches the file. *)
CutShort(r, n, event) == {file, Append(file, Fragment(r, n, event, FALSE))}

AppendJsonLine(r, event) ==
  LET n == Len(reported[r]) + 1 IN
  \/ /\ Writable(r)
     /\ file' = Append(file, Fragment(r, n, event, TRUE))
     /\ UNCHANGED <<stream, buffered, faults>>
  \/ /\ Writable(r) /\ Fault
     /\ file' \in CutShort(r, n, event)
     /\ stream' = [stream EXCEPT ![r] = "failed"]
     /\ buffered' = [buffered EXCEPT ![r] = n]
  \/ /\ ~Writable(r)
     /\ UNCHANGED <<file, stream, buffered, faults>>

(* LogSystemEvent, LogExecutionStart, LogExecutionSuccess and              *)
(* LogExecutionFailure: the record is made and appended.                   *)
Log(r, event) ==
  /\ AppendJsonLine(r, event)
  /\ reported' = [reported EXCEPT ![r] = Append(@, event)]

(* The process ends, and with it what is in its memory. *)
Vanish(r) ==
  /\ stream' = [stream EXCEPT ![r] = "closed"]
  /\ buffered' = [buffered EXCEPT ![r] = 0]
  /\ UNCHANGED reported

(* The destructor. *)
Close(r) ==
  /\ Vanish(r) /\ UNCHANGED faults
  /\ \/ buffered[r] = 0 /\ UNCHANGED file
     \/ /\ buffered[r] # 0
        /\ LET n == buffered[r] IN
           file' \in CutShort(r, n, reported[r][n])
                      \cup {Append(file, Fragment(r, n, reported[r][n], TRUE))}

LosePower ==
  /\ Fault
  /\ stream' = [r \in Runs |-> "closed"]
  /\ buffered' = [r \in Runs |-> 0]
  /\ \/ \E k \in 0..Len(file) : file' = SubSeq(file, 1, k)
     \/ \E k \in 1..Len(file) : file' = [SubSeq(file, 1, k) EXCEPT ![k].whole = FALSE]
  /\ UNCHANGED reported

-----------------------------------------------------------------------------
(* What a reader of the file can parse: a whole line that does not begin   *)
(* with the torn record of somebody else.                                  *)
Legible(i) == file[i].whole /\ (i = 1 \/ file[i - 1].whole)

(* The records of a run are its first events, in their order: whatever its *)
(* writes and those of other runs have met, none is missing between two    *)
(* that are there, and only the last may be torn, or be there once more.   *)
RecordsAreAPrefix ==
  \A i \in DOMAIN file :
    LET f == file[i] IN
    /\ f.n \in DOMAIN reported[f.run] /\ f.event = reported[f.run][f.n]
    /\ f.n > 1 => \E j \in 1..(i - 1) : file[j].run = f.run /\ file[j].n = f.n - 1
    /\ \A j \in (i + 1)..Len(file) :
         file[j].run = f.run => file[j].n = f.n \/ (f.whole /\ file[j].n > f.n)
    /\ (\E j \in 1..(i - 1) : file[j].run = f.run /\ file[j].n = f.n) =>
         stream[f.run] = "closed"
===============================================================================
