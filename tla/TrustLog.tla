------------------------------ MODULE TrustLog ------------------------------
(***************************************************************************)
(* The trust log (trust_log.rs, trust_log_pure.rs): events are recorded in *)
(* memory, and a flush appends the ones recorded since the last flush to   *)
(* the file on the ESP, numbered from where that one stopped.  A flush     *)
(* that cannot write still moves its events to the committed list.         *)
(***************************************************************************)
EXTENDS Integers, Sequences

CONSTANTS
  Events,      \* the events that may be recorded
  MaxEvents,   \* bound on the events of a boot
  MaxBoots,    \* bound on the number of boots
  AppendFails  \* whether a true_append may fail half-way

VARIABLES
  trust,    \* TrustLog: events (not yet flushed) and committed
  logFile,  \* the lines of the file: boot (history), seq, ev
  bootNo    \* history: the number of this boot

logVars == <<trust, logFile, bootNo>>

\* TrustLog::new.
EmptyLog == [events |-> <<>>, committed |-> <<>>]

\* TrustLog::record.
Recorded(t, evs) == [t EXCEPT !.events = @ \o evs]

\* Seeded defect: numbering starts again at every flush.
SerializePendingFromZero(t) ==
  [i \in 1 .. Len(t.events) |->
     [boot |-> bootNo, seq |-> i - 1, ev |-> t.events[i]]]

\* TrustLog::serialize_pending: what the flush writes ...
SerializePending(t) ==
  [i \in 1 .. Len(t.events) |->
     [boot |-> bootNo, seq |-> Len(t.committed) + i - 1, ev |-> t.events[i]]]

\* ... and what it leaves in memory.
Drained(t) == [events |-> <<>>, committed |-> t.committed \o t.events]

\* TrustLog::flush of t.  A volume without a SimpleFileSystem is not written.
Flush(t, writable) ==
  /\ trust' = Drained(t)
  /\ \/ writable /\ logFile' = logFile \o SerializePending(t)
     \/ ~writable /\ logFile' = logFile
     \/ /\ writable /\ AppendFails
        /\ \E k \in 0 .. Len(t.events) :
             logFile' = logFile \o SubSeq(SerializePending(t), 1, k)
-----------------------------------------------------------------------------
(* The log on its own *)

LogInit == trust = EmptyLog /\ logFile = <<>> /\ bootNo = 1

Record(ev) ==
  /\ Len(trust.events) + Len(trust.committed) < MaxEvents
  /\ trust' = Recorded(trust, <<ev>>)
  /\ UNCHANGED <<logFile, bootNo>>

FlushLog ==
  /\ trust.events # <<>>
  /\ \E writable \in BOOLEAN : Flush(trust, writable)
  /\ UNCHANGED bootNo

Reboot ==
  /\ bootNo < MaxBoots
  /\ bootNo' = bootNo + 1
  /\ trust' = EmptyLog
  /\ UNCHANGED logFile

LogNext == (\E ev \in Events : Record(ev)) \/ FlushLog \/ Reboot

LogSpec == LogInit /\ [][LogNext]_logVars
-----------------------------------------------------------------------------
(* Properties *)

\* A line's number identifies its event: line seq of this boot is the seq-th
\* event recorded, so a gap in the numbers is exactly an event that was lost.
SeqIdentifiesEvent ==
  \A i \in 1 .. Len(logFile) : logFile[i].boot = bootNo =>
    /\ logFile[i].seq < Len(trust.committed)
    /\ logFile[i].ev = trust.committed[logFile[i].seq + 1]

\* The file is in order: boots follow each other and no number of a boot
\* occurs twice or out of order, whatever flushes failed in between.
LinesInOrder ==
  \A i, j \in 1 .. Len(logFile) : i < j =>
    \/ logFile[i].boot < logFile[j].boot
    \/ logFile[i].boot = logFile[j].boot /\ logFile[i].seq < logFile[j].seq
=============================================================================
