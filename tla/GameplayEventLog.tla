------------------------- MODULE GameplayEventLog ---------------------------
(***************************************************************************)
(* The event log of the game (Exolon/GameCore/Diagnostics/                  *)
(* GameplayEventLog.swift) as the application composes it: the game's       *)
(* thread appends records to a ring under a lock, a serial queue copies     *)
(* them out in batches, numbers them and writes them to files of bounded    *)
(* size. A ring that is full drops its oldest record; the file says how     *)
(* many are missing and where. On termination the game's thread waits for   *)
(* the queue to empty the ring and to write log.end.                        *)
(*                                                                         *)
(* Each section under the lock is one step. The rest of a drain is private  *)
(* to the queue; it is cut where a file is opened or retired, and before    *)
(* the batch is written, so that a crash may fall between them.             *)
(***************************************************************************)
EXTENDS Integers, FiniteSets, Sequences

CONSTANTS
  Capacity,        \* Limits.ringCapacity
  Batch,           \* Limits.drainBatchEvents
  FileMax,         \* Limits.maxFileBytes, in lines
  KeptFiles,       \* Limits.keptFiles
  BufferMax,       \* Limits.bufferBytes, in lines
  HeartbeatSteps,  \* Limits.heartbeatSteps
  MaxEvents,       \* bound: records appended
  MaxTick          \* bound: fixed steps

ASSUME LimitsAssumption ==
  /\ {Capacity, Batch, FileMax, KeptFiles, BufferMax, HeartbeatSteps} \subseteq Nat \ {0}
  /\ MaxEvents \in Nat /\ MaxTick \in Nat

VARIABLES
  ring,       \* the slots
  head,       \* number of the oldest record in the ring
  tail,       \* number of the next record, appendedTotal
  dropped,    \* droppedTotal
  undeclared, \* droppedSinceDrain
  tick,       \* fixed steps so far
  game,       \* where the game's thread is
  at,         \* where drainNow is on the queue
  scratch,    \* the batch drainNow has copied out
  claimed,    \* the drops it is to declare
  nextSeq,    \* number of the next line
  file,       \* fileIsOpen and openFailed: none, open or failed
  handle,     \* whether the writer has a file handle
  rotation,   \* the generation the writer holds
  disk,       \* lines in the retained files, oldest first
  buffer,     \* lines the writer has buffered
  said,       \* what reportOnce has told stderr
  written     \* for the invariants: records handed to an open file

counters == <<head, tail, dropped, undeclared>>
writer   == <<handle, rotation, disk, buffer>>
vars     == <<ring, counters, tick, game, at, scratch, claimed, nextSeq, file,
              writer, said, written>>

Records == [id : Nat, tick : Nat, vital : BOOLEAN]
Empty   == [id |-> 0, tick |-> 0, vital |-> FALSE]   \* GameplayEvent.zero

Init ==
  /\ ring = [i \in 0..Capacity-1 |-> Empty]
  /\ head = 0 /\ tail = 0
  /\ dropped = 0 /\ undeclared = 0
  /\ tick = 0
  /\ game = "playing"
  /\ at = "idle"
  /\ scratch = <<>>
  /\ claimed = 0
  /\ nextSeq = 0
  /\ file = "none"
  /\ handle = FALSE
  /\ rotation = 0
  /\ disk = <<>>
  /\ buffer = <<>>
  /\ said = "nothing"
  /\ written = 0

Pending == tail - head

---------------------------------------------------------------------------
(* The game's thread                                                       *)

\* Mistake: one record too many
OverFull == Pending > Capacity

Full == Pending >= Capacity

\* storeLocked: the newest record is kept, the oldest is lost and counted
Store(record) ==
  /\ tail < MaxEvents                  \* bound
  /\ ring' = [ring EXCEPT ![tail % Capacity] = record]
  /\ tail' = tail + 1
  /\ IF Full
     THEN head' = head + 1 /\ dropped' = dropped + 1 /\ undeclared' = undeclared + 1
     ELSE UNCHANGED <<head, dropped, undeclared>>

Emit ==
  /\ game = "playing"
  /\ \E vital \in BOOLEAN : Store([id |-> tail, tick |-> tick, vital |-> vital])
  /\ UNCHANGED <<tick, game, at, scratch, claimed, nextSeq, file, writer, said, written>>

\* beginTick, with its heartbeat
BeginTick ==
  /\ game = "playing"
  /\ tick < MaxTick                    \* bound
  /\ tick' = tick + 1
  /\ IF tick' % HeartbeatSteps = 0
     THEN Store([id |-> tail, tick |-> tick', vital |-> TRUE])
     ELSE UNCHANGED <<ring, counters>>
  /\ UNCHANGED <<game, at, scratch, claimed, nextSeq, file, writer, said, written>>

\* shutdown cancels the timer and waits for the queue in flush
Shutdown ==
  /\ game = "playing"
  /\ game' = "flushing"
  /\ UNCHANGED <<ring, counters, tick, at, scratch, claimed, nextSeq, file, writer, said, written>>

---------------------------------------------------------------------------
(* The writer                                                              *)

Line(name, seq, rot, when, n) ==
  [name |-> name, seq |-> seq, rot |-> rot, tick |-> when, n |-> n, vital |-> FALSE]

BodyLine(record, seq) ==
  [Line("body", seq, rotation, record.tick, record.id) EXCEPT !.vital = record.vital]

\* lines appended to the buffer, which goes to the file when it is full or told to
Write(lines, sync) ==
  IF ~handle THEN UNCHANGED <<disk, buffer>>
  ELSE IF sync \/ Len(buffer \o lines) >= BufferMax
       THEN disk' = disk \o buffer \o lines /\ buffer' = <<>>
       ELSE disk' = disk /\ buffer' = buffer \o lines

BytesInCurrentFile ==
  Cardinality({i \in DOMAIN (disk \o buffer) : (disk \o buffer)[i].rot = rotation})

\* pruneOldFiles, once the generation rot is the present one: the lines of a
\* file lie together, those of the oldest file first
Retained(lines, rot) ==
  LET Pruned == {i \in DOMAIN lines : lines[i].rot < rot - (KeptFiles - 1)}
  IN SubSeq(lines, Cardinality(Pruned) + 1, Len(lines))

ReportOnce(message) == said' = IF said = "nothing" THEN message ELSE said

---------------------------------------------------------------------------
(* The queue                                                               *)

Alive == game \notin {"ended", "crashed"}

\* Mistake: flush drains one batch
NoPendingWork == FALSE

\* Mistake: flush waits for the losses of the whole run
EverLost == Pending > 0 \/ dropped > 0

HasPendingWork == Pending > 0 \/ undeclared > 0

BatchSize == IF Pending <= Batch THEN Pending ELSE Batch

\* drainNow under the lock, called by the timer or by flush
DrainBegin ==
  /\ game \in {"playing", "flushing"}
  /\ at = "idle"
  /\ Pending > 0
  /\ scratch' = [i \in 1..BatchSize |-> ring[(head + i - 1) % Capacity]]
  /\ head' = head + BatchSize
  /\ claimed' = undeclared
  /\ undeclared' = 0
  /\ at' = "claimed"
  /\ UNCHANGED <<ring, tail, dropped, tick, game, nextSeq, file, writer, said, written>>

\* a header carries the tick of the record that follows it
Stamp == IF scratch # <<>> THEN scratch[1].tick ELSE tick

\* a batch that no file can take
CountLoss ==
  /\ dropped' = dropped + Len(scratch)
  /\ scratch' = <<>>
  /\ claimed' = 0
  /\ at' = "idle"

\* ensureFileOpen, by the first drain or by shutdown
OpenFirstFile ==
  /\ Alive
  /\ file = "none"
  /\ at = "claimed" \/ (game = "closing" /\ at = "idle")
  /\ \/ /\ file' = "open"
        /\ handle' = TRUE
        /\ disk' = <<Line("begin", nextSeq, rotation, Stamp, 0)>>
        /\ nextSeq' = nextSeq + 1
        /\ ReportOnce("path")
        /\ UNCHANGED <<dropped, scratch, claimed, at>>
     \/ /\ file' = "failed"
        /\ ReportOnce("failure")
        /\ CountLoss
        /\ UNCHANGED <<handle, disk, nextSeq>>
  /\ UNCHANGED <<ring, head, tail, undeclared, tick, game, rotation, buffer, written>>

DrainRefused ==
  /\ Alive
  /\ at = "claimed"
  /\ file = "failed"
  /\ CountLoss
  /\ UNCHANGED <<ring, head, tail, undeclared, tick, game, nextSeq, file, writer, said, written>>

IsFull == BytesInCurrentFile >= FileMax

\* rotateFile: the last line of the retired file, the next file and its header.
\* If the next file cannot be opened the drain goes on all the same.
RotateFile ==
  LET last  == Line("rotate", nextSeq, rotation, Stamp, rotation + 1)
      first == Line("begin", nextSeq + 1, rotation + 1, Stamp, 0)
      old   == Retained(disk \o buffer \o <<last>>, rotation + 1)
  IN /\ Alive
     /\ at = "claimed"
     /\ file = "open" /\ IsFull
     /\ rotation' = rotation + 1
     /\ buffer' = <<>>
     /\ \/ /\ disk' = old \o <<first>>
           /\ nextSeq' = nextSeq + 2
           /\ UNCHANGED <<file, handle, said>>
        \/ /\ disk' = old
           /\ nextSeq' = nextSeq + 1
           /\ file' = "failed"
           /\ handle' = FALSE
           /\ ReportOnce("failure")
     /\ at' = "rotated"
     /\ UNCHANGED <<ring, counters, tick, game, scratch, claimed, written>>

\* Mistake: only a loss is flushed at once
OnlyLossIsFlushed == claimed > 0

\* dropRecordLine, shouldFlush
WantsSync == claimed > 0 \/ \E i \in DOMAIN scratch : scratch[i].vital

\* the rest of drainNow
WriteBatch ==
  LET declared == IF claimed = 0 THEN <<>>
                  ELSE <<Line("dropped", nextSeq, rotation, Stamp, claimed)>>
      first    == nextSeq + Len(declared)
      bodies   == [i \in 1..Len(scratch) |-> BodyLine(scratch[i], first + i - 1)]
  IN /\ Alive
     /\ at = "rotated" \/ (at = "claimed" /\ file = "open" /\ ~IsFull)
     /\ Write(declared \o bodies, WantsSync)
     /\ nextSeq' = first + Len(scratch)
     /\ written' = IF handle THEN written + Len(scratch) ELSE written
     /\ scratch' = <<>>
     /\ claimed' = 0
     /\ at' = "idle"
     /\ UNCHANGED <<ring, counters, tick, game, file, handle, rotation, said>>

\* drainEverything has left the ring empty, and the buffer is pushed out
FlushDone ==
  /\ game = "flushing"
  /\ at = "idle"
  /\ ~HasPendingWork
  /\ Write(<<>>, TRUE)
  /\ game' = "closing"
  /\ UNCHANGED <<ring, counters, tick, at, scratch, claimed, nextSeq, file, handle, rotation, said, written>>

\* the closer of shutdown, once a file is open or cannot be
WriteEnd ==
  /\ game = "closing"
  /\ at = "idle"
  /\ file # "none"
  /\ IF file = "failed" THEN UNCHANGED <<nextSeq, writer>>
     ELSE /\ Write(<<Line("end", nextSeq, rotation, tick, tail)>>, TRUE)
          /\ nextSeq' = nextSeq + 1
          /\ handle' = FALSE
          /\ UNCHANGED rotation
  /\ game' = "ended"
  /\ UNCHANGED <<ring, counters, tick, at, scratch, claimed, file, said, written>>

\* the process dies; what it had buffered is gone
Crash ==
  /\ Alive
  /\ game' = "crashed"
  /\ buffer' = <<>>
  /\ UNCHANGED <<ring, counters, tick, at, scratch, claimed, nextSeq, file, handle, rotation, disk, said, written>>

---------------------------------------------------------------------------
Drain == DrainBegin \/ OpenFirstFile \/ DrainRefused \/ RotateFile \/ WriteBatch

Next ==
  \/ Emit
  \/ BeginTick
  \/ Shutdown
  \/ Drain
  \/ FlushDone
  \/ WriteEnd
  \/ Crash

Spec == Init /\ [][Next]_vars

\* The timer fires again and again and the queue runs what it is given; the
\* game's thread goes on once the queue has answered.
Fairness == WF_vars(Drain) /\ WF_vars(FlushDone \/ WriteEnd)

FairSpec == Spec /\ Fairness

---------------------------------------------------------------------------
(* Properties                                                              *)

Lines == disk \o buffer

RotationFailed == file = "failed" /\ rotation > 0

\* A reader of the retained files, however they end, can trust them: lines are
\* numbered without a hole and their ticks do not fall; a file ends with
\* log.rotate and the next begins with its header; and wherever records are
\* missing the line before the next one says exactly how many. log.end counts
\* every record there was (drainNow, rotateFile, shutdown).
FileIsHonest ==
  /\ \A i \in 1..Len(Lines)-1 :
       LET this == Lines[i]  next == Lines[i+1]
       IN /\ next.seq = this.seq + 1
          /\ this.tick <= next.tick
          /\ this.name # "end"
          /\ this.name = "dropped" => next.name = "body"
          /\ IF this.name = "rotate" THEN next.name = "begin" /\ next.rot = this.n
             ELSE next.rot = this.rot
  /\ \A j \in 2..Len(Lines) :
       LET Numbered == {i \in 1..j-1 : Lines[i].name = "body"}
           lost     == IF Lines[j-1].name = "dropped" THEN Lines[j-1].n ELSE 0
       IN Lines[j].name \in {"body", "end"} /\ Numbered # {} =>
            \E i \in Numbered :
              /\ \A k \in Numbered : k <= i
              /\ Lines[j].n = Lines[i].n + 1 + lost

\* Every record is in one place. The ring holds exactly those that are neither
\* written, nor on their way, nor counted as dropped; a loss that is not declared
\* yet has a full ring behind it, whose next batch will declare it; at the end
\* "declared events minus written body records == dropped" (line 293); and between
\* two drains a record of a state, damage, bonus or tick is not in the writer's
\* buffer, where a crash would lose it (storeLocked, drainNow, shouldFlush). A
\* rotation that failed is left out of the count: see FailureIsTold.
RecordsAccounted ==
  /\ Pending \in 0..Capacity
  /\ \A i \in head..tail-1 : ring[i % Capacity].id = i
  /\ undeclared > 0 => Pending = Capacity
  /\ ~RotationFailed => head = written + Len(scratch) + dropped
  /\ ~RotationFailed /\ game = "ended" => tail - written = dropped
  /\ at = "idle" => \A i \in DOMAIN buffer : ~buffer[i].vital

\* Every record leaves the ring unless the process dies, and termination, which
\* waits for the queue, ends (flush, shutdown).
LogDrains ==
  /\ \A n \in 0..MaxEvents-1 : tail > n ~> head > n \/ game = "crashed"
  /\ game = "flushing" ~> game \in {"ended", "crashed"}

\* "Every failure increments the drop counter and, once, says so on stderr"
\* (GameplayEventLog.swift 15-17): once no file can be written, every record
\* that reached none is counted, and stderr was told of the failure.
FailureIsTold ==
  file = "failed" /\ at = "idle" => head = written + dropped /\ said = "failure"
=============================================================================
