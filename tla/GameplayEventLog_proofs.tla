---------------------- MODULE GameplayEventLog_proofs -----------------------
(***************************************************************************)
(* That the event log loses no record unseen, and that the files it leaves *)
(* can be trusted, for every ring, batch, file and buffer size. The first  *)
(* invariant, LogInvariant, says where a record is; what makes it          *)
(* inductive is Hands: which file state the queue can be in at each point  *)
(* of a drain. The second, FileInvariant, says of the files what           *)
(* FileIsHonest does, and of the last line what the next one needs: its    *)
(* number, its generation, no earlier tick still to come, and the record   *)
(* it is for (Due).                                                        *)
(***************************************************************************)
EXTENDS GameplayEventLog, FiniteSetTheorems, SequenceTheorems, TLAPS

LineSet == [name : {"begin", "rotate", "dropped", "body", "end"},
            seq : Nat, rot : Nat, tick : Nat, n : Nat, vital : BOOLEAN]

Types ==
  /\ ring \in [0..Capacity-1 -> Records]
  /\ {head, tail, dropped, undeclared, tick, claimed, nextSeq, rotation, written} \subseteq Nat
  /\ scratch \in Seq(Records)
  /\ buffer \in Seq(LineSet)
  /\ handle \in BOOLEAN

\* what the writer has in hand at each point of a drain
Hands ==
  /\ game \in {"playing", "flushing", "closing", "ended", "crashed"}
  /\ at \in {"idle", "claimed", "rotated"}
  /\ at = "idle" => scratch = <<>>
  /\ file \in {"none", "open", "failed"}
  /\ file = "open" /\ game # "ended" => handle
  /\ at = "rotated" => file = "open" \/ RotationFailed
  /\ game \in {"closing", "ended"} => at = "idle" /\ tail = head

\* RecordsAccounted, with the buffer free of vital records at every moment
Accounts ==
  /\ Pending \in 0..Capacity
  /\ \A i \in head..tail-1 : ring[i % Capacity].id = i
  /\ undeclared > 0 => Pending = Capacity
  /\ ~RotationFailed => head = written + Len(scratch) + dropped
  /\ \A i \in DOMAIN buffer : ~buffer[i].vital

LogInvariant == Types /\ Hands /\ Accounts

USE DEF counters, writer

---------------------------------------------------------------------------
(* Arithmetic of the ring                                                  *)

\* Division with remainder, for a divisor that is not fixed.
LEMMA DivMod ==
  ASSUME NEW C \in Nat \ {0}, NEW i \in Nat
  PROVE  /\ i % C \in 0..C-1
         /\ \E q \in Nat : i = C * q + (i % C)
<1>1. i % C \in 0..C-1
  BY SMT
<1>2. i \div C \in Nat /\ i = C * (i \div C) + (i % C)
  BY SMT
<1> QED BY <1>1, <1>2

\* Two records of one window of the ring do not share a slot.
LEMMA SlotsAreDistinct ==
  ASSUME NEW C \in Nat \ {0}, NEW i \in Nat, NEW j \in Nat, i < j, j - i < C
  PROVE  i % C # j % C
<1>1. PICK p \in Nat : i = C * p + (i % C)
  BY DivMod
<1>2. PICK q \in Nat : j = C * q + (j % C)
  BY DivMod
<1>3. SUFFICES ASSUME i % C = j % C PROVE FALSE
  OBVIOUS
<1>4. i % C \in Nat
  BY DivMod
<1>5. j - i = C * q - C * p
  BY <1>1, <1>2, <1>3, <1>4
<1>6. q > p
  BY <1>5
<1>7. C * q >= C * p + C
  BY <1>6
<1> QED BY <1>5, <1>7

LEMMA CapacityPositive == Capacity \in Nat \ {0} /\ Batch \in Nat \ {0}
  BY LimitsAssumption

---------------------------------------------------------------------------
(* The game's thread                                                       *)

\* A window from h to t that holds at most C records, after the next record:
\* its new beginning is g.
LEMMA WindowMoves ==
  ASSUME NEW C \in Nat, NEW h \in Nat, NEW t \in Nat, NEW g \in Nat, t - h \in 0..C,
         (t - h = C /\ g = h + 1) \/ (t - h < C /\ g = h)
  PROVE  /\ (t + 1) - g \in 0..C
         /\ t - h = C => (t + 1) - g = C
         /\ \A i \in Nat : g <= i => h <= i /\ t - i < C
OBVIOUS

\* storeLocked takes a slot that holds no other record of the ring, and counts
\* the record it overwrites.
LEMMA StoreKeepsWindow ==
  ASSUME Types, Accounts, NEW record \in Records, Store(record)
  PROVE  /\ \A i \in head'..tail'-1 :
              \/ i = tail /\ ring'[i % Capacity] = record
              \/ i \in head..tail-1 /\ ring'[i % Capacity] = ring[i % Capacity]
         /\ ring' \in [0..Capacity-1 -> Records]
         /\ head' \in Nat /\ tail' = tail + 1 /\ tail' \in Nat
         /\ dropped' \in Nat /\ undeclared' \in Nat
         /\ \/ head' = head /\ dropped' = dropped /\ undeclared' = undeclared
            \/ /\ head' = head + 1 /\ dropped' = dropped + 1
               /\ undeclared' = undeclared + 1 /\ Pending' = Capacity
         /\ Pending' \in 0..Capacity
         /\ Pending = Capacity => Pending' = Capacity
<1> USE CapacityPositive
<1>1. /\ head \in Nat /\ tail \in Nat /\ dropped \in Nat /\ undeclared \in Nat
      /\ ring \in [0..Capacity-1 -> Records]
  BY DEF Types
<1>2. Pending = tail - head /\ Pending \in 0..Capacity
  BY <1>1 DEF Accounts, Pending
<1>3. tail % Capacity \in 0..Capacity-1
  BY <1>1, DivMod
<1>4. ring' = [ring EXCEPT ![tail % Capacity] = record] /\ tail' = tail + 1
  BY DEF Store
<1>5. ring' \in [0..Capacity-1 -> Records]
  BY <1>1, <1>4
<1>6. \/ /\ tail - head = Capacity /\ head' = head + 1
         /\ dropped' = dropped + 1 /\ undeclared' = undeclared + 1
      \/ /\ tail - head < Capacity /\ head' = head
         /\ dropped' = dropped /\ undeclared' = undeclared
  BY <1>1, <1>2 DEF Store, Full, Pending
<1>7. head' \in Nat /\ tail' \in Nat /\ dropped' \in Nat /\ undeclared' \in Nat
  BY <1>1, <1>4, <1>6
<1>8. /\ (tail + 1) - head' \in 0..Capacity
      /\ tail - head = Capacity => (tail + 1) - head' = Capacity
      /\ \A i \in Nat : head' <= i => head <= i /\ tail - i < Capacity
  <2>1. /\ Capacity \in Nat /\ head \in Nat /\ tail \in Nat /\ head' \in Nat
        /\ tail - head \in 0..Capacity
    BY <1>1, <1>2, <1>7
  <2>2. \/ tail - head = Capacity /\ head' = head + 1
        \/ tail - head < Capacity /\ head' = head
    BY <1>6, Zenon
  <2> QED BY <2>1, <2>2, WindowMoves, Zenon
<1>9. Pending' \in 0..Capacity /\ (Pending = Capacity => Pending' = Capacity)
  <2>1. Pending' = tail' - head'
    BY DEF Pending
  <2>2. Pending' = (tail + 1) - head'
    BY <1>4, <2>1, Zenon
  <2>3. Pending' \in 0..Capacity
    BY <1>8, <2>2, Zenon
  <2>4. ASSUME Pending = Capacity PROVE Pending' = Capacity
    <3>1. tail - head = Capacity
      BY <1>2, <2>4, Zenon
    <3> QED BY <1>8, <2>2, <3>1, Zenon
  <2> QED BY <2>3, <2>4, Zenon
<1>10. ASSUME NEW i \in head'..tail'-1
       PROVE  \/ i = tail /\ ring'[i % Capacity] = record
              \/ i \in head..tail-1 /\ ring'[i % Capacity] = ring[i % Capacity]
  <2>1. i \in Nat /\ head' <= i /\ i <= tail
    BY <1>1, <1>4, <1>7
  <2>2. i % Capacity \in 0..Capacity-1
    BY <2>1, DivMod
  <2>3. CASE i = tail
    BY <1>1, <1>3, <1>4, <2>3
  <2>4. CASE i < tail
    <3>1. head <= i /\ tail - i < Capacity
      BY <1>8, <2>1, Zenon
    <3>2. i % Capacity # tail % Capacity
      BY <1>1, <2>1, <2>4, <3>1, SlotsAreDistinct
    <3>3. ring'[i % Capacity] = ring[i % Capacity]
      BY <1>1, <1>4, <2>2, <3>2
    <3>4. i \in head..tail-1
      BY <1>1, <2>1, <2>4, <3>1
    <3> QED BY <3>3, <3>4
  <2> QED BY <1>1, <2>1, <2>3, <2>4
<1>11. \/ head' = head /\ dropped' = dropped /\ undeclared' = undeclared
       \/ /\ head' = head + 1 /\ dropped' = dropped + 1
          /\ undeclared' = undeclared + 1 /\ Pending' = Capacity
  BY <1>2, <1>6, <1>9, Zenon
<1> QED BY <1>2, <1>4, <1>5, <1>7, <1>8, <1>9, <1>10, <1>11, Zenon

\* storeLocked keeps the account: every record of the ring stays in its slot or
\* is counted.
LEMMA StoreKeepsAccounts ==
  ASSUME Types, Accounts, NEW record \in Records, record.id = tail, Store(record),
         written' = written, scratch' = scratch, buffer' = buffer,
         file' = file, rotation' = rotation
  PROVE  /\ ring' \in [0..Capacity-1 -> Records]
         /\ {head', tail', dropped', undeclared'} \subseteq Nat
         /\ Accounts'
<1>1. /\ head \in Nat /\ dropped \in Nat /\ undeclared \in Nat /\ written \in Nat
      /\ Len(scratch) \in Nat
  BY DEF Types
<1>2. /\ ring' \in [0..Capacity-1 -> Records]
      /\ head' \in Nat /\ tail' \in Nat /\ dropped' \in Nat /\ undeclared' \in Nat
      /\ Pending' \in 0..Capacity /\ (Pending = Capacity => Pending' = Capacity)
  BY StoreKeepsWindow, Zenon
<1>3. \/ head' = head /\ dropped' = dropped /\ undeclared' = undeclared
      \/ /\ head' = head + 1 /\ dropped' = dropped + 1
         /\ undeclared' = undeclared + 1 /\ Pending' = Capacity
  BY StoreKeepsWindow, Zenon
<1>4. ASSUME NEW i \in head'..tail'-1 PROVE ring'[i % Capacity].id = i
  <2>1. \/ i = tail /\ ring'[i % Capacity] = record
        \/ i \in head..tail-1 /\ ring'[i % Capacity] = ring[i % Capacity]
    BY StoreKeepsWindow, Zenon
  <2>2. CASE i \in head..tail-1 /\ ring'[i % Capacity] = ring[i % Capacity]
    <3>1. ring[i % Capacity].id = i
      BY <2>2, Zenon DEF Accounts
    <3> QED BY <2>2, <3>1, Zenon
  <2> QED BY <2>1, <2>2, Zenon
<1>5. undeclared' > 0 => Pending' = Capacity
  <2>1. undeclared > 0 => Pending = Capacity
    BY DEF Accounts
  <2>2. CASE undeclared' = undeclared
    BY <1>2, <2>1, <2>2, Zenon
  <2> QED BY <1>3, <2>2, Zenon
<1>6. ~RotationFailed' => head' = written' + Len(scratch') + dropped'
  BY <1>1, <1>3 DEF Accounts, RotationFailed
<1>7. \A i \in DOMAIN buffer' : ~buffer'[i].vital
  BY DEF Accounts
<1>8. {head', tail', dropped', undeclared'} \subseteq Nat
  BY <1>2
<1> QED BY <1>2, <1>4, <1>5, <1>6, <1>7, <1>8, Zenon DEF Accounts

LEMMA EmitKeeps == ASSUME LogInvariant, Emit PROVE LogInvariant'
<1>1. PICK vital \in BOOLEAN : Store([id |-> tail, tick |-> tick, vital |-> vital])
  BY DEF Emit
<1> DEFINE record == [id |-> tail, tick |-> tick, vital |-> vital]
<1>2. record \in Records /\ record.id = tail
  BY DEF LogInvariant, Types, Records
<1> HIDE DEF record
<1>3. Store(record)
  BY <1>1 DEF record
<1>4. UNCHANGED <<tick, game, at, scratch, claimed, nextSeq, file, writer, said, written>>
  BY DEF Emit
<1>5. /\ ring' \in [0..Capacity-1 -> Records]
      /\ {head', tail', dropped', undeclared'} \subseteq Nat
      /\ Accounts'
  BY <1>2, <1>3, <1>4, StoreKeepsAccounts DEF LogInvariant
<1>6. Types'
  BY <1>4, <1>5 DEF LogInvariant, Types
<1>7. Hands'
  BY <1>4 DEF LogInvariant, Hands, RotationFailed, Emit
<1> QED BY <1>5, <1>6, <1>7 DEF LogInvariant

LEMMA BeginTickKeeps == ASSUME LogInvariant, BeginTick PROVE LogInvariant'
<1>1. /\ UNCHANGED <<game, at, scratch, claimed, nextSeq, file, writer, said, written>>
      /\ tick' = tick + 1
  BY DEF BeginTick
<1>2. tick' \in Nat
  BY <1>1 DEF LogInvariant, Types
<1>3. Hands'
  BY <1>1 DEF LogInvariant, Hands, RotationFailed, BeginTick
<1>4. CASE tick' % HeartbeatSteps = 0
  <2> DEFINE record == [id |-> tail, tick |-> tick', vital |-> TRUE]
  <2>1. record \in Records /\ record.id = tail
    BY <1>2 DEF LogInvariant, Types, Records
  <2>2. Store(record)
    BY <1>4 DEF BeginTick
  <2> HIDE DEF record
  <2>3. /\ ring' \in [0..Capacity-1 -> Records]
        /\ {head', tail', dropped', undeclared'} \subseteq Nat
        /\ Accounts'
    BY <1>1, <2>1, <2>2, StoreKeepsAccounts DEF LogInvariant
  <2>4. Types'
    BY <1>1, <1>2, <2>3 DEF LogInvariant, Types
  <2> QED BY <1>3, <2>3, <2>4 DEF LogInvariant
<1>5. CASE tick' % HeartbeatSteps # 0
  <2>1. UNCHANGED <<ring, counters>>
    BY <1>5 DEF BeginTick
  <2>2. Types'
    BY <1>1, <1>2, <2>1 DEF LogInvariant, Types
  <2>3. Accounts'
    BY <1>1, <2>1 DEF LogInvariant, Accounts, Pending, RotationFailed
  <2> QED BY <1>3, <2>2, <2>3 DEF LogInvariant
<1> QED BY <1>4, <1>5

LEMMA ShutdownKeeps == ASSUME LogInvariant, Shutdown PROVE LogInvariant'
<1>1. Types'
  BY DEF LogInvariant, Types, Shutdown
<1>2. Hands'
  BY DEF LogInvariant, Hands, Shutdown, RotationFailed
<1>3. Accounts'
  BY DEF LogInvariant, Accounts, Shutdown, Pending, RotationFailed
<1> QED BY <1>1, <1>2, <1>3 DEF LogInvariant

---------------------------------------------------------------------------
(* The queue                                                               *)

\* What is not written at once holds no vital record, if it should not.
LEMMA WriteKeepsBuffer ==
  ASSUME buffer \in Seq(LineSet), \A i \in DOMAIN buffer : ~buffer[i].vital,
         NEW lines \in Seq(LineSet), NEW sync \in BOOLEAN, Write(lines, sync),
         ~sync => \A i \in DOMAIN lines : ~lines[i].vital
  PROVE  buffer' \in Seq(LineSet) /\ \A i \in DOMAIN buffer' : ~buffer'[i].vital
<1>1. CASE buffer' = buffer
  BY <1>1
<1>2. CASE buffer' = <<>>
  BY <1>2
<1>3. CASE ~sync /\ buffer' = buffer \o lines
  <2>1. buffer' \in Seq(LineSet)
    BY <1>3
  <2>2. ASSUME NEW i \in DOMAIN buffer' PROVE ~buffer'[i].vital
    <3>1. i \in 1..Len(buffer) + Len(lines)
      BY <1>3, <2>2
    <3>2. CASE i <= Len(buffer)
      BY <1>3, <3>1, <3>2
    <3>3. CASE i > Len(buffer)
      <4>1. i - Len(buffer) \in DOMAIN lines /\ buffer'[i] = lines[i - Len(buffer)]
        BY <1>3, <3>1, <3>3
      <4> QED BY <1>3, <4>1
    <3> QED BY <3>1, <3>2, <3>3
  <2> QED BY <2>1, <2>2
<1> QED BY <1>1, <1>2, <1>3 DEF Write

LEMMA StampIsTick == ASSUME Types PROVE Stamp \in Nat
<1>1. CASE scratch = <<>>
  BY <1>1 DEF Stamp, Types
<1>2. CASE scratch # <<>>
  <2>1. scratch[1] \in Records
    BY <1>2 DEF Types
  <2> QED BY <1>2, <2>1 DEF Stamp, Records
<1> QED BY <1>1, <1>2

LEMMA DrainBeginKeeps == ASSUME LogInvariant, DrainBegin PROVE LogInvariant'
<1> USE CapacityPositive
<1>1. /\ head \in Nat /\ tail \in Nat /\ dropped \in Nat /\ undeclared \in Nat /\ written \in Nat
      /\ ring \in [0..Capacity-1 -> Records]
      /\ Pending \in 0..Capacity /\ Pending > 0 /\ scratch = <<>>
  BY DEF LogInvariant, Types, Hands, Accounts, DrainBegin
<1>2. BatchSize \in Nat /\ BatchSize <= Pending
  BY <1>1 DEF BatchSize
<1>3. scratch' \in Seq(Records) /\ Len(scratch') = BatchSize
  <2>1. \A i \in 1..BatchSize : head + i - 1 \in Nat
    BY <1>1, <1>2
  <2>2. \A i \in 1..BatchSize : (head + i - 1) % Capacity \in 0..Capacity-1
    BY <2>1, DivMod
  <2>3. \A i \in 1..BatchSize : ring[(head + i - 1) % Capacity] \in Records
    BY <1>1, <2>2
  <2>4. scratch' = [i \in 1..BatchSize |-> ring[(head + i - 1) % Capacity]]
    BY DEF DrainBegin
  <2> QED BY <1>2, <2>3, <2>4
<1>4. /\ head' = head + BatchSize /\ claimed' = undeclared /\ undeclared' = 0 /\ at' = "claimed"
      /\ UNCHANGED <<ring, tail, dropped, tick, game, nextSeq, file, writer, said, written>>
  BY DEF DrainBegin
<1>5. Types'
  BY <1>1, <1>2, <1>3, <1>4 DEF LogInvariant, Types
<1>6. Hands'
  BY <1>4 DEF LogInvariant, Hands, RotationFailed, DrainBegin
<1>7. Accounts'
  <2>1. Pending' \in 0..Capacity
    BY <1>1, <1>2, <1>4 DEF Pending
  <2>2. \A i \in head'..tail'-1 : ring'[i % Capacity].id = i
    <3>1. \A i \in head'..tail'-1 : i \in head..tail-1
      BY <1>1, <1>2, <1>4
    <3>2. ring' = ring
      BY <1>4
    <3> QED BY <3>1, <3>2, Zenon DEF LogInvariant, Accounts
  <2>3. ~(undeclared' > 0)
    BY <1>4
  <2>4. ~RotationFailed' => head' = written' + Len(scratch') + dropped'
    BY <1>1, <1>2, <1>3, <1>4 DEF LogInvariant, Accounts, RotationFailed
  <2>5. \A i \in DOMAIN buffer' : ~buffer'[i].vital
    BY <1>4 DEF LogInvariant, Accounts
  <2> QED BY <2>1, <2>2, <2>3, <2>4, <2>5 DEF Accounts
<1> QED BY <1>5, <1>6, <1>7 DEF LogInvariant

\* A batch no file can take is counted, whatever else the step does.
LEMMA CountLossKeeps ==
  ASSUME LogInvariant, CountLoss, file' = "failed",
         UNCHANGED <<ring, head, tail, undeclared, tick, game, nextSeq, writer, written>>
  PROVE  LogInvariant'
<1>1. Types'
  BY DEF LogInvariant, Types, CountLoss
<1>2. Hands'
  BY DEF LogInvariant, Hands, CountLoss, RotationFailed
<1>3. ~RotationFailed' => head' = written' + Len(scratch') + dropped'
  <2>1. ~RotationFailed' => ~RotationFailed
    BY DEF RotationFailed
  <2>2. /\ head \in Nat /\ dropped \in Nat /\ written \in Nat /\ Len(scratch) \in Nat
        /\ Len(scratch') = 0
    BY DEF LogInvariant, Types, CountLoss
  <2> QED BY <2>1, <2>2 DEF LogInvariant, Accounts, CountLoss
<1>4. Accounts'
  BY <1>3 DEF LogInvariant, Accounts, Pending
<1> QED BY <1>1, <1>2, <1>4 DEF LogInvariant

LEMMA OpenFirstFileKeeps == ASSUME LogInvariant, OpenFirstFile PROVE LogInvariant'
<1>1. CASE file' = "open"
  <2>1. /\ handle' = TRUE /\ nextSeq' = nextSeq + 1
        /\ UNCHANGED <<dropped, scratch, claimed, at>>
        /\ UNCHANGED <<ring, head, tail, undeclared, tick, game, rotation, buffer, written>>
    BY <1>1 DEF OpenFirstFile
  <2>2. Types'
    BY <2>1 DEF LogInvariant, Types
  <2>3. file = "none" /\ ~RotationFailed
    BY DEF OpenFirstFile, RotationFailed
  <2>4. Hands'
    BY <1>1, <2>1, <2>3 DEF LogInvariant, Hands, RotationFailed
  <2>5. Accounts'
    BY <1>1, <2>1, <2>3 DEF LogInvariant, Accounts, Pending, RotationFailed
  <2> QED BY <2>2, <2>4, <2>5 DEF LogInvariant
<1>2. CASE file' = "failed"
  <2>1. /\ CountLoss
        /\ UNCHANGED <<ring, head, tail, undeclared, tick, game, nextSeq, writer, written>>
    BY <1>2 DEF OpenFirstFile
  <2> QED BY <1>2, <2>1, CountLossKeeps
<1> QED BY <1>1, <1>2 DEF OpenFirstFile

LEMMA DrainRefusedKeeps == ASSUME LogInvariant, DrainRefused PROVE LogInvariant'
  BY CountLossKeeps DEF DrainRefused

LEMMA RotateFileKeeps == ASSUME LogInvariant, RotateFile PROVE LogInvariant'
<1>1. /\ rotation' = rotation + 1 /\ buffer' = <<>> /\ at' = "rotated" /\ file = "open" /\ at = "claimed"
      /\ UNCHANGED <<ring, counters, tick, game, scratch, claimed, written>>
  BY DEF RotateFile
<1>2. \/ nextSeq' = nextSeq + 2 /\ file' = file /\ handle' = handle
      \/ nextSeq' = nextSeq + 1 /\ file' = "failed" /\ handle' = FALSE
  BY DEF RotateFile
<1>3. Types'
  <2>1. nextSeq \in Nat /\ rotation \in Nat /\ handle \in BOOLEAN
    BY DEF LogInvariant, Types
  <2>2. nextSeq' \in Nat /\ rotation' \in Nat
    BY <1>1, <1>2, <2>1
  <2>6. handle' \in BOOLEAN
    BY <1>2, <2>1, Zenon
  <2>3. buffer' \in Seq(LineSet)
    BY <1>1
  <2>4. {head', tail', dropped', undeclared', tick', claimed', written'} \subseteq Nat
    BY <1>1 DEF LogInvariant, Types
  <2>5. ring' \in [0..Capacity-1 -> Records] /\ scratch' \in Seq(Records)
    BY <1>1 DEF LogInvariant, Types
  <2> QED BY <2>2, <2>3, <2>4, <2>5, <2>6 DEF Types
<1>4. Hands'
  BY <1>1, <1>2 DEF LogInvariant, Types, Hands, RotationFailed
<1>5. Accounts'
  BY <1>1, <1>2 DEF LogInvariant, Types, Accounts, Pending, RotationFailed
<1> QED BY <1>3, <1>4, <1>5 DEF LogInvariant

LEMMA WriteBatchKeeps == ASSUME LogInvariant, WriteBatch PROVE LogInvariant'
<1> DEFINE declared == IF claimed = 0 THEN <<>>
                       ELSE <<Line("dropped", nextSeq, rotation, Stamp, claimed)>>
           first    == nextSeq + Len(declared)
           bodies   == [i \in 1..Len(scratch) |-> BodyLine(scratch[i], first + i - 1)]
<1>1. /\ Write(declared \o bodies, WantsSync)
      /\ nextSeq' = first + Len(scratch)
      /\ written' = (IF handle THEN written + Len(scratch) ELSE written)
      /\ scratch' = <<>> /\ claimed' = 0 /\ at' = "idle"
      /\ UNCHANGED <<ring, counters, tick, game, file, handle, rotation, said>>
  BY DEF WriteBatch
<1>2. /\ nextSeq \in Nat /\ rotation \in Nat /\ claimed \in Nat /\ written \in Nat /\ head \in Nat
      /\ dropped \in Nat /\ scratch \in Seq(Records) /\ Len(scratch) \in Nat /\ handle \in BOOLEAN
  BY DEF LogInvariant, Types
<1>3. /\ declared \in Seq(LineSet) /\ Len(declared) \in Nat
      /\ \A i \in DOMAIN declared : ~declared[i].vital
  <2>1. Line("dropped", nextSeq, rotation, Stamp, claimed) \in LineSet
    BY <1>2, StampIsTick DEF LogInvariant, Line, LineSet
  <2>2. ~Line("dropped", nextSeq, rotation, Stamp, claimed).vital
    BY DEF Line
  <2> QED BY <2>1, <2>2
<1>4. first \in Nat
  BY <1>2, <1>3
<1> HIDE DEF declared, first
<1>5. /\ bodies \in Seq(LineSet) /\ Len(bodies) = Len(scratch)
      /\ \A i \in DOMAIN bodies : bodies[i].vital = scratch[i].vital
  <2>1. ASSUME NEW i \in 1..Len(scratch)
        PROVE  /\ BodyLine(scratch[i], first + i - 1) \in LineSet
               /\ BodyLine(scratch[i], first + i - 1).vital = scratch[i].vital
    <3>1. scratch[i] \in Records /\ first + i - 1 \in Nat
      BY <1>2, <1>4
    <3> QED BY <1>2, <3>1 DEF BodyLine, Line, LineSet, Records
  <2> QED BY <1>2, <2>1
<1> HIDE DEF bodies
<1>6. WantsSync \in BOOLEAN
  BY DEF WantsSync
<1>7. ~WantsSync => \A i \in DOMAIN (declared \o bodies) : ~(declared \o bodies)[i].vital
  <2> SUFFICES ASSUME ~WantsSync, NEW i \in DOMAIN (declared \o bodies)
               PROVE  ~(declared \o bodies)[i].vital
    OBVIOUS
  <2>1. i \in 1..Len(declared) + Len(bodies)
    BY <1>3, <1>5
  <2>2. CASE i <= Len(declared)
    BY <1>3, <1>5, <2>1, <2>2
  <2>3. CASE i > Len(declared)
    <3>1. /\ i - Len(declared) \in DOMAIN bodies /\ i - Len(declared) \in DOMAIN scratch
          /\ (declared \o bodies)[i] = bodies[i - Len(declared)]
      BY <1>2, <1>3, <1>5, <2>1, <2>3
    <3> QED BY <1>5, <3>1 DEF WantsSync
  <2> QED BY <1>3, <2>1, <2>2, <2>3
<1>8. buffer' \in Seq(LineSet) /\ \A i \in DOMAIN buffer' : ~buffer'[i].vital
  <2>1. declared \o bodies \in Seq(LineSet)
    BY <1>3, <1>5
  <2> QED BY <1>1, <1>6, <1>7, <2>1, WriteKeepsBuffer DEF LogInvariant, Types, Accounts
<1>9. Types'
  BY <1>1, <1>2, <1>4, <1>8 DEF LogInvariant, Types
<1>10. Hands'
  BY <1>1 DEF LogInvariant, Hands, RotationFailed
<1>11. ~RotationFailed' => head' = written' + Len(scratch') + dropped'
  <2>1. RotationFailed' <=> RotationFailed
    BY <1>1 DEF RotationFailed
  <2>2. ~RotationFailed => handle
    BY DEF LogInvariant, Hands, WriteBatch, Alive
  <2>3. Len(scratch') = 0
    BY <1>1
  <2> QED BY <1>1, <1>2, <2>1, <2>2, <2>3 DEF LogInvariant, Accounts
<1>12. Accounts'
  BY <1>1, <1>8, <1>11 DEF LogInvariant, Accounts, Pending
<1> QED BY <1>9, <1>10, <1>12 DEF LogInvariant

LEMMA FlushDoneKeeps == ASSUME LogInvariant, FlushDone PROVE LogInvariant'
<1>1. /\ Write(<<>>, TRUE)
      /\ game' = "closing" /\ game = "flushing"
      /\ UNCHANGED <<ring, counters, tick, at, scratch, claimed, nextSeq, file, handle, rotation, said, written>>
  BY DEF FlushDone
<1>2. buffer' \in Seq(LineSet) /\ \A i \in DOMAIN buffer' : ~buffer'[i].vital
  <2>1. <<>> \in Seq(LineSet)
    OBVIOUS
  <2> QED BY <1>1, <2>1, WriteKeepsBuffer DEF LogInvariant, Types, Accounts
<1>3. Types'
  BY <1>1, <1>2 DEF LogInvariant, Types
<1>4. Hands'
  <2>1. head \in Nat /\ tail \in Nat /\ Pending \in 0..Capacity /\ ~(Pending > 0)
    BY DEF LogInvariant, Types, Accounts, FlushDone, HasPendingWork
  <2>2. tail = head /\ at = "idle"
    BY <2>1, CapacityPositive DEF Pending, FlushDone
  <2> QED BY <1>1, <2>2 DEF LogInvariant, Hands, RotationFailed
<1>5. Accounts'
  BY <1>1, <1>2 DEF LogInvariant, Accounts, Pending, RotationFailed
<1> QED BY <1>3, <1>4, <1>5 DEF LogInvariant

LEMMA WriteEndKeeps == ASSUME LogInvariant, WriteEnd PROVE LogInvariant'
<1>1. /\ game' = "ended" /\ game = "closing"
      /\ UNCHANGED <<ring, counters, tick, at, scratch, claimed, file, said, written, rotation>>
  BY DEF WriteEnd
<1>2. /\ nextSeq' \in Nat /\ handle' \in BOOLEAN
      /\ buffer' \in Seq(LineSet) /\ \A i \in DOMAIN buffer' : ~buffer'[i].vital
  <2>1. nextSeq \in Nat /\ handle \in BOOLEAN /\ buffer \in Seq(LineSet)
    BY DEF LogInvariant, Types
  <2>2. nextSeq' = nextSeq \/ nextSeq' = nextSeq + 1
    BY DEF WriteEnd
  <2>3. handle' = handle \/ handle' = FALSE
    BY Zenon DEF WriteEnd
  <2>4. buffer' = buffer \/ buffer' = <<>>
    BY DEF WriteEnd, Write
  <2>5. nextSeq' \in Nat
    BY <2>1, <2>2
  <2>6. handle' \in BOOLEAN
    BY <2>1, <2>3, Zenon
  <2>7. buffer' \in Seq(LineSet) /\ \A i \in DOMAIN buffer' : ~buffer'[i].vital
    <3>1. buffer \in Seq(LineSet) /\ \A i \in DOMAIN buffer : ~buffer[i].vital
      BY DEF LogInvariant, Types, Accounts
    <3>2. CASE buffer' = buffer
      BY <3>1, <3>2
    <3>3. CASE buffer' = <<>>
      BY <3>3
    <3> QED BY <2>4, <3>2, <3>3
  <2> QED BY <2>5, <2>6, <2>7
<1>3. Types'
  BY <1>1, <1>2 DEF LogInvariant, Types
<1>4. Hands'
  BY <1>1 DEF LogInvariant, Hands, RotationFailed
<1>5. Accounts'
  BY <1>1, <1>2 DEF LogInvariant, Accounts, Pending, RotationFailed
<1> QED BY <1>3, <1>4, <1>5 DEF LogInvariant

LEMMA CrashKeeps == ASSUME LogInvariant, Crash PROVE LogInvariant'
<1>1. /\ game' = "crashed" /\ buffer' = <<>>
      /\ UNCHANGED <<ring, counters, tick, at, scratch, claimed, nextSeq, file, handle, rotation, written>>
  BY DEF Crash
<1>2. Types'
  BY <1>1 DEF LogInvariant, Types
<1>3. Hands'
  BY <1>1 DEF LogInvariant, Hands, RotationFailed, Crash, Alive
<1>4. Accounts'
  BY <1>1 DEF LogInvariant, Accounts, Pending, RotationFailed
<1> QED BY <1>2, <1>3, <1>4 DEF LogInvariant

---------------------------------------------------------------------------
(* Every record is accounted for                                           *)

LEMMA InitHolds == Init => LogInvariant
<1> SUFFICES ASSUME Init PROVE LogInvariant
  OBVIOUS
<1> USE CapacityPositive
<1>1. Types
  <2>1. Empty \in Records
    BY DEF Empty, Records
  <2>2. ring \in [0..Capacity-1 -> Records]
    BY <2>1 DEF Init
  <2>3. scratch \in Seq(Records) /\ buffer \in Seq(LineSet)
    BY DEF Init
  <2>4. handle \in BOOLEAN
    BY DEF Init
  <2> QED BY <2>2, <2>3, <2>4 DEF Init, Types
<1>2. Hands
  BY DEF Init, Hands
<1>3. Accounts
  BY DEF Init, Accounts, Pending
<1> QED BY <1>1, <1>2, <1>3 DEF LogInvariant

LEMMA StepKeeps == LogInvariant /\ [Next]_vars => LogInvariant'
<1> SUFFICES ASSUME LogInvariant, [Next]_vars PROVE LogInvariant'
  OBVIOUS
<1>1. CASE Emit
  BY <1>1, EmitKeeps
<1>2. CASE BeginTick
  BY <1>2, BeginTickKeeps
<1>3. CASE Shutdown
  BY <1>3, ShutdownKeeps
<1>4. CASE DrainBegin
  BY <1>4, DrainBeginKeeps
<1>5. CASE OpenFirstFile
  BY <1>5, OpenFirstFileKeeps
<1>6. CASE DrainRefused
  BY <1>6, DrainRefusedKeeps
<1>7. CASE RotateFile
  BY <1>7, RotateFileKeeps
<1>8. CASE WriteBatch
  BY <1>8, WriteBatchKeeps
<1>9. CASE FlushDone
  BY <1>9, FlushDoneKeeps
<1>10. CASE WriteEnd
  BY <1>10, WriteEndKeeps
<1>11. CASE Crash
  BY <1>11, CrashKeeps
<1>12. CASE UNCHANGED vars
  <2>1. UNCHANGED <<ring, head, tail, dropped, undeclared, tick, game, at, scratch, claimed,
                    nextSeq, file, handle, rotation, buffer, written>>
    BY <1>12 DEF vars
  <2> QED BY <2>1 DEF LogInvariant, Types, Hands, Accounts, Pending, RotationFailed
<1> QED BY <1>1, <1>2, <1>3, <1>4, <1>5, <1>6, <1>7, <1>8, <1>9, <1>10, <1>11, <1>12 DEF Next, Drain

\* Every record is in the ring, in the batch on its way, written or counted as
\* dropped, and a vital one waits in no buffer (storeLocked, drainNow,
\* shouldFlush): for rings, batches, files and buffers of any size.
THEOREM RecordsAreAccounted == Spec => []RecordsAccounted
<1>1. LogInvariant => RecordsAccounted
  <2> SUFFICES ASSUME LogInvariant PROVE RecordsAccounted
    OBVIOUS
  <2>1. ~RotationFailed /\ game = "ended" => tail - written = dropped
    <3>1. /\ head \in Nat /\ tail \in Nat /\ written \in Nat /\ dropped \in Nat
          /\ scratch = <<>> => Len(scratch) = 0
      BY DEF LogInvariant, Types
    <3>2. game = "ended" => tail = head /\ scratch = <<>>
      BY DEF LogInvariant, Hands
    <3> QED BY <3>1, <3>2 DEF LogInvariant, Accounts
  <2> QED BY <2>1 DEF LogInvariant, Accounts, RecordsAccounted
<1> QED BY <1>1, InitHolds, StepKeeps, PTL DEF Spec

---------------------------------------------------------------------------
(* The files: sequences of lines                                           *)

\* b can be the line after a
Follows(a, b) ==
  /\ b.seq = a.seq + 1
  /\ a.tick <= b.tick
  /\ a.name # "end"
  /\ a.name = "dropped" => b.name = "body"
  /\ IF a.name = "rotate" THEN b.name = "begin" /\ b.rot = a.n ELSE b.rot = a.rot

NoBody(L, e) == \A k \in 1..e : L[k].name # "body"

\* i is the last record among the first e lines
Newest(L, e, i) ==
  /\ i \in 1..e /\ L[i].name = "body"
  /\ \A k \in 1..e : L[k].name = "body" => k <= i

\* p is the number after that of the last record among the first e lines
NextNumber(L, e, p) == NoBody(L, e) \/ \E i \in 1..e : Newest(L, e, i) /\ L[i].n + 1 = p

Lost(line) == IF line.name = "dropped" THEN line.n ELSE 0

Chained(L) == \A i \in 1..Len(L)-1 : Follows(L[i], L[i+1])

Counted(L) == \A j \in 2..Len(L) :
  L[j].name \in {"body", "end"} => NextNumber(L, j-1, L[j].n - Lost(L[j-1]))

Honest(L) == Chained(L) /\ Counted(L)

LEMMA NextNumberAgrees ==
  ASSUME NEW L, NEW M, NEW e, NEW p, NextNumber(L, e, p), \A i \in 1..e : M[i] = L[i]
  PROVE  NextNumber(M, e, p)
<1>1. CASE NoBody(L, e)
  BY <1>1, Zenon DEF NextNumber, NoBody
<1>2. ASSUME NEW i \in 1..e, Newest(L, e, i), L[i].n + 1 = p PROVE NextNumber(M, e, p)
  BY <1>2, Zenon DEF NextNumber, Newest
<1> QED BY <1>1, <1>2, Zenon DEF NextNumber

\* The numbers of a file are those of its rest, where there is a record left.
LEMMA NextNumberOfRest ==
  ASSUME NEW L, NEW M, NEW k \in Nat, NEW e \in Nat, NEW p, NextNumber(L, k + e, p),
         \A i \in 1..e : M[i] = L[k + i]
  PROVE  NextNumber(M, e, p)
<1>1. \A i \in 1..e : k + i \in 1..k + e
  OBVIOUS
<1>2. CASE NoBody(L, k + e)
  <2>1. NoBody(M, e)
    BY <1>1, <1>2, Zenon DEF NoBody
  <2> QED BY <2>1, Zenon DEF NextNumber
<1>3. ASSUME NEW i \in 1..k+e, Newest(L, k + e, i), L[i].n + 1 = p
      PROVE  NextNumber(M, e, p)
  <2>1. /\ L[i].name = "body"
        /\ \A j \in 1..e : M[j].name = "body" => k + j <= i
    BY <1>1, <1>3, Zenon DEF Newest
  <2>2. CASE i > k
    <3>1. i - k \in 1..e /\ k + (i - k) = i
      BY <1>3, <2>2
    <3>2. M[i - k] = L[i]
      BY <3>1, Zenon
    <3>3. \A j \in 1..e : M[j].name = "body" => j <= i - k
      <4>1. \A j \in 1..e : k + j <= i => j <= i - k
        BY <1>3
      <4> QED BY <2>1, <4>1, Zenon
    <3>4. Newest(M, e, i - k) /\ M[i - k].n + 1 = p
      BY <1>3, <2>1, <3>1, <3>2, <3>3, Zenon DEF Newest
    <3> QED BY <3>1, <3>4, Zenon DEF NextNumber
  <2>3. CASE ~(i > k)
    <3>1. \A j \in 1..e : ~(k + j <= i)
      BY <1>3, <2>3
    <3>2. NoBody(M, e)
      BY <2>1, <3>1, Zenon DEF NoBody
    <3> QED BY <3>2, Zenon DEF NextNumber
  <2> QED BY <2>2, <2>3
<1> QED BY <1>2, <1>3, Zenon DEF NextNumber

\* What is left of honest files once the oldest lines are gone is honest.
LEMMA RestIsHonest ==
  ASSUME NEW L \in Seq(LineSet), NEW M \in Seq(LineSet), NEW k \in 0..Len(L), Honest(L),
         Len(M) = Len(L) - k, \A i \in 1..Len(M) : M[i] = L[k + i]
  PROVE  Honest(M)
<1>1. k \in Nat /\ Len(M) \in Nat /\ Len(L) \in Nat
  OBVIOUS
<1>2. ASSUME NEW i \in 1..Len(M)-1 PROVE Follows(M[i], M[i+1])
  <2>1. i \in 1..Len(M) /\ i + 1 \in 1..Len(M) /\ k + i \in 1..Len(L)-1 /\ k + (i + 1) = (k + i) + 1
    BY <1>1
  <2>2. M[i] = L[k + i] /\ M[i+1] = L[k + (i + 1)]
    BY <2>1, Zenon
  <2>3. Follows(L[k + i], L[(k + i) + 1])
    BY <2>1, Zenon DEF Honest, Chained
  <2> QED BY <2>1, <2>2, <2>3, Zenon
<1>3. ASSUME NEW j \in 2..Len(M), M[j].name \in {"body", "end"}
      PROVE  NextNumber(M, j-1, M[j].n - Lost(M[j-1]))
  <2>1. /\ j \in 1..Len(M) /\ j - 1 \in 1..Len(M) /\ j - 1 \in Nat
        /\ k + j \in 2..Len(L) /\ k + (j - 1) = (k + j) - 1
        /\ \A i \in 1..j-1 : i \in 1..Len(M)
    BY <1>1
  <2>2. M[j] = L[k + j] /\ M[j-1] = L[(k + j) - 1]
    BY <2>1, Zenon
  <2>3. NextNumber(L, (k + j) - 1, L[k + j].n - Lost(L[(k + j) - 1]))
    BY <1>3, <2>1, <2>2, Zenon DEF Honest, Counted
  <2>4. NextNumber(L, k + (j - 1), M[j].n - Lost(M[j-1]))
    BY <2>1, <2>2, <2>3, Zenon
  <2>5. \A i \in 1..j-1 : M[i] = L[k + i]
    BY <2>1, Zenon
  <2> QED BY <1>1, <2>1, <2>4, <2>5, NextNumberOfRest, Zenon
<1> QED BY <1>2, <1>3, Zenon DEF Honest, Chained, Counted

\* Honest files stay honest when lines are added, if each new line fits the
\* lines before it.
LEMMA HonestGrows ==
  ASSUME NEW L \in Seq(LineSet), NEW M \in Seq(LineSet), Honest(L), Len(L) <= Len(M),
         \A i \in 1..Len(L) : M[i] = L[i],
         \A j \in Len(L)+1..Len(M) : j > 1 =>
           /\ Follows(M[j-1], M[j])
           /\ M[j].name \in {"body", "end"} => NextNumber(M, j-1, M[j].n - Lost(M[j-1]))
  PROVE  Honest(M)
<1>1. Len(M) \in Nat /\ Len(L) \in Nat
  OBVIOUS
<1>2. ASSUME NEW i \in 1..Len(M)-1 PROVE Follows(M[i], M[i+1])
  <2>1. CASE i < Len(L)
    <3>1. i \in 1..Len(L)-1 /\ i \in 1..Len(L) /\ i + 1 \in 1..Len(L)
      BY <1>1, <2>1
    <3> QED BY <3>1, Zenon DEF Honest, Chained
  <2>2. CASE ~(i < Len(L))
    <3>1. i + 1 \in Len(L)+1..Len(M) /\ i + 1 > 1 /\ (i + 1) - 1 = i
      BY <1>1, <2>2
    <3>2. Follows(M[(i + 1) - 1], M[i + 1])
      BY <3>1, Zenon
    <3> QED BY <3>1, <3>2, Zenon
  <2> QED BY <2>1, <2>2
<1>3. ASSUME NEW j \in 2..Len(M), M[j].name \in {"body", "end"}
      PROVE  NextNumber(M, j-1, M[j].n - Lost(M[j-1]))
  <2>1. CASE j <= Len(L)
    <3>1. j \in 2..Len(L) /\ j \in 1..Len(L) /\ j - 1 \in 1..Len(L) /\ \A i \in 1..j-1 : i \in 1..Len(L)
      BY <1>1, <2>1
    <3>2. NextNumber(L, j-1, M[j].n - Lost(M[j-1]))
      BY <1>3, <3>1, Zenon DEF Honest, Counted
    <3>3. \A i \in 1..j-1 : M[i] = L[i]
      BY <3>1, Zenon
    <3> QED BY <3>2, <3>3, NextNumberAgrees, Zenon
  <2>2. CASE ~(j <= Len(L))
    <3>1. j \in Len(L)+1..Len(M) /\ j > 1
      BY <1>1, <2>2
    <3> QED BY <1>3, <3>1, Zenon
  <2> QED BY <2>1, <2>2
<1> QED BY <1>2, <1>3, Zenon DEF Honest, Chained, Counted

LEMMA LineAdded ==
  ASSUME NEW L \in Seq(LineSet), NEW x \in LineSet, L # <<>>, Honest(L), Follows(L[Len(L)], x),
         x.name \in {"body", "end"} => NextNumber(L, Len(L), x.n - Lost(L[Len(L)])),
         NEW p, NextNumber(L, Len(L), p)
  PROVE  /\ L \o <<x>> \in Seq(LineSet)
         /\ Len(L \o <<x>>) = Len(L) + 1
         /\ (L \o <<x>>)[Len(L) + 1] = x
         /\ Honest(L \o <<x>>)
         /\ x.name # "body" => NextNumber(L \o <<x>>, Len(L) + 1, p)
<1> DEFINE M == L \o <<x>>
<1>1. /\ M \in Seq(LineSet) /\ Len(M) = Len(L) + 1 /\ Len(L) \in Nat \ {0}
      /\ M[Len(L) + 1] = x /\ \A i \in 1..Len(L) : M[i] = L[i]
  OBVIOUS
<1> HIDE DEF M
<1>2. Len(L) \in 1..Len(L) /\ Len(L) <= Len(M)
  BY <1>1
<1>3. M[Len(L)] = L[Len(L)]
  BY <1>1, <1>2, Zenon
<1>4. ASSUME NEW q, NextNumber(L, Len(L), q) PROVE NextNumber(M, Len(L), q)
  BY <1>1, <1>4, NextNumberAgrees, Zenon
<1>5. ASSUME NEW j \in Len(L)+1..Len(M)
      PROVE  /\ Follows(M[j-1], M[j])
             /\ M[j].name \in {"body", "end"} => NextNumber(M, j-1, M[j].n - Lost(M[j-1]))
  <2>1. j = Len(L) + 1 /\ j - 1 = Len(L)
    BY <1>1
  <2>2. M[j] = x /\ M[j-1] = L[Len(L)]
    BY <1>1, <1>3, <2>1, Zenon
  <2>3. Follows(M[j-1], M[j])
    BY <2>2, Zenon
  <2>4. ASSUME M[j].name \in {"body", "end"} PROVE NextNumber(M, j-1, M[j].n - Lost(M[j-1]))
    <3>1. NextNumber(L, Len(L), M[j].n - Lost(M[j-1]))
      BY <2>2, <2>4, Zenon
    <3> QED BY <1>4, <2>1, <3>1, Zenon
  <2> QED BY <2>3, <2>4, Zenon
<1>6. Honest(M)
  BY <1>1, <1>2, <1>5, HonestGrows, Zenon
<1>7. ASSUME x.name # "body" PROVE NextNumber(M, Len(L) + 1, p)
  <2>1. \A i \in 1..Len(L)+1 : i \in 1..Len(L) \/ i = Len(L) + 1
    BY <1>1
  <2>2. \A i \in 1..Len(L) : i \in 1..Len(L)+1
    BY <1>1
  <2>3. CASE NoBody(L, Len(L))
    <3>1. NoBody(M, Len(L) + 1)
      BY <1>1, <1>7, <2>1, <2>3, Zenon DEF NoBody
    <3> QED BY <3>1, Zenon DEF NextNumber
  <2>4. ASSUME NEW i \in 1..Len(L), Newest(L, Len(L), i), L[i].n + 1 = p
        PROVE  NextNumber(M, Len(L) + 1, p)
    <3>1. Newest(M, Len(L) + 1, i) /\ M[i].n + 1 = p /\ i \in 1..Len(L)+1
      BY <1>1, <1>7, <2>1, <2>2, <2>4, Zenon DEF Newest
    <3> QED BY <3>1, Zenon DEF NextNumber
  <2> QED BY <2>3, <2>4, Zenon DEF NextNumber
<1> QED BY <1>1, <1>6, <1>7, Zenon DEF M

\* A batch: records numbered and stamped one after the other.
LEMMA BodiesAdded ==
  ASSUME NEW L \in Seq(LineSet), NEW B \in Seq(LineSet), L # <<>>, B # <<>>, Honest(L),
         \A i \in 1..Len(B) : B[i].name = "body",
         Follows(L[Len(L)], B[1]), Chained(B),
         NEW p \in Int, \A i \in 1..Len(B) : B[i].n = p + i - 1,
         NextNumber(L, Len(L), p - Lost(L[Len(L)]))
  PROVE  /\ Honest(L \o B)
         /\ NextNumber(L \o B, Len(L) + Len(B), p + Len(B))
<1> DEFINE M == L \o B  l == Len(L)  b == Len(B)
<1>1. /\ M \in Seq(LineSet) /\ Len(M) = l + b /\ l \in Nat \ {0} /\ b \in Nat \ {0}
      /\ \A i \in 1..l : M[i] = L[i]
      /\ \A i \in 1..b : M[l + i] = B[i]
  OBVIOUS
<1> HIDE DEF M, l, b
<1>2. l \in 1..l /\ 1 \in 1..b /\ b \in 1..b /\ l <= Len(M)
  BY <1>1
<1>3. M[l] = L[l] /\ M[l + 1] = B[1]
  BY <1>1, <1>2, Zenon
<1>4. ASSUME NEW j \in l+1..Len(M), M[j].name = "body"
      PROVE  NextNumber(M, j, M[j].n + 1)
  <2>1. j \in 1..j /\ \A k \in 1..j : k <= j
    BY <1>1
  <2>2. Newest(M, j, j)
    BY <1>4, <2>1, Zenon DEF Newest
  <2> QED BY <2>1, <2>2, Zenon DEF NextNumber
<1>5. ASSUME NEW j \in l+1..Len(M)
      PROVE  /\ Follows(M[j-1], M[j])
             /\ M[j].name \in {"body", "end"} => NextNumber(M, j-1, M[j].n - Lost(M[j-1]))
  <2>1. CASE j = l + 1
    <3>1. j - 1 = l
      BY <1>1, <2>1
    <3>2. M[j] = B[1] /\ M[j-1] = L[l]
      BY <1>3, <2>1, <3>1, Zenon
    <3>3. B[1].n = p
      BY <1>1, <1>2 DEF b
    <3>4. NextNumber(L, l, p - Lost(L[l]))
      BY DEF l
    <3>5. NextNumber(M, l, p - Lost(L[l]))
      BY <1>1, <3>4, NextNumberAgrees, Zenon
    <3>6. Follows(L[l], B[1])
      BY DEF l
    <3> QED BY <3>1, <3>2, <3>3, <3>5, <3>6, Zenon
  <2>2. CASE j # l + 1
    <3>1. PICK i \in 1..b-1 : i \in 1..b /\ i + 1 \in 1..b /\ j = l + (i + 1) /\ j - 1 = l + i
                              /\ j - 1 \in l+1..Len(M)
      <4>1. j - 1 - l \in 1..b-1 /\ j = l + ((j - 1 - l) + 1) /\ j - 1 = l + (j - 1 - l)
            /\ j - 1 \in l+1..Len(M) /\ j - 1 - l \in 1..b /\ (j - 1 - l) + 1 \in 1..b
        BY <1>1, <2>2
      <4> QED BY <4>1, Zenon
    <3>2. M[j] = B[i+1] /\ M[j-1] = B[i]
      BY <1>1, <3>1, Zenon
    <3>3. Follows(B[i], B[i+1])
      BY <3>1 DEF Chained, b
    <3>4. B[i].name = "body" /\ B[i].n = p + i - 1 /\ B[i+1].n = p + (i + 1) - 1
      BY <3>1 DEF b
    <3>5. B[i].n + 1 = B[i+1].n - Lost(B[i])
      BY <3>1, <3>4 DEF Lost
    <3>6. NextNumber(M, j-1, M[j-1].n + 1)
      BY <1>4, <3>1, <3>2, <3>4, Zenon
    <3> QED BY <3>2, <3>3, <3>5, <3>6, Zenon
  <2> QED BY <2>1, <2>2
<1>6. Honest(M)
  <2>1. /\ l <= Len(M) /\ \A i \in 1..l : M[i] = L[i]
    BY <1>1, <1>2, Zenon
  <2> QED BY <1>1, <1>5, <2>1, HonestGrows, Zenon DEF l
<1>7. NextNumber(M, l + b, p + b)
  <2>1. l + b \in l+1..Len(M)
    BY <1>1
  <2>2. M[l + b] = B[b] /\ B[b].name = "body" /\ B[b].n = p + b - 1
    <3>1. M[l + b] = B[b]
      BY <1>1, <1>2, Zenon
    <3> QED BY <1>2, <3>1 DEF b
  <2>3. B[b].n + 1 = p + b
    BY <1>1, <2>2
  <2> QED BY <1>4, <2>1, <2>2, <2>3, Zenon
<1> QED BY <1>6, <1>7, Zenon DEF M, l, b

\* The parts above make a file honest.
LEMMA HonestFiles ==
  ASSUME Lines \in Seq(LineSet), Honest(Lines) PROVE FileIsHonest
<1>1. ASSUME NEW L \in Seq(LineSet), Honest(L), NEW i \in 1..Len(L)-1
      PROVE  LET this == L[i]  next == L[i+1]
             IN /\ next.seq = this.seq + 1
                /\ this.tick <= next.tick
                /\ this.name # "end"
                /\ this.name = "dropped" => next.name = "body"
                /\ IF this.name = "rotate" THEN next.name = "begin" /\ next.rot = this.n
                   ELSE next.rot = this.rot
  BY <1>1, Zenon DEF Honest, Chained, Follows
<1>2. ASSUME NEW L \in Seq(LineSet), Honest(L), NEW j \in 2..Len(L)
      PROVE  LET Numbered == {i \in 1..j-1 : L[i].name = "body"}
                 lost     == IF L[j-1].name = "dropped" THEN L[j-1].n ELSE 0
             IN L[j].name \in {"body", "end"} /\ Numbered # {} =>
                  \E i \in Numbered :
                    /\ \A k \in Numbered : k <= i
                    /\ L[j].n = L[i].n + 1 + lost
  <2> DEFINE lost == Lost(L[j-1])
  <2> SUFFICES ASSUME L[j].name \in {"body", "end"},
                      NEW m \in 1..j-1, L[m].name = "body"
               PROVE  \E i \in 1..j-1 : /\ L[i].name = "body"
                                        /\ \A k \in 1..j-1 : L[k].name = "body" => k <= i
                                        /\ L[j].n = L[i].n + 1 + lost
    BY Zenon DEF Lost
  <2>1. NextNumber(L, j-1, L[j].n - lost)
    BY <1>2, Zenon DEF Honest, Counted
  <2>2. ~NoBody(L, j-1)
    BY Zenon DEF NoBody
  <2>3. PICK i \in 1..j-1 : Newest(L, j-1, i) /\ L[i].n + 1 = L[j].n - lost
    BY <2>1, <2>2, Zenon DEF NextNumber
  <2>4. L[i] \in LineSet /\ L[j] \in LineSet /\ L[j-1] \in LineSet
    BY <1>2
  <2>5. L[i].n \in Nat /\ L[j].n \in Nat /\ lost \in Nat
    BY <2>4 DEF LineSet, Lost
  <2> HIDE DEF lost
  <2>6. L[j].n = L[i].n + 1 + lost
    BY <2>3, <2>5
  <2> QED BY <2>3, <2>6, Zenon DEF Newest
<1> QED BY <1>1, <1>2, Zenon DEF FileIsHonest

---------------------------------------------------------------------------
(* What keeps the files honest                                             *)

Tick(k) == ring[k % Capacity].tick

\* no record that is still to be written is stamped before t
NotBefore(t) == t <= tick /\ \A k \in head..tail-1 : t <= Tick(k)

TicksGrow ==
  /\ \A k \in head..tail-1 : Tick(k) <= tick
  /\ \A k, m \in head..tail-1 : k <= m => Tick(k) <= Tick(m)
  /\ \A i \in DOMAIN scratch : NotBefore(scratch[i].tick)
  /\ \A i, j \in DOMAIN scratch : i <= j => scratch[i].tick <= scratch[j].tick

\* the record the next body line is for: losses not declared yet come after it
NextBody == head - undeclared - Len(scratch)

Numbering == \A i \in DOMAIN scratch : scratch[i].id = NextBody + i - 1

\* the record the next line is for, a line of losses or a body
Due == NextBody - claimed

\* the line the next one is written after
Last == Lines[Len(Lines)]

Tip ==
  /\ Lines # <<>>
  /\ Last.name \in {"begin", "body"}
  /\ Last.seq + 1 = nextSeq /\ Last.rot = rotation
  /\ NotBefore(Last.tick) /\ \A i \in DOMAIN scratch : Last.tick <= scratch[i].tick
  /\ NextNumber(Lines, Len(Lines), Due)

Shelves ==
  /\ disk \in Seq(LineSet)
  /\ file = "none" => disk = <<>> /\ buffer = <<>>
  /\ handle => file = "open"
  /\ at # "idle" => scratch # <<>>
  /\ at = "idle" => claimed = 0

FileInvariant ==
  /\ Shelves /\ TicksGrow /\ Numbering /\ Honest(Lines)
  /\ file = "open" /\ Alive => Tip

---------------------------------------------------------------------------
(* The game's thread, and the batch copied out under its lock              *)

LEMMA TicksAreNumbers ==
  ASSUME Types PROVE  /\ \A k \in head..tail-1 : Tick(k) \in Nat
                      /\ \A i \in DOMAIN scratch : scratch[i].tick \in Nat
<1> USE CapacityPositive
<1>1. /\ head \in Nat /\ tail \in Nat /\ scratch \in Seq(Records)
      /\ ring \in [0..Capacity-1 -> Records]
  BY DEF Types
<1>2. ASSUME NEW k \in head..tail-1 PROVE Tick(k) \in Nat
  <2>1. k \in Nat
    BY <1>1
  <2>2. k % Capacity \in 0..Capacity-1
    BY <2>1, DivMod
  <2>3. ring[k % Capacity] \in Records
    BY <1>1, <2>2
  <2> QED BY <2>3 DEF Tick, Records
<1>3. ASSUME NEW i \in DOMAIN scratch PROVE scratch[i].tick \in Nat
  <2>1. scratch[i] \in Records
    BY <1>1
  <2> QED BY <2>1 DEF Records
<1> QED BY <1>2, <1>3

LEMMA StoreKeepsTicks ==
  ASSUME Types, Accounts, TicksGrow, NEW record \in Records, Store(record),
         record.tick = tick', tick' \in Nat, tick <= tick', scratch' = scratch
  PROVE  TicksGrow' /\ \A t \in Nat : NotBefore(t) => NotBefore(t)'
<1>1. /\ head \in Nat /\ tail \in Nat /\ tick \in Nat
      /\ \A k \in head..tail-1 : Tick(k) \in Nat
      /\ \A i \in DOMAIN scratch : scratch[i].tick \in Nat
  BY TicksAreNumbers DEF Types
<1>2. ASSUME NEW k \in head'..tail'-1
      PROVE  \/ k = tail /\ Tick(k)' = tick'
             \/ k \in head..tail-1 /\ Tick(k)' = Tick(k)
  <2>1. \/ k = tail /\ ring'[k % Capacity] = record
        \/ k \in head..tail-1 /\ ring'[k % Capacity] = ring[k % Capacity]
    BY StoreKeepsWindow, Zenon
  <2> QED BY <2>1, Zenon DEF Tick
<1>3. \A k \in head..tail-1 : Tick(k) <= tick'
  <2>1. \A k \in head..tail-1 : Tick(k) <= tick
    BY Zenon DEF TicksGrow
  <2> QED BY <1>1, <2>1
<1>4. tick' <= tick'
  OBVIOUS
<1>5. \A k \in head'..tail'-1 : Tick(k)' <= tick'
  BY <1>2, <1>3, <1>4, Zenon
<1>6. ASSUME NEW k \in head'..tail'-1, NEW m \in head'..tail'-1, k <= m
      PROVE  Tick(k)' <= Tick(m)'
  <2>1. CASE m = tail /\ Tick(m)' = tick'
    BY <1>5, <2>1, Zenon
  <2>2. CASE m \in head..tail-1 /\ Tick(m)' = Tick(m)
    <3>1. k # tail
      BY <1>1, <1>6, <2>2
    <3>2. k \in head..tail-1 /\ Tick(k)' = Tick(k)
      BY <1>2, <3>1, Zenon
    <3> QED BY <1>6, <2>2, <3>2, Zenon DEF TicksGrow
  <2> QED BY <1>2, <2>1, <2>2, Zenon
<1>7. ASSUME NEW t \in Nat, NotBefore(t) PROVE NotBefore(t)'
  <2>1. t <= tick /\ \A k \in head..tail-1 : t <= Tick(k)
    BY <1>7, Zenon DEF NotBefore
  <2>2. t <= tick'
    BY <1>1, <2>1
  <2>3. \A k \in head'..tail'-1 : t <= Tick(k)'
    BY <1>2, <2>1, <2>2, Zenon
  <2> QED BY <2>2, <2>3, Zenon DEF NotBefore
<1>8. ASSUME NEW i \in DOMAIN scratch' PROVE NotBefore(scratch[i].tick)'
  <2>1. scratch[i].tick \in Nat /\ NotBefore(scratch[i].tick)
    BY <1>1, <1>8, Zenon DEF TicksGrow
  <2> DEFINE t == scratch[i].tick
  <2>2. scratch'[i].tick = t
    BY Zenon
  <2> HIDE DEF t
  <2>3. t \in Nat /\ NotBefore(t)
    BY <2>1, Zenon DEF t
  <2>4. t <= tick' /\ \A k \in head'..tail'-1 : t <= Tick(k)'
    BY <1>7, <2>3, Zenon DEF NotBefore
  <2> QED BY <2>2, <2>4, Zenon DEF NotBefore
<1>9. \A i, j \in DOMAIN scratch' : i <= j => scratch'[i].tick <= scratch'[j].tick
  BY Zenon DEF TicksGrow
<1> QED BY <1>5, <1>6, <1>7, <1>8, <1>9, Zenon DEF TicksGrow

LEMMA LinesAreLines ==
  ASSUME Types, Shelves
  PROVE  /\ disk \in Seq(LineSet) /\ buffer \in Seq(LineSet)
         /\ Lines \in Seq(LineSet) /\ Len(Lines) \in Nat
         /\ Lines # <<>> => Last \in LineSet
<1>1. disk \in Seq(LineSet) /\ buffer \in Seq(LineSet)
  BY DEF Types, Shelves
<1>2. Lines \in Seq(LineSet) /\ Len(Lines) \in Nat
  BY <1>1 DEF Lines
<1> HIDE DEF Lines
<1>3. Lines # <<>> => Last \in LineSet
  BY <1>2 DEF Last
<1> QED BY <1>1, <1>2, <1>3

LEMMA NumbersAreNumbers ==
  ASSUME Types
  PROVE  /\ head \in Nat /\ tail \in Nat /\ undeclared \in Nat /\ claimed \in Nat
         /\ Len(scratch) \in Nat /\ DOMAIN scratch = 1..Len(scratch)
         /\ NextBody \in Int /\ Due \in Int
  BY DEF Types, NextBody, Due

\* The files are left as they are.
LEMMA LinesStay ==
  ASSUME FileInvariant, Lines' = Lines PROVE Honest(Lines)'
<1>1. Honest(Lines)
  BY Zenon DEF FileInvariant
<1> QED BY <1>1, Zenon DEF Honest, Chained, Counted, NextNumber, NoBody, Newest, Lost, Follows

\* The lines are the same, and what is still to be written is, or comes later.
LEMMA TipStays ==
  ASSUME LogInvariant, FileInvariant, Tip, Lines' = Lines, Due' = Due,
         UNCHANGED <<rotation, nextSeq>>,
         \A t \in Nat : NotBefore(t) => NotBefore(t)',
         \A t \in Nat : NotBefore(t) /\ (\A i \in DOMAIN scratch : t <= scratch[i].tick)
                          => \A i \in DOMAIN scratch' : t <= scratch'[i].tick
  PROVE  Tip'
<1>1. /\ Lines # <<>>
      /\ Last.name \in {"begin", "body"}
      /\ Last.seq + 1 = nextSeq /\ Last.rot = rotation
      /\ NotBefore(Last.tick) /\ \A i \in DOMAIN scratch : Last.tick <= scratch[i].tick
      /\ NextNumber(Lines, Len(Lines), Due)
  BY Zenon DEF Tip
<1>2. Last \in LineSet
  BY <1>1, LinesAreLines DEF LogInvariant, FileInvariant
<1> DEFINE t == Last.tick
<1>3. t \in Nat
  BY <1>2 DEF LineSet
<1>4. Last' = Last
  BY Zenon DEF Last
<1>5. Last'.tick = t
  BY <1>4, Zenon
<1>6. NotBefore(t) /\ \A i \in DOMAIN scratch : t <= scratch[i].tick
  BY <1>1, Zenon
<1> HIDE DEF t
<1>7. /\ t <= tick' /\ \A k \in head'..tail'-1 : t <= Tick(k)'
      /\ \A i \in DOMAIN scratch' : t <= scratch'[i].tick
  BY <1>3, <1>6, Zenon DEF NotBefore
<1>8. NotBefore(Last.tick)'
  BY <1>5, <1>7, Zenon DEF NotBefore
<1>9. \A i \in DOMAIN scratch' : Last'.tick <= scratch'[i].tick
  BY <1>5, <1>7, Zenon
<1>10. NextNumber(Lines, Len(Lines), Due)'
  <2>1. NextNumber(Lines', Len(Lines'), Due')
    BY <1>1, Zenon
  <2> QED BY <2>1, Zenon DEF NextNumber, NoBody, Newest
<1>11. /\ Lines' # <<>> /\ Last'.name \in {"begin", "body"}
       /\ Last'.seq + 1 = nextSeq' /\ Last'.rot = rotation'
  BY <1>1, <1>4, Zenon
<1> QED BY <1>8, <1>9, <1>10, <1>11, Zenon DEF Tip

\* A step that writes nothing.
LEMMA QuietKeeps ==
  ASSUME LogInvariant, FileInvariant, Alive,
         UNCHANGED <<file, handle, disk, buffer, rotation, nextSeq>>,
         at' # "idle" => scratch' # <<>>, at' = "idle" => claimed' = 0,
         TicksGrow', Numbering', Due' = Due,
         \A t \in Nat : NotBefore(t) => NotBefore(t)',
         \A t \in Nat : NotBefore(t) /\ (\A i \in DOMAIN scratch : t <= scratch[i].tick)
                          => \A i \in DOMAIN scratch' : t <= scratch'[i].tick
  PROVE  FileInvariant'
<1>1. Shelves'
  BY DEF FileInvariant, Shelves
<1>2. Lines' = Lines
  BY DEF Lines
<1>3. Honest(Lines)'
  BY <1>2, LinesStay
<1>4. ASSUME Tip PROVE Tip'
  BY <1>2, <1>4, TipStays, Zenon
<1>5. file' = "open" /\ Alive' => Tip'
  BY <1>4, Zenon DEF FileInvariant
<1> QED BY <1>1, <1>3, <1>5, Zenon DEF FileInvariant

\* A record that is lost in the ring moves its oldest one, and is declared before
\* it: the next line is for the same record.
LEMMA StoreKeepsDue ==
  ASSUME Types, Accounts, NEW record \in Records, Store(record),
         scratch' = scratch, claimed' = claimed
  PROVE  NextBody' = NextBody /\ Due' = Due
<1>1. head - undeclared = (head + 1) - (undeclared + 1)
  BY NumbersAreNumbers
<1>2. head' - undeclared' = head - undeclared
  <2>1. \/ head' = head /\ undeclared' = undeclared
        \/ head' = head + 1 /\ undeclared' = undeclared + 1
    BY StoreKeepsWindow, Zenon
  <2>2. CASE head' = head /\ undeclared' = undeclared
    BY <2>2, Zenon
  <2>3. CASE head' = head + 1 /\ undeclared' = undeclared + 1
    BY <1>1, <2>3, Zenon
  <2> QED BY <2>1, <2>2, <2>3, Zenon
<1>3. NextBody' = NextBody
  BY <1>2, Zenon DEF NextBody
<1> QED BY <1>3, Zenon DEF Due

LEMMA StoreKeepsFiles ==
  ASSUME LogInvariant, FileInvariant, Alive, NEW record \in Records, Store(record),
         record.tick = tick', tick' \in Nat, tick <= tick',
         UNCHANGED <<game, at, scratch, claimed, nextSeq, file, writer>>
  PROVE  FileInvariant'
<1>1. Types /\ Accounts /\ TicksGrow /\ Shelves /\ Numbering
  BY Zenon DEF LogInvariant, FileInvariant
<1>2. /\ scratch' = scratch /\ claimed' = claimed /\ at' = at
      /\ UNCHANGED <<file, handle, disk, buffer, rotation, nextSeq>>
  OBVIOUS
<1>3. TicksGrow' /\ \A t \in Nat : NotBefore(t) => NotBefore(t)'
  BY <1>1, <1>2, StoreKeepsTicks, Zenon
<1>4. NextBody' = NextBody /\ Due' = Due
  BY <1>1, <1>2, StoreKeepsDue, Zenon
<1>5. Numbering'
  BY <1>1, <1>2, <1>4, Zenon DEF Numbering
<1>6. (at' # "idle" => scratch' # <<>>) /\ (at' = "idle" => claimed' = 0)
  BY <1>1, <1>2, Zenon DEF Shelves
<1>7. \A t \in Nat : NotBefore(t) /\ (\A i \in DOMAIN scratch : t <= scratch[i].tick)
                       => \A i \in DOMAIN scratch' : t <= scratch'[i].tick
  BY <1>2, Zenon
<1> QED BY <1>2, <1>3, <1>4, <1>5, <1>6, <1>7, QuietKeeps, Zenon

LEMMA EmitKeepsFiles == ASSUME LogInvariant, FileInvariant, Emit PROVE FileInvariant'
<1>1. PICK vital \in BOOLEAN : Store([id |-> tail, tick |-> tick, vital |-> vital])
  BY DEF Emit
<1> DEFINE record == [id |-> tail, tick |-> tick, vital |-> vital]
<1>2. /\ UNCHANGED <<game, at, scratch, claimed, nextSeq, file, writer>> /\ tick' = tick
      /\ Alive
  BY DEF Emit, Alive
<1>3. record \in Records /\ record.tick = tick /\ tick \in Nat /\ tick <= tick
  BY DEF LogInvariant, Types, Records
<1>4. Store(record)
  BY <1>1
<1> HIDE DEF record
<1>5. record.tick = tick' /\ tick' \in Nat /\ tick <= tick'
  BY <1>2, <1>3, Zenon
<1> QED BY <1>2, <1>3, <1>4, <1>5, StoreKeepsFiles, Zenon

LEMMA BeginTickKeepsFiles == ASSUME LogInvariant, FileInvariant, BeginTick PROVE FileInvariant'
<1>1. /\ UNCHANGED <<game, at, scratch, claimed, nextSeq, file, writer>>
      /\ Alive
  BY DEF BeginTick, Alive
<1>2. tick \in Nat /\ tail \in Nat /\ tick' \in Nat /\ tick <= tick'
  BY DEF LogInvariant, Types, BeginTick
<1>3. CASE tick' % HeartbeatSteps = 0
  <2> DEFINE record == [id |-> tail, tick |-> tick', vital |-> TRUE]
  <2>1. record \in Records /\ record.tick = tick'
    BY <1>2 DEF Records
  <2>2. Store(record)
    BY <1>3 DEF BeginTick
  <2> HIDE DEF record
  <2> QED BY <1>1, <1>2, <2>1, <2>2, StoreKeepsFiles, Zenon
<1>4. CASE tick' % HeartbeatSteps # 0
  <2>1. UNCHANGED <<ring, counters>>
    BY <1>4 DEF BeginTick
  <2>2. /\ ring' = ring /\ head' = head /\ tail' = tail /\ undeclared' = undeclared
        /\ scratch' = scratch /\ claimed' = claimed /\ at' = at
        /\ UNCHANGED <<file, handle, disk, buffer, rotation, nextSeq>>
    BY <1>1, <2>1
  <2>3. \A k : Tick(k)' = Tick(k)
    BY <2>2, Zenon DEF Tick
  <2>4. ASSUME NEW t \in Nat, t <= tick PROVE t <= tick'
    BY <1>2, <2>4
  <2>5. \A t \in Nat : NotBefore(t) => NotBefore(t)'
    BY <2>2, <2>3, <2>4, Zenon DEF NotBefore
  <2>6. TicksGrow'
    <3>1. /\ \A k \in head..tail-1 : Tick(k) \in Nat
          /\ \A i \in DOMAIN scratch : scratch[i].tick \in Nat
      BY TicksAreNumbers DEF LogInvariant
    <3>2. TicksGrow
      BY Zenon DEF FileInvariant
    <3>3. \A k \in head'..tail'-1 : Tick(k)' <= tick'
      BY <2>2, <2>3, <2>4, <3>1, <3>2, Zenon DEF TicksGrow
    <3>4. \A k, m \in head'..tail'-1 : k <= m => Tick(k)' <= Tick(m)'
      BY <2>2, <2>3, <3>2, Zenon DEF TicksGrow
    <3>5. ASSUME NEW i \in DOMAIN scratch' PROVE NotBefore(scratch[i].tick)'
      <4>1. scratch[i].tick \in Nat /\ NotBefore(scratch[i].tick)
        BY <2>2, <3>1, <3>2, <3>5, Zenon DEF TicksGrow
      <4> QED BY <2>2, <2>3, <2>4, <4>1, Zenon DEF NotBefore
    <3>6. \A i, j \in DOMAIN scratch' : i <= j => scratch'[i].tick <= scratch'[j].tick
      BY <2>2, <3>2, Zenon DEF TicksGrow
    <3> QED BY <3>3, <3>4, <3>5, <3>6, Zenon DEF TicksGrow
  <2>7. NextBody' = NextBody /\ Due' = Due
    BY <2>2, Zenon DEF NextBody, Due
  <2>8. Numbering'
    BY <2>2, <2>7, Zenon DEF FileInvariant, Numbering
  <2>9. (at' # "idle" => scratch' # <<>>) /\ (at' = "idle" => claimed' = 0)
    BY <2>2, Zenon DEF FileInvariant, Shelves
  <2>10. \A t \in Nat : NotBefore(t) /\ (\A i \in DOMAIN scratch : t <= scratch[i].tick)
                          => \A i \in DOMAIN scratch' : t <= scratch'[i].tick
    BY <2>2, Zenon
  <2> QED BY <1>1, <2>2, <2>5, <2>6, <2>7, <2>8, <2>9, <2>10, QuietKeeps, Zenon
<1> QED BY <1>3, <1>4

LEMMA ShutdownKeepsFiles == ASSUME LogInvariant, FileInvariant, Shutdown PROVE FileInvariant'
<1>1. /\ UNCHANGED <<ring, head, tail, undeclared, tick, at, scratch, claimed, nextSeq, file,
                     handle, rotation, disk, buffer>>
      /\ Alive
  BY DEF Shutdown, Alive
<1>2. TicksGrow' /\ Numbering' /\ Due' = Due
  BY <1>1, Zenon DEF FileInvariant, TicksGrow, Numbering, Due, NextBody, NotBefore, Tick
<1>3. (at' # "idle" => scratch' # <<>>) /\ (at' = "idle" => claimed' = 0)
  BY <1>1, Zenon DEF FileInvariant, Shelves
<1>4. \A t \in Nat : NotBefore(t) => NotBefore(t)'
  BY <1>1, Zenon DEF NotBefore, Tick
<1>5. \A t \in Nat : NotBefore(t) /\ (\A i \in DOMAIN scratch : t <= scratch[i].tick)
                       => \A i \in DOMAIN scratch' : t <= scratch'[i].tick
  BY <1>1, Zenon
<1>6. UNCHANGED <<file, handle, disk, buffer, rotation, nextSeq>>
  BY <1>1
<1> QED BY <1>1, <1>2, <1>3, <1>4, <1>5, <1>6, QuietKeeps, Zenon

LEMMA DrainBeginKeepsFiles == ASSUME LogInvariant, FileInvariant, DrainBegin PROVE FileInvariant'
<1> DEFINE b == BatchSize
<1>1. /\ head \in Nat /\ tail \in Nat /\ undeclared \in Nat /\ tick \in Nat
      /\ scratch = <<>> /\ claimed = 0 /\ Pending > 0 /\ Alive
      /\ \A k \in head..tail-1 : Tick(k) \in Nat
  BY TicksAreNumbers DEF LogInvariant, Types, Hands, FileInvariant, Shelves, DrainBegin, Alive
<1>2. b \in Nat \ {0} /\ head + b <= tail
  BY <1>1, CapacityPositive DEF BatchSize, Pending
<1>3. /\ scratch' = [i \in 1..b |-> ring[(head + i - 1) % Capacity]]
      /\ head' = head + b /\ claimed' = undeclared /\ undeclared' = 0 /\ at' = "claimed"
      /\ ring' = ring /\ tail' = tail /\ tick' = tick
      /\ UNCHANGED <<file, handle, disk, buffer, rotation, nextSeq>>
  BY DEF DrainBegin
<1> HIDE DEF b
<1>4. /\ DOMAIN scratch' = 1..b
      /\ \A i \in 1..b : scratch'[i] = ring[(head + i - 1) % Capacity]
  BY <1>3, Zenon
<1>5. Len(scratch') = b
  BY <1>2, <1>3
<1>6. \A i \in 1..b : head + i - 1 \in head..tail-1 /\ head + i - 1 < head + b
  BY <1>1, <1>2
<1>7. \A i \in 1..b : scratch'[i].tick = Tick(head + i - 1) /\ scratch'[i].id = head + i - 1
  <2>1. \A k \in head..tail-1 : ring[k % Capacity].id = k
    BY Zenon DEF LogInvariant, Accounts
  <2> QED BY <1>4, <1>6, <2>1, Zenon DEF Tick
<1>8. \A k : Tick(k)' = Tick(k)
  BY <1>3, Zenon DEF Tick
<1>9. ASSUME NEW k \in head'..tail'-1 PROVE k \in head..tail-1 /\ head + b <= k
  <2>1. k \in (head + b)..tail-1
    BY <1>3, Zenon
  <2> QED BY <1>1, <1>2, <2>1
<1>10. TicksGrow
  BY Zenon DEF FileInvariant
<1>11. \A t \in Nat : NotBefore(t) => NotBefore(t)'
  BY <1>3, <1>8, <1>9, Zenon DEF NotBefore
<1>12. TicksGrow'
  <2>1. \A k \in head'..tail'-1 : Tick(k)' <= tick'
    BY <1>3, <1>8, <1>9, <1>10, Zenon DEF TicksGrow
  <2>2. \A k, m \in head'..tail'-1 : k <= m => Tick(k)' <= Tick(m)'
    BY <1>8, <1>9, <1>10, Zenon DEF TicksGrow
  <2>3. ASSUME NEW i \in 1..b
        PROVE  /\ Tick(head + i - 1) <= tick'
               /\ \A k \in head'..tail'-1 : Tick(head + i - 1) <= Tick(k)'
    <3>1. Tick(head + i - 1) <= tick'
      BY <1>3, <1>6, <1>10, Zenon DEF TicksGrow
    <3>2. ASSUME NEW k \in head..tail-1, head + b <= k PROVE head + i - 1 <= k
      BY <1>1, <1>2, <3>2
    <3>3. \A k \in head'..tail'-1 : Tick(head + i - 1) <= Tick(k)'
      BY <1>6, <1>8, <1>9, <1>10, <3>2, Zenon DEF TicksGrow
    <3> QED BY <3>1, <3>3
  <2>4. ASSUME NEW i \in DOMAIN scratch' PROVE NotBefore(scratch[i].tick)'
    BY <1>4, <1>7, <2>3, Zenon DEF NotBefore
  <2>5. ASSUME NEW i \in DOMAIN scratch', NEW j \in DOMAIN scratch', i <= j
        PROVE  scratch'[i].tick <= scratch'[j].tick
    <3>1. i \in 1..b /\ j \in 1..b
      BY <1>4, Zenon
    <3>2. head + i - 1 <= head + j - 1
      BY <1>1, <1>2, <2>5, <3>1
    <3>3. Tick(head + i - 1) <= Tick(head + j - 1)
      BY <1>6, <1>10, <3>1, <3>2, Zenon DEF TicksGrow
    <3> QED BY <1>7, <3>1, <3>3, Zenon
  <2> QED BY <2>1, <2>2, <2>4, <2>5, Zenon DEF TicksGrow
<1>13. NextBody' = head
  <2>1. NextBody' = (head + b) - 0 - b
    BY <1>3, <1>5, Zenon DEF NextBody
  <2> QED BY <1>1, <1>2, <2>1
<1>14. Numbering'
  BY <1>4, <1>7, <1>13, Zenon DEF Numbering
<1>15. Due' = Due
  <2>1. Due' = head - undeclared
    BY <1>3, <1>13, Zenon DEF Due
  <2>2. Due = head - undeclared
    BY <1>1 DEF Due, NextBody
  <2> QED BY <2>1, <2>2, Zenon
<1>16. (at' # "idle" => scratch' # <<>>) /\ (at' = "idle" => claimed' = 0)
  BY <1>2, <1>3, <1>5
<1>17. \A t \in Nat : NotBefore(t) => \A i \in DOMAIN scratch' : t <= scratch'[i].tick
  BY <1>4, <1>6, <1>7, Zenon DEF NotBefore
<1> QED BY <1>1, <1>3, <1>11, <1>12, <1>14, <1>15, <1>16, <1>17, QuietKeeps, Zenon

---------------------------------------------------------------------------
(* The writer                                                              *)

LEMMA WriteAppends ==
  ASSUME Types, Shelves, NEW lines \in Seq(LineSet), NEW sync \in BOOLEAN, Write(lines, sync)
  PROVE  /\ Lines' = IF handle THEN Lines \o lines ELSE Lines
         /\ disk' \in Seq(LineSet)
<1>1. disk \in Seq(LineSet) /\ buffer \in Seq(LineSet)
  BY LinesAreLines
<1>2. CASE ~handle
  <2>1. disk' = disk /\ buffer' = buffer
    BY <1>2 DEF Write
  <2> QED BY <1>1, <1>2, <2>1, Zenon DEF Lines
<1>3. CASE handle /\ disk' = disk \o buffer \o lines /\ buffer' = <<>>
  <2>1. disk \o buffer \o lines \in Seq(LineSet)
    BY <1>1
  <2>2. (disk \o buffer \o lines) \o <<>> = disk \o buffer \o lines
    BY <2>1, ConcatEmptySeq, Zenon
  <2> QED BY <1>3, <2>1, <2>2, Zenon DEF Lines
<1>4. CASE handle /\ disk' = disk /\ buffer' = buffer \o lines
  <2>1. disk \o (buffer \o lines) = (disk \o buffer) \o lines
    BY <1>1, ConcatAssociative
  <2> QED BY <1>1, <1>4, <2>1, Zenon DEF Lines
<1> QED BY <1>2, <1>3, <1>4 DEF Write

\* The stamp of a line that is not a record's.
LEMMA StampFits ==
  ASSUME LogInvariant, FileInvariant, scratch # <<>> \/ head = tail
  PROVE  /\ Stamp \in Nat
         /\ NotBefore(Stamp) /\ \A i \in DOMAIN scratch : Stamp <= scratch[i].tick
         /\ Tip => Last.tick <= Stamp
<1>1. Stamp \in Nat /\ TicksGrow /\ tick \in Nat /\ head \in Nat /\ scratch \in Seq(Records)
  BY StampIsTick DEF LogInvariant, Types, FileInvariant
<1>2. CASE scratch # <<>>
  <2>1. Stamp = scratch[1].tick
    BY <1>2 DEF Stamp
  <2>2. 1 \in DOMAIN scratch /\ \A i \in DOMAIN scratch : 1 <= i
    BY <1>1, <1>2
  <2>3. NotBefore(Stamp) /\ \A i \in DOMAIN scratch : Stamp <= scratch[i].tick
    BY <1>1, <2>1, <2>2, Zenon DEF TicksGrow
  <2>4. Tip => Last.tick <= Stamp
    BY <2>1, <2>2, Zenon DEF Tip
  <2> QED BY <1>1, <2>3, <2>4
<1>3. CASE scratch = <<>>
  <2>1. Stamp = tick /\ DOMAIN scratch = {}
    BY <1>3 DEF Stamp
  <2>2. tick <= tick /\ \A k : k \notin head..tail-1
    BY <1>1, <1>3
  <2>3. NotBefore(tick) /\ \A i \in DOMAIN scratch : Stamp <= scratch[i].tick
    BY <2>1, <2>2, Zenon DEF NotBefore
  <2>4. Tip => Last.tick <= tick
    BY Zenon DEF Tip, NotBefore
  <2> QED BY <1>1, <2>1, <2>3, <2>4, Zenon
<1> QED BY <1>2, <1>3

LEMMA EmptyBatchIsSound ==
  ASSUME TicksGrow, scratch' = <<>>, UNCHANGED <<ring, head, tail, tick>>
  PROVE  /\ TicksGrow' /\ Numbering'
         /\ \A t : NotBefore(t) => NotBefore(t)'
<1>1. DOMAIN scratch' = {}
  OBVIOUS
<1>2. Numbering'
  BY <1>1, Zenon DEF Numbering
<1>3. /\ ring' = ring /\ head' = head /\ tail' = tail /\ tick' = tick
      /\ \A k : Tick(k)' = Tick(k)
  BY Zenon DEF Tick
<1>4. TicksGrow'
  <2>1. /\ \A k \in head'..tail'-1 : Tick(k)' <= tick'
        /\ \A k, m \in head'..tail'-1 : k <= m => Tick(k)' <= Tick(m)'
    BY <1>3, Zenon DEF TicksGrow
  <2> QED BY <1>1, <2>1, Zenon DEF TicksGrow
<1> QED BY <1>2, <1>3, <1>4, Zenon DEF NotBefore

LEMMA CountLossKeepsFiles ==
  ASSUME FileInvariant, CountLoss, file # "open", file' = "failed",
         UNCHANGED <<ring, head, tail, tick, handle, disk, buffer>>
  PROVE  FileInvariant'
<1>1. scratch' = <<>> /\ claimed' = 0 /\ at' = "idle"
  BY DEF CountLoss
<1>2. TicksGrow' /\ Numbering'
  BY <1>1, EmptyBatchIsSound, Zenon DEF FileInvariant
<1>3. Shelves'
  BY <1>1 DEF FileInvariant, Shelves
<1>4. Honest(Lines)'
  <2>1. Lines' = Lines
    BY DEF Lines
  <2> QED BY <2>1, LinesStay
<1> QED BY <1>2, <1>3, <1>4 DEF FileInvariant

LEMMA OpenFirstFileKeepsFiles ==
  ASSUME LogInvariant, FileInvariant, OpenFirstFile PROVE FileInvariant'
<1>1. file = "none" /\ Alive /\ (at = "claimed" \/ game = "closing")
  BY DEF OpenFirstFile
<1>2. CASE file' = "failed"
  <2>1. CountLoss /\ UNCHANGED <<ring, head, tail, tick, handle, disk, buffer>>
    BY <1>2 DEF OpenFirstFile
  <2> QED BY <1>1, <1>2, <2>1, CountLossKeepsFiles
<1>3. CASE file' = "open"
  <2> DEFINE x == Line("begin", nextSeq, rotation, Stamp, 0)
  <2>1. /\ handle' = TRUE /\ disk' = <<x>> /\ nextSeq' = nextSeq + 1
        /\ UNCHANGED <<scratch, claimed, at, ring, head, tail, undeclared, tick, rotation, buffer>>
    BY <1>3 DEF OpenFirstFile
  <2>2. buffer = <<>> /\ Shelves /\ TicksGrow /\ Numbering
    BY <1>1 DEF FileInvariant, Shelves
  <2>3. scratch # <<>> \/ head = tail
    BY <1>1, <2>2 DEF LogInvariant, Hands, Shelves
  <2>4. /\ nextSeq \in Nat /\ rotation \in Nat /\ Stamp \in Nat /\ NotBefore(Stamp)
        /\ \A i \in DOMAIN scratch : Stamp <= scratch[i].tick
    BY <2>3, StampFits DEF LogInvariant, Types
  <2>5. x \in LineSet /\ x.name = "begin" /\ x.seq = nextSeq /\ x.rot = rotation /\ x.tick = Stamp
    BY <2>4 DEF Line, LineSet
  <2> HIDE DEF x
  <2>6. Lines' = <<x>>
    <3>1. <<x>> \o <<>> = <<x>>
      BY <2>5
    <3> QED BY <2>1, <2>2, <3>1, Zenon DEF Lines
  <2>7. Len(<<x>>) = 1 /\ <<x>>[1] = x /\ <<x>> # <<>> /\ <<x>> \in Seq(LineSet)
    BY <2>5
  <2>8. Shelves'
    BY <1>3, <2>1, <2>2, <2>7 DEF Shelves
  <2>9. TicksGrow' /\ Numbering'
    BY <2>1, <2>2, Zenon DEF TicksGrow, Numbering, NextBody, NotBefore, Tick
  <2>10. Honest(<<x>>) /\ NextNumber(<<x>>, 1, Due')
    <3>1. NoBody(<<x>>, 1)
      BY <2>5, <2>7 DEF NoBody
    <3>2. NextNumber(<<x>>, 1, Due')
      BY <3>1, Zenon DEF NextNumber
    <3>3. 1..Len(<<x>>)-1 = {} /\ 2..Len(<<x>>) = {}
      BY <2>7
    <3> QED BY <3>2, <3>3, Zenon DEF Honest, Chained, Counted
  <2>11. Honest(Lines)'
    <3>1. Honest(Lines')
      BY <2>6, <2>10, Zenon
    <3> QED BY <3>1, Zenon DEF Honest, Chained, Counted, NextNumber, NoBody, Newest, Lost, Follows
  <2>12. Tip'
    <3>1. Last' = x
      BY <2>6, <2>7, Zenon DEF Last
    <3>2. NotBefore(Last.tick)'
      BY <2>1, <2>4, <2>5, <3>1, Zenon DEF NotBefore, Tick
    <3>3. NextNumber(Lines, Len(Lines), Due)'
      <4>1. NextNumber(Lines', Len(Lines'), Due')
        BY <2>6, <2>7, <2>10, Zenon
      <4> QED BY <4>1, Zenon DEF NextNumber, NoBody, Newest
    <3>4. \A i \in DOMAIN scratch' : Last'.tick <= scratch'[i].tick
      BY <2>1, <2>4, <2>5, <3>1, Zenon
    <3>5. Lines' # <<>> /\ Last'.name \in {"begin", "body"}
          /\ Last'.seq + 1 = nextSeq' /\ Last'.rot = rotation'
      BY <2>1, <2>5, <2>6, <2>7, <3>1, Zenon
    <3> QED BY <3>2, <3>3, <3>4, <3>5, Zenon DEF Tip
  <2> QED BY <2>8, <2>9, <2>11, <2>12 DEF FileInvariant
<1> QED BY <1>2, <1>3 DEF OpenFirstFile

LEMMA DrainRefusedKeepsFiles ==
  ASSUME FileInvariant, DrainRefused PROVE FileInvariant'
<1>1. /\ CountLoss /\ file = "failed" /\ file' = "failed"
      /\ UNCHANGED <<ring, head, tail, tick, handle, disk, buffer>>
  BY DEF DrainRefused
<1> QED BY <1>1, CountLossKeepsFiles

\* Pruning takes lines from the beginning.
LEMMA RetainedIsRest ==
  ASSUME NEW L \in Seq(LineSet), NEW rot
  PROVE  \E k \in 0..Len(L) : /\ Retained(L, rot) \in Seq(LineSet)
                              /\ Len(Retained(L, rot)) = Len(L) - k
                              /\ \A i \in 1..Len(Retained(L, rot)) : Retained(L, rot)[i] = L[k + i]
<1> DEFINE Pruned == {i \in DOMAIN L : L[i].rot < rot - (KeptFiles - 1)}
           k == Cardinality(Pruned)
<1>1. Len(L) \in Nat /\ DOMAIN L = 1..Len(L)
  OBVIOUS
<1>2. k \in 0..Len(L)
  <2>1. IsFiniteSet(1..Len(L)) /\ Cardinality(1..Len(L)) = Len(L)
    BY <1>1, FS_Interval
  <2>2. Pruned \in SUBSET (1..Len(L))
    BY <1>1
  <2>3. IsFiniteSet(Pruned) /\ k <= Len(L)
    BY <2>1, <2>2, FS_Subset
  <2>4. k \in Nat
    BY <2>3, FS_CardinalityType
  <2> QED BY <1>1, <2>3, <2>4
<1>3. Retained(L, rot) = SubSeq(L, k + 1, Len(L))
  BY DEF Retained
<1> HIDE DEF k
<1>4. /\ SubSeq(L, k + 1, Len(L)) \in Seq(LineSet)
      /\ Len(SubSeq(L, k + 1, Len(L))) = Len(L) - k
      /\ \A i \in 1..Len(L)-k : SubSeq(L, k + 1, Len(L))[i] = L[k + i]
  <2>1. \A i \in k+1..Len(L) : L[i] \in LineSet
    BY <1>1, <1>2
  <2>2. k + 1 \in Int /\ Len(L) \in Int
    BY <1>1, <1>2
  <2>3. /\ SubSeq(L, k + 1, Len(L)) \in Seq(LineSet)
        /\ Len(SubSeq(L, k + 1, Len(L))) = IF k + 1 <= Len(L) THEN Len(L) - (k + 1) + 1 ELSE 0
        /\ \A i \in 1..Len(L)-(k+1)+1 : SubSeq(L, k + 1, Len(L))[i] = L[(k + 1) + i - 1]
    BY <2>1, <2>2, SubSeqProperties
  <2>4. Len(SubSeq(L, k + 1, Len(L))) = Len(L) - k
    <3>1. CASE k + 1 <= Len(L)
      <4>1. Len(L) - (k + 1) + 1 = Len(L) - k
        BY <1>1, <1>2
      <4> QED BY <2>3, <3>1, <4>1, Zenon
    <3>2. CASE ~(k + 1 <= Len(L))
      <4> DEFINE l == Len(L)
      <4> HIDE DEF l
      <4>2. l \in Nat /\ k \in 0..l /\ ~(k + 1 <= l)
        BY <1>1, <1>2, <3>2, Zenon DEF l
      <4>3. l - k = 0
        BY <4>2
      <4>1. Len(L) - k = 0
        BY <4>3, Zenon DEF l
      <4> QED BY <2>3, <3>2, <4>1, Zenon
    <3> QED BY <3>1, <3>2
  <2>5. \A i \in 1..Len(L)-k : i \in 1..Len(L)-(k+1)+1 /\ (k + 1) + i - 1 = k + i
    BY <1>1, <1>2
  <2>6. \A i \in 1..Len(L)-k : SubSeq(L, k + 1, Len(L))[i] = L[k + i]
    BY <2>3, <2>5, Zenon
  <2> QED BY <2>3, <2>4, <2>6
<1> QED BY <1>2, <1>3, <1>4, Zenon

LEMMA RotateFileKeepsFiles ==
  ASSUME LogInvariant, FileInvariant, RotateFile PROVE FileInvariant'
<1> DEFINE x == Line("rotate", nextSeq, rotation, Stamp, rotation + 1)
           y == Line("begin", nextSeq + 1, rotation + 1, Stamp, 0)
           L == Lines \o <<x>>
           R == Retained(L, rotation + 1)
<1>1. /\ Types /\ Shelves /\ TicksGrow /\ Numbering /\ Honest(Lines) /\ Tip
      /\ file = "open" /\ at = "claimed" /\ scratch # <<>>
  BY DEF RotateFile, LogInvariant, FileInvariant, Shelves
<1>2. /\ rotation' = rotation + 1 /\ buffer' = <<>> /\ at' = "rotated"
      /\ UNCHANGED <<ring, head, tail, undeclared, tick, scratch, claimed>>
  BY DEF RotateFile
<1>3. \/ disk' = R \o <<y>> /\ nextSeq' = nextSeq + 2 /\ file' = "open"
      \/ disk' = R /\ file' = "failed" /\ handle' = FALSE
  BY <1>1 DEF RotateFile, Lines
<1>4. /\ Stamp \in Nat /\ NotBefore(Stamp) /\ \A i \in DOMAIN scratch : Stamp <= scratch[i].tick
      /\ Last.tick <= Stamp
  BY <1>1, StampFits
<1>5. nextSeq \in Nat /\ rotation \in Nat /\ Lines \in Seq(LineSet) /\ Len(Lines) \in Nat
  BY <1>1, LinesAreLines DEF Types
<1>6. /\ x \in LineSet /\ y \in LineSet
      /\ x.name = "rotate" /\ x.seq = nextSeq /\ x.rot = rotation /\ x.n = rotation + 1 /\ x.tick = Stamp
      /\ y.name = "begin" /\ y.seq = nextSeq + 1 /\ y.rot = rotation + 1 /\ y.tick = Stamp
  BY <1>4, <1>5 DEF Line, LineSet
<1> HIDE DEF x, y
<1>7. Follows(Last, x)
  BY <1>1, <1>4, <1>6, Zenon DEF Follows, Tip
<1>8. Follows(x, y)
  <2>1. x.seq + 1 = y.seq /\ x.tick <= y.tick
    BY <1>4, <1>5, <1>6
  <2> QED BY <1>6, <2>1 DEF Follows
<1>9. /\ L \in Seq(LineSet) /\ Len(L) = Len(Lines) + 1 /\ L[Len(Lines) + 1] = x
      /\ Honest(L) /\ NextNumber(L, Len(L), Due)
  <2>1. Lines # <<>> /\ NextNumber(Lines, Len(Lines), Due) /\ Last = Lines[Len(Lines)]
    BY <1>1, Zenon DEF Tip, Last
  <2>2. x.name # "body" /\ x.name \notin {"body", "end"}
    BY <1>6
  <2> QED BY <1>1, <1>5, <1>6, <1>7, <2>1, <2>2, LineAdded, Zenon
<1>10. L # <<>> /\ L[Len(L)] = x /\ Len(L) \in Nat
  BY <1>5, <1>9
<1> HIDE DEF L
<1>11. PICK k \in 0..Len(L) : /\ R \in Seq(LineSet) /\ Len(R) = Len(L) - k
                              /\ \A i \in 1..Len(R) : R[i] = L[k + i]
  BY <1>9, RetainedIsRest
<1> HIDE DEF R
<1>12. TicksGrow' /\ Numbering' /\ Due' = Due
  BY <1>1, <1>2, Zenon DEF TicksGrow, Numbering, Due, NextBody, NotBefore, Tick
<1>13. CASE disk' = R /\ file' = "failed" /\ handle' = FALSE
  <2>1. Lines' = R
    <3>1. R \o <<>> = R
      BY <1>11, ConcatEmptySeq
    <3> QED BY <1>2, <1>13, <3>1, Zenon DEF Lines
  <2>2. Honest(R)
    BY <1>9, <1>11, RestIsHonest, Zenon
  <2>3. Honest(Lines)'
    <3>1. Honest(Lines')
      BY <2>1, <2>2, Zenon
    <3> QED BY <3>1, Zenon DEF Honest, Chained, Counted, NextNumber, NoBody, Newest, Lost, Follows
  <2>4. Shelves'
    BY <1>1, <1>2, <1>11, <1>13 DEF Shelves
  <2> QED BY <1>12, <1>13, <2>3, <2>4 DEF FileInvariant
<1>14. CASE disk' = R \o <<y>> /\ nextSeq' = nextSeq + 2 /\ file' = "open"
  <2> DEFINE M == R \o <<y>>  N == L \o <<y>>
  <2>1. /\ N \in Seq(LineSet) /\ Len(N) = Len(L) + 1 /\ Honest(N) /\ NextNumber(N, Len(L) + 1, Due)
        /\ N[Len(L) + 1] = y
    <3>1. y.name # "body" /\ y.name \notin {"body", "end"}
      BY <1>6
    <3>2. Follows(L[Len(L)], y)
      BY <1>8, <1>10, Zenon
    <3> QED BY <1>6, <1>9, <1>10, <3>1, <3>2, LineAdded, Zenon
  <2>2. /\ M \in Seq(LineSet) /\ Len(M) = Len(R) + 1 /\ M[Len(R) + 1] = y
        /\ \A i \in 1..Len(R) : M[i] = R[i]
    BY <1>6, <1>11
  <2>3. \A i \in 1..Len(L) : N[i] = L[i]
    BY <1>6, <1>9
  <2> HIDE DEF M, N
  <2>4. Len(R) \in Nat /\ k \in Nat /\ k \in 0..Len(N) /\ Len(M) = Len(N) - k /\ Len(M) \in Nat
        /\ k + Len(M) = Len(L) + 1
    BY <1>10, <1>11, <2>1, <2>2
  <2>5. \A i \in 1..Len(M) : M[i] = N[k + i]
    <3>1. ASSUME NEW i \in 1..Len(M) PROVE M[i] = N[k + i]
      <4>1. CASE i \in 1..Len(R)
        <5>1. k + i \in 1..Len(L)
          BY <1>10, <1>11, <4>1
        <5> QED BY <1>11, <2>2, <2>3, <4>1, <5>1, Zenon
      <4>2. CASE i = Len(R) + 1
        <5>1. k + i = Len(L) + 1
          BY <1>10, <1>11, <2>4, <4>2
        <5> QED BY <2>1, <2>2, <4>2, <5>1, Zenon
      <4> QED BY <2>2, <2>4, <3>1, <4>1, <4>2
    <3> QED BY <3>1
  <2>6. Honest(M)
    BY <2>1, <2>2, <2>4, <2>5, RestIsHonest, Zenon
  <2>7. NextNumber(M, Len(M), Due)
    <3>1. NextNumber(N, k + Len(M), Due)
      BY <2>1, <2>4, Zenon
    <3> QED BY <2>4, <2>5, <3>1, NextNumberOfRest, Zenon
  <2>8. Lines' = M
    <3>1. M \o <<>> = M
      BY <2>2, ConcatEmptySeq
    <3> QED BY <1>2, <1>14, <3>1, Zenon DEF Lines, M
  <2>9. Honest(Lines)'
    <3>1. Honest(Lines')
      BY <2>6, <2>8, Zenon
    <3> QED BY <3>1, Zenon DEF Honest, Chained, Counted, NextNumber, NoBody, Newest, Lost, Follows
  <2>10. Shelves'
    <3>1. disk' \in Seq(LineSet)
      BY <1>14, <2>2, Zenon DEF M
    <3> QED BY <1>1, <1>2, <1>14, <3>1 DEF Shelves
  <2>11. Tip'
    <3>1. M # <<>> /\ Last' = y
      <4>1. M # <<>> /\ M[Len(M)] = y
        BY <2>2, <2>4
      <4> QED BY <2>8, <4>1, Zenon DEF Last
    <3>2. NotBefore(Last.tick)'
      BY <1>2, <1>4, <1>6, <3>1, Zenon DEF NotBefore, Tick
    <3>3. NextNumber(Lines, Len(Lines), Due)'
      <4>1. NextNumber(Lines', Len(Lines'), Due')
        BY <1>12, <2>7, <2>8, Zenon
      <4> QED BY <4>1, Zenon DEF NextNumber, NoBody, Newest
    <3>4. \A i \in DOMAIN scratch' : Last'.tick <= scratch'[i].tick
      BY <1>2, <1>4, <1>6, <3>1, Zenon
    <3>5. y.seq + 1 = nextSeq + 2
      BY <1>5, <1>6
    <3>6. Lines' # <<>> /\ Last'.name \in {"begin", "body"}
          /\ Last'.seq + 1 = nextSeq' /\ Last'.rot = rotation'
      BY <1>2, <1>6, <1>14, <2>8, <3>1, <3>5, Zenon
    <3> QED BY <3>2, <3>3, <3>4, <3>6, Zenon DEF Tip
  <2> QED BY <1>12, <2>9, <2>10, <2>11 DEF FileInvariant
<1> QED BY <1>3, <1>13, <1>14

\* Lines that never came to the file leave it honest.
LEMMA PartIsHonest ==
  ASSUME NEW L \in Seq(LineSet), NEW M \in Seq(LineSet), Honest(L), Len(M) <= Len(L),
         \A i \in 1..Len(M) : M[i] = L[i]
  PROVE  Honest(M)
<1>1. Len(M) \in Nat /\ Len(L) \in Nat
  OBVIOUS
<1>2. ASSUME NEW i \in 1..Len(M)-1 PROVE Follows(M[i], M[i+1])
  <2>1. i \in 1..Len(M) /\ i + 1 \in 1..Len(M) /\ i \in 1..Len(L)-1
    BY <1>1
  <2> QED BY <2>1, Zenon DEF Honest, Chained
<1>3. ASSUME NEW j \in 2..Len(M), M[j].name \in {"body", "end"}
      PROVE  NextNumber(M, j-1, M[j].n - Lost(M[j-1]))
  <2>1. j \in 1..Len(M) /\ j - 1 \in 1..Len(M) /\ j \in 2..Len(L) /\ \A i \in 1..j-1 : i \in 1..Len(M)
    BY <1>1
  <2>2. NextNumber(L, j-1, M[j].n - Lost(M[j-1]))
    BY <1>3, <2>1, Zenon DEF Honest, Counted
  <2>3. \A i \in 1..j-1 : M[i] = L[i]
    BY <2>1, Zenon
  <2> QED BY <2>2, <2>3, NextNumberAgrees, Zenon
<1> QED BY <1>2, <1>3, Zenon DEF Honest, Chained, Counted

LEMMA CrashKeepsFiles == ASSUME LogInvariant, FileInvariant, Crash PROVE FileInvariant'
<1>1. /\ game' = "crashed" /\ buffer' = <<>>
      /\ UNCHANGED <<ring, head, tail, undeclared, tick, at, scratch, claimed, file, handle, disk>>
  BY DEF Crash
<1>2. disk \in Seq(LineSet) /\ buffer \in Seq(LineSet) /\ Lines \in Seq(LineSet) /\ Shelves
  BY LinesAreLines DEF LogInvariant, FileInvariant
<1>3. Len(disk) <= Len(Lines) /\ \A i \in 1..Len(disk) : disk[i] = Lines[i]
  BY <1>2 DEF Lines
<1>4. Honest(disk)
  BY <1>2, <1>3, PartIsHonest, Zenon DEF FileInvariant
<1>5. Lines' = disk
  <2>1. disk \o <<>> = disk
    BY <1>2, ConcatEmptySeq
  <2> QED BY <1>1, <2>1, Zenon DEF Lines
<1>6. Honest(Lines)'
  <2>1. Honest(Lines')
    BY <1>4, <1>5, Zenon
  <2> QED BY <2>1, Zenon DEF Honest, Chained, Counted, NextNumber, NoBody, Newest, Lost, Follows
<1>7. TicksGrow' /\ Numbering'
  BY <1>1, Zenon DEF FileInvariant, TicksGrow, Numbering, NextBody, NotBefore, Tick
<1>8. Shelves'
  BY <1>1, <1>2 DEF Shelves
<1>9. ~Alive'
  BY <1>1 DEF Alive
<1> QED BY <1>6, <1>7, <1>8, <1>9 DEF FileInvariant

LEMMA FlushDoneKeepsFiles == ASSUME LogInvariant, FileInvariant, FlushDone PROVE FileInvariant'
<1>1. /\ Write(<<>>, TRUE) /\ game = "flushing"
      /\ UNCHANGED <<ring, head, tail, undeclared, tick, at, scratch, claimed, nextSeq, file,
                     handle, rotation>>
  BY DEF FlushDone
<1>2. Types /\ Shelves /\ TicksGrow /\ Numbering /\ Lines \in Seq(LineSet) /\ Alive
  BY <1>1, LinesAreLines DEF LogInvariant, FileInvariant, Alive
<1>3. Lines' = Lines /\ disk' \in Seq(LineSet)
  <2>1. <<>> \in Seq(LineSet) /\ Lines \o <<>> = Lines
    BY <1>2, ConcatEmptySeq
  <2>2. TRUE \in BOOLEAN
    OBVIOUS
  <2> QED BY <1>1, <1>2, <2>1, <2>2, WriteAppends, Zenon
<1>4. Shelves'
  <2>1. handle => file # "none"
    BY <1>2 DEF Shelves
  <2>2. file = "none" => disk' = disk /\ buffer' = buffer
    BY <1>1, <2>1, Zenon DEF Write
  <2> QED BY <1>1, <1>2, <1>3, <2>2, Zenon DEF Shelves
<1>5. TicksGrow' /\ Numbering' /\ Due' = Due
  BY <1>1, <1>2, Zenon DEF TicksGrow, Numbering, Due, NextBody, NotBefore, Tick
<1>6. /\ \A t \in Nat : NotBefore(t) => NotBefore(t)'
      /\ \A t \in Nat : NotBefore(t) /\ (\A i \in DOMAIN scratch : t <= scratch[i].tick)
                          => \A i \in DOMAIN scratch' : t <= scratch'[i].tick
  BY <1>1, Zenon DEF NotBefore, Tick
<1>7. Tip => Tip'
  BY <1>1, <1>3, <1>5, <1>6, TipStays, Zenon
<1>8. Honest(Lines)'
  BY <1>3, LinesStay
<1> QED BY <1>1, <1>2, <1>4, <1>5, <1>7, <1>8, Zenon DEF FileInvariant

LEMMA WriteEndKeepsFiles == ASSUME LogInvariant, FileInvariant, WriteEnd PROVE FileInvariant'
<1>1. /\ game = "closing" /\ game' = "ended" /\ at = "idle" /\ file # "none"
      /\ UNCHANGED <<ring, head, tail, undeclared, tick, at, scratch, claimed, file>>
  BY DEF WriteEnd
<1>2. Types /\ Shelves /\ TicksGrow /\ Numbering /\ Lines \in Seq(LineSet) /\ Honest(Lines) /\ Alive
  BY <1>1, LinesAreLines DEF LogInvariant, FileInvariant, Alive
<1>3. TicksGrow' /\ Numbering'
  BY <1>1, <1>2, Zenon DEF TicksGrow, Numbering, NextBody, NotBefore, Tick
<1>4. ~Alive'
  BY <1>1 DEF Alive
<1>5. CASE file = "failed"
  <2>1. /\ handle' = handle /\ disk' = disk /\ buffer' = buffer
    BY <1>5 DEF WriteEnd
  <2>2. Lines' = Lines
    BY <2>1, Zenon DEF Lines
  <2>3. Shelves'
    BY <1>1, <1>2, <2>1, Zenon DEF Shelves
  <2> QED BY <1>3, <1>4, <2>2, <2>3, LinesStay, Zenon DEF FileInvariant
<1>6. CASE file # "failed"
  <2> DEFINE x == Line("end", nextSeq, rotation, tick, tail)
  <2>1. Write(<<x>>, TRUE) /\ handle' = FALSE
    BY <1>6 DEF WriteEnd
  <2>2. file = "open" /\ handle /\ Tip /\ scratch = <<>> /\ claimed = 0 /\ head = tail
    BY <1>1, <1>2, <1>6 DEF LogInvariant, FileInvariant, Hands, Shelves
  <2>3. nextSeq \in Nat /\ rotation \in Nat /\ tick \in Nat /\ tail \in Nat
    BY <1>2 DEF Types
  <2>4. x \in LineSet /\ x.name = "end" /\ x.seq = nextSeq /\ x.rot = rotation /\ x.tick = tick /\ x.n = tail
    BY <2>3 DEF Line, LineSet
  <2> HIDE DEF x
  <2>5. Due = tail
    <3>1. head \in Nat /\ undeclared \in Nat
      BY <1>2 DEF Types
    <3>2. Pending = 0
      BY <2>2, <3>1 DEF Pending
    <3>3. ~(undeclared > 0)
      BY <3>2, CapacityPositive DEF LogInvariant, Accounts
    <3> QED BY <2>2, <3>1, <3>3 DEF Due, NextBody
  <2>6. /\ Lines # <<>> /\ Last = Lines[Len(Lines)] /\ Last.name \in {"begin", "body"}
        /\ Last.seq + 1 = nextSeq /\ Last.rot = rotation /\ Last.tick <= tick
        /\ NextNumber(Lines, Len(Lines), Due)
    BY <2>2, Zenon DEF Tip, Last, NotBefore
  <2>7. Follows(Last, x)
    BY <2>4, <2>6, Zenon DEF Follows
  <2>8. x.n - Lost(Last) = Due
    BY <2>3, <2>4, <2>5, <2>6 DEF Lost
  <2>9. <<x>> \in Seq(LineSet) /\ TRUE \in BOOLEAN
    BY <2>4
  <2>10. Lines \o <<x>> \in Seq(LineSet) /\ Honest(Lines \o <<x>>)
    <3>1. NextNumber(Lines, Len(Lines), x.n - Lost(Lines[Len(Lines)]))
      BY <2>6, <2>8, Zenon
    <3>2. Follows(Lines[Len(Lines)], x)
      BY <2>6, <2>7, Zenon
    <3> QED BY <1>2, <2>4, <2>6, <3>1, <3>2, LineAdded, Zenon
  <2>11. Lines' = Lines \o <<x>> /\ disk' \in Seq(LineSet)
    BY <1>2, <2>1, <2>2, <2>9, WriteAppends, Zenon
  <2>12. Honest(Lines)'
    <3>1. Honest(Lines')
      BY <2>10, <2>11, Zenon
    <3> QED BY <3>1, Zenon DEF Honest, Chained, Counted, NextNumber, NoBody, Newest, Lost, Follows
  <2>13. Shelves'
    BY <1>1, <1>2, <2>1, <2>11, Zenon DEF Shelves
  <2> QED BY <1>3, <1>4, <2>12, <2>13, Zenon DEF FileInvariant
<1> QED BY <1>5, <1>6

LEMMA LastOfBatch ==
  ASSUME NEW L \in Seq(LineSet), NEW B \in Seq(LineSet), B # <<>>
  PROVE  /\ Len(L \o B) = Len(L) + Len(B)
         /\ (L \o B)[Len(L \o B)] = B[Len(B)]
         /\ L \o B # <<>>
<1>1. Len(L) \in Nat /\ Len(B) \in Nat \ {0} /\ Len(L \o B) = Len(L) + Len(B)
  OBVIOUS
<1>2. (L \o B)[Len(L) + Len(B)] = B[Len(B)]
  BY <1>1
<1>3. L \o B # <<>>
  BY <1>1
<1> QED BY <1>1, <1>2, <1>3, Zenon

LEMMA WriteBatchKeepsFiles == ASSUME LogInvariant, FileInvariant, WriteBatch PROVE FileInvariant'
<1> DEFINE x        == Line("dropped", nextSeq, rotation, Stamp, claimed)
           declared == IF claimed = 0 THEN <<>> ELSE <<x>>
           first    == nextSeq + Len(declared)
           bodies   == [i \in 1..Len(scratch) |-> BodyLine(scratch[i], first + i - 1)]
           b        == Len(scratch)
<1>1. /\ Write(declared \o bodies, WantsSync)
      /\ nextSeq' = first + b
      /\ scratch' = <<>> /\ claimed' = 0 /\ at' = "idle"
      /\ UNCHANGED <<ring, head, tail, undeclared, tick, game, file, handle, rotation>>
  BY DEF WriteBatch
<1>2. /\ Types /\ Shelves /\ TicksGrow /\ Numbering /\ Lines \in Seq(LineSet) /\ Honest(Lines)
      /\ Alive /\ scratch # <<>> /\ scratch \in Seq(Records) /\ WantsSync \in BOOLEAN
  BY LinesAreLines DEF LogInvariant, FileInvariant, WriteBatch, Shelves, Types, WantsSync
<1>3. TicksGrow' /\ Numbering' /\ \A t : NotBefore(t) => NotBefore(t)'
  BY <1>1, <1>2, EmptyBatchIsSound, Zenon
<1>4. CASE ~handle
  <2>1. disk' = disk /\ buffer' = buffer
    BY <1>1, <1>4 DEF Write
  <2>2. Lines' = Lines
    BY <2>1, Zenon DEF Lines
  <2>3. file # "open"
    BY <1>2, <1>4 DEF LogInvariant, Hands, Alive
  <2>4. Shelves'
    BY <1>1, <1>2, <2>1, Zenon DEF Shelves
  <2> QED BY <1>1, <1>3, <2>2, <2>3, <2>4, LinesStay, Zenon DEF FileInvariant
<1>5. CASE handle
  <2>1. file = "open" /\ Tip
    BY <1>2, <1>5, Zenon DEF Shelves, FileInvariant
  <2>2. /\ nextSeq \in Nat /\ rotation \in Nat /\ claimed \in Nat /\ b \in Nat \ {0}
        /\ DOMAIN scratch = 1..b /\ NextBody \in Int /\ Due \in Int
    BY <1>2, NumbersAreNumbers DEF Types
  <2>3. /\ Stamp \in Nat /\ Last.tick <= Stamp /\ \A i \in DOMAIN scratch : Stamp <= scratch[i].tick
    BY <1>2, <2>1, StampFits
  <2>4. /\ Lines # <<>> /\ Last = Lines[Len(Lines)] /\ Last.name \in {"begin", "body"}
        /\ Last.seq + 1 = nextSeq /\ Last.rot = rotation
        /\ \A i \in DOMAIN scratch : Last.tick <= scratch[i].tick
        /\ NextNumber(Lines, Len(Lines), Due)
    BY <2>1, Zenon DEF Tip, Last
  <2>5. /\ x \in LineSet /\ x.name = "dropped" /\ x.seq = nextSeq /\ x.rot = rotation
        /\ x.tick = Stamp /\ x.n = claimed
    BY <2>2, <2>3 DEF Line, LineSet
  <2> HIDE DEF x
  <2>6. declared \in Seq(LineSet) /\ Len(declared) \in Nat
    BY <2>5
  \* L: the lines with that of the losses, z: its last line
  <2> DEFINE L == Lines \o declared  z == L[Len(L)]
  <2>7. /\ L \in Seq(LineSet) /\ L # <<>> /\ Honest(L)
        /\ z.seq + 1 = first /\ z.rot = rotation /\ z.name \in {"begin", "body", "dropped"}
        /\ \A i \in DOMAIN scratch : z.tick <= scratch[i].tick
        /\ NextNumber(L, Len(L), NextBody - Lost(z))
    <3>1. CASE claimed = 0
      <4>1. Lines \o <<>> = Lines
        BY <1>2, ConcatEmptySeq
      <4>2. L = Lines
        BY <3>1, <4>1, Zenon
      <4>3. first = nextSeq
        BY <2>2, <3>1
      <4>4. NextBody - Lost(Last) = Due
        BY <2>2, <2>4, <3>1 DEF Lost, Due
      <4> HIDE DEF L, first
      <4>5. z = Last
        BY <2>4, <4>2, Zenon
      <4>6. NextNumber(L, Len(L), NextBody - Lost(z))
        BY <2>4, <4>2, <4>4, <4>5, Zenon
      <4> QED BY <1>2, <2>4, <4>2, <4>3, <4>5, <4>6, Zenon
    <3>2. CASE claimed # 0
      <4>1. L = Lines \o <<x>>
        BY <3>2
      <4>2. first = nextSeq + 1
        BY <2>2, <3>2
      <4> HIDE DEF L, first
      <4>3. Follows(Last, x)
        BY <2>3, <2>4, <2>5, Zenon DEF Follows
      <4>4. x.name # "body" /\ x.name \notin {"body", "end"}
        BY <2>5
      <4>5. Follows(Lines[Len(Lines)], x)
        BY <2>4, <4>3, Zenon
      <4>6. /\ L \in Seq(LineSet) /\ Len(L) = Len(Lines) + 1 /\ L[Len(Lines) + 1] = x
            /\ Honest(L) /\ NextNumber(L, Len(Lines) + 1, Due)
        BY <1>2, <2>4, <2>5, <4>1, <4>4, <4>5, LineAdded, Zenon
      <4>7. L # <<>> /\ z = x
        <5>1. L # <<>>
          BY <1>2, <4>6
        <5> QED BY <4>6, <5>1, Zenon
      <4>8. NextBody - Lost(x) = Due
        BY <2>2, <2>5 DEF Lost, Due
      <4>9. NextNumber(L, Len(L), NextBody - Lost(z))
        BY <4>6, <4>7, <4>8, Zenon
      <4>10. x.seq + 1 = first
        BY <2>5, <4>2, Zenon
      <4> QED BY <2>3, <2>5, <4>6, <4>7, <4>9, <4>10, Zenon
    <3> QED BY <3>1, <3>2
  <2>8. first \in Nat
    BY <2>2, <2>6
  <2> HIDE DEF L, first
  <2>9. /\ bodies \in Seq(LineSet) /\ Len(bodies) = b
        /\ \A i \in 1..b : /\ bodies[i].name = "body" /\ bodies[i].n = scratch[i].id
                           /\ bodies[i].seq = first + i - 1 /\ bodies[i].rot = rotation
                           /\ bodies[i].tick = scratch[i].tick
    <3>1. ASSUME NEW i \in 1..b
          PROVE  LET body == BodyLine(scratch[i], first + i - 1)
                 IN  /\ body \in LineSet
                     /\ body.name = "body" /\ body.n = scratch[i].id
                     /\ body.seq = first + i - 1 /\ body.rot = rotation
                     /\ body.tick = scratch[i].tick
      <4>1. scratch[i] \in Records /\ first + i - 1 \in Nat
        BY <1>2, <2>2, <2>8, <3>1
      <4> QED BY <2>2, <4>1 DEF BodyLine, Line, LineSet, Records
    <3> QED BY <2>2, <3>1
  <2>10. declared \o bodies \in Seq(LineSet) /\ L \o bodies \in Seq(LineSet)
    BY <2>6, <2>7, <2>9
  <2>11. Lines' = L \o bodies /\ disk' \in Seq(LineSet)
    <3>1. Lines' = Lines \o (declared \o bodies) /\ disk' \in Seq(LineSet)
      BY <1>1, <1>2, <1>5, <2>10, WriteAppends, Zenon
    <3> HIDE DEF declared, bodies
    <3>2. (Lines \o declared) \o bodies = Lines \o (declared \o bodies)
      BY <1>2, <2>6, <2>9, ConcatAssociative
    <3> QED BY <3>1, <3>2, Zenon DEF L
  <2> HIDE DEF declared, bodies, b
  <2>12. Chained(bodies)
    <3>1. ASSUME NEW i \in 1..b-1 PROVE Follows(bodies[i], bodies[i+1])
      <4>1. /\ i \in 1..b /\ i + 1 \in 1..b /\ i <= i + 1
            /\ (first + i - 1) + 1 = first + (i + 1) - 1
        BY <2>2, <2>8, <3>1
      <4>2. scratch[i].tick <= scratch[i+1].tick
        BY <1>2, <2>2, <4>1, Zenon DEF TicksGrow
      <4> QED BY <2>9, <4>1, <4>2 DEF Follows
    <3> QED BY <2>9, <3>1, Zenon DEF Chained
  <2>13. Follows(z, bodies[1])
    <3>1. 1 \in 1..b /\ first + 1 - 1 = first
      BY <2>2, <2>8
    <3>2. z.tick <= scratch[1].tick
      BY <2>2, <2>7, <3>1, Zenon
    <3>3. bodies[1].seq = z.seq + 1 /\ z.tick <= bodies[1].tick /\ bodies[1].rot = z.rot
          /\ bodies[1].name = "body"
      BY <2>7, <2>9, <3>1, <3>2, Zenon
    <3> QED BY <2>7, <3>3 DEF Follows
  <2>14. \A i \in 1..Len(bodies) : bodies[i].name = "body" /\ bodies[i].n = NextBody + i - 1
    BY <1>2, <2>2, <2>9, Zenon DEF Numbering
  <2>15. bodies # <<>>
    BY <2>2, <2>9
  <2>16. Honest(L \o bodies) /\ NextNumber(L \o bodies, Len(L) + Len(bodies), NextBody + Len(bodies))
    BY <2>2, <2>7, <2>9, <2>12, <2>13, <2>14, <2>15, BodiesAdded, Zenon
  <2> DEFINE M == L \o bodies
  <2>17. /\ Len(M) = Len(L) + b /\ M[Len(M)] = bodies[b] /\ M # <<>>
    BY <2>7, <2>9, <2>15, LastOfBatch, Zenon
  <2> HIDE DEF M
  <2>18. Honest(Lines)'
    <3>1. Honest(Lines')
      BY <2>11, <2>16, Zenon
    <3> QED BY <3>1, Zenon DEF Honest, Chained, Counted, NextNumber, NoBody, Newest, Lost, Follows
  <2>19. Shelves'
    BY <1>1, <1>2, <2>1, <2>11 DEF Shelves
  <2>20. Due' = NextBody + b
    <3>1. head - undeclared - 0 - 0 = NextBody + b
      BY <1>2, NumbersAreNumbers DEF NextBody, b
    <3>2. Len(<<>>) = 0
      OBVIOUS
    <3>3. Due' = head - undeclared - 0 - 0
      BY <1>1, <3>2, Zenon DEF Due, NextBody
    <3> QED BY <3>1, <3>3, Zenon
  <2>21. Tip'
    <3>1. Last' = bodies[b]
      BY <2>11, <2>17, Zenon DEF Last, M
    <3>2. b \in 1..b /\ first + b - 1 + 1 = first + b
      BY <2>2, <2>8
    <3>3. NotBefore(scratch[b].tick)
      BY <1>2, <2>2, <3>2, Zenon DEF TicksGrow
    <3> DEFINE t == scratch[b].tick
    <3>4. Last'.tick = t /\ NotBefore(t)
      BY <2>9, <3>1, <3>2, <3>3, Zenon
    <3> HIDE DEF t
    <3>5. NotBefore(Last.tick)'
      BY <1>1, <3>4, Zenon DEF NotBefore, Tick
    <3>6. NextNumber(Lines, Len(Lines), Due)'
      <4>1. NextNumber(Lines', Len(Lines'), Due')
        BY <2>9, <2>11, <2>16, <2>17, <2>20, Zenon DEF M
      <4> QED BY <4>1, Zenon DEF NextNumber, NoBody, Newest
    <3>7. \A i \in DOMAIN scratch' : Last'.tick <= scratch'[i].tick
      <4>1. DOMAIN scratch' = {}
        BY <1>1
      <4> QED BY <4>1, Zenon
    <3>8. Last'.seq + 1 = nextSeq'
      BY <1>1, <2>9, <3>1, <3>2, Zenon
    <3>9. Lines' # <<>> /\ Last'.name \in {"begin", "body"} /\ Last'.rot = rotation'
      BY <1>1, <2>9, <2>11, <2>17, <3>1, <3>2, Zenon DEF M
    <3> QED BY <3>5, <3>6, <3>7, <3>8, <3>9, Zenon DEF Tip
  <2> QED BY <1>3, <2>18, <2>19, <2>21, Zenon DEF FileInvariant
<1> QED BY <1>4, <1>5

---------------------------------------------------------------------------
(* The files can be trusted                                                *)

LEMMA FilesInit == Init => FileInvariant
<1> SUFFICES ASSUME Init PROVE FileInvariant
  OBVIOUS
<1>1. /\ disk = <<>> /\ buffer = <<>> /\ scratch = <<>> /\ at = "idle" /\ claimed = 0
      /\ file = "none" /\ handle = FALSE /\ head = 0 /\ tail = 0
  BY DEF Init
<1>2. Shelves
  BY <1>1 DEF Shelves
<1>3. DOMAIN scratch = {} /\ head..tail-1 = {}
  BY <1>1
<1>4. TicksGrow /\ Numbering
  BY <1>3, Zenon DEF TicksGrow, Numbering
<1>5. Honest(Lines)
  <2>1. Len(Lines) = 0
    BY <1>1 DEF Lines
  <2>2. 1..Len(Lines)-1 = {} /\ 2..Len(Lines) = {}
    BY <2>1
  <2> QED BY <2>2, Zenon DEF Honest, Chained, Counted
<1>6. file # "open"
  BY <1>1
<1> QED BY <1>2, <1>4, <1>5, <1>6, Zenon DEF FileInvariant

LEMMA FilesStep == LogInvariant /\ FileInvariant /\ [Next]_vars => FileInvariant'
<1> SUFFICES ASSUME LogInvariant, FileInvariant, [Next]_vars PROVE FileInvariant'
  OBVIOUS
<1>1. CASE Emit
  BY <1>1, EmitKeepsFiles
<1>2. CASE BeginTick
  BY <1>2, BeginTickKeepsFiles
<1>3. CASE Shutdown
  BY <1>3, ShutdownKeepsFiles
<1>4. CASE DrainBegin
  BY <1>4, DrainBeginKeepsFiles
<1>5. CASE OpenFirstFile
  BY <1>5, OpenFirstFileKeepsFiles
<1>6. CASE DrainRefused
  BY <1>6, DrainRefusedKeepsFiles
<1>7. CASE RotateFile
  BY <1>7, RotateFileKeepsFiles
<1>8. CASE WriteBatch
  BY <1>8, WriteBatchKeepsFiles
<1>9. CASE FlushDone
  BY <1>9, FlushDoneKeepsFiles
<1>10. CASE WriteEnd
  BY <1>10, WriteEndKeepsFiles
<1>11. CASE Crash
  BY <1>11, CrashKeepsFiles
<1>12. CASE UNCHANGED vars
  <2>1. UNCHANGED <<ring, head, tail, undeclared, tick, game, at, scratch, claimed, nextSeq,
                    file, handle, rotation, disk, buffer>>
    BY <1>12 DEF vars
  <2>2. Lines' = Lines
    BY <2>1 DEF Lines
  <2>3. Shelves' /\ TicksGrow' /\ Numbering'
    BY <2>1, Zenon DEF FileInvariant, Shelves, TicksGrow, Numbering, NextBody, NotBefore, Tick
  <2>4. Due' = Due /\ (Alive' <=> Alive)
    BY <2>1, Zenon DEF Due, NextBody, Alive
  <2>5. /\ \A t \in Nat : NotBefore(t) => NotBefore(t)'
        /\ \A t \in Nat : NotBefore(t) /\ (\A i \in DOMAIN scratch : t <= scratch[i].tick)
                            => \A i \in DOMAIN scratch' : t <= scratch'[i].tick
    BY <2>1, Zenon DEF NotBefore, Tick
  <2>6. Tip => Tip'
    BY <2>1, <2>2, <2>4, <2>5, TipStays, Zenon
  <2> QED BY <2>1, <2>2, <2>3, <2>4, <2>6, LinesStay, Zenon DEF FileInvariant
<1> QED BY <1>1, <1>2, <1>3, <1>4, <1>5, <1>6, <1>7, <1>8, <1>9, <1>10, <1>11, <1>12 DEF Next, Drain

\* However the log ends, the lines of the files that were kept can be trusted:
\* numbered without a hole, in the order of their ticks, each file joined to the
\* next, and every gap between two records declared with its exact size
\* (drainNow, rotateFile, shutdown): for rings, batches, files and buffers of any
\* size, and any number of files kept.
THEOREM FilesAreHonest == Spec => []FileIsHonest
<1>1. LogInvariant /\ FileInvariant => FileIsHonest
  <2> SUFFICES ASSUME LogInvariant, FileInvariant PROVE FileIsHonest
    OBVIOUS
  <2>1. Types /\ Shelves /\ Honest(Lines)
    BY Zenon DEF LogInvariant, FileInvariant
  <2> QED BY <2>1, LinesAreLines, HonestFiles, Zenon
<1> QED BY <1>1, InitHolds, StepKeeps, FilesInit, FilesStep, PTL DEF Spec

---------------------------------------------------------------------------
(* The first file                                                          *)

\* Nothing was said before a file was asked for, and when the first one could
\* not be opened it is the failure that was said.
FirstFile ==
  /\ file = "none" => said = "nothing" /\ rotation = 0
  /\ file = "failed" /\ ~RotationFailed => said = "failure"

LEMMA FirstFileKeeps == LogInvariant /\ FirstFile /\ [Next]_vars => FirstFile'
<1> SUFFICES ASSUME LogInvariant, FirstFile, [Next]_vars PROVE FirstFile'
  OBVIOUS
<1>1. CASE UNCHANGED <<file, said, rotation>>
  BY <1>1 DEF FirstFile, RotationFailed
<1>2. CASE OpenFirstFile
  <2>1. file' = "open" \/ (file' = "failed" /\ ReportOnce("failure"))
    BY <1>2 DEF OpenFirstFile
  <2>2. said = "nothing"
    BY <1>2 DEF OpenFirstFile, FirstFile
  <2> QED
    BY <2>1, <2>2 DEF FirstFile, ReportOnce
<1>3. CASE RotateFile
  <2>1. file' \in {"open", "failed"} /\ rotation' = rotation + 1 /\ rotation \in Nat
    BY <1>3 DEF RotateFile, LogInvariant, Types
  <2> QED
    BY <2>1 DEF FirstFile, RotationFailed
<1>4. WriteBatch \/ FlushDone \/ WriteEnd => UNCHANGED <<file, said, rotation>>
  BY DEF WriteBatch, FlushDone, WriteEnd, writer
<1>5. Emit \/ BeginTick \/ Shutdown \/ DrainBegin \/ DrainRefused \/ Crash \/ UNCHANGED vars
        => UNCHANGED <<file, said, rotation>>
  BY DEF Emit, BeginTick, Shutdown, DrainBegin, DrainRefused, Crash, vars, writer
<1> QED
  BY <1>1, <1>2, <1>3, <1>4, <1>5 DEF Next, Drain

\* What FailureIsTold says of every failure is true of the one it was written
\* for: when no file could be opened at all, every record is counted as dropped
\* and stderr was told (ensureFileOpen, drainNow, reportOnce). It is a
\* rotation that fails which escapes the promise.
THEOREM FirstFailureIsTold ==
  Spec => [](~RotationFailed => FailureIsTold)
<1>1. Init => FirstFile
  BY DEF Init, FirstFile
<1>2. LogInvariant /\ FirstFile => (~RotationFailed => FailureIsTold)
  <2> SUFFICES ASSUME LogInvariant, FirstFile, ~RotationFailed, file = "failed", at = "idle"
               PROVE  head = written + dropped /\ said = "failure"
    BY DEF FailureIsTold
  <2>1. scratch = <<>> /\ written \in Nat /\ dropped \in Nat
    BY DEF LogInvariant, Types, Hands
  <2>2. Len(scratch) = 0
    BY <2>1
  <2>3. head = written + Len(scratch) + dropped
    BY DEF LogInvariant, Accounts
  <2> QED
    BY <2>1, <2>2, <2>3 DEF FirstFile
<1> QED
  BY <1>1, <1>2, InitHolds, StepKeeps, FirstFileKeeps, PTL DEF Spec

=============================================================================
