------------------------ MODULE ParallelStreamProofs ------------------------
(***************************************************************************)
(* Proofs about the ParallelStream, for every number of workers, every     *)
(* dump and every way of cutting it into chunks, whichever workers fail or *)
(* are killed: memory stays bounded, no failure is swallowed, what is      *)
(* written are the results of the first chunks in their order, chunks are  *)
(* whole statements, and their results are what the sequential parser      *)
(* would have written.                                                     *)
(*                                                                         *)
(* The argument.  The queue holds the latest submissions in their order,   *)
(* so what is pending or running is at its end (Unwritten), and the main   *)
(* process only reads on while the queue is not full (Room).  The          *)
(* generator of chunks never takes back what it has yielded (ReadGrows),   *)
(* so what has been submitted are the first chunks of the dump, and all of *)
(* them once the input is read (CutInv).  Nobody changes what is finished, *)
(* for a worker only completes what it alone is running (JobInv), so what  *)
(* has left the queue had a result (OutcomeInv).  The generator is inside  *)
(* of a statement when a parser of the chunk is (Agree), and that parser   *)
(* does as the sequential one does with the same lines (Alike).            *)
(***************************************************************************)
EXTENDS ParallelStream, SqlDumpProofs, FiniteSetTheorems, TLAPS

Task == [chunk : Seq(Line), status : {"pending", "running", "done", "failed"}]

(* Lines are collected and submitted as sequences. *)
Typed ==
  /\ dump \in Dumps
  /\ pos \in Nat
  /\ chunker.buffer \in Seq(Line)
  /\ tasks \in Seq(Task)

(* The submissions are numbered from 1, and the futures in flight are the
   latest of them, the oldest first. *)
QueueIsTail ==
  /\ queue \in Seq(Nat)
  /\ Len(queue) <= Len(tasks)
  /\ \A k \in 1 .. Len(queue) : queue[k] = Len(tasks) - Len(queue) + k

(* What has not been finished has not been written either. *)
Unwritten ==
  \A i \in DOMAIN tasks :
    tasks[i].status \in {"pending", "running"} => i > Len(tasks) - Len(queue)

(* The queue is never longer than allowed, and there is room for one more
   while the main process reads. *)
Room ==
  /\ Len(queue) <= MaxInFlight
  /\ pc = "feed" => Len(queue) < MaxInFlight

FlightInv == Typed /\ QueueIsTail /\ Unwritten /\ Room

(* There are at least two workers, so at least four chunks may be in flight. *)
LEMMA MaxInFlightType == MaxInFlight \in Nat /\ MaxInFlight > 3
BY WorkerAssumption, FS_CardinalityType DEF MaxInFlight

(* A submission appends to the tasks and to the queue, or fails. *)
LEMMA SubmitStep ==
  ASSUME QueueIsTail, Unwritten, Room, tasks \in Seq(Task),
         NEW chunk \in Seq(Line), Submit(chunk), pc = "feed"
  PROVE  tasks' \in Seq(Task) /\ QueueIsTail' /\ Unwritten' /\ Room'
<1>1. CASE broken
  BY <1>1 DEF Submit, QueueIsTail, Unwritten, Room
<1>2. CASE ~broken
  <2>. DEFINE task == [chunk |-> chunk, status |-> "pending"]
  <2>1. /\ tasks' = Append(tasks, task)
        /\ queue' = Append(queue, Len(tasks) + 1)
        /\ pc' = IF Len(queue) + 1 >= MaxInFlight THEN "wait" ELSE "feed"
    BY <1>2 DEF Submit, NextFuture, Full
  <2>2. Len(queue) \in Nat /\ queue \in Seq(Nat) /\ Len(tasks) \in Nat
    BY DEF QueueIsTail
  <2>3. /\ queue' \in Seq(Nat) /\ Len(queue') = Len(queue) + 1
        /\ queue'[Len(queue) + 1] = Len(tasks) + 1
        /\ \A k \in 1 .. Len(queue) : queue'[k] = queue[k]
    BY <2>1, <2>2
  <2>4. task \in Task
    BY DEF Task
  <2>. HIDE DEF task
  <2>5. /\ tasks' \in Seq(Task)
        /\ Len(tasks') = Len(tasks) + 1 /\ DOMAIN tasks' = 1 .. Len(tasks) + 1
        /\ \A i \in 1 .. Len(tasks) : tasks'[i] = tasks[i]
    BY <2>1, <2>2, <2>4
  <2>6. QueueIsTail'
    <3>1. Len(tasks') - Len(queue') = Len(tasks) - Len(queue) /\ Len(queue') <= Len(tasks')
      BY <2>2, <2>3, <2>5 DEF QueueIsTail
    <3>2. ASSUME NEW k \in 1 .. Len(queue) + 1
          PROVE  queue'[k] = Len(tasks) - Len(queue) + k
      <4>1. CASE k = Len(queue) + 1
        BY <2>2, <2>3, <4>1
      <4>2. CASE k # Len(queue) + 1
        <5>1. k \in 1 .. Len(queue)
          BY <2>2, <4>2
        <5>. QED
          BY <2>3, <5>1 DEF QueueIsTail
      <4>. QED
        BY <4>1, <4>2
    <3>. QED
      BY <2>3, <3>1, <3>2 DEF QueueIsTail
  <2>7. Unwritten'
    <3>. SUFFICES ASSUME NEW i \in DOMAIN tasks', tasks'[i].status \in {"pending", "running"}
                  PROVE  i > Len(tasks) - Len(queue)
      BY <2>2, <2>3, <2>5 DEF Unwritten
    <3>1. CASE i = Len(tasks) + 1
      BY <2>2, <3>1
    <3>2. CASE i # Len(tasks) + 1
      BY <2>2, <2>5, <3>2, SMTT(30) DEF Unwritten
    <3>. QED
      BY <3>1, <3>2
  <2>8. Room'
    BY <2>1, <2>2, <2>3, MaxInFlightType DEF Room
  <2>. QED
    BY <2>5, <2>6, <2>7, <2>8
<1>. QED
  BY <1>1, <1>2

(* Reading a line, or the end of the input, submits at most one chunk. *)
LEMMA FeedStep ==
  ASSUME FlightInv, Feed \/ FeedRest
  PROVE  FlightInv'
<1>. USE DEF FlightInv
<1>1. CASE Feed
  <2>. DEFINE l == dump.lines[pos + 1]
              d == Track(chunker, l)
  <2>1. /\ pc = "feed" /\ pos < Len(dump.lines) /\ dump' = dump /\ pos' = pos + 1
        /\ \/ chunker' = [d EXCEPT !.buffer = <<>>] /\ Submit(d.buffer)
           \/ chunker' = d /\ UNCHANGED <<tasks, queue, pc>>
    BY <1>1 DEF Feed
  <2>2. l \in Line
    <3>1. Len(dump.lines) \in Nat
      BY LinesAssumption DEF Typed
    <3>. QED
      BY <2>1, <3>1, LineType DEF Typed
  <2>. HIDE DEF l
  <2>3. d.buffer \in Seq(Line) /\ [d EXCEPT !.buffer = <<>>].buffer = <<>>
    BY <2>2 DEF Track, Typed
  <2>. HIDE DEF d
  <2>4. dump' \in Dumps /\ pos' \in Nat
    BY <2>1 DEF Typed
  <2>5. CASE chunker' = [d EXCEPT !.buffer = <<>>] /\ Submit(d.buffer)
    <3>1. tasks' \in Seq(Task) /\ QueueIsTail' /\ Unwritten' /\ Room'
      BY <2>1, <2>3, <2>5, SubmitStep DEF Typed
    <3>. QED
      BY <2>3, <2>4, <2>5, <3>1 DEF Typed
  <2>6. CASE chunker' = d /\ UNCHANGED <<tasks, queue, pc>>
    BY <2>3, <2>4, <2>6 DEF Typed, QueueIsTail, Unwritten, Room
  <2>. QED
    BY <2>1, <2>5, <2>6
<1>2. CASE FeedRest
  <2>1. pc = "feed" /\ dump' = dump /\ pos' = pos
    BY <1>2 DEF FeedRest
  <2>2. CASE chunker.buffer = <<>>
    BY <1>2, <2>1, <2>2 DEF FeedRest, Typed, QueueIsTail, Unwritten, Room
  <2>3. CASE chunker.buffer # <<>>
    <3>1. chunker' = [chunker EXCEPT !.buffer = <<>>] /\ Submit(chunker.buffer)
      BY <1>2, <2>3 DEF FeedRest
    <3>2. tasks' \in Seq(Task) /\ QueueIsTail' /\ Unwritten' /\ Room'
      BY <2>1, <3>1, SubmitStep DEF Typed
    <3>3. chunker'.buffer \in Seq(Line)
      BY <3>1 DEF Typed
    <3>. QED
      BY <2>1, <3>2, <3>3 DEF Typed
  <2>. QED
    BY <2>2, <2>3
<1>. QED
  BY <1>1, <1>2

(* The oldest future leaves the queue; it is finished. *)
LEMMA WriteStep ==
  ASSUME FlightInv, Write
  PROVE  FlightInv'
<1>1. /\ queue # <<>> /\ tasks[Head(queue)].status = "done"
      /\ queue' = Tail(queue) /\ tasks' = tasks
      /\ dump' = dump /\ pos' = pos /\ chunker' = chunker
  BY DEF Write
<1>2. queue \in Seq(Nat) /\ Len(queue) \in Nat /\ Len(queue) > 0 /\ Len(tasks) \in Nat
  BY <1>1 DEF FlightInv, Typed, QueueIsTail
<1>3. /\ queue' \in Seq(Nat) /\ Len(queue') = Len(queue) - 1
      /\ \A k \in 1 .. Len(queue) - 1 : queue'[k] = queue[k + 1]
      /\ Head(queue) = queue[1]
  BY <1>1, <1>2
<1>4. QueueIsTail'
  BY <1>1, <1>2, <1>3 DEF FlightInv, QueueIsTail
<1>5. Head(queue) = Len(tasks) - Len(queue) + 1
  BY <1>2, <1>3 DEF FlightInv, QueueIsTail
<1>6. Unwritten'
  BY <1>1, <1>2, <1>3, <1>5 DEF FlightInv, Typed, QueueIsTail, Unwritten
<1>7. Room'
  BY <1>1, <1>2, <1>3, MaxInFlightType DEF FlightInv, Room
<1>. QED
  BY <1>1, <1>4, <1>6, <1>7 DEF FlightInv, Typed

(* Leaving the loop, returning and raising submit and write nothing. *)
LEMMA LeaveStep ==
  ASSUME FlightInv, Raise \/ Return \/ Propagate
  PROVE  FlightInv'
BY DEF FlightInv, Raise, Return, Propagate, Typed, QueueIsTail, Unwritten, Room

(* What the workers do leaves the queue as it is and makes nothing pending or
   running that was finished. *)
LEMMA WorkerStep ==
  ASSUME FlightInv, (\E w \in Worker : Take(w) \/ Complete(w)) \/ Die
  PROVE  FlightInv'
<1>. DEFINE Unfinished(t) == t.status \in {"pending", "running"}
<1>. DEFINE Safe == /\ tasks' \in Seq(Task) /\ Len(tasks') = Len(tasks)
                    /\ \A i \in DOMAIN tasks : Unfinished(tasks'[i]) => Unfinished(tasks[i])
<1>1. queue' = queue /\ UNCHANGED main
  BY DEF Take, Complete, Die
<1>2. Safe
  <2>1. tasks \in Seq(Task)
    BY DEF FlightInv, Typed
  <2>2. ASSUME NEW i \in DOMAIN tasks, NEW status \in {"pending", "running", "done", "failed"}
        PROVE  /\ [tasks[i] EXCEPT !.status = status] \in Task
               /\ [tasks[i] EXCEPT !.status = status].status = status
    <3>1. tasks[i] \in Task
      BY <2>1
    <3>. QED
      BY <3>1 DEF Task
  <2>3. ASSUME NEW i, NEW status \in {"running", "done", "failed"},
               i \in DOMAIN tasks /\ status = "running" => tasks[i].status = "pending",
               tasks' = [tasks EXCEPT ![i].status = status]
        PROVE  Safe
    <3>. DEFINE t == [tasks[i] EXCEPT !.status = status]
    <3>1. tasks' = [tasks EXCEPT ![i] = t]
      BY <2>3
    <3>2. i \in DOMAIN tasks => t \in Task /\ t.status = status
      BY <2>2
    <3>. HIDE DEF t
    <3>3. /\ tasks' \in Seq(Task) /\ Len(tasks') = Len(tasks)
          /\ \A j \in DOMAIN tasks : tasks'[j] = IF j = i THEN t ELSE tasks[j]
      <4>1. tasks' = [j \in 1 .. Len(tasks) |-> IF j = i THEN t ELSE tasks[j]] /\ Len(tasks) \in Nat
        <5>1. Len(tasks) \in Nat /\ DOMAIN tasks = 1 .. Len(tasks)
          BY <2>1
        <5>2. tasks' = [j \in DOMAIN tasks |-> IF j = i THEN t ELSE tasks[j]]
          BY <2>1, <3>1
        <5>. QED
          BY <5>1, <5>2
      <4>2. \A j \in 1 .. Len(tasks) : tasks'[j] \in Task
        BY <2>1, <3>2, <4>1
      <4>. QED
        BY <4>1, <4>2
    <3>. QED
      BY <2>3, <3>2, <3>3
  <2>4. ASSUME NEW w \in Worker, Take(w)
        PROVE  Safe
    BY <2>3, <2>4 DEF Take
  <2>5. ASSUME NEW w \in Worker, Complete(w)
        PROVE  Safe
    BY <2>3, <2>5 DEF Complete
  <2>6. CASE Die
    <3>1. tasks' = [i \in DOMAIN tasks |->
                      IF Unfinished(tasks[i])
                        THEN [tasks[i] EXCEPT !.status = "failed"] ELSE tasks[i]]
      BY <2>6 DEF Die
    <3>2. \A i \in DOMAIN tasks : tasks'[i] \in Task /\ ~Unfinished(tasks'[i])
      <4>. TAKE i \in DOMAIN tasks
      <4>1. tasks[i] \in Task
        BY <2>1
      <4>2. CASE Unfinished(tasks[i])
        <5>. DEFINE t == [tasks[i] EXCEPT !.status = "failed"]
        <5>1. t \in Task /\ t.status = "failed"
          BY <2>2
        <5>2. tasks'[i] = t
          BY <3>1, <4>2
        <5>. QED
          BY <5>1, <5>2
      <4>3. CASE ~Unfinished(tasks[i])
        BY <3>1, <4>1, <4>3
      <4>. QED
        BY <4>2, <4>3
    <3>. QED
      BY <2>1, <3>1, <3>2
  <2>. QED
    BY <2>4, <2>5, <2>6
<1>3. DOMAIN tasks' = DOMAIN tasks
  BY <1>2 DEF FlightInv, Typed
<1>. QED
  BY <1>1, <1>2, <1>3 DEF FlightInv, Typed, QueueIsTail, Unwritten, Room, main

(* The call starts with nothing submitted, and no step of the main process or
   of a worker leaves the invariant. *)
LEMMA FlightInvariance == Spec => []FlightInv
<1>1. Init => FlightInv
  BY MaxInFlightType
    DEF Init, NewChunker, FlightInv, Typed, QueueIsTail, Unwritten, Room
<1>2. FlightInv /\ [Next]_vars => FlightInv'
  <2>1. FlightInv /\ UNCHANGED vars => FlightInv'
    BY DEF vars, FlightInv, Typed, QueueIsTail, Unwritten, Room
  <2>. QED
    BY <2>1, FeedStep, WriteStep, LeaveStep, WorkerStep DEF Next, Main
<1>. QED
  BY <1>1, <1>2, PTL DEF Spec

(* At most two chunks for each worker are submitted and not yet written, and
   only the latest submissions can be pending or running: the memory of a
   parallel run does not grow with the dump. *)
THEOREM BoundedInFlight == Spec => []InFlightBounded
<1>1. FlightInv => InFlightBounded
  <2>. SUFFICES ASSUME FlightInv,
                       NEW i \in DOMAIN tasks, tasks[i].status \in {"pending", "running"}
                PROVE  i > Len(tasks) - MaxInFlight
    BY DEF InFlightBounded, FlightInv, Room
  <2>1. i > Len(tasks) - Len(queue) /\ Len(queue) <= MaxInFlight
    BY DEF FlightInv, Unwritten, Room
  <2>2. Len(tasks) \in Nat /\ Len(queue) \in Nat /\ i \in Nat
    BY DEF FlightInv, Typed, QueueIsTail
  <2>. QED
    BY <2>1, <2>2, MaxInFlightType
<1>. QED
  BY <1>1, FlightInvariance, PTL

-----------------------------------------------------------------------------
(* The laws of the loop over the lines. *)
CutFold == INSTANCE FoldLaws WITH Op <- Yielded

(* The generator has read the first n lines of a dump. *)
Read(d, n) == FoldLeft(Yielded, NothingRead, SubSeq(d.lines, 1, n))

(* The generator with the chunks it has yielded. *)
Cutting ==
  [chunker : [buffer : Seq(Line), copy : BOOLEAN, insert : BOOLEAN], chunks : Seq(Seq(Line))]

(* The fold that FoldLaws speaks of is that of the model. *)
LEMMA SameFold == \A base, s : FoldLeft(Yielded, base, s) = CutFold!FoldLeft(Yielded, base, s)
BY DEF FoldLeft, CutFold!FoldLeft, MapThenFoldSet, CutFold!MapThenFoldSet, Max, CutFold!Max

(* One more line completes a chunk or is collected. *)
LEMMA YieldedType ==
  ASSUME NEW a \in Cutting, NEW l \in Line
  PROVE  /\ Yielded(a, l) \in Cutting
         /\ Cut(a.chunker, l) =>
              Yielded(a, l) = [chunker |-> [Track(a.chunker, l) EXCEPT !.buffer = <<>>],
                               chunks |-> Append(a.chunks, Track(a.chunker, l).buffer)]
         /\ ~Cut(a.chunker, l) =>
              Yielded(a, l) = [chunker |-> Track(a.chunker, l), chunks |-> a.chunks]
<1>. DEFINE d == Track(a.chunker, l)
            C == [buffer : Seq(Line), copy : BOOLEAN, insert : BOOLEAN]
<1>1. /\ a = [chunker |-> a.chunker, chunks |-> a.chunks]
      /\ a.chunker \in C /\ a.chunks \in Seq(Seq(Line))
  BY DEF Cutting
<1>2. d \in C
  <2>1. Append(a.chunker.buffer, l) \in Seq(Line)
    BY <1>1
  <2>2. (IF a.chunker.copy THEN l.kind # "end" ELSE l.kind = "copy") \in BOOLEAN
    OBVIOUS
  <2>3. (IF a.chunker.copy \/ l.kind = "copy" THEN a.chunker.insert
         ELSE (a.chunker.insert \/ l.kind = "insert") /\ ~HasSemicolon(l)) \in BOOLEAN
    BY <1>1
  <2>. QED
    BY <2>1, <2>2, <2>3 DEF Track
<1>. HIDE DEF d
<1>3. d = Track(a.chunker, l)
  BY DEF d
<1>4. /\ Yielded(a, l) = IF Cut(a.chunker, l)
             THEN [chunker |-> [d EXCEPT !.buffer = <<>>], chunks |-> Append(a.chunks, d.buffer)]
             ELSE [a EXCEPT !.chunker = d]
  BY <1>3 DEF Yielded
<1>5. [a EXCEPT !.chunker = d] = [chunker |-> d, chunks |-> a.chunks]
  BY <1>1
<1>6. [d EXCEPT !.buffer = <<>>] \in C
  <2>1. <<>> \in Seq(Line)
    OBVIOUS
  <2>. QED
    BY <1>2, <2>1
<1>7. Append(a.chunks, d.buffer) \in Seq(Seq(Line))
  BY <1>1, <1>2
<1>8. Yielded(a, l) \in Cutting
  BY <1>1, <1>2, <1>4, <1>5, <1>6, <1>7 DEF Cutting
<1>. QED
  BY <1>3, <1>4, <1>5, <1>8

(* The generator reads one line after the other, and in the end all of them. *)
LEMMA ReadSteps ==
  ASSUME NEW d \in Dumps
  PROVE  /\ Read(d, 0) = NothingRead
         /\ \A n \in Nat : n < Len(d.lines) => Read(d, n + 1) = Yielded(Read(d, n), d.lines[n + 1])
         /\ Read(d, Len(d.lines)) = FoldLeft(Yielded, NothingRead, d.lines)
<1>1. d.lines \in Seq(Line) /\ Len(d.lines) \in Nat
  BY DumpLines
<1>2. Read(d, 0) = NothingRead
  <2>1. SubSeq(d.lines, 1, 0) = <<>>
    BY <1>1, FirstLines
  <2>2. CutFold!FoldLeft(Yielded, NothingRead, <<>>) = NothingRead
    BY CutFold!FoldEmpty
  <2>. QED
    BY <2>1, <2>2, SameFold DEF Read
<1>3. ASSUME NEW n \in Nat, n < Len(d.lines)
      PROVE  Read(d, n + 1) = Yielded(Read(d, n), d.lines[n + 1])
  <2>1. n \in 0 .. Len(d.lines)
    BY <1>1, <1>3
  <2>2. /\ SubSeq(d.lines, 1, n + 1) = Append(SubSeq(d.lines, 1, n), d.lines[n + 1])
        /\ SubSeq(d.lines, 1, n) \in Seq(Line)
    BY <1>1, <1>3, <2>1, FirstLines
  <2>3. d.lines[n + 1] \in Line
    BY <1>1, <1>3
  <2>4. PICK s \in Seq(Line) : s = SubSeq(d.lines, 1, n)
    BY <2>2
  <2>5. CutFold!FoldLeft(Yielded, NothingRead, Append(s, d.lines[n + 1]))
          = Yielded(CutFold!FoldLeft(Yielded, NothingRead, s), d.lines[n + 1])
    BY <2>3, CutFold!FoldAppend
  <2>. QED
    BY <2>2, <2>4, <2>5, SameFold DEF Read
<1>4. Read(d, Len(d.lines)) = FoldLeft(Yielded, NothingRead, d.lines)
  <2>1. Len(d.lines) \in 0 .. Len(d.lines)
    BY <1>1
  <2>2. SubSeq(d.lines, 1, Len(d.lines)) = d.lines
    BY <1>1, <2>1, FirstLines
  <2>. QED
    BY <2>2 DEF Read
<1>. QED
  BY <1>2, <1>3, <1>4

(* It collects lines and yields sequences of them. *)
LEMMA ReadType ==
  ASSUME NEW d \in Dumps, NEW n \in Nat, n <= Len(d.lines)
  PROVE  Read(d, n) \in Cutting
<1>. DEFINE Bad == {m \in Nat : m <= Len(d.lines) /\ Read(d, m) \notin Cutting}
<1>1. d.lines \in Seq(Line) /\ Len(d.lines) \in Nat
  BY DumpLines
<1>. SUFFICES ASSUME Bad # {}
              PROVE  FALSE
  OBVIOUS
<1>2. PICK m \in Bad : \A k \in Bad : m <= k
  BY CutFold!LeastOfSet
<1>3. NothingRead \in Cutting
  BY DEF NothingRead, NewChunker, Cutting
<1>4. m # 0 /\ m \in Nat /\ m <= Len(d.lines) /\ Read(d, m) \notin Cutting
  BY <1>2, <1>3, ReadSteps
<1>5. m - 1 \in Nat /\ m - 1 < Len(d.lines) /\ (m - 1) + 1 = m /\ ~(m <= m - 1)
  BY <1>1, <1>4
<1>6. Read(d, m - 1) \in Cutting
  <2>1. m - 1 <= Len(d.lines)
    BY <1>1, <1>5
  <2>. QED
    BY <1>2, <1>5, <2>1
<1>7. d.lines[m] \in Line
  BY <1>1, <1>4
<1>8. Read(d, m) = Yielded(Read(d, m - 1), d.lines[m])
  BY <1>5, ReadSteps
<1>. QED
  BY <1>4, <1>6, <1>7, <1>8, YieldedType

(* A longer sequence has the same beginning. *)
LEMMA BeginsAppend ==
  ASSUME NEW S, NEW a \in Seq(S), NEW b \in Seq(S), NEW x \in S, Begins(a, b)
  PROVE  Begins(a, Append(b, x))
<1>1. Len(a) \in Nat /\ Len(b) \in Nat
  OBVIOUS
<1>. QED
  BY <1>1 DEF Begins

(* Chunks yielded are never taken back. *)
LEMMA ReadGrows ==
  ASSUME NEW d \in Dumps, NEW n \in Nat, n <= Len(d.lines)
  PROVE  Begins(Read(d, n).chunks, Chunks(d.lines))
<1>1. d.lines \in Seq(Line) /\ Len(d.lines) \in Nat
  BY DumpLines
<1>2. Begins(Read(d, n).chunks, Read(d, Len(d.lines)).chunks)
  <2>. DEFINE Bad == {m \in Nat : /\ n <= m /\ m <= Len(d.lines)
                                  /\ ~Begins(Read(d, n).chunks, Read(d, m).chunks)}
  <2>. SUFFICES ASSUME Bad # {}
                PROVE  FALSE
    BY <1>1
  <2>1. PICK m \in Bad : \A k \in Bad : m <= k
    BY CutFold!LeastOfSet
  <2>2. /\ m \in Nat /\ n <= m /\ m <= Len(d.lines)
        /\ ~Begins(Read(d, n).chunks, Read(d, m).chunks)
    BY <2>1
  <2>3. m # n
    <3>1. Read(d, n).chunks \in Seq(Seq(Line))
      BY ReadType DEF Cutting
    <3>2. Begins(Read(d, n).chunks, Read(d, n).chunks)
      BY <3>1 DEF Begins
    <3>. QED
      BY <2>2, <3>2
  <2>4. /\ m - 1 \in Nat /\ n <= m - 1 /\ m - 1 < Len(d.lines) /\ (m - 1) + 1 = m
        /\ m - 1 <= Len(d.lines) /\ ~(m <= m - 1)
    BY <1>1, <2>2, <2>3
  <2>5. Begins(Read(d, n).chunks, Read(d, m - 1).chunks)
    BY <2>1, <2>4
  <2>6. Read(d, m - 1) \in Cutting /\ d.lines[m] \in Line
    BY <1>1, <2>2, <2>4, ReadType
  <2>7. Read(d, m) = Yielded(Read(d, m - 1), d.lines[m])
    BY <2>4, ReadSteps
  <2>8. CASE Cut(Read(d, m - 1).chunker, d.lines[m])
    <3>1. Read(d, m).chunks =
            Append(Read(d, m - 1).chunks, Track(Read(d, m - 1).chunker, d.lines[m]).buffer)
      BY <2>6, <2>7, <2>8, YieldedType
    <3>2. Track(Read(d, m - 1).chunker, d.lines[m]).buffer \in Seq(Line)
      BY <2>6 DEF Track, Cutting
    <3>3. Read(d, n).chunks \in Seq(Seq(Line)) /\ Read(d, m - 1).chunks \in Seq(Seq(Line))
      BY <2>6, ReadType DEF Cutting
    <3>. QED
      BY <2>2, <2>5, <3>1, <3>2, <3>3, BeginsAppend
  <2>9. CASE ~Cut(Read(d, m - 1).chunker, d.lines[m])
    BY <2>2, <2>5, <2>6, <2>7, <2>9, YieldedType
  <2>. QED
    BY <2>8, <2>9
<1>3. PICK end : end = Read(d, Len(d.lines))
  OBVIOUS
<1>4. end \in Cutting
  BY <1>1, <1>3, ReadType
<1>5. Chunks(d.lines) = IF end.chunker.buffer = <<>> THEN end.chunks
                        ELSE Append(end.chunks, end.chunker.buffer)
  BY <1>3, ReadSteps DEF Chunks
<1>6. end.chunks \in Seq(Seq(Line)) /\ end.chunker.buffer \in Seq(Line)
      /\ Read(d, n).chunks \in Seq(Seq(Line))
  BY <1>4, ReadType DEF Cutting
<1>. QED
  BY <1>2, <1>3, <1>5, <1>6, BeginsAppend

(* The chunks of a dump are sequences of its lines. *)
LEMMA ChunksType ==
  ASSUME NEW d \in Dumps
  PROVE  Chunks(d.lines) \in Seq(Seq(Line))
<1>1. PICK end : end = Read(d, Len(d.lines))
  OBVIOUS
<1>2. Len(d.lines) \in Nat
  BY DumpLines
<1>3. end.chunks \in Seq(Seq(Line)) /\ end.chunker.buffer \in Seq(Line)
  BY <1>1, <1>2, ReadType DEF Cutting
<1>4. Chunks(d.lines) = IF end.chunker.buffer = <<>> THEN end.chunks
                        ELSE Append(end.chunks, end.chunker.buffer)
  BY <1>1, ReadSteps DEF Chunks
<1>. QED
  BY <1>3, <1>4

-----------------------------------------------------------------------------
(* The chunks that have been submitted. *)
Submitted == [i \in DOMAIN tasks |-> tasks[i].chunk]

(* What has been submitted are the first chunks of the dump; while the main process
   reads, they are those that the generator has yielded, and the generator is where it
   would be after as many lines, unless it has given out its rest. *)
CutInv ==
  /\ pos \in Nat /\ pos <= Len(dump.lines)
  /\ Begins(Submitted, Chunks(dump.lines))
  /\ pc \in {"feed", "wait"} =>
       \/ chunker = Read(dump, pos).chunker /\ Submitted = Read(dump, pos).chunks
       \/ pos = Len(dump.lines) /\ chunker.buffer = <<>> /\ Submitted = Chunks(dump.lines)
  /\ pc \in {"drain", "done"} => Submitted = Chunks(dump.lines)

(* What a worker is busy with is running, and nobody else is busy with it. *)
JobInv ==
  /\ job \in [Worker -> Nat]
  /\ \A w \in Worker : job[w] # 0 =>
       /\ job[w] \in DOMAIN tasks
       /\ tasks[job[w]].status = "running"
       /\ \A v \in Worker : job[v] = job[w] => v = w

(* What has been written had a result; when the call is over, nothing waits, and there
   is a reason for an exception. *)
OutcomeInv ==
  /\ \A i \in DOMAIN tasks : i <= Len(tasks) - Len(queue) => tasks[i].status = "done"
  /\ pc = "done" => queue = <<>>
  /\ pc \in {"exit", "raised"} => broken \/ \E i \in DOMAIN tasks : tasks[i].status = "failed"
  /\ pc = "raised" => \A i \in DOMAIN tasks : tasks[i].status \in {"done", "failed"}

(* The inductive invariant. *)
StreamInv == FlightInv /\ CutInv /\ JobInv /\ OutcomeInv

(* They are sequences of lines, one for each task. *)
LEMMA SubmittedType ==
  ASSUME tasks \in Seq(Task)
  PROVE  /\ Submitted \in Seq(Seq(Line)) /\ Len(Submitted) = Len(tasks)
         /\ \A i \in 1 .. Len(tasks) : Submitted[i] = tasks[i].chunk
<1>1. Len(tasks) \in Nat /\ DOMAIN tasks = 1 .. Len(tasks)
  OBVIOUS
<1>2. \A i \in 1 .. Len(tasks) : tasks[i].chunk \in Seq(Line)
  <2>1. \A i \in 1 .. Len(tasks) : tasks[i] \in Task
    OBVIOUS
  <2>. QED
    BY <2>1 DEF Task
<1>. QED
  BY <1>1, <1>2 DEF Submitted

(* A submission is refused, or one more chunk has been submitted. *)
LEMMA SubmitChunk ==
  ASSUME StreamInv, pc = "feed", NEW chunk \in Seq(Line), Submit(chunk), broken' = broken,
         job' = job
  PROVE  /\ \/ Submitted' = Append(Submitted, chunk) /\ pc' \in {"feed", "wait"}
            \/ Submitted' = Submitted /\ pc' = "exit"
         /\ JobInv' /\ OutcomeInv'
<1>1. /\ tasks \in Seq(Task) /\ queue \in Seq(Nat) /\ Len(tasks) \in Nat /\ Len(queue) \in Nat
      /\ Len(queue) <= Len(tasks) /\ DOMAIN tasks = 1 .. Len(tasks)
  BY DEF StreamInv, FlightInv, Typed, QueueIsTail
<1>2. CASE broken
  <2>1. tasks' = tasks /\ queue' = queue /\ pc' = "exit"
    BY <1>2 DEF Submit
  <2>2. Submitted' = Submitted
    BY <2>1 DEF Submitted
  <2>3. JobInv' /\ OutcomeInv'
    BY <1>2, <2>1 DEF StreamInv, JobInv, OutcomeInv
  <2>. QED
    BY <2>1, <2>2, <2>3
<1>3. CASE ~broken
  <2>. DEFINE task == [chunk |-> chunk, status |-> "pending"]
  <2>1. /\ tasks' = Append(tasks, task) /\ queue' = Append(queue, NextFuture)
        /\ pc' \in {"feed", "wait"}
    BY <1>3 DEF Submit
  <2>2. task \in Task /\ task.chunk = chunk /\ task.status = "pending"
    BY DEF Task
  <2>. HIDE DEF task
  <2>3. /\ Len(tasks') = Len(tasks) + 1 /\ DOMAIN tasks' = 1 .. Len(tasks) + 1
        /\ tasks'[Len(tasks) + 1] = task
        /\ \A i \in 1 .. Len(tasks) : tasks'[i] = tasks[i]
    BY <1>1, <2>1, <2>2
  <2>4. Len(queue') = Len(queue) + 1
    <3>1. NextFuture \in Nat
      BY <1>1 DEF NextFuture
    <3>. QED
      BY <1>1, <2>1, <3>1
  <2>5. Submitted' = Append(Submitted, chunk)
    <3>1. /\ Submitted \in Seq(Seq(Line)) /\ Len(Submitted) = Len(tasks)
          /\ \A i \in 1 .. Len(tasks) : Submitted[i] = tasks[i].chunk
      BY <1>1, SubmittedType
    <3>2. Submitted' = [i \in 1 .. Len(tasks) + 1 |-> tasks'[i].chunk]
      BY <2>3 DEF Submitted
    <3>3. \A i \in 1 .. Len(tasks) + 1 : tasks'[i].chunk = Append(Submitted, chunk)[i]
      BY <1>1, <2>2, <2>3, <3>1
    <3>4. Append(Submitted, chunk) = [i \in 1 .. Len(tasks) + 1 |-> Append(Submitted, chunk)[i]]
      <4>1. ASSUME NEW S, NEW s \in Seq(S), NEW x \in S, NEW n \in Nat, Len(s) = n
            PROVE  Append(s, x) = [i \in 1 .. n + 1 |-> Append(s, x)[i]]
        <5>1. Append(s, x) \in Seq(S) /\ Len(Append(s, x)) = n + 1
          BY <4>1
        <5>2. \A t \in Seq(S) : t = [i \in 1 .. Len(t) |-> t[i]]
          OBVIOUS
        <5>. QED
          BY <5>1, <5>2
      <4>. QED
        BY <1>1, <3>1, <4>1, SMTT(30)
    <3>. QED
      BY <3>2, <3>3, <3>4
  <2>6. JobInv'
    <3>. SUFFICES ASSUME NEW w \in Worker, job[w] # 0
                  PROVE  /\ job[w] \in DOMAIN tasks'
                         /\ tasks'[job[w]].status = "running"
                         /\ \A v \in Worker : job[v] = job[w] => v = w
      BY DEF StreamInv, JobInv
    <3>1. /\ job[w] \in 1 .. Len(tasks) /\ tasks[job[w]].status = "running"
          /\ \A v \in Worker : job[v] = job[w] => v = w
      BY <1>1 DEF StreamInv, JobInv
    <3>. QED
      BY <1>1, <2>3, <3>1
  <2>7. OutcomeInv'
    <3>1. ASSUME NEW i \in DOMAIN tasks', i <= Len(tasks') - Len(queue')
          PROVE  tasks'[i].status = "done"
      <4>1. i \in 1 .. Len(tasks) /\ i <= Len(tasks) - Len(queue)
        BY <1>1, <2>3, <2>4, <3>1
      <4>. QED
        BY <1>1, <2>3, <4>1 DEF StreamInv, OutcomeInv
    <3>. QED
      BY <2>1, <3>1 DEF OutcomeInv
  <2>. QED
    BY <2>1, <2>5, <2>6, <2>7
<1>. QED
  BY <1>2, <1>3

(* A line is read as the generator reads it; the chunk it completes is submitted. *)
LEMMA FeedKeeps ==
  ASSUME StreamInv, Feed
  PROVE  StreamInv'
<1>. DEFINE l == dump.lines[pos + 1]
            d == Track(chunker, l)
<1>1. /\ pc = "feed" /\ pos < Len(dump.lines) /\ pos' = pos + 1
      /\ dump' = dump /\ job' = job /\ broken' = broken
      /\ \/ Cut(chunker, l) /\ chunker' = [d EXCEPT !.buffer = <<>>] /\ Submit(d.buffer)
         \/ ~Cut(chunker, l) /\ chunker' = d /\ UNCHANGED <<tasks, queue, pc>>
  BY DEF Feed
<1>2. /\ dump \in Dumps /\ tasks \in Seq(Task) /\ pos \in Nat /\ pos <= Len(dump.lines)
      /\ Len(dump.lines) \in Nat
  BY DumpLines DEF StreamInv, FlightInv, Typed, CutInv
<1>3. l \in Line
  BY <1>1, <1>2, LineType
<1>. HIDE DEF l
<1>4. chunker = Read(dump, pos).chunker /\ Submitted = Read(dump, pos).chunks
  BY <1>1, <1>2 DEF StreamInv, CutInv
<1>5. Read(dump, pos) \in Cutting
  BY <1>2, ReadType
<1>6. Read(dump, pos + 1) = Yielded(Read(dump, pos), l)
  BY <1>1, <1>2, ReadSteps DEF l
<1>7. pos + 1 \in Nat /\ pos + 1 <= Len(dump.lines)
  BY <1>1, <1>2
<1>8. /\ Begins(Read(dump, pos + 1).chunks, Chunks(dump.lines))
      /\ Begins(Submitted, Chunks(dump.lines))
  BY <1>2, <1>7, ReadGrows DEF StreamInv, CutInv
<1>9. d.buffer \in Seq(Line)
  BY <1>3, <1>4, <1>5 DEF Track, Cutting
<1>. HIDE DEF d
<1>10. CASE Cut(chunker, l) /\ chunker' = [d EXCEPT !.buffer = <<>>] /\ Submit(d.buffer)
  <2>1. /\ \/ Submitted' = Append(Submitted, d.buffer) /\ pc' \in {"feed", "wait"}
           \/ Submitted' = Submitted /\ pc' = "exit"
        /\ JobInv' /\ OutcomeInv'
    BY <1>1, <1>9, <1>10, SubmitChunk
  <2>2. Read(dump, pos + 1) = [chunker |-> chunker', chunks |-> Append(Submitted, d.buffer)]
    BY <1>3, <1>4, <1>5, <1>6, <1>10, YieldedType DEF d
  <2>3. CutInv'
    <3>1. CASE Submitted' = Append(Submitted, d.buffer) /\ pc' \in {"feed", "wait"}
      <4>1. Submitted' = Read(dump', pos').chunks /\ chunker' = Read(dump', pos').chunker
        BY <1>1, <2>2, <3>1
      <4>2. Begins(Submitted', Chunks(dump'.lines))
        BY <1>1, <1>8, <4>1
      <4>. QED
        BY <1>1, <1>7, <3>1, <4>1, <4>2 DEF CutInv
    <3>2. CASE Submitted' = Submitted /\ pc' = "exit"
      BY <1>1, <1>7, <1>8, <3>2 DEF CutInv
    <3>. QED
      BY <2>1, <3>1, <3>2
  <2>. QED
    BY <2>1, <2>3, FeedStep DEF StreamInv
<1>11. CASE ~Cut(chunker, l) /\ chunker' = d /\ UNCHANGED <<tasks, queue, pc>>
  <2>1. Read(dump, pos + 1) = [chunker |-> chunker', chunks |-> Submitted]
    BY <1>3, <1>4, <1>5, <1>6, <1>11, YieldedType DEF d
  <2>2. Submitted' = Submitted /\ pc' = "feed"
    BY <1>1, <1>11 DEF Submitted
  <2>3. CutInv'
    BY <1>1, <1>7, <1>8, <2>1, <2>2 DEF CutInv
  <2>4. JobInv' /\ OutcomeInv'
    BY <1>1, <1>11 DEF StreamInv, JobInv, OutcomeInv
  <2>. QED
    BY <2>3, <2>4, FeedStep DEF StreamInv
<1>. QED
  BY <1>1, <1>10, <1>11

(* The rest is the last of the chunks of the dump. *)
LEMMA RestKeeps ==
  ASSUME StreamInv, FeedRest
  PROVE  StreamInv'
<1>1. /\ pc = "feed" /\ pos = Len(dump.lines) /\ pos' = pos
      /\ dump' = dump /\ job' = job /\ broken' = broken
      /\ \/ chunker.buffer = <<>> /\ pc' = "drain" /\ UNCHANGED <<chunker, tasks, queue>>
         \/ /\ chunker.buffer # <<>> /\ chunker' = [chunker EXCEPT !.buffer = <<>>]
            /\ Submit(chunker.buffer)
  BY DEF FeedRest
<1>2. /\ dump \in Dumps /\ tasks \in Seq(Task) /\ pos \in Nat
      /\ chunker.buffer \in Seq(Line) /\ Begins(Submitted, Chunks(dump.lines))
      /\ \/ chunker = Read(dump, pos).chunker /\ Submitted = Read(dump, pos).chunks
         \/ chunker.buffer = <<>> /\ Submitted = Chunks(dump.lines)
  BY <1>1 DEF StreamInv, FlightInv, Typed, CutInv
<1>3. Chunks(dump.lines) =
        IF Read(dump, pos).chunker.buffer = <<>> THEN Read(dump, pos).chunks
        ELSE Append(Read(dump, pos).chunks, Read(dump, pos).chunker.buffer)
  BY <1>1, <1>2, ReadSteps DEF Chunks
<1>4. CASE chunker.buffer = <<>> /\ pc' = "drain" /\ UNCHANGED <<chunker, tasks, queue>>
  <2>1. Submitted = Chunks(dump.lines) /\ Submitted' = Submitted
    BY <1>2, <1>3, <1>4 DEF Submitted
  <2>2. CutInv'
    BY <1>1, <1>2, <1>4, <2>1 DEF StreamInv, CutInv
  <2>3. JobInv' /\ OutcomeInv'
    BY <1>1, <1>4 DEF StreamInv, JobInv, OutcomeInv
  <2>. QED
    BY <2>2, <2>3, FeedStep DEF StreamInv
<1>5. CASE /\ chunker.buffer # <<>> /\ chunker' = [chunker EXCEPT !.buffer = <<>>]
           /\ Submit(chunker.buffer)
  <2>1. /\ \/ Submitted' = Append(Submitted, chunker.buffer) /\ pc' \in {"feed", "wait"}
           \/ Submitted' = Submitted /\ pc' = "exit"
        /\ JobInv' /\ OutcomeInv'
    BY <1>1, <1>2, <1>5, SubmitChunk
  <2>2. Append(Submitted, chunker.buffer) = Chunks(dump.lines)
    BY <1>2, <1>3, <1>5
  <2>3. Begins(Chunks(dump.lines), Chunks(dump.lines))
    <3>1. Len(Chunks(dump.lines)) \in Nat
      BY <1>2, ChunksType
    <3>. QED
      BY <3>1 DEF Begins
  <2>4. chunker'.buffer = <<>>
    <3>1. chunker = Read(dump, pos).chunker
      BY <1>2, <1>5
    <3>2. Read(dump, pos) \in Cutting
      BY <1>1, <1>2, ReadType
    <3>. QED
      BY <1>5, <3>1, <3>2 DEF Cutting
  <2>5. CutInv'
    <3>1. CASE Submitted' = Append(Submitted, chunker.buffer) /\ pc' \in {"feed", "wait"}
      BY <1>1, <1>2, <2>2, <2>3, <2>4, <3>1 DEF CutInv
    <3>2. CASE Submitted' = Submitted /\ pc' = "exit"
      BY <1>1, <1>2, <3>2 DEF CutInv
    <3>. QED
      BY <2>1, <3>1, <3>2
  <2>. QED
    BY <2>1, <2>5, FeedStep DEF StreamInv
<1>. QED
  BY <1>1, <1>4, <1>5

(* What is written next is the result of the next chunk. *)
LEMMA WriteKeeps ==
  ASSUME StreamInv, Write
  PROVE  /\ StreamInv'
         /\ Len(tasks) - Len(queue) < Len(Chunks(dump.lines))
         /\ tasks[Head(queue)].chunk = Chunks(dump.lines)[Len(tasks) - Len(queue) + 1]
         /\ Len(tasks') - Len(queue') = Len(tasks) - Len(queue) + 1
         /\ Len(tasks) - Len(queue) \in Nat
<1>1. /\ pc \in {"wait", "drain"} /\ queue # <<>> /\ tasks[Head(queue)].status = "done"
      /\ queue' = Tail(queue) /\ pc' = (IF pc = "wait" THEN "feed" ELSE "drain")
      /\ dump' = dump /\ pos' = pos /\ chunker' = chunker /\ tasks' = tasks /\ job' = job
      /\ broken' = broken
  BY DEF Write
<1>2. /\ dump \in Dumps /\ tasks \in Seq(Task) /\ queue \in Seq(Nat)
      /\ Len(tasks) \in Nat /\ Len(queue) \in Nat /\ Len(queue) > 0 /\ Len(queue) <= Len(tasks)
      /\ Head(queue) = queue[1] /\ Len(queue') = Len(queue) - 1
      /\ queue[1] = Len(tasks) - Len(queue) + 1
  <2>1. /\ dump \in Dumps /\ tasks \in Seq(Task) /\ queue \in Seq(Nat) /\ Len(queue) <= Len(tasks)
        /\ \A k \in 1 .. Len(queue) : queue[k] = Len(tasks) - Len(queue) + k
    BY DEF StreamInv, FlightInv, Typed, QueueIsTail
  <2>. QED
    BY <1>1, <2>1
<1>3. Len(tasks') - Len(queue') = Len(tasks) - Len(queue) + 1
  BY <1>1, <1>2
<1>4. PICK n \in 1 .. Len(tasks) : n = Len(tasks) - Len(queue) + 1
  BY <1>2
<1>5. n <= Len(Chunks(dump.lines)) /\ tasks[n].chunk = Chunks(dump.lines)[n]
  <2>1. /\ Len(Submitted) = Len(tasks)
        /\ \A i \in 1 .. Len(tasks) : Submitted[i] = tasks[i].chunk
    BY <1>2, SubmittedType
  <2>2. Begins(Submitted, Chunks(dump.lines)) /\ Len(Chunks(dump.lines)) \in Nat
    BY <1>2, ChunksType DEF StreamInv, CutInv
  <2>. QED
    BY <1>2, <1>4, <2>1, <2>2, SMTT(30) DEF Begins
<1>6. CutInv'
  <2>1. Submitted' = Submitted
    BY <1>1 DEF Submitted
  <2>. QED
    BY <1>1, <2>1 DEF StreamInv, CutInv
<1>7. JobInv'
  BY <1>1 DEF StreamInv, JobInv
<1>8. OutcomeInv'
  <2>1. ASSUME NEW i \in DOMAIN tasks, i <= Len(tasks') - Len(queue')
        PROVE  tasks[i].status = "done"
    <3>1. i = n \/ i <= Len(tasks) - Len(queue)
      BY <1>2, <1>3, <1>4, <2>1
    <3>. QED
      BY <1>1, <1>2, <1>4, <2>1, <3>1 DEF StreamInv, OutcomeInv
  <2>2. pc' \notin {"done", "exit", "raised"}
    BY <1>1
  <2>. QED
    BY <1>1, <2>1, <2>2 DEF OutcomeInv
<1>9. FlightInv'
  BY WriteStep DEF StreamInv
<1>10. Len(tasks) - Len(queue) < Len(Chunks(dump.lines)) /\ Len(tasks) - Len(queue) \in Nat
  <2>1. Len(Chunks(dump.lines)) \in Nat
    BY <1>2, ChunksType
  <2>. QED
    BY <1>2, <1>4, <1>5, <2>1
<1>. QED
  BY <1>2, <1>3, <1>4, <1>5, <1>6, <1>7, <1>8, <1>9, <1>10 DEF StreamInv

-----------------------------------------------------------------------------
(* Leaving the loop: there is a failed future, nothing is left to write, or everything
   submitted is finished. *)
LEMMA LeaveKeeps ==
  ASSUME StreamInv, Raise \/ Return \/ Propagate
  PROVE  StreamInv'
<1>1. /\ UNCHANGED <<dump, pos, chunker, tasks, queue, job, broken, out, rows>>
      /\ pc' \in {"exit", "done", "raised"}
      /\ pc' = "done" => pc = "drain" /\ queue = <<>>
      /\ pc' = "exit" => queue # <<>> /\ tasks[Head(queue)].status = "failed"
      /\ pc' = "raised" =>
           pc = "exit" /\ \A i \in DOMAIN tasks : tasks[i].status \in {"done", "failed"}
  BY DEF Raise, Return, Propagate
<1>2. CutInv'
  <2>1. Submitted' = Submitted
    BY <1>1 DEF Submitted
  <2>. QED
    BY <1>1, <2>1 DEF StreamInv, CutInv
<1>3. JobInv'
  BY <1>1 DEF StreamInv, JobInv
<1>4. OutcomeInv'
  <2>1. pc' = "exit" => \E i \in DOMAIN tasks : tasks[i].status = "failed"
    <3>. SUFFICES ASSUME pc' = "exit"
                  PROVE  Head(queue) \in DOMAIN tasks
      BY <1>1
    <3>1. /\ queue \in Seq(Nat) /\ Len(queue) <= Len(tasks) /\ tasks \in Seq(Task)
          /\ \A k \in 1 .. Len(queue) : queue[k] = Len(tasks) - Len(queue) + k
      BY DEF StreamInv, FlightInv, Typed, QueueIsTail
    <3>2. Head(queue) = queue[1] /\ Len(queue) \in Nat /\ Len(queue) > 0 /\ Len(tasks) \in Nat
      BY <1>1, <3>1
    <3>. QED
      BY <3>1, <3>2
  <2>. QED
    BY <1>1, <2>1 DEF StreamInv, OutcomeInv
<1>. QED
  BY <1>2, <1>3, <1>4, LeaveStep DEF StreamInv

(* A step of the workers, which leave what is finished as it is. *)
LEMMA PoolKeeps ==
  ASSUME StreamInv, UNCHANGED main, queue' = queue, broken => broken', FlightInv', JobInv',
         DOMAIN tasks' = DOMAIN tasks, Len(tasks') = Len(tasks),
         \A i \in DOMAIN tasks :
           /\ tasks'[i].chunk = tasks[i].chunk
           /\ tasks[i].status \in {"done", "failed"} => tasks'[i].status = tasks[i].status
  PROVE  StreamInv'
<1>1. UNCHANGED <<dump, pos, chunker, pc, out, rows>>
  BY DEF main
<1>2. Submitted' = Submitted
  BY DEF Submitted
<1>3. CutInv'
  BY <1>1, <1>2 DEF StreamInv, CutInv
<1>4. OutcomeInv'
  BY <1>1 DEF StreamInv, OutcomeInv
<1>. QED
  BY <1>3, <1>4 DEF StreamInv

(* One task with another status. *)
LEMMA TaskSet ==
  ASSUME tasks \in Seq(Task), NEW i \in DOMAIN tasks, NEW status,
         tasks' = [tasks EXCEPT ![i].status = status]
  PROVE  /\ DOMAIN tasks' = DOMAIN tasks
         /\ \A j \in DOMAIN tasks : /\ tasks'[j].chunk = tasks[j].chunk
                                    /\ tasks'[j].status = IF j = i THEN status ELSE tasks[j].status
<1>1. \A j \in DOMAIN tasks : tasks[j] \in Task
  OBVIOUS
<1>2. \A j \in DOMAIN tasks :
        tasks'[j] = IF j = i THEN [tasks[i] EXCEPT !.status = status] ELSE tasks[j]
  OBVIOUS
<1>3. /\ [tasks[i] EXCEPT !.status = status].chunk = tasks[i].chunk
      /\ [tasks[i] EXCEPT !.status = status].status = status
  BY <1>1 DEF Task
<1>. QED
  BY <1>2, <1>3

(* A worker takes what nobody runs. *)
LEMMA TakeKeeps ==
  ASSUME StreamInv, NEW w \in Worker, Take(w)
  PROVE  StreamInv'
<1>1. PICK i \in DOMAIN tasks :
        /\ tasks[i].status = "pending" /\ job[w] = 0
        /\ job' = [job EXCEPT ![w] = i]
        /\ tasks' = [tasks EXCEPT ![i].status = "running"]
        /\ UNCHANGED <<main, queue, broken>>
  BY DEF Take
<1>2. tasks \in Seq(Task) /\ job \in [Worker -> Nat]
  BY DEF StreamInv, FlightInv, Typed, JobInv
<1>3. /\ DOMAIN tasks' = DOMAIN tasks
      /\ \A j \in DOMAIN tasks : /\ tasks'[j].chunk = tasks[j].chunk
                                 /\ tasks'[j].status = IF j = i THEN "running" ELSE tasks[j].status
  BY <1>1, <1>2, TaskSet
<1>4. FlightInv'
  BY WorkerStep DEF StreamInv
<1>5. Len(tasks') = Len(tasks)
  BY <1>2, <1>3, <1>4 DEF FlightInv, Typed
<1>6. JobInv'
  <2>1. i \in Nat
    BY <1>2
  <2>2. \A v \in Worker : job'[v] = IF v = w THEN i ELSE job[v]
    BY <1>1, <1>2
  <2>3. \A v \in Worker : job[v] # 0 => job[v] # i
    BY <1>1 DEF StreamInv, JobInv
  <2>4. i # 0
    BY <1>2
  <2>5. job' \in [Worker -> Nat]
    BY <1>1, <1>2, <2>1
  <2>6. ASSUME NEW v \in Worker, job'[v] # 0
        PROVE  /\ job'[v] \in DOMAIN tasks'
               /\ tasks'[job'[v]].status = "running"
               /\ \A u \in Worker : job'[u] = job'[v] => u = v
    <3>1. CASE v = w
      BY <1>1, <1>3, <2>2, <2>3, <2>4, <3>1
    <3>2. CASE v # w
      <4>1. /\ job'[v] = job[v] /\ job[v] # 0 /\ job[v] \in DOMAIN tasks
            /\ tasks[job[v]].status = "running" /\ job[v] # i
            /\ \A u \in Worker : job[u] = job[v] => u = v
        BY <2>2, <2>3, <2>6, <3>2 DEF StreamInv, JobInv
      <4>. QED
        BY <1>3, <2>2, <4>1
    <3>. QED
      BY <3>1, <3>2
  <2>. QED
    BY <2>5, <2>6 DEF JobInv
<1>. QED
  BY <1>1, <1>3, <1>4, <1>5, <1>6, PoolKeeps

(* A worker finishes what it alone runs. *)
LEMMA CompleteKeeps ==
  ASSUME StreamInv, NEW w \in Worker, Complete(w)
  PROVE  StreamInv'
<1>1. PICK status \in {"done", "failed"} :
        /\ job[w] # 0
        /\ tasks' = [tasks EXCEPT ![job[w]].status = status]
        /\ job' = [job EXCEPT ![w] = 0]
        /\ UNCHANGED <<main, queue, broken>>
  BY DEF Complete
<1>2. /\ tasks \in Seq(Task) /\ job \in [Worker -> Nat] /\ job[w] \in DOMAIN tasks
      /\ tasks[job[w]].status = "running"
  BY <1>1 DEF StreamInv, FlightInv, Typed, JobInv
<1>3. /\ DOMAIN tasks' = DOMAIN tasks
      /\ \A j \in DOMAIN tasks : /\ tasks'[j].chunk = tasks[j].chunk
                                 /\ tasks'[j].status
                                      = IF j = job[w] THEN status ELSE tasks[j].status
  BY <1>1, <1>2, TaskSet
<1>4. FlightInv'
  BY WorkerStep DEF StreamInv
<1>5. Len(tasks') = Len(tasks)
  BY <1>2, <1>3, <1>4 DEF FlightInv, Typed
<1>6. JobInv'
  <2>1. job' \in [Worker -> Nat] /\ \A v \in Worker : job'[v] = IF v = w THEN 0 ELSE job[v]
    BY <1>1, <1>2
  <2>2. ASSUME NEW v \in Worker, job'[v] # 0
        PROVE  /\ job'[v] \in DOMAIN tasks'
               /\ tasks'[job'[v]].status = "running"
               /\ \A u \in Worker : job'[u] = job'[v] => u = v
    <3>1. /\ v # w /\ job'[v] = job[v] /\ job[v] \in DOMAIN tasks
          /\ tasks[job[v]].status = "running"
          /\ \A u \in Worker : job[u] = job[v] => u = v
      BY <2>1, <2>2 DEF StreamInv, JobInv
    <3>2. job[v] # job[w]
      BY <3>1
    <3>. QED
      BY <1>3, <2>1, <2>2, <3>1, <3>2
  <2>. QED
    BY <2>1, <2>2 DEF JobInv
<1>. QED
  BY <1>1, <1>2, <1>3, <1>4, <1>5, <1>6, PoolKeeps

(* A killed worker fails what was not finished. *)
LEMMA DieKeeps ==
  ASSUME StreamInv, Die
  PROVE  StreamInv'
<1>1. /\ UNCHANGED main /\ queue' = queue /\ broken'
      /\ job' = [w \in Worker |-> 0]
      /\ tasks' = [i \in DOMAIN tasks |->
                     IF tasks[i].status \in {"pending", "running"}
                       THEN [tasks[i] EXCEPT !.status = "failed"] ELSE tasks[i]]
  BY DEF Die
<1>2. tasks \in Seq(Task)
  BY DEF StreamInv, FlightInv, Typed
<1>3. DOMAIN tasks' = DOMAIN tasks
  BY <1>1
<1>4. FlightInv'
  BY WorkerStep DEF StreamInv
<1>5. Len(tasks') = Len(tasks)
  BY <1>2, <1>3, <1>4 DEF FlightInv, Typed
<1>6. JobInv'
  BY <1>1 DEF JobInv
<1>7. \A i \in DOMAIN tasks :
        /\ tasks'[i].chunk = tasks[i].chunk
        /\ tasks[i].status \in {"done", "failed"} => tasks'[i].status = tasks[i].status
  <2>. TAKE i \in DOMAIN tasks
  <2>1. tasks[i] \in Task
    BY <1>2
  <2>2. [tasks[i] EXCEPT !.status = "failed"].chunk = tasks[i].chunk
    BY <2>1 DEF Task
  <2>. QED
    BY <1>1, <2>2
<1>. QED
  BY <1>1, <1>3, <1>4, <1>5, <1>6, <1>7, PoolKeeps

(* Nothing is read or submitted at first. *)
LEMMA InitStream == Init => StreamInv
<1>. SUFFICES ASSUME Init
              PROVE  StreamInv
  OBVIOUS
<1>1. /\ dump \in Dumps /\ pos = 0 /\ chunker = NewChunker /\ tasks = <<>> /\ queue = <<>>
      /\ job = [w \in Worker |-> 0] /\ pc = "feed"
  BY DEF Init
<1>2. FlightInv
  BY MaxInFlightType DEF Init, NewChunker, FlightInv, Typed, QueueIsTail, Unwritten, Room
<1>3. CutInv
  <2>1. Submitted = <<>>
    BY <1>1 DEF Submitted
  <2>2. Read(dump, 0) = NothingRead /\ 0 <= Len(dump.lines)
    <3>1. dump.lines \in Seq(Line)
      BY <1>1, DumpLines
    <3>2. 0 <= Len(dump.lines)
      BY <3>1
    <3>. QED
      BY <1>1, <3>2, ReadSteps
  <2>3. Begins(Read(dump, 0).chunks, Chunks(dump.lines))
    BY <1>1, <2>2, ReadGrows
  <2>. QED
    BY <1>1, <2>1, <2>2, <2>3 DEF CutInv, NothingRead
<1>4. JobInv
  BY <1>1 DEF JobInv
<1>5. OutcomeInv
  <2>1. DOMAIN <<>> = {}
    OBVIOUS
  <2>. QED
    BY <1>1, <2>1 DEF OutcomeInv
<1>. QED
  BY <1>2, <1>3, <1>4, <1>5 DEF StreamInv

(* The invariant holds of every behaviour. *)
LEMMA StreamInvariance == Spec => []StreamInv
<1>1. ASSUME StreamInv, [Next]_vars
      PROVE  StreamInv'
  <2>1. CASE Feed
    BY <1>1, <2>1, FeedKeeps
  <2>2. CASE FeedRest
    BY <1>1, <2>2, RestKeeps
  <2>3. CASE Write
    BY <1>1, <2>3, WriteKeeps
  <2>4. CASE Raise \/ Return \/ Propagate
    BY <1>1, <2>4, LeaveKeeps
  <2>5. CASE \E w \in Worker : Take(w) \/ Complete(w)
    BY <1>1, <2>5, TakeKeeps, CompleteKeeps
  <2>6. CASE Die
    BY <1>1, <2>6, DieKeeps
  <2>7. CASE UNCHANGED vars
    <3>1. UNCHANGED <<dump, pos, chunker, tasks, queue, job, broken, pc, out, rows>>
      BY <2>7 DEF vars
    <3>2. Submitted' = Submitted
      BY <3>1 DEF Submitted
    <3>3. FlightInv' /\ CutInv'
      BY <1>1, <3>1, <3>2
        DEF StreamInv, FlightInv, Typed, QueueIsTail, Unwritten, Room, CutInv
    <3>4. JobInv' /\ OutcomeInv'
      BY <1>1, <3>1 DEF StreamInv, JobInv, OutcomeInv
    <3>. QED
      BY <3>3, <3>4 DEF StreamInv
  <2>. QED
    BY <1>1, <2>1, <2>2, <2>3, <2>4, <2>5, <2>6, <2>7 DEF Next, Main
<1>. QED
  BY <1>1, InitStream, PTL DEF Spec

(* No failure is swallowed: the call returns normally only if every chunk of the
   input has been masked, raises only if one was not, and leaves no process with work
   (chunking.py:117-127). *)
THEOREM NothingSwallowed == Spec => []FailuresSurface
<1>1. ASSUME StreamInv
      PROVE  FailuresSurface
  <2>1. ASSUME pc = "done"
        PROVE  /\ [i \in DOMAIN tasks |-> tasks[i].chunk] = Chunks(dump.lines)
               /\ \A i \in DOMAIN tasks : tasks[i].status = "done"
    <3>1. Submitted = Chunks(dump.lines)
      BY <1>1, <2>1 DEF StreamInv, CutInv
    <3>2. queue = <<>> /\ tasks \in Seq(Task)
      BY <1>1, <2>1 DEF StreamInv, OutcomeInv, FlightInv, Typed
    <3>3. \A i \in DOMAIN tasks : i <= Len(tasks) - Len(queue)
      BY <3>2
    <3>. QED
      BY <1>1, <3>1, <3>3 DEF StreamInv, OutcomeInv, Submitted
  <2>2. pc \in {"exit", "raised"} => broken \/ \E i \in DOMAIN tasks : tasks[i].status = "failed"
    BY <1>1 DEF StreamInv, OutcomeInv
  <2>3. pc = "raised" => \A i \in DOMAIN tasks : tasks[i].status \in {"done", "failed"}
    BY <1>1 DEF StreamInv, OutcomeInv
  <2>. QED
    BY <2>1, <2>2, <2>3 DEF FailuresSurface
<1>. QED
  BY <1>1, StreamInvariance, PTL

(* Nothing is written except by Write. *)
LEMMA OnlyWrite ==
  ASSUME StreamInv, StreamInv', [Next]_vars, ~Write
  PROVE  /\ dump' = dump /\ out' = out /\ rows' = rows
         /\ Len(tasks') - Len(queue') = Len(tasks) - Len(queue)
<1>1. CASE Feed \/ FeedRest
  <2>1. /\ out' = out /\ rows' = rows /\ dump' = dump
        /\ UNCHANGED <<tasks, queue>> \/ \E chunk : Submit(chunk)
    BY <1>1 DEF Feed, FeedRest
  <2>2. CASE UNCHANGED <<tasks, queue>>
    BY <2>1, <2>2
  <2>3. CASE \E chunk : Submit(chunk)
    <3>1. PICK chunk : Submit(chunk)
      BY <2>3
    <3>2. CASE broken
      BY <2>1, <3>1, <3>2 DEF Submit
    <3>3. CASE ~broken
      <4>1. /\ tasks' = Append(tasks, [chunk |-> chunk, status |-> "pending"])
            /\ queue' = Append(queue, NextFuture)
        BY <3>1, <3>3 DEF Submit
      <4>2. tasks \in Seq(Task) /\ queue \in Seq(Nat)
        BY DEF StreamInv, FlightInv, Typed, QueueIsTail
      <4>3. Len(tasks') = Len(tasks) + 1 /\ Len(queue') = Len(queue) + 1
        BY <4>1, <4>2
      <4>. QED
        BY <2>1, <4>2, <4>3
    <3>. QED
      BY <3>2, <3>3
  <2>. QED
    BY <2>1, <2>2, <2>3
<1>2. CASE Raise \/ Return \/ Propagate
  BY <1>2 DEF Raise, Return, Propagate
<1>3. CASE (\E w \in Worker : Take(w) \/ Complete(w)) \/ Die
  <2>1. queue' = queue /\ UNCHANGED main
    BY <1>3 DEF Take, Complete, Die
  <2>2. Len(tasks') = Len(tasks)
    <3>1. tasks \in Seq(Task) /\ tasks' \in Seq(Task)
      BY DEF StreamInv, FlightInv, Typed
    <3>2. DOMAIN tasks' = DOMAIN tasks
      BY <1>3 DEF Take, Complete, Die
    <3>. QED
      BY <3>1, <3>2
  <2>. QED
    BY <2>1, <2>2 DEF main
<1>4. CASE UNCHANGED vars
  BY <1>4 DEF vars
<1>. QED
  BY <1>1, <1>2, <1>3, <1>4 DEF Next, Main

(* The parallel parser implements OrderedStream: what is written is the results of the
   first chunks in the order of the input, none twice, none left out and none in part. *)
THEOREM OrderIsKept == Spec => WritesInOrder
<1>1. Init => Ordered!Init
  <2>1. Len(<<>>) - Len(<<>>) = 0
    OBVIOUS
  <2>. QED
    BY <2>1 DEF Init, Ordered!Init
<1>2. ASSUME StreamInv, StreamInv', [Next]_vars
      PROVE  [Ordered!Next]_(Ordered!vars)
  <2>1. CASE Write
    <3>1. PICK n \in Nat : n = Len(tasks) - Len(queue)
      BY <1>2, <2>1, WriteKeeps
    <3>2. /\ n < Len(Chunks(dump.lines))
          /\ tasks[Head(queue)].chunk = Chunks(dump.lines)[n + 1]
          /\ Len(tasks') - Len(queue') = n + 1
      BY <1>2, <2>1, <3>1, WriteKeeps
    <3>3. dump \in Dumps /\ Chunks(dump.lines) \in Seq(Seq(Line))
      BY <1>2, ChunksType DEF StreamInv, FlightInv, Typed
    <3>4. /\ Results[dump]
               = [i \in DOMAIN Chunks(dump.lines) |-> Outcome[Chunks(dump.lines)[i]].out]
      BY <3>3 DEF Results
    <3>5. /\ Len(Results[dump]) = Len(Chunks(dump.lines))
          /\ Results[dump][n + 1] = Outcome[Chunks(dump.lines)[n + 1]].out
      <4>1. PICK cs \in Seq(Seq(Line)) : cs = Chunks(dump.lines)
        BY <3>3
      <4>2. n + 1 \in DOMAIN cs /\ Len(cs) \in Nat /\ DOMAIN cs = 1 .. Len(cs)
        BY <3>2, <4>1
      <4>3. Results[dump] = [i \in 1 .. Len(cs) |-> Outcome[cs[i]].out]
        BY <3>4, <4>1, <4>2
      <4>. QED
        BY <4>1, <4>2, <4>3
    <3>6. out' = out \o Outcome[tasks[Head(queue)].chunk].out /\ dump' = dump
      BY <2>1 DEF Write, Deliver
    <3>. QED
      BY <3>1, <3>2, <3>5, <3>6 DEF Ordered!Next
  <2>2. CASE ~Write
    BY <1>2, <2>2, OnlyWrite DEF Ordered!vars
  <2>. QED
    BY <2>1, <2>2
<1>. QED
  BY <1>1, <1>2, StreamInvariance, PTL DEF Spec, WritesInOrder, Ordered!Spec

-----------------------------------------------------------------------------
(* Chunks of whole statements.  The generator believes to be inside of a COPY block or
   an INSERT exactly when a parser of the chunk is (Agree), and it cuts where it
   believes to be outside of both. *)
(* A scan after n tokens of buffer: it is done once there was a terminator, unless
   masking has failed. *)
Scanning(a, buffer, n) ==
  /\ a = [table |-> a.table, buffer |-> a.buffer, out |-> a.out, engine |-> a.engine,
          trailing |-> a.trailing, at |-> a.at, done |-> a.done]
  /\ a.buffer = buffer
  /\ a.at \in 0 .. n
  /\ a.engine.failed \/ (a.done <=> \E k \in 1 .. n : buffer[k] = Semi)

(* One more token. *)
LEMMA ScanStep ==
  ASSUME NEW a, NEW buffer, NEW n \in Nat, Scanning(a, buffer, n)
  PROVE  Scanning(ScanToken(a, n + 1), buffer, n + 1)
<1>. SUFFICES ASSUME NEW i \in Nat, i = n + 1, NEW b, b = ScanToken(a, i)
              PROVE  Scanning(b, buffer, i)
  OBVIOUS
<1>0. /\ a.buffer = buffer /\ a.at \in 0 .. i /\ i \in 0 .. i
      /\ \A k \in 1 .. i : k \in 1 .. n \/ k = i
      /\ i \in 1 .. i /\ \A k \in 1 .. n : k \in 1 .. i
  BY DEF Scanning
<1>1. CASE a.done \/ a.engine.failed
  <2>1. b = a
    BY <1>1 DEF ScanToken
  <2>. QED
    BY <1>0, <1>1, <2>1 DEF Scanning
<1>2. CASE ~(a.done \/ a.engine.failed) /\ buffer[i] = Semi
  <2>1. PICK o : b = [a EXCEPT !.at = i, !.done = TRUE, !.out = o]
    <3>1. \E o : b = [a EXCEPT !.at = i, !.done = TRUE, !.out = o]
      BY <1>0, <1>2 DEF ScanToken
    <3>. QED
      BY <3>1
  <2>. QED
    BY <1>0, <1>2, <2>1 DEF Scanning
<1>3. CASE ~(a.done \/ a.engine.failed) /\ buffer[i] # Semi
  <2>1. PICK tail : tail = BeginsClause(a.buffer, i)
    OBVIOUS
  <2>2. \/ b = a
        \/ b = [a EXCEPT !.at = i, !.trailing = tail]
        \/ \E o, e : b = [a EXCEPT !.out = o, !.engine = e] /\ e.failed
        \/ \E o, e : b = [a EXCEPT !.at = i, !.trailing = tail, !.engine = e, !.out = o]
    BY <1>0, <1>3, <2>1 DEF ScanToken, WriteRow
  <2>3. CASE b = a
    BY <1>0, <1>3, <2>3 DEF Scanning
  <2>4. CASE b = [a EXCEPT !.at = i, !.trailing = tail]
    BY <1>0, <1>3, <2>4 DEF Scanning
  <2>5. CASE \E o, e : b = [a EXCEPT !.out = o, !.engine = e] /\ e.failed
    <3>1. PICK o, e : b = [a EXCEPT !.out = o, !.engine = e] /\ e.failed
      BY <2>5
    <3>. QED
      BY <1>0, <1>3, <3>1 DEF Scanning
  <2>6. CASE \E o, e : b = [a EXCEPT !.at = i, !.trailing = tail, !.engine = e, !.out = o]
    <3>1. PICK o, e : b = [a EXCEPT !.at = i, !.trailing = tail, !.engine = e, !.out = o]
      BY <2>6
    <3>. QED
      BY <1>0, <1>3, <3>1 DEF Scanning
  <2>. QED
    BY <2>2, <2>3, <2>4, <2>5, <2>6
<1>. QED
  BY <1>1, <1>2, <1>3

(* The whole buffer is scanned. *)
LEMMA ScanEnd ==
  ASSUME NEW T, NEW buffer \in Seq(T), NEW a, Scanning(a, buffer, 0)
  PROVE  Scanning(FoldLeftDomain(ScanToken, a, buffer), buffer, Len(buffer))
<1>1. PICK f : /\ f[0] = a
               /\ \A n \in Nat : n < Len(buffer) => f[n + 1] = ScanToken(f[n], n + 1)
               /\ FoldLeftDomain(ScanToken, a, buffer) = f[Len(buffer)]
  BY ScanSteps
<1>2. Len(buffer) \in Nat
  OBVIOUS
<1>. DEFINE Lost == {n \in Nat : n <= Len(buffer) /\ ~Scanning(f[n], buffer, n)}
<1>3. Lost = {}
  <2>. SUFFICES ASSUME Lost # {}
                PROVE  FALSE
    OBVIOUS
  <2>1. PICK n \in Lost : \A m \in Lost : n <= m
    BY ScanFold!LeastOfSet
  <2>2. n # 0 /\ n \in Nat /\ n <= Len(buffer) /\ ~Scanning(f[n], buffer, n)
    BY <1>1, <2>1
  <2>3. n - 1 \in Nat /\ n - 1 < Len(buffer) /\ (n - 1) + 1 = n /\ ~(n <= n - 1)
    BY <1>2, <2>2
  <2>4. Scanning(f[n - 1], buffer, n - 1)
    BY <1>2, <2>1, <2>3
  <2>5. f[n] = ScanToken(f[n - 1], (n - 1) + 1)
    BY <1>1, <2>3
  <2>6. Scanning(ScanToken(f[n - 1], (n - 1) + 1), buffer, (n - 1) + 1)
    BY <2>3, <2>4, ScanStep
  <2>. QED
    BY <2>2, <2>3, <2>5, <2>6
<1>4. Scanning(f[Len(buffer)], buffer, Len(buffer))
  BY <1>2, <1>3
<1>. QED
  BY <1>1, <1>4

(* The tokens of all lines. *)
Token == UNION {ToSet(l.toks) : l \in Line}

(* A parser between two lines, and one that agrees with the generator: unless masking
   has failed, it is inside of what the generator believes to be inside of, and no
   terminator waits in its buffer. *)
NoSemi(s) == \A k \in 1 .. Len(s) : s[k] # Semi

Agree(c, p) ==
  /\ IsParser(p)
  /\ \/ p.engine.failed
     \/ /\ c.copy <=> p.copy # NoTable
        /\ c.insert <=> p.insert # NoTable
        /\ p.buffer \in Seq(Token) /\ NoSemi(p.buffer)

(* Scanning the buffer of an INSERT ends it exactly at a terminator. *)
LEMMA ScanInsertEnds ==
  ASSUME NEW p, IsParser(p), p.buffer \in Seq(Token)
  PROVE  LET q == ScanInsert(p) IN
         /\ IsParser(q) /\ q.copy = p.copy
         /\ q.engine.failed \/ IF NoSemi(p.buffer)
              THEN q.insert = p.insert /\ q.buffer \in Seq(Token) /\ NoSemi(q.buffer)
              ELSE q.insert = NoTable /\ q.buffer = <<>>
<1>. DEFINE start == [table |-> p.insert, buffer |-> p.buffer, out |-> p.out,
                      engine |-> p.engine, trailing |-> p.trailing, at |-> 0, done |-> FALSE]
<1>1. PICK a : a = FoldLeftDomain(ScanToken, start, p.buffer)
  OBVIOUS
<1>2. Scanning(start, p.buffer, 0)
  BY DEF Scanning
<1>. HIDE DEF start
<1>3. Scanning(a, p.buffer, Len(p.buffer))
  BY <1>1, <1>2, ScanEnd
<1>4. PICK rest : rest = SubSeq(p.buffer, a.at + 1, Len(p.buffer))
  OBVIOUS
<1>5. PICK q : q = ScanInsert(p)
  OBVIOUS
<1>6. q = IF a.done
            THEN [p EXCEPT !.insert = NoTable, !.buffer = <<>>, !.trailing = FALSE,
                           !.engine = a.engine,
                           !.out = IF p.insert \in Truncated THEN a.out ELSE a.out \o rest]
            ELSE [p EXCEPT !.buffer = rest, !.trailing = a.trailing,
                           !.engine = a.engine, !.out = a.out]
  BY <1>1, <1>4, <1>5 DEF ScanInsert, AfterScan, Unread, start
<1>7. IsParser(q) /\ q.copy = p.copy /\ q.engine = a.engine
  BY <1>6 DEF IsParser
<1>8. /\ a.done => q.insert = NoTable /\ q.buffer = <<>>
      /\ ~a.done => q.insert = p.insert /\ q.buffer = rest
  BY <1>6 DEF IsParser
<1>9. a.engine.failed \/ (a.done <=> ~NoSemi(p.buffer))
  BY <1>3 DEF Scanning, NoSemi
<1>10. rest \in Seq(Token) /\ (NoSemi(p.buffer) => NoSemi(rest))
  <2>1. a.at \in 0 .. Len(p.buffer) /\ Len(p.buffer) \in Nat
    BY <1>3 DEF Scanning
  <2>2. /\ rest \in Seq(Token) /\ Len(rest) = Len(p.buffer) - a.at
        /\ \A k \in 1 .. Len(rest) : rest[k] = p.buffer[a.at + k] /\ a.at + k \in 1 .. Len(p.buffer)
    <3>0. PICK b \in Seq(Token) : b = p.buffer
      OBVIOUS
    <3>1. PICK m, n : m = a.at /\ b = p.buffer /\ n = Len(b)
      BY <3>0
    <3>2. m \in Nat /\ n \in Nat /\ m <= n /\ rest = SubSeq(b, m + 1, n)
      BY <1>4, <2>1, <3>1
    <3>3. rest \in Seq(Token) /\ Len(rest) = n - m
      BY <3>1, <3>2
    <3>4. \A k \in 1 .. Len(rest) : rest[k] = b[m + k] /\ m + k \in 1 .. n
      <4>1. \A k \in 1 .. Len(rest) : m + k \in 1 .. n /\ (m + 1) + k - 1 = m + k
        BY <3>2, <3>3
      <4>2. \A k \in 1 .. n - m : SubSeq(b, m + 1, n)[k] = b[(m + 1) + k - 1]
        BY <3>1, <3>2
      <4>. QED
        BY <3>2, <3>3, <4>1, <4>2
    <3>. QED
      BY <3>1, <3>3, <3>4
  <2>. QED
    BY <2>2 DEF NoSemi
<1>. QED
  BY <1>5, <1>7, <1>8, <1>9, <1>10

(* What WholeStatements says of a single line. *)
WholeLine(l) ==
  /\ l.toks \in Seq(ToSet(l.toks))
  /\ \A tok \in ToSet(l.toks) : IsGroup(tok) => tok[2] \notin SemiRow
  /\ l.kind \in {"copy", "insert"} => l.table \in Table

(* The generator recognises the terminator. *)
LEMMA SemicolonIsTerminator ==
  ASSUME NEW l \in Line, WholeLine(l)
  PROVE  l.toks \in Seq(Token) /\ (HasSemicolon(l) <=> ~NoSemi(l.toks))
<1>1. PICK s : s = l.toks
  OBVIOUS
<1>2. s \in Seq(ToSet(s)) /\ DOMAIN s = 1 .. Len(s)
  BY <1>1 DEF WholeLine
<1>3. \A k \in 1 .. Len(s) : s[k] \in ToSet(s)
  BY <1>2
<1>4. s \in Seq(Token)
  <2>1. \A k \in 1 .. Len(s) : s[k] \in Token
    BY <1>1, <1>3 DEF Token
  <2>. QED
    BY <1>2, <2>1
<1>5. \A k \in 1 .. Len(s) : ~(IsGroup(s[k]) /\ s[k][2] \in SemiRow)
  BY <1>1, <1>3 DEF WholeLine
<1>. QED
  BY <1>1, <1>2, <1>4, <1>5 DEF HasSemicolon, NoSemi

(* Two buffers without a terminator have none together. *)
LEMMA NoSemiConcat ==
  ASSUME NEW s \in Seq(Token), NEW t \in Seq(Token), NoSemi(s)
  PROVE  s \o t \in Seq(Token) /\ (NoSemi(s \o t) <=> NoSemi(t))
<1>1. /\ s \o t \in Seq(Token) /\ Len(s \o t) = Len(s) + Len(t)
      /\ Len(s) \in Nat /\ Len(t) \in Nat
      /\ \A k \in 1 .. Len(s) : (s \o t)[k] = s[k]
      /\ \A k \in 1 .. Len(t) : (s \o t)[Len(s) + k] = t[k]
  OBVIOUS
<1>2. PICK u : u = s \o t
  OBVIOUS
<1>3. NoSemi(u) => NoSemi(t)
  <2>1. \A k \in 1 .. Len(t) : Len(s) + k \in 1 .. Len(u)
    BY <1>1, <1>2
  <2>. QED
    BY <1>1, <1>2, <2>1 DEF NoSemi
<1>4. NoSemi(t) => NoSemi(u)
  <2>1. \A k \in 1 .. Len(u) :
          k \in 1 .. Len(s) \/ (k - Len(s) \in 1 .. Len(t) /\ Len(s) + (k - Len(s)) = k)
    BY <1>1, <1>2
  <2>2. ASSUME NoSemi(t), NEW k \in 1 .. Len(u)
        PROVE  u[k] # Semi
    <3>1. CASE k \in 1 .. Len(s)
      BY <1>1, <1>2, <3>1 DEF NoSemi
    <3>2. CASE k - Len(s) \in 1 .. Len(t) /\ Len(s) + (k - Len(s)) = k
      <4>1. PICK m \in 1 .. Len(t) : m = k - Len(s) /\ Len(s) + m = k
        BY <3>2
      <4>2. u[k] = t[m]
        BY <1>1, <1>2, <4>1
      <4>. QED
        BY <2>2, <4>2 DEF NoSemi
    <3>. QED
      BY <2>1, <3>1, <3>2
  <2>. QED
    BY <2>2 DEF NoSemi
<1>. QED
  BY <1>1, <1>2, <1>3, <1>4

(* One more line keeps the agreement. *)
LEMMA AgreeStep ==
  ASSUME NEW c, c.copy \in BOOLEAN, c.insert \in BOOLEAN, NEW p, Agree(c, p),
         NEW l \in Line, WholeLine(l)
  PROVE  Agree(Track(c, l), ReadLine(p, l))
<1>1. PICK q : q = ReadLine(p, l)
  OBVIOUS
<1>2. PICK d : d = Track(c, l)
  OBVIOUS
<1>3. /\ d.copy = IF c.copy THEN l.kind # "end" ELSE l.kind = "copy"
      /\ d.insert = IF c.copy \/ l.kind = "copy" THEN c.insert
                    ELSE (c.insert \/ l.kind = "insert") /\ ~HasSemicolon(l)
  BY <1>2 DEF Track
<1>4. IsParser(p)
  BY DEF Agree
<1>5. l.toks \in Seq(Token) /\ (HasSemicolon(l) <=> ~NoSemi(l.toks))
  BY SemicolonIsTerminator
<1>. SUFFICES Agree(d, q)
  BY <1>1, <1>2
<1>6. CASE p.engine.failed
  BY <1>1, <1>4, <1>6 DEF ReadLine, Agree
<1>7. CASE ~p.engine.failed
  <2>1. /\ c.copy <=> p.copy # NoTable
        /\ c.insert <=> p.insert # NoTable
        /\ p.buffer \in Seq(Token) /\ NoSemi(p.buffer)
    BY <1>7 DEF Agree
  <2>2. CASE p.copy # NoTable /\ l.kind = "end"
    <3>1. q = EndCopy(p)
      BY <1>1, <1>7, <2>2 DEF ReadLine
    <3>2. PICK o : q = [p EXCEPT !.copy = NoTable, !.out = o]
      BY <3>1 DEF EndCopy
    <3>. QED
      BY <1>3, <1>4, <2>1, <2>2, <3>2 DEF Agree, IsParser
  <2>3. CASE p.copy # NoTable /\ l.kind # "end"
    <3>1. q = CopyRow(p, l)
      BY <1>1, <1>7, <2>3 DEF ReadLine
    <3>2. \/ q = p
          \/ \E e : q = [p EXCEPT !.engine = e]
          \/ \E e, o : q = [p EXCEPT !.engine = e, !.out = o]
      BY <3>1 DEF CopyRow
    <3>3. /\ IsParser(q) /\ q.copy = p.copy /\ q.insert = p.insert /\ q.buffer = p.buffer
      BY <1>4, <3>2 DEF IsParser
    <3>. QED
      BY <1>3, <2>1, <2>3, <3>3 DEF Agree
  <2>4. CASE p.copy = NoTable /\ l.kind = "copy"
    <3>1. q = BeginCopy(p, l)
      BY <1>1, <1>7, <2>4 DEF ReadLine
    <3>2. PICK o : q = [p EXCEPT !.copy = l.table, !.out = o]
      BY <3>1 DEF BeginCopy
    <3>3. l.table # NoTable
      BY <2>4, DumpAssumption DEF WholeLine
    <3>4. /\ IsParser(q) /\ q.copy = l.table /\ q.insert = p.insert /\ q.buffer = p.buffer
      BY <1>4, <3>2 DEF IsParser
    <3>. QED
      BY <1>3, <2>1, <2>4, <3>3, <3>4 DEF Agree
  <2>5. CASE p.copy = NoTable /\ p.insert # NoTable /\ l.kind # "copy"
    <3>1. q = ContinueInsert(p, l)
      BY <1>1, <1>7, <2>5 DEF ReadLine
    <3>2. PICK r : r = [p EXCEPT !.buffer = p.buffer \o l.toks]
      OBVIOUS
    <3>3. q = ScanInsert(r)
      BY <3>1, <3>2 DEF ContinueInsert
    <3>4. /\ IsParser(r) /\ r.copy = p.copy /\ r.insert = p.insert
          /\ r.buffer = p.buffer \o l.toks
      BY <1>4, <3>2 DEF IsParser
    <3>5. r.buffer \in Seq(Token) /\ (NoSemi(r.buffer) <=> NoSemi(l.toks))
      BY <1>5, <2>1, <3>4, NoSemiConcat
    <3>6. /\ IsParser(q) /\ q.copy = r.copy
          /\ q.engine.failed \/ IF NoSemi(r.buffer)
               THEN q.insert = r.insert /\ q.buffer \in Seq(Token) /\ NoSemi(q.buffer)
               ELSE q.insert = NoTable /\ q.buffer = <<>>
      BY <3>3, <3>4, <3>5, ScanInsertEnds
    <3>7. <<>> \in Seq(Token) /\ NoSemi(<<>>)
      BY DEF NoSemi
    <3>8. d.copy = FALSE /\ d.insert = ~HasSemicolon(l)
      BY <1>3, <2>1, <2>5
    <3>. QED
      BY <1>5, <2>5, <3>4, <3>5, <3>6, <3>7, <3>8 DEF Agree
  <2>6. CASE p.copy = NoTable /\ p.insert = NoTable /\ l.kind = "insert"
    <3>1. q = BeginInsert(p, l)
      BY <1>1, <1>7, <2>6 DEF ReadLine
    <3>2. PICK r, o : /\ r = [p EXCEPT !.insert = l.table, !.buffer = l.toks, !.trailing = FALSE,
                                       !.out = o]
                      /\ q = ScanInsert(r)
      BY <3>1 DEF BeginInsert
    <3>3. l.table # NoTable
      BY <2>6, DumpAssumption DEF WholeLine
    <3>4. IsParser(r) /\ r.copy = p.copy /\ r.insert = l.table /\ r.buffer = l.toks
      BY <1>4, <3>2 DEF IsParser
    <3>5. /\ IsParser(q) /\ q.copy = r.copy
          /\ q.engine.failed \/ IF NoSemi(r.buffer)
               THEN q.insert = r.insert /\ q.buffer \in Seq(Token) /\ NoSemi(q.buffer)
               ELSE q.insert = NoTable /\ q.buffer = <<>>
      BY <1>5, <3>2, <3>4, ScanInsertEnds
    <3>6. <<>> \in Seq(Token) /\ NoSemi(<<>>)
      BY DEF NoSemi
    <3>7. d.copy = FALSE /\ d.insert = ~HasSemicolon(l)
      BY <1>3, <2>1, <2>6
    <3>. QED
      BY <1>5, <2>6, <3>3, <3>4, <3>5, <3>6, <3>7 DEF Agree
  <2>7. CASE p.copy = NoTable /\ p.insert = NoTable /\ l.kind \notin {"copy", "insert"}
    <3>1. PICK o : q = [p EXCEPT !.out = o]
      BY <1>1, <1>7, <2>7 DEF ReadLine
    <3>2. IsParser(q) /\ q.copy = p.copy /\ q.insert = p.insert /\ q.buffer = p.buffer
      BY <1>4, <3>1 DEF IsParser
    <3>. QED
      BY <1>3, <2>1, <2>7, <3>2 DEF Agree
  <2>. QED
    BY <2>2, <2>3, <2>4, <2>5, <2>6, <2>7
<1>. QED
  BY <1>6, <1>7

-----------------------------------------------------------------------------
(* A chunk that masking fails on, or that a parser is outside of after reading it. *)
Coherent(chunk) == Parsing(chunk).engine.failed \/ Outside(Parsing(chunk))

(* A new parser agrees with a generator that is outside of everything. *)
LEMMA AgreeNew ==
  ASSUME NEW c, c.copy = FALSE, c.insert = FALSE
  PROVE  Agree(c, NewParser)
BY DEF Agree, NewParser, IsParser, NoSemi

(* Where the generator is inside of a COPY block, line i has begun it and no later line
   has closed it; where it is inside of an INSERT, likewise. *)
OpenCopy(lines, n) ==
  \E i \in 1 .. n : lines[i].kind = "copy" /\ \A k \in i + 1 .. n : lines[k].kind # "end"

OpenInsert(lines, n) ==
  \E i \in 1 .. n : lines[i].kind = "insert" /\ \A k \in i .. n : NoSemi(lines[k].toks)

(* The generator and the chunks it has yielded after n lines. *)
ReadInv(d, n) ==
  LET r == Read(d, n) IN
  /\ \A i \in 1 .. Len(r.chunks) : Coherent(r.chunks[i])
  /\ Agree(r.chunker, Parsing(r.chunker.buffer))
  /\ r.chunker.copy => OpenCopy(d.lines, n)
  /\ r.chunker.insert => ~r.chunker.copy /\ OpenInsert(d.lines, n)

(* In a COPY block there are rows until it ends. *)
RowOrEnd(l) == l.kind = "end" \/ (l.toks # <<>> /\ IsGroup(l.toks[1]))

(* What WholeStatements says of the lines of a dump, one by one and together. *)
LEMMA WholeDump ==
  ASSUME NEW d \in Dumps, WholeStatements(d.lines), NEW n \in Nat, n <= Len(d.lines)
  PROVE  /\ n < Len(d.lines) => WholeLine(d.lines[n + 1])
         /\ OpenCopy(d.lines, n) => n < Len(d.lines) /\ RowOrEnd(d.lines[n + 1])
         /\ OpenInsert(d.lines, n) => n < Len(d.lines) /\ d.lines[n + 1].kind # "copy"
<1>1. d.lines \in Seq(Line) /\ Len(d.lines) \in Nat /\ DOMAIN d.lines = 1 .. Len(d.lines)
  BY DumpLines
<1>2. ASSUME n < Len(d.lines)
      PROVE  WholeLine(d.lines[n + 1])
  <2>1. n + 1 \in DOMAIN d.lines
    BY <1>1, <1>2
  <2>. QED
    BY <2>1 DEF WholeStatements, WholeLine
<1>3. ASSUME OpenCopy(d.lines, n)
      PROVE  n < Len(d.lines) /\ RowOrEnd(d.lines[n + 1])
  <2>1. PICK i \in 1 .. n : /\ d.lines[i].kind = "copy"
                            /\ \A k \in i + 1 .. n : d.lines[k].kind # "end"
    BY <1>3 DEF OpenCopy
  <2>2. i \in DOMAIN d.lines
    BY <1>1, <2>1
  <2>3. PICK j \in i + 1 .. Len(d.lines) :
          /\ d.lines[j].kind = "end"
          /\ \A k \in i + 1 .. j - 1 : d.lines[k].toks # <<>> /\ IsGroup(d.lines[k].toks[1])
    BY <2>1, <2>2 DEF WholeStatements
  <2>4. j \notin i + 1 .. n
    BY <2>1, <2>3
  <2>5. n < Len(d.lines) /\ (n + 1 = j \/ n + 1 \in i + 1 .. j - 1)
    BY <1>1, <2>1, <2>3, <2>4
  <2>. QED
    BY <2>3, <2>5 DEF RowOrEnd
<1>4. ASSUME OpenInsert(d.lines, n)
      PROVE  n < Len(d.lines) /\ d.lines[n + 1].kind # "copy"
  <2>1. PICK i \in 1 .. n : d.lines[i].kind = "insert" /\ \A k \in i .. n : NoSemi(d.lines[k].toks)
    BY <1>4 DEF OpenInsert
  <2>2. i \in DOMAIN d.lines
    BY <1>1, <2>1
  <2>3. PICK j \in i .. Len(d.lines) : /\ Semi \in ToSet(d.lines[j].toks)
                                       /\ \A k \in i + 1 .. j : d.lines[k].kind # "copy"
    BY <2>1, <2>2 DEF WholeStatements
  <2>4. ~NoSemi(d.lines[j].toks)
    <3>1. j \in DOMAIN d.lines
      BY <1>1, <2>2, <2>3
    <3>2. PICK s : s = d.lines[j].toks
      OBVIOUS
    <3>3. s \in Seq(ToSet(s)) /\ Semi \in ToSet(s)
      BY <2>3, <3>1, <3>2 DEF WholeStatements
    <3>4. \E k \in DOMAIN s : s[k] = Semi
      BY <3>3 DEF ToSet
    <3>5. DOMAIN s = 1 .. Len(s)
      BY <3>3
    <3>. QED
      BY <3>2, <3>4, <3>5 DEF NoSemi
  <2>5. j \notin i .. n
    BY <2>1, <2>4
  <2>6. n + 1 \in i + 1 .. j /\ n < Len(d.lines)
    BY <1>1, <2>1, <2>2, <2>3, <2>5
  <2>. QED
    BY <2>3, <2>6
<1>. QED
  BY <1>2, <1>3, <1>4

(* What is open stays open until it is closed. *)
LEMMA StillOpen ==
  ASSUME NEW lines, NEW n \in Nat
  PROVE  /\ lines[n + 1].kind = "copy" => OpenCopy(lines, n + 1)
         /\ OpenCopy(lines, n) /\ lines[n + 1].kind # "end" => OpenCopy(lines, n + 1)
         /\ lines[n + 1].kind = "insert" /\ NoSemi(lines[n + 1].toks) => OpenInsert(lines, n + 1)
         /\ OpenInsert(lines, n) /\ NoSemi(lines[n + 1].toks) => OpenInsert(lines, n + 1)
<1>1. /\ n + 1 \in 1 .. n + 1 /\ \A k \in (n + 1) + 1 .. n + 1 : FALSE
      /\ \A k \in n + 1 .. n + 1 : k = n + 1
      /\ \A i \in 1 .. n : i \in 1 .. n + 1
      /\ \A i \in 1 .. n : \A k \in i .. n + 1 : k \in i .. n \/ k = n + 1
      /\ \A i \in 1 .. n : \A k \in i + 1 .. n + 1 : k \in i + 1 .. n \/ k = n + 1
  OBVIOUS
<1>2. lines[n + 1].kind = "copy" => OpenCopy(lines, n + 1)
  BY <1>1 DEF OpenCopy
<1>3. OpenCopy(lines, n) /\ lines[n + 1].kind # "end" => OpenCopy(lines, n + 1)
  BY <1>1 DEF OpenCopy
<1>4. lines[n + 1].kind = "insert" /\ NoSemi(lines[n + 1].toks) => OpenInsert(lines, n + 1)
  BY <1>1 DEF OpenInsert
<1>5. OpenInsert(lines, n) /\ NoSemi(lines[n + 1].toks) => OpenInsert(lines, n + 1)
  BY <1>1 DEF OpenInsert
<1>. QED
  BY <1>2, <1>3, <1>4, <1>5

(* One more line: a chunk is cut only where the generator is outside. *)
LEMMA ReadInvStep ==
  ASSUME NEW d \in Dumps, WholeStatements(d.lines), NEW n \in Nat, n < Len(d.lines),
         ReadInv(d, n)
  PROVE  ReadInv(d, n + 1)
<1>. DEFINE r == Read(d, n)
            l == d.lines[n + 1]
<1>1. /\ r \in Cutting /\ l \in Line /\ Read(d, n + 1) = Yielded(r, l)
      /\ WholeLine(l) /\ n \in Nat /\ n <= Len(d.lines) /\ Len(d.lines) \in Nat
  <2>1. d.lines \in Seq(Line) /\ Len(d.lines) \in Nat /\ n <= Len(d.lines)
    BY DumpLines
  <2>2. l \in Line
    BY <2>1
  <2>3. r \in Cutting /\ Read(d, n + 1) = Yielded(r, l)
    BY <2>1, ReadType, ReadSteps
  <2>4. WholeLine(l)
    BY <2>1, WholeDump
  <2>. QED
    BY <2>1, <2>2, <2>3, <2>4
<1>2. PICK c : c = r.chunker
  OBVIOUS
<1>3. PICK b : b = Track(c, l)
  OBVIOUS
<1>4. /\ c.copy \in BOOLEAN /\ c.insert \in BOOLEAN /\ c.buffer \in Seq(Line)
      /\ r.chunks \in Seq(Seq(Line))
  BY <1>1, <1>2 DEF Cutting
<1>5. /\ \A i \in 1 .. Len(r.chunks) : Coherent(r.chunks[i])
      /\ Agree(c, Parsing(c.buffer))
      /\ c.copy => OpenCopy(d.lines, n)
      /\ c.insert => ~c.copy /\ OpenInsert(d.lines, n)
  BY <1>2 DEF ReadInv
<1>6. /\ b = [buffer |-> Append(c.buffer, l), copy |-> b.copy, insert |-> b.insert]
      /\ b.copy = IF c.copy THEN l.kind # "end" ELSE l.kind = "copy"
      /\ b.insert = IF c.copy \/ l.kind = "copy" THEN c.insert
                    ELSE (c.insert \/ l.kind = "insert") /\ ~HasSemicolon(l)
  BY <1>3 DEF Track
<1>7. b.buffer \in Seq(Line) /\ Agree(b, Parsing(b.buffer))
  <2>1. Append(c.buffer, l) \in Seq(Line) /\ b.buffer = Append(c.buffer, l)
    BY <1>1, <1>4, <1>6
  <2>2. Parsing(b.buffer) = ReadLine(Parsing(c.buffer), l)
    BY <1>1, <1>4, <2>1, ParsingSteps
  <2>. HIDE DEF l
  <2>3. Agree(Track(c, l), ReadLine(Parsing(c.buffer), l))
    BY <1>1, <1>4, <1>5, AgreeStep
  <2>. QED
    BY <1>3, <2>1, <2>2, <2>3
<1>8. OpenInsert(d.lines, n) => l.kind # "copy"
  BY <1>1, WholeDump
<1>9. HasSemicolon(l) <=> ~NoSemi(l.toks)
  <2>. HIDE DEF l
  <2>. QED
    BY <1>1, SemicolonIsTerminator
<1>10. b.copy => OpenCopy(d.lines, n + 1)
  BY <1>1, <1>5, <1>6, StillOpen
<1>11. b.insert => ~b.copy /\ OpenInsert(d.lines, n + 1)
  <2>. SUFFICES ASSUME b.insert
                PROVE  ~b.copy /\ OpenInsert(d.lines, n + 1)
    OBVIOUS
  <2>1. ~c.copy /\ l.kind # "copy"
    BY <1>5, <1>6, <1>8
  <2>2. (c.insert \/ l.kind = "insert") /\ NoSemi(l.toks)
    BY <1>6, <1>9, <2>1
  <2>. QED
    BY <1>1, <1>5, <1>6, <2>1, <2>2, StillOpen
<1>. HIDE DEF r, l
<1>12. CASE Cut(c, l)
  <2>1. ~b.copy /\ (c.copy \/ ~b.insert)
    BY <1>3, <1>12 DEF Cut
  <2>2. ~b.copy /\ ~b.insert
    BY <1>5, <1>6, <2>1
  <2>3. PICK e : e = [b EXCEPT !.buffer = <<>>]
    OBVIOUS
  <2>4. e.buffer = <<>> /\ e.copy = b.copy /\ e.insert = b.insert
    BY <1>6, <2>3
  <2>5. Read(d, n + 1) = [chunker |-> e, chunks |-> Append(r.chunks, b.buffer)]
    BY <1>1, <1>2, <1>3, <1>12, <2>3, YieldedType
  <2>6. Agree(e, Parsing(e.buffer))
    <3>1. e.copy = FALSE /\ e.insert = FALSE
      BY <1>6, <2>2, <2>4
    <3>. QED
      BY <2>4, <3>1, AgreeNew, ParsingSteps
  <2>7. Coherent(b.buffer)
    BY <1>7, <2>2 DEF Coherent, Outside, Agree
  <2>8. \A i \in 1 .. Len(Append(r.chunks, b.buffer)) : Coherent(Append(r.chunks, b.buffer)[i])
    <3>1. PICK cs \in Seq(Seq(Line)), x \in Seq(Line) : cs = r.chunks /\ x = b.buffer
      BY <1>4, <1>7
    <3>2. ASSUME NEW i \in 1 .. Len(Append(cs, x))
          PROVE  (i \in 1 .. Len(cs) /\ Append(cs, x)[i] = cs[i]) \/ Append(cs, x)[i] = x
      BY <3>2
    <3>. QED
      BY <1>5, <2>7, <3>1, <3>2
  <2>. QED
    BY <2>2, <2>4, <2>5, <2>6, <2>8 DEF ReadInv
<1>13. CASE ~Cut(c, l)
  <2>1. Read(d, n + 1) = [chunker |-> b, chunks |-> r.chunks]
    BY <1>1, <1>2, <1>3, <1>13, YieldedType
  <2>. QED
    BY <1>5, <1>7, <1>10, <1>11, <2>1 DEF ReadInv
<1>. QED
  BY <1>12, <1>13

(* It holds after every number of lines. *)
LEMMA ReadInvHolds ==
  ASSUME NEW d \in Dumps, WholeStatements(d.lines), NEW n \in Nat, n <= Len(d.lines)
  PROVE  ReadInv(d, n)
<1>. DEFINE Lost == {m \in Nat : m <= Len(d.lines) /\ ~ReadInv(d, m)}
<1>1. d.lines \in Seq(Line) /\ Len(d.lines) \in Nat
  BY DumpLines
<1>2. ReadInv(d, 0)
  <2>1. Read(d, 0) = [chunker |-> NewChunker, chunks |-> <<>>]
    BY ReadSteps DEF NothingRead
  <2>2. NewChunker.buffer = <<>> /\ NewChunker.copy = FALSE /\ NewChunker.insert = FALSE
    BY DEF NewChunker
  <2>3. Agree(NewChunker, Parsing(<<>>))
    BY <2>2, AgreeNew, ParsingSteps
  <2>4. \A i \in 1 .. Len(<<>>) : Coherent(<<>>[i])
    OBVIOUS
  <2>. QED
    BY <2>1, <2>2, <2>3, <2>4 DEF ReadInv
<1>. SUFFICES ASSUME Lost # {}
              PROVE  FALSE
  OBVIOUS
<1>3. PICK m \in Lost : \A k \in Lost : m <= k
  BY CutFold!LeastOfSet
<1>4. m # 0 /\ m \in Nat /\ m <= Len(d.lines) /\ ~ReadInv(d, m)
  BY <1>2, <1>3
<1>5. m - 1 \in Nat /\ m - 1 < Len(d.lines) /\ (m - 1) + 1 = m /\ ~(m <= m - 1)
      /\ m - 1 <= Len(d.lines)
  BY <1>1, <1>4
<1>6. ReadInv(d, m - 1)
  BY <1>3, <1>5
<1>7. ReadInv(d, (m - 1) + 1)
  BY <1>5, <1>6, ReadInvStep
<1>. QED
  BY <1>4, <1>5, <1>7

(* All chunks of a dump of whole statements hold whole statements. *)
LEMMA ChunksAreCoherent ==
  ASSUME NEW d \in Dumps, WholeStatements(d.lines)
  PROVE  \A i \in 1 .. Len(Chunks(d.lines)) : Coherent(Chunks(d.lines)[i])
<1>1. d.lines \in Seq(Line) /\ Len(d.lines) \in Nat
  BY DumpLines
<1>4. ReadInv(d, Len(d.lines))
  <2>1. Len(d.lines) <= Len(d.lines)
    BY <1>1
  <2>. QED
    BY <1>1, <2>1, ReadInvHolds
<1>5. PICK end : end = Read(d, Len(d.lines))
  OBVIOUS
<1>6. end \in Cutting
  BY <1>1, <1>5, ReadType
<1>7. PICK cs \in Seq(Seq(Line)), x \in Seq(Line) : cs = end.chunks /\ x = end.chunker.buffer
  BY <1>6 DEF Cutting
<1>8. Chunks(d.lines) = IF x = <<>> THEN cs ELSE Append(cs, x)
  BY <1>5, <1>7, ReadSteps DEF Chunks
<1>9. \A i \in 1 .. Len(cs) : Coherent(cs[i])
  BY <1>4, <1>5, <1>7 DEF ReadInv
<1>10. Coherent(x)
  <2>1. /\ Agree(end.chunker, Parsing(x))
        /\ end.chunker.copy => OpenCopy(d.lines, Len(d.lines))
        /\ end.chunker.insert => OpenInsert(d.lines, Len(d.lines))
    BY <1>4, <1>5, <1>7 DEF ReadInv
  <2>2. ~OpenCopy(d.lines, Len(d.lines)) /\ ~OpenInsert(d.lines, Len(d.lines))
    <3>1. Len(d.lines) <= Len(d.lines) /\ ~(Len(d.lines) < Len(d.lines))
      BY <1>1
    <3>. QED
      BY <1>1, <3>1, WholeDump
  <2>. QED
    BY <2>1, <2>2 DEF Coherent, Outside, Agree
<1>11. \A i \in 1 .. Len(Append(cs, x)) :
         (i \in 1 .. Len(cs) /\ Append(cs, x)[i] = cs[i]) \/ Append(cs, x)[i] = x
  OBVIOUS
<1>. QED
  BY <1>8, <1>9, <1>10, <1>11

(* Every chunk submitted holds whole statements, for any dump whose statements are whole
   and whose rows contain no semicolon (chunking.py:48-63). *)
THEOREM ChunksAreWhole == Spec => [](WholeStatements(dump.lines) => ChunksCoherent)
<1>1. ASSUME StreamInv, WholeStatements(dump.lines)
      PROVE  ChunksCoherent
  <2>. SUFFICES ASSUME NEW i \in DOMAIN tasks
                PROVE  \/ Outcome[tasks[i].chunk].engine.failed
                       \/ Outside(FoldLeft(ReadLine, NewParser, tasks[i].chunk))
    BY DEF ChunksCoherent
  <2>1. dump \in Dumps /\ tasks \in Seq(Task) /\ Begins(Submitted, Chunks(dump.lines))
    BY <1>1 DEF StreamInv, FlightInv, Typed, CutInv
  <2>2. PICK cs \in Seq(Seq(Line)) : cs = Chunks(dump.lines)
    BY <2>1, ChunksType
  <2>3. i \in 1 .. Len(cs) /\ tasks[i].chunk = cs[i]
    <3>1. /\ i \in 1 .. Len(tasks) /\ Len(tasks) \in Nat /\ Len(Submitted) = Len(tasks)
          /\ Submitted[i] = tasks[i].chunk
      BY <2>1, SubmittedType
    <3>2. Len(tasks) <= Len(cs) /\ Len(cs) \in Nat
      BY <2>1, <2>2, <3>1 DEF Begins
    <3>. QED
      BY <2>1, <2>2, <3>1, <3>2 DEF Begins
  <2>4. Coherent(cs[i])
    BY <1>1, <2>1, <2>2, <2>3, ChunksAreCoherent
  <2>5. Outcome[cs[i]] = EndOfInput(Parsing(cs[i]))
    <3>1. cs[i] \in UNION {ToSet(Chunks(e.lines)) : e \in Dumps}
      <4>1. cs[i] \in ToSet(Chunks(dump.lines))
        BY <2>2, <2>3 DEF ToSet
      <4>. QED
        BY <2>1, <4>1
    <3>. QED
      BY <3>1 DEF Outcome, Parse, Parsing
  <2>6. Parsing(cs[i]).engine.failed => EndOfInput(Parsing(cs[i])) = Parsing(cs[i])
    BY DEF EndOfInput
  <2>. QED
    BY <2>3, <2>4, <2>5, <2>6 DEF Coherent, Parsing
<1>. QED
  BY <1>1, StreamInvariance, PTL

-----------------------------------------------------------------------------
(* Keys that do not compete.  The rows X of a dump, in statements of the forms F, have
   keys whose pseudonyms are given by nm, whatever an engine has masked before. *)
KeyOf(X) == {KeyText[x] : x \in X}

Named(X, F, nm) ==
  /\ \A x \in X : KeyText[x] \in DOMAIN Numeral => Numeral[KeyText[x]] = KeyText[x]
  /\ \A x \in X, t \in Covered, f \in F : FirstChoice(TableMethod[t], Value(f, x)) = nm[KeyText[x]]
  /\ \A k, l \in KeyOf(X) : nm[k] = nm[l] => k = l

(* The keys of a dump that are apart have such names. *)
LEMMA NamesExist ==
  ASSUME NEW lines, KeysApart(lines)
  PROVE  \E nm : Named(Groups(lines), Forms(lines), nm)
<1>. DEFINE X == Groups(lines)
            F == Forms(lines)
            First(k) == FirstChoice(TableMethod[CHOOSE t \in Covered : TRUE],
                                    Value(CHOOSE f \in F : TRUE,
                                          CHOOSE x \in X : KeyText[x] = k))
<1>1. /\ \A x \in X : KeyText[x] \in DOMAIN Numeral => Numeral[KeyText[x]] = KeyText[x]
      /\ \A x, y \in X : \A t, u \in Covered : \A f, g \in F :
           KeyText[x] = KeyText[y] <=>
             FirstChoice(TableMethod[t], Value(f, x)) = FirstChoice(TableMethod[u], Value(g, y))
  BY DEF KeysApart
<1>. HIDE DEF X, F
<1>2. CASE Covered = {} \/ F = {}
  <2>1. PICK nm : nm = [k \in KeyOf(X) |-> k]
    OBVIOUS
  <2>2. Named(X, F, nm)
    BY <1>1, <1>2, <2>1 DEF Named
  <2>. QED
    BY <2>2 DEF X, F
<1>3. CASE Covered # {} /\ F # {}
  <2>1. PICK nm : nm = [k \in KeyOf(X) |-> First(k)]
    OBVIOUS
  <2>2. PICK t \in Covered, f \in F : /\ t = CHOOSE u \in Covered : TRUE
                                      /\ f = CHOOSE g \in F : TRUE
    BY <1>3
  <2>3. ASSUME NEW x \in X
        PROVE  \E y \in X : /\ KeyText[y] = KeyText[x]
                         /\ nm[KeyText[x]] = FirstChoice(TableMethod[t], Value(f, y))
    <3>1. PICK y \in X : y = CHOOSE z \in X : KeyText[z] = KeyText[x]
      OBVIOUS
    <3>2. KeyText[y] = KeyText[x]
      BY <3>1
    <3>3. nm[KeyText[x]] = First(KeyText[x])
      BY <2>1 DEF KeyOf
    <3>. QED
      BY <2>2, <3>1, <3>2, <3>3
  <2>4. \A x \in X, u \in Covered, g \in F :
          FirstChoice(TableMethod[u], Value(g, x)) = nm[KeyText[x]]
    BY <1>1, <2>3
  <2>5. \A k, l \in KeyOf(X) : nm[k] = nm[l] => k = l
    <3>. SUFFICES ASSUME NEW x \in X, NEW y \in X, nm[KeyText[x]] = nm[KeyText[y]]
                  PROVE  KeyText[x] = KeyText[y]
      BY DEF KeyOf
    <3>1. FirstChoice(TableMethod[t], Value(f, x)) = FirstChoice(TableMethod[t], Value(f, y))
      BY <2>4
    <3>. QED
      BY <1>1, <3>1
  <2>. QED
    BY <1>1, <2>4, <2>5 DEF Named, X, F
<1>. QED
  BY <1>2, <1>3

(* An engine that has masked such keys only. *)
Key(X) == [type : {"int", "str"}, text : KeyOf(X)]
Claim(X, nm) ==
  {e \in [raw : Key(X), masked : {nm[k] : k \in KeyOf(X)}] : e.masked = nm[e.raw.text]}

Fits(e, X, nm) ==
  /\ e = [store |-> e.store, rows |-> e.rows, failed |-> FALSE]
  /\ e.store = [cache |-> e.store.cache, rev |-> e.store.rev]
  /\ e.store.cache \in Seq(Claim(X, nm))
  /\ e.rows \in Nat
  /\ \A q \in DOMAIN e.store.rev :
       e.store.rev[q].text \in KeyOf(X) /\ q = nm[e.store.rev[q].text]

(* A new engine has masked nothing that does not fit. *)
LEMMA NewEngineFits == \A X, nm : Fits(NewEngine, X, nm)
<1>. SUFFICES ASSUME NEW X, NEW nm PROVE Fits(NewEngine, X, nm)
  OBVIOUS
<1>1. NewEngine = [store |-> EmptyStore, rows |-> 0, failed |-> FALSE]
  BY DEF NewEngine
<1>2. EmptyStore = [cache |-> <<>>, rev |-> [p \in {} |-> p]]
  BY DEF EmptyStore
<1>3. <<>> \in Seq(Claim(X, nm)) /\ DOMAIN [p \in {} |-> p] = {}
  OBVIOUS
<1>. QED
  BY <1>1, <1>2, <1>3 DEF Fits

(* The value of a row prints as its key, and so does its alias. *)
LEMMA ValueText ==
  ASSUME NEW X, NEW F, NEW nm, Named(X, F, nm), NEW x \in X, NEW f
  PROVE  /\ Value(f, x) \in Key(X) /\ Value(f, x).text = KeyText[x]
         /\ \A k \in Aliases(Value(f, x)) : k \in Key(X) /\ k.text = KeyText[x]
<1>1. KeyText[x] \in KeyOf(X)
  BY DEF KeyOf
<1>2. KeyText[x] \in DOMAIN Numeral => Numeral[KeyText[x]] = KeyText[x]
  BY DEF Named
<1>3. \/ Value(f, x) = [type |-> "int", text |-> KeyText[x]]
      \/ Value(f, x) = [type |-> "str", text |-> KeyText[x]]
  BY <1>2 DEF Value
<1>4. Value(f, x) \in Key(X) /\ Value(f, x).text = KeyText[x]
  BY <1>1, <1>3 DEF Key
<1>5. \A k \in Aliases(Value(f, x)) : k = [type |-> "int", text |-> KeyText[x]]
                                      \/ k = [type |-> "str", text |-> KeyText[x]]
  BY <1>2, <1>3 DEF Aliases
<1>. QED
  BY <1>1, <1>4, <1>5 DEF Key

(* Reading and writing the cache keep its entries. *)
LEMMA CacheEntries ==
  ASSUME NEW S, NEW c \in Seq(S), NEW r
  PROVE  /\ Holds(c, r) => /\ Position(c, r) \in 1 .. Len(c) /\ c[Position(c, r)].raw = r
                           /\ Touch(c, r) \in Seq(S)
         /\ \A p : [raw |-> r, masked |-> p] \in S => Put(c, r, p) \in Seq(S)
<1>1. ASSUME NEW i \in 1 .. Len(c)
      PROVE  RemoveAt(c, i) \in Seq(S) /\ c[i] \in S
  <2>1. SubSeq(c, 1, i - 1) \in Seq(S) /\ SubSeq(c, i + 1, Len(c)) \in Seq(S)
    OBVIOUS
  <2>. QED
    BY <2>1 DEF RemoveAt
<1>2. ASSUME Holds(c, r)
      PROVE  Position(c, r) \in 1 .. Len(c) /\ c[Position(c, r)].raw = r
  <2>1. \E i \in DOMAIN c : c[i].raw = r
    BY <1>2 DEF Holds
  <2>2. Position(c, r) \in DOMAIN c /\ c[Position(c, r)].raw = r
    BY <2>1 DEF Position
  <2>. QED
    BY <2>2
<1>3. ASSUME Holds(c, r)
      PROVE  Touch(c, r) \in Seq(S)
  <2>1. PICK i \in 1 .. Len(c) : i = Position(c, r)
    BY <1>2, <1>3
  <2>2. RemoveAt(c, i) \in Seq(S) /\ c[i] \in S
    BY <1>1
  <2>. QED
    BY <2>1, <2>2 DEF Touch
<1>4. ASSUME NEW p, [raw |-> r, masked |-> p] \in S
      PROVE  Put(c, r, p) \in Seq(S)
  <2>1. PICK others : others = IF Holds(c, r) THEN RemoveAt(c, Position(c, r)) ELSE c
    OBVIOUS
  <2>2. others \in Seq(S)
    BY <1>1, <1>2, <2>1
  <2>3. PICK grown : grown = Append(others, [raw |-> r, masked |-> p])
    OBVIOUS
  <2>4. grown \in Seq(S) /\ grown # <<>>
    BY <1>4, <2>2, <2>3
  <2>5. Tail(grown) \in Seq(S)
    BY <2>4
  <2>. QED
    BY <2>1, <2>3, <2>4, <2>5 DEF Put
<1>. QED
  BY <1>2, <1>3, <1>4

(* Such an engine masks a row of a covered table by the name of its key. *)
LEMMA MaskKeyByName ==
  ASSUME NEW X, NEW F, NEW nm, Named(X, F, nm), NEW e, Fits(e, X, nm),
         NEW t \in Covered, NEW f \in F, NEW x \in X
  PROVE  LET m == MaskKey(e, t, x, Value(f, x)) IN
         /\ Fits(m.engine, X, nm) /\ m.engine.rows = e.rows + 1
         /\ m.item = Masked(x, nm[KeyText[x]])
<1>1. PICK r : r = Value(f, x)
  OBVIOUS
<1>2. PICK u \in KeyOf(X) : u = KeyText[x]
  BY DEF KeyOf
<1>3. /\ r \in Key(X) /\ r.text = u
      /\ \A k \in Aliases(r) : k \in Key(X) /\ k.text = u
  BY <1>1, <1>2, ValueText
<1>4. FirstChoice(TableMethod[t], r) = nm[u] /\ \A k, l \in KeyOf(X) : nm[k] = nm[l] => k = l
  BY <1>1, <1>2 DEF Named
<1>5. PICK s : s = e.store
  OBVIOUS
<1>6. /\ e = [store |-> s, rows |-> e.rows, failed |-> FALSE] /\ e.rows \in Nat
      /\ s = [cache |-> s.cache, rev |-> s.rev] /\ s.cache \in Seq(Claim(X, nm))
      /\ \A q \in DOMAIN s.rev : s.rev[q].text \in KeyOf(X) /\ q = nm[s.rev[q].text]
  BY <1>5 DEF Fits
<1>7. PICK m : m = MaskKey(e, t, x, r)
  OBVIOUS
<1>8. CASE HitKeys(s, r) # {}
  <2>1. PICK k \in HitKeys(s, r) : m = MaskHit(e, x, k)
    BY <1>5, <1>7, <1>8 DEF MaskKey
  <2>2. Holds(s.cache, k) /\ k.text = u
    BY <1>3, <2>1 DEF HitKeys
  <2>3. PICK c \in Seq(Claim(X, nm)) : c = s.cache
    BY <1>6
  <2>4. /\ Position(c, k) \in 1 .. Len(c) /\ c[Position(c, k)].raw = k
        /\ Touch(c, k) \in Seq(Claim(X, nm))
    BY <2>2, <2>3, CacheEntries
  <2>5. Fetch(c, k) = nm[u]
    <3>1. c[Position(c, k)] \in Claim(X, nm)
      BY <2>4
    <3>. QED
      BY <2>2, <2>4, <3>1 DEF Claim, Fetch
  <2>6. m.item = Masked(x, nm[u])
    BY <1>5, <2>1, <2>3, <2>5 DEF MaskHit
  <2>7. m.engine = [store |-> [cache |-> Touch(c, k), rev |-> s.rev], rows |-> e.rows + 1,
                    failed |-> FALSE]
    <3>1. m.engine = [e EXCEPT !.store = [s EXCEPT !.cache = Touch(c, k)], !.rows = e.rows + 1]
      BY <1>5, <2>1, <2>3 DEF MaskHit
    <3>2. [s EXCEPT !.cache = Touch(c, k)] = [cache |-> Touch(c, k), rev |-> s.rev]
      BY <1>6
    <3>3. PICK y : y = [s EXCEPT !.cache = Touch(c, k)]
      OBVIOUS
    <3>4. PICK g, j : g = m.engine /\ j = e.rows + 1
      OBVIOUS
    <3>5. g = [e EXCEPT !.store = y, !.rows = j]
      BY <3>1, <3>3, <3>4
    <3>6. PICK held : e = [store |-> s, rows |-> held, failed |-> FALSE]
      BY <1>6
    <3>7. g = [store |-> y, rows |-> j, failed |-> FALSE]
      BY <3>5, <3>6
    <3>. QED
      BY <3>2, <3>3, <3>4, <3>7
  <2>8. Fits(m.engine, X, nm) /\ m.engine.rows = e.rows + 1
    BY <1>6, <2>4, <2>7 DEF Fits
  <2>. QED
    BY <1>1, <1>2, <1>7, <2>6, <2>8
<1>9. CASE HitKeys(s, r) = {}
  <2>1. IntegerBranch(TableMethod[t], r) => 0 \in Free(s, r) /\ Probe[u][0] = nm[u]
    <3>. SUFFICES ASSUME IntegerBranch(TableMethod[t], r)
                  PROVE  0 \in Free(s, r) /\ Probe[u][0] = nm[u]
      OBVIOUS
    <3>1. Probe[u][0] = nm[u]
      BY <1>3, <1>4 DEF FirstChoice
    <3>2. ~IsCollision(s, r, nm[u])
      BY <1>3, <1>4, <1>6 DEF IsCollision
    <3>3. 0 \in 0 .. Span
      BY StoreAssumption, FS_CardinalityType DEF Span
    <3>. QED
      BY <1>3, <3>1, <3>2, <3>3 DEF Free
  <2>2. ~Exhausted(s, TableMethod[t], r)
    BY <2>1 DEF Exhausted
  <2>3. Derive(s, TableMethod[t], r) = nm[u]
    <3>1. CASE IntegerBranch(TableMethod[t], r)
      <4>1. FirstFree(s, r) = 0
        <5>1. \A n \in Free(s, r) : n \in Nat
          BY StoreAssumption, FS_CardinalityType DEF Free, Span
        <5>2. 0 \in Free(s, r) /\ \A n \in Free(s, r) : 0 <= n
          BY <2>1, <3>1, <5>1
        <5>3. FirstFree(s, r) \in Free(s, r) /\ FirstFree(s, r) <= 0
          BY <5>2 DEF FirstFree
        <5>. QED
          BY <5>1, <5>3
      <4>. QED
        BY <1>3, <2>1, <3>1, <4>1 DEF Derive, IntegerPseudonym
    <3>2. CASE ~IntegerBranch(TableMethod[t], r)
      BY <1>3, <1>4, <3>2 DEF Derive, FirstChoice
    <3>. QED
      BY <3>1, <3>2
  <2>4. m = MaskMiss(e, x, r, nm[u])
    BY <1>5, <1>7, <1>9, <2>2, <2>3 DEF MaskKey
  <2>5. PICK z : z = StoreCachedValue(s, r, nm[u])
    OBVIOUS
  <2>6. /\ z = [cache |-> z.cache, rev |-> z.rev] /\ z.cache \in Seq(Claim(X, nm))
        /\ \A q \in DOMAIN z.rev : z.rev[q].text \in KeyOf(X) /\ q = nm[z.rev[q].text]
    <3>1. CASE ~CacheEnabled
      BY <1>6, <2>5, <3>1 DEF StoreCachedValue
    <3>2. CASE CacheEnabled
      <4>1. z = [cache |-> Put(s.cache, r, nm[u]),
                 rev   |-> [q \in DOMAIN s.rev \cup {nm[u]} |-> IF q = nm[u] THEN r ELSE s.rev[q]]]
        BY <2>5, <3>2 DEF StoreCachedValue
      <4>2. [raw |-> r, masked |-> nm[u]] \in Claim(X, nm)
        BY <1>3 DEF Claim
      <4>3. Put(s.cache, r, nm[u]) \in Seq(Claim(X, nm))
        BY <1>6, <4>2, CacheEntries
      <4>4. \A q \in DOMAIN z.rev : z.rev[q].text \in KeyOf(X) /\ q = nm[z.rev[q].text]
        BY <1>3, <1>6, <4>1
      <4>. QED
        BY <4>1, <4>3, <4>4
    <3>. QED
      BY <3>1, <3>2
  <2>7. /\ m.engine = [store |-> z, rows |-> e.rows + 1, failed |-> FALSE]
        /\ m.item = Masked(x, nm[u])
    <3>1. /\ m.engine = [e EXCEPT !.store = z, !.rows = e.rows + 1]
          /\ m.item = Masked(x, nm[u])
      BY <1>5, <2>4, <2>5 DEF MaskMiss
    <3>4. PICK g, j : g = m.engine /\ j = e.rows + 1
      OBVIOUS
    <3>5. g = [e EXCEPT !.store = z, !.rows = j]
      BY <3>1, <3>4
    <3>6. PICK held : e = [store |-> s, rows |-> held, failed |-> FALSE]
      BY <1>6
    <3>7. g = [store |-> z, rows |-> j, failed |-> FALSE]
      BY <3>5, <3>6
    <3>. QED
      BY <3>1, <3>4, <3>7
  <2>8. Fits(m.engine, X, nm) /\ m.engine.rows = e.rows + 1
    BY <1>6, <2>6, <2>7 DEF Fits
  <2>. QED
    BY <1>1, <1>2, <1>7, <2>7, <2>8
<1>. QED
  BY <1>8, <1>9

(* A row is masked alike by all such engines. *)
LEMMA MaskRowAlike ==
  ASSUME NEW X, NEW F, NEW nm, Named(X, F, nm), NEW e, NEW g, Fits(e, X, nm), Fits(g, X, nm),
         NEW n \in Nat, e.rows = n + g.rows, NEW t, NEW f \in F, NEW x \in X
  PROVE  LET m == MaskRow(e, t, f, x)
             o == MaskRow(g, t, f, x)
         IN /\ Fits(m.engine, X, nm) /\ Fits(o.engine, X, nm)
            /\ m.engine.rows = n + o.engine.rows
            /\ m.item = o.item /\ o.item \in {Group(x), Masked(x, nm[KeyText[x]])}
<1>0. e.rows \in Nat /\ g.rows \in Nat
  BY DEF Fits
<1>1. PICK m, o : m = MaskRow(e, t, f, x) /\ o = MaskRow(g, t, f, x)
  OBVIOUS
<1>2. CASE t \in Covered
  <2>1. m = MaskKey(e, t, x, Value(f, x)) /\ o = MaskKey(g, t, x, Value(f, x))
    BY <1>1, <1>2 DEF MaskRow
  <2>2. Fits(m.engine, X, nm) /\ m.engine.rows = e.rows + 1 /\ m.item = Masked(x, nm[KeyText[x]])
    BY <1>2, <2>1, MaskKeyByName
  <2>3. Fits(o.engine, X, nm) /\ o.engine.rows = g.rows + 1 /\ o.item = Masked(x, nm[KeyText[x]])
    BY <1>2, <2>1, MaskKeyByName
  <2>4. m.engine.rows = n + o.engine.rows
    BY <1>0, <2>2, <2>3
  <2>. QED
    BY <1>1, <2>2, <2>3, <2>4
<1>3. CASE t \notin Covered
  <2>1. m = [engine |-> e, item |-> Group(x)] /\ o = [engine |-> g, item |-> Group(x)]
    BY <1>1, <1>3 DEF MaskRow
  <2>. QED
    BY <1>1, <2>1
<1>. QED
  BY <1>2, <1>3

-----------------------------------------------------------------------------
(* Two parsers between the same two lines, one of which has written pre and counted n
   rows more than the other, and whose engines have masked only keys that do not
   compete.  I is what may be written of the rows X of the dump. *)
Items(I, X, nm) ==
  /\ Token \subseteq I
  /\ EndOfCopy \in I
  /\ \A t \in Table : CopyFrom(t) \in I /\ InsertInto(t) \in I
  /\ \A x \in X : Group(x) \in I /\ Masked(x, nm[KeyText[x]]) \in I

(* All groups among the tokens s are of X. *)
Holding(s, X) == \A k \in 1 .. Len(s) : IsGroup(s[k]) => s[k][2] \in X

Longer(u, v, pre, I) == pre \in Seq(I) /\ v \in Seq(I) /\ u = pre \o v

Ahead(p, q, pre, n, X, nm, I) ==
  /\ Longer(p.out, q.out, pre, I)
  /\ Fits(p.engine, X, nm) /\ Fits(q.engine, X, nm)
  /\ n \in Nat /\ p.engine.rows = n + q.engine.rows

Alike(p, q, pre, n, X, F, nm, I) ==
  /\ IsParser(p) /\ IsParser(q)
  /\ p.copy = q.copy /\ p.insert = q.insert /\ p.buffer = q.buffer /\ p.trailing = q.trailing
  /\ q.buffer \in Seq(Token) /\ Holding(q.buffer, X)
  /\ q.copy # NoTable => "copy" \in F
  /\ q.insert # NoTable => "insert" \in F
  /\ q.insert = NoTable => q.buffer = <<>> /\ q.trailing = FALSE
  /\ Ahead(p, q, pre, n, X, nm, I)

AlikeScans(a, b, pre, n, X, nm, I, buffer, k) ==
  /\ Scanning(a, buffer, k) /\ Scanning(b, buffer, k)
  /\ a.table = b.table /\ a.trailing = b.trailing /\ a.at = b.at /\ a.done = b.done
  /\ Ahead(a, b, pre, n, X, nm, I)

(* What is written next is written by both. *)
LEMMA BothWrite ==
  ASSUME NEW S, NEW pre \in Seq(S), NEW w \in Seq(S), NEW z \in Seq(S)
  PROVE  w \o z \in Seq(S) /\ (pre \o w) \o z = pre \o (w \o z)
<1>1. w \o z \in Seq(S) /\ pre \o w \in Seq(S)
  OBVIOUS
<1>2. PICK u, v : u = (pre \o w) \o z /\ v = pre \o (w \o z)
  OBVIOUS
<1>3. /\ u \in Seq(S) /\ v \in Seq(S) /\ Len(u) = Len(v)
      /\ Len(u) = Len(pre) + Len(w) + Len(z)
      /\ Len(pre) \in Nat /\ Len(w) \in Nat /\ Len(z) \in Nat
  BY <1>1, <1>2
<1>4. ASSUME NEW k \in 1 .. Len(u)
      PROVE  u[k] = v[k]
  <2>1. CASE k <= Len(pre)
    BY <1>1, <1>2, <1>3, <2>1
  <2>2. CASE Len(pre) < k /\ k <= Len(pre) + Len(w)
    <3>1. u[k] = (pre \o w)[k] /\ (pre \o w)[k] = w[k - Len(pre)]
      BY <1>1, <1>2, <1>3, <2>2
    <3>2. v[k] = (w \o z)[k - Len(pre)] /\ (w \o z)[k - Len(pre)] = w[k - Len(pre)]
      BY <1>1, <1>2, <1>3, <2>2
    <3>. QED
      BY <3>1, <3>2
  <2>3. CASE Len(pre) + Len(w) < k
    <3>1. u[k] = z[k - (Len(pre) + Len(w))]
      BY <1>1, <1>2, <1>3, <2>3
    <3>2. v[k] = (w \o z)[k - Len(pre)]
      BY <1>1, <1>2, <1>3, <2>3
    <3>3. PICK j : j = k - Len(pre)
      OBVIOUS
    <3>4. (w \o z)[j] = z[j - Len(w)] /\ j - Len(w) = k - (Len(pre) + Len(w))
      BY <1>3, <2>3, <3>3
    <3>. QED
      BY <3>1, <3>2, <3>3, <3>4
  <2>. QED
    BY <1>3, <2>1, <2>2, <2>3
<1>5. u = v
  <2>1. \A s \in Seq(S) : s = [k \in 1 .. Len(s) |-> s[k]]
    OBVIOUS
  <2>. QED
    BY <1>3, <1>4, <2>1
<1>. QED
  BY <1>1, <1>2, <1>5

(* The same items appended to both outputs leave the one longer than the other by as much. *)
LEMMA BothGrow ==
  \A I, pre, u, v : Longer(u, v, pre, I) =>
    /\ \A w \in Seq(I) : Longer(u \o w, v \o w, pre, I)
    /\ \A x \in I : Longer(u \o <<x>>, v \o <<x>>, pre, I)
    /\ \A x \in I : Longer(Append(u, x), Append(v, x), pre, I)
<1>. SUFFICES ASSUME NEW I, NEW pre, NEW u, NEW v, Longer(u, v, pre, I)
              PROVE  /\ \A w \in Seq(I) : Longer(u \o w, v \o w, pre, I)
                     /\ \A x \in I : Longer(u \o <<x>>, v \o <<x>>, pre, I)
                     /\ \A x \in I : Longer(Append(u, x), Append(v, x), pre, I)
  OBVIOUS
<1>1. pre \in Seq(I) /\ v \in Seq(I) /\ u = pre \o v /\ u \in Seq(I)
  BY DEF Longer
<1>2. ASSUME NEW w \in Seq(I)
      PROVE  Longer(u \o w, v \o w, pre, I)
  <2>1. v \o w \in Seq(I) /\ (pre \o v) \o w = pre \o (v \o w)
    BY <1>1, BothWrite
  <2>. QED
    BY <1>1, <2>1 DEF Longer
<1>3. ASSUME NEW x \in I
      PROVE  /\ Longer(u \o <<x>>, v \o <<x>>, pre, I)
             /\ Longer(Append(u, x), Append(v, x), pre, I)
  <2>1. <<x>> \in Seq(I)
    OBVIOUS
  <2>2. Append(u, x) = u \o <<x>> /\ Append(v, x) = v \o <<x>>
    <3>1. \A s \in Seq(I) : Append(s, x) = s \o <<x>>
      OBVIOUS
    <3>. QED
      BY <1>1, <3>1
  <2>. QED
    BY <1>2, <2>1, <2>2
<1>. QED
  BY <1>2, <1>3

(* The tokens written are items. *)
LEMMA TokensAreItems ==
  ASSUME NEW X, NEW nm, NEW I, Items(I, X, nm), NEW s \in Seq(Token)
  PROVE  s \in Seq(I)
<1>1. \A T : Token \subseteq T => s \in Seq(T)
  OBVIOUS
<1>. QED
  BY <1>1 DEF Items

(* A token is dealt with alike. *)
LEMMA AlikeScanStep ==
  ASSUME NEW X, NEW F, NEW nm, Named(X, F, nm), "insert" \in F, NEW I, Items(I, X, nm),
         NEW buffer \in Seq(Token), Holding(buffer, X), NEW k \in Nat, k < Len(buffer),
         NEW pre, NEW n, NEW a, NEW b, AlikeScans(a, b, pre, n, X, nm, I, buffer, k)
  PROVE  AlikeScans(ScanToken(a, k + 1), ScanToken(b, k + 1), pre, n, X, nm, I, buffer, k + 1)
<1>. SUFFICES ASSUME NEW i \in 1 .. Len(buffer), i = k + 1,
                     NEW c, c = ScanToken(a, i), NEW d, d = ScanToken(b, i)
              PROVE  AlikeScans(c, d, pre, n, X, nm, I, buffer, i)
  BY DEF AlikeScans
<1>1. Scanning(c, buffer, i) /\ Scanning(d, buffer, i)
  BY ScanStep DEF AlikeScans
<1>2. /\ a = [table |-> a.table, buffer |-> a.buffer, out |-> a.out, engine |-> a.engine,
              trailing |-> a.trailing, at |-> a.at, done |-> a.done]
      /\ b = [table |-> b.table, buffer |-> b.buffer, out |-> b.out, engine |-> b.engine,
              trailing |-> b.trailing, at |-> b.at, done |-> b.done]
      /\ a.buffer = buffer /\ b.buffer = buffer /\ a.at \in 0 .. k
      /\ a.table = b.table /\ a.trailing = b.trailing /\ a.at = b.at /\ a.done = b.done
  BY DEF AlikeScans, Scanning
<1>3. /\ Ahead(a, b, pre, n, X, nm, I) /\ ~a.engine.failed /\ ~b.engine.failed
      /\ n \in Nat
      /\ Fits(a.engine, X, nm) /\ Fits(b.engine, X, nm) /\ a.engine.rows = n + b.engine.rows
  BY DEF AlikeScans, Ahead, Fits
<1>4. PICK text, tail : text = SubSeq(buffer, a.at + 1, i - 1) /\ tail = BeginsClause(buffer, i)
  OBVIOUS
<1>5. text \in Seq(I)
  <2>1. text \in Seq(Token)
    BY <1>2, <1>4
  <2>. QED
    BY <2>1, TokensAreItems
<1>6. PICK tok \in Token : tok = buffer[i]
  OBVIOUS
<1>7. tok \in I /\ (IsGroup(tok) => tok[2] \in X)
  BY <1>6 DEF Items, Holding
<1>8. CASE a.done \/ (tok # Semi /\ (~IsGroup(tok) \/ a.trailing))
  <2>1. c = a /\ d = b
    BY <1>2, <1>3, <1>6, <1>8 DEF ScanToken
  <2>. QED
    BY <1>1, <1>2, <1>3, <2>1 DEF AlikeScans
<1>9. CASE ~a.done /\ tok = Semi
  <2>1. PICK u, v : /\ c = [a EXCEPT !.at = i, !.done = TRUE, !.out = u]
                    /\ d = [b EXCEPT !.at = i, !.done = TRUE, !.out = v]
                    /\ u = IF a.table \in Truncated THEN a.out ELSE a.out \o text \o <<Semi>>
                    /\ v = IF b.table \in Truncated THEN b.out ELSE b.out \o text \o <<Semi>>
    BY <1>2, <1>3, <1>4, <1>6, <1>9 DEF ScanToken
  <2>2. /\ c.table = d.table /\ c.trailing = d.trailing /\ c.at = d.at /\ c.done = d.done
        /\ c.out = u /\ d.out = v /\ c.engine = a.engine /\ d.engine = b.engine
    BY <1>2, <2>1
  <2>3. Longer(u, v, pre, I)
    <3>1. Longer(a.out \o text, b.out \o text, pre, I)
      BY <1>3, <1>5, BothGrow DEF Ahead
    <3>2. Longer((a.out \o text) \o <<Semi>>, (b.out \o text) \o <<Semi>>, pre, I)
      BY <1>7, <1>9, <3>1, BothGrow
    <3>. QED
      BY <1>2, <1>3, <2>1, <3>2 DEF Ahead
  <2>. QED
    BY <1>1, <1>3, <2>2, <2>3 DEF AlikeScans, Ahead
<1>11. CASE ~a.done /\ tok # Semi /\ IsGroup(tok) /\ ~a.trailing /\ a.table \in Truncated
  <2>1. c = [a EXCEPT !.at = i, !.trailing = tail] /\ d = [b EXCEPT !.at = i, !.trailing = tail]
    BY <1>2, <1>3, <1>4, <1>6, <1>11 DEF ScanToken
  <2>2. /\ c.table = d.table /\ c.trailing = d.trailing /\ c.at = d.at /\ c.done = d.done
        /\ c.out = a.out /\ d.out = b.out /\ c.engine = a.engine /\ d.engine = b.engine
    BY <1>2, <2>1
  <2>. QED
    BY <1>1, <1>3, <2>2 DEF AlikeScans, Ahead
<1>12. CASE ~a.done /\ tok # Semi /\ IsGroup(tok) /\ ~a.trailing /\ a.table \notin Truncated
  <2>1. PICK x \in X : x = tok[2]
    BY <1>7, <1>12
  <2>2. PICK m, o : /\ m = MaskRow(a.engine, a.table, "insert", x)
                    /\ o = MaskRow(b.engine, a.table, "insert", x)
    OBVIOUS
  <2>3. /\ Fits(m.engine, X, nm) /\ Fits(o.engine, X, nm)
        /\ m.engine.rows = n + o.engine.rows
        /\ m.item = o.item /\ o.item \in {Group(x), Masked(x, nm[KeyText[x]])}
    BY <1>3, <2>2, MaskRowAlike
  <2>4. ~m.engine.failed /\ ~o.engine.failed
    BY <2>3 DEF Fits
  <2>5. c = WriteRow(a, i, text, tail, m) /\ d = WriteRow(b, i, text, tail, o)
    BY <1>2, <1>3, <1>4, <1>6, <1>12, <2>1, <2>2 DEF ScanToken
  <2>6. PICK item, e, g : item \in I /\ item = o.item /\ e = m.engine /\ g = o.engine
    BY <2>3 DEF Items
  <2>7. PICK u, v : /\ c = [a EXCEPT !.at = i, !.trailing = tail, !.engine = e, !.out = u]
                    /\ d = [b EXCEPT !.at = i, !.trailing = tail, !.engine = g, !.out = v]
                    /\ u = a.out \o text \o <<item>> /\ v = b.out \o text \o <<item>>
    BY <2>3, <2>4, <2>5, <2>6 DEF WriteRow
  <2>8. /\ c.table = d.table /\ c.trailing = d.trailing /\ c.at = d.at /\ c.done = d.done
        /\ c.out = u /\ d.out = v /\ c.engine = e /\ d.engine = g
    BY <1>2, <2>7
  <2>9. Longer(u, v, pre, I)
    <3>1. Longer(a.out \o text, b.out \o text, pre, I)
      BY <1>3, <1>5, BothGrow DEF Ahead
    <3>2. Longer((a.out \o text) \o <<item>>, (b.out \o text) \o <<item>>, pre, I)
      BY <2>6, <3>1, BothGrow
    <3>. QED
      BY <2>7, <3>2
  <2>. QED
    BY <1>1, <1>3, <2>3, <2>6, <2>8, <2>9 DEF AlikeScans, Ahead
<1>. QED
  BY <1>8, <1>9, <1>11, <1>12

(* The whole buffer is scanned alike. *)
LEMMA AlikeScanEnd ==
  ASSUME NEW X, NEW F, NEW nm, Named(X, F, nm), "insert" \in F, NEW I, Items(I, X, nm),
         NEW buffer \in Seq(Token), Holding(buffer, X),
         NEW pre, NEW n, NEW a, NEW b, AlikeScans(a, b, pre, n, X, nm, I, buffer, 0)
  PROVE  AlikeScans(FoldLeftDomain(ScanToken, a, buffer), FoldLeftDomain(ScanToken, b, buffer),
                    pre, n, X, nm, I, buffer, Len(buffer))
<1>1. PICK f : /\ f[0] = a
               /\ \A k \in Nat : k < Len(buffer) => f[k + 1] = ScanToken(f[k], k + 1)
               /\ FoldLeftDomain(ScanToken, a, buffer) = f[Len(buffer)]
  BY ScanSteps
<1>2. PICK g : /\ g[0] = b
               /\ \A k \in Nat : k < Len(buffer) => g[k + 1] = ScanToken(g[k], k + 1)
               /\ FoldLeftDomain(ScanToken, b, buffer) = g[Len(buffer)]
  BY ScanSteps
<1>3. Len(buffer) \in Nat
  OBVIOUS
<1>. DEFINE Good(k) == AlikeScans(f[k], g[k], pre, n, X, nm, I, buffer, k)
            Lost == {k \in Nat : k <= Len(buffer) /\ ~Good(k)}
<1>4. Good(0)
  BY <1>1, <1>2
<1>5. ASSUME NEW k \in Nat, k < Len(buffer), Good(k)
      PROVE  Good(k + 1)
  <2>1. AlikeScans(ScanToken(f[k], k + 1), ScanToken(g[k], k + 1), pre, n, X, nm, I, buffer, k + 1)
    BY <1>5, AlikeScanStep
  <2>. QED
    BY <1>1, <1>2, <1>5, <2>1
<1>. HIDE DEF Good
<1>6. Lost = {}
  <2>. SUFFICES ASSUME Lost # {}
                PROVE  FALSE
    OBVIOUS
  <2>1. PICK k \in Lost : \A m \in Lost : k <= m
    BY ScanFold!LeastOfSet
  <2>2. k # 0 /\ k \in Nat /\ k <= Len(buffer) /\ ~Good(k)
    BY <1>4, <2>1
  <2>3. k - 1 \in Nat /\ k - 1 < Len(buffer) /\ (k - 1) + 1 = k /\ ~(k <= k - 1)
    BY <1>3, <2>2
  <2>4. Good(k - 1)
    BY <1>3, <2>1, <2>3
  <2>. QED
    BY <1>5, <2>2, <2>3, <2>4
<1>7. Good(Len(buffer))
  BY <1>3, <1>6
<1>. QED
  BY <1>1, <1>2, <1>7 DEF Good

(* What is left of a buffer holds what the buffer held. *)
LEMMA RestHolds ==
  ASSUME NEW X, NEW s \in Seq(Token), Holding(s, X), NEW m \in 0 .. Len(s)
  PROVE  SubSeq(s, m + 1, Len(s)) \in Seq(Token) /\ Holding(SubSeq(s, m + 1, Len(s)), X)
<1>0. Len(s) \in Nat /\ m \in Nat /\ m <= Len(s) /\ SubSeq(s, m + 1, Len(s)) \in Seq(Token)
  OBVIOUS
<1>1. PICK n \in Nat, t \in Seq(Token) : n = Len(s) /\ t = SubSeq(s, m + 1, n)
  BY <1>0
<1>2. Len(t) = n - m /\ \A k \in 1 .. n - m : m + k \in 1 .. n /\ (m + 1) + k - 1 = m + k
  BY <1>1
<1>3. \A k \in 1 .. n - m : t[k] = s[(m + 1) + k - 1]
  BY <1>1
<1>4. \A k \in 1 .. Len(t) : t[k] = s[m + k] /\ m + k \in 1 .. n
  BY <1>2, <1>3
<1>. QED
  BY <1>1, <1>4 DEF Holding

(* Both scan the buffer of the INSERT that they are in alike. *)
LEMMA AlikeInsert ==
  ASSUME NEW X, NEW F, NEW nm, Named(X, F, nm), NEW I, Items(I, X, nm),
         NEW pre, NEW n, NEW p, NEW q, IsParser(p), IsParser(q),
         p.copy = q.copy, p.insert = q.insert, p.buffer = q.buffer, p.trailing = q.trailing,
         q.buffer \in Seq(Token), Holding(q.buffer, X), q.copy # NoTable => "copy" \in F,
         q.insert # NoTable, "insert" \in F, Ahead(p, q, pre, n, X, nm, I)
  PROVE  Alike(ScanInsert(p), ScanInsert(q), pre, n, X, F, nm, I)
<1>. DEFINE start(r) == [table |-> r.insert, buffer |-> r.buffer, out |-> r.out,
                         engine |-> r.engine, trailing |-> r.trailing, at |-> 0, done |-> FALSE]
<1>1. PICK buffer \in Seq(Token) : buffer = q.buffer /\ buffer = p.buffer
  OBVIOUS
<1>2. PICK a, b : /\ a = FoldLeftDomain(ScanToken, start(p), buffer)
                  /\ b = FoldLeftDomain(ScanToken, start(q), buffer)
  OBVIOUS
<1>3. AlikeScans(start(p), start(q), pre, n, X, nm, I, buffer, 0)
  <2>1. Scanning(start(p), buffer, 0) /\ Scanning(start(q), buffer, 0)
    BY <1>1 DEF Scanning
  <2>2. Ahead(start(p), start(q), pre, n, X, nm, I)
    BY DEF Ahead
  <2>. QED
    BY <2>1, <2>2 DEF AlikeScans
<1>. HIDE DEF start
<1>4. AlikeScans(a, b, pre, n, X, nm, I, buffer, Len(buffer))
  BY <1>1, <1>2, <1>3, AlikeScanEnd
<1>5. PICK at, rest : at = a.at /\ rest = SubSeq(buffer, at + 1, Len(buffer))
  OBVIOUS
<1>6. /\ a.at = at /\ b.at = at /\ at \in 0 .. Len(buffer) /\ a.done = b.done
      /\ a.trailing = b.trailing /\ Ahead(a, b, pre, n, X, nm, I)
  BY <1>4, <1>5 DEF AlikeScans, Scanning
<1>7. rest \in Seq(Token) /\ Holding(rest, X)
  BY <1>1, <1>5, <1>6, RestHolds
<1>8. PICK c, d : c = ScanInsert(p) /\ d = ScanInsert(q)
  OBVIOUS
<1>9. /\ Longer(a.out, b.out, pre, I) /\ rest \in Seq(I)
      /\ Fits(a.engine, X, nm) /\ Fits(b.engine, X, nm)
      /\ n \in Nat /\ a.engine.rows = n + b.engine.rows
  BY <1>6, <1>7, TokensAreItems DEF Ahead
<1>10. PICK x, y, e, g, more : x = a.out /\ y = b.out /\ e = a.engine /\ g = b.engine
                               /\ more = a.trailing
  OBVIOUS
<1>11. CASE a.done
  <2>1. PICK u, v : /\ c = [p EXCEPT !.insert = NoTable, !.buffer = <<>>, !.trailing = FALSE,
                                     !.engine = e, !.out = u]
                    /\ d = [q EXCEPT !.insert = NoTable, !.buffer = <<>>, !.trailing = FALSE,
                                     !.engine = g, !.out = v]
                    /\ u = IF p.insert \in Truncated THEN x ELSE x \o rest
                    /\ v = IF q.insert \in Truncated THEN y ELSE y \o rest
    <3>1. c = AfterScan(p, a) /\ d = AfterScan(q, b)
      BY <1>1, <1>2, <1>8 DEF ScanInsert, start
    <3>. QED
      BY <1>1, <1>5, <1>6, <1>10, <1>11, <3>1 DEF AfterScan, Unread
  <2>2. /\ IsParser(c) /\ c.copy = p.copy /\ c.insert = NoTable /\ c.buffer = <<>>
        /\ c.trailing = FALSE /\ c.engine = e /\ c.out = u
    BY <2>1 DEF IsParser
  <2>3. /\ IsParser(d) /\ d.copy = q.copy /\ d.insert = NoTable /\ d.buffer = <<>>
        /\ d.trailing = FALSE /\ d.engine = g /\ d.out = v
    BY <2>1 DEF IsParser
  <2>4. Longer(u, v, pre, I)
    BY <1>9, <1>10, <2>1, BothGrow
  <2>5. <<>> \in Seq(Token) /\ Holding(<<>>, X)
    BY DEF Holding
  <2>6. Ahead(c, d, pre, n, X, nm, I)
    BY <1>9, <1>10, <2>2, <2>3, <2>4 DEF Ahead
  <2>. QED
    BY <1>8, <2>2, <2>3, <2>5, <2>6 DEF Alike
<1>12. CASE ~a.done
  <2>1. /\ c = [p EXCEPT !.buffer = rest, !.trailing = more, !.engine = e, !.out = x]
        /\ d = [q EXCEPT !.buffer = rest, !.trailing = more, !.engine = g, !.out = y]
    <3>1. c = AfterScan(p, a) /\ d = AfterScan(q, b)
      BY <1>1, <1>2, <1>8 DEF ScanInsert, start
    <3>. QED
      BY <1>1, <1>5, <1>6, <1>10, <1>12, <3>1 DEF AfterScan, Unread
  <2>2. /\ IsParser(c) /\ c.copy = p.copy /\ c.insert = p.insert /\ c.buffer = rest
        /\ c.trailing = more /\ c.engine = e /\ c.out = x
    BY <2>1 DEF IsParser
  <2>3. /\ IsParser(d) /\ d.copy = q.copy /\ d.insert = q.insert /\ d.buffer = rest
        /\ d.trailing = more /\ d.engine = g /\ d.out = y
    BY <2>1 DEF IsParser
  <2>4. Ahead(c, d, pre, n, X, nm, I)
    BY <1>9, <1>10, <2>2, <2>3 DEF Ahead
  <2>. QED
    BY <1>7, <1>8, <2>2, <2>3, <2>4 DEF Alike
<1>. QED
  BY <1>11, <1>12

(* A line of a dump of whole statements whose keys do not compete. *)
FitLine(l, X, F) ==
  /\ l.toks \in Seq(Token) /\ Holding(l.toks, X)
  /\ l.kind \in {"copy", "insert"} => l.kind \in F /\ l.table \in Table

(* A row of a COPY block is masked alike. *)
LEMMA AlikeRow ==
  ASSUME NEW X, NEW F, NEW nm, Named(X, F, nm), NEW I, Items(I, X, nm),
         NEW pre, NEW n, NEW p, NEW q, Alike(p, q, pre, n, X, F, nm, I), q.copy # NoTable,
         NEW l, FitLine(l, X, F), l.toks # <<>>, IsGroup(l.toks[1])
  PROVE  Alike(CopyRow(p, l), CopyRow(q, l), pre, n, X, F, nm, I)
<1>1. PICK x \in X : x = l.toks[1][2]
  <2>1. 1 \in 1 .. Len(l.toks)
    BY DEF FitLine
  <2>. QED
    BY <2>1 DEF FitLine, Holding
<1>2. IsParser(p) /\ IsParser(q) /\ p.copy = q.copy /\ "copy" \in F
  BY DEF Alike
<1>3. /\ Longer(p.out, q.out, pre, I) /\ Fits(p.engine, X, nm) /\ Fits(q.engine, X, nm)
      /\ n \in Nat /\ p.engine.rows = n + q.engine.rows
  BY DEF Alike, Ahead
<1>4. PICK m, o : /\ m = MaskRow(p.engine, p.copy, "copy", x)
                  /\ o = MaskRow(q.engine, p.copy, "copy", x)
  OBVIOUS
<1>5. /\ Fits(m.engine, X, nm) /\ Fits(o.engine, X, nm)
      /\ m.engine.rows = n + o.engine.rows
      /\ m.item = o.item /\ o.item \in {Group(x), Masked(x, nm[KeyText[x]])}
  BY <1>2, <1>3, <1>4, MaskRowAlike
<1>6. ~m.engine.failed /\ ~o.engine.failed
  BY <1>5 DEF Fits
<1>7. PICK item, e, g : item \in I /\ item = o.item /\ e = m.engine /\ g = o.engine
  BY <1>5 DEF Items
<1>8. PICK c, d : c = CopyRow(p, l) /\ d = CopyRow(q, l)
  OBVIOUS
<1>9. CASE p.copy \in Truncated
  <2>1. c = p /\ d = q
    BY <1>2, <1>8, <1>9 DEF CopyRow
  <2>. QED
    BY <1>8, <2>1
<1>10. CASE p.copy \notin Truncated
  <2>1. PICK u, v : /\ c = [p EXCEPT !.engine = e, !.out = u]
                    /\ d = [q EXCEPT !.engine = g, !.out = v]
                    /\ u = Append(p.out, item) /\ v = Append(q.out, item)
    BY <1>1, <1>2, <1>4, <1>5, <1>6, <1>7, <1>8, <1>10 DEF CopyRow
  <2>2. /\ IsParser(c) /\ c.copy = p.copy /\ c.insert = p.insert /\ c.buffer = p.buffer
        /\ c.trailing = p.trailing /\ c.engine = e /\ c.out = u
    BY <1>2, <2>1 DEF IsParser
  <2>3. /\ IsParser(d) /\ d.copy = q.copy /\ d.insert = q.insert /\ d.buffer = q.buffer
        /\ d.trailing = q.trailing /\ d.engine = g /\ d.out = v
    BY <1>2, <2>1 DEF IsParser
  <2>4. Longer(u, v, pre, I)
    BY <1>3, <1>7, <2>1, BothGrow
  <2>5. Ahead(c, d, pre, n, X, nm, I)
    BY <1>3, <1>5, <1>7, <2>2, <2>3, <2>4 DEF Ahead
  <2>. QED
    BY <1>8, <2>2, <2>3, <2>5 DEF Alike
<1>. QED
  BY <1>9, <1>10

(* Two buffers together hold what they hold. *)
LEMMA HoldingConcat ==
  ASSUME NEW X, NEW s \in Seq(Token), NEW t \in Seq(Token), Holding(s, X), Holding(t, X)
  PROVE  s \o t \in Seq(Token) /\ Holding(s \o t, X)
<1>1. PICK u : u = s \o t
  OBVIOUS
<1>2. /\ u \in Seq(Token) /\ Len(u) = Len(s) + Len(t) /\ Len(s) \in Nat /\ Len(t) \in Nat
      /\ \A k \in 1 .. Len(s) : u[k] = s[k]
      /\ \A k \in 1 .. Len(t) : u[Len(s) + k] = t[k]
  BY <1>1
<1>3. ASSUME NEW k \in 1 .. Len(u), IsGroup(u[k])
      PROVE  u[k][2] \in X
  <2>1. CASE k <= Len(s)
    BY <1>2, <1>3, <2>1 DEF Holding
  <2>2. CASE k > Len(s)
    <3>1. PICK m \in 1 .. Len(t) : Len(s) + m = k
      <4>1. k - Len(s) \in 1 .. Len(t) /\ Len(s) + (k - Len(s)) = k
        BY <1>2, <2>2
      <4>. QED
        BY <4>1
    <3>2. u[k] = t[m]
      BY <1>2, <3>1
    <3>. QED
      BY <1>3, <3>2 DEF Holding
  <2>. QED
    BY <1>2, <2>1, <2>2
<1>. QED
  BY <1>1, <1>2, <1>3 DEF Holding

(* A line is dealt with alike. *)
LEMMA AlikeStep ==
  ASSUME NEW X, NEW F, NEW nm, Named(X, F, nm), NEW I, Items(I, X, nm),
         NEW pre, NEW n, NEW p, NEW q, Alike(p, q, pre, n, X, F, nm, I),
         NEW l, FitLine(l, X, F), q.copy # NoTable => RowOrEnd(l)
  PROVE  Alike(ReadLine(p, l), ReadLine(q, l), pre, n, X, F, nm, I)
<1>1. /\ IsParser(p) /\ IsParser(q)
      /\ p.copy = q.copy /\ p.insert = q.insert /\ p.buffer = q.buffer /\ p.trailing = q.trailing
      /\ q.buffer \in Seq(Token) /\ Holding(q.buffer, X)
      /\ q.copy # NoTable => "copy" \in F
      /\ q.insert # NoTable => "insert" \in F
      /\ q.insert = NoTable => q.buffer = <<>> /\ q.trailing = FALSE
      /\ Ahead(p, q, pre, n, X, nm, I)
  BY DEF Alike
<1>2. /\ Longer(p.out, q.out, pre, I) /\ Fits(p.engine, X, nm) /\ Fits(q.engine, X, nm)
      /\ n \in Nat /\ p.engine.rows = n + q.engine.rows
      /\ ~p.engine.failed /\ ~q.engine.failed
  BY <1>1 DEF Ahead, Fits
<1>3. PICK c, d : c = ReadLine(p, l) /\ d = ReadLine(q, l)
  OBVIOUS
<1>4. CASE q.copy # NoTable /\ l.kind = "end"
  <2>1. c = EndCopy(p) /\ d = EndCopy(q)
    BY <1>1, <1>2, <1>3, <1>4 DEF ReadLine
  <2>2. PICK u, v : /\ c = [p EXCEPT !.copy = NoTable, !.out = u]
                    /\ d = [q EXCEPT !.copy = NoTable, !.out = v]
                    /\ u = IF p.copy \in Truncated THEN p.out ELSE Append(p.out, EndOfCopy)
                    /\ v = IF q.copy \in Truncated THEN q.out ELSE Append(q.out, EndOfCopy)
    BY <2>1 DEF EndCopy
  <2>3. /\ IsParser(c) /\ c.copy = NoTable /\ c.insert = p.insert /\ c.buffer = p.buffer
        /\ c.trailing = p.trailing /\ c.engine = p.engine /\ c.out = u
    BY <1>1, <2>2 DEF IsParser
  <2>4. /\ IsParser(d) /\ d.copy = NoTable /\ d.insert = q.insert /\ d.buffer = q.buffer
        /\ d.trailing = q.trailing /\ d.engine = q.engine /\ d.out = v
    BY <1>1, <2>2 DEF IsParser
  <2>5. Longer(u, v, pre, I)
    BY <1>1, <1>2, <2>2, BothGrow DEF Items
  <2>6. Ahead(c, d, pre, n, X, nm, I)
    BY <1>2, <2>3, <2>4, <2>5 DEF Ahead
  <2>. QED
    BY <1>1, <1>3, <2>3, <2>4, <2>6 DEF Alike
<1>5. CASE q.copy # NoTable /\ l.kind # "end"
  <2>1. c = CopyRow(p, l) /\ d = CopyRow(q, l)
    BY <1>1, <1>2, <1>3, <1>5 DEF ReadLine
  <2>2. l.toks # <<>> /\ IsGroup(l.toks[1])
    BY <1>5 DEF RowOrEnd
  <2>. QED
    BY <1>3, <1>5, <2>1, <2>2, AlikeRow
<1>6. CASE q.copy = NoTable /\ l.kind = "copy"
  <2>1. c = BeginCopy(p, l) /\ d = BeginCopy(q, l)
    BY <1>1, <1>2, <1>3, <1>6 DEF ReadLine
  <2>2. PICK t \in Table, item \in I : t = l.table /\ item = CopyFrom(t)
    BY <1>6 DEF FitLine, Items
  <2>3. PICK u, v : /\ c = [p EXCEPT !.copy = t, !.out = u]
                    /\ d = [q EXCEPT !.copy = t, !.out = v]
                    /\ u = Append(p.out, item) /\ v = Append(q.out, item)
    BY <2>1, <2>2 DEF BeginCopy
  <2>4. /\ IsParser(c) /\ c.copy = t /\ c.insert = p.insert /\ c.buffer = p.buffer
        /\ c.trailing = p.trailing /\ c.engine = p.engine /\ c.out = u
    BY <1>1, <2>3 DEF IsParser
  <2>5. /\ IsParser(d) /\ d.copy = t /\ d.insert = q.insert /\ d.buffer = q.buffer
        /\ d.trailing = q.trailing /\ d.engine = q.engine /\ d.out = v
    BY <1>1, <2>3 DEF IsParser
  <2>6. Longer(u, v, pre, I)
    BY <1>2, <2>3, BothGrow
  <2>7. Ahead(c, d, pre, n, X, nm, I)
    BY <1>2, <2>4, <2>5, <2>6 DEF Ahead
  <2>8. "copy" \in F
    BY <1>6 DEF FitLine
  <2>. QED
    BY <1>1, <1>3, <2>4, <2>5, <2>7, <2>8 DEF Alike
<1>7. CASE q.copy = NoTable /\ l.kind # "copy" /\ q.insert # NoTable
  <2>1. PICK whole : whole = q.buffer \o l.toks
    OBVIOUS
  <2>2. whole \in Seq(Token) /\ Holding(whole, X)
    BY <1>1, <2>1, HoldingConcat DEF FitLine
  <2>3. PICK r, s : /\ r = [p EXCEPT !.buffer = whole] /\ s = [q EXCEPT !.buffer = whole]
    OBVIOUS
  <2>4. c = ScanInsert(r) /\ d = ScanInsert(s)
    BY <1>1, <1>2, <1>3, <1>7, <2>1, <2>3 DEF ReadLine, ContinueInsert
  <2>5. /\ IsParser(r) /\ r.copy = p.copy /\ r.insert = p.insert /\ r.buffer = whole
        /\ r.trailing = p.trailing /\ r.engine = p.engine /\ r.out = p.out
    BY <1>1, <2>3 DEF IsParser
  <2>6. /\ IsParser(s) /\ s.copy = q.copy /\ s.insert = q.insert /\ s.buffer = whole
        /\ s.trailing = q.trailing /\ s.engine = q.engine /\ s.out = q.out
    BY <1>1, <2>3 DEF IsParser
  <2>7. Ahead(r, s, pre, n, X, nm, I)
    BY <1>2, <2>5, <2>6 DEF Ahead
  <2>8. /\ r.copy = s.copy /\ r.insert = s.insert /\ r.buffer = s.buffer
        /\ r.trailing = s.trailing /\ s.buffer \in Seq(Token) /\ Holding(s.buffer, X)
        /\ s.copy # NoTable => "copy" \in F
        /\ s.insert # NoTable /\ "insert" \in F
    BY <1>1, <1>7, <2>2, <2>5, <2>6
  <2>9. Alike(ScanInsert(r), ScanInsert(s), pre, n, X, F, nm, I)
    BY <2>5, <2>6, <2>7, <2>8, AlikeInsert
  <2>. QED
    BY <1>3, <2>4, <2>9
<1>8. CASE q.copy = NoTable /\ q.insert = NoTable /\ l.kind = "insert"
  <2>1. PICK t \in Table, item \in I : t = l.table /\ item = InsertInto(t)
    BY <1>8 DEF FitLine, Items
  <2>2. PICK whole : whole = l.toks /\ whole \in Seq(Token) /\ Holding(whole, X)
    BY DEF FitLine
  <2>3. PICK u, v : /\ u = IF t \in Truncated THEN p.out ELSE Append(p.out, item)
                    /\ v = IF t \in Truncated THEN q.out ELSE Append(q.out, item)
    OBVIOUS
  <2>4. PICK r, s : /\ r = [p EXCEPT !.insert = t, !.buffer = whole, !.trailing = FALSE, !.out = u]
                    /\ s = [q EXCEPT !.insert = t, !.buffer = whole, !.trailing = FALSE, !.out = v]
    OBVIOUS
  <2>5. c = ScanInsert(r) /\ d = ScanInsert(s)
    <3>1. c = BeginInsert(p, l) /\ d = BeginInsert(q, l)
      BY <1>1, <1>2, <1>3, <1>8 DEF ReadLine
    <3>. QED
      BY <2>1, <2>2, <2>3, <2>4, <3>1 DEF BeginInsert
  <2>6. /\ IsParser(r) /\ r.copy = p.copy /\ r.insert = t /\ r.buffer = whole
        /\ r.trailing = FALSE /\ r.engine = p.engine /\ r.out = u
    BY <1>1, <2>4 DEF IsParser
  <2>7. /\ IsParser(s) /\ s.copy = q.copy /\ s.insert = t /\ s.buffer = whole
        /\ s.trailing = FALSE /\ s.engine = q.engine /\ s.out = v
    BY <1>1, <2>4 DEF IsParser
  <2>8. Longer(u, v, pre, I)
    BY <1>2, <2>3, BothGrow
  <2>9. Ahead(r, s, pre, n, X, nm, I)
    BY <1>2, <2>6, <2>7, <2>8 DEF Ahead
  <2>10. t # NoTable /\ "insert" \in F
    BY <1>8, DumpAssumption DEF FitLine
  <2>11. Alike(ScanInsert(r), ScanInsert(s), pre, n, X, F, nm, I)
    BY <1>1, <2>2, <2>6, <2>7, <2>9, <2>10, AlikeInsert
  <2>. QED
    BY <1>3, <2>5, <2>11
<1>9. CASE q.copy = NoTable /\ q.insert = NoTable /\ l.kind \notin {"copy", "insert"}
  <2>1. PICK w \in Seq(I) : w = l.toks
    BY TokensAreItems DEF FitLine
  <2>2. PICK u, v : /\ c = [p EXCEPT !.out = u] /\ d = [q EXCEPT !.out = v]
                    /\ u = p.out \o w /\ v = q.out \o w
    BY <1>1, <1>2, <1>3, <1>9, <2>1 DEF ReadLine
  <2>3. /\ IsParser(c) /\ c.copy = p.copy /\ c.insert = p.insert /\ c.buffer = p.buffer
        /\ c.trailing = p.trailing /\ c.engine = p.engine /\ c.out = u
    BY <1>1, <2>2 DEF IsParser
  <2>4. /\ IsParser(d) /\ d.copy = q.copy /\ d.insert = q.insert /\ d.buffer = q.buffer
        /\ d.trailing = q.trailing /\ d.engine = q.engine /\ d.out = v
    BY <1>1, <2>2 DEF IsParser
  <2>5. Longer(u, v, pre, I)
    BY <1>2, <2>2, BothGrow
  <2>6. Ahead(c, d, pre, n, X, nm, I)
    BY <1>2, <2>3, <2>4, <2>5 DEF Ahead
  <2>. QED
    BY <1>1, <1>3, <2>3, <2>4, <2>6 DEF Alike
<1>. QED
  BY <1>4, <1>5, <1>6, <1>7, <1>8, <1>9

(* What is written, and the rows counted, once the results of some chunks are delivered. *)
Delivered(a, chunk) ==
  [out |-> a.out \o Parse(chunk).out, rows |-> a.rows + Parse(chunk).engine.rows]

Delivery(chunks) == FoldLeft(Delivered, [out |-> <<>>, rows |-> 0], chunks)

DeliveryFold == INSTANCE FoldLaws WITH Op <- Delivered

(* This fold is one that FoldLaws is about. *)
LEMMA SameDelivery ==
  \A base, s : FoldLeft(Delivered, base, s) = DeliveryFold!FoldLeft(Delivered, base, s)
BY DEF FoldLeft, MapThenFoldSet, Max,
       DeliveryFold!FoldLeft, DeliveryFold!MapThenFoldSet, DeliveryFold!Max

(* The results are delivered chunk by chunk. *)
LEMMA DeliverySteps ==
  /\ Delivery(<<>>) = [out |-> <<>>, rows |-> 0]
  /\ \A s \in Seq(Seq(Line)) : \A c \in Seq(Line) :
       Delivery(Append(s, c)) = Delivered(Delivery(s), c)
<1>. DEFINE none == [out |-> <<>>, rows |-> 0]
<1>1. Delivery(<<>>) = none
  <2>1. DeliveryFold!FoldLeft(Delivered, none, <<>>) = none
    BY DeliveryFold!FoldEmpty
  <2>. QED
    BY <2>1, SameDelivery DEF Delivery
<1>2. ASSUME NEW s \in Seq(Seq(Line)), NEW c \in Seq(Line)
      PROVE  Delivery(Append(s, c)) = Delivered(Delivery(s), c)
  <2>. HIDE DEF none
  <2>1. DeliveryFold!FoldLeft(Delivered, none, Append(s, c))
          = Delivered(DeliveryFold!FoldLeft(Delivered, none, s), c)
    BY DeliveryFold!FoldAppend
  <2>. QED
    BY <2>1, SameDelivery DEF Delivery, none
<1>. QED
  BY <1>1, <1>2

(* The result of a chunk is of items, and it counts its rows. *)
Tidy(chunk, I) == Parse(chunk).out \in Seq(I) /\ Parse(chunk).engine.rows \in Nat

(* A parser p of some lines and one of the chunk begun are alike, the one ahead of the
   other by what is delivered of the chunks before. *)
Joined(p, begun, chunks, X, F, nm, I) ==
  /\ Alike(p, Parsing(begun), Delivery(chunks).out, Delivery(chunks).rows, X, F, nm, I)
  /\ \A i \in 1 .. Len(chunks) : Tidy(chunks[i], I)

(* So it is after n lines of a dump. *)
Together(d, n, X, F, nm, I) ==
  Joined(Parsing(SubSeq(d.lines, 1, n)), Read(d, n).chunker.buffer, Read(d, n).chunks,
         X, F, nm, I)

(* A parser that is outside of everything may as well be a new one, and its result is
   what it has written. *)
LEMMA CutAlike ==
  ASSUME NEW X, NEW F, NEW nm, NEW I, NEW pre, NEW n, NEW p, NEW q,
         Alike(p, q, pre, n, X, F, nm, I), Outside(q)
  PROVE  /\ Alike(p, NewParser, pre \o q.out, n + q.engine.rows, X, F, nm, I)
         /\ EndOfInput(q) = q /\ q.out \in Seq(I) /\ q.engine.rows \in Nat
<1>1. /\ IsParser(p) /\ q.copy = NoTable /\ q.insert = NoTable
      /\ p.copy = NoTable /\ p.insert = NoTable /\ p.buffer = <<>> /\ p.trailing = FALSE
  BY DEF Alike, Outside
<1>2. /\ pre \in Seq(I) /\ q.out \in Seq(I) /\ p.out = pre \o q.out
      /\ Fits(p.engine, X, nm) /\ q.engine.rows \in Nat
      /\ n \in Nat /\ p.engine.rows = n + q.engine.rows
  BY DEF Alike, Ahead, Longer, Fits
<1>3. PICK w, m : w = pre \o q.out /\ m = n + q.engine.rows
  OBVIOUS
<1>4. w \in Seq(I) /\ m \in Nat /\ <<>> \in Seq(I) /\ w \o <<>> = w /\ m + 0 = m
  BY <1>2, <1>3
<1>5. /\ IsParser(NewParser) /\ NewParser.copy = NoTable /\ NewParser.insert = NoTable
      /\ NewParser.buffer = <<>> /\ NewParser.trailing = FALSE /\ NewParser.out = <<>>
      /\ NewParser.engine = NewEngine /\ NewEngine.rows = 0
  BY DEF NewParser, IsParser, NewEngine
<1>6. Ahead(p, NewParser, w, m, X, nm, I)
  BY <1>2, <1>3, <1>4, <1>5, NewEngineFits DEF Ahead, Longer
<1>7. <<>> \in Seq(Token) /\ Holding(<<>>, X)
  BY DEF Holding
<1>8. Alike(p, NewParser, w, m, X, F, nm, I)
  BY <1>1, <1>5, <1>6, <1>7 DEF Alike
<1>9. EndOfInput(q) = q
  BY <1>1 DEF EndOfInput
<1>. QED
  BY <1>2, <1>3, <1>8, <1>9

(* Any line of a dump of whole statements. *)
LEMMA LineFits ==
  ASSUME NEW d \in Dumps, WholeStatements(d.lines), NEW i \in 1 .. Len(d.lines)
  PROVE  FitLine(d.lines[i], Groups(d.lines), Forms(d.lines))
<1>1. PICK l : l = d.lines[i]
  OBVIOUS
<1>2. d.lines \in Seq(Line) /\ DOMAIN d.lines = 1 .. Len(d.lines)
  BY DumpLines
<1>3. l \in Line /\ l \in ToSet(d.lines)
  BY <1>1, <1>2 DEF ToSet
<1>4. WholeLine(l)
  BY <1>1, <1>2 DEF WholeStatements, WholeLine
<1>5. l.toks \in Seq(Token)
  BY <1>3, <1>4, SemicolonIsTerminator
<1>6. ASSUME NEW k \in 1 .. Len(l.toks), IsGroup(l.toks[k])
      PROVE  l.toks[k][2] \in Groups(d.lines)
  <2>1. l.toks[k] \in ToSet(l.toks)
    <3>1. k \in DOMAIN l.toks
      BY <1>5
    <3>. QED
      BY <3>1 DEF ToSet
  <2>2. PICK tok : tok = l.toks[k]
    OBVIOUS
  <2>3. tok \in UNION {ToSet(m.toks) : m \in ToSet(d.lines)} /\ IsGroup(tok)
    BY <1>3, <1>6, <2>1, <2>2
  <2>. QED
    BY <2>2, <2>3 DEF Groups
<1>7. l.kind \in {"copy", "insert"} => l.kind \in Forms(d.lines)
  BY <1>3 DEF Forms
<1>. QED
  BY <1>1, <1>4, <1>5, <1>6, <1>7 DEF FitLine, Holding, WholeLine

(* One more line. *)
LEMMA TogetherStep ==
  ASSUME NEW d \in Dumps, WholeStatements(d.lines), NEW X, X = Groups(d.lines),
         NEW F, F = Forms(d.lines), NEW nm, Named(X, F, nm), NEW I, Items(I, X, nm),
         NEW n \in Nat, n < Len(d.lines), Together(d, n, X, F, nm, I)
  PROVE  Together(d, n + 1, X, F, nm, I)
<1>1. PICK lines \in Seq(Line) : lines = d.lines
  BY DumpLines
<1>2. PICK l \in Line : l = lines[n + 1]
  BY <1>1
<1>3. FitLine(l, X, F)
  <2>1. n + 1 \in 1 .. Len(d.lines)
    BY <1>1
  <2>. QED
    BY <1>1, <1>2, <2>1, LineFits
<1>4. PICK r \in Cutting : r = Read(d, n)
  BY <1>1, ReadType
<1>5. Read(d, n + 1) = Yielded(r, l)
  BY <1>1, <1>2, <1>4, ReadSteps
<1>6. PICK c : c = r.chunker
  OBVIOUS
<1>7. c.buffer \in Seq(Line) /\ r.chunks \in Seq(Seq(Line))
  BY <1>4, <1>6 DEF Cutting
<1>8. PICK p, q, pre, m : /\ p = Parsing(SubSeq(lines, 1, n)) /\ q = Parsing(c.buffer)
                          /\ pre = Delivery(r.chunks).out /\ m = Delivery(r.chunks).rows
  OBVIOUS
<1>9. /\ Alike(p, q, pre, m, X, F, nm, I)
      /\ \A i \in 1 .. Len(r.chunks) : Tidy(r.chunks[i], I)
  BY <1>1, <1>4, <1>6, <1>8 DEF Together, Joined
<1>10. q.copy # NoTable => RowOrEnd(l)
  <2>1. ReadInv(d, n) /\ n <= Len(d.lines)
    BY <1>1, ReadInvHolds
  <2>2. Agree(c, q) /\ (c.copy => OpenCopy(d.lines, n))
    BY <1>4, <1>6, <1>8, <2>1 DEF ReadInv
  <2>3. ~q.engine.failed
    BY <1>9 DEF Alike, Ahead, Fits
  <2>4. OpenCopy(d.lines, n) => RowOrEnd(d.lines[n + 1])
    BY <2>1, WholeDump
  <2>. QED
    BY <1>1, <1>2, <2>2, <2>3, <2>4 DEF Agree
<1>11. PICK s, t : s = ReadLine(p, l) /\ t = ReadLine(q, l)
  OBVIOUS
<1>12. Alike(s, t, pre, m, X, F, nm, I)
  BY <1>3, <1>9, <1>10, <1>11, AlikeStep
<1>13. s = Parsing(SubSeq(lines, 1, n + 1))
  <2>1. /\ SubSeq(lines, 1, n) \in Seq(Line)
        /\ SubSeq(lines, 1, n + 1) = Append(SubSeq(lines, 1, n), l)
    <3>1. n \in 0 .. Len(lines) /\ n < Len(lines)
      BY <1>1
    <3>. QED
      BY <1>2, <3>1, FirstLines
  <2>. QED
    BY <1>8, <1>11, <2>1, ParsingSteps
<1>14. PICK b : b = Track(c, l)
  OBVIOUS
<1>15. b.buffer = Append(c.buffer, l) /\ b.buffer \in Seq(Line) /\ t = Parsing(b.buffer)
       /\ b = [buffer |-> b.buffer, copy |-> b.copy, insert |-> b.insert]
  <2>1. b.buffer = Append(c.buffer, l) /\ Append(c.buffer, l) \in Seq(Line)
        /\ b = [buffer |-> b.buffer, copy |-> b.copy, insert |-> b.insert]
    BY <1>7, <1>14 DEF Track
  <2>2. Parsing(Append(c.buffer, l)) = ReadLine(Parsing(c.buffer), l)
    BY <1>7, ParsingSteps
  <2>. QED
    BY <1>8, <1>11, <2>1, <2>2
<1>16. CASE Cut(c, l)
  <2>1. PICK e : e = [b EXCEPT !.buffer = <<>>]
    OBVIOUS
  <2>2. e.buffer = <<>>
    BY <1>15, <2>1
  <2>3. Read(d, n + 1) = [chunker |-> e, chunks |-> Append(r.chunks, b.buffer)]
    BY <1>4, <1>5, <1>6, <1>14, <1>16, <2>1, YieldedType
  <2>4. PICK cs \in Seq(Seq(Line)), x \in Seq(Line) : cs = r.chunks /\ x = b.buffer
    BY <1>7, <1>15
  <2>5. PICK grown : grown = Append(cs, x)
    OBVIOUS
  <2>6. Outside(t)
    <3>1. n + 1 \in Nat /\ n + 1 <= Len(d.lines)
      BY <1>1
    <3>2. ReadInv(d, n + 1)
      BY <3>1, ReadInvHolds
    <3>5. Len(grown) \in 1 .. Len(grown) /\ grown[Len(grown)] = x
      BY <2>4, <2>5
    <3>6. Read(d, n + 1).chunks = grown
      BY <2>3, <2>4, <2>5
    <3>3. Coherent(x)
      BY <3>2, <3>5, <3>6 DEF ReadInv
    <3>4. ~t.engine.failed
      BY <1>12 DEF Alike, Ahead, Fits
    <3>. QED
      BY <1>15, <2>4, <3>3, <3>4 DEF Coherent
  <2>7. /\ Alike(s, NewParser, pre \o t.out, m + t.engine.rows, X, F, nm, I)
        /\ EndOfInput(t) = t /\ t.out \in Seq(I) /\ t.engine.rows \in Nat
    BY <1>12, <2>6, CutAlike
  <2>8. Parse(x) = t
    BY <1>15, <2>4, <2>7 DEF Parse, Parsing
  <2>9. Delivery(grown) = [out |-> pre \o t.out, rows |-> m + t.engine.rows]
    <3>1. Delivery(grown) = Delivered(Delivery(cs), x)
      BY <2>4, <2>5, DeliverySteps
    <3>. QED
      BY <1>8, <2>4, <2>8, <3>1 DEF Delivered
  <2>11. \A i \in 1 .. Len(grown) : Tidy(grown[i], I)
    <3>1. Tidy(x, I)
      BY <2>7, <2>8 DEF Tidy
    <3>2. \A i \in 1 .. Len(grown) : (i \in 1 .. Len(cs) /\ grown[i] = cs[i]) \/ grown[i] = x
      BY <2>4, <2>5
    <3>. QED
      BY <1>9, <2>4, <3>1, <3>2
  <2>12. Read(d, n + 1).chunker.buffer = <<>> /\ Read(d, n + 1).chunks = grown
    BY <2>2, <2>3, <2>4, <2>5
  <2>13. Parsing(<<>>) = NewParser
    BY ParsingSteps
  <2>14. Joined(s, <<>>, grown, X, F, nm, I)
    BY <2>7, <2>9, <2>11, <2>13 DEF Joined
  <2>. QED
    BY <1>1, <1>13, <2>12, <2>14 DEF Together
<1>17. CASE ~Cut(c, l)
  <2>1. Read(d, n + 1) = [chunker |-> b, chunks |-> r.chunks]
    BY <1>4, <1>5, <1>6, <1>14, <1>17, YieldedType
  <2>2. Read(d, n + 1).chunker.buffer = b.buffer /\ Read(d, n + 1).chunks = r.chunks
    BY <2>1
  <2>3. Joined(s, b.buffer, r.chunks, X, F, nm, I)
    BY <1>8, <1>9, <1>12, <1>15 DEF Joined
  <2>. QED
    BY <1>1, <1>13, <2>2, <2>3 DEF Together
<1>. QED
  BY <1>16, <1>17

(* It holds after every number of lines. *)
LEMMA TogetherHolds ==
  ASSUME NEW d \in Dumps, WholeStatements(d.lines), NEW X, X = Groups(d.lines),
         NEW F, F = Forms(d.lines), NEW nm, Named(X, F, nm), NEW I, Items(I, X, nm)
  PROVE  Together(d, Len(d.lines), X, F, nm, I)
<1>. DEFINE Good(n) == Together(d, n, X, F, nm, I)
            Lost == {n \in Nat : n <= Len(d.lines) /\ ~Good(n)}
<1>1. d.lines \in Seq(Line) /\ Len(d.lines) \in Nat
  BY DumpLines
<1>2. Good(0)
  <2>1. Read(d, 0) = [chunker |-> NewChunker, chunks |-> <<>>] /\ NewChunker.buffer = <<>>
    BY ReadSteps DEF NothingRead, NewChunker
  <2>2. SubSeq(d.lines, 1, 0) = <<>>
    BY <1>1, FirstLines
  <2>3. Parsing(<<>>) = NewParser /\ Delivery(<<>>) = [out |-> <<>>, rows |-> 0]
    BY ParsingSteps, DeliverySteps
  <2>4. /\ IsParser(NewParser) /\ NewParser.copy = NoTable /\ NewParser.insert = NoTable
        /\ NewParser.buffer = <<>> /\ NewParser.trailing = FALSE /\ NewParser.out = <<>>
        /\ NewParser.engine = NewEngine /\ NewEngine.rows = 0
    BY DEF NewParser, IsParser, NewEngine
  <2>5. <<>> \in Seq(I) /\ <<>> \o <<>> = <<>> /\ <<>> \in Seq(Token) /\ Holding(<<>>, X)
    BY DEF Holding
  <2>6. Ahead(NewParser, NewParser, <<>>, 0, X, nm, I)
    BY <2>4, <2>5, NewEngineFits DEF Ahead, Longer
  <2>7. Alike(NewParser, NewParser, <<>>, 0, X, F, nm, I)
    BY <2>4, <2>5, <2>6 DEF Alike
  <2>8. \A i \in 1 .. Len(<<>>) : Tidy(<<>>[i], I)
    OBVIOUS
  <2>9. Joined(NewParser, <<>>, <<>>, X, F, nm, I)
    BY <2>3, <2>7, <2>8 DEF Joined
  <2>10. Read(d, 0).chunker.buffer = <<>> /\ Read(d, 0).chunks = <<>>
    BY <2>1
  <2>. QED
    BY <2>2, <2>3, <2>9, <2>10 DEF Together
<1>3. ASSUME NEW n \in Nat, n < Len(d.lines), Good(n)
      PROVE  Good(n + 1)
  BY <1>3, TogetherStep
<1>. HIDE DEF Good
<1>. SUFFICES ASSUME Lost # {}
              PROVE  FALSE
  BY <1>1 DEF Good
<1>4. PICK n \in Lost : \A k \in Lost : n <= k
  BY DeliveryFold!LeastOfSet
<1>5. n # 0 /\ n \in Nat /\ n <= Len(d.lines) /\ ~Good(n)
  BY <1>2, <1>4
<1>6. n - 1 \in Nat /\ n - 1 < Len(d.lines) /\ (n - 1) + 1 = n /\ ~(n <= n - 1)
      /\ n - 1 <= Len(d.lines)
  BY <1>1, <1>5
<1>7. Good(n - 1)
  BY <1>4, <1>6
<1>. QED
  BY <1>3, <1>5, <1>6, <1>7

(* The results of all chunks together are the result of the whole dump. *)
LEMMA DeliveryOfAll ==
  ASSUME NEW d \in Dumps, WholeStatements(d.lines), KeysApart(d.lines)
  PROVE  \E I : /\ \A i \in 1 .. Len(Chunks(d.lines)) : Tidy(Chunks(d.lines)[i], I)
                /\ Delivery(Chunks(d.lines)).out = Parse(d.lines).out
                /\ Delivery(Chunks(d.lines)).rows = Parse(d.lines).engine.rows
                /\ ~Parse(d.lines).engine.failed
<1>1. PICK X, F : X = Groups(d.lines) /\ F = Forms(d.lines)
  OBVIOUS
<1>2. PICK nm : Named(X, F, nm)
  BY <1>1, NamesExist
<1>3. PICK I : Items(I, X, nm)
  <2>1. PICK I : I = Token \cup {EndOfCopy} \cup {CopyFrom(t) : t \in Table}
                       \cup {InsertInto(t) : t \in Table} \cup {Group(x) : x \in X}
                       \cup {Masked(x, nm[KeyText[x]]) : x \in X}
    OBVIOUS
  <2>2. Items(I, X, nm)
    BY <2>1 DEF Items
  <2>. QED
    BY <2>2
<1>4. PICK lines \in Seq(Line), n \in Nat : lines = d.lines /\ n = Len(lines)
  <2>1. d.lines \in Seq(Line) /\ Len(d.lines) \in Nat
    BY DumpLines
  <2>. QED
    BY <2>1
<1>5. PICK r \in Cutting : r = Read(d, n)
  BY <1>4, ReadType
<1>6. PICK cs \in Seq(Seq(Line)), x \in Seq(Line) : cs = r.chunks /\ x = r.chunker.buffer
  BY <1>5 DEF Cutting
<1>7. PICK p, q, pre, m : /\ p = Parsing(lines) /\ q = Parsing(x)
                          /\ pre = Delivery(cs).out /\ m = Delivery(cs).rows
  OBVIOUS
<1>8. /\ Alike(p, q, pre, m, X, F, nm, I)
      /\ \A i \in 1 .. Len(cs) : Tidy(cs[i], I)
  <2>1. Together(d, n, X, F, nm, I)
    BY <1>1, <1>2, <1>3, <1>4, TogetherHolds
  <2>2. SubSeq(lines, 1, n) = lines
    BY <1>4
  <2>. QED
    BY <1>4, <1>5, <1>6, <1>7, <2>1, <2>2 DEF Together, Joined
<1>9. Outside(q)
  <2>1. ReadInv(d, n) /\ n <= Len(d.lines) /\ ~(n < Len(d.lines))
    BY <1>4, ReadInvHolds
  <2>2. ~OpenCopy(d.lines, n) /\ ~OpenInsert(d.lines, n)
    BY <2>1, WholeDump
  <2>3. Agree(r.chunker, q) /\ ~r.chunker.copy /\ ~r.chunker.insert
    BY <1>5, <1>6, <1>7, <2>1, <2>2 DEF ReadInv
  <2>4. ~q.engine.failed
    BY <1>8 DEF Alike, Ahead, Fits
  <2>. QED
    BY <2>3, <2>4 DEF Agree, Outside
<1>10. /\ Alike(p, NewParser, pre \o q.out, m + q.engine.rows, X, F, nm, I)
       /\ EndOfInput(q) = q /\ q.out \in Seq(I) /\ q.engine.rows \in Nat
  BY <1>8, <1>9, CutAlike
<1>11. /\ p.insert = NoTable /\ p.out = pre \o q.out /\ p.engine.rows = m + q.engine.rows
       /\ pre \in Seq(I) /\ m \in Nat
  <2>1. NewParser.insert = NoTable /\ NewParser.out = <<>> /\ NewParser.engine.rows = 0
    BY DEF NewParser, NewEngine
  <2>2. PICK w, k : w = pre \o q.out /\ k = m + q.engine.rows
    OBVIOUS
  <2>3. /\ p.insert = NewParser.insert
        /\ w \in Seq(I) /\ p.out = w \o <<>> /\ k \in Nat /\ p.engine.rows = k + 0
    BY <1>10, <2>1, <2>2 DEF Alike, Ahead, Longer
  <2>4. w \o <<>> = w /\ k + 0 = k
    BY <2>3
  <2>5. pre \in Seq(I) /\ m \in Nat
    BY <1>8 DEF Alike, Ahead, Longer
  <2>. QED
    BY <2>1, <2>2, <2>3, <2>4, <2>5
<1>12. Parse(d.lines) = p /\ Parse(x) = q /\ ~p.engine.failed
  <2>1. EndOfInput(p) = p
    BY <1>11 DEF EndOfInput
  <2>2. ~p.engine.failed
    BY <1>8 DEF Alike, Ahead, Fits
  <2>. QED
    BY <1>4, <1>7, <1>10, <2>1, <2>2 DEF Parse, Parsing
<1>13. Chunks(d.lines) = IF x = <<>> THEN cs ELSE Append(cs, x)
  BY <1>4, <1>5, <1>6, ReadSteps DEF Chunks
<1>14. CASE x = <<>>
  <2>1. q = NewParser
    BY <1>7, <1>14, ParsingSteps
  <2>2. q.out = <<>> /\ q.engine.rows = 0
    BY <2>1 DEF NewParser, NewEngine
  <2>3. pre \o <<>> = pre /\ m + 0 = m
    BY <1>11
  <2>. QED
    BY <1>7, <1>8, <1>11, <1>12, <1>13, <1>14, <2>2, <2>3
<1>15. CASE x # <<>>
  <2>1. PICK grown : grown = Append(cs, x)
    OBVIOUS
  <2>2. Delivery(grown) = [out |-> pre \o q.out, rows |-> m + q.engine.rows]
    <3>1. Delivery(grown) = Delivered(Delivery(cs), x)
      BY <2>1, DeliverySteps
    <3>. QED
      BY <1>7, <1>12, <3>1 DEF Delivered
  <2>3. Tidy(x, I)
    BY <1>10, <1>12 DEF Tidy
  <2>4. \A i \in 1 .. Len(grown) : (i \in 1 .. Len(cs) /\ grown[i] = cs[i]) \/ grown[i] = x
    BY <2>1
  <2>5. \A i \in 1 .. Len(grown) : Tidy(grown[i], I)
    BY <1>8, <2>3, <2>4
  <2>6. Chunks(d.lines) = grown
    BY <1>13, <1>15, <2>1
  <2>7. Delivery(grown).out = Parse(d.lines).out
        /\ Delivery(grown).rows = Parse(d.lines).engine.rows
    BY <1>11, <1>12, <2>2
  <2>. HIDE DEF Delivery
  <2>. QED
    BY <1>12, <2>5, <2>6, <2>7
<1>. QED
  BY <1>14, <1>15

(* A sequence begins what it is extended to. *)
LEMMA Extended ==
  \A I : \A s, z \in Seq(I) : IsPrefix(s, s \o z)
<1>. SUFFICES ASSUME NEW I, NEW s \in Seq(I), NEW z \in Seq(I)
              PROVE  IsPrefix(s, s \o z)
  OBVIOUS
<1>1. PICK t \in Seq(I), n \in Nat : t = s \o z /\ n = Len(s)
  <2>1. s \o z \in Seq(I) /\ Len(s) \in Nat
    OBVIOUS
  <2>. QED
    BY <2>1
<1>2. n <= Len(t) /\ \A k \in 1 .. n : t[k] = s[k]
  BY <1>1
<1>3. SubSeq(s, 1, n) = SubSeq(t, 1, n)
  <2>1. /\ SubSeq(s, 1, n) = [k \in 1 .. n |-> s[k]]
        /\ SubSeq(t, 1, n) = [k \in 1 .. n |-> t[k]]
    BY <1>1, <1>2, FirstOf
  <2>. QED
    BY <1>2, <2>1
<1>. QED
  BY <1>1, <1>2, <1>3 DEF IsPrefix

(* What is delivered of some chunks begins what is delivered of more of them. *)
LEMMA DeliveryGrows ==
  ASSUME NEW cs \in Seq(Seq(Line)), NEW I, \A i \in 1 .. Len(cs) : Tidy(cs[i], I),
         NEW k \in Nat, k <= Len(cs)
  PROVE  /\ SubSeq(cs, 1, Len(cs)) = cs
         /\ IsPrefix(Delivery(SubSeq(cs, 1, k)).out, Delivery(cs).out)
<1>. DEFINE At(n) == Delivery(SubSeq(cs, 1, n)).out
<1>1. Len(cs) \in Nat /\ SubSeq(cs, 1, Len(cs)) = cs
  OBVIOUS
<1>2. At(0) \in Seq(I)
  <2>1. SubSeq(cs, 1, 0) = <<>>
    BY <1>1, FirstLines
  <2>2. Delivery(<<>>).out = <<>> /\ <<>> \in Seq(I)
    BY DeliverySteps
  <2>. QED
    BY <2>1, <2>2
<1>3. ASSUME NEW n \in Nat, n < Len(cs)
      PROVE  \E w \in Seq(I) : At(n + 1) = At(n) \o w
  <2>1. n \in 0 .. Len(cs) /\ n + 1 \in 1 .. Len(cs)
    BY <1>1, <1>3
  <2>2. PICK s \in Seq(Seq(Line)), c \in Seq(Line) : s = SubSeq(cs, 1, n) /\ c = cs[n + 1]
    <3>1. SubSeq(cs, 1, n) \in Seq(Seq(Line))
      BY <2>1, FirstLines
    <3>2. cs[n + 1] \in Seq(Line)
      BY <2>1
    <3>. QED
      BY <3>1, <3>2
  <2>3. SubSeq(cs, 1, n + 1) = Append(s, c)
    BY <1>1, <1>3, <2>1, <2>2, FirstLines
  <2>4. Delivery(Append(s, c)) = Delivered(Delivery(s), c)
    BY DeliverySteps
  <2>5. Parse(c).out \in Seq(I)
    BY <2>1, <2>2 DEF Tidy
  <2>6. Delivered(Delivery(s), c).out = Delivery(s).out \o Parse(c).out
    BY DEF Delivered
  <2>. QED
    BY <2>2, <2>3, <2>4, <2>5, <2>6
<1>. HIDE DEF At
<1>. DEFINE Good(n) == /\ At(n) \in Seq(I)
                       /\ k <= n => At(k) \in Seq(I) /\ \E z \in Seq(I) : At(n) = At(k) \o z
            Lost == {n \in Nat : n <= Len(cs) /\ ~Good(n)}
<1>4. \A s \in Seq(I) : s \o <<>> = s /\ <<>> \in Seq(I)
  OBVIOUS
<1>5. Good(0)
  <2>1. k <= 0 => k = 0
    OBVIOUS
  <2>. QED
    BY <1>2, <1>4, <2>1
<1>6. ASSUME NEW n \in Nat, n < Len(cs), Good(n)
      PROVE  Good(n + 1)
  <2>1. PICK w \in Seq(I) : At(n + 1) = At(n) \o w
    BY <1>3, <1>6
  <2>2. PICK s \in Seq(I) : s = At(n)
    BY <1>6
  <2>3. At(n + 1) \in Seq(I)
    <3>1. s \o w \in Seq(I)
      OBVIOUS
    <3>. QED
      BY <2>1, <2>2, <3>1
  <2>4. CASE k <= n
    <3>1. PICK t \in Seq(I), z \in Seq(I) : t = At(k) /\ s = t \o z
      BY <1>6, <2>2, <2>4
    <3>2. z \o w \in Seq(I) /\ (t \o z) \o w = t \o (z \o w)
      BY BothWrite
    <3>. QED
      BY <2>1, <2>2, <2>3, <3>1, <3>2
  <2>5. CASE k = n + 1
    <3>1. At(k) = At(k) \o <<>>
      BY <1>4, <2>3, <2>5
    <3>. QED
      BY <1>4, <2>3, <2>5, <3>1
  <2>6. CASE ~(k <= n + 1)
    BY <2>3, <2>6
  <2>7. k <= n \/ k = n + 1 \/ ~(k <= n + 1)
    OBVIOUS
  <2>. QED
    BY <2>4, <2>5, <2>6, <2>7
<1>. HIDE DEF Good
<1>7. Good(Len(cs))
  <2>. SUFFICES ASSUME Lost # {}
                PROVE  FALSE
    BY <1>1
  <2>1. PICK n \in Lost : \A m \in Lost : n <= m
    BY DeliveryFold!LeastOfSet
  <2>2. n # 0 /\ n \in Nat /\ n <= Len(cs) /\ ~Good(n)
    BY <1>5, <2>1
  <2>3. n - 1 \in Nat /\ n - 1 < Len(cs) /\ (n - 1) + 1 = n /\ ~(n <= n - 1)
    BY <1>1, <2>2
  <2>4. Good(n - 1)
    BY <1>1, <2>1, <2>3
  <2>. QED
    BY <1>6, <2>2, <2>3, <2>4
<1>8. IsPrefix(At(k), At(Len(cs)))
  <2>1. PICK t \in Seq(I), z \in Seq(I) : t = At(k) /\ At(Len(cs)) = t \o z
    BY <1>7 DEF Good
  <2>. QED
    BY <2>1, Extended
<1>. QED
  BY <1>1, <1>8 DEF At

-----------------------------------------------------------------------------
(* What has been written and counted is what the chunks written have delivered. *)
WrittenInv ==
  LET begun == Delivery(SubSeq(Chunks(dump.lines), 1, Len(tasks) - Len(queue))) IN
  out = begun.out /\ rows = begun.rows

(* Every step keeps the result to what has been delivered. *)
LEMMA WrittenStep ==
  ASSUME StreamInv, StreamInv', WrittenInv, [Next]_vars
  PROVE  WrittenInv'
<1>1. CASE Write
  <2>1. PICK n \in Nat : n = Len(tasks) - Len(queue)
    BY <1>1, WriteKeeps
  <2>2. PICK cs \in Seq(Seq(Line)) : cs = Chunks(dump.lines)
    BY ChunksType DEF StreamInv, FlightInv, Typed
  <2>3. /\ n < Len(cs) /\ tasks[Head(queue)].chunk = cs[n + 1]
        /\ Len(tasks') - Len(queue') = n + 1
    BY <1>1, <2>1, <2>2, WriteKeeps
  <2>4. n \in 0 .. Len(cs) /\ n + 1 \in 1 .. Len(cs)
    BY <2>2, <2>3
  <2>5. PICK s \in Seq(Seq(Line)), c \in Seq(Line) : s = SubSeq(cs, 1, n) /\ c = cs[n + 1]
    <3>1. SubSeq(cs, 1, n) \in Seq(Seq(Line))
      BY <2>4, FirstLines
    <3>2. cs[n + 1] \in Seq(Line)
      BY <2>4
    <3>. QED
      BY <3>1, <3>2
  <2>6. SubSeq(cs, 1, n + 1) = Append(s, c)
    BY <2>3, <2>4, <2>5, FirstLines
  <2>7. Delivery(SubSeq(cs, 1, n + 1)) = Delivered(Delivery(s), c)
    BY <2>6, DeliverySteps
  <2>8. Outcome[c] = Parse(c)
    <3>1. c \in ToSet(cs)
      BY <2>4, <2>5 DEF ToSet
    <3>2. dump \in Dumps
      BY DEF StreamInv, FlightInv, Typed
    <3>3. c \in UNION {ToSet(Chunks(e.lines)) : e \in Dumps}
      BY <2>2, <3>1, <3>2
    <3>. QED
      BY <3>3 DEF Outcome
  <2>9. dump' = dump /\ out' = out \o Parse(c).out /\ rows' = rows + Parse(c).engine.rows
    BY <1>1, <2>3, <2>5, <2>8 DEF Write, Deliver
  <2>10. out = Delivery(s).out /\ rows = Delivery(s).rows
    BY <2>1, <2>2, <2>5 DEF WrittenInv
  <2>11. Delivery(SubSeq(cs, 1, n + 1)).out = out' /\ Delivery(SubSeq(cs, 1, n + 1)).rows = rows'
    <3>1. PICK o, k, e : o = Parse(c).out /\ k = Parse(c).engine.rows /\ e = Delivery(s)
      OBVIOUS
    <3>2. Delivered(e, c) = [out |-> e.out \o o, rows |-> e.rows + k]
      BY <3>1 DEF Delivered
    <3>3. Delivered(e, c).out = e.out \o o /\ Delivered(e, c).rows = e.rows + k
      BY <3>2
    <3>4. out' = e.out \o o /\ rows' = e.rows + k
      BY <2>9, <2>10, <3>1
    <3>. QED
      BY <2>7, <3>1, <3>3, <3>4
  <2>12. Chunks(dump'.lines) = cs
    BY <2>2, <2>9
  <2>13. PICK j : j = Len(tasks') - Len(queue') /\ j = n + 1
    BY <2>3
  <2>. QED
    BY <2>11, <2>12, <2>13 DEF WrittenInv
<1>2. CASE ~Write
  BY <1>2, OnlyWrite DEF WrittenInv
<1>. QED
  BY <1>1, <1>2

(* The parallel parser writes what the sequential parser would, and counts the same rows,
   for any dump of whole statements in which no row contains a semicolon and no two keys
   compete for a pseudonym (test_parallel_stream.py:69-72). *)
THEOREM ParallelIsSequential ==
  Spec => [](WholeStatements(dump.lines) /\ KeysApart(dump.lines) => SameAsSequential)
<1>1. Init => WrittenInv
  <2>. SUFFICES ASSUME Init
                PROVE  WrittenInv
    OBVIOUS
  <2>1. StreamInv /\ Len(tasks) - Len(queue) = 0 /\ out = <<>> /\ rows = 0
    BY InitStream DEF Init
  <2>2. PICK cs \in Seq(Seq(Line)) : cs = Chunks(dump.lines)
    BY <2>1, ChunksType DEF StreamInv, FlightInv, Typed
  <2>3. SubSeq(cs, 1, 0) = <<>>
    BY FirstLines
  <2>4. SubSeq(Chunks(dump.lines), 1, Len(tasks) - Len(queue)) = <<>>
    BY <2>1, <2>2, <2>3
  <2>5. Delivery(<<>>).out = <<>> /\ Delivery(<<>>).rows = 0
    BY DeliverySteps
  <2>. QED
    BY <2>1, <2>4, <2>5 DEF WrittenInv
<1>2. ASSUME StreamInv, WrittenInv, WholeStatements(dump.lines), KeysApart(dump.lines)
      PROVE  SameAsSequential
  <2>1. dump \in Dumps /\ tasks \in Seq(Task) /\ Begins(Submitted, Chunks(dump.lines))
        /\ queue \in Seq(Nat) /\ Len(queue) <= Len(tasks)
    BY <1>2 DEF StreamInv, FlightInv, Typed, CutInv, QueueIsTail
  <2>2. PICK cs \in Seq(Seq(Line)) : cs = Chunks(dump.lines)
    BY <2>1, ChunksType
  <2>3. PICK n \in Nat : n = Len(tasks) - Len(queue) /\ n <= Len(cs)
    <3>1. Len(Submitted) = Len(tasks)
      BY <2>1, SubmittedType
    <3>2. Len(tasks) <= Len(cs) /\ Len(cs) \in Nat /\ Len(tasks) \in Nat /\ Len(queue) \in Nat
      BY <2>1, <2>2, <3>1 DEF Begins
    <3>3. PICK a \in Nat, b \in Nat : a = Len(tasks) /\ b = Len(queue)
      BY <3>2
    <3>4. a - b \in Nat /\ a - b <= Len(cs)
      BY <2>1, <3>2, <3>3
    <3>. QED
      BY <3>3, <3>4
  <2>4. PICK I : /\ \A i \in 1 .. Len(cs) : Tidy(cs[i], I)
                 /\ Delivery(cs).out = Parse(dump.lines).out
                 /\ Delivery(cs).rows = Parse(dump.lines).engine.rows
    BY <1>2, <2>1, <2>2, DeliveryOfAll
  <2>5. out = Delivery(SubSeq(cs, 1, n)).out /\ rows = Delivery(SubSeq(cs, 1, n)).rows
    BY <1>2, <2>2, <2>3 DEF WrittenInv
  <2>6. IsPrefix(out, Parse(dump.lines).out)
    BY <2>3, <2>4, <2>5, DeliveryGrows
  <2>7. ASSUME pc = "done"
        PROVE  out = Parse(dump.lines).out /\ rows = Parse(dump.lines).engine.rows
    <3>1. Submitted = cs /\ queue = <<>>
      BY <1>2, <2>2, <2>7 DEF StreamInv, CutInv, OutcomeInv
    <3>2. Len(tasks) = Len(cs) /\ Len(queue) = 0
      BY <2>1, <3>1, SubmittedType
    <3>3. n = Len(cs)
      BY <2>2, <2>3, <3>2
    <3>4. SubSeq(cs, 1, n) = cs
      BY <3>3
    <3>. QED
      BY <2>4, <2>5, <3>4
  <2>. QED
    BY <2>6, <2>7 DEF SameAsSequential, AgreesWith
<1>3. StreamInv /\ StreamInv' /\ WrittenInv /\ [Next]_vars => WrittenInv'
  BY WrittenStep
<1>. QED
  BY <1>1, <1>2, <1>3, StreamInvariance, PTL DEF Spec

(* The output is the beginning of what the dump means, and all of it when the call returns. *)
OutputFaithful ==
  /\ WholeStatements(dump.lines) /\ KeysApart(dump.lines)
  /\ SaysMeaning(dump) /\ BlocksKept(dump.meaning)
  => AgreesWith(Reference(dump.meaning))

(* The two results together: what the parallel parser writes is the beginning of the dump with
   each row masked as a row of its table, and all of it when the call returns, for any dump of
   whole statements in which no row contains a semicolon and no two keys compete for a
   pseudonym (ParallelStreamParser.process_stream). *)
THEOREM ParallelOutputIsFaithful ==
  Spec => []OutputFaithful
<1>1. /\ StreamInv
      /\ WholeStatements(dump.lines) /\ KeysApart(dump.lines) => SameAsSequential
      => OutputFaithful
  <2>. SUFFICES ASSUME StreamInv, WholeStatements(dump.lines), KeysApart(dump.lines),
                       SameAsSequential, SaysMeaning(dump), BlocksKept(dump.meaning)
                PROVE  AgreesWith(Reference(dump.meaning))
    BY DEF OutputFaithful
  <2>1. dump \in Dumps
    BY DEF StreamInv, FlightInv, Typed
  <2>2. ~Parse(dump.lines).engine.failed
    BY <2>1, DeliveryOfAll
  <2>3. /\ Parse(dump.lines).out = Reference(dump.meaning).out
        /\ Parse(dump.lines).engine = Reference(dump.meaning).engine
    BY <2>1, <2>2, ParseIsReference
  <2>. QED
    BY <2>3 DEF SameAsSequential, AgreesWith
<1>. QED
  BY <1>1, StreamInvariance, ParallelIsSequential, PTL
=============================================================================
