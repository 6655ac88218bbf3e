---------------------------- MODULE ParallelStream --------------------------
(***************************************************************************)
(* ParallelStreamParser (parsers/chunking.py): the main process cuts the   *)
(* dump into chunks, submits them to a pool of worker processes and writes *)
(* the results in order, with a bounded number of chunks in flight.  Each  *)
(* chunk is parsed with a new engine.                                      *)
(*                                                                         *)
(* The pool (concurrent.futures.ProcessPoolExecutor) is external: it hands *)
(* out the submitted chunks in order, an exception of a worker fails the   *)
(* chunk's future, and the death of a worker process breaks the pool,      *)
(* which fails every future that is not finished and every later           *)
(* submission.                                                             *)
(***************************************************************************)
EXTENDS Chunking

CONSTANTS
  Worker,      \* the worker processes
  WorkersDie   \* whether worker processes may be killed

(* With one worker the code uses the sequential parser instead. *)
ASSUME WorkerAssumption ==
  /\ IsFiniteSet(Worker)
  /\ Cardinality(Worker) > 1
  /\ WorkersDie \in BOOLEAN

MaxInFlight == 2 * Cardinality(Worker)

(* What a worker makes of a chunk: _process_chunk_worker parses it with a new
   engine. *)
Outcome == [c \in UNION {ToSet(Chunks(d.lines)) : d \in Dumps} |-> Parse(c)]

VARIABLES
  dump,     \* the input
  pos,      \* how many of its lines the main process has read
  chunker,  \* the generator of chunks
  tasks,    \* the chunks submitted so far: [chunk, status]
  queue,    \* the futures in flight, as indices of tasks
  job,      \* what each worker is busy with: an index of tasks, or 0
  broken,   \* the pool is broken
  pc,       \* where the main process is
  out,      \* what has been written
  rows      \* rows_processed of the engine that the caller passed

main == <<dump, pos, chunker, pc, out, rows>>
vars == <<dump, pos, chunker, tasks, queue, job, broken, pc, out, rows>>

Init ==
  /\ dump \in Dumps
  /\ pos = 0
  /\ chunker = NewChunker
  /\ tasks = <<>>
  /\ queue = <<>>
  /\ job = [w \in Worker |-> 0]
  /\ broken = FALSE
  /\ pc = "feed"
  /\ out = <<>>
  /\ rows = 0

-----------------------------------------------------------------------------
(* The main process. *)

(* Mutant: one chunk more than intended. *)
FullLate(n) == n > MaxInFlight

Full(n) == n >= MaxInFlight

NextFuture == Len(tasks) + 1

(* executor.submit, then wait for the oldest future if enough are in flight.
   A broken pool refuses. *)
Submit(chunk) ==
  IF broken
    THEN pc' = "exit" /\ UNCHANGED <<tasks, queue>>
    ELSE /\ tasks' = Append(tasks, [chunk |-> chunk, status |-> "pending"])
         /\ queue' = Append(queue, NextFuture)
         /\ pc' = IF Full(Len(queue) + 1) THEN "wait" ELSE "feed"

(* The next line of the input; it may complete a chunk. *)
Feed ==
  /\ pc = "feed"
  /\ pos < Len(dump.lines)
  /\ LET l == dump.lines[pos + 1]
         d == Track(chunker, l)
     IN
     /\ pos' = pos + 1
     /\ IF Cut(chunker, l)
          THEN chunker' = [d EXCEPT !.buffer = <<>>] /\ Submit(d.buffer)
          ELSE chunker' = d /\ UNCHANGED <<tasks, queue, pc>>
  /\ UNCHANGED <<dump, job, broken, out, rows>>

(* The input is read: the last chunk, if any line is left for it. *)
FeedRest ==
  /\ pc = "feed"
  /\ pos = Len(dump.lines)
  /\ IF chunker.buffer = <<>>
       THEN pc' = "drain" /\ UNCHANGED <<chunker, tasks, queue>>
       ELSE chunker' = [chunker EXCEPT !.buffer = <<>>] /\ Submit(chunker.buffer)
  /\ UNCHANGED <<dump, pos, job, broken, out, rows>>

(* A result is written and its rows are counted. *)
Deliver(result) ==
  /\ out' = out \o result.out
  /\ rows' = rows + result.engine.rows

(* Mutant: whichever future has a result first is written first. *)
WriteAny ==
  /\ pc \in {"wait", "drain"}
  /\ \E i \in DOMAIN queue :
       /\ tasks[queue[i]].status = "done"
       /\ Deliver(Outcome[tasks[queue[i]].chunk])
       /\ queue' = RemoveAt(queue, i)
  /\ pc' = IF pc = "wait" THEN "feed" ELSE "drain"
  /\ UNCHANGED <<dump, pos, chunker, tasks, job, broken>>

(* Mutant: once the queue is full the main process never reads on. *)
WriteKeepsWaiting ==
  /\ pc \in {"wait", "drain"}
  /\ queue # <<>>
  /\ tasks[Head(queue)].status = "done"
  /\ Deliver(Outcome[tasks[Head(queue)].chunk])
  /\ queue' = Tail(queue)
  /\ UNCHANGED <<dump, pos, chunker, tasks, job, broken, pc>>

(* The oldest future has a result: write it. *)
Write ==
  /\ pc \in {"wait", "drain"}
  /\ queue # <<>>
  /\ tasks[Head(queue)].status = "done"
  /\ Deliver(Outcome[tasks[Head(queue)].chunk])
  /\ queue' = Tail(queue)
  /\ pc' = IF pc = "wait" THEN "feed" ELSE "drain"
  /\ UNCHANGED <<dump, pos, chunker, tasks, job, broken>>

(* Mutant: the failed chunk is skipped. *)
RaiseNothing ==
  /\ pc \in {"wait", "drain"}
  /\ queue # <<>>
  /\ tasks[Head(queue)].status = "failed"
  /\ queue' = Tail(queue)
  /\ pc' = IF pc = "wait" THEN "feed" ELSE "drain"
  /\ UNCHANGED <<dump, pos, chunker, tasks, job, broken, out, rows>>

(* The oldest future has failed: result() raises. *)
Raise ==
  /\ pc \in {"wait", "drain"}
  /\ queue # <<>>
  /\ tasks[Head(queue)].status = "failed"
  /\ pc' = "exit"
  /\ UNCHANGED <<dump, pos, chunker, tasks, queue, job, broken, out, rows>>

(* Everything is written: the executor is left, and the call returns. *)
Return ==
  /\ pc = "drain"
  /\ queue = <<>>
  /\ pc' = "done"
  /\ UNCHANGED <<dump, pos, chunker, tasks, queue, job, broken, out, rows>>

(* After an exception the executor is left too, which waits for all chunks
   submitted; then the exception goes to the caller. *)
Propagate ==
  /\ pc = "exit"
  /\ \A i \in DOMAIN tasks : tasks[i].status \in {"done", "failed"}
  /\ pc' = "raised"
  /\ UNCHANGED <<dump, pos, chunker, tasks, queue, job, broken, out, rows>>

Main == Feed \/ FeedRest \/ Write \/ Raise \/ Return \/ Propagate

-----------------------------------------------------------------------------
(* The workers. *)

(* An idle worker takes the oldest chunk nobody has taken. *)
Take(w) ==
  /\ job[w] = 0
  /\ \E i \in DOMAIN tasks :
       /\ tasks[i].status = "pending"
       /\ \A j \in 1..(i - 1) : tasks[j].status # "pending"
       /\ job' = [job EXCEPT ![w] = i]
       /\ tasks' = [tasks EXCEPT ![i].status = "running"]
  /\ UNCHANGED <<main, queue, broken>>

(* It has parsed the chunk, or masking has raised an exception. *)
Complete(w) ==
  /\ job[w] # 0
  /\ tasks' = [tasks EXCEPT ![job[w]].status =
                 IF Outcome[tasks[job[w]].chunk].engine.failed THEN "failed" ELSE "done"]
  /\ job' = [job EXCEPT ![w] = 0]
  /\ UNCHANGED <<main, queue, broken>>

(* A worker process is killed. *)
Die ==
  /\ WorkersDie
  /\ ~broken
  /\ tasks # <<>>
  /\ broken' = TRUE
  /\ job' = [w \in Worker |-> 0]
  /\ tasks' = [i \in DOMAIN tasks |->
                 IF tasks[i].status \in {"pending", "running"}
                   THEN [tasks[i] EXCEPT !.status = "failed"] ELSE tasks[i]]
  /\ UNCHANGED <<main, queue>>

Next == Main \/ (\E w \in Worker : Take(w) \/ Complete(w)) \/ Die

Spec == Init /\ [][Next]_vars

(* The main process and the workers keep running; nothing makes a worker die. *)
FairSpec ==
  /\ Spec
  /\ WF_vars(Main)
  /\ \A w \in Worker : WF_vars(Take(w)) /\ WF_vars(Complete(w))

-----------------------------------------------------------------------------
(* Properties. *)

(* What is to be written for the chunks of each input. *)
Results ==
  [d \in Dumps |-> LET chunks == Chunks(d.lines) IN
                     [i \in DOMAIN chunks |-> Outcome[chunks[i]].out]]

Ordered == INSTANCE OrderedStream WITH input <- dump, written <- Len(tasks) - Len(queue)

(* Whatever order the workers finish in, whichever of them fail or die, what is
   written is the results of the first chunks in the order of the input, none
   twice, none left out and none in part ("Drain remaining queue in order"). *)
WritesInOrder == Ordered!Spec

(* The bounded number of chunks in flight ("Maintain bounded in-flight queue
   for constant RAM usage"): chunks submitted and not yet written, whether a
   worker has them or their result waits for its turn. *)
InFlightBounded ==
  /\ Len(queue) <= MaxInFlight
  /\ \A i \in DOMAIN tasks :
       tasks[i].status \in {"pending", "running"} => i > Len(tasks) - MaxInFlight

(* No failure is swallowed: the call returns normally only if every chunk of
   the input has been masked, and raises only if one of them was not; in either
   case no process is left with work when the call is over. *)
FailuresSurface ==
  /\ pc = "done" =>
       /\ [i \in DOMAIN tasks |-> tasks[i].chunk] = Chunks(dump.lines)
       /\ \A i \in DOMAIN tasks : tasks[i].status = "done"
  /\ pc \in {"exit", "raised"} => broken \/ \E i \in DOMAIN tasks : tasks[i].status = "failed"
  /\ pc \in {"done", "raised"} =>
       \A i \in DOMAIN tasks : tasks[i].status \in {"done", "failed"}

Outside(parser) == parser.copy = NoTable /\ parser.insert = NoTable

(* A dump of whole statements, none of whose rows contains a semicolon: every
   COPY block has rows only and is closed, and every INSERT that is begun is
   terminated before a COPY line. *)
WholeStatements(lines) ==
  \A i \in DOMAIN lines :
    /\ lines[i].toks \in Seq(ToSet(lines[i].toks))
    /\ \A tok \in ToSet(lines[i].toks) : IsGroup(tok) => tok[2] \notin SemiRow
    /\ lines[i].kind = "copy" =>
         /\ lines[i].table \in Table
         /\ \E j \in (i + 1)..Len(lines) :
              /\ lines[j].kind = "end"
              /\ \A k \in (i + 1)..(j - 1) :
                   lines[k].toks # <<>> /\ IsGroup(lines[k].toks[1])
    /\ lines[i].kind = "insert" =>
         /\ lines[i].table \in Table
         /\ \E j \in i..Len(lines) :
              /\ Semi \in ToSet(lines[j].toks)
              /\ \A k \in (i + 1)..j : lines[k].kind # "copy"

(* A chunk holds whole statements: a parser that has read it is outside of any
   COPY block and INSERT ("coherent chunks respecting COPY and multi-line
   INSERT boundaries", chunking.py:48). *)
ChunksCoherent ==
  \A i \in DOMAIN tasks :
    Outcome[tasks[i].chunk].engine.failed
      \/ Outside(FoldLeft(ReadLine, NewParser, tasks[i].chunk))

(* The pseudonym that a new engine gives to a value. *)
FirstChoice(method, r) == IF IntegerBranch(method, r) THEN Probe[r.text][0] ELSE Digest[r.text]

(* The rows and column lists of a dump, and the statements they may be in. *)
Groups(lines) ==
  {tok[2] : tok \in {u \in UNION {ToSet(l.toks) : l \in ToSet(lines)} : IsGroup(u)}}
Forms(lines) == {l.kind : l \in ToSet(lines)} \cap {"copy", "insert"}

(* No two keys of a dump compete for a pseudonym, and a key has the same one
   wherever it is: what an engine has masked before makes no difference. *)
KeysApart(lines) ==
  \A x, y \in Groups(lines) :
    /\ KeyText[x] \in DOMAIN Numeral => Numeral[KeyText[x]] = KeyText[x]
    /\ \A t, u \in Covered : \A f, g \in Forms(lines) :
         KeyText[x] = KeyText[y] <=>
           FirstChoice(TableMethod[t], Value(f, x)) = FirstChoice(TableMethod[u], Value(g, y))

AgreesWith(sequential) ==
  /\ IsPrefix(out, sequential.out)
  /\ pc = "done" => out = sequential.out /\ rows = sequential.engine.rows

(* The parallel parser writes what the sequential parser would, and counts the
   same rows (test_parallel_stream.py:69-72). *)
SameAsSequential == AgreesWith(Parse(dump.lines))

(* The call comes to an end, whatever fails. *)
Terminates == <>(pc \in {"done", "raised"})
=============================================================================
