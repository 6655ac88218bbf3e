------------------------------ MODULE Chunking ------------------------------
(***************************************************************************)
(* How the parallel parser cuts a dump into chunks of whole statements     *)
(* (parsers/chunking.py, _chunk_stream_by_statements).                     *)
(***************************************************************************)
EXTENDS SqlDump

CONSTANTS
  ChunkLines,  \* target_chunk_lines
  SemiRow      \* the rows whose text contains a semicolon, inside quotes

ASSUME ChunkingAssumption ==
  /\ ChunkLines \in Nat \ {0}
  /\ SemiRow \subseteq Row

(* The generator between two lines: the lines of the chunk so far, and
   whether it believes to be inside a COPY block or an INSERT. *)
NewChunker == [buffer |-> <<>>, copy |-> FALSE, insert |-> FALSE]

(* '";" in line' looks into quoted text as well. *)
HasSemicolon(l) ==
  \E i \in DOMAIN l.toks : l.toks[i] = Semi \/ (IsGroup(l.toks[i]) /\ l.toks[i][2] \in SemiRow)

(* Mutant: an INSERT is taken to end with its line. *)
TrackEachLine(c, l) ==
  [buffer |-> Append(c.buffer, l),
   copy   |-> IF c.copy THEN l.kind # "end" ELSE l.kind = "copy",
   insert |-> FALSE]

(* The generator after one more line, before it decides whether to cut. *)
Track(c, l) ==
  LET copying   == c.copy \/ l.kind = "copy"
      inserting == c.insert \/ l.kind = "insert"
  IN
  [buffer |-> Append(c.buffer, l),
   copy   |-> IF c.copy THEN l.kind # "end" ELSE l.kind = "copy",
   insert |-> IF copying THEN c.insert ELSE inserting /\ ~HasSemicolon(l)]

(* A chunk of at least the target size ends where a statement ends. *)
Cut(c, l) ==
  LET d == Track(c, l) IN
  /\ Len(d.buffer) >= ChunkLines
  /\ ~d.copy
  /\ c.copy \/ ~d.insert

(* The generator and the chunks it has yielded, after one more line. *)
Yielded(a, l) ==
  LET d == Track(a.chunker, l) IN
  IF Cut(a.chunker, l)
    THEN [chunker |-> [d EXCEPT !.buffer = <<>>], chunks |-> Append(a.chunks, d.buffer)]
    ELSE [a EXCEPT !.chunker = d]

NothingRead == [chunker |-> NewChunker, chunks |-> <<>>]

(* All chunks of a dump. *)
Chunks(lines) ==
  LET end == FoldLeft(Yielded, NothingRead, lines) IN
  IF end.chunker.buffer = <<>> THEN end.chunks ELSE Append(end.chunks, end.chunker.buffer)
=============================================================================
