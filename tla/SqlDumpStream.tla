---------------------------- MODULE SqlDumpStream ---------------------------
(***************************************************************************)
(* One SQLDumpStreamParser reading a dump line by line and writing the     *)
(* masked dump, with one engine for the whole dump (cloakdb mask with      *)
(* --workers 1, and each worker of the parallel parser on its chunk).      *)
(***************************************************************************)
EXTENDS SqlDump

VARIABLES
  source,    \* the input, one of Dumps
  consumed,  \* how many of its lines have been read
  parser,    \* the parser, its engine and what has been written
  ended      \* process_stream has returned or raised

parserVars == <<source, consumed, parser, ended>>

ParserInit ==
  /\ source \in Dumps
  /\ consumed = 0
  /\ parser = NewParser
  /\ ended = FALSE

ParseLine ==
  /\ ~ended
  /\ consumed < Len(source.lines)
  /\ ~parser.engine.failed
  /\ parser' = ReadLine(parser, source.lines[consumed + 1])
  /\ consumed' = consumed + 1
  /\ UNCHANGED <<source, ended>>

ParseEnd ==
  /\ ~ended
  /\ consumed = Len(source.lines) \/ parser.engine.failed
  /\ parser' = EndOfInput(parser)
  /\ ended' = TRUE
  /\ UNCHANGED <<source, consumed>>

ParserNext == ParseLine \/ ParseEnd

ParserSpec == ParserInit /\ [][ParserNext]_parserVars

-----------------------------------------------------------------------------
(* Whatever the layout of the statements, the output is the dump with each row
   of each table masked as a row of that table, in order, and everything else
   untouched: no row escapes the parser, no row is taken for one of another
   statement, no other text is taken for a row (test_sql_parser.py). *)
Faithful ==
  LET reference == Reference(source.meaning) IN
  BlocksKept(source.meaning) =>
    /\ IsPrefix(parser.out, reference.out)
    /\ ended /\ ~parser.engine.failed =>
         parser.out = reference.out /\ parser.engine = reference.engine

(* Streaming: once a line has been read, no row of it is held back, unless masking one
   has raised; only the text of a trailing clause is kept for the next line
   (README.md:56). *)
RowsWrittenAtOnce ==
  parser.engine.failed
    \/ \A i \in DOMAIN parser.buffer : IsGroup(parser.buffer[i]) => parser.trailing
=============================================================================
