------------------------ MODULE DiscoveryCheckpoint ------------------------
(***************************************************************************)
(* DiscoveryCheckpoint (providers/discovery_checkpoint.py): the            *)
(* append-only JSONL or JSONL.gz file of the calls a discovery pass has    *)
(* completed, as a killed process leaves it and the next one reads it.     *)
(*                                                                         *)
(* A file is its lines, and how it ends: "whole"; with a "fragment" of a   *)
(* line; or "unended", its last line complete but not its newline (plain)  *)
(* or its last compressed member without a trailer (gzip).  A missing file *)
(* and an empty one are the same to this code.                             *)
(***************************************************************************)
EXTENDS Naturals, Sequences, SequencesExt

CONSTANTS
  Calls,    \* (api_path, path_values) of the discovery calls
  NoCall,   \* no call
  Gzip      \* _wants_gzip(path)

ASSUME CheckpointAssumption == Gzip \in BOOLEAN /\ NoCall \notin Calls

VARIABLES
  file,     \* what is on disk
  loaded,   \* _completed
  written   \* this process has flushed something to the file

checkpoint == <<file, loaded, written>>

Outcomes == {"payload", "refused", "unreadable"}

\* A fragment of a line, the bytes of a member that follows one without a
\* trailer, the identity header and a call record.
Mark(what) == [what |-> what, call |-> NoCall, kind |-> "none"]
Torn == Mark("torn")
Junction == Mark("junction")
Header == Mark("header")
Record(c, kind) == [what |-> "record", call |-> c, kind |-> kind]
Lines == {Torn, Junction, Header} \cup {Record(c, k) : c \in Calls, k \in Outcomes}

NoFile == [lines |-> <<>>, end |-> "whole"]

-----------------------------------------------------------------------------
(* Writing.                                                                *)

\* Mutant: what is written stays in a buffer.
Buffered(f, line) == f

\* Appended to a file that does not end whole, the line is lost: glued to
\* the fragment or the unended line, or beyond a broken compressed stream.
Appended(f, line) ==
  IF f.end = "whole" THEN [f EXCEPT !.lines = Append(@, line)]
  ELSE IF Gzip THEN [lines |-> Append(f.lines, Junction), end |-> "whole"]
  ELSE [lines |-> [f.lines EXCEPT ![Len(f.lines)] = Torn], end |-> "whole"]

\* A kill strikes in the middle of appending a line, or at any other time:
\* a compressed member that has been written to has no trailer then.
Killed(f) ==
  IF Gzip /\ written /\ f.end = "whole" THEN [f EXCEPT !.end = "unended"] ELSE f
CutShort(f, line) ==
  {Killed(f), [Appended(f, Torn) EXCEPT !.end = "fragment"],
   [Appended(f, line) EXCEPT !.end = "unended"]}

\* close(): the open member is ended, or an empty one appended.
Closed(f) ==
  IF Gzip /\ f.end # "whole" THEN Appended(f, Torn) ELSE f

-----------------------------------------------------------------------------
(* Reading.                                                                *)

\* The lines before the first one that is not intact.
Intact(f) ==
  LET cut == SelectInSeq(f.lines, LAMBDA l : l \in {Torn, Junction})
  IN IF cut = 0 THEN f.lines ELSE SubSeq(f.lines, 1, cut - 1)
Broken(f) == Contains(f.lines, Junction)

\* _read_intact_lines: a decompression error also loses lines that share a
\* block with the damage.
Readings(f) ==
  IF Gzip /\ Broken(f)
  THEN {SubSeq(Intact(f), 1, n) : n \in 0 .. Len(Intact(f))}
  ELSE {Intact(f)}

\* A plain file whose first line is torn has lines, but no header.
HeaderTorn(f) == ~Gzip /\ f.lines # <<>> /\ Head(f.lines) = Torn

NothingLoaded == [c \in Calls |-> "none"]

\* _load_existing: the last record of each call.
Completed(lines) ==
  [c \in Calls |->
     LET last == SelectLastInSeq(lines, LAMBDA l : l.call = c)
     IN IF last = 0 THEN "none" ELSE lines[last].kind]

\* __init__ on the lines that were read.
Resume(lines) ==
  /\ ~HeaderTorn(file) /\ lines # <<>>
  /\ loaded' = Completed(lines)
  /\ written' = FALSE
  /\ UNCHANGED file
Begin ==
  /\ loaded' = NothingLoaded
  /\ written' = FALSE
  /\ UNCHANGED file
WriteHeader ==
  /\ file' = Appended(file, Header)
  /\ written' = TRUE
  /\ UNCHANGED loaded

\* record(), under the lock: in memory, then on disk, flushed.
Note(c, kind) ==
  /\ loaded' = [loaded EXCEPT ![c] = kind]
  /\ file' = Appended(file, Record(c, kind))
  /\ written' = TRUE

\* The process ends with close() or complete().
Forgotten == loaded' = NothingLoaded /\ written' = FALSE
Close == file' = Closed(file) /\ Forgotten
Complete == file' = NoFile /\ Forgotten

\* Line types, and only a whole file has its last line intact.
CheckpointType ==
  /\ file.lines \in Seq(Lines) /\ file.end \in {"whole", "fragment", "unended"}
  /\ loaded \in [Calls -> Outcomes \cup {"none"}]
  /\ written \in BOOLEAN

=============================================================================
