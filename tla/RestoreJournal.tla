--------------------------- MODULE RestoreJournal ---------------------------
(***************************************************************************)
(* RestoreJournal (restorer.py) as the file it keeps: one record to a      *)
(* line, appended one at a time and read back as a whole by the next run.  *)
(*                                                                         *)
(* A record is [kind, about]: "bound" (the meta line) about <<target,      *)
(* source>>, "attempt" and "done" about an action key, "map" and "unmap"   *)
(* about a key's identifier.  "tail" is how the file ends: "whole" (a line *)
(* end), "torn" (a fragment of a record the process died in) or "bare" (a  *)
(* record without its line end).  A fragment is not a member of "lines".   *)
(***************************************************************************)
EXTENDS Naturals, Sequences, SequencesExt

CONSTANT Tears  \* the torn endings a kill may leave: a subset of {"torn", "bare"}

ASSUME JournalAssumption == Tears \subseteq {"torn", "bare"}

VARIABLES
  lines, tail,  \* the file
  memory,       \* what the process holds: the facts it loaded or recorded
  loaded        \* a process has the journal open

journalVars == <<lines, tail, memory, loaded>>

Record(kind, about) == [kind |-> kind, about |-> about]

\* Two records on one line: not JSON.
Garbage == Record("garbage", <<>>)

\* _load_record, line by line.
Replayed(facts, record) ==
  IF record.kind = "unmap" THEN facts \ {Record("map", record.about)}
  ELSE facts \cup {record}

\* All of them: what no later line has retired.
Retired(records, i) ==
  /\ records[i].kind = "map"
  /\ \E j \in DOMAIN records : i < j /\ records[j] = Record("unmap", records[i].about)

FactsOf(records) ==
  {records[i] : i \in {i \in DOMAIN records : records[i].kind # "unmap" /\ ~Retired(records, i)}}

\* A line that is no record is forgiven at the end of the file only.
Unreadable == \E i \in 1 .. Len(lines) : lines[i] = Garbage /\ (i < Len(lines) \/ tail = "torn")

Intact == IF lines # <<>> /\ Last(lines) = Garbage THEN Front(lines) ELSE lines

\* Mutant: the torn line is skipped and stays.
TailKept == tail

TailLoaded == IF tail = "torn" \/ Intact # lines THEN "whole" ELSE tail

\* __init__: nothing comes of an unreadable file; a torn last line is cut
\* away; a last line without its end is read like any other.
Load ==
  /\ ~Unreadable
  /\ memory' = FactsOf(Intact)
  /\ lines' = Intact
  /\ tail' = TailLoaded
  /\ loaded' = TRUE

\* _append: what is written comes after whatever the file ends with.
WithLine(record) ==
  CASE tail = "whole" -> Append(lines, record)
    [] tail = "torn" -> Append(lines, Garbage)
    [] tail = "bare" -> Append(Front(lines), Garbage)

AppendLine(record) == lines' = WithLine(record) /\ tail' = "whole"

\* The process dies in _append: the file keeps a part of the record, behind
\* whatever it ends with.
TornLine(record, tear) ==
  \/ /\ tail = "whole" /\ tail' = tear
     /\ lines' = IF tear = "bare" THEN Append(lines, record) ELSE lines
  \/ tail = "bare" /\ tail' = "torn" /\ lines' = Front(lines)

\* Mutant: the source is compared, the target is not.
BoundToOtherSource(claim) ==
  \E f \in memory : f.kind = "bound" /\ f.about[2] # claim[2]

\* The bind() of a restore of "claim": a journal that records another
\* restore, or records without saying whose, is refused.
BoundElsewhere(claim) ==
  LET bound == {f \in memory : f.kind = "bound"} IN
  memory # {} /\ bound # {Record("bound", claim)}

\* record_attempt and record_done, record_mapping, record_unmap, bind().
Remember(record) ==
  /\ loaded
  /\ memory' = Replayed(memory, record)
  /\ AppendLine(record)
  /\ UNCHANGED loaded

\* The process dies on its way: between two calls, or in the append of "record".
Close == loaded' = FALSE /\ memory' = {}

DieIdle == Close /\ UNCHANGED <<lines, tail>>

DieWriting(record) ==
  /\ loaded
  /\ \E tear \in Tears : TornLine(record, tear)
  /\ Close

NewJournal == lines = <<>> /\ tail = "whole" /\ memory = {} /\ loaded = FALSE

-----------------------------------------------------------------------------
(* What the file says, to whoever reads it next.                           *)
Durable == IF Unreadable THEN {} ELSE FactsOf(Intact)

\* The process died between a record and its line end, or wrote behind one.
Spoiled == tail = "bare" \/ \E i \in DOMAIN lines : lines[i] = Garbage

JournalTypeOK ==
  /\ tail \in {"whole", "torn", "bare"}
  /\ loaded \in BOOLEAN
  /\ loaded \/ memory = {}

=============================================================================
