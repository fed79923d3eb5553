--------------------------- MODULE CommandProcess ---------------------------
(***************************************************************************)
(* One invocation of the command line after another, in one working        *)
(* directory: where a command is, how it ends, and how it reports.         *)
(***************************************************************************)
EXTENDS Integers, CommandLine, AlertDispatcher

CONSTANTS
  Sessions,  \* name -> what operators do: [lines, key, channels, commands, losses, worlds]
  NoLine     \* no command line

ASSUME SessionsAssumption ==
  \A s \in DOMAIN Sessions :
    /\ \A l \in Sessions[s].lines : l.typed \subseteq Flags /\ l.named \in BOOLEAN
    /\ NoLine \notin Sessions[s].lines
    /\ Sessions[s].channels \subseteq Channels /\ Sessions[s].commands \in Nat

VARIABLES
  session,   \* name of the session, chosen once
  commands,  \* typed so far
  line,      \* the line of the running command
  pc,        \* "shell", or where the running command is
  exit,      \* exit code of the last command; -1 none, Killed
  wrote,     \* history: organizations the last command wrote to
  left,      \* history: what the last command left: see Leave
  pending,   \* what a loop of the running command has still to do
  failures,  \* result.failed and result.unreachable of the running command
  skips      \* result.skipped of it

commandVars ==
  <<session, commands, line, pc, exit, wrote, left, pending, failures, skips>>

Session == Sessions[session]
Killed == 137

\* The flag is in effect: typed, or supplied by the config file.
Given(flag) == Has(ConfigOf(line, Session.key), flag)

Goto(where) ==
  /\ pc' = where
  /\ UNCHANGED <<session, commands, line, exit, wrote, left, pending, failures, skips>>

\* The command ends with this exit code.  "remains" is what it leaves behind
\* whatever it says: "work" undone, or "skipped", an "apply" withheld, "gaps" it was told
\* to fail on, a "fault" of its own.
Leave(code, remains) ==
  /\ pc' = "shell" /\ exit' = code /\ left' = remains
  /\ line' = NoLine /\ pending' = {} /\ failures' = {} /\ skips' = {}
  /\ UNCHANGED <<session, commands, wrote>>

Fails(code) == Leave(code, {}) /\ UNCHANGED alertVars

Proceeds(where) == Goto(where) /\ UNCHANGED alertVars

\* build_dispatcher: a channel that cannot work ends the command.
BuildDispatcher(next) ==
  \/ NewDispatcher(Session.channels) /\ Goto(next)
  \/ Fails(1)

\* The command's last event; an outage of every channel is the exit code of
\* a command that has no other.
Report(event, severity, code, remains) ==
  \E down \in SUBSET Channels :
    /\ Dispatch(event, severity, down)
    /\ Leave(IF code # 0 THEN code ELSE AlertOutageExit(failedEvents'), remains)

Severity(clean) == IF clean THEN "info" ELSE "warning"
WorkLeft(undone) == IF undone THEN {"work"} ELSE {}

ReportFault == Report("PROCESSING_FAULT", "critical", 1, {"work"})

\* main(): the flags are read, refused or run.
Type(l) ==
  /\ pc = "shell" /\ commands < Session.commands
  /\ LET mode == IF FileRefused(l) THEN "usage" ELSE Mode(ConfigOf(l, Session.key)) IN
     IF mode = "usage"
     THEN line' = NoLine /\ pc' = "shell" /\ exit' = 2
     ELSE line' = l /\ pc' = mode /\ exit' = -1
  /\ commands' = commands + 1
  /\ wrote' = {} /\ left' = {}
  /\ NewDispatcher({})
  /\ UNCHANGED <<session, pending, failures, skips>>

\* The process is killed; what it did stays done.
Die ==
  /\ pc # "shell"
  /\ pc' = "shell" /\ exit' = Killed /\ line' = NoLine
  /\ pending' = {} /\ failures' = {} /\ skips' = {}
  /\ UNCHANGED <<session, commands, wrote, left, alertVars>>

CommandInit ==
  /\ session \in DOMAIN Sessions
  /\ commands = 0 /\ line = NoLine /\ pc = "shell" /\ exit = -1
  /\ wrote = {} /\ left = {} /\ pending = {} /\ failures = {} /\ skips = {}
  /\ AlertInit

CommandTypeOK ==
  /\ commands \in 0 .. Session.commands
  /\ line = NoLine \/ line \in Session.lines
  /\ pc = "shell" <=> line = NoLine
  /\ exit \in {-1, 0, 1, 2, 3, 4, 5, Killed}
  /\ left \subseteq {"work", "skipped", "apply", "gaps", "fault"}
  /\ AlertTypeOK

=============================================================================
