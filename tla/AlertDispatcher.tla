-------------------------- MODULE AlertDispatcher --------------------------
(***************************************************************************)
(* AlertDispatcher (alerts/dispatcher.py): an event goes to every channel  *)
(* that handles it, a failing channel never keeps it from the others, and  *)
(* an event that every handling channel failed to deliver is counted.      *)
(***************************************************************************)
EXTENDS Naturals

CONSTANT Channels  \* the channels a command line may configure

\* The paging channel; it declines routine events.
Paging == "pagerduty"

VARIABLES
  channels,      \* configured for this process
  failedEvents,  \* events that reached no configured channel
  announced      \* history: the events dispatched

alertVars == <<channels, failedEvents, announced>>

Handles(c, severity) == c # Paging \/ severity # "info"

\* One event, while the endpoints of "down" refuse or do not answer.  No
\* channel configured, or none that wants the event, is not a failure.
Dispatch(event, severity, down) ==
  LET handlers == {c \in channels : Handles(c, severity)} IN
  /\ announced' = announced \cup {event}
  /\ failedEvents' = failedEvents +
       (IF handlers # {} /\ handlers \subseteq down THEN 1 ELSE 0)
  /\ UNCHANGED channels

\* build_dispatcher: a process has a dispatcher of its own, with the
\* channels its flags name.
NewDispatcher(names) ==
  /\ channels' = names
  /\ failedEvents' = 0
  /\ announced' = {}

\* _alert_outage_exit: the lowest-priority exit code.
AlertOutageExit(failed) == IF failed > 0 THEN 5 ELSE 0

AlertInit == channels = {} /\ failedEvents = 0 /\ announced = {}

AlertTypeOK ==
  /\ channels \subseteq Channels
  /\ failedEvents \in Nat

=============================================================================
