---------------------------- MODULE AppServerSession ----------------------------
(***************************************************************************)
(* One benchmark session: run_app_server_session of app_server.py drives a *)
(* codex app-server over stdio, and CodexAppServerCollector of telemetry.py *)
(* counts the tokens of every agent of the tree from its notifications.    *)
(* The server is the environment: its agents work side by side and their   *)
(* notifications reach the client in any order between agents, in order    *)
(* for one agent, and any of them may be lost.  One step is one message,   *)
(* consumed as it is sent, or one that is sent and does not arrive.        *)
(***************************************************************************)
EXTENDS Naturals, FiniteSets, FiniteSetsExt

CONSTANTS
  Threads, Root,   \* the agents, and the one the client starts
  None,            \* no parent
  MaxTurns,        \* bound: turns of the tree
  MaxTokens,       \* bound: tokens of the tree
  MaxLosses,       \* bound: notifications lost in a session
  Faults           \* what else the server may do

ASSUME SessionAssumption ==
  /\ Root \in Threads /\ None \notin Threads
  /\ MaxTurns \in Nat /\ MaxTokens \in Nat /\ MaxLosses \in Nat
  /\ Faults \subseteq {"lost", "repeated", "exits", "requests"}

VARIABLES
  pc, error,       \* of the session
  returncode,      \* 0 or not, with which the adapter reports "completed" or not
  rootCompleted,
  agents,          \* the server: what every agent does and has spent
  losses,          \* notifications lost so far
  meter,           \* the provider's: what the whole tree has spent
  collector

vars == <<pc, error, returncode, rootCompleted, agents, losses, meter, collector>>

LOCAL INSTANCE Calibration

Errors == {"none", "rejected", "request", "deadline", "exited", "telemetry"}

\* A usage notification: the turn, the cumulative total, the delta of the response.
Updates == [turn : Nat, total : Nat, last : Nat]

Agents ==
  [phase  : {"absent", "asked", "working", "unheard", "idle"},
     \* asked for a turn, at work on it, at work on one whose start was lost
   parent : Threads \cup {None}, linked : BOOLEAN,    \* who spawned it; is that announced
   turns  : Nat, spent : Nat, sent : Updates]         \* sent: the latest notification to arrive

Collectors ==
  [sessions : SUBSET Threads, parent : [Threads -> Threads \cup {None}],
   counted  : [Threads -> Nat],                 \* the session's tokens, by deltas
   ledger   : [Threads -> Nat],                 \* _runtime_totals
   updates  : [Threads -> SUBSET (Nat \X Nat)], \* _usage_updates
   active   : SUBSET Threads]

Absent == [phase |-> "absent", parent |-> None, linked |-> FALSE,
           turns |-> 0, spent |-> 0, sent |-> [turn |-> 0, total |-> 0, last |-> 0]]

EmptyCollector ==
  [sessions |-> {}, parent |-> [t \in Threads |-> None],
   counted |-> [t \in Threads |-> 0], ledger |-> [t \in Threads |-> 0],
   updates |-> [t \in Threads |-> {}], active |-> {}]

Init ==
  /\ pc = "initializing" /\ error = "none" /\ returncode = 1
  /\ rootCompleted = FALSE
  /\ agents = [t \in Threads |-> Absent] /\ losses = 0 /\ meter = 0
  /\ collector = EmptyCollector

-------------------------------------------------------------------------------
(* The collector. *)

\* register_thread: a thread named twice keeps the parent it was given first.
Registered(c, t, parent) ==
  [c EXCEPT !.sessions = @ \cup {t}, !.parent[t] = parent]

Conflicts(c, t, parent) == c.parent[t] \notin {None, parent}

\* Mutant: one update per turn.
UpdateKeyByTurn(u) == <<u.turn, 0>>

UpdateKey(u) == <<u.turn, u.total>>

\* The delta of the response against the cumulative totals.
Reconciles(c, t, u) == u.total >= c.ledger[t] /\ u.total - c.ledger[t] = u.last

\* _consume_usage, when it neither drops the update nor raises.
Counted(c, t, u) ==
  [c EXCEPT !.sessions = @ \cup {t}, !.ledger[t] = u.total,
            !.counted[t] = @ + u.last, !.updates[t] = @ \cup {UpdateKey(u)}]

\* Mutant: parent links are not followed to the root.
CyclesAllowed(c) == TRUE

Acyclic(c) == \A S \in SUBSET c.sessions \ {{}} : \E t \in S : c.parent[t] \notin S

\* Every session has used tokens and hangs on another one, or is the root.
Rooted(c) ==
  /\ Root \in c.sessions
  /\ \A t \in c.sessions : c.updates[t] # {}
  /\ \A t \in c.sessions \ {Root} : c.parent[t] # None
  /\ \A t \in c.sessions : c.parent[t] \in c.sessions \cup {None}
  /\ Acyclic(c)

\* The rows against the runtime ledger.
TotalsMatch(c) ==
  MapThenSumSet(LAMBDA t : c.counted[t], c.sessions)
    = MapThenSumSet(LAMBDA t : c.ledger[t], c.sessions)

\* validate_complete_tree
ValidTree(c) == Rooted(c) /\ TotalsMatch(c)

-------------------------------------------------------------------------------
(* The session. *)

Running == pc = "running"

InTurn(t) == agents[t].phase \in {"working", "unheard"}

Turns == MapThenSumSet(LAMBDA t : agents[t].turns, Threads)

\* The loop is left: the server is made to stop and waited for, then the tree
\* is checked.  A server that had to be terminated has not exited with 0.
Leave(why, c) ==
  /\ pc' = "ended"
  /\ error' = IF why = "none" /\ ~ValidTree(c) THEN "telemetry" ELSE why
  /\ returncode' \in IF error' = "none" THEN {0, 1} ELSE {1}

\* A message that the collector accepts, or at which it raises.
Consume(raises, c) ==
  IF raises
  THEN Leave("telemetry", collector) /\ UNCHANGED collector
  ELSE collector' = c /\ UNCHANGED <<pc, error, returncode>>

\* The answer to "initialize": "initialized" and "thread/start" are sent.
Initialized ==
  /\ pc = "initializing"
  /\ pc' = "starting"
  /\ UNCHANGED <<error, returncode, rootCompleted, agents, losses, meter, collector>>

\* The answer to "thread/start": the root is registered, its turn asked for.
ThreadStarted ==
  /\ pc = "starting"
  /\ pc' = "running"
  /\ collector' = Registered(collector, Root, None)
  /\ agents' = [agents EXCEPT ![Root] =
                 [agents[Root] EXCEPT !.phase = "asked", !.turns = 1, !.linked = TRUE]]
  /\ UNCHANGED <<error, returncode, rootCompleted, losses, meter>>

\* An error in the answer to one of the three requests.
Rejected ==
  /\ pc \in {"initializing", "starting"} \/ (Running /\ agents[Root].phase = "asked")
  /\ Leave("rejected", collector)
  /\ UNCHANGED <<rootCompleted, agents, losses, meter, collector>>

\* A request of the server is not answered.
ServerRequests ==
  /\ "requests" \in Faults
  /\ Running /\ \E t \in Threads : InTurn(t)
  /\ Leave("request", collector)
  /\ UNCHANGED <<rootCompleted, agents, losses, meter, collector>>

Deadline ==
  /\ pc # "ended"
  /\ Leave("deadline", collector)
  /\ UNCHANGED <<rootCompleted, agents, losses, meter, collector>>

\* The server is gone and its pipe open, nothing was read for a second; or a
\* write to it failed.
FoundExited ==
  /\ "exits" \in Faults
  /\ pc # "ended"
  /\ Leave("exited", collector)
  /\ UNCHANGED <<rootCompleted, agents, losses, meter, collector>>

\* The stream ends.
StreamEnds ==
  /\ "exits" \in Faults
  /\ pc # "ended"
  /\ Leave(IF rootCompleted THEN "none" ELSE "exited", collector)
  /\ UNCHANGED <<rootCompleted, agents, losses, meter, collector>>

TurnStarted(t) ==
  /\ Running /\ agents[t].phase = "asked"
  /\ agents' = [agents EXCEPT ![t].phase = "working"]
  /\ Consume(FALSE, [collector EXCEPT !.sessions = @ \cup {t}, !.active = @ \cup {t}])
  /\ UNCHANGED <<rootCompleted, losses, meter>>

\* What the collector does with a usage notification.
UsageUpdated(t, u) ==
  IF UpdateKey(u) \in collector.updates[t]
  THEN UNCHANGED <<pc, error, returncode, collector>>
  ELSE Consume(~Reconciles(collector, t, u), Counted(collector, t, u))

\* A response of agent t that cost n tokens.
Responds(t, n) ==
  LET u == [turn |-> agents[t].turns, total |-> agents[t].spent + n, last |-> n]
  IN /\ Running /\ InTurn(t)
     /\ meter + n <= MaxTokens /\ meter' = meter + n
     /\ agents' = [agents EXCEPT ![t] = [agents[t] EXCEPT !.spent = @ + n, !.sent = u]]
     /\ UsageUpdated(t, u)
     /\ UNCHANGED <<rootCompleted, losses>>

MayBeLost ==
  /\ "lost" \in Faults /\ losses < MaxLosses
  /\ losses' = losses + 1

\* One whose notification does not arrive.
Loses(t, n) ==
  /\ Running /\ InTurn(t) /\ MayBeLost
  /\ meter + n <= MaxTokens /\ meter' = meter + n
  /\ agents' = [agents EXCEPT ![t].spent = @ + n]
  /\ UNCHANGED <<pc, error, returncode, rootCompleted, collector>>

\* The latest notification once more.
Repeats(t) ==
  /\ "repeated" \in Faults
  /\ Running /\ agents[t].sent.total > 0
  /\ UsageUpdated(t, agents[t].sent)
  /\ UNCHANGED <<rootCompleted, agents, losses, meter>>

\* Agent p spawns t; the notification of that is p's, the next of t is t's.
Spawns(p, t) ==
  /\ Running /\ InTurn(p) /\ agents[t].phase = "absent" /\ Turns < MaxTurns
  /\ agents' = [agents EXCEPT ![t] =
                 [agents[t] EXCEPT !.phase = "asked", !.turns = 1, !.parent = p]]
  /\ UNCHANGED <<pc, error, returncode, rootCompleted, losses, meter, collector>>

\* subAgentActivity of kind "started"
ActivityStarted(p, t) ==
  /\ Running /\ agents[t].parent = p /\ ~agents[t].linked
  /\ agents' = [agents EXCEPT ![t].linked = TRUE]
  /\ Consume(Conflicts(collector, t, p), Registered(collector, t, p))
  /\ UNCHANGED <<rootCompleted, losses, meter>>

\* An idle agent is given another turn.
Woken(t) ==
  /\ t # Root /\ agents[t].phase = "idle" /\ Turns < MaxTurns
  /\ agents' = [agents EXCEPT ![t] = [agents[t] EXCEPT !.phase = "asked", !.turns = @ + 1]]

\* A collaboration call to an agent that exists: its sender is taken for the
\* receiver's parent.  An idle receiver may be woken.
CollabToolCall(p, t) ==
  /\ Running /\ p # t
  /\ InTurn(p) /\ agents[t].phase # "absent"
  /\ agents' = agents \/ Woken(t)
  /\ Consume(Conflicts(collector, t, p), Registered(collector, t, p))
  /\ UNCHANGED <<rootCompleted, losses, meter>>

\* Mutant: whoever is active.
RootDone(t, c) == t = Root

\* The loop is left at the end of the root's turn, if no agent is active then.
SessionDone(t, c) == t = Root /\ c.active = {}

\* By the end of its turn an agent has announced whom it spawned.
Announced(t) == \A child \in Threads : agents[child].parent = t => agents[child].linked

TurnCompleted(t) ==
  LET c == [collector EXCEPT !.sessions = @ \cup {t}, !.active = @ \ {t}]
  IN /\ Running /\ InTurn(t) /\ Announced(t)
     /\ agents' = [agents EXCEPT ![t].phase = "idle"]
     /\ rootCompleted' = (rootCompleted \/ t = Root)
     /\ UNCHANGED <<losses, meter>>
     /\ IF SessionDone(t, c)
        THEN collector' = c /\ Leave("none", c)
        ELSE Consume(FALSE, c)

\* A command or a tool call of an agent ends.
ToolCompleted(t) ==
  /\ Running /\ InTurn(t)
  /\ Consume(FALSE, [collector EXCEPT !.sessions = @ \cup {t}])
  /\ UNCHANGED <<rootCompleted, agents, losses, meter>>

\* Every other notification may be lost too: the start of a turn, a spawned
\* agent's activity, the call that wakes an agent, the end of a turn.
GoesUnheard(t) ==
  /\ Running /\ MayBeLost
  /\ \/ /\ agents[t].phase = "asked"
        /\ agents' = [agents EXCEPT ![t].phase = "unheard"]
     \/ /\ agents[t].parent # None /\ ~agents[t].linked
        /\ agents' = [agents EXCEPT ![t].linked = TRUE]
     \/ (\E p \in Threads \ {t} : InTurn(p)) /\ Woken(t)
     \/ /\ InTurn(t) /\ Announced(t)
        /\ agents' = [agents EXCEPT ![t].phase = "idle"]
  /\ UNCHANGED <<pc, error, returncode, rootCompleted, meter, collector>>

Next ==
  \/ Initialized \/ ThreadStarted \/ Rejected \/ ServerRequests
  \/ Deadline \/ FoundExited \/ StreamEnds
  \/ \E t \in Threads :
       \/ TurnStarted(t) \/ ToolCompleted(t) \/ TurnCompleted(t) \/ Repeats(t)
       \/ GoesUnheard(t)
       \/ \E n \in 1..MaxTokens : Responds(t, n) \/ Loses(t, n)
       \/ \E p \in Threads : Spawns(p, t) \/ ActivityStarted(p, t) \/ CollabToolCall(p, t)

Spec == Init /\ [][Next]_vars

-------------------------------------------------------------------------------
(* What is made of a session. *)

\* With this return code the adapter reports "completed".
Accepted == pc = "ended" /\ returncode = 0

\* Mutant: the stream is held against its own ledger, whatever total is given.
CalibratesByStream(ledger) ==
  /\ pc = "ended" /\ ValidTree(collector)
  /\ Reconciled(collector.sessions, collector.parent, collector.counted,
                MapThenSumSet(LAMBDA t : collector.ledger[t], collector.sessions))

\* calibrate_events on the stream of the session, with a total that somebody
\* supplied or that of the runtime: run_live_calibration asks for an accepted
\* session too, but _calibrate, given a total, does without.
Calibrates(ledger) ==
  /\ pc = "ended" /\ ValidTree(collector)
  /\ Reconciled(collector.sessions, collector.parent, collector.counted, ledger)

-------------------------------------------------------------------------------
(* Properties. *)

(* Every variable has its type.                                             *)
TypeOK ==
  /\ pc \in {"initializing", "starting", "running", "ended"}
  /\ error \in Errors /\ returncode \in {0, 1} /\ rootCompleted \in BOOLEAN
  /\ losses \in Nat /\ meter \in Nat
  /\ agents \in [Threads -> Agents]
  /\ collector \in Collectors

(* What an accepted session counts for an agent is the cumulative total the *)
(* server last reported for it: a notification that came twice is not       *)
(* counted twice, and one that was lost before another arrived is noticed,  *)
(* however the notifications of the agents mix.                             *)
AcceptedIsReconciled ==
  Accepted => \A t \in collector.sessions : collector.counted[t] = agents[t].sent.total

(* In an accepted session exactly one agent is the coordinator, and it is   *)
(* the thread the client started: the report's split of a tree into         *)
(* coordinator and delegated tokens goes by the missing parent alone.       *)
OneCoordinator ==
  Accepted => {t \in collector.sessions : collector.parent[t] = None} = {Root}

(* The client never accepts a session, of its own accord, in the middle of  *)
(* a turn whose start the collector was told of; when the server ends the   *)
(* stream, which moves no agent, it is the server's doing.  An agent that   *)
(* was spawned or asked, and has not announced its turn, is not waited for. *)
AcceptedIsQuiet ==
  [][Accepted' /\ agents' # agents =>
       \A t \in Threads : agents'[t].phase # "working"]_vars

(* A session runs "one fresh ephemeral turn" and retains its agent tree:    *)
(* when the root's turn is complete and every agent's turn too, the session *)
(* is over and does not wait for its deadline.                              *)
DeadlineInterruptsWork ==
  error = "deadline" /\ rootCompleted => \E t \in Threads : agents[t].phase # "idle"

(* A stream that is calibrated against the provider's own total, however    *)
(* its session ended, shows every agent that spent a token and all that it  *)
(* spent: an agent the stream never named, or a response it left out, cannot *)
(* hide behind tokens counted twice elsewhere, whichever notifications were *)
(* lost.  (Held against the runtime's ledger, which is read off the same    *)
(* stream, it could: a lost agent is missing from both.)                    *)
CalibratedIsTheTree ==
  Calibrates(meter) =>
    /\ collector.sessions = {t \in Threads : agents[t].spent > 0}
    /\ \A t \in Threads : collector.counted[t] = agents[t].spent
================================================================================
