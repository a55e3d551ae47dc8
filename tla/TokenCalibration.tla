---------------------------- MODULE TokenCalibration ----------------------------
(***************************************************************************)
(* The calibration of the token accounting from a stream of Codex JSONL    *)
(* events: CodexJSONLCollector and calibrate_events of telemetry.py,       *)
(* _calibrate of cli.py, and the gate of runner.py that no benchmark run   *)
(* passes without it.                                                      *)
(*                                                                         *)
(* The runtime is the environment.  Its agents report what they spent      *)
(* either turn by turn or in records of their own, and some runtimes do    *)
(* both; reports may be lost and repeated, and the stream may end at any   *)
(* point.  Its first event is the start of the root.  A report that may    *)
(* come twice has an id, and the turns of all but the root have a name.    *)
(***************************************************************************)
EXTENDS Naturals, FiniteSets

CONSTANTS
  Agents, Root,   \* the agents of the tree
  None,
  MaxTokens,      \* bound: tokens of the whole tree
  MaxSequence     \* bound: repeated reports of one agent's turns are consumed up to it

VARIABLES
  agents,      \* the runtime
  meter,       \* what the tree has spent, as its provider knows
  collector,
  error,       \* the collector has raised TelemetryError
  verdict      \* calibration.json

vars == <<agents, meter, collector, error, verdict>>

LOCAL INSTANCE Calibration

Modes == {"none", "per-turn-deltas", "explicit-session-deltas"}

\* A report says of what mode it is, whose, under which parent (a record of
\* usage only), with which id, how many tokens, and what the tree has spent
\* (a turn only).
Reports ==
  [mode : Modes \ {"none"}, by : Agents \cup {None}, parent : Agents \cup {None},
   id : Nat \cup {None}, tokens : Nat, tree : Nat \cup {None}]

Verdicts == [passed : BOOLEAN, ledger : Nat \cup {None}]

ASSUME CalibrationAssumption ==
  /\ Root \in Agents
  /\ None \notin Agents \cup Nat /\ None \notin Reports /\ None \notin Verdicts
  /\ MaxTokens \in Nat /\ MaxSequence \in Nat

\* Reports with an id are known by it, the others by a number.
Keys == {"id", "number"} \X Nat

AgentStates ==
  [started : BOOLEAN, parent : Agents \cup {None}, turns : Nat,
   spent : Nat,                    \* in all its turns
   billed : Nat,                   \* and how much of that in records of usage
   sent : Reports \cup {None}]     \* its latest report with an id

Collectors ==
  [sessions : SUBSET Agents, parent : [Agents -> Agents \cup {None}],
   mode : [Agents -> Modes], counted : [Agents -> Nat],
   keys : SUBSET (Agents \X Keys),       \* _completed_turns
   sequence : [Agents -> Nat],           \* _turn_sequence
   current : Agents, root : Agents,
   tree : Nat \cup {None}]               \* runtime_tree_total

Init ==
  /\ agents = [t \in Agents |->
       [started |-> t = Root, parent |-> None, turns |-> 0,
        spent |-> 0, billed |-> 0, sent |-> None]]
  /\ collector =
       [sessions |-> {Root}, parent |-> [t \in Agents |-> None],
        mode |-> [t \in Agents |-> "none"], counted |-> [t \in Agents |-> 0],
        keys |-> {}, sequence |-> [t \in Agents |-> 0],
        current |-> Root, root |-> Root, tree |-> None]
  /\ meter = 0 /\ error = FALSE /\ verdict = None

-------------------------------------------------------------------------------
(* The collector. *)

Either(x, y) == IF x # None THEN x ELSE y

\* sessions.setdefault: an agent keeps the parent it was first seen with.
Known(c, t, parent) ==
  IF t \in c.sessions THEN c
  ELSE [c EXCEPT !.sessions = @ \cup {t}, !.parent[t] = parent]

\* Whose session a report is counted for.
Owner(c, r) == Either(r.by, Either(c.root, c.current))

\* The session is made and the turn numbered whatever becomes of the report.
Noticed(c, r) ==
  LET t == Owner(c, r) IN
  IF r.mode = "per-turn-deltas"
  THEN [Known(c, t, None) EXCEPT !.sequence[t] = @ + 1]
  ELSE Known(c, t, r.parent)

Number(c, r) ==
  IF r.mode = "per-turn-deltas"
  THEN c.sequence[Owner(c, r)] + 1
  ELSE Cardinality(c.keys) + 1

\* Mutant: no number for a report without an id.
KeyById(c, r) == <<"id", r.id>>

Key(c, r) == IF r.id # None THEN <<"id", r.id>> ELSE <<"number", Number(c, r)>>

\* Mutant: ids are not looked at.
SeenNumber(c, r) == <<Owner(c, r), <<"number", Number(c, r)>>>> \in c.keys

Seen(c, r) == <<Owner(c, r), Key(c, r)>> \in c.keys

\* Mutant: turns and records of usage of one agent are added up.
NeverMixed(c, r) == FALSE

\* "mixed final totals with per-turn deltas"
Mixed(c, r) == c.mode[Owner(c, r)] \notin {"none", r.mode}

\* _add_usage, and the tree's total if there is one.
Counted(c, r) ==
  LET t == Owner(c, r) IN
  [Noticed(c, r) EXCEPT !.mode[t] = r.mode, !.keys = @ \cup {<<t, Key(c, r)>>},
                        !.counted[t] = @ + r.tokens, !.tree = Either(r.tree, @)]

\* turn.completed and agent.usage
Consume(r) ==
  LET seen == Seen(collector, r) mixed == Mixed(collector, r) IN
  /\ collector' = IF seen \/ mixed THEN Noticed(collector, r) ELSE Counted(collector, r)
  /\ error' = (~seen /\ mixed)

-------------------------------------------------------------------------------
(* The stream. *)

\* Before the verdict, and up to the first exception.
Streaming == verdict = None /\ ~error

\* Agent p spawns t.
Spawn(p, t) ==
  /\ Streaming
  /\ agents[p].started /\ ~agents[t].started
  /\ agents' = [agents EXCEPT ![t] = [agents[t] EXCEPT !.started = TRUE, !.parent = p]]
  /\ UNCHANGED <<meter, collector, error, verdict>>

\* The start of t comes late, or again, or not at all, and need not name a parent.
ThreadStarted(t, parent) ==
  /\ Streaming
  /\ agents[t].started /\ parent \in {None, agents[t].parent}
  /\ collector' = [Known(collector, t, parent) EXCEPT
       !.current = t, !.root = IF parent = None THEN Either(@, t) ELSE @]
  /\ UNCHANGED <<agents, meter, error, verdict>>

\* Agent p calls t; the item need not name the sender.
CollabToolCall(p, t, sender) ==
  /\ Streaming
  /\ p # t /\ agents[p].started /\ agents[t].started /\ sender \in {None, p}
  /\ collector' = Known(collector, t, Either(sender, collector.current))
  /\ UNCHANGED <<agents, meter, error, verdict>>

\* exec_command_end, mcp_tool_call_end
ToolEnds(t, by) ==
  /\ Streaming
  /\ agents[t].started /\ by \in {None, t}
  /\ collector' = Known(collector, Either(by, collector.current), None)
  /\ UNCHANGED <<agents, meter, error, verdict>>

\* The turns of the root do not say whose they are.
Name(t) == IF t = Root THEN None ELSE t

\* An agent has something to report.  The report arrives, or does not; the
\* latest with an id can still arrive later.
Report(t, state, r) ==
  /\ agents' = [agents EXCEPT ![t] = IF r.id = None THEN state ELSE [state EXCEPT !.sent = r]]
  /\ Consume(r) \/ UNCHANGED <<collector, error>>
  /\ UNCHANGED verdict

TurnCompleted(t, n) ==
  LET state == [agents[t] EXCEPT !.turns = @ + 1, !.spent = @ + n] IN
  /\ Streaming
  /\ agents[t].started /\ meter + n <= MaxTokens
  /\ meter' = meter + n
  /\ \E id \in {None, state.turns},
        tree \in {None} \cup (IF t = Root THEN {meter + n} ELSE {}) :
       Report(t, state, [mode |-> "per-turn-deltas", by |-> Name(t), parent |-> None,
                         id |-> id, tokens |-> n, tree |-> tree])

\* A record of what the agent spent since the last one.
UsageRecorded(t) ==
  LET state == [agents[t] EXCEPT !.billed = agents[t].spent] IN
  /\ Streaming
  /\ agents[t].billed < agents[t].spent
  /\ meter' = meter
  /\ \E id \in {None, agents[t].turns} :
       Report(t, state, [mode |-> "explicit-session-deltas", by |-> t,
                         parent |-> agents[t].parent, id |-> id,
                         tokens |-> agents[t].spent - agents[t].billed, tree |-> None])

\* The latest report with an id, once more or at last.
Repeat(t) ==
  /\ Streaming
  /\ agents[t].sent # None /\ collector.sequence[t] < MaxSequence
  /\ Consume(agents[t].sent)
  /\ UNCHANGED <<agents, meter, verdict>>

-------------------------------------------------------------------------------
(* The verdict. *)

\* Sessions that counted nothing have no row.
Rows(c) == {t \in c.sessions : c.counted[t] > 0}

Passes(c, ledger) == Reconciled(Rows(c), c.parent, c.counted, ledger)

\* garfield_bench calibrate --events, with the provider's total or without:
\* then the runtime's own, as of the last turn that had it, is used.
Calibrate(provider) ==
  LET ledger == Either(provider, collector.tree) IN
  /\ verdict = None
  /\ provider \in {None, meter}
  /\ verdict' = [passed |-> ~error /\ Passes(collector, ledger), ledger |-> ledger]
  /\ UNCHANGED <<agents, meter, collector, error>>

\* BenchmarkRunner._require_calibration
Admitted ==
  verdict # None /\ verdict.passed /\ OneOfEach(Rows(collector), collector.parent)

Next ==
  \/ \E t \in Agents :
       \/ \E p \in Agents : Spawn(p, t)
       \/ \E by \in Agents \cup {None} : ThreadStarted(t, by) \/ ToolEnds(t, by)
       \/ \E p \in Agents, by \in Agents \cup {None} : CollabToolCall(p, t, by)
       \/ \E n \in 1..MaxTokens : TurnCompleted(t, n)
       \/ UsageRecorded(t) \/ Repeat(t)
  \/ Calibrate(None) \/ Calibrate(meter)

Spec == Init /\ [][Next]_vars
-------------------------------------------------------------------------------
(* Properties. *)

(* Every variable has its type.                                             *)
TypeOK ==
  /\ agents \in [Agents -> AgentStates] /\ meter \in Nat
  /\ collector \in Collectors
  /\ error \in BOOLEAN
  /\ verdict \in Verdicts \cup {None}

(* No token is counted twice: not when a report comes again, not when a     *)
(* runtime reports the turns of an agent and its usage on top of them, and  *)
(* not in any mix of named and unnamed, numbered and unnumbered reports.    *)
CountedAtMostOnce == \A t \in Agents : collector.counted[t] <= agents[t].spent

(* When the benchmark is let run, and the total it was reconciled with is   *)
(* what the tree spent, every agent's row is right and no agent is left     *)
(* out: a report that was lost cannot be made up for by another one.        *)
AdmittedIsExact ==
  Admitted /\ verdict.ledger = meter =>
    \A t \in Agents : collector.counted[t] = agents[t].spent
================================================================================
