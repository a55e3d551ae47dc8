------------------------- MODULE TokenCalibrationProofs -------------------------
(***************************************************************************)
(* Theorems about TokenCalibration, for any agents and any number of       *)
(* tokens and repetitions.                                                 *)
(***************************************************************************)
EXTENDS TokenCalibration, TLAPS, FiniteSetTheorems

LOCAL INSTANCE Calibration

\* What an agent may still be counted for by its latest report: at most what
\* it has spent, or billed, and has not been counted for.
Pending(t) ==
  LET r == agents[t].sent IN
  r # None =>
    /\ r.by \in {None, t} /\ (r.by = None => t = Root) /\ r.id # None
    /\ <<t, <<"id", r.id>>>> \notin collector.keys /\ collector.mode[t] \in {"none", r.mode} =>
         collector.counted[t] + r.tokens
           <= IF r.mode = "per-turn-deltas" THEN agents[t].spent ELSE agents[t].billed

Account(t) ==
  /\ agents[t].billed <= agents[t].spent
  /\ collector.counted[t] <= agents[t].spent
  /\ collector.mode[t] = "explicit-session-deltas" => collector.counted[t] <= agents[t].billed
  /\ collector.mode[t] = "none" => collector.counted[t] = 0
  /\ Pending(t)

\* No two or three agents have spent more than the tree.
Within ==
  \A a, b \in Agents :
    a # b => /\ agents[a].spent + agents[b].spent <= meter
             /\ \A c \in Agents \ {a, b} :
                  agents[a].spent + agents[b].spent + agents[c].spent <= meter

Inv ==
  /\ TypeOK
  /\ IsFiniteSet(collector.keys)
  /\ collector.root = Root
  /\ \A t \in Agents : Account(t)
  /\ Within
  /\ verdict # None /\ verdict.passed => Passes(collector, verdict.ledger)

-------------------------------------------------------------------------------
(* The collector. *)

LEMMA KnownType ==
  ASSUME NEW c \in Collectors, NEW t \in Agents, NEW parent \in Agents \cup {None}
  PROVE  /\ Known(c, t, parent) \in Collectors
         /\ Known(c, t, parent).mode = c.mode /\ Known(c, t, parent).keys = c.keys
         /\ Known(c, t, parent).counted = c.counted /\ Known(c, t, parent).root = c.root
         /\ Known(c, t, parent).sequence = c.sequence
         /\ Known(c, t, parent).tree = c.tree
  BY DEF Known, Collectors

LEMMA NoticedType ==
  ASSUME NEW c \in Collectors, NEW r \in Reports, NEW t \in Agents, Owner(c, r) = t
  PROVE  /\ Noticed(c, r) \in Collectors
         /\ Noticed(c, r).mode = c.mode /\ Noticed(c, r).keys = c.keys
         /\ Noticed(c, r).counted = c.counted /\ Noticed(c, r).root = c.root
         /\ Noticed(c, r).tree = c.tree
  <1>1. CASE r.mode = "per-turn-deltas"
    <2> DEFINE k == Known(c, t, None)
    <2>1. k \in Collectors /\ k.mode = c.mode /\ k.keys = c.keys
          /\ k.counted = c.counted /\ k.root = c.root /\ k.tree = c.tree
      BY KnownType
    <2>2. Noticed(c, r) = [k EXCEPT !.sequence[t] = @ + 1]
      BY <1>1 DEF Noticed
    <2> HIDE DEF k
    <2> QED BY <2>1, <2>2 DEF Collectors
  <1>2. CASE r.mode # "per-turn-deltas"
    <2>1. r.parent \in Agents \cup {None} /\ Noticed(c, r) = Known(c, t, r.parent)
      BY <1>2 DEF Noticed, Reports
    <2> QED BY <2>1, KnownType
  <1> QED BY <1>1, <1>2

LEMMA KeyType ==
  ASSUME NEW c \in Collectors, NEW r \in Reports, NEW t \in Agents, Owner(c, r) = t,
         IsFiniteSet(c.keys)
  PROVE  Key(c, r) \in Keys
  <1>1. Cardinality(c.keys) \in Nat /\ c.sequence[t] \in Nat
    BY FS_CardinalityType DEF Collectors
  <1>2. Number(c, r) \in Nat
    BY <1>1 DEF Number
  <1> QED BY <1>2 DEF Key, Keys, Reports

LEMMA CountedType ==
  ASSUME NEW c \in Collectors, NEW r \in Reports, NEW t \in Agents, Owner(c, r) = t,
         IsFiniteSet(c.keys)
  PROVE  /\ Counted(c, r) \in Collectors /\ IsFiniteSet(Counted(c, r).keys)
         /\ Counted(c, r).root = c.root
         /\ Counted(c, r).mode = [c.mode EXCEPT ![t] = r.mode]
         /\ Counted(c, r).counted = [c.counted EXCEPT ![t] = @ + r.tokens]
         /\ Counted(c, r).keys = c.keys \cup {<<t, Key(c, r)>>}
  <1> DEFINE n == Noticed(c, r)
             k == Key(c, r)
             tree == Either(r.tree, n.tree)
  <1>1. n \in Collectors /\ n.mode = c.mode /\ n.keys = c.keys
        /\ n.counted = c.counted /\ n.root = c.root
    BY NoticedType
  <1>2. k \in Keys
    BY KeyType
  <1>3. tree \in Nat \cup {None} /\ r.mode \in Modes /\ r.tokens \in Nat
    BY <1>1 DEF Either, Reports, Collectors
  <1>4. Counted(c, r) = [n EXCEPT !.mode[t] = r.mode, !.keys = @ \cup {<<t, k>>},
                                  !.counted[t] = @ + r.tokens, !.tree = tree]
    BY DEF Counted
  <1>5. IsFiniteSet(c.keys \cup {<<t, k>>})
    BY FS_AddElement
  <1> HIDE DEF n, k, tree
  <1>6. Counted(c, r) \in Collectors
    <2> DEFINE m == [n.mode EXCEPT ![t] = r.mode]
               x == [n.counted EXCEPT ![t] = @ + r.tokens]
               y == n.keys \cup {<<t, k>>}
    <2>1. m \in [Agents -> Modes]
      BY <1>1, <1>3 DEF Collectors
    <2>2. x \in [Agents -> Nat]
      BY <1>1, <1>3 DEF Collectors
    <2>3. y \in SUBSET (Agents \X Keys)
      BY <1>1, <1>2 DEF Collectors
    <2>4. Counted(c, r) = [n EXCEPT !.mode = m, !.keys = y, !.counted = x, !.tree = tree]
      BY <1>1, <1>4 DEF Collectors
    <2> HIDE DEF m, x, y
    <2> QED BY <1>1, <1>3, <2>1, <2>2, <2>3, <2>4 DEF Collectors
  <1>7. /\ Counted(c, r).root = c.root
        /\ Counted(c, r).mode = [c.mode EXCEPT ![t] = r.mode]
        /\ Counted(c, r).counted = [c.counted EXCEPT ![t] = @ + r.tokens]
        /\ Counted(c, r).keys = c.keys \cup {<<t, k>>}
    BY <1>1, <1>4 DEF Collectors
  <1> QED BY <1>5, <1>6, <1>7 DEF k

\* A report of t is left out, because it is there already or t is counted in
\* another way; or it is counted, once and for all if it has an id.
Left(t, r) ==
  /\ collector'.mode = collector.mode /\ collector'.keys = collector.keys
  /\ collector'.counted = collector.counted
  /\ r.id # None => \/ <<t, <<"id", r.id>>>> \in collector.keys
                    \/ collector.mode[t] \notin {"none", r.mode}

Taken(t, r) ==
  /\ collector.mode[t] \in {"none", r.mode}
  /\ r.id # None => <<t, <<"id", r.id>>>> \notin collector.keys
  /\ collector'.mode = [collector.mode EXCEPT ![t] = r.mode]
  /\ collector'.counted = [collector.counted EXCEPT ![t] = @ + r.tokens]
  /\ \E k \in Keys : /\ collector'.keys = collector.keys \cup {<<t, k>>}
                     /\ r.id # None => k = <<"id", r.id>>

LEMMA ConsumeEffect ==
  ASSUME TypeOK, IsFiniteSet(collector.keys), NEW r \in Reports, NEW t \in Agents,
         Owner(collector, r) = t, Consume(r)
  PROVE  /\ collector' \in Collectors /\ IsFiniteSet(collector'.keys) /\ error' \in BOOLEAN
         /\ collector'.root = collector.root
         /\ Left(t, r) \/ Taken(t, r)
  <1> DEFINE c == collector
  <1>1. c \in Collectors
    BY DEF TypeOK
  <1>2. CASE Seen(c, r) \/ Mixed(c, r)
    <2>1. c' = Noticed(c, r)
      BY <1>2 DEF Consume
    <2>2. c' \in Collectors /\ c'.mode = c.mode /\ c'.keys = c.keys
          /\ c'.counted = c.counted /\ c'.root = c.root
      BY <1>1, <2>1, NoticedType
    <2>3. Left(t, r)
      BY <1>2, <2>2 DEF Left, Seen, Mixed, Key
    <2> QED BY <2>2, <2>3 DEF Consume
  <1>3. CASE ~Seen(c, r) /\ ~Mixed(c, r)
    <2>1. c' = Counted(c, r)
      BY <1>3 DEF Consume
    <2>2. /\ c' \in Collectors /\ IsFiniteSet(c'.keys) /\ c'.root = c.root
          /\ c'.mode = [c.mode EXCEPT ![t] = r.mode]
          /\ c'.counted = [c.counted EXCEPT ![t] = @ + r.tokens]
          /\ c'.keys = c.keys \cup {<<t, Key(c, r)>>}
      BY <1>1, <2>1, CountedType
    <2>3. Key(c, r) \in Keys /\ (r.id # None => Key(c, r) = <<"id", r.id>>)
      BY <1>1, KeyType DEF Key
    <2>4. Taken(t, r)
      BY <1>3, <2>2, <2>3 DEF Taken, Seen, Mixed
    <2> QED BY <2>2, <2>4 DEF Consume
  <1> QED BY <1>2, <1>3

\* Only agent t moves.
Steps(t) == \A u \in Agents \ {t} : agents'[u] = agents[u]

LEMMA OthersAccount ==
  ASSUME Inv, NEW t \in Agents, NEW r, Left(t, r) \/ Taken(t, r) \/ collector' = collector,
         Steps(t), NEW u \in Agents, u # t
  PROVE  Account(u)'
  <1>1. agents'[u] = agents[u] /\ Account(u)
    BY DEF Steps, Inv
  <1>2. collector'.counted[u] = collector.counted[u] /\ collector'.mode[u] = collector.mode[u]
    BY DEF Left, Taken, Inv, TypeOK, Collectors
  <1>3. \A k : <<u, k>> \in collector'.keys <=> <<u, k>> \in collector.keys
    BY DEF Left, Taken
  <1> QED BY <1>1, <1>2, <1>3 DEF Account, Pending

\* Facts about one agent before a step.
LEMMA AgentTypes ==
  ASSUME TypeOK, NEW t \in Agents
  PROVE  /\ agents[t] \in AgentStates
         /\ agents[t].spent \in Nat /\ agents[t].billed \in Nat /\ agents[t].turns \in Nat
         /\ agents[t].parent \in Agents \cup {None}
         /\ collector.counted[t] \in Nat /\ collector.mode[t] \in Modes
         /\ agents[t].sent # None => agents[t].sent \in Reports
  BY DEF TypeOK, AgentStates, Collectors

\* A turn that is reported, or whose report is lost or late.
LEMMA TurnAccount ==
  ASSUME Inv, NEW t \in Agents, NEW r \in Reports, r.mode = "per-turn-deltas",
         r.by = Name(t), agents'[t].spent = agents[t].spent + r.tokens,
         agents'[t].billed = agents[t].billed,
         agents'[t].sent = IF r.id = None THEN agents[t].sent ELSE r,
         Left(t, r) \/ Taken(t, r) \/ collector' = collector
  PROVE  Account(t)'
  <1>1. Account(t) /\ r.tokens \in Nat
    BY DEF Inv, Reports
  <1>2. /\ agents[t].spent \in Nat /\ agents[t].billed \in Nat
        /\ collector.counted[t] \in Nat /\ collector.mode[t] \in Modes
        /\ agents[t].sent # None => agents[t].sent.tokens \in Nat /\ agents[t].sent.mode \in Modes \ {"none"}
    BY AgentTypes DEF Inv, Reports
  <1>3. r # None /\ (Name(t) = None => t = Root) /\ Name(t) \in {None, t}
    BY CalibrationAssumption DEF Name, Reports
  <1>4. CASE Taken(t, r)
    <2>1. /\ collector'.mode[t] = "per-turn-deltas"
          /\ collector'.counted[t] = collector.counted[t] + r.tokens
          /\ collector.keys \subseteq collector'.keys
          /\ r.id # None => <<t, <<"id", r.id>>>> \in collector'.keys
      BY <1>4 DEF Taken, Inv, TypeOK, Collectors
    <2>2. Pending(t)'
      BY <1>1, <1>2, <1>3, <1>4, <2>1 DEF Account, Pending, Modes, Taken
    <2> QED BY <1>1, <1>2, <2>1, <2>2 DEF Account
  <1>5. CASE Left(t, r) \/ collector' = collector
    <2>1. /\ collector'.mode[t] = collector.mode[t]
          /\ collector'.counted[t] = collector.counted[t]
          /\ collector'.keys = collector.keys
      BY <1>5 DEF Left
    <2>2. Pending(t)'
      BY <1>1, <1>2, <1>3, <2>1 DEF Account, Pending, Modes
    <2> QED BY <1>1, <1>2, <2>1, <2>2 DEF Account
  <1> QED BY <1>4, <1>5

\* A record of usage, the same way.
LEMMA UsageAccount ==
  ASSUME Inv, NEW t \in Agents, NEW r \in Reports, r.mode = "explicit-session-deltas",
         r.by = t, agents'[t].spent = agents[t].spent, agents'[t].billed = agents[t].spent,
         r.tokens = agents[t].spent - agents[t].billed,
         agents'[t].sent = IF r.id = None THEN agents[t].sent ELSE r,
         Left(t, r) \/ Taken(t, r) \/ collector' = collector
  PROVE  Account(t)'
  <1>1. Account(t) /\ r.tokens \in Nat
    BY DEF Inv, Reports
  <1>2. /\ agents[t].spent \in Nat /\ agents[t].billed \in Nat
        /\ collector.counted[t] \in Nat /\ collector.mode[t] \in Modes
        /\ agents[t].sent # None => agents[t].sent.tokens \in Nat /\ agents[t].sent.mode \in Modes \ {"none"}
    BY AgentTypes DEF Inv, Reports
  <1>3. r # None /\ t # None
    BY CalibrationAssumption DEF Reports
  <1>4. CASE Taken(t, r)
    <2>1. /\ collector'.mode[t] = "explicit-session-deltas"
          /\ collector'.counted[t] = collector.counted[t] + r.tokens
          /\ collector.keys \subseteq collector'.keys
          /\ r.id # None => <<t, <<"id", r.id>>>> \in collector'.keys
          /\ collector.mode[t] \in {"none", "explicit-session-deltas"}
      BY <1>4 DEF Taken, Inv, TypeOK, Collectors
    <2>2. collector.counted[t] <= agents[t].billed
      BY <1>1, <1>2, <2>1 DEF Account
    <2>3. Pending(t)'
      BY <1>1, <1>2, <1>3, <1>4, <2>1, <2>2 DEF Account, Pending, Modes, Taken
    <2> QED BY <1>1, <1>2, <2>1, <2>2, <2>3 DEF Account
  <1>5. CASE Left(t, r) \/ collector' = collector
    <2>1. /\ collector'.mode[t] = collector.mode[t]
          /\ collector'.counted[t] = collector.counted[t]
          /\ collector'.keys = collector.keys
      BY <1>5 DEF Left
    <2>2. Pending(t)'
      BY <1>1, <1>2, <1>3, <2>1 DEF Account, Pending, Modes
    <2> QED BY <1>1, <1>2, <2>1, <2>2 DEF Account
  <1> QED BY <1>4, <1>5

\* The latest report once more, or at last.
LEMMA RepeatAccount ==
  ASSUME Inv, NEW t \in Agents, NEW r \in Reports, r = agents[t].sent, r # None,
         agents' = agents, Left(t, r) \/ Taken(t, r)
  PROVE  Account(t)'
  <1>1. Account(t) /\ r.tokens \in Nat /\ r.mode \in Modes \ {"none"}
    BY DEF Inv, Reports
  <1>2. /\ agents[t].spent \in Nat /\ agents[t].billed \in Nat
        /\ collector.counted[t] \in Nat /\ collector.mode[t] \in Modes
    BY AgentTypes DEF Inv
  <1>3. CASE Taken(t, r)
    <2>1. /\ collector'.mode[t] = r.mode
          /\ collector'.counted[t] = collector.counted[t] + r.tokens
          /\ <<t, <<"id", r.id>>>> \in collector'.keys
      BY <1>1, <1>3 DEF Taken, Inv, TypeOK, Collectors, Account, Pending
    <2>2. collector.counted[t] + r.tokens
            <= IF r.mode = "per-turn-deltas" THEN agents[t].spent ELSE agents[t].billed
      BY <1>1, <1>3 DEF Account, Pending, Taken
    <2>3. Pending(t)'
      BY <1>1, <2>1 DEF Account, Pending
    <2> QED BY <1>1, <1>2, <2>1, <2>2, <2>3 DEF Account, Modes
  <1>4. CASE Left(t, r)
    BY <1>1, <1>4 DEF Left, Account, Pending
  <1> QED BY <1>3, <1>4

-------------------------------------------------------------------------------
(* The steps. *)

\* Steps that only register sessions.
LEMMA RegisteringInv ==
  ASSUME Inv, verdict = None, UNCHANGED <<agents, meter, error, verdict>>,
         collector' \in Collectors, collector'.mode = collector.mode,
         collector'.keys = collector.keys, collector'.counted = collector.counted,
         collector'.root = Root
  PROVE  Inv'
  <1>1. TypeOK'
    BY DEF Inv, TypeOK
  <1>2. \A t \in Agents : Account(t)'
    BY DEF Inv, Account, Pending
  <1>3. Within'
    BY DEF Inv, Within
  <1> QED BY <1>1, <1>2, <1>3 DEF Inv

LEMMA ThreadStartedInv ==
  ASSUME Inv, NEW t \in Agents, NEW parent \in Agents \cup {None}, ThreadStarted(t, parent)
  PROVE  Inv'
  <1> DEFINE k == Known(collector, t, parent)
  <1>1. collector \in Collectors /\ collector.root = Root /\ Root \in Agents /\ None \notin Agents
    BY CalibrationAssumption DEF Inv, TypeOK
  <1>2. k \in Collectors /\ k.mode = collector.mode /\ k.keys = collector.keys
        /\ k.counted = collector.counted /\ k.root = Root
    BY <1>1, KnownType
  <1>3. Either(k.root, t) = Root
    BY <1>1, <1>2 DEF Either
  <1> HIDE DEF k
  <1>4. collector' = [k EXCEPT !.current = t, !.root = Root]
    <2>1. collector' = [k EXCEPT !.current = t,
                                 !.root = IF parent = None THEN Either(@, t) ELSE @]
      BY DEF ThreadStarted, k
    <2> QED BY <1>2, <1>3, <2>1 DEF Collectors
  <1>5. /\ collector' \in Collectors /\ collector'.mode = collector.mode
        /\ collector'.keys = collector.keys /\ collector'.counted = collector.counted
        /\ collector'.root = Root
    BY <1>1, <1>2, <1>4 DEF Collectors
  <1> QED BY <1>5, RegisteringInv DEF ThreadStarted, Streaming

LEMMA KnownInv ==
  ASSUME Inv, verdict = None, NEW t \in Agents, NEW parent \in Agents \cup {None},
         collector' = Known(collector, t, parent),
         UNCHANGED <<agents, meter, error, verdict>>
  PROVE  Inv'
  <1>1. collector \in Collectors /\ collector.root = Root
    BY DEF Inv, TypeOK
  <1> QED BY <1>1, KnownType, RegisteringInv

LEMMA NamingInv ==
  ASSUME Inv, NEW t \in Agents, NEW p \in Agents, NEW by \in Agents \cup {None},
         CollabToolCall(p, t, by) \/ ToolEnds(t, by)
  PROVE  Inv'
  <1>1. Either(by, collector.current) \in Agents
    BY DEF Either, Inv, TypeOK, Collectors
  <1>2. CASE CollabToolCall(p, t, by)
    BY <1>1, <1>2, KnownInv DEF CollabToolCall, Streaming
  <1>3. CASE ToolEnds(t, by)
    BY <1>1, <1>3, KnownInv DEF ToolEnds, Streaming
  <1> QED BY <1>2, <1>3

LEMMA SpawnInv ==
  ASSUME Inv, NEW p \in Agents, NEW t \in Agents, Spawn(p, t)
  PROVE  Inv'
  <1>1. /\ agents' \in [Agents -> AgentStates]
        /\ \A u \in Agents : /\ agents'[u].spent = agents[u].spent
                             /\ agents'[u].billed = agents[u].billed
                             /\ agents'[u].sent = agents[u].sent
    BY DEF Spawn, Inv, TypeOK, AgentStates
  <1>2. TypeOK'
    BY <1>1 DEF Inv, TypeOK, Spawn
  <1>3. \A u \in Agents : Account(u)'
    BY <1>1 DEF Inv, Account, Pending, Spawn
  <1>4. Within'
    BY <1>1 DEF Inv, Within, Spawn
  <1> QED BY <1>2, <1>3, <1>4 DEF Inv, Spawn, Streaming

\* What a report of agent t, of type Reports, leaves to show.
LEMMA ReportEffect ==
  ASSUME Inv, NEW t \in Agents, NEW state \in AgentStates, NEW r \in Reports,
         Owner(collector, r) = t, Report(t, state, r)
  PROVE  /\ collector' \in Collectors /\ IsFiniteSet(collector'.keys) /\ error' \in BOOLEAN
         /\ collector'.root = Root /\ verdict' = verdict
         /\ Left(t, r) \/ Taken(t, r) \/ collector' = collector
         /\ agents' \in [Agents -> AgentStates] /\ Steps(t)
         /\ agents'[t].spent = state.spent /\ agents'[t].billed = state.billed
         /\ agents'[t].sent = IF r.id = None THEN state.sent ELSE r
  <1> DEFINE a == IF r.id = None THEN state ELSE [state EXCEPT !.sent = r]
  <1>1. a \in AgentStates /\ a.spent = state.spent /\ a.billed = state.billed
        /\ a.sent = IF r.id = None THEN state.sent ELSE r
    BY DEF AgentStates
  <1>2. agents' = [agents EXCEPT ![t] = a]
    BY DEF Report
  <1> HIDE DEF a
  <1>3. agents' \in [Agents -> AgentStates] /\ Steps(t) /\ agents'[t] = a
    BY <1>1, <1>2 DEF Inv, TypeOK, Steps
  <1>4. CASE Consume(r)
    BY <1>1, <1>3, <1>4, ConsumeEffect DEF Inv, Report
  <1>5. CASE UNCHANGED <<collector, error>>
    BY <1>1, <1>3, <1>5 DEF Inv, TypeOK, Report
  <1> QED BY <1>4, <1>5 DEF Report

LEMMA TurnCompletedInv ==
  ASSUME Inv, NEW t \in Agents, NEW n \in 1..MaxTokens, TurnCompleted(t, n)
  PROVE  Inv'
  <1> DEFINE state == [agents[t] EXCEPT !.turns = @ + 1, !.spent = @ + n]
  <1>1. n \in Nat /\ meter \in Nat /\ agents[t] \in AgentStates
    BY CalibrationAssumption DEF Inv, TypeOK
  <1>2. /\ state \in AgentStates /\ state.spent = agents[t].spent + n /\ state.turns \in Nat
        /\ state.billed = agents[t].billed /\ state.sent = agents[t].sent
    <2> DEFINE x == agents[t].turns + 1
               y == agents[t].spent + n
    <2>1. x \in Nat /\ y \in Nat
      BY <1>1 DEF AgentStates
    <2>2. state = [agents[t] EXCEPT !.turns = x, !.spent = y]
      OBVIOUS
    <2> HIDE DEF x, y, state
    <2>3. /\ state \in AgentStates /\ state.spent = y /\ state.turns = x
          /\ state.billed = agents[t].billed /\ state.sent = agents[t].sent
      BY <1>1, <2>1, <2>2 DEF AgentStates
    <2> QED BY <2>1, <2>3 DEF y
  <1>3. PICK id \in {None, state.turns},
             tree \in {None} \cup (IF t = Root THEN {meter + n} ELSE {}) :
          Report(t, state, [mode |-> "per-turn-deltas", by |-> Name(t), parent |-> None,
                            id |-> id, tokens |-> n, tree |-> tree])
    BY DEF TurnCompleted
  <1> DEFINE r == [mode |-> "per-turn-deltas", by |-> Name(t), parent |-> None,
                   id |-> id, tokens |-> n, tree |-> tree]
  <1>4. Name(t) \in Agents \cup {None} /\ tree \in Nat \cup {None} /\ id \in Nat \cup {None}
    BY <1>1, <1>2 DEF Name
  <1>5. /\ r \in Reports /\ r.mode = "per-turn-deltas" /\ r.by = Name(t) /\ r.tokens = n
    BY <1>1, <1>4 DEF Reports, Modes
  <1>6. Owner(collector, r) = t
    BY CalibrationAssumption DEF Owner, Either, Name, Inv
  <1>7. Report(t, state, r) /\ meter' = meter + n
    BY <1>3 DEF TurnCompleted
  <1> HIDE DEF state, r
  <1>8. /\ collector' \in Collectors /\ IsFiniteSet(collector'.keys) /\ error' \in BOOLEAN
        /\ collector'.root = Root /\ verdict' = verdict
        /\ Left(t, r) \/ Taken(t, r) \/ collector' = collector
        /\ agents' \in [Agents -> AgentStates] /\ Steps(t)
        /\ agents'[t].spent = agents[t].spent + n /\ agents'[t].billed = agents[t].billed
        /\ agents'[t].sent = IF r.id = None THEN agents[t].sent ELSE r
    BY <1>2, <1>5, <1>6, <1>7, ReportEffect
  <1>9. \A u \in Agents : Account(u)'
    <2>1. Account(t)'
      BY <1>5, <1>8, TurnAccount
    <2> QED BY <1>8, <2>1, OthersAccount
  <1>10. Within'
    <2>1. \A u \in Agents : agents[u].spent \in Nat
      BY AgentTypes DEF Inv
    <2>2. \A u \in Agents : agents'[u].spent = IF u = t THEN agents[u].spent + n ELSE agents[u].spent
      BY <1>8 DEF Steps
    <2> QED BY <1>1, <1>7, <2>1, <2>2 DEF Inv, Within
  <1>11. TypeOK'
    BY <1>1, <1>7, <1>8 DEF Inv, TypeOK
  <1> QED BY <1>8, <1>9, <1>10, <1>11 DEF Inv, TurnCompleted, Streaming

LEMMA UsageRecordedInv ==
  ASSUME Inv, NEW t \in Agents, UsageRecorded(t)
  PROVE  Inv'
  <1> DEFINE state == [agents[t] EXCEPT !.billed = agents[t].spent]
             n == agents[t].spent - agents[t].billed
  <1>1. n \in Nat /\ meter \in Nat /\ agents[t] \in AgentStates
        /\ agents[t].parent \in Agents \cup {None} /\ agents[t].turns \in Nat
    BY AgentTypes DEF Inv, TypeOK, UsageRecorded
  <1>2. /\ state \in AgentStates /\ state.spent = agents[t].spent
        /\ state.billed = agents[t].spent /\ state.sent = agents[t].sent
    BY <1>1 DEF AgentStates
  <1>3. PICK id \in {None, agents[t].turns} :
          Report(t, state, [mode |-> "explicit-session-deltas", by |-> t,
                            parent |-> agents[t].parent, id |-> id, tokens |-> n,
                            tree |-> None])
    BY DEF UsageRecorded
  <1> DEFINE r == [mode |-> "explicit-session-deltas", by |-> t,
                   parent |-> agents[t].parent, id |-> id, tokens |-> n, tree |-> None]
  <1>4. r \in Reports /\ r.mode = "explicit-session-deltas" /\ r.by = t /\ r.tokens = n
    BY <1>1 DEF Reports, Modes
  <1>5. Owner(collector, r) = t
    BY CalibrationAssumption DEF Owner, Either
  <1>6. Report(t, state, r) /\ meter' = meter
    BY <1>3 DEF UsageRecorded
  <1> HIDE DEF state, r
  <1>7. /\ collector' \in Collectors /\ IsFiniteSet(collector'.keys) /\ error' \in BOOLEAN
        /\ collector'.root = Root /\ verdict' = verdict
        /\ Left(t, r) \/ Taken(t, r) \/ collector' = collector
        /\ agents' \in [Agents -> AgentStates] /\ Steps(t)
        /\ agents'[t].spent = agents[t].spent /\ agents'[t].billed = agents[t].spent
        /\ agents'[t].sent = IF r.id = None THEN agents[t].sent ELSE r
    BY <1>2, <1>4, <1>5, <1>6, ReportEffect
  <1>8. \A u \in Agents : Account(u)'
    <2>1. Account(t)'
      BY <1>4, <1>7, UsageAccount
    <2> QED BY <1>7, <2>1, OthersAccount
  <1>9. Within'
    <2>1. \A u \in Agents : agents'[u].spent = agents[u].spent
      BY <1>7 DEF Steps
    <2> QED BY <1>6, <2>1 DEF Inv, Within
  <1>10. TypeOK'
    BY <1>1, <1>6, <1>7 DEF Inv, TypeOK
  <1> QED BY <1>7, <1>8, <1>9, <1>10 DEF Inv, UsageRecorded, Streaming

LEMMA RepeatInv ==
  ASSUME Inv, NEW t \in Agents, Repeat(t)
  PROVE  Inv'
  <1>1. PICK r \in Reports : r = agents[t].sent
    BY AgentTypes DEF Inv, Repeat
  <1>2. r # None /\ Consume(r) /\ agents' = agents /\ meter' = meter /\ verdict' = verdict
    BY <1>1 DEF Repeat
  <1>3. Owner(collector, r) = t
    BY <1>1, <1>2, CalibrationAssumption DEF Inv, Account, Pending, Owner, Either
  <1>4. /\ collector' \in Collectors /\ IsFiniteSet(collector'.keys) /\ error' \in BOOLEAN
        /\ collector'.root = Root
        /\ Left(t, r) \/ Taken(t, r)
    BY <1>2, <1>3, ConsumeEffect DEF Inv
  <1>5. \A u \in Agents : Account(u)'
    <2>1. Account(t)'
      BY <1>1, <1>2, <1>4, RepeatAccount
    <2>2. Steps(t)
      BY <1>2 DEF Steps
    <2> QED BY <1>4, <2>1, <2>2, OthersAccount
  <1>6. Within'
    BY <1>2 DEF Inv, Within
  <1>7. TypeOK'
    BY <1>2, <1>4 DEF Inv, TypeOK
  <1> QED BY <1>2, <1>4, <1>5, <1>6, <1>7 DEF Inv, Repeat, Streaming

LEMMA CalibrateInv ==
  ASSUME Inv, NEW provider \in Nat \cup {None}, Calibrate(provider)
  PROVE  Inv'
  <1> DEFINE ledger == Either(provider, collector.tree)
             v == [passed |-> ~error /\ Passes(collector, ledger), ledger |-> ledger]
  <1>1. ledger \in Nat \cup {None}
    BY DEF Either, Inv, TypeOK, Collectors
  <1>2. verdict' = v /\ UNCHANGED <<agents, meter, collector, error>>
    BY DEF Calibrate
  <1> HIDE DEF ledger
  <1>3. v \in Verdicts /\ v.ledger = ledger /\ (v.passed => Passes(collector, ledger))
    <2>1. Passes(collector, ledger) \in BOOLEAN
      BY DEF Passes, Reconciled
    <2>2. error \in BOOLEAN
      BY DEF Inv, TypeOK
    <2> QED BY <1>1, <2>1, <2>2 DEF Verdicts
  <1> HIDE DEF v
  <1>4. TypeOK'
    BY <1>2, <1>3 DEF Inv, TypeOK
  <1>5. (\A t \in Agents : Account(t)') /\ Within'
    BY <1>2 DEF Inv, Account, Pending, Within
  <1>6. verdict'.passed => Passes(collector', verdict'.ledger)
    BY <1>2, <1>3
  <1> QED BY <1>2, <1>4, <1>5, <1>6 DEF Inv

-------------------------------------------------------------------------------
(* The theorems. *)

LEMMA InitInv == Init => Inv
  <1> SUFFICES ASSUME Init PROVE Inv
    OBVIOUS
  <1>1. Root \in Agents /\ None \notin Agents
    BY CalibrationAssumption
  <1>2. agents \in [Agents -> AgentStates]
    BY <1>1 DEF Init, AgentStates
  <1>3. collector \in Collectors
    BY <1>1 DEF Init, Collectors, Modes
  <1>4. IsFiniteSet(collector.keys) /\ collector.root = Root
    BY FS_EmptySet DEF Init
  <1>5. \A t \in Agents : Account(t)
    BY DEF Init, Account, Pending
  <1>6. Within /\ TypeOK
    <2>1. meter = 0 /\ \A t \in Agents : agents[t].spent = 0
      BY DEF Init
    <2>2. Within
      BY <2>1 DEF Within
    <2>3. error \in BOOLEAN /\ verdict \in Verdicts \cup {None}
      BY DEF Init
    <2> QED BY <1>2, <1>3, <2>1, <2>2, <2>3 DEF TypeOK
  <1>7. verdict = None
    BY DEF Init
  <1> QED BY <1>4, <1>5, <1>6, <1>7 DEF Inv

LEMMA NextInv == Inv /\ [Next]_vars => Inv'
  <1> SUFFICES ASSUME Inv, [Next]_vars PROVE Inv'
    OBVIOUS
  <1>1. CASE UNCHANGED vars
    BY <1>1 DEF vars, Inv, TypeOK, Account, Pending, Within
  <1>2. CASE \E t \in Agents :
               \/ \E p \in Agents : Spawn(p, t)
               \/ \E by \in Agents \cup {None} : ThreadStarted(t, by) \/ ToolEnds(t, by)
               \/ \E p \in Agents, by \in Agents \cup {None} : CollabToolCall(p, t, by)
               \/ \E n \in 1..MaxTokens : TurnCompleted(t, n)
               \/ UsageRecorded(t) \/ Repeat(t)
    BY <1>2, SpawnInv, ThreadStartedInv, NamingInv, TurnCompletedInv, UsageRecordedInv, RepeatInv
  <1>3. CASE Calibrate(None) \/ Calibrate(meter)
    BY <1>3, CalibrateInv DEF Inv, TypeOK
  <1> QED BY <1>1, <1>2, <1>3 DEF Next

THEOREM Invariance == Spec => []Inv
  BY InitInv, NextInv, PTL DEF Spec

\* The types, for any agents.
THEOREM TypeCorrect == Spec => []TypeOK
  <1>1. Inv => TypeOK
    BY DEF Inv
  <1> QED BY <1>1, Invariance, PTL

\* No token is counted twice, whatever is repeated and in whatever way it is
\* reported: what the latest report may still add is within what was spent.
THEOREM NothingIsCountedTwice == Spec => []CountedAtMostOnce
  <1>1. Inv => CountedAtMostOnce
    BY DEF Inv, Account, CountedAtMostOnce
  <1> QED BY <1>1, Invariance, PTL

\* The calibration a benchmark is let run with is exact for every agent if the
\* total it was reconciled with is: two rows that are at most what two agents
\* spent, and add up to what all of them spent, are what they spent.
THEOREM CalibrationIsExact == Spec => []AdmittedIsExact
  <1>1. ASSUME Inv, Admitted, verdict.ledger = meter, NEW t \in Agents
        PROVE  collector.counted[t] = agents[t].spent
    <2>1. PICK a, b \in Rows(collector) :
            a # b /\ collector.counted[a] + collector.counted[b] = meter
      BY <1>1 DEF Inv, Admitted, Passes, Reconciled, Roots, Children
    <2>2. a \in Agents /\ b \in Agents
      BY <1>1, <2>1 DEF Rows, Inv, TypeOK, Collectors
    <2>3. \A u \in Agents : /\ collector.counted[u] \in Nat /\ agents[u].spent \in Nat
                            /\ collector.counted[u] <= agents[u].spent
      BY <1>1, AgentTypes DEF Inv, Account
    <2>4. agents[a].spent + agents[b].spent <= meter /\ meter \in Nat
      BY <1>1, <2>1, <2>2 DEF Inv, Within, TypeOK
    <2>5. collector.counted[a] = agents[a].spent /\ collector.counted[b] = agents[b].spent
      BY <2>1, <2>2, <2>3, <2>4
    <2>6. CASE t # a /\ t # b
      <3>1. agents[a].spent + agents[b].spent + agents[t].spent <= meter
        BY <1>1, <2>1, <2>2, <2>6 DEF Inv, Within
      <3> QED BY <2>1, <2>2, <2>3, <2>4, <2>5, <3>1
    <2> QED BY <2>5, <2>6
  <1>2. Inv => AdmittedIsExact
    BY <1>1 DEF AdmittedIsExact
  <1> QED BY <1>2, Invariance, PTL
=================================================================================
