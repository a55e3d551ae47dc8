------------------------- MODULE AppServerSessionProofs -------------------------
(***************************************************************************)
(* Theorems about AppServerSession, for any agents and any bounds.         *)
(***************************************************************************)
EXTENDS AppServerSession, TLAPS

\* While the session runs, the latest notification of an agent is the one the
\* collector took last, and none of those it took is ahead of the agent.
LatestIsTaken(t) ==
  /\ collector.counted[t] = agents[t].sent.total
  /\ collector.ledger[t] = agents[t].sent.total
  /\ agents[t].sent.total > 0 => UpdateKey(agents[t].sent) \in collector.updates[t]
  /\ \A k \in collector.updates[t] : k[2] <= agents[t].spent

\* The inductive invariant.  A session that ended with a telemetry error has
\* a notification the collector did not take.
Inv ==
  /\ TypeOK
  /\ pc # "ended" => error = "none" /\ returncode = 1
  /\ error # "telemetry" => \A t \in Threads : LatestIsTaken(t)
  /\ returncode = 0 => error = "none" /\ ValidTree(collector)

LEMMA InitInv == Init => Inv
  <1> SUFFICES ASSUME Init PROVE Inv
    OBVIOUS
  <1> USE DEF Init
  <1>1. Absent \in Agents
    BY DEF Absent, Agents, Updates
  <1>2. EmptyCollector \in Collectors
    <2>1. [t \in Threads |-> None] \in [Threads -> Threads \cup {None}]
      OBVIOUS
    <2>2. [t \in Threads |-> 0] \in [Threads -> Nat]
      OBVIOUS
    <2>3. [t \in Threads |-> {}] \in [Threads -> SUBSET (Nat \X Nat)]
      OBVIOUS
    <2> QED BY <2>1, <2>2, <2>3 DEF EmptyCollector, Collectors
  <1>3. TypeOK
    BY <1>1, <1>2 DEF TypeOK, Errors
  <1>4. \A t \in Threads : LatestIsTaken(t)
    BY DEF LatestIsTaken, Absent, EmptyCollector
  <1> QED BY <1>3, <1>4 DEF Inv

\* Leaving the loop with a collector that is the one before or after the message.
LEMMA LeaveIsSafe ==
  ASSUME NEW why \in Errors, NEW c, Leave(why, c)
  PROVE  /\ pc' = "ended" /\ error' \in Errors /\ returncode' \in {0, 1}
         /\ returncode' = 0 => error' = "none" /\ ValidTree(c)
         /\ error' # "telemetry" => why # "telemetry"
  BY DEF Leave, Errors

\* Registering a thread touches no tokens.
LEMMA RegisteredType ==
  ASSUME NEW c \in Collectors, NEW t \in Threads, NEW p \in Threads \cup {None}
  PROVE  /\ Registered(c, t, p) \in Collectors
         /\ Registered(c, t, p).counted = c.counted
         /\ Registered(c, t, p).ledger = c.ledger
         /\ Registered(c, t, p).updates = c.updates
  BY DEF Registered, Collectors

\* An update the collector takes brings the session and the ledger to its total.
LEMMA CountedType ==
  ASSUME NEW c \in Collectors, NEW t \in Threads, NEW u \in Updates,
         Reconciles(c, t, u), c.counted[t] = c.ledger[t]
  PROVE  /\ Counted(c, t, u) \in Collectors
         /\ Counted(c, t, u).counted[t] = u.total
         /\ Counted(c, t, u).ledger[t] = u.total
         /\ Counted(c, t, u).updates[t] = c.updates[t] \cup {UpdateKey(u)}
         /\ \A s \in Threads \ {t} : /\ Counted(c, t, u).counted[s] = c.counted[s]
                                     /\ Counted(c, t, u).ledger[s] = c.ledger[s]
                                     /\ Counted(c, t, u).updates[s] = c.updates[s]
  <1>1. c.counted[t] + u.last = u.total
    BY DEF Reconciles, Collectors, Updates
  <1>2. UpdateKey(u) \in Nat \X Nat
    BY DEF UpdateKey, Updates
  <1>3. c.counted[t] \in Nat /\ c.updates[t] \in SUBSET (Nat \X Nat) /\ u.total \in Nat
    BY DEF Collectors, Updates
  <1> QED BY <1>1, <1>2, <1>3 DEF Counted, Collectors

\* A message that changes no tokens of the collector and no notification of an
\* agent preserves the invariant, whether it is consumed or raises.
LEMMA OtherMessage ==
  ASSUME Inv, Running, NEW raises \in BOOLEAN, NEW c \in Collectors,
         Consume(raises, c), agents' \in [Threads -> Agents], rootCompleted' \in BOOLEAN,
         losses' \in Nat, meter' \in Nat,
         c.counted = collector.counted, c.ledger = collector.ledger,
         c.updates = collector.updates,
         \A t \in Threads : agents'[t].sent = agents[t].sent /\ agents'[t].spent = agents[t].spent
  PROVE  Inv'
  <1>1. CASE raises
    <2>1. Leave("telemetry", collector) /\ collector' = collector
      BY <1>1 DEF Consume
    <2>2. error' = "telemetry" /\ returncode' = 1 /\ pc' = "ended"
      BY <2>1 DEF Leave
    <2> QED BY <2>1, <2>2 DEF Inv, TypeOK, Errors
  <1>2. CASE ~raises
    <2>1. collector' = c /\ UNCHANGED <<pc, error, returncode>>
      BY <1>2 DEF Consume
    <2>2. pc = "running" /\ error = "none" /\ returncode = 1
      BY DEF Inv, Running
    <2>3. TypeOK'
      BY <2>1 DEF Inv, TypeOK
    <2>4. \A t \in Threads : LatestIsTaken(t)'
      BY <2>1, <2>2 DEF Inv, LatestIsTaken, UpdateKey
    <2> QED BY <2>1, <2>2, <2>3, <2>4 DEF Inv
  <1> QED BY <1>1, <1>2

\* Leaving the loop with every agent and token as it was.
LEMMA LeaveKeepsInv ==
  ASSUME Inv, pc # "ended", NEW why \in Errors \ {"telemetry"}, Leave(why, collector),
         UNCHANGED <<rootCompleted, agents, losses, meter, collector>>
  PROVE  Inv'
  <1>1. /\ pc' = "ended" /\ error' \in Errors /\ returncode' \in {0, 1}
        /\ returncode' = 0 => error' = "none" /\ ValidTree(collector)
    BY LeaveIsSafe
  <1>2. error = "none"
    BY DEF Inv
  <1>3. TypeOK'
    BY <1>1 DEF Inv, TypeOK
  <1>4. \A t \in Threads : LatestIsTaken(t)'
    BY <1>2 DEF Inv, LatestIsTaken, UpdateKey
  <1>5. ValidTree(collector)' <=> ValidTree(collector)
    OBVIOUS
  <1> QED BY <1>1, <1>3, <1>4, <1>5 DEF Inv

\* A usage notification: taken, dropped as a repetition, or fatal.
LEMMA UsageKeepsInv ==
  ASSUME Inv, Running, NEW t \in Threads, NEW u \in Updates, UsageUpdated(t, u),
         UNCHANGED rootCompleted, losses' \in Nat, meter' \in Nat,
         agents' \in [Threads -> Agents],
         \A s \in Threads \ {t} : agents'[s] = agents[s],
         agents'[t].sent = u, agents'[t].spent >= agents[t].spent,
         agents'[t].spent >= u.total,
         UpdateKey(u) \in collector.updates[t] => u = agents[t].sent
  PROVE  Inv'
  <1>1. pc = "running" /\ error = "none" /\ returncode = 1 /\ collector \in Collectors
    BY DEF Inv, TypeOK, Running
  <1>2. \A s \in Threads : LatestIsTaken(s)
    BY <1>1 DEF Inv
  <1>3. CASE UpdateKey(u) \in collector.updates[t]
    <2>1. UNCHANGED <<pc, error, returncode, collector>> /\ agents'[t].sent = agents[t].sent
      BY <1>3 DEF UsageUpdated
    <2>2. TypeOK'
      BY <2>1 DEF Inv, TypeOK
    <2>3. ASSUME NEW s \in Threads PROVE LatestIsTaken(s)'
      <3>1. LatestIsTaken(s)
        BY <1>2
      <3>2. agents'[s].sent = agents[s].sent /\ agents'[s].spent >= agents[s].spent
        <4>1. CASE s = t BY <2>1, <4>1
        <4>2. CASE s # t
          <5>1. agents[s].spent \in Nat BY DEF Inv, TypeOK, Agents
          <5> QED BY <4>2, <5>1
        <4> QED BY <4>1, <4>2
      <3>3. /\ agents[s].spent \in Nat /\ agents'[s].spent \in Nat
            /\ \A k \in collector.updates[s] : k[2] \in Nat
        BY <1>1 DEF Inv, TypeOK, Agents, Collectors
      <3> QED BY <2>1, <3>1, <3>2, <3>3 DEF LatestIsTaken, UpdateKey
    <2> QED BY <1>1, <2>1, <2>2, <2>3 DEF Inv
  <1>4. CASE UpdateKey(u) \notin collector.updates[t] /\ ~Reconciles(collector, t, u)
    <2>1. Leave("telemetry", collector) /\ collector' = collector
      BY <1>4 DEF UsageUpdated, Consume
    <2>2. error' = "telemetry" /\ returncode' = 1 /\ pc' = "ended"
      BY <2>1 DEF Leave
    <2> QED BY <2>1, <2>2 DEF Inv, TypeOK, Errors
  <1>5. CASE UpdateKey(u) \notin collector.updates[t] /\ Reconciles(collector, t, u)
    <2>1. collector' = Counted(collector, t, u) /\ UNCHANGED <<pc, error, returncode>>
      BY <1>5 DEF UsageUpdated, Consume
    <2>2. collector.counted[t] = collector.ledger[t]
      BY <1>2 DEF LatestIsTaken
    <2>3. /\ collector' \in Collectors
          /\ collector'.counted[t] = u.total /\ collector'.ledger[t] = u.total
          /\ collector'.updates[t] = collector.updates[t] \cup {UpdateKey(u)}
          /\ \A s \in Threads \ {t} : /\ collector'.counted[s] = collector.counted[s]
                                      /\ collector'.ledger[s] = collector.ledger[s]
                                      /\ collector'.updates[s] = collector.updates[s]
      BY <1>1, <1>5, <2>1, <2>2, CountedType
    <2>4. TypeOK'
      BY <2>1, <2>3 DEF Inv, TypeOK
    <2>5. ASSUME NEW s \in Threads PROVE LatestIsTaken(s)'
      <3>1. LatestIsTaken(s)
        BY <1>2
      <3>2. CASE s # t
        <4>1. agents'[s] = agents[s]
          BY <3>2
        <4> QED BY <2>3, <3>1, <3>2, <4>1 DEF LatestIsTaken, UpdateKey
      <3>3. CASE s = t
        <4>1. \A k \in collector'.updates[t] : k[2] <= agents'[t].spent
          <5>1. SUFFICES ASSUME NEW k \in collector'.updates[t] PROVE k[2] <= agents'[t].spent
            OBVIOUS
          <5>2. CASE k = UpdateKey(u)
            <6>1. k[2] = u.total BY <5>2 DEF UpdateKey
            <6> QED BY <6>1 DEF Updates, Agents
          <5>3. CASE k \in collector.updates[t]
            <6>1. k[2] <= agents[t].spent BY <5>3, <1>2 DEF LatestIsTaken
            <6>2. k[2] \in Nat BY <5>3, <1>1 DEF Collectors
            <6>3. agents[t].spent \in Nat /\ agents'[t].spent \in Nat
              BY DEF Inv, TypeOK, Agents
            <6> QED BY <6>1, <6>2, <6>3
          <5> QED BY <2>3, <5>2, <5>3
        <4>2. UpdateKey(agents[t].sent)' \in collector'.updates[t]
          <5>1. UpdateKey(agents[t].sent)' = UpdateKey(u)
            BY DEF UpdateKey
          <5> QED BY <2>3, <5>1
        <4> QED BY <2>3, <3>3, <4>1, <4>2 DEF LatestIsTaken
      <3> QED BY <3>2, <3>3
    <2> QED BY <1>1, <2>1, <2>4, <2>5 DEF Inv
  <1> QED BY <1>3, <1>4, <1>5

\* The end of an agent's turn, with which the loop may be left.
LEMMA TurnCompletedKeepsInv ==
  ASSUME Inv, NEW t \in Threads, TurnCompleted(t)
  PROVE  Inv'
  <1> DEFINE c == [collector EXCEPT !.sessions = @ \cup {t}, !.active = @ \ {t}]
  <1>1. pc = "running" /\ error = "none" /\ returncode = 1 /\ collector \in Collectors
    BY DEF Inv, TypeOK, TurnCompleted, Running
  <1>2. /\ c \in Collectors
        /\ c.counted = collector.counted /\ c.ledger = collector.ledger
        /\ c.updates = collector.updates
    BY <1>1 DEF Collectors
  <1>3. /\ agents' \in [Threads -> Agents] /\ rootCompleted' \in BOOLEAN
        /\ losses' \in Nat /\ meter' \in Nat
        /\ \A s \in Threads : /\ agents'[s].sent = agents[s].sent
                              /\ agents'[s].spent = agents[s].spent
    BY DEF Inv, TypeOK, Agents, TurnCompleted
  <1>4. CASE SessionDone(t, c)
    <2>1. collector' = c /\ Leave("none", c)
      BY <1>4 DEF TurnCompleted
    <2>2. /\ pc' = "ended" /\ error' \in Errors /\ returncode' \in {0, 1}
          /\ returncode' = 0 => error' = "none" /\ ValidTree(c)
      <3> HIDE DEF c
      <3> QED BY <2>1, LeaveIsSafe DEF Errors
    <2>3. TypeOK'
      BY <1>2, <1>3, <2>1, <2>2 DEF TypeOK
    <2>4. \A s \in Threads : LatestIsTaken(s)'
      <3> HIDE DEF c
      <3> QED BY <1>1, <1>2, <1>3, <2>1 DEF Inv, LatestIsTaken, UpdateKey
    <2>5. returncode' = 0 => error' = "none" /\ ValidTree(collector)'
      <3> HIDE DEF c
      <3>1. ValidTree(collector)' <=> ValidTree(c)
        BY <2>1
      <3> QED BY <2>2, <3>1
    <2> QED BY <2>2, <2>3, <2>4, <2>5 DEF Inv
  <1>5. CASE ~SessionDone(t, c)
    <2>1. Consume(FALSE, c)
      BY <1>5 DEF TurnCompleted
    <2> QED
      <3> HIDE DEF c
      <3> QED BY <1>1, <1>2, <1>3, <2>1, OtherMessage DEF Running
  <1> QED BY <1>4, <1>5

\* An agent that changes in its phase, its turns or its link alone.
LEMMA AgentMoves ==
  ASSUME agents \in [Threads -> Agents], NEW t \in Threads, NEW a \in Agents,
         agents' = [agents EXCEPT ![t] = a],
         a.sent = agents[t].sent, a.spent = agents[t].spent
  PROVE  /\ agents' \in [Threads -> Agents]
         /\ \A s \in Threads : /\ agents'[s].sent = agents[s].sent
                               /\ agents'[s].spent = agents[s].spent
  OBVIOUS

\* A phase, a link or another turn: no tokens.
LEMMA Asking ==
  ASSUME agents \in [Threads -> Agents], NEW t \in Threads,
         \/ \E phase \in {"working", "unheard", "idle"} :
              agents' = [agents EXCEPT ![t].phase = phase]
         \/ agents' = [agents EXCEPT ![t].linked = TRUE]
         \/ agents' = agents \/ Woken(t)
         \/ \E p \in Threads : Spawns(p, t)
  PROVE  /\ agents' \in [Threads -> Agents]
         /\ \A s \in Threads : /\ agents'[s].sent = agents[s].sent
                               /\ agents'[s].spent = agents[s].spent
  <1>1. CASE Woken(t)
    <2> DEFINE a == [agents[t] EXCEPT !.phase = "asked", !.turns = @ + 1]
    <2>1. agents[t].turns + 1 \in Nat
      BY DEF Agents
    <2>2. a \in Agents /\ a.sent = agents[t].sent /\ a.spent = agents[t].spent
      BY <2>1 DEF Agents
    <2>3. agents' = [agents EXCEPT ![t] = a]
      BY <1>1 DEF Woken
    <2> HIDE DEF a
    <2> QED BY <2>2, <2>3, AgentMoves
  <1>2. ASSUME NEW p \in Threads, Spawns(p, t)
        PROVE  /\ agents' \in [Threads -> Agents]
               /\ \A s \in Threads : /\ agents'[s].sent = agents[s].sent
                                     /\ agents'[s].spent = agents[s].spent
    <2> DEFINE a == [agents[t] EXCEPT !.phase = "asked", !.turns = 1, !.parent = p]
    <2>1. a \in Agents /\ a.sent = agents[t].sent /\ a.spent = agents[t].spent
      BY DEF Agents
    <2>2. agents' = [agents EXCEPT ![t] = a]
      BY <1>2 DEF Spawns
    <2> HIDE DEF a
    <2> QED BY <2>1, <2>2, AgentMoves
  <1>3. ASSUME NEW phase \in {"working", "unheard", "idle"},
               agents' = [agents EXCEPT ![t].phase = phase]
        PROVE  /\ agents' \in [Threads -> Agents]
               /\ \A s \in Threads : /\ agents'[s].sent = agents[s].sent
                                     /\ agents'[s].spent = agents[s].spent
    BY <1>3 DEF Agents
  <1>4. CASE agents' = [agents EXCEPT ![t].linked = TRUE]
    BY <1>4 DEF Agents
  <1>5. CASE agents' = agents
    BY <1>5
  <1> QED BY <1>1, <1>2, <1>3, <1>4, <1>5

\* Every other message of an agent, and every one that is lost.
LEMMA AgentKeepsInv ==
  ASSUME Inv, NEW t \in Threads,
         \/ TurnStarted(t) \/ ToolCompleted(t) \/ Repeats(t) \/ GoesUnheard(t)
         \/ \E n \in 1..MaxTokens : Responds(t, n) \/ Loses(t, n)
         \/ \E p \in Threads : Spawns(p, t) \/ ActivityStarted(p, t) \/ CollabToolCall(p, t)
  PROVE  Inv'
  <1>1. /\ collector \in Collectors /\ agents \in [Threads -> Agents] /\ rootCompleted \in BOOLEAN
        /\ losses \in Nat /\ meter \in Nat
    BY DEF Inv, TypeOK
  <1>2. CASE TurnStarted(t)
    <2> DEFINE c == [collector EXCEPT !.sessions = @ \cup {t}, !.active = @ \cup {t}]
    <2>1. /\ c \in Collectors
          /\ c.counted = collector.counted /\ c.ledger = collector.ledger
          /\ c.updates = collector.updates
      BY <1>1 DEF Collectors
    <2>2. /\ Running /\ Consume(FALSE, c) /\ UNCHANGED <<rootCompleted, losses, meter>>
          /\ agents' = [agents EXCEPT ![t].phase = "working"]
      BY <1>2 DEF TurnStarted
    <2>3. /\ agents' \in [Threads -> Agents]
          /\ \A s \in Threads : /\ agents'[s].sent = agents[s].sent
                                /\ agents'[s].spent = agents[s].spent
      BY <1>1, <2>2, Asking
    <2> QED
      <3> HIDE DEF c
      <3> QED BY <1>1, <2>1, <2>2, <2>3, OtherMessage
  <1>8. CASE ToolCompleted(t)
    <2> DEFINE c == [collector EXCEPT !.sessions = @ \cup {t}]
    <2>1. /\ c \in Collectors
          /\ c.counted = collector.counted /\ c.ledger = collector.ledger
          /\ c.updates = collector.updates
      BY <1>1 DEF Collectors
    <2>2. Running /\ Consume(FALSE, c) /\ UNCHANGED <<rootCompleted, agents, losses, meter>>
      BY <1>8 DEF ToolCompleted
    <2> QED
      <3> HIDE DEF c
      <3> QED BY <1>1, <2>1, <2>2, OtherMessage
  <1>9. CASE GoesUnheard(t)
    <2>1. /\ agents' \in [Threads -> Agents]
          /\ \A s \in Threads : /\ agents'[s].sent = agents[s].sent
                                /\ agents'[s].spent = agents[s].spent
      BY <1>1, <1>9, Asking DEF GoesUnheard
    <2>2. /\ Running /\ losses' \in Nat
          /\ UNCHANGED <<pc, error, returncode, rootCompleted, meter, collector>>
      BY <1>1, <1>9 DEF GoesUnheard, MayBeLost
    <2>3. Consume(FALSE, collector)
      BY <2>2 DEF Consume
    <2> QED BY <1>1, <2>1, <2>2, <2>3, OtherMessage
  <1>3. CASE Repeats(t)
    <2>1. /\ agents[t].sent \in Updates /\ agents[t].spent \in Nat
          /\ agents[t].sent.total \in Nat /\ agents[t].sent.total > 0
      BY <1>1, <1>3 DEF Repeats, Agents, Updates
    <2>2. pc = "running" /\ error = "none" /\ LatestIsTaken(t)
      BY <1>3 DEF Repeats, Running, Inv
    <2>3. agents[t].sent.total <= agents[t].spent
      <3>1. UpdateKey(agents[t].sent)[2] <= agents[t].spent
        BY <2>1, <2>2 DEF LatestIsTaken
      <3> QED BY <3>1 DEF UpdateKey
    <2>4. /\ Running /\ UsageUpdated(t, agents[t].sent)
          /\ UNCHANGED <<rootCompleted, agents, losses, meter>>
      BY <1>3 DEF Repeats
    <2> QED BY <1>1, <2>1, <2>3, <2>4, UsageKeepsInv
  <1>4. ASSUME NEW n \in 1..MaxTokens, Responds(t, n)
        PROVE  Inv'
    <2> DEFINE u == [turn |-> agents[t].turns, total |-> agents[t].spent + n, last |-> n]
    <2>1. n \in Nat /\ n > 0 /\ agents[t].spent \in Nat /\ agents[t].turns \in Nat
      BY <1>1, SessionAssumption DEF Agents
    <2>2. u \in Updates
      BY <2>1 DEF Updates
    <2>3. /\ agents' = [agents EXCEPT ![t] = [agents[t] EXCEPT !.spent = @ + n, !.sent = u]]
          /\ Running /\ UsageUpdated(t, u) /\ UNCHANGED <<rootCompleted, losses>>
          /\ meter' \in Nat
      <3>1. meter + n \in Nat
        BY <1>1, <2>1
      <3> HIDE DEF u
      <3> QED BY <1>4, <3>1 DEF Responds, u
    <2>4. /\ agents' \in [Threads -> Agents]
          /\ \A s \in Threads \ {t} : agents'[s] = agents[s]
          /\ agents'[t].sent = u /\ agents'[t].spent = agents[t].spent + n
      <3> DEFINE a == [agents[t] EXCEPT !.spent = @ + n, !.sent = u]
      <3>1. a \in Agents /\ a.sent = u /\ a.spent = agents[t].spent + n
        <4>1. agents[t].spent + n \in Nat
          BY <2>1
        <4> HIDE DEF u
        <4> QED BY <1>1, <2>2, <4>1 DEF Agents
      <3>2. agents' = [agents EXCEPT ![t] = a]
        <4> HIDE DEF u
        <4> QED BY <2>3
      <3> HIDE DEF a, u
      <3> QED BY <1>1, <3>1, <3>2
    <2>5. UpdateKey(u) \notin collector.updates[t]
      <3>1. LatestIsTaken(t)
        BY <2>3 DEF Inv, Running
      <3>2. UpdateKey(u)[2] = agents[t].spent + n
        BY DEF UpdateKey
      <3> QED BY <2>1, <3>1, <3>2 DEF LatestIsTaken
    <2>6. agents'[t].spent >= agents[t].spent /\ agents'[t].spent >= u.total
      BY <2>1, <2>4
    <2> QED
      <3> HIDE DEF u
      <3> QED BY <1>1, <2>2, <2>3, <2>4, <2>5, <2>6, UsageKeepsInv
  <1>5. ASSUME NEW n \in 1..MaxTokens, Loses(t, n)
        PROVE  Inv'
    <2>1. n \in Nat /\ agents[t].spent \in Nat
      BY <1>1, SessionAssumption DEF Agents
    <2>2. /\ agents' \in [Threads -> Agents]
          /\ \A s \in Threads : /\ agents'[s].sent = agents[s].sent
                                /\ agents'[s].spent >= agents[s].spent
      <3>1. agents' = [agents EXCEPT ![t].spent = @ + n]
        BY <1>5 DEF Loses
      <3>2. \A s \in Threads : agents[s].spent \in Nat
        BY <1>1 DEF Agents
      <3>3. agents[t].spent + n \in Nat /\ agents[t].spent + n >= agents[t].spent
        BY <2>1
      <3>4. agents' \in [Threads -> Agents]
        BY <1>1, <3>1, <3>3 DEF Agents
      <3>5. \A s \in Threads : agents'[s].sent = agents[s].sent
        BY <1>1, <3>1 DEF Agents
      <3>6. agents'[t].spent = agents[t].spent + n
        BY <1>1, <3>1 DEF Agents
      <3>7. \A s \in Threads \ {t} : agents'[s].spent = agents[s].spent
        BY <1>1, <3>1
      <3> QED BY <3>2, <3>3, <3>4, <3>5, <3>6, <3>7
    <2>3. /\ UNCHANGED <<pc, error, returncode, rootCompleted, collector>> /\ pc = "running"
          /\ losses' \in Nat /\ meter' \in Nat
      BY <1>1, <1>5, <2>1 DEF Loses, MayBeLost, Running
    <2>4. ASSUME NEW s \in Threads PROVE LatestIsTaken(s)'
      <3>1. LatestIsTaken(s)
        BY <2>3 DEF Inv
      <3>2. /\ agents[s].spent \in Nat /\ agents'[s].spent \in Nat
            /\ \A k \in collector.updates[s] : k[2] \in Nat
        BY <1>1, <2>2 DEF Agents, Collectors
      <3> QED BY <2>2, <2>3, <3>1, <3>2 DEF LatestIsTaken, UpdateKey
    <2>5. ValidTree(collector)' <=> ValidTree(collector)
      BY <2>3
    <2>6. TypeOK'
      BY <2>2, <2>3 DEF Inv, TypeOK
    <2> QED BY <2>3, <2>4, <2>5, <2>6 DEF Inv
  <1>6. ASSUME NEW p \in Threads, Spawns(p, t)
        PROVE  Inv'
    <2>1. /\ agents' \in [Threads -> Agents]
          /\ \A s \in Threads : /\ agents'[s].sent = agents[s].sent
                                /\ agents'[s].spent = agents[s].spent
      BY <1>1, <1>6, Asking
    <2>2. UNCHANGED <<pc, error, returncode, rootCompleted, losses, meter, collector>> /\ Running
      BY <1>6 DEF Spawns
    <2>3. Consume(FALSE, collector)
      BY <2>2 DEF Consume
    <2> QED BY <1>1, <2>1, <2>2, <2>3, OtherMessage
  <1>7. ASSUME NEW p \in Threads, ActivityStarted(p, t) \/ CollabToolCall(p, t)
        PROVE  Inv'
    <2>1. /\ agents' \in [Threads -> Agents]
          /\ \A s \in Threads : /\ agents'[s].sent = agents[s].sent
                                /\ agents'[s].spent = agents[s].spent
      BY <1>1, <1>7, Asking DEF ActivityStarted, CollabToolCall
    <2>2. /\ Running /\ UNCHANGED <<rootCompleted, losses, meter>>
          /\ Consume(Conflicts(collector, t, p), Registered(collector, t, p))
      BY <1>7 DEF ActivityStarted, CollabToolCall
    <2>3. Conflicts(collector, t, p) \in BOOLEAN
      BY DEF Conflicts
    <2> QED BY <1>1, <2>1, <2>2, <2>3, RegisteredType, OtherMessage
  <1> QED BY <1>2, <1>3, <1>4, <1>5, <1>6, <1>7, <1>8, <1>9

\* The inductive step.
LEMMA NextInv == Inv /\ [Next]_vars => Inv'
  <1> SUFFICES ASSUME Inv, [Next]_vars PROVE Inv'
    OBVIOUS
  <1>1. CASE UNCHANGED vars
    <2>1. ValidTree(collector)' <=> ValidTree(collector)
      BY <1>1 DEF vars
    <2> QED BY <1>1, <2>1 DEF vars, Inv, TypeOK, LatestIsTaken, UpdateKey
  <1>2. CASE Initialized
    <2>1. ValidTree(collector)' <=> ValidTree(collector)
      BY <1>2 DEF Initialized
    <2> QED BY <1>2, <2>1 DEF Initialized, Inv, TypeOK, LatestIsTaken, UpdateKey
  <1>3. CASE ThreadStarted
    <2>1. /\ pc = "starting" /\ pc' = "running"
          /\ UNCHANGED <<error, returncode, rootCompleted, losses, meter>>
          /\ collector' = Registered(collector, Root, None)
      BY <1>3 DEF ThreadStarted
    <2>2. /\ collector' \in Collectors /\ collector'.counted = collector.counted
          /\ collector'.ledger = collector.ledger /\ collector'.updates = collector.updates
      BY <2>1, RegisteredType, SessionAssumption DEF Inv, TypeOK
    <2>3. /\ agents' \in [Threads -> Agents]
          /\ \A s \in Threads : /\ agents'[s].sent = agents[s].sent
                                /\ agents'[s].spent = agents[s].spent
      <3> DEFINE a == [agents[Root] EXCEPT !.phase = "asked", !.turns = 1, !.linked = TRUE]
      <3>1. agents \in [Threads -> Agents] /\ Root \in Threads
        BY SessionAssumption DEF Inv, TypeOK
      <3>2. a \in Agents /\ a.sent = agents[Root].sent /\ a.spent = agents[Root].spent
        BY <3>1 DEF Agents
      <3>3. agents' = [agents EXCEPT ![Root] = a]
        BY <1>3 DEF ThreadStarted
      <3> HIDE DEF a
      <3> QED BY <3>1, <3>2, <3>3, AgentMoves
    <2>4. \A s \in Threads : LatestIsTaken(s)'
      BY <2>1, <2>2, <2>3 DEF Inv, LatestIsTaken, UpdateKey
    <2> QED BY <2>1, <2>2, <2>3, <2>4 DEF Inv, TypeOK
  <1>4. CASE Rejected
    BY <1>4, LeaveKeepsInv DEF Rejected, Running, Errors
  <1>5. CASE ServerRequests
    BY <1>5, LeaveKeepsInv DEF ServerRequests, Running, Errors
  <1>6. CASE Deadline
    BY <1>6, LeaveKeepsInv DEF Deadline, Errors
  <1>7. CASE FoundExited
    BY <1>7, LeaveKeepsInv DEF FoundExited, Errors
  <1>8. CASE StreamEnds
    <2>1. (IF rootCompleted THEN "none" ELSE "exited") \in Errors \ {"telemetry"}
      BY DEF Errors
    <2> QED BY <1>8, <2>1, LeaveKeepsInv DEF StreamEnds
  <1>9. ASSUME NEW t \in Threads, TurnCompleted(t)
        PROVE  Inv'
    BY <1>9, TurnCompletedKeepsInv
  <1> QED BY <1>1, <1>2, <1>3, <1>4, <1>5, <1>6, <1>7, <1>8, <1>9, AgentKeepsInv DEF Next

LEMMA InvHolds == Spec => []Inv
  BY InitInv, NextInv, PTL DEF Spec

-------------------------------------------------------------------------------

(* A session is accepted only with the totals the server last reported for  *)
(* each of its agents, however notifications were repeated, lost or mixed.  *)
THEOREM AcceptedReconciles == Spec => []AcceptedIsReconciled
  <1>1. Inv => AcceptedIsReconciled
    BY DEF Inv, TypeOK, Collectors, LatestIsTaken, AcceptedIsReconciled, Accepted
  <1> QED BY <1>1, InvHolds, PTL

(* A tree that passes validate_complete_tree has one session without a      *)
(* parent, the root: a parent of the root could only close a cycle.         *)
LEMMA RootedHasOneRoot ==
  ASSUME NEW c, Rooted(c)
  PROVE  {t \in c.sessions : c.parent[t] = None} = {Root}
  <1>1. Root \in c.sessions
    BY DEF Rooted
  <1>2. c.parent[Root] = None
    <2> SUFFICES ASSUME c.parent[Root] # None PROVE FALSE
      OBVIOUS
    <2>1. \A t \in c.sessions : c.parent[t] \in c.sessions
      BY DEF Rooted
    <2>2. PICK t \in c.sessions : c.parent[t] \notin c.sessions
      BY <1>1 DEF Rooted, Acyclic
    <2> QED BY <2>1, <2>2
  <1>3. \A t \in c.sessions : c.parent[t] = None => t = Root
    BY DEF Rooted
  <1> QED BY <1>1, <1>2, <1>3

(* Accepted sessions have exactly one coordinator: the agent the client     *)
(* started.                                                                 *)
THEOREM CoordinatorIsTheRoot == Spec => []OneCoordinator
  <1>1. Inv => OneCoordinator
    <2> SUFFICES ASSUME Inv, Accepted
                 PROVE  {t \in collector.sessions : collector.parent[t] = None} = {Root}
      BY DEF OneCoordinator
    <2>1. returncode = 0
      BY DEF Accepted
    <2>2. ValidTree(collector)
      BY <2>1 DEF Inv
    <2>3. Rooted(collector)
      BY <2>2 DEF ValidTree
    <2> QED BY <2>3, RootedHasOneRoot
  <1> QED BY <1>1, InvHolds, PTL

-------------------------------------------------------------------------------
(* Whom the client waits for. *)

\* While the session lasts, the collector knows of every turn that is under way.
Waits == pc # "ended" => \A t \in Threads : agents[t].phase = "working" => t \in collector.active

\* A response, its notification lost or not, adds to what its agent has spent.
LEMMA TokensOnly ==
  ASSUME agents \in [Threads -> Agents], NEW t \in Threads, NEW n \in 1..MaxTokens,
         Responds(t, n) \/ Loses(t, n)
  PROVE  /\ agents'[t].phase = agents[t].phase /\ agents'[t].parent = agents[t].parent
         /\ agents'[t].spent = agents[t].spent + n
         /\ \A s \in Threads \ {t} : agents'[s] = agents[s]
  <1>1. CASE Responds(t, n)
    <2> DEFINE u == [turn |-> agents[t].turns, total |-> agents[t].spent + n, last |-> n]
               a == [agents[t] EXCEPT !.spent = @ + n, !.sent = u]
    <2>1. agents' = [agents EXCEPT ![t] = a]
      BY <1>1 DEF Responds
    <2>2. /\ a.phase = agents[t].phase /\ a.parent = agents[t].parent
          /\ a.spent = agents[t].spent + n
      <3> HIDE DEF u
      <3> QED BY DEF Agents
    <2> HIDE DEF a, u
    <2> QED BY <2>1, <2>2
  <1>2. CASE Loses(t, n)
    <2>1. agents' = [agents EXCEPT ![t].spent = @ + n]
      BY <1>2 DEF Loses
    <2> QED BY <2>1 DEF Agents
  <1> QED BY <1>1, <1>2

LEMMA WokenIsAsked ==
  ASSUME agents \in [Threads -> Agents], NEW t \in Threads, Woken(t)
  PROVE  agents'[t].phase = "asked" /\ \A s \in Threads \ {t} : agents'[s] = agents[s]
  <1> DEFINE a == [agents[t] EXCEPT !.phase = "asked", !.turns = @ + 1]
  <1>1. agents' = [agents EXCEPT ![t] = a] /\ a.phase = "asked"
    BY DEF Woken, Agents
  <1> HIDE DEF a
  <1> QED BY <1>1

\* An agent works after a step only if it worked before or announced its turn in
\* it, and only the end of its own turn takes it from the active ones.
LEMMA AgentWaits ==
  ASSUME TypeOK, Waits, NEW t \in Threads,
         \/ TurnStarted(t) \/ ToolCompleted(t) \/ Repeats(t) \/ GoesUnheard(t)
         \/ \E n \in 1..MaxTokens : Responds(t, n) \/ Loses(t, n)
         \/ \E p \in Threads : Spawns(p, t) \/ ActivityStarted(p, t) \/ CollabToolCall(p, t)
  PROVE  Waits'
  <1>1. agents \in [Threads -> Agents] /\ collector \in Collectors /\ pc # "ended"
    BY DEF TypeOK, TurnStarted, ToolCompleted, Repeats, GoesUnheard, Responds, Loses, Spawns,
           ActivityStarted, CollabToolCall, Running
  <1>2. CASE TurnStarted(t)
    <2>1. /\ \A s \in Threads \ {t} : agents'[s] = agents[s]
          /\ collector'.active = collector.active \cup {t}
      BY <1>1, <1>2 DEF TurnStarted, Consume, Collectors
    <2> QED BY <1>1, <2>1 DEF Waits
  <1>3. CASE ~TurnStarted(t)
    <2>1. \A s \in Threads : agents'[s].phase = "working" => agents[s].phase = "working"
      <3>1. ASSUME NEW n \in 1..MaxTokens, Responds(t, n) \/ Loses(t, n)
            PROVE  \A s \in Threads : agents'[s].phase = agents[s].phase
        <4>1. agents'[t].phase = agents[t].phase /\ \A s \in Threads \ {t} : agents'[s] = agents[s]
          BY <1>1, <3>1, TokensOnly
        <4> QED BY <4>1
      <3>2. ASSUME NEW p \in Threads, Spawns(p, t)
            PROVE  \A s \in Threads : agents'[s].phase = "working" => agents[s].phase = "working"
        <4> DEFINE a == [agents[t] EXCEPT !.phase = "asked", !.turns = 1, !.parent = p]
        <4>1. agents' = [agents EXCEPT ![t] = a] /\ a.phase = "asked"
          BY <1>1, <3>2 DEF Spawns, Agents
        <4> HIDE DEF a
        <4> QED BY <1>1, <4>1
      <3>3. ASSUME NEW p \in Threads, ActivityStarted(p, t)
            PROVE  \A s \in Threads : agents'[s].phase = agents[s].phase
        BY <1>1, <3>3 DEF ActivityStarted, Agents
      <3>4. ASSUME NEW p \in Threads, CollabToolCall(p, t)
            PROVE  \A s \in Threads : agents'[s].phase = "working" => agents[s].phase = "working"
        BY <1>1, <3>4, WokenIsAsked DEF CollabToolCall
      <3>5. CASE GoesUnheard(t)
        BY <1>1, <3>5, WokenIsAsked DEF GoesUnheard, Agents
      <3> QED BY <1>3, <3>1, <3>2, <3>3, <3>4, <3>5 DEF Repeats, ToolCompleted
    <2>2. collector.active \subseteq collector'.active
      <3>1. \A u : Counted(collector, t, u).active = collector.active
        BY <1>1 DEF Counted, Collectors
      <3>2. \A p : Registered(collector, t, p).active = collector.active
        BY <1>1 DEF Registered, Collectors
      <3>3. [collector EXCEPT !.sessions = @ \cup {t}].active = collector.active
        BY <1>1 DEF Collectors
      <3> QED BY <1>3, <3>1, <3>2, <3>3 DEF ToolCompleted, Repeats, GoesUnheard, Responds, Loses,
                 Spawns, ActivityStarted, CollabToolCall, UsageUpdated, Consume
    <2> QED BY <1>1, <2>1, <2>2 DEF Waits
  <1> QED BY <1>2, <1>3

\* The end of a turn that does not end the session.
LEMMA TurnCompletedWaits ==
  ASSUME TypeOK, Waits, NEW t \in Threads, TurnCompleted(t)
  PROVE  Waits'
  <1>1. agents \in [Threads -> Agents] /\ collector \in Collectors /\ pc # "ended"
    BY DEF TypeOK, TurnCompleted, Running
  <1>2. /\ \A s \in Threads \ {t} : agents'[s] = agents[s]
        /\ agents'[t].phase = "idle"
        /\ collector'.active = collector.active \ {t}
    BY <1>1 DEF TurnCompleted, Consume, Agents, Collectors
  <1> QED BY <1>1, <1>2 DEF Waits

LEMMA NextWaits == TypeOK /\ Waits /\ [Next]_vars => Waits'
  <1> SUFFICES ASSUME TypeOK, Waits, [Next]_vars PROVE Waits'
    OBVIOUS
  <1>1. CASE ThreadStarted
    BY <1>1, SessionAssumption DEF ThreadStarted, Registered, Waits, TypeOK, Agents, Collectors
  <1>2. CASE Initialized \/ UNCHANGED vars
    BY <1>2 DEF Initialized, vars, Waits
  <1>3. CASE Rejected \/ ServerRequests \/ Deadline \/ FoundExited \/ StreamEnds
    BY <1>3 DEF Rejected, ServerRequests, Deadline, FoundExited, StreamEnds, Leave, Waits
  <1> QED BY <1>1, <1>2, <1>3, AgentWaits, TurnCompletedWaits DEF Next

\* The client accepts a session of its own accord only with the message that ends
\* the root's turn, and then no agent it was told of is at work: the collector
\* has every one of them among its active threads.
THEOREM AcceptsWhenQuiet == Spec => AcceptedIsQuiet
  <1>1. ASSUME Inv, Waits, [Next]_vars, Accepted', agents' # agents
        PROVE  \A t \in Threads : agents'[t].phase # "working"
    <2>1. agents \in [Threads -> Agents] /\ collector \in Collectors
      BY <1>1 DEF Inv, TypeOK
    <2>2. pc' = "ended" /\ returncode' = 0
      BY <1>1 DEF Accepted
    <2>3. \A why, c : Leave(why, c) => why = "none"
      BY <2>2 DEF Leave
    <2>4. Running => returncode # 0
      BY <1>1 DEF Inv, Running
    <2>5. PICK t \in Threads : TurnCompleted(t)
      BY <1>1, <2>2, <2>3, <2>4
         DEF Next, vars, Initialized, ThreadStarted, Rejected, ServerRequests, Deadline,
             FoundExited, StreamEnds, TurnStarted, ToolCompleted, Repeats, GoesUnheard,
             Responds, Loses, Spawns, ActivityStarted, CollabToolCall, UsageUpdated, Consume
    <2> DEFINE c == [collector EXCEPT !.sessions = @ \cup {t}, !.active = @ \ {t}]
    <2>6. SessionDone(t, c)
      BY <2>2, <2>4, <2>5 DEF TurnCompleted, Consume
    <2>7. collector.active \subseteq {t}
      BY <2>1, <2>6 DEF SessionDone, Collectors
    <2>8. /\ \A s \in Threads \ {t} : agents'[s] = agents[s]
          /\ agents'[t].phase = "idle" /\ pc # "ended"
      BY <2>1, <2>5 DEF TurnCompleted, Agents, Running
    <2> QED BY <1>1, <2>7, <2>8 DEF Waits
  <1>2. Init => Waits
    BY DEF Init, Waits, Absent
  <1>3. Inv => TypeOK
    BY DEF Inv
  <1>4. Inv /\ Waits /\ [Next]_vars =>
          [Accepted' /\ agents' # agents => \A t \in Threads : agents'[t].phase # "working"]_vars
    BY <1>1
  <1> QED BY <1>2, <1>3, <1>4, NextWaits, InvHolds, PTL DEF Spec, AcceptedIsQuiet

-------------------------------------------------------------------------------
(* What the stream shows of the tree's tokens. *)

LOCAL INSTANCE Calibration

\* What is counted for an agent is what the server last reported of it, which is no
\* more than it spent, and an agent that reported anything has tokens counted; what
\* any three agents spent is part of what the provider metered.
Within ==
  /\ \A t \in Threads :
       /\ collector.counted[t] = collector.ledger[t]
       /\ collector.counted[t] <= agents[t].spent
       /\ collector.updates[t] # {} => collector.counted[t] > 0
       /\ agents[t].sent.total > 0 => agents[t].sent.last > 0
  /\ \A s, t, u \in Threads :
       /\ agents[s].spent <= meter
       /\ s # t => agents[s].spent + agents[t].spent <= meter
       /\ s # t /\ t # u /\ u # s =>
            agents[s].spent + agents[t].spent + agents[u].spent <= meter

\* A step that neither spends nor reports.
LEMMA WithinStays ==
  ASSUME TypeOK, Within, UNCHANGED meter,
         \A t \in Threads : agents'[t].sent = agents[t].sent /\ agents'[t].spent = agents[t].spent,
         UNCHANGED <<collector.counted, collector.ledger, collector.updates>>
  PROVE  Within'
  BY DEF Within

\* An agent that spends n more, and everybody else as before.
LEMMA MeterGrows ==
  ASSUME TypeOK, Within, NEW t \in Threads, NEW n \in 1..MaxTokens,
         Responds(t, n) \/ Loses(t, n)
  PROVE  \A s, v, u \in Threads :
           /\ agents'[s].spent <= meter'
           /\ s # v => agents'[s].spent + agents'[v].spent <= meter'
           /\ s # v /\ v # u /\ u # s =>
                agents'[s].spent + agents'[v].spent + agents'[u].spent <= meter'
  <1>1. /\ n \in Nat /\ meter \in Nat /\ meter' = meter + n
        /\ \A s \in Threads : agents[s].spent \in Nat
    BY SessionAssumption DEF TypeOK, Agents, Responds, Loses
  <1>2. agents'[t].spent = agents[t].spent + n /\ \A s \in Threads \ {t} : agents'[s] = agents[s]
    BY TokensOnly DEF TypeOK
  <1> SUFFICES ASSUME NEW s \in Threads, NEW v \in Threads, NEW u \in Threads
               PROVE  /\ agents'[s].spent <= meter'
                      /\ s # v => agents'[s].spent + agents'[v].spent <= meter'
                      /\ s # v /\ v # u /\ u # s =>
                           agents'[s].spent + agents'[v].spent + agents'[u].spent <= meter'
    OBVIOUS
  <1> DEFINE spent(x) == agents[x].spent
             more(x) == agents'[x].spent
  <1>3. \A x \in Threads : spent(x) \in Nat /\ more(x) = IF x = t THEN spent(x) + n ELSE spent(x)
    BY <1>1, <1>2
  <1>4. /\ spent(s) <= meter
        /\ s # v => spent(s) + spent(v) <= meter
        /\ s # v /\ v # u /\ u # s => spent(s) + spent(v) + spent(u) <= meter
    BY DEF Within
  <1>5. /\ more(s) <= meter'
        /\ s # v => more(s) + more(v) <= meter'
        /\ s # v /\ v # u /\ u # s => more(s) + more(v) + more(u) <= meter'
    <2> HIDE DEF spent, more
    <2> QED BY <1>1, <1>3, <1>4
  <1> QED BY <1>5

\* A notification of usage, new or not: what is counted stays within what is spent.
LEMMA UsageWithin ==
  ASSUME TypeOK, Within, NEW t \in Threads, NEW u \in Updates, UsageUpdated(t, u),
         u.last > 0, u.total <= agents'[t].spent,
         \A s \in Threads : agents'[s].spent >= agents[s].spent /\ agents'[s].spent \in Nat
  PROVE  \A s \in Threads :
           /\ collector'.counted[s] = collector'.ledger[s]
           /\ collector'.counted[s] <= agents'[s].spent
           /\ collector'.updates[s] # {} => collector'.counted[s] > 0
  <1>1. /\ collector \in Collectors
        /\ \A s \in Threads : collector.counted[s] \in Nat /\ agents[s].spent \in Nat
    BY DEF TypeOK, Collectors, Agents
  <1>2. CASE collector' = collector
    BY <1>1, <1>2 DEF Within
  <1>3. CASE collector' = Counted(collector, t, u) /\ Reconciles(collector, t, u)
    <2>1. collector.counted[t] = collector.ledger[t]
      BY DEF Within
    <2>2. /\ collector'.counted[t] = u.total /\ collector'.ledger[t] = u.total
          /\ \A s \in Threads \ {t} : /\ collector'.counted[s] = collector.counted[s]
                                      /\ collector'.ledger[s] = collector.ledger[s]
                                      /\ collector'.updates[s] = collector.updates[s]
      BY <1>1, <1>3, <2>1, CountedType
    <2>3. u.total > 0
      BY <1>1, <1>3 DEF Reconciles, Collectors, Updates
    <2>4. ASSUME NEW s \in Threads, s # t
          PROVE  /\ collector'.counted[s] = collector'.ledger[s]
                 /\ collector'.counted[s] <= agents'[s].spent
                 /\ collector'.updates[s] # {} => collector'.counted[s] > 0
      BY <1>1, <2>2, <2>4 DEF Within
    <2> QED BY <2>2, <2>3, <2>4
  <1> QED BY <1>2, <1>3 DEF UsageUpdated, Consume

LEMMA TokensWithin ==
  ASSUME TypeOK, TypeOK', Within, NEW t \in Threads, NEW n \in 1..MaxTokens,
         Responds(t, n) \/ Loses(t, n)
  PROVE  Within'
  <1>1. /\ n \in Nat /\ n > 0 /\ \A s \in Threads : agents[s].spent \in Nat /\ agents'[s].spent \in Nat
        /\ agents \in [Threads -> Agents] /\ agents[t].turns \in Nat
    BY SessionAssumption DEF TypeOK, Agents
  <1>2. agents'[t].spent = agents[t].spent + n /\ \A s \in Threads \ {t} : agents'[s] = agents[s]
    BY <1>1, TokensOnly
  <1>3. \A s \in Threads : agents'[s].spent >= agents[s].spent /\ agents'[s].spent \in Nat
    BY <1>1, <1>2
  <1>4. CASE Responds(t, n)
    <2> DEFINE u == [turn |-> agents[t].turns, total |-> agents[t].spent + n, last |-> n]
    <2>1. u \in Updates /\ u.last = n /\ u.total = agents[t].spent + n
      BY <1>1 DEF Updates
    <2>2. UsageUpdated(t, u) /\ agents' = [agents EXCEPT ![t] = [agents[t] EXCEPT !.spent = @ + n, !.sent = u]]
      BY <1>4 DEF Responds
    <2>3. agents'[t].sent = u
      <3> DEFINE a == [agents[t] EXCEPT !.spent = @ + n, !.sent = u]
      <3>1. a.sent = u
        <4> HIDE DEF u
        <4> QED BY <1>1 DEF Agents
      <3>2. agents' = [agents EXCEPT ![t] = a]
        BY <2>2
      <3> HIDE DEF a, u
      <3> QED BY <1>1, <3>1, <3>2
    <2> HIDE DEF u
    <2>4. \A s \in Threads :
            /\ collector'.counted[s] = collector'.ledger[s]
            /\ collector'.counted[s] <= agents'[s].spent
            /\ collector'.updates[s] # {} => collector'.counted[s] > 0
      BY <1>1, <1>2, <1>3, <2>1, <2>2, UsageWithin
    <2>5. \A s \in Threads : agents'[s].sent.total > 0 => agents'[s].sent.last > 0
      BY <1>1, <1>2, <2>1, <2>3 DEF Within
    <2> QED BY <2>4, <2>5, MeterGrows DEF Within
  <1>5. CASE Loses(t, n)
    <2>1. collector' = collector /\ agents'[t].sent = agents[t].sent
      BY <1>1, <1>5 DEF Loses, Agents
    <2>2. \A s \in Threads : collector.counted[s] \in Nat
      BY DEF TypeOK, Collectors
    <2>3. \A s \in Threads :
            /\ collector'.counted[s] = collector'.ledger[s]
            /\ collector'.counted[s] <= agents'[s].spent
            /\ collector'.updates[s] # {} => collector'.counted[s] > 0
            /\ agents'[s].sent.total > 0 => agents'[s].sent.last > 0
      BY <1>1, <1>2, <1>3, <2>1, <2>2 DEF Within
    <2> QED BY <2>3, MeterGrows DEF Within
  <1> QED BY <1>4, <1>5

LEMMA NextWithin == Inv /\ Inv' /\ Within /\ [Next]_vars => Within'
  <1> SUFFICES ASSUME Inv, Inv', Within, [Next]_vars PROVE Within'
    OBVIOUS
  <1>1. /\ TypeOK /\ TypeOK' /\ collector \in Collectors /\ agents \in [Threads -> Agents]
        /\ Root \in Threads
    BY SessionAssumption DEF Inv, TypeOK
  <1>2. CASE UNCHANGED <<agents, meter, collector>>
    BY <1>1, <1>2, WithinStays
  <1>3. CASE Initialized \/ Rejected \/ ServerRequests \/ Deadline \/ FoundExited \/ StreamEnds
             \/ UNCHANGED vars
    BY <1>2, <1>3 DEF Initialized, Rejected, ServerRequests, Deadline, FoundExited, StreamEnds, vars
  <1>4. CASE ThreadStarted
    <2>1. UNCHANGED <<collector.counted, collector.ledger, collector.updates, meter>>
      BY <1>1, <1>4, RegisteredType DEF ThreadStarted
    <2>2. \A s \in Threads : agents'[s].sent = agents[s].sent /\ agents'[s].spent = agents[s].spent
      BY <1>1, <1>4 DEF ThreadStarted, Agents
    <2> QED BY <1>1, <2>1, <2>2, WithinStays
  <1>5. ASSUME NEW t \in Threads, NEW n \in 1..MaxTokens, Responds(t, n) \/ Loses(t, n)
        PROVE  Within'
    BY <1>1, <1>5, TokensWithin
  <1>6. ASSUME NEW t \in Threads, Repeats(t) PROVE Within'
    <2>1. /\ agents[t].sent \in Updates /\ agents[t].sent.total > 0
          /\ UNCHANGED <<agents, meter>> /\ UsageUpdated(t, agents[t].sent)
      BY <1>1, <1>6 DEF Repeats, Agents
    <2>2. pc = "running" /\ error = "none" /\ LatestIsTaken(t)
      BY <1>6 DEF Repeats, Running, Inv
    <2>3. UNCHANGED collector
      BY <2>1, <2>2 DEF LatestIsTaken, UsageUpdated
    <2> QED BY <1>2, <2>1, <2>3
  <1>7. ASSUME NEW t \in Threads,
               TurnStarted(t) \/ ToolCompleted(t) \/ TurnCompleted(t) \/ GoesUnheard(t)
        PROVE  Within'
    <2>1. \A s \in Threads : agents'[s].sent = agents[s].sent /\ agents'[s].spent = agents[s].spent
      BY <1>1, <1>7, Asking DEF TurnStarted, ToolCompleted, TurnCompleted, GoesUnheard
    <2>2. UNCHANGED <<collector.counted, collector.ledger, collector.updates, meter>>
      BY <1>1, <1>7 DEF TurnStarted, ToolCompleted, TurnCompleted, GoesUnheard, Consume, Collectors
    <2> QED BY <1>1, <2>1, <2>2, WithinStays
  <1>8. ASSUME NEW t \in Threads, NEW p \in Threads,
               Spawns(p, t) \/ ActivityStarted(p, t) \/ CollabToolCall(p, t)
        PROVE  Within'
    <2>1. \A s \in Threads : agents'[s].sent = agents[s].sent /\ agents'[s].spent = agents[s].spent
      BY <1>1, <1>8, Asking DEF ActivityStarted, CollabToolCall
    <2> DEFINE c == Registered(collector, t, p)
    <2>2. /\ c.counted = collector.counted /\ c.ledger = collector.ledger
          /\ c.updates = collector.updates
      BY <1>1, RegisteredType
    <2>3. meter' = meter /\ (collector' = collector \/ collector' = c)
      BY <1>8 DEF Spawns, ActivityStarted, CollabToolCall, Consume
    <2> HIDE DEF c
    <2>4. UNCHANGED <<collector.counted, collector.ledger, collector.updates, meter>>
      BY <2>2, <2>3
    <2> QED BY <1>1, <2>1, <2>4, WithinStays
  <1> QED BY <1>3, <1>4, <1>5, <1>6, <1>7, <1>8 DEF Next

\* A stream that agrees with the provider's total has counted everything: two agents'
\* counts that are each within what the agent spent, and together all that anybody
\* spent, leave nothing for a third.
THEOREM CalibrationSeesTheTree == Spec => []CalibratedIsTheTree
  <1>1. ASSUME Inv, Within, Calibrates(meter)
        PROVE  /\ collector.sessions = {t \in Threads : agents[t].spent > 0}
               /\ \A t \in Threads : collector.counted[t] = agents[t].spent
    <2>1. /\ Rooted(collector) /\ collector \in Collectors /\ meter \in Nat
          /\ \A t \in Threads : collector.counted[t] \in Nat /\ agents[t].spent \in Nat
      BY <1>1 DEF Calibrates, ValidTree, Inv, TypeOK, Collectors, Agents
    <2>2. PICK root, child \in collector.sessions :
            /\ Roots(collector.sessions, collector.parent) = {root}
            /\ Children(collector.sessions, collector.parent) = {child}
            /\ collector.counted[root] + collector.counted[child] = meter
      BY <1>1 DEF Calibrates, Reconciled
    <2>3. collector.sessions = {root, child} /\ root # child
      BY <2>2 DEF Roots, Children
    <2>4. root \in Threads /\ child \in Threads
      BY <2>1, <2>2 DEF Collectors
    <2>5. /\ collector.counted[root] <= agents[root].spent
          /\ collector.counted[child] <= agents[child].spent
          /\ agents[root].spent + agents[child].spent <= meter
          /\ collector.counted[root] > 0 /\ collector.counted[child] > 0
      BY <1>1, <2>1, <2>3, <2>4 DEF Within, Rooted
    <2>6. /\ collector.counted[root] = agents[root].spent
          /\ collector.counted[child] = agents[child].spent
          /\ agents[root].spent > 0 /\ agents[child].spent > 0
          /\ agents[root].spent + agents[child].spent = meter
      BY <2>1, <2>2, <2>4, <2>5
    <2>7. ASSUME NEW t \in Threads, t \notin {root, child}
          PROVE  agents[t].spent = 0 /\ collector.counted[t] = 0
      <3>1. /\ agents[root].spent + agents[child].spent + agents[t].spent <= meter
            /\ collector.counted[t] <= agents[t].spent
        BY <1>1, <2>3, <2>4, <2>7 DEF Within
      <3> QED BY <2>1, <2>4, <2>6, <3>1
    <2> QED BY <2>1, <2>3, <2>4, <2>6, <2>7
  <1>2. Inv /\ Within => CalibratedIsTheTree
    BY <1>1 DEF CalibratedIsTheTree
  <1>3. Init => Within
    BY DEF Init, Within, Absent, EmptyCollector
  <1> QED BY <1>2, <1>3, NextWithin, InvHolds, PTL DEF Spec
================================================================================
