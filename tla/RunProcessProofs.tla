---------------------------- MODULE RunProcessProofs ----------------------------
(***************************************************************************)
(* Theorems of RunProcess, for any number of processes under one signal,   *)
(* with descendants on their pipes or without; and of ReviewProcesses, for *)
(* any reviewers, in batches of any size.                                  *)
(***************************************************************************)
EXTENDS ReviewProcesses, FiniteSetTheorems, TLAPS

(* What holds of one call, a being the signal: SIGKILL is only ever pending *)
(* for a call under way that asked for SIGTERM, a call under way is heard   *)
(* by the signal until it comes and stopping from then on.                  *)
Sound(r, a) ==
  /\ r.killTimers <= 1
  /\ r.killTimers = 1 \/ r.timedOut => r.stopping
  /\ r.pc \notin {"writing", "awaiting"} => r.killTimers = 0 /\ ~r.timeout /\ ~r.listener
  /\ r.pc = "calling" => ~r.stopping
  /\ r.pc \in {"writing", "awaiting"} => IF a THEN r.stopping ELSE r.listener
  /\ r.timedOut => r.stoppedBy = {"timeout"}
  /\ r.stopping /\ ~r.timedOut => a
  /\ r.stopping \/ r.stoppedBy = {}
  /\ r.pc = "returned" /\ r.stopping => r.timedOut

Inv == TypeOK /\ \A p \in Procs : Sound(proc[p], aborted)

(* The timeout of a call under way.                                        *)
LEMMA TimeoutSound ==
  ASSUME NEW r \in States, NEW a \in BOOLEAN, Sound(r, a), r.timeout,
         NEW s \in Stop([r EXCEPT !.timeout = FALSE], "timeout")
  PROVE  s \in States /\ Sound(s, a)
<1> DEFINE q == [r EXCEPT !.timeout = FALSE]
<1>1. q \in States /\ Sound(q, a) /\ q.pc \in {"writing", "awaiting"}
  BY DEF States, Sound
<1> HIDE DEF q
<1>2. CASE q.stopping
  BY <1>1, <1>2 DEF Stop, q
<1>3. CASE ~q.stopping
  <2>1. PICK n \in {0, 1} :
          s = [q EXCEPT !.stopping = TRUE, !.timedOut = TRUE,
                        !.stoppedBy = @ \cup {"timeout"}, !.killTimers = @ + n]
    BY <1>3 DEF Stop, q
  <2>2. q.killTimers = 0 /\ q.stoppedBy = {}
    BY <1>1, <1>3 DEF Sound, States
  <2>3. s = [q EXCEPT !.stopping = TRUE, !.timedOut = TRUE,
                      !.stoppedBy = {"timeout"}, !.killTimers = n]
    <3>1. q.killTimers + n = n /\ q.stoppedBy \cup {"timeout"} = {"timeout"}
      BY <2>2
    <3>2. QED
      BY <2>1, <3>1
  <2>4. s \in States
    <3>1. {"timeout"} \in SUBSET {"timeout", "abort"} /\ n \in Nat
      OBVIOUS
    <3>2. QED
      BY <1>1, <2>3, <3>1 DEF States
  <2>5. Sound(s, a)
    BY <1>1, <2>3 DEF Sound, States
  <2>6. QED
    BY <2>4, <2>5
<1>4. QED
  BY <1>2, <1>3

(* The abort, as each call hears it.                                       *)
LEMMA HeardSound ==
  ASSUME NEW r \in States, Sound(r, FALSE), NEW s \in Heard(r)
  PROVE  s \in States /\ Sound(s, TRUE)
<1>1. CASE ~r.listener
  <2>1. s = r /\ r.pc \notin {"writing", "awaiting"}
    BY <1>1 DEF Heard, Sound
  <2>2. QED
    BY <2>1 DEF Sound
<1>2. CASE r.listener
  <2> DEFINE q == [r EXCEPT !.listener = FALSE]
  <2>1. q \in States /\ q.pc \in {"writing", "awaiting"} /\ q.stopping = r.stopping
    BY <1>2 DEF States, Sound
  <2>2. s \in Stop(q, "abort")
    BY <1>2 DEF Heard
  <2>3. CASE r.stopping
    <3>1. s = q
      BY <2>1, <2>2, <2>3 DEF Stop
    <3>2. QED
      BY <2>1, <2>3, <3>1 DEF Sound, States
  <2>4. CASE ~r.stopping
    <3>1. PICK n \in {0, 1} :
            s = [q EXCEPT !.stopping = TRUE, !.timedOut = FALSE,
                          !.stoppedBy = @ \cup {"abort"}, !.killTimers = @ + n]
      BY <2>1, <2>2, <2>4 DEF Stop
    <3>2. q.killTimers = 0 /\ q.stoppedBy = {}
      BY <2>1, <2>4 DEF Sound, States
    <3>3. s = [q EXCEPT !.stopping = TRUE, !.timedOut = FALSE,
                        !.stoppedBy = {"abort"}, !.killTimers = n]
      <4>1. q.killTimers + n = n /\ q.stoppedBy \cup {"abort"} = {"abort"}
        BY <3>2
      <4>2. QED
        BY <3>1, <4>1
    <3> HIDE DEF q
    <3>4. s \in States
      <4>1. {"abort"} \in SUBSET {"timeout", "abort"} /\ n \in Nat
        OBVIOUS
      <4>2. QED
        BY <2>1, <3>3, <4>1 DEF States
    <3>5. Sound(s, TRUE)
      BY <2>1, <3>3 DEF Sound, States
    <3>6. QED
      BY <3>4, <3>5
  <2>5. QED
    BY <2>3, <2>4
<1>3. QED
  BY <1>1, <1>2

LEMMA InvStep ==
  ASSUME Inv, [Next]_vars
  PROVE  Inv'
<1> USE DEF Inv, TypeOK
<1>1. CASE UNCHANGED vars
  BY <1>1 DEF vars
<1>2. CASE Abort
  <2>1. /\ aborted = FALSE /\ aborted' = TRUE
        /\ DOMAIN proc' = Procs
        /\ proc' = [p \in Procs |-> proc'[p]]
        /\ \A p \in Procs : proc'[p] \in Heard(proc[p])
    BY <1>2 DEF Abort
  <2>2. \A p \in Procs : proc'[p] \in States /\ Sound(proc'[p], TRUE)
    BY <2>1, HeardSound
  <2>3. QED
    BY <2>1, <2>2
<1>3. ASSUME NEW p \in Procs, NEW r \in States, Sound(r, aborted), aborted' = aborted,
             proc' = [proc EXCEPT ![p] = r]
      PROVE  Inv'
  BY <1>3
<1>4. ASSUME NEW p \in Procs,
             \/ CallFails(p) \/ Spawn(p) \/ TimeoutFires(p) \/ KillTimerFires(p)
             \/ WriteFails(p) \/ Settle(p)
             \/ ReadInput(p) \/ ChildExits(p) \/ Fork(p) \/ DescendantExits(p)
      PROVE  Inv'
  <2> DEFINE q == proc[p]
  <2>1. q \in States /\ Sound(q, aborted) /\ aborted \in BOOLEAN
    OBVIOUS
  <2>2. CASE CallFails(p)
    <3>1. proc' = [proc EXCEPT ![p] = [q EXCEPT !.pc = "threw"]] /\ aborted' = aborted
          /\ q.pc = "calling"
      BY <2>2 DEF CallFails
    <3>2. [q EXCEPT !.pc = "threw"] \in States /\ Sound([q EXCEPT !.pc = "threw"], aborted)
      BY <2>1, <3>1 DEF Sound, States
    <3>3. QED
      BY <1>3, <3>1, <3>2
  <2>3. CASE Spawn(p)
    <3>1. PICK pc \in {"writing", "awaiting"} :
            proc' = [proc EXCEPT ![p] = [q EXCEPT !.pc = pc, !.child = "running",
                                                  !.listener = TRUE, !.timeout = TRUE]]
      BY <2>3 DEF Spawn
    <3> DEFINE s == [q EXCEPT !.pc = pc, !.child = "running",
                              !.listener = TRUE, !.timeout = TRUE]
    <3>2. aborted' = aborted /\ aborted = FALSE /\ q.pc = "calling"
      BY <2>3 DEF Spawn
    <3>3. s \in States /\ Sound(s, aborted)
      BY <2>1, <3>2 DEF Sound, States
    <3>4. QED
      BY <1>3, <3>1, <3>2, <3>3
  <2>4. CASE TimeoutFires(p)
    <3>1. PICK s \in Stop([q EXCEPT !.timeout = FALSE], "timeout") :
            proc' = [proc EXCEPT ![p] = s]
      BY <2>4 DEF TimeoutFires
    <3>2. aborted' = aborted /\ q.timeout
      BY <2>4 DEF TimeoutFires
    <3>3. s \in States /\ Sound(s, aborted)
      BY <2>1, <3>2, TimeoutSound
    <3>4. QED
      BY <1>3, <3>1, <3>2, <3>3
  <2>5. CASE KillTimerFires(p)
    <3> DEFINE s == [q EXCEPT !.killTimers = @ - 1, !.child = "exited"]
    <3>1. proc' = [proc EXCEPT ![p] = s] /\ aborted' = aborted /\ q.killTimers > 0
      BY <2>5 DEF KillTimerFires
    <3>2. q.killTimers = 1 /\ q.killTimers - 1 = 0
      BY <2>1, <3>1 DEF Sound, States
    <3>3. s = [q EXCEPT !.killTimers = 0, !.child = "exited"]
      BY <3>2
    <3> HIDE DEF q, s
    <3>4. s \in States
      BY <2>1, <3>3 DEF States
    <3>5. Sound(s, aborted)
      BY <2>1, <3>2, <3>3 DEF Sound, States
    <3>6. QED
      BY <1>3, <3>1, <3>4, <3>5 DEF q
  <2>6. CASE WriteFails(p) \/ ReadInput(p)
    <3> DEFINE s == [q EXCEPT !.pc = "awaiting"]
    <3>1. proc' = [proc EXCEPT ![p] = s] /\ aborted' = aborted /\ q.pc = "writing"
      BY <2>6 DEF WriteFails, ReadInput
    <3>2. s \in States /\ Sound(s, aborted)
      BY <2>1, <3>1 DEF Sound, States
    <3>3. QED
      BY <1>3, <3>1, <3>2
  <2>7. CASE Settle(p)
    <3> DEFINE s == [q EXCEPT !.pc = IF Cancelled THEN "threw" ELSE "returned",
                              !.timeout = FALSE, !.listener = FALSE,
                              !.killTimers = IF @ > 0 THEN @ - 1 ELSE 0]
    <3>1. proc' = [proc EXCEPT ![p] = s] /\ aborted' = aborted /\ q.pc = "awaiting"
      BY <2>7 DEF Settle
    <3>2. (IF q.killTimers > 0 THEN q.killTimers - 1 ELSE 0) = 0
      BY <2>1 DEF Sound, States
    <3>3. s = [q EXCEPT !.pc = IF aborted THEN "threw" ELSE "returned",
                        !.timeout = FALSE, !.listener = FALSE, !.killTimers = 0]
      BY <3>2 DEF Cancelled
    <3> HIDE DEF q, s
    <3>4. s \in States
      BY <2>1, <3>3 DEF States
    <3>5. Sound(s, aborted)
      BY <2>1, <3>1, <3>3 DEF Sound, States
    <3>6. QED
      BY <1>3, <3>1, <3>4, <3>5 DEF q
  <2>8. CASE ChildExits(p)
    <3> DEFINE s == [q EXCEPT !.child = "exited"]
    <3>1. proc' = [proc EXCEPT ![p] = s] /\ aborted' = aborted
      BY <2>8 DEF ChildExits
    <3>2. s \in States /\ Sound(s, aborted)
      BY <2>1 DEF Sound, States
    <3>3. QED
      BY <1>3, <3>1, <3>2
  <2>9. CASE Fork(p) \/ DescendantExits(p)
    <3>1. PICK h \in BOOLEAN : proc' = [proc EXCEPT ![p] = [q EXCEPT !.holding = h]]
      BY <2>9 DEF Fork, DescendantExits
    <3> DEFINE s == [q EXCEPT !.holding = h]
    <3>2. s \in States /\ Sound(s, aborted)
      BY <2>1 DEF Sound, States
    <3>3. aborted' = aborted
      BY <2>9 DEF Fork, DescendantExits
    <3>4. QED
      BY <1>3, <3>1, <3>2, <3>3
  <2>10. QED
    BY <1>4, <2>2, <2>3, <2>4, <2>5, <2>6, <2>7, <2>8, <2>9
<1>5. QED
  BY <1>1, <1>2, <1>4 DEF Next

THEOREM Invariant == Spec => []Inv
<1>1. Init => Inv
  BY DEF Init, Inv, TypeOK, Sound, NotCalled, States
<1>2. Inv /\ [Next]_vars => Inv'
  BY InvStep
<1>3. QED
  BY <1>1, <1>2, PTL DEF Spec

(* A stopped process is never taken for one that ended on its own.         *)
THEOREM StoppedNeverClean == Spec => []StoppedIsNeverClean
<1>1. Inv => StoppedIsNeverClean
  BY DEF Inv, Sound, StoppedIsNeverClean
<1>2. QED
  BY <1>1, Invariant, PTL

(* No timer and no listener outlives the call that made it.                *)
THEOREM NothingOutlives == Spec => []NothingOutlivesTheCall
<1>1. Inv => NothingOutlivesTheCall
  BY DEF Inv, Sound, NothingOutlivesTheCall, Settled
<1>2. QED
  BY <1>1, Invariant, PTL

(* An abort reaches every process that is running, and none starts after.  *)
THEOREM AbortsReachAll == Spec => []AbortReachesAll
<1>1. Inv => AbortReachesAll
  BY DEF Inv, Sound, AbortReachesAll, Active
<1>2. QED
  BY <1>1, Invariant, PTL

-------------------------------------------------------------------------------
(* What ends a child: the timeout, until it or the abort has asked for     *)
(* SIGTERM, and SIGKILL's timer from then on.                              *)
Timed(r) ==
  r.child = "running" =>
    /\ r.pc \in {"writing", "awaiting"}
    /\ IF r.stopping THEN r.killTimers > 0 ELSE r.timeout

(* However stop() is come by, it leaves a child that runs with a timer.    *)
LEMMA StopTimed ==
  ASSUME NEW r \in States, NEW q \in States, NEW why, NEW s \in Stop(q, why), Timed(r),
         q.pc = r.pc, q.child = r.child, q.stopping = r.stopping,
         q.killTimers = r.killTimers
  PROVE  Timed(s)
<1>1. CASE q.stopping
  BY <1>1 DEF Stop, Timed
<1>2. CASE ~q.stopping
  <2>1. PICK n \in {0, 1} :
          /\ q.child = "running" => n = 1
          /\ s = [q EXCEPT !.stopping = TRUE, !.timedOut = (why = "timeout"),
                           !.stoppedBy = @ \cup {why}, !.killTimers = @ + n]
    BY <1>2 DEF Stop
  <2>2. /\ s.child = r.child /\ s.pc = r.pc
        /\ s.stopping /\ s.killTimers = r.killTimers + n
    BY <2>1 DEF States
  <2>3. r.killTimers \in Nat
    BY DEF States
  <2>4. QED
    BY <2>1, <2>2, <2>3 DEF Timed
<1>3. QED
  BY <1>1, <1>2

LEMMA TimedStep ==
  ASSUME Inv, \A p \in Procs : Timed(proc[p]), [Next]_vars
  PROVE  \A p \in Procs : Timed(proc'[p])
<1>0. TypeOK /\ \A p \in Procs : Sound(proc[p], aborted)
  BY DEF Inv
<1> USE <1>0 DEF TypeOK
<1>1. CASE UNCHANGED vars
  BY <1>1 DEF vars
<1>2. CASE Abort
  <2> SUFFICES ASSUME NEW p \in Procs
               PROVE  Timed(proc'[p])
    OBVIOUS
  <2>1. proc'[p] \in Heard(proc[p]) /\ proc[p] \in States
    BY <1>2 DEF Abort
  <2>2. CASE ~proc[p].listener
    BY <2>1, <2>2 DEF Heard
  <2>3. CASE proc[p].listener
    <3> DEFINE q == [proc[p] EXCEPT !.listener = FALSE]
    <3>1. /\ q \in States /\ q.pc = proc[p].pc /\ q.child = proc[p].child
          /\ q.stopping = proc[p].stopping /\ q.killTimers = proc[p].killTimers
      BY <2>1 DEF States
    <3>2. proc'[p] \in Stop(q, "abort")
      BY <2>1, <2>3 DEF Heard
    <3>3. QED
      BY <2>1, <3>1, <3>2, StopTimed
  <2>4. QED
    BY <2>2, <2>3
<1>3. ASSUME NEW p \in Procs, NEW r, Timed(r), proc' = [proc EXCEPT ![p] = r]
      PROVE  \A t \in Procs : Timed(proc'[t])
  BY <1>3
<1>4. ASSUME NEW p \in Procs, TimeoutFires(p)
      PROVE  \A t \in Procs : Timed(proc'[t])
  <2> DEFINE q == [proc[p] EXCEPT !.timeout = FALSE]
  <2>1. PICK s \in Stop(q, "timeout") : proc' = [proc EXCEPT ![p] = s]
    BY <1>4 DEF TimeoutFires
  <2>2. /\ q \in States /\ q.pc = proc[p].pc /\ q.child = proc[p].child
        /\ q.stopping = proc[p].stopping /\ q.killTimers = proc[p].killTimers
    BY DEF States
  <2>3. Timed(s)
    BY <2>1, <2>2, StopTimed
  <2>4. QED
    BY <1>3, <2>1, <2>3
<1>5. ASSUME NEW p \in Procs, Spawn(p)
      PROVE  \A t \in Procs : Timed(proc'[t])
  <2>1. PICK pc \in {"writing", "awaiting"} :
          proc' = [proc EXCEPT ![p] =
                     [proc[p] EXCEPT !.pc = pc, !.child = "running",
                               !.listener = TRUE, !.timeout = TRUE]]
    BY <1>5 DEF Spawn
  <2> DEFINE r == [proc[p] EXCEPT !.pc = pc, !.child = "running",
                            !.listener = TRUE, !.timeout = TRUE]
  <2>2. r.pc = pc /\ r.timeout /\ r.stopping = proc[p].stopping
    BY DEF States
  <2>3. ~proc[p].stopping
    BY <1>5 DEF Spawn, Sound
  <2>4. Timed(r)
    <3> HIDE DEF r
    <3> QED BY <2>2, <2>3 DEF Timed
  <2>5. proc' = [proc EXCEPT ![p] = r]
    BY <2>1
  <2> HIDE DEF r
  <2>6. QED
    BY <1>3, <2>4, <2>5
<1>6. ASSUME NEW p \in Procs, CallFails(p) \/ ReadInput(p) \/ WriteFails(p)
      PROVE  \A t \in Procs : Timed(proc'[t])
  <2>1. CASE CallFails(p)
    BY <2>1 DEF CallFails, Timed, States
  <2>2. CASE ReadInput(p) \/ WriteFails(p)
    BY <2>2 DEF ReadInput, WriteFails, Timed, States
  <2>3. QED
    BY <1>6, <2>1, <2>2
<1>7. ASSUME NEW p \in Procs, NEW r, r.child = "exited", proc' = [proc EXCEPT ![p] = r]
      PROVE  \A t \in Procs : Timed(proc'[t])
  BY <1>3, <1>7 DEF Timed
<1>8. ASSUME NEW p \in Procs, KillTimerFires(p) \/ Settle(p) \/ ChildExits(p)
      PROVE  \A t \in Procs : Timed(proc'[t])
  <2>1. CASE KillTimerFires(p)
    <3> DEFINE r == [proc[p] EXCEPT !.killTimers = @ - 1, !.child = "exited"]
    <3>1. r.child = "exited" /\ proc' = [proc EXCEPT ![p] = r]
      BY <2>1 DEF KillTimerFires, States
    <3> HIDE DEF r
    <3>2. QED
      BY <1>7, <3>1
  <2>2. CASE Settle(p)
    <3> DEFINE r == [proc[p] EXCEPT !.pc = IF Cancelled THEN "threw" ELSE "returned",
                              !.timeout = FALSE, !.listener = FALSE,
                              !.killTimers = IF @ > 0 THEN @ - 1 ELSE 0]
    <3>1. proc' = [proc EXCEPT ![p] = r] /\ proc[p].child = "exited"
      BY <2>2 DEF Settle
    <3>2. r.child = proc[p].child
      BY DEF States
    <3> HIDE DEF r
    <3>3. QED
      BY <1>7, <3>1, <3>2
  <2>3. CASE ChildExits(p)
    BY <2>3 DEF ChildExits, Timed, States
  <2>4. QED
    BY <1>8, <2>1, <2>2, <2>3
<1>9. ASSUME NEW p \in Procs, Fork(p) \/ DescendantExits(p)
      PROVE  \A t \in Procs : Timed(proc'[t])
  BY <1>9 DEF Fork, DescendantExits, Timed, States
<1>10. QED
  BY <1>1, <1>2, <1>4, <1>5, <1>6, <1>8, <1>9 DEF Next

(* No child runs without a call that waits and a timer that will end it.   *)
THEOREM ChildrenAreTimed == Spec => []EveryChildIsTimed
<1> DEFINE AllTimed == \A p \in Procs : Timed(proc[p])
<1>1. Init => AllTimed
  BY DEF Init, NotCalled, Timed
<1>2. Inv /\ AllTimed /\ [Next]_vars => AllTimed'
  BY TimedStep DEF Inv
<1>3. AllTimed => EveryChildIsTimed
  BY DEF Timed, EveryChildIsTimed, Active
<1>4. QED
  BY <1>1, <1>2, <1>3, Invariant, PTL DEF Spec

-------------------------------------------------------------------------------
(* The reviewers of a review. *)

(* The processes of a review are processes under one signal, of which all   *)
(* of the above holds.                                                      *)
LEMMA ReviewStepRuns ==
  ASSUME [ReviewNext]_reviewVars
  PROVE  [Next]_vars
<1>1. CASE UNCHANGED reviewVars
  BY <1>1 DEF reviewVars
<1>2. CASE ReadBatch
  BY <1>2 DEF ReadBatch
<1>3. CASE Aborts
  BY <1>3 DEF Aborts, Next
<1>4. ASSUME NEW p \in Procs, AgentEnds(p) \/ Removed(p) \/ Runs(p)
      PROVE  [Next]_vars
  BY <1>4 DEF AgentEnds, Removed, Runs, Next
<1>5. QED
  BY <1>1, <1>2, <1>3, <1>4 DEF ReviewNext

(* Every behavior of a review is one of the processes it runs.              *)
THEOREM ReviewersAreProcesses == ReviewSpec => Spec
<1>1. ReviewInit => Init
  BY DEF ReviewInit
<1>2. QED
  BY <1>1, ReviewStepRuns, PTL DEF ReviewSpec, Spec

LEMMA BatchNumbers ==
  ASSUME NEW p \in Procs
  PROVE  BatchOf(p, Procs) \in Nat
<1>1. Ahead(p, Procs) \subseteq Procs
  BY DEF Ahead
<1>2. Cardinality(Ahead(p, Procs)) \in Nat
  BY <1>1, ReviewersAssumption, FS_Subset, FS_CardinalityType
<1> DEFINE n == Cardinality(Ahead(p, Procs))
<1> HIDE DEF n
<1>3. n \div 1 \in Nat /\ n \div 2 \in Nat /\ n \div 3 \in Nat
  BY <1>2 DEF n
<1>4. MaxConcurrentReviewers \in {1, 2, 3}
  BY ReviewersAssumption
<1>5. QED
  BY <1>3, <1>4 DEF BatchOf, n

\* How far one reviewer is: before its process, at it, or past it.
Apace(p) ==
  LET a == agent[p] IN
  /\ a.stage = "waiting" => proc[p].pc = "calling"
  /\ a.stage \in {"removing", "answered", "rejected"} => Settled(p)
  /\ a.stage \in {"removing", "answered"} =>
       a.came # "nothing" /\ (a.came # "threw" => proc[p].pc = "returned")
  /\ a.stage = "answered" => "abort" \notin proc[p].stoppedBy
  /\ kind[p] # "unread" => a.stage = "answered" /\ BatchOf(p, Procs) <= review.batch
  /\ kind[p] # "unread" /\ review.pc = "running" => BatchOf(p, Procs) < review.batch
  /\ a.stage \in {"running", "removing"} /\ review.pc # "rejected" =>
       review.pc = "running" /\ BatchOf(p, Procs) = review.batch

ReviewInv ==
  /\ Inv
  /\ agent \in [Procs -> Agents]
  /\ review.pc \in {"running", "returned", "rejected"} /\ review.batch \in Nat
  /\ review.pc = "rejected" => aborted
  /\ kind \in [Procs -> Kinds]
  /\ \A p \in Procs : Apace(p)

LEMMA ReviewInvInit == ReviewInit => ReviewInv
<1> SUFFICES ASSUME ReviewInit PROVE ReviewInv
  OBVIOUS
<1>1. Inv
  BY DEF ReviewInit, Init, Inv, TypeOK, Sound, NotCalled, States
<1>2. /\ agent \in [Procs -> Agents] /\ kind \in [Procs -> Kinds]
      /\ review.pc = "running" /\ review.batch = 0
  BY DEF ReviewInit, Agents, Kinds
<1>3. ASSUME NEW p \in Procs
      PROVE  Apace(p)
  <2>1. /\ agent[p].stage = "running" \/ agent[p].stage = "waiting"
        /\ agent[p].stage = "running" => BatchOf(p, Procs) = 0
        /\ kind[p] = "unread" /\ proc[p].pc = "calling"
    BY DEF ReviewInit, Init, NotCalled, Batch
  <2>2. QED
    BY <1>2, <2>1 DEF Apace
<1>4. QED
  BY <1>1, <1>2, <1>3 DEF ReviewInv

\* A step that leaves a reviewer where it is, and its process as settled as it was.
LEMMA StaysApace ==
  ASSUME ReviewInv, NEW p \in Procs, agent'[p] = agent[p], kind' = kind,
         review'.batch = review.batch,
         review'.pc = review.pc \/ review'.pc = "rejected",
         agent[p].stage = "waiting" => proc'[p].pc = proc[p].pc,
         Settled(p) => proc'[p].pc = proc[p].pc /\
                       ("abort" \in proc'[p].stoppedBy => "abort" \in proc[p].stoppedBy)
  PROVE  Apace(p)'
BY DEF ReviewInv, Apace, Settled

LEMMA RunsApace ==
  ASSUME ReviewInv, NEW p \in Procs, Runs(p)
  PROVE  \A q \in Procs : Apace(q)'
<1>1. UNCHANGED <<agent, review, kind>>
  BY DEF Runs
<1>2. ASSUME NEW q \in Procs, q # p
      PROVE  proc'[q] = proc[q]
  BY <1>2 DEF Runs, Spawn, TimeoutFires, KillTimerFires, WriteFails, ReadInput, ChildExits,
       Fork, DescendantExits, ReviewInv, Inv, TypeOK
<1>3. agent[p].stage # "waiting"
  BY DEF Runs
<1>4. ASSUME Settled(p)
      PROVE  proc'[p].pc = proc[p].pc /\ proc'[p].stoppedBy = proc[p].stoppedBy
  <2>1. /\ proc[p].pc \notin {"calling", "writing", "awaiting"}
        /\ ~proc[p].timeout /\ ~(proc[p].killTimers > 0)
        /\ proc \in [Procs -> States]
    BY <1>4 DEF ReviewInv, Inv, TypeOK, Sound, Settled
  <2>2. \/ proc' = [proc EXCEPT ![p].child = "exited"]
        \/ proc' = [proc EXCEPT ![p].holding = TRUE]
        \/ proc' = [proc EXCEPT ![p].holding = FALSE]
    BY <2>1 DEF Runs, Spawn, TimeoutFires, KillTimerFires, WriteFails, ReadInput,
         ChildExits, Fork, DescendantExits
  <2>3. QED
    BY <2>1, <2>2 DEF States
<1>5. QED
  BY <1>1, <1>2, <1>3, <1>4, StaysApace

LEMMA AbortsApace ==
  ASSUME ReviewInv, Aborts
  PROVE  \A q \in Procs : Apace(q)'
<1>1. UNCHANGED <<agent, review, kind>> /\ \A q \in Procs : proc'[q] \in Heard(proc[q])
  BY DEF Aborts, Abort
<1>2. ASSUME NEW q \in Procs, ~Active(q)
      PROVE  proc'[q] = proc[q]
  BY <1>1, <1>2 DEF Heard, ReviewInv, Inv, Sound, Active
<1>3. \A q \in Procs : agent[q].stage = "waiting" \/ Settled(q) => ~Active(q)
  BY DEF ReviewInv, Apace, Settled, Active
<1>4. QED
  BY <1>1, <1>2, <1>3, StaysApace

LEMMA EndsApace ==
  ASSUME ReviewInv, NEW p \in Procs, AgentEnds(p)
  PROVE  agent' \in [Procs -> Agents] /\ \A q \in Procs : Apace(q)'
<1>1. PICK came \in ComesTo(proc'[p]) :
        /\ agent' = [agent EXCEPT ![p] = [stage |-> "removing", came |-> came]]
        /\ agent[p].stage = "running"
        /\ UNCHANGED <<review, kind>>
  BY DEF AgentEnds
<1>2. /\ proc'[p].pc \in {"threw", "returned"}
      /\ \A q \in Procs : q # p => proc'[q] = proc[q]
  <2>1. proc \in [Procs -> States]
    BY DEF ReviewInv, Inv, TypeOK
  <2>2. CASE CallFails(p)
    BY <2>1, <2>2 DEF CallFails, States
  <2>3. CASE Settle(p)
    BY <2>1, <2>3 DEF Settle, States
  <2>4. QED
    BY <2>2, <2>3 DEF AgentEnds
<1>3. came \in {"threw", "failed", "message"} /\ (came # "threw" => proc'[p].pc = "returned")
  BY <1>1, <1>2 DEF ComesTo
<1>4. agent' \in [Procs -> Agents]
  BY <1>1, <1>3 DEF ReviewInv, Agents
<1>5. agent'[p] = [stage |-> "removing", came |-> came]
      /\ \A q \in Procs : q # p => agent'[q] = agent[q]
  BY <1>1 DEF ReviewInv
<1>6. Apace(p)'
  BY <1>1, <1>2, <1>3, <1>5 DEF ReviewInv, Apace, Settled
<1>7. ASSUME NEW q \in Procs, q # p
      PROVE  Apace(q)'
  BY <1>1, <1>2, <1>5, <1>7, StaysApace
<1>8. QED
  BY <1>4, <1>6, <1>7

LEMMA RemovedApace ==
  ASSUME ReviewInv, NEW p \in Procs, Removed(p)
  PROVE  /\ agent' \in [Procs -> Agents] /\ \A q \in Procs : Apace(q)'
         /\ review'.pc \in {"running", "returned", "rejected"} /\ review'.batch \in Nat
         /\ review'.pc = "rejected" => aborted'
<1> DEFINE rejects == agent[p].came = "threw" /\ Rethrown
<1>1. /\ agent[p].stage = "removing" /\ UNCHANGED <<vars, kind>>
      /\ agent' = [agent EXCEPT ![p].stage = IF rejects THEN "rejected" ELSE "answered"]
      /\ review' = IF rejects /\ review.pc = "running"
                     THEN [review EXCEPT !.pc = "rejected"] ELSE review
  BY DEF Removed
<1>2. UNCHANGED <<proc, aborted>>
  BY <1>1 DEF vars
<1>3. agent' \in [Procs -> Agents]
  BY <1>1 DEF ReviewInv, Agents
<1>4. /\ agent'[p].stage = (IF rejects THEN "rejected" ELSE "answered")
      /\ agent'[p].came = agent[p].came
      /\ \A q \in Procs : q # p => agent'[q] = agent[q]
  BY <1>1 DEF ReviewInv, Agents
<1>5. /\ review'.batch = review.batch
      /\ review'.pc = review.pc \/ (review'.pc = "rejected" /\ rejects)
  BY <1>1
<1>6. /\ Settled(p) /\ (agent[p].came # "threw" => proc[p].pc = "returned")
      /\ agent[p].came # "nothing"
  BY <1>1 DEF ReviewInv, Apace
<1>7. ~rejects => "abort" \notin proc[p].stoppedBy
  <2> SUFFICES ASSUME ~rejects, "abort" \in proc[p].stoppedBy PROVE FALSE
    OBVIOUS
  <2>1. proc[p].stopping /\ ~proc[p].timedOut
    BY DEF ReviewInv, Inv, Sound
  <2>2. aborted /\ proc[p].pc # "returned"
    BY <2>1 DEF ReviewInv, Inv, Sound
  <2>3. QED
    BY <1>6, <2>2 DEF Rethrown
<1>8. Apace(p)'
  <2>1. kind[p] = "unread"
    BY <1>1 DEF ReviewInv, Apace
  <2>2. QED
    BY <1>1, <1>2, <1>4, <1>5, <1>6, <1>7, <2>1 DEF Apace, Settled
<1>9. ASSUME NEW q \in Procs, q # p
      PROVE  Apace(q)'
  BY <1>1, <1>2, <1>4, <1>5, <1>9, StaysApace
<1>10. QED
  BY <1>2, <1>3, <1>5, <1>8, <1>9 DEF ReviewInv, Rethrown

LEMMA ReadApace ==
  ASSUME ReviewInv, ReadBatch
  PROVE  /\ agent' \in [Procs -> Agents] /\ kind' \in [Procs -> Kinds]
         /\ \A q \in Procs : Apace(q)'
         /\ review'.pc \in {"running", "returned"} /\ review'.batch \in Nat
<1> DEFINE n == review.batch
           asked == Batch(n)
<1>1. PICK clear :
        LET more == asked = clear /\ Batch(n + 1) # {} IN
        /\ kind' = [p \in Procs |-> IF p \in asked THEN Found(p, clear) ELSE kind[p]]
        /\ review' = [pc      |-> IF more THEN "running" ELSE "returned",
                      batch   |-> IF more THEN n + 1 ELSE n,
                      charged |-> review.charged + Cardinality(asked),
                      counted |-> review.counted +
                        Cardinality({p \in asked : agent[p].came # "threw"}),
                      records |-> review.records \cup clear,
                      failure |-> FailureOf(asked \ clear)]
        /\ agent' = IF more THEN Invoked(n + 1) ELSE agent
  BY Zenon DEF ReadBatch
<1> DEFINE more == asked = clear /\ Batch(n + 1) # {}
<1>2. /\ kind' = [p \in Procs |-> IF p \in asked THEN Found(p, clear) ELSE kind[p]]
      /\ review'.pc = (IF more THEN "running" ELSE "returned")
      /\ review'.batch = (IF more THEN n + 1 ELSE n)
      /\ agent' = IF more THEN Invoked(n + 1) ELSE agent
      /\ UNCHANGED vars
  BY <1>1 DEF ReadBatch
<1>3. n \in Nat /\ review.pc = "running" /\ UNCHANGED <<proc, aborted>>
  BY <1>2 DEF ReviewInv, ReadBatch, Answered, vars
<1>4. \A p \in asked : agent[p].stage = "answered"
  BY DEF ReadBatch, Answered
<1>5. \A p \in Procs : p \in asked <=> BatchOf(p, Procs) = n
  BY DEF Batch
<1> HIDE DEF n, asked, more
<1>6. /\ agent' \in [Procs -> Agents]
      /\ \A p \in Procs : agent'[p] = IF more /\ BatchOf(p, Procs) = n + 1
                                        THEN [stage |-> "running", came |-> "nothing"]
                                        ELSE agent[p]
  BY <1>2 DEF Invoked, Batch, ReviewInv, Agents
<1>7. \A p \in asked : Found(p, clear) \in Kinds
  <2>1. \A p \in asked : p \in Procs /\ agent[p].came \in {"threw", "failed", "message"}
    <3>1. \A p \in asked : p \in Procs
      BY DEF asked, Batch
    <3>2. QED
      BY <1>4, <3>1 DEF ReviewInv, Apace, Agents
  <2>2. QED
    BY <2>1 DEF Found, Kinds
<1>8. kind' \in [Procs -> Kinds]
  BY <1>2, <1>7 DEF ReviewInv
<1>9. ASSUME NEW p \in Procs
      PROVE  Apace(p)'
  <2>1. BatchOf(p, Procs) \in Nat /\ Apace(p)
    BY BatchNumbers DEF ReviewInv
  <2>2. kind'[p] # "unread" => agent[p].stage = "answered" /\ BatchOf(p, Procs) <= n
    BY <1>2, <1>3, <1>4, <1>5, <2>1 DEF Apace, n
  <2>3. CASE more /\ BatchOf(p, Procs) = n + 1
    <3>1. kind'[p] = "unread"
      BY <1>3, <2>1, <2>2, <2>3
    <3>2. agent'[p].stage = "running"
      BY <1>6, <2>3
    <3>3. QED
      BY <1>2, <2>3, <3>1, <3>2 DEF Apace
  <2>4. CASE ~(more /\ BatchOf(p, Procs) = n + 1)
    <3>1. agent'[p] = agent[p]
      BY <1>6, <2>4
    <3>2. agent[p].stage \notin {"running", "removing"}
      BY <1>3, <1>4, <1>5, <2>1 DEF Apace, n
    <3>3. kind'[p] # "unread" =>
            /\ BatchOf(p, Procs) <= review'.batch
            /\ review'.pc = "running" => BatchOf(p, Procs) < review'.batch
      BY <1>2, <1>3, <2>1, <2>2
    <3>4. QED
      BY <1>3, <2>1, <2>2, <3>1, <3>2, <3>3 DEF Apace, Settled
  <2>5. QED
    BY <2>3, <2>4
<1>10. QED
  BY <1>2, <1>3, <1>6, <1>8, <1>9

LEMMA ReviewInvStep ==
  ASSUME ReviewInv, [ReviewNext]_reviewVars
  PROVE  ReviewInv'
<1>1. Inv'
  BY ReviewStepRuns, InvStep DEF ReviewInv
<1>2. CASE UNCHANGED reviewVars
  BY <1>1, <1>2 DEF reviewVars, vars, ReviewInv, Apace, Settled
<1>3. CASE ReadBatch
  <2>1. aborted' = aborted
    BY <1>3 DEF ReadBatch, vars
  <2>2. QED
    BY <1>1, <1>3, <2>1, ReadApace DEF ReviewInv
<1>4. CASE Aborts
  <2>1. UNCHANGED <<agent, review, kind>> /\ aborted' = TRUE
    BY <1>4 DEF Aborts, Abort
  <2>2. QED
    BY <1>1, <1>4, <2>1, AbortsApace DEF ReviewInv
<1>5. ASSUME NEW p \in Procs, AgentEnds(p)
      PROVE  ReviewInv'
  <2>1. UNCHANGED <<review, kind, aborted>>
    BY <1>5 DEF AgentEnds, CallFails, Settle
  <2>2. QED
    BY <1>1, <1>5, <2>1, EndsApace DEF ReviewInv
<1>6. ASSUME NEW p \in Procs, Removed(p)
      PROVE  ReviewInv'
  <2>1. UNCHANGED <<kind, aborted>>
    BY <1>6 DEF Removed, vars
  <2>2. QED
    BY <1>1, <1>6, <2>1, RemovedApace DEF ReviewInv
<1>7. ASSUME NEW p \in Procs, Runs(p)
      PROVE  ReviewInv'
  <2>1. UNCHANGED <<agent, review, kind, aborted>>
    BY <1>7 DEF Runs, Spawn, TimeoutFires, KillTimerFires, WriteFails, ReadInput,
         ChildExits, Fork, DescendantExits
  <2>2. QED
    BY <1>1, <1>7, <2>1, RunsApace DEF ReviewInv
<1>8. QED
  BY <1>2, <1>3, <1>4, <1>5, <1>6, <1>7 DEF ReviewNext

THEOREM ReviewInvariant == ReviewSpec => []ReviewInv
<1>1. QED
  BY ReviewInvInit, ReviewInvStep, PTL DEF ReviewSpec

(* No reviewer that the abort stopped is read, charged or blamed.           *)
THEOREM KilledAreNotBlamed == ReviewSpec => []KilledIsNotBlamed
<1>1. ReviewInv => KilledIsNotBlamed
  BY DEF ReviewInv, Apace, KilledIsNotBlamed
<1>2. QED
  BY <1>1, ReviewInvariant, PTL

(* A review that returned has no reviewer under way; those left behind by   *)
(* one that was rejected are stopping.                                      *)
THEOREM NoneIsLeftBehind == ReviewSpec => []NoReviewerIsLeftBehind
<1>1. ASSUME ReviewInv, NEW p \in Procs, Active(p)
      PROVE  agent[p].stage = "running"
  BY <1>1 DEF ReviewInv, Agents, Apace, Active, Settled
<1>2. ReviewInv => NoReviewerIsLeftBehind
  BY <1>1 DEF ReviewInv, Apace, NoReviewerIsLeftBehind, Inv, Sound, Active
<1>3. QED
  BY <1>2, ReviewInvariant, PTL
================================================================================
