---------------------------- MODULE ReviewProcesses ----------------------------
(***************************************************************************)
(* One call of runReviewAssignments of garfield.ts, step by step: each     *)
(* reviewer of a batch is an invoke around a runAgent around a runProcess, *)
(* all under the signal of the run.  When its process has ended a reviewer *)
(* still awaits the removal of its schema file; what it threw is looked at *)
(* only then, in the light of the signal as it is by then.                 *)
(***************************************************************************)
EXTENDS ReviewBatches, RunProcess

ASSUME ReviewersAssumption ==
  /\ MaxConcurrentReviewers \in 1..3
  /\ IsFiniteSet(Procs)
  /\ Procs \subseteq [name : AssignmentName, lenses : SUBSET ReviewLens]
  /\ \A p, q \in Procs : Rank(p.name) = Rank(q.name) => p = q

VARIABLES
  agent,     \* of each assignment, how far invoke is and what runAgent came to
  review,    \* how far runReviewAssignments is, and what it has gathered
  kind       \* ghost: what each answer turned out to be

reviewVars == <<vars, agent, review, kind>>

Agents ==
  [stage : {"waiting", "running", "removing", "answered", "rejected"},
   came  : {"nothing", "threw", "failed", "message"}]

Kinds == {"unread", "error", "failed", "malformed", "clear"}

Reviews ==
  [pc : {"running", "returned", "rejected"}, batch : Nat,
   charged : Nat, counted : Nat, records : SUBSET Procs, failure : SUBSET Procs]

Batch(n) == {p \in Procs : BatchOf(p, Procs) = n}

\* invoke runs up to its first await in the turn that starts the batch.
Invoked(n) ==
  [p \in Procs |-> IF p \in Batch(n) THEN [stage |-> "running", came |-> "nothing"]
                                     ELSE agent[p]]

ReviewInit ==
  /\ Init
  /\ agent = [p \in Procs |-> [stage |-> IF p \in Batch(0) THEN "running" ELSE "waiting",
                               came  |-> "nothing"]]
  /\ review = [pc |-> "running", batch |-> 0, charged |-> 0, counted |-> 0,
               records |-> {}, failure |-> {}]
  /\ kind = [p \in Procs |-> "unread"]

\* The answers of the batch at hand are there; they are read in the turn in
\* which the last of them came.
Answered ==
  /\ review.pc = "running"
  /\ \A p \in Batch(review.batch) : agent[p].stage = "answered"

\* What runAgent makes of a process that has settled: a reviewer that timed out
\* did not succeed, whatever it wrote, and what it wrote may be too much.
ComesTo(r) ==
  CASE r.pc = "threw"                   -> {"threw"}
    [] r.pc = "returned" /\ r.timedOut  -> {"threw", "failed"}
    [] r.pc = "returned" /\ ~r.timedOut -> {"threw", "failed", "message"}

\* The process settles, or none is started; the schema file is to be removed.
AgentEnds(p) ==
  /\ agent[p].stage = "running"
  /\ CallFails(p) \/ Settle(p)
  /\ \E came \in ComesTo(proc'[p]) :
       agent' = [agent EXCEPT ![p] = [stage |-> "removing", came |-> came]]
  /\ UNCHANGED <<review, kind>>

\* Mutant: the error is swallowed whatever the signal says.
NeverRethrown == FALSE

\* Mutant: and rethrown whatever it says.
AlwaysRethrown == TRUE

\* The catch of invoke: a cancellation goes on as an error.
Rethrown == aborted

\* The file is gone.  The first reviewer that rejects rejects the review, while
\* the others go on.
Removed(p) ==
  /\ agent[p].stage = "removing"
  /\ LET rejects == agent[p].came = "threw" /\ Rethrown
     IN /\ agent' = [agent EXCEPT ![p].stage = IF rejects THEN "rejected" ELSE "answered"]
        /\ review' = IF rejects /\ review.pc = "running"
                       THEN [review EXCEPT !.pc = "rejected"] ELSE review
  /\ UNCHANGED <<vars, kind>>

\* Mutant: the last failure of a batch is the one that is named.
FailureNamed(bad) == {p \in bad : \A q \in bad : Rank(q.name) <= Rank(p.name)}

\* failure ??= ...
FailureOf(bad) == {p \in bad : \A q \in bad : Rank(p.name) <= Rank(q.name)}

\* Whether a message is a review is found out here.
Found(p, clear) ==
  CASE agent[p].came = "threw"   -> "error"
    [] agent[p].came = "failed"  -> "failed"
    [] agent[p].came = "message" -> IF p \in clear THEN "clear" ELSE "malformed"

\* The answers of a batch in the order of its assignments, and the next batch.
ReadBatch ==
  /\ Answered
  /\ \E clear \in SUBSET {p \in Batch(review.batch) : agent[p].came = "message"} :
       LET asked == Batch(review.batch)
           more  == asked = clear /\ Batch(review.batch + 1) # {}
       IN /\ kind' = [p \in Procs |-> IF p \in asked THEN Found(p, clear) ELSE kind[p]]
          /\ review' = [pc      |-> IF more THEN "running" ELSE "returned",
                        batch   |-> IF more THEN review.batch + 1 ELSE review.batch,
                        charged |-> review.charged + Cardinality(asked),
                        counted |-> review.counted +
                          Cardinality({p \in asked : agent[p].came # "threw"}),
                        records |-> review.records \cup clear,
                        failure |-> FailureOf(asked \ clear)]
          /\ agent' = IF more THEN Invoked(review.batch + 1) ELSE agent
  /\ UNCHANGED vars

\* Nothing comes between the last answer of a batch and the reading of it.
Aborts == Abort /\ ~Answered /\ UNCHANGED <<agent, review, kind>>

\* The process of a reviewer that was asked, and that process's own steps.
Runs(p) ==
  /\ agent[p].stage # "waiting"
  /\ \/ Spawn(p) \/ TimeoutFires(p) \/ KillTimerFires(p) \/ WriteFails(p)
     \/ ReadInput(p) \/ ChildExits(p) \/ Fork(p) \/ DescendantExits(p)
  /\ UNCHANGED <<agent, review, kind>>

ReviewNext ==
  \/ Aborts
  \/ ReadBatch
  \/ \E p \in Procs : AgentEnds(p) \/ Removed(p) \/ Runs(p)

ReviewSpec == ReviewInit /\ [][ReviewNext]_reviewVars

\* Timers fire, files are removed and ready promises settle; no process has to
\* do anything.
FairReviewSpec ==
  /\ ReviewSpec
  /\ WF_reviewVars(ReadBatch)
  /\ \A p \in Procs :
       /\ WF_reviewVars(AgentEnds(p) \/ (Spawn(p) /\ Runs(p)))
       /\ WF_reviewVars(TimeoutFires(p) /\ Runs(p))
       /\ WF_reviewVars(KillTimerFires(p) /\ Runs(p))
       /\ WF_reviewVars(WriteFails(p) /\ Runs(p))
       /\ WF_reviewVars(Removed(p))

-------------------------------------------------------------------------------
(* Properties. *)

(* A reviewer that the abort stopped is blamed for nothing: the review does *)
(* not fail of it, and it is neither read nor charged, in whatever order    *)
(* timeout, abort, the ends of the processes and the removal of their files *)
(* came.                                                                    *)
KilledIsNotBlamed ==
  \A p \in Procs : "abort" \in proc[p].stoppedBy => kind[p] = "unread"

(* A review that is over leaves no reviewer to itself: one that returned    *)
(* has none under way, and those that one rejected leaves behind have all   *)
(* been told to stop.                                                       *)
NoReviewerIsLeftBehind ==
  /\ review.pc = "returned" => \A p \in Procs : ~Active(p)
  /\ review.pc = "rejected" => \A p \in Procs : Active(p) => proc[p].stopping

\* How the reviewers of a review that returned ended, as ReviewBatches has it.
outcome == [p \in Procs |-> [kind |-> kind[p]]]

(* Batch by batch, a review that returns comes to what ReviewBatches says   *)
(* of the answers at once: the processes charged and counted, the reviews   *)
(* read and the failure named; and it returns in spite of an abort only     *)
(* if that came while an answer's schema file was being removed.            *)
ReturnsTheReview ==
  [][review.pc = "running" /\ review'.pc = "returned" =>
       /\ review'.charged = Cardinality(Processed(Procs, outcome'))
       /\ review'.counted = Cardinality(Counted(Procs, outcome'))
       /\ review'.records = WithKind(Processed(Procs, outcome'), outcome', {"clear"})
       /\ review'.failure = FirstFailure(Procs, outcome')
       /\ aborted => LateAbortMissed(Procs, outcome')]_reviewVars

(* A review ends, and so do the calls it leaves behind, unless descendants  *)
(* of its reviewers keep their pipes open for ever: a child that ignores    *)
(* SIGTERM is killed, a write it never reads is broken by its end, whatever *)
(* the order of timeout, abort and exit.  The timeout alone does not bound  *)
(* it: nothing stops a descendant.                                          *)
ReviewEnds ==
  (\A p \in Procs : <>[]~proc[p].holding) =>
    /\ <>(review.pc # "running")
    /\ \A p \in Procs : Active(p) ~> Settled(p)
================================================================================
