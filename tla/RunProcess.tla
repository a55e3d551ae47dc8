------------------------------- MODULE RunProcess -------------------------------
(***************************************************************************)
(* runProcess of garfield.ts: child processes that run side by side under  *)
(* one abort signal (git status and git diff of a snapshot, the reviewers  *)
(* of a batch), each from spawn to the settled promise, between a timeout, *)
(* the signal, SIGTERM and SIGKILL, a child that may ignore the first, and *)
(* descendants of the child that may keep its pipes open.  Timers,         *)
(* listener and promises are the code's; the children its environment.     *)
(***************************************************************************)
EXTENDS Naturals

CONSTANTS
  Procs,           \* the processes one signal governs
  Descendants      \* may a child leave processes that hold its pipes?

ASSUME DescendantsAssumption == Descendants \in BOOLEAN

VARIABLES
  aborted,         \* options.signal.aborted
  proc             \* for each process what its runProcess call knows, and its child

vars == <<aborted, proc>>

States ==
  [pc         : {"calling", "writing", "awaiting", "returned", "threw"},
   child      : {"none", "running", "exited"},
   holding    : BOOLEAN,                       \* a descendant holds the pipes
   listener   : BOOLEAN, timeout : BOOLEAN,    \* registered, armed
   killTimers : Nat,                           \* SIGKILL timers that are armed
   stopping   : BOOLEAN, timedOut : BOOLEAN,
   stoppedBy  : SUBSET {"timeout", "abort"}]   \* ghost: what asked for SIGTERM

NotCalled ==
  [pc |-> "calling", child |-> "none", holding |-> FALSE,
   listener |-> FALSE, timeout |-> FALSE, killTimers |-> 0,
   stopping |-> FALSE, timedOut |-> FALSE, stoppedBy |-> {}]

Settled(p) == proc[p].pc \in {"returned", "threw"}

Active(p) == proc[p].pc \in {"writing", "awaiting"}

Init == aborted \in BOOLEAN /\ proc = [p \in Procs |-> NotCalled]

-------------------------------------------------------------------------------
(* The code. *)

\* The signal is aborted already or the program is missing: nothing started.
CallFails(p) ==
  /\ proc[p].pc = "calling"
  /\ proc' = [proc EXCEPT ![p].pc = "threw"]
  /\ UNCHANGED aborted

\* Mutant: the listener is registered only once there is nothing to write.
SpawnUnheard(p) ==
  /\ proc[p].pc = "calling"
  /\ ~aborted
  /\ \E pc \in {"writing", "awaiting"} :
       proc' = [proc EXCEPT ![p] =
                  [proc[p] EXCEPT !.pc = pc, !.child = "running",
                            !.listener = (pc = "awaiting"), !.timeout = TRUE]]
  /\ UNCHANGED aborted

\* With input to write or without; listener and timeout in the same turn of
\* the event loop.
Spawn(p) ==
  /\ proc[p].pc = "calling"
  /\ ~aborted
  /\ \E pc \in {"writing", "awaiting"} :
       proc' = [proc EXCEPT ![p] =
                  [proc[p] EXCEPT !.pc = pc, !.child = "running",
                            !.listener = TRUE, !.timeout = TRUE]]
  /\ UNCHANGED aborted

\* Mutant: "if (stopping) return" is missing.
StopAgain(r, why) ==
  {[r EXCEPT !.stopping = TRUE, !.timedOut = (why = "timeout"),
             !.stoppedBy = @ \cup {why}, !.killTimers = @ + 1]}

\* Mutant: SIGTERM and no more.
StopTermOnly(r, why) ==
  {[r EXCEPT !.stopping = TRUE,
             !.timedOut = IF r.stopping THEN @ ELSE why = "timeout",
             !.stoppedBy = @ \cup {why}]}

\* stop(): what the call may know once SIGTERM was sent.  The timer of SIGKILL
\* is armed unless the child turned out to be gone.
Stop(r, why) ==
  IF r.stopping THEN {r}
  ELSE {[r EXCEPT !.stopping = TRUE, !.timedOut = (why = "timeout"),
                  !.stoppedBy = @ \cup {why}, !.killTimers = @ + n] :
          n \in IF r.child = "exited" THEN {0, 1} ELSE {1}}

TimeoutFires(p) ==
  /\ proc[p].timeout
  /\ \E r \in Stop([proc[p] EXCEPT !.timeout = FALSE], "timeout") :
       proc' = [proc EXCEPT ![p] = r]
  /\ UNCHANGED aborted

Heard(r) == IF r.listener THEN Stop([r EXCEPT !.listener = FALSE], "abort") ELSE {r}

\* The caller aborts: every registered listener is called, { once: true }.
Abort ==
  /\ ~aborted
  /\ aborted' = TRUE
  /\ proc' \in {f \in [Procs -> UNION {Heard(proc[p]) : p \in Procs}] :
                  \A p \in Procs : f[p] \in Heard(proc[p])}

KillTimerFires(p) ==
  /\ proc[p].killTimers > 0
  /\ proc' = [proc EXCEPT ![p] = [proc[p] EXCEPT !.killTimers = @ - 1, !.child = "exited"]]
  /\ UNCHANGED aborted

\* The child gone and its pipe without a reader, the write rejects; caught.
WriteFails(p) ==
  /\ proc[p].pc = "writing"
  /\ proc[p].child = "exited" /\ ~proc[p].holding
  /\ proc' = [proc EXCEPT ![p].pc = "awaiting"]
  /\ UNCHANGED aborted

\* Mutant: the signal is not looked at after the await.
NeverCancelled == FALSE

Cancelled == aborted

\* Exit status and the end of both pipes are awaited together; finally clears
\* the timeout, the last SIGKILL timer and the listener.
Settle(p) ==
  /\ proc[p].pc = "awaiting"
  /\ proc[p].child = "exited" /\ ~proc[p].holding
  /\ proc' = [proc EXCEPT ![p] =
                [proc[p] EXCEPT !.pc = IF Cancelled THEN "threw" ELSE "returned",
                          !.timeout = FALSE, !.listener = FALSE,
                          !.killTimers = IF @ > 0 THEN @ - 1 ELSE 0]]
  /\ UNCHANGED aborted

-------------------------------------------------------------------------------
(* The child and its descendants. *)

ReadInput(p) ==
  /\ proc[p].pc = "writing"
  /\ proc[p].child = "running"
  /\ proc' = [proc EXCEPT ![p].pc = "awaiting"]
  /\ UNCHANGED aborted

\* On its own or on SIGTERM.
ChildExits(p) ==
  /\ proc[p].child = "running"
  /\ proc' = [proc EXCEPT ![p].child = "exited"]
  /\ UNCHANGED aborted

Fork(p) ==
  /\ Descendants
  /\ proc[p].child = "running" /\ ~proc[p].holding
  /\ proc' = [proc EXCEPT ![p].holding = TRUE]
  /\ UNCHANGED aborted

DescendantExits(p) ==
  /\ proc[p].holding
  /\ proc' = [proc EXCEPT ![p].holding = FALSE]
  /\ UNCHANGED aborted

Next ==
  \/ Abort
  \/ \E p \in Procs :
       \/ CallFails(p) \/ Spawn(p) \/ TimeoutFires(p) \/ KillTimerFires(p)
       \/ WriteFails(p) \/ Settle(p)
       \/ ReadInput(p) \/ ChildExits(p) \/ Fork(p) \/ DescendantExits(p)

Spec == Init /\ [][Next]_vars

-------------------------------------------------------------------------------
(* Properties. *)

(* Every variable has its type.                                             *)
TypeOK ==
  /\ aborted \in BOOLEAN
  /\ proc \in [Procs -> States]

(* A process that was told to stop is never taken for one that ended on its *)
(* own: its result says timedOut, or there is no result; and a result that  *)
(* says timedOut was not asked for by the abort, however the two and the    *)
(* exit of the child raced each other.                                      *)
StoppedIsNeverClean ==
  \A p \in Procs : proc[p].pc = "returned" =>
    /\ proc[p].stopping => proc[p].timedOut
    /\ proc[p].timedOut => proc[p].stoppedBy = {"timeout"}

(* Nothing of runProcess outlives it: once the promise has settled there is *)
(* no timer left to signal a process id that may be another's by then.      *)
NothingOutlivesTheCall ==
  \A p \in Procs : Settled(p) =>
    proc[p].killTimers = 0 /\ ~proc[p].timeout /\ ~proc[p].listener

(* An abort reaches every process that is running when it comes, and none   *)
(* starts after it: there is no moment at which a child runs unheard.       *)
AbortReachesAll == aborted => \A p \in Procs : Active(p) => proc[p].stopping

(* No child runs without a call that waits for it and a timer that will end *)
(* it: whichever of timeout and abort came first, the one that asked for    *)
(* SIGTERM has left its SIGKILL behind, and the other has not disarmed it.  *)
EveryChildIsTimed ==
  \A p \in Procs : proc[p].child = "running" =>
    Active(p) /\ (proc[p].timeout \/ proc[p].killTimers > 0)
================================================================================
