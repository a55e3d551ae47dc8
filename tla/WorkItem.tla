-------------------------------- MODULE WorkItem --------------------------------
(***************************************************************************)
(* What the two durable resources of a work item promise their readers,    *)
(* however many runs were crashed, cancelled and started again between two *)
(* writes.  The journal (the checkpoint) keeps one account of repairs,     *)
(* reviews and decisions, on one snapshot at a time, and says whether a    *)
(* repair may be under way; the outcome (the result) is published from it. *)
(* The end and the beginning of a run are no events here.                  *)
(***************************************************************************)
EXTENDS Naturals

CONSTANTS Snapshots, Concerns, Lenses,
          None,          \* no snapshot
          Required       \* the lenses without which nothing passes

VARIABLES journal, outcome

Accounts ==
  [repairs   : Nat,
   reviews   : SUBSET [cycle : Nat, lenses : SUBSET Lenses, on : Snapshots],
   decisions : [Concerns -> Nat]]

Journals ==
  [state : {"open", "pending", "passed", "blocked"}, on : Snapshots, account : Accounts]

NewAccount ==
  [repairs |-> 0, reviews |-> {}, decisions |-> [c \in Concerns |-> 0]]

Repaired(account) == [account EXCEPT !.repairs = @ + 1]

\* The reviews of snapshot s since the last repair.
Readings(account, s) == {r \in account.reviews : r.on = s /\ r.cycle = account.repairs + 1}

\* Account b is what account a may become while snapshot s is worked on.
Grows(a, b, s) ==
  /\ b.repairs = a.repairs
  /\ a.reviews \subseteq b.reviews
  /\ b.reviews \ a.reviews \subseteq Readings(b, s)
  /\ \A c \in Concerns : a.decisions[c] <= b.decisions[c]

Passed(s) == outcome.state = "passed" /\ outcome.on = s

Nothing == [state |-> "none", on |-> None, account |-> NewAccount]

Init == journal = Nothing /\ outcome = Nothing

\* An account is opened for another snapshot, but not over a repair that may
\* still have edits in the worktree.
Begin(s) ==
  /\ journal.on # s /\ journal.state # "pending"
  /\ ~Passed(s)
  /\ journal' = [state |-> "open", on |-> s, account |-> NewAccount]
  /\ UNCHANGED outcome

\* An account is taken up where it was left, on its own snapshot.
Continue ==
  /\ journal \in Journals
  /\ journal.state \in {"passed", "blocked"} => ~Passed(journal.on)
  /\ journal' = [journal EXCEPT !.state = "open"]
  /\ UNCHANGED outcome

\* Reviews and decisions are recorded, and a repair announced.
Work ==
  /\ journal.state = "open"
  /\ journal' \in Journals
  /\ journal'.state \in {"open", "pending"}
  /\ journal'.on = journal.on
  /\ Grows(journal.account, journal'.account, journal.on)
  /\ UNCHANGED outcome

\* A repair has led from one snapshot to the next: nothing of the account is lost.
Repair(s) ==
  /\ journal.state = "pending" /\ journal.on # s
  /\ journal' = [state |-> "open", on |-> s, account |-> Repaired(journal.account)]
  /\ UNCHANGED outcome

Pass ==
  /\ journal.state = "open"
  /\ Required \subseteq UNION {r.lenses : r \in Readings(journal.account, journal.on)}
  /\ journal' = [journal EXCEPT !.state = "passed"]
  /\ UNCHANGED outcome

\* A repair that failed or came to nothing is counted if it ran.
Block ==
  /\ journal' \in Journals /\ journal'.state = "blocked"
  /\ \/ /\ journal.state = "open" /\ journal'.on = journal.on
        /\ Grows(journal.account, journal'.account, journal.on)
     \/ /\ journal.state = "pending" /\ journal'.on = journal.on
        /\ journal'.account = journal.account
     \/ /\ journal.state = "pending"
        /\ journal'.account = Repaired(journal.account)
  /\ UNCHANGED outcome

\* The outcome is the settled journal, to the letter.
Publish ==
  /\ journal.state \in {"passed", "blocked"}
  /\ outcome' = journal
  /\ UNCHANGED journal

Next ==
  \/ \E s \in Snapshots : Begin(s) \/ Repair(s)
  \/ Continue \/ Work \/ Pass \/ Block \/ Publish

Spec == Init /\ [][Next]_<<journal, outcome>>
=================================================================================
