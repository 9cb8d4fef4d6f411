----------------------------- MODULE ProbePool -----------------------------
(***************************************************************************)
(* run_jobs of scripts/run_min_enclosing_polygon_research.py: a generator  *)
(* that runs each job in a child process of its own, at most Parallel at   *)
(* once, kills the process group of a child that outlives its timeout, and *)
(* yields one finished record a child.  Its consumer (run_corpus, run_fuzz *)
(* or freeze) runs while the generator is suspended, and may abandon it.   *)
(***************************************************************************)
EXTENDS Integers, Sequences, SequencesExt, FiniteSets

CONSTANTS
    JobCount,       \* jobs, started in the order 1 .. JobCount
    Parallel        \* the --jobs option

ASSUME PoolAssumption == JobCount \in Nat /\ Parallel \in Nat \ {0}

VARIABLES
    proc,       \* each child: "none", "alive", "zombie" (ended, not reaped),
                \* "reaped", or "reused" when its process id is another's
    overdue,    \* children that have run for the timeout
    pending,    \* jobs not started, first first
    running,    \* running: jobs in the order they were started
    scan,       \* what this pass of the poll loop has still to look at
    kept,       \* still_running
    victim,     \* the child that poll() found alive and overdue, 0 for none
    yielded,    \* records handed to the consumer: [job, timedOut]
    pc,
    killed      \* processes that were sent SIGKILL: job, or -job when its
                \* process id belonged to another process by then

vars == <<proc, overdue, pending, running, scan, kept, victim, yielded, pc,
          killed>>

Jobs == 1 .. JobCount

Init ==
    /\ proc = [j \in Jobs |-> "none"] /\ overdue = {}
    /\ pending = [j \in Jobs |-> j]
    /\ running = <<>> /\ scan = <<>> /\ kept = <<>> /\ victim = 0
    /\ yielded = <<>> /\ pc = "fill" /\ killed = {}
-----------------------------------------------------------------------------
(* The children and the operating system.                                  *)

ChildEnds(j) ==
    /\ proc[j] = "alive"
    /\ proc' = [proc EXCEPT ![j] = "zombie"]
    /\ UNCHANGED <<overdue, pending, running, scan, kept, victim, yielded, pc,
                   killed>>

Elapse(j) ==
    /\ proc[j] = "alive" /\ j \notin overdue
    /\ overdue' = overdue \cup {j}
    /\ UNCHANGED <<proc, pending, running, scan, kept, victim, yielded, pc,
                   killed>>

Reuse(j) ==
    /\ proc[j] = "reaped"
    /\ proc' = [proc EXCEPT ![j] = "reused"]
    /\ UNCHANGED <<overdue, pending, running, scan, kept, victim, yielded, pc,
                   killed>>
-----------------------------------------------------------------------------
(* The generator.                                                          *)

\* while pending and len(running) < parallel.
Fill ==
    /\ pc = "fill" /\ pending # <<>> /\ Len(running) < Parallel
    /\ proc' = [proc EXCEPT ![Head(pending)] = "alive"]
    /\ running' = Append(running, Head(pending))
    /\ pending' = Tail(pending)
    /\ UNCHANGED <<overdue, scan, kept, victim, yielded, pc, killed>>

\* Mutant: the loop ends with the last start, not with the last child.
BeginPassWhilePending ==
    /\ pc = "fill" /\ (pending = <<>> \/ Len(running) >= Parallel)
    /\ IF pending = <<>> THEN pc' = "closed" ELSE pc' = "poll"
    /\ scan' = running /\ kept' = <<>>
    /\ UNCHANGED <<proc, overdue, pending, running, victim, yielded, killed>>

\* The pass over running begins, or everything has been yielded.
BeginPass ==
    /\ pc = "fill" /\ (pending = <<>> \/ Len(running) >= Parallel)
    /\ IF running = <<>> THEN pc' = "closed" ELSE pc' = "poll"
    /\ scan' = running /\ kept' = <<>>
    /\ UNCHANGED <<proc, overdue, pending, running, victim, yielded, killed>>

\* Mutant: a child is overdue by its age alone, though poll() has reaped it.
PollByAge ==
    /\ pc = "poll" /\ scan # <<>>
    /\ LET j == Head(scan)
       IN  \/ /\ proc[j] = "alive" /\ j \notin overdue
              /\ kept' = Append(kept, j) /\ scan' = Tail(scan)
              /\ UNCHANGED <<proc, victim, yielded, pc>>
           \/ /\ j \in overdue
              /\ proc' = [proc EXCEPT ![j] = IF @ = "zombie" THEN "reaped"
                                                             ELSE @]
              /\ victim' = j /\ pc' = "kill"
              /\ UNCHANGED <<kept, scan, yielded>>
           \/ /\ proc[j] # "alive" /\ j \notin overdue
              /\ proc' = [proc EXCEPT ![j] = IF @ = "zombie" THEN "reaped"
                                                             ELSE @]
              /\ yielded' = Append(yielded, [job |-> j, timedOut |-> FALSE])
              /\ scan' = Tail(scan) /\ pc' = "consume"
              /\ UNCHANGED <<kept, victim>>
    /\ UNCHANGED <<overdue, pending, running, killed>>

\* poll() of the next child: it is kept, it has outlived its timeout, or it
\* ended, which reaps it, and its record is yielded.  (Of a child that has been
\* reaped, poll() repeats the status.)
Poll ==
    /\ pc = "poll" /\ scan # <<>>
    /\ LET j == Head(scan)
       IN  \/ /\ proc[j] = "alive" /\ j \notin overdue
              /\ kept' = Append(kept, j) /\ scan' = Tail(scan)
              /\ UNCHANGED <<proc, victim, yielded, pc>>
           \/ /\ proc[j] = "alive" /\ j \in overdue
              /\ victim' = j /\ pc' = "kill"
              /\ UNCHANGED <<proc, kept, scan, yielded>>
           \/ /\ proc[j] # "alive"
              /\ proc' = [proc EXCEPT ![j] = IF @ = "zombie" THEN "reaped"
                                                             ELSE @]
              /\ yielded' = Append(yielded, [job |-> j, timedOut |-> FALSE])
              /\ scan' = Tail(scan) /\ pc' = "consume"
              /\ UNCHANGED <<kept, victim>>
    /\ UNCHANGED <<overdue, pending, running, killed>>

\* killpg(), which reaches whatever holds the process id by now.
KillGroup ==
    /\ pc = "kill"
    /\ killed' = killed \cup {IF proc[victim] = "reused" THEN - victim
                                                         ELSE victim}
    /\ proc' = [proc EXCEPT ![victim] = IF @ = "alive" THEN "zombie" ELSE @]
    /\ pc' = "wait"
    /\ UNCHANGED <<overdue, pending, running, scan, kept, victim, yielded>>

\* process.wait() after the kill, and the yield.
Wait ==
    /\ pc = "wait" /\ proc[victim] # "alive"
    /\ proc' = [proc EXCEPT ![victim] = IF @ = "zombie" THEN "reaped" ELSE @]
    /\ yielded' = Append(yielded, [job |-> victim, timedOut |-> TRUE])
    /\ scan' = Tail(scan) /\ pc' = "consume" /\ victim' = 0
    /\ UNCHANGED <<overdue, pending, running, kept, killed>>

EndPass ==
    /\ pc = "poll" /\ scan = <<>>
    /\ running' = kept /\ pc' = "fill"
    /\ UNCHANGED <<proc, overdue, pending, scan, kept, victim, yielded, killed>>

\* The consumer asks for the next record.
Resume ==
    /\ pc = "consume"
    /\ pc' = "poll"
    /\ UNCHANGED <<proc, overdue, pending, running, scan, kept, victim, yielded,
                   killed>>

\* The consumer raises, is interrupted, or has what it wanted: the generator is
\* closed, its scratch directory removed, and nothing else is done.
Abandon ==
    /\ pc = "consume"
    /\ pc' = "abandoned"
    /\ UNCHANGED <<proc, overdue, pending, running, scan, kept, victim, yielded,
                   killed>>

Consumer == Resume \/ Abandon

Generator == Fill \/ BeginPass \/ Poll \/ KillGroup \/ Wait \/ EndPass

Next ==
    \/ Generator \/ Consumer
    \/ \E j \in Jobs : ChildEnds(j) \/ Elapse(j) \/ Reuse(j)

\* The generator and its consumer run, and time passes; a child need not end.
Fairness ==
    /\ WF_vars(Generator) /\ WF_vars(Consumer)
    /\ \A j \in Jobs : WF_vars(Elapse(j))

Spec == Init /\ [][Next]_vars /\ Fairness
-----------------------------------------------------------------------------
\* Types: the queues hold jobs, and a process is in a state the system knows.
TypeOK ==
    /\ proc \in [Jobs -> {"none", "alive", "zombie", "reaped", "reused"}]
    /\ overdue \subseteq Jobs
    /\ pending \in Seq(Jobs) /\ running \in Seq(Jobs) /\ scan \in Seq(Jobs)
    /\ kept \in Seq(Jobs) /\ victim \in Jobs \cup {0}
    /\ yielded \in Seq([job : Jobs, timedOut : BOOLEAN])
    /\ pc \in {"fill", "poll", "kill", "wait", "consume", "closed", "abandoned"}
    /\ killed \subseteq {j : j \in Jobs} \cup {- j : j \in Jobs}

Children == {j \in Jobs : proc[j] \in {"alive", "zombie"}}

\* Never more than Parallel children at once, those that ended and wait to be
\* polled included, also while the consumer holds the generator suspended.
BoundedConcurrency == Cardinality(Children) <= Parallel

\* No job yields two records: none is polled again after its record.
YieldedOnce ==
    \A a, b \in 1 .. Len(yielded) : yielded[a].job = yielded[b].job => a = b

\* "The child is not yet reaped, so its process group still exists and cannot
\* have been reused": SIGKILL never reaches a process the runner did not start,
\* though the child may end between poll() and killpg().
KillsOnlyChildren == killed \subseteq Jobs

\* A record says timeout exactly when that child's group was killed.
TimeoutMeansKilled ==
    \A a \in 1 .. Len(yielded) :
        yielded[a].timedOut <=> yielded[a].job \in killed

\* No child is lost: until the generator closes, a started job is watched or
\* has been yielded.
NoChildForgotten ==
    pc \notin {"closed", "abandoned"} =>
        \A j \in Children :
            \/ j \in Range(scan) \cup Range(kept)
            \/ pc = "fill" /\ j \in Range(running)

\* The children, the processes killed and the records agree, at every moment.
PoolSound ==
    /\ TypeOK /\ BoundedConcurrency /\ YieldedOnce /\ KillsOnlyChildren
    /\ TimeoutMeansKilled /\ NoChildForgotten

\* Every job yields a record, even if no child ever ends by itself, unless the
\* consumer gives up.
EveryJobFinishes ==
    <>(pc = "abandoned" \/ \A j \in Jobs : \E a \in DOMAIN yielded : yielded[a].job = j)
=============================================================================
