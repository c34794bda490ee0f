----------------------------- MODULE MCScheduler -----------------------------
(* Sets of schedules for the runs of Scheduler. *)
EXTENDS Scheduler, TLC

Interval(g) == [kind |-> "interval", gap |-> g, at |-> 0]

Daily(g, t) == [kind |-> "wallclock", gap |-> g, at |-> t]

\* An hourly schedule and two daily ones at different times of day.
Mixed == {Interval(3), Daily(4, 0), Daily(4, 2)}

\* Schedules to move between: a longer and a shorter one.
Edits == {Interval(1), Daily(2, 1)}

\* Nothing tells one dataset from another.
AnyOrder == Permutations(Datasets)

\* What the steps depend on: no step reads what a schedule last failed with, but to
\* write it again.
WithoutErrors ==
    <<timeVars, [d \in DOMAIN sched |-> <<sched[d].spec, sched[d].wait>>], sweep, runVars,
      [h \in Editors |-> IF edit[h] = None THEN None
                         ELSE [edit[h] EXCEPT !.error = FALSE]], since>>

=============================================================================
