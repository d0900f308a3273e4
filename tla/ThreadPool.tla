----------------------------- MODULE ThreadPool -----------------------------
(***************************************************************************)
(* InstrumentedThreadPoolExecutor: a pool of the JDK over a bounded queue  *)
(* (ExecutorServices makes three that the whole process shares), whose     *)
(* sizes are changed while it runs.  A task is a number; which task each   *)
(* worker runs is known to the module that uses the pool.  The queue's own *)
(* races are in ResizableQueue: here an offer is one step.                 *)
(***************************************************************************)
EXTENDS Integers, Sequences

CONSTANTS CoreSize, MaxSize,     \* the sizes the pool is made with
          Capacities,    \* the capacities of its queue
          Desired        \* the sizes it may be asked to take

ASSUME PoolAssumption ==
    /\ CoreSize \in Nat \ {0} /\ MaxSize \in Nat /\ CoreSize <= MaxSize
    /\ Capacities \subseteq Nat \ {0} /\ Capacities # {}
    /\ Desired \subseteq Nat

VARIABLES core, max, capacity, \* the sizes as they are now
          workers,   \* the threads there are
          busy,      \* those that run a task
          queue      \* the tasks that wait

pool == <<core, max, capacity, workers, busy, queue>>
sizes == <<core, max, capacity>>

(* The core threads are started with the pool. *)
PoolInit ==
    /\ core = CoreSize /\ max = MaxSize
    /\ capacity \in Capacities
    /\ workers = CoreSize /\ busy = 0
    /\ queue = <<>>

(* A new worker, up to core; the queue; a new worker, up to max; or a      *)
(* RejectedExecutionException.                                             *)
StartsNow == workers < core \/ (Len(queue) >= capacity /\ workers < max)
Rejects   == ~StartsNow /\ Len(queue) >= capacity

Execute(task) ==
    /\ ~Rejects
    /\ IF StartsNow
       THEN workers' = workers + 1 /\ busy' = busy + 1 /\ UNCHANGED queue
       ELSE queue' = Append(queue, task) /\ UNCHANGED <<workers, busy>>
    /\ UNCHANGED sizes

Take ==
    /\ busy < workers /\ queue # <<>>
    /\ busy' = busy + 1
    /\ queue' = Tail(queue)
    /\ UNCHANGED <<workers, sizes>>

TaskEnds == busy' = busy - 1 /\ UNCHANGED <<workers, queue, sizes>>

(* An idle worker that is one too many. *)
Leave ==
    /\ busy < workers
    /\ workers > max \/ (workers > core /\ queue = <<>>)
    /\ workers' = workers - 1
    /\ UNCHANGED <<busy, queue, sizes>>

Smaller(a, b)  == IF a <= b THEN a ELSE b
Distance(a, b) == IF a <= b THEN b - a ELSE a - b

Towards(desired, now, step) == IF desired > now THEN now + step ELSE now - step

(* Mutant of adjustSize: a tenth is rounded down. *)
adjustSizeDown(desired, now) ==
    Towards(desired, now, Smaller(Distance(desired, now), now \div 10))

(* At most a tenth, rounded (half up), towards the desired size. *)
adjustSize(desired, now) ==
    Towards(desired, now, Smaller(Distance(desired, now), (now + 5) \div 10))

(* The JDK refuses a core above max with an exception, starts workers for  *)
(* what waits when core grows, and lets idle ones go when it shrinks.      *)
resetCoreSize(desired) ==
    LET new == adjustSize(desired, core)
    IN  /\ new <= max
        /\ core' = new
        /\ workers' = IF workers >= new \/ new <= core THEN workers
                      ELSE workers + Smaller(new - workers, Smaller(new - core, Len(queue)))
        /\ UNCHANGED <<max, capacity, busy, queue>>

(* Mutant of resetMaximumPoolSize: max is let fall below core. *)
resetMaximumPoolSizeAnyway(desired) ==
    /\ max' = adjustSize(desired, max)
    /\ UNCHANGED <<core, capacity, workers, busy, queue>>

resetMaximumPoolSize(desired) ==
    /\ adjustSize(desired, max) >= core
    /\ max' = adjustSize(desired, max)
    /\ UNCHANGED <<core, capacity, workers, busy, queue>>

resetQueueSize(c) == capacity' = c /\ UNCHANGED <<core, max, workers, busy, queue>>

Resize ==
    \/ \E d \in Desired : resetCoreSize(d) \/ resetMaximumPoolSize(d)
    \/ \E c \in Capacities : resetQueueSize(c)

PoolTypeOK ==
    /\ core \in Nat /\ max \in Nat /\ core <= max
    /\ capacity \in Capacities
    /\ workers \in Nat /\ busy \in 0..workers
    /\ queue \in Seq(Nat)
-----------------------------------------------------------------------------
(* 64 resets in a row. *)
Resets2(desired, now)  == adjustSize(desired, adjustSize(desired, now))
Resets4(desired, now)  == Resets2(desired, Resets2(desired, now))
Resets8(desired, now)  == Resets4(desired, Resets4(desired, now))
Resets16(desired, now) == Resets8(desired, Resets8(desired, now))
Resets32(desired, now) == Resets16(desired, Resets16(desired, now))
Resets64(desired, now) == Resets32(desired, Resets32(desired, now))

Sampled == 0..40

Arrives(now, desired) ==
    Resets64(desired, now) = IF now <= 4 THEN now ELSE IF desired < 4 THEN 4 ELSE desired
NotBeyond(now, desired) ==
    adjustSize(desired, now) \in (now..desired) \cup (desired..now)

Reached == [now \in Sampled |->
    \A desired \in Sampled : Arrives(now, desired) /\ NotBeyond(now, desired)]
AnyReached == \A now \in Sampled : Reached[now]

(* Reset after reset, a pool of five threads or more comes to any size of  *)
(* four or more that is asked for, and never beyond it; one of four or     *)
(* less cannot be changed at all (a tenth of four is rounded to none), nor *)
(* can a larger one be brought below four.  This is so of every sampled    *)
(* size, and the sizes that this pool ever has are among them.             *)
AdjustSizeReaches == AnyReached /\ {core, max} \subseteq Sampled
=============================================================================
