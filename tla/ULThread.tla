------------------------------ MODULE ULThread ------------------------------
(***************************************************************************)
(* The user-level threading library of assignment 3 (user/ulthread.c).     *)
(*                                                                         *)
(* Threads are cooperative: a thread runs until it calls ulthread_yield or *)
(* ulthread_destroy, which switch back to the loop of ulthread_schedule in *)
(* the main thread.  Every call is one step; the only concurrent actor is  *)
(* the timer, which advances the clock that ctime() returns.  The library  *)
(* compares clock values and nothing else, so they are kept as ranks: a    *)
(* tick renumbers the times in use and stays above all of them.            *)
(***************************************************************************)
EXTENDS Integers, FiniteSets

CONSTANTS
    MAXULTHREADS,   \* ulthread.h: slots of the thread table
    Algos,          \* the scheduling algorithms to try
    Priorities,     \* the priorities that callers pass
    Rounds,         \* how often main creates threads and calls the scheduler
    ThreadsCreate   \* do threads call ulthread_create themselves?

ASSUME ULThreadConstants ==
    /\ MAXULTHREADS \in Nat \ {0}
    /\ Algos \subseteq {"FCFS", "ROUNDROBIN", "PRIORITY"}
    /\ Priorities \subseteq Nat
    /\ Rounds \in Nat
    /\ ThreadsCreate \in BOOLEAN

Slot == 1 .. MAXULTHREADS
None == 0                       \* a NULL pointer, and the main thread
Never == MAXULTHREADS + 2       \* (uint64)-1, the time of a free slot
JunkTid == -2                   \* NULL->tid: a word of code, nobody's id

VARIABLES
    tid, priority, state, time, \* main_thread.uthreads
    schedalgo,                  \* main_thread.schedalgo
    thread_count,               \* thread_count
    current_thread,             \* current_thread
    last_yielded_thread,        \* last_yielded_thread
    now,                        \* globtime, as a rank
    running,                    \* the thread on the processor, None for main
    pc, round,                  \* where main is, and how often it scheduled
    older, gone, yielded        \* history: the live slots that were created
                                \* before, those whose thread called destroy, and
                                \* those whose present thread has yielded

table == <<tid, priority, state, time>>
main == <<schedalgo, pc, round>>
vars == <<table, main, thread_count, current_thread, last_yielded_thread, now,
          running, older, gone, yielded>>

Runnable == {i \in Slot : state[i] = "RUNNABLE"}

TypeOK ==
    /\ tid \in [Slot -> -1 .. MAXULTHREADS]
    /\ priority \in [Slot -> Priorities \cup {-1}]
    /\ state \in [Slot -> {"FREE", "RUNNABLE"}]
    /\ time \in [Slot -> 0 .. Never]
    /\ schedalgo \in Algos
    /\ thread_count \in 1 .. MAXULTHREADS + 1
    /\ current_thread \in Slot \cup {None}
    /\ last_yielded_thread \in Slot \cup {None}
    /\ now \in 0 .. MAXULTHREADS
    /\ running \in Slot \cup {None}
    /\ pc \in {"main", "sched"} /\ round \in 0 .. Rounds
    /\ older \in [Slot -> SUBSET Slot]
    /\ gone \subseteq Slot /\ yielded \subseteq Slot

\* ulthread_init(schedalgo)
Init ==
    /\ tid = [i \in Slot |-> -1]
    /\ priority = [i \in Slot |-> -1]
    /\ state = [i \in Slot |-> "FREE"]
    /\ time = [i \in Slot |-> Never]
    /\ schedalgo \in Algos
    /\ thread_count = 1
    /\ current_thread = None /\ last_yielded_thread = None
    /\ now = 0
    /\ running = None /\ pc = "main" /\ round = 0
    /\ older = [i \in Slot |-> {}] /\ gone = {} /\ yielded = {}

-----------------------------------------------------------------------------
(* ulthread_create *)

\* The caller is main, between two calls of the scheduler, or a thread.
MayCreate ==
    \/ running = None /\ pc = "main" /\ round < Rounds
    \/ running # None /\ ThreadsCreate

\* The first free slot is taken.  A full table is left to the caller to avoid:
\* the code would go on with index -1.
ulthread_create(prio) ==
    \E i \in Slot :
        /\ MayCreate
        /\ state[i] = "FREE" /\ \A j \in 1 .. i - 1 : state[j] # "FREE"
        /\ tid' = [tid EXCEPT ![i] = thread_count]
        /\ priority' = [priority EXCEPT ![i] = prio]
        /\ state' = [state EXCEPT ![i] = "RUNNABLE"]
        /\ time' = [time EXCEPT ![i] = now]
        /\ thread_count' = thread_count + 1
        /\ older' = [older EXCEPT ![i] = Runnable]
        /\ gone' = gone \ {i} /\ yielded' = yielded \ {i}
        /\ UNCHANGED <<main, current_thread, last_yielded_thread, now, running>>

-----------------------------------------------------------------------------
(* ulthread_schedule *)

\* Mutant: ties are resolved for the newcomer.
mEarlierOrSame(c, i) ==
    IF i \in Runnable /\ time[i] <= time[c] THEN i ELSE c

\* The loop bodies: the candidate c after slot i has been looked at.
Earlier(c, i) ==
    IF i \in Runnable /\ time[i] < time[c] THEN i ELSE c

\* Mutant: the thread that has just yielded competes with the others.
mMoreUrgentAll(c, i) ==
    IF i \in Runnable /\ priority[i] >= priority[c] THEN i ELSE c

MoreUrgent(c, i) ==
    LET last == IF last_yielded_thread = None
                THEN JunkTid ELSE tid[last_yielded_thread]
    IN  IF /\ i \in Runnable
           /\ tid[i] # last
           /\ tid[c] = last \/ priority[i] >= priority[c]
        THEN i ELSE c

\* On the very first call there is no current thread: the first runnable one.
FirstCandidate ==
    IF current_thread = None
    THEN CHOOSE i \in Runnable : \A j \in Runnable : i <= j
    ELSE current_thread

Better(c, i) == IF schedalgo = "PRIORITY" THEN MoreUrgent(c, i) ELSE Earlier(c, i)

\* The candidate after i slots.
scan[i \in 0 .. MAXULTHREADS] ==
    IF i = 0 THEN FirstCandidate ELSE Better(scan[i - 1], i)

Pick == scan[MAXULTHREADS]

\* main calls the scheduler, or runs its loop once more.
ulthread_schedule ==
    /\ running = None
    /\ \/ pc = "main" /\ round < Rounds
       \/ pc = "sched"
    /\ thread_count > 1
    /\ current_thread' = Pick
    /\ running' = current_thread'
    /\ pc' = "sched"
    /\ UNCHANGED <<table, schedalgo, round, thread_count, last_yielded_thread,
                   now, older, gone, yielded>>

\* No thread is left: ulthread_schedule returns to main.
ScheduleReturns ==
    /\ running = None /\ pc = "sched"
    /\ thread_count <= 1
    /\ pc' = "main" /\ round' = round + 1
    /\ UNCHANGED <<table, schedalgo, thread_count, current_thread,
                   last_yielded_thread, now, running, older, gone, yielded>>

-----------------------------------------------------------------------------
(* ulthread_yield and ulthread_destroy, called by the running thread *)

\* Mutant: the time stamp is only taken at creation.
mStamp == time

Stamp ==
    IF schedalgo = "FCFS" THEN time ELSE [time EXCEPT ![current_thread] = now]

ulthread_yield ==
    /\ running # None
    /\ time' = Stamp
    /\ last_yielded_thread' = current_thread
    /\ running' = None
    /\ yielded' = yielded \cup {current_thread}
    /\ UNCHANGED <<tid, priority, state, main, thread_count, current_thread, now,
                   older, gone>>

CountAfterDestroy == thread_count - 1

\* Mutant: the loop stops at the first thread, whoever it is.
mVictims == {i \in Slot : tid[i] # -1}

\* The slots whose tid is the caller's; the loop stops at the first one.
Victims == {i \in Slot : tid[i] = tid[current_thread]}

ulthread_destroy ==
    /\ running # None
    /\ last_yielded_thread' = current_thread
    /\ LET i == CHOOSE i \in Victims : \A j \in Victims : i <= j
       IN  /\ tid' = [tid EXCEPT ![i] = -1]
           /\ priority' = [priority EXCEPT ![i] = -1]
           /\ state' = [state EXCEPT ![i] = "FREE"]
           /\ time' = [time EXCEPT ![i] = Never]
           /\ older' = [j \in Slot |-> older[j] \ {i}]
           /\ yielded' = yielded \ {i}
    /\ thread_count' = CountAfterDestroy
    /\ running' = None
    /\ gone' = gone \cup {current_thread}
    /\ UNCHANGED <<main, current_thread, now>>

\* The timer interrupt: later than every time stamp in the table.
Tick ==
    LET used == {time[i] : i \in Runnable}
        rank(t) == Cardinality({u \in used : u < t})
    IN  /\ now' = Cardinality(used)
        /\ time' = [i \in Slot |-> IF i \in Runnable THEN rank(time[i]) ELSE Never]
        /\ UNCHANGED <<tid, priority, state, main, thread_count, current_thread,
                       last_yielded_thread, running, older, gone, yielded>>

-----------------------------------------------------------------------------
Next ==
    \/ \E prio \in Priorities : ulthread_create(prio)
    \/ ulthread_schedule \/ ScheduleReturns
    \/ ulthread_yield \/ ulthread_destroy
    \/ Tick

Spec == Init /\ [][Next]_vars

\* The scheduler loop runs, the timer ticks, and every thread gets to a yield
\* or to its end, as the library asks of cooperative threads.
Fairness ==
    /\ WF_vars(ulthread_schedule)
    /\ WF_vars(Tick)
    /\ WF_vars(ulthread_yield \/ ulthread_destroy)

FairSpec == Spec /\ Fairness

-----------------------------------------------------------------------------
(* Properties *)

\* The scheduler never switches to a thread that has called ulthread_destroy,
\* nor to a slot that is free, and thread_count, the condition of its loop and
\* the next tid, counts the runnable threads and main.
NeverRunsDestroyed ==
    /\ TypeOK
    /\ thread_count = 1 + Cardinality(Runnable)
    /\ running # None => running \notin gone /\ running \in Runnable

\* FCFS and round robin switch to a thread with the oldest time stamp; PRIORITY
\* to a most urgent thread other than the one that yielded last, which only runs
\* again when there is no other.  The first switch of a later ulthread_schedule
\* under PRIORITY is left out: there last_yielded_thread still points to the slot
\* of the thread that ended the batch before, and a new thread in that slot is
\* passed over although it has not yielded (ulthread.c, lines 128 and 133).
FollowsAlgorithm ==
    [][running = None /\ running' # None =>
          LET others == Runnable \ ({last_yielded_thread} \cap yielded)
          IN  \/ /\ schedalgo # "PRIORITY"
                 /\ \A i \in Runnable : time[running'] <= time[i]
              \/ /\ schedalgo = "PRIORITY"
                 /\ running' \in others
                 /\ \A i \in others : priority[i] <= priority[running']
              \/ schedalgo = "PRIORITY" /\ others = {}
              \/ schedalgo = "PRIORITY" /\ pc = "main" /\ round > 0]_vars

\* FCFS is "first-come-first serve" (ulthread.h, line 17): the thread that was
\* created first runs until it is destroyed, also among threads created in the
\* same clock tick.  This is so for the threads of the first ulthread_schedule;
\* later the stale current_thread wins a tie.
FirstComeFirstServed ==
    [][/\ running = None /\ running' # None
       /\ schedalgo = "FCFS" /\ round = 0
       => older[running'] = {}]_vars

\* Round robin starves nobody: whoever is runnable gets the processor.
EveryoneRuns ==
    \A i \in Slot :
        state[i] = "RUNNABLE" /\ schedalgo = "ROUNDROBIN" ~> running = i
=============================================================================
