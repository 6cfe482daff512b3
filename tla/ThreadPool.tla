------------------------------ MODULE ThreadPool ------------------------------
(***************************************************************************)
(* env::ThreadPool<ModThread> (envfs.h, directoryrefresher.cpp): the       *)
(* threads that scan the mods of a refresh.  The caller takes an idle      *)
(* thread with request(), which wakes it up before its job is known; the   *)
(* thread then waits, inside the job's own run(), for a second wakeup that *)
(* comes once the caller has written the job into it.  Nothing but these   *)
(* two handshakes keeps the caller from writing a job under a thread that  *)
(* runs one.  A new instance of the program resizes the pool, and the pool *)
(* is joined when the process ends.                                        *)
(***************************************************************************)
EXTENDS Integers

CONSTANTS
  MaxThreads,   \* the threads a pool may be given
  MaxJobs,      \* the jobs a round of scans may have
  MaxRounds     \* bound: rounds before the process ends

ASSUME PoolAssumption ==
  /\ MaxThreads \in Nat \ {0}
  /\ MaxJobs \in Nat
  /\ MaxRounds \in Nat

Threads == 1..MaxThreads

Jobs == 1..MaxJobs

NoJob == 0

VARIABLES
  \* the caller
  caller,    \* where it is
  size,      \* m_threads.size()
  target,    \* the size the pool is being given
  at,        \* the thread its loop has come to
  job,       \* the job to hand out next
  jobs,      \* the number of jobs of the round
  round,     \* rounds begun
  \* each thread of the pool
  state,     \* where it is
  busy,      \* ThreadInfo::busy
  ready,     \* ThreadInfo::ready
  stop,      \* ThreadInfo::stop
  jobReady,  \* ModThread::ready
  payload,   \* the job written into its ModThread
  \* history
  runs       \* how often each job of the round was run

callerVars == <<caller, size, target, at, job, jobs, round>>
threadVars == <<state, busy, ready, stop, jobReady, payload>>
vars       == <<callerVars, threadVars, runs>>

\* The thread holds ThreadInfo::mutex: run() keeps the lock it waited with.
HoldsLock(t) ==
  state[t] \in {"woken", "waiting", "running", "reset", "unready", "free", "unlock"}

\* The thread holds ModThread::mutex.
HoldsJobLock(t) == state[t] \in {"running", "reset"}

Init ==
  /\ caller = "idle"
  /\ size = 1
  /\ target = 1
  /\ at = 1
  /\ job = 1
  /\ jobs = 0
  /\ round = 0
  /\ state = [t \in Threads |-> IF t = 1 THEN "new" ELSE "none"]
  /\ busy = [t \in Threads |-> TRUE]
  /\ ready = [t \in Threads |-> FALSE]
  /\ stop = [t \in Threads |-> FALSE]
  /\ jobReady = [t \in Threads |-> FALSE]
  /\ payload = [t \in Threads |-> NoJob]
  /\ runs = [j \in Jobs |-> 0]

-----------------------------------------------------------------------------
(* A thread of the pool: ThreadInfo::run and, inside it, ModThread::run *)

Advance(t, from, to) ==
  /\ state[t] = from
  /\ state' = [state EXCEPT ![t] = to]

Started(t) ==
  /\ Advance(t, "new", "loop")
  /\ busy' = [busy EXCEPT ![t] = FALSE]
  /\ UNCHANGED <<callerVars, ready, stop, jobReady, payload, runs>>

\* The condition of the loop, before the mutex is taken.
Loop(t) ==
  /\ Advance(t, "loop", IF stop[t] THEN "gone" ELSE "asleep")
  /\ UNCHANGED <<callerVars, busy, ready, stop, jobReady, payload, runs>>

WakeUp(t) ==
  /\ ready[t]
  /\ Advance(t, "asleep", "woken")
  /\ UNCHANGED <<callerVars, busy, ready, stop, jobReady, payload, runs>>

CheckStop(t) ==
  /\ Advance(t, "woken", IF stop[t] THEN "gone" ELSE "waiting")
  /\ UNCHANGED <<callerVars, busy, ready, stop, jobReady, payload, runs>>

ReceiveJob(t) ==
  /\ jobReady[t]
  /\ Advance(t, "waiting", "running")
  /\ UNCHANGED <<callerVars, busy, ready, stop, jobReady, payload, runs>>

Run(t) ==
  /\ Advance(t, "running", "reset")
  /\ runs' = [j \in Jobs |-> IF j = payload[t] THEN runs[j] + 1 ELSE runs[j]]
  /\ UNCHANGED <<callerVars, busy, ready, stop, jobReady, payload>>

\* Mutant: the job stays marked as ready.
KeepJob(t) ==
  /\ Advance(t, "reset", "unready")
  /\ UNCHANGED <<callerVars, busy, ready, stop, jobReady, payload, runs>>

ResetJob(t) ==
  /\ Advance(t, "reset", "unready")
  /\ jobReady' = [jobReady EXCEPT ![t] = FALSE]
  /\ UNCHANGED <<callerVars, busy, ready, stop, payload, runs>>

ResetReady(t) ==
  /\ Advance(t, "unready", "free")
  /\ ready' = [ready EXCEPT ![t] = FALSE]
  /\ UNCHANGED <<callerVars, busy, stop, jobReady, payload, runs>>

\* Mutant: the thread is never marked as free.
FreeNever(t) ==
  /\ Advance(t, "free", "unlock")
  /\ UNCHANGED <<callerVars, busy, ready, stop, jobReady, payload, runs>>

Free(t) ==
  /\ Advance(t, "free", "unlock")
  /\ busy' = [busy EXCEPT ![t] = FALSE]
  /\ UNCHANGED <<callerVars, ready, stop, jobReady, payload, runs>>

Unlock(t) ==
  /\ Advance(t, "unlock", "loop")
  /\ UNCHANGED <<callerVars, busy, ready, stop, jobReady, payload, runs>>

Thread(t) ==
  \/ Started(t)
  \/ Loop(t)
  \/ WakeUp(t)
  \/ CheckStop(t)
  \/ ReceiveJob(t)
  \/ Run(t)
  \/ ResetJob(t)
  \/ ResetReady(t)
  \/ Free(t)
  \/ Unlock(t)

-----------------------------------------------------------------------------
(* The caller: addMultipleModsFilesToStructure and the pool's own functions *)

\* A refresh begins: setMax(n) for k mods.  Threads beyond n are destroyed one
\* after the other, threads up to n are made.
Begin(n, k) ==
  /\ caller = "idle"
  /\ round < MaxRounds
  /\ round' = round + 1
  /\ jobs' = k
  /\ job' = 1
  /\ runs' = [j \in Jobs |-> 0]
  /\ target' = n
  /\ caller' = IF n < size THEN "stop" ELSE IF k = 0 THEN "wait" ELSE "request"
  /\ at' = IF n < size THEN n + 1 ELSE 1
  /\ size' = IF n < size THEN size ELSE n
  /\ state' = [t \in Threads |-> IF t \in (size + 1)..n THEN "new" ELSE state[t]]
  /\ busy' = [t \in Threads |-> IF t \in (size + 1)..n THEN TRUE ELSE busy[t]]
  /\ ready' = [t \in Threads |-> IF t \in (size + 1)..n THEN FALSE ELSE ready[t]]
  /\ stop' = [t \in Threads |-> IF t \in (size + 1)..n THEN FALSE ELSE stop[t]]
  /\ jobReady' = [t \in Threads |-> IF t \in (size + 1)..n THEN FALSE ELSE jobReady[t]]
  /\ payload' = [t \in Threads |-> IF t \in (size + 1)..n THEN NoJob ELSE payload[t]]

\* setMax destroys the threads past the new size one after the other: ~ThreadInfo
\* stops, wakes and joins each.  ~ThreadPool stops and wakes all, then joins all.
Ending == target = 0

Stop ==
  /\ caller = "stop"
  /\ stop' = [stop EXCEPT ![at] = TRUE]
  /\ caller' = "rouse"
  /\ UNCHANGED <<size, target, at, job, jobs, round, state, busy, ready, jobReady, payload, runs>>

Rouse ==
  /\ caller = "rouse"
  /\ ~HoldsLock(at)
  /\ ready' = [ready EXCEPT ![at] = TRUE]
  /\ caller' = IF Ending /\ at < size THEN "stop" ELSE "join"
  /\ at' = IF ~Ending THEN at ELSE IF at < size THEN at + 1 ELSE 1
  /\ UNCHANGED <<size, target, job, jobs, round, state, busy, stop, jobReady, payload, runs>>

Join ==
  /\ caller = "join"
  /\ state[at] = "gone"
  /\ state' = [state EXCEPT ![at] = "none"]
  /\ IF at < size
     THEN caller' = (IF Ending THEN "join" ELSE "stop") /\ at' = at + 1 /\ size' = size
     ELSE caller' = (IF Ending THEN "ended" ELSE IF jobs = 0 THEN "wait" ELSE "request")
          /\ at' = 1 /\ size' = target
  /\ UNCHANGED <<target, job, jobs, round, busy, ready, stop, jobReady, payload, runs>>

\* Mutant: the search does not start over.
TurnPastEnd == at + 1

Turn == IF at = size THEN 1 ELSE at + 1

\* Mutant: a thread is taken whether or not it is busy.
RequestAny ==
  /\ caller = "request"
  /\ busy' = [busy EXCEPT ![at] = TRUE]
  /\ caller' = "signal"
  /\ UNCHANGED <<size, target, at, job, jobs, round, state, ready, stop, jobReady, payload, runs>>

\* request(): compare_exchange on the flag of one thread after the other.
Request ==
  /\ caller = "request"
  /\ IF busy[at]
     THEN at' = Turn /\ UNCHANGED <<caller, busy>>
     ELSE busy' = [busy EXCEPT ![at] = TRUE] /\ caller' = "signal" /\ at' = at
  /\ UNCHANGED <<size, target, job, jobs, round, state, ready, stop, jobReady, payload, runs>>

\* request() wakes the thread before it returns its job.
Signal ==
  /\ caller = "signal"
  /\ ~HoldsLock(at)
  /\ ready' = [ready EXCEPT ![at] = TRUE]
  /\ caller' = "assign"
  /\ UNCHANGED <<size, target, at, job, jobs, round, state, busy, stop, jobReady, payload, runs>>

\* The caller writes the fields of the ModThread; no lock is held.
Assign ==
  /\ caller = "assign"
  /\ payload' = [payload EXCEPT ![at] = job]
  /\ caller' = "wake"
  /\ UNCHANGED <<size, target, at, job, jobs, round, state, busy, ready, stop, jobReady, runs>>

\* ModThread::wakeup.
WakeJob ==
  /\ caller = "wake"
  /\ ~HoldsJobLock(at)
  /\ jobReady' = [jobReady EXCEPT ![at] = TRUE]
  /\ job' = job + 1
  /\ caller' = IF job = jobs THEN "wait" ELSE "request"
  /\ at' = 1
  /\ UNCHANGED <<size, target, jobs, round, state, busy, ready, stop, payload, runs>>

\* Mutant: the loop of waitForAll leaves out the last thread.
WaitForMost ==
  /\ caller = "wait"
  /\ IF at = size THEN caller' = "idle" /\ at' = 1
     ELSE at' = (IF busy[at] THEN 1 ELSE at + 1) /\ caller' = caller
  /\ UNCHANGED <<size, target, job, jobs, round, threadVars, runs>>

\* waitForAll reads one flag after the other and starts over at a busy one.
Wait ==
  /\ caller = "wait"
  /\ IF busy[at] THEN at' = 1 /\ caller' = caller
     ELSE IF at = size THEN caller' = "idle" /\ at' = 1
     ELSE at' = at + 1 /\ caller' = caller
  /\ UNCHANGED <<size, target, job, jobs, round, threadVars, runs>>

\* The process ends: ~ThreadPool.
Quit ==
  /\ caller = "idle"
  /\ target' = 0
  /\ at' = 1
  /\ caller' = "stop"
  /\ UNCHANGED <<size, job, jobs, round, threadVars, runs>>

Caller ==
  \/ Stop
  \/ Rouse
  \/ Join
  \/ Request
  \/ Signal
  \/ Assign
  \/ WakeJob
  \/ Wait

Next ==
  \/ \E n \in Threads, k \in 0..MaxJobs : Begin(n, k)
  \/ Quit
  \/ Caller
  \/ \E t \in Threads : Thread(t)

Spec == Init /\ [][Next]_vars

\* The scheduler runs every thread; when a refresh begins or the process ends is
\* up to the rest of the program.
FairSpec == Spec /\ WF_vars(Caller) /\ \A t \in Threads : WF_vars(Thread(t))

-----------------------------------------------------------------------------
(* Properties *)

CallerStates ==
  {"idle", "stop", "rouse", "join", "request", "signal", "assign", "wake", "wait", "ended"}

ThreadStates ==
  {"none", "new", "loop", "asleep", "woken", "waiting", "running", "reset", "unready", "free",
   "unlock", "gone"}

TypeOK ==
  /\ caller \in CallerStates
  /\ size \in 0..MaxThreads
  /\ target \in 0..MaxThreads
  /\ at \in Threads
  /\ job \in Nat \ {0}
  /\ jobs \in 0..MaxJobs
  /\ round \in 0..MaxRounds
  /\ state \in [Threads -> ThreadStates]
  /\ busy \in [Threads -> BOOLEAN]
  /\ ready \in [Threads -> BOOLEAN]
  /\ stop \in [Threads -> BOOLEAN]
  /\ jobReady \in [Threads -> BOOLEAN]
  /\ payload \in [Threads -> Jobs \cup {NoJob}]
  /\ runs \in [Jobs -> Nat]

\* The caller never writes a job into a thread that is running one, although it
\* wakes the thread first: the fields of ModThread are written without its lock.
JobNotSharedWhileWritten == caller \in {"assign", "wake"} => ~HoldsJobLock(at)

\* When waitForAll has returned, each job of the round has been run exactly once
\* and no thread will still read the statistics or the structure it was given.
RoundIsComplete ==
  caller = "idle" =>
    /\ \A j \in 1..jobs : round > 0 => runs[j] = 1
    /\ \A t \in 1..size : state[t] \notin {"waiting", "running", "reset"}

\* No job is run twice, also while others are still handed out.
NoJobTwice == \A j \in Jobs : runs[j] <= 1

\* Every call of the pool returns: request() finds a thread, waitForAll sees all
\* of them idle and the join of a thread ends.
CallsReturn == caller \notin {"idle", "ended"} ~> caller \in {"idle", "ended"}
=============================================================================
