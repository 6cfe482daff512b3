--------------------------- MODULE ThreadPoolProofs ---------------------------
(***************************************************************************)
(* The handshakes of ThreadPool for any number of threads, jobs and        *)
(* rounds: no job is written under a thread that runs one, none is run     *)
(* twice, and a call of waitForAll returns only when all have been run.    *)
(***************************************************************************)
EXTENDS ThreadPool, TLAPS

-----------------------------------------------------------------------------
(* What a thread is about, as far as the caller can rely on it *)

New(t) == state[t] = "new" /\ busy[t] /\ ~ready[t] /\ ~jobReady[t]

\* No job, and none announced.
Idling(t) == state[t] \in {"unlock", "loop", "asleep"} /\ ~ready[t] /\ ~jobReady[t]

\* Woken by request(), without a job yet.
Summoned(t) ==
  state[t] \in {"loop", "asleep", "woken", "waiting"} /\ busy[t] /\ ready[t] /\ ~jobReady[t]

\* With a job that has not been run.
Pending(t) ==
  state[t] \in {"loop", "asleep", "woken", "waiting", "running"}
    /\ busy[t] /\ ready[t] /\ jobReady[t]

\* With a job that has been run.
Winding(t) ==
  /\ busy[t]
  /\ \/ state[t] = "reset" /\ ready[t] /\ jobReady[t]
     \/ state[t] = "unready" /\ ready[t] /\ ~jobReady[t]
     \/ state[t] = "free" /\ ~ready[t] /\ ~jobReady[t]

Held(t) == caller \in {"signal", "assign", "wake"} /\ at = t

Closing == caller \in {"stop", "rouse", "join"}

\* The two handshakes.
Handshake ==
  \A t \in 1..size :
    ~stop[t] =>
      IF Held(t)
      THEN busy[t] /\ IF caller = "signal" THEN Idling(t) ELSE Summoned(t)
      ELSE (Idling(t) /\ ~busy[t]) \/ New(t) \/ Pending(t) \/ Winding(t)

\* A thread that is told to stop has no job and gets none.
StoppedThreads ==
  \A t \in Threads :
    /\ t \notin 1..size => state[t] = "none"
    /\ stop[t] => /\ state[t] \in {"none", "new", "unlock", "loop", "asleep", "woken", "gone"}
                  /\ ~jobReady[t]

CallerPlace ==
  /\ caller # "ended" => at \in 1..size
  /\ caller \in {"request", "signal", "assign", "wake"} => job \in 1..jobs
  /\ caller \in {"wait", "idle"} => job = jobs + 1
  /\ Closing /\ ~Ending => job = 1 /\ target \in 1..(at - 1)
  /\ job <= jobs + 1

\* Which threads are stopped, joined or free of work at which place of the caller.
CallerKnows ==
  /\ ~Closing /\ caller # "ended" => \A t \in 1..size : ~stop[t]
  /\ Closing \/ caller = "idle" =>
       \A t \in 1..size : ~stop[t] => ~busy[t] \/ state[t] = "new"
  /\ Closing /\ ~Ending => /\ \A t \in 1..target : ~stop[t]
                           /\ \A t \in (target + 1)..(at - 1) : state[t] = "none"
  /\ caller = "join" /\ Ending => \A t \in 1..(at - 1) : state[t] = "none"
  /\ caller = "rouse" => stop[at]
  /\ caller = "wait" => \A t \in 1..(at - 1) : ~busy[t]

\* Each job handed out has been run once or is with exactly one thread.
JobsAccounted ==
  /\ \A j \in Jobs : runs[j] <= 1 /\ (j >= job => runs[j] = 0)
  /\ \A t \in Threads : Pending(t) => payload[t] \in 1..(job - 1) /\ runs[payload[t]] = 0
  /\ \A t, u \in Threads : Pending(t) /\ Pending(u) /\ t # u => payload[t] # payload[u]
  /\ \A j \in 1..(job - 1) : runs[j] = 1 \/ \E t \in Threads : Pending(t) /\ payload[t] = j
  /\ caller = "wake" => payload[at] = job

PoolInvariant ==
  /\ TypeOK
  /\ Handshake
  /\ StoppedThreads
  /\ CallerPlace
  /\ CallerKnows
  /\ JobsAccounted

\* The pool starts with one new thread and no job.
LEMMA PoolInit == Init => PoolInvariant
BY PoolAssumption
   DEF Init, PoolInvariant, TypeOK, Handshake, StoppedThreads, CallerPlace, CallerKnows,
       JobsAccounted, New, Idling, Summoned, Pending, Winding, Held, Closing, Ending, Threads,
       Jobs, NoJob, CallerStates, ThreadStates

\* The numbers the caller keeps are positions of threads and of jobs.
LEMMA Bounds ==
  ASSUME PoolInvariant
  PROVE  /\ MaxThreads \in Nat /\ MaxJobs \in Nat
         /\ size \in Nat /\ target \in Nat /\ at \in Nat /\ job \in Nat /\ jobs \in Nat
         /\ size <= MaxThreads /\ target <= MaxThreads /\ at <= MaxThreads
         /\ jobs <= MaxJobs
         /\ 1..size \subseteq Threads
         /\ 1..target \subseteq Threads
         /\ 1..(at - 1) \subseteq Threads
         /\ (target + 1)..(at - 1) \subseteq Threads
         /\ 1..jobs \subseteq Jobs
         /\ 1..(job - 1) \subseteq Jobs
<1>1. /\ MaxThreads \in Nat /\ MaxJobs \in Nat
      /\ size \in 0..MaxThreads /\ target \in 0..MaxThreads /\ at \in 1..MaxThreads
      /\ job \in Nat \ {0} /\ jobs \in 0..MaxJobs /\ job <= jobs + 1
  BY PoolAssumption DEF PoolInvariant, TypeOK, CallerPlace, Threads
<1>2. QED
  BY <1>1 DEF Threads, Jobs

-----------------------------------------------------------------------------
(* The threads *)

\* A step of a thread, in terms of its own variables: those of the caller and of
\* the other threads stay as they are.
LEMMA ThreadFrame ==
  ASSUME PoolInvariant, NEW t \in Threads, Thread(t)
  PROVE  /\ UNCHANGED <<callerVars, stop, payload>>
         /\ \A u \in Threads \ {t} : /\ state'[u] = state[u] /\ busy'[u] = busy[u]
                                     /\ ready'[u] = ready[u] /\ jobReady'[u] = jobReady[u]
         /\ TypeOK'
         /\ t \in 1..size
<1>1. /\ state \in [Threads -> ThreadStates] /\ busy \in [Threads -> BOOLEAN]
      /\ ready \in [Threads -> BOOLEAN] /\ jobReady \in [Threads -> BOOLEAN]
      /\ runs \in [Jobs -> Nat]
  BY DEF PoolInvariant, TypeOK
<1>2. UNCHANGED <<callerVars, stop, payload>>
  BY DEF Thread, Started, Loop, WakeUp, CheckStop, ReceiveJob, Run, ResetJob, ResetReady, Free,
         Unlock
<1>3. /\ state' \in [Threads -> ThreadStates] /\ busy' \in [Threads -> BOOLEAN]
      /\ ready' \in [Threads -> BOOLEAN] /\ jobReady' \in [Threads -> BOOLEAN]
      /\ \A u \in Threads \ {t} : /\ state'[u] = state[u] /\ busy'[u] = busy[u]
                                  /\ ready'[u] = ready[u] /\ jobReady'[u] = jobReady[u]
  BY <1>1 DEF Thread, Started, Loop, WakeUp, CheckStop, ReceiveJob, Run, ResetJob, ResetReady,
              Free, Unlock, Advance, ThreadStates
<1>4. runs' \in [Jobs -> Nat]
  BY <1>1 DEF Thread, Started, Loop, WakeUp, CheckStop, ReceiveJob, Run, ResetJob, ResetReady,
              Free, Unlock
<1>5. state[t] # "none"
  BY DEF Thread, Started, Loop, WakeUp, CheckStop, ReceiveJob, Run, ResetJob, ResetReady,
         Free, Unlock, Advance
<1>6. QED
  BY <1>2, <1>3, <1>4, <1>5 DEF PoolInvariant, TypeOK, StoppedThreads, callerVars

\* What one thread's step does to that thread: it goes on in its handshake.
LEMMA ThreadMoves ==
  ASSUME PoolInvariant, NEW t \in Threads, Thread(t), ~Run(t)
  PROVE  /\ runs' = runs
         /\ Pending(t)' <=> Pending(t)
         /\ stop[t] => /\ state'[t] \in {"loop", "asleep", "woken", "gone"}
                       /\ ~jobReady'[t]
         /\ ~stop[t] /\ Held(t) => /\ Idling(t) => Idling(t)'
                                   /\ Summoned(t) => Summoned(t)'
                                   /\ busy'[t]
         /\ ~stop[t] /\ ~Held(t) =>
              (Idling(t)' /\ ~busy'[t]) \/ New(t)' \/ Pending(t)' \/ Winding(t)'
         /\ ~stop[t] /\ (~busy[t] \/ state[t] = "new") => ~busy'[t]
<1>1. /\ state \in [Threads -> ThreadStates] /\ busy \in [Threads -> BOOLEAN]
      /\ ready \in [Threads -> BOOLEAN] /\ jobReady \in [Threads -> BOOLEAN]
      /\ stop \in [Threads -> BOOLEAN]
  BY DEF PoolInvariant, TypeOK
<1>2. /\ t \in 1..size /\ UNCHANGED <<callerVars, stop, payload>>
  BY ThreadFrame
<1>3. /\ stop[t] => /\ state[t] \in {"none", "new", "unlock", "loop", "asleep", "woken", "gone"}
                    /\ ~jobReady[t]
      /\ ~stop[t] =>
           IF Held(t)
           THEN busy[t] /\ IF caller = "signal" THEN Idling(t) ELSE Summoned(t)
           ELSE (Idling(t) /\ ~busy[t]) \/ New(t) \/ Pending(t) \/ Winding(t)
  BY <1>2 DEF PoolInvariant, Handshake, StoppedThreads
<1>4. CASE Started(t)
  BY <1>1, <1>2, <1>3, <1>4
     DEF Started, Advance, New, Idling, Summoned, Pending, Winding, Held, callerVars
<1>5. CASE Loop(t)
  BY <1>1, <1>2, <1>3, <1>5
     DEF Loop, Advance, New, Idling, Summoned, Pending, Winding, Held, callerVars
<1>6. CASE WakeUp(t)
  BY <1>1, <1>2, <1>3, <1>6
     DEF WakeUp, Advance, New, Idling, Summoned, Pending, Winding, Held, callerVars
<1>7. CASE CheckStop(t)
  BY <1>1, <1>2, <1>3, <1>7
     DEF CheckStop, Advance, New, Idling, Summoned, Pending, Winding, Held, callerVars
<1>8. CASE ReceiveJob(t)
  BY <1>1, <1>2, <1>3, <1>8
     DEF ReceiveJob, Advance, New, Idling, Summoned, Pending, Winding, Held, callerVars
<1>9. CASE ResetJob(t)
  BY <1>1, <1>2, <1>3, <1>9
     DEF ResetJob, Advance, New, Idling, Summoned, Pending, Winding, Held, callerVars
<1>10. CASE ResetReady(t)
  BY <1>1, <1>2, <1>3, <1>10
     DEF ResetReady, Advance, New, Idling, Summoned, Pending, Winding, Held, callerVars
<1>11. CASE Free(t)
  BY <1>1, <1>2, <1>3, <1>11
     DEF Free, Advance, New, Idling, Summoned, Pending, Winding, Held, callerVars
<1>12. CASE Unlock(t)
  BY <1>1, <1>2, <1>3, <1>12
     DEF Unlock, Advance, New, Idling, Summoned, Pending, Winding, Held, callerVars
<1>13. QED
  BY <1>4, <1>5, <1>6, <1>7, <1>8, <1>9, <1>10, <1>11, <1>12 DEF Thread

\* No step of a thread disturbs the handshakes.
LEMMA ThreadStep ==
  ASSUME PoolInvariant, NEW t \in Threads, Thread(t), ~Run(t)
  PROVE  PoolInvariant'
<1>1. /\ UNCHANGED <<callerVars, stop, payload>>
      /\ \A u \in Threads \ {t} : /\ state'[u] = state[u] /\ busy'[u] = busy[u]
                                  /\ ready'[u] = ready[u] /\ jobReady'[u] = jobReady[u]
      /\ TypeOK'
      /\ t \in 1..size
  BY ThreadFrame
<1>2. /\ runs' = runs
      /\ Pending(t)' <=> Pending(t)
      /\ stop[t] => /\ state'[t] \in {"loop", "asleep", "woken", "gone"}
                    /\ ~jobReady'[t]
      /\ ~stop[t] /\ Held(t) => /\ Idling(t) => Idling(t)'
                                /\ Summoned(t) => Summoned(t)'
                                /\ busy'[t]
      /\ ~stop[t] /\ ~Held(t) =>
           (Idling(t)' /\ ~busy'[t]) \/ New(t)' \/ Pending(t)' \/ Winding(t)'
      /\ ~stop[t] /\ (~busy[t] \/ state[t] = "new") => ~busy'[t]
  BY ThreadMoves
<1>3. UNCHANGED <<caller, size, target, at, job, jobs, round>> /\ 1..size \subseteq Threads
  BY <1>1, Bounds DEF callerVars
<1>4. \A u \in Threads \ {t} : /\ New(u)' <=> New(u)
                               /\ Idling(u)' <=> Idling(u)
                               /\ Summoned(u)' <=> Summoned(u)
                               /\ Pending(u)' <=> Pending(u)
                               /\ Winding(u)' <=> Winding(u)
  BY <1>1 DEF New, Idling, Summoned, Pending, Winding
<1>5. \A u \in Threads : Held(u)' <=> Held(u)
  BY <1>3 DEF Held
<1>6. Handshake'
  <2>1. SUFFICES ASSUME NEW u \in 1..size, ~stop[u]
                 PROVE  IF Held(u)
                        THEN busy'[u] /\ IF caller = "signal" THEN Idling(u)' ELSE Summoned(u)'
                        ELSE (Idling(u)' /\ ~busy'[u]) \/ New(u)' \/ Pending(u)' \/ Winding(u)'
    BY <1>1, <1>3, <1>5 DEF Handshake
  <2>2. IF Held(u)
        THEN busy[u] /\ IF caller = "signal" THEN Idling(u) ELSE Summoned(u)
        ELSE (Idling(u) /\ ~busy[u]) \/ New(u) \/ Pending(u) \/ Winding(u)
    BY <2>1 DEF PoolInvariant, Handshake
  <2>3. CASE u = t
    BY <1>2, <2>1, <2>2, <2>3
  <2>4. CASE u # t
    BY <1>1, <1>3, <1>4, <2>2, <2>4
  <2>5. QED
    BY <2>3, <2>4
<1>7. StoppedThreads'
  <2>1. state[t] # "none" => state'[t] # "none" \/ t \in 1..size
    BY <1>1
  <2>2. QED
    BY <1>1, <1>2, <1>3, <2>1 DEF PoolInvariant, StoppedThreads
<1>8. CallerPlace'
  BY <1>3 DEF PoolInvariant, CallerPlace, Closing, Ending
<1>9. CallerKnows'
  <2>1. state[t] # "none"
    BY DEF Thread, Started, Loop, WakeUp, CheckStop, ReceiveJob, Run, ResetJob, ResetReady,
           Free, Unlock, Advance
  <2>2. ~Closing /\ caller # "ended" => \A u \in 1..size : ~stop'[u]
    BY <1>1 DEF PoolInvariant, CallerKnows
  <2>3. Closing \/ caller = "idle" =>
          \A u \in 1..size : ~stop'[u] => ~busy'[u] \/ state'[u] = "new"
    BY <1>1, <1>2, <1>3 DEF PoolInvariant, CallerKnows
  <2>4. Closing /\ ~Ending => /\ \A u \in 1..target : ~stop'[u]
                              /\ \A u \in (target + 1)..(at - 1) : state'[u] = "none"
    <3>1. Closing /\ ~Ending => t \notin (target + 1)..(at - 1)
      BY <2>1 DEF PoolInvariant, CallerKnows
    <3>2. (target + 1)..(at - 1) \subseteq Threads
      BY Bounds
    <3>3. QED
      BY <1>1, <3>1, <3>2 DEF PoolInvariant, CallerKnows
  <2>5. caller = "join" /\ Ending => \A u \in 1..(at - 1) : state'[u] = "none"
    <3>1. 1..(at - 1) \subseteq Threads
      BY Bounds
    <3>2. QED
      BY <1>1, <2>1, <3>1 DEF PoolInvariant, CallerKnows
  <2>6. caller = "rouse" => stop'[at]
    BY <1>1 DEF PoolInvariant, CallerKnows
  <2>7. caller = "wait" => \A u \in 1..(at - 1) : ~busy'[u]
    <3>1. SUFFICES ASSUME caller = "wait", NEW u \in 1..(at - 1)
                   PROVE  ~busy'[u]
      OBVIOUS
    <3>2. ~busy[u] /\ u \in Threads /\ ~stop[t]
      <4>1. u \in Threads
        BY Bounds
      <4>2. QED
        BY <1>1, <3>1, <4>1 DEF PoolInvariant, CallerKnows, Closing
    <3>3. QED
      BY <1>1, <1>2, <3>2
  <2>8. QED
    BY <1>3, <2>2, <2>3, <2>4, <2>5, <2>6, <2>7 DEF CallerKnows, Closing, Ending
<1>10. JobsAccounted'
  <2>1. \A u \in Threads : Pending(u)' <=> Pending(u)
    BY <1>2, <1>4
  <2>2. UNCHANGED <<runs, payload, job, caller, at>>
    BY <1>1, <1>2, <1>3
  <2>3. QED
    BY <2>1, <2>2 DEF PoolInvariant, JobsAccounted
<1>11. QED
  BY <1>1, <1>6, <1>7, <1>8, <1>9, <1>10 DEF PoolInvariant

\* A job is run by the only thread that has it.
LEMMA RunStep ==
  ASSUME PoolInvariant, NEW t \in Threads, Run(t)
  PROVE  PoolInvariant'
<1>1. /\ UNCHANGED <<caller, size, target, at, job, jobs, round, busy, ready, stop, jobReady, payload>>
      /\ state[t] = "running"
      /\ state' = [state EXCEPT ![t] = "reset"]
      /\ runs' = [j \in Jobs |-> IF j = payload[t] THEN runs[j] + 1 ELSE runs[j]]
  BY DEF Run, Advance, callerVars
<1>2. /\ state \in [Threads -> ThreadStates] /\ runs \in [Jobs -> Nat]
      /\ state'[t] = "reset"
      /\ \A u \in Threads \ {t} : state'[u] = state[u]
  BY <1>1 DEF PoolInvariant, TypeOK
<1>3. TypeOK'
  BY <1>1, <1>2 DEF PoolInvariant, TypeOK, ThreadStates
<1>4. t \in 1..size /\ ~stop[t]
  BY <1>1 DEF PoolInvariant, StoppedThreads
<1>5. Pending(t) /\ ~Held(t)
  BY <1>1, <1>4
     DEF PoolInvariant, Handshake, Idling, Summoned, New, Winding, Pending
<1>6. Winding(t)' /\ ~Pending(t)'
  BY <1>1, <1>2, <1>5 DEF Winding, Pending
<1>7. \A u \in Threads \ {t} : /\ New(u)' <=> New(u)
                               /\ Idling(u)' <=> Idling(u)
                               /\ Summoned(u)' <=> Summoned(u)
                               /\ Pending(u)' <=> Pending(u)
                               /\ Winding(u)' <=> Winding(u)
  BY <1>1, <1>2 DEF New, Idling, Summoned, Pending, Winding
<1>8. 1..size \subseteq Threads /\ \A u \in Threads : Held(u)' <=> Held(u)
  BY <1>1, Bounds DEF Held
<1>9. Handshake'
  BY <1>1, <1>5, <1>6, <1>7, <1>8 DEF PoolInvariant, Handshake
<1>10. StoppedThreads'
  BY <1>1, <1>2, <1>4 DEF PoolInvariant, StoppedThreads
<1>11. CallerPlace'
  BY <1>1 DEF PoolInvariant, CallerPlace, Closing, Ending
<1>12. CallerKnows'
  <2>1. ~Closing /\ caller # "idle"
    BY <1>1, <1>4, <1>5 DEF PoolInvariant, CallerKnows, Pending
  <2>2. QED
    BY <1>1, <2>1 DEF PoolInvariant, CallerKnows, Closing
<1>13. JobsAccounted'
  <2> DEFINE p == payload[t]
  <2>1. /\ p \in 1..(job - 1) /\ runs[p] = 0
        /\ \A u \in Threads \ {t} : Pending(u) => payload[u] # p
    BY <1>5 DEF PoolInvariant, JobsAccounted
  <2>2. 1..(job - 1) \subseteq Jobs /\ job \in Nat
    BY Bounds
  <2>3. runs'[p] = 1 /\ \A j \in Jobs \ {p} : runs'[j] = runs[j]
    BY <1>1, <2>1, <2>2
  <2>4. \A j \in Jobs : runs'[j] <= 1 /\ (j >= job => runs'[j] = 0)
    BY <2>1, <2>2, <2>3 DEF PoolInvariant, JobsAccounted, Jobs
  <2>5. \A u \in Threads : Pending(u)' => payload[u] \in 1..(job - 1) /\ runs'[payload[u]] = 0
    BY <1>6, <1>7, <2>1, <2>2, <2>3 DEF PoolInvariant, JobsAccounted
  <2>6. \A u, v \in Threads : Pending(u)' /\ Pending(v)' /\ u # v => payload[u] # payload[v]
    BY <1>6, <1>7 DEF PoolInvariant, JobsAccounted
  <2>7. ASSUME NEW j \in 1..(job - 1)
        PROVE  runs'[j] = 1 \/ \E u \in Threads : Pending(u)' /\ payload[u] = j
    <3>1. runs[j] = 1 \/ \E u \in Threads : Pending(u) /\ payload[u] = j
      BY DEF PoolInvariant, JobsAccounted
    <3>2. CASE j = p
      BY <2>3, <3>2
    <3>3. CASE j # p
      BY <1>7, <2>2, <2>3, <3>1, <3>3
    <3>4. QED
      BY <3>2, <3>3
  <2>8. caller = "wake" => payload[at] = job
    BY DEF PoolInvariant, JobsAccounted
  <2>9. QED
    BY <1>1, <2>4, <2>5, <2>6, <2>7, <2>8 DEF JobsAccounted
<1>14. QED
  BY <1>3, <1>9, <1>10, <1>11, <1>12, <1>13 DEF PoolInvariant

-----------------------------------------------------------------------------
(* The caller *)

\* A thread is told to stop only when it has no job.
LEMMA StopStep ==
  ASSUME PoolInvariant, Stop
  PROVE  PoolInvariant'
<1>1. TypeOK /\ TypeOK'
  BY DEF Stop, PoolInvariant, TypeOK, CallerStates
<1>2. Handshake'
  BY DEF Stop, PoolInvariant, Handshake, New, Idling, Pending, Winding, Held
<1>3. StoppedThreads'
  BY DEF Stop, PoolInvariant, Handshake, CallerPlace, CallerKnows, StoppedThreads, New, Idling,
         Pending, Winding, Held, Closing
<1>4. CallerPlace'
  BY DEF Stop, PoolInvariant, CallerPlace, Closing, Ending
<1>5. CallerKnows'
  BY DEF Stop, PoolInvariant, TypeOK, CallerPlace, CallerKnows, Closing, Ending
<1>6. JobsAccounted'
  BY DEF Stop, PoolInvariant, JobsAccounted, Pending
<1>7. QED
  BY <1>1, <1>2, <1>3, <1>4, <1>5, <1>6 DEF PoolInvariant

\* A thread told to stop is woken, or all of them one after the other.
LEMMA RouseStep ==
  ASSUME PoolInvariant, Rouse
  PROVE  PoolInvariant'
<1>1. TypeOK /\ TypeOK'
  BY Bounds DEF Rouse, PoolInvariant, TypeOK, CallerStates, Threads, NoJob
<1>2. Handshake'
  BY DEF Rouse, PoolInvariant, Handshake, CallerKnows, New, Idling, Pending, Winding, Held
<1>3. StoppedThreads'
  BY DEF Rouse, PoolInvariant, StoppedThreads
<1>4. CallerPlace'
  BY Bounds DEF Rouse, PoolInvariant, CallerPlace, Closing, Ending
<1>5. CallerKnows'
  BY DEF Rouse, PoolInvariant, CallerKnows, Closing, Ending
<1>6. JobsAccounted'
  BY DEF Rouse, PoolInvariant, CallerKnows, StoppedThreads, JobsAccounted, Pending
<1>7. QED
  BY <1>1, <1>2, <1>3, <1>4, <1>5, <1>6 DEF PoolInvariant

\* A joined thread is gone; the pool gets its new size when the last one is.
LEMMA JoinStep ==
  ASSUME PoolInvariant, Join
  PROVE  PoolInvariant'
<1>1. TypeOK /\ TypeOK'
  BY Bounds DEF Join, PoolInvariant, TypeOK, CallerPlace, CallerStates, ThreadStates, Threads, Ending
<1>2. Handshake'
  BY Bounds DEF Join, PoolInvariant, Handshake, CallerPlace, New, Idling, Pending, Winding, Held,
                Closing, Ending
<1>3. StoppedThreads'
  <2>1. /\ size \in Nat /\ target \in Nat /\ at \in 1..size /\ at \in Threads
        /\ Ending => \A t \in 1..(at - 1) : state[t] = "none"
        /\ ~Ending => /\ target \in 1..(at - 1)
                      /\ \A t \in (target + 1)..(at - 1) : state[t] = "none"
        /\ \A t \in Threads \ (1..size) : state[t] = "none"
    BY <1>1, Bounds DEF Join, PoolInvariant, TypeOK, CallerPlace, CallerKnows, StoppedThreads, Closing
  <2>2. /\ state'[at] = "none"
        /\ \A t \in Threads \ {at} : state'[t] = state[t]
        /\ UNCHANGED <<stop, jobReady>>
    BY <1>1, <2>1 DEF Join, TypeOK
  <2>3. \A t \in Threads : t \notin 1..size' => state'[t] = "none"
    <3>1. CASE at < size
      BY <2>1, <2>2, <3>1 DEF Join
    <3>2. CASE ~(at < size)
      <4>1. at = size /\ size' = target
        BY <2>1, <3>2 DEF Join
      <4>2. CASE Ending
        BY <2>1, <2>2, <4>1, <4>2 DEF Threads
      <4>3. CASE ~Ending
        BY <2>1, <2>2, <4>1, <4>3 DEF Threads
      <4>4. QED
        BY <4>2, <4>3
    <3>3. QED
      BY <3>1, <3>2
  <2>4. \A t \in Threads : stop'[t] =>
          /\ state'[t] \in {"none", "new", "unlock", "loop", "asleep", "woken", "gone"}
          /\ ~jobReady'[t]
    BY <2>2 DEF PoolInvariant, StoppedThreads
  <2>5. QED
    BY <2>3, <2>4 DEF StoppedThreads
<1>4. CallerPlace'
  BY Bounds DEF Join, PoolInvariant, CallerPlace, Closing, Ending
<1>5. CallerKnows'
  BY Bounds DEF Join, PoolInvariant, TypeOK, CallerKnows, Closing, Ending
<1>6. JobsAccounted'
  BY DEF Join, PoolInvariant, JobsAccounted, Pending
<1>7. QED
  BY <1>1, <1>2, <1>3, <1>4, <1>5, <1>6 DEF PoolInvariant

\* The thread taken is one that is neither starting nor at work.
LEMMA RequestStep ==
  ASSUME PoolInvariant, Request
  PROVE  PoolInvariant'
<1>1. TypeOK /\ TypeOK'
  <2>1. TypeOK /\ at \in 1..size /\ size \in Nat /\ 1..size \subseteq Threads
    BY Bounds DEF Request, PoolInvariant, CallerPlace
  <2>2. Turn \in Threads
    BY <2>1 DEF Turn
  <2>3. at' \in Threads /\ busy' \in [Threads -> BOOLEAN] /\ caller' \in CallerStates
    BY <2>1, <2>2 DEF Request, TypeOK, CallerStates
  <2>4. QED
    BY <2>1, <2>3 DEF Request, TypeOK
<1>2. Handshake'
  BY Bounds DEF Request, PoolInvariant, TypeOK, Handshake, New, Idling, Pending, Winding, Held
<1>3. StoppedThreads'
  BY DEF Request, PoolInvariant, StoppedThreads
<1>4. CallerPlace'
  BY Bounds DEF Request, PoolInvariant, CallerPlace, Closing, Turn
<1>5. CallerKnows'
  BY DEF Request, PoolInvariant, CallerKnows, Closing
<1>6. JobsAccounted'
  BY DEF Request, PoolInvariant, TypeOK, Handshake, StoppedThreads, JobsAccounted, New, Idling,
         Pending, Winding
<1>7. QED
  BY <1>1, <1>2, <1>3, <1>4, <1>5, <1>6 DEF PoolInvariant

\* The thread taken is woken before it has a job.
LEMMA SignalStep ==
  ASSUME PoolInvariant, Signal
  PROVE  PoolInvariant'
<1>1. TypeOK /\ TypeOK'
  BY DEF Signal, PoolInvariant, TypeOK, CallerStates
<1>2. Handshake'
  BY DEF Signal, PoolInvariant, TypeOK, Handshake, HoldsLock, New, Idling, Summoned, Pending,
         Winding, Held
<1>3. StoppedThreads'
  BY DEF Signal, PoolInvariant, StoppedThreads
<1>4. CallerPlace'
  BY DEF Signal, PoolInvariant, CallerPlace, Closing
<1>5. CallerKnows'
  BY DEF Signal, PoolInvariant, CallerKnows, Closing
<1>6. JobsAccounted'
  BY DEF Signal, PoolInvariant, Handshake, StoppedThreads, JobsAccounted, Idling, Pending, Held
<1>7. QED
  BY <1>1, <1>2, <1>3, <1>4, <1>5, <1>6 DEF PoolInvariant

\* The job is written into the thread taken.
LEMMA AssignStep ==
  ASSUME PoolInvariant, Assign
  PROVE  PoolInvariant'
<1>1. TypeOK /\ TypeOK'
  BY Bounds DEF Assign, PoolInvariant, TypeOK, CallerPlace, CallerStates
<1>2. Handshake'
  BY DEF Assign, PoolInvariant, Handshake, New, Idling, Summoned, Pending, Winding, Held
<1>3. StoppedThreads'
  BY DEF Assign, PoolInvariant, StoppedThreads
<1>4. CallerPlace'
  BY DEF Assign, PoolInvariant, CallerPlace, Closing
<1>5. CallerKnows'
  BY DEF Assign, PoolInvariant, CallerKnows, Closing
<1>6. JobsAccounted'
  BY DEF Assign, PoolInvariant, TypeOK, Handshake, StoppedThreads, JobsAccounted, Summoned,
         Pending, Held
<1>7. QED
  BY <1>1, <1>2, <1>3, <1>4, <1>5, <1>6 DEF PoolInvariant

\* The job is handed over.
LEMMA WakeJobStep ==
  ASSUME PoolInvariant, WakeJob
  PROVE  PoolInvariant'
<1>1. TypeOK /\ TypeOK'
  BY Bounds DEF WakeJob, PoolInvariant, TypeOK, CallerStates, Threads
<1>2. Handshake'
  BY DEF WakeJob, PoolInvariant, TypeOK, Handshake, New, Idling, Summoned, Pending, Winding, Held
<1>3. StoppedThreads'
  BY DEF WakeJob, PoolInvariant, CallerPlace, CallerKnows, StoppedThreads, Closing
<1>4. CallerPlace'
  BY Bounds DEF WakeJob, PoolInvariant, CallerPlace, Closing
<1>5. CallerKnows'
  BY DEF WakeJob, PoolInvariant, CallerKnows, Closing
<1>6. JobsAccounted'
  <2>1. /\ at \in Threads /\ at \in 1..size /\ ~stop[at]
        /\ job \in Nat \ {0} /\ job \in Jobs
        /\ caller = "wake" /\ payload[at] = job
    BY <1>1, Bounds
       DEF WakeJob, PoolInvariant, TypeOK, CallerPlace, CallerKnows, JobsAccounted, Closing, Jobs
  <2>2. PICK w \in Threads : w = at
    BY <2>1
  <2>3. Summoned(w)
    BY <2>1, <2>2 DEF PoolInvariant, Handshake, Held
  <2>4. /\ jobReady'[w] /\ \A t \in Threads \ {w} : jobReady'[t] = jobReady[t]
        /\ UNCHANGED <<state, busy, ready, payload, runs>>
        /\ job' = job + 1 /\ caller' # "wake"
    BY <1>1, <2>1, <2>2 DEF WakeJob, TypeOK
  <2>5. /\ Pending(w)' /\ ~Pending(w)
        /\ \A t \in Threads \ {w} : Pending(t)' <=> Pending(t)
    <3>1. ~Pending(w)
      BY <2>3 DEF Summoned, Pending
    <3>2. Pending(w)'
      BY <2>3, <2>4 DEF Summoned, Pending
    <3>3. ASSUME NEW t \in Threads \ {w}
          PROVE  Pending(t)' <=> Pending(t)
      BY <2>4 DEF Pending
    <3>4. QED
      BY <3>1, <3>2, <3>3
  <2>6. \A j \in Jobs : runs'[j] <= 1 /\ (j >= job' => runs'[j] = 0)
    BY <2>1, <2>4 DEF PoolInvariant, JobsAccounted, Jobs
  <2>7. \A t \in Threads : Pending(t)' => payload'[t] \in 1..(job' - 1) /\ runs'[payload'[t]] = 0
    <3>1. runs[job] = 0
      BY <2>1 DEF PoolInvariant, JobsAccounted
    <3>2. \A t \in Threads : Pending(t) => payload[t] \in 1..(job - 1) /\ runs[payload[t]] = 0
      BY DEF PoolInvariant, JobsAccounted
    <3>3. QED
      BY <2>1, <2>2, <2>4, <2>5, <3>1, <3>2
  <2>8. \A t, u \in Threads : Pending(t)' /\ Pending(u)' /\ t # u => payload'[t] # payload'[u]
    <3>1. \A t \in Threads : Pending(t) => payload[t] # job
      BY <2>1 DEF PoolInvariant, JobsAccounted
    <3>2. QED
      BY <2>1, <2>2, <2>4, <2>5, <3>1 DEF PoolInvariant, JobsAccounted
  <2>9. \A j \in 1..(job' - 1) : runs'[j] = 1 \/ \E t \in Threads : Pending(t)' /\ payload'[t] = j
    <3>1. \A j \in 1..(job' - 1) : j \in 1..(job - 1) \/ j = job
      BY <2>1, <2>4
    <3>2. \A j \in 1..(job - 1) : runs[j] = 1 \/ \E t \in Threads : Pending(t) /\ payload[t] = j
      BY DEF PoolInvariant, JobsAccounted
    <3>3. ASSUME NEW j \in 1..(job - 1), runs[j] # 1
          PROVE  \E t \in Threads : Pending(t)' /\ payload'[t] = j
      <4>1. PICK t \in Threads : Pending(t) /\ payload[t] = j
        BY <3>2, <3>3
      <4>2. t # w
        BY <2>5, <4>1
      <4>3. QED
        BY <2>4, <2>5, <4>1, <4>2
    <3>4. QED
      BY <2>1, <2>2, <2>4, <2>5, <3>1, <3>3
  <2>10. QED
    BY <2>4, <2>6, <2>7, <2>8, <2>9 DEF JobsAccounted
<1>7. QED
  BY <1>1, <1>2, <1>3, <1>4, <1>5, <1>6 DEF PoolInvariant

\* The flags that were found clear stay clear.
LEMMA WaitStep ==
  ASSUME PoolInvariant, Wait
  PROVE  PoolInvariant'
<1>1. TypeOK /\ TypeOK'
  BY Bounds DEF Wait, PoolInvariant, TypeOK, CallerPlace, CallerStates, threadVars
<1>2. Handshake'
  BY DEF Wait, PoolInvariant, Handshake, New, Idling, Pending, Winding, Held, threadVars
<1>3. StoppedThreads'
  BY DEF Wait, PoolInvariant, StoppedThreads, threadVars
<1>4. CallerPlace'
  BY Bounds DEF Wait, PoolInvariant, CallerPlace, Closing
<1>5. CallerKnows'
  BY <1>1, Bounds DEF Wait, PoolInvariant, TypeOK, CallerPlace, CallerKnows, Closing, threadVars
<1>6. JobsAccounted'
  BY DEF Wait, PoolInvariant, JobsAccounted, Pending, threadVars
<1>7. QED
  BY <1>1, <1>2, <1>3, <1>4, <1>5, <1>6 DEF PoolInvariant

\* A round begins with no job at any thread.
LEMMA BeginStep ==
  ASSUME PoolInvariant, NEW n \in Threads, NEW k \in 0..MaxJobs, Begin(n, k)
  PROVE  PoolInvariant'
<1>1. /\ TypeOK /\ size \in 1..MaxThreads /\ n \in 1..MaxThreads /\ at \in 1..size
      /\ MaxThreads \in Nat /\ MaxJobs \in Nat /\ MaxRounds \in Nat
      /\ 1..size \subseteq Threads /\ caller = "idle"
  BY Bounds, PoolAssumption DEF Begin, PoolInvariant, TypeOK, CallerPlace, Threads
<1>2. TypeOK /\ TypeOK'
  <2>1. /\ caller' \in CallerStates /\ target' \in 0..MaxThreads /\ job' \in Nat \ {0}
        /\ jobs' \in 0..MaxJobs /\ round' \in 0..MaxRounds
    BY <1>1 DEF Begin, CallerStates, TypeOK
  <2>2. size' \in 0..MaxThreads /\ at' \in Threads
    BY <1>1 DEF Begin, Threads
  <2>3. /\ state' \in [Threads -> ThreadStates] /\ busy' \in [Threads -> BOOLEAN]
        /\ ready' \in [Threads -> BOOLEAN] /\ stop' \in [Threads -> BOOLEAN]
        /\ jobReady' \in [Threads -> BOOLEAN] /\ payload' \in [Threads -> Jobs \cup {NoJob}]
        /\ runs' \in [Jobs -> Nat]
    BY <1>1 DEF Begin, TypeOK, ThreadStates
  <2>4. QED
    BY <1>1, <2>1, <2>2, <2>3 DEF TypeOK
<1>3. \A t \in 1..size' : /\ t \in Threads
                          /\ ~stop'[t]
                          /\ ~Held(t)'
                          /\ (Idling(t)' /\ ~busy'[t]) \/ New(t)'
  <2>1. SUFFICES ASSUME NEW t \in 1..size'
                 PROVE  /\ t \in Threads
                        /\ ~stop'[t]
                        /\ ~Held(t)'
                        /\ (Idling(t)' /\ ~busy'[t]) \/ New(t)'
    OBVIOUS
  <2>2. t \in Threads /\ (t \in 1..size \/ t \in (size + 1)..n)
    BY <1>1 DEF Begin, Threads
  <2>3. ~Held(t)'
    BY DEF Begin, Held
  <2>4. CASE t \in (size + 1)..n
    BY <2>2, <2>3, <2>4 DEF Begin, New
  <2>5. CASE t \notin (size + 1)..n
    <3>1. /\ state'[t] = state[t] /\ busy'[t] = busy[t] /\ ready'[t] = ready[t]
          /\ stop'[t] = stop[t] /\ jobReady'[t] = jobReady[t] /\ t \in 1..size
      BY <2>2, <2>5 DEF Begin
    <3>2. ~stop[t] /\ ~Held(t) /\ (~busy[t] \/ state[t] = "new")
      BY <1>1, <3>1 DEF PoolInvariant, CallerKnows, Closing, Held
    <3>3. (Idling(t) /\ ~busy[t]) \/ New(t)
      BY <3>1, <3>2 DEF PoolInvariant, Handshake, Pending, Winding
    <3>4. QED
      BY <2>2, <2>3, <3>1, <3>2, <3>3 DEF Idling, New
  <2>6. QED
    BY <2>4, <2>5
<1>4. Handshake'
  BY <1>3 DEF Handshake
<1>5. StoppedThreads'
  BY <1>2 DEF Begin, PoolInvariant, TypeOK, StoppedThreads
<1>6. CallerPlace'
  BY <1>2 DEF Begin, PoolInvariant, TypeOK, CallerPlace, Closing, Ending
<1>7. CallerKnows'
  <2>1. \A t \in 1..size' : ~stop'[t] /\ (~busy'[t] \/ state'[t] = "new")
    BY <1>3 DEF New
  <2>2. CASE n < size
    <3>1. caller' = "stop" /\ at' = n + 1 /\ target' = n /\ size' = size
      BY <2>2 DEF Begin
    <3>2. (target' + 1)..(at' - 1) = {} /\ 1..target' \subseteq 1..size'
      BY <1>1, <2>2, <3>1
    <3>3. QED
      BY <2>1, <3>1, <3>2 DEF CallerKnows, Closing, Ending
  <2>3. CASE ~(n < size)
    <3>1. caller' \in {"wait", "request"} /\ at' = 1
      BY <2>3 DEF Begin
    <3>2. 1..(at' - 1) = {}
      BY <3>1
    <3>3. QED
      BY <2>1, <3>1, <3>2 DEF CallerKnows, Closing, Ending
  <2>4. QED
    BY <2>2, <2>3
<1>8. JobsAccounted'
  BY DEF Begin, PoolInvariant, CallerKnows, StoppedThreads, JobsAccounted, Pending
<1>9. QED
  BY <1>2, <1>4, <1>5, <1>6, <1>7, <1>8 DEF PoolInvariant

\* The process ends with no job at any thread.
LEMMA QuitStep ==
  ASSUME PoolInvariant, Quit
  PROVE  PoolInvariant'
<1>1. TypeOK /\ TypeOK'
  BY Bounds DEF Quit, PoolInvariant, TypeOK, CallerStates, Threads, threadVars
<1>2. Handshake'
  BY DEF Quit, PoolInvariant, Handshake, New, Idling, Pending, Winding, Held, threadVars
<1>3. StoppedThreads'
  BY DEF Quit, PoolInvariant, StoppedThreads, threadVars
<1>4. CallerPlace'
  BY Bounds DEF Quit, PoolInvariant, CallerPlace, Ending
<1>5. CallerKnows'
  BY DEF Quit, PoolInvariant, CallerKnows, Closing, threadVars
<1>6. JobsAccounted'
  BY DEF Quit, PoolInvariant, JobsAccounted, Pending, threadVars
<1>7. QED
  BY <1>1, <1>2, <1>3, <1>4, <1>5, <1>6 DEF PoolInvariant

-----------------------------------------------------------------------------
(* The pool *)

\* Every step keeps the invariant.
LEMMA PoolNext == PoolInvariant /\ [Next]_vars => PoolInvariant'
<1>1. SUFFICES ASSUME PoolInvariant, [Next]_vars
               PROVE  PoolInvariant'
  OBVIOUS
<1>2. CASE UNCHANGED vars
  BY <1>1, <1>2
     DEF vars, callerVars, threadVars, PoolInvariant, TypeOK, Handshake, StoppedThreads, CallerPlace,
         CallerKnows, JobsAccounted, New, Idling, Summoned, Pending, Winding, Held, Closing, Ending
<1>3. CASE \E n \in Threads, k \in 0..MaxJobs : Begin(n, k)
  BY <1>1, <1>3, BeginStep
<1>4. CASE Quit
  BY <1>1, <1>4, QuitStep
<1>5. CASE Caller
  BY <1>1, <1>5, StopStep, RouseStep, JoinStep, RequestStep, SignalStep, AssignStep, WakeJobStep,
     WaitStep DEF Caller
<1>6. ASSUME NEW t \in Threads, Thread(t)
      PROVE  PoolInvariant'
  <2>1. CASE Run(t)
    BY <1>1, <1>6, <2>1, RunStep
  <2>2. CASE ~Run(t)
    BY <1>1, <1>6, <2>2, ThreadStep
  <2>3. QED
    BY <2>1, <2>2
<1>7. QED
  BY <1>1, <1>2, <1>3, <1>4, <1>5, <1>6 DEF Next

\* What the handshakes keep up, whatever the number of threads, jobs and rounds.
THEOREM PoolTheorem == Spec => []PoolInvariant
<1>1. Init => PoolInvariant
  BY PoolInit
<1>2. PoolInvariant /\ [Next]_vars => PoolInvariant'
  BY PoolNext
<1>3. QED
  BY <1>1, <1>2, PTL DEF Spec

\* Every variable keeps its type; the caller's loops never leave the pool.
THEOREM PoolTypeTheorem == Spec => []TypeOK
<1>1. PoolInvariant => TypeOK
  BY DEF PoolInvariant
<1>2. QED
  BY <1>1, PoolTheorem, PTL

\* A job is only written into a thread that runs none: the thread taken is
\* summoned, and a summoned thread waits for the job.
THEOREM WritingTheorem == Spec => []JobNotSharedWhileWritten
<1>1. PoolInvariant => JobNotSharedWhileWritten
  <2>1. SUFFICES ASSUME PoolInvariant, caller \in {"assign", "wake"}
                 PROVE  ~HoldsJobLock(at)
    BY DEF JobNotSharedWhileWritten
  <2>2. at \in 1..size /\ ~stop[at]
    BY <2>1 DEF PoolInvariant, CallerPlace, CallerKnows, Closing
  <2>3. Summoned(at)
    BY <2>1, <2>2 DEF PoolInvariant, Handshake, Held
  <2>4. QED
    BY <2>3 DEF Summoned, HoldsJobLock
<1>2. QED
  BY <1>1, PoolTheorem, PTL

\* When the caller is idle every job it had has been run once, and no thread is
\* about to read what the round was given.
THEOREM RoundTheorem == Spec => []RoundIsComplete
<1>1. PoolInvariant => RoundIsComplete
  <2>1. SUFFICES ASSUME PoolInvariant, caller = "idle"
                 PROVE  /\ \A j \in 1..jobs : runs[j] = 1
                        /\ \A t \in 1..size : state[t] \notin {"waiting", "running", "reset"}
    BY DEF RoundIsComplete
  <2>2. \A t \in 1..size : (Idling(t) /\ ~busy[t]) \/ New(t)
    <3>1. SUFFICES ASSUME NEW t \in 1..size
                   PROVE  (Idling(t) /\ ~busy[t]) \/ New(t)
      OBVIOUS
    <3>2. ~stop[t] /\ ~Held(t) /\ (~busy[t] \/ state[t] = "new")
      BY <2>1, <3>1 DEF PoolInvariant, CallerKnows, Closing, Held
    <3>3. QED
      BY <3>1, <3>2, <2>1 DEF PoolInvariant, Handshake, Pending, Winding
  <2>3. \A t \in Threads : ~Pending(t)
    <3>1. \A t \in Threads \ (1..size) : state[t] = "none"
      BY <2>1 DEF PoolInvariant, StoppedThreads
    <3>2. QED
      BY <2>2, <3>1 DEF Pending, Idling, New
  <2>4. job = jobs + 1 /\ jobs \in Nat
    BY <2>1, Bounds DEF PoolInvariant, CallerPlace
  <2>5. \A j \in 1..jobs : runs[j] = 1
    BY <2>1, <2>3, <2>4 DEF PoolInvariant, JobsAccounted
  <2>6. QED
    BY <2>2, <2>5 DEF Idling, New
<1>2. QED
  BY <1>1, PoolTheorem, PTL

\* No job is run a second time.
THEOREM OnceTheorem == Spec => []NoJobTwice
<1>1. PoolInvariant => NoJobTwice
  BY DEF PoolInvariant, JobsAccounted, NoJobTwice
<1>2. QED
  BY <1>1, PoolTheorem, PTL
=============================================================================
