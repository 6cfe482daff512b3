--------------------------- MODULE NexusInterface ---------------------------
(* The requests to the Nexus API (nexusinterface.cpp) together with the login *)
(* they wait for (nxmaccessmanager.cpp) and with what OrganizerCore keeps for *)
(* after the login (organizercore.cpp).  Everything runs in one thread: each  *)
(* action is a slot, but slots nest, because a receiver of an answer or the   *)
(* question after a failed login may run an event loop of its own.            *)
EXTENDS Integers, Sequences, FiniteSets, SequencesExt

CONSTANTS
  Kinds,         \* the kinds of requests asked for, a subset of AllKinds
  Left,          \* how many requests an account may have left, of AllLeft
  Premium,       \* whether accounts are premium: a set of Booleans
  MaxActive,     \* MAX_ACTIVE_DOWNLOADS
  Attempts,      \* the number of timeouts the settings give to a validation
  MaxRequests,   \* bound: requests ever made or to be made for waiting links
  MaxRedirects,  \* bound: redirects of one request
  MaxTasks,      \* bound: tasks that wait for a login at a time
  MaxLogins,     \* bound: validations started
  MaxAccounts    \* bound: visits to the settings dialog

\* Requests for information and for the address of a file that belongs to the
\* account's own link; those that are throttled; and addresses of files that
\* only premium accounts may fetch without such a link.
AllKinds == {"info", "bulk", "premium"}

\* At least 200 requests, fewer, or none (APIUserAccount::ThrottleThreshold).
AllLeft == {"plenty", "low", "none"}

ASSUME NexusAssumption ==
  /\ Kinds \subseteq AllKinds /\ Left \subseteq AllLeft /\ Premium \subseteq BOOLEAN
  /\ MaxActive \in Nat \ {0} /\ Attempts \in Nat \ {0}
  /\ {MaxRequests, MaxRedirects, MaxTasks, MaxAccounts} \subseteq Nat
  /\ MaxLogins \in Nat \ {0}

VARIABLES
  queue,     \* m_RequestQueue: requests [id, kind, hops]
  active,    \* m_ActiveRequest
  outcome,   \* what became of each request made: "waiting" until it is settled
  slots,     \* the slots of finished requests that have not returned yet
  user,      \* m_User: whether it has a key, is premium, and what is left
  state,     \* m_validationState
  attempts,  \* the results of the attempts of m_validator
  stored,    \* whether the settings have an API key
  offline,   \* the offline mode of the settings
  pending,   \* the number of links in m_PendingDownloads
  tasks,     \* the number of functions in m_PostLoginTasks
  core,      \* the slot of OrganizerCore under way
  logins,    \* validations started so far
  visits     \* visits to the settings dialog so far

requests == <<queue, active, outcome>>
login    == <<state, attempts, logins>>
waiting  == <<pending, tasks, core>>
config   == <<user, stored, offline>>
vars     == <<requests, slots, login, waiting, config, visits>>

Account  == [key : BOOLEAN, premium : BOOLEAN, left : AllLeft]
Request  == [id : 1..MaxRequests, kind : AllKinds, hops : 0..MaxRedirects]
Outcomes == {"waiting", "signalled", "silent", "cleared", "aborted"}
Results  == {"none", "running", "soft", "hard", "cancelled", "success"}
NoAccount == [key |-> FALSE, premium |-> FALSE, left |-> "none"]

ShouldThrottle(u) == u.left # "plenty"
Exhausted(u)      == u.key /\ u.left = "none"
Handled           == {slots[i].id : i \in DOMAIN slots}

-----------------------------------------------------------------------------
(* The validation of the key.                                                *)

IsActive == \E i \in DOMAIN attempts : attempts[i] \in {"none", "running"}
Running  == \E i \in DOMAIN attempts : attempts[i] = "running"

StartValidation ==
  /\ logins < MaxLogins
  /\ logins' = logins + 1
  /\ state' = "NotChecked"
  /\ attempts' = [i \in 1..Attempts |-> IF i = 1 THEN "running" ELSE "none"]

\* Only with a state that is not Valid: nobody asks for a check otherwise.
ApiCheck ==
  IF IsActive THEN UNCHANGED login
  ELSE IF offline THEN state' = "NotChecked" /\ UNCHANGED <<attempts, logins>>
  ELSE StartValidation

Refuse == state' = "Invalid" /\ UNCHANGED <<attempts, logins>>

-----------------------------------------------------------------------------
(* The queue.                                                                *)

Put(q, a, o) == queue' = q /\ active' = a /\ outcome' = o

LinkAllowed(r, u) ==
  r.kind = "premium" /\ r.hops = 0 => u.premium

Settle(o, ids, what) == [i \in DOMAIN o |-> IF i \in ids THEN what ELSE o[i]]

\* Sends or gives up the first request.
Serve(q, a, o, u) ==
  IF Exhausted(u)
  THEN Put(<<>>, a, Settle(o, {r.id : r \in ToSet(q)}, "cleared"))
  ELSE IF LinkAllowed(Head(q), u)
  THEN Put(Tail(q), a \union {Head(q)}, o)
  ELSE Put(Tail(q), a, Settle(o, {Head(q).id}, "aborted"))

\* nextRequest() when the queue, the active requests, the outcomes, the account
\* and the state of the validation are q, a, o, u and st.
NextRequest(q, a, o, u, st) ==
  IF Cardinality(a) >= MaxActive \/ q = <<>>
  THEN Put(q, a, o) /\ state' = st /\ UNCHANGED <<attempts, logins>>
  ELSE IF st = "NotChecked"
  THEN Put(q, a, o) /\ IF stored THEN ApiCheck ELSE Refuse
  ELSE IF st = "Invalid" /\ IsActive
  THEN Put(q, a, o) /\ state' = st /\ UNCHANGED <<attempts, logins>>
  ELSE Serve(q, a, o, u) /\ state' = st /\ UNCHANGED <<attempts, logins>>

Room == Len(outcome) + pending < MaxRequests

NewRequest(kind, st) ==
  LET r == [id |-> Len(outcome) + 1, kind |-> kind, hops |-> 0]
  IN  NextRequest(Append(queue, r), active, Append(outcome, "waiting"), user, st)

Ask(kind) ==
  /\ Room
  /\ ~(kind = "bulk" /\ ShouldThrottle(user))
  /\ NewRequest(kind, state)
  /\ UNCHANGED <<slots, waiting, config, visits>>

-----------------------------------------------------------------------------
(* The end of a request.                                                     *)

\* Limits that a slot sets when it is over: those of the answer, or nothing.
Limits == Left \union {"kept"}

Limited(left) == IF left = "kept" THEN user ELSE [user EXCEPT !.left = left]

\* The signal of the answer is emitted; its receivers may start more requests
\* and event loops before SlotEnds.  (Slots return in the reverse order of their
\* starts; how they nest with the question of a failed login is left open.)
Signal(r, what, now, later) ==
  /\ outcome' = Settle(outcome, {r.id}, what)
  /\ user' = Limited(now)
  /\ slots' = Append(slots, [id |-> r.id, left |-> later])
  /\ UNCHANGED <<queue, active, login, waiting, stored, offline, visits>>

Answered(r) ==
  \E left \in Left : Signal(r, "signalled", "kept", left)

\* A tracking answer in words the code does not know: nobody is told.
Unknown(r) ==
  /\ r.kind = "bulk"
  /\ \E left \in Left : Signal(r, "silent", "kept", left)

\* An error, an empty or invalid answer, or a timeout; 429 brings limits.
Failed(r) ==
  \E now \in Limits : Signal(r, "signalled", now, "kept")

\* Mutant: a redirected request is not erased.
RedirectedKeeping(r) ==
  /\ r.hops < MaxRedirects
  /\ NextRequest(Append(queue, [r EXCEPT !.hops = @ + 1]), active,
                 outcome, user, state)
  /\ UNCHANGED <<slots, waiting, config, visits>>

Redirected(r) ==
  /\ r.hops < MaxRedirects
  /\ NextRequest(Append(queue, [r EXCEPT !.hops = @ + 1]), active \ {r},
                 outcome, user, state)
  /\ UNCHANGED <<slots, waiting, config, visits>>

RequestFinished(r) ==
  /\ r.id \notin Handled
  /\ Answered(r) \/ Unknown(r) \/ Failed(r) \/ Redirected(r)

\* Mutant: a finished request does not send the next one.
SlotEndsSilently ==
  /\ slots # <<>>
  /\ slots' = Front(slots)
  /\ user' = Limited(Last(slots).left)
  /\ active' = {r \in active : r.id # Last(slots).id}
  /\ UNCHANGED <<queue, outcome, login, waiting, stored, offline, visits>>

\* The innermost slot returns: its request is erased and the next one sent.
SlotEnds ==
  /\ slots # <<>>
  /\ slots' = Front(slots)
  /\ user' = Limited(Last(slots).left)
  /\ NextRequest(queue, {r \in active : r.id # Last(slots).id}, outcome, user',
                 state)
  /\ UNCHANGED <<waiting, stored, offline, visits>>

-----------------------------------------------------------------------------
(* The end of an attempt.                                                    *)

\* Mutant: the attempt that failed is not taken as done.
NextTryKeeping(i) ==
  /\ attempts' = [attempts EXCEPT ![i + 1] = "running"]
  /\ UNCHANGED <<state, core, user>>

NextTry(i) ==
  /\ attempts' = [attempts EXCEPT ![i] = "soft", ![i + 1] = "running"]
  /\ UNCHANGED <<state, core, user>>

\* validateFailed: loginFailed asks whether to try again.
ValidateFailed(i, result) ==
  /\ attempts' = [attempts EXCEPT ![i] = result]
  /\ state' = "Invalid"
  /\ core' = "question"
  /\ UNCHANGED user

\* credentialsReceived, then validateSuccessful.
ValidateSuccessful(i) ==
  /\ attempts' = [attempts EXCEPT ![i] = "success"]
  /\ state' = "Valid"
  /\ core' = "succeeded"
  /\ \E premium \in Premium, left \in Left :
        user' = [key |-> TRUE, premium |-> premium, left |-> left]

AttemptEnds(i) ==
  /\ attempts[i] = "running"
  /\ \/ IF i < Attempts THEN NextTry(i) ELSE ValidateFailed(i, "soft")
     \/ ValidateFailed(i, "hard")
     \/ ValidateSuccessful(i)
  /\ UNCHANGED <<requests, slots, logins, pending, tasks, stored, offline,
                 visits>>

\* NexusKeyValidator::cancel: attempts that were never started stay undone.
Cancelled ==
  [i \in DOMAIN attempts |->
     IF attempts[i] = "running" THEN "cancelled" ELSE attempts[i]]

Cancel ==
  /\ attempts' = Cancelled
  /\ state' = IF Running THEN "NotChecked" ELSE state

UserCancels ==
  /\ Running /\ Cancel
  /\ UNCHANGED <<requests, slots, logins, waiting, config, visits>>

-----------------------------------------------------------------------------
(* OrganizerCore.  Its questions are modal: the user does nothing else while  *)
(* one is open, but links from other processes and answers still come in.     *)

\* A link.  While the key was never checked it waits for the login; otherwise
\* the download manager asks for the file it leads to.
DownloadRequestedNXM ==
  /\ Room
  /\ \/ /\ state = "NotChecked" /\ stored
        /\ ApiCheck
        /\ pending' = pending + 1
        /\ UNCHANGED requests
     \/ /\ state = "NotChecked" /\ ~stored
        /\ NewRequest("info", "Invalid")
        /\ UNCHANGED pending
     \/ /\ state # "NotChecked"
        /\ NewRequest("info", state)
        /\ UNCHANGED pending
  /\ UNCHANGED <<slots, tasks, core, config, visits>>

\* A command of the user that needs a login.  With a valid key it runs at once,
\* which is an Ask; without a key it does nothing.  (loggedInAction does nothing
\* in the offline mode either, but the check for updates of mods does.)
LoggedInAction ==
  /\ core = "idle" /\ tasks < MaxTasks
  /\ state # "Valid" /\ stored
  /\ tasks' = tasks + 1
  /\ ApiCheck
  /\ UNCHANGED <<requests, slots, pending, core, config, visits>>

\* Mutants: the question stays open; the links are forgotten.
TryAgainOpen ==
  /\ core = "question" /\ stored
  /\ ApiCheck
  /\ UNCHANGED <<requests, slots, waiting, config, visits>>

GiveUpForgetting ==
  /\ core = "question"
  /\ core' = "idle" /\ tasks' = 0
  /\ NextRequest(queue, active, outcome, user, "Invalid")
  /\ UNCHANGED <<slots, pending, config, visits>>

\* The question after a failed login.
TryAgain ==
  /\ core = "question" /\ stored
  /\ ApiCheck
  /\ core' = "idle"
  /\ UNCHANGED <<requests, slots, pending, tasks, config, visits>>

GiveUp ==
  /\ core = "question"
  /\ IF pending > 0
     THEN /\ core' = "failed"
          /\ UNCHANGED <<requests, login, tasks>>
     ELSE /\ core' = "idle" /\ tasks' = 0
          /\ NextRequest(queue, active, outcome, user, "Invalid")
  /\ UNCHANGED <<slots, pending, config, visits>>

\* The loop of loginSuccessful and loginFailed over the pending links.
HandLink ==
  /\ core \in {"succeeded", "failed"} /\ pending > 0
  /\ pending' = pending - 1
  /\ NewRequest("info", state)
  /\ UNCHANGED <<slots, tasks, core, config, visits>>

\* Mutant: NexusInterface::loginCompleted is not called.
LoginCompletedSilently ==
  /\ core \in {"succeeded", "failed"} /\ pending = 0
  /\ tasks' = IF core = "succeeded" THEN 0 ELSE tasks
  /\ core' = "idle"
  /\ UNCHANGED <<requests, login, slots, pending, config, visits>>

\* Their end: tasks run after a success, and the queue goes on.
LoginCompleted ==
  /\ core \in {"succeeded", "failed"} /\ pending = 0
  /\ tasks' = IF core = "succeeded" THEN 0 ELSE tasks
  /\ core' = "idle"
  /\ NextRequest(queue, active, outcome, user, state)
  /\ UNCHANGED <<slots, pending, config, visits>>

-----------------------------------------------------------------------------
(* The settings dialog, which checks a new key with a validator of its own.   *)

Visit == core = "idle" /\ visits < MaxAccounts /\ visits' = visits + 1

ConnectAccount ==
  /\ Visit
  /\ stored' = TRUE
  /\ \E premium \in Premium, left \in Left :
        user' = [key |-> TRUE, premium |-> premium, left |-> left]
  /\ UNCHANGED <<requests, slots, login, waiting, offline>>

ClearKey ==
  /\ Visit
  /\ stored' = FALSE
  /\ Cancel
  /\ user' = NoAccount
  /\ UNCHANGED <<requests, slots, logins, waiting, offline>>

SetOffline ==
  /\ Visit
  /\ offline' = ~offline
  /\ UNCHANGED <<requests, slots, login, waiting, user, stored>>

-----------------------------------------------------------------------------

\* The program has started and checks the key it has stored, if any.  (A start
\* in the offline mode is like switching to it before anything was asked.)
Init ==
  /\ queue = <<>> /\ active = {} /\ outcome = <<>> /\ slots = <<>>
  /\ user = [NoAccount EXCEPT !.left = "plenty"]
  /\ stored \in BOOLEAN /\ offline = FALSE
  /\ state = "NotChecked"
  /\ IF stored
     THEN /\ attempts = [i \in 1..Attempts |-> IF i = 1 THEN "running" ELSE "none"]
          /\ logins = 1
     ELSE attempts = <<>> /\ logins = 0
  /\ pending = 0 /\ tasks = 0 /\ core = "idle" /\ visits = 0

AttemptStep == \E i \in DOMAIN attempts : AttemptEnds(i)
Finish      == \E r \in active : RequestFinished(r)
Answer      == TryAgain \/ GiveUp

Next ==
  \/ \E kind \in Kinds : Ask(kind)
  \/ Finish \/ SlotEnds
  \/ AttemptStep \/ UserCancels
  \/ DownloadRequestedNXM \/ LoggedInAction
  \/ Answer \/ HandLink \/ LoginCompleted
  \/ ConnectAccount \/ ClearKey \/ SetOffline

\* Timers end every attempt and every request; slots return; the user answers.
Fairness ==
  /\ WF_vars(Finish) /\ WF_vars(SlotEnds) /\ WF_vars(AttemptStep)
  /\ WF_vars(Answer) /\ WF_vars(HandLink) /\ WF_vars(LoginCompleted)

Spec == Init /\ [][Next]_vars /\ Fairness

-----------------------------------------------------------------------------
(* Properties.                                                               *)

\* The types of the queue, the account and the login; of the attempts at most
\* one runs at a time, after attempts that failed softly and before attempts
\* that were never started (nxmaccessmanager.cpp:708).
TypeOK ==
  /\ queue \in Seq(Request) /\ active \subseteq Request
  /\ outcome \in Seq(Outcomes) /\ Len(outcome) <= MaxRequests
  /\ slots \in Seq([id : 1..MaxRequests, left : AllLeft \union {"kept"}])
  /\ user \in Account /\ stored \in BOOLEAN /\ offline \in BOOLEAN
  /\ state \in {"NotChecked", "Valid", "Invalid"}
  /\ attempts \in Seq(Results)
  /\ \A i, j \in DOMAIN attempts :
        i < j => attempts[i] = "soft" \/ attempts[j] = "none"
  /\ pending \in Nat /\ tasks \in 0..MaxTasks
  /\ core \in {"idle", "question", "succeeded", "failed"}
  /\ logins \in 0..MaxLogins /\ visits \in 0..MaxAccounts

\* Every request made is in exactly one place: once in the queue, or once among
\* the active ones, or settled; and one whose answer is being handled is still
\* active.  A redirect, a cleared queue or an answer that leads to new requests
\* and nested answers neither loses nor repeats one (nexusinterface.cpp:857).
RequestsConserved ==
  /\ \A id \in DOMAIN outcome :
        LET queued == Cardinality({i \in DOMAIN queue : queue[i].id = id})
            sent   == Cardinality({r \in active : r.id = id})
        IN  queued + sent = IF outcome[id] = "waiting" \/ id \in Handled
                            THEN 1 ELSE 0
  /\ \A id \in Handled : outcome[id] # "waiting"
                         /\ \E r \in active : r.id = id

\* The validator counts as active although none of its attempts runs.
Stuck == IsActive /\ ~Running

Waiting(id) == id \in DOMAIN outcome /\ outcome[id] = "waiting"
GivenUp     == \E id \in DOMAIN outcome : outcome[id] = "aborted"

\* Links wait only while a login may still come: never beside a valid account,
\* and beside a failed login only if the validator is stuck.  (A refusal after
\* the key was removed in the settings also leaves them: organizercore.cpp:308.)
LinksWaitOnlyForLogin ==
  core = "idle" /\ pending > 0 =>
    /\ state # "Valid"
    /\ state = "Invalid" /\ visits = 0 => Stuck

\* With a valid account and no slot of the login under way, requests are left
\* in the queue with nothing sent only behind a link that was given up as
\* premium-only (nexusinterface.cpp:792 returns without going on).
QueueMoves ==
  state = "Valid" /\ core = "idle" /\ queue # <<>> /\ active = {} => GivenUp

\* An account that stays valid serves every request, unless a link was given up.
ValidAccountServes ==
  <>[](state = "Valid") =>
    \A id \in 1..MaxRequests : Waiting(id) ~> ~Waiting(id) \/ GivenUp

\* A validation that runs comes to an end, and with it the question it leads to
\* and the links that waited for it, or the validator is stuck.
LoginEnds ==
  Running ~> core = "idle" /\ ~Running /\ (pending = 0 \/ state # "Valid")
=============================================================================
