----------------------- MODULE PostgresEventBrokerProofs -----------------------
(***************************************************************************)
(* Proofs about PostgresEventBroker, for any handlers, events, sends,      *)
(* retry limits and crashes.                                               *)
(*                                                                         *)
(* The arguments.  A job moves on through its states and its attempts      *)
(* (Moves), so that an execution that is not the current one of its job    *)
(* never is again.  The current execution has handed over what it has not  *)
(* pending (Handover); when it ends, nothing is pending.  In its first     *)
(* attempt a job has one execution, which hands each output over once      *)
(* (FirstAttempt), so that an output has no more jobs than its cause has   *)
(* jobs that handed it over (Sends).  As long as nothing is exposed, all   *)
(* names are listed whenever there is work to do, so that what an          *)
(* execution hands over to a name is sent (Routed).                        *)
(***************************************************************************)
EXTENDS PostgresEventBroker, FiniteSetTheorems, TLAPS

JobStates == {"unsent"} \cup Live \cup Ended

Typed == TypeOK /\ retries \in [Jobs -> Nat]

\* An execution has been fetched in an attempt its job has come to; when the
\* job can be fetched again, it is a later attempt.
Attempts ==
  \A x \in executions :
    /\ jobState[x.job] # "unsent"
    /\ x.attempt <= retries[x.job]
    /\ jobState[x.job] = "created" => x.attempt < retries[x.job]

\* Only outputs of the job are pending.
Pending == \A x \in executions : x.pending \subseteq OutputsOf(x.job)

\* What the current execution of a job does not have pending is handed over.
Handover ==
  /\ \A x \in executions : Current(x) /\ x.phase = "emitting" =>
       OutputsOf(x.job) \subseteq handed[x.job] \cup x.pending
  /\ CompletedMeansHanded

\* f has been sent, or need not be: it is handled by a callback, nobody is
\* registered for it, or pg-boss may refuse it.
Delivered(f) ==
  \/ f \in Domained \/ To[f] \notin Names \ Throttled
  \/ \E k \in Jobs : EventOf[k] = f /\ jobState[k] # "unsent"

\* As long as nothing is exposed, all names are listed while there is work to do,
\* and what has been handed over is not lost.
Routed ==
  ~exposed =>
    /\ executions # {} \/ (\E j \in Jobs : jobState[j] \in Live) => Names \subseteq queues
    /\ \A j \in Jobs : \A f \in handed[j] : Delivered(f)

\* A job in its first attempt has one execution at most, and each output is
\* pending, handed over, or neither.
First(j) ==
  /\ \A x, y \in executions : x.job = j /\ y.job = j => x = y
  /\ \A x \in executions : x.job = j =>
       /\ x.pending \cap handed[j] = {}
       /\ x.phase = "executing" => handed[j] = {}
  /\ jobState[j] \in {"unsent", "created"} => handed[j] = {}

FirstAttempt == \A j \in Jobs : retries[j] = 0 => First(j)

\* The jobs of an event that have been sent, and those that have handed f over.
Sent(e) == {j \in Jobs : EventOf[j] = e /\ jobState[j] # "unsent"}
Handing(e, f) == {j \in Sent(e) : f \in handed[j]}

\* Sends are finitely many, and those of an output made in first attempts are
\* one per job that handed it over.
Sends ==
  /\ IsFiniteSet({j \in Jobs : jobState[j] # "unsent"})
  /\ \A e, f \in Events : Cause[f] = e /\ (\A j \in Sent(e) : retries[j] = 0) =>
       Cardinality(Sent(f)) <= Cardinality(Handing(e, f))

PgInv == Typed /\ Attempts /\ Pending /\ Handover /\ Routed /\ FirstAttempt /\ Sends

-----------------------------------------------------------------------------
(* What the steps do to jobs and executions *)

\* How a job may move on in a step.
Move(j) ==
  \/ jobState'[j] = jobState[j] /\ retries'[j] = retries[j]
  \/ jobState[j] = "unsent" /\ jobState'[j] = "created" /\ retries'[j] = retries[j]
  \/ jobState[j] = "created" /\ jobState'[j] = "active" /\ retries'[j] = retries[j]
  \/ jobState[j] = "active" /\ jobState'[j] \in Ended /\ retries'[j] = retries[j]
  \/ jobState[j] = "created" /\ jobState'[j] = "deleted" /\ retries'[j] = retries[j]
  \/ jobState[j] = "active" /\ jobState'[j] = "created" /\ retries'[j] = retries[j] + 1

JobsTyped ==
  /\ jobState \in [Jobs -> JobStates]
  /\ retries \in [Jobs -> Nat]
  /\ \A j \in Jobs : retries[j] \in 0 .. RetryLimit[Queue(j)]

\* Every job has a queue, and so a retry limit.
LEMMA JobFacts ==
  ASSUME NEW j \in Jobs
  PROVE  EventOf[j] \in Events /\ Queue(j) \in Names /\ RetryLimit[Queue(j)] \in Nat
BY EventsAssumption, NamesAssumption DEF Queue

\* A job that fails is created anew in a later attempt, or ends.
LEMMA FailedEffect ==
  ASSUME JobsTyped, NEW j \in Jobs, jobState[j] = "active",
         NEW states \in [Jobs -> JobStates],
         jobState' = Failed(states, j), retries' = [retries EXCEPT ![j] = RetriesAfter(j)]
  PROVE  /\ JobsTyped'
         /\ Move(j)
         /\ jobState'[j] # "active" \/ retries'[j] # retries[j]
         /\ jobState'[j] \in {"created", "failed"}
         /\ \A i \in Jobs \ {j} : jobState'[i] = states[i] /\ retries'[i] = retries[i]
<1> USE DEF JobsTyped, JobStates, Live, Ended
<1>1. retries[j] \in Nat /\ RetryLimit[Queue(j)] \in Nat /\ retries[j] <= RetryLimit[Queue(j)]
  BY JobFacts
<1>2. CASE retries[j] < RetryLimit[Queue(j)]
  <2>1. /\ jobState' = [states EXCEPT ![j] = "created"]
        /\ retries' = [retries EXCEPT ![j] = retries[j] + 1]
    BY <1>2 DEF Failed, RetriesAfter, Limit
  <2> QED
    BY <1>1, <1>2, <2>1 DEF Move, Queue
<1>3. CASE ~(retries[j] < RetryLimit[Queue(j)])
  <2>1. /\ jobState' = [states EXCEPT ![j] = "failed"]
        /\ retries' = retries
    BY <1>3 DEF Failed, RetriesAfter, Limit
  <2> QED
    BY <1>1, <2>1 DEF Move, Queue
<1> QED
  BY <1>2, <1>3

\* A worker that rejects fails its job, if the execution is the current one.
LEMMA RejectsEffect ==
  ASSUME JobsTyped, NEW x \in Executions, NEW states \in [Jobs -> JobStates],
         states[x.job] = jobState[x.job], Rejects(x, states)
  PROVE  /\ JobsTyped'
         /\ Move(x.job)
         /\ ~(jobState'[x.job] = "active" /\ x.attempt = retries'[x.job])
         /\ jobState'[x.job] = "completed" => jobState[x.job] = "completed"
         /\ \A i \in Jobs \ {x.job} : jobState'[i] = states[i] /\ retries'[i] = retries[i]
<1>1. x.job \in Jobs
  BY DEF Executions
<1>2. CASE Current(x)
  BY <1>1, <1>2, FailedEffect DEF Current, Rejects
<1>3. CASE ~Current(x)
  BY <1>1, <1>3 DEF Current, Rejects, JobsTyped, Move, Queue
<1> QED
  BY <1>2, <1>3

\* A worker that resolves completes its job, if the execution is the current one.
LEMMA ResolvesEffect ==
  ASSUME JobsTyped, NEW x \in Executions, Resolves(x)
  PROVE  /\ JobsTyped'
         /\ \A i \in Jobs : Move(i)
         /\ \A i \in Jobs : i # x.job \/ ~Current(x) => jobState'[i] = jobState[i]
         /\ retries' = retries
<1>1. x.job \in Jobs
  BY DEF Executions
<1> QED
  BY <1>1 DEF Resolves, Current, JobsTyped, Move, JobStates, Live, Ended, Queue

\* A send creates one job of the event.
LEMMA SentJob ==
  ASSUME NEW e \in Events, Unsent(e) # {}
  PROVE  AnyUnsent(e) \in Jobs /\ EventOf[AnyUnsent(e)] = e /\ jobState[AnyUnsent(e)] = "unsent"
BY DEF Unsent, AnyUnsent

\* Send creates one job, of an output that is pending; it may also fail the job
\* of the execution, which then is current no more.
LEMMA SendEffect ==
  ASSUME JobsTyped, NEW x \in Executions, jobState[x.job] # "unsent",
         NEW f \in Events, NEW answered \in BOOLEAN, Send(x, f, answered)
  PROVE  /\ JobsTyped'
         /\ \A i \in Jobs : Move(i)
         /\ Current(x)' => Current(x)
         /\ \A i \in Jobs : jobState'[i] = "completed" => jobState[i] = "completed"
         /\ \E k \in Jobs : /\ EventOf[k] = f
                            /\ jobState[k] = "unsent" /\ jobState'[k] = "created"
                            /\ \A i \in Jobs \ {k} : jobState'[i] = "unsent" <=> jobState[i] = "unsent"
<1> DEFINE k == AnyUnsent(f)
           sent == [jobState EXCEPT ![k] = "created"]
<1>1. k \in Jobs /\ EventOf[k] = f /\ jobState[k] = "unsent" /\ x.job \in Jobs
  BY SentJob DEF Send, Executions
<1>2. k # x.job
  BY <1>1
<1>3. /\ sent \in [Jobs -> JobStates] /\ sent[k] = "created"
      /\ \A i \in Jobs \ {k} : sent[i] = jobState[i]
  BY <1>1 DEF JobsTyped, JobStates, Live
<1>4. IF answered THEN jobState' = sent /\ UNCHANGED retries ELSE Rejects(x, sent)
  BY DEF Send
<1> HIDE DEF sent, k
<1>5. CASE answered
  <2>1. JobsTyped'
    BY <1>3, <1>4, <1>5 DEF JobsTyped, Queue
  <2>2. \A i \in Jobs : Move(i)
    BY <1>1, <1>3, <1>4, <1>5 DEF Move
  <2>3. Current(x)' => Current(x)
    BY <1>1, <1>2, <1>3, <1>4, <1>5 DEF Current
  <2> QED
    BY <2>1, <2>2, <2>3, <1>1, <1>3, <1>4, <1>5
<1>6. CASE ~answered
  <2>1. /\ JobsTyped' /\ Move(x.job)
        /\ ~(jobState'[x.job] = "active" /\ x.attempt = retries'[x.job])
        /\ jobState'[x.job] = "completed" => jobState[x.job] = "completed"
        /\ \A i \in Jobs \ {x.job} : jobState'[i] = sent[i] /\ retries'[i] = retries[i]
    BY <1>2, <1>3, <1>1, <1>4, <1>6, RejectsEffect
  <2>2. \A i \in Jobs : Move(i)
    BY <2>1, <1>1, <1>3 DEF Move
  <2>3. jobState'[x.job] # "unsent"
    BY <2>1 DEF Move, Ended
  <2> QED
    BY <2>1, <2>2, <2>3, <1>1, <1>2, <1>3 DEF Current
<1> QED
  BY <1>5, <1>6

\* In every step each job moves on or stays, and no job is taken back.
LEMMA JobsMove ==
  ASSUME Typed, Attempts, [Next]_vars PROVE JobsTyped' /\ \A i \in Jobs : Move(i)
<1>0. JobsTyped /\ executions \subseteq Executions
  BY DEF Typed, TypeOK, JobsTyped, JobStates
<1>1. ASSUME UNCHANGED <<jobState, retries>> PROVE JobsTyped' /\ \A i \in Jobs : Move(i)
  BY <1>0, <1>1 DEF JobsTyped, Move, Queue
<1>2. ASSUME NEW n \in Names, SetUp(n) \/ RegistrationFails(n)
      PROVE  JobsTyped' /\ \A i \in Jobs : Move(i)
  <2>1. CASE Deleted(n) /\ UNCHANGED retries
    BY <1>0, <2>1 DEF Deleted, JobsTyped, JobStates, Live, Move, Ended, Queue
  <2> QED
    BY <1>1, <1>2, <2>1
       DEF SetUp, Register, QueueDeleted, QueueCreated, RegistrationFails, database
<1>3. ASSUME NEW e \in Events, Dispatch(e) PROVE JobsTyped' /\ \A i \in Jobs : Move(i)
  <2>1. AnyUnsent(e) \in Jobs /\ jobState[AnyUnsent(e)] = "unsent"
    BY <1>3, SentJob DEF Dispatch
  <2>2. jobState' = [jobState EXCEPT ![AnyUnsent(e)] = "created"] /\ retries' = retries
    BY <1>3 DEF Dispatch
  <2> QED
    BY <1>0, <2>1, <2>2 DEF JobsTyped, JobStates, Live, Move, Queue
<1>4. ASSUME NEW j \in Jobs, Fetch(j) PROVE JobsTyped' /\ \A i \in Jobs : Move(i)
  BY <1>0, <1>4 DEF Fetch, JobsTyped, JobStates, Live, Move, Queue
<1>5. ASSUME NEW j \in Jobs, Expire(j) PROVE JobsTyped' /\ \A i \in Jobs : Move(i)
  <2>1. /\ JobsTyped' /\ Move(j)
        /\ \A i \in Jobs \ {j} : jobState'[i] = jobState[i] /\ retries'[i] = retries[i]
    BY <1>0, <1>5, FailedEffect DEF Expire, JobsTyped
  <2> QED
    BY <2>1 DEF Move
<1>6. ASSUME NEW x \in executions, Work(x) PROVE JobsTyped' /\ \A i \in Jobs : Move(i)
  <2>0. x \in Executions /\ jobState[x.job] # "unsent" /\ x.job \in Jobs
    BY <1>0 DEF Attempts, Executions
  <2>1. CASE Resolves(x)
    BY <1>0, <2>0, <2>1, ResolvesEffect
  <2>2. CASE Rejects(x, jobState)
    <3>1. /\ JobsTyped' /\ Move(x.job)
          /\ \A i \in Jobs \ {x.job} : jobState'[i] = jobState[i] /\ retries'[i] = retries[i]
      BY <1>0, <2>0, <2>2, RejectsEffect DEF JobsTyped
    <3> QED
      BY <3>1 DEF Move
  <2>3. ASSUME NEW f \in Events, NEW answered \in BOOLEAN, Send(x, f, answered)
        PROVE  JobsTyped' /\ \A i \in Jobs : Move(i)
    BY <1>0, <2>0, <2>3, SendEffect
  <2> QED
    BY <1>1, <1>6, <2>1, <2>2, <2>3
       DEF Work, Listen, ExecuteFails, ExecuteReturns, EmitDomained, SendIgnored, SendFails,
           Finish, database
<1>7. CASE Crash
  BY <1>1, <1>7 DEF Crash, database
<1>8. ASSUME NEW n \in Bare, CreateQueue(n) PROVE JobsTyped' /\ \A i \in Jobs : Move(i)
  BY <1>1, <1>8 DEF CreateQueue
<1> QED
  BY <1>1, <1>2, <1>3, <1>4, <1>5, <1>6, <1>7, <1>8 DEF Next, WorkOn, vars, database

\* How the executions may change in a step: one is added by a fetch, one goes on
\* or ends, or all end in a crash.
Goes(x, y) == y \in Executions /\ y.job = x.job /\ y.attempt = x.attempt /\ y.phase = "emitting"

\* What the work of an execution does to the executions.
LEMMA WorkEffect ==
  ASSUME Typed, NEW x \in executions, Work(x)
  PROVE  \/ executions' = executions \ {x} /\ handed' = handed
         \/ /\ x.phase = "executing"
            /\ Queue(x.job) # Home
            /\ \E y : /\ Goes(x, y)
                      /\ executions' = (executions \ {x}) \cup {y}
                      /\ y.pending \subseteq OutputsOf(x.job)
                      /\ handed' = [handed EXCEPT ![x.job] = @ \cup (OutputsOf(x.job) \ y.pending)]
         \/ /\ x.phase = "emitting"
            /\ \E y : /\ Goes(x, y)
                      /\ executions' = (executions \ {x}) \cup {y}
                      /\ \E f \in x.pending :
                           /\ y.pending = x.pending \ {f}
                           /\ \/ handed' = [handed EXCEPT ![x.job] = @ \cup {f}]
                              \/ handed' = handed /\ ~Current(x)'
<1>0. x \in Executions /\ x.job \in Jobs /\ x.pending \subseteq Events
  BY DEF Typed, TypeOK, Executions
<1>1. CASE Listen(x) \/ ExecuteFails(x) \/ Finish(x)
  BY <1>1 DEF Listen, ExecuteFails, Finish, history
<1>2. CASE ExecuteReturns(x)
  <2> DEFINE lost == {f \in OutputsOf(x.job) : Unroutable(f)}
             y == [x EXCEPT !.phase = "emitting", !.pending = OutputsOf(x.job) \ lost]
  <2>1. lost \subseteq OutputsOf(x.job) /\ OutputsOf(x.job) \in SUBSET Events
    BY DEF OutputsOf
  <2>2. /\ x.phase = "executing" /\ Queue(x.job) # Home
        /\ executions' = (executions \ {x}) \cup {y}
        /\ handed' = [handed EXCEPT ![x.job] = @ \cup lost]
    BY <1>2 DEF ExecuteReturns
  <2> HIDE DEF lost
  <2>3. Goes(x, y) /\ y.pending = OutputsOf(x.job) \ lost
    <3>1. OutputsOf(x.job) \ lost \in SUBSET Events
      BY <2>1
    <3> QED
      BY <1>0, <3>1 DEF Goes, Executions
  <2>4. OutputsOf(x.job) \ y.pending = lost
    BY <2>1, <2>3
  <2> HIDE DEF y
  <2> QED
    BY <2>1, <2>2, <2>3, <2>4
<1>3. ASSUME NEW f \in x.pending, x.phase = "emitting", Emitted(x, f),
             \/ handed' = [handed EXCEPT ![x.job] = @ \cup {f}]
             \/ handed' = handed /\ ~Current(x)'
      PROVE  \E y : /\ Goes(x, y)
                    /\ executions' = (executions \ {x}) \cup {y}
                    /\ y.pending = x.pending \ {f}
  <2> DEFINE y == [x EXCEPT !.pending = @ \ {f}]
  <2>1. executions' = (executions \ {x}) \cup {y}
    BY <1>3 DEF Emitted
  <2>2. y \in Executions /\ y.job = x.job /\ y.attempt = x.attempt /\ y.phase = x.phase
        /\ y.pending = x.pending \ {f}
    BY <1>0 DEF Executions
  <2> HIDE DEF y
  <2> QED
    BY <1>3, <2>1, <2>2 DEF Goes
<1>4. ASSUME NEW f \in Events, SendFails(x, f) PROVE ~Current(x)'
  <2>1. JobsTyped /\ jobState \in [Jobs -> JobStates]
    BY DEF Typed, TypeOK, JobsTyped, JobStates
  <2> QED
    BY <1>0, <1>4, <2>1, RejectsEffect DEF SendFails, Current
<1> QED
  BY <1>1, <1>2, <1>3, <1>4 DEF Work, EmitDomained, SendIgnored, Send, SendFails, history

\* The executions after a step.
LEMMA ExecutionsStep ==
  ASSUME Typed, [Next]_vars, NEW y \in executions'
  PROVE  \/ \E x \in executions : y = x \/ (Work(x) /\ Goes(x, y))
         \/ /\ y.job \in Jobs /\ jobState[y.job] = "created" /\ jobState'[y.job] = "active"
            /\ y = [job |-> y.job, attempt |-> retries[y.job],
                    phase |-> "executing", pending |-> {}]
            /\ executions' = executions \cup {y} /\ UNCHANGED <<retries, handed>>
<1>1. ASSUME NEW j \in Jobs, Fetch(j)
      PROVE  \/ y \in executions
             \/ /\ y.job \in Jobs /\ jobState[y.job] = "created" /\ jobState'[y.job] = "active"
                /\ y = [job |-> y.job, attempt |-> retries[y.job],
                        phase |-> "executing", pending |-> {}]
                /\ executions' = executions \cup {y} /\ UNCHANGED <<retries, handed>>
  <2> DEFINE z == [job |-> j, attempt |-> retries[j], phase |-> "executing", pending |-> {}]
  <2>1. /\ executions' = executions \cup {z}
        /\ jobState' = [jobState EXCEPT ![j] = "active"]
        /\ jobState[j] = "created"
        /\ UNCHANGED <<retries, handed>>
    BY <1>1 DEF Fetch, history
  <2>2. jobState'[j] = "active"
    BY <2>1 DEF Typed, TypeOK
  <2>3. CASE y = z
    BY <2>1, <2>2, <2>3
  <2> QED
    BY <2>1, <2>3
<1>2. ASSUME NEW x \in executions, Work(x)
      PROVE  y \in executions \/ Goes(x, y)
  BY <1>2, WorkEffect
<1>3. ASSUME executions' = executions \/ executions' = {} PROVE y \in executions
  BY <1>3
<1> QED
  BY <1>1, <1>2, <1>3 DEF Next, SetUp, Register, QueueDeleted, QueueCreated, RegistrationFails,
                          CreateQueue, Dispatch, Expire, Crash, WorkOn, vars

\* Every step leaves the variables well typed.
LEMMA TypeStep == ASSUME Typed, Attempts, [Next]_vars PROVE Typed'
<1>1. JobsTyped'
  BY JobsMove
<1>2. executions' \in SUBSET Executions
  <2> SUFFICES ASSUME NEW y \in executions' PROVE y \in Executions
    OBVIOUS
  <2>1. ASSUME y.job \in Jobs,
               y = [job |-> y.job, attempt |-> retries[y.job],
                    phase |-> "executing", pending |-> {}]
        PROVE  y \in Executions
    BY <2>1 DEF Typed, Executions
  <2> QED
    BY <2>1, ExecutionsStep DEF Goes, Typed, TypeOK
<1> DEFINE Others == /\ handlers \in SUBSET Names
                     /\ queues \in SUBSET (Names \cup Bare)
                     /\ registration \in
                          [Names -> {"none", "deleting", "creating", "working", "failed"}]
                     /\ existing \in SUBSET (Names \cup Bare)
                     /\ handed \in [Jobs -> SUBSET Events]
                     /\ unroutable \in SUBSET Events
                     /\ heard \in SUBSET Events
                     /\ exposed \in BOOLEAN
                     /\ crashes \in 0 .. MaxCrashes
<1>3. Others'
  <2> USE DEF Typed, TypeOK
  <2>1. ASSUME NEW n \in Names, SetUp(n) \/ RegistrationFails(n) PROVE Others'
    BY <2>1 DEF SetUp, Register, QueueDeleted, QueueCreated, RegistrationFails, Deleted, List,
                database, history
  <2>2. CASE \/ \E e \in Events : Dispatch(e)
             \/ \E j \in Jobs : Fetch(j) \/ Expire(j)
             \/ UNCHANGED vars
    BY <2>2 DEF Dispatch, Fetch, Expire, vars, registry, database, history
  <2>3. ASSUME NEW x \in executions, Work(x) PROVE Others'
    <3>1. x.job \in Jobs
      BY DEF Executions
    <3>2. UNCHANGED <<handlers, queues, registration, existing, exposed, crashes>>
      BY <2>3 DEF Work, Listen, ExecuteFails, ExecuteReturns, EmitDomained, SendIgnored, Send,
                  SendFails, Finish, registry, database, history
    <3>3. heard' \subseteq Events /\ unroutable' \subseteq Events
      BY <2>3, <3>1, JobFacts
         DEF Work, Listen, ExecuteFails, ExecuteReturns, EmitDomained, SendIgnored, Send,
             SendFails, Finish, history, OutputsOf
    <3>4. \/ handed' = handed
          \/ \E P \in SUBSET Events : handed' = [handed EXCEPT ![x.job] = @ \cup P]
      <4>1. x.pending \subseteq Events /\ OutputsOf(x.job) \subseteq Events
        BY DEF Executions, OutputsOf
      <4> QED
        BY <4>1, <2>3, WorkEffect
    <3> QED
      BY <3>1, <3>2, <3>3, <3>4
  <2>4. CASE Crash
    BY <2>4, MaxCrashesAssumption DEF Crash, database, history
  <2>5. ASSUME NEW n \in Bare, CreateQueue(n) PROVE Others'
    BY <2>5 DEF CreateQueue, List, history
  <2> QED
    BY <2>1, <2>2, <2>3, <2>4, <2>5 DEF Next, WorkOn
<1> QED
  BY <1>1, <1>2, <1>3 DEF Typed, TypeOK, JobsTyped, JobStates

\* An execution stays behind the job that has moved on from it.
LEMMA AttemptsStep == ASSUME Typed, Attempts, [Next]_vars PROVE Attempts'
<1> SUFFICES ASSUME NEW y \in executions'
             PROVE  /\ jobState'[y.job] # "unsent"
                    /\ y.attempt <= retries'[y.job]
                    /\ jobState'[y.job] = "created" => y.attempt < retries'[y.job]
  BY DEF Attempts
<1>1. \A i \in Jobs : Move(i) /\ retries[i] \in Nat /\ retries'[i] \in Nat
  BY JobsMove DEF Typed, JobsTyped
<1>2. ASSUME NEW x \in executions, y.job = x.job, y.attempt = x.attempt
      PROVE  /\ jobState'[y.job] # "unsent"
             /\ y.attempt <= retries'[y.job]
             /\ jobState'[y.job] = "created" => y.attempt < retries'[y.job]
  <2>1. x.job \in Jobs /\ x.attempt \in Nat
    BY DEF Typed, TypeOK, Executions
  <2>2. /\ jobState[x.job] # "unsent"
        /\ x.attempt <= retries[x.job]
        /\ jobState[x.job] = "created" => x.attempt < retries[x.job]
    BY DEF Attempts
  <2> QED
    BY <1>1, <1>2, <2>1, <2>2 DEF Move, Ended
<1>3. ASSUME y.job \in Jobs, jobState'[y.job] = "active",
             y = [job |-> y.job, attempt |-> retries[y.job],
                  phase |-> "executing", pending |-> {}],
             UNCHANGED retries
      PROVE  /\ jobState'[y.job] # "unsent"
             /\ y.attempt <= retries'[y.job]
             /\ jobState'[y.job] = "created" => y.attempt < retries'[y.job]
  <2>1. y.attempt = retries[y.job]
    BY <1>3
  <2> QED
    BY <1>1, <1>3, <2>1
<1> QED
  BY <1>2, <1>3, ExecutionsStep DEF Goes

\* The initial state, in which nothing has been sent.
LEMMA PgInit == Init => PgInv
<1> SUFFICES ASSUME Init PROVE PgInv
  OBVIOUS
<1>1. Typed
  <2>1. /\ jobState \in [Jobs -> {"unsent"} \cup Live \cup Ended]
        /\ retries \in [Jobs -> Nat]
        /\ \A j \in Jobs : retries[j] \in 0 .. RetryLimit[Queue(j)]
    BY JobFacts DEF Init
  <2>2. exposed \in BOOLEAN
    BY DEF Init
  <2>3. crashes \in 0 .. MaxCrashes
    BY MaxCrashesAssumption DEF Init
  <2>4. handed \in [Jobs -> SUBSET Events] /\ executions \in SUBSET Executions
    BY DEF Init
  <2> QED
    BY <2>1, <2>2, <2>3, <2>4 DEF Init, Typed, TypeOK
<1>2. \A e \in Events : Sent(e) = {}
  BY DEF Init, Sent
<1>3. Attempts /\ Pending /\ Handover /\ Routed /\ FirstAttempt
  BY DEF Init, Attempts, Pending, Handover, CompletedMeansHanded, Routed, Live, FirstAttempt,
         First
<1>4. Sends
  <2>1. {j \in Jobs : jobState[j] # "unsent"} = {}
    BY DEF Init
  <2>2. \A e, f \in Events : Handing(e, f) = {}
    BY <1>2 DEF Handing
  <2> QED
    BY <1>2, <2>1, <2>2, FS_EmptySet DEF Sends
<1> QED
  BY <1>1, <1>3, <1>4 DEF PgInv

\* The variables keep their types, and no job is retried more often than the
\* options of its destination allow (index.ts:374-380).
THEOREM TypeCorrect == Spec => []TypeOK
<1>1. Typed /\ Attempts /\ [Next]_vars => Typed' /\ Attempts'
  BY TypeStep, AttemptsStep
<1>2. PgInv => Typed /\ Attempts
  BY DEF PgInv
<1>3. Typed => TypeOK
  BY DEF Typed
<1> QED
  BY PgInit, <1>1, <1>2, <1>3, PTL DEF Spec

-----------------------------------------------------------------------------
(* Completion *)

\* What has been handed over stays so, and only the work of a job adds to it.
LEMMA HandedGrows ==
  ASSUME Typed, [Next]_vars, NEW j \in Jobs PROVE handed[j] \subseteq handed'[j]
<1>1. ASSUME NEW x \in executions, Work(x) PROVE handed[j] \subseteq handed'[j]
  <2>1. \/ handed' = handed
        \/ \E S : handed' = [handed EXCEPT ![x.job] = @ \cup S]
    BY <1>1, WorkEffect
  <2> QED
    BY <2>1 DEF Typed, TypeOK
<1> QED
  BY <1>1 DEF Next, SetUp, Register, QueueDeleted, QueueCreated, RegistrationFails,
              CreateQueue, Dispatch, Fetch, Expire, Crash, WorkOn, vars, history

\* An execution that is not current never is again.
LEMMA CurrentBack ==
  ASSUME Typed, Attempts, [Next]_vars, NEW x \in executions, Current(x)' PROVE Current(x)
<1>1. x.job \in Jobs /\ x.attempt \in Nat /\ retries[x.job] \in Nat
  BY DEF Typed, TypeOK, Executions
<1>2. Move(x.job)
  BY <1>1, JobsMove
<1> QED
  BY <1>1, <1>2 DEF Current, Move, Attempts, Ended

\* A job completes when its current execution ends: the listener's, or one that
\* has nothing pending.
LEMMA Completion ==
  ASSUME Typed, Attempts, [Next]_vars, NEW j \in Jobs,
         jobState[j] # "completed", jobState'[j] = "completed"
  PROVE  \E x \in executions :
           /\ x.job = j /\ Current(x) /\ handed' = handed
           /\ \/ Queue(j) = Home
              \/ x.phase = "emitting" /\ x.pending = {}
<1>0. JobsTyped /\ executions \subseteq Executions
  BY DEF Typed, TypeOK, JobsTyped, JobStates
<1>1. ASSUME NEW n \in Names, SetUp(n) \/ RegistrationFails(n) PROVE FALSE
  BY <1>0, <1>1 DEF SetUp, Register, QueueDeleted, QueueCreated, RegistrationFails, Deleted,
                    database, JobsTyped
<1>2. ASSUME NEW e \in Events, Dispatch(e) PROVE FALSE
  BY <1>0, <1>2 DEF Dispatch, JobsTyped
<1>3. ASSUME NEW i \in Jobs, Fetch(i) PROVE FALSE
  BY <1>0, <1>3 DEF Fetch, JobsTyped
<1>4. ASSUME NEW i \in Jobs, Expire(i) PROVE FALSE
  <2>1. /\ jobState'[i] \in {"created", "failed"}
        /\ \A k \in Jobs \ {i} : jobState'[k] = jobState[k]
    BY <1>0, <1>4, FailedEffect DEF Expire, JobsTyped
  <2> QED
    BY <2>1
<1>5. ASSUME NEW x \in executions, Work(x)
      PROVE  /\ x.job = j /\ Current(x) /\ handed' = handed
             /\ \/ Queue(j) = Home
                \/ x.phase = "emitting" /\ x.pending = {}
  <2>0. x \in Executions /\ jobState[x.job] # "unsent"
    BY <1>0 DEF Attempts
  <2>1. ~Rejects(x, jobState)
    BY <1>0, <2>0, RejectsEffect DEF JobsTyped
  <2>2. \A f \in Events, answered \in BOOLEAN : ~Send(x, f, answered)
    BY <1>0, <2>0, SendEffect
  <2>3. jobState' # jobState
    OBVIOUS
  <2>4. Listen(x) \/ Finish(x)
    BY <1>5, <2>1, <2>2, <2>3 DEF Work, ExecuteFails, ExecuteReturns, EmitDomained,
                                  SendIgnored, SendFails, database
  <2>5. Resolves(x)
    BY <2>4 DEF Listen, Finish
  <2>6. x.job = j /\ Current(x)
    BY <1>0, <2>0, <2>5, ResolvesEffect
  <2> QED
    BY <2>4, <2>6 DEF Listen, Finish, history
<1>6. CASE Crash \/ (\E n \in Bare : CreateQueue(n)) \/ UNCHANGED vars
  BY <1>6 DEF Crash, CreateQueue, vars, database
<1> QED
  BY <1>1, <1>2, <1>3, <1>4, <1>5, <1>6 DEF Next, WorkOn

\* The current execution of a job has handed over what it has not pending.
LEMMA HandoverStep == ASSUME Typed, Attempts, Handover, [Next]_vars PROVE Handover'
<1>1. ASSUME NEW y \in executions', Current(y)', y.phase = "emitting"
      PROVE  OutputsOf(y.job) \subseteq handed'[y.job] \cup y.pending
  <2>1. CASE y \in executions
    <3>1. y.job \in Jobs
      BY <2>1 DEF Typed, TypeOK, Executions
    <3>2. Current(y)
      BY <1>1, <2>1, CurrentBack
    <3> QED
      BY <1>1, <2>1, <3>1, <3>2, HandedGrows DEF Handover
  <2>2. CASE y \notin executions
    <3>1. PICK x \in executions : Work(x) /\ Goes(x, y)
      BY <1>1, <2>2, ExecutionsStep
    <3>2. Current(x)' /\ Current(x) /\ x.job \in Jobs
      <4>1. Current(x)' /\ x.job \in Jobs
        BY <1>1, <3>1 DEF Goes, Current, Typed, TypeOK, Executions
      <4> QED
        BY <4>1, CurrentBack
    <3>3. CASE /\ x.phase = "executing"
               /\ handed' = [handed EXCEPT ![x.job] = @ \cup (OutputsOf(x.job) \ y.pending)]
      BY <3>1, <3>2, <3>3 DEF Goes, Typed, TypeOK
    <3>4. CASE /\ x.phase = "emitting"
               /\ \E f \in x.pending :
                    /\ y.pending = x.pending \ {f}
                    /\ \/ handed' = [handed EXCEPT ![x.job] = @ \cup {f}]
                       \/ handed' = handed /\ ~Current(x)'
      <4>1. OutputsOf(x.job) \subseteq handed[x.job] \cup x.pending
        BY <3>2, <3>4 DEF Handover
      <4> QED
        BY <3>1, <3>2, <3>4, <4>1 DEF Goes, Typed, TypeOK
    <3> QED
      BY <2>2, <3>1, <3>3, <3>4, WorkEffect
  <2> QED
    BY <2>1, <2>2
<1>2. ASSUME NEW j \in Jobs, jobState'[j] = "completed" PROVE OutputsOf(j) \subseteq handed'[j]
  <2>1. CASE jobState[j] = "completed"
    BY <2>1, HandedGrows DEF Handover, CompletedMeansHanded
  <2>2. CASE jobState[j] # "completed"
    <3>1. PICK x \in executions :
             /\ x.job = j /\ Current(x) /\ handed' = handed
             /\ \/ Queue(j) = Home
                \/ x.phase = "emitting" /\ x.pending = {}
      BY <1>2, <2>2, Completion
    <3>2. CASE Queue(j) = Home
      <4>1. OutputsOf(j) = {}
        BY <3>2, JobFacts, EventsAssumption DEF OutputsOf, Queue
      <4> QED
        BY <4>1
    <3> QED
      BY <3>1, <3>2 DEF Handover
  <2> QED
    BY <2>1, <2>2
<1> QED
  BY <1>1, <1>2 DEF Handover, CompletedMeansHanded, OutputsOf

\* Every job completes only after its outputs have been sent or given to a
\* callback, whatever fails, expires, crashes or is answered late in between.
THEOREM CompletionIsEarned == Spec => []CompletedMeansHanded
<1>1. Typed /\ Attempts /\ Handover /\ [Next]_vars => (Typed /\ Attempts /\ Handover)'
  BY TypeStep, AttemptsStep, HandoverStep
<1>2. PgInv => Typed /\ Attempts /\ Handover
  BY DEF PgInv
<1>3. Handover => CompletedMeansHanded
  BY DEF Handover
<1> QED
  BY PgInit, <1>1, <1>2, <1>3, PTL DEF Spec

-----------------------------------------------------------------------------
(* Sends and routes *)

NothingSent == \A i \in Jobs : jobState'[i] = "unsent" <=> jobState[i] = "unsent"

OneSent(k) ==
  /\ jobState[k] = "unsent" /\ jobState'[k] = "created"
  /\ \A i \in Jobs \ {k} : jobState'[i] = "unsent" <=> jobState[i] = "unsent"

\* A step sends nothing, or one job: of an event that the application
\* dispatches, or of an output that an execution has pending.
LEMMA SendsOne ==
  ASSUME Typed, Attempts, [Next]_vars
  PROVE  \/ NothingSent
         \/ \E k \in Jobs :
              /\ OneSent(k)
              /\ \/ /\ Cause[EventOf[k]] = None
                    /\ UNCHANGED <<executions, handed>>
                 \/ \E x \in executions :
                      /\ EventOf[k] \in x.pending
                      /\ handed' = [handed EXCEPT ![x.job] = @ \cup {EventOf[k]}]
<1>0. JobsTyped /\ executions \subseteq Executions
  BY DEF Typed, TypeOK, JobsTyped, JobStates
<1>1. CASE UNCHANGED jobState
  BY <1>1 DEF NothingSent
<1>2. ASSUME NEW n \in Names, Deleted(n) PROVE NothingSent
  BY <1>0, <1>2 DEF Deleted, NothingSent, JobsTyped, Live
<1>3. ASSUME NEW e \in Events, Dispatch(e)
      PROVE  \E k \in Jobs :
               /\ OneSent(k)
               /\ Cause[EventOf[k]] = None
               /\ UNCHANGED <<executions, handed>>
  <2>1. AnyUnsent(e) \in Jobs /\ EventOf[AnyUnsent(e)] = e /\ jobState[AnyUnsent(e)] = "unsent"
    BY <1>3, SentJob DEF Dispatch
  <2>2. OneSent(AnyUnsent(e))
    BY <1>0, <1>3, <2>1 DEF Dispatch, OneSent, JobsTyped
  <2> QED
    BY <1>3, <2>1, <2>2 DEF Dispatch, history
<1>4. ASSUME NEW j \in Jobs, Fetch(j) PROVE NothingSent
  BY <1>0, <1>4 DEF Fetch, NothingSent, JobsTyped
<1>5. ASSUME NEW j \in Jobs, Expire(j) PROVE NothingSent
  <2>1. /\ jobState[j] = "active" /\ jobState'[j] \in {"created", "failed"}
        /\ \A i \in Jobs \ {j} : jobState'[i] = jobState[i]
    BY <1>0, <1>5, FailedEffect DEF Expire, JobsTyped
  <2> QED
    BY <2>1 DEF NothingSent
<1>6. ASSUME NEW x \in executions, Work(x)
      PROVE  \/ NothingSent
             \/ \E k \in Jobs :
                  /\ OneSent(k)
                  /\ EventOf[k] \in x.pending
                  /\ handed' = [handed EXCEPT ![x.job] = @ \cup {EventOf[k]}]
  <2>0. x \in Executions /\ x.job \in Jobs /\ jobState[x.job] # "unsent"
    BY <1>0 DEF Attempts, Executions
  <2>1. CASE Resolves(x)
    <3>1. \A i \in Jobs : Move(i) /\ (i # x.job => jobState'[i] = jobState[i])
      BY <1>0, <2>0, <2>1, ResolvesEffect
    <3>2. jobState'[x.job] # "unsent"
      BY <2>0, <3>1 DEF Move, Ended
    <3> QED
      BY <2>0, <3>1, <3>2 DEF NothingSent
  <2>2. CASE Rejects(x, jobState)
    <3>1. Move(x.job) /\ \A i \in Jobs \ {x.job} : jobState'[i] = jobState[i]
      BY <1>0, <2>0, <2>2, RejectsEffect DEF JobsTyped
    <3>2. jobState'[x.job] # "unsent"
      BY <2>0, <3>1 DEF Move, Ended
    <3> QED
      BY <2>0, <3>1, <3>2 DEF NothingSent
  <2>3. ASSUME NEW f \in Events, NEW answered \in BOOLEAN, Send(x, f, answered)
        PROVE  \E k \in Jobs :
                 /\ OneSent(k)
                 /\ EventOf[k] \in x.pending
                 /\ handed' = [handed EXCEPT ![x.job] = @ \cup {EventOf[k]}]
    <3>1. PICK k \in Jobs : EventOf[k] = f /\ OneSent(k)
      BY <1>0, <2>0, <2>3, SendEffect DEF OneSent
    <3>2. /\ f \in x.pending
          /\ handed' = [handed EXCEPT ![x.job] = @ \cup {f}]
      BY <2>3 DEF Send
    <3> QED
      BY <3>1, <3>2
  <2>4. ASSUME UNCHANGED jobState PROVE NothingSent
    BY <2>4 DEF NothingSent
  <2> QED
    BY <1>6, <2>1, <2>2, <2>3, <2>4
       DEF Work, Listen, ExecuteFails, ExecuteReturns, EmitDomained, SendIgnored, SendFails,
           Finish, database
<1> QED
  BY <1>1, <1>2, <1>3, <1>4, <1>5, <1>6
     DEF Next, SetUp, Register, QueueDeleted, QueueCreated, RegistrationFails, CreateQueue,
         Crash, WorkOn, vars, database

\* As long as nothing is exposed, every name is listed when an execution returns,
\* and so nothing is lost.
LEMMA RoutedStep == ASSUME Typed, Attempts, Routed, [Next]_vars PROVE Routed'
<1> SUFFICES ASSUME ~exposed'
             PROVE  /\ executions' # {} \/ (\E j \in Jobs : jobState'[j] \in Live) =>
                         Names \subseteq queues'
                    /\ \A j \in Jobs : \A f \in handed'[j] : Delivered(f)'
  BY DEF Routed
<1>1. ~exposed
  BY DEF Next, SetUp, Register, QueueDeleted, QueueCreated, RegistrationFails, CreateQueue,
         Dispatch, Fetch, Expire, Crash, WorkOn, Work, Listen, ExecuteFails, ExecuteReturns,
         EmitDomained, SendIgnored, Send, SendFails, Finish, vars, history
<1>2. \A i \in Jobs : Move(i)
  BY JobsMove
<1>3. \A f : Delivered(f) => Delivered(f)'
  BY <1>2 DEF Delivered, Move, Ended
<1>4. ASSUME executions # {} \/ (\E j \in Jobs : jobState[j] \in Live) PROVE Names \subseteq queues
  BY <1>1, <1>4 DEF Routed
<1>5. ASSUME NothingSent, NEW j \in Jobs, jobState'[j] \in Live PROVE jobState[j] \in Live
  BY <1>2, <1>5 DEF NothingSent, Move, Live, Ended
<1>6. ASSUME executions' # {} \/ (\E j \in Jobs : jobState'[j] \in Live)
      PROVE  Names \subseteq queues'
  <2>1. ASSUME NEW n \in Names, SetUp(n) \/ RegistrationFails(n) PROVE Names \subseteq queues'
    <3>1. executions' = executions /\ queues \subseteq queues'
      BY <2>1 DEF SetUp, Register, QueueDeleted, QueueCreated, RegistrationFails, List
    <3>2. NothingSent
      <4>1. jobState \in [Jobs -> JobStates]
        BY DEF Typed, TypeOK, JobStates, Live
      <4> QED
        BY <2>1, <4>1 DEF SetUp, Register, QueueDeleted, QueueCreated, RegistrationFails,
                          Deleted, NothingSent, Live, database
    <3> QED
      BY <1>4, <1>5, <1>6, <3>1, <3>2
  <2>2. ASSUME NEW n \in Bare, CreateQueue(n) PROVE Names \subseteq queues'
    <3>1. UNCHANGED <<executions, jobState>> /\ queues \subseteq queues'
      BY <2>2 DEF CreateQueue, List
    <3> QED
      BY <1>4, <1>6, <3>1
  <2>3. ASSUME NEW e \in Events, Dispatch(e) PROVE Names \subseteq queues'
    BY <2>3 DEF Dispatch, registry
  <2>4. ASSUME NEW j \in Jobs, Fetch(j) \/ Expire(j) PROVE Names \subseteq queues'
    <3>1. jobState[j] \in Live /\ queues' = queues
      BY <2>4 DEF Fetch, Expire, Live, registry
    <3> QED
      BY <1>4, <3>1
  <2>5. ASSUME NEW x \in executions, Work(x) PROVE Names \subseteq queues'
    <3>1. queues' = queues
      BY <2>5 DEF Work, Listen, ExecuteFails, ExecuteReturns, EmitDomained, SendIgnored, Send,
                  SendFails, Finish, registry
    <3> QED
      BY <1>4, <3>1
  <2>6. ~Crash
    BY <1>6 DEF Crash, database
  <2>7. CASE UNCHANGED vars
    BY <1>4, <1>6, <2>7 DEF vars, registry, database
  <2> QED
    BY <2>1, <2>2, <2>3, <2>4, <2>5, <2>6, <2>7 DEF Next, WorkOn
<1>7. ASSUME NEW j \in Jobs, NEW f \in handed'[j] PROVE Delivered(f)'
  <2>1. CASE f \in handed[j]
    BY <1>1, <1>3, <2>1 DEF Routed
  <2>2. CASE f \notin handed[j]
    <3>1. PICK x \in executions : Work(x) /\ handed' # handed
      BY <1>7, <2>2 DEF Next, SetUp, Register, QueueDeleted, QueueCreated, RegistrationFails,
                        CreateQueue, Dispatch, Fetch, Expire, Crash, WorkOn, vars, history
    <3>2. x \in Executions /\ jobState[x.job] # "unsent" /\ JobsTyped
      BY DEF Typed, TypeOK, Attempts, JobsTyped, JobStates, Live
    <3>3. handed \in [Jobs -> SUBSET Events] /\ x.job \in Jobs
      BY <3>2 DEF Typed, TypeOK, Executions
    <3>4. CASE ExecuteReturns(x)
      <4>1. Unroutable(f)
        BY <1>7, <2>2, <3>3, <3>4 DEF ExecuteReturns
      <4> QED
        BY <1>4, <4>1 DEF Unroutable, Delivered
    <3>5. ASSUME NEW g \in Events, EmitDomained(x, g) \/ SendIgnored(x, g) PROVE Delivered(f)'
      <4>1. f = g
        BY <1>7, <2>2, <3>3, <3>5 DEF EmitDomained, SendIgnored
      <4> QED
        BY <3>5, <4>1 DEF EmitDomained, SendIgnored, Delivered
    <3>6. ASSUME NEW g \in Events, NEW answered \in BOOLEAN, Send(x, g, answered)
          PROVE  Delivered(f)'
      <4>1. f = g
        BY <1>7, <2>2, <3>3, <3>6 DEF Send
      <4>2. \E k \in Jobs : EventOf[k] = g /\ jobState'[k] = "created"
        BY <3>2, <3>6, SendEffect
      <4> QED
        BY <4>1, <4>2 DEF Delivered
    <3> QED
      BY <3>1, <3>4, <3>5, <3>6 DEF Work, Listen, ExecuteFails, SendFails, Finish, history
  <2> QED
    BY <2>1, <2>2
<1> QED
  BY <1>6, <1>7

\* No output is lost, unless an event was dispatched before all names were listed or
\* a restart left jobs behind: names are listed before their queues are made, and
\* what is listed is sent (index.ts:265-268, 368-379).
THEOREM OutputsAreRouted == Spec => []NothingIsDropped
<1> DEFINE Inv == Typed /\ Attempts /\ Handover /\ Routed
<1>1. Inv /\ [Next]_vars => Inv'
  BY TypeStep, AttemptsStep, HandoverStep, RoutedStep
<1>2. PgInv => Inv
  BY DEF PgInv
<1>3. Inv => NothingIsDropped
  <2> SUFFICES ASSUME Inv, ~exposed, NEW j \in Jobs, jobState[j] = "completed",
                      NEW f \in OutputsOf(j) \ Domained, To[f] \in Names \ Throttled
               PROVE  \E k \in Jobs : EventOf[k] = f /\ jobState[k] # "unsent"
    BY DEF NothingIsDropped, NoEventIsLost
  <2>1. f \in handed[j]
    BY DEF Handover, CompletedMeansHanded
  <2> QED
    BY <2>1 DEF Routed, Delivered
<1> QED
  BY PgInit, <1>1, <1>2, <1>3, PTL DEF Spec

-----------------------------------------------------------------------------
(* Duplicates *)

\* An execution has only outputs of its job pending.
LEMMA PendingStep == ASSUME Typed, Pending, [Next]_vars PROVE Pending'
<1> SUFFICES ASSUME NEW y \in executions' PROVE y.pending \subseteq OutputsOf(y.job)
  BY DEF Pending, OutputsOf
<1>1. CASE y \in executions
  BY <1>1 DEF Pending
<1>2. ASSUME NEW x \in executions, Work(x), Goes(x, y), y \notin executions
      PROVE  y.pending \subseteq OutputsOf(y.job)
  BY <1>2, WorkEffect DEF Pending, Goes
<1>3. ASSUME y = [job |-> y.job, attempt |-> retries[y.job],
                  phase |-> "executing", pending |-> {}]
      PROVE  y.pending \subseteq OutputsOf(y.job)
  <2>1. y.pending = {}
    BY <1>3
  <2> QED
    BY <2>1
<1> QED
  BY <1>1, <1>2, <1>3, ExecutionsStep

\* In its first attempt a job has one execution at most, which hands over each
\* output once.
LEMMA FirstStep == ASSUME Typed, Attempts, FirstAttempt, [Next]_vars PROVE FirstAttempt'
<1> SUFFICES ASSUME NEW j \in Jobs, retries'[j] = 0 PROVE First(j)'
  BY DEF FirstAttempt
<1>0. handed \in [Jobs -> SUBSET Events] /\ retries[j] \in Nat
  BY DEF Typed, TypeOK
<1>1. Move(j) /\ retries[j] = 0 /\ First(j)
  <2>1. Move(j)
    BY JobsMove
  <2>2. retries[j] = 0
    BY <1>0, <2>1 DEF Move
  <2> QED
    BY <2>1, <2>2 DEF FirstAttempt
<1>2. \A x \in executions : x.job = j => jobState[j] \notin {"unsent", "created"}
  <2> SUFFICES ASSUME NEW x \in executions, x.job = j
               PROVE  jobState[j] \notin {"unsent", "created"}
    OBVIOUS
  <2>1. x.attempt \in Nat
    BY DEF Typed, TypeOK, Executions
  <2> QED
    BY <2>1, <1>1 DEF Attempts
<1>3. jobState'[j] \in {"unsent", "created"} => jobState[j] \in {"unsent", "created"}
  BY <1>1 DEF Move, Ended
<1>4. CASE executions' \subseteq executions /\ handed' = handed
  BY <1>1, <1>3, <1>4 DEF First
<1>5. ASSUME NEW x \in executions, Work(x) PROVE First(j)'
  <2>1. CASE x.job # j
    <3>1. handed'[j] = handed[j]
      BY <1>0, <1>5, <2>1, WorkEffect
    <3>2. \A y \in executions' : y.job = j => y \in executions
      BY <1>5, <2>1, WorkEffect DEF Goes
    <3> QED
      BY <1>1, <1>3, <3>1, <3>2 DEF First
  <2>2. CASE x.job = j
    <3>1. jobState'[j] \notin {"unsent", "created"}
      BY <1>2, <1>3, <2>2
    <3>2. \A y \in executions : y.job = j => y = x
      BY <1>1, <2>2 DEF First
    <3>3. CASE executions' = executions \ {x}
      BY <3>1, <3>2, <3>3 DEF First
    <3>4. ASSUME NEW y, Goes(x, y), executions' = (executions \ {x}) \cup {y},
                 y.pending \cap handed'[j] = {}
          PROVE  First(j)'
      BY <3>1, <3>2, <3>4 DEF First, Goes
    <3>5. CASE x.phase = "executing"
      <4>1. handed[j] = {}
        BY <1>1, <2>2, <3>5 DEF First
      <4>2. ASSUME NEW y,
                   handed' = [handed EXCEPT ![x.job] = @ \cup (OutputsOf(x.job) \ y.pending)]
            PROVE  y.pending \cap handed'[j] = {}
        BY <1>0, <2>2, <4>1, <4>2
      <4> QED
        BY <1>5, <3>3, <3>4, <3>5, <4>2, WorkEffect
    <3>6. CASE x.phase = "emitting"
      <4>1. x.pending \cap handed[j] = {}
        BY <1>1, <2>2 DEF First
      <4>2. ASSUME NEW f \in x.pending,
                   handed' = [handed EXCEPT ![x.job] = @ \cup {f}] \/ handed' = handed
            PROVE  (x.pending \ {f}) \cap handed'[j] = {}
        BY <1>0, <2>2, <4>1, <4>2
      <4> QED
        BY <1>5, <3>3, <3>4, <3>6, <4>2, WorkEffect
    <3> QED
      BY <3>3, <3>5, <3>6, <1>5, WorkEffect
  <2> QED
    BY <2>1, <2>2
<1>6. ASSUME NEW i \in Jobs, Fetch(i) PROVE First(j)'
  <2> DEFINE z == [job |-> i, attempt |-> retries[i], phase |-> "executing", pending |-> {}]
  <2>1. executions' = executions \cup {z} /\ handed' = handed /\ jobState[i] = "created"
    BY <1>6 DEF Fetch, history
  <2>2. z.job = i /\ z.pending = {}
    OBVIOUS
  <2> HIDE DEF z
  <2>3. CASE i # j
    BY <1>1, <1>3, <2>1, <2>2, <2>3 DEF First
  <2>4. CASE i = j
    <3>1. handed[j] = {} /\ \A x \in executions : x.job # j
      BY <1>1, <1>2, <2>1, <2>4 DEF First
    <3> QED
      BY <2>1, <2>2, <3>1 DEF First
  <2> QED
    BY <2>3, <2>4
<1> QED
  BY <1>4, <1>5, <1>6
     DEF Next, SetUp, Register, QueueDeleted, QueueCreated, RegistrationFails, CreateQueue,
         Dispatch, Expire, Crash, WorkOn, vars, history

\* The jobs of an output are at most the jobs that handed it over.
LEMMA SendsStep ==
  ASSUME Typed, Attempts, Pending, FirstAttempt, Sends, [Next]_vars PROVE Sends'
<1> DEFINE All == {j \in Jobs : jobState[j] # "unsent"}
<1>0. IsFiniteSet(All)
  BY DEF Sends
<1>1. \A i \in Jobs : Move(i) /\ handed[i] \subseteq handed'[i] /\ retries[i] \in Nat
  BY JobsMove, HandedGrows DEF Typed
<1>2. \A i \in Jobs : retries'[i] = 0 => retries[i] = 0
  BY <1>1 DEF Move
<1>3. ASSUME NEW k \in Jobs, OneSent(k) PROVE All' = All \cup {k} /\ k \notin All
  BY <1>3 DEF OneSent
<1>4. ASSUME NothingSent PROVE All' = All
  BY <1>4 DEF NothingSent
<1>5. IsFiniteSet(All') /\ All \subseteq All'
  <2>1. All' = All \/ \E k \in Jobs : All' = All \cup {k}
    BY <1>3, <1>4, SendsOne
  <2> HIDE DEF All
  <2> QED
    BY <1>0, <2>1, FS_AddElement
<1>6. ASSUME NEW e \in Events, NEW f \in Events, Cause[f] = e,
             \A j \in Sent(e)' : retries'[j] = 0
      PROVE  Cardinality(Sent(f)') <= Cardinality(Handing(e, f)')
  <2>1. /\ Sent(e) \subseteq Sent(e)' /\ Handing(e, f) \subseteq Handing(e, f)'
        /\ Handing(e, f)' \subseteq All' /\ Sent(f) \subseteq All
    BY <1>1, <1>5 DEF Sent, Handing
  <2>2. \A j \in Sent(e) : retries[j] = 0
    BY <1>2, <1>6, <2>1 DEF Sent
  <2>3. /\ IsFiniteSet(Sent(f)) /\ IsFiniteSet(Handing(e, f)) /\ IsFiniteSet(Handing(e, f)')
        /\ Cardinality(Sent(f)) \in Nat /\ Cardinality(Handing(e, f)) \in Nat
        /\ Cardinality(Handing(e, f)') \in Nat
    BY <1>0, <1>5, <2>1, FS_Subset, FS_CardinalityType
  <2>4. Cardinality(Sent(f)) <= Cardinality(Handing(e, f))
    BY <1>6, <2>2 DEF Sends
  <2>5. Cardinality(Handing(e, f)) <= Cardinality(Handing(e, f)')
    BY <2>1, <2>3, FS_Subset
  <2>6. CASE Sent(f)' = Sent(f)
    BY <2>3, <2>4, <2>5, <2>6
  <2>7. ASSUME NEW k \in Jobs, OneSent(k), EventOf[k] = f
        PROVE  Cardinality(Sent(f)') <= Cardinality(Handing(e, f)')
    <3>1. Sent(f)' = Sent(f) \cup {k} /\ k \notin Sent(f)
      BY <2>7 DEF OneSent, Sent
    <3>2. Cardinality(Sent(f)') = Cardinality(Sent(f)) + 1
      BY <2>3, <3>1, FS_AddElement
    <3>3. PICK x \in executions : /\ f \in x.pending
                                  /\ handed' = [handed EXCEPT ![x.job] = @ \cup {f}]
      <4>1. Cause[EventOf[k]] # None /\ ~NothingSent
        BY <1>6, <2>7, EventsAssumption DEF OneSent, NothingSent
      <4>2. \A i \in Jobs : OneSent(i) => i = k
        BY <2>7 DEF OneSent
      <4> QED
        BY <4>1, <4>2, <2>7, SendsOne
    <3>4. x.job \in Jobs /\ jobState[x.job] # "unsent" /\ handed \in [Jobs -> SUBSET Events]
      BY DEF Typed, TypeOK, Executions, Attempts
    <3>5. x.job \in Sent(e)
      <4>1. f \in OutputsOf(x.job)
        BY <3>3 DEF Pending
      <4> QED
        BY <1>6, <3>4, <4>1 DEF OutputsOf, Sent
    <3>6. f \notin handed[x.job] /\ f \in handed'[x.job]
      <4>1. retries[x.job] = 0
        BY <2>2, <3>5
      <4> QED
        BY <3>3, <3>4, <4>1 DEF FirstAttempt, First
    <3>7. /\ x.job \notin Handing(e, f)
          /\ Handing(e, f) \cup {x.job} \subseteq Handing(e, f)'
      BY <2>1, <3>5, <3>6 DEF Handing
    <3>8. Cardinality(Handing(e, f) \cup {x.job}) = Cardinality(Handing(e, f)) + 1
      BY <2>3, <3>7, FS_AddElement
    <3>9. Cardinality(Handing(e, f) \cup {x.job}) <= Cardinality(Handing(e, f)')
      BY <2>3, <3>7, FS_Subset
    <3> QED
      BY <2>3, <2>4, <3>2, <3>8, <3>9
  <2>8. ASSUME NEW k \in Jobs, OneSent(k), EventOf[k] # f PROVE Sent(f)' = Sent(f)
    BY <2>8 DEF OneSent, Sent
  <2>9. ASSUME NothingSent PROVE Sent(f)' = Sent(f)
    BY <2>9 DEF NothingSent, Sent
  <2> QED
    BY <2>6, <2>7, <2>8, <2>9, SendsOne
<1> QED
  BY <1>5, <1>6 DEF Sends, Sent, Handing

\* Without retries there are no duplicates: an output has no more jobs than its
\* cause, if all of these completed at their first attempt, however many jobs
\* expired, crashed or were answered late elsewhere.
THEOREM DuplicatesNeedRetries == Spec => []DuplicatesComeFromRetries
<1>1. PgInv /\ [Next]_vars => PgInv'
  BY TypeStep, AttemptsStep, PendingStep, HandoverStep, RoutedStep, FirstStep, SendsStep
     DEF PgInv
<1>2. PgInv => DuplicatesComeFromRetries
  <2> SUFFICES ASSUME PgInv, NEW e \in Events, NEW f \in Events, Cause[f] = e,
                      \A j \in Sent(e) : retries[j] = 0
               PROVE  Cardinality(Sent(f)) <= Cardinality(Sent(e))
    BY DEF DuplicatesComeFromRetries, Sent
  <2>1. IsFiniteSet(Sent(e)) /\ IsFiniteSet(Sent(f))
    <3>1. /\ Sent(e) \subseteq {j \in Jobs : jobState[j] # "unsent"}
          /\ Sent(f) \subseteq {j \in Jobs : jobState[j] # "unsent"}
      BY DEF Sent
    <3> QED
      BY <3>1, FS_Subset DEF PgInv, Sends
  <2>2. Cardinality(Handing(e, f)) <= Cardinality(Sent(e)) /\ IsFiniteSet(Handing(e, f))
    <3>1. Handing(e, f) \subseteq Sent(e)
      BY DEF Handing
    <3> QED
      BY <2>1, <3>1, FS_Subset
  <2>3. Cardinality(Sent(f)) <= Cardinality(Handing(e, f))
    BY DEF PgInv, Sends
  <2> QED
    BY <2>1, <2>2, <2>3, FS_CardinalityType
<1> QED
  BY PgInit, <1>1, <1>2, PTL DEF Spec
=============================================================================
