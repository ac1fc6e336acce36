-------------------------- MODULE LmdbWriter_proofs --------------------------
(***************************************************************************)
(* Writers of the LMDB storage report what happened, for any number of     *)
(* transactions, batches, reservations, opens and reads, the three rare    *)
(* races included.                                                         *)
(*                                                                         *)
(* The argument follows a request.  A caller waits for one job at a time,  *)
(* and its reply says where that job is: in the queue, in the begin of the *)
(* writer thread, past the begin, or done.  A request that was given up is *)
(* marked and answers nobody.  So whoever the thread commits for is still  *)
(* waiting, and takes that very answer.                                    *)
(***************************************************************************)
EXTENDS LmdbWriter, SequenceTheorems, TLAPS

CloserPcs == {"open", "contexts", "live", "liveWait", "slot", "joining", "closed"}
WorkerPcs == {"idle", "begin", "register", "land", "apply", "result", "drop"}
Replies == {"none", "waiting", "landed", "running", "ok", "failed"}
Helpers == {"none", "asked", "blocked", "landed"}
GateStates == [open : BOOLEAN, gen : Nat, waiting : BOOLEAN, consumer : Actors \cup {None}]
Closers == [pc : CloserPcs, left : SUBSET Actors, on : Actors \cup {None}]
Workers == [pc : WorkerPcs, job : Jobs \cup {None}]

\* Every variable keeps its shape.
Shapes ==
    /\ storage \in StorageStates
    /\ closer \in Closers
    /\ gate \in GateStates
    /\ helper \in [Descriptors -> Helpers]
    /\ flock \in {Free, PeerHas} \cup Descriptors
    /\ mutex \in {"free", "us", "peer", "outside"}
    /\ jobs \in Seq(Jobs)
    /\ worker \in Workers
    /\ reply \in [Requesters -> Replies]
    /\ act \in [Actors -> ActorStates]
    /\ committed \subseteq Actors
    /\ slips \subseteq SlipStates

\* The generation of the gate's file counts its opens and closes.
Generations ==
    /\ storage.opened <=> closer.pc = "open"
    /\ gate.gen = IF closer.pc = "closed" THEN 2 * storage.opens ELSE 2 * storage.opens - 1
    /\ storage.opens \in 1 .. MaxOpens

\* j answers a.
Asks(j, a) == j.by = a /\ ~j.cancelled

\* Only a begin can be cancelled, and whoever waits for a job waits for its own.
JobOK(j) ==
    /\ j.cancelled => j.op \in Begins
    /\ j.by \in Actors => j.by = j.who
    /\ j.op \in {"begin", "staged", "commit"} /\ ~j.cancelled => j.by = j.who

JobsOK == \A i \in DOMAIN jobs : JobOK(jobs[i])

WorkerOK ==
    worker.pc # "idle" =>
        /\ worker.job \in Jobs /\ JobOK(worker.job)
        /\ worker.job.op \in Begins
        /\ worker.pc = "apply" => worker.job.op = "staged" /\ ~worker.job.cancelled
        /\ worker.pc = "result" => worker.job.op = "begin"
        /\ worker.pc = "drop" => worker.job.cancelled

AtWorker(a) == worker.pc # "idle" /\ Asks(worker.job, a)

\* What a requester has been told while the thread is at pc with its begin.
Phase(pc) == CASE pc \in {"begin", "register", "land"} -> "waiting"
               [] pc = "apply" -> "landed"
               [] pc = "result" -> "running"
               [] OTHER -> "no such reply"

\* Where a caller waits for the thread, and where a context has been handed out.
Waits == {"reading", "beginWait", "unreplay", "committing", "ending"}
Used == {"open", "reading", "unreplay", "committing", "ending", "release", "unlock", "done"}

\* The places of a caller that wait for a job of a kind.
Stands(op) == CASE op = "begin" -> {"reading", "beginWait"}
                [] op = "staged" -> {"committing"}
                [] op = "commit" -> {"ending"}
                [] OTHER -> {"unreplay", "ending"}

\* A caller has one request at most, its reply says where that is, and its place is one that
\* waits for such a request.
AskOK(a) ==
    /\ \A i \in DOMAIN jobs :
          Asks(jobs[i], a) =>
              /\ reply[a] = "waiting" /\ ~AtWorker(a)
              /\ \A j \in DOMAIN jobs : Asks(jobs[j], a) => i = j
              /\ act[a].pc \in Stands(jobs[i].op)
    /\ AtWorker(a) => /\ reply[a] = Phase(worker.pc)
                      /\ act[a].pc \in Stands(worker.job.op)
    /\ reply[a] = "running" => worker.pc = "result" /\ AtWorker(a)
    /\ reply[a] # "none" => act[a].pc \in Waits

Asking == JobsOK /\ WorkerOK /\ \A a \in Actors : AskOK(a)

\* A context that close is aborting is at rest.
CloserOK ==
    closer.on # None =>
        /\ closer.pc = "contexts" /\ closer.on \in closer.left
        /\ act[closer.on].pc = "open" /\ ~act[closer.on].closed

\* What close still has to end, or is registered to be ended.
Listed(a) == a \in storage.active \/ (closer.pc = "contexts" /\ a \in closer.left)

HandleOK(a) ==
    /\ act[a].handle # "none" => ~act[a].closed
    /\ act[a].handle = "begun" => act[a].pc \in {"open", "ending", "reserved"}
    /\ act[a].handle = "pending" => act[a].pc \in {"open", "reading", "unreplay", "committing"}
    /\ act[a].pc = "reserved" => a \in Reservers
    /\ act[a].pc = "register" => a \in Txns
    /\ Listed(a) /\ a \notin Batches => act[a].pc \in Used
    /\ a \notin Batches /\ act[a].pc \notin Used => ~act[a].closed
    /\ CallLocked(a) => ~act[a].closed
    /\ act[a].pc \in {"release", "unlock", "done"} => act[a].closed

Handles == CloserOK /\ \A a \in Actors : HandleOK(a)

\* A commit that happened is being reported, or was reported as such.
ResultOK(a) ==
    /\ act[a].result # "none" => act[a].closed
    /\ act[a].result = "ok" => a \in committed
    /\ a \in committed =>
          \/ ~act[a].closed /\ reply[a] = "ok" /\ act[a].pc \in {"committing", "ending"}
          \/ act[a].result = "ok" /\ act[a].pc \in {"release", "unlock", "done"}

Results == \A a \in Actors : ResultOK(a)

\* Whoever has taken the present slot and not given it back is its owner.
Holders == {"gate", "gateWait", "flag", "register", "undo", "open", "reading", "unreplay",
            "apply", "committing", "ending", "release", "unlock", "begin", "beginWait", "bind",
            "reserved"}
OwnerOK(a) ==
    /\ act[a].lock <= storage.slot
    /\ act[a].pc \in Holders /\ act[a].lock = storage.slot
          /\ ~(act[a].pc = "open" /\ act[a].closed) => storage.owner = a
Owners == \A a \in Actors : OwnerOK(a)

\* Who waits for the gate is attached to its wait.
ConsumerOK(a) ==
    /\ gate.consumer = a <=> act[a].pc = "gateWait" /\ act[a].gate = "waiting"
    /\ gate.consumer = a => Current(a)
Consumers == \A a \in Actors : ConsumerOK(a)

IInv ==
    /\ Shapes /\ Generations
    /\ Asking /\ Handles /\ Results
    /\ Owners /\ Consumers

USE WriterAssumption
-----------------------------------------------------------------------------
(* The queue                                                               *)

\* What an added job, of a requester or of nobody, does to the queue.
LEMMA Appended ==
    ASSUME jobs \in Seq(Jobs), NEW j \in Jobs, jobs' = Append(jobs, j)
    PROVE  /\ jobs' \in Seq(Jobs)
           /\ DOMAIN jobs' = 1 .. Len(jobs) + 1 /\ DOMAIN jobs = 1 .. Len(jobs)
           /\ Len(jobs) \in Nat
           /\ jobs'[Len(jobs) + 1] = j
           /\ \A i \in DOMAIN jobs : i \in DOMAIN jobs' /\ jobs'[i] = jobs[i]
           /\ \A i \in DOMAIN jobs' : i \notin DOMAIN jobs => i = Len(jobs) + 1
OBVIOUS

\* What is left when the first job is taken.
LEMMA Taken ==
    ASSUME jobs \in Seq(Jobs), jobs # <<>>, jobs' = Tail(jobs)
    PROVE  /\ jobs' \in Seq(Jobs)
           /\ 1 \in DOMAIN jobs /\ Head(jobs) = jobs[1] /\ Head(jobs) \in Jobs
           /\ \A i \in DOMAIN jobs' : i + 1 \in DOMAIN jobs /\ jobs'[i] = jobs[i + 1] /\ i + 1 # 1
           /\ DOMAIN jobs' \subseteq Nat
OBVIOUS

LEMMA JobFields ==
    ASSUME NEW op \in {"begin", "staged", "commit", "abort", "drop", "abandon"},
           NEW a \in Actors, NEW r \in Requesters \cup {None}
    PROVE  /\ Job(op, a, r) \in Jobs
           /\ Job(op, a, r).op = op /\ Job(op, a, r).who = a /\ Job(op, a, r).by = r
           /\ Job(op, a, r).cancelled = FALSE
BY DEF Job, Jobs

\* Nothing happens to the requests when a job that answers no caller is added, and when
\* callers take answers or move about with no request.
LEMMA QuietAsk ==
    ASSUME Shapes, Asking, worker' = worker,
           \/ jobs' = jobs
           \/ \E j \in Jobs : JobOK(j) /\ j.by \notin Actors /\ jobs' = Append(jobs, j),
           \A a \in Actors : \/ act'[a].pc = act[a].pc /\ reply'[a] = reply[a]
                             \/ reply[a] \in {"none", "ok", "failed"} /\ reply'[a] = "none"
    PROVE  Asking'
<1>1. /\ JobsOK'
      /\ \A i \in DOMAIN jobs' : \A a \in Actors :
            Asks(jobs'[i], a) => i \in DOMAIN jobs /\ jobs'[i] = jobs[i]
  <2>1. CASE jobs' = jobs
    BY <2>1 DEF Asking, JobsOK
  <2>2. ASSUME NEW j \in Jobs, JobOK(j), j.by \notin Actors, jobs' = Append(jobs, j)
        PROVE  /\ JobsOK'
               /\ \A i \in DOMAIN jobs' : \A a \in Actors :
                     Asks(jobs'[i], a) => i \in DOMAIN jobs /\ jobs'[i] = jobs[i]
    BY <2>2, Appended DEF Asking, JobsOK, Shapes, Asks
  <2> QED BY <2>1, <2>2
<1>2. WorkerOK'
  BY DEF Asking, WorkerOK
<1>3. ASSUME NEW a \in Actors PROVE AskOK(a)'
  <2>1. AtWorker(a)' <=> AtWorker(a)
    BY DEF AtWorker
  <2>2. AskOK(a)
    BY DEF Asking
  <2>3. CASE act'[a].pc = act[a].pc /\ reply'[a] = reply[a]
    BY <1>1, <2>1, <2>2, <2>3 DEF AskOK
  <2>4. CASE reply[a] \in {"none", "ok", "failed"} /\ reply'[a] = "none"
    <3>1. ~AtWorker(a) /\ \A i \in DOMAIN jobs : ~Asks(jobs[i], a)
      BY <2>2, <2>4 DEF AskOK, Phase
    <3> QED BY <1>1, <2>1, <2>4, <3>1 DEF AskOK
  <2> QED BY <2>3, <2>4
<1> QED BY <1>1, <1>2, <1>3 DEF Asking

\* A caller that waits for nothing asks.
LEMMA SubmitAsk ==
    ASSUME Shapes, Asking, worker' = worker,
           NEW a \in Actors, NEW op \in {"begin", "staged", "commit", "abort"},
           reply[a] \in {"none", "ok", "failed"},
           jobs' = Append(jobs, Job(op, a, a)), reply' = [reply EXCEPT ![a] = "waiting"],
           act'[a].pc \in Stands(op),
           \A b \in Actors \ {a} : act'[b].pc = act[b].pc
    PROVE  Asking'
<1> DEFINE j == Job(op, a, a)
<1>1. /\ j \in Jobs /\ j.op = op /\ j.who = a /\ j.by = a /\ j.cancelled = FALSE
  <2>1. op \in {"begin", "staged", "commit", "abort", "drop", "abandon"} /\ a \in Requesters \cup {None}
    BY DEF Requesters
  <2> QED BY ONLY <2>1, a \in Actors DEF Job, Jobs
<1> HIDE DEF j
<1>2. jobs \in Seq(Jobs) /\ reply \in [Requesters -> Replies]
  BY DEF Shapes
<1>3. jobs' = Append(jobs, j)
  BY DEF j
<1>4. /\ DOMAIN jobs' = 1 .. Len(jobs) + 1 /\ DOMAIN jobs = 1 .. Len(jobs)
      /\ Len(jobs) \in Nat
      /\ jobs'[Len(jobs) + 1] = j
      /\ \A i \in DOMAIN jobs : i \in DOMAIN jobs' /\ jobs'[i] = jobs[i]
      /\ \A i \in DOMAIN jobs' : i \notin DOMAIN jobs => i = Len(jobs) + 1
  BY <1>1, <1>2, <1>3, Appended
<1>5. JobsOK'
  BY <1>1, <1>4 DEF Asking, JobsOK, JobOK
<1>6. WorkerOK'
  BY DEF Asking, WorkerOK
<1>7. ASSUME NEW b \in Actors PROVE AskOK(b)'
  <2>1. AtWorker(b)' <=> AtWorker(b)
    BY DEF AtWorker
  <2>2. AskOK(b)
    BY DEF Asking
  <2>3. CASE b # a
    <3>1. ~Asks(j, b)
      BY <1>1, <2>3 DEF Asks
    <3>2. \A i \in DOMAIN jobs' : Asks(jobs'[i], b) => i \in DOMAIN jobs /\ jobs'[i] = jobs[i]
      BY <1>4, <3>1
    <3>3. act'[b].pc = act[b].pc /\ reply'[b] = reply[b]
      BY <1>2, <2>3 DEF Requesters
    <3> QED BY <2>1, <2>2, <3>2, <3>3 DEF AskOK
  <2>4. CASE b = a
    <3>1. ~AtWorker(a) /\ \A i \in DOMAIN jobs : ~Asks(jobs[i], a)
      BY <2>2, <2>4 DEF AskOK, Phase
    <3>2. \A i \in DOMAIN jobs' : Asks(jobs'[i], a) => i = Len(jobs) + 1 /\ jobs'[i] = j
      BY <1>4, <3>1
    <3>3. reply'[a] = "waiting"
      BY <1>2 DEF Requesters
    <3>4. act'[a].pc \in Waits
      BY DEF Stands, Waits
    <3> QED BY <1>1, <2>1, <2>4, <3>1, <3>2, <3>3, <3>4 DEF AskOK
  <2> QED BY <2>3, <2>4
<1> QED BY <1>5, <1>6, <1>7 DEF Asking

\* A begin that is given up answers nobody.
LEMMA CancelAsk ==
    ASSUME Shapes, Asking, NEW a \in Actors, CancelBegin(a),
           act[a].pc \in {"reading", "beginWait", "committing"},
           \A b \in Actors \ {a} : act'[b].pc = act[b].pc
    PROVE  Asking' /\ jobs' \in Seq(Jobs) /\ worker' \in Workers
<1> DEFINE Cancelled(j) == IF j.by = a /\ j.op \in Begins THEN [j EXCEPT !.cancelled = TRUE] ELSE j
<1>1. /\ reply[a] = "waiting"
      /\ jobs' = [i \in DOMAIN jobs |-> Cancelled(jobs[i])]
      /\ worker' = IF worker.pc = "idle" THEN worker ELSE [worker EXCEPT !.job = Cancelled(worker.job)]
      /\ reply' = [reply EXCEPT ![a] = "none"]
  BY DEF CancelBegin
<1>2. ASSUME NEW j \in Jobs, JobOK(j)
      PROVE  /\ Cancelled(j) \in Jobs /\ JobOK(Cancelled(j)) /\ Cancelled(j).op = j.op
             /\ \A b \in Actors : Asks(Cancelled(j), b) => Asks(j, b) /\ Cancelled(j) = j
             /\ Asks(Cancelled(j), a) => j.op \notin Begins
             /\ j.cancelled => Cancelled(j).cancelled
             /\ ~Cancelled(j).cancelled => Cancelled(j) = j
  BY <1>2 DEF Jobs, JobOK, Asks
<1> HIDE DEF Cancelled
<1>3. /\ jobs \in Seq(Jobs) /\ reply \in [Requesters -> Replies] /\ worker \in Workers
      /\ a \in Requesters
  BY DEF Shapes, Requesters
<1>4. /\ \A i \in DOMAIN jobs : jobs[i] \in Jobs /\ JobOK(jobs[i])
  BY <1>3 DEF Asking, JobsOK
<1>5. DOMAIN jobs' = DOMAIN jobs /\ \A i \in DOMAIN jobs : jobs'[i] = Cancelled(jobs[i])
  BY <1>1
<1>6. jobs' \in Seq(Jobs)
  BY <1>1, <1>2, <1>3, <1>4
<1>7. JobsOK'
  BY <1>2, <1>4, <1>5 DEF JobsOK
<1>8. /\ worker' \in Workers /\ worker'.pc = worker.pc
      /\ worker.pc # "idle" => worker'.job = Cancelled(worker.job)
  BY <1>1, <1>2, <1>3 DEF Asking, WorkerOK, Workers
<1>9. worker.pc # "idle" => worker.job \in Jobs /\ JobOK(worker.job)
  BY DEF Asking, WorkerOK
<1>10. worker.pc = "apply" => worker'.job = worker.job
  <2>1. SUFFICES ASSUME worker.pc = "apply" PROVE worker.job.by # a
    BY <1>8 DEF Cancelled
  <2>2. worker.job.by = a => AtWorker(a)
    BY <2>1 DEF Asking, WorkerOK, AtWorker, Asks
  <2> QED BY <1>1, <2>1, <2>2 DEF Asking, AskOK, Phase
<1>11. WorkerOK'
  BY <1>2, <1>8, <1>9, <1>10 DEF Asking, WorkerOK
<1>12. ASSUME NEW b \in Actors PROVE AskOK(b)'
  <2> USE <1>12
  <2>1. /\ AtWorker(b)' => AtWorker(b) /\ worker'.job = worker.job
        /\ AtWorker(a)' => worker.job.op \notin Begins
    BY <1>2, <1>8, <1>9 DEF AtWorker
  <2>2. ~AtWorker(a)'
    BY <2>1, <1>8 DEF Asking, WorkerOK, AtWorker
  <2>3. AskOK(b)
    BY DEF Asking
  <2>4. \A i \in DOMAIN jobs' : Asks(jobs'[i], b) => Asks(jobs[i], b) /\ jobs'[i] = jobs[i]
    BY <1>2, <1>4, <1>5
  <2>5. CASE b # a
    <3>1. act'[b].pc = act[b].pc /\ reply'[b] = reply[b]
      BY <1>1, <1>3, <2>5 DEF Requesters
    <3>2. reply[b] = "running" => AtWorker(b)'
      <4>1. reply[b] = "running" => AtWorker(b) /\ worker.job.by # a
        BY <2>3, <2>5 DEF AskOK, AtWorker, Asks
      <4> QED BY <4>1, <1>8 DEF AtWorker, Asks, Cancelled
    <3> QED BY <1>5, <1>8, <2>1, <2>3, <2>4, <3>1, <3>2 DEF AskOK
  <2>6. CASE b = a
    <3>1. \A i \in DOMAIN jobs' : ~Asks(jobs'[i], a)
      <4>1. SUFFICES ASSUME NEW i \in DOMAIN jobs', Asks(jobs'[i], a) PROVE FALSE
        OBVIOUS
      <4>2. Asks(jobs[i], a) /\ jobs[i].op \notin Begins /\ i \in DOMAIN jobs
        BY <1>2, <1>4, <1>5, <2>4, <2>6, <4>1
      <4>3. act[a].pc \in Stands(jobs[i].op)
        BY <4>2, <2>3, <2>6 DEF AskOK
      <4> QED BY <4>2, <4>3 DEF Stands, Begins
    <3>2. reply'[a] = "none"
      BY <1>1, <1>3
    <3> QED BY <2>2, <2>6, <3>1, <3>2 DEF AskOK
  <2> QED BY <2>5, <2>6
<1> QED BY <1>6, <1>7, <1>8, <1>11, <1>12 DEF Asking

\* So does one that is left between "running" and its result.
LEMMA LeaveAsk ==
    ASSUME Shapes, Asking, NEW a \in Actors, LeaveRunning(a), jobs' = jobs,
           \A b \in Actors \ {a} : act'[b].pc = act[b].pc
    PROVE  Asking' /\ worker' \in Workers
<1>1. /\ reply[a] = "running" /\ worker' = [worker EXCEPT !.job.cancelled = TRUE]
      /\ reply' = [reply EXCEPT ![a] = "none"]
  BY DEF LeaveRunning
<1>2. /\ worker.pc = "result" /\ worker.job \in Jobs /\ Asks(worker.job, a) /\ JobOK(worker.job)
      /\ worker.job.op = "begin"
  BY <1>1 DEF Asking, AskOK, AtWorker, WorkerOK
<1>3. worker \in Workers /\ reply \in [Requesters -> Replies] /\ a \in Requesters
  BY DEF Shapes, Requesters
<1>4. /\ worker' \in Workers /\ worker'.pc = "result" /\ worker'.job \in Jobs
      /\ worker'.job.cancelled /\ worker'.job.op = "begin" /\ JobOK(worker'.job)
      /\ \A b \in Actors : ~Asks(worker'.job, b)
  BY <1>1, <1>2, <1>3 DEF Workers, Jobs, JobOK, Asks, Begins
<1>5. WorkerOK'
  BY <1>4 DEF WorkerOK, Begins
<1>6. JobsOK'
  BY DEF Asking, JobsOK
<1>7. ASSUME NEW b \in Actors PROVE AskOK(b)'
  <2>1. AskOK(b) /\ ~AtWorker(b)'
    BY <1>4 DEF Asking, AtWorker
  <2>2. CASE b # a
    <3>1. act'[b].pc = act[b].pc /\ reply'[b] = reply[b]
      BY <1>1, <1>3, <2>2 DEF Requesters
    <3>2. ~AtWorker(b)
      BY <1>2, <2>2 DEF AtWorker, Asks
    <3> QED BY <2>1, <3>1, <3>2 DEF AskOK
  <2>3. CASE b = a
    <3>1. reply'[a] = "none" /\ \A i \in DOMAIN jobs : ~Asks(jobs[i], a)
      BY <1>1, <1>3, <2>1, <2>3 DEF AskOK
    <3> QED BY <2>1, <2>3, <3>1 DEF AskOK
  <2> QED BY <2>2, <2>3
<1> QED BY <1>4, <1>5, <1>6, <1>7 DEF Asking

\* An interrupted abort stays in the queue, for nobody.
LEMMA InterruptAsk ==
    ASSUME Shapes, Asking, NEW a \in Actors,
           \E i \in DOMAIN jobs : jobs[i].by = a /\ jobs[i].op = "abort",
           jobs' = [i \in DOMAIN jobs |-> IF jobs[i].by = a THEN [jobs[i] EXCEPT !.by = None] ELSE jobs[i]],
           reply' = [reply EXCEPT ![a] = "none"], worker' = worker,
           \A b \in Actors \ {a} : act'[b].pc = act[b].pc
    PROVE  Asking' /\ jobs' \in Seq(Jobs)
<1> DEFINE Freed(j) == IF j.by = a THEN [j EXCEPT !.by = None] ELSE j
<1>1. /\ jobs \in Seq(Jobs) /\ reply \in [Requesters -> Replies] /\ a \in Requesters
      /\ jobs' = [i \in DOMAIN jobs |-> Freed(jobs[i])]
  BY DEF Shapes, Requesters
<1>2. /\ \A i \in DOMAIN jobs : jobs[i] \in Jobs /\ JobOK(jobs[i])
  BY <1>1 DEF Asking, JobsOK
<1>3. PICK k \in DOMAIN jobs : jobs[k].by = a /\ jobs[k].op = "abort"
  OBVIOUS
<1>4. Asks(jobs[k], a)
  BY <1>2, <1>3 DEF Asks, JobOK, Begins, Jobs
<1>5. \A i \in DOMAIN jobs : Asks(jobs[i], a) => jobs[i].op = "abort"
  BY <1>3, <1>4 DEF Asking, AskOK
<1>6. ASSUME NEW i \in DOMAIN jobs
      PROVE  /\ Freed(jobs[i]) \in Jobs /\ JobOK(Freed(jobs[i])) /\ Freed(jobs[i]).op = jobs[i].op
             /\ ~Asks(Freed(jobs[i]), a)
             /\ \A b \in Actors : Asks(Freed(jobs[i]), b) => Freed(jobs[i]) = jobs[i]
  <2>1. jobs[i] \in Jobs /\ JobOK(jobs[i]) /\ (Asks(jobs[i], a) => jobs[i].op = "abort")
    BY <1>2, <1>5
  <2> QED BY <2>1 DEF Jobs, JobOK, Asks, Begins
<1> HIDE DEF Freed
<1>7. DOMAIN jobs' = DOMAIN jobs /\ \A i \in DOMAIN jobs : jobs'[i] = Freed(jobs[i])
  BY <1>1
<1>8. jobs' \in Seq(Jobs)
  BY ONLY <1>1, <1>6
<1>9. JobsOK' /\ WorkerOK'
  BY <1>6, <1>7 DEF JobsOK, WorkerOK, Asking
<1>10. ASSUME NEW b \in Actors PROVE AskOK(b)'
  <2>1. AskOK(b) /\ (AtWorker(b)' <=> AtWorker(b)) /\ ~AtWorker(a)
    BY <1>4 DEF Asking, AskOK, AtWorker
  <2>2. \A i \in DOMAIN jobs' : Asks(jobs'[i], b) => b # a /\ jobs'[i] = jobs[i]
    BY <1>6, <1>7
  <2>3. CASE b # a
    <3>1. act'[b].pc = act[b].pc /\ reply'[b] = reply[b]
      BY <1>1, <2>3 DEF Requesters
    <3> QED BY <1>7, <2>1, <2>2, <3>1 DEF AskOK
  <2>4. CASE b = a
    <3>1. reply'[a] = "none"
      BY <1>1
    <3> QED BY <2>1, <2>2, <2>4, <3>1 DEF AskOK
  <2> QED BY <2>3, <2>4
<1> QED BY <1>8, <1>9, <1>10 DEF Asking
-----------------------------------------------------------------------------
(* The writer thread, and who waits for it                                 *)

\* The answer of a job goes to whoever it answers, and to nobody else.
LEMMA Answered ==
    ASSUME reply \in [Requesters -> Replies], NEW j \in Jobs,
           NEW x, ~j.cancelled => x \in Replies,
           reply' = IF j.cancelled THEN reply ELSE Answer(j.by, x)
    PROVE  /\ reply' \in [Requesters -> Replies]
           /\ \A b \in Actors : Asks(j, b) => reply'[b] = x
           /\ \A b \in Actors : ~Asks(j, b) => reply'[b] = reply[b]
<1>1. j.by \in Requesters \cup {None} /\ j.cancelled \in BOOLEAN
  BY DEF Jobs
<1>2. CASE j.cancelled
  BY <1>2 DEF Asks
<1>3. CASE ~j.cancelled /\ j.by = None
  BY <1>3 DEF Asks, Answer
<1>4. CASE ~j.cancelled /\ j.by # None
  <2>1. reply' = [reply EXCEPT ![j.by] = x] /\ j.by \in Requesters
    BY <1>1, <1>4 DEF Answer
  <2> QED BY <1>4, <2>1 DEF Asks, Requesters
<1> QED BY <1>1, <1>2, <1>3, <1>4

\* The first job is done, and answered.
LEMMA HeadAsk ==
    ASSUME Shapes, Asking, worker.pc = "idle", worker' = worker, jobs # <<>>, jobs' = Tail(jobs),
           NEW x \in {"ok", "failed"},
           reply' = IF Head(jobs).cancelled THEN reply ELSE Answer(Head(jobs).by, x),
           \A b \in Actors : act'[b].pc = act[b].pc
    PROVE  /\ Asking' /\ reply' \in [Requesters -> Replies]
           /\ \A b \in Actors : reply'[b] = reply[b] \/ reply[b] # "ok"
<1> DEFINE j == Head(jobs)
<1>1. /\ jobs \in Seq(Jobs) /\ reply \in [Requesters -> Replies]
      /\ \A b \in Actors : b \in Requesters
  BY DEF Shapes, Requesters
<1>2. /\ 1 \in DOMAIN jobs /\ j = jobs[1] /\ j \in Jobs
      /\ \A i \in DOMAIN jobs' : i + 1 \in DOMAIN jobs /\ jobs'[i] = jobs[i + 1] /\ i + 1 # 1
      /\ DOMAIN jobs' \subseteq Nat
  BY <1>1, Taken
<1>3. reply' = IF j.cancelled THEN reply ELSE Answer(j.by, x)
  OBVIOUS
<1>4. j.by \in Requesters \cup {None} /\ x \in Replies
  BY <1>2 DEF Jobs, Replies
<1> HIDE DEF j
<1>5. JobsOK' /\ WorkerOK'
  BY <1>2 DEF Asking, JobsOK, WorkerOK
<1>6. ASSUME NEW b \in Actors PROVE AskOK(b)' /\ (reply'[b] = reply[b] \/ reply[b] # "ok")
  <2>1. AskOK(b) /\ ~AtWorker(b) /\ ~AtWorker(b)'
    BY DEF Asking, AtWorker
  <2>2. CASE Asks(j, b)
    <3>1. reply'[b] = x /\ reply[b] = "waiting"
      BY <1>1, <1>2, <1>3, <1>4, <2>1, <2>2, Answered DEF AskOK
    <3>2. \A i \in DOMAIN jobs' : ~Asks(jobs'[i], b)
      BY <1>2, <2>1, <2>2 DEF AskOK
    <3> QED BY <2>1, <3>1, <3>2 DEF AskOK
  <2>3. CASE ~Asks(j, b)
    <3>1. reply'[b] = reply[b]
      BY <1>1, <1>2, <1>3, <1>4, <2>3, Answered
    <3>2. \A i \in DOMAIN jobs' : Asks(jobs'[i], b) =>
             /\ i + 1 \in DOMAIN jobs /\ Asks(jobs[i + 1], b) /\ jobs'[i] = jobs[i + 1]
             /\ \A k \in DOMAIN jobs' : Asks(jobs'[k], b) => k + 1 = i + 1
      BY <1>2, <2>1 DEF AskOK
    <3> QED BY <1>2, <2>1, <3>1, <3>2 DEF AskOK
  <2> QED BY <2>2, <2>3
<1>7. reply' \in [Requesters -> Replies]
  BY <1>1, <1>2, <1>3, <1>4, Answered
<1> QED BY <1>5, <1>6, <1>7 DEF Asking

\* The first job is a begin, and the thread is in it now.
LEMMA BeginAsk ==
    ASSUME Shapes, Asking, worker.pc = "idle", jobs # <<>>, Head(jobs).op \in Begins,
           worker' = [pc |-> "begin", job |-> Head(jobs)], jobs' = Tail(jobs), reply' = reply,
           \A b \in Actors : act'[b].pc = act[b].pc
    PROVE  Asking'
<1> DEFINE j == Head(jobs)
<1>1. jobs \in Seq(Jobs)
  BY DEF Shapes
<1>2. /\ 1 \in DOMAIN jobs /\ j = jobs[1] /\ j \in Jobs /\ j.op \in Begins
      /\ \A i \in DOMAIN jobs' : i + 1 \in DOMAIN jobs /\ jobs'[i] = jobs[i + 1] /\ i + 1 # 1
      /\ DOMAIN jobs' \subseteq Nat
  BY <1>1, Taken
<1>3. worker'.pc = "begin" /\ worker'.job = j
  OBVIOUS
<1> HIDE DEF j
<1>4. JobsOK' /\ WorkerOK'
  BY <1>2, <1>3 DEF Asking, JobsOK, WorkerOK
<1>5. ASSUME NEW b \in Actors PROVE AskOK(b)'
  <2>1. AskOK(b) /\ ~AtWorker(b) /\ (AtWorker(b)' <=> Asks(j, b))
    BY <1>3 DEF Asking, AtWorker, Asks
  <2>2. CASE Asks(j, b)
    <3>1. reply[b] = "waiting" /\ act[b].pc \in Stands(j.op)
      BY <1>2, <2>1, <2>2 DEF AskOK
    <3>2. \A i \in DOMAIN jobs' : ~Asks(jobs'[i], b)
      BY <1>2, <2>1, <2>2 DEF AskOK
    <3>3. Phase("begin") = "waiting"
      BY DEF Phase
    <3> QED BY <1>3, <2>1, <3>1, <3>2, <3>3 DEF AskOK
  <2>3. CASE ~Asks(j, b)
    <3>1. \A i \in DOMAIN jobs' : Asks(jobs'[i], b) =>
             /\ i + 1 \in DOMAIN jobs /\ Asks(jobs[i + 1], b) /\ jobs'[i] = jobs[i + 1]
             /\ \A k \in DOMAIN jobs' : Asks(jobs'[k], b) => k + 1 = i + 1
      BY <1>2, <2>1 DEF AskOK
    <3> QED BY <1>2, <2>1, <2>3, <3>1 DEF AskOK
  <2> QED BY <2>2, <2>3
<1> QED BY <1>4, <1>5 DEF Asking

\* The thread goes on with its begin, which tells its requester where it is.
LEMMA PhaseAsk ==
    ASSUME Shapes, Asking, worker.pc # "idle", jobs' = jobs,
           worker.pc \notin {"apply", "result"},
           NEW pc \in WorkerPcs \ {"idle"}, worker' = [worker EXCEPT !.pc = pc],
           ~worker.job.cancelled => Phase(pc) \in Replies \ {"none"},
           pc = "apply" => worker.job.op = "staged" /\ ~worker.job.cancelled,
           pc = "result" => worker.job.op = "begin",
           pc = "drop" => worker.job.cancelled,
           reply' = IF worker.job.cancelled THEN reply ELSE Answer(worker.job.by, Phase(pc)),
           \A b \in Actors : act'[b].pc = act[b].pc
    PROVE  /\ Asking' /\ reply' \in [Requesters -> Replies] /\ worker' \in Workers
           /\ \A b \in Actors : reply'[b] = reply[b] \/ reply[b] # "ok"
<1>1. /\ reply \in [Requesters -> Replies] /\ worker \in Workers
      /\ \A b \in Actors : b \in Requesters
  BY DEF Shapes, Requesters
<1>2. worker' \in Workers /\ worker'.pc = pc /\ worker'.job = worker.job
  BY <1>1 DEF Workers
<1>3. worker.job \in Jobs /\ worker.job.by \in Requesters \cup {None}
  BY DEF Asking, WorkerOK, Jobs
<1>4. JobsOK' /\ WorkerOK'
  BY <1>2 DEF Asking, JobsOK, WorkerOK
<1>5. ASSUME NEW b \in Actors PROVE AskOK(b)' /\ (reply'[b] = reply[b] \/ reply[b] # "ok")
  <2>1. AskOK(b) /\ (AtWorker(b)' <=> AtWorker(b)) /\ (AtWorker(b) <=> Asks(worker.job, b))
    BY <1>2 DEF Asking, AtWorker
  <2>2. CASE AtWorker(b)
    <3>1. reply'[b] = Phase(pc) /\ act[b].pc \in Waits /\ reply[b] # "ok"
      <4>1. reply[b] = Phase(worker.pc) /\ reply[b] \in Replies
        BY <1>1, <2>1, <2>2 DEF AskOK
      <4>2. worker.pc \in {"begin", "register", "land", "drop"}
        BY <1>1 DEF Workers, WorkerPcs
      <4>3. reply[b] # "none" /\ reply[b] # "ok"
        BY <4>1, <4>2 DEF Phase, Replies
      <4>4. act[b].pc \in Waits
        BY <2>1, <4>3 DEF AskOK
      <4> QED BY <1>1, <1>3, <2>1, <2>2, <4>3, <4>4, Answered
    <3>2. Phase(pc) = "running" => pc = "result"
      BY DEF Phase
    <3> QED BY <1>2, <2>1, <2>2, <3>1, <3>2 DEF AskOK
  <2>3. CASE ~AtWorker(b)
    <3>1. reply'[b] = reply[b]
      BY <1>1, <1>3, <2>1, <2>3, Answered
    <3> QED BY <1>2, <2>1, <2>3, <3>1 DEF AskOK
  <2> QED BY <2>2, <2>3
<1>6. reply' \in [Requesters -> Replies]
  BY <1>1, <1>3, Answered
<1> QED BY <1>2, <1>4, <1>5, <1>6 DEF Asking

\* The thread is done with its begin; a job that answers no caller may be added.
LEMMA FinishAsk ==
    ASSUME Shapes, Asking, worker.pc # "idle", worker' = NoJob,
           \/ jobs' = jobs
           \/ \E j \in Jobs : JobOK(j) /\ j.by \notin Actors /\ jobs' = Append(jobs, j),
           NEW x \in {"ok", "failed"},
           reply' = IF worker.job.cancelled THEN reply ELSE Answer(worker.job.by, x),
           \A b \in Actors : act'[b].pc = act[b].pc
    PROVE  /\ Asking' /\ reply' \in [Requesters -> Replies] /\ worker' \in Workers
           /\ \A b \in Actors : reply'[b] = reply[b] \/ reply[b] # "ok"
<1>1. /\ reply \in [Requesters -> Replies]
      /\ \A b \in Actors : b \in Requesters
  BY DEF Shapes, Requesters
<1>2. worker' \in Workers /\ worker'.pc = "idle"
  BY DEF NoJob, Workers, WorkerPcs
<1>3. worker.job \in Jobs /\ worker.job.by \in Requesters \cup {None} /\ x \in Replies
  BY DEF Asking, WorkerOK, Jobs, Replies
<1>4. /\ JobsOK'
      /\ \A i \in DOMAIN jobs' : \A a \in Actors :
            Asks(jobs'[i], a) => i \in DOMAIN jobs /\ jobs'[i] = jobs[i]
  <2>1. CASE jobs' = jobs
    BY <2>1 DEF Asking, JobsOK
  <2>2. ASSUME NEW j \in Jobs, JobOK(j), j.by \notin Actors, jobs' = Append(jobs, j)
        PROVE  /\ JobsOK'
               /\ \A i \in DOMAIN jobs' : \A a \in Actors :
                     Asks(jobs'[i], a) => i \in DOMAIN jobs /\ jobs'[i] = jobs[i]
    BY <2>2, Appended DEF Asking, JobsOK, Shapes, Asks
  <2> QED BY <2>1, <2>2
<1>5. WorkerOK'
  BY <1>2 DEF WorkerOK
<1>6. ASSUME NEW b \in Actors PROVE AskOK(b)' /\ (reply'[b] = reply[b] \/ reply[b] # "ok")
  <2>1. AskOK(b) /\ ~AtWorker(b)' /\ (AtWorker(b) <=> Asks(worker.job, b))
    BY <1>2 DEF Asking, AtWorker
  <2>2. CASE AtWorker(b)
    <3>2. reply'[b] = x
      BY <1>1, <1>3, <2>1, <2>2, Answered
    <3>3. reply[b] = Phase(worker.pc) /\ reply[b] \in Replies /\ worker.pc \in WorkerPcs
      BY <1>1, <2>1, <2>2 DEF AskOK, Shapes, Workers
    <3>4. act[b].pc \in Waits /\ reply[b] # "ok"
      BY <2>1, <3>3 DEF AskOK, Phase, Replies, WorkerPcs
    <3>5. \A i \in DOMAIN jobs' : ~Asks(jobs'[i], b)
      BY <1>4, <2>1, <2>2 DEF AskOK
    <3> QED BY <2>1, <3>2, <3>4, <3>5 DEF AskOK
  <2>3. CASE ~AtWorker(b)
    <3>1. reply'[b] = reply[b]
      BY <1>1, <1>3, <2>1, <2>3, Answered
    <3> QED BY <1>4, <2>1, <2>3, <3>1 DEF AskOK
  <2> QED BY <2>2, <2>3
<1>7. reply' \in [Requesters -> Replies]
  BY <1>1, <1>3, Answered
<1> QED BY <1>2, <1>4, <1>5, <1>6, <1>7 DEF Asking
-----------------------------------------------------------------------------
(* Steps that leave every caller where it is                               *)

\* Nothing of a caller changes but what it was told and its begun mark.
Stays(b) ==
    /\ act'[b].pc = act[b].pc /\ act'[b].handle = act[b].handle
    /\ act'[b].closed = act[b].closed /\ act'[b].result = act[b].result
    /\ act'[b].lock = act[b].lock /\ act'[b].gate = act[b].gate

SlotStays ==
    /\ storage'.opened = storage.opened /\ storage'.opens = storage.opens
    /\ storage'.slot = storage.slot /\ storage'.owner = storage.owner
    /\ storage'.active = storage.active

LEMMA AtRest ==
    ASSUME Handles, Owners, Consumers, Generations, SlotStays, closer' = closer,
           gate'.gen = gate.gen, gate'.consumer = gate.consumer, \A b \in Actors : Stays(b),
           closer.on \in Actors \cup {None}
    PROVE  Handles' /\ Owners' /\ Consumers' /\ Generations'
<1>1. Generations'
  BY DEF Generations, SlotStays
<1>2. CloserOK'
  BY DEF Handles, CloserOK, Stays
<1>3. ASSUME NEW b \in Actors PROVE HandleOK(b)'
  BY DEF Handles, HandleOK, Stays, SlotStays, Listed, CallLocked
<1>4. Owners'
  BY DEF Owners, OwnerOK, Stays, SlotStays
<1>5. Consumers'
  BY DEF Consumers, ConsumerOK, Stays, SlotStays, Current
<1> QED BY <1>1, <1>2, <1>3, <1>4, <1>5 DEF Handles

\* Who was told of its commit, or is going to be.
LEMMA ResultsStay ==
    ASSUME Results, \A b \in Actors : Stays(b) /\ (reply'[b] = reply[b] \/ reply[b] # "ok"),
           committed' = committed
    PROVE  Results'
BY DEF Results, ResultOK, Stays

\* The commit of a caller that waits for it.
LEMMA ResultsGrow ==
    ASSUME Results, NEW a \in Actors, committed' = committed \cup {a},
           reply'[a] = "ok", act[a].pc \in {"committing", "ending"}, ~act[a].closed,
           \A b \in Actors : Stays(b) /\ (reply'[b] = reply[b] \/ reply[b] # "ok")
    PROVE  Results'
BY DEF Results, ResultOK, Stays

\* One caller changes.
LEMMA Changed ==
    ASSUME act \in [Actors -> ActorStates], NEW a \in Actors, NEW r \in ActorStates,
           act' = [act EXCEPT ![a] = r]
    PROVE  /\ act' \in [Actors -> ActorStates] /\ act'[a] = r
           /\ \A b \in Actors : b # a => act'[b] = act[b]
OBVIOUS

LEMMA BegunMarked ==
    ASSUME act \in [Actors -> ActorStates], NEW a \in Actors, NEW v \in BOOLEAN,
           act' = [act EXCEPT ![a].begun = v]
    PROVE  act' \in [Actors -> ActorStates] /\ \A b \in Actors : Stays(b)
<1> DEFINE r == [act[a] EXCEPT !.begun = v]
<1>1. act' = [act EXCEPT ![a] = r]
  OBVIOUS
<1>2. r \in ActorStates
  BY DEF ActorStates
<1>3. /\ r.pc = act[a].pc /\ r.handle = act[a].handle /\ r.closed = act[a].closed
      /\ r.result = act[a].result /\ r.lock = act[a].lock /\ r.gate = act[a].gate
  BY DEF ActorStates
<1> HIDE DEF r
<1> QED BY <1>1, <1>2, <1>3, Changed DEF Stays

LEMMA Fired ==
    ASSUME jobs \in Seq(Jobs), NEW a \in Actors, NEW op \in {"drop", "abandon"}
    PROVE  /\ Fire(jobs, op, a) \in Seq(Jobs)
           /\ \/ Fire(jobs, op, a) = jobs
              \/ \E j \in Jobs : JobOK(j) /\ j.by \notin Actors /\ Fire(jobs, op, a) = Append(jobs, j)
<1> DEFINE j == Job(op, a, None)
<1>1. j \in Jobs /\ JobOK(j) /\ j.by \notin Actors
  BY DEF Job, Jobs, JobOK, Begins
<1>2. Fire(jobs, op, a) = jobs \/ Fire(jobs, op, a) = Append(jobs, j)
  BY DEF Fire
<1> HIDE DEF j
<1> QED BY <1>1, <1>2

LEMMA LiveEnded ==
    ASSUME Shapes, NEW a \in Actors, EndLive(a)
    PROVE  storage' \in StorageStates /\ mutex' \in {"free", "us", "peer", "outside"} /\ SlotStays
BY DEF Shapes, EndLive, StorageStates, SlotStays

LEMMA PickBeginStep == ASSUME IInv, PickBegin PROVE IInv'
<1> DEFINE j == Head(jobs)
<1>1. /\ worker.pc = "idle" /\ jobs # <<>> /\ j.op \in Begins /\ jobs' = Tail(jobs)
      /\ UNCHANGED <<storage, closer, gate, helper, flock, mutex, act, committed, slips>>
  BY DEF PickBegin
<1>2. /\ Shapes /\ Asking /\ Handles /\ Results /\ Owners /\ Consumers /\ Generations
      /\ jobs \in Seq(Jobs) /\ closer.on \in Actors \cup {None}
  BY DEF IInv, Shapes, Closers
<1>3. jobs' \in Seq(Jobs) /\ j \in Jobs
  BY <1>1, <1>2, Taken
<1>4. \A b \in Actors : Stays(b)
  BY <1>1 DEF Stays
<1>5. SlotStays
  BY <1>1 DEF SlotStays
<1>6. Handles' /\ Owners' /\ Consumers' /\ Generations'
  BY <1>1, <1>2, <1>4, <1>5, AtRest
<1>7. CASE worker' = worker /\ reply' = IF j.cancelled THEN reply ELSE Answer(j.by, "failed")
  <2>1. /\ Asking' /\ reply' \in [Requesters -> Replies]
        /\ \A b \in Actors : reply'[b] = reply[b] \/ reply[b] # "ok"
    BY <1>1, <1>2, <1>7, HeadAsk
  <2>2. Results'
    BY <1>1, <1>2, <1>4, <2>1, ResultsStay
  <2>3. Shapes'
    BY <1>1, <1>2, <1>3, <1>7, <2>1 DEF Shapes
  <2> QED BY <1>6, <2>1, <2>2, <2>3 DEF IInv
<1>8. CASE worker' = [pc |-> "begin", job |-> j] /\ reply' = reply
  <2>1. Asking'
    BY <1>1, <1>2, <1>8, BeginAsk
  <2>2. Results'
    BY <1>1, <1>2, <1>4, <1>8, ResultsStay
  <2>3. worker' \in Workers
    BY <1>3, <1>8 DEF Workers, WorkerPcs
  <2>4. Shapes'
    BY <1>1, <1>2, <1>3, <1>8, <2>3 DEF Shapes
  <2> QED BY <1>6, <2>1, <2>2, <2>4 DEF IInv
<1> QED BY <1>7, <1>8 DEF PickBegin

\* Until the begin has landed, its requester waits.
LEMMA StillWaiting ==
    ASSUME Shapes, Asking, worker.pc \in {"begin", "register"}
    PROVE  reply = IF worker.job.cancelled THEN reply ELSE Answer(worker.job.by, "waiting")
<1>1. SUFFICES ASSUME ~worker.job.cancelled, worker.job.by # None
      PROVE  reply = [reply EXCEPT ![worker.job.by] = "waiting"]
  BY DEF Answer
<1>2. /\ worker.job.by \in Requesters /\ JobOK(worker.job) /\ worker.job.op \in Begins
      /\ worker.job \in Jobs /\ reply \in [Requesters -> Replies]
  BY <1>1 DEF Jobs, Asking, WorkerOK, Shapes
<1>3. worker.job.by \in Actors /\ AtWorker(worker.job.by)
  BY <1>1, <1>2 DEF JobOK, AtWorker, Asks, Begins, Jobs
<1>4. reply[worker.job.by] = "waiting"
  BY <1>3 DEF Asking, AskOK, Phase
<1> QED BY <1>2, <1>4

LEMMA EnvBeginStep == ASSUME IInv, EnvBegin PROVE IInv'
<1>1. /\ worker.pc = "begin" /\ mutex' = "us" /\ worker' = [worker EXCEPT !.pc = "register"]
      /\ UNCHANGED <<storage, closer, gate, helper, flock, jobs, reply, act, committed, slips>>
  BY DEF EnvBegin
<1>2. /\ Shapes /\ Asking /\ Handles /\ Results /\ Owners /\ Consumers /\ Generations
      /\ closer.on \in Actors \cup {None} /\ worker.job \in Jobs
      /\ reply \in [Requesters -> Replies]
  BY <1>1 DEF IInv, Shapes, Closers, Asking, WorkerOK
<1>3. /\ Phase("register") = "waiting" /\ "register" \in WorkerPcs \ {"idle"}
      /\ "waiting" \in Replies \ {"none"}
  BY DEF Phase, WorkerPcs, Replies
<1>4. reply' = IF worker.job.cancelled THEN reply ELSE Answer(worker.job.by, Phase("register"))
  BY <1>1, <1>2, <1>3, StillWaiting
<1>5. Asking' /\ worker' \in Workers
  BY <1>1, <1>2, <1>3, <1>4, PhaseAsk
<1>6. \A b \in Actors : Stays(b)
  BY <1>1 DEF Stays
<1>7. Handles' /\ Owners' /\ Consumers' /\ Generations'
  BY <1>1, <1>2, <1>6, AtRest DEF SlotStays
<1>8. Results'
  BY <1>1, <1>2, <1>6, ResultsStay
<1>9. Shapes'
  BY <1>1, <1>2, <1>5 DEF Shapes
<1> QED BY <1>5, <1>7, <1>8, <1>9 DEF IInv

LEMMA RegisterLiveStep == ASSUME IInv, RegisterLive PROVE IInv'
<1> DEFINE a == worker.job.who
<1>1. /\ worker.pc = "register"
      /\ UNCHANGED <<closer, gate, helper, flock, jobs, committed, slips>>
  BY DEF RegisterLive
<1>2. /\ Shapes /\ Asking /\ Handles /\ Results /\ Owners /\ Consumers /\ Generations
      /\ closer.on \in Actors \cup {None} /\ worker.job \in Jobs /\ a \in Actors
      /\ reply \in [Requesters -> Replies] /\ worker \in Workers
      /\ storage \in StorageStates /\ act \in [Actors -> ActorStates]
  BY <1>1 DEF IInv, Shapes, Closers, Asking, WorkerOK, Jobs
<1>3. CASE storage.opened
  <2>1. /\ storage' = [storage EXCEPT !.live = @ \cup {a}]
        /\ worker' = [worker EXCEPT !.pc = "land"]
        /\ act' = IF a \in Reservers THEN [act EXCEPT ![a].begun = TRUE] ELSE act
        /\ UNCHANGED <<mutex, reply>>
    BY <1>3 DEF RegisterLive
  <2>2. act' \in [Actors -> ActorStates] /\ \A b \in Actors : Stays(b)
    <3>1. CASE a \in Reservers
      BY <1>2, <2>1, <3>1, BegunMarked
    <3>2. CASE a \notin Reservers
      BY <1>2, <2>1, <3>2 DEF Stays
    <3> QED BY <3>1, <3>2
  <2>3. storage' \in StorageStates /\ SlotStays
    BY <1>2, <2>1 DEF StorageStates, SlotStays
  <2>4. /\ Phase("land") = "waiting" /\ "land" \in WorkerPcs \ {"idle"}
        /\ "waiting" \in Replies \ {"none"}
    BY DEF Phase, WorkerPcs, Replies
  <2>5. reply' = IF worker.job.cancelled THEN reply ELSE Answer(worker.job.by, Phase("land"))
    BY <1>1, <1>2, <2>1, <2>4, StillWaiting
  <2>6. Asking' /\ worker' \in Workers
    BY <1>1, <1>2, <2>1, <2>2, <2>4, <2>5, PhaseAsk DEF Stays
  <2>7. Handles' /\ Owners' /\ Consumers' /\ Generations'
    BY <1>1, <1>2, <2>2, <2>3, AtRest
  <2>8. Results'
    BY <1>1, <1>2, <2>1, <2>2, ResultsStay
  <2>9. Shapes'
    BY <1>1, <1>2, <2>1, <2>2, <2>3, <2>6 DEF Shapes
  <2> QED BY <2>6, <2>7, <2>8, <2>9 DEF IInv
<1>4. CASE ~storage.opened
  <2>1. /\ mutex' = "free" /\ worker' = NoJob
        /\ reply' = IF worker.job.cancelled THEN reply ELSE Answer(worker.job.by, "failed")
        /\ UNCHANGED <<storage, act>>
    BY <1>4 DEF RegisterLive
  <2>2. \A b \in Actors : Stays(b)
    BY <2>1 DEF Stays
  <2>3. /\ Asking' /\ reply' \in [Requesters -> Replies] /\ worker' \in Workers
        /\ \A b \in Actors : reply'[b] = reply[b] \/ reply[b] # "ok"
    BY <1>1, <1>2, <2>1, FinishAsk
  <2>4. Handles' /\ Owners' /\ Consumers' /\ Generations'
    BY <1>1, <1>2, <2>1, <2>2, AtRest DEF SlotStays
  <2>5. Results'
    BY <1>1, <1>2, <2>2, <2>3, ResultsStay
  <2>6. Shapes'
    BY <1>1, <1>2, <2>1, <2>3 DEF Shapes
  <2> QED BY <2>3, <2>4, <2>5, <2>6 DEF IInv
<1> QED BY <1>3, <1>4

LEMMA LandStep == ASSUME IInv, Land PROVE IInv'
<1> DEFINE j == worker.job
<1>1. /\ worker.pc = "land"
      /\ UNCHANGED <<storage, closer, gate, helper, flock, mutex, jobs, act, committed, slips>>
  BY DEF Land
<1>2. /\ Shapes /\ Asking /\ Handles /\ Results /\ Owners /\ Consumers /\ Generations
      /\ closer.on \in Actors \cup {None} /\ j \in Jobs
  BY <1>1 DEF IInv, Shapes, Closers, Asking, WorkerOK
<1>3. PICK pc \in {"drop", "apply", "result"} :
          /\ worker' = [worker EXCEPT !.pc = pc]
          /\ reply' = IF j.cancelled THEN reply ELSE Answer(j.by, Phase(pc))
          /\ pc = "drop" <=> j.cancelled
          /\ pc = "apply" => j.op = "staged" /\ ~j.cancelled
          /\ pc = "result" => j.op = "begin"
  <2>1. CASE j.cancelled /\ worker' = [worker EXCEPT !.pc = "drop"] /\ reply' = reply
    BY <2>1
  <2>2. CASE /\ ~j.cancelled /\ j.op = "staged" /\ worker' = [worker EXCEPT !.pc = "apply"]
             /\ reply' = Answer(j.by, "landed")
    BY <2>2 DEF Phase
  <2>3. CASE /\ ~j.cancelled /\ j.op = "begin" /\ worker' = [worker EXCEPT !.pc = "result"]
             /\ reply' = Answer(j.by, "running")
    BY <2>3 DEF Phase
  <2> QED BY <2>1, <2>2, <2>3 DEF Land
<1>4. pc \in WorkerPcs \ {"idle"} /\ (~j.cancelled => Phase(pc) \in Replies \ {"none"})
  BY <1>3 DEF WorkerPcs, Phase, Replies
<1>5. /\ Asking' /\ worker' \in Workers /\ reply' \in [Requesters -> Replies]
      /\ \A b \in Actors : reply'[b] = reply[b] \/ reply[b] # "ok"
  BY <1>1, <1>2, <1>3, <1>4, PhaseAsk
<1>6. \A b \in Actors : Stays(b)
  BY <1>1 DEF Stays
<1>7. Handles' /\ Owners' /\ Consumers' /\ Generations'
  BY <1>1, <1>2, <1>6, AtRest DEF SlotStays
<1>8. Results'
  BY <1>1, <1>2, <1>5, <1>6, ResultsStay
<1>9. Shapes'
  BY <1>1, <1>2, <1>5 DEF Shapes
<1> QED BY <1>5, <1>7, <1>8, <1>9 DEF IInv

LEMMA SetResultStep == ASSUME IInv, SetResult PROVE IInv'
<1> DEFINE j == worker.job
<1> DEFINE op == IF j.who \in Reservers THEN "abandon" ELSE "drop"
<1>1. /\ worker.pc = "result" /\ worker' = NoJob
      /\ reply' = IF j.cancelled THEN reply ELSE Answer(j.by, "ok")
      /\ jobs' = IF j.cancelled THEN Fire(jobs, op, j.who) ELSE jobs
      /\ UNCHANGED <<storage, closer, gate, helper, flock, mutex, act, committed, slips>>
  BY DEF SetResult
<1>2. /\ Shapes /\ Asking /\ Handles /\ Results /\ Owners /\ Consumers /\ Generations
      /\ closer.on \in Actors \cup {None} /\ j.who \in Actors /\ jobs \in Seq(Jobs)
  BY <1>1 DEF IInv, Shapes, Closers, Asking, WorkerOK, Jobs
<1>3. op \in {"drop", "abandon"}
  OBVIOUS
<1> HIDE DEF op
<1>4. /\ jobs' \in Seq(Jobs)
      /\ jobs' = jobs \/ \E k \in Jobs : JobOK(k) /\ k.by \notin Actors /\ jobs' = Append(jobs, k)
  BY <1>1, <1>2, <1>3, Fired
<1>5. /\ Asking' /\ worker' \in Workers /\ reply' \in [Requesters -> Replies]
      /\ \A b \in Actors : reply'[b] = reply[b] \/ reply[b] # "ok"
  BY <1>1, <1>2, <1>4, FinishAsk
<1>6. \A b \in Actors : Stays(b)
  BY <1>1 DEF Stays
<1>7. Handles' /\ Owners' /\ Consumers' /\ Generations'
  BY <1>1, <1>2, <1>6, AtRest DEF SlotStays
<1>8. Results'
  BY <1>1, <1>2, <1>5, <1>6, ResultsStay
<1>9. Shapes'
  BY <1>1, <1>2, <1>4, <1>5 DEF Shapes
<1> QED BY <1>5, <1>7, <1>8, <1>9 DEF IInv

LEMMA DropAbandonedStep == ASSUME IInv, DropAbandoned PROVE IInv'
<1> DEFINE a == worker.job.who
<1>1. /\ worker.pc = "drop" /\ worker' = NoJob
      /\ UNCHANGED <<closer, gate, helper, flock, jobs, reply, committed, slips>>
  BY DEF DropAbandoned
<1>2. /\ Shapes /\ Asking /\ Handles /\ Results /\ Owners /\ Consumers /\ Generations
      /\ closer.on \in Actors \cup {None} /\ a \in Actors /\ worker.job.cancelled
      /\ act \in [Actors -> ActorStates]
  BY <1>1 DEF IInv, Shapes, Closers, Asking, WorkerOK, Jobs
<1>3. /\ storage' \in StorageStates /\ mutex' \in {"free", "us", "peer", "outside"} /\ SlotStays
      /\ act' \in [Actors -> ActorStates] /\ \A b \in Actors : Stays(b)
  <2>1. CASE UNCHANGED <<storage, mutex, act>>
    BY <1>2, <2>1 DEF Shapes, SlotStays, Stays
  <2>2. CASE EndLive(a) /\ act' = [act EXCEPT ![a].begun = FALSE]
    <3>1. act' \in [Actors -> ActorStates] /\ \A b \in Actors : Stays(b)
      BY <1>2, <2>2, BegunMarked
    <3> QED BY <1>2, <2>2, <3>1, LiveEnded
  <2> QED BY <2>1, <2>2 DEF DropAbandoned
<1>4. Asking' /\ worker' \in Workers
  BY <1>1, <1>2, <1>3, FinishAsk DEF Stays
<1>5. Handles' /\ Owners' /\ Consumers' /\ Generations'
  BY <1>1, <1>2, <1>3, AtRest
<1>6. Results'
  BY <1>1, <1>2, <1>3, ResultsStay
<1>7. Shapes'
  BY <1>1, <1>2, <1>3, <1>4 DEF Shapes
<1> QED BY <1>4, <1>5, <1>6, <1>7 DEF IInv

LEMMA ApplyAndCommitStep == ASSUME IInv, ApplyAndCommit PROVE IInv'
<1> DEFINE a == worker.job.who
<1>1. /\ worker.pc = "apply" /\ worker' = NoJob /\ EndLive(a)
      /\ UNCHANGED <<closer, gate, helper, flock, jobs, act, slips>>
  BY DEF ApplyAndCommit
<1>2. /\ Shapes /\ Asking /\ Handles /\ Results /\ Owners /\ Consumers /\ Generations
      /\ closer.on \in Actors \cup {None} /\ reply \in [Requesters -> Replies]
  BY <1>1 DEF IInv, Shapes, Closers
<1>3. /\ a \in Actors /\ worker.job.by = a /\ ~worker.job.cancelled /\ AtWorker(a) /\ a # None
      /\ worker.job.op = "staged" /\ a \in Requesters
  BY <1>1, <1>2 DEF Asking, WorkerOK, JobOK, Jobs, AtWorker, Asks, Requesters
<1>4. act[a].pc = "committing" /\ ~act[a].closed
  <2>1. act[a].pc = "committing"
    BY <1>2, <1>3 DEF Asking, AskOK, Stands
  <2> QED BY <1>2, <1>3, <2>1 DEF Handles, HandleOK, CallLocked
<1>5. storage' \in StorageStates /\ mutex' \in {"free", "us", "peer", "outside"} /\ SlotStays
  BY <1>1, <1>2, <1>3, LiveEnded
<1>6. PICK x \in {"ok", "failed"} :
          /\ reply' = [reply EXCEPT ![a] = x]
          /\ \/ committed' = committed \cup {a} /\ x = "ok"
             \/ committed' = committed
  BY DEF ApplyAndCommit
<1>7. reply' = IF worker.job.cancelled THEN reply ELSE Answer(worker.job.by, x)
  BY <1>3, <1>6 DEF Answer
<1>8. /\ Asking' /\ worker' \in Workers /\ reply' \in [Requesters -> Replies]
      /\ \A b \in Actors : reply'[b] = reply[b] \/ reply[b] # "ok"
  BY <1>1, <1>2, <1>7, FinishAsk
<1>9. \A b \in Actors : Stays(b)
  BY <1>1 DEF Stays
<1>10. Handles' /\ Owners' /\ Consumers' /\ Generations'
  BY <1>1, <1>2, <1>5, <1>9, AtRest
<1>11. Results' /\ committed' \subseteq Actors
  <2>1. CASE committed' = committed
    BY <1>2, <1>8, <1>9, <2>1, ResultsStay DEF Shapes
  <2>2. CASE committed' = committed \cup {a} /\ x = "ok"
    <3>1. reply'[a] = "ok"
      BY <1>2, <1>3, <1>6, <2>2
    <3> QED BY <1>2, <1>3, <1>4, <1>8, <1>9, <2>2, <3>1, ResultsGrow DEF Shapes
  <2> QED BY <1>6, <2>1, <2>2
<1>12. Shapes'
  BY <1>1, <1>2, <1>5, <1>8, <1>11 DEF Shapes
<1> QED BY <1>8, <1>10, <1>11, <1>12 DEF IInv

LEMMA RunEndStep == ASSUME IInv, RunEnd PROVE IInv'
<1> DEFINE j == Head(jobs)
<1>1. /\ worker.pc = "idle" /\ jobs # <<>> /\ j.op \notin Begins /\ jobs' = Tail(jobs)
      /\ EndLive(j.who) \/ UNCHANGED <<storage, mutex>>
      /\ act' = IF j.op = "abandon" THEN [act EXCEPT ![j.who].begun = FALSE] ELSE act
      /\ UNCHANGED <<closer, gate, helper, flock, worker, slips>>
  BY DEF RunEnd
<1>2. /\ Shapes /\ Asking /\ Handles /\ Results /\ Owners /\ Consumers /\ Generations
      /\ closer.on \in Actors \cup {None} /\ reply \in [Requesters -> Replies]
      /\ jobs \in Seq(Jobs) /\ act \in [Actors -> ActorStates]
  BY <1>1 DEF IInv, Shapes, Closers
<1>3. 1 \in DOMAIN jobs /\ j = jobs[1] /\ j \in Jobs /\ jobs' \in Seq(Jobs)
  BY <1>1, <1>2, Taken
<1>4. PICK x \in {"ok", "failed"} :
          /\ reply' = Answer(j.by, x)
          /\ \/ j.op = "commit" /\ committed' = committed \cup {j.who} /\ x = "ok"
             \/ committed' = committed
  BY DEF RunEnd
<1> HIDE DEF j
<1>5. JobOK(j) /\ ~j.cancelled /\ j.who \in Actors
  BY <1>1, <1>2, <1>3 DEF Asking, JobsOK, JobOK, Jobs
<1>6. reply' = IF j.cancelled THEN reply ELSE Answer(j.by, x)
  BY <1>4, <1>5
<1>7. act' \in [Actors -> ActorStates] /\ \A b \in Actors : Stays(b)
  <2>1. CASE j.op = "abandon"
    BY <1>1, <1>2, <1>5, <2>1, BegunMarked
  <2>2. CASE j.op # "abandon"
    BY <1>1, <1>2, <2>2 DEF Stays
  <2> QED BY <2>1, <2>2
<1>8. storage' \in StorageStates /\ mutex' \in {"free", "us", "peer", "outside"} /\ SlotStays
  <2>1. CASE EndLive(j.who)
    BY <1>2, <1>5, <2>1, LiveEnded
  <2>2. CASE UNCHANGED <<storage, mutex>>
    BY <1>2, <2>2 DEF Shapes, SlotStays
  <2> QED BY <1>1, <2>1, <2>2
<1>9. /\ Asking' /\ reply' \in [Requesters -> Replies]
      /\ \A b \in Actors : reply'[b] = reply[b] \/ reply[b] # "ok"
  BY <1>1, <1>2, <1>6, <1>7, HeadAsk DEF Stays, j
<1>10. Handles' /\ Owners' /\ Consumers' /\ Generations'
  BY <1>1, <1>2, <1>7, <1>8, AtRest
<1>11. Results' /\ committed' \subseteq Actors
  <2>1. CASE committed' = committed
    BY <1>2, <1>7, <1>9, <2>1, ResultsStay DEF Shapes
  <2>2. CASE j.op = "commit" /\ committed' = committed \cup {j.who} /\ x = "ok"
    <3>1. j.by = j.who /\ Asks(j, j.who)
      BY <1>5, <2>2 DEF JobOK, Asks
    <3>2. reply'[j.who] = "ok"
      <4>1. j.who \in Actors /\ j.by # None /\ j.by \in Requesters
        BY <1>3, <3>1 DEF Jobs, Requesters
      <4>2. reply' = [reply EXCEPT ![j.who] = "ok"]
        BY <1>4, <2>2, <3>1, <4>1 DEF Answer
      <4> QED BY <1>2, <3>1, <4>1, <4>2
    <3>3. act[j.who].pc = "ending"
      BY <1>2, <1>3, <1>5, <2>2, <3>1 DEF Asking, AskOK, Stands
    <3>4. ~act[j.who].closed
      BY <1>2, <1>5, <3>3 DEF Handles, HandleOK, CallLocked
    <3> QED BY <1>2, <1>5, <1>7, <1>9, <2>2, <3>2, <3>3, <3>4, ResultsGrow DEF Shapes
  <2> QED BY <1>4, <2>1, <2>2
<1>12. Shapes'
  BY <1>1, <1>2, <1>3, <1>7, <1>8, <1>9, <1>11 DEF Shapes
<1> QED BY <1>9, <1>10, <1>11, <1>12 DEF IInv

LEMMA WorkerStep == ASSUME IInv, Worker PROVE IInv'
BY PickBeginStep, EnvBeginStep, RegisterLiveStep, LandStep, SetResultStep, DropAbandonedStep,
   ApplyAndCommitStep, RunEndStep DEF Worker
-----------------------------------------------------------------------------
(* Steps of one caller                                                     *)

LEMMA Facts ==
    ASSUME IInv, NEW a \in Actors
    PROVE  /\ Shapes /\ Generations /\ Asking /\ Handles /\ Results /\ Owners /\ Consumers
           /\ HandleOK(a) /\ ResultOK(a) /\ OwnerOK(a) /\ ConsumerOK(a) /\ AskOK(a) /\ CloserOK
           /\ act \in [Actors -> ActorStates] /\ act[a] \in ActorStates
           /\ reply \in [Requesters -> Replies] /\ a \in Requesters
           /\ storage \in StorageStates /\ gate \in GateStates /\ jobs \in Seq(Jobs)
           /\ closer \in Closers /\ a # None
BY DEF IInv, Shapes, Handles, Results, Owners, Consumers, Asking, Requesters

\* What a step does to its caller: r is the caller's next state.
Becomes(a, r) ==
    /\ act' = [act EXCEPT ![a] = r] /\ act'[a] = r
    /\ \A b \in Actors \ {a} : act'[b] = act[b]

Keeps(a, r) ==
    /\ r.handle = act[a].handle /\ r.closed = act[a].closed /\ r.gate = act[a].gate
    /\ r.result = act[a].result /\ r.lock = act[a].lock

LEMMA Went ==
    ASSUME act \in [Actors -> ActorStates], NEW a \in Actors, NEW p \in PCs, Goto(a, p)
    PROVE  \E r \in ActorStates : Becomes(a, r) /\ r.pc = p /\ Keeps(a, r)
<1> DEFINE r == [act[a] EXCEPT !.pc = p]
<1>1. act' = [act EXCEPT ![a] = r]
  BY DEF Goto
<1>2. r \in ActorStates /\ r.pc = p /\ Keeps(a, r)
  BY DEF ActorStates, Keeps
<1> HIDE DEF r
<1> QED BY <1>1, <1>2, Changed DEF Becomes

LEMMA Failed ==
    ASSUME act \in [Actors -> ActorStates], NEW a \in Actors, NEW p \in PCs, Fail(a, p)
    PROVE  \E r \in ActorStates :
              /\ Becomes(a, r) /\ r.pc = p /\ r.result = "failed" /\ r.closed = TRUE
              /\ r.handle = "none" /\ r.gate = act[a].gate /\ r.lock = act[a].lock
<1> DEFINE r == [act[a] EXCEPT !.pc = p, !.result = "failed", !.closed = TRUE, !.handle = "none"]
<1>1. act' = [act EXCEPT ![a] = r]
  BY DEF Fail
<1>2. /\ r \in ActorStates /\ r.pc = p /\ r.result = "failed" /\ r.closed = TRUE
      /\ r.handle = "none" /\ r.gate = act[a].gate /\ r.lock = act[a].lock
  <2>1. act[a] \in ActorStates
    OBVIOUS
  <2> QED BY <2>1 DEF ActorStates
<1> HIDE DEF r
<1> QED BY <1>1, <1>2, Changed DEF Becomes

\* What one caller does leaves the places of the others right.
LEMMA OneMoves ==
    ASSUME IInv, NEW a \in Actors, NEW r \in ActorStates, Becomes(a, r),
           closer' = closer, closer.on # a,
           storage' \in StorageStates, storage'.opened = storage.opened,
           storage'.opens = storage.opens, storage'.slot = storage.slot,
           storage'.owner = storage.owner \/ storage.owner \in {None, a},
           \A b \in Actors \ {a} : b \in storage'.active <=> b \in storage.active,
           gate' \in GateStates, gate'.gen = gate.gen,
           \A b \in Actors \ {a} : gate'.consumer = b <=> gate.consumer = b,
           flock' \in {Free, PeerHas} \cup Descriptors, helper' \in [Descriptors -> Helpers],
           mutex' = mutex, committed' = committed, slips' \subseteq SlipStates,
           Asking', jobs' \in Seq(Jobs), worker' \in Workers, reply' \in [Requesters -> Replies],
           \A b \in Actors \ {a} : reply'[b] = reply[b],
           HandleOK(a)', ResultOK(a)', OwnerOK(a)', ConsumerOK(a)'
    PROVE  IInv'
<1>1. /\ Shapes /\ Generations /\ Handles /\ Results /\ Owners /\ Consumers
      /\ act \in [Actors -> ActorStates] /\ closer \in Closers
  BY DEF IInv, Shapes
<1>2. /\ act' \in [Actors -> ActorStates] /\ act'[a] = r
      /\ \A b \in Actors : b # a => act'[b] = act[b]
  BY <1>1, Changed DEF Becomes
<1>3. Shapes'
  BY <1>1, <1>2 DEF Shapes
<1>4. Generations'
  BY <1>1 DEF Generations
<1>5. CloserOK'
  BY <1>1, <1>2 DEF Handles, CloserOK, Closers
<1>6. ASSUME NEW b \in Actors \ {a}
      PROVE  HandleOK(b)' /\ ResultOK(b)' /\ OwnerOK(b)' /\ ConsumerOK(b)'
  <2>1. /\ HandleOK(b) /\ ResultOK(b) /\ OwnerOK(b) /\ ConsumerOK(b)
        /\ act'[b] = act[b] /\ reply'[b] = reply[b]
    BY <1>1, <1>2 DEF Handles, Results, Owners, Consumers
  <2>2. HandleOK(b)' /\ ResultOK(b)'
    BY <2>1 DEF HandleOK, ResultOK, Listed, CallLocked
  <2>3. OwnerOK(b)'
    BY <2>1 DEF OwnerOK
  <2>4. ConsumerOK(b)'
    BY <2>1 DEF ConsumerOK, Current
  <2> QED BY <2>2, <2>3, <2>4
<1> QED BY <1>3, <1>4, <1>5, <1>6 DEF IInv, Handles, Results, Owners, Consumers

\* Where an actor that does not wait for the thread goes is nothing to the queue.
LEMMA FreeMove ==
    ASSUME IInv, NEW a \in Actors, reply[a] = "none", reply' = reply, worker' = worker,
           \/ jobs' = jobs
           \/ \E j \in Jobs : JobOK(j) /\ j.by \notin Actors /\ jobs' = Append(jobs, j),
           \A b \in Actors \ {a} : act'[b] = act[b]
    PROVE  Asking' /\ jobs' \in Seq(Jobs) /\ worker' \in Workers /\ reply' \in [Requesters -> Replies]
<1>1. Shapes /\ Asking
  BY DEF IInv
<1>2. Asking'
  BY <1>1, QuietAsk
<1>3. jobs' \in Seq(Jobs)
  BY <1>1, Appended DEF Shapes
<1> QED BY <1>1, <1>2, <1>3 DEF Shapes


LEMMA AttachStep == ASSUME IInv, NEW a \in Actors, Attach(a) PROVE IInv'
<1>1. /\ act[a].pc = "gate"
      /\ UNCHANGED <<storage, closer, mutex, jobs, worker, reply, committed, slips>>
  BY DEF Attach
<1>2. /\ HandleOK(a) /\ ResultOK(a) /\ OwnerOK(a) /\ ConsumerOK(a) /\ AskOK(a) /\ CloserOK
      /\ act \in [Actors -> ActorStates] /\ act[a] \in ActorStates /\ Shapes /\ Generations
      /\ Owners /\ Consumers /\ Asking /\ gate \in GateStates /\ storage \in StorageStates
      /\ jobs \in Seq(Jobs) /\ reply \in [Requesters -> Replies] /\ a \in Requesters
      /\ closer \in Closers /\ a # None
  BY Facts
<1>3. closer.on # a /\ reply[a] = "none"
  BY <1>1, <1>2 DEF CloserOK, AskOK, Waits
<1>4. CASE /\ ~Current(a) /\ Goto(a, "undo") /\ UNCHANGED GateVars
  <2>1. gate' = gate /\ helper' = helper /\ flock' = flock
    BY <1>4 DEF GateVars
  <2>2. PICK r \in ActorStates : Becomes(a, r) /\ r.pc = "undo" /\ Keeps(a, r)
    BY <1>1, <1>2, <1>4, Went DEF PCs
  <2>3. Asking' /\ jobs' \in Seq(Jobs) /\ worker' \in Workers /\ reply' \in [Requesters -> Replies]
    BY <1>1, <1>2, <1>3, <1>4, <2>1, <2>2, FreeMove DEF Becomes
  <2>4. HandleOK(a)'
    BY <1>1, <1>2, <1>3, <1>4, <2>1, <2>2, <2>3 DEF HandleOK, Listed, CallLocked, Used, Becomes, Keeps
  <2>5. ResultOK(a)'
    BY <1>1, <1>2, <1>3, <1>4, <2>1, <2>2, <2>3 DEF ResultOK, Becomes, Keeps
  <2>6. OwnerOK(a)' /\ ConsumerOK(a)'
    BY <1>1, <1>2, <1>3, <1>4, <2>1, <2>2, <2>3 DEF OwnerOK, ConsumerOK, Current, Holders, Becomes, Keeps, GateVars
  <2> QED BY <1>1, <1>2, <1>3, <1>4, <2>1, <2>2, <2>3, <2>4, <2>5, <2>6, OneMoves DEF Shapes
<1>5. CASE /\ Current(a) /\ ~gate.waiting /\ flock \in {Free, gate.gen} /\ flock' = gate.gen
           /\ act' = [act EXCEPT ![a] = [@ EXCEPT !.pc = "flag", !.gen = gate.gen]]
           /\ UNCHANGED <<gate, helper>>
  <2>1. flock' \in Descriptors
    BY <1>2, <1>5 DEF Generations, Current, Descriptors, StorageStates
  <2> DEFINE r == [act[a] EXCEPT !.pc = "flag", !.gen = gate.gen]
  <2>2. act' = [act EXCEPT ![a] = r]
    BY <1>1, <1>2, <1>5
  <2>3. r \in ActorStates /\ r.pc = "flag" /\ Keeps(a, r)
    BY <1>1, <1>2, <1>5, <2>1 DEF Keeps, ActorStates, PCs, GateStates, StorageStates
  <2> HIDE DEF r
  <2>4. Becomes(a, r)
    BY <1>2, <2>2, <2>3, Changed DEF Becomes
  <2>5. Asking' /\ jobs' \in Seq(Jobs) /\ worker' \in Workers /\ reply' \in [Requesters -> Replies]
    BY <1>1, <1>2, <1>3, <1>5, <2>1, <2>3, <2>4, FreeMove DEF Becomes
  <2>6. HandleOK(a)'
    BY <1>1, <1>2, <1>3, <1>5, <2>1, <2>3, <2>4, <2>5 DEF HandleOK, Listed, CallLocked, Used, Becomes, Keeps
  <2>7. ResultOK(a)'
    BY <1>1, <1>2, <1>3, <1>5, <2>1, <2>3, <2>4, <2>5 DEF ResultOK, Becomes, Keeps
  <2>8. OwnerOK(a)' /\ ConsumerOK(a)'
    BY <1>1, <1>2, <1>3, <1>5, <2>1, <2>3, <2>4, <2>5 DEF OwnerOK, ConsumerOK, Current, Holders, Becomes, Keeps
  <2> QED BY <1>1, <1>2, <1>3, <1>5, <2>1, <2>3, <2>4, <2>5, <2>6, <2>7, <2>8, OneMoves DEF Shapes
<1>6. CASE /\ Current(a) /\ gate' = [gate EXCEPT !.waiting = TRUE, !.consumer = a]
           /\ helper' = IF gate.waiting THEN helper ELSE [helper EXCEPT ![gate.gen] = "asked"]
           /\ act' = [act EXCEPT ![a] = [@ EXCEPT !.pc = "gateWait", !.gate = "waiting", !.gen = gate.gen]]
           /\ flock' = flock
  <2>1. helper' \in [Descriptors -> Helpers]
    BY <1>2, <1>6 DEF Shapes, Helpers
  <2>2. storage.owner = a
    BY <1>1, <1>2, <1>6 DEF OwnerOK, Current, Holders
  <2>3. \A b \in Actors \ {a} : gate.consumer # b
    BY <1>2, <2>2 DEF Consumers, ConsumerOK, Owners, OwnerOK, Current, Holders
  <2> DEFINE r == [act[a] EXCEPT !.pc = "gateWait", !.gate = "waiting", !.gen = gate.gen]
  <2>4. act' = [act EXCEPT ![a] = r]
    BY <1>1, <1>2, <1>6
  <2>5. r \in ActorStates /\ r.pc = "gateWait" /\ r.handle = act[a].handle /\ r.closed = act[a].closed
        /\ r.gate = "waiting" /\ r.result = act[a].result /\ r.lock = act[a].lock
    <3>1. gate.gen \in Nat /\ "gateWait" \in PCs
      BY <1>2 DEF GateStates, PCs
    <3> QED BY <1>2, <3>1 DEF ActorStates
  <2> HIDE DEF r
  <2>6. Becomes(a, r)
    BY <1>2, <2>4, <2>5, Changed DEF Becomes
  <2>7. gate' \in GateStates /\ gate'.gen = gate.gen /\ gate'.consumer = a
    BY <1>1, <1>2, <1>6, <2>1, <2>2, <2>3 DEF GateStates
  <2>8. Asking' /\ jobs' \in Seq(Jobs) /\ worker' \in Workers /\ reply' \in [Requesters -> Replies]
    BY <1>1, <1>2, <1>3, <1>6, <2>1, <2>2, <2>3, <2>5, <2>6, <2>7, FreeMove DEF Becomes
  <2>9. HandleOK(a)'
    BY <1>1, <1>2, <1>3, <1>6, <2>1, <2>2, <2>3, <2>5, <2>6, <2>7, <2>8 DEF HandleOK, Listed, CallLocked, Used, Becomes, Keeps
  <2>10. ResultOK(a)'
    BY <1>1, <1>2, <1>3, <1>6, <2>1, <2>2, <2>3, <2>5, <2>6, <2>7, <2>8 DEF ResultOK, Becomes, Keeps
  <2>11. OwnerOK(a)' /\ ConsumerOK(a)'
    BY <1>1, <1>2, <1>3, <1>6, <2>1, <2>2, <2>3, <2>5, <2>6, <2>7, <2>8 DEF OwnerOK, ConsumerOK, Current, Holders, Becomes, Keeps
  <2> QED BY <1>1, <1>2, <1>3, <1>6, <2>1, <2>2, <2>3, <2>5, <2>6, <2>7, <2>8, <2>9, <2>10, <2>11, OneMoves DEF Shapes
<1> QED BY <1>1, <1>4, <1>5, <1>6 DEF Attach

LEMMA HelperStep ==
    ASSUME IInv, NEW g \in Descriptors, HelperStarts(g) \/ HelperLocks(g) PROVE IInv'
<1>1. UNCHANGED <<storage, closer, gate, mutex, jobs, worker, reply, act, committed, slips>>
  BY DEF HelperStarts, HelperLocks
<1>2. /\ Shapes /\ Asking /\ Handles /\ Results /\ Owners /\ Consumers /\ Generations
      /\ closer.on \in Actors \cup {None}
  BY DEF IInv, Shapes, Closers
<1>3. helper' \in [Descriptors -> Helpers] /\ flock' \in {Free, PeerHas} \cup Descriptors
  BY <1>2 DEF Shapes, Helpers, HelperStarts, HelperLocks, CloseFile
<1>4. \A b \in Actors : Stays(b)
  BY <1>1 DEF Stays
<1>5. Handles' /\ Owners' /\ Consumers' /\ Generations' /\ Results'
  BY <1>1, <1>2, <1>4, AtRest, ResultsStay DEF SlotStays
<1>6. Asking'
  BY <1>1, <1>2, QuietAsk
<1>7. Shapes'
  BY <1>1, <1>2, <1>3 DEF Shapes
<1> QED BY <1>5, <1>6, <1>7 DEF IInv

LEMMA GateLandsStep == ASSUME IInv, NEW a \in Actors, GateLands(a) PROVE IInv'
<1>1. /\ act[a].pc = "gateWait"
      /\ act[a].gate \in {"landed", "closed"}
      /\ UNCHANGED <<storage, closer, gate, helper, flock, mutex, jobs, worker, reply, committed, slips>>
  BY DEF GateLands
<1>2. /\ HandleOK(a) /\ ResultOK(a) /\ OwnerOK(a) /\ ConsumerOK(a) /\ AskOK(a) /\ CloserOK
      /\ act \in [Actors -> ActorStates] /\ act[a] \in ActorStates /\ Shapes /\ Generations
      /\ Owners /\ Consumers /\ Asking /\ gate \in GateStates /\ storage \in StorageStates
      /\ jobs \in Seq(Jobs) /\ reply \in [Requesters -> Replies] /\ a \in Requesters
      /\ closer \in Closers /\ a # None
  BY Facts
<1>3. closer.on # a /\ reply[a] = "none"
  BY <1>1, <1>2 DEF CloserOK, AskOK, Waits
<1>4. CASE /\ act[a].gate = "landed" /\ act' = [act EXCEPT ![a] = [@ EXCEPT !.gate = "none", !.pc = "flag"]]
  <2> DEFINE r == [act[a] EXCEPT !.gate = "none", !.pc = "flag"]
  <2>1. act' = [act EXCEPT ![a] = r]
    BY <1>1, <1>2, <1>4
  <2>2. r \in ActorStates /\ r.pc = "flag" /\ r.handle = act[a].handle /\ r.closed = act[a].closed
        /\ r.gate = "none" /\ r.result = act[a].result /\ r.lock = act[a].lock
    BY <1>1, <1>2, <1>4 DEF Keeps, ActorStates, PCs, GateStates, StorageStates
  <2> HIDE DEF r
  <2>3. Becomes(a, r)
    BY <1>2, <2>1, <2>2, Changed DEF Becomes
  <2>4. Asking' /\ jobs' \in Seq(Jobs) /\ worker' \in Workers /\ reply' \in [Requesters -> Replies]
    BY <1>1, <1>2, <1>3, <1>4, <2>2, <2>3, FreeMove DEF Becomes
  <2>5. HandleOK(a)'
    BY <1>1, <1>2, <1>3, <1>4, <2>2, <2>3, <2>4 DEF HandleOK, Listed, CallLocked, Used, Becomes, Keeps
  <2>6. ResultOK(a)'
    BY <1>1, <1>2, <1>3, <1>4, <2>2, <2>3, <2>4 DEF ResultOK, Becomes, Keeps
  <2>7. OwnerOK(a)' /\ ConsumerOK(a)'
    BY <1>1, <1>2, <1>3, <1>4, <2>2, <2>3, <2>4 DEF OwnerOK, ConsumerOK, Current, Holders, Becomes, Keeps
  <2> QED BY <1>1, <1>2, <1>3, <1>4, <2>2, <2>3, <2>4, <2>5, <2>6, <2>7, OneMoves DEF Shapes
<1>5. CASE /\ act[a].gate = "closed" /\ act' = [act EXCEPT ![a] = [@ EXCEPT !.gate = "none", !.pc = "undo"]]
  <2> DEFINE r == [act[a] EXCEPT !.gate = "none", !.pc = "undo"]
  <2>1. act' = [act EXCEPT ![a] = r]
    BY <1>1, <1>2, <1>5
  <2>2. r \in ActorStates /\ r.pc = "undo" /\ r.handle = act[a].handle /\ r.closed = act[a].closed
        /\ r.gate = "none" /\ r.result = act[a].result /\ r.lock = act[a].lock
    BY <1>1, <1>2, <1>5 DEF Keeps, ActorStates, PCs, GateStates, StorageStates
  <2> HIDE DEF r
  <2>3. Becomes(a, r)
    BY <1>2, <2>1, <2>2, Changed DEF Becomes
  <2>4. Asking' /\ jobs' \in Seq(Jobs) /\ worker' \in Workers /\ reply' \in [Requesters -> Replies]
    BY <1>1, <1>2, <1>3, <1>5, <2>2, <2>3, FreeMove DEF Becomes
  <2>5. HandleOK(a)'
    BY <1>1, <1>2, <1>3, <1>5, <2>2, <2>3, <2>4 DEF HandleOK, Listed, CallLocked, Used, Becomes, Keeps
  <2>6. ResultOK(a)'
    BY <1>1, <1>2, <1>3, <1>5, <2>2, <2>3, <2>4 DEF ResultOK, Becomes, Keeps
  <2>7. OwnerOK(a)' /\ ConsumerOK(a)'
    BY <1>1, <1>2, <1>3, <1>5, <2>2, <2>3, <2>4 DEF OwnerOK, ConsumerOK, Current, Holders, Becomes, Keeps
  <2> QED BY <1>1, <1>2, <1>3, <1>5, <2>2, <2>3, <2>4, <2>5, <2>6, <2>7, OneMoves DEF Shapes
<1> QED BY <1>1, <1>4, <1>5 DEF GateLands

LEMMA GateTimesOutStep == ASSUME IInv, NEW a \in Actors, GateTimesOut(a) PROVE IInv'
<1>1. /\ act[a].pc = "gateWait"
      /\ gate.consumer = a
      /\ UNCHANGED <<storage, closer, helper, flock, mutex, jobs, worker, reply, committed, slips>>
  BY DEF GateTimesOut
<1>2. /\ HandleOK(a) /\ ResultOK(a) /\ OwnerOK(a) /\ ConsumerOK(a) /\ AskOK(a) /\ CloserOK
      /\ act \in [Actors -> ActorStates] /\ act[a] \in ActorStates /\ Shapes /\ Generations
      /\ Owners /\ Consumers /\ Asking /\ gate \in GateStates /\ storage \in StorageStates
      /\ jobs \in Seq(Jobs) /\ reply \in [Requesters -> Replies] /\ a \in Requesters
      /\ closer \in Closers /\ a # None
  BY Facts
<1>3. closer.on # a /\ reply[a] = "none"
  BY <1>1, <1>2 DEF CloserOK, AskOK, Waits
<1>4. CASE /\ gate' = [gate EXCEPT !.consumer = None]
           /\ act' = [act EXCEPT ![a] = [@ EXCEPT !.gate = "none", !.pc = "undo"]]
  <2> DEFINE r == [act[a] EXCEPT !.gate = "none", !.pc = "undo"]
  <2>1. act' = [act EXCEPT ![a] = r]
    BY <1>1, <1>2, <1>4
  <2>2. r \in ActorStates /\ r.pc = "undo" /\ r.handle = act[a].handle /\ r.closed = act[a].closed
        /\ r.gate = "none" /\ r.result = act[a].result /\ r.lock = act[a].lock
    BY <1>2 DEF ActorStates, PCs
  <2> HIDE DEF r
  <2>3. Becomes(a, r)
    BY <1>2, <2>1, <2>2, Changed DEF Becomes
  <2>4. gate' \in GateStates /\ gate'.gen = gate.gen /\ (gate.consumer # a => gate'.consumer = gate.consumer)
        /\ (gate.consumer = a => gate'.consumer = None)
    BY <1>1, <1>2, <1>4 DEF GateStates
  <2>5. Asking' /\ jobs' \in Seq(Jobs) /\ worker' \in Workers /\ reply' \in [Requesters -> Replies]
    BY <1>1, <1>2, <1>3, <1>4, <2>2, <2>3, <2>4, FreeMove DEF Becomes
  <2>6. HandleOK(a)'
    BY <1>1, <1>2, <1>3, <1>4, <2>2, <2>3, <2>4, <2>5 DEF HandleOK, Listed, CallLocked, Used, Becomes, Keeps
  <2>7. ResultOK(a)'
    BY <1>1, <1>2, <1>3, <1>4, <2>2, <2>3, <2>4, <2>5 DEF ResultOK, Becomes, Keeps
  <2>8. OwnerOK(a)' /\ ConsumerOK(a)'
    BY <1>1, <1>2, <1>3, <1>4, <2>2, <2>3, <2>4, <2>5 DEF OwnerOK, ConsumerOK, Current, Holders, Becomes, Keeps
  <2> QED BY <1>1, <1>2, <1>3, <1>4, <2>2, <2>3, <2>4, <2>5, <2>6, <2>7, <2>8, OneMoves DEF Shapes
<1> QED BY <1>1, <1>4 DEF GateTimesOut

LEMMA GateCancelledStep == ASSUME IInv, NEW a \in Actors, GateCancelled(a) PROVE IInv'
<1>1. /\ act[a].pc = "gateWait"
      /\ UNCHANGED <<storage, closer, helper, mutex, jobs, worker, reply, committed, slips>>
  BY DEF GateCancelled
<1>2. /\ HandleOK(a) /\ ResultOK(a) /\ OwnerOK(a) /\ ConsumerOK(a) /\ AskOK(a) /\ CloserOK
      /\ act \in [Actors -> ActorStates] /\ act[a] \in ActorStates /\ Shapes /\ Generations
      /\ Owners /\ Consumers /\ Asking /\ gate \in GateStates /\ storage \in StorageStates
      /\ jobs \in Seq(Jobs) /\ reply \in [Requesters -> Replies] /\ a \in Requesters
      /\ closer \in Closers /\ a # None
  BY Facts
<1>3. closer.on # a /\ reply[a] = "none"
  BY <1>1, <1>2 DEF CloserOK, AskOK, Waits
<1>4. CASE /\ gate' = IF gate.consumer = a THEN [gate EXCEPT !.consumer = None] ELSE gate
           /\ flock' = flock \/ Unlock(act[a].gen)
           /\ act' = [act EXCEPT ![a] = [@ EXCEPT !.gate = "none", !.pc = "undo"]]
  <2> DEFINE r == [act[a] EXCEPT !.gate = "none", !.pc = "undo"]
  <2>1. act' = [act EXCEPT ![a] = r]
    BY <1>1, <1>2, <1>4
  <2>2. r \in ActorStates /\ r.pc = "undo" /\ r.handle = act[a].handle /\ r.closed = act[a].closed
        /\ r.gate = "none" /\ r.result = act[a].result /\ r.lock = act[a].lock
    BY <1>1, <1>2, <1>4 DEF Keeps, ActorStates, PCs, GateStates, StorageStates
  <2> HIDE DEF r
  <2>3. Becomes(a, r)
    BY <1>2, <2>1, <2>2, Changed DEF Becomes
  <2>4. gate' \in GateStates /\ gate'.gen = gate.gen /\ (gate.consumer # a => gate'.consumer = gate.consumer)
        /\ (gate.consumer = a => gate'.consumer = None)
    BY <1>1, <1>2, <1>4 DEF GateStates
  <2>5. flock' \in {Free, PeerHas} \cup Descriptors
    BY <1>1, <1>2, <1>4 DEF Shapes, Unlock
  <2>6. Asking' /\ jobs' \in Seq(Jobs) /\ worker' \in Workers /\ reply' \in [Requesters -> Replies]
    BY <1>1, <1>2, <1>3, <1>4, <2>2, <2>3, <2>4, <2>5, FreeMove DEF Becomes
  <2>7. HandleOK(a)'
    BY <1>1, <1>2, <1>3, <1>4, <2>2, <2>3, <2>4, <2>5, <2>6 DEF HandleOK, Listed, CallLocked, Used, Becomes, Keeps
  <2>8. ResultOK(a)'
    BY <1>1, <1>2, <1>3, <1>4, <2>2, <2>3, <2>4, <2>5, <2>6 DEF ResultOK, Becomes, Keeps
  <2>9. OwnerOK(a)' /\ ConsumerOK(a)'
    BY <1>1, <1>2, <1>3, <1>4, <2>2, <2>3, <2>4, <2>5, <2>6 DEF OwnerOK, ConsumerOK, Current, Holders, Becomes, Keeps
  <2> QED BY <1>1, <1>2, <1>3, <1>4, <2>2, <2>3, <2>4, <2>5, <2>6, <2>7, <2>8, <2>9, OneMoves DEF Shapes
<1> QED BY <1>1, <1>4 DEF GateCancelled

LEMMA GateInterruptedStep == ASSUME IInv, NEW a \in Actors, GateInterrupted(a) PROVE IInv'
<1>1. /\ act[a].pc = "gateWait"
      /\ UNCHANGED <<closer, helper, mutex, jobs, worker, reply, committed>>
  BY DEF GateInterrupted
<1>2. /\ HandleOK(a) /\ ResultOK(a) /\ OwnerOK(a) /\ ConsumerOK(a) /\ AskOK(a) /\ CloserOK
      /\ act \in [Actors -> ActorStates] /\ act[a] \in ActorStates /\ Shapes /\ Generations
      /\ Owners /\ Consumers /\ Asking /\ gate \in GateStates /\ storage \in StorageStates
      /\ jobs \in Seq(Jobs) /\ reply \in [Requesters -> Replies] /\ a \in Requesters
      /\ closer \in Closers /\ a # None
  BY Facts
<1>3. closer.on # a /\ reply[a] = "none"
  BY <1>1, <1>2 DEF CloserOK, AskOK, Waits
<1>4. CASE /\ gate' = IF gate.consumer = a THEN [gate EXCEPT !.consumer = None] ELSE gate
           /\ Unlock(act[a].gen)
           /\ storage' = IF gate.open /\ gate.gen = act[a].gen
                        THEN [storage EXCEPT !.gateHeld = FALSE] ELSE storage
           /\ slips' = slips \/ slips' = slips \cup {"gate"}
           /\ act' = [act EXCEPT ![a] = [@ EXCEPT !.gate = "none", !.pc = "undo"]]
  <2> DEFINE r == [act[a] EXCEPT !.gate = "none", !.pc = "undo"]
  <2>1. act' = [act EXCEPT ![a] = r]
    BY <1>1, <1>2, <1>4
  <2>2. r \in ActorStates /\ r.pc = "undo" /\ r.handle = act[a].handle /\ r.closed = act[a].closed
        /\ r.gate = "none" /\ r.result = act[a].result /\ r.lock = act[a].lock
    BY <1>1, <1>2, <1>4 DEF Keeps, ActorStates, PCs, GateStates, StorageStates
  <2> HIDE DEF r
  <2>3. Becomes(a, r)
    BY <1>2, <2>1, <2>2, Changed DEF Becomes
  <2>4. storage' \in StorageStates /\ storage'.opened = storage.opened /\ storage'.opens = storage.opens
        /\ storage'.slot = storage.slot /\ storage'.owner = storage.owner /\ storage'.active = storage.active
    BY <1>1, <1>2, <1>4 DEF StorageStates, ReleaseBoth
  <2>5. gate' \in GateStates /\ gate'.gen = gate.gen /\ (gate.consumer # a => gate'.consumer = gate.consumer)
        /\ (gate.consumer = a => gate'.consumer = None)
    BY <1>1, <1>2, <1>4 DEF GateStates
  <2>6. flock' \in {Free, PeerHas} \cup Descriptors
    BY <1>1, <1>2, <1>4 DEF Shapes, Unlock
  <2>7. slips' \subseteq SlipStates
    BY <1>1, <1>2, <1>4 DEF Shapes, SlipStates
  <2>8. Asking' /\ jobs' \in Seq(Jobs) /\ worker' \in Workers /\ reply' \in [Requesters -> Replies]
    BY <1>1, <1>2, <1>3, <1>4, <2>2, <2>3, <2>4, <2>5, <2>6, <2>7, FreeMove DEF Becomes
  <2>9. HandleOK(a)'
    BY <1>1, <1>2, <1>3, <1>4, <2>2, <2>3, <2>4, <2>5, <2>6, <2>7, <2>8 DEF HandleOK, Listed, CallLocked, Used, Becomes, Keeps
  <2>10. ResultOK(a)'
    BY <1>1, <1>2, <1>3, <1>4, <2>2, <2>3, <2>4, <2>5, <2>6, <2>7, <2>8 DEF ResultOK, Becomes, Keeps
  <2>11. OwnerOK(a)' /\ ConsumerOK(a)'
    BY <1>1, <1>2, <1>3, <1>4, <2>2, <2>3, <2>4, <2>5, <2>6, <2>7, <2>8 DEF OwnerOK, ConsumerOK, Current, Holders, Becomes, Keeps
  <2> QED BY <1>1, <1>2, <1>3, <2>2, <2>3, <2>4, <2>5, <2>6, <2>7, <2>8, <2>9, <2>10, <2>11, OneMoves DEF Shapes
<1> QED BY <1>1, <1>4 DEF GateInterrupted

LEMMA FlagGateStep == ASSUME IInv, NEW a \in Actors, FlagGate(a) PROVE IInv'
<1>1. /\ act[a].pc = "flag"
      /\ UNCHANGED <<closer, gate, helper, flock, mutex, jobs, worker, reply, committed, slips>>
  BY DEF FlagGate
<1>2. /\ HandleOK(a) /\ ResultOK(a) /\ OwnerOK(a) /\ ConsumerOK(a) /\ AskOK(a) /\ CloserOK
      /\ act \in [Actors -> ActorStates] /\ act[a] \in ActorStates /\ Shapes /\ Generations
      /\ Owners /\ Consumers /\ Asking /\ gate \in GateStates /\ storage \in StorageStates
      /\ jobs \in Seq(Jobs) /\ reply \in [Requesters -> Replies] /\ a \in Requesters
      /\ closer \in Closers /\ a # None
  BY Facts
<1>3. closer.on # a /\ reply[a] = "none"
  BY <1>1, <1>2 DEF CloserOK, AskOK, Waits
<1>4. CASE /\ Current(a) /\ a \in Txns /\ Goto(a, "register")
           /\ storage' = [storage EXCEPT !.gateHeld = TRUE]
  <2>1. PICK r \in ActorStates : Becomes(a, r) /\ r.pc = "register" /\ Keeps(a, r)
    BY <1>1, <1>2, <1>4, Went DEF PCs
  <2>2. storage' \in StorageStates /\ storage'.opened = storage.opened /\ storage'.opens = storage.opens
        /\ storage'.slot = storage.slot /\ storage'.owner = storage.owner /\ storage'.active = storage.active
    BY <1>1, <1>2, <1>4 DEF StorageStates, ReleaseBoth
  <2>3. Asking' /\ jobs' \in Seq(Jobs) /\ worker' \in Workers /\ reply' \in [Requesters -> Replies]
    BY <1>1, <1>2, <1>3, <1>4, <2>1, <2>2, FreeMove DEF Becomes
  <2>4. HandleOK(a)'
    BY <1>1, <1>2, <1>3, <1>4, <2>1, <2>2, <2>3 DEF HandleOK, Listed, CallLocked, Used, Becomes, Keeps
  <2>5. ResultOK(a)'
    BY <1>1, <1>2, <1>3, <1>4, <2>1, <2>2, <2>3 DEF ResultOK, Becomes, Keeps
  <2>6. OwnerOK(a)' /\ ConsumerOK(a)'
    BY <1>1, <1>2, <1>3, <1>4, <2>1, <2>2, <2>3 DEF OwnerOK, ConsumerOK, Current, Holders, Becomes, Keeps
  <2> QED BY <1>1, <1>2, <1>3, <1>4, <2>1, <2>2, <2>3, <2>4, <2>5, <2>6, OneMoves DEF Shapes
<1>5. CASE /\ Current(a) /\ a \in Batches /\ Goto(a, "apply")
           /\ storage' = [storage EXCEPT !.gateHeld = TRUE]
  <2>1. PICK r \in ActorStates : Becomes(a, r) /\ r.pc = "apply" /\ Keeps(a, r)
    BY <1>1, <1>2, <1>5, Went DEF PCs
  <2>2. storage' \in StorageStates /\ storage'.opened = storage.opened /\ storage'.opens = storage.opens
        /\ storage'.slot = storage.slot /\ storage'.owner = storage.owner /\ storage'.active = storage.active
    BY <1>1, <1>2, <1>5 DEF StorageStates, ReleaseBoth
  <2>3. Asking' /\ jobs' \in Seq(Jobs) /\ worker' \in Workers /\ reply' \in [Requesters -> Replies]
    BY <1>1, <1>2, <1>3, <1>5, <2>1, <2>2, FreeMove DEF Becomes
  <2>4. HandleOK(a)'
    BY <1>1, <1>2, <1>3, <1>5, <2>1, <2>2, <2>3 DEF HandleOK, Listed, CallLocked, Used, Becomes, Keeps
  <2>5. ResultOK(a)'
    BY <1>1, <1>2, <1>3, <1>5, <2>1, <2>2, <2>3 DEF ResultOK, Becomes, Keeps
  <2>6. OwnerOK(a)' /\ ConsumerOK(a)'
    BY <1>1, <1>2, <1>3, <1>5, <2>1, <2>2, <2>3 DEF OwnerOK, ConsumerOK, Current, Holders, Becomes, Keeps
  <2> QED BY <1>1, <1>2, <1>3, <1>5, <2>1, <2>2, <2>3, <2>4, <2>5, <2>6, OneMoves DEF Shapes
<1>6. CASE /\ Current(a) /\ a \in Reservers /\ Goto(a, "begin")
           /\ storage' = [storage EXCEPT !.gateHeld = TRUE]
  <2>1. PICK r \in ActorStates : Becomes(a, r) /\ r.pc = "begin" /\ Keeps(a, r)
    BY <1>1, <1>2, <1>6, Went DEF PCs
  <2>2. storage' \in StorageStates /\ storage'.opened = storage.opened /\ storage'.opens = storage.opens
        /\ storage'.slot = storage.slot /\ storage'.owner = storage.owner /\ storage'.active = storage.active
    BY <1>1, <1>2, <1>6 DEF StorageStates, ReleaseBoth
  <2>3. Asking' /\ jobs' \in Seq(Jobs) /\ worker' \in Workers /\ reply' \in [Requesters -> Replies]
    BY <1>1, <1>2, <1>3, <1>6, <2>1, <2>2, FreeMove DEF Becomes
  <2>4. HandleOK(a)'
    BY <1>1, <1>2, <1>3, <1>6, <2>1, <2>2, <2>3 DEF HandleOK, Listed, CallLocked, Used, Becomes, Keeps
  <2>5. ResultOK(a)'
    BY <1>1, <1>2, <1>3, <1>6, <2>1, <2>2, <2>3 DEF ResultOK, Becomes, Keeps
  <2>6. OwnerOK(a)' /\ ConsumerOK(a)'
    BY <1>1, <1>2, <1>3, <1>6, <2>1, <2>2, <2>3 DEF OwnerOK, ConsumerOK, Current, Holders, Becomes, Keeps
  <2> QED BY <1>1, <1>2, <1>3, <1>6, <2>1, <2>2, <2>3, <2>4, <2>5, <2>6, OneMoves DEF Shapes
<1>7. CASE /\ ~Current(a) /\ Goto(a, "undo") /\ storage' = storage
  <2>1. PICK r \in ActorStates : Becomes(a, r) /\ r.pc = "undo" /\ Keeps(a, r)
    BY <1>1, <1>2, <1>7, Went DEF PCs
  <2>2. Asking' /\ jobs' \in Seq(Jobs) /\ worker' \in Workers /\ reply' \in [Requesters -> Replies]
    BY <1>1, <1>2, <1>3, <1>7, <2>1, FreeMove DEF Becomes
  <2>3. HandleOK(a)'
    BY <1>1, <1>2, <1>3, <1>7, <2>1, <2>2 DEF HandleOK, Listed, CallLocked, Used, Becomes, Keeps
  <2>4. ResultOK(a)'
    BY <1>1, <1>2, <1>3, <1>7, <2>1, <2>2 DEF ResultOK, Becomes, Keeps
  <2>5. OwnerOK(a)' /\ ConsumerOK(a)'
    BY <1>1, <1>2, <1>3, <1>7, <2>1, <2>2 DEF OwnerOK, ConsumerOK, Current, Holders, Becomes, Keeps
  <2> QED BY <1>1, <1>2, <1>3, <1>7, <2>1, <2>2, <2>3, <2>4, <2>5, OneMoves DEF Shapes
<1> QED BY <1>1, <1>4, <1>5, <1>6, <1>7 DEF FlagGate, Actors

LEMMA StartStep == ASSUME IInv, NEW a \in Actors, Start(a) PROVE IInv'
<1>1. /\ act[a].pc = "idle"
      /\ UNCHANGED <<closer, gate, helper, flock, mutex, jobs, worker, reply, committed, slips>>
  BY DEF Start
<1>2. /\ HandleOK(a) /\ ResultOK(a) /\ OwnerOK(a) /\ ConsumerOK(a) /\ AskOK(a) /\ CloserOK
      /\ act \in [Actors -> ActorStates] /\ act[a] \in ActorStates /\ Shapes /\ Generations
      /\ Owners /\ Consumers /\ Asking /\ gate \in GateStates /\ storage \in StorageStates
      /\ jobs \in Seq(Jobs) /\ reply \in [Requesters -> Replies] /\ a \in Requesters
      /\ closer \in Closers /\ a # None
  BY Facts
<1>3. closer.on # a /\ reply[a] = "none"
  BY <1>1, <1>2 DEF CloserOK, AskOK, Waits
<1>4. CASE /\ a \in Batches /\ Goto(a, "slot")
           /\ storage' = [storage EXCEPT !.active = @ \cup {a}]
  <2>1. PICK r \in ActorStates : Becomes(a, r) /\ r.pc = "slot" /\ Keeps(a, r)
    BY <1>1, <1>2, <1>4, Went DEF PCs
  <2>2. storage' \in StorageStates /\ storage'.opened = storage.opened /\ storage'.opens = storage.opens
        /\ storage'.slot = storage.slot /\ storage'.owner = storage.owner
        /\ storage'.active = storage.active \cup {a}
    BY <1>1, <1>2, <1>4 DEF StorageStates, ReleaseBoth
  <2>3. Asking' /\ jobs' \in Seq(Jobs) /\ worker' \in Workers /\ reply' \in [Requesters -> Replies]
    BY <1>1, <1>2, <1>3, <1>4, <2>1, <2>2, FreeMove DEF Becomes
  <2>4. HandleOK(a)'
    BY <1>1, <1>2, <1>3, <1>4, <2>1, <2>2, <2>3 DEF HandleOK, Listed, CallLocked, Used, Becomes, Keeps
  <2>5. ResultOK(a)'
    BY <1>1, <1>2, <1>3, <1>4, <2>1, <2>2, <2>3 DEF ResultOK, Becomes, Keeps
  <2>6. OwnerOK(a)' /\ ConsumerOK(a)'
    BY <1>1, <1>2, <1>3, <1>4, <2>1, <2>2, <2>3 DEF OwnerOK, ConsumerOK, Current, Holders, Becomes, Keeps
  <2> QED BY <1>1, <1>2, <1>3, <1>4, <2>1, <2>2, <2>3, <2>4, <2>5, <2>6, OneMoves DEF Shapes
<1>5. CASE /\ a \notin Batches /\ Goto(a, "slot")
           /\ storage' = storage
  <2>1. PICK r \in ActorStates : Becomes(a, r) /\ r.pc = "slot" /\ Keeps(a, r)
    BY <1>1, <1>2, <1>5, Went DEF PCs
  <2>2. Asking' /\ jobs' \in Seq(Jobs) /\ worker' \in Workers /\ reply' \in [Requesters -> Replies]
    BY <1>1, <1>2, <1>3, <1>5, <2>1, FreeMove DEF Becomes
  <2>3. HandleOK(a)'
    BY <1>1, <1>2, <1>3, <1>5, <2>1, <2>2 DEF HandleOK, Listed, CallLocked, Used, Becomes, Keeps
  <2>4. ResultOK(a)'
    BY <1>1, <1>2, <1>3, <1>5, <2>1, <2>2 DEF ResultOK, Becomes, Keeps
  <2>5. OwnerOK(a)' /\ ConsumerOK(a)'
    BY <1>1, <1>2, <1>3, <1>5, <2>1, <2>2 DEF OwnerOK, ConsumerOK, Current, Holders, Becomes, Keeps
  <2> QED BY <1>1, <1>2, <1>3, <1>5, <2>1, <2>2, <2>3, <2>4, <2>5, OneMoves DEF Shapes
<1> QED BY <1>1, <1>4, <1>5 DEF Start

LEMMA TakeSlotStep == ASSUME IInv, NEW a \in Actors, TakeSlot(a) PROVE IInv'
<1>1. /\ act[a].pc = "slot" /\ storage.owner = None
      /\ UNCHANGED <<closer, gate, helper, flock, mutex, jobs, worker, reply, committed, slips>>
  BY DEF TakeSlot
<1>2. /\ HandleOK(a) /\ ResultOK(a) /\ OwnerOK(a) /\ ConsumerOK(a) /\ AskOK(a) /\ CloserOK
      /\ act \in [Actors -> ActorStates] /\ act[a] \in ActorStates /\ Shapes /\ Generations
      /\ Owners /\ Consumers /\ Asking /\ gate \in GateStates /\ storage \in StorageStates
      /\ jobs \in Seq(Jobs) /\ reply \in [Requesters -> Replies] /\ a \in Requesters
      /\ closer \in Closers /\ a # None
  BY Facts
<1>3. closer.on # a /\ reply[a] = "none"
  BY <1>1, <1>2 DEF CloserOK, AskOK, Waits
<1>4. CASE /\ storage' = [storage EXCEPT !.owner = a]
           /\ act' = [act EXCEPT ![a] = [@ EXCEPT !.pc = "gate", !.lock = storage.slot]]
  <2>1. storage.slot \in Nat
    BY <1>2 DEF StorageStates
  <2> DEFINE r == [act[a] EXCEPT !.pc = "gate", !.lock = storage.slot]
  <2>2. act' = [act EXCEPT ![a] = r]
    BY <1>1, <1>2, <1>4
  <2>3. r \in ActorStates /\ r.pc = "gate" /\ r.handle = act[a].handle /\ r.closed = act[a].closed
        /\ r.gate = act[a].gate /\ r.result = act[a].result /\ r.lock = storage.slot
    BY <1>1, <1>2, <1>4, <2>1 DEF Keeps, ActorStates, PCs, GateStates, StorageStates
  <2> HIDE DEF r
  <2>4. Becomes(a, r)
    BY <1>2, <2>2, <2>3, Changed DEF Becomes
  <2>5. storage' \in StorageStates /\ storage'.opened = storage.opened /\ storage'.opens = storage.opens
        /\ storage'.slot = storage.slot /\ storage'.owner = a /\ storage'.active = storage.active
    BY <1>1, <1>2, <1>4, <2>1 DEF StorageStates, ReleaseBoth
  <2>6. Asking' /\ jobs' \in Seq(Jobs) /\ worker' \in Workers /\ reply' \in [Requesters -> Replies]
    BY <1>1, <1>2, <1>3, <1>4, <2>1, <2>3, <2>4, <2>5, FreeMove DEF Becomes
  <2>7. HandleOK(a)'
    BY <1>1, <1>2, <1>3, <1>4, <2>1, <2>3, <2>4, <2>5, <2>6 DEF HandleOK, Listed, CallLocked, Used, Becomes, Keeps
  <2>8. ResultOK(a)'
    BY <1>1, <1>2, <1>3, <1>4, <2>1, <2>3, <2>4, <2>5, <2>6 DEF ResultOK, Becomes, Keeps
  <2>9. OwnerOK(a)' /\ ConsumerOK(a)'
    BY <1>1, <1>2, <1>3, <1>4, <2>1, <2>3, <2>4, <2>5, <2>6 DEF OwnerOK, ConsumerOK, Current, Holders, Becomes, Keeps
  <2> QED BY <1>1, <1>2, <1>3, <1>4, <2>1, <2>3, <2>4, <2>5, <2>6, <2>7, <2>8, <2>9, OneMoves DEF Shapes
<1> QED BY <1>1, <1>4 DEF TakeSlot

LEMMA SlotGivesUpStep == ASSUME IInv, NEW a \in Actors, SlotGivesUp(a) PROVE IInv'
<1>1. /\ act[a].pc = "slot"
      /\ UNCHANGED <<closer, gate, helper, flock, mutex, jobs, worker, reply, committed, slips>>
  BY DEF SlotGivesUp
<1>2. /\ HandleOK(a) /\ ResultOK(a) /\ OwnerOK(a) /\ ConsumerOK(a) /\ AskOK(a) /\ CloserOK
      /\ act \in [Actors -> ActorStates] /\ act[a] \in ActorStates /\ Shapes /\ Generations
      /\ Owners /\ Consumers /\ Asking /\ gate \in GateStates /\ storage \in StorageStates
      /\ jobs \in Seq(Jobs) /\ reply \in [Requesters -> Replies] /\ a \in Requesters
      /\ closer \in Closers /\ a # None
  BY Facts
<1>3. closer.on # a /\ reply[a] = "none"
  BY <1>1, <1>2 DEF CloserOK, AskOK, Waits
<1>4. CASE /\ storage' = [storage EXCEPT !.active = @ \ {a}] /\ Fail(a, "done")
  <2>1. PICK r \in ActorStates :
            /\ Becomes(a, r) /\ r.pc = "done" /\ r.result = "failed" /\ r.closed = TRUE
            /\ r.handle = "none" /\ r.gate = act[a].gate /\ r.lock = act[a].lock
    <3>1. Fail(a, "done") /\ act \in [Actors -> ActorStates] /\ a \in Actors
      BY <1>2, <1>4
    <3>2. "done" \in PCs
      BY DEF PCs
    <3> QED BY ONLY <3>1, <3>2, Failed
  <2>2. storage' \in StorageStates /\ storage'.opened = storage.opened /\ storage'.opens = storage.opens
        /\ storage'.slot = storage.slot /\ storage'.owner = storage.owner
        /\ storage'.active = storage.active \ {a}
    BY <1>1, <1>2, <1>4 DEF StorageStates, ReleaseBoth
  <2>3. Asking' /\ jobs' \in Seq(Jobs) /\ worker' \in Workers /\ reply' \in [Requesters -> Replies]
    BY <1>1, <1>2, <1>3, <1>4, <2>1, <2>2, FreeMove DEF Becomes
  <2>4. HandleOK(a)'
    BY <1>1, <1>2, <1>3, <1>4, <2>1, <2>2, <2>3 DEF HandleOK, Listed, CallLocked, Used, Becomes, Keeps
  <2>5. ResultOK(a)'
    BY <1>1, <1>2, <1>3, <1>4, <2>1, <2>2, <2>3 DEF ResultOK, Becomes, Keeps
  <2>6. OwnerOK(a)' /\ ConsumerOK(a)'
    BY <1>1, <1>2, <1>3, <1>4, <2>1, <2>2, <2>3 DEF OwnerOK, ConsumerOK, Current, Holders, Becomes, Keeps
  <2> QED BY <1>1, <1>2, <1>3, <1>4, <2>1, <2>2, <2>3, <2>4, <2>5, <2>6, OneMoves DEF Shapes
<1> QED BY <1>1, <1>4 DEF SlotGivesUp

LEMMA UndoStep == ASSUME IInv, NEW a \in Actors, Undo(a) PROVE IInv'
<1>1. /\ act[a].pc = "undo"
      /\ act' = [act EXCEPT ![a] = [@ EXCEPT !.pc = "done", !.result = "failed", !.begun = FALSE,
                                             !.closed = TRUE]]
      /\ jobs' = IF act[a].begun THEN Fire(jobs, "drop", a) ELSE jobs
      /\ UNCHANGED <<closer, gate, helper, mutex, worker, reply, committed, slips>>
  BY DEF Undo
<1>2. /\ HandleOK(a) /\ ResultOK(a) /\ OwnerOK(a) /\ ConsumerOK(a) /\ AskOK(a) /\ CloserOK
      /\ act \in [Actors -> ActorStates] /\ act[a] \in ActorStates /\ Shapes /\ Generations
      /\ Owners /\ Consumers /\ Asking /\ gate \in GateStates /\ storage \in StorageStates
      /\ jobs \in Seq(Jobs) /\ reply \in [Requesters -> Replies] /\ a \in Requesters
      /\ closer \in Closers /\ a # None
  BY Facts
<1>3. closer.on # a /\ reply[a] = "none"
  BY <1>1, <1>2 DEF CloserOK, AskOK, Waits
<1>4. CASE /\ flock' = flock
           /\ storage' = [storage EXCEPT !.owner = IF act[a].lock = storage.slot THEN None ELSE @,
                                           !.active = @ \ {a}]
  <2>1. act[a].handle = "none" /\ (act[a].lock = storage.slot => storage.owner = a)
    BY <1>1, <1>2 DEF HandleOK, OwnerOK, Holders, ActorStates
  <2> DEFINE r == [act[a] EXCEPT !.pc = "done", !.result = "failed", !.begun = FALSE, !.closed = TRUE]
  <2>2. act' = [act EXCEPT ![a] = r]
    BY <1>1, <1>2, <1>4
  <2>3. r \in ActorStates /\ r.pc = "done" /\ r.handle = act[a].handle /\ r.closed = TRUE
        /\ r.gate = act[a].gate /\ r.result = "failed" /\ r.lock = act[a].lock
    BY <1>1, <1>2, <1>4, <2>1 DEF Keeps, ActorStates, PCs, GateStates, StorageStates
  <2> HIDE DEF r
  <2>4. Becomes(a, r)
    BY <1>2, <2>2, <2>3, Changed DEF Becomes
  <2>5. storage' \in StorageStates /\ storage'.opened = storage.opened /\ storage'.opens = storage.opens
        /\ storage'.slot = storage.slot /\ storage'.active = storage.active \ {a}
        /\ (storage'.owner = storage.owner \/ storage.owner = a)
    BY <1>1, <1>2, <1>4, <2>1 DEF StorageStates, ReleaseBoth
  <2>6. jobs' = jobs \/ \E j \in Jobs : JobOK(j) /\ j.by \notin Actors /\ jobs' = Append(jobs, j)
    BY <1>1, <1>2, <1>4, <2>1, Fired
  <2>7. Asking' /\ jobs' \in Seq(Jobs) /\ worker' \in Workers /\ reply' \in [Requesters -> Replies]
    BY <1>1, <1>2, <1>3, <1>4, <2>1, <2>3, <2>4, <2>5, <2>6, FreeMove DEF Becomes
  <2>8. HandleOK(a)'
    BY <1>1, <1>2, <1>3, <1>4, <2>1, <2>3, <2>4, <2>5, <2>7 DEF HandleOK, Listed, CallLocked, Used, Becomes, Keeps
  <2>9. ResultOK(a)'
    BY <1>1, <1>2, <1>3, <1>4, <2>1, <2>3, <2>4, <2>5, <2>7 DEF ResultOK, Becomes, Keeps
  <2>10. OwnerOK(a)' /\ ConsumerOK(a)'
    BY <1>1, <1>2, <1>3, <1>4, <2>1, <2>3, <2>4, <2>5, <2>7 DEF OwnerOK, ConsumerOK, Current, Holders, Becomes, Keeps
  <2> QED BY <1>1, <1>2, <1>3, <1>4, <2>1, <2>3, <2>4, <2>5, <2>7, <2>8, <2>9, <2>10, OneMoves DEF Shapes
<1>5. CASE /\ storage' = ReleaseBoth(storage, act[a].lock)
           /\ flock' = ReleaseFile(storage, act[a].lock)
  <2>1. act[a].handle = "none" /\ (act[a].lock = storage.slot => storage.owner = a)
    BY <1>1, <1>2 DEF HandleOK, OwnerOK, Holders, ActorStates
  <2> DEFINE r == [act[a] EXCEPT !.pc = "done", !.result = "failed", !.begun = FALSE, !.closed = TRUE]
  <2>2. act' = [act EXCEPT ![a] = r]
    BY <1>1, <1>2, <1>5
  <2>3. r \in ActorStates /\ r.pc = "done" /\ r.handle = act[a].handle /\ r.closed = TRUE
        /\ r.gate = act[a].gate /\ r.result = "failed" /\ r.lock = act[a].lock
    BY <1>1, <1>2, <1>5, <2>1 DEF Keeps, ActorStates, PCs, GateStates, StorageStates
  <2> HIDE DEF r
  <2>4. Becomes(a, r)
    BY <1>2, <2>2, <2>3, Changed DEF Becomes
  <2>5. storage' \in StorageStates /\ storage'.opened = storage.opened /\ storage'.opens = storage.opens
        /\ storage'.slot = storage.slot /\ storage'.active = storage.active
        /\ (storage'.owner = storage.owner \/ storage.owner = a)
    BY <1>1, <1>2, <1>5, <2>1 DEF StorageStates, ReleaseBoth
  <2>6. flock' \in {Free, PeerHas} \cup Descriptors
    BY <1>1, <1>2, <1>5, <2>1 DEF Shapes, ReleaseFile
  <2>7. jobs' = jobs \/ \E j \in Jobs : JobOK(j) /\ j.by \notin Actors /\ jobs' = Append(jobs, j)
    BY <1>1, <1>2, <1>5, <2>1, Fired
  <2>8. Asking' /\ jobs' \in Seq(Jobs) /\ worker' \in Workers /\ reply' \in [Requesters -> Replies]
    BY <1>1, <1>2, <1>3, <1>5, <2>1, <2>3, <2>4, <2>5, <2>6, <2>7, FreeMove DEF Becomes
  <2>9. HandleOK(a)'
    BY <1>1, <1>2, <1>3, <1>5, <2>1, <2>3, <2>4, <2>5, <2>6, <2>8 DEF HandleOK, Listed, CallLocked, Used, Becomes, Keeps
  <2>10. ResultOK(a)'
    BY <1>1, <1>2, <1>3, <1>5, <2>1, <2>3, <2>4, <2>5, <2>6, <2>8 DEF ResultOK, Becomes, Keeps
  <2>11. OwnerOK(a)' /\ ConsumerOK(a)'
    BY <1>1, <1>2, <1>3, <1>5, <2>1, <2>3, <2>4, <2>5, <2>6, <2>8 DEF OwnerOK, ConsumerOK, Current, Holders, Becomes, Keeps
  <2> QED BY <1>1, <1>2, <1>3, <1>5, <2>1, <2>3, <2>4, <2>5, <2>6, <2>8, <2>9, <2>10, <2>11, OneMoves DEF Shapes
<1> QED BY <1>1, <1>4, <1>5 DEF Undo

LEMMA ReleaseStep == ASSUME IInv, NEW a \in Actors, Release(a) PROVE IInv'
<1>1. /\ act[a].pc = "release"
      /\ UNCHANGED <<closer, gate, helper, flock, mutex, jobs, worker, reply, committed, slips>>
  BY DEF Release
<1>2. /\ HandleOK(a) /\ ResultOK(a) /\ OwnerOK(a) /\ ConsumerOK(a) /\ AskOK(a) /\ CloserOK
      /\ act \in [Actors -> ActorStates] /\ act[a] \in ActorStates /\ Shapes /\ Generations
      /\ Owners /\ Consumers /\ Asking /\ gate \in GateStates /\ storage \in StorageStates
      /\ jobs \in Seq(Jobs) /\ reply \in [Requesters -> Replies] /\ a \in Requesters
      /\ closer \in Closers /\ a # None
  BY Facts
<1>3. closer.on # a /\ reply[a] = "none"
  BY <1>1, <1>2 DEF CloserOK, AskOK, Waits
<1>4. CASE /\ act[a].lock = storage.slot /\ Goto(a, "unlock")
           /\ storage' = storage
  <2>1. PICK r \in ActorStates : Becomes(a, r) /\ r.pc = "unlock" /\ Keeps(a, r)
    BY <1>1, <1>2, <1>4, Went DEF PCs
  <2>2. Asking' /\ jobs' \in Seq(Jobs) /\ worker' \in Workers /\ reply' \in [Requesters -> Replies]
    BY <1>1, <1>2, <1>3, <1>4, <2>1, FreeMove DEF Becomes
  <2>3. HandleOK(a)'
    BY <1>1, <1>2, <1>3, <1>4, <2>1, <2>2 DEF HandleOK, Listed, CallLocked, Used, Becomes, Keeps
  <2>4. ResultOK(a)'
    BY <1>1, <1>2, <1>3, <1>4, <2>1, <2>2 DEF ResultOK, Becomes, Keeps
  <2>5. OwnerOK(a)' /\ ConsumerOK(a)'
    BY <1>1, <1>2, <1>3, <1>4, <2>1, <2>2 DEF OwnerOK, ConsumerOK, Current, Holders, Becomes, Keeps
  <2> QED BY <1>1, <1>2, <1>3, <1>4, <2>1, <2>2, <2>3, <2>4, <2>5, OneMoves DEF Shapes
<1>5. CASE /\ act[a].lock # storage.slot /\ Goto(a, "done")
           /\ storage' = [storage EXCEPT !.active = @ \ {a}]
  <2>1. PICK r \in ActorStates : Becomes(a, r) /\ r.pc = "done" /\ Keeps(a, r)
    BY <1>1, <1>2, <1>5, Went DEF PCs
  <2>2. storage' \in StorageStates /\ storage'.opened = storage.opened /\ storage'.opens = storage.opens
        /\ storage'.slot = storage.slot /\ storage'.owner = storage.owner
        /\ storage'.active = storage.active \ {a}
    BY <1>1, <1>2, <1>5 DEF StorageStates, ReleaseBoth
  <2>3. Asking' /\ jobs' \in Seq(Jobs) /\ worker' \in Workers /\ reply' \in [Requesters -> Replies]
    BY <1>1, <1>2, <1>3, <1>5, <2>1, <2>2, FreeMove DEF Becomes
  <2>4. HandleOK(a)'
    BY <1>1, <1>2, <1>3, <1>5, <2>1, <2>2, <2>3 DEF HandleOK, Listed, CallLocked, Used, Becomes, Keeps
  <2>5. ResultOK(a)'
    BY <1>1, <1>2, <1>3, <1>5, <2>1, <2>2, <2>3 DEF ResultOK, Becomes, Keeps
  <2>6. OwnerOK(a)' /\ ConsumerOK(a)'
    BY <1>1, <1>2, <1>3, <1>5, <2>1, <2>2, <2>3 DEF OwnerOK, ConsumerOK, Current, Holders, Becomes, Keeps
  <2> QED BY <1>1, <1>2, <1>3, <1>5, <2>1, <2>2, <2>3, <2>4, <2>5, <2>6, OneMoves DEF Shapes
<1> QED BY <1>1, <1>4, <1>5 DEF Release

LEMMA ReleaseUnlocksStep == ASSUME IInv, NEW a \in Actors, ReleaseUnlocks(a) PROVE IInv'
<1>1. /\ act[a].pc = "unlock" /\ Goto(a, "done")
      /\ UNCHANGED <<closer, gate, helper, mutex, jobs, worker, reply, committed>>
  BY DEF ReleaseUnlocks
<1>2. /\ HandleOK(a) /\ ResultOK(a) /\ OwnerOK(a) /\ ConsumerOK(a) /\ AskOK(a) /\ CloserOK
      /\ act \in [Actors -> ActorStates] /\ act[a] \in ActorStates /\ Shapes /\ Generations
      /\ Owners /\ Consumers /\ Asking /\ gate \in GateStates /\ storage \in StorageStates
      /\ jobs \in Seq(Jobs) /\ reply \in [Requesters -> Replies] /\ a \in Requesters
      /\ closer \in Closers /\ a # None
  BY Facts
<1>3. closer.on # a /\ reply[a] = "none"
  BY <1>1, <1>2 DEF CloserOK, AskOK, Waits
<1>4. CASE /\ flock' = IF storage.gateHeld /\ gate.open /\ flock = gate.gen THEN Free ELSE flock
           /\ storage' = [storage EXCEPT !.gateHeld = FALSE, !.active = @ \ {a},
                                           !.owner = IF act[a].lock = storage.slot THEN None ELSE @]
           /\ slips' = slips \/ slips' = slips \cup {"release"}
  <2>1. act[a].handle = "none" /\ (act[a].lock = storage.slot => storage.owner = a)
    BY <1>1, <1>2 DEF HandleOK, OwnerOK, Holders, ActorStates
  <2>2. PICK r \in ActorStates : Becomes(a, r) /\ r.pc = "done" /\ Keeps(a, r)
    BY <1>1, <1>2, <1>4, Went DEF PCs
  <2>3. storage' \in StorageStates /\ storage'.opened = storage.opened /\ storage'.opens = storage.opens
        /\ storage'.slot = storage.slot /\ storage'.active = storage.active \ {a}
        /\ (storage'.owner = storage.owner \/ storage.owner = a)
    BY <1>1, <1>2, <1>4, <2>1 DEF StorageStates, ReleaseBoth
  <2>4. flock' \in {Free, PeerHas} \cup Descriptors
    BY <1>1, <1>2, <1>4, <2>1 DEF Shapes 
  <2>5. slips' \subseteq SlipStates
    BY <1>1, <1>2, <1>4 DEF Shapes, SlipStates
  <2>6. Asking' /\ jobs' \in Seq(Jobs) /\ worker' \in Workers /\ reply' \in [Requesters -> Replies]
    BY <1>1, <1>2, <1>3, <1>4, <2>1, <2>2, <2>3, <2>4, <2>5, FreeMove DEF Becomes
  <2>7. HandleOK(a)'
    BY <1>1, <1>2, <1>3, <1>4, <2>1, <2>2, <2>3, <2>4, <2>5, <2>6 DEF HandleOK, Listed, CallLocked, Used, Becomes, Keeps
  <2>8. ResultOK(a)'
    BY <1>1, <1>2, <1>3, <1>4, <2>1, <2>2, <2>3, <2>4, <2>5, <2>6 DEF ResultOK, Becomes, Keeps
  <2>9. OwnerOK(a)' /\ ConsumerOK(a)'
    BY <1>1, <1>2, <1>3, <1>4, <2>1, <2>2, <2>3, <2>4, <2>5, <2>6 DEF OwnerOK, ConsumerOK, Current, Holders, Becomes, Keeps
  <2> QED BY <1>1, <1>2, <1>3, <1>4, <2>1, <2>2, <2>3, <2>4, <2>5, <2>6, <2>7, <2>8, <2>9, OneMoves DEF Shapes
<1> QED BY <1>1, <1>4 DEF ReleaseUnlocks

LEMMA HelperDeliversStep ==
    ASSUME IInv, NEW g \in Descriptors, HelperDelivers(g) PROVE IInv'
<1>1. /\ UNCHANGED <<storage, closer, mutex, jobs, worker, reply, committed, slips>>
      /\ helper' = [helper EXCEPT ![g] = "none"]
  BY DEF HelperDelivers
<1>2. /\ Shapes /\ Asking /\ Handles /\ Results /\ Owners /\ Consumers /\ Generations
      /\ closer.on \in Actors \cup {None} /\ gate \in GateStates
      /\ helper' \in [Descriptors -> Helpers]
  BY <1>1 DEF IInv, Shapes, Closers, Helpers
<1>3. ASSUME UNCHANGED act, gate' \in GateStates, gate'.gen = gate.gen,
             gate'.consumer = gate.consumer, flock' \in {Free, PeerHas} \cup Descriptors
      PROVE  IInv'
  <2>1. \A b \in Actors : Stays(b)
    BY <1>3 DEF Stays
  <2>2. Handles' /\ Owners' /\ Consumers' /\ Generations' /\ Results'
    BY <1>1, <1>2, <1>3, <2>1, AtRest, ResultsStay DEF SlotStays
  <2>3. Asking'
    BY <1>1, <1>2, <1>3, QuietAsk
  <2>4. Shapes'
    BY <1>1, <1>2, <1>3 DEF Shapes
  <2> QED BY <2>2, <2>3, <2>4 DEF IInv
<1>4. CASE g # gate.gen
  <2>1. UNCHANGED <<act, gate>> /\ CloseFile(g, FALSE)
    BY <1>4 DEF HelperDelivers
  <2>2. flock' \in {Free, PeerHas} \cup Descriptors
    BY <1>2, <2>1 DEF Shapes, CloseFile
  <2> QED BY <1>2, <1>3, <2>1, <2>2
<1>5. CASE g = gate.gen /\ gate.consumer = None
  <2>1. /\ UNCHANGED act /\ gate' = [gate EXCEPT !.waiting = FALSE, !.consumer = None]
        /\ flock' = IF flock = g THEN Free ELSE flock
    BY <1>5 DEF HelperDelivers
  <2>2. flock' \in {Free, PeerHas} \cup Descriptors
    BY <1>2, <2>1 DEF Shapes
  <2>3. gate' \in GateStates /\ gate'.gen = gate.gen /\ gate'.consumer = gate.consumer
    BY <1>2, <1>5, <2>1 DEF GateStates
  <2> QED BY <1>3, <2>1, <2>2, <2>3
<1>6. CASE g = gate.gen /\ gate.consumer # None
  <2>1. PICK a \in Actors : a = gate.consumer
    BY <1>2, <1>6 DEF GateStates
  <2> DEFINE r == [act[a] EXCEPT !.gate = "landed"]
  <2>2. /\ act' = [act EXCEPT ![a] = r] /\ UNCHANGED flock
        /\ gate' = [gate EXCEPT !.waiting = FALSE, !.consumer = None]
    BY <1>6, <2>1 DEF HelperDelivers
  <2>3. /\ HandleOK(a) /\ ResultOK(a) /\ OwnerOK(a) /\ ConsumerOK(a) /\ AskOK(a) /\ CloserOK
        /\ act \in [Actors -> ActorStates] /\ storage \in StorageStates
    BY <2>1, Facts
  <2>4. /\ r \in ActorStates /\ r.pc = act[a].pc /\ r.handle = act[a].handle
        /\ r.closed = act[a].closed /\ r.gate = "landed" /\ r.result = act[a].result
        /\ r.lock = act[a].lock
    BY <2>1, <2>3 DEF ActorStates
  <2>5. act[a].pc = "gateWait" /\ closer.on # a /\ reply[a] = "none"
    BY <2>1, <2>3 DEF ConsumerOK, CloserOK, AskOK, Waits
  <2>6. gate' \in GateStates /\ gate'.gen = gate.gen /\ gate'.consumer = None
    BY <1>2, <2>2 DEF GateStates
  <2>7. \A b \in Actors \ {a} : gate'.consumer = b <=> gate.consumer = b
    BY <2>1, <2>6
  <2> HIDE DEF r
  <2>8. Becomes(a, r)
    BY <2>2, <2>1, <2>3, <2>4, Changed DEF Becomes
  <2>9. Asking' /\ jobs' \in Seq(Jobs) /\ worker' \in Workers /\ reply' \in [Requesters -> Replies]
    BY <1>1, <2>1, <2>5, <2>8, FreeMove DEF Becomes
  <2>10. HandleOK(a)' /\ ResultOK(a)'
    BY <1>1, <2>3, <2>4, <2>5, <2>8 DEF HandleOK, ResultOK, Listed, CallLocked, Becomes
  <2>11. OwnerOK(a)' /\ ConsumerOK(a)'
    BY <1>1, <2>1, <2>3, <2>4, <2>5, <2>6, <2>8 DEF OwnerOK, ConsumerOK, Becomes
  <2> QED BY <1>1, <1>2, <2>2, <2>1, <2>3, <2>4, <2>5, <2>6, <2>7, <2>8, <2>9, <2>10, <2>11, OneMoves
          DEF Shapes
<1> QED BY <1>4, <1>5, <1>6

LEMMA GateStep == ASSUME IInv, Gate PROVE IInv'
BY HelperStep, HelperDeliversStep, AttachStep, GateLandsStep, GateTimesOutStep, GateCancelledStep,
   GateInterruptedStep, FlagGateStep DEF Gate

LEMMA SlotStep == ASSUME IInv, Slot PROVE IInv'
BY StartStep, TakeSlotStep, SlotGivesUpStep, UndoStep, ReleaseStep, ReleaseUnlocksStep DEF Slot
-----------------------------------------------------------------------------
(* Contexts and reservations                                               *)

LEMMA RegisterStep == ASSUME IInv, NEW a \in Actors, Register(a) PROVE IInv'
<1>1. /\ act[a].pc = "register"
      /\ UNCHANGED <<closer, gate, helper, flock, mutex, jobs, worker, reply, committed, slips>>
  BY DEF Register
<1>2. /\ HandleOK(a) /\ ResultOK(a) /\ OwnerOK(a) /\ ConsumerOK(a) /\ AskOK(a) /\ CloserOK
      /\ act \in [Actors -> ActorStates] /\ act[a] \in ActorStates /\ Shapes /\ Generations
      /\ Owners /\ Consumers /\ Asking /\ gate \in GateStates /\ storage \in StorageStates
      /\ jobs \in Seq(Jobs) /\ reply \in [Requesters -> Replies] /\ a \in Requesters
      /\ closer \in Closers /\ a # None
  BY Facts
<1>3. closer.on # a /\ reply[a] = "none"
  BY <1>1, <1>2 DEF CloserOK, AskOK, Waits
<1>4. CASE /\ Current(a)
           /\ storage' = [storage EXCEPT !.active = @ \cup {a}]
           /\ act' = [act EXCEPT ![a] = [@ EXCEPT !.pc = "open", !.handle = "pending"]]
  <2> DEFINE r == [act[a] EXCEPT !.pc = "open", !.handle = "pending"]
  <2>1. act' = [act EXCEPT ![a] = r]
    BY <1>1, <1>2, <1>4
  <2>2. r \in ActorStates /\ r.pc = "open" /\ r.handle = "pending" /\ r.closed = act[a].closed
        /\ r.gate = act[a].gate /\ r.result = act[a].result /\ r.lock = act[a].lock
    BY <1>1, <1>2, <1>4 DEF Keeps, ActorStates, PCs, GateStates, StorageStates
  <2> HIDE DEF r
  <2>3. Becomes(a, r)
    BY <1>2, <2>1, <2>2, Changed DEF Becomes
  <2>4. storage' \in StorageStates /\ storage'.opened = storage.opened /\ storage'.opens = storage.opens
        /\ storage'.slot = storage.slot /\ storage'.owner = storage.owner
        /\ storage'.active = storage.active \cup {a}
    BY <1>1, <1>2, <1>4 DEF StorageStates, ReleaseBoth
  <2>5. Asking' /\ jobs' \in Seq(Jobs) /\ worker' \in Workers /\ reply' \in [Requesters -> Replies]
    BY <1>1, <1>2, <1>3, <1>4, <2>2, <2>3, <2>4, FreeMove DEF Becomes
  <2>6. HandleOK(a)'
    BY <1>1, <1>2, <1>3, <1>4, <2>2, <2>3, <2>4, <2>5 DEF HandleOK, Listed, CallLocked, Used, Becomes, Keeps
  <2>7. ResultOK(a)'
    BY <1>1, <1>2, <1>3, <1>4, <2>2, <2>3, <2>4, <2>5 DEF ResultOK, Becomes, Keeps
  <2>8. OwnerOK(a)' /\ ConsumerOK(a)'
    BY <1>1, <1>2, <1>3, <1>4, <2>2, <2>3, <2>4, <2>5 DEF OwnerOK, ConsumerOK, Current, Holders, Becomes, Keeps
  <2> QED BY <1>1, <1>2, <1>3, <1>4, <2>2, <2>3, <2>4, <2>5, <2>6, <2>7, <2>8, OneMoves DEF Shapes
<1>5. CASE /\ Goto(a, "undo") /\ storage' = storage
  <2>1. PICK r \in ActorStates : Becomes(a, r) /\ r.pc = "undo" /\ Keeps(a, r)
    BY <1>1, <1>2, <1>5, Went DEF PCs
  <2>2. Asking' /\ jobs' \in Seq(Jobs) /\ worker' \in Workers /\ reply' \in [Requesters -> Replies]
    BY <1>1, <1>2, <1>3, <1>5, <2>1, FreeMove DEF Becomes
  <2>3. HandleOK(a)'
    BY <1>1, <1>2, <1>3, <1>5, <2>1, <2>2 DEF HandleOK, Listed, CallLocked, Used, Becomes, Keeps
  <2>4. ResultOK(a)'
    BY <1>1, <1>2, <1>3, <1>5, <2>1, <2>2 DEF ResultOK, Becomes, Keeps
  <2>5. OwnerOK(a)' /\ ConsumerOK(a)'
    BY <1>1, <1>2, <1>3, <1>5, <2>1, <2>2 DEF OwnerOK, ConsumerOK, Current, Holders, Becomes, Keeps
  <2> QED BY <1>1, <1>2, <1>3, <1>5, <2>1, <2>2, <2>3, <2>4, <2>5, OneMoves DEF Shapes
<1> QED BY <1>1, <1>4, <1>5 DEF Register

LEMMA ReadStep == ASSUME IInv, NEW a \in Actors, Read(a) PROVE IInv'
<1>1. /\ act[a].pc = "open" /\ act[a].handle = "pending" /\ MayCall(a)
      /\ UNCHANGED <<storage, closer, gate, helper, flock, mutex, worker, committed, slips>>
  BY DEF Read
<1>2. /\ HandleOK(a) /\ ResultOK(a) /\ OwnerOK(a) /\ ConsumerOK(a) /\ AskOK(a) /\ CloserOK
      /\ act \in [Actors -> ActorStates] /\ act[a] \in ActorStates /\ Shapes /\ Generations
      /\ Owners /\ Consumers /\ Asking /\ gate \in GateStates /\ storage \in StorageStates
      /\ jobs \in Seq(Jobs) /\ reply \in [Requesters -> Replies] /\ a \in Requesters
      /\ closer \in Closers /\ a # None
  BY Facts
<1>3. closer.on # a /\ reply[a] = "none"
  BY <1>1, <1>2 DEF MayCall, AskOK, Waits
<1>4. CASE /\ Submit("begin", a, a)
           /\ act' = [act EXCEPT ![a] = [@ EXCEPT !.pc = "reading", !.reads = act[a].reads + 1]]
  <2>1. act[a].reads + 1 \in Nat
    BY <1>2 DEF ActorStates
  <2>2. act[a].lock = storage.slot => storage.owner = a
    BY <1>1, <1>2 DEF OwnerOK, HandleOK, Holders
  <2> DEFINE r == [act[a] EXCEPT !.pc = "reading", !.reads = act[a].reads + 1]
  <2>3. act' = [act EXCEPT ![a] = r]
    BY <1>1, <1>2, <1>4
  <2>4. r \in ActorStates /\ r.pc = "reading" /\ r.handle = act[a].handle /\ r.closed = act[a].closed
        /\ r.gate = act[a].gate /\ r.result = act[a].result /\ r.lock = act[a].lock
    BY <1>1, <1>2, <1>4, <2>1, <2>2 DEF Keeps, ActorStates, PCs, GateStates, StorageStates
  <2> HIDE DEF r
  <2>5. Becomes(a, r)
    BY <1>2, <2>3, <2>4, Changed DEF Becomes
  <2>6. /\ jobs' = Append(jobs, Job("begin", a, a)) /\ reply' = [reply EXCEPT ![a] = "waiting"]
        /\ reply[a] \in {"none", "ok", "failed"}
    BY <1>1, <1>2, <1>3, <1>4, <2>1, <2>2 DEF Submit, Ask
  <2>7. /\ reply' \in [Requesters -> Replies] /\ reply'[a] = "waiting"
        /\ \A b \in Actors \ {a} : reply'[b] = reply[b]
    BY <1>2, <2>6 DEF Replies, Requesters
  <2>8. Job("begin", a, a) \in Jobs
    BY <1>2 DEF Job, Jobs
  <2>9. jobs' \in Seq(Jobs)
    BY <1>2, <2>6, <2>8
  <2>10. Asking' /\ worker' \in Workers
    BY <1>1, <1>2, <1>3, <1>4, <2>1, <2>2, <2>4, <2>5, <2>6, SubmitAsk DEF Becomes, Shapes, Stands
  <2>11. HandleOK(a)'
    BY <1>1, <1>2, <1>3, <1>4, <2>1, <2>2, <2>4, <2>5, <2>10, <2>6, <2>7, <2>9 DEF HandleOK, Listed, CallLocked, Used, Becomes, Keeps
  <2>12. ResultOK(a)'
    BY <1>1, <1>2, <1>3, <1>4, <2>1, <2>2, <2>4, <2>5, <2>10, <2>6, <2>7, <2>9 DEF ResultOK, Becomes, Keeps
  <2>13. OwnerOK(a)' /\ ConsumerOK(a)'
    BY <1>1, <1>2, <2>1, <2>2, <2>4, <2>5 DEF OwnerOK, ConsumerOK, Current, Holders, Becomes, Keeps
  <2> QED BY <1>1, <1>2, <1>3, <1>4, <2>1, <2>2, <2>4, <2>5, <2>10, <2>6, <2>7, <2>9, <2>11, <2>12, <2>13, OneMoves DEF Shapes
<1> QED BY <1>1, <1>4 DEF Read

LEMMA ReadBeginsStep == ASSUME IInv, NEW a \in Actors, ReadBegins(a) PROVE IInv'
<1>1. /\ act[a].pc = "reading"
      /\ UNCHANGED <<storage, closer, gate, helper, flock, mutex, worker, committed, slips>>
  BY DEF ReadBegins
<1>2. /\ HandleOK(a) /\ ResultOK(a) /\ OwnerOK(a) /\ ConsumerOK(a) /\ AskOK(a) /\ CloserOK
      /\ act \in [Actors -> ActorStates] /\ act[a] \in ActorStates /\ Shapes /\ Generations
      /\ Owners /\ Consumers /\ Asking /\ gate \in GateStates /\ storage \in StorageStates
      /\ jobs \in Seq(Jobs) /\ reply \in [Requesters -> Replies] /\ a \in Requesters
      /\ closer \in Closers /\ a # None
  BY Facts
<1>3. closer.on # a
  BY <1>1, <1>2 DEF CloserOK
<1>4. CASE /\ reply[a] = "ok" /\ reply' = Answer(a, "none") /\ UNCHANGED jobs
           /\ act' = [act EXCEPT ![a] = [@ EXCEPT !.pc = "open", !.handle = "begun"]]
  <2> DEFINE r == [act[a] EXCEPT !.pc = "open", !.handle = "begun"]
  <2>1. act' = [act EXCEPT ![a] = r]
    BY <1>1, <1>2, <1>4
  <2>2. r \in ActorStates /\ r.pc = "open" /\ r.handle = "begun" /\ r.closed = act[a].closed
        /\ r.gate = act[a].gate /\ r.result = act[a].result /\ r.lock = act[a].lock
    BY <1>1, <1>2, <1>4 DEF Keeps, ActorStates, PCs, GateStates, StorageStates
  <2> HIDE DEF r
  <2>3. Becomes(a, r)
    BY <1>2, <2>1, <2>2, Changed DEF Becomes
  <2>4. reply' = [reply EXCEPT ![a] = "none"] /\ reply[a] \in {"none", "ok", "failed"} /\ jobs' = jobs
    BY <1>1, <1>2, <1>4 DEF Answer
  <2>5. /\ reply' \in [Requesters -> Replies] /\ reply'[a] = "none"
        /\ \A b \in Actors \ {a} : reply'[b] = reply[b]
    BY <1>2, <2>4 DEF Replies, Requesters
  <2>6. Asking' /\ worker' \in Workers
    BY <1>1, <1>2, <1>3, <1>4, <2>2, <2>3, <2>4, <2>5, QuietAsk DEF Becomes, Shapes
  <2>7. HandleOK(a)'
    BY <1>1, <1>2, <1>3, <1>4, <2>2, <2>3, <2>6, <2>4, <2>5 DEF HandleOK, Listed, CallLocked, Used, Becomes, Keeps
  <2>8. ResultOK(a)'
    BY <1>1, <1>2, <1>3, <1>4, <2>2, <2>3, <2>6, <2>4, <2>5 DEF ResultOK, Becomes, Keeps
  <2>9. OwnerOK(a)' /\ ConsumerOK(a)'
    BY <1>1, <1>2, <1>3, <1>4, <2>2, <2>3, <2>6, <2>4, <2>5 DEF OwnerOK, ConsumerOK, Current, Holders, Becomes, Keeps
  <2> QED BY <1>1, <1>2, <1>3, <1>4, <2>2, <2>3, <2>6, <2>4, <2>5, <2>7, <2>8, <2>9, OneMoves DEF Shapes
<1>5. CASE /\ reply[a] = "ok" /\ Submit("abort", a, a) /\ Goto(a, "unreplay")
  <2>1. PICK r \in ActorStates : Becomes(a, r) /\ r.pc = "unreplay" /\ Keeps(a, r)
    BY <1>1, <1>2, <1>5, Went DEF PCs
  <2>2. /\ jobs' = Append(jobs, Job("abort", a, a)) /\ reply' = [reply EXCEPT ![a] = "waiting"]
        /\ reply[a] \in {"none", "ok", "failed"}
    BY <1>1, <1>2, <1>3, <1>5 DEF Submit, Ask
  <2>3. /\ reply' \in [Requesters -> Replies] /\ reply'[a] = "waiting"
        /\ \A b \in Actors \ {a} : reply'[b] = reply[b]
    BY <1>2, <2>2 DEF Replies, Requesters
  <2>4. Job("abort", a, a) \in Jobs
    BY <1>2 DEF Job, Jobs
  <2>5. jobs' \in Seq(Jobs)
    BY <1>2, <2>2, <2>4
  <2>6. Asking' /\ worker' \in Workers
    BY <1>1, <1>2, <1>3, <1>5, <2>1, <2>2, SubmitAsk DEF Becomes, Shapes, Stands
  <2>7. HandleOK(a)'
    BY <1>1, <1>2, <1>3, <1>5, <2>1, <2>6, <2>2, <2>3, <2>5 DEF HandleOK, Listed, CallLocked, Used, Becomes, Keeps
  <2>8. ResultOK(a)'
    BY <1>1, <1>2, <1>3, <1>5, <2>1, <2>6, <2>2, <2>3, <2>5 DEF ResultOK, Becomes, Keeps
  <2>9. OwnerOK(a)' /\ ConsumerOK(a)'
    BY <1>1, <1>2, <1>3, <1>5, <2>1, <2>6, <2>2, <2>3, <2>5 DEF OwnerOK, ConsumerOK, Current, Holders, Becomes, Keeps
  <2> QED BY <1>1, <1>2, <1>3, <1>5, <2>1, <2>6, <2>2, <2>3, <2>5, <2>7, <2>8, <2>9, OneMoves DEF Shapes
<1>6. CASE /\ reply[a] = "failed" /\ reply' = Answer(a, "none") /\ UNCHANGED jobs
           /\ Goto(a, "open")
  <2>1. PICK r \in ActorStates : Becomes(a, r) /\ r.pc = "open" /\ Keeps(a, r)
    BY <1>1, <1>2, <1>6, Went DEF PCs
  <2>2. reply' = [reply EXCEPT ![a] = "none"] /\ reply[a] \in {"none", "ok", "failed"} /\ jobs' = jobs
    BY <1>1, <1>2, <1>6 DEF Answer
  <2>3. /\ reply' \in [Requesters -> Replies] /\ reply'[a] = "none"
        /\ \A b \in Actors \ {a} : reply'[b] = reply[b]
    BY <1>2, <2>2 DEF Replies, Requesters
  <2>4. Asking' /\ worker' \in Workers
    BY <1>1, <1>2, <1>3, <1>6, <2>1, <2>2, <2>3, QuietAsk DEF Becomes, Shapes
  <2>5. HandleOK(a)'
    BY <1>1, <1>2, <1>3, <1>6, <2>1, <2>4, <2>2, <2>3 DEF HandleOK, Listed, CallLocked, Used, Becomes, Keeps
  <2>6. ResultOK(a)'
    BY <1>1, <1>2, <1>3, <1>6, <2>1, <2>4, <2>2, <2>3 DEF ResultOK, Becomes, Keeps
  <2>7. OwnerOK(a)' /\ ConsumerOK(a)'
    BY <1>1, <1>2, <1>3, <1>6, <2>1, <2>4, <2>2, <2>3 DEF OwnerOK, ConsumerOK, Current, Holders, Becomes, Keeps
  <2> QED BY <1>1, <1>2, <1>3, <1>6, <2>1, <2>4, <2>2, <2>3, <2>5, <2>6, <2>7, OneMoves DEF Shapes
<1> QED BY <1>1, <1>4, <1>5, <1>6 DEF ReadBegins

LEMMA UnreplayedStep == ASSUME IInv, NEW a \in Actors, Unreplayed(a) PROVE IInv'
<1>1. /\ act[a].pc = "unreplay" /\ reply[a] = "ok"
      /\ UNCHANGED <<storage, closer, gate, helper, flock, mutex, jobs, worker, committed, slips>>
  BY DEF Unreplayed
<1>2. /\ HandleOK(a) /\ ResultOK(a) /\ OwnerOK(a) /\ ConsumerOK(a) /\ AskOK(a) /\ CloserOK
      /\ act \in [Actors -> ActorStates] /\ act[a] \in ActorStates /\ Shapes /\ Generations
      /\ Owners /\ Consumers /\ Asking /\ gate \in GateStates /\ storage \in StorageStates
      /\ jobs \in Seq(Jobs) /\ reply \in [Requesters -> Replies] /\ a \in Requesters
      /\ closer \in Closers /\ a # None
  BY Facts
<1>3. closer.on # a
  BY <1>1, <1>2 DEF CloserOK
<1>4. CASE /\ Goto(a, "open") /\ reply' = Answer(a, "none")
  <2>1. PICK r \in ActorStates : Becomes(a, r) /\ r.pc = "open" /\ Keeps(a, r)
    BY <1>1, <1>2, <1>4, Went DEF PCs
  <2>2. reply' = [reply EXCEPT ![a] = "none"] /\ reply[a] \in {"none", "ok", "failed"} /\ jobs' = jobs
    BY <1>1, <1>2, <1>4 DEF Answer
  <2>3. /\ reply' \in [Requesters -> Replies] /\ reply'[a] = "none"
        /\ \A b \in Actors \ {a} : reply'[b] = reply[b]
    BY <1>2, <2>2 DEF Replies, Requesters
  <2>4. Asking' /\ worker' \in Workers
    BY <1>1, <1>2, <1>3, <1>4, <2>1, <2>2, <2>3, QuietAsk DEF Becomes, Shapes
  <2>5. HandleOK(a)'
    BY <1>1, <1>2, <1>3, <1>4, <2>1, <2>4, <2>2, <2>3 DEF HandleOK, Listed, CallLocked, Used, Becomes, Keeps
  <2>6. ResultOK(a)'
    BY <1>1, <1>2, <1>3, <1>4, <2>1, <2>4, <2>2, <2>3 DEF ResultOK, Becomes, Keeps
  <2>7. OwnerOK(a)' /\ ConsumerOK(a)'
    BY <1>1, <1>2, <1>3, <1>4, <2>1, <2>4, <2>2, <2>3 DEF OwnerOK, ConsumerOK, Current, Holders, Becomes, Keeps
  <2> QED BY <1>1, <1>2, <1>3, <1>4, <2>1, <2>4, <2>2, <2>3, <2>5, <2>6, <2>7, OneMoves DEF Shapes
<1> QED BY <1>1, <1>4 DEF Unreplayed

LEMMA ReadGivesUpStep == ASSUME IInv, NEW a \in Actors, ReadGivesUp(a) PROVE IInv'
<1>1. /\ act[a].pc = "reading"
      /\ UNCHANGED <<storage, closer, gate, helper, flock, mutex, committed, slips>>
  BY DEF ReadGivesUp
<1>2. /\ HandleOK(a) /\ ResultOK(a) /\ OwnerOK(a) /\ ConsumerOK(a) /\ AskOK(a) /\ CloserOK
      /\ act \in [Actors -> ActorStates] /\ act[a] \in ActorStates /\ Shapes /\ Generations
      /\ Owners /\ Consumers /\ Asking /\ gate \in GateStates /\ storage \in StorageStates
      /\ jobs \in Seq(Jobs) /\ reply \in [Requesters -> Replies] /\ a \in Requesters
      /\ closer \in Closers /\ a # None
  BY Facts
<1>3. closer.on # a
  BY <1>1, <1>2 DEF CloserOK
<1>4. CASE /\ Goto(a, "open") /\ CancelBegin(a)
  <2>1. PICK r \in ActorStates : Becomes(a, r) /\ r.pc = "open" /\ Keeps(a, r)
    BY <1>1, <1>2, <1>4, Went DEF PCs
  <2>2. /\ reply[a] = "waiting" /\ reply' = [reply EXCEPT ![a] = "none"]
    BY <1>4 DEF CancelBegin
  <2>3. /\ reply' \in [Requesters -> Replies] /\ reply'[a] = "none"
        /\ \A b \in Actors \ {a} : reply'[b] = reply[b]
    BY <1>2, <2>2 DEF Replies, Requesters
  <2>4. Asking' /\ jobs' \in Seq(Jobs) /\ worker' \in Workers
    BY <1>1, <1>2, <1>3, <1>4, <2>1, CancelAsk DEF Becomes
  <2>5. HandleOK(a)'
    BY <1>1, <1>2, <1>3, <1>4, <2>1, <2>4, <2>2, <2>3 DEF HandleOK, Listed, CallLocked, Used, Becomes, Keeps
  <2>6. ResultOK(a)'
    BY <1>1, <1>2, <1>3, <1>4, <2>1, <2>4, <2>2, <2>3 DEF ResultOK, Becomes, Keeps
  <2>7. OwnerOK(a)' /\ ConsumerOK(a)'
    BY <1>1, <1>2, <1>3, <1>4, <2>1, <2>4, <2>2, <2>3 DEF OwnerOK, ConsumerOK, Current, Holders, Becomes, Keeps
  <2> QED BY <1>1, <1>2, <1>3, <1>4, <2>1, <2>4, <2>2, <2>3, <2>5, <2>6, <2>7, OneMoves DEF Shapes
<1> QED BY <1>1, <1>4 DEF ReadGivesUp

LEMMA ReadInterruptedStep == ASSUME IInv, NEW a \in Actors, ReadInterrupted(a) PROVE IInv'
<1>1. /\ act[a].pc = "reading" /\ Goto(a, "open")
      /\ UNCHANGED <<storage, closer, gate, helper, flock, mutex, committed>>
  BY DEF ReadInterrupted
<1>2. /\ HandleOK(a) /\ ResultOK(a) /\ OwnerOK(a) /\ ConsumerOK(a) /\ AskOK(a) /\ CloserOK
      /\ act \in [Actors -> ActorStates] /\ act[a] \in ActorStates /\ Shapes /\ Generations
      /\ Owners /\ Consumers /\ Asking /\ gate \in GateStates /\ storage \in StorageStates
      /\ jobs \in Seq(Jobs) /\ reply \in [Requesters -> Replies] /\ a \in Requesters
      /\ closer \in Closers /\ a # None
  BY Facts
<1>3. closer.on # a
  BY <1>1, <1>2 DEF CloserOK
<1>4. CASE /\ reply[a] = "ok" /\ jobs' = Fire(jobs, "drop", a) /\ reply' = Answer(a, "none")
           /\ UNCHANGED <<worker, slips>>
  <2>1. PICK r \in ActorStates : Becomes(a, r) /\ r.pc = "open" /\ Keeps(a, r)
    BY <1>1, <1>2, <1>4, Went DEF PCs
  <2>2. jobs' = jobs \/ \E j \in Jobs : JobOK(j) /\ j.by \notin Actors /\ jobs' = Append(jobs, j)
    BY <1>1, <1>2, <1>4, Fired
  <2>3. reply' = [reply EXCEPT ![a] = "none"] /\ reply[a] \in {"none", "ok", "failed"}
    BY <1>1, <1>2, <1>4 DEF Answer
  <2>4. /\ jobs' \in Seq(Jobs) /\ reply' \in [Requesters -> Replies] /\ reply'[a] = "none"
        /\ \A b \in Actors \ {a} : reply'[b] = reply[b]
    BY <1>1, <1>2, <1>4, <2>2, <2>3, Appended DEF Replies, Requesters
  <2>5. Asking' /\ worker' \in Workers
    BY <1>1, <1>2, <1>3, <1>4, <2>1, <2>2, <2>3, <2>4, QuietAsk DEF Becomes, Shapes
  <2>6. HandleOK(a)'
    BY <1>1, <1>2, <1>3, <1>4, <2>1, <2>5, <2>4 DEF HandleOK, Listed, CallLocked, Used, Becomes, Keeps
  <2>7. ResultOK(a)'
    BY <1>1, <1>2, <1>3, <1>4, <2>1, <2>5, <2>4 DEF ResultOK, Becomes, Keeps
  <2>8. OwnerOK(a)' /\ ConsumerOK(a)'
    BY <1>1, <1>2, <1>3, <1>4, <2>1, <2>5, <2>4 DEF OwnerOK, ConsumerOK, Current, Holders, Becomes, Keeps
  <2> QED BY <1>1, <1>2, <1>3, <1>4, <2>1, <2>5, <2>4, <2>6, <2>7, <2>8, OneMoves DEF Shapes
<1>5. CASE /\ LeaveRunning(a) /\ slips' = slips \cup {"landing"} /\ UNCHANGED jobs
  <2>1. PICK r \in ActorStates : Becomes(a, r) /\ r.pc = "open" /\ Keeps(a, r)
    BY <1>1, <1>2, <1>5, Went DEF PCs
  <2>2. slips' \subseteq SlipStates
    BY <1>1, <1>2, <1>5 DEF Shapes, SlipStates
  <2>3. /\ reply[a] = "running" /\ reply' = [reply EXCEPT ![a] = "none"] /\ jobs' = jobs
    BY <1>1, <1>5 DEF LeaveRunning
  <2>4. /\ reply' \in [Requesters -> Replies] /\ reply'[a] = "none"
        /\ \A b \in Actors \ {a} : reply'[b] = reply[b]
    BY <1>2, <2>3 DEF Replies, Requesters
  <2>5. Asking' /\ worker' \in Workers
    BY <1>1, <1>2, <1>3, <1>5, <2>1, <2>2, <2>3, LeaveAsk DEF Becomes
  <2>6. HandleOK(a)'
    BY <1>1, <1>2, <1>3, <1>5, <2>1, <2>2, <2>5, <2>3, <2>4 DEF HandleOK, Listed, CallLocked, Used, Becomes, Keeps
  <2>7. ResultOK(a)'
    BY <1>1, <1>2, <1>3, <1>5, <2>1, <2>2, <2>5, <2>3, <2>4 DEF ResultOK, Becomes, Keeps
  <2>8. OwnerOK(a)' /\ ConsumerOK(a)'
    BY <1>1, <1>2, <1>3, <1>5, <2>1, <2>2, <2>5, <2>3, <2>4 DEF OwnerOK, ConsumerOK, Current, Holders, Becomes, Keeps
  <2> QED BY <1>1, <1>2, <1>3, <1>5, <2>1, <2>2, <2>5, <2>3, <2>4, <2>6, <2>7, <2>8, OneMoves DEF Shapes
<1> QED BY <1>1, <1>4, <1>5 DEF ReadInterrupted

LEMMA CommitStep == ASSUME IInv, NEW a \in Actors, Commit(a) PROVE IInv'
<1>1. /\ act[a].pc = "open" /\ MayCall(a)
      /\ UNCHANGED <<storage, closer, gate, helper, flock, mutex, worker, committed, slips>>
  BY DEF Commit
<1>2. /\ HandleOK(a) /\ ResultOK(a) /\ OwnerOK(a) /\ ConsumerOK(a) /\ AskOK(a) /\ CloserOK
      /\ act \in [Actors -> ActorStates] /\ act[a] \in ActorStates /\ Shapes /\ Generations
      /\ Owners /\ Consumers /\ Asking /\ gate \in GateStates /\ storage \in StorageStates
      /\ jobs \in Seq(Jobs) /\ reply \in [Requesters -> Replies] /\ a \in Requesters
      /\ closer \in Closers /\ a # None
  BY Facts
<1>3. closer.on # a /\ reply[a] = "none"
  BY <1>1, <1>2 DEF MayCall, AskOK, Waits
<1>4. CASE /\ act[a].closed /\ UNCHANGED <<jobs, reply>>
           /\ act' = [act EXCEPT ![a] = [@ EXCEPT !.pc = "done", !.result = "failed"]]
  <2> DEFINE r == [act[a] EXCEPT !.pc = "done", !.result = "failed"]
  <2>1. act' = [act EXCEPT ![a] = r]
    BY <1>1, <1>2, <1>4
  <2>2. r \in ActorStates /\ r.pc = "done" /\ r.handle = act[a].handle /\ r.closed = act[a].closed
        /\ r.gate = act[a].gate /\ r.result = "failed" /\ r.lock = act[a].lock
    BY <1>1, <1>2, <1>4 DEF Keeps, ActorStates, PCs, GateStates, StorageStates
  <2> HIDE DEF r
  <2>3. Becomes(a, r)
    BY <1>2, <2>1, <2>2, Changed DEF Becomes
  <2>4. Asking' /\ jobs' \in Seq(Jobs) /\ worker' \in Workers /\ reply' \in [Requesters -> Replies]
    BY <1>1, <1>2, <1>3, <1>4, <2>2, <2>3, FreeMove DEF Becomes
  <2>5. HandleOK(a)'
    BY <1>1, <1>2, <1>3, <1>4, <2>2, <2>3, <2>4 DEF HandleOK, Listed, CallLocked, Used, Becomes, Keeps
  <2>6. ResultOK(a)'
    BY <1>1, <1>2, <1>3, <1>4, <2>2, <2>3, <2>4 DEF ResultOK, Becomes, Keeps
  <2>7. OwnerOK(a)' /\ ConsumerOK(a)'
    BY <1>1, <1>2, <1>3, <1>4, <2>2, <2>3, <2>4 DEF OwnerOK, ConsumerOK, Current, Holders, Becomes, Keeps
  <2> QED BY <1>1, <1>2, <1>3, <1>4, <2>2, <2>3, <2>4, <2>5, <2>6, <2>7, OneMoves DEF Shapes
<1>5. CASE /\ ~act[a].closed /\ act[a].handle = "pending"
           /\ Submit("staged", a, a) /\ Goto(a, "committing")
  <2>1. PICK r \in ActorStates : Becomes(a, r) /\ r.pc = "committing" /\ Keeps(a, r)
    BY <1>1, <1>2, <1>5, Went DEF PCs
  <2>2. /\ jobs' = Append(jobs, Job("staged", a, a)) /\ reply' = [reply EXCEPT ![a] = "waiting"]
        /\ reply[a] \in {"none", "ok", "failed"}
    BY <1>1, <1>2, <1>3, <1>5 DEF Submit, Ask
  <2>3. /\ reply' \in [Requesters -> Replies] /\ reply'[a] = "waiting"
        /\ \A b \in Actors \ {a} : reply'[b] = reply[b]
    BY <1>2, <2>2 DEF Replies, Requesters
  <2>4. Job("staged", a, a) \in Jobs
    BY <1>2 DEF Job, Jobs
  <2>5. jobs' \in Seq(Jobs)
    BY <1>2, <2>2, <2>4
  <2>6. Asking' /\ worker' \in Workers
    BY <1>1, <1>2, <1>3, <1>5, <2>1, <2>2, SubmitAsk DEF Becomes, Shapes, Stands
  <2>7. HandleOK(a)'
    BY <1>1, <1>2, <1>3, <1>5, <2>1, <2>6, <2>2, <2>3, <2>5 DEF HandleOK, Listed, CallLocked, Used, Becomes, Keeps
  <2>8. ResultOK(a)'
    BY <1>1, <1>2, <1>3, <1>5, <2>1, <2>6, <2>2, <2>3, <2>5 DEF ResultOK, Becomes, Keeps
  <2>9. OwnerOK(a)' /\ ConsumerOK(a)'
    BY <1>1, <1>2, <1>3, <1>5, <2>1, <2>6, <2>2, <2>3, <2>5 DEF OwnerOK, ConsumerOK, Current, Holders, Becomes, Keeps
  <2> QED BY <1>1, <1>2, <1>3, <1>5, <2>1, <2>6, <2>2, <2>3, <2>5, <2>7, <2>8, <2>9, OneMoves DEF Shapes
<1>6. CASE /\ ~act[a].closed /\ act[a].handle = "begun"
           /\ Submit("commit", a, a) /\ Goto(a, "ending")
  <2>1. PICK r \in ActorStates : Becomes(a, r) /\ r.pc = "ending" /\ Keeps(a, r)
    BY <1>1, <1>2, <1>6, Went DEF PCs
  <2>2. /\ jobs' = Append(jobs, Job("commit", a, a)) /\ reply' = [reply EXCEPT ![a] = "waiting"]
        /\ reply[a] \in {"none", "ok", "failed"}
    BY <1>1, <1>2, <1>3, <1>6 DEF Submit, Ask
  <2>3. /\ reply' \in [Requesters -> Replies] /\ reply'[a] = "waiting"
        /\ \A b \in Actors \ {a} : reply'[b] = reply[b]
    BY <1>2, <2>2 DEF Replies, Requesters
  <2>4. Job("commit", a, a) \in Jobs
    BY <1>2 DEF Job, Jobs
  <2>5. jobs' \in Seq(Jobs)
    BY <1>2, <2>2, <2>4
  <2>6. Asking' /\ worker' \in Workers
    BY <1>1, <1>2, <1>3, <1>6, <2>1, <2>2, SubmitAsk DEF Becomes, Shapes, Stands
  <2>7. HandleOK(a)'
    BY <1>1, <1>2, <1>3, <1>6, <2>1, <2>6, <2>2, <2>3, <2>5 DEF HandleOK, Listed, CallLocked, Used, Becomes, Keeps
  <2>8. ResultOK(a)'
    BY <1>1, <1>2, <1>3, <1>6, <2>1, <2>6, <2>2, <2>3, <2>5 DEF ResultOK, Becomes, Keeps
  <2>9. OwnerOK(a)' /\ ConsumerOK(a)'
    BY <1>1, <1>2, <1>3, <1>6, <2>1, <2>6, <2>2, <2>3, <2>5 DEF OwnerOK, ConsumerOK, Current, Holders, Becomes, Keeps
  <2> QED BY <1>1, <1>2, <1>3, <1>6, <2>1, <2>6, <2>2, <2>3, <2>5, <2>7, <2>8, <2>9, OneMoves DEF Shapes
<1> QED BY <1>1, <1>4, <1>5, <1>6 DEF Commit, Ask

LEMMA AbortStep == ASSUME IInv, NEW a \in Actors, Abort(a) PROVE IInv'
<1>1. /\ act[a].pc = "open" /\ MayCall(a) /\ ~act[a].closed
      /\ UNCHANGED <<storage, closer, gate, helper, flock, mutex, worker, committed, slips>>
  BY DEF Abort
<1>2. /\ HandleOK(a) /\ ResultOK(a) /\ OwnerOK(a) /\ ConsumerOK(a) /\ AskOK(a) /\ CloserOK
      /\ act \in [Actors -> ActorStates] /\ act[a] \in ActorStates /\ Shapes /\ Generations
      /\ Owners /\ Consumers /\ Asking /\ gate \in GateStates /\ storage \in StorageStates
      /\ jobs \in Seq(Jobs) /\ reply \in [Requesters -> Replies] /\ a \in Requesters
      /\ closer \in Closers /\ a # None
  BY Facts
<1>3. closer.on # a /\ reply[a] = "none"
  BY <1>1, <1>2 DEF MayCall, AskOK, Waits
<1>4. CASE /\ act[a].handle = "pending" /\ Fail(a, "release") /\ UNCHANGED <<jobs, reply>>
  <2>1. Fail(a, "release") /\ act \in [Actors -> ActorStates] /\ a \in Actors
    BY <1>1, <1>2, <1>4
  <2>2. "release" \in PCs
    BY DEF PCs
  <2>3. PICK r \in ActorStates :
            /\ Becomes(a, r) /\ r.pc = "release" /\ r.result = "failed" /\ r.closed = TRUE
            /\ r.handle = "none" /\ r.gate = act[a].gate /\ r.lock = act[a].lock
    BY ONLY <2>1, <2>2, Failed
  <2>4. Asking' /\ jobs' \in Seq(Jobs) /\ worker' \in Workers /\ reply' \in [Requesters -> Replies]
    BY <1>1, <1>2, <1>3, <1>4, <2>3, FreeMove DEF Becomes
  <2>5. HandleOK(a)'
    BY <1>1, <1>2, <1>3, <1>4, <2>3, <2>4 DEF HandleOK, Listed, CallLocked, Used, Becomes, Keeps
  <2>6. ResultOK(a)'
    BY <1>1, <1>2, <1>3, <1>4, <2>3, <2>4 DEF ResultOK, Becomes, Keeps
  <2>7. OwnerOK(a)' /\ ConsumerOK(a)'
    BY <1>1, <1>2, <1>3, <1>4, <2>3, <2>4 DEF OwnerOK, ConsumerOK, Current, Holders, Becomes, Keeps
  <2> QED BY <1>1, <1>2, <1>3, <1>4, <2>3, <2>4, <2>5, <2>6, <2>7, OneMoves DEF Shapes
<1>5. CASE /\ act[a].handle = "begun" /\ Submit("abort", a, a) /\ Goto(a, "ending")
  <2>1. PICK r \in ActorStates : Becomes(a, r) /\ r.pc = "ending" /\ Keeps(a, r)
    BY <1>1, <1>2, <1>5, Went DEF PCs
  <2>2. /\ jobs' = Append(jobs, Job("abort", a, a)) /\ reply' = [reply EXCEPT ![a] = "waiting"]
        /\ reply[a] \in {"none", "ok", "failed"}
    BY <1>1, <1>2, <1>3, <1>5 DEF Submit, Ask
  <2>3. /\ reply' \in [Requesters -> Replies] /\ reply'[a] = "waiting"
        /\ \A b \in Actors \ {a} : reply'[b] = reply[b]
    BY <1>2, <2>2 DEF Replies, Requesters
  <2>4. Job("abort", a, a) \in Jobs
    BY <1>2 DEF Job, Jobs
  <2>5. jobs' \in Seq(Jobs)
    BY <1>2, <2>2, <2>4
  <2>6. Asking' /\ worker' \in Workers
    BY <1>1, <1>2, <1>3, <1>5, <2>1, <2>2, SubmitAsk DEF Becomes, Shapes, Stands
  <2>7. HandleOK(a)'
    BY <1>1, <1>2, <1>3, <1>5, <2>1, <2>6, <2>2, <2>3, <2>5 DEF HandleOK, Listed, CallLocked, Used, Becomes, Keeps
  <2>8. ResultOK(a)'
    BY <1>1, <1>2, <1>3, <1>5, <2>1, <2>6, <2>2, <2>3, <2>5 DEF ResultOK, Becomes, Keeps
  <2>9. OwnerOK(a)' /\ ConsumerOK(a)'
    BY <1>1, <1>2, <1>3, <1>5, <2>1, <2>6, <2>2, <2>3, <2>5 DEF OwnerOK, ConsumerOK, Current, Holders, Becomes, Keeps
  <2> QED BY <1>1, <1>2, <1>3, <1>5, <2>1, <2>6, <2>2, <2>3, <2>5, <2>7, <2>8, <2>9, OneMoves DEF Shapes
<1> QED BY <1>1, <1>4, <1>5 DEF Abort, Ask

LEMMA FinalizeStep == ASSUME IInv, NEW a \in Actors, Finalize(a) PROVE IInv'
<1>1. /\ act[a].pc = "open" /\ ~act[a].closed /\ a \notin closer.left
      /\ UNCHANGED <<storage, closer, gate, helper, flock, mutex, worker, reply, committed, slips>>
  BY DEF Finalize
<1>2. /\ HandleOK(a) /\ ResultOK(a) /\ OwnerOK(a) /\ ConsumerOK(a) /\ AskOK(a) /\ CloserOK
      /\ act \in [Actors -> ActorStates] /\ act[a] \in ActorStates /\ Shapes /\ Generations
      /\ Owners /\ Consumers /\ Asking /\ gate \in GateStates /\ storage \in StorageStates
      /\ jobs \in Seq(Jobs) /\ reply \in [Requesters -> Replies] /\ a \in Requesters
      /\ closer \in Closers /\ a # None
  BY Facts
<1>3. closer.on # a /\ reply[a] = "none"
  BY <1>1, <1>2 DEF CloserOK, AskOK, Waits
<1>4. CASE /\ Fail(a, "release")
           /\ jobs' = IF act[a].handle = "begun" THEN Fire(jobs, "drop", a) ELSE jobs
  <2>1. Fail(a, "release") /\ act \in [Actors -> ActorStates] /\ a \in Actors
    BY <1>1, <1>2, <1>4
  <2>2. "release" \in PCs
    BY DEF PCs
  <2>3. PICK r \in ActorStates :
            /\ Becomes(a, r) /\ r.pc = "release" /\ r.result = "failed" /\ r.closed = TRUE
            /\ r.handle = "none" /\ r.gate = act[a].gate /\ r.lock = act[a].lock
    BY ONLY <2>1, <2>2, Failed
  <2>4. jobs' = jobs \/ \E j \in Jobs : JobOK(j) /\ j.by \notin Actors /\ jobs' = Append(jobs, j)
    BY <1>1, <1>2, <1>4, Fired
  <2>5. Asking' /\ jobs' \in Seq(Jobs) /\ worker' \in Workers /\ reply' \in [Requesters -> Replies]
    BY <1>1, <1>2, <1>3, <1>4, <2>3, <2>4, FreeMove DEF Becomes
  <2>6. HandleOK(a)'
    BY <1>1, <1>2, <1>3, <1>4, <2>3, <2>5 DEF HandleOK, Listed, CallLocked, Used, Becomes, Keeps
  <2>7. ResultOK(a)'
    BY <1>1, <1>2, <1>3, <1>4, <2>3, <2>5 DEF ResultOK, Becomes, Keeps
  <2>8. OwnerOK(a)' /\ ConsumerOK(a)'
    BY <1>1, <1>2, <1>3, <1>4, <2>3, <2>5 DEF OwnerOK, ConsumerOK, Current, Holders, Becomes, Keeps
  <2> QED BY <1>1, <1>2, <1>3, <1>4, <2>3, <2>5, <2>6, <2>7, <2>8, OneMoves DEF Shapes
<1> QED BY <1>1, <1>4 DEF Finalize

LEMMA EndedStep == ASSUME IInv, NEW a \in Actors, Ended(a) PROVE IInv'
<1>1. /\ act[a].pc \in {"committing", "ending"} /\ reply[a] \in {"ok", "failed"}
      /\ UNCHANGED <<storage, closer, gate, helper, flock, mutex, jobs, worker, committed, slips>>
  BY DEF Ended
<1>2. /\ HandleOK(a) /\ ResultOK(a) /\ OwnerOK(a) /\ ConsumerOK(a) /\ AskOK(a) /\ CloserOK
      /\ act \in [Actors -> ActorStates] /\ act[a] \in ActorStates /\ Shapes /\ Generations
      /\ Owners /\ Consumers /\ Asking /\ gate \in GateStates /\ storage \in StorageStates
      /\ jobs \in Seq(Jobs) /\ reply \in [Requesters -> Replies] /\ a \in Requesters
      /\ closer \in Closers /\ a # None
  BY Facts
<1>3. closer.on # a
  BY <1>1, <1>2 DEF CloserOK
<1>4. CASE /\ reply[a] = "ok" /\ a \in committed
           /\ reply' = Answer(a, "none")
           /\ act' = [act EXCEPT ![a] = [@ EXCEPT !.pc = "release", !.closed = TRUE, !.handle = "none",
                                                  !.result = "ok"]]
  <2> DEFINE r == [act[a] EXCEPT !.pc = "release", !.closed = TRUE, !.handle = "none", !.result = "ok"]
  <2>1. act' = [act EXCEPT ![a] = r]
    BY <1>1, <1>2, <1>4
  <2>2. r \in ActorStates /\ r.pc = "release" /\ r.handle = "none" /\ r.closed = TRUE
        /\ r.gate = act[a].gate /\ r.result = "ok" /\ r.lock = act[a].lock
    BY <1>1, <1>2, <1>4 DEF Keeps, ActorStates, PCs, GateStates, StorageStates
  <2> HIDE DEF r
  <2>3. Becomes(a, r)
    BY <1>2, <2>1, <2>2, Changed DEF Becomes
  <2>4. reply' = [reply EXCEPT ![a] = "none"] /\ reply[a] \in {"none", "ok", "failed"} /\ jobs' = jobs
    BY <1>1, <1>2, <1>4 DEF Answer
  <2>5. /\ reply' \in [Requesters -> Replies] /\ reply'[a] = "none"
        /\ \A b \in Actors \ {a} : reply'[b] = reply[b]
    BY <1>2, <2>4 DEF Replies, Requesters
  <2>6. Asking' /\ worker' \in Workers
    BY <1>1, <1>2, <1>3, <1>4, <2>2, <2>3, <2>4, <2>5, QuietAsk DEF Becomes, Shapes
  <2>7. HandleOK(a)'
    BY <1>1, <1>2, <1>3, <1>4, <2>2, <2>3, <2>6, <2>4, <2>5 DEF HandleOK, Listed, CallLocked, Used, Becomes, Keeps
  <2>8. ResultOK(a)'
    BY <1>1, <1>2, <1>3, <1>4, <2>2, <2>3, <2>6, <2>4, <2>5 DEF ResultOK, Becomes, Keeps
  <2>9. OwnerOK(a)' /\ ConsumerOK(a)'
    BY <1>1, <1>2, <1>3, <1>4, <2>2, <2>3, <2>6, <2>4, <2>5 DEF OwnerOK, ConsumerOK, Current, Holders, Becomes, Keeps
  <2> QED BY <1>1, <1>2, <1>3, <1>4, <2>2, <2>3, <2>6, <2>4, <2>5, <2>7, <2>8, <2>9, OneMoves DEF Shapes
<1>5. CASE /\ ~(reply[a] = "ok" /\ a \in committed)
           /\ reply' = Answer(a, "none")
           /\ act' = [act EXCEPT ![a] = [@ EXCEPT !.pc = "release", !.closed = TRUE, !.handle = "none",
                                                  !.result = "failed"]]
  <2> DEFINE r == [act[a] EXCEPT !.pc = "release", !.closed = TRUE, !.handle = "none", !.result = "failed"]
  <2>1. act' = [act EXCEPT ![a] = r]
    BY <1>1, <1>2, <1>5
  <2>2. r \in ActorStates /\ r.pc = "release" /\ r.handle = "none" /\ r.closed = TRUE
        /\ r.gate = act[a].gate /\ r.result = "failed" /\ r.lock = act[a].lock
    BY <1>1, <1>2, <1>5 DEF Keeps, ActorStates, PCs, GateStates, StorageStates
  <2> HIDE DEF r
  <2>3. Becomes(a, r)
    BY <1>2, <2>1, <2>2, Changed DEF Becomes
  <2>4. reply' = [reply EXCEPT ![a] = "none"] /\ reply[a] \in {"none", "ok", "failed"} /\ jobs' = jobs
    BY <1>1, <1>2, <1>5 DEF Answer
  <2>5. /\ reply' \in [Requesters -> Replies] /\ reply'[a] = "none"
        /\ \A b \in Actors \ {a} : reply'[b] = reply[b]
    BY <1>2, <2>4 DEF Replies, Requesters
  <2>6. Asking' /\ worker' \in Workers
    BY <1>1, <1>2, <1>3, <1>5, <2>2, <2>3, <2>4, <2>5, QuietAsk DEF Becomes, Shapes
  <2>7. HandleOK(a)'
    BY <1>1, <1>2, <1>3, <1>5, <2>2, <2>3, <2>6, <2>4, <2>5 DEF HandleOK, Listed, CallLocked, Used, Becomes, Keeps
  <2>8. ResultOK(a)'
    BY <1>1, <1>2, <1>3, <1>5, <2>2, <2>3, <2>6, <2>4, <2>5 DEF ResultOK, Becomes, Keeps
  <2>9. OwnerOK(a)' /\ ConsumerOK(a)'
    BY <1>1, <1>2, <1>3, <1>5, <2>2, <2>3, <2>6, <2>4, <2>5 DEF OwnerOK, ConsumerOK, Current, Holders, Becomes, Keeps
  <2> QED BY <1>1, <1>2, <1>3, <1>5, <2>2, <2>3, <2>6, <2>4, <2>5, <2>7, <2>8, <2>9, OneMoves DEF Shapes
<1> QED BY <1>1, <1>4, <1>5 DEF Ended

LEMMA CommitGivesUpStep == ASSUME IInv, NEW a \in Actors, CommitGivesUp(a) PROVE IInv'
<1>1. /\ act[a].pc = "committing"
      /\ UNCHANGED <<storage, closer, gate, helper, flock, mutex, committed, slips>>
  BY DEF CommitGivesUp
<1>2. /\ HandleOK(a) /\ ResultOK(a) /\ OwnerOK(a) /\ ConsumerOK(a) /\ AskOK(a) /\ CloserOK
      /\ act \in [Actors -> ActorStates] /\ act[a] \in ActorStates /\ Shapes /\ Generations
      /\ Owners /\ Consumers /\ Asking /\ gate \in GateStates /\ storage \in StorageStates
      /\ jobs \in Seq(Jobs) /\ reply \in [Requesters -> Replies] /\ a \in Requesters
      /\ closer \in Closers /\ a # None
  BY Facts
<1>3. closer.on # a
  BY <1>1, <1>2 DEF CloserOK
<1>4. CASE /\ Fail(a, "release") /\ CancelBegin(a)
  <2>1. Fail(a, "release") /\ act \in [Actors -> ActorStates] /\ a \in Actors
    BY <1>1, <1>2, <1>4
  <2>2. "release" \in PCs
    BY DEF PCs
  <2>3. PICK r \in ActorStates :
            /\ Becomes(a, r) /\ r.pc = "release" /\ r.result = "failed" /\ r.closed = TRUE
            /\ r.handle = "none" /\ r.gate = act[a].gate /\ r.lock = act[a].lock
    BY ONLY <2>1, <2>2, Failed
  <2>4. /\ reply[a] = "waiting" /\ reply' = [reply EXCEPT ![a] = "none"]
    BY <1>4 DEF CancelBegin
  <2>5. /\ reply' \in [Requesters -> Replies] /\ reply'[a] = "none"
        /\ \A b \in Actors \ {a} : reply'[b] = reply[b]
    BY <1>2, <2>4 DEF Replies, Requesters
  <2>6. Asking' /\ jobs' \in Seq(Jobs) /\ worker' \in Workers
    BY <1>1, <1>2, <1>3, <1>4, <2>3, CancelAsk DEF Becomes
  <2>7. HandleOK(a)'
    BY <1>1, <1>2, <1>3, <1>4, <2>3, <2>6, <2>4, <2>5 DEF HandleOK, Listed, CallLocked, Used, Becomes, Keeps
  <2>8. ResultOK(a)'
    BY <1>1, <1>2, <1>3, <1>4, <2>3, <2>6, <2>4, <2>5 DEF ResultOK, Becomes, Keeps
  <2>9. OwnerOK(a)' /\ ConsumerOK(a)'
    BY <1>1, <1>2, <1>3, <1>4, <2>3, <2>6, <2>4, <2>5 DEF OwnerOK, ConsumerOK, Current, Holders, Becomes, Keeps
  <2> QED BY <1>1, <1>2, <1>3, <1>4, <2>3, <2>6, <2>4, <2>5, <2>7, <2>8, <2>9, OneMoves DEF Shapes
<1> QED BY <1>1, <1>4 DEF CommitGivesUp

LEMMA AbortInterruptedStep == ASSUME IInv, NEW a \in Actors, AbortInterrupted(a) PROVE IInv'
<1>1. /\ act[a].pc = "ending" /\ reply[a] = "waiting"
      /\ UNCHANGED <<storage, closer, gate, helper, flock, mutex, worker, committed, slips>>
  BY DEF AbortInterrupted
<1>2. /\ HandleOK(a) /\ ResultOK(a) /\ OwnerOK(a) /\ ConsumerOK(a) /\ AskOK(a) /\ CloserOK
      /\ act \in [Actors -> ActorStates] /\ act[a] \in ActorStates /\ Shapes /\ Generations
      /\ Owners /\ Consumers /\ Asking /\ gate \in GateStates /\ storage \in StorageStates
      /\ jobs \in Seq(Jobs) /\ reply \in [Requesters -> Replies] /\ a \in Requesters
      /\ closer \in Closers /\ a # None
  BY Facts
<1>3. closer.on # a
  BY <1>1, <1>2 DEF CloserOK
<1>4. CASE /\ \E i \in DOMAIN jobs : jobs[i].by = a /\ jobs[i].op = "abort"
           /\ jobs' = [i \in DOMAIN jobs |-> IF jobs[i].by = a THEN [jobs[i] EXCEPT !.by = None] ELSE jobs[i]]
           /\ reply' = Answer(a, "none") /\ Fail(a, "release")
  <2>1. Fail(a, "release") /\ act \in [Actors -> ActorStates] /\ a \in Actors
    BY <1>1, <1>2, <1>4
  <2>2. "release" \in PCs
    BY DEF PCs
  <2>3. PICK r \in ActorStates :
            /\ Becomes(a, r) /\ r.pc = "release" /\ r.result = "failed" /\ r.closed = TRUE
            /\ r.handle = "none" /\ r.gate = act[a].gate /\ r.lock = act[a].lock
    BY ONLY <2>1, <2>2, Failed
  <2>4. /\ reply[a] = "waiting" /\ reply' = [reply EXCEPT ![a] = "none"]
    BY <1>1, <1>2, <1>4 DEF Answer
  <2>5. /\ reply' \in [Requesters -> Replies] /\ reply'[a] = "none"
        /\ \A b \in Actors \ {a} : reply'[b] = reply[b]
    BY <1>2, <2>4 DEF Replies, Requesters
  <2>6. Asking' /\ jobs' \in Seq(Jobs) /\ worker' \in Workers
    BY <1>1, <1>2, <1>3, <1>4, <2>3, <2>4, InterruptAsk DEF Becomes, Shapes
  <2>7. HandleOK(a)'
    BY <1>1, <1>2, <1>3, <1>4, <2>3, <2>6, <2>4, <2>5 DEF HandleOK, Listed, CallLocked, Used, Becomes, Keeps
  <2>8. ResultOK(a)'
    BY <1>1, <1>2, <1>3, <1>4, <2>3, <2>6, <2>4, <2>5 DEF ResultOK, Becomes, Keeps
  <2>9. OwnerOK(a)' /\ ConsumerOK(a)'
    BY <1>1, <1>2, <1>3, <1>4, <2>3, <2>6, <2>4, <2>5 DEF OwnerOK, ConsumerOK, Current, Holders, Becomes, Keeps
  <2> QED BY <1>1, <1>2, <1>3, <1>4, <2>3, <2>6, <2>4, <2>5, <2>7, <2>8, <2>9, OneMoves DEF Shapes
<1> QED BY <1>1, <1>4 DEF AbortInterrupted

LEMMA ApplyBatchStep == ASSUME IInv, NEW a \in Actors, ApplyBatch(a) PROVE IInv'
<1>1. /\ act[a].pc = "apply" /\ MayCall(a)
      /\ UNCHANGED <<storage, closer, gate, helper, flock, mutex, worker, committed, slips>>
  BY DEF ApplyBatch
<1>2. /\ HandleOK(a) /\ ResultOK(a) /\ OwnerOK(a) /\ ConsumerOK(a) /\ AskOK(a) /\ CloserOK
      /\ act \in [Actors -> ActorStates] /\ act[a] \in ActorStates /\ Shapes /\ Generations
      /\ Owners /\ Consumers /\ Asking /\ gate \in GateStates /\ storage \in StorageStates
      /\ jobs \in Seq(Jobs) /\ reply \in [Requesters -> Replies] /\ a \in Requesters
      /\ closer \in Closers /\ a # None
  BY Facts
<1>3. closer.on # a /\ reply[a] = "none"
  BY <1>1, <1>2 DEF MayCall, AskOK, Waits
<1>4. CASE /\ act[a].closed /\ Goto(a, "release") /\ UNCHANGED <<jobs, reply>>
  <2>1. PICK r \in ActorStates : Becomes(a, r) /\ r.pc = "release" /\ Keeps(a, r)
    BY <1>1, <1>2, <1>4, Went DEF PCs
  <2>2. Asking' /\ jobs' \in Seq(Jobs) /\ worker' \in Workers /\ reply' \in [Requesters -> Replies]
    BY <1>1, <1>2, <1>3, <1>4, <2>1, FreeMove DEF Becomes
  <2>3. HandleOK(a)'
    BY <1>1, <1>2, <1>3, <1>4, <2>1, <2>2 DEF HandleOK, Listed, CallLocked, Used, Becomes, Keeps
  <2>4. ResultOK(a)'
    BY <1>1, <1>2, <1>3, <1>4, <2>1, <2>2 DEF ResultOK, Becomes, Keeps
  <2>5. OwnerOK(a)' /\ ConsumerOK(a)'
    BY <1>1, <1>2, <1>3, <1>4, <2>1, <2>2 DEF OwnerOK, ConsumerOK, Current, Holders, Becomes, Keeps
  <2> QED BY <1>1, <1>2, <1>3, <1>4, <2>1, <2>2, <2>3, <2>4, <2>5, OneMoves DEF Shapes
<1>5. CASE /\ ~act[a].closed /\ Submit("staged", a, a) /\ Goto(a, "committing")
  <2>1. PICK r \in ActorStates : Becomes(a, r) /\ r.pc = "committing" /\ Keeps(a, r)
    BY <1>1, <1>2, <1>5, Went DEF PCs
  <2>2. /\ jobs' = Append(jobs, Job("staged", a, a)) /\ reply' = [reply EXCEPT ![a] = "waiting"]
        /\ reply[a] \in {"none", "ok", "failed"}
    BY <1>1, <1>2, <1>3, <1>5 DEF Submit, Ask
  <2>3. /\ reply' \in [Requesters -> Replies] /\ reply'[a] = "waiting"
        /\ \A b \in Actors \ {a} : reply'[b] = reply[b]
    BY <1>2, <2>2 DEF Replies, Requesters
  <2>4. Job("staged", a, a) \in Jobs
    BY <1>2 DEF Job, Jobs
  <2>5. jobs' \in Seq(Jobs)
    BY <1>2, <2>2, <2>4
  <2>6. Asking' /\ worker' \in Workers
    BY <1>1, <1>2, <1>3, <1>5, <2>1, <2>2, SubmitAsk DEF Becomes, Shapes, Stands
  <2>7. HandleOK(a)'
    BY <1>1, <1>2, <1>3, <1>5, <2>1, <2>6, <2>2, <2>3, <2>5 DEF HandleOK, Listed, CallLocked, Used, Becomes, Keeps
  <2>8. ResultOK(a)'
    BY <1>1, <1>2, <1>3, <1>5, <2>1, <2>6, <2>2, <2>3, <2>5 DEF ResultOK, Becomes, Keeps
  <2>9. OwnerOK(a)' /\ ConsumerOK(a)'
    BY <1>1, <1>2, <1>3, <1>5, <2>1, <2>6, <2>2, <2>3, <2>5 DEF OwnerOK, ConsumerOK, Current, Holders, Becomes, Keeps
  <2> QED BY <1>1, <1>2, <1>3, <1>5, <2>1, <2>6, <2>2, <2>3, <2>5, <2>7, <2>8, <2>9, OneMoves DEF Shapes
<1> QED BY <1>1, <1>4, <1>5 DEF ApplyBatch, Ask

LEMMA ContextsStep == ASSUME IInv, Contexts PROVE IInv'
BY RegisterStep, ReadStep, ReadBeginsStep, UnreplayedStep, ReadGivesUpStep, ReadInterruptedStep,
   CommitStep, AbortStep, FinalizeStep, EndedStep, CommitGivesUpStep, AbortInterruptedStep,
   ApplyBatchStep DEF Contexts

LEMMA ReserveBeginsStep == ASSUME IInv, NEW a \in Actors, a \in Reservers, ReserveBegins(a) PROVE IInv'
<1>1. /\ act[a].pc = "begin"
      /\ UNCHANGED <<storage, closer, gate, helper, flock, mutex, worker, committed, slips>>
  BY DEF ReserveBegins
<1>2. /\ HandleOK(a) /\ ResultOK(a) /\ OwnerOK(a) /\ ConsumerOK(a) /\ AskOK(a) /\ CloserOK
      /\ act \in [Actors -> ActorStates] /\ act[a] \in ActorStates /\ Shapes /\ Generations
      /\ Owners /\ Consumers /\ Asking /\ gate \in GateStates /\ storage \in StorageStates
      /\ jobs \in Seq(Jobs) /\ reply \in [Requesters -> Replies] /\ a \in Requesters
      /\ closer \in Closers /\ a # None
  BY Facts DEF Actors
<1>3. closer.on # a /\ reply[a] = "none"
  BY <1>1, <1>2 DEF CloserOK, AskOK, Waits
<1>4. CASE /\ Submit("begin", a, a) /\ Goto(a, "beginWait")
  <2>1. PICK r \in ActorStates : Becomes(a, r) /\ r.pc = "beginWait" /\ Keeps(a, r)
    BY <1>1, <1>2, <1>4, Went DEF PCs
  <2>2. /\ jobs' = Append(jobs, Job("begin", a, a)) /\ reply' = [reply EXCEPT ![a] = "waiting"]
        /\ reply[a] \in {"none", "ok", "failed"}
    BY <1>1, <1>2, <1>3, <1>4 DEF Submit, Ask
  <2>3. /\ reply' \in [Requesters -> Replies] /\ reply'[a] = "waiting"
        /\ \A b \in Actors \ {a} : reply'[b] = reply[b]
    BY <1>2, <2>2 DEF Replies, Requesters
  <2>4. Job("begin", a, a) \in Jobs
    BY <1>2 DEF Job, Jobs
  <2>5. jobs' \in Seq(Jobs)
    BY <1>2, <2>2, <2>4
  <2>6. Asking' /\ worker' \in Workers
    BY <1>1, <1>2, <1>3, <1>4, <2>1, <2>2, SubmitAsk DEF Becomes, Shapes, Stands
  <2>7. HandleOK(a)'
    BY <1>1, <1>2, <1>3, <1>4, <2>1, <2>6, <2>2, <2>3, <2>5 DEF HandleOK, Listed, CallLocked, Used, Becomes, Keeps
  <2>8. ResultOK(a)'
    BY <1>1, <1>2, <1>3, <1>4, <2>1, <2>6, <2>2, <2>3, <2>5 DEF ResultOK, Becomes, Keeps
  <2>9. OwnerOK(a)' /\ ConsumerOK(a)'
    BY <1>1, <1>2, <1>3, <1>4, <2>1, <2>6, <2>2, <2>3, <2>5 DEF OwnerOK, ConsumerOK, Current, Holders, Becomes, Keeps
  <2> QED BY <1>1, <1>2, <1>3, <1>4, <2>1, <2>6, <2>2, <2>3, <2>5, <2>7, <2>8, <2>9, OneMoves DEF Shapes
<1>5. CASE /\ Goto(a, "undo") /\ UNCHANGED <<jobs, reply>>
  <2>1. PICK r \in ActorStates : Becomes(a, r) /\ r.pc = "undo" /\ Keeps(a, r)
    BY <1>1, <1>2, <1>5, Went DEF PCs
  <2>2. Asking' /\ jobs' \in Seq(Jobs) /\ worker' \in Workers /\ reply' \in [Requesters -> Replies]
    BY <1>1, <1>2, <1>3, <1>5, <2>1, FreeMove DEF Becomes
  <2>3. HandleOK(a)'
    BY <1>1, <1>2, <1>3, <1>5, <2>1, <2>2 DEF HandleOK, Listed, CallLocked, Used, Becomes, Keeps
  <2>4. ResultOK(a)'
    BY <1>1, <1>2, <1>3, <1>5, <2>1, <2>2 DEF ResultOK, Becomes, Keeps
  <2>5. OwnerOK(a)' /\ ConsumerOK(a)'
    BY <1>1, <1>2, <1>3, <1>5, <2>1, <2>2 DEF OwnerOK, ConsumerOK, Current, Holders, Becomes, Keeps
  <2> QED BY <1>1, <1>2, <1>3, <1>5, <2>1, <2>2, <2>3, <2>4, <2>5, OneMoves DEF Shapes
<1> QED BY <1>1, <1>4, <1>5 DEF ReserveBegins

LEMMA ReserveAnsweredStep == ASSUME IInv, NEW a \in Actors, a \in Reservers, ReserveAnswered(a) PROVE IInv'
<1>1. /\ act[a].pc = "beginWait" /\ reply' = Answer(a, "none")
      /\ UNCHANGED <<storage, closer, gate, helper, flock, mutex, jobs, worker, committed, slips>>
  BY DEF ReserveAnswered
<1>2. /\ HandleOK(a) /\ ResultOK(a) /\ OwnerOK(a) /\ ConsumerOK(a) /\ AskOK(a) /\ CloserOK
      /\ act \in [Actors -> ActorStates] /\ act[a] \in ActorStates /\ Shapes /\ Generations
      /\ Owners /\ Consumers /\ Asking /\ gate \in GateStates /\ storage \in StorageStates
      /\ jobs \in Seq(Jobs) /\ reply \in [Requesters -> Replies] /\ a \in Requesters
      /\ closer \in Closers /\ a # None
  BY Facts DEF Actors
<1>3. closer.on # a
  BY <1>1, <1>2 DEF CloserOK
<1>4. CASE /\ reply[a] = "ok" /\ Goto(a, "bind")
  <2>1. PICK r \in ActorStates : Becomes(a, r) /\ r.pc = "bind" /\ Keeps(a, r)
    BY <1>1, <1>2, <1>4, Went DEF PCs
  <2>2. reply' = [reply EXCEPT ![a] = "none"] /\ reply[a] \in {"none", "ok", "failed"} /\ jobs' = jobs
    BY <1>1, <1>2, <1>4 DEF Answer
  <2>3. /\ reply' \in [Requesters -> Replies] /\ reply'[a] = "none"
        /\ \A b \in Actors \ {a} : reply'[b] = reply[b]
    BY <1>2, <2>2 DEF Replies, Requesters
  <2>4. Asking' /\ worker' \in Workers
    BY <1>1, <1>2, <1>3, <1>4, <2>1, <2>2, <2>3, QuietAsk DEF Becomes, Shapes
  <2>5. HandleOK(a)'
    BY <1>1, <1>2, <1>3, <1>4, <2>1, <2>4, <2>2, <2>3 DEF HandleOK, Listed, CallLocked, Used, Becomes, Keeps
  <2>6. ResultOK(a)'
    BY <1>1, <1>2, <1>3, <1>4, <2>1, <2>4, <2>2, <2>3 DEF ResultOK, Becomes, Keeps
  <2>7. OwnerOK(a)' /\ ConsumerOK(a)'
    BY <1>1, <1>2, <1>3, <1>4, <2>1, <2>4, <2>2, <2>3 DEF OwnerOK, ConsumerOK, Current, Holders, Becomes, Keeps
  <2> QED BY <1>1, <1>2, <1>3, <1>4, <2>1, <2>4, <2>2, <2>3, <2>5, <2>6, <2>7, OneMoves DEF Shapes
<1>5. CASE /\ reply[a] = "failed" /\ Goto(a, "undo")
  <2>1. PICK r \in ActorStates : Becomes(a, r) /\ r.pc = "undo" /\ Keeps(a, r)
    BY <1>1, <1>2, <1>5, Went DEF PCs
  <2>2. reply' = [reply EXCEPT ![a] = "none"] /\ reply[a] \in {"none", "ok", "failed"} /\ jobs' = jobs
    BY <1>1, <1>2, <1>5 DEF Answer
  <2>3. /\ reply' \in [Requesters -> Replies] /\ reply'[a] = "none"
        /\ \A b \in Actors \ {a} : reply'[b] = reply[b]
    BY <1>2, <2>2 DEF Replies, Requesters
  <2>4. Asking' /\ worker' \in Workers
    BY <1>1, <1>2, <1>3, <1>5, <2>1, <2>2, <2>3, QuietAsk DEF Becomes, Shapes
  <2>5. HandleOK(a)'
    BY <1>1, <1>2, <1>3, <1>5, <2>1, <2>4, <2>2, <2>3 DEF HandleOK, Listed, CallLocked, Used, Becomes, Keeps
  <2>6. ResultOK(a)'
    BY <1>1, <1>2, <1>3, <1>5, <2>1, <2>4, <2>2, <2>3 DEF ResultOK, Becomes, Keeps
  <2>7. OwnerOK(a)' /\ ConsumerOK(a)'
    BY <1>1, <1>2, <1>3, <1>5, <2>1, <2>4, <2>2, <2>3 DEF OwnerOK, ConsumerOK, Current, Holders, Becomes, Keeps
  <2> QED BY <1>1, <1>2, <1>3, <1>5, <2>1, <2>4, <2>2, <2>3, <2>5, <2>6, <2>7, OneMoves DEF Shapes
<1> QED BY <1>1, <1>4, <1>5 DEF ReserveAnswered

LEMMA ReserveGivesUpStep == ASSUME IInv, NEW a \in Actors, a \in Reservers, ReserveGivesUp(a) PROVE IInv'
<1>1. /\ act[a].pc = "beginWait" /\ Goto(a, "undo")
      /\ UNCHANGED <<storage, closer, gate, helper, flock, mutex, committed, slips>>
  BY DEF ReserveGivesUp
<1>2. /\ HandleOK(a) /\ ResultOK(a) /\ OwnerOK(a) /\ ConsumerOK(a) /\ AskOK(a) /\ CloserOK
      /\ act \in [Actors -> ActorStates] /\ act[a] \in ActorStates /\ Shapes /\ Generations
      /\ Owners /\ Consumers /\ Asking /\ gate \in GateStates /\ storage \in StorageStates
      /\ jobs \in Seq(Jobs) /\ reply \in [Requesters -> Replies] /\ a \in Requesters
      /\ closer \in Closers /\ a # None
  BY Facts DEF Actors
<1>3. closer.on # a
  BY <1>1, <1>2 DEF CloserOK
<1>4. CASE /\ CancelBegin(a)
  <2>1. PICK r \in ActorStates : Becomes(a, r) /\ r.pc = "undo" /\ Keeps(a, r)
    BY <1>1, <1>2, <1>4, Went DEF PCs
  <2>2. /\ reply[a] = "waiting" /\ reply' = [reply EXCEPT ![a] = "none"]
    BY <1>4 DEF CancelBegin
  <2>3. /\ reply' \in [Requesters -> Replies] /\ reply'[a] = "none"
        /\ \A b \in Actors \ {a} : reply'[b] = reply[b]
    BY <1>2, <2>2 DEF Replies, Requesters
  <2>4. Asking' /\ jobs' \in Seq(Jobs) /\ worker' \in Workers
    BY <1>1, <1>2, <1>3, <1>4, <2>1, CancelAsk DEF Becomes
  <2>5. HandleOK(a)'
    BY <1>1, <1>2, <1>3, <1>4, <2>1, <2>4, <2>2, <2>3 DEF HandleOK, Listed, CallLocked, Used, Becomes, Keeps
  <2>6. ResultOK(a)'
    BY <1>1, <1>2, <1>3, <1>4, <2>1, <2>4, <2>2, <2>3 DEF ResultOK, Becomes, Keeps
  <2>7. OwnerOK(a)' /\ ConsumerOK(a)'
    BY <1>1, <1>2, <1>3, <1>4, <2>1, <2>4, <2>2, <2>3 DEF OwnerOK, ConsumerOK, Current, Holders, Becomes, Keeps
  <2> QED BY <1>1, <1>2, <1>3, <1>4, <2>1, <2>4, <2>2, <2>3, <2>5, <2>6, <2>7, OneMoves DEF Shapes
<1>5. CASE /\ reply[a] = "ok" /\ jobs' = Fire(jobs, "abandon", a) /\ reply' = Answer(a, "none")
           /\ UNCHANGED worker
  <2>1. PICK r \in ActorStates : Becomes(a, r) /\ r.pc = "undo" /\ Keeps(a, r)
    BY <1>1, <1>2, <1>5, Went DEF PCs
  <2>2. jobs' = jobs \/ \E j \in Jobs : JobOK(j) /\ j.by \notin Actors /\ jobs' = Append(jobs, j)
    BY <1>1, <1>2, <1>5, Fired
  <2>3. reply' = [reply EXCEPT ![a] = "none"] /\ reply[a] \in {"none", "ok", "failed"}
    BY <1>1, <1>2, <1>5 DEF Answer
  <2>4. /\ jobs' \in Seq(Jobs) /\ reply' \in [Requesters -> Replies] /\ reply'[a] = "none"
        /\ \A b \in Actors \ {a} : reply'[b] = reply[b]
    BY <1>1, <1>2, <1>5, <2>2, <2>3, Appended DEF Replies, Requesters
  <2>5. Asking' /\ worker' \in Workers
    BY <1>1, <1>2, <1>3, <1>5, <2>1, <2>2, <2>3, <2>4, QuietAsk DEF Becomes, Shapes
  <2>6. HandleOK(a)'
    BY <1>1, <1>2, <1>3, <1>5, <2>1, <2>5, <2>4 DEF HandleOK, Listed, CallLocked, Used, Becomes, Keeps
  <2>7. ResultOK(a)'
    BY <1>1, <1>2, <1>3, <1>5, <2>1, <2>5, <2>4 DEF ResultOK, Becomes, Keeps
  <2>8. OwnerOK(a)' /\ ConsumerOK(a)'
    BY <1>1, <1>2, <1>3, <1>5, <2>1, <2>5, <2>4 DEF OwnerOK, ConsumerOK, Current, Holders, Becomes, Keeps
  <2> QED BY <1>1, <1>2, <1>3, <1>5, <2>1, <2>5, <2>4, <2>6, <2>7, <2>8, OneMoves DEF Shapes
<1>6. CASE /\ LeaveRunning(a) /\ UNCHANGED jobs
  <2>1. PICK r \in ActorStates : Becomes(a, r) /\ r.pc = "undo" /\ Keeps(a, r)
    BY <1>1, <1>2, <1>6, Went DEF PCs
  <2>2. /\ reply[a] = "running" /\ reply' = [reply EXCEPT ![a] = "none"] /\ jobs' = jobs
    BY <1>1, <1>6 DEF LeaveRunning
  <2>3. /\ reply' \in [Requesters -> Replies] /\ reply'[a] = "none"
        /\ \A b \in Actors \ {a} : reply'[b] = reply[b]
    BY <1>2, <2>2 DEF Replies, Requesters
  <2>4. Asking' /\ worker' \in Workers
    BY <1>1, <1>2, <1>3, <1>6, <2>1, <2>2, LeaveAsk DEF Becomes
  <2>5. HandleOK(a)'
    BY <1>1, <1>2, <1>3, <1>6, <2>1, <2>4, <2>2, <2>3 DEF HandleOK, Listed, CallLocked, Used, Becomes, Keeps
  <2>6. ResultOK(a)'
    BY <1>1, <1>2, <1>3, <1>6, <2>1, <2>4, <2>2, <2>3 DEF ResultOK, Becomes, Keeps
  <2>7. OwnerOK(a)' /\ ConsumerOK(a)'
    BY <1>1, <1>2, <1>3, <1>6, <2>1, <2>4, <2>2, <2>3 DEF OwnerOK, ConsumerOK, Current, Holders, Becomes, Keeps
  <2> QED BY <1>1, <1>2, <1>3, <1>6, <2>1, <2>4, <2>2, <2>3, <2>5, <2>6, <2>7, OneMoves DEF Shapes
<1> QED BY <1>1, <1>4, <1>5, <1>6 DEF ReserveGivesUp

LEMMA BindStep == ASSUME IInv, NEW a \in Actors, a \in Reservers, Bind(a) PROVE IInv'
<1>1. /\ act[a].pc = "bind"
      /\ UNCHANGED <<closer, gate, helper, flock, mutex, jobs, worker, reply, committed, slips>>
  BY DEF Bind
<1>2. /\ HandleOK(a) /\ ResultOK(a) /\ OwnerOK(a) /\ ConsumerOK(a) /\ AskOK(a) /\ CloserOK
      /\ act \in [Actors -> ActorStates] /\ act[a] \in ActorStates /\ Shapes /\ Generations
      /\ Owners /\ Consumers /\ Asking /\ gate \in GateStates /\ storage \in StorageStates
      /\ jobs \in Seq(Jobs) /\ reply \in [Requesters -> Replies] /\ a \in Requesters
      /\ closer \in Closers /\ a # None
  BY Facts DEF Actors
<1>3. closer.on # a /\ reply[a] = "none"
  BY <1>1, <1>2 DEF CloserOK, AskOK, Waits
<1>4. CASE /\ storage' = [storage EXCEPT !.reserved = @ \cup {a}]
           /\ act' = [act EXCEPT ![a] = [@ EXCEPT !.pc = "reserved", !.begun = FALSE, !.handle = "begun"]]
  <2> DEFINE r == [act[a] EXCEPT !.pc = "reserved", !.begun = FALSE, !.handle = "begun"]
  <2>1. act' = [act EXCEPT ![a] = r]
    BY <1>1, <1>2, <1>4
  <2>2. r \in ActorStates /\ r.pc = "reserved" /\ r.handle = "begun" /\ r.closed = act[a].closed
        /\ r.gate = act[a].gate /\ r.result = act[a].result /\ r.lock = act[a].lock
    BY <1>1, <1>2, <1>4 DEF Keeps, ActorStates, PCs, GateStates, StorageStates
  <2> HIDE DEF r
  <2>3. Becomes(a, r)
    BY <1>2, <2>1, <2>2, Changed DEF Becomes
  <2>4. storage' \in StorageStates /\ storage'.opened = storage.opened /\ storage'.opens = storage.opens
        /\ storage'.slot = storage.slot /\ storage'.owner = storage.owner /\ storage'.active = storage.active
    BY <1>1, <1>2, <1>4 DEF StorageStates, ReleaseBoth
  <2>5. Asking' /\ jobs' \in Seq(Jobs) /\ worker' \in Workers /\ reply' \in [Requesters -> Replies]
    BY <1>1, <1>2, <1>3, <1>4, <2>2, <2>3, <2>4, FreeMove DEF Becomes
  <2>6. HandleOK(a)'
    BY <1>1, <1>2, <1>3, <1>4, <2>2, <2>3, <2>4, <2>5 DEF HandleOK, Listed, CallLocked, Used, Becomes, Keeps
  <2>7. ResultOK(a)'
    BY <1>1, <1>2, <1>3, <1>4, <2>2, <2>3, <2>4, <2>5 DEF ResultOK, Becomes, Keeps
  <2>8. OwnerOK(a)' /\ ConsumerOK(a)'
    BY <1>1, <1>2, <1>3, <1>4, <2>2, <2>3, <2>4, <2>5 DEF OwnerOK, ConsumerOK, Current, Holders, Becomes, Keeps
  <2> QED BY <1>1, <1>2, <1>3, <1>4, <2>2, <2>3, <2>4, <2>5, <2>6, <2>7, <2>8, OneMoves DEF Shapes
<1>5. CASE /\ Goto(a, "undo") /\ storage' = storage
  <2>1. PICK r \in ActorStates : Becomes(a, r) /\ r.pc = "undo" /\ Keeps(a, r)
    BY <1>1, <1>2, <1>5, Went DEF PCs
  <2>2. Asking' /\ jobs' \in Seq(Jobs) /\ worker' \in Workers /\ reply' \in [Requesters -> Replies]
    BY <1>1, <1>2, <1>3, <1>5, <2>1, FreeMove DEF Becomes
  <2>3. HandleOK(a)'
    BY <1>1, <1>2, <1>3, <1>5, <2>1, <2>2 DEF HandleOK, Listed, CallLocked, Used, Becomes, Keeps
  <2>4. ResultOK(a)'
    BY <1>1, <1>2, <1>3, <1>5, <2>1, <2>2 DEF ResultOK, Becomes, Keeps
  <2>5. OwnerOK(a)' /\ ConsumerOK(a)'
    BY <1>1, <1>2, <1>3, <1>5, <2>1, <2>2 DEF OwnerOK, ConsumerOK, Current, Holders, Becomes, Keeps
  <2> QED BY <1>1, <1>2, <1>3, <1>5, <2>1, <2>2, <2>3, <2>4, <2>5, OneMoves DEF Shapes
<1> QED BY <1>1, <1>4, <1>5 DEF Bind

LEMMA ReleaseReservedStep == ASSUME IInv, NEW a \in Actors, a \in Reservers, ReleaseReserved(a) PROVE IInv'
<1>1. /\ act[a].pc = "reserved"
      /\ storage' = [storage EXCEPT !.reserved = @ \ {a}]
      /\ UNCHANGED <<closer, gate, helper, flock, mutex, worker, committed, slips>>
  BY DEF ReleaseReserved
<1>2. /\ HandleOK(a) /\ ResultOK(a) /\ OwnerOK(a) /\ ConsumerOK(a) /\ AskOK(a) /\ CloserOK
      /\ act \in [Actors -> ActorStates] /\ act[a] \in ActorStates /\ Shapes /\ Generations
      /\ Owners /\ Consumers /\ Asking /\ gate \in GateStates /\ storage \in StorageStates
      /\ jobs \in Seq(Jobs) /\ reply \in [Requesters -> Replies] /\ a \in Requesters
      /\ closer \in Closers /\ a # None
  BY Facts DEF Actors
<1>3. closer.on # a /\ reply[a] = "none"
  BY <1>1, <1>2 DEF CloserOK, AskOK, Waits
<1>4. CASE /\ Submit("abort", a, a) /\ Goto(a, "ending")
  <2>1. PICK r \in ActorStates : Becomes(a, r) /\ r.pc = "ending" /\ Keeps(a, r)
    BY <1>1, <1>2, <1>4, Went DEF PCs
  <2>2. storage' \in StorageStates /\ storage'.opened = storage.opened /\ storage'.opens = storage.opens
        /\ storage'.slot = storage.slot /\ storage'.owner = storage.owner /\ storage'.active = storage.active
    BY <1>1, <1>2, <1>4 DEF StorageStates, ReleaseBoth
  <2>3. /\ jobs' = Append(jobs, Job("abort", a, a)) /\ reply' = [reply EXCEPT ![a] = "waiting"]
        /\ reply[a] \in {"none", "ok", "failed"}
    BY <1>1, <1>2, <1>3, <1>4 DEF Submit, Ask
  <2>4. /\ reply' \in [Requesters -> Replies] /\ reply'[a] = "waiting"
        /\ \A b \in Actors \ {a} : reply'[b] = reply[b]
    BY <1>2, <2>3 DEF Replies, Requesters
  <2>5. Job("abort", a, a) \in Jobs
    BY <1>2 DEF Job, Jobs
  <2>6. jobs' \in Seq(Jobs)
    BY <1>2, <2>3, <2>5
  <2>7. Asking' /\ worker' \in Workers
    BY <1>1, <1>2, <1>3, <1>4, <2>1, <2>2, <2>3, SubmitAsk DEF Becomes, Shapes, Stands
  <2>8. HandleOK(a)'
    BY <1>1, <1>2, <1>3, <1>4, <2>1, <2>2, <2>7, <2>3, <2>4, <2>6 DEF HandleOK, Listed, CallLocked, Used, Becomes, Keeps
  <2>9. ResultOK(a)'
    BY <1>1, <1>2, <1>3, <1>4, <2>1, <2>2, <2>7, <2>3, <2>4, <2>6 DEF ResultOK, Becomes, Keeps
  <2>10. OwnerOK(a)' /\ ConsumerOK(a)'
    BY <1>1, <1>2, <1>3, <1>4, <2>1, <2>2, <2>7, <2>3, <2>4, <2>6 DEF OwnerOK, ConsumerOK, Current, Holders, Becomes, Keeps
  <2> QED BY <1>1, <1>2, <1>3, <1>4, <2>1, <2>2, <2>7, <2>3, <2>4, <2>6, <2>8, <2>9, <2>10, OneMoves DEF Shapes
<1>5. CASE /\ Fail(a, "release") /\ UNCHANGED <<jobs, reply>>
  <2>1. Fail(a, "release") /\ act \in [Actors -> ActorStates] /\ a \in Actors
    BY <1>1, <1>2, <1>5
  <2>2. "release" \in PCs
    BY DEF PCs
  <2>3. PICK r \in ActorStates :
            /\ Becomes(a, r) /\ r.pc = "release" /\ r.result = "failed" /\ r.closed = TRUE
            /\ r.handle = "none" /\ r.gate = act[a].gate /\ r.lock = act[a].lock
    BY ONLY <2>1, <2>2, Failed
  <2>4. storage' \in StorageStates /\ storage'.opened = storage.opened /\ storage'.opens = storage.opens
        /\ storage'.slot = storage.slot /\ storage'.owner = storage.owner /\ storage'.active = storage.active
    BY <1>1, <1>2, <1>5 DEF StorageStates, ReleaseBoth
  <2>5. Asking' /\ jobs' \in Seq(Jobs) /\ worker' \in Workers /\ reply' \in [Requesters -> Replies]
    BY <1>1, <1>2, <1>3, <1>5, <2>3, <2>4, FreeMove DEF Becomes
  <2>6. HandleOK(a)'
    BY <1>1, <1>2, <1>3, <1>5, <2>3, <2>4, <2>5 DEF HandleOK, Listed, CallLocked, Used, Becomes, Keeps
  <2>7. ResultOK(a)'
    BY <1>1, <1>2, <1>3, <1>5, <2>3, <2>4, <2>5 DEF ResultOK, Becomes, Keeps
  <2>8. OwnerOK(a)' /\ ConsumerOK(a)'
    BY <1>1, <1>2, <1>3, <1>5, <2>3, <2>4, <2>5 DEF OwnerOK, ConsumerOK, Current, Holders, Becomes, Keeps
  <2> QED BY <1>1, <1>2, <1>3, <1>5, <2>3, <2>4, <2>5, <2>6, <2>7, <2>8, OneMoves DEF Shapes
<1> QED BY <1>1, <1>4, <1>5 DEF ReleaseReserved

LEMMA TakeReservedStep == ASSUME IInv, NEW a \in Actors, a \in Reservers, TakeReserved(a) PROVE IInv'
<1>1. /\ act[a].pc = "reserved"
      /\ UNCHANGED <<closer, gate, helper, flock, mutex, worker, reply, committed, slips>>
  BY DEF TakeReserved
<1>2. /\ HandleOK(a) /\ ResultOK(a) /\ OwnerOK(a) /\ ConsumerOK(a) /\ AskOK(a) /\ CloserOK
      /\ act \in [Actors -> ActorStates] /\ act[a] \in ActorStates /\ Shapes /\ Generations
      /\ Owners /\ Consumers /\ Asking /\ gate \in GateStates /\ storage \in StorageStates
      /\ jobs \in Seq(Jobs) /\ reply \in [Requesters -> Replies] /\ a \in Requesters
      /\ closer \in Closers /\ a # None
  BY Facts DEF Actors
<1>3. closer.on # a /\ reply[a] = "none"
  BY <1>1, <1>2 DEF CloserOK, AskOK, Waits
<1>4. CASE /\ jobs' = IF act[a].handle = "begun" THEN Fire(jobs, "drop", a) ELSE jobs
           /\ Fail(a, "done") /\ UNCHANGED storage
  <2>1. Fail(a, "done") /\ act \in [Actors -> ActorStates] /\ a \in Actors
    BY <1>1, <1>2, <1>4
  <2>2. "done" \in PCs
    BY DEF PCs
  <2>3. PICK r \in ActorStates :
            /\ Becomes(a, r) /\ r.pc = "done" /\ r.result = "failed" /\ r.closed = TRUE
            /\ r.handle = "none" /\ r.gate = act[a].gate /\ r.lock = act[a].lock
    BY ONLY <2>1, <2>2, Failed
  <2>4. jobs' = jobs \/ \E j \in Jobs : JobOK(j) /\ j.by \notin Actors /\ jobs' = Append(jobs, j)
    BY <1>1, <1>2, <1>4, Fired
  <2>5. Asking' /\ jobs' \in Seq(Jobs) /\ worker' \in Workers /\ reply' \in [Requesters -> Replies]
    BY <1>1, <1>2, <1>3, <1>4, <2>3, <2>4, FreeMove DEF Becomes
  <2>6. HandleOK(a)'
    BY <1>1, <1>2, <1>3, <1>4, <2>3, <2>5 DEF HandleOK, Listed, CallLocked, Used, Becomes, Keeps
  <2>7. ResultOK(a)'
    BY <1>1, <1>2, <1>3, <1>4, <2>3, <2>5 DEF ResultOK, Becomes, Keeps
  <2>8. OwnerOK(a)' /\ ConsumerOK(a)'
    BY <1>1, <1>2, <1>3, <1>4, <2>3, <2>5 DEF OwnerOK, ConsumerOK, Current, Holders, Becomes, Keeps
  <2> QED BY <1>1, <1>2, <1>3, <1>4, <2>3, <2>5, <2>6, <2>7, <2>8, OneMoves DEF Shapes
<1>5. CASE /\ act[a].handle = "begun" /\ Goto(a, "open") /\ UNCHANGED jobs
           /\ storage' = [storage EXCEPT !.reserved = @ \ {a}, !.active = @ \cup {a}]
  <2>1. PICK r \in ActorStates : Becomes(a, r) /\ r.pc = "open" /\ Keeps(a, r)
    BY <1>1, <1>2, <1>5, Went DEF PCs
  <2>2. storage' \in StorageStates /\ storage'.opened = storage.opened /\ storage'.opens = storage.opens
        /\ storage'.slot = storage.slot /\ storage'.owner = storage.owner
        /\ storage'.active = storage.active \cup {a}
    BY <1>1, <1>2, <1>5 DEF StorageStates, ReleaseBoth
  <2>3. Asking' /\ jobs' \in Seq(Jobs) /\ worker' \in Workers /\ reply' \in [Requesters -> Replies]
    BY <1>1, <1>2, <1>3, <1>5, <2>1, <2>2, FreeMove DEF Becomes
  <2>4. HandleOK(a)'
    BY <1>1, <1>2, <1>3, <1>5, <2>1, <2>2, <2>3 DEF HandleOK, Listed, CallLocked, Used, Becomes, Keeps
  <2>5. ResultOK(a)'
    BY <1>1, <1>2, <1>3, <1>5, <2>1, <2>2, <2>3 DEF ResultOK, Becomes, Keeps
  <2>6. OwnerOK(a)' /\ ConsumerOK(a)'
    BY <1>1, <1>2, <1>3, <1>5, <2>1, <2>2, <2>3 DEF OwnerOK, ConsumerOK, Current, Holders, Becomes, Keeps
  <2> QED BY <1>1, <1>2, <1>3, <1>5, <2>1, <2>2, <2>3, <2>4, <2>5, <2>6, OneMoves DEF Shapes
<1> QED BY <1>1, <1>4, <1>5 DEF TakeReserved

LEMMA ReservationsStep == ASSUME IInv, Reservations PROVE IInv'
BY ReserveBeginsStep, ReserveAnsweredStep, ReserveGivesUpStep, BindStep, ReleaseReservedStep,
   TakeReservedStep DEF Reservations, Actors

-----------------------------------------------------------------------------
(* Close and open                                                          *)

\* A step of close that leaves the callers where they are.
LEMMA CloserMoves ==
    ASSUME IInv, ~storage.opened, \A b \in Actors : act'[b] = act[b],
           act' \in [Actors -> ActorStates], closer' \in Closers, CloserOK',
           closer'.pc = "contexts" => closer.pc = "contexts" /\ closer'.left \subseteq closer.left,
           storage' \in StorageStates, storage'.active = storage.active,
           \/ storage'.slot = storage.slot /\ storage'.owner = storage.owner
           \/ storage'.slot > storage.slot,
           gate' \in GateStates, gate'.consumer \in {gate.consumer, None},
           flock' \in {Free, PeerHas} \cup Descriptors, Generations',
           UNCHANGED <<helper, mutex, worker, committed, slips>>,
           reply' \in [Requesters -> Replies], \A b \in Actors : reply'[b] = reply[b],
           \/ jobs' = jobs
           \/ \E j \in Jobs : JobOK(j) /\ j.by \notin Actors /\ jobs' = Append(jobs, j)
    PROVE  IInv'
<1>1. /\ Shapes /\ Asking /\ Handles /\ Results /\ Owners /\ Consumers
      /\ jobs \in Seq(Jobs) /\ storage \in StorageStates /\ act \in [Actors -> ActorStates]
  BY DEF IInv, Shapes
<1>2. Asking'
  BY <1>1, QuietAsk
<1>3. jobs' \in Seq(Jobs)
  BY <1>1, Appended
<1>4. Shapes'
  BY <1>1, <1>3 DEF Shapes
<1>5. ASSUME NEW b \in Actors
      PROVE  HandleOK(b)' /\ ResultOK(b)' /\ OwnerOK(b)' /\ ConsumerOK(b)'
  <2>1. /\ HandleOK(b) /\ ResultOK(b) /\ OwnerOK(b) /\ ConsumerOK(b) /\ b # None
        /\ act'[b] = act[b] /\ reply'[b] = reply[b]
    BY <1>1 DEF Handles, Results, Owners, Consumers
  <2>2. HandleOK(b)' /\ ResultOK(b)'
    BY <2>1 DEF HandleOK, ResultOK, Listed, CallLocked
  <2>3. act[b].lock \in Nat /\ storage.slot \in Nat /\ storage'.slot \in Nat
    BY <1>1 DEF ActorStates, StorageStates
  <2>4. OwnerOK(b)'
    BY <2>1, <2>3 DEF OwnerOK
  <2>5. ConsumerOK(b)'
    BY <2>1 DEF ConsumerOK, Current
  <2> QED BY <2>2, <2>4, <2>5
<1> QED BY <1>2, <1>4, <1>5 DEF IInv, Handles, Results, Owners, Consumers

\* An abort for close answers no caller.
LEMMA CloseSubmits ==
    ASSUME IInv, NEW a \in Actors, Submit("abort", a, "close")
    PROVE  /\ \E j \in Jobs : JobOK(j) /\ j.by \notin Actors /\ jobs' = Append(jobs, j)
           /\ reply' \in [Requesters -> Replies] /\ \A b \in Actors : reply'[b] = reply[b]
<1> DEFINE j == Job("abort", a, "close")
<1>1. j \in Jobs /\ JobOK(j) /\ j.by \notin Actors
  BY DEF Job, Jobs, JobOK, Requesters
<1>2. /\ jobs' = Append(jobs, j) /\ reply' = [reply EXCEPT !["close"] = "waiting"]
      /\ reply \in [Requesters -> Replies]
  BY DEF Submit, IInv, Shapes
<1> HIDE DEF j
<1>3. reply' \in [Requesters -> Replies] /\ \A b \in Actors : reply'[b] = reply[b]
  BY <1>2 DEF Requesters, Replies
<1> QED BY <1>1, <1>2, <1>3

LEMMA CloseAnswered ==
    ASSUME IInv, reply' = Answer("close", "none")
    PROVE  reply' \in [Requesters -> Replies] /\ \A b \in Actors : reply'[b] = reply[b]
<1>1. reply' = [reply EXCEPT !["close"] = "none"] /\ reply \in [Requesters -> Replies]
  BY DEF Answer, IInv, Shapes
<1> QED BY <1>1 DEF Requesters, Replies

\* While close is on its way the storage is not open.
LEMMA ClosedNow ==
    ASSUME IInv, closer.pc # "open"
    PROVE  /\ ~storage.opened /\ storage \in StorageStates /\ closer \in Closers
           /\ gate \in GateStates /\ act \in [Actors -> ActorStates]
           /\ flock \in {Free, PeerHas} \cup Descriptors /\ reply \in [Requesters -> Replies]
           /\ Generations /\ CloserOK /\ \A b \in Actors : act[b] = act[b]
BY DEF IInv, Shapes, Generations, Handles

\* close ends a context that is at rest.
LEMMA ClosedStep ==
    ASSUME IInv, NEW a \in Actors, closer.pc = "contexts", a \in closer.left, ~act[a].closed,
           ~CallLocked(a), Closed(a), jobs' = jobs,
           reply' \in [Requesters -> Replies], \A b \in Actors : reply'[b] = reply[b],
           UNCHANGED <<gate, helper, mutex, worker, committed, slips>>
    PROVE  IInv'
<1>1. /\ HandleOK(a) /\ ResultOK(a) /\ OwnerOK(a) /\ ConsumerOK(a)
      /\ Shapes /\ Generations /\ Asking /\ Handles /\ Results /\ Owners /\ Consumers
      /\ act \in [Actors -> ActorStates] /\ storage \in StorageStates /\ closer \in Closers
      /\ gate \in GateStates /\ flock \in {Free, PeerHas} \cup Descriptors
      /\ act[a] \in ActorStates
  BY Facts DEF Shapes
<1> DEFINE r == [act[a] EXCEPT !.closed = TRUE, !.handle = "none", !.result = "failed"]
<1>2. act' = [act EXCEPT ![a] = r]
  BY DEF Closed
<1>3. /\ r \in ActorStates /\ r.closed = TRUE /\ r.handle = "none" /\ r.result = "failed"
      /\ r.pc = act[a].pc /\ r.lock = act[a].lock /\ r.gate = act[a].gate
  BY <1>1 DEF ActorStates
<1> HIDE DEF r
<1>4. /\ act' \in [Actors -> ActorStates] /\ act'[a] = r
      /\ \A b \in Actors : b # a => act'[b] = act[b]
  BY <1>1, <1>2, <1>3, Changed
<1>5. a \notin Batches => act[a].pc \in {"open"}
  BY <1>1 DEF HandleOK, Listed, Used, CallLocked
<1>6. /\ storage' \in StorageStates /\ storage'.opened = storage.opened
      /\ storage'.opens = storage.opens /\ storage'.slot = storage.slot
      /\ storage'.active = storage.active
      /\ storage'.owner = storage.owner \/ storage.owner = a
  <2>1. storage' = storage \/ /\ act[a].lock = storage.slot /\ a \notin Batches
                               /\ storage' = [storage EXCEPT !.gateHeld = FALSE, !.owner = None]
    BY DEF Closed, ReleaseBoth
  <2>2. a \notin Batches /\ act[a].lock = storage.slot => storage.owner = a
    BY <1>1, <1>5 DEF OwnerOK, Holders
  <2>3. CASE storage' = storage
    BY <1>1, <2>3
  <2>4. CASE /\ act[a].lock = storage.slot /\ a \notin Batches
             /\ storage' = [storage EXCEPT !.gateHeld = FALSE, !.owner = None]
    BY <1>1, <2>2, <2>4 DEF StorageStates
  <2> QED BY <2>1, <2>3, <2>4
<1>7. flock' \in {Free, PeerHas} \cup Descriptors
  BY <1>1 DEF Closed, ReleaseFile
<1>8. closer' = [closer EXCEPT !.left = @ \ {a}, !.on = None]
  BY DEF Closed
<1>9. closer' \in Closers /\ closer'.pc = closer.pc /\ closer'.left \subseteq closer.left /\ closer'.on = None
  BY <1>1, <1>8 DEF Closers
<1>10. \A b \in Actors : act'[b].pc = act[b].pc
  BY <1>3, <1>4
<1>11. Asking'
  BY <1>1, <1>10, QuietAsk
<1>12. Shapes'
  BY <1>1, <1>4, <1>6, <1>7, <1>9 DEF Shapes
<1>13. Generations'
  BY <1>1, <1>6, <1>9 DEF Generations
<1>14. ASSUME NEW b \in Actors \ {a}
       PROVE  HandleOK(b)' /\ ResultOK(b)' /\ OwnerOK(b)' /\ ConsumerOK(b)'
  <2>1. /\ HandleOK(b) /\ ResultOK(b) /\ OwnerOK(b) /\ ConsumerOK(b)
        /\ act'[b] = act[b] /\ reply'[b] = reply[b]
    BY <1>1, <1>4 DEF Handles, Results, Owners, Consumers
  <2>2. HandleOK(b)' /\ ResultOK(b)'
    BY <1>6, <1>9, <2>1 DEF HandleOK, ResultOK, Listed, CallLocked
  <2>3. OwnerOK(b)'
    BY <1>6, <2>1 DEF OwnerOK
  <2>4. ConsumerOK(b)'
    BY <1>6, <2>1 DEF ConsumerOK, Current
  <2> QED BY <2>2, <2>3, <2>4
<1>15. HandleOK(a)'
  BY <1>1, <1>3, <1>4, <1>5, <1>6, <1>9 DEF HandleOK, Listed, CallLocked, Used
<1>16. ResultOK(a)'
  BY <1>1, <1>3, <1>4 DEF ResultOK, CallLocked
<1>17. OwnerOK(a)'
  <2>1. CASE a \in Batches
    <3>1. storage' = storage
      BY <2>1 DEF Closed
    <3> QED BY <1>1, <1>3, <1>4, <3>1 DEF OwnerOK
  <2>2. CASE a \notin Batches
    BY <1>1, <1>3, <1>4, <1>5, <1>6, <2>2 DEF OwnerOK
  <2> QED BY <2>1, <2>2
<1>18. ConsumerOK(a)'
  BY <1>1, <1>3, <1>4, <1>6 DEF ConsumerOK, Current
<1>19. CloserOK'
  BY <1>9 DEF CloserOK
<1> QED BY <1>11, <1>12, <1>13, <1>14, <1>15, <1>16, <1>17, <1>18, <1>19
        DEF IInv, Handles, Results, Owners, Consumers

LEMMA CloseAbortsStep == ASSUME IInv, NEW a \in Actors, CloseAborts(a) PROVE IInv'
<1>1. /\ closer.pc = "contexts" /\ closer.on = None /\ a \in closer.left
      /\ UNCHANGED <<gate, helper, mutex, worker, committed, slips>>
  BY DEF CloseAborts
<1>2. /\ ~storage.opened /\ storage \in StorageStates /\ closer \in Closers
      /\ gate \in GateStates /\ act \in [Actors -> ActorStates]
      /\ flock \in {Free, PeerHas} \cup Descriptors /\ reply \in [Requesters -> Replies]
      /\ Generations /\ CloserOK
  BY <1>1, ClosedNow
<1>3. HandleOK(a) /\ a # None
  BY Facts
<1>4. CASE /\ closer' = [closer EXCEPT !.left = @ \ {a}]
           /\ UNCHANGED <<storage, flock, act, jobs, reply>>
  <2>1. /\ closer' \in Closers /\ closer'.pc = closer.pc /\ closer'.left \subseteq closer.left
        /\ closer'.on = None
    BY <1>1, <1>2, <1>4 DEF Closers
  <2>2. CloserOK' /\ Generations'
    BY <1>1, <1>2, <1>4, <2>1 DEF CloserOK, Generations
  <2> QED BY <1>1, <1>2, <1>4, <2>1, <2>2, CloserMoves
<1>5. CASE /\ ~act[a].closed /\ ~CallLocked(a) /\ Closed(a) /\ UNCHANGED <<jobs, reply>>
  BY <1>1, <1>2, <1>5, ClosedStep
<1>6. CASE /\ ~act[a].closed /\ ~CallLocked(a) /\ act[a].handle = "begun"
           /\ Submit("abort", a, "close") /\ closer' = [closer EXCEPT !.on = a]
           /\ UNCHANGED <<storage, flock, act>>
  <2>1. /\ closer' \in Closers /\ closer'.pc = closer.pc /\ closer'.left = closer.left
        /\ closer'.on = a
    BY <1>1, <1>2, <1>6 DEF Closers
  <2>2. act[a].pc = "open"
    BY <1>1, <1>3, <1>6 DEF HandleOK, CallLocked, Listed, Used
  <2>3. CloserOK' /\ Generations'
    BY <1>1, <1>2, <1>6, <2>1, <2>2 DEF CloserOK, Generations
  <2>4. /\ \E j \in Jobs : JobOK(j) /\ j.by \notin Actors /\ jobs' = Append(jobs, j)
        /\ reply' \in [Requesters -> Replies] /\ \A b \in Actors : reply'[b] = reply[b]
    BY <1>6, CloseSubmits
  <2> QED BY <1>1, <1>2, <1>6, <2>1, <2>3, <2>4, CloserMoves
<1> QED BY <1>4, <1>5, <1>6 DEF CloseAborts

LEMMA CloseAbortedStep == ASSUME IInv, CloseAborted PROVE IInv'
<1>1. /\ closer.pc = "contexts" /\ closer.on # None /\ Closed(closer.on)
      /\ reply' = Answer("close", "none")
      /\ UNCHANGED <<gate, helper, mutex, jobs, worker, committed, slips>>
  BY DEF CloseAborted
<1>2. CloserOK /\ closer \in Closers
  BY DEF IInv, Handles, Shapes
<1>3. PICK a \in Actors : a = closer.on
  BY <1>1, <1>2 DEF Closers
<1>4. /\ a \in closer.left /\ ~act[a].closed /\ ~CallLocked(a) /\ Closed(a)
  BY <1>1, <1>2, <1>3 DEF CloserOK, CallLocked
<1>5. reply' \in [Requesters -> Replies] /\ \A b \in Actors : reply'[b] = reply[b]
  BY <1>1, CloseAnswered
<1> QED BY <1>1, <1>4, <1>5, ClosedStep

LEMMA CloseLiveStep == ASSUME IInv, CloseLive PROVE IInv'
<1>1. /\ closer.pc = "contexts" /\ closer' = [pc |-> "live", left |-> storage.live, on |-> None]
      /\ UNCHANGED <<storage, gate, helper, flock, mutex, jobs, worker, reply, act, committed, slips>>
  BY DEF CloseLive
<1>2. /\ ~storage.opened /\ storage \in StorageStates /\ closer \in Closers
      /\ gate \in GateStates /\ act \in [Actors -> ActorStates]
      /\ flock \in {Free, PeerHas} \cup Descriptors /\ reply \in [Requesters -> Replies]
      /\ Generations
  BY <1>1, ClosedNow
<1>3. closer' \in Closers /\ closer'.pc = "live" /\ closer'.on = None
  BY <1>1, <1>2 DEF Closers, CloserPcs, StorageStates
<1>4. CloserOK' /\ Generations'
  BY <1>1, <1>2, <1>3 DEF CloserOK, Generations
<1> QED BY <1>1, <1>2, <1>3, <1>4, CloserMoves

LEMMA CloseEndsStep == ASSUME IInv, NEW a \in Actors, CloseEnds(a) PROVE IInv'
<1>1. /\ closer.pc = "live" /\ Submit("abort", a, "close")
      /\ closer' = [closer EXCEPT !.left = @ \ {a}, !.on = None, !.pc = "liveWait"]
      /\ UNCHANGED <<storage, gate, helper, flock, mutex, worker, act, committed, slips>>
  BY DEF CloseEnds
<1>2. /\ ~storage.opened /\ storage \in StorageStates /\ closer \in Closers
      /\ gate \in GateStates /\ act \in [Actors -> ActorStates]
      /\ flock \in {Free, PeerHas} \cup Descriptors
      /\ Generations
  BY <1>1, ClosedNow
<1>3. closer' \in Closers /\ closer'.pc = "liveWait" /\ closer'.on = None
  BY <1>1, <1>2 DEF Closers, CloserPcs
<1>4. CloserOK' /\ Generations'
  BY <1>1, <1>2, <1>3 DEF CloserOK, Generations
<1>5. /\ \E j \in Jobs : JobOK(j) /\ j.by \notin Actors /\ jobs' = Append(jobs, j)
      /\ reply' \in [Requesters -> Replies] /\ \A b \in Actors : reply'[b] = reply[b]
  BY <1>1, CloseSubmits
<1> QED BY <1>1, <1>2, <1>3, <1>4, <1>5, CloserMoves

LEMMA CloseEndedStep == ASSUME IInv, CloseEnded PROVE IInv'
<1>1. /\ closer.pc = "liveWait" /\ closer' = [closer EXCEPT !.pc = "live"]
      /\ reply' = Answer("close", "none")
      /\ UNCHANGED <<storage, gate, helper, flock, mutex, jobs, worker, act, committed, slips>>
  BY DEF CloseEnded
<1>2. /\ ~storage.opened /\ storage \in StorageStates /\ closer \in Closers
      /\ gate \in GateStates /\ act \in [Actors -> ActorStates]
      /\ flock \in {Free, PeerHas} \cup Descriptors
      /\ Generations /\ CloserOK
  BY <1>1, ClosedNow
<1>3. closer' \in Closers /\ closer'.pc = "live" /\ closer'.on = closer.on
  BY <1>1, <1>2 DEF Closers, CloserPcs
<1>4. CloserOK' /\ Generations'
  BY <1>1, <1>2, <1>3 DEF CloserOK, Generations
<1>5. reply' \in [Requesters -> Replies] /\ \A b \in Actors : reply'[b] = reply[b]
  BY <1>1, CloseAnswered
<1> QED BY <1>1, <1>2, <1>3, <1>4, <1>5, CloserMoves

LEMMA CloseSlotStep == ASSUME IInv, CloseSlot PROVE IInv'
<1>1. /\ closer.pc = "live" /\ closer' = [closer EXCEPT !.pc = "slot"]
      /\ storage' = [storage EXCEPT !.slot = @ + 1, !.owner = None]
      /\ UNCHANGED <<gate, helper, flock, mutex, jobs, worker, reply, act, committed, slips>>
  BY DEF CloseSlot
<1>2. /\ ~storage.opened /\ storage \in StorageStates /\ closer \in Closers
      /\ gate \in GateStates /\ act \in [Actors -> ActorStates]
      /\ flock \in {Free, PeerHas} \cup Descriptors /\ reply \in [Requesters -> Replies]
      /\ Generations /\ CloserOK
  BY <1>1, ClosedNow
<1>3. closer' \in Closers /\ closer'.pc = "slot" /\ closer'.on = closer.on
  BY <1>1, <1>2 DEF Closers, CloserPcs
<1>4. /\ storage' \in StorageStates /\ storage'.active = storage.active
      /\ storage'.slot > storage.slot /\ storage'.opened = storage.opened
      /\ storage'.opens = storage.opens
  <2>1. storage.slot \in Nat /\ storage.slot + 1 \in Nat /\ storage.slot + 1 > storage.slot
    BY <1>2 DEF StorageStates
  <2> DEFINE n == storage.slot + 1
  <2>2. storage' = [storage EXCEPT !.slot = n, !.owner = None]
    BY <1>1
  <2> HIDE DEF n
  <2>3. /\ storage' \in StorageStates /\ storage'.active = storage.active
        /\ storage'.slot = n /\ storage'.opened = storage.opened /\ storage'.opens = storage.opens
    BY <1>2, <2>1, <2>2 DEF StorageStates, n
  <2> QED BY <2>1, <2>3 DEF n
<1>5. CloserOK' /\ Generations'
  BY <1>1, <1>2, <1>3, <1>4 DEF CloserOK, Generations
<1> QED BY <1>1, <1>2, <1>3, <1>4, <1>5, CloserMoves

LEMMA StopWorkerStep == ASSUME IInv, StopWorker PROVE IInv'
<1>1. /\ closer.pc = "slot" /\ closer' = [closer EXCEPT !.pc = "joining"]
      /\ storage' = [storage EXCEPT !.stopped = TRUE]
      /\ UNCHANGED <<gate, helper, flock, mutex, jobs, worker, reply, act, committed, slips>>
  BY DEF StopWorker
<1>2. /\ ~storage.opened /\ storage \in StorageStates /\ closer \in Closers
      /\ gate \in GateStates /\ act \in [Actors -> ActorStates]
      /\ flock \in {Free, PeerHas} \cup Descriptors /\ reply \in [Requesters -> Replies]
      /\ Generations /\ CloserOK
  BY <1>1, ClosedNow
<1>3. closer' \in Closers /\ closer'.pc = "joining" /\ closer'.on = closer.on
  BY <1>1, <1>2 DEF Closers, CloserPcs
<1>4. /\ storage' \in StorageStates /\ storage'.active = storage.active
      /\ storage'.slot = storage.slot /\ storage'.owner = storage.owner
      /\ storage'.opened = storage.opened /\ storage'.opens = storage.opens
  BY <1>1, <1>2 DEF StorageStates
<1>5. CloserOK' /\ Generations'
  BY <1>1, <1>2, <1>3, <1>4 DEF CloserOK, Generations
<1> QED BY <1>1, <1>2, <1>3, <1>4, <1>5, CloserMoves

LEMMA FinishCloseStep == ASSUME IInv, FinishClose PROVE IInv'
<1>1. /\ closer.pc = "joining" /\ closer' = [closer EXCEPT !.pc = "closed"]
      /\ gate' = [open |-> FALSE, gen |-> gate.gen + 1, waiting |-> FALSE, consumer |-> None]
      /\ act' = IF gate.consumer = None THEN act ELSE [act EXCEPT ![gate.consumer].gate = "closed"]
      /\ CloseFile(gate.gen, helper[gate.gen] # "none")
      /\ UNCHANGED <<helper, mutex, jobs, worker, reply, committed, slips>>
  BY DEF FinishClose
<1>2. /\ ~storage.opened /\ storage \in StorageStates /\ closer \in Closers
      /\ gate \in GateStates /\ act \in [Actors -> ActorStates]
      /\ flock \in {Free, PeerHas} \cup Descriptors /\ reply \in [Requesters -> Replies]
      /\ Generations /\ CloserOK
  BY <1>1, ClosedNow
<1>3. closer' \in Closers /\ closer'.pc = "closed" /\ closer'.on = closer.on
  BY <1>1, <1>2 DEF Closers, CloserPcs
<1>4. /\ storage' \in StorageStates /\ storage'.active = storage.active
      /\ storage'.slot = storage.slot /\ storage'.owner = storage.owner
      /\ storage'.opened = storage.opened /\ storage'.opens = storage.opens
  <2>1. CASE storage' = [storage EXCEPT !.gateHeld = FALSE]
    BY <1>2, <2>1 DEF StorageStates
  <2>2. CASE storage' = [storage EXCEPT !.gateHeld = FALSE, !.stuck = TRUE]
    BY <1>2, <2>2 DEF StorageStates
  <2> QED BY <2>1, <2>2 DEF FinishClose
<1>5. gate.consumer = None
  BY <1>2 DEF IInv, Consumers, ConsumerOK, Current, GateStates
<1>6. act' = act
  BY <1>1, <1>5
<1>7. gate.gen \in Nat
  BY <1>2 DEF GateStates
<1>8. gate' \in GateStates /\ gate'.consumer = None /\ gate'.gen = gate.gen + 1
  BY <1>1, <1>7 DEF GateStates
<1>9. flock' \in {Free, PeerHas} \cup Descriptors
  BY <1>1, <1>2 DEF CloseFile
<1>10. CloserOK'
  BY <1>1, <1>2, <1>3, <1>6 DEF CloserOK
<1>11. Generations'
  BY <1>1, <1>2, <1>3, <1>4, <1>7, <1>8 DEF Generations
<1> QED BY <1>1, <1>2, <1>3, <1>4, <1>6, <1>8, <1>9, <1>10, <1>11, CloserMoves

LEMMA OpenStep == ASSUME IInv, Open PROVE IInv'
<1>1. /\ closer.pc = "closed" /\ storage.opens < MaxOpens /\ closer' = [closer EXCEPT !.pc = "open"]
      /\ storage' = [storage EXCEPT !.opened = TRUE, !.stopped = FALSE, !.gateHeld = FALSE,
                                    !.opens = @ + 1]
      /\ gate' = [open |-> TRUE, gen |-> gate.gen + 1, waiting |-> FALSE, consumer |-> None]
      /\ UNCHANGED <<helper, flock, mutex, jobs, worker, reply, act, committed, slips>>
  BY DEF Open
<1>2. /\ ~storage.opened /\ storage \in StorageStates /\ closer \in Closers
      /\ gate \in GateStates /\ act \in [Actors -> ActorStates] /\ Generations /\ CloserOK
      /\ Shapes /\ Asking /\ Handles /\ Results /\ Owners /\ Consumers
  BY <1>1, ClosedNow DEF IInv
<1>3. closer' \in Closers /\ closer'.pc = "open" /\ closer'.on = closer.on
  BY <1>1, <1>2 DEF Closers, CloserPcs
<1>4. /\ storage' \in StorageStates /\ storage'.active = storage.active
      /\ storage'.slot = storage.slot /\ storage'.owner = storage.owner
      /\ storage'.opened = TRUE /\ storage'.opens = storage.opens + 1
  <2> DEFINE n == storage.opens + 1
  <2>1. n \in Nat
    BY <1>2 DEF StorageStates
  <2>2. storage' = [storage EXCEPT !.opened = TRUE, !.stopped = FALSE, !.gateHeld = FALSE, !.opens = n]
    BY <1>1
  <2> HIDE DEF n
  <2>3. /\ storage' \in StorageStates /\ storage'.active = storage.active
        /\ storage'.slot = storage.slot /\ storage'.owner = storage.owner
        /\ storage'.opened = TRUE /\ storage'.opens = n
    BY <1>2, <2>1, <2>2 DEF StorageStates
  <2> QED BY <2>3 DEF n
<1>5. gate.gen \in Nat /\ gate.consumer = None
  BY <1>2 DEF GateStates, Consumers, ConsumerOK, Current
<1>6. gate' \in GateStates /\ gate'.consumer = None /\ gate'.gen = gate.gen + 1
  BY <1>1, <1>5 DEF GateStates
<1>7. Generations'
  BY <1>1, <1>2, <1>3, <1>4, <1>5, <1>6 DEF Generations
<1>8. Shapes'
  BY <1>1, <1>2, <1>3, <1>4, <1>6 DEF Shapes
<1>9. Asking'
  BY <1>1, <1>2, QuietAsk
<1>10. CloserOK'
  BY <1>1, <1>2, <1>3 DEF CloserOK
<1>11. ASSUME NEW b \in Actors PROVE HandleOK(b)' /\ ResultOK(b)' /\ OwnerOK(b)' /\ ConsumerOK(b)'
  <2>1. HandleOK(b) /\ ResultOK(b) /\ OwnerOK(b) /\ ConsumerOK(b)
    BY <1>2 DEF Handles, Results, Owners, Consumers
  <2>2. HandleOK(b)' /\ ResultOK(b)'
    BY <1>1, <1>3, <1>4, <2>1 DEF HandleOK, ResultOK, Listed, CallLocked
  <2>3. OwnerOK(b)'
    BY <1>1, <1>4, <2>1 DEF OwnerOK
  <2>4. ConsumerOK(b)'
    BY <1>1, <1>5, <1>6, <2>1 DEF ConsumerOK
  <2> QED BY <2>2, <2>3, <2>4
<1> QED BY <1>7, <1>8, <1>9, <1>10, <1>11 DEF IInv, Handles, Results, Owners, Consumers

\* A context whose slot is reserved never waits for the gate.
Settled == Used \cup {"reserved"}
ReservedOK == \A a \in Actors : a \in storage.reserved => act[a].pc \in Settled

LEMMA StartCloseStep == ASSUME IInv, ReservedOK, StartClose PROVE IInv'
<1>1. /\ closer.pc = "open"
      /\ closer' = [pc |-> "contexts", on |-> None, left |-> {a \in storage.active : ~act[a].closed}]
      /\ storage' = [storage EXCEPT !.opened = FALSE, !.active = {}, !.reserved = {}]
      /\ gate' = [gate EXCEPT !.consumer = None]
      /\ act' = [a \in Actors |->
                    IF a \in storage.reserved THEN [act[a] EXCEPT !.handle = "none"]
                    ELSE IF gate.consumer = a THEN [act[a] EXCEPT !.gate = "closed"] ELSE act[a]]
      /\ UNCHANGED <<helper, flock, mutex, jobs, worker, reply, committed, slips>>
  BY DEF StartClose
<1>2. /\ Shapes /\ Generations /\ Asking /\ Handles /\ Results /\ Owners /\ Consumers
      /\ storage \in StorageStates /\ gate \in GateStates /\ act \in [Actors -> ActorStates]
  BY DEF IInv, Shapes
<1>3. closer' \in Closers /\ closer'.pc = "contexts" /\ closer'.on = None /\ closer'.left \subseteq storage.active
  BY <1>1, <1>2 DEF Closers, CloserPcs, StorageStates
<1>4. /\ storage' \in StorageStates /\ storage'.opened = FALSE /\ storage'.active = {}
      /\ storage'.slot = storage.slot /\ storage'.owner = storage.owner
      /\ storage'.opens = storage.opens
  BY <1>1, <1>2 DEF StorageStates
<1>5. gate' \in GateStates /\ gate'.gen = gate.gen /\ gate'.consumer = None
  BY <1>1, <1>2 DEF GateStates
<1>6. ASSUME NEW b \in Actors
      PROVE  /\ act'[b] \in ActorStates /\ act'[b].pc = act[b].pc /\ act'[b].lock = act[b].lock
             /\ act'[b].closed = act[b].closed /\ act'[b].result = act[b].result
             /\ act'[b].handle \in {act[b].handle, "none"}
             /\ act'[b].gate = IF gate.consumer = b /\ b \notin storage.reserved THEN "closed"
                               ELSE act[b].gate
  <2>1. act[b] \in ActorStates
    BY <1>2
  <2>2. /\ act'[b] = IF b \in storage.reserved THEN [act[b] EXCEPT !.handle = "none"]
                     ELSE IF gate.consumer = b THEN [act[b] EXCEPT !.gate = "closed"] ELSE act[b]
    BY <1>1
  <2> QED BY <2>1, <2>2 DEF ActorStates
<1>7. act' \in [Actors -> ActorStates]
  BY <1>1, <1>6
<1>8. Shapes'
  BY <1>1, <1>2, <1>3, <1>4, <1>5, <1>7 DEF Shapes
<1>9. Generations'
  BY <1>1, <1>2, <1>3, <1>4, <1>5 DEF Generations
<1>10. Asking'
  BY <1>1, <1>2, <1>6, QuietAsk
<1>11. CloserOK'
  BY <1>3 DEF CloserOK
<1>12. ASSUME NEW b \in Actors PROVE HandleOK(b)' /\ ResultOK(b)' /\ OwnerOK(b)' /\ ConsumerOK(b)'
  <2>1. HandleOK(b) /\ ResultOK(b) /\ OwnerOK(b) /\ ConsumerOK(b) /\ b # None
    BY <1>2 DEF Handles, Results, Owners, Consumers
  <2>2. HandleOK(b)'
    BY <1>3, <1>4, <1>6, <2>1 DEF HandleOK, Listed, CallLocked
  <2>3. ResultOK(b)'
    BY <1>1, <1>6, <2>1 DEF ResultOK
  <2>4. OwnerOK(b)'
    BY <1>4, <1>6, <2>1 DEF OwnerOK
  <2>5. gate.consumer = b => b \notin storage.reserved
    BY <2>1 DEF ConsumerOK, ReservedOK, Settled, Used
  <2>6. ConsumerOK(b)'
    BY <1>5, <1>6, <2>1, <2>5 DEF ConsumerOK
  <2> QED BY <2>2, <2>3, <2>4, <2>6
<1> QED BY <1>8, <1>9, <1>10, <1>11, <1>12 DEF IInv, Handles, Results, Owners, Consumers

LEMMA CloseAndOpenStep == ASSUME IInv, ReservedOK, CloseAndOpen PROVE IInv'
BY StartCloseStep, CloseAbortsStep, CloseEndsStep, CloseAbortedStep, CloseLiveStep, CloseEndedStep,
   CloseSlotStep, StopWorkerStep, FinishCloseStep, OpenStep DEF CloseAndOpen
-----------------------------------------------------------------------------
(* The other processes, and nothing                                        *)

LEMMA OthersStep == ASSUME IInv, Peer \/ Outside PROVE IInv'
<1>1. UNCHANGED <<storage, closer, gate, helper, jobs, worker, reply, act, committed, slips>>
  BY DEF Peer, Outside
<1>2. /\ Shapes /\ Generations /\ Asking /\ Handles /\ Results /\ Owners /\ Consumers
      /\ closer.on \in Actors \cup {None}
  BY DEF IInv, Shapes, Closers
<1>3. flock' \in {Free, PeerHas} \cup Descriptors /\ mutex' \in {"free", "us", "peer", "outside"}
  BY <1>2 DEF Shapes, Peer, Outside
<1>4. SlotStays /\ \A b \in Actors : Stays(b)
  BY <1>1 DEF SlotStays, Stays
<1>5. Handles' /\ Owners' /\ Consumers' /\ Generations' /\ Results'
  BY <1>1, <1>2, <1>4, AtRest, ResultsStay
<1>6. Asking'
  BY <1>1, <1>2, QuietAsk
<1>7. Shapes'
  BY <1>1, <1>2, <1>3 DEF Shapes
<1> QED BY <1>5, <1>6, <1>7 DEF IInv

LEMMA StutterStep == ASSUME IInv, UNCHANGED vars PROVE IInv'
<1>1. /\ UNCHANGED <<storage, closer, gate, helper, jobs, worker, reply, act, committed, slips>>
      /\ flock' = flock /\ mutex' = mutex
  BY DEF vars
<1>2. /\ Shapes /\ Generations /\ Asking /\ Handles /\ Results /\ Owners /\ Consumers
      /\ closer.on \in Actors \cup {None}
  BY DEF IInv, Shapes, Closers
<1>3. SlotStays /\ \A b \in Actors : Stays(b)
  BY <1>1 DEF SlotStays, Stays
<1>4. Handles' /\ Owners' /\ Consumers' /\ Generations' /\ Results'
  BY <1>1, <1>2, <1>3, AtRest, ResultsStay
<1>5. Asking'
  BY <1>1, <1>2, QuietAsk
<1>6. Shapes'
  BY <1>1, <1>2 DEF Shapes
<1> QED BY <1>4, <1>5, <1>6 DEF IInv

-----------------------------------------------------------------------------
(* A reserved slot is taken, released or stale, but never begun anew       *)

\* Who is settled stays so, and nothing else joins the reserved slots.
Settles ==
    /\ \A b \in Actors : act[b].pc \in Settled => act'[b].pc \in Settled
    /\ \A b \in storage'.reserved : b \in storage.reserved \/ act'[b].pc \in Settled

LEMMA SettledStays == ASSUME ReservedOK, Settles PROVE ReservedOK'
BY DEF ReservedOK, Settles

\* Setting another mark than the pc moves nobody.
LEMMA Marked ==
    ASSUME act \in [Actors -> ActorStates], storage'.reserved = storage.reserved,
           \/ act' = act
           \/ \E a, v : act' = [act EXCEPT ![a].gate = v]
           \/ \E a, u, v, w : act' = [act EXCEPT ![a] = [@ EXCEPT !.closed = u, !.handle = v, !.result = w]]
    PROVE  Settles
<1>1. \A b \in Actors : act'[b].pc = act[b].pc
  <2>1. CASE act' = act
    BY <2>1
  <2>2. ASSUME NEW a, NEW v, act' = [act EXCEPT ![a].gate = v]
        PROVE  \A b \in Actors : act'[b].pc = act[b].pc
    <3>1. ASSUME NEW b \in Actors PROVE act'[b].pc = act[b].pc
      <4>1. act[b] \in ActorStates /\ act'[b] = IF b = a THEN [act[b] EXCEPT !.gate = v] ELSE act[b]
        BY <2>2
      <4> QED BY <4>1 DEF ActorStates
    <3> QED BY <3>1
  <2>3. ASSUME NEW a, NEW u, NEW v, NEW w,
               act' = [act EXCEPT ![a] = [@ EXCEPT !.closed = u, !.handle = v, !.result = w]]
        PROVE  \A b \in Actors : act'[b].pc = act[b].pc
    <3>1. ASSUME NEW b \in Actors PROVE act'[b].pc = act[b].pc
      <4>1. /\ act[b] \in ActorStates
            /\ act'[b] = IF b = a THEN [act[b] EXCEPT !.closed = u, !.handle = v, !.result = w] ELSE act[b]
        BY <2>3
      <4>2. [act[b] EXCEPT !.closed = u, !.handle = v, !.result = w].pc = act[b].pc
        BY <4>1 DEF ActorStates
      <4> QED BY <4>1, <4>2
    <3> QED BY <3>1
  <2> QED BY <2>1, <2>2, <2>3
<1> QED BY <1>1 DEF Settles

LEMMA GateSettles == ASSUME IInv, Gate PROVE Settles
<1>1. storage \in StorageStates /\ act \in [Actors -> ActorStates] /\ gate \in GateStates
      /\ closer \in Closers
  BY DEF IInv, Shapes
<1>2. ASSUME NEW a \in Descriptors, HelperStarts(a) PROVE Settles
  BY <1>1, <1>2 DEF HelperStarts, Settles, Settled, Used, StorageStates, ActorStates
<1>3. ASSUME NEW a \in Descriptors, HelperLocks(a) PROVE Settles
  BY <1>1, <1>3 DEF HelperLocks, Settles, Settled, Used, StorageStates, ActorStates
<1>4. ASSUME NEW a \in Descriptors, HelperDelivers(a) PROVE Settles
  BY <1>1, <1>4, Marked DEF HelperDelivers
<1>5. ASSUME NEW a \in Actors, Attach(a) PROVE Settles
  BY <1>1, <1>5 DEF Attach, Settles, Settled, Used, StorageStates, ActorStates, Goto
<1>6. ASSUME NEW a \in Actors, GateLands(a) PROVE Settles
  BY <1>1, <1>6 DEF GateLands, Settles, Settled, Used, StorageStates, ActorStates
<1>7. ASSUME NEW a \in Actors, GateTimesOut(a) PROVE Settles
  BY <1>1, <1>7 DEF GateTimesOut, Settles, Settled, Used, StorageStates, ActorStates
<1>8. ASSUME NEW a \in Actors, GateCancelled(a) PROVE Settles
  BY <1>1, <1>8 DEF GateCancelled, Settles, Settled, Used, StorageStates, ActorStates
<1>9. ASSUME NEW a \in Actors, GateInterrupted(a) PROVE Settles
  BY <1>1, <1>9 DEF GateInterrupted, Settles, Settled, Used, StorageStates, ActorStates
<1>10. ASSUME NEW a \in Actors, FlagGate(a) PROVE Settles
  BY <1>1, <1>10 DEF FlagGate, Settles, Settled, Used, StorageStates, ActorStates, Goto
<1> QED BY <1>2, <1>3, <1>4, <1>5, <1>6, <1>7, <1>8, <1>9, <1>10 DEF Gate

LEMMA SlotSettles == ASSUME IInv, Slot PROVE Settles
<1>1. storage \in StorageStates /\ act \in [Actors -> ActorStates] /\ gate \in GateStates
      /\ closer \in Closers
  BY DEF IInv, Shapes
<1>2. ASSUME NEW a \in Actors, Start(a) PROVE Settles
  BY <1>1, <1>2 DEF Start, Settles, Settled, Used, StorageStates, ActorStates, Goto
<1>3. ASSUME NEW a \in Actors, TakeSlot(a) PROVE Settles
  BY <1>1, <1>3 DEF TakeSlot, Settles, Settled, Used, StorageStates, ActorStates
<1>4. ASSUME NEW a \in Actors, SlotGivesUp(a) PROVE Settles
  BY <1>1, <1>4 DEF SlotGivesUp, Settles, Settled, Used, StorageStates, ActorStates, Fail
<1>5. ASSUME NEW a \in Actors, Undo(a) PROVE Settles
  <2>1. storage'.reserved = storage.reserved
    BY <1>1, <1>5 DEF Undo, StorageStates, ReleaseBoth
  <2>2. act' = [act EXCEPT ![a] = [@ EXCEPT !.pc = "done", !.result = "failed", !.begun = FALSE, !.closed = TRUE]]
    BY <1>5 DEF Undo
  <2> QED BY <1>1, <2>1, <2>2 DEF Settles, Settled, Used, ActorStates
<1>6. ASSUME NEW a \in Actors, Release(a) PROVE Settles
  BY <1>1, <1>6 DEF Release, Settles, Settled, Used, StorageStates, ActorStates, Goto
<1>7. ASSUME NEW a \in Actors, ReleaseUnlocks(a) PROVE Settles
  BY <1>1, <1>7 DEF ReleaseUnlocks, Settles, Settled, Used, StorageStates, ActorStates, Goto
<1> QED BY <1>2, <1>3, <1>4, <1>5, <1>6, <1>7 DEF Slot

LEMMA ContextsSettles == ASSUME IInv, Contexts PROVE Settles
<1>1. storage \in StorageStates /\ act \in [Actors -> ActorStates] /\ gate \in GateStates
      /\ closer \in Closers
  BY DEF IInv, Shapes
<1>2. ASSUME NEW a \in Actors, Register(a) PROVE Settles
  BY <1>1, <1>2 DEF Register, Settles, Settled, Used, StorageStates, ActorStates, Goto
<1>3. ASSUME NEW a \in Actors, Read(a) PROVE Settles
  BY <1>1, <1>3 DEF Read, Settles, Settled, Used, StorageStates, ActorStates
<1>4. ASSUME NEW a \in Actors, ReadBegins(a) PROVE Settles
  <2>1. storage' = storage
    BY <1>4 DEF ReadBegins
  <2>2. CASE act' = [act EXCEPT ![a] = [@ EXCEPT !.pc = "open", !.handle = "begun"]]
    BY <1>1, <2>1, <2>2 DEF Settles, Settled, Used, ActorStates
  <2>3. ASSUME NEW p \in Used, act' = [act EXCEPT ![a].pc = p] PROVE Settles
    BY <1>1, <2>1, <2>3 DEF Settles, Settled, Used, ActorStates
  <2> QED BY <1>4, <2>2, <2>3 DEF ReadBegins, Goto, Used
<1>5. ASSUME NEW a \in Actors, Unreplayed(a) PROVE Settles
  BY <1>1, <1>5 DEF Unreplayed, Settles, Settled, Used, StorageStates, ActorStates, Goto
<1>6. ASSUME NEW a \in Actors, ReadGivesUp(a) PROVE Settles
  BY <1>1, <1>6 DEF ReadGivesUp, Settles, Settled, Used, StorageStates, ActorStates, Goto
<1>7. ASSUME NEW a \in Actors, ReadInterrupted(a) PROVE Settles
  BY <1>1, <1>7 DEF ReadInterrupted, Settles, Settled, Used, StorageStates, ActorStates, Goto
<1>8. ASSUME NEW a \in Actors, Commit(a) PROVE Settles
  <2>1. storage' = storage
    BY <1>8 DEF Commit
  <2>2. CASE act' = [act EXCEPT ![a] = [@ EXCEPT !.pc = "done", !.result = "failed"]]
    BY <1>1, <2>1, <2>2 DEF Settles, Settled, Used, ActorStates
  <2>3. ASSUME NEW p \in Used, act' = [act EXCEPT ![a].pc = p] PROVE Settles
    BY <1>1, <2>1, <2>3 DEF Settles, Settled, Used, ActorStates
  <2> QED BY <1>8, <2>2, <2>3 DEF Commit, Ask, Goto, Used
<1>9. ASSUME NEW a \in Actors, Abort(a) PROVE Settles
  <2>1. storage' = storage
    BY <1>9 DEF Abort
  <2>2. CASE act' = [act EXCEPT ![a] = [@ EXCEPT !.pc = "release", !.result = "failed",
                                              !.closed = TRUE, !.handle = "none"]]
    BY <1>1, <2>1, <2>2 DEF Settles, Settled, Used, ActorStates
  <2>3. ASSUME NEW p \in Used, act' = [act EXCEPT ![a].pc = p] PROVE Settles
    BY <1>1, <2>1, <2>3 DEF Settles, Settled, Used, ActorStates
  <2> QED BY <1>9, <2>2, <2>3 DEF Abort, Ask, Fail, Goto, Used
<1>10. ASSUME NEW a \in Actors, Finalize(a) PROVE Settles
  BY <1>1, <1>10 DEF Finalize, Settles, Settled, Used, StorageStates, ActorStates, Fail
<1>11. ASSUME NEW a \in Actors, Ended(a) PROVE Settles
  BY <1>1, <1>11 DEF Ended, Settles, Settled, Used, StorageStates, ActorStates
<1>12. ASSUME NEW a \in Actors, CommitGivesUp(a) PROVE Settles
  BY <1>1, <1>12 DEF CommitGivesUp, Settles, Settled, Used, StorageStates, ActorStates, Fail
<1>13. ASSUME NEW a \in Actors, AbortInterrupted(a) PROVE Settles
  BY <1>1, <1>13 DEF AbortInterrupted, Settles, Settled, Used, StorageStates, ActorStates, Fail
<1>14. ASSUME NEW a \in Actors, ApplyBatch(a) PROVE Settles
  BY <1>1, <1>14 DEF ApplyBatch, Settles, Settled, Used, StorageStates, ActorStates, Goto, Ask
<1> QED BY <1>2, <1>3, <1>4, <1>5, <1>6, <1>7, <1>8, <1>9, <1>10, <1>11, <1>12, <1>13, <1>14 DEF Contexts

LEMMA ReservationsSettles == ASSUME IInv, Reservations PROVE Settles
<1>1. storage \in StorageStates /\ act \in [Actors -> ActorStates] /\ gate \in GateStates
      /\ closer \in Closers
  BY DEF IInv, Shapes
<1>2. ASSUME NEW a \in Reservers, ReserveBegins(a) PROVE Settles
  BY <1>1, <1>2 DEF ReserveBegins, Settles, Settled, Used, StorageStates, ActorStates, Goto, Actors
<1>3. ASSUME NEW a \in Reservers, ReserveAnswered(a) PROVE Settles
  BY <1>1, <1>3 DEF ReserveAnswered, Settles, Settled, Used, StorageStates, ActorStates, Goto, Actors
<1>4. ASSUME NEW a \in Reservers, ReserveGivesUp(a) PROVE Settles
  BY <1>1, <1>4 DEF ReserveGivesUp, Settles, Settled, Used, StorageStates, ActorStates, Goto, Actors
<1>5. ASSUME NEW a \in Reservers, Bind(a) PROVE Settles
  <2>1. CASE /\ storage' = [storage EXCEPT !.reserved = @ \cup {a}]
             /\ act' = [act EXCEPT ![a] = [@ EXCEPT !.pc = "reserved", !.begun = FALSE,
                                                    !.handle = "begun"]]
    BY <1>1, <2>1 DEF Settles, Settled, Used, StorageStates, ActorStates, Actors
  <2>2. CASE storage' = storage /\ act' = [act EXCEPT ![a].pc = "undo"]
    BY <1>1, <1>5, <2>2 DEF Bind, Settles, Settled, Used, StorageStates, ActorStates, Actors
  <2> QED BY <1>5, <2>1, <2>2 DEF Bind, Goto
<1>6. ASSUME NEW a \in Reservers, ReleaseReserved(a) PROVE Settles
  <2>1. storage'.reserved \subseteq storage.reserved
    BY <1>1, <1>6 DEF ReleaseReserved, StorageStates
  <2>2. CASE act' = [act EXCEPT ![a] = [@ EXCEPT !.pc = "release", !.result = "failed",
                                              !.closed = TRUE, !.handle = "none"]]
    BY <1>1, <2>1, <2>2 DEF Settles, Settled, Used, ActorStates, Actors
  <2>3. CASE act' = [act EXCEPT ![a].pc = "ending"]
    BY <1>1, <2>1, <2>3 DEF Settles, Settled, Used, ActorStates, Actors
  <2> QED BY <1>6, <2>2, <2>3 DEF ReleaseReserved, Fail, Goto
<1>7. ASSUME NEW a \in Reservers, TakeReserved(a) PROVE Settles
  <2>1. storage' = storage \/ storage' = [storage EXCEPT !.reserved = @ \ {a}, !.active = @ \cup {a}]
    BY <1>7 DEF TakeReserved
  <2>2. storage'.reserved \subseteq storage.reserved
    <3>1. CASE storage' = [storage EXCEPT !.reserved = @ \ {a}, !.active = @ \cup {a}]
      <4>1. storage'.reserved = storage.reserved \ {a}
        BY <1>1, <3>1 DEF StorageStates
      <4> QED BY <4>1
    <3> QED BY <2>1, <3>1
  <2>3. CASE Fail(a, "done")
    BY <1>1, <2>2, <2>3 DEF Settles, Settled, Used, ActorStates, Fail
  <2>4. CASE Goto(a, "open")
    BY <1>1, <2>2, <2>4 DEF Settles, Settled, Used, ActorStates, Goto
  <2> QED BY <1>7, <2>3, <2>4 DEF TakeReserved
<1> QED BY <1>2, <1>3, <1>4, <1>5, <1>6, <1>7 DEF Reservations

LEMMA CloseAndOpenSettles == ASSUME IInv, CloseAndOpen PROVE Settles
<1>1. storage \in StorageStates /\ act \in [Actors -> ActorStates] /\ gate \in GateStates
      /\ closer \in Closers
  BY DEF IInv, Shapes
<1>2. CASE StartClose
  BY <1>1, <1>2 DEF StartClose, Settles, Settled, Used, StorageStates, ActorStates
<1>3. ASSUME NEW a \in Actors, CloseAborts(a) PROVE Settles
  <2>1. storage'.reserved = storage.reserved
    <3>1. storage' = storage \/ storage' = [storage EXCEPT !.gateHeld = FALSE, !.owner = None]
      BY <1>3 DEF CloseAborts, Closed, ReleaseBoth
    <3> QED BY <1>1, <3>1 DEF StorageStates
  <2>2. act' = act \/ act' = [act EXCEPT ![a] = [@ EXCEPT !.closed = TRUE, !.handle = "none", !.result = "failed"]]
    BY <1>3 DEF CloseAborts, Closed
  <2> QED BY <1>1, <2>1, <2>2, Marked
<1>4. ASSUME NEW a \in Actors, CloseEnds(a) PROVE Settles
  BY <1>1, <1>4 DEF CloseEnds, Settles, Settled, Used, StorageStates, ActorStates
<1>5. CASE CloseAborted
  <2>1. storage'.reserved = storage.reserved
    BY <1>1, <1>5 DEF CloseAborted, Closed, ReleaseBoth, StorageStates
  <2> DEFINE c == closer.on
  <2>2. act' = [act EXCEPT ![c] = [@ EXCEPT !.closed = TRUE, !.handle = "none", !.result = "failed"]]
    BY <1>5 DEF CloseAborted, Closed
  <2> HIDE DEF c
  <2> QED BY <1>1, <2>1, <2>2, Marked
<1>6. CASE CloseLive
  BY <1>1, <1>6 DEF CloseLive, Settles, Settled, Used, StorageStates, ActorStates
<1>7. CASE CloseEnded
  BY <1>1, <1>7 DEF CloseEnded, Settles, Settled, Used, StorageStates, ActorStates
<1>8. CASE CloseSlot
  BY <1>1, <1>8 DEF CloseSlot, Settles, Settled, Used, StorageStates, ActorStates
<1>9. CASE StopWorker
  BY <1>1, <1>9 DEF StopWorker, Settles, Settled, Used, StorageStates, ActorStates
<1>10. CASE FinishClose
  <2>1. storage'.reserved = storage.reserved
    BY <1>1, <1>10 DEF FinishClose, StorageStates
  <2> DEFINE c == gate.consumer
  <2>2. act' = act \/ act' = [act EXCEPT ![c].gate = "closed"]
    BY <1>10 DEF FinishClose
  <2> HIDE DEF c
  <2> QED BY <1>1, <2>1, <2>2, Marked
<1>11. CASE Open
  BY <1>1, <1>11 DEF Open, Settles, Settled, Used, StorageStates, ActorStates
<1> QED BY <1>2, <1>3, <1>4, <1>5, <1>6, <1>7, <1>8, <1>9, <1>10, <1>11 DEF CloseAndOpen

LEMMA WorkerSettles == ASSUME IInv, Worker PROVE Settles
<1>1. storage \in StorageStates /\ act \in [Actors -> ActorStates]
  BY DEF IInv, Shapes
<1>2. storage'.reserved = storage.reserved
  BY <1>1 DEF Worker, PickBegin, EnvBegin, RegisterLive, Land, SetResult, DropAbandoned,
              ApplyAndCommit, RunEnd, EndLive, StorageStates
<1>3. act' = act \/ \E a, v : act' = [act EXCEPT ![a].begun = v]
  BY DEF Worker, PickBegin, EnvBegin, RegisterLive, Land, SetResult, DropAbandoned,
         ApplyAndCommit, RunEnd
<1>4. \A b \in Actors : act'[b].pc = act[b].pc
  BY <1>1, <1>3 DEF ActorStates
<1> QED BY <1>2, <1>4 DEF Settles

LEMMA NextStep == ASSUME IInv, ReservedOK, [Next]_vars PROVE IInv' /\ ReservedOK'
<1>1. IInv'
  BY WorkerStep, GateStep, SlotStep, ContextsStep, ReservationsStep, CloseAndOpenStep, OthersStep,
     StutterStep DEF Next, Terminating
<1>2. Settles \/ UNCHANGED <<storage, act>>
  <2>1. CASE Peer \/ Outside \/ Terminating \/ UNCHANGED vars
    BY <2>1 DEF Peer, Outside, Terminating, vars
  <2> QED BY <2>1, WorkerSettles, GateSettles, SlotSettles, ContextsSettles, ReservationsSettles,
             CloseAndOpenSettles DEF Next
<1>3. ReservedOK'
  BY <1>2, SettledStays DEF ReservedOK
<1> QED BY <1>1, <1>3

LEMMA InitHolds == ASSUME Init PROVE IInv /\ ReservedOK
<1>1. /\ storage = [opened |-> TRUE, gateHeld |-> FALSE, slot |-> 0, owner |-> None, active |-> {},
                    reserved |-> {}, live |-> {}, stopped |-> FALSE, stuck |-> FALSE, opens |-> 1]
      /\ closer = [pc |-> "open", left |-> {}, on |-> None]
      /\ gate = [open |-> TRUE, gen |-> 1, waiting |-> FALSE, consumer |-> None]
      /\ jobs = <<>> /\ worker = [pc |-> "idle", job |-> None]
      /\ committed = {} /\ slips = {}
  BY DEF Init, NoJob
<1>2. /\ act \in [Actors -> ActorStates] /\ reply \in [Requesters -> Replies]
      /\ helper \in [Descriptors -> Helpers]
  BY DEF Init, ActorStates, PCs, Replies, Helpers
<1>3. \A a \in Actors : /\ act[a].pc = "idle" /\ act[a].lock = 0 /\ act[a].gate = "none"
                        /\ act[a].handle = "none" /\ act[a].closed = FALSE
                        /\ act[a].result = "none" /\ reply[a] = "none" /\ a # None
  BY DEF Init, Requesters
<1>4. Shapes
  <2>1. storage \in StorageStates /\ gate \in GateStates
    BY <1>1 DEF StorageStates, GateStates
  <2>2. closer \in Closers /\ worker \in Workers
    BY <1>1 DEF Closers, CloserPcs, Workers, WorkerPcs
  <2>3. /\ flock \in {Free, PeerHas} \cup Descriptors /\ mutex \in {"free", "us", "peer", "outside"}
        /\ jobs \in Seq(Jobs)
    BY DEF Init
  <2> QED BY <1>1, <1>2, <2>1, <2>2, <2>3 DEF Shapes
<1>5. Generations
  BY <1>1 DEF Generations
<1>6. Asking
  BY <1>1, <1>3 DEF Asking, JobsOK, WorkerOK, AskOK, AtWorker
<1>7. Handles
  BY <1>1, <1>3 DEF Handles, CloserOK, HandleOK, Listed, CallLocked
<1>8. Results
  BY <1>1, <1>3 DEF Results, ResultOK
<1>9. Owners
  BY <1>1, <1>3 DEF Owners, OwnerOK, Holders
<1>10. Consumers
  BY <1>1, <1>3 DEF Consumers, ConsumerOK
<1>11. ReservedOK
  BY <1>1 DEF ReservedOK
<1> QED BY <1>4, <1>5, <1>6, <1>7, <1>8, <1>9, <1>10, <1>11 DEF IInv

\* The invariant of the two theorems.
LEMMA InvariantHolds == Spec => [](IInv /\ ReservedOK)
<1>1. Init => IInv /\ ReservedOK
  BY InitHolds
<1>2. IInv /\ ReservedOK /\ [Next]_vars => (IInv /\ ReservedOK)'
  BY NextStep
<1> QED BY <1>1, <1>2, PTL DEF Spec
-----------------------------------------------------------------------------
\* The variables keep their shapes, and a caller is attached to the gate's wait exactly while
\* it waits there and neither the lock nor close has come: WriterGate._attach, _detach and
\* _serve never leave a consumer behind that would swallow the lock of the next.
THEOREM TypeCorrect == Spec => []TypeOK
<1>1. IInv => TypeOK
  <2> SUFFICES ASSUME IInv PROVE TypeOK
    OBVIOUS
  <2>1. Shapes /\ Consumers
    BY DEF IInv
  <2>2. \A i \in DOMAIN jobs : jobs[i] \in Jobs
    BY <2>1 DEF Shapes
  <2>3. closer.left \subseteq Actors /\ closer.on \in Actors \cup {None}
    BY <2>1 DEF Shapes, Closers
  <2>4. gate \in [open : BOOLEAN, gen : Nat, waiting : BOOLEAN, consumer : Actors \cup {None}]
    BY <2>1 DEF Shapes, GateStates
  <2> QED BY <2>1, <2>2, <2>3, <2>4 DEF TypeOK, Shapes, Consumers, ConsumerOK, Replies, Helpers
<1> QED BY <1>1, InvariantHolds, PTL

\* commit(), a batch and a reserved slot's end report success exactly when LMDB committed the
\* writes, whatever timeouts, interrupts, cancellations, close or another process do in
\* between: a commit that was given up never runs, and one that runs is waited out
\* (WriterThread.run_staged and _left, LMDBStorage._commit_pending).
THEOREM OutcomeCorrect == Spec => []OutcomeTrue
<1>1. IInv => OutcomeTrue
  BY DEF IInv, Results, ResultOK, OutcomeTrue
<1> QED BY <1>1, InvariantHolds, PTL
=============================================================================
