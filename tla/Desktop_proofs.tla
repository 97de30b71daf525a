--------------------------- MODULE Desktop_proofs ---------------------------
(***************************************************************************)
(* What the crate gives the desktop application: the Verus engine, the     *)
(* state machine of a miner lane, and the detection of the hardware.       *)
(* Three systems side by side, none of which reads another's variables;    *)
(* each is proved for every value of its constants.                        *)
(***************************************************************************)
EXTENDS VerusEngine, MinerState, Hardware, SequenceTheorems, FiniteSetTheorems,
        WellFoundedInduction, TLAPS

-----------------------------------------------------------------------------
(***************************************************************************)
(* The Verus engine (verus.rs): a worker that sees its own generation      *)
(* hashes the values in force, and link_down speaks of the connection it   *)
(* is read for.                                                            *)
(***************************************************************************)

\* Every shared value of the steps below keeps its type, and so does every worker.
LEMMA NoJobIsJob == NoJob \in Job
  BY EngineAssumption DEF Job, NoJob

LEMMA InitType == Init => TypeOK
<1> SUFFICES ASSUME Init PROVE TypeOK
  OBVIOUS
<1> USE EngineAssumption, NoJobIsJob
<1>1. [pc |-> "check", moved |-> TRUE, movedSince |-> FALSE, job |-> NoJob, e1 |-> NoNonce,
       target |-> AnyHash, header |-> [job |-> NoJob, e1 |-> NoNonce], ctr |-> 0] \in WorkerState
  BY DEF WorkerState, NoNonce, AnyHash
<1>2. worker \in [Worker -> WorkerState]
  BY <1>1 DEF Init
<1> QED
  <2>1. /\ job \in Job /\ target \in 0..MaxRetarget /\ extranonce1 \in 0..MaxSession
        /\ queued \in 0..MaxQueue /\ session \in 0..MaxSession /\ jobs \in 0..MaxJobs
        /\ retargets \in 0..MaxRetarget
    BY DEF Init, NoNonce, AnyHash
  <2>2. /\ shutdown \in BOOLEAN /\ paused \in BOOLEAN /\ linkDown \in BOOLEAN
        /\ answered \in BOOLEAN /\ calm \in BOOLEAN
        /\ stratum = "top" /\ socket = "none" /\ reader = "off"
    BY DEF Init
  <2> QED
    BY <1>2, <2>1, <2>2 DEF TypeOK

\* The steps of the adapter, the pool, the stratum thread and the reader leave the workers
\* alone (Bump apart) and move within their types.
LEMMA TypeShared ==
  ASSUME TypeOK,
         Stop \/ PauseOrResume \/ PoolCalms \/ PoolGoes \/ Stratum \/ ConnectFails \/ Reader
  PROVE  TypeOK'
<1> USE EngineAssumption
<1>1. CASE Stop
  BY <1>1 DEF TypeOK, Stop, pool
<1>13. CASE PoolCalms
  BY <1>13 DEF TypeOK, PoolCalms, engine
<1>14. CASE PoolGoes
  BY <1>14 DEF TypeOK, PoolGoes, engine, pool
<1>11. CASE PauseOrResume
  BY <1>11 DEF TypeOK, PauseOrResume, pool
<1>2. CASE StratumEnds \/ ConnectFails \/ Handshake \/ HandshakeFails
  BY <1>2 DEF TypeOK, StratumEnds, ConnectFails, Handshake, HandshakeFails, engine, pool
<1>12. CASE CheckLink \/ RecvTimeout
  BY <1>12 DEF TypeOK, CheckLink, RecvTimeout, engine, pool
<1>3. CASE Connect
  <2>1. session' \in 0..MaxSession /\ jobs' \in 0..MaxJobs /\ retargets' \in 0..MaxRetarget
    BY <1>3 DEF TypeOK, Connect
  <2>2. answered' \in BOOLEAN /\ linkDown' \in BOOLEAN /\ socket' = "open"
        /\ stratum' = "handshake"
    BY <1>3 DEF Connect
  <2>3. UNCHANGED <<shutdown, paused, job, target, extranonce1, queued, reader, worker, calm>>
    BY <1>3 DEF Connect
  <2> QED
    BY <2>1, <2>2, <2>3 DEF TypeOK
<1>4. CASE SubmitShare \/ SubmitFails
  BY <1>4 DEF TypeOK, SubmitShare, SubmitFails, pool
<1>5. CASE Shut \/ Join
  BY <1>5 DEF TypeOK, Shut, Join, engine, pool
<1>6. ASSUME NEW b \in BOOLEAN, ReadSubscribed(b)
      PROVE  TypeOK'
  BY <1>6 DEF TypeOK, ReadSubscribed, Hears
<1>7. ASSUME NEW b \in BOOLEAN, ReadNotify(b)
      PROVE  TypeOK'
  BY <1>7 DEF TypeOK, ReadNotify, Hears, Job
<1>8. CASE ReadSetTarget
  BY <1>8 DEF TypeOK, ReadSetTarget, Hears
<1>9. CASE Bump
  <2> DEFINE Moved(w) == [worker[w] EXCEPT !.moved = TRUE,
                                           !.movedSince = worker[w].pc \in Loading]
  <2>1. ASSUME NEW w \in Worker
        PROVE  Moved(w) \in WorkerState
    <3>1. worker[w] \in WorkerState
      BY DEF TypeOK
    <3>2. (worker[w].pc \in Loading) \in BOOLEAN
      OBVIOUS
    <3> QED
      BY <3>1, <3>2 DEF WorkerState
  <2>2. /\ worker' = [w \in Worker |-> Moved(w)] /\ reader' = "read"
        /\ UNCHANGED <<engine, stratum, socket, pool>>
    BY <1>9 DEF Bump
  <2>3. worker' \in [Worker -> WorkerState]
    BY <2>1, <2>2
  <2> HIDE DEF Moved
  <2> QED
    BY <2>2, <2>3 DEF TypeOK, engine, pool
<1>10. CASE ReadEof \/ ReadAfterStop \/ ReaderEnds
  <2>1. CASE ReadEof
    BY <2>1 DEF TypeOK, ReadEof, engine, pool
  <2>2. CASE ReadAfterStop
    BY <2>2 DEF TypeOK, ReadAfterStop, engine, pool
  <2>3. CASE ReaderEnds
    BY <2>3 DEF TypeOK, ReaderEnds, engine, pool
  <2> QED
    BY <1>10, <2>1, <2>2, <2>3
<1> QED
  BY <1>1, <1>2, <1>3, <1>4, <1>5, <1>6, <1>7, <1>8, <1>9, <1>10, <1>11, <1>12, <1>13, <1>14
  DEF Stratum, Reader

\* Taking up what was read, and forgetting it, are operations on a worker's locals.
LEMMA TakeUpType ==
  ASSUME NEW v \in WorkerState
  PROVE  TakeUp(v) \in WorkerState
<1>1. [job |-> v.job, e1 |-> v.e1] \in [job : Job, e1 : 0..MaxSession]
      /\ v.movedSince \in BOOLEAN /\ 0 \in 0..(Space - 1)
  BY EngineAssumption DEF WorkerState
<1> QED
  BY <1>1 DEF TakeUp, WorkerState

LEMMA ForgetType ==
  ASSUME NEW v \in WorkerState
  PROVE  Forget(v) \in WorkerState
<1>1. 0 \in 0..MaxSession
  BY EngineAssumption
<1> QED
  BY <1>1, NoJobIsJob DEF Forget, WorkerState, NoNonce

\* A worker's step changes its own record only, within its type, and at most the queue.
LEMMA TypeWork ==
  ASSUME TypeOK, NEW w \in Worker, Work(w)
  PROVE  TypeOK'
<1> USE EngineAssumption
<1>0. worker[w] \in WorkerState
  BY DEF TypeOK
<1>1. CASE WorkerEnds(w) \/ KeepJob(w) \/ LoadGen(w) \/ LoadJob(w) \/ LoadExtranonce(w)
  BY <1>0, <1>1 DEF TypeOK, WorkerEnds, KeepJob, LoadGen, LoadJob, LoadExtranonce, Others,
                    pool, WorkerState
<1>2. CASE LoadTarget(w)
  <2> DEFINE v == [worker[w] EXCEPT !.target = target]
             u == Forget(IF Usable(v) THEN TakeUp(v) ELSE [v EXCEPT !.pc = "check"])
  <2>1. v \in WorkerState
    BY <1>0 DEF TypeOK, WorkerState
  <2> HIDE DEF v
  <2>2. TakeUp(v) \in WorkerState
    BY <2>1, TakeUpType
  <2>3. [v EXCEPT !.pc = "check"] \in WorkerState
    BY <2>1 DEF WorkerState
  <2>5. u \in WorkerState
    <3> DEFINE t == IF Usable(v) THEN TakeUp(v) ELSE [v EXCEPT !.pc = "check"]
    <3>1. t \in WorkerState
      BY <2>2, <2>3
    <3> HIDE DEF t
    <3>2. Forget(t) \in WorkerState
      BY <3>1, ForgetType
    <3> QED
      BY <3>2 DEF t
  <2>4. worker' = [worker EXCEPT ![w] = u] /\ UNCHANGED <<Others, queued>>
    BY <1>2 DEF LoadTarget, v
  <2> HIDE DEF u
  <2> QED
    BY <2>4, <2>5 DEF TypeOK, Others, pool
<1>3. CASE Hash(w) \/ HashFinds(w)
  <2>1. NextChunk(worker[w].ctr) \in 0..(Space - 1)
    BY <1>0 DEF NextChunk, WorkerState
  <2> QED
    BY <1>0, <1>3, <2>1 DEF TypeOK, Hash, HashFinds, Others, pool, WorkerState
<1> QED
  BY <1>1, <1>2, <1>3 DEF Work

LEMMA TypeStep == TypeOK /\ [Next]_vars => TypeOK'
<1> SUFFICES ASSUME TypeOK, [Next]_vars PROVE TypeOK'
  OBVIOUS
<1>1. CASE UNCHANGED vars
  BY <1>1 DEF TypeOK, vars, engine, pool
<1> QED
  BY <1>1, TypeShared, TypeWork DEF Next

\* Type correctness: the engine's fields, the threads' places and the workers' locals.
THEOREM TypeCorrect == Spec => []TypeOK
  BY InitType, TypeStep, PTL DEF Spec

----------------------------------------------------------------------------

\* A session has a reader, and link_down tells whether it has ended.
LEMMA ReaderStep ==
  ASSUME ReaderInv, LinkDownIsOurs, Next
  PROVE  ReaderInv' /\ LinkDownIsOurs'
<1>1. CASE Stop \/ PauseOrResume \/ PoolCalms \/ PoolGoes
  BY <1>1 DEF ReaderInv, LinkDownIsOurs, Connected, Stop, PauseOrResume, PoolCalms, PoolGoes,
              engine, pool
<1>2. CASE StratumEnds \/ Connect \/ ConnectFails
  BY <1>2 DEF ReaderInv, LinkDownIsOurs, Connected, StratumEnds, Connect, ConnectFails, engine
<1>3. CASE Handshake \/ HandshakeFails
  BY <1>3 DEF ReaderInv, LinkDownIsOurs, Connected, Handshake, HandshakeFails, engine
<1>4. CASE CheckLink \/ RecvTimeout \/ SubmitShare \/ SubmitFails
  BY <1>4 DEF ReaderInv, LinkDownIsOurs, Connected, CheckLink, RecvTimeout, SubmitShare,
              SubmitFails, engine
<1>5. CASE Shut \/ Join
  BY <1>5 DEF ReaderInv, LinkDownIsOurs, Connected, Shut, Join, engine
<1>6. ASSUME NEW b \in BOOLEAN, ReadSubscribed(b) \/ ReadNotify(b)
      PROVE  ReaderInv' /\ LinkDownIsOurs'
  BY <1>6 DEF ReaderInv, LinkDownIsOurs, Connected, ReadSubscribed, ReadNotify, Hears
<1>7. CASE ReadSetTarget \/ Bump
  <2>1. UNCHANGED <<stratum, linkDown>> /\ reader \in {"read", "bump"}
        /\ reader' \in {"read", "bump"}
    BY <1>7 DEF ReadSetTarget, Bump, Hears, engine
  <2> QED
    BY <2>1 DEF ReaderInv, LinkDownIsOurs, Connected
<1>8. CASE ReadEof \/ ReadAfterStop \/ ReaderEnds
  BY <1>8 DEF ReaderInv, LinkDownIsOurs, Connected, ReadEof, ReadAfterStop, ReaderEnds, engine
<1>9. ASSUME NEW w \in Worker, Work(w)
      PROVE  ReaderInv' /\ LinkDownIsOurs'
  <2>1. UNCHANGED <<stratum, reader, linkDown>>
    BY <1>9 DEF Work, WorkerEnds, KeepJob, LoadGen, LoadJob, LoadExtranonce, LoadTarget, Hash,
                HashFinds, Others
  <2> QED
    BY <2>1 DEF ReaderInv, LinkDownIsOurs, Connected
<1>10. CASE Stopped /\ UNCHANGED vars
  BY <1>10 DEF ReaderInv, LinkDownIsOurs, Connected, vars, engine
<1> QED
  BY <1>1, <1>2, <1>3, <1>4, <1>5, <1>6, <1>7, <1>8, <1>9, <1>10 DEF Next, Stratum, Reader

\* A step that leaves the workers and the three values alone, and is not the end of a
\* store, leaves every snapshot as good as it was.
LEMMA SnapshotsKept ==
  ASSUME CaughtUp, LoadInv, UNCHANGED <<worker, job, target, extranonce1>>,
         reader' # "bump" => reader # "bump"
  PROVE  CaughtUp' /\ LoadInv'
  BY DEF CaughtUp, LoadInv, Loading

\* A store makes every snapshot provisional until the bump.
LEMMA SnapshotsProvisional ==
  ASSUME LoadInv, UNCHANGED worker, reader' = "bump"
  PROVE  CaughtUp' /\ LoadInv'
  BY DEF CaughtUp, LoadInv, Loading

\* What the other threads do: only the reader's stores touch the values, and each of them
\* leaves the reader about to bump.
LEMMA SnapshotShared ==
  ASSUME TypeOK, ReaderInv, CaughtUp, LoadInv,
         Stop \/ PauseOrResume \/ PoolCalms \/ PoolGoes \/ Stratum \/ ConnectFails \/ Reader
  PROVE  CaughtUp' /\ LoadInv'
<1>1. CASE Stop \/ PauseOrResume \/ PoolCalms \/ PoolGoes
  <2>1. UNCHANGED <<worker, job, target, extranonce1, reader>>
    BY <1>1 DEF Stop, PauseOrResume, PoolCalms, PoolGoes, engine
  <2> QED
    BY <2>1, SnapshotsKept
<1>2. CASE Stratum \/ ConnectFails
  <2>1. UNCHANGED <<worker, job, target, extranonce1>>
    BY <1>2 DEF Stratum, ConnectFails, StratumEnds, Connect, Handshake, HandshakeFails,
                CheckLink, RecvTimeout, SubmitShare, SubmitFails, Shut, Join, engine
  <2>2. reader' # "bump" => reader # "bump"
    BY <1>2 DEF Stratum, ConnectFails, StratumEnds, Connect, Handshake, HandshakeFails,
                CheckLink, RecvTimeout, SubmitShare, SubmitFails, Shut, Join, ReaderInv
  <2> QED
    BY <2>1, <2>2, SnapshotsKept
<1>3. ASSUME NEW b \in BOOLEAN, ReadSubscribed(b)
      PROVE  CaughtUp' /\ LoadInv'
  <2>1. UNCHANGED <<worker, job, target>>
    BY <1>3 DEF ReadSubscribed
  <2>2. reader' = "bump" \/ UNCHANGED <<extranonce1, reader>>
    BY <1>3 DEF ReadSubscribed
  <2> QED
    BY <2>1, <2>2, SnapshotsKept, SnapshotsProvisional
<1>4. ASSUME NEW b \in BOOLEAN, ReadSetTarget \/ ReadNotify(b)
      PROVE  CaughtUp' /\ LoadInv'
  BY <1>4, SnapshotsProvisional DEF ReadSetTarget, ReadNotify
<1>5. CASE Bump
  <2>1. ASSUME NEW w \in Worker
        PROVE  /\ worker'[w].moved /\ worker'[w].pc = worker[w].pc
               /\ worker'[w].pc \in Loading => worker'[w].movedSince
    <3>1. worker[w] \in WorkerState
      BY DEF TypeOK
    <3> QED
      BY <1>5, <3>1 DEF Bump, WorkerState
  <2> QED
    BY <2>1 DEF CaughtUp, LoadInv
<1>6. CASE ReadEof \/ ReadAfterStop \/ ReaderEnds
  <2>1. UNCHANGED <<worker, job, target, extranonce1>> /\ reader # "bump"
    BY <1>6 DEF ReadEof, ReadAfterStop, ReaderEnds, engine
  <2> QED
    BY <2>1, SnapshotsKept
<1> QED
  BY <1>1, <1>2, <1>3, <1>4, <1>5, <1>6, TRUE \in BOOLEAN DEF Reader

\* What CaughtUp and LoadInv say of one worker's locals.
Caught(v) ==
  ~v.moved /\ reader # "bump" /\ v.pc \in {"check", "hash"} =>
    v.header = [job |-> job, e1 |-> extranonce1] /\ v.target = target

Loads(v) ==
  v.pc \in Loading =>
    /\ v.moved
    /\ ~v.movedSince /\ reader # "bump" =>
         /\ v.pc # "job" => v.job = job
         /\ v.pc = "target" => v.e1 = extranonce1

\* A worker that acts changes its own locals and leaves the others' snapshots as they are.
LEMMA OneWorkerActs ==
  ASSUME TypeOK, CaughtUp, LoadInv, UNCHANGED Others,
         NEW w \in Worker, NEW u, worker' = [worker EXCEPT ![w] = u], Caught(u), Loads(u)
  PROVE  CaughtUp' /\ LoadInv'
<1>1. UNCHANGED <<job, target, extranonce1, reader>>
  BY DEF Others
<1>2. ASSUME NEW x \in Worker
      PROVE  worker'[x] = IF x = w THEN u ELSE worker[x]
  BY DEF TypeOK
<1>3. ASSUME NEW x \in Worker
      PROVE  Caught(worker'[x]) /\ Loads(worker'[x])
  <2>1. CASE x = w
    BY <1>2, <2>1
  <2>2. CASE x # w
    BY <1>2, <2>2 DEF CaughtUp, LoadInv, Caught, Loads
  <2> QED
    BY <2>1, <2>2
<1>4. CaughtUp'
  BY <1>1, <1>3 DEF CaughtUp, Caught
<1>5. LoadInv'
  BY <1>1, <1>3 DEF LoadInv, Loads
<1> QED
  BY <1>4, <1>5

\* A worker that reads lock by lock has, at its match, the values in force or a gen that
\* has moved, so what it takes up is good.
LEMMA SnapshotWork ==
  ASSUME TypeOK, CaughtUp, LoadInv, NEW w \in Worker, Work(w)
  PROVE  CaughtUp' /\ LoadInv'
<1> DEFINE v == worker[w]
<1>1. v \in WorkerState /\ Caught(v) /\ Loads(v)
  BY DEF TypeOK, CaughtUp, LoadInv, Caught, Loads
<1>2. UNCHANGED Others
  BY DEF Work, WorkerEnds, KeepJob, LoadGen, LoadJob, LoadExtranonce, LoadTarget, Hash,
         HashFinds
<1>3. CASE WorkerEnds(w)
  <2> DEFINE u == [v EXCEPT !.pc = "done"]
  <2>1. worker' = [worker EXCEPT ![w] = u]
    BY <1>3 DEF WorkerEnds
  <2>2. Caught(u) /\ Loads(u)
    BY <1>1 DEF Caught, Loads, Loading, WorkerState
  <2> QED
    BY <1>2, <2>1, <2>2, OneWorkerActs
<1>4. CASE KeepJob(w)
  <2> DEFINE u == [v EXCEPT !.pc = "hash"]
  <2>1. worker' = [worker EXCEPT ![w] = u] /\ v.pc = "check"
    BY <1>4 DEF KeepJob
  <2>2. Caught(u) /\ Loads(u)
    BY <1>1, <2>1 DEF Caught, Loads, Loading, WorkerState
  <2> QED
    BY <1>2, <2>1, <2>2, OneWorkerActs
<1>5. CASE LoadGen(w)
  <2> DEFINE u == [v EXCEPT !.movedSince = FALSE, !.pc = "job"]
  <2>1. worker' = [worker EXCEPT ![w] = u] /\ v.moved
    BY <1>5 DEF LoadGen
  <2>2. Caught(u) /\ Loads(u)
    BY <1>1, <2>1 DEF Caught, Loads, Loading, WorkerState
  <2> QED
    BY <1>2, <2>1, <2>2, OneWorkerActs
<1>6. CASE LoadJob(w)
  <2> DEFINE u == [v EXCEPT !.job = job, !.pc = "extranonce"]
  <2>1. worker' = [worker EXCEPT ![w] = u] /\ v.pc = "job"
    BY <1>6 DEF LoadJob
  <2>2. Caught(u) /\ Loads(u)
    BY <1>1, <2>1 DEF Caught, Loads, Loading, WorkerState
  <2> QED
    BY <1>2, <2>1, <2>2, OneWorkerActs
<1>7. CASE LoadExtranonce(w)
  <2> DEFINE u == [v EXCEPT !.e1 = extranonce1, !.pc = "target"]
  <2>1. worker' = [worker EXCEPT ![w] = u] /\ v.pc = "extranonce"
    BY <1>7 DEF LoadExtranonce
  <2>2. Caught(u) /\ Loads(u)
    BY <1>1, <2>1 DEF Caught, Loads, Loading, WorkerState
  <2> QED
    BY <1>2, <2>1, <2>2, OneWorkerActs
<1>8. CASE LoadTarget(w)
  <2> DEFINE t == [v EXCEPT !.target = target]
  <2>0. t \in WorkerState /\ v.pc = "target" /\ t.target = target /\ t.moved
        /\ (~t.movedSince /\ reader # "bump" => t.job = job /\ t.e1 = extranonce1)
    BY <1>1, <1>8 DEF LoadTarget, Loads, Loading, WorkerState, TypeOK
  <2>1. worker' = [worker EXCEPT ![w] =
                     Forget(IF Usable(t) THEN TakeUp(t) ELSE [t EXCEPT !.pc = "check"])]
    BY <1>8 DEF LoadTarget
  <2> HIDE DEF t
  <2>2. CASE Usable(t)
    <3> DEFINE u == Forget(TakeUp(t))
    <3>1. /\ u.pc = "hash" /\ u.moved = t.movedSince /\ u.target = target
          /\ u.header = [job |-> t.job, e1 |-> t.e1]
      BY <2>0 DEF Forget, TakeUp, WorkerState
    <3>2. Caught(u) /\ Loads(u)
      BY <2>0, <3>1 DEF Caught, Loads, Loading
    <3>3. worker' = [worker EXCEPT ![w] = u]
      BY <2>1, <2>2
    <3> HIDE DEF u
    <3> QED
      BY <1>2, <3>2, <3>3, OneWorkerActs
  <2>3. CASE ~Usable(t)
    <3> DEFINE u == Forget([t EXCEPT !.pc = "check"])
    <3>1. u.pc = "check" /\ u.moved
      BY <2>0 DEF Forget, WorkerState
    <3>2. Caught(u) /\ Loads(u)
      BY <3>1 DEF Caught, Loads, Loading
    <3>3. worker' = [worker EXCEPT ![w] = u]
      BY <2>1, <2>3
    <3> HIDE DEF u
    <3> QED
      BY <1>2, <3>2, <3>3, OneWorkerActs
  <2> QED
    BY <2>2, <2>3
<1>9. CASE Hash(w) \/ HashFinds(w)
  <2> DEFINE u == [v EXCEPT !.ctr = NextChunk(v.ctr), !.pc = "check"]
  <2>1. worker' = [worker EXCEPT ![w] = u] /\ v.pc = "hash"
    BY <1>9 DEF Hash, HashFinds
  <2>2. Caught(u) /\ Loads(u)
    BY <1>1, <2>1 DEF Caught, Loads, Loading, WorkerState
  <2> QED
    BY <1>2, <2>1, <2>2, OneWorkerActs
<1> QED
  BY <1>3, <1>4, <1>5, <1>6, <1>7, <1>8, <1>9 DEF Work

----------------------------------------------------------------------------

LEMMA InvInit == Init => IInv
<1> SUFFICES ASSUME Init PROVE IInv
  OBVIOUS
<1>1. ASSUME NEW w \in Worker
      PROVE  worker[w].moved /\ worker[w].pc = "check"
  BY DEF Init
<1>2. stratum = "top" /\ reader = "off"
  BY DEF Init
<1> QED
  BY <1>1, <1>2, InitType
  DEF IInv, CaughtUp, LoadInv, LinkDownIsOurs, ReaderInv, Connected, Loading

LEMMA InvStep == IInv /\ [Next]_vars => IInv'
<1> SUFFICES ASSUME IInv, [Next]_vars PROVE IInv'
  OBVIOUS
<1>1. TypeOK'
  BY TypeStep DEF IInv
<1>2. CASE UNCHANGED vars
  <2>1. UNCHANGED <<worker, job, target, extranonce1, reader, stratum, linkDown>>
    BY <1>2 DEF vars, engine
  <2>2. CaughtUp' /\ LoadInv'
    BY <2>1, SnapshotsKept DEF IInv
  <2>3. ReaderInv' /\ LinkDownIsOurs'
    BY <2>1 DEF IInv, ReaderInv, LinkDownIsOurs, Connected
  <2> QED
    BY <1>1, <2>2, <2>3 DEF IInv
<1>3. CASE Next /\ ~UNCHANGED vars
  <2>1. ReaderInv' /\ LinkDownIsOurs'
    BY <1>3, ReaderStep DEF IInv
  <2>2. CaughtUp' /\ LoadInv'
    BY <1>3, SnapshotShared, SnapshotWork DEF IInv, Next
  <2> QED
    BY <1>1, <2>1, <2>2 DEF IInv
<1> QED
  BY <1>2, <1>3

\* The inductive invariant.
THEOREM Invariance == Spec => []IInv
  BY InvInit, InvStep, PTL DEF Spec

\* A worker that sees its own generation hashes the job, extranonce and target in force,
\* for any number of workers and any pool.
THEOREM SnapshotsAreCurrent == Spec => []CaughtUp
<1>1. IInv => CaughtUp
  BY DEF IInv
<1> QED
  BY <1>1, Invariance, PTL

\* In a session link_down is set if and only if the session's own reader has ended.
THEOREM LinkDownIsTrue == Spec => []LinkDownIsOurs
<1>1. IInv => LinkDownIsOurs
  BY DEF IInv
<1> QED
  BY <1>1, Invariance, PTL

-----------------------------------------------------------------------------
(***************************************************************************)
(* The lanes (state.rs): what a lane says of its process is true, though   *)
(* the reports are read late.                                              *)
(***************************************************************************)

(* What a process may report, and its stop. *)
Reports ==
  {InWith("Warm", p) : p \in Phases}
    \cup {In(k) : k \in {"Hashing", "FirstShare", "PoolUnreachable",
                         "Exited", "MinerExitedRetrying"}}
    \cup {InWith("BackoffExhausted", e) : e \in {"miner_crashed", "stop_failed"}}

Procs == {"none", "live", "held", "parked", "stuck"}
Works == {"Hashing", "FirstShare"}

\* q tells an exit from position k on.
ExitFrom(q, k) == \E j \in k..Len(q) : q[j].kind \in Exits
WouldNotDie    == InWith("BackoffExhausted", "stop_failed")

\* A lane in state s, with process p and unread reports q.
Quiet(s, p) == s.at = "idle" /\ s.why \in {"fresh", "user_stopped"} => p \in {"none", "parked"}
Real(s, p, q) == s = Mining => p = "live" \/ ExitFrom(q, 1)

\* A report of an exit is true, and nothing is said after the last one; a process
\* that would not die has nothing else to say.
ExitsAreTrue(p, q) == ExitFrom(q, 1) => p \in {"none", "parked", "stuck"}
StuckSays(s, p, q) == p = "stuck" => q = <<WouldNotDie>> \/ (s # Stopping /\ q = <<>>)
\* A stop's own report is never read in a state that has no use for it.
StopIsHeard(s, q) ==
  (\E k \in 1..Len(q) : q[k].kind = "Exited") => s.at \in {"stopping", "error", "idle"}
\* Word of hashing is followed by the exit, when there has been one.
WorkIsFollowed(p, q) ==
  \A k \in 1..Len(q) : q[k].kind \in Works => p \in {"live", "held"} \/ ExitFrom(q, k + 1)
HeldIsPaused(s, p) == p = "held" => s.at \in {"paused", "stopping"}
PausedIsReal(s, p, q) == s.at = "paused" => p \in {"live", "held", "parked"} \/ ExitFrom(q, 1)

LaneOK(s, p, q) ==
  /\ Quiet(s, p) /\ Real(s, p, q)
  /\ ExitsAreTrue(p, q) /\ StuckSays(s, p, q) /\ StopIsHeard(s, q)
  /\ WorkIsFollowed(p, q) /\ HeldIsPaused(s, p) /\ PausedIsReal(s, p, q)

LaneTypes ==
  /\ st \in [Lanes -> States] /\ proc \in [Lanes -> Procs]
  /\ inbox \in [Lanes -> Seq(Reports)] /\ \A l \in Lanes : Len(inbox[l]) <= MaxInbox

LanesInv == LaneTypes /\ \A l \in Lanes : LaneOK(st[l], proc[l], inbox[l])

----------------------------------------------------------------------------
(* States and queues. *)

LEMMA StateFacts ==
  ASSUME NEW s \in States
  PROVE  /\ s # None
         /\ s.at \in {"idle", "starting", "mining", "stopping", "paused", "error"}
         /\ s.at = "mining" <=> s = Mining
         /\ s.at = "stopping" <=> s = Stopping
  BY DEF States, Idle, Starting, Mining, Stopping, Paused, Error, None

\* The state after an input, legal or not.
After(s, i) == IF Transition(s, i) = None THEN s ELSE Transition(s, i)

LEMMA ReportFacts ==
  ASSUME NEW i \in Reports
  PROVE  /\ i.kind \in {"Warm", "PoolUnreachable"} \cup Works \cup Exits
         /\ i.kind = "Warm" => i.arg \in Phases
         /\ i.kind = "BackoffExhausted" => i.arg \in ErrorKinds
  BY DEF Reports, In, InWith, Works, Exits, ErrorKinds

\* The rows of the table for the reports of a process.
LEMMA ReportTable ==
  ASSUME NEW s \in States, NEW i \in Reports
  PROVE  \/ s.at = "starting" /\ i.kind = "Warm" /\ After(s, i) \in {s, Starting(i.arg)}
         \/ s.at = "starting" /\ i.kind \in Works /\ After(s, i) = Mining
         \/ s.at = "stopping" /\ i.kind = "Exited" /\ After(s, i) = Idle("user_stopped")
         \/ /\ s.at \in {"stopping", "starting", "mining", "paused"}
            /\ i.kind = "BackoffExhausted" /\ After(s, i) = Error(i.arg)
         \/ /\ s.at \in {"starting", "mining", "paused"}
            /\ i.kind = "MinerExitedRetrying" /\ After(s, i) = Starting("spawning")
         \/ /\ s.at \in {"starting", "mining"}
            /\ i.kind = "PoolUnreachable" /\ After(s, i) = Error("pool_unreachable")
         \/ /\ After(s, i) = s
            /\ ~(s.at = "starting" /\ i.kind \in Works)
            /\ ~(s.at = "stopping" /\ i.kind = "Exited")
            /\ ~(s.at \in {"stopping", "starting", "mining", "paused"} /\ i.kind = "BackoffExhausted")
            /\ ~(s.at \in {"starting", "mining", "paused"} /\ i.kind = "MinerExitedRetrying")
  <1>1. /\ s # None /\ Mining # None /\ \A x : Starting(x) # None /\ Error(x) # None /\ Idle(x) # None
    BY StateFacts DEF None, Mining, Starting, Error, Idle
  <1>2. s.at \in {"idle", "starting", "mining", "stopping", "paused", "error"}
    BY StateFacts
  <1>3. i.kind \in {"Warm", "PoolUnreachable", "Hashing", "FirstShare",
                    "Exited", "MinerExitedRetrying", "BackoffExhausted"}
    BY ReportFacts DEF Works, Exits
  <1>4. CASE i.kind = "Warm"
    BY <1>1, <1>2, <1>4, Zenon DEF After, Transition, Table, Works
  <1>5. CASE i.kind \in {"Hashing", "FirstShare"}
    BY <1>1, <1>2, <1>5 DEF After, Transition, Table, Works
  <1>6. CASE i.kind = "PoolUnreachable"
    BY <1>1, <1>2, <1>6 DEF After, Transition, Table, Works
  <1>7. CASE i.kind = "Exited"
    BY <1>1, <1>2, <1>7 DEF After, Transition, Table, Works
  <1>8. CASE i.kind = "MinerExitedRetrying"
    BY <1>1, <1>2, <1>8 DEF After, Transition, Table, Works
  <1>9. CASE i.kind = "BackoffExhausted"
    BY <1>1, <1>2, <1>9 DEF After, Transition, Table, Works
  <1> QED BY <1>3, <1>4, <1>5, <1>6, <1>7, <1>8, <1>9

\* What reading a report may lead to, and from where.
LEMMA AfterReport ==
  ASSUME NEW s \in States, NEW i \in Reports
  PROVE  /\ After(s, i) \in States
         /\ After(s, i).at = "idle" =>
               After(s, i) = s \/ (s = Stopping /\ i.kind = "Exited")
         /\ After(s, i) = Mining =>
               \/ s = Mining /\ i.kind \notin {"MinerExitedRetrying", "BackoffExhausted"}
               \/ s.at = "starting" /\ i.kind \in Works
         /\ After(s, i).at = "paused" =>
               After(s, i) = s /\ i.kind \notin {"MinerExitedRetrying", "BackoffExhausted"}
         /\ s.at \in {"stopping", "error", "idle"} =>
               After(s, i).at \in {"stopping", "error", "idle"}
         /\ s.at \in {"paused", "stopping"} /\ i.kind \notin Exits => After(s, i) = s
         /\ i = WouldNotDie => After(s, i) # Stopping
  <1>1. /\ \A p \in Phases : Starting(p) \in States /\ Starting(p).at = "starting"
        /\ \A k \in ErrorKinds : Error(k) \in States /\ Error(k).at = "error"
        /\ Mining \in States /\ Mining.at = "mining"
        /\ Idle("user_stopped") \in States /\ Idle("user_stopped").at = "idle"
        /\ Stopping.at = "stopping"
    BY DEF States, Starting, Error, Mining, Idle, Stopping, IdleReasons
  <1>2. "spawning" \in Phases /\ "pool_unreachable" \in ErrorKinds
    BY DEF Phases, WarmPhases, ErrorKinds
  <1>3. i = WouldNotDie => i.kind = "BackoffExhausted"
    BY DEF WouldNotDie, InWith
  <1> USE <1>1, <1>2, <1>3, StateFacts, ReportFacts DEF Works, Exits
  <1>4. CASE s.at = "starting"
    BY <1>4, ReportTable
  <1>5. CASE s.at = "stopping"
    BY <1>5, ReportTable
  <1>6. CASE s.at \in {"mining", "paused"}
    BY <1>6, ReportTable
  <1>7. CASE s.at \in {"idle", "error"}
    BY <1>7, ReportTable
  <1> QED BY <1>4, <1>5, <1>6, <1>7

LEMMA QueueTail ==
  ASSUME NEW q \in Seq(Reports), q # <<>>
  PROVE  /\ Head(q) \in Reports /\ Head(q) = q[1] /\ Len(q) \in Nat \ {0}
         /\ Tail(q) \in Seq(Reports) /\ Len(Tail(q)) = Len(q) - 1
         /\ \A k \in 1..(Len(q) - 1) : Tail(q)[k] = q[k + 1]
  OBVIOUS

LEMMA QueueAppend ==
  ASSUME NEW q \in Seq(Reports), NEW i \in Reports
  PROVE  /\ Append(q, i) \in Seq(Reports) /\ Len(Append(q, i)) = Len(q) + 1 /\ Len(q) \in Nat
         /\ Append(q, i)[Len(q) + 1] = i
         /\ \A k \in 1..Len(q) : Append(q, i)[k] = q[k]
  BY AppendProperties

\* A report of an exit, or none, follows position k of what is left.
LEMMA ExitInTail ==
  ASSUME NEW q \in Seq(Reports), q # <<>>, NEW k \in Nat \ {0}
  PROVE  /\ ExitFrom(Tail(q), k) <=> ExitFrom(q, k + 1)
         /\ ExitFrom(q, 1) <=> Head(q).kind \in Exits \/ ExitFrom(q, 2)
  <1>1. ASSUME ExitFrom(Tail(q), k) PROVE ExitFrom(q, k + 1)
    <2>1. PICK j \in k..(Len(q) - 1) : q[j + 1].kind \in Exits
      BY <1>1, QueueTail DEF ExitFrom
    <2>2. j + 1 \in (k + 1)..Len(q)
      BY <2>1, QueueTail
    <2> QED BY <2>1, <2>2 DEF ExitFrom
  <1>2. ASSUME ExitFrom(q, k + 1) PROVE ExitFrom(Tail(q), k)
    <2>1. PICK j \in (k + 1)..Len(q) : q[j].kind \in Exits
      BY <1>2 DEF ExitFrom
    <2>2. j - 1 \in k..(Len(q) - 1) /\ j - 1 \in 1..(Len(q) - 1) /\ (j - 1) + 1 = j
      BY <2>1, QueueTail
    <2>3. Tail(q)[j - 1].kind \in Exits
      BY <2>1, <2>2, QueueTail
    <2> QED BY <2>2, <2>3, QueueTail DEF ExitFrom
  <1>3. ExitFrom(q, 1) => Head(q).kind \in Exits \/ ExitFrom(q, 2)
    <2>1. SUFFICES ASSUME NEW j \in 1..Len(q), q[j].kind \in Exits
                   PROVE  Head(q).kind \in Exits \/ ExitFrom(q, 2)
      BY DEF ExitFrom
    <2>2. j = 1 \/ j \in 2..Len(q)
      BY QueueTail
    <2> QED BY <2>1, <2>2, QueueTail DEF ExitFrom
  <1>4. ExitFrom(q, 2) => ExitFrom(q, 1)
    BY QueueTail DEF ExitFrom
  <1>5. Head(q).kind \in Exits => ExitFrom(q, 1)
    BY QueueTail DEF ExitFrom
  <1> QED BY <1>1, <1>2, <1>3, <1>4, <1>5

LEMMA ExitInAppend ==
  ASSUME NEW q \in Seq(Reports), NEW i \in Reports, NEW k \in 1..(Len(q) + 1)
  PROVE  ExitFrom(Append(q, i), k) <=> ExitFrom(q, k) \/ i.kind \in Exits
  <1>1. ASSUME ExitFrom(Append(q, i), k) PROVE ExitFrom(q, k) \/ i.kind \in Exits
    <2>1. PICK j \in k..(Len(q) + 1) : Append(q, i)[j].kind \in Exits
      BY <1>1, QueueAppend DEF ExitFrom
    <2>2. j = Len(q) + 1 \/ j \in k..Len(q)
      BY <2>1, QueueAppend
    <2>3. CASE j = Len(q) + 1
      BY <2>1, <2>3, QueueAppend
    <2>4. CASE j \in k..Len(q)
      BY <2>1, <2>4, QueueAppend DEF ExitFrom
    <2> QED BY <2>2, <2>3, <2>4
  <1>2. ASSUME ExitFrom(q, k) PROVE ExitFrom(Append(q, i), k)
    <2>1. PICK j \in k..Len(q) : q[j].kind \in Exits
      BY <1>2 DEF ExitFrom
    <2>2. j \in k..(Len(q) + 1) /\ Append(q, i)[j] = q[j]
      BY <2>1, QueueAppend
    <2> QED BY <2>1, <2>2, QueueAppend DEF ExitFrom
  <1>3. i.kind \in Exits => ExitFrom(Append(q, i), k)
    BY QueueAppend DEF ExitFrom
  <1> QED BY <1>1, <1>2, <1>3

----------------------------------------------------------------------------
(* The steps of a lane. *)

Becomes(l, s, p, q) ==
  /\ st' = [st EXCEPT ![l] = s] /\ proc' = [proc EXCEPT ![l] = p]
  /\ inbox' = [inbox EXCEPT ![l] = q]

\* The lanes share no state.
LEMMA OneLaneMoves ==
  ASSUME LanesInv, NEW l \in Lanes, NEW s \in States, NEW p \in Procs, NEW q \in Seq(Reports),
         Len(q) <= MaxInbox, LaneOK(s, p, q), Becomes(l, s, p, q)
  PROVE  LanesInv'
  <1>1. LaneTypes'
    BY DEF LanesInv, LaneTypes, Becomes
  <1>2. ASSUME NEW m \in Lanes PROVE LaneOK(st'[m], proc'[m], inbox'[m])
    <2>1. CASE m = l
      <3>1. st'[m] = s /\ proc'[m] = p /\ inbox'[m] = q
        BY <2>1 DEF LanesInv, LaneTypes, Becomes
      <3> QED BY <3>1
    <2>2. CASE m # l
      <3>1. st'[m] = st[m] /\ proc'[m] = proc[m] /\ inbox'[m] = inbox[m]
        BY <2>2 DEF LanesInv, LaneTypes, Becomes
      <3> QED BY <3>1 DEF LanesInv
    <2> QED BY <2>1, <2>2
  <1> QED BY <1>1, <1>2 DEF LanesInv

LEMMA LaneFacts ==
  ASSUME LanesInv, NEW l \in Lanes
  PROVE  /\ st[l] \in States /\ proc[l] \in Procs /\ inbox[l] \in Seq(Reports)
         /\ Len(inbox[l]) <= MaxInbox /\ LaneOK(st[l], proc[l], inbox[l])
         /\ st = [st EXCEPT ![l] = st[l]] /\ proc = [proc EXCEPT ![l] = proc[l]]
         /\ inbox = [inbox EXCEPT ![l] = inbox[l]]
  BY DEF LanesInv, LaneTypes

\* A lane with nothing unread.
LEMMA NothingUnread ==
  ASSUME NEW s \in States, NEW p \in Procs, Quiet(s, p), HeldIsPaused(s, p),
         s = Mining => p = "live", s.at = "paused" => p \in {"live", "held", "parked"},
         s = Stopping => p # "stuck"
  PROVE  <<>> \in Seq(Reports) /\ Len(<<>>) <= MaxInbox /\ LaneOK(s, p, <<>>)
  <1>1. Len(<<>>) = 0 /\ <<>> \in Seq(Reports) /\ 0 <= MaxInbox
    BY LaneAssumption
  <1>2. \A k \in Nat : ~ExitFrom(<<>>, k + 1)
    BY DEF ExitFrom
  <1> QED BY <1>1, <1>2 DEF LaneOK, Real, ExitsAreTrue, StuckSays, StopIsHeard,
                            WorkIsFollowed, PausedIsReal

\* What the presses, the supervisor and the governor make of a state.
LEMMA InputTable ==
  ASSUME NEW s \in States
  PROVE  /\ Transition(s, In("UserStart")) \in {None, Starting("spawning")}
         /\ Transition(s, In("StopRequested")) \in {None, Stopping}
         /\ Transition(s, In("StopRequested")) # None => s # Stopping
         /\ Transition(s, In("Dismiss")) \in {None, Idle("gave_up")}
         /\ Transition(s, In("Dismiss")) # None => s.at = "error"
         /\ Transition(s, In("SpawnFailed")) \in {None, Error("spawn_failed")}
         /\ Transition(s, In("WatchdogRestart")) \in {None, Starting("spawning")}
         /\ Transition(s, In("FeeFailsafe")) \in {None, Idle("failsafe")}
         /\ s.at = "paused" => /\ After(s, In("GovernorRelaunch")) = Starting("spawning")
                               /\ After(s, In("GovernorResume")) = Mining
  <1>1. /\ s # None /\ Mining # None /\ Stopping # None
        /\ \A x : Starting(x) # None /\ Error(x) # None /\ Idle(x) # None /\ Paused(x) # None
    BY StateFacts DEF None, Mining, Stopping, Starting, Error, Idle, Paused
  <1>2. /\ s.at \in {"idle", "starting", "mining", "stopping", "paused", "error"}
        /\ s.at = "mining" <=> s = Mining
        /\ s.at = "stopping" <=> s = Stopping
    BY StateFacts
  <1>3. /\ \A k : In(k).kind = k
        /\ \A k, r : InWith(k, r).kind = k /\ InWith(k, r).arg = r
    BY DEF In, InWith
  <1>4. Transition(s, In("UserStart")) \in {None, Starting("spawning")}
    BY <1>2, <1>3 DEF Transition, Table
  <1>5. /\ Transition(s, In("StopRequested")) \in {None, Stopping}
        /\ Transition(s, In("StopRequested")) # None => s # Stopping
    BY <1>2, <1>3 DEF Transition, Table
  <1>6. /\ Transition(s, In("Dismiss")) \in {None, Idle("gave_up")}
        /\ Transition(s, In("Dismiss")) # None => s.at = "error"
    BY <1>2, <1>3 DEF Transition, Table
  <1>7. Transition(s, In("SpawnFailed")) \in {None, Error("spawn_failed")}
    BY <1>2, <1>3 DEF Transition, Table
  <1>8. Transition(s, In("WatchdogRestart")) \in {None, Starting("spawning")}
    BY <1>2, <1>3 DEF Transition, Table
  <1>9. Transition(s, In("FeeFailsafe")) \in {None, Idle("failsafe")}
    BY <1>2, <1>3 DEF Transition, Table
  <1>10. s.at = "paused" => /\ After(s, In("GovernorRelaunch")) = Starting("spawning")
                            /\ After(s, In("GovernorResume")) = Mining
    BY <1>1, <1>3 DEF Transition, Table, After
  <1> QED BY <1>4, <1>5, <1>6, <1>7, <1>8, <1>9, <1>10

LEMMA PauseTable ==
  ASSUME NEW s \in States, NEW r, Transition(s, InWith("GovernorPause", r)) # None
  PROVE  s = Mining /\ Transition(s, InWith("GovernorPause", r)) = Paused(r)
  <1>1. s.at = "mining" <=> s = Mining
    BY StateFacts
  <1>2. InWith("GovernorPause", r).kind = "GovernorPause" /\ InWith("GovernorPause", r).arg = r
    BY DEF InWith
  <1> QED BY <1>1, <1>2 DEF Transition, Table

\* The states the inputs lead to are states.
LEMMA NewStates ==
  /\ Starting("spawning") \in States /\ Starting("spawning").at = "starting"
  /\ Idle("gave_up") \in States /\ Idle("failsafe") \in States
  /\ Idle("gave_up").at = "idle" /\ Idle("gave_up").why = "gave_up"
  /\ Idle("failsafe").at = "idle" /\ Idle("failsafe").why = "failsafe"
  /\ Error("spawn_failed") \in States /\ Error("spawn_failed").at = "error"
  /\ Mining \in States /\ Mining.at = "mining" /\ Stopping \in States /\ Stopping.at = "stopping"
  /\ \A r \in PauseReasons : Paused(r) \in States /\ Paused(r).at = "paused"
  <1>1. "spawning" \in Phases
    BY DEF Phases, WarmPhases
  <1> QED BY <1>1 DEF States, Starting, Idle, Error, Mining, Stopping, Paused, IdleReasons, ErrorKinds

LEMMA Applied ==
  ASSUME LanesInv, NEW l \in Lanes, NEW i, Apply(l, i)
  PROVE  st' = [st EXCEPT ![l] = After(st[l], i)]
  BY DEF LanesInv, LaneTypes, Apply, After

\* A queue of one report.
LEMMA OneReport ==
  ASSUME NEW i \in Reports
  PROVE  /\ <<i>> \in Seq(Reports) /\ Len(<<i>>) = 1 /\ Len(<<i>>) <= MaxInbox
         /\ \A k \in 1..1 : <<i>>[k] = i
         /\ ExitFrom(<<i>>, 1) <=> i.kind \in Exits
  BY LaneAssumption DEF ExitFrom

\* A process that would not go has said so, and nothing else.
LEMMA Refusal ==
  ASSUME NEW s, Quiet(s, "stuck")
  PROVE  WouldNotDie \in Reports /\ LaneOK(s, "stuck", <<WouldNotDie>>)
  <1>1. WouldNotDie \in Reports /\ WouldNotDie.kind = "BackoffExhausted"
    BY DEF Reports, In, InWith, WouldNotDie
  <1>2. ExitFrom(<<WouldNotDie>>, 1)
    BY <1>1, OneReport DEF Exits
  <1>3. StopIsHeard(s, <<WouldNotDie>>) /\ WorkIsFollowed("stuck", <<WouldNotDie>>)
    BY <1>1, OneReport DEF StopIsHeard, WorkIsFollowed, Works
  <1> QED BY <1>1, <1>2, <1>3 DEF LaneOK, Real, ExitsAreTrue, StuckSays, HeldIsPaused, PausedIsReal

\* A process that is ended, or that would not go, in the state the input led to.
LEMMA EndKeeps ==
  ASSUME LanesInv, NEW l \in Lanes, NEW s \in States, st' = [st EXCEPT ![l] = s], End(l),
         s.at \notin {"mining", "paused"}, s = Stopping => FALSE,
         s.at = "idle" => s.why \notin {"fresh", "user_stopped"}
  PROVE  LanesInv'
  <1>1. CASE SetProc(l, "none") /\ Silence(l)
    <2>1. Becomes(l, s, "none", <<>>)
      BY <1>1 DEF SetProc, Silence, Becomes
    <2>2. <<>> \in Seq(Reports) /\ Len(<<>>) <= MaxInbox /\ LaneOK(s, "none", <<>>)
      BY NewStates, NothingUnread DEF Quiet, HeldIsPaused, Procs
    <2> QED BY <2>1, <2>2, OneLaneMoves DEF Procs
  <1>2. CASE SetProc(l, "stuck") /\ inbox' = [inbox EXCEPT ![l] = <<WouldNotDie>>]
    <2>1. Becomes(l, s, "stuck", <<WouldNotDie>>)
      BY <1>2 DEF SetProc, Becomes
    <2>2. WouldNotDie \in Reports /\ LaneOK(s, "stuck", <<WouldNotDie>>)
      BY NewStates, Refusal DEF Quiet
    <2> QED BY <2>1, <2>2, OneReport, OneLaneMoves DEF Procs
  <1> QED BY <1>1, <1>2 DEF End, WouldNotDie

LEMMA PressKeeps ==
  ASSUME LanesInv, NEW l \in Lanes, NEW k \in {"UserStart", "StopRequested", "Dismiss"}, Press(l, k)
  PROVE  LanesInv'
  <1> DEFINE s == st[l]
             p == proc[l]
             q == inbox[l]
  <1>1. /\ s \in States /\ p \in Procs /\ q \in Seq(Reports) /\ Len(q) <= MaxInbox
        /\ LaneOK(s, p, q)
        /\ inbox = [inbox EXCEPT ![l] = q] /\ proc = [proc EXCEPT ![l] = p]
    BY LaneFacts
  <1>2. Transition(s, In(k)) # None /\ st' = [st EXCEPT ![l] = Transition(s, In(k))]
    BY Applied DEF Press, Legal, After
  <1>3. CASE k = "UserStart"
    <2>1. st' = [st EXCEPT ![l] = Starting("spawning")] /\ End(l)
      BY <1>2, <1>3, <1>1, InputTable DEF Press
    <2> QED BY <2>1, NewStates, EndKeeps
  <1>4. CASE k = "StopRequested"
    <2> DEFINE p1 == IF p = "stuck" /\ q = <<>> THEN "live" ELSE p
    <2>1. Becomes(l, Stopping, p1, q) /\ s # Stopping
      BY <1>2, <1>4, <1>1, InputTable DEF Press, Becomes, LanesInv, LaneTypes
    <2>2. p = "stuck" => q = <<>> \/ q = <<WouldNotDie>>
      BY <1>1 DEF LaneOK, StuckSays
    <2>3. p1 \in Procs /\ (p1 = "stuck" => p = "stuck" /\ q = <<WouldNotDie>>)
      BY <1>1, <2>2 DEF Procs
    <2>4. LaneOK(Stopping, p1, q)
      <3>1. ExitFrom(q, 1) => p1 \in {"none", "parked", "stuck"}
        <4>1. ExitFrom(q, 1) => q # <<>>
          BY DEF ExitFrom
        <4> QED BY <1>1, <4>1 DEF LaneOK, ExitsAreTrue
      <3>2. WorkIsFollowed(p1, q)
        BY <1>1 DEF LaneOK, WorkIsFollowed
      <3>3. StopIsHeard(Stopping, q) /\ HeldIsPaused(Stopping, p1)
        BY NewStates DEF StopIsHeard, HeldIsPaused
      <3> HIDE DEF p1
      <3> QED BY <2>3, <3>1, <3>2, <3>3, NewStates DEF LaneOK, Quiet, Real, ExitsAreTrue, StuckSays,
              PausedIsReal
    <2> HIDE DEF p1
    <2> QED BY <1>1, <2>1, <2>3, <2>4, NewStates, OneLaneMoves
  <1>5. CASE k = "Dismiss"
    <2>1. Becomes(l, Idle("gave_up"), p, q) /\ s.at = "error"
      BY <1>2, <1>5, <1>1, InputTable DEF Press, Becomes
    <2>2. LaneOK(Idle("gave_up"), p, q)
      BY <1>1, <2>1, NewStates, StateFacts DEF LaneOK, Quiet, Real, ExitsAreTrue, StuckSays,
         StopIsHeard, HeldIsPaused, PausedIsReal
    <2> QED BY <1>1, <2>1, <2>2, NewStates, OneLaneMoves
  <1> QED BY <1>3, <1>4, <1>5

\* The supervisor's launches and its ends of a process.
LEMMA SupervisorKeeps ==
  ASSUME LanesInv, NEW l \in Lanes, Spawn(l) \/ Restart(l) \/ Failsafe(l)
  PROVE  LanesInv'
  <1> DEFINE s == st[l]
             p == proc[l]
             q == inbox[l]
  <1>1. /\ s \in States /\ p \in Procs /\ q \in Seq(Reports) /\ Len(q) <= MaxInbox
        /\ LaneOK(s, p, q)
        /\ inbox = [inbox EXCEPT ![l] = q] /\ st = [st EXCEPT ![l] = s]
    BY LaneFacts
  <1>2. \A i : Legal(l, i) /\ Apply(l, i) =>
           Transition(s, i) # None /\ st' = [st EXCEPT ![l] = Transition(s, i)]
    BY Applied DEF Legal, After
  <1>3. CASE Spawn(l) /\ s.at = "starting" /\ SetProc(l, "live") /\ UNCHANGED st
    <2>1. Becomes(l, s, "live", <<>>)
      BY <1>1, <1>3 DEF Spawn, SetProc, Becomes
    <2>2. <<>> \in Seq(Reports) /\ Len(<<>>) <= MaxInbox /\ LaneOK(s, "live", <<>>)
      BY <1>1, <1>3, NothingUnread DEF Quiet, HeldIsPaused, Procs
    <2> QED BY <1>1, <2>1, <2>2, OneLaneMoves DEF Procs
  <1>4. ASSUME Spawn(l), SetProc(l, "none"), Legal(l, In("SpawnFailed")), Apply(l, In("SpawnFailed"))
        PROVE  LanesInv'
    <2>1. Becomes(l, Error("spawn_failed"), "none", <<>>)
      BY <1>1, <1>2, <1>4, InputTable DEF Spawn, SetProc, Becomes
    <2>2. <<>> \in Seq(Reports) /\ Len(<<>>) <= MaxInbox /\ LaneOK(Error("spawn_failed"), "none", <<>>)
      BY NewStates, NothingUnread DEF Quiet, HeldIsPaused, Procs
    <2> QED BY <2>1, <2>2, NewStates, OneLaneMoves DEF Procs
  <1>5. CASE Restart(l)
    <2>1. st' = [st EXCEPT ![l] = Starting("spawning")] /\ End(l)
      BY <1>2, <1>1, <1>5, InputTable DEF Restart
    <2> QED BY <2>1, NewStates, EndKeeps
  <1>6. CASE Failsafe(l)
    <2>1. st' = [st EXCEPT ![l] = Idle("failsafe")] /\ End(l)
      BY <1>2, <1>1, <1>6, InputTable DEF Failsafe
    <2> QED BY <2>1, NewStates, EndKeeps
  <1> QED BY <1>3, <1>4, <1>5, <1>6 DEF Spawn

LEMMA StopProcessKeeps ==
  ASSUME LanesInv, NEW l \in Lanes, StopProcess(l)
  PROVE  LanesInv'
  <1> DEFINE s == st[l]
             p == proc[l]
             q == inbox[l]
  <1>1. /\ s \in States /\ p \in Procs /\ q \in Seq(Reports) /\ Len(q) <= MaxInbox
        /\ LaneOK(s, p, q)
        /\ st = [st EXCEPT ![l] = s] /\ proc = [proc EXCEPT ![l] = p]
        /\ inbox = [inbox EXCEPT ![l] = q]
    BY LaneFacts
  <1>2. /\ In("Exited") \in Reports /\ In("Exited").kind = "Exited"
        /\ WouldNotDie \in Reports /\ WouldNotDie.kind = "BackoffExhausted"
    BY DEF Reports, In, InWith, WouldNotDie
  <1>3. s = Stopping /\ Stopping \in States /\ Stopping.at = "stopping" /\ Stopping # Mining
    BY NewStates DEF StopProcess
  <1>4. CASE SetProc(l, "none") /\ inbox' = [inbox EXCEPT ![l] = <<In("Exited")>>]
    <2>1. Becomes(l, Stopping, "none", <<In("Exited")>>)
      BY <1>1, <1>3, <1>4 DEF StopProcess, SetProc, Becomes
    <2>2. LaneOK(Stopping, "none", <<In("Exited")>>)
      BY <1>2, <1>3, OneReport DEF LaneOK, Quiet, Real, ExitsAreTrue, StuckSays, StopIsHeard,
         WorkIsFollowed, HeldIsPaused, PausedIsReal, Works, Exits
    <2> QED BY <1>2, <1>3, <2>1, <2>2, OneReport, OneLaneMoves DEF Procs
  <1>5. CASE SetProc(l, "stuck") /\ inbox' = [inbox EXCEPT ![l] = <<WouldNotDie>>]
    <2>1. Becomes(l, Stopping, "stuck", <<WouldNotDie>>)
      BY <1>1, <1>3, <1>5 DEF StopProcess, SetProc, Becomes
    <2>2. LaneOK(Stopping, "stuck", <<WouldNotDie>>)
      BY <1>3, Refusal DEF Quiet
    <2> QED BY <1>2, <1>3, <2>1, <2>2, OneReport, OneLaneMoves DEF Procs
  <1> QED BY <1>4, <1>5 DEF StopProcess, WouldNotDie

LEMMA GovernorKeeps ==
  ASSUME LanesInv, NEW l \in Lanes, (\E r \in PauseReasons : Pause(l, r)) \/ Resume(l)
  PROVE  LanesInv'
  <1> DEFINE s == st[l]
             p == proc[l]
             q == inbox[l]
  <1>1. /\ s \in States /\ p \in Procs /\ q \in Seq(Reports) /\ Len(q) <= MaxInbox
        /\ LaneOK(s, p, q)
        /\ st = [st EXCEPT ![l] = s] /\ proc = [proc EXCEPT ![l] = p]
        /\ inbox = [inbox EXCEPT ![l] = q]
    BY LaneFacts
  <1> USE DEF Procs
  <1>2. ASSUME NEW r \in PauseReasons, Pause(l, r) PROVE LanesInv'
    <2> DEFINE p1 == IF p = "live" THEN "held" ELSE p
    <2>1. st' = [st EXCEPT ![l] = Paused(r)] /\ s = Mining
      <3> DEFINE i == InWith("GovernorPause", r)
      <3>1. Transition(s, i) # None /\ Apply(l, i)
        BY <1>2 DEF Pause, Legal
      <3>2. st' = [st EXCEPT ![l] = After(s, i)]
        BY <3>1, Applied
      <3>3. Transition(s, i) = Paused(r) /\ s = Mining
        BY <1>1, <3>1, PauseTable
      <3> HIDE DEF i
      <3> QED BY <3>1, <3>2, <3>3 DEF After
    <2>2. /\ Paused(r) \in States /\ Paused(r).at = "paused" /\ s.at = "mining" /\ s # Stopping
          /\ Paused(r) # Stopping /\ Paused(r) # Mining
      BY <2>1, NewStates
    <2>3. CASE proc' = [proc EXCEPT ![l] = IF @ = "live" THEN "held" ELSE @] /\ UNCHANGED inbox
      <3>1. Becomes(l, Paused(r), p1, q)
        BY <1>1, <2>1, <2>3 DEF Becomes, LanesInv, LaneTypes
      <3>2. /\ p1 \in Procs /\ (p = "stuck" <=> p1 = "stuck")
            /\ (p = "live" => p1 = "held") /\ (p # "live" => p1 = p)
        BY <1>1
      <3>3. LaneOK(Paused(r), p1, q)
        <4> HIDE DEF p1
        <4>1. ExitsAreTrue(p1, q) /\ StuckSays(Paused(r), p1, q)
          BY <1>1, <2>2, <3>2 DEF LaneOK, ExitsAreTrue, StuckSays
        <4>2. StopIsHeard(Paused(r), q) /\ WorkIsFollowed(p1, q)
          BY <1>1, <2>2, <3>2 DEF LaneOK, StopIsHeard, WorkIsFollowed
        <4>3. PausedIsReal(Paused(r), p1, q)
          BY <1>1, <2>1, <3>2 DEF LaneOK, Real, PausedIsReal
        <4> QED BY <2>2, <4>1, <4>2, <4>3 DEF LaneOK, Quiet, Real, HeldIsPaused
      <3> HIDE DEF p1
      <3> QED BY <1>1, <2>2, <3>1, <3>2, <3>3, OneLaneMoves
    <2>4. CASE SetProc(l, "parked") /\ Silence(l)
      <3>1. Becomes(l, Paused(r), "parked", <<>>)
        BY <2>1, <2>4 DEF Becomes, SetProc, Silence
      <3>2. <<>> \in Seq(Reports) /\ Len(<<>>) <= MaxInbox /\ LaneOK(Paused(r), "parked", <<>>)
        BY <2>2, NothingUnread DEF Quiet, HeldIsPaused
      <3> QED BY <2>2, <3>1, <3>2, OneLaneMoves
    <2>5. CASE End(l) /\ proc'[l] = "stuck"
      <3>1. Becomes(l, Paused(r), "stuck", <<WouldNotDie>>)
        <4>1. proc' # [proc EXCEPT ![l] = "none"]
          BY <2>5, <1>1 DEF LanesInv, LaneTypes
        <4> QED BY <2>1, <2>5, <4>1 DEF End, SetProc, Becomes, WouldNotDie
      <3>2. WouldNotDie \in Reports /\ LaneOK(Paused(r), "stuck", <<WouldNotDie>>)
        BY <2>2, Refusal DEF Quiet
      <3> QED BY <2>2, <3>1, <3>2, OneReport, OneLaneMoves
    <2> QED BY <1>2, <2>3, <2>4, <2>5 DEF Pause
  <1>3. CASE Resume(l) /\ p = "parked"
    <2>1. Becomes(l, Starting("spawning"), p, q) /\ s.at = "paused"
      BY <1>1, <1>3, Applied, InputTable DEF Resume, Becomes
    <2>2. LaneOK(Starting("spawning"), p, q)
      BY <1>1, <1>3, <2>1, NewStates DEF LaneOK, Quiet, Real, ExitsAreTrue, StuckSays, StopIsHeard,
         WorkIsFollowed, HeldIsPaused, PausedIsReal
    <2> QED BY <1>1, <2>1, <2>2, NewStates, OneLaneMoves
  <1>4. CASE Resume(l) /\ p # "parked"
    <2> DEFINE p1 == IF p = "held" THEN "live" ELSE p
    <2>1. Becomes(l, Mining, p1, q) /\ s.at = "paused"
      BY <1>1, <1>4, Applied, InputTable DEF Resume, Becomes, LanesInv, LaneTypes
    <2>2. p1 \in Procs /\ p1 # "held" /\ (p = "held" => p1 = "live") /\ (p # "held" => p1 = p)
      BY <1>1
    <2>3. s # Stopping /\ Mining # Stopping
      BY <2>1, NewStates
    <2>4. LaneOK(Mining, p1, q)
      <3> HIDE DEF p1
      <3>1. ExitsAreTrue(p1, q) /\ StuckSays(Mining, p1, q)
        BY <1>1, <2>2, <2>3 DEF LaneOK, ExitsAreTrue, StuckSays
      <3>2. StopIsHeard(Mining, q) /\ WorkIsFollowed(p1, q)
        BY <1>1, <2>1, <2>2 DEF LaneOK, StopIsHeard, WorkIsFollowed
      <3>3. Real(Mining, p1, q)
        BY <1>1, <1>4, <2>1, <2>2 DEF LaneOK, PausedIsReal, Real
      <3> QED BY <2>2, <3>1, <3>2, <3>3, NewStates DEF LaneOK, Quiet, HeldIsPaused, PausedIsReal
    <2> HIDE DEF p1
    <2> QED BY <1>1, <2>1, <2>2, <2>4, NewStates, OneLaneMoves
  <1> QED BY <1>2, <1>3, <1>4

LEMMA WorkingKeeps ==
  ASSUME LanesInv, NEW l \in Lanes, Working(l)
  PROVE  LanesInv'
  <1> DEFINE s == st[l]
             p == proc[l]
             q == inbox[l]
  <1>1. /\ s \in States /\ p \in Procs /\ q \in Seq(Reports) /\ Len(q) <= MaxInbox
        /\ LaneOK(s, p, q)
        /\ st = [st EXCEPT ![l] = s] /\ proc = [proc EXCEPT ![l] = p]
        /\ inbox = [inbox EXCEPT ![l] = q]
    BY LaneFacts
  <1>2. PICK i \in Reports : i.kind \notin Exits /\ Tell(l, i)
    <2>1. /\ \A r \in Phases : InWith("Warm", r) \in Reports /\ InWith("Warm", r).kind \notin Exits
          /\ \A k \in {"Hashing", "FirstShare", "PoolUnreachable"} :
                In(k) \in Reports /\ In(k).kind \notin Exits
      BY DEF Reports, In, InWith, Exits
    <2> QED BY <2>1 DEF Working
  <1>3. p = "live" /\ Becomes(l, s, p, Append(q, i)) /\ Len(Append(q, i)) <= MaxInbox
    BY <1>1, <1>2, QueueAppend, LaneAssumption DEF Working, Tell, Becomes, LanesInv, LaneTypes
  <1>4. ~ExitFrom(q, 1)
    BY <1>1, <1>3 DEF LaneOK, ExitsAreTrue
  <1>5. ~ExitFrom(Append(q, i), 1)
    BY <1>1, <1>2, <1>4, ExitInAppend, QueueAppend
  <1>6. StopIsHeard(s, Append(q, i))
    <2>1. ASSUME NEW k \in 1..Len(Append(q, i)), Append(q, i)[k].kind = "Exited" PROVE FALSE
      BY <1>5, <2>1 DEF ExitFrom, Exits
    <2> QED BY <2>1 DEF StopIsHeard
  <1>7. LaneOK(s, p, Append(q, i))
    BY <1>1, <1>3, <1>5, <1>6 DEF LaneOK, Quiet, Real, ExitsAreTrue, StuckSays,
       WorkIsFollowed, HeldIsPaused, PausedIsReal
  <1> QED BY <1>1, <1>3, <1>7, QueueAppend, OneLaneMoves

LEMMA DiesKeeps ==
  ASSUME LanesInv, NEW l \in Lanes, Dies(l)
  PROVE  LanesInv'
  <1> DEFINE s == st[l]
             p == proc[l]
             q == inbox[l]
  <1>1. /\ s \in States /\ p \in Procs /\ q \in Seq(Reports) /\ Len(q) <= MaxInbox
        /\ LaneOK(s, p, q)
        /\ st = [st EXCEPT ![l] = s] /\ proc = [proc EXCEPT ![l] = p]
        /\ inbox = [inbox EXCEPT ![l] = q]
    BY LaneFacts
  <1>2. PICK i \in Reports : /\ i.kind \in Exits /\ Tell(l, i)
                             /\ i.kind = "Exited" => s.at \in {"stopping", "error", "idle"}
    <2>1. /\ \A k \in {"Exited", "MinerExitedRetrying"} : In(k) \in Reports /\ In(k).kind = k
          /\ InWith("BackoffExhausted", "miner_crashed") \in Reports
          /\ InWith("BackoffExhausted", "miner_crashed").kind = "BackoffExhausted"
      BY DEF Reports, In, InWith
    <2> QED BY <2>1 DEF Dies, Exits
  <1> DEFINE q1 == Append(q, i)
  <1>3. Becomes(l, s, "none", q1) /\ Len(q1) <= MaxInbox
    BY <1>1, <1>2, QueueAppend, LaneAssumption DEF Dies, SetProc, Tell, Becomes, LanesInv, LaneTypes
  <1>4. \A k \in 1..(Len(q) + 1) : ExitFrom(q1, k)
    BY <1>1, <1>2, ExitInAppend
  <1>5. StopIsHeard(s, q1)
    <2> SUFFICES ASSUME NEW k \in 1..Len(q1), q1[k].kind = "Exited"
                 PROVE  s.at \in {"stopping", "error", "idle"}
      BY DEF StopIsHeard
    <2>1. k \in 1..Len(q) \/ k = Len(q) + 1
      BY QueueAppend
    <2> QED BY <1>1, <1>2, <2>1, QueueAppend DEF LaneOK, StopIsHeard
  <1>6. WorkIsFollowed("none", q1)
    <2> SUFFICES ASSUME NEW k \in 1..Len(q1), q1[k].kind \in Works
                 PROVE  ExitFrom(q1, k + 1)
      BY DEF WorkIsFollowed
    <2>1. k \in 1..Len(q) \/ k = Len(q) + 1
      BY QueueAppend
    <2>2. k # Len(q) + 1
      BY <1>2, QueueAppend DEF Works, Exits
    <2>3. k + 1 \in 1..(Len(q) + 1)
      BY <2>1, <2>2, QueueAppend
    <2> QED BY <1>4, <2>3
  <1>7. LaneOK(s, "none", q1)
    <2>1. 1 \in 1..(Len(q) + 1)
      BY QueueAppend, <1>1
    <2>2. ExitFrom(q1, 1)
      BY <1>4, <2>1
    <2> HIDE DEF q1
    <2> QED BY <1>5, <1>6, <2>2 DEF LaneOK, Quiet, Real, ExitsAreTrue, StuckSays,
       HeldIsPaused, PausedIsReal
  <1> QED BY <1>1, <1>3, <1>7, QueueAppend, OneLaneMoves DEF Procs

LEMMA DeliverKeeps ==
  ASSUME LanesInv, NEW l \in Lanes, Deliver(l)
  PROVE  LanesInv'
  <1> DEFINE s == st[l]
             p == proc[l]
             q == inbox[l]
  <1>1. /\ s \in States /\ p \in Procs /\ q \in Seq(Reports) /\ Len(q) <= MaxInbox
        /\ LaneOK(s, p, q)
        /\ st = [st EXCEPT ![l] = s] /\ proc = [proc EXCEPT ![l] = p]
        /\ inbox = [inbox EXCEPT ![l] = q]
    BY LaneFacts
  <1> DEFINE i == Head(q)
             s1 == After(s, i)
             q1 == Tail(q)
  <1>2. q # <<>> /\ Becomes(l, s1, p, q1)
    BY <1>1, Applied DEF Deliver, Becomes, LanesInv, LaneTypes
  <1>3. /\ i \in Reports /\ i = q[1] /\ q1 \in Seq(Reports) /\ Len(q1) = Len(q) - 1
        /\ Len(q) \in Nat \ {0} /\ 1 \in 1..Len(q) /\ \A k \in 1..Len(q1) : q1[k] = q[k + 1]
    BY <1>1, <1>2, QueueTail
  <1>4. /\ \A k \in Nat \ {0} : ExitFrom(q1, k) <=> ExitFrom(q, k + 1)
        /\ ExitFrom(q, 1) <=> i.kind \in Exits \/ ExitFrom(q1, 1)
    BY <1>1, <1>2, ExitInTail
  <1>5. s1 \in States
    BY <1>1, <1>3, AfterReport
  <1>6. i.kind = "Exited" => s.at \in {"stopping", "error", "idle"}
    BY <1>1, <1>3 DEF LaneOK, StopIsHeard
  <1> HIDE DEF q1
  <1>7. Quiet(s1, p)
    <2>1. s = Stopping /\ i.kind = "Exited" => p \in {"none", "parked"}
      <3> SUFFICES ASSUME i.kind = "Exited" PROVE p \in {"none", "parked"}
        OBVIOUS
      <3>1. p \in {"none", "parked", "stuck"}
        BY <1>1, <1>4 DEF LaneOK, ExitsAreTrue, Exits
      <3>2. p = "stuck" => i = WouldNotDie
        <4>1. p = "stuck" => q = <<WouldNotDie>>
          BY <1>1, <1>2 DEF LaneOK, StuckSays
        <4>2. q = <<WouldNotDie>> => q[1] = WouldNotDie
          OBVIOUS
        <4> HIDE DEF i, q
        <4> QED BY <1>3, <4>1, <4>2
      <3>3. WouldNotDie.kind = "BackoffExhausted"
        BY DEF WouldNotDie, InWith
      <3> QED BY <3>1, <3>2, <3>3
    <2>2. s1.at = "idle" => s1 = s \/ (s = Stopping /\ i.kind = "Exited")
      BY <1>1, <1>3, AfterReport
    <2>3. Quiet(s, p)
      BY <1>1 DEF LaneOK
    <2> HIDE DEF i, s1, s, p
    <2> QED BY <2>1, <2>2, <2>3 DEF Quiet
  <1>8. Real(s1, p, q1)
    <2>1. CASE s1 = Mining /\ s = Mining
      <3>1. i.kind \notin Exits
        BY <1>1, <1>3, <1>6, <2>1, AfterReport, NewStates DEF Exits
      <3> QED BY <1>1, <1>4, <2>1, <3>1 DEF LaneOK, Real
    <2>2. CASE s.at = "starting" /\ i.kind \in Works
      <3>1. p \in {"live", "held"} \/ ExitFrom(q, 1 + 1)
        BY <1>1, <1>3, <2>2 DEF LaneOK, WorkIsFollowed
      <3>2. p # "held"
        BY <1>1, <2>2 DEF LaneOK, HeldIsPaused
      <3> QED BY <1>4, <3>1, <3>2 DEF Real
    <2> QED BY <1>1, <1>3, <2>1, <2>2, AfterReport DEF Real
  <1>9. ExitsAreTrue(p, q1)
    BY <1>1, <1>4 DEF LaneOK, ExitsAreTrue
  <1>10. StuckSays(s1, p, q1)
    <2> SUFFICES ASSUME p = "stuck" PROVE s1 # Stopping /\ q1 = <<>>
      BY DEF StuckSays
    <2>1. q = <<WouldNotDie>>
      BY <1>1, <1>2 DEF LaneOK, StuckSays
    <2> QED BY <1>1, <1>3, <2>1, AfterReport DEF q1
  <1>11. StopIsHeard(s1, q1)
    <2> SUFFICES ASSUME NEW k \in 1..Len(q1), q1[k].kind = "Exited"
                 PROVE  s1.at \in {"stopping", "error", "idle"}
      BY DEF StopIsHeard
    <2>1. k + 1 \in 1..Len(q) /\ q[k + 1].kind = "Exited"
      BY <1>3
    <2>2. s.at \in {"stopping", "error", "idle"}
      BY <1>1, <2>1 DEF LaneOK, StopIsHeard
    <2> QED BY <1>1, <1>3, <2>2, AfterReport
  <1>12. WorkIsFollowed(p, q1)
    <2> SUFFICES ASSUME NEW k \in 1..Len(q1), q1[k].kind \in Works, p \notin {"live", "held"}
                 PROVE  ExitFrom(q1, k + 1)
      BY DEF WorkIsFollowed
    <2>1. k + 1 \in 1..Len(q) /\ q[k + 1].kind \in Works /\ k + 1 \in Nat \ {0}
      BY <1>3
    <2>2. ExitFrom(q, (k + 1) + 1)
      BY <1>1, <2>1 DEF LaneOK, WorkIsFollowed
    <2> QED BY <1>4, <2>1, <2>2
  <1>13. HeldIsPaused(s1, p)
    BY <1>1, <1>3, <1>4, AfterReport DEF LaneOK, HeldIsPaused, ExitsAreTrue
  <1>14. PausedIsReal(s1, p, q1)
    <2> SUFFICES ASSUME s1.at = "paused" PROVE p \in {"live", "held", "parked"} \/ ExitFrom(q1, 1)
      BY DEF PausedIsReal
    <2>1. s1 = s /\ i.kind \notin Exits
      BY <1>1, <1>3, <1>6, AfterReport DEF Exits
    <2> QED BY <1>1, <1>4, <2>1 DEF LaneOK, PausedIsReal
  <1>15. LaneOK(s1, p, q1)
    BY <1>7, <1>8, <1>9, <1>10, <1>11, <1>12, <1>13, <1>14 DEF LaneOK
  <1>16. Len(q1) <= MaxInbox
    BY <1>1, <1>3, LaneAssumption
  <1> HIDE DEF i, s1
  <1> QED BY <1>1, <1>2, <1>3, <1>5, <1>15, <1>16, OneLaneMoves

----------------------------------------------------------------------------
(* Theorems. *)

LEMMA LanesStart == LaneInit => LanesInv
  <1> SUFFICES ASSUME LaneInit PROVE LanesInv
    OBVIOUS
  <1>1. Idle("fresh") \in States /\ Idle("fresh").at = "idle"
    BY DEF States, Idle, IdleReasons
  <1>2. <<>> \in Seq(Reports) /\ Len(<<>>) <= MaxInbox /\ LaneOK(Idle("fresh"), "none", <<>>)
    BY <1>1, NewStates, NothingUnread DEF Quiet, HeldIsPaused, Procs
  <1> QED BY <1>1, <1>2 DEF LaneInit, LanesInv, LaneTypes, Procs

LEMMA LanesStep == LanesInv /\ [LaneNext]_laneVars => LanesInv'
  <1> SUFFICES ASSUME LanesInv, [LaneNext]_laneVars PROVE LanesInv'
    OBVIOUS
  <1>1. CASE UNCHANGED laneVars
    BY <1>1 DEF laneVars, LanesInv, LaneTypes
  <1>2. ASSUME NEW l \in Lanes, NEW k \in {"UserStart", "StopRequested", "Dismiss"}, Press(l, k)
        PROVE  LanesInv'
    BY <1>2, PressKeeps
  <1>3. ASSUME NEW l \in Lanes, Spawn(l) \/ Restart(l) \/ Failsafe(l) PROVE LanesInv'
    BY <1>3, SupervisorKeeps
  <1>4. ASSUME NEW l \in Lanes, StopProcess(l) PROVE LanesInv'
    BY <1>4, StopProcessKeeps
  <1>5. ASSUME NEW l \in Lanes, (\E r \in PauseReasons : Pause(l, r)) \/ Resume(l) PROVE LanesInv'
    BY <1>5, GovernorKeeps
  <1>6. ASSUME NEW l \in Lanes, Working(l) \/ Dies(l) \/ Deliver(l) PROVE LanesInv'
    BY <1>6, WorkingKeeps, DiesKeeps, DeliverKeeps
  <1> QED BY <1>1, <1>2, <1>3, <1>4, <1>5, <1>6 DEF LaneNext

\* Beside the state of a lane, its process and its unread reports agree: an exit
\* that waits to be read is one, word of hashing is followed by the exit that ended
\* it, and a process that could not be stopped says nothing more.
THEOREM LanesInvariance == LaneSpec => []LanesInv
  <1> QED BY LanesStart, LanesStep, PTL DEF LaneSpec

\* For any number of lanes, pause reasons and unread reports: a lane that says that
\* the user stopped it, or that it was never started, has no process that may still
\* be hashing (the stop hop of state.rs), and none says mining with neither a process
\* nor word of its end.
THEOREM LanesAreTrue == LaneSpec => []LaneInv
  <1>1. LanesInv => LaneInv
    <2> SUFFICES ASSUME LanesInv PROVE LaneInv
      OBVIOUS
    <2>1. LaneTypeOK
      BY DEF LanesInv, LaneTypes, LaneTypeOK, Procs
    <2>2. StoppedIsQuiet
      BY DEF LanesInv, LaneOK, Quiet, StoppedIsQuiet, Running
    <2>3. ASSUME NEW l \in Lanes, st[l] = Mining PROVE proc[l] = "live" \/ Told(l)
      BY <2>3 DEF LanesInv, LaneOK, Real, ExitFrom, Told
    <2> QED BY <2>1, <2>2, <2>3 DEF LaneInv, MiningIsReal
  <1> QED BY <1>1, LanesInvariance, PTL

-----------------------------------------------------------------------------
(***************************************************************************)
(* The probes (hardware.rs): every card missing from a list was left out   *)
(* by a tool, whatever hangs; and the threads fit the cores and caches.    *)
(***************************************************************************)

----------------------------------------------------------------------------
(* The largest card, and the threads. *)

\* Of finitely many cards one is the largest.
LEMMA LargestCard ==
  ASSUME NEW D, IsFiniteSet(D), D # {}, \A d \in D : Vram[d] \in Nat
  PROVE  \E d \in D : \A e \in D : Vram[d] >= Vram[e]
  <1> DEFINE Larger(d) == {e \in D : Vram[e] > Vram[d]}
             Sets == {Larger(d) : d \in D}
  <1>1. Sets \subseteq FiniteSubsetsOf(D) /\ Sets # {}
    <2>1. Sets \subseteq SUBSET D /\ Sets # {}
      OBVIOUS
    <2>2. FiniteSubsetsOf(D) = SUBSET D
      BY FS_FiniteSubsetsOfFinite
    <2> QED BY <2>1, <2>2
  <1>2. \E X \in Sets : \A Y \in Sets : <<Y, X>> \notin StrictSubsetOrdering(D)
    <2> HIDE DEF Sets
    <2> QED BY <1>1, FS_StrictSubsetOrderingWellFounded, WFMin
  <1>3. PICK d \in D : \A e \in D : <<Larger(e), Larger(d)>> \notin StrictSubsetOrdering(D)
    BY <1>2
  <1>4. ASSUME NEW e \in D, Vram[e] > Vram[d] PROVE FALSE
    <2>1. Larger(e) \subseteq Larger(d) /\ e \in Larger(d) /\ e \notin Larger(e)
      BY <1>4
    <2>2. <<Larger(e), Larger(d)>> \in StrictSubsetOrdering(D)
      BY <2>1 DEF StrictSubsetOrdering
    <2> QED BY <1>3, <2>2
  <1>5. \A e \in D : Vram[d] >= Vram[e]
    BY <1>4
  <1> QED BY <1>5

\* The VRAM of no card, or of an eligible one.
VramOf(ds) == {Vram[d] : d \in {e \in ds : Eligible(e)}} \cup {0}

LEMMA LargestVram ==
  ASSUME NEW ds \in SUBSET AllCards
  PROVE  /\ VramOf(ds) \subseteq Nat /\ MaxEligibleVram(ds) \in VramOf(ds)
         /\ \A v \in VramOf(ds) : MaxEligibleVram(ds) >= v
  <1> DEFINE D == {e \in ds : Eligible(e)}
  <1>1. IsFiniteSet(D) /\ \A d \in D : Vram[d] \in Nat
    <2>1. IsFiniteSet(AllCards)
      BY HardwareAssumption, FS_Union DEF AllCards
    <2>2. D \in SUBSET AllCards /\ \A d \in AllCards : Vram[d] \in Nat
      BY HardwareAssumption DEF AllCards
    <2> HIDE DEF D
    <2> QED BY <2>1, <2>2, FS_Subset
  <1>2. VramOf(ds) = {Vram[d] : d \in D} \cup {0}
    BY DEF VramOf
  <1> HIDE DEF D
  <1>3. \E x \in VramOf(ds) : \A y \in VramOf(ds) : x >= y
    <2>1. CASE D = {}
      BY <1>2, <2>1
    <2>2. CASE D # {}
      BY <1>1, <1>2, <2>2, LargestCard
    <2> QED BY <2>1, <2>2
  <1>4. MaxEligibleVram(ds) = CHOOSE x \in VramOf(ds) : \A y \in VramOf(ds) : x >= y
    BY DEF MaxEligibleVram, VramOf, Max
  <1>5. VramOf(ds) \subseteq Nat
    BY <1>1, <1>2
  <1> HIDE DEF VramOf
  <1> QED BY <1>3, <1>4, <1>5

\* More cards never close a VRAM gate.
LEMMA MoreCardsMoreVram ==
  ASSUME NEW few \in SUBSET AllCards, NEW many \in SUBSET AllCards, few \subseteq many
  PROVE  MaxEligibleVram(many) >= MaxEligibleVram(few)
  <1>1. VramOf(few) \subseteq VramOf(many)
    BY DEF VramOf
  <1> QED BY <1>1, LargestVram

\* decide_threads takes the most that its limits allow, and at least one.
LEMMA ThreadsAreTheMost ==
  ASSUME NEW logical \in Nat \ {0}, NEW physical \in Nat, NEW fits \in Nat
  PROVE  LET t == DecideThreads(logical, physical, fits)
             allowed(u) == (physical > 0 => u <= physical) /\ (fits > 0 => u <= fits)
         IN  t \in 1..logical /\ allowed(t) /\ \A u \in 1..logical : allowed(u) => u <= t
  BY DEF DecideThreads, Cap, Least

----------------------------------------------------------------------------
(* The inductive invariant. *)

Answered == [told : BOOLEAN, cards : SUBSET AllCards]

ProbeTypes ==
  /\ os \in Platforms
  /\ pc \in [Callers -> {"idle", "nvidia", "amd", "merge"}]
  /\ child \in [Callers -> {"none", "running", "ok", "failed"}]
  /\ pipe \in [Callers -> BOOLEAN] /\ due \in [Callers -> BOOLEAN]
  /\ answer \in [Callers -> [Halves -> Answered]]
  /\ \A c \in Callers, h \in Halves : answer[c][h].cards \subseteq Cards[h]
  /\ read \in [Callers -> [physical : 0..Cardinality(Cores), fits : Nat]]
  /\ lastGood \in Answered /\ absent \in SUBSET AllCards

\* A tool runs for the half its caller is at.
ToolOfHalf == \A c \in Callers : child[c] # "none" => pc[c] \in Halves

\* What an answer, or the last good list, does not have was left out by a tool.
AnswersAccounted ==
  \A c \in Callers, h \in Halves : answer[c][h].told => Cards[h] \ answer[c][h].cards \subseteq absent
ListAccounted == lastGood.told => AllCards \ lastGood.cards \subseteq absent

ProbeInv == ProbeTypes /\ ToolOfHalf /\ AnswersAccounted /\ ListAccounted

LEMMA AnswerTypes ==
  /\ Hung \in Answered /\ ~Hung.told /\ Hung.cards = {}
  /\ \A cs \in SUBSET AllCards : Some(cs) \in Answered /\ Some(cs).told /\ Some(cs).cards = cs
  /\ \A h \in Halves : Cards[h] \subseteq AllCards
  BY DEF Hung, Some, Answered, Halves, AllCards

LEMMA ProbeInit == HardwareInit => ProbeInv
  <1> SUFFICES ASSUME HardwareInit PROVE ProbeInv
    OBVIOUS
  <1>1. 0 \in 0..Cardinality(Cores)
    BY HardwareAssumption, FS_CardinalityType
  <1>2. ProbeTypes
    BY <1>1, AnswerTypes DEF HardwareInit, ProbeTypes
  <1> QED BY <1>2, AnswerTypes DEF HardwareInit, ProbeInv, ToolOfHalf, AnswersAccounted, ListAccounted

\* What is read of the topology.
LEMMA DetectKeeps ==
  ASSUME ProbeInv, NEW c \in Callers, Detect(c)
  PROVE  ProbeInv'
  <1>1. PICK cores \in SUBSET Cores, caches \in SUBSET Caches : \E fits \in L3(caches) :
           read' = [read EXCEPT ![c] = [physical |-> PhysicalCores(cores), fits |-> fits]]
    BY DEF Detect
  <1>2. PICK fits \in L3(caches) :
           read' = [read EXCEPT ![c] = [physical |-> PhysicalCores(cores), fits |-> fits]]
    BY <1>1
  <1>3. PhysicalCores(cores) \in 0..Cardinality(Cores)
    BY HardwareAssumption, FS_Subset, FS_CardinalityType DEF PhysicalCores
  <1>4. fits \in Nat
    BY HardwareAssumption DEF L3, CacheSize
  <1>5. read' \in [Callers -> [physical : 0..Cardinality(Cores), fits : Nat]]
    BY <1>2, <1>3, <1>4 DEF ProbeInv, ProbeTypes
  <1> QED BY <1>5 DEF Detect, probeVars, ProbeInv, ProbeTypes, ToolOfHalf, AnswersAccounted,
                      ListAccounted, Halves

\* A half has answered: what the answer does not have is accounted for.
LEMMA AnswersKeeps ==
  ASSUME ProbeInv, NEW c \in Callers, pc[c] \in Halves, NEW a \in Answered, Answers(c, a),
         a.cards \subseteq Cards[pc[c]], absent' \in SUBSET AllCards, absent \subseteq absent',
         a.told => Cards[pc[c]] \ a.cards \subseteq absent'
  PROVE  ProbeInv'
  <1>1. /\ \A d \in Callers, h \in Halves :
             answer'[d][h] = IF d = c /\ h = pc[c] THEN a ELSE answer[d][h]
        /\ answer' \in [Callers -> [Halves -> Answered]]
    BY DEF Answers, ProbeInv, ProbeTypes
  <1>2. ProbeTypes'
    BY <1>1 DEF Answers, ProbeInv, ProbeTypes
  <1>3. ToolOfHalf'
    BY DEF Answers, ProbeInv, ProbeTypes, ToolOfHalf
  <1>4. AnswersAccounted'
    BY <1>1 DEF ProbeInv, AnswersAccounted
  <1>5. ListAccounted'
    BY DEF Answers, ProbeInv, ListAccounted
  <1> QED BY <1>2, <1>3, <1>4, <1>5 DEF ProbeInv

LEMMA ToolKeeps ==
  ASSUME ProbeInv, NEW c \in Callers,
         SpawnTool(c) \/ ChildEnds(c, "ok") \/ ChildEnds(c, "failed") \/ PipeEnds(c) \/ Deadline(c)
  PROVE  ProbeInv'
  <1> USE DEF ProbeInv, ProbeTypes, ToolOfHalf, AnswersAccounted, ListAccounted
  <1>1. CASE SpawnTool(c) /\ pc[c] \in Tools
    BY <1>1 DEF SpawnTool
  <1>2. CASE SpawnTool(c) /\ pc[c] \notin Tools
    <2>1. pc[c] \in Halves /\ Answers(c, Hung) /\ UNCHANGED absent
      BY <1>2 DEF SpawnTool
    <2> QED BY <2>1, AnswerTypes, AnswersKeeps
  <1>3. CASE ChildEnds(c, "ok") \/ ChildEnds(c, "failed")
    BY <1>3 DEF ChildEnds
  <1>4. CASE PipeEnds(c)
    BY <1>4 DEF PipeEnds
  <1>5. CASE Deadline(c)
    BY <1>5 DEF Deadline
  <1> QED BY <1>1, <1>2, <1>3, <1>4, <1>5

LEMMA HalfKeeps ==
  ASSUME ProbeInv, NEW c \in Callers, Sysfs(c) \/ Collect(c) \/ Kill(c)
  PROVE  ProbeInv'
  <1>1. pc[c] \in Halves /\ Cards[pc[c]] \subseteq AllCards /\ absent \in SUBSET AllCards
    BY AnswerTypes DEF Sysfs, Collect, Kill, ProbeInv, ProbeTypes, ToolOfHalf
  <1>2. CASE Sysfs(c)
    <2>1. Answers(c, Some(Cards[pc[c]])) /\ UNCHANGED absent
      BY <1>2 DEF Sysfs
    <2> QED BY <1>1, <2>1, AnswerTypes, AnswersKeeps
  <1>3. CASE Collect(c)
    <2> DEFINE cards == IF child[c] = "ok" /\ pipe[c] THEN Cards[pc[c]] ELSE {}
    <2>1. Answers(c, Some(cards)) /\ absent' = absent \cup (Cards[pc[c]] \ cards)
      BY <1>3 DEF Collect
    <2>2. cards \subseteq Cards[pc[c]] /\ cards \in SUBSET AllCards
      BY <1>1
    <2>3. Some(cards) \in Answered /\ Some(cards).cards = cards
      BY <2>2, AnswerTypes
    <2> HIDE DEF cards
    <2> QED BY <1>1, <2>1, <2>2, <2>3, AnswersKeeps
  <1>4. CASE Kill(c)
    <2>1. Answers(c, Hung) /\ UNCHANGED absent
      BY <1>4 DEF Kill
    <2> QED BY <1>1, <2>1, AnswerTypes, AnswersKeeps
  <1> QED BY <1>2, <1>3, <1>4

\* A complete answer has what no tool left out.
LEMMA FoundIsAccounted ==
  ASSUME ProbeInv, NEW c \in Callers
  PROVE  /\ Found(c) \in Answered /\ Found(c).told
         /\ Complete(c) => AllCards \ Found(c).cards \subseteq absent
  <1> DEFINE cs == UNION {answer[c][h].cards : h \in Halves}
  <1>1. cs \in SUBSET AllCards
    BY DEF ProbeInv, ProbeTypes, Answered
  <1>2. Found(c) = Some(cs)
    BY DEF Found
  <1>3. Found(c) \in Answered /\ Found(c).told /\ Found(c).cards = cs
    BY <1>1, <1>2, AnswerTypes
  <1>4. ASSUME Complete(c), NEW d \in AllCards, d \notin cs PROVE d \in absent
    <2>1. PICK h \in Halves : d \in Cards[h]
      BY DEF AllCards, Halves
    <2>2. d \notin answer[c][h].cards
      BY <1>4
    <2> QED BY <1>4, <2>1, <2>2 DEF Complete, ProbeInv, AnswersAccounted
  <1> QED BY <1>3, <1>4

LEMMA MergeKeeps ==
  ASSUME ProbeInv, NEW c \in Callers, Merge(c)
  PROVE  ProbeInv'
  <1>1. lastGood' \in Answered /\ (lastGood'.told => AllCards \ lastGood'.cards \subseteq absent)
    BY FoundIsAccounted DEF Merge, ProbeInv, ProbeTypes, ListAccounted
  <1>2. 0 \in 0..Cardinality(Cores)
    BY HardwareAssumption, FS_CardinalityType
  <1>3. ProbeTypes'
    BY <1>1, <1>2, AnswerTypes DEF Merge, probeVars, ProbeInv, ProbeTypes
  <1>4. child[c] = "none" /\ ToolOfHalf'
    BY DEF Merge, probeVars, ProbeInv, ProbeTypes, ToolOfHalf, Halves
  <1>5. AnswersAccounted'
    BY AnswerTypes DEF Merge, ProbeInv, ProbeTypes, AnswersAccounted
  <1> QED BY <1>1, <1>3, <1>4, <1>5 DEF Merge, ProbeInv, ListAccounted

LEMMA ProbeStep == ProbeInv /\ [HardwareNext]_hardwareVars => ProbeInv'
  <1> SUFFICES ASSUME ProbeInv, [HardwareNext]_hardwareVars PROVE ProbeInv'
    OBVIOUS
  <1>1. CASE UNCHANGED hardwareVars
    BY <1>1 DEF hardwareVars, ProbeInv, ProbeTypes, ToolOfHalf, AnswersAccounted, ListAccounted
  <1>2. ASSUME NEW c \in Callers, Detect(c) PROVE ProbeInv'
    BY <1>2, DetectKeeps
  <1>3. ASSUME NEW c \in Callers,
               \/ SpawnTool(c) \/ ChildEnds(c, "ok") \/ ChildEnds(c, "failed")
               \/ PipeEnds(c) \/ Deadline(c)
        PROVE  ProbeInv'
    BY <1>3, ToolKeeps
  <1>4. ASSUME NEW c \in Callers, Sysfs(c) \/ Collect(c) \/ Kill(c) PROVE ProbeInv'
    BY <1>4, HalfKeeps
  <1>5. ASSUME NEW c \in Callers, Merge(c) PROVE ProbeInv'
    BY <1>5, MergeKeeps
  <1> QED BY <1>1, <1>2, <1>3, <1>4, <1>5 DEF HardwareNext, Step

----------------------------------------------------------------------------
(* Theorems. *)

\* Whatever an answer or the last good list does not have, some tool left out.
THEOREM ProbeInvariance == HardwareSpec => []ProbeInv
  <1> QED BY ProbeInit, ProbeStep, PTL DEF HardwareSpec

\* For any cores and caches, whichever of them could be read, usable_threads is the
\* most that the limits it knows allow, and at least one.
THEOREM ThreadsAlwaysFit == HardwareSpec => []HardwareInv
  <1>1. ProbeInv => HardwareInv
    <2> SUFFICES ASSUME ProbeInv PROVE HardwareInv
      OBVIOUS
    <2>1. HardwareTypeOK
      <3>1. /\ \A c \in Callers : read[c].physical \in 0..Cardinality(Cores) /\ read[c].fits \in Nat
            /\ lastGood.cards \subseteq AllCards
        BY DEF ProbeInv, ProbeTypes, Answered
      <3> QED BY <3>1 DEF ProbeInv, ProbeTypes, HardwareTypeOK
    <2>2. ASSUME NEW c \in Callers
          PROVE  /\ usableThreads(c) \in 1..Logical /\ Allowed(read[c], usableThreads(c))
                 /\ \A t \in 1..Logical : Allowed(read[c], t) => t <= usableThreads(c)
      <3>1. read[c].physical \in Nat /\ read[c].fits \in Nat
        BY HardwareAssumption, FS_CardinalityType DEF ProbeInv, ProbeTypes
      <3> QED BY <3>1, HardwareAssumption, ThreadsAreTheMost DEF usableThreads, Allowed
    <2> QED BY <2>1, <2>2 DEF HardwareInv, ThreadsFit
  <1> QED BY <1>1, ProbeInvariance, PTL

\* For any number of callers and cards: once a full list was had, a tool that hangs
\* takes no card from what detect_gpus returns and closes no VRAM gate.
THEOREM NoHangHidesACard == HardwareSpec => []ListedUnlessTold
  <1>1. ProbeInv => ListedUnlessTold
    <2> SUFFICES ASSUME ProbeInv, NEW c \in Callers, lastGood.told
                 PROVE  /\ AllCards \ Returned(c).cards \subseteq absent
                        /\ MaxEligibleVram(Returned(c).cards) >= MaxEligibleVram(AllCards \ absent)
      BY DEF ListedUnlessTold
    <2>1. Returned(c) \in Answered /\ AllCards \ Returned(c).cards \subseteq absent
      BY FoundIsAccounted DEF Returned, ProbeInv, ProbeTypes, ListAccounted
    <2>2. Returned(c).cards \in SUBSET AllCards /\ AllCards \ absent \subseteq Returned(c).cards
      BY <2>1 DEF Answered
    <2> QED BY <2>1, <2>2, MoreCardsMoreVram
  <1> QED BY <1>1, ProbeInvariance, PTL

=============================================================================
