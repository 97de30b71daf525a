---------------------------- MODULE VerusEngine ----------------------------
(***************************************************************************)
(* The in-process Verus miner (crates/pasiv-core/src/verus.rs): a stratum  *)
(* thread that connects, writes shares and reconnects, a reader thread per *)
(* connection that takes the pool's lines, and workers that hash.  They    *)
(* share the fields of Engine: atomics, three values each under a lock of  *)
(* its own, and a queue of shares.                                         *)
(*                                                                         *)
(* Every load or store of shared state that another thread can come        *)
(* between is a step of its own; a chunk of hashes is one step.  Values    *)
(* carry what tells them apart: a job its session, number and whether it   *)
(* is long enough to hash, an extranonce its session, a target a number.   *)
(* The bytes a header is assembled from are left to the code's tests, and  *)
(* the pool's answers to shares, which only counters shown to the user     *)
(* take note of, are left out.                                             *)
(*                                                                         *)
(* The pool may refuse or close a connection, fall silent without closing  *)
(* it, answer in any order, or send jobs that cannot be used, until it is  *)
(* `calm`.  The adapter around the engine pauses, resumes and stops it.    *)
(* Left out: a write that blocks on a peer which stops reading, and the    *)
(* time a connection attempt takes.                                        *)
(***************************************************************************)
EXTENDS Integers

CONSTANTS
  Worker,      \* worker threads
  Space,       \* chunks in a worker's nonce space, after which its counter wraps around
  MaxSession,  \* bound: connections the pool accepts
  MaxJobs,     \* bound: jobs per connection
  MaxRetarget, \* bound: targets per connection
  MaxQueue     \* bound: shares waiting to be written

ASSUME EngineAssumption ==
  /\ Space \in Nat \ {0} /\ MaxSession \in Nat \ {0} /\ MaxJobs \in Nat \ {0}
  /\ MaxRetarget \in Nat /\ MaxQueue \in Nat \ {0}

VARIABLES
  shutdown, paused,          \* Engine's flags, set by the adapter
  linkDown,                  \* link_down
  job, target, extranonce1,  \* the three values under locks
  queued,                    \* shares in the queue
  stratum,                   \* where the stratum thread is
  socket,                    \* its connection: "none", "open", "closed" (by the peer),
                             \* "silent" (the peer is gone, nobody said so), "shut" (by us)
  reader,                    \* the reader thread: "off", "read", "bump", "down", "ended"
  worker,                    \* the workers' local variables, and of gen what they ask:
                             \* has it moved since local_gen (moved), and since it was last
                             \* loaded (movedSince)?
  session, answered, jobs, retargets,  \* the pool: connections accepted so far; on this one,
                             \* whether it has answered the subscription, jobs and targets sent
  calm                       \* the pool behaves from now on

engine == <<shutdown, paused, linkDown, job, target, extranonce1, queued>>
pool   == <<session, answered, jobs, retargets, calm>>
vars   == <<engine, stratum, socket, reader, worker, pool>>

Job      == [session : 0..MaxSession, number : 0..MaxJobs, whole : BOOLEAN]
NoJob    == [session |-> 0, number |-> 0, whole |-> FALSE]
NoNonce  == 0     \* the empty extranonce; otherwise the session that gave it
AnyHash  == 0     \* the target [0xff; 32]
Loading  == {"job", "extranonce", "target"}   \* a worker between its load of gen and its match
WorkerState ==
  [pc : {"check", "job", "extranonce", "target", "hash", "done"},
   moved : BOOLEAN, movedSince : BOOLEAN,
   job : Job, e1 : 0..MaxSession, target : 0..MaxRetarget,
   header : [job : Job, e1 : 0..MaxSession], ctr : 0..(Space - 1)]

Connected == stratum \in {"loop", "recv"}

Init ==
  /\ shutdown = FALSE /\ paused = FALSE /\ linkDown = FALSE
  /\ job = NoJob /\ target = AnyHash /\ extranonce1 = NoNonce /\ queued = 0
  /\ stratum = "top" /\ socket = "none" /\ reader = "off"
  /\ worker = [w \in Worker |->
       [pc |-> "check", moved |-> TRUE, movedSince |-> FALSE, job |-> NoJob, e1 |-> NoNonce,
        target |-> AnyHash, header |-> [job |-> NoJob, e1 |-> NoNonce], ctr |-> 0]]
  /\ session = 0 /\ answered = FALSE /\ jobs = 0 /\ retargets = 0 /\ calm = FALSE

----------------------------------------------------------------------------
(* The adapter and the pool.                                                *)

Stop ==
  /\ ~shutdown /\ shutdown' = TRUE
  /\ UNCHANGED <<paused, linkDown, job, target, extranonce1, queued, stratum, socket,
                 reader, worker, pool>>

PauseOrResume ==
  /\ ~shutdown /\ paused' = ~paused
  /\ UNCHANGED <<shutdown, linkDown, job, target, extranonce1, queued, stratum, socket,
                 reader, worker, pool>>

\* From now on the pool behaves; it has not left this connection without an extranonce or,
\* within the bound, without a job.
PoolCalms ==
  /\ ~calm /\ ~shutdown /\ (answered => extranonce1 = session) /\ (jobs = MaxJobs => job.whole)
  /\ calm' = TRUE
  /\ UNCHANGED <<engine, stratum, socket, reader, worker, session, answered, jobs, retargets>>

\* The connection is closed by the pool, or lost without a word.
PoolGoes ==
  /\ ~calm /\ session < MaxSession /\ socket = "open"
  /\ socket' \in {"closed", "silent"}
  /\ UNCHANGED <<engine, stratum, reader, worker, pool>>

----------------------------------------------------------------------------
(* The stratum thread.                                                      *)

\* while !stopping
StratumEnds ==
  /\ stratum = "top" /\ shutdown
  /\ stratum' = "done"
  /\ UNCHANGED <<engine, socket, reader, worker, pool>>

ConnectFails ==
  /\ stratum = "top" /\ ~shutdown /\ ~calm
  /\ linkDown' = TRUE
  /\ UNCHANGED <<shutdown, paused, job, target, extranonce1, queued, stratum, socket,
                 reader, worker, pool>>

\* Slip: a connection that does not clear link_down.
ConnectKeepsLinkDown ==
  /\ stratum = "top" /\ ~shutdown /\ session < MaxSession
  /\ socket' = "open" /\ stratum' = "handshake"
  /\ session' = session + 1 /\ answered' = FALSE /\ jobs' = 0 /\ retargets' = 0
  /\ UNCHANGED <<engine, reader, worker, calm>>

\* No reader is alive here, so nothing can set link_down between connect and the store.
Connect ==
  /\ stratum = "top" /\ ~shutdown /\ session < MaxSession
  /\ socket' = "open" /\ linkDown' = FALSE /\ stratum' = "handshake"
  /\ session' = session + 1 /\ answered' = FALSE /\ jobs' = 0 /\ retargets' = 0
  /\ UNCHANGED <<shutdown, paused, job, target, extranonce1, queued, reader, worker, calm>>

\* subscribe, extranonce.subscribe and authorize are written; the reader starts.
Handshake ==
  /\ stratum = "handshake"
  /\ reader' = "read" /\ stratum' = "loop"
  /\ UNCHANGED <<engine, socket, worker, pool>>

\* A write fails: run_session returns before there is a reader.
HandshakeFails ==
  /\ stratum = "handshake" /\ socket # "open"
  /\ socket' = "none" /\ linkDown' = TRUE /\ stratum' = "top"
  /\ UNCHANGED <<shutdown, paused, job, target, extranonce1, queued, reader, worker, pool>>

CheckLink ==
  /\ stratum = "loop"
  /\ stratum' = IF shutdown \/ linkDown THEN "shut" ELSE "recv"
  /\ UNCHANGED <<engine, socket, reader, worker, pool>>

\* recv_timeout elapses.  (The engine itself holds a sender: it never disconnects.)
RecvTimeout ==
  /\ stratum = "recv" /\ queued = 0
  /\ stratum' = "loop"
  /\ UNCHANGED <<engine, socket, reader, worker, pool>>

\* A write to a connection the peer has left may still succeed: then the share is lost.
SubmitShare ==
  /\ stratum = "recv" /\ queued > 0
  /\ queued' = queued - 1 /\ stratum' = "loop"
  /\ UNCHANGED <<shutdown, paused, linkDown, job, target, extranonce1, socket, reader,
                 worker, pool>>

SubmitFails ==
  /\ stratum = "recv" /\ queued > 0 /\ socket # "open"
  /\ queued' = queued - 1 /\ stratum' = "shut"
  /\ UNCHANGED <<shutdown, paused, linkDown, job, target, extranonce1, socket, reader,
                 worker, pool>>

\* Slip: the reader is joined without shutting the socket down.
ShutNothing ==
  /\ stratum = "shut" /\ stratum' = "join"
  /\ UNCHANGED <<engine, socket, reader, worker, pool>>

Shut ==
  /\ stratum = "shut"
  /\ socket' = "shut" /\ stratum' = "join"
  /\ UNCHANGED <<engine, reader, worker, pool>>

\* After a failed write link_down is set again, to what the reader has made it already.
Join ==
  /\ stratum = "join" /\ reader = "ended"
  /\ reader' = "off" /\ socket' = "none" /\ stratum' = "top"
  /\ UNCHANGED <<engine, worker, pool>>

----------------------------------------------------------------------------
(* The reader thread.  A value is stored under its lock, then gen is bumped. *)

Hears == reader = "read" /\ socket \notin {"none", "silent"} /\ ~shutdown

\* The reply to the subscription; one without an extranonce is passed over.
ReadSubscribed(hasNonce) ==
  /\ Hears /\ ~answered /\ (hasNonce \/ (~calm /\ session < MaxSession))
  /\ answered' = TRUE
  /\ \/ hasNonce /\ extranonce1' = session /\ reader' = "bump"
     \/ ~hasNonce /\ UNCHANGED <<extranonce1, reader>>
  /\ UNCHANGED <<shutdown, paused, linkDown, job, target, queued, stratum, socket, worker,
                 session, jobs, retargets, calm>>

ReadSetTarget ==
  /\ Hears /\ retargets < MaxRetarget
  /\ retargets' = retargets + 1
  /\ target' = retargets + 1 /\ reader' = "bump"
  /\ UNCHANGED <<shutdown, paused, linkDown, job, extranonce1, queued, stratum, socket,
                 worker, session, answered, jobs, calm>>

\* A job whose fields are too short is kept like any other.
ReadNotify(whole) ==
  /\ Hears /\ jobs < MaxJobs /\ (whole \/ (~calm /\ session < MaxSession))
  /\ jobs' = jobs + 1
  /\ job' = [session |-> session, number |-> jobs + 1, whole |-> whole] /\ reader' = "bump"
  /\ UNCHANGED <<shutdown, paused, linkDown, target, extranonce1, queued, stratum, socket,
                 worker, session, answered, retargets, calm>>

\* gen.fetch_add: it now differs from what the workers have loaded.
Bump ==
  /\ reader = "bump"
  /\ worker' = [w \in Worker |->
       [worker[w] EXCEPT !.moved = TRUE, !.movedSince = worker[w].pc \in Loading]]
  /\ reader' = "read"
  /\ UNCHANGED <<engine, stratum, socket, pool>>

\* The lines of a closed connection end.
ReadEof ==
  /\ reader = "read" /\ socket \in {"closed", "shut"}
  /\ reader' = "down"
  /\ UNCHANGED <<engine, stratum, socket, worker, pool>>

\* A line arrives after a stop.
ReadAfterStop ==
  /\ reader = "read" /\ socket = "open" /\ shutdown
  /\ reader' = "down"
  /\ UNCHANGED <<engine, stratum, socket, worker, pool>>

\* Slip: the reader ends without a word.
ReaderEndsQuietly ==
  /\ reader = "down" /\ reader' = "ended"
  /\ UNCHANGED <<engine, stratum, socket, worker, pool>>

ReaderEnds ==
  /\ reader = "down"
  /\ linkDown' = TRUE /\ reader' = "ended"
  /\ UNCHANGED <<shutdown, paused, job, target, extranonce1, queued, stratum, socket,
                 worker, pool>>

----------------------------------------------------------------------------
(* The workers.                                                             *)

Others == <<shutdown, paused, linkDown, job, target, extranonce1, stratum, socket, reader,
            pool>>

WorkerEnds(w) ==
  /\ worker[w].pc = "check" /\ shutdown
  /\ worker' = [worker EXCEPT ![w].pc = "done"]
  /\ UNCHANGED <<Others, queued>>

\* The generation is the one in hand: on with the next chunk.
KeepJob(w) ==
  /\ worker[w].pc = "check" /\ ~shutdown /\ ~paused /\ ~worker[w].moved
  /\ worker' = [worker EXCEPT ![w].pc = "hash"]
  /\ UNCHANGED <<Others, queued>>

LoadGen(w) ==
  /\ worker[w].pc = "check" /\ ~shutdown /\ ~paused /\ worker[w].moved
  /\ worker' = [worker EXCEPT ![w].movedSince = FALSE, ![w].pc = "job"]
  /\ UNCHANGED <<Others, queued>>

LoadJob(w) ==
  /\ worker[w].pc = "job"
  /\ worker' = [worker EXCEPT ![w].job = job, ![w].pc = "extranonce"]
  /\ UNCHANGED <<Others, queued>>

LoadExtranonce(w) ==
  /\ worker[w].pc = "extranonce"
  /\ worker' = [worker EXCEPT ![w].e1 = extranonce1, ![w].pc = "target"]
  /\ UNCHANGED <<Others, queued>>

\* The job and extranonce a worker has read can be assembled into a header.
Usable(v) == v.job.whole /\ v.e1 # NoNonce

\* Slip: gen is loaded once more after the three values.
TakeUpReloads(v) ==
  [v EXCEPT !.header = [job |-> v.job, e1 |-> v.e1], !.moved = FALSE, !.ctr = 0, !.pc = "hash"]

\* What a worker hashes from here on: the header assembled, the generation it was read
\* under, and the nonce counter back at the worker's id.
TakeUp(v) ==
  [v EXCEPT !.header = [job |-> v.job, e1 |-> v.e1], !.moved = v.movedSince, !.ctr = 0,
            !.pc = "hash"]

\* The values read are forgotten once taken up or passed over.
Forget(v) == [v EXCEPT !.movedSince = FALSE, !.job = NoJob, !.e1 = NoNonce]

\* The last of the three locks; the match that follows touches nothing shared.
LoadTarget(w) ==
  LET v == [worker[w] EXCEPT !.target = target] IN
  /\ v.pc = "target"
  /\ worker' = [worker EXCEPT ![w] =
                  Forget(IF Usable(v) THEN TakeUp(v) ELSE [v EXCEPT !.pc = "check"])]
  /\ UNCHANGED <<Others, queued>>

\* Slip: a counter that does not wrap.
NextChunkPlain(c) == c + 1

NextChunk(c) == (c + 1) % Space

\* A chunk of hashes, with a share in it or none.
Hash(w) ==
  /\ worker[w].pc = "hash"
  /\ worker' = [worker EXCEPT ![w].ctr = NextChunk(worker[w].ctr), ![w].pc = "check"]
  /\ UNCHANGED <<Others, queued>>

HashFinds(w) ==
  /\ worker[w].pc = "hash" /\ queued < MaxQueue
  /\ queued' = queued + 1
  /\ worker' = [worker EXCEPT ![w].ctr = NextChunk(worker[w].ctr), ![w].pc = "check"]
  /\ UNCHANGED Others

----------------------------------------------------------------------------

Stratum ==
  \/ StratumEnds \/ Connect \/ Handshake \/ HandshakeFails \/ CheckLink \/ RecvTimeout
  \/ SubmitShare \/ SubmitFails \/ Shut \/ Join

Reader ==
  \/ \E b \in BOOLEAN : ReadSubscribed(b) \/ ReadNotify(b)
  \/ ReadSetTarget \/ Bump \/ ReadEof \/ ReadAfterStop \/ ReaderEnds

Work(w) ==
  \/ WorkerEnds(w) \/ KeepJob(w) \/ LoadGen(w) \/ LoadJob(w) \/ LoadExtranonce(w)
  \/ LoadTarget(w) \/ Hash(w) \/ HashFinds(w)

Stopped == /\ stratum = "done" /\ reader = "off"
           /\ \A w \in Worker : worker[w].pc = "done"

Next ==
  \/ Stop \/ PauseOrResume \/ PoolCalms \/ PoolGoes
  \/ Stratum \/ ConnectFails
  \/ Reader
  \/ \E w \in Worker : Work(w)
  \/ Stopped /\ UNCHANGED vars

Spec == Init /\ [][Next]_vars

\* Threads are scheduled, reads of a dead socket return, a calm pool answers and gives work,
\* hashing finds shares, and writes to a connection without a peer fail in the end.
FairSpec ==
  /\ Spec
  /\ WF_vars(Stratum)
  /\ WF_vars(Bump) /\ WF_vars(ReadEof) /\ WF_vars(ReaderEnds)
  /\ WF_vars(calm /\ ReadSubscribed(TRUE))
  /\ WF_vars(calm /\ ~(job.session = session /\ job.whole) /\ ReadNotify(TRUE))
  /\ \A w \in Worker : WF_vars(Work(w)) /\ SF_vars(HashFinds(w))
  /\ SF_vars(SubmitFails)

----------------------------------------------------------------------------
(* Properties.                                                              *)

TypeOK ==
  /\ shutdown \in BOOLEAN /\ paused \in BOOLEAN /\ linkDown \in BOOLEAN
  /\ job \in Job /\ target \in 0..MaxRetarget
  /\ extranonce1 \in 0..MaxSession /\ queued \in 0..MaxQueue
  /\ stratum \in {"top", "handshake", "loop", "recv", "shut", "join", "done"}
  /\ socket \in {"none", "open", "closed", "silent", "shut"}
  /\ reader \in {"off", "read", "bump", "down", "ended"}
  /\ worker \in [Worker -> WorkerState]
  /\ session \in 0..MaxSession /\ answered \in BOOLEAN /\ jobs \in 0..MaxJobs
  /\ retargets \in 0..MaxRetarget /\ calm \in BOOLEAN

\* "Bumped on every job/target/extranonce change; workers re-snapshot when it moves": a
\* worker that sees its own generation hashes exactly the values in force, although it
\* read them one lock at a time, unless the reader is about to bump.
CaughtUp ==
  \A w \in Worker :
    LET v == worker[w] IN
    ~v.moved /\ reader # "bump" /\ v.pc \in {"check", "hash"} =>
      v.header = [job |-> job, e1 |-> extranonce1] /\ v.target = target

\* link_down tells the writer loop about its own connection, and about nothing else: in a
\* session it is set if and only if this session's reader has ended.
LinkDownIsOurs == Connected => (linkDown <=> reader = "ended")

\* What CaughtUp and LinkDownIsOurs rest on.  While a worker loads, it has not caught up,
\* and unless gen has moved since it began, what it has read is still in force.
LoadInv ==
  \A w \in Worker :
    LET v == worker[w] IN
    v.pc \in Loading =>
      /\ v.moved
      /\ ~v.movedSince /\ reader # "bump" =>
           /\ v.pc # "job" => v.job = job
           /\ v.pc = "target" => v.e1 = extranonce1

\* There is a reader while there is a session, and only then.
ReaderInv ==
  /\ stratum \in {"top", "handshake", "done"} => reader = "off"
  /\ stratum = "handshake" => ~linkDown
  /\ Connected => reader # "off"

IInv == TypeOK /\ CaughtUp /\ LinkDownIsOurs /\ LoadInv /\ ReaderInv

\* A stop ends all threads, whoever is blocked where, even on a silent connection.
Stops == shutdown ~> Stopped

\* The engine goes on hashing the work of the connection it has, with that connection's
\* extranonce, however many were lost before: unless it is stopped or paused, the pool
\* never behaves, or it is silent while no worker has anything to find shares in.
HashesCurrentWork(w) ==
  /\ worker[w].pc = "hash" /\ Connected /\ socket = "open"
  /\ worker[w].header.job.session = session /\ worker[w].header.e1 = session

Recovers ==
  /\ []~shutdown
  /\ <>[](calm /\ ~paused)
  /\ []<>(socket # "silent" \/ \E w \in Worker : worker[w].pc = "hash")
  => \A w \in Worker : []<>HashesCurrentWork(w)

\* "fresh nonce space per job": a worker that goes on with the same header does not go
\* back in its nonce space, where it would find its shares again.
NoncesUsedOnce ==
  [][\A w \in Worker :
       worker'[w].header = worker[w].header =>
         worker'[w].ctr \in {worker[w].ctr, NextChunk(worker[w].ctr)}]_vars

============================================================================
