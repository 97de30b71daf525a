-------------------------- MODULE CloudLink_proofs --------------------------
(***************************************************************************)
(* For any number of commands, releases and waiting messages, and whatever *)
(* is lost, repeated, expired or restarted: what the cloud counts as done  *)
(* was done.                                                               *)
(***************************************************************************)
EXTENDS CloudLink, FiniteSetTheorems, SequenceTheorems, TLAPS

\* What the answers rest on: only an applied command waits to be completed
\* with ok, and what the link still has to handle was given.
AnswerInv ==
  /\ cmds \in Seq(Actions)
  /\ open \subseteq DOMAIN cmds /\ acked \subseteq DOMAIN cmds
  /\ obeyed \subseteq DOMAIN cmds
  /\ batch \in Seq(DOMAIN cmds) /\ events \in Seq(DOMAIN cmds \cup {0})
  /\ done \in Seq([id : DOMAIN cmds, ok : BOOLEAN])
  /\ AckedWasObeyed
  /\ \A k \in DOMAIN done : done[k].ok => done[k].id \in obeyed

\* The commands of an answer are a sequence of commands the cloud holds.
LEMMA InOrderType == ASSUME NEW n \in Nat, NEW S \in SUBSET (1..n)
                     PROVE  InOrder(S) \subseteq Seq(S)
<1>1. IsFiniteSet(S)
  <2>1. IsFiniteSet(1..n) /\ S \subseteq 1..n
    BY FS_Interval
  <2>2. QED
    BY <2>1, FS_Subset
<1>2. Cardinality(S) \in Nat
  BY <1>1, FS_CardinalityType
<1>3. ASSUME NEW k \in Nat, NEW b \in [1..k -> S] PROVE b \in Seq(S)
  OBVIOUS
<1>4. QED
  BY <1>2, <1>3 DEF InOrder

\* A new command changes none of the earlier ones.
LEMMA GiveKeeps == ASSUME AnswerInv, NEW a \in Actions, Give(a) PROVE AnswerInv'
<1>1. /\ cmds' \in Seq(Actions) /\ DOMAIN cmds \subseteq DOMAIN cmds'
      /\ \A c \in DOMAIN cmds : cmds'[c] = cmds[c]
      /\ Len(cmds) + 1 \in DOMAIN cmds'
  BY DEF Give, AnswerInv
<1>2. batch' \in Seq(DOMAIN cmds') /\ events' \in Seq(DOMAIN cmds' \cup {0})
  <2>1. batch \in Seq(DOMAIN cmds) /\ events \in Seq(DOMAIN cmds \cup {0})
    BY DEF AnswerInv
  <2>2. batch \in Seq(DOMAIN cmds')
    BY <1>1, <2>1, SeqMonotonic
  <2>3. events \in Seq(DOMAIN cmds' \cup {0})
    BY <1>1, <2>1, SeqMonotonic
  <2>4. batch' = batch /\ events' = events
    BY DEF Give
  <2>5. QED
    BY <2>2, <2>3, <2>4
<1>3. done' \in Seq([id : DOMAIN cmds', ok : BOOLEAN])
  <2>1. [id : DOMAIN cmds, ok : BOOLEAN] \subseteq [id : DOMAIN cmds', ok : BOOLEAN]
    BY <1>1
  <2>2. done \in Seq([id : DOMAIN cmds, ok : BOOLEAN])
    BY DEF AnswerInv
  <2>3. done \in Seq([id : DOMAIN cmds', ok : BOOLEAN])
    BY <2>1, <2>2, SeqMonotonic
  <2>4. QED
    BY <2>3 DEF Give
<1>4. /\ open' \subseteq DOMAIN cmds' /\ acked' \subseteq DOMAIN cmds'
      /\ obeyed' \subseteq DOMAIN cmds'
  BY <1>1 DEF Give, AnswerInv, nodeVars
<1>5. AckedWasObeyed'
  BY <1>1 DEF Give, AnswerInv, AckedWasObeyed, nodeVars
<1>6. QED
  BY <1>1, <1>2, <1>3, <1>4, <1>5 DEF Give, AnswerInv, nodeVars

\* An answer counts only for a command that was asked to be completed with ok.
LEMMA PostKeeps ==
  ASSUME AnswerInv, NEW c \in DOMAIN cmds, NEW ok, NEW arrives, Post(c, ok, arrives),
         UNCHANGED <<cmds, obeyed>>,
         ok /\ cmds[c] \in {"start", "stop"} => c \in obeyed
  PROVE  open' \subseteq DOMAIN cmds' /\ acked' \subseteq DOMAIN cmds' /\ AckedWasObeyed'
  BY DEF AnswerInv, Post, AckedWasObeyed

LEMMA CompleteKeeps == AnswerInv /\ Complete => AnswerInv'
<1> SUFFICES ASSUME AnswerInv, Complete PROVE AnswerInv'
  OBVIOUS
<1>1. PICK arrives \in BOOLEAN : Post(Head(done).id, Head(done).ok, arrives)
  BY DEF Complete
<1>2. /\ Head(done) = done[1] /\ 1 \in DOMAIN done
      /\ done[1] \in [id : DOMAIN cmds, ok : BOOLEAN]
  <2> DEFINE Answer == [id : DOMAIN cmds, ok : BOOLEAN]
  <2>1. done \in Seq(Answer) /\ done # <<>>
    BY DEF Complete, AnswerInv
  <2> HIDE DEF Answer
  <2>2. Head(done) = done[1] /\ 1 \in DOMAIN done /\ done[1] \in Answer
    BY <2>1
  <2>3. QED
    BY <2>2 DEF Answer
<1>3. Head(done).id \in DOMAIN cmds /\ (Head(done).ok => Head(done).id \in obeyed)
  BY <1>2 DEF AnswerInv
<1>4. UNCHANGED <<cmds, obeyed, batch, events>> /\ done' = Tail(done)
  BY DEF Complete, nodeVars
<1>5. open' \subseteq DOMAIN cmds' /\ acked' \subseteq DOMAIN cmds' /\ AckedWasObeyed'
  BY <1>1, <1>3, <1>4, PostKeeps
<1>6. /\ done' \in Seq([id : DOMAIN cmds, ok : BOOLEAN])
      /\ \A k \in DOMAIN done' : k + 1 \in DOMAIN done /\ done'[k] = done[k + 1]
  BY <1>2, <1>4 DEF AnswerInv
<1>7. QED
  BY <1>4, <1>5, <1>6 DEF AnswerInv

LEMMA UpdateKeeps == AnswerInv /\ Update => AnswerInv'
<1> SUFFICES ASSUME AnswerInv, Update PROVE AnswerInv'
  OBVIOUS
<1>1. PICK ok \in BOOLEAN, arrives \in BOOLEAN :
        /\ Post(Head(batch), ok, arrives)
        /\ events' = IF ok /\ behind THEN Append(events, Restart) ELSE events
  BY DEF Update
<1>2. Head(batch) \in DOMAIN cmds /\ cmds[Head(batch)] = "update"
  BY DEF Update, AnswerInv
<1>3. UNCHANGED <<cmds, obeyed, done>> /\ batch' = Tail(batch)
  BY DEF Update, nodeVars
<1>4. open' \subseteq DOMAIN cmds' /\ acked' \subseteq DOMAIN cmds' /\ AckedWasObeyed'
  BY <1>1, <1>2, <1>3, PostKeeps
<1>5. batch' \in Seq(DOMAIN cmds) /\ events' \in Seq(DOMAIN cmds \cup {0})
  BY <1>1, <1>3 DEF AnswerInv, Restart, Update
<1>6. QED
  BY <1>3, <1>4, <1>5 DEF AnswerInv

\* The miner loop answers what it has applied.
LEMMA ApplyKeeps == AnswerInv /\ Apply => AnswerInv'
<1> SUFFICES ASSUME AnswerInv, Apply PROVE AnswerInv'
  OBVIOUS
<1> DEFINE c == Head(events)
           known == cmds[c] \in {"start", "stop"}
<1>1. c \in DOMAIN cmds /\ events' = Tail(events) /\ events' \in Seq(DOMAIN cmds \cup {0})
  BY DEF Apply, AnswerInv, Restart
<1>2. /\ UNCHANGED <<cmds, open, acked, batch>>
      /\ done' = Append(done, [id |-> c, ok |-> known])
      /\ obeyed' = IF known THEN obeyed \cup {c} ELSE obeyed
  BY DEF Apply, cloudVars
<1>3. known \in BOOLEAN
  OBVIOUS
<1>4. done' \in Seq([id : DOMAIN cmds, ok : BOOLEAN])
  <2>1. [id |-> c, ok |-> known] \in [id : DOMAIN cmds, ok : BOOLEAN]
    BY <1>1, <1>3
  <2>2. QED
    BY <1>2, <2>1 DEF AnswerInv
<1>5. \A k \in DOMAIN done' : done'[k].ok => done'[k].id \in obeyed'
  <2>1. ASSUME NEW k \in DOMAIN done', done'[k].ok PROVE done'[k].id \in obeyed'
    <3>1. CASE k \in DOMAIN done
      <4>1. done'[k] = done[k]
        BY <1>2, <3>1 DEF AnswerInv
      <4>2. QED
        <5>1. done[k].ok
          BY <2>1, <4>1
        <5>2. done[k].id \in obeyed
          BY <3>1, <5>1 DEF AnswerInv
        <5>3. obeyed \subseteq obeyed'
          BY <1>2
        <5>4. QED
          BY <4>1, <5>2, <5>3
    <3>2. CASE k \notin DOMAIN done
      <4>1. done'[k] = [id |-> c, ok |-> known]
        BY <1>2, <3>2 DEF AnswerInv
      <4> HIDE DEF c, known
      <4>2. done'[k].id = c /\ done'[k].ok = known
        BY <4>1
      <4>3. known
        BY <2>1, <4>2, Zenon
      <4>4. QED
        BY <4>2, <4>3, <1>2
    <3>3. QED
      BY <3>1, <3>2
  <2>2. QED
    BY <2>1
<1>6. obeyed \subseteq obeyed' /\ obeyed' \subseteq DOMAIN cmds
  BY <1>1, <1>2 DEF AnswerInv
<1>7. AckedWasObeyed'
  BY <1>2, <1>6 DEF AnswerInv, AckedWasObeyed
<1>8. QED
  BY <1>1, <1>2, <1>4, <1>5, <1>6, <1>7 DEF AnswerInv

\* The steps that touch no answer.
LEMMA OthersKeep ==
  AnswerInv /\ (\/ \E c \in Ids : Expire(c)
                \/ Release \/ Push \/ HandOn \/ DailyCheck \/ Report
                \/ RestartForUpdate \/ Crash \/ Boot \/ Calm) => AnswerInv'
<1> USE DEF AnswerInv, AckedWasObeyed, cloudVars, nodeVars, buildVars
<1>1. AnswerInv /\ (\E c \in Ids : Expire(c)) => AnswerInv'
  BY DEF Expire
<1>2. AnswerInv /\ (Release \/ Report \/ Boot \/ Calm) => AnswerInv'
  BY DEF Release, Report, Boot, Calm
<1>3. AnswerInv /\ Push => AnswerInv'
  <2> SUFFICES ASSUME AnswerInv, Push PROVE AnswerInv'
    OBVIOUS
  <2>1. InOrder(open) \subseteq Seq(DOMAIN cmds)
    <3>1. InOrder(open) \subseteq Seq(open)
      <4>1. Len(cmds) \in Nat /\ open \in SUBSET (1..Len(cmds))
        OBVIOUS
      <4>2. QED
        BY <4>1, InOrderType
    <3>2. Seq(open) \subseteq Seq(DOMAIN cmds)
      OBVIOUS
    <3>3. QED
      BY <3>1, <3>2
  <2>2. batch' \in Seq(DOMAIN cmds)
    BY <2>1 DEF Push
  <2>3. QED
    BY <2>2 DEF Push
<1>4. AnswerInv /\ HandOn => AnswerInv'
  <2> SUFFICES ASSUME AnswerInv, HandOn PROVE AnswerInv'
    OBVIOUS
  <2>1. Head(batch) \in DOMAIN cmds /\ Tail(batch) \in Seq(DOMAIN cmds)
    BY DEF HandOn
  <2>2. events' \in Seq(DOMAIN cmds \cup {0}) /\ batch' \in Seq(DOMAIN cmds)
    BY <2>1 DEF HandOn
  <2>3. QED
    BY <2>2 DEF HandOn
<1>5. AnswerInv /\ DailyCheck => AnswerInv'
  BY DEF DailyCheck, Restart
<1>6. AnswerInv /\ (RestartForUpdate \/ Crash) => AnswerInv'
  <2> SUFFICES ASSUME AnswerInv, Ends PROVE AnswerInv'
    BY DEF RestartForUpdate, Crash
  <2>1. batch' = <<>> /\ events' = <<>> /\ done' = <<>>
    BY DEF Ends
  <2>2. /\ batch' \in Seq(DOMAIN cmds) /\ events' \in Seq(DOMAIN cmds \cup {0})
        /\ done' \in Seq([id : DOMAIN cmds, ok : BOOLEAN]) /\ DOMAIN done' = {}
    BY <2>1, EmptySeq
  <2>3. UNCHANGED <<cmds, open, acked, obeyed>>
    BY DEF Ends
  <2>4. QED
    BY <2>2, <2>3
<1>7. QED
  BY <1>1, <1>2, <1>3, <1>4, <1>5, <1>6

\* The inductive invariant: what waits to be completed with ok has been applied.
THEOREM AnswersAreEarned == Spec => []AnswerInv
<1>1. Init => AnswerInv
  BY DEF Init, AnswerInv, AckedWasObeyed, Actions
<1>2. AnswerInv /\ [Next]_vars => AnswerInv'
  <2> SUFFICES ASSUME AnswerInv, [Next]_vars PROVE AnswerInv'
    OBVIOUS
  <2>1. CASE UNCHANGED vars
    BY <2>1 DEF vars, cloudVars, nodeVars, AnswerInv, AckedWasObeyed
  <2>2. CASE Next
    BY <2>2, GiveKeeps, CompleteKeeps, UpdateKeeps, ApplyKeeps, OthersKeep DEF Next
  <2>3. QED
    BY <2>1, <2>2
<1>3. QED
  BY <1>1, <1>2, PTL DEF Spec

\* A start or stop the cloud counts as done was applied by the miner loop.
THEOREM AckedIsObeyed == Spec => []AckedWasObeyed
<1>1. AnswerInv => AckedWasObeyed
  BY DEF AnswerInv
<1>2. QED
  BY AnswersAreEarned, <1>1, PTL

\* The rest of the type invariant.
RestOK ==
  /\ Len(cmds) <= MaxCmds
  /\ shown \in [state : NodeStates, est : BOOLEAN] /\ rate \in BOOLEAN
  /\ report \in NodeStates
  /\ up \in BOOLEAN /\ want \in BOOLEAN /\ stopFlag \in BOOLEAN
  /\ behind \in BOOLEAN /\ staged \in BOOLEAN /\ calm \in BOOLEAN
  /\ released \in 0..MaxReleases /\ asked \in {"nothing", "start", "stop"}

LEMMA RestKeeps == AnswerInv /\ RestOK /\ [Next]_vars => RestOK'
<1> SUFFICES ASSUME AnswerInv, RestOK, [Next]_vars PROVE RestOK'
  OBVIOUS
<1> USE LinkAssumption DEF RestOK, NodeStates, cloudVars, nodeVars, buildVars
<1>1. ASSUME NEW a \in Actions, Give(a) PROVE RestOK'
  BY <1>1 DEF Give, AnswerInv
<1>2. CASE \E c \in Ids : Expire(c)
  BY <1>2 DEF Expire
<1>3. CASE Release
  <2>1. released' \in 0..MaxReleases
    BY <1>3 DEF Release
  <2>2. QED
    BY <1>3, <2>1 DEF Release
<1>4. CASE Complete \/ HandOn
  <2>1. UNCHANGED <<cmds, shown, asked, up, rate, nodeVars, buildVars, calm>>
    BY <1>4 DEF Complete, HandOn
  <2>2. QED
    BY <2>1
<1>5. CASE Push
  <2>1. rate' \in BOOLEAN
    BY <1>5 DEF Push, FetchRate, Score
  <2>2. BuildSnapshot(report, rate') \in [state : NodeStates, est : BOOLEAN]
    BY <2>1 DEF BuildSnapshot, UsdPerDay
  <2>3. shown' \in {shown, BuildSnapshot(report, rate')}
    BY <1>5 DEF Push
  <2>4. QED
    BY <1>5, <2>1, <2>2, <2>3 DEF Push
<1>6. CASE Update \/ DailyCheck
  BY <1>6 DEF Update, DailyCheck, Fetch
<1>7. CASE Apply
  BY <1>7 DEF Apply
<1>8. CASE Report
  BY <1>8 DEF Report
<1>9. CASE RestartForUpdate \/ Crash
  BY <1>9 DEF RestartForUpdate, Crash, Ends
<1>10. CASE Boot \/ Calm
  BY <1>10 DEF Boot, Calm
<1>11. CASE UNCHANGED vars
  BY <1>11 DEF vars
<1>12. QED
  BY <1>1, <1>2, <1>3, <1>4, <1>5, <1>6, <1>7, <1>8, <1>9, <1>10, <1>11 DEF Next

\* The link, the miner loop and the cloud are type correct for every bound.
THEOREM TypeCorrect == Spec => []TypeOK
<1>1. Init => RestOK
  <2> SUFFICES ASSUME Init PROVE RestOK
    OBVIOUS
  <2>1. shown \in [state : NodeStates, est : BOOLEAN]
    BY DEF Init, NodeStates
  <2>2. Len(cmds) <= MaxCmds /\ released \in 0..MaxReleases
    BY LinkAssumption DEF Init
  <2>3. QED
    BY <2>1, <2>2 DEF Init, RestOK, NodeStates
<1>2. AnswerInv /\ RestOK => TypeOK
  <2> SUFFICES ASSUME AnswerInv, RestOK PROVE TypeOK
    OBVIOUS
  <2>1. QED
    BY Zenon DEF AnswerInv, RestOK, TypeOK
<1>3. QED
  BY AnswersAreEarned, <1>1, <1>2, RestKeeps, PTL DEF Spec
=============================================================================
