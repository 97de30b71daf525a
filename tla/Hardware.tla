------------------------------ MODULE Hardware ------------------------------
(***************************************************************************)
(* Hardware detection (pasiv-core/src/hardware.rs): several callers of     *)
(* detect() at once, each running the vendors' tools under a deadline and  *)
(* merging the answers through the last good list.                         *)
(*                                                                         *)
(* A tool may be missing, exit with an error, or never end; something it   *)
(* started may hold its output open after it has ended.  Nothing is        *)
(* assumed of a tool but that a killed one is gone (KillTakes).            *)
(*                                                                         *)
(* The cards and cores of the machine do not change.  The parsing of a     *)
(* tool's output stands for the cards it lists.  On Linux the AMD half     *)
(* reads sysfs, which neither fails nor hangs (lspci, which may, gives the *)
(* name to show only).                                                     *)
(***************************************************************************)
EXTENDS Naturals, FiniteSets, FiniteSetsExt

CONSTANTS
  Callers,    \* threads that call detect(): UI polls, setup, recovery
  Cards,      \* Cards[h]: the cards a half ("nvidia", "amd") can list
  Series,     \* Series[card]: the part of its name the eligibility looks at
  Vram,       \* Vram[card], in MB
  Tools,      \* the halves whose tool is installed
  Platforms,  \* "windows", "linux"
  KillTakes,  \* is a killed child gone, even in a wedged driver?
  Logical,    \* available_parallelism
  Cores,      \* the distinct (package, core) pairs
  Caches      \* cpu0's caches: [level, fits], fits = size in scratchpads

ASSUME HardwareAssumption ==
  /\ Tools \subseteq {"nvidia", "amd"} /\ KillTakes \in BOOLEAN
  /\ Platforms \subseteq {"windows", "linux"}
  /\ Logical \in Nat \ {0} /\ IsFiniteSet(Cores)
  /\ \A c \in Caches : c.level \in Nat /\ c.fits \in Nat
  /\ \A h \in {"nvidia", "amd"} :          \* a Vec, and u64s
       IsFiniteSet(Cards[h]) /\ \A d \in Cards[h] : Vram[d] \in Nat

Halves == {"nvidia", "amd"}
AllCards == Cards["nvidia"] \cup Cards["amd"]
Hung == [told |-> FALSE, cards |-> {}]        \* None
Some(cs) == [told |-> TRUE, cards |-> cs]

----------------------------------------------------------------------------
(* The eligibility of a card for the GPU lane, and the largest of them for *)
(* the coins' VRAM gates.                                                  *)
AmdOnEngine    == FALSE
AmdEligible(d) == Series[d] \in {"RX 6", "RX 7", "RX 9"} /\ Vram[d] >= 4096
NvidiaEligible(d) == Vram[d] >= 3072 /\ Series[d] \in {"RTX", "GTX 16", "Tesla T"}
Eligible(d) == IF d \in Cards["amd"] THEN AmdOnEngine /\ AmdEligible(d) ELSE NvidiaEligible(d)
MaxEligibleVram(ds) == Max({Vram[d] : d \in {e \in ds : Eligible(e)}} \cup {0})

----------------------------------------------------------------------------
(* decide_threads: 0 stands for a limit that is unknown, which the code    *)
(* treats like a limit of zero.                                            *)
Least(a, b) == IF a <= b THEN a ELSE b
Cap(cap, limit) == IF limit > 0 THEN Least(cap, limit) ELSE cap
DecideThreadsSmt(logical, physical, fits) ==  \* slip: SMT siblings counted
  LET cap == Cap(logical, fits) IN IF cap > 0 THEN cap ELSE 1
DecideThreads(logical, physical, fits) ==
  LET cap == Cap(Cap(logical, physical), fits) IN IF cap > 0 THEN cap ELSE 1

(* What the readable entries of sysfs say: distinct (package, core) pairs, *)
(* and the size of a cache in whole scratchpads.                           *)
PhysicalCores(readable) == Cardinality(readable)
CacheSize(c) == c.fits

(* l3_bytes: the first cache read of the highest level from 3 up.          *)
L3(readable) ==
  LET high == {c \in readable : c.level >= 3 /\ \A d \in readable : d.level <= c.level}
  IN  IF high = {} THEN {0} ELSE {CacheSize(c) : c \in high}

----------------------------------------------------------------------------
VARIABLES
  os,        \* the platform
  pc,        \* of a caller: "idle", "nvidia", "amd", "merge"
  child,     \* its tool: "none", "running", "ok", "failed"
  pipe,      \* its output has been read to the end
  due,       \* its deadline has passed
  answer,    \* what each half answered
  read,      \* the topology it read: [physical, fits]
  lastGood,  \* LAST_GOOD: Hung, or Some(cards)
  absent     \* history: cards some tool's answer left out

probeVars == <<child, pipe, due>>
hardwareVars == <<os, pc, child, pipe, due, answer, read, lastGood, absent>>

HardwareTypeOK ==
  /\ os \in Platforms
  /\ pc \in [Callers -> {"idle", "nvidia", "amd", "merge"}]
  /\ child \in [Callers -> {"none", "running", "ok", "failed"}]
  /\ pipe \in [Callers -> BOOLEAN] /\ due \in [Callers -> BOOLEAN]
  /\ \A c \in Callers, h \in Halves : answer[c][h].cards \subseteq Cards[h]
  /\ \A c \in Callers : read[c].physical \in 0..Cardinality(Cores) /\ read[c].fits \in Nat
  /\ lastGood.cards \subseteq AllCards /\ absent \subseteq AllCards

HardwareInit ==
  /\ os \in Platforms
  /\ pc = [c \in Callers |-> "idle"]
  /\ child = [c \in Callers |-> "none"]
  /\ pipe = [c \in Callers |-> FALSE] /\ due = [c \in Callers |-> FALSE]
  /\ answer = [c \in Callers |-> [h \in Halves |-> Hung]]
  /\ read = [c \in Callers |-> [physical |-> 0, fits |-> 0]]
  /\ lastGood = Hung /\ absent = {}

(* detect: the topology first; any entry of sysfs may be unreadable.       *)
Detect(c) ==
  /\ pc[c] = "idle" /\ pc' = [pc EXCEPT ![c] = "nvidia"]
  /\ \E cores \in SUBSET Cores, caches \in SUBSET Caches :
       \E fits \in L3(caches) :
         read' = [read EXCEPT ![c] = [physical |-> PhysicalCores(cores), fits |-> fits]]
  /\ UNCHANGED <<os, probeVars, answer, lastGood, absent>>

usableThreads(c) == DecideThreads(Logical, read[c].physical, read[c].fits)

(* A half has its answer: on to the next.                                  *)
Answers(c, a) ==
  /\ answer' = [answer EXCEPT ![c][pc[c]] = a]
  /\ pc' = [pc EXCEPT ![c] = IF @ = "nvidia" THEN "amd" ELSE "merge"]
  /\ child' = [child EXCEPT ![c] = "none"]
  /\ pipe' = [pipe EXCEPT ![c] = FALSE] /\ due' = [due EXCEPT ![c] = FALSE]
  /\ UNCHANGED <<os, read, lastGood>>

(* output_with_timeout: spawn; a tool that is not there is None.           *)
ReadsSysfs(h) == os = "linux" /\ h = "amd"
SpawnTool(c) ==
  /\ pc[c] \in Halves /\ child[c] = "none" /\ ~ReadsSysfs(pc[c])
  /\ IF pc[c] \in Tools
     THEN /\ child' = [child EXCEPT ![c] = "running"]
          /\ UNCHANGED <<os, pc, pipe, due, answer, read, lastGood, absent>>
     ELSE Answers(c, Hung) /\ UNCHANGED absent

Sysfs(c) ==
  /\ pc[c] \in Halves /\ ReadsSysfs(pc[c])
  /\ Answers(c, Some(Cards[pc[c]])) /\ UNCHANGED absent

ChildEnds(c, how) ==
  /\ child[c] = "running" /\ child' = [child EXCEPT ![c] = how]
  /\ UNCHANGED <<os, pc, pipe, due, answer, read, lastGood, absent>>

(* The reader thread has sent its buffer: the child and whatever inherited *)
(* the pipe are done with it.                                              *)
PipeEnds(c) ==
  /\ child[c] \in {"ok", "failed"} /\ ~pipe[c] /\ pipe' = [pipe EXCEPT ![c] = TRUE]
  /\ UNCHANGED <<os, pc, child, due, answer, read, lastGood, absent>>

Deadline(c) ==
  /\ child[c] # "none" /\ ~due[c] /\ due' = [due EXCEPT ![c] = TRUE]
  /\ UNCHANGED <<os, pc, child, pipe, answer, read, lastGood, absent>>

(* Slip: the reader is joined.                                             *)
CollectJoins(c) ==
  /\ child[c] \in {"ok", "failed"} /\ pipe[c]
  /\ LET cards == IF child[c] = "ok" THEN Cards[pc[c]] ELSE {}
     IN  Answers(c, Some(cards)) /\ absent' = absent \cup (Cards[pc[c]] \ cards)

(* The child has exited: its output if it comes before the deadline, an    *)
(* empty one otherwise; an error is an empty list.                         *)
Collect(c) ==
  /\ child[c] \in {"ok", "failed"} /\ (pipe[c] \/ due[c])
  /\ LET cards == IF child[c] = "ok" /\ pipe[c] THEN Cards[pc[c]] ELSE {}
     IN  Answers(c, Some(cards)) /\ absent' = absent \cup (Cards[pc[c]] \ cards)

(* Killed and waited for.                                                  *)
Kill(c) ==
  /\ child[c] = "running" /\ due[c] /\ KillTakes
  /\ Answers(c, Hung) /\ UNCHANGED absent

(* detect_gpus: the merge, under the lock of LAST_GOOD.                    *)
Complete(c) == \A h \in Halves : answer[c][h].told
Found(c)    == Some(UNION {answer[c][h].cards : h \in Halves})

ReturnedAsFound(c) == Found(c)  \* slip: the last good list is not asked
Returned(c) == IF Complete(c) \/ ~lastGood.told THEN Found(c) ELSE lastGood

Merge(c) ==
  /\ pc[c] = "merge" /\ pc' = [pc EXCEPT ![c] = "idle"]
  /\ lastGood' = IF Complete(c) THEN Found(c) ELSE lastGood
  /\ answer' = [answer EXCEPT ![c] = [h \in Halves |-> Hung]]
  /\ read' = [read EXCEPT ![c] = [physical |-> 0, fits |-> 0]]
  /\ UNCHANGED <<os, probeVars, absent>>

Step(c) == SpawnTool(c) \/ Sysfs(c) \/ Collect(c) \/ Kill(c) \/ Merge(c)

HardwareNext == \E c \in Callers :
  \/ Detect(c) \/ Step(c)
  \/ ChildEnds(c, "ok") \/ ChildEnds(c, "failed") \/ PipeEnds(c) \/ Deadline(c)

HardwareSpec == HardwareInit /\ [][HardwareNext]_hardwareVars

(* The caller runs and time passes; no tool need ever end.                 *)
HardwareFairSpec ==
  HardwareSpec /\ \A c \in Callers : WF_hardwareVars(Step(c)) /\ WF_hardwareVars(Deadline(c))

----------------------------------------------------------------------------
(* Properties *)

(* What "Full power" launches is the most that the OS's cores, the real    *)
(* cores and the scratchpads of the last-level cache allow, each limit as  *)
(* far as its probe could read it; and never none.                         *)
Allowed(r, t) ==
  (r.physical > 0 => t <= r.physical) /\ (r.fits > 0 => t <= r.fits)
ThreadsFit ==
  \A c \in Callers : pc[c] \in {"nvidia", "amd", "merge"} =>
    /\ usableThreads(c) \in 1..Logical /\ Allowed(read[c], usableThreads(c))
    /\ \A t \in 1..Logical : Allowed(read[c], t) => t <= usableThreads(c)

(* It, with the types.                                                    *)
HardwareInv == HardwareTypeOK /\ ThreadsFit

(* Once a full list was had, a card is missing from an answer only if some *)
(* tool's own answer left it out (an error, or an output cut at the        *)
(* deadline): a tool that hangs, in whatever order the callers come, never *)
(* makes a card "vanish from the UI mid-session", or closes a VRAM gate.   *)
ListedUnlessTold ==
  \A c \in Callers : pc[c] = "merge" /\ lastGood.told =>
    /\ AllCards \ Returned(c).cards \subseteq absent
    /\ MaxEligibleVram(Returned(c).cards) >= MaxEligibleVram(AllCards \ absent)

(* A hung tool, or one whose output stays open, costs a caller its         *)
(* deadline and never the call.                                            *)
ProbeEnds == \A c \in Callers : pc[c] # "idle" ~> pc[c] = "idle"
=============================================================================
