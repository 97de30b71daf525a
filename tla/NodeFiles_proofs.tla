-------------------------- MODULE NodeFiles_proofs --------------------------
(***************************************************************************)
(* write_private_atomic implements the register it promises, for every set *)
(* of payouts and whatever dies, fills up or loses power: what is renamed  *)
(* over the file is the whole payout, and it is on the disk by then.  And  *)
(* the ledger hides no event that was appended, but for one per append     *)
(* that was cut.                                                           *)
(***************************************************************************)
EXTENDS NodeFiles, TLAPS, FiniteSetTheorems, SequenceTheorems, WellFoundedInduction

\* What the rename rests on.
RenameInv ==
  /\ pc \in {"sync", "rename"} => tmp = want
  /\ pc = "rename" => synced

\* A write that has come as far as its rename has the bytes on the disk.
THEOREM RenamesWhatIsSynced == Spec => []RenameInv
<1>1. Init => RenameInv
  BY DEF Init, RenameInv
<1>2. RenameInv /\ [Next]_vars => RenameInv'
  <2> SUFFICES ASSUME RenameInv, [Next]_vars PROVE RenameInv'
    OBVIOUS
  <2> USE DEF RenameInv
  <2>1. CASE Save
    BY <2>1 DEF Save
  <2>2. CASE Open
    BY <2>2 DEF Open
  <2>3. CASE Fails \/ Rename \/ SyncDir \/ Crash \/ PowerCut
    BY <2>3 DEF Fails, Rename, SyncDir, Crash, PowerCut
  <2>4. CASE Write
    BY <2>4 DEF Write
  <2>5. CASE Sync
    BY <2>5 DEF Sync
  <2>6. CASE Begin \/ WriteText \/ WriteEnd \/ AppendFails
    BY <2>6 DEF Begin, WriteText, WriteEnd, AppendFails, private
  <2>7. CASE Remove \/ Fill \/ Writeback
    BY <2>7 DEF Remove, Fill, Writeback, private
  <2>8. CASE UNCHANGED vars
    BY <2>8 DEF vars, private
  <2>9. QED
    BY <2>1, <2>2, <2>3, <2>4, <2>5, <2>6, <2>7, <2>8 DEF Next
<1>3. QED
  BY <1>1, <1>2, PTL DEF Spec

\* The file is a register of whole payouts (main.rs:55): every step of the node, its
\* disk and its machine is one of the register or leaves it alone.
THEOREM FileIsARegister == Spec => ImplementsRegister
<1>1. Init => File!Init
  BY DEF Init, File!Init
<1>2. RenameInv /\ [Next]_vars =>
        [File!Ask \/ File!Put \/ File!Clear \/ File!Settle \/ File!Cut]_(File!vars)
  <2> SUFFICES ASSUME RenameInv, [Next]_vars
               PROVE  \/ File!Ask \/ File!Put \/ File!Clear \/ File!Settle \/ File!Cut
                      \/ UNCHANGED File!vars
    OBVIOUS
  <2>1. CASE Save
    BY <2>1 DEF Save, File!Ask
  <2>2. CASE Open \/ Fails \/ Write \/ Sync
    BY <2>2 DEF Open, Fails, Write, Sync, File!vars
  <2>3. CASE Rename
    BY <2>3 DEF Rename, RenameInv, File!Put
  <2>4. CASE SyncDir
    BY <2>4 DEF SyncDir, File!Settle, File!vars
  <2>5. CASE Remove
    BY <2>5 DEF Remove, File!Clear
  <2>6. CASE Begin \/ WriteText \/ WriteEnd \/ AppendFails \/ Fill \/ Crash
    BY <2>6 DEF Begin, WriteText, WriteEnd, AppendFails, Fill, Crash, private, File!vars
  <2>7. CASE Writeback
    BY <2>7 DEF Writeback, File!Settle
  <2>8. CASE PowerCut
    BY <2>8 DEF PowerCut, File!Cut
  <2>9. CASE UNCHANGED vars
    BY <2>9 DEF vars, private, File!vars
  <2>10. QED
    BY <2>1, <2>2, <2>3, <2>4, <2>5, <2>6, <2>7, <2>8, <2>9 DEF Next
<1>3. QED
  BY <1>1, <1>2, RenamesWhatIsSynced, PTL DEF Spec, ImplementsRegister, File!Spec

-----------------------------------------------------------------------------
(* The ledger.  An event is hidden when the line it was appended to had    *)
(* already begun; each such line holds a text without an end, and each of  *)
(* those is an append that was cut.                                        *)

Tokens  == [ev : Nat, whole : BOOLEAN]
Whole(e) == Text(e, TRUE)

\* The texts no newline follows.
Unended(s) == {i \in DOMAIN s : s[i] # Newline /\ (i = Len(s) \/ s[i + 1] # Newline)}

TokenTypes ==
  /\ ledger \in Seq(Tokens) /\ kept \in 0..Len(ledger)
  /\ event \in Nat /\ broken \in Nat

\* An event has one text, and the next has none yet.
WrittenOnce(s) ==
  \A i \in DOMAIN s : s[i] # Newline =>
    /\ s[i].ev \in 1..event
    /\ pc = "text" => s[i].ev < event
    /\ \A j \in DOMAIN s : s[j] # Newline /\ s[j].ev = s[i].ev => i = j

ToldAt(s, e) == \E i \in DOMAIN s : i + 1 \in DOMAIN s /\ s[i] = Whole(e) /\ s[i + 1] = Newline
ToldIsWhole  == told \subseteq 1..event /\ \A e \in told : ToldAt(ledger, e)

EndIsDue ==
  /\ pc \in {"text", "end"} => event > 0
  /\ pc = "end" => ledger # <<>> /\ ledger[Len(ledger)] = Whole(event)

CutsAreCounted == Cardinality(Unended(ledger)) <= broken + (IF pc = "end" THEN 1 ELSE 0)

LedgerInv == TokenTypes /\ WrittenOnce(ledger) /\ ToldIsWhole /\ EndIsDue /\ CutsAreCounted

-----------------------------------------------------------------------------
\* The texts without an end are finitely many.
LEMMA UnendedFinite ==
  ASSUME NEW s \in Seq(Tokens)
  PROVE  IsFiniteSet(Unended(s)) /\ Cardinality(Unended(s)) \in Nat
<1>1. Len(s) \in Nat /\ Unended(s) \subseteq 1..Len(s)
  BY DEF Unended
<1>2. IsFiniteSet(1..Len(s))
  BY <1>1, FS_Interval
<1>3. QED
  BY <1>1, <1>2, FS_Subset, FS_CardinalityType

\* A text that is appended has no end yet; a newline ends the text before it.
LEMMA UnendedAppend ==
  ASSUME NEW s \in Seq(Tokens), NEW t \in Tokens
  PROVE  /\ t # Newline => Unended(Append(s, t)) = Unended(s) \union {Len(s) + 1}
         /\ t = Newline => Unended(Append(s, t)) = Unended(s) \ {Len(s)}
<1> DEFINE a == Append(s, t)
<1>1. /\ Len(a) = Len(s) + 1 /\ DOMAIN a = 1..(Len(s) + 1) /\ DOMAIN s = 1..Len(s)
      /\ a[Len(s) + 1] = t /\ Len(s) \in Nat
  OBVIOUS
<1>2. \A i \in 1..Len(s) : a[i] = s[i]
  OBVIOUS
<1> HIDE DEF a
<1>3. CASE t # Newline
  BY <1>1, <1>2, <1>3 DEF Unended
<1>4. CASE t = Newline
  BY <1>1, <1>2, <1>4 DEF Unended
<1>5. QED
  BY <1>3, <1>4 DEF a

\* Cutting the ledger takes the end of one text at most.
LEMMA UnendedCut ==
  ASSUME NEW s \in Seq(Tokens), NEW n \in 0..Len(s), n < Len(s)
  PROVE  /\ Unended(SubSeq(s, 1, n)) \subseteq (Unended(s) \ {Len(s)}) \union {n}
         /\ \A t \in Tokens : s[n + 1] # Newline /\ t # Newline =>
              Unended(Append(SubSeq(s, 1, n), t)) \subseteq (Unended(s) \ {Len(s)}) \union {n + 1}
<1> DEFINE c == SubSeq(s, 1, n)
<1>1. /\ c \in Seq(Tokens) /\ Len(c) = n /\ DOMAIN c = 1..n /\ DOMAIN s = 1..Len(s) /\ Len(s) \in Nat
  OBVIOUS
<1>2. \A i \in 1..n : c[i] = s[i]
  OBVIOUS
<1> HIDE DEF c
<1>3. Unended(c) \subseteq (Unended(s) \ {Len(s)}) \union {n}
  BY <1>1, <1>2 DEF Unended
<1>4. ASSUME NEW t \in Tokens, s[n + 1] # Newline, t # Newline
      PROVE  Unended(Append(c, t)) \subseteq (Unended(s) \ {Len(s)}) \union {n + 1}
  <2>1. Unended(Append(c, t)) = Unended(c) \union {n + 1}
    BY <1>1, <1>4, UnendedAppend
  <2>2. n \in Unended(c) => n \in Unended(s)
    BY <1>1, <1>2, <1>4 DEF Unended
  <2>3. QED
    BY <1>3, <2>1, <2>2
<1>5. QED
  BY <1>3, <1>4 DEF c

\* The newline is a token, and a text is never one.
LEMMA TextIsNoNewline ==
  ASSUME NEW e \in Nat, NEW w \in BOOLEAN
  PROVE  /\ Text(e, w) \in Tokens /\ Text(e, w).ev = e
         /\ Newline \in Tokens /\ (e > 0 => Text(e, w) # Newline) /\ Text(e, FALSE) # Newline
BY DEF Text, Newline, Tokens

-----------------------------------------------------------------------------
\* The invariant speaks of nothing a step of the file touches: it is kept by what
\* leaves the ledger alone, unless the end of a line is given up without a count.
LEMMA LedgerLeftAlone ==
  ASSUME LedgerInv, UNCHANGED <<ledger, event, told>>, kept' \in 0..Len(ledger), broken' \in Nat,
         \/ pc' = pc /\ broken' = broken
         \/ /\ pc' \notin {"text", "end"}
            /\ broken' = broken + (IF pc = "end" THEN 1 ELSE 0)
  PROVE  LedgerInv'
<1>1. TokenTypes' /\ WrittenOnce(ledger)' /\ ToldIsWhole' /\ EndIsDue'
  BY DEF LedgerInv, TokenTypes, WrittenOnce, ToldIsWhole, ToldAt, EndIsDue
<1>2. Cardinality(Unended(ledger)) \in Nat
  BY UnendedFinite DEF LedgerInv, TokenTypes
<1>3. CutsAreCounted'
  BY <1>2 DEF LedgerInv, TokenTypes, CutsAreCounted, Unended
<1>4. QED
  BY <1>1, <1>3 DEF LedgerInv

\* The text of the event at hand is appended, whole or torn.
LEMMA TextAppended ==
  ASSUME LedgerInv, NEW w \in BOOLEAN, pc = "text", ledger' = Append(ledger, Text(event, w)),
         UNCHANGED <<kept, event, told>>,
         \/ pc' = "end" /\ w = TRUE /\ broken' = broken
         \/ pc' = "idle" /\ broken' = broken + 1
  PROVE  LedgerInv'
<1> DEFINE t == Text(event, w)
<1> USE DEF LedgerInv, TokenTypes
<1>1. event > 0 /\ event \in Nat
  BY DEF EndIsDue
<1>2. t \in Tokens /\ t.ev = event /\ t # Newline
  BY <1>1, TextIsNoNewline
<1> HIDE DEF t
<1>3. ledger' = Append(ledger, t)
  BY DEF t
<1>4. /\ ledger' \in Seq(Tokens) /\ Len(ledger') = Len(ledger) + 1 /\ Len(ledger) \in Nat
      /\ DOMAIN ledger' = 1..(Len(ledger) + 1) /\ DOMAIN ledger = 1..Len(ledger)
      /\ ledger'[Len(ledger) + 1] = t
  BY <1>2, <1>3
<1>5. \A i \in 1..Len(ledger) : ledger'[i] = ledger[i]
  BY <1>2, <1>3
<1>6. TokenTypes'
  BY <1>4
<1>7. WrittenOnce(ledger)'
  <2>1. \A i \in 1..Len(ledger) : ledger[i] # Newline => ledger[i].ev \in 1..event /\ ledger[i].ev < event
    BY <1>4 DEF WrittenOnce
  <2>2. \A i, j \in 1..Len(ledger) :
          ledger[i] # Newline /\ ledger[j] # Newline /\ ledger[j].ev = ledger[i].ev => i = j
    BY <1>4 DEF WrittenOnce
  <2>3. \A i \in DOMAIN ledger' : i \in 1..Len(ledger) \/ i = Len(ledger) + 1
    BY <1>4
  <2>4. ASSUME NEW i \in DOMAIN ledger', ledger'[i] # Newline, NEW j \in DOMAIN ledger',
               ledger'[j] # Newline, ledger'[j].ev = ledger'[i].ev
        PROVE  i = j
    BY <1>1, <1>2, <1>4, <1>5, <2>1, <2>2, <2>3, <2>4
  <2>5. ASSUME NEW i \in DOMAIN ledger', ledger'[i] # Newline
        PROVE  ledger'[i].ev \in 1..event
    BY <1>1, <1>2, <1>4, <1>5, <2>1, <2>3, <2>5
  <2>6. QED
    BY <2>4, <2>5 DEF WrittenOnce
<1>8. ToldIsWhole'
  <2>1. ASSUME NEW e \in told PROVE ToldAt(ledger', e)
    <3>1. PICK i \in DOMAIN ledger : i + 1 \in DOMAIN ledger /\ ledger[i] = Whole(e) /\ ledger[i + 1] = Newline
      BY DEF ToldIsWhole, ToldAt
    <3>2. QED
      BY <1>4, <1>5, <3>1 DEF ToldAt
  <2>2. QED
    BY <2>1 DEF ToldIsWhole
<1>9. EndIsDue'
  <2>1. w = TRUE => t = Whole(event)
    BY DEF t, Whole
  <2>2. QED
    BY <1>1, <1>4, <2>1 DEF EndIsDue
<1>10. CutsAreCounted'
  <2>1. Unended(ledger') = Unended(ledger) \union {Len(ledger) + 1}
    BY <1>2, <1>3, UnendedAppend
  <2>2. IsFiniteSet(Unended(ledger)) /\ Cardinality(Unended(ledger)) \in Nat
    BY UnendedFinite
  <2>3. /\ Cardinality(Unended(ledger')) \in Nat
        /\ Cardinality(Unended(ledger')) <= Cardinality(Unended(ledger)) + 1
    <3> DEFINE new == Len(ledger) + 1
    <3>1. Cardinality(Unended(ledger) \union {new}) =
            IF new \in Unended(ledger) THEN Cardinality(Unended(ledger)) ELSE Cardinality(Unended(ledger)) + 1
      BY <2>2, FS_AddElement
    <3>2. QED
      BY <2>1, <2>2, <3>1
  <2>4. Cardinality(Unended(ledger)) <= broken
    BY DEF CutsAreCounted
  <2>5. QED
    BY <2>2, <2>3, <2>4 DEF CutsAreCounted
<1>11. QED
  BY <1>6, <1>7, <1>8, <1>9, <1>10

\* The newline ends the text before it, and its event is told.
LEMMA EndAppended ==
  ASSUME LedgerInv, WriteEnd PROVE LedgerInv'
<1> USE DEF LedgerInv, TokenTypes
<1>1. /\ pc = "end" /\ pc' = "idle" /\ ledger' = Append(ledger, Newline) /\ told' = told \union {event}
      /\ UNCHANGED <<kept, event, broken>>
  BY DEF WriteEnd
<1>2. /\ event > 0 /\ event \in Nat /\ ledger # <<>> /\ ledger[Len(ledger)] = Whole(event)
      /\ Newline \in Tokens /\ Whole(event) # Newline
  BY <1>1, TextIsNoNewline DEF EndIsDue, Whole
<1>3. /\ ledger' \in Seq(Tokens) /\ Len(ledger') = Len(ledger) + 1 /\ Len(ledger) \in Nat \ {0}
      /\ DOMAIN ledger' = 1..(Len(ledger) + 1) /\ DOMAIN ledger = 1..Len(ledger)
      /\ ledger'[Len(ledger) + 1] = Newline
  BY <1>1, <1>2
<1>4. \A i \in 1..Len(ledger) : ledger'[i] = ledger[i]
  BY <1>1, <1>2
<1>5. TokenTypes'
  BY <1>1, <1>3
<1>6. WrittenOnce(ledger)'
  <2>1. \A i \in DOMAIN ledger' : ledger'[i] # Newline => i \in DOMAIN ledger /\ ledger'[i] = ledger[i]
    BY <1>3, <1>4
  <2>2. QED
    BY <1>1, <2>1 DEF WrittenOnce
<1>7. ToldIsWhole'
  <2>1. ASSUME NEW e \in told PROVE ToldAt(ledger', e)
    <3>1. PICK i \in DOMAIN ledger : i + 1 \in DOMAIN ledger /\ ledger[i] = Whole(e) /\ ledger[i + 1] = Newline
      BY DEF ToldIsWhole, ToldAt
    <3>2. QED
      BY <1>3, <1>4, <3>1 DEF ToldAt
  <2>2. ToldAt(ledger', event)
    <3>1. Len(ledger) \in DOMAIN ledger' /\ Len(ledger) + 1 \in DOMAIN ledger'
      BY <1>3
    <3>2. ledger'[Len(ledger)] = Whole(event)
      BY <1>2, <1>3, <1>4
    <3>3. QED
      BY <1>3, <3>1, <3>2 DEF ToldAt
  <2>3. QED
    BY <1>1, <1>2, <2>1, <2>2 DEF ToldIsWhole
<1>8. EndIsDue'
  BY <1>1 DEF EndIsDue
<1>9. CutsAreCounted'
  <2>1. Unended(ledger') = Unended(ledger) \ {Len(ledger)}
    BY <1>1, <1>2, UnendedAppend
  <2>2. IsFiniteSet(Unended(ledger)) /\ Cardinality(Unended(ledger)) \in Nat
    BY UnendedFinite
  <2>3. Len(ledger) \in Unended(ledger)
    BY <1>2, <1>3 DEF Unended
  <2>4. Cardinality(Unended(ledger')) = Cardinality(Unended(ledger)) - 1
    BY <2>1, <2>2, <2>3, FS_RemoveElement
  <2>5. QED
    BY <1>1, <2>2, <2>4 DEF CutsAreCounted
<1>10. QED
  BY <1>5, <1>6, <1>7, <1>8, <1>9

\* But for the text at hand, there are at most as many texts without an end as
\* appends were cut.
LEMMA CutsBounded ==
  ASSUME LedgerInv
  PROVE  /\ IsFiniteSet(Unended(ledger) \ {Len(ledger)})
         /\ Cardinality(Unended(ledger) \ {Len(ledger)}) \in Nat
         /\ Cardinality(Unended(ledger) \ {Len(ledger)}) <= broken
<1> USE DEF LedgerInv, TokenTypes
<1>1. IsFiniteSet(Unended(ledger)) /\ Cardinality(Unended(ledger)) \in Nat
  BY UnendedFinite
<1>2. /\ IsFiniteSet(Unended(ledger) \ {Len(ledger)})
      /\ Cardinality(Unended(ledger) \ {Len(ledger)}) =
           IF Len(ledger) \in Unended(ledger) THEN Cardinality(Unended(ledger)) - 1 ELSE Cardinality(Unended(ledger))
  BY <1>1, FS_RemoveElement
<1>3. pc = "end" => Len(ledger) \in Unended(ledger)
  <2>1. SUFFICES ASSUME pc = "end" PROVE Len(ledger) \in Unended(ledger)
    OBVIOUS
  <2>2. event > 0 /\ event \in Nat /\ ledger # <<>> /\ ledger[Len(ledger)] = Whole(event)
    BY <2>1 DEF EndIsDue
  <2>3. Whole(event) # Newline
    BY <2>2, TextIsNoNewline DEF Whole
  <2>4. Len(ledger) \in DOMAIN ledger
    BY <2>2
  <2>5. QED
    BY <2>2, <2>3, <2>4 DEF Unended
<1>4. Cardinality(Unended(ledger) \ {Len(ledger)}) \in Nat
  BY <1>2, FS_CardinalityType
<1>5. QED
  BY <1>1, <1>2, <1>3, <1>4 DEF CutsAreCounted

\* A power cut keeps a prefix of the ledger, and perhaps a part of the next text.
LEMMA LedgerCutShort ==
  ASSUME LedgerInv, PowerCut PROVE LedgerInv'
<1> USE DEF LedgerInv, TokenTypes
<1>1. PICK n \in kept..Len(ledger) :
        /\ \/ ledger' = SubSeq(ledger, 1, n)
           \/ /\ n < Len(ledger) /\ ledger[n + 1] # Newline
              /\ ledger' = Append(SubSeq(ledger, 1, n), Text(ledger[n + 1].ev, FALSE))
        /\ told' = {e \in told : \E i \in 1..(n - 1) : ledger[i].ev = e}
        /\ broken' = IF n < Len(ledger) \/ pc = "end" THEN broken + 1 ELSE broken
  BY DEF PowerCut
<1>2. pc' = "idle" /\ kept' = Len(ledger') /\ event' = event
  BY DEF PowerCut
<1>3. Len(ledger) \in Nat /\ DOMAIN ledger = 1..Len(ledger) /\ n \in 0..Len(ledger)
  OBVIOUS
<1>4. CASE n = Len(ledger)
  <2>1. ledger' = ledger
    <3>1. ~(n < Len(ledger))
      BY <1>3, <1>4
    <3>2. ledger' = SubSeq(ledger, 1, Len(ledger))
      BY <1>1, <1>4, <3>1
    <3>3. QED
      BY <3>2, SubSeqFull
  <2>2. told' \subseteq told /\ broken' = broken + (IF pc = "end" THEN 1 ELSE 0)
    BY <1>1, <1>4
  <2>3. TokenTypes' /\ WrittenOnce(ledger)' /\ ToldIsWhole' /\ EndIsDue'
    BY <1>2, <1>3, <2>1, <2>2 DEF WrittenOnce, ToldIsWhole, EndIsDue
  <2>4. CutsAreCounted'
    BY <1>2, <2>1, <2>2, UnendedFinite DEF CutsAreCounted
  <2>5. QED
    BY <2>3, <2>4
<1>5. CASE n < Len(ledger)
  <2> DEFINE c == SubSeq(ledger, 1, n)
             t == Text(ledger[n + 1].ev, FALSE)
  <2>1. c \in Seq(Tokens) /\ Len(c) = n /\ DOMAIN c = 1..n /\ \A i \in 1..n : c[i] = ledger[i]
    BY <1>3
  <2>2. t \in Tokens /\ t.ev = ledger[n + 1].ev /\ t # Newline
    <3>1. ledger[n + 1] \in Tokens
      BY <1>3, <1>5
    <3>2. ledger[n + 1].ev \in Nat
      BY <3>1 DEF Tokens
    <3>3. QED
      BY <3>2, TextIsNoNewline
  <2>3. \/ ledger' = c
        \/ ledger[n + 1] # Newline /\ ledger' = Append(c, t)
    BY <1>1
  <2> HIDE DEF c, t
  <2>4. /\ ledger' \in Seq(Tokens) /\ DOMAIN ledger' = 1..Len(ledger')
        /\ Len(ledger') \in Nat /\ Len(ledger') \in n..(n + 1)
        /\ \A i \in 1..n : ledger'[i] = ledger[i]
    <3>1. CASE ledger' = c
      BY <1>3, <2>1, <3>1
    <3>2. CASE ledger' = Append(c, t)
      BY <1>3, <2>1, <2>2, <3>2
    <3>3. QED
      BY <2>3, <3>1, <3>2
  <2>5. \A i \in DOMAIN ledger' :
          i \in DOMAIN ledger /\ ledger'[i].ev = ledger[i].ev /\ (ledger'[i] # Newline => ledger[i] # Newline)
    <3>1. CASE ledger' = c
      BY <1>3, <1>5, <2>1, <3>1
    <3>2. CASE ledger[n + 1] # Newline /\ ledger' = Append(c, t)
      <4>1. DOMAIN ledger' = 1..(n + 1) /\ ledger'[n + 1] = t
        BY <2>1, <2>2, <3>2, <1>3
      <4>2. QED
        BY <1>3, <1>5, <2>2, <2>4, <3>2, <4>1
    <3>3. QED
      BY <2>3, <3>1, <3>2
  <2>6. TokenTypes'
    BY <1>1, <1>2, <2>4
  <2>7. WrittenOnce(ledger)'
    BY <1>2, <2>5 DEF WrittenOnce
  <2>8. ToldIsWhole'
    <3>1. ASSUME NEW e \in told' PROVE ToldAt(ledger', e)
      <4>1. e \in told /\ \E i \in 1..(n - 1) : ledger[i].ev = e
        BY <1>1, <3>1
      <4>2. PICK i \in 1..(n - 1) : ledger[i].ev = e
        BY <4>1
      <4>3. PICK j \in DOMAIN ledger : j + 1 \in DOMAIN ledger /\ ledger[j] = Whole(e) /\ ledger[j + 1] = Newline
        BY <4>1 DEF ToldIsWhole, ToldAt
      <4>4. e > 0 /\ e \in Nat
        <5>1. event \in Nat /\ e \in 1..event
          BY <4>1 DEF ToldIsWhole
        <5>2. QED
          BY <5>1
      <4>5. ledger[j].ev = e /\ ledger[j] # Newline /\ Newline.ev = 0
        BY <4>3, <4>4, TextIsNoNewline DEF Whole, Newline, Text
      <4>6. ledger[i] # Newline /\ i \in DOMAIN ledger
        BY <1>3, <4>2, <4>4, <4>5
      <4>7. i = j
        BY <4>2, <4>5, <4>6 DEF WrittenOnce
      <4>8. ledger'[j] = Whole(e) /\ ledger'[j + 1] = Newline /\ j \in DOMAIN ledger' /\ j + 1 \in DOMAIN ledger'
        BY <1>3, <2>4, <4>3, <4>7
      <4>9. QED
        BY <4>8 DEF ToldAt
    <3>2. told' \subseteq told
      BY <1>1
    <3>3. QED
      BY <1>2, <3>1, <3>2 DEF ToldIsWhole
  <2>9. EndIsDue'
    BY <1>2 DEF EndIsDue
  <2>10. CutsAreCounted'
    <3> DEFINE cuts == Unended(ledger) \ {Len(ledger)}
    <3>1. PICK m : Unended(ledger') \subseteq cuts \union {m}
      <4>1. CASE ledger' = c
        <5>1. Unended(ledger') \subseteq cuts \union {n}
          BY <1>3, <1>5, <4>1, UnendedCut DEF c
        <5>2. QED
          BY <5>1
      <4>2. CASE ledger[n + 1] # Newline /\ ledger' = Append(c, t)
        <5>1. Unended(ledger') \subseteq cuts \union {n + 1}
          BY <1>3, <1>5, <2>2, <4>2, UnendedCut DEF c
        <5>2. QED
          BY <5>1
      <4>3. QED
        BY <2>3, <4>1, <4>2
    <3>2. IsFiniteSet(cuts) /\ Cardinality(cuts) \in Nat /\ Cardinality(cuts) <= broken
      BY CutsBounded
    <3> HIDE DEF cuts
    <3>3. IsFiniteSet(cuts \union {m}) /\ Cardinality(cuts \union {m}) <= Cardinality(cuts) + 1
      <4>1. /\ IsFiniteSet(cuts \union {m})
            /\ Cardinality(cuts \union {m}) = IF m \in cuts THEN Cardinality(cuts) ELSE Cardinality(cuts) + 1
        BY <3>2, FS_AddElement
      <4>2. QED
        BY <3>2, <4>1
    <3>4. Cardinality(cuts \union {m}) \in Nat
      BY <3>3, FS_CardinalityType
    <3>5. Cardinality(Unended(ledger')) <= Cardinality(cuts \union {m})
      BY <3>1, <3>3, FS_Subset
    <3>6. Cardinality(Unended(ledger')) \in Nat
      BY <2>4, UnendedFinite
    <3>7. broken' = broken + 1
      BY <1>1, <1>5
    <3>8. QED
      BY <1>2, <3>2, <3>3, <3>4, <3>5, <3>6, <3>7 DEF CutsAreCounted
  <2>11. QED
    BY <2>6, <2>7, <2>8, <2>9, <2>10
<1> HIDE DEF LedgerInv, TokenTypes
<1>6. n = Len(ledger) \/ n < Len(ledger)
  <2>1. n \in Nat /\ Len(ledger) \in Nat /\ n <= Len(ledger)
    BY <1>3
  <2>2. \A a, b \in Nat : a <= b => a = b \/ a < b
    OBVIOUS
  <2>3. QED
    BY <2>1, <2>2
<1>7. QED
  BY <1>4, <1>5, <1>6

-----------------------------------------------------------------------------
\* Every step of the node, its disk and its machine keeps the invariant.
LEMMA LedgerInductive == LedgerInv /\ [Next]_vars => LedgerInv'
<1> SUFFICES ASSUME LedgerInv, [Next]_vars PROVE LedgerInv'
  OBVIOUS
<1>1. /\ kept \in 0..Len(ledger) /\ Len(ledger) \in Nat /\ Len(ledger) \in 0..Len(ledger)
      /\ broken \in Nat /\ broken + 1 \in Nat /\ broken + 0 = broken
  BY DEF LedgerInv, TokenTypes
<1>2. CASE Save \/ Open \/ Fails \/ Write \/ Sync \/ Rename \/ SyncDir
  <2>1. /\ UNCHANGED book /\ pc # "end" /\ pc' \notin {"text", "end"}
    BY <1>2 DEF Save, Open, Fails, Write, Sync, Rename, SyncDir
  <2>2. QED
    BY <1>1, <2>1, LedgerLeftAlone DEF book
<1>3. CASE Remove \/ Fill \/ UNCHANGED vars
  <2>1. UNCHANGED book /\ pc' = pc
    BY <1>3 DEF Remove, Fill, vars, book
  <2>2. QED
    BY <1>1, <2>1, LedgerLeftAlone DEF book
<1>4. CASE Writeback
  BY <1>1, <1>4, LedgerLeftAlone DEF Writeback
<1>5. CASE Crash
  BY <1>1, <1>5, LedgerLeftAlone DEF Crash
<1>6. CASE Begin
  <2>1. /\ UNCHANGED <<ledger, kept, told, broken>> /\ event' = event + 1 /\ pc' = "text" /\ pc = "idle"
        /\ event \in Nat
    BY <1>6 DEF Begin, LedgerInv, TokenTypes
  <2>2. TokenTypes' /\ WrittenOnce(ledger)' /\ EndIsDue' /\ CutsAreCounted'
    BY <2>1 DEF LedgerInv, TokenTypes, WrittenOnce, EndIsDue, CutsAreCounted
  <2>3. ToldIsWhole'
    BY <2>1 DEF LedgerInv, ToldIsWhole
  <2>4. QED
    BY <2>2, <2>3 DEF LedgerInv
<1>7. CASE WriteText
  BY <1>7, TextAppended DEF WriteText
<1>8. CASE WriteEnd
  BY <1>8, EndAppended
<1>9. CASE AppendFails
  <2>1. CASE UNCHANGED ledger
    <3>1. CASE pc = "text"
      <4>1. /\ UNCHANGED <<ledger, kept, event, told>> /\ pc' = "idle" /\ broken' = broken + 1
        BY <1>9, <2>1 DEF AppendFails
      <4>2. TokenTypes' /\ WrittenOnce(ledger)' /\ ToldIsWhole' /\ EndIsDue'
        BY <4>1 DEF LedgerInv, TokenTypes, WrittenOnce, ToldIsWhole, EndIsDue
      <4>3. Cardinality(Unended(ledger)) \in Nat /\ Cardinality(Unended(ledger)) <= broken
        BY <3>1, UnendedFinite DEF LedgerInv, TokenTypes, CutsAreCounted
      <4>4. CutsAreCounted'
        BY <1>1, <4>1, <4>3 DEF CutsAreCounted
      <4>5. QED
        BY <4>2, <4>4 DEF LedgerInv
    <3>2. CASE pc = "end"
      BY <1>1, <1>9, <2>1, <3>2, LedgerLeftAlone DEF AppendFails
    <3>3. QED
      BY <1>9, <3>1, <3>2 DEF AppendFails
  <2>2. CASE pc = "text" /\ ledger' = Append(ledger, Text(event, FALSE))
    BY <1>9, <2>2, TextAppended DEF AppendFails
  <2>3. QED
    BY <1>9, <2>1, <2>2 DEF AppendFails
<1>10. CASE PowerCut
  BY <1>10, LedgerCutShort
<1>11. QED
  BY <1>2, <1>3, <1>4, <1>5, <1>6, <1>7, <1>8, <1>9, <1>10 DEF Next

\* The ledger is well formed for any number of events, whatever is cut, and whenever.
THEOREM LedgerInvariance == Spec => []LedgerInv
<1>1. Init => LedgerInv
  <2> SUFFICES ASSUME Init PROVE LedgerInv
    OBVIOUS
  <2>1. /\ ledger = <<>> /\ ledger \in Seq(Tokens) /\ Len(ledger) = 0 /\ DOMAIN ledger = {}
        /\ kept = 0 /\ event = 0 /\ told = {} /\ broken = 0 /\ pc = "idle"
    BY EmptySeq DEF Init
  <2>2. Unended(ledger) = {}
    BY <2>1 DEF Unended
  <2>3. Cardinality(Unended(ledger)) = 0
    BY <2>2, FS_EmptySet
  <2>4. QED
    BY <2>1, <2>3 DEF LedgerInv, TokenTypes, WrittenOnce, ToldIsWhole, EndIsDue, CutsAreCounted
<1>2. QED
  BY <1>1, LedgerInductive, PTL DEF Spec

\* A set of naturals has a least element.
LEMMA Smallest ==
  ASSUME NEW S, S \subseteq Nat, S # {}
  PROVE  \E m \in S : \A k \in S : m <= k
<1>1. \E m \in S : \A k \in S : <<k, m>> \notin OpToRel(<, Nat)
  BY WFMin, NatLessThanWellFounded
<1>2. PICK m \in S : \A k \in S : <<k, m>> \notin OpToRel(<, Nat)
  BY <1>1
<1>3. ASSUME NEW k \in S PROVE ~(k < m)
  BY <1>2, <1>3 DEF OpToRel
<1>4. \A k \in S : m <= k
  BY <1>3
<1>5. QED
  BY <1>4

\* An event that was told and is not parsed was appended to a line that had begun.
LEMMA HiddenFollowsAText ==
  ASSUME LedgerInv, NEW e \in told \ ParseLedger
  PROVE  \E i \in DOMAIN ledger :
           /\ i - 1 \in DOMAIN ledger /\ i + 1 \in DOMAIN ledger
           /\ ledger[i].ev = e /\ ledger[i] # Newline /\ ledger[i - 1] # Newline
<1>1. PICK i \in DOMAIN ledger : i + 1 \in DOMAIN ledger /\ ledger[i] = Whole(e) /\ ledger[i + 1] = Newline
  BY DEF LedgerInv, ToldIsWhole, ToldAt
<1>2. e \in Nat /\ e > 0
  <2>1. event \in Nat /\ e \in 1..event
    BY DEF LedgerInv, TokenTypes, ToldIsWhole
  <2>2. QED
    BY <2>1
<1>3. ledger[i].ev = e /\ ledger[i].whole = TRUE /\ ledger[i] # Newline
  BY <1>1, <1>2 DEF Whole, Text, Newline
<1>4. Parses(i)
  BY <1>1, <1>3 DEF Parses, LineEnd
<1>5. ~LineStart(i)
  BY <1>1, <1>3, <1>4 DEF ParseLedger, Lines
<1>6. Len(ledger) \in Nat /\ DOMAIN ledger = 1..Len(ledger)
  BY DEF LedgerInv, TokenTypes
<1>7. i # 1 /\ ledger[i - 1] # Newline
  BY <1>3, <1>5 DEF LineStart
<1>8. QED
  BY <1>1, <1>3, <1>6, <1>7

\* Whatever is cut: every event whose append succeeded is in what the ledger tells,
\* but for one per append that was cut, and then the doctor fails (fee.rs:297, 484).
THEOREM LedgerIsTold == Spec => []LedgerTold
<1>1. ASSUME LedgerInv PROVE LedgerTold
  <2> DEFINE hidden == told \ ParseLedger
             cuts == Unended(ledger) \ {Len(ledger)}
             follows == [j \in cuts |-> ledger[j + 1].ev]
             shown == {follows[j] : j \in cuts}
  <2>1. Len(ledger) \in Nat /\ DOMAIN ledger = 1..Len(ledger) /\ ledger \in Seq(Tokens) /\ broken \in Nat
    BY <1>1 DEF LedgerInv, TokenTypes
  <2>2. Cardinality(hidden) <= broken
    <3>1. IsFiniteSet(cuts) /\ Cardinality(cuts) \in Nat /\ Cardinality(cuts) <= broken
      BY <1>1, CutsBounded
    <3>2. follows \in Surjection(cuts, shown)
      BY DEF Surjection
    <3>3. IsFiniteSet(shown) /\ Cardinality(shown) <= Cardinality(cuts)
      <4> HIDE DEF cuts, follows, shown
      <4>1. QED
        BY <3>1, <3>2, FS_Surjection
    <3>4. hidden \subseteq shown
      <4>1. ASSUME NEW e \in hidden PROVE e \in shown
        <5>1. PICK i \in DOMAIN ledger :
                /\ i - 1 \in DOMAIN ledger /\ i + 1 \in DOMAIN ledger
                /\ ledger[i].ev = e /\ ledger[i] # Newline /\ ledger[i - 1] # Newline
          BY <1>1, HiddenFollowsAText
        <5>2. i - 1 \in cuts /\ (i - 1) + 1 = i
          BY <2>1, <5>1 DEF Unended
        <5>3. follows[i - 1] = e
          BY <5>1, <5>2
        <5>4. QED
          BY <5>2, <5>3
      <4>2. QED
        BY <4>1
    <3>5. IsFiniteSet(hidden) /\ Cardinality(hidden) <= Cardinality(shown)
      BY <3>3, <3>4, FS_Subset
    <3>6. Cardinality(shown) \in Nat /\ Cardinality(hidden) \in Nat
      BY <3>3, <3>5, FS_CardinalityType
    <3> HIDE DEF hidden, cuts, shown
    <3>7. QED
      BY <2>1, <3>1, <3>3, <3>5, <3>6
  <2>3. ASSUME NEW e \in hidden PROVE ~DoctorPasses
    <3>1. PICK i \in DOMAIN ledger :
            /\ i - 1 \in DOMAIN ledger /\ i + 1 \in DOMAIN ledger
            /\ ledger[i].ev = e /\ ledger[i] # Newline /\ ledger[i - 1] # Newline
      BY <1>1, <2>3, HiddenFollowsAText
    <3> DEFINE line == {k \in 1..(i - 1) : \A j \in k..i : ledger[j] # Newline}
    <3>2. i - 1 \in line
      BY <2>1, <3>1
    <3>3. PICK k \in line : \A m \in line : k <= m
      <4>1. line \subseteq Nat /\ line # {}
        BY <2>1, <3>1, <3>2
      <4> HIDE DEF line
      <4>2. QED
        BY <4>1, Smallest
    <3>4. k \in DOMAIN ledger /\ k + 1 \in DOMAIN ledger /\ ledger[k] # Newline /\ ledger[k + 1] # Newline
      BY <2>1, <3>1, <3>3
    <3>5. k = 1 \/ ledger[k - 1] = Newline
      <4>1. SUFFICES ASSUME k # 1, ledger[k - 1] # Newline PROVE k - 1 \in line
        BY <3>1, <3>3, <2>1
      <4>2. \A j \in (k - 1)..i : j = k - 1 \/ j \in k..i
        BY <2>1, <3>1, <3>3
      <4>3. k - 1 \in 1..(i - 1)
        BY <2>1, <3>1, <3>3, <4>1
      <4>4. QED
        BY <3>3, <4>1, <4>2, <4>3
    <3>6. k \in Lines
      BY <3>4, <3>5 DEF Lines, LineStart
    <3>7. ~Parses(k)
      BY <2>1, <3>4 DEF Parses, LineEnd
    <3>8. QED
      BY <3>6, <3>7 DEF DoctorPasses
  <2>4. QED
    BY <2>2, <2>3 DEF LedgerTold
<1>2. QED
  BY <1>1, LedgerInvariance, PTL
=============================================================================
