----------------------------- MODULE NodeFiles ------------------------------
(***************************************************************************)
(* The two files a running node keeps on one disk: payout.json, replaced   *)
(* as a whole by write_private_atomic (pasivd/src/main.rs), and the fee    *)
(* ledger, one JSON line per slice, appended by append_event and read by   *)
(* parse_ledger (pasiv-core/src/fee.rs).  The miner task does one of these *)
(* at a time, each in several system calls; between any two of them the    *)
(* process may die, the disk fill up, or the power go.                     *)
(*                                                                         *)
(* A ledger is a sequence of tokens: the text of an event, whole or torn,  *)
(* and newlines.  The claim of another process may remove payout.json.     *)
(***************************************************************************)
EXTENDS Naturals, Sequences, FiniteSets

CONSTANTS
  Values,      \* payouts
  NoFile, Torn,
  MaxEvents    \* bound on the slices of the ledger

ASSUME FilesAssumption == MaxEvents \in Nat /\ NoFile \notin Values /\ Torn \notin Values

VARIABLES
  pc,       \* the task: "idle", or the system call it is about to make
  file,     \* what payout.json holds
  after,    \* what it may hold after a power cut
  tmp,      \* its temporary file
  synced,   \* is tmp on the disk?
  want,     \* the payout being saved
  full,     \* is the disk full?
  ledger,   \* the tokens of the ledger
  kept,     \* how many of them a power cut cannot take
  event,    \* the last slice
  told,     \* history: the events appended with success and not cut off again
  broken    \* history: appends interrupted, or cut off later

private == <<file, after, tmp, synced, want>>
book    == <<ledger, kept, event, told, broken>>
vars    == <<pc, private, full, book>>

-----------------------------------------------------------------------------
(* write_private_atomic.                                                   *)

Save ==                              \* nothing to do for the same bytes
  /\ pc = "idle" /\ want' \in Values
  /\ pc' = IF file = want' THEN "idle" ELSE "open"
  /\ UNCHANGED <<file, after, tmp, synced, full, book>>

Open ==                              \* a leftover is removed first
  /\ pc = "open" /\ pc' = "write" /\ tmp' = Torn /\ synced' = FALSE
  /\ UNCHANGED <<file, after, want, full, book>>

Fails ==                             \* any call; the temporary file goes
  /\ pc \in {"open", "write", "sync", "rename"} /\ full
  /\ pc' = "idle" /\ tmp' = NoFile
  /\ UNCHANGED <<file, after, synced, want, full, book>>

Write ==
  /\ pc = "write" /\ ~full /\ pc' = "sync" /\ tmp' = want
  /\ UNCHANGED <<file, after, synced, want, full, book>>

SyncNothing ==                       \* slip: renamed before it is on the disk
  /\ pc = "sync" /\ pc' = "rename" /\ UNCHANGED <<private, full, book>>

Sync ==
  /\ pc = "sync" /\ ~full /\ pc' = "rename" /\ synced' = TRUE
  /\ UNCHANGED <<file, after, tmp, want, full, book>>

Rename ==
  /\ pc = "rename" /\ pc' = "dir" /\ file' = tmp /\ tmp' = NoFile
  /\ after' = after \union {IF synced THEN tmp ELSE Torn}
  /\ UNCHANGED <<synced, want, full, book>>

SyncDir ==                           \* best effort
  /\ pc = "dir" /\ pc' = "idle" /\ after' \in {after, {file}}
  /\ UNCHANGED <<file, tmp, synced, want, full, book>>

Remove ==                            \* cmd_claim; the directory is not synced
  /\ file # NoFile /\ file' = NoFile /\ after' = after \union {NoFile}
  /\ UNCHANGED <<pc, tmp, synced, want, full, book>>

-----------------------------------------------------------------------------
(* append_event: writeln! makes a call for the text and one for its end.   *)

Text(e, w) == [ev |-> e, whole |-> w]
Newline    == Text(0, TRUE)

Begin ==
  /\ pc = "idle" /\ event < MaxEvents /\ event' = event + 1 /\ pc' = "text"
  /\ UNCHANGED <<private, full, ledger, kept, told, broken>>

WriteText ==
  /\ pc = "text" /\ ~full /\ pc' = "end" /\ ledger' = Append(ledger, Text(event, TRUE))
  /\ UNCHANGED <<private, full, kept, event, told, broken>>

WriteNoEnd ==                        \* slip: write! for writeln!
  /\ pc = "end" /\ pc' = "idle" /\ told' = told \union {event}
  /\ UNCHANGED <<private, full, ledger, kept, event, broken>>

WriteEnd ==
  /\ pc = "end" /\ ~full /\ pc' = "idle" /\ ledger' = Append(ledger, Newline)
  /\ told' = told \union {event}
  /\ UNCHANGED <<private, full, kept, event, broken>>

AppendFails ==                       \* the error is dropped by append_fee_event
  /\ pc \in {"text", "end"} /\ full /\ pc' = "idle" /\ broken' = broken + 1
  /\ \/ UNCHANGED ledger
     \/ pc = "text" /\ ledger' = Append(ledger, Text(event, FALSE))
  /\ UNCHANGED <<private, full, kept, event, told>>

-----------------------------------------------------------------------------
(* The disk and the machine.                                               *)

Fill == full' = ~full /\ UNCHANGED <<pc, private, book>>

Writeback ==
  /\ after' = {file} /\ kept' = Len(ledger)
  /\ UNCHANGED <<pc, file, tmp, synced, want, full, ledger, event, told, broken>>

Crash ==
  /\ pc # "idle" /\ pc' = "idle"
  /\ broken' = IF pc = "end" THEN broken + 1 ELSE broken
  /\ UNCHANGED <<private, full, ledger, kept, event, told>>

\* The first n tokens survive, and perhaps a part of the next.
PowerCut ==
  /\ pc' = "idle" /\ tmp' = NoFile
  /\ file' \in after /\ after' = {file'}
  /\ \E n \in kept..Len(ledger) :
       /\ \/ ledger' = SubSeq(ledger, 1, n)
          \/ /\ n < Len(ledger) /\ ledger[n + 1] # Newline
             /\ ledger' = Append(SubSeq(ledger, 1, n), Text(ledger[n + 1].ev, FALSE))
       /\ told' = {e \in told : \E i \in 1..(n - 1) : ledger[i].ev = e}
       /\ broken' = IF n < Len(ledger) \/ pc = "end" THEN broken + 1 ELSE broken
  /\ kept' = Len(ledger')
  /\ UNCHANGED <<synced, want, full, event>>

-----------------------------------------------------------------------------
Init ==
  /\ pc = "idle" /\ full = FALSE
  /\ file = NoFile /\ after = {NoFile} /\ tmp = NoFile /\ synced = FALSE /\ want \in Values
  /\ ledger = <<>> /\ kept = 0 /\ event = 0 /\ told = {} /\ broken = 0

Next ==
  \/ Save \/ Open \/ Fails \/ Write \/ Sync \/ Rename \/ SyncDir \/ Remove
  \/ Begin \/ WriteText \/ WriteEnd \/ AppendFails
  \/ Fill \/ Writeback \/ Crash \/ PowerCut

Spec == Init /\ [][Next]_vars

-----------------------------------------------------------------------------
(* parse_ledger and the doctor's count of it.                              *)

LineStart(i) == ledger[i] # Newline /\ (i = 1 \/ ledger[i - 1] = Newline)
LineEnd(i)   == i = Len(ledger) \/ ledger[i + 1] = Newline
Lines        == {i \in DOMAIN ledger : LineStart(i)}
Parses(i)    == ledger[i].whole /\ LineEnd(i)
ParseLedger  == {ledger[i].ev : i \in {j \in Lines : Parses(j)}}
DoctorPasses == \A i \in Lines : Parses(i)

\* "A crash or a full disk mid-write leaves the old file intact, never a
\* truncated one" (main.rs:55): the file is a register of whole payouts.
File == INSTANCE Register WITH value <- file
ImplementsRegister == File!Spec

\* Every completed event is in what the ledger tells, but for at most one per
\* append that was interrupted or cut off, and the doctor then says so.
LedgerTold ==
  LET hidden == told \ ParseLedger IN
    /\ Cardinality(hidden) <= broken
    /\ hidden # {} => ~DoctorPasses

\* "A corrupt line never hides the rest of the ledger" (fee.rs:484): it hides
\* the event that is appended to it.  No run checks this one.
CorruptHidesNothing == told \subseteq ParseLedger
=============================================================================
