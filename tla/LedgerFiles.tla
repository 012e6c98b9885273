---------------------------- MODULE LedgerFiles ----------------------------
(***************************************************************************)
(* Ledger (core/ledger.py) down to the writes: agents append the records   *)
(* of their texts to files in one directory, each to its own file and all  *)
(* of them to the quarantine, under a lock per file.  A record larger than *)
(* the buffer takes two writes; the process may die or the disk fill       *)
(* between them, and the next run appends behind what is there.            *)
(*                                                                         *)
(* A line of a file is the beginnings of records in it and the record that *)
(* ends it: it is whole when that is one beginning and its own end.        *)
(***************************************************************************)
EXTENDS Extraction

CONSTANTS Agents,       \* agents, each with a thread of its own
          Texts,        \* the texts a model may return, see Extraction
          Unfit,        \* records that Finding.model_validate rejects
          Unencodable,  \* records with a character UTF-8 has no bytes for
          MaxFaults     \* bound: crashes and failed writes

Quarantine == "quarantine"
Files == Agents \cup {Quarantine}
Nobody == "nobody"

ASSUME LedgerAssumption ==
  /\ Quarantine \notin Agents /\ Nobody \notin Agents
  /\ \A t \in Texts : IsText(t)
  /\ UNION {Unfit, Unencodable, Separated} \subseteq Records
  /\ MaxFaults \in Nat

VARIABLES pc,       \* what each agent's thread is about to do
          answer,   \* the text its model returned
          todo,     \* the records it has still to append
          holder,   \* who holds the lock of each file
          file,     \* the files: their lines, and what follows the last newline
          acked,    \* the records whose append returned, by the file they went to
          faults    \* how many writes failed and how often the process died

ledgerVars == <<pc, answer, todo, holder, file, acked, faults>>

Steps == {"asked", "append", "write", "finish", "done", "raised"}

Silence == [fences |-> <<>>, loose |-> <<>>]

EmptyFile == [lines |-> <<>>, open |-> <<>>]

Init ==
  /\ pc = [a \in Agents |-> "asked"]
  /\ answer = [a \in Agents |-> Silence]
  /\ todo = [a \in Agents |-> <<>>]
  /\ holder = [f \in Files |-> Nobody]
  /\ file = [f \in Files |-> EmptyFile]
  /\ acked = [f \in Files |-> <<>>]
  /\ faults = 0

-----------------------------------------------------------------------------

\* The model answered, and its text was searched for records.
Extract(a) ==
  /\ pc[a] = "asked"
  /\ \E t \in Texts :
       /\ answer' = [answer EXCEPT ![a] = t]
       /\ todo' = [todo EXCEPT ![a] = ExtractRecords(t)]
  /\ pc' = [pc EXCEPT ![a] = "append"]
  /\ UNCHANGED <<holder, file, acked, faults>>

\* Where the record an agent is appending goes.
Target(a) == IF Head(todo[a]) \in Unfit THEN Quarantine ELSE a

\* Slip: the lock is the agent's own, whatever file it writes.
LockPerAgent(a) == a

\* The lock is found by the name of the file.
LockName(a) == Target(a)

Acquire(a) ==
  /\ pc[a] = "append" /\ todo[a] # <<>> /\ holder[LockName(a)] = Nobody
  /\ holder' = [holder EXCEPT ![LockName(a)] = a]
  /\ pc' = [pc EXCEPT ![a] = "write"]
  /\ UNCHANGED <<answer, todo, file, acked, faults>>

\* append_many returns.
Finished(a) ==
  /\ pc[a] = "append" /\ todo[a] = <<>>
  /\ pc' = [pc EXCEPT ![a] = "done"]
  /\ UNCHANGED <<answer, todo, holder, file, acked, faults>>

\* Slip: the lock is not released on the way out of an exception.
KeptByRaise(a) ==
  [holder EXCEPT ![LockName(a)] = IF pc[a] = "write" THEN a ELSE Nobody]

\* `with` releases the lock on every way out.
Released(a) == [holder EXCEPT ![LockName(a)] = Nobody]

\* The text cannot be encoded: nothing reaches the file and append raises,
\* whether the record was valid or on its way to the quarantine.
CannotEncode(a) ==
  /\ pc[a] = "write" /\ Head(todo[a]) \in Unencodable
  /\ holder' = Released(a)
  /\ pc' = [pc EXCEPT ![a] = "raised"]
  /\ UNCHANGED <<answer, todo, file, acked, faults>>

\* The file is opened for appending.
Opened(f) == file[f]

\* The first write of a record: its beginning is on disk.
Write(a) ==
  /\ pc[a] = "write" /\ Head(todo[a]) \notin Unencodable
  /\ LET f == Target(a) IN
       file' = [file EXCEPT ![f] = [Opened(f) EXCEPT !.open = Append(@, Head(todo[a]))]]
  /\ pc' = [pc EXCEPT ![a] = "finish"]
  /\ UNCHANGED <<answer, todo, holder, acked, faults>>

\* The last write, with the newline.  append returns what it did, (True, [])
\* or (False, errors); the way back changes nothing on disk.
Finish(a) ==
  /\ pc[a] = "finish"
  /\ LET f == Target(a) IN
       /\ file' = [file EXCEPT
            ![f] = [lines |-> Append(@.lines, [begun |-> @.open, ended |-> Head(todo[a])]),
                    open  |-> <<>>]]
       /\ acked' = [acked EXCEPT ![f] = Append(@, Head(todo[a]))]
  /\ holder' = Released(a)
  /\ todo' = [todo EXCEPT ![a] = Tail(@)]
  /\ pc' = [pc EXCEPT ![a] = "append"]
  /\ UNCHANGED <<answer, faults>>

\* The disk is full: append raises, what was written stays.
WriteFails(a) ==
  /\ pc[a] \in {"write", "finish"} /\ faults < MaxFaults
  /\ faults' = faults + 1
  /\ holder' = Released(a)
  /\ pc' = [pc EXCEPT ![a] = "raised"]
  /\ UNCHANGED <<answer, todo, file, acked>>

\* The process dies, and another run starts in the same workdir: the locks
\* lived in the process, the files do not.
CrashAndRerun ==
  /\ faults < MaxFaults /\ \E a \in Agents : pc[a] # "asked"
  /\ faults' = faults + 1
  /\ pc' = [a \in Agents |-> "asked"]
  /\ answer' = [a \in Agents |-> Silence]
  /\ todo' = [a \in Agents |-> <<>>]
  /\ holder' = [f \in Files |-> Nobody]
  /\ UNCHANGED <<file, acked>>

Thread(a) ==
  \/ Extract(a) \/ Acquire(a) \/ Finished(a) \/ CannotEncode(a) \/ Write(a) \/ Finish(a)

Next == (\E a \in Agents : Thread(a) \/ WriteFails(a)) \/ CrashAndRerun

Spec == Init /\ [][Next]_ledgerVars

\* Every thread that can run is run; nothing makes a write fail.
FairSpec == Spec /\ \A a \in Agents : WF_ledgerVars(Thread(a))

-----------------------------------------------------------------------------
(* Reading the files back *)

WholeLine(line) == line.begun = <<line.ended>>

\* validate_findings.py goes through an agent's file by its newlines and gets to
\* its schema with the lines that parse; what does not is quarantined and the
\* batch goes on.
Admitted(f) ==
  LET lines == file[f].lines
      whole == Picked(lines, {i \in DOMAIN lines : WholeLine(lines[i])})
  IN [n \in DOMAIN whole |-> whole[n].ended]

\* str.splitlines() also ends a line at the separators, which json.dumps leaves
\* as they are.
ParsesAsLine(line) == WholeLine(line) /\ line.ended \notin Separated

\* Slip: blank out what does not parse, as the reader of a model's text does.
ReadsWithGaps(f) == TRUE

\* read_all and quarantined get through a file only if every line of it parses.
ReadsThrough(f) ==
  /\ \A i \in DOMAIN file[f].lines : ParsesAsLine(file[f].lines[i])
  /\ file[f].open = <<>>

\* What read_all then finds in it.
ReadBack(f) ==
  LET lines  == file[f].lines
      parsed == Picked(lines, {i \in DOMAIN lines : ParsesAsLine(lines[i])})
  IN [n \in DOMAIN parsed |-> parsed[n].ended]

-----------------------------------------------------------------------------
(* Properties *)

TypeOK ==
  /\ pc \in [Agents -> Steps]
  /\ answer \in [Agents -> Texts \cup {Silence}]
  /\ todo \in [Agents -> Seq(Records)]
  /\ holder \in [Files -> Agents \cup {Nobody}]
  /\ file \in [Files -> [lines : Seq([begun : Seq(Records), ended : Records]),
                         open  : Seq(Records)]]
  /\ acked \in [Files -> Seq(Records)]
  /\ faults \in 0..MaxFaults

\* What the model said is on record once its agent is through: every record on a
\* line of a fence, whatever surrounds it, and where the fences hold none, every
\* record on a line of the rest; each in the agent's file or in the quarantine,
\* and, unless a run had to be repeated, in its file once however often it was
\* said.  A record that a separator splits stands on no line; it is on record if
\* it is all that its fence holds.  (extract_records, then append_many)
SaidIsTaken ==
  \A a \in Agents : pc[a] = "done" =>
    LET text == answer[a]
        kept == ToSet(acked[a]) \cup ToSet(acked[Quarantine])
    IN /\ \A i \in DOMAIN text.fences :
            LET fence == text.fences[i] IN
              /\ ToSet(OnLines(fence)) \subseteq kept
              /\ Len(fence) = 1 => ToSet(Whole(fence)) \subseteq kept
       /\ (\A i \in DOMAIN text.fences : ParseLines(text.fences[i]) = <<>>) =>
            ToSet(OnLines(text.loose)) \subseteq kept
       /\ faults = 0 => Cardinality(ToSet(acked[a])) = Len(acked[a])

\* What append said it wrote is in the file, in that order and with nothing of
\* another thread in it.  Only a fault makes a line unreadable, and each at most
\* one: the line that was being written, which the next record appended to the
\* file ends and is glued into.  (Ledger._write: one lock per file, append mode)
AnswersOnDisk ==
  \A f \in Files :
    LET lines == file[f].lines IN
      /\ [i \in DOMAIN lines |-> lines[i].ended] = acked[f]
      /\ Cardinality({i \in DOMAIN lines : ~WholeLine(lines[i])}) <= faults

\* read_all is never short without saying so: either it raises or it returns
\* everything append took.  It raises only after a fault, or over a record with
\* a line separator in it; over the latter the batch validator's reading of the
\* agents' files does not stumble.
ReadAllComplete ==
  \A f \in Files :
    /\ ReadsThrough(f) => ReadBack(f) = acked[f]
    /\ holder[f] = Nobody /\ faults = 0 =>
         /\ ReadsThrough(f) <=> ToSet(acked[f]) \cap Separated = {}
         /\ f # Quarantine => Admitted(f) = acked[f]

\* A thread whose model has answered gets all its records on disk, or raises
\* over one that cannot be written; it never waits for ever for a file.
AppendsEnd ==
  \A a \in Agents : pc[a] = "append" ~> pc[a] \in {"done", "raised", "asked"}
=============================================================================
