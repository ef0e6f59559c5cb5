------------------------------- MODULE Ledger -------------------------------
(***************************************************************************)
(* The receipt ledgers (ledger/index.ts): append() stores a receipt under  *)
(* its id once; the same receipt again is answered with what is stored, a  *)
(* different one with that id is a conflict.                               *)
(*                                                                         *)
(* An append is one call, made by a process; a process may crash between   *)
(* any two awaits, and an operation of the store may fail.  One statement  *)
(* of a database is one step of it.  Files are modelled as the file system *)
(* keeps them: names link to inodes, an open file goes on being written    *)
(* when its name is renamed.  An inode is named after the append that      *)
(* created it.                                                             *)
(***************************************************************************)
EXTENDS Naturals, Sequences

CONSTANTS
  Ids, Receipts,     \* receipt ids; receipts, up to their checksum
  Appends,           \* calls, each with its id, receipt and process
  IdOf, ReceiptOf, ProcessOf,
  Adapters,          \* the kinds of ledger: some of the following
  MaxReceipts,       \* how many receipts a memory ledger keeps
  MaxTime,           \* bound on the clock, which names temporary files
  None, Torn         \* no receipt, no inode; contents that are no receipt

AllAdapters == {"memory", "sqlite", "postgres", "file"}
ASSUME LedgerAssumption ==
  /\ IdOf \in [Appends -> Ids] /\ ReceiptOf \in [Appends -> Receipts]
  /\ Adapters \subseteq AllAdapters
  /\ MaxReceipts \in Nat \ {0} /\ MaxTime \in Nat
  /\ None \notin Appends \cup Receipts /\ Torn \notin Receipts \cup {None}

VARIABLES
  adapter,   \* which of the ledgers it is
  row,       \* row[i]: the receipt of a database or memory ledger
  kept,      \* the ids of a memory ledger, oldest first
  inode,     \* inode[a]: contents of the inode append a created
  link,      \* link[i]: the inode that the file of i is, or None
  temp,      \* temp[n]: the inode that the temporary file n is, or None
  open,      \* open[a]: the inode that append a writes
  name,      \* name[a]: its temporary file
  now,       \* the clock
  phase,     \* phase[a]: where the call is
  answer,    \* answer[a]: what it returned or threw
  listing    \* a call of list(): where it is, the ids it has yet to read, what it
             \* found, and (history) the ids that were acknowledged when it began

TempNames == Ids \X {ProcessOf[a] : a \in Appends} \X (0..MaxTime)

database == <<row, kept>>
files == <<inode, link, temp>>
appending == <<adapter, database, files, open, name, now, phase, answer>>
vars == <<appending, listing>>

TypeOK ==
  /\ adapter \in Adapters
  /\ row \in [Ids -> Receipts \cup {None}]
  /\ kept \in Seq(Ids) /\ Len(kept) <= MaxReceipts
  /\ inode \in [Appends -> Receipts \cup {None, Torn}]
  /\ link \in [Ids -> Appends \cup {None}]
  /\ temp \in [TempNames -> Appends \cup {None}]
  /\ open \in [Appends -> Appends \cup {None}]
  /\ name \in [Appends -> TempNames \cup {None}]
  /\ now \in 0..MaxTime
  /\ phase \in [Appends -> {"ready", "reading", "opening", "writing", "renaming",
                            "over", "crashed"}]
  /\ answer \in [Appends -> {"none", "stored", "conflict", "failure"}]
  /\ listing \in [is : {"ready", "reading", "failed"}, due : SUBSET Ids,
                  found : [Ids -> Receipts \cup {None}], promised : SUBSET Ids]

Init ==
  /\ adapter \in Adapters
  /\ row = [i \in Ids |-> None] /\ kept = <<>>
  /\ inode = [a \in Appends |-> None] /\ link = [i \in Ids |-> None]
  /\ temp = [n \in TempNames |-> None]
  /\ open = [a \in Appends |-> None] /\ name = [a \in Appends |-> None]
  /\ now = 0
  /\ phase = [a \in Appends |-> "ready"] /\ answer = [a \in Appends |-> "none"]
  /\ listing = [is |-> "ready", due |-> {}, found |-> [i \in Ids |-> None], promised |-> {}]
----------------------------------------------------------------------------
Go(a, p) == phase' = [phase EXCEPT ![a] = p]

Answer(a, x) ==
  /\ Go(a, "over")
  /\ answer' = [answer EXCEPT ![a] = x]

\* finalizeStoredReceipt(): what is stored, compared by checksum.
FinalizeUnseen(a, stored) == "stored"
Finalize(a, stored) == IF stored = ReceiptOf[a] THEN "stored" ELSE "conflict"

\* append() of the memory ledger; a full one forgets its oldest receipt first.
OldestTooLate == IF Len(kept) > MaxReceipts THEN {Head(kept)} ELSE {}
Oldest == IF Len(kept) >= MaxReceipts THEN {Head(kept)} ELSE {}
MemoryAppend(a) ==
  /\ adapter = "memory" /\ phase[a] = "ready"
  /\ IF row[IdOf[a]] # None
       THEN Answer(a, Finalize(a, row[IdOf[a]])) /\ UNCHANGED database
       ELSE /\ row' = [i \in Ids |-> IF i = IdOf[a] THEN ReceiptOf[a]
                                     ELSE IF i \in Oldest THEN None ELSE row[i]]
            /\ kept' = Append(IF Oldest = {} THEN kept ELSE Tail(kept), IdOf[a])
            /\ Answer(a, "stored")
  /\ UNCHANGED <<adapter, files, open, name, now>>

\* INSERT OR IGNORE, or INSERT .. ON CONFLICT DO NOTHING RETURNING: only the latter
\* tells whether the row is new. The table was created by an earlier await.
InsertOrReplace(a) == row' = [row EXCEPT ![IdOf[a]] = ReceiptOf[a]]
InsertOrIgnore(a) ==
  row' = IF row[IdOf[a]] = None THEN [row EXCEPT ![IdOf[a]] = ReceiptOf[a]] ELSE row
Insert(a) ==
  /\ adapter \in {"sqlite", "postgres"} /\ phase[a] = "ready"
  /\ InsertOrIgnore(a)
  /\ IF adapter = "postgres" /\ row[IdOf[a]] = None THEN Answer(a, "stored")
     ELSE Go(a, "reading") /\ UNCHANGED answer
  /\ UNCHANGED <<adapter, kept, files, open, name, now>>

ReadRow(a) ==
  /\ adapter \in {"sqlite", "postgres"} /\ phase[a] = "reading"
  /\ Answer(a, Finalize(a, row[IdOf[a]]))
  /\ UNCHANGED <<adapter, database, files, open, name, now>>

\* append() of the file ledger reads what is stored; without a file it composes a
\* temporary name from the id, the process and the clock ...
NameWithoutProcess(a) == <<IdOf[a], ProcessOf[CHOOSE b \in Appends : IdOf[b] = IdOf[a]], now>>
TempName(a) == <<IdOf[a], ProcessOf[a], now>>
ReadStored(a) ==
  /\ adapter = "file" /\ phase[a] = "ready"
  /\ IF link[IdOf[a]] = None
       THEN /\ name' = [name EXCEPT ![a] = TempName(a)]
            /\ Go(a, "opening") /\ UNCHANGED answer
       ELSE LET stored == inode[link[IdOf[a]]]
            IN  /\ Answer(a, IF stored = Torn THEN "failure" ELSE Finalize(a, stored))
                /\ UNCHANGED name
  /\ UNCHANGED <<adapter, database, files, open, now>>

\* ... opens and truncates that file, creating it if need be, ...
OpenTemp(a) ==
  /\ phase[a] = "opening"
  /\ LET n == IF temp[name[a]] = None THEN a ELSE temp[name[a]]
     IN  /\ temp' = [temp EXCEPT ![name[a]] = n]
         /\ inode' = [inode EXCEPT ![n] = Torn]
         /\ open' = [open EXCEPT ![a] = n]
  /\ Go(a, "writing")
  /\ UNCHANGED <<adapter, database, link, name, now, answer>>

\* ... writes it, possibly over what another append has written into it, ...
WriteTemp(a) ==
  /\ phase[a] = "writing"
  /\ \E c \in {ReceiptOf[a]} \cup (IF inode[open[a]] \in {Torn, ReceiptOf[a]} THEN {} ELSE {Torn}) :
       inode' = [inode EXCEPT ![open[a]] = c]
  /\ Go(a, "renaming")
  /\ UNCHANGED <<adapter, database, link, temp, open, name, now, answer>>

\* ... and renames it over the file, whatever that is by now.
RenameTemp(a) ==
  /\ phase[a] = "renaming"
  /\ IF temp[name[a]] = None THEN Answer(a, "failure") /\ UNCHANGED <<link, temp>>
     ELSE /\ link' = [link EXCEPT ![IdOf[a]] = temp[name[a]]]
          /\ temp' = [temp EXCEPT ![name[a]] = None]
          /\ Answer(a, "stored")
  /\ UNCHANGED <<adapter, database, inode, open, name, now>>

\* An operation of the store fails, or the process crashes.
Busy(a) == adapter # "memory" /\ phase[a] \notin {"over", "crashed"}
StoreFails(a) ==
  /\ Busy(a) /\ Answer(a, "failure")
  /\ UNCHANGED <<adapter, database, files, open, name, now>>

Crash(a) ==
  /\ Busy(a) /\ phase[a] # "ready" /\ Go(a, "crashed")
  /\ UNCHANGED <<adapter, database, files, open, name, now, answer>>

Tick ==
  /\ now < MaxTime /\ now' = now + 1
  /\ UNCHANGED <<adapter, database, files, open, name, phase, answer>>

\* What get() reads under id i.
Stored(i) ==
  IF adapter = "file" THEN IF link[i] = None THEN None ELSE inode[link[i]] ELSE row[i]

\* list() reads the names in the directory and then file after file; the other
\* ledgers answer at once.  The order of the records is left out.
BeginList ==
  /\ listing.is = "ready"
  /\ listing' = [is |-> "reading", promised |-> {IdOf[a] : a \in {b \in Appends : answer[b] = "stored"}},
                 due |-> IF adapter = "file" THEN {i \in Ids : link[i] # None} ELSE {},
                 found |-> [i \in Ids |-> IF adapter = "file" THEN None ELSE row[i]]]
  /\ UNCHANGED appending

ListReads(i) ==
  /\ listing.is = "reading" /\ i \in listing.due
  /\ listing' = IF Stored(i) = Torn THEN [listing EXCEPT !.is = "failed"]
                ELSE [listing EXCEPT !.due = @ \ {i}, !.found[i] = Stored(i)]
  /\ UNCHANGED appending

AppendStep(a) ==
  \/ MemoryAppend(a) \/ Insert(a) \/ ReadRow(a)
  \/ ReadStored(a) \/ OpenTemp(a) \/ WriteTemp(a) \/ RenameTemp(a)
  \/ StoreFails(a) \/ Crash(a)
Next ==
  \/ (Tick \/ \E a \in Appends : AppendStep(a)) /\ UNCHANGED listing
  \/ BeginList \/ \E i \in Ids : ListReads(i)
Spec == Init /\ [][Next]_vars
----------------------------------------------------------------------------
\* All that is ever appended under i is one receipt.
Agreed(i) == \A a, b \in Appends : IdOf[a] = i /\ IdOf[b] = i => ReceiptOf[a] = ReceiptOf[b]

\* The file ledger reads, then writes and renames, so that it vouches only for ids
\* under which one receipt is appended; a memory ledger forgets.
Vouched(i) == adapter \in {"sqlite", "postgres"} \/ (adapter = "file" /\ Agreed(i))

\* What an append acknowledged stays readable through crashes, failures and other
\* appends, and no reader of a file ledger sees half a receipt ("atomic
\* write-then-rename").
Durable ==
  /\ adapter # "memory" => \A a \in Appends : answer[a] = "stored" => Stored(IdOf[a]) # None
  /\ \A i \in Ids : Stored(i) # Torn

\* The answer is true: "stored" means that this receipt is stored, "conflict" that a
\* different one is.  Appending the same receipt again is never a conflict.  A list
\* shows what was acknowledged before it began, and nothing but what is stored.
Listed == listing.is = "reading" /\ listing.due = {}
AnswerTruth ==
  /\ \A a \in Appends : Vouched(IdOf[a]) =>
       /\ answer[a] = "stored" => Stored(IdOf[a]) = ReceiptOf[a]
       /\ answer[a] = "conflict" => Stored(IdOf[a]) \notin {None, ReceiptOf[a]}
  /\ listing.is # "failed"
  /\ Listed => \A i \in Ids :
       /\ adapter # "memory" /\ i \in listing.promised => listing.found[i] # None
       /\ Vouched(i) /\ listing.found[i] # None => listing.found[i] = Stored(i)

\* A stored receipt is never replaced by another; a memory ledger may forget it.
NothingReplaced ==
  [][\A i \in Ids : Stored(i) # None =>
       \/ Stored(i)' = Stored(i)
       \/ adapter = "memory" /\ Stored(i)' = None
       \/ adapter = "file" /\ ~Agreed(i)]_vars

\* "Error thrown when the same receipt id is appended with different content"
\* (ledger/index.ts:92): of two different receipts with one id one is refused.
ConflictsDetected ==
  \A a, b \in Appends :
    IdOf[a] = IdOf[b] /\ answer[a] = "stored" /\ answer[b] = "stored" => ReceiptOf[a] = ReceiptOf[b]
=============================================================================
