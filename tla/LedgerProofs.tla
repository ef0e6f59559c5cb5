---------------------------- MODULE LedgerProofs ----------------------------
(***************************************************************************)
(* Theorems about Ledger, for every set of ids, receipts and appends and   *)
(* for all four ledgers: all that its run checks.  They assume of a file   *)
(* ledger what its temporary names need: that the appends of one id are    *)
(* made by different processes.                                            *)
(*                                                                         *)
(* The invariant says first what is in the files and rows (Sound, Temps,   *)
(* Links), and then that what an append or a listing reported agrees with  *)
(* it (Answered, Found).  The second half follows from a fact about single *)
(* steps: what is stored stays, unless it may be replaced or forgotten.    *)
(***************************************************************************)
EXTENDS Ledger, TLAPS

\* The temporary names of two appends of one id differ at any time.
SeparateWriters ==
  "file" \in Adapters =>
    \A a, b \in Appends : IdOf[a] = IdOf[b] /\ ProcessOf[a] = ProcessOf[b] => a = b

\* An append that reads a row back finds one; one that writes has a file of its own.
Sound(a) ==
  /\ phase[a] = "reading" => adapter \in {"sqlite", "postgres"} /\ row[IdOf[a]] # None
  /\ phase[a] \in {"opening", "writing", "renaming"} =>
       /\ adapter = "file"
       /\ name[a] \in TempNames /\ name[a][1] = IdOf[a] /\ name[a][2] = ProcessOf[a]
  /\ phase[a] \in {"writing", "renaming"} => open[a] = a /\ temp[name[a]] = a
  /\ phase[a] = "writing" => inode[a] = Torn
  /\ phase[a] = "renaming" => inode[a] = ReceiptOf[a]

\* A temporary file is that of the append which created it.
Temps(n) ==
  \A a \in Appends : temp[n] = a =>
    /\ n[1] = IdOf[a] /\ n[2] = ProcessOf[a] /\ name[a] = n
    /\ phase[a] \in {"writing", "renaming", "over", "crashed"}

\* The file of an id holds the whole receipt of an append that renamed it and is over.
Links(i) ==
  \A a \in Appends : link[i] = a =>
    IdOf[a] = i /\ inode[a] = ReceiptOf[a] /\ phase[a] = "over"

Kept ==
  /\ TypeOK
  /\ \A a \in Appends : Sound(a)
  /\ \A n \in TempNames : Temps(n)
  /\ \A i \in Ids : Links(i)

Answered(a) ==
  /\ answer[a] = "stored" /\ adapter # "memory" => Stored(IdOf[a]) # None
  /\ Vouched(IdOf[a]) =>
       /\ answer[a] = "stored" => Stored(IdOf[a]) = ReceiptOf[a]
       /\ answer[a] = "conflict" => Stored(IdOf[a]) \notin {None, ReceiptOf[a]}

\* What a listing found is stored; what it owes and has not found, it has yet to read.
Found(i) ==
  listing.is = "reading" =>
    /\ adapter # "memory" /\ i \in listing.promised => listing.found[i] # None \/ i \in listing.due
    /\ i \in listing.due => adapter = "file" /\ Stored(i) # None
    /\ Vouched(i) /\ listing.found[i] # None => listing.found[i] = Stored(i)

Inductive ==
  /\ Kept
  /\ \A a \in Appends : Answered(a)
  /\ \A i \in Ids : Found(i)
  /\ listing.is # "failed"
----------------------------------------------------------------------------
(* Type correctness.                                                       *)

Phases == {"ready", "reading", "opening", "writing", "renaming", "over", "crashed"}
Answers == {"none", "stored", "conflict", "failure"}

\* A full memory ledger drops its oldest receipt before it takes the next.
LEMMA KeptBounded ==
  ASSUME NEW i \in Ids, kept \in Seq(Ids), Len(kept) <= MaxReceipts, MaxReceipts \in Nat \ {0}
  PROVE  LET k == Append(IF Oldest = {} THEN kept ELSE Tail(kept), i)
         IN  k \in Seq(Ids) /\ Len(k) <= MaxReceipts
<1>1. CASE Len(kept) >= MaxReceipts
  <2>1. Oldest = {Head(kept)} BY <1>1 DEF Oldest
  <2>2. kept # <<>> BY <1>1
  <2>3. Tail(kept) \in Seq(Ids) /\ Len(Tail(kept)) = Len(kept) - 1
    BY <2>2
  <2> QED BY <2>1, <2>3
<1>2. CASE ~(Len(kept) >= MaxReceipts)
  BY <1>2 DEF Oldest
<1> QED BY <1>1, <1>2

\* Every step of an append keeps the types of all it changes.
LEMMA TypeStep ==
  ASSUME TypeOK, NEW a \in Appends, Sound(a), AppendStep(a), UNCHANGED listing PROVE TypeOK'
<1> USE LedgerAssumption
<1>i. IdOf[a] \in Ids /\ ReceiptOf[a] \in Receipts OBVIOUS
<1>1. CASE MemoryAppend(a)
  <2>1. CASE row[IdOf[a]] # None
    BY <1>1, <2>1 DEF MemoryAppend, Answer, Go, Finalize, database, files, TypeOK
  <2>2. CASE row[IdOf[a]] = None
    <3>1. kept' \in Seq(Ids) /\ Len(kept') <= MaxReceipts
      <4>1. kept' = Append(IF Oldest = {} THEN kept ELSE Tail(kept), IdOf[a])
        BY <1>1, <2>2 DEF MemoryAppend
      <4> QED BY <4>1, <1>i, KeptBounded DEF TypeOK
    <3>2. row' \in [Ids -> Receipts \cup {None}]
      BY <1>1, <1>i, <2>2 DEF MemoryAppend, TypeOK
    <3> QED BY <1>1, <2>2, <3>1, <3>2 DEF MemoryAppend, Answer, Go, files, TypeOK
  <2> QED BY <2>1, <2>2
<1>2. CASE Insert(a)
  BY <1>2, <1>i DEF Insert, InsertOrIgnore, Answer, Go, files, TypeOK
<1>3. CASE ReadRow(a)
  BY <1>3 DEF ReadRow, Answer, Go, Finalize, database, files, TypeOK
<1>4. CASE ReadStored(a)
  <2>1. TempName(a) \in TempNames
    BY <1>i DEF TempName, TempNames, TypeOK
  <2> QED BY <1>4, <2>1 DEF ReadStored, Answer, Go, Finalize, database, files, TypeOK
<1>5. CASE OpenTemp(a)
  <2>1. PICK n \in Appends \cup {None} :
          /\ n = IF temp[name[a]] = None THEN a ELSE temp[name[a]]
          /\ temp' = [temp EXCEPT ![name[a]] = n]
          /\ inode' = [inode EXCEPT ![n] = Torn]
          /\ open' = [open EXCEPT ![a] = n]
    <3>1. name[a] \in TempNames BY <1>5 DEF OpenTemp, Sound
    <3>2. (IF temp[name[a]] = None THEN a ELSE temp[name[a]]) \in Appends \cup {None}
      BY <3>1 DEF TypeOK
    <3> QED BY <1>5, <3>2 DEF OpenTemp
  <2> QED BY <1>5, <2>1, ZenonT(30) DEF OpenTemp, Go, database, TypeOK
<1>6. CASE WriteTemp(a)
  BY <1>6, <1>i DEF WriteTemp, Go, database, TypeOK
<1>7. CASE RenameTemp(a)
  <2>1. temp[name[a]] = a /\ name[a] \in TempNames
    BY <1>7 DEF RenameTemp, Sound
  <2> QED BY <1>7, <1>i, <2>1, ZenonT(30) DEF RenameTemp, Answer, Go, database, TypeOK
<1>8. CASE StoreFails(a)
  BY <1>8 DEF StoreFails, Answer, Go, database, files, TypeOK
<1>9. CASE Crash(a)
  BY <1>9 DEF Crash, Go, database, files, TypeOK
<1> QED BY <1>1, <1>2, <1>3, <1>4, <1>5, <1>6, <1>7, <1>8, <1>9 DEF AppendStep
----------------------------------------------------------------------------
(* What is in rows and files.                                              *)

\* An append that opens its temporary file creates it: no other has that name.
LEMMA OpensOwn ==
  ASSUME Kept, SeparateWriters, NEW a \in Appends, OpenTemp(a)
  PROVE  /\ adapter = "file" /\ name[a] \in TempNames /\ name[a][1] = IdOf[a] /\ name[a][2] = ProcessOf[a]
         /\ temp[name[a]] = None
         /\ temp' = [temp EXCEPT ![name[a]] = a]
         /\ inode' = [inode EXCEPT ![a] = Torn]
         /\ open' = [open EXCEPT ![a] = a]
         /\ phase' = [phase EXCEPT ![a] = "writing"]
<1>1. phase[a] = "opening" BY DEF OpenTemp
<1>2. adapter = "file" /\ name[a] \in TempNames /\ name[a][1] = IdOf[a] /\ name[a][2] = ProcessOf[a]
  BY <1>1 DEF Kept, Sound
<1>3. ASSUME NEW b \in Appends, temp[name[a]] = b PROVE FALSE
  <2>1. IdOf[b] = IdOf[a] /\ ProcessOf[b] = ProcessOf[a] /\ phase[b] # "opening"
    BY <1>2, <1>3 DEF Kept, Temps
  <2>2. "file" \in Adapters BY <1>2 DEF Kept, TypeOK
  <2> QED BY <1>1, <2>1, <2>2 DEF SeparateWriters
<1>4. temp[name[a]] = None
  BY <1>2, <1>3 DEF Kept, TypeOK
<1> QED BY <1>2, <1>4 DEF OpenTemp, Go

\* It finds there only what it wrote itself, and writes its whole receipt.
LEMMA WritesOwn ==
  ASSUME Kept, NEW a \in Appends, WriteTemp(a)
  PROVE  /\ adapter = "file" /\ name[a] \in TempNames /\ temp[name[a]] = a
         /\ inode' = [inode EXCEPT ![a] = ReceiptOf[a]]
         /\ phase' = [phase EXCEPT ![a] = "renaming"]
<1>1. phase[a] = "writing" BY DEF WriteTemp
<1>2. /\ adapter = "file" /\ name[a] \in TempNames /\ temp[name[a]] = a
      /\ open[a] = a /\ inode[a] = Torn
  BY <1>1 DEF Kept, Sound
<1> QED BY <1>2 DEF WriteTemp, Go

\* The rename puts that file in place.
LEMMA RenamesOwn ==
  ASSUME Kept, NEW a \in Appends, RenameTemp(a)
  PROVE  /\ adapter = "file" /\ name[a] \in TempNames /\ inode[a] = ReceiptOf[a]
         /\ link' = [link EXCEPT ![IdOf[a]] = a]
         /\ temp' = [temp EXCEPT ![name[a]] = None]
         /\ phase' = [phase EXCEPT ![a] = "over"]
         /\ answer' = [answer EXCEPT ![a] = "stored"]
<1>1. phase[a] = "renaming" BY DEF RenameTemp
<1>2. /\ adapter = "file" /\ name[a] \in TempNames /\ temp[name[a]] = a
      /\ inode[a] = ReceiptOf[a]
  BY <1>1 DEF Kept, Sound
<1>3. a # None BY LedgerAssumption
<1> QED BY <1>2, <1>3 DEF RenameTemp, Answer, Go

\* Each step of an append keeps rows and files as they should be.
LEMMA SoundStep ==
  ASSUME Kept, SeparateWriters, NEW a \in Appends, AppendStep(a), NEW b \in Appends
  PROVE  Sound(b)'
<1> USE LedgerAssumption DEF Kept, TypeOK
<1>s. Sound(a) /\ Sound(b) OBVIOUS
<1>i. IdOf[a] \in Ids /\ ReceiptOf[a] \in Receipts /\ IdOf[b] \in Ids OBVIOUS
<1>1. CASE MemoryAppend(a)
  BY <1>1, <1>s DEF MemoryAppend, Answer, Go, Sound, files
<1>2. CASE Insert(a)
  BY <1>2, <1>s, <1>i DEF Insert, InsertOrIgnore, Answer, Go, Sound, files
<1>3. CASE ReadRow(a)
  BY <1>3, <1>s DEF ReadRow, Answer, Go, Sound, database, files
<1>4. CASE ReadStored(a)
  <2>1. TempName(a) \in TempNames /\ TempName(a)[1] = IdOf[a] /\ TempName(a)[2] = ProcessOf[a]
    BY <1>i DEF TempName, TempNames
  <2> QED BY <1>4, <1>s, <2>1 DEF ReadStored, Answer, Go, Sound, database, files
<1>5. CASE OpenTemp(a)
  <2>0. /\ adapter = "file" /\ name[a] \in TempNames /\ name[a][1] = IdOf[a] /\ name[a][2] = ProcessOf[a]
        /\ temp[name[a]] = None
        /\ temp' = [temp EXCEPT ![name[a]] = a]
        /\ inode' = [inode EXCEPT ![a] = Torn]
        /\ open' = [open EXCEPT ![a] = a]
        /\ phase' = [phase EXCEPT ![a] = "writing"]
    BY <1>5, OpensOwn
  <2>w. phase[a] = "opening" /\ UNCHANGED <<adapter, row, kept, link, name, now, answer>>
    BY <1>5 DEF OpenTemp, database
  <2>1. CASE b = a
    BY <2>0, <2>w, <2>1 DEF Sound
  <2>2. CASE b # a
    <3>1. temp[name[b]] = b => temp'[name[b]] = b
      BY <2>0
    <3> QED BY <1>s, <2>0, <2>w, <2>2, <3>1 DEF Sound
  <2> QED BY <2>1, <2>2
<1>6. CASE WriteTemp(a)
  <2>0. /\ adapter = "file" /\ name[a] \in TempNames /\ temp[name[a]] = a
        /\ inode' = [inode EXCEPT ![a] = ReceiptOf[a]]
        /\ phase' = [phase EXCEPT ![a] = "renaming"]
    BY <1>6, WritesOwn
  <2>w. phase[a] = "writing" /\ UNCHANGED <<adapter, row, kept, link, temp, open, name, now, answer>>
    BY <1>6 DEF WriteTemp, database
  <2> QED BY <1>s, <2>0, <2>w DEF Sound
<1>7. CASE RenameTemp(a)
  <2>1. b # a /\ temp[name[b]] = b => name[b] # name[a]
    BY <1>7, <1>s DEF RenameTemp, Sound
  <2> QED BY <1>7, <1>s, <2>1, RenamesOwn DEF RenameTemp, Sound, database
<1>8. CASE StoreFails(a)
  BY <1>8, <1>s DEF StoreFails, Answer, Go, Sound, database, files
<1>9. CASE Crash(a)
  BY <1>9, <1>s DEF Crash, Go, Sound, database, files
<1> QED BY <1>1, <1>2, <1>3, <1>4, <1>5, <1>6, <1>7, <1>8, <1>9 DEF AppendStep

\* A step of an append keeps what temporary files hold.
LEMMA TempsStep ==
  ASSUME Kept, SeparateWriters, NEW a \in Appends, AppendStep(a), NEW n \in TempNames
  PROVE  Temps(n)'
<1> USE LedgerAssumption DEF Kept, TypeOK
<1>s. Sound(a) /\ Temps(n) OBVIOUS
<1>1. CASE MemoryAppend(a)
  BY <1>1, <1>s DEF MemoryAppend, Answer, Go, Temps, files
<1>2. CASE Insert(a)
  BY <1>2, <1>s DEF Insert, Answer, Go, Temps, files
<1>3. CASE ReadRow(a)
  BY <1>3, <1>s DEF ReadRow, Answer, Go, Temps, files
<1>4. CASE ReadStored(a)
  <2>1. temp[n] # a BY <1>4, <1>s DEF ReadStored, Temps
  <2> QED BY <1>4, <1>s, <2>1 DEF ReadStored, Answer, Go, Temps, files
<1>5. CASE OpenTemp(a)
  <2>0. /\ adapter = "file" /\ name[a] \in TempNames /\ name[a][1] = IdOf[a] /\ name[a][2] = ProcessOf[a]
        /\ temp[name[a]] = None
        /\ temp' = [temp EXCEPT ![name[a]] = a]
        /\ inode' = [inode EXCEPT ![a] = Torn]
        /\ open' = [open EXCEPT ![a] = a]
        /\ phase' = [phase EXCEPT ![a] = "writing"]
    BY <1>5, OpensOwn
  <2>w. phase[a] = "opening" /\ UNCHANGED <<adapter, row, kept, link, name, now, answer>>
    BY <1>5 DEF OpenTemp, database
  <2> QED BY <1>s, <2>0, <2>w DEF Temps
<1>6. CASE WriteTemp(a)
  <2>0. /\ adapter = "file" /\ name[a] \in TempNames /\ temp[name[a]] = a
        /\ inode' = [inode EXCEPT ![a] = ReceiptOf[a]]
        /\ phase' = [phase EXCEPT ![a] = "renaming"]
    BY <1>6, WritesOwn
  <2>w. phase[a] = "writing" /\ UNCHANGED <<adapter, row, kept, link, temp, open, name, now, answer>>
    BY <1>6 DEF WriteTemp, database
  <2> QED BY <1>s, <2>0, <2>w DEF Temps
<1>7. CASE RenameTemp(a)
  BY <1>7, <1>s, RenamesOwn DEF RenameTemp, Temps
<1>8. CASE StoreFails(a)
  <2>1. temp[n] = a => phase[a] \notin {"ready", "reading", "opening"} BY <1>s DEF Temps
  <2> QED BY <1>8, <1>s, <2>1 DEF StoreFails, Answer, Go, Temps, files
<1>9. CASE Crash(a)
  BY <1>9, <1>s DEF Crash, Go, Temps, files
<1> QED BY <1>1, <1>2, <1>3, <1>4, <1>5, <1>6, <1>7, <1>8, <1>9 DEF AppendStep

\* A step of an append keeps what the files of ids hold.
LEMMA LinksStep ==
  ASSUME Kept, SeparateWriters, NEW a \in Appends, AppendStep(a), NEW i \in Ids
  PROVE  Links(i)'
<1> USE LedgerAssumption DEF Kept, TypeOK
<1>s. Sound(a) /\ Links(i) OBVIOUS
<1>1. CASE MemoryAppend(a)
  BY <1>1, <1>s DEF MemoryAppend, Answer, Go, Links, files
<1>2. CASE Insert(a)
  BY <1>2, <1>s DEF Insert, Answer, Go, Links, files
<1>3. CASE ReadRow(a)
  BY <1>3, <1>s DEF ReadRow, Answer, Go, Links, files
<1>4. CASE ReadStored(a)
  BY <1>4, <1>s DEF ReadStored, Answer, Go, Links, files
<1>5. CASE OpenTemp(a)
  <2>1. link[i] # a BY <1>5, <1>s DEF OpenTemp, Links
  <2>0. /\ adapter = "file" /\ name[a] \in TempNames /\ name[a][1] = IdOf[a] /\ name[a][2] = ProcessOf[a]
        /\ temp[name[a]] = None
        /\ temp' = [temp EXCEPT ![name[a]] = a]
        /\ inode' = [inode EXCEPT ![a] = Torn]
        /\ open' = [open EXCEPT ![a] = a]
        /\ phase' = [phase EXCEPT ![a] = "writing"]
    BY <1>5, OpensOwn
  <2>w. phase[a] = "opening" /\ UNCHANGED <<adapter, row, kept, link, name, now, answer>>
    BY <1>5 DEF OpenTemp, database
  <2> QED BY <1>s, <2>0, <2>w, <2>1 DEF Links
<1>6. CASE WriteTemp(a)
  <2>1. link[i] # a BY <1>6, <1>s DEF WriteTemp, Links
  <2>0. /\ adapter = "file" /\ name[a] \in TempNames /\ temp[name[a]] = a
        /\ inode' = [inode EXCEPT ![a] = ReceiptOf[a]]
        /\ phase' = [phase EXCEPT ![a] = "renaming"]
    BY <1>6, WritesOwn
  <2>w. phase[a] = "writing" /\ UNCHANGED <<adapter, row, kept, link, temp, open, name, now, answer>>
    BY <1>6 DEF WriteTemp, database
  <2> QED BY <1>s, <2>0, <2>w, <2>1 DEF Links
<1>7. CASE RenameTemp(a)
  BY <1>7, <1>s, RenamesOwn DEF RenameTemp, Links
<1>8. CASE StoreFails(a)
  BY <1>8, <1>s DEF StoreFails, Answer, Go, Links, files
<1>9. CASE Crash(a)
  BY <1>9, <1>s DEF Crash, Busy, Go, Links, files
<1> QED BY <1>1, <1>2, <1>3, <1>4, <1>5, <1>6, <1>7, <1>8, <1>9 DEF AppendStep

\* A step of an append keeps the whole of what is stored.
LEMMA KeptStep ==
  ASSUME Kept, SeparateWriters, NEW a \in Appends, AppendStep(a), UNCHANGED listing PROVE Kept'
<1>1. TypeOK' BY TypeStep DEF Kept
<1>2. \A b \in Appends : Sound(b)' BY SoundStep
<1>3. TempNames' = TempNames BY DEF TempNames
<1> QED BY <1>1, <1>2, <1>3, TempsStep, LinksStep DEF Kept
----------------------------------------------------------------------------
(* What is stored: it stays.                                               *)

\* Nobody reads half a receipt; a file that has a name holds one.
LEMMA StoredWhole ==
  ASSUME Kept, NEW i \in Ids
  PROVE  /\ Stored(i) \in Receipts \cup {None} /\ Stored(i) # Torn
         /\ adapter = "file" => (Stored(i) # None <=> link[i] # None)
         /\ \A a \in Appends : adapter = "file" /\ link[i] = a => Stored(i) = ReceiptOf[a]
<1> USE LedgerAssumption
<1>1. adapter # "file" => Stored(i) = row[i] /\ row[i] \in Receipts \cup {None}
  BY DEF Stored, Kept, TypeOK
<1>2. \A a \in Appends : adapter = "file" /\ link[i] = a => Stored(i) = ReceiptOf[a]
  BY DEF Stored, Kept, Links
<1>3. link[i] \in Appends \cup {None} BY DEF Kept, TypeOK
<1>4. adapter = "file" /\ link[i] = None => Stored(i) = None BY DEF Stored
<1> QED BY <1>1, <1>2, <1>3, <1>4

\* What is stored under an id no step of an append replaces, but a memory ledger may
\* forget it, and a file ledger for which appends disagree may replace it.
LEMMA StoredStays ==
  ASSUME Kept, SeparateWriters, NEW a \in Appends, AppendStep(a), NEW i \in Ids, Stored(i) # None
  PROVE  \/ Stored(i)' = Stored(i)
         \/ adapter = "memory" /\ Stored(i)' = None
         \/ adapter = "file" /\ ~Agreed(i) /\ Stored(i)' # None
<1> USE LedgerAssumption
<1>t. TypeOK BY DEF Kept
<1>1. CASE MemoryAppend(a)
  <2>1. row[IdOf[a]] # None => row' = row BY <1>1 DEF MemoryAppend, database
  <2>2. row[IdOf[a]] = None =>
          row' = [k \in Ids |-> IF k = IdOf[a] THEN ReceiptOf[a] ELSE IF k \in Oldest THEN None ELSE row[k]]
    BY <1>1 DEF MemoryAppend
  <2>3. adapter = "memory" /\ adapter' = adapter BY <1>1 DEF MemoryAppend
  <2> QED BY <2>1, <2>2, <2>3 DEF Stored
<1>2. CASE Insert(a)
  BY <1>2, <1>t DEF Insert, InsertOrIgnore, Stored, TypeOK
<1>3. CASE ReadRow(a) \/ ReadStored(a) \/ StoreFails(a) \/ Crash(a)
  BY <1>3 DEF ReadRow, ReadStored, StoreFails, Crash, database, files, Stored
<1>4. CASE OpenTemp(a)
  <2>1. link[i] # a BY <1>4 DEF OpenTemp, Kept, Links
  <2>2. link' = link /\ adapter' = adapter /\ row' = row BY <1>4 DEF OpenTemp, database
  <2>3. inode' = [inode EXCEPT ![a] = Torn] BY <1>4, OpensOwn
  <2> QED BY <1>t, <2>1, <2>2, <2>3 DEF Stored, TypeOK
<1>5. CASE WriteTemp(a)
  <2>1. link[i] # a BY <1>5 DEF WriteTemp, Kept, Links
  <2>2. link' = link /\ adapter' = adapter /\ row' = row BY <1>5 DEF WriteTemp, database
  <2>3. inode' = [inode EXCEPT ![a] = ReceiptOf[a]] BY <1>5, WritesOwn
  <2> QED BY <1>t, <2>1, <2>2, <2>3 DEF Stored, TypeOK
<1>6. CASE RenameTemp(a)
  <2>1. /\ adapter = "file" /\ inode[a] = ReceiptOf[a] /\ link' = [link EXCEPT ![IdOf[a]] = a]
    BY <1>6, RenamesOwn
  <2>2. inode' = inode /\ adapter' = adapter BY <1>6 DEF RenameTemp
  <2>3. CASE i # IdOf[a] BY <1>t, <2>1, <2>2, <2>3 DEF Stored, TypeOK
  <2>4. CASE i = IdOf[a]
    <3>1. Stored(i)' = ReceiptOf[a] BY <1>t, <2>1, <2>2, <2>4 DEF Stored, TypeOK
    <3>2. PICK b \in Appends : link[i] = b BY <1>t, <2>1 DEF Stored, TypeOK
    <3>3. IdOf[b] = i /\ Stored(i) = ReceiptOf[b] BY <2>1, <3>2, StoredWhole DEF Kept, Links
    <3>4. Agreed(i) => ReceiptOf[a] = ReceiptOf[b] BY <2>4, <3>3 DEF Agreed
    <3> QED BY <2>1, <3>1, <3>3, <3>4
  <2> QED BY <2>3, <2>4
<1> QED BY <1>1, <1>2, <1>3, <1>4, <1>5, <1>6 DEF AppendStep

\* The ledger remains the one it is.
LEMMA SameAdapter ==
  ASSUME NEW a \in Appends, AppendStep(a) PROVE adapter' = adapter
BY DEF AppendStep, MemoryAppend, Insert, ReadRow, ReadStored, OpenTemp, WriteTemp, RenameTemp,
       StoreFails, Crash

\* An append answers the truth when it answers ...
LEMMA AnswersTruth ==
  ASSUME Kept, SeparateWriters, NEW a \in Appends, AppendStep(a), answer'[a] # answer[a]
  PROVE  Answered(a)'
<1> USE LedgerAssumption
<1>t. TypeOK BY DEF Kept
<1>i. IdOf[a] \in Ids /\ ReceiptOf[a] \in Receipts OBVIOUS
<1>1. CASE MemoryAppend(a)
  BY <1>1 DEF MemoryAppend, Answered, Vouched
<1>2. CASE Insert(a)
  BY <1>2, <1>t, <1>i DEF Insert, InsertOrIgnore, Answer, Answered, Stored, TypeOK
<1>3. CASE ReadRow(a)
  <2>1. row[IdOf[a]] # None BY <1>3 DEF ReadRow, Kept, Sound
  <2> QED BY <1>3, <1>t, <1>i, <2>1 DEF ReadRow, Answer, Finalize, Answered, Stored, TypeOK, database
<1>4. CASE ReadStored(a)
  <2>1. /\ adapter = "file" /\ link[IdOf[a]] # None
        /\ UNCHANGED <<adapter, row, link, inode>>
        /\ answer' = [answer EXCEPT ![a] = IF Stored(IdOf[a]) = Torn THEN "failure"
                                           ELSE Finalize(a, Stored(IdOf[a]))]
    BY <1>4 DEF ReadStored, Answer, Stored, database, files
  <2>2. Stored(IdOf[a])' = Stored(IdOf[a]) BY <2>1 DEF Stored
  <2>3. Stored(IdOf[a]) \notin {None, Torn} BY <1>i, <2>1, StoredWhole
  <2> QED BY <1>t, <2>1, <2>2, <2>3 DEF Finalize, Answered, TypeOK
<1>5. CASE OpenTemp(a) \/ WriteTemp(a) \/ Crash(a)
  BY <1>5 DEF OpenTemp, WriteTemp, Crash
<1>6. CASE RenameTemp(a)
  <2>1. /\ adapter = "file" /\ inode[a] = ReceiptOf[a] /\ link' = [link EXCEPT ![IdOf[a]] = a]
        /\ answer' = [answer EXCEPT ![a] = "stored"]
    BY <1>6, RenamesOwn
  <2>2. inode' = inode /\ adapter' = adapter BY <1>6 DEF RenameTemp
  <2>3. Stored(IdOf[a])' = ReceiptOf[a] BY <1>t, <1>i, <2>1, <2>2 DEF Stored, TypeOK
  <2> QED BY <1>t, <1>i, <2>1, <2>3 DEF Answered, TypeOK
<1>7. CASE StoreFails(a)
  BY <1>7, <1>t DEF StoreFails, Answer, Answered, TypeOK
<1> QED BY <1>1, <1>2, <1>3, <1>4, <1>5, <1>6, <1>7 DEF AppendStep

\* ... and it remains true.
LEMMA AnsweredStep ==
  ASSUME Kept, SeparateWriters, NEW a \in Appends, AppendStep(a), NEW b \in Appends, Answered(b)
  PROVE  Answered(b)'
<1> USE LedgerAssumption
<1>1. CASE answer'[b] # answer[b]
  <2>1. a = b
    BY <1>1 DEF AppendStep, MemoryAppend, Insert, ReadRow, ReadStored, OpenTemp, WriteTemp,
                RenameTemp, StoreFails, Crash, Answer, Kept, TypeOK
  <2> QED BY <1>1, <2>1, AnswersTruth
<1>2. CASE answer'[b] = answer[b]
  <2>1. IdOf[b] \in Ids /\ ReceiptOf[b] # None OBVIOUS
  <2>2. adapter' = adapter /\ (Vouched(IdOf[b])' <=> Vouched(IdOf[b]))
    BY SameAdapter DEF Vouched
  <2>3. CASE Stored(IdOf[b]) = None
    BY <1>2, <2>1, <2>2, <2>3 DEF Answered, Vouched
  <2>4. CASE Stored(IdOf[b]) # None
    <3>1. \/ Stored(IdOf[b])' = Stored(IdOf[b])
          \/ adapter = "memory" /\ Stored(IdOf[b])' = None
          \/ adapter = "file" /\ ~Agreed(IdOf[b]) /\ Stored(IdOf[b])' # None
      BY <2>1, <2>4, StoredStays
    <3> QED BY <1>2, <2>2, <3>1 DEF Answered, Vouched
  <2> QED BY <2>3, <2>4
<1> QED BY <1>1, <1>2

\* What a listing has found stays true while appends go on.
LEMMA FoundStep ==
  ASSUME Kept, SeparateWriters, NEW a \in Appends, AppendStep(a), UNCHANGED listing,
         NEW i \in Ids, Found(i)
  PROVE  Found(i)'
<1>1. adapter' = adapter /\ (Vouched(i)' <=> Vouched(i))
  BY SameAdapter DEF Vouched
<1>2. CASE Stored(i) = None
  BY <1>1, <1>2 DEF Found
<1>3. CASE Stored(i) # None
  <2>1. \/ Stored(i)' = Stored(i)
        \/ adapter = "memory" /\ Stored(i)' = None
        \/ adapter = "file" /\ ~Agreed(i) /\ Stored(i)' # None
    BY <1>3, StoredStays
  <2> QED BY <1>1, <1>3, <2>1 DEF Found, Vouched
<1> QED BY <1>2, <1>3
----------------------------------------------------------------------------
(* The invariant and what follows from it.                                 *)

\* The invariant holds of an empty ledger.
LEMMA InductiveInit == Init => Inductive
<1> SUFFICES ASSUME Init PROVE Inductive OBVIOUS
<1> USE LedgerAssumption DEF Init
<1>1. TypeOK
  <2>1. kept \in Seq(Ids) /\ Len(kept) <= MaxReceipts OBVIOUS
  <2> QED BY <2>1 DEF TypeOK
<1>2. \A a \in Appends : Sound(a) /\ Answered(a) BY DEF Sound, Answered
<1>3. \A n \in TempNames : Temps(n) BY DEF Temps
<1>4. \A i \in Ids : Links(i) /\ Found(i) BY DEF Links, Found
<1> QED BY <1>1, <1>2, <1>3, <1>4 DEF Kept, Inductive

\* A listing begins with all names there are, and reads what they stand for.
LEMMA BeginListStep == ASSUME Inductive, BeginList PROVE Inductive'
<1> USE LedgerAssumption
<1>1. UNCHANGED <<adapter, row, kept, inode, link, temp, open, name, now, phase, answer>>
  BY DEF BeginList, appending, database, files
<1>2. /\ listing'.is = "reading"
      /\ listing'.promised = {IdOf[a] : a \in {b \in Appends : answer[b] = "stored"}}
      /\ listing'.due = IF adapter = "file" THEN {i \in Ids : link[i] # None} ELSE {}
      /\ listing'.found = [i \in Ids |-> IF adapter = "file" THEN None ELSE row[i]]
  BY DEF BeginList
<1>3. Kept'
  <2>1. listing' \in [is : {"ready", "reading", "failed"}, due : SUBSET Ids,
                      found : [Ids -> Receipts \cup {None}], promised : SUBSET Ids]
    BY DEF BeginList, Inductive, Kept, TypeOK
  <2>2. TypeOK' BY <1>1, <2>1 DEF Inductive, Kept, TypeOK, TempNames
  <2> QED BY <1>1, <2>2 DEF Inductive, Kept, Sound, Temps, Links, TempNames
<1>4. ASSUME NEW i \in Ids PROVE Found(i)'
  <2>1. Stored(i)' = Stored(i) BY <1>1 DEF Stored
  <2>2. Vouched(i)' <=> Vouched(i) BY <1>1 DEF Vouched
  <2>3. adapter = "file" => (Stored(i) # None <=> link[i] # None)
    BY StoredWhole DEF Inductive
  <2>4. adapter # "file" => Stored(i) = row[i] BY DEF Stored
  <2>5. i \in listing'.promised /\ adapter # "memory" => Stored(i) # None
    BY <1>2 DEF Inductive, Answered
  <2> QED BY <1>1, <1>2, <2>1, <2>2, <2>3, <2>4, <2>5 DEF Found
<1>5. \A a \in Appends : Answered(a)'
  BY <1>1 DEF Inductive, Answered, Stored, Vouched
<1> QED BY <1>2, <1>3, <1>4, <1>5 DEF Inductive

\* A listing reads what is stored at that moment.
LEMMA ListReadsStep == ASSUME Inductive, NEW i \in Ids, ListReads(i) PROVE Inductive'
<1> USE LedgerAssumption
<1>1. UNCHANGED <<adapter, row, kept, inode, link, temp, open, name, now, phase, answer>>
  BY DEF ListReads, appending, database, files
<1>2. Stored(i) \in Receipts \cup {None} /\ Stored(i) # Torn
  BY StoredWhole DEF Inductive
<1>3. listing' = [listing EXCEPT !.due = @ \ {i}, !.found[i] = Stored(i)]
  BY <1>2 DEF ListReads
<1>4. listing \in [is : {"ready", "reading", "failed"}, due : SUBSET Ids,
                   found : [Ids -> Receipts \cup {None}], promised : SUBSET Ids]
  BY DEF Inductive, Kept, TypeOK
<1>5. /\ listing'.is = listing.is /\ listing'.promised = listing.promised
      /\ listing'.due = listing.due \ {i}
      /\ listing'.found = [listing.found EXCEPT ![i] = Stored(i)]
      /\ listing' \in [is : {"ready", "reading", "failed"}, due : SUBSET Ids,
                       found : [Ids -> Receipts \cup {None}], promised : SUBSET Ids]
  BY <1>2, <1>3, <1>4
<1>6. Kept'
  <2>1. TypeOK' BY <1>1, <1>5 DEF Inductive, Kept, TypeOK, TempNames
  <2> QED BY <1>1, <2>1 DEF Inductive, Kept, Sound, Temps, Links, TempNames
<1>7. ASSUME NEW k \in Ids PROVE Found(k)'
  <2>1. Stored(k)' = Stored(k) /\ (Vouched(k)' <=> Vouched(k)) BY <1>1 DEF Stored, Vouched
  <2>2. Found(k) /\ Found(i) /\ listing.is = "reading" /\ i \in listing.due
    BY DEF Inductive, ListReads
  <2>3. Stored(i) # None BY <2>2 DEF Found
  <2> QED BY <1>1, <1>4, <1>5, <2>1, <2>2, <2>3 DEF Found
<1>8. \A a \in Appends : Answered(a)'
  BY <1>1 DEF Inductive, Answered, Stored, Vouched
<1> QED BY <1>5, <1>6, <1>7, <1>8 DEF Inductive

\* Every step keeps the invariant.
LEMMA InductiveStep ==
  ASSUME SeparateWriters, Inductive, [Next]_vars PROVE Inductive'
<1> USE LedgerAssumption
<1>1. ASSUME NEW a \in Appends, AppendStep(a), UNCHANGED listing PROVE Inductive'
  <2>1. Kept' BY <1>1, KeptStep DEF Inductive
  <2>2. \A b \in Appends : Answered(b)' BY <1>1, AnsweredStep DEF Inductive
  <2>3. \A i \in Ids : Found(i)' BY <1>1, FoundStep DEF Inductive
  <2> QED BY <1>1, <2>1, <2>2, <2>3 DEF Inductive
<1>2. CASE Tick /\ UNCHANGED listing
  <2>1. UNCHANGED <<adapter, row, kept, inode, link, temp, open, name, phase, answer, listing>>
    BY <1>2 DEF Tick, database, files
  <2>2. TypeOK' BY <1>2, <2>1 DEF Tick, Inductive, Kept, TypeOK, TempNames
  <2> QED BY <2>1, <2>2 DEF Inductive, Kept, Sound, Temps, Links, Answered, Found, Stored, Vouched, TempNames
<1>3. CASE BeginList BY <1>3, BeginListStep
<1>4. ASSUME NEW i \in Ids, ListReads(i) PROVE Inductive' BY <1>4, ListReadsStep
<1>5. CASE UNCHANGED vars
  BY <1>5 DEF vars, appending, database, files, Inductive, Kept, TypeOK, TempNames, Sound, Temps,
              Links, Answered, Found, Stored, Vouched
<1> QED BY <1>1, <1>2, <1>3, <1>4, <1>5 DEF Next

\* The inductive invariant of the ledger holds throughout.
THEOREM AlwaysInductive == SeparateWriters => (Spec => []Inductive)
<1> SUFFICES ASSUME SeparateWriters PROVE Spec => []Inductive OBVIOUS
<1>1. Inductive /\ [Next]_vars => Inductive' BY InductiveStep
<1> QED BY <1>1, InductiveInit, PTL DEF Spec

\* Variables have their types in every behaviour.
THEOREM TypeCorrect == SeparateWriters => (Spec => []TypeOK)
<1>1. Inductive => TypeOK BY DEF Inductive, Kept
<1> QED BY <1>1, AlwaysInductive, PTL

\* What an append acknowledged stays readable through crashes and failures, and no
\* reader sees half a receipt, in any of the four ledgers.
THEOREM StaysReadable == SeparateWriters => (Spec => []Durable)
<1>1. Inductive => Durable BY StoredWhole DEF Inductive, Answered, Durable
<1> QED BY <1>1, AlwaysInductive, PTL

\* Answers and listings agree with what is stored.
THEOREM AnswersAreTrue == SeparateWriters => (Spec => []AnswerTruth)
<1>1. Inductive => AnswerTruth BY DEF Inductive, Answered, Found, Listed, AnswerTruth
<1> QED BY <1>1, AlwaysInductive, PTL

\* No step replaces a stored receipt by another.
Stays ==
  \A i \in Ids : Stored(i) # None =>
    \/ Stored(i)' = Stored(i)
    \/ adapter = "memory" /\ Stored(i)' = None
    \/ adapter = "file" /\ ~Agreed(i)
\* A stored receipt is never replaced by another (ledger/index.ts:103-372).
THEOREM ReceiptsStay == SeparateWriters => (Spec => NothingReplaced)
<1> SUFFICES ASSUME SeparateWriters PROVE Spec => NothingReplaced OBVIOUS
<1>1. ASSUME Inductive, Next PROVE Stays
  <2>1. ASSUME NEW a \in Appends, AppendStep(a) PROVE Stays
    BY <1>1, <2>1, StoredStays DEF Stays, Inductive
  <2>2. CASE Tick \/ BeginList \/ \E i \in Ids : ListReads(i)
    BY <2>2 DEF Tick, BeginList, ListReads, appending, database, files, Stays, Stored
  <2> QED BY <1>1, <2>1, <2>2 DEF Next
<1>2. Inductive /\ [Next]_vars => [Stays]_vars
  BY <1>1
<1>3. Spec => []Inductive BY AlwaysInductive
<1> QED BY <1>2, <1>3, PTL DEF Spec, NothingReplaced, Stays
=============================================================================
