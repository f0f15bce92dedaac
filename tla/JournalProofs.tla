--------------------------- MODULE JournalProofs ---------------------------
(***************************************************************************)
(* Proofs about the machine's journal, for every set of leases and every   *)
(* sequence bound.                                                         *)
(***************************************************************************)
EXTENDS MCJournal, TLAPS

(* The IO errors the journal's bookkeeping survives: those that leave no   *)
(* record file outside the range memory knows.                             *)
SafeErrors == Faults \cap {"appended", "renewed", "deleting"} = {}

(* Unfolded facts about the constants.                                     *)
LEMMA Constants ==
    /\ NoLease \notin Leases
    /\ NoFile \notin AnyLease
    /\ MaxSeq \in Nat
    /\ Faults \subseteq FaultPoints
  BY JournalAssumption DEF AnyLease

(* The initial state satisfies the inductive invariant.                    *)
LEMMA InitIInv == Init => IInv
<1> SUFFICES ASSUME Init PROVE IInv
  OBVIOUS
<1> USE Constants
<1>1. EmptyDir \in Image
  BY DEF EmptyDir, Image, AnyLease
<1>2. TypeOK
  BY <1>1 DEF Init, TypeOK, Ops, Memory, NoMemory, AnyLease
<1>3. Sound(EmptyDir)
  <2>1. Live(EmptyDir) = {}
    BY DEF Live, Present, EmptyDir
  <2>2. EndsAt(EmptyDir, 0)
    BY <2>1 DEF EndsAt, EmptyDir
  <2>3. Contiguous(EmptyDir)
    BY <2>2 DEF Contiguous
  <2> QED
    BY <2>1, <2>3 DEF Sound
<1>4. MemoryMatches
  BY DEF Init, MemoryMatches
<1> QED
  BY <1>2, <1>3, <1>4 DEF IInv, Init

(* A directory whose files are exactly the records of its lease from some  *)
(* number at or below the acknowledgement's successor is sound.            *)
LEMMA IntervalSound ==
    ASSUME NEW img \in Image, NEW from \in Nat, NEW to \in 0..MaxSeq,
           from <= img.acked + 1,
           Spans(img, img.lease, from, to)
    PROVE  Sound(img)
<1> USE Constants DEF Spans
<1>0. img.acked \in 0..MaxSeq /\ img.lease \in AnyLease
  BY DEF Image
<1>1. Present(img) = {s \in Seqs : s \in from..to}
  BY <1>0 DEF Present, Seqs
<1>2. Live(img) = {s \in Seqs : s \in from..to /\ s > img.acked}
  BY <1>1 DEF Live
<1>3. CASE to >= img.acked
  <2>1. Live(img) = (img.acked + 1)..to
    BY <1>0, <1>2, <1>3 DEF Seqs
  <2>2. EndsAt(img, to)
    BY <2>1, <1>3 DEF EndsAt
  <2> QED
    BY <2>2, <1>2 DEF Sound, Contiguous
<1>4. CASE to < img.acked
  <2>1. Live(img) = {}
    BY <1>0, <1>2, <1>4 DEF Seqs
  <2>2. EndsAt(img, img.acked)
    BY <2>1, <1>0 DEF EndsAt
  <2> QED
    BY <2>1, <2>2, <1>0 DEF Sound, Contiguous
<1> QED
  BY <1>0, <1>3, <1>4

(* Removing a file leaves a directory.                                     *)
LEMMA RemoveImage ==
    ASSUME TypeOK, NEW s \in Seqs
    PROVE  [dir EXCEPT !.files[s] = NoFile] \in Image
  BY DEF TypeOK, Image

(* A step that only reads or writes memory keeps every crash image sound.  *)
LEMMA SameDir ==
    ASSUME IInv, UNCHANGED <<dir, images>>
    PROVE  dir' \in images' /\ \A img \in images' : Sound(img)
  BY DEF IInv

(* So does a directory sync.                                               *)
LEMMA SyncDir ==
    ASSUME IInv, sync_dir
    PROVE  /\ dir' = dir /\ images' \subseteq images
           /\ dir' \in images' /\ \A img \in images' : Sound(img)
  BY DEF IInv, sync_dir

(* And a change of the directory to a sound image.                         *)
LEMMA ChangeDir ==
    ASSUME IInv, NEW img \in Image, Change(img), Sound(img)
    PROVE  /\ dir' = img /\ images' \subseteq Image
           /\ dir' \in images' /\ \A i \in images' : Sound(i)
  BY DEF IInv, Change, TypeOK

(* Every step preserves the inductive invariant.                           *)
LEMMA NextIInv ==
    ASSUME SafeErrors, IInv, [Next]_vars
    PROVE  IInv'
<1> USE Constants
<1>t. TypeOK /\ MemoryMatches /\ dir \in images /\ dir \in Image
  BY DEF IInv, TypeOK
<1>1. CASE OpenRead
  <2>1. TypeOK'
    BY <1>1, <1>t DEF OpenRead, History, TypeOK, Image, Memory, Ops
  <2>2. MemoryMatches'
    BY <1>1, <1>t DEF OpenRead, History, MemoryMatches
  <2> QED
    BY <1>1, <2>1, <2>2, SameDir DEF OpenRead, IInv
<1>2. CASE OpenRemove
  <2>1. PICK s \in Leftover(dir) : remove(s)
    BY <1>2 DEF OpenRemove
  <2>0. PICK img : img = [dir EXCEPT !.files[s] = NoFile]
    OBVIOUS
  <2>2. s \in Seqs /\ s <= dir.acked
    BY <2>0, <2>1 DEF Leftover, Present
  <2>3. img \in Image
    BY <2>0, <2>2, <1>t, RemoveImage
  <2>4. Sound(img)
    <3>1. Live(img) = Live(dir) /\ img.acked = dir.acked /\ img.lease = dir.lease
      BY <2>0, <2>2, <1>t DEF Live, Present, Image, Seqs
    <3>2. Sound(dir)
      BY DEF IInv
    <3>3. Contiguous(img)
      BY <3>1, <3>2 DEF Sound, Contiguous, EndsAt
    <3>4. ASSUME NEW t \in Live(img) PROVE img.files[t] = img.lease
      <4>1. t \in Seqs /\ t # s /\ t \in Live(dir)
        BY <3>1, <2>2, <1>t DEF Live, Present, Image, Seqs
      <4> QED
        BY <2>0, <4>1, <3>1, <3>2, <1>t, <2>2 DEF Sound, Image
    <3> QED
      BY <3>3, <3>4 DEF Sound
  <2>5. Change(img)
    BY <2>0, <2>1 DEF remove
  <2>6. dir' = img /\ images' \subseteq Image /\ dir' \in images'
           /\ \A i \in images' : Sound(i)
    BY <2>3, <2>4, <2>5, ChangeDir
  <2>7. TypeOK'
    BY <1>2, <2>3, <2>6, <1>t DEF OpenRemove, History, TypeOK
  <2>8. MemoryMatches'
    BY <1>2, <2>0, <2>6, <1>t DEF OpenRemove, MemoryMatches, Image
  <2> QED
    BY <2>6, <2>7, <2>8 DEF IInv
<1>3. CASE OpenDone
  <2>1. Sound(dir)
    BY DEF IInv
  <2>2. PICK n \in 0..MaxSeq :
            EndsAt(dir, n) /\ mem' = [mem EXCEPT !.last = n] /\ pc' = "idle"
    BY <1>3, <2>1 DEF OpenDone, Sound
  <2>3. TypeOK'
    BY <1>3, <2>2, <1>t DEF OpenDone, History, TypeOK, Memory, Ops
  <2>4. dir.lease = mem.lease /\ dir.acked = mem.acked
    BY <1>3, <1>t DEF OpenDone, MemoryMatches
  <2>5. mem' = [lease |-> mem.lease, acked |-> mem.acked, last |-> n]
    BY <2>2, <1>t DEF TypeOK, Memory
  <2>6. Spans(dir, mem.lease, mem.acked + 1, n)
    <3> SUFFICES ASSUME NEW s \in Seqs
                 PROVE  dir.files[s] = IF s \in (mem.acked + 1)..n THEN mem.lease ELSE NoFile
      BY DEF Spans
    <3>1. Live(dir) = (mem.acked + 1)..n
      BY <2>2, <2>4 DEF EndsAt
    <3>2. CASE s \in (mem.acked + 1)..n
      BY <3>1, <3>2, <2>1, <2>4 DEF Sound
    <3>3. CASE s \notin (mem.acked + 1)..n
      <4>1. s \notin Live(dir) /\ s \notin Leftover(dir)
        BY <3>1, <3>3, <1>3 DEF OpenDone
      <4> QED
        BY <4>1, <3>3, <1>t DEF Live, Leftover, Present, Image, Seqs
    <3> QED
      BY <3>2, <3>3
  <2>7. n >= mem.acked
    BY <2>2, <2>4 DEF EndsAt
  <2>8. MemoryMatches'
    BY <1>3, <2>2, <2>4, <2>5, <2>6, <2>7, <1>t
       DEF OpenDone, MemoryMatches, Holds, TypeOK, Memory, Image
  <2> QED
    BY <1>3, <2>3, <2>8, SameDir DEF OpenDone, IInv
<1>4. ASSUME NEW l \in Leases, UseLease(l) PROVE IInv'
  <2>1. TypeOK'
    BY <1>4, <1>t DEF UseLease, TypeOK, Ops, Memory
  <2>2. MemoryMatches'
    BY <1>4, <1>t DEF UseLease, MemoryMatches, Holds
  <2> QED
    BY <1>4, <2>1, <2>2, SameDir DEF UseLease, IInv
<1>5. CASE DropNewest
  <2>0. PICK img : img = [dir EXCEPT !.files[mem.last] = NoFile]
    OBVIOUS
  <2>1. mem.last \in Seqs /\ mem.acked \in 0..MaxSeq /\ mem.last - 1 \in 0..MaxSeq
    BY <1>5, <1>t DEF DropNewest, TypeOK, Memory, Seqs
  <2>2. img \in Image /\ img.lease = mem.lease /\ img.acked = dir.acked
        /\ mem.acked <= dir.acked /\ dir.acked \in 0..MaxSeq
    BY <2>0, <2>1, <1>5, <1>t, RemoveImage DEF DropNewest, MemoryMatches, Image
  <2>3. Spans(img, mem.lease, mem.acked + 1, mem.last - 1)
    BY <2>0, <2>1, <1>5, <1>t DEF DropNewest, MemoryMatches, Holds, Spans, Image, Seqs
  <2>4. Sound(img)
    BY <2>1, <2>2, <2>3, IntervalSound
  <2>5. Change(img)
    BY <2>0, <1>5 DEF DropNewest, remove
  <2>6. dir' = img /\ images' \subseteq Image /\ dir' \in images'
           /\ \A i \in images' : Sound(i)
    BY <2>2, <2>4, <2>5, ChangeDir
  <2>7. mem' = [lease |-> mem.lease, acked |-> mem.acked, last |-> mem.last - 1]
    BY <1>5, <1>t DEF DropNewest, TypeOK, Memory
  <2>8. TypeOK'
    BY <1>5, <2>1, <2>2, <2>6, <2>7, <1>t DEF DropNewest, History, TypeOK, Memory
  <2>9. MemoryMatches'
    <3>1. /\ dir'.lease = mem'.lease /\ mem'.acked <= dir'.acked
          /\ mem'.acked <= mem'.last
      BY <1>5, <2>1, <2>2, <2>6, <2>7 DEF DropNewest, Seqs
    <3>2. Holds(mem.acked + 1, mem.last)'
      BY <2>3, <2>6, <2>7 DEF Holds
    <3>3. pc' = "dropping" /\ arg' \in Leases
      BY <1>5, <1>t DEF DropNewest, MemoryMatches
    <3> QED
      BY <3>1, <3>2, <3>3 DEF MemoryMatches
  <2> QED
    BY <2>6, <2>8, <2>9 DEF IInv
<1>6. CASE DropSync
  <2>1. dir' = dir /\ images' \subseteq images
           /\ dir' \in images' /\ \A i \in images' : Sound(i)
    BY <1>6, SyncDir DEF DropSync
  <2>2. TypeOK'
    BY <1>6, <2>1, <1>t DEF DropSync, History, TypeOK, Ops
  <2>3. MemoryMatches'
    BY <1>6, <2>1, <1>t DEF DropSync, MemoryMatches, Holds, TypeOK, Memory
  <2> QED
    BY <2>1, <2>2, <2>3 DEF IInv
<1>7. CASE RenewInstall
  <2>0. PICK img : img = WithState(arg, 0)
    OBVIOUS
  <2>1. arg \in Leases
    BY <1>7, <1>t DEF RenewInstall, MemoryMatches
  <2>2. \A s \in Seqs : dir.files[s] = NoFile
    BY <1>7, <1>t DEF RenewInstall, MemoryMatches, Holds, Spans, TypeOK, Memory, Seqs
  <2>3. img \in Image /\ img.lease = arg /\ img.acked = 0 /\ img.files = dir.files
    BY <2>0, <2>1, <1>t DEF WithState, Image, AnyLease
  <2>4. Spans(img, img.lease, 1, 0)
    BY <2>2, <2>3 DEF Spans, Seqs
  <2>s. Sound(img)
    BY <2>3, <2>4, IntervalSound
  <2>5. Change(img)
    BY <2>0, <1>7 DEF RenewInstall
  <2>6. dir' = img /\ images' \subseteq Image /\ dir' \in images'
           /\ \A i \in images' : Sound(i)
    BY <2>3, <2>s, <2>5, ChangeDir
  <2>7. TypeOK'
    BY <1>7, <2>3, <2>6, <1>t DEF RenewInstall, History, TypeOK, Ops
  <2>8. MemoryMatches'
    BY <1>7, <2>1, <2>2, <2>3, <2>6, <1>t DEF RenewInstall, MemoryMatches
  <2> QED
    BY <2>6, <2>7, <2>8 DEF IInv
<1>8. CASE RenewDone
  <2>1. dir' = dir /\ images' \subseteq images
           /\ dir' \in images' /\ \A i \in images' : Sound(i)
    BY <1>8, SyncDir DEF RenewDone
  <2>2. TypeOK'
    BY <1>8, <2>1, <1>t DEF RenewDone, History, TypeOK, Ops, Memory, MemoryMatches, AnyLease
  <2>3. MemoryMatches'
    BY <1>8, <2>1, <1>t DEF RenewDone, MemoryMatches, Holds, Spans, Seqs
  <2> QED
    BY <2>1, <2>2, <2>3 DEF IInv
<1>9. CASE AppendInstall
  <2>0. PICK img : img = [dir EXCEPT !.files[mem.last + 1] = mem.lease]
    OBVIOUS
  <2>1. mem.last + 1 \in Seqs /\ mem.acked \in 0..MaxSeq /\ mem.last \in 0..MaxSeq
        /\ mem.lease \in AnyLease
    BY <1>9, <1>t DEF AppendInstall, TypeOK, Memory, Seqs
  <2>2. img \in Image /\ img.lease = mem.lease /\ img.acked = dir.acked
        /\ mem.acked <= dir.acked /\ dir.acked \in 0..MaxSeq
    BY <2>0, <2>1, <1>9, <1>t DEF AppendInstall, MemoryMatches, Image
  <2>3. Spans(img, mem.lease, mem.acked + 1, mem.last + 1)
    BY <2>0, <2>1, <1>9, <1>t, SMTT(60) DEF AppendInstall, MemoryMatches, Holds, Spans, Image, Seqs
  <2>4. Sound(img)
    BY <2>1, <2>2, <2>3, IntervalSound DEF Seqs
  <2>5. Change(img)
    BY <2>0, <1>9 DEF AppendInstall
  <2>6. dir' = img /\ images' \subseteq Image /\ dir' \in images'
           /\ \A i \in images' : Sound(i)
    BY <2>2, <2>4, <2>5, ChangeDir
  <2>7. TypeOK'
    BY <1>9, <2>2, <2>6, <1>t DEF AppendInstall, History, TypeOK, Ops
  <2>8. MemoryMatches'
    BY <1>9, <2>1, <2>2, <2>3, <2>6, <1>t DEF AppendInstall, MemoryMatches, Holds
  <2> QED
    BY <2>6, <2>7, <2>8 DEF IInv
<1>10. CASE AppendDone
  <2>1. dir' = dir /\ images' \subseteq images
           /\ dir' \in images' /\ \A i \in images' : Sound(i)
    BY <1>10, SyncDir DEF AppendDone
  <2>2. mem' = [lease |-> mem.lease, acked |-> mem.acked, last |-> mem.last + 1]
        /\ mem.last + 1 \in 0..MaxSeq
    BY <1>10, <1>t DEF AppendDone, TypeOK, Memory, MemoryMatches
  <2>3. TypeOK'
    BY <1>10, <2>1, <2>2, <1>t DEF AppendDone, History, TypeOK, Ops, Memory
  <2>4. MemoryMatches'
    BY <1>10, <2>1, <2>2, <1>t DEF AppendDone, MemoryMatches, Holds, TypeOK, Memory
  <2> QED
    BY <2>1, <2>3, <2>4 DEF IInv
<1>11. ASSUME NEW seq \in Seqs, Acknowledge(seq) PROVE IInv'
  <2>0. PICK img : img = WithState(mem.lease, seq)
    OBVIOUS
  <2>1. seq \in 0..MaxSeq /\ mem.acked \in 0..MaxSeq /\ mem.last \in 0..MaxSeq
        /\ mem.acked < seq /\ seq <= mem.last /\ mem.lease \in AnyLease
    BY <1>11, <1>t DEF Acknowledge, TypeOK, Memory, Seqs
  <2>2. img \in Image /\ img.lease = mem.lease /\ img.acked = seq /\ img.files = dir.files
    BY <2>0, <2>1, <1>t DEF WithState, Image
  <2>3. Spans(img, mem.lease, mem.acked + 1, mem.last)
    BY <2>2, <1>11, <1>t DEF Acknowledge, MemoryMatches, Holds, Spans
  <2>4. Sound(img)
    BY <2>1, <2>2, <2>3, IntervalSound
  <2>5. Change(img)
    BY <2>0, <1>11 DEF Acknowledge
  <2>6. dir' = img /\ images' \subseteq Image /\ dir' \in images'
           /\ \A i \in images' : Sound(i)
    BY <2>2, <2>4, <2>5, ChangeDir
  <2>7. TypeOK'
    BY <1>11, <2>1, <2>2, <2>6, <1>t DEF Acknowledge, History, TypeOK, Ops
  <2>8. MemoryMatches'
    BY <1>11, <2>1, <2>2, <2>3, <2>6, <1>t DEF Acknowledge, MemoryMatches, Holds
  <2> QED
    BY <2>6, <2>7, <2>8 DEF IInv
<1>12. CASE AckSaved
  <2>1. dir' = dir /\ images' \subseteq images
           /\ dir' \in images' /\ \A i \in images' : Sound(i)
    BY <1>12, SyncDir DEF AckSaved
  <2>2. arg \in 0..MaxSeq /\ mem.acked + 1 \in Seqs /\ mem.acked + 1 <= arg
        /\ mem.acked \in 0..MaxSeq /\ mem.last \in 0..MaxSeq
    BY <1>12, <1>t DEF AckSaved, MemoryMatches, TypeOK, Memory, Image, Seqs
  <2>3. mem' = [lease |-> mem.lease, acked |-> arg, last |-> mem.last]
    BY <1>12, <1>t DEF AckSaved, TypeOK, Memory
  <2>4. TypeOK'
    BY <1>12, <2>1, <2>2, <2>3, <1>t DEF AckSaved, History, TypeOK, Ops, Memory, Seqs
  <2>5. MemoryMatches'
    BY <1>12, <2>1, <2>2, <2>3, <1>t DEF AckSaved, MemoryMatches, Holds
  <2> QED
    BY <2>1, <2>4, <2>5 DEF IInv
<1>13. CASE AckRemove
  <2>0. PICK img : img = [dir EXCEPT !.files[arg] = NoFile]
    OBVIOUS
  <2>1. arg \in Seqs /\ mem.acked \in 0..MaxSeq /\ mem.last \in 0..MaxSeq
        /\ arg <= mem.acked /\ arg + 1 \in Nat
    BY <1>13, <1>t DEF AckRemove, MemoryMatches, TypeOK, Memory, Seqs
  <2>2. img \in Image /\ img.lease = mem.lease /\ img.acked = mem.acked
    BY <2>0, <2>1, <1>13, <1>t, RemoveImage DEF AckRemove, MemoryMatches, Image
  <2>3. Spans(img, mem.lease, arg + 1, mem.last)
    BY <2>0, <2>1, <1>13, <1>t DEF AckRemove, MemoryMatches, Holds, Spans, Image, Seqs
  <2>4. Sound(img)
    BY <2>1, <2>2, <2>3, IntervalSound DEF Seqs
  <2>5. Change(img)
    BY <2>0, <1>13 DEF AckRemove, remove
  <2>6. dir' = img /\ images' \subseteq Image /\ dir' \in images'
           /\ \A i \in images' : Sound(i)
    BY <2>2, <2>4, <2>5, ChangeDir
  <2>7. TypeOK'
    BY <1>13, <2>1, <2>2, <2>6, <1>t DEF AckRemove, History, TypeOK, Ops, Seqs
  <2>8. MemoryMatches'
    BY <1>13, <2>1, <2>2, <2>3, <2>6, <1>t DEF AckRemove, MemoryMatches, Holds, Seqs
  <2> QED
    BY <2>6, <2>7, <2>8 DEF IInv
<1>14. CASE AckDone
  <2>1. dir' = dir /\ images' \subseteq images
           /\ dir' \in images' /\ \A i \in images' : Sound(i)
    BY <1>14, SyncDir DEF AckDone
  <2>2. TypeOK'
    BY <1>14, <2>1, <1>t DEF AckDone, History, TypeOK, Ops
  <2>3. MemoryMatches'
    BY <1>14, <2>1, <1>t DEF AckDone, MemoryMatches, Holds, TypeOK, Memory
  <2> QED
    BY <2>1, <2>2, <2>3 DEF IInv
<1>15. CASE RecordsAfter
  <2>1. TypeOK'
    BY <1>15, <1>t DEF RecordsAfter, TypeOK, Memory
  <2>2. MemoryMatches'
    BY <1>15, <1>t DEF RecordsAfter, MemoryMatches, Holds
  <2> QED
    BY <1>15, <2>1, <2>2, SameDir DEF RecordsAfter, IInv
<1>16. CASE IOError
  <2>1. pc \in {"opening", "dropping", "renewing", "acked", "deleted"}
    BY <1>16 DEF IOError, SafeErrors, FaultPoints, TypeOK, Ops, IInv
  <2>2. TypeOK'
    BY <1>16, <1>t DEF IOError, History, TypeOK, Ops, Memory, NoMemory, AnyLease
  <2>3. MemoryMatches'
    BY <1>16, <2>1, <1>t DEF IOError, MemoryMatches, Holds, TypeOK, Memory, Image
  <2> QED
    BY <1>16, <2>2, <2>3, SameDir DEF IOError, IInv
<1>17. CASE Kill
  <2>1. TypeOK'
    BY <1>17, <1>t DEF Kill, History, TypeOK, Ops, Memory, NoMemory, AnyLease
  <2>2. MemoryMatches'
    BY <1>17 DEF Kill, MemoryMatches
  <2> QED
    BY <1>17, <2>1, <2>2, SameDir DEF Kill, IInv
<1>18. CASE PowerLoss
  <2>1. TypeOK'
    BY <1>18, <1>t DEF PowerLoss, History, TypeOK, Ops, Memory, NoMemory, AnyLease
  <2>2. MemoryMatches'
    BY <1>18 DEF PowerLoss, MemoryMatches
  <2> QED
    BY <1>18, <2>1, <2>2 DEF PowerLoss, IInv
<1>19. CASE UNCHANGED vars
  BY <1>19 DEF vars, IInv, TypeOK, MemoryMatches, Holds
<1> QED
  BY <1>1, <1>2, <1>3, <1>4, <1>5, <1>6, <1>7, <1>8, <1>9, <1>10, <1>11,
     <1>12, <1>13, <1>14, <1>15, <1>16, <1>17, <1>18, <1>19 DEF Next, UnkilledNext

(* What the invariant says at once of the properties.                      *)
LEMMA IInvImplies == IInv => NeverCorrupt /\ OnlyOwnRecords /\ BacklogReadable
<1> SUFFICES ASSUME IInv PROVE NeverCorrupt /\ OnlyOwnRecords /\ BacklogReadable
  OBVIOUS
<1>1. NeverCorrupt
  BY DEF IInv, MemoryMatches, NeverCorrupt
<1>2. OnlyOwnRecords
  BY DEF IInv, Sound, OnlyOwnRecords
<1>3. BacklogReadable
  BY Constants DEF IInv, TypeOK, Memory, MemoryMatches, Holds, Spans, Seqs, BacklogReadable
<1> QED
  BY <1>1, <1>2, <1>3

(* The inductive invariant holds throughout, whatever crashes and power    *)
(* failures strike, if no error strikes where a record file can be left    *)
(* outside the range memory knows.                                         *)
THEOREM Invariance == ASSUME SafeErrors PROVE Spec => []IInv
<1>1. Init => IInv
  BY InitIInv
<1>2. IInv /\ [Next]_vars => IInv'
  BY NextIInv
<1> QED
  BY <1>1, <1>2, PTL DEF Spec

(* The journal's variables keep their shape.                               *)
THEOREM TypeCorrect == ASSUME SafeErrors PROVE Spec => []TypeOK
<1>1. IInv => TypeOK
  BY DEF IInv
<1> QED
  BY <1>1, Invariance, PTL

(* A journal left by any crash at any file operation opens again without   *)
(* a gap (Journal::open never answers node-journal-corrupt).               *)
THEOREM AlwaysReopens == ASSUME SafeErrors PROVE Spec => []NeverCorrupt
  BY Invariance, IInvImplies, PTL

(* After any crash the journal replays only records of its state's lease.  *)
THEOREM ReplaysOwnLease == ASSUME SafeErrors PROVE Spec => []OnlyOwnRecords
  BY Invariance, IInvImplies, PTL

(* Journal::records_after finds every record it is asked for.              *)
THEOREM BacklogKept == ASSUME SafeErrors PROVE Spec => []BacklogReadable
  BY Invariance, IInvImplies, PTL

-----------------------------------------------------------------------------
(***************************************************************************)
(* Streamed records survive power failures.  A killed process restarts on  *)
(* directory operations that were never synced, so kills are left out.     *)
(***************************************************************************)

(* The initial state satisfies the streaming invariant.                    *)
LEMMA InitSInv == Init => SInv
  BY Constants DEF Init, SInv, Keeps, EmptyDir, NoMemory, AnyLease

(* A sync leaves fewer directories to reason about.                        *)
LEMMA SyncKeepsSInv ==
    ASSUME IInv, SInv, sync_dir, UNCHANGED <<sent, abandoned>>
    PROVE  \A img \in images' :
              /\ img = dir /\ img \in images
              /\ img.lease \notin abandoned' => Keeps(img, sent'[img.lease])
              /\ \A l \in Leases \ abandoned' : sent'[l] > 0 => img.lease = l
  BY DEF IInv, SInv, sync_dir

(* Every step but a kill preserves the streaming invariant.                *)
LEMMA NextSInv ==
    ASSUME SafeErrors, IInv, IInv', SInv, [UnkilledNext]_vars
    PROVE  SInv'
<1> USE Constants
<1>t. TypeOK /\ TypeOK' /\ MemoryMatches /\ MemoryMatches' /\ dir \in images /\ dir \in Image
      /\ images \subseteq Image
  BY DEF IInv, TypeOK
<1>1. CASE OpenRead
  BY <1>1, <1>t DEF OpenRead, History, SInv
<1>2. CASE OpenRemove
  <2>1. PICK s \in Leftover(dir) : remove(s)
    BY <1>2 DEF OpenRemove
  <2>0. PICK new : new = [dir EXCEPT !.files[s] = NoFile]
    OBVIOUS
  <2>2. s \in Seqs /\ s <= dir.acked
    BY <2>1 DEF Leftover, Present
  <2>3. Live(new) = Live(dir) /\ new.acked = dir.acked /\ new.lease = dir.lease
    BY <2>0, <2>2, <1>t DEF Live, Present, Image, Seqs
  <2>4. dir' = new /\ images' = images \cup {new}
    BY <2>0, <2>1 DEF remove, Change
  <2> QED
    BY <1>2, <2>3, <2>4, <1>t DEF OpenRemove, History, SInv, Keeps
<1>3. CASE OpenDone
  <2>1. PICK n \in 0..MaxSeq :
            EndsAt(dir, n) /\ mem' = [mem EXCEPT !.last = n] /\ pc' = "idle"
    BY <1>3, <1>t DEF OpenDone, MemoryMatches
  <2>2. mem'.lease = dir.lease /\ mem'.last = n
    BY <1>3, <2>1, <1>t DEF OpenDone, MemoryMatches, TypeOK, Memory
  <2>3. Keeps(dir, n) /\ (dir.lease \notin abandoned => sent[dir.lease] <= n)
    BY <2>1, <1>t, SMTT(60) DEF EndsAt, Keeps, Image, SInv, TypeOK
  <2>4. \A img \in images : img.lease = mem'.lease /\ Keeps(img, mem'.last)
    BY <1>3, <2>2, <2>3 DEF OpenDone, SInv, Keeps
  <2> QED
    BY <1>3, <2>1, <2>2, <2>3, <2>4 DEF OpenDone, History, SInv
<1>4. ASSUME NEW l \in Leases, UseLease(l) PROVE SInv'
  <2>1. dir.lease = mem.lease
    BY <1>4, <1>t DEF UseLease, MemoryMatches
  <2> QED
    BY <1>4, <2>1, <1>t DEF UseLease, SInv
<1>5. CASE DropNewest
  <2>0. PICK new : new = [dir EXCEPT !.files[mem.last] = NoFile]
    OBVIOUS
  <2>1. new.lease = mem.lease /\ mem.lease \in abandoned
    BY <2>0, <1>5, <1>t DEF DropNewest, MemoryMatches, Image, SInv
  <2>2. dir' = new /\ images' = images \cup {new}
    BY <2>0, <1>5 DEF DropNewest, remove, Change
  <2>3. mem'.lease = mem.lease
    BY <1>5, <1>t DEF DropNewest, TypeOK, Memory
  <2>4. \A img \in images : img.lease \in abandoned
    BY <1>5, <2>1 DEF DropNewest, SInv
  <2> QED
    BY <1>5, <2>1, <2>2, <2>3, <2>4, <1>t DEF DropNewest, History, SInv
<1>6. CASE DropSync
  BY <1>6, SyncKeepsSInv, <1>t DEF DropSync, History, SInv
<1>7. CASE RenewInstall
  <2>0. PICK new : new = WithState(arg, 0)
    OBVIOUS
  <2>1. new.lease = arg /\ new.acked = 0 /\ arg \in Leases /\ arg \notin abandoned
        /\ mem.lease \in abandoned /\ dir.lease = mem.lease
    BY <2>0, <1>7, <1>t DEF RenewInstall, WithState, MemoryMatches, SInv
  <2>2. dir' = new /\ images' = images \cup {new}
    BY <2>0, <1>7 DEF RenewInstall, Change
  <2>3. \A l \in Leases \ abandoned : ~(sent[l] > 0)
    BY <2>1, <1>t DEF SInv
  <2>4. Keeps(new, sent[arg])
    BY <2>1, <2>3, <1>t DEF Keeps, TypeOK, AnyLease
  <2> QED
    BY <1>7, <2>1, <2>2, <2>3, <2>4, <1>t DEF RenewInstall, History, SInv
<1>8. CASE RenewDone
  <2>1. Keeps(dir, 0)
    BY <1>8, <1>t DEF RenewDone, MemoryMatches, Keeps
  <2>2. arg \in Leases /\ arg \notin abandoned /\ dir.lease = arg
    BY <1>8, <1>t DEF RenewDone, MemoryMatches, SInv
  <2>3. sent[arg] <= 0
    <3>1. Keeps(dir, sent[arg])
      BY <2>2, <1>t DEF SInv
    <3> QED
      BY <3>1, <1>8, <1>t DEF RenewDone, MemoryMatches, Keeps, Live, Present
  <2>4. mem'.lease = arg /\ mem'.last = 0 /\ pc' = "idle"
    BY <1>8 DEF RenewDone
  <2> QED
    BY <1>8, <2>1, <2>2, <2>3, <2>4, SyncKeepsSInv DEF RenewDone, History, SInv
<1>9. CASE AppendInstall
  <2>0. PICK new : new = [dir EXCEPT !.files[mem.last + 1] = mem.lease]
    OBVIOUS
  <2>1. new.lease = mem.lease /\ new.acked = dir.acked /\ dir.lease = mem.lease
    BY <2>0, <1>9, <1>t DEF AppendInstall, MemoryMatches, Image
  <2>2. mem.last + 1 \in Seqs /\ mem.lease # NoFile
    BY <1>9, <1>t DEF AppendInstall, TypeOK, Memory, Seqs
  <2>3. Live(dir) \subseteq Live(new)
    BY <2>0, <2>1, <2>2, <1>t DEF Live, Present, Image
  <2>4. dir' = new /\ images' = images \cup {new}
    BY <2>0, <1>9 DEF AppendInstall, Change
  <2> QED
    BY <1>9, <2>1, <2>3, <2>4, <1>t DEF AppendInstall, History, SInv, Keeps
<1>10. CASE AppendDone
  <2>1. mem' = [lease |-> mem.lease, acked |-> mem.acked, last |-> mem.last + 1]
        /\ mem.last + 1 \in Seqs /\ dir.lease = mem.lease /\ dir.acked \in Nat
        /\ mem.lease # NoFile
    BY <1>10, <1>t, SMTT(60) DEF AppendDone, TypeOK, Memory, MemoryMatches, Seqs, Image
  <2>2. dir.files[mem.last + 1] = mem.lease
    BY <1>10, <2>1, <1>t DEF AppendDone, MemoryMatches, Holds, Spans, Seqs, TypeOK, Memory
  <2>3. Keeps(dir, mem.last + 1)
    BY <2>1, <2>2 DEF Keeps, Live, Present, Seqs
  <2>4. mem.lease \notin abandoned => sent[mem.lease] <= mem.last + 1
    BY <1>10, <1>t DEF AppendDone, SInv, TypeOK, Memory
  <2> QED
    BY <1>10, <2>1, <2>3, <2>4, SyncKeepsSInv DEF AppendDone, History, SInv
<1>11. ASSUME NEW seq \in Seqs, Acknowledge(seq) PROVE SInv'
  <2>0. PICK new : new = WithState(mem.lease, seq)
    OBVIOUS
  <2>1. new.lease = mem.lease /\ new.acked = seq /\ new.files = dir.files
        /\ dir.lease = mem.lease
    BY <2>0, <1>11, <1>t DEF Acknowledge, WithState, MemoryMatches
  <2>2. \A s \in Seqs : s \in (mem.acked + 1)..mem.last => new.files[s] # NoFile
    BY <2>1, <1>11, <1>t DEF Acknowledge, MemoryMatches, Holds, Spans, TypeOK, Memory
  <2>3. ASSUME NEW n \in 0..MaxSeq, n <= mem.last PROVE Keeps(new, n)
    BY <2>1, <2>2, <2>3, <1>11, <1>t DEF Keeps, Live, Present, Acknowledge, TypeOK, Memory, Seqs
  <2>4. mem.lease \notin abandoned => sent[mem.lease] <= mem.last
    BY <1>11 DEF SInv, Acknowledge
  <2>5. dir' = new /\ images' = images \cup {new}
    BY <2>0, <1>11 DEF Acknowledge, Change
  <2> QED
    BY <1>11, <2>1, <2>3, <2>4, <2>5, <1>t DEF Acknowledge, History, SInv, TypeOK, Memory
<1>12. CASE AckSaved
  <2>1. mem'.lease = mem.lease /\ mem'.last = mem.last
    BY <1>12, <1>t DEF AckSaved, TypeOK, Memory
  <2> QED
    BY <1>12, <2>1, SyncKeepsSInv, <1>t DEF AckSaved, History, SInv
<1>13. CASE AckRemove
  <2>0. PICK new : new = [dir EXCEPT !.files[arg] = NoFile]
    OBVIOUS
  <2>1. arg \in Seqs /\ arg <= dir.acked /\ dir.lease = mem.lease
    BY <1>13, <1>t DEF AckRemove, MemoryMatches
  <2>2. Live(new) = Live(dir) /\ new.acked = dir.acked /\ new.lease = dir.lease
    BY <2>0, <2>1, <1>t DEF Live, Present, Image, Seqs
  <2>3. dir' = new /\ images' = images \cup {new}
    BY <2>0, <1>13 DEF AckRemove, remove, Change
  <2>4. pc' \in {"deleting", "deleted"}
    BY <1>13 DEF AckRemove
  <2> QED
    BY <1>13, <2>1, <2>2, <2>3, <2>4, <1>t DEF AckRemove, History, SInv, Keeps
<1>14. CASE AckDone
  BY <1>14, SyncKeepsSInv, <1>t DEF AckDone, History, SInv
<1>15. CASE RecordsAfter
  <2>1. sent' = [sent EXCEPT ![mem.lease] = mem.last] /\ mem.lease \in Leases
    BY <1>15, <1>t DEF RecordsAfter, TypeOK, Memory, AnyLease
  <2>2. dir.lease = mem.lease
    BY <1>15, <1>t DEF RecordsAfter, MemoryMatches
  <2>3. /\ \A img \in images : img.lease = mem.lease
        /\ mem.lease \notin abandoned => \A img \in images : Keeps(img, mem.last)
    BY <1>15 DEF RecordsAfter, SInv
  <2>4. \A img \in images : img.lease \notin abandoned => Keeps(img, sent'[img.lease])
    BY <2>1, <2>3, <1>t DEF TypeOK, AnyLease
  <2>5. ASSUME NEW img \in images, NEW l \in Leases \ abandoned, sent'[l] > 0
        PROVE  img.lease = l
    <3>1. CASE l = mem.lease
      BY <3>1, <2>3
    <3>2. CASE l # mem.lease
      BY <3>2, <2>1, <2>5, <1>t DEF SInv, TypeOK, AnyLease
    <3> QED
      BY <3>1, <3>2
  <2>6. sent'[NoLease] = 0
    BY <2>1, <1>t DEF SInv, TypeOK, AnyLease
  <2> QED
    <3>1. sent'[mem.lease] = mem.last /\ mem.last <= mem.last
      BY <2>1, <1>t DEF TypeOK, Memory, AnyLease
    <3> QED
      BY <1>15, <3>1, <2>3, <2>4, <2>5, <2>6 DEF RecordsAfter, SInv
<1>16. CASE IOError
  <2>1. pc \in {"opening", "dropping", "renewing", "acked", "deleted"}
    BY <1>16, <1>t DEF IOError, SafeErrors, FaultPoints, TypeOK, Ops
  <2> QED
    BY <1>16, <2>1, <1>t DEF IOError, History, SInv
<1>17. CASE PowerLoss
  BY <1>17 DEF PowerLoss, History, SInv
<1>18. CASE UNCHANGED vars
  BY <1>18 DEF vars, SInv
<1> QED
  BY <1>1, <1>2, <1>3, <1>4, <1>5, <1>6, <1>7, <1>8, <1>9, <1>10, <1>11,
     <1>12, <1>13, <1>14, <1>15, <1>16, <1>17, <1>18 DEF UnkilledNext

(* Its first part is the property.                                         *)
LEMMA SInvImplies == SInv => StreamedIsDurable
  BY DEF SInv, StreamedIsDurable, Keeps

(* Where power failures and safe IO errors strike, and no kill, a streamed *)
(* record is never lost, so its number is never given to another record:   *)
(* append syncs the directory before it counts a record.                   *)
THEOREM StreamedSurvives == ASSUME SafeErrors PROVE UnkilledSpec => []StreamedIsDurable
<1>1. Init => IInv /\ SInv
  BY InitIInv, InitSInv
<1>2. IInv /\ [UnkilledNext]_vars => IInv'
  BY NextIInv DEF Next
<1>3. IInv /\ IInv' /\ SInv /\ [UnkilledNext]_vars => SInv'
  BY NextSInv
<1> QED
  BY <1>1, <1>2, <1>3, SInvImplies, PTL DEF UnkilledSpec

(* The same where kills strike in some behaviours and not in others, as    *)
(* the run checks it: the bookkeeping is kept in all of them, the streamed *)
(* records in those without.                                               *)
THEOREM DurableUnlessKilled == ASSUME SafeErrors PROVE MCSpec => []DurableWithoutKills
<1> DEFINE Streamed == ~kills => SInv
<1>1. MCInit => IInv /\ Streamed
  BY InitIInv, InitSInv DEF MCInit
<1>2. IInv /\ [MCNext]_<<vars, kills>> => IInv'
  <2>1. [MCNext]_<<vars, kills>> => [Next]_vars
    BY DEF MCNext, Next
  <2> QED
    BY <2>1, NextIInv
<1>3. IInv /\ IInv' /\ Streamed /\ [MCNext]_<<vars, kills>> => Streamed'
  <2>1. [MCNext]_<<vars, kills>> => kills' = kills /\ (~kills => [UnkilledNext]_vars)
    BY DEF MCNext
  <2> QED
    BY <2>1, NextSInv
<1>4. Streamed => DurableWithoutKills
  BY SInvImplies DEF DurableWithoutKills
<1> HIDE DEF Streamed
<1> QED
  BY <1>1, <1>2, <1>3, <1>4, PTL DEF MCSpec

=============================================================================
