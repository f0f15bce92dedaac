------------------------------ MODULE Journal ------------------------------
(***************************************************************************)
(* The machine's durable journal of agent records for its current lease    *)
(* (crates/intent-nodes/src/journal.rs).                                   *)
(*                                                                         *)
(* One record is one file named by its sequence number; a state file holds *)
(* the lease and the backend's acknowledged sequence.  Every file          *)
(* operation is a step of its own, so the process may be killed, the power *)
(* may fail, or the operation may return an IO error between any two.      *)
(*                                                                         *)
(* What is abstracted:                                                     *)
(*  - a record is the lease it was appended under; its payload is not told *)
(*    apart;                                                               *)
(*  - `install' writes a private temporary file, syncs it, renames it and  *)
(*    syncs the directory.  The temporary is never read and is discarded   *)
(*    by `open', so the steps kept are the rename and the directory sync;  *)
(*  - an absent state file reads as the state `open' then installs;        *)
(*  - the file system is one that orders its directory operations: a power *)
(*    failure undoes a suffix of the operations since the last directory   *)
(*    sync.  `images' is the set of directory contents it may leave.       *)
(***************************************************************************)
EXTENDS Integers

CONSTANTS Leases,     \* the leases the backend ever offers this machine
          NoLease,    \* the lease of a journal that was never bound
          NoFile,     \* no record file has this number
          MaxSeq,     \* the last sequence number (u64::MAX in the code)
          Faults      \* the faults that may strike, see FaultPoints

(* "kill": the process dies, the page cache survives; "power": the machine *)
(* loses power; the others name the file operation that returns an error.  *)
FaultPoints == {"kill", "power", "opening", "dropping", "renewing", "renewed",
                "appended", "acked", "deleting", "deleted"}

ASSUME JournalAssumption ==
    /\ NoLease \notin Leases
    /\ NoFile \notin Leases \cup {NoLease}
    /\ MaxSeq \in Nat
    /\ Faults \subseteq FaultPoints

VARIABLES dir,        \* the directory as the process sees it
          images,     \* the directories a power failure may leave
          pc,         \* the operation under way and how far it got
          arg,        \* its argument: a lease, or a sequence number
          mem,        \* the Journal value: its state and its last sequence
          sent,       \* history: the highest sequence streamed per lease
          abandoned   \* history: leases a use_lease moved away from

vars == <<dir, images, pc, arg, mem, sent, abandoned>>

AnyLease == Leases \cup {NoLease}
Seqs     == 1..MaxSeq

Image == [files : [Seqs -> AnyLease \cup {NoFile}],
          lease : AnyLease,
          acked : 0..MaxSeq]

Memory == [lease : AnyLease, acked : 0..MaxSeq, last : 0..MaxSeq]

Present(img) == {s \in Seqs : img.files[s] # NoFile}
(* The records that count: those past the acknowledged sequence.           *)
Live(img) == {s \in Present(img) : s > img.acked}
Leftover(img) == {s \in Present(img) : s <= img.acked}

(* The live records run without a gap from the acknowledgement to n.       *)
EndsAt(img, n) == n >= img.acked /\ Live(img) = (img.acked + 1)..n
Contiguous(img) == \E n \in 0..MaxSeq : EndsAt(img, n)

(***************************************************************************)
(* File operations.                                                        *)
(***************************************************************************)
(* One directory operation: a later power failure may or may not keep it.  *)
Change(img) ==
    /\ dir' = img
    /\ images' = images \cup {img}

sync_dir ==
    /\ images' = {dir}
    /\ UNCHANGED dir

remove(s) == Change([dir EXCEPT !.files[s] = NoFile])

(* The directory with its state file replaced.                             *)
WithState(l, n) == [files |-> dir.files, lease |-> l, acked |-> n]

-----------------------------------------------------------------------------
NoMemory == [lease |-> NoLease, acked |-> 0, last |-> 0]
EmptyDir == [files |-> [s \in Seqs |-> NoFile], lease |-> NoLease, acked |-> 0]

Init ==
    /\ dir = EmptyDir
    /\ images = {EmptyDir}
    /\ pc = "down"
    /\ arg = 0
    /\ mem = NoMemory
    /\ sent = [l \in AnyLease |-> 0]
    /\ abandoned = {}

History == UNCHANGED <<sent, abandoned>>

(***************************************************************************)
(* open: read the state, remove what an interrupted acknowledgement left,  *)
(* refuse a gap.                                                           *)
(***************************************************************************)
OpenRead ==
    /\ pc = "down"
    /\ pc' = "opening"
    /\ mem' = [lease |-> dir.lease, acked |-> dir.acked, last |-> dir.acked]
    /\ UNCHANGED <<dir, images, arg>> /\ History

OpenRemove ==
    /\ pc = "opening"
    /\ \E s \in Leftover(dir) :
        /\ \A t \in Leftover(dir) : s <= t
        /\ remove(s)
    /\ UNCHANGED <<pc, arg, mem>> /\ History

OpenDone ==
    /\ pc = "opening"
    /\ Leftover(dir) = {}
    /\ \/ \E n \in 0..MaxSeq :
            /\ EndsAt(dir, n)
            /\ mem' = [mem EXCEPT !.last = n]
            /\ pc' = "idle"
       \/ /\ ~Contiguous(dir)
          /\ pc' = "corrupt"
          /\ UNCHANGED mem
    /\ UNCHANGED <<dir, images, arg>> /\ History

(***************************************************************************)
(* use_lease(l): delete the old lease's records newest first, sync, then   *)
(* install the new lease's state.  The same lease changes nothing.  The    *)
(* backend mints a new lease id per credential, so it never offers again a *)
(* lease this machine moved away from.                                     *)
(***************************************************************************)
UseLease(l) ==
    /\ pc = "idle"
    /\ l # mem.lease
    /\ l \notin abandoned
    /\ pc' = "dropping"
    /\ arg' = l
    /\ abandoned' = abandoned \cup {mem.lease}
    /\ UNCHANGED <<dir, images, mem, sent>>

(* Error to rule out: the records are dropped oldest first *)
DropOldest ==
    /\ pc = "dropping"
    /\ mem.last > mem.acked
    /\ \E s \in Live(dir) :
        /\ \A t \in Live(dir) : s <= t
        /\ remove(s)
        /\ mem' = IF s = mem.last THEN [mem EXCEPT !.last = mem.acked] ELSE mem
    /\ UNCHANGED <<pc, arg>> /\ History

DropNewest ==
    /\ pc = "dropping"
    /\ mem.last > mem.acked
    /\ remove(mem.last)
    /\ mem' = [mem EXCEPT !.last = @ - 1]
    /\ UNCHANGED <<pc, arg>> /\ History

(* Error to rule out: the new state is installed before the old records are deleted *)
DropSyncEarly ==
    /\ pc = "dropping"
    /\ sync_dir
    /\ pc' = "renewing"
    /\ UNCHANGED <<arg, mem>> /\ History

DropSync ==
    /\ pc = "dropping"
    /\ mem.last <= mem.acked
    /\ sync_dir
    /\ pc' = "renewing"
    /\ UNCHANGED <<arg, mem>> /\ History

RenewInstall ==
    /\ pc = "renewing"
    /\ Change(WithState(arg, 0))
    /\ pc' = "renewed"
    /\ UNCHANGED <<arg, mem>> /\ History

RenewDone ==
    /\ pc = "renewed"
    /\ sync_dir
    /\ mem' = [lease |-> arg, acked |-> 0, last |-> 0]
    /\ pc' = "idle" /\ arg' = 0
    /\ History

(***************************************************************************)
(* append: install the record, then count it.  MaxSeq is where the code    *)
(* answers "sequence exhausted".  Agents are launched, and so records are  *)
(* appended and streamed, only once a link's lease was adopted.            *)
(***************************************************************************)
(* Error to rule out: the sequence is counted on past its end *)
AppendUnchecked ==
    /\ pc = "idle"
    /\ mem.lease # NoLease
    /\ Change([dir EXCEPT !.files[mem.last + 1] = mem.lease])
    /\ pc' = "appended"
    /\ UNCHANGED <<arg, mem>> /\ History

AppendInstall ==
    /\ pc = "idle"
    /\ mem.lease # NoLease
    /\ mem.last < MaxSeq
    /\ Change([dir EXCEPT !.files[mem.last + 1] = mem.lease])
    /\ pc' = "appended"
    /\ UNCHANGED <<arg, mem>> /\ History

(* Error to rule out: the directory is not synced after the record's rename *)
AppendDoneUnsynced ==
    /\ pc = "appended"
    /\ mem' = [mem EXCEPT !.last = @ + 1]
    /\ pc' = "idle"
    /\ UNCHANGED <<dir, images, arg>> /\ History

AppendDone ==
    /\ pc = "appended"
    /\ sync_dir
    /\ mem' = [mem EXCEPT !.last = @ + 1]
    /\ pc' = "idle"
    /\ UNCHANGED arg /\ History

(***************************************************************************)
(* acknowledge(seq): save the acknowledgement first, then delete the       *)
(* records it covers, oldest first.  One past the last record is refused   *)
(* and one at or below the current acknowledgement changes nothing.        *)
(***************************************************************************)
Acknowledge(seq) ==
    /\ pc = "idle"
    /\ mem.acked < seq
    /\ seq <= mem.last
    /\ Change(WithState(mem.lease, seq))
    /\ pc' = "acked"
    /\ arg' = seq
    /\ UNCHANGED mem /\ History

AckSaved ==
    /\ pc = "acked"
    /\ sync_dir
    /\ mem' = [mem EXCEPT !.acked = arg]
    /\ arg' = mem.acked + 1
    /\ pc' = "deleting"
    /\ History

(* Error to rule out: the acknowledgement's deletion runs one record too far *)
AckRemovePast ==
    /\ pc = "deleting"
    /\ remove(arg)
    /\ IF arg = mem.acked + 1 \/ arg = MaxSeq
       THEN pc' = "deleted" /\ UNCHANGED arg
       ELSE arg' = arg + 1 /\ UNCHANGED pc
    /\ UNCHANGED mem /\ History

AckRemove ==
    /\ pc = "deleting"
    /\ remove(arg)
    /\ IF arg = mem.acked
       THEN pc' = "deleted" /\ UNCHANGED arg
       ELSE arg' = arg + 1 /\ UNCHANGED pc
    /\ UNCHANGED mem /\ History

AckDone ==
    /\ pc = "deleted"
    /\ sync_dir
    /\ pc' = "idle" /\ arg' = 0
    /\ UNCHANGED mem /\ History

(***************************************************************************)
(* records_after: the streamer reads every record up to the last and sends *)
(* it to the backend.                                                      *)
(***************************************************************************)
RecordsAfter ==
    /\ pc = "idle"
    /\ mem.lease # NoLease
    /\ sent[mem.lease] < mem.last
    /\ sent' = [sent EXCEPT ![mem.lease] = mem.last]
    /\ UNCHANGED <<dir, images, pc, arg, mem, abandoned>>

(***************************************************************************)
(* Faults.  An IO error ends the operation (`?'): the journal stays usable *)
(* with the memory it had, an `open' yields no journal.                    *)
(***************************************************************************)
IOError ==
    /\ pc \in Faults
    /\ IF pc = "opening" THEN pc' = "down" /\ mem' = NoMemory
                         ELSE pc' = "idle" /\ UNCHANGED mem
    /\ arg' = 0
    /\ UNCHANGED <<dir, images>> /\ History

Kill ==
    /\ "kill" \in Faults
    /\ pc \notin {"down", "corrupt"}
    /\ pc' = "down" /\ mem' = NoMemory /\ arg' = 0
    /\ UNCHANGED <<dir, images>> /\ History

PowerLoss ==
    /\ "power" \in Faults
    /\ pc # "corrupt"
    /\ pc' = "down" /\ mem' = NoMemory /\ arg' = 0
    /\ dir' \in images
    /\ images' = {dir'}
    /\ History

UnkilledNext ==
    \/ OpenRead \/ OpenRemove \/ OpenDone
    \/ \E l \in Leases : UseLease(l)
    \/ DropNewest \/ DropSync \/ RenewInstall \/ RenewDone
    \/ AppendInstall \/ AppendDone
    \/ \E seq \in Seqs : Acknowledge(seq)
    \/ AckSaved \/ AckRemove \/ AckDone
    \/ RecordsAfter
    \/ IOError \/ PowerLoss

Next == UnkilledNext \/ Kill

Spec == Init /\ [][Next]_vars

(* Where no process is killed.                                             *)
UnkilledSpec == Init /\ [][UnkilledNext]_vars

-----------------------------------------------------------------------------
Ops == {"down", "opening", "idle", "corrupt", "dropping", "renewing",
        "renewed", "appended", "acked", "deleting", "deleted"}

(* Every variable keeps its shape: the journal's numbers stay within the   *)
(* counter, the operation's argument is what that operation takes.         *)
TypeOK ==
    /\ dir \in Image
    /\ images \subseteq Image
    /\ pc \in Ops
    /\ arg \in Leases \cup 0..MaxSeq
    /\ mem \in Memory
    /\ sent \in [AnyLease -> 0..MaxSeq]
    /\ abandoned \subseteq AnyLease

(* Whenever the machine dies, the journal it left can be opened again:     *)
(* `open' never answers node-journal-corrupt for a gap ("a crash part-way  *)
(* leaves the old lease with a contiguous prefix of its records, never a   *)
(* gap").                                                                  *)
NeverCorrupt == pc # "corrupt"

(* No directory that a crash may leave replays a record of a lease that is *)
(* gone as one of the lease in the state file: a new lease starts a new    *)
(* sequence and the old records are dropped with their numbering.          *)
OnlyOwnRecords ==
    \A img \in images : \A s \in Live(img) : img.files[s] = img.lease

(* Between operations every record the journal claims to hold, from the    *)
(* acknowledged sequence to the last, is a readable file: records_after    *)
(* never fails, so the machine never closes a link over a missing record.  *)
BacklogReadable ==
    pc = "idle" => \A s \in (mem.acked + 1)..mem.last : dir.files[s] = mem.lease

(* "A record is never streamed to head before it is durable": a power      *)
(* failure keeps every record that was streamed (or its acknowledgement),  *)
(* so a restarted machine never gives a streamed sequence number to        *)
(* another record, which the backend would skip as a duplicate.            *)
StreamedIsDurable ==
    \A img \in images :
        img.lease \notin abandoned =>
            \/ sent[img.lease] <= img.acked
            \/ sent[img.lease] \in Live(img)

-----------------------------------------------------------------------------
(* The inductive invariant.  Spans: the files are exactly the records      *)
(* from..to of lease l.                                                    *)
Spans(img, l, from, to) ==
    \A s \in Seqs : img.files[s] = IF s \in from..to THEN l ELSE NoFile

Holds(from, to) == Spans(dir, mem.lease, from, to)

(* What memory knows of the directory at each point of each operation.     *)
(* After a failed save of an acknowledgement the state file may be ahead   *)
(* of memory, never behind it.                                             *)
MemoryMatches ==
    /\ pc # "corrupt"
    /\ pc \in {"idle", "dropping", "renewing", "appended", "acked"} =>
         /\ dir.lease = mem.lease
         /\ mem.acked <= dir.acked
         /\ mem.acked <= mem.last
    /\ pc \in {"idle", "dropping", "renewing", "acked"} =>
         Holds(mem.acked + 1, mem.last)
    /\ pc = "opening" => dir.lease = mem.lease /\ dir.acked = mem.acked
    /\ pc \in {"dropping", "renewing", "renewed"} => arg \in Leases
    /\ pc = "renewing" => mem.last = mem.acked
    /\ pc = "renewed" => /\ dir.lease = arg
                         /\ dir.acked = 0
                         /\ \A s \in Seqs : dir.files[s] = NoFile
    /\ pc = "appended" => mem.last < MaxSeq /\ Holds(mem.acked + 1, mem.last + 1)
    /\ pc = "acked" => arg = dir.acked /\ mem.acked < arg /\ arg <= mem.last
    /\ pc \in {"deleting", "deleted"} =>
         /\ dir.lease = mem.lease
         /\ dir.acked = mem.acked
         /\ mem.acked <= mem.last
    /\ pc = "deleting" =>
         arg \in Seqs /\ arg <= mem.acked /\ Holds(arg, mem.last)
    /\ pc = "deleted" => Holds(mem.acked + 1, mem.last)

(* Every directory a crash may leave opens without a gap and replays only  *)
(* records of its own lease.                                               *)
Sound(img) ==
    /\ Contiguous(img)
    /\ \A s \in Live(img) : img.files[s] = img.lease

IInv ==
    /\ TypeOK
    /\ dir \in images
    /\ \A img \in images : Sound(img)
    /\ MemoryMatches

(* The directory keeps record n, or the acknowledgement that covers it.    *)
Keeps(img, n) == n <= img.acked \/ n \in Live(img)

(* What makes streaming safe where only power failures strike: every       *)
(* directory one may leave holds the last record memory counts.            *)
SInv ==
    /\ \A img \in images :
         /\ img.lease \notin abandoned => Keeps(img, sent[img.lease])
         /\ \A l \in Leases \ abandoned : sent[l] > 0 => img.lease = l
    /\ sent[NoLease] = 0
    /\ pc \in {"down", "opening"} =>
         \A img \in images : /\ img.lease = dir.lease
                             /\ img.acked = dir.acked
                             /\ Live(img) = Live(dir)
    /\ pc \notin {"down", "opening", "renewed"} =>
         /\ \A img \in images : img.lease = mem.lease
         /\ mem.lease \notin abandoned =>
              /\ sent[mem.lease] <= mem.last
              /\ \A img \in images : Keeps(img, mem.last)
    /\ pc \in {"dropping", "renewing", "renewed"} => mem.lease \in abandoned
    /\ pc \in {"dropping", "renewing", "renewed"} => arg \notin abandoned

=============================================================================
