---------------------------- MODULE MCJournal ----------------------------
(* Instances of Journal for TLC: two leases after the unbound journal, so  *)
(* that a lease change can follow a lease change.  A behaviour is either   *)
(* one in which processes are killed, with one record fewer, or one in     *)
(* which they are not.                                                     *)
EXTENDS Journal

VARIABLE kills      \* whether the process may be killed in this behaviour

MCInit == Init /\ kills \in BOOLEAN

MCNext ==
    /\ \/ kills /\ Next /\ MaxSeq \notin Present(dir')
       \/ ~kills /\ UnkilledNext
    /\ UNCHANGED kills

MCSpec == MCInit /\ [][MCNext]_<<vars, kills>>

(* Where no process is killed between a rename and the directory sync that *)
(* follows it, no power failure undoes a record that was streamed, or its  *)
(* acknowledgement ("a record is never streamed to head before it is       *)
(* durable"): append syncs before it counts the record.                    *)
DurableWithoutKills == ~kills => StreamedIsDurable
=============================================================================
