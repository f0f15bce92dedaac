----------------------------- MODULE RecordLog -----------------------------
(***************************************************************************)
(* What the machine's journal and the backend's ingestion promise together *)
(* for one lease, whatever happens to the link and to either process: the  *)
(* agents of one backend process get every record once, in order, from the *)
(* sequence the backend had saved when the process started, and the        *)
(* machine deletes a record only once the backend has saved it.            *)
(***************************************************************************)
EXTENDS Naturals, Sequences

CONSTANT MaxSeq

VARIABLES appended,   \* the last record the machine wrote
          trimmed,    \* the machine no longer holds 1..trimmed
          saved,      \* the backend has durably acknowledged 1..saved
          base,       \* what was saved when the backend process started
          log         \* the records this backend process gave its agents

vars == <<appended, trimmed, saved, base, log>>

Delivered == base + Len(log)

Init ==
    /\ appended = 0 /\ trimmed = 0 /\ saved = 0
    /\ base = 0 /\ log = <<>>

Append1 ==
    /\ appended < MaxSeq
    /\ appended' = appended + 1
    /\ UNCHANGED <<trimmed, saved, base, log>>

Deliver ==
    /\ Delivered < appended
    /\ log' = Append(log, Delivered + 1)
    /\ UNCHANGED <<appended, trimmed, base>>
    /\ saved' \in {saved, Delivered + 1}

Save ==
    /\ saved' \in saved..Delivered
    /\ UNCHANGED <<appended, trimmed, base, log>>

Trim ==
    /\ trimmed' \in trimmed..saved
    /\ UNCHANGED <<appended, saved, base, log>>

Restart ==
    /\ base' = saved
    /\ log' = <<>>
    /\ UNCHANGED <<appended, trimmed, saved>>

Next == Append1 \/ Deliver \/ Save \/ Trim \/ Restart

Spec == Init /\ [][Next]_vars
=============================================================================
