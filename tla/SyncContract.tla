----------------------------- MODULE SyncContract -----------------------------
(***************************************************************************)
(* What the background sync promises of the local chat store, whatever     *)
(* stops, fails, dies or overlaps: each item is owed to the cloud from the *)
(* moment it changes, and a tracked one until it has arrived at the cloud  *)
(* as it is.  Nothing arrives but states an item was in; that they arrive  *)
(* in their order is not promised.                                         *)
(***************************************************************************)
EXTENDS Integers

CONSTANTS Items, Tracked

VARIABLES rows,     \* the items there are
          version,  \* how often an item changed
          owed,     \* the items to be reported
          got       \* the cloud: the states of an item that have arrived

vars == <<rows, version, owed, got>>

Init ==
    /\ rows = Items /\ owed = {}
    /\ version = [i \in Items |-> 0] /\ got = [i \in Items |-> {0}]

Change(i) ==
    /\ i \in rows
    /\ version' = [version EXCEPT ![i] = @ + 1]
    /\ owed' = owed \cup {i}
    /\ UNCHANGED <<rows, got>>

Delete(i) ==
    /\ i \in rows
    /\ rows' = rows \ {i}
    /\ UNCHANGED <<version, owed, got>>

\* One item at most arrives; what is owed no more, has arrived as it is.
Settle ==
    /\ \/ UNCHANGED got
       \/ \E i \in Items : \E v \in 0 .. version[i] :
             got' = [got EXCEPT ![i] = @ \cup {v}]
    /\ owed' \subseteq owed
    /\ \A i \in (owed \ owed') \cap Tracked \cap rows : version[i] \in got'[i]
    /\ UNCHANGED <<rows, version>>

Next ==
    \/ \E i \in Items : Change(i) \/ Delete(i)
    \/ Settle

Spec == Init /\ [][Next]_vars
=============================================================================
