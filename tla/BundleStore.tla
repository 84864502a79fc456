----------------------------- MODULE BundleStore -----------------------------
(***************************************************************************)
(* What a caller of commit_storage_bundle_with_recovery is promised: the   *)
(* record tables change by a whole bundle or not at all.                   *)
(***************************************************************************)
EXTENDS Integers, Sequences

CONSTANTS Files, Ids, Bundles, DirectSaves, NoRecord,
          Program(_)    \* the writes of a bundle, in order

VARIABLES store,    \* the record tables, as a reader of memory sees them
          running   \* the bundle being committed, NoRecord when none is

vars == <<store, running>>

\* The last of the writes ws to record i of file f decides what it holds.
WritesTo(ws, f, i) == {k \in 1..Len(ws) : ws[k].file = f /\ ws[k].id = i}
After(tables, ws) ==
    [f \in Files |-> [i \in Ids |->
        IF WritesTo(ws, f, i) = {} THEN tables[f][i]
        ELSE ws[CHOOSE k \in WritesTo(ws, f, i) : \A j \in WritesTo(ws, f, i) : j <= k].value]]

Init ==
    /\ store = [f \in Files |-> [i \in Ids |-> NoRecord]]
    /\ running = NoRecord

Begin == running = NoRecord /\ running' \in Bundles /\ UNCHANGED store

Commit ==
    /\ running # NoRecord
    /\ store' = After(store, Program(running))
    /\ running' = NoRecord

Refuse == running # NoRecord /\ running' = NoRecord /\ UNCHANGED store

SaveOne ==
    /\ running = NoRecord
    /\ \E w \in DirectSaves : store' = After(store, <<w>>)
    /\ UNCHANGED running

Next == Begin \/ Commit \/ Refuse \/ SaveOne

Spec == Init /\ [][Next]_vars
=============================================================================
