------------------------------- MODULE Stores -------------------------------
(***************************************************************************)
(* What storage.KVProvider promises its modules: each has a store of its   *)
(* own, and what one writes or deletes no other sees.                      *)
(***************************************************************************)
EXTENDS Storage

CONSTANT Module

VARIABLE view  \* per module: its keys and what they hold

StorePut(m, k, v) == view' = [view EXCEPT ![m] = PutAt(@, k, v)]

StoreDelete(m, k) == k \in DOMAIN view[m] /\ view' = [view EXCEPT ![m] = DeleteAt(@, k)]

(* One module's entry is written or deleted, and nothing else changes. *)
StoresNext ==
  \E m \in Module :
    \/ \E k \in DOMAIN view'[m] : StorePut(m, k, view'[m][k])
    \/ \E k \in DOMAIN view[m] : StoreDelete(m, k)

StoresInit == DOMAIN view = Module

StoresSpec == StoresInit /\ [][StoresNext]_view
=============================================================================
