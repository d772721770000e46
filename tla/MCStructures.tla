---------------------------- MODULE MCStructures ----------------------------
(***************************************************************************)
(* The structures everything is built on, each by itself: the vectors and  *)
(* sets, the hash table of the top scope, and the life of the scopes.      *)
(***************************************************************************)
EXTENDS ScopePool, MCSymHash, Containers

VARIABLE part    \* the structure a behaviour is about; the others stay as they begin

IdleContainers == ContainersInit /\ which = "vec"
IdleTable == HashInit /\ \A size \in InitialSizes : table.n <= size

MCInit == /\ Init
          /\ \/ part = "containers" /\ ContainersInit /\ IdleTable
             \/ part = "table" /\ HashInit /\ IdleContainers
             \/ part = "scopes" /\ IdleContainers /\ IdleTable
MCNext == \/ part = "containers" /\ ContainersNext /\ UNCHANGED <<part, tables, vars>>
          \/ part = "table" /\ HashNext /\ UNCHANGED <<part, containers, vars>>
          \/ part = "scopes" /\ Next /\ UNCHANGED <<part, containers, tables>>
MCSpec == MCInit /\ [][MCNext]_<<part, containers, tables, vars>>
=============================================================================
