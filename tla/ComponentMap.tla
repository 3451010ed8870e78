---------------------------- MODULE ComponentMap ----------------------------
(***************************************************************************)
(* What the registry of an ipc server promises: at most one component of   *)
(* each name, the first that was registered, until the name is taken out.  *)
(***************************************************************************)
CONSTANTS Names, Comps, None, NameOf

VARIABLE map
vars == <<map>>

Init == map = [n \in Names |-> None]

Register(c) == map[NameOf[c]] = None /\ map' = [map EXCEPT ![NameOf[c]] = c]
Unregister(n) == map[n] # None /\ map' = [map EXCEPT ![n] = None]

Next == (\E c \in Comps : Register(c)) \/ \E n \in Names : Unregister(n)
Spec == Init /\ [][Next]_vars
=============================================================================
