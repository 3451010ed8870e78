------------------------------ MODULE Registry ------------------------------
(***************************************************************************)
(* The components registered with an ipc server: a chained hash table      *)
(* (zcrtlib/zhash.c) used by zipc_server_register, _unregister and the     *)
(* lookups of the parser.  The table has no lock: the one thread that      *)
(* registers and the common thread that looks up run side by side.  What   *)
(* the first does becomes visible with one store; a step of a lookup is    *)
(* one node it visits.  The memory for a node is there.  A name is what is *)
(* left of it in ZCRT_NAME_LEN - 1 bytes.                                  *)
(***************************************************************************)
EXTENDS Naturals, SequencesExt

CONSTANTS
  Names, Comps, \* component names, components
  None,         \* NULL
  NameOf,       \* comp->name, as zipc_component_setlname and _new truncate it
  KeyOf         \* zipc_component_hash_key of a name, modulo the size

VARIABLES
  index,        \* per key, the chain of nodes from its head; a node is its component
  count,        \* ht->count
  look,         \* the lookup under way: its name and the node it visits
  found,        \* what the last lookup returned
  since,        \* the components registered since that lookup began, without a gap
  fault
vars == <<index, count, look, found, since, fault>>

Keys == {KeyOf[n] : n \in Names}

\* zcrt_hash_new.
Init == /\ index = [k \in Keys |-> <<>>] /\ count = 0
        /\ look = None /\ found = None /\ since = {} /\ fault = "none"

Chain(c) == index[KeyOf[NameOf[c]]]
Listed == UNION {Range(index[k]) : k \in Keys}

\* zcrt_hash_lookup in one go, by the thread that registers: the position of the
\* first node of that name in a chain, or 0, and its component.
NodeOf(s, n) == SelectInSeq(s, LAMBDA x : NameOf[x] = n)
Holder(s, n) == LET k == NodeOf(s, n) IN IF k = 0 THEN None ELSE s[k]
Registered(n) == NodeOf(index[KeyOf[n]], n) # 0

\* zcrt_hash_add, at the head of the chain.
\* Mutant: the new head is not linked to the chain.
HashAddDrops(s, c) == <<c>>

HashAdd(s, c) == <<c>> \o s

\* zipc_server_register, zipc_component_register: a name that is taken is refused.
Register(c) ==
  /\ ~Registered(NameOf[c])
  /\ index' = [index EXCEPT ![KeyOf[NameOf[c]]] = HashAdd(@, c)]
  /\ count' = count + 1
  /\ UNCHANGED <<look, found, since, fault>>

\* zcrt_hash_remove: the first node whose name is that of c, the head or a later one.
HashRemove(s, n) == IF NodeOf(s, n) = 0 THEN s ELSE RemoveAt(s, NodeOf(s, n))

\* zipc_server_unregister, which removes by the name.
Unregister(c) ==
  /\ LET k == KeyOf[NameOf[c]]
         s == HashRemove(index[k], NameOf[c])
     IN /\ index' = [index EXCEPT ![k] = s]
        /\ count' = count - (Len(index[k]) - Len(s))
        /\ since' = since \ (Range(index[k]) \ Range(s))
        /\ look' = IF look # None /\ look.node \in Range(index[k]) \ Range(s)
                   THEN [look EXCEPT !.node = "freed"] ELSE look
  /\ UNCHANGED <<found, fault>>

\* zcrt_hash_lookup for zipc_parase_lookup_comp: the head of the chain is read ...
LookStart(n) ==
  /\ look = None
  /\ look' = [name |-> n, node |-> IF index[KeyOf[n]] = <<>> THEN None ELSE Head(index[KeyOf[n]])]
  /\ since' = Listed
  /\ UNCHANGED <<index, count, found, fault>>

\* ... and each node compared, until one has the name or the chain ends.
Past(s, n) == LET i == CHOOSE i \in DOMAIN s : s[i] = n IN IF i = Len(s) THEN None ELSE s[i + 1]

LookVisit ==
  /\ look # None
  /\ IF look.node = "freed" THEN fault' = "freed" /\ UNCHANGED <<look, found>>
     ELSE IF look.node = None \/ NameOf[look.node] = look.name
     THEN found' = look /\ look' = None /\ UNCHANGED fault
     ELSE look' = [look EXCEPT !.node = Past(Chain(look.node), look.node)] /\ UNCHANGED <<found, fault>>
  /\ UNCHANGED <<index, count, since>>

Next ==
  /\ fault = "none"
  /\ \/ \E c \in Comps : Register(c) \/ Unregister(c)
     \/ \E n \in Names : LookStart(n)
     \/ LookVisit

Spec == Init /\ [][Next]_vars

-----------------------------------------------------------------------------
\* count is the number of nodes, none is in two chains or in a wrong one.
CountExact ==
  /\ count = Cardinality(Listed)
  /\ \A k \in Keys : /\ IsInjective(index[k])
                     /\ \A i \in DOMAIN index[k] : KeyOf[NameOf[index[k][i]]] = k

\* The lookup of a message's component finds it whenever it was registered all the
\* time of the lookup, whatever is registered beside it, and finds no other.
LookupFinds ==
  found # None /\ look = None =>
    IF found.node = None THEN \A c \in since : NameOf[c] # found.name
    ELSE NameOf[found.node] = found.name

\* The table holds one component of a name, the first one registered.
Map == INSTANCE ComponentMap WITH map <- [n \in Names |-> Holder(index[KeyOf[n]], n)]
=============================================================================
