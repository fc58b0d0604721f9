--------------------------- MODULE ServiceRegistrer ---------------------------
(***************************************************************************)
(* The singleton that registers services with the SDP daemon               *)
(* (src/ServiceRegistrer.cpp, include/ServiceRegistrer.h): a map from      *)
(* uuids to records, and one session with the daemon.                      *)
(*                                                                         *)
(* The map is a std::map ordered by uuid_struct's operator<, which is not  *)
(* a strict weak order: of two keys each can be less than the other.  What *)
(* a lookup finds, and what an insertion does, then depends on the search  *)
(* tree, so that is modelled: the tree of libstdc++, for up to three       *)
(* entries.                                                                *)
(***************************************************************************)
EXTENDS Naturals, Sequences, SequencesExt

CONSTANTS
  Keys,             \* uuids, as sequences of their fields
  MaxRegistrations  \* bound of the model: records ever registered

ASSUME RegistrerAssumption ==
  /\ Keys \subseteq Seq(Nat)
  /\ \A j, k \in Keys : Len(j) = Len(k)
  /\ MaxRegistrations \in Nat

NULL == 0
MaxEntries == 3     \* bound of the model: size() of the map

VARIABLES
  serviceMap,   \* the entries [key, record] of the map in the tree's order
  root,         \* the index of the entry at the root, 0 of an empty tree
  lost,         \* the entry an insertion has overwritten, if any
  orphan,       \* its parent was erased since
  session,      \* "none" (0), "open", or "closed" but still pointed to
  daemon,       \* the records [key, record] the daemon has
  registered,   \* the number of records registered so far
  abandoned,    \* history: the records the daemon has refused to give up
  process       \* "running", "exited", or "crashed" in undefined behaviour

mapVars == <<serviceMap, root, lost, orphan>>
vars == <<serviceMap, root, lost, orphan, session, daemon, registered, abandoned, process>>

Init ==
  /\ serviceMap = <<>>
  /\ root = 0
  /\ lost = {}
  /\ orphan = FALSE
  /\ session = "none"
  /\ daemon = {}
  /\ registered = 0
  /\ abandoned = {}
  /\ process = "running"

-----------------------------------------------------------------------------
(* The map *)

\* Mutant: only the first field is compared.
LessByFirst(j, k) == j[1] < k[1]

\* operator< of uuid_struct
Less(j, k) == \E f \in DOMAIN j : j[f] < k[f]

\* lower_bound(): the walk from the root, whose subtrees are single entries;
\* Len(serviceMap) + 1 is end().
LowerBound(k) ==
  LET Below(i) == i \in DOMAIN serviceMap /\ Less(serviceMap[i].key, k)
      last == Len(serviceMap) + 1
  IN IF serviceMap = <<>> THEN last
     ELSE IF Below(root)
          THEN IF root + 1 < last /\ ~Below(root + 1) THEN root + 1 ELSE last
          ELSE IF root > 1 /\ ~Below(root - 1) THEN root - 1 ELSE root

\* find(k) # end(), and serviceMap[k] finds an entry and does not insert one.
Found(k) ==
  LET i == LowerBound(k)
  IN i \in DOMAIN serviceMap /\ ~Less(k, serviceMap[i].key)

\* The last entry that is less than k becomes the parent of its node, unless
\* it has a right child.  The two are then compared once more, and if k is
\* less as well it becomes the left child ...
GoesLeft(k) ==
  LET p == LowerBound(k) - 1
  IN /\ p \in DOMAIN serviceMap
     /\ p # root \/ p = Len(serviceMap)
     /\ Less(k, serviceMap[p].key)

\* ... in the place of the one that is there, which only a root can have.
Overwrites(k) == GoesLeft(k) /\ LowerBound(k) - 1 = root /\ root > 1

Overwrite(k, record) ==
  /\ serviceMap' = [serviceMap EXCEPT ![root - 1] = [key |-> k, record |-> record]]
  /\ lost' = {serviceMap[root - 1]}
  /\ UNCHANGED root

\* The node gets a place of its own, and three are balanced.
Link(k, record) ==
  LET i == IF GoesLeft(k) THEN LowerBound(k) - 1 ELSE LowerBound(k)
      n == Len(serviceMap)
  IN /\ serviceMap' = InsertAt(serviceMap, i, [key |-> k, record |-> record])
     /\ root' = IF n = 0 \/ (n = 1 /\ i = 2) THEN 1 ELSE 2
     /\ UNCHANGED lost

\* size(), which counts what was overwritten; the bound leaves room for one.
Size == IF lost = {} THEN Len(serviceMap) ELSE Len(serviceMap) + 1

\* The map's header still takes what was overwritten for the first entry: what
\* goes before the first is compared with the header.
ReadsHeader(k) == lost # {} /\ LowerBound(k) = 1

\* serviceMap[k] = record, for a key that is not found
Insert(k, record) ==
  /\ Size < MaxEntries
  /\ ~ReadsHeader(k)
  /\ IF Overwrites(k) THEN Overwrite(k, record) ELSE Link(k, record)
  /\ UNCHANGED orphan

\* serviceMap.erase(it): a root with two children is replaced by its
\* successor.  The parent of what was overwritten is the root it was under.
Erase(i) ==
  /\ serviceMap' = RemoveAt(serviceMap, i)
  /\ root' = CASE Len(serviceMap) = 3 -> IF i = 1 THEN 1 ELSE 2
               [] Len(serviceMap) = 2 -> 1
               [] OTHER -> 0
  /\ orphan' = (orphan \/ (lost # {} /\ i = root))
  /\ UNCHANGED lost

-----------------------------------------------------------------------------
(* registerService() *)

\* Mutant: whether the service is there already is not asked.
RegisterUnasked(k) ==
  /\ session # "closed"
  /\ registered < MaxRegistrations
  /\ registered' = registered + 1
  /\ daemon' = daemon \cup {[key |-> k, record |-> registered']}
  /\ IF Found(k)
     THEN /\ serviceMap' = [serviceMap EXCEPT ![LowerBound(k)].record = registered']
          /\ UNCHANGED <<root, lost, orphan>>
     ELSE Insert(k, registered')
  /\ session' = "open"
  /\ UNCHANGED <<abandoned, process>>

\* registerRecord() opens the session if there is none, and the daemon takes
\* the record.
Register(k) ==
  /\ ~Found(k)
  /\ session # "closed"
  /\ registered < MaxRegistrations
  /\ registered' = registered + 1
  /\ daemon' = daemon \cup {[key |-> k, record |-> registered']}
  /\ Insert(k, registered')
  /\ session' = "open"
  /\ UNCHANGED <<abandoned, process>>

\* registerRecord() throws.  Which operand of `serviceMap[uuidKey] = ...' is
\* evaluated first is unspecified: the entry may be there already, and NULL.
Throws(k) ==
  /\ Insert(k, NULL) \/ UNCHANGED mapVars
  /\ UNCHANGED <<registered, abandoned, process>>

\* sdp_connect() fails.
ConnectFails(k) ==
  /\ ~Found(k)
  /\ session = "none"
  /\ Throws(k)
  /\ UNCHANGED <<session, daemon>>

\* sdp_record_register() fails: the session is closed and the daemon forgets
\* what was registered in it.
RegisterFails(k) ==
  /\ ~Found(k)
  /\ session' = "closed"
  /\ daemon' = {}
  /\ Throws(k)

-----------------------------------------------------------------------------
(* unregisterService() and the destructor *)

Entry(k) == serviceMap[LowerBound(k)]
HasRecord(entry) == \E x \in daemon : x.record = entry.record

\* Mutant: the entry is not erased.
UnregisterKeepsEntry(k) ==
  /\ session # "none"
  /\ Found(k)
  /\ session = "open" => HasRecord(Entry(k))
  /\ Entry(k).record # NULL
  /\ daemon' = {x \in daemon : x.record # Entry(k).record}
  /\ UNCHANGED <<mapVars, session, registered, abandoned, process>>

\* sdp_record_unregister() ends with success, or, when the session is closed,
\* with an error that nobody looks at.
Unregister(k) ==
  /\ session # "none"
  /\ Found(k)
  /\ session = "open" => HasRecord(Entry(k))
  /\ Entry(k).record # NULL
  /\ daemon' = {x \in daemon : x.record # Entry(k).record}
  /\ Erase(LowerBound(k))
  /\ UNCHANGED <<session, registered, abandoned, process>>

\* The daemon refuses: the record stays, the entry goes.
UnregisterFails(k) ==
  /\ session = "open"
  /\ Found(k)
  /\ HasRecord(Entry(k))
  /\ Erase(LowerBound(k))
  /\ abandoned' = abandoned \cup {Entry(k)}
  /\ UNCHANGED <<session, daemon, registered, process>>

\* What the loop of the destructor comes by: it begins with what was
\* overwritten and goes on with its parent.
Visited ==
  IF lost = {} THEN Range(serviceMap)
  ELSE lost \cup {serviceMap[p] : p \in {q \in DOMAIN serviceMap : q >= root}}

\* A session that is closed is used, a record that is NULL or freed, the map's
\* header as if it were an entry, or an entry that was erased.
Undefined ==
  \/ session = "closed"
  \/ session # "none" /\ \E k \in Keys : Found(k) /\ ~HasRecord(Entry(k))
  \/ \E k \in Keys : ~Found(k) /\ ReadsHeader(k)
  \/ orphan
  \/ \E entry \in Visited : ~HasRecord(entry)

\* register or unregister, or ~ServiceRegistrer(), runs into that.
Crash ==
  /\ Undefined
  /\ process' = "crashed"
  /\ daemon' = {}
  /\ UNCHANGED <<mapVars, session, registered, abandoned>>

\* ~ServiceRegistrer(): the records are unregistered and the session closed.
Exit ==
  /\ orphan \/ \A entry \in Visited : entry.record # NULL
  /\ process' = "exited"
  /\ daemon' = {}
  /\ session' = IF session = "none" THEN "none" ELSE "closed"
  /\ UNCHANGED <<mapVars, registered, abandoned>>

Next ==
  \/ /\ process = "running"
     /\ \/ \E k \in Keys : \/ Register(k)
                           \/ ConnectFails(k)
                           \/ RegisterFails(k)
                           \/ Unregister(k)
                           \/ UnregisterFails(k)
        \/ Crash
        \/ Exit
  \/ process # "running" /\ UNCHANGED vars

SafeSpec == Init /\ [][Next]_vars

-----------------------------------------------------------------------------

TypeOK ==
  /\ serviceMap \in Seq([key : Keys, record : Nat])
  /\ Size <= MaxEntries
  /\ root \in (IF serviceMap = <<>> THEN {0} ELSE DOMAIN serviceMap)
  /\ lost \subseteq [key : Keys, record : Nat]
  /\ orphan \in BOOLEAN
  /\ session \in {"none", "open", "closed"}
  /\ registered \in Nat
  /\ daemon \subseteq [key : Keys, record : 1 .. registered]
  /\ abandoned \subseteq [key : Keys, record : Nat]
  /\ process \in {"running", "exited", "crashed"}

\* The tree of three entries is balanced.
Balanced == Len(serviceMap) = MaxEntries => root = 2

Contradicts(j, k) == Less(j, k) /\ Less(k, j)

\* operator< orders the key k among all others ...
Orderly(k) == k \in Keys /\ \A j \in Keys : ~Contradicts(j, k)

\* ... and then the map is in order as far as k is concerned: the entries that
\* are not less than k come after those that are not greater.
InOrderFor(k) ==
  \A i, j \in DOMAIN serviceMap :
    i < j => Less(serviceMap[i].key, k) \/ Less(k, serviceMap[j].key)

\* Only keys that contradict each other make an insertion overwrite an entry.
LostByContradiction ==
  /\ lost # {} => \E j, k \in Keys : Contradicts(j, k)
  /\ orphan => lost # {}

\* A record has one entry, and one that was lost or given up has none.
EachOnce ==
  \A i \in DOMAIN serviceMap : serviceMap[i].record # NULL =>
    /\ \A j \in DOMAIN serviceMap : serviceMap[i].record = serviceMap[j].record => i = j
    /\ \A x \in lost \cup abandoned : x.record # serviceMap[i].record

\* The records that were registered through an entry of the map, whether or
\* not a lookup can still come by it.
Held == {x \in Range(serviceMap) \cup lost : x.record # NULL}

\* While the session is open the daemon has these records and those it has not
\* given up, and no others.
DaemonHasMap ==
  IF process = "running" /\ session # "closed" THEN daemon = Held \cup abandoned
                                               ELSE daemon = {}

\* Undefined behaviour takes a session that was closed, an entry without a
\* record, or one that was overwritten.
CrashHasCause ==
  process = "crashed" =>
    \/ session = "closed"
    \/ lost # {}
    \/ \E x \in Range(serviceMap) : x.record = NULL

(***************************************************************************)
(* Types; the map is in order for the keys that can be ordered, whatever   *)
(* the other keys in it make of lookups and insertions; entries are lost   *)
(* only by contradictory keys; map and daemon agree, after failures too,   *)
(* as long as the session is not closed; and undefined behaviour has one   *)
(* of three causes.  The invariant is inductive.                           *)
(***************************************************************************)
RegistrerInv ==
  /\ TypeOK
  /\ Balanced
  /\ \A k \in Keys : Orderly(k) => InOrderFor(k)
  /\ LostByContradiction
  /\ \A x \in Range(serviceMap) \cup lost \cup abandoned : x.record <= registered
  /\ EachOnce
  /\ DaemonHasMap
  /\ CrashHasCause

(***************************************************************************)
(* Unregistering a service takes no other one off the daemon: a key that   *)
(* is found is equal to the one looked for, in spite of operator<.         *)
(***************************************************************************)
UnregistersOnlyItself ==
  [][\A k \in Keys : Unregister(k) => \A x \in daemon \ daemon' : x.key = k]_vars

(***************************************************************************)
(* A service whose key operator< can order is registered twice only when   *)
(* the daemon has refused to unregister it, or when other keys, which      *)
(* contradict each other, have made an insertion overwrite its entry: it   *)
(* is not enough that the map holds such keys.                             *)
(***************************************************************************)
TwiceOnlyIfContradictory ==
  \A x, y \in daemon : x.key = y.key /\ x # y =>
    \/ ~Orderly(x.key)
    \/ \E z \in lost \cup abandoned : z.key = x.key

(***************************************************************************)
(* src/ServiceRegistrer.cpp:4 says of registerService(): "Register new     *)
(* service if such does not exist".  It fails: the lookup can miss a       *)
(* service that is registered.                                             *)
(***************************************************************************)
RegistersOnlyNew ==
  \A x, y \in daemon : x.key = y.key => x = y \/ \E z \in abandoned : z.key = x.key
=============================================================================
