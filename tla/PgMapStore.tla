------------------------------ MODULE PgMapStore ------------------------------
(***************************************************************************)
(* What the query maps of a Server promise to the scrapes that use them    *)
(* (mappingMtx in collector/postgres/collector.go): a scrape uses maps     *)
(* that are whole, and they stay as they are until it has finished.  A     *)
(* rebuild withdraws the maps, which nobody may be using, and publishes    *)
(* new ones; the scrapes that waited meanwhile come in with them.          *)
(***************************************************************************)
CONSTANTS
  Objects,     \* the Server objects
  Users,       \* the scrapes
  Value,       \* the maps there can be: whole ones only
  Empty,       \* no maps were built yet
  Withdrawn    \* they are being rebuilt

VARIABLES
  store,       \* the maps of each object
  using        \* the scrapes that use them

vars == <<store, using>>

TypeOK ==
  /\ store \in [Objects -> Value \cup {Empty, Withdrawn}]
  /\ using \in [Objects -> SUBSET Users]

Init ==
  /\ store = [o \in Objects |-> Empty]
  /\ using = [o \in Objects |-> {}]

BeginUse(o, u) ==
  /\ store[o] # Withdrawn
  /\ using' = [using EXCEPT ![o] = @ \cup {u}]
  /\ UNCHANGED store

\* The object may be garbage by then, and is as good as new.
EndUse(o, u) ==
  /\ u \in using[o]
  /\ using' = [using EXCEPT ![o] = @ \ {u}]
  /\ \/ UNCHANGED store
     \/ using'[o] = {} /\ store' = [store EXCEPT ![o] = Empty]

Withdraw(o) ==
  /\ using[o] = {}
  /\ store' = [store EXCEPT ![o] = Withdrawn]
  /\ UNCHANGED using

Publish(o) ==
  /\ store[o] = Withdrawn
  /\ \E v \in Value : store' = [store EXCEPT ![o] = v]
  /\ \E waiting \in SUBSET Users : using' = [using EXCEPT ![o] = @ \cup waiting]

Discard(o) ==
  /\ using[o] = {}
  /\ store' = [store EXCEPT ![o] = Empty]
  /\ UNCHANGED using

Next ==
  \E o \in Objects :
    \/ \E u \in Users : BeginUse(o, u) \/ EndUse(o, u)
    \/ Withdraw(o) \/ Publish(o) \/ Discard(o)

Spec == Init /\ [][Next]_vars

\* No scrape uses maps that are being rebuilt.
NoUseOfWithdrawn == \A o \in Objects : using[o] # {} => store[o] # Withdrawn

\* The maps do not change while somebody uses them.
StableWhileUsed ==
  [][\A o \in Objects : using[o] # {} /\ using'[o] # {} => store'[o] = store[o]]_vars
=============================================================================
