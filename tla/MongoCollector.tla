--------------------------- MODULE MongoCollector ---------------------------
(***************************************************************************)
(* The MongoDB exporter (collector/mongodb).  Its metrics are package      *)
(* variables, so the Collects of overlapping requests share them.  Collect *)
(* goes through its parts in a fixed order, those its options enable; each *)
(* fills vectors of metrics from the reply of a command and sends what     *)
(* they hold.  The parts differ in when they reset their vectors:          *)
(*   - after they have sent them, for each item of the reply: databases,   *)
(*     collections, profiles, hosts (and mongodb_up);                      *)
(*   - before they fill them: the replica set status;                      *)
(*   - never: all others.                                                  *)
(* One vector stands for the vectors of a part, and a series is known by   *)
(* the label the reply has given it.                                       *)
(*                                                                         *)
(* Any command may fail: the session outlives the server it was opened to, *)
(* and a failure is logged and its metrics are not sent.  An operation on  *)
(* a vector is one step, by the vector's own lock; that a series is made   *)
(* and set in two, and read after it was sent, is left out, as are the     *)
(* values of the metrics and the counters of the oplog tailer.             *)
(***************************************************************************)
EXTENDS Naturals, Sequences

CONSTANTS
  Collects,        \* the requests in flight
  Options,         \* the parts that are switched on
  Items,           \* of each part, what MongoDB may have to tell of
  MaxTailers       \* no more tailers are counted: a bound of the model

\* Mutant: the members of the last reply stay.
ReplSetStatusKept == "never"

\* The parts, by when they reset their vectors.
ServerStatus == "never"
ReplSetStatus == "before"
ReplSetConf == "never"
OplogStatus == "never"
OplogTailStats == "never"
TopStatus == "never"
DatabaseStatus == "after"
CollectionStatus == "after"
ProfileStatus == "after"
ConnPoolStats == "after"

Resets ==
  [server |-> ServerStatus, replset |-> ReplSetStatus, conf |-> ReplSetConf,
   oplog |-> OplogStatus, tail |-> OplogTailStats, top |-> TopStatus,
   database |-> DatabaseStatus, collection |-> CollectionStatus,
   profile |-> ProfileStatus, connpool |-> ConnPoolStats]

PartName == DOMAIN Resets

ASSUME MongoAssumption ==
  /\ Options \subseteq PartName
  /\ "server" \in Options
  /\ "replset" \in Options <=> "conf" \in Options
  /\ \A part \in PartName : {"admin", "test"} \cap Items[part] = {}
  /\ MaxTailers \in Nat \ {0}

IfEnabled(part) == IF part \in Options THEN <<part>> ELSE <<>>

\* What a Collect goes through.
Parts ==
  <<"server">> \o IfEnabled("replset") \o IfEnabled("conf") \o IfEnabled("oplog")
    \o IfEnabled("tail") \o IfEnabled("top") \o IfEnabled("database")
    \o IfEnabled("collection") \o IfEnabled("profile") \o IfEnabled("connpool")

VARIABLES
  \* The Collects.
  pc,
  session,      \* MongoSession returned one
  at,           \* the part it is at, an index of Parts
  todo,         \* the items it has still to go through
  chunk,        \* the ones it has still to set before it sends the vector
  sent,         \* the series it has sent
  twice,        \* it has sent one of them twice
  \* The package.
  upGauge,      \* the values in the vector: one or none
  vec,          \* the series in the vector of each part
  tailers,      \* the tailing goroutines; there is one when tailer # nil
  tailing       \* tailer # nil

collectVars == <<pc, session, at, todo, chunk, sent, twice>>
packageVars == <<upGauge, vec, tailers, tailing>>
vars == <<collectVars, packageVars>>

Up == {"up"} \X {0, 1}
Series == Up \cup UNION {{part} \X Items[part] : part \in PartName}
AllItems == UNION {Items[part] : part \in PartName}

PC == {"idle", "dial", "upset", "upcollect", "upreset", "ask", "resetfirst", "fill",
       "next", "clear", "tailcheck", "tailstart", "end"}

TypeOK ==
  /\ pc \in [Collects -> PC]
  /\ session \in [Collects -> BOOLEAN]
  /\ at \in [Collects -> 1..Len(Parts)]
  /\ todo \in [Collects -> SUBSET AllItems]
  /\ chunk \in [Collects -> SUBSET AllItems]
  /\ sent \in [Collects -> SUBSET Series]
  /\ twice \in [Collects -> BOOLEAN]
  /\ upGauge \in SUBSET {0, 1}
  /\ DOMAIN vec = PartName
  /\ \A part \in PartName : vec[part] \subseteq Items[part]
  /\ tailers \in 0..MaxTailers
  /\ tailing \in BOOLEAN

Init ==
  /\ pc = [c \in Collects |-> "idle"]
  /\ session = [c \in Collects |-> FALSE]
  /\ at = [c \in Collects |-> 1]
  /\ todo = [c \in Collects |-> {}]
  /\ chunk = [c \in Collects |-> {}]
  /\ sent = [c \in Collects |-> {}]
  /\ twice = [c \in Collects |-> FALSE]
  /\ upGauge = {}
  /\ vec = [part \in PartName |-> {}]
  /\ tailers = 0
  /\ tailing = FALSE

-----------------------------------------------------------------------------
Goto(c, label) == pc' = [pc EXCEPT ![c] = label]

Part(c) == Parts[at[c]]

Begin(c, i) ==
  /\ at' = [at EXCEPT ![c] = i]
  /\ Goto(c, IF Parts[i] = "tail" THEN "tailcheck" ELSE "ask")

NextPart(c) ==
  IF at[c] < Len(Parts) THEN Begin(c, at[c] + 1)
  ELSE Goto(c, "end") /\ UNCHANGED at

\* GaugeVec.Collect sends each of the series the vector holds.
Send(c, series) ==
  /\ sent' = [sent EXCEPT ![c] = @ \cup series]
  /\ twice' = [twice EXCEPT ![c] = @ \/ series \cap sent[c] # {}]

(***************************************************************************)
(* MongoSession and mongodb_up.                                            *)
(***************************************************************************)
Start(c) ==
  /\ pc[c] = "idle"
  /\ Goto(c, "dial")
  /\ UNCHANGED <<session, at, todo, chunk, sent, twice, packageVars>>

Dial(c) ==
  /\ pc[c] = "dial"
  /\ \E ok \in BOOLEAN : session' = [session EXCEPT ![c] = ok]
  /\ Goto(c, "upset")
  /\ UNCHANGED <<at, todo, chunk, sent, twice, packageVars>>

UpValue(c) == IF session[c] THEN 1 ELSE 0

SetUp(c) ==
  /\ pc[c] = "upset"
  /\ upGauge' = {UpValue(c)}
  /\ Goto(c, "upcollect")
  /\ UNCHANGED <<session, at, todo, chunk, sent, twice, vec, tailers, tailing>>

CollectUp(c) ==
  /\ pc[c] = "upcollect"
  /\ Send(c, {"up"} \X upGauge)
  /\ Goto(c, "upreset")
  /\ UNCHANGED <<session, at, todo, chunk, packageVars>>

ResetUp(c) ==
  /\ pc[c] = "upreset"
  /\ upGauge' = {}
  /\ IF session[c] THEN Begin(c, 1) ELSE Goto(c, "end") /\ UNCHANGED at
  /\ UNCHANGED <<session, todo, chunk, sent, twice, vec, tailers, tailing>>

(***************************************************************************)
(* A part: the command that names its items ...                            *)
(***************************************************************************)
PerDatabase == {"database", "collection", "profile"}

\* Mutant: no database is passed over.
AllNames(part, names) == names
WithoutSystem(part, names) ==
  IF part \in PerDatabase THEN names \ {"admin", "test"} ELSE names

Names(part) == Items[part] \cup (IF part \in PerDatabase THEN {"admin", "test"} ELSE {})

Ask(c) ==
  /\ pc[c] = "ask"
  /\ \E names \in SUBSET Names(Part(c)) :
       LET items == WithoutSystem(Part(c), names) IN
       IF Resets[Part(c)] = "after"
       THEN todo' = [todo EXCEPT ![c] = items] /\ UNCHANGED chunk
       ELSE chunk' = [chunk EXCEPT ![c] = items] /\ UNCHANGED todo
  /\ Goto(c, CASE Resets[Part(c)] = "after" -> "next"
               [] Resets[Part(c)] = "before" -> "resetfirst"
               [] OTHER -> "fill")
  /\ UNCHANGED <<session, at, sent, twice, packageVars>>

AskFails(c) ==
  /\ pc[c] = "ask"
  /\ NextPart(c)
  /\ UNCHANGED <<session, todo, chunk, sent, twice, packageVars>>

ResetFirst(c) ==
  /\ pc[c] = "resetfirst"
  /\ vec' = [vec EXCEPT ![Part(c)] = {}]
  /\ Goto(c, "fill")
  /\ UNCHANGED <<session, at, todo, chunk, sent, twice, upGauge, tailers, tailing>>

(***************************************************************************)
(* ... and Export: WithLabelValues(...).Set for one after the other, then  *)
(* Collect.                                                                *)
(***************************************************************************)
Fill(c) ==
  /\ pc[c] = "fill"
  /\ \E i \in chunk[c] :
       /\ vec' = [vec EXCEPT ![Part(c)] = @ \cup {i}]
       /\ chunk' = [chunk EXCEPT ![c] = @ \ {i}]
  /\ UNCHANGED <<pc, session, at, todo, sent, twice, upGauge, tailers, tailing>>

CollectVec(c) ==
  /\ pc[c] = "fill"
  /\ chunk[c] = {}
  /\ Send(c, {Part(c)} \X vec[Part(c)])
  /\ IF Resets[Part(c)] = "after" THEN Goto(c, "clear") /\ UNCHANGED at
     ELSE NextPart(c)
  /\ UNCHANGED <<session, todo, chunk, packageVars>>

(***************************************************************************)
(* A part that resets afterwards does so for each of its items, unless the *)
(* command that asks for the item fails.                                   *)
(***************************************************************************)
NextItem(c) ==
  /\ pc[c] = "next"
  /\ \E i \in todo[c] :
       /\ todo' = [todo EXCEPT ![c] = @ \ {i}]
       /\ \/ /\ chunk' = [chunk EXCEPT ![c] = {i}]
             /\ Goto(c, "fill")
          \/ UNCHANGED <<pc, chunk>>
  /\ UNCHANGED <<session, at, sent, twice, packageVars>>

\* Mutant: the vector is not reset.
NotCleared(c) == vec[Part(c)]
Cleared(c) == {}

Clear(c) ==
  /\ pc[c] = "clear"
  /\ vec' = [vec EXCEPT ![Part(c)] = Cleared(c)]
  /\ Goto(c, "next")
  /\ UNCHANGED <<session, at, todo, chunk, sent, twice, upGauge, tailers, tailing>>

EndItems(c) ==
  /\ pc[c] = "next"
  /\ todo[c] = {}
  /\ NextPart(c)
  /\ UNCHANGED <<session, todo, chunk, sent, twice, packageVars>>

(***************************************************************************)
(* GetOplogTailStats: tailer is compared and set without a lock.           *)
(***************************************************************************)
CheckTailer(c) ==
  /\ pc[c] = "tailcheck"
  /\ IF tailing THEN NextPart(c) ELSE Goto(c, "tailstart") /\ UNCHANGED at
  /\ UNCHANGED <<session, todo, chunk, sent, twice, packageVars>>

StartTailer(c) ==
  /\ pc[c] = "tailstart"
  /\ tailing' = TRUE
  /\ tailers' = IF tailers < MaxTailers THEN tailers + 1 ELSE tailers
  /\ NextPart(c)
  /\ UNCHANGED <<session, todo, chunk, sent, twice, upGauge, vec>>

\* The session is closed, and the metrics go to the reader.
Return(c) ==
  /\ pc[c] = "end"
  /\ Goto(c, "idle")
  /\ session' = [session EXCEPT ![c] = FALSE]
  /\ at' = [at EXCEPT ![c] = 1]
  /\ sent' = [sent EXCEPT ![c] = {}]
  /\ twice' = [twice EXCEPT ![c] = FALSE]
  /\ UNCHANGED <<todo, chunk, packageVars>>

-----------------------------------------------------------------------------
CollectStep(c) ==
  \/ Start(c) \/ Dial(c) \/ SetUp(c) \/ CollectUp(c) \/ ResetUp(c)
  \/ Ask(c) \/ AskFails(c) \/ ResetFirst(c) \/ Fill(c) \/ CollectVec(c)
  \/ NextItem(c) \/ Clear(c) \/ EndItems(c)
  \/ CheckTailer(c) \/ StartTailer(c)
  \/ Return(c)

Next == \E c \in Collects : CollectStep(c)

Spec == Init /\ [][Next]_vars

-----------------------------------------------------------------------------
\* Overlapping Collects leave nothing in the vectors that are reset after use, which the
\* next Collect would send as its own (Collect and the Export methods).
NothingLeftBehind ==
  (\A c \in Collects : pc[c] = "idle") =>
    /\ upGauge = {}
    /\ \A part \in PerDatabase \cup {"connpool"} : vec[part] = {}
=============================================================================
