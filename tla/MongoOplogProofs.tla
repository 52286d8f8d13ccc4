--------------------------- MODULE MongoOplogProofs ---------------------------
(***************************************************************************)
(* Proofs about MongoOplog, for any number of overlapping Collects, any    *)
(* oplog, any number of workers and any losses of a tailer's cursor: the   *)
(* window that is sent, and that a tailer neither skips an entry nor has   *)
(* one of its workers count it twice.                                      *)
(***************************************************************************)
EXTENDS MongoOplog, SequenceTheorems, FiniteSetTheorems, TLAPS

\* Before a Collect has read an end of the oplog, it remembers none.
Unread ==
  \A c \in Collects :
    /\ pc[c] \in {"idle", "stats", "head", "tailstart", "end"} => head[c] = 0 /\ tail[c] = 0
    /\ pc[c] = "tail" => tail[c] = 0

Alone ==
  \A c \in Collects :
    solo[c] => pc[c] # "idle" /\ \A d \in Collects \ {c} : pc[d] = "idle"

\* What a Collect that is alone has read lies between the oplog of its start and that of now.
Window(c) ==
  /\ began[c].oldest <= oldest /\ began[c].newest <= newest
  /\ head[c] # 0 =>
       /\ Second(began[c].oldest) <= head[c]
       /\ head[c] <= Second(oldest) /\ head[c] <= Second(newest)
  /\ tail[c] # 0 => Second(began[c].newest) <= tail[c] /\ tail[c] <= Second(newest)
  /\ BothRead(c) => head[c] <= tail[c]

\* And the gauges of the process have it from when it sets them to when it has sent them.
Sending(c) ==
  /\ pc[c] \in {"sethead", "settail"} => BothRead(c)
  /\ pc[c] = "settail" => headGauge = head[c]
  /\ pc[c] = "sendhead" /\ BothRead(c) => headGauge = head[c] /\ tailGauge = tail[c]
  /\ pc[c] = "sendtail" /\ BothRead(c) => headSent[c] = head[c] /\ tailGauge = tail[c]
  /\ pc[c] = "tailcheck" /\ BothRead(c) => headSent[c] = head[c] /\ tailSent[c] = tail[c]

SoloInv == \A c \in Collects : solo[c] => Window(c) /\ Sending(c)

IInv == TypeOK /\ Unread /\ Alone /\ SoloInv /\ NothingSkipped

-----------------------------------------------------------------------------
\* Seconds do not run back.
LEMMA SecondMonotone ==
  ASSUME NEW e \in Nat, NEW f \in Nat, e <= f
  PROVE  Second(e) \in Nat /\ Second(e) <= Second(f)
<1>1. PerSecond \in Nat /\ PerSecond > 0
  BY OplogAssumption
<1>2. ASSUME NEW a \in Nat, NEW b \in Nat, a <= b
      PROVE  a \div PerSecond <= b \div PerSecond /\ a \div PerSecond \in Nat
  BY <1>1, <1>2, SMTT(30)
<1>3. e + PerSecond - 1 \in Nat /\ f + PerSecond - 1 \in Nat
      /\ e + PerSecond - 1 <= f + PerSecond - 1
  BY <1>1
<1> QED BY <1>2, <1>3 DEF Second

\* The gauges can show the second of an entry, which is not 0.
LEMMA SecondInSeconds ==
  ASSUME NEW e \in Entry
  PROVE  Second(e) \in Seconds
<1> DEFINE P == PerSecond  q == (e + P - 1) \div P  r == MaxOp \div P
<1>1. P \in Nat /\ P > 0 /\ MaxOp \in Nat /\ e \in Nat /\ 1 <= e /\ e <= MaxOp
  BY OplogAssumption DEF Entry
<1>2. q \in Nat /\ r \in Nat /\ P * q <= e + P - 1 /\ MaxOp < P * r + P
  BY <1>1, SMTT(30)
<1>3. q <= r + 1
  BY <1>1, <1>2, SMTT(30)
<1> QED BY <1>2, <1>3 DEF Second, Seconds

\* What the gauges can show are numbers, 0 among them.
LEMMA SecondsFacts == 0 \in Seconds /\ Seconds \subseteq Nat
<1>1. PerSecond \in Nat /\ PerSecond > 0 /\ MaxOp \in Nat
  BY OplogAssumption
<1>2. MaxOp \div PerSecond \in Nat
  BY <1>1, SMTT(30)
<1> QED BY <1>2 DEF Seconds

\* What a Collect reads is 0 or the second of an entry of the oplog.
LEMMA ReadFacts ==
  ASSUME TypeOK, NEW b \in BOOLEAN, NEW ts \in Read(b)
  PROVE  /\ ts \in Seconds
         /\ ts # 0 => oldest <= newest /\ ts = (IF b THEN Second(newest) ELSE Second(oldest))
<1>1. oldest \in Nat /\ newest \in Nat /\ 1 <= oldest /\ newest <= MaxOp /\ MaxOp \in Nat
  BY OplogAssumption DEF TypeOK
<1>3. CASE ts = 0
  BY <1>3, SecondsFacts
<1>4. CASE ts # 0
  <2>1. oldest <= newest /\ ts = OplogTimestamp(b)
    BY <1>4 DEF Read
  <2>2. oldest \in Entry /\ newest \in Entry
    BY <1>1, <2>1 DEF Entry
  <2> QED BY <1>4, <2>1, <2>2, SecondInSeconds DEF OplogTimestamp
<1> QED BY <1>3, <1>4

-----------------------------------------------------------------------------
\* It holds of an empty oplog before the first Collect.
LEMMA InitInv == Init => IInv
<1> SUFFICES ASSUME Init PROVE IInv
  OBVIOUS
<1>1. MaxOp \in Nat /\ MaxErrors \in Nat /\ 0 \in Seconds
  BY OplogAssumption, SecondsFacts
<1>2. TypeOK
  <2>a. /\ oldest \in 1..(MaxOp + 1) /\ newest \in 0..MaxOp /\ oldest <= newest + 1
        /\ tailing \in BOOLEAN /\ tailErrors \in 0..MaxErrors
    <3>1. oldest = 1 /\ newest = 0 /\ tailErrors = 0
      BY DEF Init
    <3>2. tailing \in BOOLEAN
      BY DEF Init
    <3> QED BY <1>1, <3>1, <3>2
  <2>1. /\ opts \in OptionSets /\ pc \in [Collects -> PC]
        /\ stage \in [Collects -> {"off", "position", "tail", "broken"}]
        /\ solo \in [Collects -> BOOLEAN]
    BY DEF Init, PC
  <2>2. /\ head \in [Collects -> Seconds] /\ tail \in [Collects -> Seconds]
        /\ headSent \in [Collects -> Seconds] /\ tailSent \in [Collects -> Seconds]
        /\ headGauge \in Seconds /\ tailGauge \in Seconds
    BY <1>1 DEF Init
  <2>3. /\ entryCount \in [Entry -> Nat]
        /\ position \in [Collects -> 0..MaxOp] /\ from \in [Collects -> 0..MaxOp]
        /\ began \in [Collects -> [oldest : 1..(MaxOp + 1), newest : 0..MaxOp]]
    BY <1>1 DEF Init
  <2>4. passed \in [Collects -> Seq(Entry)] /\ \A t \in Collects : Len(passed[t]) = 0
    BY DEF Init
  <2>5. counted \in [Collects -> [Workers -> Nat]]
        /\ \A t \in Collects, w \in Workers : counted[t][w] = 0
    BY DEF Init
  <2>6. \A t \in Collects, w \in Workers : counted[t][w] <= Len(passed[t])
    BY <2>4, <2>5
  <2> QED BY <2>a, <2>1, <2>2, <2>3, <2>4, <2>5, <2>6 DEF TypeOK
<1>3. Unread /\ Alone /\ SoloInv
  BY DEF Init, Unread, Alone, SoloInv
<1>4. NothingSkipped
  <2>1. \A e \in Included : ~(0 < e /\ e <= 0)
    BY <1>1, OplogAssumption DEF Entry
  <2> QED BY <2>1 DEF Init, NothingSkipped
<1> QED BY <1>2, <1>3, <1>4 DEF IInv

\* Every step keeps the types: of the server, ...
LEMMA WriteTypes ==
  ASSUME TypeOK, Write
  PROVE  TypeOK' /\ oldest <= oldest' /\ newest <= newest'
<1>1. MaxOp \in Nat /\ OplogSize \in Nat \ {0}
  BY OplogAssumption
<1>2. /\ oldest' \in 1..(MaxOp + 1) /\ newest' \in 0..MaxOp /\ oldest' <= newest' + 1
      /\ oldest <= oldest' /\ newest <= newest'
  BY <1>1 DEF Write, TypeOK
<1>3. UNCHANGED <<opts, pc, statusVars, tailing, tailerVars, memory>>
  BY DEF Write
<1> QED BY <1>2, <1>3 DEF TypeOK, statusVars, tailerVars, memory

\* ... of a Collect, ...
LEMMA CollectTypes ==
  ASSUME TypeOK, NEW c \in Collects, CollectStep(c)
  PROVE  TypeOK'
<1>1. /\ pc' \in [Collects -> PC]
      /\ head' \in [Collects -> Seconds] /\ tail' \in [Collects -> Seconds]
      /\ headSent' \in [Collects -> Seconds] /\ tailSent' \in [Collects -> Seconds]
      /\ headGauge' \in Seconds /\ tailGauge' \in Seconds /\ tailing' \in BOOLEAN
      /\ stage' \in [Collects -> {"off", "position", "tail", "broken"}]
  <2>0. 0 \in Seconds
    BY ReadFacts DEF Read
  <2>a. /\ pc \in [Collects -> PC] /\ stage \in [Collects -> {"off", "position", "tail", "broken"}]
        /\ head \in [Collects -> Seconds] /\ tail \in [Collects -> Seconds]
        /\ headSent \in [Collects -> Seconds] /\ tailSent \in [Collects -> Seconds]
        /\ headGauge \in Seconds /\ tailGauge \in Seconds /\ tailing \in BOOLEAN
    BY DEF TypeOK
  <2>1. CASE Start(c) \/ CollectionStats(c)
    BY <2>a, <2>1 DEF Start, CollectionStats, Goto, PC, statusVars, tailerVars
  <2>2. CASE ReadHead(c)
    BY <2>2, ReadFacts DEF TypeOK, ReadHead, Goto, PC, tailerVars
  <2>3. CASE ReadTail(c)
    <3>1. PICK ts \in Read(TRUE) :
            /\ tail' = [tail EXCEPT ![c] = ts]
            /\ \E l \in PC : pc' = [pc EXCEPT ![c] = l]
      BY <2>3 DEF ReadTail, Goto, PC
    <3>2. ts \in Seconds
      BY ReadFacts
    <3>3. UNCHANGED <<head, headSent, tailSent, headGauge, tailGauge, tailing, tailerVars>>
      BY <2>3 DEF ReadTail
    <3> QED BY <2>a, <3>1, <3>2, <3>3 DEF tailerVars
  <2>4. CASE SetHead(c) \/ SetTail(c)
    <3>1. /\ \E l \in PC : pc' = [pc EXCEPT ![c] = l]
          /\ headGauge' \in {headGauge, head[c]} /\ tailGauge' \in {tailGauge, tail[c]}
          /\ UNCHANGED <<head, tail, headSent, tailSent, tailing, stage>>
      BY <2>4 DEF SetHead, SetTail, Goto, PC, tailerVars
    <3> QED BY <2>a, <3>1
  <2>5. CASE SendHead(c) \/ SendTail(c)
    <3>1. /\ \E l \in PC : pc' = [pc EXCEPT ![c] = l]
          /\ \/ headSent' = [headSent EXCEPT ![c] = headGauge] /\ tailSent' = tailSent
             \/ tailSent' = [tailSent EXCEPT ![c] = tailGauge] /\ headSent' = headSent
          /\ UNCHANGED <<head, tail, headGauge, tailGauge, tailing, stage>>
      BY <2>5 DEF SendHead, SendTail, Goto, PC, tailerVars
    <3> QED BY <2>a, <3>1
  <2>6. CASE CheckTailer(c)
    BY <2>0, <2>a, <2>6 DEF CheckTailer, Goto, PC, tailerVars
  <2>7. CASE StartTailer(c) \/ Return(c)
    <3>1. /\ \E l \in PC : pc' = [pc EXCEPT ![c] = l]
          /\ tailing' \in {tailing, TRUE}
          /\ \/ stage' = [stage EXCEPT ![c] = "position"]
             \/ stage' = stage
          /\ UNCHANGED <<head, tail, headSent, tailSent, headGauge, tailGauge>>
      BY <2>7 DEF StartTailer, Return, Goto, PC, statusVars, tailerVars
    <3> QED BY <2>a, <3>1
  <2> QED BY <2>1, <2>2, <2>3, <2>4, <2>5, <2>6, <2>7 DEF CollectStep
<1>2. UNCHANGED <<entryCount, tailErrors, position, passed, counted, from>>
  BY DEF CollectStep, Start, CollectionStats, ReadHead, ReadTail, SetHead, SetTail, SendHead,
         SendTail, CheckTailer, StartTailer, Return, tailerVars
<1>3. /\ solo' \in [Collects -> BOOLEAN]
      /\ began' \in [Collects -> [oldest : 1..(MaxOp + 1), newest : 0..MaxOp]]
  <2>1. solo' \in [Collects -> BOOLEAN]
    BY DEF CollectStep, Remember
  <2>2. MaxOp \in Nat
    BY OplogAssumption
  <2> QED BY <2>1, <2>2 DEF CollectStep, Remember, TypeOK
<1> QED BY <1>1, <1>2, <1>3 DEF TypeOK, CollectStep, mongoVars

\* ... and of a tailer.
LEMMA TailerTypes ==
  ASSUME TypeOK, NEW t \in Collects, TailerStep(t)
  PROVE  TypeOK' /\ UNCHANGED <<mongoVars, pc, statusVars, memory>>
<1>a. MaxOp \in Nat /\ MaxErrors \in Nat
  BY OplogAssumption
<1>1. CASE Position(t)
  BY <1>a, <1>1 DEF TypeOK, Position, mongoVars, statusVars, memory
<1>2. CASE TailOps(t)
  <2>1. PICK e \in OpLogQuery(t) : /\ passed' = [passed EXCEPT ![t] = Broadcast(t, e)]
                                   /\ position' = [position EXCEPT ![t] = e]
    BY <1>2 DEF TailOps
  <2>2. e \in Entry /\ e \in 0..MaxOp
    BY <1>a DEF TypeOK, OpLogQuery, Entry
  <2>3. /\ Broadcast(t, e) \in Seq(Entry)
        /\ Len(Broadcast(t, e)) \in Nat /\ Len(passed[t]) <= Len(Broadcast(t, e))
    <3>1. passed[t] \in Seq(Entry) /\ Len(passed[t]) \in Nat
      BY DEF TypeOK
    <3>2. Append(passed[t], e) \in Seq(Entry) /\ Len(Append(passed[t], e)) = Len(passed[t]) + 1
      BY <2>2, <3>1, AppendProperties
    <3> QED BY <3>1, <3>2 DEF Broadcast
  <2>4. passed' \in [Collects -> Seq(Entry)] /\ position' \in [Collects -> 0..MaxOp]
    BY <2>1, <2>2, <2>3 DEF TypeOK
  <2>5. UNCHANGED <<mongoVars, pc, statusVars, tailing, entryCount, tailErrors, stage,
                    counted, from, memory>>
    BY <1>2 DEF TailOps
  <2>6. \A u \in Collects, w \in Workers : counted'[u][w] <= Len(passed'[u])
    <3> SUFFICES ASSUME NEW u \in Collects, NEW w \in Workers
                 PROVE  counted[u][w] <= Len(passed'[u])
      BY <2>5
    <3>1. counted[u][w] \in Nat /\ counted[u][w] <= Len(passed[u])
      BY DEF TypeOK
    <3>2. CASE u = t
      <4>1. passed'[u] = Broadcast(t, e)
        BY <2>1, <3>2 DEF TypeOK
      <4>2. Len(passed[t]) \in Nat
        BY DEF TypeOK
      <4> QED BY <2>3, <3>1, <3>2, <4>1, <4>2
    <3>3. CASE u # t
      BY <2>1, <3>1, <3>3 DEF TypeOK
    <3> QED BY <3>2, <3>3
  <2> QED BY <2>4, <2>5, <2>6 DEF TypeOK, mongoVars, statusVars, memory
<1>3. CASE Break(t)
  BY <1>a, <1>3 DEF TypeOK, Break, mongoVars, statusVars, memory
<1>4. CASE Repair(t)
  BY <1>4 DEF TypeOK, Repair, RepairedAt, mongoVars, statusVars, memory
<1>5. ASSUME NEW w \in Workers, Count(t, w) PROVE TypeOK' /\ UNCHANGED <<mongoVars, pc, statusVars, memory>>
  <2>1. UNCHANGED <<mongoVars, pc, statusVars, tailing, tailErrors, stage, position, passed,
                    from, memory>>
    BY <1>5 DEF Count
  <2>2. passed[t] \in Seq(Entry) /\ Len(passed[t]) \in Nat /\ counted[t][w] \in Nat
        /\ counted[t][w] < Len(passed[t])
    BY <1>5 DEF TypeOK, Count
  <2>3. passed[t][counted[t][w] + 1] \in Entry
    BY <2>2, ElementOfSeq
  <2>4. entryCount' \in [Entry -> Nat]
    BY <1>5, <2>3 DEF TypeOK, Count
  <2>5. counted' = [counted EXCEPT ![t][w] = counted[t][w] + 1]
    BY <1>5 DEF Count
  <2>6. counted' \in [Collects -> [Workers -> Nat]]
    BY <2>2, <2>5 DEF TypeOK
  <2>7. \A u \in Collects, v \in Workers : counted'[u][v] <= Len(passed'[u])
    <3> SUFFICES ASSUME NEW u \in Collects, NEW v \in Workers
                 PROVE  counted'[u][v] <= Len(passed[u])
      BY <2>1
    <3>1. \/ u = t /\ v = w /\ counted'[u][v] = counted[t][w] + 1
          \/ counted'[u][v] = counted[u][v]
      BY <2>5 DEF TypeOK
    <3>2. counted[u][v] <= Len(passed[u])
      BY DEF TypeOK
    <3> QED BY <2>2, <3>1, <3>2
  <2> QED BY <2>1, <2>4, <2>6, <2>7 DEF TypeOK, mongoVars, statusVars, memory
<1> QED BY <1>1, <1>2, <1>3, <1>4, <1>5 DEF TailerStep

-----------------------------------------------------------------------------
\* A tailer gives the entries to its workers one after the other, and a new cursor goes on
\* where the last one ended.
LEMMA TailerSkips ==
  ASSUME TypeOK, NothingSkipped, NEW t \in Collects, TailerStep(t)
  PROVE  NothingSkipped'
<1>a. \A u \in Collects : position[u] \in Nat /\ from[u] \in Nat /\ Len(passed[u]) \in Nat
  BY OplogAssumption DEF TypeOK
<1>b. oldest' = oldest /\ oldest \in Nat /\ newest \in Nat
  BY TailerTypes, OplogAssumption DEF TypeOK, mongoVars
<1>c. Included \subseteq Nat
  BY OplogAssumption DEF Entry
<1>1. CASE Position(t)
  <2>1. /\ passed' = passed
        /\ \A u \in Collects \ {t} : position'[u] = position[u] /\ from'[u] = from[u]
        /\ position'[t] = from'[t] /\ position'[t] \in Nat
    BY <1>1, <1>b DEF Position, TypeOK
  <2>2. \A x \in Included : ~(from'[t] < x /\ x <= position'[t])
    <3>1. PICK n \in Nat : position'[t] = n /\ from'[t] = n
      BY <2>1
    <3>2. \A x \in Nat : ~(n < x /\ x <= n)
      BY <3>1
    <3> QED BY <1>c, <3>1, <3>2
  <2> QED BY <1>b, <2>1, <2>2 DEF NothingSkipped, PassedBy
<1>2. CASE TailOps(t)
  <2>1. PICK e \in OpLogQuery(t) : /\ \A f \in OpLogQuery(t) : e <= f
                                   /\ passed' = [passed EXCEPT ![t] = Broadcast(t, e)]
                                   /\ position' = [position EXCEPT ![t] = e]
    BY <1>2 DEF TailOps
  <2>2. from' = from /\ e \in Nat /\ e \in Entry
    BY <1>2, OplogAssumption DEF TailOps, OpLogQuery, TypeOK, Entry
  <2>3. PassedBy(t) \cup ({e} \cap Included) \subseteq PassedBy(t)'
    <3>1. passed'[t] = Broadcast(t, e) /\ passed[t] \in Seq(Entry)
      BY <2>1 DEF TypeOK
    <3>2. CASE e \notin Included
      BY <3>1, <3>2 DEF Broadcast, PassedBy
    <3>3. CASE e \in Included
      <4>1. /\ Len(passed'[t]) = Len(passed[t]) + 1 /\ passed'[t][Len(passed[t]) + 1] = e
            /\ \A i \in 1..Len(passed[t]) : passed'[t][i] = passed[t][i]
        BY <2>2, <3>1, <3>3, AppendProperties DEF Broadcast
      <4>2. ASSUME NEW i \in 1..Len(passed[t]) PROVE passed[t][i] \in PassedBy(t)'
        <5>1. i \in 1..Len(passed'[t])
          BY <1>a, <4>1
        <5> QED BY <4>1, <5>1 DEF PassedBy
      <4>3. e \in PassedBy(t)'
        <5>1. Len(passed[t]) + 1 \in 1..Len(passed'[t])
          BY <1>a, <4>1
        <5> QED BY <4>1, <5>1 DEF PassedBy
      <4> QED BY <4>2, <4>3 DEF PassedBy
    <3> QED BY <3>2, <3>3
  <2>4. \A u \in Collects \ {t} : passed'[u] = passed[u] /\ position'[u] = position[u]
    BY <2>1 DEF TypeOK
  <2> SUFFICES ASSUME NEW u \in Collects, NEW x \in Included,
                      oldest <= x, from[u] < x, x <= position'[u]
               PROVE  x \in PassedBy(u)'
    BY <1>b, <2>2 DEF NothingSkipped
  <2>5. CASE u # t
    BY <2>4, <2>5 DEF NothingSkipped, PassedBy
  <2>6. CASE u = t /\ x <= position[t]
    BY <2>3, <2>6 DEF NothingSkipped
  <2>7. CASE u = t /\ ~(x <= position[t])
    <3>1. position'[t] = e /\ e <= newest
      BY <2>1 DEF TypeOK, OpLogQuery
    <3>2. x \in OpLogQuery(t)
      BY <1>a, <1>b, <1>c, <2>2, <2>7, <3>1 DEF OpLogQuery
    <3>3. x = e
      BY <1>c, <2>1, <2>2, <2>7, <3>1, <3>2
    <3> QED BY <2>3, <2>7, <3>3
  <2> QED BY <2>5, <2>6, <2>7
<1>3. CASE Break(t) \/ Repair(t)
  <2>1. passed' = passed /\ from' = from /\ position' = position
    BY <1>3 DEF Break, Repair, RepairedAt, TypeOK
  <2> QED BY <1>b, <2>1 DEF NothingSkipped, PassedBy
<1>4. ASSUME NEW w \in Workers, Count(t, w) PROVE NothingSkipped'
  <2>1. passed' = passed /\ from' = from /\ position' = position
    BY <1>4 DEF Count
  <2> QED BY <1>b, <2>1 DEF NothingSkipped, PassedBy
<1> QED BY <1>1, <1>2, <1>3, <1>4 DEF TailerStep

-----------------------------------------------------------------------------
\* Time that passes does not harm what a Collect has read.
LEMMA WindowGrows ==
  ASSUME TypeOK, TypeOK', NEW c \in Collects, Window(c),
         oldest <= oldest', newest <= newest', UNCHANGED <<head, tail, began>>
  PROVE  Window(c)'
<1>1. /\ oldest \in Nat /\ oldest' \in Nat /\ newest \in Nat /\ newest' \in Nat
      /\ began[c].oldest \in Nat /\ began[c].newest \in Nat
      /\ head[c] \in Nat /\ tail[c] \in Nat
  <2>1. MaxOp \in Nat
    BY OplogAssumption
  <2>2. oldest \in Nat /\ oldest' \in Nat /\ newest \in Nat /\ newest' \in Nat
    BY <2>1 DEF TypeOK
  <2>3. began[c].oldest \in Nat /\ began[c].newest \in Nat
    BY <2>1 DEF TypeOK
  <2>4. head[c] \in Nat /\ tail[c] \in Nat
    BY SecondsFacts DEF TypeOK
  <2> QED BY <2>2, <2>3, <2>4
<1>2. /\ Second(oldest) \in Nat /\ Second(oldest') \in Nat /\ Second(oldest) <= Second(oldest')
      /\ Second(newest) \in Nat /\ Second(newest') \in Nat /\ Second(newest) <= Second(newest')
  BY <1>1, SecondMonotone
<1>3. BothRead(c)' = BothRead(c) /\ PerSecond' = PerSecond
  BY DEF BothRead
<1>4. /\ began'[c].oldest <= oldest' /\ began'[c].newest <= newest'
      /\ BothRead(c)' => head'[c] <= tail'[c]
  BY <1>1, <1>3 DEF Window
<1>5. head[c] # 0 => /\ Second(began[c].oldest) <= head[c]
                     /\ head[c] <= Second(oldest') /\ head[c] <= Second(newest')
  BY <1>1, <1>2 DEF Window
<1>6. tail[c] # 0 => Second(began[c].newest) <= tail[c] /\ tail[c] <= Second(newest')
  BY <1>1, <1>2 DEF Window
<1> QED BY <1>4, <1>5, <1>6 DEF Window

\* A Collect that steps is no longer alone, or all others are idle.
LEMMA AloneStep ==
  ASSUME IInv, NEW c \in Collects, CollectStep(c)
  PROVE  /\ \A d \in Collects \ {c} : ~solo'[d]
         /\ Alone'
         /\ \A d \in Collects \ {c} : pc'[d] = pc[d] /\ head'[d] = head[d] /\ tail'[d] = tail[d]
<1>1. \A d \in Collects \ {c} : pc'[d] = pc[d] /\ head'[d] = head[d] /\ tail'[d] = tail[d]
  <2>1. CASE Start(c) \/ CollectionStats(c) \/ SetHead(c) \/ SetTail(c) \/ SendHead(c)
             \/ SendTail(c) \/ StartTailer(c) \/ Return(c)
    BY <2>1 DEF IInv, TypeOK, Start, CollectionStats, SetHead, SetTail, SendHead, SendTail,
                StartTailer, Return, Goto, statusVars
  <2>2. CASE ReadHead(c) \/ ReadTail(c) \/ CheckTailer(c)
    BY <2>2 DEF IInv, TypeOK, ReadHead, ReadTail, CheckTailer, Goto
  <2> QED BY <2>1, <2>2 DEF CollectStep
<1>2. \A d \in Collects :
        solo'[d] => /\ pc'[d] # "idle" /\ \A b \in Collects \ {d} : pc'[b] = "idle"
                    /\ solo[d] \/ pc[d] = "idle"
  BY DEF CollectStep, Remember
<1>3. ASSUME NEW d \in Collects \ {c}, solo'[d] PROVE FALSE
  <2>1. solo[d]
    BY <1>1, <1>2, <1>3
  <2>2. pc[c] = "idle"
    BY <1>3, <2>1 DEF IInv, Alone
  <2>3. Start(c)
    BY <2>2 DEF CollectStep, Start, CollectionStats, ReadHead, ReadTail, SetHead, SetTail,
                SendHead, SendTail, CheckTailer, StartTailer, Return
  <2>4. pc'[c] \in {"stats", "tailcheck"}
    BY <2>3 DEF Start, Goto, IInv, TypeOK
  <2> QED BY <1>2, <1>3, <2>4
<1> QED BY <1>1, <1>2, <1>3 DEF Alone

\* What a Collect remembers before it has read anything.
LEMMA UnreadStep ==
  ASSUME IInv, NEW c \in Collects, CollectStep(c)
  PROVE  Unread'
<1>a. TypeOK /\ Unread
  BY DEF IInv
<1> DEFINE Own == /\ pc'[c] \in {"idle", "stats", "head", "tailstart", "end"} =>
                       head'[c] = 0 /\ tail'[c] = 0
                  /\ pc'[c] = "tail" => tail'[c] = 0
<1> SUFFICES Own
  BY <1>a, AloneStep DEF Unread
<1>1. CASE Start(c) \/ CollectionStats(c) \/ Return(c)
  BY <1>a, <1>1 DEF Start, CollectionStats, Return, Goto, TypeOK, Unread, statusVars
<1>2. CASE ReadHead(c)
  BY <1>a, <1>2 DEF ReadHead, Goto, TypeOK, Unread
<1>3. CASE ReadTail(c)
  <2>1. pc'[c] \in {"tailcheck", "sendhead", "sethead"}
    BY <1>a, <1>3 DEF ReadTail, Goto, TypeOK
  <2> QED BY <2>1
<1>4. CASE SetHead(c) \/ SetTail(c) \/ SendHead(c) \/ SendTail(c)
  <2>1. pc'[c] \in {"settail", "sendhead", "sendtail", "tailcheck"}
    BY <1>a, <1>4 DEF SetHead, SetTail, SendHead, SendTail, Goto, TypeOK
  <2> QED BY <2>1
<1>5. CASE CheckTailer(c)
  BY <1>a, <1>5 DEF CheckTailer, TypeOK, Goto
<1>6. CASE StartTailer(c)
  BY <1>a, <1>6 DEF StartTailer, Goto, TypeOK, Unread, statusVars
<1> QED BY <1>1, <1>2, <1>3, <1>4, <1>5, <1>6 DEF CollectStep

\* A Collect that is alone reads the ends of the oplog of now, and nobody sets its gauges.
LEMMA SoloStep ==
  ASSUME IInv, NEW c \in Collects, CollectStep(c), solo'[c]
  PROVE  Window(c)' /\ Sending(c)'
<1>a. TypeOK /\ TypeOK' /\ Unread /\ UNCHANGED <<oldest, newest>>
  BY CollectTypes DEF IInv, CollectStep, mongoVars
<1>b. /\ oldest \in Nat /\ newest \in Nat /\ head[c] \in Nat /\ tail[c] \in Nat
      /\ Second(oldest) \in Nat /\ Second(newest) \in Nat
  <2>1. MaxOp \in Nat /\ oldest \in Nat /\ newest \in Nat
    BY <1>a, OplogAssumption DEF TypeOK
  <2>2. head[c] \in Nat /\ tail[c] \in Nat
    BY <1>a, SecondsFacts DEF TypeOK
  <2> QED BY <2>1, <2>2, SecondMonotone
<1>1. CASE pc[c] = "idle"
  <2>1. Start(c)
    BY <1>1 DEF CollectStep, Start, CollectionStats, ReadHead, ReadTail, SetHead, SetTail,
                SendHead, SendTail, CheckTailer, StartTailer, Return
  <2>2. head' = head /\ tail' = tail /\ head[c] = 0 /\ tail[c] = 0
    BY <1>1, <1>a, <2>1 DEF Start, statusVars, Unread
  <2>3. pc'[c] \in {"stats", "tailcheck"}
    BY <1>a, <2>1 DEF Start, Goto, TypeOK
  <2>4. began'[c] = [oldest |-> oldest, newest |-> newest]
    BY <1>1, <2>3 DEF CollectStep, Remember
  <2>5. ~BothRead(c)'
    BY <2>2 DEF BothRead
  <2>6. Window(c)'
    BY <1>a, <1>b, <2>2, <2>4, <2>5 DEF Window
  <2> QED BY <2>3, <2>5, <2>6 DEF Sending
<1>2. CASE pc[c] # "idle"
  <2>1. solo[c] /\ began'[c] = began[c]
    BY <1>2 DEF CollectStep, Remember
  <2>2. Window(c) /\ Sending(c)
    BY <2>1 DEF IInv, SoloInv
  <2>a. began[c].oldest \in Nat /\ began[c].newest \in Nat
    BY <1>a, OplogAssumption DEF TypeOK
  <2>3. ASSUME head'[c] = head[c], tail'[c] = tail[c] PROVE Window(c)' /\ (BothRead(c)' <=> BothRead(c))
    BY <1>a, <2>1, <2>2, <2>3 DEF Window, BothRead
  <2>4. CASE CollectionStats(c)
    <3>1. head' = head /\ tail' = tail /\ head[c] = 0 /\ pc'[c] \in {"head", "tailcheck"}
      BY <1>a, <2>4 DEF CollectionStats, Goto, TypeOK, Unread, statusVars
    <3> QED BY <2>3, <3>1 DEF Sending, BothRead
  <2>5. CASE ReadHead(c)
    <3>1. PICK ts \in Read(FALSE) : head'[c] = ts
      BY <1>a, <2>5 DEF ReadHead, TypeOK
    <3>2. pc'[c] = "tail" /\ tail'[c] = 0
      BY <1>a, <2>5 DEF ReadHead, Goto, TypeOK, Unread
    <3>3. ts # 0 => /\ Second(began[c].oldest) <= ts
                    /\ ts <= Second(oldest) /\ ts <= Second(newest)
      <4>1. ts # 0 => oldest <= newest /\ ts = Second(oldest)
        BY <1>a, ReadFacts
      <4>2. began[c].oldest <= oldest
        BY <2>2 DEF Window
      <4>3. Second(began[c].oldest) \in Nat /\ Second(began[c].oldest) <= Second(oldest)
        BY <1>b, <2>a, <4>2, SecondMonotone
      <4>4. oldest <= newest => Second(oldest) <= Second(newest)
        BY <1>b, SecondMonotone
      <4> QED BY <1>b, <4>1, <4>3, <4>4
    <3> QED BY <1>a, <2>1, <2>2, <3>1, <3>2, <3>3 DEF Window, Sending, BothRead
  <2>6. CASE ReadTail(c)
    <3>1. PICK ts \in Read(TRUE) :
            /\ tail'[c] = ts
            /\ pc'[c] = IF ts = 0 THEN "tailcheck"
                        ELSE IF head[c] = 0 THEN "sendhead" ELSE "sethead"
      BY <1>a, <2>6 DEF ReadTail, Goto, TypeOK
    <3>2. head' = head
      BY <2>6 DEF ReadTail
    <3>3. ts # 0 => /\ Second(began[c].newest) <= ts /\ ts <= Second(newest)
                    /\ head[c] # 0 => head[c] <= ts
      <4>1. ts # 0 => oldest <= newest /\ ts = Second(newest)
        BY <1>a, ReadFacts
      <4>2. began[c].newest <= newest /\ (head[c] # 0 => head[c] <= Second(newest))
        BY <2>2 DEF Window
      <4>3. Second(began[c].newest) \in Nat /\ Second(began[c].newest) <= Second(newest)
        BY <1>b, <2>a, <4>2, SecondMonotone
      <4> QED BY <1>b, <4>1, <4>2, <4>3
    <3>4. Window(c)'
      BY <1>a, <2>1, <2>2, <3>1, <3>2, <3>3 DEF Window, BothRead
    <3>5. Sending(c)'
      BY <3>1, <3>2 DEF Sending, BothRead
    <3> QED BY <3>4, <3>5
  <2>7. CASE SetHead(c)
    <3>1. /\ pc[c] = "sethead" /\ pc'[c] = "settail" /\ headGauge' = head[c]
          /\ head' = head /\ tail' = tail
      BY <1>a, <2>7 DEF SetHead, Goto, TypeOK
    <3> QED BY <2>2, <2>3, <3>1 DEF Sending
  <2>8. CASE SetTail(c)
    <3>1. /\ pc[c] = "settail" /\ pc'[c] = "sendhead" /\ tailGauge' = tail[c]
          /\ headGauge' = headGauge /\ head' = head /\ tail' = tail
      BY <1>a, <2>8 DEF SetTail, Goto, TypeOK
    <3> QED BY <2>2, <2>3, <3>1 DEF Sending
  <2>9. CASE SendHead(c)
    <3>1. /\ pc[c] = "sendhead" /\ pc'[c] = "sendtail" /\ headSent'[c] = headGauge
          /\ tailGauge' = tailGauge /\ head' = head /\ tail' = tail
      BY <1>a, <2>9 DEF SendHead, Goto, TypeOK
    <3> QED BY <2>2, <2>3, <3>1 DEF Sending
  <2>10. CASE SendTail(c)
    <3>1. /\ pc[c] = "sendtail" /\ pc'[c] = "tailcheck" /\ tailSent'[c] = tailGauge
          /\ headSent' = headSent /\ head' = head /\ tail' = tail
      BY <1>a, <2>10 DEF SendTail, Goto, TypeOK
    <3> QED BY <2>2, <2>3, <3>1 DEF Sending
  <2>11. CASE CheckTailer(c)
    <3>1. head'[c] = 0 /\ tail'[c] = 0 /\ pc'[c] \in {"tailstart", "end"}
      BY <1>a, <2>11 DEF CheckTailer, Goto, TypeOK
    <3> QED BY <1>a, <2>1, <2>2, <3>1 DEF Window, Sending, BothRead
  <2>12. CASE StartTailer(c) \/ Return(c)
    <3>1. head' = head /\ tail' = tail /\ pc'[c] \in {"end", "idle"}
      BY <1>a, <2>12 DEF StartTailer, Return, Goto, TypeOK, statusVars
    <3> QED BY <2>3, <3>1 DEF Sending
  <2> QED BY <1>2, <2>4, <2>5, <2>6, <2>7, <2>8, <2>9, <2>10, <2>11, <2>12
          DEF CollectStep, Start
<1> QED BY <1>1, <1>2

\* The inductive invariant of the Collects and the tailers (GetOplogStatus, TailOps).
THEOREM Invariance == Spec => []IInv
<1>1. IInv /\ [Next]_vars => IInv'
  <2> SUFFICES ASSUME IInv, [Next]_vars PROVE IInv'
    OBVIOUS
  <2>a. TypeOK /\ Unread /\ Alone /\ SoloInv /\ NothingSkipped
    BY DEF IInv
  <2>1. CASE Write
    <3>1. TypeOK' /\ oldest <= oldest' /\ newest <= newest'
      BY <2>a, <2>1, WriteTypes
    <3>2. UNCHANGED <<pc, statusVars, tailerVars, memory>>
      BY <2>1 DEF Write
    <3>3. Unread' /\ Alone'
      BY <2>a, <3>2 DEF Unread, Alone, statusVars, memory
    <3>4. SoloInv'
      <4> SUFFICES ASSUME NEW c \in Collects, solo'[c] PROVE Window(c)' /\ Sending(c)'
        BY DEF SoloInv
      <4>1. Window(c) /\ Sending(c)
        BY <2>a, <3>2 DEF SoloInv, memory
      <4>2. Window(c)'
        BY <2>a, <3>1, <3>2, <4>1, WindowGrows DEF statusVars, memory
      <4> QED BY <3>2, <4>1, <4>2 DEF Sending, BothRead, statusVars
    <3>5. NothingSkipped'
      <4>1. oldest \in Nat /\ oldest' \in Nat /\ Included \subseteq Nat
        BY <2>a, <3>1, OplogAssumption DEF TypeOK, Entry
      <4>2. UNCHANGED <<from, position, passed>>
        BY <3>2 DEF tailerVars
      <4>3. \A e \in Included : oldest' <= e => oldest <= e
        BY <3>1, <4>1
      <4> QED BY <2>a, <4>2, <4>3 DEF NothingSkipped, PassedBy
    <3> QED BY <3>1, <3>3, <3>4, <3>5 DEF IInv
  <2>2. ASSUME NEW c \in Collects, CollectStep(c) PROVE IInv'
    <3>1. TypeOK' /\ Unread' /\ Alone'
      BY <2>a, <2>2, CollectTypes, UnreadStep, AloneStep
    <3>2. SoloInv'
      BY <2>2, AloneStep, SoloStep DEF SoloInv
    <3>3. NothingSkipped'
      <4>1. UNCHANGED <<oldest, from, position, passed>>
        BY <2>2 DEF CollectStep, Start, CollectionStats, ReadHead, ReadTail, SetHead, SetTail,
                    SendHead, SendTail, CheckTailer, StartTailer, Return, tailerVars, mongoVars
      <4> QED BY <2>a, <4>1 DEF NothingSkipped, PassedBy
    <3> QED BY <3>1, <3>2, <3>3 DEF IInv
  <2>3. ASSUME NEW t \in Collects, TailerStep(t) PROVE IInv'
    <3>1. TypeOK' /\ UNCHANGED <<mongoVars, pc, statusVars, memory>>
      BY <2>a, <2>3, TailerTypes
    <3>2. Unread' /\ Alone' /\ SoloInv'
      BY <2>a, <3>1
         DEF Unread, Alone, SoloInv, Window, Sending, BothRead, mongoVars, statusVars, memory
    <3> QED BY <2>a, <2>3, <3>1, <3>2, TailerSkips DEF IInv
  <2>4. CASE UNCHANGED vars
    BY <2>a, <2>4
       DEF vars, mongoVars, statusVars, tailerVars, memory, IInv, TypeOK, Unread, Alone, SoloInv,
           Window, Sending, BothRead, NothingSkipped, PassedBy
  <2> QED BY <2>1, <2>2, <2>3, <2>4 DEF Next
<1> QED BY <1>1, InitInv, PTL DEF Spec

\* Every variable keeps its type, those of MongoDB, of the Collects and of the tailers.
THEOREM TypeCorrect == Spec => []TypeOK
BY Invariance, PTL DEF IInv

\* A Collect that is alone sends the ends of the oplog as they were while it ran, and the
\* head never after the tail (GetOplogStatus, OplogStatus.Export).
THEOREM WindowIsOfNow == Spec => []SoloWindow
<1>1. IInv => SoloWindow
  <2> SUFFICES ASSUME IInv, NEW c \in Collects, pc[c] = "tailcheck", solo[c], BothRead(c)
               PROVE  /\ Second(began[c].oldest) <= headSent[c] /\ headSent[c] <= Second(oldest)
                      /\ Second(began[c].newest) <= tailSent[c] /\ tailSent[c] <= Second(newest)
                      /\ headSent[c] <= tailSent[c]
    BY DEF SoloWindow
  <2>1. Window(c) /\ Sending(c)
    BY DEF IInv, SoloInv
  <2> QED BY <2>1 DEF Window, Sending, BothRead
<1> QED BY <1>1, Invariance, PTL

\* No tailer skips an entry that is still in the oplog, whatever errors its cursor meets
\* (TailOps).
THEOREM TailersSkipNothing == Spec => []NothingSkipped
BY Invariance, PTL DEF IInv

-----------------------------------------------------------------------------
(***************************************************************************)
(* What is counted.                                                        *)
(***************************************************************************)
\* A Collect starts a tailer once, which begins once.
StartedOnce ==
  \A c \in Collects :
    /\ pc[c] = "tailstart" => stage[c] = "off"
    /\ stage[c] # "off" => tailing

\* A tailer gives the entries to its workers in their order, none twice.
InOrder(t) ==
  /\ stage[t] \in {"off", "position"} => passed[t] = <<>>
  /\ \A i \in 1..Len(passed[t]) : passed[t][i] <= position[t]
  /\ \A i, j \in 1..Len(passed[t]) : i < j => passed[t][i] < passed[t][j]

Tailers == {t \in Collects : stage[t] # "off"}

\* The workers, each of its tailer, that have counted an entry.
CountedBy(e) ==
  {tw \in Collects \X Workers : \E i \in 1..counted[tw[1]][tw[2]] : passed[tw[1]][i] = e}

CountInv ==
  \A e \in Entry : IsFiniteSet(CountedBy(e)) /\ entryCount[e] = Cardinality(CountedBy(e))

TailInv == StartedOnce /\ (\A t \in Collects : InOrder(t)) /\ IsFiniteSet(Tailers) /\ CountInv

\* The entry a tailer gives to its workers comes after all it has given them.
LEMMA PassedAppended ==
  ASSUME TypeOK, NEW t \in Collects, InOrder(t), TailOps(t)
  PROVE  /\ InOrder(t)'
         /\ Len(passed'[t]) \in Nat /\ Len(passed[t]) <= Len(passed'[t])
         /\ \A i \in 1..Len(passed[t]) : passed'[t][i] = passed[t][i]
<1>1. PICK e \in OpLogQuery(t) : /\ passed' = [passed EXCEPT ![t] = Broadcast(t, e)]
                                 /\ position' = [position EXCEPT ![t] = e]
  BY DEF TailOps
<1>2. /\ e \in Nat /\ e \in Entry /\ position[t] \in Nat /\ position[t] < e
      /\ passed[t] \in Seq(Entry) /\ Len(passed[t]) \in Nat
  BY OplogAssumption DEF TypeOK, OpLogQuery, Entry
<1>3. /\ stage'[t] = "tail" /\ position'[t] = e
      /\ passed'[t] = IF e \in Included THEN Append(passed[t], e) ELSE passed[t]
  BY <1>1 DEF TailOps, TypeOK, Broadcast
<1>4. /\ \A i \in 1..Len(passed[t]) : passed[t][i] \in Nat /\ passed[t][i] <= position[t]
      /\ \A i, j \in 1..Len(passed[t]) : i < j => passed[t][i] < passed[t][j]
  <2>1. \A i \in 1..Len(passed[t]) : passed[t][i] \in Entry
    BY <1>2, ElementOfSeq
  <2> QED BY <2>1, OplogAssumption DEF InOrder, Entry
<1>5. CASE e \notin Included
  BY <1>2, <1>3, <1>4, <1>5 DEF InOrder
<1>6. CASE e \in Included
  <2> DEFINE n == Len(passed[t])  s == passed'[t]
  <2>1. /\ Len(s) = n + 1 /\ s[n + 1] = e
        /\ \A i \in 1..n : s[i] = passed[t][i]
    BY <1>2, <1>3, <1>6, AppendProperties
  <2> HIDE DEF n, s
  <2>2. n \in Nat /\ \A i \in 1..(n + 1) : i \in 1..n \/ i = n + 1
    BY <1>2 DEF n
  <2>3. /\ \A i \in 1..n : s[i] \in Nat /\ s[i] < e
        /\ \A i, j \in 1..n : i < j => s[i] < s[j]
    <3>1. /\ \A i \in 1..n : passed[t][i] \in Nat /\ passed[t][i] <= position[t]
          /\ \A i, j \in 1..n : i < j => passed[t][i] < passed[t][j]
      BY <1>4 DEF n
    <3>2. \A i \in 1..n : s[i] = passed[t][i] /\ s[i] \in Nat /\ s[i] <= position[t]
      BY <2>1, <3>1
    <3>3. \A i \in 1..n : s[i] < e
      BY <1>2, <3>2
    <3>4. \A i, j \in 1..n : i < j => s[i] < s[j]
      BY <3>1, <3>2
    <3> QED BY <3>2, <3>3, <3>4
  <2>4. \A i \in 1..(n + 1) : s[i] <= e
    BY <1>2, <2>1, <2>2, <2>3
  <2>5. ASSUME NEW i \in 1..(n + 1), NEW j \in 1..(n + 1), i < j
        PROVE  s[i] < s[j]
    <3>1. i \in 1..n /\ (j \in 1..n \/ j = n + 1)
      BY <2>2, <2>5
    <3> QED BY <2>1, <2>3, <2>5, <3>1
  <2>6. InOrder(t)'
    BY <1>3, <2>1, <2>4, <2>5 DEF InOrder, s
  <2> QED BY <2>1, <2>2, <2>6 DEF n, s
<1> QED BY <1>5, <1>6

\* An entry is counted by whoever has counted it before, ...
LEMMA CountsUntouched ==
  ASSUME TypeOK, CountInv, UNCHANGED <<entryCount, counted>>,
         \A t \in Collects : \A i \in 1..Len(passed[t]) : passed'[t][i] = passed[t][i]
  PROVE  CountInv'
<1> SUFFICES ASSUME NEW e \in Entry
             PROVE  CountedBy(e)' = CountedBy(e)
  BY DEF CountInv
<1>1. ASSUME NEW t \in Collects, NEW w \in Workers
      PROVE  (\E i \in 1..counted[t][w] : passed'[t][i] = e)
               <=> (\E i \in 1..counted[t][w] : passed[t][i] = e)
  <2>1. counted[t][w] \in Nat /\ counted[t][w] <= Len(passed[t]) /\ Len(passed[t]) \in Nat
    BY DEF TypeOK
  <2>2. \A i \in 1..counted[t][w] : passed'[t][i] = passed[t][i]
    BY <2>1
  <2> QED BY <2>2
<1>2. \A tw \in Collects \X Workers : tw[1] \in Collects /\ tw[2] \in Workers
  OBVIOUS
<1> QED BY <1>1, <1>2 DEF CountedBy

\* ... and by the worker whose turn it is, who has not counted it yet.
LEMMA CountsOne ==
  ASSUME TypeOK, CountInv, NEW t \in Collects, NEW w \in Workers, Count(t, w), InOrder(t)
  PROVE  CountInv'
<1> DEFINE k == counted[t][w]  x == passed[t][k + 1]
<1>1. /\ k \in Nat /\ k + 1 \in 1..Len(passed[t]) /\ x \in Entry /\ Len(passed[t]) \in Nat
  <2>1. passed[t] \in Seq(Entry) /\ Len(passed[t]) \in Nat /\ k \in Nat /\ k < Len(passed[t])
    BY DEF TypeOK, Count
  <2>2. k + 1 \in 1..Len(passed[t])
    BY <2>1
  <2> QED BY <2>1, <2>2, ElementOfSeq
<1>2. /\ passed' = passed
      /\ \A u \in Collects, v \in Workers :
           counted'[u][v] = IF u = t /\ v = w THEN k + 1 ELSE counted[u][v]
  BY DEF Count, TypeOK
<1>3. \A e \in Entry : entryCount'[e] = IF e = x THEN entryCount[e] + 1 ELSE entryCount[e]
  BY <1>1 DEF Count, TypeOK
<1>4. \A i \in 1..k : passed[t][i] # x
  <2> SUFFICES ASSUME NEW i \in 1..k PROVE passed[t][i] # x
    OBVIOUS
  <2>1. i \in 1..Len(passed[t]) /\ i < k + 1
    BY <1>1
  <2>2. passed[t][i] < x
    BY <1>1, <2>1 DEF InOrder
  <2>3. passed[t][i] \in Entry
    BY <2>1, ElementOfSeq DEF TypeOK
  <2> QED BY <1>1, <2>2, <2>3, OplogAssumption DEF Entry
<1> HIDE DEF k
<1>5. <<t, w>> \notin CountedBy(x)
  BY <1>4 DEF CountedBy, k
<1>6. ASSUME NEW e \in Entry
      PROVE  CountedBy(e)' = IF e = x THEN CountedBy(e) \cup {<<t, w>>} ELSE CountedBy(e)
  <2>1. ASSUME NEW u \in Collects, NEW v \in Workers
        PROVE  (\E i \in 1..counted'[u][v] : passed'[u][i] = e)
                 <=> \/ \E i \in 1..counted[u][v] : passed[u][i] = e
                     \/ e = x /\ u = t /\ v = w
    <3>1. CASE u = t /\ v = w
      <4>1. \A i \in 1..(k + 1) : i \in 1..k \/ i = k + 1
        BY <1>1
      <4>2. \A i \in 1..k : i \in 1..(k + 1)
        BY <1>1
      <4>3. k + 1 \in 1..(k + 1)
        BY <1>1
      <4>4. counted'[u][v] = k + 1 /\ counted[u][v] = k
        BY <1>2, <3>1 DEF k
      <4> QED BY <1>2, <3>1, <4>1, <4>2, <4>3, <4>4
    <3>2. CASE ~(u = t /\ v = w)
      BY <1>2, <3>2
    <3> QED BY <3>1, <3>2
  <2>2. ASSUME NEW tw \in Collects \X Workers
        PROVE  tw \in CountedBy(e)' <=> tw \in CountedBy(e) \/ (e = x /\ tw = <<t, w>>)
    <3>1. PICK u \in Collects, v \in Workers : tw = <<u, v>>
      OBVIOUS
    <3> QED BY <2>1, <3>1 DEF CountedBy
  <2>3. CountedBy(e)' \subseteq Collects \X Workers /\ CountedBy(e) \subseteq Collects \X Workers
    BY DEF CountedBy
  <2> HIDE DEF x
  <2> QED BY <2>2, <2>3
<1>7. ASSUME NEW e \in Entry
      PROVE  IsFiniteSet(CountedBy(e)') /\ entryCount'[e] = Cardinality(CountedBy(e)')
  <2>1. IsFiniteSet(CountedBy(e)) /\ entryCount[e] = Cardinality(CountedBy(e))
    BY DEF CountInv
  <2>2. /\ IsFiniteSet(CountedBy(e) \cup {<<t, w>>})
        /\ <<t, w>> \notin CountedBy(e) =>
             Cardinality(CountedBy(e) \cup {<<t, w>>}) = Cardinality(CountedBy(e)) + 1
    BY <2>1, FS_AddElement
  <2> HIDE DEF x
  <2> QED BY <1>3, <1>5, <1>6, <2>1, <2>2
<1> QED BY <1>7 DEF CountInv

\* What a tailer is at changes when a Collect starts it.
LEMMA CollectStarts ==
  ASSUME TypeOK, StartedOnce, NEW c \in Collects, CollectStep(c)
  PROVE  /\ StartedOnce'
         /\ \A t \in Collects :
              stage'[t] = stage[t] \/ (t = c /\ stage[t] = "off" /\ stage'[t] = "position")
         /\ UNCHANGED <<position, passed, counted, entryCount>>
<1>a. /\ pc \in [Collects -> PC] /\ stage \in [Collects -> {"off", "position", "tail", "broken"}]
  BY DEF TypeOK
<1>1. UNCHANGED <<position, passed, counted, entryCount>>
  BY DEF CollectStep, Start, CollectionStats, ReadHead, ReadTail, SetHead, SetTail, SendHead,
         SendTail, CheckTailer, StartTailer, Return, tailerVars
<1>2. CASE StartTailer(c)
  <2>1. pc' = [pc EXCEPT ![c] = "end"] /\ stage' = [stage EXCEPT ![c] = "position"]
        /\ tailing' = TRUE /\ pc[c] = "tailstart"
    BY <1>2 DEF StartTailer, Goto
  <2> QED BY <1>a, <1>1, <2>1 DEF StartedOnce
<1>3. CASE ~StartTailer(c)
  <2>1. /\ UNCHANGED <<stage, tailing>>
        /\ \E l \in PC : pc' = [pc EXCEPT ![c] = l] /\ (l = "tailstart" => ~tailing)
    BY <1>3 DEF CollectStep, Start, CollectionStats, ReadHead, ReadTail, SetHead, SetTail,
                SendHead, SendTail, CheckTailer, Return, tailerVars, Goto, PC
  <2> QED BY <1>a, <1>1, <2>1 DEF StartedOnce
<1> QED BY <1>2, <1>3

LEMMA TailInvStep ==
  ASSUME TypeOK, TailInv, [Next]_vars
  PROVE  TailInv'
<1>a. StartedOnce /\ (\A t \in Collects : InOrder(t)) /\ IsFiniteSet(Tailers) /\ CountInv
  BY DEF TailInv
<1>b. /\ pc \in [Collects -> PC] /\ stage \in [Collects -> {"off", "position", "tail", "broken"}]
      /\ position \in [Collects -> 0..MaxOp]
      /\ \A t \in Collects : Len(passed[t]) \in Nat
  BY DEF TypeOK
<1>1. ASSUME NEW c \in Collects, CollectStep(c) PROVE TailInv'
  <2>1. /\ StartedOnce'
        /\ \A t \in Collects :
             stage'[t] = stage[t] \/ (t = c /\ stage[t] = "off" /\ stage'[t] = "position")
        /\ UNCHANGED <<position, passed, counted, entryCount>>
    BY <1>a, <1>1, CollectStarts
  <2>2. \A t \in Collects : InOrder(t)'
    BY <1>a, <2>1 DEF InOrder
  <2>3. IsFiniteSet(Tailers')
    <3>1. Tailers' \in SUBSET (Tailers \cup {c})
      BY <2>1 DEF Tailers
    <3>2. IsFiniteSet(Tailers \cup {c})
      BY <1>a, FS_AddElement
    <3> QED BY <3>1, <3>2, FS_Subset
  <2>4. CountInv'
    BY <1>a, <2>1, CountsUntouched
  <2> QED BY <2>1, <2>2, <2>3, <2>4 DEF TailInv
<1>2. ASSUME NEW t \in Collects, TailerStep(t) PROVE TailInv'
  <2>1. StartedOnce' /\ Tailers' = Tailers
    <3>1. UNCHANGED <<pc, tailing>> /\ \A u \in Collects : stage'[u] = "off" <=> stage[u] = "off"
      BY <1>b, <1>2 DEF TailerStep, Position, TailOps, Break, Repair, Count
    <3> QED BY <1>a, <3>1 DEF StartedOnce, Tailers
  <2>2. CASE Position(t) \/ Break(t) \/ Repair(t)
    <3>1. /\ UNCHANGED <<passed, counted, entryCount>>
          /\ \A u \in Collects \ {t} : stage'[u] = stage[u] /\ position'[u] = position[u]
          /\ \/ stage[t] = "position"
             \/ position'[t] = position[t] /\ stage'[t] \notin {"off", "position"}
      BY <1>b, <2>2 DEF Position, Break, Repair, RepairedAt
    <3>2. \A u \in Collects : InOrder(u)'
      <4> SUFFICES ASSUME NEW u \in Collects PROVE InOrder(u)'
        OBVIOUS
      <4>1. CASE u = t /\ stage[t] = "position"
        BY <1>a, <3>1, <4>1 DEF InOrder
      <4>2. CASE u # t \/ stage[t] # "position"
        BY <1>a, <3>1, <4>2 DEF InOrder
      <4> QED BY <4>1, <4>2
    <3>3. CountInv'
      BY <1>a, <3>1, CountsUntouched
    <3> QED BY <1>a, <2>1, <3>2, <3>3 DEF TailInv
  <2>3. CASE TailOps(t)
    <3>1. /\ InOrder(t)'
          /\ \A i \in 1..Len(passed[t]) : passed'[t][i] = passed[t][i]
      BY <1>a, <2>3, PassedAppended
    <3>2. /\ UNCHANGED <<counted, entryCount, stage>>
          /\ \A u \in Collects \ {t} : passed'[u] = passed[u] /\ position'[u] = position[u]
      BY <2>3 DEF TailOps, TypeOK
    <3>3. \A u \in Collects : InOrder(u)'
      BY <1>a, <3>1, <3>2 DEF InOrder
    <3>4. CountInv'
      BY <1>a, <3>1, <3>2, CountsUntouched
    <3> QED BY <1>a, <2>1, <3>3, <3>4 DEF TailInv
  <2>4. ASSUME NEW w \in Workers, Count(t, w) PROVE TailInv'
    <3>1. UNCHANGED <<stage, position, passed>>
      BY <2>4 DEF Count
    <3>2. \A u \in Collects : InOrder(u)'
      BY <1>a, <3>1 DEF InOrder
    <3>3. CountInv'
      BY <1>a, <2>4, CountsOne
    <3> QED BY <1>a, <2>1, <3>2, <3>3 DEF TailInv
  <2> QED BY <1>2, <2>2, <2>3, <2>4 DEF TailerStep
<1>3. CASE Write \/ UNCHANGED vars
  <2>1. UNCHANGED <<pc, tailing, stage, position, passed, counted, entryCount>>
    BY <1>3 DEF Write, vars, tailerVars
  <2>2. StartedOnce' /\ (\A t \in Collects : InOrder(t)') /\ Tailers' = Tailers
    BY <1>a, <2>1 DEF StartedOnce, InOrder, Tailers
  <2>3. CountInv'
    BY <1>a, <2>1, CountsUntouched
  <2> QED BY <1>a, <2>2, <2>3 DEF TailInv
<1> QED BY <1>1, <1>2, <1>3 DEF Next

LEMMA TailInvInit == Init => TailInv
<1> SUFFICES ASSUME Init PROVE TailInv
  OBVIOUS
<1>1. StartedOnce /\ \A t \in Collects : InOrder(t)
  BY DEF Init, StartedOnce, InOrder
<1>2. Tailers = {}
  BY DEF Init, Tailers
<1>3. CountInv
  <2> SUFFICES ASSUME NEW e \in Entry
               PROVE  IsFiniteSet(CountedBy(e)) /\ entryCount[e] = Cardinality(CountedBy(e))
    BY DEF CountInv
  <2>1. CountedBy(e) = {}
    <3>1. \A t \in Collects, w \in Workers : 1..counted[t][w] = {}
      BY DEF Init
    <3> QED BY <3>1 DEF CountedBy
  <2>2. entryCount[e] = 0
    BY DEF Init
  <2> QED BY <2>1, <2>2, FS_EmptySet
<1> QED BY <1>1, <1>2, <1>3, FS_EmptySet DEF TailInv

\* An entry is counted at most once by each worker of each tailer it was given to, whatever
\* becomes of the cursors and however many Collects there are (FetchDocuments, Start).  The
\* code starts ten workers; what is assumed is that they are finitely many.
THEOREM CountedOncePerWorker ==
  ASSUME IsFiniteSet(Workers)
  PROVE  Spec => []OncePerWorker
<1>1. TypeOK /\ TailInv => OncePerWorker
  <2> SUFFICES ASSUME TypeOK, TailInv, NEW e \in Entry
               PROVE  entryCount[e] <= Cardinality({t \in Collects : e \in PassedBy(t)} \X Workers)
    BY DEF OncePerWorker
  <2> DEFINE T == {t \in Collects : e \in PassedBy(t)}
  <2>1. T \in SUBSET Tailers
    <3> SUFFICES ASSUME NEW t \in Collects, e \in PassedBy(t), stage[t] = "off" PROVE FALSE
      BY DEF Tailers
    <3>1. passed[t] = <<>>
      BY DEF TailInv, InOrder
    <3> QED BY <3>1 DEF PassedBy
  <2>2. IsFiniteSet(T)
    BY <2>1, FS_Subset DEF TailInv
  <2>3. CountedBy(e) \in SUBSET (T \X Workers)
    <3> SUFFICES ASSUME NEW t \in Collects, NEW w \in Workers, NEW i \in 1..counted[t][w],
                        passed[t][i] = e
                 PROVE  t \in T
      BY DEF CountedBy
    <3>1. i \in 1..Len(passed[t])
      BY DEF TypeOK
    <3> QED BY <3>1 DEF PassedBy
  <2>4. /\ IsFiniteSet(T \X Workers)
        /\ Cardinality(CountedBy(e)) <= Cardinality(T \X Workers)
    <3>1. IsFiniteSet(T \X Workers)
      BY <2>2, FS_Product
    <3> QED BY <2>3, <3>1, FS_Subset
  <2> QED BY <2>4 DEF TailInv, CountInv
<1>2. TypeOK /\ TailInv /\ [Next]_vars => TailInv'
  BY TailInvStep
<1> QED BY <1>1, <1>2, TailInvInit, TypeCorrect, PTL DEF Spec
=============================================================================
