------------------------- MODULE MongoCollectorProofs -------------------------
(***************************************************************************)
(* Proofs about MongoCollector, for any number of overlapping Collects,    *)
(* every choice of options and everything MongoDB may tell of.  A vector   *)
(* that is reset after use has something in it only while some Collect,    *)
(* not always the one that put it there, is still to reset it; and a       *)
(* Collect that no other overlaps sends just what it was answered.         *)
(***************************************************************************)
EXTENDS MongoCollectHistory, SequenceTheorems, TLAPS

After == PerDatabase \cup {"connpool"}

\* What a Collect is still to go through belongs to the part it is at.
OfThisPart ==
  \A c \in Collects :
    /\ pc[c] \in {"fill", "resetfirst"} => chunk[c] \subseteq Items[Part(c)]
    /\ \/ pc[c] \in {"next", "clear"}
       \/ pc[c] = "fill" /\ Part(c) \in After
       => todo[c] \subseteq Items[Part(c)]
    /\ pc[c] = "clear" => Part(c) \in After
    /\ pc[c] = "resetfirst" => Part(c) \notin After

\* Whoever has filled a vector, somebody is about to reset it.
ResetAhead ==
  /\ \A part \in After :
       vec[part] # {} => \E c \in Collects : pc[c] \in {"fill", "clear"} /\ Part(c) = part
  /\ upGauge # {} => \E c \in Collects : pc[c] \in {"upcollect", "upreset"}

IInv == TypeOK /\ OfThisPart /\ ResetAhead

-----------------------------------------------------------------------------
\* A Collect always has parts to go through.
LEMMA PartsFacts == Parts \in Seq(PartName) /\ Len(Parts) \in Nat \ {0}
<1> DEFINE S(p) == IfEnabled(p)
<1>1. \A p \in PartName : S(p) \in Seq(PartName) /\ Len(S(p)) \in Nat
  BY DEF IfEnabled
<1>2. /\ "server" \in PartName /\ "replset" \in PartName /\ "conf" \in PartName
      /\ "oplog" \in PartName /\ "tail" \in PartName /\ "top" \in PartName
      /\ "database" \in PartName /\ "collection" \in PartName
      /\ "profile" \in PartName /\ "connpool" \in PartName
  BY DEF PartName, Resets
<1> HIDE DEF S
<1> DEFINE Grown(s) == s \in Seq(PartName) /\ Len(s) \in Nat \ {0}
<1>3. ASSUME NEW s, Grown(s), NEW p \in PartName PROVE Grown(s \o S(p))
  BY <1>1, <1>3, ConcatProperties
<1>4. Grown(<<"server">>)
  BY <1>2
<1> HIDE DEF Grown
<1> DEFINE s1 == <<"server">> \o S("replset")   s2 == s1 \o S("conf")
           s3 == s2 \o S("oplog")               s4 == s3 \o S("tail")
           s5 == s4 \o S("top")                 s6 == s5 \o S("database")
           s7 == s6 \o S("collection")          s8 == s7 \o S("profile")
<1>5. Grown(s1)
  BY <1>2, <1>3, <1>4
<1>6. Grown(s2)
  BY <1>2, <1>3, <1>5
<1>7. Grown(s3)
  BY <1>2, <1>3, <1>6
<1>8. Grown(s4)
  BY <1>2, <1>3, <1>7
<1>9. Grown(s5)
  BY <1>2, <1>3, <1>8
<1>10. Grown(s6)
  BY <1>2, <1>3, <1>9
<1>11. Grown(s7)
  BY <1>2, <1>3, <1>10
<1>12. Grown(s8)
  BY <1>2, <1>3, <1>11
<1>13. Grown(s8 \o S("connpool"))
  BY <1>2, <1>3, <1>12
<1>14. Parts = s8 \o S("connpool")
  BY DEF Parts, S
<1> QED BY <1>13, <1>14 DEF Grown

\* The part a Collect is at, and the ones that are reset after use.
LEMMA PartFacts ==
  ASSUME TypeOK, NEW c \in Collects
  PROVE  Part(c) \in PartName
BY PartsFacts, ElementOfSeq DEF TypeOK, Part

\* The parts that are reset after use, and the names a reply may give.
LEMMA AfterFacts ==
  /\ After \subseteq PartName
  /\ \A part \in PartName : part \in After <=> Resets[part] = "after"
  /\ \A part \in PartName : Names(part) \subseteq Items[part] \cup {"admin", "test"}
BY DEF After, PerDatabase, PartName, Resets, Names, ServerStatus, ReplSetStatus, ReplSetConf,
       OplogStatus, OplogTailStats, TopStatus, DatabaseStatus, CollectionStatus,
       ProfileStatus, ConnPoolStats

\* No part asks for the databases it passes over.
LEMMA Asked ==
  ASSUME NEW part \in PartName, NEW names \in SUBSET Names(part)
  PROVE  WithoutSystem(part, names) \subseteq Items[part]
BY DEF WithoutSystem, Names

-----------------------------------------------------------------------------
\* It holds before the first Collect.
LEMMA InitInv == Init => IInv
<1> SUFFICES ASSUME Init PROVE IInv
  OBVIOUS
<1>1. TypeOK
  <2>1. /\ at \in [Collects -> 1..Len(Parts)] /\ tailers \in 0..MaxTailers
        /\ pc \in [Collects -> PC]
    BY PartsFacts, MongoAssumption DEF Init, PC
  <2>2. DOMAIN vec = PartName /\ \A part \in PartName : vec[part] \subseteq Items[part]
    BY DEF Init
  <2> QED BY <2>1, <2>2 DEF Init, TypeOK
<1>2. OfThisPart /\ ResetAhead
  BY AfterFacts DEF Init, OfThisPart, ResetAhead
<1> QED BY <1>1, <1>2 DEF IInv

\* Going on to the next part.
LEMMA NextPartStep ==
  ASSUME TypeOK, NEW c \in Collects, NextPart(c)
  PROVE  /\ pc' \in [Collects -> PC] /\ at' \in [Collects -> 1..Len(Parts)]
         /\ pc'[c] \in {"tailcheck", "ask", "end"}
         /\ \A d \in Collects \ {c} : pc'[d] = pc[d] /\ at'[d] = at[d]
<1>1. pc \in [Collects -> PC] /\ at \in [Collects -> 1..Len(Parts)] /\ Len(Parts) \in Nat
  BY PartsFacts DEF TypeOK
<1>2. \/ /\ at[c] < Len(Parts)
         /\ at' = [at EXCEPT ![c] = at[c] + 1]
         /\ \/ pc' = [pc EXCEPT ![c] = "tailcheck"]
            \/ pc' = [pc EXCEPT ![c] = "ask"]
      \/ pc' = [pc EXCEPT ![c] = "end"] /\ at' = at
  BY DEF NextPart, Begin, Goto
<1>3. CASE at[c] < Len(Parts) /\ at' = [at EXCEPT ![c] = at[c] + 1]
  <2>1. at' \in [Collects -> 1..Len(Parts)]
    BY <1>1, <1>3
  <2> QED BY <1>1, <1>2, <1>3, <2>1 DEF PC
<1> QED BY <1>1, <1>2, <1>3 DEF PC

\* Every step of a Collect keeps the types.
LEMMA TypeStep ==
  ASSUME IInv, NEW c \in Collects, CollectStep(c)
  PROVE  TypeOK'
<1>a. TypeOK /\ OfThisPart /\ Part(c) \in PartName /\ Len(Parts) \in Nat \ {0}
  BY PartFacts, PartsFacts DEF IInv
<1>b. ASSUME NEW series \in SUBSET Series, Send(c, series)
      PROVE  sent' \in [Collects -> SUBSET Series] /\ twice' \in [Collects -> BOOLEAN]
  <2>1. sent' \in [Collects -> SUBSET Series]
    BY <1>a, <1>b DEF Send, TypeOK
  <2>2. (twice[c] \/ series \cap sent[c] # {}) \in BOOLEAN
    BY ZenonT(10)
  <2> QED BY <1>a, <1>b, <2>1, <2>2 DEF Send, TypeOK
<1>c. \A part \in PartName : {part} \X Items[part] \subseteq Series
  BY DEF Series
<1>d. \A part \in PartName : Items[part] \subseteq AllItems
  BY DEF AllItems
<1>e. ASSUME NEW l \in PC, Goto(c, l) PROVE pc' \in [Collects -> PC]
  BY <1>a, <1>e DEF Goto, TypeOK
<1>1. CASE Start(c)
  BY <1>a, <1>1 DEF Start, Goto, TypeOK, PC, packageVars
<1>2. CASE Dial(c)
  BY <1>a, <1>2 DEF Dial, Goto, TypeOK, PC, packageVars
<1>3. CASE SetUp(c)
  BY <1>a, <1>3 DEF SetUp, Goto, TypeOK, PC, UpValue
<1>4. CASE CollectUp(c)
  <2>1. {"up"} \X upGauge \in SUBSET Series
    BY <1>a DEF TypeOK, Series, Up
  <2>2. pc' \in [Collects -> PC]
    BY <1>4, <1>e DEF CollectUp, PC
  <2> QED BY <1>a, <1>4, <1>b, <2>1, <2>2 DEF CollectUp, TypeOK, packageVars
<1>5. CASE ResetUp(c)
  <2>1. at' \in [Collects -> 1..Len(Parts)] /\ pc' \in [Collects -> PC]
    <3>1. \/ /\ at' = [at EXCEPT ![c] = 1]
             /\ \E l \in {"tailcheck", "ask"} : pc' = [pc EXCEPT ![c] = l]
          \/ at' = at /\ pc' = [pc EXCEPT ![c] = "end"]
      BY <1>5 DEF ResetUp, Begin, Goto
    <3> QED BY <1>a, <3>1 DEF TypeOK, PC
  <2>2. /\ upGauge' = {}
        /\ UNCHANGED <<session, todo, chunk, sent, twice, vec, tailers, tailing>>
    BY <1>5 DEF ResetUp
  <2> QED BY <1>a, <2>1, <2>2 DEF TypeOK
<1>6. CASE Ask(c)
  <2>1. PICK names \in SUBSET Names(Part(c)) :
          LET items == WithoutSystem(Part(c), names) IN
          IF Resets[Part(c)] = "after"
          THEN todo' = [todo EXCEPT ![c] = items] /\ UNCHANGED chunk
          ELSE chunk' = [chunk EXCEPT ![c] = items] /\ UNCHANGED todo
    BY <1>6 DEF Ask
  <2>2. WithoutSystem(Part(c), names) \subseteq AllItems
    BY <1>a, <1>d, Asked
  <2>3. todo' \in [Collects -> SUBSET AllItems] /\ chunk' \in [Collects -> SUBSET AllItems]
    BY <1>a, <2>1, <2>2 DEF TypeOK
  <2>4. pc' \in [Collects -> PC]
    BY <1>a, <1>6 DEF Ask, Goto, TypeOK, PC
  <2> QED BY <1>a, <1>6, <2>3, <2>4 DEF Ask, TypeOK, packageVars
<1>7. CASE AskFails(c)
  BY <1>a, <1>7, NextPartStep DEF AskFails, TypeOK, packageVars
<1>8. CASE ResetFirst(c)
  BY <1>a, <1>8 DEF ResetFirst, Goto, TypeOK, PC
<1>9. CASE Fill(c)
  <2>1. PICK i \in chunk[c] : /\ vec' = [vec EXCEPT ![Part(c)] = @ \cup {i}]
                              /\ chunk' = [chunk EXCEPT ![c] = @ \ {i}]
    BY <1>9 DEF Fill
  <2>2. i \in Items[Part(c)]
    BY <1>a, <1>9, <2>1 DEF OfThisPart, Fill
  <2>3. chunk' \in [Collects -> SUBSET AllItems]
    BY <1>a, <2>1 DEF TypeOK
  <2>4. DOMAIN vec' = PartName /\ \A part \in PartName : vec'[part] \subseteq Items[part]
    BY <1>a, <2>1, <2>2 DEF TypeOK
  <2> QED BY <1>a, <1>9, <2>3, <2>4 DEF Fill, TypeOK
<1>10. CASE CollectVec(c)
  <2>1. {Part(c)} \X vec[Part(c)] \in SUBSET Series
    BY <1>a, <1>c DEF TypeOK
  <2>2. pc' \in [Collects -> PC] /\ at' \in [Collects -> 1..Len(Parts)]
    BY <1>a, <1>10, NextPartStep DEF CollectVec, Goto, TypeOK, PC
  <2> QED BY <1>a, <1>b, <1>10, <2>1, <2>2 DEF CollectVec, TypeOK, packageVars
<1>11. CASE NextItem(c)
  <2>1. PICK i \in todo[c] :
          /\ todo' = [todo EXCEPT ![c] = @ \ {i}]
          /\ \/ chunk' = [chunk EXCEPT ![c] = {i}] /\ Goto(c, "fill")
             \/ UNCHANGED <<pc, chunk>>
    BY <1>11 DEF NextItem
  <2>2. todo' \in [Collects -> SUBSET AllItems] /\ chunk' \in [Collects -> SUBSET AllItems]
    <3>1. todo[c] \subseteq AllItems /\ i \in AllItems
      BY <1>a, <2>1 DEF TypeOK
    <3>2. todo' \in [Collects -> SUBSET AllItems]
      BY <1>a, <2>1, <3>1 DEF TypeOK
    <3>3. \/ chunk' = [chunk EXCEPT ![c] = {i}]
          \/ chunk' = chunk
      BY <2>1
    <3>4. chunk' \in [Collects -> SUBSET AllItems]
      BY <1>a, <3>1, <3>3 DEF TypeOK
    <3> QED BY <3>2, <3>4
  <2>3. pc' \in [Collects -> PC]
    BY <1>a, <2>1 DEF Goto, TypeOK, PC
  <2> QED BY <1>a, <1>11, <2>2, <2>3 DEF NextItem, TypeOK, packageVars
<1>12. CASE Clear(c)
  BY <1>a, <1>12 DEF Clear, Cleared, Goto, TypeOK, PC
<1>13. CASE EndItems(c)
  BY <1>a, <1>13, NextPartStep DEF EndItems, TypeOK, packageVars
<1>14. CASE CheckTailer(c)
  <2>1. pc' \in [Collects -> PC] /\ at' \in [Collects -> 1..Len(Parts)]
    BY <1>a, <1>14, NextPartStep DEF CheckTailer, Goto, TypeOK, PC
  <2> QED BY <1>a, <1>14, <2>1 DEF CheckTailer, TypeOK, packageVars
<1>15. CASE StartTailer(c)
  <2>1. tailers' \in 0..MaxTailers
    BY <1>a, <1>15, MongoAssumption DEF StartTailer, TypeOK
  <2> QED BY <1>a, <1>15, <2>1, NextPartStep DEF StartTailer, TypeOK
<1>16. CASE Return(c)
  <2>1. at' \in [Collects -> 1..Len(Parts)] /\ pc' \in [Collects -> PC]
    BY <1>a, <1>16 DEF Return, Goto, TypeOK, PC
  <2> QED BY <1>a, <1>16, <2>1 DEF Return, TypeOK, packageVars
<1> QED BY <1>1, <1>2, <1>3, <1>4, <1>5, <1>6, <1>7, <1>8, <1>9, <1>10, <1>11, <1>12,
           <1>13, <1>14, <1>15, <1>16 DEF CollectStep

\* A Collect does not touch what another remembers.
LEMMA Others ==
  ASSUME TypeOK, NEW c \in Collects, CollectStep(c), NEW d \in Collects \ {c}
  PROVE  pc'[d] = pc[d] /\ at'[d] = at[d] /\ todo'[d] = todo[d] /\ chunk'[d] = chunk[d]
<1>1. pc'[d] = pc[d] /\ at'[d] = at[d]
  <2>1. CASE Start(c) \/ Dial(c) \/ SetUp(c) \/ CollectUp(c) \/ ResetUp(c) \/ Return(c)
    BY <2>1 DEF TypeOK, Start, Dial, SetUp, CollectUp, ResetUp, Return, Goto, Begin
  <2>2. CASE Ask(c) \/ ResetFirst(c) \/ Fill(c) \/ NextItem(c) \/ Clear(c)
    BY <2>2 DEF TypeOK, Ask, ResetFirst, Fill, NextItem, Clear, Goto
  <2>3. CASE AskFails(c) \/ CollectVec(c) \/ EndItems(c) \/ CheckTailer(c) \/ StartTailer(c)
    BY <2>3, NextPartStep
       DEF TypeOK, AskFails, CollectVec, EndItems, CheckTailer, StartTailer, Goto
  <2> QED BY <2>1, <2>2, <2>3 DEF CollectStep
<1>2. todo'[d] = todo[d] /\ chunk'[d] = chunk[d]
  <2>1. CASE Ask(c) \/ Fill(c) \/ NextItem(c)
    BY <2>1 DEF TypeOK, Ask, Fill, NextItem
  <2>2. CASE ~(Ask(c) \/ Fill(c) \/ NextItem(c))
    BY <2>2 DEF CollectStep, Start, Dial, SetUp, CollectUp, ResetUp, Return, AskFails,
                ResetFirst, CollectVec, Clear, EndItems, CheckTailer, StartTailer
  <2> QED BY <2>1, <2>2
<1> QED BY <1>1, <1>2

\* What a Collect has to go through is still of the part it is at.
LEMMA PartStep ==
  ASSUME IInv, NEW c \in Collects, CollectStep(c)
  PROVE  OfThisPart'
<1>a. TypeOK /\ OfThisPart /\ Part(c) \in PartName
  BY PartFacts DEF IInv
<1> DEFINE Own == /\ pc'[c] \in {"fill", "resetfirst"} => chunk'[c] \subseteq Items[Part(c)']
                  /\ \/ pc'[c] \in {"next", "clear"}
                     \/ pc'[c] = "fill" /\ Part(c)' \in After
                     => todo'[c] \subseteq Items[Part(c)']
                  /\ pc'[c] = "clear" => Part(c)' \in After
                  /\ pc'[c] = "resetfirst" => Part(c)' \notin After
<1>b. SUFFICES Own
  BY <1>a, Others DEF OfThisPart, Part
<1>1. ASSUME pc'[c] \notin {"fill", "resetfirst", "next", "clear"} PROVE Own
  BY <1>1
<1>2. CASE Start(c) \/ Dial(c) \/ SetUp(c) \/ CollectUp(c) \/ ResetUp(c) \/ Return(c)
  <2>1. pc'[c] \notin {"fill", "resetfirst", "next", "clear"}
    BY <1>a, <1>2 DEF TypeOK, Start, Dial, SetUp, CollectUp, ResetUp, Return, Goto, Begin
  <2> QED BY <1>1, <2>1
<1>3. CASE AskFails(c) \/ EndItems(c) \/ CheckTailer(c) \/ StartTailer(c)
  <2>1. pc'[c] \notin {"fill", "resetfirst", "next", "clear"}
    BY <1>a, <1>3, NextPartStep
       DEF TypeOK, AskFails, EndItems, CheckTailer, StartTailer, Goto
  <2> QED BY <1>1, <2>1
<1>4. CASE Ask(c)
  <2>1. PICK names \in SUBSET Names(Part(c)) :
          LET items == WithoutSystem(Part(c), names) IN
          IF Resets[Part(c)] = "after"
          THEN todo' = [todo EXCEPT ![c] = items] /\ UNCHANGED chunk
          ELSE chunk' = [chunk EXCEPT ![c] = items] /\ UNCHANGED todo
    BY <1>4 DEF Ask
  <2>2. WithoutSystem(Part(c), names) \subseteq Items[Part(c)]
    BY <1>a, Asked
  <2>3. Part(c)' = Part(c)
    BY <1>4 DEF Ask, Part
  <2>4. CASE Resets[Part(c)] = "after"
    <3>1. pc'[c] = "next"
      BY <1>a, <1>4, <2>4 DEF Ask, Goto, TypeOK
    <3> QED BY <1>a, <2>1, <2>2, <2>3, <2>4, <3>1 DEF TypeOK
  <2>5. CASE Resets[Part(c)] # "after"
    <3>1. pc'[c] \in {"resetfirst", "fill"}
      BY <1>a, <1>4, <2>5 DEF Ask, Goto, TypeOK
    <3>2. Part(c) \notin After
      BY <1>a, <2>5, AfterFacts
    <3> QED BY <1>a, <2>1, <2>2, <2>3, <2>5, <3>1, <3>2 DEF TypeOK
  <2> QED BY <2>4, <2>5
<1>5. CASE ResetFirst(c)
  <2>1. pc[c] = "resetfirst" /\ pc'[c] = "fill" /\ UNCHANGED <<at, todo, chunk>>
    BY <1>a, <1>5 DEF ResetFirst, Goto, TypeOK
  <2> QED BY <1>a, <2>1 DEF OfThisPart, Part
<1>6. CASE Fill(c)
  <2>1. pc[c] = "fill" /\ UNCHANGED <<pc, at, todo>> /\ chunk'[c] \subseteq chunk[c]
    BY <1>a, <1>6 DEF Fill, TypeOK
  <2> QED BY <1>a, <2>1 DEF OfThisPart, Part
<1>7. CASE CollectVec(c)
  <2>1. CASE Resets[Part(c)] = "after"
    <3>1. pc[c] = "fill" /\ pc'[c] = "clear" /\ UNCHANGED <<at, todo, chunk>>
      BY <1>a, <1>7, <2>1 DEF CollectVec, Goto, TypeOK
    <3>2. Part(c) \in After
      BY <1>a, <2>1, AfterFacts
    <3> QED BY <1>a, <3>1, <3>2 DEF OfThisPart, Part
  <2>2. CASE Resets[Part(c)] # "after"
    <3>1. pc'[c] \notin {"fill", "resetfirst", "next", "clear"}
      BY <1>a, <1>7, <2>2, NextPartStep DEF CollectVec
    <3> QED BY <1>1, <3>1
  <2> QED BY <2>1, <2>2
<1>8. CASE NextItem(c)
  <2>1. PICK i \in todo[c] :
          /\ todo' = [todo EXCEPT ![c] = @ \ {i}]
          /\ \/ chunk' = [chunk EXCEPT ![c] = {i}] /\ Goto(c, "fill")
             \/ UNCHANGED <<pc, chunk>>
    BY <1>8 DEF NextItem
  <2>2. pc[c] = "next" /\ UNCHANGED at /\ todo[c] \subseteq Items[Part(c)]
    BY <1>a, <1>8 DEF NextItem, OfThisPart
  <2>3. todo'[c] \subseteq Items[Part(c)] /\ Part(c)' = Part(c)
    BY <1>a, <2>1, <2>2 DEF TypeOK, Part
  <2>4. \/ pc'[c] = "fill" /\ chunk'[c] = {i}
        \/ pc'[c] = "next"
    BY <1>a, <2>1, <2>2 DEF Goto, TypeOK
  <2> QED BY <2>1, <2>2, <2>3, <2>4
<1>9. CASE Clear(c)
  <2>1. pc[c] = "clear" /\ pc'[c] = "next" /\ at' = at /\ todo' = todo
    BY <1>a, <1>9 DEF Clear, Goto, TypeOK
  <2>2. todo'[c] \subseteq Items[Part(c)']
    BY <1>a, <2>1 DEF OfThisPart, Part
  <2> QED BY <2>1, <2>2
<1> QED BY <1>2, <1>3, <1>4, <1>5, <1>6, <1>7, <1>8, <1>9 DEF CollectStep

\* Somebody is still about to reset what has been filled.
LEMMA ResetStep ==
  ASSUME IInv, NEW c \in Collects, CollectStep(c)
  PROVE  ResetAhead'
<1>a. TypeOK /\ OfThisPart /\ ResetAhead /\ Part(c) \in PartName /\ After \subseteq PartName
  BY PartFacts, AfterFacts DEF IInv
<1>b. \A d \in Collects \ {c} : pc'[d] = pc[d] /\ Part(d)' = Part(d)
  BY <1>a, Others DEF Part
<1> DEFINE Ahead == \A part \in After :
                      vec'[part] # {} =>
                        \E d \in Collects : pc'[d] \in {"fill", "clear"} /\ Part(d)' = part
<1>1. Ahead
  <2>1. ASSUME pc[c] \notin {"fill", "clear"},
               \A part \in After : vec'[part] \subseteq vec[part]
        PROVE  Ahead
    <3> SUFFICES ASSUME NEW part \in After, vec'[part] # {}
                 PROVE  \E d \in Collects : pc'[d] \in {"fill", "clear"} /\ Part(d)' = part
      OBVIOUS
    <3>1. PICK d \in Collects : pc[d] \in {"fill", "clear"} /\ Part(d) = part
      BY <1>a, <2>1 DEF ResetAhead
    <3>2. d # c
      BY <2>1, <3>1
    <3>3. pc'[d] \in {"fill", "clear"} /\ Part(d)' = part
      BY <1>b, <3>1, <3>2
    <3> QED BY <3>3
  <2>2. CASE ResetFirst(c)
    <3>1. pc[c] = "resetfirst" /\ vec' = [vec EXCEPT ![Part(c)] = {}]
      BY <2>2 DEF ResetFirst
    <3>2. \A part \in After : vec'[part] \subseteq vec[part]
      BY <1>a, <3>1
    <3> QED BY <2>1, <3>1, <3>2
  <2>3. CASE Fill(c)
    <3>1. pc'[c] = "fill" /\ pc[c] = "fill" /\ Part(c)' = Part(c)
      BY <2>3 DEF Fill, Part
    <3>2. \A part \in After \ {Part(c)} : vec'[part] = vec[part]
      BY <1>a, <2>3 DEF Fill, TypeOK
    <3> QED BY <1>a, <1>b, <3>1, <3>2 DEF ResetAhead
  <2>4. CASE CollectVec(c)
    <3>1. UNCHANGED vec /\ pc[c] = "fill"
      BY <2>4 DEF CollectVec, packageVars
    <3>2. CASE Resets[Part(c)] = "after"
      <4>1. pc'[c] = "clear" /\ Part(c)' = Part(c)
        BY <1>a, <2>4, <3>2 DEF CollectVec, Goto, Part, TypeOK
      <4> QED BY <1>a, <1>b, <3>1, <4>1 DEF ResetAhead
    <3>3. CASE Resets[Part(c)] # "after"
      <4>1. Part(c) \notin After
        BY <1>a, <3>3, AfterFacts
      <4> QED BY <1>a, <1>b, <3>1, <4>1 DEF ResetAhead
    <3> QED BY <3>2, <3>3
  <2>5. CASE Clear(c)
    <3>1. vec'[Part(c)] = {} /\ \A part \in After \ {Part(c)} : vec'[part] = vec[part]
      BY <1>a, <2>5 DEF Clear, Cleared, TypeOK
    <3> QED BY <1>a, <1>b, <3>1 DEF ResetAhead
  <2>6. CASE ~(ResetFirst(c) \/ Fill(c) \/ CollectVec(c) \/ Clear(c))
    <3>1. vec' = vec /\ pc[c] \notin {"fill", "clear"}
      BY <2>6 DEF CollectStep, Start, Dial, SetUp, CollectUp, ResetUp, Return, Ask, AskFails,
                  NextItem, EndItems, CheckTailer, StartTailer, packageVars
    <3>2. \A part \in After : vec'[part] \subseteq vec[part]
      BY <3>1
    <3> QED BY <2>1, <3>1, <3>2
  <2> QED BY <2>2, <2>3, <2>4, <2>5, <2>6
<1>2. upGauge' # {} => \E d \in Collects : pc'[d] \in {"upcollect", "upreset"}
  <2>1. CASE SetUp(c)
    BY <1>a, <2>1 DEF SetUp, Goto, TypeOK
  <2>2. CASE CollectUp(c)
    BY <1>a, <2>2 DEF CollectUp, Goto, TypeOK
  <2>3. CASE ResetUp(c)
    BY <2>3 DEF ResetUp
  <2>4. CASE ~(SetUp(c) \/ CollectUp(c) \/ ResetUp(c))
    <3>1. UNCHANGED upGauge /\ pc[c] \notin {"upcollect", "upreset"}
      BY <2>4 DEF CollectStep, Start, Dial, Return, Ask, AskFails, ResetFirst, Fill,
                  CollectVec, NextItem, Clear, EndItems, CheckTailer, StartTailer, packageVars
    <3> QED BY <1>a, <1>b, <3>1 DEF ResetAhead
  <2> QED BY <2>1, <2>2, <2>3, <2>4
<1> QED BY <1>1, <1>2 DEF ResetAhead

\* The inductive invariant of overlapping Collects (MongodbCollector.Collect).
THEOREM Invariance == Spec => []IInv
<1>1. IInv /\ [Next]_vars => IInv'
  <2> SUFFICES ASSUME IInv, [Next]_vars PROVE IInv'
    OBVIOUS
  <2>1. ASSUME NEW c \in Collects, CollectStep(c) PROVE IInv'
    BY <2>1, TypeStep, PartStep, ResetStep DEF IInv
  <2>2. CASE UNCHANGED vars
    BY <2>2 DEF vars, collectVars, packageVars, IInv, TypeOK, OfThisPart, ResetAhead, Part
  <2> QED BY <2>1, <2>2 DEF Next
<1> QED BY InitInv, <1>1, PTL DEF Spec

-----------------------------------------------------------------------------
\* The Collects and the vectors keep to their types (Collect).
THEOREM TypeCorrect == Spec => []TypeOK
<1>1. IInv => TypeOK
  BY DEF IInv
<1> QED BY Invariance, <1>1, PTL

\* When no Collect is in progress the vectors that are reset after use are empty, however
\* many have overlapped.
THEOREM Clean == Spec => []NothingLeftBehind
<1>1. IInv => NothingLeftBehind
  BY DEF IInv, ResetAhead, NothingLeftBehind, After
<1> QED BY Invariance, <1>1, PTL
-----------------------------------------------------------------------------
(***************************************************************************)
(* One Collect at a time.  MongoCollectHistory remembers of a Collect that *)
(* no other has run since it began, and what MongoDB has answered it.      *)
(* Such a Collect sends just that, and each series once.                   *)
(***************************************************************************)
\* What a Collect has still to set is of the part it is filling, the tailer has no metrics
\* of its own, one part alone is reset before it is filled, and a Collect begins anew.
PlaceInv ==
  \A c \in Collects :
    /\ pc[c] \notin {"resetfirst", "fill"} => chunk[c] = {}
    /\ pc[c] \in {"ask", "resetfirst", "fill", "next", "clear"} => Part(c) # "tail"
    /\ pc[c] = "resetfirst" => Part(c) = "replset"
    /\ pc[c] = "fill" /\ Part(c) \notin After => Part(c) \in Lasting \cup {"replset"}
    /\ pc[c] = "next" => Part(c) \in After
    /\ pc[c] = "idle" => sent[c] = {} /\ ~twice[c]

SoloAlone ==
  \A c \in Collects :
    /\ solo[c] => pc[c] # "idle" /\ \A d \in Collects \ {c} : pc[d] = "idle"
    /\ ~solo[c] => answered[c] = {}

\* mongodb_up is sent with the outcome of the dial ...
UpSent(c) ==
  /\ pc[c] \in {"dial", "upset", "upcollect"} => sent[c] = {}
  /\ pc[c] = "dial" => answered[c] = {}
  /\ pc[c] \in {"upset", "upcollect", "upreset"} => answered[c] = {<<"up", UpValue(c)>>}
  /\ pc[c] = "upcollect" => upGauge = {UpValue(c)}
  /\ pc[c] = "upreset" => sent[c] = answered[c]

InParts == {"ask", "resetfirst", "fill", "next", "clear", "tailcheck", "tailstart"}

\* ... then the parts in their order, of the one it is at the items it is through with ...
Earlier(c, s) == s[1] = "up" \/ \E j \in 1..(at[c] - 1) : s[1] = Parts[j]

Through(c, s) ==
  /\ pc[c] \in {"fill", "next", "clear"} /\ Part(c) \in After
  /\ s[1] = Part(c) /\ s[2] \notin todo[c]
  /\ pc[c] = "fill" => s[2] \notin chunk[c] \cup vec[Part(c)]

InOrder(c) == pc[c] \in InParts => \A s \in sent[c] : Earlier(c, s) \/ Through(c, s)

\* ... and what was answered is sent, or is in the vector or about to be.
Pending(c) ==
  IF pc[c] = "resetfirst" THEN {Part(c)} \X chunk[c]
  ELSE IF pc[c] = "fill" THEN {Part(c)} \X (chunk[c] \cup vec[Part(c)])
  ELSE {}

Owing(c) ==
  /\ ~twice[c]
  /\ pc[c] \notin {"dial", "upset", "upcollect"} => answered[c] \subseteq sent[c] \cup Pending(c)
  /\ \A s \in sent[c] \ answered[c] : s[1] \in Lasting
  /\ pc[c] \in {"resetfirst", "fill"} => {Part(c)} \X chunk[c] \subseteq answered[c]
  /\ pc[c] = "fill" =>
       /\ Part(c) \in Lasting \/ {Part(c)} \X vec[Part(c)] \subseteq answered[c]
       /\ Part(c) \in After => (chunk[c] \cup vec[Part(c)]) \cap todo[c] = {}

SoloInv == \A c \in Collects : solo[c] => UpSent(c) /\ InOrder(c) /\ Owing(c)

HInv == IInv /\ PlaceInv /\ SoloAlone /\ SoloInv

-----------------------------------------------------------------------------
\* No part comes twice, and none is called up.
LEMMA PartsDistinct ==
  /\ \A i, j \in 1..Len(Parts) : Parts[i] = Parts[j] => i = j
  /\ \A i \in 1..Len(Parts) : Parts[i] # "up"
<1> DEFINE S(p) == IfEnabled(p)
           Listed(s, D) == /\ s \in Seq(D)
                           /\ \A i, j \in 1..Len(s) : s[i] = s[j] => i = j
<1>1. ASSUME NEW D, NEW s, Listed(s, D), NEW p, p \notin D
      PROVE  Listed(s \o S(p), D \cup {p})
  <2>1. CASE p \notin Options
    <3>1. S(p) = << >>
      BY <2>1 DEF IfEnabled
    <3>2. s \o S(p) = s
      BY <1>1, <3>1
    <3>3. s \in Seq(D \cup {p})
      BY <1>1
    <3> QED BY <1>1, <3>2, <3>3
  <2>2. CASE p \in Options
    <3> DEFINE t == Append(s, p)
    <3>1. s \o S(p) = t
      <4>1. S(p) = <<p>>
        BY <2>2 DEF IfEnabled
      <4> QED BY <1>1, <4>1
    <3>2. /\ t \in Seq(D \cup {p}) /\ Len(s) \in Nat /\ Len(t) = Len(s) + 1
          /\ \A i \in 1..Len(s) : t[i] = s[i] /\ s[i] \in D
          /\ t[Len(s) + 1] = p
      BY <1>1
    <3> HIDE DEF t
    <3>3. ASSUME NEW i \in 1..Len(t), NEW j \in 1..Len(t), t[i] = t[j] PROVE i = j
      <4>1. CASE i \in 1..Len(s) /\ j \in 1..Len(s)
        BY <1>1, <3>2, <3>3, <4>1
      <4>2. CASE i \notin 1..Len(s) /\ j \in 1..Len(s)
        <5>1. i = Len(s) + 1
          BY <3>2, <4>2
        <5> QED BY <1>1, <3>2, <3>3, <4>2, <5>1
      <4>3. CASE i \in 1..Len(s) /\ j \notin 1..Len(s)
        <5>1. j = Len(s) + 1
          BY <3>2, <4>3
        <5> QED BY <1>1, <3>2, <3>3, <4>3, <5>1
      <4>4. CASE i \notin 1..Len(s) /\ j \notin 1..Len(s)
        BY <3>2, <4>4
      <4> QED BY <4>1, <4>2, <4>3, <4>4
    <3> QED BY <3>1, <3>2, <3>3
  <2> QED BY <2>1, <2>2
<1>2. Listed(<<"server">>, {"server"})
  OBVIOUS
<1> HIDE DEF S, Listed
<1> DEFINE s1 == <<"server">> \o S("replset")   s2 == s1 \o S("conf")
           s3 == s2 \o S("oplog")               s4 == s3 \o S("tail")
           s5 == s4 \o S("top")                 s6 == s5 \o S("database")
           s7 == s6 \o S("collection")          s8 == s7 \o S("profile")
           D1 == {"server"} \cup {"replset"}    D2 == D1 \cup {"conf"}
           D3 == D2 \cup {"oplog"}              D4 == D3 \cup {"tail"}
           D5 == D4 \cup {"top"}                D6 == D5 \cup {"database"}
           D7 == D6 \cup {"collection"}         D8 == D7 \cup {"profile"}
           D9 == D8 \cup {"connpool"}
<1>3. /\ "replset" \notin {"server"} /\ "conf" \notin D1 /\ "oplog" \notin D2
      /\ "tail" \notin D3 /\ "top" \notin D4 /\ "database" \notin D5
      /\ "collection" \notin D6 /\ "profile" \notin D7 /\ "connpool" \notin D8
      /\ "up" \notin D9
  OBVIOUS
<1>4. Parts = s8 \o S("connpool")
  BY DEF Parts, S
<1> HIDE DEF D1, D2, D3, D4, D5, D6, D7, D8, D9
<1>5. Listed(s1, D1)
  BY <1>1, <1>2, <1>3 DEF D1
<1>6. Listed(s2, D2)
  BY <1>1, <1>3, <1>5 DEF D2
<1>7. Listed(s3, D3)
  BY <1>1, <1>3, <1>6 DEF D3
<1>8. Listed(s4, D4)
  BY <1>1, <1>3, <1>7 DEF D4
<1>9. Listed(s5, D5)
  BY <1>1, <1>3, <1>8 DEF D5
<1>10. Listed(s6, D6)
  BY <1>1, <1>3, <1>9 DEF D6
<1>11. Listed(s7, D7)
  BY <1>1, <1>3, <1>10 DEF D7
<1>12. Listed(s8, D8)
  BY <1>1, <1>3, <1>11 DEF D8
<1>13. Listed(Parts, D9)
  BY <1>1, <1>3, <1>4, <1>12 DEF D9
<1>14. \A i \in 1..Len(Parts) : Parts[i] \in D9
  BY <1>13, ElementOfSeq DEF Listed
<1> QED BY <1>3, <1>13, <1>14 DEF Listed

\* When a part resets its vectors.
LEMMA WhenReset ==
  ASSUME NEW part \in PartName
  PROVE  /\ Resets[part] = "before" <=> part = "replset"
         /\ part \in Lasting \cup {"tail"} <=> Resets[part] \notin {"after", "before"}
BY DEF PartName, Resets, Lasting, ServerStatus, ReplSetStatus, ReplSetConf,
       OplogStatus, OplogTailStats, TopStatus, DatabaseStatus, CollectionStatus,
       ProfileStatus, ConnPoolStats

\* Only Return takes a Collect back to where it starts.
LEMMA Working ==
  ASSUME TypeOK, NEW c \in Collects, CollectStep(c)
  PROVE  IF Return(c) THEN pc[c] = "end" /\ pc'[c] = "idle" ELSE pc'[c] # "idle"
<1>1. CASE Return(c)
  BY <1>1 DEF Return, Goto, TypeOK
<1>2. CASE Start(c) \/ Dial(c) \/ SetUp(c) \/ CollectUp(c) \/ ResetUp(c)
  BY <1>2 DEF TypeOK, Start, Dial, SetUp, CollectUp, ResetUp, Return, Goto, Begin
<1>3. CASE Ask(c) \/ ResetFirst(c) \/ Fill(c) \/ NextItem(c) \/ Clear(c)
  <2>1. pc[c] # "end"
    BY <1>3 DEF Ask, ResetFirst, Fill, NextItem, Clear
  <2>2. ~Return(c)
    BY <2>1 DEF Return
  <2> QED BY <1>3, <2>2 DEF TypeOK, Ask, ResetFirst, Fill, NextItem, Clear, Goto
<1>4. CASE AskFails(c) \/ CollectVec(c) \/ EndItems(c) \/ CheckTailer(c) \/ StartTailer(c)
  <2>1. pc[c] # "end"
    BY <1>4 DEF AskFails, CollectVec, EndItems, CheckTailer, StartTailer
  <2>2. ~Return(c)
    BY <2>1 DEF Return
  <2> QED BY <1>4, <2>2, NextPartStep
          DEF TypeOK, AskFails, CollectVec, EndItems, CheckTailer, StartTailer, Goto
<1> QED BY <1>1, <1>2, <1>3, <1>4 DEF CollectStep

\* A part is begun by its command, but for the tailer.
LEMMA Begun ==
  ASSUME TypeOK, NEW c \in Collects, NextPart(c)
  PROVE  \/ pc'[c] = "end" /\ at'[c] = at[c]
         \/ /\ at'[c] = at[c] + 1
            /\ pc'[c] = IF Parts[at'[c]] = "tail" THEN "tailcheck" ELSE "ask"
BY DEF TypeOK, NextPart, Begin, Goto

\* What a step of a Collect sends is its own.
LEMMA OthersSent ==
  ASSUME TypeOK, NEW c \in Collects, CollectStep(c), NEW d \in Collects \ {c}
  PROVE  sent'[d] = sent[d] /\ twice'[d] = twice[d]
<1>1. CASE CollectUp(c) \/ CollectVec(c)
  <2>1. PICK series : Send(c, series)
    BY <1>1 DEF CollectUp, CollectVec
  <2>2. sent'[d] = sent[d]
    BY <2>1 DEF Send, TypeOK
  <2>3. twice'[d] = twice[d]
    BY <2>1 DEF Send, TypeOK
  <2> QED BY <2>2, <2>3
<1>2. CASE Return(c)
  BY <1>2 DEF Return, TypeOK
<1>3. CASE ~(CollectUp(c) \/ CollectVec(c) \/ Return(c))
  BY <1>3 DEF CollectStep, Start, Dial, SetUp, ResetUp, Ask, AskFails, ResetFirst, Fill,
              NextItem, Clear, EndItems, CheckTailer, StartTailer
<1> QED BY <1>1, <1>2, <1>3

\* The place of a Collect is what PlaceInv says, whoever steps.
LEMMA PlaceStep ==
  ASSUME IInv, PlaceInv, NEW c \in Collects, CollectStep(c)
  PROVE  PlaceInv'
<1>a. TypeOK /\ OfThisPart /\ Part(c) \in PartName /\ TypeOK' /\ Len(Parts) \in Nat \ {0}
  BY PartFacts, PartsFacts, TypeStep DEF IInv
<1> DEFINE Own(d) ==
      /\ pc[d] \notin {"resetfirst", "fill"} => chunk[d] = {}
      /\ pc[d] \in {"ask", "resetfirst", "fill", "next", "clear"} => Part(d) # "tail"
      /\ pc[d] = "resetfirst" => Part(d) = "replset"
      /\ pc[d] = "fill" /\ Part(d) \notin After => Part(d) \in Lasting \cup {"replset"}
      /\ pc[d] = "next" => Part(d) \in After
      /\ pc[d] = "idle" => sent[d] = {} /\ ~twice[d]
<1>b. Own(c)
  BY DEF PlaceInv
<1>c. ASSUME NEW d \in Collects \ {c} PROVE Own(d)'
  <2>1. Own(d)
    BY DEF PlaceInv
  <2>2. /\ pc'[d] = pc[d] /\ chunk'[d] = chunk[d] /\ Part(d)' = Part(d)
        /\ sent'[d] = sent[d] /\ twice'[d] = twice[d]
    BY <1>a, Others, OthersSent DEF Part
  <2> QED BY <2>1, <2>2
<1>d. SUFFICES Own(c)'
  BY <1>c DEF PlaceInv
<1>e. pc[c] \notin {"resetfirst", "fill"} => chunk[c] = {}
  BY <1>b
<1>n. ASSUME NextPart(c), chunk'[c] = {} PROVE Own(c)'
  <2>1. pc'[c] \in {"tailcheck", "ask", "end"}
    BY <1>a, <1>n, NextPartStep
  <2>2. pc'[c] = "ask" => Part(c)' # "tail"
    BY <1>a, <1>n, Begun DEF Part
  <2> QED BY <1>n, <2>1, <2>2
<1>1. CASE Start(c) \/ Dial(c) \/ SetUp(c) \/ CollectUp(c)
  <2>1. pc[c] \in {"idle", "dial", "upset", "upcollect"} /\ chunk' = chunk
    BY <1>1 DEF Start, Dial, SetUp, CollectUp
  <2>2. pc'[c] \in {"dial", "upset", "upcollect", "upreset"}
    BY <1>a, <1>1 DEF Start, Dial, SetUp, CollectUp, Goto, TypeOK
  <2> QED BY <1>e, <2>1, <2>2
<1>2. CASE ResetUp(c)
  <2>1. pc[c] = "upreset" /\ chunk' = chunk
    BY <1>2 DEF ResetUp
  <2>2. \/ Begin(c, 1)
        \/ Goto(c, "end")
    BY <1>2 DEF ResetUp
  <2>3. pc'[c] \in {"tailcheck", "ask", "end"} /\ (pc'[c] = "ask" => Part(c)' # "tail")
    BY <1>a, <2>2 DEF Begin, Goto, Part, TypeOK
  <2> QED BY <1>e, <2>1, <2>3
<1>3. CASE Return(c)
  BY <1>a, <1>e, <1>3 DEF Return, Goto, TypeOK
<1>4. CASE AskFails(c) \/ EndItems(c) \/ StartTailer(c)
  <2>1. NextPart(c) /\ chunk' = chunk /\ pc[c] \in {"ask", "next", "tailstart"}
    BY <1>4 DEF AskFails, EndItems, StartTailer
  <2> QED BY <1>e, <1>n, <2>1
<1>5. CASE CheckTailer(c)
  <2>1. chunk' = chunk /\ pc[c] = "tailcheck"
    BY <1>5 DEF CheckTailer
  <2>2. CASE tailing
    BY <1>e, <1>n, <1>5, <2>1, <2>2 DEF CheckTailer
  <2>3. CASE ~tailing
    <3>1. pc'[c] = "tailstart"
      BY <1>a, <1>5, <2>3 DEF CheckTailer, Goto, TypeOK
    <3> QED BY <1>e, <2>1, <3>1
  <2> QED BY <2>2, <2>3
<1>6. CASE CollectVec(c)
  <2>1. chunk' = chunk /\ pc[c] = "fill" /\ chunk[c] = {}
    BY <1>6 DEF CollectVec
  <2>2. CASE Resets[Part(c)] = "after"
    <3>1. pc'[c] = "clear" /\ at' = at
      BY <1>a, <1>6, <2>2 DEF CollectVec, Goto, TypeOK
    <3> QED BY <1>b, <2>1, <3>1 DEF Part
  <2>3. CASE Resets[Part(c)] # "after"
    BY <1>n, <1>6, <2>1, <2>3 DEF CollectVec
  <2> QED BY <2>2, <2>3
<1>7. CASE Ask(c)
  <2>1. Part(c)' = Part(c) /\ Part(c) # "tail" /\ pc[c] = "ask"
    BY <1>b, <1>7 DEF Ask, Part
  <2>2. CASE Resets[Part(c)] = "after"
    <3>1. pc'[c] = "next" /\ chunk' = chunk
      BY <1>a, <1>7, <2>2 DEF Ask, Goto, TypeOK
    <3> QED BY <1>a, <1>e, <2>1, <2>2, <3>1, AfterFacts
  <2>3. CASE Resets[Part(c)] = "before"
    <3>1. pc'[c] = "resetfirst"
      BY <1>a, <1>7, <2>3 DEF Ask, Goto, TypeOK
    <3> QED BY <1>a, <2>1, <2>3, <3>1, WhenReset
  <2>4. CASE Resets[Part(c)] \notin {"after", "before"}
    <3>1. pc'[c] = "fill"
      BY <1>a, <1>7, <2>4 DEF Ask, Goto, TypeOK
    <3>2. Part(c) \in Lasting
      BY <1>a, <2>1, <2>4, WhenReset
    <3> QED BY <2>1, <3>1, <3>2
  <2> QED BY <2>2, <2>3, <2>4
<1>8. CASE ResetFirst(c)
  <2>1. pc[c] = "resetfirst" /\ pc'[c] = "fill" /\ Part(c)' = Part(c)
    BY <1>a, <1>8 DEF ResetFirst, Goto, TypeOK, Part
  <2> QED BY <1>b, <2>1
<1>9. CASE Fill(c)
  <2>1. pc[c] = "fill" /\ pc'[c] = "fill" /\ Part(c)' = Part(c)
    BY <1>9 DEF Fill, Part
  <2> QED BY <1>b, <2>1
<1>10. CASE NextItem(c)
  <2>1. pc[c] = "next" /\ Part(c)' = Part(c)
    BY <1>10 DEF NextItem, Part
  <2>2. \/ pc'[c] = "fill"
        \/ pc'[c] = "next" /\ chunk' = chunk
    BY <1>a, <1>10 DEF NextItem, Goto, TypeOK
  <2> QED BY <1>b, <2>1, <2>2
<1>11. CASE Clear(c)
  <2>1. pc[c] = "clear" /\ pc'[c] = "next" /\ Part(c)' = Part(c) /\ chunk' = chunk
    BY <1>a, <1>11 DEF Clear, Goto, TypeOK, Part
  <2>2. Part(c) \in After
    BY <1>a, <2>1 DEF OfThisPart
  <2> QED BY <1>b, <2>1, <2>2
<1> QED BY <1>1, <1>2, <1>3, <1>4, <1>5, <1>6, <1>7, <1>8, <1>9, <1>10, <1>11
        DEF CollectStep

-----------------------------------------------------------------------------
\* One that is alone when a step is over took the step itself, or has just begun.
LEMMA AloneActs ==
  ASSUME TypeOK, SoloAlone, Next, Remember, NEW c \in Collects, solo'[c]
  PROVE  /\ CollectStep(c)
         /\ solo[c] \/ (Start(c) /\ pc[c] = "idle" /\ ~solo[c])
         /\ \A d \in Collects \ {c} : pc[d] = "idle"
         /\ answered'[c] = answered[c] \cup Learns(c)
         /\ ~Return(c)
<1>1. /\ pc'[c] # "idle" /\ (solo[c] \/ Starts(c))
      /\ \A d \in Collects \ {c} : pc'[d] = "idle"
  BY DEF Remember
<1>2. answered'[c] = answered[c] \cup Learns(c)
  BY DEF Remember
<1>3. PICK e \in Collects : CollectStep(e)
  BY DEF Next
<1>4. e = c
  <2> SUFFICES ASSUME e # c PROVE FALSE
    OBVIOUS
  <2>1. pc'[c] = pc[c]
    BY <1>3, Others
  <2>2. solo[c]
    BY <1>1, <2>1 DEF Starts
  <2>3. pc[e] = "idle" /\ pc'[e] = "idle"
    BY <1>1, <2>2 DEF SoloAlone
  <2>4. ~Return(e)
    BY <2>3 DEF Return
  <2> QED BY <1>3, <2>3, <2>4, Working
<1>5. CollectStep(c)
  BY <1>3, <1>4
<1>6. \A d \in Collects \ {c} : pc[d] = "idle"
  BY <1>1, <1>5, Others
<1>7. ~Return(c)
  BY <1>1, <1>5, Working
<1>8. ASSUME ~solo[c] PROVE Start(c) /\ pc[c] = "idle"
  <2>1. pc[c] = "idle"
    BY <1>1, <1>8 DEF Starts
  <2> QED BY <1>5, <2>1 DEF CollectStep, Dial, SetUp, CollectUp, ResetUp, Ask, AskFails,
             ResetFirst, Fill, CollectVec, NextItem, Clear, EndItems, CheckTailer,
             StartTailer, Return
<1> QED BY <1>2, <1>5, <1>6, <1>7, <1>8

\* Who ran alone and who did not stays true to the vectors of the others.
LEMMA AloneStep ==
  ASSUME SoloAlone, Remember
  PROVE  SoloAlone'
<1> SUFFICES ASSUME NEW c \in Collects
             PROVE  /\ solo'[c] => /\ pc'[c] # "idle"
                                   /\ \A d \in Collects \ {c} : pc'[d] = "idle"
                    /\ ~solo'[c] => answered'[c] = {}
  BY DEF SoloAlone
<1>1. /\ solo'[c] => /\ pc'[c] # "idle"
                     /\ \A d \in Collects \ {c} : pc'[d] = "idle"
  BY DEF Remember
<1>2. ~solo'[c] => answered'[c] = {}
  BY DEF Remember
<1> QED BY <1>1, <1>2

\* What one that is alone has to reset is only in the vector it is at.
LEMMA AloneVectors ==
  ASSUME ResetAhead, NEW c \in Collects, \A d \in Collects \ {c} : pc[d] = "idle",
         NEW part \in After, vec[part] # {}
  PROVE  pc[c] \in {"fill", "clear"} /\ Part(c) = part
<1>1. PICK d \in Collects : pc[d] \in {"fill", "clear"} /\ Part(d) = part
  BY DEF ResetAhead
<1>2. d = c
  BY <1>1
<1> QED BY <1>1, <1>2

\* It has sent mongodb_up with the outcome of its dial when it goes on to the parts.
LEMMA UpStep ==
  ASSUME HInv, NEW c \in Collects, answered'[c] = answered[c] \cup Learns(c),
         solo[c] \/ (~solo[c] /\ pc[c] = "idle"),
         Start(c) \/ Dial(c) \/ SetUp(c) \/ CollectUp(c) \/ ResetUp(c)
  PROVE  (UpSent(c) /\ InOrder(c) /\ Owing(c))'
<1>a. TypeOK /\ (pc[c] = "idle" => sent[c] = {} /\ ~twice[c])
      /\ (~solo[c] => answered[c] = {})
  BY DEF HInv, IInv, PlaceInv, SoloAlone
<1>b. solo[c] => UpSent(c) /\ InOrder(c) /\ Owing(c)
  BY DEF HInv, SoloInv
<1>s. solo[c] => pc[c] # "idle"
  BY DEF HInv, SoloAlone
<1>1. CASE Start(c)
  <2>1. /\ pc[c] = "idle" /\ pc'[c] = "dial" /\ sent'[c] = sent[c] /\ twice'[c] = twice[c]
    BY <1>a, <1>1 DEF Start, Goto, TypeOK
  <2>2. Learns(c) = {}
    BY <2>1 DEF Learns
  <2>3. sent'[c] = {} /\ ~twice'[c] /\ answered'[c] = {}
    BY <1>a, <1>s, <2>1, <2>2
  <2> QED BY <2>1, <2>3 DEF UpSent, InOrder, InParts, Owing, Pending
<1>2. CASE Dial(c)
  <2>1. /\ pc[c] = "dial" /\ pc'[c] = "upset" /\ sent'[c] = sent[c] /\ twice'[c] = twice[c]
    BY <1>a, <1>2 DEF Dial, Goto, TypeOK
  <2>2. Learns(c) = {<<"up", UpValue(c)'>>}
    BY <2>1 DEF Learns
  <2>3. sent'[c] = {} /\ ~twice'[c] /\ answered'[c] = {<<"up", UpValue(c)'>>}
    BY <1>a, <1>b, <2>1, <2>2 DEF UpSent, Owing
  <2> QED BY <2>1, <2>3 DEF UpSent, InOrder, InParts, Owing, Pending
<1>3. CASE SetUp(c)
  <2>1. /\ pc[c] = "upset" /\ pc'[c] = "upcollect" /\ sent'[c] = sent[c]
        /\ twice'[c] = twice[c] /\ upGauge' = {UpValue(c)} /\ UpValue(c)' = UpValue(c)
    BY <1>a, <1>3 DEF SetUp, Goto, TypeOK, UpValue
  <2>2. Learns(c) = {}
    BY <2>1 DEF Learns
  <2>3. sent'[c] = {} /\ ~twice'[c] /\ answered'[c] = {<<"up", UpValue(c)'>>}
    BY <1>a, <1>b, <2>1, <2>2 DEF UpSent, Owing
  <2> QED BY <2>1, <2>3 DEF UpSent, InOrder, InParts, Owing, Pending
<1>4. CASE CollectUp(c)
  <2>1. /\ pc[c] = "upcollect" /\ pc'[c] = "upreset" /\ UpValue(c)' = UpValue(c)
    BY <1>a, <1>4 DEF CollectUp, Goto, TypeOK, UpValue
  <2>2. Learns(c) = {}
    BY <2>1 DEF Learns
  <2>3. sent[c] = {} /\ ~twice[c] /\ answered'[c] = {<<"up", UpValue(c)'>>}
        /\ upGauge = {UpValue(c)}
    BY <1>a, <1>b, <2>1, <2>2 DEF UpSent, Owing
  <2>4. sent'[c] = {<<"up", UpValue(c)>>}
    <3>1. sent'[c] = sent[c] \cup ({"up"} \X upGauge)
      BY <1>a, <1>4 DEF CollectUp, Send, TypeOK
    <3> QED BY <2>3, <3>1
  <2>5. ~twice'[c]
    <3>1. twice'[c] = (twice[c] \/ ({"up"} \X upGauge) \cap sent[c] # {})
      BY <1>a, <1>4 DEF CollectUp, Send, TypeOK
    <3> QED BY <2>3, <3>1
  <2> QED BY <2>1, <2>3, <2>4, <2>5 DEF UpSent, InOrder, InParts, Owing, Pending
<1>5. CASE ResetUp(c)
  <2>1. /\ pc[c] = "upreset" /\ sent'[c] = sent[c] /\ twice'[c] = twice[c]
        /\ pc'[c] \in {"tailcheck", "ask", "end"}
    BY <1>a, <1>5 DEF ResetUp, Begin, Goto, TypeOK
  <2>2. Learns(c) = {}
    BY <2>1 DEF Learns
  <2>3. /\ sent'[c] = {<<"up", UpValue(c)>>} /\ ~twice'[c]
        /\ answered'[c] = {<<"up", UpValue(c)>>}
    BY <1>a, <1>b, <2>1, <2>2 DEF UpSent, Owing
  <2>4. \A s \in sent'[c] : s[1] = "up"
    BY <2>3
  <2> QED BY <2>1, <2>3, <2>4 DEF UpSent, InOrder, InParts, Owing, Pending, Earlier
<1> QED BY <1>1, <1>2, <1>3, <1>4, <1>5

\* It leaves a part when all that was answered is sent.
LEMMA LeaveStep ==
  ASSUME TypeOK, NEW c \in Collects, NextPart(c), pc[c] \in InParts,
         \A s \in sent'[c] : s[1] = "up" \/ \E j \in 1..at[c] : s[1] = Parts[j],
         ~twice'[c], answered'[c] \subseteq sent'[c],
         \A s \in sent'[c] \ answered'[c] : s[1] \in Lasting
  PROVE  (UpSent(c) /\ InOrder(c) /\ Owing(c))'
<1>1. pc'[c] \in {"tailcheck", "ask", "end"}
  BY NextPartStep
<1>2. (UpSent(c) /\ Owing(c))'
  BY <1>1 DEF UpSent, Owing, Pending
<1>3. InOrder(c)'
  <2> SUFFICES ASSUME pc'[c] \in InParts, NEW s \in sent'[c] PROVE Earlier(c, s)'
    BY DEF InOrder
  <2>1. pc'[c] # "end"
    BY DEF InParts
  <2>2. at'[c] = at[c] + 1 /\ at[c] \in Nat
    BY <2>1, Begun, PartsFacts DEF TypeOK
  <2>3. 1..(at'[c] - 1) = 1..at[c]
    BY <2>2
  <2> QED BY <2>3 DEF Earlier
<1> QED BY <1>2, <1>3

\* What it has sent is of the parts up to the one it is at.
LEMMA UpToHere ==
  ASSUME TypeOK, NEW c \in Collects, pc[c] \in InParts, InOrder(c), NEW s \in sent[c]
  PROVE  s[1] = "up" \/ \E j \in 1..at[c] : s[1] = Parts[j]
<1>1. at[c] \in 1..Len(Parts) /\ Len(Parts) \in Nat
  BY PartsFacts DEF TypeOK
<1>2. CASE Earlier(c, s)
  <2>1. \A j \in 1..(at[c] - 1) : j \in 1..at[c]
    BY <1>1
  <2> QED BY <1>2, <2>1 DEF Earlier
<1>3. CASE Through(c, s)
  <2>1. s[1] = Parts[at[c]] /\ at[c] \in 1..at[c]
    BY <1>1, <1>3 DEF Through, Part
  <2> QED BY <2>1
<1> QED BY <1>2, <1>3 DEF InOrder

\* One that is through with the commands of a part, or whose command has failed, goes on.
LEMMA PassStep ==
  ASSUME HInv, NEW c \in Collects, solo[c], answered'[c] = answered[c] \cup Learns(c),
         NextPart(c), pc[c] \in {"ask", "next", "tailcheck", "tailstart"},
         sent' = sent, twice' = twice, chunk' = chunk
  PROVE  (UpSent(c) /\ InOrder(c) /\ Owing(c))'
<1>1. TypeOK /\ InOrder(c) /\ Owing(c) /\ pc[c] \in InParts /\ chunk'[c] = {}
  BY DEF HInv, IInv, SoloInv, InParts, PlaceInv
<1>2. Learns(c) = {}
  BY <1>1 DEF Learns
<1>3. Pending(c) = {}
  BY DEF Pending
<1>4. /\ ~twice'[c] /\ answered'[c] \subseteq sent'[c]
      /\ \A s \in sent'[c] \ answered'[c] : s[1] \in Lasting
  BY <1>1, <1>2, <1>3 DEF Owing
<1>5. \A s \in sent'[c] : s[1] = "up" \/ \E j \in 1..at[c] : s[1] = Parts[j]
  BY <1>1, UpToHere
<1> QED BY <1>1, <1>4, <1>5, LeaveStep

\* It asks, and knows then what it owes.
LEMMA AskStep ==
  ASSUME HInv, NEW c \in Collects, solo[c], answered'[c] = answered[c] \cup Learns(c),
         Ask(c), PlaceInv'
  PROVE  (UpSent(c) /\ InOrder(c) /\ Owing(c))'
<1>1. /\ TypeOK /\ InOrder(c) /\ Owing(c) /\ pc[c] = "ask" /\ chunk[c] = {}
      /\ Part(c) \in PartName /\ Part(c) # "tail"
  BY PartFacts DEF HInv, IInv, SoloInv, PlaceInv, Ask
<1>2. sent' = sent /\ twice' = twice /\ Part(c)' = Part(c) /\ at' = at /\ vec' = vec
  BY DEF Ask, Part, packageVars
<1>3. pc'[c] \in {"next", "resetfirst", "fill"}
  <2>1. CASE Resets[Part(c)] = "after"
    BY <1>1, <2>1 DEF Ask, Goto, TypeOK
  <2>2. CASE Resets[Part(c)] = "before"
    BY <1>1, <2>2 DEF Ask, Goto, TypeOK
  <2>3. CASE Resets[Part(c)] \notin {"after", "before"}
    BY <1>1, <2>3 DEF Ask, Goto, TypeOK
  <2> QED BY <2>1, <2>2, <2>3
<1>4. answered'[c] = answered[c] \cup ({Part(c)} \X chunk'[c])
  BY <1>1, <1>3 DEF Learns
<1>5. UpSent(c)'
  BY <1>3 DEF UpSent
<1>6. InOrder(c)'
  <2>1. \A s \in sent[c] : Earlier(c, s)
    BY <1>1 DEF InOrder, InParts, Through
  <2> QED BY <1>2, <2>1 DEF InOrder, Earlier
<1>7. /\ answered[c] \subseteq sent[c] /\ ~twice'[c]
      /\ \A s \in sent'[c] \ answered'[c] : s[1] \in Lasting
  BY <1>1, <1>2, <1>4 DEF Owing, Pending
<1>8. pc'[c] = "next" => chunk'[c] = {}
  BY DEF PlaceInv
<1>9. pc'[c] = "fill" => Part(c) \in Lasting /\ Part(c) \notin After
  <2>1. ASSUME pc'[c] = "fill" PROVE Resets[Part(c)] \notin {"after", "before"}
    <3>1. Resets[Part(c)] = "after" => pc'[c] = "next"
      BY <1>1 DEF Ask, Goto, TypeOK
    <3>2. Resets[Part(c)] = "before" => pc'[c] = "resetfirst"
      BY <1>1 DEF Ask, Goto, TypeOK
    <3> QED BY <2>1, <3>1, <3>2
  <2> QED BY <1>1, <2>1, WhenReset, AfterFacts
<1>10. CASE pc'[c] = "next"
  <2>1. answered'[c] = answered[c]
    BY <1>4, <1>8, <1>10
  <2>2. Owing(c)'
    BY <1>2, <1>7, <1>10, <2>1 DEF Owing, Pending
  <2> QED BY <1>5, <1>6, <2>2
<1>11. CASE pc'[c] = "resetfirst"
  <2>1. Pending(c)' = {Part(c)} \X chunk'[c]
    BY <1>2, <1>11 DEF Pending
  <2>2. Owing(c)'
    BY <1>2, <1>4, <1>7, <1>11, <2>1 DEF Owing
  <2> QED BY <1>5, <1>6, <2>2
<1>12. CASE pc'[c] = "fill"
  <2>1. Pending(c)' = {Part(c)} \X (chunk'[c] \cup vec'[Part(c)])
    BY <1>2, <1>12 DEF Pending
  <2>2. {Part(c)} \X chunk'[c] \subseteq Pending(c)'
    BY <2>1
  <2>3. answered'[c] \subseteq sent'[c] \cup Pending(c)'
    BY <1>2, <1>4, <1>7, <2>2
  <2>4. Owing(c)'
    BY <1>2, <1>4, <1>7, <1>9, <1>12, <2>3 DEF Owing
  <2> QED BY <1>5, <1>6, <2>4
<1> QED BY <1>3, <1>10, <1>11, <1>12

\* What it sets in the vector is what it still has to set.
LEMMA FillStep ==
  ASSUME HInv, NEW c \in Collects, solo[c], answered'[c] = answered[c] \cup Learns(c),
         ResetFirst(c) \/ Fill(c)
  PROVE  (UpSent(c) /\ InOrder(c) /\ Owing(c))'
<1>1. TypeOK /\ InOrder(c) /\ Owing(c) /\ Part(c) \in PartName
      /\ pc[c] \in {"resetfirst", "fill"}
  BY PartFacts DEF HInv, IInv, SoloInv, ResetFirst, Fill
<1>2. /\ sent' = sent /\ twice' = twice /\ Part(c)' = Part(c) /\ at' = at /\ todo' = todo
      /\ pc'[c] = "fill"
  BY <1>1 DEF ResetFirst, Fill, Part, Goto, TypeOK
<1>3. answered'[c] = answered[c]
  BY <1>1 DEF Learns
<1>4. UpSent(c)'
  BY <1>2 DEF UpSent
<1>5. CASE ResetFirst(c)
  <2>1. pc[c] = "resetfirst" /\ vec'[Part(c)] = {} /\ chunk' = chunk /\ Part(c) \notin After
    BY <1>1, <1>5 DEF ResetFirst, TypeOK, HInv, IInv, OfThisPart
  <2>2. InOrder(c)'
    <3>1. \A s \in sent[c] : Earlier(c, s)
      BY <1>1, <2>1 DEF InOrder, InParts, Through
    <3> QED BY <1>2, <3>1 DEF InOrder, Earlier
  <2>3. Pending(c)' = Pending(c)
    BY <1>2, <2>1 DEF Pending
  <2>4. {Part(c)} \X vec'[Part(c)] \subseteq answered'[c]
    BY <2>1
  <2>5. {Part(c)} \X chunk[c] \subseteq answered[c]
    BY <1>1, <2>1 DEF Owing
  <2>6. ~twice[c] /\ answered[c] \subseteq sent[c] \cup Pending(c)
        /\ \A s \in sent[c] \ answered[c] : s[1] \in Lasting
    BY <1>1, <2>1 DEF Owing
  <2>7. Owing(c)'
    BY <1>2, <1>3, <2>1, <2>3, <2>4, <2>5, <2>6 DEF Owing
  <2> QED BY <1>4, <2>2, <2>7
<1>6. CASE Fill(c)
  <2>1. PICK i \in chunk[c] : /\ vec' = [vec EXCEPT ![Part(c)] = @ \cup {i}]
                              /\ chunk' = [chunk EXCEPT ![c] = @ \ {i}]
    BY <1>6 DEF Fill
  <2>2. pc[c] = "fill" /\ vec'[Part(c)] = vec[Part(c)] \cup {i} /\ chunk'[c] = chunk[c] \ {i}
    BY <1>1, <1>6, <2>1 DEF Fill, TypeOK
  <2>3. chunk'[c] \cup vec'[Part(c)] = chunk[c] \cup vec[Part(c)]
    BY <2>1, <2>2
  <2>4. InOrder(c)'
    <3>1. ASSUME NEW s \in sent[c] PROVE (Earlier(c, s) \/ Through(c, s))'
      <4>1. Earlier(c, s) \/ Through(c, s)
        BY <1>1, <2>2 DEF InOrder, InParts
      <4>2. Earlier(c, s) => Earlier(c, s)'
        BY <1>2 DEF Earlier
      <4>3. Through(c, s) => Through(c, s)'
        BY <1>2, <2>2, <2>3 DEF Through
      <4> QED BY <4>1, <4>2, <4>3
    <3> QED BY <1>2, <3>1 DEF InOrder
  <2>5. Pending(c)' = Pending(c)
    BY <1>2, <2>2, <2>3 DEF Pending
  <2>6. {Part(c)} \X chunk[c] \subseteq answered[c]
    BY <1>1, <2>2 DEF Owing
  <2>7. {Part(c)} \X chunk'[c] \subseteq answered[c]
    BY <2>2, <2>6
  <2>8. Part(c) \in Lasting \/ {Part(c)} \X vec'[Part(c)] \subseteq answered[c]
    <3>1. Part(c) \in Lasting \/ {Part(c)} \X vec[Part(c)] \subseteq answered[c]
      BY <1>1, <2>2 DEF Owing
    <3>2. <<Part(c), i>> \in answered[c]
      BY <2>1, <2>6
    <3> QED BY <2>2, <3>1, <3>2
  <2>9. Part(c) \in After => (chunk[c] \cup vec[Part(c)]) \cap todo[c] = {}
    BY <1>1, <2>2 DEF Owing
  <2>10. ~twice[c] /\ answered[c] \subseteq sent[c] \cup Pending(c)
         /\ \A s \in sent[c] \ answered[c] : s[1] \in Lasting
    BY <1>1, <2>2 DEF Owing
  <2>11. Owing(c)'
    BY <1>2, <1>3, <2>3, <2>5, <2>7, <2>8, <2>9, <2>10 DEF Owing
  <2> QED BY <1>4, <2>4, <2>11
<1> QED BY <1>5, <1>6

\* It sends the vector: nothing of it was sent before, and nothing owed is missing.
LEMMA SendStep ==
  ASSUME HInv, NEW c \in Collects, solo[c], answered'[c] = answered[c] \cup Learns(c),
         CollectVec(c)
  PROVE  (UpSent(c) /\ InOrder(c) /\ Owing(c))'
<1> DEFINE series == {Part(c)} \X vec[Part(c)]
<1>1. /\ TypeOK /\ InOrder(c) /\ Owing(c) /\ Part(c) \in PartName
      /\ pc[c] = "fill" /\ chunk[c] = {} /\ pc[c] \in InParts
  BY PartFacts DEF HInv, IInv, SoloInv, CollectVec, InParts
<1>2. /\ sent'[c] = sent[c] \cup series
      /\ twice'[c] = (twice[c] \/ series \cap sent[c] # {})
      /\ chunk' = chunk /\ todo' = todo /\ vec' = vec
  BY <1>1 DEF CollectVec, Send, TypeOK, packageVars
<1>3. answered'[c] = answered[c]
  BY <1>1 DEF Learns
<1>4. Pending(c) = series
  BY <1>1 DEF Pending
<1>5. /\ ~twice[c] /\ answered[c] \subseteq sent[c] \cup series
      /\ \A s \in sent[c] \ answered[c] : s[1] \in Lasting
      /\ Part(c) \in Lasting \/ series \subseteq answered[c]
      /\ Part(c) \in After => vec[Part(c)] \cap todo[c] = {}
  BY <1>1, <1>4 DEF Owing
<1>6. series \cap sent[c] = {}
  <2> SUFFICES ASSUME NEW s \in sent[c], s \in series PROVE FALSE
    OBVIOUS
  <2>1. s[1] = Part(c) /\ s[2] \in vec[Part(c)]
    OBVIOUS
  <2>2. at[c] \in 1..Len(Parts) /\ Len(Parts) \in Nat
    BY <1>1, PartsFacts DEF TypeOK
  <2>3. ~Earlier(c, s)
    <3>1. Part(c) # "up"
      BY <2>2, PartsDistinct DEF Part
    <3>2. ASSUME NEW j \in 1..(at[c] - 1) PROVE Parts[j] # Part(c)
      <4>1. j \in 1..Len(Parts) /\ j # at[c]
        BY <2>2
      <4> QED BY <2>2, <4>1, PartsDistinct DEF Part
    <3> QED BY <2>1, <3>1, <3>2 DEF Earlier
  <2>4. ~Through(c, s)
    BY <1>1, <2>1 DEF Through
  <2> QED BY <1>1, <2>3, <2>4 DEF InOrder
<1>7. ~twice'[c]
  BY <1>2, <1>5, <1>6
<1>8. answered'[c] \subseteq sent'[c] /\ \A s \in sent'[c] \ answered'[c] : s[1] \in Lasting
  <2>1. answered'[c] \subseteq sent'[c]
    BY <1>2, <1>3, <1>5
  <2>2. ASSUME NEW s \in sent'[c], s \notin answered'[c] PROVE s[1] \in Lasting
    <3>1. CASE s \in sent[c]
      BY <1>3, <1>5, <2>2, <3>1
    <3>2. CASE s \in series
      BY <1>3, <1>5, <2>2, <3>2
    <3> QED BY <1>2, <3>1, <3>2
  <2> QED BY <2>1, <2>2
<1>9. CASE Resets[Part(c)] = "after"
  <2>1. pc'[c] = "clear" /\ at' = at /\ Part(c)' = Part(c) /\ Part(c) \in After
    BY <1>1, <1>9, AfterFacts DEF CollectVec, Goto, TypeOK, Part
  <2>2. (UpSent(c) /\ Owing(c))'
    BY <1>7, <1>8, <2>1 DEF UpSent, Owing, Pending
  <2>3. ASSUME NEW s \in sent'[c] PROVE (Earlier(c, s) \/ Through(c, s))'
    <3>1. CASE s \in sent[c]
      <4>1. Earlier(c, s) \/ Through(c, s)
        BY <1>1, <3>1 DEF InOrder
      <4>2. Earlier(c, s) => Earlier(c, s)'
        BY <2>1 DEF Earlier
      <4>3. Through(c, s) => Through(c, s)'
        BY <1>2, <2>1 DEF Through
      <4> QED BY <4>1, <4>2, <4>3
    <3>2. CASE s \in series
      <4>1. s[1] = Part(c) /\ s[2] \notin todo[c]
        BY <1>5, <2>1, <3>2
      <4> QED BY <1>2, <2>1, <4>1 DEF Through
    <3> QED BY <1>2, <3>1, <3>2
  <2> QED BY <2>2, <2>3 DEF InOrder
<1>10. CASE Resets[Part(c)] # "after"
  <2>1. NextPart(c)
    BY <1>10 DEF CollectVec
  <2>2. ASSUME NEW s \in sent'[c]
        PROVE  s[1] = "up" \/ \E j \in 1..at[c] : s[1] = Parts[j]
    <3>1. CASE s \in sent[c]
      BY <1>1, <3>1, UpToHere
    <3>2. CASE s \in series
      <4>1. s[1] = Parts[at[c]]
        BY <3>2 DEF Part
      <4>2. at[c] \in 1..at[c]
        BY <1>1, PartsFacts DEF TypeOK
      <4> QED BY <4>1, <4>2
    <3> QED BY <1>2, <3>1, <3>2
  <2> QED BY <1>1, <1>7, <1>8, <2>1, <2>2, LeaveStep
<1> QED BY <1>9, <1>10

\* One item after the other of a part that resets its vector after each.
LEMMA ItemStep ==
  ASSUME HInv, NEW c \in Collects, solo[c], answered'[c] = answered[c] \cup Learns(c),
         \A d \in Collects \ {c} : pc[d] = "idle", NextItem(c)
  PROVE  (UpSent(c) /\ InOrder(c) /\ Owing(c))'
<1>1. /\ TypeOK /\ InOrder(c) /\ Owing(c) /\ pc[c] = "next" /\ chunk[c] = {}
      /\ Part(c) \in After /\ pc[c] \in InParts
  BY DEF HInv, IInv, SoloInv, PlaceInv, NextItem, InParts
<1>2. vec[Part(c)] = {}
  BY <1>1, AloneVectors DEF HInv, IInv
<1>3. /\ sent' = sent /\ twice' = twice /\ Part(c)' = Part(c) /\ at' = at /\ vec' = vec
  BY DEF NextItem, Part, packageVars
<1>4. PICK i \in todo[c] :
        /\ todo' = [todo EXCEPT ![c] = @ \ {i}]
        /\ \/ chunk' = [chunk EXCEPT ![c] = {i}] /\ Goto(c, "fill")
           \/ UNCHANGED <<pc, chunk>>
  BY DEF NextItem
<1>5. todo'[c] = todo[c] \ {i}
  BY <1>1, <1>4 DEF TypeOK
<1>6. \/ pc'[c] = "fill" /\ chunk'[c] = {i}
      \/ pc'[c] = "next" /\ chunk'[c] = {}
  BY <1>1, <1>4 DEF TypeOK, Goto
<1>7. UpSent(c)'
  BY <1>6 DEF UpSent
<1>8. /\ ~twice[c] /\ answered[c] \subseteq sent[c]
      /\ \A s \in sent[c] \ answered[c] : s[1] \in Lasting
  BY <1>1 DEF Owing, Pending
<1>9. InOrder(c)'
  <2>1. ASSUME NEW s \in sent[c] PROVE (Earlier(c, s) \/ Through(c, s))'
    <3>1. Earlier(c, s) \/ Through(c, s)
      BY <1>1 DEF InOrder
    <3>2. Earlier(c, s) => Earlier(c, s)'
      BY <1>3 DEF Earlier
    <3>3. ASSUME Through(c, s) PROVE Through(c, s)'
      <4>1. s[1] = Part(c) /\ s[2] \notin todo[c]
        BY <3>3 DEF Through
      <4>2. s[2] \notin todo'[c] /\ s[2] # i
        BY <1>4, <1>5, <4>1
      <4>3. pc'[c] = "fill" => s[2] \notin chunk'[c] \cup vec'[Part(c)]
        BY <1>2, <1>3, <1>6, <4>2
      <4> QED BY <1>1, <1>3, <1>6, <4>1, <4>2, <4>3 DEF Through
    <3> QED BY <3>1, <3>2, <3>3
  <2> QED BY <1>3, <2>1 DEF InOrder
<1>10. CASE pc'[c] = "fill" /\ chunk'[c] = {i}
  <2>1. answered'[c] = answered[c] \cup ({Part(c)} \X chunk'[c])
    BY <1>1, <1>10 DEF Learns
  <2>2. vec'[Part(c)] = {}
    BY <1>2, <1>3
  <2>3. Pending(c)' = {Part(c)} \X chunk'[c]
    BY <1>3, <1>10, <2>2 DEF Pending
  <2>4. {Part(c)} \X vec'[Part(c)] \subseteq answered'[c]
    BY <2>2
  <2>5. (chunk'[c] \cup vec'[Part(c)]) \cap todo'[c] = {}
    BY <1>5, <1>10, <2>2
  <2>6. Owing(c)'
    BY <1>3, <1>8, <1>10, <2>1, <2>3, <2>4, <2>5 DEF Owing
  <2> QED BY <1>7, <1>9, <2>6
<1>11. CASE pc'[c] = "next"
  <2>1. answered'[c] = answered[c]
    BY <1>1, <1>11 DEF Learns
  <2>2. Owing(c)'
    BY <1>3, <1>8, <1>11, <2>1 DEF Owing, Pending
  <2> QED BY <1>7, <1>9, <2>2
<1> QED BY <1>6, <1>10, <1>11

\* Resetting it changes nothing of what is sent and owed.
LEMMA ClearStep ==
  ASSUME HInv, NEW c \in Collects, solo[c], answered'[c] = answered[c] \cup Learns(c),
         Clear(c)
  PROVE  (UpSent(c) /\ InOrder(c) /\ Owing(c))'
<1>1. TypeOK /\ InOrder(c) /\ Owing(c) /\ pc[c] = "clear" /\ pc[c] \in InParts
  BY DEF HInv, IInv, SoloInv, Clear, InParts
<1>2. /\ sent' = sent /\ twice' = twice /\ Part(c)' = Part(c) /\ at' = at /\ todo' = todo
      /\ pc'[c] = "next"
  BY <1>1 DEF Clear, Goto, TypeOK, Part
<1>3. answered'[c] = answered[c]
  BY <1>1 DEF Learns
<1>4. (UpSent(c) /\ Owing(c))'
  BY <1>1, <1>2, <1>3 DEF UpSent, Owing, Pending
<1>5. ASSUME NEW s \in sent[c] PROVE (Earlier(c, s) \/ Through(c, s))'
  <2>1. Earlier(c, s) \/ Through(c, s)
    BY <1>1 DEF InOrder
  <2>2. Earlier(c, s) => Earlier(c, s)'
    BY <1>2 DEF Earlier
  <2>3. Through(c, s) => Through(c, s)'
    BY <1>2 DEF Through
  <2> QED BY <2>1, <2>2, <2>3
<1> QED BY <1>2, <1>4, <1>5 DEF InOrder

\* Every step keeps what one that is alone has sent and owes.
LEMMA SoloStep ==
  ASSUME HInv, HNext
  PROVE  SoloInv'
<1> SUFFICES ASSUME NEW c \in Collects, solo'[c]
             PROVE  (UpSent(c) /\ InOrder(c) /\ Owing(c))'
  BY DEF SoloInv
<1>1. TypeOK /\ SoloAlone /\ PlaceInv /\ IInv /\ Next /\ Remember
  BY DEF HInv, IInv, HNext
<1>2. /\ CollectStep(c)
      /\ solo[c] \/ (Start(c) /\ pc[c] = "idle" /\ ~solo[c])
      /\ \A d \in Collects \ {c} : pc[d] = "idle"
      /\ answered'[c] = answered[c] \cup Learns(c)
      /\ ~Return(c)
  BY <1>1, AloneActs
<1>3. CASE Start(c) \/ Dial(c) \/ SetUp(c) \/ CollectUp(c) \/ ResetUp(c)
  BY <1>2, <1>3, UpStep
<1>4. CASE ~(Start(c) \/ Dial(c) \/ SetUp(c) \/ CollectUp(c) \/ ResetUp(c))
  <2>1. solo[c]
    BY <1>2, <1>4
  <2>2. CASE Ask(c)
    BY <1>1, <1>2, <2>1, <2>2, AskStep, PlaceStep
  <2>3. CASE ResetFirst(c) \/ Fill(c)
    BY <1>2, <2>1, <2>3, FillStep
  <2>4. CASE CollectVec(c)
    BY <1>2, <2>1, <2>4, SendStep
  <2>5. CASE NextItem(c)
    BY <1>2, <2>1, <2>5, ItemStep
  <2>6. CASE Clear(c)
    BY <1>2, <2>1, <2>6, ClearStep
  <2>7. CASE AskFails(c) \/ EndItems(c) \/ StartTailer(c)
    <3>1. /\ NextPart(c) /\ pc[c] \in {"ask", "next", "tailcheck", "tailstart"}
          /\ sent' = sent /\ twice' = twice /\ chunk' = chunk
      BY <2>7 DEF AskFails, EndItems, StartTailer
    <3> QED BY <1>2, <2>1, <3>1, PassStep
  <2>8. CASE CheckTailer(c)
    <3>1. /\ pc[c] = "tailcheck" /\ sent' = sent /\ twice' = twice /\ chunk' = chunk
      BY <2>8 DEF CheckTailer
    <3>2. CASE tailing
      <4>1. NextPart(c)
        BY <2>8, <3>2 DEF CheckTailer
      <4> QED BY <1>2, <2>1, <3>1, <4>1, PassStep
    <3>3. CASE ~tailing
      <4>1. pc'[c] = "tailstart" /\ at' = at
        BY <1>1, <2>8, <3>3 DEF CheckTailer, Goto, TypeOK
      <4>2. InOrder(c) /\ Owing(c) /\ pc[c] \in InParts /\ Learns(c) = {}
        BY <2>1, <3>1 DEF HInv, SoloInv, InParts, Learns
      <4>3. answered'[c] = answered[c]
        BY <1>2, <4>2
      <4>4. (UpSent(c) /\ Owing(c))'
        BY <3>1, <4>1, <4>2, <4>3 DEF UpSent, Owing, Pending
      <4>5. \A s \in sent[c] : Earlier(c, s)
        BY <3>1, <4>2 DEF InOrder, Through
      <4>6. InOrder(c)'
        BY <3>1, <4>1, <4>5 DEF InOrder, Earlier
      <4> QED BY <4>4, <4>6
    <3> QED BY <3>2, <3>3
  <2> QED BY <1>2, <1>4, <2>2, <2>3, <2>4, <2>5, <2>6, <2>7, <2>8 DEF CollectStep
<1> QED BY <1>3, <1>4

\* The inductive invariant with the history (MongodbCollector.Collect).
THEOREM HInvariance == HSpec => []HInv
<1>1. HInit => HInv
  <2> SUFFICES ASSUME HInit PROVE HInv
    OBVIOUS
  <2>1. IInv
    BY InitInv DEF HInit
  <2>2. PlaceInv /\ SoloAlone /\ SoloInv
    BY DEF HInit, Init, PlaceInv, SoloAlone, SoloInv
  <2> QED BY <2>1, <2>2 DEF HInv
<1>2. HInv /\ [HNext]_hvars => HInv'
  <2> SUFFICES ASSUME HInv, [HNext]_hvars PROVE HInv'
    OBVIOUS
  <2>1. CASE HNext
    <3>1. PICK c \in Collects : CollectStep(c)
      BY <2>1 DEF HNext, Next
    <3>2. IInv'
      BY <3>1, TypeStep, PartStep, ResetStep DEF HInv, IInv
    <3>3. PlaceInv' /\ SoloAlone'
      BY <2>1, <3>1, PlaceStep, AloneStep DEF HInv, HNext
    <3> QED BY <2>1, <3>2, <3>3, SoloStep DEF HInv
  <2>2. CASE UNCHANGED hvars
    <3>1. IInv'
      BY <2>2 DEF HInv, hvars, vars, collectVars, packageVars, IInv, TypeOK, OfThisPart,
                  ResetAhead, Part
    <3>2. PlaceInv' /\ SoloAlone'
      BY <2>2 DEF HInv, hvars, vars, collectVars, packageVars, PlaceInv, SoloAlone, Part
    <3>3. SoloInv'
      <4>1. ASSUME NEW c \in Collects, solo'[c]
            PROVE  (UpSent(c) /\ InOrder(c) /\ Owing(c))'
        <5>1. UpSent(c) /\ InOrder(c) /\ Owing(c)
          BY <2>2, <4>1 DEF HInv, SoloInv, hvars
        <5> QED BY <2>2, <5>1 DEF hvars, vars, collectVars, packageVars, UpSent, UpValue,
                   InOrder, Earlier, Through, Owing, Pending, Part
      <4> QED BY <4>1 DEF SoloInv
    <3> QED BY <3>1, <3>2, <3>3 DEF HInv
  <2> QED BY <2>1, <2>2
<1> QED BY <1>1, <1>2, PTL DEF HSpec

\* A Collect that had the vectors to itself sends each series MongoDB answered it with, and
\* none twice; what it sends besides was left by earlier answers, and only in the vectors
\* that are never reset.
THEOREM SoloIsExact == HSpec => SoloExact
<1> DEFINE Exact ==
      \A c \in Collects : solo[c] /\ Ended(c) =>
        /\ ~twice[c]
        /\ answered[c] \subseteq sent[c]
        /\ \A s \in sent[c] \ answered[c] : s[1] \in Lasting
<1>1. HInv /\ [HNext]_hvars => [Exact]_hvars
  <2> SUFFICES ASSUME HInv, HNext, NEW c \in Collects, solo[c], Ended(c)
               PROVE  /\ ~twice[c]
                      /\ answered[c] \subseteq sent[c]
                      /\ \A s \in sent[c] \ answered[c] : s[1] \in Lasting
    OBVIOUS
  <2>1. TypeOK /\ pc[c] # "idle" /\ pc'[c] = "idle" /\ Owing(c)
    BY DEF HInv, IInv, SoloInv, Ended
  <2>2. PICK d \in Collects : CollectStep(d)
    BY DEF HNext, Next
  <2>3. d = c
    BY <2>1, <2>2, Others
  <2>4. pc[c] = "end"
    BY <2>1, <2>2, <2>3, Working
  <2> QED BY <2>1, <2>4 DEF Owing, Pending
<1> QED BY <1>1, HInvariance, PTL DEF HSpec, SoloExact
=============================================================================
