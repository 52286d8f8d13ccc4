----------------------- MODULE MongoServerStatusProofs -----------------------
(***************************************************************************)
(* Proofs about MongoServerStatus, for every set of Collects and every set *)
(* of replies that keep to its assumption.  The promises are to a Collect  *)
(* that is alone, about metrics it shares with others: what carries them   *)
(* is that nobody else is in the middle of an export while a Collect that  *)
(* counts as alone is, so that what it has set is still its own when it    *)
(* sends it.                                                               *)
(***************************************************************************)
EXTENDS MongoServerStatus, TLAPS

Exporting(c) == at[c] \in 1..Last

\* A Collect that exports has a reply, with the section it is in.
InReply ==
  \A c \in Collects :
    /\ Exporting(c) => reply[c] # None
    /\ InSection(c) => Sections[at[c]] \in reply[c].documents
    /\ filled[c] => InSection(c)
    /\ at[c] = 0 => reply[c] = None /\ told[c] = {}

\* Of two that export neither is alone.
SoloAlone ==
  \A c, d \in Collects : solo[c] /\ Exporting(c) /\ Exporting(d) => c = d

\* What a Collect alone has set is still its own.
OwnGauges ==
  \A c \in Collects :
    solo[c] /\ filled[c] => \A g \in Sets(reply[c], Sections[at[c]]) : gauge[g] = c

\* It has sent what it has set in the sections behind it.
SentSoFar ==
  \A c \in Collects :
    solo[c] /\ reply[c] # None =>
      \A i \in 1..17 :
        i < at[c] /\ Sections[i] \in reply[c].documents =>
          \A g \in Sets(reply[c], Sections[i]) : <<g, TRUE>> \in told[c]

EngineSent ==
  \A c \in Collects :
    Exported(c) /\ reply[c].engine # None => reply[c].engine \in toldEngines[c]

IInv ==
  TypeOK /\ InReply /\ SoloAlone /\ OwnGauges /\ SentSoFar /\ EngineSent /\ StaleStaysInSection

-----------------------------------------------------------------------------
\* How many sections there are, and that the first is in every reply.
LEMMA SectionFacts ==
  /\ Len(Sections) = 17 /\ Last = 18 /\ Over = 19
  /\ Sections[1] = "server"
BY DEF Sections, Last, Over

\* A part is in a reply only with its section.
LEMMA PartHasSection ==
  ASSUME ServerStatusAssumption, NEW r \in Replies, NEW i \in 1..17,
          NEW g \in Sets(r, Sections[i])
  PROVE  Sections[i] \in r.documents
BY DEF ServerStatusAssumption, Sets, PartsOf

\* Before anybody asks, nothing has been set or sent.
LEMMA InitInv == Init => IInv
<1> SUFFICES ASSUME Init PROVE IInv
  OBVIOUS
<1>1. TypeOK
  BY SectionFacts DEF Init, TypeOK
<1>2. InReply /\ SoloAlone /\ OwnGauges /\ SentSoFar /\ EngineSent
  BY SectionFacts DEF Init, InReply, SoloAlone, OwnGauges, SentSoFar, EngineSent,
                      Exporting, InSection, Exported
<1>3. StaleStaysInSection
  BY DEF Init, StaleStaysInSection
<1> QED BY <1>1, <1>2, <1>3 DEF IInv

\* GetServerStatus keeps the invariant.
LEMMA AskStep ==
  ASSUME ServerStatusAssumption, IInv, NEW c \in Collects, Ask(c)
  PROVE  IInv'
<1>a. /\ TypeOK /\ InReply /\ SoloAlone /\ OwnGauges /\ SentSoFar /\ EngineSent
      /\ StaleStaysInSection
  BY DEF IInv
<1>b. at[c] = 0 /\ UNCHANGED <<filled, gauge, engines, told, toldEngines>>
  BY DEF Ask
<1>c. told[c] = {} /\ ~filled[c] /\ reply[c] = None
  BY <1>a, <1>b, SectionFacts DEF InReply, InSection
<1>1. ASSUME NEW r \in Replies,
             reply' = [reply EXCEPT ![c] = r],
             at' = [at EXCEPT ![c] = 1],
             OverlapsOthers(c)
      PROVE  IInv'
  <2>1. r # None /\ Sections[1] \in r.documents
    BY SectionFacts DEF ServerStatusAssumption
  <2>2. /\ solo' \in [Collects -> BOOLEAN]
        /\ \A d \in Collects \ {c} : solo'[d] => solo[d] /\ at[d] \in {0, Over}
        /\ solo'[c] => \A d \in Collects \ {c} : at[d] \in {0, Over}
    BY <1>1 DEF OverlapsOthers
  <2>3. TypeOK'
    <3>1. at' \in [Collects -> 0..Over] /\ reply' \in [Collects -> Replies \cup {None}]
      BY <1>a, <1>1, SectionFacts DEF TypeOK
    <3> QED BY <1>a, <1>b, <2>2, <3>1 DEF TypeOK
  <2>4. InReply'
    BY <1>a, <1>b, <1>c, <1>1, <2>1, SectionFacts DEF InReply, TypeOK, Exporting, InSection
  <2>5. SoloAlone'
    BY <1>a, <1>b, <1>1, <2>2, SectionFacts DEF SoloAlone, TypeOK, Exporting
  <2>6. OwnGauges'
    BY <1>a, <1>b, <1>c, <1>1, <2>2 DEF OwnGauges, TypeOK
  <2>7. SentSoFar'
    <3>1. at'[c] = 1 /\ \A i \in 1..17 : ~(i < 1)
      BY <1>a, <1>1 DEF TypeOK
    <3>2. \A d \in Collects \ {c} : at'[d] = at[d] /\ reply'[d] = reply[d]
      BY <1>a, <1>1 DEF TypeOK
    <3> QED BY <1>a, <1>b, <2>2, <3>1, <3>2 DEF SentSoFar
  <2>8. EngineSent'
    BY <1>a, <1>b, <1>1, SectionFacts DEF EngineSent, TypeOK, Exported
  <2>9. StaleStaysInSection'
    BY <1>a, <1>b, <1>c, <1>1, <2>2 DEF StaleStaysInSection, TypeOK
  <2> QED BY <2>3, <2>4, <2>5, <2>6, <2>7, <2>8, <2>9 DEF IInv
<1>2. ASSUME at' = [at EXCEPT ![c] = Over], UNCHANGED <<reply, solo>> PROVE IInv'
  <2>1. TypeOK'
    BY <1>a, <1>b, <1>2, SectionFacts DEF TypeOK
  <2>2. InReply'
    BY <1>a, <1>b, <1>c, <1>2, SectionFacts DEF InReply, TypeOK, Exporting, InSection
  <2>3. SoloAlone'
    BY <1>a, <1>b, <1>2, SectionFacts DEF SoloAlone, TypeOK, Exporting
  <2>4. OwnGauges'
    BY <1>a, <1>b, <1>c, <1>2 DEF OwnGauges, TypeOK
  <2>5. SentSoFar'
    BY <1>a, <1>b, <1>c, <1>2 DEF SentSoFar, TypeOK
  <2>6. EngineSent'
    BY <1>a, <1>b, <1>c, <1>2 DEF EngineSent, TypeOK, Exported
  <2>7. StaleStaysInSection'
    BY <1>a, <1>b, <1>2 DEF StaleStaysInSection
  <2> QED BY <2>1, <2>2, <2>3, <2>4, <2>5, <2>6, <2>7 DEF IInv
<1> QED BY <1>1, <1>2 DEF Ask

\* Setting a section does.
LEMMA FillStep ==
  ASSUME ServerStatusAssumption, IInv, NEW c \in Collects, Fill(c)
  PROVE  IInv'
<1>a. /\ TypeOK /\ InReply /\ SoloAlone /\ OwnGauges /\ SentSoFar /\ EngineSent
      /\ StaleStaysInSection
  BY DEF IInv
<1>b. /\ InSection(c)
      /\ filled' = [filled EXCEPT ![c] = TRUE]
      /\ UNCHANGED <<at, reply, engines, told, toldEngines, solo>>
  BY DEF Fill
<1>c. gauge' = [g \in Group |-> IF g \in Sets(reply[c], Sections[at[c]]) THEN c ELSE gauge[g]]
  BY DEF Fill
<1>d. Exporting(c)
  BY <1>b, SectionFacts DEF InSection, Exporting
<1>1. TypeOK'
  <2>1. gauge' \in [Group -> Collects \cup {Old, None}]
    BY <1>a, <1>c DEF TypeOK
  <2> QED BY <1>a, <1>b, <2>1 DEF TypeOK
<1>2. InReply'
  BY <1>a, <1>b DEF InReply, TypeOK, Exporting, InSection
<1>3. SoloAlone'
  BY <1>a, <1>b DEF SoloAlone, Exporting
<1>4. OwnGauges'
  <2> SUFFICES ASSUME NEW d \in Collects, solo[d], filled'[d],
                      NEW g \in Sets(reply[d], Sections[at[d]])
               PROVE  gauge'[g] = d
    BY <1>b DEF OwnGauges
  <2>1. g \in Group
    <3>1. InSection(d)
      BY <1>a, <1>b DEF InReply, TypeOK
    <3> QED BY <3>1 DEF Sets, Group, InSection
  <2>2. CASE d = c
    BY <1>c, <2>1, <2>2
  <2>3. CASE d # c
    <3>1. filled[d] /\ InSection(d)
      BY <1>a, <1>b, <2>3 DEF TypeOK, InReply
    <3>2. Exporting(d)
      BY <3>1, SectionFacts DEF InSection, Exporting
    <3> QED BY <1>a, <1>d, <2>3, <3>2 DEF SoloAlone
  <2> QED BY <2>2, <2>3
<1>5. SentSoFar'
  BY <1>a, <1>b DEF SentSoFar
<1>6. EngineSent' /\ StaleStaysInSection'
  BY <1>a, <1>b DEF EngineSent, Exported, StaleStaysInSection
<1> QED BY <1>1, <1>2, <1>3, <1>4, <1>5, <1>6 DEF IInv

\* Sending it does: what is its own is sent as such, what is not is of an absent part.
LEMMA SendStep ==
  ASSUME ServerStatusAssumption, IInv, NEW c \in Collects, Send(c)
  PROVE  IInv'
<1>a. /\ TypeOK /\ InReply /\ SoloAlone /\ OwnGauges /\ SentSoFar /\ EngineSent
      /\ StaleStaysInSection
  BY DEF IInv
<1> DEFINE section == Sections[at[c]]
           sent == {g \in PartsOf(section) : gauge[g] # None \/ g \in Plain}
           new == {<<g, gauge[g] = c>> : g \in sent}
<1>b. /\ InSection(c) /\ filled[c]
      /\ told' = [told EXCEPT ![c] = @ \cup new]
      /\ filled' = [filled EXCEPT ![c] = FALSE]
      /\ UNCHANGED <<reply, gauge, engines, toldEngines, solo>>
  BY DEF Send
<1>c. PICK j \in 1..Last : Follows(reply[c], at[c], j) /\ at' = [at EXCEPT ![c] = j]
  BY DEF Send
<1>d. Exporting(c) /\ reply[c] \in Replies /\ section \in reply[c].documents
  BY <1>a, <1>b, SectionFacts DEF InSection, Exporting, InReply, TypeOK
<1>e. at[c] \in 1..17 /\ at[c] < j
  BY <1>b, <1>c, SectionFacts DEF InSection, Follows
<1>f. PartsOf(section) \subseteq Group
  BY <1>e, SectionFacts DEF Group
<1>g. told' = [told EXCEPT ![c] = told[c] \cup new]
  BY <1>b
<1> HIDE DEF new, sent, section
<1>1. TypeOK'
  <2>1. at' \in [Collects -> 0..Over]
    BY <1>a, <1>c, SectionFacts DEF TypeOK
  <2>2. new \in SUBSET (Group \X BOOLEAN)
    <3> SUFFICES ASSUME NEW g \in sent PROVE <<g, gauge[g] = c>> \in Group \X BOOLEAN
      BY DEF new
    <3>1. g \in Group
      BY <1>f DEF sent
    <3>2. (gauge[g] = c) \in BOOLEAN
      BY ZenonT(10)
    <3> QED BY <3>1, <3>2
  <2>3. told' \in [Collects -> SUBSET (Group \X BOOLEAN)]
    BY <1>a, <1>g, <2>2 DEF TypeOK
  <2> QED BY <1>a, <1>b, <2>1, <2>3 DEF TypeOK
<1>2. InReply'
  <2>1. j # Last => Sections[j] \in reply[c].documents
    BY <1>c DEF Follows, Present
  <2>2. j \in 1..18 /\ (j \in 1..17 => j # Last)
    BY SectionFacts
  <2>3. /\ at'[c] = j /\ ~filled'[c] /\ reply'[c] # None
        /\ \A d \in Collects \ {c} : /\ at'[d] = at[d] /\ filled'[d] = filled[d]
                                     /\ told'[d] = told[d] /\ reply'[d] = reply[d]
    BY <1>a, <1>b, <1>c, <1>d, <1>g DEF TypeOK, InReply
  <2>4. reply' = reply
    BY <1>b
  <2> QED BY <1>a, <2>1, <2>2, <2>3, <2>4, SectionFacts DEF InReply, Exporting, InSection
<1>3. SoloAlone'
  <2>1. \A d \in Collects : Exporting(d)' => Exporting(d)
    BY <1>a, <1>c, <1>d DEF Exporting, TypeOK
  <2> QED BY <1>a, <1>b, <2>1 DEF SoloAlone
<1>4. OwnGauges'
  <2>1. \A d \in Collects : filled'[d] => filled[d] /\ at'[d] = at[d]
    BY <1>a, <1>b, <1>c DEF TypeOK
  <2> QED BY <1>a, <1>b, <2>1 DEF OwnGauges
<1>5. SentSoFar'
  <2> SUFFICES ASSUME NEW d \in Collects, solo[d], reply[d] # None, NEW i \in 1..17,
                      i < at'[d], Sections[i] \in reply[d].documents,
                      NEW g \in Sets(reply[d], Sections[i])
               PROVE  <<g, TRUE>> \in told'[d]
    BY <1>b DEF SentSoFar
  <2>1. CASE i < at[d]
    BY <1>a, <1>g, <2>1 DEF SentSoFar, TypeOK
  <2>2. CASE ~(i < at[d])
    <3>1. d = c /\ at'[c] = j
      BY <1>a, <1>c, <2>2 DEF TypeOK
    <3>2. i = at[c]
      <4>1. \A k \in (at[c] + 1)..(j - 1) : Sections[k] \notin reply[c].documents
        BY <1>c DEF Follows, Present
      <4>2. i \in (at[c] + 1)..(j - 1) \/ i = at[c]
        BY <1>e, <2>2, <3>1, SectionFacts
      <4> QED BY <3>1, <4>1, <4>2
    <3>3. gauge[g] = c
      BY <1>a, <1>b, <3>1, <3>2 DEF OwnGauges
    <3>4. g \in PartsOf(section)
      BY <3>1, <3>2 DEF Sets, section
    <3>5. c # None
      BY DEF ServerStatusAssumption
    <3>6. g \in sent
      BY <3>3, <3>4, <3>5 DEF sent
    <3>7. <<g, TRUE>> \in new
      BY <3>3, <3>6 DEF new
    <3> QED BY <1>a, <1>g, <3>1, <3>7 DEF TypeOK
  <2> QED BY <2>1, <2>2
<1>6. EngineSent'
  <2>1. at'[c] # Over
    BY <1>a, <1>c, SectionFacts DEF TypeOK
  <2>2. \A d \in Collects \ {c} : at'[d] = at[d]
    BY <1>a, <1>c DEF TypeOK
  <2> QED BY <1>a, <1>b, <2>1, <2>2 DEF EngineSent, Exported
<1>7. StaleStaysInSection'
  <2> SUFFICES ASSUME NEW d \in Collects, solo[d], NEW g \in Group, <<g, FALSE>> \in told'[d]
               PROVE  /\ g \notin reply[d].documents
                      /\ \E s \in DOMAIN Parts : g \in Parts[s] /\ s \in reply[d].documents
    BY <1>b DEF StaleStaysInSection
  <2>1. CASE <<g, FALSE>> \in told[d]
    BY <1>a, <2>1 DEF StaleStaysInSection
  <2>2. CASE <<g, FALSE>> \notin told[d]
    <3>1. d = c /\ <<g, FALSE>> \in new
      BY <1>a, <1>g, <2>2 DEF TypeOK
    <3>2. g \in PartsOf(section) /\ gauge[g] # c
      BY <3>1 DEF new, sent
    <3>3. g \notin Sets(reply[c], section)
      BY <1>a, <1>b, <3>1, <3>2 DEF OwnGauges, section
    <3>4. g \notin reply[c].documents
      BY <3>2, <3>3 DEF Sets
    <3>5. section \in DOMAIN Parts
      BY <1>d, <3>2, <3>4 DEF PartsOf, section
    <3>6. g \in Parts[section]
      BY <3>2, <3>5 DEF PartsOf
    <3> QED BY <1>d, <3>1, <3>4, <3>5, <3>6 DEF section
  <2> QED BY <2>1, <2>2
<1> QED BY <1>1, <1>2, <1>3, <1>4, <1>5, <1>6, <1>7 DEF IInv

\* The storage engine's label does.
LEMMA SendEngineStep ==
  ASSUME ServerStatusAssumption, IInv, NEW c \in Collects, SendEngine(c)
  PROVE  IInv'
<1>a. /\ TypeOK /\ InReply /\ SoloAlone /\ OwnGauges /\ SentSoFar /\ EngineSent
      /\ StaleStaysInSection
  BY DEF IInv
<1> DEFINE engine == EngineOf(reply[c])
<1>b. /\ at[c] = Last /\ at' = [at EXCEPT ![c] = Over]
      /\ UNCHANGED <<filled, reply, gauge, told, solo>>
  BY DEF SendEngine
<1>c. \/ engine = None /\ UNCHANGED <<engines, toldEngines>>
      \/ /\ engine # None
         /\ engines' = engines \cup {engine}
         /\ toldEngines' = [toldEngines EXCEPT ![c] = engines']
  BY DEF SendEngine
<1>d. reply[c] \in Replies
  BY <1>a, <1>b, SectionFacts DEF InReply, Exporting, TypeOK
<1>e. engine \in Engine \cup {None}
  <2>1. reply[c].engine \in Engine \cup {None}
    BY <1>d DEF ServerStatusAssumption
  <2> QED BY <2>1 DEF EngineOf, Engine
<1>f. reply[c].engine # None => engine = reply[c].engine
  BY DEF EngineOf
<1> HIDE DEF engine
<1>1. TypeOK'
  <2>1. at' \in [Collects -> 0..Over]
    BY <1>a, <1>b, SectionFacts DEF TypeOK
  <2>2. engines' \subseteq Engine /\ toldEngines' \in [Collects -> SUBSET Engine]
    BY <1>a, <1>c, <1>e DEF TypeOK
  <2> QED BY <1>a, <1>b, <2>1, <2>2 DEF TypeOK
<1>2. InReply'
  <2>1. ~InSection(c)
    BY <1>b, SectionFacts DEF InSection
  <2> QED BY <1>a, <1>b, <2>1, SectionFacts DEF InReply, Exporting, InSection, TypeOK
<1>3. SoloAlone'
  <2>1. \A d \in Collects : Exporting(d)' => Exporting(d)
    BY <1>a, <1>b, SectionFacts DEF Exporting, TypeOK
  <2> QED BY <1>a, <1>b, <2>1 DEF SoloAlone
<1>4. OwnGauges'
  <2>1. ~filled[c]
    BY <1>a, <1>b, SectionFacts DEF InReply, InSection
  <2>2. \A d \in Collects : filled[d] => at'[d] = at[d]
    BY <1>a, <1>b, <2>1 DEF TypeOK
  <2> QED BY <1>a, <1>b, <2>2 DEF OwnGauges
<1>5. SentSoFar'
  <2>1. \A d \in Collects : \A i \in 1..17 : i < at'[d] => i < at[d]
    BY <1>a, <1>b, SectionFacts DEF TypeOK
  <2> QED BY <1>a, <1>b, <2>1 DEF SentSoFar
<1>6. EngineSent'
  <2>1. reply[c].engine # None => reply[c].engine \in toldEngines'[c]
    BY <1>a, <1>c, <1>f DEF TypeOK
  <2>2. \A d \in Collects \ {c} : at'[d] = at[d] /\ toldEngines'[d] = toldEngines[d]
    BY <1>a, <1>b, <1>c DEF TypeOK
  <2> QED BY <1>a, <1>b, <2>1, <2>2 DEF EngineSent, Exported
<1>7. StaleStaysInSection'
  BY <1>a, <1>b DEF StaleStaysInSection
<1> QED BY <1>1, <1>2, <1>3, <1>4, <1>5, <1>6, <1>7 DEF IInv

\* So does the end of a request.
LEMMA ForgetStep ==
  ASSUME ServerStatusAssumption, IInv, NEW c \in Collects, Forget(c)
  PROVE  IInv'
<1>a. /\ TypeOK /\ InReply /\ SoloAlone /\ OwnGauges /\ SentSoFar /\ EngineSent
      /\ StaleStaysInSection
  BY DEF IInv
<1>b. /\ at' = [at EXCEPT ![c] = 0]
      /\ filled' = [filled EXCEPT ![c] = FALSE]
      /\ reply' = [reply EXCEPT ![c] = None]
      /\ gauge' = [g \in Group |-> IF gauge[g] = c THEN Old ELSE gauge[g]]
      /\ told' = [told EXCEPT ![c] = {}]
      /\ toldEngines' = [toldEngines EXCEPT ![c] = {}]
      /\ solo' = [solo EXCEPT ![c] = TRUE]
      /\ UNCHANGED engines
  BY DEF Forget
<1>c. \A d \in Collects \ {c} :
        /\ at'[d] = at[d] /\ filled'[d] = filled[d] /\ reply'[d] = reply[d]
        /\ told'[d] = told[d] /\ toldEngines'[d] = toldEngines[d] /\ solo'[d] = solo[d]
  BY <1>a, <1>b DEF TypeOK
<1>d. at'[c] = 0 /\ ~filled'[c] /\ reply'[c] = None /\ told'[c] = {}
  BY <1>a, <1>b DEF TypeOK
<1>1. TypeOK'
  <2>1. at' \in [Collects -> 0..Over] /\ reply' \in [Collects -> Replies \cup {None}]
    BY <1>a, <1>b, SectionFacts DEF TypeOK
  <2>2. gauge' \in [Group -> Collects \cup {Old, None}]
    BY <1>a, <1>b DEF TypeOK
  <2>3. /\ told' \in [Collects -> SUBSET (Group \X BOOLEAN)]
        /\ toldEngines' \in [Collects -> SUBSET Engine]
    BY <1>a, <1>b DEF TypeOK
  <2>4. filled' \in [Collects -> BOOLEAN] /\ solo' \in [Collects -> BOOLEAN]
    BY <1>a, <1>b DEF TypeOK
  <2> QED BY <1>a, <1>b, <2>1, <2>2, <2>3, <2>4 DEF TypeOK
<1>2. InReply'
  BY <1>a, <1>c, <1>d, SectionFacts DEF InReply, Exporting, InSection
<1>3. SoloAlone'
  BY <1>a, <1>c, <1>d, SectionFacts DEF SoloAlone, Exporting
<1>4. OwnGauges'
  <2> SUFFICES ASSUME NEW d \in Collects \ {c}, solo[d], filled[d],
                      NEW g \in Sets(reply[d], Sections[at[d]])
               PROVE  gauge'[g] = d
    BY <1>c, <1>d DEF OwnGauges
  <2>1. gauge[g] = d /\ g \in Group
    BY <1>a DEF OwnGauges, InReply, InSection, Sets, Group
  <2> QED BY <1>b, <2>1
<1>5. SentSoFar'
  BY <1>a, <1>c, <1>d DEF SentSoFar
<1>6. EngineSent'
  BY <1>a, <1>c, <1>d DEF EngineSent, Exported
<1>7. StaleStaysInSection'
  BY <1>a, <1>c, <1>d DEF StaleStaysInSection
<1> QED BY <1>1, <1>2, <1>3, <1>4, <1>5, <1>6, <1>7 DEF IInv

\* The inductive invariant of the exports of a reply (ServerStatus.Export).
THEOREM Invariance ==
  ASSUME ServerStatusAssumption
  PROVE  Spec => []IInv
<1>1. IInv /\ [Next]_statusVars => IInv'
  <2> SUFFICES ASSUME IInv, [Next]_statusVars PROVE IInv'
    OBVIOUS
  <2>1. CASE UNCHANGED statusVars
    BY <2>1 DEF IInv, TypeOK, InReply, SoloAlone, OwnGauges, SentSoFar, EngineSent,
                StaleStaysInSection, Exporting, InSection, Exported, statusVars
  <2> QED BY <2>1, AskStep, FillStep, SendStep, SendEngineStep, ForgetStep DEF Next, Export
<1> QED BY InitInv, <1>1, PTL DEF Spec

-----------------------------------------------------------------------------
\* The types (ServerStatus.Export).
THEOREM TypeCorrect ==
  ASSUME ServerStatusAssumption
  PROVE  Spec => []TypeOK
<1>1. IInv => TypeOK
  BY DEF IInv
<1> QED BY Invariance, <1>1, PTL

\* A Collect alone sends all of its reply.
THEOREM Fresh ==
  ASSUME ServerStatusAssumption
  PROVE  Spec => []SoloFresh
<1>1. IInv => SoloFresh
  <2> SUFFICES ASSUME IInv, NEW c \in Collects, Exported(c), solo[c]
               PROVE  /\ \A g \in Group \cap reply[c].documents : <<g, TRUE>> \in told[c]
                      /\ reply[c].engine # None => reply[c].engine \in toldEngines[c]
    BY DEF SoloFresh
  <2>1. SentSoFar /\ EngineSent /\ TypeOK
    BY DEF IInv
  <2>2. at[c] = 19 /\ reply[c] \in Replies /\ reply[c] # None
    BY <2>1, SectionFacts DEF Exported, TypeOK
  <2>3. ASSUME NEW g \in Group \cap reply[c].documents PROVE <<g, TRUE>> \in told[c]
    <3>1. PICK i \in 1..17 : g \in PartsOf(Sections[i])
      BY SectionFacts DEF Group
    <3>2. g \in Sets(reply[c], Sections[i])
      BY <3>1 DEF Sets
    <3>3. Sections[i] \in reply[c].documents
      BY <2>2, <3>2, PartHasSection
    <3>4. i < at[c] /\ solo[c] /\ reply[c] # None
      BY <2>2
    <3> QED BY <2>1, <3>2, <3>3, <3>4 DEF SentSoFar
  <2> QED BY <2>1, <2>3 DEF EngineSent
<1> QED BY Invariance, <1>1, PTL

\* And what else it sends is of a part the server does not have.
THEOREM StaleInSection ==
  ASSUME ServerStatusAssumption
  PROVE  Spec => []StaleStaysInSection
<1>1. IInv => StaleStaysInSection
  BY DEF IInv
<1> QED BY Invariance, <1>1, PTL

-----------------------------------------------------------------------------
\* The sections behind a Collect, and the one it has set, had what the exporter takes for
\* granted.
UnbrokenSoFar ==
  \A c \in Collects :
    reply[c] # None =>
      \A i \in 1..17 :
        /\ i < at[c] \/ (i = at[c] /\ filled[c])
        /\ Sections[i] \in reply[c].documents
        => ~Breaks(reply[c], Sections[i])

\* What has been exported lacks nothing that the exporter takes for granted.
ExportedIsUnbroken ==
  \A c \in Collects :
    /\ at[c] = 0 => reply[c] = None
    /\ InSection(c) => reply[c] # None
    /\ Exported(c) =>
         \A d \in Dereferenced :
           d[2] \in reply[c].documents => d[3] \in reply[c].documents

\* A document with one that is taken for granted is a section or a part of one.
LEMMA DereferencedOf ==
  \A d \in Dereferenced :
    /\ \E i \in 1..17 : Sections[i] = d[1]
    /\ d[2] = d[1] \/ (d[1] \in DOMAIN Parts /\ d[2] \in Parts[d[1]])
<1>1. \A d \in Dereferenced : d[1] \in {"globalLock", "metrics", "wiredTiger"}
  BY DEF Dereferenced, GlobalLockNeeds, MetricsNeeds, WiredTigerNeeds
<1>2. Sections[7] = "globalLock" /\ Sections[15] = "metrics" /\ Sections[17] = "wiredTiger"
  BY DEF Sections
<1>3. \A d \in Dereferenced : d[2] = d[1] \/ (d[1] \in DOMAIN Parts /\ d[2] \in Parts[d[1]])
  BY DEF Dereferenced, GlobalLockNeeds, MetricsNeeds, WiredTigerNeeds,
         Parts, MetricsParts, WiredTigerParts
<1> QED BY <1>1, <1>2, <1>3

\* Export gets past a section only if it has set it.
LEMMA UnbrokenStep ==
  ASSUME ServerStatusAssumption, IInv, UnbrokenSoFar, [Next]_statusVars
  PROVE  UnbrokenSoFar'
<1>a. TypeOK /\ InReply
  BY DEF IInv
<1> USE SectionFacts
<1>1. ASSUME NEW c \in Collects, Ask(c) PROVE UnbrokenSoFar'
  <2>1. at[c] = 0 /\ reply[c] = None /\ ~filled[c] /\ UNCHANGED filled
    BY <1>a, <1>1 DEF Ask, InReply, InSection
  <2>2. \A d \in Collects \ {c} : at'[d] = at[d] /\ reply'[d] = reply[d]
    BY <1>a, <1>1 DEF Ask, TypeOK
  <2>3. reply'[c] # None => at'[c] = 1
    BY <1>a, <1>1, <2>1 DEF Ask, TypeOK
  <2> QED BY <2>1, <2>2, <2>3 DEF UnbrokenSoFar
<1>2. ASSUME NEW c \in Collects, Fill(c) PROVE UnbrokenSoFar'
  <2>1. ~Breaks(reply[c], Sections[at[c]]) /\ UNCHANGED <<at, reply>>
    BY <1>2 DEF Fill
  <2>2. \A d \in Collects \ {c} : filled'[d] = filled[d]
    BY <1>a, <1>2 DEF Fill, TypeOK
  <2> QED BY <2>1, <2>2 DEF UnbrokenSoFar
<1>3. ASSUME NEW c \in Collects, Send(c) PROVE UnbrokenSoFar'
  <2>1. PICK j \in 1..Last : Follows(reply[c], at[c], j) /\ at' = [at EXCEPT ![c] = j]
    BY <1>3 DEF Send
  <2>2. filled[c] /\ ~filled'[c] /\ UNCHANGED reply
    BY <1>a, <1>3 DEF Send, TypeOK
  <2>3. \A d \in Collects \ {c} : at'[d] = at[d] /\ filled'[d] = filled[d]
    BY <1>a, <1>3, <2>1 DEF Send, TypeOK
  <2>4. \A i \in 1..17 : i < j /\ Sections[i] \in reply[c].documents => i <= at[c]
    <3>1. \A k \in (at[c] + 1)..(j - 1) : Sections[k] \notin reply[c].documents
      BY <2>1 DEF Follows, Present
    <3>2. at[c] \in Nat
      BY <1>a DEF TypeOK
    <3> QED BY <3>1, <3>2
  <2>5. at'[c] = j /\ at[c] \in Nat
    BY <1>a, <2>1 DEF TypeOK
  <2>6. \A i \in 1..17 : i <= at[c] => i < at[c] \/ i = at[c]
    BY <2>5
  <2> QED BY <2>2, <2>3, <2>4, <2>5, <2>6 DEF UnbrokenSoFar
<1>4. ASSUME NEW c \in Collects, SendEngine(c) PROVE UnbrokenSoFar'
  <2>1. UNCHANGED <<filled, reply>> /\ \A d \in Collects \ {c} : at'[d] = at[d]
    BY <1>a, <1>4 DEF SendEngine, TypeOK
  <2>2. at[c] = 18 /\ at'[c] = 19
    BY <1>a, <1>4 DEF SendEngine, TypeOK
  <2>3. \A i \in 1..17 : i < at[c] /\ i # at'[c]
    BY <2>2
  <2> QED BY <2>1, <2>3 DEF UnbrokenSoFar
<1>5. ASSUME NEW c \in Collects, Forget(c) PROVE UnbrokenSoFar'
  BY <1>a, <1>5 DEF Forget, UnbrokenSoFar, TypeOK
<1>6. CASE UNCHANGED statusVars
  BY <1>6 DEF UnbrokenSoFar, statusVars
<1> QED BY <1>1, <1>2, <1>3, <1>4, <1>5, <1>6 DEF Next, Export

\* No reply is exported to its end that lacks what the exporter takes for granted.
THEOREM Unbroken ==
  ASSUME ServerStatusAssumption
  PROVE  Spec => []ExportedIsUnbroken
<1>1. Init => UnbrokenSoFar
  BY DEF Init, UnbrokenSoFar
<1>2. IInv /\ UnbrokenSoFar => ExportedIsUnbroken
  <2> SUFFICES ASSUME IInv, UnbrokenSoFar, NEW c \in Collects
               PROVE  /\ at[c] = 0 => reply[c] = None
                      /\ InSection(c) => reply[c] # None
                      /\ Exported(c) =>
                           \A d \in Dereferenced :
                             d[2] \in reply[c].documents => d[3] \in reply[c].documents
    BY DEF ExportedIsUnbroken
  <2>1. (at[c] = 0 => reply[c] = None) /\ (InSection(c) => reply[c] # None)
    BY SectionFacts DEF IInv, InReply, InSection, Exporting
  <2>2. ASSUME Exported(c), NEW d \in Dereferenced, d[2] \in reply[c].documents
        PROVE  d[3] \in reply[c].documents
    <3>1. reply[c] \in Replies /\ reply[c] # None /\ at[c] = 19
      BY <2>2, SectionFacts DEF IInv, TypeOK, Exported
    <3>2. PICK i \in 1..17 : Sections[i] = d[1]
      BY DereferencedOf
    <3>3. d[1] \in reply[c].documents
      BY <2>2, <3>1, DereferencedOf DEF ServerStatusAssumption
    <3>4. ~Breaks(reply[c], d[1])
      BY <3>1, <3>2, <3>3 DEF UnbrokenSoFar
    <3> QED BY <2>2, <3>4 DEF Breaks
  <2> QED BY <2>1, <2>2
<1> QED BY <1>1, <1>2, Invariance, UnbrokenStep, PTL DEF Spec
=============================================================================
