------------------------- MODULE MongoCollectHistory -------------------------
(***************************************************************************)
(* MongoCollector with what its promises are about and the program does    *)
(* not remember: whether a Collect overlapped another one, and what        *)
(* MongoDB has answered it.                                                *)
(***************************************************************************)
EXTENDS MongoCollector

VARIABLES
  solo,         \* no other Collect has run since this one began
  answered      \* the series the replies to a solo Collect ask for

hvars == <<vars, solo, answered>>

HInit ==
  /\ Init
  /\ solo = [c \in Collects |-> FALSE]
  /\ answered = [c \in Collects |-> {}]

Starts(c) == pc[c] = "idle" /\ pc'[c] # "idle"
Ended(c) == pc[c] # "idle" /\ pc'[c] = "idle"

\* What the step learns from MongoDB.
Learns(c) ==
  IF pc[c] = "dial" /\ pc'[c] = "upset" THEN {<<"up", UpValue(c)'>>}
  ELSE IF pc[c] \in {"ask", "next"} /\ pc'[c] # pc[c] THEN {Part(c)} \X chunk'[c]
  ELSE {}

Remember ==
  /\ solo' = [c \in Collects |->
                /\ pc'[c] # "idle"
                /\ solo[c] \/ Starts(c)
                /\ \A d \in Collects \ {c} : pc'[d] = "idle"]
  /\ answered' = [c \in Collects |->
                    IF solo'[c] THEN answered[c] \cup Learns(c) ELSE {}]

HNext == Next /\ Remember

HSpec == HInit /\ [][HNext]_hvars

-----------------------------------------------------------------------------
\* What is never reset.
Lasting == {"server", "conf", "oplog", "top"}

\* A Collect that had the vectors to itself sends each series MongoDB answered it with, and
\* none twice; of those it does not owe to an answer there are only ones that an earlier
\* answer has left in a vector that is never reset (Collect and the Export methods).
SoloExact ==
  [][\A c \in Collects : solo[c] /\ Ended(c) =>
       /\ ~twice[c]
       /\ answered[c] \subseteq sent[c]
       /\ \A s \in sent[c] \ answered[c] : s[1] \in Lasting]_hvars

(***************************************************************************)
(* What the documentation says, and overlapping Collects refute.           *)
(***************************************************************************)
\* "To show if we can connect to mongodb instance": a Collect sends mongodb_up, with the
\* outcome of its own dial (upGauge).
UpTruthful ==
  \A c \in Collects : pc[c] = "upreset" =>
    sent[c] \cap Up = {<<"up", UpValue(c)>>}
=============================================================================
