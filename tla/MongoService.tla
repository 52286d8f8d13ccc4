---------------------------- MODULE MongoService ----------------------------
(***************************************************************************)
(* The process with its MongoDB exporter in detail: a request to /mongodb  *)
(* asks the server for its status and exports it before it is answered,    *)
(* while the requests to the other services come and go.  Whether its      *)
(* Collect panics is no longer a choice but depends on the reply.          *)
(***************************************************************************)
EXTENDS ExporterPlus

CONSTANTS Replies, Old

VARIABLES at, filled, reply, gauge, engines, told, toldEngines, solo

ServerStatus == INSTANCE MongoServerStatus WITH Collects <- Requests

ASSUME ServiceAssumption == ServerStatus!ServerStatusAssumption

statusVars == <<at, filled, reply, gauge, engines, told, toldEngines, solo>>
serviceVars == <<vars, statusVars>>

ServiceTypeOK == TypeOK /\ ServerStatus!TypeOK

ServiceInit == Init /\ ServerStatus!Init

ToMongo(r) == Listening /\ pc[r] = "collect" /\ asked[r] = Path["mongodb"]

Around == (Boot \/ \E r \in Requests : Request(r)) /\ UNCHANGED statusVars

Export(r) ==
  /\ ToMongo(r)
  /\ ServerStatus!Export(r)
  /\ UNCHANGED vars

\* The goroutine of this Collect does the rest of it after collectServerStatus.
ServiceGathered(r) ==
  /\ ToMongo(r) => at[r] = ServerStatus!Over
  /\ \E o \in Outcome : Gathered(r, o)
  /\ UNCHANGED statusVars

ServicePanic(r) ==
  /\ ToMongo(r) => ServerStatus!Panics(r)
  /\ Panic(r)
  /\ UNCHANGED statusVars

ServiceFinish(r) == Finish(r) /\ ServerStatus!Forget(r)

Handle(r) == Export(r) \/ ServiceGathered(r) \/ ServicePanic(r)

ServiceNext ==
  \/ Around
  \/ \E r \in Requests : Handle(r) \/ ServiceFinish(r)

ServiceSpec == ServiceInit /\ [][ServiceNext]_serviceVars

\* main runs on, and every goroutine of a request does: what it asks is answered, or fails
\* at a timeout (a server that does neither would hold up its own requests for ever, and
\* those asked at the start, Kafka and PostgreSQL, the start as well).
\* Nothing makes readers ask.
ServiceFairness ==
  /\ WF_serviceVars(Boot /\ UNCHANGED statusVars)
  /\ \A r \in Requests : WF_serviceVars(Handle(r))

FairServiceSpec == ServiceSpec /\ ServiceFairness

-----------------------------------------------------------------------------
\* What a Collect alone sends is of its own reply, and it sends all of that (see
\* MongoServerStatus).
SoloFresh == ServerStatus!SoloFresh

\* What it sends of an earlier reply is of a part that its reply lacks (see
\* MongoServerStatus).
StaleStaysInSection == ServerStatus!StaleStaysInSection

\* Some document of the reply lacks one that the exporter takes for granted in it.
Broken(documents) ==
  \E d \in ServerStatus!Dereferenced : d[2] \in documents /\ d[3] \notin documents

\* The process ends in the MongoDB exporter only by such a reply: a server may leave out
\* what it does not have, a standalone one all of metrics.repl.  And such a reply is never
\* served in part: it ends the process before its request is answered.
OnlyBrokenRepliesEnd ==
  /\ exit = "mongodb" => \E r \in Requests : reply[r] # None /\ Broken(reply[r].documents)
  /\ \A r \in Requests :
       pc[r] = "answered" /\ reply[r] # None => ~Broken(reply[r].documents)

\* The process comes to listen or ends (main).
StartsOrEnds == <>(Listening \/ exit # None)

\* A request is answered unless the process ends, whatever the other requests do; an answer
\* of the server that lacks nothing is exported to its end.
Answered ==
  \A r \in Requests : pc[r] = "collect" ~> pc[r] = "answered" \/ exit # None
=============================================================================
