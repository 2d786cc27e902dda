-------------------------- MODULE DashboardProofs --------------------------
(***************************************************************************)
(* Theorems about Dashboard for any number of requests, any overrides and  *)
(* values, any TTL and timeouts.                                           *)
(***************************************************************************)
EXTENDS Dashboard, TLAPS

(* An age counted up stays within its limit. *)
LEMMA LaterInRange ==
  ASSUME NEW limit \in Nat, NEW age \in 0..limit
  PROVE  Later(age, limit) \in 0..limit
  BY DEF Later

ReqType ==
  [key : Keys \cup {None}, value : Values \cup {None}, data : Overrides,
   missed : SUBSET Keys, ok : BOOLEAN, mode : Modes,
   misread : BOOLEAN, spent : 0..ProbeLimit]

StatusType ==
  [held : BOOLEAN, ok : BOOLEAN, mode : Modes, misread : BOOLEAN, age : 0..StatusTTL]

(* The parts of the type invariant, by what may disturb them; the mode in  *)
(* force is one of the two.                                                *)
ConfigType ==
  /\ stored \in BOOLEAN /\ overrides \in Overrides
  /\ ~stored => overrides = NoOverrides
WorldType ==
  /\ aiMode \in Modes \cup {"unset"} /\ redis \in {"up", "down"}
  /\ upAgo \in Ages /\ inForceAgo \in [Modes -> Ages]
RequestType ==
  /\ pc \in [Handlers -> Labels]
  /\ req \in [Handlers -> ReqType]
  /\ \A h \in Handlers : pc[h] = "read" => req[h].key \in Keys
  /\ \A h \in Handlers : pc[h] = "write" => req[h].key \in Keys
  /\ server \in {"running", "closing", "gone"}
  /\ server = "gone" => pc = [h \in Handlers |-> "idle"]

TInv == ConfigType /\ WorldType /\ RequestType /\ status \in StatusType

(* TInv says no less than TypeOK. *)
LEMMA TInvGivesType == TInv => TypeOK
  BY DEF TInv, ConfigType, WorldType, RequestType, TypeOK, ReqType, StatusType

(* The defaults are of their types. *)
LEMMA Defaults ==
  NoOverrides \in Overrides /\ NoRequest \in ReqType /\ NoStatus \in StatusType
<1>1. NoOverrides \in Overrides
  BY DEF NoOverrides, Overrides
<1>2. NoRequest \in ReqType
  BY <1>1, DashboardConstants DEF NoRequest, ReqType
<1>3. NoStatus \in StatusType
  BY DashboardConstants DEF NoStatus, StatusType
<1>4. QED
  BY <1>1, <1>2, <1>3

(* The first state. *)
LEMMA TypeInit == Init => TInv
<1> SUFFICES ASSUME Init PROVE TInv
  OBVIOUS
<1>1. StatusTTL + ProbeLimit \in Nat
  BY DashboardConstants
<1>2. ConfigType
  BY Defaults DEF Init, ConfigType
<1>3. WorldType
  BY <1>1 DEF Init, WorldType, Ages
<1>4. RequestType
  BY Defaults DEF Init, RequestType, Labels
<1>5. QED
  BY <1>2, <1>3, <1>4, Defaults DEF Init, TInv

(* An answered request has left nothing behind. *)
LEMMA AnswerType ==
  ASSUME RequestType, NEW h \in Handlers, Answer(h), UNCHANGED server
  PROVE  RequestType'
  BY Defaults DEF RequestType, Answer, Goto, Labels

(* A request that goes on with locals of their type. *)
LEMMA GoOnType ==
  ASSUME RequestType, NEW h \in Handlers, NEW r \in ReqType, NEW l \in Labels \ {"idle"},
         req' = [req EXCEPT ![h] = r], Goto(h, l), UNCHANGED server,
         l \in {"read", "write"} => r.key \in Keys,
         server # "gone"
  PROVE  RequestType'
  BY DEF RequestType, Goto

(* What an edit writes is a value of every key. *)
LEMMA EditedType ==
  ASSUME RequestType, NEW h \in Handlers
  PROVE  Edited(h) \in Overrides
  BY DEF RequestType, ReqType, Edited, Overrides

(* Every step keeps the types. *)
LEMMA TypeStep == TInv /\ [Next]_vars => TInv'
<1> SUFFICES ASSUME TInv, [Next]_vars PROVE TInv'
  OBVIOUS
<1> USE DEF TInv
<1>1. ASSUME NEW h \in Handlers, Edit(h)
      PROVE  TInv'
  <2>1. PICK k \in Keys, v \in Values \cup {None} :
          req' = [req EXCEPT ![h] = [NoRequest EXCEPT !.key = k, !.value = v]]
    BY <1>1 DEF Edit
  <2> DEFINE r == [NoRequest EXCEPT !.key = k, !.value = v]
  <2>2. r \in ReqType /\ r.key \in Keys
    BY Defaults DEF ReqType
  <2>3. RequestType'
    BY <1>1, <2>1, <2>2, GoOnType DEF Edit, Accepts, Labels
  <2>4. QED
    BY <1>1, <2>3 DEF Edit, ConfigType, WorldType, config, world
<1>2. ASSUME NEW h \in Handlers, ReadConfig(h)
      PROVE  TInv'
  <2>1. RequestType'
    <3>1. CASE Answer(h)
      BY <1>2, <3>1, AnswerType DEF ReadConfig
    <3>2. CASE req' = [req EXCEPT ![h].data = overrides] /\ Goto(h, "write")
      <4> DEFINE r == [req[h] EXCEPT !.data = overrides]
      <4>1. r \in ReqType /\ r.key \in Keys
        BY <1>2 DEF ReadConfig, RequestType, ReqType, ConfigType
      <4>2. req' = [req EXCEPT ![h] = r] /\ server # "gone"
        BY <1>2, <3>2 DEF ReadConfig, RequestType
      <4>3. QED
        BY <1>2, <3>2, <4>1, <4>2, GoOnType DEF ReadConfig, Labels
    <3>3. QED
      BY <1>2, <3>1, <3>2 DEF ReadConfig
  <2>2. QED
    BY <1>2, <2>1 DEF ReadConfig, ConfigType, WorldType, config, world
<1>3. ASSUME NEW h \in Handlers, ReadFails(h)
      PROVE  TInv'
  <2>1. RequestType'
    <3>1. CASE Answer(h)
      BY <1>3, <3>1, AnswerType DEF ReadFails
    <3>2. CASE req' = [req EXCEPT ![h].data = NoOverrides, ![h].missed = Keys] /\ Goto(h, "write")
      <4> DEFINE r == [req[h] EXCEPT !.data = NoOverrides, !.missed = Keys]
      <4>1. r \in ReqType /\ r.key \in Keys
        BY <1>3, Defaults DEF ReadFails, RequestType, ReqType
      <4>2. req' = [req EXCEPT ![h] = r] /\ server # "gone"
        BY <1>3, <3>2 DEF ReadFails, RequestType
      <4>3. QED
        BY <1>3, <3>2, <4>1, <4>2, GoOnType DEF ReadFails, Labels
    <3>3. QED
      BY <1>3, <3>1, <3>2 DEF ReadFails
  <2>2. QED
    BY <1>3, <2>1 DEF ReadFails, ConfigType, WorldType, config, world
<1>4. ASSUME NEW h \in Handlers, WriteConfig(h)
      PROVE  TInv'
  <2>1. ConfigType'
    BY <1>4, EditedType DEF WriteConfig, ConfigType
  <2>2. \A g \in Handlers : req'[g] \in ReqType /\ (g # h => req'[g].key = req[g].key)
    <3> SUFFICES ASSUME NEW g \in Handlers
                 PROVE  req'[g] \in ReqType /\ (g # h => req'[g].key = req[g].key)
      OBVIOUS
    <3> DEFINE changed == {k \in Keys : overrides'[k] # overrides[k]}
    <3>1. CASE g = h
      BY <1>4, <3>1, Defaults DEF WriteConfig
    <3>2. CASE g # h /\ pc[g] # "write"
      BY <1>4, <3>2 DEF WriteConfig, RequestType
    <3>3. CASE g # h /\ pc[g] = "write"
      <4>1. req'[g] = [req[g] EXCEPT !.missed = @ \cup changed]
        BY <1>4, <3>3 DEF WriteConfig
      <4>2. changed \subseteq Keys
        OBVIOUS
      <4> HIDE DEF changed
      <4>3. QED
        BY <3>3, <4>1, <4>2 DEF RequestType, ReqType
    <3>4. QED
      BY <3>1, <3>2, <3>3
  <2>3. RequestType'
    <3>1. req' = [g \in Handlers |-> req'[g]]
      BY <1>4 DEF WriteConfig
    <3>2. req' \in [Handlers -> ReqType]
      BY <2>2, <3>1
    <3>3. pc' \in [Handlers -> Labels] /\ server' = server /\ server # "gone"
      BY <1>4 DEF WriteConfig, Goto, RequestType, Labels
    <3>4. \A g \in Handlers : pc'[g] \in {"read", "write"} => g # h /\ pc'[g] = pc[g]
      BY <1>4 DEF WriteConfig, Goto, RequestType
    <3>5. QED
      BY <2>2, <3>2, <3>3, <3>4 DEF RequestType
  <2>4. QED
    BY <1>4, <2>1, <2>3 DEF WriteConfig, WorldType, world
<1>5. ASSUME NEW h \in Handlers, WriteFails(h)
      PROVE  TInv'
  BY <1>5, AnswerType DEF WriteFails, ConfigType, WorldType, config, world
<1>6. ASSUME NEW h \in Handlers, SetAIMode(h)
      PROVE  TInv'
  <2>1. inForceAgo' \in [Modes -> Ages]
    BY <1>6, DashboardConstants DEF SetAIMode, WorldType, Ages
  <2>2. QED
    BY <1>6, <2>1 DEF SetAIMode, ConfigType, WorldType, RequestType, config
<1>7. ASSUME NEW h \in Handlers, StatusCached(h)
      PROVE  TInv'
  BY <1>7 DEF StatusCached, vars, config, world, ConfigType, WorldType, RequestType
<1>8. ASSUME NEW h \in Handlers, Ping(h)
      PROVE  TInv'
  <2>1. PICK ok \in {FALSE, redis = "up"} :
          req' = [req EXCEPT ![h] = [NoRequest EXCEPT !.ok = ok]]
    BY <1>8 DEF Ping
  <2> DEFINE r == [NoRequest EXCEPT !.ok = ok]
  <2>2. r \in ReqType
    BY Defaults DEF ReqType
  <2>3. RequestType'
    BY <1>8, <2>1, <2>2, GoOnType DEF Ping, Accepts, Labels
  <2>4. QED
    BY <1>8, <2>3 DEF Ping, ConfigType, WorldType, config, world
<1>9. ASSUME NEW h \in Handlers, Probe(h)
      PROVE  TInv'
  BY <1>9 DEF Probe, Goto, ConfigType, WorldType, RequestType, Labels, config, world
<1>10. ASSUME NEW h \in Handlers, ProbePanics(h)
       PROVE  TInv'
  BY <1>10, AnswerType DEF ProbePanics, ConfigType, WorldType, config, world
<1>11. ASSUME NEW h \in Handlers, GetAIMode(h)
       PROVE  TInv'
  <2>1. \E r \in ReqType : req' = [req EXCEPT ![h] = r]
    <3>1. CASE req' = [req EXCEPT ![h].mode = Effective(aiMode)]
      <4>1. Effective(aiMode) \in Modes
        BY DashboardConstants DEF Effective
      <4>2. [req[h] EXCEPT !.mode = Effective(aiMode)] \in ReqType
        BY <4>1 DEF RequestType, ReqType
      <4>3. req' = [req EXCEPT ![h] = [req[h] EXCEPT !.mode = Effective(aiMode)]]
        BY <3>1
      <4>4. QED
        BY <4>2, <4>3
    <3>2. CASE req' = [req EXCEPT ![h].misread = TRUE]
      <4>1. [req[h] EXCEPT !.misread = TRUE] \in ReqType
        BY DEF RequestType, ReqType
      <4>2. req' = [req EXCEPT ![h] = [req[h] EXCEPT !.misread = TRUE]]
        BY <3>2
      <4>3. QED
        BY <4>1, <4>2
    <3>3. QED
      BY <1>11, <3>1, <3>2 DEF GetAIMode
  <2>2. RequestType'
    BY <1>11, <2>1, GoOnType DEF GetAIMode, RequestType, Labels
  <2>3. QED
    BY <1>11, <2>2 DEF GetAIMode, ConfigType, WorldType, config, world
<1>12. ASSUME NEW h \in Handlers, SetStatus(h)
       PROVE  TInv'
  <2>1. status' \in StatusType
    BY <1>12, DashboardConstants DEF SetStatus, StatusType, RequestType, ReqType
  <2>2. QED
    BY <1>12, <2>1, AnswerType DEF SetStatus, ConfigType, WorldType, config, world
<1>13. CASE Outage
  BY <1>13, DashboardConstants DEF Outage, ConfigType, WorldType, RequestType, Ages, config
<1>14. CASE Tick
  <2>1. status' \in StatusType
    BY <1>14, LaterInRange, DashboardConstants DEF Tick, StatusType
  <2>2. WorldType'
    <3>1. upAgo' \in Ages
      BY <1>14, LaterInRange, DashboardConstants DEF Tick, WorldType, Ages
    <3>2. inForceAgo' \in [Modes -> Ages]
      <4>1. \A m \in Modes : Later(inForceAgo[m], StatusTTL + ProbeLimit) \in Ages /\ 0 \in Ages
        BY LaterInRange, DashboardConstants DEF WorldType, Ages
      <4>2. QED
        BY <1>14, <4>1 DEF Tick
    <3>3. QED
      BY <1>14, <3>1, <3>2 DEF Tick, WorldType
  <2>3. \A h \in Handlers : req'[h] \in ReqType /\ req'[h].key = req[h].key
    BY <1>14, DashboardConstants DEF Tick, RequestType, ReqType
  <2>4. RequestType'
    <3>1. req' = [h \in Handlers |-> req'[h]]
      BY <1>14 DEF Tick
    <3>2. req' \in [Handlers -> ReqType]
      BY <2>3, <3>1
    <3>3. QED
      BY <1>14, <2>3, <3>2 DEF Tick, RequestType
  <2>5. QED
    BY <1>14, <2>1, <2>2, <2>4 DEF Tick, ConfigType, config
<1>15. CASE Cancel
  BY <1>15 DEF Cancel, ConfigType, WorldType, RequestType, config, world
<1>16. CASE Exit
  <2>1. RequestType'
    BY <1>16, Defaults DEF Exit, RequestType, Labels
  <2>2. QED
    BY <1>16, <2>1, Defaults DEF Exit, ConfigType, WorldType, config, world
<1>17. CASE Restart
  BY <1>17 DEF Restart, ConfigType, WorldType, RequestType, config, world
<1>18. CASE UNCHANGED vars
  BY <1>18 DEF vars, config, world, ConfigType, WorldType, RequestType
<1>19. QED
  BY <1>1, <1>2, <1>3, <1>4, <1>5, <1>6, <1>7, <1>8, <1>9, <1>10, <1>11, <1>12,
     <1>13, <1>14, <1>15, <1>16, <1>17, <1>18 DEF Next, Request

(* TInv holds throughout. *)
LEMMA TypeInvariant == Spec => []TInv
  BY TypeInit, TypeStep, PTL DEF Spec

(* The type invariant of the dashboard: requests, cache and Redis keep to  *)
(* their ranges, across outages, shutdowns and restarts.                   *)
THEOREM TypeCorrect == Spec => []TypeOK
  BY TypeInvariant, TInvGivesType, PTL

-----------------------------------------------------------------------------
(* EditTouchesOwnKey follows from what an edit knows: between its GET and  *)
(* its SET its data agree with the overrides on every key that it has not  *)
(* missed.                                                                 *)
Knows(h) == \A k \in Keys \ req[h].missed : req[h].data[k] = overrides[k]
EditInv == \A h \in Handlers : pc[h] = "write" => Knows(h)

(* A request that is not about to write, or is as it was.                  *)
LEMMA KnowsStays ==
  ASSUME EditInv, UNCHANGED overrides, NEW h \in Handlers,
         pc'[h] = "write" => pc[h] = "write" /\ req'[h] = req[h]
  PROVE  pc'[h] = "write" => Knows(h)'
  BY DEF EditInv, Knows

(* A SET tells the other edits what they have missed. *)
LEMMA EditInvWrite ==
  ASSUME TInv, EditInv, NEW h \in Handlers, WriteConfig(h)
  PROVE  EditInv'
<1> SUFFICES ASSUME NEW g \in Handlers, pc'[g] = "write"
             PROVE  Knows(g)'
  BY DEF EditInv
<1>1. g # h /\ pc[g] = "write"
  BY DEF WriteConfig, Goto, TInv, RequestType
<1> DEFINE changed == {k \in Keys : overrides'[k] # overrides[k]}
<1>2. req'[g] = [req[g] EXCEPT !.missed = @ \cup changed]
  BY <1>1 DEF WriteConfig
<1>3. req'[g].missed = req[g].missed \cup changed /\ req'[g].data = req[g].data
  BY <1>2 DEF TInv, RequestType, ReqType
<1>4. \A k \in Keys \ req'[g].missed : req[g].data[k] = overrides[k] /\ overrides'[k] = overrides[k]
  BY <1>1, <1>3 DEF EditInv, Knows
<1>5. QED
  BY <1>3, <1>4 DEF Knows

(* Every step keeps what the edits know. *)
LEMMA EditInvStep == TInv /\ EditInv /\ [Next]_vars => EditInv'
<1> SUFFICES ASSUME TInv, EditInv, [Next]_vars PROVE EditInv'
  OBVIOUS
<1> USE DEF TInv, RequestType
<1>1. ASSUME NEW h \in Handlers, Request(h)
      PROVE  EditInv'
  <2>1. CASE ReadConfig(h)
    <3> SUFFICES ASSUME NEW g \in Handlers, pc'[g] = "write" PROVE Knows(g)'
      BY DEF EditInv
    <3>1. CASE g = h
      BY <2>1, <3>1 DEF ReadConfig, Answer, Goto, ReqType, Knows, config
    <3>2. CASE g # h
      BY <2>1, <3>2, KnowsStays DEF ReadConfig, Answer, Goto, config
    <3>3. QED
      BY <3>1, <3>2
  <2>2. CASE ReadFails(h)
    <3> SUFFICES ASSUME NEW g \in Handlers, pc'[g] = "write" PROVE Knows(g)'
      BY DEF EditInv
    <3>1. CASE g = h
      BY <2>2, <3>1 DEF ReadFails, Answer, Goto, ReqType, Knows
    <3>2. CASE g # h
      BY <2>2, <3>2, KnowsStays DEF ReadFails, Answer, Goto, config
    <3>3. QED
      BY <3>1, <3>2
  <2>3. CASE WriteConfig(h)
    BY <2>3, EditInvWrite
  <2>4. CASE Edit(h) \/ WriteFails(h) \/ SetAIMode(h) \/ StatusCached(h)
    <3> SUFFICES ASSUME NEW g \in Handlers
                 PROVE  /\ UNCHANGED overrides
                        /\ pc'[g] = "write" => pc[g] = "write" /\ req'[g] = req[g]
      BY KnowsStays DEF EditInv
    <3>1. QED
      BY <2>4 DEF Edit, WriteFails, SetAIMode, StatusCached, Accepts, Answer, Goto, config, vars
  <2>5. CASE Ping(h) \/ Probe(h) \/ ProbePanics(h) \/ GetAIMode(h) \/ SetStatus(h)
    <3> SUFFICES ASSUME NEW g \in Handlers
                 PROVE  /\ UNCHANGED overrides
                        /\ pc'[g] = "write" => pc[g] = "write" /\ req'[g] = req[g]
      BY KnowsStays DEF EditInv
    <3>1. QED
      BY <2>5 DEF Ping, Probe, ProbePanics, GetAIMode, SetStatus, Accepts, Answer, Goto, config
  <2>6. QED
    BY <1>1, <2>1, <2>2, <2>3, <2>4, <2>5 DEF Request
<1>2. CASE Outage \/ Tick \/ Cancel \/ Exit \/ Restart \/ UNCHANGED vars
  <2> SUFFICES ASSUME NEW g \in Handlers
               PROVE  /\ UNCHANGED overrides
                      /\ pc'[g] = "write" => pc[g] = "write" /\ req'[g] = req[g]
    BY KnowsStays DEF EditInv
  <2>1. QED
    BY <1>2 DEF Outage, Tick, Cancel, Exit, Restart, vars, config
<1>3. QED
  BY <1>1, <1>2 DEF Next

(* What a step of an edit that is over has done to the other overrides. *)
LEMMA EditStepTouches ==
  ASSUME TInv, EditInv, [Next]_vars, NEW h \in Handlers, pc[h] = "write",
         NEW k \in Keys \ (req[h].missed \cup {req[h].key}),
         overrides'[k] # overrides[k]
  PROVE  pc'[h] = "write"
<1>1. PICK g \in Handlers : WriteConfig(g)
  BY DEF Next, Request, Edit, ReadConfig, ReadFails, WriteFails, SetAIMode, StatusCached,
         Ping, Probe, ProbePanics, GetAIMode, SetStatus, Outage, Tick, Cancel, Exit,
         Restart, vars, config
<1>2. CASE g = h
  <2>1. overrides'[k] = req[h].data[k]
    BY <1>1, <1>2 DEF WriteConfig, Edited, TInv, RequestType, ReqType, Overrides
  <2>2. QED
    BY <2>1 DEF EditInv, Knows
<1>3. CASE g # h
  BY <1>1, <1>3 DEF WriteConfig, Goto, TInv, RequestType
<1>4. QED
  BY <1>2, <1>3

(* An edit changes no override but its own, unless somebody else changed   *)
(* that one between its GET and its SET, or the GET failed.                *)
THEOREM EditsApart == Spec => EditTouchesOwnKey
<1>1. Init => EditInv
  BY DEF Init, EditInv
<1>2. TInv /\ EditInv /\ [Next]_vars =>
        [\A h \in Handlers : pc[h] = "write" =>
           \A k \in Keys \ (req[h].missed \cup {req[h].key}) :
             overrides'[k] # overrides[k] => pc'[h] = "write"]_vars
  BY EditStepTouches
<1>3. QED
  BY <1>1, <1>2, TypeInvariant, EditInvStep, PTL DEF Spec, EditTouchesOwnKey

-----------------------------------------------------------------------------
(* StatusIsRecent needs to know how old every part of a status is, while   *)
(* it is put together and when it is cached.                               *)
Probing(h) == pc[h] \in {"probe", "mode", "set"}

ClocksRight ==
  /\ redis = "up" => upAgo = 0
  /\ inForceAgo[Effective(aiMode)] = 0

PartsRecent(h) ==
  /\ Probing(h) /\ req[h].ok => upAgo <= req[h].spent
  /\ pc[h] = "set" /\ ~req[h].misread => inForceAgo[req[h].mode] <= req[h].spent

CacheRecent ==
  status.held /\ status.age < StatusTTL =>
    /\ status.ok => upAgo <= ProbeLimit + status.age
    /\ ~status.misread => inForceAgo[status.mode] <= ProbeLimit + status.age

StatusInv == ClocksRight /\ (\A h \in Handlers : PartsRecent(h)) /\ CacheRecent

(* A step of the requests that leaves the clocks alone keeps what each     *)
(* other request knows.                                                    *)
LEMMA PartsStay ==
  ASSUME NEW h \in Handlers, PartsRecent(h), UNCHANGED <<upAgo, inForceAgo>>,
         Probing(h)' => Probing(h) /\ req'[h] = req[h],
         pc'[h] = "set" => pc[h] = "set"
  PROVE  PartsRecent(h)'
  BY DEF PartsRecent, Probing

(* The mode in force is one of the two. *)
LEMMA EffectiveMode == Effective(aiMode) \in Modes /\ Effective(aiMode') \in Modes
  BY DashboardConstants DEF Effective

(* Every step keeps StatusInv. *)
LEMMA StatusStep == TInv /\ StatusInv /\ [Next]_vars => StatusInv'
<1> SUFFICES ASSUME TInv, StatusInv, [Next]_vars PROVE StatusInv'
  OBVIOUS
<1> USE DEF TInv, StatusInv
<1>1. ASSUME NEW h \in Handlers,
             Edit(h) \/ ReadConfig(h) \/ ReadFails(h) \/ WriteFails(h)
               \/ StatusCached(h) \/ ProbePanics(h)
      PROVE  StatusInv'
  <2>1. UNCHANGED <<world, status>>
    BY <1>1 DEF Edit, ReadConfig, ReadFails, WriteFails, StatusCached, ProbePanics, vars
  <2>2. ASSUME NEW g \in Handlers
        PROVE  /\ Probing(g)' => Probing(g) /\ req'[g] = req[g]
               /\ pc'[g] = "set" => pc[g] = "set"
    BY <1>1 DEF Edit, ReadConfig, ReadFails, WriteFails, StatusCached, ProbePanics, Accepts,
                Answer, Goto, Probing, RequestType, vars
  <2>3. \A g \in Handlers : PartsRecent(g)'
    BY <2>1, <2>2, PartsStay DEF world
  <2>4. QED
    BY <2>1, <2>3 DEF ClocksRight, CacheRecent, world
<1>2. ASSUME NEW h \in Handlers, WriteConfig(h)
      PROVE  StatusInv'
  <2>1. UNCHANGED <<world, status>>
    BY <1>2 DEF WriteConfig
  <2>2. ASSUME NEW g \in Handlers
        PROVE  /\ Probing(g)' => Probing(g) /\ req'[g] = req[g]
               /\ pc'[g] = "set" => pc[g] = "set"
    BY <1>2 DEF WriteConfig, Goto, Probing, RequestType
  <2>3. \A g \in Handlers : PartsRecent(g)'
    BY <2>1, <2>2, PartsStay DEF world
  <2>4. QED
    BY <2>1, <2>3 DEF ClocksRight, CacheRecent, world
<1>3. ASSUME NEW h \in Handlers, SetAIMode(h)
      PROVE  StatusInv'
  <2>1. inForceAgo' = [inForceAgo EXCEPT ![aiMode'] = 0] /\ aiMode' \in Modes
    BY <1>3 DEF SetAIMode
  <2>2. \A m \in Modes : inForceAgo'[m] <= inForceAgo[m] /\ inForceAgo'[m] \in Nat
    BY <2>1, DashboardConstants DEF WorldType, Ages
  <2>3. Effective(aiMode') = aiMode' /\ inForceAgo'[aiMode'] = 0
    BY <2>1 DEF Effective, WorldType
  <2>4. UNCHANGED <<redis, upAgo, status, pc, req>>
    BY <1>3 DEF SetAIMode
  <2>5. \A g \in Handlers : PartsRecent(g)'
    BY <2>2, <2>4, DashboardConstants DEF PartsRecent, Probing, RequestType, ReqType, WorldType, Ages
  <2>6. CacheRecent'
    BY <2>2, <2>4, DashboardConstants DEF CacheRecent, StatusType, WorldType, Ages
  <2>7. QED
    BY <2>3, <2>4, <2>5, <2>6 DEF ClocksRight
<1>4. ASSUME NEW h \in Handlers, Ping(h)
      PROVE  StatusInv'
  <2>1. UNCHANGED <<world, status>>
    BY <1>4 DEF Ping
  <2>2. PartsRecent(h)'
    <3>1. PICK ok \in {FALSE, redis = "up"} :
            req' = [req EXCEPT ![h] = [NoRequest EXCEPT !.ok = ok]]
      BY <1>4 DEF Ping
    <3>2. req'[h] = [NoRequest EXCEPT !.ok = ok]
      BY <3>1 DEF RequestType
    <3>3. req'[h].ok = ok /\ req'[h].spent = 0
      BY <3>2 DEF NoRequest
    <3>4. pc'[h] = "probe"
      BY <1>4 DEF Ping, Goto, RequestType
    <3>5. ok => redis = "up"
      BY <3>1, Zenon
    <3>6. req'[h].ok => upAgo' <= req'[h].spent
      BY <2>1, <3>3, <3>5 DEF ClocksRight, world
    <3>7. QED
      BY <3>4, <3>6 DEF PartsRecent
  <2>3. ASSUME NEW g \in Handlers, g # h
        PROVE  PartsRecent(g)'
    BY <1>4, <2>1, <2>3, PartsStay DEF Ping, Goto, Probing, RequestType, world
  <2>4. QED
    BY <2>1, <2>2, <2>3 DEF ClocksRight, CacheRecent, world
<1>5. ASSUME NEW h \in Handlers, Probe(h)
      PROVE  StatusInv'
  <2>1. UNCHANGED <<world, status, req>>
    BY <1>5 DEF Probe
  <2>2. \A g \in Handlers : PartsRecent(g)'
    BY <1>5, <2>1 DEF Probe, Goto, PartsRecent, Probing, RequestType, world
  <2>3. QED
    BY <2>1, <2>2 DEF ClocksRight, CacheRecent, world
<1>6. ASSUME NEW h \in Handlers, GetAIMode(h)
      PROVE  StatusInv'
  <2>1. UNCHANGED <<world, status>>
    BY <1>6 DEF GetAIMode
  <2>2. PartsRecent(h)'
    <3>1. req'[h].ok = req[h].ok /\ req'[h].spent = req[h].spent /\ req[h].spent \in Nat
      BY <1>6, DashboardConstants DEF GetAIMode, RequestType, ReqType
    <3>2. req'[h].misread \/ req'[h].mode = Effective(aiMode)
      BY <1>6 DEF GetAIMode, RequestType, ReqType
    <3>3. QED
      BY <1>6, <2>1, <3>1, <3>2 DEF GetAIMode, Goto, PartsRecent, Probing, ClocksRight, world
  <2>3. ASSUME NEW g \in Handlers, g # h
        PROVE  PartsRecent(g)'
    BY <1>6, <2>1, <2>3, PartsStay DEF GetAIMode, Goto, Probing, RequestType, world
  <2>4. QED
    BY <2>1, <2>2, <2>3 DEF ClocksRight, CacheRecent, world
<1>7. ASSUME NEW h \in Handlers, SetStatus(h)
      PROVE  StatusInv'
  <2>1. UNCHANGED world
    BY <1>7 DEF SetStatus
  <2>2. \A g \in Handlers : PartsRecent(g)'
    BY <1>7, <2>1, PartsStay DEF SetStatus, Answer, Goto, Probing, RequestType, world
  <2>3. CacheRecent'
    <3>1. req[h].spent <= ProbeLimit /\ req[h].spent \in Nat /\ req[h].mode \in Modes
      BY DashboardConstants DEF RequestType, ReqType
    <3>2. status' = [held |-> TRUE, ok |-> req[h].ok, mode |-> req[h].mode,
                     misread |-> req[h].misread, age |-> 0]
      BY <1>7 DEF SetStatus
    <3>3. PartsRecent(h) /\ Probing(h) /\ pc[h] = "set"
      BY <1>7 DEF SetStatus, Probing
    <3>4. upAgo \in Nat /\ inForceAgo[req[h].mode] \in Nat
      BY <3>1, DashboardConstants DEF WorldType, Ages
    <3>5. QED
      BY <2>1, <3>1, <3>2, <3>3, <3>4, DashboardConstants DEF CacheRecent, PartsRecent, world
  <2>4. QED
    BY <2>1, <2>2, <2>3 DEF ClocksRight, world
<1>8. CASE Outage
  <2>1. upAgo' = 0 /\ UNCHANGED <<aiMode, inForceAgo, status, pc, req>>
    BY <1>8 DEF Outage
  <2>2. \A g \in Handlers : PartsRecent(g)'
    BY <2>1, DashboardConstants DEF PartsRecent, Probing, RequestType, ReqType
  <2>3. QED
    BY <2>1, <2>2, DashboardConstants DEF ClocksRight, CacheRecent, StatusType
<1>9. CASE Tick
  <2>1. /\ UNCHANGED <<aiMode, redis, pc>>
        /\ upAgo' <= upAgo + 1 /\ upAgo \in Nat /\ upAgo' \in Nat
        /\ redis = "up" => upAgo' = 0
    BY <1>9, DashboardConstants DEF Tick, Later, WorldType, Ages
  <2>2. \A m \in Modes : /\ inForceAgo'[m] <= inForceAgo[m] + 1
                         /\ inForceAgo[m] \in Nat /\ inForceAgo'[m] \in Nat
                         /\ m = Effective(aiMode) => inForceAgo'[m] = 0
    BY <1>9, DashboardConstants DEF Tick, Later, WorldType, Ages
  <2>3. ClocksRight'
    BY <2>1, <2>2, EffectiveMode DEF ClocksRight
  <2>4. ASSUME NEW g \in Handlers
        PROVE  PartsRecent(g)'
    <3>1. req[g].spent \in Nat /\ req[g].mode \in Modes
      BY DashboardConstants DEF RequestType, ReqType
    <3>2. CASE Probing(g)
      <4>1. req'[g] = [req[g] EXCEPT !.spent = @ + 1]
        BY <1>9, <3>2 DEF Tick, Probing
      <4>2. /\ req'[g].spent = req[g].spent + 1 /\ req'[g].ok = req[g].ok
            /\ req'[g].mode = req[g].mode /\ req'[g].misread = req[g].misread
        BY <4>1 DEF RequestType, ReqType
      <4>3. QED
        BY <2>1, <2>2, <3>1, <4>2 DEF PartsRecent, Probing
    <3>3. CASE ~Probing(g)
      BY <2>1, <3>3 DEF PartsRecent, Probing
    <3>4. QED
      BY <3>2, <3>3
  <2>5. CacheRecent'
    <3>1. status' = [status EXCEPT !.age = Later(@, StatusTTL)]
      BY <1>9 DEF Tick
    <3>2. /\ status'.age = Later(status.age, StatusTTL) /\ status.age \in 0..StatusTTL
          /\ status'.held = status.held /\ status'.ok = status.ok
          /\ status'.mode = status.mode /\ status'.misread = status.misread
          /\ status.mode \in Modes
      BY <3>1 DEF StatusType
    <3>3. status'.age < StatusTTL => status.age < StatusTTL /\ status'.age = status.age + 1
      BY <3>2, DashboardConstants DEF Later
    <3>4. QED
      BY <2>1, <2>2, <3>2, <3>3, DashboardConstants DEF CacheRecent
  <2>6. QED
    BY <2>3, <2>4, <2>5
<1>10. CASE Cancel \/ Restart \/ UNCHANGED vars
  BY <1>10 DEF Cancel, Restart, vars, world, ClocksRight, PartsRecent, Probing, CacheRecent
<1>11. CASE Exit
  <2>1. UNCHANGED world /\ status' = NoStatus /\ \A g \in Handlers : pc'[g] = "idle"
    BY <1>11 DEF Exit
  <2>2. QED
    BY <2>1 DEF world, ClocksRight, PartsRecent, Probing, CacheRecent, NoStatus
<1>12. QED
  BY <1>1, <1>2, <1>3, <1>4, <1>5, <1>6, <1>7, <1>8, <1>9, <1>10, <1>11 DEF Next, Request

(* What the status page shows was so at most a TTL and one request ago.    *)
THEOREM StatusRecent == Spec => []StatusIsRecent
<1>1. Init => StatusInv
  <2> SUFFICES ASSUME Init PROVE StatusInv
    OBVIOUS
  <2>1. Effective(aiMode) = DefaultMode
    BY DEF Init, Effective, Modes
  <2>2. QED
    BY <2>1, DashboardConstants DEF Init, StatusInv, ClocksRight, PartsRecent, Probing,
       CacheRecent, NoStatus
<1>2. TInv /\ StatusInv => StatusIsRecent
  BY DashboardConstants DEF TInv, StatusInv, CacheRecent, StatusIsRecent, StatusType,
     WorldType, Ages
<1>3. QED
  BY <1>1, <1>2, TypeInvariant, StatusStep, PTL DEF Spec
=============================================================================
