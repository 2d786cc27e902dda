------------------------------ MODULE Dashboard ------------------------------
(***************************************************************************)
(* The requests of the dashboard that keep state: the runtime overrides    *)
(* (GET of one JSON value, a change, SET, without a lock), the AI mode and *)
(* the status page with its cache; the end of the process in the middle of *)
(* a request, and its restart.  Handlers only read or write one key are    *)
(* one step; those that only read are left out.                            *)
(*                                                                         *)
(* Redis is up or down, and a command may fail while it is up.  A unit of  *)
(* time is some seconds; what is measured is ages and time spent.          *)
(***************************************************************************)
EXTENDS Integers

CONSTANTS
  Handlers,     \* requests that are worked on at a time
  Keys, Values, \* of the overrides
  None,         \* no override; as the value of an edit, its deletion
  DefaultMode,  \* getDefaultAIMode
  StatusTTL,    \* of the cached status (15s)
  ProbeLimit,   \* timeouts of a status request after its ping (10s + 2s)
  ErrorLengths  \* lengths of the exchange client's error messages

Modes == {"ai", "rule"}

ASSUME DashboardConstants ==
  /\ None \notin Keys \cup Values
  /\ DefaultMode \in Modes
  /\ StatusTTL \in Nat \ {0} /\ ProbeLimit \in Nat /\ ErrorLengths \subseteq Nat

VARIABLES
  stored,     \* whether the key runtime_config exists
  overrides,  \* the overrides it holds
  aiMode,     \* the key ai_mode: a mode, or "unset"
  redis,      \* "up" or "down"
  status,     \* the status cache
  server,     \* "running", "closing", or the process is "gone"
  pc,         \* where each request is
  req,        \* its local variables
  upAgo,      \* history: time since Redis was last up
  inForceAgo  \* history: time since each mode was last in force

config == <<stored, overrides>>
world == <<aiMode, redis, upAgo, inForceAgo>>
vars == <<config, world, status, server, pc, req>>

NoOverrides == [k \in Keys |-> None]
Effective(mode) == IF mode \in Modes THEN mode ELSE DefaultMode

(* A status: whether the ping was answered, the mode, whether the mode     *)
(* could not be read, and its age.                                         *)
NoStatus == [held |-> FALSE, ok |-> FALSE, mode |-> DefaultMode, misread |-> FALSE,
             age |-> StatusTTL]

(* The locals of an edit: its key and value and what the GET has brought,  *)
(* with a history of the keys that this says nothing about any more.  Of a *)
(* status request: the parts of the status, and the time since the ping.   *)
NoRequest ==
  [key |-> None, value |-> None, data |-> NoOverrides, missed |-> {},
   ok |-> FALSE, mode |-> DefaultMode, misread |-> FALSE, spent |-> 0]

Init ==
  /\ stored = FALSE /\ overrides = NoOverrides
  /\ aiMode = "unset" /\ redis = "up"
  /\ upAgo = 0
  /\ inForceAgo = [m \in Modes |-> IF m = DefaultMode THEN 0 ELSE StatusTTL + ProbeLimit]
  /\ status = NoStatus /\ server = "running"
  /\ pc = [h \in Handlers |-> "idle"]
  /\ req = [h \in Handlers |-> NoRequest]

Goto(h, label) == pc' = [pc EXCEPT ![h] = label]
Accepts(h) == server = "running" /\ pc[h] = "idle"

Answer(h) ==
  /\ Goto(h, "idle")
  /\ req' = [req EXCEPT ![h] = NoRequest]

-----------------------------------------------------------------------------
(* handleSetRuntimeConfig and handleDeleteRuntimeConfig. *)
Edit(h) ==
  /\ Accepts(h)
  /\ \E k \in Keys, v \in Values \cup {None} :
       req' = [req EXCEPT ![h] = [NoRequest EXCEPT !.key = k, !.value = v]]
  /\ Goto(h, "read")
  /\ UNCHANGED <<config, world, status, server>>

(* GET brings the overrides; there is nothing to delete without the key. *)
ReadConfig(h) ==
  /\ pc[h] = "read" /\ redis = "up"
  /\ IF req[h].value = None /\ ~stored
     THEN Answer(h)
     ELSE req' = [req EXCEPT ![h].data = overrides] /\ Goto(h, "write")
  /\ UNCHANGED <<config, world, status, server>>

(* Its error is ignored: the key counts as missing. *)
ReadFails(h) ==
  /\ pc[h] = "read"
  /\ IF req[h].value = None
     THEN Answer(h)
     ELSE req' = [req EXCEPT ![h].data = NoOverrides, ![h].missed = Keys] /\ Goto(h, "write")
  /\ UNCHANGED <<config, world, status, server>>

Edited(h) == [req[h].data EXCEPT ![req[h].key] = req[h].value]

(* Faulty variant: what is written is only the override of the request. *)
WriteAlone(h) ==
  /\ pc[h] = "write" /\ redis = "up"
  /\ stored' = TRUE
  /\ overrides' = [NoOverrides EXCEPT ![req[h].key] = req[h].value]
  /\ req' = [g \in Handlers |->
               IF g = h THEN NoRequest
               ELSE IF pc[g] # "write" THEN req[g]
               ELSE [req[g] EXCEPT !.missed =
                       @ \cup {k \in Keys : overrides'[k] # overrides[k]}]]
  /\ Goto(h, "idle")
  /\ UNCHANGED <<world, status, server>>

(* SET, without a TTL.  The client is told of an error if the answer is    *)
(* lost.  The other edits that have read already do not see the change.    *)
WriteConfig(h) ==
  /\ pc[h] = "write" /\ redis = "up"
  /\ stored' = TRUE
  /\ overrides' = Edited(h)
  /\ req' = [g \in Handlers |->
               IF g = h THEN NoRequest
               ELSE IF pc[g] # "write" THEN req[g]
               ELSE [req[g] EXCEPT !.missed =
                       @ \cup {k \in Keys : overrides'[k] # overrides[k]}]]
  /\ Goto(h, "idle")
  /\ UNCHANGED <<world, status, server>>

WriteFails(h) ==
  /\ pc[h] = "write"
  /\ Answer(h)
  /\ UNCHANGED <<config, world, status, server>>

(* handleSetAIMode. *)
SetAIMode(h) ==
  /\ Accepts(h) /\ redis = "up"
  /\ aiMode' \in Modes
  /\ inForceAgo' = [inForceAgo EXCEPT ![aiMode'] = 0]
  /\ UNCHANGED <<config, redis, upAgo, status, server, pc, req>>

-----------------------------------------------------------------------------
(* Faulty variant: looking at a status makes it younger. *)
StatusCachedSliding(h) ==
  /\ Accepts(h)
  /\ status.held /\ status.age < StatusTTL
  /\ status' = [status EXCEPT !.age = 0]
  /\ UNCHANGED <<config, world, server, pc, req>>

(* handleStatus answers from the cache: nothing changes. *)
StatusCached(h) ==
  /\ Accepts(h)
  /\ status.held /\ status.age < StatusTTL
  /\ UNCHANGED vars

(* Or it starts to find out: a ping. *)
Ping(h) ==
  /\ Accepts(h)
  /\ ~status.held \/ status.age >= StatusTTL
  /\ \E ok \in {FALSE, redis = "up"} :
       req' = [req EXCEPT ![h] = [NoRequest EXCEPT !.ok = ok]]
  /\ Goto(h, "probe")
  /\ UNCHANGED <<config, world, status, server>>

(* probeBinance: GetBalance returns, or fails with a long message. *)
Probe(h) ==
  /\ pc[h] = "probe"
  /\ Goto(h, "mode")
  /\ UNCHANGED <<config, world, status, server, req>>

(* The first 100 bytes of a shorter message: the panic is recovered from,  *)
(* the answer is an error, and the cache stays as it is.                   *)
ProbePanics(h) ==
  /\ pc[h] = "probe"
  /\ \E n \in ErrorLengths : n < 100
  /\ Answer(h)
  /\ UNCHANGED <<config, world, status, server>>

(* getAIMode; if the key cannot be read it is the default. *)
GetAIMode(h) ==
  /\ pc[h] = "mode"
  /\ \/ redis = "up" /\ req' = [req EXCEPT ![h].mode = Effective(aiMode)]
     \/ req' = [req EXCEPT ![h].misread = TRUE]
  /\ Goto(h, "set")
  /\ UNCHANGED <<config, world, status, server>>

(* globalStatusCache.set: the status takes its age from here. *)
SetStatus(h) ==
  /\ pc[h] = "set"
  /\ status' = [held |-> TRUE, ok |-> req[h].ok, mode |-> req[h].mode,
                misread |-> req[h].misread, age |-> 0]
  /\ Answer(h)
  /\ UNCHANGED <<config, world, server>>

-----------------------------------------------------------------------------
(* Redis goes down, or comes back with what it held. *)
Outage ==
  /\ redis' = IF redis = "up" THEN "down" ELSE "up"
  /\ upAgo' = 0
  /\ UNCHANGED <<config, aiMode, inForceAgo, status, server, pc, req>>

Later(age, limit) == IF age < limit THEN age + 1 ELSE age

(* Faulty variant: the calls of a probe have no timeout. *)
TickOn ==
  /\ req' = [h \in Handlers |-> IF pc[h] \in {"probe", "mode", "set"}
                                THEN [req[h] EXCEPT !.spent = @ + 1] ELSE req[h]]
  /\ status' = [status EXCEPT !.age = Later(@, StatusTTL)]
  /\ UNCHANGED <<config, world, server, pc>>

(* A unit of time; the timeouts end a probe in time.  Ages are counted up  *)
(* to where they no longer matter.                                         *)
Tick ==
  /\ \A h \in Handlers : pc[h] \in {"probe", "mode", "set"} => req[h].spent < ProbeLimit
  /\ req' = [h \in Handlers |-> IF pc[h] \in {"probe", "mode", "set"}
                                THEN [req[h] EXCEPT !.spent = @ + 1] ELSE req[h]]
  /\ status' = [status EXCEPT !.age = Later(@, StatusTTL)]
  /\ upAgo' = IF redis = "up" THEN 0 ELSE Later(upAgo, StatusTTL + ProbeLimit)
  /\ inForceAgo' = [m \in Modes |-> IF m = Effective(aiMode) THEN 0
                                    ELSE Later(inForceAgo[m], StatusTTL + ProbeLimit)]
  /\ UNCHANGED <<config, aiMode, redis, server, pc>>

(* Run: ctx is done, the listener closes and Run returns; Shutdown waits   *)
(* for the requests, but nobody waits for Shutdown.                        *)
Cancel ==
  /\ server = "running"
  /\ server' = "closing"
  /\ UNCHANGED <<config, world, status, pc, req>>

(* main returns once the other services have ended. *)
Exit ==
  /\ server = "closing"
  /\ server' = "gone"
  /\ status' = NoStatus
  /\ pc' = [h \in Handlers |-> "idle"]
  /\ req' = [h \in Handlers |-> NoRequest]
  /\ UNCHANGED <<config, world>>

Restart ==
  /\ server = "gone"
  /\ server' = "running"
  /\ UNCHANGED <<config, world, status, pc, req>>

Request(h) ==
  \/ Edit(h) \/ ReadConfig(h) \/ ReadFails(h) \/ WriteConfig(h) \/ WriteFails(h)
  \/ SetAIMode(h)
  \/ StatusCached(h) \/ Ping(h) \/ Probe(h) \/ ProbePanics(h) \/ GetAIMode(h) \/ SetStatus(h)

Next == Outage \/ Tick \/ Cancel \/ Exit \/ Restart \/ \E h \in Handlers : Request(h)

Spec == Init /\ [][Next]_vars

-----------------------------------------------------------------------------
Labels == {"idle", "read", "write", "probe", "mode", "set"}
Overrides == [Keys -> Values \cup {None}]
Ages == 0..(StatusTTL + ProbeLimit)

(* The variables keep to their ranges; the process that is gone has no     *)
(* requests, and Redis without the key has no overrides.                   *)
TypeOK ==
  /\ stored \in BOOLEAN /\ overrides \in Overrides
  /\ ~stored => overrides = NoOverrides
  /\ aiMode \in Modes \cup {"unset"} /\ redis \in {"up", "down"}
  /\ upAgo \in Ages /\ inForceAgo \in [Modes -> Ages]
  /\ status \in [held : BOOLEAN, ok : BOOLEAN, mode : Modes, misread : BOOLEAN,
                 age : 0..StatusTTL]
  /\ server \in {"running", "closing", "gone"}
  /\ pc \in [Handlers -> Labels]
  /\ req \in [Handlers -> [key : Keys \cup {None}, value : Values \cup {None}, data : Overrides,
                           missed : SUBSET Keys, ok : BOOLEAN, mode : Modes,
                           misread : BOOLEAN, spent : 0..ProbeLimit]]
  /\ server = "gone" => pc = [h \in Handlers |-> "idle"]

(* An edit changes the override it names and no other, except one that     *)
(* somebody else changed between its GET and its SET, or all of them if    *)
(* its GET failed: this much is left without a lock on the value.          *)
EditTouchesOwnKey ==
  [][\A h \in Handlers : pc[h] = "write" =>
       \A k \in Keys \ (req[h].missed \cup {req[h].key}) :
         overrides'[k] # overrides[k] => pc'[h] = "write"]_vars

(* What the status page shows was so at most the TTL and the time of one   *)
(* request ago, however requests overtake each other: Redis was up if it   *)
(* says so, and the mode it names was in force unless it could not be read.*)
StatusIsRecent ==
  status.held /\ status.age < StatusTTL =>
    /\ status.ok => upAgo < StatusTTL + ProbeLimit
    /\ ~status.misread => inForceAgo[status.mode] < StatusTTL + ProbeLimit

(* handlers.go:264 "status: ok" to a deletion: afterwards the override is  *)
(* not there (a GET that fails counts as a missing key, line 282).         *)
DeletionDone ==
  [][\A h \in Handlers : pc[h] = "read" /\ pc'[h] = "idle" /\ server' # "gone" =>
       overrides[req[h].key] = None]_vars

(* README.md:37 "runtime configuration": the overrides that were set stay  *)
(* until they are edited.                                                  *)
OverridesKept ==
  [][\A k \in Keys : overrides'[k] # overrides[k] =>
       \E h \in Handlers : pc[h] = "write" /\ req[h].key = k]_vars

(* server.go:131 "graceful shutdown": the process does not end while a     *)
(* request is being worked on.                                             *)
ShutdownGraceful ==
  [][server' = "gone" => \A h \in Handlers : pc[h] = "idle"]_vars
=============================================================================
