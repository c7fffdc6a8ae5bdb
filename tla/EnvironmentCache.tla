---------------------------- MODULE EnvironmentCache ---------------------------
(***************************************************************************)
(* The environment that rosbridge.Client caches (backend/internal/         *)
(* rosbridge/client.go): four lists, each behind the same lock but stored  *)
(* one by one, by every goroutine that calls RefreshEnvironmentParams and  *)
(* by the teardown of a connection, and shown to the terminal UI by the    *)
(* observer, outside the lock.                                             *)
(*                                                                         *)
(* A list is kept as the number of the scene of the robot it was read      *)
(* from, 0 for an empty one.  The terminal UI is connected throughout (its *)
(* comings and goings are in Hub); of the lists it shows the objects.      *)
(***************************************************************************)
EXTENDS Naturals, Sequences

CONSTANTS Callers,    \* goroutines that may call RefreshEnvironmentParams
          Bridge,     \* the goroutine of connectAndServe
          Presets,    \* the lists stored after the objects, in the code's order:
                      \* movements, orientations, bounds
          MaxScenes   \* bound: scenes of the robot

ASSUME BridgeIsNoCaller == Bridge \notin Callers
ASSUME ScenesAreMany == MaxScenes \in Nat \ {0}
ASSUME PresetsAreLists ==
    /\ Presets \in Seq(STRING) /\ Presets # <<>>
    /\ \A i \in DOMAIN Presets : Presets[i] \notin {"objects", "notify", "down"}

VARIABLES
    connected,  \* c.connected
    scene,      \* the scene that the robot is in
    call,       \* where the call of each caller stands
    values,     \* what each writer stores
    step,       \* the next step of each writer, 0 when it does not write
    cache,      \* availableObjs, availableMvts, availableOrients, tableBounds
    sidebar,    \* the objects that the terminal UI shows
    overlap     \* history: two writers were at work since one of them began

cacheVars == <<cache, sidebar, overlap>>
envVars == <<connected, scene, call, values, step, cacheVars>>

Writers == Callers \cup {Bridge}
Scenes == 0..MaxScenes
Fields == {"objects"} \cup {Presets[i] : i \in DOMAIN Presets}

\* What a writer does, in order.  Only the objects matter to the terminal UI,
\* so the notifications of the presets are not steps of their own.
Steps == <<"objects", "notify">> \o Presets \o <<"down">>

\* A writer has stored something and has not done its last step.
Writing(w) == step[w] > 1
AtRest == \A w \in Writers : ~Writing(w)

EnvTypeOK ==
    /\ connected \in BOOLEAN
    /\ scene \in 1..MaxScenes
    /\ call \in [Callers -> {"idle", "asked", "answered", "refreshed", "failed"}]
    /\ values \in [Writers -> Scenes]
    /\ step \in [Writers -> 0..Len(Steps)]
    /\ cache \in [Fields -> Scenes]
    /\ sidebar \in Scenes
    /\ overlap \in BOOLEAN

EnvInit ==
    /\ connected = FALSE /\ scene = 1
    /\ call = [c \in Callers |-> "idle"]
    /\ values = [w \in Writers |-> 0]
    /\ step = [w \in Writers |-> 0]
    /\ cache = [f \in Fields |-> 0] /\ sidebar = 0
    /\ overlap = FALSE

-----------------------------------------------------------------------------
(* The robot, and the connection to it.                                    *)

NewScene == scene < MaxScenes /\ scene' = scene + 1

\* The robot has moved something, or the middleware was started again.
SceneChanges == NewScene /\ UNCHANGED <<connected, call, values, step, cacheVars>>

Connect ==
    /\ ~connected /\ step[Bridge] = 0
    /\ connected' = TRUE
    /\ UNCHANGED <<scene, call, values, step, cacheVars>>

\* The deferred teardown lowers the flag, and then clears the lists.
LoseConnection ==
    /\ connected
    /\ connected' = FALSE
    /\ step' = [step EXCEPT ![Bridge] = 1]
    /\ UNCHANGED <<scene, call, values, cacheVars>>

-----------------------------------------------------------------------------
(* RefreshEnvironmentParams.                                               *)

\* CallService refuses the call when there is no connection.
Ask(c) ==
    /\ call' = [call EXCEPT ![c] = IF connected THEN "asked" ELSE "failed"]
    /\ UNCHANGED <<connected, scene, values, step, cacheVars>>

\* The answer of /get_robot_parameters has reached the caller.  The connection
\* may be lost from here on.
Answered(c) ==
    /\ call[c] = "asked" /\ connected
    /\ call' = [call EXCEPT ![c] = "answered"]
    /\ values' = [values EXCEPT ![c] = scene]
    /\ step' = [step EXCEPT ![c] = 1]
    /\ UNCHANGED <<connected, scene, cacheVars>>

\* A timeout, a lost connection or an answer that cannot be decoded.
RefreshFails(c) ==
    /\ call[c] = "asked"
    /\ call' = [call EXCEPT ![c] = "failed"]
    /\ UNCHANGED <<connected, scene, values, step, cacheVars>>

Following(w) == IF w # Bridge /\ Steps[step[w] + 1] = "down" THEN 0 ELSE step[w] + 1

\* Mutant: the bounds of the table, the last list, are not stored.
StoreAllButLast(w) ==
    /\ step[w] # 0 /\ Steps[step[w]] \in Fields
    /\ IF Steps[step[w]] = Presets[Len(Presets)] THEN UNCHANGED cache
       ELSE cache' = [cache EXCEPT ![Steps[step[w]]] = values[w]]
    /\ overlap' = IF step[w] > 1 THEN overlap ELSE \E v \in Writers \ {w} : Writing(v)
    /\ step' = [step EXCEPT ![w] = Following(w)]
    /\ call' = IF Following(w) = 0 THEN [call EXCEPT ![w] = "refreshed"] ELSE call
    /\ UNCHANGED <<connected, scene, values, sidebar>>

\* One of the setters.  The first store decides whether the writer is alone.
Store(w) ==
    /\ step[w] # 0 /\ Steps[step[w]] \in Fields
    /\ cache' = [cache EXCEPT ![Steps[step[w]]] = values[w]]
    /\ overlap' = IF step[w] > 1 THEN overlap ELSE \E v \in Writers \ {w} : Writing(v)
    /\ step' = [step EXCEPT ![w] = Following(w)]
    /\ call' = IF Following(w) = 0 THEN [call EXCEPT ![w] = "refreshed"] ELSE call
    /\ UNCHANGED <<connected, scene, values, sidebar>>

\* OnObjectsUpdated.  A nil list arrives as null, which the terminal UI takes
\* for a message without a list.
NotifyObjects(w) ==
    /\ step[w] # 0 /\ Steps[step[w]] = "notify"
    /\ sidebar' = IF values[w] = 0 THEN sidebar ELSE values[w]
    /\ step' = [step EXCEPT ![w] = Following(w)]
    /\ UNCHANGED <<connected, scene, call, values, cache, overlap>>

\* Mutant: the last notification is taken for what clears the list.
NotifyDownIgnored ==
    /\ step[Bridge] # 0 /\ Steps[step[Bridge]] = "down"
    /\ step' = [step EXCEPT ![Bridge] = 0]
    /\ UNCHANGED <<connected, scene, call, values, cacheVars>>

\* OnBridgeConnectionChange(false), which makes the terminal UI drop its list.
NotifyDown ==
    /\ step[Bridge] # 0 /\ Steps[step[Bridge]] = "down"
    /\ sidebar' = 0
    /\ step' = [step EXCEPT ![Bridge] = 0]
    /\ UNCHANGED <<connected, scene, call, values, cache, overlap>>

Refresh(c) == Answered(c) \/ RefreshFails(c)
Write(w) == Store(w) \/ NotifyObjects(w)

-----------------------------------------------------------------------------
\* The sidebar shows the objects of the cache, unless two writers overlapped and
\* none has worked alone since: the list is stored under the lock, but shown
\* outside of it (client.go:144-152, model.go:331-341).
SidebarFollowsCache ==
    AtRest /\ ~overlap => sidebar = cache["objects"]
=============================================================================
