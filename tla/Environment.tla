------------------------------- MODULE Environment -----------------------------
(***************************************************************************)
(* Who uses EnvironmentCache: a command, which falls back on the cache when *)
(* its refresh fails (backend/internal/pipeline/ws_handler.go), and the    *)
(* handlers of POST /api/scan and /api/reset (backend/internal/api/        *)
(* handlers.go).  The warm start of a connection only refreshes.           *)
(***************************************************************************)
EXTENDS EnvironmentCache, FiniteSets

CONSTANTS Commands, Scans,  \* the callers that are commands and scans
          Objects           \* the object names in each scene, a sequence of sets

ASSUME CommandsAndScansAreCallers ==
    Commands \subseteq Callers /\ Scans \subseteq Callers /\ Commands \cap Scans = {}
ASSUME ScenesHaveObjects ==
    /\ DOMAIN Objects = 1..MaxScenes
    /\ \A s \in 1..MaxScenes : IsFiniteSet(Objects[s])

VARIABLES
    environment,  \* what each command gives to the pipeline
    copied,       \* the lists that a command has copied from the cache
    disturbed,    \* history: a list was stored while a command copied, or before
    phase,        \* where each scan stands
    before,       \* the scene that a scan has read before the snapshot
    after,        \* and the one it has read after it
    snapshot      \* history: the scene that the snapshot of a scan made

commandVars == <<environment, copied, disturbed>>
scanVars == <<phase, before, after, snapshot>>
vars == <<envVars, commandVars, scanVars>>

GetterOrder == <<"objects">> \o Presets
Others == Callers \ (Commands \cup Scans)

TypeOK ==
    /\ EnvTypeOK
    /\ environment \in [Commands -> [Fields -> Scenes]]
    /\ copied \in [Commands -> 0..Len(GetterOrder) - 1]
    /\ disturbed \in [Commands -> BOOLEAN]
    /\ phase \in [Scans -> {"idle", "first", "snapping", "ready", "second", "reported"}]
    /\ before \in [Scans -> Scenes] /\ after \in [Scans -> Scenes]
    /\ snapshot \in [Scans -> Scenes]

Init ==
    /\ EnvInit
    /\ environment = [c \in Commands |-> [f \in Fields |-> 0]]
    /\ copied = [c \in Commands |-> 0] /\ disturbed = [c \in Commands |-> FALSE]
    /\ phase = [s \in Scans |-> "idle"]
    /\ before = [s \in Scans |-> 0] /\ after = [s \in Scans |-> 0]
    /\ snapshot = [s \in Scans |-> 0]

IsIdle(c) == call[c] = "idle"
Release(c) ==
    /\ call' = [call EXCEPT ![c] = "idle"]
    /\ values' = [values EXCEPT ![c] = 0]

-----------------------------------------------------------------------------
(* HandlePrompt.                                                           *)

\* It is refused at once without a connection.
StartCommand(c) ==
    /\ IsIdle(c) /\ connected
    /\ Ask(c)
    /\ environment' = [environment EXCEPT ![c] = [f \in Fields |-> 0]]
    /\ disturbed' = [disturbed EXCEPT ![c] = FALSE]
    /\ UNCHANGED <<copied, scanVars>>

UseFresh(c) ==
    /\ call[c] = "refreshed"
    /\ environment' = [environment EXCEPT ![c] = [f \in Fields |-> values[c]]]
    /\ Release(c)
    /\ UNCHANGED <<connected, scene, step, cacheVars, copied, disturbed, scanVars>>

\* Mutant: one list too many.
CopyCachedOneMore(c) ==
    /\ call[c] = "failed"
    /\ LET f == GetterOrder[copied[c] + 1]
           last == copied[c] = Len(GetterOrder)
       IN  /\ environment' = [environment EXCEPT ![c][f] = cache[f]]
           /\ copied' = [copied EXCEPT ![c] = IF last THEN 0 ELSE @ + 1]
           /\ IF last THEN Release(c) ELSE UNCHANGED <<call, values>>
    /\ disturbed' = IF copied[c] = 0 THEN [disturbed EXCEPT ![c] = overlap \/ ~AtRest]
                    ELSE disturbed
    /\ UNCHANGED <<connected, scene, step, cacheVars, scanVars>>

\* One of the four getters, each under its own read lock.
CopyCached(c) ==
    /\ call[c] = "failed"
    /\ LET f == GetterOrder[copied[c] + 1]
           last == copied[c] + 1 = Len(GetterOrder)
       IN  /\ environment' = [environment EXCEPT ![c][f] = cache[f]]
           /\ copied' = [copied EXCEPT ![c] = IF last THEN 0 ELSE @ + 1]
           /\ IF last THEN Release(c) ELSE UNCHANGED <<call, values>>
    /\ disturbed' = IF copied[c] = 0 THEN [disturbed EXCEPT ![c] = overlap \/ ~AtRest]
                    ELSE disturbed
    /\ UNCHANGED <<connected, scene, step, cacheVars, scanVars>>

-----------------------------------------------------------------------------
(* ScanHandler and ResetHandler.                                           *)

Move(s, to) == phase' = [phase EXCEPT ![s] = to]

\* The handler returns.
Forget(s) ==
    /\ before' = [before EXCEPT ![s] = 0] /\ after' = [after EXCEPT ![s] = 0]
    /\ snapshot' = [snapshot EXCEPT ![s] = 0]

StartScan(s) ==
    /\ phase[s] = "idle" /\ IsIdle(s)
    /\ Ask(s) /\ Move(s, "first")
    /\ UNCHANGED <<commandVars, before, after, snapshot>>

ScanFails(s) ==
    /\ phase[s] \in {"first", "second"} /\ call[s] = "failed"
    /\ Release(s) /\ Move(s, "idle") /\ Forget(s)
    /\ UNCHANGED <<connected, scene, step, cacheVars, commandVars>>

ReadBefore(s) ==
    /\ phase[s] = "first" /\ call[s] = "refreshed"
    /\ before' = [before EXCEPT ![s] = values[s]]
    /\ Release(s) /\ Move(s, "snapping")
    /\ UNCHANGED <<connected, scene, step, cacheVars, commandVars, after, snapshot>>

\* The vision node updates the objects of the middleware.
Snapshot(s) ==
    /\ phase[s] = "snapping" /\ connected
    /\ NewScene
    /\ snapshot' = [snapshot EXCEPT ![s] = scene']
    /\ Move(s, "ready")
    /\ UNCHANGED <<connected, call, values, step, cacheVars, commandVars, before, after>>

\* No vision node, no connection, or an answer that came too late: the scene
\* may have changed all the same.
SnapshotFails(s) ==
    /\ phase[s] = "snapping"
    /\ NewScene \/ UNCHANGED scene
    /\ Move(s, "idle") /\ Forget(s)
    /\ UNCHANGED <<connected, call, values, step, cacheVars, commandVars>>

AskAgain(s) ==
    /\ phase[s] = "ready"
    /\ Ask(s) /\ Move(s, "second")
    /\ UNCHANGED <<commandVars, before, after, snapshot>>

\* Mutant: the objects after the snapshot are those of the cache.
ReportFromCache(s) ==
    /\ phase[s] = "second" /\ call[s] = "refreshed" /\ cache["objects"] # 0
    /\ after' = [after EXCEPT ![s] = cache["objects"]]
    /\ Release(s) /\ Move(s, "reported")
    /\ UNCHANGED <<connected, scene, step, cacheVars, commandVars, before, snapshot>>

Report(s) ==
    /\ phase[s] = "second" /\ call[s] = "refreshed"
    /\ after' = [after EXCEPT ![s] = values[s]]
    /\ Release(s) /\ Move(s, "reported")
    /\ UNCHANGED <<connected, scene, step, cacheVars, commandVars, before, snapshot>>

EndScan(s) ==
    /\ phase[s] = "reported"
    /\ Move(s, "idle") /\ Forget(s)
    /\ UNCHANGED <<envVars, commandVars>>

\* ResetEnvironment changes the scene and leaves the cache as it is.
Reset ==
    /\ connected /\ NewScene
    /\ UNCHANGED <<connected, call, values, step, cacheVars, commandVars, scanVars>>

missingFrom(a, b) == a \ b
Added(s) == missingFrom(Objects[after[s]], Objects[before[s]])
Removed(s) == missingFrom(Objects[before[s]], Objects[after[s]])
Unchanged(s) == Cardinality(Objects[after[s]]) - Cardinality(Added(s))

-----------------------------------------------------------------------------
\* A store disturbs every command that is copying the cache.
Copying == {c \in Commands : copied[c] > 0}

WriteCache(w) ==
    /\ Store(w)
    /\ disturbed' = [c \in Commands |-> disturbed[c] \/ c \in Copying]
    /\ UNCHANGED <<environment, copied, scanVars>>

Bystanders == UNCHANGED <<commandVars, scanVars>>

Next ==
    \/ (SceneChanges \/ Connect \/ LoseConnection \/ NotifyDown) /\ Bystanders
    \/ Reset
    \/ \E c \in Callers : Refresh(c) /\ Bystanders
    \/ \E w \in Writers : WriteCache(w) \/ (NotifyObjects(w) /\ Bystanders)
    \/ \E c \in Others :
         \/ IsIdle(c) /\ Ask(c) /\ Bystanders
         \/ /\ call[c] \in {"refreshed", "failed"} /\ Release(c)
            /\ UNCHANGED <<connected, scene, step, cacheVars, commandVars, scanVars>>
    \/ \E c \in Commands : StartCommand(c) \/ UseFresh(c) \/ CopyCached(c)
    \/ \E s \in Scans :
         \/ StartScan(s) \/ ScanFails(s) \/ ReadBefore(s) \/ Snapshot(s)
         \/ SnapshotFails(s) \/ AskAgain(s) \/ Report(s) \/ EndScan(s)

Spec == Init /\ [][Next]_vars

-----------------------------------------------------------------------------
\* A command plans with one scene: what it gets from a refresh is one reading,
\* and a copy of the cache mixes two only when writers overlapped or a list was
\* stored during the copy (ws_handler.go:37-49).
CommandPlansWithOneScene ==
    \A c \in Commands :
        IsIdle(c) /\ ~disturbed[c] =>
            \A f, g \in Fields : environment[c][f] = environment[c][g]

\* The two readings of a scan lie on either side of its snapshot, however many
\* other callers and resets there are, so what it reports did change in
\* between; and the report adds up (handlers.go:114-137).
ScanBracketsSnapshot ==
    \A s \in Scans :
        phase[s] = "reported" =>
            /\ before[s] < snapshot[s] /\ snapshot[s] <= after[s]
            /\ Unchanged(s) = Cardinality(Objects[before[s]]) - Cardinality(Removed(s))
=============================================================================
