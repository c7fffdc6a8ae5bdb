---------------------------- MODULE EnvironmentProofs ---------------------------
(***************************************************************************)
(* Proofs about Environment, for any callers, commands and scans, any      *)
(* lists and any number of scenes: the sidebar follows the cache, a        *)
(* command plans with one scene, and a scan reads on either side of its    *)
(* snapshot.                                                               *)
(***************************************************************************)
EXTENDS Environment, FiniteSetTheorems, TLAPS

\* Where the call of a writer stands, and what it has read.
StepInv ==
    /\ values[Bridge] = 0
    /\ connected => step[Bridge] = 0
    /\ \A c \in Callers :
         /\ step[c] <= Len(Presets) + 2
         /\ step[c] # 0 => call[c] = "answered"
         /\ call[c] \in {"answered", "refreshed"} => values[c] # 0
         /\ values[c] <= scene

\* All lists of the cache are of one scene.
OneScene == \A f, g \in Fields : cache[f] = cache[g]

Alone(w) == \A v \in Writers \ {w} : ~Writing(v)

\* What the steps that w has done have left behind.
Stored(w) ==
    /\ \A i \in 1 .. step[w] - 1 : Steps[i] \in Fields => cache[Steps[i]] = values[w]
    /\ w # Bridge /\ step[w] > 2 => sidebar = values[w]

\* Without an overlap the one writer has replaced what it has passed, and all of
\* it when it is done.
CacheInv ==
    /\ AtRest /\ ~overlap => OneScene /\ sidebar = cache["objects"]
    /\ \A w \in Writers : Writing(w) /\ ~overlap => Alone(w) /\ Stored(w)

\* An undisturbed copy is the beginning of the cache.
CopyInv ==
    \A c \in Commands :
        copied[c] > 0 =>
            /\ call[c] = "failed"
            /\ ~disturbed[c] =>
                 /\ OneScene
                 /\ \A i \in 1 .. copied[c] : environment[c][GetterOrder[i]] = cache[GetterOrder[i]]

\* The readings of a scan and its snapshot, in the order of its phases.
ScanInv ==
    \A s \in Scans :
        /\ phase[s] \in {"idle", "snapping", "ready", "reported"} => call[s] = "idle"
        /\ phase[s] = "snapping" => 0 < before[s] /\ before[s] <= scene
        /\ phase[s] \in {"ready", "second"} =>
             0 < before[s] /\ before[s] < snapshot[s] /\ snapshot[s] <= scene
        /\ phase[s] = "second" /\ call[s] \in {"answered", "refreshed"} => snapshot[s] <= values[s]
        /\ phase[s] = "reported" =>
             0 < before[s] /\ before[s] < snapshot[s] /\ snapshot[s] <= after[s]

IInv == TypeOK /\ StepInv /\ CacheInv /\ CopyInv /\ CommandPlansWithOneScene /\ ScanInv

-----------------------------------------------------------------------------
(* The order of the steps.                                                 *)

\* The objects come first, then their notification, the other lists, and for the
\* bridge the last notification.
LEMMA Positions ==
    /\ Len(Presets) \in Nat /\ Len(Presets) > 0 /\ Len(Steps) = Len(Presets) + 3
    /\ Steps[1] = "objects" /\ Steps[2] = "notify" /\ Steps[Len(Presets) + 3] = "down"
    /\ \A i \in 3 .. Len(Presets) + 2 : Steps[i] \in Fields \ {"objects"}
    /\ \A f \in Fields : \E i \in 1 .. Len(Presets) + 2 : Steps[i] = f
    /\ "objects" \in Fields /\ "notify" \notin Fields /\ "down" \notin Fields
<1> DEFINE N == Len(Presets)
<1>1. /\ Presets \in Seq(STRING) /\ N \in Nat /\ N > 0 /\ DOMAIN Presets = 1 .. N
      /\ \A i \in 1 .. N : Presets[i] \notin {"objects", "notify", "down"}
  BY PresetsAreLists
<1>2. Len(Steps) = N + 3
  <2>1. PICK S : S = {"objects", "notify", "down"} \cup {Presets[i] : i \in 1 .. N}
    OBVIOUS
  <2>2. Presets \in Seq(S)
    BY <1>1, <2>1
  <2>3. \A x, y \in S : <<x, y>> \in Seq(S) /\ <<x>> \in Seq(S)
    OBVIOUS
  <2>4. <<"objects", "notify">> \in Seq(S) /\ <<"down">> \in Seq(S)
    BY <2>1, <2>3
  <2>5. /\ <<"objects", "notify">> \o Presets \in Seq(S)
        /\ Len(<<"objects", "notify">> \o Presets) = N + 2
    BY <1>1, <2>2, <2>4
  <2>6. QED
    BY <1>1, <2>4, <2>5 DEF Steps
<1>3. Steps[1] = "objects" /\ Steps[2] = "notify" /\ Steps[N + 3] = "down"
  BY <1>1 DEF Steps
<1>4. \A i \in 3 .. N + 2 : Steps[i] = Presets[i - 2] /\ i - 2 \in 1 .. N
  BY <1>1 DEF Steps
<1>5. Fields = {"objects"} \cup {Presets[i] : i \in 1 .. N}
  BY <1>1 DEF Fields
<1>6. \A i \in 3 .. N + 2 : Steps[i] \in Fields \ {"objects"}
  BY <1>1, <1>4, <1>5
<1>7. ASSUME NEW f \in Fields PROVE \E i \in 1 .. N + 2 : Steps[i] = f
  <2>1. CASE f = "objects"
    BY <1>1, <1>3, <2>1
  <2>2. CASE f # "objects"
    <3>1. PICK i \in 1 .. N : f = Presets[i]
      BY <1>5, <2>2
    <3>2. i + 2 \in 3 .. N + 2 /\ i + 2 - 2 = i
      BY <1>1
    <3>3. Steps[i + 2] = f
      BY <1>4, <3>1, <3>2
    <3>4. QED
      BY <1>1, <3>2, <3>3
  <2>3. QED
    BY <2>1, <2>2
<1>8. "objects" \in Fields /\ "notify" \notin Fields /\ "down" \notin Fields
  BY <1>1, <1>5
<1>9. QED
  BY <1>1, <1>2, <1>3, <1>6, <1>7, <1>8

\* The getters return each list once.
LEMMA Getters ==
    /\ Len(GetterOrder) = Len(Presets) + 1
    /\ \A i \in 1 .. Len(GetterOrder) : GetterOrder[i] \in Fields
    /\ \A f \in Fields : \E i \in 1 .. Len(GetterOrder) : GetterOrder[i] = f
<1> DEFINE N == Len(Presets)
<1>1. Presets \in Seq(STRING) /\ N \in Nat /\ DOMAIN Presets = 1 .. N
  BY PresetsAreLists
<1>2. /\ Len(GetterOrder) = N + 1 /\ GetterOrder[1] = "objects"
      /\ \A i \in 1 .. N : GetterOrder[i + 1] = Presets[i]
  BY <1>1 DEF GetterOrder
<1>3. Fields = {"objects"} \cup {Presets[i] : i \in 1 .. N}
  BY <1>1 DEF Fields
<1>4. \A i \in 2 .. N + 1 : GetterOrder[i] = Presets[i - 1] /\ i - 1 \in 1 .. N
  <2>1. SUFFICES ASSUME NEW i \in 2 .. N + 1 PROVE GetterOrder[i] = Presets[i - 1] /\ i - 1 \in 1 .. N
    OBVIOUS
  <2>2. i - 1 \in 1 .. N /\ (i - 1) + 1 = i
    BY <1>1
  <2>3. QED
    BY <1>2, <2>2
<1>5. \A i \in 1 .. N + 1 : GetterOrder[i] \in Fields
  BY <1>1, <1>2, <1>3, <1>4
<1>6. ASSUME NEW f \in Fields PROVE \E i \in 1 .. N + 1 : GetterOrder[i] = f
  <2>1. CASE f = "objects"
    BY <1>1, <1>2, <2>1
  <2>2. CASE f # "objects"
    <3>1. PICK i \in 1 .. N : f = Presets[i]
      BY <1>3, <2>2
    <3>2. QED
      BY <1>1, <1>2, <3>1
  <2>3. QED
    BY <2>1, <2>2
<1>7. QED
  BY <1>2, <1>5, <1>6

\* Where a writer is when it stores a list, and where it goes.
LEMMA StoreAt ==
    ASSUME TypeOK, StepInv, NEW w \in Writers, step[w] # 0, Steps[step[w]] \in Fields
    PROVE  /\ step[w] \in 1 .. Len(Presets) + 2 /\ step[w] # 2
           /\ \/ Following(w) = step[w] + 1 /\ step[w] + 1 <= Len(Steps)
                 /\ (w # Bridge => step[w] + 1 <= Len(Presets) + 2)
              \/ Following(w) = 0 /\ w # Bridge /\ step[w] = Len(Presets) + 2
<1>1. step[w] \in 0 .. Len(Presets) + 3
  BY Positions DEF TypeOK, EnvTypeOK
<1>2. step[w] \in 1 .. Len(Presets) + 2 /\ step[w] # 2
  BY <1>1, Positions
<1>3. CASE w # Bridge /\ Steps[step[w] + 1] = "down"
  <2>1. step[w] + 1 \notin 3 .. Len(Presets) + 2 /\ step[w] + 1 # 2
    BY <1>3, Positions
  <2>2. QED
    BY <1>2, <1>3, <2>1, Positions DEF Following
<1>4. CASE w = Bridge
  BY <1>2, <1>4, Positions DEF Following
<1>5. CASE w # Bridge /\ Steps[step[w] + 1] # "down"
  <2>1. step[w] + 1 # Len(Presets) + 3
    BY <1>5, Positions
  <2>2. QED
    BY <1>2, <1>5, <2>1, Positions DEF Following
<1>6. QED
  BY <1>3, <1>4, <1>5

\* The objects are shown right after they are stored, and other lists follow.
LEMMA NotifyAt ==
    ASSUME TypeOK, StepInv, NEW w \in Writers, step[w] # 0, Steps[step[w]] = "notify"
    PROVE  step[w] = 2 /\ Following(w) = 3 /\ 3 <= Len(Presets) + 2
<1>1. step[w] \in 1 .. Len(Presets) + 3
  BY Positions DEF TypeOK, EnvTypeOK
<1>2. step[w] = 2
  BY <1>1, Positions
<1>3. Steps[3] # "down" /\ Len(Presets) + 2 >= 3
  BY Positions
<1>4. QED
  BY <1>2, <1>3 DEF Following

\* The bridge tells the loss when it has cleared all lists.
LEMMA DownAt ==
    ASSUME TypeOK, step[Bridge] # 0, Steps[step[Bridge]] = "down"
    PROVE  step[Bridge] = Len(Presets) + 3
<1>1. step[Bridge] \in 1 .. Len(Presets) + 3
  BY Positions DEF TypeOK, EnvTypeOK, Writers
<1>2. QED
  BY <1>1, Positions

-----------------------------------------------------------------------------
(* Types and the places of the writers.                                    *)

\* A call that is over leaves its writer at rest.
LEMMA Resting ==
    ASSUME StepInv, NEW c \in Callers, call[c] # "answered"
    PROVE  step[c] = 0
BY DEF StepInv

\* Every step keeps the types.
LEMMA TypeStep ==
    ASSUME TypeOK, StepInv, [Next]_vars
    PROVE  TypeOK'
<1> USE DEF TypeOK, EnvTypeOK
<1>a. /\ 0 \in Scenes /\ scene \in Scenes /\ Callers \subseteq Writers /\ Bridge \in Writers
      /\ Commands \subseteq Callers /\ Scans \subseteq Callers
  BY ScenesAreMany, CommandsAndScansAreCallers DEF Scenes, Writers
<1>b. ASSUME NEW c \in Callers, Release(c)
      PROVE  /\ call' \in [Callers -> {"idle", "asked", "answered", "refreshed", "failed"}]
             /\ values' \in [Writers -> Scenes]
  BY <1>a, <1>b DEF Release
<1>c. ASSUME NEW c \in Callers, Ask(c)
      PROVE  call' \in [Callers -> {"idle", "asked", "answered", "refreshed", "failed"}]
  BY <1>c DEF Ask
<1>d. NewScene => scene' \in 1 .. MaxScenes
  BY ScenesAreMany DEF NewScene
<1>e. 0 \in 0 .. Len(Steps) /\ 1 \in 0 .. Len(Steps)
  BY Positions
<1>1. CASE (SceneChanges \/ Connect \/ LoseConnection \/ NotifyDown) /\ Bystanders
  <2>1. CASE SceneChanges
    BY <1>1, <1>d, <2>1 DEF SceneChanges, Bystanders, cacheVars, commandVars, scanVars
  <2>2. CASE Connect
    BY <1>1, <2>2 DEF Connect, Bystanders, cacheVars, commandVars, scanVars
  <2>3. CASE LoseConnection
    BY <1>1, <1>a, <1>e, <2>3 DEF LoseConnection, Bystanders, cacheVars, commandVars, scanVars
  <2>4. CASE NotifyDown
    BY <1>1, <1>a, <1>e, <2>4 DEF NotifyDown, Bystanders, commandVars, scanVars
  <2>5. QED
    BY <1>1, <2>1, <2>2, <2>3, <2>4
<1>2. CASE Reset
  BY <1>2, <1>d DEF Reset, cacheVars, commandVars, scanVars
<1>3. ASSUME NEW c \in Callers, Refresh(c) /\ Bystanders PROVE TypeOK'
  <2>1. CASE Answered(c)
    BY <1>3, <1>a, <1>e, <2>1 DEF Answered, Bystanders, cacheVars, commandVars, scanVars
  <2>2. CASE RefreshFails(c)
    BY <1>3, <2>2 DEF RefreshFails, Bystanders, cacheVars, commandVars, scanVars
  <2>3. QED
    BY <1>3, <2>1, <2>2 DEF Refresh
<1>4. ASSUME NEW w \in Writers, WriteCache(w) PROVE TypeOK'
  <2>1. Store(w) /\ step[w] # 0 /\ Steps[step[w]] \in Fields
    BY <1>4 DEF WriteCache, Store
  <2>2. Following(w) \in 0 .. Len(Steps) /\ (Following(w) = 0 => w \in Callers)
    BY <2>1, StoreAt, Positions DEF Writers
  <2>3. step' \in [Writers -> 0 .. Len(Steps)] /\ cache' \in [Fields -> Scenes]
    BY <2>1, <2>2 DEF Store
  <2>4. overlap' \in BOOLEAN
    BY <2>1 DEF Store
  <2>5. call' \in [Callers -> {"idle", "asked", "answered", "refreshed", "failed"}]
    BY <2>1, <2>2 DEF Store
  <2>6. disturbed' \in [Commands -> BOOLEAN]
    BY <1>4 DEF WriteCache
  <2>7. QED
    BY <1>4, <2>1, <2>3, <2>4, <2>5, <2>6 DEF WriteCache, Store, scanVars
<1>5. ASSUME NEW w \in Writers, NotifyObjects(w) /\ Bystanders PROVE TypeOK'
  <2>1. Following(w) \in 0 .. Len(Steps)
    BY <1>5, NotifyAt, Positions DEF NotifyObjects
  <2>2. QED
    BY <1>5, <2>1 DEF NotifyObjects, Bystanders, commandVars, scanVars
<1>6. ASSUME NEW c \in Others, IsIdle(c) /\ Ask(c) /\ Bystanders PROVE TypeOK'
  BY <1>6 DEF Others, Ask, Bystanders, cacheVars, commandVars, scanVars
<1>7. ASSUME NEW c \in Others, Release(c),
             UNCHANGED <<connected, scene, step, cacheVars, commandVars, scanVars>>
      PROVE  TypeOK'
  BY <1>7, <1>a DEF Others, Release, cacheVars, commandVars, scanVars
<1>8. ASSUME NEW c \in Commands, StartCommand(c) PROVE TypeOK'
  BY <1>8, <1>a DEF StartCommand, Ask, cacheVars, scanVars
<1>9. ASSUME NEW c \in Commands, UseFresh(c) PROVE TypeOK'
  BY <1>9, <1>a DEF UseFresh, Release, cacheVars, scanVars
<1>10. ASSUME NEW c \in Commands, CopyCached(c) PROVE TypeOK'
  <2> DEFINE f == GetterOrder[copied[c] + 1]
             last == copied[c] + 1 = Len(GetterOrder)
  <2>1. copied[c] + 1 \in 1 .. Len(GetterOrder) /\ Len(GetterOrder) \in Nat
    BY Getters, Positions
  <2>2. f \in Fields
    BY <2>1, Getters
  <2>3. /\ environment' = [environment EXCEPT ![c][f] = cache[f]]
        /\ copied' = [copied EXCEPT ![c] = IF last THEN 0 ELSE copied[c] + 1]
        /\ \/ Release(c)
           \/ UNCHANGED <<call, values>>
        /\ disturbed' = IF copied[c] = 0 THEN [disturbed EXCEPT ![c] = overlap \/ ~AtRest] ELSE disturbed
        /\ UNCHANGED <<connected, scene, step, cacheVars, scanVars>>
    BY <1>10 DEF CopyCached
  <2>4. environment' \in [Commands -> [Fields -> Scenes]]
    BY <2>2, <2>3
  <2>5. copied' \in [Commands -> 0 .. Len(GetterOrder) - 1]
    BY <2>1, <2>3
  <2>6. AtRest \in BOOLEAN
    BY DEF AtRest
  <2>7. disturbed' \in [Commands -> BOOLEAN]
    BY <2>3, <2>6
  <2>8. call' \in [Callers -> {"idle", "asked", "answered", "refreshed", "failed"}] /\ values' \in [Writers -> Scenes]
    BY <1>a, <1>b, <2>3
  <2>9. QED
    BY <2>3, <2>4, <2>5, <2>7, <2>8 DEF cacheVars, scanVars
<1>11. ASSUME NEW s \in Scans, StartScan(s) \/ AskAgain(s) PROVE TypeOK'
  <2>1. /\ Ask(s) /\ UNCHANGED <<commandVars, before, after, snapshot>>
        /\ Move(s, "first") \/ Move(s, "second")
    BY <1>11 DEF StartScan, AskAgain
  <2>2. call' \in [Callers -> {"idle", "asked", "answered", "refreshed", "failed"}]
    BY <1>a, <1>c, <2>1
  <2>3. QED
    BY <2>1, <2>2 DEF Ask, Move, cacheVars, commandVars
<1>12. ASSUME NEW s \in Scans, ScanFails(s) \/ ReadBefore(s) \/ Report(s) PROVE TypeOK'
  <2>1. /\ call' \in [Callers -> {"idle", "asked", "answered", "refreshed", "failed"}]
        /\ values' \in [Writers -> Scenes]
    BY <1>12, <1>a, <1>b DEF ScanFails, ReadBefore, Report
  <2>2. values[s] \in Scenes
    BY <1>a
  <2>3. CASE ScanFails(s)
    BY <1>a, <2>1, <2>3 DEF ScanFails, Move, Forget, cacheVars, commandVars
  <2>4. CASE ReadBefore(s)
    BY <2>1, <2>2, <2>4 DEF ReadBefore, Move, cacheVars, commandVars
  <2>5. CASE Report(s)
    BY <2>1, <2>2, <2>5 DEF Report, Move, cacheVars, commandVars
  <2>6. QED
    BY <1>12, <2>3, <2>4, <2>5
<1>13. ASSUME NEW s \in Scans, Snapshot(s) \/ SnapshotFails(s) PROVE TypeOK'
  <2>1. scene' \in 1 .. MaxScenes /\ scene' \in Scenes
    BY <1>13, <1>d DEF Snapshot, SnapshotFails, Scenes
  <2>2. CASE Snapshot(s)
    BY <2>1, <2>2 DEF Snapshot, Move, cacheVars, commandVars
  <2>3. CASE SnapshotFails(s)
    BY <1>a, <2>1, <2>3 DEF SnapshotFails, Move, Forget, cacheVars, commandVars
  <2>4. QED
    BY <1>13, <2>2, <2>3
<1>14. ASSUME NEW s \in Scans, EndScan(s) PROVE TypeOK'
  BY <1>14, <1>a DEF EndScan, Move, Forget, envVars, cacheVars, commandVars
<1>15. CASE UNCHANGED vars
  BY <1>15 DEF vars, envVars, cacheVars, commandVars, scanVars
<1>16. QED
  BY <1>1, <1>2, <1>3, <1>4, <1>5, <1>6, <1>7, <1>8, <1>9, <1>10, <1>11, <1>12, <1>13, <1>14, <1>15
     DEF Next

\* A step that starts no writer, moves none and gives no new answer keeps what is
\* known of all.
LEMMA CallersKept ==
    ASSUME TypeOK, StepInv, NEW c \in Callers, step[c] = 0,
           \/ UNCHANGED values
           \/ values' = [values EXCEPT ![c] = 0] /\ call'[c] = "idle",
           \A d \in Callers \ {c} : call'[d] = call[d],
           call'[c] \notin {"answered", "refreshed"},
           UNCHANGED <<connected, step>>, scene' \in Nat, scene <= scene'
    PROVE  StepInv'
<1>1. values[Bridge]' = 0 /\ \A d \in Callers : values'[d] <= values[d] \/ values'[d] = 0
  BY BridgeIsNoCaller DEF StepInv, TypeOK, EnvTypeOK, Writers, Scenes
<1>2. \A d \in Callers : values[d] \in Nat /\ values'[d] \in Nat /\ scene \in Nat
  BY ScenesAreMany DEF TypeOK, EnvTypeOK, Writers, Scenes
<1>3. \A d \in Callers \ {c} : values'[d] = values[d]
  BY DEF TypeOK, EnvTypeOK, Writers
<1>4. \A d \in Callers : values'[d] <= scene'
  BY <1>1, <1>2 DEF StepInv
<1>5. QED
  BY <1>1, <1>3, <1>4 DEF StepInv

\* Every step keeps the calls and the places of the writers.
LEMMA StepStep ==
    ASSUME TypeOK, StepInv, ScanInv, [Next]_vars
    PROVE  StepInv'
<1>a. /\ scene \in Nat /\ Callers \subseteq Writers /\ Bridge \in Writers /\ Bridge \notin Callers
      /\ Commands \subseteq Callers /\ Scans \subseteq Callers
      /\ Commands \cap Scans = {} /\ Others \subseteq Callers
      /\ step \in [Writers -> 0 .. Len(Steps)] /\ values \in [Writers -> Scenes]
      /\ call \in [Callers -> {"idle", "asked", "answered", "refreshed", "failed"}]
  BY ScenesAreMany, CommandsAndScansAreCallers, BridgeIsNoCaller
     DEF TypeOK, EnvTypeOK, Scenes, Writers, Others
<1>b. \A w \in Writers : values[w] \in Nat
  BY <1>a, ScenesAreMany DEF Scenes
<1>c. NewScene => scene' \in Nat /\ scene <= scene'
  BY <1>a DEF NewScene
<1>d. ASSUME UNCHANGED <<connected, call, values, step>>, scene' \in Nat, scene <= scene' PROVE StepInv'
  BY <1>a, <1>b, <1>d DEF StepInv
<1>e. ASSUME NEW c \in Callers, call[c] # "answered", Ask(c) PROVE StepInv'
  <2>1. step[c] = 0
    BY <1>e, Resting
  <2>2. call' = [call EXCEPT ![c] = IF connected THEN "asked" ELSE "failed"] /\ UNCHANGED <<connected, scene, values, step>>
    BY <1>e DEF Ask
  <2>3. QED
    BY <1>a, <2>1, <2>2, CallersKept
<1>f. ASSUME NEW c \in Callers, call[c] # "answered", Release(c), UNCHANGED <<connected, scene, step>> PROVE StepInv'
  <2>1. step[c] = 0
    BY <1>f, Resting
  <2>2. call' = [call EXCEPT ![c] = "idle"] /\ values' = [values EXCEPT ![c] = 0]
    BY <1>f DEF Release
  <2>3. call'[c] = "idle" /\ \A d \in Callers \ {c} : call'[d] = call[d]
    BY <1>a, <2>2
  <2>4. UNCHANGED <<connected, step>> /\ scene' \in Nat /\ scene <= scene'
    BY <1>a, <1>f
  <2>5. QED
    BY <2>1, <2>2, <2>3, <2>4, CallersKept
<1>1. CASE (SceneChanges \/ Connect \/ LoseConnection \/ NotifyDown) /\ Bystanders
  <2>1. CASE SceneChanges
    BY <1>c, <1>d, <2>1 DEF SceneChanges
  <2>2. CASE Connect
    <3>1. step[Bridge] = 0 /\ UNCHANGED <<scene, call, values, step>>
      BY <2>2 DEF Connect
    <3>2. QED
      BY <3>1 DEF StepInv
  <2>3. CASE LoseConnection
    BY <1>a, <2>3 DEF LoseConnection, StepInv
  <2>4. CASE NotifyDown
    BY <1>a, <2>4 DEF NotifyDown, StepInv
  <2>5. QED
    BY <1>1, <2>1, <2>2, <2>3, <2>4
<1>2. CASE Reset
  BY <1>2, <1>c, <1>d DEF Reset
<1>3. ASSUME NEW c \in Callers, Refresh(c) PROVE StepInv'
  <2>1. CASE Answered(c)
    <3>1. /\ call' = [call EXCEPT ![c] = "answered"] /\ values' = [values EXCEPT ![c] = scene]
          /\ step' = [step EXCEPT ![c] = 1] /\ UNCHANGED <<connected, scene>>
      BY <2>1 DEF Answered
    <3>2. scene # 0 /\ 1 <= Len(Presets) + 2
      BY Positions DEF TypeOK, EnvTypeOK
    <3>3. QED
      BY <1>a, <3>1, <3>2 DEF StepInv
  <2>2. CASE RefreshFails(c)
    <3>1. step[c] = 0
      BY <2>2, Resting DEF RefreshFails
    <3>2. QED
      BY <1>a, <2>2, <3>1, CallersKept DEF RefreshFails
  <2>3. QED
    BY <1>3, <2>1, <2>2 DEF Refresh
<1>4. ASSUME NEW w \in Writers, Store(w) PROVE StepInv'
  <2>1. /\ step[w] # 0 /\ Steps[step[w]] \in Fields
        /\ step' = [step EXCEPT ![w] = Following(w)]
        /\ call' = IF Following(w) = 0 THEN [call EXCEPT ![w] = "refreshed"] ELSE call
        /\ UNCHANGED <<connected, scene, values>>
    BY <1>4 DEF Store
  <2>2. Following(w) # 0 => (w # Bridge => Following(w) <= Len(Presets) + 2)
    BY <2>1, StoreAt
  <2>3. Following(w) = 0 => w \in Callers
    BY <1>a, <2>1, StoreAt DEF Writers
  <2>4. Len(Presets) + 2 >= 0
    BY Positions
  <2>5. CASE Following(w) = 0
    BY <1>a, <2>1, <2>3, <2>4, <2>5 DEF StepInv
  <2>6. CASE Following(w) # 0
    BY <1>a, <2>1, <2>2, <2>6 DEF StepInv
  <2>7. QED
    BY <2>5, <2>6
<1>5. ASSUME NEW w \in Writers, NotifyObjects(w) PROVE StepInv'
  <2>1. step[w] = 2 /\ Following(w) = 3 /\ 3 <= Len(Presets) + 2
    BY <1>5, NotifyAt DEF NotifyObjects
  <2>2. QED
    BY <1>5, <1>a, <2>1 DEF NotifyObjects, StepInv
<1>6. ASSUME NEW c \in Others, IsIdle(c) /\ Ask(c) PROVE StepInv'
  BY <1>6, <1>a, <1>e DEF IsIdle
<1>7. ASSUME NEW c \in Others, call[c] \in {"refreshed", "failed"}, Release(c), UNCHANGED <<connected, scene, step>>
      PROVE  StepInv'
  BY <1>7, <1>a, <1>f
<1>8. ASSUME NEW c \in Commands, StartCommand(c) PROVE StepInv'
  BY <1>8, <1>a, <1>e DEF StartCommand, IsIdle
<1>9. ASSUME NEW c \in Commands, UseFresh(c) PROVE StepInv'
  BY <1>9, <1>a, <1>f DEF UseFresh
<1>10. ASSUME NEW c \in Commands, CopyCached(c) PROVE StepInv'
  <2>1. /\ call[c] = "failed" /\ UNCHANGED <<connected, scene, step>>
        /\ Release(c) \/ UNCHANGED <<call, values>>
    BY <1>10 DEF CopyCached
  <2>2. QED
    BY <1>a, <1>d, <1>f, <2>1
<1>11. ASSUME NEW s \in Scans, StartScan(s) PROVE StepInv'
  BY <1>11, <1>a, <1>e DEF StartScan, IsIdle
<1>12. ASSUME NEW s \in Scans, ScanFails(s) \/ ReadBefore(s) \/ Report(s) PROVE StepInv'
  BY <1>12, <1>a, <1>f DEF ScanFails, ReadBefore, Report
<1>13. ASSUME NEW s \in Scans, Snapshot(s) \/ SnapshotFails(s) PROVE StepInv'
  BY <1>13, <1>a, <1>c, <1>d DEF Snapshot, SnapshotFails
<1>14. ASSUME NEW s \in Scans, EndScan(s) PROVE StepInv'
  BY <1>14, <1>a, <1>d DEF EndScan, envVars
<1>15. CASE UNCHANGED vars
  BY <1>15, <1>a, <1>d DEF vars, envVars
<1>16. ASSUME NEW s \in Scans, AskAgain(s) PROVE StepInv'
  <2>1. call[s] = "idle" /\ Ask(s)
    BY <1>16 DEF AskAgain, ScanInv
  <2>2. QED
    BY <1>a, <1>e, <2>1
<1>17. QED
  BY <1>1, <1>2, <1>3, <1>4, <1>5, <1>6, <1>7, <1>8, <1>9, <1>10, <1>11, <1>12, <1>13, <1>14, <1>15, <1>16
     DEF Next, WriteCache

-----------------------------------------------------------------------------
(* The cache and the sidebar.                                              *)

\* A step that stores and shows nothing.
LEMMA CacheKept ==
    ASSUME CacheInv, UNCHANGED cacheVars,
           \A w \in Writers : /\ Writing(w)' = Writing(w)
                              /\ Writing(w) => step'[w] = step[w] /\ values'[w] = values[w]
    PROVE  CacheInv'
BY DEF CacheInv, AtRest, Alone, Stored, OneScene, cacheVars

\* The call of a caller moves while its writer is at rest.
LEMMA CallMoves ==
    ASSUME TypeOK, StepInv, CacheInv, NEW c \in Callers, step[c] = 0, UNCHANGED <<step, cacheVars>>,
           UNCHANGED values \/ values' = [values EXCEPT ![c] = 0]
    PROVE  CacheInv'
<1>1. \A w \in Writers : Writing(w) => values'[w] = values[w]
  BY DEF Writing, TypeOK, EnvTypeOK
<1>2. QED
  BY <1>1, CacheKept DEF Writing

\* When its last step is done, a writer that was alone has replaced everything.
LEMMA AllStored ==
    ASSUME NEW x, NEW c2, \A i \in 1 .. Len(Presets) + 2 : Steps[i] \in Fields => c2[Steps[i]] = x
    PROVE  (\A f \in Fields : c2[f] = x) /\ c2["objects"] = x
<1>1. \A f \in Fields : c2[f] = x
  BY Positions
<1>2. QED
  BY <1>1, Positions

\* A store is one of the last writer to begin, or of one of several at work.
LEMMA StoreKeeps ==
    ASSUME TypeOK, StepInv, CacheInv, NEW w \in Writers, Store(w)
    PROVE  CacheInv'
<1>1. /\ step[w] # 0 /\ Steps[step[w]] \in Fields
      /\ cache' = [cache EXCEPT ![Steps[step[w]]] = values[w]]
      /\ overlap' = IF step[w] > 1 THEN overlap ELSE \E v \in Writers \ {w} : Writing(v)
      /\ step' = [step EXCEPT ![w] = Following(w)]
      /\ UNCHANGED <<values, sidebar>>
  BY DEF Store
<1>2. /\ step[w] \in 1 .. Len(Presets) + 2 /\ step[w] # 2
      /\ \/ Following(w) = step[w] + 1
         \/ Following(w) = 0 /\ w # Bridge /\ step[w] = Len(Presets) + 2
  BY <1>1, StoreAt
<1>3. CASE overlap'
  BY <1>3 DEF CacheInv
<1>4. CASE ~overlap'
  <2>1. Alone(w)
    BY <1>1, <1>2, <1>4 DEF CacheInv, Alone, Writing
  <2>2. \A v \in Writers \ {w} : ~Writing(v)'
    BY <1>1, <2>1 DEF Alone, Writing, TypeOK, EnvTypeOK
  <2>3. step[w] > 1 => Stored(w)
    BY <1>1, <1>4 DEF CacheInv, Writing
  <2>4. \A i \in 1 .. step[w] : Steps[i] \in Fields => cache'[Steps[i]] = values[w]
    <3>1. SUFFICES ASSUME NEW i \in 1 .. step[w], Steps[i] \in Fields, Steps[i] # Steps[step[w]]
                   PROVE  cache[Steps[i]] = values[w]
      BY <1>1 DEF TypeOK, EnvTypeOK
    <3>2. i \in 1 .. step[w] - 1 /\ step[w] > 1
      BY <1>2, <3>1
    <3>3. QED
      BY <2>3, <3>1, <3>2 DEF Stored
  <2>5. w # Bridge /\ step[w] > 2 => sidebar = values[w]
    <3>1. step[w] > 2 => step[w] > 1
      BY <1>2
    <3>2. QED
      BY <2>3, <3>1 DEF Stored
  <2>6. CASE Following(w) = step[w] + 1
    <3>1. step'[w] = step[w] + 1
      BY <1>1, <2>6 DEF TypeOK, EnvTypeOK
    <3>2. step'[w] - 1 = step[w] /\ step'[w] > 1
      BY <1>2, <3>1
    <3>3. step'[w] > 2 => step[w] > 2
      BY <1>2, <3>1
    <3>4. Stored(w)'
      BY <1>1, <2>4, <2>5, <3>2, <3>3 DEF Stored
    <3>5. Writing(w)'
      BY <3>2 DEF Writing
    <3>6. QED
      BY <2>2, <3>4, <3>5 DEF CacheInv, AtRest, Alone
  <2>7. CASE Following(w) = 0 /\ w # Bridge /\ step[w] = Len(Presets) + 2
    <3>1. ~Writing(w)'
      BY <1>1, <2>7 DEF Writing, TypeOK, EnvTypeOK
    <3>2. step[w] > 2
      BY <2>7, Positions
    <3>3. (\A f \in Fields : cache'[f] = values[w]) /\ cache'["objects"] = values[w]
      BY <2>4, <2>7, AllStored
    <3>4. OneScene' /\ sidebar' = cache'["objects"]
      BY <1>1, <2>5, <2>7, <3>2, <3>3 DEF OneScene
    <3>5. QED
      BY <2>2, <3>1, <3>4 DEF CacheInv
  <2>8. QED
    BY <1>2, <2>6, <2>7
<1>5. QED
  BY <1>3, <1>4

\* The notification shows what its writer has stored.
LEMMA NotifyKeeps ==
    ASSUME TypeOK, StepInv, CacheInv, NEW w \in Writers, NotifyObjects(w)
    PROVE  CacheInv'
<1>1. /\ step[w] = 2 /\ Following(w) = 3
      /\ sidebar' = IF values[w] = 0 THEN sidebar ELSE values[w]
      /\ step' = [step EXCEPT ![w] = 3] /\ UNCHANGED <<values, cache, overlap>>
  BY NotifyAt DEF NotifyObjects
<1>2. w # Bridge => values[w] # 0
  BY <1>1 DEF StepInv, Writers
<1>3. CASE overlap
  BY <1>1, <1>3 DEF CacheInv
<1>4. CASE ~overlap
  <2>1. Alone(w) /\ Stored(w)
    BY <1>1, <1>4 DEF CacheInv, Writing
  <2>2. step'[w] = 3 /\ \A v \in Writers \ {w} : step'[v] = step[v]
    BY <1>1 DEF TypeOK, EnvTypeOK
  <2>3. Steps[2] \notin Fields
    BY Positions
  <2>4. Stored(w)'
    <3>1. \A i \in 1 .. 2 : Steps[i] \in Fields => cache[Steps[i]] = values[w]
      BY <1>1, <2>1, <2>3 DEF Stored
    <3>2. QED
      BY <1>1, <1>2, <2>2, <3>1 DEF Stored
  <2>5. QED
    BY <2>1, <2>2, <2>4 DEF CacheInv, AtRest, Alone, Writing
<1>5. QED
  BY <1>3, <1>4 DEF TypeOK, EnvTypeOK

\* The last notification of the bridge shows what the teardown has stored.
LEMMA DownKeeps ==
    ASSUME TypeOK, StepInv, CacheInv, NotifyDown
    PROVE  CacheInv'
<1>1. /\ step[Bridge] = Len(Presets) + 3 /\ sidebar' = 0
      /\ step' = [step EXCEPT ![Bridge] = 0] /\ UNCHANGED <<values, cache, overlap>>
  BY DownAt DEF NotifyDown
<1>2. Bridge \in Writers /\ values[Bridge] = 0 /\ Writing(Bridge)
  BY <1>1, Positions DEF Writers, StepInv, Writing
<1>3. CASE overlap
  BY <1>1, <1>3 DEF CacheInv
<1>4. CASE ~overlap
  <2>1. Alone(Bridge) /\ Stored(Bridge)
    BY <1>2, <1>4 DEF CacheInv
  <2>2. \A w \in Writers : ~Writing(w)'
    BY <1>1, <1>2, <2>1 DEF Alone, Writing, TypeOK, EnvTypeOK
  <2>3. \A i \in 1 .. Len(Presets) + 2 : Steps[i] \in Fields => cache[Steps[i]] = 0
    BY <1>1, <1>2, <2>1, Positions DEF Stored
  <2>4. (\A f \in Fields : cache[f] = 0) /\ cache["objects"] = 0
    BY <2>3, AllStored
  <2>5. QED
    BY <1>1, <2>2, <2>4 DEF CacheInv, OneScene
<1>5. QED
  BY <1>3, <1>4 DEF TypeOK, EnvTypeOK

\* Every step keeps what the writers leave behind.
LEMMA CacheStep ==
    ASSUME TypeOK, StepInv, ScanInv, CacheInv, [Next]_vars
    PROVE  CacheInv'
<1>a. /\ Commands \subseteq Callers /\ Scans \subseteq Callers /\ Others \subseteq Callers
      /\ Bridge \in Writers /\ Callers \subseteq Writers
      /\ step \in [Writers -> 0 .. Len(Steps)] /\ values \in [Writers -> Scenes]
  BY CommandsAndScansAreCallers DEF Others, Writers, TypeOK, EnvTypeOK
<1>b. ASSUME UNCHANGED <<step, values, cacheVars>> PROVE CacheInv'
  BY <1>b, CacheKept DEF Writing
<1>c. ASSUME NEW c \in Callers, call[c] # "answered", Release(c), UNCHANGED <<step, cacheVars>> PROVE CacheInv'
  BY <1>c, Resting, CallMoves DEF Release
<1>1. CASE (SceneChanges \/ Connect \/ LoseConnection \/ NotifyDown) /\ Bystanders
  <2>1. CASE SceneChanges \/ Connect
    BY <1>b, <2>1 DEF SceneChanges, Connect
  <2>2. CASE LoseConnection
    <3>1. step[Bridge] = 0 /\ step' = [step EXCEPT ![Bridge] = 1] /\ UNCHANGED <<values, cacheVars>>
      BY <2>2 DEF LoseConnection, StepInv
    <3>2. \A w \in Writers : Writing(w)' = Writing(w) /\ (Writing(w) => step'[w] = step[w])
      BY <1>a, <3>1 DEF Writing
    <3>3. QED
      BY <3>1, <3>2, CacheKept
  <2>3. CASE NotifyDown
    BY <2>3, DownKeeps
  <2>4. QED
    BY <1>1, <2>1, <2>2, <2>3
<1>2. CASE Reset
  BY <1>2, <1>b DEF Reset
<1>3. ASSUME NEW c \in Callers, Refresh(c) PROVE CacheInv'
  <2>1. step[c] = 0
    BY <1>3, Resting DEF Refresh, Answered, RefreshFails
  <2>2. CASE Answered(c)
    <3>1. values' = [values EXCEPT ![c] = scene] /\ step' = [step EXCEPT ![c] = 1] /\ UNCHANGED cacheVars
      BY <2>2 DEF Answered
    <3>2. \A w \in Writers : /\ Writing(w)' = Writing(w)
                             /\ Writing(w) => step'[w] = step[w] /\ values'[w] = values[w]
      BY <1>a, <2>1, <3>1 DEF Writing
    <3>3. QED
      BY <3>1, <3>2, CacheKept
  <2>3. CASE RefreshFails(c)
    BY <1>b, <2>3 DEF RefreshFails
  <2>4. QED
    BY <1>3, <2>2, <2>3 DEF Refresh
<1>4. ASSUME NEW w \in Writers, WriteCache(w) PROVE CacheInv'
  BY <1>4, StoreKeeps DEF WriteCache
<1>5. ASSUME NEW w \in Writers, NotifyObjects(w) PROVE CacheInv'
  BY <1>5, NotifyKeeps
<1>6. ASSUME NEW c \in Others, Ask(c) PROVE CacheInv'
  BY <1>6, <1>b DEF Ask
<1>7. ASSUME NEW c \in Others, call[c] \in {"refreshed", "failed"}, Release(c), UNCHANGED <<step, cacheVars>>
      PROVE  CacheInv'
  BY <1>7, <1>a, <1>c
<1>8. ASSUME NEW c \in Commands, StartCommand(c) PROVE CacheInv'
  BY <1>8, <1>b DEF StartCommand, Ask
<1>9. ASSUME NEW c \in Commands, UseFresh(c) PROVE CacheInv'
  BY <1>9, <1>a, <1>c DEF UseFresh
<1>10. ASSUME NEW c \in Commands, CopyCached(c) PROVE CacheInv'
  <2>1. call[c] = "failed" /\ UNCHANGED <<step, cacheVars>> /\ (Release(c) \/ UNCHANGED <<call, values>>)
    BY <1>10 DEF CopyCached
  <2>2. QED
    BY <1>a, <1>b, <1>c, <2>1
<1>11. ASSUME NEW s \in Scans, StartScan(s) \/ AskAgain(s) PROVE CacheInv'
  BY <1>11, <1>b DEF StartScan, AskAgain, Ask
<1>12. ASSUME NEW s \in Scans, ScanFails(s) \/ ReadBefore(s) \/ Report(s) PROVE CacheInv'
  BY <1>12, <1>a, <1>c DEF ScanFails, ReadBefore, Report
<1>13. ASSUME NEW s \in Scans, Snapshot(s) \/ SnapshotFails(s) \/ EndScan(s) PROVE CacheInv'
  BY <1>13, <1>b DEF Snapshot, SnapshotFails, EndScan, envVars
<1>14. CASE UNCHANGED vars
  BY <1>14, <1>b DEF vars, envVars
<1>15. QED
  BY <1>1, <1>2, <1>3, <1>4, <1>5, <1>6, <1>7, <1>8, <1>9, <1>10, <1>11, <1>12, <1>13, <1>14 DEF Next

-----------------------------------------------------------------------------
(* The copies of the commands.                                             *)

\* A step that stores nothing, and moves no command that copies.
LEMMA CopyKept ==
    ASSUME CopyInv, CommandPlansWithOneScene, UNCHANGED <<cache, commandVars>>,
           \A c \in Commands : \/ call'[c] = call[c]
                               \/ call[c] # "failed" /\ call'[c] # "idle"
    PROVE  CopyInv' /\ CommandPlansWithOneScene'
<1>1. UNCHANGED <<cache, environment, copied, disturbed>>
  BY DEF commandVars
<1>2. CopyInv'
  BY <1>1 DEF CopyInv, OneScene
<1>3. CommandPlansWithOneScene'
  BY <1>1 DEF CommandPlansWithOneScene, IsIdle
<1>4. QED
  BY <1>2, <1>3

\* The other callers move no command.
LEMMA OthersCall ==
    ASSUME TypeOK, CopyInv, CommandPlansWithOneScene, NEW c \in Callers \ Commands,
           \E x : call' = [call EXCEPT ![c] = x], UNCHANGED <<cache, commandVars>>
    PROVE  CopyInv' /\ CommandPlansWithOneScene'
<1>1. \A d \in Commands : call'[d] = call[d]
  BY CommandsAndScansAreCallers DEF TypeOK, EnvTypeOK
<1>2. QED
  BY <1>1, CopyKept

\* A store disturbs who is copying.
LEMMA WriteDisturbs ==
    ASSUME TypeOK, StepInv, CopyInv, CommandPlansWithOneScene, NEW w \in Writers, WriteCache(w)
    PROVE  CopyInv' /\ CommandPlansWithOneScene'
<1>1. /\ step[w] # 0 /\ Steps[step[w]] \in Fields
      /\ call' = IF Following(w) = 0 THEN [call EXCEPT ![w] = "refreshed"] ELSE call
      /\ disturbed' = [c \in Commands |-> disturbed[c] \/ copied[c] > 0]
      /\ UNCHANGED <<environment, copied>>
  BY DEF WriteCache, Store, Copying
<1>2. Following(w) = 0 => w \in Callers /\ call[w] = "answered"
  BY <1>1, StoreAt DEF StepInv, Writers
<1>3. \A c \in Commands : call'[c] = call[c] \/ (call[c] = "answered" /\ call'[c] = "refreshed")
  BY <1>1, <1>2, CommandsAndScansAreCallers DEF TypeOK, EnvTypeOK
<1>4. CopyInv'
  BY <1>1, <1>3 DEF CopyInv
<1>5. CommandPlansWithOneScene'
  BY <1>1, <1>3 DEF CommandPlansWithOneScene, IsIdle
<1>6. QED
  BY <1>4, <1>5

\* One more list of an undisturbed copy is of the scene of the others.
LEMMA CopyGoesOn ==
    ASSUME TypeOK, CacheInv, CopyInv, CommandPlansWithOneScene, NEW c \in Commands, CopyCached(c)
    PROVE  CopyInv' /\ CommandPlansWithOneScene'
<1>1. PICK k : k = copied[c] /\ k \in 0 .. Len(GetterOrder) - 1
  BY DEF TypeOK
<1>2. Len(GetterOrder) \in Nat /\ k + 1 \in 1 .. Len(GetterOrder)
  BY <1>1, Getters, Positions
<1>3. PICK f \in Fields : f = GetterOrder[k + 1]
  BY <1>2, Getters
<1>4. /\ call[c] = "failed"
      /\ environment' = [environment EXCEPT ![c][f] = cache[f]]
      /\ copied' = [copied EXCEPT ![c] = IF k + 1 = Len(GetterOrder) THEN 0 ELSE k + 1]
      /\ IF k + 1 = Len(GetterOrder) THEN call' = [call EXCEPT ![c] = "idle"] ELSE call' = call
      /\ disturbed' = IF k = 0 THEN [disturbed EXCEPT ![c] = overlap \/ ~AtRest] ELSE disturbed
      /\ UNCHANGED cache
  BY <1>1, <1>3 DEF CopyCached, Release, cacheVars
<1>5. c \in Callers /\ AtRest \in BOOLEAN
  BY CommandsAndScansAreCallers DEF AtRest
<1>6. \A d \in Commands \ {c} : /\ environment'[d] = environment[d] /\ copied'[d] = copied[d]
                                /\ disturbed'[d] = disturbed[d] /\ call'[d] = call[d]
  <2>1. \A d \in Commands \ {c} : environment'[d] = environment[d] /\ copied'[d] = copied[d]
    BY <1>4 DEF TypeOK
  <2>2. \A d \in Commands \ {c} : disturbed'[d] = disturbed[d]
    BY <1>4 DEF TypeOK
  <2>3. \A d \in Commands \ {c} : call'[d] = call[d]
    BY <1>4, CommandsAndScansAreCallers DEF TypeOK, EnvTypeOK
  <2>4. QED
    BY <2>1, <2>2, <2>3
<1>7. ~disturbed'[c] => OneScene /\ \A i \in 1 .. k + 1 : environment'[c][GetterOrder[i]] = cache[GetterOrder[i]]
  <2>1. SUFFICES ASSUME ~disturbed'[c]
                 PROVE  OneScene /\ \A i \in 1 .. k + 1 : environment'[c][GetterOrder[i]] = cache[GetterOrder[i]]
    OBVIOUS
  <2>2. \A g \in Fields : environment'[c][g] = IF g = f THEN cache[f] ELSE environment[c][g]
    BY <1>4 DEF TypeOK
  <2>3. CASE k = 0
    <3>1. AtRest /\ ~overlap
      BY <1>4, <1>5, <2>1, <2>3 DEF TypeOK, EnvTypeOK
    <3>2. \A i \in 1 .. k + 1 : GetterOrder[i] = f
      BY <1>3, <2>3
    <3>3. QED
      BY <2>2, <3>1, <3>2 DEF CacheInv
  <2>4. CASE k # 0
    <3>1. OneScene /\ \A i \in 1 .. k : environment[c][GetterOrder[i]] = cache[GetterOrder[i]]
      BY <1>1, <1>4, <2>1, <2>4 DEF CopyInv
    <3>2. \A i \in 1 .. k + 1 : GetterOrder[i] \in Fields
      BY <1>2, Getters
    <3>3. \A i \in 1 .. k + 1 : i \in 1 .. k \/ GetterOrder[i] = f
      BY <1>1, <1>3
    <3>4. QED
      BY <2>2, <3>1, <3>2, <3>3
  <2>5. QED
    BY <2>3, <2>4
<1>8. CASE k + 1 = Len(GetterOrder)
  <2>1. copied'[c] = 0 /\ call'[c] = "idle"
    BY <1>4, <1>5, <1>8 DEF TypeOK, EnvTypeOK
  <2>2. ~disturbed'[c] => \A g, h \in Fields : environment'[c][g] = environment'[c][h]
    BY <1>7, <1>8, Getters DEF OneScene
  <2>3. CopyInv'
    BY <1>4, <1>6, <2>1 DEF CopyInv, OneScene
  <2>4. CommandPlansWithOneScene'
    BY <1>6, <2>1, <2>2 DEF CommandPlansWithOneScene, IsIdle
  <2>5. QED
    BY <2>3, <2>4
<1>9. CASE k + 1 # Len(GetterOrder)
  <2>1. copied'[c] = k + 1 /\ call'[c] = "failed"
    BY <1>4, <1>9 DEF TypeOK
  <2>2. CopyInv'
    BY <1>4, <1>6, <1>7, <2>1 DEF CopyInv, OneScene
  <2>3. CommandPlansWithOneScene'
    BY <1>6, <2>1 DEF CommandPlansWithOneScene, IsIdle
  <2>4. QED
    BY <2>2, <2>3
<1>10. QED
  BY <1>8, <1>9

\* Every step keeps the copies, and what the commands plan with.
LEMMA CopyStep ==
    ASSUME TypeOK, StepInv, CacheInv, CopyInv, CommandPlansWithOneScene, [Next]_vars
    PROVE  CopyInv' /\ CommandPlansWithOneScene'
<1>a. /\ Commands \subseteq Callers /\ Scans \subseteq Callers \ Commands /\ Others \subseteq Callers \ Commands
      /\ call \in [Callers -> {"idle", "asked", "answered", "refreshed", "failed"}]
  BY CommandsAndScansAreCallers DEF Others, TypeOK, EnvTypeOK
<1>b. ASSUME UNCHANGED <<call, cache, commandVars>> PROVE CopyInv' /\ CommandPlansWithOneScene'
  BY <1>b, CopyKept
<1>1. CASE (SceneChanges \/ Connect \/ LoseConnection \/ NotifyDown) /\ Bystanders
  BY <1>1, <1>b DEF SceneChanges, Connect, LoseConnection, NotifyDown, Bystanders, cacheVars
<1>2. CASE Reset
  BY <1>2, <1>b DEF Reset, cacheVars
<1>3. ASSUME NEW c \in Callers, Refresh(c) /\ Bystanders PROVE CopyInv' /\ CommandPlansWithOneScene'
  <2>1. /\ call[c] = "asked" /\ UNCHANGED <<cache, commandVars>>
        /\ \E x \in {"answered", "failed"} : call' = [call EXCEPT ![c] = x]
    BY <1>3 DEF Refresh, Answered, RefreshFails, Bystanders, cacheVars
  <2>2. \A d \in Commands : call'[d] = call[d] \/ (call[d] # "failed" /\ call'[d] # "idle")
    BY <1>a, <2>1
  <2>3. QED
    BY <2>1, <2>2, CopyKept
<1>4. ASSUME NEW w \in Writers, WriteCache(w) PROVE CopyInv' /\ CommandPlansWithOneScene'
  BY <1>4, WriteDisturbs
<1>5. ASSUME NEW w \in Writers, NotifyObjects(w) /\ Bystanders PROVE CopyInv' /\ CommandPlansWithOneScene'
  BY <1>5, <1>b DEF NotifyObjects, Bystanders
<1>6. ASSUME NEW c \in Others, Ask(c) /\ Bystanders PROVE CopyInv' /\ CommandPlansWithOneScene'
  BY <1>6, <1>a, OthersCall DEF Ask, Bystanders, cacheVars
<1>7. ASSUME NEW c \in Others, Release(c), UNCHANGED <<connected, scene, step, cacheVars, commandVars, scanVars>>
      PROVE  CopyInv' /\ CommandPlansWithOneScene'
  BY <1>7, <1>a, OthersCall DEF Release, cacheVars
<1>8. ASSUME NEW c \in Commands, StartCommand(c) PROVE CopyInv' /\ CommandPlansWithOneScene'
  <2>1. /\ call[c] = "idle" /\ UNCHANGED <<cache, copied>>
        /\ \E x \in {"asked", "failed"} : call' = [call EXCEPT ![c] = x]
        /\ environment' = [environment EXCEPT ![c] = [f \in Fields |-> 0]]
        /\ disturbed' = [disturbed EXCEPT ![c] = FALSE]
    BY <1>8 DEF StartCommand, IsIdle, Ask, cacheVars
  <2>2. copied[c] \in Nat /\ copied[c] = 0
    <3>1. copied[c] \in Nat
      BY DEF TypeOK
    <3>2. QED
      BY <2>1, <3>1 DEF CopyInv
  <2>3. \A d \in Commands \ {c} : /\ environment'[d] = environment[d]
                                  /\ disturbed'[d] = disturbed[d] /\ call'[d] = call[d]
    BY <1>a, <2>1 DEF TypeOK
  <2>4. call'[c] # "idle"
    BY <1>a, <2>1
  <2>5. CopyInv'
    BY <2>1, <2>2, <2>3 DEF CopyInv, OneScene
  <2>6. CommandPlansWithOneScene'
    BY <2>3, <2>4 DEF CommandPlansWithOneScene, IsIdle
  <2>7. QED
    BY <2>5, <2>6
<1>9. ASSUME NEW c \in Commands, UseFresh(c) PROVE CopyInv' /\ CommandPlansWithOneScene'
  <2>1. /\ call[c] = "refreshed" /\ UNCHANGED <<cache, copied, disturbed>>
        /\ call' = [call EXCEPT ![c] = "idle"]
        /\ environment' = [environment EXCEPT ![c] = [f \in Fields |-> values[c]]]
    BY <1>9 DEF UseFresh, Release, cacheVars
  <2>2. copied[c] \in Nat /\ copied[c] = 0
    <3>1. copied[c] \in Nat
      BY DEF TypeOK
    <3>2. QED
      BY <2>1, <3>1 DEF CopyInv
  <2>3. \A d \in Commands \ {c} : environment'[d] = environment[d] /\ call'[d] = call[d]
    BY <1>a, <2>1 DEF TypeOK
  <2>4. \A f, g \in Fields : environment'[c][f] = environment'[c][g]
    BY <2>1 DEF TypeOK
  <2>5. CopyInv'
    BY <2>1, <2>2, <2>3 DEF CopyInv, OneScene
  <2>6. CommandPlansWithOneScene'
    BY <2>1, <2>3, <2>4 DEF CommandPlansWithOneScene, IsIdle
  <2>7. QED
    BY <2>5, <2>6
<1>10. ASSUME NEW c \in Commands, CopyCached(c) PROVE CopyInv' /\ CommandPlansWithOneScene'
  BY <1>10, CopyGoesOn
<1>11. ASSUME NEW s \in Scans, StartScan(s) \/ AskAgain(s) PROVE CopyInv' /\ CommandPlansWithOneScene'
  BY <1>11, <1>a, OthersCall DEF StartScan, AskAgain, Ask, cacheVars
<1>12. ASSUME NEW s \in Scans, ScanFails(s) \/ ReadBefore(s) \/ Report(s)
       PROVE  CopyInv' /\ CommandPlansWithOneScene'
  BY <1>12, <1>a, OthersCall DEF ScanFails, ReadBefore, Report, Release, cacheVars
<1>13. ASSUME NEW s \in Scans, Snapshot(s) \/ SnapshotFails(s) \/ EndScan(s)
       PROVE  CopyInv' /\ CommandPlansWithOneScene'
  BY <1>13, <1>b DEF Snapshot, SnapshotFails, EndScan, envVars, cacheVars
<1>14. CASE UNCHANGED vars
  BY <1>14, <1>b DEF vars, envVars, cacheVars
<1>15. QED
  BY <1>1, <1>2, <1>3, <1>4, <1>5, <1>6, <1>7, <1>8, <1>9, <1>10, <1>11, <1>12, <1>13, <1>14 DEF Next

-----------------------------------------------------------------------------
(* The scans.                                                              *)

\* A step that touches no scan, while time goes on.
LEMMA ScanKept ==
    ASSUME TypeOK, ScanInv, UNCHANGED scanVars, scene' \in Nat, scene <= scene',
           \A s \in Scans : call'[s] = call[s] /\ values'[s] = values[s]
    PROVE  ScanInv'
<1>1. scene \in Nat /\ UNCHANGED <<phase, before, after, snapshot>>
  BY ScenesAreMany DEF TypeOK, EnvTypeOK, scanVars
<1>2. \A s \in Scans : before[s] \in Nat /\ snapshot[s] \in Nat
  BY ScenesAreMany DEF TypeOK, Scenes
<1>3. QED
  BY <1>1, <1>2 DEF ScanInv

\* The calls of others are none of a scan's.
LEMMA ScanWatches ==
    ASSUME TypeOK, ScanInv, UNCHANGED scanVars, UNCHANGED scene, NEW c \in Callers \ Scans,
           \E x : call' = [call EXCEPT ![c] = x],
           UNCHANGED values \/ \E x : values' = [values EXCEPT ![c] = x]
    PROVE  ScanInv'
<1>1. \A s \in Scans : call'[s] = call[s] /\ values'[s] = values[s]
  BY CommandsAndScansAreCallers DEF TypeOK, EnvTypeOK, Writers
<1>2. scene' \in Nat /\ scene <= scene'
  BY ScenesAreMany DEF TypeOK, EnvTypeOK
<1>3. QED
  BY <1>1, <1>2, ScanKept

\* A scan moves, and no other does.
LEMMA ScanMoves ==
    ASSUME TypeOK, ScanInv, NEW s \in Scans, scene' \in Nat, scene <= scene',
           \A t \in Scans \ {s} : /\ phase'[t] = phase[t] /\ before'[t] = before[t]
                                  /\ after'[t] = after[t] /\ snapshot'[t] = snapshot[t]
                                  /\ call'[t] = call[t] /\ values'[t] = values[t],
           phase'[s] \in {"idle", "snapping", "ready", "reported"} => call'[s] = "idle",
           phase'[s] = "snapping" => 0 < before'[s] /\ before'[s] <= scene',
           phase'[s] \in {"ready", "second"} =>
             0 < before'[s] /\ before'[s] < snapshot'[s] /\ snapshot'[s] <= scene',
           phase'[s] = "second" => call'[s] \notin {"answered", "refreshed"},
           phase'[s] = "reported" =>
             0 < before'[s] /\ before'[s] < snapshot'[s] /\ snapshot'[s] <= after'[s]
    PROVE  ScanInv'
<1>1. scene \in Nat
  BY ScenesAreMany DEF TypeOK, EnvTypeOK
<1>2. \A t \in Scans : before[t] \in Nat /\ snapshot[t] \in Nat
  BY ScenesAreMany DEF TypeOK, Scenes
<1>3. QED
  BY <1>1, <1>2 DEF ScanInv

\* Every step keeps the readings of the scans in order.
LEMMA ScanStep ==
    ASSUME TypeOK, StepInv, ScanInv, [Next]_vars
    PROVE  ScanInv'
<1>a. /\ Commands \subseteq Callers \ Scans /\ Scans \subseteq Callers /\ Others \subseteq Callers \ Scans
      /\ Scans \subseteq Writers /\ scene \in Nat
      /\ call \in [Callers -> {"idle", "asked", "answered", "refreshed", "failed"}]
      /\ values \in [Writers -> Scenes]
  BY CommandsAndScansAreCallers, ScenesAreMany DEF Others, Writers, TypeOK, EnvTypeOK
<1>b. NewScene => scene' \in Nat /\ scene < scene' /\ scene' = scene + 1
  BY <1>a DEF NewScene
<1>c. ASSUME UNCHANGED <<call, values, scanVars>>, NewScene \/ UNCHANGED scene PROVE ScanInv'
  BY <1>a, <1>b, <1>c, ScanKept
<1>d. \A s \in Scans : values[s] \in Nat /\ before[s] \in Nat /\ snapshot[s] \in Nat
  BY <1>a, ScenesAreMany DEF TypeOK, Scenes
<1>e. /\ phase \in [Scans -> {"idle", "first", "snapping", "ready", "second", "reported"}]
      /\ before \in [Scans -> Scenes] /\ after \in [Scans -> Scenes] /\ snapshot \in [Scans -> Scenes]
  BY DEF TypeOK
<1>1. CASE (SceneChanges \/ Connect \/ LoseConnection \/ NotifyDown) /\ Bystanders
  BY <1>1, <1>c DEF SceneChanges, Connect, LoseConnection, NotifyDown, Bystanders
<1>2. CASE Reset
  BY <1>2, <1>c DEF Reset
<1>3. ASSUME NEW c \in Callers, Refresh(c) /\ Bystanders PROVE ScanInv'
  <2>1. CASE Answered(c)
    <3>1. /\ call[c] = "asked" /\ call' = [call EXCEPT ![c] = "answered"]
          /\ values' = [values EXCEPT ![c] = scene] /\ UNCHANGED scene
      BY <2>1 DEF Answered
    <3>2. UNCHANGED <<phase, before, after, snapshot>>
      BY <1>3 DEF Bystanders, scanVars
    <3>3. \A s \in Scans : \/ call'[s] = call[s] /\ values'[s] = values[s]
                           \/ call[s] = "asked" /\ call'[s] = "answered" /\ values'[s] = scene
      BY <1>a, <3>1
    <3>4. QED
      BY <1>a, <1>d, <3>1, <3>2, <3>3 DEF ScanInv
  <2>2. CASE RefreshFails(c)
    <3>1. /\ call[c] = "asked" /\ call' = [call EXCEPT ![c] = "failed"]
          /\ UNCHANGED <<values, scene>>
      BY <2>2 DEF RefreshFails
    <3>2. UNCHANGED <<phase, before, after, snapshot>>
      BY <1>3 DEF Bystanders, scanVars
    <3>3. \A s \in Scans : call'[s] = call[s] \/ (call[s] = "asked" /\ call'[s] = "failed")
      BY <1>a, <3>1
    <3>4. QED
      BY <1>a, <1>d, <3>1, <3>2, <3>3 DEF ScanInv
  <2>3. QED
    BY <1>3, <2>1, <2>2 DEF Refresh
<1>4. ASSUME NEW w \in Writers, WriteCache(w) PROVE ScanInv'
  <2>1. /\ step[w] # 0 /\ Steps[step[w]] \in Fields
        /\ call' = IF Following(w) = 0 THEN [call EXCEPT ![w] = "refreshed"] ELSE call
        /\ UNCHANGED <<values, scene, scanVars>>
    BY <1>4 DEF WriteCache, Store
  <2>2. Following(w) = 0 => w \in Callers /\ call[w] = "answered"
    BY <2>1, StoreAt DEF StepInv, Writers
  <2>3. \A s \in Scans : call'[s] = call[s] \/ (call[s] = "answered" /\ call'[s] = "refreshed")
    BY <1>a, <2>1, <2>2
  <2>4. UNCHANGED <<phase, before, after, snapshot>>
    BY <2>1 DEF scanVars
  <2>5. QED
    BY <1>a, <1>d, <2>1, <2>3, <2>4 DEF ScanInv
<1>5. ASSUME NEW w \in Writers, NotifyObjects(w) /\ Bystanders PROVE ScanInv'
  BY <1>5, <1>c DEF NotifyObjects, Bystanders
<1>6. ASSUME NEW c \in Others, Ask(c) /\ Bystanders PROVE ScanInv'
  BY <1>6, <1>a, ScanWatches DEF Ask, Bystanders
<1>7. ASSUME NEW c \in Others, Release(c), UNCHANGED <<connected, scene, step, cacheVars, commandVars, scanVars>>
      PROVE  ScanInv'
  BY <1>7, <1>a, ScanWatches DEF Release
<1>8. ASSUME NEW c \in Commands, StartCommand(c) PROVE ScanInv'
  BY <1>8, <1>a, ScanWatches DEF StartCommand, Ask
<1>9. ASSUME NEW c \in Commands, UseFresh(c) PROVE ScanInv'
  BY <1>9, <1>a, ScanWatches DEF UseFresh, Release
<1>10. ASSUME NEW c \in Commands, CopyCached(c) PROVE ScanInv'
  <2>1. UNCHANGED <<scene, scanVars>> /\ (Release(c) \/ UNCHANGED <<call, values>>)
    BY <1>10 DEF CopyCached
  <2>2. CASE Release(c)
    BY <1>a, <2>1, <2>2, ScanWatches DEF Release
  <2>3. CASE UNCHANGED <<call, values>>
    BY <1>c, <2>1, <2>3
  <2>4. QED
    BY <2>1, <2>2, <2>3
<1>11. ASSUME NEW s \in Scans, StartScan(s) PROVE ScanInv'
  <2>1. /\ call' = [call EXCEPT ![s] = IF connected THEN "asked" ELSE "failed"]
        /\ phase' = [phase EXCEPT ![s] = "first"] /\ UNCHANGED <<values, scene, before, after, snapshot>>
    BY <1>11 DEF StartScan, Ask, Move
  <2>2. QED
    BY <1>a, <1>e, <2>1, ScanMoves
<1>12. ASSUME NEW s \in Scans, ScanFails(s) PROVE ScanInv'
  <2>1. /\ call' = [call EXCEPT ![s] = "idle"] /\ values' = [values EXCEPT ![s] = 0]
        /\ phase' = [phase EXCEPT ![s] = "idle"] /\ UNCHANGED scene
        /\ before' = [before EXCEPT ![s] = 0] /\ after' = [after EXCEPT ![s] = 0]
        /\ snapshot' = [snapshot EXCEPT ![s] = 0]
    BY <1>12 DEF ScanFails, Release, Move, Forget
  <2>2. QED
    BY <1>a, <1>e, <2>1, ScanMoves
<1>13. ASSUME NEW s \in Scans, ReadBefore(s) PROVE ScanInv'
  <2>1. /\ call[s] = "refreshed" /\ call' = [call EXCEPT ![s] = "idle"]
        /\ values' = [values EXCEPT ![s] = 0] /\ phase' = [phase EXCEPT ![s] = "snapping"]
        /\ before' = [before EXCEPT ![s] = values[s]] /\ UNCHANGED <<scene, after, snapshot>>
    BY <1>13 DEF ReadBefore, Release, Move
  <2>2. 0 < values[s] /\ values[s] <= scene
    BY <1>a, <1>d, <2>1 DEF StepInv
  <2>3. QED
    BY <1>a, <1>e, <2>1, <2>2, ScanMoves
<1>14. ASSUME NEW s \in Scans, Snapshot(s) PROVE ScanInv'
  <2>1. /\ phase[s] = "snapping" /\ NewScene /\ phase' = [phase EXCEPT ![s] = "ready"]
        /\ snapshot' = [snapshot EXCEPT ![s] = scene'] /\ UNCHANGED <<call, values, before, after>>
    BY <1>14 DEF Snapshot, Move
  <2>2. call[s] = "idle" /\ 0 < before[s] /\ before[s] < scene'
    BY <1>a, <1>b, <1>d, <2>1 DEF ScanInv
  <2>3. QED
    BY <1>a, <1>b, <1>e, <2>1, <2>2, ScanMoves
<1>15. ASSUME NEW s \in Scans, SnapshotFails(s) PROVE ScanInv'
  <2>1. /\ phase[s] = "snapping" /\ (NewScene \/ UNCHANGED scene) /\ phase' = [phase EXCEPT ![s] = "idle"]
        /\ before' = [before EXCEPT ![s] = 0] /\ after' = [after EXCEPT ![s] = 0]
        /\ snapshot' = [snapshot EXCEPT ![s] = 0] /\ UNCHANGED <<call, values>>
    BY <1>15 DEF SnapshotFails, Move, Forget
  <2>2. call[s] = "idle" /\ scene' \in Nat /\ scene <= scene'
    BY <1>a, <1>b, <2>1 DEF ScanInv
  <2>3. QED
    BY <1>a, <1>e, <2>1, <2>2, ScanMoves
<1>16. ASSUME NEW s \in Scans, AskAgain(s) PROVE ScanInv'
  <2>1. /\ phase[s] = "ready" /\ call' = [call EXCEPT ![s] = IF connected THEN "asked" ELSE "failed"]
        /\ phase' = [phase EXCEPT ![s] = "second"] /\ UNCHANGED <<values, scene, before, after, snapshot>>
    BY <1>16 DEF AskAgain, Ask, Move
  <2>2. 0 < before[s] /\ before[s] < snapshot[s] /\ snapshot[s] <= scene
    BY <2>1 DEF ScanInv
  <2>3. QED
    BY <1>a, <1>e, <2>1, <2>2, ScanMoves
<1>17. ASSUME NEW s \in Scans, Report(s) PROVE ScanInv'
  <2>1. /\ phase[s] = "second" /\ call[s] = "refreshed" /\ call' = [call EXCEPT ![s] = "idle"]
        /\ values' = [values EXCEPT ![s] = 0] /\ phase' = [phase EXCEPT ![s] = "reported"]
        /\ after' = [after EXCEPT ![s] = values[s]] /\ UNCHANGED <<scene, before, snapshot>>
    BY <1>17 DEF Report, Release, Move
  <2>2. 0 < before[s] /\ before[s] < snapshot[s] /\ snapshot[s] <= values[s]
    BY <2>1 DEF ScanInv
  <2>3. QED
    BY <1>a, <1>e, <2>1, <2>2, ScanMoves
<1>18. ASSUME NEW s \in Scans, EndScan(s) PROVE ScanInv'
  <2>1. /\ phase[s] = "reported" /\ phase' = [phase EXCEPT ![s] = "idle"]
        /\ before' = [before EXCEPT ![s] = 0] /\ after' = [after EXCEPT ![s] = 0]
        /\ snapshot' = [snapshot EXCEPT ![s] = 0] /\ UNCHANGED <<call, values, scene>>
    BY <1>18 DEF EndScan, Move, Forget, envVars
  <2>2. call[s] = "idle"
    BY <2>1 DEF ScanInv
  <2>3. QED
    BY <1>a, <1>e, <2>1, <2>2, ScanMoves
<1>19. CASE UNCHANGED vars
  BY <1>19, <1>c DEF vars, envVars
<1>20. QED
  BY <1>1, <1>2, <1>3, <1>4, <1>5, <1>6, <1>7, <1>8, <1>9, <1>10, <1>11, <1>12, <1>13, <1>14, <1>15,
     <1>16, <1>17, <1>18, <1>19 DEF Next

-----------------------------------------------------------------------------
(* The theorems.                                                           *)

\* The strengthened invariant, for any callers, lists and scenes.
THEOREM Inductive == Spec => []IInv
<1>1. Init => IInv
  <2> SUFFICES ASSUME Init PROVE IInv
    OBVIOUS
  <2> USE DEF Init, EnvInit
  <2>1. Len(Presets) \in Nat /\ Len(Presets) > 0 /\ Len(Steps) \in Nat /\ Len(GetterOrder) > 0 /\ Len(GetterOrder) \in Nat
    BY Positions, Getters
  <2>2. 0 \in Scenes /\ 1 \in 1 .. MaxScenes
    BY ScenesAreMany DEF Scenes
  <2>3. TypeOK
    <3>1. 0 \in 0 .. Len(Steps) /\ 0 \in 0 .. Len(GetterOrder) - 1
      BY <2>1
    <3>2. EnvTypeOK
      BY <2>2, <3>1 DEF EnvTypeOK
    <3>3. environment \in [Commands -> [Fields -> Scenes]]
      BY <2>2
    <3>4. /\ copied \in [Commands -> 0 .. Len(GetterOrder) - 1] /\ disturbed \in [Commands -> BOOLEAN]
          /\ phase \in [Scans -> {"idle", "first", "snapping", "ready", "second", "reported"}]
      BY <3>1
    <3>5. before \in [Scans -> Scenes] /\ after \in [Scans -> Scenes] /\ snapshot \in [Scans -> Scenes]
      BY <2>2
    <3>6. QED
      BY <3>2, <3>3, <3>4, <3>5 DEF TypeOK
  <2>4. StepInv
    BY <2>1 DEF StepInv, Writers
  <2>5. CacheInv
    BY Positions DEF CacheInv, AtRest, Writing, OneScene
  <2>6. CopyInv /\ CommandPlansWithOneScene
    BY DEF CopyInv, CommandPlansWithOneScene
  <2>7. ScanInv
    BY CommandsAndScansAreCallers DEF ScanInv
  <2>8. QED
    BY <2>3, <2>4, <2>5, <2>6, <2>7 DEF IInv
<1>2. IInv /\ [Next]_vars => IInv'
  BY TypeStep, StepStep, CacheStep, CopyStep, ScanStep DEF IInv
<1>3. QED
  BY <1>1, <1>2, PTL DEF Spec

\* Type correctness of the cache and of its users.
THEOREM Typing == Spec => []TypeOK
<1>1. IInv => TypeOK
  BY DEF IInv
<1>2. QED
  BY <1>1, Inductive, PTL

\* The sidebar shows the objects of the cache when no writer is at work, unless
\* two writers overlapped (client.go:144-152, model.go:331-341).
THEOREM SidebarIsRight == Spec => []SidebarFollowsCache
<1>1. IInv => SidebarFollowsCache
  BY DEF IInv, CacheInv, SidebarFollowsCache
<1>2. QED
  BY <1>1, Inductive, PTL

\* A command plans with the lists of one scene, unless writers overlapped or a
\* list was stored during its copy (ws_handler.go:37-49).
THEOREM PlansWithOneScene == Spec => []CommandPlansWithOneScene
<1>1. IInv => CommandPlansWithOneScene
  BY DEF IInv
<1>2. QED
  BY <1>1, Inductive, PTL

\* The readings of a scan lie on either side of its snapshot, and what it counts
\* adds up (handlers.go:114-137).
THEOREM ScanIsBracketed == Spec => []ScanBracketsSnapshot
<1>1. IInv => ScanBracketsSnapshot
  <2> SUFFICES ASSUME IInv, NEW s \in Scans, phase[s] = "reported"
               PROVE  /\ before[s] < snapshot[s] /\ snapshot[s] <= after[s]
                      /\ Unchanged(s) = Cardinality(Objects[before[s]]) - Cardinality(Removed(s))
    BY DEF ScanBracketsSnapshot
  <2>1. 0 < before[s] /\ before[s] < snapshot[s] /\ snapshot[s] <= after[s]
    BY DEF IInv, ScanInv
  <2>2. before[s] \in 1 .. MaxScenes /\ after[s] \in 1 .. MaxScenes
    <3>1. before[s] \in 0 .. MaxScenes /\ after[s] \in 0 .. MaxScenes /\ snapshot[s] \in 0 .. MaxScenes
      BY DEF IInv, TypeOK, Scenes
    <3>2. QED
      BY <2>1, <3>1, ScenesAreMany
  <2> DEFINE A == Objects[after[s]]
             B == Objects[before[s]]
  <2>3. IsFiniteSet(A) /\ IsFiniteSet(B)
    BY <2>2, ScenesHaveObjects
  <2> HIDE DEF A, B
  <2>4. /\ Cardinality(A) \in Nat /\ Cardinality(B) \in Nat
        /\ IsFiniteSet(A \cap B) /\ Cardinality(A \cap B) \in Nat
    BY <2>3, FS_CardinalityType, FS_Intersection
  <2>5. Cardinality(A \ B) = Cardinality(A) - Cardinality(A \cap B)
    BY <2>3, FS_Difference
  <2>6. Cardinality(B \ A) = Cardinality(B) - Cardinality(A \cap B)
    <3>1. Cardinality(B \ A) = Cardinality(B) - Cardinality(B \cap A)
      BY <2>3, FS_Difference
    <3>2. B \cap A = A \cap B
      OBVIOUS
    <3>3. QED
      BY <3>1, <3>2
  <2>7. Cardinality(A) - Cardinality(A \ B) = Cardinality(B) - Cardinality(B \ A)
    BY <2>4, <2>5, <2>6
  <2>8. QED
    BY <2>1, <2>7 DEF Unchanged, Added, Removed, missingFrom, A, B
<1>2. QED
  BY <1>1, Inductive, PTL
=============================================================================
