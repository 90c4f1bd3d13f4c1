------------------------- MODULE PluginLoaderProofs -------------------------
(* Theorems about PluginLoader, for any threads, while the clock and OnStop   *)
(* may come at any time: those about the library as long as dlopen does not   *)
(* fail, those about the two locks and the types whatever happens.            *)
EXTENDS PluginLoader, TLAPS

(* An entry is open, and a task without a state does not run.                 *)
EntryIsOpen ==
    /\ entry # NoState => pluginHandles[entry] /\ mapped >= 1
    /\ plugins => mapped >= 1
    /\ \A t \in Tasks : task[t].pc = "none" <=> task[t].state = NoState

LocksExclude ==
    /\ Unloading # {} => Pinning = {}
    /\ \A c \in Callers : pc[c] = "locked" => mutexLock = c

(* The library was opened once more than its entry will close it.             *)
Leaked == mapped >= IF entry = NoState THEN 1 ELSE 2

(* Two tasks have one state, or a task that goes on has one that is not the   *)
(* entry, only after a second dlopen, which OnStop makes possible.            *)
GoesOn(t) ==
    \/ task[t].pc \in {"waiting", "woken", "pinned"}
    \/ task[t].pc = "head" /\ pluginHasInit[task[t].state]
TasksMatch ==
    /\ \A t \in Tasks : GoesOn(t) /\ task[t].state # entry => Leaked
    /\ \A t, o \in Tasks :
           t # o /\ task[t].state = entry /\ task[o].state = entry /\ entry # NoState => Leaked

(* The soft protection of the callers between lookup and pin.                 *)
FoundIsRecent ==
    \A c \in Callers :
        /\ pc[c] = "found" /\ c \notin exposed =>
               Leaked \/ (entry # NoState /\ recent[entry])
        /\ pc[c] = "found" /\ c \in dangling => c \in exposed
        /\ c \in dangling => c \in HaveAPlugin
        /\ pc[c] = "pinned" /\ c \notin exposed => Leaked \/ entry # NoState

(* Until OnStop, what is not open is not in the map, and its plugins were not *)
(* taken; what is in the map counts as loaded, taken or not.                  *)
EntryIsLoaded ==
    ~stopped => /\ entry = NoState => mapped = 0 /\ ~taken
                /\ entry # NoState => pluginHasInit[entry]

LoaderInv ==
    /\ TypeOK /\ EntryIsOpen /\ LocksExclude /\ TasksMatch /\ FoundIsRecent
    /\ EntryIsLoaded /\ LoadedIsRegistered /\ LoadedIsWatched /\ HandlersRunLoaded

-----------------------------------------------------------------------------
(* The invariant holds at first. *)

LEMMA InitInvariant == Init => LoaderInv
  <1> SUFFICES ASSUME Init PROVE LoaderInv
    OBVIOUS
  <1> USE LoaderAssumption DEF Init
  <1>1. TypeOK
    BY DEF TypeOK, Idle
  <1>2. EntryIsOpen /\ LocksExclude
    BY DEF EntryIsOpen, LocksExclude, Idle, Unloading
  <1>3. TasksMatch
    BY DEF TasksMatch, GoesOn, Idle
  <1>4. FoundIsRecent /\ EntryIsLoaded /\ LoadedIsRegistered /\ LoadedIsWatched /\ HandlersRunLoaded
    BY DEF FoundIsRecent, EntryIsLoaded, LoadedIsRegistered, LoadedIsWatched, HandlersRunLoaded, HasInit
  <1>5. QED
    BY <1>1, <1>2, <1>3, <1>4 DEF LoaderInv

-----------------------------------------------------------------------------
(* What LoadPlugin does, whoever calls it. *)

(* One part of the invariant concerns the library and its tasks only.         *)
LibraryInv ==
    /\ EntryIsOpen /\ TasksMatch /\ EntryIsLoaded /\ LoadedIsRegistered /\ LoadedIsWatched

LEMMA LoadPluginCases ==
    ASSUME TypeOK, "dlopen" \notin Env, LoadPlugin
    PROVE  \/ /\ HasInit
              /\ recent' = [recent EXCEPT ![entry] = TRUE]
              /\ UNCHANGED <<entry, pluginHasInit, pluginHandles, task, mapped, plugins>>
           \/ \E s \in States, t \in Tasks :
              /\ ~HasInit /\ task[t] = Idle
              /\ s = entry \/ (entry = NoState /\ Free(s))
              /\ entry' = s
              /\ recent' = [recent EXCEPT ![s] = TRUE]
              /\ pluginHandles' = [pluginHandles EXCEPT ![s] = TRUE]
              /\ mapped' = mapped + 1
              /\ plugins' = (plugins \/ mapped = 0)
              /\ pluginHasInit' = [pluginHasInit EXCEPT ![s] = TRUE]
              /\ task' = [task EXCEPT ![t] = [pc |-> "head", state |-> s]]
  <1>1. CASE HasInit
    BY <1>1 DEF LoadPlugin
  <1>2. CASE ~HasInit
    <2>1. PICK s \in OneOf(IF entry = NoState THEN {s \in States : Free(s)} ELSE {entry}),
               t \in OneOf({t \in Tasks : task[t] = Idle}) :
             /\ entry' = s
             /\ recent' = [recent EXCEPT ![s] = TRUE]
             /\ DlopenPlugin(s)
             /\ pluginHasInit' = [pluginHasInit EXCEPT ![s] = TRUE]
             /\ task' = [task EXCEPT ![t] = [pc |-> "head", state |-> s]]
      BY <1>2 DEF LoadPlugin
    <2>2. \A S, x : x \in OneOf(S) => x \in S
      BY DEF OneOf
    <2>3. s \in IF entry = NoState THEN {i \in States : Free(i)} ELSE {entry}
      BY <2>2
    <2>4. t \in {i \in Tasks : task[i] = Idle}
      BY <2>2
    <2>5. s \in States /\ (s = entry \/ (entry = NoState /\ Free(s)))
      BY <2>3 DEF TypeOK
    <2>6. /\ pluginHandles' = [pluginHandles EXCEPT ![s] = TRUE]
          /\ mapped' = mapped + 1
          /\ plugins' = (plugins \/ mapped = 0)
      <3>1. PICK ok \in {TRUE} :
               /\ pluginHandles' = [pluginHandles EXCEPT ![s] = IF entry = s THEN @ \/ ok ELSE ok]
               /\ mapped' = IF ok THEN mapped + 1 ELSE mapped
               /\ plugins' = (plugins \/ (ok /\ mapped = 0))
        BY <2>1 DEF DlopenPlugin
      <3>2. ok = TRUE
        OBVIOUS
      <3>3. QED
        BY <3>1, <3>2 DEF TypeOK
    <2>7. QED
      BY <1>2, <2>1, <2>4, <2>5, <2>6
  <1>3. QED
    BY <1>1, <1>2

(* LoadPlugin keeps that part, loses no library and leaves a fresh            *)
(* lastCallTime.                                                              *)
LEMMA LoadPluginKeeps ==
    ASSUME TypeOK, LibraryInv, "dlopen" \notin Env, LoadPlugin, stopped' = stopped,
           taken' = taken
    PROVE  /\ LibraryInv'
           /\ entry' \in States /\ recent'[entry'] /\ mapped' >= 1
           /\ Unloading' = Unloading
           /\ entry' \in States \cup {NoState} /\ mapped' \in Nat /\ plugins' \in BOOLEAN
           /\ pluginHasInit' \in [States -> BOOLEAN] /\ recent' \in [States -> BOOLEAN]
           /\ pluginHandles' \in [States -> BOOLEAN]
           /\ task' \in [Tasks -> [pc : {"none", "head", "waiting", "woken", "pinned"},
                                   state : States \cup {NoState}]]
  <1> USE LoaderAssumption
  <1>1. CASE /\ HasInit
             /\ recent' = [recent EXCEPT ![entry] = TRUE]
             /\ UNCHANGED <<entry, pluginHasInit, pluginHandles, task, mapped, plugins>>
    <2>1. entry \in States
      BY <1>1 DEF HasInit, TypeOK
    <2>2. LibraryInv'
      BY <1>1 DEF LibraryInv, EntryIsOpen, TasksMatch, GoesOn, Leaked, EntryIsLoaded,
                  LoadedIsRegistered, LoadedIsWatched, HasInit
    <2>3. QED
      BY <1>1, <2>1, <2>2 DEF TypeOK, LibraryInv, EntryIsOpen, Unloading
  <1>2. ASSUME NEW s \in States, NEW t \in Tasks,
               ~HasInit, task[t] = Idle,
               s = entry \/ (entry = NoState /\ Free(s)),
               entry' = s,
               recent' = [recent EXCEPT ![s] = TRUE],
               pluginHandles' = [pluginHandles EXCEPT ![s] = TRUE],
               mapped' = mapped + 1,
               plugins' = (plugins \/ mapped = 0),
               pluginHasInit' = [pluginHasInit EXCEPT ![s] = TRUE],
               task' = [task EXCEPT ![t] = [pc |-> "head", state |-> s]]
        PROVE  /\ LibraryInv'
               /\ entry' \in States /\ recent'[entry'] /\ mapped' >= 1
               /\ Unloading' = Unloading
               /\ entry' \in States \cup {NoState} /\ mapped' \in Nat /\ plugins' \in BOOLEAN
               /\ pluginHasInit' \in [States -> BOOLEAN] /\ recent' \in [States -> BOOLEAN]
               /\ pluginHandles' \in [States -> BOOLEAN]
               /\ task' \in [Tasks -> [pc : {"none", "head", "waiting", "woken", "pinned"},
                                       state : States \cup {NoState}]]
    <2>1. /\ entry' \in States \cup {NoState} /\ mapped' \in Nat /\ plugins' \in BOOLEAN
          /\ pluginHasInit' \in [States -> BOOLEAN] /\ recent' \in [States -> BOOLEAN]
          /\ pluginHandles' \in [States -> BOOLEAN]
          /\ task' \in [Tasks -> [pc : {"none", "head", "waiting", "woken", "pinned"},
                                  state : States \cup {NoState}]]
      BY <1>2 DEF TypeOK
    <2>2. entry' \in States /\ recent'[entry'] /\ mapped' >= 1
      BY <1>2 DEF TypeOK
    <2>3. Unloading' = Unloading
      BY <1>2 DEF TypeOK, Unloading, Idle
    <2>4. EntryIsOpen'
      BY <1>2 DEF TypeOK, LibraryInv, EntryIsOpen
    <2>5. Leaked => Leaked'
      BY <1>2 DEF TypeOK, Leaked
    <2>6. s = entry => Leaked'
      BY <1>2 DEF TypeOK, Leaked, LibraryInv, EntryIsOpen
    <2>7. TasksMatch'
      <3>1. CASE s = entry
        BY <3>1, <2>6 DEF TasksMatch
      <3>2. CASE entry = NoState /\ Free(s)
        <4>1. \A o \in Tasks \ {t} : task[o].state # s /\ task'[o] = task[o]
          BY <1>2, <3>2 DEF Free, TypeOK
        <4>2. task'[t].state = s
          BY <1>2 DEF TypeOK
        <4>3. ASSUME NEW o \in Tasks, GoesOn(o)', task'[o].state # entry'
              PROVE  Leaked'
          <5>1. o # t /\ task'[o] = task[o] /\ task[o].state # s
            BY <1>2, <4>1, <4>2, <4>3
          <5>2. task[o].state \in States \cup {NoState} /\ task[o].pc # "none"
            BY <4>3, <5>1 DEF TypeOK, GoesOn
          <5>3. task[o].state # NoState
            BY <5>2 DEF LibraryInv, EntryIsOpen
          <5>4. GoesOn(o)
            BY <1>2, <4>3, <5>1, <5>2, <5>3 DEF GoesOn, TypeOK
          <5>5. QED
            BY <2>5, <3>2, <5>3, <5>4 DEF LibraryInv, TasksMatch
        <4>4. QED
          BY <1>2, <4>1, <4>2, <4>3 DEF TasksMatch
      <3>3. QED
        BY <1>2, <3>1, <3>2
    <2>8. EntryIsLoaded'
      BY <1>2 DEF TypeOK, EntryIsLoaded
    <2>9. LoadedIsRegistered'
      <3>1. CASE stopped
        BY <3>1 DEF LoadedIsRegistered
      <3>2. CASE ~stopped
        <4>1. mapped = 0 /\ ~taken
          BY <1>2, <3>2 DEF TypeOK, LibraryInv, EntryIsLoaded, HasInit
        <4>2. plugins'
          BY <1>2, <4>1, Zenon
        <4>3. mapped' = 1
          BY <1>2, <4>1
        <4>4. QED
          BY <4>1, <4>2, <4>3 DEF LoadedIsRegistered
      <3>3. QED
        BY <3>1, <3>2
    <2>10. LoadedIsWatched'
      BY <1>2 DEF TypeOK, LoadedIsWatched
    <2>11. QED
      BY <2>1, <2>2, <2>3, <2>4, <2>7, <2>8, <2>9, <2>10 DEF LibraryInv
  <1>3. QED
    BY <1>1, <1>2, LoadPluginCases

-----------------------------------------------------------------------------
(* The steps. *)

(* What Goto does to the callers. *)
LEMMA GotoType ==
    ASSUME TypeOK, NEW c \in Callers,
           NEW place \in {"out", "found", "pinned", "handling", "leaving", "locked", "missed"},
           Goto(c, place)
    PROVE  /\ pc' \in [Callers -> {"out", "found", "pinned", "handling", "leaving", "locked", "missed"}]
           /\ \A o \in Callers : pc'[o] = IF o = c THEN place ELSE pc[o]
  BY DEF TypeOK, Goto

(* The plugin is found here or in another library, or missed. *)
LEMMA FindPlaces ==
    ASSUME TypeOK, NEW c \in Callers, NEW place \in {"found", "locked"}, Find(c, place)
    PROVE  /\ Goto(c, place) \/ Goto(c, "missed")
           /\ elsewhere' \in {elsewhere, elsewhere \cup {c}}
           /\ elsewhere' \subseteq Callers
  BY DEF Find, TypeOK

(* The steps that load the library. *)
LEMMA LoadStep ==
    ASSUME LoaderInv, "dlopen" \notin Env, NEW c \in Callers,
           Lookup(c) \/ Execute(c) \/ BeginLocked(c)
    PROVE  LoaderInv'
  <1> USE LoaderAssumption
  <1> DEFINE Places == {"out", "found", "pinned", "handling", "leaving", "locked", "missed"}
  <1>1. /\ LoadPlugin
        /\ UNCHANGED <<persist, dangling, exposed, stopped, taken>>
        /\ TypeOK /\ LibraryInv
    BY DEF Lookup, Execute, BeginLocked, LoaderInv, LibraryInv
  <1>2. /\ LibraryInv'
        /\ entry' \in States /\ recent'[entry'] /\ mapped' >= 1 /\ mapped' \in Nat
        /\ Unloading' = Unloading
    BY <1>1, LoadPluginKeeps
  <1>3. PICK place \in Places :
          /\ \A o \in Callers : pc'[o] = IF o = c THEN place ELSE pc[o]
          /\ pc' \in [Callers -> Places]
          /\ elsewhere' \in {elsewhere, elsewhere \cup {c}}
          /\ \/ pc[c] = "out" /\ mutexLock = NoCaller /\ place \in {"found", "missed"} /\ mutexLock' = mutexLock
             \/ pc[c] = "out" /\ mutexLock = NoCaller /\ place = "locked" /\ mutexLock' = c
             \/ /\ pc[c] = "pinned" /\ place \in {"handling", "leaving"}
                /\ UNCHANGED <<mutexLock, elsewhere>>
    <2>1. CASE Lookup(c)
      <3>1. PICK place \in {"found", "missed"} : Goto(c, place)
        BY <1>1, <2>1, FindPlaces DEF Lookup
      <3>2. QED
        BY <1>1, <2>1, <3>1, GotoType, FindPlaces DEF Lookup
    <2>2. CASE Execute(c)
      <3>1. PICK found \in IF c \in elsewhere THEN BOOLEAN ELSE {plugins'} :
               Goto(c, IF found THEN "handling" ELSE "leaving")
        BY <2>2 DEF Execute
      <3>2. PICK place \in {"handling", "leaving"} : Goto(c, place)
        BY <3>1
      <3>3. QED
        BY <1>1, <2>2, <3>2, GotoType DEF Execute
    <2>3. CASE BeginLocked(c)
      <3>1. PICK place \in {"locked", "missed"} : Goto(c, place)
        BY <1>1, <2>3, FindPlaces DEF BeginLocked
      <3>2. \A o \in Callers : pc'[o] = IF o = c THEN place ELSE pc[o]
        BY <1>1, <3>1, GotoType
      <3>3. mutexLock' = IF place = "locked" THEN c ELSE mutexLock
        BY <2>3, <3>1, <3>2 DEF BeginLocked
      <3>4. QED
        BY <1>1, <2>3, <3>1, <3>2, <3>3, GotoType, FindPlaces DEF BeginLocked
    <2>4. QED
      BY <2>1, <2>2, <2>3
  <1>4. TypeOK'
    <2>1. mutexLock' \in Callers \cup {NoCaller} /\ elsewhere' \subseteq Callers
      BY <1>1, <1>3 DEF TypeOK
    <2>2. QED
      BY <1>1, <1>3, <2>1, LoadPluginKeeps DEF TypeOK
  <1>5. LocksExclude'
    <2>1. Pinning' \subseteq Pinning
      BY <1>3 DEF Pinning
    <2>2. ASSUME NEW o \in Callers, pc'[o] = "locked"
          PROVE  mutexLock' = o
      BY <1>3, <2>2 DEF LoaderInv, LocksExclude
    <2>3. QED
      BY <1>2, <2>1, <2>2 DEF LoaderInv, LocksExclude
  <1>6. FoundIsRecent'
    <2>1. ASSUME NEW o \in Callers, o \in dangling'
          PROVE  o \in HaveAPlugin' /\ (pc'[o] = "found" => o \in exposed')
      <3>1. o \in HaveAPlugin /\ (pc[o] = "found" => o \in exposed)
        BY <1>1, <2>1 DEF LoaderInv, FoundIsRecent
      <3>2. o \in Callers \ elsewhere /\ pc[o] \in {"found", "pinned", "handling", "leaving"}
        BY <3>1 DEF HaveAPlugin
      <3>3. CASE o = c
        <4>1. pc'[o] \in {"handling", "leaving"} /\ pc[o] = "pinned"
          BY <1>3, <3>2, <3>3
        <4>2. elsewhere' = elsewhere
          BY <1>3, <3>3, <4>1
        <4>3. QED
          BY <3>2, <4>1, <4>2 DEF HaveAPlugin
      <3>4. CASE o # c
        <4>1. pc'[o] = pc[o] /\ o \notin elsewhere'
          BY <1>3, <3>2, <3>4
        <4>2. QED
          BY <1>1, <3>1, <3>2, <4>1 DEF HaveAPlugin
      <3>5. QED
        BY <3>3, <3>4
    <2>2. QED
      BY <1>2, <2>1 DEF FoundIsRecent
  <1>7. HandlersRunLoaded'
    BY <1>1, <1>2, <1>3 DEF LoaderInv, HandlersRunLoaded
  <1>8. QED
    BY <1>2, <1>4, <1>5, <1>6, <1>7 DEF LoaderInv, LibraryInv

(* The other steps of a call leave the library alone. *)
LEMMA CallKeeps ==
    ASSUME LoaderInv, NEW c \in Callers,
           Pin(c) \/ Unpin(c) \/ Return(c) \/ EndLocked(c)
    PROVE  LoaderInv'
  <1> USE LoaderAssumption
  <1> DEFINE Places == {"out", "found", "pinned", "handling", "leaving", "locked", "missed"}
  <1>1. /\ UNCHANGED <<mapped, plugins, taken, loads, stopped>>
        /\ persist' \in BOOLEAN
        /\ TypeOK
    BY DEF Pin, Unpin, Return, EndLocked, LoaderInv, TypeOK, library
  <1>2. PICK place \in Places :
          /\ \A o \in Callers : pc'[o] = IF o = c THEN place ELSE pc[o]
          /\ pc' \in [Callers -> Places]
          /\ \/ /\ pc[c] = "found" /\ place = "pinned" /\ Unloading = {}
                /\ UNCHANGED <<mutexLock, elsewhere, dangling, exposed>>
             \/ /\ pc[c] = "handling" /\ place = "leaving"
                /\ UNCHANGED <<mutexLock, elsewhere, dangling, exposed>>
             \/ /\ pc[c] \in {"leaving", "missed"} /\ place = "out" /\ elsewhere' = elsewhere \ {c}
                /\ dangling' = dangling \ {c} /\ exposed' = exposed \ {c} /\ mutexLock' = mutexLock
             \/ /\ pc[c] = "locked" /\ place = "out" /\ elsewhere' = elsewhere \ {c}
                /\ mutexLock' = NoCaller /\ UNCHANGED <<dangling, exposed>>
    <2>1. CASE Pin(c)
      <3>1. Goto(c, "pinned")
        BY <2>1 DEF Pin
      <3>2. QED
        BY <1>1, <2>1, <3>1, GotoType DEF Pin
    <2>2. CASE Unpin(c)
      <3>1. Goto(c, "leaving")
        BY <2>2 DEF Unpin
      <3>2. QED
        BY <1>1, <2>2, <3>1, GotoType DEF Unpin
    <2>3. CASE Return(c)
      <3>1. Goto(c, "out")
        BY <2>3 DEF Return
      <3>2. QED
        BY <1>1, <2>3, <3>1, GotoType DEF Return
    <2>4. CASE EndLocked(c)
      <3>1. Goto(c, "out")
        BY <2>4 DEF EndLocked
      <3>2. QED
        BY <1>1, <2>4, <3>1, GotoType DEF EndLocked
    <2>5. QED
      BY <2>1, <2>2, <2>3, <2>4
  <1>3. TypeOK'
    BY <1>1, <1>2 DEF TypeOK, loads
  <1>4. LibraryInv'
    BY <1>1 DEF LoaderInv, LibraryInv, loads, EntryIsOpen, TasksMatch, GoesOn, Leaked,
                EntryIsLoaded, LoadedIsRegistered, LoadedIsWatched, HasInit
  <1>5. LocksExclude'
    <2>1. Unloading' = Unloading
      BY <1>1 DEF loads, Unloading
    <2>2. Unloading' # {} => Pinning' = {}
      <3>1. Unloading # {} => Pinning' \subseteq Pinning
        BY <1>2 DEF Pinning
      <3>2. QED
        BY <2>1, <3>1 DEF LoaderInv, LocksExclude
    <2>3. ASSUME NEW o \in Callers, pc'[o] = "locked"
          PROVE  mutexLock' = o
      BY <1>2, <2>3 DEF LoaderInv, LocksExclude
    <2>4. QED
      BY <2>2, <2>3 DEF LocksExclude
  <1>6. FoundIsRecent'
    <2>1. ASSUME NEW o \in Callers
          PROVE  /\ pc'[o] = "found" => pc[o] = "found" /\ o # c
                 /\ o # c => (o \in exposed' <=> o \in exposed)
                 /\ pc'[o] = "pinned" => /\ pc[o] \in {"found", "pinned"}
                                         /\ o \in exposed' <=> o \in exposed
                 /\ o \in dangling' => o \in dangling /\ o \in HaveAPlugin'
      BY <1>1, <1>2 DEF LoaderInv, FoundIsRecent, HaveAPlugin
    <2>2. Leaked' = Leaked /\ entry' = entry /\ recent' = recent
      BY <1>1 DEF loads, Leaked
    <2>3. QED
      BY <2>1, <2>2 DEF LoaderInv, FoundIsRecent
  <1>7. HandlersRunLoaded'
    BY <1>1, <1>2 DEF LoaderInv, HandlersRunLoaded, FoundIsRecent
  <1>8. QED
    BY <1>3, <1>4, <1>5, <1>6, <1>7 DEF LoaderInv, LibraryInv

(* What TaskGoto does to the tasks. *)
LEMMA TaskGotoType ==
    ASSUME TypeOK, NEW t \in Tasks, task[t].pc # "none",
           NEW place \in {"none", "head", "waiting", "woken", "pinned"}, TaskGoto(t, place)
    PROVE  /\ task' \in [Tasks -> [pc : {"none", "head", "waiting", "woken", "pinned"},
                                   state : States \cup {NoState}]]
           /\ task'[t].pc = place /\ task'[t].state = task[t].state
           /\ \A o \in Tasks \ {t} : task'[o] = task[o]
  BY DEF TypeOK, TaskGoto

(* A task waits, wakes up, takes the locks and finds nothing to do, or ends.  *)
LEMMA TaskKeeps ==
    ASSUME LoaderInv, NEW t \in Tasks,
           Head(t) \/ Wake(t) \/ TaskPin(t) \/ Keep(t)
    PROVE  LoaderInv'
  <1> USE LoaderAssumption
  <1> DEFINE Kinds == {"none", "head", "waiting", "woken", "pinned"}
  <1>1. /\ UNCHANGED <<library, entry, pluginHasInit, recent, pluginHandles, calls, stopped>>
        /\ TypeOK /\ task[t].pc # "none" /\ task[t].state \in States
    BY DEF Head, Wake, TaskPin, Keep, LoaderInv, TypeOK, EntryIsOpen
  <1>2. /\ task' \in [Tasks -> [pc : Kinds, state : States \cup {NoState}]]
        /\ \A o \in Tasks \ {t} : task'[o] = task[o]
        /\ \/ task' = [task EXCEPT ![t] = Idle] /\ ~pluginHasInit[task[t].state]
           \/ /\ task'[t].state = task[t].state /\ task'[t].pc # "none"
              /\ GoesOn(t)' => GoesOn(t)
              /\ task'[t].pc = "pinned" => Pinning = {}
    <2>1. CASE Head(t)
      <3>1. CASE pluginHasInit[task[t].state]
        <4>1. TaskGoto(t, "waiting")
          BY <2>1, <3>1 DEF Head
        <4>2. QED
          BY <1>1, <2>1, <3>1, <4>1, TaskGotoType DEF Head, GoesOn
      <3>2. CASE ~pluginHasInit[task[t].state]
        BY <1>1, <2>1, <3>2 DEF Head, Idle, TypeOK
      <3>3. QED
        BY <3>1, <3>2
    <2>2. CASE Wake(t)
      BY <1>1, <2>2, TaskGotoType DEF Wake, GoesOn
    <2>3. CASE TaskPin(t)
      BY <1>1, <2>3, TaskGotoType DEF TaskPin, GoesOn
    <2>4. CASE Keep(t)
      BY <1>1, <2>4, TaskGotoType DEF Keep, GoesOn
    <2>5. QED
      BY <2>1, <2>2, <2>3, <2>4
  <1>3. TypeOK'
    BY <1>1, <1>2 DEF TypeOK, library, calls
  <1>4. Leaked' = Leaked /\ HasInit' = HasInit /\ Pinning' = Pinning
    BY <1>1 DEF library, calls, Leaked, HasInit, Pinning
  <1>5. EntryIsOpen'
    BY <1>1, <1>2 DEF library, LoaderInv, EntryIsOpen, Idle, TypeOK
  <1>6. LocksExclude'
    <2>1. Unloading' # {} => Pinning = {}
      <3>1. ASSUME NEW o \in Tasks, task'[o].pc = "pinned"
            PROVE  Pinning = {}
        BY <1>1, <1>2, <3>1 DEF LoaderInv, LocksExclude, Unloading, Idle, TypeOK
      <3>2. QED
        BY <3>1 DEF Unloading
    <2>2. QED
      BY <1>1, <1>4, <2>1 DEF LoaderInv, LocksExclude, calls
  <1>7. TasksMatch'
    <2>1. ASSUME NEW o \in Tasks, GoesOn(o)'
          PROVE  GoesOn(o) /\ task'[o].state = task[o].state
      BY <1>1, <1>2, <2>1 DEF GoesOn, Idle, TypeOK
    <2>2. ASSUME NEW o \in Tasks
          PROVE  task'[o].state \in {task[o].state, NoState}
      BY <1>1, <1>2, <2>2 DEF Idle, TypeOK
    <2>3. QED
      BY <1>1, <1>4, <2>1, <2>2 DEF LoaderInv, TasksMatch
  <1>8. LoadedIsWatched'
    <2>1. ASSUME NEW o \in Tasks, task[o].state = entry, HasInit
          PROVE  task'[o].state = task[o].state
      BY <1>1, <1>2, <2>1 DEF HasInit
    <2>2. QED
      BY <1>1, <1>4, <2>1 DEF LoaderInv, LoadedIsWatched
  <1>9. FoundIsRecent' /\ EntryIsLoaded' /\ LoadedIsRegistered' /\ HandlersRunLoaded'
    BY <1>1, <1>4 DEF LoaderInv, FoundIsRecent, EntryIsLoaded, LoadedIsRegistered,
                      HandlersRunLoaded, HaveAPlugin, library, calls
  <1>10. QED
    BY <1>3, <1>5, <1>6, <1>7, <1>8, <1>9 DEF LoaderInv

(* The step that closes the library. *)
LEMMA UnloadKeeps ==
    ASSUME LoaderInv, NEW t \in Tasks, Unload(t)
    PROVE  LoaderInv'
  <1> USE LoaderAssumption
  <1> DEFINE x == task[t].state
  <1>1. /\ TypeOK /\ task[t].pc = "pinned" /\ x \in States /\ GoesOn(t)
        /\ mutexLock = NoCaller /\ ~recent[x]
        /\ plugins' = FALSE /\ taken' = FALSE
        /\ pluginHasInit' = [pluginHasInit EXCEPT ![x] = FALSE]
        /\ UNCHANGED <<persist, recent, pluginHandles, mutexLock, pc, elsewhere, exposed, stopped>>
    BY DEF Unload, UnloadPlugin, LoaderInv, TypeOK, EntryIsOpen, GoesOn
  <1>2. /\ task' \in [Tasks -> [pc : {"none", "head", "waiting", "woken", "pinned"},
                                state : States \cup {NoState}]]
        /\ task'[t].pc = "head" /\ task'[t].state = x
        /\ \A o \in Tasks \ {t} : task'[o] = task[o]
    BY <1>1, TaskGotoType DEF Unload
  <1>3. /\ entry = NoState => UNCHANGED <<mapped, entry, dangling>>
        /\ entry # NoState => /\ mapped' = mapped - 1 /\ entry' = NoState
                              /\ dangling' = IF mapped' = 0 THEN dangling \cup HaveAPlugin ELSE dangling
    BY <1>1 DEF Unload, UnloadPlugin, HasHandle, LoaderInv, EntryIsOpen
  <1>4. /\ mapped \in Nat /\ (entry # NoState => mapped >= 1)
        /\ entry' = NoState /\ (x # entry => Leaked)
    BY <1>1, <1>3 DEF LoaderInv, TypeOK, EntryIsOpen, TasksMatch
  <1>5. mapped' \in Nat /\ (Leaked <=> Leaked')
    BY <1>3, <1>4 DEF Leaked
  <1>6. Unloading # {} /\ Pinning = {} /\ \A c \in Callers : pc[c] # "locked"
    <2>1. t \in Unloading
      BY <1>1 DEF Unloading
    <2>2. QED
      BY <1>1, <2>1 DEF LoaderInv, LocksExclude
  <1>7. TypeOK'
    <2>1. dangling' \subseteq Callers
      BY <1>1, <1>3 DEF TypeOK, HaveAPlugin
    <2>2. QED
      BY <1>1, <1>2, <1>4, <1>5, <2>1 DEF TypeOK
  <1>8. EntryIsOpen'
    BY <1>1, <1>2, <1>4 DEF LoaderInv, EntryIsOpen
  <1>9. LocksExclude'
    BY <1>1, <1>6 DEF LocksExclude, Pinning
  <1>10. TasksMatch'
    <2>1. ASSUME NEW o \in Tasks, GoesOn(o)', ~Leaked
          PROVE  FALSE
      <3>1. o # t
        BY <1>1, <1>2, <2>1 DEF GoesOn, TypeOK
      <3>2. task'[o] = task[o] /\ GoesOn(o)
        BY <1>1, <1>2, <2>1, <3>1 DEF GoesOn, TypeOK, LoaderInv, EntryIsOpen
      <3>3. task[o].state = entry /\ x = entry
        BY <1>4, <2>1, <3>2 DEF LoaderInv, TasksMatch
      <3>4. QED
        BY <1>1, <2>1, <3>1, <3>3 DEF LoaderInv, TasksMatch
    <2>2. QED
      BY <1>4, <1>5, <2>1 DEF TasksMatch
  <1>11. ASSUME NEW c \in Callers, pc[c] = "found", c \notin exposed
         PROVE  Leaked
    BY <1>1, <1>4, <1>11 DEF LoaderInv, FoundIsRecent
  <1>12. Leaked => dangling' = dangling
    BY <1>3, <1>4 DEF Leaked
  <1>13. FoundIsRecent'
    <2>1. ASSUME NEW c \in Callers, c \in dangling'
          PROVE  c \in HaveAPlugin' /\ (pc[c] = "found" => c \in exposed)
      <3>1. c \in HaveAPlugin
        BY <1>3, <2>1 DEF LoaderInv, FoundIsRecent
      <3>2. pc[c] = "found" => c \in exposed
        BY <1>11, <1>12, <2>1 DEF LoaderInv, FoundIsRecent
      <3>3. QED
        BY <1>1, <3>1, <3>2 DEF HaveAPlugin
    <2>2. QED
      BY <1>1, <1>5, <1>6, <1>11, <2>1 DEF FoundIsRecent, Pinning
  <1>14. LoadedIsWatched'
    BY <1>1, <1>4 DEF LoadedIsWatched, HasInit
  <1>15. EntryIsLoaded' /\ LoadedIsRegistered'
    <2>1. CASE stopped
      BY <1>1, <2>1 DEF EntryIsLoaded, LoadedIsRegistered
    <2>2. CASE ~stopped
      <3>1. entry = NoState => mapped = 0
        BY <2>2 DEF LoaderInv, EntryIsLoaded
      <3>2. entry # NoState => mapped = 1
        BY <1>4, <2>2 DEF LoaderInv, LoadedIsRegistered
      <3>3. mapped' = 0
        BY <1>3, <3>1, <3>2
      <3>4. QED
        BY <1>1, <1>4, <3>3 DEF EntryIsLoaded, LoadedIsRegistered
    <2>3. QED
      BY <2>1, <2>2
  <1>16. HandlersRunLoaded'
    <2>1. \A c \in Callers : pc'[c] \notin {"pinned", "handling", "locked"}
      BY <1>1, <1>6 DEF Pinning
    <2>2. QED
      BY <2>1 DEF HandlersRunLoaded
  <1>17. QED
    BY <1>7, <1>8, <1>9, <1>10, <1>13, <1>14, <1>15, <1>16 DEF LoaderInv

(* Another extra library is unloaded. *)
LEMMA UnloadOtherKeeps ==
    ASSUME LoaderInv, UnloadOther
    PROVE  LoaderInv'
  <1> USE LoaderAssumption
  <1>1. /\ plugins /\ ~plugins' /\ plugins' \in BOOLEAN /\ taken' /\ taken' \in BOOLEAN
        /\ UNCHANGED <<mapped, persist, loads, calls, stopped>>
    BY DEF UnloadOther
  <1>2. TypeOK'
    BY <1>1 DEF LoaderInv, TypeOK, loads, calls
  <1>3. EntryIsOpen' /\ LocksExclude' /\ TasksMatch' /\ LoadedIsWatched'
    BY <1>1 DEF LoaderInv, EntryIsOpen, LocksExclude, TasksMatch, GoesOn, Leaked,
                LoadedIsWatched, HasInit, Pinning, Unloading, loads, calls
  <1>4. FoundIsRecent' /\ HandlersRunLoaded'
    BY <1>1 DEF LoaderInv, FoundIsRecent, Leaked, HaveAPlugin, HandlersRunLoaded, loads, calls
  <1>5. EntryIsLoaded' /\ LoadedIsRegistered'
    <2>1. CASE stopped
      BY <1>1, <2>1 DEF EntryIsLoaded, LoadedIsRegistered
    <2>2. CASE ~stopped
      <3>1. mapped = 1 /\ entry # NoState /\ pluginHasInit[entry]
        BY <1>1, <2>2 DEF LoaderInv, EntryIsLoaded, LoadedIsRegistered
      <3>2. QED
        BY <1>1, <3>1 DEF EntryIsLoaded, LoadedIsRegistered, loads
    <2>3. QED
      BY <2>1, <2>2
  <1>6. QED
    BY <1>2, <1>3, <1>4, <1>5 DEF LoaderInv

(* Time and OnStop. *)
LEMMA OutsideKeeps ==
    ASSUME LoaderInv, (\E s \in States : Elapse(s)) \/ NotifyUnloadAllPlugin
    PROVE  LoaderInv'
  <1> USE LoaderAssumption
  <1>1. /\ UNCHANGED <<library, entry, pluginHandles, task, mutexLock, pc, elsewhere, dangling>>
        /\ TypeOK
        /\ stopped' \in BOOLEAN /\ (stopped => stopped')
    BY DEF Elapse, NotifyUnloadAllPlugin, LoaderInv, TypeOK
  <1>2. /\ recent' \in [States -> BOOLEAN] /\ pluginHasInit' \in [States -> BOOLEAN]
        /\ \A s \in States : pluginHasInit'[s] => pluginHasInit[s]
        /\ exposed \subseteq exposed' /\ exposed' \subseteq Callers
        /\ ~stopped' => pluginHasInit' = pluginHasInit
        /\ recent' = recent \/ Exposed \subseteq exposed'
    <2>1. ASSUME NEW s \in States, Elapse(s)
          PROVE  /\ recent' \in [States -> BOOLEAN] /\ pluginHasInit' \in [States -> BOOLEAN]
                 /\ \A i \in States : pluginHasInit'[i] => pluginHasInit[i]
                 /\ exposed \subseteq exposed' /\ exposed' \subseteq Callers
                 /\ ~stopped' => pluginHasInit' = pluginHasInit
                 /\ recent' = recent \/ Exposed \subseteq exposed'
      BY <1>1, <2>1 DEF Elapse, TypeOK, Exposed
    <2>2. CASE NotifyUnloadAllPlugin
      <3>1. CASE HasInit
        <4>1. entry \in States
          BY <1>1, <3>1 DEF HasInit, TypeOK
        <4>2. QED
          BY <1>1, <2>2, <3>1, <4>1 DEF NotifyUnloadAllPlugin, TypeOK, Exposed
      <3>2. CASE ~HasInit
        BY <1>1, <2>2, <3>2 DEF NotifyUnloadAllPlugin, TypeOK
      <3>3. QED
        BY <3>1, <3>2
    <2>3. QED
      BY <2>1, <2>2
  <1>3. TypeOK'
    BY <1>1, <1>2 DEF TypeOK, library
  <1>4. Leaked' = Leaked /\ Pinning' = Pinning /\ Unloading' = Unloading /\ HaveAPlugin' = HaveAPlugin
    BY <1>1 DEF Leaked, Pinning, Unloading, HaveAPlugin, library
  <1>5. EntryIsOpen' /\ LocksExclude'
    BY <1>1, <1>4 DEF LoaderInv, EntryIsOpen, LocksExclude, library
  <1>6. TasksMatch'
    <2>1. ASSUME NEW o \in Tasks, GoesOn(o)'
          PROVE  GoesOn(o)
      BY <1>1, <1>2, <2>1 DEF GoesOn, LoaderInv, TypeOK, EntryIsOpen
    <2>2. QED
      BY <1>1, <1>4, <2>1 DEF LoaderInv, TasksMatch
  <1>7. FoundIsRecent'
    BY <1>1, <1>2, <1>4 DEF LoaderInv, FoundIsRecent, Exposed
  <1>8. HandlersRunLoaded'
    BY <1>1, <1>2 DEF LoaderInv, HandlersRunLoaded, library
  <1>9. EntryIsLoaded' /\ LoadedIsRegistered'
    BY <1>1, <1>2 DEF LoaderInv, EntryIsLoaded, LoadedIsRegistered, library
  <1>10. LoadedIsWatched'
    BY <1>1, <1>2 DEF LoaderInv, TypeOK, LoadedIsWatched, HasInit
  <1>11. QED
    BY <1>3, <1>5, <1>6, <1>7, <1>8, <1>9, <1>10 DEF LoaderInv

-----------------------------------------------------------------------------

(* The invariant of the loader holds as long as dlopen does not fail.         *)
THEOREM LoaderInvariant ==
    ASSUME "dlopen" \notin Env
    PROVE  Spec => []LoaderInv
  <1>1. LoaderInv /\ [Next]_vars => LoaderInv'
    <2>1. ASSUME LoaderInv, Next
          PROVE  LoaderInv'
      <3>1. ASSUME NEW c \in Callers, Lookup(c) \/ BeginLocked(c) \/ CallStep(c)
            PROVE  LoaderInv'
        BY <2>1, <3>1, LoadStep, CallKeeps DEF CallStep
      <3>2. ASSUME NEW t \in Tasks, TaskStep(t)
            PROVE  LoaderInv'
        BY <2>1, <3>2, TaskKeeps, UnloadKeeps DEF TaskStep
      <3>3. QED
        BY <2>1, <3>1, <3>2, UnloadOtherKeeps, OutsideKeeps DEF Next
    <2>2. ASSUME LoaderInv, UNCHANGED vars
          PROVE  LoaderInv'
      BY <2>2 DEF vars, library, loads, calls, LoaderInv, TypeOK, EntryIsOpen, LocksExclude,
                  TasksMatch, GoesOn, Leaked, FoundIsRecent, HaveAPlugin, EntryIsLoaded,
                  LoadedIsRegistered, LoadedIsWatched, HandlersRunLoaded, HasInit, Pinning, Unloading
    <2>3. QED
      BY <2>1, <2>2
  <1>2. QED
    BY <1>1, InitInvariant, PTL DEF Spec

(* A handler runs while its library is mapped, and the plugin a call looked   *)
(* up does not become dangling before its pin, unless the clock or OnStop     *)
(* overtook the call: the refreshed lastCallTime and soPinMutex_ suffice.     *)
THEOREM PluginsStayLoaded ==
    ASSUME "dlopen" \notin Env
    PROVE  Spec => []HandlersRunLoaded
  <1>1. LoaderInv => HandlersRunLoaded
    BY DEF LoaderInv
  <1>2. QED
    BY <1>1, LoaderInvariant, PTL

(* Until OnStop a library is opened once and has its plugins registered while *)
(* it is open, until another extra library that is unloaded takes them.       *)
THEOREM PluginsAreRegistered ==
    ASSUME "dlopen" \notin Env
    PROVE  Spec => []LoadedIsRegistered
  <1>1. LoaderInv => LoadedIsRegistered
    BY DEF LoaderInv
  <1>2. QED
    BY <1>1, LoaderInvariant, PTL

(* A loaded library has a task that can unload it.                            *)
THEOREM LibrariesAreWatched ==
    ASSUME "dlopen" \notin Env
    PROVE  Spec => []LoadedIsWatched
  <1>1. LoaderInv => LoadedIsWatched
    BY DEF LoaderInv
  <1>2. QED
    BY <1>1, LoaderInvariant, PTL

(* What a call looks up the second time, without mutexLock_, is loaded.       *)
THEOREM SecondLookupsFind ==
    ASSUME "dlopen" \notin Env
    PROVE  Spec => []SecondLookupFinds
  <1>1. LoaderInv => SecondLookupFinds
    <2> SUFFICES ASSUME LoaderInv, NEW c \in Callers,
                        pc[c] = "pinned", ~stopped, c \notin exposed
                 PROVE  HasInit
      BY DEF SecondLookupFinds
    <2>1. ~Leaked
      BY DEF LoaderInv, TypeOK, EntryIsLoaded, LoadedIsRegistered, Leaked
    <2>2. entry # NoState
      BY <2>1 DEF LoaderInv, FoundIsRecent
    <2>3. QED
      BY <2>2 DEF LoaderInv, EntryIsLoaded, HasInit
  <1>2. QED
    BY <1>1, LoaderInvariant, PTL
-----------------------------------------------------------------------------
(* The locks, also when dlopen fails. *)

(* Who has mutexLock_ from one step to the next runs a handler under it, and  *)
(* soPinMutex_ is a lock for one task or for callers.                         *)
LockInv ==
    /\ TypeOK
    /\ HasHandle => mapped >= 1
    /\ \A c \in Callers : mutexLock = c <=> pc[c] = "locked"
    /\ Unloading # {} => Pinning = {}
    /\ \A t, u \in Unloading : t = u

LEMMA InitLocks == Init => LockInv
  <1> SUFFICES ASSUME Init PROVE LockInv
    OBVIOUS
  <1>1. TypeOK /\ Unloading = {}
    BY LoaderAssumption DEF Init, TypeOK, Idle, Unloading
  <1>2. QED
    BY <1>1, LoaderAssumption DEF Init, LockInv, HasHandle

(* What LoadPlugin does to the state of the library and to the tasks: a new   *)
(* task has no lock yet.                                                      *)
LEMMA LoadPluginTypes ==
    ASSUME LockInv, LoadPlugin
    PROVE  /\ entry' \in States \cup {NoState} /\ mapped' \in Nat /\ plugins' \in BOOLEAN
           /\ pluginHasInit' \in [States -> BOOLEAN] /\ recent' \in [States -> BOOLEAN]
           /\ pluginHandles' \in [States -> BOOLEAN]
           /\ task' \in [Tasks -> [pc : {"none", "head", "waiting", "woken", "pinned"},
                                   state : States \cup {NoState}]]
           /\ HasHandle' => mapped' >= 1
           /\ Unloading' \subseteq Unloading
  <1> USE LoaderAssumption DEF LockInv
  <1>1. CASE HasInit /\ recent' = [recent EXCEPT ![entry] = TRUE]
             /\ UNCHANGED <<entry, pluginHasInit, pluginHandles, task, mapped, plugins>>
    BY <1>1 DEF TypeOK, HasHandle, Unloading
  <1>2. ASSUME NEW s \in OneOf(IF entry = NoState THEN {s \in States : Free(s)} ELSE {entry}),
               NEW t \in OneOf({t \in Tasks : task[t] = Idle}),
               entry' = s, recent' = [recent EXCEPT ![s] = TRUE], DlopenPlugin(s),
               pluginHasInit' = [pluginHasInit EXCEPT ![s] = TRUE],
               task' = [task EXCEPT ![t] = [pc |-> "head", state |-> s]]
        PROVE  /\ entry' \in States \cup {NoState} /\ mapped' \in Nat /\ plugins' \in BOOLEAN
               /\ pluginHasInit' \in [States -> BOOLEAN] /\ recent' \in [States -> BOOLEAN]
               /\ pluginHandles' \in [States -> BOOLEAN]
               /\ task' \in [Tasks -> [pc : {"none", "head", "waiting", "woken", "pinned"},
                                       state : States \cup {NoState}]]
               /\ HasHandle' => mapped' >= 1
               /\ Unloading' \subseteq Unloading
    <2>1. \A S, x : x \in OneOf(S) => x \in S
      BY DEF OneOf
    <2>2. s \in IF entry = NoState THEN {i \in States : Free(i)} ELSE {entry}
      BY <2>1
    <2>3. s \in States /\ (s = entry \/ entry = NoState)
      BY <2>2 DEF TypeOK
    <2>4. t \in {i \in Tasks : task[i] = Idle}
      BY <2>1
    <2>5. PICK ok \in BOOLEAN :
             /\ pluginHandles' = [pluginHandles EXCEPT ![s] = IF entry = s THEN @ \/ ok ELSE ok]
             /\ mapped' = IF ok THEN mapped + 1 ELSE mapped
             /\ plugins' = (plugins \/ (ok /\ mapped = 0))
      BY <1>2 DEF DlopenPlugin
    <2>6. /\ pluginHandles' \in [States -> BOOLEAN]
          /\ pluginHandles'[s] => ok \/ (entry = s /\ pluginHandles[s])
      BY <2>3, <2>5 DEF TypeOK
    <2>7. mapped' \in Nat /\ mapped' >= mapped /\ (ok => mapped' >= 1) /\ plugins' \in BOOLEAN
      BY <2>5 DEF TypeOK
    <2>8. HasHandle' => mapped' >= 1
      BY <1>2, <2>3, <2>6, <2>7 DEF HasHandle, TypeOK
    <2>9. /\ task' \in [Tasks -> [pc : {"none", "head", "waiting", "woken", "pinned"},
                                  state : States \cup {NoState}]]
          /\ Unloading' \subseteq Unloading
      BY <1>2, <2>3, <2>4 DEF TypeOK, Unloading
    <2>10. QED
      BY <1>2, <2>3, <2>6, <2>7, <2>8, <2>9 DEF TypeOK
  <1>3. QED
    BY <1>1, <1>2 DEF LoadPlugin

(* A caller takes and gives back mutexLock_, and its share of soPinMutex_.    *)
LEMMA CallerLocks ==
    ASSUME LockInv, NEW c \in Callers, Lookup(c) \/ BeginLocked(c) \/ CallStep(c)
    PROVE  LockInv'
  <1> USE LoaderAssumption
  <1> DEFINE Places == {"out", "found", "pinned", "handling", "leaving", "locked", "missed"}
  <1>1. TypeOK
    BY DEF LockInv
  <1>2. /\ entry' \in States \cup {NoState} /\ mapped' \in Nat /\ plugins' \in BOOLEAN
        /\ pluginHasInit' \in [States -> BOOLEAN] /\ recent' \in [States -> BOOLEAN]
        /\ pluginHandles' \in [States -> BOOLEAN]
        /\ task' \in [Tasks -> [pc : {"none", "head", "waiting", "woken", "pinned"},
                                state : States \cup {NoState}]]
        /\ HasHandle' => mapped' >= 1
        /\ Unloading' \subseteq Unloading
    <2>1. CASE Lookup(c) \/ BeginLocked(c) \/ Execute(c)
      BY <2>1, LoadPluginTypes DEF Lookup, BeginLocked, Execute
    <2>2. CASE Pin(c) \/ Unpin(c) \/ Return(c) \/ EndLocked(c)
      BY <1>1, <2>2 DEF LockInv, TypeOK, HasHandle, Unloading, Pin, Unpin, Return, EndLocked,
                        library, loads
    <2>3. QED
      BY <2>1, <2>2 DEF CallStep
  <1>3. /\ persist' \in BOOLEAN /\ taken' \in BOOLEAN /\ stopped' \in BOOLEAN
        /\ dangling' \subseteq Callers /\ exposed' \subseteq Callers
    BY <1>1 DEF TypeOK, library, Lookup, BeginLocked, CallStep, Execute, Pin, Unpin, Return, EndLocked
  <1>4. PICK place \in Places :
          /\ \A o \in Callers : pc'[o] = IF o = c THEN place ELSE pc[o]
          /\ pc' \in [Callers -> Places]
          /\ \/ mutexLock' = mutexLock /\ pc[c] # "locked" /\ place \in {"out", "found", "missed", "leaving"}
             \/ mutexLock' = mutexLock /\ pc[c] = "pinned" /\ place = "handling"
             \/ mutexLock' = mutexLock /\ pc[c] = "found" /\ place = "pinned" /\ Unloading = {}
             \/ mutexLock = NoCaller /\ mutexLock' = c /\ place = "locked"
             \/ mutexLock' = NoCaller /\ pc[c] = "locked" /\ place = "out"
    <2>1. CASE Lookup(c)
      <3>1. PICK place \in {"found", "missed"} : Goto(c, place)
        BY <1>1, <2>1, FindPlaces DEF Lookup
      <3>2. QED
        BY <1>1, <2>1, <3>1, GotoType DEF Lookup
    <2>2. CASE BeginLocked(c)
      <3>1. PICK place \in {"locked", "missed"} : Goto(c, place)
        BY <1>1, <2>2, FindPlaces DEF BeginLocked
      <3>2. \A o \in Callers : pc'[o] = IF o = c THEN place ELSE pc[o]
        BY <1>1, <3>1, GotoType
      <3>3. mutexLock' = IF place = "locked" THEN c ELSE mutexLock
        BY <2>2, <3>1, <3>2 DEF BeginLocked
      <3>4. QED
        BY <1>1, <2>2, <3>1, <3>2, <3>3, GotoType DEF BeginLocked
    <2>3. CASE Execute(c)
      <3>1. PICK found \in IF c \in elsewhere THEN BOOLEAN ELSE {plugins'} :
               Goto(c, IF found THEN "handling" ELSE "leaving")
        BY <2>3 DEF Execute
      <3>2. PICK place \in {"handling", "leaving"} : Goto(c, place)
        BY <3>1
      <3>3. QED
        BY <1>1, <2>3, <3>2, GotoType DEF Execute
    <2>4. CASE Pin(c)
      <3>1. Goto(c, "pinned")
        BY <2>4 DEF Pin
      <3>2. QED
        BY <1>1, <2>4, <3>1, GotoType DEF Pin
    <2>5. CASE Unpin(c)
      <3>1. Goto(c, "leaving")
        BY <2>5 DEF Unpin
      <3>2. QED
        BY <1>1, <2>5, <3>1, GotoType DEF Unpin
    <2>6. CASE Return(c) \/ EndLocked(c)
      <3>1. Goto(c, "out")
        BY <2>6 DEF Return, EndLocked
      <3>2. QED
        BY <1>1, <2>6, <3>1, GotoType DEF Return, EndLocked
    <2>7. QED
      BY <2>1, <2>2, <2>3, <2>4, <2>5, <2>6 DEF CallStep
  <1>5. TypeOK'
    <2>1. mutexLock' \in Callers \cup {NoCaller}
      BY <1>1, <1>4 DEF TypeOK
    <2>2. elsewhere' \subseteq Callers
      BY <1>1, FindPlaces DEF TypeOK, Lookup, BeginLocked, CallStep, Execute, Pin, Unpin, Return, EndLocked
    <2>3. QED
      BY <1>2, <1>3, <1>4, <2>1, <2>2 DEF TypeOK
  <1>6. \A o \in Callers : mutexLock' = o <=> pc'[o] = "locked"
    BY <1>4 DEF LockInv
  <1>7. Unloading' # {} => Pinning' = {}
    <2>1. Unloading # {} => Pinning' \subseteq Pinning
      BY <1>4 DEF Pinning
    <2>2. QED
      BY <1>2, <2>1 DEF LockInv
  <1>8. QED
    BY <1>2, <1>5, <1>6, <1>7 DEF LockInv

(* A task has soPinMutex_ only while it is pinned.                            *)
LEMMA TaskLocks ==
    ASSUME LockInv, NEW t \in Tasks, TaskStep(t)
    PROVE  LockInv'
  <1> USE LoaderAssumption
  <1>1. TypeOK /\ UNCHANGED <<recent, pluginHandles, persist, mutexLock, pc, elsewhere, exposed, stopped>>
    BY DEF LockInv, TaskStep, Head, Wake, TaskPin, Keep, Unload, library, calls
  <1>2. /\ task' \in [Tasks -> [pc : {"none", "head", "waiting", "woken", "pinned"},
                                state : States \cup {NoState}]]
        /\ \A o \in Tasks \ {t} : task'[o] = task[o]
        /\ task'[t].pc = "pinned" => Pinning = {} /\ Unloading = {}
    <2>1. CASE Head(t)
      BY <1>1, <2>1 DEF TypeOK, Head, TaskGoto, Idle
    <2>2. CASE Wake(t) \/ Keep(t) \/ Unload(t)
      BY <1>1, <2>2 DEF TypeOK, Wake, Keep, Unload, TaskGoto
    <2>3. CASE TaskPin(t)
      BY <1>1, <2>3 DEF TypeOK, TaskPin, TaskGoto
    <2>4. QED
      BY <2>1, <2>2, <2>3 DEF TaskStep
  <1>3. /\ entry' \in States \cup {NoState} /\ mapped' \in Nat /\ plugins' \in BOOLEAN
        /\ taken' \in BOOLEAN /\ pluginHasInit' \in [States -> BOOLEAN] /\ dangling' \subseteq Callers
        /\ HasHandle' => mapped' >= 1
    <2>1. CASE Unload(t)
      <3>1. UnloadPlugin /\ pluginHasInit' \in [States -> BOOLEAN]
        BY <1>1, <2>1 DEF Unload, TypeOK
      <3>2. CASE HasHandle
        <4>1. plugins' = FALSE /\ taken' = FALSE /\ mapped' = mapped - 1 /\ entry' = NoState
          BY <3>1, <3>2 DEF UnloadPlugin
        <4>2. dangling' = IF mapped' = 0 THEN dangling \cup HaveAPlugin ELSE dangling
          BY <3>1, <3>2 DEF UnloadPlugin
        <4>3. dangling' \subseteq Callers
          BY <1>1, <4>2 DEF TypeOK, HaveAPlugin
        <4>4. mapped' \in Nat
          BY <3>2, <4>1 DEF LockInv, TypeOK
        <4>5. ~HasHandle'
          BY <4>1 DEF HasHandle
        <4>6. QED
          BY <3>1, <4>1, <4>3, <4>4, <4>5
      <3>3. CASE ~HasHandle
        <4>1. plugins' = FALSE /\ taken' = FALSE /\ UNCHANGED <<mapped, entry, dangling, pluginHandles>>
          BY <1>1, <3>1, <3>3 DEF UnloadPlugin
        <4>2. HasHandle' = HasHandle
          BY <4>1 DEF HasHandle
        <4>3. QED
          BY <1>1, <3>1, <3>3, <4>1, <4>2 DEF TypeOK
      <3>4. QED
        BY <3>2, <3>3
    <2>2. CASE Head(t) \/ Wake(t) \/ TaskPin(t) \/ Keep(t)
      BY <1>1, <2>2 DEF LockInv, TypeOK, Head, Wake, TaskPin, Keep, library, calls, HasHandle
    <2>3. QED
      BY <2>1, <2>2 DEF TaskStep
  <1>4. TypeOK'
    BY <1>1, <1>2, <1>3 DEF TypeOK
  <1>5. /\ Unloading' \subseteq Unloading \cup {t}
        /\ t \in Unloading' => Unloading = {} /\ Pinning = {}
    BY <1>2 DEF Unloading
  <1>6. Pinning' = Pinning
    BY <1>1 DEF Pinning
  <1>7. (Unloading' # {} => Pinning' = {}) /\ \A u, w \in Unloading' : u = w
    BY <1>5, <1>6 DEF LockInv
  <1>8. QED
    BY <1>1, <1>3, <1>4, <1>7 DEF LockInv

LEMMA StepLocks == LockInv /\ [Next]_vars => LockInv'
  <1> SUFFICES ASSUME LockInv, [Next]_vars PROVE LockInv'
    OBVIOUS
  <1>1. CASE \E c \in Callers : Lookup(c) \/ BeginLocked(c) \/ CallStep(c)
    BY <1>1, CallerLocks
  <1>2. CASE \E t \in Tasks : TaskStep(t)
    BY <1>2, TaskLocks
  <1>3. CASE \E s \in States : Elapse(s)
    BY <1>3 DEF Elapse, Exposed, library, LockInv, TypeOK, HasHandle, Unloading, Pinning
  <1>4. CASE NotifyUnloadAllPlugin
    BY <1>4 DEF NotifyUnloadAllPlugin, HasInit, Exposed, library, LockInv, TypeOK, HasHandle, Unloading, Pinning
  <1>5. CASE UnloadOther
    BY <1>5 DEF UnloadOther, loads, calls, LockInv, TypeOK, HasHandle, Unloading, Pinning
  <1>6. CASE UNCHANGED vars
    BY <1>6 DEF vars, library, loads, calls, LockInv, TypeOK, HasHandle, Unloading, Pinning
  <1>7. QED
    BY <1>1, <1>2, <1>3, <1>4, <1>5, <1>6 DEF Next

(* mutexLock_ is held exactly by the caller whose handler runs under it, and  *)
(* soPinMutex_ by callers or by one task, whatever fails and whoever stops.   *)
THEOREM LockInvariant == Spec => []LockInv
  BY InitLocks, StepLocks, PTL DEF Spec

(* The type invariant needs no assumption: no library is closed more often    *)
(* than it was opened.                                                        *)
THEOREM LoaderTypes == Spec => []TypeOK
  <1>1. LockInv => TypeOK
    BY DEF LockInv
  <1>2. QED
    BY <1>1, LockInvariant, PTL

(* A caller waits for another or for tasks, and a task for callers or tasks.  *)
CallerAwaitsCaller(c, d) == pc[c] = "out" /\ mutexLock = d
CallerAwaitsTask(c, t) == pc[c] = "found" /\ t \in Unloading
TaskAwaitsCaller(t, c) ==
    \/ task[t].pc = "woken" /\ c \in Pinning
    \/ task[t].pc = "pinned" /\ mutexLock = c
TaskAwaitsTask(t, u) == task[t].pc = "woken" /\ u \in Unloading

(* A caller that is waited for waits for nobody, and a task that is waited    *)
(* for waits for no task: it waits at most for a caller that waits for        *)
(* nobody.                                                                    *)
WaitsEnd ==
    /\ \A c \in Callers :
           (\E d \in Callers : CallerAwaitsCaller(d, c)) \/ (\E t \in Tasks : TaskAwaitsCaller(t, c)) =>
               /\ \A d \in Callers : ~CallerAwaitsCaller(c, d)
               /\ \A t \in Tasks : ~CallerAwaitsTask(c, t)
    /\ \A t \in Tasks :
           (\E c \in Callers : CallerAwaitsTask(c, t)) \/ (\E u \in Tasks : TaskAwaitsTask(u, t)) =>
               \A u \in Tasks : ~TaskAwaitsTask(t, u)

(* Callers take mutexLock_ and soPinMutex_ one after the other, tasks one     *)
(* inside the other: nobody waits in a circle, the part of CallsReturn that   *)
(* does not rest on fairness.                                                 *)
THEOREM NobodyWaitsForEver == Spec => []WaitsEnd
  <1>1. LockInv => WaitsEnd
    <2> SUFFICES ASSUME LockInv PROVE WaitsEnd
      OBVIOUS
    <2>1. ASSUME NEW c \in Callers,
                 (\E d \in Callers : CallerAwaitsCaller(d, c)) \/ (\E t \in Tasks : TaskAwaitsCaller(t, c))
          PROVE  pc[c] \in {"pinned", "handling", "locked"}
      BY <2>1 DEF LockInv, Pinning, CallerAwaitsCaller, TaskAwaitsCaller
    <2>2. ASSUME NEW t \in Tasks,
                 (\E c \in Callers : CallerAwaitsTask(c, t)) \/ (\E u \in Tasks : TaskAwaitsTask(u, t))
          PROVE  task[t].pc = "pinned"
      BY <2>2 DEF Unloading, CallerAwaitsTask, TaskAwaitsTask
    <2>3. QED
      BY <2>1, <2>2 DEF WaitsEnd, CallerAwaitsCaller, CallerAwaitsTask, TaskAwaitsTask
  <1>2. QED
    BY <1>1, LockInvariant, PTL
=============================================================================
