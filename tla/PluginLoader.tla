---------------------------- MODULE PluginLoader ----------------------------
(* How PluginManager loads a library of plugins when a call needs it and an   *)
(* UnloadPluginTask unloads it three minutes after the last call.  There is   *)
(* one library here.  Libraries share mutexLock_ and soPinMutex_; the extra   *)
(* ones are also loaded together, by the calls of any of them, and unloading  *)
(* one takes the plugins of all out of the map.  What that does to extensions *)
(* and execute strategies is left out.                                        *)
(*                                                                            *)
(* What happens under mutexLock_ is one step, except where the handler of a   *)
(* plugin runs under it.  soPinMutex_ is held shared by the callers in        *)
(* "pinned" and "handling" and exclusively by a task in "pinned".             *)
EXTENDS FiniteSets, Integers

CONSTANTS
    Callers,        \* threads of UpdateDevicePolicy, GetPolicy, RemoveAdminItem ...
    NoCaller,
    Tasks,          \* threads of UnloadPluginTask
    States,         \* SoLoadState objects
    NoState,
    Env             \* what may happen: "dlopen" fails, a handler makes its library
                    \* "persist", the service is told to "stop", the library is an
                    \* "extra" one and there are others, and the "clock": three
                    \* minutes pass, or the system time is set forward, between a
                    \* lookup and the pin

ASSUME LoaderAssumption ==
    /\ NoCaller \notin Callers
    /\ NoState \notin States
    /\ Env \subseteq {"dlopen", "persist", "stop", "extra", "clock"}

VARIABLES
    entry,          \* the library's entry in soLoadStateMap_
    pluginHasInit,  \* SoLoadState.pluginHasInit
    recent,         \* recent[s]: lastCallTime is less than three minutes ago
    pluginHandles,  \* pluginHandles[s]: not null
    task,           \* task[t]: where a thread of UnloadPluginTask is, with its state
    mapped,         \* how often the library is open for the linker
    plugins,        \* pluginsCode_ has the plugins of the library
    persist,        \* a plugin must not be unloaded (GetPluginUnloadFlag), one of the
                    \* library or, for an extra library, of any extra one
    mutexLock,      \* the caller that runs a handler under mutexLock_
    pc,             \* where each caller is
    elsewhere,      \* callers of another library that loads the extra ones
    dangling,       \* callers with a plugin of a library that was unmapped
    stopped,        \* OnStop was called
    exposed,        \* history: callers overtaken by the clock or by OnStop
    taken           \* history: the plugins went with those of another extra library

library == <<mapped, plugins, persist, taken>>
loads == <<entry, pluginHasInit, recent, pluginHandles, task>>
calls == <<mutexLock, pc, elsewhere, dangling, exposed>>
vars == <<library, loads, calls, stopped>>

Idle == [pc |-> "none", state |-> NoState]

TypeOK ==
    /\ entry \in States \cup {NoState}
    /\ pluginHasInit \in [States -> BOOLEAN]
    /\ recent \in [States -> BOOLEAN]
    /\ pluginHandles \in [States -> BOOLEAN]
    /\ task \in [Tasks -> [pc : {"none", "head", "waiting", "woken", "pinned"},
                           state : States \cup {NoState}]]
    /\ mapped \in Nat
    /\ plugins \in BOOLEAN
    /\ persist \in BOOLEAN
    /\ mutexLock \in Callers \cup {NoCaller}
    /\ pc \in [Callers -> {"out", "found", "pinned", "handling", "leaving", "locked", "missed"}]
    /\ elsewhere \subseteq Callers
    /\ dangling \subseteq Callers
    /\ exposed \subseteq Callers
    /\ stopped \in BOOLEAN
    /\ taken \in BOOLEAN

Init ==
    /\ entry = NoState
    /\ pluginHasInit = [s \in States |-> FALSE]
    /\ recent = [s \in States |-> FALSE]
    /\ pluginHandles = [s \in States |-> FALSE]
    /\ task = [t \in Tasks |-> Idle]
    /\ mapped = 0
    /\ plugins = FALSE
    /\ persist = FALSE
    /\ mutexLock = NoCaller
    /\ pc = [c \in Callers |-> "out"]
    /\ elsewhere = {}
    /\ dangling = {}
    /\ exposed = {}
    /\ stopped = FALSE
    /\ taken = FALSE

Goto(c, place) == pc' = [pc EXCEPT ![c] = place]

-----------------------------------------------------------------------------
(* LoadPlugin *)

(* What the library's entry in the map says. *)
HasInit == IF entry = NoState THEN FALSE ELSE pluginHasInit[entry]
HasHandle == IF entry = NoState THEN FALSE ELSE pluginHandles[entry]

(* A SoLoadState nobody refers to any more stands for a new one. *)
Free(s) == s # entry /\ \A t \in Tasks : task[t].state # s

(* Which of them is taken does not matter. *)
OneOf(S) == IF S = {} THEN {} ELSE {CHOOSE x \in S : TRUE}

(* dlopen runs the constructors, which register the plugins (AddPlugin), only *)
(* when the library was not mapped.                                           *)
DlopenPlugin(s) ==
    \E ok \in IF "dlopen" \in Env THEN BOOLEAN ELSE {TRUE} :
        /\ pluginHandles' = [pluginHandles EXCEPT ![s] = IF entry = s THEN @ \/ ok ELSE ok]
        /\ mapped' = IF ok THEN mapped + 1 ELSE mapped
        /\ plugins' = (plugins \/ (ok /\ mapped = 0))

(* A library that is loaded only gets a new lastCallTime, and its task is     *)
(* woken; otherwise it is opened and a new task started, also when dlopen     *)
(* failed.                                                                    *)
LoadPlugin ==
    \/ /\ HasInit
       /\ recent' = [recent EXCEPT ![entry] = TRUE]
       /\ UNCHANGED <<entry, pluginHasInit, pluginHandles, task, mapped, plugins>>
    \/ /\ ~HasInit
       /\ \E s \in OneOf(IF entry = NoState THEN {s \in States : Free(s)} ELSE {entry}),
             t \in OneOf({t \in Tasks : task[t] = Idle}) :
             /\ entry' = s
             /\ recent' = [recent EXCEPT ![s] = TRUE]
             /\ DlopenPlugin(s)
             /\ pluginHasInit' = [pluginHasInit EXCEPT ![s] = TRUE]
             /\ task' = [task EXCEPT ![t] = [pc |-> "head", state |-> s]]

-----------------------------------------------------------------------------
(* UpdateDevicePolicy and GetPolicy *)

Pinning == {c \in Callers : pc[c] \in {"pinned", "handling"}}
Unloading == {t \in Tasks : task[t].pc = "pinned"}

(* The plugin is found, or not, in this library or in another for which       *)
(* LoadExtraPlugin has loaded the extra ones.                                 *)
Find(c, place) ==
    \/ plugins' /\ Goto(c, place) /\ UNCHANGED elsewhere
    \/ "extra" \in Env /\ Goto(c, place) /\ elsewhere' = elsewhere \cup {c}
    \/ (~plugins' \/ "extra" \in Env) /\ Goto(c, "missed") /\ UNCHANGED elsewhere

(* Phase 1: load the library and look the plugin up, under mutexLock_.        *)
Lookup(c) ==
    /\ pc[c] = "out"
    /\ mutexLock = NoCaller
    /\ LoadPlugin
    /\ Find(c, "found")
    /\ UNCHANGED <<persist, mutexLock, dangling, exposed, stopped, taken>>

(* mutant: the library is not pinned *)
PinNothing(c) ==
    /\ pc[c] = "found"
    /\ Goto(c, "pinned")
    /\ UNCHANGED <<library, loads, mutexLock, elsewhere, dangling, exposed, stopped>>

(* Phase 2: pin the libraries. *)
Pin(c) ==
    /\ pc[c] = "found"
    /\ Unloading = {}
    /\ Goto(c, "pinned")
    /\ UNCHANGED <<library, loads, mutexLock, elsewhere, dangling, exposed, stopped>>

(* The execute strategy looks the plugin up again, without mutexLock_, and    *)
(* calls its handler.                                                         *)
Execute(c) ==
    /\ pc[c] = "pinned"
    /\ LoadPlugin
    /\ \E found \in IF c \in elsewhere THEN BOOLEAN ELSE {plugins'} :
          Goto(c, IF found THEN "handling" ELSE "leaving")
    /\ UNCHANGED <<persist, mutexLock, elsewhere, dangling, exposed, stopped, taken>>

(* The handler is over, having perhaps asked for its library to persist; the  *)
(* pin is released ...                                                        *)
Unpin(c) ==
    /\ pc[c] = "handling"
    /\ persist' \in {persist} \cup (IF "persist" \in Env THEN {TRUE} ELSE {})
    /\ Goto(c, "leaving")
    /\ UNCHANGED <<mapped, plugins, loads, mutexLock, elsewhere, dangling, exposed, stopped, taken>>

(* ... before the plugin.  Without a plugin the call returned at once. *)
Return(c) ==
    /\ pc[c] \in {"leaving", "missed"}
    /\ elsewhere' = elsewhere \ {c}
    /\ dangling' = dangling \ {c}
    /\ exposed' = exposed \ {c}
    /\ Goto(c, "out")
    /\ UNCHANGED <<library, loads, mutexLock, stopped>>

(* RemoveAdminItem, CallOnOtherServiceStart, OnInitExecute and the dispatch   *)
(* of events load the library and run handlers under mutexLock_ ...           *)
BeginLocked(c) ==
    /\ pc[c] = "out"
    /\ mutexLock = NoCaller
    /\ LoadPlugin
    /\ Find(c, "locked")
    /\ mutexLock' = IF pc'[c] = "locked" THEN c ELSE NoCaller
    /\ UNCHANGED <<persist, dangling, exposed, stopped, taken>>

(* ... and SetPluginUnloadFlag allows a library to be unloaded again. *)
EndLocked(c) ==
    /\ pc[c] = "locked"
    /\ mutexLock' = NoCaller
    /\ persist' \in {persist, FALSE}
    /\ elsewhere' = elsewhere \ {c}
    /\ Goto(c, "out")
    /\ UNCHANGED <<mapped, plugins, loads, dangling, exposed, stopped, taken>>

-----------------------------------------------------------------------------
(* UnloadPluginTask *)

TaskGoto(t, place) == task' = [task EXCEPT ![t].pc = place]

(* The head of the loop: wait, unless the library is unloaded. *)
Head(t) ==
    /\ task[t].pc = "head"
    /\ IF pluginHasInit[task[t].state] THEN TaskGoto(t, "waiting")
       ELSE task' = [task EXCEPT ![t] = Idle]
    /\ UNCHANGED <<library, entry, pluginHasInit, recent, pluginHandles, calls, stopped>>

(* A call wakes the task or three minutes have passed; neither says which. *)
Wake(t) ==
    /\ task[t].pc = "waiting"
    /\ TaskGoto(t, "woken")
    /\ UNCHANGED <<library, entry, pluginHasInit, recent, pluginHandles, calls, stopped>>

(* soPinMutex_ is taken before mutexLock_. *)
TaskPin(t) ==
    /\ task[t].pc = "woken"
    /\ Pinning = {} /\ Unloading = {}
    /\ TaskGoto(t, "pinned")
    /\ UNCHANGED <<library, entry, pluginHasInit, recent, pluginHandles, calls, stopped>>

(* mutant: the locks are kept while a plugin must persist *)
KeepLocked(t) ==
    /\ task[t].pc = "pinned"
    /\ mutexLock = NoCaller
    /\ recent[task[t].state] \/ persist
    /\ TaskGoto(t, IF recent[task[t].state] THEN "head" ELSE "pinned")
    /\ UNCHANGED <<library, entry, pluginHasInit, recent, pluginHandles, calls, stopped>>

(* mutant: a library that must persist loses its task *)
KeepUnwatched(t) ==
    /\ task[t].pc = "pinned"
    /\ mutexLock = NoCaller
    /\ recent[task[t].state] \/ persist
    /\ IF recent[task[t].state] THEN TaskGoto(t, "head") ELSE task' = [task EXCEPT ![t] = Idle]
    /\ UNCHANGED <<library, entry, pluginHasInit, recent, pluginHandles, calls, stopped>>

(* Called again meanwhile, or a plugin must persist. *)
Keep(t) ==
    /\ task[t].pc = "pinned"
    /\ mutexLock = NoCaller
    /\ recent[task[t].state] \/ persist
    /\ TaskGoto(t, "head")
    /\ UNCHANGED <<library, entry, pluginHasInit, recent, pluginHandles, calls, stopped>>

HaveAPlugin == {c \in Callers : pc[c] \in {"found", "pinned", "handling", "leaving"}} \ elsewhere

(* mutant: the library is not closed *)
UnloadPluginUnclosed ==
    /\ plugins' = FALSE
    /\ entry' = NoState
    /\ taken' = FALSE
    /\ UNCHANGED <<mapped, dangling>>

(* UnloadPlugin, of whatever state the library has now: a library that was    *)
(* never opened keeps its entry.                                              *)
UnloadPlugin ==
    /\ plugins' = FALSE
    /\ taken' = FALSE
    /\ IF HasHandle
       THEN /\ mapped' = mapped - 1
            /\ entry' = NoState
            /\ dangling' = IF mapped' = 0 THEN dangling \cup HaveAPlugin ELSE dangling
       ELSE UNCHANGED <<mapped, entry, dangling>>

Unload(t) ==
    /\ task[t].pc = "pinned"
    /\ mutexLock = NoCaller
    /\ ~recent[task[t].state] /\ ~persist
    /\ UnloadPlugin
    /\ pluginHasInit' = [pluginHasInit EXCEPT ![task[t].state] = FALSE]
    /\ TaskGoto(t, "head")
    /\ UNCHANGED <<persist, recent, pluginHandles, mutexLock, pc, elsewhere, exposed, stopped>>

(* The task of another extra library unloads that one: UnloadPlugin takes the *)
(* plugins of all extra libraries, none of which may have to persist, and     *)
(* closes the one.  They are loaded and called together, so they are called   *)
(* for the last time together; what is still open is not loaded again.        *)
UnloadOther ==
    /\ "extra" \in Env /\ plugins
    /\ Pinning = {} /\ Unloading = {} /\ mutexLock = NoCaller
    /\ entry # NoState => ~recent[entry]
    /\ ~persist
    /\ plugins' = FALSE
    /\ taken' = TRUE
    /\ UNCHANGED <<mapped, persist, loads, calls, stopped>>

-----------------------------------------------------------------------------
(* Time and the end of the service *)

Exposed == {c \in Callers : pc[c] = "found"}

(* Three minutes since the last call.  No caller needs as long from its       *)
(* lookup to its pin, but a handler may.                                      *)
Elapse(s) ==
    /\ recent[s] /\ ~Free(s)
    /\ "clock" \in Env \/ Exposed = {}
    /\ recent' = [recent EXCEPT ![s] = FALSE]
    /\ exposed' = exposed \cup Exposed
    /\ UNCHANGED <<library, entry, pluginHasInit, pluginHandles, task, mutexLock, pc, elsewhere,
                   dangling, stopped>>

(* OnStop, NotifyUnloadAllPlugin: the tasks shall unload at once. *)
NotifyUnloadAllPlugin ==
    /\ "stop" \in Env /\ ~stopped
    /\ mutexLock = NoCaller
    /\ stopped' = TRUE
    /\ IF HasInit
       THEN /\ pluginHasInit' = [pluginHasInit EXCEPT ![entry] = FALSE]
            /\ recent' = [recent EXCEPT ![entry] = FALSE]
            /\ exposed' = exposed \cup Exposed
       ELSE UNCHANGED <<pluginHasInit, recent, exposed>>
    /\ UNCHANGED <<library, entry, pluginHandles, task, mutexLock, pc, elsewhere, dangling>>

-----------------------------------------------------------------------------

CallStep(c) == Pin(c) \/ Execute(c) \/ Unpin(c) \/ Return(c) \/ EndLocked(c)
TaskStep(t) == Head(t) \/ Wake(t) \/ TaskPin(t) \/ Keep(t) \/ Unload(t)

Next ==
    \/ \E c \in Callers : Lookup(c) \/ BeginLocked(c) \/ CallStep(c)
    \/ \E t \in Tasks : TaskStep(t)
    \/ \E s \in States : Elapse(s)
    \/ UnloadOther
    \/ NotifyUnloadAllPlugin

Spec == Init /\ [][Next]_vars

(* Threads run, handlers return, time passes, and who waits for a lock that   *)
(* is free again and again gets it; nobody has to call.                       *)
FairSpec ==
    /\ Spec
    /\ \A c \in Callers : SF_vars(CallStep(c))
    /\ \A t \in Tasks : SF_vars(TaskStep(t))
    /\ \A s \in States : WF_vars(Elapse(s))

-----------------------------------------------------------------------------

(* While a handler runs its library is mapped, and the plugin that was looked *)
(* up before is not left dangling, unless the clock or OnStop overtook the    *)
(* caller between its lookup and its pin: soPinMutex_ and the refreshed       *)
(* lastCallTime protect all others.  It does not say so of a caller that is   *)
(* "leaving": the pin is released before the plugin (declared in              *)
(* plugin_manager.cpp:656 and 647), and after a handler of more than three    *)
(* minutes the library may go in between.                                     *)
HandlersRunLoaded ==
    \A c \in Callers \ elsewhere :
        /\ pc[c] \in {"handling", "locked"} => mapped > 0
        /\ c \in dangling /\ pc[c] \in {"pinned", "handling"} => c \in exposed

(* The second lookup of a call, which no lock protects from other loads,      *)
(* finds the library loaded and only refreshes its lastCallTime, unless       *)
(* OnStop or the clock overtook the call.                                     *)
SecondLookupFinds == \A c \in Callers : pc[c] = "pinned" => HasInit \/ stopped \/ c \in exposed

(* Until OnStop, a library is open once or not at all, and its plugins are    *)
(* registered exactly while it is, unless another extra library that was      *)
(* unloaded took them: constructors register them, so a library opened twice, *)
(* or never closed, would have none.                                          *)
LoadedIsRegistered ==
    ~stopped => /\ mapped <= 1
                /\ plugins <=> mapped = 1 /\ ~taken

(* A library that counts as loaded has a task to unload it.                   *)
LoadedIsWatched == HasInit => \E t \in Tasks : task[t].state = entry

(* Every call returns: soPinMutex_ and mutexLock_ are never waited for in a   *)
(* circle.                                                                    *)
CallsReturn == \A c \in Callers : pc[c] # "out" ~> pc[c] = "out"

(* A library nobody calls any more is unloaded. *)
IdleIsUnloaded ==
    <>[](~stopped /\ ~persist /\ \A c \in Callers : pc[c] = "out") => <>[](mapped = 0)
=============================================================================
