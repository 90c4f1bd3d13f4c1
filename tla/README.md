# Enterprise device management: TLA+ verification project

The repository is the OpenHarmony *enterprise device management* service. Applications become
**administrators** of a device; an administrator sets **policies** (disallow a camera, keep an
application alive, ...); the service stores them, merges the values of several administrators, and
enforces the merge in other system services. This directory holds TLA+ modules that model the core of
that service (`src/services/edm/src` and `src/interfaces/inner_api/plugin_kits`), TLC configurations
that check them on small instances, and TLAPS proofs for every value of the constants.

## 1. Inventory

| Component | Code | State it keeps | Operations |
|---|---|---|---|
| policy store | `policy_manager.cpp`, `user_policy_manager.cpp`, `device_policies_storage_rdb.cpp` | per user: `adminPolicies_`, `policyAdmins_`, `combinedPolicies_`; tables `device_admin_policies`, `device_combined_policies` | `SetPolicy`, `GetPolicy`, `GetAdminByPolicyName`, `GetAllPolicyByAdmin`, `ReplaceAllPolicy`, `GetPolicyUserIds`, lazy load |
| policy update pipeline | `plugin_manager.cpp`, plugin kits, strategies | none of its own; three locks and an array of stripes | `UpdateDevicePolicy`, `RemoveAdminItem`, `DispatchPluginEvent`, `GetPolicy` |
| admin registry | `admin_manager.cpp`, `admin_container.cpp`, `admin_policies_storage_rdb.cpp`, the ability | `admins_` per user, table `admin_policies`, the parameter `EDM_ENABLE` | enable, disable, replace, authorise, delegate, remove user or package |
| plugin loader | `plugin_manager.cpp` | `soLoadStateMap_`, `pluginsCode_`, `pluginsName_` | load on demand, unload after 3 minutes, unload all |
| event subscription | `event_management/event_subscription_manager.cpp`, `delay_cancel_timer.cpp` | subscriptions, reference-counted groups, one timer per group | subscribe, unsubscribe, delayed unsubscription, reset, retry, dispatch |
| event relays | `mdm_event_relayer.cpp`, `plugin_event_router.cpp` | handles per admin and event; entries per policy and event | subscribe, unsubscribe, restore, dispatch |
| enterprise connections | `connection/enterprise_conn_manager.cpp` | `connectionMap_` with pending callbacks | execute a callback, connect, disconnect, time out, reconnect |
| conflict groups | `conflict_group_registry.cpp` | constant map policy -> group | lookup |
| system timers | `system_timer_manager.cpp`, `edm_client_timer_callback.cpp`, `system_manager_proxy.cpp` | the client's `callbackMap_`, the service's `timerMap_` and death recipients, the timers of the time service | create, start, stop, destroy, trigger, resync after a restart |
| the rest | plugins, stubs, proxies, bindings, extension framework, adapters | none of the service's core state | marshalling and calls to other services |

How they interact. A binder thread enters the ability, checks the administrator under `adminLock_`
(shared) and then calls `PluginManager::UpdateDevicePolicy` without that lock. The plugin manager finds
the plugin under `mutexLock_`, releases it, pins the loaded libraries (`soPinMutex_`, shared), serialises
by conflict group (`policyStripes_`), reads the store, lets the plugin act on another system service, and
writes the store. Disabling an administrator holds `adminLock_` exclusively and calls `RemoveAdminItem`
for each of its policies under `mutexLock_`; a system event reaches the plugins through
`DispatchPluginEvent`, also under `mutexLock_`. Neither takes a stripe. The store is one mutex deep.

What is hard: two families of locks around the same read-merge-write; checks made under a lock that is
released before the act; two writes that are one operation; caches that must equal tables after failed
writes and restarts; resources released by timers; callbacks queued for a connection that may never come.
`PROJECT.json` lists the hazards at their lines, with the properties that cover each or the reason why none
does.

What makes each component correct, in one line each:

- policy store: memory is the tables, the two indices agree, nothing stored is invisible to a removal;
- update pipeline: the combined value is the merge of the administrators' values, what is enforced is the
  combined value, policies that exclude each other are never both set, every call returns;
- admin registry: at most one official super administrator, no sub-administrator without its parent, no
  policy left behind by the removal of its administrator, memory and table agree, the limits hold;
- plugin loader: no call runs in an unloaded library, none is opened twice, an idle one is unloaded;
- event subscription: subscribed as long as someone listens, unsubscribed eventually when nobody does;
- enterprise connections: every callback is executed or dropped once, nobody waits for a connection that
  will not come, no proxy outlives its extension;
- system timers: no timer goes off that nobody can stop, a dead client keeps nothing, a live one has
  after a restart what it had before.

## 2. Plan

The order puts first what every other part relies on. Each module has one action per operation, takes
its parameters as CONSTANTS with a named assumption, and declares no RECURSIVE operator, so that it can
be proved about.

| # | Module | Of | State |
|---|---|---|---|
| 1 | `PolicyStore`, against `PolicyTable` | the maps over the two policy tables | modelled, checked, proved |
| 2 | `PolicyUpdate`, against `SharedPolicies` | the three ways a policy changes, with their locks, over the store's promise | modelled, checked, proved |
| 3 | `AdminRegistry` | the operations on administrators, cut off by failures and crashes | modelled, checked, proved |
| 4 | `EventSubscription`, against `EventSource` | reference counts, the 30 s timer, failed adapters | modelled, checked, proved |
| 5 | `PluginLoader` | load on demand, the unload task and the window between lookup and pin | modelled, checked, proved |
| 6 | `EnterpriseConnections` | pending callbacks, the 10 s timeout, stale disconnections, reconnection | modelled, checked, proved |
| 7 | `SystemTimers` | timers in three processes, each of which may die | modelled, checked, proved |
| 8 | `ManagedEvents` (composes 3 and 4) | `MdmEventRelayer` and `PluginEventRouter` on top of the registry and the subscriptions | left out, see section 6 |

What would come next: the relays (8); a death of the process between two rows of a replacement that keeps
policies; several users and device-wide policies in `PolicyUpdate`.

## 3. The modules

### PolicyTable, PolicyStore, PolicyStoreProofs

`PolicyStore` is `UserPolicyManager` and `PolicyManager` over the tables `device_admin_policies` and
`device_combined_policies`.

| TLA+ | Code |
|---|---|
| `loaded`, `listed` | users that have a manager; users `InitAllPolices` has still to load |
| `adminPolicies`, `policyAdmins`, `combinedPolicies` | the three maps of each user's manager |
| `adminRows`, `combinedRows` | the rows of each key: a set, for the tables have no unique key |
| `call` | a `SetPolicy` between its two writes |
| `Start`, `Crash`, `Load` | service start, death of the process, `GetUserPolicyMgr` with `Init` |
| `SetCombined`, `SetOwn` | the two halves of `SetPolicy`: the combined value, then the administrator's |
| `ReplaceAllPolicy` | `ReplacePolicyByAdminName` |

`PolicyManager::mutex_` is held for a whole call, so calls do not interleave; `SetPolicy` is two steps
because the process may die between its two writes. `Env` says which faults happen: a failing write, a
failing query, and a hand-over to an application that has policies of its own ("contested").
Three variables are history: `tainted` (users whose load failed or whose hand-over was contested),
`ghost` (keys whose last write failed after `policyAdmins_` had taken the value) and `unlisted`.

`PolicyTable` is what callers are promised: one durable value per key, each changed by one atomic write,
no cache. `AdminView` and `CombinedView` map the store to it: memory for a user that has a manager, the
rows for one that has none yet.

### SharedPolicies, PolicyUpdate, PolicyUpdateProofs

One policy update is a thread of several steps, one per read or write of the store and per call of
another service; each thread holds the locks the code holds at that point.

| TLA+ | Code |
|---|---|
| `BeginSet` | `HandleDevicePolicy` and its check of the administrator under the shared `adminLock_` |
| `Find`, `Enter`, `ReadOthers`, `Execute`, `Save`, `Announce` | the three phases of `PluginManager::UpdateDevicePolicy` |
| `Outcomes` | `OnSetPolicy` of `BasicBoolPlugin`, `BasicArrayStringPlugin` and their kin, with `maxListSize_`, conflicts and refused elements |
| `BeginDisable` ... `EndDisable` | `DoDisableAdmin`, which calls `RemoveAdminItem` for each policy under `mutexLock_` |
| `BeginEvent` ... `EndEvent` | `DispatchPluginEvent` of a removed application, with a handler such as `ManageKeepAliveAppsPlugin::OnPluginEvent` |
| `own`, `combined` | the store, as `PolicyTable` promises it (the two halves of a `SetPolicy` are one step here, each may fail) |
| `enforced` | what the other system service applies |
| `stripes` | `policyStripes_`, one per conflict group and one for policies without a group |

`stale`, `raced` and `orphaned` are history: which threads work on a merge that was written meanwhile,
which policies were last written by such a thread, and who saved a policy while being disabled.

### AdminRegistry, AdminRegistryProofs, AdminHierarchyProofs

| TLA+ | Code |
|---|---|
| `admins`, `rows` | `AdminContainer::admins_` and the table `admin_policies` |
| `policies` | for which administrator and user policies are stored |
| `saving` | the same of calls that found their administrator and have still to store |
| `edm` | the parameter `persist.edm.edm_enable` |
| `job` | the operation that holds `adminLock_`, with the removals it still has to make |
| `checked` | a call that made its checks and waits for `adminLock_` |
| `EnableAdmin`, `EnableDeviceAdmin`, `AuthorizeAdmin`, `Delegate`, `DelegateAny`, `SetAdminRunningMode` | the operations of those names; `SetDelegatedPolicies` of a super administrator and of a system application |
| `HandleDevicePolicy`, then `UpdateDevicePolicy` | the check of the administrator under the shared `adminLock_`, and the setting or clearing of policies after it is released |
| `DisableAdmin`, `DisableVirtualAdmin`, `PackageRemoved`, `UserRemoved`, then `Remove` per pair and `EndDisable`, `EndRemoval` | `DoDisableAdmin`, `RemoveSuperAdminAndAdminPolicy`, `RemoveSubSuperAdminAndAdminPolicy`, `RemoveAdminAndAdminPolicy`, `DeleteAdmin` |
| `CheckReplace`, `ReplaceSuperAdmin`, `EndReplace`, `KeepPolicy` | `ReplaceSuperAdmin` without and with `keepPolicy` |
| `Crash`, `Start`, `BootNext`, `OnDistributedKvDataServiceStart` | a death of the process, `InitAllAdmins`, `RemoveAllDebugAdmin`, and the later reset of the parameter |

`Lookup` is `GetAdminByPkgName` with its preference for administrators of the default user; `Store` is
`SetAdminValue`, which decides between inserting and updating on that lookup. A removal walks over
administrators and users and may fail, or die with the process, after each of them, hence a job of
several steps. `Env` says which faults happen; "overtaken" lets other calls in between the checks of a
call and its lock. A call that sets policies is always two steps, the second without `adminLock_`: `late` is
history, the policies stored when their administrator had gone or was about to, which nobody removes.

### EventSubscription, EventSource, EventSubscriptionProofs

`EventSubscription` is `EventSubscriptionManager` with one `DelayCancelTimer` per event group.

| TLA+ | Code |
|---|---|
| `subscriptions`, `adapter`, `refCount`, `isSubscribed` | `subscriptions_` and the `EventGroupState` of each group |
| `active`, `timer`, `threadMutex` | the members and the thread of the group's `DelayCancelTimer` |
| `pc` | where each holder of a handle is |
| `registered`, `source` | the system service, external: whether it knows the adapter, whether it restarted |
| `Subscribe`, `Cancel`, `Cancelled` | `Subscribe`: what it does under `mutex_`, then `Cancel` of the timer and the join of its thread |
| `Unsubscribe`, `Start`, `Started` | `Unsubscribe` likewise, and `Start` of the timer |
| `Wake`, `Check`, `Run`, `Finish` | the thread of the timer and its task `DoDelayedUnsubscribe` |
| `SourceRestart`, `ResetAdapterState`, `RetryFailedAdapters` | the restart of a system service and the two steps of recovering from it |

`EventSource` is what callers are promised: a group they listen to is live unless the system service lost
it, and is cut off only when nobody listens. A client of a group stands for a handle; names of events
within a group make no difference, so groups are independent and one group is enough for the properties of
each. `refused` and `revived` are history: `RetryFailedAdapters` subscribes every adapter that is not
subscribed, also one whose last listener has left and whose delayed unsubscription is over; nothing
unsubscribes it again until someone listens and leaves.

### PluginLoader, PluginLoaderProofs

One library of plugins, the calls that need it, the threads of its `UnloadPluginTask`, and what other libraries
do to it. Libraries share `mutexLock_` and `soPinMutex_`. The extra ones share more: `LoadExtraPlugin` loads all of
them, so the calls of one refresh the others, and `UnloadPlugin` of one takes the plugins of all of them out of
`pluginsCode_`.

| TLA+ | Code |
|---|---|
| `entry`, `pluginHasInit`, `recent`, `pluginHandles` | the entry of `soLoadStateMap_` and the `SoLoadState` objects, of which old ones live on in their tasks |
| `mapped`, `plugins`, `persist` | what `dlopen` and `dlclose` did; `pluginsCode_`; `GetPluginUnloadFlag` |
| `Lookup`, `Pin`, `Execute`, `Unpin`, `Return` | a call: `GetPluginByFuncCode` under `mutexLock_`, then the pin (`soPinMutex_` shared), the second lookup and the handler |
| `BeginLocked`, `EndLocked` | a call whose handler runs under `mutexLock_` (`RemoveAdminItem`, `DispatchPluginEvent`) |
| `Find`, `elsewhere`, "missed" | the plugin is found in this library, in another extra one for which this one was loaded too, or nowhere |
| `Head`, `Wake`, `TaskPin`, `Keep`, `Unload` | the loop of `UnloadPluginTask` |
| `UnloadOther`, `taken` | the task of another extra library unloads that one; the plugins of this one went with it |
| `Elapse`, `NotifyUnloadAllPlugin` | three minutes without a call; `OnStop` |

A wait of the task ends by a notification or by its timeout, at any time. `LoadPlugin` is one step also where
the second lookup runs it without `mutexLock_`: `SecondLookupFinds` shows that it loads nothing there.
`lastCallTime` is the system clock, which may be set forward (`plugin_manager.cpp:385`): "clock" lets that
happen between a lookup and its pin, and `exposed` names the calls it happened to. Left out are the calls of
libraries that share the locks only, and the maps of extensions and execute strategies, which an unload of an
extra library clears as well.

### EnterpriseConnections, EnterpriseConnectionsProofs

The connection to the extension of one administrator, over which events are delivered.

| TLA+ | Code |
|---|---|
| `info` | the `ConnectionInfo` in `connectionMap_`, or none |
| `conn` | each `EnterpriseConnectionCallback` and what the ability manager does with it, `isStale`, and the queue its handler has taken |
| `call` | where a thread is in `ExecuteCallback` |
| `CheckConnectionState`, `Execute`, `RequeueAndReconnect`, `EstablishConnection`, `DisconnectStaleCallback`, `Connect`, `StoreCallback`, `ConnectFailed` | the steps of `ExecuteCallback`: one per section under `connectionMutex_` and per call of another process |
| `OnAbilityConnectDone`, `SaveProxy`, `FlushOne`, `Flushed` | a connection comes up and the queue is executed |
| `OnAbilityDisconnectDone`, `RemoveRemoteObject`, `StartAgain` | the extension has gone, and an administrator that is kept alive is started again |
| `Elapse`, `ClearConnections` | ten seconds pass; all connections are dropped |

A strategy is named after the thread that brings it and is tracked until it is executed or dropped. A stale
callback ignores its handlers, so it has ended unless a handler of it is already past the check. Not
modelled is the order of strategies: a direct execution may overtake the flush of the queue.

### SystemTimers, SystemTimersProofs

A timer lives in the map of an administrator's process, in the map of this service, and in the time service,
which is external. Each of the first two may die and come back. Requests belong to the threads of a process
(`ClientOf`), and any of them may destroy any timer of its administrator: the service compares names of
administrators, not processes.

| TLA+ | Code |
|---|---|
| `alive`, `known`, `call`, `resync` | an administrator's process: `callbackMap_`, the request of each thread or its answer, and `OnAddSystemAbility` with the items it has still to send |
| `timerMap`, `recipients`, `notices`, `dying`, `trigger`, `op` | this service: `timerMap_`, `recipientMap_`, deaths announced and being handled, triggers, and what holds `adminLock_` |
| `timers` | the time service, which replaces timers of one name |
| `CreateTimer`, `DestroyTimer`, `DestroyCleanup`, `ResyncTimer`, `ResyncInsert`, `OnAdminRemove`, `RemoveDestroy` | the operations of those names, under `adminLock_` throughout |
| `OnTimerTriggered`, `TriggerCleanup`, `TriggerDestroy`, `OnRemoteDied`, `DiedDestroy` | triggers and notices of death, which take only `mutex_` |
| `Crash`, `StartClient`, `Die` | deaths and restarts |
| `Request`, `InsertCallback`, `RemoveCallback`, `OnEdmSaRestart` | the client's side |

Whether a timer is started is left out: starting, stopping and the time of the last trigger change none of
these maps. The model keeps limits that the code has and no property denies: a creation answered just before
a restart and not yet in `callbackMap_` is not set up again; a destruction answered between a restart
and the snapshot of the items is undone by them; a resync checks neither the limit nor the owner. `lost` is
history: the timers in the map of a client that were taken from it without its being told, by a timer of the
same name, by a `DestroyTimer` of another process of the administrator or of its own before it was given the
timer, by the removal of the administrator, or that were not set up again after a restart.

How the modules meet: `PolicyUpdate` relies on what `PolicyTable` says; `AdminRegistry` keeps of the store
who has policies for which user; `PolicyUpdate` assumes that the plugin it calls is there, which is what
`PluginLoader` shows, and takes a subscription as a fact, which is what `EventSubscription` provides;
`SystemTimers` keeps of the registry which administrators there are.

## 4. The runs

The MC modules only name instances and symmetries. Symmetry exchanges names that the specification treats
alike, in runs without a liveness property. `update_setting` uses it also for its refinement:
`SharedPolicies` is a safety property and treats administrators and elements alike.

| Run | Question | Instance |
|---|---|---|
| `store_faults` | Are the maps in memory the tables, the indices alike and the list of users complete, under every fault? | 2 users, 2 administrators, 1 policy, 1 value, all faults |
| `store_refines` | Is the cached store an implementation of the table? | 1 user, 2 administrators, 1 policy, 2 values, failing writes |
| `update_setting` | Is the merge the union, is it what is enforced, does it decide the subscription, is no update lost, are policies that exclude each other never both in force, and does each call look as if it took effect at once? | 2 threads, 2 administrators, 1 list of at most 2 of 3 elements and 2 booleans that exclude each other, 5 calls |
| `update_disable` | When does disabling an administrator leave a wrong merge or a policy behind? | 3 threads, 2 administrators, 1 list, 6 calls |
| `update_returns` | Does every call return, and who waits for whom? | 3 threads, all three kinds of callers, failing writes, 3 calls |
| `admin_calls` | Who may be an administrator together with whom, and is the service started when there is one? | 2 users, 2 packages, every operation but the setting of policies, failing writes and replacements |
| `admin_policies` | Has every subordinate its super administrator, in memory and in the table, does the table hold what memory holds, is the limit kept, and do removals reach every user for whom there are policies, also while calls store some? | 2 users, 3 packages, one of which sets policies, failing writes and crashes |
| `admin_overtaken` | *violated*: is there one official super administrator when calls overtake each other? | 2 users, 2 packages |
| `event_subscription` | Is nobody who listens cut off, and is a group without listeners unsubscribed in the end? | 4 clients of one group, refusals and restarts of the system service |
| `plugin_loader` | Does no handler run in an unmapped library, does a library keep its plugins until another one takes them, does every call return, and is an idle library unloaded? | 2 callers, 2 tasks, 2 states, an extra library besides others, plugins that must persist, `OnStop` at any time |
| `connections` | Is no strategy executed twice or forgotten, and no proxy left behind? | 2 threads, 2 connections with their handlers, every fault |
| `system_timers` | Is what a client knows what the service and the time service have, through deaths of either? | 2 processes of one administrator with a thread each, 2 timers of one name and a third, at most 2 per administrator, every fault |

What they show.

- **The store is sound where its inputs are.** `MemoryIsDurable` holds through failing writes, crashes and
  lazy loads, for every user whose load succeeded. After a failed query it does not: the manager stays
  empty for good and later writes insert rows beside those stored. `IndicesAgree` excepts the keys in
  `ghost`: `policyAdmins_` takes a value before the table is written and keeps it when that write fails. Both
  hazards go wrong in the code; no property catches them, and `PROJECT.json` lists them without one.
- **The stripes do what they are for.** With updates only, `MergeIsUnion`, `EnforcedIsMerge`,
  `SubscribedWhenSet`, `ConflictsExcluded` and `NoLostUpdate` hold in every interleaving, and nobody who
  reads the stored values can tell the phases of an update apart (`UpdatesAreAtomic`); leaving the stripe
  out breaks `NoLostUpdate` and `ConflictsExcluded`. `update_disable` does without conflicts: the
  stale write of a `RemoveAdminItem` can put a policy back in force beside one that excludes it.
- **No circle of waits.** Sets take `mutexLock_` and give it back before the stripe, removals take it under
  `adminLock_`, events take it alone, and no path, failing or not, leaves a lock behind (`WaitsEnd`).
- **Removals and events take no stripe.** `RemoveAdminItem` and `DispatchForAdmins` hold `mutexLock_`
  instead, so the merge can go wrong. `MergeUnlessRaced` says exactly when: only after a write whose
  thread read the merge before another write of the policy. `OrphansWereOvertaken` says that a disabled
  administrator keeps a policy only if one of its own calls was overtaken between its check and its
  write.
- **The hierarchy survives interrupted removals.** Subordinates are removed before their super
  administrator and the default user after the others, so whatever the removal was cut off at, a restart
  finds the parent of each (`SubsHaveParent`).
- **Policies go with their administrator, but for late ones.** A call gives the shared `adminLock_` back before it
  stores (`enterprise_device_mgr_ability.cpp:1776`), as `docs/knowledge/architecture/concurrency-lock-model.md:98`
  says. `PoliciesHaveAdmin` holds for whatever is stored before a removal comes to the user in question; what
  is stored after that, by a call overtaken between check and write, is `late` and stays behind.
- **The timer and the counter agree.** Whoever cancels a timer holds a count, so it never kills a newer
  timer of somebody else (`IdleIsTimed`); the joins under `threadMutex_` never meet a thread that waits for
  them (`SubscribeReturns`).
- **A call keeps its library.** The refreshed `lastCallTime` covers the window between lookup and pin, the
  pin covers the handler; only a jump of the clock or `OnStop` gets in between (`HandlersRunLoaded`). The property
  ends with the handler: the pin is declared after the plugin (`plugin_manager.cpp:647`, `:656`) and released
  first, so after a handler of more than three minutes the library may be unmapped before the plugin is released.
- **Replaced connections lose strategies, not queues.** A strategy may be dropped with a failed connection
  although its `ExecuteCallback` returned true, but it is never executed twice, and no queue is left that
  nobody serves; connections of concurrent replacements may leak, but not the proxy in the map.
- **A restart gives timers back.** `ClientsKeepTimers` holds through any order of resync, requests of both
  processes, triggers and deaths, but for the cases in `lost`. Those are what the code takes away from a client
  without telling it, the creation answered just before a restart among them: a hazard that goes wrong and that
  no property catches.

### Where code and documentation, or two parts of the code, disagree

`admin_overtaken` finds a violation and is listed under `findings`: `ReplaceSuperAdmin` checks before it
takes `adminLock_` and not again after. Others were met while modelling; they are modelled as the code has
them, and the passing runs leave the situation out or except it by name:

- A virtual administrator is stored for the user it was delegated for and may set policies of every user; when
  that user is removed, its row goes and its policies of the others stay (`enterprise_device_mgr_ability.cpp:301`):
  with "delegateAny" among its calls `admin_policies` would violate `PoliciesHaveAdmin`.
- `HandleKeepPolicy` renames the policies of the default user only (`enterprise_device_mgr_ability.cpp:1050`);
  with "keep" among its calls `admin_policies` would violate `PoliciesHaveAdmin`. Its result is dropped and the
  call reports success (line 1112). It moves the parents row by row before the administrator's own row
  (`admin_manager.cpp:170`): a failure or a death in between leaves subordinates whose parent does not exist.
- `DispatchForAdmins` gives a handler the merge of the other administrators and stores what the handler
  leaves. Handlers return early, without adding the administrator's own value, when the uninstalled
  application is not in its list: the merge is then stored as empty and the plugin is unsubscribed
  (`plugin_manager.cpp:816`), although the policy is set. The runs with events check `EveryCallReturns` only.
- After a failed `dlopen` the entry stays and counts as loaded; a second task may come to work on it.
  `docs/knowledge/architecture/concurrency-lock-model.md:86` speaks of unloading and loading again only.
  `plugin_loader` and the proofs leave "dlopen" out of `Env`.
- Unloading one extra library takes the plugins of all extra libraries out of `pluginsCode_` and clears the
  maps of extensions and strategies (`plugin_manager.cpp:452`, `:529`). The others stay mapped and count as
  loaded; their calls find no plugin until their own task has unloaded them. `LoadedIsRegistered` excepts that
  (`taken`).
- `DestroyTimer` compares the administrator's name (`system_timer_manager.cpp:231`), so one process destroys
  timers of another of the same administrator, whose `callbackMap_` keeps an entry that it cannot start.
- `SetPolicy` of one user stores half of a call when one of its writes fails, while `user_policy_manager.h:65`
  calls it atomic; `PolicyTable` therefore promises two writes.
- `RemoveAdminItem` unsubscribes after a look at the combined value that an update may have changed since
  (`plugin_manager.cpp:752`).
- A boolean policy can be enforced and not stored when its system parameter fails to be set after the other
  service accepted it (`basic_bool_plugin.cpp:107`); `EnforcedIsMerge` is about lists. `disallowed_device_sudo`
  excludes the per-user policy by a look at one user only (`disallowed_device_sudo_plugin.cpp:41`), and
  `PolicyUpdate` has one user.
- The first administrator's row is written before `persist.edm.edm_enable` is set
  (`enterprise_device_mgr_ability.cpp:1318`): after a death in between the service is not started at boot;
  `EnabledWhileAdmins` is checked without crashes.
- `EnableAdmin` of a device administrator from another user over a BYOD one of the default user succeeds
  and changes nothing (line 1210).
- Removing a user drops a virtual administrator registered for it, but not the policies it set for other
  users (line 302).
- `DisableVirtualAdmin` removes any administrator that is named (line 2354), also a super administrator,
  whose subordinates stay.
- A virtual administrator of one package registered for two users gets its new parent in both rows but, in
  memory, for the default user only (`admin_policies_storage_rdb.cpp:133`), until the next restart. The
  running mode is not written back to the default one by an update (line 203).
- A failed `UnsubscribeEvent` leaves the group marked as unsubscribed (`event_subscription_manager.cpp:146`)
  while the system service still knows the adapter.
- `ConnectFailed` drops all pending strategies, those of other callers included, whose `ExecuteCallback` had
  returned true (`enterprise_conn_manager.cpp:213`).
- `ReplaceSuperAdmin` with kept policies leaves the timers of the administrator under its old name.

### Bounds

- `PolicyStore`, `AdminRegistry`, `EventSubscription`, `PluginLoader`, `EnterpriseConnections` and
  `SystemTimers` are finite without any bound on the length of a behaviour: the runs cover every sequence of
  operations. Two users separate the default user from another one; two administrators are enough for a
  hand-over and for two values of one policy, three packages for a super administrator, its subordinate and
  a replacement; `MaxCount` = 2 is reached.
- `PolicyUpdate` counts calls (`calls`, bound `MaxCalls`), because threads could begin calls for ever. Five
  or six calls let both administrators set, both change, and one be disabled while the other two threads are
  in the middle of a call; a race takes two overlapping calls and at most two more to prepare it.
  `MaxListSize` is the limit of the array plugins; with three elements and a limit of two, two administrators
  within their own limits meet it together.
- Four clients of a group let one subscribe, one leave, and one cancel while a fourth starts the timer. Two
  tasks and two states let an old task meet the successor of its state. Two connections and two threads let
  each thread and each handler replace the connection of the other; three connections add nothing but time.
  Three timers, two of one name, and a limit of two let a timer be replaced, refused and set up again; with a thread
  for each process, a request of one meets every step of the other's. Several requests of one process at once are
  too much for TLC; the theorems cover them.
- `Holders` of `AdminRegistry` names the packages that set policies. One is enough for `PoliciesHaveAdmin`, whose
  cases are about the users and the removals of one package; the theorem has any.

A configuration sets `CHECK_DEADLOCK FALSE` where the instance may really stop: in `PolicyUpdate` when the
calls of the bound are used up, and in `admin_overtaken`. All other runs check for deadlock as well: no state
of theirs is one in which nothing can happen.

### Fairness

- `PolicyUpdate`, `EveryCallReturns`: weak fairness of each thread's own steps, which is what a preemptive
  scheduler gives a thread that is not blocked; beginning a call, disabling and events are not fair, for
  nobody has to call. Waiting for a lock is a guard that may be falsified again by another thread; the locks
  need not be fair because the number of calls is bounded. The property says that locks are released on every
  path and never waited for in a cycle.
- `EventSubscription`: weak fairness of the clients' calls, of the timer's threads and of the recovery; nobody
  has to subscribe or to leave, and the system service need not restart.
- `PluginLoader`: strong fairness of callers and tasks, because the locks they wait for are taken and released
  without end by others and calls are unbounded here; weak fairness of time. A `std::shared_mutex` promises
  no fairness, but starvation of one thread for ever takes a scheduler that runs it only while the lock is
  held.
- `EnterpriseConnections`, `QueueMoves`: weak fairness of each calling thread, and of each connection's
  handlers as one thread; the ability manager answers each request in the end. Nothing is assumed of deaths,
  timeouts and `ClearConnections`.

## 5. The proofs

| Theorem | Says | Assumes |
|---|---|---|
| `StoreInvariant` | `StoreInv` is invariant | nothing beyond `StoreAssumption` |
| `StoreIsDurable`, `IndicesStayAligned`, `NoStoredUserIsMissed` | `MemoryIsDurable`, `IndicesAgree`, `StoredUsersListed` | the same |
| `StoreImplementsTable` | every behaviour of `PolicyStore` is one of `PolicyTable` | only writes fail: `Env \subseteq {"write"}` |
| `UpdateInvariant`, `MergeGoesWrongByRaceOnly`, `OnlyOvertakenOrphans` | `UpdateInv`, `MergeUnlessRaced`, `OrphansWereOvertaken` | no write fails and no event is handled: `"write" \notin Env`, `"event" \notin Actors` |
| `LockInvariant`, `UpdateTypes`, `NobodyWaitsForEver` | `LockInv`, `TypeOK`, `WaitsEnd` | nothing beyond `UpdateAssumption` |
| `StripeInvariant`, `UpdatesMerge`, `UpdatesEnforceTheMerge`, `UpdatesSubscribe`, `UpdatesAreNotLost` | `StripeInv`, `MergeIsUnion`, `EnforcedIsMerge`, `SubscribedWhenSet`, `NoLostUpdate` | no write fails, nobody is disabled: `Actors \subseteq {"set"}` |
| `UpdatesExcludeConflicts` | `ConflictsExcluded` | the same, and `ConflictsAreMutual` |
| `ThreadsShareAtomically` | every behaviour of `PolicyUpdate` is one of `SharedPolicies` | the same, and finitely many elements of lists |
| `RegistryInvariant` | `RegistryInv` is invariant | no call is overtaken: `"overtaken" \notin Env` |
| `RegisteredOnce`, `SuperIsUnique`, `RegistryTypes` | `OncePerUser`, `OneOfficialSuper`, `TypeOK` | the same |
| `PlacedInvariant`, `DebugKeptApart`, `LimitIsKept` | `PlacedInv`, `DebugNotMixed`, `CountBounded` | the same |
| `EnabledForAdmins` | `EnabledWhileAdmins` | the same, and the process does not die: `"crash" \notin Env` |
| `StoredInvariant`, `RestartsLoadTheSame` | `StoredInv`, `MemoryIsStored` | no call is overtaken, no replacement keeps policies: `"keep" \notin Calls` |
| `SubordinatesHaveParent` | `SubsHaveParent` | the same, and `"delegate" \notin Calls` |
| `PoliciesKeepAdmin` | `PoliciesHaveAdmin`, also of what is stored while a removal is under way | the same, and `"delegateAny" \notin Calls` too |
| `SubscriptionInvariant`, `CountsAreRight`, `IdleGroupsAreTimed`, `ListenersServed` | `SubscriptionInv`, `RefCountIsListeners`, `IdleIsTimed`, `ListenersAreServed` | finitely many clients |
| `JoinInvariant`, `JoinsEnd` | `JoinInv`, every step is a `JoinsAdvance` | the same |
| `SubscriptionsKeepPromise` | every behaviour of `EventSubscription` is one of `EventSource` | the same |
| `LoaderInvariant`, `PluginsStayLoaded`, `PluginsAreRegistered`, `LibrariesAreWatched`, `SecondLookupsFind` | `LoaderInv`, `HandlersRunLoaded`, `LoadedIsRegistered`, `LoadedIsWatched`, `SecondLookupFinds` | `dlopen` does not fail: `"dlopen" \notin Env` |
| `LockInvariant`, `LoaderTypes`, `NobodyWaitsForEver` of the loader | `LockInv`, `TypeOK`, `WaitsEnd` of `PluginLoaderProofs` | nothing beyond `LoaderAssumption` |
| `ConnectionInvariant`, `QueuesAreServed`, `ProxiesAreWatched`, `StrategiesInOnePlace`, `OneConnectionInCalm` | `ConnInv`, `PendingIsServed`, `ProxyIsWatched`, `InOnePlace`, `OneInCalm` | nothing beyond the module's assumptions |
| `OwnedInvariant`, `TimersTyped`, `TimersHaveEntries`, `DeadClientsAreNoticed`, `KeptInvariant`, `ClientsCanStart` | `OwnedInv`, `TypeOK`, `NoStrayTimers`, `DeadAreNoticed`, `KeptInv`, `ClientsKeepTimers` | nothing beyond `TimersAssumption` |

They hold for any users, administrators, policies, values, clients, callers, connections, limits and choice
of operations, sets that need not be finite included unless said so, and for any other fault.

**Store.** `MemoryIsDurable` is not inductive: whether a write inserts or updates is decided in memory, so
a key needs at most one row for the result to be the new value (`RowsAreUnique`), and a load must find that
row for users that have no manager yet. `StoredUsersListed` needs that `InitAllPolices` has still to load
the users that are missing (`StoredUsersKnown`) and that an open call belongs to a loaded user, for its
second half inserts a row. `IndicesAgree` needs that a ghost is visible, for a hand-over moves it. The
proof has one lemma per action.

**Refinement of the store.** With no failing query and no contested hand-over nobody is `tainted`, and then
the rows of each key stand for the value the view shows, loaded or not (`SeenIsStored`). A step changes a view
only where it changes rows, so a load, a start and a crash map to steps that change nothing but the pending
call, and each write to the one of the table. With a failing query the theorem would be wrong: the maps
of that user are empty and a restart shows the values again.

**Updates.** `UpdateInv` relates what a thread keeps in its locals to the store: the merge it read of the
others is still what the others have, unless the thread is in `stale` (`ReadIsCurrent`); so a write by a
thread that is not stale leaves the merge the union. `OrphansWereOvertaken` needs what `RemoveAdminItem` has
already dealt with (`DealtWith`) and that one thread at a time disables (`DisablesAlone`). Where
administrators only set policies, `StripeInv` adds that a thread between reading and announcing holds the
stripe of its policy, hence that nobody is stale; between its steps exactly that thread accounts for the
difference between stored, enforced and subscribed. `ConflictsAreMutual` is what the plugins and
`ConflictGroupRegistry` have to provide: the exclusion is mutual, between boolean policies of one group. The
code says it plugin by plugin, so it is an assumption and not proved. That failing writes are excluded is
needed: a combined value that is written and an administrator's that is not leave the merge wrong.

**Locks.** `EveryCallReturns` is a liveness property and stays with TLC; what can go wrong in it is a lock that is
kept or a circle of waits, and `WaitsEnd` excludes both for every number of threads. `LockInv` says of each
thread and lock that the thread has the lock exactly while its program counter is between the steps that take
it and give it back, early returns and failing writes included. Then a thread with `mutexLock_` or a stripe never
waits, and one with `adminLock_` waits only for `mutexLock_`. This needs no assumption: events, failing writes and
disabling may all happen, so every action of the module has a lemma here.

**Refinement of concurrent updates.** Only `Save` writes the values `SharedPolicies` speaks of, and by then the
thread holds everything the atomic step needs. Its merge is its value with what the others have now, because
nobody is stale; its value is what the administrator had when it entered, with elements more or fewer, and no
other thread of the same policy has been in the stripe since; `ConflictInv` says that a boolean about to be set
is still not excluded, and `ListInv` that a list was counted before the thread left the plugin. `Save` is therefore
`Switch`, `Add` or `Take`, and the other phases change neither variable. With a disabling this would be
wrong: `Drop` stores a merge that may be old, which `MergeUnlessRaced` bounds.

**Registry.** Whether `SetAdminValue` inserts is decided by a lookup in memory, and the table has no key on
user and package; `OncePerUser` needs that both hold administrators of the same user, package and type
(`TableAgrees`). `OneOfficialSuper` must hold in the table too, which is what memory becomes at the next
start, and super administrators are only ever stored for the default user (`SupersAtDefault`). A
replacement removes the old administrator in several steps and then stores a new one: `ReplacedIsPending`
says that until then every official super administrator is among those still to be removed, unless a
removal failed; `CheckedIsOfficial` says that a call that made its checks finds what it checked. The latter
is what "overtaken" destroys, and `admin_overtaken` shows that the assumption cannot be dropped.

**Hierarchy.** `AdminHierarchyProofs` first sorts the actions into a dozen kinds of steps (`StepKinds`): somebody
is set, a removal begins, a pair is removed or its removal fails, the process dies or starts. Each property is
then proved of the kinds. `SubsHaveParent` needs that a removal of a super administrator has all of the
subordinates before it in its list and removes it last (`SupersGoLast`); `PoliciesHaveAdmin` that an
administrator that acts across accounts goes for the default user after every other user it has policies for
(`DefaultGoesLast`), where `late` is what was stored when no administrator, or only one about to go, was left for
it; a removed user's list never holds the default user (`UserTodo`). Both must hold of the
table, which is what memory becomes after a crash, so `StoredInv` comes first. `CountBounded` counts names in
the table and keeps one place for a replacement from the removal of the old administrator on (`CountInv`).
The assumptions are needed: a delegation with no policies removes by name whatever the administrator is, also
a super administrator with subordinates; a virtual administrator stored for another user may act across
accounts; a replacement that keeps policies changes memory and table in steps of their own; a death after the
row and before the parameter leaves administrators of a service that is not started.

**Subscriptions.** The count of a group is the number of its entries, an entry belongs to a client that holds
its handle (`EntriesAreHeld`), and the flags of a group are true of its adapter and of the system service
(`FlagsAreTrue`); with these `IdleIsTimed` is inductive: a timer is cancelled only by a client whose entry
counts. The refinement maps a successful subscription to the listener and the live group at once, and the
delayed unsubscription to the cut. `SubscribeReturns` is liveness; its safety half is `JoinsEnd`: who joins the
thread of a timer holds `threadMutex_` with `active_` FALSE (`JoinInv`), so no other client can start a new
thread in place of the joined one, which has at most four steps left.

**Loader.** At most one task works on an entry, and one does while the library counts as loaded
(`TasksMatch`, `LoadedIsWatched`); while it counts as loaded it is mapped (`EntryIsLoaded`), and has its plugins
unless another one took them; a call that found a plugin has refreshed `lastCallTime` (`FoundIsRecent`),
so the task that gets both locks before the call's pin sees it and waits again; from the pin on the two sides of
`soPinMutex_` exclude each other (`LocksExclude`). The locks themselves need no assumption: `LockInv` says who holds
each, also when `dlopen` fails; a caller never waits while it holds one, and a task that holds `soPinMutex_`
waits at most for `mutexLock_`, so `WaitsEnd` excludes a circle of waits for any number of callers and tasks.

**Connections.** `PendingIsServed` and `ProxyIsWatched` are inductive only together: a stale handler may still
store its proxy, and that it is watched by another connection follows from the queue it found being served.
`InOnePlace` is proved as `Placed`, in which a strategy is in the queue, with a thread, or with one handler;
a handler has strategies only while it executes them (`CallbacksAreFlushed`). `OneInCalm` needs that one
thread connects, and none while there is a connection (`Straight`, `OneConnects`).

**Timers.** A timer has one owner at most, wherever it is on its way between the maps (`OwnedOnce`), and is given to
one thread (`CreatedOnce`); a request to destroy one makes nobody its owner. The
operation that holds `adminLock_` between two steps has left the time service in a known state
(`OpIsHalfDone`: a timer being destroyed is gone, and so are those whose name an item has taken). With these
`NoStrayTimers` and `DeadAreNoticed` are inductive; for the second, who is released is exactly who has no
entry left (`ReleasedHaveNone`). `ClientsKeepTimers` needs more. A name has one entry (`OneOfAName`), so that
`CleanupSameNameTimerLocked` may stop at the first it finds; the dead hold nothing, and nobody alive is
announced dead, so that a trigger or a notice of death never takes what a client holds (`HeldIsIdle`); and
`Kept` counts a timer from the answer of `CreateTimer` on, before the client has put it into its map. A client's
own destruction of what it holds is on its way to `RemoveCallback` (`ToForget`); one by another client is `lost`.

Proof obligations are split until Z3 or Zenon proves each; temporal steps use the PTL decision procedure.

**Only model-checked**: that calls return also with failing writes and application events in `PolicyUpdate`;
and the liveness properties (`EveryCallReturns`, `EventuallyUnsubscribed`,
`SubscribeReturns`, `CallsReturn`, `IdleIsUnloaded`, `QueueMoves`), since liveness under fairness is out of the
prover's reach.

## 6. What is not modelled, and why

- The event relays: `MdmEventRelayer` and `PluginEventRouter` keep a handle per subscription and restore them
  from the registry. Their hazards are orders of two such restorations with a removal, between components that
  are modelled; the relays themselves are not.
- In `PluginLoader`: what an unload does to the maps of extensions and strategies, and the calls of libraries
  that share only the locks.
- The permission checker: it reads state and decides. The modules let callers have any permission, which
  allows more behaviours than the code.
- Plugins one by one: their values are opaque sets, and the two families of plugin kits are modelled by
  what they store and enforce. A plugin that keeps state of its own is outside.
- In `AdminRegistry`: managed events, permissions and enterprise information of an administrator, and the
  several abilities an application could have; callers with `PERMISSION_MANAGE_EDM_POLICY`, who set policies
  without an administrator; and a failing query at a start, which leaves the map empty for the life of the
  process (`admin_policies_storage_rdb.cpp:292`).
- `PolicyUpdate` has one user and only plugins that save their policy. Callers with `MANAGE_EDM_POLICY`,
  whose administrator is not checked, are left out.
- In `EnterpriseConnections`: several administrators, whose entries have nothing in common, and the order in
  which strategies are executed. In `SystemTimers`: several administrators, starting and stopping, and the
  timers of `EdmTimerManager`, which no administrator owns.
- Stubs, proxies, language bindings, the extension framework and the adapters to other services marshal
  calls and keep none of the core's state. They are most of the repository's lines.

## 7. Running

In this directory, `tlc -config <cfg> <module>` checks a run (`PROJECT.json` pairs them), and `tlapm` on each
module named `...Proofs` checks the proofs. `PROJECT.json` maps every
definition to the lines it models and names, for each property of a passing run, a plausible bug (an operator
in the module marked "mutant") that violates it.
