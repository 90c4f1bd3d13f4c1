------------------------- MODULE PolicyUpdateProofs -------------------------
(* Theorems about PolicyUpdate, for any threads, administrators, policies and *)
(* values.  Those about what is stored need that the database does not refuse *)
(* a write and no application is uninstalled; what other services refuse      *)
(* makes no difference.  Those about types and locks, at the end, need        *)
(* nothing.                                                                   *)
EXTENDS PolicyUpdate, FiniteSetTheorems, TLAPS

NoFailedWrites == "write" \notin Env
NoEvents == "event" \notin Actors

SetPcs == {"find", "enter", "merge", "execute", "save", "announce"}
DisablePcs == {"items", "unenforce", "lookup", "drop", "recheck", "unsubscribe"}
Jobs == {Idle} \cup SetJob \cup DisableJob

Types ==
    /\ active \subseteq Admins
    /\ own \in [Policies -> [Admins -> Value]]
    /\ combined \in [Policies -> Value]
    /\ enforced \in [Policies -> Value]
    /\ subscribed \subseteq Policies
    /\ adminLock \in Thread /\ mutexLock \in Thread
    /\ stripes \in [Groups -> Thread]
    /\ job \in [Threads -> Jobs]
    /\ calls \in 0..MaxCalls
    /\ stale \subseteq Threads
    /\ raced \subseteq Policies
    /\ orphaned \subseteq Admins

(* A boolean policy has boolean values. *)
BooleansAreOn == \A p \in BoolPolicies, a \in Admins : own[p][a] \subseteq {On}
AsksForBoolean(t) ==
    job[t].pc \in SetPcs /\ job[t].policy \in BoolPolicies =>
       job[t].data \subseteq {On} /\ job[t].held \subseteq {On} /\ job[t].merged \subseteq {On}

(* What a thread has read of the store is so, unless it is stale. *)
ReadIsCurrent(t) ==
    LET p == job[t].policy  a == job[t].admin IN
    t \notin stale =>
       /\ job[t].pc \in {"execute", "unenforce", "lookup", "drop"} => job[t].merged = Others(p, a)
       /\ job[t].pc = "save" => job[t].merged = Others(p, a) \cup job[t].held
       /\ job[t].pc = "drop" /\ job[t].alone => Unset(p)

(* Whoever disables an administrator has adminLock_, and leaves no policy of  *)
(* the administrator behind that it has dealt with.                           *)
Gone(p, a) == own[p][a] = {} \/ a \in orphaned
DisablesAlone(t) == job[t].pc \in DisablePcs => adminLock = t
DealtWith(t) ==
    job[t].pc \in DisablePcs =>
       LET a == job[t].admin IN
       /\ \A p \in Policies \ job[t].todo : Gone(p, a)
       /\ job[t].pc \in {"recheck", "unsubscribe"} => Gone(job[t].policy, a)
       /\ job[t].pc = "drop" /\ job[t].alone => Gone(job[t].policy, a)

StoreIsRight == BooleansAreOn /\ MergeUnlessRaced /\ OrphansWereOvertaken
JobIsRight(t) == AsksForBoolean(t) /\ ReadIsCurrent(t) /\ DisablesAlone(t) /\ DealtWith(t)
UpdateInv == Types /\ StoreIsRight /\ \A t \in Threads : JobIsRight(t)

-----------------------------------------------------------------------------
(* Facts about what is read. *)

(* What a thread does tells which local variables it has. *)
LEMMA Kinds ==
    ASSUME Types, NEW t \in Threads
    PROVE  /\ job[t].pc \in SetPcs => job[t] \in SetJob
           /\ job[t].pc \in DisablePcs => job[t] \in DisableJob
           /\ job[t].pc \in SetPcs \cup DisablePcs \cup {"idle"}
  BY DEF Types, Jobs, Idle, SetJob, DisableJob, SetPcs, DisablePcs

LEMMA ValuesRead ==
    ASSUME Types, NEW p \in Policies, NEW a \in Admins
    PROVE  /\ own[p][a] \in Value
           /\ Others(p, a) \in Value
           /\ Merge(p) = Others(p, a) \cup own[p][a]
           /\ Unset(p) => Others(p, a) = {} /\ Merge(p) = {}
<1>1. own[p] \in [Admins -> Value]
  BY DEF Types
<1>2. \A b \in Admins : own[p][b] \in Value
  BY <1>1
<1>3. Others(p, a) \in Value
  BY <1>2 DEF Others, Value
<1>4. Merge(p) = Others(p, a) \cup own[p][a]
  BY DEF Merge, Others
<1>5. Unset(p) => Others(p, a) = {} /\ Merge(p) = {}
  BY DEF Unset, Others, Merge
<1>. QED
  BY <1>2, <1>3, <1>4, <1>5

LEMMA BooleansRead ==
    ASSUME Types, BooleansAreOn, NEW p \in BoolPolicies, NEW a \in Admins
    PROVE  Others(p, a) \subseteq {On}
  BY DEF BooleansAreOn, Others

-----------------------------------------------------------------------------
(* How the local variables change. *)

SetTo(t, pc, held, merged) ==
    job' = [job EXCEPT ![t] =
              [pc |-> pc, admin |-> job[t].admin, policy |-> job[t].policy, op |-> job[t].op,
               data |-> job[t].data, held |-> held, merged |-> merged]]
DisableTo(t, pc, todo, policy, merged, alone) ==
    job' = [job EXCEPT ![t] =
              [pc |-> pc, admin |-> job[t].admin, values |-> job[t].values, todo |-> todo,
               policy |-> policy, merged |-> merged, alone |-> alone]]
Becomes(t, r) == job'[t] = r /\ \A u \in Threads \ {t} : job'[u] = job[u]

LEMMA JobUpdate ==
    ASSUME Types, NEW t \in Threads, NEW r \in Jobs, job' = [job EXCEPT ![t] = r]
    PROVE  job' \in [Threads -> Jobs] /\ Becomes(t, r)
  BY DEF Types, Becomes

(* The assignments to the fields of a job, one by one, and what they give. *)
LEMMA SetFields ==
    ASSUME NEW t \in Threads, job[t] \in SetJob, NEW pc, NEW held, NEW merged
    PROVE  /\ job' = [job EXCEPT ![t].pc = pc]
                => SetTo(t, pc, job[t].held, job[t].merged)
           /\ job' = [job EXCEPT ![t].pc = pc, ![t].held = held]
                => SetTo(t, pc, held, job[t].merged)
           /\ job' = [job EXCEPT ![t].pc = pc, ![t].merged = merged]
                => SetTo(t, pc, job[t].held, merged)
           /\ job' = [job EXCEPT ![t].pc = pc, ![t].held = held, ![t].merged = merged]
                => SetTo(t, pc, held, merged)
<1>. DEFINE j == job[t]
<1>1. ASSUME job' = [job EXCEPT ![t].pc = pc]
      PROVE  SetTo(t, pc, job[t].held, job[t].merged)
  <2>1. job' = [job EXCEPT ![t] = [j EXCEPT !.pc = pc]]
    BY <1>1, Zenon
  <2>2. ASSUME NEW x, x = [j EXCEPT !.pc = pc]
        PROVE  x = [pc |-> pc, admin |-> j.admin, policy |-> j.policy, op |-> j.op,
                     data |-> j.data, held |-> j.held, merged |-> j.merged]
    BY <2>2 DEF SetJob
  <2>3. [j EXCEPT !.pc = pc]
          = [pc |-> pc, admin |-> j.admin, policy |-> j.policy, op |-> j.op,
                     data |-> j.data, held |-> j.held, merged |-> j.merged]
    BY <2>2, Zenon
  <2>. QED
    BY <2>1, <2>3, Zenon DEF SetTo
<1>2. ASSUME job' = [job EXCEPT ![t].pc = pc, ![t].held = held]
      PROVE  SetTo(t, pc, held, job[t].merged)
  <2>1. job' = [job EXCEPT ![t] = [j EXCEPT !.pc = pc, !.held = held]]
    BY <1>2, Zenon
  <2>2. ASSUME NEW x, x = [j EXCEPT !.pc = pc, !.held = held]
        PROVE  x = [pc |-> pc, admin |-> j.admin, policy |-> j.policy, op |-> j.op,
                     data |-> j.data, held |-> held, merged |-> j.merged]
    BY <2>2 DEF SetJob
  <2>3. [j EXCEPT !.pc = pc, !.held = held]
          = [pc |-> pc, admin |-> j.admin, policy |-> j.policy, op |-> j.op,
                     data |-> j.data, held |-> held, merged |-> j.merged]
    BY <2>2, Zenon
  <2>. QED
    BY <2>1, <2>3, Zenon DEF SetTo
<1>3. ASSUME job' = [job EXCEPT ![t].pc = pc, ![t].merged = merged]
      PROVE  SetTo(t, pc, job[t].held, merged)
  <2>1. job' = [job EXCEPT ![t] = [j EXCEPT !.pc = pc, !.merged = merged]]
    BY <1>3, Zenon
  <2>2. ASSUME NEW x, x = [j EXCEPT !.pc = pc, !.merged = merged]
        PROVE  x = [pc |-> pc, admin |-> j.admin, policy |-> j.policy, op |-> j.op,
                     data |-> j.data, held |-> j.held, merged |-> merged]
    BY <2>2 DEF SetJob
  <2>3. [j EXCEPT !.pc = pc, !.merged = merged]
          = [pc |-> pc, admin |-> j.admin, policy |-> j.policy, op |-> j.op,
                     data |-> j.data, held |-> j.held, merged |-> merged]
    BY <2>2, Zenon
  <2>. QED
    BY <2>1, <2>3, Zenon DEF SetTo
<1>4. ASSUME job' = [job EXCEPT ![t].pc = pc, ![t].held = held, ![t].merged = merged]
      PROVE  SetTo(t, pc, held, merged)
  <2>1. job' = [job EXCEPT ![t] = [j EXCEPT !.pc = pc, !.held = held, !.merged = merged]]
    BY <1>4, Zenon
  <2>2. ASSUME NEW x, x = [j EXCEPT !.pc = pc, !.held = held, !.merged = merged]
        PROVE  x = [pc |-> pc, admin |-> j.admin, policy |-> j.policy, op |-> j.op,
                     data |-> j.data, held |-> held, merged |-> merged]
    BY <2>2 DEF SetJob
  <2>3. [j EXCEPT !.pc = pc, !.held = held, !.merged = merged]
          = [pc |-> pc, admin |-> j.admin, policy |-> j.policy, op |-> j.op,
                     data |-> j.data, held |-> held, merged |-> merged]
    BY <2>2, Zenon
  <2>. QED
    BY <2>1, <2>3, Zenon DEF SetTo
<1>. QED
  BY <1>1, <1>2, <1>3, <1>4, Zenon

LEMMA DisableFields ==
    ASSUME NEW t \in Threads, job[t] \in DisableJob, NEW pc, NEW item, NEW policy, NEW merged, NEW alone
    PROVE  /\ job' = [job EXCEPT ![t].pc = pc]
                => DisableTo(t, pc, job[t].todo, job[t].policy, job[t].merged, job[t].alone)
           /\ job' = [job EXCEPT ![t].pc = pc, ![t].policy = policy, ![t].merged = merged]
                => DisableTo(t, pc, job[t].todo, policy, merged, job[t].alone)
           /\ job' = [job EXCEPT ![t].pc = pc, ![t].alone = alone]
                => DisableTo(t, pc, job[t].todo, job[t].policy, job[t].merged, alone)
           /\ job' = [job EXCEPT ![t].pc = pc, ![t].todo = @ \ {item}]
                => DisableTo(t, pc, job[t].todo \ {item}, job[t].policy, job[t].merged, job[t].alone)
<1>. DEFINE j == job[t]
<1>1. ASSUME job' = [job EXCEPT ![t].pc = pc]
      PROVE  DisableTo(t, pc, job[t].todo, job[t].policy, job[t].merged, job[t].alone)
  <2>1. job' = [job EXCEPT ![t] = [j EXCEPT !.pc = pc]]
    BY <1>1, Zenon
  <2>2. ASSUME NEW x, x = [j EXCEPT !.pc = pc]
        PROVE  x = [pc |-> pc, admin |-> j.admin, values |-> j.values, todo |-> j.todo,
                     policy |-> j.policy, merged |-> j.merged, alone |-> j.alone]
    BY <2>2 DEF DisableJob
  <2>3. [j EXCEPT !.pc = pc]
          = [pc |-> pc, admin |-> j.admin, values |-> j.values, todo |-> j.todo,
                     policy |-> j.policy, merged |-> j.merged, alone |-> j.alone]
    BY <2>2, Zenon
  <2>. QED
    BY <2>1, <2>3, Zenon DEF DisableTo
<1>2. ASSUME job' = [job EXCEPT ![t].pc = pc, ![t].policy = policy, ![t].merged = merged]
      PROVE  DisableTo(t, pc, job[t].todo, policy, merged, job[t].alone)
  <2>1. job' = [job EXCEPT ![t] = [j EXCEPT !.pc = pc, !.policy = policy, !.merged = merged]]
    BY <1>2, Zenon
  <2>2. ASSUME NEW x, x = [j EXCEPT !.pc = pc, !.policy = policy, !.merged = merged]
        PROVE  x = [pc |-> pc, admin |-> j.admin, values |-> j.values, todo |-> j.todo,
                     policy |-> policy, merged |-> merged, alone |-> j.alone]
    BY <2>2 DEF DisableJob
  <2>3. [j EXCEPT !.pc = pc, !.policy = policy, !.merged = merged]
          = [pc |-> pc, admin |-> j.admin, values |-> j.values, todo |-> j.todo,
                     policy |-> policy, merged |-> merged, alone |-> j.alone]
    BY <2>2, Zenon
  <2>. QED
    BY <2>1, <2>3, Zenon DEF DisableTo
<1>3. ASSUME job' = [job EXCEPT ![t].pc = pc, ![t].alone = alone]
      PROVE  DisableTo(t, pc, job[t].todo, job[t].policy, job[t].merged, alone)
  <2>1. job' = [job EXCEPT ![t] = [j EXCEPT !.pc = pc, !.alone = alone]]
    BY <1>3, Zenon
  <2>2. ASSUME NEW x, x = [j EXCEPT !.pc = pc, !.alone = alone]
        PROVE  x = [pc |-> pc, admin |-> j.admin, values |-> j.values, todo |-> j.todo,
                     policy |-> j.policy, merged |-> j.merged, alone |-> alone]
    BY <2>2 DEF DisableJob
  <2>3. [j EXCEPT !.pc = pc, !.alone = alone]
          = [pc |-> pc, admin |-> j.admin, values |-> j.values, todo |-> j.todo,
                     policy |-> j.policy, merged |-> j.merged, alone |-> alone]
    BY <2>2, Zenon
  <2>. QED
    BY <2>1, <2>3, Zenon DEF DisableTo
<1>4. ASSUME job' = [job EXCEPT ![t].pc = pc, ![t].todo = @ \ {item}]
      PROVE  DisableTo(t, pc, job[t].todo \ {item}, job[t].policy, job[t].merged, job[t].alone)
  <2>1. job' = [job EXCEPT ![t] = [j EXCEPT !.pc = pc, !.todo = @ \ {item}]]
    BY <1>4, Zenon
  <2>2. ASSUME NEW x, x = [j EXCEPT !.pc = pc, !.todo = @ \ {item}]
        PROVE  x = [pc |-> pc, admin |-> j.admin, values |-> j.values, todo |-> j.todo \ {item},
                     policy |-> j.policy, merged |-> j.merged, alone |-> j.alone]
    BY <2>2 DEF DisableJob
  <2>3. [j EXCEPT !.pc = pc, !.todo = @ \ {item}]
          = [pc |-> pc, admin |-> j.admin, values |-> j.values, todo |-> j.todo \ {item},
                     policy |-> j.policy, merged |-> j.merged, alone |-> j.alone]
    BY <2>2, Zenon
  <2>. QED
    BY <2>1, <2>3, Zenon DEF DisableTo
<1>. QED
  BY <1>1, <1>2, <1>3, <1>4, Zenon

-----------------------------------------------------------------------------
(* What each action does to the local variables of its thread. *)

LEMMA SetSteps ==
    ASSUME Types, NEW t \in Threads
    PROVE  LET j == job[t]  p == job[t].policy  a == job[t].admin IN
           /\ Find(t) => j \in SetJob /\ SetTo(t, "enter", j.held, j.merged)
           /\ Enter(t) => j \in SetJob /\ SetTo(t, "merge", own[p][a], j.merged)
           /\ ReadOthers(t) => j \in SetJob /\ SetTo(t, "execute", j.held, Others(p, a))
           /\ Save(t) => j \in SetJob /\ SetTo(t, "announce", j.held, j.merged)
           /\ Execute(t) \/ Announce(t) => j \in SetJob
<1>1. job[t].pc \in SetPcs => job[t] \in SetJob
  BY Kinds
<1>2. /\ Find(t) => job[t] \in SetJob
      /\ Enter(t) => job[t] \in SetJob
      /\ ReadOthers(t) => job[t] \in SetJob
      /\ Save(t) => job[t] \in SetJob
      /\ Execute(t) \/ Announce(t) => job[t] \in SetJob
  BY <1>1 DEF Find, Enter, ReadOthers, Execute, Save, Announce, SetPcs
<1>3. Find(t) => SetTo(t, "enter", job[t].held, job[t].merged)
  BY <1>2, SetFields, Zenon DEF Find, Goto
<1>4. Enter(t) => SetTo(t, "merge", own[job[t].policy][job[t].admin], job[t].merged)
  BY <1>2, SetFields, Zenon DEF Enter
<1>5. ReadOthers(t) => SetTo(t, "execute", job[t].held, Others(job[t].policy, job[t].admin))
  BY <1>2, SetFields, Zenon DEF ReadOthers
<1>6. Save(t) => SetTo(t, "announce", job[t].held, job[t].merged)
  BY <1>2, SetFields, Zenon DEF Save, Goto
<1>. QED
  BY <1>2, <1>3, <1>4, <1>5, <1>6, Zenon

(* OnSetExecute: what the plugin returns is kept for the saving, or the call ends. *)
LEMMA ExecuteEffect ==
    ASSUME Types, NEW t \in Threads, Execute(t)
    PROVE  \E o \in Outcomes(job[t]) :
              /\ enforced' = [enforced EXCEPT ![job[t].policy] = o.enforced]
              /\ \/ /\ o.ok /\ o.own # job[t].held
                    /\ SetTo(t, "save", o.own, o.merged)
                    /\ UNCHANGED <<stripes, stale>>
                 \/ /\ ~(o.ok /\ o.own # job[t].held)
                    /\ Finish(t) /\ Unlock(t) /\ stale' = stale \ {t}
<1>1. job[t] \in SetJob
  BY SetSteps
<1>2. PICK o \in Outcomes(job[t]) :
          /\ enforced' = [enforced EXCEPT ![job[t].policy] = o.enforced]
          /\ IF o.ok /\ o.own # job[t].held
             THEN /\ job' = [job EXCEPT ![t].pc = "save", ![t].held = o.own, ![t].merged = o.merged]
                  /\ UNCHANGED <<stripes, stale>>
             ELSE Finish(t) /\ Unlock(t) /\ stale' = stale \ {t}
  BY Zenon DEF Execute
<1>. QED
  BY <1>1, <1>2, SetFields, Zenon

LEMMA DisableSteps ==
    ASSUME Types, NEW t \in Threads
    PROVE  LET j == job[t]  p == job[t].policy  a == job[t].admin IN
           /\ \A q \in Policies : TakeItem(t, q) =>
                 j \in DisableJob /\ DisableTo(t, "unenforce", j.todo, q, Others(q, a), j.alone)
           /\ Unenforce(t) => j \in DisableJob /\ DisableTo(t, "lookup", j.todo, p, j.merged, j.alone)
           /\ Lookup(t) => j \in DisableJob /\ DisableTo(t, "drop", j.todo, p, j.merged, Unset(p))
           /\ Recheck(t) =>
                 /\ j \in DisableJob
                 /\ \/ DisableTo(t, "unsubscribe", j.todo, p, j.merged, j.alone)
                    \/ DisableTo(t, "items", j.todo \ {p}, p, j.merged, j.alone)
           /\ Unsubscribe(t) =>
                 j \in DisableJob /\ DisableTo(t, "items", j.todo \ {p}, p, j.merged, j.alone)
           /\ Drop(t) \/ EndDisable(t) => j \in DisableJob
<1>1. job[t].pc \in DisablePcs => job[t] \in DisableJob
  BY Kinds
<1>2. /\ \A q \in Policies : TakeItem(t, q) => job[t] \in DisableJob
      /\ Unenforce(t) => job[t] \in DisableJob
      /\ Lookup(t) => job[t] \in DisableJob
      /\ Recheck(t) => job[t] \in DisableJob
      /\ Unsubscribe(t) => job[t] \in DisableJob
      /\ Drop(t) \/ EndDisable(t) => job[t] \in DisableJob
  BY <1>1 DEF TakeItem, Unenforce, Lookup, Drop, Recheck, Unsubscribe, EndDisable, DisablePcs
<1>3. \A q \in Policies : TakeItem(t, q) =>
         DisableTo(t, "unenforce", job[t].todo, q, Others(q, job[t].admin), job[t].alone)
  BY <1>2, DisableFields, Zenon DEF TakeItem
<1>4. Unenforce(t) =>
         DisableTo(t, "lookup", job[t].todo, job[t].policy, job[t].merged, job[t].alone)
  BY <1>2, DisableFields, Zenon DEF Unenforce, Goto
<1>5. Lookup(t) =>
         DisableTo(t, "drop", job[t].todo, job[t].policy, job[t].merged, Unset(job[t].policy))
  BY <1>2, DisableFields, Zenon DEF Lookup
<1>6. Recheck(t) =>
         \/ DisableTo(t, "unsubscribe", job[t].todo, job[t].policy, job[t].merged, job[t].alone)
         \/ DisableTo(t, "items", job[t].todo \ {job[t].policy}, job[t].policy, job[t].merged,
                      job[t].alone)
  BY <1>2, DisableFields, Zenon DEF Recheck, Goto
<1>7. Unsubscribe(t) =>
         DisableTo(t, "items", job[t].todo \ {job[t].policy}, job[t].policy, job[t].merged, job[t].alone)
  BY <1>2, DisableFields, Zenon DEF Unsubscribe
<1>. QED
  BY <1>2, <1>3, <1>4, <1>5, <1>6, <1>7, Zenon

(* With writes that succeed, the administrator's value goes or, when nobody   *)
(* has one any more, the combined value does.                                 *)
LEMMA DropEffect ==
    ASSUME Types, NoFailedWrites, NEW t \in Threads, Drop(t)
    PROVE  LET j == job[t]  p == job[t].policy  a == job[t].admin IN
           /\ DisableTo(t, "recheck", j.todo, p, j.merged, j.alone)
           /\ IF j.alone THEN combined' = [combined EXCEPT ![p] = {}] /\ UNCHANGED own
              ELSE /\ combined' = [combined EXCEPT ![p] = j.merged]
                   /\ own' = [own EXCEPT ![p][a] = {}]
           /\ UNCHANGED <<adminLock, mutexLock>>
<1>1. job[t] \in DisableJob
  BY DisableSteps
<1>2. /\ Goto(t, "recheck") /\ UNCHANGED <<adminLock, mutexLock>>
      /\ IF job[t].alone THEN combined' = [combined EXCEPT ![job[t].policy] = {}] /\ UNCHANGED own
         ELSE SetPolicy(job[t].policy, job[t].admin, {}, job[t].merged, TRUE)
  BY NoFailedWrites, Zenon DEF Drop, SetPolicy, NoFailedWrites
<1>3. DisableTo(t, "recheck", job[t].todo, job[t].policy, job[t].merged, job[t].alone)
  BY <1>1, <1>2, DisableFields, Zenon DEF Goto
<1>. QED
  BY <1>2, <1>3, Zenon DEF SetPolicy, NoFailedWrites

LEMMA SaveEffect ==
    ASSUME NoFailedWrites, NEW t \in Threads, Save(t)
    PROVE  /\ combined' = [combined EXCEPT ![job[t].policy] = job[t].merged]
           /\ own' = [own EXCEPT ![job[t].policy][job[t].admin] = job[t].held]
  BY Zenon DEF Save, SetPolicy, NoFailedWrites
-----------------------------------------------------------------------------
(* What the plugins return. *)

LEMMA RefusedElements == ASSUME NEW s, NEW f \in Refused(s) PROVE f \subseteq s
  BY DEF Refused

(* A plugin stores the administrator's value merged with the others, and      *)
(* leaves a boolean a boolean.                                                *)
Merged(o, others) == o.ok => o.merged = others \cup o.own
Typed(o) == o.own \in Value /\ o.merged \in Value /\ o.enforced \in Value

LEMMA SetBoolOutcomes ==
    ASSUME Types, NEW p \in BoolPolicies, p \in Policies, NEW d, d \subseteq {On},
           NEW others, others \subseteq {On}, NEW o \in SetBool(p, d, others)
    PROVE  Typed(o) /\ Merged(o, others) /\ o.own \subseteq {On}
<1>1. enforced[p] \in Value /\ d \in Value /\ others \in Value /\ {} \in Value
  BY DEF Types, Value
<1>2. \/ others # {} /\ o = Done(d, others, enforced[p])
      \/ o = Failed(enforced[p])
      \/ others = {} /\ o = Done(d, d, d)
      \/ o = Failed(d)
  BY Zenon DEF SetBool
<1>3. CASE others # {} /\ o = Done(d, others, enforced[p])
  BY <1>1, <1>3 DEF Done, Typed, Merged
<1>4. CASE others = {} /\ o = Done(d, d, d)
  BY <1>1, <1>4 DEF Done, Typed, Merged
<1>5. CASE o = Failed(enforced[p]) \/ o = Failed(d)
  BY <1>1, <1>5 DEF Failed, Typed, Merged
<1>. QED
  BY <1>2, <1>3, <1>4, <1>5

LEMMA AddOutcomes ==
    ASSUME Types, NEW p \in Policies, NEW d \in Value, NEW held \in Value, NEW others \in Value,
           NEW o \in AddElements(p, d, held, others)
    PROVE  Typed(o) /\ Merged(o, others)
<1>. DEFINE fresh == (d \ held) \ others
<1>1. enforced[p] \in Value /\ {} \in Value
  BY DEF Types, Value
<1>2. \/ o = Failed(enforced[p])
      \/ \E f \in Refused(fresh) :
            o = Done((held \cup d) \ f, (others \cup held \cup d) \ f, enforced[p] \cup (fresh \ f))
  BY Zenon DEF AddElements
<1>3. CASE o = Failed(enforced[p])
  BY <1>1, <1>3 DEF Failed, Typed, Merged
<1>4. ASSUME NEW f \in Refused(fresh),
             o = Done((held \cup d) \ f, (others \cup held \cup d) \ f, enforced[p] \cup (fresh \ f))
      PROVE  Typed(o) /\ Merged(o, others)
  <2>1. f \subseteq fresh
    BY RefusedElements
  <2>2. (others \cup held \cup d) \ f = others \cup ((held \cup d) \ f)
    BY <2>1
  <2>3. /\ (held \cup d) \ f \in Value /\ (others \cup held \cup d) \ f \in Value
        /\ enforced[p] \cup (fresh \ f) \in Value
    BY <1>1 DEF Value
  <2>. QED
    BY <1>4, <2>2, <2>3 DEF Done, Typed, Merged
<1>. QED
  BY <1>2, <1>3, <1>4

LEMMA RemoveOutcomes ==
    ASSUME Types, NEW p \in Policies, NEW d \in Value, NEW held \in Value, NEW others \in Value,
           NEW o \in RemoveElements(p, d, held, others)
    PROVE  Typed(o) /\ Merged(o, others)
<1>. DEFINE gone == (d \cap held) \ others
            left(f) == held \ ((d \cap held) \ f)
<1>1. enforced[p] \in Value /\ {} \in Value
  BY DEF Types, Value
<1>2. \/ o = Failed(enforced[p])
      \/ \E f \in Refused(gone) :
            o = Done(left(f), others \cup left(f), enforced[p] \ (gone \ f))
  BY Zenon DEF RemoveElements
<1>3. CASE o = Failed(enforced[p])
  BY <1>1, <1>3 DEF Failed, Typed, Merged
<1>4. ASSUME NEW f \in Refused(gone),
             o = Done(left(f), others \cup left(f), enforced[p] \ (gone \ f))
      PROVE  Typed(o) /\ Merged(o, others)
  <2>1. left(f) \in Value /\ others \cup left(f) \in Value /\ enforced[p] \ (gone \ f) \in Value
    BY <1>1 DEF Value
  <2>. QED
    BY <1>4, <2>1 DEF Done, Typed, Merged
<1>. QED
  BY <1>2, <1>3, <1>4

LEMMA OutcomesAreRight ==
    ASSUME Types, NEW j \in SetJob, NEW o \in Outcomes(j),
           j.policy \in BoolPolicies => j.data \subseteq {On} /\ j.merged \subseteq {On}
    PROVE  Typed(o) /\ Merged(o, j.merged) /\ (j.policy \in BoolPolicies => o.own \subseteq {On})
<1>1. j.policy \in Policies /\ j.data \in Value /\ j.held \in Value /\ j.merged \in Value
  BY DEF SetJob
<1>2. CASE j.policy \in BoolPolicies
  BY <1>1, <1>2, SetBoolOutcomes DEF Outcomes
<1>3. CASE j.policy \notin BoolPolicies /\ j.op = "set"
  BY <1>1, <1>3, AddOutcomes DEF Outcomes
<1>4. CASE j.policy \notin BoolPolicies /\ j.op # "set"
  BY <1>1, <1>4, RemoveOutcomes DEF Outcomes
<1>. QED
  BY <1>2, <1>3, <1>4

-----------------------------------------------------------------------------
(* How the store changes. *)

LEMMA OwnUpdate ==
    ASSUME Types, NEW p \in Policies, NEW a \in Admins, NEW v \in Value,
           own' = [own EXCEPT ![p][a] = v]
    PROVE  /\ own' \in [Policies -> [Admins -> Value]]
           /\ own'[p][a] = v
           /\ \A q \in Policies, b \in Admins : q # p \/ b # a => own'[q][b] = own[q][b]
           /\ Others(p, a)' = Others(p, a)
           /\ Merge(p)' = Others(p, a) \cup v
           /\ \A q \in Policies \ {p}, b \in Admins :
                 Others(q, b)' = Others(q, b) /\ Merge(q)' = Merge(q) /\ (Unset(q)' <=> Unset(q))
<1>1. own \in [Policies -> [Admins -> Value]] /\ own[p] \in [Admins -> Value]
  BY DEF Types
<1>2. own' \in [Policies -> [Admins -> Value]]
  BY <1>1
<1>3. own'[p] = [own[p] EXCEPT ![a] = v] /\ \A q \in Policies \ {p} : own'[q] = own[q]
  BY <1>1
<1>4. own'[p][a] = v /\ \A b \in Admins \ {a} : own'[p][b] = own[p][b]
  BY <1>1, <1>3
<1>5. Others(p, a)' = Others(p, a)
  BY <1>4 DEF Others
<1>6. Merge(p)' = Others(p, a) \cup v
  BY <1>4 DEF Merge, Others
<1>7. ASSUME NEW q \in Policies \ {p}, NEW b \in Admins
      PROVE  Others(q, b)' = Others(q, b) /\ Merge(q)' = Merge(q) /\ (Unset(q)' <=> Unset(q))
  <2>1. own'[q] = own[q]
    BY <1>3
  <2>2. Others(q, b)' = Others(q, b) /\ Merge(q)' = Merge(q)
    BY <2>1 DEF Others, Merge
  <2>3. Unset(q)' <=> Unset(q)
    BY <2>1, Zenon DEF Unset
  <2>. QED
    BY <2>2, <2>3
<1>. QED
  BY <1>2, <1>3, <1>4, <1>5, <1>6, <1>7, Zenon

LEMMA OwnUntouched ==
    ASSUME UNCHANGED own
    PROVE  /\ \A p \in Policies : Merge(p)' = Merge(p) /\ (Unset(p)' <=> Unset(p))
           /\ \A p \in Policies, a \in Admins : Others(p, a)' = Others(p, a)
<1>1. ASSUME NEW p \in Policies PROVE Merge(p)' = Merge(p)
  BY DEF Merge
<1>2. ASSUME NEW p \in Policies PROVE Unset(p)' <=> Unset(p)
  BY Zenon DEF Unset
<1>3. ASSUME NEW p \in Policies, NEW a \in Admins PROVE Others(p, a)' = Others(p, a)
  BY DEF Others
<1>. QED
  BY <1>1, <1>2, <1>3

LEMMA SetToFields ==
    ASSUME Types, NEW t \in Threads, job[t] \in SetJob, NEW pc \in SetPcs,
           NEW held \in Value, NEW merged \in Value, SetTo(t, pc, held, merged)
    PROVE  /\ job' \in [Threads -> Jobs]
           /\ job'[t] \in SetJob
           /\ job'[t].pc = pc /\ job'[t].held = held /\ job'[t].merged = merged
           /\ job'[t].admin = job[t].admin /\ job'[t].policy = job[t].policy
           /\ job'[t].data = job[t].data /\ job'[t].op = job[t].op
           /\ \A u \in Threads \ {t} : job'[u] = job[u]
<1>. DEFINE r == [pc |-> pc, admin |-> job[t].admin, policy |-> job[t].policy, op |-> job[t].op,
                  data |-> job[t].data, held |-> held, merged |-> merged]
<1>1. r \in SetJob /\ job' = [job EXCEPT ![t] = r]
  BY DEF SetTo, SetJob, SetPcs
<1>2. job' \in [Threads -> Jobs] /\ Becomes(t, r)
  BY <1>1, JobUpdate DEF Jobs
<1>. QED
  BY <1>1, <1>2 DEF Becomes

LEMMA FinishFields ==
    ASSUME Types, NEW t \in Threads, Finish(t)
    PROVE  /\ job' \in [Threads -> Jobs] /\ job'[t].pc = "idle"
           /\ \A u \in Threads \ {t} : job'[u] = job[u]
  BY JobUpdate DEF Finish, Becomes, Jobs, Idle
-----------------------------------------------------------------------------
(* Steps that leave the store alone. *)

(* Only the job of the thread that takes the step has to be looked at.        *)
LEMMA StoreUntouched ==
    ASSUME UpdateInv, Types', NEW t \in Threads,
           UNCHANGED <<own, combined, raced, orphaned>>,
           stale \ {t} \subseteq stale',
           \A u \in Threads \ {t} : job'[u] = job[u],
           adminLock' = adminLock \/ adminLock \in {NoThread, t},
           \A a \in active \ active', p \in Policies : Gone(p, a),
           JobIsRight(t)'
    PROVE  UpdateInv'
<1>1. StoreIsRight'
  <2>1. BooleansAreOn'
    BY DEF UpdateInv, StoreIsRight, BooleansAreOn
  <2>2. MergeUnlessRaced'
    BY OwnUntouched DEF UpdateInv, StoreIsRight, MergeUnlessRaced
  <2>3. OrphansWereOvertaken'
    BY DEF UpdateInv, StoreIsRight, OrphansWereOvertaken, Gone
  <2>. QED
    BY <2>1, <2>2, <2>3 DEF StoreIsRight
<1>2. ASSUME NEW u \in Threads \ {t} PROVE JobIsRight(u)'
  <2>1. AsksForBoolean(u)'
    BY DEF UpdateInv, JobIsRight, AsksForBoolean
  <2>2. ReadIsCurrent(u)'
    <3>1. job'[u] = job[u] /\ (u \notin stale' => u \notin stale) /\ ReadIsCurrent(u)
      BY DEF UpdateInv, JobIsRight
    <3>2. job[u].pc \in {"execute", "save", "unenforce", "lookup", "drop"} =>
             job[u].policy \in Policies /\ job[u].admin \in Admins
      BY Kinds DEF UpdateInv, SetPcs, DisablePcs, SetJob, DisableJob
    <3>. QED
      BY <3>1, <3>2, OwnUntouched DEF ReadIsCurrent
  <2>3. DisablesAlone(u)'
    BY UpdateAssumption DEF UpdateInv, JobIsRight, DisablesAlone
  <2>4. DealtWith(u)'
    BY DEF UpdateInv, JobIsRight, DealtWith, Gone
  <2>. QED
    BY <2>1, <2>2, <2>3, <2>4 DEF JobIsRight
<1>. QED
  BY <1>1, <1>2 DEF UpdateInv

LEMMA BeginSetKeeps ==
    ASSUME UpdateInv, NEW t \in Threads, NEW a \in Admins, NEW p \in Policies,
           NEW r \in Requests(p), BeginSet(t, a, p, r)
    PROVE  UpdateInv'
<1>. DEFINE n == [pc |-> "find", admin |-> a, policy |-> p, op |-> r.op,
                  data |-> r.data, held |-> {}, merged |-> {}]
<1>1. /\ r.op \in {"set", "remove"} /\ r.data \in Value
      /\ p \in BoolPolicies => r.data \subseteq {On}
  BY DEF Requests, Value
<1>2. n \in SetJob
  BY <1>1 DEF SetJob, Value
<1>3. job' \in [Threads -> Jobs] /\ Becomes(t, n)
  BY <1>2, JobUpdate DEF UpdateInv, BeginSet, Jobs
<1>4. Types'
  BY <1>3, UpdateAssumption DEF UpdateInv, Types, BeginSet, Budget, store, locks, history
<1>5. JobIsRight(t)'
  BY <1>1, <1>3 DEF Becomes, JobIsRight, AsksForBoolean, ReadIsCurrent, DisablesAlone, DealtWith,
     SetPcs, DisablePcs
<1>. QED
  BY <1>3, <1>4, <1>5, StoreUntouched DEF BeginSet, store, locks, history, Becomes

LEMMA FindKeeps ==
    ASSUME UpdateInv, NEW t \in Threads, Find(t)
    PROVE  UpdateInv'
<1>1. job[t] \in SetJob /\ SetTo(t, "enter", job[t].held, job[t].merged)
  BY SetSteps DEF UpdateInv
<1>2. job[t].held \in Value /\ job[t].merged \in Value /\ "enter" \in SetPcs
  BY <1>1 DEF SetJob, SetPcs
<1>3. /\ job' \in [Threads -> Jobs]
      /\ job'[t].pc = "enter" /\ job'[t].held = job[t].held /\ job'[t].merged = job[t].merged
      /\ job'[t].policy = job[t].policy /\ job'[t].data = job[t].data
      /\ \A u \in Threads \ {t} : job'[u] = job[u]
  BY <1>1, <1>2, SetToFields DEF UpdateInv
<1>4. Types'
  BY <1>3 DEF UpdateInv, Types, Find, store, locks, history
<1>5. JobIsRight(t)'
  BY <1>3 DEF Find, UpdateInv, JobIsRight, AsksForBoolean, ReadIsCurrent, DisablesAlone, DealtWith,
     SetPcs, DisablePcs
<1>. QED
  BY <1>3, <1>4, <1>5, StoreUntouched DEF Find, store, locks, history

LEMMA EnterKeeps ==
    ASSUME UpdateInv, NEW t \in Threads, Enter(t)
    PROVE  UpdateInv'
<1>. DEFINE p == job[t].policy  a == job[t].admin
<1>1. job[t] \in SetJob /\ SetTo(t, "merge", own[p][a], job[t].merged)
  BY SetSteps DEF UpdateInv
<1>2. p \in Policies /\ a \in Admins /\ job[t].merged \in Value /\ "merge" \in SetPcs
  BY <1>1 DEF SetJob, SetPcs
<1>3. own[p][a] \in Value /\ (p \in BoolPolicies => own[p][a] \subseteq {On})
  BY <1>2, ValuesRead DEF UpdateInv, StoreIsRight, BooleansAreOn
<1>4. /\ job' \in [Threads -> Jobs]
      /\ job'[t].pc = "merge" /\ job'[t].held = own[p][a] /\ job'[t].merged = job[t].merged
      /\ job'[t].policy = p /\ job'[t].data = job[t].data
      /\ \A u \in Threads \ {t} : job'[u] = job[u]
  BY <1>1, <1>2, <1>3, SetToFields DEF UpdateInv
<1>5. Types'
  BY <1>2, <1>4, UpdateAssumption DEF UpdateInv, Types, Enter, Lock, store, history, Thread
<1>6. JobIsRight(t)'
  BY <1>3, <1>4 DEF Enter, UpdateInv, JobIsRight, AsksForBoolean, ReadIsCurrent, DisablesAlone,
     DealtWith, SetPcs, DisablePcs
<1>. QED
  BY <1>4, <1>5, <1>6, StoreUntouched DEF Enter, store, history

LEMMA ReadOthersKeeps ==
    ASSUME UpdateInv, NEW t \in Threads, ReadOthers(t)
    PROVE  UpdateInv'
<1>1. job[t] \in SetJob
      /\ SetTo(t, "execute", job[t].held, Others(job[t].policy, job[t].admin))
  BY SetSteps DEF UpdateInv
<1>2. PICK p \in Policies, a \in Admins : p = job[t].policy /\ a = job[t].admin
  BY <1>1 DEF SetJob
<1>3. job[t].held \in Value /\ Others(p, a) \in Value /\ "execute" \in SetPcs
  BY <1>1, ValuesRead DEF UpdateInv, SetJob, SetPcs
<1>4. /\ job' \in [Threads -> Jobs]
      /\ job'[t].pc = "execute" /\ job'[t].held = job[t].held /\ job'[t].merged = Others(p, a)
      /\ job'[t].policy = p /\ job'[t].admin = a /\ job'[t].data = job[t].data
      /\ \A u \in Threads \ {t} : job'[u] = job[u]
  BY <1>1, <1>2, <1>3, SetToFields DEF UpdateInv
<1>5. Types'
  BY <1>4 DEF UpdateInv, Types, ReadOthers, store, locks, history
<1>6. Others(p, a)' = Others(p, a)
  BY OwnUntouched DEF ReadOthers, store
<1>7. ReadIsCurrent(t)'
  BY <1>4, <1>6 DEF ReadIsCurrent
<1>8. AsksForBoolean(t)'
  BY <1>2, <1>4, BooleansRead
     DEF ReadOthers, UpdateInv, StoreIsRight, JobIsRight, AsksForBoolean, SetPcs
<1>9. DisablesAlone(t)' /\ DealtWith(t)'
  BY <1>4 DEF DisablesAlone, DealtWith, DisablePcs
<1>. QED
  BY <1>4, <1>5, <1>7, <1>8, <1>9, StoreUntouched DEF ReadOthers, store, locks, history, JobIsRight

(* The plugin acts and its values are kept for the saving, or the call ends.  *)
LEMMA ExecuteKeeps ==
    ASSUME UpdateInv, NEW t \in Threads, Execute(t)
    PROVE  UpdateInv'
<1>1. job[t] \in SetJob /\ job[t].pc = "execute"
  BY SetSteps DEF UpdateInv, Execute
<1>2. PICK p \in Policies, a \in Admins : p = job[t].policy /\ a = job[t].admin
  BY <1>1 DEF SetJob
<1>3. PICK o \in Outcomes(job[t]) :
         /\ enforced' = [enforced EXCEPT ![job[t].policy] = o.enforced]
         /\ \/ /\ o.ok /\ o.own # job[t].held
               /\ SetTo(t, "save", o.own, o.merged)
               /\ UNCHANGED <<stripes, stale>>
            \/ /\ ~(o.ok /\ o.own # job[t].held)
               /\ Finish(t) /\ Unlock(t) /\ stale' = stale \ {t}
  BY ExecuteEffect, Zenon DEF UpdateInv
<1>4. /\ p \in BoolPolicies => job[t].data \subseteq {On} /\ job[t].merged \subseteq {On}
      /\ t \notin stale => job[t].merged = Others(p, a)
  BY <1>1, <1>2 DEF UpdateInv, JobIsRight, AsksForBoolean, ReadIsCurrent, SetPcs
<1>5. Typed(o) /\ Merged(o, job[t].merged) /\ (p \in BoolPolicies => o.own \subseteq {On})
  BY <1>1, <1>2, <1>4, OutcomesAreRight DEF UpdateInv
<1>6. enforced' \in [Policies -> Value]
  BY <1>3, <1>5 DEF UpdateInv, Types, Typed
<1>7. CASE o.ok /\ SetTo(t, "save", o.own, o.merged) /\ UNCHANGED <<stripes, stale>>
  <2>1. /\ job' \in [Threads -> Jobs]
        /\ job'[t].pc = "save" /\ job'[t].held = o.own /\ job'[t].merged = o.merged
        /\ job'[t].policy = p /\ job'[t].admin = a /\ job'[t].data = job[t].data
        /\ \A u \in Threads \ {t} : job'[u] = job[u]
    BY <1>1, <1>2, <1>5, <1>7, SetToFields DEF UpdateInv, Typed, SetPcs
  <2>2. Types'
    BY <1>6, <1>7, <2>1 DEF UpdateInv, Types, Execute, store
  <2>3. Others(p, a)' = Others(p, a)
    BY OwnUntouched DEF Execute, store
  <2>4. ReadIsCurrent(t)'
    BY <1>4, <1>5, <1>7, <2>1, <2>3 DEF ReadIsCurrent, Merged
  <2>5. AsksForBoolean(t)'
    BY <1>4, <1>5, <1>7, <2>1 DEF AsksForBoolean, Merged
  <2>6. DisablesAlone(t)' /\ DealtWith(t)'
    BY <2>1 DEF DisablesAlone, DealtWith, DisablePcs
  <2>. QED
    BY <1>7, <2>1, <2>2, <2>4, <2>5, <2>6, StoreUntouched DEF Execute, store, JobIsRight
<1>8. CASE Finish(t) /\ Unlock(t) /\ stale' = stale \ {t}
  <2>1. /\ job' \in [Threads -> Jobs] /\ job'[t].pc = "idle"
        /\ \A u \in Threads \ {t} : job'[u] = job[u]
    BY <1>8, FinishFields DEF UpdateInv
  <2>2. stripes' \in [Groups -> Thread]
    BY <1>8 DEF UpdateInv, Types, Unlock, Thread
  <2>3. Types'
    BY <1>6, <1>8, <2>1, <2>2 DEF UpdateInv, Types, Execute, store
  <2>4. JobIsRight(t)'
    BY <2>1 DEF JobIsRight, AsksForBoolean, ReadIsCurrent, DisablesAlone, DealtWith, SetPcs, DisablePcs
  <2>. QED
    BY <1>8, <2>1, <2>3, <2>4, StoreUntouched DEF Execute, store
<1>. QED
  BY <1>3, <1>7, <1>8

LEMMA AnnounceKeeps ==
    ASSUME UpdateInv, NEW t \in Threads, Announce(t)
    PROVE  UpdateInv'
<1>1. job[t] \in SetJob
  BY SetSteps DEF UpdateInv
<1>2. /\ job' \in [Threads -> Jobs] /\ job'[t].pc = "idle"
      /\ \A u \in Threads \ {t} : job'[u] = job[u]
  BY FinishFields DEF UpdateInv, Announce
<1>3. stripes' \in [Groups -> Thread] /\ subscribed' \subseteq Policies
  BY <1>1 DEF UpdateInv, Types, Announce, Unlock, Thread, SetJob
<1>4. Types'
  BY <1>2, <1>3 DEF UpdateInv, Types, Announce, store, history
<1>5. JobIsRight(t)'
  BY <1>2 DEF JobIsRight, AsksForBoolean, ReadIsCurrent, DisablesAlone, DealtWith, SetPcs, DisablePcs
<1>. QED
  BY <1>2, <1>4, <1>5, StoreUntouched DEF Announce, store, history
-----------------------------------------------------------------------------
(* Saving and dropping a value. *)

(* A thread that has read the merge of p is stale once another has written p, *)
(* and whoever disables an administrator sees that a value of it was saved.   *)
LEMMA StoreWritten ==
    ASSUME UpdateInv, Types', NEW t \in Threads, NEW p \in Policies, NEW a \in Admins,
           p = job[t].policy, NEW v \in Value, NEW m,
           own' = [own EXCEPT ![p][a] = v] \/ (UNCHANGED own /\ v = own[p][a]),
           combined' = [combined EXCEPT ![p] = m],
           t \notin stale => m = Others(p, a) \cup v,
           p \in BoolPolicies => v \subseteq {On},
           Wrote(t, p),
           orphaned \subseteq orphaned',
           v # {} => own[p][a] = v \/ (a \in active /\ ~BeingDisabled(a)) \/ a \in orphaned',
           UNCHANGED <<active, adminLock>>,
           \A u \in Threads \ {t} : job'[u] = job[u],
           JobIsRight(t)'
    PROVE  UpdateInv'
<1>1. /\ own'[p][a] = v
      /\ \A q \in Policies, b \in Admins : q # p \/ b # a => own'[q][b] = own[q][b]
      /\ Merge(p)' = Others(p, a) \cup v
      /\ \A q \in Policies \ {p}, b \in Admins :
            Others(q, b)' = Others(q, b) /\ Merge(q)' = Merge(q) /\ (Unset(q)' <=> Unset(q))
  <2>1. CASE own' = [own EXCEPT ![p][a] = v]
    <3>1. Types
      BY DEF UpdateInv
    <3>2. own'[p][a] = v
      BY <2>1, <3>1, OwnUpdate, ZenonT(60)
    <3>3. \A q \in Policies, b \in Admins : q # p \/ b # a => own'[q][b] = own[q][b]
      <4>1. own \in [Policies -> [Admins -> Value]]
        BY <3>1 DEF Types
      <4>. QED
        BY <2>1, <4>1
    <3>4. Merge(p)' = Others(p, a) \cup v
      BY <2>1, <3>1, OwnUpdate, ZenonT(60)
    <3>5. \A q \in Policies \ {p}, b \in Admins :
             Others(q, b)' = Others(q, b) /\ Merge(q)' = Merge(q) /\ (Unset(q)' <=> Unset(q))
      BY <2>1, <3>1, OwnUpdate, ZenonT(60)
    <3>. QED
      BY <3>2, <3>3, <3>4, <3>5
  <2>2. CASE UNCHANGED own /\ v = own[p][a]
    BY <2>2, OwnUntouched, ValuesRead DEF UpdateInv
  <2>. QED
    BY <2>1, <2>2
<1>2. BooleansAreOn'
  <2>1. ASSUME NEW q \in BoolPolicies, NEW b \in Admins PROVE own'[q][b] \subseteq {On}
    BY <1>1, UpdateAssumption DEF UpdateInv, StoreIsRight, BooleansAreOn
  <2>. QED
    BY <2>1 DEF BooleansAreOn
<1>3. MergeUnlessRaced'
  <2>1. ASSUME NEW q \in Policies \ raced' PROVE combined'[q] = Merge(q)'
    <3>1. CASE q = p
      <4>1. t \notin stale
        BY <2>1, <3>1 DEF Wrote
      <4>. QED
        BY <1>1, <3>1, <4>1 DEF UpdateInv, Types
    <3>2. CASE q # p
      <4>1. q \notin raced
        BY <2>1, <3>2 DEF Wrote
      <4>2. combined'[q] = combined[q]
        BY <3>2 DEF UpdateInv, Types
      <4>. QED
        BY <1>1, <3>2, <4>1, <4>2 DEF UpdateInv, StoreIsRight, MergeUnlessRaced
    <3>. QED
      BY <3>1, <3>2
  <2>. QED
    BY <2>1 DEF MergeUnlessRaced
<1>4. OrphansWereOvertaken'
  BY <1>1 DEF UpdateInv, StoreIsRight, OrphansWereOvertaken
<1>5. ASSUME NEW u \in Threads \ {t} PROVE JobIsRight(u)'
  <2>1. job'[u] = job[u] /\ JobIsRight(u)
    BY DEF UpdateInv
  <2>2. AsksForBoolean(u)' /\ DisablesAlone(u)'
    BY <2>1 DEF JobIsRight, AsksForBoolean, DisablesAlone
  <2>3. ReadIsCurrent(u)'
    <3>1. CASE job[u].pc \in {"execute", "save", "unenforce", "lookup", "drop"}
      <4>1. PICK q \in Policies, b \in Admins : q = job[u].policy /\ b = job[u].admin
        BY <3>1, Kinds DEF UpdateInv, SetPcs, DisablePcs, SetJob, DisableJob
      <4>2. q = p => u \in stale'
        BY <3>1, <4>1 DEF Wrote, Readers
      <4>3. u \notin stale' => u \notin stale
        BY DEF Wrote
      <4>4. q # p => Others(q, b)' = Others(q, b) /\ (Unset(q)' <=> Unset(q))
        BY <1>1
      <4>. QED
        BY <2>1, <4>1, <4>2, <4>3, <4>4 DEF JobIsRight, ReadIsCurrent
    <3>2. CASE job[u].pc \notin {"execute", "save", "unenforce", "lookup", "drop"}
      BY <2>1, <3>2 DEF ReadIsCurrent
    <3>. QED
      BY <3>1, <3>2
  <2>4. DealtWith(u)'
    <3>1. CASE job[u].pc \in DisablePcs
      <4>1. PICK r \in Policies, b \in Admins : r = job[u].policy /\ b = job[u].admin
        BY <3>1, Kinds DEF UpdateInv, DisableJob
      <4>2. adminLock = u
        BY <2>1, <3>1 DEF JobIsRight, DisablesAlone
      <4>3. b = a => BeingDisabled(a)
        BY <4>1, <4>2 DEF BeingDisabled
      <4>4. ASSUME NEW q \in Policies, Gone(q, b) PROVE Gone(q, b)'
        BY <1>1, <4>3, <4>4 DEF Gone
      <4>5. job'[u] = job[u] /\ DealtWith(u)
        BY <2>1 DEF JobIsRight
      <4>. QED
        BY <3>1, <4>1, <4>4, <4>5 DEF DealtWith
    <3>2. CASE job[u].pc \notin DisablePcs
      BY <2>1, <3>2 DEF DealtWith
    <3>. QED
      BY <3>1, <3>2
  <2>. QED
    BY <2>2, <2>3, <2>4 DEF JobIsRight
<1>. QED
  BY <1>2, <1>3, <1>4, <1>5 DEF UpdateInv, StoreIsRight

LEMMA SaveKeeps ==
    ASSUME UpdateInv, NoFailedWrites, NEW t \in Threads, Save(t)
    PROVE  UpdateInv'
<1>1. /\ job[t] \in SetJob /\ SetTo(t, "announce", job[t].held, job[t].merged)
      /\ job[t].pc = "save"
  BY SetSteps DEF UpdateInv, Save
<1>2. PICK p \in Policies, a \in Admins : p = job[t].policy /\ a = job[t].admin
  BY <1>1 DEF SetJob
<1>3. PICK v \in Value, m \in Value : v = job[t].held /\ m = job[t].merged
  BY <1>1 DEF SetJob
<1>4. /\ job' \in [Threads -> Jobs]
      /\ job'[t].pc = "announce" /\ job'[t].held = v /\ job'[t].merged = m
      /\ job'[t].policy = p /\ job'[t].data = job[t].data
      /\ \A u \in Threads \ {t} : job'[u] = job[u]
  BY <1>1, <1>2, <1>3, SetToFields DEF UpdateInv, SetPcs
<1>5. own' = [own EXCEPT ![p][a] = v] /\ combined' = [combined EXCEPT ![p] = m]
  BY <1>2, <1>3, SaveEffect, Zenon
<1>6. Wrote(t, p)
  BY <1>2 DEF Save
<1>7. Types'
  <2>1. own' \in [Policies -> [Admins -> Value]] /\ combined' \in [Policies -> Value]
    BY <1>5, OwnUpdate DEF UpdateInv, Types
  <2>2. stale' \subseteq Threads /\ raced' \subseteq Policies /\ orphaned' \subseteq Admins
    BY <1>2, <1>6 DEF UpdateInv, Types, Wrote, Readers, Save
  <2>. QED
    BY <1>4, <2>1, <2>2 DEF UpdateInv, Types, Save, locks
<1>8. /\ t \notin stale => m = Others(p, a) \cup v
      /\ p \in BoolPolicies => v \subseteq {On}
      /\ p \in BoolPolicies => job[t].data \subseteq {On} /\ m \subseteq {On}
  BY <1>1, <1>2, <1>3 DEF UpdateInv, JobIsRight, ReadIsCurrent, AsksForBoolean, SetPcs
<1>9. /\ orphaned \subseteq orphaned' /\ UNCHANGED <<active, adminLock>>
      /\ (a \in active /\ ~BeingDisabled(a)) \/ a \in orphaned'
  BY <1>2 DEF Save, locks
<1>10. JobIsRight(t)'
  BY <1>4, <1>8 DEF JobIsRight, AsksForBoolean, ReadIsCurrent, DisablesAlone, DealtWith,
     SetPcs, DisablePcs
<1>. QED
  BY <1>2, <1>4, <1>5, <1>6, <1>7, <1>8, <1>9, <1>10, StoreWritten

LEMMA DropKeeps ==
    ASSUME UpdateInv, NoFailedWrites, NEW t \in Threads, Drop(t)
    PROVE  UpdateInv'
<1>1. job[t] \in DisableJob /\ job[t].pc = "drop"
  BY DisableSteps DEF UpdateInv, Drop
<1>2. PICK p \in Policies, a \in Admins : p = job[t].policy /\ a = job[t].admin
  BY <1>1 DEF DisableJob
<1>3. PICK todo \in SUBSET Policies, merged \in Value, alone \in BOOLEAN :
         todo = job[t].todo /\ merged = job[t].merged /\ alone = job[t].alone
  BY <1>1 DEF DisableJob
<1>4. /\ DisableTo(t, "recheck", todo, p, merged, alone)
      /\ IF alone THEN combined' = [combined EXCEPT ![p] = {}] /\ UNCHANGED own
         ELSE combined' = [combined EXCEPT ![p] = merged] /\ own' = [own EXCEPT ![p][a] = {}]
      /\ UNCHANGED <<adminLock, mutexLock>>
  BY <1>2, <1>3, DropEffect, Zenon DEF UpdateInv
<1>5. /\ job' \in [Threads -> Jobs]
      /\ job'[t].pc = "recheck" /\ job'[t].todo = todo /\ job'[t].policy = p
      /\ job'[t].admin = a
      /\ \A u \in Threads \ {t} : job'[u] = job[u]
  <2>. DEFINE r == [pc |-> "recheck", admin |-> job[t].admin, values |-> job[t].values,
               todo |-> todo, policy |-> p, merged |-> merged, alone |-> alone]
  <2>1. r \in DisableJob
    BY <1>1 DEF DisableJob
  <2>2. job' = [job EXCEPT ![t] = r]
    BY <1>4, Zenon DEF DisableTo
  <2>3. job' \in [Threads -> Jobs] /\ Becomes(t, r)
    BY <2>1, <2>2, JobUpdate DEF UpdateInv, Jobs
  <2>. QED
    BY <1>2, <2>3 DEF Becomes
<1>6. PICK v \in Value, m \in Value :
         /\ v = IF alone THEN own[p][a] ELSE {}
         /\ m = IF alone THEN {} ELSE merged
  BY ValuesRead DEF UpdateInv, Value
<1>7. /\ own' = [own EXCEPT ![p][a] = v] \/ (UNCHANGED own /\ v = own[p][a])
      /\ combined' = [combined EXCEPT ![p] = m]
  BY <1>4, <1>6
<1>8. t \notin stale => m = Others(p, a) \cup v
  <2>1. t \notin stale => merged = Others(p, a) /\ (alone => Unset(p))
    BY <1>1, <1>2, <1>3 DEF UpdateInv, JobIsRight, ReadIsCurrent
  <2>2. Unset(p) => Others(p, a) = {} /\ own[p][a] = {}
    BY ValuesRead DEF UpdateInv, Unset
  <2>. QED
    BY <1>6, <2>1, <2>2
<1>9. Wrote(t, p) /\ UNCHANGED <<active, adminLock, orphaned>>
  BY <1>2, <1>4 DEF Drop
<1>10. Types'
  <2>1. own' \in [Policies -> [Admins -> Value]] /\ combined' \in [Policies -> Value]
    BY <1>7, OwnUpdate DEF UpdateInv, Types
  <2>2. stale' \subseteq Threads /\ raced' \subseteq Policies
    BY <1>9 DEF UpdateInv, Types, Wrote, Readers
  <2>. QED
    BY <1>4, <1>5, <1>9, <2>1, <2>2 DEF UpdateInv, Types, Drop
<1>11. (p \in BoolPolicies => v \subseteq {On}) /\ (v # {} => own[p][a] = v)
  BY <1>6 DEF UpdateInv, StoreIsRight, BooleansAreOn
<1>12. JobIsRight(t)'
  <2>1. JobIsRight(t)
    BY DEF UpdateInv
  <2>7. ~alone => /\ own'[p][a] = {}
                  /\ \A q \in Policies, b \in Admins : q # p \/ b # a => own'[q][b] = own[q][b]
    <3>1. {} \in Value /\ Types
      BY DEF Value, UpdateInv
    <3>2. own \in [Policies -> [Admins -> Value]]
      BY <3>1 DEF Types
    <3>. QED
      BY <1>4, <3>2
  <2>2. \A q \in Policies : Gone(q, a) => Gone(q, a)'
    <3>1. CASE alone
      BY <1>4, <1>9, <3>1 DEF Gone
    <3>2. CASE ~alone
      BY <1>4, <1>9, <2>7, <3>2 DEF Gone
    <3>. QED
      BY <3>1, <3>2
  <2>3. Gone(p, a)'
    <3>1. CASE alone
      BY <1>1, <1>2, <1>3, <2>1, <2>2, <3>1 DEF JobIsRight, DealtWith, DisablePcs
    <3>2. CASE ~alone
      BY <2>7, <3>2 DEF Gone
    <3>. QED
      BY <3>1, <3>2
  <2>4. \A q \in Policies \ todo : Gone(q, a)'
    BY <1>1, <1>2, <1>3, <2>1, <2>2 DEF JobIsRight, DealtWith, DisablePcs
  <2>5. DealtWith(t)'
    BY <1>5, <2>3, <2>4 DEF DealtWith
  <2>6. AsksForBoolean(t)' /\ ReadIsCurrent(t)' /\ DisablesAlone(t)'
    BY <1>1, <1>5, <1>9, <2>1 DEF JobIsRight, AsksForBoolean, ReadIsCurrent, DisablesAlone,
       SetPcs, DisablePcs
  <2>. QED
    BY <2>5, <2>6 DEF JobIsRight
<1>. QED
  BY <1>2, <1>5, <1>7, <1>8, <1>9, <1>10, <1>11, <1>12, StoreWritten
-----------------------------------------------------------------------------
(* DisableAdmin. *)

LEMMA BeginDisableKeeps ==
    ASSUME UpdateInv, NEW t \in Threads, NEW a \in Admins, BeginDisable(t, a)
    PROVE  UpdateInv'
<1>. DEFINE n == [pc |-> "items", admin |-> a, values |-> [p \in Policies |-> own[p][a]],
                  todo |-> {p \in Policies : own[p][a] # {}},
                  policy |-> CHOOSE p \in Policies : TRUE, merged |-> {}, alone |-> FALSE]
<1>1. n \in DisableJob
  <2>1. [p \in Policies |-> own[p][a]] \in [Policies -> Value]
    BY ValuesRead DEF UpdateInv
  <2>2. (CHOOSE p \in Policies : TRUE) \in Policies
    BY UpdateAssumption
  <2>. QED
    BY <2>1, <2>2 DEF DisableJob, Value
<1>2. job' \in [Threads -> Jobs] /\ Becomes(t, n)
  BY <1>1, JobUpdate DEF UpdateInv, BeginDisable, Jobs
<1>3. Types'
  BY <1>2, UpdateAssumption DEF UpdateInv, Types, BeginDisable, Budget, store, history, Thread
<1>4. JobIsRight(t)'
  BY <1>2 DEF BeginDisable, store, history, Becomes, JobIsRight, AsksForBoolean, ReadIsCurrent,
     DisablesAlone, DealtWith, Gone, SetPcs, DisablePcs
<1>. QED
  BY <1>2, <1>3, <1>4, StoreUntouched DEF BeginDisable, store, history, Becomes

(* What a step of t may count on, and what is left to show of it. *)
LEMMA DisableStepKeeps ==
    ASSUME UpdateInv, Types', NEW t \in Threads, job[t].pc \in DisablePcs,
           UNCHANGED <<active, store, history, adminLock>>,
           \A u \in Threads \ {t} : job'[u] = job[u],
           job'[t].pc \in DisablePcs, job'[t].admin = job[t].admin,
           ReadIsCurrent(t)', DealtWith(t)'
    PROVE  UpdateInv'
<1>1. AsksForBoolean(t)'
  BY DEF AsksForBoolean, SetPcs, DisablePcs
<1>2. DisablesAlone(t)'
  BY DEF UpdateInv, JobIsRight, DisablesAlone
<1>. QED
  BY <1>1, <1>2, StoreUntouched DEF JobIsRight, store, history


LEMMA TakeItemKeeps ==
    ASSUME UpdateInv, NEW t \in Threads, NEW p \in Policies, TakeItem(t, p)
    PROVE  UpdateInv'
<1>1. /\ job[t] \in DisableJob /\ job[t].pc = "items"
      /\ DisableTo(t, "unenforce", job[t].todo, p, Others(p, job[t].admin), job[t].alone)
  BY DisableSteps DEF UpdateInv, TakeItem
<1>2. PICK a \in Admins, todo \in SUBSET Policies, alone \in BOOLEAN :
         a = job[t].admin /\ todo = job[t].todo /\ alone = job[t].alone
  BY <1>1 DEF DisableJob
<1>3. Others(p, a) \in Value
  BY ValuesRead DEF UpdateInv
<1>4. /\ job' \in [Threads -> Jobs]
      /\ job'[t].pc = "unenforce" /\ job'[t].todo = todo /\ job'[t].policy = p
      /\ job'[t].merged = Others(p, a) /\ job'[t].admin = a
      /\ \A u \in Threads \ {t} : job'[u] = job[u]
  <2>. DEFINE r == [pc |-> "unenforce", admin |-> job[t].admin, values |-> job[t].values,
               todo |-> job[t].todo, policy |-> p,
               merged |-> Others(p, job[t].admin), alone |-> job[t].alone]
  <2>1. r \in DisableJob
    BY <1>1, <1>2, <1>3 DEF DisableJob
  <2>2. job' = [job EXCEPT ![t] = r]
    BY <1>1, Zenon DEF DisableTo
  <2>3. job' \in [Threads -> Jobs] /\ Becomes(t, r)
    BY <2>1, <2>2, JobUpdate DEF UpdateInv, Jobs
  <2>. QED
    BY <1>1, <1>2, <2>3 DEF Becomes
<1>5. Types'
  BY <1>4 DEF UpdateInv, Types, TakeItem, store, history, Thread
<1>6. Others(p, a)' = Others(p, a)
  BY OwnUntouched DEF TakeItem, store
<1>7. ReadIsCurrent(t)'
  BY <1>4, <1>6 DEF ReadIsCurrent
<1>8. DealtWith(t)'
  BY <1>1, <1>2, <1>4 DEF UpdateInv, JobIsRight, DealtWith, Gone, DisablePcs, TakeItem, store, history
<1>. QED
  BY <1>1, <1>2, <1>4, <1>5, <1>7, <1>8, DisableStepKeeps DEF TakeItem, DisablePcs

LEMMA UnenforceKeeps ==
    ASSUME UpdateInv, NEW t \in Threads, Unenforce(t)
    PROVE  UpdateInv'
<1>1. job[t] \in DisableJob /\ job[t].pc = "unenforce"
  BY DisableSteps DEF UpdateInv, Unenforce
<1>2. PICK p \in Policies, a \in Admins, todo \in SUBSET Policies, m \in Value, alone \in BOOLEAN :
         /\ p = job[t].policy /\ a = job[t].admin /\ todo = job[t].todo
         /\ m = job[t].merged /\ alone = job[t].alone
  BY <1>1 DEF DisableJob
<1>3. DisableTo(t, "lookup", job[t].todo, job[t].policy, job[t].merged, job[t].alone)
  BY <1>2, DisableSteps DEF UpdateInv
<1>4. /\ job' \in [Threads -> Jobs]
      /\ job'[t].pc = "lookup" /\ job'[t].todo = todo /\ job'[t].policy = p
      /\ job'[t].merged = m /\ job'[t].admin = a
      /\ \A u \in Threads \ {t} : job'[u] = job[u]
  <2>. DEFINE r == [pc |-> "lookup", admin |-> job[t].admin, values |-> job[t].values,
               todo |-> job[t].todo, policy |-> job[t].policy,
               merged |-> job[t].merged, alone |-> job[t].alone]
  <2>1. r \in DisableJob
    BY <1>1, <1>2 DEF DisableJob
  <2>2. job' = [job EXCEPT ![t] = r]
    BY <1>3, Zenon DEF DisableTo
  <2>3. job' \in [Threads -> Jobs] /\ Becomes(t, r)
    BY <2>1, <2>2, JobUpdate DEF UpdateInv, Jobs
  <2>. QED
    BY <1>1, <1>2, <2>3 DEF Becomes
<1>5. enforced' \in [Policies -> Value]
  <2>1. PICK e \in AfterRemoval(p, job[t].values[p], m) : enforced' = [enforced EXCEPT ![p] = e]
    BY <1>2 DEF Unenforce
  <2>2. e \in Value
    BY <2>1, RefusedElements DEF AfterRemoval, UpdateInv, Types, Value
  <2>. QED
    BY <2>1, <2>2 DEF UpdateInv, Types
<1>6. Types'
  BY <1>4, <1>5 DEF UpdateInv, Types, Unenforce, store, locks, history
<1>7. Others(p, a)' = Others(p, a)
  BY OwnUntouched DEF Unenforce, store
<1>8. ReadIsCurrent(t)'
  BY <1>1, <1>2, <1>4, <1>7 DEF UpdateInv, JobIsRight, ReadIsCurrent, Unenforce, history
<1>9. DealtWith(t)'
  BY <1>1, <1>2, <1>4 DEF UpdateInv, JobIsRight, DealtWith, Gone, DisablePcs, Unenforce, store, history
<1>. QED
  BY <1>1, <1>2, <1>4, <1>6, <1>8, <1>9, DisableStepKeeps DEF Unenforce, DisablePcs, locks

LEMMA LookupKeeps ==
    ASSUME UpdateInv, NEW t \in Threads, Lookup(t)
    PROVE  UpdateInv'
<1>1. job[t] \in DisableJob /\ job[t].pc = "lookup"
  BY DisableSteps DEF UpdateInv, Lookup
<1>2. PICK p \in Policies, a \in Admins, todo \in SUBSET Policies, m \in Value :
         p = job[t].policy /\ a = job[t].admin /\ todo = job[t].todo /\ m = job[t].merged
  BY <1>1 DEF DisableJob
<1>3. PICK alone \in BOOLEAN : alone = Unset(p)
  BY DEF Unset
<1>4. DisableTo(t, "drop", job[t].todo, job[t].policy, job[t].merged, alone)
  BY <1>2, <1>3, DisableSteps DEF UpdateInv
<1>5. /\ job' \in [Threads -> Jobs]
      /\ job'[t].pc = "drop" /\ job'[t].todo = todo /\ job'[t].policy = p
      /\ job'[t].merged = m /\ job'[t].admin = a /\ job'[t].alone = alone
      /\ \A u \in Threads \ {t} : job'[u] = job[u]
  <2>. DEFINE r == [pc |-> "drop", admin |-> job[t].admin, values |-> job[t].values,
               todo |-> job[t].todo, policy |-> job[t].policy,
               merged |-> job[t].merged, alone |-> alone]
  <2>1. r \in DisableJob
    BY <1>1, <1>2 DEF DisableJob
  <2>2. job' = [job EXCEPT ![t] = r]
    BY <1>4, Zenon DEF DisableTo
  <2>3. job' \in [Threads -> Jobs] /\ Becomes(t, r)
    BY <2>1, <2>2, JobUpdate DEF UpdateInv, Jobs
  <2>. QED
    BY <1>1, <1>2, <2>3 DEF Becomes
<1>6. Types'
  BY <1>5 DEF UpdateInv, Types, Lookup, store, locks, history
<1>7. Others(p, a)' = Others(p, a) /\ (Unset(p)' <=> Unset(p))
  BY OwnUntouched DEF Lookup, store
<1>8. ReadIsCurrent(t)'
  BY <1>1, <1>2, <1>3, <1>5, <1>7 DEF UpdateInv, JobIsRight, ReadIsCurrent, Lookup, history
<1>9. DealtWith(t)'
  <2>1. \A q \in Policies \ todo : Gone(q, a)
    BY <1>1, <1>2 DEF UpdateInv, JobIsRight, DealtWith, DisablePcs
  <2>2. alone => Gone(p, a)
    BY <1>3 DEF Unset, Gone
  <2>3. own' = own /\ orphaned' = orphaned
    BY DEF Lookup, store, history
  <2>4. \A q \in Policies : Gone(q, a) => Gone(q, a)'
    BY <2>3 DEF Gone
  <2>. QED
    BY <1>5, <2>1, <2>2, <2>4 DEF DealtWith
<1>. QED
  BY <1>1, <1>2, <1>5, <1>6, <1>8, <1>9, DisableStepKeeps DEF Lookup, DisablePcs, locks

(* Recheck and Unsubscribe, which end the removal of an item. *)
LEMMA ItemKeeps ==
    ASSUME UpdateInv, NEW t \in Threads, Recheck(t) \/ Unsubscribe(t)
    PROVE  UpdateInv'
<1>1. job[t] \in DisableJob /\ job[t].pc \in {"recheck", "unsubscribe"}
  BY DisableSteps DEF UpdateInv, Recheck, Unsubscribe
<1>2. PICK p \in Policies, a \in Admins, todo \in SUBSET Policies, m \in Value, alone \in BOOLEAN :
         /\ p = job[t].policy /\ a = job[t].admin /\ todo = job[t].todo
         /\ m = job[t].merged /\ alone = job[t].alone
  BY <1>1 DEF DisableJob
<1>3. \/ DisableTo(t, "unsubscribe", job[t].todo, job[t].policy, job[t].merged, job[t].alone)
      \/ DisableTo(t, "items", job[t].todo \ {job[t].policy}, job[t].policy, job[t].merged, job[t].alone)
  BY <1>2, DisableSteps DEF UpdateInv
<1>4. /\ job' \in [Threads -> Jobs] /\ job'[t].admin = a /\ job'[t].policy = p
      /\ \/ job'[t].pc = "unsubscribe" /\ job'[t].todo = todo
         \/ job'[t].pc = "items" /\ job'[t].todo = todo \ {p}
      /\ \A u \in Threads \ {t} : job'[u] = job[u]
  <2>1. CASE DisableTo(t, "unsubscribe", job[t].todo, job[t].policy, job[t].merged, job[t].alone)
    <3>. DEFINE r == [pc |-> "unsubscribe", admin |-> job[t].admin, values |-> job[t].values,
                 todo |-> job[t].todo, policy |-> job[t].policy,
                 merged |-> job[t].merged, alone |-> job[t].alone]
    <3>1. r \in DisableJob
      BY <1>1, <1>2 DEF DisableJob
    <3>2. job' = [job EXCEPT ![t] = r]
      BY <2>1, Zenon DEF DisableTo
    <3>3. job' \in [Threads -> Jobs] /\ Becomes(t, r)
      BY <3>1, <3>2, JobUpdate DEF UpdateInv, Jobs
    <3>. QED
      BY <1>1, <1>2, <3>3 DEF Becomes
  <2>2. CASE DisableTo(t, "items", job[t].todo \ {job[t].policy}, job[t].policy, job[t].merged,
                       job[t].alone)
    <3>. DEFINE r == [pc |-> "items", admin |-> job[t].admin, values |-> job[t].values,
                 todo |-> job[t].todo \ {job[t].policy}, policy |-> job[t].policy,
                 merged |-> job[t].merged, alone |-> job[t].alone]
    <3>1. r \in DisableJob
      BY <1>1, <1>2 DEF DisableJob
    <3>2. job' = [job EXCEPT ![t] = r]
      BY <2>2, Zenon DEF DisableTo
    <3>3. job' \in [Threads -> Jobs] /\ Becomes(t, r)
      BY <3>1, <3>2, JobUpdate DEF UpdateInv, Jobs
    <3>. QED
      BY <1>1, <1>2, <3>3 DEF Becomes
  <2>. QED
    BY <1>3, <2>1, <2>2
<1>5. Types'
  BY <1>4 DEF UpdateInv, Types, Recheck, Unsubscribe, Goto, store, history, Thread
<1>6. Gone(p, a) /\ \A q \in Policies \ todo : Gone(q, a)
  BY <1>1, <1>2 DEF UpdateInv, JobIsRight, DealtWith, DisablePcs
<1>7. ReadIsCurrent(t)'
  BY <1>4 DEF ReadIsCurrent
<1>8. DealtWith(t)'
  BY <1>4, <1>6 DEF DealtWith, Gone, Recheck, Unsubscribe, store, history
<1>9. UNCHANGED <<active, store, history, adminLock>>
  BY DEF Recheck, Unsubscribe
<1>. QED
  BY <1>1, <1>2, <1>4, <1>5, <1>7, <1>8, <1>9, DisableStepKeeps DEF DisablePcs

LEMMA EndDisableKeeps ==
    ASSUME UpdateInv, NEW t \in Threads, EndDisable(t)
    PROVE  UpdateInv'
<1>1. job[t] \in DisableJob /\ job[t].pc = "items" /\ job[t].todo = {}
  BY DisableSteps DEF UpdateInv, EndDisable
<1>2. adminLock = t /\ \A p \in Policies : Gone(p, job[t].admin)
  BY <1>1 DEF UpdateInv, JobIsRight, DisablesAlone, DealtWith, DisablePcs
<1>3. /\ job' \in [Threads -> Jobs] /\ job'[t].pc = "idle"
      /\ \A u \in Threads \ {t} : job'[u] = job[u]
  BY FinishFields DEF UpdateInv, EndDisable
<1>4. Types'
  BY <1>3 DEF UpdateInv, Types, EndDisable, store, history, Thread
<1>5. JobIsRight(t)'
  BY <1>3 DEF JobIsRight, AsksForBoolean, ReadIsCurrent, DisablesAlone, DealtWith, SetPcs, DisablePcs
<1>. QED
  BY <1>2, <1>3, <1>4, <1>5, StoreUntouched DEF EndDisable, store, history

LEMMA EnableKeeps ==
    ASSUME UpdateInv, (\E a \in Admins : Enable(a)) \/ UNCHANGED vars
    PROVE  UpdateInv'
<1>1. /\ UNCHANGED <<own, combined, enforced, subscribed, adminLock, mutexLock, stripes, job,
                     stale, raced, orphaned>>
      /\ active \subseteq active' /\ active' \subseteq Admins /\ calls' \in 0..MaxCalls
  <2>1. ASSUME NEW a \in Admins, Enable(a)
        PROVE  active' = active \cup {a} /\ calls' \in 0..MaxCalls
    BY <2>1, UpdateAssumption DEF UpdateInv, Types, Enable, Budget
  <2>. QED
    BY <2>1 DEF Enable, UpdateInv, Types, vars, store, locks, history
<1>2. Types'
  BY <1>1 DEF UpdateInv, Types
<1>3. BooleansAreOn'
  BY <1>1 DEF UpdateInv, StoreIsRight, BooleansAreOn
<1>4. MergeUnlessRaced'
  BY <1>1, OwnUntouched DEF UpdateInv, StoreIsRight, MergeUnlessRaced
<1>5. OrphansWereOvertaken'
  BY <1>1 DEF UpdateInv, StoreIsRight, OrphansWereOvertaken
<1>6. ASSUME NEW t \in Threads PROVE JobIsRight(t)'
  <2>1. JobIsRight(t)
    BY DEF UpdateInv
  <2>2. AsksForBoolean(t)' /\ DisablesAlone(t)' /\ DealtWith(t)'
    BY <1>1, <2>1 DEF JobIsRight, AsksForBoolean, DisablesAlone, DealtWith, Gone
  <2>3. ReadIsCurrent(t)'
    BY <1>1, <2>1, ZenonT(60) DEF JobIsRight, ReadIsCurrent, Others, Unset
  <2>. QED
    BY <2>2, <2>3 DEF JobIsRight
<1>. QED
  BY <1>2, <1>3, <1>4, <1>5, <1>6 DEF UpdateInv, StoreIsRight

-----------------------------------------------------------------------------
(* Nothing but the actions above happens while no application is uninstalled. *)
LEMMA StepCases ==
    ASSUME Types, NoEvents, [Next]_vars
    PROVE  \/ (\E a \in Admins : Enable(a)) \/ UNCHANGED vars
           \/ \E t \in Threads :
                 \/ \E a \in Admins, p \in Policies : \E r \in Requests(p) : BeginSet(t, a, p, r)
                 \/ \E a \in Admins : BeginDisable(t, a)
                 \/ SetStep(t) \/ DisableStep(t)
<1>1. ASSUME NEW t \in Threads PROVE ~EventStep(t)
  <2>1. job[t].pc \in SetPcs \cup DisablePcs \cup {"idle"}
    BY Kinds
  <2>. QED
    BY <2>1 DEF EventStep, TakeEvent, EventMerge, Rewrite, Cancel, EndEvent, SetPcs, DisablePcs
<1>2. \A t \in Threads, p \in Policies, x \in Values : ~BeginEvent(t, p, x)
  BY DEF BeginEvent, Budget, NoEvents
<1>. QED
  BY <1>1, <1>2, Zenon DEF Next, Begin, Step

LEMMA InitUpdate == Init => UpdateInv
<1>. SUFFICES ASSUME Init PROVE UpdateInv
  OBVIOUS
<1>1. Types
  BY UpdateAssumption DEF Init, Types, Jobs, Thread, Value
<1>2. BooleansAreOn /\ OrphansWereOvertaken
  BY UpdateAssumption DEF Init, BooleansAreOn, OrphansWereOvertaken
<1>3. MergeUnlessRaced
  BY DEF Init, MergeUnlessRaced, Merge
<1>4. ASSUME NEW t \in Threads PROVE JobIsRight(t)
  BY DEF Init, Idle, JobIsRight, AsksForBoolean, ReadIsCurrent, DisablesAlone, DealtWith,
     SetPcs, DisablePcs
<1>. QED
  BY <1>1, <1>2, <1>3, <1>4 DEF UpdateInv, StoreIsRight

LEMMA UpdateStep ==
    ASSUME UpdateInv, NoEvents, NoFailedWrites, [Next]_vars
    PROVE  UpdateInv'
<1>1. CASE (\E a \in Admins : Enable(a)) \/ UNCHANGED vars
  BY <1>1, EnableKeeps
<1>2. ASSUME NEW t \in Threads,
             \/ \E a \in Admins, p \in Policies : \E r \in Requests(p) : BeginSet(t, a, p, r)
             \/ \E a \in Admins : BeginDisable(t, a)
      PROVE  UpdateInv'
  BY <1>2, BeginSetKeeps, BeginDisableKeeps
<1>3. ASSUME NEW t \in Threads, SetStep(t) PROVE UpdateInv'
  BY <1>3, FindKeeps, EnterKeeps, ReadOthersKeeps, ExecuteKeeps, SaveKeeps, AnnounceKeeps DEF SetStep
<1>4. ASSUME NEW t \in Threads, DisableStep(t) PROVE UpdateInv'
  BY <1>4, TakeItemKeeps, UnenforceKeeps, LookupKeeps, DropKeeps, ItemKeeps, EndDisableKeeps
     DEF DisableStep
<1>5. Types
  BY DEF UpdateInv
<1>. QED
  BY <1>1, <1>2, <1>3, <1>4, <1>5, StepCases

(* The inductive invariant of updating and disabling: what each thread has    *)
(* read of the store is what is there, unless another thread has written the  *)
(* policy since; whoever disables an administrator is alone.                  *)
THEOREM UpdateInvariant ==
    ASSUME NoEvents, NoFailedWrites
    PROVE  Spec => []UpdateInv
<1>1. Init => UpdateInv
  BY InitUpdate
<1>2. UpdateInv /\ [Next]_vars => UpdateInv'
  BY UpdateStep
<1>. QED
  BY <1>1, <1>2, PTL DEF Spec

(* RemoveAdminItem and UpdateDevicePolicy hold different locks, so the merge  *)
(* of a policy can go wrong; but only when another thread wrote the policy    *)
(* between the read and the write of the last writer.                         *)
THEOREM MergeGoesWrongByRaceOnly ==
    ASSUME NoEvents, NoFailedWrites
    PROVE  Spec => []MergeUnlessRaced
<1>1. UpdateInv => MergeUnlessRaced
  BY DEF UpdateInv, StoreIsRight
<1>. QED
  BY <1>1, UpdateInvariant, PTL

(* DoDisableAdmin leaves a policy of the administrator behind only when a     *)
(* call of the administrator, checked before, saved it while or after.        *)
THEOREM OnlyOvertakenOrphans ==
    ASSUME NoEvents, NoFailedWrites
    PROVE  Spec => []OrphansWereOvertaken
<1>1. UpdateInv => OrphansWereOvertaken
  BY DEF UpdateInv, StoreIsRight
<1>. QED
  BY <1>1, UpdateInvariant, PTL
-----------------------------------------------------------------------------
(* Administrators that only set policies: here UpdateDevicePolicy is alone,   *)
(* and the stripes keep updates of one conflict group apart.                  *)

OnlySets == Actors \subseteq {"set"}

InStripe == {"merge", "execute", "save", "announce"}
HoldsStripe(t) == job[t].pc \in InStripe => stripes[StripeOf(job[t].policy)] = t

(* What was read in the stripe is still there. *)
HeldIsOwn(t) ==
    LET p == job[t].policy  a == job[t].admin IN
    /\ job[t].pc \in {"merge", "execute"} => job[t].held = own[p][a]
    /\ job[t].pc = "save" /\ p \notin BoolPolicies =>
          IF job[t].op = "set" THEN own[p][a] \subseteq job[t].held
                               ELSE job[t].held \subseteq own[p][a]
SavingIsEnforced(t) ==
    job[t].pc = "save" /\ job[t].policy \notin BoolPolicies =>
       enforced[job[t].policy] = job[t].merged
AnnouncingIsStored(t) ==
    job[t].pc = "announce" => combined[job[t].policy] = job[t].merged

JobInStripe(t) ==
    /\ job[t].pc \notin DisablePcs
    /\ HoldsStripe(t) /\ HeldIsOwn(t) /\ SavingIsEnforced(t) /\ AnnouncingIsStored(t)

At(t, pc, p) == job[t].pc = pc /\ job[t].policy = p
EnforcedUnlessSaving ==
    \A p \in Policies \ BoolPolicies :
       (\A t \in Threads : ~At(t, "save", p)) => enforced[p] = combined[p]
SubscribedUnlessAnnouncing ==
    \A p \in Policies :
       (\A t \in Threads : ~At(t, "announce", p)) => (p \in subscribed <=> combined[p] # {})

StripeInv ==
    /\ stale = {} /\ raced = {}
    /\ EnforcedUnlessSaving /\ SubscribedUnlessAnnouncing
    /\ \A t \in Threads : JobInStripe(t)

LEMMA InitStripe == Init => StripeInv
<1>. SUFFICES ASSUME Init PROVE StripeInv
  OBVIOUS
<1>1. EnforcedUnlessSaving /\ SubscribedUnlessAnnouncing
  BY DEF Init, EnforcedUnlessSaving, SubscribedUnlessAnnouncing
<1>2. ASSUME NEW t \in Threads PROVE JobInStripe(t)
  BY DEF Init, Idle, JobInStripe, HoldsStripe, HeldIsOwn, SavingIsEnforced, AnnouncingIsStored,
     InStripe, DisablePcs
<1>. QED
  BY <1>1, <1>2 DEF StripeInv, Init

(* Two threads in a stripe work on different policies. *)
LEMMA StripesExclude ==
    ASSUME StripeInv, NEW t \in Threads, NEW u \in Threads, t # u,
           job[t].pc \in InStripe, job[u].pc \in InStripe
    PROVE  StripeOf(job[t].policy) # StripeOf(job[u].policy) /\ job[t].policy # job[u].policy
  BY DEF StripeInv, JobInStripe, HoldsStripe

(* Where a thread can be when the others' stripe is taken or given back.      *)
LEMMA OthersHoldStripes ==
    ASSUME UpdateInv, StripeInv, NEW t \in Threads, NEW u \in Threads \ {t},
           job'[u] = job[u],
           \/ UNCHANGED stripes \/ Unlock(t)
           \/ \E p \in Policies : StripeFree(p) /\ Lock(t, p)
    PROVE  HoldsStripe(u)'
<1>. SUFFICES ASSUME job[u].pc \in InStripe
              PROVE  stripes'[StripeOf(job[u].policy)] = u
  BY DEF HoldsStripe
<1>1. stripes[StripeOf(job[u].policy)] = u /\ u # NoThread
  BY UpdateAssumption DEF StripeInv, JobInStripe, HoldsStripe
<1>2. StripeOf(job[u].policy) \in Groups
  BY Kinds, UpdateAssumption DEF UpdateInv, InStripe, SetPcs, SetJob, StripeOf
<1>3. CASE Unlock(t)
  BY <1>1, <1>2, <1>3 DEF Unlock
<1>4. ASSUME NEW p \in Policies, StripeFree(p), Lock(t, p)
      PROVE  stripes'[StripeOf(job[u].policy)] = u
  <2>1. StripeOf(p) # StripeOf(job[u].policy)
    BY <1>1, <1>4 DEF StripeFree
  <2>. QED
    BY <1>1, <1>2, <1>4, <2>1 DEF Lock, UpdateInv, Types
<1>. QED
  BY <1>1, <1>3, <1>4

(* Steps before the plugin acts. *)
LEMMA NothingStored ==
    ASSUME UpdateInv, StripeInv, NEW t \in Threads,
           UNCHANGED <<own, combined, enforced, subscribed, stale, raced>>,
           \A u \in Threads \ {t} : job'[u] = job[u],
           \/ UNCHANGED stripes
           \/ \E p \in Policies : StripeFree(p) /\ Lock(t, p),
           job[t].pc \notin {"save", "announce"},
           job'[t].pc \notin {"save", "announce"} \cup DisablePcs,
           HoldsStripe(t)', HeldIsOwn(t)'
    PROVE  StripeInv'
<1>1. JobInStripe(t)'
  BY DEF JobInStripe, SavingIsEnforced, AnnouncingIsStored
<1>2. ASSUME NEW u \in Threads \ {t} PROVE JobInStripe(u)'
  <2>1. HoldsStripe(u)'
    BY OthersHoldStripes
  <2>2. job'[u] = job[u] /\ JobInStripe(u)
    BY DEF StripeInv
  <2>. QED
    BY <2>1, <2>2 DEF JobInStripe, HeldIsOwn, SavingIsEnforced, AnnouncingIsStored
<1>3. EnforcedUnlessSaving'
  <2>1. ASSUME NEW u \in Threads, NEW p \in Policies, At(u, "save", p) PROVE At(u, "save", p)'
    BY <2>1 DEF At
  <2>. QED
    BY <2>1 DEF StripeInv, EnforcedUnlessSaving
<1>4. SubscribedUnlessAnnouncing'
  <2>1. ASSUME NEW u \in Threads, NEW p \in Policies, At(u, "announce", p) PROVE At(u, "announce", p)'
    BY <2>1 DEF At
  <2>. QED
    BY <2>1, Zenon DEF StripeInv, SubscribedUnlessAnnouncing
<1>. QED
  BY <1>1, <1>2, <1>3, <1>4 DEF StripeInv

LEMMA EarlyStepsKeepStripes ==
    ASSUME UpdateInv, StripeInv, NEW t \in Threads,
           \/ \E a \in Admins, p \in Policies : \E r \in Requests(p) : BeginSet(t, a, p, r)
           \/ Find(t) \/ Enter(t) \/ ReadOthers(t)
    PROVE  StripeInv'
<1>0. Types
  BY DEF UpdateInv
<1>1. ASSUME NEW a \in Admins, NEW p \in Policies, NEW r \in Requests(p), BeginSet(t, a, p, r)
      PROVE  StripeInv'
  <2>1. /\ job[t].pc = "idle" /\ job'[t].pc = "find"
        /\ \A u \in Threads \ {t} : job'[u] = job[u]
    BY <1>0, <1>1 DEF BeginSet, Idle, Types
  <2>2. HoldsStripe(t)' /\ HeldIsOwn(t)'
    BY <2>1 DEF HoldsStripe, HeldIsOwn, InStripe
  <2>. QED
    BY <1>1, <2>1, <2>2, NothingStored DEF BeginSet, store, locks, history, DisablePcs
<1>2. CASE Find(t)
  <2>1. job[t] \in SetJob /\ SetTo(t, "enter", job[t].held, job[t].merged)
    BY <1>0, <1>2, SetSteps
  <2>2. job'[t].pc = "enter" /\ \A u \in Threads \ {t} : job'[u] = job[u]
    BY <1>0, <2>1 DEF SetTo, Types
  <2>3. HoldsStripe(t)' /\ HeldIsOwn(t)'
    BY <2>2 DEF HoldsStripe, HeldIsOwn, InStripe
  <2>. QED
    BY <1>2, <2>2, <2>3, NothingStored DEF Find, store, locks, history, DisablePcs
<1>3. CASE Enter(t)
  <2>1. /\ job[t] \in SetJob
        /\ SetTo(t, "merge", own[job[t].policy][job[t].admin], job[t].merged)
    BY <1>0, <1>3, SetSteps
  <2>2. PICK p \in Policies, a \in Admins : p = job[t].policy /\ a = job[t].admin
    BY <2>1 DEF SetJob
  <2>3. /\ job'[t].pc = "merge" /\ job'[t].policy = p /\ job'[t].admin = a
        /\ job'[t].held = own[p][a]
        /\ \A u \in Threads \ {t} : job'[u] = job[u]
    BY <1>0, <2>1, <2>2 DEF SetTo, Types
  <2>4. StripeFree(p) /\ Lock(t, p) /\ UNCHANGED <<own, combined, enforced, subscribed, stale, raced>>
    BY <1>3, <2>2 DEF Enter, store, history
  <2>5. HoldsStripe(t)'
    BY <1>0, <2>3, <2>4, UpdateAssumption DEF HoldsStripe, Lock, StripeOf, Types
  <2>6. HeldIsOwn(t)'
    BY <2>3, <2>4 DEF HeldIsOwn
  <2>7. job[t].pc = "enter"
    BY <1>3 DEF Enter
  <2>. QED
    BY <2>3, <2>4, <2>5, <2>6, <2>7, NothingStored DEF DisablePcs
<1>4. CASE ReadOthers(t)
  <2>1. /\ job[t] \in SetJob /\ job[t].pc = "merge"
        /\ SetTo(t, "execute", job[t].held, Others(job[t].policy, job[t].admin))
    BY <1>0, <1>4, SetSteps DEF ReadOthers
  <2>2. /\ job'[t].pc = "execute" /\ job'[t].policy = job[t].policy /\ job'[t].admin = job[t].admin
        /\ job'[t].held = job[t].held
        /\ \A u \in Threads \ {t} : job'[u] = job[u]
    BY <1>0, <2>1 DEF SetTo, Types
  <2>3. UNCHANGED <<own, combined, enforced, subscribed, stale, raced, stripes>>
    BY <1>4 DEF ReadOthers, store, locks, history
  <2>4. HoldsStripe(t)' /\ HeldIsOwn(t)'
    BY <2>1, <2>2, <2>3 DEF StripeInv, JobInStripe, HoldsStripe, HeldIsOwn, InStripe
  <2>. QED
    BY <2>1, <2>2, <2>3, <2>4, NothingStored DEF DisablePcs
<1>. QED
  BY <1>1, <1>2, <1>3, <1>4
(* What is enforced of a list stays the merge, whatever was refused, and the  *)
(* administrator's list only grows or only shrinks.                           *)
LEMMA ListOutcomes ==
    ASSUME Types, NEW j \in SetJob, j.policy \notin BoolPolicies, NEW o \in Outcomes(j),
           enforced[j.policy] = j.merged \cup j.held
    PROVE  /\ o.ok => o.enforced = o.merged
           /\ ~o.ok => o.enforced = enforced[j.policy]
           /\ o.ok => IF j.op = "set" THEN j.held \subseteq o.own ELSE o.own \subseteq j.held
<1>. DEFINE p == j.policy  d == j.data  held == j.held  others == j.merged
<1>1. CASE j.op = "set"
  <2>. DEFINE fresh == (d \ held) \ others
  <2>1. o \in AddElements(p, d, held, others)
    BY <1>1 DEF Outcomes
  <2>2. \/ o = Failed(enforced[p])
        \/ \E f \in Refused(fresh) :
              o = Done((held \cup d) \ f, (others \cup held \cup d) \ f, enforced[p] \cup (fresh \ f))
    BY <2>1, Zenon DEF AddElements
  <2>3. ASSUME NEW f \in Refused(fresh),
               o = Done((held \cup d) \ f, (others \cup held \cup d) \ f, enforced[p] \cup (fresh \ f))
        PROVE  o.ok /\ o.enforced = o.merged /\ held \subseteq o.own
    <3>1. f \subseteq fresh
      BY RefusedElements
    <3>2. enforced[p] \cup (fresh \ f) = (others \cup held \cup d) \ f
      BY <3>1
    <3>3. held \subseteq (held \cup d) \ f
      BY <3>1
    <3>. QED
      BY <2>3, <3>2, <3>3 DEF Done
  <2>4. o = Failed(enforced[p]) => ~o.ok /\ o.enforced = enforced[p]
    BY DEF Failed
  <2>5. CASE o = Failed(enforced[p])
    BY <2>4, <2>5
  <2>6. CASE \E f \in Refused(fresh) :
                o = Done((held \cup d) \ f, (others \cup held \cup d) \ f, enforced[p] \cup (fresh \ f))
    BY <1>1, <2>3, <2>6
  <2>. QED
    BY <2>2, <2>5, <2>6
<1>2. CASE j.op # "set"
  <2>. DEFINE gone == (d \cap held) \ others
              left(f) == held \ ((d \cap held) \ f)
  <2>1. o \in RemoveElements(p, d, held, others)
    BY <1>2 DEF Outcomes
  <2>2. \/ o = Failed(enforced[p])
        \/ \E f \in Refused(gone) :
              o = Done(left(f), others \cup left(f), enforced[p] \ (gone \ f))
    BY <2>1, Zenon DEF RemoveElements
  <2>3. ASSUME NEW f \in Refused(gone),
               o = Done(left(f), others \cup left(f), enforced[p] \ (gone \ f))
        PROVE  o.ok /\ o.enforced = o.merged /\ o.own \subseteq held
    <3>1. f \subseteq gone
      BY RefusedElements
    <3>2. enforced[p] \ (gone \ f) = others \cup left(f)
      BY <3>1
    <3>. QED
      BY <2>3, <3>2 DEF Done
  <2>4. o = Failed(enforced[p]) => ~o.ok /\ o.enforced = enforced[p]
    BY DEF Failed
  <2>5. CASE o = Failed(enforced[p])
    BY <2>4, <2>5
  <2>6. CASE \E f \in Refused(gone) :
                o = Done(left(f), others \cup left(f), enforced[p] \ (gone \ f))
    BY <1>2, <2>3, <2>6
  <2>. QED
    BY <2>2, <2>5, <2>6
<1>. QED
  BY <1>1, <1>2

LEMMA ExecuteKeepsStripes ==
    ASSUME UpdateInv, StripeInv, NEW t \in Threads, Execute(t)
    PROVE  StripeInv'
<1>1. job[t] \in SetJob /\ job[t].pc = "execute"
  BY SetSteps DEF UpdateInv, Execute
<1>2. PICK p \in Policies, a \in Admins : p = job[t].policy /\ a = job[t].admin
  BY <1>1 DEF SetJob
<1>3. PICK o \in Outcomes(job[t]) :
         /\ enforced' = [enforced EXCEPT ![job[t].policy] = o.enforced]
         /\ \/ /\ o.ok /\ o.own # job[t].held
               /\ SetTo(t, "save", o.own, o.merged)
               /\ UNCHANGED <<stripes, stale>>
            \/ /\ ~(o.ok /\ o.own # job[t].held)
               /\ Finish(t) /\ Unlock(t) /\ stale' = stale \ {t}
  BY ExecuteEffect, Zenon DEF UpdateInv
<1>4. UNCHANGED <<own, combined, subscribed, raced>>
  BY DEF Execute, store
<1>5. /\ job[t].held = own[p][a] /\ job[t].merged = Others(p, a)
      /\ combined[p] = job[t].merged \cup job[t].held
  <2>1. job[t].held = own[p][a]
    BY <1>1, <1>2 DEF StripeInv, JobInStripe, HeldIsOwn
  <2>2. job[t].merged = Others(p, a)
    BY <1>1, <1>2 DEF StripeInv, UpdateInv, JobIsRight, ReadIsCurrent
  <2>3. combined[p] = Merge(p)
    BY DEF StripeInv, UpdateInv, StoreIsRight, MergeUnlessRaced
  <2>. QED
    BY <2>1, <2>2, <2>3, ValuesRead DEF UpdateInv
<1>6. ASSUME NEW u \in Threads, job[u].pc \in {"save", "announce"}
      PROVE  u # t /\ job[u].policy # p
  BY <1>1, <1>2, <1>6, StripesExclude DEF InStripe
<1>7. ASSUME p \notin BoolPolicies
      PROVE  /\ enforced[p] = combined[p]
             /\ o.ok => o.enforced = o.merged
             /\ ~o.ok => o.enforced = enforced[p]
             /\ o.ok => IF job[t].op = "set" THEN own[p][a] \subseteq o.own
                                             ELSE o.own \subseteq own[p][a]
  <2>1. enforced[p] = combined[p]
    BY <1>6, <1>7 DEF StripeInv, EnforcedUnlessSaving, At
  <2>. QED
    BY <1>1, <1>2, <1>5, <1>7, <2>1, ListOutcomes DEF UpdateInv
<1>8. /\ enforced'[p] = o.enforced
      /\ \A q \in Policies \ {p} : enforced'[q] = enforced[q]
  BY <1>2, <1>3 DEF UpdateInv, Types
<1>9. ASSUME NEW u \in Threads \ {t}, job'[u] = job[u], HoldsStripe(u)' PROVE JobInStripe(u)'
  <2>1. JobInStripe(u)
    BY DEF StripeInv
  <2>2. job[u].pc = "save" => job[u].policy \in Policies \ {p}
    BY <1>6, Kinds DEF UpdateInv, SetPcs, SetJob
  <2>. QED
    BY <1>4, <1>8, <1>9, <2>1, <2>2
       DEF JobInStripe, HeldIsOwn, SavingIsEnforced, AnnouncingIsStored
<1>10. CASE o.ok /\ SetTo(t, "save", o.own, o.merged) /\ UNCHANGED <<stripes, stale>>
  <2>1. /\ job'[t].pc = "save" /\ job'[t].held = o.own /\ job'[t].merged = o.merged
        /\ job'[t].policy = p /\ job'[t].admin = a /\ job'[t].op = job[t].op
        /\ \A u \in Threads \ {t} : job'[u] = job[u]
    BY <1>2, <1>10 DEF SetTo, UpdateInv, Types
  <2>2. HoldsStripe(t)'
    BY <1>1, <1>2, <1>10, <2>1 DEF StripeInv, JobInStripe, HoldsStripe, InStripe
  <2>3. HeldIsOwn(t)'
    BY <1>4, <1>7, <1>10, <2>1 DEF HeldIsOwn
  <2>4. SavingIsEnforced(t)' /\ AnnouncingIsStored(t)'
    BY <1>7, <1>8, <1>10, <2>1 DEF SavingIsEnforced, AnnouncingIsStored
  <2>5. JobInStripe(t)'
    BY <2>1, <2>2, <2>3, <2>4 DEF JobInStripe, DisablePcs
  <2>6. \A u \in Threads \ {t} : JobInStripe(u)'
    BY <1>9, <1>10, <2>1, OthersHoldStripes
  <2>7. EnforcedUnlessSaving'
    BY <1>1, <1>4, <1>8, <2>1 DEF StripeInv, EnforcedUnlessSaving, At
  <2>8. SubscribedUnlessAnnouncing'
    <3>1. ASSUME NEW u \in Threads, NEW q \in Policies, At(u, "announce", q)
          PROVE  At(u, "announce", q)'
      BY <1>1, <2>1, <3>1 DEF At
    <3>. QED
      BY <1>4, <3>1, Zenon DEF StripeInv, SubscribedUnlessAnnouncing
  <2>. QED
    BY <1>4, <1>10, <2>5, <2>6, <2>7, <2>8 DEF StripeInv
<1>11. CASE ~(o.ok /\ o.own # job[t].held) /\ Finish(t) /\ Unlock(t) /\ stale' = stale \ {t}
  <2>1. /\ job'[t].pc = "idle"
        /\ \A u \in Threads \ {t} : job'[u] = job[u]
    BY <1>11, FinishFields DEF UpdateInv
  <2>2. JobInStripe(t)'
    BY <2>1 DEF JobInStripe, HoldsStripe, HeldIsOwn, SavingIsEnforced, AnnouncingIsStored,
       InStripe, DisablePcs
  <2>3. \A u \in Threads \ {t} : JobInStripe(u)'
    BY <1>9, <1>11, <2>1, OthersHoldStripes
  <2>4. p \notin BoolPolicies => enforced'[p] = combined'[p]
    <3>1. CASE o.ok
      <4>1. Merged(o, job[t].merged)
        <5>1. /\ job[t].policy \in BoolPolicies =>
                    job[t].data \subseteq {On} /\ job[t].merged \subseteq {On}
          BY <1>1 DEF UpdateInv, JobIsRight, AsksForBoolean, SetPcs
        <5>. QED
          BY <1>1, <5>1, OutcomesAreRight DEF UpdateInv
      <4>. QED
        BY <1>4, <1>5, <1>7, <1>8, <1>11, <3>1, <4>1 DEF Merged
    <3>2. CASE ~o.ok
      BY <1>4, <1>7, <1>8, <3>2
    <3>. QED
      BY <3>1, <3>2
  <2>5. EnforcedUnlessSaving'
    <3>1. ASSUME NEW q \in (Policies \ BoolPolicies) \ {p},
                 \A u \in Threads : ~At(u, "save", q)'
          PROVE  enforced'[q] = combined'[q]
      <4>1. \A u \in Threads : ~At(u, "save", q)
        BY <1>1, <2>1, <3>1 DEF At
      <4>. QED
        BY <1>4, <1>8, <4>1 DEF StripeInv, EnforcedUnlessSaving
    <3>. QED
      BY <2>4, <3>1 DEF EnforcedUnlessSaving
  <2>6. SubscribedUnlessAnnouncing'
    <3>1. ASSUME NEW u \in Threads, NEW q \in Policies, At(u, "announce", q)
          PROVE  At(u, "announce", q)'
      BY <1>1, <2>1, <3>1 DEF At
    <3>. QED
      BY <1>4, <3>1, Zenon DEF StripeInv, SubscribedUnlessAnnouncing
  <2>. QED
    BY <1>4, <1>11, <2>2, <2>3, <2>5, <2>6 DEF StripeInv
<1>. QED
  BY <1>3, <1>10, <1>11

(* Nobody else works on the policy, so nobody is overtaken.                   *)
LEMMA SaveKeepsStripes ==
    ASSUME UpdateInv, StripeInv, NoFailedWrites, NEW t \in Threads, Save(t)
    PROVE  StripeInv'
<1>1. /\ job[t] \in SetJob /\ SetTo(t, "announce", job[t].held, job[t].merged)
      /\ job[t].pc = "save"
  BY SetSteps DEF UpdateInv, Save
<1>2. PICK p \in Policies, a \in Admins : p = job[t].policy /\ a = job[t].admin
  BY <1>1 DEF SetJob
<1>3. PICK v \in Value, m \in Value : v = job[t].held /\ m = job[t].merged
  BY <1>1 DEF SetJob
<1>4. /\ job'[t].pc = "announce" /\ job'[t].policy = p /\ job'[t].merged = m
      /\ \A u \in Threads \ {t} : job'[u] = job[u]
  BY <1>1, <1>2, <1>3 DEF SetTo, UpdateInv, Types
<1>5. /\ \A q \in Policies \ {p} : own'[q] = own[q] /\ combined'[q] = combined[q]
      /\ combined'[p] = m
  <2>1. own' = [own EXCEPT ![p][a] = v] /\ combined' = [combined EXCEPT ![p] = m]
    BY <1>2, <1>3, SaveEffect, Zenon
  <2>. QED
    BY <2>1 DEF UpdateInv, Types
<1>6. UNCHANGED <<enforced, subscribed, stripes>> /\ Wrote(t, p)
  BY <1>2 DEF Save, locks
<1>7. ASSUME NEW u \in Threads \ {t}, job[u].pc \in InStripe
      PROVE  job[u].policy \in Policies \ {p}
  <2>1. job[u].policy # p
    BY <1>1, <1>2, <1>7, StripesExclude DEF InStripe
  <2>. QED
    BY <1>7, <2>1, Kinds DEF UpdateInv, InStripe, SetPcs, SetJob
<1>8. stale' = {} /\ raced' = {}
  <2>1. Readers(p) \subseteq {t}
    BY <1>7 DEF Readers, InStripe, StripeInv, JobInStripe, DisablePcs, UpdateInv, Types, Jobs,
       Idle, SetJob, DisableJob
  <2>. QED
    BY <1>6, <2>1 DEF Wrote, StripeInv
<1>9. JobInStripe(t)'
  <2>1. HoldsStripe(t)'
    BY <1>1, <1>2, <1>4, <1>6 DEF StripeInv, JobInStripe, HoldsStripe, InStripe
  <2>. QED
    BY <1>4, <1>5, <2>1 DEF JobInStripe, HeldIsOwn, SavingIsEnforced, AnnouncingIsStored, DisablePcs
<1>10. ASSUME NEW u \in Threads \ {t} PROVE JobInStripe(u)'
  <2>1. HoldsStripe(u)'
    BY <1>4, <1>6, OthersHoldStripes
  <2>2. job'[u] = job[u] /\ JobInStripe(u)
    BY <1>4 DEF StripeInv
  <2>. QED
    BY <1>5, <1>6, <1>7, <2>1, <2>2
       DEF JobInStripe, HeldIsOwn, SavingIsEnforced, AnnouncingIsStored, InStripe
<1>11. EnforcedUnlessSaving'
  <2>1. ASSUME NEW q \in (Policies \ BoolPolicies) \ {p}, \A u \in Threads : ~At(u, "save", q)'
        PROVE  enforced'[q] = combined'[q]
    <3>1. \A u \in Threads : ~At(u, "save", q)
      BY <1>2, <1>4, <2>1 DEF At
    <3>. QED
      BY <1>5, <1>6, <3>1 DEF StripeInv, EnforcedUnlessSaving
  <2>2. p \notin BoolPolicies => enforced'[p] = combined'[p]
    BY <1>1, <1>2, <1>3, <1>5, <1>6 DEF StripeInv, JobInStripe, SavingIsEnforced
  <2>. QED
    BY <2>1, <2>2 DEF EnforcedUnlessSaving
<1>12. SubscribedUnlessAnnouncing'
  <2>1. ASSUME NEW q \in Policies \ {p}, \A u \in Threads : ~At(u, "announce", q)'
        PROVE  q \in subscribed' <=> combined'[q] # {}
    <3>1. \A u \in Threads : ~At(u, "announce", q)
      BY <1>1, <1>4, <2>1 DEF At
    <3>2. q \in subscribed <=> combined[q] # {}
      BY <3>1, Zenon DEF StripeInv, SubscribedUnlessAnnouncing
    <3>. QED
      BY <1>5, <1>6, <3>2
  <2>2. At(t, "announce", p)'
    BY <1>4 DEF At
  <2>. QED
    BY <2>1, <2>2, Zenon DEF SubscribedUnlessAnnouncing
<1>. QED
  BY <1>8, <1>9, <1>10, <1>11, <1>12 DEF StripeInv

LEMMA AnnounceKeepsStripes ==
    ASSUME UpdateInv, StripeInv, NEW t \in Threads, Announce(t)
    PROVE  StripeInv'
<1>1. job[t] \in SetJob /\ job[t].pc = "announce"
  BY SetSteps DEF UpdateInv, Announce
<1>2. PICK p \in Policies : p = job[t].policy
  BY <1>1 DEF SetJob
<1>3. /\ job'[t].pc = "idle"
      /\ \A u \in Threads \ {t} : job'[u] = job[u]
  BY FinishFields DEF UpdateInv, Announce
<1>4. /\ UNCHANGED <<own, combined, enforced, stale, raced>> /\ Unlock(t)
      /\ subscribed' = IF job[t].merged = {} THEN subscribed \ {p} ELSE subscribed \cup {p}
  BY <1>2 DEF Announce, store, history
<1>5. JobInStripe(t)'
  BY <1>3 DEF JobInStripe, HoldsStripe, HeldIsOwn, SavingIsEnforced, AnnouncingIsStored,
     InStripe, DisablePcs
<1>6. ASSUME NEW u \in Threads \ {t} PROVE JobInStripe(u)'
  <2>1. HoldsStripe(u)'
    BY <1>3, <1>4, OthersHoldStripes
  <2>2. job'[u] = job[u] /\ JobInStripe(u)
    BY <1>3 DEF StripeInv
  <2>. QED
    BY <1>4, <2>1, <2>2 DEF JobInStripe, HeldIsOwn, SavingIsEnforced, AnnouncingIsStored
<1>7. EnforcedUnlessSaving'
  <2>1. ASSUME NEW u \in Threads, NEW q \in Policies, At(u, "save", q) PROVE At(u, "save", q)'
    BY <1>1, <1>3, <2>1 DEF At
  <2>. QED
    BY <1>4, <2>1 DEF StripeInv, EnforcedUnlessSaving
<1>8. SubscribedUnlessAnnouncing'
  <2>1. ASSUME NEW q \in Policies \ {p}, \A u \in Threads : ~At(u, "announce", q)'
        PROVE  q \in subscribed' <=> combined'[q] # {}
    <3>1. \A u \in Threads : ~At(u, "announce", q)
      BY <1>2, <1>3, <2>1 DEF At
    <3>2. q \in subscribed <=> combined[q] # {}
      BY <3>1, Zenon DEF StripeInv, SubscribedUnlessAnnouncing
    <3>. QED
      BY <1>4, <3>2
  <2>2. p \in subscribed' <=> combined'[p] # {}
    BY <1>1, <1>2, <1>4 DEF StripeInv, JobInStripe, AnnouncingIsStored
  <2>. QED
    BY <2>1, <2>2, Zenon DEF SubscribedUnlessAnnouncing
<1>. QED
  BY <1>4, <1>5, <1>6, <1>7, <1>8 DEF StripeInv

(* With administrators that only set, every step is one of UpdateDevicePolicy. *)
LEMMA OnlySetSteps ==
    ASSUME OnlySets, Types, StripeInv, [Next]_vars
    PROVE  \/ UNCHANGED vars
           \/ \E t \in Threads :
                 \/ \E a \in Admins, p \in Policies : \E r \in Requests(p) : BeginSet(t, a, p, r)
                 \/ SetStep(t)
<1>1. NoEvents /\ \A a \in Admins : ~Enable(a) /\ \A t \in Threads : ~BeginDisable(t, a)
  BY DEF OnlySets, NoEvents, Enable, BeginDisable, Budget
<1>2. ASSUME NEW t \in Threads PROVE ~DisableStep(t)
  BY DEF StripeInv, JobInStripe, DisablePcs, DisableStep, TakeItem, Unenforce, Lookup, Drop,
     Recheck, Unsubscribe, EndDisable
<1>. QED
  BY <1>1, <1>2, StepCases, Zenon

LEMMA StripeStep ==
    ASSUME UpdateInv, StripeInv, OnlySets, NoFailedWrites, [Next]_vars
    PROVE  StripeInv'
<1>1. CASE UNCHANGED vars
  <2>1. EnforcedUnlessSaving' /\ (\A t \in Threads : JobInStripe(t)')
    BY <1>1 DEF StripeInv, EnforcedUnlessSaving, At, JobInStripe, HoldsStripe, HeldIsOwn,
       SavingIsEnforced, AnnouncingIsStored, vars, store, locks, history
  <2>2. SubscribedUnlessAnnouncing'
    BY <1>1, Zenon DEF StripeInv, SubscribedUnlessAnnouncing, At, vars, store
  <2>. QED
    BY <1>1, <2>1, <2>2 DEF StripeInv, vars, history
<1>2. ASSUME NEW t \in Threads,
             \/ \E a \in Admins, p \in Policies : \E r \in Requests(p) : BeginSet(t, a, p, r)
             \/ SetStep(t)
      PROVE  StripeInv'
  BY <1>2, EarlyStepsKeepStripes, ExecuteKeepsStripes, SaveKeepsStripes, AnnounceKeepsStripes,
     Zenon DEF SetStep
<1>3. Types
  BY DEF UpdateInv
<1>. QED
  BY <1>1, <1>2, <1>3, OnlySetSteps

(* The inductive invariant of concurrent updates: whoever works on a policy   *)
(* holds the stripe of its conflict group, and what is read, enforced, stored *)
(* and subscribed agrees but for what that thread has still to do.            *)
THEOREM StripeInvariant ==
    ASSUME OnlySets, NoFailedWrites
    PROVE  Spec => [](UpdateInv /\ StripeInv)
<1>0. NoEvents
  BY DEF OnlySets, NoEvents
<1>1. Init => UpdateInv /\ StripeInv
  BY InitUpdate, InitStripe
<1>2. UpdateInv /\ StripeInv /\ [Next]_vars => UpdateInv' /\ StripeInv'
  BY <1>0, UpdateStep, StripeStep
<1>. QED
  BY <1>1, <1>2, PTL DEF Spec

LEMMA QuietIsFree ==
    ASSUME StripeInv, NEW p \in Policies, Quiet(p), NEW t \in Threads, NEW pc \in InStripe
    PROVE  ~At(t, pc, p)
  BY UpdateAssumption DEF StripeInv, JobInStripe, HoldsStripe, Quiet, At

(* UpdateDevicePolicy reads the values of the others, lets the plugin act and *)
(* writes the merge; under the stripe no update of the policy gets between.   *)
THEOREM UpdatesMerge ==
    ASSUME OnlySets, NoFailedWrites
    PROVE  Spec => []MergeIsUnion
<1>1. UpdateInv /\ StripeInv => MergeIsUnion
  BY DEF UpdateInv, StoreIsRight, MergeUnlessRaced, StripeInv, MergeIsUnion
<1>. QED
  BY <1>1, StripeInvariant, PTL

(* What the other service was told of a list is what is stored, also when it  *)
(* refused part of it or the plugin's change was not stored.                  *)
THEOREM UpdatesEnforceTheMerge ==
    ASSUME OnlySets, NoFailedWrites
    PROVE  Spec => []EnforcedIsMerge
<1>1. UpdateInv /\ StripeInv => EnforcedIsMerge
  BY QuietIsFree DEF StripeInv, EnforcedUnlessSaving, EnforcedIsMerge, InStripe
<1>. QED
  BY <1>1, StripeInvariant, PTL

(* A plugin is subscribed to its event exactly while its policy is set.       *)
THEOREM UpdatesSubscribe ==
    ASSUME OnlySets, NoFailedWrites
    PROVE  Spec => []SubscribedWhenSet
<1>1. UpdateInv /\ StripeInv => SubscribedWhenSet
  <2>1. ASSUME StripeInv, NEW p \in Policies, Quiet(p)
        PROVE  p \in subscribed <=> combined[p] # {}
    <3>1. \A t \in Threads : ~At(t, "announce", p)
      BY <2>1, QuietIsFree DEF InStripe
    <3>. QED
      BY <2>1, <3>1, Zenon DEF StripeInv, SubscribedUnlessAnnouncing
  <2>. QED
    BY <2>1, Zenon DEF SubscribedWhenSet
<1>. QED
  BY <1>1, StripeInvariant, PTL

(* Concurrent calls of one administrator: a call that adds elements keeps     *)
(* those the administrator has by the time it is saved, one that removes      *)
(* elements brings none back.                                                 *)
THEOREM UpdatesAreNotLost ==
    ASSUME OnlySets, NoFailedWrites
    PROVE  Spec => NoLostUpdate
<1>. DEFINE Kept(t) ==
       job[t].pc = "save" /\ job'[t].pc = "announce" /\ job[t].policy \notin BoolPolicies =>
          LET p == job[t].policy  a == job[t].admin IN
          IF job[t].op = "set" THEN own[p][a] \subseteq own'[p][a]
                               ELSE own'[p][a] \subseteq own[p][a]
<1>1. ASSUME UpdateInv, StripeInv, [Next]_vars, NEW t \in Threads,
             job[t].pc = "save", job'[t].pc = "announce", job[t].policy \notin BoolPolicies
      PROVE  Kept(t)
  <2>0. Types
    BY <1>1 DEF UpdateInv
  <2>1. Save(t)
    <3>1. ~UNCHANGED vars
      BY <1>1 DEF vars
    <3>2. PICK u \in Threads :
             \/ \E a \in Admins, p \in Policies : \E r \in Requests(p) : BeginSet(u, a, p, r)
             \/ SetStep(u)
      BY <1>1, <2>0, <3>1, OnlySetSteps
    <3>3. u = t
      BY <1>1, <2>0, <3>2
         DEF SetStep, BeginSet, Find, Enter, ReadOthers, Execute, Save, Announce, Goto, Finish, Types
    <3>4. \A a \in Admins, p \in Policies : \A r \in Requests(p) : ~BeginSet(t, a, p, r)
      BY <1>1 DEF BeginSet, Idle
    <3>5. ~Find(t) /\ ~Enter(t) /\ ~ReadOthers(t) /\ ~Execute(t) /\ ~Announce(t)
      BY <1>1 DEF Find, Enter, ReadOthers, Execute, Announce
    <3>. QED
      BY <3>2, <3>3, <3>4, <3>5, Zenon DEF SetStep
  <2>2. job[t] \in SetJob
    BY <2>0, <2>1, SetSteps
  <2>3. PICK p \in Policies, a \in Admins, v \in Value :
           p = job[t].policy /\ a = job[t].admin /\ v = job[t].held
    BY <2>2 DEF SetJob
  <2>4. own' = [own EXCEPT ![p][a] = v]
    BY <2>1, <2>3, SaveEffect, Zenon
  <2>5. own'[p][a] = v
    BY <2>0, <2>4 DEF Types
  <2>. QED
    BY <1>1, <2>3, <2>5 DEF StripeInv, JobInStripe, HeldIsOwn
<1>2. UpdateInv /\ StripeInv /\ [Next]_vars => [\A t \in Threads : Kept(t)]_vars
  BY <1>1
<1>. QED
  BY <1>2, StripeInvariant, PTL DEF Spec, NoLostUpdate

-----------------------------------------------------------------------------
(* Policies that exclude each other. *)

(* What the plugins with a CheckConflictPolicy and the ConflictGroupRegistry  *)
(* have to provide: the exclusion is mutual, between boolean policies of one  *)
(* conflict group.                                                            *)
ConflictsAreMutual ==
    \A p \in Policies : \A q \in Conflicts[p] :
       p \in BoolPolicies /\ q # p /\ p \in Conflicts[q] /\ StripeOf(p) = StripeOf(q)

ExcludesConflicts(t) ==
    job[t].pc = "save" =>
       \A q \in Conflicts[job[t].policy] : job[t].merged = {} \/ combined[q] = {}
ConflictInv == ConflictsExcluded /\ \A t \in Threads : ExcludesConflicts(t)

(* A boolean is set only when nobody has set it yet and no conflict is set.   *)
LEMMA ConflictOutcomes ==
    ASSUME NEW j \in SetJob, j.policy \in BoolPolicies, NEW o \in Outcomes(j), o.ok
    PROVE  o.merged = {} \/ j.merged # {} \/ ~Conflicting(j.policy)
<1>1. o \in SetBool(j.policy, j.data, j.merged)
  BY DEF Outcomes
<1>2. CASE j.merged = {} /\ j.data = {}
  <2>1. \/ o = Done({}, {}, {})
        \/ o = Failed(enforced[j.policy]) \/ o = Failed({})
    BY <1>1, <1>2, Zenon DEF SetBool
  <2>. QED
    BY <2>1 DEF Done, Failed
<1>3. CASE j.merged = {} /\ j.data # {} /\ Conflicting(j.policy)
  BY <1>1, <1>3 DEF SetBool, Failed
<1>. QED
  BY <1>2, <1>3

(* The check of the conflicts and the saving are under one stripe.            *)
LEMMA ConflictStep ==
    ASSUME UpdateInv, StripeInv, ConflictInv, ConflictsAreMutual, OnlySets, NoFailedWrites,
           [Next]_vars
    PROVE  ConflictInv'
<1>0. Types /\ Conflicts \in [Policies -> SUBSET Policies]
  BY UpdateAssumption DEF UpdateInv
<1>1. ASSUME UNCHANGED combined, NEW t \in Threads, \A u \in Threads \ {t} : job'[u] = job[u],
             ExcludesConflicts(t)'
      PROVE  ConflictInv'
  BY <1>1 DEF ConflictInv, ConflictsExcluded, ExcludesConflicts
<1>2. ASSUME UNCHANGED combined, NEW t \in Threads, \A u \in Threads \ {t} : job'[u] = job[u],
             job'[t].pc # "save"
      PROVE  ConflictInv'
  BY <1>1, <1>2 DEF ExcludesConflicts
<1>3. CASE UNCHANGED vars
  BY <1>3 DEF ConflictInv, ConflictsExcluded, ExcludesConflicts, vars, store
<1>4. ASSUME NEW t \in Threads, NEW a \in Admins, NEW p \in Policies, NEW r \in Requests(p),
             BeginSet(t, a, p, r)
      PROVE  ConflictInv'
  BY <1>0, <1>2, <1>4 DEF BeginSet, store, Types
<1>5. ASSUME NEW t \in Threads, Find(t) \/ Enter(t) \/ ReadOthers(t) PROVE ConflictInv'
  <2>1. job'[t].pc # "save" /\ \A u \in Threads \ {t} : job'[u] = job[u]
    BY <1>0, <1>5, SetSteps DEF SetTo, Types
  <2>. QED
    BY <1>2, <1>5, <2>1 DEF Find, Enter, ReadOthers, store
<1>6. ASSUME NEW t \in Threads, Announce(t) PROVE ConflictInv'
  <2>1. job'[t].pc # "save" /\ \A u \in Threads \ {t} : job'[u] = job[u]
    BY <1>0, <1>6, FinishFields DEF Announce
  <2>. QED
    BY <1>2, <1>6, <2>1 DEF Announce, store
<1>7. ASSUME NEW t \in Threads, Execute(t) PROVE ConflictInv'
  <2>1. job[t] \in SetJob /\ job[t].pc = "execute" /\ UNCHANGED combined
    BY <1>0, <1>7, SetSteps DEF Execute, store
  <2>2. PICK p \in Policies, a \in Admins : p = job[t].policy /\ a = job[t].admin
    BY <2>1 DEF SetJob
  <2>3. PICK o \in Outcomes(job[t]) :
           \/ o.ok /\ SetTo(t, "save", o.own, o.merged)
           \/ Finish(t)
    BY <1>0, <1>7, ExecuteEffect, Zenon
  <2>4. CASE Finish(t)
    BY <1>0, <1>2, <2>1, <2>4, FinishFields
  <2>5. CASE o.ok /\ SetTo(t, "save", o.own, o.merged)
    <3>1. /\ job'[t].policy = p /\ job'[t].merged = o.merged
          /\ \A u \in Threads \ {t} : job'[u] = job[u]
      BY <1>0, <2>2, <2>5 DEF SetTo, Types
    <3>2. ASSUME NEW q \in Conflicts[p] PROVE o.merged = {} \/ combined[q] = {}
      <4>1. p \in BoolPolicies
        BY DEF ConflictsAreMutual
      <4>2. o.merged = {} \/ job[t].merged # {} \/ ~Conflicting(p)
        BY <2>1, <2>2, <2>5, <4>1, ConflictOutcomes
      <4>3. ~Conflicting(p) => combined[q] = {}
        BY DEF Conflicting
      <4>4. job[t].merged # {} => combined[p] # {}
        <5>1. job[t].merged = Others(p, a)
          BY <2>1, <2>2 DEF StripeInv, UpdateInv, JobIsRight, ReadIsCurrent
        <5>2. combined[p] = Merge(p)
          BY DEF StripeInv, UpdateInv, StoreIsRight, MergeUnlessRaced
        <5>. QED
          BY <1>0, <5>1, <5>2, ValuesRead
      <4>5. combined[p] = {} \/ combined[q] = {}
        BY DEF ConflictInv, ConflictsExcluded
      <4>. QED
        BY <4>2, <4>3, <4>4, <4>5
    <3>3. ExcludesConflicts(t)'
      BY <2>1, <3>1, <3>2 DEF ExcludesConflicts
    <3>. QED
      BY <1>1, <2>1, <3>1, <3>3
  <2>. QED
    BY <2>3, <2>4, <2>5
<1>8. ASSUME NEW t \in Threads, Save(t) PROVE ConflictInv'
  <2>1. /\ job[t] \in SetJob /\ SetTo(t, "announce", job[t].held, job[t].merged)
        /\ job[t].pc = "save"
    BY <1>0, <1>8, SetSteps DEF Save
  <2>2. PICK p \in Policies, m \in Value : p = job[t].policy /\ m = job[t].merged
    BY <2>1 DEF SetJob
  <2>3. combined'[p] = m /\ \A q \in Policies \ {p} : combined'[q] = combined[q]
    <3>1. combined' = [combined EXCEPT ![p] = m]
      BY <1>8, <2>2, SaveEffect
    <3>. QED
      BY <1>0, <3>1 DEF Types
  <2>4. job'[t].pc = "announce" /\ \A u \in Threads \ {t} : job'[u] = job[u]
    BY <1>0, <2>1 DEF SetTo, Types
  <2>5. \A q \in Conflicts[p] : q # p /\ p \in Conflicts[q] /\ (m = {} \/ combined[q] = {})
    BY <2>1, <2>2 DEF ConflictInv, ExcludesConflicts, ConflictsAreMutual
  <2>6. ConflictsExcluded'
    <3>1. ASSUME NEW q \in Policies, NEW r \in Conflicts[q]
          PROVE  combined'[q] = {} \/ combined'[r] = {}
      <4>1. r \in Policies /\ q # r /\ q \in Conflicts[r]
        BY <1>0 DEF ConflictsAreMutual
      <4>2. combined[q] = {} \/ combined[r] = {}
        BY DEF ConflictInv, ConflictsExcluded
      <4>. QED
        BY <2>3, <2>5, <4>1, <4>2
    <3>. QED
      BY <3>1 DEF ConflictsExcluded
  <2>7. ASSUME NEW u \in Threads, job'[u].pc = "save" PROVE ExcludesConflicts(u)'
    <3>1. u # t /\ job'[u] = job[u]
      BY <2>4, <2>7
    <3>2. job[u].policy \in Policies
      BY <1>0, <2>7, <3>1, Kinds DEF SetPcs, SetJob
    <3>3. StripeOf(job[u].policy) # StripeOf(p)
      BY <2>1, <2>2, <2>7, <3>1, StripesExclude DEF InStripe
    <3>4. \A q \in Conflicts[job[u].policy] : q \in Policies /\ q # p
      BY <1>0, <3>2, <3>3 DEF ConflictsAreMutual
    <3>. QED
      BY <2>3, <2>7, <3>1, <3>4 DEF ConflictInv, ExcludesConflicts
  <2>. QED
    BY <2>6, <2>7 DEF ConflictInv, ExcludesConflicts
<1>. QED
  BY <1>0, <1>3, <1>4, <1>5, <1>6, <1>7, <1>8, OnlySetSteps DEF SetStep

(* CheckConflictPolicy sees every policy that excludes this one, also one     *)
(* another thread is about to set: they are not in force together.            *)
THEOREM UpdatesExcludeConflicts ==
    ASSUME OnlySets, NoFailedWrites, ConflictsAreMutual
    PROVE  Spec => []ConflictsExcluded
<1>1. Init => ConflictInv
  <2>1. Init => ConflictsExcluded
    BY UpdateAssumption DEF Init, ConflictsExcluded
  <2>2. Init => \A t \in Threads : ExcludesConflicts(t)
    BY DEF Init, Idle, ExcludesConflicts
  <2>. QED
    BY <2>1, <2>2 DEF ConflictInv
<1>2. UpdateInv /\ StripeInv /\ ConflictInv /\ [Next]_vars => ConflictInv'
  BY ConflictStep
<1>3. ConflictInv => ConflictsExcluded
  BY DEF ConflictInv
<1>. QED
  BY <1>1, <1>2, <1>3, StripeInvariant, PTL DEF Spec

-----------------------------------------------------------------------------
(* Updates are atomic. *)

(* Lists hold elements of lists, and what is about to be saved for an         *)
(* addition is within the limit.                                              *)
ListsAreOfValues == \A p \in Policies \ BoolPolicies, a \in Admins : own[p][a] \subseteq Values
AsksForList(t) ==
    job[t].pc \in SetPcs /\ job[t].policy \notin BoolPolicies =>
       /\ job[t].data \subseteq Values /\ job[t].held \subseteq Values
       /\ job[t].pc = "save" /\ job[t].op = "set" => Cardinality(job[t].merged) <= MaxListSize
ListInv == ListsAreOfValues /\ \A t \in Threads : AsksForList(t)

LEMMA ListOutcomesFit ==
    ASSUME IsFiniteSet(Values), NEW j \in SetJob, j.policy \notin BoolPolicies,
           j.data \subseteq Values, j.held \subseteq Values, j.merged \subseteq Values,
           NEW o \in Outcomes(j), o.ok
    PROVE  /\ o.own \subseteq Values
           /\ j.op = "set" => Cardinality(o.merged) <= MaxListSize
<1>. DEFINE p == j.policy  d == j.data  held == j.held  others == j.merged
<1>1. CASE j.op = "set"
  <2>. DEFINE all == others \cup held \cup d
              fresh == (d \ held) \ others
  <2>1. o \in AddElements(p, d, held, others)
    BY <1>1 DEF Outcomes
  <2>2. \/ o = Failed(enforced[p])
        \/ /\ ~(Cardinality(d) > MaxListSize \/ Cardinality(all) > MaxListSize)
           /\ \E f \in Refused(fresh) : o = Done((held \cup d) \ f, all \ f, enforced[p] \cup (fresh \ f))
    BY <2>1, Zenon DEF AddElements
  <2>3. o # Failed(enforced[p])
    BY DEF Failed
  <2>4. PICK f : o = Done((held \cup d) \ f, all \ f, enforced[p] \cup (fresh \ f))
    BY <2>2, <2>3
  <2>5. IsFiniteSet(all)
    BY FS_Subset
  <2>6. Cardinality(all) \in Nat /\ Cardinality(all \ f) \in Nat /\ Cardinality(all \ f) <= Cardinality(all)
    BY <2>5, FS_Subset, FS_CardinalityType
  <2>7. Cardinality(all) <= MaxListSize
    BY <2>2, <2>3, <2>6, UpdateAssumption
  <2>8. o.own = (held \cup d) \ f /\ o.merged = all \ f
    BY <2>4 DEF Done
  <2>9. Cardinality(all \ f) <= MaxListSize
    BY <2>6, <2>7, UpdateAssumption
  <2>. QED
    BY <2>8, <2>9
<1>2. CASE j.op # "set"
  <2>1. o.own \subseteq held \/ ~o.ok
    <3>1. o \in RemoveElements(p, d, held, others)
      BY <1>2 DEF Outcomes
    <3>. QED
      BY <3>1 DEF RemoveElements, Done, Failed
  <2>. QED
    BY <1>2, <2>1
<1>. QED
  BY <1>1, <1>2

LEMMA ListStep ==
    ASSUME UpdateInv, StripeInv, ListInv, IsFiniteSet(Values), OnlySets, NoFailedWrites, [Next]_vars
    PROVE  ListInv'
<1>0. Types
  BY DEF UpdateInv
<1>1. ASSUME UNCHANGED own, NEW t \in Threads, \A u \in Threads \ {t} : job'[u] = job[u], AsksForList(t)'
      PROVE  ListInv'
  BY <1>1 DEF ListInv, ListsAreOfValues, AsksForList
<1>2. CASE UNCHANGED vars
  BY <1>2 DEF ListInv, ListsAreOfValues, AsksForList, vars, store
<1>3. ASSUME NEW t \in Threads, NEW a \in Admins, NEW p \in Policies, NEW r \in Requests(p),
             BeginSet(t, a, p, r)
      PROVE  ListInv'
  <2>1. /\ UNCHANGED own /\ \A u \in Threads \ {t} : job'[u] = job[u]
        /\ job'[t] = [pc |-> "find", admin |-> a, policy |-> p, op |-> r.op, data |-> r.data,
                      held |-> {}, merged |-> {}]
    BY <1>0, <1>3 DEF BeginSet, store, Types
  <2>2. p \notin BoolPolicies => r.data \subseteq Values
    BY DEF Requests
  <2>3. AsksForList(t)'
    BY <2>1, <2>2 DEF AsksForList
  <2>. QED
    BY <1>1, <2>1, <2>3
<1>4. ASSUME NEW t \in Threads, Find(t) \/ Enter(t) \/ ReadOthers(t) PROVE ListInv'
  <2>1. UNCHANGED own /\ job[t].pc \in SetPcs
    BY <1>4 DEF Find, Enter, ReadOthers, store, SetPcs
  <2>2. job[t] \in SetJob
    BY <1>0, <1>4, SetSteps
  <2>3. /\ job[t].policy \in Policies /\ job[t].admin \in Admins
        /\ job[t].held \in Value /\ job[t].merged \in Value
    BY <2>2 DEF SetJob
  <2>4. /\ own[job[t].policy][job[t].admin] \in Value
        /\ Others(job[t].policy, job[t].admin) \in Value
    BY <1>0, <2>3, ValuesRead
  <2>5. PICK pc \in SetPcs \ {"save"}, held \in Value, merged \in Value :
           /\ SetTo(t, pc, held, merged)
           /\ held \in {job[t].held, own[job[t].policy][job[t].admin]}
    BY <1>0, <1>4, <2>3, <2>4, SetSteps, Zenon DEF SetPcs
  <2>6. /\ job'[t].pc # "save" /\ job'[t].held = held /\ job'[t].policy = job[t].policy
        /\ job'[t].data = job[t].data /\ \A u \in Threads \ {t} : job'[u] = job[u]
    BY <1>0, <2>2, <2>5, SetToFields
  <2>7. AsksForList(t)'
    BY <2>1, <2>3, <2>5, <2>6 DEF ListInv, ListsAreOfValues, AsksForList
  <2>. QED
    BY <1>1, <2>1, <2>6, <2>7
<1>5. ASSUME NEW t \in Threads, Announce(t) PROVE ListInv'
  <2>1. UNCHANGED own /\ job'[t].pc = "idle" /\ \A u \in Threads \ {t} : job'[u] = job[u]
    BY <1>0, <1>5, FinishFields DEF Announce, store
  <2>. QED
    BY <1>1, <2>1 DEF AsksForList, SetPcs
<1>6. ASSUME NEW t \in Threads, Execute(t) PROVE ListInv'
  <2>1. job[t] \in SetJob /\ job[t].pc = "execute" /\ UNCHANGED own
    BY <1>0, <1>6, SetSteps DEF Execute, store
  <2>2. PICK p \in Policies, a \in Admins : p = job[t].policy /\ a = job[t].admin
    BY <2>1 DEF SetJob
  <2>3. PICK o \in Outcomes(job[t]) :
           \/ o.ok /\ SetTo(t, "save", o.own, o.merged)
           \/ Finish(t)
    BY <1>0, <1>6, ExecuteEffect, Zenon
  <2>4. CASE Finish(t)
    <3>1. job'[t].pc = "idle" /\ \A u \in Threads \ {t} : job'[u] = job[u]
      BY <1>0, <2>4, FinishFields
    <3>. QED
      BY <1>1, <2>1, <3>1 DEF AsksForList, SetPcs
  <2>5. CASE o.ok /\ SetTo(t, "save", o.own, o.merged)
    <3>1. /\ job'[t].policy = p /\ job'[t].merged = o.merged /\ job'[t].held = o.own
          /\ job'[t].data = job[t].data /\ job'[t].op = job[t].op
          /\ \A u \in Threads \ {t} : job'[u] = job[u]
      BY <1>0, <2>2, <2>5 DEF SetTo, Types
    <3>2. ASSUME p \notin BoolPolicies
          PROVE  /\ job[t].data \subseteq Values /\ o.own \subseteq Values
                 /\ job[t].op = "set" => Cardinality(o.merged) <= MaxListSize
      <4>1. job[t].data \subseteq Values /\ job[t].held \subseteq Values
        BY <2>1, <2>2, <3>2 DEF ListInv, AsksForList, SetPcs
      <4>2. job[t].merged = Others(p, a)
        BY <2>1, <2>2 DEF StripeInv, UpdateInv, JobIsRight, ReadIsCurrent
      <4>3. job[t].merged \subseteq Values
        BY <3>2, <4>2 DEF ListInv, ListsAreOfValues, Others
      <4>. QED
        BY <2>1, <2>2, <2>5, <3>2, <4>1, <4>3, ListOutcomesFit
    <3>3. AsksForList(t)'
      BY <3>1, <3>2 DEF AsksForList
    <3>. QED
      BY <1>1, <2>1, <3>1, <3>3
  <2>. QED
    BY <2>3, <2>4, <2>5
<1>7. ASSUME NEW t \in Threads, Save(t) PROVE ListInv'
  <2>1. /\ job[t] \in SetJob /\ SetTo(t, "announce", job[t].held, job[t].merged)
        /\ job[t].pc = "save"
    BY <1>0, <1>7, SetSteps DEF Save
  <2>2. PICK p \in Policies, a \in Admins, v \in Value, m \in Value :
           p = job[t].policy /\ a = job[t].admin /\ v = job[t].held /\ m = job[t].merged
    BY <2>1 DEF SetJob
  <2>3. own' = [own EXCEPT ![p][a] = v]
    BY <1>7, <2>2, SaveEffect, Zenon
  <2>4. /\ job'[t].pc = "announce" /\ job'[t].held = v /\ job'[t].policy = p
        /\ job'[t].data = job[t].data /\ \A u \in Threads \ {t} : job'[u] = job[u]
    BY <1>0, <2>1, <2>2, SetToFields DEF SetPcs
  <2>5. p \notin BoolPolicies => v \subseteq Values /\ job[t].data \subseteq Values
    BY <2>1, <2>2 DEF ListInv, AsksForList, SetPcs
  <2>6. ListsAreOfValues'
    BY <1>0, <2>3, <2>5 DEF ListInv, ListsAreOfValues, Types
  <2>7. ASSUME NEW u \in Threads PROVE AsksForList(u)'
    BY <2>4, <2>5 DEF ListInv, AsksForList
  <2>. QED
    BY <2>6, <2>7 DEF ListInv
<1>. QED
  BY <1>0, <1>2, <1>3, <1>4, <1>5, <1>6, <1>7, OnlySetSteps DEF SetStep

(* SharedPolicies counts the elements of a list as this module does.          *)
LEMMA SameSize ==
    ASSUME NEW S
    PROVE  Shared!Cardinality(S) = Cardinality(S)
BY DEF Shared!Cardinality, Cardinality, Shared!IsFiniteSet, IsFiniteSet

(* A call takes effect when its values are saved.                             *)
LEMMA SaveTakesEffect ==
    ASSUME UpdateInv, StripeInv, ConflictInv, ListInv, NoFailedWrites, NEW t \in Threads, Save(t)
    PROVE  Shared!SharedNext
<1>0. Types
  BY DEF UpdateInv
<1>1. job[t] \in SetJob /\ job[t].pc = "save"
  BY <1>0, SetSteps DEF Save
<1>2. PICK p \in Policies, a \in Admins, v \in Value, m \in Value :
         p = job[t].policy /\ a = job[t].admin /\ v = job[t].held /\ m = job[t].merged
  BY <1>1 DEF SetJob
<1>3. own' = [own EXCEPT ![p][a] = v] /\ combined' = [combined EXCEPT ![p] = m]
  BY <1>2, SaveEffect, Zenon
<1>4. m = v \cup UNION {own[p][b] : b \in Admins \ {a}}
  BY <1>1, <1>2 DEF StripeInv, UpdateInv, JobIsRight, ReadIsCurrent, Others
<1>5. Shared!Change(p, a, v)
  BY <1>3, <1>4, Zenon DEF Shared!Change
<1>6. CASE p \in BoolPolicies
  <2>1. v \in {{}, {On}}
    BY <1>1, <1>2, <1>6 DEF UpdateInv, JobIsRight, AsksForBoolean, SetPcs
  <2>2. v = {On} => \A q \in Conflicts[p] : combined[q] = {}
    BY <1>1, <1>2, <1>4 DEF ConflictInv, ExcludesConflicts
  <2>3. Shared!Switch(p, a, v)
    BY <1>5, <1>6, <2>2 DEF Shared!Switch
  <2>. QED
    BY <2>1, <2>3, Zenon DEF Shared!SharedNext
<1>7. CASE p \notin BoolPolicies
  <2>1. own[p][a] \subseteq Values /\ v \subseteq Values
    BY <1>1, <1>2, <1>7 DEF ListInv, ListsAreOfValues, AsksForList, SetPcs
  <2>2. CASE job[t].op = "set"
    <3>1. own[p][a] \subseteq v
      BY <1>1, <1>2, <1>7, <2>2 DEF StripeInv, JobInStripe, HeldIsOwn
    <3>2. own[p][a] \cup (v \ own[p][a]) = v /\ v \ own[p][a] \in SUBSET Values
      BY <2>1, <3>1
    <3>3. combined'[p] = m
      BY <1>0, <1>3 DEF Types
    <3>4. Cardinality(m) <= MaxListSize
      BY <1>1, <1>2, <1>7, <2>2 DEF ListInv, AsksForList, SetPcs
    <3>5. Shared!Add(p, a, v \ own[p][a])
      <4>1. Shared!Change(p, a, own[p][a] \cup (v \ own[p][a]))
        BY <1>5, <3>2, Zenon
      <4>2. Shared!Cardinality(combined'[p]) <= MaxListSize
        BY <3>3, <3>4, SameSize, Zenon
      <4>. QED
        BY <1>7, <4>1, <4>2, Zenon DEF Shared!Add
    <3>. QED
      BY <3>2, <3>5, Zenon DEF Shared!SharedNext
  <2>3. CASE job[t].op # "set"
    <3>1. v \subseteq own[p][a]
      BY <1>1, <1>2, <1>7, <2>3 DEF StripeInv, JobInStripe, HeldIsOwn
    <3>2. own[p][a] \ (own[p][a] \ v) = v /\ own[p][a] \ v \in SUBSET Values
      BY <2>1, <3>1
    <3>3. Shared!Take(p, a, own[p][a] \ v)
      BY <1>5, <1>7, <3>2 DEF Shared!Take
    <3>. QED
      BY <3>2, <3>3, Zenon DEF Shared!SharedNext
  <2>. QED
    BY <2>2, <2>3
<1>. QED
  BY <1>6, <1>7

(* The phases of UpdateDevicePolicy, interleaved with those of other threads  *)
(* in any way, are to everybody who reads the stored values one step, as      *)
(* SharedPolicies has it; all others are invisible.                           *)
THEOREM ThreadsShareAtomically ==
    ASSUME OnlySets, NoFailedWrites, ConflictsAreMutual, IsFiniteSet(Values)
    PROVE  Spec => UpdatesAreAtomic
<1>1. Init => ConflictInv /\ ListInv
  <2>1. Init => ConflictsExcluded
    BY UpdateAssumption DEF Init, ConflictsExcluded
  <2>2. Init => \A t \in Threads : ExcludesConflicts(t) /\ AsksForList(t)
    BY DEF Init, Idle, ExcludesConflicts, AsksForList, SetPcs
  <2>3. Init => ListsAreOfValues
    BY DEF Init, ListsAreOfValues
  <2>. QED
    BY <2>1, <2>2, <2>3 DEF ConflictInv, ListInv
<1>2. UpdateInv /\ StripeInv /\ ConflictInv /\ ListInv /\ [Next]_vars => ConflictInv' /\ ListInv'
  BY ConflictStep, ListStep
<1>3. Init => Shared!SharedInit
  BY DEF Init, Shared!SharedInit
<1>4. UpdateInv /\ StripeInv /\ ConflictInv /\ ListInv /\ [Next]_vars
        => [Shared!SharedNext]_Shared!sharedVars
  <2>1. ASSUME UNCHANGED store PROVE UNCHANGED Shared!sharedVars
    BY <2>1 DEF store, Shared!sharedVars
  <2>2. ASSUME UNCHANGED vars PROVE UNCHANGED store
    BY <2>2 DEF vars
  <2>3. ASSUME NEW t \in Threads, NEW a \in Admins, NEW p \in Policies, NEW r \in Requests(p),
               BeginSet(t, a, p, r)
        PROVE  UNCHANGED store
    BY <2>3 DEF BeginSet
  <2>4. ASSUME NEW t \in Threads, Find(t) \/ Enter(t) \/ ReadOthers(t) \/ Execute(t) \/ Announce(t)
        PROVE  UNCHANGED store
    BY <2>4 DEF Find, Enter, ReadOthers, Execute, Announce
  <2>5. ASSUME UpdateInv, StripeInv, ConflictInv, ListInv, [Next]_vars
        PROVE  UNCHANGED store \/ Shared!SharedNext
    <3>1. Types
      BY <2>5 DEF UpdateInv
    <3>. QED
      BY <2>2, <2>3, <2>4, <2>5, <3>1, OnlySetSteps, SaveTakesEffect DEF SetStep
  <2>. QED
    BY <2>1, <2>5
<1>. QED
  BY <1>1, <1>2, <1>3, <1>4, StripeInvariant, PTL DEF Spec, UpdatesAreAtomic, Shared!SharedSpec
-----------------------------------------------------------------------------
(* All actors together, failing writes included: types and locks.  What is   *)
(* stored can go wrong here, but every local variable keeps its type and     *)
(* every lock is held for exactly as long as the code says.                  *)

EventPcs == {"take", "each", "rewrite", "cancel"}
MutexPcs == {"unenforce", "lookup", "drop", "recheck", "unsubscribe", "each", "rewrite", "cancel"}
AllJobs == Jobs \cup EventJob

(* Whoever handles an event has an administrator to begin with.              *)
AllTypes ==
    /\ active \subseteq Admins
    /\ own \in [Policies -> [Admins -> Value]]
    /\ combined \in [Policies -> Value]
    /\ enforced \in [Policies -> Value]
    /\ subscribed \subseteq Policies
    /\ subscribed # {} => Admins # {}
    /\ adminLock \in Thread /\ mutexLock \in Thread
    /\ stripes \in [Groups -> Thread]
    /\ job \in [Threads -> AllJobs]
    /\ calls \in 0..MaxCalls
    /\ stale \subseteq Threads
    /\ raced \subseteq Policies
    /\ orphaned \subseteq Admins

(* A thread has a lock exactly while it is between the steps that take it and *)
(* give it back.                                                             *)
HasAdminLock(t) == adminLock = t <=> job[t].pc \in DisablePcs
HasMutexLock(t) == mutexLock = t <=> job[t].pc \in MutexPcs
HasStripe(t) ==
    \A g \in Groups :
       stripes[g] = t <=> (job[t].pc \in InStripe /\ StripeOf(job[t].policy) = g)
LockInv == \A t \in Threads : HasAdminLock(t) /\ HasMutexLock(t) /\ HasStripe(t)

LEMMA AllKinds ==
    ASSUME AllTypes, NEW t \in Threads
    PROVE  /\ job[t].pc \in SetPcs => job[t] \in SetJob
           /\ job[t].pc \in DisablePcs => job[t] \in DisableJob
           /\ job[t].pc \in EventPcs => job[t] \in EventJob
           /\ job[t].pc = "idle" => job[t] = Idle
           /\ job[t].pc \in SetPcs \cup DisablePcs \cup EventPcs \cup {"idle"}
  BY DEF AllTypes, AllJobs, Jobs, Idle, SetJob, DisableJob, EventJob, SetPcs, DisablePcs, EventPcs

LEMMA AnyJobUpdate ==
    ASSUME AllTypes, NEW t \in Threads, NEW r \in AllJobs, job' = [job EXCEPT ![t] = r]
    PROVE  job' \in [Threads -> AllJobs] /\ Becomes(t, r)
  BY DEF AllTypes, Becomes

(* Each lock by itself: a step of t leaves it alone, takes it or gives it    *)
(* back, and knows whether it has it afterwards.                             *)
Follows(lock, next, t, has, will) ==
    \/ next = lock /\ (will <=> has)
    \/ lock = NoThread /\ next = t /\ will
    \/ has /\ next = NoThread /\ ~will

LEMMA LocksFollow ==
    ASSUME AllTypes, LockInv, NEW t \in Threads,
           \A u \in Threads \ {t} : job'[u] = job[u],
           Follows(adminLock, adminLock', t, job[t].pc \in DisablePcs, job'[t].pc \in DisablePcs),
           Follows(mutexLock, mutexLock', t, job[t].pc \in MutexPcs, job'[t].pc \in MutexPcs),
           \A g \in Groups :
              Follows(stripes[g], stripes'[g], t,
                      job[t].pc \in InStripe /\ StripeOf(job[t].policy) = g,
                      job'[t].pc \in InStripe /\ StripeOf(job'[t].policy) = g)
    PROVE  LockInv'
<1>1. ASSUME NEW u \in Threads PROVE HasAdminLock(u)'
  BY UpdateAssumption DEF LockInv, HasAdminLock, Follows
<1>2. ASSUME NEW u \in Threads PROVE HasMutexLock(u)'
  BY UpdateAssumption DEF LockInv, HasMutexLock, Follows
<1>3. ASSUME NEW u \in Threads PROVE HasStripe(u)'
  <2>. SUFFICES ASSUME NEW g \in Groups
               PROVE  (stripes[g] = u
                         <=> (job[u].pc \in InStripe /\ StripeOf(job[u].policy) = g))'
    BY DEF HasStripe
  <2>1. /\ stripes[g] = u <=> (job[u].pc \in InStripe /\ StripeOf(job[u].policy) = g)
        /\ stripes[g] = t <=> (job[t].pc \in InStripe /\ StripeOf(job[t].policy) = g)
    BY DEF LockInv, HasStripe
  <2>2. CASE u = t
    BY <2>1, <2>2, UpdateAssumption DEF Follows
  <2>3. CASE u # t
    BY <2>1, <2>3, UpdateAssumption DEF Follows
  <2>. QED
    BY <2>2, <2>3
<1>. QED
  BY <1>1, <1>2, <1>3 DEF LockInv

(* A step that neither takes nor gives back a lock.                          *)
LEMMA LocksKept ==
    ASSUME AllTypes, LockInv, NEW t \in Threads, UNCHANGED locks,
           \A u \in Threads \ {t} : job'[u] = job[u],
           job'[t].pc \in DisablePcs <=> job[t].pc \in DisablePcs,
           job'[t].pc \in MutexPcs <=> job[t].pc \in MutexPcs,
           job'[t].pc \in InStripe <=> job[t].pc \in InStripe,
           job[t].pc \in InStripe => job'[t].policy = job[t].policy
    PROVE  LockInv'
<1>1. /\ Follows(adminLock, adminLock', t, job[t].pc \in DisablePcs, job'[t].pc \in DisablePcs)
      /\ Follows(mutexLock, mutexLock', t, job[t].pc \in MutexPcs, job'[t].pc \in MutexPcs)
  BY DEF Follows, locks
<1>2. ASSUME NEW g \in Groups
      PROVE  Follows(stripes[g], stripes'[g], t,
                     job[t].pc \in InStripe /\ StripeOf(job[t].policy) = g,
                     job'[t].pc \in InStripe /\ StripeOf(job'[t].policy) = g)
  <2>1. stripes'[g] = stripes[g]
    BY DEF locks
  <2>. QED
    BY <2>1 DEF Follows
<1>. QED
  BY <1>1, <1>2, LocksFollow

(* How the local variables change: as before, in the jobs of all actors.     *)
LEMMA AllSetTo ==
    ASSUME AllTypes, NEW t \in Threads, job[t] \in SetJob, NEW pc \in SetPcs,
           NEW held \in Value, NEW merged \in Value, SetTo(t, pc, held, merged)
    PROVE  /\ job' \in [Threads -> AllJobs]
           /\ job'[t].pc = pc /\ job'[t].policy = job[t].policy
           /\ \A u \in Threads \ {t} : job'[u] = job[u]
<1>. DEFINE r == [pc |-> pc, admin |-> job[t].admin, policy |-> job[t].policy, op |-> job[t].op,
                  data |-> job[t].data, held |-> held, merged |-> merged]
<1>1. r \in SetJob /\ job' = [job EXCEPT ![t] = r]
  BY DEF SetTo, SetJob, SetPcs
<1>2. job' \in [Threads -> AllJobs] /\ Becomes(t, r)
  BY <1>1, AnyJobUpdate DEF AllJobs, Jobs
<1>. QED
  BY <1>1, <1>2 DEF Becomes

LEMMA AllDisableTo ==
    ASSUME AllTypes, NEW t \in Threads, job[t] \in DisableJob, NEW pc \in DisablePcs,
           NEW todo \in SUBSET Policies, NEW policy \in Policies, NEW merged \in Value,
           NEW alone \in BOOLEAN, DisableTo(t, pc, todo, policy, merged, alone)
    PROVE  /\ job' \in [Threads -> AllJobs]
           /\ job'[t].pc = pc
           /\ \A u \in Threads \ {t} : job'[u] = job[u]
<1>. DEFINE r == [pc |-> pc, admin |-> job[t].admin, values |-> job[t].values, todo |-> todo,
                  policy |-> policy, merged |-> merged, alone |-> alone]
<1>1. r \in DisableJob /\ job' = [job EXCEPT ![t] = r]
  BY DEF DisableTo, DisableJob, DisablePcs
<1>2. job' \in [Threads -> AllJobs] /\ Becomes(t, r)
  BY <1>1, AnyJobUpdate DEF AllJobs, Jobs
<1>. QED
  BY <1>1, <1>2 DEF Becomes

EventTo(t, pc, values, todo, admin, merged) ==
    job' = [job EXCEPT ![t] =
              [pc |-> pc, policy |-> job[t].policy, app |-> job[t].app, values |-> values,
               todo |-> todo, admin |-> admin, merged |-> merged]]

LEMMA AllEventTo ==
    ASSUME AllTypes, NEW t \in Threads, job[t] \in EventJob, NEW pc \in EventPcs,
           NEW values \in [Admins -> Value], NEW todo \in SUBSET Admins, NEW admin \in Admins,
           NEW merged \in Value, EventTo(t, pc, values, todo, admin, merged)
    PROVE  /\ job' \in [Threads -> AllJobs]
           /\ job'[t].pc = pc
           /\ \A u \in Threads \ {t} : job'[u] = job[u]
<1>. DEFINE r == [pc |-> pc, policy |-> job[t].policy, app |-> job[t].app, values |-> values,
                  todo |-> todo, admin |-> admin, merged |-> merged]
<1>1. r \in EventJob /\ job' = [job EXCEPT ![t] = r]
  BY DEF EventTo, EventJob, EventPcs
<1>2. job' \in [Threads -> AllJobs] /\ Becomes(t, r)
  BY <1>1, AnyJobUpdate DEF AllJobs
<1>. QED
  BY <1>1, <1>2 DEF Becomes

LEMMA AllFinish ==
    ASSUME AllTypes, NEW t \in Threads, Finish(t)
    PROVE  /\ job' \in [Threads -> AllJobs]
           /\ job'[t].pc = "idle"
           /\ \A u \in Threads \ {t} : job'[u] = job[u]
  BY AnyJobUpdate DEF Finish, Becomes, AllJobs, Jobs, Idle

LEMMA EventFields ==
    ASSUME NEW t \in Threads, job[t] \in EventJob, NEW pc, NEW values, NEW todo, NEW item,
           NEW admin, NEW merged
    PROVE  /\ job' = [job EXCEPT ![t].pc = pc]
                => EventTo(t, pc, job[t].values, job[t].todo, job[t].admin, job[t].merged)
           /\ job' = [job EXCEPT ![t].pc = pc, ![t].values = values, ![t].todo = todo]
                => EventTo(t, pc, values, todo, job[t].admin, job[t].merged)
           /\ job' = [job EXCEPT ![t].pc = pc, ![t].admin = admin, ![t].merged = merged]
                => EventTo(t, pc, job[t].values, job[t].todo, admin, merged)
           /\ job' = [job EXCEPT ![t].pc = pc, ![t].todo = @ \ {item}]
                => EventTo(t, pc, job[t].values, job[t].todo \ {item}, job[t].admin, job[t].merged)
<1>. DEFINE j == job[t]
            new(ws, td, ad, me) == [pc |-> pc, policy |-> j.policy, app |-> j.app, values |-> ws,
                                    todo |-> td, admin |-> ad, merged |-> me]
<1>1. ASSUME job' = [job EXCEPT ![t].pc = pc]
      PROVE  EventTo(t, pc, job[t].values, job[t].todo, job[t].admin, job[t].merged)
  <2>1. job' = [job EXCEPT ![t] = [j EXCEPT !.pc = pc]]
    BY <1>1, Zenon
  <2>2. ASSUME NEW x, x = [j EXCEPT !.pc = pc]
        PROVE  x = new(j.values, j.todo, j.admin, j.merged)
    BY <2>2 DEF EventJob
  <2>3. [j EXCEPT !.pc = pc] = new(j.values, j.todo, j.admin, j.merged)
    BY <2>2, Zenon
  <2>. QED
    BY <2>1, <2>3, Zenon DEF EventTo
<1>2. ASSUME job' = [job EXCEPT ![t].pc = pc, ![t].values = values, ![t].todo = todo]
      PROVE  EventTo(t, pc, values, todo, job[t].admin, job[t].merged)
  <2>1. job' = [job EXCEPT ![t] = [j EXCEPT !.pc = pc, !.values = values, !.todo = todo]]
    BY <1>2, Zenon
  <2>2. ASSUME NEW x, x = [j EXCEPT !.pc = pc, !.values = values, !.todo = todo]
        PROVE  x = new(values, todo, j.admin, j.merged)
    BY <2>2 DEF EventJob
  <2>3. [j EXCEPT !.pc = pc, !.values = values, !.todo = todo] = new(values, todo, j.admin, j.merged)
    BY <2>2, Zenon
  <2>. QED
    BY <2>1, <2>3, Zenon DEF EventTo
<1>3. ASSUME job' = [job EXCEPT ![t].pc = pc, ![t].admin = admin, ![t].merged = merged]
      PROVE  EventTo(t, pc, job[t].values, job[t].todo, admin, merged)
  <2>1. job' = [job EXCEPT ![t] = [j EXCEPT !.pc = pc, !.admin = admin, !.merged = merged]]
    BY <1>3, Zenon
  <2>2. ASSUME NEW x, x = [j EXCEPT !.pc = pc, !.admin = admin, !.merged = merged]
        PROVE  x = new(j.values, j.todo, admin, merged)
    BY <2>2 DEF EventJob
  <2>3. [j EXCEPT !.pc = pc, !.admin = admin, !.merged = merged] = new(j.values, j.todo, admin, merged)
    BY <2>2, Zenon
  <2>. QED
    BY <2>1, <2>3, Zenon DEF EventTo
<1>4. ASSUME job' = [job EXCEPT ![t].pc = pc, ![t].todo = @ \ {item}]
      PROVE  EventTo(t, pc, job[t].values, job[t].todo \ {item}, job[t].admin, job[t].merged)
  <2>1. job' = [job EXCEPT ![t] = [j EXCEPT !.pc = pc, !.todo = @ \ {item}]]
    BY <1>4, Zenon
  <2>2. ASSUME NEW x, x = [j EXCEPT !.pc = pc, !.todo = @ \ {item}]
        PROVE  x = new(j.values, j.todo \ {item}, j.admin, j.merged)
    BY <2>2 DEF EventJob
  <2>3. [j EXCEPT !.pc = pc, !.todo = @ \ {item}] = new(j.values, j.todo \ {item}, j.admin, j.merged)
    BY <2>2, Zenon
  <2>. QED
    BY <2>1, <2>3, Zenon DEF EventTo
<1>. QED
  BY <1>1, <1>2, <1>3, <1>4, Zenon

(* What is read and written has its type.                                    *)
LEMMA OthersTyped ==
    ASSUME AllTypes, NEW p \in Policies, NEW a \in Admins
    PROVE  Others(p, a) \in Value /\ own[p] \in [Admins -> Value] /\ own[p][a] \in Value
<1>1. own[p] \in [Admins -> Value]
  BY DEF AllTypes
<1>2. \A b \in Admins : own[p][b] \in Value
  BY <1>1
<1>3. Others(p, a) \in Value
  BY <1>2 DEF Others, Value
<1>. QED
  BY <1>1, <1>2, <1>3

LEMMA SetPolicyTyped ==
    ASSUME AllTypes, NEW p \in Policies, NEW a \in Admins, NEW v \in Value, NEW m \in Value,
           NEW saved, SetPolicy(p, a, v, m, saved)
    PROVE  own' \in [Policies -> [Admins -> Value]] /\ combined' \in [Policies -> Value]
<1>1. combined' \in [Policies -> Value]
  BY DEF SetPolicy, AllTypes
<1>2. own' = [own EXCEPT ![p][a] = v] \/ own' = own
  BY DEF SetPolicy
<1>3. ASSUME own' = [own EXCEPT ![p][a] = v] PROVE own' \in [Policies -> [Admins -> Value]]
  BY <1>3 DEF AllTypes
<1>. QED
  BY <1>1, <1>2, <1>3 DEF AllTypes

LEMMA WroteTyped ==
    ASSUME AllTypes, NEW t \in Threads, NEW p \in Policies, Wrote(t, p)
    PROVE  stale' \subseteq Threads /\ raced' \subseteq Policies
  BY DEF AllTypes, Wrote, Readers

LEMMA UnlockTyped ==
    ASSUME AllTypes, NEW t \in Threads, Unlock(t)
    PROVE  stripes' \in [Groups -> Thread]
  BY DEF AllTypes, Unlock, Thread

LEMMA OutcomesTyped ==
    ASSUME AllTypes, NEW j \in SetJob, NEW o \in Outcomes(j)
    PROVE  Typed(o)
<1>1. /\ j.policy \in Policies /\ j.data \in Value /\ j.held \in Value /\ j.merged \in Value
      /\ enforced[j.policy] \in Value /\ {} \in Value
  BY DEF SetJob, AllTypes, Value
<1>2. \A e \in Value : Typed(Failed(e))
  BY <1>1 DEF Typed, Failed
<1>3. \A v, m, e \in Value : Typed(Done(v, m, e))
  BY DEF Typed, Done
<1>4. CASE j.policy \in BoolPolicies
  <2>1. \/ o = Done(j.data, j.merged, enforced[j.policy])
        \/ o = Failed(enforced[j.policy])
        \/ o = Done(j.data, j.data, j.data)
        \/ o = Failed(j.data)
    BY <1>4, Zenon DEF Outcomes, SetBool
  <2>. QED
    BY <1>1, <1>2, <1>3, <2>1
<1>5. CASE j.policy \notin BoolPolicies /\ j.op = "set"
  <2>. DEFINE fresh == (j.data \ j.held) \ j.merged
              own_(f) == (j.held \cup j.data) \ f
              all_(f) == (j.merged \cup j.held \cup j.data) \ f
              enf_(f) == enforced[j.policy] \cup (fresh \ f)
  <2>1. \/ o = Failed(enforced[j.policy])
        \/ \E f \in Refused(fresh) : o = Done(own_(f), all_(f), enf_(f))
    BY <1>5, Zenon DEF Outcomes, AddElements
  <2>2. \A f : own_(f) \in Value /\ all_(f) \in Value /\ enf_(f) \in Value
    BY <1>1 DEF Value
  <2>. HIDE DEF own_, all_, enf_
  <2>. QED
    BY <1>1, <1>2, <1>3, <2>1, <2>2
<1>6. CASE j.policy \notin BoolPolicies /\ j.op # "set"
  <2>. DEFINE gone == (j.data \cap j.held) \ j.merged
              left(f) == j.held \ ((j.data \cap j.held) \ f)
              all_(f) == j.merged \cup left(f)
              enf_(f) == enforced[j.policy] \ (gone \ f)
  <2>1. \/ o = Failed(enforced[j.policy])
        \/ \E f \in Refused(gone) : o = Done(left(f), all_(f), enf_(f))
    BY <1>6, Zenon DEF Outcomes, RemoveElements
  <2>2. \A f : left(f) \in Value /\ all_(f) \in Value /\ enf_(f) \in Value
    BY <1>1 DEF Value
  <2>. HIDE DEF left, all_, enf_
  <2>. QED
    BY <1>1, <1>2, <1>3, <2>1, <2>2
<1>. QED
  BY <1>4, <1>5, <1>6

(* The steps of UpdateDevicePolicy.                                          *)
LEMMA BeginSetHolds ==
    ASSUME AllTypes, LockInv, NEW t \in Threads, NEW a \in Admins, NEW p \in Policies,
           NEW r \in Requests(p), BeginSet(t, a, p, r)
    PROVE  AllTypes' /\ LockInv'
<1>. DEFINE s == [pc |-> "find", admin |-> a, policy |-> p, op |-> r.op,
                  data |-> r.data, held |-> {}, merged |-> {}]
<1>1. r.op \in {"set", "remove"} /\ r.data \in Value
  BY DEF Requests, Value
<1>2. s \in SetJob
  BY <1>1 DEF SetJob, Value
<1>3. job' = [job EXCEPT ![t] = s]
  BY Zenon DEF BeginSet
<1>4. job' \in [Threads -> AllJobs] /\ Becomes(t, s)
  BY <1>2, <1>3, AnyJobUpdate DEF AllJobs, Jobs
<1>5. calls' \in 0..MaxCalls
  BY UpdateAssumption DEF BeginSet, Budget, AllTypes
<1>6. AllTypes'
  BY <1>4, <1>5 DEF AllTypes, BeginSet, store, locks, history
<1>7. job[t].pc = "idle" /\ job'[t].pc = "find" /\ \A u \in Threads \ {t} : job'[u] = job[u]
  BY <1>4 DEF BeginSet, Idle, Becomes
<1>. QED
  BY <1>6, <1>7, LocksKept DEF BeginSet, DisablePcs, MutexPcs, InStripe

LEMMA FindHolds ==
    ASSUME AllTypes, LockInv, NEW t \in Threads, Find(t)
    PROVE  AllTypes' /\ LockInv'
<1>1. job[t] \in SetJob /\ job[t].pc = "find"
  BY AllKinds DEF Find, SetPcs
<1>2. SetTo(t, "enter", job[t].held, job[t].merged)
  BY <1>1, SetFields, Zenon DEF Find, Goto
<1>3. job[t].held \in Value /\ job[t].merged \in Value /\ "enter" \in SetPcs
  BY <1>1 DEF SetJob, SetPcs
<1>4. job' \in [Threads -> AllJobs] /\ job'[t].pc = "enter" /\ \A u \in Threads \ {t} : job'[u] = job[u]
  BY <1>1, <1>2, <1>3, AllSetTo
<1>5. AllTypes'
  BY <1>4 DEF AllTypes, Find, store, locks, history
<1>. QED
  BY <1>1, <1>4, <1>5, LocksKept DEF Find, DisablePcs, MutexPcs, InStripe

LEMMA EnterHolds ==
    ASSUME AllTypes, LockInv, NEW t \in Threads, Enter(t)
    PROVE  AllTypes' /\ LockInv'
<1>1. job[t] \in SetJob /\ job[t].pc = "enter"
  BY AllKinds DEF Enter, SetPcs
<1>2. PICK p \in Policies, a \in Admins : p = job[t].policy /\ a = job[t].admin
  BY <1>1 DEF SetJob
<1>3. SetTo(t, "merge", own[p][a], job[t].merged)
  BY <1>1, <1>2, SetFields, Zenon DEF Enter
<1>4. own[p][a] \in Value /\ job[t].merged \in Value /\ "merge" \in SetPcs
  BY <1>1, OthersTyped DEF SetJob, SetPcs
<1>5. /\ job' \in [Threads -> AllJobs] /\ job'[t].pc = "merge" /\ job'[t].policy = p
      /\ \A u \in Threads \ {t} : job'[u] = job[u]
  BY <1>1, <1>2, <1>3, <1>4, AllSetTo
<1>6. stripes[StripeOf(p)] = NoThread /\ stripes' = [stripes EXCEPT ![StripeOf(p)] = t]
  BY <1>2 DEF Enter, StripeFree, Lock
<1>7. stripes' \in [Groups -> Thread]
  BY <1>6 DEF AllTypes, Thread
<1>8. AllTypes'
  BY <1>5, <1>7 DEF AllTypes, Enter, store, history
<1>9. ASSUME NEW g \in Groups
      PROVE  Follows(stripes[g], stripes'[g], t,
                     job[t].pc \in InStripe /\ StripeOf(job[t].policy) = g,
                     job'[t].pc \in InStripe /\ StripeOf(job'[t].policy) = g)
  <2>1. CASE g = StripeOf(p)
    BY <1>5, <1>6, <2>1 DEF Follows, InStripe, AllTypes
  <2>2. CASE g # StripeOf(p)
    BY <1>1, <1>5, <1>6, <2>2 DEF Follows, InStripe, AllTypes
  <2>. QED
    BY <2>1, <2>2
<1>. QED
  BY <1>1, <1>5, <1>8, <1>9, LocksFollow DEF Enter, Follows, DisablePcs, MutexPcs

LEMMA ReadOthersHolds ==
    ASSUME AllTypes, LockInv, NEW t \in Threads, ReadOthers(t)
    PROVE  AllTypes' /\ LockInv'
<1>1. job[t] \in SetJob /\ job[t].pc = "merge"
  BY AllKinds DEF ReadOthers, SetPcs
<1>2. PICK p \in Policies, a \in Admins : p = job[t].policy /\ a = job[t].admin
  BY <1>1 DEF SetJob
<1>3. SetTo(t, "execute", job[t].held, Others(p, a))
  BY <1>1, <1>2, SetFields, Zenon DEF ReadOthers
<1>4. job[t].held \in Value /\ Others(p, a) \in Value /\ "execute" \in SetPcs
  BY <1>1, OthersTyped DEF SetJob, SetPcs
<1>5. /\ job' \in [Threads -> AllJobs] /\ job'[t].pc = "execute" /\ job'[t].policy = job[t].policy
      /\ \A u \in Threads \ {t} : job'[u] = job[u]
  BY <1>1, <1>3, <1>4, AllSetTo
<1>6. AllTypes'
  BY <1>5 DEF AllTypes, ReadOthers, store, locks, history
<1>. QED
  BY <1>1, <1>5, <1>6, LocksKept DEF ReadOthers, DisablePcs, MutexPcs, InStripe

(* A call that ends gives its stripe back.                                   *)
LEMMA EndInStripe ==
    ASSUME AllTypes, LockInv, NEW t \in Threads, job[t].pc \in InStripe, Unlock(t), Finish(t),
           UNCHANGED <<adminLock, mutexLock>>
    PROVE  LockInv'
<1>1. job'[t].pc = "idle" /\ \A u \in Threads \ {t} : job'[u] = job[u]
  BY AllFinish
<1>2. ASSUME NEW g \in Groups
      PROVE  Follows(stripes[g], stripes'[g], t,
                     job[t].pc \in InStripe /\ StripeOf(job[t].policy) = g,
                     job'[t].pc \in InStripe /\ StripeOf(job'[t].policy) = g)
  <2>1. stripes'[g] = IF stripes[g] = t THEN NoThread ELSE stripes[g]
    BY DEF Unlock
  <2>2. stripes[g] = t <=> (job[t].pc \in InStripe /\ StripeOf(job[t].policy) = g)
    BY DEF LockInv, HasStripe
  <2>3. job'[t].pc \notin InStripe
    BY <1>1 DEF InStripe
  <2>. QED
    BY <2>1, <2>2, <2>3 DEF Follows
<1>. QED
  BY <1>1, <1>2, LocksFollow DEF Follows, DisablePcs, MutexPcs, InStripe

LEMMA ExecuteHolds ==
    ASSUME AllTypes, LockInv, NEW t \in Threads, Execute(t)
    PROVE  AllTypes' /\ LockInv'
<1>1. job[t] \in SetJob /\ job[t].pc = "execute"
  BY AllKinds DEF Execute, SetPcs
<1>2. PICK o \in Outcomes(job[t]) :
          /\ enforced' = [enforced EXCEPT ![job[t].policy] = o.enforced]
          /\ IF o.ok /\ o.own # job[t].held
             THEN /\ job' = [job EXCEPT ![t].pc = "save", ![t].held = o.own, ![t].merged = o.merged]
                  /\ UNCHANGED <<stripes, stale>>
             ELSE Finish(t) /\ Unlock(t) /\ stale' = stale \ {t}
  BY Zenon DEF Execute
<1>3. o.own \in Value /\ o.merged \in Value /\ o.enforced \in Value
  BY <1>1, OutcomesTyped DEF Typed
<1>4. enforced' \in [Policies -> Value]
  BY <1>2, <1>3 DEF AllTypes
<1>5. CASE o.ok /\ o.own # job[t].held
  <2>1. SetTo(t, "save", o.own, o.merged) /\ UNCHANGED <<stripes, stale>>
    BY <1>1, <1>2, <1>5, SetFields, Zenon
  <2>2. /\ job' \in [Threads -> AllJobs] /\ job'[t].pc = "save" /\ job'[t].policy = job[t].policy
        /\ \A u \in Threads \ {t} : job'[u] = job[u]
    BY <1>1, <1>3, <2>1, AllSetTo DEF SetPcs
  <2>3. AllTypes'
    BY <1>4, <2>1, <2>2 DEF AllTypes, Execute, store
  <2>4. UNCHANGED locks
    BY <2>1 DEF Execute, locks
  <2>. QED
    BY <1>1, <2>2, <2>3, <2>4, LocksKept DEF DisablePcs, MutexPcs, InStripe
<1>6. CASE ~(o.ok /\ o.own # job[t].held)
  <2>1. Finish(t) /\ Unlock(t) /\ stale' = stale \ {t}
    BY <1>2, <1>6, Zenon
  <2>2. AllTypes'
    BY <1>4, <2>1, AllFinish, UnlockTyped DEF AllTypes, Execute, store
  <2>. QED
    BY <1>1, <2>1, <2>2, EndInStripe DEF Execute, InStripe
<1>. QED
  BY <1>5, <1>6

LEMMA SaveHolds ==
    ASSUME AllTypes, LockInv, NEW t \in Threads, Save(t)
    PROVE  AllTypes' /\ LockInv'
<1>1. job[t] \in SetJob /\ job[t].pc = "save"
  BY AllKinds DEF Save, SetPcs
<1>2. PICK p \in Policies, a \in Admins, v \in Value, m \in Value :
         p = job[t].policy /\ a = job[t].admin /\ v = job[t].held /\ m = job[t].merged
  BY <1>1 DEF SetJob
<1>3. PICK saved \in BOOLEAN : SetPolicy(p, a, v, m, saved)
  BY <1>2, Zenon DEF Save
<1>4. own' \in [Policies -> [Admins -> Value]] /\ combined' \in [Policies -> Value]
  BY <1>3, SetPolicyTyped
<1>5. Wrote(t, p) /\ orphaned' \subseteq Admins
  BY <1>2 DEF Save, AllTypes
<1>6. SetTo(t, "announce", v, m)
  BY <1>1, <1>2, SetFields, Zenon DEF Save, Goto
<1>7. /\ job' \in [Threads -> AllJobs] /\ job'[t].pc = "announce" /\ job'[t].policy = job[t].policy
      /\ \A u \in Threads \ {t} : job'[u] = job[u]
  BY <1>1, <1>6, AllSetTo DEF SetPcs
<1>8. AllTypes'
  BY <1>4, <1>5, <1>7, WroteTyped DEF AllTypes, Save, locks
<1>. QED
  BY <1>1, <1>7, <1>8, LocksKept DEF Save, DisablePcs, MutexPcs, InStripe

LEMMA AnnounceHolds ==
    ASSUME AllTypes, LockInv, NEW t \in Threads, Announce(t)
    PROVE  AllTypes' /\ LockInv'
<1>1. job[t] \in SetJob /\ job[t].pc = "announce"
  BY AllKinds DEF Announce, SetPcs
<1>2. Unlock(t) /\ Finish(t) /\ UNCHANGED <<adminLock, mutexLock>>
  BY DEF Announce
<1>3. subscribed' \subseteq Policies /\ (subscribed' # {} => Admins # {})
  BY <1>1 DEF Announce, AllTypes, SetJob
<1>4. AllTypes'
  BY <1>2, <1>3, AllFinish, UnlockTyped DEF AllTypes, Announce, store, history
<1>. QED
  BY <1>1, <1>2, <1>4, EndInStripe DEF InStripe

(* The steps of DisableAdmin and RemoveAdminItem.                            *)
LEMMA BeginDisableHolds ==
    ASSUME AllTypes, LockInv, NEW t \in Threads, NEW a \in Admins, BeginDisable(t, a)
    PROVE  AllTypes' /\ LockInv'
<1>. DEFINE s == [pc |-> "items", admin |-> a, values |-> [p \in Policies |-> own[p][a]],
                  todo |-> {p \in Policies : own[p][a] # {}},
                  policy |-> CHOOSE p \in Policies : TRUE, merged |-> {}, alone |-> FALSE]
<1>1. (CHOOSE p \in Policies : TRUE) \in Policies
  BY UpdateAssumption
<1>2. [p \in Policies |-> own[p][a]] \in [Policies -> Value]
  BY OthersTyped
<1>3. s \in DisableJob
  BY <1>1, <1>2 DEF DisableJob, Value
<1>4. job' = [job EXCEPT ![t] = s]
  BY Zenon DEF BeginDisable
<1>5. job' \in [Threads -> AllJobs] /\ Becomes(t, s)
  BY <1>3, <1>4, AnyJobUpdate DEF AllJobs, Jobs
<1>6. calls' \in 0..MaxCalls
  BY UpdateAssumption DEF BeginDisable, Budget, AllTypes
<1>7. AllTypes'
  BY <1>5, <1>6 DEF AllTypes, BeginDisable, store, history, Thread
<1>8. job[t].pc = "idle" /\ job'[t].pc = "items" /\ \A u \in Threads \ {t} : job'[u] = job[u]
  BY <1>5 DEF BeginDisable, Idle, Becomes
<1>. QED
  BY <1>7, <1>8, LocksFollow DEF BeginDisable, Follows, DisablePcs, MutexPcs, InStripe

(* Locks change as the program counter says when no stripe is concerned.     *)
LEMMA NoStripeNeeded ==
    ASSUME AllTypes, LockInv, NEW t \in Threads, UNCHANGED stripes,
           \A u \in Threads \ {t} : job'[u] = job[u],
           Follows(adminLock, adminLock', t, job[t].pc \in DisablePcs, job'[t].pc \in DisablePcs),
           Follows(mutexLock, mutexLock', t, job[t].pc \in MutexPcs, job'[t].pc \in MutexPcs),
           job[t].pc \notin InStripe, job'[t].pc \notin InStripe
    PROVE  LockInv'
<1>1. ASSUME NEW g \in Groups
      PROVE  Follows(stripes[g], stripes'[g], t,
                     job[t].pc \in InStripe /\ StripeOf(job[t].policy) = g,
                     job'[t].pc \in InStripe /\ StripeOf(job'[t].policy) = g)
  BY DEF Follows
<1>. QED
  BY <1>1, LocksFollow

LEMMA TakeItemHolds ==
    ASSUME AllTypes, LockInv, NEW t \in Threads, NEW p \in Policies, TakeItem(t, p)
    PROVE  AllTypes' /\ LockInv'
<1>1. job[t] \in DisableJob /\ job[t].pc = "items"
  BY AllKinds DEF TakeItem, DisablePcs
<1>2. PICK a \in Admins : a = job[t].admin
  BY <1>1 DEF DisableJob
<1>3. DisableTo(t, "unenforce", job[t].todo, p, Others(p, a), job[t].alone)
  BY <1>1, <1>2, DisableFields, Zenon DEF TakeItem
<1>4. /\ Others(p, a) \in Value /\ job[t].todo \in SUBSET Policies /\ job[t].alone \in BOOLEAN
      /\ "unenforce" \in DisablePcs
  BY <1>1, OthersTyped DEF DisableJob, DisablePcs
<1>5. job' \in [Threads -> AllJobs] /\ job'[t].pc = "unenforce" /\ \A u \in Threads \ {t} : job'[u] = job[u]
  BY <1>1, <1>3, <1>4, AllDisableTo
<1>6. AllTypes'
  BY <1>5 DEF AllTypes, TakeItem, store, history, Thread
<1>. QED
  BY <1>1, <1>5, <1>6, NoStripeNeeded DEF TakeItem, Follows, DisablePcs, MutexPcs, InStripe

LEMMA UnenforceHolds ==
    ASSUME AllTypes, LockInv, NEW t \in Threads, Unenforce(t)
    PROVE  AllTypes' /\ LockInv'
<1>1. job[t] \in DisableJob /\ job[t].pc = "unenforce"
  BY AllKinds DEF Unenforce, DisablePcs
<1>2. PICK p \in Policies : p = job[t].policy
  BY <1>1 DEF DisableJob
<1>3. PICK e \in AfterRemoval(p, job[t].values[p], job[t].merged) : enforced' = [enforced EXCEPT ![p] = e]
  BY <1>2 DEF Unenforce
<1>4. e \in Value
  BY <1>3, RefusedElements DEF AfterRemoval, AllTypes, Value
<1>5. enforced' \in [Policies -> Value]
  BY <1>3, <1>4 DEF AllTypes
<1>6. DisableTo(t, "lookup", job[t].todo, job[t].policy, job[t].merged, job[t].alone)
  BY <1>1, DisableFields, Zenon DEF Unenforce, Goto
<1>7. /\ job[t].merged \in Value /\ job[t].todo \in SUBSET Policies /\ job[t].alone \in BOOLEAN
      /\ job[t].policy \in Policies /\ "lookup" \in DisablePcs
  BY <1>1 DEF DisableJob, DisablePcs
<1>8. job' \in [Threads -> AllJobs] /\ job'[t].pc = "lookup" /\ \A u \in Threads \ {t} : job'[u] = job[u]
  BY <1>1, <1>6, <1>7, AllDisableTo
<1>9. AllTypes'
  BY <1>5, <1>8 DEF AllTypes, Unenforce, store, locks, history
<1>. QED
  BY <1>1, <1>8, <1>9, LocksKept DEF Unenforce, DisablePcs, MutexPcs, InStripe

LEMMA LookupHolds ==
    ASSUME AllTypes, LockInv, NEW t \in Threads, Lookup(t)
    PROVE  AllTypes' /\ LockInv'
<1>1. job[t] \in DisableJob /\ job[t].pc = "lookup"
  BY AllKinds DEF Lookup, DisablePcs
<1>2. PICK alone \in BOOLEAN : alone = Unset(job[t].policy)
  BY DEF Unset
<1>3. PICK todo \in SUBSET Policies, p \in Policies, m \in Value :
         todo = job[t].todo /\ p = job[t].policy /\ m = job[t].merged
  BY <1>1 DEF DisableJob
<1>4. DisableTo(t, "drop", todo, p, m, alone)
  BY <1>1, <1>2, <1>3, DisableFields, Zenon DEF Lookup
<1>5. job' \in [Threads -> AllJobs] /\ job'[t].pc = "drop" /\ \A u \in Threads \ {t} : job'[u] = job[u]
  <2>. DEFINE r == [pc |-> "drop", admin |-> job[t].admin, values |-> job[t].values,
                    todo |-> todo, policy |-> p, merged |-> m, alone |-> alone]
  <2>1. r \in DisableJob
    BY <1>1 DEF DisableJob
  <2>2. job' = [job EXCEPT ![t] = r]
    BY <1>4, Zenon DEF DisableTo
  <2>3. job' \in [Threads -> AllJobs] /\ Becomes(t, r)
    BY <2>1, <2>2, AnyJobUpdate DEF AllJobs, Jobs
  <2>. QED
    BY <2>3 DEF Becomes
<1>6. AllTypes'
  BY <1>5 DEF AllTypes, Lookup, store, locks, history
<1>. QED
  BY <1>1, <1>5, <1>6, LocksKept DEF Lookup, DisablePcs, MutexPcs, InStripe

(* A write that fails ends the call, and both locks are given back.          *)
LEMMA DropHolds ==
    ASSUME AllTypes, LockInv, NEW t \in Threads, Drop(t)
    PROVE  AllTypes' /\ LockInv'
<1>1. job[t] \in DisableJob /\ job[t].pc = "drop"
  BY AllKinds DEF Drop, DisablePcs
<1>2. PICK p \in Policies, a \in Admins, m \in Value :
         p = job[t].policy /\ a = job[t].admin /\ m = job[t].merged
  BY <1>1 DEF DisableJob
<1>3. PICK saved \in BOOLEAN :
         /\ IF job[t].alone
            THEN /\ IF saved THEN combined' = [combined EXCEPT ![p] = {}]
                             ELSE "write" \in Env /\ UNCHANGED combined
                 /\ UNCHANGED own
            ELSE SetPolicy(p, a, {}, m, saved)
         /\ IF saved THEN Goto(t, "recheck") /\ UNCHANGED <<adminLock, mutexLock>>
                     ELSE Finish(t) /\ adminLock' = NoThread /\ mutexLock' = NoThread
  BY <1>2, Zenon DEF Drop
<1>4. own' \in [Policies -> [Admins -> Value]] /\ combined' \in [Policies -> Value]
  <2>1. {} \in Value
    BY DEF Value
  <2>2. CASE job[t].alone
    BY <1>3, <2>1, <2>2 DEF AllTypes
  <2>3. CASE ~job[t].alone
    BY <1>3, <2>1, <2>3, SetPolicyTyped
  <2>. QED
    BY <2>2, <2>3
<1>5. Wrote(t, p)
  BY <1>2 DEF Drop
<1>6. stale' \subseteq Threads /\ raced' \subseteq Policies
  BY <1>5, WroteTyped
<1>7. CASE saved
  <2>1. Goto(t, "recheck") /\ UNCHANGED <<adminLock, mutexLock>>
    BY <1>3, <1>7, Zenon
  <2>2. DisableTo(t, "recheck", job[t].todo, job[t].policy, job[t].merged, job[t].alone)
    BY <1>1, <2>1, DisableFields, Zenon DEF Goto
  <2>3. /\ job[t].merged \in Value /\ job[t].todo \in SUBSET Policies /\ job[t].alone \in BOOLEAN
        /\ job[t].policy \in Policies /\ "recheck" \in DisablePcs
    BY <1>1 DEF DisableJob, DisablePcs
  <2>4. job' \in [Threads -> AllJobs] /\ job'[t].pc = "recheck" /\ \A u \in Threads \ {t} : job'[u] = job[u]
    BY <1>1, <2>2, <2>3, AllDisableTo
  <2>5. AllTypes'
    BY <1>4, <1>6, <2>1, <2>4 DEF AllTypes, Drop
  <2>. QED
    BY <1>1, <2>1, <2>4, <2>5, LocksKept DEF Drop, locks, DisablePcs, MutexPcs, InStripe
<1>8. CASE ~saved
  <2>1. Finish(t) /\ adminLock' = NoThread /\ mutexLock' = NoThread
    BY <1>3, <1>8, Zenon
  <2>2. job' \in [Threads -> AllJobs] /\ job'[t].pc = "idle" /\ \A u \in Threads \ {t} : job'[u] = job[u]
    BY <2>1, AllFinish
  <2>3. AllTypes'
    BY <1>4, <1>6, <2>1, <2>2 DEF AllTypes, Drop, Thread
  <2>. QED
    BY <1>1, <2>1, <2>2, <2>3, NoStripeNeeded DEF Drop, Follows, DisablePcs, MutexPcs, InStripe
<1>. QED
  BY <1>7, <1>8

LEMMA RecheckHolds ==
    ASSUME AllTypes, LockInv, NEW t \in Threads, Recheck(t)
    PROVE  AllTypes' /\ LockInv'
<1>1. job[t] \in DisableJob /\ job[t].pc = "recheck"
  BY AllKinds DEF Recheck, DisablePcs
<1>2. PICK todo \in SUBSET Policies, p \in Policies, m \in Value, alone \in BOOLEAN :
         todo = job[t].todo /\ p = job[t].policy /\ m = job[t].merged /\ alone = job[t].alone
  BY <1>1 DEF DisableJob
<1>3. CASE combined[job[t].policy] = {}
  <2>1. DisableTo(t, "unsubscribe", todo, p, m, alone)
    BY <1>1, <1>2, <1>3, DisableFields, Zenon DEF Recheck, Goto
  <2>2. job' \in [Threads -> AllJobs] /\ job'[t].pc = "unsubscribe" /\ \A u \in Threads \ {t} : job'[u] = job[u]
    <3>. DEFINE r == [pc |-> "unsubscribe", admin |-> job[t].admin, values |-> job[t].values,
                      todo |-> todo, policy |-> p, merged |-> m, alone |-> alone]
    <3>1. r \in DisableJob
      BY <1>1 DEF DisableJob
    <3>2. job' = [job EXCEPT ![t] = r]
      BY <2>1, Zenon DEF DisableTo
    <3>3. job' \in [Threads -> AllJobs] /\ Becomes(t, r)
      BY <3>1, <3>2, AnyJobUpdate DEF AllJobs, Jobs
    <3>. QED
      BY <3>3 DEF Becomes
  <2>3. UNCHANGED locks
    BY <1>3 DEF Recheck, locks
  <2>4. AllTypes'
    BY <2>2, <2>3 DEF AllTypes, Recheck, store, locks, history
  <2>. QED
    BY <1>1, <2>2, <2>3, <2>4, LocksKept DEF DisablePcs, MutexPcs, InStripe
<1>4. CASE combined[job[t].policy] # {}
  <2>1. DisableTo(t, "items", todo \ {p}, p, m, alone)
    BY <1>1, <1>2, <1>4, DisableFields, Zenon DEF Recheck
  <2>2. job' \in [Threads -> AllJobs] /\ job'[t].pc = "items" /\ \A u \in Threads \ {t} : job'[u] = job[u]
    <3>. DEFINE r == [pc |-> "items", admin |-> job[t].admin, values |-> job[t].values,
                      todo |-> todo \ {p}, policy |-> p, merged |-> m, alone |-> alone]
    <3>1. r \in DisableJob
      BY <1>1 DEF DisableJob
    <3>2. job' = [job EXCEPT ![t] = r]
      BY <2>1, Zenon DEF DisableTo
    <3>3. job' \in [Threads -> AllJobs] /\ Becomes(t, r)
      BY <3>1, <3>2, AnyJobUpdate DEF AllJobs, Jobs
    <3>. QED
      BY <3>3 DEF Becomes
  <2>3. mutexLock' = NoThread
    BY <1>4 DEF Recheck
  <2>4. AllTypes'
    BY <2>2, <2>3 DEF AllTypes, Recheck, store, history, Thread
  <2>. QED
    BY <1>1, <2>2, <2>3, <2>4, NoStripeNeeded DEF Recheck, Follows, DisablePcs, MutexPcs, InStripe
<1>. QED
  BY <1>3, <1>4

LEMMA UnsubscribeHolds ==
    ASSUME AllTypes, LockInv, NEW t \in Threads, Unsubscribe(t)
    PROVE  AllTypes' /\ LockInv'
<1>1. job[t] \in DisableJob /\ job[t].pc = "unsubscribe"
  BY AllKinds DEF Unsubscribe, DisablePcs
<1>2. /\ job[t].merged \in Value /\ job[t].alone \in BOOLEAN
      /\ job[t].todo \ {job[t].policy} \in SUBSET Policies
      /\ job[t].policy \in Policies /\ "items" \in DisablePcs
  BY <1>1 DEF DisableJob, DisablePcs
<1>3. DisableTo(t, "items", job[t].todo \ {job[t].policy}, job[t].policy, job[t].merged, job[t].alone)
  BY <1>1, DisableFields, Zenon DEF Unsubscribe
<1>4. job' \in [Threads -> AllJobs] /\ job'[t].pc = "items" /\ \A u \in Threads \ {t} : job'[u] = job[u]
  BY <1>1, <1>2, <1>3, AllDisableTo
<1>5. AllTypes'
  BY <1>4 DEF AllTypes, Unsubscribe, store, history, Thread
<1>. QED
  BY <1>1, <1>4, <1>5, NoStripeNeeded DEF Unsubscribe, Follows, DisablePcs, MutexPcs, InStripe

LEMMA EndDisableHolds ==
    ASSUME AllTypes, LockInv, NEW t \in Threads, EndDisable(t)
    PROVE  AllTypes' /\ LockInv'
<1>1. job[t].pc = "items"
  BY DEF EndDisable
<1>2. job' \in [Threads -> AllJobs] /\ job'[t].pc = "idle" /\ \A u \in Threads \ {t} : job'[u] = job[u]
  BY AllFinish DEF EndDisable
<1>3. AllTypes'
  BY <1>2 DEF AllTypes, EndDisable, store, history, Thread
<1>. QED
  BY <1>1, <1>2, <1>3, NoStripeNeeded DEF EndDisable, Follows, DisablePcs, MutexPcs, InStripe

LEMMA EnableHolds ==
    ASSUME AllTypes, LockInv, NEW a \in Admins, Enable(a)
    PROVE  AllTypes' /\ LockInv'
<1>1. calls' \in 0..MaxCalls
  BY UpdateAssumption DEF Enable, Budget, AllTypes
<1>2. AllTypes'
  BY <1>1 DEF AllTypes, Enable, store, locks, history
<1>3. LockInv'
  BY DEF LockInv, HasAdminLock, HasMutexLock, HasStripe, Enable, locks
<1>. QED
  BY <1>2, <1>3

(* The steps of DispatchForAdmins.                                           *)
LEMMA BeginEventHolds ==
    ASSUME AllTypes, LockInv, NEW t \in Threads, NEW p \in Policies, NEW x \in Values,
           BeginEvent(t, p, x)
    PROVE  AllTypes' /\ LockInv'
<1>. DEFINE s == [pc |-> "take", policy |-> p, app |-> x, values |-> [a \in Admins |-> {}],
                  todo |-> {}, admin |-> CHOOSE a \in Admins : TRUE, merged |-> {}]
<1>1. (CHOOSE a \in Admins : TRUE) \in Admins
  BY DEF BeginEvent, AllTypes
<1>2. [a \in Admins |-> {}] \in [Admins -> Value] /\ {} \in Value
  BY DEF Value
<1>3. s \in EventJob
  BY <1>1, <1>2 DEF EventJob
<1>4. job' = [job EXCEPT ![t] = s]
  BY Zenon DEF BeginEvent
<1>5. job' \in [Threads -> AllJobs] /\ Becomes(t, s)
  BY <1>3, <1>4, AnyJobUpdate DEF AllJobs
<1>6. calls' \in 0..MaxCalls
  BY UpdateAssumption DEF BeginEvent, Budget, AllTypes
<1>7. enforced' \in [Policies -> Value]
  <2>1. enforced[p] \ {x} \in Value
    BY DEF AllTypes, Value
  <2>. QED
    BY <2>1 DEF BeginEvent, AllTypes
<1>8. AllTypes'
  BY <1>5, <1>6, <1>7 DEF AllTypes, BeginEvent, store, locks, history
<1>9. job[t].pc = "idle" /\ job'[t].pc = "take" /\ \A u \in Threads \ {t} : job'[u] = job[u]
  BY <1>5 DEF BeginEvent, Idle, Becomes
<1>. QED
  BY <1>8, <1>9, LocksKept DEF BeginEvent, DisablePcs, MutexPcs, InStripe

LEMMA TakeEventHolds ==
    ASSUME AllTypes, LockInv, NEW t \in Threads, TakeEvent(t)
    PROVE  AllTypes' /\ LockInv'
<1>1. job[t] \in EventJob /\ job[t].pc = "take"
  BY AllKinds DEF TakeEvent, EventPcs
<1>2. PICK p \in Policies, a \in Admins, m \in Value :
         p = job[t].policy /\ a = job[t].admin /\ m = job[t].merged
  BY <1>1 DEF EventJob
<1>. DEFINE v == own[p]
            todo == {b \in Admins : v[b] # {}}
<1>3. v \in [Admins -> Value] /\ todo \in SUBSET Admins
  BY OthersTyped
<1>4. EventTo(t, "each", v, todo, a, m)
  BY <1>1, <1>2, EventFields, Zenon DEF TakeEvent
<1>5. job' \in [Threads -> AllJobs] /\ job'[t].pc = "each" /\ \A u \in Threads \ {t} : job'[u] = job[u]
  BY <1>1, <1>3, <1>4, AllEventTo DEF EventPcs
<1>6. AllTypes'
  BY <1>5 DEF AllTypes, TakeEvent, store, history, Thread
<1>. QED
  BY <1>1, <1>5, <1>6, NoStripeNeeded DEF TakeEvent, Follows, DisablePcs, MutexPcs, InStripe

LEMMA EventMergeHolds ==
    ASSUME AllTypes, LockInv, NEW t \in Threads, NEW a \in Admins, EventMerge(t, a)
    PROVE  AllTypes' /\ LockInv'
<1>1. job[t] \in EventJob /\ job[t].pc = "each"
  BY AllKinds DEF EventMerge, EventPcs
<1>2. PICK p \in Policies : p = job[t].policy
  BY <1>1 DEF EventJob
<1>3. EventTo(t, "rewrite", job[t].values, job[t].todo, a, Others(p, a))
  BY <1>1, <1>2, EventFields, Zenon DEF EventMerge
<1>4. /\ job[t].values \in [Admins -> Value] /\ job[t].todo \in SUBSET Admins
      /\ Others(p, a) \in Value /\ "rewrite" \in EventPcs
  BY <1>1, OthersTyped DEF EventJob, EventPcs
<1>5. job' \in [Threads -> AllJobs] /\ job'[t].pc = "rewrite" /\ \A u \in Threads \ {t} : job'[u] = job[u]
  BY <1>1, <1>3, <1>4, AllEventTo
<1>6. AllTypes'
  BY <1>5 DEF AllTypes, EventMerge, store, locks, history
<1>. QED
  BY <1>1, <1>5, <1>6, LocksKept DEF EventMerge, DisablePcs, MutexPcs, InStripe

LEMMA RewriteHolds ==
    ASSUME AllTypes, LockInv, NEW t \in Threads, Rewrite(t)
    PROVE  AllTypes' /\ LockInv'
<1>1. job[t] \in EventJob /\ job[t].pc = "rewrite"
  BY AllKinds DEF Rewrite, EventPcs
<1>2. PICK p \in Policies, a \in Admins, vs \in [Admins -> Value], todo \in SUBSET Admins,
           m \in Value, x \in Values :
         /\ p = job[t].policy /\ a = job[t].admin /\ vs = job[t].values /\ todo = job[t].todo
         /\ m = job[t].merged /\ x = job[t].app
  BY <1>1 DEF EventJob
<1>3. PICK h \in Value : h = HandledMerge(job[t])
  <2>1. vs[a] \in Value
    OBVIOUS
  <2>2. HandledMerge(job[t]) \in Value
    BY <1>2, <2>1 DEF HandledMerge, Value
  <2>. QED
    BY <2>2
<1>4. PICK saved \in BOOLEAN : SetPolicy(p, a, vs[a] \ {x}, h, saved)
  BY <1>2, <1>3, Zenon DEF Rewrite
<1>5. own' \in [Policies -> [Admins -> Value]] /\ combined' \in [Policies -> Value]
  <2>1. vs[a] \ {x} \in Value
    BY DEF Value
  <2>. QED
    BY <1>4, <2>1, SetPolicyTyped
<1>6. Wrote(t, p)
  BY <1>2 DEF Rewrite
<1>7. stale' \subseteq Threads /\ raced' \subseteq Policies
  BY <1>6, WroteTyped
<1>8. PICK pc \in {"cancel", "each"} : EventTo(t, pc, vs, todo \ {a}, a, m)
  <2>1. job' = [job EXCEPT ![t].pc = IF h = {} THEN "cancel" ELSE "each", ![t].todo = @ \ {a}]
    BY <1>2, <1>3, Zenon DEF Rewrite
  <2>2. PICK pc \in {"cancel", "each"} : pc = IF h = {} THEN "cancel" ELSE "each"
    OBVIOUS
  <2>3. job' = [job EXCEPT ![t].pc = pc, ![t].todo = @ \ {a}]
    BY <2>1, <2>2, Zenon
  <2>4. EventTo(t, pc, vs, todo \ {a}, a, m)
    BY <1>1, <1>2, <2>3, EventFields, Zenon
  <2>. QED
    BY <2>4
<1>9. job' \in [Threads -> AllJobs] /\ job'[t].pc = pc /\ \A u \in Threads \ {t} : job'[u] = job[u]
  <2>1. pc \in EventPcs /\ todo \ {a} \in SUBSET Admins
    BY DEF EventPcs
  <2>. QED
    BY <1>1, <1>8, <2>1, AllEventTo
<1>10. AllTypes'
  BY <1>5, <1>7, <1>9 DEF AllTypes, Rewrite, locks
<1>. QED
  BY <1>1, <1>9, <1>10, LocksKept DEF Rewrite, DisablePcs, MutexPcs, InStripe

LEMMA CancelHolds ==
    ASSUME AllTypes, LockInv, NEW t \in Threads, Cancel(t)
    PROVE  AllTypes' /\ LockInv'
<1>1. job[t] \in EventJob /\ job[t].pc = "cancel"
  BY AllKinds DEF Cancel, EventPcs
<1>2. EventTo(t, "each", job[t].values, job[t].todo, job[t].admin, job[t].merged)
  BY <1>1, EventFields, Zenon DEF Cancel, Goto
<1>3. /\ job[t].values \in [Admins -> Value] /\ job[t].todo \in SUBSET Admins
      /\ job[t].admin \in Admins /\ job[t].merged \in Value /\ "each" \in EventPcs
  BY <1>1 DEF EventJob, EventPcs
<1>4. job' \in [Threads -> AllJobs] /\ job'[t].pc = "each" /\ \A u \in Threads \ {t} : job'[u] = job[u]
  BY <1>1, <1>2, <1>3, AllEventTo
<1>5. AllTypes'
  BY <1>4 DEF AllTypes, Cancel, store, locks, history
<1>. QED
  BY <1>1, <1>4, <1>5, LocksKept DEF Cancel, DisablePcs, MutexPcs, InStripe

LEMMA EndEventHolds ==
    ASSUME AllTypes, LockInv, NEW t \in Threads, EndEvent(t)
    PROVE  AllTypes' /\ LockInv'
<1>1. job[t].pc = "each"
  BY DEF EndEvent
<1>2. job' \in [Threads -> AllJobs] /\ job'[t].pc = "idle" /\ \A u \in Threads \ {t} : job'[u] = job[u]
  BY AllFinish DEF EndEvent
<1>3. AllTypes'
  BY <1>2 DEF AllTypes, EndEvent, store, history, Thread
<1>. QED
  BY <1>1, <1>2, <1>3, NoStripeNeeded DEF EndEvent, Follows, DisablePcs, MutexPcs, InStripe

(* Types and locks under every actor and every failure.                      *)
THEOREM LockInvariant == Spec => [](AllTypes /\ LockInv)
<1>1. Init => AllTypes
  <2>1. {} \in Value /\ 0 \in 0..MaxCalls
    BY UpdateAssumption DEF Value
  <2>. QED
    BY <2>1 DEF Init, AllTypes, AllJobs, Jobs, Thread
<1>2. Init => LockInv
  BY UpdateAssumption
     DEF Init, LockInv, HasAdminLock, HasMutexLock, HasStripe, Idle, DisablePcs, MutexPcs, InStripe
<1>3. AllTypes /\ LockInv /\ [Next]_vars => AllTypes' /\ LockInv'
  <2>. SUFFICES ASSUME AllTypes, LockInv, [Next]_vars PROVE AllTypes' /\ LockInv'
    OBVIOUS
  <2>1. CASE UNCHANGED vars
    <3>1. AllTypes'
      BY <2>1 DEF vars, store, locks, history, AllTypes
    <3>2. LockInv'
      BY <2>1 DEF vars, locks, LockInv, HasAdminLock, HasMutexLock, HasStripe
    <3>. QED
      BY <3>1, <3>2
  <2>2. ASSUME NEW t \in Threads, Begin(t) PROVE AllTypes' /\ LockInv'
    BY <2>2, BeginSetHolds, BeginDisableHolds, BeginEventHolds DEF Begin
  <2>3. ASSUME NEW t \in Threads, SetStep(t) PROVE AllTypes' /\ LockInv'
    BY <2>3, FindHolds, EnterHolds, ReadOthersHolds, ExecuteHolds, SaveHolds, AnnounceHolds DEF SetStep
  <2>4. ASSUME NEW t \in Threads, DisableStep(t) PROVE AllTypes' /\ LockInv'
    BY <2>4, TakeItemHolds, UnenforceHolds, LookupHolds, DropHolds, RecheckHolds, UnsubscribeHolds,
       EndDisableHolds DEF DisableStep
  <2>5. ASSUME NEW t \in Threads, EventStep(t) PROVE AllTypes' /\ LockInv'
    BY <2>5, TakeEventHolds, EventMergeHolds, RewriteHolds, CancelHolds, EndEventHolds DEF EventStep
  <2>6. ASSUME NEW a \in Admins, Enable(a) PROVE AllTypes' /\ LockInv'
    BY <2>6, EnableHolds
  <2>. QED
    BY <2>1, <2>2, <2>3, <2>4, <2>5, <2>6 DEF Next, Step
<1>. QED
  BY <1>1, <1>2, <1>3, PTL DEF Spec

(* Every variable keeps its type, the locals of each thread included.        *)
THEOREM UpdateTypes == Spec => []TypeOK
<1>1. AllTypes => TypeOK
  BY DEF AllTypes, TypeOK, AllJobs, Jobs
<1>. QED
  BY <1>1, LockInvariant, PTL

(* Nobody is waited for that has gone, and no wait goes in a circle: only who *)
(* disables an administrator waits with a lock, for one that waits for none. *)
THEOREM NobodyWaitsForEver == Spec => []WaitsEnd
<1>1. ASSUME AllTypes, LockInv PROVE WaitsEnd
  <2>1. ASSUME NEW t \in Threads, NEW u \in Threads, WaitsFor(t, u)
        PROVE  \/ job[u].pc \in DisablePcs /\ adminLock = u
               \/ job[u].pc \in MutexPcs /\ mutexLock = u
               \/ job[u].pc \in InStripe
    <3>1. job[t] \in SetJob => StripeOf(job[t].policy) \in Groups
      BY UpdateAssumption DEF SetJob, StripeOf
    <3>2. job[t].pc = "enter" => job[t] \in SetJob
      BY <1>1, AllKinds DEF SetPcs
    <3>. QED
      BY <1>1, <2>1, <3>1, <3>2 DEF WaitsFor, LockInv, HasAdminLock, HasMutexLock, HasStripe
  <2>2. ASSUME NEW u \in Threads, job[u].pc \in MutexPcs \/ job[u].pc \in InStripe, NEW v \in Threads
        PROVE  ~WaitsFor(u, v)
    BY <2>2 DEF WaitsFor, MutexPcs, InStripe
  <2>3. ASSUME NEW u \in Threads, job[u].pc \in DisablePcs, NEW v \in Threads, WaitsFor(u, v)
        PROVE  job[v].pc \in MutexPcs
    BY <1>1, <2>3 DEF WaitsFor, DisablePcs, LockInv, HasMutexLock
  <2>4. ASSUME NEW t \in Threads, NEW u \in Threads, WaitsFor(t, u)
        PROVE  job[u] # Idle
    BY <2>1, <2>4 DEF Idle, DisablePcs, MutexPcs, InStripe
  <2>. QED
    BY <2>1, <2>2, <2>3, <2>4 DEF WaitsEnd
<1>. QED
  BY <1>1, LockInvariant, PTL
=============================================================================
