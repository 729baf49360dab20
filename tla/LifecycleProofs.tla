---------------------------- MODULE LifecycleProofs ----------------------------
(***************************************************************************)
(* Proofs about the module's life (Lifecycle), for any number of           *)
(* administrators and of attempts, as long as they keep their calls into   *)
(* the module apart, on x86 and on ARM64.                                  *)
(***************************************************************************)
EXTENDS Lifecycle, TLAPS

Place == {"user", "register", "taint", "start", "load", "loaded", "unload", "unloaded",
          "put", "unregister", "drain"}

\* A head that no jump of plugsched has replaced.  On x86 it is the kernel's own:
\* jump_init_all refuses a hotfix's.
Foreign(h) == h \in {"orig", "hotfix"} /\ (arch = "x86_64" => h = "orig")

\* On x86 the hotfixes are out while the module is there.
Apart == arch = "x86_64" => hotfix = FALSE

\* What is in force is the module's version, or what was there before.
InForce ==
  /\ head = "mod" /\ sched_class = "mod" /\ Foreign(store_orig) /\ bak_class = "orig"
  /\ Apart

NotInForce == Foreign(head) /\ sched_class = "orig" /\ Foreign(store_orig) /\ Apart

\* While nobody is inside the module.
Idle ==
  \/ /\ module = "absent" /\ ~file /\ scheduler_enable = FALSE /\ refcnt = 0
     /\ head \in {"orig", "hotfix"} /\ sched_class = "orig"
     /\ arch = "x86_64" => head = IF hotfix THEN "hotfix" ELSE "orig"
  \/ /\ module = "live" /\ file
     /\ \/ scheduler_enable = TRUE /\ refcnt = 1 /\ InForce
        \/ scheduler_enable = FALSE /\ refcnt = 0 /\ NotInForce

\* While a is at p in the module.  A load is made by the installer, from
\* sched_mod_init, or by an administrator, through the file.
LoaderOf(a) == module = IF a = Installer THEN "init" ELSE "live"

Busy(a, p) ==
  /\ p \in Place /\ Apart
  /\ p \in {"register", "taint"} =>
       /\ a = Installer /\ module = "init" /\ NotInForce
       /\ refcnt = 0 /\ scheduler_enable = FALSE
  /\ p = "register" => ~file
  /\ p \notin {"register", "drain"} => file
  /\ p = "drain" => ~file
  /\ p \in {"start", "load"} => NotInForce /\ LoaderOf(a) /\ scheduler_enable = FALSE
  /\ p = "start" => refcnt = 0
  /\ p \in {"load", "loaded"} => refcnt = 1
  /\ p = "loaded" => InForce /\ LoaderOf(a) /\ scheduler_enable = FALSE
  /\ p \in {"unload", "unloaded", "put"} => module = "live" /\ scheduler_enable = TRUE
  /\ p = "unload" => InForce
  /\ p \in {"unload", "unloaded"} => refcnt = 1
  /\ p \in {"unloaded", "put"} => NotInForce
  /\ p = "put" => refcnt = 0
  /\ p \in {"unregister", "drain"} =>
       /\ module \in {"init", "going"} /\ NotInForce
       /\ refcnt = 0 /\ scheduler_enable = FALSE

\* At most one actor is in the module, and the state of the module is that of
\* where it is.
IInv ==
  /\ at \in [Actor -> Place]
  /\ \A a, b \in Actor : at[a] # "user" /\ at[b] # "user" => a = b
  /\ (\A a \in Actor : at[a] = "user") => Idle
  /\ \A a \in Actor : at[a] # "user" => Busy(a, at[a])

-------------------------------------------------------------------------------
(***************************************************************************)
(* How an actor comes into the module, goes on, and leaves it.             *)
(***************************************************************************)
LEMMA Moves ==
  ASSUME IInv, NEW a \in Actor, NEW p, NEW q, Go(a, p, q), p # "user", q # "user",
         Busy(a, p) => Busy(a, q)'
  PROVE  IInv'
<1>1. Busy(a, p) /\ \A b \in Actor \ {a} : at[b] = "user"
  BY DEF IInv, Go
<1>2. at' = [at EXCEPT ![a] = q] /\ q \in Place
  BY <1>1 DEF Go, Busy
<1>3. Busy(a, q)'
  BY <1>1
<1> QED
  BY <1>1, <1>2, <1>3 DEF IInv

LEMMA Leaves ==
  ASSUME IInv, NEW a \in Actor, NEW p, Go(a, p, "user"), p # "user",
         Busy(a, p) => Idle'
  PROVE  IInv'
<1>1. Busy(a, p) /\ \A b \in Actor \ {a} : at[b] = "user"
  BY DEF IInv, Go
<1>2. at' = [at EXCEPT ![a] = "user"]
  BY DEF Go
<1>3. at' \in [Actor -> Place] /\ \A b \in Actor : at'[b] = "user"
  BY <1>1, <1>2 DEF IInv, Place
<1> QED
  BY <1>1, <1>3 DEF IInv

LEMMA Enters ==
  ASSUME IInv, NEW a \in Actor, NEW q, Serialized, MayCall(a),
         at' = [at EXCEPT ![a] = q], q # "user",
         Idle => Busy(a, q)'
  PROVE  IInv'
<1>1. (\A b \in Actor : at[b] = "user") /\ Idle
  BY DEF MayCall, IInv
<1>2. Busy(a, q)' /\ q \in Place
  BY <1>1 DEF Busy
<1> QED
  BY <1>1, <1>2 DEF IInv

\* Steps that the module does not see.
LEMMA Elsewhere ==
  ASSUME IInv, UNCHANGED <<modVars, textVars, hotfix, at>>
  PROVE  IInv'
<1>1. Idle' <=> Idle
  BY DEF Idle, InForce, NotInForce, Foreign, Apart, modVars, textVars
<1>2. ASSUME NEW a \in Actor, at'[a] # "user" PROVE Busy(a, at[a])'
  BY <1>2 DEF IInv, Busy, LoaderOf, InForce, NotInForce, Foreign, Apart, modVars, textVars
<1>3. at' = at
  OBVIOUS
<1>4. /\ at' \in [Actor -> Place]
      /\ \A a, b \in Actor : at'[a] # "user" /\ at'[b] # "user" => a = b
      /\ (\A a \in Actor : at'[a] = "user") => Idle'
  BY <1>1, <1>3 DEF IInv
<1> QED
  BY <1>2, <1>4, Zenon DEF IInv

-------------------------------------------------------------------------------
LEMMA LoadSteps ==
  ASSUME IInv, NEW a \in Actor,
         LoadStart(a) \/ LoadSync(a) \/ LoadFail(a) \/ LoadFinish(a)
  PROVE  IInv'
<1> USE DEF Busy, LoaderOf, InForce, NotInForce, Foreign, Apart, Place, modVars, textVars
<1>1. CASE LoadStart(a)
  <2>1. Busy(a, "start") => Busy(a, "load")'
    BY <1>1 DEF LoadStart
  <2> QED
    BY <1>1, <2>1, Moves DEF LoadStart
<1>2. CASE LoadSync(a)
  BY <1>2, Moves DEF LoadSync
<1>3. CASE LoadFail(a) /\ a = Installer
  <2>1. Go(a, "load", "unregister")
    BY <1>3 DEF LoadFail
  <2>2. Busy(a, "load") => Busy(a, "unregister")'
    BY <1>3 DEF LoadFail, ModulePut
  <2> QED
    BY <2>1, <2>2, Moves
<1>4. CASE LoadFail(a) /\ a # Installer
  <2>1. Go(a, "load", "user")
    BY <1>4 DEF LoadFail
  <2>2. Busy(a, "load") => Idle'
    BY <1>4 DEF LoadFail, ModulePut, Idle
  <2> QED
    BY <2>1, <2>2, Leaves
<1>5. CASE LoadFinish(a)
  <2>1. Busy(a, "loaded") => Idle'
    BY <1>5 DEF LoadFinish, Idle
  <2> QED
    BY <1>5, <2>1, Leaves DEF LoadFinish
<1> QED
  BY <1>1, <1>2, <1>3, <1>4, <1>5

LEMMA UnloadSteps ==
  ASSUME IInv, NEW a \in Actor,
         UnloadSync(a) \/ UnloadFail(a) \/ UnloadPut(a) \/ UnloadFinish(a)
  PROVE  IInv'
<1> USE DEF Busy, LoaderOf, InForce, NotInForce, Foreign, Apart, Place, modVars, textVars
<1>1. CASE UnloadSync(a)
  BY <1>1, Moves DEF UnloadSync
<1>2. CASE UnloadFail(a)
  <2>1. Busy(a, "unload") => Idle'
    BY <1>2 DEF UnloadFail, Idle
  <2> QED
    BY <1>2, <2>1, Leaves DEF UnloadFail
<1>3. CASE UnloadPut(a)
  <2>1. Busy(a, "unloaded") => Busy(a, "put")'
    BY <1>3 DEF UnloadPut, ModulePut
  <2> QED
    BY <1>3, <2>1, Moves DEF UnloadPut
<1>4. CASE UnloadFinish(a)
  <2>1. Busy(a, "put") => Idle'
    BY <1>4 DEF UnloadFinish, Idle
  <2> QED
    BY <1>4, <2>1, Leaves DEF UnloadFinish
<1> QED
  BY <1>1, <1>2, <1>3, <1>4

\* Writing what the file already shows changes nothing.
LEMMA StoreStep ==
  ASSUME IInv, Serialized, NEW a \in Actor, NEW val \in BOOLEAN, Store(a, val),
         a = Installer => ~val
  PROVE  IInv'
<1> USE DEF Busy, LoaderOf, InForce, NotInForce, Foreign, Apart, Place, modVars, textVars
<1>1. CASE scheduler_enable = val
  BY <1>1, Elsewhere DEF Store
<1>2. CASE scheduler_enable # val /\ val
  <2>1. val = TRUE /\ a # Installer
    BY <1>2
  <2>2. Idle => module = "live" /\ refcnt = 0 /\ scheduler_enable = FALSE /\ NotInForce
    BY <1>2, <2>1 DEF Store, Idle
  <2>3. Idle => Busy(a, "start")'
    BY <1>2, <2>1, <2>2 DEF Store
  <2> QED
    BY <1>2, <2>3, Enters DEF Store
<1>3. CASE scheduler_enable # val /\ ~val
  <2>1. val = FALSE
    BY <1>3
  <2>2. Idle => module = "live" /\ refcnt = 1 /\ scheduler_enable = TRUE /\ InForce
    BY <1>3, <2>1 DEF Store, Idle
  <2>3. Idle => Busy(a, "unload")'
    BY <1>3, <2>1, <2>2 DEF Store
  <2> QED
    BY <1>3, <2>3, Enters DEF Store
<1> QED
  BY <1>1, <1>2, <1>3

LEMMA ModuleSteps ==
  ASSUME IInv, NEW a \in Actor,
         RegisterEnable(a) \/ RegisterFail(a) \/ RegisterTainted(a)
           \/ Unregister(a) \/ FreeModule(a)
  PROVE  IInv'
<1> USE DEF Busy, LoaderOf, InForce, NotInForce, Foreign, Apart, Place, modVars, textVars
<1>1. CASE RegisterEnable(a)
  BY <1>1, Moves DEF RegisterEnable
<1>2. CASE RegisterFail(a)
  <2>1. Busy(a, "register") => Idle'
    BY <1>2 DEF RegisterFail, Idle
  <2> QED
    BY <1>2, <2>1, Leaves DEF RegisterFail
<1>3. CASE RegisterTainted(a)
  BY <1>3, Moves DEF RegisterTainted
<1>4. CASE Unregister(a)
  BY <1>4, Moves DEF Unregister
<1>5. CASE FreeModule(a)
  <2>1. Busy(a, "drain") => Idle'
    BY <1>5 DEF FreeModule, Idle
  <2> QED
    BY <1>5, <2>1, Leaves DEF FreeModule
<1> QED
  BY <1>1, <1>2, <1>3, <1>4, <1>5

LEMMA InsmodStep ==
  ASSUME IInv, Serialized, Insmod
  PROVE  IInv'
<1> USE DEF Busy, LoaderOf, InForce, NotInForce, Foreign, Apart, Place, modVars, textVars
<1>1. CASE module # "absent" \/ Hooked
  BY <1>1, Elsewhere DEF Insmod
<1>2. CASE ~(module # "absent" \/ Hooked)
  <2>1. Idle => Busy(Installer, "register")'
    BY <1>2 DEF Insmod, Idle, Hooked
  <2> QED
    BY <1>2, <2>1, Enters DEF Insmod, Actor
<1> QED
  BY <1>1, <1>2

LEMMA RmmodStep ==
  ASSUME IInv, Serialized, NEW a \in Actor, Rmmod(a)
  PROVE  IInv'
<1> USE DEF Busy, LoaderOf, InForce, NotInForce, Foreign, Apart, Place, modVars, textVars
<1>1. CASE ~CanRemove
  BY <1>1, Elsewhere DEF Rmmod
<1>2. CASE CanRemove
  <2>1. Idle => Busy(a, "unregister")'
    BY <1>2 DEF Rmmod, Idle, CanRemove
  <2> QED
    BY <1>2, <2>1, Enters DEF Rmmod
<1> QED
  BY <1>1, <1>2

\* On x86 no hotfix is in when an actor is in the module; on ARM64 its tool may
\* take one out then.
LEMMA HotfixSteps ==
  ASSUME IInv, Serialized, HotfixOn \/ HotfixOff
  PROVE  IInv'
<1> USE DEF InForce, NotInForce, Foreign, Apart, modVars
<1>1. at' = at
  BY DEF HotfixOn, HotfixOff
<1>2. CASE HotfixOn
  <2>1. (\A a \in Actor : at[a] = "user") /\ Idle
    BY <1>2 DEF IInv, HotfixOn
  <2>2. Idle'
    BY <1>2, <2>1 DEF HotfixOn, Idle
  <2> QED
    BY <1>1, <2>1, <2>2 DEF IInv
<1>3. CASE HotfixOff
  <2>1. Idle => Idle'
    BY <1>3 DEF HotfixOff, Idle
  <2>2. ASSUME NEW a \in Actor, Busy(a, at[a]) PROVE Busy(a, at[a])'
    BY <1>1, <1>3, <2>2 DEF HotfixOff, Busy, LoaderOf
  <2>3. \A a \in Actor : at'[a] # "user" => Busy(a, at[a])'
    BY <1>1, <2>2 DEF IInv
  <2>4. /\ at' \in [Actor -> Place]
        /\ \A a, b \in Actor : at'[a] # "user" /\ at'[b] # "user" => a = b
        /\ (\A a \in Actor : at'[a] = "user") => Idle'
    BY <1>1, <2>1 DEF IInv
  <2> QED
    BY <2>3, <2>4, Zenon DEF IInv
<1> QED
  BY <1>2, <1>3

LEMMA LifeStep ==
  ASSUME IInv, Serialized, [Next]_vars
  PROVE  IInv'
<1>1. ASSUME NEW a \in Actor, ModuleCode(a)
      PROVE  IInv'
  BY <1>1, LoadSteps, UnloadSteps, ModuleSteps DEF ModuleCode
<1>2. ASSUME NEW w \in Writer, NEW val \in BOOLEAN, Store(w, val)
      PROVE  IInv'
  BY <1>2, StoreStep, ActorAssumption DEF Actor
<1>3. ASSUME NEW a \in Actor, Rmmod(a)
      PROVE  IInv'
  BY <1>3, RmmodStep
<1>4. CASE Install \/ Uninstall \/ ConflictCheck
  BY <1>4, Elsewhere DEF Install, Uninstall, ConflictCheck
<1>5. CASE DisableModule
  <2>1. CASE Store(Installer, FALSE)
    BY <2>1, StoreStep DEF Actor
  <2>2. CASE UNCHANGED <<modVars, textVars, hotfix, at>>
    BY <2>2, Elsewhere
  <2> QED
    BY <1>5, <2>1, <2>2 DEF DisableModule
<1>6. CASE Insmod
  BY <1>6, InsmodStep
<1>7. CASE HotfixOn \/ HotfixOff
  BY <1>7, HotfixSteps
<1>8. CASE UNCHANGED vars
  BY <1>8, Elsewhere DEF vars
<1>9. \A w \in Writer : w \in Actor /\ Installer \in Actor
  BY DEF Actor
<1>10. Installer \in Actor
  BY DEF Actor
<1> QED
  BY <1>1, <1>2, <1>3, <1>4, <1>5, <1>6, <1>7, <1>8, <1>9, <1>10 DEF Next, Script

\* The inductive invariant holds when the users keep their calls apart.
THEOREM LifeInvariance ==
  ASSUME Serialized
  PROVE  Spec => []IInv
<1>1. Init => IInv
  BY DEF Init, IInv, Idle, Place
<1>2. IInv /\ [Next]_vars => IInv'
  BY LifeStep
<1> QED
  BY <1>1, <1>2, PTL DEF Spec

\* Calls that do not overlap, of any number of administrators with any failures
\* and retries, leave no way into a module that is gone.
THEOREM RemovedSafe ==
  ASSUME Serialized
  PROVE  Spec => []RemovedOnlyWhenDisabled
<1>1. IInv => RemovedOnlyWhenDisabled
  BY DEF IInv, Busy, LoaderOf, Idle, InForce, NotInForce, Foreign, Place,
         RemovedOnlyWhenDisabled
<1> QED
  BY <1>1, LifeInvariance, PTL

\* On x86 such calls never overwrite a hotfix.
THEOREM HotfixSafe ==
  ASSUME Serialized
  PROVE  Spec => []HotfixKept
<1>1. IInv => HotfixKept
  BY DEF IInv, Busy, Idle, InForce, NotInForce, Foreign, Apart, HotfixKept
<1> QED
  BY <1>1, LifeInvariance, PTL

\* Between such calls the file enable tells what is in force.
THEOREM EnableTrue ==
  ASSUME Serialized
  PROVE  Spec => []EnableHonest
<1>1. IInv => EnableHonest
  BY DEF IInv, Idle, InForce, NotInForce, Foreign, EnableHonest
<1> QED
  BY <1>1, LifeInvariance, PTL
===============================================================================
