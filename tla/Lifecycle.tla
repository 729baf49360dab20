------------------------------- MODULE Lifecycle -------------------------------
(***************************************************************************)
(* The life of the scheduler module around the updates of SyncSched: what  *)
(* sched_mod_init, sched_mod_exit and the sysfs file "enable" do in        *)
(* src/src/main.c, the script module-contrib/scheduler-installer that      *)
(* drives them with retries, and the two checks that keep plugsched and    *)
(* hotfixes apart (hotfix_conflict_check and jump_init_all, whose test of  *)
(* the heads exists on x86 only).                                          *)
(*                                                                         *)
(* One installer runs the script; administrators write to "enable" and run *)
(* rmmod.  An update is one step here, or an error at any time; its views  *)
(* and its memory pool are in SyncSched.                                   *)
(***************************************************************************)
EXTENDS Integers

CONSTANTS
  Writer,       \* administrators
  Installer,    \* whoever runs scheduler-installer
  MaxAttempts,  \* MAX_LOAD_ATTEMPTS
  Serialized    \* whether the users keep their calls into the module apart

ASSUME ActorAssumption == Installer \notin Writer
ASSUME AttemptsAssumption == MaxAttempts \in Nat \ {0} /\ Serialized \in BOOLEAN

VARIABLES
  arch,              \* what the kernel and the module are built for
  module,            \* "absent", "init", "live" or "going"
  file,              \* /sys/kernel/plugsched/plugsched/enable can be opened
  scheduler_enable,
  refcnt,            \* the module's reference count
  head,              \* what the heads of the redirected functions are
  store_orig,        \* the heads jump_init_all saved
  sched_class,       \* the version in the class tables
  bak_class,
  hotfix,            \* a hotfix of one of the functions is active
  at,                \* where each actor is in the module's code
  script,            \* where the installer is in its script
  i,                 \* its counter of failed attempts
  status             \* how its last run ended

modVars == <<module, file, scheduler_enable, refcnt, store_orig, bak_class>>
textVars == <<arch, head, sched_class>>
scriptVars == <<script, i, status>>
vars == <<modVars, textVars, hotfix, at, scriptVars>>

Actor == Writer \cup {Installer}

Init ==
  /\ arch \in {"x86_64", "aarch64"}
  /\ module = "absent" /\ file = FALSE /\ scheduler_enable = FALSE /\ refcnt = 0
  /\ head = "orig" /\ store_orig = "none"
  /\ sched_class = "orig" /\ bak_class = "none" /\ hotfix = FALSE
  /\ at = [a \in Actor |-> "user"]
  /\ script = "off" /\ i = 0 /\ status = "none"

\* Whether a may call into the module now.
MayCall(a) ==
  /\ at[a] = "user"
  /\ Serialized => \A b \in Actor : at[b] = "user"

Go(a, p, q) == at[a] = p /\ at' = [at EXCEPT ![a] = q]

-------------------------------------------------------------------------------
(***************************************************************************)
(* How the script takes the end of a command.                              *)
(***************************************************************************)
ExitWith(s) == script' = "off" /\ status' = s /\ UNCHANGED i

\* A failed command is tried again until the attempts are used up.
Retry ==
  IF i + 1 = MaxAttempts THEN ExitWith("failed")
                         ELSE i' = i + 1 /\ UNCHANGED <<script, status>>

\* The call that a made into the module has failed.
Fails(a) == IF a = Installer THEN Retry ELSE UNCHANGED scriptVars

\* Its write of 0 has succeeded.
Disabled(a) ==
  IF a = Installer THEN script' = "rmmod" /\ UNCHANGED <<i, status>>
                   ELSE UNCHANGED scriptVars

-------------------------------------------------------------------------------
(***************************************************************************)
(* load_sched_routine and unload_sched_routine.                            *)
(***************************************************************************)
\* module_put stops one below the count of a module nobody uses.
ModulePut == IF refcnt = -1 THEN -1 ELSE refcnt - 1

Bug_LoadStartUncounted(a) ==
  /\ Go(a, "start", "load")
  /\ UNCHANGED <<modVars, textVars, hotfix, scriptVars>>
LoadStart(a) ==
  /\ Go(a, "start", "load")
  /\ refcnt' = refcnt + 1
  /\ UNCHANGED <<module, file, scheduler_enable, store_orig, bak_class, textVars,
                 hotfix, scriptVars>>

\* sync_sched_mod, one at a time because of cpu_maps_update_begin.
LoadSync(a) ==
  /\ Go(a, "load", "loaded")
  /\ head' = "mod" /\ bak_class' = sched_class /\ sched_class' = "mod"
  /\ UNCHANGED <<arch, module, file, scheduler_enable, refcnt, store_orig, hotfix,
                 scriptVars>>

\* In sched_mod_init the error leads to the unregistration of the sysfs files.
Bug_LoadFailKeepsReference(a) ==
  /\ Go(a, "load", IF a = Installer THEN "unregister" ELSE "user")
  /\ UNCHANGED <<modVars, textVars, hotfix, scriptVars>>
LoadFail(a) ==
  /\ Go(a, "load", IF a = Installer THEN "unregister" ELSE "user")
  /\ refcnt' = ModulePut
  /\ UNCHANGED <<module, file, scheduler_enable, store_orig, bak_class, textVars,
                 hotfix, scriptVars>>

LoadFinish(a) ==
  /\ Go(a, "loaded", "user")
  /\ scheduler_enable' = TRUE
  /\ IF a = Installer THEN module' = "live" /\ ExitWith("installed")
                      ELSE UNCHANGED <<module, scriptVars>>
  /\ UNCHANGED <<file, refcnt, store_orig, bak_class, textVars, hotfix>>

UnloadSync(a) ==
  /\ Go(a, "unload", "unloaded")
  /\ head' = store_orig /\ sched_class' = bak_class
  /\ UNCHANGED <<arch, modVars, hotfix, scriptVars>>

UnloadFail(a) ==
  /\ Go(a, "unload", "user")
  /\ Fails(a)
  /\ UNCHANGED <<modVars, textVars, hotfix>>

UnloadPut(a) ==
  /\ Go(a, "unloaded", "put")
  /\ refcnt' = ModulePut
  /\ UNCHANGED <<module, file, scheduler_enable, store_orig, bak_class, textVars,
                 hotfix, scriptVars>>

UnloadFinish(a) ==
  /\ Go(a, "put", "user")
  /\ scheduler_enable' = FALSE
  /\ Disabled(a)
  /\ UNCHANGED <<module, file, refcnt, store_orig, bak_class, textVars, hotfix>>

\* plugsched_enabled_store, entered through the open file.  Nothing serialises
\* two writers, and sched_mod_init is no writer at all.
Store(a, val) ==
  /\ MayCall(a) /\ file
  /\ IF scheduler_enable = val
       THEN /\ UNCHANGED at
            /\ IF val THEN UNCHANGED scriptVars ELSE Disabled(a)
       ELSE /\ at' = [at EXCEPT ![a] = IF val THEN "start" ELSE "unload"]
            /\ UNCHANGED scriptVars
  /\ UNCHANGED <<modVars, textVars, hotfix>>

-------------------------------------------------------------------------------
(***************************************************************************)
(* sched_mod_init, sched_mod_exit and the kernel's module loader.          *)
(***************************************************************************)
\* jump_init_all finds a foreign jump or call at the head of a function.  The
\* macro for ARM64 saves the head without looking at it.
Bug_HookedByMod == arch = "x86_64" /\ head = "mod"
Hooked == arch = "x86_64" /\ head # "orig"

\* insmod fails if the module is there already, or in jump_init_all.
Insmod ==
  /\ script = "insmod" /\ MayCall(Installer)
  /\ IF module # "absent" \/ Hooked
       THEN Retry /\ UNCHANGED <<at, module, store_orig>>
       ELSE /\ module' = "init" /\ store_orig' = head
            /\ at' = [at EXCEPT ![Installer] = "register"]
            /\ UNCHANGED scriptVars
  /\ UNCHANGED <<file, scheduler_enable, refcnt, bak_class, textVars, hotfix>>

\* register_plugsched_enable: from here on the file can be opened.
RegisterEnable(a) ==
  /\ Go(a, "register", "taint")
  /\ file' = TRUE
  /\ UNCHANGED <<module, scheduler_enable, refcnt, store_orig, bak_class,
                 textVars, hotfix, scriptVars>>

\* Without memory nothing stays, and the module is freed.
RegisterFail(a) ==
  /\ Go(a, "register", "user")
  /\ module' = "absent" /\ store_orig' = "none"
  /\ Fails(a)
  /\ UNCHANGED <<file, scheduler_enable, refcnt, bak_class, textVars, hotfix>>

RegisterTainted(a) ==
  /\ Go(a, "taint", "start") \/ Go(a, "taint", "unregister")
  /\ UNCHANGED <<modVars, textVars, hotfix, scriptVars>>

\* A module somebody uses cannot be removed; for the script the failure of
\* rmmod makes no difference.
CanRemove == module = "live" /\ refcnt = 0

Rmmod(a) ==
  /\ MayCall(a) /\ (a = Installer => script = "rmmod")
  /\ IF CanRemove
       THEN /\ module' = "going" /\ at' = [at EXCEPT ![a] = "unregister"]
            /\ UNCHANGED scriptVars
       ELSE /\ UNCHANGED <<module, at>>
            /\ IF a = Installer THEN ExitWith("removed") ELSE UNCHANGED scriptVars
  /\ UNCHANGED <<file, scheduler_enable, refcnt, store_orig, bak_class, textVars,
                 hotfix>>

\* unregister_plugsched_sysfs: nobody can enter any more ...
Unregister(a) ==
  /\ Go(a, "unregister", "drain")
  /\ file' = FALSE
  /\ UNCHANGED <<module, scheduler_enable, refcnt, store_orig, bak_class,
                 textVars, hotfix, scriptVars>>

\* ... and sysfs waits for those who did.  Then the module loader frees the
\* module; after a failed init it does so whatever the reference count is.
FreeModule(a) ==
  /\ Go(a, "drain", "user")
  /\ \A b \in Actor \ {a} : at[b] \in {"user", "drain"}
  /\ module' = "absent" /\ scheduler_enable' = FALSE /\ refcnt' = 0
  /\ store_orig' = "none" /\ bak_class' = "none"
  /\ IF module = "going" /\ a = Installer THEN ExitWith("removed") ELSE Fails(a)
  /\ UNCHANGED <<file, textVars, hotfix>>

-------------------------------------------------------------------------------
(***************************************************************************)
(* scheduler-installer, and the hotfix tools of the same machine.          *)
(***************************************************************************)
Install ==
  /\ script = "off"
  /\ i' = 0
  /\ IF file THEN status' = "installed" /\ UNCHANGED script
             ELSE status' = "running" /\ script' = "conflict"
  /\ UNCHANGED <<modVars, textVars, hotfix, at>>

\* hotfix_conflict_check, before the attempts begin.
ConflictCheck ==
  /\ script = "conflict"
  /\ IF hotfix THEN ExitWith("failed") ELSE script' = "insmod" /\ UNCHANGED <<i, status>>
  /\ UNCHANGED <<modVars, textVars, hotfix, at>>

Uninstall ==
  /\ script = "off"
  /\ i' = 0
  /\ IF file THEN status' = "running" /\ script' = "disable"
             ELSE status' = "removed" /\ UNCHANGED script
  /\ UNCHANGED <<modVars, textVars, hotfix, at>>

\* echo 0 > enable.
DisableModule ==
  /\ script = "disable"
  /\ \/ Store(Installer, FALSE)
     \/ /\ ~file /\ at[Installer] = "user" /\ Retry
        /\ UNCHANGED <<modVars, textVars, hotfix, at>>

\* A hotfix tool makes the same check against the entries of plugsched.
HotfixOn ==
  /\ ~hotfix /\ ~file /\ head = "orig"
  /\ Serialized => \A a \in Actor : at[a] = "user"
  /\ hotfix' = TRUE /\ head' = "hotfix"
  /\ UNCHANGED <<arch, modVars, sched_class, at, scriptVars>>

\* It takes out what it finds in place.
HotfixOff ==
  /\ hotfix /\ head = "hotfix"
  /\ hotfix' = FALSE /\ head' = "orig"
  /\ UNCHANGED <<arch, modVars, sched_class, at, scriptVars>>

ModuleCode(a) ==
  \/ LoadStart(a) \/ LoadSync(a) \/ LoadFail(a) \/ LoadFinish(a)
  \/ UnloadSync(a) \/ UnloadFail(a) \/ UnloadPut(a) \/ UnloadFinish(a)
  \/ RegisterEnable(a) \/ RegisterFail(a) \/ RegisterTainted(a)
  \/ Unregister(a) \/ FreeModule(a)

Script ==
  ConflictCheck \/ Insmod \/ DisableModule \/ Rmmod(Installer)

Next ==
  \/ \E a \in Actor : ModuleCode(a)
  \/ \E w \in Writer : Rmmod(w) \/ \E val \in BOOLEAN : Store(w, val)
  \/ Install \/ Uninstall \/ Script
  \/ HotfixOn \/ HotfixOff

Spec == Init /\ [][Next]_vars

-------------------------------------------------------------------------------
\* No call and no class table leads into a module that is gone, whichever
\* attempt failed on the way: the reference that load_sched_routine takes is
\* there "to avoid rmmod before disable" (main.c:397).
RemovedOnlyWhenDisabled ==
  module = "absent" => head # "mod" /\ sched_class = "orig"

\* On x86 a hotfix stays in place until its tool takes it out again: neither the
\* jumps nor the restored heads of plugsched ever overwrite it, also when it came
\* between the conflict check and one of the attempts.  On ARM64, where the heads
\* are not tested (head_jump.h:111-117), plugsched does overwrite such a hotfix.
HotfixKept == arch = "x86_64" /\ hotfix => head = "hotfix"

\* While nobody is inside the module, what "enable" shows is what is in force,
\* it is backed by exactly one reference, and the file is there exactly when
\* the module is.
EnableHonest ==
  (\A a \in Actor : at[a] = "user") =>
    /\ scheduler_enable <=> head = "mod"
    /\ scheduler_enable <=> sched_class = "mod"
    /\ refcnt = IF scheduler_enable THEN 1 ELSE 0
    /\ file <=> module = "live"
===============================================================================
