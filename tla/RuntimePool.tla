----------------------------- MODULE RuntimePool -----------------------------
(***************************************************************************)
(* The process-wide state of the dispatcher (src/dispatch/config.rs and    *)
(* src/dispatch/pool.rs): the settings, fixed once by configure() or by    *)
(* the first use, and the Rayon pool, built once by the process whose PID  *)
(* is in POOL_OWNER.  Threads of a process race through both, processes    *)
(* fork at any moment and inherit the memory but none of the other         *)
(* threads, and exit.                                                      *)
(*                                                                         *)
(* A OnceLock is unset, being initialised by one thread while the others   *)
(* wait, or set; its initialiser is two steps, so that a fork can fall     *)
(* between them.                                                           *)
(***************************************************************************)
EXTENDS Integers

CONSTANTS
  Proc,            \* processes that may ever run; an instance each, never reused
  Root,            \* the one that starts the program
  Thread,          \* names of the threads of a process
  ThreadsOf(_),    \* the threads that a process uses
  Pid,             \* process identifiers
  Options,         \* arguments offered to configure: [threads, allow_simd]
  Environments,    \* what the LUSTRO_ variables may say when they are read
  LogicalCpus,     \* available_parallelism
  None, Failed, Gone

ASSUME ConstantTypes ==
  /\ Root \in Proc
  /\ \A p \in Proc : ThreadsOf(p) \subseteq Thread
  /\ LogicalCpus \in Nat \ {0}
  /\ \A o \in Options :
       o.threads \in {None} \cup (Nat \ {0}) /\ o.allow_simd \in {None} \cup BOOLEAN
  /\ \A e \in Environments :
       /\ e.threads \in {None} \cup (Nat \ {0})
       /\ e.disable_mt \in BOOLEAN /\ e.disable_simd \in BOOLEAN

VARIABLES
  live,       \* processes that run
  pidOf,      \* pidOf[p]: the identifier p got; kept when p exits
  cfg,        \* RUNTIME_CONFIG of each process
  cfgBy,      \* the thread inside its initialiser
  owner,      \* POOL_OWNER of each process; None stands for 0
  pool,       \* RAYON_POOL of each process
  poolBy,     \* the thread inside its initialiser
  pc,         \* pc[<<p, t>>]: what thread t of p does
  wish,       \* wish[<<p, t>>]: the settings a configure call has resolved
  planned,    \* planned[<<p, t>>]: the thread count a batch was planned for
  reports,    \* history: settings p returned to callers
  granted     \* history: calls of configure that succeeded in p

process  == <<live, pidOf>>
settings == <<cfg, cfgBy>>
claim    == <<owner, pool, poolBy>>
history  == <<reports, granted>>
vars == <<process, settings, claim, pc, wish, planned, history>>

-----------------------------------------------------------------------------
(* RuntimeConfig::parse.                                                   *)

(* Mutant: more workers than the machine has CPUs.                         *)
CappedNever(n) == n

Capped(n) == IF n < LogicalCpus THEN n ELSE LogicalCpus

NoOptions == [threads |-> None, allow_simd |-> None]

Parse(options, env) ==
  LET chosen  == IF options.threads # None THEN options.threads ELSE env.threads
      workers == IF chosen # None THEN Capped(chosen) ELSE LogicalCpus
  IN  [disable_mt   |-> workers < 2 \/ (options.threads = None /\ env.disable_mt),
       disable_simd |-> IF options.allow_simd # None THEN ~options.allow_simd
                                                     ELSE env.disable_simd,
       workers      |-> workers]

-----------------------------------------------------------------------------

Goto(p, t, place) == pc' = [pc EXCEPT ![<<p, t>>] = place]

Runs(p, t, place) == p \in live /\ t \in ThreadsOf(p) /\ pc[<<p, t>>] = place

(* configure: the options are resolved before the cell is tried.           *)
Configure(p, t, options) ==
  /\ Runs(p, t, "idle")
  /\ \E env \in Environments : wish' = [wish EXCEPT ![<<p, t>>] = Parse(options, env)]
  /\ Goto(p, t, "set")
  /\ UNCHANGED <<process, settings, claim, planned, history>>

(* Mutant: configure stores over settings that are already fixed.          *)
SetOverwrites(p, t) ==
  /\ Runs(p, t, "set") /\ cfgBy[p] = None
  /\ cfg' = [cfg EXCEPT ![p] = wish[<<p, t>>]]
  /\ reports' = [reports EXCEPT ![p] = @ \cup {wish[<<p, t>>]}]
  /\ granted' = [granted EXCEPT ![p] = @ + 1]
  /\ wish' = [wish EXCEPT ![<<p, t>>] = None]
  /\ Goto(p, t, "idle")
  /\ UNCHANGED <<process, cfgBy, claim, planned>>

(* OnceLock::set waits for an initialiser that runs; its own only moves    *)
(* the value, so it is one step.                                           *)
SetWins(p, t) ==
  /\ Runs(p, t, "set") /\ cfgBy[p] = None
  /\ cfg[p] = None
  /\ cfg' = [cfg EXCEPT ![p] = wish[<<p, t>>]]
  /\ reports' = [reports EXCEPT ![p] = @ \cup {wish[<<p, t>>]}]
  /\ granted' = [granted EXCEPT ![p] = @ + 1]
  /\ wish' = [wish EXCEPT ![<<p, t>>] = None]
  /\ Goto(p, t, "idle")
  /\ UNCHANGED <<process, cfgBy, claim, planned>>

SetRefused(p, t) ==
  /\ Runs(p, t, "set") /\ cfgBy[p] = None
  /\ cfg[p] # None
  /\ wish' = [wish EXCEPT ![<<p, t>>] = None]
  /\ Goto(p, t, "idle")
  /\ UNCHANGED <<process, settings, claim, planned, history>>

(* A batch call, suggested_steps or runtime_info asks for the settings.    *)
Use(p, t) ==
  /\ Runs(p, t, "idle")
  /\ Goto(p, t, "config")
  /\ UNCHANGED <<process, settings, claim, wish, planned, history>>

(* runtime_config on a cell that is unset: one thread runs the             *)
(* initialiser, the others wait for it.                                    *)
BeginConfig(p, t) ==
  /\ Runs(p, t, "config") /\ cfgBy[p] = None
  /\ cfg[p] = None
  /\ cfgBy' = [cfgBy EXCEPT ![p] = t]
  /\ Goto(p, t, "resolve")
  /\ UNCHANGED <<process, cfg, claim, wish, planned, history>>

ReadEnvironment(p, t) ==
  /\ Runs(p, t, "resolve")
  /\ \E env \in Environments : cfg' = [cfg EXCEPT ![p] = Parse(NoOptions, env)]
  /\ cfgBy' = [cfgBy EXCEPT ![p] = None]
  /\ Goto(p, t, "config")
  /\ UNCHANGED <<process, claim, wish, planned, history>>

Report(p, t) ==
  /\ Runs(p, t, "config")
  /\ cfg[p] # None
  /\ reports' = [reports EXCEPT ![p] = @ \cup {cfg[p]}]
  /\ Goto(p, t, "idle")
  /\ UNCHANGED <<process, settings, claim, wish, planned, granted>>

(* The planner sends a batch to the pool unless the settings forbid it or  *)
(* the batch is too small.                                                 *)
PlanSingle(p, t) ==
  /\ Runs(p, t, "config")
  /\ cfg[p] # None
  /\ reports' = [reports EXCEPT ![p] = @ \cup {cfg[p]}]
  /\ Goto(p, t, "alone")
  /\ UNCHANGED <<process, settings, claim, wish, planned, granted>>

(* Mutant: planned for the machine, not for the settings.                  *)
PlanForMachine(p, t) ==
  /\ Runs(p, t, "config")
  /\ cfg[p] # None
  /\ ~cfg[p].disable_mt
  /\ reports' = [reports EXCEPT ![p] = @ \cup {cfg[p]}]
  /\ planned' = [planned EXCEPT ![<<p, t>>] = LogicalCpus]
  /\ Goto(p, t, "claim")
  /\ UNCHANGED <<process, settings, claim, wish, granted>>

PlanRayon(p, t) ==
  /\ Runs(p, t, "config")
  /\ cfg[p] # None
  /\ ~cfg[p].disable_mt
  /\ reports' = [reports EXCEPT ![p] = @ \cup {cfg[p]}]
  /\ planned' = [planned EXCEPT ![<<p, t>>] = cfg[p].workers]
  /\ Goto(p, t, "claim")
  /\ UNCHANGED <<process, settings, claim, wish, granted>>

-----------------------------------------------------------------------------
(* init_pool and get_or_init_pool.                                         *)

(* Mutant: a store in place of the compare_exchange.                       *)
ClaimStores(p, t) ==
  /\ Runs(p, t, "claim")
  /\ owner' = [owner EXCEPT ![p] = pidOf[p]]
  /\ Goto(p, t, "check")
  /\ UNCHANGED <<process, settings, pool, poolBy, wish, planned, history>>

Claim(p, t) ==
  /\ Runs(p, t, "claim")
  /\ owner' = [owner EXCEPT ![p] = IF @ = None THEN pidOf[p] ELSE @]
  /\ Goto(p, t, "check")
  /\ UNCHANGED <<process, settings, pool, poolBy, wish, planned, history>>

CheckOwner(p, t) ==
  /\ Runs(p, t, "check")
  /\ Goto(p, t, IF owner[p] = pidOf[p] THEN "init" ELSE "get")
  /\ UNCHANGED <<process, settings, claim, wish, planned, history>>

FindPool(p, t) ==
  /\ Runs(p, t, "init") /\ poolBy[p] = None
  /\ pool[p] # None
  /\ Goto(p, t, "get")
  /\ UNCHANGED <<process, settings, claim, wish, planned, history>>

BeginPool(p, t) ==
  /\ Runs(p, t, "init") /\ poolBy[p] = None
  /\ pool[p] = None
  /\ poolBy' = [poolBy EXCEPT ![p] = t]
  /\ Goto(p, t, "build")
  /\ UNCHANGED <<process, settings, owner, pool, wish, planned, history>>

(* The initialiser asks for the settings again; build() may fail.          *)
BuildPool(p, t) ==
  /\ Runs(p, t, "build")
  /\ cfg[p] # None
  /\ \E built \in {[home |-> p, workers |-> cfg[p].workers], Failed} :
       pool' = [pool EXCEPT ![p] = built]
  /\ poolBy' = [poolBy EXCEPT ![p] = None]
  /\ Goto(p, t, "get")
  /\ UNCHANGED <<process, settings, owner, wish, planned, history>>

(* Mutant: the owner is not looked at again.                               *)
UsableUnchecked(p) == pool[p] \notin {None, Failed}

(* The pool get_or_init_pool hands out, or None.                           *)
Usable(p) == owner[p] = pidOf[p] /\ pool[p] \notin {None, Failed}

GetPool(p, t) ==
  /\ Runs(p, t, "get")
  /\ Goto(p, t, IF Usable(p) THEN "pooled" ELSE "alone")
  /\ UNCHANGED <<process, settings, claim, wish, planned, history>>

(* pool.install returns when the workers are done; only the process that   *)
(* started them has any.                                                   *)
FinishPooled(p, t) ==
  /\ Runs(p, t, "pooled")
  /\ pool[p].home = p
  /\ planned' = [planned EXCEPT ![<<p, t>>] = 0]
  /\ Goto(p, t, "idle")
  /\ UNCHANGED <<process, settings, claim, wish, history>>

FinishAlone(p, t) ==
  /\ Runs(p, t, "alone")
  /\ planned' = [planned EXCEPT ![<<p, t>>] = 0]
  /\ Goto(p, t, "idle")
  /\ UNCHANGED <<process, settings, claim, wish, history>>

-----------------------------------------------------------------------------
(* Processes.                                                              *)

(* Identifiers are used again once their process has exited.               *)
FreePids == Pid \ {pidOf[q] : q \in live}

(* A thread between two calls forks.  The child gets a copy of the memory  *)
(* and no other thread: an initialiser another thread was in never ends.   *)
Inherited(by) == IF by = None THEN None ELSE Gone

Fork(p, t, child) ==
  /\ Runs(p, t, "idle")
  /\ pidOf[child] = None
  /\ \E pid \in FreePids : pidOf' = [pidOf EXCEPT ![child] = pid]
  /\ live' = live \cup {child}
  /\ cfg' = [cfg EXCEPT ![child] = cfg[p]]
  /\ cfgBy' = [cfgBy EXCEPT ![child] = Inherited(cfgBy[p])]
  /\ owner' = [owner EXCEPT ![child] = owner[p]]
  /\ pool' = [pool EXCEPT ![child] = pool[p]]
  /\ poolBy' = [poolBy EXCEPT ![child] = Inherited(poolBy[p])]
  /\ reports' = [reports EXCEPT ![child] = reports[p]]
  /\ granted' = [granted EXCEPT ![child] = granted[p]]
  /\ UNCHANGED <<pc, wish, planned>>

(* The memory of a process goes with it.                                   *)
Forget(f, p, nothing) == [x \in Proc \X Thread |-> IF x[1] = p THEN nothing ELSE f[x]]

Exit(p) ==
  /\ p \in live
  /\ live' = live \ {p}
  /\ cfg' = [cfg EXCEPT ![p] = None]
  /\ cfgBy' = [cfgBy EXCEPT ![p] = None]
  /\ owner' = [owner EXCEPT ![p] = None]
  /\ pool' = [pool EXCEPT ![p] = None]
  /\ poolBy' = [poolBy EXCEPT ![p] = None]
  /\ pc' = Forget(pc, p, "idle")
  /\ wish' = Forget(wish, p, None)
  /\ planned' = Forget(planned, p, 0)
  /\ reports' = [reports EXCEPT ![p] = {}]
  /\ granted' = [granted EXCEPT ![p] = 0]
  /\ UNCHANGED pidOf

-----------------------------------------------------------------------------

Init ==
  /\ live = {Root}
  /\ \E pid \in Pid : pidOf = [p \in Proc |-> IF p = Root THEN pid ELSE None]
  /\ cfg = [p \in Proc |-> None]
  /\ cfgBy = [p \in Proc |-> None]
  /\ owner = [p \in Proc |-> None]
  /\ pool = [p \in Proc |-> None]
  /\ poolBy = [p \in Proc |-> None]
  /\ pc = [x \in Proc \X Thread |-> "idle"]
  /\ wish = [x \in Proc \X Thread |-> None]
  /\ planned = [x \in Proc \X Thread |-> 0]
  /\ reports = [p \in Proc |-> {}]
  /\ granted = [p \in Proc |-> 0]

(* A step of a call that has begun.                                        *)
Step(p, t) ==
  \/ SetWins(p, t)      \/ SetRefused(p, t)
  \/ BeginConfig(p, t)  \/ ReadEnvironment(p, t)
  \/ Report(p, t)       \/ PlanSingle(p, t)      \/ PlanRayon(p, t)
  \/ Claim(p, t)        \/ CheckOwner(p, t)
  \/ FindPool(p, t)     \/ BeginPool(p, t)       \/ BuildPool(p, t)
  \/ GetPool(p, t)      \/ FinishPooled(p, t)    \/ FinishAlone(p, t)

Next ==
  \/ \E p \in Proc, t \in Thread, options \in Options : Configure(p, t, options)
  \/ \E p \in Proc, t \in Thread : Use(p, t)
  \/ \E p \in Proc, t \in Thread : Step(p, t)
  \/ \E p, child \in Proc, t \in Thread : Fork(p, t, child)
  \/ \E p \in Proc : Exit(p)

Spec == Init /\ [][Next]_vars

(* A thread whose next step can be taken takes it; calls begin, processes  *)
(* fork and exit as they please.                                           *)
FairSpec ==
  Spec /\ \A p \in Proc : \A t \in ThreadsOf(p) : WF_vars(Step(p, t))

-----------------------------------------------------------------------------
(* Properties.                                                             *)

Settings == [disable_mt : BOOLEAN, disable_simd : BOOLEAN, workers : 1 .. LogicalCpus]

Pools == [home : Proc, workers : 1 .. LogicalCpus]

Places == {"idle", "set", "config", "resolve", "claim", "check", "init", "build", "get",
           "pooled", "alone"}

(* What is not there is not mistaken for what is.                          *)
ASSUME NoneApart ==
  /\ None \notin Thread /\ None \notin Settings /\ None \notin Pools /\ None \notin Pid
  /\ Gone \notin Thread /\ Failed \notin Pools

(* The cells hold what the code puts in them, in every process.            *)
TypeOK ==
  /\ live \subseteq Proc
  /\ pidOf \in [Proc -> Pid \cup {None}]
  /\ cfg \in [Proc -> Settings \cup {None}]
  /\ cfgBy \in [Proc -> Thread \cup {None, Gone}]
  /\ owner \in [Proc -> Pid \cup {None}]
  /\ pool \in [Proc -> Pools \cup {None, Failed}]
  /\ poolBy \in [Proc -> Thread \cup {None, Gone}]
  /\ pc \in [Proc \X Thread -> Places]
  /\ wish \in [Proc \X Thread -> Settings \cup {None}]
  /\ planned \in [Proc \X Thread -> 0 .. LogicalCpus]

(* All callers in a process, and in the ancestors it inherits from, are    *)
(* told the same settings, and at most one configure succeeded: when calls *)
(* race, one of them wins (ARCHITECTURE.md section 9; configure_in and     *)
(* runtime_config).                                                        *)
SettingsAgree ==
  \A p \in live : reports[p] \subseteq {cfg[p]} /\ granted[p] <= 1

(* A pool built by this process has the size the settings say and every    *)
(* batch on it was planned for; settings that disable threads never lead   *)
(* to one (pool.rs init_pool, dispatch.rs dispatch_streams_with).          *)
PoolMatchesSettings ==
  \A p \in live : pool[p] \notin {None, Failed} /\ pool[p].home = p =>
    /\ cfg[p] # None /\ ~cfg[p].disable_mt
    /\ pool[p].workers = cfg[p].workers
    /\ \A t \in Thread : Runs(p, t, "pooled") => planned[<<p, t>>] = pool[p].workers

(* A batch enters a pool whose workers run in its own process: no fork, at *)
(* whatever moment of the claim and the construction, leads a child into   *)
(* the pool of its parent.  The one exception is what comparing PIDs       *)
(* cannot tell: the builder has exited and this process was given its PID  *)
(* (pool.rs POOL_OWNER, get_or_init_pool).                                 *)
OwnPoolOnly ==
  \A p \in Proc, t \in Thread : Runs(p, t, "pooled") =>
    LET home == pool[p].home
    IN  home = p \/ (home \notin live /\ pidOf[home] = pidOf[p])

(* No race sets a cell twice in one process: settings, owner and pool are  *)
(* kept, the pool is reused (ARCHITECTURE.md section 7).                   *)
FixedOnce ==
  [][\A p \in live \cap live' :
       /\ cfg[p] # None => cfg'[p] = cfg[p]
       /\ owner[p] # None => owner'[p] = owner[p]
       /\ pool[p] # None => pool'[p] = pool[p]]_vars

(* A call returns unless its process exits: waiting on a cell, building a  *)
(* pool inside which the settings are asked for again, and installing on a *)
(* pool all end, in children forked at any moment too.  Two children are   *)
(* left out: one forked while another thread was resolving the settings,   *)
(* which no thread of it will finish, and one that was given the PID of a  *)
(* process that exited.  A child forked while the pool was being built     *)
(* does not wait for it (pool.rs init_pool, the check of the owner).       *)
PidReused(p) == \E q \in Proc \ {p} : pidOf[q] = pidOf[p]

CallsReturn ==
  \A p \in Proc : \A t \in ThreadsOf(p) :
    pc[<<p, t>>] # "idle" ~>
      pc[<<p, t>>] = "idle" \/ cfgBy[p] = Gone \/ PidReused(p)

=============================================================================
