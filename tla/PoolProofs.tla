----------------------------- MODULE PoolProofs ------------------------------
(***************************************************************************)
(* Proofs for RuntimePool, the settings and the pool of a process, and for *)
(* HashDispatch, the batches of hashes the pool runs: no hypothesis of the *)
(* one is used in the other.                                               *)
(***************************************************************************)
EXTENDS RuntimePool, HashDispatch, ArithLemmas, SequenceTheorems, FiniteSetTheorems, TLAPS


(* Only live processes have calls under way, and they have an identifier.  *)
Alive ==
  \A p \in Proc :
    /\ p \in live => pidOf[p] # None
    /\ \A t \in Thread : pc[<<p, t>>] # "idle" => p \in live

(* A thread inside the initialiser of the settings is the only one there.  *)
Resolving ==
  \A p \in Proc, t \in Thread :
    pc[<<p, t>>] = "resolve" => cfgBy[p] = t /\ cfg[p] = None

Wishing ==
  \A p \in Proc, t \in Thread : pc[<<p, t>>] = "set" => wish[<<p, t>>] # None

(* What a process has told its callers is what its cell holds.             *)
Told ==
  /\ reports \in [Proc -> SUBSET Settings] /\ granted \in [Proc -> {0, 1}]
  /\ \A p \in Proc :
    /\ reports[p] \subseteq {cfg[p]}
    /\ cfg[p] = None => reports[p] = {} /\ granted[p] = 0

(* A batch on its way to the pool was planned with the settings that hold. *)
OnTheWay == {"claim", "check", "init", "build", "get", "pooled"}

Sized ==
  \A p \in Proc, t \in Thread : pc[<<p, t>>] \in OnTheWay =>
    cfg[p] # None /\ ~cfg[p].disable_mt /\ planned[<<p, t>>] = cfg[p].workers

(* A thread inside the initialiser of the pool is the only one there.      *)
Building ==
  \A p \in Proc, t \in Thread :
    pc[<<p, t>>] = "build" => poolBy[p] = t /\ pool[p] = None

(* The owner word of a process that has a pool, its own or an inherited    *)
(* one, names the process that built it.                                   *)
Owned ==
  \A p \in Proc : pool[p] \in Pools =>
    /\ pidOf[pool[p].home] # None
    /\ owner[p] = pidOf[pool[p].home]
    /\ pool[p].home = p =>
         cfg[p] # None /\ ~cfg[p].disable_mt /\ pool[p].workers = cfg[p].workers

Claimed ==
  \A p \in Proc, t \in Thread :
    pc[<<p, t>>] \in {"init", "build"} => owner[p] = pidOf[p]

Entered ==
  \A p \in Proc, t \in Thread :
    pc[<<p, t>>] = "pooled" => owner[p] = pidOf[p] /\ pool[p] \in Pools

(* No two processes that run have the same identifier.                     *)
Distinct == \A p, q \in live : pidOf[p] = pidOf[q] => p = q

IInv ==
  /\ TypeOK /\ Alive /\ Resolving /\ Wishing /\ Told
  /\ Sized /\ Building /\ Owned /\ Claimed /\ Entered /\ Distinct

-----------------------------------------------------------------------------

(* The settings that parse resolves are within the machine.                *)
LEMMA ParseIsSettings ==
  ASSUME NEW options \in Options \cup {NoOptions}, NEW env \in Environments
  PROVE  Parse(options, env) \in Settings
<1>1. LogicalCpus \in Nat \ {0}
  BY ConstantTypes
<1>2. \A n \in Nat \ {0} : Capped(n) \in 1 .. LogicalCpus
  BY <1>1 DEF Capped
<1>3. /\ options.threads \in {None} \cup (Nat \ {0})
      /\ options.allow_simd \in {None} \cup BOOLEAN
      /\ env.threads \in {None} \cup (Nat \ {0})
      /\ env.disable_mt \in BOOLEAN /\ env.disable_simd \in BOOLEAN
  BY ConstantTypes DEF NoOptions
<1>. DEFINE chosen  == IF options.threads # None THEN options.threads ELSE env.threads
            workers == IF chosen # None THEN Capped(chosen) ELSE LogicalCpus
<1>4. workers \in 1 .. LogicalCpus
  BY <1>1, <1>2, <1>3
<1>5. (IF options.allow_simd # None THEN ~options.allow_simd ELSE env.disable_simd) \in BOOLEAN
  BY <1>3
<1>6. (workers < 2 \/ (options.threads = None /\ env.disable_mt)) \in BOOLEAN
  OBVIOUS
<1>. HIDE DEF chosen, workers
<1>7. Parse(options, env) =
       [disable_mt   |-> workers < 2 \/ (options.threads = None /\ env.disable_mt),
        disable_simd |-> IF options.allow_simd # None THEN ~options.allow_simd
                                                      ELSE env.disable_simd,
        workers      |-> workers]
  BY DEF Parse, workers, chosen
<1>. QED
  BY <1>4, <1>5, <1>6, <1>7 DEF Settings

LEMMA InitIInv == Init => IInv
<1>. SUFFICES ASSUME Init PROVE IInv
  OBVIOUS
<1>1. TypeOK
  BY ConstantTypes DEF Init, TypeOK, Places
<1>2. Alive /\ Resolving /\ Wishing /\ Told /\ Sized /\ Building /\ Claimed /\ Entered
  BY NoneApart DEF Init, Alive, Resolving, Wishing, Told, Sized, OnTheWay, Building, Claimed, Entered
<1>3. Owned
  BY NoneApart DEF Init, Owned
<1>4. Distinct
  BY DEF Init, Distinct
<1>. QED
  BY <1>1, <1>2, <1>3, <1>4 DEF IInv

-----------------------------------------------------------------------------
(* One lemma per action: it preserves the invariant.                       *)

(* A batch that goes on towards the pool keeps its plan.                   *)
LEMMA SizedKept ==
  ASSUME TypeOK, Sized, NEW p \in Proc, NEW t \in Thread, NEW place, Goto(p, t, place),
         pc[<<p, t>>] \in OnTheWay, UNCHANGED <<cfg, planned>>
  PROVE  Sized'
<1>1. \A q \in Proc, u \in Thread : pc'[<<q, u>>] \in OnTheWay => pc[<<q, u>>] \in OnTheWay
  <2>. SUFFICES ASSUME NEW q \in Proc, NEW u \in Thread, pc'[<<q, u>>] \in OnTheWay
                PROVE  pc[<<q, u>>] \in OnTheWay
    OBVIOUS
  <2>1. CASE <<q, u>> = <<p, t>>
    BY <2>1
  <2>2. CASE <<q, u>> # <<p, t>>
    BY <2>2 DEF TypeOK, Goto
  <2>. QED
    BY <2>1, <2>2
<1>. QED
  BY <1>1 DEF Sized

LEMMA ConfigureKeeps ==
  ASSUME IInv, NEW p \in Proc, NEW t \in Thread, NEW options \in Options, Configure(p, t, options)
  PROVE  IInv'
<1>. USE NoneApart DEF IInv, Configure, Runs, Goto, process, settings, claim, history
<1>1. TypeOK'
  BY ParseIsSettings, ConstantTypes DEF TypeOK, Places, Settings, Pools
<1>2. Alive'
  BY DEF TypeOK, Alive
<1>3. Resolving'
  BY DEF TypeOK, Resolving
<1>4. Wishing'
  BY ParseIsSettings DEF TypeOK, Wishing
<1>5. Told'
  BY DEF TypeOK, Told, Wishing, Resolving
<1>6. Sized'
  BY DEF TypeOK, Sized, OnTheWay, Resolving
<1>7. Building'
  BY DEF TypeOK, Building
<1>8. Owned'
  BY DEF TypeOK, Owned, Resolving, Sized, OnTheWay, Building, Claimed, Alive, Pools
<1>9. Claimed'
  BY DEF TypeOK, Claimed, Alive
<1>10. Entered'
  BY DEF TypeOK, Places, Entered, Building, Alive
<1>11. Distinct'
  BY DEF TypeOK, Distinct
<1>. QED
  BY <1>1, <1>2, <1>3, <1>4, <1>5, <1>6, <1>7, <1>8, <1>9, <1>10, <1>11

LEMMA SetWinsKeeps ==
  ASSUME IInv, NEW p \in Proc, NEW t \in Thread, SetWins(p, t)
  PROVE  IInv'
<1>. USE NoneApart DEF IInv, SetWins, Runs, Goto, process, settings, claim, history
<1>1. TypeOK'
  BY ConstantTypes DEF TypeOK, Places, Settings, Pools
<1>2. Alive'
  BY DEF TypeOK, Alive
<1>3. Resolving'
  BY DEF TypeOK, Resolving
<1>4. Wishing'
  BY DEF TypeOK, Wishing
<1>5. Told'
  <2>1. wish[<<p, t>>] \in Settings /\ cfg[p] = None
    BY DEF TypeOK, Wishing
  <2>2. reports[p] = {} /\ granted[p] = 0
    BY <2>1 DEF Told
  <2>3. reports' = [reports EXCEPT ![p] = {wish[<<p, t>>]}] /\ granted' = [granted EXCEPT ![p] = 1]
    BY <2>2
  <2>4. reports' \in [Proc -> SUBSET Settings] /\ granted' \in [Proc -> {0, 1}]
    BY <2>1, <2>3 DEF Told
  <2>5. \A q \in Proc :
          cfg'[q] = IF q = p THEN wish[<<p, t>>] ELSE cfg[q]
    BY DEF TypeOK
  <2>7. \A q \in Proc :
          /\ reports'[q] = IF q = p THEN {wish[<<p, t>>]} ELSE reports[q]
          /\ granted'[q] = IF q = p THEN 1 ELSE granted[q]
    BY <2>3 DEF Told
  <2>6. wish[<<p, t>>] # None
    BY <2>1
  <2>. QED
    BY <2>4, <2>5, <2>6, <2>7 DEF Told
<1>6. Sized'
  BY DEF TypeOK, Sized, OnTheWay, Resolving
<1>7. Building'
  BY DEF TypeOK, Building
<1>8. Owned'
  BY DEF TypeOK, Owned, Resolving, Sized, OnTheWay, Building, Claimed, Alive, Pools
<1>9. Claimed'
  BY DEF TypeOK, Claimed, Alive
<1>10. Entered'
  BY DEF TypeOK, Places, Entered, Building, Alive
<1>11. Distinct'
  BY DEF TypeOK, Distinct
<1>. QED
  BY <1>1, <1>2, <1>3, <1>4, <1>5, <1>6, <1>7, <1>8, <1>9, <1>10, <1>11

LEMMA SetRefusedKeeps ==
  ASSUME IInv, NEW p \in Proc, NEW t \in Thread, SetRefused(p, t)
  PROVE  IInv'
<1>. USE NoneApart DEF IInv, SetRefused, Runs, Goto, process, settings, claim, history
<1>1. TypeOK'
  BY ConstantTypes DEF TypeOK, Places, Settings, Pools
<1>2. Alive'
  BY DEF TypeOK, Alive
<1>3. Resolving'
  BY DEF TypeOK, Resolving
<1>4. Wishing'
  BY DEF TypeOK, Wishing
<1>5. Told'
  BY DEF TypeOK, Told, Wishing, Resolving
<1>6. Sized'
  BY DEF TypeOK, Sized, OnTheWay, Resolving
<1>7. Building'
  BY DEF TypeOK, Building
<1>8. Owned'
  BY DEF TypeOK, Owned, Resolving, Sized, OnTheWay, Building, Claimed, Alive, Pools
<1>9. Claimed'
  BY DEF TypeOK, Claimed, Alive
<1>10. Entered'
  BY DEF TypeOK, Places, Entered, Building, Alive
<1>11. Distinct'
  BY DEF TypeOK, Distinct
<1>. QED
  BY <1>1, <1>2, <1>3, <1>4, <1>5, <1>6, <1>7, <1>8, <1>9, <1>10, <1>11

LEMMA UseKeeps ==
  ASSUME IInv, NEW p \in Proc, NEW t \in Thread, Use(p, t)
  PROVE  IInv'
<1>. USE NoneApart DEF IInv, Use, Runs, Goto, process, settings, claim, history
<1>1. TypeOK'
  BY ConstantTypes DEF TypeOK, Places, Settings, Pools
<1>2. Alive'
  BY DEF TypeOK, Alive
<1>3. Resolving'
  BY DEF TypeOK, Resolving
<1>4. Wishing'
  BY DEF TypeOK, Wishing
<1>5. Told'
  BY DEF TypeOK, Told, Wishing, Resolving
<1>6. Sized'
  BY DEF TypeOK, Sized, OnTheWay, Resolving
<1>7. Building'
  BY DEF TypeOK, Building
<1>8. Owned'
  BY DEF TypeOK, Owned, Resolving, Sized, OnTheWay, Building, Claimed, Alive, Pools
<1>9. Claimed'
  BY DEF TypeOK, Claimed, Alive
<1>10. Entered'
  BY DEF TypeOK, Places, Entered, Building, Alive
<1>11. Distinct'
  BY DEF TypeOK, Distinct
<1>. QED
  BY <1>1, <1>2, <1>3, <1>4, <1>5, <1>6, <1>7, <1>8, <1>9, <1>10, <1>11

LEMMA BeginConfigKeeps ==
  ASSUME IInv, NEW p \in Proc, NEW t \in Thread, BeginConfig(p, t)
  PROVE  IInv'
<1>. USE NoneApart DEF IInv, BeginConfig, Runs, Goto, process, settings, claim, history
<1>1. TypeOK'
  BY ConstantTypes DEF TypeOK, Places, Settings, Pools
<1>2. Alive'
  BY DEF TypeOK, Alive
<1>3. Resolving'
  BY DEF TypeOK, Resolving
<1>4. Wishing'
  BY DEF TypeOK, Wishing
<1>5. Told'
  BY DEF TypeOK, Told, Wishing, Resolving
<1>6. Sized'
  BY DEF TypeOK, Sized, OnTheWay, Resolving
<1>7. Building'
  BY DEF TypeOK, Building
<1>8. Owned'
  BY DEF TypeOK, Owned, Resolving, Sized, OnTheWay, Building, Claimed, Alive, Pools
<1>9. Claimed'
  BY DEF TypeOK, Claimed, Alive
<1>10. Entered'
  BY DEF TypeOK, Places, Entered, Building, Alive
<1>11. Distinct'
  BY DEF TypeOK, Distinct
<1>. QED
  BY <1>1, <1>2, <1>3, <1>4, <1>5, <1>6, <1>7, <1>8, <1>9, <1>10, <1>11

LEMMA ReadEnvironmentKeeps ==
  ASSUME IInv, NEW p \in Proc, NEW t \in Thread, ReadEnvironment(p, t)
  PROVE  IInv'
<1>. USE NoneApart DEF IInv, ReadEnvironment, Runs, Goto, process, settings, claim, history
<1>1. TypeOK'
  <2>1. PICK env \in Environments : cfg' = [cfg EXCEPT ![p] = Parse(NoOptions, env)]
    OBVIOUS
  <2>2. Parse(NoOptions, env) \in Settings
    BY ParseIsSettings
  <2>. QED
    BY <2>1, <2>2 DEF TypeOK, Places
<1>2. Alive'
  BY DEF TypeOK, Alive
<1>3. Resolving'
  BY DEF TypeOK, Resolving
<1>4. Wishing'
  BY DEF TypeOK, Wishing
<1>5. Told'
  BY DEF TypeOK, Told, Wishing, Resolving
<1>6. Sized'
  BY DEF TypeOK, Sized, OnTheWay, Resolving
<1>7. Building'
  BY DEF TypeOK, Building
<1>8. Owned'
  BY DEF TypeOK, Owned, Resolving, Sized, OnTheWay, Building, Claimed, Alive, Pools
<1>9. Claimed'
  BY DEF TypeOK, Claimed, Alive
<1>10. Entered'
  BY DEF TypeOK, Places, Entered, Building, Alive
<1>11. Distinct'
  BY DEF TypeOK, Distinct
<1>. QED
  BY <1>1, <1>2, <1>3, <1>4, <1>5, <1>6, <1>7, <1>8, <1>9, <1>10, <1>11

LEMMA ReportKeeps ==
  ASSUME IInv, NEW p \in Proc, NEW t \in Thread, Report(p, t)
  PROVE  IInv'
<1>. USE NoneApart DEF IInv, Report, Runs, Goto, process, settings, claim, history
<1>1. TypeOK'
  BY ConstantTypes DEF TypeOK, Places, Settings, Pools
<1>2. Alive'
  BY DEF TypeOK, Alive
<1>3. Resolving'
  BY DEF TypeOK, Resolving
<1>4. Wishing'
  BY DEF TypeOK, Wishing
<1>5. Told'
  BY DEF TypeOK, Told, Wishing, Resolving
<1>6. Sized'
  BY DEF TypeOK, Sized, OnTheWay, Resolving
<1>7. Building'
  BY DEF TypeOK, Building
<1>8. Owned'
  BY DEF TypeOK, Owned, Resolving, Sized, OnTheWay, Building, Claimed, Alive, Pools
<1>9. Claimed'
  BY DEF TypeOK, Claimed, Alive
<1>10. Entered'
  BY DEF TypeOK, Places, Entered, Building, Alive
<1>11. Distinct'
  BY DEF TypeOK, Distinct
<1>. QED
  BY <1>1, <1>2, <1>3, <1>4, <1>5, <1>6, <1>7, <1>8, <1>9, <1>10, <1>11

LEMMA PlanSingleKeeps ==
  ASSUME IInv, NEW p \in Proc, NEW t \in Thread, PlanSingle(p, t)
  PROVE  IInv'
<1>. USE NoneApart DEF IInv, PlanSingle, Runs, Goto, process, settings, claim, history
<1>1. TypeOK'
  BY ConstantTypes DEF TypeOK, Places, Settings, Pools
<1>2. Alive'
  BY DEF TypeOK, Alive
<1>3. Resolving'
  BY DEF TypeOK, Resolving
<1>4. Wishing'
  BY DEF TypeOK, Wishing
<1>5. Told'
  BY DEF TypeOK, Told, Wishing, Resolving
<1>6. Sized'
  BY DEF TypeOK, Sized, OnTheWay, Resolving
<1>7. Building'
  BY DEF TypeOK, Building
<1>8. Owned'
  BY DEF TypeOK, Owned, Resolving, Sized, OnTheWay, Building, Claimed, Alive, Pools
<1>9. Claimed'
  BY DEF TypeOK, Claimed, Alive
<1>10. Entered'
  BY DEF TypeOK, Places, Entered, Building, Alive
<1>11. Distinct'
  BY DEF TypeOK, Distinct
<1>. QED
  BY <1>1, <1>2, <1>3, <1>4, <1>5, <1>6, <1>7, <1>8, <1>9, <1>10, <1>11

LEMMA PlanRayonKeeps ==
  ASSUME IInv, NEW p \in Proc, NEW t \in Thread, PlanRayon(p, t)
  PROVE  IInv'
<1>. USE NoneApart DEF IInv, PlanRayon, Runs, Goto, process, settings, claim, history
<1>1. TypeOK'
  BY ConstantTypes DEF TypeOK, Places, Settings, Pools
<1>2. Alive'
  BY DEF TypeOK, Alive
<1>3. Resolving'
  BY DEF TypeOK, Resolving
<1>4. Wishing'
  BY DEF TypeOK, Wishing
<1>5. Told'
  BY DEF TypeOK, Told, Wishing, Resolving
<1>6. Sized'
  BY DEF TypeOK, Sized, OnTheWay, Resolving
<1>7. Building'
  BY DEF TypeOK, Building
<1>8. Owned'
  BY DEF TypeOK, Owned, Resolving, Sized, OnTheWay, Building, Claimed, Alive, Pools
<1>9. Claimed'
  BY DEF TypeOK, Claimed, Alive
<1>10. Entered'
  BY DEF TypeOK, Places, Entered, Building, Alive
<1>11. Distinct'
  BY DEF TypeOK, Distinct
<1>. QED
  BY <1>1, <1>2, <1>3, <1>4, <1>5, <1>6, <1>7, <1>8, <1>9, <1>10, <1>11

LEMMA ClaimKeeps ==
  ASSUME IInv, NEW p \in Proc, NEW t \in Thread, Claim(p, t)
  PROVE  IInv'
<1>. USE NoneApart DEF IInv, Claim, Runs, Goto, process, settings, claim, history
<1>1. TypeOK'
  BY ConstantTypes DEF TypeOK, Places, Settings, Pools
<1>2. Alive'
  BY DEF TypeOK, Alive
<1>3. Resolving'
  BY DEF TypeOK, Resolving
<1>4. Wishing'
  BY DEF TypeOK, Wishing
<1>5. Told'
  BY DEF TypeOK, Told, Wishing, Resolving
<1>6. Sized'
  <2>1. pc[<<p, t>>] \in OnTheWay
    BY DEF OnTheWay
  <2>. QED
    BY <2>1, SizedKept
<1>7. Building'
  BY DEF TypeOK, Building
<1>8. Owned'
  BY DEF TypeOK, Owned, Resolving, Sized, OnTheWay, Building, Claimed, Alive, Pools
<1>9. Claimed'
  BY DEF TypeOK, Claimed, Alive
<1>10. Entered'
  BY DEF TypeOK, Places, Entered, Building, Alive
<1>11. Distinct'
  BY DEF TypeOK, Distinct
<1>. QED
  BY <1>1, <1>2, <1>3, <1>4, <1>5, <1>6, <1>7, <1>8, <1>9, <1>10, <1>11

LEMMA CheckOwnerKeeps ==
  ASSUME IInv, NEW p \in Proc, NEW t \in Thread, CheckOwner(p, t)
  PROVE  IInv'
<1>. USE NoneApart DEF IInv, CheckOwner, Runs, Goto, process, settings, claim, history
<1>1. TypeOK'
  BY ConstantTypes DEF TypeOK, Places, Settings, Pools
<1>2. Alive'
  BY DEF TypeOK, Alive
<1>3. Resolving'
  BY DEF TypeOK, Resolving
<1>4. Wishing'
  BY DEF TypeOK, Wishing
<1>5. Told'
  BY DEF TypeOK, Told, Wishing, Resolving
<1>6. Sized'
  <2>1. pc[<<p, t>>] \in OnTheWay
    BY DEF OnTheWay
  <2>. QED
    BY <2>1, SizedKept
<1>7. Building'
  BY DEF TypeOK, Building
<1>8. Owned'
  BY DEF TypeOK, Owned, Resolving, Sized, OnTheWay, Building, Claimed, Alive, Pools
<1>9. Claimed'
  BY DEF TypeOK, Claimed, Alive
<1>10. Entered'
  BY DEF TypeOK, Places, Entered, Building, Alive
<1>11. Distinct'
  BY DEF TypeOK, Distinct
<1>. QED
  BY <1>1, <1>2, <1>3, <1>4, <1>5, <1>6, <1>7, <1>8, <1>9, <1>10, <1>11

LEMMA FindPoolKeeps ==
  ASSUME IInv, NEW p \in Proc, NEW t \in Thread, FindPool(p, t)
  PROVE  IInv'
<1>. USE NoneApart DEF IInv, FindPool, Runs, Goto, process, settings, claim, history
<1>1. TypeOK'
  BY ConstantTypes DEF TypeOK, Places, Settings, Pools
<1>2. Alive'
  BY DEF TypeOK, Alive
<1>3. Resolving'
  BY DEF TypeOK, Resolving
<1>4. Wishing'
  BY DEF TypeOK, Wishing
<1>5. Told'
  BY DEF TypeOK, Told, Wishing, Resolving
<1>6. Sized'
  <2>1. pc[<<p, t>>] \in OnTheWay
    BY DEF OnTheWay
  <2>. QED
    BY <2>1, SizedKept
<1>7. Building'
  BY DEF TypeOK, Building
<1>8. Owned'
  BY DEF TypeOK, Owned, Resolving, Sized, OnTheWay, Building, Claimed, Alive, Pools
<1>9. Claimed'
  BY DEF TypeOK, Claimed, Alive
<1>10. Entered'
  BY DEF TypeOK, Places, Entered, Building, Alive
<1>11. Distinct'
  BY DEF TypeOK, Distinct
<1>. QED
  BY <1>1, <1>2, <1>3, <1>4, <1>5, <1>6, <1>7, <1>8, <1>9, <1>10, <1>11

LEMMA BeginPoolKeeps ==
  ASSUME IInv, NEW p \in Proc, NEW t \in Thread, BeginPool(p, t)
  PROVE  IInv'
<1>. USE NoneApart DEF IInv, BeginPool, Runs, Goto, process, settings, claim, history
<1>1. TypeOK'
  BY ConstantTypes DEF TypeOK, Places, Settings, Pools
<1>2. Alive'
  BY DEF TypeOK, Alive
<1>3. Resolving'
  BY DEF TypeOK, Resolving
<1>4. Wishing'
  BY DEF TypeOK, Wishing
<1>5. Told'
  BY DEF TypeOK, Told, Wishing, Resolving
<1>6. Sized'
  <2>1. pc[<<p, t>>] \in OnTheWay
    BY DEF OnTheWay
  <2>. QED
    BY <2>1, SizedKept
<1>7. Building'
  BY DEF TypeOK, Building
<1>8. Owned'
  BY DEF TypeOK, Owned, Resolving, Sized, OnTheWay, Building, Claimed, Alive, Pools
<1>9. Claimed'
  BY DEF TypeOK, Claimed, Alive
<1>10. Entered'
  BY DEF TypeOK, Places, Entered, Building, Alive
<1>11. Distinct'
  BY DEF TypeOK, Distinct
<1>. QED
  BY <1>1, <1>2, <1>3, <1>4, <1>5, <1>6, <1>7, <1>8, <1>9, <1>10, <1>11

LEMMA BuildPoolKeeps ==
  ASSUME IInv, NEW p \in Proc, NEW t \in Thread, BuildPool(p, t)
  PROVE  IInv'
<1>. USE NoneApart DEF IInv, BuildPool, Runs, Goto, process, settings, claim, history
<1>1. TypeOK'
  BY ConstantTypes DEF TypeOK, Places, Settings, Pools
<1>2. Alive'
  BY DEF TypeOK, Alive
<1>3. Resolving'
  BY DEF TypeOK, Resolving
<1>4. Wishing'
  BY DEF TypeOK, Wishing
<1>5. Told'
  BY DEF TypeOK, Told, Wishing, Resolving
<1>6. Sized'
  <2>1. pc[<<p, t>>] \in OnTheWay
    BY DEF OnTheWay
  <2>. QED
    BY <2>1, SizedKept
<1>7. Building'
  BY DEF TypeOK, Building
<1>8. Owned'
  BY DEF TypeOK, Owned, Resolving, Sized, OnTheWay, Building, Claimed, Alive, Pools
<1>9. Claimed'
  BY DEF TypeOK, Claimed, Alive
<1>10. Entered'
  BY DEF TypeOK, Places, Entered, Building, Alive
<1>11. Distinct'
  BY DEF TypeOK, Distinct
<1>. QED
  BY <1>1, <1>2, <1>3, <1>4, <1>5, <1>6, <1>7, <1>8, <1>9, <1>10, <1>11

LEMMA GetPoolKeeps ==
  ASSUME IInv, NEW p \in Proc, NEW t \in Thread, GetPool(p, t)
  PROVE  IInv'
<1>. USE NoneApart DEF IInv, GetPool, Runs, Goto, process, settings, claim, history
<1>1. TypeOK'
  BY ConstantTypes DEF TypeOK, Places, Settings, Pools
<1>2. Alive'
  BY DEF TypeOK, Alive
<1>3. Resolving'
  BY DEF TypeOK, Resolving
<1>4. Wishing'
  BY DEF TypeOK, Wishing
<1>5. Told'
  BY DEF TypeOK, Told, Wishing, Resolving
<1>6. Sized'
  <2>1. pc[<<p, t>>] \in OnTheWay
    BY DEF OnTheWay
  <2>. QED
    BY <2>1, SizedKept
<1>7. Building'
  BY DEF TypeOK, Building
<1>8. Owned'
  BY DEF TypeOK, Owned, Resolving, Sized, OnTheWay, Building, Claimed, Alive, Pools
<1>9. Claimed'
  BY DEF TypeOK, Claimed, Alive
<1>10. Entered'
  BY DEF TypeOK, Places, Entered, Building, Alive, Usable
<1>11. Distinct'
  BY DEF TypeOK, Distinct
<1>. QED
  BY <1>1, <1>2, <1>3, <1>4, <1>5, <1>6, <1>7, <1>8, <1>9, <1>10, <1>11

LEMMA FinishPooledKeeps ==
  ASSUME IInv, NEW p \in Proc, NEW t \in Thread, FinishPooled(p, t)
  PROVE  IInv'
<1>. USE NoneApart DEF IInv, FinishPooled, Runs, Goto, process, settings, claim, history
<1>1. TypeOK'
  BY ConstantTypes DEF TypeOK, Places, Settings, Pools
<1>2. Alive'
  BY DEF TypeOK, Alive
<1>3. Resolving'
  BY DEF TypeOK, Resolving
<1>4. Wishing'
  BY DEF TypeOK, Wishing
<1>5. Told'
  BY DEF TypeOK, Told, Wishing, Resolving
<1>6. Sized'
  BY DEF TypeOK, Sized, OnTheWay, Resolving
<1>7. Building'
  BY DEF TypeOK, Building
<1>8. Owned'
  BY DEF TypeOK, Owned, Resolving, Sized, OnTheWay, Building, Claimed, Alive, Pools
<1>9. Claimed'
  BY DEF TypeOK, Claimed, Alive
<1>10. Entered'
  BY DEF TypeOK, Places, Entered, Building, Alive
<1>11. Distinct'
  BY DEF TypeOK, Distinct
<1>. QED
  BY <1>1, <1>2, <1>3, <1>4, <1>5, <1>6, <1>7, <1>8, <1>9, <1>10, <1>11

LEMMA FinishAloneKeeps ==
  ASSUME IInv, NEW p \in Proc, NEW t \in Thread, FinishAlone(p, t)
  PROVE  IInv'
<1>. USE NoneApart DEF IInv, FinishAlone, Runs, Goto, process, settings, claim, history
<1>1. TypeOK'
  BY ConstantTypes DEF TypeOK, Places, Settings, Pools
<1>2. Alive'
  BY DEF TypeOK, Alive
<1>3. Resolving'
  BY DEF TypeOK, Resolving
<1>4. Wishing'
  BY DEF TypeOK, Wishing
<1>5. Told'
  BY DEF TypeOK, Told, Wishing, Resolving
<1>6. Sized'
  BY DEF TypeOK, Sized, OnTheWay, Resolving
<1>7. Building'
  BY DEF TypeOK, Building
<1>8. Owned'
  BY DEF TypeOK, Owned, Resolving, Sized, OnTheWay, Building, Claimed, Alive, Pools
<1>9. Claimed'
  BY DEF TypeOK, Claimed, Alive
<1>10. Entered'
  BY DEF TypeOK, Places, Entered, Building, Alive
<1>11. Distinct'
  BY DEF TypeOK, Distinct
<1>. QED
  BY <1>1, <1>2, <1>3, <1>4, <1>5, <1>6, <1>7, <1>8, <1>9, <1>10, <1>11

(* A child was never live before, and takes the cells of its parent over.  *)
LEMMA ForkKeeps ==
  ASSUME IInv, NEW p \in Proc, NEW t \in Thread, NEW child \in Proc, Fork(p, t, child)
  PROVE  IInv'
<1>. USE NoneApart DEF IInv, Fork, Runs
<1>0. /\ p \in live /\ child # p /\ child \notin live
      /\ \A u \in Thread : pc[<<child, u>>] = "idle"
      /\ pc' = pc /\ wish' = wish /\ planned' = planned
  BY DEF Alive
<1>1. TypeOK'
  BY <1>0 DEF TypeOK, FreePids, Inherited
<1>2. Alive'
  BY <1>0 DEF TypeOK, Alive, FreePids
<1>3. Resolving'
  BY <1>0 DEF TypeOK, Resolving
<1>4. Wishing'
  BY <1>0 DEF Wishing
<1>5. Told'
  BY <1>0 DEF TypeOK, Told
<1>6. Sized'
  BY <1>0 DEF TypeOK, Sized, OnTheWay
<1>7. Building'
  BY <1>0 DEF TypeOK, Building
<1>8. Owned'
  BY <1>0 DEF TypeOK, Owned, Pools
<1>9. Claimed'
  BY <1>0 DEF TypeOK, Claimed
<1>10. Entered'
  BY <1>0 DEF TypeOK, Entered
<1>11. Distinct'
  BY <1>0 DEF TypeOK, Distinct, FreePids
<1>. QED
  BY <1>1, <1>2, <1>3, <1>4, <1>5, <1>6, <1>7, <1>8, <1>9, <1>10, <1>11

LEMMA ExitKeeps ==
  ASSUME IInv, NEW p \in Proc, Exit(p)
  PROVE  IInv'
<1>. USE NoneApart DEF IInv, Exit
<1>0. /\ \A q \in Proc, u \in Thread :
           pc'[<<q, u>>] = IF q = p THEN "idle" ELSE pc[<<q, u>>]
      /\ \A q \in Proc, u \in Thread :
           wish'[<<q, u>>] = IF q = p THEN None ELSE wish[<<q, u>>]
      /\ \A q \in Proc, u \in Thread :
           planned'[<<q, u>>] = IF q = p THEN 0 ELSE planned[<<q, u>>]
  BY DEF Forget
<1>1. TypeOK'
  <2>1. pc' \in [Proc \X Thread -> Places]
    BY DEF TypeOK, Forget, Places
  <2>2. wish' \in [Proc \X Thread -> Settings \cup {None}]
    BY DEF TypeOK, Forget
  <2>3. planned' \in [Proc \X Thread -> 0 .. LogicalCpus]
    BY ConstantTypes DEF TypeOK, Forget
  <2>. QED
    BY <2>1, <2>2, <2>3 DEF TypeOK
<1>2. Alive'
  BY <1>0 DEF TypeOK, Alive
<1>3. Resolving'
  BY <1>0 DEF TypeOK, Resolving
<1>4. Wishing'
  BY <1>0 DEF Wishing
<1>5. Told'
  BY <1>0 DEF TypeOK, Told
<1>6. Sized'
  BY <1>0 DEF TypeOK, Sized, OnTheWay
<1>7. Building'
  BY <1>0 DEF TypeOK, Building
<1>8. Owned'
  BY <1>0 DEF TypeOK, Owned, Pools
<1>9. Claimed'
  BY <1>0 DEF TypeOK, Claimed
<1>10. Entered'
  BY <1>0 DEF TypeOK, Entered
<1>11. Distinct'
  BY <1>0 DEF TypeOK, Distinct
<1>. QED
  BY <1>1, <1>2, <1>3, <1>4, <1>5, <1>6, <1>7, <1>8, <1>9, <1>10, <1>11

LEMMA StutterKeeps == ASSUME IInv, UNCHANGED vars PROVE IInv'
BY DEF IInv, vars, process, settings, claim, history, TypeOK, Alive, Resolving, Wishing, Told,
       Sized, Building, Owned, Claimed, Entered, Distinct

LEMMA NextKeeps == ASSUME IInv, [Next]_vars PROVE IInv'
<1>1. ASSUME NEW p \in Proc, NEW t \in Thread, Step(p, t) PROVE IInv'
  BY <1>1, SetWinsKeeps, SetRefusedKeeps, BeginConfigKeeps, ReadEnvironmentKeeps, ReportKeeps,
     PlanSingleKeeps, PlanRayonKeeps, ClaimKeeps, CheckOwnerKeeps, FindPoolKeeps, BeginPoolKeeps,
     BuildPoolKeeps, GetPoolKeeps, FinishPooledKeeps, FinishAloneKeeps DEF Step
<1>. QED
  BY <1>1, ConfigureKeeps, UseKeeps, ForkKeeps, ExitKeeps, StutterKeeps DEF Next

-----------------------------------------------------------------------------
(* Theorems.                                                               *)

(* Every reachable state satisfies the inductive invariant: who is inside  *)
(* an initialiser, what callers were told, and whom the owner word names.  *)
THEOREM Invariance == Spec => []IInv
<1>1. Init => IInv
  BY InitIInv
<1>2. IInv /\ [Next]_vars => IInv'
  BY NextKeeps
<1>. QED
  BY <1>1, <1>2, PTL DEF Spec

(* TypeOK: the cells of config.rs and pool.rs hold what the code puts in   *)
(* them, in every process.                                                 *)
THEOREM TypeCorrect == Spec => []TypeOK
<1>1. IInv => TypeOK
  BY DEF IInv
<1>. QED
  BY <1>1, Invariance, PTL

(* SettingsAgree: however configure and the first use race (config.rs      *)
(* configure_in, config_in), all callers are told the same settings and at *)
(* most one configure succeeds.                                            *)
THEOREM CallersAgree == Spec => []SettingsAgree
<1>1. IInv => SettingsAgree
  <2>. SUFFICES ASSUME IInv, NEW p \in live
                PROVE  reports[p] \subseteq {cfg[p]} /\ granted[p] <= 1
    BY DEF SettingsAgree
  <2>1. p \in Proc /\ granted[p] \in {0, 1}
    BY DEF IInv, TypeOK, Told
  <2>. QED
    BY <2>1 DEF IInv, Told
<1>. QED
  BY <1>1, Invariance, PTL

(* PoolMatchesSettings: a pool has the size of the settings that hold, and *)
(* of the plan of every batch on it (pool.rs init_pool).                   *)
THEOREM PoolOfItsSettings == Spec => []PoolMatchesSettings
<1>1. IInv => PoolMatchesSettings
  <2>. SUFFICES ASSUME IInv, NEW p \in live, pool[p] \notin {None, Failed}, pool[p].home = p
                PROVE  /\ cfg[p] # None /\ ~cfg[p].disable_mt
                       /\ pool[p].workers = cfg[p].workers
                       /\ \A t \in Thread :
                            Runs(p, t, "pooled") => planned[<<p, t>>] = pool[p].workers
    BY DEF PoolMatchesSettings
  <2>1. p \in Proc /\ pool[p] \in Pools
    BY DEF IInv, TypeOK
  <2>2. cfg[p] # None /\ ~cfg[p].disable_mt /\ pool[p].workers = cfg[p].workers
    BY <2>1 DEF IInv, Owned
  <2>3. \A t \in Thread : Runs(p, t, "pooled") => planned[<<p, t>>] = cfg[p].workers
    BY <2>1 DEF IInv, Sized, OnTheWay, Runs
  <2>. QED
    BY <2>2, <2>3
<1>. QED
  BY <1>1, Invariance, PTL

(* OwnPoolOnly: a batch only enters a pool that its own process built, or  *)
(* one whose builder has exited and left it its PID (pool.rs POOL_OWNER),  *)
(* however forks and exits fall between the steps of its construction.     *)
THEOREM OwnPool == Spec => []OwnPoolOnly
<1>1. IInv => OwnPoolOnly
  <2>. SUFFICES ASSUME IInv, NEW p \in Proc, NEW t \in Thread, Runs(p, t, "pooled"),
                       pool[p].home # p
                PROVE  pool[p].home \notin live /\ pidOf[pool[p].home] = pidOf[p]
    BY DEF OwnPoolOnly
  <2>1. owner[p] = pidOf[p] /\ pool[p] \in Pools
    BY DEF IInv, Entered, Runs
  <2>2. pidOf[pool[p].home] = pidOf[p]
    BY <2>1 DEF IInv, Owned
  <2>. QED
    BY <2>2 DEF IInv, Distinct, Runs
<1>. QED
  BY <1>1, Invariance, PTL

(* What FixedOnce says of one process and one step.                        *)
Kept(q) ==
  /\ cfg[q] # None => cfg'[q] = cfg[q]
  /\ owner[q] # None => owner'[q] = owner[q]
  /\ pool[q] # None => pool'[q] = pool[q]

LEMMA StepKeepsCells ==
  ASSUME IInv, NEW p \in Proc, NEW t \in Thread, Step(p, t), NEW q \in Proc
  PROVE  Kept(q)
<1>. USE DEF Runs, Kept, settings, claim
<1>1. CASE SetWins(p, t)
  BY <1>1 DEF SetWins, IInv, TypeOK
<1>2. CASE ReadEnvironment(p, t)
  BY <1>2 DEF ReadEnvironment, IInv, TypeOK, Resolving
<1>3. CASE Claim(p, t)
  BY <1>3 DEF Claim, IInv, TypeOK
<1>4. CASE BuildPool(p, t)
  BY <1>4 DEF BuildPool, IInv, TypeOK, Building
<1>5. CASE UNCHANGED <<cfg, owner, pool>>
  BY <1>5
<1>6. \/ SetWins(p, t) \/ ReadEnvironment(p, t) \/ Claim(p, t) \/ BuildPool(p, t)
      \/ UNCHANGED <<cfg, owner, pool>>
  BY DEF Step, SetRefused, BeginConfig, Report, PlanSingle, PlanRayon, CheckOwner, FindPool,
         BeginPool, GetPool, FinishPooled, FinishAlone
<1>. QED
  BY <1>1, <1>2, <1>3, <1>4, <1>5, <1>6

(* FixedOnce: whatever races, a process sets its settings, its owner word  *)
(* and its pool once (config.rs RUNTIME_CONFIG, pool.rs RAYON_POOL and     *)
(* POOL_OWNER).                                                            *)
THEOREM CellsFixed == Spec => FixedOnce
<1>1. ASSUME IInv, [Next]_vars, NEW q \in live \cap live' PROVE Kept(q)
  <2>0. q \in Proc
    BY <1>1 DEF IInv, TypeOK
  <2>1. CASE \E p \in Proc, t \in Thread : Step(p, t)
    BY <1>1, <2>0, <2>1, StepKeepsCells
  <2>2. CASE \E p, child \in Proc, t \in Thread : Fork(p, t, child)
    <3>1. PICK p \in Proc, child \in Proc, t \in Thread : Fork(p, t, child)
      BY <2>2
    <3>2. child # q
      BY <1>1, <3>1 DEF Fork, IInv, Alive
    <3>. QED
      BY <1>1, <2>0, <3>1, <3>2 DEF Fork, Kept, IInv, TypeOK
  <2>3. CASE \E p \in Proc : Exit(p)
    <3>1. PICK p \in Proc : Exit(p)
      BY <2>3
    <3>2. p # q
      BY <1>1, <3>1 DEF Exit
    <3>. QED
      BY <1>1, <2>0, <3>1, <3>2 DEF Exit, Kept, IInv, TypeOK
  <2>4. CASE UNCHANGED <<cfg, owner, pool>>
    BY <2>4 DEF Kept
  <2>5. \/ \E p \in Proc, t \in Thread : Step(p, t)
        \/ \E p, child \in Proc, t \in Thread : Fork(p, t, child)
        \/ \E p \in Proc : Exit(p)
        \/ UNCHANGED <<cfg, owner, pool>>
    BY <1>1 DEF Next, Configure, Use, vars, settings, claim
  <2>. QED
    BY <2>1, <2>2, <2>3, <2>4, <2>5
<1>2. IInv /\ [Next]_vars =>
        [\A p \in live \cap live' :
           /\ cfg[p] # None => cfg'[p] = cfg[p]
           /\ owner[p] # None => owner'[p] = owner[p]
           /\ pool[p] # None => pool'[p] = pool[p]]_vars
  BY <1>1 DEF Kept
<1>. QED
  BY <1>2, Invariance, PTL DEF Spec, FixedOnce

-----------------------------------------------------------------------------
(* Batches of hashes.                                                      *)


-----------------------------------------------------------------------------
(* Sequences cut and joined.                                               *)

LEMMA DivCeilIs ==
  ASSUME NEW a \in Nat, NEW b \in Nat \ {0}
  PROVE  /\ DivCeil(a, b) \in Nat
         /\ DivCeil(a, b) * b >= a
         /\ a = 0 => DivCeil(a, b) = 0
         /\ a > 0 => DivCeil(a, b) >= 1 /\ (DivCeil(a, b) - 1) * b < a
         /\ \A c \in 1 .. DivCeil(a, b) : (c - 1) * b < a
<1> DEFINE q == DivCeil(a, b)
           r == (a + b - 1) % b
<1>1. a + b - 1 \in Nat
  OBVIOUS
<1>2. q \in Nat /\ r \in 0 .. b-1 /\ a + b - 1 = b * q + r
  <2> DEFINE x == a + b - 1
  <2>1. x \in Nat
    BY <1>1
  <2> HIDE DEF x
  <2>2. x \div b \in Nat /\ x % b \in 0 .. b-1 /\ x = b * (x \div b) + (x % b)
    BY <2>1, DivMod
  <2> QED BY <2>2 DEF DivCeil, x
<1> HIDE DEF r
<1>3. DivCeil(a, b) = q
  OBVIOUS
<1> HIDE DEF q
<1>4. \A c \in Nat : b * c = c * b
  OBVIOUS
<1> DEFINE t == q * b
<1>5. t \in Nat /\ a + b - 1 = t + r
  BY <1>2
<1>6. (q - 1) * b = t - b
  BY <1>2
<1>7. ASSUME a = 0
      PROVE  q = 0
  <2>1. SUFFICES ASSUME q >= 1 PROVE FALSE
    BY <1>2
  <2>2. (q - 1) * b \in Nat
    <3>1. q - 1 \in Nat
      BY <1>2, <2>1
    <3> QED BY <3>1
  <2> HIDE DEF t
  <2> QED BY <1>2, <1>5, <1>6, <1>7, <2>2
<1>8. ASSUME a > 0
      PROVE  q >= 1
  <2>1. SUFFICES ASSUME q = 0 PROVE FALSE
    BY <1>2
  <2>2. t = 0
    BY <2>1
  <2> HIDE DEF t
  <2> QED BY <1>2, <1>5, <1>8, <2>2
<1>9. t - b < a
  <2> HIDE DEF t
  <2> QED BY <1>2, <1>5
<1>10. ASSUME NEW c \in 1 .. q
       PROVE  (c - 1) * b < a
  <2>1. (q - c) \in Nat
    BY <1>2
  <2>2. (q - c) * b \in Nat
    BY <2>1
  <2>3. (c - 1) * b = t - b - (q - c) * b
    BY <1>2
  <2>4. (c - 1) * b \in Int
    BY <1>2
  <2> HIDE DEF t
  <2> QED BY <1>5, <1>9, <2>2, <2>3
<1>11. t >= a
  <2> HIDE DEF t
  <2> QED BY <1>2, <1>5
<1> QED BY <1>2, <1>3, <1>6, <1>7, <1>8, <1>9, <1>10, <1>11

(* A cut sequence: the pieces are whole but the last one, which has at     *)
(* least an element, and have the elements in their order.                 *)
LEMMA CutBounds ==
  ASSUME NEW n \in Nat, NEW k \in Nat \ {0}, NEW c \in 1 .. DivCeil(n, k)
  PROVE  /\ (c - 1) * k \in Nat /\ Lesser(c * k, n) \in Nat /\ Lesser(c * k, n) <= n
         /\ Lesser(c * k, n) - (c - 1) * k \in 1 .. k
         /\ c * k <= n => Lesser(c * k, n) - (c - 1) * k = k
<1> DEFINE a == (c - 1) * k
<1>1. DivCeil(n, k) \in Nat /\ a < n
  BY DivCeilIs
<1>2. c - 1 \in Nat
  BY <1>1
<1>3. a \in Nat
  BY <1>2
<1>4. c * k = a + k
  BY <1>1
<1> HIDE DEF a
<1> QED BY <1>1, <1>3, <1>4 DEF Lesser, a

LEMMA CutLen ==
  ASSUME NEW T, NEW s \in Seq(T), NEW k \in Nat \ {0}
  PROVE  /\ Len(s) \in Nat /\ DivCeil(Len(s), k) \in Nat
         /\ DOMAIN Cut(s, k) = 1 .. DivCeil(Len(s), k)
         /\ Cut(s, k) = [c \in 1 .. DivCeil(Len(s), k) |-> Cut(s, k)[c]]
<1>1. Len(s) \in Nat
  OBVIOUS
<1>2. DivCeil(Len(s), k) \in Nat
  BY <1>1, DivCeilIs
<1> QED BY <1>1, <1>2 DEF Cut

IsPiece(piece, s, k, c) ==
  /\ Len(piece) = Lesser(c * k, Len(s)) - (c - 1) * k
  /\ \A j \in 1 .. Len(piece), x \in Int :
       x = (c - 1) * k + j => x \in 1 .. Len(s) /\ piece[j] = s[x]

LEMMA CutPiece ==
  ASSUME NEW T, NEW s \in Seq(T), NEW k \in Nat \ {0}, NEW c \in 1 .. DivCeil(Len(s), k)
  PROVE  Cut(s, k)[c] \in Seq(T) /\ IsPiece(Cut(s, k)[c], s, k, c)
<1> DEFINE n == Len(s)
           a == (c - 1) * k
           e == Lesser(c * k, n)
           piece == SubSeq(s, a + 1, e)
<1>1. n \in Nat /\ DOMAIN s = 1 .. n /\ \A i \in 1 .. n : s[i] \in T
  OBVIOUS
<1>2. a \in Nat /\ e \in Nat /\ e <= n /\ e - a \in 1 .. k
  <2> HIDE DEF n
  <2>1. c \in 1 .. DivCeil(n, k)
    BY DEF n
  <2> QED BY <1>1, <2>1, CutBounds
<1>3. Cut(s, k)[c] = piece
  BY DEF Cut
<1> HIDE DEF n, a, e
<1>4. \A i \in a + 1 .. e : s[i] \in T
  BY <1>1, <1>2
<1>5. /\ piece \in Seq(T)
      /\ Len(piece) = IF a + 1 <= e THEN e - (a + 1) + 1 ELSE 0
      /\ \A i \in 1 .. e - (a + 1) + 1 : piece[i] = s[(a + 1) + i - 1]
  <2>1. a + 1 \in Int /\ e \in Int
    BY <1>2
  <2> QED BY <1>4, <2>1, SubSeqProperties
<1> HIDE DEF piece
<1>6. Len(piece) = e - a
  BY <1>2, <1>5
<1>7. ASSUME NEW j \in 1 .. Len(piece), NEW x \in Int, x = a + j
      PROVE  x \in 1 .. n /\ piece[j] = s[x]
  <2>1. j \in 1 .. e - (a + 1) + 1 /\ (a + 1) + j - 1 = x
    BY <1>2, <1>6, <1>7
  <2>2. piece[j] = s[(a + 1) + j - 1]
    BY <1>5, <2>1
  <2>3. x \in 1 .. n
    BY <1>1, <1>2, <1>6, <1>7
  <2> QED BY <2>1, <2>2, <2>3, Zenon
<1>8. IsPiece(piece, s, k, c)
  BY <1>6, <1>7 DEF IsPiece, a, e, n
<1> QED BY <1>3, <1>5, <1>8

(* Position x of a sequence is in a piece.                                 *)
LEMMA CutCovers ==
  ASSUME NEW n \in Nat, NEW k \in Nat \ {0}, NEW x \in 1 .. n
  PROVE  \E c \in 1 .. DivCeil(n, k) :
           /\ x - (c - 1) * k \in 1 .. Lesser(c * k, n) - (c - 1) * k
           /\ x = (c - 1) * k + (x - (c - 1) * k)
<1> DEFINE q == (x - 1) \div k
           r == (x - 1) % k
           m == DivCeil(n, k)
<1>1. q \in Nat /\ r \in 0 .. k-1 /\ x - 1 = k * q + r
  <2> DEFINE y == x - 1
  <2>1. y \in Nat
    OBVIOUS
  <2> HIDE DEF y
  <2>2. y \div k \in Nat /\ y % k \in 0 .. k-1 /\ y = k * (y \div k) + (y % k)
    BY <2>1, DivMod
  <2> QED BY <2>2 DEF y
<1> HIDE DEF q, r
<1>2. m \in Nat /\ m * k >= n
  BY DivCeilIs
<1> HIDE DEF m
<1> DEFINE t == q * k
<1>3. t \in Nat /\ x - 1 = t + r /\ (q + 1) * k = t + k
  BY <1>1
<1>4. q + 1 <= m
  <2>1. SUFFICES ASSUME m <= q PROVE FALSE
    BY <1>1, <1>2
  <2>2. (q - m) * k \in Nat
    BY <1>1, <1>2, <2>1
  <2>3. t = m * k + (q - m) * k
    BY <1>1, <1>2
  <2>4. m * k \in Nat
    BY <1>2
  <2> HIDE DEF t
  <2> QED BY <1>1, <1>2, <1>3, <2>2, <2>3, <2>4
<1> HIDE DEF t
<1>5. (q + 1 - 1) * k = t
  BY <1>1 DEF t
<1>6. x - t \in 1 .. Lesser((q + 1) * k, n) - t
  BY <1>1, <1>3 DEF Lesser
<1>7. q + 1 \in 1 .. m
  BY <1>1, <1>2, <1>4
<1>8. x = t + (x - t)
  BY <1>3
<1> HIDE DEF t
<1>9. PICK c \in 1 .. m : c = q + 1
  BY <1>7
<1>10. (c - 1) * k = t /\ Lesser(c * k, n) = Lesser((q + 1) * k, n)
  <2>1. c - 1 = q
    BY <1>1, <1>9
  <2>2. q * k = t
    BY DEF t
  <2>3. (c - 1) * k = t
    BY <2>1, <2>2, Zenon
  <2>4. c * k = (q + 1) * k
    BY <1>9, Zenon
  <2> QED BY <2>3, <2>4, Zenon
<1>11. x - (c - 1) * k \in 1 .. Lesser(c * k, n) - (c - 1) * k
  BY <1>6, <1>10, Zenon
<1>12. x = (c - 1) * k + (x - (c - 1) * k)
  BY <1>8, <1>10, Zenon
<1> QED BY <1>9, <1>11, <1>12 DEF m

(* Pieces do not overlap.                                                  *)
LEMMA CutApart ==
  ASSUME NEW k \in Nat \ {0}, NEW c \in Nat \ {0}, NEW d \in Nat \ {0}, NEW i \in 1 .. k, NEW j \in 1 .. k,
         (c - 1) * k + i = (d - 1) * k + j
  PROVE  c = d /\ i = j
<1>1. ASSUME NEW p \in Nat, NEW y \in 1 .. k
      PROVE  (p * k + y - 1) \div k = p
  <2>1. y - 1 \in 0 .. k-1 /\ p * k + y - 1 = k * p + (y - 1)
    OBVIOUS
  <2>2. (k * p + (y - 1)) \div k = p
    BY <2>1, QuotRem
  <2> QED BY <2>1, <2>2
<1>2. c - 1 \in Nat /\ d - 1 \in Nat
  OBVIOUS
<1>3. c - 1 = d - 1
  BY <1>1, <1>2
<1>4. c = d
  BY <1>3
<1> QED BY <1>4

(* Joining goes from the first to the last.                                *)
LEMMA FlattenIs ==
  ASSUME NEW T, NEW ss \in Seq(Seq(T))
  PROVE  \E g \in [0 .. Len(ss) -> Seq(T)] :
           /\ g[0] = <<>> /\ g[Len(ss)] = FlattenSeq(ss)
           /\ \A j \in 1 .. Len(ss) : g[j] = g[j-1] \o ss[j]
<1> DEFINE n == Len(ss)
           step == [x \in Seq(T) \X (1 .. n) |-> x[1] \o ss[x[2]]]
           F == CHOOSE f : f = [i \in 1 .. n |-> IF i = 1 THEN ss[i] ELSE f[i-1] \o ss[i]]
<1>1. n \in Nat /\ DOMAIN ss = 1 .. n /\ \A j \in 1 .. n : ss[j] \in Seq(T)
  OBVIOUS
<1>2. \A u \in Seq(T), v \in Seq(T) : u \o v \in Seq(T)
  BY ConcatProperties
<1>3. IsStep(step, Seq(T), n)
  BY <1>1, <1>2 DEF IsStep
<1>4. \A u \in Seq(T), j \in 1 .. n : step[<<u, j>>] = u \o ss[j]
  OBVIOUS
<1>5. <<>> \in Seq(T)
  OBVIOUS
<1> HIDE DEF n, step
<1>6. PICK g : IsLoop(g, Seq(T), <<>>, n, step)
  BY <1>1, <1>3, <1>5, LoopExists
<1>7. /\ g \in [0 .. n -> Seq(T)] /\ g[0] = <<>>
      /\ \A j \in 1 .. n : g[j] = step[<<g[j-1], j>>]
  BY <1>6 DEF IsLoop
<1>8. ASSUME NEW j \in 1 .. n
      PROVE  g[j] = g[j-1] \o ss[j]
  <2>1. j - 1 \in 0 .. n
    BY <1>1
  <2>2. g[j-1] \in Seq(T)
    BY <1>7, <2>1
  <2> QED BY <1>4, <1>7, <2>2
<1>9. g[n] = FlattenSeq(ss)
  <2>1. CASE n = 0
    <3>1. FlattenSeq(ss) = ss
      BY <2>1 DEF FlattenSeq, n
    <3>2. ss = <<>>
      BY <2>1, EmptySeq DEF n
    <3> QED BY <1>7, <2>1, <3>1, <3>2
  <2>2. CASE n # 0
    <3> DEFINE G == [i \in 1 .. n |-> g[i]]
    <3>1. FlattenSeq(ss) = F[n]
      BY <2>2, Zenon DEF FlattenSeq, n
    <3>2. ASSUME NEW i \in 1 .. n
          PROVE  G[i] = IF i = 1 THEN ss[i] ELSE G[i-1] \o ss[i]
      <4>1. CASE i = 1
        <5>1. g[i] = <<>> \o ss[i]
          <6>1. i - 1 = 0
            BY <4>1
          <6> QED BY <1>7, <1>8, <6>1
        <5>2. ss[i] \in Seq(T)
          BY <1>1
        <5>3. <<>> \o ss[i] = ss[i]
          BY <5>2, ConcatEmptySeq
        <5> QED BY <4>1, <5>1, <5>3
      <4>2. CASE i # 1
        <5>1. i - 1 \in 1 .. n
          BY <1>1, <4>2
        <5> QED BY <1>8, <4>2, <5>1
      <4> QED BY <4>1, <4>2
    <3>3. G = [i \in 1 .. n |-> IF i = 1 THEN ss[i] ELSE G[i-1] \o ss[i]]
      <4> HIDE DEF G
      <4>1. G = [i \in 1 .. n |-> G[i]]
        BY DEF G
      <4> QED BY <3>2, <4>1
    <3>4. F = [i \in 1 .. n |-> IF i = 1 THEN ss[i] ELSE F[i-1] \o ss[i]]
      <4> HIDE DEF G
      <4> QED BY <3>3
    <3> HIDE DEF F
    <3>5. \A i \in 1 .. n : i # 1 => i - 1 \in 1 .. n
      BY <1>1
    <3>6. ASSUME NEW i \in 1 .. n
          PROVE  F[i] = IF i = 1 THEN ss[i] ELSE F[i-1] \o ss[i]
      BY <3>4
    <3> DEFINE E == {i \in Nat : i \in 1 .. n => F[i] = g[i]}
    <3>7. 0 \in E
      OBVIOUS
    <3>8. ASSUME NEW i \in Nat, i \in E
          PROVE  i + 1 \in E
      <4>1. SUFFICES ASSUME i + 1 \in 1 .. n PROVE F[i+1] = g[i+1]
        OBVIOUS
      <4>2. G[i+1] = g[i+1]
        BY <4>1
      <4>3. i + 1 - 1 = i
        OBVIOUS
      <4>4. CASE i = 0
        <5>1. i + 1 = 1
          BY <4>4
        <5>2. G[i+1] = ss[i+1] /\ F[i+1] = ss[i+1]
          <6> HIDE DEF G, E
          <6> QED BY <3>2, <3>6, <4>1, <5>1
        <5> QED BY <4>2, <5>2
      <4>5. CASE i # 0
        <5>1. i + 1 # 1 /\ i \in 1 .. n
          BY <1>1, <4>1, <4>5
        <5>2. F[i] = g[i] /\ G[i] = g[i]
          BY <3>8, <5>1
        <5>3. G[i+1] = G[i] \o ss[i+1] /\ F[i+1] = F[i] \o ss[i+1]
          <6> HIDE DEF G, E
          <6>1. /\ G[i+1] = IF i + 1 = 1 THEN ss[i+1] ELSE G[(i+1)-1] \o ss[i+1]
                /\ F[i+1] = IF i + 1 = 1 THEN ss[i+1] ELSE F[(i+1)-1] \o ss[i+1]
            BY <3>2, <3>6, <4>1, Zenon
          <6>2. G[i+1] = G[(i+1)-1] \o ss[i+1] /\ F[i+1] = F[(i+1)-1] \o ss[i+1]
            BY <5>1, <6>1, Zenon
          <6>3. G[(i+1)-1] = G[i] /\ F[(i+1)-1] = F[i]
            BY <4>3
          <6> QED BY <6>2, <6>3, Zenon
        <5> QED BY <4>2, <5>2, <5>3
      <4> QED BY <4>4, <4>5
    <3>9. Nat \subseteq E
      <4> HIDE DEF E
      <4> QED BY <3>7, <3>8, Induction
    <3>10. n \in E /\ n \in 1 .. n
      BY <1>1, <2>2, <3>9
    <3> QED BY <3>1, <3>10
  <2> QED BY <2>1, <2>2
<1> QED BY <1>7, <1>8, <1>9 DEF n

-----------------------------------------------------------------------------
(* The two orders by block count are one.                                  *)

(* Message j comes before message k, and where k comes.                    *)
Ahead(steps, j, k) == steps[j] < steps[k] \/ (steps[j] = steps[k] /\ j < k)

AheadOf(steps, k) == {j \in 1 .. Len(steps) : Ahead(steps, j, k)}

Slot(steps, k) == Cardinality(AheadOf(steps, k)) + 1

LEMMA CountSubset ==
  ASSUME NEW S, NEW U, IsFiniteSet(S), U \subseteq S
  PROVE  /\ IsFiniteSet(U) /\ Cardinality(U) \in Nat /\ Cardinality(S) \in Nat
         /\ Cardinality(U) <= Cardinality(S)
         /\ Cardinality(U) = Cardinality(S) => U = S
<1>1. U \in SUBSET S
  OBVIOUS
<1>2. IsFiniteSet(U)
  BY <1>1, FS_Subset
<1> QED BY <1>1, <1>2, FS_Subset, FS_CardinalityType

LEMMA SlotsApart ==
  ASSUME NEW steps \in Seq(Nat)
  PROVE  /\ \A k \in 1 .. Len(steps) :
              /\ Slot(steps, k) \in 1 .. Len(steps)
              /\ IsFiniteSet(AheadOf(steps, k))
         /\ \A k, l \in 1 .. Len(steps) : Slot(steps, k) = Slot(steps, l) => k = l
<1> DEFINE n == Len(steps)
<1>1. n \in Nat /\ \A k \in 1 .. n : steps[k] \in Nat
  OBVIOUS
<1>2. IsFiniteSet(1 .. n) /\ Cardinality(1 .. n) = n
  BY <1>1, FS_Interval
<1>3. ASSUME NEW k \in 1 .. n
      PROVE  /\ AheadOf(steps, k) \subseteq (1 .. n) /\ k \notin AheadOf(steps, k)
             /\ IsFiniteSet(AheadOf(steps, k)) /\ Cardinality(AheadOf(steps, k)) \in Nat
             /\ IsFiniteSet(AheadOf(steps, k) \cup {k})
             /\ Cardinality(AheadOf(steps, k) \cup {k}) = Cardinality(AheadOf(steps, k)) + 1
  <2>1. AheadOf(steps, k) \subseteq (1 .. n) /\ k \notin AheadOf(steps, k)
    BY <1>1 DEF AheadOf, Ahead
  <2>2. IsFiniteSet(AheadOf(steps, k))
    BY <1>2, <2>1, FS_Subset
  <2> QED BY <2>1, <2>2, FS_CardinalityType, FS_AddElement
<1>4. ASSUME NEW k \in 1 .. n
      PROVE  Slot(steps, k) \in 1 .. n
  <2>1. AheadOf(steps, k) \cup {k} \in SUBSET (1 .. n)
    BY <1>3
  <2>2. Cardinality(AheadOf(steps, k) \cup {k}) <= n
    <3> HIDE DEF n
    <3> DEFINE U == AheadOf(steps, k) \cup {k}
               S == 1 .. n
    <3>1. U \subseteq S /\ IsFiniteSet(S) /\ Cardinality(S) = n
      BY <1>2, <2>1
    <3> HIDE DEF U, S
    <3>2. Cardinality(U) <= Cardinality(S)
      BY <3>1, CountSubset
    <3> QED BY <3>1, <3>2 DEF U
  <2>3. Cardinality(AheadOf(steps, k) \cup {k}) = Slot(steps, k) /\ Cardinality(AheadOf(steps, k)) \in Nat
    BY <1>3 DEF Slot
  <2>4. Slot(steps, k) <= n /\ Slot(steps, k) = Cardinality(AheadOf(steps, k)) + 1
    BY <2>2, <2>3, Zenon DEF Slot
  <2> QED BY <1>1, <2>3, <2>4
<1>5. ASSUME NEW k \in 1 .. n, NEW l \in 1 .. n, Ahead(steps, k, l)
      PROVE  Slot(steps, k) < Slot(steps, l)
  <2>1. AheadOf(steps, k) \cup {k} \in SUBSET AheadOf(steps, l)
    <3>1. k \in AheadOf(steps, l)
      BY <1>5 DEF AheadOf
    <3>2. ASSUME NEW j \in AheadOf(steps, k)
          PROVE  j \in AheadOf(steps, l)
      BY <1>1, <1>5 DEF AheadOf, Ahead
    <3> QED BY <3>1, <3>2
  <2>2. Cardinality(AheadOf(steps, k) \cup {k}) <= Cardinality(AheadOf(steps, l))
    <3> DEFINE U == AheadOf(steps, k) \cup {k}
               S == AheadOf(steps, l)
    <3>1. U \subseteq S /\ IsFiniteSet(S)
      BY <1>3, <2>1
    <3> HIDE DEF U, S
    <3>2. Cardinality(U) <= Cardinality(S)
      BY <3>1, CountSubset
    <3> QED BY <3>2 DEF U, S
  <2>3. Cardinality(AheadOf(steps, k) \cup {k}) = Slot(steps, k)
    BY <1>3 DEF Slot
  <2>4. Slot(steps, k) <= Cardinality(AheadOf(steps, l))
    BY <2>2, <2>3, Zenon
  <2>5. Slot(steps, k) \in Nat /\ Cardinality(AheadOf(steps, l)) \in Nat
    <3>1. Cardinality(AheadOf(steps, k)) \in Nat /\ Cardinality(AheadOf(steps, l)) \in Nat
      BY <1>3, Zenon
    <3> QED BY <3>1 DEF Slot
  <2> QED BY <2>4, <2>5 DEF Slot
<1>6. ASSUME NEW k \in 1 .. n, NEW l \in 1 .. n, k # l
      PROVE  Ahead(steps, k, l) \/ Ahead(steps, l, k)
  BY <1>1, <1>6 DEF Ahead
<1>7. ASSUME NEW k \in 1 .. n, NEW l \in 1 .. n, Slot(steps, k) = Slot(steps, l)
      PROVE  k = l
  <2>1. Slot(steps, k) \in Int /\ Slot(steps, l) \in Int
    BY <1>4
  <2> QED BY <1>5, <1>6, <1>7, <2>1
<1> QED BY <1>3, <1>4, <1>7

(* Every position is somebody's.                                           *)
LEMMA SlotsFilled ==
  ASSUME NEW steps \in Seq(Nat), NEW r \in 1 .. Len(steps)
  PROVE  \E k \in 1 .. Len(steps) : Slot(steps, k) = r
<1> DEFINE n == Len(steps)
           f == [k \in 1 .. n |-> Slot(steps, k)]
<1>1. n \in Nat
  OBVIOUS
<1>2. f \in Injection(1 .. n, 1 .. n)
  BY SlotsApart DEF Injection, IsInjective
<1>3. IsFiniteSet(1 .. n)
  BY <1>1, FS_Interval
<1>4. \A k \in 1 .. n : f[k] = Slot(steps, k)
  OBVIOUS
<1>5. r \in 1 .. n
  OBVIOUS
<1> HIDE DEF n, f
<1>6. f \in Surjection(1 .. n, 1 .. n)
  BY <1>2, <1>3, FS_Injection
<1>7. \E k \in 1 .. n : f[k] = r
  BY <1>5, <1>6 DEF Surjection
<1> QED BY <1>4, <1>7 DEF n

(* Counting: after k messages the first k are in their places, and every   *)
(* count points behind those of its own.                                   *)
Placed(steps, start, order, k) ==
  /\ start = [b \in 0 .. CountingMax |->
                Cardinality({j \in 1 .. Len(steps) : steps[j] < b})
                + Cardinality({j \in 1 .. k : steps[j] = b})]
  /\ order \in [1 .. Len(steps) -> 1 .. Len(steps)]
  /\ \A j \in 1 .. k : order[Slot(steps, j)] = j

LEMMA PlaceNext ==
  ASSUME NEW steps \in Seq(Nat), NEW k \in 1 .. Len(steps), steps[k] <= CountingMax,
         NEW start, NEW order, Placed(steps, start, order, k - 1)
  PROVE  Placed(steps, [start EXCEPT ![steps[k]] = @ + 1],
                [order EXCEPT ![start[steps[k]] + 1] = k], k)
<1> DEFINE n == Len(steps)
           less(b) == {j \in 1 .. n : steps[j] < b}
           same(b, i) == {j \in 1 .. i : steps[j] = b}
           c == steps[k]
<1>0. CountingMax \in Nat
  BY HashConstants
<1>1. n \in Nat /\ \A j \in 1 .. n : steps[j] \in Nat
  OBVIOUS
<1>2. c \in 0 .. CountingMax /\ k \in Nat /\ k - 1 \in Nat
  BY <1>0, <1>1
<1>3. ASSUME NEW b \in Nat, NEW i \in 0 .. n
      PROVE  /\ IsFiniteSet(less(b)) /\ IsFiniteSet(same(b, i))
             /\ Cardinality(less(b)) \in Nat /\ Cardinality(same(b, i)) \in Nat
  <2>1. IsFiniteSet(1 .. n) /\ IsFiniteSet(1 .. i)
    BY <1>1, FS_Interval
  <2>2. less(b) \in SUBSET (1 .. n) /\ same(b, i) \in SUBSET (1 .. i)
    OBVIOUS
  <2> HIDE DEF less, same, n
  <2>3. IsFiniteSet(less(b)) /\ IsFiniteSet(same(b, i))
    BY <2>1, <2>2, FS_Subset
  <2> QED BY <2>3, FS_CardinalityType
<1>4. start[c] + 1 = Slot(steps, k)
  <2>1. start[c] = Cardinality(less(c)) + Cardinality(same(c, k - 1))
    BY <1>2 DEF Placed
  <2>2. AheadOf(steps, k) = less(c) \cup same(c, k - 1)
    <3>1. ASSUME NEW j \in AheadOf(steps, k)
          PROVE  j \in less(c) \cup same(c, k - 1)
      BY <1>1 DEF AheadOf, Ahead
    <3>2. ASSUME NEW j \in less(c) \cup same(c, k - 1)
          PROVE  j \in AheadOf(steps, k)
      BY <1>1 DEF AheadOf, Ahead
    <3> QED BY <3>1, <3>2
  <2>3. less(c) \cap same(c, k - 1) = {}
    BY <1>1
  <2>4. c \in Nat /\ k - 1 \in 0 .. n
    BY <1>1, <1>2
  <2> HIDE DEF less, same, c, n
  <2>5. /\ IsFiniteSet(less(c)) /\ IsFiniteSet(same(c, k - 1))
        /\ Cardinality(less(c)) \in Nat /\ Cardinality(same(c, k - 1)) \in Nat
    BY <1>3, <2>4
  <2>6. Cardinality(less(c) \cup same(c, k - 1))
          = Cardinality(less(c)) + Cardinality(same(c, k - 1)) - Cardinality(less(c) \cap same(c, k - 1))
    BY <2>5, FS_Union
  <2>7. Cardinality(less(c) \cap same(c, k - 1)) = 0
    BY <2>3, FS_EmptySet
  <2> QED BY <2>1, <2>2, <2>5, <2>6, <2>7 DEF Slot
<1>5. ASSUME NEW b \in 0 .. CountingMax
      PROVE  Cardinality(same(b, k)) = Cardinality(same(b, k - 1)) + (IF b = c THEN 1 ELSE 0)
  <2>1. b \in Nat /\ k - 1 \in 0 .. n
    BY <1>0, <1>1, <1>2
  <2>2. IsFiniteSet(same(b, k - 1)) /\ Cardinality(same(b, k - 1)) \in Nat
    <3> HIDE DEF same, n
    <3> QED BY <1>3, <2>1
  <2>3. k \notin same(b, k - 1)
    BY <1>2
  <2>4. same(b, k) = IF b = c THEN same(b, k - 1) \cup {k} ELSE same(b, k - 1)
    <3>1. \A j : j \in 1 .. k <=> j \in 1 .. k - 1 \/ j = k
      BY <1>2
    <3> QED BY <3>1
  <2> HIDE DEF same, c
  <2>5. Cardinality(same(b, k - 1) \cup {k}) = Cardinality(same(b, k - 1)) + 1
    BY <2>2, <2>3, FS_AddElement
  <2> QED BY <2>2, <2>4, <2>5
<1>6. [start EXCEPT ![c] = @ + 1]
        = [b \in 0 .. CountingMax |-> Cardinality(less(b)) + Cardinality(same(b, k))]
  <2>1. start = [b \in 0 .. CountingMax |-> Cardinality(less(b)) + Cardinality(same(b, k - 1))]
    BY DEF Placed
  <2>2. ASSUME NEW b \in 0 .. CountingMax
        PROVE  /\ Cardinality(less(b)) \in Nat /\ Cardinality(same(b, k - 1)) \in Nat
               /\ Cardinality(same(b, k)) = Cardinality(same(b, k - 1)) + (IF b = c THEN 1 ELSE 0)
    <3>1. b \in Nat /\ k - 1 \in 0 .. n
      BY <1>0, <1>1, <1>2
    <3> HIDE DEF same, n, less, c
    <3> QED BY <1>3, <1>5, <3>1
  <2> HIDE DEF less, same, c
  <2>3. ASSUME NEW b \in 0 .. CountingMax
        PROVE  [start EXCEPT ![c] = @ + 1][b] = Cardinality(less(b)) + Cardinality(same(b, k))
    BY <2>1, <2>2
  <2>4. DOMAIN [start EXCEPT ![c] = @ + 1] = 0 .. CountingMax
    BY <2>1
  <2> QED BY <2>1, <2>3, <2>4
<1>7. Slot(steps, k) \in 1 .. n
  BY SlotsApart
<1>8. [order EXCEPT ![Slot(steps, k)] = k] \in [1 .. n -> 1 .. n]
  BY DEF Placed
<1>9. ASSUME NEW j \in 1 .. k
      PROVE  [order EXCEPT ![Slot(steps, k)] = k][Slot(steps, j)] = j
  <2>1. j \in 1 .. n /\ Slot(steps, j) \in 1 .. n
    BY <1>1, SlotsApart
  <2>2. order \in [1 .. n -> 1 .. n]
    BY DEF Placed
  <2>3. CASE j = k
    BY <1>7, <2>2, <2>3
  <2>4. CASE j # k
    <3>1. Slot(steps, j) # Slot(steps, k)
      BY <2>1, <2>4, SlotsApart
    <3>2. j \in 1 .. k - 1
      BY <1>2, <2>4
    <3>3. order[Slot(steps, j)] = j
      BY <3>2 DEF Placed
    <3> QED BY <2>1, <2>2, <3>1, <3>3
  <2> QED BY <2>3, <2>4
<1> HIDE DEF less, same
<1>10. [start EXCEPT ![steps[k]] = @ + 1]
         = [b \in 0 .. CountingMax |-> Cardinality({j \in 1 .. Len(steps) : steps[j] < b})
                                       + Cardinality({j \in 1 .. k : steps[j] = b})]
  BY <1>6 DEF less, same
<1> QED BY <1>4, <1>8, <1>9, <1>10 DEF Placed

LEMMA CountingOrderIs ==
  ASSUME NEW steps \in Seq(Nat), \A k \in 1 .. Len(steps) : steps[k] <= CountingMax
  PROVE  /\ CountingOrder(steps) \in [1 .. Len(steps) -> 1 .. Len(steps)]
         /\ \A k \in 1 .. Len(steps) : CountingOrder(steps)[Slot(steps, k)] = k
<1> DEFINE n == Len(steps)
           first == [b \in 0 .. CountingMax |-> Cardinality({k \in 1 .. n : steps[k] < b})]
           zero == [start |-> first, order |-> [r \in 1 .. n |-> 1]]
           place(acc, k) == [start |-> [acc.start EXCEPT ![steps[k]] = @ + 1],
                             order |-> [acc.order EXCEPT ![acc.start[steps[k]] + 1] = k]]
           S == [start : [0 .. CountingMax -> Nat], order : [1 .. n -> 1 .. n]]
           step == [x \in S \X (1 .. n) |-> place(x[1], x[2])]
           F == CHOOSE f : f = [k \in 0 .. n |-> IF k = 0 THEN zero ELSE place(f[k-1], k)]
<1>0. CountingMax \in Nat
  BY HashConstants
<1>1. n \in Nat /\ \A j \in 1 .. n : steps[j] \in 0 .. CountingMax
  BY <1>0
<1>2. ASSUME NEW b \in Nat
      PROVE  Cardinality({k \in 1 .. n : steps[k] < b}) \in Nat
  <2> DEFINE U == {k \in 1 .. n : steps[k] < b}
  <2>1. IsFiniteSet(1 .. n) /\ U \subseteq (1 .. n)
    BY <1>1, FS_Interval
  <2> HIDE DEF U
  <2>2. Cardinality(U) \in Nat
    BY <2>1, CountSubset
  <2> QED BY <2>2 DEF U
<1>3. zero \in S
  <2>1. first \in [0 .. CountingMax -> Nat]
    <3>1. \A b \in 0 .. CountingMax : b \in Nat
      BY <1>0
    <3> QED BY <1>2, <3>1
  <2>2. [r \in 1 .. n |-> 1] \in [1 .. n -> 1 .. n]
    BY <1>1
  <2> HIDE DEF first, n
  <2> QED BY <2>1, <2>2
<1>4. ASSUME NEW acc \in S, NEW k \in 1 .. n
      PROVE  place(acc, k) \in S
  <2>1. acc.start \in [0 .. CountingMax -> Nat] /\ acc.order \in [1 .. n -> 1 .. n]
    OBVIOUS
  <2>2. steps[k] \in 0 .. CountingMax
    BY <1>1
  <2> HIDE DEF n
  <2>3. ASSUME NEW u \in [0 .. CountingMax -> Nat], NEW c \in 0 .. CountingMax
        PROVE  [u EXCEPT ![c] = @ + 1] \in [0 .. CountingMax -> Nat]
    OBVIOUS
  <2>4. [acc.order EXCEPT ![acc.start[steps[k]] + 1] = k] \in [1 .. n -> 1 .. n]
    BY <2>1
  <2>5. [acc.start EXCEPT ![steps[k]] = @ + 1] \in [0 .. CountingMax -> Nat]
    BY <2>1, <2>2, <2>3
  <2> QED BY <2>4, <2>5
<1>5. IsStep(step, S, n)
  <2> HIDE DEF S, n, place
  <2> QED BY <1>4 DEF IsStep
<1>6. \A acc \in S, k \in 1 .. n : step[<<acc, k>>] = place(acc, k)
  <2> HIDE DEF S, n, place
  <2> QED OBVIOUS
<1> HIDE DEF S, step, zero, place, n
<1>7. PICK g : IsLoop(g, S, zero, n, step)
  BY <1>1, <1>3, <1>5, LoopExists
<1>8. /\ g \in [0 .. n -> S] /\ g[0] = zero
      /\ \A j \in 1 .. n : g[j] = step[<<g[j-1], j>>]
  BY <1>7 DEF IsLoop
<1>9. ASSUME NEW j \in 0 .. n
      PROVE  g[j] = IF j = 0 THEN zero ELSE place(g[j-1], j)
  <2>1. CASE j = 0
    BY <1>8, <2>1
  <2>2. CASE j # 0
    <3>1. j \in 1 .. n /\ j - 1 \in 0 .. n
      BY <1>1, <2>2
    <3>2. g[j-1] \in S
      BY <1>8, <3>1
    <3> QED BY <1>6, <1>8, <2>2, <3>1, <3>2
  <2> QED BY <2>1, <2>2
<1>10. g = [k \in 0 .. n |-> IF k = 0 THEN zero ELSE place(g[k-1], k)]
  <2>1. g = [k \in 0 .. n |-> g[k]]
    BY <1>8
  <2> QED BY <1>9, <2>1
<1>11. F = [k \in 0 .. n |-> IF k = 0 THEN zero ELSE place(F[k-1], k)]
  BY <1>10
<1>12. CountingOrder(steps) = F[n].order
  BY Zenon DEF CountingOrder, n, zero, place
<1> HIDE DEF F
<1>13. F[0] = zero /\ \A k \in 1 .. n : F[k] = place(F[k-1], k)
  <2>1. 0 \in 0 .. n
    BY <1>1
  <2>2. \A k \in 1 .. n : k \in 0 .. n /\ k # 0
    BY <1>1
  <2>3. \A k \in 0 .. n : F[k] = IF k = 0 THEN zero ELSE place(F[k-1], k)
    BY <1>11, Zenon
  <2> QED BY <2>1, <2>2, <2>3, Zenon
<1> DEFINE E == {k \in Nat : k \in 0 .. n => Placed(steps, F[k].start, F[k].order, k)}
<1>14. 0 \in E
  <2>1. Placed(steps, first, [r \in 1 .. n |-> 1], 0)
    <3>1. ASSUME NEW b \in 0 .. CountingMax
          PROVE  Cardinality({j \in 1 .. n : steps[j] < b})
                   + Cardinality({j \in 1 .. 0 : steps[j] = b}) = Cardinality({j \in 1 .. n : steps[j] < b})
      <4>1. {j \in 1 .. 0 : steps[j] = b} = {}
        OBVIOUS
      <4>2. Cardinality({j \in 1 .. 0 : steps[j] = b}) = 0
        BY <4>1, FS_EmptySet
      <4>3. b \in Nat
        BY <1>0
      <4>4. Cardinality({k \in 1 .. n : steps[k] < b}) \in Nat
        BY <1>2, <4>3
      <4> DEFINE x == Cardinality({k \in 1 .. n : steps[k] < b})
      <4> HIDE DEF x
      <4>5. x + 0 = x
        BY <4>4 DEF x
      <4> QED BY <4>2, <4>5 DEF x
    <3>2. first = [b \in 0 .. CountingMax |->
                     Cardinality({j \in 1 .. n : steps[j] < b})
                     + Cardinality({j \in 1 .. 0 : steps[j] = b})]
      BY <3>1
    <3>3. [r \in 1 .. n |-> 1] \in [1 .. n -> 1 .. n]
      BY <1>1
    <3> HIDE DEF first
    <3> QED BY <3>2, <3>3 DEF Placed, n
  <2>2. F[0].start = first /\ F[0].order = [r \in 1 .. n |-> 1]
    BY <1>13 DEF zero
  <2> HIDE DEF first
  <2> QED BY <2>1, <2>2
<1>15. ASSUME NEW k \in Nat, k \in E
       PROVE  k + 1 \in E
  <2>1. SUFFICES ASSUME k + 1 \in 0 .. n
                 PROVE  Placed(steps, F[k+1].start, F[k+1].order, k + 1)
    OBVIOUS
  <2>2. k \in 0 .. n /\ k + 1 \in 1 .. n /\ k + 1 - 1 = k
    BY <1>1, <2>1
  <2>3. Placed(steps, F[k].start, F[k].order, k + 1 - 1)
    BY <1>15, <2>2
  <2>4. F[k+1] = place(F[k], k + 1)
    BY <1>13, <2>2
  <2>5. steps[k+1] <= CountingMax /\ k + 1 \in 1 .. Len(steps)
    BY <2>2 DEF n
  <2>6. Placed(steps, [F[k].start EXCEPT ![steps[k+1]] = @ + 1],
               [F[k].order EXCEPT ![F[k].start[steps[k+1]] + 1] = k + 1], k + 1)
    <3> HIDE DEF E
    <3> QED BY <2>3, <2>5, PlaceNext
  <2>7. /\ F[k+1].start = [F[k].start EXCEPT ![steps[k+1]] = @ + 1]
        /\ F[k+1].order = [F[k].order EXCEPT ![F[k].start[steps[k+1]] + 1] = k + 1]
    <3> HIDE DEF E
    <3> QED BY <2>4 DEF place
  <2> HIDE DEF E
  <2> QED BY <2>6, <2>7
<1>16. Nat \subseteq E
  <2> HIDE DEF E
  <2> QED BY <1>14, <1>15, Induction
<1>17. Placed(steps, F[n].start, F[n].order, n)
  <2>1. n \in E /\ n \in 0 .. n
    BY <1>1, <1>16
  <2> QED BY <2>1
<1> HIDE DEF E
<1> QED BY <1>12, <1>17 DEF Placed, n

(* Keys of blocks and position are in the order of the messages.           *)
LEMMA KeysAscend ==
  ASSUME NEW w \in Nat \ {0}, NEW a \in Nat, NEW b \in Nat, NEW i \in 1 .. w, NEW j \in 1 .. w
  PROVE  /\ a * w + i - 1 \in Nat
         /\ (a * w + i - 1) % w = i - 1
         /\ a * w + i - 1 < b * w + j - 1 <=> a < b \/ (a = b /\ i < j)
<1>1. a * w \in Nat /\ b * w \in Nat
  OBVIOUS
<1>2. (a * w + i - 1) % w = i - 1
  <2>1. i - 1 \in 0 .. w - 1 /\ a * w + i - 1 = w * a + (i - 1)
    BY <1>1
  <2>2. (w * a + (i - 1)) % w = i - 1
    BY <2>1, QuotRem
  <2> QED BY <2>1, <2>2
<1>3. ASSUME NEW c \in Nat, NEW d \in Nat, c < d
      PROVE  c * w + w <= d * w
  <2>1. d - c - 1 \in Nat
    BY <1>3
  <2>2. (d - c - 1) * w \in Nat
    BY <2>1
  <2>3. d * w = c * w + w + (d - c - 1) * w
    OBVIOUS
  <2>4. c * w \in Nat /\ d * w \in Nat
    OBVIOUS
  <2> QED BY <2>2, <2>3, <2>4
<1>4. CASE a < b
  <2>1. a * w + w <= b * w
    BY <1>3, <1>4
  <2> QED BY <1>1, <1>2, <1>4, <2>1
<1>5. CASE a = b
  BY <1>1, <1>2, <1>5
<1>6. CASE b < a
  <2>1. b * w + w <= a * w
    BY <1>3, <1>6
  <2> QED BY <1>1, <1>2, <1>6, <2>1
<1> QED BY <1>4, <1>5, <1>6

LEMMA SortedOrderIs ==
  ASSUME NEW steps \in Seq(Nat), Len(steps) <= Window
  PROVE  /\ SortedOrder(steps) \in [1 .. Len(steps) -> 1 .. Len(steps)]
         /\ \A k \in 1 .. Len(steps) : SortedOrder(steps)[Slot(steps, k)] = k
<1> DEFINE n == Len(steps)
           key(k) == steps[k] * Window + k - 1
           keys == {key(k) : k \in 1 .. n}
           upto(x) == {y \in keys : y <= x}
           sorted(r) == CHOOSE x \in keys : Cardinality(upto(x)) = r
<1>1. n \in Nat /\ DOMAIN steps = 1 .. n /\ \A k \in 1 .. n : steps[k] \in Nat
  OBVIOUS
<1>2. Window \in Nat \ {0} /\ n <= Window
  BY HashConstants
<1>3. ASSUME NEW j \in 1 .. n, NEW k \in 1 .. n
      PROVE  /\ key(k) \in Nat /\ key(k) % Window = k - 1
             /\ key(j) < key(k) <=> Ahead(steps, j, k)
             /\ key(j) = key(k) <=> j = k
             /\ key(j) <= key(k) <=> j \in AheadOf(steps, k) \cup {k}
  <2>1. j \in 1 .. Window /\ k \in 1 .. Window /\ steps[j] \in Nat /\ steps[k] \in Nat
    BY <1>1, <1>2
  <2>2. /\ key(k) \in Nat /\ key(j) \in Nat /\ key(k) % Window = k - 1
        /\ key(j) < key(k) <=> steps[j] < steps[k] \/ (steps[j] = steps[k] /\ j < k)
        /\ key(k) < key(j) <=> steps[k] < steps[j] \/ (steps[k] = steps[j] /\ k < j)
    <3> HIDE DEF n
    <3> DEFINE a == steps[j]
               b == steps[k]
    <3>1. a \in Nat /\ b \in Nat
      BY <2>1
    <3> HIDE DEF a, b
    <3>2. /\ a * Window + j - 1 \in Nat
          /\ a * Window + j - 1 < b * Window + k - 1 <=> a < b \/ (a = b /\ j < k)
      BY <1>2, <2>1, <3>1, KeysAscend
    <3>3. /\ b * Window + k - 1 \in Nat
          /\ (b * Window + k - 1) % Window = k - 1
          /\ b * Window + k - 1 < a * Window + j - 1 <=> b < a \/ (b = a /\ k < j)
      BY <1>2, <2>1, <3>1, KeysAscend
    <3> QED BY <3>2, <3>3, Zenon DEF a, b
  <2> HIDE DEF key
  <2>3. key(j) = key(k) => ~ (key(j) < key(k)) /\ ~ (key(k) < key(j))
    BY <2>2
  <2>4. key(j) = key(k) <=> j = k
    BY <2>1, <2>2, <2>3
  <2>5. key(j) < key(k) <=> Ahead(steps, j, k)
    BY <2>2 DEF Ahead
  <2>6. key(j) <= key(k) <=> key(j) < key(k) \/ key(j) = key(k)
    BY <2>2
  <2>7. j \in AheadOf(steps, k) <=> Ahead(steps, j, k)
    BY DEF AheadOf
  <2> QED BY <2>2, <2>4, <2>5, <2>6, <2>7
<1>4. ASSUME NEW k \in 1 .. n
      PROVE  Cardinality(upto(key(k))) = Slot(steps, k)
  <2> DEFINE A == AheadOf(steps, k) \cup {k}
             U == upto(key(k))
             f == [j \in A |-> key(j)]
  <2>1. A \subseteq (1 .. n)
    BY DEF AheadOf
  <2>2. IsFiniteSet(AheadOf(steps, k)) /\ k \notin AheadOf(steps, k)
    <3>1. IsFiniteSet(AheadOf(steps, k))
      BY SlotsApart
    <3>2. ~ (steps[k] < steps[k]) /\ ~ (k < k)
      BY <1>1
    <3> QED BY <3>1, <3>2 DEF AheadOf, Ahead
  <2>3. IsFiniteSet(A) /\ Cardinality(A) = Slot(steps, k)
    BY <2>2, FS_AddElement DEF Slot
  <2> HIDE DEF A
  <2>4. \A j \in A : key(j) \in U
    <3> HIDE DEF key
    <3>1. ASSUME NEW j \in A
          PROVE  key(j) \in keys /\ key(j) <= key(k)
      <4>1. j \in 1 .. n
        BY <2>1
      <4>2. key(j) <= key(k)
        BY <1>3, <4>1 DEF A
      <4> QED BY <4>1, <4>2
    <3> QED BY <3>1
  <2>5. \A i, j \in A : key(i) = key(j) => i = j
    <3> HIDE DEF key
    <3> QED BY <1>3, <2>1
  <2>6. \A y \in U : \E j \in A : key(j) = y
    <3> HIDE DEF key
    <3>1. ASSUME NEW y \in U
          PROVE  \E j \in A : key(j) = y
      <4>1. PICK j \in 1 .. n : y = key(j)
        OBVIOUS
      <4>2. key(j) <= key(k)
        BY <4>1
      <4>3. j \in A
        BY <1>3, <4>2 DEF A
      <4> QED BY <4>1, <4>3
    <3> QED BY <3>1
  <2> HIDE DEF U, key
  <2>7. f \in Bijection(A, U)
    <3>1. f \in [A -> U]
      BY <2>4
    <3>2. \A i, j \in A : f[i] = f[j] => i = j
      BY <2>5
    <3>3. \A y \in U : \E j \in A : f[j] = y
      BY <2>6
    <3> HIDE DEF f
    <3> QED BY <3>1, <3>2, <3>3 DEF Bijection, Injection, IsInjective, Surjection
  <2>8. ExistsBijection(A, U)
    BY <2>7 DEF ExistsBijection
  <2> HIDE DEF f
  <2>9. Cardinality(U) = Cardinality(A)
    BY <2>3, <2>8, FS_Bijection
  <2> QED BY <2>3, <2>9 DEF U
<1> HIDE DEF upto, key
<1>5. ASSUME NEW k \in 1 .. n
      PROVE  sorted(Slot(steps, k)) = key(k)
  <2>1. key(k) \in keys /\ Cardinality(upto(key(k))) = Slot(steps, k)
    BY <1>4
  <2>2. ASSUME NEW x \in keys, Cardinality(upto(x)) = Slot(steps, k)
        PROVE  x = key(k)
    <3>1. PICK l \in 1 .. n : x = key(l)
      OBVIOUS
    <3>2. Slot(steps, l) = Slot(steps, k)
      BY <1>4, <2>2, <3>1
    <3>3. l = k
      BY <3>2, SlotsApart
    <3> QED BY <3>1, <3>3
  <2> HIDE DEF keys
  <2> QED BY <2>1, <2>2
<1>6. SortedOrder(steps) = [r \in 1 .. n |-> (sorted(r) % Window) + 1]
  <2>1. \A r \in 1 .. n : [s \in 1 .. n |-> sorted(s)][r] = sorted(r)
    OBVIOUS
  <2>2. SortedOrder(steps) = [r \in 1 .. n |-> ([s \in 1 .. n |-> sorted(s)][r] % Window) + 1]
    <3> DEFINE D == DOMAIN steps
    <3>1. SortedOrder(steps) =
            [r \in D |-> ([s \in D |-> CHOOSE x \in {steps[k] * Window + k - 1 : k \in D} :
                Cardinality({y \in {steps[k] * Window + k - 1 : k \in D} : y <= x}) = s][r] % Window) + 1]
      BY Zenon DEF SortedOrder
    <3>2. D = 1 .. n
      BY <1>1
    <3> HIDE DEF D
    <3> QED BY <3>1, <3>2, Zenon DEF upto, key
  <2> HIDE DEF sorted
  <2> QED BY <2>1, <2>2
<1> HIDE DEF sorted
<1>7. ASSUME NEW k \in 1 .. n
      PROVE  SortedOrder(steps)[Slot(steps, k)] = k
  <2>1. Slot(steps, k) \in 1 .. n
    BY SlotsApart
  <2>2. SortedOrder(steps)[Slot(steps, k)] = (key(k) % Window) + 1
    BY <1>5, <1>6, <2>1
  <2>3. key(k) % Window = k - 1
    BY <1>3
  <2>4. k - 1 + 1 = k
    OBVIOUS
  <2> QED BY <2>2, <2>3, <2>4
<1>8. SortedOrder(steps) \in [1 .. n -> 1 .. n]
  <2>1. ASSUME NEW r \in 1 .. n
        PROVE  SortedOrder(steps)[r] \in 1 .. n
    <3>1. PICK k \in 1 .. n : Slot(steps, k) = r
      BY SlotsFilled
    <3> QED BY <1>7, <3>1
  <2> QED BY <1>6, <2>1
<1> QED BY <1>7, <1>8

(* Counting and sorting the keys give one order (hash_var_x4_regrouped     *)
(* takes either by the largest block count): that of the block counts,     *)
(* messages of as many blocks as they were given.                          *)
THEOREM SortsAgree ==
  ASSUME NEW steps \in Seq(Nat), Len(steps) <= Window,
         \A k \in 1 .. Len(steps) : steps[k] <= CountingMax
  PROVE  CountingOrder(steps) = SortedOrder(steps)
<1>1. /\ CountingOrder(steps) \in [1 .. Len(steps) -> 1 .. Len(steps)]
      /\ SortedOrder(steps) \in [1 .. Len(steps) -> 1 .. Len(steps)]
  BY CountingOrderIs, SortedOrderIs
<1>2. ASSUME NEW r \in 1 .. Len(steps)
      PROVE  CountingOrder(steps)[r] = SortedOrder(steps)[r]
  <2>1. PICK k \in 1 .. Len(steps) : Slot(steps, k) = r
    BY SlotsFilled
  <2>2. CountingOrder(steps)[Slot(steps, k)] = k /\ SortedOrder(steps)[Slot(steps, k)] = k
    BY CountingOrderIs, SortedOrderIs
  <2> QED BY <2>1, <2>2
<1> QED BY <1>1, <1>2

-----------------------------------------------------------------------------
(* Groups that share the messages of a work item out.                      *)

CellType == [m : Nat, o : Nat]

GroupType == [kernel : {"scalar", "equal", "masked"}, cells : Seq(CellType), among : Nat]

OutsOf(cells) == {cells[k].o : k \in DOMAIN cells}

(* Messages on the way to their own positions, no two to one.              *)
Straight(cells) ==
  /\ cells \in Seq(CellType)
  /\ \A k \in DOMAIN cells : cells[k].m = cells[k].o
  /\ \A k, l \in DOMAIN cells : cells[k].o = cells[l].o => k = l

(* A group a kernel may be given.                                          *)
GroupRight(g) ==
  /\ g \in GroupType
  /\ \A k \in DOMAIN g.cells : g.cells[k].m = g.cells[k].o
  /\ g.kernel # "scalar" => mode.simd /\ Len(g.cells) = 4 /\ g.among \in 4 .. Window
  /\ g.kernel = "equal" => \A k \in DOMAIN g.cells : LenOf(g.cells[k]) = LenOf(g.cells[1])

(* Every position of S is in exactly one of the groups.                    *)
Covers(gs, S) ==
  /\ gs \in Seq(GroupType)
  /\ \A k \in DOMAIN gs : GroupRight(gs[k]) /\ OutsOf(gs[k].cells) \subseteq S
  /\ \A i \in S : \E k \in DOMAIN gs : i \in OutsOf(gs[k].cells)
  /\ \A k, l \in DOMAIN gs : k # l => OutsOf(gs[k].cells) \cap OutsOf(gs[l].cells) = {}

LEMMA AloneCovers ==
  ASSUME NEW cells, Straight(cells)
  PROVE  Covers(Alone(cells), OutsOf(cells))
<1> DEFINE n == Len(cells)
<1>1. n \in Nat /\ DOMAIN cells = 1 .. n /\ \A k \in 1 .. n : cells[k] \in CellType
  BY DEF Straight
<1>2. Alone(cells) = [k \in 1 .. n |-> Group("scalar", <<cells[k]>>, 0)]
  BY <1>1 DEF Alone
<1>3. ASSUME NEW k \in 1 .. n
      PROVE  /\ Group("scalar", <<cells[k]>>, 0) \in GroupType
             /\ GroupRight(Group("scalar", <<cells[k]>>, 0))
             /\ OutsOf(Group("scalar", <<cells[k]>>, 0).cells) = {cells[k].o}
  <2> DEFINE one == <<cells[k]>>
             g == Group("scalar", one, 0)
  <2>1. one \in Seq(CellType) /\ DOMAIN one = {1} /\ one[1] = cells[k]
    BY <1>1
  <2> HIDE DEF one
  <2>2. g = [kernel |-> "scalar", cells |-> one, among |-> 0]
    BY DEF Group
  <2>3. g \in GroupType
    BY <2>1, <2>2 DEF GroupType
  <2>4. cells[k].m = cells[k].o
    BY <1>1 DEF Straight
  <2>5. g.kernel = "scalar" /\ g.cells = one
    BY <2>2
  <2>6. GroupRight(g)
    BY <2>1, <2>3, <2>4, <2>5 DEF GroupRight
  <2>7. OutsOf(g.cells) = {cells[k].o}
    BY <2>1, <2>5 DEF OutsOf
  <2> QED BY <2>3, <2>6, <2>7 DEF one
<1> DEFINE e(k) == Group("scalar", <<cells[k]>>, 0)
<1>4. \A k \in 1 .. n : /\ e(k) \in GroupType /\ GroupRight(e(k))
                        /\ OutsOf(e(k).cells) = {cells[k].o}
  BY <1>3
<1>5. Alone(cells) = [k \in 1 .. n |-> e(k)]
  BY <1>2
<1> HIDE DEF e, n
<1>6. Alone(cells) \in Seq(GroupType) /\ DOMAIN Alone(cells) = 1 .. n
  <2>1. [k \in 1 .. n |-> e(k)] \in Seq(GroupType)
    BY <1>1, <1>4, IsASeq
  <2> QED BY <1>5, <2>1
<1>7. \A k \in 1 .. n : Alone(cells)[k] = e(k)
  BY <1>5
<1>8. OutsOf(cells) = {cells[k].o : k \in 1 .. n}
  BY <1>1 DEF OutsOf
<1>9. \A k, l \in 1 .. n : cells[k].o = cells[l].o => k = l
  BY <1>1 DEF Straight
<1>10. \A k \in 1 .. n : GroupRight(Alone(cells)[k]) /\ OutsOf(Alone(cells)[k].cells) = {cells[k].o}
  BY <1>4, <1>7
<1> DEFINE gs == Alone(cells)
<1>11. ASSUME NEW k \in 1 .. n, NEW l \in 1 .. n, k # l
       PROVE  OutsOf(gs[k].cells) \cap OutsOf(gs[l].cells) = {}
  <2>1. OutsOf(gs[k].cells) = {cells[k].o} /\ OutsOf(gs[l].cells) = {cells[l].o}
    BY <1>10
  <2>2. cells[k].o # cells[l].o
    BY <1>9, <1>11
  <2> QED BY <2>1, <2>2
<1>12. \A k \in 1 .. n : GroupRight(gs[k]) /\ OutsOf(gs[k].cells) \subseteq OutsOf(cells)
  BY <1>8, <1>10
<1>13. \A i \in OutsOf(cells) : \E k \in 1 .. n : i \in OutsOf(gs[k].cells)
  BY <1>8, <1>10
<1>14. gs \in Seq(GroupType) /\ DOMAIN gs = 1 .. n
  BY <1>6
<1> HIDE DEF gs
<1>15. Covers(gs, OutsOf(cells))
  BY <1>11, <1>12, <1>13, <1>14 DEF Covers
<1> QED BY <1>15 DEF gs

LEMMA OneGroupCovers ==
  ASSUME NEW g, GroupRight(g)
  PROVE  Covers(<<g>>, OutsOf(g.cells))
<1>1. g \in GroupType
  BY DEF GroupRight
<1>2. <<g>> \in Seq(GroupType) /\ DOMAIN <<g>> = {1} /\ <<g>>[1] = g
  BY <1>1
<1> QED BY <1>2 DEF Covers

LEMMA HashedCovers ==
  ASSUME NEW cells, Straight(cells), Len(cells) = 4, mode.simd, NEW among \in 4 .. Window
  PROVE  Covers(Hashed(cells, among), OutsOf(cells))
<1>0. Window \in Nat
  BY HashConstants
<1>1. among \in Nat /\ cells \in Seq(CellType)
  BY <1>0 DEF Straight
<1>2. ASSUME NEW kernel \in {"equal", "masked"}, kernel = "equal" => SameLen(cells)
      PROVE  Covers(<<Group(kernel, cells, among)>>, OutsOf(cells))
  <2> DEFINE g == Group(kernel, cells, among)
  <2>1. g = [kernel |-> kernel, cells |-> cells, among |-> among]
    BY DEF Group
  <2>2. g \in GroupType /\ g.kernel = kernel /\ g.cells = cells /\ g.among = among
    BY <1>1, <2>1 DEF GroupType
  <2>3. GroupRight(g)
    BY <1>2, <2>2 DEF GroupRight, SameLen, Straight
  <2> HIDE DEF g
  <2>4. Covers(<<g>>, OutsOf(g.cells))
    BY <2>3, OneGroupCovers
  <2> QED BY <2>2, <2>4 DEF g
<1>3. CASE SameLen(cells)
  BY <1>2, <1>3 DEF Hashed
<1>4. CASE ~ SameLen(cells) /\ Sparse(cells)
  BY <1>4, AloneCovers DEF Hashed
<1>5. CASE ~ SameLen(cells) /\ ~ Sparse(cells)
  BY <1>2, <1>5 DEF Hashed
<1> QED BY <1>3, <1>4, <1>5

LEMMA ConcatCovers ==
  ASSUME NEW f, NEW S, Covers(f, S), NEW g, NEW U, Covers(g, U), S \cap U = {}
  PROVE  Covers(f \o g, S \cup U)
<1> DEFINE a == Len(f)
           b == Len(g)
           h == f \o g
<1>1. f \in Seq(GroupType) /\ g \in Seq(GroupType)
  BY DEF Covers
<1>2. a \in Nat /\ b \in Nat /\ DOMAIN f = 1 .. a /\ DOMAIN g = 1 .. b
  BY <1>1
<1>3. /\ h \in Seq(GroupType) /\ Len(h) = a + b
      /\ \A i \in 1 .. a + b : h[i] = IF i <= a THEN f[i] ELSE g[i - a]
  BY <1>1, ConcatProperties
<1> HIDE DEF h
<1>4. DOMAIN h = 1 .. a + b
  BY <1>3
<1> HIDE DEF a, b
<1>5. ASSUME NEW k \in 1 .. a + b
      PROVE  \/ k \in 1 .. a /\ h[k] = f[k]
             \/ k - a \in 1 .. b /\ h[k] = g[k - a]
  BY <1>2, <1>3
<1>6. ASSUME NEW k \in 1 .. a
      PROVE  k \in 1 .. a + b /\ h[k] = f[k]
  BY <1>2, <1>3
<1>7. ASSUME NEW k \in 1 .. b
      PROVE  a + k \in 1 .. a + b /\ h[a + k] = g[k]
  <2>1. a + k \in 1 .. a + b /\ ~ (a + k <= a) /\ a + k - a = k
    BY <1>2
  <2>2. PICK x \in 1 .. a + b : x = a + k
    BY <2>1
  <2>3. h[x] = IF x <= a THEN f[x] ELSE g[x - a]
    BY <1>3
  <2>4. ~ (x <= a) /\ x - a = k
    BY <1>2, <2>2
  <2>5. h[x] = g[k]
    BY <2>3, <2>4
  <2> QED BY <2>1, <2>2, <2>5
<1>8. /\ \A k \in 1 .. a : GroupRight(f[k]) /\ OutsOf(f[k].cells) \subseteq S
      /\ \A k \in 1 .. b : GroupRight(g[k]) /\ OutsOf(g[k].cells) \subseteq U
  BY <1>2 DEF Covers
<1>9. ASSUME NEW k \in 1 .. a + b
      PROVE  GroupRight(h[k]) /\ OutsOf(h[k].cells) \subseteq S \cup U
  BY <1>5, <1>8
<1>10. ASSUME NEW i \in S \cup U
       PROVE  \E k \in 1 .. a + b : i \in OutsOf(h[k].cells)
  <2>1. CASE i \in S
    <3>1. PICK k \in 1 .. a : i \in OutsOf(f[k].cells)
      BY <1>2, <2>1 DEF Covers
    <3> QED BY <1>6, <3>1
  <2>2. CASE i \in U
    <3>1. PICK k \in 1 .. b : i \in OutsOf(g[k].cells)
      BY <1>2, <2>2 DEF Covers
    <3> QED BY <1>7, <3>1
  <2> QED BY <2>1, <2>2
<1>11. ASSUME NEW k \in 1 .. a + b, NEW l \in 1 .. a + b, k # l
       PROVE  OutsOf(h[k].cells) \cap OutsOf(h[l].cells) = {}
  <2>1. CASE k \in 1 .. a /\ h[k] = f[k] /\ l \in 1 .. a /\ h[l] = f[l]
    BY <1>2, <1>11, <2>1 DEF Covers
  <2>2. CASE k - a \in 1 .. b /\ h[k] = g[k - a] /\ l - a \in 1 .. b /\ h[l] = g[l - a]
    <3>1. k - a # l - a
      BY <1>2, <1>11
    <3> QED BY <1>2, <2>2, <3>1 DEF Covers
  <2>3. CASE k \in 1 .. a /\ h[k] = f[k] /\ l - a \in 1 .. b /\ h[l] = g[l - a]
    BY <1>8, <2>3
  <2>4. CASE k - a \in 1 .. b /\ h[k] = g[k - a] /\ l \in 1 .. a /\ h[l] = f[l]
    BY <1>8, <2>4
  <2> QED BY <1>5, <2>1, <2>2, <2>3, <2>4
<1>12. Covers(h, S \cup U)
  BY <1>3, <1>4, <1>9, <1>10, <1>11 DEF Covers
<1> QED BY <1>12 DEF h

LEMMA NoneCovers == Covers(<<>>, {})
BY DEF Covers

LEMMA FlattenCovers ==
  ASSUME NEW ss, NEW n \in Nat, NEW A, ss \in Seq(Seq(GroupType)), Len(ss) = n,
         \A p \in 1 .. n : Covers(ss[p], A[p]),
         \A p, q \in 1 .. n : p # q => A[p] \cap A[q] = {},
         NEW U, \A x : x \in U <=> \E p \in 1 .. n : x \in A[p]
  PROVE  Covers(FlattenSeq(ss), U)
<1>1. PICK g \in [0 .. n -> Seq(GroupType)] :
        /\ g[0] = <<>> /\ g[n] = FlattenSeq(ss)
        /\ \A j \in 1 .. n : g[j] = g[j-1] \o ss[j]
  <2>1. \E g \in [0 .. Len(ss) -> Seq(GroupType)] :
          /\ g[0] = <<>> /\ g[Len(ss)] = FlattenSeq(ss)
          /\ \A j \in 1 .. Len(ss) : g[j] = g[j-1] \o ss[j]
    BY FlattenIs, ZenonT(60)
  <2> QED BY <2>1, Zenon
<1> DEFINE upto(i) == UNION {A[p] : p \in 1 .. i}
           E == {i \in Nat : i \in 0 .. n => Covers(g[i], upto(i))}
<1>2. 0 \in E
  <2>1. upto(0) = {}
    OBVIOUS
  <2> HIDE DEF upto
  <2> QED BY <1>1, <2>1, NoneCovers
<1>3. ASSUME NEW i \in Nat, i \in E
      PROVE  i + 1 \in E
  <2>1. SUFFICES ASSUME i + 1 \in 0 .. n PROVE Covers(g[i+1], upto(i+1))
    OBVIOUS
  <2>2. i \in 0 .. n /\ i + 1 \in 1 .. n /\ i + 1 - 1 = i
    BY <2>1
  <2>3. Covers(g[i], upto(i)) /\ Covers(ss[i+1], A[i+1])
    BY <1>3, <2>2
  <2>4. g[i+1] = g[i] \o ss[i+1]
    <3>1. PICK j \in 1 .. n : j = i + 1
      BY <2>2
    <3>2. g[j] = g[j-1] \o ss[j]
      BY <1>1
    <3>3. j - 1 = i
      BY <3>1
    <3> QED BY <3>1, <3>2, <3>3
  <2>5. upto(i+1) = upto(i) \cup A[i+1]
    <3>1. \A p : p \in 1 .. i + 1 <=> p \in 1 .. i \/ p = i + 1
      OBVIOUS
    <3> DEFINE I == 1 .. i
               J == 1 .. i + 1
    <3>2. \A p : p \in J <=> p \in I \/ p = i + 1
      BY <3>1
    <3> HIDE DEF I, J
    <3>3. UNION {A[p] : p \in J} = (UNION {A[p] : p \in I}) \cup A[i+1]
      BY <3>2
    <3> QED BY <3>3 DEF I, J
  <2>6. upto(i) \cap A[i+1] = {}
    <3>1. \A p \in 1 .. i : p \in 1 .. n /\ p # i + 1
      BY <2>2
    <3>2. \A p \in 1 .. i : A[p] \cap A[i+1] = {}
      BY <2>2, <3>1
    <3> QED BY <3>2
  <2> HIDE DEF upto
  <2>7. Covers(g[i] \o ss[i+1], upto(i) \cup A[i+1])
    BY <2>3, <2>6, ConcatCovers
  <2> QED BY <2>4, <2>5, <2>7
<1>4. Nat \subseteq E
  <2> HIDE DEF E
  <2> QED BY <1>2, <1>3, Induction
<1>5. n \in E /\ n \in 0 .. n
  <2> HIDE DEF E
  <2> QED BY <1>4
<1>6. Covers(g[n], upto(n))
  <2> HIDE DEF upto
  <2> QED BY <1>5
<1>7. upto(n) = U
  OBVIOUS
<1> HIDE DEF upto
<1> QED BY <1>1, <1>6, <1>7, Zenon

(* A piece of a cut, and who it serves.                                    *)
LEMMA PiecesStraight ==
  ASSUME NEW cells, Straight(cells), NEW k \in Nat \ {0}
  PROVE  /\ Cut(cells, k) \in Seq(Seq(CellType))
         /\ Len(Cut(cells, k)) = DivCeil(Len(cells), k) /\ DivCeil(Len(cells), k) \in Nat
         /\ \A p \in 1 .. DivCeil(Len(cells), k) :
              Straight(Cut(cells, k)[p]) /\ Len(Cut(cells, k)[p]) \in 1 .. k
         /\ \A p, q \in 1 .. DivCeil(Len(cells), k) :
              p # q => OutsOf(Cut(cells, k)[p]) \cap OutsOf(Cut(cells, k)[q]) = {}
         /\ \A x : x \in OutsOf(cells)
                    <=> \E p \in 1 .. DivCeil(Len(cells), k) : x \in OutsOf(Cut(cells, k)[p])
<1> DEFINE n == Len(cells)
           m == DivCeil(n, k)
           part == Cut(cells, k)
           first(p) == (p - 1) * k
<1>0. n \in Nat /\ DOMAIN cells = 1 .. n /\ cells \in Seq(CellType)
  BY DEF Straight
<1>1. n \in Nat /\ DOMAIN cells = 1 .. n /\ cells \in Seq(CellType) /\ m \in Nat
  <2> HIDE DEF n
  <2> QED BY <1>0, DivCeilIs
<1>2. /\ DOMAIN part = 1 .. m /\ part = [p \in 1 .. m |-> part[p]]
      /\ \A p \in 1 .. m :
           /\ part[p] \in Seq(CellType)
           /\ Len(part[p]) \in 1 .. k
           /\ Len(part[p]) = Lesser(p * k, n) - first(p)
           /\ \A j \in 1 .. Len(part[p]), x \in Int :
                x = first(p) + j => x \in 1 .. n /\ part[p][j] = cells[x]
  <2>1. DOMAIN part = 1 .. m /\ part = [p \in 1 .. m |-> part[p]]
    BY <1>0, CutLen, Zenon
  <2>2. ASSUME NEW p \in 1 .. m
        PROVE  /\ part[p] \in Seq(CellType)
               /\ Len(part[p]) = Lesser(p * k, n) - first(p)
               /\ \A j \in 1 .. Len(part[p]), x \in Int :
                    x = first(p) + j => x \in 1 .. n /\ part[p][j] = cells[x]
    <3> HIDE DEF n, part, m, first
    <3>1. cells \in Seq(CellType) /\ p \in 1 .. DivCeil(Len(cells), k)
      BY <1>0 DEF m, n
    <3>2. Cut(cells, k)[p] \in Seq(CellType) /\ IsPiece(Cut(cells, k)[p], cells, k, p)
      BY <3>1, CutPiece
    <3> QED BY <3>2, Zenon DEF IsPiece, n, part, first
  <2>3. ASSUME NEW p \in 1 .. m
        PROVE  Lesser(p * k, n) - first(p) \in 1 .. k
    <3> HIDE DEF n
    <3> QED BY <1>0, CutBounds DEF m
  <2> HIDE DEF part, m, first, n
  <2>4. \A p \in 1 .. m : Len(part[p]) \in 1 .. k
    BY <2>2, <2>3
  <2> QED BY <2>1, <2>2, <2>4
<1>3. \A p \in 1 .. m : part[p] \in Seq(CellType) /\ DOMAIN part[p] = 1 .. Len(part[p])
  <2> HIDE DEF part, m, first, n
  <2> QED BY <1>2
<1> HIDE DEF part, m, first
<1>14. part \in Seq(Seq(CellType)) /\ Len(part) = m
  <2> DEFINE e(p) == part[p]
  <2>1. \A p \in 1 .. m : e(p) \in Seq(CellType)
    BY <1>3
  <2>2. part = [p \in 1 .. m |-> e(p)]
    BY <1>2
  <2>3. m \in Nat
    BY <1>1
  <2> HIDE DEF e
  <2>4. [p \in 1 .. m |-> e(p)] \in Seq(Seq(CellType))
    BY <2>1, <2>3, IsASeq
  <2>5. Len([p \in 1 .. m |-> e(p)]) = m
    BY <2>3
  <2> QED BY <2>2, <2>4, <2>5
<1>15. ASSUME NEW p \in 1 .. m, NEW j \in 1 .. Len(part[p])
       PROVE  \E x \in 1 .. n : x = first(p) + j /\ part[p][j] = cells[x]
  <2>1. first(p) + j \in Int
    BY <1>1 DEF first
  <2> QED BY <1>2, <2>1
<1>4. \A i, j \in 1 .. n : cells[i].o = cells[j].o => i = j
  BY <1>1 DEF Straight
<1>5. \A i \in 1 .. n : cells[i].m = cells[i].o
  BY <1>1 DEF Straight
<1>6. ASSUME NEW p \in 1 .. m, NEW q \in 1 .. m, NEW i \in 1 .. Len(part[p]), NEW j \in 1 .. Len(part[q]),
             part[p][i].o = part[q][j].o
      PROVE  p = q /\ i = j
  <2>1. PICK x \in 1 .. n : x = first(p) + i /\ part[p][i] = cells[x]
    BY <1>15
  <2>2. PICK y \in 1 .. n : y = first(q) + j /\ part[q][j] = cells[y]
    BY <1>15
  <2>3. first(p) + i = first(q) + j
    BY <1>4, <1>6, <2>1, <2>2
  <2>4. i \in 1 .. k /\ j \in 1 .. k /\ p \in Nat \ {0} /\ q \in Nat \ {0}
    <3>1. Len(part[p]) \in 1 .. k /\ Len(part[q]) \in 1 .. k
      BY <1>2
    <3> QED BY <1>1, <3>1
  <2>5. (p - 1) * k + i = (q - 1) * k + j
    BY <2>3 DEF first
  <2>6. k \in Nat \ {0}
    OBVIOUS
  <2> HIDE DEF first
  <2> QED BY SMTT(30), <2>4, <2>5, <2>6, CutApart
<1>7. ASSUME NEW p \in 1 .. m
      PROVE  Straight(part[p]) /\ Len(part[p]) \in 1 .. k
  <2>1. ASSUME NEW j \in 1 .. Len(part[p])
        PROVE  part[p][j].m = part[p][j].o
    <3>1. PICK x \in 1 .. n : x = first(p) + j /\ part[p][j] = cells[x]
      BY <1>15
    <3> QED BY <1>5, <3>1
  <2>2. \A i, j \in 1 .. Len(part[p]) : part[p][i].o = part[p][j].o => i = j
    BY <1>6
  <2> QED BY <1>2, <1>3, <2>1, <2>2 DEF Straight
<1>8. \A p \in 1 .. m : OutsOf(part[p]) = {part[p][j].o : j \in 1 .. Len(part[p])}
  BY <1>3 DEF OutsOf
<1>9. ASSUME NEW p \in 1 .. m, NEW q \in 1 .. m, p # q
      PROVE  OutsOf(part[p]) \cap OutsOf(part[q]) = {}
  <2>1. SUFFICES ASSUME NEW x \in OutsOf(part[p]), x \in OutsOf(part[q]) PROVE FALSE
    OBVIOUS
  <2>2. PICK i \in 1 .. Len(part[p]) : x = part[p][i].o
    BY <1>8
  <2>3. PICK j \in 1 .. Len(part[q]) : x = part[q][j].o
    BY <1>8, <2>1
  <2> QED BY <1>6, <1>9, <2>2, <2>3
<1>10. OutsOf(cells) = {cells[i].o : i \in 1 .. n}
  BY <1>1 DEF OutsOf
<1>11. ASSUME NEW p \in 1 .. m, NEW x \in OutsOf(part[p])
       PROVE  x \in OutsOf(cells)
  <2>1. PICK j \in 1 .. Len(part[p]) : x = part[p][j].o
    BY <1>8
  <2>2. PICK y \in 1 .. n : y = first(p) + j /\ part[p][j] = cells[y]
    BY <1>15
  <2> QED BY <1>10, <2>1, <2>2
<1>12. ASSUME NEW x \in OutsOf(cells)
       PROVE  \E p \in 1 .. m : x \in OutsOf(part[p])
  <2>1. PICK i \in 1 .. n : x = cells[i].o
    BY <1>10
  <2>2. PICK p \in 1 .. m : /\ i - (p - 1) * k \in 1 .. Lesser(p * k, n) - (p - 1) * k
                            /\ i = (p - 1) * k + (i - (p - 1) * k)
    <3> HIDE DEF n
    <3> QED BY <1>1, CutCovers DEF m
  <2> DEFINE j == i - first(p)
  <2>3. j \in 1 .. Len(part[p]) /\ i = first(p) + j
    BY <1>2, <2>2 DEF first
  <2> HIDE DEF j
  <2>4. part[p][j].o = x
    BY <1>2, <2>1, <2>3
  <2> QED BY <1>8, <2>3, <2>4
<1>13. \A x : x \in OutsOf(cells) <=> \E p \in 1 .. m : x \in OutsOf(part[p])
  BY <1>11, <1>12
<1> QED BY <1>1, <1>7, <1>9, <1>13, <1>14 DEF part, m

Divided(part, cells, m, k) ==
  /\ part \in Seq(Seq(CellType)) /\ Len(part) = m /\ m \in Nat
  /\ \A p \in 1 .. m : Straight(part[p]) /\ Len(part[p]) \in 1 .. k
  /\ \A p, q \in 1 .. m : p # q => OutsOf(part[p]) \cap OutsOf(part[q]) = {}
  /\ \A x : x \in OutsOf(cells) <=> \E p \in 1 .. m : x \in OutsOf(part[p])

LEMMA PiecesDivide ==
  ASSUME NEW cells, Straight(cells), NEW k \in Nat \ {0}
  PROVE  Divided(Cut(cells, k), cells, DivCeil(Len(cells), k), k)
BY PiecesStraight DEF Divided

(* What covers the pieces, joined, covers the whole.                       *)
LEMMA CutCoversAll ==
  ASSUME NEW cells, Straight(cells), NEW k \in Nat \ {0}, NEW ss,
         DOMAIN ss = DOMAIN Cut(cells, k), ss = [p \in DOMAIN ss |-> ss[p]],
         \A p \in DOMAIN Cut(cells, k) : Covers(ss[p], OutsOf(Cut(cells, k)[p]))
  PROVE  Covers(FlattenSeq(ss), OutsOf(cells))
<1> DEFINE m == DivCeil(Len(cells), k)
           part == Cut(cells, k)
           A == [p \in 1 .. m |-> OutsOf(part[p])]
<1>1. /\ part \in Seq(Seq(CellType)) /\ Len(part) = m /\ m \in Nat
      /\ \A p, q \in 1 .. m : p # q => OutsOf(part[p]) \cap OutsOf(part[q]) = {}
      /\ \A x : x \in OutsOf(cells) <=> \E p \in 1 .. m : x \in OutsOf(part[p])
  BY PiecesStraight
<1> HIDE DEF m, part
<1>2. DOMAIN part = 1 .. m /\ m \in Nat
  BY <1>1
<1>3. \A p \in 1 .. m : Covers(ss[p], A[p])
  BY <1>2 DEF part
<1>4. ss \in Seq(Seq(GroupType)) /\ Len(ss) = m
  <2> DEFINE e(p) == ss[p]
  <2>1. \A p \in 1 .. m : e(p) \in Seq(GroupType)
    BY <1>3 DEF Covers
  <2>2. ss = [p \in 1 .. m |-> e(p)]
    BY <1>2 DEF part
  <2> HIDE DEF e
  <2>3. [p \in 1 .. m |-> e(p)] \in Seq(Seq(GroupType))
    BY <1>2, <2>1, IsASeq
  <2>4. Len([p \in 1 .. m |-> e(p)]) = m
    BY <1>2
  <2> QED BY <2>2, <2>3, <2>4
<1>5. \A p, q \in 1 .. m : p # q => A[p] \cap A[q] = {}
  BY <1>1
<1>6. \A x : x \in OutsOf(cells) <=> \E p \in 1 .. m : x \in A[p]
  BY <1>1
<1> HIDE DEF A
<1> QED BY <1>2, <1>3, <1>4, <1>5, <1>6, FlattenCovers

(* The first a messages and the others.                                    *)
LEMMA HalvesStraight ==
  ASSUME NEW cells, Straight(cells), NEW a \in 0 .. Len(cells)
  PROVE  LET left  == SubSeq(cells, 1, a)
             right == SubSeq(cells, a + 1, Len(cells))
         IN  /\ Straight(left) /\ Len(left) = a
             /\ \A i \in 1 .. a : left[i] = cells[i]
             /\ Straight(right)
             /\ OutsOf(left) \cap OutsOf(right) = {}
             /\ OutsOf(left) \cup OutsOf(right) = OutsOf(cells)
<1> DEFINE n == Len(cells)
           left == SubSeq(cells, 1, a)
           right == SubSeq(cells, a + 1, n)
<1>1. n \in Nat /\ DOMAIN cells = 1 .. n /\ cells \in Seq(CellType) /\ a \in Nat /\ a <= n
  BY DEF Straight
<1>2. \A i \in 1 .. n : cells[i] \in CellType
  BY <1>1
<1>3. left \in Seq(CellType) /\ Len(left) = a /\ \A i \in 1 .. a : left[i] = cells[i]
  <2> HIDE DEF n
  <2>1. \A i \in 1 .. a : cells[i] \in CellType
    BY <1>1, <1>2
  <2>2. /\ left \in Seq(CellType)
        /\ Len(left) = IF 1 <= a THEN a - 1 + 1 ELSE 0
        /\ \A i \in 1 .. a - 1 + 1 : left[i] = cells[1 + i - 1]
    BY <1>1, <2>1, SubSeqProperties
  <2> HIDE DEF left
  <2>3. a - 1 + 1 = a /\ \A i \in 1 .. a : 1 + i - 1 = i
    BY <1>1
  <2>4. Len(left) = a
    BY <1>1, <2>2
  <2> QED BY <2>2, <2>3, <2>4
<1>4. right \in Seq(CellType) /\ Len(right) = n - a /\ \A i \in 1 .. n - a : right[i] = cells[a + i]
  <2> HIDE DEF n
  <2>1. \A i \in a + 1 .. n : cells[i] \in CellType
    BY <1>1, <1>2
  <2>2. /\ right \in Seq(CellType)
        /\ Len(right) = IF a + 1 <= n THEN n - (a + 1) + 1 ELSE 0
        /\ \A i \in 1 .. n - (a + 1) + 1 : right[i] = cells[(a + 1) + i - 1]
    <3>1. a + 1 \in Int /\ n \in Int
      BY <1>1
    <3> QED BY <2>1, <3>1, SubSeqProperties
  <2> HIDE DEF right
  <2>3. n - (a + 1) + 1 = n - a /\ \A i \in 1 .. n - a : (a + 1) + i - 1 = a + i
    BY <1>1
  <2>4. Len(right) = n - a
    BY <1>1, <2>2
  <2> QED BY <2>2, <2>3, <2>4
<1> HIDE DEF n, left, right
<1>5. DOMAIN left = 1 .. a /\ DOMAIN right = 1 .. n - a
  BY <1>1, <1>3, <1>4
<1>6. \A i \in 1 .. n - a : a + i \in 1 .. n
  BY <1>1
<1>7. \A i \in 1 .. a : i \in 1 .. n
  BY <1>1
<1>8. /\ \A i, j \in 1 .. n : cells[i].o = cells[j].o => i = j
      /\ \A i \in 1 .. n : cells[i].m = cells[i].o
  BY <1>1 DEF Straight
<1>9. Straight(left)
  BY <1>3, <1>5, <1>7, <1>8 DEF Straight
<1>10. Straight(right)
  <2>1. \A i \in 1 .. n - a : right[i].m = right[i].o
    BY <1>4, <1>6, <1>8
  <2>2. ASSUME NEW i \in 1 .. n - a, NEW j \in 1 .. n - a, right[i].o = right[j].o
        PROVE  i = j
    <3>1. a + i = a + j
      BY <1>4, <1>6, <1>8, <2>2
    <3> QED BY <1>1, <3>1
  <2> QED BY <1>4, <1>5, <2>1, <2>2 DEF Straight
<1>11. OutsOf(left) \cap OutsOf(right) = {}
  <2>1. SUFFICES ASSUME NEW i \in 1 .. a, NEW j \in 1 .. n - a, left[i].o = right[j].o
                 PROVE  FALSE
    BY <1>5 DEF OutsOf
  <2>2. /\ i \in 1 .. n /\ left[i] = cells[i]
        /\ a + j \in 1 .. n /\ right[j] = cells[a + j]
    BY <1>3, <1>4, <1>6, <1>7
  <2>3. PICK l \in 1 .. n : l = a + j
    BY <2>2
  <2>4. cells[i].o = cells[l].o
    BY <2>1, <2>2, <2>3
  <2>5. i = a + j
    BY <1>8, <2>2, <2>3, <2>4
  <2> QED BY <1>1, <2>5
<1>12. OutsOf(left) \cup OutsOf(right) = OutsOf(cells)
  <2>1. ASSUME NEW x \in OutsOf(cells)
        PROVE  x \in OutsOf(left) \cup OutsOf(right)
    <3>1. PICK i \in 1 .. n : x = cells[i].o
      BY <1>1 DEF OutsOf
    <3>2. CASE i <= a
      <4>1. i \in 1 .. a
        BY <3>2
      <4> QED BY <1>3, <1>5, <3>1, <4>1 DEF OutsOf
    <3>3. CASE ~ (i <= a)
      <4>1. i - a \in 1 .. n - a /\ a + (i - a) = i
        BY <1>1, <3>3
      <4>2. right[i - a] = cells[a + (i - a)]
        BY <1>4, <4>1
      <4>3. right[i - a].o = x
        BY <3>1, <4>1, <4>2
      <4> QED BY <1>5, <4>1, <4>3 DEF OutsOf
    <3> QED BY <3>2, <3>3
  <2>2. OutsOf(left) \subseteq OutsOf(cells)
    BY <1>1, <1>3, <1>5, <1>7 DEF OutsOf
  <2>3. OutsOf(right) \subseteq OutsOf(cells)
    BY <1>1, <1>4, <1>5, <1>6 DEF OutsOf
  <2> QED BY <2>1, <2>2, <2>3
<1> QED BY <1>3, <1>9, <1>10, <1>11, <1>12 DEF left, right, n

-----------------------------------------------------------------------------
(* The groups of a work item.                                              *)

LEMMA RestIs ==
  ASSUME NEW n \in Nat
  PROVE  /\ Rest(n) \in Nat /\ Rest(n) <= n /\ Rest(n) = 4 * (n \div 4) /\ n \div 4 \in Nat
         /\ DivCeil(Rest(n), 4) = n \div 4 /\ (Rest(n) > 0 => n >= 4)
BY DEF Rest, DivCeil

(* The messages in whole groups, and the others.                           *)
LEMMA WholeGroups ==
  ASSUME NEW cells, Straight(cells)
  PROVE  LET n     == Len(cells)
             whole == SubSeq(cells, 1, 4 * (n \div 4))
             rest  == SubSeq(cells, Rest(n) + 1, n)
         IN  /\ Straight(whole) /\ Straight(rest)
             /\ OutsOf(whole) \cap OutsOf(rest) = {}
             /\ OutsOf(whole) \cup OutsOf(rest) = OutsOf(cells)
             /\ DOMAIN Cut(whole, 4) # {} => n >= 4
             /\ \A g \in DOMAIN Cut(whole, 4) : Straight(Cut(whole, 4)[g]) /\ Len(Cut(whole, 4)[g]) = 4
<1> DEFINE n == Len(cells)
           a == Rest(n)
           whole == SubSeq(cells, 1, a)
           rest == SubSeq(cells, a + 1, n)
           q == n \div 4
<1>1. n \in Nat
  BY DEF Straight
<1>2. a \in Nat /\ a <= n /\ a = 4 * q /\ q \in Nat /\ DivCeil(a, 4) = q /\ (a > 0 => n >= 4)
  <2> HIDE DEF n
  <2> QED BY <1>1, RestIs
<1> HIDE DEF a, q
<1>3. a \in 0 .. Len(cells)
  BY <1>1, <1>2
<1>4. /\ Straight(whole) /\ Straight(rest) /\ Len(whole) = a
      /\ OutsOf(whole) \cap OutsOf(rest) = {} /\ OutsOf(whole) \cup OutsOf(rest) = OutsOf(cells)
  BY <1>3, HalvesStraight
<1> HIDE DEF whole, rest, n
<1>5. DOMAIN Cut(whole, 4) = 1 .. q
  <2>1. whole \in Seq(CellType) /\ 4 \in Nat \ {0}
    BY <1>4 DEF Straight
  <2>2. DOMAIN Cut(whole, 4) = 1 .. DivCeil(Len(whole), 4)
    BY <2>1, CutLen
  <2> QED BY <1>2, <1>4, <2>2
<1>6. ASSUME NEW g \in 1 .. q
      PROVE  Straight(Cut(whole, 4)[g]) /\ Len(Cut(whole, 4)[g]) = 4
  <2>1. 4 \in Nat \ {0} /\ g \in 1 .. DivCeil(Len(whole), 4)
    BY <1>2, <1>4
  <2>2. Straight(Cut(whole, 4)[g])
    BY <1>4, <2>1, PiecesStraight
  <2>3. whole \in Seq(CellType)
    BY <1>4 DEF Straight
  <2>4. IsPiece(Cut(whole, 4)[g], whole, 4, g)
    BY <2>1, <2>3, CutPiece
  <2>5. Len(Cut(whole, 4)[g]) = Lesser(g * 4, Len(whole)) - (g - 1) * 4
    BY <2>4 DEF IsPiece
  <2>6. Lesser(g * 4, Len(whole)) = g * 4
    BY <1>2, <1>4 DEF Lesser
  <2>7. g * 4 - (g - 1) * 4 = 4
    BY <1>2
  <2>8. Len(Cut(whole, 4)[g]) = g * 4 - (g - 1) * 4
    BY <2>5, <2>6, Zenon
  <2> QED BY <2>2, <2>7, <2>8, Zenon
<1>7. DOMAIN Cut(whole, 4) # {} => n >= 4
  BY <1>2, <1>5
<1>8. whole = SubSeq(cells, 1, 4 * (n \div 4))
  BY <1>2, Zenon DEF whole, q
<1>9. rest = SubSeq(cells, Rest(n) + 1, n)
  BY DEF rest, a
<1>10. /\ Straight(whole) /\ Straight(rest)
       /\ OutsOf(whole) \cap OutsOf(rest) = {}
       /\ OutsOf(whole) \cup OutsOf(rest) = OutsOf(cells)
       /\ DOMAIN Cut(whole, 4) # {} => n >= 4
       /\ \A g \in DOMAIN Cut(whole, 4) : Straight(Cut(whole, 4)[g]) /\ Len(Cut(whole, 4)[g]) = 4
  BY <1>4, <1>5, <1>6, <1>7
<1> QED BY <1>8, <1>9, <1>10, Zenon DEF n

LEMMA InOrderCovers ==
  ASSUME NEW cells, Straight(cells), mode.simd, NEW among, Len(cells) >= 4 => among \in 4 .. Window
  PROVE  Covers(InOrder(cells, among), OutsOf(cells))
<1> DEFINE n == Len(cells)
           whole == SubSeq(cells, 1, 4 * (n \div 4))
           rest == SubSeq(cells, Rest(n) + 1, n)
           groups == Cut(whole, 4)
           ss == [g \in DOMAIN groups |-> Hashed(groups[g], among)]
<1>1. /\ Straight(whole) /\ Straight(rest)
      /\ OutsOf(whole) \cap OutsOf(rest) = {}
      /\ OutsOf(whole) \cup OutsOf(rest) = OutsOf(cells)
      /\ DOMAIN groups # {} => n >= 4
      /\ \A g \in DOMAIN groups : Straight(groups[g]) /\ Len(groups[g]) = 4
  BY WholeGroups
<1>2. InOrder(cells, among) = FlattenSeq(ss) \o Alone(rest)
  BY Zenon DEF InOrder
<1> HIDE DEF whole, rest
<1>3. ASSUME NEW g \in DOMAIN groups
      PROVE  Covers(Hashed(groups[g], among), OutsOf(groups[g]))
  <2>1. among \in 4 .. Window /\ Straight(groups[g]) /\ Len(groups[g]) = 4
    BY <1>1
  <2> HIDE DEF groups
  <2> QED BY <2>1, HashedCovers
<1>4. DOMAIN ss = DOMAIN Cut(whole, 4) /\ ss = [g \in DOMAIN ss |-> ss[g]]
  OBVIOUS
<1>5. \A g \in DOMAIN Cut(whole, 4) : Covers(ss[g], OutsOf(Cut(whole, 4)[g]))
  BY <1>3
<1> HIDE DEF ss, groups
<1>6. Covers(FlattenSeq(ss), OutsOf(whole))
  <2>1. 4 \in Nat \ {0}
    OBVIOUS
  <2> QED BY <1>1, <1>4, <1>5, <2>1, CutCoversAll
<1>7. Covers(Alone(rest), OutsOf(rest))
  BY <1>1, AloneCovers
<1>8. Covers(FlattenSeq(ss) \o Alone(rest), OutsOf(whole) \cup OutsOf(rest))
  BY <1>1, <1>6, <1>7, ConcatCovers
<1> QED BY <1>1, <1>2, <1>8

(* The messages of the cells are messages of the call.                     *)
OfCall(cells) == call.lens \in Seq(Nat) /\ OutsOf(cells) \subseteq DOMAIN call.lens

LEMMA FixedCovers ==
  ASSUME NEW cells, Straight(cells), OfCall(cells), mode.simd,
         \A i, j \in DOMAIN call.lens : call.lens[i] = call.lens[j]
  PROVE  Covers(FixedGroups(cells), OutsOf(cells))
<1> DEFINE n == Len(cells)
           whole == SubSeq(cells, 1, 4 * (n \div 4))
           rest == SubSeq(cells, Rest(n) + 1, n)
           groups == Cut(whole, 4)
           gs == [g \in DOMAIN groups |-> Group("equal", groups[g], 4)]
<1>1. /\ Straight(whole) /\ Straight(rest)
      /\ OutsOf(whole) \cap OutsOf(rest) = {}
      /\ OutsOf(whole) \cup OutsOf(rest) = OutsOf(cells)
      /\ \A g \in DOMAIN groups : Straight(groups[g]) /\ Len(groups[g]) = 4
  BY WholeGroups
<1>2. FixedGroups(cells) = gs \o Alone(rest)
  BY Zenon DEF FixedGroups
<1> HIDE DEF whole, rest
<1>3. /\ groups \in Seq(Seq(CellType))
      /\ \A g, h \in DOMAIN groups : g # h => OutsOf(groups[g]) \cap OutsOf(groups[h]) = {}
      /\ \A x : x \in OutsOf(whole) <=> \E g \in DOMAIN groups : x \in OutsOf(groups[g])
  <2> DEFINE m == DivCeil(Len(whole), 4)
  <2>1. 4 \in Nat \ {0}
    OBVIOUS
  <2>2. /\ groups \in Seq(Seq(CellType)) /\ Len(groups) = m /\ m \in Nat
        /\ \A p, q \in 1 .. m : p # q => OutsOf(groups[p]) \cap OutsOf(groups[q]) = {}
        /\ \A x : x \in OutsOf(whole) <=> \E p \in 1 .. m : x \in OutsOf(groups[p])
    <3>1. Divided(groups, whole, m, 4)
      BY <1>1, <2>1, PiecesDivide
    <3> QED BY <3>1 DEF Divided
  <2> HIDE DEF groups, m
  <2>3. DOMAIN groups = 1 .. m
    BY <2>2
  <2> QED BY <2>2, <2>3
<1> HIDE DEF groups
<1>4. ASSUME NEW g \in DOMAIN groups
      PROVE  /\ GroupRight(Group("equal", groups[g], 4))
             /\ Group("equal", groups[g], 4).cells = groups[g]
  <2> DEFINE x == Group("equal", groups[g], 4)
  <2>1. x = [kernel |-> "equal", cells |-> groups[g], among |-> 4]
    BY DEF Group
  <2>2. Straight(groups[g]) /\ Len(groups[g]) = 4
    BY <1>1
  <2>3. 4 \in 4 .. Window /\ 4 \in Nat
    BY HashConstants
  <2>4. \A k \in DOMAIN groups[g] : groups[g][k].m = groups[g][k].o /\ groups[g] \in Seq(CellType)
    BY <2>2 DEF Straight
  <2>5. ASSUME NEW k \in DOMAIN groups[g]
        PROVE  LenOf(groups[g][k]) = LenOf(groups[g][1])
    <3>1. 1 \in DOMAIN groups[g]
      BY <2>2, <2>4
    <3>2. groups[g][k].o \in OutsOf(groups[g]) /\ groups[g][1].o \in OutsOf(groups[g])
      BY <3>1 DEF OutsOf
    <3>3. OutsOf(groups[g]) \subseteq OutsOf(cells)
      BY <1>1, <1>3
    <3>4. groups[g][k].m \in DOMAIN call.lens /\ groups[g][1].m \in DOMAIN call.lens
      BY <2>4, <3>1, <3>2, <3>3 DEF OfCall
    <3> QED BY <3>4 DEF LenOf
  <2>6. x \in GroupType
    BY <2>1, <2>2, <2>3 DEF GroupType, Straight
  <2>7. x.kernel = "equal" /\ x.cells = groups[g] /\ x.among = 4
    BY <2>1
  <2> HIDE DEF x
  <2>8. GroupRight(x)
    BY <2>2, <2>3, <2>4, <2>5, <2>6, <2>7 DEF GroupRight
  <2> QED BY <2>7, <2>8 DEF x
<1>5. Covers(gs, OutsOf(whole))
  <2> DEFINE m == Len(groups)
             e(g) == Group("equal", groups[g], 4)
  <2>1. m \in Nat /\ DOMAIN groups = 1 .. m
    BY <1>3
  <2>2. \A g \in 1 .. m : GroupRight(e(g)) /\ e(g).cells = groups[g]
    BY <1>4, <2>1
  <2>3. gs = [g \in 1 .. m |-> e(g)]
    BY <2>1
  <2> HIDE DEF e, gs, m
  <2>4. \A g \in 1 .. m : e(g) \in GroupType
    BY <2>2 DEF GroupRight
  <2>5. [g \in 1 .. m |-> e(g)] \in Seq(GroupType)
    BY <2>1, <2>4, IsASeq
  <2>6. gs \in Seq(GroupType) /\ DOMAIN gs = 1 .. m
    BY <2>3, <2>5
  <2>7. \A g \in 1 .. m : GroupRight(gs[g]) /\ OutsOf(gs[g].cells) = OutsOf(groups[g])
    BY <2>2, <2>3
  <2>8. \A g \in 1 .. m : GroupRight(gs[g]) /\ OutsOf(gs[g].cells) \subseteq OutsOf(whole)
    BY <1>3, <2>1, <2>7
  <2>9. \A x \in OutsOf(whole) : \E g \in 1 .. m : x \in OutsOf(gs[g].cells)
    BY <1>3, <2>1, <2>7
  <2>10. \A g, h \in 1 .. m : g # h => OutsOf(gs[g].cells) \cap OutsOf(gs[h].cells) = {}
    <3>1. ASSUME NEW g \in 1 .. m, NEW h \in 1 .. m, g # h
          PROVE  OutsOf(gs[g].cells) \cap OutsOf(gs[h].cells) = {}
      <4>1. OutsOf(groups[g]) \cap OutsOf(groups[h]) = {}
        BY <1>3, <2>1, <3>1
      <4>2. OutsOf(gs[g].cells) = OutsOf(groups[g]) /\ OutsOf(gs[h].cells) = OutsOf(groups[h])
        BY <2>7
      <4> QED BY <4>1, <4>2
    <3> QED BY <3>1
  <2> QED BY <2>6, <2>8, <2>9, <2>10 DEF Covers
<1> HIDE DEF gs
<1>6. Covers(Alone(rest), OutsOf(rest))
  BY <1>1, AloneCovers
<1>7. Covers(gs \o Alone(rest), OutsOf(whole) \cup OutsOf(rest))
  BY <1>1, <1>5, <1>6, ConcatCovers
<1> QED BY <1>1, <1>2, <1>7

(* Regrouping keeps the messages, and each on its way.                     *)
LEMMA ReorderedStraight ==
  ASSUME NEW cells, Straight(cells), OfCall(cells), Len(cells) <= Window
  PROVE  /\ Straight(Reordered(cells)) /\ Len(Reordered(cells)) = Len(cells)
         /\ OutsOf(Reordered(cells)) = OutsOf(cells)
<1> DEFINE n == Len(cells)
           steps == [k \in DOMAIN cells |-> BlocksOf(cells[k])]
           order == Order(cells)
           new == [k \in 1 .. n |-> cells[order[k]]]
<1>1. /\ n \in Nat /\ DOMAIN cells = 1 .. n /\ cells \in Seq(CellType)
      /\ \A k \in 1 .. n : cells[k].m = cells[k].o /\ cells[k] \in CellType
      /\ \A k, l \in 1 .. n : cells[k].o = cells[l].o => k = l
  <2>1. /\ n \in Nat /\ DOMAIN cells = 1 .. n /\ cells \in Seq(CellType)
    BY DEF Straight
  <2> QED BY <2>1 DEF Straight
<1> HIDE DEF n
<1>2. ASSUME NEW k \in 1 .. n
      PROVE  BlocksOf(cells[k]) \in Nat
  <2>1. cells[k].o \in OutsOf(cells)
    BY <1>1 DEF OutsOf
  <2>2. call.lens[cells[k].m] \in Nat
    BY <1>1, <2>1 DEF OfCall
  <2> DEFINE len == LenOf(cells[k])
  <2>3. len \in Nat
    BY <2>2 DEF LenOf
  <2> HIDE DEF len
  <2>4. len \div 32 \in Nat
    BY <2>3
  <2>5. BlocksOf(cells[k]) = len \div 32 + (IF len % 32 # 0 \/ len = 0 THEN 1 ELSE 0)
    BY DEF BlocksOf, len
  <2> QED BY <2>4, <2>5
<1>3. steps \in Seq(Nat) /\ Len(steps) = n /\ DOMAIN steps = 1 .. n
  <2> DEFINE e(k) == BlocksOf(cells[k])
  <2>1. \A k \in 1 .. n : e(k) \in Nat
    BY <1>2
  <2>2. steps = [k \in 1 .. n |-> e(k)]
    BY <1>1
  <2> HIDE DEF e, steps
  <2>3. [k \in 1 .. n |-> e(k)] \in Seq(Nat)
    BY <1>1, <2>1, IsASeq
  <2> QED BY <1>1, <2>2, <2>3
<1>4. order \in [1 .. n -> 1 .. n] /\ \A k \in 1 .. n : order[Slot(steps, k)] = k
  <2>1. order = IF \A k \in DOMAIN steps : steps[k] <= CountingMax
                  THEN CountingOrder(steps) ELSE SortedOrder(steps)
    BY Zenon DEF Order
  <2>2. Len(steps) <= Window
    BY <1>3 DEF n
  <2> HIDE DEF steps, order
  <2>3. CASE \A k \in DOMAIN steps : steps[k] <= CountingMax
    <3>1. order = CountingOrder(steps)
      BY <2>1, <2>3, Zenon
    <3>2. \A k \in 1 .. Len(steps) : steps[k] <= CountingMax
      BY <1>3, <2>3
    <3>3. CountingOrder(steps) \in [1 .. n -> 1 .. n] /\ \A k \in 1 .. n : CountingOrder(steps)[Slot(steps, k)] = k
      BY <1>3, <3>2, CountingOrderIs
    <3> QED BY <3>1, <3>3
  <2>4. CASE ~ (\A k \in DOMAIN steps : steps[k] <= CountingMax)
    <3>1. order = SortedOrder(steps)
      BY <2>1, <2>4, Zenon
    <3>2. SortedOrder(steps) \in [1 .. n -> 1 .. n] /\ \A k \in 1 .. n : SortedOrder(steps)[Slot(steps, k)] = k
      BY <1>3, <2>2, SortedOrderIs
    <3> QED BY <3>1, <3>2
  <2> QED BY <2>3, <2>4
<1>5. Reordered(cells) = new
  BY <1>1 DEF Reordered
<1> HIDE DEF steps, order, new
<1>6. \A r \in 1 .. n : \E k \in 1 .. n : Slot(steps, k) = r
  BY <1>3, SlotsFilled
<1>7. \A k \in 1 .. n : Slot(steps, k) \in 1 .. n
  BY <1>3, SlotsApart
<1>8. \A r \in 1 .. n : new[r] = cells[order[r]] /\ order[r] \in 1 .. n
  BY <1>4 DEF new
<1>9. new \in Seq(CellType) /\ Len(new) = n /\ DOMAIN new = 1 .. n
  <2> DEFINE e(r) == cells[order[r]]
  <2>1. \A r \in 1 .. n : e(r) \in CellType
    BY <1>1, <1>8
  <2>2. new = [r \in 1 .. n |-> e(r)]
    BY DEF new
  <2> HIDE DEF e
  <2>3. [r \in 1 .. n |-> e(r)] \in Seq(CellType)
    BY <1>1, <2>1, IsASeq
  <2> QED BY <1>1, <2>2, <2>3
<1>10. ASSUME NEW r \in 1 .. n, NEW s \in 1 .. n, new[r].o = new[s].o
       PROVE  r = s
  <2>1. order[r] = order[s]
    BY <1>1, <1>8, <1>10
  <2>2. PICK k \in 1 .. n : Slot(steps, k) = r
    BY <1>6
  <2>3. PICK l \in 1 .. n : Slot(steps, l) = s
    BY <1>6
  <2>4. k = l
    BY <1>4, <2>1, <2>2, <2>3
  <2> QED BY <2>2, <2>3, <2>4
<1>11. Straight(new)
  <2>1. \A r \in 1 .. n : new[r].m = new[r].o
    BY <1>1, <1>8
  <2> QED BY <1>9, <1>10, <2>1 DEF Straight
<1>12. OutsOf(new) = OutsOf(cells)
  <2>1. ASSUME NEW r \in 1 .. n
        PROVE  new[r].o \in OutsOf(cells)
    BY <1>1, <1>8 DEF OutsOf
  <2>2. ASSUME NEW k \in 1 .. n
        PROVE  cells[k].o \in OutsOf(new)
    <3>1. Slot(steps, k) \in 1 .. n /\ order[Slot(steps, k)] = k
      BY <1>4, <1>7
    <3>2. new[Slot(steps, k)] = cells[k]
      BY <1>8, <3>1
    <3> QED BY <1>9, <3>1, <3>2 DEF OutsOf
  <2>3. OutsOf(new) \subseteq OutsOf(cells)
    BY <1>9, <2>1 DEF OutsOf
  <2>4. OutsOf(cells) \subseteq OutsOf(new)
    <3>1. ASSUME NEW x \in OutsOf(cells)
          PROVE  x \in OutsOf(new)
      <4>1. PICK k \in 1 .. n : x = cells[k].o
        BY <1>1 DEF OutsOf
      <4> QED BY <2>2, <4>1
    <3> QED BY <3>1
  <2> QED BY <2>3, <2>4
<1> QED BY <1>5, <1>9, <1>11, <1>12 DEF n

LEMMA WindowedCovers ==
  ASSUME NEW cells, Straight(cells), OfCall(cells), mode.simd
  PROVE  Covers(Windowed(cells), OutsOf(cells))
<1> DEFINE part == Cut(cells, Window)
           m == DivCeil(Len(cells), Window)
           groups(p) == IF SampleUniform(part[p]) THEN InOrder(part[p], 4)
                        ELSE InOrder(Reordered(part[p]), Len(part[p]))
           ss == [p \in DOMAIN part |-> groups(p)]
<1>1. Window \in Nat \ {0} /\ Window >= 4
  BY HashConstants
<1>2. Divided(part, cells, m, Window)
  BY <1>1, PiecesDivide
<1>3. Windowed(cells) = FlattenSeq(ss)
  BY Zenon DEF Windowed
<1> HIDE DEF part, m
<1>4. DOMAIN part = 1 .. m
  BY <1>2 DEF Divided
<1>5. ASSUME NEW p \in 1 .. m
      PROVE  Covers(groups(p), OutsOf(part[p]))
  <2>1. Straight(part[p]) /\ Len(part[p]) \in 1 .. Window
    BY <1>2 DEF Divided
  <2>2. OutsOf(part[p]) \subseteq OutsOf(cells)
    BY <1>2 DEF Divided
  <2>3. OfCall(part[p]) /\ Len(part[p]) <= Window
    BY <1>1, <2>1, <2>2 DEF OfCall
  <2>4. CASE SampleUniform(part[p])
    <3>1. 4 \in 4 .. Window
      BY <1>1
    <3>2. Covers(InOrder(part[p], 4), OutsOf(part[p]))
      BY <2>1, <3>1, InOrderCovers
    <3> QED BY <2>4, <3>2
  <2>5. CASE ~ SampleUniform(part[p])
    <3> DEFINE new == Reordered(part[p])
               a == Len(part[p])
    <3>1. Straight(new) /\ Len(new) = a /\ OutsOf(new) = OutsOf(part[p])
      BY <2>1, <2>3, ReorderedStraight
    <3>2. a >= 4 => a \in 4 .. Window
      BY <1>1, <2>1
    <3> HIDE DEF new, a
    <3>3. Covers(InOrder(new, a), OutsOf(new))
      BY <3>1, <3>2, InOrderCovers
    <3> QED BY <2>5, <3>1, <3>3 DEF new, a
  <2> QED BY <2>4, <2>5
<1> HIDE DEF groups
<1>6. DOMAIN ss = DOMAIN Cut(cells, Window) /\ ss = [p \in DOMAIN ss |-> ss[p]]
  BY DEF part
<1>7. \A p \in DOMAIN Cut(cells, Window) : Covers(ss[p], OutsOf(Cut(cells, Window)[p]))
  BY <1>4, <1>5 DEF part
<1> HIDE DEF ss
<1>8. Covers(FlattenSeq(ss), OutsOf(cells))
  BY <1>1, <1>6, <1>7, CutCoversAll
<1> QED BY <1>3, <1>8

(* A work item of the call under way.                                      *)
ItemRight(item) ==
  /\ item \in [from : Nat, to : Nat, len : Nat, least : Nat]
  /\ item.from = item.to
  /\ call.lens \in Seq(Nat) /\ item.to + item.len <= Len(call.lens)

Extent(item) == item.to + 1 .. item.to + item.len

LEMMA CellsStraight ==
  ASSUME NEW item, ItemRight(item)
  PROVE  /\ Straight(Cells(item)) /\ OfCall(Cells(item)) /\ Len(Cells(item)) = item.len
         /\ OutsOf(Cells(item)) = Extent(item)
<1> DEFINE n == item.len
           a == item.to
           e(k) == [m |-> a + k, o |-> a + k]
<1>1. n \in Nat /\ a \in Nat /\ a + n <= Len(call.lens) /\ call.lens \in Seq(Nat)
  BY DEF ItemRight
<1>2. Cells(item) = [k \in 1 .. n |-> e(k)]
  BY DEF Cells, ItemRight
<1> HIDE DEF n, a
<1>3. \A k \in 1 .. n : e(k) \in CellType /\ e(k).m = a + k /\ e(k).o = a + k
  BY <1>1 DEF CellType
<1> HIDE DEF e
<1>4. Cells(item) \in Seq(CellType) /\ Len(Cells(item)) = n /\ DOMAIN Cells(item) = 1 .. n
  <2>1. [k \in 1 .. n |-> e(k)] \in Seq(CellType)
    BY <1>1, <1>3, IsASeq
  <2> QED BY <1>1, <1>2, <2>1
<1>5. \A k \in 1 .. n : Cells(item)[k].m = a + k /\ Cells(item)[k].o = a + k
  BY <1>2, <1>3
<1>6. \A k, l \in 1 .. n : a + k = a + l => k = l
  BY <1>1
<1>7. Straight(Cells(item))
  BY <1>4, <1>5, <1>6 DEF Straight
<1>8. OutsOf(Cells(item)) = Extent(item)
  <2>1. \A k \in 1 .. n : a + k \in a + 1 .. a + n
    BY <1>1
  <2>2. \A i \in a + 1 .. a + n : i - a \in 1 .. n /\ a + (i - a) = i
    BY <1>1
  <2>3. OutsOf(Cells(item)) \subseteq a + 1 .. a + n
    BY <1>4, <1>5, <2>1 DEF OutsOf
  <2>4. ASSUME NEW i \in a + 1 .. a + n
        PROVE  i \in OutsOf(Cells(item))
    <3>1. Cells(item)[i - a].o = i /\ i - a \in DOMAIN Cells(item)
      BY <1>4, <1>5, <2>2
    <3> QED BY <3>1 DEF OutsOf
  <2> QED BY <2>3, <2>4 DEF Extent, a, n
<1>9. OfCall(Cells(item))
  <2>1. DOMAIN call.lens = 1 .. Len(call.lens) /\ Len(call.lens) \in Nat
    BY <1>1
  <2>2. Extent(item) \subseteq 1 .. Len(call.lens)
    BY <1>1, <2>1 DEF Extent, a, n
  <2> QED BY <1>1, <1>8, <2>1, <2>2 DEF OfCall
<1> QED BY <1>4, <1>7, <1>8, <1>9 DEF n

(* Whatever the kind and the backend, the groups of an item share its      *)
(* messages out, and the kernels may be given them.                        *)
LEMMA GroupsCover ==
  ASSUME NEW item, ItemRight(item),
         call.backend = "scalar" \/ mode.simd,
         call.kind = "fixed" => \A i, j \in DOMAIN call.lens : call.lens[i] = call.lens[j]
  PROVE  Covers(GroupsOf(item), Extent(item))
<1> DEFINE cells == Cells(item)
           parts == Blockwise(cells)
           ss == [p \in DOMAIN parts |-> Windowed(parts[p])]
<1>1. Straight(cells) /\ OfCall(cells) /\ OutsOf(cells) = Extent(item)
  BY CellsStraight
<1>2. GroupsOf(item) = IF call.backend = "scalar" THEN Alone(cells)
                       ELSE IF call.kind = "fixed" THEN FixedGroups(cells)
                       ELSE FlattenSeq(ss)
  BY Zenon DEF GroupsOf
<1> HIDE DEF cells
<1>3. CASE call.backend = "scalar"
  BY <1>1, <1>2, <1>3, AloneCovers
<1>4. CASE call.backend # "scalar" /\ call.kind = "fixed"
  <2>1. Covers(FixedGroups(cells), OutsOf(cells))
    BY <1>1, <1>4, FixedCovers
  <2> QED BY <1>1, <1>2, <1>4, <2>1
<1>5. CASE call.backend # "scalar" /\ call.kind # "fixed"
  <2>1. GroupsOf(item) = FlattenSeq(ss)
    BY <1>2, <1>5
  <2>2. CASE call.kind \in {"raw", "blocks"}
    <3>1. BlockMessages \in Nat \ {0}
      BY HashConstants
    <3>2. parts = Cut(cells, BlockMessages)
      BY <2>2 DEF Blockwise
    <3> DEFINE m == DivCeil(Len(cells), BlockMessages)
    <3> HIDE DEF parts
    <3>3. Divided(parts, cells, m, BlockMessages)
      BY <1>1, <3>1, <3>2, PiecesDivide
    <3> HIDE DEF m
    <3>4. DOMAIN parts = 1 .. m
      BY <3>3 DEF Divided
    <3>5. ASSUME NEW p \in 1 .. m
          PROVE  Covers(Windowed(parts[p]), OutsOf(parts[p]))
      <4>1. Straight(parts[p]) /\ OutsOf(parts[p]) \subseteq OutsOf(cells)
        BY <3>3 DEF Divided
      <4>2. OfCall(parts[p])
        BY <1>1, <4>1 DEF OfCall
      <4> QED BY <1>5, <4>1, <4>2, WindowedCovers
    <3>6. DOMAIN ss = DOMAIN Cut(cells, BlockMessages) /\ ss = [p \in DOMAIN ss |-> ss[p]]
      BY <3>2
    <3>7. \A p \in DOMAIN Cut(cells, BlockMessages) : Covers(ss[p], OutsOf(Cut(cells, BlockMessages)[p]))
      BY <3>2, <3>4, <3>5
    <3> HIDE DEF ss
    <3>8. Covers(FlattenSeq(ss), OutsOf(cells))
      BY <1>1, <3>1, <3>6, <3>7, CutCoversAll
    <3> QED BY <1>1, <2>1, <3>8
  <2>3. CASE call.kind \notin {"raw", "blocks"}
    <3>1. parts = <<cells>>
      BY <2>3 DEF Blockwise
    <3>2. DOMAIN parts = {1} /\ parts[1] = cells
      BY <3>1
    <3> HIDE DEF parts
    <3>3. ss = <<Windowed(cells)>>
      <4>1. ss = [p \in 1 .. 1 |-> Windowed(parts[p])]
        BY <3>2
      <4>2. \A p \in 1 .. 1 : p = 1
        OBVIOUS
      <4> QED BY <3>2, <4>1, <4>2
    <3> HIDE DEF ss
    <3>4. Covers(Windowed(cells), OutsOf(cells))
      BY <1>1, <1>5, WindowedCovers
    <3>5. ss \in Seq(Seq(GroupType)) /\ Len(ss) = 1 /\ ss[1] = Windowed(cells)
      BY <3>3, <3>4 DEF Covers
    <3> DEFINE A == [p \in 1 .. 1 |-> OutsOf(cells)]
    <3>6. /\ 1 \in Nat
          /\ \A p \in 1 .. 1 : Covers(ss[p], A[p])
          /\ \A p, q \in 1 .. 1 : p # q => A[p] \cap A[q] = {}
          /\ \A x : x \in OutsOf(cells) <=> \E p \in 1 .. 1 : x \in A[p]
      <4>1. \A p \in 1 .. 1 : p = 1 /\ A[p] = OutsOf(cells)
        OBVIOUS
      <4>2. 1 \in 1 .. 1
        OBVIOUS
      <4> HIDE DEF A
      <4> QED BY <3>4, <3>5, <4>1, <4>2
    <3> HIDE DEF A
    <3>7. Covers(FlattenSeq(ss), OutsOf(cells))
      BY <3>5, <3>6, FlattenCovers
    <3> QED BY <1>1, <2>1, <3>7
  <2> QED BY <2>2, <2>3
<1> QED BY <1>3, <1>4, <1>5

-----------------------------------------------------------------------------
(* The work items of a call share its messages out.                        *)

Shares(its, n) ==
  /\ \A x \in its : x \in [from : Nat, to : Nat, len : Nat, least : Nat] /\ x.from = x.to /\ x.to + x.len <= n
  /\ \A x, y \in its : x # y => Extent(x) \cap Extent(y) = {}
  /\ \A i \in 1 .. n : \E x \in its : i \in Extent(x)

LEMMA PiecesShare ==
  ASSUME NEW n \in Nat, NEW c \in Nat \ {0}
  PROVE  /\ Shares(Pieces(n, c), n)
         /\ \A x \in Pieces(n, c) :
              x.least = 0 /\ (c % 4 = 0 => x.len % 4 = 0 \/ x.to + x.len = n)
<1> DEFINE m == DivCeil(n, c)
           Item(k) == [from |-> k * c, to |-> k * c, len |-> Lesser(c, n - k * c), least |-> 0]
<1>1. m \in Nat /\ m * c >= n /\ \A k \in 0 .. m-1 : k * c \in Nat /\ k * c < n
  <2>1. m \in Nat /\ m * c >= n /\ \A k \in 1 .. m : (k - 1) * c < n
    BY DivCeilIs
  <2> HIDE DEF m
  <2>2. ASSUME NEW k \in 0 .. m-1
        PROVE  k * c \in Nat /\ k * c < n
    <3>1. PICK j \in 1 .. m : j = k + 1
      BY <2>1
    <3>2. j - 1 = k /\ k \in Nat
      BY <3>1
    <3>3. (j - 1) * c < n
      BY <2>1
    <3> QED BY <3>2, <3>3
  <2> QED BY <2>1, <2>2
<1>2. Pieces(n, c) = {Item(k) : k \in 0 .. m-1}
  BY DEF Pieces
<1> HIDE DEF m
<1>3. ASSUME NEW k \in 0 .. m-1
      PROVE  /\ Item(k) \in [from : Nat, to : Nat, len : Nat, least : Nat]
             /\ Item(k).from = k * c /\ Item(k).to = k * c /\ Item(k).len \in Nat
             /\ Item(k).least = 0
             /\ Item(k).len <= c /\ k * c + Item(k).len <= n
             /\ Item(k).len = c \/ k * c + Item(k).len = n
  <2>1. k * c \in Nat /\ k * c < n
    BY <1>1
  <2> QED BY <2>1 DEF Lesser
<1> HIDE DEF Item
<1>5. ASSUME NEW k \in 0 .. m-1, NEW l \in 0 .. m-1, k < l
      PROVE  Extent(Item(k)) \cap Extent(Item(l)) = {}
  <2>1. PICK d \in Nat : l = k + 1 + d
    <3>1. l - k - 1 \in Nat /\ l = k + 1 + (l - k - 1)
      BY <1>1, <1>5
    <3> QED BY <3>1
  <2>2. l * c = k * c + c + d * c /\ d * c \in Nat /\ k * c \in Nat
    BY <2>1, <1>1
  <2>3. /\ Item(k).to = k * c /\ Item(k).len \in Nat /\ Item(k).len <= c
        /\ Item(l).to = l * c /\ Item(l).len \in Nat
    BY <1>3
  <2> QED BY <2>2, <2>3 DEF Extent
<1>6. ASSUME NEW i \in 1 .. n PROVE \E k \in 0 .. m-1 : i \in Extent(Item(k))
  <2> DEFINE x == i - 1
             q == x \div c
             r == x % c
  <2>0. x \in Nat /\ x < n
    OBVIOUS
  <2>00. i = x + 1
    OBVIOUS
  <2> HIDE DEF x
  <2>1. q \in Nat /\ r \in 0 .. c-1 /\ x = c * q + r
    BY <2>0, DivMod
  <2>2. q \in 0 .. m-1
    <3>1. c * m \in Nat /\ c * m = m * c
      BY <1>1
    <3>2. x \in 0 .. c * m - 1
      <4> DEFINE t == c * m
      <4>1. t \in Nat /\ t >= n
        BY <3>1, <1>1
      <4> HIDE DEF t
      <4>2. x \in 0 .. t - 1
        BY <4>1, <2>0
      <4> QED BY <4>2 DEF t
    <3> QED BY <3>2, <1>1, QuotBound
  <2> HIDE DEF q, r
  <2>3. /\ Item(q).to = q * c /\ Item(q).len \in Nat
        /\ Item(q).len = c \/ q * c + Item(q).len = n
    BY <2>2, <1>3
  <2>4. q * c \in Nat /\ q * c = c * q
    BY <2>1
  <2> DEFINE t == q * c
  <2>5. t \in Nat /\ x = t + r /\ Item(q).to = t /\ (Item(q).len = c \/ t + Item(q).len = n)
    BY <2>1, <2>3, <2>4
  <2> HIDE DEF t
  <2>6. i \in Item(q).to + 1 .. Item(q).to + Item(q).len
    BY <2>0, <2>00, <2>1, <2>3, <2>5
  <2> QED BY <2>2, <2>6 DEF Extent
<1>7. \A k, l \in 0 .. m-1 : Item(k) # Item(l) => Extent(Item(k)) \cap Extent(Item(l)) = {}
  <2>1. SUFFICES ASSUME NEW k \in 0 .. m-1, NEW l \in 0 .. m-1, Item(k) # Item(l)
                 PROVE  Extent(Item(k)) \cap Extent(Item(l)) = {}
    OBVIOUS
  <2>2. k < l \/ l < k
    <3>1. k # l
      BY <2>1
    <3> QED BY <3>1, <1>1
  <2> QED BY <2>2, <1>5
<1>8. ASSUME NEW x \in Pieces(n, c)
      PROVE  /\ x \in [from : Nat, to : Nat, len : Nat, least : Nat]
             /\ x.from = x.to /\ x.to + x.len <= n /\ x.least = 0
             /\ c % 4 = 0 => x.len % 4 = 0 \/ x.to + x.len = n
  <2>1. PICK k \in 0 .. m-1 : x = Item(k)
    BY <1>2
  <2> QED BY <1>3, <2>1
<1>9. \A x, y \in Pieces(n, c) : x # y => Extent(x) \cap Extent(y) = {}
  BY <1>2, <1>7
<1>10. \A i \in 1 .. n : \E x \in Pieces(n, c) : i \in Extent(x)
  BY <1>2, <1>6
<1> QED BY <1>8, <1>9, <1>10 DEF Shares

LEMMA PiecesCount ==
  ASSUME NEW n \in Nat, NEW c \in Nat \ {0}
  PROVE  IsFiniteSet(Pieces(n, c)) /\ Cardinality(Pieces(n, c)) <= DivCeil(n, c)
<1> DEFINE m == DivCeil(n, c)
           I == 0 .. m-1
           f == [k \in I |-> [from |-> k * c, to |-> k * c, len |-> Lesser(c, n - k * c), least |-> 0]]
<1>1. m \in Nat
  BY DivCeilIs
<1>2. Pieces(n, c) = {f[k] : k \in I}
  BY DEF Pieces
<1> HIDE DEF m
<1>3. IsFiniteSet(I) /\ Cardinality(I) = m
  <2>1. 0 \in Int /\ m - 1 \in Int
    BY <1>1
  <2> QED BY <1>1, <2>1, FS_Interval
<1> HIDE DEF I
<1>4. f \in Surjection(I, Pieces(n, c))
  <2>1. DOMAIN f = I /\ f = [k \in I |-> f[k]]
    OBVIOUS
  <2> HIDE DEF f
  <2>2. f \in [I -> Pieces(n, c)]
    BY <2>1, <1>2
  <2> QED BY <2>2, <1>2 DEF Surjection
<1> QED BY <1>3, <1>4, FS_Surjection DEF m

(* Pieces at least a share long are not more than the shares.              *)
LEMMA ShareCount ==
  ASSUME NEW n \in Nat, NEW t \in Nat \ {0}, NEW c \in Nat \ {0}, c >= DivCeil(n, t)
  PROVE  DivCeil(n, c) <= t /\ n <= t * c
<1>1. DivCeil(n, t) \in Nat /\ DivCeil(n, t) * t >= n
  BY DivCeilIs
<1>2. c * t >= n
  <2> DEFINE d == DivCeil(n, t)
  <2>1. d * t <= c * t
    <3>1. (c - d) \in Nat /\ (c - d) * t \in Nat
      BY <1>1
    <3>2. c * t = d * t + (c - d) * t
      BY <1>1
    <3> QED BY <1>1, <3>1, <3>2
  <2>2. d * t \in Nat /\ c * t \in Nat
    BY <1>1
  <2> QED BY <1>1, <2>1, <2>2
<1>3. c * t = t * c
  OBVIOUS
<1> DEFINE m == DivCeil(n, c)
<1>4. m \in Nat /\ (n > 0 => m >= 1 /\ (m - 1) * c < n) /\ (n = 0 => m = 0)
  BY DivCeilIs
<1> HIDE DEF m
<1>5. m <= t
  <2>1. SUFFICES ASSUME m > t PROVE FALSE
    BY <1>4
  <2>2. n > 0 /\ (m - 1) * c < n
    BY <1>4, <2>1
  <2>3. m - 1 - t \in Nat /\ (m - 1 - t) * c \in Nat
    BY <1>4, <2>1
  <2>4. (m - 1) * c = t * c + (m - 1 - t) * c
    BY <1>4
  <2>5. t * c \in Nat
    OBVIOUS
  <2> QED BY <1>2, <1>3, <2>2, <2>3, <2>4, <2>5
<1> QED BY <1>2, <1>3, <1>5 DEF m

Whole(n, least) == {[from |-> 0, to |-> 0, len |-> n, least |-> least]}

LEMMA WholeShares ==
  ASSUME NEW n \in Nat, NEW l \in Nat
  PROVE  /\ Shares(Whole(n, l), n) /\ IsFiniteSet(Whole(n, l)) /\ Cardinality(Whole(n, l)) = 1
         /\ \A x \in Whole(n, l) : x.least = l /\ x.len = n
<1> DEFINE x == [from |-> 0, to |-> 0, len |-> n, least |-> l]
<1>1. /\ x \in [from : Nat, to : Nat, len : Nat, least : Nat] /\ x.from = x.to /\ x.to = 0
      /\ x.len = n /\ x.least = l
  OBVIOUS
<1>2. Whole(n, l) = {x}
  BY DEF Whole
<1> HIDE DEF x
<1>3. Extent(x) = 1 .. n
  BY <1>1 DEF Extent
<1>4. IsFiniteSet({x}) /\ Cardinality({x}) = 1
  BY FS_Singleton
<1>5. Shares(Whole(n, l), n)
  <2>1. \A i \in 1 .. n : \E y \in {x} : i \in Extent(y)
    BY <1>3
  <2>2. x.to + x.len <= n
    BY <1>1
  <2> QED BY <1>1, <1>2, <2>1, <2>2 DEF Shares
<1> QED BY <1>1, <1>2, <1>4, <1>5

(* What a plan asks of the pool.                                           *)
LEMMA PlanNumbers ==
  ASSUME NEW c, c.kind \in Kinds, c.lens \in Seq(Nat), NEW b \in Backends
  PROVE  /\ Len(c.lens) \in Nat
         /\ Params(c.kind, b).tasks \in Nat \ {0}
         /\ Threads \in Nat \ {0} /\ Threads * Params(c.kind, b).tasks \in Nat \ {0}
         /\ MinLen(c, b) \in Nat \ {0}
         /\ MinLen(c, b) >= DivCeil(Len(c.lens), Threads * Params(c.kind, b).tasks)
         /\ ChunkLen(c, b) \in Nat \ {0} /\ ChunkLen(c, b) % 4 = 0 /\ ChunkLen(c, b) >= MinLen(c, b)
         /\ Len(c.lens) >= 1 => MinLen(c, b) <= Len(c.lens)
<1> DEFINE n == Len(c.lens)
           tasks == Params(c.kind, b).tasks
           t == Threads * tasks
<1>1. n \in Nat
  OBVIOUS
<1>2. tasks \in Nat \ {0}
  <2>1. Params(c.kind, b) \in [messages : Nat, bytes : Nat, tasks : Nat \ {0}]
    BY HashConstants
  <2> QED BY <2>1
<1>3. Threads \in Nat \ {0}
  <2>1. IsFiniteSet(Worker) /\ Worker # {}
    BY HashConstants
  <2>2. Cardinality(Worker) \in Nat /\ Cardinality(Worker) # 0
    BY <2>1, FS_CardinalityType, FS_EmptySet
  <2> QED BY <2>2 DEF Threads
<1>4. t \in Nat \ {0}
  <2> HIDE DEF tasks
  <2>1. \A x, y \in Nat \ {0} : x * y \in Nat \ {0}
    OBVIOUS
  <2> QED BY <1>2, <1>3, <2>1
<1>5. MinLen(c, b) = Larger(DivCeil(n, t), 1)
  BY DEF MinLen
<1>6. Threads * Params(c.kind, b).tasks = t
  OBVIOUS
<1> HIDE DEF t
<1> DEFINE d == DivCeil(n, t)
<1>7. d \in Nat /\ (n > 0 => d >= 1 /\ (d - 1) * t < n) /\ (n = 0 => d = 0)
  BY <1>1, <1>4, DivCeilIs
<1> HIDE DEF d
<1>8. MinLen(c, b) \in Nat \ {0} /\ MinLen(c, b) >= d
  BY <1>5, <1>7 DEF Larger, d
<1>9. n >= 1 => MinLen(c, b) <= n
  <2>1. SUFFICES ASSUME n >= 1, d > n PROVE FALSE
    BY <1>1, <1>5, <1>7 DEF Larger, d
  <2>2. d - 1 \in Nat /\ d - 1 >= n
    BY <1>1, <1>7, <2>1
  <2>3. (d - 1) * t >= d - 1 /\ (d - 1) * t \in Nat
    <3>1. \A x \in Nat, y \in Nat \ {0} : x * y >= x /\ x * y \in Nat
      <4>1. SUFFICES ASSUME NEW x \in Nat, NEW y \in Nat \ {0}
                     PROVE  x * y >= x /\ x * y \in Nat
        OBVIOUS
      <4>2. x * y = x + x * (y - 1) /\ y - 1 \in Nat /\ x * (y - 1) \in Nat
        OBVIOUS
      <4> QED BY <4>2
    <3> QED BY <1>4, <2>2, <3>1
  <2> QED BY <1>1, <1>7, <2>1, <2>2, <2>3
<1> DEFINE l == MinLen(c, b)
           q == DivCeil(l, 4)
<1>10. ChunkLen(c, b) = 4 * q
  BY DEF ChunkLen
<1>11. l \in Nat \ {0}
  BY <1>8
<1> HIDE DEF l
<1>12. q \in Nat /\ q * 4 >= l
  <2>1. \A f \in Nat \ {0} : DivCeil(l, f) \in Nat /\ DivCeil(l, f) * f >= l
    BY <1>11, DivCeilIs
  <2>2. PICK f \in Nat \ {0} : f = 4
    OBVIOUS
  <2>3. DivCeil(l, f) \in Nat /\ DivCeil(l, f) * f >= l
    BY <2>1
  <2> QED BY <2>2, <2>3
<1> HIDE DEF q
<1>13. 4 * q \in Nat \ {0} /\ (4 * q) % 4 = 0 /\ 4 * q >= l
  <2>1. \A z \in Nat : (4 * z) % 4 = 0
    OBVIOUS
  <2>2. (4 * q) % 4 = 0
    BY <1>12, <2>1
  <2> QED BY <1>11, <1>12, <2>2
<1> QED BY <1>1, <1>2, <1>3, <1>4, <1>6, <1>8, <1>9, <1>10, <1>13 DEF d, l

(* The items of a plan: of the calling thread, at most as many as the pool *)
(* has tasks, or one item that may be split.                               *)
FewAre(its, c, b) ==
  /\ \A x \in its : x.least = 0
  /\ Cardinality(its) <= Threads * Params(c.kind, b).tasks

OneIs(its, c, b) ==
  /\ \A x \in its : x.least = MinLen(c, b) /\ x.len >= x.least
  /\ IsFiniteSet(its)

Fours(its, n) ==
  \A x \in its : x.least = 0 /\ (x.len % 4 = 0 \/ x.to + x.len = n)

LEMMA CallIs ==
  ASSUME NEW c \in Calls
  PROVE  /\ c \in [kind : Kinds, lens : Seq(Nat)] /\ c.kind \in Kinds /\ c.lens \in Seq(Nat)
         /\ ChooseBackend(c) \in Backends /\ (ChooseBackend(c) = "avx2" => mode.simd)
         /\ c.kind = "fixed" => \A i, j \in DOMAIN c.lens : c.lens[i] = c.lens[j]
<1>1. /\ c \in [kind : Kinds, lens : Seq(Nat)]
      /\ c.kind = "fixed" => \A i \in DOMAIN c.lens : c.lens[i] = c.lens[1]
  BY HashConstants
<1>2. c.kind \in Kinds /\ c.lens \in Seq(Nat)
  BY <1>1
<1>3. ChooseBackend(c) \in Backends /\ (ChooseBackend(c) = "avx2" => mode.simd)
  BY DEF ChooseBackend, Backends
<1> QED BY <1>1, <1>2, <1>3

LEMMA ItemsShare ==
  ASSUME NEW c \in Calls
  PROVE  /\ Shares(Items(c), Len(c.lens)) /\ IsFiniteSet(Items(c))
         /\ UsesPool(c) =>
              /\ FewAre(Items(c), c, ChooseBackend(c)) \/ OneIs(Items(c), c, ChooseBackend(c))
              /\ ChooseBackend(c) = "avx2" => Fours(Items(c), Len(c.lens))
<1> DEFINE n == Len(c.lens)
           b == ChooseBackend(c)
           t == Threads * Params(c.kind, b).tasks
<1>1. c.kind \in Kinds /\ c.lens \in Seq(Nat) /\ b \in Backends
  BY CallIs
<1>2. Items(c) = IF ~UsesPool(c) THEN Whole(n, 0)
                 ELSE IF b = "avx2" THEN Pieces(n, ChunkLen(c, b))
                 ELSE IF c.kind \in {"raw", "blocks"} THEN Pieces(n, MinLen(c, b))
                 ELSE Whole(n, MinLen(c, b))
  BY DEF Items, Whole
<1>3. UsesPool(c) => n >= 2
  BY DEF UsesPool, PlansPool
<1> HIDE DEF b
<1>4. /\ n \in Nat /\ t \in Nat \ {0} /\ MinLen(c, b) \in Nat \ {0}
      /\ MinLen(c, b) >= DivCeil(n, t)
      /\ ChunkLen(c, b) \in Nat \ {0} /\ ChunkLen(c, b) % 4 = 0 /\ ChunkLen(c, b) >= MinLen(c, b)
      /\ n >= 1 => MinLen(c, b) <= n
  BY <1>1, PlanNumbers
<1>5. t = Threads * Params(c.kind, b).tasks
  OBVIOUS
<1> HIDE DEF t, n
<1>6. DivCeil(n, t) \in Nat
  BY <1>4, DivCeilIs
<1>7. ASSUME NEW k \in Nat \ {0}, k >= DivCeil(n, t)
      PROVE  /\ Shares(Pieces(n, k), n) /\ IsFiniteSet(Pieces(n, k))
             /\ FewAre(Pieces(n, k), c, b)
             /\ k % 4 = 0 => Fours(Pieces(n, k), n)
  <2>1. /\ Shares(Pieces(n, k), n)
        /\ \A x \in Pieces(n, k) : x.least = 0 /\ (k % 4 = 0 => x.len % 4 = 0 \/ x.to + x.len = n)
    BY <1>4, PiecesShare
  <2>2. IsFiniteSet(Pieces(n, k)) /\ Cardinality(Pieces(n, k)) <= DivCeil(n, k)
    BY <1>4, PiecesCount
  <2>3. DivCeil(n, k) <= t
    BY <1>4, <1>7, ShareCount
  <2>4. DivCeil(n, k) \in Nat /\ Cardinality(Pieces(n, k)) \in Nat
    BY <1>4, <2>2, DivCeilIs, FS_CardinalityType
  <2>5. Cardinality(Pieces(n, k)) <= t
    BY <1>4, <2>2, <2>3, <2>4
  <2> QED BY <1>5, <2>1, <2>2, <2>5 DEF FewAre, Fours
<1>8. CASE ~UsesPool(c)
  <2>1. Shares(Whole(n, 0), n) /\ IsFiniteSet(Whole(n, 0))
    BY <1>4, WholeShares
  <2> QED BY <1>2, <1>8, <2>1 DEF n
<1>9. CASE UsesPool(c) /\ b = "avx2"
  <2>1. ChunkLen(c, b) >= DivCeil(n, t)
    BY <1>4, <1>6
  <2> QED BY <1>2, <1>4, <1>7, <1>9, <2>1 DEF n, b
<1>10. CASE UsesPool(c) /\ b # "avx2" /\ c.kind \in {"raw", "blocks"}
  BY <1>2, <1>4, <1>7, <1>10 DEF n, b
<1>11. CASE UsesPool(c) /\ b # "avx2" /\ c.kind \notin {"raw", "blocks"}
  <2> DEFINE l == MinLen(c, b)
  <2>1. l \in Nat /\ l <= n
    BY <1>3, <1>4, <1>11 DEF n
  <2>2. Items(c) = Whole(n, l)
    BY <1>2, <1>11
  <2>3. /\ Shares(Whole(n, l), n) /\ IsFiniteSet(Whole(n, l))
        /\ \A x \in Whole(n, l) : x.least = l /\ x.len = n
    BY <1>4, <2>1, WholeShares
  <2>4. OneIs(Items(c), c, b)
    BY <2>1, <2>2, <2>3 DEF OneIs
  <2> QED BY <1>11, <2>2, <2>3, <2>4 DEF n, b
<1> QED BY <1>8, <1>9, <1>10, <1>11

-----------------------------------------------------------------------------
(* What holds at every step.                                               *)

(* The positions some groups have still to write.                          *)
Pending(gs) == UNION {OutsOf(gs[k].cells) : k \in DOMAIN gs}

(* The positions of some items.                                            *)
Spread(its) == UNION {Extent(item) : item \in its}

CallRight ==
  /\ call \in [kind : Kinds, lens : Seq(Nat), backend : Backends, hands : {Worker, {Caller}}]
  /\ [kind |-> call.kind, lens |-> call.lens] \in Calls
  /\ call.backend = "avx2" => mode.simd
  /\ call.kind = "fixed" => \A i, j \in DOMAIN call.lens : call.lens[i] = call.lens[j]

(* Every output is written, or held by one item or one thread, which has   *)
(* it in one of its groups.                                                *)
SharedOut ==
  /\ \A item \in items : ItemRight(item)
  /\ \A x, y \in items : x # y => Extent(x) \cap Extent(y) = {}
  /\ \A w \in Hands : Covers(job[w], Pending(job[w]))
  /\ \A w \in Hands : Pending(job[w]) \subseteq DOMAIN call.lens
  /\ \A v, w \in Hands : v # w => Pending(job[v]) \cap Pending(job[w]) = {}
  /\ \A item \in items, w \in Hands : Extent(item) \cap Pending(job[w]) = {}
  /\ out \in [DOMAIN call.lens -> Nat]
  /\ \A i \in DOMAIN call.lens :
       /\ out[i] \in {0, i}
       /\ out[i] = 0 <=> \/ \E item \in items : i \in Extent(item)
                         \/ \E w \in Hands : i \in Pending(job[w])

(* Items that are never split are few enough already; the others have at   *)
(* least least messages each, and a busy thread has had as many.           *)
FewItems ==
  /\ \A item \in items : item.least = 0
  /\ Cardinality(items) + Cardinality(Busy) <= Threads * Params(call.kind, call.backend).tasks

LargeItems ==
  /\ \A item \in items : item.least = MinLen(call, call.backend) /\ item.len >= item.least
  /\ Cardinality(Spread(items)) + MinLen(call, call.backend) * Cardinality(Busy) <= Len(call.lens)

PoolRight ==
  call.hands = Worker =>
    /\ FewItems \/ LargeItems
    /\ call.backend = "avx2" => Fours(items, Len(call.lens))

Resting == items = {} /\ out = <<>> /\ \A w \in Hands : job[w] = <<>>

HashInv ==
  /\ mode \in [simd : BOOLEAN, parallel : BOOLEAN, pool : BOOLEAN]
  /\ IsFiniteSet(items)
  /\ job \in [Hands -> Seq(GroupType)]
  /\ call = NoCall => Resting
  /\ call # NoCall => CallRight /\ SharedOut /\ PoolRight

LEMMA PendingIs ==
  ASSUME NEW gs, NEW i
  PROVE  i \in Pending(gs) <=> \E k \in DOMAIN gs : i \in OutsOf(gs[k].cells)
BY DEF Pending

LEMMA SpreadIs ==
  ASSUME NEW its, NEW i
  PROVE  i \in Spread(its) <=> \E item \in its : i \in Extent(item)
BY DEF Spread

LEMMA PendingNone == Pending(<<>>) = {} /\ Covers(<<>>, Pending(<<>>))
<1>1. Pending(<<>>) = {}
  <2>1. DOMAIN <<>> = {}
    OBVIOUS
  <2> QED BY <2>1 DEF Pending
<1> QED BY <1>1, NoneCovers

LEMMA CoversPending ==
  ASSUME NEW gs, NEW S, Covers(gs, S)
  PROVE  Pending(gs) = S /\ Covers(gs, Pending(gs)) /\ gs \in Seq(GroupType)
<1>1. \A i : i \in Pending(gs) <=> \E k \in DOMAIN gs : i \in OutsOf(gs[k].cells)
  BY PendingIs
<1>2. Pending(gs) = S
  BY <1>1 DEF Covers
<1> QED BY <1>2 DEF Covers

LEMMA CoversKept ==
  ASSUME UNCHANGED <<mode, call>>, NEW gs, NEW S, Covers(gs, S)
  PROVE  Covers(gs, S)'
BY DEF Covers, GroupRight, LenOf

(* The first group gone, the others are as they were.                      *)
LEMMA TailCovers ==
  ASSUME NEW gs, gs # <<>>, Covers(gs, Pending(gs))
  PROVE  /\ GroupRight(Head(gs)) /\ OutsOf(Head(gs).cells) \subseteq Pending(gs)
         /\ Covers(Tail(gs), Pending(Tail(gs)))
         /\ Pending(Tail(gs)) = Pending(gs) \ OutsOf(Head(gs).cells)
<1> DEFINE n == Len(gs)
           t == Tail(gs)
<1>1. gs \in Seq(GroupType) /\ n \in Nat \ {0} /\ DOMAIN gs = 1 .. n
  BY DEF Covers
<1>2. t \in Seq(GroupType) /\ DOMAIN t = 1 .. n-1 /\ Head(gs) = gs[1] /\ 1 \in 1 .. n
  BY <1>1
<1>3. \A k \in 1 .. n-1 : k + 1 \in 1 .. n /\ t[k] = gs[k+1] /\ k + 1 # 1
  BY <1>1
<1>4. \A j \in 1 .. n : j # 1 => j - 1 \in 1 .. n-1 /\ gs[j] = t[j-1]
  BY <1>1
<1>5. /\ \A k \in 1 .. n : GroupRight(gs[k]) /\ OutsOf(gs[k].cells) \subseteq Pending(gs)
      /\ \A k, l \in 1 .. n : k # l => OutsOf(gs[k].cells) \cap OutsOf(gs[l].cells) = {}
  BY <1>1 DEF Covers
<1> HIDE DEF n, t
<1>6. /\ \A i : i \in Pending(gs) <=> \E k \in 1 .. n : i \in OutsOf(gs[k].cells)
      /\ \A i : i \in Pending(t) <=> \E k \in 1 .. n-1 : i \in OutsOf(t[k].cells)
  BY <1>1, <1>2, PendingIs
<1>7. \A i : i \in Pending(t) <=> i \in Pending(gs) /\ i \notin OutsOf(gs[1].cells)
  <2>1. ASSUME NEW i \in Pending(t)
        PROVE  i \in Pending(gs) /\ i \notin OutsOf(gs[1].cells)
    <3>1. PICK k \in 1 .. n-1 : i \in OutsOf(t[k].cells)
      BY <1>6, <2>1
    <3>2. PICK j \in 1 .. n : j = k + 1 /\ t[k] = gs[j] /\ j # 1
      BY <1>3
    <3> QED BY <1>2, <1>5, <1>6, <3>1, <3>2
  <2>2. ASSUME NEW i \in Pending(gs), i \notin OutsOf(gs[1].cells)
        PROVE  i \in Pending(t)
    <3>1. PICK j \in 1 .. n : i \in OutsOf(gs[j].cells)
      BY <1>6, <2>2
    <3>2. j # 1
      BY <2>2, <3>1
    <3>3. PICK k \in 1 .. n-1 : k = j - 1 /\ gs[j] = t[k]
      BY <1>4, <3>2
    <3> QED BY <1>6, <3>1, <3>3
  <2> QED BY <2>1, <2>2
<1>8. ASSUME NEW k \in 1 .. n-1
      PROVE  GroupRight(t[k]) /\ OutsOf(t[k].cells) \subseteq Pending(t)
  <2>1. PICK j \in 1 .. n : j = k + 1 /\ t[k] = gs[j]
    BY <1>3
  <2>2. OutsOf(t[k].cells) \subseteq Pending(t)
    BY <1>6
  <2> QED BY <1>5, <2>1, <2>2
<1>9. ASSUME NEW k \in 1 .. n-1, NEW l \in 1 .. n-1, k # l
      PROVE  OutsOf(t[k].cells) \cap OutsOf(t[l].cells) = {}
  <2>1. PICK i \in 1 .. n : i = k + 1 /\ t[k] = gs[i]
    BY <1>3
  <2>2. PICK j \in 1 .. n : j = l + 1 /\ t[l] = gs[j]
    BY <1>3
  <2>3. i # j
    BY <1>9, <2>1, <2>2
  <2> QED BY <1>5, <2>1, <2>2, <2>3
<1>10. \A i \in Pending(t) : \E k \in 1 .. n-1 : i \in OutsOf(t[k].cells)
  BY <1>6
<1>11. Covers(t, Pending(t))
  BY <1>2, <1>8, <1>9, <1>10 DEF Covers
<1>12. Pending(t) = Pending(gs) \ OutsOf(gs[1].cells)
  BY <1>7
<1> QED BY <1>2, <1>5, <1>11, <1>12 DEF t

(* The positions of disjoint items of l messages each or more.             *)
LEMMA ExtentSize ==
  ASSUME NEW x, x \in [from : Nat, to : Nat, len : Nat, least : Nat]
  PROVE  IsFiniteSet(Extent(x)) /\ Cardinality(Extent(x)) = x.len
<1> DEFINE a == x.to + 1
           b == x.to + x.len
<1>1. a \in Int /\ b \in Int /\ x.len = IF a > b THEN 0 ELSE b - a + 1
  BY DEF Extent
<1>2. Extent(x) = a .. b
  BY DEF Extent
<1> HIDE DEF a, b
<1> QED BY <1>1, <1>2, FS_Interval

LEMMA UnionSize ==
  ASSUME NEW A, NEW B, IsFiniteSet(A), IsFiniteSet(B), A \cap B = {}
  PROVE  IsFiniteSet(A \cup B) /\ Cardinality(A \cup B) = Cardinality(A) + Cardinality(B)
         /\ Cardinality(A) \in Nat /\ Cardinality(B) \in Nat
<1>1. Cardinality(A) \in Nat /\ Cardinality(B) \in Nat /\ Cardinality({}) = 0
  BY FS_CardinalityType, FS_EmptySet
<1>2. IsFiniteSet(A \cup B) /\ Cardinality(A \cup B) = Cardinality(A) + Cardinality(B) - Cardinality(A \cap B)
  BY FS_Union
<1>3. Cardinality(A \cap B) = 0
  BY <1>1
<1> QED BY <1>1, <1>2, <1>3

Apart(its, n) ==
  /\ \A x \in its : x \in [from : Nat, to : Nat, len : Nat, least : Nat] /\ x.to + x.len <= n
  /\ \A x, y \in its : x # y => Extent(x) \cap Extent(y) = {}

LEMMA SpreadIn ==
  ASSUME NEW n \in Nat, NEW its, Apart(its, n)
  PROVE  IsFiniteSet(Spread(its)) /\ Cardinality(Spread(its)) \in Nat /\ Cardinality(Spread(its)) <= n
<1>1. Spread(its) \subseteq 1 .. n
  <2>1. ASSUME NEW x \in its PROVE Extent(x) \subseteq 1 .. n
    BY DEF Apart, Extent
  <2> QED BY <2>1, SpreadIs
<1>2. IsFiniteSet(1 .. n) /\ Cardinality(1 .. n) = n
  <2>1. 1 \in Int /\ n \in Int
    OBVIOUS
  <2> QED BY <2>1, FS_Interval
<1> QED BY <1>1, <1>2, CountSubset, FS_CardinalityType

LEMMA SpreadAdd ==
  ASSUME NEW n \in Nat, NEW its, Apart(its, n), NEW x \in its
  PROVE  /\ Apart(its \ {x}, n)
         /\ Cardinality(Spread(its)) = Cardinality(Spread(its \ {x})) + x.len
<1>1. Apart(its \ {x}, n)
  BY DEF Apart
<1>2. Spread(its) = Spread(its \ {x}) \cup Extent(x)
  BY SpreadIs
<1>3. Spread(its \ {x}) \cap Extent(x) = {}
  <2>1. \A y \in its \ {x} : Extent(y) \cap Extent(x) = {}
    BY DEF Apart
  <2> QED BY <2>1, SpreadIs
<1>4. IsFiniteSet(Spread(its \ {x}))
  BY <1>1, SpreadIn
<1>5. IsFiniteSet(Extent(x)) /\ Cardinality(Extent(x)) = x.len
  BY ExtentSize DEF Apart
<1> QED BY <1>1, <1>2, <1>3, <1>4, <1>5, UnionSize

LEMMA SpreadSize ==
  ASSUME NEW n \in Nat, NEW l \in Nat, NEW its, IsFiniteSet(its), Apart(its, n),
         \A x \in its : x.len >= l
  PROVE  l * Cardinality(its) <= Cardinality(Spread(its))
<1> DEFINE Fits(U) == l * Cardinality(U) <= Cardinality(Spread(U))
           S == {m \in Nat : \A U \in SUBSET its : Cardinality(U) = m => Fits(U)}
<1>1. ASSUME NEW U \in SUBSET its
      PROVE  IsFiniteSet(U) /\ Cardinality(U) \in Nat /\ Apart(U, n)
  <2>1. IsFiniteSet(U)
    BY CountSubset
  <2> QED BY <2>1, FS_CardinalityType DEF Apart
<1>2. \A U \in SUBSET its : Cardinality(Spread(U)) \in Nat
  BY <1>1, SpreadIn
<1>3. 0 \in S
  <2>1. ASSUME NEW U \in SUBSET its, Cardinality(U) = 0
        PROVE  Fits(U)
    <3>1. l * Cardinality(U) = 0
      BY <2>1
    <3> QED BY <1>2, <3>1
  <2> QED BY <2>1
<1>4. ASSUME NEW m \in Nat, m \in S
      PROVE  m + 1 \in S
  <2>1. SUFFICES ASSUME NEW U \in SUBSET its, Cardinality(U) = m + 1
                 PROVE  Fits(U)
    OBVIOUS
  <2>2. PICK x \in U : TRUE
    <3>1. Cardinality(U) # 0
      BY <2>1
    <3> QED BY <1>1, <3>1, FS_EmptySet
  <2> DEFINE V == U \ {x}
  <2>3. V \in SUBSET its /\ Cardinality(V) = m
    <3>1. Cardinality(V) = Cardinality(U) - 1
      BY <1>1, <2>2, FS_RemoveElement
    <3> QED BY <2>1, <3>1
  <2>4. Fits(V)
    BY <1>4, <2>3
  <2>5. Cardinality(Spread(U)) = Cardinality(Spread(V)) + x.len
    BY <1>1, <2>2, SpreadAdd
  <2>6. x.len \in Nat /\ x.len >= l
    BY <2>2 DEF Apart
  <2>7. Cardinality(Spread(V)) \in Nat /\ Cardinality(Spread(U)) \in Nat
    BY <1>2, <2>3
  <2>8. l * m <= Cardinality(Spread(V))
    BY <2>3, <2>4
  <2>9. l * (m + 1) = l * m + l /\ l * m \in Nat
    OBVIOUS
  <2> HIDE DEF V, S
  <2>10. l * (m + 1) <= Cardinality(Spread(U))
    BY <2>5, <2>6, <2>7, <2>8, <2>9
  <2> QED BY <2>1, <2>10
<1> HIDE DEF S
<1>5. Nat \subseteq S
  BY <1>3, <1>4, Induction
<1>6. Cardinality(its) \in Nat /\ its \in SUBSET its
  BY <1>1
<1> QED BY <1>5, <1>6 DEF S

-----------------------------------------------------------------------------
(* Every step keeps the invariant.                                         *)

LEMMA HashStarts == HashInit => HashInv
<1> SUFFICES ASSUME HashInit PROVE HashInv
  OBVIOUS
<1>1. /\ mode \in [simd : BOOLEAN, parallel : BOOLEAN, pool : BOOLEAN]
      /\ call = NoCall /\ items = {} /\ out = <<>> /\ job = [w \in Hands |-> <<>>]
  BY DEF HashInit
<1>2. IsFiniteSet(items)
  BY <1>1, FS_EmptySet
<1>3. job \in [Hands -> Seq(GroupType)] /\ \A w \in Hands : job[w] = <<>>
  <2>1. <<>> \in Seq(GroupType)
    OBVIOUS
  <2> QED BY <1>1, <2>1
<1> QED BY <1>1, <1>2, <1>3 DEF HashInv, Resting

LEMMA BusyCount ==
  /\ IsFiniteSet(Busy) /\ Cardinality(Busy) \in Nat
  /\ \A U : U \subseteq Busy => Cardinality(U) \in Nat /\ Cardinality(U) <= Cardinality(Busy)
  /\ \A w : Cardinality(Busy \cup {w}) \in Nat /\ Cardinality(Busy \cup {w}) <= Cardinality(Busy) + 1
<1>1. IsFiniteSet(Worker) /\ Busy \subseteq Worker
  BY HashConstants DEF Busy
<1>2. IsFiniteSet(Busy)
  BY <1>1, CountSubset
<1>3. Cardinality(Busy) \in Nat
  BY <1>2, FS_CardinalityType
<1>4. ASSUME NEW U, U \subseteq Busy
      PROVE  Cardinality(U) \in Nat /\ Cardinality(U) <= Cardinality(Busy)
  BY <1>2, <1>4, CountSubset
<1>5. ASSUME NEW w
      PROVE  Cardinality(Busy \cup {w}) \in Nat /\ Cardinality(Busy \cup {w}) <= Cardinality(Busy) + 1
  <2>1. Cardinality(Busy \cup {w}) = IF w \in Busy THEN Cardinality(Busy) ELSE Cardinality(Busy) + 1
    BY <1>2, FS_AddElement
  <2> QED BY <1>3, <2>1
<1> QED BY <1>2, <1>3, <1>4, <1>5

LEMMA HandsApart == {Caller} # Worker /\ Worker \subseteq Hands
BY HashConstants DEF Hands

LEMMA BeginRight ==
  ASSUME HashInv, NEW c \in Calls, Begin(c)
  PROVE  HashInv'
<1> DEFINE b == ChooseBackend(c)
           n == Len(c.lens)
<1>1. /\ call = NoCall /\ items' = Items(c) /\ out' = [i \in 1 .. n |-> 0]
      /\ call' = [kind |-> c.kind, lens |-> c.lens, backend |-> b, hands |-> HandsFor(c)]
      /\ mode' = mode /\ job' = job
  BY DEF Begin
<1>2. c.kind \in Kinds /\ c.lens \in Seq(Nat) /\ b \in Backends /\ (b = "avx2" => mode.simd)
      /\ (c.kind = "fixed" => \A i, j \in DOMAIN c.lens : c.lens[i] = c.lens[j])
  BY CallIs
<1>3. /\ Shares(Items(c), n) /\ IsFiniteSet(Items(c))
      /\ UsesPool(c) =>
           /\ FewAre(Items(c), c, b) \/ OneIs(Items(c), c, b)
           /\ b = "avx2" => Fours(Items(c), n)
  BY ItemsShare
<1>4. n \in Nat /\ DOMAIN c.lens = 1 .. n
  BY <1>2
<1>5. HandsFor(c) \in {Worker, {Caller}} /\ (HandsFor(c) = Worker => UsesPool(c))
  BY HandsApart DEF HandsFor
<1>6. \A w \in Hands : job'[w] = <<>>
  BY <1>1 DEF HashInv, Resting
<1> HIDE DEF b
<1>7. /\ call'.kind = c.kind /\ call'.lens = c.lens /\ call'.backend = b /\ call'.hands = HandsFor(c)
      /\ call' \in [kind : Kinds, lens : Seq(Nat), backend : Backends, hands : {Worker, {Caller}}]
  BY <1>1, <1>2, <1>5
<1>8. call' # NoCall
  BY <1>7, NoCallApart
<1>9. CallRight'
  <2>1. c = [kind |-> c.kind, lens |-> c.lens]
    BY CallIs
  <2> QED BY <1>1, <1>2, <1>7, <2>1 DEF CallRight
<1> HIDE DEF n
<1>10. SharedOut'
  <2>1. \A item \in items' : ItemRight(item)'
    BY <1>1, <1>2, <1>3, <1>7 DEF Shares, ItemRight, n
  <2>2. \A x, y \in items' : x # y => Extent(x) \cap Extent(y) = {}
    BY <1>1, <1>3 DEF Shares
  <2>3. \A w \in Hands : Pending(job'[w]) = {}
    BY <1>6, PendingNone
  <2>4. \A w \in Hands : Covers(job[w], Pending(job[w]))'
    <3>1. Covers(<<>>, {})'
      <4>1. Covers(<<>>, {})
        BY NoneCovers
      <4> QED BY <4>1 DEF Covers
    <3> QED BY <1>6, <2>3, <3>1
  <2>5. DOMAIN call'.lens = 1 .. n
    BY <1>4, <1>7
  <2>6. out' \in [DOMAIN call'.lens -> Nat] /\ \A i \in DOMAIN call'.lens : out'[i] = 0
    BY <1>1, <2>5
  <2>7. \A i \in DOMAIN call'.lens : \E item \in items' : i \in Extent(item)
    BY <1>1, <1>3, <2>5 DEF Shares
  <2>8. Hands' = Hands
    OBVIOUS
  <2> QED BY <2>1, <2>2, <2>3, <2>4, <2>6, <2>7, <2>8 DEF SharedOut
<1>11. PoolRight'
  <2>1. SUFFICES ASSUME call'.hands = Worker
                 PROVE  /\ FewItems' \/ LargeItems'
                        /\ call'.backend = "avx2" => Fours(items', Len(call'.lens))
    BY DEF PoolRight
  <2>2. UsesPool(c)
    BY <1>5, <1>7, <2>1
  <2>3. Busy' = {} /\ Cardinality(Busy') = 0
    <3>1. Busy' = {}
      BY <1>6, HandsApart DEF Busy
    <3> QED BY <3>1, FS_EmptySet
  <2>4. call'.backend = "avx2" => Fours(items', Len(call'.lens))
    BY <1>1, <1>3, <1>7, <2>2 DEF n
  <2>5. ASSUME FewAre(Items(c), c, b)
        PROVE  FewItems'
    <3>1. Cardinality(Items(c)) \in Nat
      BY <1>3, FS_CardinalityType
    <3>2. Cardinality(items') + Cardinality(Busy') = Cardinality(Items(c))
      BY <1>1, <2>3, <3>1
    <3> QED BY <1>1, <1>7, <2>5, <3>2 DEF FewItems, FewAre, Threads
  <2>6. ASSUME OneIs(Items(c), c, b)
        PROVE  LargeItems'
    <3>1. MinLen(call', call'.backend) = MinLen(c, b)
      BY <1>7 DEF MinLen
    <3>2. Apart(Items(c), n)
      BY <1>3 DEF Shares, Apart
    <3>3. Cardinality(Spread(Items(c))) \in Nat /\ Cardinality(Spread(Items(c))) <= n
      BY <1>4, <3>2, SpreadIn
    <3>4. MinLen(c, b) \in Nat
      BY <1>2, PlanNumbers
    <3>5. Cardinality(Spread(items')) + MinLen(c, b) * Cardinality(Busy') <= n
      BY <1>1, <1>4, <2>3, <3>3, <3>4
    <3>6. \A item \in items' : item.least = MinLen(c, b) /\ item.len >= item.least
      BY <1>1, <2>6 DEF OneIs
    <3>7. Len(call'.lens) = n
      BY <1>7 DEF n
    <3> QED BY <3>1, <3>5, <3>6, <3>7 DEF LargeItems
  <2> QED BY <1>3, <2>2, <2>4, <2>5, <2>6 DEF n
<1> QED BY <1>1, <1>3, <1>8, <1>9, <1>10, <1>11 DEF HashInv, Hands

LEMMA ReturnRight ==
  ASSUME HashInv, Return
  PROVE  HashInv'
<1>1. /\ items = {} /\ items' = items /\ mode' = mode /\ job' = job /\ call' = NoCall /\ out' = <<>>
      /\ \A w \in Hands : job[w] = <<>>
  BY DEF Return
<1>2. Resting'
  BY <1>1 DEF Resting, Hands
<1> QED BY <1>1, <1>2 DEF HashInv, Hands

LEMMA CallKept ==
  ASSUME UNCHANGED <<mode, call>>, CallRight
  PROVE  CallRight' /\ MinLen(call, call.backend)' = MinLen(call, call.backend)
BY DEF CallRight, MinLen

LEMMA CallNumbers ==
  ASSUME CallRight
  PROVE  /\ Len(call.lens) \in Nat /\ DOMAIN call.lens = 1 .. Len(call.lens)
         /\ MinLen(call, call.backend) \in Nat \ {0}
         /\ Threads * Params(call.kind, call.backend).tasks \in Nat \ {0}
         /\ Len(call.lens) <= (Threads * Params(call.kind, call.backend).tasks) * MinLen(call, call.backend)
<1> DEFINE n == Len(call.lens)
           l == MinLen(call, call.backend)
           t == Threads * Params(call.kind, call.backend).tasks
<1>1. call.kind \in Kinds /\ call.lens \in Seq(Nat) /\ call.backend \in Backends
  BY DEF CallRight
<1>2. n \in Nat /\ DOMAIN call.lens = 1 .. n
  BY <1>1
<1>3. l \in Nat \ {0} /\ t \in Nat \ {0} /\ l >= DivCeil(n, t)
  BY <1>1, PlanNumbers
<1> HIDE DEF n, l, t
<1>4. n <= t * l
  BY <1>2, <1>3, ShareCount
<1> QED BY <1>2, <1>3, <1>4 DEF n, l, t

LEMMA ItemsApart ==
  ASSUME CallRight, SharedOut
  PROVE  Apart(items, Len(call.lens))
BY DEF SharedOut, Apart, ItemRight

(* A thread takes an item: its positions move from the items to the groups *)
(* of the thread.                                                          *)
LEMMA TakeRight ==
  ASSUME HashInv, NEW w \in Hands, Take(w)
  PROVE  HashInv'
<1>1. /\ call # NoCall /\ w \in call.hands /\ job[w] = <<>>
      /\ mode' = mode /\ call' = call /\ out' = out
  BY DEF Take
<1>2. CallRight /\ SharedOut /\ PoolRight /\ IsFiniteSet(items) /\ job \in [Hands -> Seq(GroupType)]
  BY <1>1 DEF HashInv
<1>3. PICK item \in items : items' = items \ {item} /\ job' = [job EXCEPT ![w] = GroupsOf(item)]
  BY DEF Take
<1>4. PICK g : g = GroupsOf(item)
  OBVIOUS
<1>5. Covers(g, Extent(item))
  <2>1. ItemRight(item)
    BY <1>2 DEF SharedOut
  <2>2. call.backend = "scalar" \/ mode.simd
    BY <1>2 DEF CallRight, Backends
  <2>3. call.kind = "fixed" => \A i, j \in DOMAIN call.lens : call.lens[i] = call.lens[j]
    BY <1>2 DEF CallRight
  <2> QED BY <1>4, <2>1, <2>2, <2>3, GroupsCover
<1>6. Pending(g) = Extent(item) /\ Covers(g, Pending(g)) /\ g \in Seq(GroupType)
  BY <1>5, CoversPending
<1>7. /\ job' \in [Hands -> Seq(GroupType)]
      /\ job'[w] = g /\ \A v \in Hands : v # w => job'[v] = job[v]
  BY <1>2, <1>3, <1>4, <1>6
<1>8. Pending(job[w]) = {}
  BY <1>1, PendingNone
<1>9. IsFiniteSet(items')
  BY <1>2, <1>3, FS_RemoveElement
<1>10. SharedOut'
  <2>1. \A x \in items' : ItemRight(x)'
    BY <1>1, <1>2, <1>3 DEF SharedOut, ItemRight
  <2>2. \A x, y \in items' : x # y => Extent(x) \cap Extent(y) = {}
    BY <1>2, <1>3 DEF SharedOut
  <2>3. \A v \in Hands : Covers(job[v], Pending(job[v]))'
    <3>1. SUFFICES ASSUME NEW v \in Hands
                   PROVE  Covers(job[v], Pending(job[v]))'
      OBVIOUS
    <3>2. PICK gs : gs = job'[v]
      OBVIOUS
    <3>3. Covers(gs, Pending(gs))
      BY <1>2, <1>6, <1>7, <3>2 DEF SharedOut
    <3>4. Covers(gs, Pending(gs))'
      BY <1>1, <3>3, CoversKept
    <3> QED BY <3>2, <3>4
  <2>4. \A v \in Hands : Pending(job'[v]) \subseteq DOMAIN call'.lens
    <3>1. Extent(item) \subseteq DOMAIN call.lens
      BY <1>2, CallNumbers DEF SharedOut, ItemRight, Extent
    <3> QED BY <1>1, <1>2, <1>6, <1>7, <3>1 DEF SharedOut
  <2>5. \A v, u \in Hands : v # u => Pending(job'[v]) \cap Pending(job'[u]) = {}
    <3>1. \A v \in Hands : Extent(item) \cap Pending(job[v]) = {}
      BY <1>2 DEF SharedOut
    <3>2. \A v, u \in Hands : v # u => Pending(job[v]) \cap Pending(job[u]) = {}
      BY <1>2 DEF SharedOut
    <3>3. SUFFICES ASSUME NEW v \in Hands, NEW u \in Hands, v # u
                   PROVE  Pending(job'[v]) \cap Pending(job'[u]) = {}
      OBVIOUS
    <3>4. CASE v = w
      <4>1. Pending(job'[v]) = Extent(item) /\ job'[u] = job[u]
        BY <1>6, <1>7, <3>3, <3>4
      <4> QED BY <3>1, <4>1
    <3>5. CASE u = w
      <4>1. Pending(job'[u]) = Extent(item) /\ job'[v] = job[v]
        BY <1>6, <1>7, <3>3, <3>5
      <4> QED BY <3>1, <4>1
    <3>6. CASE v # w /\ u # w
      <4>1. job'[u] = job[u] /\ job'[v] = job[v]
        BY <1>7, <3>6
      <4> QED BY <3>2, <3>3, <4>1
    <3> QED BY <3>4, <3>5, <3>6
  <2>6. \A x \in items', v \in Hands : Extent(x) \cap Pending(job'[v]) = {}
    <3>1. \A x \in items' : x \in items /\ Extent(x) \cap Extent(item) = {}
      BY <1>2, <1>3 DEF SharedOut
    <3> QED BY <1>2, <1>6, <1>7, <3>1 DEF SharedOut
  <2>7. out' \in [DOMAIN call'.lens -> Nat]
    BY <1>1, <1>2 DEF SharedOut
  <2>8. \A i \in DOMAIN call'.lens :
          /\ out'[i] \in {0, i}
          /\ out'[i] = 0 <=> \/ \E x \in items' : i \in Extent(x)
                             \/ \E v \in Hands : i \in Pending(job'[v])
    <3>1. SUFFICES ASSUME NEW i \in DOMAIN call.lens
                   PROVE  (\/ \E x \in items' : i \in Extent(x)
                           \/ \E v \in Hands : i \in Pending(job'[v])) <=>
                          (\/ \E x \in items : i \in Extent(x)
                           \/ \E v \in Hands : i \in Pending(job[v]))
      BY <1>1, <1>2 DEF SharedOut
    <3>2. (\E x \in items : i \in Extent(x)) <=> (\E x \in items' : i \in Extent(x)) \/ i \in Extent(item)
      BY <1>3
    <3>3. (\E v \in Hands : i \in Pending(job'[v])) <=>
          (\E v \in Hands : i \in Pending(job[v])) \/ i \in Extent(item)
      BY <1>6, <1>7, <1>8
    <3> QED BY <3>2, <3>3
  <2>9. Hands' = Hands
    OBVIOUS
  <2> QED BY <2>1, <2>2, <2>3, <2>4, <2>5, <2>6, <2>7, <2>8, <2>9 DEF SharedOut
<1>11. CallRight' /\ MinLen(call, call.backend)' = MinLen(call, call.backend)
  BY <1>1, <1>2, CallKept
<1>12. Cardinality(items) \in Nat /\ Cardinality(items') = Cardinality(items) - 1
  BY <1>2, <1>3, FS_RemoveElement, FS_CardinalityType
<1>13. /\ Cardinality(Busy) \in Nat /\ Cardinality(Busy') \in Nat
       /\ Cardinality(Busy') <= Cardinality(Busy) + 1
  <2>1. Busy' \subseteq Busy \cup {w}
    <3>1. Busy' = {v \in Worker : job'[v] # <<>>}
      BY DEF Busy
    <3> QED BY <1>7, <3>1, HandsApart DEF Busy
  <2>2. IsFiniteSet(Busy \cup {w}) /\ Cardinality(Busy \cup {w}) <= Cardinality(Busy) + 1
        /\ Cardinality(Busy) \in Nat
    BY BusyCount, FS_AddElement
  <2>3. Cardinality(Busy') \in Nat /\ Cardinality(Busy') <= Cardinality(Busy \cup {w})
        /\ Cardinality(Busy \cup {w}) \in Nat
    BY <2>1, <2>2, CountSubset
  <2> QED BY <2>2, <2>3
<1>14. PoolRight'
  <2>1. SUFFICES ASSUME call.hands = Worker
                 PROVE  /\ FewItems' \/ LargeItems'
                        /\ call.backend = "avx2" => Fours(items', Len(call.lens))
    BY <1>1 DEF PoolRight
  <2>2. call.backend = "avx2" => Fours(items', Len(call.lens))
    BY <1>2, <1>3, <2>1 DEF PoolRight, Fours
  <2> DEFINE t == Threads * Params(call.kind, call.backend).tasks
             l == MinLen(call, call.backend)
             n == Len(call.lens)
  <2>3. t \in Nat /\ l \in Nat /\ n \in Nat
    BY <1>2, CallNumbers
  <2>4. ASSUME FewItems PROVE FewItems'
    <3>1. Cardinality(items) + Cardinality(Busy) <= t
      BY <2>4 DEF FewItems
    <3>2. (Threads * Params(call.kind, call.backend).tasks)' = t
      BY <1>1 DEF Threads
    <3> HIDE DEF t
    <3>3. Cardinality(items') + Cardinality(Busy') <= t
      BY <1>12, <1>13, <2>3, <3>1
    <3>4. \A x \in items' : x.least = 0
      BY <1>3, <2>4 DEF FewItems
    <3> QED BY <3>2, <3>3, <3>4 DEF FewItems
  <2>5. ASSUME LargeItems PROVE LargeItems'
    <3>1. Cardinality(Spread(items)) + l * Cardinality(Busy) <= n /\ item.len >= l
      BY <2>5 DEF LargeItems
    <3>2. Apart(items, n)
      BY <1>2, ItemsApart
    <3>3. Apart(items', n) /\ Cardinality(Spread(items)) = Cardinality(Spread(items')) + item.len
      BY <1>3, <2>3, <3>2, SpreadAdd
    <3>4. Cardinality(Spread(items')) \in Nat /\ item.len \in Nat
      <4>1. Cardinality(Spread(items')) \in Nat
        BY <2>3, <3>3, SpreadIn
      <4> QED BY <4>1, <3>2 DEF Apart
    <3>5. l' = l /\ n' = n
      BY <1>1, <1>11
    <3> HIDE DEF l, n
    <3>6. l * Cardinality(Busy') <= l * Cardinality(Busy) + l
      <4>1. PICK d \in Nat : Cardinality(Busy) + 1 = Cardinality(Busy') + d
        <5>1. Cardinality(Busy) + 1 - Cardinality(Busy') \in Nat
          BY <1>13
        <5> QED BY <5>1, <1>13
      <4>2. l * (Cardinality(Busy) + 1) = l * Cardinality(Busy') + l * d /\ l * d \in Nat
        BY <1>13, <2>3, <4>1
      <4>3. l * (Cardinality(Busy) + 1) = l * Cardinality(Busy) + l
        BY <1>13, <2>3
      <4>4. l * Cardinality(Busy) \in Nat /\ l * Cardinality(Busy') \in Nat
        BY <1>13, <2>3
      <4> QED BY <2>3, <4>2, <4>3, <4>4
    <3>7. l * Cardinality(Busy) \in Nat /\ l * Cardinality(Busy') \in Nat
      BY <1>13, <2>3
    <3>8. Cardinality(Spread(items')) + l * Cardinality(Busy') <= n
      BY <2>3, <3>1, <3>3, <3>4, <3>6, <3>7
    <3>9. \A x \in items' : x.least = l /\ x.len >= x.least
      BY <1>3, <2>5 DEF LargeItems, l
    <3> QED BY <3>5, <3>8, <3>9 DEF LargeItems, l, n
  <2> QED BY <1>2, <2>1, <2>2, <2>4, <2>5 DEF PoolRight
<1> QED BY <1>1, <1>2, <1>7, <1>9, <1>10, <1>11, <1>14 DEF HashInv, Hands

(* A thread writes the digests of its first group, each where its message  *)
(* is.                                                                     *)
LEMMA StoreRight ==
  ASSUME HashInv, NEW w \in Hands, Store(w)
  PROVE  HashInv'
<1>1. /\ job[w] # <<>> /\ job' = [job EXCEPT ![w] = Tail(@)]
      /\ mode' = mode /\ call' = call /\ items' = items
  BY DEF Store
<1>2. call # NoCall
  BY <1>1 DEF HashInv, Resting
<1>3. CallRight /\ SharedOut /\ PoolRight /\ IsFiniteSet(items) /\ job \in [Hands -> Seq(GroupType)]
  BY <1>2 DEF HashInv
<1>4. PICK gs : gs = job[w]
  OBVIOUS
<1> DEFINE cells == Head(gs).cells
           outs == OutsOf(cells)
           rest == Tail(gs)
<1>5. Covers(gs, Pending(gs)) /\ gs # <<>>
  BY <1>1, <1>3, <1>4 DEF SharedOut
<1>6. /\ GroupRight(Head(gs)) /\ outs \subseteq Pending(gs)
      /\ Covers(rest, Pending(rest)) /\ Pending(rest) = Pending(gs) \ outs
  BY <1>5, TailCovers
<1>7. out' = [i \in DOMAIN out |->
                IF \E k \in DOMAIN cells : cells[k].o = i
                  THEN cells[CHOOSE k \in DOMAIN cells : cells[k].o = i].m ELSE out[i]]
  BY <1>4 DEF Store
<1>8. \A k \in DOMAIN cells : cells[k].m = cells[k].o
  BY <1>6 DEF GroupRight
<1>9. \A i : i \in outs <=> \E k \in DOMAIN cells : cells[k].o = i
  <2> HIDE DEF cells
  <2> QED BY DEF OutsOf
<1>10. rest \in Seq(GroupType)
  BY <1>6 DEF Covers
<1>11. /\ job' \in [Hands -> Seq(GroupType)]
       /\ job'[w] = rest /\ \A v \in Hands : v # w => job'[v] = job[v]
  BY <1>1, <1>3, <1>4, <1>10
<1> HIDE DEF cells, rest
<1>12. out \in [DOMAIN call.lens -> Nat] /\ DOMAIN call.lens = 1 .. Len(call.lens) /\ Len(call.lens) \in Nat
  BY <1>3, CallNumbers DEF SharedOut
<1>13. /\ DOMAIN out' = DOMAIN call.lens /\ out' = [i \in DOMAIN call.lens |-> out'[i]]
       /\ \A i \in DOMAIN call.lens :
            out'[i] = IF i \in outs THEN i ELSE out[i]
  <2>1. DOMAIN out' = DOMAIN call.lens /\ out' = [i \in DOMAIN call.lens |-> out'[i]]
    BY <1>7, <1>12
  <2>2. ASSUME NEW i \in DOMAIN call.lens
        PROVE  out'[i] = IF i \in outs THEN i ELSE out[i]
    <3>1. CASE i \in outs
      <4>1. \E k \in DOMAIN cells : cells[k].o = i
        BY <1>9, <3>1
      <4>2. PICK k \in DOMAIN cells :
               k = CHOOSE l \in DOMAIN cells : cells[l].o = i
        BY <4>1
      <4>3. cells[k].o = i
        BY <4>1, <4>2
      <4>4. out'[i] = cells[k].m
        BY <1>7, <1>12, <4>1, <4>2
      <4> QED BY <1>8, <3>1, <4>3, <4>4
    <3>2. CASE i \notin outs
      BY <1>7, <1>9, <1>12, <3>2
    <3> QED BY <3>1, <3>2
  <2> QED BY <2>1, <2>2
<1> HIDE DEF outs
<1>14. SharedOut'
  <2>1. \A x \in items' : ItemRight(x)'
    BY <1>1, <1>3 DEF SharedOut, ItemRight
  <2>2. \A x, y \in items' : x # y => Extent(x) \cap Extent(y) = {}
    BY <1>1, <1>3 DEF SharedOut
  <2>3. \A v \in Hands : Covers(job[v], Pending(job[v]))'
    <3>1. SUFFICES ASSUME NEW v \in Hands
                   PROVE  Covers(job[v], Pending(job[v]))'
      OBVIOUS
    <3>2. PICK hs : hs = job'[v]
      OBVIOUS
    <3>3. Covers(hs, Pending(hs))
      BY <1>3, <1>6, <1>11, <3>2 DEF SharedOut
    <3>4. Covers(hs, Pending(hs))'
      BY <1>1, <3>3, CoversKept
    <3> QED BY <3>2, <3>4
  <2>4. \A v \in Hands : Pending(job'[v]) \subseteq Pending(job[v])
    BY <1>4, <1>6, <1>11
  <2>5. \A v \in Hands : Pending(job'[v]) \subseteq DOMAIN call'.lens
    BY <1>1, <1>3, <2>4 DEF SharedOut
  <2>6. \A v, u \in Hands : v # u => Pending(job'[v]) \cap Pending(job'[u]) = {}
    <3>1. \A v, u \in Hands : v # u => Pending(job[v]) \cap Pending(job[u]) = {}
      BY <1>3 DEF SharedOut
    <3> QED BY <2>4, <3>1
  <2>7. \A x \in items', v \in Hands : Extent(x) \cap Pending(job'[v]) = {}
    <3>1. \A x \in items', v \in Hands : Extent(x) \cap Pending(job[v]) = {}
      BY <1>1, <1>3 DEF SharedOut
    <3> QED BY <2>4, <3>1
  <2>8. out' \in [DOMAIN call'.lens -> Nat]
    <3>1. \A i \in DOMAIN call.lens : out'[i] \in Nat
      BY <1>12, <1>13
    <3> QED BY <1>1, <1>13, <3>1
  <2>9. ASSUME NEW i \in DOMAIN call.lens
        PROVE  /\ out'[i] \in {0, i}
               /\ out'[i] = 0 <=> \/ \E x \in items' : i \in Extent(x)
                                  \/ \E v \in Hands : i \in Pending(job'[v])
    <3>1. /\ out[i] \in {0, i}
          /\ out[i] = 0 <=> \/ \E x \in items : i \in Extent(x)
                            \/ \E v \in Hands : i \in Pending(job[v])
      BY <1>3 DEF SharedOut
    <3>2. i # 0
      BY <1>12
    <3>3. CASE i \in outs
      <4>1. i \in Pending(job[w]) /\ i \notin Pending(job'[w])
        BY <1>4, <1>6, <1>11, <3>3
      <4>2. \A x \in items : i \notin Extent(x)
        BY <1>3, <4>1 DEF SharedOut
      <4>3. \A v \in Hands : v # w => i \notin Pending(job[v])
        <5>1. \A v, u \in Hands : v # u => Pending(job[v]) \cap Pending(job[u]) = {}
          BY <1>3 DEF SharedOut
        <5> QED BY <4>1, <5>1
      <4>4. \A v \in Hands : i \notin Pending(job'[v])
        BY <1>11, <4>1, <4>3
      <4> QED BY <1>1, <1>13, <3>2, <3>3, <4>2, <4>4
    <3>4. CASE i \notin outs
      <4>1. i \in Pending(job'[w]) <=> i \in Pending(job[w])
        BY <1>4, <1>6, <1>11, <3>4
      <4>2. \A v \in Hands : i \in Pending(job'[v]) <=> i \in Pending(job[v])
        BY <1>11, <4>1
      <4> QED BY <1>1, <1>13, <3>1, <3>4, <4>2
    <3> QED BY <3>3, <3>4
  <2>10. DOMAIN call'.lens = DOMAIN call.lens
    BY <1>1
  <2>11. Hands' = Hands
    OBVIOUS
  <2> QED BY <2>1, <2>2, <2>3, <2>5, <2>6, <2>7, <2>8, <2>9, <2>10, <2>11 DEF SharedOut
<1>15. CallRight' /\ MinLen(call, call.backend)' = MinLen(call, call.backend)
  BY <1>1, <1>3, CallKept
<1>16. /\ Cardinality(Busy) \in Nat /\ Cardinality(Busy') \in Nat
       /\ Cardinality(Busy') <= Cardinality(Busy)
  <2>1. Busy' \subseteq Busy
    <3>1. Busy' = {v \in Worker : job'[v] # <<>>}
      BY DEF Busy
    <3> QED BY <1>1, <1>11, <3>1, HandsApart DEF Busy
  <2> QED BY <2>1, BusyCount
<1>17. PoolRight'
  <2>1. SUFFICES ASSUME call.hands = Worker
                 PROVE  FewItems' \/ LargeItems'
    BY <1>1, <1>3 DEF PoolRight, Fours
  <2> DEFINE t == Threads * Params(call.kind, call.backend).tasks
             l == MinLen(call, call.backend)
             n == Len(call.lens)
  <2>2. t \in Nat /\ l \in Nat /\ n \in Nat /\ Cardinality(items) \in Nat
    BY <1>3, CallNumbers, FS_CardinalityType
  <2>3. ASSUME FewItems PROVE FewItems'
    <3>1. Cardinality(items) + Cardinality(Busy) <= t
      BY <2>3 DEF FewItems
    <3>2. (Threads * Params(call.kind, call.backend).tasks)' = t
      BY <1>1 DEF Threads
    <3> HIDE DEF t
    <3>3. Cardinality(items) + Cardinality(Busy') <= t
      BY <1>16, <2>2, <3>1
    <3> QED BY <1>1, <2>3, <3>2, <3>3 DEF FewItems
  <2>4. ASSUME LargeItems PROVE LargeItems'
    <3>1. Cardinality(Spread(items)) + l * Cardinality(Busy) <= n
      BY <2>4 DEF LargeItems
    <3>2. Cardinality(Spread(items)) \in Nat
      BY <1>3, <2>2, ItemsApart, SpreadIn
    <3>3. l' = l /\ n' = n
      BY <1>1, <1>15
    <3>4. \A x \in items' : x.least = l /\ x.len >= x.least
      BY <1>1, <2>4 DEF LargeItems
    <3> HIDE DEF l, n
    <3>5. l * Cardinality(Busy') <= l * Cardinality(Busy)
      <4>1. PICK d \in Nat : Cardinality(Busy) = Cardinality(Busy') + d
        <5>1. Cardinality(Busy) - Cardinality(Busy') \in Nat
          BY <1>16
        <5> QED BY <5>1, <1>16
      <4>2. l * Cardinality(Busy) = l * Cardinality(Busy') + l * d /\ l * d \in Nat
        BY <1>16, <2>2, <4>1
      <4>3. l * Cardinality(Busy) \in Nat /\ l * Cardinality(Busy') \in Nat
        BY <1>16, <2>2
      <4> QED BY <4>2, <4>3
    <3>6. l * Cardinality(Busy) \in Nat /\ l * Cardinality(Busy') \in Nat
      BY <1>16, <2>2
    <3>7. Cardinality(Spread(items')) + l * Cardinality(Busy') <= n
      BY <1>1, <2>2, <3>1, <3>2, <3>5, <3>6
    <3> QED BY <3>3, <3>4, <3>7 DEF LargeItems, l, n
  <2> QED BY <1>3, <2>1, <2>3, <2>4 DEF PoolRight
<1> QED BY <1>1, <1>2, <1>3, <1>11, <1>14, <1>15, <1>17 DEF HashInv, Hands

(* The halves of an item hold what it held.                                *)
HalvesOf(a, b, x) ==
  /\ a = [x EXCEPT !.len = x.len \div 2]
  /\ b = [x EXCEPT !.from = @ + x.len \div 2, !.to = @ + x.len \div 2, !.len = @ - x.len \div 2]

HalvesRight(a, b, x, n) ==
  /\ a \in [from : Nat, to : Nat, len : Nat, least : Nat]
  /\ b \in [from : Nat, to : Nat, len : Nat, least : Nat]
  /\ a.from = a.to /\ b.from = b.to /\ a.to + a.len <= n /\ b.to + b.len <= n
  /\ a.least = x.least /\ b.least = x.least /\ a.len >= x.least /\ b.len >= x.least
  /\ Extent(a) \cup Extent(b) = Extent(x) /\ Extent(a) \cap Extent(b) = {}

LEMMA HalvesIs ==
  ASSUME NEW n \in Nat, NEW x, x \in [from : Nat, to : Nat, len : Nat, least : Nat],
         x.from = x.to, x.to + x.len <= n, x.least > 0, x.len \div 2 >= x.least,
         NEW a, NEW b, HalvesOf(a, b, x)
  PROVE  HalvesRight(a, b, x, n)
<1> DEFINE h == x.len \div 2
<1>1. /\ x = [from |-> x.from, to |-> x.to, len |-> x.len, least |-> x.least]
      /\ x.from \in Nat /\ x.to \in Nat /\ x.len \in Nat /\ x.least \in Nat
  OBVIOUS
<1>2. h \in Nat /\ h >= x.least /\ h + h <= x.len
  BY <1>1
<1>3. /\ a = [from |-> x.from, to |-> x.to, len |-> h, least |-> x.least]
      /\ b = [from |-> x.from + h, to |-> x.to + h, len |-> x.len - h, least |-> x.least]
  BY <1>1 DEF HalvesOf
<1> HIDE DEF h
<1>4. /\ a.from = x.from /\ a.to = x.to /\ a.len = h /\ a.least = x.least
      /\ b.from = x.from + h /\ b.to = x.to + h /\ b.len = x.len - h /\ b.least = x.least
  BY <1>3
<1>5. x.len - h \in Nat /\ x.len - h >= x.least /\ x.from + h \in Nat
  BY <1>1, <1>2
<1>6. /\ a \in [from : Nat, to : Nat, len : Nat, least : Nat]
      /\ b \in [from : Nat, to : Nat, len : Nat, least : Nat]
  BY <1>1, <1>2, <1>3, <1>5
<1>7. Extent(a) \cup Extent(b) = Extent(x)
  BY <1>1, <1>2, <1>4, <1>5 DEF Extent
<1>8. Extent(a) \cap Extent(b) = {}
  BY <1>1, <1>2, <1>4, <1>5 DEF Extent
<1>9. a.to + a.len <= n /\ b.to + b.len <= n
  BY <1>1, <1>2, <1>4
<1> QED BY <1>2, <1>4, <1>5, <1>6, <1>7, <1>8, <1>9 DEF HalvesRight

LEMMA SplitRight ==
  ASSUME HashInv, NEW item \in items, Split(item)
  PROVE  HashInv'
<1> DEFINE a == [item EXCEPT !.len = item.len \div 2]
           b == [item EXCEPT !.from = @ + item.len \div 2, !.to = @ + item.len \div 2,
                             !.len = @ - item.len \div 2]
           n == Len(call.lens)
<1>1. /\ call # NoCall /\ item.least > 0 /\ item.len \div 2 >= item.least
      /\ items' = (items \ {item}) \cup {a, b}
      /\ mode' = mode /\ call' = call /\ job' = job /\ out' = out
  BY DEF Split
<1>2. CallRight /\ SharedOut /\ PoolRight /\ IsFiniteSet(items) /\ job \in [Hands -> Seq(GroupType)]
  BY <1>1 DEF HashInv
<1>3. n \in Nat /\ ItemRight(item) /\ call.lens \in Seq(Nat)
  BY <1>2 DEF SharedOut, ItemRight
<1>4. /\ a \in [from : Nat, to : Nat, len : Nat, least : Nat]
      /\ b \in [from : Nat, to : Nat, len : Nat, least : Nat]
      /\ a.from = a.to /\ b.from = b.to /\ a.to + a.len <= n /\ b.to + b.len <= n
      /\ a.least = item.least /\ b.least = item.least /\ a.len >= item.least /\ b.len >= item.least
      /\ Extent(a) \cup Extent(b) = Extent(item) /\ Extent(a) \cap Extent(b) = {}
  <2>1. HalvesOf(a, b, item)
    BY DEF HalvesOf
  <2>3. item \in [from : Nat, to : Nat, len : Nat, least : Nat] /\ item.from = item.to /\ item.to + item.len <= n
    BY <1>3 DEF ItemRight
  <2>4. item.least > 0 /\ item.len \div 2 >= item.least /\ n \in Nat
    BY <1>1, <1>3
  <2> HIDE DEF a, b, n
  <2>5. HalvesRight(a, b, item, n)
    BY <2>1, <2>3, <2>4, HalvesIs
  <2> QED BY <2>5 DEF HalvesRight
<1> HIDE DEF a, b
<1>5. \A x \in items' : (x \in items /\ x # item) \/ x = a \/ x = b
  BY <1>1
<1>6. Spread(items') = Spread(items)
  <2>1. \A i : i \in Spread(items) <=> \E x \in items : i \in Extent(x)
    BY SpreadIs
  <2>2. \A i : i \in Spread(items') <=> \E x \in items' : i \in Extent(x)
    BY SpreadIs
  <2>3. a \in items' /\ b \in items' /\ \A x \in items : x # item => x \in items'
    BY <1>1
  <2>4. Extent(a) \subseteq Extent(item) /\ Extent(b) \subseteq Extent(item)
    BY <1>4
  <2>5. \A i \in Extent(item) : i \in Extent(a) \/ i \in Extent(b)
    BY <1>4
  <2>6. ASSUME NEW i PROVE i \in Spread(items') <=> i \in Spread(items)
    <3>1. ASSUME NEW x \in items, i \in Extent(x) PROVE \E y \in items' : i \in Extent(y)
      BY <2>3, <2>5, <3>1
    <3>2. ASSUME NEW y \in items', i \in Extent(y) PROVE \E x \in items : i \in Extent(x)
      BY <1>5, <2>4, <3>2
    <3> QED BY <2>1, <2>2, <3>1, <3>2
  <2> QED BY <2>6
<1>7. IsFiniteSet(items')
  <2>1. IsFiniteSet(items \ {item})
    BY <1>2, FS_RemoveElement
  <2>2. IsFiniteSet((items \ {item}) \cup {a})
    BY <2>1, FS_AddElement
  <2>3. IsFiniteSet(((items \ {item}) \cup {a}) \cup {b})
    BY <2>2, FS_AddElement
  <2>4. items' = ((items \ {item}) \cup {a}) \cup {b}
    BY <1>1
  <2> QED BY <2>3, <2>4
<1>8. SharedOut'
  <2>1. \A x \in items' : ItemRight(x)'
    <3>1. \A x \in items : ItemRight(x)
      BY <1>2 DEF SharedOut
    <3>2. ItemRight(a) /\ ItemRight(b)
      BY <1>3, <1>4 DEF ItemRight
    <3>3. \A x \in items' : ItemRight(x)
      BY <1>5, <3>1, <3>2
    <3> QED BY <1>1, <3>3 DEF ItemRight
  <2>2. \A x, y \in items' : x # y => Extent(x) \cap Extent(y) = {}
    <3>1. \A x, y \in items : x # y => Extent(x) \cap Extent(y) = {}
      BY <1>2 DEF SharedOut
    <3>2. SUFFICES ASSUME NEW x \in items', NEW y \in items', x # y
                   PROVE  Extent(x) \cap Extent(y) = {}
      OBVIOUS
    <3>3. CASE x \in items /\ x # item /\ y \in items /\ y # item
      BY <3>1, <3>2, <3>3
    <3>4. CASE x \in {a, b} /\ y \in {a, b}
      BY <1>4, <3>2, <3>4
    <3>5. CASE x \in items /\ x # item /\ y \in {a, b}
      <4>1. Extent(x) \cap Extent(item) = {}
        BY <3>1, <3>5
      <4>2. Extent(y) \subseteq Extent(item)
        BY <1>4, <3>5
      <4> QED BY <4>1, <4>2
    <3>6. CASE y \in items /\ y # item /\ x \in {a, b}
      <4>1. Extent(y) \cap Extent(item) = {}
        BY <3>1, <3>6
      <4>2. Extent(x) \subseteq Extent(item)
        BY <1>4, <3>6
      <4> QED BY <4>1, <4>2
    <3> QED BY <1>5, <3>3, <3>4, <3>5, <3>6
  <2>3. \A v \in Hands : Covers(job[v], Pending(job[v]))'
    <3>1. SUFFICES ASSUME NEW v \in Hands
                   PROVE  Covers(job[v], Pending(job[v]))'
      OBVIOUS
    <3>2. PICK hs : hs = job'[v]
      OBVIOUS
    <3>3. Covers(hs, Pending(hs))
      BY <1>1, <1>2, <3>2 DEF SharedOut
    <3>4. Covers(hs, Pending(hs))'
      BY <1>1, <3>3, CoversKept
    <3> QED BY <3>2, <3>4
  <2>4. /\ \A w \in Hands : Pending(job'[w]) \subseteq DOMAIN call'.lens
        /\ \A v, w \in Hands : v # w => Pending(job'[v]) \cap Pending(job'[w]) = {}
        /\ out' \in [DOMAIN call'.lens -> Nat]
    BY <1>1, <1>2 DEF SharedOut
  <2>5. \A i : i \in Spread(items) <=> \E x \in items : i \in Extent(x)
    BY SpreadIs
  <2>6. \A i : i \in Spread(items) <=> \E x \in items' : i \in Extent(x)
    BY <1>6, SpreadIs
  <2>7. \A x \in items', w \in Hands : Extent(x) \cap Pending(job'[w]) = {}
    <3>1. \A x \in items, w \in Hands : Extent(x) \cap Pending(job'[w]) = {}
      BY <1>1, <1>2 DEF SharedOut
    <3>2. \A i \in Spread(items), w \in Hands : i \notin Pending(job'[w])
      BY <2>5, <3>1
    <3> QED BY <2>6, <3>2
  <2>8. ASSUME NEW i \in DOMAIN call.lens
        PROVE  /\ out'[i] \in {0, i}
               /\ out'[i] = 0 <=> \/ \E x \in items' : i \in Extent(x)
                                  \/ \E v \in Hands : i \in Pending(job'[v])
    <3>1. /\ out[i] \in {0, i}
          /\ out[i] = 0 <=> \/ \E x \in items : i \in Extent(x)
                            \/ \E v \in Hands : i \in Pending(job[v])
      BY <1>2 DEF SharedOut
    <3> QED BY <1>1, <2>5, <2>6, <3>1
  <2>9. DOMAIN call'.lens = DOMAIN call.lens
    BY <1>1
  <2>10. Hands' = Hands
    OBVIOUS
  <2> QED BY <2>1, <2>2, <2>3, <2>4, <2>7, <2>8, <2>9, <2>10 DEF SharedOut
<1>9. CallRight' /\ MinLen(call, call.backend)' = MinLen(call, call.backend)
  BY <1>1, <1>2, CallKept
<1>10. PoolRight'
  <2>1. SUFFICES ASSUME call.hands = Worker
                 PROVE  /\ LargeItems'
                        /\ call.backend = "avx2" => Fours(items', n)
    BY <1>1 DEF PoolRight
  <2>2. item.least # 0
    BY <1>1
  <2>3. call.backend # "avx2" /\ LargeItems
    BY <1>2, <2>1, <2>2 DEF PoolRight, Fours, FewItems
  <2>4. Busy' = Busy /\ call'.lens = call.lens
    BY <1>1 DEF Busy
  <2>5. \A x \in items' : x.least = MinLen(call, call.backend) /\ x.len >= x.least
    BY <1>4, <1>5, <2>3 DEF LargeItems
  <2>6. LargeItems'
    BY <1>6, <1>9, <2>3, <2>4, <2>5 DEF LargeItems
  <2> QED BY <2>3, <2>6
<1> QED BY <1>1, <1>2, <1>7, <1>8, <1>9, <1>10 DEF HashInv

LEMMA RestsRight ==
  ASSUME HashInv, UNCHANGED <<mode, call, items, job, out>>
  PROVE  HashInv'
<1>1. /\ call' = call /\ items' = items /\ job' = job /\ out' = out /\ mode' = mode
      /\ Hands' = Hands
  BY DEF Hands
<1>2. CASE call = NoCall
  <2>1. Resting'
    BY <1>1, <1>2 DEF HashInv, Resting
  <2> QED BY <1>1, <1>2, <2>1 DEF HashInv
<1>3. CASE call # NoCall
  <2>1. CallRight /\ SharedOut /\ PoolRight
    BY <1>3 DEF HashInv
  <2>2. CallRight' /\ MinLen(call, call.backend)' = MinLen(call, call.backend)
    BY <1>1, <2>1, CallKept
  <2>3. \A w \in Hands : Covers(job[w], Pending(job[w]))'
    <3>1. SUFFICES ASSUME NEW v \in Hands
                   PROVE  Covers(job[v], Pending(job[v]))'
      OBVIOUS
    <3>2. PICK hs : hs = job'[v]
      OBVIOUS
    <3>3. Covers(hs, Pending(hs))
      BY <1>1, <2>1, <3>2 DEF SharedOut
    <3>4. Covers(hs, Pending(hs))'
      BY <1>1, <3>3, CoversKept
    <3> QED BY <3>2, <3>4
  <2>4. \A x \in items' : ItemRight(x)'
    BY <1>1, <2>1 DEF SharedOut, ItemRight
  <2>5. SharedOut'
    BY <1>1, <2>1, <2>3, <2>4 DEF SharedOut
  <2>6. Busy' = Busy
    BY <1>1 DEF Busy
  <2>7. PoolRight'
    BY <1>1, <2>1, <2>2, <2>6 DEF PoolRight, FewItems, LargeItems, Fours, Threads
  <2> QED BY <1>1, <1>3, <2>2, <2>5, <2>7 DEF HashInv
<1> QED BY <1>2, <1>3

LEMMA HashKept == HashInv /\ [HashNext]_hashing => HashInv'
<1> SUFFICES ASSUME HashInv, [HashNext]_hashing PROVE HashInv'
  OBVIOUS
<1>1. CASE UNCHANGED hashing
  BY <1>1, RestsRight DEF hashing
<1>2. ASSUME NEW c \in Calls, Begin(c) PROVE HashInv'
  BY <1>2, BeginRight
<1>3. ASSUME NEW c \in Calls, Decline(c) PROVE HashInv'
  <2>1. UNCHANGED <<mode, call, items, job, out>>
    BY <1>3 DEF Decline
  <2> QED BY <2>1, RestsRight
<1>4. ASSUME NEW item \in items, Split(item) PROVE HashInv'
  BY <1>4, SplitRight
<1>5. ASSUME NEW w \in Hands, Take(w) PROVE HashInv'
  BY <1>5, TakeRight
<1>6. ASSUME NEW w \in Hands, Store(w) PROVE HashInv'
  BY <1>6, StoreRight
<1>7. CASE Return
  BY <1>7, ReturnRight
<1> QED BY <1>1, <1>2, <1>3, <1>4, <1>5, <1>6, <1>7 DEF HashNext

(* Every reachable state satisfies the inductive invariant of a batch:     *)
(* each position is written, or in one item, or in the groups of one       *)
(* thread, and items are as few or as large as the plan made them          *)
(* (dispatch.rs hash_fixed_parallel, hash_var_parallel).                   *)
THEOREM BatchShared == HashSpec => []HashInv
<1>1. HashInit => HashInv
  BY HashStarts
<1>2. HashInv /\ [HashNext]_hashing => HashInv'
  BY HashKept
<1> QED BY <1>1, <1>2, PTL DEF HashSpec

LEMMA HoldersNone ==
  ASSUME NEW i,
         \A x \in items : i \notin Extent(x), \A w \in Hands : i \notin Pending(job[w])
  PROVE  Holders(i) = {}
<1>1. \A w \in Hands : \A l \in DOMAIN job[w] : i \notin OutsOf(job[w][l].cells)
  BY PendingIs
<1>2. \A w \in Hands : \A l \in DOMAIN job[w] : ~ \E c \in DOMAIN job[w][l].cells : job[w][l].cells[c].o = i
  BY <1>1 DEF OutsOf
<1>3. {x \in items : i \in x.to + 1 .. x.to + x.len} = {}
  BY DEF Extent
<1>4. \A w \in Hands : {l \in DOMAIN job[w] : \E c \in DOMAIN job[w][l].cells : job[w][l].cells[c].o = i} = {}
  BY <1>2
<1> QED BY <1>3, <1>4 DEF Holders

LEMMA HolderOne ==
  ASSUME NEW i, NEW h, h \in Holders(i), \A g \in Holders(i) : g = h
  PROVE  Cardinality(Holders(i)) = 1
<1>1. Holders(i) = {h}
  OBVIOUS
<1> QED BY <1>1, FS_Singleton

LEMMA HoldersAre ==
  ASSUME NEW i, NEW h
  PROVE  h \in Holders(i) <=>
           \/ \E x \in items : i \in Extent(x) /\ h = <<"item", x>>
           \/ \E w \in Hands : \E k \in DOMAIN job[w] : i \in OutsOf(job[w][k].cells) /\ h = <<w, k>>
<1> DEFINE In(w, k) == \E c \in DOMAIN job[w][k].cells : job[w][k].cells[c].o = i
           A == {<<"item", item>> : item \in {x \in items : i \in x.to + 1 .. x.to + x.len}}
           B(w) == {<<w, k>> : k \in {l \in DOMAIN job[w] : In(w, l)}}
           C == UNION {B(w) : w \in Hands}
<1>1. Holders(i) = A \cup C
  BY DEF Holders
<1>2. h \in A <=> \E x \in items : i \in Extent(x) /\ h = <<"item", x>>
  BY DEF Extent
<1>3. \A w, k : In(w, k) <=> i \in OutsOf(job[w][k].cells)
  BY DEF OutsOf
<1> HIDE DEF In, A
<1>4. \A w : h \in B(w) <=> \E k \in DOMAIN job[w] : In(w, k) /\ h = <<w, k>>
  OBVIOUS
<1> HIDE DEF B
<1>5. h \in C <=> \E w \in Hands : h \in B(w)
  OBVIOUS
<1> HIDE DEF C
<1> QED BY <1>1, <1>2, <1>3, <1>4, <1>5

LEMMA OnceOfShared == HashInv => EachOutputOnce
<1> SUFFICES ASSUME HashInv, call # NoCall, NEW i \in DOMAIN out
             PROVE  Cardinality(Holders(i)) = IF out[i] = 0 THEN 1 ELSE 0
  BY DEF EachOutputOnce
<1>1. SharedOut
  BY DEF HashInv
<1>2. i \in DOMAIN call.lens
  BY <1>1 DEF SharedOut
<1>3. out[i] = 0 <=> \/ \E x \in items : i \in Extent(x)
                     \/ \E w \in Hands : i \in Pending(job[w])
  BY <1>1, <1>2 DEF SharedOut
<1>4. /\ \A x, y \in items : i \in Extent(x) /\ i \in Extent(y) => x = y
      /\ \A v, w \in Hands : i \in Pending(job[v]) /\ i \in Pending(job[w]) => v = w
      /\ \A x \in items, w \in Hands : ~(i \in Extent(x) /\ i \in Pending(job[w]))
  <2>1. \A x, y \in items : x # y => Extent(x) \cap Extent(y) = {}
    BY <1>1 DEF SharedOut
  <2>2. \A v, w \in Hands : v # w => Pending(job[v]) \cap Pending(job[w]) = {}
    BY <1>1 DEF SharedOut
  <2>3. \A x \in items, w \in Hands : Extent(x) \cap Pending(job[w]) = {}
    BY <1>1 DEF SharedOut
  <2> QED BY <2>1, <2>2, <2>3
<1>5. ASSUME NEW w \in Hands, NEW k \in DOMAIN job[w], i \in OutsOf(job[w][k].cells)
      PROVE  i \in Pending(job[w])
  BY <1>5, PendingIs
<1>6. CASE out[i] # 0
  <2>1. Holders(i) = {}
    BY <1>3, <1>6, HoldersNone
  <2> QED BY <1>6, <2>1, FS_EmptySet
<1>7. ASSUME NEW x \in items, i \in Extent(x), out[i] = 0
      PROVE  Cardinality(Holders(i)) = 1
  <2>1. <<"item", x>> \in Holders(i)
    BY <1>7, HoldersAre
  <2>2. ASSUME NEW h \in Holders(i) PROVE h = <<"item", x>>
    <3>1. \A w \in Hands : \A k \in DOMAIN job[w] : i \notin OutsOf(job[w][k].cells)
      BY <1>4, <1>5, <1>7
    <3>2. PICK y \in items : i \in Extent(y) /\ h = <<"item", y>>
      BY <2>2, <3>1, HoldersAre
    <3> QED BY <1>4, <1>7, <3>2
  <2> QED BY <2>1, <2>2, HolderOne
<1>8. ASSUME NEW w \in Hands, i \in Pending(job[w]), out[i] = 0
      PROVE  Cardinality(Holders(i)) = 1
  <2>1. PICK k \in DOMAIN job[w] : i \in OutsOf(job[w][k].cells)
    BY <1>8, PendingIs
  <2>2. <<w, k>> \in Holders(i)
    BY <2>1, HoldersAre
  <2>3. \A l \in DOMAIN job[w] : i \in OutsOf(job[w][l].cells) => l = k
    <3>1. Covers(job[w], Pending(job[w]))
      BY <1>1 DEF SharedOut
    <3> QED BY <2>1, <3>1 DEF Covers
  <2>4. ASSUME NEW h \in Holders(i) PROVE h = <<w, k>>
    <3>1. \A x \in items : i \notin Extent(x)
      BY <1>4, <1>8
    <3>2. PICK v \in Hands : \E l \in DOMAIN job[v] : i \in OutsOf(job[v][l].cells) /\ h = <<v, l>>
      BY <2>4, <3>1, HoldersAre
    <3>3. v = w
      BY <1>4, <1>5, <1>8, <3>2
    <3> QED BY <2>3, <3>2, <3>3
  <2> QED BY <2>2, <2>4, HolderOne
<1> QED BY <1>3, <1>6, <1>7, <1>8

(* The chunks of the pool and the chunks of the messages are cut apart,    *)
(* split and regrouped, and at every moment every output is written or in  *)
(* the hands of exactly one item or thread, whatever the call, the backend *)
(* and the threads (hash_fixed_parallel, hash_var_parallel and the kernels *)
(* of four of core_avx2.rs).                                               *)
THEOREM NoneTwiceNoneLost == HashSpec => []EachOutputOnce
<1>1. HashInv => EachOutputOnce
  BY OnceOfShared
<1> QED BY <1>1, BatchShared, PTL

LEMMA ContractsOfShared == HashInv => KernelContracts
<1> SUFFICES ASSUME HashInv PROVE KernelContracts
  OBVIOUS
<1>1. ASSUME NEW w \in Hands, NEW k \in DOMAIN job[w]
      PROVE  job[w][k].kernel # "scalar" =>
               /\ mode.simd
               /\ Len(job[w][k].cells) = 4 /\ job[w][k].among \in 4 .. Window
               /\ job[w][k].kernel = "equal" =>
                    \A c \in DOMAIN job[w][k].cells : LenOf(job[w][k].cells[c]) = LenOf(job[w][k].cells[1])
  <2>1. call # NoCall
    <3>1. SUFFICES ASSUME call = NoCall PROVE FALSE
      OBVIOUS
    <3>2. job[w] = <<>>
      BY <3>1 DEF HashInv, Resting
    <3> QED BY <3>2
  <2>2. Covers(job[w], Pending(job[w]))
    BY <2>1 DEF HashInv, SharedOut
  <2>3. GroupRight(job[w][k])
    BY <2>2 DEF Covers
  <2> QED BY <2>3 DEF GroupRight
<1>2. ASSUME call # NoCall, call.hands = Worker
      PROVE  Cardinality(items) + Cardinality(Busy) <= Threads * Params(call.kind, call.backend).tasks
  <2> DEFINE t == Threads * Params(call.kind, call.backend).tasks
             l == MinLen(call, call.backend)
             n == Len(call.lens)
             i == Cardinality(items)
             y == Cardinality(Busy)
  <2>1. CallRight /\ SharedOut /\ PoolRight /\ IsFiniteSet(items)
    BY <1>2 DEF HashInv
  <2>2. n \in Nat /\ l \in Nat \ {0} /\ t \in Nat \ {0} /\ n <= t * l
    BY <2>1, CallNumbers
  <2>3. i \in Nat /\ y \in Nat
    BY <2>1, BusyCount, FS_CardinalityType
  <2>4. CASE FewItems
    BY <2>4 DEF FewItems
  <2>5. CASE LargeItems
    <3> DEFINE s == Cardinality(Spread(items))
    <3>1. Apart(items, n)
      BY <2>1, ItemsApart
    <3>2. \A x \in items : x.len >= l
      BY <2>5 DEF LargeItems
    <3>3. s + l * y <= n
      BY <2>5 DEF LargeItems
    <3> HIDE DEF l, n
    <3>4. l * i <= s
      BY <2>1, <2>2, <3>1, <3>2, SpreadSize
    <3>5. s \in Nat
      BY <2>2, <3>1, SpreadIn
    <3>6. i + y <= t
      <4> HIDE DEF s, t, i, y
      <4>1. l * i \in Nat /\ l * y \in Nat /\ l * (i + y) = l * i + l * y /\ t * l = l * t /\ l * t \in Nat
        BY <2>2, <2>3
      <4>2. l * (i + y) <= l * t
        BY <2>2, <3>3, <3>4, <3>5, <4>1
      <4>3. SUFFICES ASSUME i + y > t PROVE FALSE
        BY <2>2, <2>3
      <4>4. PICK d \in Nat : i + y = t + 1 + d
        <5>1. i + y - t - 1 \in Nat /\ i + y = t + 1 + (i + y - t - 1)
          BY <2>2, <2>3, <4>3
        <5> QED BY <5>1
      <4>5. l * (i + y) = l * t + l + l * d /\ l * d \in Nat
        BY <2>2, <4>4
      <4> QED BY <2>2, <4>1, <4>2, <4>5
    <3> QED BY <3>6
  <2> QED BY <1>2, <2>1, <2>4, <2>5 DEF PoolRight
<1>3. ASSUME call # NoCall, call.hands = Worker, call.backend = "avx2"
      PROVE  \A x \in items : x.len % 4 = 0 \/ x.to + x.len = Len(call.lens)
  BY <1>3 DEF HashInv, PoolRight, Fours
<1> QED BY <1>1, <1>2, <1>3 DEF KernelContracts

(* The kernels only get what they may be given, and the pool no more items *)
(* than it has tasks (hash_chunk_len, hash_min_len and the safety comments *)
(* of the vector kernels).                                                 *)
THEOREM KernelsGetGroups == HashSpec => []KernelContracts
<1>1. HashInv => KernelContracts
  BY ContractsOfShared
<1> QED BY <1>1, BatchShared, PTL

-----------------------------------------------------------------------------
(* What a batch promises.                                                  *)

LEMMA BatchStarts == HashInit => HB!Init
BY DEF HashInit, HB!Init, HB!NoAnswer

LEMMA BatchSteps == HashInv /\ HashInv' /\ [HashNext]_hashing => [HB!Next]_(HB!vars)
<1> SUFFICES ASSUME HashInv, HashInv', [HashNext]_hashing PROVE [HB!Next]_(HB!vars)
  OBVIOUS
<1> DEFINE asked == IF call = NoCall THEN NoCall ELSE [kind |-> call.kind, lens |-> call.lens]
<1>1. call # NoCall => asked \in Calls /\ asked # NoCall /\ asked.lens = call.lens
  BY NoCallApart DEF HashInv, CallRight
<1>2. call = NoCall <=> asked = NoCall
  BY <1>1
<1>3. call' = call => asked' = asked
  OBVIOUS
<1>4. call' = NoCall => asked' = NoCall
  OBVIOUS
<1>5. ASSUME UNCHANGED <<call, answer>>
      PROVE  UNCHANGED HB!vars
  BY <1>3, <1>5 DEF HB!vars
<1>6. ASSUME NEW c \in Calls, Begin(c)
      PROVE  HB!Ask(c)
  <2>1. call = NoCall /\ call' # NoCall /\ call'.kind = c.kind /\ call'.lens = c.lens
    <3>1. call' # NoCall
      <4>1. call' \in [kind : Kinds, lens : Seq(Nat), backend : Backends, hands : {Worker, {Caller}}]
        <5>1. c.kind \in Kinds /\ c.lens \in Seq(Nat) /\ ChooseBackend(c) \in Backends
          BY CallIs
        <5>2. HandsFor(c) \in {Worker, {Caller}}
          BY DEF HandsFor
        <5> QED BY <1>6, <5>1, <5>2 DEF Begin
      <4> QED BY <4>1, NoCallApart
    <3> QED BY <1>6, <3>1 DEF Begin
  <2>2. asked = NoCall /\ asked' = c
    <3>1. c = [kind |-> c.kind, lens |-> c.lens]
      BY CallIs
    <3> QED BY <2>1, <3>1
  <2>3. answer' = [taken |-> FALSE, out |-> <<>>]
    BY <1>6 DEF Begin
  <2> QED BY <2>2, <2>3 DEF HB!Ask, HB!NoAnswer
<1>7. ASSUME NEW c \in Calls, Decline(c)
      PROVE  HB!Decline(c)
  <2>1. call = NoCall /\ call' = call /\ c.kind = "blocks" /\ answer' = [taken |-> FALSE, out |-> <<>>]
    BY <1>7 DEF Decline
  <2> QED BY <1>3, <2>1 DEF HB!Decline, HB!NoAnswer
<1>8. ASSUME Return
      PROVE  HB!Digests
  <2>1. /\ call # NoCall /\ items = {} /\ \A w \in Hands : job[w] = <<>>
        /\ answer' = [taken |-> TRUE, out |-> out] /\ call' = NoCall
    BY <1>8 DEF Return
  <2>2. SharedOut /\ CallRight
    BY <2>1 DEF HashInv
  <2>3. DOMAIN call.lens = 1 .. Len(call.lens)
    BY <2>2, CallNumbers
  <2>4. out \in [1 .. Len(call.lens) -> Nat]
    BY <2>2, <2>3 DEF SharedOut
  <2>5. ASSUME NEW i \in 1 .. Len(call.lens)
        PROVE  out[i] = i
    <3>1. /\ out[i] \in {0, i}
          /\ out[i] = 0 <=> \/ \E x \in items : i \in Extent(x)
                            \/ \E w \in Hands : i \in Pending(job[w])
      BY <2>2, <2>3 DEF SharedOut
    <3>2. \A w \in Hands : i \notin Pending(job[w])
      BY <2>1, PendingNone
    <3> QED BY <2>1, <3>1, <3>2
  <2>6. out = [i \in 1 .. Len(call.lens) |-> i]
    BY <2>4, <2>5
  <2>7. asked # NoCall /\ asked.lens = call.lens /\ asked' = NoCall
    BY <1>1, <1>4, <2>1
  <2> HIDE DEF asked
  <2> QED BY <2>1, <2>6, <2>7 DEF HB!Digests, asked
<1>9. ASSUME NEW item \in items, Split(item)
      PROVE  UNCHANGED <<call, answer>>
  BY <1>9 DEF Split
<1>10. ASSUME NEW w \in Hands, Take(w) \/ Store(w)
       PROVE  UNCHANGED <<call, answer>>
  BY <1>10 DEF Take, Store
<1>11. CASE UNCHANGED hashing
  BY <1>5, <1>11 DEF hashing
<1>12. CASE HashNext
  <2>1. ASSUME NEW c \in Calls, Begin(c) \/ Decline(c) PROVE HB!Next
    BY <1>6, <1>7, <2>1 DEF HB!Next
  <2>2. CASE Return
    BY <1>8, <2>2 DEF HB!Next
  <2> QED BY <1>5, <1>9, <1>10, <1>12, <2>1, <2>2 DEF HashNext
<1> QED BY <1>11, <1>12

(* However a batch is cut up, and whatever the threads do, the call gives  *)
(* the digest of every message at its position or, declined, nothing: the  *)
(* dispatcher of src/dispatch.rs implements HashBatch.                     *)
THEOREM HashesAsAsked == HashSpec => ImplementsHashBatch
<1>1. HashInit => HB!Init
  BY BatchStarts
<1>2. HashInv /\ HashInv' /\ [HashNext]_hashing => [HB!Next]_(HB!vars)
  BY BatchSteps
<1> QED BY <1>1, <1>2, BatchShared, PTL DEF HashSpec, ImplementsHashBatch, HB!Spec

=============================================================================
