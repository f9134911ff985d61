-------------------------- MODULE DurableStateProofs --------------------------
(***************************************************************************)
(* The two parts whose work is to keep a file true while processes share it *)
(* and die.  The state store: its types always, and its atomicity where no  *)
(* process stalls while it holds the lock, for any number of processes if   *)
(* none dies and for two if they may.  The recovery authority: its          *)
(* variables keep their types and the budget is exact, however many callers *)
(* there are and wherever they die.                                         *)
(***************************************************************************)
EXTENDS JsonStateStore, RecoveryAuthority, FiniteSetTheorems, TLAPS

-----------------------------------------------------------------------------
(* The state store *)

\* A process in a call has updates and attempts left.
Bounded ==
  \A p \in Writer :
    /\ place[p] \notin { "idle", "dead" } => made[p] < MaxUpdates
    /\ place[p] \in { "open", "inspect", "steal", "wait" } => tries[p] < MaxTries

TInv == StoreTypeOK /\ Bounded

LEMMA StoreInitTyped == StoreInit => TInv
  BY StoreAssumption DEF StoreInit, TInv, StoreTypeOK, Bounded, Value

LEMMA StoreNextTyped == TInv /\ [StoreNext]_storeVars => TInv'
<1> SUFFICES ASSUME TInv, [StoreNext]_storeVars PROVE TInv'
  OBVIOUS
<1> USE StoreAssumption DEF TInv, StoreTypeOK, Bounded, Value
<1>1. CASE Tick
  BY <1>1 DEF Tick
<1>2. ASSUME NEW p \in Writer, Call(p) PROVE TInv'
  BY <1>2 DEF Call, Move
<1>3. ASSUME NEW p \in Writer, OpenLock(p) PROVE TInv'
  BY <1>3 DEF OpenLock, Move
<1>4. ASSUME NEW p \in Writer, OpenBusy(p) PROVE TInv'
  BY <1>4 DEF OpenBusy, Move
<1>5. ASSUME NEW p \in Writer, Inspect(p) PROVE TInv'
  BY <1>5 DEF Inspect, Move
<1>6. ASSUME NEW p \in Writer, Steal(p) PROVE TInv'
  BY <1>6 DEF Steal, Move, Unlink
<1>7. ASSUME NEW p \in Writer, Wait(p) PROVE TInv'
  BY <1>7 DEF Wait, Move
<1>8. ASSUME NEW p \in Writer, Read(p) PROVE TInv'
  BY <1>8 DEF Read, Move
<1>9. ASSUME NEW p \in Writer, Write(p) PROVE TInv'
  BY <1>9 DEF Write, Move
<1>10. ASSUME NEW p \in Writer, Unlock(p) PROVE TInv'
  BY <1>10 DEF Unlock, Move, Unlink
<1>11. ASSUME NEW p \in Writer, Die(p) PROVE TInv'
  BY <1>11 DEF Die, Move
<1>12. CASE UNCHANGED storeVars
  BY <1>12 DEF storeVars
<1> QED
  BY <1>1, <1>2, <1>3, <1>4, <1>5, <1>6, <1>7, <1>8, <1>9, <1>10, <1>11, <1>12 DEF StoreNext

\* Every state of the store is well typed, crashes, stalls and steals included.
THEOREM StoreTypeCorrect == StoreSpec => []StoreTypeOK
<1>1. StoreSpec => []TInv
  BY StoreInitTyped, StoreNextTyped, PTL DEF StoreSpec
<1> QED
  BY <1>1, PTL DEF TInv

-----------------------------------------------------------------------------
(* Atomicity while every lock holder finishes in time *)

\* No holder stalls; and none dies, or there are no two others to see its lock file.
Sheltered ==
  /\ Stalls = FALSE
  /\ MaxCrashes = 0 \/ \A p, q, r \in Writer : p = q \/ q = r \/ p = r

\* A process that lives has made the updates of its own that the file holds, one less when
\* it is about to return; one that died may have been in either place.
Stored(p) ==
  CASE place[p] = "unlock" -> { made[p] + 1 }
    [] place[p] = "dead"   -> { made[p], made[p] + 1 }
    [] OTHER            -> { made[p] }

\* The inductive invariant: only a dead holder's lock file grows stale or is about to be
\* removed, the lock file is its holder's, and a holder that has read has read the current
\* value.
SInv ==
  /\ TInv
  /\ MaxCrashes = 0 => \A p \in Writer : place[p] # "dead"
  /\ age > StaleAge => owner # NoOwner /\ place[owner] = "dead"
  /\ \A p \in Writer : Holding(p) => owner = p
  /\ owner # NoOwner => Holding(owner) \/ place[owner] = "dead"
  /\ \A p \in Writer : place[p] = "steal" => owner # NoOwner /\ place[owner] = "dead"
  /\ \A p \in Writer : place[p] = "write" => copy[p] = file
  /\ \A p \in Writer : file[p] \in Stored(p)

LEMMA InitAtomic == StoreInit => SInv
  BY StoreInitTyped, StoreAssumption DEF StoreInit, SInv, Holding, Stored

\* Where nobody may die, nobody does.
LEMMA NobodyDies ==
  ASSUME SInv, MaxCrashes = 0, NEW p \in Writer
  PROVE  ~Die(p)
<1>1. Dead = {}
  BY DEF SInv, Dead
<1> QED
  BY <1>1, FS_EmptySet DEF Die

\* While one process is about to remove the lock file of a dead one, nobody else lives.
LEMMA LastOneSteals ==
  ASSUME Sheltered, SInv, NEW p \in Writer, place[p] = "steal"
  PROVE  /\ \A q \in Writer : q = p \/ place[q] = "dead"
         /\ owner \in Writer /\ place[owner] = "dead"
<1>1. owner \in Writer /\ place[owner] = "dead" /\ owner # p
  BY DEF SInv, TInv, StoreTypeOK
<1>2. MaxCrashes # 0
  BY <1>1 DEF SInv
<1>3. \A q \in Writer : q = p \/ q = owner
  BY <1>1, <1>2 DEF Sheltered
<1> QED
  BY <1>1, <1>3

LEMMA NextAtomic ==
  ASSUME Sheltered, SInv, [StoreNext]_storeVars
  PROVE  SInv'
<1>0. TInv'
  BY StoreNextTyped DEF SInv
<1> USE StoreAssumption, <1>0 DEF SInv, TInv, StoreTypeOK, Value, Holding, Stored
<1>1. CASE Tick
  BY <1>1 DEF Tick, Sheltered
<1>2. ASSUME NEW p \in Writer, Call(p) PROVE SInv'
  BY <1>2 DEF Call, Move
<1>3. ASSUME NEW p \in Writer, OpenLock(p) PROVE SInv'
  BY <1>3 DEF OpenLock, Move
<1>4. ASSUME NEW p \in Writer, OpenBusy(p) PROVE SInv'
  BY <1>4 DEF OpenBusy, Move
<1>5. ASSUME NEW p \in Writer, Inspect(p) PROVE SInv'
  BY <1>5 DEF Inspect, Move
<1>6. ASSUME NEW p \in Writer, Steal(p) PROVE SInv'
  BY <1>6, LastOneSteals DEF Steal, Move, Unlink
<1>7. ASSUME NEW p \in Writer, Wait(p) PROVE SInv'
  BY <1>7 DEF Wait, Move
<1>8. ASSUME NEW p \in Writer, Read(p) PROVE SInv'
  BY <1>8 DEF Read, Move
<1>9. ASSUME NEW p \in Writer, Write(p) PROVE SInv'
  BY <1>9 DEF Write, Move
<1>10. ASSUME NEW p \in Writer, Unlock(p) PROVE SInv'
  BY <1>10, LastOneSteals DEF Unlock, Move, Unlink
<1>11. ASSUME NEW p \in Writer, Die(p) PROVE SInv'
  BY <1>11, NobodyDies DEF Die, Move
<1>12. CASE UNCHANGED storeVars
  BY <1>12 DEF storeVars
<1> QED
  BY <1>1, <1>2, <1>3, <1>4, <1>5, <1>6, <1>7, <1>8, <1>9, <1>10, <1>11, <1>12 DEF StoreNext

LEMMA AlwaysAtomic == ASSUME Sheltered PROVE StoreSpec => []SInv
<1>1. SInv /\ [StoreNext]_storeVars => SInv'
  BY NextAtomic
<1> QED
  BY InitAtomic, <1>1, PTL DEF StoreSpec

\* One process at a time changes the file where no holder stalls, and none dies or two
\* processes share the store (update).
THEOREM StoreIsExclusive == ASSUME Sheltered PROVE StoreSpec => []Exclusive
<1>1. SInv => Exclusive
  BY DEF SInv, Exclusive
<1> QED
  BY <1>1, AlwaysAtomic, PTL

\* No update that returned is ever missing from the file under the same condition, a
\* holder's death and the removal of its lock file included: a third process is what makes
\* an update get lost.
THEOREM StoreLosesNothing == ASSUME Sheltered PROVE StoreSpec => []NoLostUpdate
<1>1. SInv => NoLostUpdate
  BY DEF SInv, TInv, StoreTypeOK, Value, NoLostUpdate, Stored
<1> QED
  BY <1>1, AlwaysAtomic, PTL

\* Every write of the file is one whole update of the value it replaces.
LEMMA WriteIsUpdate ==
  ASSUME SInv, NEW p \in Writer, Write(p)
  PROVE  Store!Update(p)
  BY DEF SInv, TInv, StoreTypeOK, Value, Write, Store!Update, Stored

LEMMA StepIsUpdate ==
  ASSUME SInv, [StoreNext]_storeVars
  PROVE  [\E p \in Writer : Store!Update(p)]_file
<1>1. ASSUME NEW p \in Writer, Write(p) PROVE \E q \in Writer : Store!Update(q)
  BY <1>1, WriteIsUpdate
<1>2. CASE UNCHANGED storeVars
  BY <1>2 DEF storeVars
<1>3. CASE StoreNext
  BY <1>1, <1>3 DEF StoreNext, Tick, Call, OpenLock, OpenBusy, Inspect, Steal, Wait, Read,
                    Unlock, Die
<1> QED
  BY <1>2, <1>3

\* Under the same condition the store implements the atomic register of updates.
THEOREM StoreIsAtomic == ASSUME Sheltered PROVE StoreSpec => IsAtomic
<1>1. StoreInit => Store!Init
  BY DEF StoreInit, Store!Init
<1>2. SInv /\ [StoreNext]_storeVars => [\E p \in Writer : Store!Update(p)]_file
  BY StepIsUpdate
<1> QED
  BY <1>1, <1>2, AlwaysAtomic, PTL DEF StoreSpec, IsAtomic, Store!Spec

-----------------------------------------------------------------------------
(* The recovery authority *)

LEMMA SaveTyped ==
  ASSUME epochs \in Seq(Epoch), NEW e \in DOMAIN epochs, NEW s \in EpochStatus,
         NEW a \in Process \cup { NoApproval }, SaveEpoch(e, s, a)
  PROVE  /\ epochs' \in Seq(Epoch)
         /\ Len(epochs') = Len(epochs)
         /\ DOMAIN epochs' = DOMAIN epochs
         /\ \A f \in DOMAIN epochs : f # e => epochs'[f] = epochs[f]
         /\ epochs'[e].status = s /\ epochs'[e].approval = a
         /\ epochs'[e].number = epochs[e].number
<1> DEFINE saved == [epochs[e] EXCEPT !.status = s, !.approval = a]
<1>1. epochs[e] \in Epoch  OBVIOUS
<1>2. saved \in Epoch /\ saved.status = s /\ saved.approval = a
      /\ saved.number = epochs[e].number
  BY <1>1 DEF Epoch
<1>3. epochs' = [epochs EXCEPT ![e] = saved]  BY DEF SaveEpoch
<1> HIDE DEF saved
<1>4. epochs' \in Seq(Epoch) /\ Len(epochs') = Len(epochs)  BY <1>2, <1>3
<1>5. DOMAIN epochs' = DOMAIN epochs  BY <1>3
<1>6. \A f \in DOMAIN epochs : f # e => epochs'[f] = epochs[f]  BY <1>3
<1>7. epochs'[e] = saved  BY <1>3
<1>8. QED  BY <1>2, <1>4, <1>5, <1>6, <1>7

-----------------------------------------------------------------------------
(* Any number of callers *)

\* Where a caller is about to save an epoch, it has one.
HoldsAnEpoch ==
  \A p \in Process : pc[p] \notin { "idle", "create", "accepted" } => at[p] \in DOMAIN epochs

TypedBudget == TypeOK /\ HoldsAnEpoch /\ BudgetIsExact

LEMMA InitTyped == Init => TypedBudget
  BY RecoveryAssumption DEF Init, TypedBudget, TypeOK, HoldsAnEpoch, BudgetIsExact

\* A step that saves an epoch and moves its caller on, to idle or with its epoch.
LEMMA SavingStepTyped ==
  ASSUME TypedBudget, NEW p \in Process,
         pc[p] \notin { "idle", "create", "accepted" },
         NEW s \in EpochStatus, NEW a \in Process \cup { NoApproval },
         SaveEpoch(at[p], s, a),
         NEW there \in { "idle", "close", "activate", "closeCompleted" }, Goto(p, there),
         UNCHANGED <<runVars, grants, localVars>>
  PROVE  TypedBudget'
<1>1. at[p] \in DOMAIN epochs /\ epochs \in Seq(Epoch)
  BY DEF TypedBudget, TypeOK, HoldsAnEpoch
<1>2. /\ epochs' \in Seq(Epoch)
      /\ Len(epochs') = Len(epochs)
      /\ DOMAIN epochs' = DOMAIN epochs
  BY <1>1, SaveTyped
<1>3. TypeOK'
  BY <1>2 DEF TypedBudget, TypeOK, Goto, runVars, localVars
<1>4. HoldsAnEpoch'
  BY <1>2 DEF TypedBudget, TypeOK, HoldsAnEpoch, Goto, runVars, localVars
<1>5. BudgetIsExact'
  BY DEF TypedBudget, BudgetIsExact, runVars, localVars
<1>6. QED  BY <1>3, <1>4, <1>5 DEF TypedBudget

\* A step that saves no epoch and leaves the run's budget alone.
LEMMA LocalStepTyped ==
  ASSUME TypedBudget, NEW p \in Process,
         UNCHANGED <<attempts, limit, epochs, grants>>,
         status' \in { "VALIDATING", "BLOCKED", "AWAITING_APPROVAL", "CERTIFIED", "CANCELLED" },
         active' \in 0 .. Len(epochs),
         NEW there \in { "idle", "exhaust", "close", "create", "register", "prompt",
                         "authorize", "activate", "confirm", "restore",
                         "accepted", "complete", "closeCompleted" },
         Goto(p, there),
         NEW e \in 0 .. Len(epochs),
         at' = [at EXCEPT ![p] = e],
         there \notin { "idle", "create", "accepted" } => e # 0,
         number' \in [Process -> Nat]
  PROVE  TypedBudget'
<1>1. DOMAIN epochs = 1 .. Len(epochs)  BY DEF TypedBudget, TypeOK
<1>2. TypeOK'  BY DEF TypedBudget, TypeOK, Goto
<1>3. HoldsAnEpoch'
  BY <1>1 DEF TypedBudget, TypeOK, HoldsAnEpoch, Goto
<1>4. BudgetIsExact'  BY DEF TypedBudget, BudgetIsExact
<1>5. QED  BY <1>2, <1>3, <1>4 DEF TypedBudget

LEMMA RunStepTyped ==
  TypedBudget /\ (Recover \/ Spend \/ Leave) => TypedBudget'
<1> SUFFICES ASSUME TypedBudget, Recover \/ Spend \/ Leave  PROVE TypedBudget'
  OBVIOUS
<1>1. HoldsAnEpoch'
  BY DEF TypedBudget, HoldsAnEpoch, Recover, Spend, Leave, localVars
<1>2. TypeOK'
  BY DEF TypedBudget, TypeOK, Recover, Spend, Leave, localVars
<1>3. BudgetIsExact'
  BY DEF TypedBudget, TypeOK, BudgetIsExact, Recover, Spend, Leave, Spent, localVars
<1>4. QED  BY <1>1, <1>2, <1>3 DEF TypedBudget

LEMMA CreateTyped ==
  ASSUME TypedBudget, NEW p \in Process, Create(p)  PROVE TypedBudget'
<1> DEFINE new == [number |-> number[p], status |-> "AWAITING_AUTHORIZATION",
                   approval |-> NoApproval]
<1>1. new \in Epoch
  BY DEF TypedBudget, TypeOK, Epoch, EpochStatus
<1>2. epochs' = Append(epochs, new)  BY DEF Create
<1> HIDE DEF new
<1>3. epochs' \in Seq(Epoch) /\ Len(epochs') = Len(epochs) + 1
  BY <1>1, <1>2 DEF TypedBudget, TypeOK
<1>4. DOMAIN epochs' = 1 .. Len(epochs) + 1 /\ DOMAIN epochs = 1 .. Len(epochs)
      /\ Len(epochs) \in Nat
  BY <1>3 DEF TypedBudget, TypeOK
<1>5. grants' \in Seq(DOMAIN epochs')
  <2>1. grants \in Seq(DOMAIN epochs) /\ DOMAIN epochs \subseteq DOMAIN epochs'
    BY <1>4 DEF TypedBudget, TypeOK
  <2>2. grants' = grants  BY DEF Create
  <2>3. QED  BY <2>1, <2>2
<1>6. TypeOK'
  BY <1>3, <1>4, <1>5 DEF TypedBudget, TypeOK, Create, Goto, runVars
<1>7. HoldsAnEpoch'
  BY <1>4 DEF TypedBudget, TypeOK, HoldsAnEpoch, Create, Goto
<1>8. BudgetIsExact'
  BY DEF TypedBudget, BudgetIsExact, Create, runVars
<1>9. QED  BY <1>6, <1>7, <1>8 DEF TypedBudget

\* The grant: the limit moves by one with the record of the epoch it is for.
LEMMA ActivateTyped ==
  ASSUME TypedBudget, NEW p \in Process, Activate(p)  PROVE TypedBudget'
<1>1. at[p] \in DOMAIN epochs /\ at[p] \in 0 .. Len(epochs)
  <2>1. pc[p] = "activate"  BY DEF Activate
  <2>2. at[p] \in DOMAIN epochs  BY <2>1 DEF TypedBudget, HoldsAnEpoch
  <2>3. at[p] \in 0 .. Len(epochs)  BY DEF TypedBudget, TypeOK
  <2>4. QED  BY <2>2, <2>3
<1>2. /\ grants' = Append(grants, at[p])
      /\ grants' \in Seq(DOMAIN epochs)
      /\ Len(grants') = Len(grants) + 1
  BY <1>1 DEF TypedBudget, TypeOK, Activate
<1>3. TypeOK'
  BY <1>1, <1>2 DEF TypedBudget, TypeOK, Activate, Goto, localVars
<1>4. HoldsAnEpoch'
  BY DEF TypedBudget, TypeOK, HoldsAnEpoch, Activate, Goto, localVars
<1>5. BudgetIsExact'
  <2>1. limit' = limit + 1 /\ attempts' = attempts /\ attempts >= limit
    BY DEF Activate, Eligible, Spent
  <2>2. limit \in Nat /\ attempts \in Nat /\ RepairLimit \in Nat /\ Len(grants) \in Nat
    BY RecoveryAssumption DEF TypedBudget, TypeOK
  <2>3. attempts <= limit /\ limit = RepairLimit + Len(grants)
    BY DEF TypedBudget, BudgetIsExact
  <2>4. QED  BY <1>2, <2>1, <2>2, <2>3 DEF BudgetIsExact
<1>6. QED  BY <1>3, <1>4, <1>5 DEF TypedBudget

LEMMA RequestTyped ==
  ASSUME TypedBudget, NEW p \in Process, Request(p)  PROVE TypedBudget'
<1> USE DEF TypedBudget, TypeOK, Request, runVars
<1>0. /\ UNCHANGED <<attempts, limit, epochs, grants>>
      /\ status' \in { "VALIDATING", "BLOCKED", "AWAITING_APPROVAL", "CERTIFIED", "CANCELLED" }
      /\ active' \in 0 .. Len(epochs)
  OBVIOUS
<1>1. CASE \E e \in Awaiting :
             at' = [at EXCEPT ![p] = e] /\ Goto(p, "prompt") /\ UNCHANGED number
  <2>1. PICK e \in Awaiting :
           at' = [at EXCEPT ![p] = e] /\ Goto(p, "prompt") /\ UNCHANGED number
    BY <1>1
  <2>2. e \in 0 .. Len(epochs) /\ e # 0  BY DEF Awaiting
  <2>3. QED  BY <1>0, <2>1, <2>2, LocalStepTyped
<1>2. CASE number' = [number EXCEPT ![p] = 1] /\ Goto(p, "create") /\ UNCHANGED at
  <2>1. at[p] \in 0 .. Len(epochs) /\ at' = [at EXCEPT ![p] = at[p]]  BY <1>2
  <2>2. QED  BY <1>0, <1>2, <2>1, LocalStepTyped
<1>3. CASE \E e \in Latest :
             /\ at'     = [at EXCEPT ![p] = e]
             /\ number' = [number EXCEPT ![p] = epochs[e].number + 1]
             /\ Goto(p, IF epochs[e].status = "ACTIVE" THEN "exhaust" ELSE "create")
  <2>1. PICK e \in Latest :
             /\ at'     = [at EXCEPT ![p] = e]
             /\ number' = [number EXCEPT ![p] = epochs[e].number + 1]
             /\ Goto(p, IF epochs[e].status = "ACTIVE" THEN "exhaust" ELSE "create")
    BY <1>3
  <2>2. e \in DOMAIN epochs /\ e \in 0 .. Len(epochs) /\ e # 0  BY DEF Latest
  <2>3. epochs[e] \in Epoch  BY <2>2
  <2>4. number' \in [Process -> Nat]  BY <2>1, <2>3 DEF Epoch
  <2>5. CASE Goto(p, "exhaust")  BY <1>0, <2>1, <2>2, <2>4, <2>5, LocalStepTyped
  <2>6. CASE Goto(p, "create")   BY <1>0, <2>1, <2>2, <2>4, <2>6, LocalStepTyped
  <2>7. QED  BY <2>1, <2>5, <2>6
<1>4. QED  BY <1>1, <1>2, <1>3

\* The other steps of a caller that save no epoch.
LEMMA QuietTyped ==
  ASSUME TypedBudget, NEW p \in Process,
         \/ CloseExhausted(p) \/ CloseCompleted(p) \/ Register(p) \/ Decline(p)
         \/ Sign(p) \/ Refuse(p) \/ Accept(p) \/ CompleteActive(p) \/ Crash(p)
  PROVE  TypedBudget'
<1> USE DEF TypedBudget, TypeOK
<1>0. at[p] \in 0 .. Len(epochs) /\ at = [at EXCEPT ![p] = at[p]]
      /\ active \in 0 .. Len(epochs) /\ 0 \in 0 .. Len(epochs)
  OBVIOUS
<1>1. ASSUME pc[p] \notin { "idle", "create", "accepted" }  PROVE at[p] # 0
  <2>1. at[p] \in DOMAIN epochs  BY <1>1 DEF HoldsAnEpoch
  <2>2. QED  BY <2>1
<1>2. CASE CloseExhausted(p)
  <2>1. active' \in 0 .. Len(epochs)  BY <1>0, <1>2 DEF CloseExhausted, Close
  <2>2. CASE Goto(p, "create")
    BY <1>0, <1>2, <2>1, <2>2, LocalStepTyped DEF CloseExhausted, Close, localVars
  <2>3. CASE Goto(p, "idle")
    BY <1>0, <1>2, <2>1, <2>3, LocalStepTyped DEF CloseExhausted, Close, localVars
  <2>4. QED  BY <1>2, <2>2, <2>3 DEF CloseExhausted, Close
<1>3. CASE CloseCompleted(p)
  <2>1. active' \in 0 .. Len(epochs)  BY <1>0, <1>3 DEF CloseCompleted, Close
  <2>2. Goto(p, "idle")  BY <1>3 DEF CloseCompleted, Close
  <2>3. QED
    BY <1>0, <1>3, <2>1, <2>2, LocalStepTyped DEF CloseCompleted, Close, localVars
<1>4. CASE Register(p)
  <2>1. at[p] # 0  BY <1>1, <1>4 DEF Register
  <2>2. CASE at[p] \in Awaiting
    BY <1>0, <1>4, <2>1, <2>2, LocalStepTyped DEF Register, runVars, localVars
  <2>3. CASE at[p] \notin Awaiting
    BY <1>0, <1>4, <2>3, LocalStepTyped DEF Register, runVars, localVars
  <2>4. QED  BY <2>2, <2>3
<1>5. CASE Sign(p)
  <2>1. at[p] # 0  BY <1>1, <1>5 DEF Sign
  <2>2. CASE at[p] \in Awaiting
    BY <1>0, <1>5, <2>1, <2>2, LocalStepTyped DEF Sign, runVars, localVars
  <2>3. CASE at[p] \notin Awaiting
    BY <1>0, <1>5, <2>3, LocalStepTyped DEF Sign, runVars, localVars
  <2>4. QED  BY <2>2, <2>3
<1>6. CASE Refuse(p)
  <2>1. at[p] # 0  BY <1>1, <1>6 DEF Refuse
  <2>2. QED  BY <1>0, <1>6, <2>1, LocalStepTyped DEF Refuse, runVars, localVars
<1>7. CASE Accept(p)
  BY <1>0, <1>7, LocalStepTyped DEF Accept, localVars
<1>8. CASE CompleteActive(p)
  <2>1. CASE active = 0
    BY <1>0, <1>8, <2>1, LocalStepTyped DEF CompleteActive, runVars
  <2>2. CASE active # 0
    BY <1>0, <1>8, <2>2, LocalStepTyped DEF CompleteActive, runVars
  <2>3. QED  BY <2>1, <2>2
<1>9. CASE Decline(p) \/ Crash(p)
  BY <1>0, <1>9, LocalStepTyped DEF Decline, Crash, runVars, localVars
<1>10. QED  BY <1>2, <1>3, <1>4, <1>5, <1>6, <1>7, <1>8, <1>9

LEMMA SavingTyped ==
  ASSUME TypedBudget, NEW p \in Process,
         Exhaust(p) \/ Authorize(p) \/ Confirm(p) \/ Restore(p) \/ Complete(p)
  PROVE  TypedBudget'
<1>1. CASE Exhaust(p)
  <2>1. pc[p] = "exhaust" /\ epochs \in Seq(Epoch)
    BY <1>1 DEF TypedBudget, TypeOK, Exhaust
  <2>2. epochs[at[p]].approval \in Process \cup { NoApproval }
    <3>1. at[p] \in DOMAIN epochs  BY <2>1 DEF TypedBudget, HoldsAnEpoch
    <3>2. epochs[at[p]] \in Epoch  BY <2>1, <3>1
    <3>3. QED  BY <3>2 DEF Epoch
  <2>3. QED  BY <1>1, <2>1, <2>2, SavingStepTyped DEF Exhaust, EpochStatus
<1>2. CASE Complete(p)
  <2>1. pc[p] = "complete" /\ epochs \in Seq(Epoch)
    BY <1>2 DEF TypedBudget, TypeOK, Complete
  <2>2. epochs[at[p]].approval \in Process \cup { NoApproval }
    <3>1. at[p] \in DOMAIN epochs  BY <2>1 DEF TypedBudget, HoldsAnEpoch
    <3>2. epochs[at[p]] \in Epoch  BY <2>1, <3>1
    <3>3. QED  BY <3>2 DEF Epoch
  <2>3. QED  BY <1>2, <2>1, <2>2, SavingStepTyped DEF Complete, EpochStatus
<1>3. CASE Authorize(p)
  BY <1>3, SavingStepTyped DEF Authorize, EpochStatus
<1>4. CASE Confirm(p)
  BY <1>4, SavingStepTyped DEF Confirm, EpochStatus
<1>5. CASE Restore(p)
  BY <1>5, SavingStepTyped DEF Restore, EpochStatus
<1>6. QED  BY <1>1, <1>2, <1>3, <1>4, <1>5

LEMMA NextTyped == TypedBudget /\ [Next]_vars => TypedBudget'
<1> SUFFICES ASSUME TypedBudget, [Next]_vars  PROVE TypedBudget'
  OBVIOUS
<1>1. CASE Recover \/ Spend \/ Leave  BY <1>1, RunStepTyped
<1>2. ASSUME NEW p \in Process,
             \/ Request(p) \/ Exhaust(p) \/ CloseExhausted(p) \/ Create(p) \/ Register(p)
             \/ Decline(p) \/ Sign(p) \/ Authorize(p) \/ Activate(p) \/ Refuse(p)
             \/ Confirm(p) \/ Restore(p)
             \/ Accept(p) \/ CompleteActive(p) \/ Complete(p) \/ CloseCompleted(p)
             \/ Crash(p)
      PROVE  TypedBudget'
  BY <1>2, RequestTyped, CreateTyped, ActivateTyped, SavingTyped, QuietTyped
<1>3. CASE UNCHANGED vars
  BY <1>3 DEF TypedBudget, TypeOK, HoldsAnEpoch, BudgetIsExact, vars, runVars, localVars
<1>4. QED  BY <1>1, <1>2, <1>3 DEF Next

LEMMA AlwaysTyped == Spec => []TypedBudget
  BY InitTyped, NextTyped, PTL DEF Spec

\* The variables keep their types: what a caller holds is an epoch on record.
THEOREM TypeCorrect == Spec => []TypeOK
<1>1. TypedBudget => TypeOK  BY DEF TypedBudget
<1>2. QED  BY <1>1, AlwaysTyped, PTL

\* An attempt is granted only when all are used, one for each grant on record,
\* whatever the callers and wherever they die.
THEOREM GrantsAreNotStacked == Spec => []BudgetIsExact
<1>1. TypedBudget => BudgetIsExact  BY DEF TypedBudget
<1>2. QED  BY <1>1, AlwaysTyped, PTL

-----------------------------------------------------------------------------
(* One caller *)

Alone == \A p, q \in Process : p = q

Stopped == status = "BLOCKED" /\ Spent

Granted == { grants[i] : i \in DOMAIN grants }

Quiet == Awaiting = {} /\ \A e \in DOMAIN epochs : epochs[e].status # "ACTIVE"

\* What the caller has established when it is about to take a step.
Established(p) ==
  /\ pc[p] \in { "exhaust", "close", "create" } => Stopped /\ number[p] = Len(epochs) + 1
  /\ pc[p] = "exhaust" => epochs[at[p]].status = "ACTIVE"
  /\ pc[p] \in { "close", "create" } => Quiet
  /\ pc[p] \in { "register", "prompt", "authorize" } => at[p] \in Awaiting
  /\ pc[p] \in { "activate", "restore" } => Quiet /\ Stopped /\ at[p] \notin Granted
  /\ pc[p] \in { "activate", "restore", "confirm" } =>
       at[p] = Len(epochs) /\ epochs[at[p]].status = "AUTHORIZED"
  /\ pc[p] = "confirm" => Quiet /\ active = at[p]
  /\ pc[p] \in { "accepted", "complete", "closeCompleted" } => Awaiting = {}
  /\ pc[p] = "accepted" => active = 0 \/ epochs[active].status # "EXHAUSTED"
  /\ pc[p] = "complete" => active = at[p] /\ epochs[at[p]].status # "EXHAUSTED"
  /\ pc[p] = "closeCompleted" => epochs[at[p]].status = "COMPLETED"

\* The epochs are numbered in order, and only the last is open; one that was
\* granted waits no more; an exhausted one is named only by a stopped run.
Ordered ==
  /\ \A e \in DOMAIN epochs : epochs[e].number = e
  /\ \A e \in DOMAIN epochs :
       epochs[e].status \in { "AWAITING_AUTHORIZATION", "ACTIVE" } => e = Len(epochs)
  /\ Awaiting \cap Granted = {}
  /\ active # 0 /\ epochs[active].status = "EXHAUSTED" => Stopped

Safe ==
  /\ \A p \in Process : Established(p)
  /\ Ordered
  /\ OneGrantPerEpoch
  /\ WaitingRunStaysBlocked
  /\ ActiveEpochIsCurrent

AloneInv == Alone /\ TypedBudget /\ Safe

LEMMA InitAlone == Alone /\ Init => AloneInv
  BY InitTyped DEF AloneInv, Safe, Established, Ordered, OneGrantPerEpoch,
     WaitingRunStaysBlocked, ActiveEpochIsCurrent, Awaiting, Granted, Init

\* What the run does is done when it is not stopped.
LEMMA RunStepSafe ==
  AloneInv /\ (Recover \/ Spend \/ Leave) => Safe'
<1> SUFFICES ASSUME AloneInv, Recover \/ Spend \/ Leave  PROVE Safe'
  OBVIOUS
<1>1. ~Stopped /\ UNCHANGED <<active, epochs, grants, pc, at, number>>
  BY DEF Stopped, Recover, Spend, Leave, localVars
<1>2. Awaiting' = Awaiting /\ Granted' = Granted /\ (Quiet <=> Quiet')
  BY <1>1 DEF Awaiting, Granted, Quiet
<1>3. Awaiting = {}
  BY <1>1 DEF AloneInv, Safe, WaitingRunStaysBlocked, Stopped
<1>4. ASSUME NEW p \in Process  PROVE Established(p)'
  BY <1>1, <1>2 DEF AloneInv, Safe, Established
<1>5. Ordered'
  BY <1>1, <1>2 DEF AloneInv, Safe, Ordered
<1>6. OneGrantPerEpoch' /\ WaitingRunStaysBlocked' /\ ActiveEpochIsCurrent'
  BY <1>1, <1>2, <1>3 DEF AloneInv, Safe, OneGrantPerEpoch, WaitingRunStaysBlocked,
     ActiveEpochIsCurrent
<1>7. QED  BY <1>4, <1>5, <1>6 DEF Safe

\* Where the run, the epochs and the grants stay, the caller's own facts suffice.
LEMMA LocalStepSafe ==
  ASSUME AloneInv, NEW p \in Process, UNCHANGED <<runVars, epochs, grants>>,
         Established(p)'
  PROVE  Safe'
<1>1. Awaiting' = Awaiting /\ Granted' = Granted
  BY DEF Awaiting, Granted
<1>2. \A q \in Process : Established(q)'
  BY DEF AloneInv, Alone
<1>3. Ordered'
  BY <1>1 DEF AloneInv, Safe, Ordered, Stopped, Spent, runVars
<1>4. OneGrantPerEpoch' /\ WaitingRunStaysBlocked' /\ ActiveEpochIsCurrent'
  BY <1>1 DEF AloneInv, Safe, OneGrantPerEpoch, WaitingRunStaysBlocked,
     ActiveEpochIsCurrent, Spent, runVars
<1>5. QED  BY <1>2, <1>3, <1>4 DEF Safe

LEMMA Moved ==
  ASSUME TypedBudget, NEW p \in Process, NEW there, Goto(p, there)
  PROVE  pc'[p] = there
BY DEF TypedBudget, TypeOK, Goto

LEMMA WaitingIsLast ==
  ASSUME AloneInv, NEW e \in Awaiting
  PROVE  e = Len(epochs) /\ epochs[e].status = "AWAITING_AUTHORIZATION" /\ e \in DOMAIN epochs
BY DEF AloneInv, Safe, Ordered, Awaiting

\* The latest epoch is the last.
LEMMA LatestIsLast ==
  ASSUME AloneInv
  PROVE  /\ \A e \in Latest : e = Len(epochs) /\ epochs[e].number = e /\ e \in DOMAIN epochs
         /\ Latest = {} => Len(epochs) = 0
<1>1. DOMAIN epochs = 1 .. Len(epochs) /\ Len(epochs) \in Nat
  BY DEF AloneInv, TypedBudget, TypeOK
<1>2. \A e \in DOMAIN epochs : epochs[e].number = e
  BY DEF AloneInv, Safe, Ordered
<1>3. ASSUME NEW e \in Latest  PROVE e = Len(epochs) /\ epochs[e].number = e /\ e \in DOMAIN epochs
  <2>1. e \in DOMAIN epochs /\ \A f \in DOMAIN epochs : epochs[f].number <= epochs[e].number
    BY DEF Latest
  <2>2. Len(epochs) \in DOMAIN epochs  BY <1>1, <2>1
  <2>3. Len(epochs) <= e  BY <1>2, <2>1, <2>2
  <2>4. QED  BY <1>1, <1>2, <2>1, <2>3
<1>4. ASSUME Len(epochs) # 0  PROVE Latest # {}
  <2>1. Len(epochs) \in DOMAIN epochs  BY <1>1, <1>4
  <2>2. \A f \in DOMAIN epochs : epochs[f].number <= epochs[Len(epochs)].number
    BY <1>1, <1>2, <2>1
  <2>3. Len(epochs) \in Latest  BY <2>1, <2>2 DEF Latest
  <2>4. QED  BY <2>3
<1>5. QED  BY <1>3, <1>4

LEMMA RequestSafe ==
  ASSUME AloneInv, NEW p \in Process, Request(p)  PROVE Safe'
<1>0. /\ UNCHANGED <<runVars, epochs, grants>>
      /\ Stopped /\ TypedBudget
      /\ at \in [Process -> 0 .. Len(epochs)] /\ number \in [Process -> Nat]
  BY DEF AloneInv, TypedBudget, TypeOK, Request, Stopped
<1>1. Stopped' /\ Awaiting' = Awaiting /\ Granted' = Granted /\ (Quiet <=> Quiet')
  BY <1>0 DEF Stopped, Spent, Awaiting, Granted, Quiet, runVars
<1>2. CASE \E e \in Awaiting :
             at' = [at EXCEPT ![p] = e] /\ Goto(p, "prompt") /\ UNCHANGED number
  <2>1. PICK e \in Awaiting : at' = [at EXCEPT ![p] = e] /\ Goto(p, "prompt")
    BY <1>2
  <2>2. pc'[p] = "prompt" /\ at'[p] = e  BY <1>0, <2>1, Moved
  <2>3. Established(p)'  BY <1>1, <2>2 DEF Established
  <2>4. QED  BY <1>0, <2>3, LocalStepSafe
<1>3. CASE /\ Latest = {}
           /\ number' = [number EXCEPT ![p] = 1]
           /\ Goto(p, "create")
           /\ UNCHANGED at
  <2>1. pc'[p] = "create" /\ number'[p] = 1  BY <1>0, <1>3, Moved
  <2>2. Len(epochs) = 0 /\ DOMAIN epochs = {}
    BY <1>3, LatestIsLast DEF AloneInv, TypedBudget, TypeOK
  <2>3. Quiet  BY <2>2 DEF Quiet, Awaiting
  <2>4. Established(p)'  BY <1>0, <1>1, <2>1, <2>2, <2>3 DEF Established
  <2>5. QED  BY <1>0, <2>4, LocalStepSafe
<1>4. ASSUME Awaiting = {}, NEW e \in Latest,
             at'     = [at EXCEPT ![p] = e],
             number' = [number EXCEPT ![p] = epochs[e].number + 1],
             Goto(p, IF epochs[e].status = "ACTIVE" THEN "exhaust" ELSE "create")
      PROVE  Safe'
  <2>1. e = Len(epochs) /\ epochs[e].number = e /\ e \in DOMAIN epochs  BY LatestIsLast
  <2>2. at'[p] = e /\ number'[p] = Len(epochs) + 1  BY <1>0, <1>4, <2>1
  <2>3. CASE epochs[e].status = "ACTIVE"
    <3>1. pc'[p] = "exhaust"  BY <1>0, <1>4, <2>3, Moved
    <3>2. Established(p)'  BY <1>0, <1>1, <2>2, <2>3, <3>1 DEF Established
    <3>3. QED  BY <1>0, <3>2, LocalStepSafe
  <2>4. CASE epochs[e].status # "ACTIVE"
    <3>1. pc'[p] = "create"  BY <1>0, <1>4, <2>4, Moved
    <3>2. Quiet  BY <1>4, <2>1, <2>4 DEF AloneInv, Safe, Ordered, Quiet
    <3>3. Established(p)'  BY <1>0, <1>1, <2>2, <3>1, <3>2 DEF Established
    <3>4. QED  BY <1>0, <3>3, LocalStepSafe
  <2>5. QED  BY <2>3, <2>4
<1>5. QED  BY <1>2, <1>3, <1>4 DEF Request

LEMMA QuietSafe ==
  ASSUME AloneInv, NEW p \in Process,
         Register(p) \/ Decline(p) \/ Sign(p) \/ Refuse(p) \/ CompleteActive(p) \/ Crash(p)
  PROVE  Safe'
<1>0. /\ UNCHANGED <<runVars, epochs, grants>>
      /\ TypedBudget /\ Established(p) /\ number' = number
      /\ at \in [Process -> 0 .. Len(epochs)]
  BY DEF AloneInv, Safe, TypedBudget, TypeOK, Register, Decline, Sign, Refuse, CompleteActive,
     Crash, localVars
<1>1. Awaiting' = Awaiting /\ Granted' = Granted /\ (Stopped <=> Stopped') /\ (Quiet <=> Quiet')
  BY <1>0 DEF Stopped, Spent, Awaiting, Granted, Quiet, runVars
<1>2. ASSUME pc'[p] = "idle"  PROVE Safe'
  <2>1. Established(p)'  BY <1>2 DEF Established
  <2>2. QED  BY <1>0, <2>1, LocalStepSafe
<1>3. CASE Register(p) \/ Sign(p)
  <2>1. at[p] \in Awaiting /\ at'[p] = at[p]
    BY <1>0, <1>3 DEF Established, Register, Sign, localVars
  <2>2. pc'[p] \in { "prompt", "authorize" }
    BY <1>0, <1>3, <2>1, Moved DEF Register, Sign
  <2>3. Established(p)'  BY <1>1, <2>1, <2>2 DEF Established
  <2>4. QED  BY <1>0, <2>3, LocalStepSafe
<1>4. CASE Refuse(p)
  <2>1. pc'[p] = "restore" /\ pc[p] = "activate"  BY <1>0, <1>4, Moved DEF Refuse
  <2>2. Established(p)'  BY <1>0, <1>1, <1>4, <2>1 DEF Established, Refuse, localVars
  <2>3. QED  BY <1>0, <2>2, LocalStepSafe
<1>5. CASE CompleteActive(p) /\ active # 0
  <2>1. pc'[p] = "complete" /\ pc[p] = "accepted" /\ at'[p] = active
    BY <1>0, <1>5, Moved DEF CompleteActive
  <2>2. Established(p)'  BY <1>0, <1>1, <1>5, <2>1 DEF Established, runVars
  <2>3. QED  BY <1>0, <2>2, LocalStepSafe
<1>6. CASE Decline(p) \/ Crash(p) \/ (CompleteActive(p) /\ active = 0)
  <2>1. pc'[p] = "idle"  BY <1>0, <1>6, Moved DEF Decline, Crash, CompleteActive
  <2>2. QED  BY <1>2, <2>1
<1>7. QED  BY <1>3, <1>4, <1>5, <1>6

LEMMA AcceptSafe ==
  ASSUME AloneInv, NEW p \in Process, Accept(p)  PROVE Safe'
<1>0. /\ UNCHANGED <<attempts, limit, active, epochs, grants, at, number>>
      /\ TypedBudget /\ ~Stopped /\ ~Stopped' /\ status' = "AWAITING_APPROVAL"
  BY DEF AloneInv, Accept, Stopped, localVars
<1>1. Awaiting' = Awaiting /\ Granted' = Granted /\ Awaiting = {}
  BY <1>0 DEF AloneInv, Safe, WaitingRunStaysBlocked, Stopped, Awaiting, Granted
<1>2. pc'[p] = "accepted"  BY <1>0, Moved DEF Accept
<1>3. active = 0 \/ epochs[active].status # "EXHAUSTED"
  BY <1>0 DEF AloneInv, Safe, Ordered
<1>4. Established(p)'  BY <1>0, <1>1, <1>2, <1>3 DEF Established
<1>5. \A q \in Process : Established(q)'  BY <1>4 DEF AloneInv, Alone
<1>6. Ordered'  BY <1>0, <1>1, <1>3 DEF AloneInv, Safe, Ordered
<1>7. OneGrantPerEpoch' /\ WaitingRunStaysBlocked' /\ ActiveEpochIsCurrent'
  BY <1>0, <1>1 DEF AloneInv, Safe, OneGrantPerEpoch, WaitingRunStaysBlocked,
     ActiveEpochIsCurrent
<1>8. QED  BY <1>5, <1>6, <1>7 DEF Safe

LEMMA CloseSafe ==
  ASSUME AloneInv, NEW p \in Process, CloseExhausted(p) \/ CloseCompleted(p)
  PROVE  Safe'
<1>0. /\ UNCHANGED <<status, attempts, limit, epochs, grants, at, number>>
      /\ TypedBudget /\ Established(p)
      /\ (active = at[p] /\ active' = 0) \/ (active # at[p] /\ active' = active)
  BY DEF AloneInv, Safe, CloseExhausted, CloseCompleted, Close, localVars
<1>1. Awaiting' = Awaiting /\ Granted' = Granted /\ (Stopped <=> Stopped') /\ (Quiet <=> Quiet')
  BY <1>0 DEF Stopped, Spent, Awaiting, Granted, Quiet
<1>2. Established(p)'
  <2>1. CASE CloseExhausted(p)
    <3>1. pc[p] = "close" /\ pc'[p] \in { "create", "idle" }
      BY <1>0, <2>1, Moved DEF CloseExhausted, Close
    <3>2. QED  BY <1>0, <1>1, <3>1 DEF Established
  <2>2. CASE CloseCompleted(p)
    <3>1. pc'[p] = "idle"
      BY <1>0, <2>2, Moved DEF CloseCompleted, Close
    <3>2. QED  BY <3>1 DEF Established
  <2>3. QED  BY <2>1, <2>2
<1>3. \A q \in Process : Established(q)'  BY <1>2 DEF AloneInv, Alone
<1>4. Ordered'  BY <1>0, <1>1 DEF AloneInv, Safe, Ordered
<1>5. epochs[at[p]].status # "ACTIVE"
  <2>1. at[p] \in DOMAIN epochs
    BY DEF AloneInv, TypedBudget, HoldsAnEpoch, CloseExhausted, CloseCompleted, Close
  <2>2. QED
    BY <1>0, <2>1 DEF Established, CloseExhausted, CloseCompleted, Close, Quiet
<1>6. OneGrantPerEpoch' /\ WaitingRunStaysBlocked'
  BY <1>0, <1>1 DEF AloneInv, Safe, OneGrantPerEpoch, WaitingRunStaysBlocked, Stopped
<1>7. ActiveEpochIsCurrent'
  BY <1>0, <1>1, <1>5 DEF AloneInv, Safe, ActiveEpochIsCurrent
<1>8. QED  BY <1>3, <1>4, <1>6, <1>7 DEF Safe

LEMMA CreateSafe ==
  ASSUME AloneInv, NEW p \in Process, Create(p)  PROVE Safe'
<1> DEFINE n   == Len(epochs) + 1
           new == [number |-> number[p], status |-> "AWAITING_AUTHORIZATION",
                   approval |-> NoApproval]
<1>0. /\ TypedBudget /\ epochs \in Seq(Epoch) /\ at \in [Process -> 0 .. Len(epochs)]
      /\ active \in 0 .. Len(epochs) /\ grants \in Seq(DOMAIN epochs)
      /\ pc[p] = "create" /\ Established(p)
      /\ UNCHANGED <<status, attempts, limit, active, grants, number>>
      /\ epochs' = Append(epochs, new) /\ at' = [at EXCEPT ![p] = n] /\ Goto(p, "register")
  BY DEF AloneInv, Safe, TypedBudget, TypeOK, Create, runVars
<1>1. Stopped /\ Stopped' /\ Quiet /\ number[p] = n
  BY <1>0 DEF Established, Stopped, Spent
<1>2. new.status = "AWAITING_AUTHORIZATION" /\ new.number = n  BY <1>1
<1>3. pc'[p] = "register" /\ at'[p] = n  BY <1>0, Moved
<1> HIDE DEF new
<1>4. /\ DOMAIN epochs = 1 .. Len(epochs) /\ Len(epochs) \in Nat
      /\ Len(epochs') = n /\ DOMAIN epochs' = 1 .. n
      /\ epochs'[n] = new
      /\ \A e \in DOMAIN epochs : epochs'[e] = epochs[e]
  BY <1>0
<1>5. \A e \in DOMAIN epochs' : e = n \/ (e \in DOMAIN epochs /\ epochs'[e] = epochs[e])
  BY <1>4
<1>6. n \in Awaiting' /\ \A e \in Awaiting' : e = n
  BY <1>1, <1>2, <1>4, <1>5 DEF Awaiting, Quiet
<1>7. Granted' = Granted /\ n \notin Granted
  <2>1. \A i \in DOMAIN grants : grants[i] \in DOMAIN epochs  BY <1>0
  <2>2. n \notin DOMAIN epochs  BY <1>4
  <2>3. QED  BY <1>0, <2>1, <2>2 DEF Granted
<1>8. Established(p)'
  BY <1>3, <1>6 DEF Established
<1>9. \A q \in Process : Established(q)'  BY <1>8 DEF AloneInv, Alone
<1>10. Ordered'
  <2>1. \A e \in DOMAIN epochs' : epochs'[e].number = e
    BY <1>2, <1>4, <1>5 DEF AloneInv, Safe, Ordered
  <2>2. \A e \in DOMAIN epochs' :
          epochs'[e].status \in { "AWAITING_AUTHORIZATION", "ACTIVE" } => e = n
    BY <1>1, <1>5 DEF Quiet, Awaiting
  <2>3. QED  BY <1>1, <1>4, <1>6, <1>7, <2>1, <2>2 DEF Ordered
<1>11. OneGrantPerEpoch' /\ WaitingRunStaysBlocked'
  BY <1>0, <1>1 DEF AloneInv, Safe, OneGrantPerEpoch, WaitingRunStaysBlocked, Stopped
<1>12. ActiveEpochIsCurrent'
  BY <1>1, <1>2, <1>4, <1>5 DEF ActiveEpochIsCurrent, Quiet
<1>13. QED  BY <1>9, <1>10, <1>11, <1>12 DEF Safe

LEMMA ActivateSafe ==
  ASSUME AloneInv, NEW p \in Process, Activate(p)  PROVE Safe'
<1>0. /\ TypedBudget /\ Established(p) /\ pc[p] = "activate"
      /\ grants \in Seq(DOMAIN epochs)
      /\ UNCHANGED <<status, attempts, epochs, at, number>>
      /\ active' = at[p] /\ grants' = Append(grants, at[p]) /\ Goto(p, "confirm")
  BY DEF AloneInv, Safe, TypedBudget, TypeOK, Activate, localVars
<1>1. /\ Quiet /\ at[p] \notin Granted
      /\ at[p] = Len(epochs) /\ epochs[at[p]].status = "AUTHORIZED"
  BY <1>0 DEF Established
<1>2. pc'[p] = "confirm"  BY <1>0, Moved
<1>3. Awaiting' = Awaiting /\ Quiet'  BY <1>0, <1>1 DEF Awaiting, Quiet
<1>4. Established(p)'  BY <1>0, <1>1, <1>2, <1>3 DEF Established
<1>5. \A q \in Process : Established(q)'  BY <1>4 DEF AloneInv, Alone
<1>6. Ordered'
  BY <1>0, <1>1, <1>3 DEF AloneInv, Safe, Ordered, Quiet
<1>7. OneGrantPerEpoch'
  <2>1. at[p] \in DOMAIN epochs  BY <1>0 DEF TypedBudget, HoldsAnEpoch
  <2> DEFINE n == Len(grants) + 1
  <2>2. /\ DOMAIN grants = 1 .. Len(grants) /\ Len(grants) \in Nat
        /\ DOMAIN grants' = 1 .. n
        /\ grants'[n] = at[p]
        /\ \A i \in DOMAIN grants : grants'[i] = grants[i]
    BY <1>0, <2>1
  <2>3. \A i \in DOMAIN grants' : i = n \/ i \in DOMAIN grants  BY <2>2
  <2>4. \A i \in DOMAIN grants : grants[i] # at[p]  BY <1>1 DEF Granted
  <2> HIDE DEF n
  <2>5. QED
    BY <2>2, <2>3, <2>4 DEF AloneInv, Safe, OneGrantPerEpoch
<1>8. WaitingRunStaysBlocked' /\ ActiveEpochIsCurrent'
  BY <1>0, <1>1, <1>3 DEF Quiet, WaitingRunStaysBlocked, ActiveEpochIsCurrent
<1>9. QED  BY <1>5, <1>6, <1>7, <1>8 DEF Safe

\* What a caller's save of its epoch leaves to be shown: that the new status fits.
LEMMA SavingStepSafe ==
  ASSUME AloneInv, NEW p \in Process,
         pc[p] \notin { "idle", "create", "accepted" },
         NEW s \in EpochStatus, NEW a \in Process \cup { NoApproval },
         SaveEpoch(at[p], s, a), UNCHANGED <<runVars, grants, localVars>>,
         s \in { "AWAITING_AUTHORIZATION", "ACTIVE" } => Quiet /\ at[p] = Len(epochs),
         s = "AWAITING_AUTHORIZATION" => Stopped /\ at[p] \notin Granted,
         s = "ACTIVE" => active = at[p],
         s = "EXHAUSTED" => Stopped,
         Established(p)'
  PROVE  Safe'
<1>1. at[p] \in DOMAIN epochs /\ epochs \in Seq(Epoch)
  BY DEF AloneInv, TypedBudget, TypeOK, HoldsAnEpoch
<1>2. /\ Len(epochs') = Len(epochs)
      /\ DOMAIN epochs' = DOMAIN epochs
      /\ \A f \in DOMAIN epochs : f # at[p] => epochs'[f] = epochs[f]
      /\ epochs'[at[p]].status = s
      /\ epochs'[at[p]].number = epochs[at[p]].number
  BY <1>1, SaveTyped
<1>3. (Stopped <=> Stopped') /\ Granted' = Granted
      /\ UNCHANGED <<status, attempts, limit, active, grants>>
  BY DEF Stopped, Spent, Granted, runVars
<1>4. \A e \in Awaiting' : e \in Awaiting \/ (e = at[p] /\ s = "AWAITING_AUTHORIZATION")
  BY <1>2 DEF Awaiting
<1>5. s = "ACTIVE" => Awaiting' = {}
  BY <1>4 DEF Quiet
<1>6. Ordered'
  <2>1. \A e \in DOMAIN epochs' : epochs'[e].number = e
    BY <1>1, <1>2 DEF AloneInv, Safe, Ordered
  <2>2. \A e \in DOMAIN epochs' :
          epochs'[e].status \in { "AWAITING_AUTHORIZATION", "ACTIVE" } => e = Len(epochs')
    BY <1>1, <1>2 DEF AloneInv, Safe, Ordered
  <2>3. (Awaiting \cap Granted)' = {}
    BY <1>3, <1>4 DEF AloneInv, Safe, Ordered
  <2>4. (active # 0 /\ epochs[active].status = "EXHAUSTED" => Stopped)'
    <3>1. active # 0 => active \in DOMAIN epochs  BY DEF AloneInv, TypedBudget, TypeOK
    <3>2. QED  BY <1>2, <1>3, <3>1 DEF AloneInv, Safe, Ordered
  <2>5. QED  BY <2>1, <2>2, <2>3, <2>4 DEF Ordered
<1>7. OneGrantPerEpoch'
  BY <1>3 DEF AloneInv, Safe, OneGrantPerEpoch
<1>8. WaitingRunStaysBlocked'
  BY <1>3, <1>4 DEF AloneInv, Safe, WaitingRunStaysBlocked, Stopped
<1>9. ActiveEpochIsCurrent'
  BY <1>1, <1>2, <1>3, <1>4, <1>5 DEF AloneInv, Safe, ActiveEpochIsCurrent, Quiet
<1>10. \A q \in Process : Established(q)'  BY DEF AloneInv, Alone
<1>11. QED  BY <1>6, <1>7, <1>8, <1>9, <1>10 DEF Safe

LEMMA SavingSafe ==
  ASSUME AloneInv, NEW p \in Process,
         Exhaust(p) \/ Authorize(p) \/ Confirm(p) \/ Restore(p) \/ Complete(p)
  PROVE  Safe'
<1>0. /\ TypedBudget /\ Established(p) /\ epochs \in Seq(Epoch)
      /\ UNCHANGED <<runVars, grants, localVars>>
      /\ pc[p] \notin { "idle", "create", "accepted" }
  BY DEF AloneInv, Safe, TypedBudget, TypeOK, Exhaust, Authorize, Confirm, Restore, Complete
<1>1. at[p] \in DOMAIN epochs  BY <1>0 DEF TypedBudget, HoldsAnEpoch
<1>2. epochs[at[p]].approval \in Process \cup { NoApproval }
  <2>1. epochs[at[p]] \in Epoch  BY <1>0, <1>1
  <2>2. QED  BY <2>1 DEF Epoch
<1>3. UNCHANGED <<active, at, number>> /\ (Stopped <=> Stopped') /\ Granted' = Granted
  BY <1>0 DEF Stopped, Spent, Granted, runVars, localVars
<1>4. ASSUME NEW s \in EpochStatus, NEW a \in Process \cup { NoApproval },
             SaveEpoch(at[p], s, a)
      PROVE  /\ Len(epochs') = Len(epochs)
             /\ DOMAIN epochs' = DOMAIN epochs
             /\ \A f \in DOMAIN epochs : f # at[p] => epochs'[f] = epochs[f]
             /\ epochs'[at[p]].status = s
  BY <1>0, <1>1, <1>4, SaveTyped
<1>5. CASE Exhaust(p)
  <2>1. SaveEpoch(at[p], "EXHAUSTED", epochs[at[p]].approval) /\ Goto(p, "close")
        /\ pc[p] = "exhaust"
    BY <1>5 DEF Exhaust
  <2>2. pc'[p] = "close"  BY <1>0, <2>1, Moved
  <2>3. "EXHAUSTED" \in EpochStatus  BY DEF EpochStatus
  <2>4. Stopped /\ number[p] = Len(epochs) + 1 /\ epochs[at[p]].status = "ACTIVE"
    BY <1>0, <2>1 DEF Established
  <2>5. Awaiting = {} /\ \A e \in DOMAIN epochs : epochs[e].status = "ACTIVE" => e = at[p]
    BY <1>1, <2>4 DEF AloneInv, Safe, ActiveEpochIsCurrent
  <2>6. Quiet'
    BY <1>1, <1>2, <1>4, <2>1, <2>3, <2>5 DEF Quiet, Awaiting
  <2>7. Established(p)'
    BY <1>2, <1>3, <1>4, <2>1, <2>2, <2>3, <2>4, <2>6 DEF Established
  <2>8. QED  BY <1>0, <1>2, <2>1, <2>3, <2>4, <2>7, SavingStepSafe
<1>6. CASE Authorize(p)
  <2>1. SaveEpoch(at[p], "AUTHORIZED", p) /\ Goto(p, "activate") /\ pc[p] = "authorize"
    BY <1>6 DEF Authorize
  <2>2. pc'[p] = "activate"  BY <1>0, <2>1, Moved
  <2>3. "AUTHORIZED" \in EpochStatus  BY DEF EpochStatus
  <2>4. at[p] \in Awaiting  BY <1>0, <2>1 DEF Established
  <2>5. at[p] = Len(epochs) /\ Stopped /\ at[p] \notin Granted
        /\ \A e \in Awaiting : e = at[p]
    BY <2>4, WaitingIsLast DEF AloneInv, Safe, Ordered, WaitingRunStaysBlocked, Stopped
  <2>6. \A e \in DOMAIN epochs : epochs[e].status # "ACTIVE"
    BY <2>4 DEF AloneInv, Safe, ActiveEpochIsCurrent
  <2>7. Quiet'
    BY <1>1, <1>4, <2>1, <2>3, <2>5, <2>6 DEF Quiet, Awaiting
  <2>8. Established(p)'
    BY <1>3, <1>4, <2>1, <2>2, <2>3, <2>5, <2>7 DEF Established
  <2>9. QED  BY <1>0, <2>1, <2>3, <2>8, SavingStepSafe
<1>7. CASE Confirm(p)
  <2>1. SaveEpoch(at[p], "ACTIVE", p) /\ Goto(p, "idle") /\ pc[p] = "confirm"
    BY <1>7 DEF Confirm
  <2>2. pc'[p] = "idle"  BY <1>0, <2>1, Moved
  <2>3. "ACTIVE" \in EpochStatus  BY DEF EpochStatus
  <2>4. Quiet /\ at[p] = Len(epochs) /\ active = at[p]  BY <1>0, <2>1 DEF Established
  <2>5. Established(p)'  BY <2>2 DEF Established
  <2>6. QED  BY <1>0, <2>1, <2>3, <2>4, <2>5, SavingStepSafe
<1>8. CASE Restore(p)
  <2>1. SaveEpoch(at[p], "AWAITING_AUTHORIZATION", NoApproval) /\ Goto(p, "idle")
        /\ pc[p] = "restore"
    BY <1>8 DEF Restore
  <2>2. pc'[p] = "idle"  BY <1>0, <2>1, Moved
  <2>3. "AWAITING_AUTHORIZATION" \in EpochStatus  BY DEF EpochStatus
  <2>4. Quiet /\ Stopped /\ at[p] = Len(epochs) /\ at[p] \notin Granted
    BY <1>0, <2>1 DEF Established
  <2>5. Established(p)'  BY <2>2 DEF Established
  <2>6. QED  BY <1>0, <2>1, <2>3, <2>4, <2>5, SavingStepSafe
<1>9. CASE Complete(p)
  <2>1. SaveEpoch(at[p], "COMPLETED", epochs[at[p]].approval) /\ Goto(p, "closeCompleted")
        /\ pc[p] = "complete"
    BY <1>9 DEF Complete
  <2>2. pc'[p] = "closeCompleted"  BY <1>0, <2>1, Moved
  <2>3. "COMPLETED" \in EpochStatus  BY DEF EpochStatus
  <2>4. Awaiting = {}  BY <1>0, <2>1 DEF Established
  <2>5. Awaiting' = {} /\ epochs'[at[p]].status = "COMPLETED"
    BY <1>1, <1>2, <1>4, <2>1, <2>3, <2>4 DEF Awaiting
  <2>6. Established(p)'
    BY <1>3, <2>2, <2>5 DEF Established
  <2>7. QED  BY <1>0, <1>2, <2>1, <2>3, <2>6, SavingStepSafe
<1>10. QED  BY <1>5, <1>6, <1>7, <1>8, <1>9

LEMMA NextAlone == AloneInv /\ [Next]_vars => AloneInv'
<1> SUFFICES ASSUME AloneInv, [Next]_vars  PROVE AloneInv'
  OBVIOUS
<1>1. Alone' /\ TypedBudget'  BY NextTyped DEF AloneInv, Alone
<1>2. CASE Recover \/ Spend \/ Leave  BY <1>1, <1>2, RunStepSafe DEF AloneInv
<1>3. ASSUME NEW p \in Process,
             \/ Request(p) \/ Exhaust(p) \/ CloseExhausted(p) \/ Create(p) \/ Register(p)
             \/ Decline(p) \/ Sign(p) \/ Authorize(p) \/ Activate(p) \/ Refuse(p)
             \/ Confirm(p) \/ Restore(p)
             \/ Accept(p) \/ CompleteActive(p) \/ Complete(p) \/ CloseCompleted(p)
             \/ Crash(p)
      PROVE  AloneInv'
  <2>1. Safe'
    BY <1>3, RequestSafe, QuietSafe, AcceptSafe, CloseSafe, CreateSafe, ActivateSafe, SavingSafe
  <2>2. QED  BY <1>1, <2>1 DEF AloneInv
<1>4. CASE UNCHANGED vars
  <2>1. Safe'
    BY <1>4 DEF AloneInv, Safe, Established, Ordered, OneGrantPerEpoch, WaitingRunStaysBlocked,
       ActiveEpochIsCurrent, Awaiting, Granted, Quiet, Stopped, Spent, vars, runVars, localVars
  <2>2. QED  BY <1>1, <2>1 DEF AloneInv
<1>5. QED  BY <1>2, <1>3, <1>4 DEF Next

LEMMA AlwaysAlone == Alone /\ Spec => []AloneInv
  BY InitAlone, NextAlone, PTL DEF Spec

\* With one caller, who may die at any step and start again, no epoch grants a
\* second attempt: an authorization that is restored or repeated granted none.
THEOREM EpochsGrantOnce == Alone /\ Spec => []OneGrantPerEpoch
<1>1. AloneInv => OneGrantPerEpoch  BY DEF AloneInv, Safe
<1>2. QED  BY <1>1, AlwaysAlone, PTL

\* With one caller, a run whose epoch waits for the operator stays blocked and spent.
THEOREM WaitingRunsAreBlocked == Alone /\ Spec => []WaitingRunStaysBlocked
<1>1. AloneInv => WaitingRunStaysBlocked  BY DEF AloneInv, Safe
<1>2. QED  BY <1>1, AlwaysAlone, PTL

\* With one caller, an active epoch is the one its run names and none waits beside it.
THEOREM ActiveEpochsAreCurrent == Alone /\ Spec => []ActiveEpochIsCurrent
<1>1. AloneInv => ActiveEpochIsCurrent  BY DEF AloneInv, Safe
<1>2. QED  BY <1>1, AlwaysAlone, PTL

\* With one caller, an exhausted or completed epoch keeps that outcome.
THEOREM OutcomesAreKept == Alone /\ Spec => OutcomesStay
<1> DEFINE Kept == \A e \in DOMAIN epochs :
                     epochs[e].status \in { "EXHAUSTED", "COMPLETED" } =>
                       epochs'[e].status = epochs[e].status
<1>1. AloneInv /\ [Next]_vars => [Kept]_vars
  <2> SUFFICES ASSUME AloneInv, Next  PROVE Kept
    OBVIOUS
  <2>0. TypedBudget /\ epochs \in Seq(Epoch) /\ \A p \in Process : Established(p)
    BY DEF AloneInv, Safe, TypedBudget, TypeOK
  <2>1. ASSUME UNCHANGED epochs  PROVE Kept
    BY <2>1
  <2>2. ASSUME NEW p \in Process, Create(p)  PROVE Kept
    <3> DEFINE new == [number |-> number[p], status |-> "AWAITING_AUTHORIZATION",
                       approval |-> NoApproval]
    <3>1. epochs' = Append(epochs, new)  BY <2>2 DEF Create
    <3> HIDE DEF new
    <3>2. \A e \in DOMAIN epochs : epochs'[e] = epochs[e]  BY <2>0, <3>1
    <3>3. QED  BY <3>2
  <2>3. ASSUME NEW p \in Process, pc[p] \notin { "idle", "create", "accepted" },
               NEW s \in EpochStatus, NEW a \in Process \cup { NoApproval },
               SaveEpoch(at[p], s, a),
               epochs[at[p]].status \notin { "EXHAUSTED", "COMPLETED" }
                 \/ s = epochs[at[p]].status
        PROVE  Kept
    <3>1. at[p] \in DOMAIN epochs  BY <2>0, <2>3 DEF TypedBudget, HoldsAnEpoch
    <3>2. /\ \A f \in DOMAIN epochs : f # at[p] => epochs'[f] = epochs[f]
          /\ epochs'[at[p]].status = s
      BY <2>0, <2>3, <3>1, SaveTyped
    <3>3. QED  BY <2>3, <3>1, <3>2
  <2>4. ASSUME NEW p \in Process,
               Exhaust(p) \/ Authorize(p) \/ Confirm(p) \/ Restore(p) \/ Complete(p)
        PROVE  Kept
    <3>1. pc[p] \notin { "idle", "create", "accepted" }
      BY <2>4 DEF Exhaust, Authorize, Confirm, Restore, Complete
    <3>2. epochs[at[p]] \in Epoch
      <4>1. at[p] \in DOMAIN epochs  BY <2>0, <3>1 DEF TypedBudget, HoldsAnEpoch
      <4>2. QED  BY <2>0, <4>1
    <3>3. epochs[at[p]].approval \in Process \cup { NoApproval }  BY <3>2 DEF Epoch
    <3>4. { "AWAITING_AUTHORIZATION", "AUTHORIZED", "ACTIVE", "EXHAUSTED", "COMPLETED" }
            = EpochStatus
      BY DEF EpochStatus
    <3>5. CASE Exhaust(p)
      <4>1. SaveEpoch(at[p], "EXHAUSTED", epochs[at[p]].approval)
            /\ epochs[at[p]].status = "ACTIVE"
        BY <2>0, <3>5 DEF Established, Exhaust
      <4>2. QED  BY <2>3, <3>1, <3>3, <3>4, <4>1
    <3>6. CASE Authorize(p)
      <4>1. SaveEpoch(at[p], "AUTHORIZED", p)
            /\ epochs[at[p]].status = "AWAITING_AUTHORIZATION"
        BY <2>0, <3>6 DEF Established, Authorize, Awaiting
      <4>2. QED  BY <2>3, <3>1, <3>4, <4>1
    <3>7. CASE Confirm(p)
      <4>1. SaveEpoch(at[p], "ACTIVE", p) /\ epochs[at[p]].status = "AUTHORIZED"
        BY <2>0, <3>7 DEF Established, Confirm
      <4>2. QED  BY <2>3, <3>1, <3>4, <4>1
    <3>8. CASE Restore(p)
      <4>1. SaveEpoch(at[p], "AWAITING_AUTHORIZATION", NoApproval)
            /\ epochs[at[p]].status = "AUTHORIZED"
        BY <2>0, <3>8 DEF Established, Restore
      <4>2. QED  BY <2>3, <3>1, <3>4, <4>1
    <3>9. CASE Complete(p)
      <4>1. SaveEpoch(at[p], "COMPLETED", epochs[at[p]].approval)
            /\ epochs[at[p]].status # "EXHAUSTED"
        BY <2>0, <3>9 DEF Established, Complete
      <4>2. QED  BY <2>3, <3>1, <3>3, <3>4, <4>1
    <3>10. QED  BY <2>4, <3>5, <3>6, <3>7, <3>8, <3>9
  <2>5. CASE Recover \/ Spend \/ Leave
    BY <2>1, <2>5 DEF Recover, Spend, Leave
  <2>6. ASSUME NEW p \in Process,
               \/ Request(p) \/ CloseExhausted(p) \/ Register(p) \/ Decline(p) \/ Sign(p)
               \/ Activate(p) \/ Refuse(p) \/ Accept(p) \/ CompleteActive(p)
               \/ CloseCompleted(p) \/ Crash(p)
        PROVE  Kept
    BY <2>1, <2>6 DEF Request, CloseExhausted, CloseCompleted, Close, Register, Decline, Sign,
       Activate, Refuse, Accept, CompleteActive, Crash
  <2>7. QED  BY <2>2, <2>4, <2>5, <2>6 DEF Next
<1>2. QED  BY <1>1, AlwaysAlone, PTL DEF Spec, OutcomesStay
=============================================================================
