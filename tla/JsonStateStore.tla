---------------------------- MODULE JsonStateStore ----------------------------
(***************************************************************************)
(* JsonStateStore.update (genesis-state/json-state-store.ts): processes    *)
(* change one JSON file under a lock file made with an exclusive open.  A  *)
(* lock file older than StaleAge is removed by whoever waits for it, and   *)
(* the finally block removes whatever lock file it finds.                  *)
(*                                                                         *)
(* file[p] is how many updates of p the stored value contains; each update *)
(* of p adds one.  made[p] counts the updates of p that returned, copy[p]  *)
(* is the value p read.  owner is the process whose lock file exists, or   *)
(* NoOwner, and age is how old that file is.                               *)
(***************************************************************************)
EXTENDS Integers, FiniteSets

CONSTANTS Writer,
          StaleAge,     \* the 30 seconds after which a lock file is stale
          MaxTries,     \* attempts before "state store is busy"
          MaxUpdates,   \* bound on the updates of a process
          MaxCrashes,   \* bound on the processes that die
          Stalls        \* a living process may hold the lock beyond StaleAge

NoOwner == "NO_OWNER"

ASSUME StoreAssumption ==
  /\ NoOwner \notin Writer
  /\ StaleAge \in Nat
  /\ MaxTries \in Nat \ {0}
  /\ MaxUpdates \in Nat
  /\ MaxCrashes \in Nat
  /\ Stalls \in BOOLEAN

VARIABLES file, owner, age, place, copy, made, tries

storeVars == <<file, owner, age, place, copy, made, tries>>

Value == [Writer -> 0 .. MaxUpdates]

StoreTypeOK ==
  /\ file  \in Value
  /\ owner \in Writer \cup { NoOwner }
  /\ age   \in 0 .. StaleAge + 1
  /\ place \in [Writer -> { "idle", "open", "inspect", "steal", "wait",
                             "read", "write", "unlock", "dead" }]
  /\ copy  \in [Writer -> Value]
  /\ made  \in Value
  /\ tries \in [Writer -> 0 .. MaxTries]

StoreInit ==
  /\ file  = [p \in Writer |-> 0]
  /\ owner = NoOwner
  /\ age   = 0
  /\ place = [p \in Writer |-> "idle"]
  /\ copy  = [p \in Writer |-> file]
  /\ made  = [p \in Writer |-> 0]
  /\ tries = [p \in Writer |-> 0]

Move(p, there) == place' = [place EXCEPT ![p] = there]

Holding(p) == place[p] \in { "read", "write", "unlock" }

Dead == { p \in Writer : place[p] = "dead" }

-----------------------------------------------------------------------------

Call(p) ==
  /\ place[p] = "idle" /\ made[p] < MaxUpdates
  /\ tries' = [tries EXCEPT ![p] = 0]
  /\ Move(p, "open")
  /\ UNCHANGED <<file, owner, age, copy, made>>

\* openSync(lockPath, "wx")
OpenLock(p) ==
  /\ place[p] = "open" /\ owner = NoOwner
  /\ owner' = p /\ age' = 0
  /\ Move(p, "read")
  /\ UNCHANGED <<file, copy, made, tries>>

OpenBusy(p) ==
  /\ place[p] = "open" /\ owner # NoOwner
  /\ Move(p, "inspect")
  /\ UNCHANGED <<file, owner, age, copy, made, tries>>

\* Mutant: any lock file is stale.
InspectStealsAny(p) ==
  /\ place[p] = "inspect"
  /\ Move(p, IF owner # NoOwner THEN "steal" ELSE "wait")
  /\ UNCHANGED <<file, owner, age, copy, made, tries>>

\* statSync(lockPath) and, when what it saw is stale, a separate unlinkSync; a
\* lock file that has gone meanwhile is no error.
Inspect(p) ==
  /\ place[p] = "inspect"
  /\ Move(p, IF owner # NoOwner /\ age > StaleAge THEN "steal" ELSE "wait")
  /\ UNCHANGED <<file, owner, age, copy, made, tries>>

Unlink == owner' = NoOwner /\ age' = 0

Steal(p) ==
  /\ place[p] = "steal"
  /\ Unlink
  /\ Move(p, "wait")
  /\ UNCHANGED <<file, copy, made, tries>>

\* Sleep, then try again or throw.
Wait(p) ==
  /\ place[p] = "wait"
  /\ tries' = [tries EXCEPT ![p] = @ + 1]
  /\ Move(p, IF tries[p] + 1 < MaxTries THEN "open" ELSE "idle")
  /\ UNCHANGED <<file, owner, age, copy, made>>

\* Mutant: the value read for the last update is still at hand.
ReadKeepsOldCopy(p) ==
  /\ place[p] = "read"
  /\ Move(p, "write")
  /\ UNCHANGED <<file, owner, age, copy, made, tries>>

Read(p) ==
  /\ place[p] = "read"
  /\ copy' = [copy EXCEPT ![p] = file]
  /\ Move(p, "write")
  /\ UNCHANGED <<file, owner, age, made, tries>>

\* The changed copy replaces the file through an atomic rename.
Write(p) ==
  /\ place[p] = "write"
  /\ file' = [copy[p] EXCEPT ![p] = made[p] + 1]
  /\ Move(p, "unlock")
  /\ UNCHANGED <<owner, age, copy, made, tries>>

Unlock(p) ==
  /\ place[p] = "unlock"
  /\ Unlink
  /\ made' = [made EXCEPT ![p] = @ + 1]
  /\ Move(p, "idle")
  /\ UNCHANGED <<file, copy, tries>>

\* A process that dies leaves its lock file behind.
Die(p) ==
  /\ place[p] # "dead" /\ Cardinality(Dead) < MaxCrashes
  /\ Move(p, "dead")
  /\ UNCHANGED <<file, owner, age, copy, made, tries>>

\* The lock file ages; unless Stalls, a living holder is done before it is stale.
Tick ==
  /\ owner # NoOwner /\ age <= StaleAge
  /\ Stalls \/ age < StaleAge \/ place[owner] = "dead"
  /\ age' = age + 1
  /\ UNCHANGED <<file, owner, place, copy, made, tries>>

StoreNext ==
  \/ Tick
  \/ \E p \in Writer :
       \/ Call(p) \/ OpenLock(p) \/ OpenBusy(p) \/ Inspect(p) \/ Steal(p) \/ Wait(p)
       \/ Read(p) \/ Write(p) \/ Unlock(p) \/ Die(p)

StoreSpec == StoreInit /\ [][StoreNext]_storeVars

-----------------------------------------------------------------------------
(* What the store keeps true *)

\* One process at a time is between its open and its unlink.
Exclusive == \A p, q \in Writer : Holding(p) /\ Holding(q) => p = q

\* An update that returned is in the file.
NoLostUpdate == \A p \in Writer : file[p] >= made[p]

\* The store is an atomic register of updates.
Store == INSTANCE AtomicStore

IsAtomic == Store!Spec
=============================================================================
