---------------------------- MODULE StateStore ----------------------------
(***************************************************************************)
(* The usage ledger, the state file and the locks between them             *)
(* (internal/policy/store.go, native_quota.go, usage.go, config.go).       *)
(*                                                                         *)
(* Goroutines interleave at the granularity of their critical sections:    *)
(*   - request goroutines admit a request and later bill it;               *)
(*   - the usage flusher writes the ledger to the state file;              *)
(*   - management calls and reconfiguration, one at a time (updateMu).     *)
(*                                                                         *)
(* The spend of an account in its current period is the set of requests    *)
(* billed to it, so that a charge that is lost, kept or restored can be    *)
(* told apart.  Windows ending with time are the subject of UsageWindows,  *)
(* the contents of keys of PolicyTables.                                   *)
(***************************************************************************)
EXTENDS Naturals

CONSTANTS
    Scopes,     \* ledger accounts of native bindings ("native-scope:" ids)
    Keys,       \* plugin-owned key ids, which are ledger accounts too
    Requests,   \* identities of the billed requests
    MaxCrashes, \* bound: how often the process dies and starts again
    DiskMayFail \* whether reading or replacing the state file can fail

ASSUME AccountsDisjoint == Scopes \cap Keys = {}
ASSUME CrashBound == MaxCrashes \in Nat
ASSUME DiskAssumption == DiskMayFail \in BOOLEAN

VARIABLES
    keys,     \* Store.keys: the keys that exist in memory
    usage,    \* Store.usage.entries: requests billed to each account
    buckets,  \* Store.limiter.buckets: the accounts with a rate bucket
    file,     \* the state file: its usage and its keys
    flusher,  \* Store.flusher and the goroutine behind it
    persist,  \* persistMu: its holder, and what the holder carries to the file
    op,       \* updateMu: the management call that holds it and its locals
    stage,    \* where each request is in its life
    acct,     \* the account whose credentials each request carries
    crashes,  \* number of crashes so far
    wiped,    \* history: charges removed by resets that returned success
    acked     \* history: key set of the last management call that succeeded

vars == <<keys, usage, buckets, file, flusher, persist, op, stage, acct,
          crashes, wiped, acked>>

Accounts == Scopes \cup Keys
Usage    == [Accounts -> SUBSET Requests]
NoUsage  == [a \in Accounts |-> {}]

NoOp == [kind |-> "none", step |-> "none", accts |-> {}, usage |-> NoUsage,
         keys |-> {}]
NoPersist == [by |-> "none", step |-> "none", usage |-> NoUsage, keys |-> {}]

OpSteps == {"none", "wipe", "save", "write", "lock", "persist", "publish",
            "failed", "stop", "flush", "flushing", "load"}

TypeOK ==
    /\ keys \in SUBSET Keys
    /\ usage \in Usage
    /\ buckets \in SUBSET Accounts
    /\ file \in [usage : Usage, keys : SUBSET Keys]
    /\ flusher \in {"on", "stopping", "off", "starting"}
    /\ persist \in [by : {"none", "flusher", "op"},
                    step : {"none", "held", "sample", "load", "write"},
                    usage : Usage, keys : SUBSET Keys]
    /\ op \in [kind : {"none", "save", "delete", "reset", "configure"},
               step : OpSteps, accts : SUBSET Accounts,
               usage : Usage, keys : SUBSET Keys]
    /\ stage \in [Requests -> {"idle", "admitted", "held", "stale", "billed",
                              "done"}]
    /\ acct \in [Requests -> Accounts]
    /\ crashes \in 0 .. MaxCrashes
    /\ wiped \in SUBSET Requests
    /\ acked \in SUBSET Keys

(***************************************************************************)
(* A configured process with an empty ledger; the keys and the bindings    *)
(* are the ones of the state file.                                         *)
(***************************************************************************)
Init ==
    /\ keys \in SUBSET Keys
    /\ usage = NoUsage
    /\ buckets = {}
    /\ file = [usage |-> NoUsage, keys |-> keys]
    /\ flusher = "on"
    /\ persist = NoPersist
    /\ op = NoOp
    /\ stage = [r \in Requests |-> "idle"]
    /\ acct \in [Requests -> Accounts]
    /\ crashes = 0
    /\ wiped = {}
    /\ acked = keys

-----------------------------------------------------------------------------
(***************************************************************************)
(* Broken variants of operations below, one per property: the check that   *)
(* the property notices the mistake.  The specification does not use them. *)
(***************************************************************************)

\* RecordCost without the ledger lock.
RecordCostUnlocked(r) ==
    /\ stage[r] = "held"
    /\ usage' = [usage EXCEPT ![acct[r]] = @ \cup {r}]
    /\ stage' = [stage EXCEPT ![r] = "billed"]
    /\ UNCHANGED <<keys, buckets, file, flusher, persist, op, acct, crashes,
                   wiped, acked>>

\* FlushUsage serialised with the mutations through updateMu.
FlushReadyUpdateMu(t) ==
    t = "flusher" /\ flusher \in {"on", "stopping"} /\ op.kind = "none"

\* SaveUsageOnly writing the key table of memory, or the usage it loaded.
FlushContentMemoryKeys == [usage |-> persist.usage, keys |-> keys]
FlushContentLoaded == [usage |-> file.usage, keys |-> persist.keys]

\* A reset that does not wait for persistMu.
ResetLockNoPersistMu ==
    /\ op.kind = "reset" /\ op.step = "lock"
    /\ op' = [op EXCEPT !.step = "persist", !.usage = usage]
    /\ UNCHANGED <<keys, usage, buckets, file, flusher, persist, stage, acct,
                   crashes, wiped, acked>>

\* A reset that publishes before it persists.
ResetLockPublishes ==
    /\ op.kind = "reset" /\ op.step = "lock"
    /\ persist.by = "none"
    /\ persist' = [NoPersist EXCEPT !.by = "op", !.step = "held"]
    /\ op' = [op EXCEPT !.step = "persist", !.usage = usage]
    /\ usage' = [a \in Accounts |-> IF a \in op.accts THEN {} ELSE usage[a]]
    /\ UNCHANGED <<keys, buckets, file, flusher, stage, acct, crashes, wiped,
                   acked>>

\* A reset that persists the snapshot it took, or nothing but fresh entries.
ResetPersistSnapshot ==
    /\ op.kind = "reset" /\ op.step = "persist"
    /\ file' = [file EXCEPT !.usage = op.usage]
    /\ op' = [op EXCEPT !.step = "publish"]
    /\ UNCHANGED <<keys, usage, buckets, flusher, persist, stage, acct,
                   crashes, wiped, acked>>

ResetPersistFreshOnly ==
    /\ op.kind = "reset" /\ op.step = "persist"
    /\ file' = [file EXCEPT !.usage = NoUsage]
    /\ op' = [op EXCEPT !.step = "publish"]
    /\ UNCHANGED <<keys, usage, buckets, flusher, persist, stage, acct,
                   crashes, wiped, acked>>

-----------------------------------------------------------------------------
(***************************************************************************)
(* resetNativeQuotaAccounts holds the ledger and the limiter locks from    *)
(* its snapshot until it has published, through the write of the file.     *)
(***************************************************************************)
LedgerLocked == op.kind = "reset" /\ op.step \in {"persist", "publish", "failed"}

\* u with the accounts in A replaced by fresh empty periods.
Cleared(u, A) == [a \in Accounts |-> IF a \in A THEN {} ELSE u[a]]

AddCharge(u, a, r) == [u EXCEPT ![a] = @ \cup {r}]

-----------------------------------------------------------------------------
(* Requests.                                                               *)

\* Authenticate or CheckNativeKeyQuota lets r through: limiter.Allow, which
\* leaves no bucket for an account without an RPM limit.
Admit(r) ==
    /\ stage[r] = "idle"
    /\ acct[r] \in Scopes \cup keys
    /\ ~LedgerLocked
    /\ stage' = [stage EXCEPT ![r] = "admitted"]
    /\ buckets' \in {buckets, buckets \cup {acct[r]}}
    /\ UNCHANGED <<keys, usage, file, flusher, persist, op, acct, crashes,
                   wiped, acked>>

\* RecordUsage up to runtimeComponents: the account is looked up and the
\* current ledger pointer is taken.  A key that is gone is not billed.
RecordLookup(r) ==
    /\ stage[r] = "admitted"
    /\ stage' = [stage EXCEPT ![r] =
                  IF acct[r] \in Scopes \cup keys THEN "held" ELSE "done"]
    /\ UNCHANGED <<keys, usage, buckets, file, flusher, persist, op, acct,
                   crashes, wiped, acked>>

\* usageLedger.RecordCost on the pointer taken before.
RecordCost(r) ==
    /\ \/ /\ stage[r] = "held"
          /\ ~LedgerLocked
          /\ usage' = AddCharge(usage, acct[r], r)
          /\ stage' = [stage EXCEPT ![r] = "billed"]
       \/ /\ stage[r] = "stale"      \* the ledger was replaced meanwhile
          /\ usage' = usage
          /\ stage' = [stage EXCEPT ![r] = "done"]
    /\ UNCHANGED <<keys, buckets, file, flusher, persist, op, acct, crashes,
                   wiped, acked>>

-----------------------------------------------------------------------------
(* FlushUsage, run by the flusher goroutine and by StopUsageFlusher.       *)

PersistFree == persist.by = "none"

FlushReady(t) ==
    \/ t = "flusher" /\ flusher \in {"on", "stopping"}
    \/ t = "op" /\ op.kind = "configure" /\ op.step = "flush"

FlushLock(t) ==
    /\ FlushReady(t)
    /\ PersistFree
    /\ persist' = [NoPersist EXCEPT !.by = t, !.step = "sample"]
    /\ op' = IF t = "op" THEN [op EXCEPT !.step = "flushing"] ELSE op
    /\ UNCHANGED <<keys, usage, buckets, file, flusher, stage, acct, crashes,
                   wiped, acked>>

\* usageSnapshotLocked, after persistMu has been acquired.
FlushSample ==
    /\ persist.step = "sample"
    /\ persist' = [persist EXCEPT !.step = "load", !.usage = usage]
    /\ UNCHANGED <<keys, usage, buckets, file, flusher, op, stage, acct,
                   crashes, wiped, acked>>

\* SaveUsageOnly reads the rest of the state from the file.
FlushLoad ==
    /\ persist.step = "load"
    /\ persist' = [persist EXCEPT !.step = "write", !.keys = file.keys]
    /\ UNCHANGED <<keys, usage, buckets, file, flusher, op, stage, acct,
                   crashes, wiped, acked>>

\* The flush returns; StopUsageFlusher and the loop both ignore its error.
FlushReturn ==
    /\ persist' = NoPersist
    /\ op' = IF persist.by = "op" THEN [op EXCEPT !.step = "load"] ELSE op

\* The whole new content of the file when SaveUsageOnly replaces it.
FlushContent == [usage |-> persist.usage, keys |-> persist.keys]

FlushWrite ==
    /\ persist.step = "write"
    /\ file' = FlushContent
    /\ FlushReturn
    /\ UNCHANGED <<keys, usage, buckets, flusher, stage, acct, crashes, wiped,
                   acked>>

\* Reading or replacing the file failed: atomicWriteStateFile left it alone.
FlushFail ==
    /\ DiskMayFail
    /\ persist.step \in {"load", "write"}
    /\ FlushReturn
    /\ UNCHANGED <<keys, usage, buckets, file, flusher, stage, acct, crashes,
                   wiped, acked>>

\* The loop sees stopCh closed, between two flushes, and closes doneCh.
FlusherExit ==
    /\ flusher = "stopping"
    /\ persist.by # "flusher"
    /\ flusher' = "off"
    /\ UNCHANGED <<keys, usage, buckets, file, persist, op, stage, acct,
                   crashes, wiped, acked>>

-----------------------------------------------------------------------------
(* Management calls that save the whole state.                             *)

\* updateMu is free.
NoManagement == op.kind = "none"

\* What a full-state mutation samples under s.mu, before it saves.
SaveSnapshot(kind, step, ks) ==
    [NoOp EXCEPT !.kind = kind, !.step = step, !.usage = usage, !.keys = ks]

\* UpsertKey and every other mutation that ends in saveState: the new key
\* table is live at once and the usage to be saved is sampled with it.
BeginUpsert(k) ==
    /\ NoManagement
    /\ keys' = keys \cup {k}
    /\ op' = SaveSnapshot("save", "save", keys')
    /\ UNCHANGED <<usage, buckets, file, flusher, persist, stage, acct,
                   crashes, wiped, acked>>

\* DeleteKey samples the usage while it still holds the deleted account ...
BeginDelete(k) ==
    /\ NoManagement
    /\ k \in keys
    /\ keys' = keys \ {k}
    /\ op' = [SaveSnapshot("delete", "wipe", keys') EXCEPT !.accts = {k}]
    /\ UNCHANGED <<usage, buckets, file, flusher, persist, stage, acct,
                   crashes, wiped, acked>>

\* ... then limiter.Reset and resetUsage clear the account in memory.
DeleteWipe ==
    /\ op.kind = "delete" /\ op.step = "wipe"
    /\ usage' = Cleared(usage, op.accts)
    /\ buckets' = buckets \ op.accts
    /\ op' = [op EXCEPT !.step = "save"]
    /\ UNCHANGED <<keys, file, flusher, persist, stage, acct, crashes, wiped,
                   acked>>

\* saveStateWithNativeBindings waits for the file lock.
SaveLock ==
    /\ op.step = "save"
    /\ PersistFree
    /\ persist' = [NoPersist EXCEPT !.by = "op", !.step = "held"]
    /\ op' = [op EXCEPT !.step = "write"]
    /\ UNCHANGED <<keys, usage, buckets, file, flusher, stage, acct, crashes,
                   wiped, acked>>

SaveWrite ==
    /\ op.step = "write"
    /\ file' = [usage |-> op.usage, keys |-> op.keys]
    /\ acked' = op.keys
    /\ persist' = NoPersist
    /\ op' = NoOp
    /\ UNCHANGED <<keys, usage, buckets, flusher, stage, acct, crashes, wiped>>

\* The write failed: the caller gets the error, memory keeps the change.
SaveFail ==
    /\ DiskMayFail
    /\ op.step = "write"
    /\ persist' = NoPersist
    /\ op' = NoOp
    /\ UNCHANGED <<keys, usage, buckets, file, flusher, stage, acct, crashes,
                   wiped, acked>>

-----------------------------------------------------------------------------
(* ResetNativeKeyQuotas, for a selection of known bindings.                *)

BeginReset(A) ==
    /\ NoManagement
    /\ A # {}
    /\ op' = [NoOp EXCEPT !.kind = "reset", !.step = "lock", !.accts = A]
    /\ UNCHANGED <<keys, usage, buckets, file, flusher, persist, stage, acct,
                   crashes, wiped, acked>>

\* persistMu, then both runtime locks, then the snapshot.
ResetLock ==
    /\ op.kind = "reset" /\ op.step = "lock"
    /\ PersistFree
    /\ persist' = [NoPersist EXCEPT !.by = "op", !.step = "held"]
    /\ op' = [op EXCEPT !.step = "persist", !.usage = usage]
    /\ UNCHANGED <<keys, usage, buckets, file, flusher, stage, acct, crashes,
                   wiped, acked>>

\* SaveUsageOnly with the snapshot in which the selection starts afresh.
ResetPersist ==
    /\ op.kind = "reset" /\ op.step = "persist"
    /\ file' = [file EXCEPT !.usage = Cleared(op.usage, op.accts)]
    /\ op' = [op EXCEPT !.step = "publish"]
    /\ UNCHANGED <<keys, usage, buckets, flusher, persist, stage, acct,
                   crashes, wiped, acked>>

ResetPersistFail ==
    /\ DiskMayFail
    /\ op.kind = "reset" /\ op.step = "persist"
    /\ op' = [op EXCEPT !.step = "failed"]
    /\ UNCHANGED <<keys, usage, buckets, file, flusher, persist, stage, acct,
                   crashes, wiped, acked>>

\* Publication in both runtime maps; the call returns success.
ResetPublish ==
    /\ op.kind = "reset" /\ op.step = "publish"
    /\ usage' = Cleared(usage, op.accts)
    /\ buckets' = buckets \ op.accts
    /\ wiped' = wiped \cup UNION {usage[a] : a \in op.accts}
    /\ persist' = NoPersist
    /\ op' = NoOp
    /\ UNCHANGED <<keys, file, flusher, stage, acct, crashes, acked>>

\* The call returns the error and releases every lock.
ResetReturnError ==
    /\ op.kind = "reset" /\ op.step = "failed"
    /\ persist' = NoPersist
    /\ op' = NoOp
    /\ UNCHANGED <<keys, usage, buckets, file, flusher, stage, acct, crashes,
                   wiped, acked>>

\* ResetRPM takes neither updateMu nor persistMu.
ResetRPM(k) ==
    /\ ~LedgerLocked
    /\ buckets' = buckets \ {k}
    /\ UNCHANGED <<keys, usage, file, flusher, persist, op, stage, acct,
                   crashes, wiped, acked>>

-----------------------------------------------------------------------------
(* Configure on the same state path, called by plugin.reconfigure.         *)

\* StopUsageFlusher takes the flusher away and closes its stopCh.
\* The host delivers reconfigurations one after another, so the previous one
\* has started its flusher.
BeginConfigure ==
    /\ NoManagement
    /\ flusher # "starting"
    /\ op' = [NoOp EXCEPT !.kind = "configure", !.step = "stop"]
    /\ flusher' = IF flusher = "on" THEN "stopping" ELSE flusher
    /\ UNCHANGED <<keys, usage, buckets, file, persist, stage, acct, crashes,
                   wiped, acked>>

\* doneCh is closed (or there was no flusher); FlushUsage follows.
FlusherStopped ==
    /\ op.kind = "configure" /\ op.step = "stop"
    /\ flusher = "off"
    /\ op' = [op EXCEPT !.step = "flush"]
    /\ UNCHANGED <<keys, usage, buckets, file, flusher, persist, stage, acct,
                   crashes, wiped, acked>>

\* LoadState: what the file holds now becomes the next memory.
ConfigLoad ==
    /\ op.kind = "configure" /\ op.step = "load"
    /\ op' = [op EXCEPT !.step = "publish", !.usage = file.usage,
                        !.keys = file.keys]
    /\ UNCHANGED <<keys, usage, buckets, file, flusher, persist, stage, acct,
                   crashes, wiped, acked>>

\* An unreadable state, an invalid merge or a bad pricing file: Configure
\* returns the error and nothing starts the flusher again.
ConfigFail ==
    /\ op.kind = "configure" /\ op.step = "load"
    /\ op' = NoOp
    /\ UNCHANGED <<keys, usage, buckets, file, flusher, persist, stage, acct,
                   crashes, wiped, acked>>

\* The section under s.mu: a new ledger replaces the old one, and requests
\* that hold the old pointer will bill a ledger nobody reads.
ConfigPublish ==
    /\ op.kind = "configure" /\ op.step = "publish"
    /\ usage' = op.usage
    /\ keys' = op.keys
    /\ stage' = [r \in Requests |->
                    IF stage[r] = "held" THEN "stale" ELSE stage[r]]
    /\ flusher' = "starting"
    /\ op' = NoOp
    /\ UNCHANGED <<buckets, file, persist, acct, crashes, wiped, acked>>

\* App.configure calls StartUsageFlusher after Configure released updateMu.
StartUsageFlusher ==
    /\ flusher = "starting"
    /\ flusher' = "on"
    /\ UNCHANGED <<keys, usage, buckets, file, persist, op, stage, acct,
                   crashes, wiped, acked>>

-----------------------------------------------------------------------------
(***************************************************************************)
(* The process dies, at any point, and boots from the state file.          *)
(***************************************************************************)
Crash ==
    /\ crashes < MaxCrashes
    /\ crashes' = crashes + 1
    /\ keys' = file.keys
    /\ usage' = file.usage
    /\ buckets' = {}
    /\ flusher' = "on"
    /\ persist' = NoPersist
    /\ op' = NoOp
    /\ stage' = [r \in Requests |->
                    IF stage[r] \in {"admitted", "held", "stale"}
                    THEN "done" ELSE stage[r]]
    /\ UNCHANGED <<file, acct, wiped, acked>>

RequestStep == \E r \in Requests : Admit(r) \/ RecordLookup(r) \/ RecordCost(r)

FlushStep ==
    \/ \E t \in {"flusher", "op"} : FlushLock(t)
    \/ FlushSample \/ FlushLoad \/ FlushWrite \/ FlushFail \/ FlusherExit

ManagementStep ==
    \/ \E k \in Keys : BeginUpsert(k) \/ BeginDelete(k) \/ ResetRPM(k)
    \/ DeleteWipe \/ SaveLock \/ SaveWrite \/ SaveFail
    \/ \E A \in SUBSET Scopes : BeginReset(A)
    \/ ResetLock \/ ResetPersist \/ ResetPersistFail \/ ResetPublish
    \/ ResetReturnError
    \/ BeginConfigure \/ FlusherStopped \/ ConfigLoad \/ ConfigFail
    \/ ConfigPublish \/ StartUsageFlusher

Next == RequestStep \/ FlushStep \/ ManagementStep \/ Crash

Spec == Init /\ [][Next]_vars

(***************************************************************************)
(* Fairness: goroutines are scheduled, Go's sync.Mutex hands the lock to a *)
(* waiter that has starved (strong fairness on acquisition), the loop's    *)
(* select picks at random between a tick and stopCh, and the disk does not *)
(* refuse every write forever.  Nothing obliges a client, an operator or   *)
(* the host to do anything, nor the process to crash.                      *)
(***************************************************************************)
Fairness ==
    /\ \A t \in {"flusher", "op"} : SF_vars(FlushLock(t))
    /\ WF_vars(FlushSample) /\ SF_vars(FlushLoad) /\ SF_vars(FlushWrite)
    /\ SF_vars(FlusherExit)
    /\ WF_vars(DeleteWipe) /\ SF_vars(SaveLock) /\ WF_vars(SaveWrite \/ SaveFail)
    /\ SF_vars(ResetLock) /\ WF_vars(ResetPersist \/ ResetPersistFail)
    /\ WF_vars(ResetPublish \/ ResetReturnError)
    /\ WF_vars(FlusherStopped) /\ WF_vars(ConfigLoad \/ ConfigFail)
    /\ WF_vars(ConfigPublish) /\ WF_vars(StartUsageFlusher)

FairSpec == Spec /\ Fairness

-----------------------------------------------------------------------------
(* Properties.                                                             *)

\* A charge removed by a quota reset that reported success never comes back,
\* in memory or in the file, whatever flush, save, reconfiguration or crash
\* was under way (native_quota.go: "no old snapshot can write back after this
\* transaction").
ResetIsFinal ==
    \A a \in Scopes : (usage[a] \cup file.usage[a]) \cap wiped = {}

\* A quota reset about to report a persistence failure has removed no charge
\* from memory: every charge it saw under the ledger lock is still counted
\* (README: "a persistence failure leave[s] the entire batch unchanged").
FailedResetHarmless ==
    op.kind = "reset" /\ op.step = "failed" =>
        \A a \in Accounts : op.usage[a] \subseteq usage[a]

\* The key table in the file is the one of the last management call that
\* succeeded: no usage flush, quota reset, reconfiguration or crash changes it
\* (SaveUsageOnly: "the periodic usage flush must not overwrite it").
AckedKeysDurable == file.keys = acked

\* What memory counts once a reset that has reached the file is published.
EffectiveUsage ==
    IF op.kind = "reset" /\ op.step = "publish"
    THEN Cleared(usage, op.accts) ELSE usage

\* The file never holds a charge of a native account that memory does not:
\* a restart can forget recent spend, never add spend that was not there.
FileNotAhead == \A a \in Scopes : file.usage[a] \subseteq EffectiveUsage[a]

\* Every management call and reconfiguration returns: waiting for the flusher,
\* for persistMu and for the runtime locks never deadlocks (FlushUsage: "Do
\* not acquire updateMu: Configure holds it while stopping the flusher").
ManagementReturns == op.kind # "none" ~> op.kind = "none"

\* A reconfiguration has failed and left the process without a flusher.
FlusherLost == flusher = "off" /\ op.kind = "none"

\* As long as the flusher is not lost, a charge in memory is eventually
\* written to the file, unless memory itself drops it first (usage.go:19-21:
\* "a background flusher periodically persists it to the state JSON").
ChargeReachesFile ==
    \A a \in Accounts, r \in Requests :
        r \in usage[a] ~>
            (r \in file.usage[a] \/ r \notin usage[a] \/ FlusherLost)

\* store.go:131-135: the usage is flushed before the state is loaded again, so
\* that usage changed in the last window is not lost: replacing the ledger in
\* Configure forgets no charge.
ReconfigureKeepsCharges ==
    [][flusher = "off" /\ flusher' = "starting" =>
          \A a \in Accounts : usage[a] \subseteq usage'[a]]_vars

-----------------------------------------------------------------------------
(***************************************************************************)
(* The inductive invariant behind ResetIsFinal and FileNotAhead.           *)
(***************************************************************************)

\* Who holds which lock at which step, and that Configure runs its last flush
\* and its reload without a flusher.
LockDiscipline ==
    /\ LedgerLocked => persist.by = "op" /\ persist.step = "held"
    /\ op.step = "write" => persist.by = "op" /\ persist.step = "held"
    /\ op.kind = "configure" /\ op.step = "flushing" => persist.by = "op"
    /\ persist.by = "op" => LedgerLocked \/ op.step \in {"write", "flushing"}
    /\ persist.by = "none" => persist = NoPersist
    /\ persist.by = "op" /\ persist.step # "held" => op.kind = "configure"
    /\ persist.by = "flusher" => flusher \in {"on", "stopping"}
    /\ op.kind = "configure" /\ op.step # "stop" => flusher = "off"
    /\ op.kind = "configure" =>
           op.step \in {"stop", "flush", "flushing", "load", "publish"}
    /\ op.kind = "reset" => op.step \in {"lock", "persist", "publish", "failed"}
    /\ op.kind \in {"save", "delete"} => op.step \in {"wipe", "save", "write"}
    /\ op.kind = "none" => op.step = "none"
    /\ op.kind = "delete" => op.accts \subseteq Keys
    /\ op.kind = "reset" => op.accts \subseteq Scopes

\* Every ledger there is: in memory, in the file, and on its way to the file.
Charged(u) ==
    \A a \in Accounts : \A r \in u[a] : stage[r] = "billed" /\ acct[r] = a

ChargedOnce ==
    Charged(usage) /\ Charged(file.usage) /\ Charged(persist.usage)
                   /\ Charged(op.usage)

\* No ledger holds a charge that a completed reset removed.
NoWiped(u) == \A a \in Scopes : u[a] \cap wiped = {}

WipedGone ==
    /\ \A r \in wiped : stage[r] = "billed"
    /\ NoWiped(usage) /\ NoWiped(file.usage) /\ NoWiped(persist.usage)
    /\ NoWiped(op.usage)
    /\ op.kind = "reset" /\ op.step = "publish" =>
           \A a \in op.accts : file.usage[a] = {}

\* What is on its way to the file is part of what memory counts.
Within(u, v) == \A a \in Scopes : u[a] \subseteq v[a]

NoneAhead ==
    /\ FileNotAhead
    /\ Within(persist.usage, usage)
    /\ op.kind \in {"save", "delete", "reset"} => Within(op.usage, usage)
    /\ op.kind = "configure" /\ op.step = "publish" => op.usage = file.usage
    /\ LedgerLocked => op.usage = usage

\* A flush about to replace the file carries the key table the file holds.
KeysKept ==
    /\ AckedKeysDurable
    /\ persist.step = "write" => persist.keys = file.keys

\* At every step, every copy of the ledger agrees with the locks held: the
\* state a later step of any goroutine relies on.
StoreInv == LockDiscipline /\ ChargedOnce /\ WipedGone /\ NoneAhead /\ KeysKept

-----------------------------------------------------------------------------
(***************************************************************************)
(* The promise to an operator who manages native quotas: see NativeLedger. *)
(***************************************************************************)
Live   == [a \in Scopes |-> EffectiveUsage[a]]
Stored == [a \in Scopes |-> file.usage[a]]
Billed == {r \in Requests : stage[r] = "billed"}

Ledger == INSTANCE NativeLedger WITH
    live <- Live, stored <- Stored, billed <- Billed

LedgerSpec == Ledger!Spec
=============================================================================
