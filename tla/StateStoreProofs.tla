------------------------- MODULE StateStoreProofs -------------------------
(***************************************************************************)
(* Proofs about StateStore, for every set of scopes, keys and requests.    *)
(***************************************************************************)
EXTENDS StateStore, TLAPS

\* The empty ledger is a ledger.
LEMMA NoUsageType == NoUsage \in Usage
  BY DEF NoUsage, Usage

\* Clearing accounts yields a ledger.
LEMMA ClearedType ==
    ASSUME NEW u \in Usage, NEW A PROVE Cleared(u, A) \in Usage
  BY DEF Cleared, Usage

\* Billing a request to an account yields a ledger.
LEMMA AddChargeType ==
    ASSUME NEW u \in Usage, NEW a \in Accounts, NEW r \in Requests
    PROVE  AddCharge(u, a, r) \in Usage
  BY DEF AddCharge, Usage

\* Every state of the store has the shape TypeOK describes.
THEOREM StoreTypeOK == Spec => []TypeOK
<1>1. Init => TypeOK
  BY NoUsageType, CrashBound
  DEF Init, TypeOK, NoOp, NoPersist, OpSteps, Accounts
<1>2. TypeOK /\ [Next]_vars => TypeOK'
  <2> SUFFICES ASSUME TypeOK, [Next]_vars PROVE TypeOK'
    OBVIOUS
  <2> USE NoUsageType, ClearedType, AddChargeType, CrashBound
      DEF TypeOK, OpSteps
  <2>1. ASSUME NEW r \in Requests, Admit(r) PROVE TypeOK'
    BY <2>1 DEF Admit
  <2>2. ASSUME NEW r \in Requests, RecordLookup(r) PROVE TypeOK'
    BY <2>2 DEF RecordLookup
  <2>3. ASSUME NEW r \in Requests, RecordCost(r) PROVE TypeOK'
    <3>1. acct[r] \in Accounts
      OBVIOUS
    <3>2. usage' \in Usage
      BY <2>3, <3>1 DEF RecordCost
    <3>3. stage' \in [Requests -> {"idle", "admitted", "held", "stale",
                                  "billed", "done"}]
      BY <2>3 DEF RecordCost
    <3>4. QED
      BY <2>3, <3>2, <3>3 DEF RecordCost
  <2>4. ASSUME NEW t \in {"flusher", "op"}, FlushLock(t) PROVE TypeOK'
    BY <2>4 DEF FlushLock, NoPersist
  <2>5. CASE FlushSample
    BY <2>5 DEF FlushSample
  <2>6. CASE FlushLoad
    BY <2>6 DEF FlushLoad
  <2>7. CASE FlushWrite
    BY <2>7 DEF FlushWrite, FlushContent, FlushReturn, NoPersist
  <2>8. CASE FlushFail
    BY <2>8 DEF FlushFail, FlushReturn, NoPersist
  <2>9. CASE FlusherExit
    BY <2>9 DEF FlusherExit
  <2>10. ASSUME NEW k \in Keys, BeginUpsert(k) PROVE TypeOK'
    BY <2>10 DEF BeginUpsert, SaveSnapshot, NoOp
  <2>11. ASSUME NEW k \in Keys, BeginDelete(k) PROVE TypeOK'
    BY <2>11 DEF BeginDelete, SaveSnapshot, NoOp, Accounts
  <2>12. ASSUME NEW k \in Keys, ResetRPM(k) PROVE TypeOK'
    BY <2>12 DEF ResetRPM
  <2>13. CASE DeleteWipe
    BY <2>13 DEF DeleteWipe
  <2>14. CASE SaveLock
    BY <2>14 DEF SaveLock, NoPersist
  <2>15. CASE SaveWrite
    BY <2>15 DEF SaveWrite, NoPersist, NoOp
  <2>16. CASE SaveFail
    BY <2>16 DEF SaveFail, NoPersist, NoOp
  <2>17. ASSUME NEW A \in SUBSET Scopes, BeginReset(A) PROVE TypeOK'
    BY <2>17 DEF BeginReset, NoOp, Accounts
  <2>18. CASE ResetLock
    BY <2>18 DEF ResetLock, NoPersist
  <2>19. CASE ResetPersist
    BY <2>19 DEF ResetPersist
  <2>20. CASE ResetPersistFail
    BY <2>20 DEF ResetPersistFail
  <2>21. CASE ResetPublish
    <3>1. wiped' \in SUBSET Requests
      BY <2>21 DEF ResetPublish, Usage
    <3>2. QED
      BY <2>21, <3>1 DEF ResetPublish, NoPersist, NoOp
  <2>22. CASE ResetReturnError
    BY <2>22 DEF ResetReturnError, NoPersist, NoOp
  <2>23. CASE BeginConfigure
    BY <2>23 DEF BeginConfigure, NoOp
  <2>24. CASE FlusherStopped
    BY <2>24 DEF FlusherStopped
  <2>25. CASE ConfigLoad
    BY <2>25 DEF ConfigLoad
  <2>26. CASE ConfigFail
    BY <2>26 DEF ConfigFail, NoOp
  <2>27. CASE ConfigPublish
    BY <2>27 DEF ConfigPublish, NoOp
  <2>28. CASE StartUsageFlusher
    BY <2>28 DEF StartUsageFlusher
  <2>29. CASE Crash
    BY <2>29 DEF Crash, NoPersist, NoOp
  <2>30. CASE UNCHANGED vars
    BY <2>30 DEF vars
  <2>31. QED
    BY <2>1, <2>2, <2>3, <2>4, <2>5, <2>6, <2>7, <2>8, <2>9, <2>10, <2>11,
       <2>12, <2>13, <2>14, <2>15, <2>16, <2>17, <2>18, <2>19, <2>20, <2>21,
       <2>22, <2>23, <2>24, <2>25, <2>26, <2>27, <2>28, <2>29, <2>30
    DEF Next, RequestStep, FlushStep, ManagementStep
<1>3. QED
  BY <1>1, <1>2, PTL DEF Spec

-----------------------------------------------------------------------------
\* The locks: one step keeps who holds what.
LEMMA LockStep ==
    TypeOK /\ LockDiscipline /\ [Next]_vars => LockDiscipline'
<1> SUFFICES ASSUME TypeOK, LockDiscipline, [Next]_vars PROVE LockDiscipline'
  OBVIOUS
<1> USE DEF TypeOK, LockDiscipline, LedgerLocked, NoPersist
<1>1. ASSUME NEW r \in Requests, Admit(r) PROVE LockDiscipline'
  BY <1>1 DEF Admit
<1>2. ASSUME NEW r \in Requests, RecordLookup(r) PROVE LockDiscipline'
  BY <1>2 DEF RecordLookup
<1>3. ASSUME NEW r \in Requests, RecordCost(r) PROVE LockDiscipline'
  BY <1>3 DEF RecordCost, LedgerLocked
<1>4. ASSUME NEW t \in {"flusher", "op"}, FlushLock(t) PROVE LockDiscipline'
  BY <1>4 DEF FlushLock, FlushReady, PersistFree, NoPersist
<1>5. CASE FlushSample
  BY <1>5 DEF FlushSample
<1>6. CASE FlushLoad
  BY <1>6 DEF FlushLoad
<1>7. CASE FlushWrite
  BY <1>7 DEF FlushWrite, FlushContent, FlushReturn, NoPersist
<1>8. CASE FlushFail
  BY <1>8 DEF FlushFail, FlushReturn, NoPersist
<1>9. CASE FlusherExit
  BY <1>9 DEF FlusherExit
<1>10. ASSUME NEW k \in Keys, BeginUpsert(k) PROVE LockDiscipline'
  BY <1>10 DEF BeginUpsert, NoManagement, SaveSnapshot, NoOp
<1>11. ASSUME NEW k \in Keys, BeginDelete(k) PROVE LockDiscipline'
  BY <1>11 DEF BeginDelete, NoManagement, SaveSnapshot, NoOp
<1>12. ASSUME NEW k \in Keys, ResetRPM(k) PROVE LockDiscipline'
  BY <1>12 DEF ResetRPM
<1>13. CASE DeleteWipe
  BY <1>13 DEF DeleteWipe
<1>14. CASE SaveLock
  BY <1>14 DEF SaveLock, PersistFree, NoPersist
<1>15. CASE SaveWrite
  BY <1>15 DEF SaveWrite, NoPersist, NoOp
<1>16. CASE SaveFail
  BY <1>16 DEF SaveFail, NoPersist, NoOp
<1>17. ASSUME NEW A \in SUBSET Scopes, BeginReset(A) PROVE LockDiscipline'
  BY <1>17 DEF BeginReset, NoManagement, NoOp
<1>18. CASE ResetLock
  BY <1>18 DEF ResetLock, PersistFree, NoPersist
<1>19. CASE ResetPersist
  BY <1>19 DEF ResetPersist
<1>20. CASE ResetPersistFail
  BY <1>20 DEF ResetPersistFail
<1>21. CASE ResetPublish
  BY <1>21 DEF ResetPublish, NoPersist, NoOp
<1>22. CASE ResetReturnError
  BY <1>22 DEF ResetReturnError, NoPersist, NoOp
<1>23. CASE BeginConfigure
  BY <1>23 DEF BeginConfigure, NoManagement, NoOp
<1>24. CASE FlusherStopped
  BY <1>24 DEF FlusherStopped
<1>25. CASE ConfigLoad
  BY <1>25 DEF ConfigLoad
<1>26. CASE ConfigFail
  BY <1>26 DEF ConfigFail, NoOp
<1>27. CASE ConfigPublish
  BY <1>27 DEF ConfigPublish, NoOp
<1>28. CASE StartUsageFlusher
  BY <1>28 DEF StartUsageFlusher
<1>29. CASE Crash
  BY <1>29 DEF Crash, NoPersist, NoOp
<1>30. CASE UNCHANGED vars
  BY <1>30 DEF vars
<1>31. QED
  BY <1>1, <1>2, <1>3, <1>4, <1>5, <1>6, <1>7, <1>8, <1>9, <1>10, <1>11,
     <1>12, <1>13, <1>14, <1>15, <1>16, <1>17, <1>18, <1>19, <1>20, <1>21,
     <1>22, <1>23, <1>24, <1>25, <1>26, <1>27, <1>28, <1>29, <1>30
  DEF Next, RequestStep, FlushStep, ManagementStep

\* Every copy of the ledger holds billed requests, each under its account.
LEMMA ChargedStep ==
    TypeOK /\ ChargedOnce /\ [Next]_vars => ChargedOnce'
<1> SUFFICES ASSUME TypeOK, ChargedOnce, [Next]_vars PROVE ChargedOnce'
  OBVIOUS
<1> USE DEF TypeOK, ChargedOnce, Charged, NoUsage, Usage, Cleared, AddCharge
<1>1. ASSUME NEW r \in Requests, Admit(r) PROVE ChargedOnce'
  BY <1>1 DEF Admit
<1>2. ASSUME NEW r \in Requests, RecordLookup(r) PROVE ChargedOnce'
  BY <1>2 DEF RecordLookup
<1>3. ASSUME NEW r \in Requests, RecordCost(r) PROVE ChargedOnce'
  BY <1>3 DEF RecordCost, LedgerLocked
<1>4. ASSUME NEW t \in {"flusher", "op"}, FlushLock(t) PROVE ChargedOnce'
  BY <1>4 DEF FlushLock, FlushReady, PersistFree, NoPersist
<1>5. CASE FlushSample
  BY <1>5 DEF FlushSample
<1>6. CASE FlushLoad
  BY <1>6 DEF FlushLoad
<1>7. CASE FlushWrite
  BY <1>7 DEF FlushWrite, FlushContent, FlushReturn, NoPersist
<1>8. CASE FlushFail
  BY <1>8 DEF FlushFail, FlushReturn, NoPersist
<1>9. CASE FlusherExit
  BY <1>9 DEF FlusherExit
<1>10. ASSUME NEW k \in Keys, BeginUpsert(k) PROVE ChargedOnce'
  BY <1>10 DEF BeginUpsert, NoManagement, SaveSnapshot, NoOp
<1>11. ASSUME NEW k \in Keys, BeginDelete(k) PROVE ChargedOnce'
  BY <1>11 DEF BeginDelete, NoManagement, SaveSnapshot, NoOp
<1>12. ASSUME NEW k \in Keys, ResetRPM(k) PROVE ChargedOnce'
  BY <1>12 DEF ResetRPM
<1>13. CASE DeleteWipe
  BY <1>13 DEF DeleteWipe
<1>14. CASE SaveLock
  BY <1>14 DEF SaveLock, PersistFree, NoPersist
<1>15. CASE SaveWrite
  BY <1>15 DEF SaveWrite, NoPersist, NoOp
<1>16. CASE SaveFail
  BY <1>16 DEF SaveFail, NoPersist, NoOp
<1>17. ASSUME NEW A \in SUBSET Scopes, BeginReset(A) PROVE ChargedOnce'
  BY <1>17 DEF BeginReset, NoManagement, NoOp
<1>18. CASE ResetLock
  BY <1>18 DEF ResetLock, PersistFree, NoPersist
<1>19. CASE ResetPersist
  BY <1>19 DEF ResetPersist
<1>20. CASE ResetPersistFail
  BY <1>20 DEF ResetPersistFail
<1>21. CASE ResetPublish
  BY <1>21 DEF ResetPublish, NoPersist, NoOp
<1>22. CASE ResetReturnError
  BY <1>22 DEF ResetReturnError, NoPersist, NoOp
<1>23. CASE BeginConfigure
  BY <1>23 DEF BeginConfigure, NoManagement, NoOp
<1>24. CASE FlusherStopped
  BY <1>24 DEF FlusherStopped
<1>25. CASE ConfigLoad
  BY <1>25 DEF ConfigLoad
<1>26. CASE ConfigFail
  BY <1>26 DEF ConfigFail, NoOp
<1>27. CASE ConfigPublish
  BY <1>27 DEF ConfigPublish, NoOp
<1>28. CASE StartUsageFlusher
  BY <1>28 DEF StartUsageFlusher
<1>29. CASE Crash
  BY <1>29 DEF Crash, NoPersist, NoOp
<1>30. CASE UNCHANGED vars
  BY <1>30 DEF vars
<1>31. QED
  BY <1>1, <1>2, <1>3, <1>4, <1>5, <1>6, <1>7, <1>8, <1>9, <1>10, <1>11,
     <1>12, <1>13, <1>14, <1>15, <1>16, <1>17, <1>18, <1>19, <1>20, <1>21,
     <1>22, <1>23, <1>24, <1>25, <1>26, <1>27, <1>28, <1>29, <1>30
  DEF Next, RequestStep, FlushStep, ManagementStep

\* No step brings a charge back that a completed reset removed.
LEMMA WipedStep ==
    TypeOK /\ LockDiscipline /\ ChargedOnce /\ WipedGone /\ [Next]_vars
      => WipedGone'
<1> SUFFICES ASSUME TypeOK, LockDiscipline, ChargedOnce, WipedGone, [Next]_vars
             PROVE WipedGone'
  OBVIOUS
<1> USE AccountsDisjoint DEF TypeOK, WipedGone, NoWiped, NoUsage, Usage,
        Cleared, AddCharge, Accounts, LedgerLocked, LockDiscipline
<1>1. ASSUME NEW r \in Requests, Admit(r) PROVE WipedGone'
  BY <1>1 DEF Admit
<1>2. ASSUME NEW r \in Requests, RecordLookup(r) PROVE WipedGone'
  BY <1>2 DEF RecordLookup
<1>3. ASSUME NEW r \in Requests, RecordCost(r) PROVE WipedGone'
  BY <1>3 DEF RecordCost, LedgerLocked, ChargedOnce, Charged
<1>4. ASSUME NEW t \in {"flusher", "op"}, FlushLock(t) PROVE WipedGone'
  BY <1>4 DEF FlushLock, FlushReady, PersistFree, NoPersist
<1>5. CASE FlushSample
  BY <1>5 DEF FlushSample
<1>6. CASE FlushLoad
  BY <1>6 DEF FlushLoad
<1>7. CASE FlushWrite
  BY <1>7 DEF FlushWrite, FlushContent, FlushReturn, NoPersist
<1>8. CASE FlushFail
  BY <1>8 DEF FlushFail, FlushReturn, NoPersist
<1>9. CASE FlusherExit
  BY <1>9 DEF FlusherExit
<1>10. ASSUME NEW k \in Keys, BeginUpsert(k) PROVE WipedGone'
  BY <1>10 DEF BeginUpsert, NoManagement, SaveSnapshot, NoOp
<1>11. ASSUME NEW k \in Keys, BeginDelete(k) PROVE WipedGone'
  BY <1>11 DEF BeginDelete, NoManagement, SaveSnapshot, NoOp
<1>12. ASSUME NEW k \in Keys, ResetRPM(k) PROVE WipedGone'
  BY <1>12 DEF ResetRPM
<1>13. CASE DeleteWipe
  BY <1>13 DEF DeleteWipe
<1>14. CASE SaveLock
  BY <1>14 DEF SaveLock, PersistFree, NoPersist
<1>15. CASE SaveWrite
  BY <1>15 DEF SaveWrite, NoPersist, NoOp
<1>16. CASE SaveFail
  BY <1>16 DEF SaveFail, NoPersist, NoOp
<1>17. ASSUME NEW A \in SUBSET Scopes, BeginReset(A) PROVE WipedGone'
  BY <1>17 DEF BeginReset, NoManagement, NoOp
<1>18. CASE ResetLock
  BY <1>18 DEF ResetLock, PersistFree, NoPersist
<1>19. CASE ResetPersist
  BY <1>19 DEF ResetPersist
<1>20. CASE ResetPersistFail
  BY <1>20 DEF ResetPersistFail
<1>21. CASE ResetPublish
  BY <1>21 DEF ResetPublish, NoPersist, NoOp, ChargedOnce, Charged
<1>22. CASE ResetReturnError
  BY <1>22 DEF ResetReturnError, NoPersist, NoOp
<1>23. CASE BeginConfigure
  BY <1>23 DEF BeginConfigure, NoManagement, NoOp
<1>24. CASE FlusherStopped
  BY <1>24 DEF FlusherStopped
<1>25. CASE ConfigLoad
  BY <1>25 DEF ConfigLoad
<1>26. CASE ConfigFail
  BY <1>26 DEF ConfigFail, NoOp
<1>27. CASE ConfigPublish
  BY <1>27 DEF ConfigPublish, NoOp
<1>28. CASE StartUsageFlusher
  BY <1>28 DEF StartUsageFlusher
<1>29. CASE Crash
  BY <1>29 DEF Crash, NoPersist, NoOp
<1>30. CASE UNCHANGED vars
  BY <1>30 DEF vars
<1>31. QED
  BY <1>1, <1>2, <1>3, <1>4, <1>5, <1>6, <1>7, <1>8, <1>9, <1>10, <1>11,
     <1>12, <1>13, <1>14, <1>15, <1>16, <1>17, <1>18, <1>19, <1>20, <1>21,
     <1>22, <1>23, <1>24, <1>25, <1>26, <1>27, <1>28, <1>29, <1>30
  DEF Next, RequestStep, FlushStep, ManagementStep

\* What the file holds, and what is on its way there, is in memory.
LEMMA AheadStep ==
    TypeOK /\ LockDiscipline /\ NoneAhead /\ [Next]_vars => NoneAhead'
<1> SUFFICES ASSUME TypeOK, LockDiscipline, NoneAhead, [Next]_vars
             PROVE NoneAhead'
  OBVIOUS
<1> USE AccountsDisjoint DEF TypeOK, NoneAhead, FileNotAhead, EffectiveUsage,
        Within, NoUsage, Usage, Cleared, AddCharge, Accounts, LedgerLocked,
        LockDiscipline, NoPersist
<1>1. ASSUME NEW r \in Requests, Admit(r) PROVE NoneAhead'
  BY <1>1 DEF Admit
<1>2. ASSUME NEW r \in Requests, RecordLookup(r) PROVE NoneAhead'
  BY <1>2 DEF RecordLookup
<1>3. ASSUME NEW r \in Requests, RecordCost(r) PROVE NoneAhead'
  BY <1>3 DEF RecordCost, LedgerLocked
<1>4. ASSUME NEW t \in {"flusher", "op"}, FlushLock(t) PROVE NoneAhead'
  BY <1>4 DEF FlushLock, FlushReady, PersistFree, NoPersist
<1>5. CASE FlushSample
  BY <1>5 DEF FlushSample
<1>6. CASE FlushLoad
  BY <1>6 DEF FlushLoad
<1>7. CASE FlushWrite
  BY <1>7 DEF FlushWrite, FlushContent, FlushReturn, NoPersist
<1>8. CASE FlushFail
  BY <1>8 DEF FlushFail, FlushReturn, NoPersist
<1>9. CASE FlusherExit
  BY <1>9 DEF FlusherExit
<1>10. ASSUME NEW k \in Keys, BeginUpsert(k) PROVE NoneAhead'
  BY <1>10 DEF BeginUpsert, NoManagement, SaveSnapshot, NoOp
<1>11. ASSUME NEW k \in Keys, BeginDelete(k) PROVE NoneAhead'
  BY <1>11 DEF BeginDelete, NoManagement, SaveSnapshot, NoOp
<1>12. ASSUME NEW k \in Keys, ResetRPM(k) PROVE NoneAhead'
  BY <1>12 DEF ResetRPM
<1>13. CASE DeleteWipe
  BY <1>13 DEF DeleteWipe
<1>14. CASE SaveLock
  BY <1>14 DEF SaveLock, PersistFree, NoPersist
<1>15. CASE SaveWrite
  BY <1>15 DEF SaveWrite, NoPersist, NoOp
<1>16. CASE SaveFail
  BY <1>16 DEF SaveFail, NoPersist, NoOp
<1>17. ASSUME NEW A \in SUBSET Scopes, BeginReset(A) PROVE NoneAhead'
  BY <1>17 DEF BeginReset, NoManagement, NoOp
<1>18. CASE ResetLock
  BY <1>18 DEF ResetLock, PersistFree, NoPersist
<1>19. CASE ResetPersist
  BY <1>19 DEF ResetPersist
<1>20. CASE ResetPersistFail
  BY <1>20 DEF ResetPersistFail
<1>21. CASE ResetPublish
  BY <1>21 DEF ResetPublish, NoPersist, NoOp
<1>22. CASE ResetReturnError
  BY <1>22 DEF ResetReturnError, NoPersist, NoOp
<1>23. CASE BeginConfigure
  BY <1>23 DEF BeginConfigure, NoManagement, NoOp
<1>24. CASE FlusherStopped
  BY <1>24 DEF FlusherStopped
<1>25. CASE ConfigLoad
  BY <1>25 DEF ConfigLoad
<1>26. CASE ConfigFail
  BY <1>26 DEF ConfigFail, NoOp
<1>27. CASE ConfigPublish
  BY <1>27 DEF ConfigPublish, NoOp
<1>28. CASE StartUsageFlusher
  BY <1>28 DEF StartUsageFlusher
<1>29. CASE Crash
  BY <1>29 DEF Crash, NoPersist, NoOp
<1>30. CASE UNCHANGED vars
  BY <1>30 DEF vars
<1>31. QED
  BY <1>1, <1>2, <1>3, <1>4, <1>5, <1>6, <1>7, <1>8, <1>9, <1>10, <1>11,
     <1>12, <1>13, <1>14, <1>15, <1>16, <1>17, <1>18, <1>19, <1>20, <1>21,
     <1>22, <1>23, <1>24, <1>25, <1>26, <1>27, <1>28, <1>29, <1>30
  DEF Next, RequestStep, FlushStep, ManagementStep

\* Only SaveWrite changes the key table of the file.
LEMMA KeysStep ==
    TypeOK /\ LockDiscipline /\ KeysKept /\ [Next]_vars => KeysKept'
<1> SUFFICES ASSUME TypeOK, LockDiscipline, KeysKept, [Next]_vars
             PROVE KeysKept'
  OBVIOUS
<1> USE DEF TypeOK, LockDiscipline, KeysKept, AckedKeysDurable, LedgerLocked,
        NoPersist
<1>1. ASSUME NEW r \in Requests, Admit(r) PROVE KeysKept'
  BY <1>1 DEF Admit
<1>2. ASSUME NEW r \in Requests, RecordLookup(r) PROVE KeysKept'
  BY <1>2 DEF RecordLookup
<1>3. ASSUME NEW r \in Requests, RecordCost(r) PROVE KeysKept'
  BY <1>3 DEF RecordCost, LedgerLocked
<1>4. ASSUME NEW t \in {"flusher", "op"}, FlushLock(t) PROVE KeysKept'
  BY <1>4 DEF FlushLock, FlushReady, PersistFree, NoPersist
<1>5. CASE FlushSample
  BY <1>5 DEF FlushSample
<1>6. CASE FlushLoad
  BY <1>6 DEF FlushLoad
<1>7. CASE FlushWrite
  BY <1>7 DEF FlushWrite, FlushContent, FlushReturn, NoPersist
<1>8. CASE FlushFail
  BY <1>8 DEF FlushFail, FlushReturn, NoPersist
<1>9. CASE FlusherExit
  BY <1>9 DEF FlusherExit
<1>10. ASSUME NEW k \in Keys, BeginUpsert(k) PROVE KeysKept'
  BY <1>10 DEF BeginUpsert, NoManagement, SaveSnapshot, NoOp
<1>11. ASSUME NEW k \in Keys, BeginDelete(k) PROVE KeysKept'
  BY <1>11 DEF BeginDelete, NoManagement, SaveSnapshot, NoOp
<1>12. ASSUME NEW k \in Keys, ResetRPM(k) PROVE KeysKept'
  BY <1>12 DEF ResetRPM
<1>13. CASE DeleteWipe
  BY <1>13 DEF DeleteWipe
<1>14. CASE SaveLock
  BY <1>14 DEF SaveLock, PersistFree, NoPersist
<1>15. CASE SaveWrite
  BY <1>15 DEF SaveWrite, NoPersist, NoOp
<1>16. CASE SaveFail
  BY <1>16 DEF SaveFail, NoPersist, NoOp
<1>17. ASSUME NEW A \in SUBSET Scopes, BeginReset(A) PROVE KeysKept'
  BY <1>17 DEF BeginReset, NoManagement, NoOp
<1>18. CASE ResetLock
  BY <1>18 DEF ResetLock, PersistFree, NoPersist
<1>19. CASE ResetPersist
  BY <1>19 DEF ResetPersist
<1>20. CASE ResetPersistFail
  BY <1>20 DEF ResetPersistFail
<1>21. CASE ResetPublish
  BY <1>21 DEF ResetPublish, NoPersist, NoOp
<1>22. CASE ResetReturnError
  BY <1>22 DEF ResetReturnError, NoPersist, NoOp
<1>23. CASE BeginConfigure
  BY <1>23 DEF BeginConfigure, NoManagement, NoOp
<1>24. CASE FlusherStopped
  BY <1>24 DEF FlusherStopped
<1>25. CASE ConfigLoad
  BY <1>25 DEF ConfigLoad
<1>26. CASE ConfigFail
  BY <1>26 DEF ConfigFail, NoOp
<1>27. CASE ConfigPublish
  BY <1>27 DEF ConfigPublish, NoOp
<1>28. CASE StartUsageFlusher
  BY <1>28 DEF StartUsageFlusher
<1>29. CASE Crash
  BY <1>29 DEF Crash, NoPersist, NoOp
<1>30. CASE UNCHANGED vars
  BY <1>30 DEF vars
<1>31. QED
  BY <1>1, <1>2, <1>3, <1>4, <1>5, <1>6, <1>7, <1>8, <1>9, <1>10, <1>11,
     <1>12, <1>13, <1>14, <1>15, <1>16, <1>17, <1>18, <1>19, <1>20, <1>21,
     <1>22, <1>23, <1>24, <1>25, <1>26, <1>27, <1>28, <1>29, <1>30
  DEF Next, RequestStep, FlushStep, ManagementStep

\* A fresh process satisfies the invariant.
LEMMA StoreInvInit == Init => StoreInv
  BY AccountsDisjoint
  DEF Init, StoreInv, LockDiscipline, LedgerLocked, ChargedOnce, Charged,
      WipedGone, NoWiped, NoneAhead, FileNotAhead, EffectiveUsage, Within,
      KeysKept, AckedKeysDurable, NoUsage, NoOp, NoPersist, Accounts

\* The locks, the ledgers and the copies of them agree at every step.
THEOREM StoreInvHolds == Spec => []StoreInv
<1>1. TypeOK /\ StoreInv /\ [Next]_vars => StoreInv'
  BY LockStep, ChargedStep, WipedStep, AheadStep, KeysStep DEF StoreInv
<1>2. QED
  BY StoreInvInit, StoreTypeOK, <1>1, PTL DEF Spec

\* A quota reset that reported success is final, in memory and in the file.
THEOREM ResetFinal == Spec => []ResetIsFinal
<1>1. StoreInv => ResetIsFinal
  BY DEF StoreInv, WipedGone, NoWiped, ResetIsFinal
<1>2. QED
  BY StoreInvHolds, <1>1, PTL

\* A quota reset that reports a persistence failure has removed no charge.
THEOREM FailedResetKeeps == Spec => []FailedResetHarmless
<1>1. StoreInv => FailedResetHarmless
  BY DEF StoreInv, NoneAhead, LedgerLocked, FailedResetHarmless
<1>2. QED
  BY StoreInvHolds, <1>1, PTL

\* The file never holds native spend that memory does not count.
THEOREM FileBehind == Spec => []FileNotAhead
<1>1. StoreInv => FileNotAhead
  BY DEF StoreInv, NoneAhead
<1>2. QED
  BY StoreInvHolds, <1>1, PTL

\* Only a successful management call changes the key table in the file.
THEOREM KeysDurable == Spec => []AckedKeysDurable
<1>1. StoreInv => AckedKeysDurable
  BY DEF StoreInv, KeysKept
<1>2. QED
  BY StoreInvHolds, <1>1, PTL

-----------------------------------------------------------------------------
\* Every step of the store is a step of NativeLedger, or leaves it alone.
LEMMA RefineStep ==
    TypeOK /\ StoreInv /\ [Next]_vars => [Ledger!Next]_(Ledger!vars)
<1> SUFFICES ASSUME TypeOK, StoreInv, [Next]_vars
             PROVE  [Ledger!Next]_(Ledger!vars)
  OBVIOUS
<1> DEFINE Stutter == Live' = Live /\ Stored' = Stored /\ Billed' = Billed
<1>s. Stutter => [Ledger!Next]_(Ledger!vars)
  BY DEF Live, Stored, Billed, Ledger!vars
<1> HIDE DEF Stutter
<1>1. ASSUME NEW r \in Requests, Admit(r) PROVE [Ledger!Next]_(Ledger!vars)
  <2>1. Stutter
    BY <1>1, AccountsDisjoint
    DEF Admit, Stutter, Live, Stored, Billed, EffectiveUsage, TypeOK,
        StoreInv, LockDiscipline, LedgerLocked, Cleared, Usage, Accounts
  <2>2. QED
    BY <2>1, <1>s
<1>2. ASSUME NEW r \in Requests, RecordLookup(r)
  PROVE [Ledger!Next]_(Ledger!vars)
  <2>1. Stutter
    BY <1>2, AccountsDisjoint
    DEF RecordLookup, Stutter, Live, Stored, Billed, EffectiveUsage, TypeOK,
        StoreInv, LockDiscipline, LedgerLocked, Cleared, Usage, Accounts
  <2>2. QED
    BY <2>1, <1>s
<1>3. ASSUME NEW r \in Requests, RecordCost(r)
  PROVE [Ledger!Next]_(Ledger!vars)
  <2>1. CASE stage[r] = "held"
    <3>1. acct[r] \in Accounts /\ r \in Requests \ Billed
      BY <2>1 DEF Billed, TypeOK
    <3>2. Billed' = Billed \cup {r} /\ Stored' = Stored
      BY <1>3, <2>1, <3>1 DEF RecordCost, Billed, Stored, TypeOK
    <3>3. ~LedgerLocked /\ usage' = AddCharge(usage, acct[r], r) /\ op' = op
      BY <1>3, <2>1 DEF RecordCost
    <3>4. \/ Live' = Live
          \/ /\ acct[r] \in Scopes
             /\ Live' = [Live EXCEPT ![acct[r]] = @ \cup {r}]
      <4>1. EffectiveUsage = usage /\ EffectiveUsage' = usage'
        BY <3>3 DEF EffectiveUsage, LedgerLocked
      <4>2. /\ Live = [a \in Scopes |-> usage[a]]
            /\ Live' = [a \in Scopes |-> usage'[a]]
        BY <4>1 DEF Live
      <4>3. /\ usage'[acct[r]] = usage[acct[r]] \cup {r}
            /\ \A a \in Scopes : a # acct[r] => usage'[a] = usage[a]
        BY <3>1, <3>3 DEF AddCharge, TypeOK, Usage, Accounts
      <4>4. QED
        BY <4>2, <4>3
    <3>5. QED
      BY <3>1, <3>2, <3>4 DEF Live, Stored, Billed, Ledger!Next, Ledger!Charge
  <2>2. CASE stage[r] = "stale"
    <3>1. Stutter
      BY <1>3, <2>2
      DEF RecordCost, Stutter, Live, Stored, Billed, EffectiveUsage, TypeOK
    <3>2. QED
      BY <3>1, <1>s
  <2>3. QED
    BY <1>3, <2>1, <2>2 DEF RecordCost
<1>4. ASSUME NEW t \in {"flusher", "op"}, FlushLock(t)
  PROVE [Ledger!Next]_(Ledger!vars)
  <2>1. Stutter
    BY <1>4, AccountsDisjoint
    DEF FlushLock, FlushReady, PersistFree, NoPersist, Stutter, Live, Stored,
        Billed, EffectiveUsage, TypeOK, StoreInv, LockDiscipline,
        LedgerLocked, Cleared, Usage, Accounts
  <2>2. QED
    BY <2>1, <1>s
<1>5. CASE FlushSample
  <2>1. Stutter
    BY <1>5, AccountsDisjoint
    DEF FlushSample, Stutter, Live, Stored, Billed, EffectiveUsage, TypeOK,
        StoreInv, LockDiscipline, LedgerLocked, Cleared, Usage, Accounts
  <2>2. QED
    BY <2>1, <1>s
<1>6. CASE FlushLoad
  <2>1. Stutter
    BY <1>6, AccountsDisjoint
    DEF FlushLoad, Stutter, Live, Stored, Billed, EffectiveUsage, TypeOK,
        StoreInv, LockDiscipline, LedgerLocked, Cleared, Usage, Accounts
  <2>2. QED
    BY <2>1, <1>s
<1>7. CASE FlushWrite
  <2>1. /\ Live' = Live /\ Billed' = Billed
        /\ Stored' \in [Scopes -> SUBSET Requests]
        /\ \A a \in Scopes : Stored'[a] \subseteq Live[a]
    BY <1>7
    DEF FlushWrite, FlushContent, FlushReturn, NoPersist, Live, Stored,
        Billed, EffectiveUsage, TypeOK, Usage, Accounts, Within, StoreInv,
        LockDiscipline, NoneAhead, LedgerLocked
  <2>2. QED
    BY <2>1 DEF Live, Stored, Billed, Ledger!Next, Ledger!Store, Ledger!Spend
<1>8. CASE FlushFail
  <2>1. Stutter
    BY <1>8, AccountsDisjoint
    DEF FlushFail, FlushReturn, NoPersist, Stutter, Live, Stored, Billed,
        EffectiveUsage, TypeOK, StoreInv, LockDiscipline, LedgerLocked,
        Cleared, Usage, Accounts
  <2>2. QED
    BY <2>1, <1>s
<1>9. CASE FlusherExit
  <2>1. Stutter
    BY <1>9, AccountsDisjoint
    DEF FlusherExit, Stutter, Live, Stored, Billed, EffectiveUsage, TypeOK,
        StoreInv, LockDiscipline, LedgerLocked, Cleared, Usage, Accounts
  <2>2. QED
    BY <2>1, <1>s
<1>10. ASSUME NEW k \in Keys, BeginUpsert(k) PROVE [Ledger!Next]_(Ledger!vars)
  <2>1. Stutter
    BY <1>10, AccountsDisjoint
    DEF BeginUpsert, NoManagement, SaveSnapshot, NoOp, Stutter, Live, Stored,
        Billed, EffectiveUsage, TypeOK, StoreInv, LockDiscipline,
        LedgerLocked, Cleared, Usage, Accounts
  <2>2. QED
    BY <2>1, <1>s
<1>11. ASSUME NEW k \in Keys, BeginDelete(k) PROVE [Ledger!Next]_(Ledger!vars)
  <2>1. Stutter
    BY <1>11, AccountsDisjoint
    DEF BeginDelete, NoManagement, SaveSnapshot, NoOp, Stutter, Live, Stored,
        Billed, EffectiveUsage, TypeOK, StoreInv, LockDiscipline,
        LedgerLocked, Cleared, Usage, Accounts
  <2>2. QED
    BY <2>1, <1>s
<1>12. ASSUME NEW k \in Keys, ResetRPM(k) PROVE [Ledger!Next]_(Ledger!vars)
  <2>1. Stutter
    BY <1>12, AccountsDisjoint
    DEF ResetRPM, Stutter, Live, Stored, Billed, EffectiveUsage, TypeOK,
        StoreInv, LockDiscipline, LedgerLocked, Cleared, Usage, Accounts
  <2>2. QED
    BY <2>1, <1>s
<1>13. CASE DeleteWipe
  <2>1. Stutter
    BY <1>13, AccountsDisjoint
    DEF DeleteWipe, Stutter, Live, Stored, Billed, EffectiveUsage, TypeOK,
        StoreInv, LockDiscipline, LedgerLocked, Cleared, Usage, Accounts
  <2>2. QED
    BY <2>1, <1>s
<1>14. CASE SaveLock
  <2>1. Stutter
    BY <1>14, AccountsDisjoint
    DEF SaveLock, PersistFree, NoPersist, Stutter, Live, Stored, Billed,
        EffectiveUsage, TypeOK, StoreInv, LockDiscipline, LedgerLocked,
        Cleared, Usage, Accounts
  <2>2. QED
    BY <2>1, <1>s
<1>15. CASE SaveWrite
  <2>1. /\ Live' = Live /\ Billed' = Billed
        /\ Stored' \in [Scopes -> SUBSET Requests]
        /\ \A a \in Scopes : Stored'[a] \subseteq Live[a]
    BY <1>15
    DEF SaveWrite, NoPersist, NoOp, Live, Stored, Billed, EffectiveUsage,
        TypeOK, Usage, Accounts, Within, StoreInv, LockDiscipline, NoneAhead,
        LedgerLocked
  <2>2. QED
    BY <2>1 DEF Live, Stored, Billed, Ledger!Next, Ledger!Store, Ledger!Spend
<1>16. CASE SaveFail
  <2>1. Stutter
    BY <1>16, AccountsDisjoint
    DEF SaveFail, NoPersist, NoOp, Stutter, Live, Stored, Billed,
        EffectiveUsage, TypeOK, StoreInv, LockDiscipline, LedgerLocked,
        Cleared, Usage, Accounts
  <2>2. QED
    BY <2>1, <1>s
<1>17. ASSUME NEW A \in SUBSET Scopes, BeginReset(A)
  PROVE [Ledger!Next]_(Ledger!vars)
  <2>1. Stutter
    BY <1>17, AccountsDisjoint
    DEF BeginReset, NoManagement, NoOp, Stutter, Live, Stored, Billed,
        EffectiveUsage, TypeOK, StoreInv, LockDiscipline, LedgerLocked,
        Cleared, Usage, Accounts
  <2>2. QED
    BY <2>1, <1>s
<1>18. CASE ResetLock
  <2>1. Stutter
    BY <1>18, AccountsDisjoint
    DEF ResetLock, PersistFree, NoPersist, Stutter, Live, Stored, Billed,
        EffectiveUsage, TypeOK, StoreInv, LockDiscipline, LedgerLocked,
        Cleared, Usage, Accounts
  <2>2. QED
    BY <2>1, <1>s
<1>19. CASE ResetPersist
  <2>1. op.accts \in SUBSET Scopes /\ op.usage = usage
    BY <1>19
    DEF ResetPersist, StoreInv, LockDiscipline, NoneAhead, LedgerLocked
  <2>2. /\ Live' = [a \in Scopes |-> IF a \in op.accts THEN {} ELSE Live[a]]
        /\ Stored' = Live' /\ Billed' = Billed
    BY <1>19, <2>1
    DEF ResetPersist, Live, Stored, Billed, EffectiveUsage, Cleared,
        Accounts, TypeOK
  <2>3. QED
    BY <2>1, <2>2 DEF Live, Stored, Billed, Ledger!Next, Ledger!Reset
<1>20. CASE ResetPersistFail
  <2>1. Stutter
    BY <1>20, AccountsDisjoint
    DEF ResetPersistFail, Stutter, Live, Stored, Billed, EffectiveUsage,
        TypeOK, StoreInv, LockDiscipline, LedgerLocked, Cleared, Usage,
        Accounts
  <2>2. QED
    BY <2>1, <1>s
<1>21. CASE ResetPublish
  <2>1. Stutter
    BY <1>21, AccountsDisjoint
    DEF ResetPublish, NoPersist, NoOp, Stutter, Live, Stored, Billed,
        EffectiveUsage, TypeOK, StoreInv, LockDiscipline, LedgerLocked,
        Cleared, Usage, Accounts
  <2>2. QED
    BY <2>1, <1>s
<1>22. CASE ResetReturnError
  <2>1. Stutter
    BY <1>22, AccountsDisjoint
    DEF ResetReturnError, NoPersist, NoOp, Stutter, Live, Stored, Billed,
        EffectiveUsage, TypeOK, StoreInv, LockDiscipline, LedgerLocked,
        Cleared, Usage, Accounts
  <2>2. QED
    BY <2>1, <1>s
<1>23. CASE BeginConfigure
  <2>1. Stutter
    BY <1>23, AccountsDisjoint
    DEF BeginConfigure, NoManagement, NoOp, Stutter, Live, Stored, Billed,
        EffectiveUsage, TypeOK, StoreInv, LockDiscipline, LedgerLocked,
        Cleared, Usage, Accounts
  <2>2. QED
    BY <2>1, <1>s
<1>24. CASE FlusherStopped
  <2>1. Stutter
    BY <1>24, AccountsDisjoint
    DEF FlusherStopped, Stutter, Live, Stored, Billed, EffectiveUsage,
        TypeOK, StoreInv, LockDiscipline, LedgerLocked, Cleared, Usage,
        Accounts
  <2>2. QED
    BY <2>1, <1>s
<1>25. CASE ConfigLoad
  <2>1. Stutter
    BY <1>25, AccountsDisjoint
    DEF ConfigLoad, Stutter, Live, Stored, Billed, EffectiveUsage, TypeOK,
        StoreInv, LockDiscipline, LedgerLocked, Cleared, Usage, Accounts
  <2>2. QED
    BY <2>1, <1>s
<1>26. CASE ConfigFail
  <2>1. Stutter
    BY <1>26, AccountsDisjoint
    DEF ConfigFail, NoOp, Stutter, Live, Stored, Billed, EffectiveUsage,
        TypeOK, StoreInv, LockDiscipline, LedgerLocked, Cleared, Usage,
        Accounts
  <2>2. QED
    BY <2>1, <1>s
<1>27. CASE ConfigPublish
  <2>1. Live' = Stored /\ Stored' = Stored /\ Billed' = Billed
    BY <1>27
    DEF ConfigPublish, NoOp, Live, Stored, Billed, EffectiveUsage, TypeOK,
        StoreInv, NoneAhead
  <2>2. QED
    BY <2>1 DEF Live, Stored, Billed, Ledger!Next, Ledger!Reload
<1>28. CASE StartUsageFlusher
  <2>1. Stutter
    BY <1>28, AccountsDisjoint
    DEF StartUsageFlusher, Stutter, Live, Stored, Billed, EffectiveUsage,
        TypeOK, StoreInv, LockDiscipline, LedgerLocked, Cleared, Usage,
        Accounts
  <2>2. QED
    BY <2>1, <1>s
<1>29. CASE Crash
  <2>1. Live' = Stored /\ Stored' = Stored /\ Billed' = Billed
    BY <1>29 DEF Crash, NoOp, Live, Stored, Billed, EffectiveUsage, TypeOK
  <2>2. QED
    BY <2>1 DEF Live, Stored, Billed, Ledger!Next, Ledger!Reload
<1>30. CASE UNCHANGED vars
  BY <1>30, <1>s DEF vars, Stutter, Live, Stored, Billed, EffectiveUsage
<1>31. QED
  BY <1>1, <1>2, <1>3, <1>4, <1>5, <1>6, <1>7, <1>8, <1>9, <1>10, <1>11,
     <1>12, <1>13, <1>14, <1>15, <1>16, <1>17, <1>18, <1>19, <1>20, <1>21,
     <1>22, <1>23, <1>24, <1>25, <1>26, <1>27, <1>28, <1>29, <1>30
  DEF Next, RequestStep, FlushStep, ManagementStep

\* Whatever goroutines, failures and crashes do, an operator sees the ledger
\* that NativeLedger describes.
THEOREM StoreRefinesLedger == Spec => LedgerSpec
<1>1. Init => Ledger!Init
  BY DEF Init, Ledger!Init, Live, Stored, Billed, EffectiveUsage, NoUsage, NoOp,
         Accounts
<1>2. QED
  BY <1>1, StoreTypeOK, StoreInvHolds, RefineStep, PTL
  DEF Spec, LedgerSpec, Ledger!Spec
=============================================================================
