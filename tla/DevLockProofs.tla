---------------------------- MODULE DevLockProofs ----------------------------
(***************************************************************************)
(* Safety of the device lock for any set of event loops.                   *)
(***************************************************************************)
EXTENDS DevLock, TLAPS

\* The lock starts free: every part of LockInv holds before any thread runs.
LEMMA InitLock == Init => LockInv
<1> SUFFICES ASSUME Init PROVE LockInv
  OBVIOUS
<1> USE DevLockAssumption
<1>1. \A t \in All : pc[t] \in {"own", "read"} /\ t # Nobody
  BY DEF Init, All
<1>2. TypeOK
  <2>1. pc \in [All -> Places]
    BY DEF Init, Places
  <2>2. peeks \in [All -> Nat]
    BY DEF Init, All
  <2>3. wants_write \in BOOLEAN /\ yield_notice \in BOOLEAN /\ exit_notice \in BOOLEAN
    BY Zenon DEF Init
  <2> QED
    BY <2>1, <2>2, <2>3 DEF Init, TypeOK
<1>3. ReadersAre /\ MutexIs /\ WriterIs
  BY <1>1, SMT DEF Init, ReadersAre, MutexIs, WriterIs, Reading, Locking, Writing
<1>4. OneIntends /\ FlagIs /\ FlagKeepsOut /\ FlagParks /\ PeeksLeft /\ NoticeIs
  BY <1>1, SMT DEF Init, OneIntends, FlagIs, FlagKeepsOut, FlagParks, PeeksLeft, NoticeIs,
     Flagging, Intending, Yielding, Writing, Parked
<1> QED
  BY <1>2, <1>3, <1>4 DEF LockInv

\* Every step of a thread through Lock::read, the event loop or try_writeable keeps LockInv.
LEMMA StepLock == LockInv /\ [Next]_vars => LockInv'
<1> USE DevLockAssumption DEF LockInv, ReadersAre, MutexIs, WriterIs, OneIntends, FlagIs, FlagKeepsOut,
        FlagParks, PeeksLeft, NoticeIs, TypeOK, At, Goto, Places, Reading, Locking, Writing,
        Yielding, Intending, Flagging, Parked, ReadLock, ReadUnlock, Acquire, Release
<1> SUFFICES ASSUME LockInv, [Next]_vars PROVE LockInv'
  OBVIOUS
<1>m. Main \in All /\ Nobody \notin All
  BY DEF All
<1>t. ASSUME NEW t \in All PROVE t # Nobody
  BY <1>m
<1>1. ASSUME NEW t \in All, Read(t) PROVE LockInv'
  BY <1>1, <1>m, SMT DEF Read
<1>2. ASSUME NEW t \in All, Check(t) PROVE LockInv'
  BY <1>2, <1>m, SMT DEF Check
<1>3. ASSUME NEW t \in All, Enter(t) PROVE LockInv'
  BY <1>3, <1>m, SMT DEF Enter
<1>4. ASSUME NEW t \in All, GetEvent(t) PROVE LockInv'
  BY <1>4, <1>m, SMT DEF GetEvent
<1>5. ASSUME NEW t \in All, GetYield(t) PROVE LockInv'
  BY <1>5, <1>m, SMT DEF GetYield
<1>6. ASSUME NEW t \in All, GetExit(t) PROVE LockInv'
  BY <1>6, <1>m, SMT DEF GetExit, Exit
<1>7. ASSUME NEW t \in All, HandlerDone(t) PROVE LockInv'
  BY <1>7, <1>m, SMT DEF HandlerDone
<1>8. ASSUME NEW t \in All, HandlerExits(t) PROVE LockInv'
  BY <1>8, <1>m, SMT DEF HandlerExits, Exit
<1>9. ASSUME NEW t \in All, HandlerSets(t) PROVE LockInv'
  BY <1>9, <1>m, SMT DEF HandlerSets
<1>10. ASSUME NEW t \in All, Upgrade(t) PROVE LockInv'
  BY <1>10, <1>m, SMT DEF Upgrade
<1>11. ASSUME NEW t \in All, Intend(t) PROVE LockInv'
  <2>1. TypeOK'
    <3>1. wants_write' \in BOOLEAN
      BY <1>11, Zenon DEF Intend
    <3>2. pc' \in [All -> Places]
      BY <1>11, <1>m, SMT DEF Intend
    <3> QED
      BY <1>11, <1>m, <3>1, <3>2, SMT DEF Intend
  <2>2. ReadersAre'
    BY <1>11, <1>m, SMT DEF Intend
  <2>3. MutexIs' /\ WriterIs'
    BY <1>11, <1>m, SMT DEF Intend
  <2>4. OneIntends'
    BY <1>11, <1>m, SMT DEF Intend
  <2>5. FlagIs'
    BY <1>11, <1>m, SMT DEF Intend
  <2>6. FlagKeepsOut' /\ FlagParks'
    BY <1>11, <1>m, SMT DEF Intend
  <2>7. PeeksLeft' /\ NoticeIs'
    BY <1>11, <1>m, SMT DEF Intend
  <2> QED
    BY <2>1, <2>2, <2>3, <2>4, <2>5, <2>6, <2>7
<1>12. ASSUME NEW t \in All, IntendAgain(t) PROVE LockInv'
  BY <1>12, <1>m, SMT DEF IntendAgain
<1>13. ASSUME NEW t \in All, Intended(t) PROVE LockInv'
  BY <1>13, <1>m, SMT DEF Intended
<1>14. ASSUME NEW t \in All, Prep(t) PROVE LockInv'
  BY <1>14, <1>m, SMT DEF Prep
<1>15. ASSUME NEW t \in All, WriterBit(t) PROVE LockInv'
  BY <1>15, <1>m, SMT DEF WriterBit
<1>16. ASSUME NEW t \in All, Drain(t) PROVE LockInv'
  BY <1>16, <1>m, SMT DEF Drain
<1>17. ASSUME NEW t \in All, Mutate(t) PROVE LockInv'
  <2>1. TypeOK'
    <3>1. yield_notice' \in BOOLEAN
      BY <1>17, Zenon DEF Mutate
    <3>2. pc' \in [All -> Places]
      BY <1>17, <1>m, SMT DEF Mutate
    <3> QED
      BY <1>17, <1>m, <3>1, <3>2, SMT DEF Mutate
  <2>2. ReadersAre'
    BY <1>17, <1>m, SMT DEF Mutate
  <2>3. MutexIs' /\ WriterIs'
    BY <1>17, <1>m, SMT DEF Mutate
  <2>4. OneIntends'
    BY <1>17, <1>m, SMT DEF Mutate
  <2>5. FlagIs'
    BY <1>17, <1>m, SMT DEF Mutate
  <2>6. FlagKeepsOut' /\ FlagParks'
    BY <1>17, <1>m, SMT DEF Mutate
  <2>7. PeeksLeft' /\ NoticeIs'
    BY <1>17, <1>m, SMT DEF Mutate
  <2> QED
    BY <2>1, <2>2, <2>3, <2>4, <2>5, <2>6, <2>7, SMTT(30)
<1>18. ASSUME NEW t \in All, Relock(t) PROVE LockInv'
  BY <1>18, <1>m, SMT DEF Relock
<1>19. ASSUME NEW t \in All, Signal(t) PROVE LockInv'
  <2>1. TypeOK'
    <3>1. wants_write' \in BOOLEAN
      BY <1>19, Zenon DEF Signal
    <3>2. pc' \in [All -> Places]
      BY <1>19, <1>m, SMT DEF Signal, Woken
    <3> QED
      BY <1>19, <1>m, <3>1, <3>2, SMT DEF Signal
  <2>2. ReadersAre'
    BY <1>19, <1>m, SMT DEF Signal, Woken
  <2>3. MutexIs' /\ WriterIs'
    BY <1>19, <1>m, SMT DEF Signal, Woken
  <2>4. OneIntends'
    BY <1>19, <1>m, SMT DEF Signal, Woken
  <2>5. FlagIs'
    BY <1>19, <1>m, SMT DEF Signal, Woken
  <2>6. FlagKeepsOut' /\ FlagParks'
    BY <1>19, <1>m, SMT DEF Signal, Woken
  <2>7. PeeksLeft' /\ NoticeIs'
    BY <1>19, <1>m, SMT DEF Signal, Woken
  <2> QED
    BY <2>1, <2>2, <2>3, <2>4, <2>5, <2>6, <2>7, SMTT(30)
<1>20. ASSUME NEW t \in All, Peek(t) PROVE LockInv'
  BY <1>20, <1>m, SMT DEF Peek
<1>21. ASSUME NEW t \in All, HandlerPanics(t) PROVE LockInv'
  BY <1>21, <1>m, SMT DEF HandlerPanics
<1>22. ASSUME NEW t \in All, MutatePanics(t) PROVE LockInv'
  <2>1. TypeOK'
    <3>1. yield_notice' \in BOOLEAN
      BY <1>22, Zenon DEF MutatePanics
    <3>2. pc' \in [All -> Places]
      BY <1>22, <1>m, SMT DEF MutatePanics
    <3> QED
      BY <1>22, <1>m, <3>1, <3>2, SMT DEF MutatePanics
  <2>2. ReadersAre'
    BY <1>22, <1>m, SMT DEF MutatePanics
  <2>3. MutexIs' /\ WriterIs'
    BY <1>22, <1>m, SMT DEF MutatePanics
  <2>4. OneIntends'
    BY <1>22, <1>m, SMT DEF MutatePanics
  <2>5. FlagIs'
    BY <1>22, <1>m, SMT DEF MutatePanics
  <2>6. FlagKeepsOut' /\ FlagParks'
    BY <1>22, <1>m, SMT DEF MutatePanics
  <2>7. PeeksLeft' /\ NoticeIs'
    BY <1>22, <1>m, SMT DEF MutatePanics
  <2> QED
    BY <2>1, <2>2, <2>3, <2>4, <2>5, <2>6, <2>7, SMTT(30)
<1>23. CASE OwnerWaits \/ OwnerDrops
  BY <1>23, <1>m, SMT DEF OwnerWaits, OwnerDrops
<1>24. CASE JoinsAll \/ JoinPanics
  BY <1>24, <1>m, SMT DEF JoinsAll, JoinPanics
<1>25. CASE OwnerExits
  BY <1>25, <1>m, SMT, SMTT(30) DEF OwnerExits
<1>26. CASE OwnerCleans
  BY <1>26, <1>m, SMT, SMTT(30) DEF OwnerCleans
<1>27. CASE UNCHANGED vars
  BY <1>27 DEF vars
<1> QED
  <2> HIDE DEF LockInv
  <2> QED
    BY <1>1, <1>2, <1>3, <1>4, <1>5, <1>6, <1>7, <1>8, <1>9, <1>10, <1>11, <1>12, <1>13, <1>14,
       <1>15, <1>16, <1>17, <1>18, <1>19, <1>20, <1>21, <1>22, <1>23, <1>24, <1>25, <1>26,
       <1>27
       DEF Next, LockStep, MutexStep, HandlerEnds

\* The inductive invariant of the device lock.
THEOREM LockInvariant == Spec => []LockInv
BY InitLock, StepLock, PTL DEF Spec

(***************************************************************************)
(* No inner.read() of dev_lock.rs ever waits, in particular not under the  *)
(* mutex: a writer has the RwLock only while wants_write is set.           *)
(***************************************************************************)
THEOREM ReadsDoNotBlock == Spec => []ReadsNeverBlock
<1>1. LockInv => ReadsNeverBlock
  BY DevLockAssumption, SMT DEF LockInv, WriterIs, OneIntends, FlagIs, FlagKeepsOut, TypeOK,
     ReadsNeverBlock, Reading, Writing, Yielding,
     Intending, Flagging, All
<1> QED
  BY <1>1, LockInvariant, PTL

(***************************************************************************)
(* A thread parked on the condition variable has a writer that will notify *)
(* it, unless that writer panicked in mut_func.                            *)
(***************************************************************************)
THEOREM WakeupsAreKept == Spec => []NoLostWakeup
<1>1. LockInv => NoLostWakeup
  BY DEF LockInv, FlagParks, FlagIs, NoLostWakeup
<1> QED
  BY <1>1, LockInvariant, PTL

\* trigger_yield is taken back by cancel_yield before the writer lets go.
THEOREM YieldIsTakenBack == Spec => []YieldForWriter
<1>1. LockInv => YieldForWriter
  BY DEF LockInv, NoticeIs, YieldForWriter
<1> QED
  BY <1>1, LockInvariant, PTL

\* wants_write keeps every new reader out until the writer is done.
THEOREM NewReadersAreKeptOut == Spec => NoNewReaders
<1>1. LockInv /\ [Next]_vars
        => [wants_write => \A t \in readers' \ readers : pc[t] \in Intending]_vars
  <2> SUFFICES ASSUME LockInv, Next, wants_write, NEW t \in readers' \ readers
               PROVE pc[t] \in Intending
    BY DEF vars
  <2>1. ASSUME NEW s \in All, Enter(s) \/ Intended(s) \/ Relock(s) PROVE pc[t] \in Intending
    <3>1. t = s /\ pc[s] \in {"enter", "intended", "relock"}
      BY <2>1 DEF Enter, Intended, Relock, ReadLock, At
    <3>2. pc[s] # "enter"
      BY DEF LockInv, FlagKeepsOut
    <3> QED
      BY <3>1, <3>2 DEF Intending
  <2>2. ASSUME NEW s \in All,
               \/ Read(s) \/ Check(s) \/ GetEvent(s) \/ HandlerDone(s) \/ HandlerSets(s)
               \/ Intend(s) \/ IntendAgain(s) \/ WriterBit(s) \/ Drain(s) \/ Mutate(s) \/ Signal(s)
               \/ MutatePanics(s)
        PROVE readers' = readers
    BY <2>2 DEF Read, Check, GetEvent, HandlerDone, HandlerSets, Intend, IntendAgain, WriterBit,
       Drain, Mutate, Signal, MutatePanics
  <2>3. ASSUME NEW s \in All,
               \/ GetYield(s) \/ GetExit(s) \/ HandlerExits(s) \/ Upgrade(s) \/ Prep(s)
               \/ Peek(s) \/ HandlerPanics(s)
        PROVE readers' = readers \ {s}
    BY <2>3 DEF GetYield, GetExit, HandlerExits, Exit, Upgrade, Prep, Peek, HandlerPanics, ReadUnlock
  <2>4. (OwnerWaits \/ OwnerDrops \/ JoinsAll \/ JoinPanics \/ OwnerExits \/ OwnerCleans)
          => readers' \subseteq readers
    BY DEF OwnerWaits, OwnerDrops, JoinsAll, JoinPanics, OwnerExits, OwnerCleans, ReadUnlock
  <2> QED
    BY <2>1, <2>2, <2>3, <2>4 DEF Next, LockStep, MutexStep, HandlerEnds
<1> QED
  BY <1>1, LockInvariant, PTL DEF Spec, NoNewReaders
=============================================================================
