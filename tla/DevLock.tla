------------------------------- MODULE DevLock -------------------------------
(***************************************************************************)
(* The device lock (boringtun/src/device/dev_lock.rs) and the threads that *)
(* use it: the event loops of boringtun/src/device/mod.rs, which keep a    *)
(* read lock while they wait for events and handle them, api_set, which    *)
(* upgrades it, and the owner of the device, which ends it.                *)
(*                                                                         *)
(* The lock is a mutex over the flag wants_write with a condition          *)
(* variable, and an RwLock.  A writer of parking_lot's RwLock first takes  *)
(* the writer bit, which keeps new readers out, then waits for the readers *)
(* that are in.  The RwLock, the mutex and the notifiers of the event      *)
(* queue are external.                                                     *)
(*                                                                         *)
(* A thread that panics lets go of its guards while it unwinds.  The flag  *)
(* wants_write is not a guard: a thread that panics under the write lock   *)
(* leaves it set ("broken"), and nobody reads from then on.                *)
(***************************************************************************)
EXTENDS Naturals

CONSTANTS
    Threads,    \* the event loops
    Main,       \* the thread that owns the DeviceHandle
    Nobody,     \* no thread
    Prologue,   \* how often each event loop reads before it loops
    MaxWrites   \* bound: calls of try_writeable

ASSUME DevLockAssumption ==
    /\ Main \notin Threads
    /\ Nobody \notin Threads \cup {Main}
    /\ Prologue \in [Threads -> Nat]
    /\ MaxWrites \in Nat

VARIABLES
    pc,             \* where a thread is
    peeks,          \* short reads still ahead of a thread, before the one it keeps
    mutex,          \* holder of the mutex over wants_write
    wants_write,    \* the flag
    readers,        \* threads with a read lock on the RwLock
    writer,         \* the thread that has the writer bit
    yield_notice,   \* the notifier that asks threads to yield their read locks
    exit_notice,    \* the notifier that asks threads to end
    writes          \* calls of try_writeable begun

vars == <<pc, peeks, mutex, wants_write, readers, writer, yield_notice, exit_notice, writes>>

All == Threads \cup {Main}

Init ==
    /\ pc = [t \in All |-> IF t = Main THEN "own" ELSE "read"]
    /\ peeks = [t \in All |-> IF t = Main THEN 1 ELSE Prologue[t]]
    /\ mutex = Nobody
    /\ wants_write = FALSE
    /\ readers = {}
    /\ writer = Nobody
    /\ yield_notice = FALSE
    /\ exit_notice = FALSE
    /\ writes = 0

At(t, here) == pc[t] = here

Goto(t, there) == pc' = [pc EXCEPT ![t] = there]

-----------------------------------------------------------------------------
\* The RwLock and the mutex

ReadLock(t) == writer = Nobody /\ readers' = readers \cup {t}

ReadUnlock(t) == readers' = readers \ {t}

Acquire(t) == mutex = Nobody /\ mutex' = t

Release == mutex' = Nobody

-----------------------------------------------------------------------------
\* Lock::read

Read(t) ==
    /\ At(t, "read")
    /\ Acquire(t)
    /\ Goto(t, "check")
    /\ UNCHANGED <<peeks, wants_write, readers, writer, yield_notice, exit_notice, writes>>

\* a fault: a writer's intention is not looked at
CheckUnheeded(t) ==
    /\ At(t, "check")
    /\ Goto(t, "enter") /\ UNCHANGED mutex
    /\ UNCHANGED <<peeks, wants_write, readers, writer, yield_notice, exit_notice, writes>>

\* wait on the condition variable while there is a writer
Check(t) ==
    /\ At(t, "check")
    /\ \/ wants_write /\ Release /\ Goto(t, "parked")
       \/ ~ wants_write /\ Goto(t, "enter") /\ UNCHANGED mutex
    /\ UNCHANGED <<peeks, wants_write, readers, writer, yield_notice, exit_notice, writes>>

\* the mutex is held until the RwLock is
Enter(t) ==
    /\ At(t, "enter")
    /\ ReadLock(t)
    /\ Release
    /\ Goto(t, IF peeks[t] > 0 THEN "peek" ELSE "wait")
    /\ UNCHANGED <<peeks, wants_write, writer, yield_notice, exit_notice, writes>>

-----------------------------------------------------------------------------
\* The event loop

\* device.read() before the loop: the guard is dropped at the end of the statement
Peek(t) ==
    /\ t \in Threads
    /\ At(t, "peek")
    /\ ReadUnlock(t)
    /\ peeks' = [peeks EXCEPT ![t] = @ - 1]
    /\ Goto(t, "read")
    /\ UNCHANGED <<mutex, wants_write, writer, yield_notice, exit_notice, writes>>

\* a handler, or the opening of the thread's own queue, panics
HandlerPanics(t) ==
    /\ t \in Threads
    /\ pc[t] \in {"handler", "peek"}
    /\ ReadUnlock(t)
    /\ Goto(t, "dead")
    /\ UNCHANGED <<peeks, mutex, wants_write, writer, yield_notice, exit_notice, writes>>

\* queue.wait returns the event of a socket, the interface, a timer or the API
GetEvent(t) ==
    /\ t \in Threads
    /\ At(t, "wait")
    /\ Goto(t, "handler")
    /\ UNCHANGED <<peeks, mutex, wants_write, readers, writer, yield_notice, exit_notice, writes>>

\* queue.wait returns the yield notice, for as long as it stands: break and read again
GetYield(t) ==
    /\ t \in Threads
    /\ At(t, "wait")
    /\ yield_notice
    /\ ReadUnlock(t)
    /\ Goto(t, "read")
    /\ UNCHANGED <<peeks, mutex, wants_write, writer, yield_notice, exit_notice, writes>>

\* a fault: the thread ends and passes nothing on
ExitSilently(t) ==
    /\ ReadUnlock(t)
    /\ Goto(t, "done")
    /\ UNCHANGED <<peeks, mutex, wants_write, writer, yield_notice, exit_notice, writes>>

\* Action::Exit: trigger_exit and return
Exit(t) ==
    /\ exit_notice' = TRUE
    /\ ReadUnlock(t)
    /\ Goto(t, "done")
    /\ UNCHANGED <<peeks, mutex, wants_write, writer, yield_notice, writes>>

GetExit(t) == t \in Threads /\ At(t, "wait") /\ exit_notice /\ Exit(t)

\* an ordinary handler returns Action::Continue
HandlerDone(t) ==
    /\ At(t, "handler")
    /\ Goto(t, "wait")
    /\ UNCHANGED <<peeks, mutex, wants_write, readers, writer, yield_notice, exit_notice, writes>>

\* a signal, the end of the API connection or a missing API socket
HandlerExits(t) == At(t, "handler") /\ Exit(t)

\* api_set calls try_writeable
HandlerSets(t) ==
    /\ At(t, "handler")
    /\ writes < MaxWrites
    /\ writes' = writes + 1
    /\ Goto(t, "upgrade")
    /\ UNCHANGED <<peeks, mutex, wants_write, readers, writer, yield_notice, exit_notice>>

-----------------------------------------------------------------------------
\* LockReadGuard::try_writeable

\* a fault: the read lock is kept while waiting for another writer
UpgradeKeepsReading(t) ==
    /\ At(t, "upgrade")
    /\ Acquire(t)
    /\ Goto(t, "intend")
    /\ UNCHANGED <<peeks, wants_write, readers, writer, yield_notice, exit_notice, writes>>

\* the read lock is released for as long as another writer is waited for
Upgrade(t) ==
    /\ At(t, "upgrade")
    /\ Acquire(t)
    /\ ReadUnlock(t)
    /\ Goto(t, "intend")
    /\ UNCHANGED <<peeks, wants_write, writer, yield_notice, exit_notice, writes>>

\* a fault: a second writer does not wait for the first
IntendUnheeded(t) ==
    /\ At(t, "intend")
    /\ Release
    /\ wants_write' = TRUE
    /\ Goto(t, "intended")
    /\ UNCHANGED <<peeks, readers, writer, yield_notice, exit_notice, writes>>

Intend(t) ==
    /\ At(t, "intend")
    /\ Release
    /\ \/ wants_write /\ Goto(t, "intend_parked") /\ UNCHANGED wants_write
       \/ ~ wants_write /\ wants_write' = TRUE /\ Goto(t, "intended")
    /\ UNCHANGED <<peeks, readers, writer, yield_notice, exit_notice, writes>>

IntendAgain(t) ==
    /\ At(t, "intend_again")
    /\ Acquire(t)
    /\ Goto(t, "intend")
    /\ UNCHANGED <<peeks, wants_write, readers, writer, yield_notice, exit_notice, writes>>

Intended(t) ==
    /\ At(t, "intended")
    /\ ReadLock(t)
    /\ Goto(t, "prep")
    /\ UNCHANGED <<peeks, mutex, wants_write, writer, yield_notice, exit_notice, writes>>

\* prep_func, trigger_yield; then the read lock is released for the write lock
Prep(t) ==
    /\ At(t, "prep")
    /\ yield_notice' = TRUE
    /\ ReadUnlock(t)
    /\ Goto(t, "write")
    /\ UNCHANGED <<peeks, mutex, wants_write, writer, exit_notice, writes>>

WriterBit(t) ==
    /\ At(t, "write")
    /\ writer = Nobody
    /\ writer' = t
    /\ Goto(t, "drain")
    /\ UNCHANGED <<peeks, mutex, wants_write, readers, yield_notice, exit_notice, writes>>

Drain(t) ==
    /\ At(t, "drain")
    /\ readers = {}
    /\ Goto(t, "mut")
    /\ UNCHANGED <<peeks, mutex, wants_write, readers, writer, yield_notice, exit_notice, writes>>

\* a fault: the yield notice is left standing
MutateKeepsYield(t) ==
    /\ At(t, "mut")
    /\ writer' = Nobody
    /\ Goto(t, "relock")
    /\ UNCHANGED <<peeks, mutex, wants_write, readers, yield_notice, exit_notice, writes>>

\* mut_func: cancel_yield and the changes to the device, then the write lock is released
Mutate(t) ==
    /\ At(t, "mut")
    /\ yield_notice' = FALSE
    /\ writer' = Nobody
    /\ Goto(t, "relock")
    /\ UNCHANGED <<peeks, mutex, wants_write, readers, exit_notice, writes>>

\* mut_func panics, after cancel_yield: the write lock is released, the flag is not
MutatePanics(t) ==
    /\ At(t, "mut")
    /\ yield_notice' = FALSE
    /\ writer' = Nobody
    /\ Goto(t, "broken")
    /\ UNCHANGED <<peeks, mutex, wants_write, readers, exit_notice, writes>>

Relock(t) ==
    /\ At(t, "relock")
    /\ ReadLock(t)
    /\ Goto(t, "signal")
    /\ UNCHANGED <<peeks, mutex, wants_write, writer, yield_notice, exit_notice, writes>>

\* notify_all wakes whoever is parked; each contends for the mutex again
Woken(where) ==
    IF where = "parked" THEN "read"
    ELSE IF where = "intend_parked" THEN "intend_again"
    ELSE where

\* a fault: nobody is woken
SignalNobody(t) ==
    /\ At(t, "signal")
    /\ mutex = Nobody
    /\ wants_write' = FALSE
    /\ Goto(t, "wait")
    /\ UNCHANGED <<peeks, mutex, readers, writer, yield_notice, exit_notice, writes>>

\* under the mutex: the flag is reset and everybody notified; the handler returns
Signal(t) ==
    /\ At(t, "signal")
    /\ mutex = Nobody
    /\ wants_write' = FALSE
    /\ pc' = [s \in All |-> IF s = t THEN "wait" ELSE Woken(pc[s])]
    /\ UNCHANGED <<peeks, mutex, readers, writer, yield_notice, exit_notice, writes>>

-----------------------------------------------------------------------------
\* The owner: DeviceHandle::wait or not, then drop, which is read and trigger_exit
\* and, in clean, read again

OwnerWaits ==
    /\ At(Main, "own")
    /\ Goto(Main, "join")
    /\ UNCHANGED <<peeks, mutex, wants_write, readers, writer, yield_notice, exit_notice, writes>>

OwnerDrops ==
    /\ At(Main, "own")
    /\ Goto(Main, "read")
    /\ UNCHANGED <<peeks, mutex, wants_write, readers, writer, yield_notice, exit_notice, writes>>

Panicked(t) == pc[t] \in {"dead", "broken"}

Ended(t) == At(t, "done") \/ Panicked(t)

JoinsAll ==
    /\ At(Main, "join")
    /\ \A t \in Threads : Ended(t)
    /\ Goto(Main, "read")
    /\ UNCHANGED <<peeks, mutex, wants_write, readers, writer, yield_notice, exit_notice, writes>>

\* join().unwrap() panics when it comes to a thread that panicked, and drops the
\* handle; the threads are joined in an order, so this may be late
JoinPanics ==
    /\ At(Main, "join")
    /\ \E t \in Threads : Panicked(t)
    /\ Goto(Main, "read")
    /\ UNCHANGED <<peeks, mutex, wants_write, readers, writer, yield_notice, exit_notice, writes>>

\* a fault: the guard lives on while clean reads again
OwnerExitsKeepsReading ==
    /\ At(Main, "peek")
    /\ exit_notice' = TRUE
    /\ peeks' = [peeks EXCEPT ![Main] = 0]
    /\ Goto(Main, "read")
    /\ UNCHANGED <<mutex, wants_write, readers, writer, yield_notice, writes>>

OwnerExits ==
    /\ At(Main, "peek")
    /\ exit_notice' = TRUE
    /\ ReadUnlock(Main)
    /\ peeks' = [peeks EXCEPT ![Main] = 0]
    /\ Goto(Main, "read")
    /\ UNCHANGED <<mutex, wants_write, writer, yield_notice, writes>>

\* clean: the files are removed under the read lock
OwnerCleans ==
    /\ At(Main, "wait")
    /\ ReadUnlock(Main)
    /\ Goto(Main, "done")
    /\ UNCHANGED <<peeks, mutex, wants_write, writer, yield_notice, exit_notice, writes>>

LockStep(t) ==
    \/ Check(t) \/ Enter(t) \/ Intend(t) \/ Intended(t) \/ Prep(t) \/ WriterBit(t)
    \/ Drain(t) \/ Mutate(t) \/ Relock(t) \/ Peek(t)

MutexStep(t) == Read(t) \/ Upgrade(t) \/ IntendAgain(t) \/ Signal(t)

HandlerEnds(t) == HandlerDone(t) \/ HandlerExits(t) \/ HandlerSets(t)

Next ==
    \/ \E t \in All :
          \/ LockStep(t) \/ MutexStep(t) \/ HandlerEnds(t)
          \/ GetEvent(t) \/ GetYield(t) \/ GetExit(t)
          \/ HandlerPanics(t) \/ MutatePanics(t)
    \/ OwnerWaits \/ OwnerDrops
    \/ JoinsAll \/ JoinPanics
    \/ OwnerExits \/ OwnerCleans

(***************************************************************************)
(* Fairness: threads run; a handler returns (so API clients finish what    *)
(* they send); parking_lot's mutex does not pass a thread over for ever;   *)
(* epoll serves ready events in turn, so a notice that stands reaches      *)
(* every thread that keeps waiting.  Nothing has to panic.                 *)
(***************************************************************************)
Fairness ==
    /\ \A t \in All :
          /\ WF_vars(LockStep(t))
          /\ WF_vars(HandlerEnds(t))
          /\ SF_vars(MutexStep(t))
          /\ SF_vars(GetYield(t) \/ GetExit(t))
          /\ SF_vars(GetExit(t))
    /\ WF_vars(JoinsAll) /\ WF_vars(OwnerExits) /\ WF_vars(OwnerCleans)

Spec == Init /\ [][Next]_vars /\ Fairness

-----------------------------------------------------------------------------
\* Places, by what a thread has there

Reading == {"peek", "wait", "handler", "upgrade", "prep", "signal"}
Locking == {"check", "enter", "intend"}
Writing == {"drain", "mut"}
Yielding == {"write"} \cup Writing
Intending == {"intended", "prep", "relock", "signal"} \cup Yielding
Flagging == Intending \cup {"broken"}
Parked == {"parked", "intend_parked"}
Places == {"own", "join", "read", "intend_again", "done", "dead", "broken"}
            \cup Reading \cup Locking \cup Intending \cup Parked

\* Threads, locks and notices have the values the code gives them.
TypeOK ==
    /\ pc \in [All -> Places]
    /\ peeks \in [All -> Nat]
    /\ mutex \in All \cup {Nobody}
    /\ wants_write \in BOOLEAN
    /\ readers \subseteq All
    /\ writer \in All \cup {Nobody}
    /\ yield_notice \in BOOLEAN /\ exit_notice \in BOOLEAN
    /\ writes \in 0 .. MaxWrites

(***************************************************************************)
(* "There is no race here because wants_write blocks other threads"        *)
(* (try_writeable, dev_lock.rs): whenever a thread is about to take a read *)
(* lock on the RwLock nobody has the writer bit, so it takes it at once.   *)
(* In Lock::read it holds the mutex meanwhile, and were it to wait, the    *)
(* writer could never reset wants_write.                                   *)
(***************************************************************************)
ReadsNeverBlock ==
    \A t \in All : pc[t] \in {"enter", "intended", "relock"} => writer = Nobody

(***************************************************************************)
(* No wakeup is lost: a thread that waits on the condition variable has a  *)
(* writer that will still notify it, unless the writer panicked in         *)
(* mut_func.  A panic anywhere else leaves nobody waiting.                 *)
(***************************************************************************)
NoLostWakeup == \A t \in All : pc[t] \in Parked => \E s \in All : pc[s] \in Flagging

(***************************************************************************)
(* The yield notice stands only while a writer waits for the read locks or *)
(* writes (trigger_yield to cancel_yield): afterwards no event loop spins  *)
(* on it.                                                                  *)
(***************************************************************************)
YieldForWriter == yield_notice => \E t \in All : pc[t] \in Yielding

\* Each piece of the lock by the places of the threads
ReadersAre == readers = { t \in All : pc[t] \in Reading }
MutexIs == \A t \in All : pc[t] \in Locking <=> mutex = t
WriterIs == \A t \in All : pc[t] \in Writing <=> writer = t
OneIntends == \A s, t \in All : pc[s] \in Flagging /\ pc[t] \in Flagging => s = t
FlagIs == wants_write <=> \E t \in All : pc[t] \in Flagging
FlagKeepsOut == \A t \in All : pc[t] = "enter" => ~ wants_write
FlagParks == \A t \in All : pc[t] \in Parked => wants_write
PeeksLeft == \A t \in All : pc[t] = "peek" => peeks[t] > 0
NoticeIs == yield_notice <=> \E t \in All : pc[t] \in Yielding

(***************************************************************************)
(* The inductive invariant behind the properties above: Lock::read and     *)
(* try_writeable keep the RwLock, the mutex, wants_write and the yield     *)
(* notice in step with what each thread is doing, and at most one thread   *)
(* at a time intends to write.                                             *)
(***************************************************************************)
LockInv ==
    /\ TypeOK
    /\ ReadersAre /\ MutexIs /\ WriterIs
    /\ OneIntends /\ FlagIs /\ FlagKeepsOut /\ FlagParks
    /\ PeeksLeft /\ NoticeIs

(***************************************************************************)
(* "this will prevent any new reader from starting until we are done"      *)
(* (try_writeable, dev_lock.rs): while the flag is set only the writer     *)
(* itself takes a read lock.                                               *)
(***************************************************************************)
NoNewReaders ==
    [][wants_write => \A t \in readers' \ readers : pc[t] \in Intending]_vars

\* A thread panicked under the write lock
Broken == \E t \in Threads : At(t, "broken")

(***************************************************************************)
(* A thread that asks for write access gets it (try_writeable): the others *)
(* yield, hand on, end or panic.                                           *)
(***************************************************************************)
WritesHappen == \A t \in Threads : At(t, "upgrade") ~> (At(t, "mut") \/ Broken)

(***************************************************************************)
(* A thread that asks for a read lock (Lock::read) gets it, when the       *)
(* writers that come between are finitely many, as requests are.           *)
(***************************************************************************)
ReadersReturn ==
    \A t \in All : At(t, "read") ~> (pc[t] \in {"peek", "wait"} \/ Broken)

(***************************************************************************)
(* Once one event loop has ended for Action::Exit, all of them end, those  *)
(* that are still in their prologue included.                              *)
(***************************************************************************)
ExitSpreads ==
    \A s \in Threads : (\E t \in Threads : At(t, "done")) ~> (Ended(s) \/ Broken)

(***************************************************************************)
(* The device is cleaned up (clean removes the API socket): after an event *)
(* loop has ended for Action::Exit the owner returns from wait, and once   *)
(* it drops the handle it comes to the end, whatever requests for write    *)
(* access are under way.                                                   *)
(***************************************************************************)
CleanedUp ==
    (At(Main, "read") \/ (At(Main, "join") /\ \E t \in Threads : At(t, "done")))
        ~> (At(Main, "done") \/ Broken)
=============================================================================
