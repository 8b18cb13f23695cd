----------------------------- MODULE EventQueue -----------------------------
(***************************************************************************)
(* The registry of pollable events that the device threads share           *)
(* (src/boringtun/src/device/epoll.rs, and kqueue.rs on the BSDs), under   *)
(* the event loop of device/mod.rs and the peer's connected socket         *)
(* (peer.rs), which is the one event that comes and goes while the loop    *)
(* runs.                                                                   *)
(*                                                                         *)
(* The kernel is part of the state: descriptors are numbers that are used  *)
(* again once closed, a socket lives as long as one descriptor refers to   *)
(* it, and the interest list keeps a raw pointer to the Event box of each  *)
(* registration.  An Event is named by the file it was made for, since     *)
(* every file is registered once.  A step is one system call or one        *)
(* critical section of the registry's mutex.                               *)
(***************************************************************************)
EXTENDS Naturals

CONSTANTS Threads,      \* the threads of the event loop
          Fds,          \* descriptor numbers sockets can have
          MaxSockets,   \* bound: connected sockets ever opened
          MaxPanics,    \* bound: handlers that panic
          Udp, Timer, Api, Yield,  \* events registered once, before the
                        \* threads start: a listening socket, a timer, the
                        \* configuration socket, and the notifier that asks
                        \* the threads to release the device lock
          Nothing

Sockets == 1 .. MaxSockets
Fixed == {Udp, Timer, Api, Yield}

ASSUME EventQueueAssumption ==
  /\ MaxSockets \in Nat /\ MaxPanics \in Nat
  /\ Udp \notin {Timer, Api, Yield} /\ Timer \notin {Api, Yield} /\ Api # Yield
  /\ Fixed \cap Sockets = {}
  /\ Nothing \notin Threads \cup Fds \cup Fixed \cup Sockets

Files == Fixed \cup Sockets
IsNotifier(e) == e = Yield

VARIABLES
  kqueue,     \* TRUE: the BSD implementation, FALSE: epoll
  file,       \* Fds -> the socket a descriptor refers to
  events,     \* Fds -> the Event box the registry holds at that index
  interest,   \* Files -> the kernel's entry: the Event pointer, and if it is on
  mutex,      \* the holder of the registry's mutex over two steps
  pc, guard,  \* where a thread is, and its EventGuard
  trigger,    \* Sockets -> the descriptor its Event is registered under
  conn,       \* the clone of the socket that the peer keeps
  peer,       \* the holder of the peer's mutex
  shut,       \* sockets shut down
  notice,     \* the notifier is triggered
  writer,     \* the thread that wants or has the device's write lock
  made,       \* how many sockets were opened
  panics

qvars == <<file, events, interest, mutex>>
svars == <<trigger, conn, peer, shut, made>>
lvars == <<notice, writer>>
vars == <<kqueue, qvars, pc, guard, svars, lvars, panics>>

Unpolled == [ev |-> Nothing, on |-> FALSE]
NoGuard == [ev |-> Nothing, then |-> "wait"]

Init ==
  /\ kqueue \in BOOLEAN
  /\ file = [x \in Fds |-> Nothing]
  /\ events = [x \in Fds |-> Nothing]
  /\ interest = [f \in Files |->
                   IF f \in Fixed THEN [ev |-> f, on |-> TRUE] ELSE Unpolled]
  /\ mutex = Nothing
  /\ pc = [t \in Threads |-> "out"]
  /\ guard = [t \in Threads |-> NoGuard]
  /\ trigger = [s \in Sockets |-> Nothing]
  /\ conn = Nothing
  /\ peer = Nothing
  /\ shut = {}
  /\ notice = FALSE
  /\ writer = Nothing
  /\ made = 0
  /\ panics = 0

At(t, places) == pc[t] \in places
Goto(t, place) == pc' = [pc EXCEPT ![t] = place]
Free == mutex = Nothing

-----------------------------------------------------------------------------
(* The kernel.  Closing the last descriptor of a file takes its entry off  *)
(* an epoll list; a kqueue entry goes with the descriptor it names.        *)

Close(x) ==
  LET s == file[x]
      last == \A y \in Fds \ {x} : file[y] # s
  IN /\ file' = [file EXCEPT ![x] = Nothing]
     /\ interest' = IF s # Nothing /\ (IF kqueue THEN trigger[s] = x ELSE last)
                    THEN [interest EXCEPT ![s] = Unpolled]
                    ELSE interest

(* The file a registration call for this Event's descriptor acts on: the   *)
(* calls name a number, and the kernel looks up what it refers to now.     *)
FileOf(e) == IF e \in Fixed THEN e ELSE file[trigger[e]]

(* Data may be there, and the timer may have expired, at any time.         *)
Ready(f) == f = Yield => notice

-----------------------------------------------------------------------------
(* EventPoll::wait: the kernel hands out the pointer of an entry that is   *)
(* on.  All but notifiers are one-shot, so the entry goes off.             *)

\* a fault: the registration lacks EPOLLONESHOT
FireKeepsOn(f) == interest

Fire(f) ==
  IF IsNotifier(interest[f].ev) THEN interest
  ELSE [interest EXCEPT ![f].on = FALSE]

\* a fault: EPOLLHUP is not looked at
WaitNoHup(t, f) ==
  /\ At(t, {"wait"})
  /\ interest[f].on /\ Ready(f)
  /\ guard' = [guard EXCEPT ![t] = [ev |-> interest[f].ev, then |-> "wait"]]
  /\ interest' = Fire(f)
  /\ Goto(t, "run")
  /\ UNCHANGED <<kqueue, file, events, mutex, svars, lvars, panics>>

Wait(t, f) ==
  /\ At(t, {"wait"})
  /\ interest[f].on /\ Ready(f)
  /\ guard' = [guard EXCEPT ![t] = [ev |-> interest[f].ev, then |-> "wait"]]
  /\ interest' = Fire(f)
  /\ Goto(t, IF f \in shut THEN "eof" ELSE "run")
  /\ UNCHANGED <<kqueue, file, events, mutex, svars, lvars, panics>>

(* The handler returns Continue; a notifier's returns Yield, which leaves  *)
(* the inner loop.                                                         *)
Return(t) ==
  /\ At(t, {"run"})
  /\ guard' = [guard EXCEPT ![t].then =
                 IF IsNotifier(guard[t].ev) THEN "leave" ELSE "wait"]
  /\ Goto(t, "drop")
  /\ UNCHANGED <<kqueue, qvars, svars, lvars, panics>>

(* A handler panics ("Key not set", an unwrap), also with the peer locked: *)
(* unwinding drops the peer's lock, the guard, then the read lock.  (Under *)
(* the write lock a panic leaves the device locked: module DevLock.)       *)
Panic(t) ==
  /\ At(t, {"run", "peer"})
  /\ ~IsNotifier(guard[t].ev)
  /\ writer # t
  /\ panics < MaxPanics
  /\ panics' = panics + 1
  /\ peer' = IF At(t, {"peer"}) THEN Nothing ELSE peer
  /\ guard' = [guard EXCEPT ![t].then = "dead"]
  /\ Goto(t, "drop")
  /\ UNCHANGED <<kqueue, qvars, trigger, conn, shut, made, lvars>>

(* EventGuard::drop, the re-arming call of either implementation: it turns *)
(* the entry of the Event's descriptor on and stores the guard's own Event *)
(* pointer in it.                                                          *)
EnableInterest(e) ==
  LET f == FileOf(e)
  IN IF f = Nothing \/ interest[f].ev = Nothing THEN interest
     ELSE [interest EXCEPT ![f] = [ev |-> e, on |-> TRUE]]

Rearm(t) ==
  /\ At(t, {"drop"})
  /\ interest' = EnableInterest(guard[t].ev)
  /\ guard' = [guard EXCEPT ![t] = NoGuard]
  /\ Goto(t, guard[t].then)
  /\ UNCHANGED <<kqueue, file, events, mutex, svars, lvars, panics>>

-----------------------------------------------------------------------------
(* The device lock (dev_lock.rs), here only what keeps the loop and a      *)
(* writer apart: a thread has the read lock from "wait" until it leaves,   *)
(* none enters while a writer intends to write, and the writer goes on     *)
(* when the others are out.                                                *)

EnterLoop(t) ==
  /\ At(t, {"out"})
  /\ writer = Nothing
  /\ Goto(t, "wait")
  /\ UNCHANGED <<kqueue, qvars, guard, svars, lvars, panics>>

(* The guard is dropped at the break, the read lock at the end of the      *)
(* outer loop's body.                                                      *)
LeaveLoop(t) ==
  /\ At(t, {"leave"})
  /\ Goto(t, "out")
  /\ UNCHANGED <<kqueue, qvars, guard, svars, lvars, panics>>

(* The handler of a configuration request asks for the write lock and      *)
(* triggers the notifier.  kqueue's EV_ENABLE with NOTE_TRIGGER also turns *)
(* the entry on, which stop_notification had turned off.                   *)
\* a fault: EV_ENABLE is left out
TriggerKeepsOff(e) == interest

TriggerNotification(e) ==
  IF kqueue THEN [interest EXCEPT ![e].on = TRUE] ELSE interest

AskWrite(t) ==
  /\ At(t, {"run"})
  /\ guard[t].ev = Api
  /\ writer = Nothing
  /\ Free
  /\ writer' = t
  /\ notice' = TRUE
  /\ interest' = TriggerNotification(Yield)
  /\ Goto(t, "upgrade")
  /\ UNCHANGED <<kqueue, file, events, mutex, guard, svars, panics>>

(* stop_notification: the eventfd is read back to zero; a kqueue entry is  *)
(* turned off and stays triggered.                                         *)
StopEventfd(e) == notice' = FALSE /\ UNCHANGED interest

StopUserEvent(e) ==
  /\ interest' = [interest EXCEPT ![e].on = FALSE]
  /\ UNCHANGED notice

\* a fault: the read lock is released before the guard is dropped
BeginWriteEarly(t) ==
  /\ At(t, {"upgrade"})
  /\ \A u \in Threads \ {t} :
       At(u, {"out", "dead"}) \/ (At(u, {"drop"}) /\ guard[u].then = "leave")
  /\ Free
  /\ IF kqueue THEN StopUserEvent(Yield) ELSE StopEventfd(Yield)
  /\ Goto(t, "mut")
  /\ UNCHANGED <<kqueue, file, events, mutex, guard, svars, writer, panics>>

BeginWrite(t) ==
  /\ At(t, {"upgrade"})
  /\ \A u \in Threads \ {t} : At(u, {"out", "dead"})
  /\ Free
  /\ IF kqueue THEN StopUserEvent(Yield) ELSE StopEventfd(Yield)
  /\ Goto(t, "mut")
  /\ UNCHANGED <<kqueue, file, events, mutex, guard, svars, writer, panics>>

EndWrite(t) ==
  /\ At(t, {"mut", "changed"})
  /\ writer' = Nothing
  /\ Goto(t, "drop")
  /\ UNCHANGED <<kqueue, qvars, guard, svars, notice, panics>>

-----------------------------------------------------------------------------
(* The peer's connected socket.  The datagram handler connects it, and     *)
(* replaces it when the peer roams; the timer handler shuts it down when   *)
(* the connection has expired, a writer when the peer or the port changes. *)
(* Each works under the peer's mutex.  The handler then returns; further   *)
(* datagrams or peers of one run are further runs here.                    *)

LockPeer(t) ==
  /\ \/ At(t, {"run"}) /\ guard[t].ev \in {Udp, Timer}
     \/ At(t, {"mut"})
  /\ peer = Nothing
  /\ peer' = t
  /\ Goto(t, "peer")
  /\ UNCHANGED <<kqueue, qvars, guard, trigger, conn, shut, made, lvars, panics>>

UnlockPeer(t) ==
  /\ At(t, {"peer"})
  /\ peer' = Nothing
  /\ Goto(t, IF writer = t THEN "changed" ELSE "drop")
  /\ UNCHANGED <<kqueue, qvars, guard, trigger, conn, shut, made, lvars, panics>>

(* shutdown_endpoint, set_endpoint: conn.take() and shutdown; the clone is *)
(* closed when it goes out of scope, a step later.                         *)
Shutdown(t) ==
  /\ At(t, {"peer"})
  /\ conn # Nothing
  /\ shut' = shut \cup {file[conn]}
  /\ Goto(t, "close")
  /\ UNCHANGED <<kqueue, qvars, guard, trigger, conn, peer, made, lvars, panics>>

\* a fault: the Event is cleared here, by its descriptor, with the loop running
CloseConnClears(t) ==
  /\ At(t, {"close"})
  /\ Free
  /\ LET s == file[conn]
     IN /\ events' = [x \in Fds |-> IF events[x] = s THEN Nothing ELSE events[x]]
        /\ file' = [x \in Fds |-> IF file[x] = s THEN Nothing ELSE file[x]]
        /\ interest' = [interest EXCEPT ![s] = Unpolled]
  /\ conn' = Nothing
  /\ Goto(t, "peer")
  /\ UNCHANGED <<kqueue, mutex, guard, trigger, peer, shut, made, lvars, panics>>

CloseConn(t) ==
  /\ At(t, {"close"})
  /\ Close(conn)
  /\ conn' = Nothing
  /\ Goto(t, "peer")
  /\ UNCHANGED <<kqueue, events, mutex, guard, trigger, peer, shut, made, lvars, panics>>

(* connect_endpoint: a socket at any free descriptor (the rest of the      *)
(* process opens and closes descriptors too) and its clone at another.     *)
Connect(t) ==
  /\ At(t, {"peer"})
  /\ guard[t].ev = Udp
  /\ conn = Nothing
  /\ made < MaxSockets
  /\ made' = made + 1
  /\ \E x, y \in {z \in Fds : file[z] = Nothing} :
       /\ x # y
       /\ file' = [file EXCEPT ![x] = made', ![y] = made']
       /\ trigger' = [trigger EXCEPT ![made'] = x]
       /\ conn' = y
  /\ Goto(t, "insert")
  /\ UNCHANGED <<kqueue, events, interest, mutex, guard, peer, shut, lvars, panics>>

(* EPOLL_CTL_DEL, EV_DELETE: the entry of what the number refers to now.   *)
Delete(i, x) == IF file[x] = Nothing THEN i ELSE [i EXCEPT ![file[x]] = Unpolled]
Added(i, s) == [i EXCEPT ![s] = [ev |-> s, on |-> TRUE]]

(* insert_at, under the mutex.  The Event goes into the vector; one that   *)
(* is already at that index is disposed of.                                *)
InsertAt(t) ==
  LET s == made
      x == trigger[s]
  IN /\ At(t, {"insert"}) /\ ~kqueue
     /\ Free
     /\ interest' = IF events[x] = Nothing THEN interest ELSE Delete(interest, x)
     /\ events' = [events EXCEPT ![x] = s]
     /\ Goto(t, "add")
     /\ UNCHANGED <<kqueue, file, mutex, guard, svars, lvars, panics>>

(* register_event of epoll.rs: EPOLL_CTL_ADD comes after the mutex.        *)
RegisterEvent(t) ==
  /\ At(t, {"add"})
  /\ interest' = Added(interest, made)
  /\ Goto(t, "peer")
  /\ UNCHANGED <<kqueue, file, events, mutex, guard, svars, lvars, panics>>

(* register_event of kqueue.rs does it all under the mutex: EV_ADD first,  *)
(* then the disposal of an Event at that index.                            *)
RegisterKevent(t) ==
  LET s == made
      x == trigger[s]
  IN /\ At(t, {"insert"}) /\ kqueue
     /\ Free
     /\ interest' = IF events[x] = Nothing THEN Added(interest, s)
                    ELSE Delete(Added(interest, s), x)
     /\ events' = [events EXCEPT ![x] = s]
     /\ Goto(t, "peer")
     /\ UNCHANGED <<kqueue, file, mutex, guard, svars, lvars, panics>>

-----------------------------------------------------------------------------
(* End of file: EventGuard::cancel, that is clear_event_by_fd, and the     *)
(* guard is forgotten.  With epoll the taken Event is dropped before       *)
(* EPOLL_CTL_DEL, and its handler owns the socket: the descriptor is       *)
(* closed first.  The mutex is held over both.                             *)

\* a fault: the mutex is released before EPOLL_CTL_DEL
TakeEventUnlocks(t) ==
  LET x == trigger[guard[t].ev]
  IN /\ At(t, {"eof"}) /\ ~kqueue
     /\ Free
     /\ events' = [events EXCEPT ![x] = Nothing]
     /\ Close(x)
     /\ Goto(t, "del")
     /\ UNCHANGED <<kqueue, mutex, guard, svars, lvars, panics>>

TakeEvent(t) ==
  LET x == trigger[guard[t].ev]
  IN /\ At(t, {"eof"}) /\ ~kqueue
     /\ Free
     /\ mutex' = t
     /\ events' = [events EXCEPT ![x] = Nothing]
     /\ Close(x)
     /\ Goto(t, "del")
     /\ UNCHANGED <<kqueue, guard, svars, lvars, panics>>

ClearEventByFd(t) ==
  /\ At(t, {"del"}) /\ ~kqueue
  /\ interest' = Delete(interest, trigger[guard[t].ev])
  /\ mutex' = Nothing
  /\ guard' = [guard EXCEPT ![t] = NoGuard]
  /\ Goto(t, "wait")
  /\ UNCHANGED <<kqueue, file, events, svars, lvars, panics>>

(* kqueue.rs keeps the taken Event until EV_DELETE is done.                *)
TakeKevent(t) ==
  LET x == trigger[guard[t].ev]
  IN /\ At(t, {"eof"}) /\ kqueue
     /\ Free
     /\ mutex' = t
     /\ events' = [events EXCEPT ![x] = Nothing]
     /\ interest' = Delete(interest, x)
     /\ Goto(t, "del")
     /\ UNCHANGED <<kqueue, file, guard, svars, lvars, panics>>

ClearKeventByFd(t) ==
  /\ At(t, {"del"}) /\ kqueue
  /\ Close(trigger[guard[t].ev])
  /\ mutex' = Nothing
  /\ guard' = [guard EXCEPT ![t] = NoGuard]
  /\ Goto(t, "wait")
  /\ UNCHANGED <<kqueue, events, svars, lvars, panics>>

-----------------------------------------------------------------------------
Working(t) ==
  \/ EnterLoop(t)
  \/ Return(t) \/ Rearm(t)
  \/ LeaveLoop(t) \/ BeginWrite(t) \/ EndWrite(t)
  \/ UnlockPeer(t) \/ CloseConn(t)
  \/ InsertAt(t) \/ RegisterEvent(t) \/ RegisterKevent(t)
  \/ TakeEvent(t) \/ ClearEventByFd(t) \/ TakeKevent(t) \/ ClearKeventByFd(t)

Next ==
  \E t \in Threads :
    \/ \E f \in Files : Wait(t, f)
    \/ Working(t) \/ Panic(t)
    \/ AskWrite(t) \/ LockPeer(t) \/ Shutdown(t) \/ Connect(t)

(* A thread goes on with what it is doing and comes back to the loop; the  *)
(* kernel queues ready entries in turn, so that one that stays ready, or   *)
(* is ready again and again, is handed out.                                *)
Fairness ==
  /\ \A t \in Threads : WF_vars(Working(t))
  /\ \A f \in {Yield} \cup Sockets : SF_vars(\E t \in Threads : Wait(t, f))

Spec == Init /\ [][Next]_vars /\ Fairness

-----------------------------------------------------------------------------
Registered(e) == e \in Fixed \/ \E x \in Fds : events[x] = e
Holds(t, e) == guard[t].ev = e /\ ~At(t, {"del"})

(* A pointer that is used is the pointer of a live Event: what the kernel  *)
(* can hand out, and what a thread has a guard of, is still in the         *)
(* registry, whichever threads close, cancel and register sockets and      *)
(* whichever descriptors are used again meanwhile.                         *)
NoDangling ==
  /\ \A f \in Files : interest[f].on => Registered(interest[f].ev)
  /\ \A t \in Threads, e \in Files : Holds(t, e) => Registered(e)

(* No registration is lost: an Event in the registry can be handed out by  *)
(* the kernel, or a thread has its guard and will turn it on again, or the *)
(* thread that registers it is about to add it.  A deletion meant for a    *)
(* closed socket never takes the entry of one that got its number.         *)
NeverForgotten ==
  \A e \in Files \ {Yield} :
    Registered(e) =>
      \/ interest[e] = [ev |-> e, on |-> TRUE]
      \/ \E t \in Threads : Holds(t, e)
      \/ e = made /\ \E t \in Threads : At(t, {"add"})

(* Only one thread has a reference to the handler of an event that is not  *)
(* a notifier (the comment on new_event).                                  *)
OneHolder ==
  \A t, u \in Threads :
    t # u /\ guard[t].ev = guard[u].ev /\ guard[t].ev # Nothing
      => IsNotifier(guard[t].ev)

(* Once the writer has stopped the notifier it is not handed out again     *)
(* until the next write: no guard of it that is dropped late turns the     *)
(* kqueue entry, still triggered, on again.                                *)
Silenced ==
  (writer = Nothing \/ \E t \in Threads : At(t, {"mut", "peer", "close", "changed"}) /\ writer = t)
    => ~(interest[Yield].on /\ notice)

(* A socket that was shut down is closed and its Event released in the     *)
(* end, although only an end-of-file event tells the loop to do so.        *)
ShutIsClosed ==
  \A s \in Sockets :
    s \in shut ~> (~Registered(s) /\ \A x \in Fds : file[x] # s)

(* The notifier reaches every thread that is in the loop, whatever else is *)
(* ready: a thread that asks for the write lock gets it, the first time    *)
(* and after the notifier was stopped.                                     *)
WriterAdmitted == \A t \in Threads : At(t, {"upgrade"}) ~> At(t, {"mut"})

-----------------------------------------------------------------------------
(* The inductive invariant of module EventQueueProofs *)

Resting == {"out", "wait", "leave", "dead"}
WithPeer == {"peer", "close", "insert", "add"}
Places == Resting \cup WithPeer \cup {"run", "eof", "drop", "del", "upgrade", "mut", "changed"}

TypeOK ==
  /\ kqueue \in BOOLEAN /\ notice \in BOOLEAN
  /\ file \in [Fds -> Sockets \cup {Nothing}]
  /\ events \in [Fds -> Sockets \cup {Nothing}]
  /\ interest \in [Files -> [ev : Files \cup {Nothing}, on : BOOLEAN]]
  /\ pc \in [Threads -> Places]
  /\ guard \in [Threads -> [ev : Files \cup {Nothing}, then : Resting \ {"out"}]]
  /\ trigger \in [Sockets -> Fds \cup {Nothing}]
  /\ conn \in Fds \cup {Nothing}
  /\ {mutex, peer, writer} \subseteq Threads \cup {Nothing}
  /\ shut \subseteq Sockets
  /\ made \in 0 .. MaxSockets
  /\ panics \in Nat

(* Where a thread is says which guard it has, and which locks. *)
GuardIs ==
  \A t \in Threads :
    /\ guard[t].ev = Nothing <=> pc[t] \in Resting
    /\ pc[t] \in {"eof", "del"} => guard[t].ev \in Sockets
    /\ pc[t] \in {"upgrade", "mut", "changed"} => guard[t].ev = Api
    /\ pc[t] \in {"peer", "close"} => guard[t].ev \in {Udp, Timer, Api}
    /\ pc[t] \in {"insert", "add"} => guard[t].ev = Udp

LocksAre ==
  \A t \in Threads :
    /\ mutex = t <=> pc[t] = "del"
    /\ peer = t <=> pc[t] \in WithPeer
    /\ writer = t <=> \/ pc[t] \in {"upgrade", "mut", "changed"}
                      \/ pc[t] \in WithPeer /\ guard[t].ev = Api

(* The kernel's entry of a file names that file's Event; it is off while a *)
(* thread has the guard of the Event.                                      *)
EntryIs ==
  /\ \A f \in Files :
       /\ interest[f].ev \in {f, Nothing}
       /\ interest[f].on => interest[f].ev = f
       /\ f \in Fixed => interest[f].ev = f
       /\ f \in Sockets /\ f > made => interest[f].ev = Nothing
  /\ \A t \in Threads : guard[t].ev \notin {Nothing, Yield} => ~interest[guard[t].ev].on

(* A descriptor refers to a socket as the Event's own or as the peer's     *)
(* clone of the newest; the registry's index is the Event's descriptor.    *)
DescriptorIs ==
  /\ \A x \in Fds :
       /\ file[x] # Nothing => /\ file[x] <= made
                               /\ x = trigger[file[x]] \/ (x = conn /\ file[x] = made)
       /\ events[x] # Nothing => file[x] = events[x] /\ trigger[events[x]] = x
  /\ conn # Nothing => made \in Sockets /\ file[conn] = made /\ conn # trigger[made]
  /\ \A t \in Threads : pc[t] \in {"close", "insert", "add"} => conn # Nothing
  /\ \A s \in Sockets : s > made => trigger[s] = Nothing

(* An Event that a thread has, and does not delete, can be turned on.      *)
HeldIs ==
  \A t \in Threads : \A e \in Files :
    Holds(t, e) => Registered(e) /\ interest[e].ev = e

(* The socket that is being registered was never handed out.               *)
PendingIs ==
  \A t \in Threads :
    pc[t] \in {"insert", "add"} =>
      /\ trigger[made] \in Fds
      /\ file[trigger[made]] = made
      /\ interest[made].ev = Nothing
      /\ \A u \in Threads : guard[u].ev # made
      /\ events[trigger[made]] = IF pc[t] = "add" THEN made ELSE Nothing

(* The number of the Event that is being deleted is the Event's still      *)
(* (kqueue), or refers to nothing or to a socket that is not registered    *)
(* (epoll).                                                                *)
DeletedIs ==
  \A t \in Threads :
    pc[t] = "del" =>
      LET s == guard[t].ev
          x == trigger[s]
      IN /\ x \in Fds
         /\ ~Registered(s)
         /\ IF kqueue THEN file[x] = s /\ interest[s].ev = Nothing
            ELSE file[x] # Nothing =>
                   file[x] = made /\ \E u \in Threads : pc[u] = "insert"

(* The notifier can be handed out, or was, only to let a writer in.        *)
NoticeIs ==
  (interest[Yield].on /\ notice) \/ (\E t \in Threads : guard[t].ev = Yield)
    => \E u \in Threads : pc[u] = "upgrade"

QueueInv ==
  /\ TypeOK /\ GuardIs /\ LocksAre /\ EntryIs /\ DescriptorIs
  /\ HeldIs /\ PendingIs /\ DeletedIs /\ NoticeIs
  /\ OneHolder /\ NoDangling /\ NeverForgotten
=============================================================================
