-------------------------- MODULE EventQueueProofs --------------------------
(***************************************************************************)
(* The registry of events is safe to use, for any number of threads,       *)
(* descriptors and sockets, with either implementation.                    *)
(***************************************************************************)
EXTENDS EventQueue, TLAPS

Entry == [ev : Files \cup {Nothing}, on : BOOLEAN]

\* The events that are always registered, the sockets and Nothing are distinct.
LEMMA Names ==
  /\ Udp # Timer /\ Udp # Api /\ Udp # Yield /\ Timer # Api /\ Timer # Yield /\ Api # Yield
  /\ \A f \in {Udp, Timer, Api, Yield} : f \in Files /\ f \in Fixed /\ f \notin Sockets
  /\ \A s \in Sockets : s \in Files /\ s \notin Fixed /\ s # Yield /\ s # Nothing
  /\ Nothing \notin Files /\ Nothing \notin Threads /\ Nothing \notin Fds
BY EventQueueAssumption, Zenon DEF Files, Fixed

\* Turning an entry on or off, and storing an Event in it, leaves an entry.
LEMMA EntryTyped ==
  ASSUME interest \in [Files -> Entry], NEW f \in Files
  PROVE  /\ \A b \in BOOLEAN : [interest EXCEPT ![f].on = b] \in [Files -> Entry]
         /\ \A r \in Entry : [interest EXCEPT ![f] = r] \in [Files -> Entry]
         /\ \A e \in Files : [ev |-> e, on |-> TRUE] \in Entry
         /\ Unpolled \in Entry
<1>1. \A b \in BOOLEAN : [interest[f] EXCEPT !.on = b] \in Entry
  BY Zenon DEF Entry
<1>2. ASSUME NEW b \in BOOLEAN PROVE [interest EXCEPT ![f].on = b] \in [Files -> Entry]
  BY <1>1, Zenon
<1>3. \A r \in Entry : [interest EXCEPT ![f] = r] \in [Files -> Entry]
  BY Zenon
<1>4. \A e \in Files : [ev |-> e, on |-> TRUE] \in Entry
  BY Zenon DEF Entry
<1>5. Unpolled \in Entry
  BY Zenon DEF Entry, Unpolled
<1> QED BY <1>2, <1>3, <1>4, <1>5, Zenon
\* An entry that names no Event is the empty one: deleting it changes nothing.
LEMMA UnpolledIs ==
  ASSUME TypeOK, EntryIs, NEW f \in Files, interest[f].ev = Nothing
  PROVE  [interest EXCEPT ![f] = Unpolled] = interest
<1>1. interest[f] \in Entry /\ ~interest[f].on
  BY Names, SMT DEF TypeOK, EntryIs, Entry
<1>2. interest[f] = [ev |-> interest[f].ev, on |-> interest[f].on]
  BY <1>1, Zenon DEF Entry
<1>3. interest[f].on = FALSE
  BY <1>1, Zenon DEF Entry
<1>4. interest[f] = Unpolled
  BY <1>2, <1>3, Zenon DEF Unpolled
<1> QED BY <1>4, Zenon DEF TypeOK

\* The parts of the invariant.
LEMMA Parts ==
  QueueInv <=> /\ TypeOK /\ GuardIs /\ LocksAre /\ EntryIs /\ DescriptorIs /\ HeldIs
               /\ PendingIs /\ DeletedIs /\ NoticeIs /\ OneHolder /\ NoDangling /\ NeverForgotten
BY Zenon DEF QueueInv

-----------------------------------------------------------------------------
(***************************************************************************)
(* Steps that change neither registry nor descriptors, and of the kernel's *)
(* entries at most whether the notifier's is on.                           *)
(***************************************************************************)
LEMMA QuietKeeps ==
  ASSUME QueueInv, NEW t \in Threads, NEW p \in Places \ {"del", "insert", "add"},
         pc[t] \notin {"del", "insert", "add"},
         pc' = [pc EXCEPT ![t] = p],
         \A u \in Threads : guard'[u].ev = guard[u].ev,
         \A g \in Files : interest'[g].ev = interest[g].ev,
         \A g \in Files \ {Yield} : interest'[g] = interest[g],
         UNCHANGED <<kqueue, file, events, trigger, conn, made>>,
         p = "close" => conn # Nothing,
         TypeOK', GuardIs', LocksAre', NoticeIs'
  PROVE  QueueInv'
<1>0. TypeOK /\ GuardIs /\ LocksAre /\ EntryIs /\ DescriptorIs /\ HeldIs /\ PendingIs /\ DeletedIs
      /\ NoticeIs /\ OneHolder /\ NoDangling /\ NeverForgotten
  BY Parts, Zenon
<1>1. \A u \in Threads : \A q \in {"del", "insert", "add"} : pc'[u] = q <=> pc[u] = q
  BY <1>0, Zenon DEF TypeOK
<1>2. EntryIs'
  BY <1>0, Names DEF EntryIs, Files, TypeOK
<1>3. DescriptorIs'
  BY <1>0, <1>1, Zenon DEF DescriptorIs, TypeOK
<1>4. \A e \in Files : Registered(e)' <=> Registered(e)
  BY Zenon DEF Registered
<1>5. \A u \in Threads : \A e \in Files : Holds(u, e)' <=> Holds(u, e)
  BY <1>1, Zenon DEF Holds, At
<1>6. HeldIs'
  BY <1>0, <1>4, <1>5, Zenon DEF HeldIs
<1>7. PendingIs'
  <2> SUFFICES ASSUME NEW v \in Threads, pc'[v] \in {"insert", "add"}
               PROVE  /\ trigger[made] \in Fds
                      /\ file[trigger[made]] = made
                      /\ interest'[made].ev = Nothing
                      /\ \A u \in Threads : guard[u].ev # made
                      /\ events[trigger[made]] = IF pc'[v] = "add" THEN made ELSE Nothing
    BY Zenon DEF PendingIs
  <2>1. pc'[v] = pc[v] /\ made \in Sockets
    BY <1>0, <1>1, Zenon DEF DescriptorIs
  <2> QED BY <1>0, <2>1, Names, Zenon DEF PendingIs
<1>8. DeletedIs'
  <2> SUFFICES ASSUME NEW v \in Threads, pc'[v] = "del"
               PROVE  LET s == guard[v].ev
                          x == trigger[s]
                      IN /\ x \in Fds
                         /\ ~Registered(s)'
                         /\ IF kqueue THEN file[x] = s /\ interest'[s].ev = Nothing
                            ELSE file[x] # Nothing =>
                                   file[x] = made /\ \E u \in Threads : pc'[u] = "insert"
    BY Zenon DEF DeletedIs
  <2>1. pc[v] = "del" /\ guard[v].ev \in Sockets
    BY <1>0, <1>1, Zenon DEF GuardIs
  <2>2. (\E u \in Threads : pc[u] = "insert") => \E u \in Threads : pc'[u] = "insert"
    BY <1>1, Zenon
  <2> QED BY <1>0, <1>4, <2>1, <2>2, Names DEF DeletedIs
<1>9. OneHolder'
  BY <1>0 DEF OneHolder, IsNotifier
<1>10. NoDangling'
  <2>1. ASSUME NEW g \in Files, interest'[g].on PROVE Registered(interest[g].ev)'
    <3>1. interest'[g].ev = g
      BY <1>2, <2>1, Zenon DEF EntryIs
    <3>2. CASE g = Yield
      BY <3>1, <3>2, Names, Zenon DEF Registered
    <3>3. CASE g # Yield
      BY <1>0, <1>4, <2>1, <3>1, <3>3, Zenon DEF NoDangling
    <3> QED BY <3>2, <3>3, Zenon
  <2> QED BY <1>0, <1>4, <1>5, <2>1, Zenon DEF NoDangling
<1>11. NeverForgotten'
  <2> SUFFICES ASSUME NEW e \in Files \ {Yield}, Registered(e)'
               PROVE  \/ interest'[e] = [ev |-> e, on |-> TRUE]
                      \/ \E u \in Threads : Holds(u, e)'
                      \/ e = made' /\ \E u \in Threads : At(u, {"add"})'
    BY Zenon DEF NeverForgotten
  <2>1. \A u \in Threads : At(u, {"add"}) => At(u, {"add"})'
    BY <1>1, Zenon DEF At
  <2> QED BY <1>0, <1>4, <1>5, <2>1, Zenon DEF NeverForgotten
<1> QED BY <1>2, <1>3, <1>6, <1>7, <1>8, <1>9, <1>10, <1>11, Zenon DEF QueueInv

\* A handler that returns keeps its guard until the drop.
LEMMA ReturnKeeps ==
  ASSUME QueueInv, NEW t \in Threads, Return(t)
  PROVE  QueueInv'
<1>0. TypeOK /\ GuardIs /\ LocksAre /\ NoticeIs
  BY Parts, Zenon
<1>1. /\ pc[t] = "run" /\ pc' = [pc EXCEPT ![t] = "drop"]
      /\ UNCHANGED <<kqueue, qvars, svars, lvars, panics>>
  BY Zenon DEF Return, At, Goto
<1>2. PICK w \in {"leave", "wait"} : guard' = [guard EXCEPT ![t].then = w]
  BY Zenon DEF Return
<1>3. TypeOK' /\ \A u \in Threads : guard'[u].ev = guard[u].ev
  BY <1>0, <1>1, <1>2 DEF TypeOK, Places, Resting, qvars, svars, lvars
<1>4. GuardIs'
  BY <1>0, <1>1, <1>3, Zenon DEF GuardIs, TypeOK, Resting
<1>5. LocksAre'
  BY <1>0, <1>1, <1>3 DEF LocksAre, TypeOK, WithPeer, qvars, svars, lvars
<1>6. NoticeIs'
  BY <1>0, <1>1, <1>3, Zenon DEF NoticeIs, TypeOK, qvars, lvars
<1> QED BY <1>1, <1>3, <1>4, <1>5, <1>6, QuietKeeps, Zenon DEF Places, qvars, svars

\* A handler that panics keeps its guard until the drop, and the peer's lock no longer.
LEMMA PanicKeeps ==
  ASSUME QueueInv, NEW t \in Threads, Panic(t)
  PROVE  QueueInv'
<1>0. TypeOK /\ GuardIs /\ LocksAre /\ NoticeIs
  BY Parts, Zenon
<1>1. /\ pc[t] \in {"run", "peer"} /\ writer # t /\ pc' = [pc EXCEPT ![t] = "drop"]
      /\ guard' = [guard EXCEPT ![t].then = "dead"] /\ panics' = panics + 1
      /\ peer' = IF pc[t] = "peer" THEN Nothing ELSE peer
      /\ UNCHANGED <<kqueue, qvars, trigger, conn, shut, made, lvars>>
  BY Zenon DEF Panic, At, Goto
<1>2. TypeOK' /\ \A u \in Threads : guard'[u].ev = guard[u].ev
  BY <1>0, <1>1 DEF TypeOK, Places, Resting, qvars, lvars
<1>3. GuardIs'
  BY <1>0, <1>1, <1>2, Zenon DEF GuardIs, TypeOK, Resting
<1>4. LocksAre'
  <2>1. /\ pc'[t] = "drop" /\ \A u \in Threads \ {t} : pc'[u] = pc[u]
        /\ mutex' = mutex /\ writer' = writer
    BY <1>0, <1>1, Zenon DEF TypeOK, qvars, lvars
  <2>2. \A u \in Threads : peer' = u <=> pc'[u] \in WithPeer
    BY <1>0, <1>1, <2>1, Names DEF LocksAre, WithPeer
  <2>3. \A u \in Threads : mutex' = u <=> pc'[u] = "del"
    BY <1>0, <1>1, <2>1 DEF LocksAre
  <2>4. \A u \in Threads :
          writer' = u <=> \/ pc'[u] \in {"upgrade", "mut", "changed"}
                          \/ pc'[u] \in WithPeer /\ guard'[u].ev = Api
    BY <1>0, <1>1, <1>2, <2>1 DEF LocksAre, WithPeer
  <2> QED BY <2>2, <2>3, <2>4, Zenon DEF LocksAre
<1>5. NoticeIs'
  BY <1>0, <1>1, <1>2, Zenon DEF NoticeIs, TypeOK, qvars, lvars
<1> QED BY <1>1, <1>2, <1>3, <1>4, <1>5, QuietKeeps, Zenon DEF Places, qvars

\* A thread enters and leaves the loop without a guard.
LEMMA LoopKeeps ==
  ASSUME QueueInv, NEW t \in Threads, EnterLoop(t) \/ LeaveLoop(t)
  PROVE  QueueInv'
<1>0. TypeOK /\ GuardIs /\ LocksAre /\ NoticeIs
  BY Parts, Zenon
<1>1. /\ pc[t] \in {"out", "leave"}
      /\ UNCHANGED <<kqueue, qvars, guard, svars, lvars, panics>>
  BY Zenon DEF EnterLoop, LeaveLoop, At, Goto
<1>2. PICK p \in {"wait", "out"} : pc' = [pc EXCEPT ![t] = p]
  BY Zenon DEF EnterLoop, LeaveLoop, Goto
<1>3. TypeOK'
  BY <1>0, <1>1, <1>2, Zenon DEF TypeOK, Places, Resting, qvars, svars, lvars
<1>4. GuardIs'
  BY <1>0, <1>1, <1>2, Zenon DEF GuardIs, TypeOK, Resting
<1>5. LocksAre'
  BY <1>0, <1>1, <1>2, Zenon DEF LocksAre, TypeOK, WithPeer, qvars, svars, lvars
<1>6. NoticeIs'
  BY <1>0, <1>1, <1>2, Zenon DEF NoticeIs, TypeOK, qvars, lvars
<1> QED BY <1>1, <1>2, <1>3, <1>4, <1>5, <1>6, QuietKeeps, Zenon DEF Places, Resting, qvars, svars

\* The first step of try_writeable triggers the notifier for its writer.
LEMMA AskWriteKeeps ==
  ASSUME QueueInv, NEW t \in Threads, AskWrite(t)
  PROVE  QueueInv'
<1>0. TypeOK /\ GuardIs /\ LocksAre /\ EntryIs
  BY Parts, Zenon
<1>1. /\ pc[t] = "run" /\ guard[t].ev = Api /\ writer = Nothing
      /\ pc' = [pc EXCEPT ![t] = "upgrade"] /\ writer' = t /\ notice' = TRUE
      /\ UNCHANGED <<kqueue, file, events, mutex, guard, svars, panics>>
  BY Zenon DEF AskWrite, At, Goto
<1>2. interest' = interest \/ interest' = [interest EXCEPT ![Yield].on = TRUE]
  BY Zenon DEF AskWrite, TriggerNotification
<1>3. /\ \A g \in Files : interest'[g].ev = interest[g].ev
      /\ \A g \in Files \ {Yield} : interest'[g] = interest[g]
  BY <1>0, <1>2, Names, SMTT(30) DEF TypeOK
<1>4. TypeOK'
  <2>0. Yield \in Files /\ interest \in [Files -> Entry]
    BY <1>0, Names, Zenon DEF TypeOK, Entry
  <2>1. interest' \in [Files -> Entry]
    BY <1>2, <2>0, EntryTyped, Zenon
  <2>2. notice' \in BOOLEAN
    BY <1>1, Zenon
  <2> QED BY <1>0, <1>1, <2>1, <2>2, Zenon DEF TypeOK, Places, Entry, svars
<1>5. GuardIs'
  BY <1>0, <1>1, Zenon DEF GuardIs, TypeOK, Resting
<1>6. LocksAre'
  BY <1>0, <1>1, Names, Zenon DEF LocksAre, TypeOK, WithPeer, svars
<1>7. NoticeIs'
  BY <1>0, <1>1, Zenon DEF NoticeIs, TypeOK
<1> QED BY <1>1, <1>3, <1>4, <1>5, <1>6, <1>7, QuietKeeps, Zenon DEF Places, svars

\* The writer goes on when no other thread is left that could drop a guard of
\* the notifier late.
LEMMA BeginWriteKeeps ==
  ASSUME QueueInv, NEW t \in Threads, BeginWrite(t)
  PROVE  QueueInv'
<1>0. TypeOK /\ GuardIs /\ LocksAre /\ EntryIs
  BY Parts, Zenon
<1>1. /\ pc[t] = "upgrade" /\ \A u \in Threads \ {t} : pc[u] \in {"out", "dead"}
      /\ pc' = [pc EXCEPT ![t] = "mut"]
      /\ UNCHANGED <<kqueue, file, events, mutex, guard, svars, writer, panics>>
  BY Zenon DEF BeginWrite, At, Goto
<1>2. \/ interest' = [interest EXCEPT ![Yield].on = FALSE] /\ notice' = notice
      \/ interest' = interest /\ notice' = FALSE
  BY Zenon DEF BeginWrite, StopUserEvent, StopEventfd
<1>3. /\ \A g \in Files : interest'[g].ev = interest[g].ev
      /\ \A g \in Files \ {Yield} : interest'[g] = interest[g]
      /\ ~(interest'[Yield].on /\ notice')
  <2>1. CASE interest' = [interest EXCEPT ![Yield].on = FALSE]
    BY <1>0, <2>1, Names DEF TypeOK
  <2>2. CASE interest' = interest /\ notice' = FALSE
    BY <2>2, Zenon
  <2> QED BY <1>2, <2>1, <2>2, Zenon
<1>4. TypeOK'
  <2>0. Yield \in Files /\ interest \in [Files -> Entry]
    BY <1>0, Names, Zenon DEF TypeOK, Entry
  <2>1. interest' \in [Files -> Entry]
    BY <1>2, <2>0, EntryTyped, Zenon
  <2>2. notice' \in BOOLEAN
    BY <1>0, <1>2, Zenon DEF TypeOK
  <2> QED BY <1>0, <1>1, <2>1, <2>2, Zenon DEF TypeOK, Places, Entry, svars
<1>5. GuardIs'
  BY <1>0, <1>1, Zenon DEF GuardIs, TypeOK, Resting
<1>6. LocksAre'
  BY <1>0, <1>1, Zenon DEF LocksAre, TypeOK, WithPeer, svars
<1>7. NoticeIs'
  <2>1. \A u \in Threads : guard'[u].ev # Yield
    BY <1>0, <1>1, Names, Zenon DEF GuardIs, Resting
  <2> QED BY <1>3, <2>1, Zenon DEF NoticeIs
<1> QED BY <1>1, <1>3, <1>4, <1>5, <1>6, <1>7, QuietKeeps, Zenon DEF Places, svars

\* The write lock is released before the configuration event's guard.
LEMMA EndWriteKeeps ==
  ASSUME QueueInv, NEW t \in Threads, EndWrite(t)
  PROVE  QueueInv'
<1>0. TypeOK /\ GuardIs /\ LocksAre /\ NoticeIs
  BY Parts, Zenon
<1>1. /\ pc[t] \in {"mut", "changed"} /\ pc' = [pc EXCEPT ![t] = "drop"] /\ writer' = Nothing
      /\ UNCHANGED <<kqueue, qvars, guard, svars, notice, panics>>
  BY Zenon DEF EndWrite, At, Goto
<1>2. writer = t
  BY <1>0, <1>1, Zenon DEF LocksAre
<1>3. TypeOK'
  BY <1>0, <1>1, Zenon DEF TypeOK, Places, qvars, svars
<1>4. GuardIs'
  BY <1>0, <1>1, Zenon DEF GuardIs, TypeOK, Resting
<1>5. LocksAre'
  BY <1>0, <1>1, <1>2, Names, Zenon DEF LocksAre, TypeOK, WithPeer, qvars, svars
<1>6. NoticeIs'
  BY <1>0, <1>1, Zenon DEF NoticeIs, TypeOK, qvars
<1> QED BY <1>1, <1>3, <1>4, <1>5, <1>6, QuietKeeps, Zenon DEF Places, qvars, svars

\* The peer's mutex is taken by a handler, or by the writer.
LEMMA LockPeerKeeps ==
  ASSUME QueueInv, NEW t \in Threads, LockPeer(t)
  PROVE  QueueInv'
<1>0. TypeOK /\ GuardIs /\ LocksAre /\ NoticeIs
  BY Parts, Zenon
<1>1. /\ \/ pc[t] = "run" /\ guard[t].ev \in {Udp, Timer}
         \/ pc[t] = "mut"
      /\ pc' = [pc EXCEPT ![t] = "peer"] /\ peer = Nothing /\ peer' = t
      /\ UNCHANGED <<kqueue, qvars, guard, trigger, conn, shut, made, lvars, panics>>
  BY Zenon DEF LockPeer, At, Goto
<1>2. TypeOK'
  BY <1>0, <1>1, Zenon DEF TypeOK, Places, WithPeer, qvars, lvars
<1>3. GuardIs'
  BY <1>0, <1>1, Zenon DEF GuardIs, TypeOK, Resting
<1>4. LocksAre'
  BY <1>0, <1>1, Names DEF LocksAre, GuardIs, TypeOK, WithPeer, qvars, lvars
<1>5. NoticeIs'
  BY <1>0, <1>1, Zenon DEF NoticeIs, TypeOK, qvars, lvars
<1> QED BY <1>1, <1>2, <1>3, <1>4, <1>5, QuietKeeps, Zenon DEF Places, WithPeer, qvars

\* The peer's mutex is released; the writer goes on with its write.
LEMMA UnlockPeerKeeps ==
  ASSUME QueueInv, NEW t \in Threads, UnlockPeer(t)
  PROVE  QueueInv'
<1>0. TypeOK /\ GuardIs /\ LocksAre /\ NoticeIs
  BY Parts, Zenon
<1>1. /\ pc[t] = "peer" /\ peer' = Nothing
      /\ UNCHANGED <<kqueue, qvars, guard, trigger, conn, shut, made, lvars, panics>>
  BY Zenon DEF UnlockPeer, At, Goto
<1>2. PICK p \in {"changed", "drop"} :
         pc' = [pc EXCEPT ![t] = p] /\ (p = "changed" <=> writer = t)
  BY Zenon DEF UnlockPeer, Goto
<1>3. peer = t /\ (writer = t <=> guard[t].ev = Api)
  BY <1>0, <1>1, Zenon DEF LocksAre, WithPeer
<1>4. TypeOK'
  BY <1>0, <1>1, <1>2, Zenon DEF TypeOK, Places, qvars, lvars
<1>5. GuardIs'
  BY <1>0, <1>1, <1>2, <1>3, Zenon DEF GuardIs, TypeOK, Resting
<1>6. LocksAre'
  BY <1>0, <1>1, <1>2, <1>3, Names, Zenon DEF LocksAre, TypeOK, WithPeer, qvars, lvars
<1>7. NoticeIs'
  BY <1>0, <1>1, <1>2, Zenon DEF NoticeIs, TypeOK, qvars, lvars
<1> QED BY <1>1, <1>2, <1>4, <1>5, <1>6, <1>7, QuietKeeps, Zenon DEF Places, qvars

\* Shutting the connected socket down touches neither registry nor entries.
LEMMA ShutdownKeeps ==
  ASSUME QueueInv, NEW t \in Threads, Shutdown(t)
  PROVE  QueueInv'
<1>0. TypeOK /\ GuardIs /\ LocksAre /\ NoticeIs /\ DescriptorIs
  BY Parts, Zenon
<1>1. /\ pc[t] = "peer" /\ pc' = [pc EXCEPT ![t] = "close"] /\ conn # Nothing
      /\ shut' = shut \cup {file[conn]}
      /\ UNCHANGED <<kqueue, qvars, guard, trigger, conn, peer, made, lvars, panics>>
  BY Zenon DEF Shutdown, At, Goto
<1>2. file[conn] \in Sockets
  BY <1>0, <1>1, Zenon DEF DescriptorIs
<1>3. TypeOK'
  <2>1. shut' \subseteq Sockets
    BY <1>0, <1>1, <1>2, Zenon DEF TypeOK
  <2> QED BY <1>0, <1>1, <2>1, Zenon DEF TypeOK, Places, WithPeer, qvars, lvars
<1>4. GuardIs'
  BY <1>0, <1>1, Zenon DEF GuardIs, TypeOK, Resting
<1>5. LocksAre'
  BY <1>0, <1>1, Zenon DEF LocksAre, TypeOK, WithPeer, qvars, lvars
<1>6. NoticeIs'
  BY <1>0, <1>1, Zenon DEF NoticeIs, TypeOK, qvars, lvars
<1> QED BY <1>1, <1>3, <1>4, <1>5, <1>6, QuietKeeps, Zenon DEF Places, WithPeer, qvars

-----------------------------------------------------------------------------
(***************************************************************************)
(* EventPoll::wait: the entry is on, so no thread has a guard of its Event *)
(* and the Event is in the registry; a one-shot entry goes off with it.    *)
(***************************************************************************)
LEMMA WaitKeeps ==
  ASSUME QueueInv, NEW t \in Threads, NEW f \in Files, Wait(t, f)
  PROVE  QueueInv'
<1>0. TypeOK /\ GuardIs /\ LocksAre /\ EntryIs /\ DescriptorIs /\ HeldIs /\ PendingIs /\ DeletedIs
      /\ NoticeIs /\ OneHolder /\ NoDangling /\ NeverForgotten
  BY Parts, Zenon
<1>1. /\ interest[f].on /\ interest[f].ev = f /\ Registered(f)
      /\ pc[t] = "wait" /\ guard[t].ev = Nothing /\ (f = Yield => notice)
  BY <1>0, Zenon DEF Wait, At, EntryIs, NoDangling, GuardIs, Resting, Ready
<1>2. /\ guard' = [guard EXCEPT ![t] = [ev |-> f, then |-> "wait"]]
      /\ UNCHANGED <<kqueue, file, events, mutex, svars, lvars, panics>>
  BY <1>1, Zenon DEF Wait
<1>3. PICK p \in {"eof", "run"} :
         pc' = [pc EXCEPT ![t] = p] /\ (p = "eof" => f \in Sockets)
  BY <1>0, Zenon DEF Wait, Goto, TypeOK
<1>4. interest' = IF f = Yield THEN interest ELSE [interest EXCEPT ![f].on = FALSE]
  BY <1>1, Zenon DEF Wait, Fire, IsNotifier
<1>5. /\ \A g \in Files : interest'[g].ev = interest[g].ev
      /\ \A g \in Files \ {f} : interest'[g] = interest[g]
      /\ f # Yield => ~interest'[f].on
  BY <1>0, <1>4, Zenon DEF TypeOK
<1>6. /\ guard'[t].ev = f
      /\ \A u \in Threads \ {t} : guard'[u] = guard[u]
      /\ \A u \in Threads \ {t} : pc'[u] = pc[u]
      /\ pc'[t] = p
  BY <1>0, <1>2, <1>3, Zenon DEF TypeOK
<1>7. \A u \in Threads : f # Yield => guard[u].ev # f
  BY <1>0, <1>1, Names, Zenon DEF EntryIs
<1>8. TypeOK'
  <2>1. interest \in [Files -> Entry]
    BY <1>0, Zenon DEF TypeOK, Entry
  <2>2. interest' \in [Files -> Entry]
    BY <1>4, <2>1, EntryTyped, Zenon
  <2> QED BY <1>0, <1>2, <1>3, <2>2, Zenon DEF TypeOK, Places, Resting, Entry, svars, lvars
<1>9. GuardIs'
  BY <1>0, <1>3, <1>6, Names DEF GuardIs, Resting
<1>10. LocksAre'
  BY <1>0, <1>1, <1>2, <1>3, <1>6, Names DEF LocksAre, TypeOK, WithPeer, svars, lvars
<1>11. EntryIs'
  <2>1. ASSUME NEW g \in Files
        PROVE  /\ interest'[g].ev \in {g, Nothing}
               /\ interest'[g].on => interest'[g].ev = g
               /\ g \in Fixed => interest'[g].ev = g
               /\ g \in Sockets /\ g > made' => interest'[g].ev = Nothing
    BY <1>0, <1>1, <1>2, <1>5, ZenonT(30) DEF EntryIs, svars
  <2>2. ASSUME NEW u \in Threads, guard'[u].ev \notin {Nothing, Yield}
        PROVE  ~interest'[guard'[u].ev].on
    <3>1. CASE u = t
      BY <1>5, <1>6, <2>2, <3>1, Zenon
    <3>2. CASE u # t
      <4>1. guard'[u].ev = guard[u].ev /\ guard[u].ev \in Files
        BY <1>0, <1>6, <2>2, <3>2 DEF TypeOK
      <4>2. CASE guard[u].ev = f
        BY <1>5, <2>2, <4>1, <4>2, Zenon
      <4>3. CASE guard[u].ev # f
        BY <1>0, <1>5, <2>2, <4>1, <4>3 DEF EntryIs
      <4> QED BY <4>2, <4>3, Zenon
    <3> QED BY <3>1, <3>2, Zenon
  <2> QED BY <2>1, <2>2, Zenon DEF EntryIs
<1>12. DescriptorIs'
  BY <1>0, <1>2, <1>3, <1>6, Zenon DEF DescriptorIs, TypeOK, svars
<1>13. \A e \in Files : Registered(e)' <=> Registered(e)
  BY <1>2, Zenon DEF Registered
<1>14. HeldIs'
  BY <1>0, <1>1, <1>5, <1>6, <1>13 DEF HeldIs, Holds, At
<1>15. PendingIs'
  <2> SUFFICES ASSUME NEW v \in Threads, pc'[v] \in {"insert", "add"}
               PROVE  /\ trigger[made] \in Fds
                      /\ file[trigger[made]] = made
                      /\ interest'[made].ev = Nothing
                      /\ \A u \in Threads : guard'[u].ev # made
                      /\ events[trigger[made]] = IF pc'[v] = "add" THEN made ELSE Nothing
    BY <1>2, Zenon DEF PendingIs, svars
  <2>1. pc'[v] = pc[v] /\ made \in Files
    BY <1>0, <1>3, <1>6, Names DEF DescriptorIs
  <2>2. interest[made].ev = Nothing /\ made # f
    BY <1>0, <1>1, <2>1, Names, Zenon DEF PendingIs
  <2> QED BY <1>0, <1>5, <1>6, <2>1, <2>2, Zenon DEF PendingIs
<1>16. DeletedIs'
  BY <1>0, <1>1, <1>2, <1>3, <1>5, <1>6, <1>13, Names DEF DeletedIs, GuardIs, svars
<1>17. NoticeIs'
  BY <1>0, <1>1, <1>2, <1>5, <1>6, <1>3, Names DEF NoticeIs, lvars
<1>18. OneHolder'
  BY <1>0, <1>6, <1>7, ZenonT(30) DEF OneHolder, IsNotifier
<1>19. NoDangling'
  BY <1>0, <1>1, <1>5, <1>6, <1>11, <1>13 DEF NoDangling, EntryIs, Holds, At
<1>20. NeverForgotten'
  <2> SUFFICES ASSUME NEW e \in Files \ {Yield}, Registered(e)'
               PROVE  \/ interest'[e] = [ev |-> e, on |-> TRUE]
                      \/ \E u \in Threads : Holds(u, e)'
                      \/ e = made' /\ \E u \in Threads : At(u, {"add"})'
    BY Zenon DEF NeverForgotten
  <2>1. CASE e = f
    <3>1. Holds(t, e)'
      BY <1>3, <1>6, <2>1, Zenon DEF Holds, At
    <3> QED BY <3>1, Zenon
  <2>2. CASE e # f
    <3>1. \A u \in Threads : (Holds(u, e) => Holds(u, e)') /\ (At(u, {"add"}) => At(u, {"add"})')
      BY <1>1, <1>6, Names, Zenon DEF Holds, At
    <3>2. interest'[e] = interest[e] /\ made' = made
      BY <1>2, <1>5, <2>2, Zenon DEF svars
    <3> QED BY <1>0, <1>13, <3>1, <3>2, Zenon DEF NeverForgotten
  <2> QED BY <2>1, <2>2, Zenon
<1> QED BY <1>8, <1>9, <1>10, <1>11, <1>12, <1>14, <1>15, <1>16, <1>17, <1>18, <1>19, <1>20, Zenon DEF QueueInv

(***************************************************************************)
(* EventGuard::drop: the Event is in the registry, so its descriptor still *)
(* refers to its file, and it is this file's entry that is turned on.      *)
(***************************************************************************)
LEMMA RearmKeeps ==
  ASSUME QueueInv, NEW t \in Threads, Rearm(t)
  PROVE  QueueInv'
<1>0. TypeOK /\ GuardIs /\ LocksAre /\ EntryIs /\ DescriptorIs /\ HeldIs /\ PendingIs /\ DeletedIs
      /\ NoticeIs /\ OneHolder /\ NoDangling /\ NeverForgotten
  BY Parts, Zenon
<1>1. PICK e \in Files : e = guard[t].ev
  BY <1>0, Zenon DEF Rearm, At, GuardIs, TypeOK, Resting
<1>2. pc[t] = "drop" /\ Registered(e) /\ interest[e].ev = e
  BY <1>0, <1>1, Zenon DEF Rearm, At, HeldIs, Holds
<1>3. FileOf(e) = e
  <2>1. CASE e \in Fixed
    BY <2>1, Zenon DEF FileOf
  <2>2. CASE e \notin Fixed
    <3>1. PICK x \in Fds : events[x] = e
      BY <1>2, <2>2, Zenon DEF Registered
    <3>2. file[x] = e /\ trigger[e] = x
      BY <1>0, <3>1, Names, Zenon DEF DescriptorIs
    <3> QED BY <2>2, <3>2, Zenon DEF FileOf
  <2> QED BY <2>1, <2>2, Zenon
<1>4. /\ interest' = [interest EXCEPT ![e] = [ev |-> e, on |-> TRUE]]
      /\ guard' = [guard EXCEPT ![t] = NoGuard]
      /\ UNCHANGED <<kqueue, file, events, mutex, svars, lvars, panics>>
  BY <1>1, <1>2, <1>3, Names, Zenon DEF Rearm, EnableInterest
<1>5. PICK p \in Resting \ {"out"} : pc' = [pc EXCEPT ![t] = p]
  BY <1>0, Zenon DEF Rearm, Goto, TypeOK
<1>6. /\ \A g \in Files : interest'[g].ev = interest[g].ev
      /\ \A g \in Files \ {e} : interest'[g] = interest[g]
      /\ interest'[e] = [ev |-> e, on |-> TRUE]
  BY <1>0, <1>2, <1>4, Zenon DEF TypeOK
<1>7. /\ guard'[t].ev = Nothing
      /\ \A u \in Threads \ {t} : guard'[u] = guard[u] /\ pc'[u] = pc[u]
      /\ pc'[t] = p
  BY <1>0, <1>4, <1>5, Zenon DEF TypeOK, NoGuard
<1>8. \A u \in Threads \ {t} : e # Yield => guard[u].ev # e
  BY <1>0, <1>1, Names, Zenon DEF OneHolder, IsNotifier
<1>9. TypeOK'
  <2>1. interest \in [Files -> Entry]
    BY <1>0, Zenon DEF TypeOK, Entry
  <2>2. interest' \in [Files -> Entry]
    BY <1>4, <2>1, EntryTyped, Zenon
  <2> QED BY <1>0, <1>4, <1>5, <2>2, Zenon DEF TypeOK, Places, Resting, Entry, NoGuard, svars, lvars
<1>10. GuardIs'
  BY <1>0, <1>5, <1>7, Zenon DEF GuardIs, Resting
<1>11. LocksAre'
  BY <1>0, <1>2, <1>4, <1>5, <1>7, Names DEF LocksAre, WithPeer, Resting, svars, lvars
<1>12. EntryIs'
  <2>1. ASSUME NEW g \in Files
        PROVE  /\ interest'[g].ev \in {g, Nothing}
               /\ interest'[g].on => interest'[g].ev = g
               /\ g \in Fixed => interest'[g].ev = g
               /\ g \in Sockets /\ g > made' => interest'[g].ev = Nothing
    BY <1>0, <1>2, <1>4, <1>6 DEF EntryIs, svars
  <2>2. ASSUME NEW u \in Threads, guard'[u].ev \notin {Nothing, Yield}
        PROVE  ~interest'[guard'[u].ev].on
    <3>1. u # t /\ guard'[u].ev = guard[u].ev /\ guard[u].ev \in Files
      BY <1>0, <1>7, <2>2 DEF TypeOK
    <3>2. guard[u].ev # e
      BY <1>8, <2>2, <3>1, Zenon
    <3> QED BY <1>0, <1>6, <2>2, <3>1, <3>2 DEF EntryIs
  <2> QED BY <2>1, <2>2, Zenon DEF EntryIs
<1>13. DescriptorIs'
  BY <1>0, <1>4, <1>5, <1>7, Zenon DEF DescriptorIs, Resting, svars
<1>14. \A g \in Files : Registered(g)' <=> Registered(g)
  BY <1>4, Zenon DEF Registered
<1>15. HeldIs'
  BY <1>0, <1>6, <1>7, <1>14, Names DEF HeldIs, Holds, At
<1>16. PendingIs'
  <2> SUFFICES ASSUME NEW v \in Threads, pc'[v] \in {"insert", "add"}
               PROVE  /\ trigger[made] \in Fds
                      /\ file[trigger[made]] = made
                      /\ interest'[made].ev = Nothing
                      /\ \A u \in Threads : guard'[u].ev # made
                      /\ events[trigger[made]] = IF pc'[v] = "add" THEN made ELSE Nothing
    BY <1>4, Zenon DEF PendingIs, svars
  <2>1. pc'[v] = pc[v] /\ made \in Files
    BY <1>0, <1>5, <1>7, Names DEF DescriptorIs, Resting
  <2> QED BY <1>0, <1>6, <1>7, <2>1, Names, ZenonT(30) DEF PendingIs
<1>17. DeletedIs'
  BY <1>0, <1>2, <1>4, <1>5, <1>6, <1>7, <1>14, Names, SMTT(30) DEF DeletedIs, GuardIs, Resting, svars
<1>18. NoticeIs'
  BY <1>0, <1>1, <1>2, <1>4, <1>6, <1>7, Names DEF NoticeIs, lvars
<1>19. OneHolder'
  BY <1>0, <1>7, Zenon DEF OneHolder, IsNotifier
<1>20. NoDangling'
  BY <1>0, <1>2, <1>6, <1>12, <1>14, <1>15 DEF NoDangling, EntryIs, HeldIs
<1>21. NeverForgotten'
  <2> SUFFICES ASSUME NEW g \in Files \ {Yield}, Registered(g)'
               PROVE  \/ interest'[g] = [ev |-> g, on |-> TRUE]
                      \/ \E u \in Threads : Holds(u, g)'
                      \/ g = made' /\ \E u \in Threads : At(u, {"add"})'
    BY Zenon DEF NeverForgotten
  <2>1. CASE g = e
    BY <1>6, <2>1, Zenon
  <2>2. CASE g # e
    <3>1. \A u \in Threads : (Holds(u, g) => Holds(u, g)') /\ (At(u, {"add"}) => At(u, {"add"})')
      BY <1>1, <1>2, <1>7, <2>2, Zenon DEF Holds, At
    <3>2. interest'[g] = interest[g] /\ made' = made
      BY <1>4, <1>6, <2>2, Zenon DEF svars
    <3> QED BY <1>0, <1>14, <3>1, <3>2, Zenon DEF NeverForgotten
  <2> QED BY <2>1, <2>2, Zenon
<1> QED BY <1>9, <1>10, <1>11, <1>12, <1>13, <1>15, <1>16, <1>17, <1>18, <1>19, <1>20, <1>21, Zenon DEF QueueInv

-----------------------------------------------------------------------------
(***************************************************************************)
(* The peer's clone is closed under the peer's mutex, so nothing is being  *)
(* registered.  The kernel drops the entry only when the Event's own       *)
(* descriptor is closed already.                                           *)
(***************************************************************************)
LEMMA CloseConnKeeps ==
  ASSUME QueueInv, NEW t \in Threads, CloseConn(t)
  PROVE  QueueInv'
<1>0. TypeOK /\ GuardIs /\ LocksAre /\ EntryIs /\ DescriptorIs /\ HeldIs /\ PendingIs /\ DeletedIs
      /\ NoticeIs /\ OneHolder /\ NoDangling /\ NeverForgotten
  BY Parts, Zenon
<1>1. /\ pc[t] = "close" /\ pc' = [pc EXCEPT ![t] = "peer"] /\ conn' = Nothing
      /\ file' = [file EXCEPT ![conn] = Nothing]
      /\ UNCHANGED <<kqueue, events, mutex, guard, trigger, peer, shut, made, lvars, panics>>
  BY Zenon DEF CloseConn, Close, At, Goto
<1>2. PICK x \in Fds : x = conn
  BY <1>0, <1>1, Zenon DEF DescriptorIs, TypeOK
<1>3. PICK s \in Sockets : s = made /\ file[x] = s /\ x # trigger[s]
  BY <1>0, <1>2, Names, Zenon DEF DescriptorIs
<1>4. \/ interest' = interest
      \/ ~kqueue /\ interest' = [interest EXCEPT ![s] = Unpolled] /\ \A y \in Fds \ {x} : file[y] # s
  BY <1>2, <1>3, Zenon DEF CloseConn, Close
<1>5. (\A y \in Fds \ {x} : file[y] # s) => ~Registered(s)
  BY <1>0, <1>3, Names, Zenon DEF Registered, DescriptorIs
<1>6. \A g \in Files : \/ interest'[g] = interest[g]
                       \/ g = s /\ interest'[g] = Unpolled /\ ~Registered(s) /\ ~kqueue
  BY <1>0, <1>4, <1>5, Zenon DEF TypeOK
<1>7. /\ \A u \in Threads \ {t} : pc'[u] = pc[u] /\ pc[u] \notin {"close", "insert", "add"}
      /\ pc'[t] = "peer"
  BY <1>0, <1>1, Zenon DEF TypeOK, LocksAre, WithPeer
<1>8. file'[x] = Nothing /\ \A y \in Fds \ {x} : file'[y] = file[y]
  BY <1>0, <1>1, <1>2, Zenon DEF TypeOK
<1>9. TypeOK'
  <2>1. interest \in [Files -> Entry] /\ s \in Files
    BY <1>0, Names, Zenon DEF TypeOK, Entry
  <2>2. interest' \in [Files -> Entry]
    BY <1>4, <2>1, EntryTyped, Zenon
  <2> QED BY <1>0, <1>1, <2>2, Zenon DEF TypeOK, Places, WithPeer, Entry, lvars
<1>10. GuardIs'
  BY <1>0, <1>1, <1>7, Zenon DEF GuardIs, Resting
<1>11. LocksAre'
  BY <1>0, <1>1, <1>7, Zenon DEF LocksAre, WithPeer, lvars
<1>12. EntryIs'
  <2>1. ASSUME NEW g \in Files
        PROVE  /\ interest'[g].ev \in {g, Nothing}
               /\ interest'[g].on => interest'[g].ev = g
               /\ g \in Fixed => interest'[g].ev = g
               /\ g \in Sockets /\ g > made' => interest'[g].ev = Nothing
    BY <1>0, <1>1, <1>6, Names DEF EntryIs, Unpolled
  <2>2. ASSUME NEW u \in Threads, guard'[u].ev \notin {Nothing, Yield}
        PROVE  ~interest'[guard'[u].ev].on
    <3>1. guard'[u].ev = guard[u].ev /\ guard[u].ev \in Files
      BY <1>0, <1>1, <2>2, Zenon DEF TypeOK
    <3> QED BY <1>0, <1>6, <2>2, <3>1 DEF EntryIs, Unpolled
  <2> QED BY <2>1, <2>2, Zenon DEF EntryIs
<1>13. DescriptorIs'
  <2>1. ASSUME NEW y \in Fds
        PROVE  /\ file'[y] # Nothing => file'[y] <= made /\ y = trigger[file'[y]]
               /\ events[y] # Nothing => file'[y] = events[y] /\ trigger[events[y]] = y
    BY <1>0, <1>2, <1>3, <1>8 DEF DescriptorIs
  <2> QED BY <1>0, <1>1, <1>7, <2>1 DEF DescriptorIs
<1>14. \A g \in Files : Registered(g)' <=> Registered(g)
  BY <1>1, Zenon DEF Registered
<1>15. \A u \in Threads : \A g \in Files : Holds(u, g)' <=> Holds(u, g)
  BY <1>1, <1>7, Zenon DEF Holds, At
<1>16. HeldIs'
  BY <1>0, <1>6, <1>14, <1>15, Zenon DEF HeldIs
<1>17. PendingIs'
  BY <1>7, Zenon DEF PendingIs
<1>18. DeletedIs'
  <2> SUFFICES ASSUME NEW v \in Threads, pc'[v] = "del"
               PROVE  LET d == guard[v].ev
                          y == trigger[d]
                      IN /\ y \in Fds
                         /\ ~Registered(d)'
                         /\ IF kqueue THEN file'[y] = d /\ interest'[d].ev = Nothing
                            ELSE file'[y] = Nothing
    BY <1>1, Zenon DEF DeletedIs
  <2>1. PICK d \in Sockets : d = guard[v].ev /\ pc[v] = "del"
    BY <1>0, <1>7, Zenon DEF GuardIs
  <2>2. PICK y \in Fds : y = trigger[d]
    BY <1>0, <2>1, Zenon DEF DeletedIs
  <2>3. ~Registered(d)'
    BY <1>0, <1>14, <2>1, Names, Zenon DEF DeletedIs
  <2>4. ASSUME kqueue PROVE file'[y] = d /\ interest'[d].ev = Nothing
    <3>1. file[y] = d /\ interest[d].ev = Nothing
      BY <1>0, <2>1, <2>2, <2>4, Zenon DEF DeletedIs
    <3>2. y # x
      BY <1>3, <2>2, <3>1, Zenon
    <3> QED BY <1>6, <1>8, <2>4, <3>1, <3>2, Names, Zenon DEF Unpolled
  <2>5. ASSUME ~kqueue PROVE file'[y] = Nothing
    <3>1. \A u \in Threads : pc[u] # "insert"
      BY <1>1, <1>7, Zenon
    <3>2. file[y] = Nothing
      BY <1>0, <2>1, <2>2, <2>5, <3>1, Zenon DEF DeletedIs
    <3> QED BY <1>8, <3>2, Zenon
  <2> QED BY <1>1, <2>1, <2>2, <2>3, <2>4, <2>5, Zenon DEF Registered
<1>19. NoticeIs'
  BY <1>0, <1>1, <1>6, <1>7, Names, Zenon DEF NoticeIs, lvars
<1>20. OneHolder'
  BY <1>0, <1>1, Zenon DEF OneHolder, IsNotifier
<1>21. NoDangling'
  BY <1>0, <1>6, <1>12, <1>14, <1>16 DEF NoDangling, EntryIs, HeldIs, Unpolled
<1>22. NeverForgotten'
  <2> SUFFICES ASSUME NEW g \in Files \ {Yield}, Registered(g)'
               PROVE  \/ interest'[g] = [ev |-> g, on |-> TRUE]
                      \/ \E u \in Threads : Holds(u, g)'
                      \/ g = made' /\ \E u \in Threads : At(u, {"add"})'
    BY Zenon DEF NeverForgotten
  <2>1. interest'[g] = interest[g] /\ ~\E u \in Threads : At(u, {"add"})
    BY <1>1, <1>6, <1>7, <1>14, Zenon DEF At
  <2> QED BY <1>0, <1>14, <1>15, <2>1, Zenon DEF NeverForgotten
<1> QED BY <1>9, <1>10, <1>11, <1>12, <1>13, <1>16, <1>17, <1>18, <1>19, <1>20, <1>21, <1>22, Zenon DEF QueueInv

(***************************************************************************)
(* connect_endpoint: the new socket has no Event yet, whichever number it  *)
(* gets; a thread that is about to delete the entry of that number finds   *)
(* it not registered.                                                      *)
(***************************************************************************)
LEMMA ConnectKeeps ==
  ASSUME QueueInv, NEW t \in Threads, Connect(t)
  PROVE  QueueInv'
<1>0. TypeOK /\ GuardIs /\ LocksAre /\ EntryIs /\ DescriptorIs /\ HeldIs /\ PendingIs /\ DeletedIs
      /\ NoticeIs /\ OneHolder /\ NoDangling /\ NeverForgotten
  BY Parts, Zenon
<1>1. /\ pc[t] = "peer" /\ pc' = [pc EXCEPT ![t] = "insert"] /\ guard[t].ev = Udp /\ conn = Nothing
      /\ UNCHANGED <<kqueue, events, interest, mutex, guard, peer, shut, lvars, panics>>
  BY Zenon DEF Connect, At, Goto
<1>2. PICK n \in Sockets : /\ n = made' /\ made' \in 0 .. MaxSockets /\ n > made
                           /\ \A s \in Sockets : s <= made => s < n
                           /\ \A s \in Sockets : s > n => s > made
  BY <1>0, EventQueueAssumption DEF Connect, TypeOK, Sockets
<1>3. PICK x \in Fds, y \in Fds :
         /\ file[x] = Nothing /\ file[y] = Nothing /\ x # y
         /\ file' = [file EXCEPT ![x] = n, ![y] = n]
         /\ trigger' = [trigger EXCEPT ![n] = x]
         /\ conn' = y
  BY <1>2, Zenon DEF Connect
<1>4. /\ file'[x] = n /\ file'[y] = n
      /\ \A z \in Fds \ {x, y} : file'[z] = file[z]
      /\ trigger'[n] = x
      /\ \A s \in Sockets \ {n} : trigger'[s] = trigger[s]
  BY <1>0, <1>3, Zenon DEF TypeOK
<1>5. interest[n].ev = Nothing /\ trigger[n] = Nothing
  BY <1>0, <1>2, Names, Zenon DEF EntryIs, DescriptorIs
<1>6. \A z \in Fds : file[z] # n /\ events[z] # n
  <2> SUFFICES ASSUME NEW z \in Fds, file[z] = n \/ events[z] = n PROVE FALSE
    BY Zenon
  <2>1. file[z] = n
    BY <1>0, Names, Zenon DEF DescriptorIs
  <2>2. n <= made
    BY <1>0, <2>1, Names, Zenon DEF DescriptorIs
  <2> QED BY <1>2, <2>2
<1>7. \A u \in Threads : guard[u].ev # n
  BY <1>0, <1>5, Names DEF HeldIs, Holds, At, DeletedIs
<1>8. /\ \A u \in Threads \ {t} : pc'[u] = pc[u] /\ pc[u] \notin {"close", "insert", "add"}
      /\ pc'[t] = "insert"
  BY <1>0, <1>1, Zenon DEF TypeOK, LocksAre, WithPeer
<1>9. TypeOK'
  <2>1. file' \in [Fds -> Sockets \cup {Nothing}]
    BY <1>0, <1>3, Zenon DEF TypeOK
  <2>2. trigger' \in [Sockets -> Fds \cup {Nothing}]
    BY <1>0, <1>3, Zenon DEF TypeOK
  <2>3. pc' \in [Threads -> Places]
    BY <1>0, <1>1, Zenon DEF TypeOK, Places, WithPeer
  <2> QED BY <1>0, <1>1, <1>2, <1>3, <2>1, <2>2, <2>3, Zenon DEF TypeOK, lvars
<1>10. GuardIs'
  BY <1>0, <1>1, <1>8, Zenon DEF GuardIs, Resting
<1>11. LocksAre'
  BY <1>0, <1>1, <1>8, Names, Zenon DEF LocksAre, WithPeer, lvars
<1>12. EntryIs'
  <2>1. ASSUME NEW g \in Sockets, g > made' PROVE interest[g].ev = Nothing
    BY <1>0, <1>2, <2>1, Names, Zenon DEF EntryIs
  <2> QED BY <1>0, <1>1, <2>1, Zenon DEF EntryIs
<1>13. DescriptorIs'
  <2>1. ASSUME NEW z \in Fds, file'[z] # Nothing
        PROVE  /\ file'[z] <= made'
               /\ z = trigger'[file'[z]] \/ (z = conn' /\ file'[z] = made')
    <3>1. CASE z \in {x, y}
      <4>1. n <= made'
        BY <1>2 DEF Sockets
      <4> QED BY <1>2, <1>3, <1>4, <3>1, <4>1
    <3>2. CASE z \notin {x, y}
      <4>1. PICK s \in Sockets : s = file[z] /\ s = file'[z]
        BY <1>0, <1>4, <2>1, <3>2, Zenon DEF TypeOK
      <4>a. file[z] # Nothing /\ s # n /\ z # conn
        BY <1>1, <1>6, <2>1, <4>1, Names, Zenon
      <4>2. s <= made /\ z = trigger[s] /\ s # n
        BY <1>0, <4>1, <4>a, Zenon DEF DescriptorIs
      <4>3. s <= made'
        BY <1>0, <1>2, <4>2 DEF TypeOK, Sockets
      <4> QED BY <1>4, <4>1, <4>2, <4>3, Zenon
    <3> QED BY <3>1, <3>2, Zenon
  <2>2. ASSUME NEW z \in Fds, events[z] # Nothing
        PROVE  file'[z] = events[z] /\ trigger'[events[z]] = z
    <3>1. PICK s \in Sockets : s = events[z]
      BY <1>0, <2>2, Zenon DEF TypeOK
    <3>2. file[z] = s /\ trigger[s] = z /\ s # n
      BY <1>0, <1>6, <3>1, Names, Zenon DEF DescriptorIs
    <3>3. z \notin {x, y}
      BY <1>3, <3>1, <3>2, Names, Zenon
    <3> QED BY <1>4, <3>1, <3>2, <3>3, Zenon
  <2>3. \A s \in Sockets : s > made' => trigger'[s] = Nothing
    BY <1>0, <1>2, <1>4 DEF DescriptorIs, Sockets
  <2>4. conn' # Nothing /\ made' \in Sockets /\ file'[conn'] = made' /\ conn' # trigger'[made']
    BY <1>2, <1>3, <1>4, Names, Zenon
  <2> QED BY <1>1, <2>1, <2>2, <2>3, <2>4, Zenon DEF DescriptorIs
<1>14. \A g \in Files : Registered(g)' <=> Registered(g)
  BY <1>1, Zenon DEF Registered
<1>15. \A u \in Threads : \A g \in Files : Holds(u, g)' <=> Holds(u, g)
  BY <1>1, <1>8, Zenon DEF Holds, At
<1>16. HeldIs'
  BY <1>0, <1>1, <1>14, <1>15, Zenon DEF HeldIs
<1>17. PendingIs'
  <2>1. events[x] = Nothing
    BY <1>0, <1>3, Zenon DEF DescriptorIs
  <2> QED BY <1>1, <1>2, <1>4, <1>5, <1>7, <1>8, <2>1 DEF PendingIs
<1>18. DeletedIs'
  <2> SUFFICES ASSUME NEW v \in Threads, pc'[v] = "del"
               PROVE  LET d == guard[v].ev
                          z == trigger'[d]
                      IN /\ z \in Fds
                         /\ ~Registered(d)'
                         /\ IF kqueue THEN file'[z] = d /\ interest[d].ev = Nothing
                            ELSE file'[z] # Nothing => file'[z] = made' /\ pc'[t] = "insert"
    BY <1>1, Zenon DEF DeletedIs
  <2>1. PICK d \in Sockets : d = guard[v].ev /\ pc[v] = "del" /\ d # n
    BY <1>0, <1>7, <1>8, Zenon DEF GuardIs
  <2>2. PICK z \in Fds : z = trigger[d] /\ z = trigger'[d]
    BY <1>0, <1>4, <2>1, Zenon DEF DeletedIs
  <2>3. ~Registered(d)'
    BY <1>0, <1>14, <2>1, Names, Zenon DEF DeletedIs
  <2>4. ASSUME kqueue PROVE file'[z] = d /\ interest[d].ev = Nothing
    <3>1. file[z] = d /\ interest[d].ev = Nothing
      BY <1>0, <2>1, <2>2, <2>4, Zenon DEF DeletedIs
    <3> QED BY <1>3, <1>4, <3>1, Names, Zenon
  <2>5. ASSUME ~kqueue, file'[z] # Nothing PROVE file'[z] = made'
    <3>1. \A u \in Threads : pc[u] # "insert"
      BY <1>1, <1>8, Zenon
    <3>2. file[z] = Nothing
      BY <1>0, <2>1, <2>2, <2>5, <3>1, Zenon DEF DeletedIs
    <3> QED BY <1>2, <1>4, <2>5, <3>2, Zenon
  <2> QED BY <1>1, <1>8, <2>1, <2>2, <2>3, <2>4, <2>5, Zenon DEF Registered
<1>19. NoticeIs'
  BY <1>0, <1>1, <1>8, Zenon DEF NoticeIs, lvars
<1>20. OneHolder'
  BY <1>0, <1>1, Zenon DEF OneHolder, IsNotifier
<1>21. NoDangling'
  BY <1>0, <1>1, <1>12, <1>14, <1>16 DEF NoDangling, EntryIs, HeldIs
<1>22. NeverForgotten'
  <2>1. ~\E u \in Threads : At(u, {"add"})
    BY <1>1, <1>8, Zenon DEF At
  <2> QED BY <1>0, <1>1, <1>14, <1>15, <2>1, Zenon DEF NeverForgotten
<1> QED BY <1>9, <1>10, <1>11, <1>12, <1>13, <1>16, <1>17, <1>18, <1>19, <1>20, <1>21, <1>22, Zenon DEF QueueInv

(***************************************************************************)
(* insert_at waits for the mutex, so no deletion is under way, and finds   *)
(* the index of the new socket's descriptor empty.                         *)
(***************************************************************************)
LEMMA InsertAtKeeps ==
  ASSUME QueueInv, NEW t \in Threads, InsertAt(t)
  PROVE  QueueInv'
<1>0. TypeOK /\ GuardIs /\ LocksAre /\ EntryIs /\ DescriptorIs /\ HeldIs /\ PendingIs /\ DeletedIs
      /\ NoticeIs /\ OneHolder /\ NoDangling /\ NeverForgotten
  BY Parts, Zenon
<1>1. pc[t] = "insert" /\ pc' = [pc EXCEPT ![t] = "add"] /\ mutex = Nothing
  BY Zenon DEF InsertAt, At, Goto, Free
<1>2. PICK s \in Sockets : s = made /\ interest[s].ev = Nothing /\ \A u \in Threads : guard[u].ev # s
  BY <1>0, <1>1, Zenon DEF PendingIs, DescriptorIs
<1>3. PICK x \in Fds : x = trigger[s] /\ file[x] = s /\ events[x] = Nothing
  BY <1>0, <1>1, <1>2, Zenon DEF PendingIs
<1>4. /\ events' = [events EXCEPT ![x] = s]
      /\ UNCHANGED <<kqueue, file, interest, mutex, guard, svars, lvars, panics>>
  BY <1>2, <1>3, Zenon DEF InsertAt
<1>5. /\ \A u \in Threads \ {t} : pc'[u] = pc[u] /\ pc[u] \notin {"insert", "add"}
      /\ pc'[t] = "add"
      /\ \A u \in Threads : pc[u] # "del"
  BY <1>0, <1>1, Names, Zenon DEF TypeOK, LocksAre, WithPeer
<1>6. events'[x] = s /\ \A y \in Fds \ {x} : events'[y] = events[y]
  BY <1>0, <1>4, Zenon DEF TypeOK
<1>7. TypeOK'
  <2>1. events' \in [Fds -> Sockets \cup {Nothing}]
    BY <1>0, <1>4, Zenon DEF TypeOK
  <2>2. pc' \in [Threads -> Places]
    BY <1>0, <1>1, Zenon DEF TypeOK, Places, WithPeer
  <2> QED BY <1>0, <1>4, <2>1, <2>2, Zenon DEF TypeOK, svars, lvars
<1>8. GuardIs'
  BY <1>0, <1>1, <1>4, <1>5, Zenon DEF GuardIs, Resting
<1>9. LocksAre'
  BY <1>0, <1>1, <1>4, <1>5, Zenon DEF LocksAre, WithPeer, svars, lvars
<1>10. EntryIs'
  BY <1>0, <1>4, Zenon DEF EntryIs, svars
<1>11. DescriptorIs'
  <2>1. ASSUME NEW y \in Fds, events'[y] # Nothing
        PROVE  file[y] = events'[y] /\ trigger[events'[y]] = y
    BY <1>0, <1>3, <1>6, <2>1 DEF DescriptorIs
  <2> QED BY <1>0, <1>1, <1>4, <1>5, <2>1, Zenon DEF DescriptorIs, svars
<1>12. \A g \in Files : Registered(g)' <=> Registered(g) \/ g = s
  BY <1>3, <1>6, Names, Zenon DEF Registered
<1>13. \A u \in Threads : \A g \in Files : Holds(u, g)' <=> Holds(u, g)
  BY <1>1, <1>4, <1>5, Zenon DEF Holds, At
<1>14. HeldIs'
  BY <1>0, <1>4, <1>12, <1>13, Zenon DEF HeldIs
<1>15. PendingIs'
  BY <1>2, <1>3, <1>4, <1>5, <1>6, Zenon DEF PendingIs, svars
<1>16. DeletedIs'
  BY <1>5, Zenon DEF DeletedIs
<1>17. NoticeIs'
  BY <1>0, <1>1, <1>4, <1>5, Zenon DEF NoticeIs, lvars
<1>18. OneHolder'
  BY <1>0, <1>4, Zenon DEF OneHolder, IsNotifier
<1>19. NoDangling'
  BY <1>0, <1>4, <1>10, <1>12, <1>14 DEF NoDangling, EntryIs, HeldIs
<1>20. NeverForgotten'
  <2> SUFFICES ASSUME NEW g \in Files \ {Yield}, Registered(g)'
               PROVE  \/ interest'[g] = [ev |-> g, on |-> TRUE]
                      \/ \E u \in Threads : Holds(u, g)'
                      \/ g = made' /\ \E u \in Threads : At(u, {"add"})'
    BY Zenon DEF NeverForgotten
  <2>1. CASE g = s
    <3>1. At(t, {"add"})' /\ g = made'
      BY <1>2, <1>4, <1>5, <2>1, Zenon DEF At, svars
    <3> QED BY <3>1, Zenon
  <2>2. CASE g # s
    <3>1. Registered(g) /\ g # made
      BY <1>2, <1>12, <2>2, Zenon
    <3> QED BY <1>0, <1>4, <1>13, <3>1, Zenon DEF NeverForgotten
  <2> QED BY <2>1, <2>2, Zenon
<1> QED BY <1>7, <1>8, <1>9, <1>10, <1>11, <1>14, <1>15, <1>16, <1>17, <1>18, <1>19, <1>20, Zenon DEF QueueInv

(***************************************************************************)
(* register_event of epoll.rs, after the mutex: a deletion may be under    *)
(* way again, but the peer's mutex keeps other registrations out, and the  *)
(* Event that is deleted is not the one that was just inserted.            *)
(***************************************************************************)
LEMMA RegisterEventKeeps ==
  ASSUME QueueInv, NEW t \in Threads, RegisterEvent(t)
  PROVE  QueueInv'
<1>0. TypeOK /\ GuardIs /\ LocksAre /\ EntryIs /\ DescriptorIs /\ HeldIs /\ PendingIs /\ DeletedIs
      /\ NoticeIs /\ OneHolder /\ NoDangling /\ NeverForgotten
  BY Parts, Zenon
<1>1. pc[t] = "add" /\ pc' = [pc EXCEPT ![t] = "peer"]
  BY Zenon DEF RegisterEvent, At, Goto
<1>2. PICK s \in Sockets : s = made /\ interest[s].ev = Nothing /\ \A u \in Threads : guard[u].ev # s
  BY <1>0, <1>1, Zenon DEF PendingIs, DescriptorIs
<1>3. Registered(s)
  BY <1>0, <1>1, <1>2, Zenon DEF PendingIs, Registered
<1>4. /\ interest' = [interest EXCEPT ![s] = [ev |-> s, on |-> TRUE]]
      /\ UNCHANGED <<kqueue, file, events, mutex, guard, svars, lvars, panics>>
  BY <1>2, Zenon DEF RegisterEvent, Added
<1>5. /\ \A u \in Threads \ {t} : pc'[u] = pc[u] /\ pc[u] \notin {"insert", "add"}
      /\ pc'[t] = "peer"
  BY <1>0, <1>1, Names, Zenon DEF TypeOK, LocksAre, WithPeer
<1>6. /\ interest'[s] = [ev |-> s, on |-> TRUE]
      /\ \A g \in Files \ {s} : interest'[g] = interest[g]
  BY <1>0, <1>4, Names, Zenon DEF TypeOK
<1>7. TypeOK'
  <2>1. interest \in [Files -> Entry] /\ s \in Files
    BY <1>0, Names, Zenon DEF TypeOK, Entry
  <2>2. interest' \in [Files -> Entry]
    BY <1>4, <2>1, EntryTyped, Zenon
  <2>3. pc' \in [Threads -> Places]
    BY <1>0, <1>1, Zenon DEF TypeOK, Places, WithPeer
  <2> QED BY <1>0, <1>4, <2>2, <2>3, Zenon DEF TypeOK, Entry, svars, lvars
<1>8. GuardIs'
  BY <1>0, <1>1, <1>4, <1>5, Zenon DEF GuardIs, Resting
<1>9. LocksAre'
  BY <1>0, <1>1, <1>4, <1>5, Zenon DEF LocksAre, WithPeer, svars, lvars
<1>10. EntryIs'
  <2>1. ASSUME NEW g \in Files
        PROVE  /\ interest'[g].ev \in {g, Nothing}
               /\ interest'[g].on => interest'[g].ev = g
               /\ g \in Fixed => interest'[g].ev = g
               /\ g \in Sockets /\ g > made' => interest'[g].ev = Nothing
    <3>1. ~(s > made')
      BY <1>2, <1>4 DEF Sockets, svars
    <3> QED BY <1>0, <1>4, <1>6, <3>1, Names, SMTT(30) DEF EntryIs, svars
  <2>2. ASSUME NEW u \in Threads, guard'[u].ev \notin {Nothing, Yield}
        PROVE  ~interest'[guard'[u].ev].on
    <3>1. guard'[u].ev = guard[u].ev /\ guard[u].ev \in Files \ {s}
      BY <1>0, <1>2, <1>4, <2>2, Zenon DEF TypeOK
    <3> QED BY <1>0, <1>6, <2>2, <3>1 DEF EntryIs
  <2> QED BY <2>1, <2>2, Zenon DEF EntryIs
<1>11. DescriptorIs'
  BY <1>0, <1>4, <1>5, Zenon DEF DescriptorIs, svars
<1>12. \A g \in Files : Registered(g)' <=> Registered(g)
  BY <1>4, Zenon DEF Registered
<1>13. \A u \in Threads : \A g \in Files : Holds(u, g)' <=> Holds(u, g)
  BY <1>1, <1>4, <1>5, Zenon DEF Holds, At
<1>14. HeldIs'
  BY <1>0, <1>6, <1>12, <1>13 DEF HeldIs
<1>15. PendingIs'
  BY <1>5, Zenon DEF PendingIs
<1>16. DeletedIs'
  <2> SUFFICES ASSUME NEW v \in Threads, pc'[v] = "del"
               PROVE  LET d == guard[v].ev
                          z == trigger[d]
                      IN /\ z \in Fds
                         /\ ~Registered(d)'
                         /\ IF kqueue THEN file[z] = d /\ interest'[d].ev = Nothing
                            ELSE file[z] = Nothing
    BY <1>4, Zenon DEF DeletedIs, svars
  <2>1. PICK d \in Sockets : d = guard[v].ev /\ pc[v] = "del"
    BY <1>0, <1>5, Zenon DEF GuardIs
  <2>2. ~Registered(d)' /\ d # s
    BY <1>0, <1>3, <1>12, <2>1, Names, Zenon DEF DeletedIs
  <2>3. \A u \in Threads : pc[u] # "insert"
    BY <1>1, <1>5, Zenon
  <2> QED BY <1>0, <1>4, <1>6, <2>1, <2>2, <2>3, Names, Zenon DEF DeletedIs, Registered
<1>17. NoticeIs'
  BY <1>0, <1>1, <1>4, <1>5, <1>6, Names, Zenon DEF NoticeIs, lvars
<1>18. OneHolder'
  BY <1>0, <1>4, Zenon DEF OneHolder, IsNotifier
<1>19. NoDangling'
  BY <1>0, <1>3, <1>6, <1>10, <1>12, <1>14 DEF NoDangling, EntryIs, HeldIs
<1>20. NeverForgotten'
  <2> SUFFICES ASSUME NEW g \in Files \ {Yield}, Registered(g)'
               PROVE  \/ interest'[g] = [ev |-> g, on |-> TRUE]
                      \/ \E u \in Threads : Holds(u, g)'
                      \/ g = made' /\ \E u \in Threads : At(u, {"add"})'
    BY Zenon DEF NeverForgotten
  <2>1. CASE g = s
    BY <1>6, <2>1, Zenon
  <2>2. CASE g # s
    <3>1. Registered(g) /\ g # made /\ interest'[g] = interest[g]
      BY <1>2, <1>6, <1>12, <2>2, Zenon
    <3> QED BY <1>0, <1>13, <3>1, Zenon DEF NeverForgotten
  <2> QED BY <2>1, <2>2, Zenon
<1> QED BY <1>7, <1>8, <1>9, <1>10, <1>11, <1>14, <1>15, <1>16, <1>17, <1>18, <1>19, <1>20, Zenon DEF QueueInv

\* register_event of kqueue.rs inserts and adds under one hold of the mutex.
LEMMA RegisterKeventKeeps ==
  ASSUME QueueInv, NEW t \in Threads, RegisterKevent(t)
  PROVE  QueueInv'
<1>0. TypeOK /\ GuardIs /\ LocksAre /\ EntryIs /\ DescriptorIs /\ HeldIs /\ PendingIs /\ DeletedIs
      /\ NoticeIs /\ OneHolder /\ NoDangling /\ NeverForgotten
  BY Parts, Zenon
<1>1. pc[t] = "insert" /\ pc' = [pc EXCEPT ![t] = "peer"] /\ mutex = Nothing
  BY Zenon DEF RegisterKevent, At, Goto, Free
<1>2. PICK s \in Sockets : s = made /\ interest[s].ev = Nothing /\ \A u \in Threads : guard[u].ev # s
  BY <1>0, <1>1, Zenon DEF PendingIs, DescriptorIs
<1>3. PICK x \in Fds : x = trigger[s] /\ file[x] = s /\ events[x] = Nothing
  BY <1>0, <1>1, <1>2, Zenon DEF PendingIs
<1>4. /\ events' = [events EXCEPT ![x] = s]
      /\ interest' = [interest EXCEPT ![s] = [ev |-> s, on |-> TRUE]]
      /\ UNCHANGED <<kqueue, file, mutex, guard, svars, lvars, panics>>
  BY <1>2, <1>3, Zenon DEF RegisterKevent, Added
<1>5. /\ \A u \in Threads \ {t} : pc'[u] = pc[u] /\ pc[u] \notin {"insert", "add"}
      /\ pc'[t] = "peer"
      /\ \A u \in Threads : pc[u] # "del"
  BY <1>0, <1>1, Names, ZenonT(30) DEF TypeOK, LocksAre, WithPeer
<1>6. /\ events'[x] = s /\ \A y \in Fds \ {x} : events'[y] = events[y]
      /\ interest'[s] = [ev |-> s, on |-> TRUE]
      /\ \A g \in Files \ {s} : interest'[g] = interest[g]
  BY <1>0, <1>4, Names, Zenon DEF TypeOK
<1>7. TypeOK'
  <2>1. events' \in [Fds -> Sockets \cup {Nothing}]
    BY <1>0, <1>4, Zenon DEF TypeOK
  <2>2. interest \in [Files -> Entry] /\ s \in Files
    BY <1>0, Names, Zenon DEF TypeOK, Entry
  <2>3. interest' \in [Files -> Entry]
    BY <1>4, <2>2, EntryTyped, Zenon
  <2>4. pc' \in [Threads -> Places]
    BY <1>0, <1>1, Zenon DEF TypeOK, Places, WithPeer
  <2> QED BY <1>0, <1>4, <2>1, <2>3, <2>4, Zenon DEF TypeOK, Entry, svars, lvars
<1>8. GuardIs'
  BY <1>0, <1>1, <1>4, <1>5, Zenon DEF GuardIs, Resting
<1>9. LocksAre'
  BY <1>0, <1>1, <1>4, <1>5, Zenon DEF LocksAre, WithPeer, svars, lvars
<1>10. EntryIs'
  <2>1. ASSUME NEW g \in Files
        PROVE  /\ interest'[g].ev \in {g, Nothing}
               /\ interest'[g].on => interest'[g].ev = g
               /\ g \in Fixed => interest'[g].ev = g
               /\ g \in Sockets /\ g > made' => interest'[g].ev = Nothing
    <3>1. ~(s > made')
      BY <1>2, <1>4 DEF Sockets, svars
    <3> QED BY <1>0, <1>4, <1>6, <3>1, Names, SMTT(30) DEF EntryIs, svars
  <2>2. ASSUME NEW u \in Threads, guard'[u].ev \notin {Nothing, Yield}
        PROVE  ~interest'[guard'[u].ev].on
    <3>1. guard'[u].ev = guard[u].ev /\ guard[u].ev \in Files \ {s}
      BY <1>0, <1>2, <1>4, <2>2, Zenon DEF TypeOK
    <3> QED BY <1>0, <1>6, <2>2, <3>1 DEF EntryIs
  <2> QED BY <2>1, <2>2, Zenon DEF EntryIs
<1>11. DescriptorIs'
  <2>1. ASSUME NEW y \in Fds, events'[y] # Nothing
        PROVE  file[y] = events'[y] /\ trigger[events'[y]] = y
    BY <1>0, <1>3, <1>6, <2>1 DEF DescriptorIs
  <2> QED BY <1>0, <1>1, <1>4, <1>5, <2>1, Zenon DEF DescriptorIs, svars
<1>12. \A g \in Files : Registered(g)' <=> Registered(g) \/ g = s
  BY <1>3, <1>6, Names, Zenon DEF Registered
<1>13. \A u \in Threads : \A g \in Files : Holds(u, g)' <=> Holds(u, g)
  BY <1>1, <1>4, <1>5, Zenon DEF Holds, At
<1>14. HeldIs'
  BY <1>0, <1>6, <1>12, <1>13 DEF HeldIs
<1>15. PendingIs'
  BY <1>5, Zenon DEF PendingIs
<1>16. DeletedIs'
  BY <1>5, Zenon DEF DeletedIs
<1>17. NoticeIs'
  BY <1>0, <1>1, <1>4, <1>5, <1>6, Names DEF NoticeIs, lvars
<1>18. OneHolder'
  BY <1>0, <1>4, Zenon DEF OneHolder, IsNotifier
<1>19. NoDangling'
  BY <1>0, <1>6, <1>10, <1>12, <1>14 DEF NoDangling, EntryIs, HeldIs
<1>20. NeverForgotten'
  <2> SUFFICES ASSUME NEW g \in Files \ {Yield}, Registered(g)'
               PROVE  \/ interest'[g] = [ev |-> g, on |-> TRUE]
                      \/ \E u \in Threads : Holds(u, g)'
                      \/ g = made' /\ \E u \in Threads : At(u, {"add"})'
    BY Zenon DEF NeverForgotten
  <2>1. CASE g = s
    BY <1>6, <2>1, Zenon
  <2>2. CASE g # s
    <3>1. Registered(g) /\ g # made /\ interest'[g] = interest[g]
      BY <1>2, <1>6, <1>12, <2>2, Zenon
    <3> QED BY <1>0, <1>13, <3>1, Zenon DEF NeverForgotten
  <2> QED BY <2>1, <2>2, Zenon
<1> QED BY <1>7, <1>8, <1>9, <1>10, <1>11, <1>14, <1>15, <1>16, <1>17, <1>18, <1>19, <1>20, Zenon DEF QueueInv

-----------------------------------------------------------------------------
(***************************************************************************)
(* clear_event_by_fd, first step: the Event leaves the registry under the  *)
(* mutex, and this thread has the only guard of it.  epoll.rs closes its   *)
(* descriptor, kqueue.rs deletes its entry.                                *)
(***************************************************************************)
LEMMA TakeKeeps ==
  ASSUME QueueInv, NEW t \in Threads, TakeEvent(t) \/ TakeKevent(t)
  PROVE  QueueInv'
<1>0. TypeOK /\ GuardIs /\ LocksAre /\ EntryIs /\ DescriptorIs /\ HeldIs /\ PendingIs /\ DeletedIs
      /\ NoticeIs /\ OneHolder /\ NoDangling /\ NeverForgotten
  BY Parts, Zenon
<1>1. /\ pc[t] = "eof" /\ pc' = [pc EXCEPT ![t] = "del"] /\ mutex = Nothing /\ mutex' = t
      /\ UNCHANGED <<kqueue, guard, svars, lvars, panics>>
  BY Zenon DEF TakeEvent, TakeKevent, At, Goto, Free
<1>2. PICK s \in Sockets : s = guard[t].ev
  BY <1>0, <1>1, Zenon DEF GuardIs
<1>3. Registered(s) /\ interest[s].ev = s /\ ~interest[s].on
  <2>1. Holds(t, s) /\ s \in Files
    BY <1>1, <1>2, Names, Zenon DEF Holds, At
  <2> QED BY <1>0, <1>2, <2>1, Names, Zenon DEF HeldIs, EntryIs
<1>4. PICK x \in Fds : events[x] = s
  BY <1>3, Names, Zenon DEF Registered
<1>5. file[x] = s /\ trigger[s] = x /\ \A y \in Fds \ {x} : events[y] # s
  BY <1>0, <1>4, Names DEF DescriptorIs
<1>6. /\ events' = [events EXCEPT ![x] = Nothing]
      /\ file' = IF kqueue THEN file ELSE [file EXCEPT ![x] = Nothing]
      /\ interest' = interest \/ interest' = [interest EXCEPT ![s] = Unpolled]
      /\ kqueue => interest' = [interest EXCEPT ![s] = Unpolled]
  BY <1>2, <1>5, Names, Zenon DEF TakeEvent, TakeKevent, Close, Delete
<1>7. /\ events'[x] = Nothing /\ \A y \in Fds \ {x} : events'[y] = events[y]
      /\ file'[x] = (IF kqueue THEN s ELSE Nothing) /\ \A y \in Fds \ {x} : file'[y] = file[y]
      /\ \A g \in Files : interest'[g] = interest[g] \/ (g = s /\ interest'[g] = Unpolled)
      /\ kqueue => interest'[s] = Unpolled
  BY <1>0, <1>5, <1>6, Names, Zenon DEF TypeOK
<1>8. /\ \A u \in Threads \ {t} : pc'[u] = pc[u] /\ guard[u].ev # s /\ pc[u] # "del"
      /\ pc'[t] = "del"
  BY <1>0, <1>1, <1>2, Names DEF TypeOK, OneHolder, IsNotifier, LocksAre
<1>9. conn # x
  BY <1>0, <1>5, Names, Zenon DEF DescriptorIs
<1>10. TypeOK'
  <2>1. events' \in [Fds -> Sockets \cup {Nothing}] /\ file' \in [Fds -> Sockets \cup {Nothing}]
    BY <1>0, <1>6, Zenon DEF TypeOK
  <2>2. interest \in [Files -> Entry] /\ s \in Files
    BY <1>0, Names, Zenon DEF TypeOK, Entry
  <2>3. interest' \in [Files -> Entry]
    BY <1>6, <2>2, EntryTyped, Zenon
  <2>4. pc' \in [Threads -> Places]
    BY <1>0, <1>1, Zenon DEF TypeOK, Places
  <2> QED BY <1>0, <1>1, <2>1, <2>3, <2>4, Zenon DEF TypeOK, Entry, svars, lvars
<1>11. GuardIs'
  BY <1>0, <1>1, <1>2, <1>8, Names, Zenon DEF GuardIs, Resting
<1>12. LocksAre'
  BY <1>0, <1>1, <1>8, Names, Zenon DEF LocksAre, WithPeer, svars, lvars
<1>13. EntryIs'
  <2>1. ASSUME NEW g \in Files
        PROVE  /\ interest'[g].ev \in {g, Nothing}
               /\ interest'[g].on => interest'[g].ev = g
               /\ g \in Fixed => interest'[g].ev = g
               /\ g \in Sockets /\ g > made' => interest'[g].ev = Nothing
    BY <1>0, <1>1, <1>7, Names DEF EntryIs, Unpolled, svars
  <2>2. ASSUME NEW u \in Threads, guard'[u].ev \notin {Nothing, Yield}
        PROVE  ~interest'[guard'[u].ev].on
    <3>1. guard'[u].ev = guard[u].ev /\ guard[u].ev \in Files
      BY <1>0, <1>1, <2>2, Zenon DEF TypeOK
    <3> QED BY <1>0, <1>7, <2>2, <3>1 DEF EntryIs, Unpolled
  <2> QED BY <2>1, <2>2, Zenon DEF EntryIs
<1>14. DescriptorIs'
  <2>1. ASSUME NEW y \in Fds
        PROVE  /\ file'[y] # Nothing => /\ file'[y] <= made
                                        /\ y = trigger[file'[y]] \/ (y = conn /\ file'[y] = made)
               /\ events'[y] # Nothing => file'[y] = events'[y] /\ trigger[events'[y]] = y
    BY <1>0, <1>5, <1>7 DEF DescriptorIs
  <2>2. conn # Nothing => file'[conn] = made
    BY <1>0, <1>7, <1>9, Zenon DEF DescriptorIs, TypeOK
  <2> QED BY <1>0, <1>1, <1>8, <2>1, <2>2, SMTT(30) DEF DescriptorIs, svars
<1>15. \A g \in Files : Registered(g)' <=> Registered(g) /\ g # s
  <2>1. ~Registered(s)'
    BY <1>5, <1>7, Names, Zenon DEF Registered
  <2>2. ASSUME NEW g \in Files, g # s PROVE Registered(g)' <=> Registered(g)
    BY <1>4, <1>7, <2>2, Names, Zenon DEF Registered
  <2> QED BY <2>1, <2>2, Zenon
<1>16. \A u \in Threads : \A g \in Files : Holds(u, g)' <=> Holds(u, g) /\ g # s
  BY <1>1, <1>2, <1>8, Zenon DEF Holds, At
<1>17. HeldIs'
  BY <1>0, <1>7, <1>15, <1>16, Zenon DEF HeldIs
<1>18. PendingIs'
  <2> SUFFICES ASSUME NEW v \in Threads, pc'[v] \in {"insert", "add"}
               PROVE  /\ trigger[made] \in Fds
                      /\ file'[trigger[made]] = made
                      /\ interest'[made].ev = Nothing
                      /\ \A u \in Threads : guard[u].ev # made
                      /\ events'[trigger[made]] = IF pc'[v] = "add" THEN made ELSE Nothing
    BY <1>1, Zenon DEF PendingIs, svars
  <2>1. pc'[v] = pc[v] /\ made \in Files
    BY <1>0, <1>8, Names, ZenonT(30) DEF DescriptorIs
  <2>2. made # s /\ trigger[made] \in Fds \ {x}
    BY <1>0, <1>2, <1>5, <2>1, Zenon DEF PendingIs
  <2> QED BY <1>0, <1>7, <2>1, <2>2, Zenon DEF PendingIs
<1>19. DeletedIs'
  <2>1. ~Registered(s)'
    BY <1>15, Names, ZenonT(30)
  <2> QED BY <1>1, <1>2, <1>5, <1>7, <1>8, <2>1 DEF DeletedIs, Unpolled, svars, Registered
<1>20. NoticeIs'
  BY <1>0, <1>1, <1>7, <1>8, Names DEF NoticeIs, lvars
<1>21. OneHolder'
  BY <1>0, <1>1, Zenon DEF OneHolder, IsNotifier
<1>22. NoDangling'
  <2>1. ~interest'[s].on
    BY <1>3, <1>7, Names DEF Unpolled
  <2> QED BY <1>0, <1>7, <1>13, <1>15, <1>17, <2>1, SMTT(30) DEF NoDangling, EntryIs, HeldIs
<1>23. NeverForgotten'
  <2> SUFFICES ASSUME NEW g \in Files \ {Yield}, Registered(g)'
               PROVE  \/ interest'[g] = [ev |-> g, on |-> TRUE]
                      \/ \E u \in Threads : Holds(u, g)'
                      \/ g = made' /\ \E u \in Threads : At(u, {"add"})'
    BY Zenon DEF NeverForgotten
  <2>1. Registered(g) /\ g # s /\ interest'[g] = interest[g] /\ made' = made
    BY <1>1, <1>7, <1>15, Zenon DEF svars
  <2>2. \A u \in Threads : (Holds(u, g) => Holds(u, g)') /\ (At(u, {"add"}) => At(u, {"add"})')
    BY <1>1, <1>8, <1>16, <2>1, Zenon DEF At
  <2> QED BY <1>0, <2>1, <2>2, Zenon DEF NeverForgotten
<1> QED BY <1>10, <1>11, <1>12, <1>13, <1>14, <1>17, <1>18, <1>19, <1>20, <1>21, <1>22, <1>23, Zenon DEF QueueInv

(***************************************************************************)
(* clear_event_by_fd, second step, still under the mutex.  The deletion    *)
(* goes by number, and the number may be that of a newer socket by now;    *)
(* that one has no entry yet, so the call takes nothing from it.           *)
(***************************************************************************)
LEMMA ClearKeeps ==
  ASSUME QueueInv, NEW t \in Threads, ClearEventByFd(t) \/ ClearKeventByFd(t)
  PROVE  QueueInv'
<1>0. TypeOK /\ GuardIs /\ LocksAre /\ EntryIs /\ DescriptorIs /\ HeldIs /\ PendingIs /\ DeletedIs
      /\ NoticeIs /\ OneHolder /\ NoDangling /\ NeverForgotten
  BY Parts, Zenon
<1>1. /\ pc[t] = "del" /\ pc' = [pc EXCEPT ![t] = "wait"] /\ mutex' = Nothing
      /\ guard' = [guard EXCEPT ![t] = NoGuard]
      /\ UNCHANGED <<kqueue, events, svars, lvars, panics>>
  BY Zenon DEF ClearEventByFd, ClearKeventByFd, At, Goto
<1>2. PICK s \in Sockets : s = guard[t].ev
  BY <1>0, <1>1, Zenon DEF GuardIs
<1>3. PICK x \in Fds : x = trigger[s]
  BY <1>0, <1>1, <1>2, Zenon DEF DeletedIs
<1>4. /\ ~Registered(s)
      /\ kqueue => file[x] = s /\ interest[s].ev = Nothing
      /\ ~kqueue /\ file[x] # Nothing => file[x] = made /\ \E u \in Threads : pc[u] = "insert"
  BY <1>0, <1>1, <1>2, <1>3, Zenon DEF DeletedIs
<1>5. interest' = interest
  <2>1. CASE kqueue
    <3>1. interest' = [interest EXCEPT ![s] = Unpolled]
      BY <1>2, <1>3, <1>4, <2>1, Names, Zenon DEF ClearEventByFd, ClearKeventByFd, Close
    <3> QED BY <1>0, <1>4, <2>1, <3>1, UnpolledIs, Names, Zenon
  <2>2. CASE ~kqueue /\ file[x] = Nothing
    BY <1>2, <1>3, <2>2, Zenon DEF ClearEventByFd, ClearKeventByFd, Delete
  <2>3. CASE ~kqueue /\ file[x] # Nothing
    <3>1. interest' = [interest EXCEPT ![made] = Unpolled]
      BY <1>2, <1>3, <1>4, <2>3, Zenon DEF ClearEventByFd, ClearKeventByFd, Delete
    <3>2. made \in Files /\ interest[made].ev = Nothing
      BY <1>0, <1>4, <2>3, Names, Zenon DEF PendingIs, DescriptorIs
    <3> QED BY <1>0, <3>1, <3>2, UnpolledIs, Zenon
  <2> QED BY <2>1, <2>2, <2>3, Zenon
<1>6. file' = IF kqueue THEN [file EXCEPT ![x] = Nothing] ELSE file
  BY <1>2, <1>3, Zenon DEF ClearEventByFd, ClearKeventByFd, Close
<1>7. /\ \A y \in Fds \ {x} : file'[y] = file[y]
      /\ file'[x] = IF kqueue THEN Nothing ELSE file[x]
  BY <1>0, <1>6, Zenon DEF TypeOK
<1>8. /\ \A u \in Threads \ {t} : pc'[u] = pc[u] /\ guard'[u] = guard[u] /\ pc[u] # "del"
      /\ pc'[t] = "wait" /\ guard'[t].ev = Nothing
  BY <1>0, <1>1, Zenon DEF TypeOK, LocksAre, NoGuard
<1>9. kqueue => conn # x
  BY <1>0, <1>3, <1>4, Names, Zenon DEF DescriptorIs
<1>10. TypeOK'
  <2>1. file' \in [Fds -> Sockets \cup {Nothing}]
    BY <1>0, <1>6, Zenon DEF TypeOK
  <2>2. guard' \in [Threads -> [ev : Files \cup {Nothing}, then : Resting \ {"out"}]]
    BY <1>0, <1>1, Zenon DEF TypeOK, NoGuard, Resting
  <2>3. pc' \in [Threads -> Places]
    BY <1>0, <1>1, Zenon DEF TypeOK, Places, Resting
  <2> QED BY <1>0, <1>1, <1>5, <2>1, <2>2, <2>3, Zenon DEF TypeOK, svars, lvars
<1>11. GuardIs'
  BY <1>0, <1>8, Names DEF GuardIs, Resting
<1>12. LocksAre'
  BY <1>0, <1>1, <1>8, Names DEF LocksAre, WithPeer, svars, lvars
<1>13. EntryIs'
  BY <1>0, <1>1, <1>5, <1>8, Zenon DEF EntryIs, svars
<1>14. DescriptorIs'
  <2>1. ASSUME NEW y \in Fds
        PROVE  /\ file'[y] # Nothing => /\ file'[y] <= made
                                        /\ y = trigger[file'[y]] \/ (y = conn /\ file'[y] = made)
               /\ events[y] # Nothing => file'[y] = events[y] /\ trigger[events[y]] = y
    <3>1. kqueue => events[x] = Nothing
      BY <1>0, <1>4, Names, Zenon DEF DescriptorIs, Registered
    <3> QED BY <1>0, <1>7, <3>1 DEF DescriptorIs
  <2>2. conn # Nothing => file'[conn] = made
    BY <1>0, <1>7, <1>9, Zenon DEF DescriptorIs, TypeOK
  <2> QED BY <1>0, <1>1, <1>8, <2>1, <2>2, Zenon DEF DescriptorIs, svars
<1>15. \A g \in Files : Registered(g)' <=> Registered(g)
  BY <1>1, Zenon DEF Registered
<1>16. \A u \in Threads : \A g \in Files : Holds(u, g)' <=> Holds(u, g)
  BY <1>1, <1>8, Names, Zenon DEF Holds, At
<1>17. HeldIs'
  BY <1>0, <1>5, <1>15, <1>16, Zenon DEF HeldIs
<1>18. PendingIs'
  <2> SUFFICES ASSUME NEW v \in Threads, pc'[v] \in {"insert", "add"}
               PROVE  /\ trigger[made] \in Fds
                      /\ file'[trigger[made]] = made
                      /\ interest[made].ev = Nothing
                      /\ \A u \in Threads : guard'[u].ev # made
                      /\ events[trigger[made]] = IF pc'[v] = "add" THEN made ELSE Nothing
    BY <1>1, <1>5, Zenon DEF PendingIs, svars
  <2>1. pc'[v] = pc[v] /\ made \in Sockets
    BY <1>0, <1>8, Zenon DEF DescriptorIs
  <2>2. /\ trigger[made] \in Fds /\ file[trigger[made]] = made /\ interest[made].ev = Nothing
        /\ \A u \in Threads : guard[u].ev # made
        /\ events[trigger[made]] = IF pc'[v] = "add" THEN made ELSE Nothing
    BY <1>0, <2>1, Zenon DEF PendingIs
  <2>3. kqueue => trigger[made] # x
    BY <1>2, <1>4, <2>2, Zenon
  <2> QED BY <1>7, <1>8, <2>1, <2>2, <2>3, Names
<1>19. DeletedIs'
  BY <1>8, Zenon DEF DeletedIs
<1>20. NoticeIs'
  BY <1>0, <1>1, <1>5, <1>8, Names, Zenon DEF NoticeIs, lvars
<1>21. OneHolder'
  BY <1>0, <1>8, Zenon DEF OneHolder, IsNotifier
<1>22. NoDangling'
  BY <1>0, <1>5, <1>13, <1>15, <1>17 DEF NoDangling, EntryIs, HeldIs
<1>23. NeverForgotten'
  <2> SUFFICES ASSUME NEW g \in Files \ {Yield}, Registered(g)'
               PROVE  \/ interest'[g] = [ev |-> g, on |-> TRUE]
                      \/ \E u \in Threads : Holds(u, g)'
                      \/ g = made' /\ \E u \in Threads : At(u, {"add"})'
    BY Zenon DEF NeverForgotten
  <2>1. \A u \in Threads : (Holds(u, g) => Holds(u, g)') /\ (At(u, {"add"}) => At(u, {"add"})')
    BY <1>1, <1>8, <1>16, Zenon DEF At
  <2> QED BY <1>0, <1>1, <1>5, <1>15, <2>1, Zenon DEF NeverForgotten, svars
<1> QED BY <1>10, <1>11, <1>12, <1>13, <1>14, <1>17, <1>18, <1>19, <1>20, <1>21, <1>22, <1>23, Zenon DEF QueueInv

-----------------------------------------------------------------------------
\* The invariant holds before the threads start.
LEMMA InitQueue == Init => QueueInv
<1> SUFFICES ASSUME Init PROVE QueueInv
  BY Zenon
<1>1. /\ \A f \in Files : interest[f] = IF f \in Fixed THEN [ev |-> f, on |-> TRUE] ELSE Unpolled
      /\ \A t \in Threads : pc[t] = "out" /\ guard[t] = NoGuard /\ guard[t].ev = Nothing
      /\ \A x \in Fds : file[x] = Nothing /\ events[x] = Nothing
      /\ conn = Nothing /\ notice = FALSE /\ mutex = Nothing /\ peer = Nothing /\ writer = Nothing
  BY Zenon DEF Init, NoGuard
<1>2. TypeOK
  <2>1. interest \in [Files -> [ev : Files \cup {Nothing}, on : BOOLEAN]]
    <3>1. \A f \in Files : [ev |-> f, on |-> TRUE] \in [ev : Files \cup {Nothing}, on : BOOLEAN]
      BY Zenon
    <3>2. Unpolled \in [ev : Files \cup {Nothing}, on : BOOLEAN]
      BY Zenon DEF Unpolled
    <3> QED BY <3>1, <3>2, Zenon DEF Init
  <2>2. guard \in [Threads -> [ev : Files \cup {Nothing}, then : Resting \ {"out"}]]
    BY Zenon DEF Init, NoGuard, Resting
  <2>3. pc \in [Threads -> Places]
    BY Zenon DEF Init, Places, Resting
  <2>4. made \in 0 .. MaxSockets /\ panics \in Nat
    BY EventQueueAssumption DEF Init
  <2>5. notice \in BOOLEAN /\ kqueue \in BOOLEAN
    BY Zenon DEF Init
  <2> QED BY <2>1, <2>2, <2>3, <2>4, <2>5, Zenon DEF Init, TypeOK
<1>3. GuardIs /\ LocksAre
  BY <1>1, Names, Zenon DEF GuardIs, LocksAre, Resting, WithPeer
<1>a. /\ \A f \in Fixed : f \in Files /\ interest[f] = [ev |-> f, on |-> TRUE] /\ interest[f].ev = f
      /\ \A f \in Files : f \notin Fixed => interest[f].ev = Nothing /\ ~interest[f].on
  <2>1. ASSUME NEW f \in Fixed PROVE f \in Files /\ interest[f] = [ev |-> f, on |-> TRUE]
    BY <1>1, Zenon DEF Files
  <2>2. ASSUME NEW f \in Files, f \notin Fixed PROVE interest[f] = Unpolled
    BY <1>1, <2>2, Zenon
  <2>3. Unpolled.ev = Nothing /\ ~Unpolled.on
    BY Zenon DEF Unpolled
  <2> QED BY <2>1, <2>2, <2>3
<1>4. EntryIs
  BY <1>1, <1>a, Names, Zenon DEF EntryIs
<1>5. DescriptorIs
  BY <1>1, Zenon DEF DescriptorIs, Init
<1>6. HeldIs /\ PendingIs /\ DeletedIs /\ NoticeIs /\ OneHolder
  BY <1>1, Names DEF HeldIs, Holds, PendingIs, DeletedIs, NoticeIs, OneHolder
<1>7. NoDangling /\ NeverForgotten
  <2>1. \A f \in Files : Registered(f) <=> f \in Fixed
    BY <1>1, Names, Zenon DEF Registered
  <2>2. NoDangling
    <3>1. ASSUME NEW f \in Files, interest[f].on PROVE Registered(interest[f].ev)
      <4>1. f \in Fixed /\ interest[f].ev = f
        BY <1>a, <3>1, Zenon
      <4> QED BY <2>1, <4>1, Zenon
    <3>2. ASSUME NEW t \in Threads, NEW e \in Files PROVE ~Holds(t, e)
      BY <1>1, Names, Zenon DEF Holds
    <3> QED BY <3>1, <3>2, Zenon DEF NoDangling
  <2>3. NeverForgotten
    BY <1>a, <2>1, Zenon DEF NeverForgotten
  <2> QED BY <2>2, <2>3, Zenon
<1> QED BY <1>2, <1>3, <1>4, <1>5, <1>6, <1>7, Zenon DEF QueueInv

\* Every step keeps the invariant.
LEMMA StepQueue == QueueInv /\ [Next]_vars => QueueInv'
<1> SUFFICES ASSUME QueueInv, [Next]_vars PROVE QueueInv'
  BY Zenon
<1>1. ASSUME NEW t \in Threads, NEW f \in Files, Wait(t, f) PROVE QueueInv'
  BY <1>1, WaitKeeps, Zenon
<1>2. ASSUME NEW t \in Threads, Working(t) PROVE QueueInv'
  <2>1. CASE EnterLoop(t) \/ LeaveLoop(t)
    BY <2>1, LoopKeeps, Zenon
  <2>2. CASE Return(t)
    BY <2>2, ReturnKeeps, Zenon
  <2>3. CASE Rearm(t)
    BY <2>3, RearmKeeps, Zenon
  <2>4. CASE BeginWrite(t)
    BY <2>4, BeginWriteKeeps, Zenon
  <2>5. CASE EndWrite(t)
    BY <2>5, EndWriteKeeps, Zenon
  <2>6. CASE UnlockPeer(t)
    BY <2>6, UnlockPeerKeeps, Zenon
  <2>7. CASE CloseConn(t)
    BY <2>7, CloseConnKeeps, Zenon
  <2>8. CASE InsertAt(t)
    BY <2>8, InsertAtKeeps, Zenon
  <2>9. CASE RegisterEvent(t)
    BY <2>9, RegisterEventKeeps, Zenon
  <2>10. CASE RegisterKevent(t)
    BY <2>10, RegisterKeventKeeps, Zenon
  <2>11. CASE TakeEvent(t) \/ TakeKevent(t)
    BY <2>11, TakeKeeps, Zenon
  <2>12. CASE ClearEventByFd(t) \/ ClearKeventByFd(t)
    BY <2>12, ClearKeeps, Zenon
  <2> QED BY <1>2, <2>1, <2>2, <2>3, <2>4, <2>5, <2>6, <2>7, <2>8, <2>9, <2>10, <2>11, <2>12, Zenon DEF Working
<1>3. ASSUME NEW t \in Threads, Panic(t) PROVE QueueInv'
  BY <1>3, PanicKeeps, Zenon
<1>4. ASSUME NEW t \in Threads, AskWrite(t) PROVE QueueInv'
  BY <1>4, AskWriteKeeps, Zenon
<1>5. ASSUME NEW t \in Threads, LockPeer(t) PROVE QueueInv'
  BY <1>5, LockPeerKeeps, Zenon
<1>6. ASSUME NEW t \in Threads, Shutdown(t) PROVE QueueInv'
  BY <1>6, ShutdownKeeps, Zenon
<1>7. ASSUME NEW t \in Threads, Connect(t) PROVE QueueInv'
  BY <1>7, ConnectKeeps, ZenonT(30)
<1>8. CASE UNCHANGED vars
  <2>1. /\ kqueue' = kqueue /\ file' = file /\ events' = events /\ interest' = interest
        /\ mutex' = mutex /\ pc' = pc /\ guard' = guard /\ trigger' = trigger /\ conn' = conn
        /\ shut' = shut /\ made' = made /\ peer' = peer /\ writer' = writer
        /\ notice' = notice /\ panics' = panics
    BY <1>8, Zenon DEF vars, qvars, svars, lvars
  <2>2. TypeOK' /\ GuardIs' /\ LocksAre'
    BY <2>1, Zenon DEF QueueInv, TypeOK, GuardIs, LocksAre
  <2>3. EntryIs' /\ DescriptorIs' /\ NoticeIs'
    BY <2>1, Zenon DEF QueueInv, EntryIs, DescriptorIs, NoticeIs
  <2>4. HeldIs' /\ OneHolder'
    BY <2>1, Zenon DEF QueueInv, HeldIs, OneHolder, Registered, Holds, At
  <2>5. PendingIs' /\ DeletedIs'
    BY <2>1, Zenon DEF QueueInv, PendingIs, DeletedIs, Registered
  <2>6. NoDangling' /\ NeverForgotten'
    BY <2>1, Zenon DEF QueueInv, NoDangling, NeverForgotten, Registered, Holds, At
  <2> QED BY <2>2, <2>3, <2>4, <2>5, <2>6, Zenon DEF QueueInv
<1> QED BY <1>1, <1>2, <1>3, <1>4, <1>5, <1>6, <1>7, <1>8, Zenon DEF Next

(* Which guard, lock, entry and descriptor a thread has at each point of   *)
(* the event loop, of connect_endpoint and of clear_event_by_fd.           *)
THEOREM QueueInvariant == Spec => []QueueInv
BY InitQueue, StepQueue, PTL DEF Spec

(* What the kernel hands out, and what a guard points to, is an Event that *)
(* the registry still holds: no use after free in epoll.rs or kqueue.rs.   *)
THEOREM NoPointerDangles == Spec => []NoDangling
<1>1. QueueInv => NoDangling
  BY Parts, Zenon
<1> QED BY <1>1, QueueInvariant, PTL

(* A registered Event is on in the kernel, or a thread has its guard, or   *)
(* is about to add it: clear_event_by_fd for a number that was used again  *)
(* takes no entry from the newer socket.                                   *)
THEOREM NoEventIsForgotten == Spec => []NeverForgotten
<1>1. QueueInv => NeverForgotten
  BY Parts, Zenon
<1> QED BY <1>1, QueueInvariant, PTL

(* wait() gives the Event of a handler to one thread at a time.            *)
THEOREM HandlersAreExclusive == Spec => []OneHolder
<1>1. QueueInv => OneHolder
  BY Parts, Zenon
<1> QED BY <1>1, QueueInvariant, PTL

(* The notifier stays silent from stop_notification to the next            *)
(* trigger_notification, although guards of it are dropped in between.     *)
THEOREM NotifierStaysSilent == Spec => []Silenced
<1>1. QueueInv => Silenced
  <2> SUFFICES ASSUME QueueInv,
                      writer = Nothing \/ \E t \in Threads : At(t, {"mut", "peer", "close", "changed"}) /\ writer = t,
                      interest[Yield].on, notice
               PROVE  FALSE
    BY Zenon DEF Silenced
  <2>1. PICK u \in Threads : pc[u] = "upgrade"
    BY Parts, Zenon DEF NoticeIs
  <2>2. writer = u
    BY <2>1, Parts, Zenon DEF LocksAre
  <2> QED BY <2>1, <2>2, Names, Zenon DEF At
<1> QED BY <1>1, QueueInvariant, PTL
=============================================================================
