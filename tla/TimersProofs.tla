---------------------------- MODULE TimersProofs ----------------------------
(***************************************************************************)
(* The timers of a tunnel, for all timeouts, any ring and a clock that     *)
(* runs on without bound.                                                  *)
(***************************************************************************)
EXTENDS Timers, TLAPS

\* A value of the array timers with which nothing is ahead of the clock.
Sound(t) ==
    /\ t \in [TimerName -> Int]
    /\ \A n \in TimerName : 0 <= t[n] /\ t[n] <= t["Current"]
    /\ t["Current"] <= now

\* timer_tick sets timers to TimeCurrent and so puts none ahead of the clock.
LEMMA TickSound ==
    ASSUME NEW t, Sound(t), NEW names
    PROVE  /\ Sound(Tick(t, names))
           /\ \A n \in TimerName :
                 Tick(t, names)[n] = IF n \in names THEN t["Current"] ELSE t[n]
           /\ Tick(t, names)["Current"] = t["Current"]
BY DEF Sound, Tick, TimerName

\* Timers::clear puts every timer at the clock.
LEMMA ClearSound ==
    ASSUME now \in Nat
    PROVE  /\ Sound(Clear)
           /\ \A n \in TimerName : Clear[n] = now
BY DEF Sound, Clear, TimerName

\* The first assignment of update_timers moves TimeCurrent up to the clock.
LEMMA CurrentSound ==
    ASSUME now \in Nat, Sound(time)
    PROVE  /\ Sound(Current)
           /\ Current["Current"] = now
           /\ \A n \in TimerName \ {"Current"} : Current[n] = time[n]
BY DEF Sound, Current, TimerName

(***************************************************************************)
(* format_handshake_initiation, on sound timers: they stay sound, and the  *)
(* attempt that the initiation belongs to is timed from no later than it   *)
(* began.                                                                  *)
(***************************************************************************)
LEMMA InitiateSound ==
    ASSUME TimersInv, NEW t, Sound(t), Initiate(t),
           state = "InitSent" => /\ t["LastHandshakeStarted"] <= began
                                 /\ t["Current"] - began < RekeyAttempt
    PROVE  /\ Sound(time')
           /\ time'["Current"] = IF state = "Expired" THEN now ELSE t["Current"]
           /\ state' = "InitSent" /\ time_sent' = now
           /\ began' \in Int
           /\ time'["LastHandshakeStarted"] <= began'
           /\ time'["Current"] - began' < RekeyAttempt
<1> DEFINE fresh == IF state = "Expired" THEN Clear ELSE t
           names == {"LastPacketSent"}
                      \cup IF state = "InitSent" THEN {} ELSE {"LastHandshakeStarted"}
<1>1. now \in Nat /\ began \in Int
  BY DEF TimersInv, TypeOK
<1>2. Sound(fresh)
  BY <1>1, ClearSound
<1>3. fresh["Current"] = IF state = "Expired" THEN now ELSE t["Current"]
  BY <1>1, ClearSound DEF TimerName
<1>4. time' = Tick(fresh, names)
  BY DEF Initiate, Initiation
<1>5. state' = "InitSent" /\ time_sent' = now
      /\ began' = IF state = "InitSent" THEN began ELSE now
  BY DEF Initiate
<1>6. state # "InitSent" => "LastHandshakeStarted" \in names
  OBVIOUS
<1>7. state = "InitSent" => fresh = t /\ "LastHandshakeStarted" \notin names
  OBVIOUS
<1> HIDE DEF fresh, names
<1>8. /\ Sound(time')
      /\ time'["Current"] = fresh["Current"]
      /\ time'["LastHandshakeStarted"] =
           IF "LastHandshakeStarted" \in names THEN fresh["Current"]
           ELSE fresh["LastHandshakeStarted"]
  BY <1>2, <1>4, TickSound, Zenon DEF TimerName
<1>9. fresh["Current"] \in Int /\ fresh["Current"] <= now
  BY <1>2 DEF Sound, TimerName
<1>10. CASE state = "InitSent"
  BY <1>1, <1>3, <1>5, <1>7, <1>8, <1>10
<1>11. CASE state # "InitSent"
  BY <1>1, <1>3, <1>5, <1>6, <1>8, <1>9, <1>11, TimersAssumption
<1> QED BY <1>10, <1>11

\* Every timer is at zero, and so is the clock.
LEMMA InitTimers == Init => TimersInv
BY TimersAssumption
   DEF Init, TimersInv, TypeOK, NeverAhead, SessionTimed, AttemptTimed, ExpiredIsOver, SessionsDie,
       RetriesCease, TimerName

(***************************************************************************)
(* A session that is stored is as old as the clock, and its slot's timer   *)
(* as old as TimeCurrent; the handshake's state is then None, or else the  *)
(* attempt in progress goes on.                                            *)
(***************************************************************************)
LEMMA EstablishKeeps ==
    ASSUME TimersInv, NEW slot \in Slots, NEW initiator, Establish(slot, initiator),
           Sound(time'), time'["Current"] = time["Current"],
           time'["LastHandshakeStarted"] = time["LastHandshakeStarted"],
           now' = now,
           \/ state' = "None" /\ time_sent' = 0 /\ began' = 0
           \/ state # "Expired" /\ UNCHANGED <<state, time_sent, began>>
    PROVE  TimersInv'
<1> USE DEF TimersInv
<1>1. TypeOK'
  BY DEF TypeOK, Establish, Sound, NeverAhead, TimerName
<1>2. /\ time["Current"] \in Int /\ now \in Int
      /\ 0 <= time["Current"] /\ time["Current"] <= now
  BY DEF TypeOK, NeverAhead, TimerName
<1>3. NeverAhead'
  BY <1>2 DEF TypeOK, NeverAhead, Establish, Sound
<1>4. SessionTimed' /\ SessionsDie'
  BY <1>2, TimersAssumption DEF TypeOK, SessionTimed, SessionsDie, Establish
<1>5. AttemptTimed' /\ ExpiredIsOver' /\ RetriesCease'
  BY DEF AttemptTimed, ExpiredIsOver, RetriesCease
<1> QED BY <1>1, <1>3, <1>4, <1>5

(***************************************************************************)
(* update_session_timers with TimeCurrent at the clock: a slot that keeps  *)
(* its session is younger than REJECT_AFTER_TIME.                          *)
(***************************************************************************)
LEMMA UpdateSessionTimersKeeps ==
    ASSUME TimersInv, UpdateSessionTimers
    PROVE  /\ sessions' \in [Slots -> Int \cup {None}]
           /\ session_timers' \in [Slots -> Int]
           /\ \A i \in Slots :
                /\ 0 <= session_timers'[i] /\ session_timers'[i] <= now
                /\ sessions'[i] # None => /\ sessions'[i] = sessions[i]
                                          /\ session_timers'[i] <= sessions'[i]
                                          /\ now - sessions'[i] <= RejectAfter
<1>1. /\ sessions \in [Slots -> Int \cup {None}] /\ session_timers \in [Slots -> Int]
      /\ now \in Nat /\ time["Current"] \in Int /\ time["Current"] <= now
  BY DEF TimersInv, TypeOK, NeverAhead, TimerName
<1>2. \A i \in Slots : 0 <= session_timers[i] /\ session_timers[i] <= now
  BY <1>1 DEF TimersInv, NeverAhead
<1>3. \A i \in Slots : i \notin TooOld => now - session_timers[i] <= RejectAfter
  BY <1>1, TimersAssumption DEF TooOld
<1>4. \A i \in Slots : sessions[i] # None => session_timers[i] <= sessions[i]
  BY DEF TimersInv, SessionTimed
<1>5. sessions' \in [Slots -> Int \cup {None}] /\ session_timers' \in [Slots -> Int]
  BY <1>1 DEF UpdateSessionTimers
<1>6. ASSUME NEW i \in Slots
      PROVE  /\ 0 <= session_timers'[i] /\ session_timers'[i] <= now
             /\ sessions'[i] # None => /\ sessions'[i] = sessions[i]
                                       /\ session_timers'[i] <= sessions'[i]
                                       /\ now - sessions'[i] <= RejectAfter
  <2>1. CASE i \in TooOld
    BY <2>1, <1>1 DEF UpdateSessionTimers
  <2>2. CASE i \notin TooOld
    <3>1. sessions'[i] = sessions[i] /\ session_timers'[i] = session_timers[i]
      BY <2>2 DEF UpdateSessionTimers
    <3>2. sessions[i] \in Int \cup {None} /\ session_timers[i] \in Int
      BY <1>1
    <3> QED BY <3>1, <3>2, <2>2, <1>1, <1>2, <1>3, <1>4, TimersAssumption
  <2> QED BY <2>1, <2>2
<1> QED BY <1>5, <1>6

(***************************************************************************)
(* A run of update_timers that does not expire the connection leaves       *)
(* TimeCurrent at the clock, and then the handshake either as it was or    *)
(* with a new initiation.                                                  *)
(***************************************************************************)
LEMMA RanKeeps ==
    ASSUME TimersInv, UpdateSessionTimers, now' = now,
           Sound(time'), time'["Current"] = now,
           \/ state' = "InitSent" /\ time_sent' = now /\ began' \in Int
           \/ UNCHANGED <<state, previous, time_sent, began>>,
           state' = "InitSent" => /\ time'["LastHandshakeStarted"] <= began'
                                  /\ now - began' < RekeyAttempt
    PROVE  TimersInv'
<1> USE DEF TimersInv
<1>1. TypeOK'
  BY UpdateSessionTimersKeeps DEF TypeOK, Sound
<1>2. NeverAhead'
  BY UpdateSessionTimersKeeps DEF NeverAhead, Sound, TypeOK
<1>3. SessionTimed' /\ SessionsDie'
  BY UpdateSessionTimersKeeps DEF SessionTimed, SessionsDie
<1>4. ExpiredIsOver'
  BY DEF ExpiredIsOver, UpdateSessionTimers
<1>5. AttemptTimed' /\ RetriesCease'
  BY DEF AttemptTimed, RetriesCease
<1> QED BY <1>1, <1>2, <1>3, <1>4, <1>5

\* update_timers keeps the invariant, whichever of its branches is taken.
LEMMA UpdateTimersKeeps ==
    ASSUME TimersInv, UpdateTimers
    PROVE  TimersInv'
<1>1. /\ now \in Nat /\ now' = now /\ began \in Int
      /\ time \in [TimerName -> Int] /\ session_timers \in [Slots -> Int]
      /\ state \in {"None", "InitSent", "Expired"}
  BY DEF TimersInv, TypeOK, UpdateTimers
<1>2. Sound(time)
  BY DEF TimersInv, TypeOK, NeverAhead, Sound
<1>3. /\ Sound(Current) /\ Current["Current"] = now
      /\ Current["LastHandshakeStarted"] = time["LastHandshakeStarted"]
  BY <1>1, <1>2, CurrentSound DEF TimerName
<1>4. ASSUME state = "Expired" PROVE TimersInv'
  <2>1. UpdateSessionTimers /\ time' = Current /\ UNCHANGED handshake
    BY <1>4 DEF UpdateTimers
  <2>2. /\ Sound(time') /\ time'["Current"] = now
        /\ UNCHANGED <<state, previous, time_sent, began>>
    BY <2>1, <1>3 DEF handshake
  <2>3. state' # "InitSent"
    BY <1>4, <2>2
  <2> QED BY <1>1, <2>1, <2>2, <2>3, RanKeeps
<1>5. ASSUME state # "Expired", GivesUp, Expire PROVE TimersInv'
  <2>1. Sound(time') /\ \A n \in TimerName : time'[n] = now
    BY <1>1, <1>5, ClearSound DEF Expire
  <2>2. TypeOK'
    BY <1>1, <1>5, <2>1 DEF Expire, NoneSent, TypeOK, Sound
  <2>3. NeverAhead'
    <3>1. \A i \in Slots : 0 <= session_timers[i] /\ session_timers[i] <= now
      BY <1>1, <1>2 DEF TimersInv, NeverAhead, TimerName
    <3>2. \A i \in Slots : session_timers'[i] \in {now, session_timers[i]}
      BY <1>5 DEF Expire
    <3>3. \A i \in Slots : 0 <= session_timers'[i] /\ session_timers'[i] <= now
      BY <1>1, <3>1, <3>2
    <3>4. time_sent' = 0 /\ time'["Current"] = now
      BY <1>5, <2>1 DEF Expire, NoneSent, TimerName
    <3> QED BY <1>1, <2>1, <3>3, <3>4 DEF NeverAhead
  <2>4. SessionTimed' /\ SessionsDie' /\ ExpiredIsOver'
    BY <1>5 DEF Expire, SessionTimed, SessionsDie, ExpiredIsOver
  <2>5. AttemptTimed' /\ RetriesCease'
    BY <1>5 DEF Expire, AttemptTimed, RetriesCease
  <2> QED BY <2>2, <2>3, <2>4, <2>5 DEF TimersInv
<1>6. ASSUME state # "Expired", ~ GivesUp, UpdateSessionTimers, NEW t, Initiate(t),
             Sound(t), t["Current"] = now,
             t["LastHandshakeStarted"] = time["LastHandshakeStarted"]
      PROVE  TimersInv'
  <2>1. state = "InitSent" => now - time["LastHandshakeStarted"] < RekeyAttempt
    BY <1>1, <1>6, TimersAssumption DEF GivesUp, Age, TimerName
  <2>2. state = "InitSent" => time["LastHandshakeStarted"] <= began
    BY DEF TimersInv, AttemptTimed
  <2>3. state = "InitSent" => t["Current"] - began < RekeyAttempt
    BY <1>1, <1>6, <2>1, <2>2, TimersAssumption DEF TimerName
  <2>4. /\ Sound(time') /\ time'["Current"] = now
        /\ state' = "InitSent" /\ time_sent' = now /\ began' \in Int
        /\ time'["LastHandshakeStarted"] <= began'
        /\ time'["Current"] - began' < RekeyAttempt
    BY <1>6, <2>2, <2>3, InitiateSound
  <2> QED BY <1>1, <1>6, <2>4, RanKeeps
<1>7. ASSUME state # "Expired", ~ GivesUp, UpdateSessionTimers, UNCHANGED handshake,
             Sound(time'), time'["Current"] = now,
             time'["LastHandshakeStarted"] = time["LastHandshakeStarted"]
      PROVE  TimersInv'
  <2>1. state = "InitSent" => now - time["LastHandshakeStarted"] < RekeyAttempt
    BY <1>1, <1>7, TimersAssumption DEF GivesUp, Age, TimerName
  <2>2. state = "InitSent" => time["LastHandshakeStarted"] <= began
    BY DEF TimersInv, AttemptTimed
  <2>3. state = "InitSent" => now - began < RekeyAttempt
    BY <1>1, <2>1, <2>2, TimersAssumption DEF TimerName
  <2>4. UNCHANGED <<state, previous, time_sent, began>>
    BY <1>7 DEF handshake
  <2> QED BY <1>1, <1>7, <2>2, <2>3, <2>4, RanKeeps
<1>8. ASSUME state = "InitSent", ~ GivesUp PROVE TimersInv'
  <2>1. /\ UpdateSessionTimers
        /\ \/ Initiate(Current)
           \/ time' = Current /\ UNCHANGED handshake
    BY <1>8 DEF UpdateTimers
  <2> QED BY <1>3, <1>6, <1>7, <1>8, <2>1
<1>9. ASSUME state = "None", ~ GivesUp PROVE TimersInv'
  <2>1. UpdateSessionTimers /\ Idle
    BY <1>9 DEF UpdateTimers
  <2> DEFINE t == IF PersistentDue THEN Tick(Current, {"PersistentKeepalive"}) ELSE Current
  <2>2. /\ Sound(t) /\ t["Current"] = now
        /\ t["LastHandshakeStarted"] = time["LastHandshakeStarted"]
    BY <1>3, TickSound DEF TimerName
  <2>3. \/ Initiate(Current) \/ Initiate(t)
        \/ time' = Tick(t, {"LastPacketSent"}) /\ UNCHANGED handshake
        \/ time' = t /\ UNCHANGED handshake
    BY <2>1 DEF Idle
  <2> HIDE DEF t
  <2>4. LET u == Tick(t, {"LastPacketSent"})
        IN  /\ Sound(u) /\ u["Current"] = now
            /\ u["LastHandshakeStarted"] = time["LastHandshakeStarted"]
    BY <2>2, TickSound DEF TimerName
  <2>5. state # "Expired"
    BY <1>9
  <2> QED BY <1>3, <1>6, <1>7, <1>9, <2>1, <2>2, <2>3, <2>4, <2>5
<1>10. \/ state = "Expired"
       \/ state # "Expired" /\ GivesUp /\ Expire
       \/ state = "InitSent" /\ ~ GivesUp
       \/ state = "None" /\ ~ GivesUp
  BY DEF UpdateTimers
<1> QED BY <1>4, <1>5, <1>8, <1>9, <1>10

\* A call that leaves the ring and the handshake alone may tick timers.
LEMMA TickKeeps ==
    ASSUME TimersInv, NEW names, time' = Tick(time, names), "LastHandshakeStarted" \notin names,
           UNCHANGED <<now, session_timers, sessions, handshake>>
    PROVE  TimersInv'
<1>1. Sound(time)
  BY DEF TimersInv, TypeOK, NeverAhead, Sound
<1>2. /\ Sound(time') /\ time'["Current"] = time["Current"]
      /\ time'["LastHandshakeStarted"] = time["LastHandshakeStarted"]
  BY <1>1, TickSound DEF TimerName
<1>3. TypeOK' /\ NeverAhead'
  BY <1>2 DEF TimersInv, TypeOK, NeverAhead, Sound, handshake
<1>4. SessionTimed' /\ SessionsDie' /\ AttemptTimed' /\ ExpiredIsOver' /\ RetriesCease'
  BY <1>2 DEF TimersInv, SessionTimed, SessionsDie, AttemptTimed, ExpiredIsOver, RetriesCease, handshake
<1> QED BY <1>3, <1>4 DEF TimersInv

\* Every call that sets timers, every tick of the clock and every run of
\* update_timers keeps TimersInv.
LEMMA StepTimers == TimersInv /\ [Next]_vars => TimersInv'
<1> SUFFICES ASSUME TimersInv, [Next]_vars PROVE TimersInv'
  OBVIOUS
<1>1. /\ Sound(time) /\ now \in Nat /\ began \in Int
      /\ time["Current"] \in Int /\ time["Current"] <= now
      /\ time["LastHandshakeStarted"] \in Int
  BY DEF TimersInv, TypeOK, NeverAhead, Sound, TimerName
<1>2. CASE Encapsulate
  <2>1. CASE sessions[current] # None
    BY <1>2, <2>1, TickKeeps DEF Encapsulate, ring
  <2>2. CASE sessions[current] = None /\ state = "InitSent"
    <3>1. UNCHANGED <<now, time, session_timers, sessions, handshake>>
      BY <1>2, <2>2 DEF Encapsulate, ring
    <3> QED BY <3>1, Zenon DEF TimersInv, TypeOK, NeverAhead, SessionTimed, AttemptTimed,
                               ExpiredIsOver, SessionsDie, RetriesCease, handshake
  <2>3. CASE sessions[current] = None /\ state # "InitSent"
    <3>1. /\ Initiate(time) /\ state # "InitSent"
          /\ UNCHANGED <<now, session_timers, sessions>>
      BY <1>2, <2>3 DEF Encapsulate, ring
    <3>2. /\ Sound(time')
          /\ time'["Current"] = IF state = "Expired" THEN now ELSE time["Current"]
          /\ state' = "InitSent" /\ time_sent' = now /\ began' \in Int
          /\ time'["LastHandshakeStarted"] <= began'
          /\ time'["Current"] - began' < RekeyAttempt
      BY <1>1, <3>1, InitiateSound
    <3>3. TypeOK' /\ NeverAhead'
      BY <1>1, <3>1, <3>2 DEF TimersInv, TypeOK, NeverAhead, Sound
    <3>4. SessionTimed' /\ SessionsDie'
      BY <3>1, <3>2 DEF TimersInv, SessionTimed, SessionsDie, ExpiredIsOver
    <3>5. AttemptTimed' /\ ExpiredIsOver' /\ RetriesCease'
      BY <3>2 DEF AttemptTimed, ExpiredIsOver, RetriesCease
    <3> QED BY <3>3, <3>4, <3>5 DEF TimersInv
  <2> QED BY <2>1, <2>2, <2>3
<1>3. ASSUME NEW slot \in Slots, HandleInit(slot) PROVE TimersInv'
  <2> DEFINE names == {"LastPacketReceived", "LastPacketSent", "SessionEstablished"}
  <2>1. time' = Tick(time, names) /\ now' = now /\ state' = "None"
        /\ time_sent' = 0 /\ began' = 0 /\ Establish(slot, FALSE)
    BY <1>3 DEF HandleInit, NoneSent
  <2>2. /\ Sound(time') /\ time'["Current"] = time["Current"]
        /\ time'["LastHandshakeStarted"] = time["LastHandshakeStarted"]
    BY <1>1, <2>1, TickSound DEF TimerName
  <2> QED BY <2>1, <2>2, EstablishKeeps
<1>4. ASSUME NEW slot \in Slots, HandleResponse(slot) PROVE TimersInv'
  <2>1. time' = Tick(time, {"LastPacketReceived", "SessionEstablished"}) /\ now' = now
        /\ Establish(slot, TRUE)
    BY <1>4 DEF HandleResponse
  <2>2. /\ Sound(time') /\ time'["Current"] = time["Current"]
        /\ time'["LastHandshakeStarted"] = time["LastHandshakeStarted"]
    BY <1>1, <2>1, TickSound DEF TimerName
  <2>3. \/ state' = "None" /\ time_sent' = 0 /\ began' = 0
        \/ state # "Expired" /\ UNCHANGED <<state, time_sent, began>>
    BY <1>4 DEF HandleResponse, NoneSent, TimersInv, ExpiredIsOver
  <2> QED BY <2>1, <2>2, <2>3, EstablishKeeps
<1>5. ASSUME NEW slot \in Slots, NEW keepalive \in BOOLEAN, HandleData(slot, keepalive)
      PROVE  TimersInv'
  <2> DEFINE names == {"LastPacketReceived"}
                        \cup IF keepalive THEN {} ELSE {"LastDataPacketReceived"}
  <2>1. /\ time' = Tick(time, names) /\ UNCHANGED <<now, session_timers, sessions, handshake>>
    BY <1>5 DEF HandleData
  <2>2. "LastHandshakeStarted" \notin names
    OBVIOUS
  <2> QED BY <2>1, <2>2, TickKeeps
<1>6. CASE HandleCookieReply
  BY <1>6, TickKeeps DEF HandleCookieReply, ring
<1>7. CASE Elapse
  <2>1. now' = now + 1 /\ UNCHANGED <<time, session_timers, sessions, state, previous, time_sent, began>>
    BY <1>7 DEF Elapse, ring, handshake
  <2> QED BY <1>1, <2>1 DEF TimersInv, TypeOK, NeverAhead, SessionTimed, AttemptTimed, ExpiredIsOver,
                SessionsDie, RetriesCease
<1>8. CASE UpdateTimers
  BY <1>8, UpdateTimersKeeps
<1>9. CASE UNCHANGED vars
  BY <1>9 DEF vars, ring, handshake, TimersInv, TypeOK, NeverAhead, SessionTimed, AttemptTimed,
     ExpiredIsOver, SessionsDie, RetriesCease
<1> QED BY <1>2, <1>3, <1>4, <1>5, <1>6, <1>7, <1>8, <1>9 DEF Next

\* Timers, sessions and the handshake stay in step whatever calls, ticks and
\* runs of update_timers there are.
THEOREM TimersInvariant == Spec => []TimersInv
BY InitTimers, StepTimers, PTL DEF Spec

\* No Duration that update_timers computes is negative: no timer is ever ahead
\* of the clock, for any timeouts and any length of time.
THEOREM TimersAreNeverAhead == Spec => []NeverAhead
<1>1. TimersInv => NeverAhead
  BY DEF TimersInv
<1> QED BY <1>1, TimersInvariant, PTL

\* update_session_timers leaves no session that was established longer ago than
\* REJECT_AFTER_TIME, although the timer it looks at is not the session's age.
THEOREM SessionsDoDie == Spec => []SessionsDie
<1>1. TimersInv => SessionsDie
  BY DEF TimersInv
<1> QED BY <1>1, TimersInvariant, PTL

\* update_timers resends no initiation of an attempt that began REKEY_ATTEMPT_TIME
\* or longer ago.
THEOREM RetriesDoCease == Spec => []RetriesCease
<1>1. TimersInv => RetriesCease
  BY DEF TimersInv
<1> QED BY <1>1, TimersInvariant, PTL
=============================================================================
