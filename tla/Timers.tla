------------------------------- MODULE Timers -------------------------------
(***************************************************************************)
(* The timers of a tunnel (boringtun/src/noise/timers.rs) with the calls   *)
(* of noise/mod.rs that set them, and the device timer that drives them    *)
(* (register_timers in device/mod.rs), which passes over a peer whose      *)
(* endpoint is not known.                                                  *)
(*                                                                         *)
(* TimeCurrent is the clock as update_timers last saw it, and every other  *)
(* timer is set to it, not to the clock.  The clock advances in ticks no   *)
(* shorter than the 250 ms between two runs of the device timer.           *)
(***************************************************************************)
EXTENDS Integers

CONSTANTS
    RekeyAfter,    \* REKEY_AFTER_TIME
    RejectAfter,   \* REJECT_AFTER_TIME
    RekeyAttempt,  \* REKEY_ATTEMPT_TIME
    RekeyTimeout,  \* REKEY_TIMEOUT
    Keepalive,     \* KEEPALIVE_TIMEOUT
    CookieExpiry,  \* COOKIE_EXPIRATION_TIME
    Persistent,    \* persistent_keepalive, 0 for none
    Slots,         \* the session ring
    Known,         \* whether the endpoint may be configured, or unknown, at first
    Events,        \* the events that happen: "handshake", "data", "cookie"
    None,          \* no time
    MaxTime        \* bound: ticks of the clock

ASSUME TimersAssumption ==
    /\ RekeyAfter \in Nat /\ RekeyAttempt \in Nat \ {0}
    /\ RekeyTimeout \in Nat /\ Keepalive \in Nat /\ RejectAfter \in Nat
    /\ RejectAfter >= Keepalive + RekeyTimeout
    /\ CookieExpiry \in Nat /\ Persistent \in Nat
    /\ Slots # {}
    /\ Known \subseteq BOOLEAN /\ Known # {}
    /\ None \notin Int
    /\ MaxTime \in Nat

VARIABLES
    now,             \* the clock, from time_started
    endpoint,        \* endpoint.addr is known
    time,            \* the array timers, by TimerName
    want_keepalive, want_handshake, is_initiator,
    session_timers,  \* by slot
    sessions,        \* by slot: history, the clock when it was established, or None
    current,         \* the slot in use
    state, previous, \* of the handshake
    time_sent,       \* of the InitSent state, 0 in others
    last_mac1,       \* a handshake message was sent that a cookie reply may answer
    cookie,          \* has_cookie
    began,           \* history: the clock when the attempt in progress began, or 0
    queued           \* history: encapsulate queued a packet behind the attempt in progress,
                     \* in this tick and since update_timers ran

flags == <<want_keepalive, want_handshake, is_initiator>>
ring == <<session_timers, sessions, current>>
handshake == <<state, previous, time_sent, last_mac1, began>>
vars == <<now, endpoint, time, flags, ring, handshake, cookie, queued>>

TimerName == {"Current", "SessionEstablished", "LastHandshakeStarted", "LastPacketReceived",
              "LastPacketSent", "LastDataPacketReceived", "LastDataPacketSent",
              "CookieReceived", "PersistentKeepalive"}

Init ==
    /\ now = 0
    /\ endpoint \in Known
    /\ time = [n \in TimerName |-> 0]
    /\ want_keepalive = FALSE /\ want_handshake = FALSE /\ is_initiator = FALSE
    /\ session_timers = [i \in Slots |-> 0]
    /\ sessions = [i \in Slots |-> None]
    /\ current \in Slots
    /\ state = "None" /\ previous = "None" /\ time_sent = 0
    /\ last_mac1 = FALSE
    /\ cookie = FALSE
    /\ began = 0 /\ queued = FALSE

-----------------------------------------------------------------------------
\* Timer values, as functions of the array t

\* timer_tick of several timers
Tick(t, names) == [n \in TimerName |-> IF n \in names THEN t["Current"] ELSE t[n]]

\* Timers::clear
Clear == [n \in TimerName |-> now]

Sent == want_keepalive' = FALSE /\ want_handshake' = TRUE

\* a fault: every initiation starts the attempt anew
InitiationRestarts(t) == Tick(IF state = "Expired" THEN Clear ELSE t,
                              {"LastHandshakeStarted", "LastPacketSent"})

(***************************************************************************)
(* What format_handshake_initiation makes of the timers: from Expired they *)
(* all start over, and an attempt begins unless one is in progress.        *)
(***************************************************************************)
Initiation(t) ==
    LET fresh == IF state = "Expired" THEN Clear ELSE t
    IN  Tick(fresh, {"LastPacketSent"}
                      \cup IF state = "InitSent" THEN {} ELSE {"LastHandshakeStarted"})

Initiate(t) ==
    /\ time' = Initiation(t)
    /\ Sent
    /\ previous' = state /\ state' = "InitSent" /\ time_sent' = now /\ last_mac1' = TRUE
    /\ began' = IF state = "InitSent" THEN began ELSE now

\* time_sent goes with the InitSent state
NoneSent == time_sent' = 0 /\ began' = 0

-----------------------------------------------------------------------------
\* Calls that set timers

\* encapsulate a packet of the interface: without a session it is queued, and a handshake
\* begun unless one is in progress
Encapsulate ==
    /\ "data" \in Events
    /\ IF sessions[current] # None
       THEN /\ time' = Tick(time, {"LastPacketSent", "LastDataPacketSent"})
            /\ Sent
            /\ UNCHANGED <<handshake, queued>>
       ELSE IF state = "InitSent"
       THEN /\ queued' = TRUE
            /\ UNCHANGED <<time, want_keepalive, want_handshake, handshake>>
       ELSE /\ Initiate(time)
            /\ queued' = FALSE
    /\ UNCHANGED <<now, endpoint, is_initiator, ring, cookie>>

SetCurrent(new) ==
    current' = IF sessions'[current] = None \/ session_timers'[new] >= session_timers'[current]
               THEN new ELSE current

\* a session is stored and timer_tick_session_established called
Establish(slot, initiator) ==
    /\ sessions' = [sessions EXCEPT ![slot] = now]
    /\ session_timers' = [session_timers EXCEPT ![slot] = time["Current"]]
    /\ is_initiator' = initiator
    /\ endpoint' = TRUE

\* handle_(pq_)handshake_init
HandleInit(slot) ==
    /\ "handshake" \in Events
    /\ previous' = state /\ state' = "None" /\ last_mac1' = TRUE /\ NoneSent
    /\ time' = Tick(time, {"LastPacketReceived", "LastPacketSent", "SessionEstablished"})
    /\ Sent
    /\ Establish(slot, FALSE)
    /\ queued' = FALSE
    /\ UNCHANGED <<now, current, cookie>>

\* handle_(pq_)handshake_response; the keepalive it sends sets no timer
HandleResponse(slot) ==
    /\ "handshake" \in Events
    /\ \/ /\ state = "InitSent"
          /\ state' = "None" /\ NoneSent /\ UNCHANGED previous
       \/ /\ previous = "InitSent"
          /\ previous' = "None" /\ UNCHANGED <<state, time_sent, began>>
    /\ UNCHANGED last_mac1
    /\ time' = Tick(time, {"LastPacketReceived", "SessionEstablished"})
    /\ want_keepalive' = TRUE /\ want_handshake' = FALSE
    /\ Establish(slot, TRUE)
    /\ SetCurrent(slot)
    /\ queued' = FALSE
    /\ UNCHANGED <<now, cookie>>

\* handle_data in the session of a slot, a keepalive or a packet for the interface
HandleData(slot, keepalive) ==
    /\ "data" \in Events
    /\ sessions[slot] # None
    /\ time' = Tick(time, {"LastPacketReceived"}
                             \cup IF keepalive THEN {} ELSE {"LastDataPacketReceived"})
    /\ want_keepalive' = TRUE /\ want_handshake' = FALSE
    /\ endpoint' = TRUE
    /\ UNCHANGED <<session_timers, sessions>>
    /\ SetCurrent(slot)
    /\ UNCHANGED <<now, is_initiator, handshake, cookie, queued>>

\* handle_cookie_reply, to the last handshake message of ours, however late
HandleCookieReply ==
    /\ "cookie" \in Events
    /\ last_mac1
    /\ time' = Tick(time, {"LastPacketReceived", "CookieReceived"})
    /\ want_keepalive' = TRUE /\ want_handshake' = FALSE
    /\ cookie' = TRUE
    /\ endpoint' = TRUE
    /\ UNCHANGED <<now, is_initiator, ring, handshake, queued>>

\* Time passes; the device timer does not fall behind by a tick.
Elapse ==
    /\ now < MaxTime
    /\ endpoint => time["Current"] = now
    /\ now' = now + 1
    /\ queued' = FALSE
    /\ UNCHANGED <<endpoint, time, flags, ring, handshake, cookie>>

-----------------------------------------------------------------------------
\* update_timers

Age(name) == now - time[name]

\* a fault: the clock is rounded up
CurrentRoundedUp == [time EXCEPT !["Current"] = now + 1]

\* TimeCurrent is set first
Current == [time EXCEPT !["Current"] = now]

\* a fault: a session is kept one tick too long
TooOldLate == { i \in Slots : now - session_timers[i] > RejectAfter + 1 }

TooOld == { i \in Slots : now - session_timers[i] > RejectAfter }

UpdateSessionTimers ==
    /\ sessions' = [i \in Slots |-> IF i \in TooOld THEN None ELSE sessions[i]]
    /\ session_timers' = [i \in Slots |-> IF i \in TooOld THEN now ELSE session_timers[i]]

ClearCookie ==
    cookie' = (cookie /\ ~ (state # "Expired" /\ Age("CookieReceived") >= CookieExpiry))

GivesUp ==
    \/ Age("SessionEstablished") >= RejectAfter * 3
    \/ state = "InitSent" /\ Age("LastHandshakeStarted") >= RekeyAttempt

\* set_expired and clear_all
Expire ==
    /\ state' = "Expired" /\ previous' = "Expired" /\ NoneSent /\ UNCHANGED last_mac1
    /\ sessions' = [i \in Slots |-> None]
    /\ session_timers' = [i \in Slots |-> IF i \in TooOld THEN now ELSE session_timers[i]]
    /\ time' = Clear
    /\ want_keepalive' = FALSE /\ want_handshake' = FALSE

\* the initiator rekeys, on send or on receive
Rekeys ==
    /\ is_initiator
    /\ \/ /\ time["SessionEstablished"] < time["LastDataPacketSent"]
          /\ Age("SessionEstablished") >= RekeyAfter
       \/ /\ time["SessionEstablished"] < time["LastDataPacketReceived"]
          /\ Age("SessionEstablished") >= RejectAfter - Keepalive - RekeyTimeout

NothingHeard ==
    /\ time["LastDataPacketSent"] > time["LastPacketReceived"]
    /\ Age("LastPacketReceived") >= Keepalive + RekeyTimeout

NothingSent ==
    /\ time["LastDataPacketReceived"] > time["LastPacketSent"]
    /\ Age("LastPacketSent") >= Keepalive

PersistentDue == Persistent > 0 /\ Age("PersistentKeepalive") >= Persistent

\* no handshake of ours is awaited: rekey, or a keepalive, or neither
Idle ==
    IF Rekeys \/ (NothingHeard /\ want_handshake)
    THEN Initiate(Current)
    ELSE LET t == IF PersistentDue THEN Tick(Current, {"PersistentKeepalive"}) ELSE Current
         IN  IF PersistentDue \/ (NothingSent /\ want_keepalive)
             THEN IF sessions'[current] # None
                  THEN /\ time' = Tick(t, {"LastPacketSent"})
                       /\ Sent
                       /\ UNCHANGED handshake
                  ELSE Initiate(t)
             ELSE /\ time' = t
                  /\ want_handshake' = (want_handshake /\ ~ NothingHeard)
                  /\ want_keepalive' = (want_keepalive /\ ~ NothingSent)
                  /\ UNCHANGED handshake

UpdateTimers ==
    /\ endpoint
    /\ ClearCookie
    /\ \/ /\ state = "Expired"
          /\ UpdateSessionTimers
          /\ time' = Current
          /\ UNCHANGED <<want_keepalive, want_handshake, handshake>>
       \/ /\ state # "Expired" /\ GivesUp
          /\ Expire
       \/ /\ state = "InitSent" /\ ~ GivesUp
          /\ UpdateSessionTimers
          /\ IF now - time_sent >= RekeyTimeout
             THEN Initiate(Current)
             ELSE time' = Current /\ UNCHANGED <<want_keepalive, want_handshake, handshake>>
       \/ /\ state = "None" /\ ~ GivesUp
          /\ UpdateSessionTimers
          /\ Idle
    /\ queued' = FALSE
    /\ UNCHANGED <<now, endpoint, is_initiator, current>>

Next ==
    \/ Encapsulate
    \/ \E slot \in Slots :
          \/ HandleInit(slot)
          \/ HandleResponse(slot)
          \/ \E keepalive \in BOOLEAN : HandleData(slot, keepalive)
    \/ HandleCookieReply
    \/ Elapse
    \/ UpdateTimers

Spec == Init /\ [][Next]_vars

-----------------------------------------------------------------------------

(***************************************************************************)
(* update_timers and time_since_last_handshake subtract timers from the    *)
(* clock as Durations, which panics below zero: no timer is ever ahead of  *)
(* the clock, whatever order calls, expiry and Timers::clear come in.      *)
(***************************************************************************)
NeverAhead ==
    /\ \A n \in TimerName : 0 <= time[n] /\ time[n] <= time["Current"]
    /\ \A i \in Slots : 0 <= session_timers[i] /\ session_timers[i] <= time["Current"]
    /\ time["Current"] <= now /\ time_sent <= now

(***************************************************************************)
(* No session outlives REJECT_AFTER_TIME: after each run of the timer the  *)
(* sessions in the ring were established no longer ago than that, although *)
(* their timers hold TimeCurrent and a slot's timer is reset with it.      *)
(***************************************************************************)
SessionsDie ==
    \A i \in Slots : sessions[i] # None => time["Current"] - sessions[i] <= RejectAfter

(***************************************************************************)
(* "After REKEY_ATTEMPT_TIME ms of trying to initiate a new handshake, the *)
(* retries give up and cease" (timers.rs): however often an initiation is  *)
(* sent again, the attempt it belongs to began less than that long ago.    *)
(* The comment goes on: "If a packet is explicitly queued up to be sent,   *)
(* then this timer is reset."  The code does not do that: QueueingResets.  *)
(***************************************************************************)
RetriesCease ==
    state = "InitSent" => time["Current"] - began < RekeyAttempt

(***************************************************************************)
(* "All ephemeral private keys and symmetric session keys are zeroed out   *)
(* after (REJECT_AFTER_TIME * 3) ms if no new keys have been exchanged."   *)
(* (timers.rs): and not while the ring has a session newer than that.      *)
(***************************************************************************)
FreshKeysKept ==
    [][state = "None" /\ state' = "Expired" =>
         \A i \in Slots : sessions[i] # None => now - sessions[i] >= RejectAfter * 3]_vars

(***************************************************************************)
(* "If a packet is explicitly queued up to be sent, then this timer is     *)
(* reset" (timers.rs): update_timers does not end the attempt, and drop    *)
(* the packet, in the tick in which encapsulate queued it.                 *)
(***************************************************************************)
QueueingResets ==
    [][queued /\ state = "InitSent" /\ state' = "Expired" =>
         Age("SessionEstablished") >= RejectAfter * 3]_vars

-----------------------------------------------------------------------------
\* The inductive invariant of module TimersProofs

TypeOK ==
    /\ now \in Nat
    /\ time \in [TimerName -> Int]
    /\ session_timers \in [Slots -> Int]
    /\ sessions \in [Slots -> Int \cup {None}]
    /\ state \in {"None", "InitSent", "Expired"}
    /\ time_sent \in Int /\ began \in Int

\* The timer of a slot is no later than the session in it.
SessionTimed ==
    \A i \in Slots : sessions[i] # None => session_timers[i] <= sessions[i]

\* TimeLastHandshakeStarted is no later than the attempt in progress.
AttemptTimed ==
    state = "InitSent" => time["LastHandshakeStarted"] <= began

\* After set_expired no handshake is awaited, and no session is left.
ExpiredIsOver ==
    state = "Expired" => previous = "Expired" /\ \A i \in Slots : sessions[i] = None

TimersInv ==
    /\ TypeOK /\ NeverAhead /\ SessionTimed /\ AttemptTimed /\ ExpiredIsOver
    /\ SessionsDie /\ RetriesCease
=============================================================================
