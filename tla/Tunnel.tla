------------------------------- MODULE Tunnel -------------------------------
(***************************************************************************)
(* Two tunnel endpoints (struct Tunn of boringtun/src/noise/mod.rs with    *)
(* its Handshake of noise/handshake.rs) and the network between them.      *)
(*                                                                         *)
(* Every method takes &mut self, so one call is one step.  The network     *)
(* keeps every datagram ever sent and may deliver it at any time, any      *)
(* number of times or never.  Cryptography is symbolic: a message carries  *)
(* the identities its transcript binds, and opens exactly for the same     *)
(* transcript.  The fresh secrets of a handshake message are known by a    *)
(* number that is never used again.                                        *)
(*                                                                         *)
(* An endpoint may be made anew at any time (Tunn::new: the process was    *)
(* restarted, or the peer removed and added again) and may be given        *)
(* another private key while it is in use (set_static_private).  The other *)
(* side learns of a new public key only when it is made anew itself.       *)
(*                                                                         *)
(* update_timers is here with three of its effects, each possible at any   *)
(* time: the clock advances and old sessions go, a handshake is (re)sent,  *)
(* the connection expires.                                                 *)
(***************************************************************************)
EXTENDS Integers, FiniteSets

CONSTANTS
    Endpoints,    \* the two peers
    Builds,       \* the sets of peers that may have been built with the pq feature
    NSessions,    \* N_SESSIONS, the size of the session ring
    IndexSpace,   \* how many session indices a peer has (256: the low 8 bits)
    RejectAfter,  \* REJECT_AFTER_TIME, in ticks
    Faults,       \* how answering an initiation may fail: "small", "badkey"
    None,         \* an empty slot of the ring
    MaxMade,      \* bound: secrets the two peers make together
    MaxStamp,     \* bound: distinct handshake timestamps of a peer
    MaxData,      \* bound: data packets sealed before encapsulate seals no more
    MaxRekeys,    \* bound: new private keys of the two peers together
    MaxTurns      \* bound: ticks, expiries, restarts and new private keys together

ASSUME TunnelAssumption ==
    /\ \E a, b \in Endpoints : a # b /\ Endpoints = {a, b}
    /\ Builds \subseteq SUBSET Endpoints
    /\ Faults \subseteq {"small", "badkey"}
    /\ NSessions \in Nat \ {0}
    /\ IndexSpace \in Nat \ {0}
    /\ IndexSpace % NSessions = 0
    /\ RejectAfter \in Nat
    /\ MaxMade \in Nat /\ MaxStamp \in Nat \ {0} /\ MaxData \in Nat
    /\ MaxRekeys \in Nat /\ MaxTurns \in Nat

VARIABLES
    state,        \* handshake.state
    previous,     \* handshake.previous
    next_index,   \* the low byte of handshake.next_index
    made,         \* how many secrets a peer has made in all its lives
    static,       \* which of its private keys a peer has
    known,        \* which of the other's public keys it was made with
    turns,        \* how many ticks, expiries, restarts and new keys there were, for MaxTurns
    stamp,        \* the last timestamp taken by the stamper
    last_ts,      \* last_handshake_timestamp, of the peer's initiations
    sessions,     \* the ring
    session_timers,  \* when the session of a slot was established
    current,      \* index of the session in use
    now,          \* TimeCurrent
    msgs,         \* every datagram sent
    Pq,           \* the peers built with the pq feature
    installed     \* history: the keys a peer has put into its ring

config == <<static, known, turns, Pq>>
vars == <<state, previous, next_index, made, stamp, last_ts, sessions, session_timers,
          current, now, msgs, config, installed>>

Other(n) == CHOOSE m \in Endpoints : m # n

\* inc_index counts up in the low byte only
IncIndex(idx) == (idx + 1) % IndexSpace

Slot(idx) == idx % NSessions

Slots == 0 .. NSessions - 1

Total(f) == LET n == CHOOSE m \in Endpoints : TRUE IN f[n] + f[Other(n)]

(***************************************************************************)
(* The secrets of the next handshake message of n, with the index that     *)
(* goes with them on the wire.  Indices start over in a new life.          *)
(***************************************************************************)
Fresh(n) == [id |-> made[n] + 1, idx |-> IncIndex(next_index[n])]

Draw(n) ==
    /\ Total(made) < MaxMade
    /\ made' = [made EXCEPT ![n] = @ + 1]
    /\ next_index' = [next_index EXCEPT ![n] = IncIndex(@)]

\* One of the events that MaxTurns bounds
Turn == turns < MaxTurns /\ turns' = turns + 1

-----------------------------------------------------------------------------
\* Handshake states, messages and sessions

NoHandshake == [tag |-> "None"]
InitSent(e, pq) == [tag |-> "InitSent", eph |-> e, pq |-> pq]
InitReceived == [tag |-> "InitReceived"]
Expired == [tag |-> "Expired"]

IsInProgress(hs) == hs.tag \notin {"None", "Expired"}

(***************************************************************************)
(* The symmetric keys of a session: who initiated, both ephemerals, the    *)
(* static keys of the two roles, and which chain.                          *)
(***************************************************************************)
Eph == [id : 1 .. MaxMade, idx : 0 .. IndexSpace - 1]
Key == [ini : Endpoints, ieph : Eph, reph : Eph, istatic : 0 .. MaxRekeys,
        rstatic : 0 .. MaxRekeys, pq : BOOLEAN]

\* The index, and the static key, that n contributed to a key.
Local(n, key) == IF key.ini = n THEN key.ieph.idx ELSE key.reph.idx
OwnStatic(n, key) == IF key.ini = n THEN key.istatic ELSE key.rstatic

InitMsg(n, e, ts, pq) ==
    [type |-> "Init", from |-> n, eph |-> e, ts |-> ts, pq |-> pq,
     istatic |-> static[n], rstatic |-> known[n]]
RespMsg(n, key) == [type |-> "Resp", from |-> n, key |-> key]
DataMsg(n, key, ctr) == [type |-> "Data", from |-> n, key |-> key, ctr |-> ctr]

\* sent: sending_key_counter; got: the counters the replay window has accepted
Session(key, sent) == [key |-> key, sent |-> sent, got |-> {}]

Init ==
    /\ state = [n \in Endpoints |-> NoHandshake]
    /\ previous = [n \in Endpoints |-> NoHandshake]
    /\ next_index = [n \in Endpoints |-> 0]
    /\ made = [n \in Endpoints |-> 0]
    /\ static = [n \in Endpoints |-> 0]
    /\ known = [n \in Endpoints |-> 0]
    /\ turns = 0
    /\ stamp = [n \in Endpoints |-> 1]
    /\ last_ts = [n \in Endpoints |-> 0]
    /\ sessions = [n \in Endpoints |-> [i \in Slots |-> None]]
    /\ session_timers = [n \in Endpoints |-> [i \in Slots |-> 0]]
    /\ current = [n \in Endpoints |-> 0]
    /\ now = [n \in Endpoints |-> 0]
    /\ msgs = {}
    /\ Pq \in Builds
    /\ installed = [n \in Endpoints |-> {}]

-----------------------------------------------------------------------------
\* Sending

(***************************************************************************)
(* format_(pq_)handshake_initiation: a fresh index, ephemeral and          *)
(* timestamp; the handshake in progress, if any, becomes the previous one. *)
(* A clock of coarse resolution may yield the same timestamp again.        *)
(***************************************************************************)
Initiate(n) ==
    /\ Draw(n)
    /\ \E ts \in {stamp[n], stamp[n] + 1} \cap 1 .. MaxStamp :
         /\ stamp' = [stamp EXCEPT ![n] = ts]
         /\ msgs' = msgs \cup {InitMsg(n, Fresh(n), ts, n \in Pq)}
    /\ previous' = [previous EXCEPT ![n] = state[n]]
    /\ state' = [state EXCEPT ![n] = InitSent(Fresh(n), n \in Pq)]
    /\ UNCHANGED <<last_ts, sessions, session_timers, current, now, config, installed>>

\* Tunn::format_handshake_initiation(dst, true): a timer fired or the API asked for it
ForceHandshake(n) == Initiate(n)

(***************************************************************************)
(* encapsulate: with a session in the current slot the packet is sealed;   *)
(* without one it is queued and a handshake starts unless one is in        *)
(* progress.  Module PacketQueue has the queue.                            *)
(***************************************************************************)
Encapsulate(n) ==
    LET s == sessions[n][Slot(current[n])]
    IN  \/ /\ s # None
           /\ Cardinality({ m \in msgs : m.type = "Data" }) < MaxData
           /\ msgs' = msgs \cup {DataMsg(n, s.key, s.sent)}
           /\ sessions' = [sessions EXCEPT ![n][Slot(current[n])].sent = @ + 1]
           /\ UNCHANGED <<state, previous, next_index, made, stamp, last_ts, session_timers,
                          current, now, config, installed>>
        \/ /\ s = None
           /\ ~ IsInProgress(state[n])
           /\ Initiate(n)

-----------------------------------------------------------------------------
\* Receiving

\* a fault: the session of the last index drawn becomes current
SetCurrentSessionLast(n, new_idx, ring, times) == next_index[n]

\* a fault: a session becomes current whatever it is compared with
SetCurrentSessionAlways(n, new_idx, ring, times) == new_idx

(***************************************************************************)
(* set_current_session, on the ring and the times its caller has already   *)
(* stored: the session stays in use unless its slot is empty or it is      *)
(* older than the new one.                                                 *)
(***************************************************************************)
SetCurrentSession(n, new_idx, ring, times) ==
    IF \/ ring[Slot(current[n])] = None
       \/ times[Slot(new_idx)] >= times[Slot(current[n])]
    THEN new_idx
    ELSE current[n]

\* a fault: a timestamp seen before is taken as new
AfterOrSame(ts, other) == ts >= other

\* Tai64N::after
After(ts, other) == ts > other

\* parse_incoming_packet knows the pq messages only when built with pq.
Parses(n, pq) == pq => n \in Pq

\* An initiation is taken: it parses in this build, its fields open, its timestamp is new.
Accepts(n, m) ==
    /\ m.type = "Init"
    /\ m.from = Other(n)
    /\ Parses(n, m.pq)
    /\ m.istatic = known[n] /\ m.rstatic = static[n]
    /\ After(m.ts, last_ts[n])

(***************************************************************************)
(* handle_(pq_)handshake_init.  The timestamp is stored and the old        *)
(* handshake state moved before the response is formatted; outcome says    *)
(* how that ends:                                                          *)
(*   "sent"   the response is written and the session stored,              *)
(*   "small"  the destination buffer is too small,                         *)
(*   "badkey" the ML-KEM encapsulation key does not decode.                *)
(***************************************************************************)
ReceiveInit(n, m, outcome) ==
    /\ Accepts(n, m)
    /\ last_ts' = [last_ts EXCEPT ![n] = m.ts]
    /\ previous' = [previous EXCEPT ![n] = state[n]]
    /\ \/ /\ outcome = "small"
          /\ state' = [state EXCEPT ![n] = InitReceived]
          /\ UNCHANGED <<next_index, made, sessions, session_timers, msgs, installed>>
       \/ /\ outcome = "badkey"
          /\ m.pq
          /\ Draw(n)
          /\ state' = [state EXCEPT ![n] = NoHandshake]
          /\ UNCHANGED <<sessions, session_timers, msgs, installed>>
       \/ /\ outcome = "sent"
          /\ Draw(n)
          /\ state' = [state EXCEPT ![n] = NoHandshake]
          /\ LET key == [ini |-> m.from, ieph |-> m.eph, reph |-> Fresh(n),
                         istatic |-> m.istatic, rstatic |-> m.rstatic, pq |-> m.pq]
                 slot == Slot(Fresh(n).idx)
             IN  /\ msgs' = msgs \cup {RespMsg(n, key)}
                 /\ sessions' = [sessions EXCEPT ![n][slot] = Session(key, 0)]
                 /\ session_timers' = [session_timers EXCEPT ![n][slot] = now[n]]
                 /\ installed' = [installed EXCEPT ![n] = @ \cup {key}]
    /\ UNCHANGED <<stamp, current, now, config>>

(***************************************************************************)
(* The outgoing handshake a response's receiver_idx names: the one in      *)
(* progress before the previous one.                                       *)
(***************************************************************************)
Awaits(hs, idx) == hs.tag = "InitSent" /\ hs.eph.idx = idx

Match(n, m) ==
    LET idx == m.key.ieph.idx
    IN  IF Awaits(state[n], idx) THEN "state"
        ELSE IF Awaits(previous[n], idx) THEN "previous"
        ELSE "neither"

Matched(n, m) == IF Match(n, m) = "state" THEN state[n] ELSE previous[n]

\* a fault: the private key of the time of the initiation is used
OpensWithOldKey(n, m) ==
    LET hs == Matched(n, m)
    IN  m.key.ini = n /\ m.key.ieph = hs.eph /\ m.key.pq = hs.pq

(***************************************************************************)
(* encrypted_nothing opens exactly for the transcript of the matched       *)
(* initiation and for the private key the peer has now.                    *)
(***************************************************************************)
Opens(n, m) ==
    LET hs == Matched(n, m)
    IN  /\ m.key.ini = n /\ m.key.ieph = hs.eph /\ m.key.pq = hs.pq
        /\ m.key.istatic = static[n]

\* a fault: the handshake that was completed still awaits a response
CompleteForgotten(n, m) == UNCHANGED <<state, previous>>

Complete(n, m) ==
    IF Match(n, m) = "previous"
    THEN previous' = [previous EXCEPT ![n] = NoHandshake] /\ UNCHANGED state
    ELSE state' = [state EXCEPT ![n] = NoHandshake] /\ UNCHANGED previous

(***************************************************************************)
(* handle_(pq_)handshake_response, when no error is returned: the session  *)
(* is stored, made current if it is the newest, and a keepalive sealed     *)
(* with its first counter goes out.                                        *)
(***************************************************************************)
ReceiveResponse(n, m) ==
    /\ m.type = "Resp"
    /\ m.from = Other(n)
    /\ Parses(n, m.key.pq)
    /\ Match(n, m) # "neither"
    /\ Matched(n, m).pq = m.key.pq
    /\ Opens(n, m)
    /\ Complete(n, m)
    /\ LET idx == m.key.ieph.idx
           ring == [sessions[n] EXCEPT ![Slot(idx)] = Session(m.key, 1)]
           times == [session_timers[n] EXCEPT ![Slot(idx)] = now[n]]
       IN  /\ sessions' = [sessions EXCEPT ![n] = ring]
           /\ session_timers' = [session_timers EXCEPT ![n] = times]
           /\ current' = [current EXCEPT ![n] = SetCurrentSession(n, idx, ring, times)]
    /\ msgs' = msgs \cup {DataMsg(n, m.key, 0)}
    /\ installed' = [installed EXCEPT ![n] = @ \cup {m.key}]
    /\ UNCHANGED <<next_index, made, stamp, last_ts, now, config>>

(***************************************************************************)
(* handle_data: the session in the slot of receiver_idx must have that     *)
(* very index, a fresh counter (module Session has the replay window) and  *)
(* the key the packet was sealed with.                                     *)
(***************************************************************************)
ReceiveData(n, m) ==
    LET idx == Local(n, m.key)
        s == sessions[n][Slot(idx)]
    IN  /\ m.type = "Data"
        /\ m.from = Other(n)
        /\ s # None
        /\ Local(n, s.key) = idx
        /\ m.ctr \notin s.got
        /\ s.key = m.key
        /\ sessions' = [sessions EXCEPT ![n][Slot(idx)].got = @ \cup {m.ctr}]
        /\ current' = [current EXCEPT ![n] =
                         SetCurrentSession(n, idx, sessions[n], session_timers[n])]
        /\ UNCHANGED <<state, previous, next_index, made, stamp, last_ts, session_timers,
                       now, msgs, config, installed>>

-----------------------------------------------------------------------------
\* Time

\* update_timers: TimeCurrent moves on, update_session_timers drops what is too old
AdvanceTime(n) ==
    /\ Turn
    /\ now' = [now EXCEPT ![n] = @ + 1]
    /\ LET old == { i \in Slots : now[n] + 1 - session_timers[n][i] > RejectAfter }
       IN  /\ sessions' = [sessions EXCEPT ![n] =
                             [i \in Slots |-> IF i \in old THEN None ELSE @[i]]]
           /\ session_timers' = [session_timers EXCEPT ![n] =
                             [i \in Slots |-> IF i \in old THEN now[n] + 1 ELSE @[i]]]
    /\ UNCHANGED <<state, previous, next_index, made, stamp, last_ts, current, msgs,
                   static, known, Pq, installed>>

\* update_timers gives up: set_expired and clear_all
Expire(n) ==
    /\ state[n] # Expired
    /\ Turn
    /\ state' = [state EXCEPT ![n] = Expired]
    /\ previous' = [previous EXCEPT ![n] = Expired]
    /\ sessions' = [sessions EXCEPT ![n] = [i \in Slots |-> None]]
    /\ UNCHANGED <<next_index, made, stamp, last_ts, session_timers, current, now, msgs,
                   static, known, Pq, installed>>

-----------------------------------------------------------------------------
\* Reconfiguration

ForgetSessions(n) == sessions' = [sessions EXCEPT ![n] = [i \in Slots |-> None]]

(***************************************************************************)
(* Tunn::new in place of the old one, with the same index and with the     *)
(* public key the other peer has now.  The timestamps come from the wall   *)
(* clock and go on; what was remembered of the other's does not.           *)
(***************************************************************************)
Restart(n) ==
    /\ Turn
    /\ known' = [known EXCEPT ![n] = static[Other(n)]]
    /\ state' = [state EXCEPT ![n] = NoHandshake]
    /\ previous' = [previous EXCEPT ![n] = NoHandshake]
    /\ next_index' = [next_index EXCEPT ![n] = 0]
    /\ last_ts' = [last_ts EXCEPT ![n] = 0]
    /\ ForgetSessions(n)
    /\ session_timers' = [session_timers EXCEPT ![n] = [i \in Slots |-> 0]]
    /\ current' = [current EXCEPT ![n] = 0]
    /\ now' = [now EXCEPT ![n] = 0]
    /\ UNCHANGED <<made, static, stamp, msgs, Pq, installed>>

(***************************************************************************)
(* set_static_private: another key, no sessions; handshakes that were      *)
(* begun stay as they are.                                                 *)
(***************************************************************************)
SetStaticPrivate(n) ==
    /\ Total(static) < MaxRekeys
    /\ Turn
    /\ static' = [static EXCEPT ![n] = @ + 1]
    /\ ForgetSessions(n)
    /\ UNCHANGED <<state, previous, next_index, made, known, stamp, last_ts, session_timers,
                   current, now, msgs, Pq, installed>>

-----------------------------------------------------------------------------

Next ==
    \E n \in Endpoints :
        \/ ForceHandshake(n)
        \/ Encapsulate(n)
        \/ AdvanceTime(n)
        \/ Expire(n)
        \/ Restart(n)
        \/ SetStaticPrivate(n)
        \/ \E m \in msgs : \E outcome \in {"sent"} \cup Faults : ReceiveInit(n, m, outcome)
        \/ \E m \in msgs : ReceiveResponse(n, m) \/ ReceiveData(n, m)

Spec == Init /\ [][Next]_vars

-----------------------------------------------------------------------------

(***************************************************************************)
(* A key's send counter never starts over: every packet ever sealed under  *)
(* the key of a session in the ring has a counter below the session's.  A  *)
(* response accepted twice would install its key a second time, with       *)
(* sending_key_counter at 0 again.                                         *)
(***************************************************************************)
NoncesFresh ==
    \A n \in Endpoints, i \in Slots :
        sessions[n][i] # None =>
            \A m \in msgs :
                m.type = "Data" /\ m.from = n /\ m.key = sessions[n][i].key
                    => m.ctr < sessions[n][i].sent

(***************************************************************************)
(* However often an initiation is delivered and however the clocks read,   *)
(* the responder keeps one session for it.  (A responder that was made     *)
(* anew has forgotten the timestamp and the session, and answers again.)   *)
(***************************************************************************)
InitAnsweredOnce ==
    \A n \in Endpoints : \A i, j \in Slots :
        LET s == sessions[n][i]
            t == sessions[n][j]
        IN  i # j /\ s # None /\ t # None
                => <<s.key.ini, s.key.ieph>> # <<t.key.ini, t.key.ieph>>

(***************************************************************************)
(* After set_static_private a peer has no session that was made with the   *)
(* old key, and no late answer to a handshake begun with the old key, nor  *)
(* an old initiation, brings one back.                                     *)
(***************************************************************************)
OwnKeyOnly ==
    \A n \in Endpoints, i \in Slots :
        sessions[n][i] # None => OwnStatic(n, sessions[n][i].key) = static[n]

\* The session that current is moved to: it is in the ring under that very index, and
\* the other peer has installed its key.  A tunnel made anew has current 0 and no session.
ToConfirmed(n) ==
    LET s == sessions'[n][Slot(current'[n])]
    IN  \/ s # None /\ Local(n, s.key) = current'[n] /\ s.key \in installed[Other(n)]
        \/ \A i \in Slots : sessions'[n][i] = None

(***************************************************************************)
(* set_current_session moves to no session that the other peer may not     *)
(* have: the responder's stays unused until the initiator's first packet   *)
(* in it, also when indices and slots have wrapped around and packets of   *)
(* sessions long overwritten arrive.  (What the slot holds later is        *)
(* another matter: current is an index modulo N_SESSIONS, and the answer   *)
(* to an initiation may overwrite the slot in use.)                        *)
(***************************************************************************)
SwitchConfirmed ==
    [][\A n \in Endpoints : current'[n] # current[n] => ToConfirmed(n)]_vars

(***************************************************************************)
(* Packets of an old session that arrive late do not bring it back into    *)
(* use: no session known to work (the peer answered or sent data in it) is *)
(* newer than the one in use, and while there is one, one is in use.  It   *)
(* holds with indices that wrap around as well: an answer that overwrites  *)
(* the slot in use gives it the newest time.                               *)
(***************************************************************************)
NewestInUse ==
    \A n \in Endpoints, i \in Slots :
        LET s == sessions[n][i]
            c == Slot(current[n])
        IN  s # None /\ (s.key.ini = n \/ s.got # {})
                => sessions[n][c] # None /\ session_timers[n][i] <= session_timers[n][c]

\* The keys that responders, and that initiators, have put into their rings
Offered == UNION { { k \in installed[n] : k.ini # n } : n \in Endpoints }
Agreed == UNION { { k \in installed[n] : k.ini = n } : n \in Endpoints }

Exchange == INSTANCE KeyExchange WITH Keys <- Key, offered <- Offered, agreed <- Agreed

(***************************************************************************)
(* The handshakes implement the abstract key exchange: with any losses,    *)
(* repetitions and failed answers, receive_handshake_response installs     *)
(* only a key that the responder has installed, and an initiation leads to *)
(* one key, even if a responder that was made anew answers it again.       *)
(***************************************************************************)
KeyExchangeSpec == Exchange!Spec

-----------------------------------------------------------------------------
\* The inductive invariant of module TunnelProofs

Handshakes == {NoHandshake, InitReceived, Expired} \cup [tag : {"InitSent"}, eph : Eph, pq : BOOLEAN]

Sealed == [key : Key, sent : Nat, got : SUBSET Nat]

ASSUME NoneAssumption == None \notin Sealed

InitMsgs == [type : {"Init"}, from : Endpoints, eph : Eph, ts : Nat, pq : BOOLEAN,
             istatic : 0 .. MaxRekeys, rstatic : 0 .. MaxRekeys]
RespMsgs == [type : {"Resp"}, from : Endpoints, key : Key]
DataMsgs == [type : {"Data"}, from : Endpoints, key : Key, ctr : Nat]

TypeOK ==
    /\ state \in [Endpoints -> Handshakes] /\ previous \in [Endpoints -> Handshakes]
    /\ next_index \in [Endpoints -> 0 .. IndexSpace - 1]
    /\ current \in [Endpoints -> 0 .. IndexSpace - 1]
    /\ made \in [Endpoints -> Nat] /\ Total(made) <= MaxMade
    /\ static \in [Endpoints -> Nat] /\ Total(static) <= MaxRekeys
    /\ known \in [Endpoints -> 0 .. MaxRekeys] /\ turns \in Nat
    /\ stamp \in [Endpoints -> Nat] /\ last_ts \in [Endpoints -> Nat] /\ now \in [Endpoints -> Nat]
    /\ sessions \in [Endpoints -> [Slots -> Sealed \cup {None}]]
    /\ session_timers \in [Endpoints -> [Slots -> Nat]]
    /\ msgs \subseteq InitMsgs \cup RespMsgs \cup DataMsgs
    /\ Pq \subseteq Endpoints
    /\ installed \in [Endpoints -> SUBSET Key]

\* The secrets in a key were made by its two parties.
KeysAre ==
    \A n \in Endpoints : \A k \in installed[n] :
        k.ieph.id <= made[k.ini] /\ k.reph.id <= made[Other(k.ini)]

\* A secret is sent in one initiation only; a response and data are sent under
\* a key that their sender has installed.
MsgsAre ==
    /\ \A m \in msgs : m.type = "Init" => m.eph.id <= made[m.from]
    /\ \A m, l \in msgs : m.type = "Init" /\ l.type = "Init" /\ m.from = l.from /\ m.eph = l.eph
                             => m.ts = l.ts
    /\ \A m \in msgs : m.type = "Resp" => m.key \in installed[m.from] /\ m.key.ini # m.from
    /\ \A m \in msgs : m.type = "Data" => m.key \in installed[m.from]

\* An initiation that awaits its answer has not led to a key yet.
Unanswered(n, hs) ==
    hs.tag = "InitSent" =>
        hs.eph.id <= made[n] /\ \A k \in installed[n] : k.ini = n => k.ieph # hs.eph

AwaitedAre ==
    \A n \in Endpoints :
        /\ Unanswered(n, state[n]) /\ Unanswered(n, previous[n])
        /\ state[n].tag = "InitSent" /\ previous[n].tag = "InitSent"
               => state[n].eph # previous[n].eph

\* A session is in the slot of its index, and the timestamp of the initiation
\* that led to it is remembered.
SessionsAre ==
    \A n \in Endpoints, i \in Slots :
        LET k == sessions[n][i].key
        IN  sessions[n][i] # None =>
              /\ k \in installed[n]
              /\ Slot(Local(n, k)) = i
              /\ \A m \in msgs : m.type = "Init" /\ m.from = k.ini /\ m.eph = k.ieph /\ k.ini # n
                                   => m.ts <= last_ts[n]

TunnelInv ==
    /\ TypeOK /\ KeysAre /\ MsgsAre /\ AwaitedAre /\ SessionsAre
    /\ NoncesFresh /\ InitAnsweredOnce /\ OwnKeyOnly

\* No session is of the future: set_current_session compares times that are past.
AgesAre == \A n \in Endpoints, i \in Slots : session_timers[n][i] <= now[n]

UseInv == AgesAre /\ NewestInUse
=============================================================================
