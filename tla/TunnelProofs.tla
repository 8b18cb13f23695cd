---------------------------- MODULE TunnelProofs ----------------------------
(***************************************************************************)
(* The tunnel's guarantees for every ring, every index space and every     *)
(* number of handshakes, restarts and new private keys.                    *)
(***************************************************************************)
EXTENDS Tunnel, TLAPS

\* The other side of the tunnel is the one peer that is not this one.
LEMMA OtherIs ==
  ASSUME NEW n \in Endpoints
  PROVE  /\ Other(n) \in Endpoints /\ Other(n) # n /\ Other(Other(n)) = n
         /\ \A m \in Endpoints : m # n => m = Other(n)
<1>1. PICK a \in Endpoints, b \in Endpoints : a # b /\ Endpoints = {a, b}
  BY TunnelAssumption, Zenon
<1>2. ASSUME NEW u \in Endpoints
      PROVE  Other(u) \in Endpoints /\ Other(u) # u
  <2>1. \E m \in Endpoints : m # u
    BY <1>1, <1>2, Zenon
  <2> QED BY <2>1, Zenon DEF Other
<1> QED BY <1>1, <1>2, Zenon

\* What the two peers have made, or changed, together.
LEMMA TotalIs ==
  ASSUME NEW f \in [Endpoints -> Nat], NEW n \in Endpoints
  PROVE  Total(f) = f[n] + f[Other(n)]
<1> DEFINE m == CHOOSE e \in Endpoints : TRUE
<1>1. m \in Endpoints /\ Total(f) = f[m] + f[Other(m)]
  BY Zenon DEF Total
<1> HIDE DEF m
<1>2. CASE m = n
  BY <1>1, <1>2, Zenon
<1>3. CASE m # n
  <2>1. m = Other(n) /\ Other(m) = n
    BY <1>1, <1>3, OtherIs, Zenon
  <2>2. f[m] \in Nat /\ f[n] \in Nat
    BY <1>1, Zenon
  <2> QED BY <1>1, <2>1, <2>2
<1> QED BY <1>2, <1>3, Zenon

\* inc_index stays in the index space, and every index has a slot of the ring.
LEMMA IndexIs ==
  ASSUME NEW idx \in Nat
  PROVE  IncIndex(idx) \in 0 .. IndexSpace - 1 /\ Slot(idx) \in Slots
<1>1. IndexSpace \in Nat \ {0} /\ NSessions \in Nat \ {0}
  BY TunnelAssumption, Zenon
<1>2. \A a \in Nat, b \in Nat \ {0} : a % b \in 0 .. b - 1
  OBVIOUS
<1> QED BY <1>1, <1>2 DEF IncIndex, Slot, Slots

\* The secrets of a handshake message are in range and were never used before.
LEMMA DrawIs ==
  ASSUME TypeOK, NEW n \in Endpoints, Draw(n)
  PROVE  /\ Fresh(n) \in Eph /\ Fresh(n).id = made[n] + 1
         /\ made' \in [Endpoints -> Nat] /\ Total(made') <= MaxMade
         /\ made'[n] = made[n] + 1
         /\ \A u \in Endpoints : made'[u] >= made[u]
         /\ next_index' \in [Endpoints -> 0 .. IndexSpace - 1]
<1>1. /\ made \in [Endpoints -> Nat] /\ made[n] \in Nat /\ made[Other(n)] \in Nat
      /\ MaxMade \in Nat /\ next_index \in [Endpoints -> 0 .. IndexSpace - 1]
      /\ IndexSpace \in Nat \ {0} /\ Other(n) \in Endpoints /\ Other(n) # n
  BY TunnelAssumption, OtherIs, Zenon DEF TypeOK
<1>2. /\ made[n] + made[Other(n)] < MaxMade
      /\ made' = [made EXCEPT ![n] = @ + 1]
      /\ next_index' = [next_index EXCEPT ![n] = IncIndex(@)]
  BY <1>1, TotalIs, Zenon DEF Draw
<1>3. /\ made' \in [Endpoints -> Nat] /\ made'[n] = made[n] + 1
      /\ \A u \in Endpoints : made'[u] >= made[u]
      /\ made'[Other(n)] = made[Other(n)]
  BY <1>1, <1>2
<1>4. Total(made') <= MaxMade
  <2>1. Total(made') = made'[n] + made'[Other(n)]
    BY <1>3, TotalIs, Zenon
  <2> QED BY <1>1, <1>2, <1>3, <2>1
<1>5. IncIndex(next_index[n]) \in 0 .. IndexSpace - 1
  BY <1>1, IndexIs
<1>6. Fresh(n) \in Eph /\ Fresh(n).id = made[n] + 1
  BY <1>1, <1>2, <1>5 DEF Fresh, Eph
<1> QED BY <1>1, <1>2, <1>3, <1>4, <1>5, <1>6, Zenon

\* A slot of the ring that is not empty has a session.
LEMMA SessionIs ==
  ASSUME TypeOK, NEW n \in Endpoints, NEW i \in Slots, sessions[n][i] # None
  PROVE  /\ sessions[n][i] \in Sealed
         /\ sessions[n][i].key \in Key /\ sessions[n][i].sent \in Nat
         /\ sessions[n][i].got \in SUBSET Nat
BY DEF TypeOK, Sealed

\* Calls that send nothing and install nothing: they may drop sessions, forget
\* handshakes and move the one in progress to previous.
LEMMA Kept ==
  ASSUME TunnelInv, TypeOK', msgs' = msgs, installed' = installed,
         \A n \in Endpoints : made'[n] >= made[n],
         \A n \in Endpoints, i \in Slots : sessions'[n][i] # None =>
            /\ sessions[n][i] # None
            /\ sessions'[n][i].key = sessions[n][i].key
            /\ sessions'[n][i].sent = sessions[n][i].sent
            /\ static'[n] = static[n] /\ last_ts'[n] >= last_ts[n],
         \A n \in Endpoints :
            /\ state'[n].tag = "InitSent" => state'[n] = state[n]
            /\ previous'[n].tag = "InitSent" => previous'[n] \in {state[n], previous[n]}
            /\ state'[n].tag = "InitSent" /\ previous'[n].tag = "InitSent"
                 => previous'[n] = previous[n]
  PROVE  TunnelInv'
<1>1. TypeOK /\ KeysAre /\ MsgsAre /\ AwaitedAre /\ SessionsAre
      /\ NoncesFresh /\ InitAnsweredOnce /\ OwnKeyOnly
  BY Zenon DEF TunnelInv
<1>2. ASSUME NEW u \in Endpoints, NEW x \in Nat, x <= made[u]
      PROVE  x <= made'[u]
  <2>1. made[u] \in Nat /\ made'[u] \in Nat
    BY <1>1, Zenon DEF TypeOK
  <2> QED BY <1>2, <2>1
<1>3. KeysAre'
  <2> SUFFICES ASSUME NEW n \in Endpoints, NEW k \in installed[n]
               PROVE  k.ieph.id <= made'[k.ini] /\ k.reph.id <= made'[Other(k.ini)]
    BY Zenon DEF KeysAre
  <2>1. k \in Key /\ k.ieph.id \in Nat /\ k.reph.id \in Nat
        /\ k.ini \in Endpoints /\ Other(k.ini) \in Endpoints
    BY <1>1, OtherIs DEF TypeOK, Key, Eph
  <2> QED BY <1>1, <1>2, <2>1, Zenon DEF KeysAre
<1>4. MsgsAre'
  <2>1. ASSUME NEW m \in msgs, m.type = "Init"
        PROVE  m.eph.id <= made'[m.from]
    <3>1. m.eph.id \in Nat /\ m.from \in Endpoints
      BY <1>1, <2>1 DEF TypeOK, InitMsgs, RespMsgs, DataMsgs, Eph
    <3> QED BY <1>1, <1>2, <2>1, <3>1, Zenon DEF MsgsAre
  <2> QED BY <1>1, <2>1, Zenon DEF MsgsAre
<1>5. AwaitedAre'
  <2> SUFFICES ASSUME NEW n \in Endpoints
               PROVE  /\ Unanswered(n, state[n])' /\ Unanswered(n, previous[n])'
                      /\ state'[n].tag = "InitSent" /\ previous'[n].tag = "InitSent"
                            => state'[n].eph # previous'[n].eph
    BY Zenon DEF AwaitedAre
  <2>1. ASSUME NEW hs \in {state[n], previous[n]}, hs.tag = "InitSent"
        PROVE  hs.eph.id <= made'[n] /\ \A k \in installed[n] : k.ini = n => k.ieph # hs.eph
    <3>1. hs \in Handshakes
      BY <1>1 DEF TypeOK
    <3>2. hs.eph.id \in Nat
      BY <2>1, <3>1 DEF Handshakes, NoHandshake, InitReceived, Expired, Eph
    <3>3. Unanswered(n, hs)
      BY <1>1, Zenon DEF AwaitedAre
    <3> QED BY <1>2, <2>1, <3>2, <3>3, Zenon DEF Unanswered
  <2>2. Unanswered(n, state[n])'
    BY <2>1, Zenon DEF Unanswered
  <2>3. Unanswered(n, previous[n])'
    BY <2>1, Zenon DEF Unanswered
  <2>4. state'[n].tag = "InitSent" /\ previous'[n].tag = "InitSent"
            => state'[n].eph # previous'[n].eph
    BY <1>1, Zenon DEF AwaitedAre
  <2> QED BY <2>2, <2>3, <2>4, Zenon
<1>6. SessionsAre'
  <2> SUFFICES ASSUME NEW n \in Endpoints, NEW i \in Slots, sessions'[n][i] # None
               PROVE  LET k == sessions'[n][i].key
                      IN  /\ k \in installed[n]
                          /\ Slot(Local(n, k)) = i
                          /\ \A m \in msgs : m.type = "Init" /\ m.from = k.ini
                                             /\ m.eph = k.ieph /\ k.ini # n => m.ts <= last_ts'[n]
    BY Zenon DEF SessionsAre
  <2> DEFINE k == sessions[n][i].key
  <2>1. sessions'[n][i].key = k /\ last_ts'[n] >= last_ts[n]
    BY Zenon
  <2>2. k \in installed[n] /\ Slot(Local(n, k)) = i
    BY <1>1, Zenon DEF SessionsAre
  <2>3. ASSUME NEW m \in msgs, m.type = "Init", m.from = k.ini, m.eph = k.ieph, k.ini # n
        PROVE  m.ts <= last_ts'[n]
    <3>1. m.ts \in Nat /\ last_ts[n] \in Nat /\ last_ts'[n] \in Nat
      BY <1>1, <2>3, Zenon DEF TypeOK, InitMsgs, RespMsgs, DataMsgs
    <3>2. m.ts <= last_ts[n]
      BY <1>1, <2>3, Zenon DEF SessionsAre
    <3> QED BY <2>1, <3>1, <3>2
  <2> QED BY <2>1, <2>2, <2>3, ZenonT(30)
<1>7. NoncesFresh'
  BY <1>1 DEF NoncesFresh
<1>8. InitAnsweredOnce'
  BY <1>1, SMTT(20) DEF InitAnsweredOnce
<1>9. OwnKeyOnly'
  BY <1>1 DEF OwnKeyOnly, OwnStatic
<1> QED BY <1>3, <1>4, <1>5, <1>6, <1>7, <1>8, <1>9, Zenon DEF TunnelInv

\* The handshake states that await no response.
LEMMA Quiet ==
  /\ NoHandshake \in Handshakes /\ InitReceived \in Handshakes /\ Expired \in Handshakes
  /\ NoHandshake.tag # "InitSent" /\ InitReceived.tag # "InitSent" /\ Expired.tag # "InitSent"
BY Zenon DEF Handshakes, NoHandshake, InitReceived, Expired

\* update_session_timers only drops sessions.
LEMMA AdvanceTimeKeeps ==
  ASSUME TunnelInv, NEW n \in Endpoints, AdvanceTime(n)
  PROVE  TunnelInv'
<1>1. TypeOK
  BY Zenon DEF TunnelInv
<1>2. PICK old \in SUBSET Slots :
        /\ sessions' = [sessions EXCEPT ![n] =
                          [i \in Slots |-> IF i \in old THEN None ELSE @[i]]]
        /\ session_timers' = [session_timers EXCEPT ![n] =
                          [i \in Slots |-> IF i \in old THEN now[n] + 1 ELSE @[i]]]
  BY Zenon DEF AdvanceTime
<1>3. /\ now' = [now EXCEPT ![n] = @ + 1]
      /\ state' = state /\ previous' = previous /\ next_index' = next_index /\ made' = made
      /\ stamp' = stamp /\ last_ts' = last_ts /\ current' = current /\ msgs' = msgs
      /\ static' = static /\ known' = known /\ turns' = turns + 1 /\ Pq' = Pq
      /\ installed' = installed
  BY Zenon DEF AdvanceTime, Turn
<1>4. \A u \in Endpoints, i \in Slots :
        sessions'[u][i] # None => sessions'[u][i] = sessions[u][i]
  BY <1>1, <1>2, Zenon DEF TypeOK
<1>5. now' \in [Endpoints -> Nat] /\ turns' \in Nat
  BY <1>1, <1>3 DEF TypeOK
<1>6. sessions' \in [Endpoints -> [Slots -> Sealed \cup {None}]]
  BY <1>1, <1>2, Zenon DEF TypeOK
<1>7. session_timers' \in [Endpoints -> [Slots -> Nat]]
  BY <1>1, <1>2 DEF TypeOK
<1>8. TypeOK'
  BY <1>1, <1>3, <1>5, <1>6, <1>7, Zenon DEF TypeOK
<1>9. \A u \in Endpoints : made'[u] >= made[u] /\ last_ts'[u] >= last_ts[u]
  BY <1>1, <1>3 DEF TypeOK
<1> QED BY <1>3, <1>4, <1>8, <1>9, Kept, Zenon

\* set_expired and clear_all leave neither a handshake nor a session.
LEMMA ExpireKeeps ==
  ASSUME TunnelInv, NEW n \in Endpoints, Expire(n)
  PROVE  TunnelInv'
<1>1. TypeOK
  BY Zenon DEF TunnelInv
<1>2. /\ state' = [state EXCEPT ![n] = Expired]
      /\ previous' = [previous EXCEPT ![n] = Expired]
      /\ sessions' = [sessions EXCEPT ![n] = [i \in Slots |-> None]]
      /\ next_index' = next_index /\ made' = made /\ stamp' = stamp /\ last_ts' = last_ts
      /\ session_timers' = session_timers /\ current' = current /\ now' = now /\ msgs' = msgs
      /\ static' = static /\ known' = known /\ turns' = turns + 1 /\ Pq' = Pq
      /\ installed' = installed
  BY Zenon DEF Expire, Turn
<1>3. \A u \in Endpoints, i \in Slots :
        sessions'[u][i] # None => sessions'[u][i] = sessions[u][i]
  BY <1>1, <1>2, Zenon DEF TypeOK
<1>4. /\ sessions' \in [Endpoints -> [Slots -> Sealed \cup {None}]]
      /\ state' \in [Endpoints -> Handshakes] /\ previous' \in [Endpoints -> Handshakes]
  BY <1>1, <1>2, Quiet, Zenon DEF TypeOK
<1>5. TypeOK'
  <2>1. turns' \in Nat
    BY <1>1, <1>2 DEF TypeOK
  <2> QED BY <1>1, <1>2, <1>4, <2>1, Zenon DEF TypeOK
<1>6. \A u \in Endpoints : made'[u] >= made[u] /\ last_ts'[u] >= last_ts[u]
  BY <1>1, <1>2 DEF TypeOK
<1>7. \A u \in Endpoints :
        /\ state'[u].tag = "InitSent" => state'[u] = state[u]
        /\ previous'[u].tag = "InitSent" => previous'[u] = previous[u]
  BY <1>1, <1>2, Quiet, Zenon DEF TypeOK
<1> QED BY <1>2, <1>3, <1>5, <1>6, <1>7, Kept, Zenon

\* Tunn::new forgets the sessions together with the timestamp.
LEMMA RestartKeeps ==
  ASSUME TunnelInv, NEW n \in Endpoints, Restart(n)
  PROVE  TunnelInv'
<1>1. TypeOK
  BY Zenon DEF TunnelInv
<1>2. /\ turns' = turns + 1
      /\ known' = [known EXCEPT ![n] = static[Other(n)]]
      /\ state' = [state EXCEPT ![n] = NoHandshake]
      /\ previous' = [previous EXCEPT ![n] = NoHandshake]
      /\ next_index' = [next_index EXCEPT ![n] = 0]
      /\ last_ts' = [last_ts EXCEPT ![n] = 0]
      /\ sessions' = [sessions EXCEPT ![n] = [i \in Slots |-> None]]
      /\ session_timers' = [session_timers EXCEPT ![n] = [i \in Slots |-> 0]]
      /\ current' = [current EXCEPT ![n] = 0]
      /\ now' = [now EXCEPT ![n] = 0]
      /\ made' = made /\ static' = static /\ stamp' = stamp /\ msgs' = msgs /\ Pq' = Pq
      /\ installed' = installed
  BY Zenon DEF Restart, ForgetSessions, Turn
<1>3. \A u \in Endpoints, i \in Slots :
        sessions'[u][i] # None => u # n /\ sessions'[u][i] = sessions[u][i]
  BY <1>1, <1>2, Zenon DEF TypeOK
<1>4. static[Other(n)] \in 0 .. MaxRekeys
  <2>1. static[n] \in Nat /\ static[Other(n)] \in Nat /\ MaxRekeys \in Nat
        /\ Total(static) <= MaxRekeys /\ Total(static) = static[n] + static[Other(n)]
    BY <1>1, OtherIs, TotalIs, TunnelAssumption, Zenon DEF TypeOK
  <2> QED BY <2>1
<1>5. /\ sessions' \in [Endpoints -> [Slots -> Sealed \cup {None}]]
      /\ state' \in [Endpoints -> Handshakes] /\ previous' \in [Endpoints -> Handshakes]
  BY <1>1, <1>2, Quiet, Zenon DEF TypeOK
<1>6. 0 \in 0 .. IndexSpace - 1
  BY TunnelAssumption
<1>7. /\ next_index' \in [Endpoints -> 0 .. IndexSpace - 1]
      /\ current' \in [Endpoints -> 0 .. IndexSpace - 1]
      /\ known' \in [Endpoints -> 0 .. MaxRekeys] /\ turns' \in Nat
      /\ last_ts' \in [Endpoints -> Nat] /\ now' \in [Endpoints -> Nat]
      /\ session_timers' \in [Endpoints -> [Slots -> Nat]]
  BY <1>1, <1>2, <1>4, <1>6 DEF TypeOK
<1>8. TypeOK'
  BY <1>1, <1>2, <1>5, <1>7, Zenon DEF TypeOK
<1>9. \A u \in Endpoints : made'[u] >= made[u] /\ (u # n => last_ts'[u] >= last_ts[u])
  BY <1>1, <1>2 DEF TypeOK
<1>10. \A u \in Endpoints :
        /\ state'[u].tag = "InitSent" => state'[u] = state[u]
        /\ previous'[u].tag = "InitSent" => previous'[u] = previous[u]
  BY <1>1, <1>2, Quiet, Zenon DEF TypeOK
<1> QED BY <1>2, <1>3, <1>8, <1>9, <1>10, Kept, Zenon

\* set_static_private leaves no session.
LEMMA SetStaticPrivateKeeps ==
  ASSUME TunnelInv, NEW n \in Endpoints, SetStaticPrivate(n)
  PROVE  TunnelInv'
<1>1. TypeOK
  BY Zenon DEF TunnelInv
<1>2. /\ Total(static) < MaxRekeys
      /\ static' = [static EXCEPT ![n] = @ + 1]
      /\ sessions' = [sessions EXCEPT ![n] = [i \in Slots |-> None]]
      /\ state' = state /\ previous' = previous /\ next_index' = next_index /\ made' = made
      /\ known' = known /\ turns' = turns + 1 /\ stamp' = stamp /\ last_ts' = last_ts
      /\ session_timers' = session_timers /\ current' = current /\ now' = now /\ msgs' = msgs
      /\ Pq' = Pq /\ installed' = installed
  BY Zenon DEF SetStaticPrivate, ForgetSessions, Turn
<1>3. \A u \in Endpoints, i \in Slots :
        sessions'[u][i] # None => u # n /\ sessions'[u][i] = sessions[u][i]
  BY <1>1, <1>2, Zenon DEF TypeOK
<1>4. static' \in [Endpoints -> Nat] /\ \A u \in Endpoints : u # n => static'[u] = static[u]
  BY <1>1, <1>2 DEF TypeOK
<1>5. Total(static') <= MaxRekeys
  <2>1. /\ static \in [Endpoints -> Nat] /\ static[n] \in Nat /\ static[Other(n)] \in Nat
        /\ Other(n) \in Endpoints /\ Other(n) # n /\ MaxRekeys \in Nat
    BY <1>1, OtherIs, TunnelAssumption, Zenon DEF TypeOK
  <2>2. Total(static) = static[n] + static[Other(n)]
    BY <2>1, TotalIs, Zenon
  <2>3. Total(static') = static'[n] + static'[Other(n)]
    BY <1>4, TotalIs, Zenon
  <2>4. static'[n] = static[n] + 1 /\ static'[Other(n)] = static[Other(n)]
    BY <1>2, <2>1, Zenon
  <2> QED BY <1>2, <2>1, <2>2, <2>3, <2>4
<1>6. sessions' \in [Endpoints -> [Slots -> Sealed \cup {None}]]
  BY <1>1, <1>2, Zenon DEF TypeOK
<1>7. TypeOK'
  <2>1. turns' \in Nat
    BY <1>1, <1>2 DEF TypeOK
  <2> QED BY <1>1, <1>2, <1>4, <1>5, <1>6, <2>1, Zenon DEF TypeOK
<1>8. \A u \in Endpoints : made'[u] >= made[u] /\ last_ts'[u] >= last_ts[u]
  BY <1>1, <1>2 DEF TypeOK
<1> QED BY <1>2, <1>3, <1>4, <1>7, <1>8, Kept, Zenon

\* The slot of the session that a key belongs to.
LEMMA LocalIs ==
  ASSUME NEW n \in Endpoints, NEW k \in Key
  PROVE  Local(n, k) \in 0 .. IndexSpace - 1 /\ Slot(Local(n, k)) \in Slots
<1>1. k.ieph \in Eph /\ k.reph \in Eph
  BY Zenon DEF Key
<1>2. k.ieph.idx \in 0 .. IndexSpace - 1 /\ k.reph.idx \in 0 .. IndexSpace - 1
  BY <1>1, Zenon DEF Eph
<1>3. IndexSpace \in Nat
  BY TunnelAssumption, Zenon
<1>4. Local(n, k) \in 0 .. IndexSpace - 1
  BY <1>2, Zenon DEF Local
<1> QED BY <1>3, <1>4, IndexIs

\* handle_data marks a counter in the replay window and may change the current session.
LEMMA ReceiveDataKeeps ==
  ASSUME TunnelInv, NEW n \in Endpoints, NEW m \in msgs, ReceiveData(n, m)
  PROVE  TunnelInv'
<1>1. TypeOK
  BY Zenon DEF TunnelInv
<1> DEFINE slot == Slot(Local(n, m.key))
<1>2. /\ m.type = "Data" /\ sessions[n][slot] # None
      /\ sessions' = [sessions EXCEPT ![n][slot].got = @ \cup {m.ctr}]
      /\ current' = [current EXCEPT ![n] =
                       SetCurrentSession(n, Local(n, m.key), sessions[n], session_timers[n])]
      /\ state' = state /\ previous' = previous /\ next_index' = next_index /\ made' = made
      /\ stamp' = stamp /\ last_ts' = last_ts /\ session_timers' = session_timers
      /\ now' = now /\ msgs' = msgs /\ static' = static /\ known' = known
      /\ turns' = turns /\ Pq' = Pq /\ installed' = installed
  BY Zenon DEF ReceiveData, config
<1>3. m.key \in Key /\ m.ctr \in Nat
  BY <1>1, <1>2, Zenon DEF TypeOK, InitMsgs, RespMsgs, DataMsgs
<1>4. slot \in Slots /\ Local(n, m.key) \in 0 .. IndexSpace - 1
  BY <1>3, LocalIs, Zenon
<1>5. current' \in [Endpoints -> 0 .. IndexSpace - 1]
  BY <1>1, <1>2, <1>4, Zenon DEF TypeOK, SetCurrentSession
<1> HIDE DEF slot
<1>6. /\ sessions[n][slot] \in Sealed /\ sessions[n][slot].key \in Key
      /\ sessions[n][slot].sent \in Nat /\ sessions[n][slot].got \in SUBSET Nat
  BY <1>1, <1>2, <1>4, SessionIs, Zenon
<1>7. PICK s \in Sealed : /\ s = [sessions[n][slot] EXCEPT !.got = @ \cup {m.ctr}]
                          /\ s.key = sessions[n][slot].key /\ s.sent = sessions[n][slot].sent
  <2>1. [sessions[n][slot] EXCEPT !.got = @ \cup {m.ctr}] \in Sealed
    BY <1>3, <1>6, Zenon DEF Sealed
  <2>2. LET s == [sessions[n][slot] EXCEPT !.got = @ \cup {m.ctr}]
        IN  s.key = sessions[n][slot].key /\ s.sent = sessions[n][slot].sent
    BY <1>6, Zenon DEF Sealed
  <2> QED BY <2>1, <2>2, Zenon
<1>8. sessions' = [sessions EXCEPT ![n] = [sessions[n] EXCEPT ![slot] = s]]
  BY <1>2, <1>7, Zenon
<1>9. /\ sessions' \in [Endpoints -> [Slots -> Sealed \cup {None}]]
      /\ sessions'[n][slot] = s
      /\ \A u \in Endpoints, i \in Slots :
           ~(u = n /\ i = slot) => sessions'[u][i] = sessions[u][i]
  BY <1>1, <1>4, <1>8, Zenon DEF TypeOK
<1>10. \A u \in Endpoints, i \in Slots :
         sessions'[u][i] # None =>
            /\ sessions[u][i] # None /\ sessions'[u][i].key = sessions[u][i].key
            /\ sessions'[u][i].sent = sessions[u][i].sent
  BY <1>2, <1>7, <1>9, Zenon
<1>11. TypeOK'
  BY <1>1, <1>2, <1>5, <1>9, Zenon DEF TypeOK
<1>12. \A u \in Endpoints : made'[u] >= made[u] /\ last_ts'[u] >= last_ts[u]
  BY <1>1, <1>2 DEF TypeOK
<1> QED BY <1>2, <1>10, <1>11, <1>12, Kept, Zenon

\* An initiation that is not answered (the buffer is too small, the ML-KEM key does
\* not decode) has taken the place of the handshake in progress.
LEMMA InitNotAnswered ==
  ASSUME TunnelInv, NEW n \in Endpoints, NEW m \in msgs, NEW outcome,
         ReceiveInit(n, m, outcome), outcome # "sent"
  PROVE  TunnelInv'
<1>1. TypeOK
  BY Zenon DEF TunnelInv
<1>2. /\ Accepts(n, m)
      /\ last_ts' = [last_ts EXCEPT ![n] = m.ts]
      /\ previous' = [previous EXCEPT ![n] = state[n]]
      /\ sessions' = sessions /\ session_timers' = session_timers /\ msgs' = msgs
      /\ installed' = installed /\ stamp' = stamp /\ current' = current /\ now' = now
      /\ static' = static /\ known' = known /\ turns' = turns /\ Pq' = Pq
  BY Zenon DEF ReceiveInit, config
<1>3. PICK hs \in {NoHandshake, InitReceived} : state' = [state EXCEPT ![n] = hs]
  BY Zenon DEF ReceiveInit
<1>4. /\ made' \in [Endpoints -> Nat] /\ Total(made') <= MaxMade
      /\ \A u \in Endpoints : made'[u] >= made[u]
      /\ next_index' \in [Endpoints -> 0 .. IndexSpace - 1]
  <2>1. Draw(n) \/ (made' = made /\ next_index' = next_index)
    BY Zenon DEF ReceiveInit
  <2>2. CASE Draw(n)
    BY <1>1, <2>2, DrawIs, Zenon
  <2>3. CASE made' = made /\ next_index' = next_index
    BY <1>1, <2>3 DEF TypeOK
  <2> QED BY <2>1, <2>2, <2>3, Zenon
<1>5. m.type = "Init" /\ m.ts > last_ts[n]
  BY <1>2, Zenon DEF Accepts, After
<1>6. m.ts \in Nat /\ last_ts[n] \in Nat
  BY <1>1, <1>5, Zenon DEF TypeOK, InitMsgs, RespMsgs, DataMsgs
<1>7. last_ts' \in [Endpoints -> Nat] /\ \A u \in Endpoints : last_ts'[u] >= last_ts[u]
  BY <1>1, <1>2, <1>5, <1>6 DEF TypeOK
<1>8. /\ hs \in Handshakes /\ hs.tag # "InitSent"
  BY Quiet, Zenon
<1>9. /\ state' \in [Endpoints -> Handshakes] /\ previous' \in [Endpoints -> Handshakes]
      /\ state'[n] = hs /\ previous'[n] = state[n]
      /\ \A u \in Endpoints : u # n => state'[u] = state[u] /\ previous'[u] = previous[u]
  BY <1>1, <1>2, <1>3, <1>8, Zenon DEF TypeOK
<1>10. TypeOK'
  BY <1>1, <1>2, <1>4, <1>7, <1>9, Zenon DEF TypeOK
<1>11. \A u \in Endpoints :
         /\ state'[u].tag = "InitSent" => state'[u] = state[u]
         /\ previous'[u].tag = "InitSent" => previous'[u] \in {state[u], previous[u]}
         /\ state'[u].tag = "InitSent" /\ previous'[u].tag = "InitSent"
              => previous'[u] = previous[u]
  BY <1>8, <1>9, Zenon
<1> QED BY <1>2, <1>4, <1>7, <1>10, <1>11, Kept, Zenon

\* What an initiation, a response, a data packet has in its fields.
LEMMA MsgIs ==
  ASSUME TypeOK, NEW m \in msgs
  PROVE  /\ m.type = "Init" => /\ m \in InitMsgs /\ m.from \in Endpoints /\ m.eph \in Eph
                               /\ m.eph.id \in Nat /\ m.ts \in Nat
         /\ m.type = "Resp" => m \in RespMsgs /\ m.from \in Endpoints /\ m.key \in Key
         /\ m.type = "Data" => /\ m \in DataMsgs /\ m.from \in Endpoints /\ m.key \in Key
                               /\ m.ctr \in Nat
<1>1. m \in InitMsgs \/ m \in RespMsgs \/ m \in DataMsgs
  BY Zenon DEF TypeOK
<1>2. \A e \in Eph : e.id \in Nat
  BY DEF Eph
<1> QED BY <1>1, <1>2, Zenon DEF InitMsgs, RespMsgs, DataMsgs

\* The secrets named in an installed key have been made.
LEMMA KeyIs ==
  ASSUME TypeOK, KeysAre, NEW n \in Endpoints, NEW k \in installed[n]
  PROVE  /\ k \in Key /\ k.ini \in Endpoints /\ k.ieph \in Eph /\ k.reph \in Eph
         /\ k.ieph.id \in Nat /\ k.reph.id \in Nat
         /\ k.ieph.id <= made[k.ini] /\ k.reph.id <= made[Other(k.ini)]
<1>1. k \in Key
  BY Zenon DEF TypeOK
<1>2. k.ini \in Endpoints /\ k.ieph \in Eph /\ k.reph \in Eph
  BY <1>1, Zenon DEF Key
<1>3. k.ieph.id \in Nat /\ k.reph.id \in Nat
  BY <1>2 DEF Eph
<1>4. k.ieph.id <= made[k.ini] /\ k.reph.id <= made[Other(k.ini)]
  BY Zenon DEF KeysAre
<1> QED BY <1>1, <1>2, <1>3, <1>4, Zenon

\* Drawing secrets leaves what was said of the older ones true.
LEMMA OlderStay ==
  ASSUME TypeOK, NEW n \in Endpoints, Draw(n)
  PROVE  \A u \in Endpoints, x \in Nat : x <= made[u] => x <= made'[u]
<1>1. \A u \in Endpoints : made[u] \in Nat /\ made'[u] \in Nat /\ made'[u] >= made[u]
  BY DrawIs, Zenon DEF TypeOK
<1> QED BY <1>1

\* format_handshake_initiation sends secrets that no key and no message has.
LEMMA InitiateKeeps ==
  ASSUME TunnelInv, NEW n \in Endpoints, Initiate(n)
  PROVE  TunnelInv'
<1>1. TypeOK /\ KeysAre /\ MsgsAre /\ AwaitedAre /\ SessionsAre
      /\ NoncesFresh /\ InitAnsweredOnce /\ OwnKeyOnly
  BY Zenon DEF TunnelInv
<1> DEFINE e == Fresh(n)
           hs == InitSent(Fresh(n), n \in Pq)
<1>2. PICK ts \in 1 .. MaxStamp :
        /\ stamp' = [stamp EXCEPT ![n] = ts]
        /\ msgs' = msgs \cup {InitMsg(n, e, ts, n \in Pq)}
  BY Zenon DEF Initiate
<1>3. /\ Draw(n)
      /\ previous' = [previous EXCEPT ![n] = state[n]]
      /\ state' = [state EXCEPT ![n] = hs]
      /\ last_ts' = last_ts /\ sessions' = sessions /\ session_timers' = session_timers
      /\ current' = current /\ now' = now /\ static' = static /\ known' = known
      /\ turns' = turns /\ Pq' = Pq /\ installed' = installed
  BY Zenon DEF Initiate, config
<1>4. /\ e \in Eph /\ e.id = made[n] + 1
      /\ made' \in [Endpoints -> Nat] /\ Total(made') <= MaxMade
      /\ made'[n] = made[n] + 1
      /\ \A u \in Endpoints : made'[u] >= made[u]
      /\ next_index' \in [Endpoints -> 0 .. IndexSpace - 1]
  BY <1>1, <1>3, DrawIs, Zenon
<1>5. made[n] \in Nat
  BY <1>1, Zenon DEF TypeOK
<1>7. hs \in Handshakes /\ hs.tag = "InitSent" /\ hs.eph = e
  BY <1>4 DEF InitSent, Handshakes
<1>8. PICK m \in InitMsgs : /\ msgs' = msgs \cup {m}
                            /\ m.type = "Init" /\ m.from = n /\ m.eph = e /\ m.ts = ts
  <2>1. static[n] \in 0 .. MaxRekeys /\ known[n] \in 0 .. MaxRekeys
    <3>1. static[n] \in Nat /\ static[Other(n)] \in Nat /\ MaxRekeys \in Nat
          /\ Total(static) <= MaxRekeys /\ Total(static) = static[n] + static[Other(n)]
      BY <1>1, OtherIs, TotalIs, TunnelAssumption, Zenon DEF TypeOK
    <3> QED BY <1>1, <3>1 DEF TypeOK
  <2>2. ts \in Nat
    BY <1>2, TunnelAssumption
  <2> DEFINE m == InitMsg(n, e, ts, n \in Pq)
  <2>3. m \in InitMsgs
    BY <1>4, <2>1, <2>2 DEF InitMsg, InitMsgs
  <2>4. m.type = "Init" /\ m.from = n /\ m.eph = e /\ m.ts = ts
    BY Zenon DEF InitMsg
  <2> QED BY <1>2, <2>3, <2>4, Zenon
<1> HIDE DEF e, hs
<1>9. /\ state' \in [Endpoints -> Handshakes] /\ previous' \in [Endpoints -> Handshakes]
      /\ state'[n] = hs /\ previous'[n] = state[n]
      /\ \A u \in Endpoints : u # n => state'[u] = state[u] /\ previous'[u] = previous[u]
  BY <1>1, <1>3, <1>7, Zenon DEF TypeOK
<1>10. TypeOK'
  <2>1. stamp' \in [Endpoints -> Nat]
    BY <1>1, <1>2, TunnelAssumption DEF TypeOK
  <2>2. msgs' \subseteq InitMsgs \cup RespMsgs \cup DataMsgs
    BY <1>1, <1>8, Zenon DEF TypeOK
  <2> QED BY <1>1, <1>3, <1>4, <1>9, <2>1, <2>2, Zenon DEF TypeOK
<1>11. \A u \in Endpoints, x \in Nat : x <= made[u] => x <= made'[u]
  BY <1>1, <1>3, OlderStay, Zenon
<1>12. \A u \in Endpoints : \A k \in installed[u] : k.ini = n => k.ieph # e
  BY <1>1, <1>4, <1>5, KeyIs
<1>13. \A l \in msgs : l.type = "Init" /\ l.from = n => l.eph # e
  BY <1>1, <1>4, <1>5, MsgIs DEF MsgsAre
<1>14. KeysAre'
  <2> SUFFICES ASSUME NEW u \in Endpoints, NEW k \in installed[u]
               PROVE  k.ieph.id <= made'[k.ini] /\ k.reph.id <= made'[Other(k.ini)]
    BY <1>3, Zenon DEF KeysAre
  <2> QED BY <1>1, <1>11, KeyIs, OtherIs, Zenon
<1>15. MsgsAre'
  <2>1. \A l \in msgs' : l.type = "Init" => l.eph.id <= made'[l.from]
    <3>1. \A l \in msgs : l.type = "Init" => l.eph.id <= made'[l.from]
      BY <1>1, <1>11, MsgIs, Zenon DEF MsgsAre
    <3>2. m.eph.id <= made'[m.from]
      BY <1>4, <1>5, <1>8
    <3> QED BY <1>8, <3>1, <3>2, Zenon
  <2>2. \A l, k \in msgs' : l.type = "Init" /\ k.type = "Init" /\ l.from = k.from
                              /\ l.eph = k.eph => l.ts = k.ts
    BY <1>1, <1>8, <1>13, ZenonT(30) DEF MsgsAre
  <2>3. \A l \in msgs' : l.type = "Resp" => l.key \in installed'[l.from] /\ l.key.ini # l.from
    BY <1>1, <1>3, <1>8, Zenon DEF MsgsAre
  <2>4. \A l \in msgs' : l.type = "Data" => l.key \in installed'[l.from]
    BY <1>1, <1>3, <1>8, Zenon DEF MsgsAre
  <2> QED BY <2>1, <2>2, <2>3, <2>4, Zenon DEF MsgsAre
<1>16. AwaitedAre'
  <2>1. ASSUME NEW u \in Endpoints, NEW h \in {state[u], previous[u]}, h.tag = "InitSent"
        PROVE  /\ h.eph.id \in Nat /\ h.eph.id <= made[u] /\ h.eph.id <= made'[u]
               /\ \A k \in installed'[u] : k.ini = u => k.ieph # h.eph
    <3>1. h \in Handshakes
      BY <1>1 DEF TypeOK
    <3>2. h.eph.id \in Nat
      BY <2>1, <3>1 DEF Handshakes, NoHandshake, InitReceived, Expired, Eph
    <3>3. Unanswered(u, h)
      BY <1>1, Zenon DEF AwaitedAre
    <3> QED BY <1>3, <1>11, <2>1, <3>2, <3>3, Zenon DEF Unanswered
  <2>2. hs.eph.id <= made'[n] /\ \A k \in installed'[n] : k.ini = n => k.ieph # hs.eph
    BY <1>3, <1>4, <1>5, <1>7, <1>12
  <2>3. ASSUME NEW u \in Endpoints
        PROVE  Unanswered(u, state[u])' /\ Unanswered(u, previous[u])'
    <3>1. CASE u = n
      BY <1>9, <2>1, <2>2, <3>1, Zenon DEF Unanswered
    <3>2. CASE u # n
      BY <1>9, <2>1, <3>2, Zenon DEF Unanswered
    <3> QED BY <3>1, <3>2, Zenon
  <2>4. ASSUME NEW u \in Endpoints, state'[u].tag = "InitSent", previous'[u].tag = "InitSent"
        PROVE  state'[u].eph # previous'[u].eph
    <3>1. CASE u = n
      BY <1>4, <1>5, <1>7, <1>9, <2>1, <2>4, <3>1
    <3>2. CASE u # n
      BY <1>1, <1>9, <2>4, <3>2, Zenon DEF AwaitedAre
    <3> QED BY <3>1, <3>2, Zenon
  <2> QED BY <2>3, <2>4, Zenon DEF AwaitedAre
<1>17. SessionsAre'
  <2> SUFFICES ASSUME NEW u \in Endpoints, NEW i \in Slots, sessions[u][i] # None
               PROVE  LET k == sessions[u][i].key
                      IN  /\ k \in installed[u]
                          /\ Slot(Local(u, k)) = i
                          /\ \A l \in msgs' : l.type = "Init" /\ l.from = k.ini
                                             /\ l.eph = k.ieph /\ k.ini # u => l.ts <= last_ts[u]
    BY <1>3, ZenonT(30) DEF SessionsAre
  <2> DEFINE k == sessions[u][i].key
  <2>1. k \in installed[u] /\ Slot(Local(u, k)) = i
    BY <1>1, Zenon DEF SessionsAre
  <2>2. ~(m.from = k.ini /\ m.eph = k.ieph)
    BY <1>8, <1>12, <2>1, Zenon
  <2>3. \A l \in msgs : l.type = "Init" /\ l.from = k.ini /\ l.eph = k.ieph /\ k.ini # u
                          => l.ts <= last_ts[u]
    BY <1>1, Zenon DEF SessionsAre
  <2> QED BY <1>8, <2>1, <2>2, <2>3, Zenon
<1>18. NoncesFresh'
  BY <1>1, <1>3, <1>8, Zenon DEF NoncesFresh
<1>19. InitAnsweredOnce' /\ OwnKeyOnly'
  BY <1>1, <1>3 DEF InitAnsweredOnce, OwnKeyOnly, OwnStatic
<1> QED BY <1>10, <1>14, <1>15, <1>16, <1>17, <1>18, <1>19, Zenon DEF TunnelInv

\* Two sessions of a ring have different keys: each is in the slot of its index.
LEMMA OneSlot ==
  ASSUME SessionsAre, NEW n \in Endpoints, NEW i \in Slots, NEW j \in Slots,
         sessions[n][i] # None, sessions[n][j] # None, sessions[n][i].key = sessions[n][j].key
  PROVE  i = j
BY Zenon DEF SessionsAre

\* encapsulate seals with the counter of the session and counts it up.
LEMMA SealKeeps ==
  ASSUME TunnelInv, NEW n \in Endpoints, sessions[n][Slot(current[n])] # None, Encapsulate(n)
  PROVE  TunnelInv'
<1>1. TypeOK /\ KeysAre /\ MsgsAre /\ AwaitedAre /\ SessionsAre
      /\ NoncesFresh /\ InitAnsweredOnce /\ OwnKeyOnly
  BY Zenon DEF TunnelInv
<1> DEFINE slot == Slot(current[n])
           o == sessions[n][slot]
<1>2. /\ msgs' = msgs \cup {DataMsg(n, o.key, o.sent)}
      /\ sessions' = [sessions EXCEPT ![n][slot].sent = @ + 1]
      /\ state' = state /\ previous' = previous /\ next_index' = next_index /\ made' = made
      /\ stamp' = stamp /\ last_ts' = last_ts /\ session_timers' = session_timers
      /\ current' = current /\ now' = now /\ static' = static /\ known' = known
      /\ turns' = turns /\ Pq' = Pq /\ installed' = installed
  BY Zenon DEF Encapsulate, config
<1>3. slot \in Slots /\ o # None
  <2>1. current[n] \in Nat
    BY <1>1, TunnelAssumption DEF TypeOK
  <2> QED BY <2>1, IndexIs, Zenon
<1>4. o \in Sealed /\ o.key \in Key /\ o.sent \in Nat /\ o.got \in SUBSET Nat
  BY <1>1, <1>3, SessionIs, Zenon
<1>5. PICK m \in DataMsgs : /\ msgs' = msgs \cup {m}
                            /\ m.type = "Data" /\ m.from = n /\ m.key = o.key /\ m.ctr = o.sent
  <2> DEFINE m == DataMsg(n, o.key, o.sent)
  <2>1. m \in DataMsgs /\ m.type = "Data" /\ m.from = n /\ m.key = o.key /\ m.ctr = o.sent
    BY <1>4, Zenon DEF DataMsg, DataMsgs
  <2> QED BY <1>2, <2>1, Zenon
<1>6. PICK s \in Sealed : /\ s = [o EXCEPT !.sent = @ + 1]
                          /\ s.key = o.key /\ s.sent = o.sent + 1
  <2>1. [o EXCEPT !.sent = @ + 1] \in Sealed
    BY <1>4 DEF Sealed
  <2>2. LET s == [o EXCEPT !.sent = @ + 1]
        IN  s.key = o.key /\ s.sent = o.sent + 1
    BY <1>4, Zenon DEF Sealed
  <2> QED BY <2>1, <2>2, Zenon
<1>7. sessions' = [sessions EXCEPT ![n] = [sessions[n] EXCEPT ![slot] = s]]
  BY <1>2, <1>6, Zenon
<1>8. s.key = o.key /\ s.sent = o.sent + 1
  BY <1>6, Zenon
<1> HIDE DEF slot
<1>9. /\ sessions' \in [Endpoints -> [Slots -> Sealed \cup {None}]]
      /\ sessions'[n][slot] = s
      /\ \A u \in Endpoints, i \in Slots :
           ~(u = n /\ i = slot) => sessions'[u][i] = sessions[u][i]
  BY <1>1, <1>3, <1>7, Zenon DEF TypeOK
<1>10. \A u \in Endpoints, i \in Slots :
        sessions'[u][i] # None => /\ sessions[u][i] # None
                                  /\ sessions'[u][i].key = sessions[u][i].key
  BY <1>3, <1>8, <1>9, Zenon
<1>11. o.key \in installed[n]
  BY <1>1, <1>3, Zenon DEF SessionsAre
<1>12. TypeOK'
  <2>1. msgs' \subseteq InitMsgs \cup RespMsgs \cup DataMsgs
    BY <1>1, <1>5, Zenon DEF TypeOK
  <2> QED BY <1>1, <1>2, <1>9, <2>1, Zenon DEF TypeOK
<1>13. KeysAre'
  BY <1>1, <1>2, Zenon DEF KeysAre
<1>14. MsgsAre'
  BY <1>1, <1>2, <1>5, <1>11, Zenon DEF MsgsAre
<1>15. AwaitedAre'
  BY <1>1, <1>2, Zenon DEF AwaitedAre, Unanswered
<1>16. SessionsAre'
  <2> SUFFICES ASSUME NEW u \in Endpoints, NEW i \in Slots, sessions'[u][i] # None
               PROVE  LET k == sessions'[u][i].key
                      IN  /\ k \in installed[u]
                          /\ Slot(Local(u, k)) = i
                          /\ \A l \in msgs' : l.type = "Init" /\ l.from = k.ini
                                             /\ l.eph = k.ieph /\ k.ini # u => l.ts <= last_ts[u]
    BY <1>2, Zenon DEF SessionsAre
  <2> DEFINE k == sessions[u][i].key
  <2>1. k \in installed[u] /\ Slot(Local(u, k)) = i /\ sessions'[u][i].key = k
    BY <1>1, <1>10, Zenon DEF SessionsAre
  <2>2. \A l \in msgs : l.type = "Init" /\ l.from = k.ini /\ l.eph = k.ieph /\ k.ini # u
                          => l.ts <= last_ts[u]
    BY <1>1, <1>10, Zenon DEF SessionsAre
  <2> QED BY <1>5, <2>1, <2>2, Zenon
<1>17. NoncesFresh'
  <2> SUFFICES ASSUME NEW u \in Endpoints, NEW i \in Slots, sessions'[u][i] # None,
                      NEW l \in msgs', l.type = "Data", l.from = u, l.key = sessions'[u][i].key
               PROVE  l.ctr < sessions'[u][i].sent
    BY Zenon DEF NoncesFresh
  <2>1. CASE u = n /\ i = slot
    <3>1. CASE l \in msgs
      <4>1. l.ctr < o.sent
        <5>1. l.key = sessions[n][slot].key /\ sessions[n][slot] # None
          BY <1>3, <1>9, <1>8, <2>1, Zenon
        <5> QED BY <1>1, <1>3, <2>1, <3>1, <5>1, Zenon DEF NoncesFresh
      <4>2. l.ctr \in Nat
        BY <1>1, <3>1, MsgIs, Zenon
      <4> QED BY <1>4, <1>8, <1>9, <2>1, <4>1, <4>2
    <3>2. CASE l = m
      BY <1>4, <1>5, <1>8, <1>9, <2>1, <3>2
    <3> QED BY <1>5, <3>1, <3>2, Zenon
  <2>2. CASE ~(u = n /\ i = slot)
    <3>1. l # m
      <4>1. CASE u # n
        BY <1>5, <4>1, Zenon
      <4>2. CASE u = n
        BY <1>1, <1>3, <1>5, <1>9, <2>2, <4>2, OneSlot
      <4> QED BY <4>1, <4>2, Zenon
    <3> QED BY <1>1, <1>5, <1>9, <2>2, <3>1, Zenon DEF NoncesFresh
  <2> QED BY <2>1, <2>2, Zenon
<1>18. InitAnsweredOnce'
  BY <1>1, <1>10, SMTT(30) DEF InitAnsweredOnce
<1>19. OwnKeyOnly'
  BY <1>1, <1>2, <1>10 DEF OwnKeyOnly, OwnStatic
<1> QED BY <1>12, <1>13, <1>14, <1>15, <1>16, <1>17, <1>18, <1>19, Zenon DEF TunnelInv

\* A session just stored.
LEMMA NewSession ==
  ASSUME NEW k \in Key, NEW c \in Nat
  PROVE  /\ Session(k, c) \in Sealed
         /\ Session(k, c).key = k /\ Session(k, c).sent = c
BY Zenon DEF Session, Sealed

\* handle_handshake_init answers an initiation with a session of its own.
LEMMA InitAnswered ==
  ASSUME TunnelInv, NEW n \in Endpoints, NEW m \in msgs, ReceiveInit(n, m, "sent")
  PROVE  TunnelInv'
<1>1. TypeOK /\ KeysAre /\ MsgsAre /\ AwaitedAre /\ SessionsAre
      /\ NoncesFresh /\ InitAnsweredOnce /\ OwnKeyOnly
  BY Zenon DEF TunnelInv
<1> DEFINE e == Fresh(n)
           slot == Slot(e.idx)
           K == [ini |-> m.from, ieph |-> m.eph, reph |-> e,
                 istatic |-> m.istatic, rstatic |-> m.rstatic, pq |-> m.pq]
<1>2. /\ Accepts(n, m) /\ Draw(n)
      /\ last_ts' = [last_ts EXCEPT ![n] = m.ts]
      /\ previous' = [previous EXCEPT ![n] = state[n]]
      /\ state' = [state EXCEPT ![n] = NoHandshake]
      /\ msgs' = msgs \cup {RespMsg(n, K)}
      /\ sessions' = [sessions EXCEPT ![n][slot] = Session(K, 0)]
      /\ session_timers' = [session_timers EXCEPT ![n][slot] = now[n]]
      /\ installed' = [installed EXCEPT ![n] = @ \cup {K}]
      /\ stamp' = stamp /\ current' = current /\ now' = now
      /\ static' = static /\ known' = known /\ turns' = turns /\ Pq' = Pq
  BY Zenon DEF ReceiveInit, config
<1>3. /\ e \in Eph /\ e.id = made[n] + 1
      /\ made' \in [Endpoints -> Nat] /\ Total(made') <= MaxMade
      /\ made'[n] = made[n] + 1
      /\ \A u \in Endpoints : made'[u] >= made[u]
      /\ next_index' \in [Endpoints -> 0 .. IndexSpace - 1]
  BY <1>1, <1>2, DrawIs, Zenon
<1>4. made[n] \in Nat
  BY <1>1, Zenon DEF TypeOK
<1>5. /\ m.type = "Init" /\ m.from = Other(n) /\ m.from \in Endpoints /\ m.from # n
      /\ m.rstatic = static[n] /\ m.ts > last_ts[n]
  BY <1>2, OtherIs, Zenon DEF Accepts, After
<1>6. m \in InitMsgs /\ m.ts \in Nat /\ last_ts[n] \in Nat /\ m.eph.id \in Nat
  BY <1>1, <1>5, MsgIs, Zenon DEF TypeOK
<1>7. K \in Key
  BY <1>3, <1>5, <1>6, Zenon DEF InitMsgs, Key
<1>8. PICK k \in Key : /\ k = K /\ k.ini = m.from /\ k.ieph = m.eph /\ k.reph = e
                       /\ k.rstatic = m.rstatic
  BY <1>7, Zenon
<1>9. slot \in Slots /\ Local(n, k) = e.idx
  <2>1. e.idx \in 0 .. IndexSpace - 1
    BY <1>3, Zenon DEF Eph
  <2>2. e.idx \in Nat
    BY <2>1, TunnelAssumption
  <2> QED BY <1>5, <1>8, <2>2, IndexIs, Zenon DEF Local
<1>10. PICK s \in Sealed : s = Session(K, 0) /\ s.key = k /\ s.sent = 0
  BY <1>8, NewSession, Zenon
<1>11. PICK r \in RespMsgs : /\ msgs' = msgs \cup {r}
                             /\ r.type = "Resp" /\ r.from = n /\ r.key = k
  <2>1. RespMsg(n, k) \in RespMsgs
    BY Zenon DEF RespMsg, RespMsgs
  <2>2. RespMsg(n, k).type = "Resp" /\ RespMsg(n, k).from = n /\ RespMsg(n, k).key = k
    BY Zenon DEF RespMsg
  <2> QED BY <1>2, <1>8, <2>1, <2>2, Zenon
<1>12. /\ sessions' = [sessions EXCEPT ![n] = [sessions[n] EXCEPT ![slot] = s]]
       /\ installed' = [installed EXCEPT ![n] = installed[n] \cup {k}]
  BY <1>2, <1>8, <1>10, Zenon
<1>13. /\ k.ini = Other(n) /\ k.ini # n /\ k.ini \in Endpoints /\ Other(k.ini) = n
       /\ k.ieph = m.eph /\ k.reph = e /\ k.rstatic = static[n]
       /\ s.key = k /\ s.sent = 0 /\ m.from = Other(n) /\ m.type = "Init"
  BY <1>5, <1>8, <1>10, OtherIs, Zenon
<1> HIDE DEF slot, e, K
<1>14. /\ sessions' \in [Endpoints -> [Slots -> Sealed \cup {None}]]
       /\ sessions'[n][slot] = s
       /\ \A u \in Endpoints, i \in Slots :
            ~(u = n /\ i = slot) => sessions'[u][i] = sessions[u][i]
  BY <1>1, <1>9, <1>12, Zenon DEF TypeOK
<1>15. /\ installed' \in [Endpoints -> SUBSET Key]
       /\ installed'[n] = installed[n] \cup {k}
       /\ \A u \in Endpoints : u # n => installed'[u] = installed[u]
  BY <1>1, <1>12, Zenon DEF TypeOK
<1>16. /\ last_ts' \in [Endpoints -> Nat] /\ last_ts'[n] = m.ts
       /\ \A u \in Endpoints : u # n => last_ts'[u] = last_ts[u]
  BY <1>1, <1>2, <1>6, Zenon DEF TypeOK
<1>17. /\ state' \in [Endpoints -> Handshakes] /\ previous' \in [Endpoints -> Handshakes]
       /\ state'[n].tag # "InitSent" /\ previous'[n] = state[n]
       /\ \A u \in Endpoints : u # n => state'[u] = state[u] /\ previous'[u] = previous[u]
  BY <1>1, <1>2, Quiet, Zenon DEF TypeOK
<1>18. TypeOK'
  <2>1. session_timers' \in [Endpoints -> [Slots -> Nat]]
    BY <1>1, <1>2, <1>9, Zenon DEF TypeOK
  <2>2. msgs' \subseteq InitMsgs \cup RespMsgs \cup DataMsgs
    BY <1>1, <1>11, Zenon DEF TypeOK
  <2>3. /\ stamp' \in [Endpoints -> Nat] /\ now' \in [Endpoints -> Nat]
        /\ current' \in [Endpoints -> 0 .. IndexSpace - 1]
        /\ static' \in [Endpoints -> Nat] /\ Total(static') <= MaxRekeys
        /\ known' \in [Endpoints -> 0 .. MaxRekeys] /\ turns' \in Nat /\ Pq' \subseteq Endpoints
    BY <1>1, <1>2, Zenon DEF TypeOK
  <2> QED BY <1>3, <1>14, <1>15, <1>16, <1>17, <2>1, <2>2, <2>3, Zenon DEF TypeOK
<1>19. \A u \in Endpoints, x \in Nat : x <= made[u] => x <= made'[u]
  BY <1>1, <1>2, OlderStay, Zenon
<1>20. k \notin installed[n] /\ k \notin installed[Other(n)]
  <2>1. ASSUME NEW u \in Endpoints, k \in installed[u]
        PROVE  FALSE
    <3>1. k.reph.id \in Nat /\ k.reph.id <= made[Other(k.ini)]
      BY <1>1, <2>1, KeyIs, Zenon
    <3> QED BY <1>3, <1>4, <1>13, <3>1
  <2> QED BY <2>1, OtherIs, Zenon
<1>21. KeysAre'
  <2> SUFFICES ASSUME NEW u \in Endpoints, NEW l \in installed'[u]
               PROVE  l.ieph.id <= made'[l.ini] /\ l.reph.id <= made'[Other(l.ini)]
    BY Zenon DEF KeysAre
  <2>1. CASE l \in installed[u]
    BY <1>1, <1>19, <2>1, KeyIs, OtherIs, Zenon
  <2>2. CASE l = k
    <3>1. k.ieph.id <= made'[k.ini]
      BY <1>1, <1>6, <1>13, <1>19, Zenon DEF MsgsAre
    <3>2. k.reph.id <= made'[Other(k.ini)]
      BY <1>3, <1>4, <1>13
    <3> QED BY <2>2, <3>1, <3>2, Zenon
  <2> QED BY <1>15, <2>1, <2>2, Zenon
<1>22. MsgsAre'
  <2>1. \A l \in msgs' : l.type = "Init" => l.eph.id <= made'[l.from]
    BY <1>1, <1>11, <1>19, MsgIs, Zenon DEF MsgsAre
  <2>2. \A l, h \in msgs' : l.type = "Init" /\ h.type = "Init" /\ l.from = h.from
                              /\ l.eph = h.eph => l.ts = h.ts
    BY <1>1, <1>11, Zenon DEF MsgsAre
  <2>3. \A l \in msgs' : l.type = "Resp" => l.key \in installed'[l.from] /\ l.key.ini # l.from
    BY <1>1, <1>11, <1>13, <1>15, MsgIs, Zenon DEF MsgsAre
  <2>4. \A l \in msgs' : l.type = "Data" => l.key \in installed'[l.from]
    BY <1>1, <1>11, <1>15, MsgIs, Zenon DEF MsgsAre
  <2> QED BY <2>1, <2>2, <2>3, <2>4, Zenon DEF MsgsAre
<1>23. AwaitedAre'
  <2>1. ASSUME NEW u \in Endpoints, NEW h \in {state[u], previous[u]}, h.tag = "InitSent"
        PROVE  /\ h.eph.id <= made'[u]
               /\ \A l \in installed'[u] : l.ini = u => l.ieph # h.eph
    <3>1. h \in Handshakes
      BY <1>1, SMTT(30) DEF TypeOK
    <3>2. h.eph.id \in Nat
      BY <2>1, <3>1 DEF Handshakes, NoHandshake, InitReceived, Expired, Eph
    <3>3. Unanswered(u, h)
      BY <1>1, Zenon DEF AwaitedAre
    <3>4. h.eph.id <= made'[u]
      BY <1>19, <2>1, <3>2, <3>3, Zenon DEF Unanswered
    <3>5. \A l \in installed[u] : l.ini = u => l.ieph # h.eph
      BY <2>1, <3>3, Zenon DEF Unanswered
    <3>6. \A l \in installed'[u] : l.ini = u => l \in installed[u]
      BY <1>13, <1>15, Zenon
    <3> QED BY <3>4, <3>5, <3>6, Zenon
  <2>2. ASSUME NEW u \in Endpoints
        PROVE  Unanswered(u, state[u])' /\ Unanswered(u, previous[u])'
    <3>1. CASE u = n
      BY <1>17, <2>1, <3>1, Zenon DEF Unanswered
    <3>2. CASE u # n
      BY <1>17, <2>1, <3>2, Zenon DEF Unanswered
    <3> QED BY <3>1, <3>2, Zenon
  <2>3. ASSUME NEW u \in Endpoints, state'[u].tag = "InitSent", previous'[u].tag = "InitSent"
        PROVE  state'[u].eph # previous'[u].eph
    BY <1>1, <1>17, <2>3, Zenon DEF AwaitedAre
  <2> QED BY <2>2, <2>3, Zenon DEF AwaitedAre
<1>24. SessionsAre'
  <2> SUFFICES ASSUME NEW u \in Endpoints, NEW i \in Slots, sessions'[u][i] # None
               PROVE  LET q == sessions'[u][i].key
                      IN  /\ q \in installed'[u]
                          /\ Slot(Local(u, q)) = i
                          /\ \A l \in msgs' : l.type = "Init" /\ l.from = q.ini
                                             /\ l.eph = q.ieph /\ q.ini # u => l.ts <= last_ts'[u]
    BY Zenon DEF SessionsAre
  <2>1. CASE u = n /\ i = slot
    <3>1. sessions'[u][i].key = k
      BY <1>13, <1>14, <2>1, Zenon
    <3>2. k \in installed'[u] /\ Slot(Local(u, k)) = i
      BY <1>9, <1>15, <2>1, Zenon DEF slot
    <3>3. \A l \in msgs' : l.type = "Init" /\ l.from = k.ini /\ l.eph = k.ieph
                             => l.ts <= last_ts'[u]
      <4>1. ASSUME NEW l \in msgs', l.type = "Init", l.from = k.ini, l.eph = k.ieph
            PROVE  l.ts = m.ts
        <5>1. l \in msgs /\ m \in msgs /\ m.from = l.from /\ m.eph = l.eph
          BY <1>11, <1>13, <4>1, Zenon
        <5> QED BY <1>1, <1>13, <4>1, <5>1, Zenon DEF MsgsAre
      <4> QED BY <1>6, <1>16, <2>1, <4>1
    <3> QED BY <3>1, <3>2, <3>3, Zenon
  <2>2. CASE ~(u = n /\ i = slot)
    <3> DEFINE q == sessions[u][i].key
    <3>1. sessions'[u][i] = sessions[u][i]
      BY <1>14, <2>2, Zenon
    <3>2. q \in installed[u] /\ Slot(Local(u, q)) = i
      BY <1>1, <3>1, Zenon DEF SessionsAre
    <3>3. q \in installed'[u]
      BY <1>15, <3>2, Zenon
    <3>4. ASSUME NEW l \in msgs', l.type = "Init", l.from = q.ini, l.eph = q.ieph, q.ini # u
          PROVE  l.ts <= last_ts'[u]
      <4>1. l \in msgs
        BY <1>11, <3>4, Zenon
      <4>2. l.ts <= last_ts[u]
        BY <1>1, <3>1, <3>4, <4>1, Zenon DEF SessionsAre
      <4>3. l.ts \in Nat /\ last_ts[u] \in Nat
        BY <1>1, <3>4, <4>1, MsgIs, Zenon DEF TypeOK
      <4>4. last_ts[u] <= last_ts'[u]
        BY <1>5, <1>6, <1>16, <4>3
      <4> QED BY <1>18, <4>2, <4>3, <4>4 DEF TypeOK
    <3> QED BY <3>1, <3>2, <3>3, <3>4, Zenon
  <2> QED BY <2>1, <2>2, Zenon
<1>25. NoncesFresh'
  <2> SUFFICES ASSUME NEW u \in Endpoints, NEW i \in Slots, sessions'[u][i] # None,
                      NEW l \in msgs', l.type = "Data", l.from = u, l.key = sessions'[u][i].key
               PROVE  l.ctr < sessions'[u][i].sent
    BY Zenon DEF NoncesFresh
  <2>1. l \in msgs
    BY <1>11, Zenon
  <2>2. ~(u = n /\ i = slot)
    <3> SUFFICES ASSUME u = n, i = slot PROVE FALSE
      BY Zenon
    <3>1. l.key = k
      BY <1>13, <1>14, Zenon
    <3>2. k \in installed[n]
      BY <1>1, <2>1, <3>1, Zenon DEF MsgsAre
    <3> QED BY <1>20, <3>2, Zenon
  <2>3. sessions'[u][i] = sessions[u][i]
    BY <1>14, <2>2, Zenon
  <2> QED BY <1>1, <2>1, <2>3, Zenon DEF NoncesFresh
<1>26. InitAnsweredOnce'
  <2>1. ASSUME NEW j \in Slots, j # slot, sessions[n][j] # None
        PROVE  ~(sessions[n][j].key.ini = k.ini /\ sessions[n][j].key.ieph = k.ieph)
    <3> SUFFICES ASSUME sessions[n][j].key.ini = k.ini, sessions[n][j].key.ieph = k.ieph
                 PROVE  FALSE
      BY Zenon
    <3>1. m.ts <= last_ts[n]
      BY <1>1, <1>13, <2>1, Zenon DEF SessionsAre
    <3> QED BY <1>5, <1>6, <3>1
  <2> SUFFICES ASSUME NEW u \in Endpoints, NEW i \in Slots, NEW j \in Slots, i # j,
                      sessions'[u][i] # None, sessions'[u][j] # None,
                      sessions'[u][i].key.ini = sessions'[u][j].key.ini,
                      sessions'[u][i].key.ieph = sessions'[u][j].key.ieph
               PROVE  FALSE
    BY Zenon DEF InitAnsweredOnce
  <2>2. CASE u = n /\ i = slot
    BY <1>13, <1>14, <2>1, <2>2
  <2>3. CASE u = n /\ j = slot
    BY <1>13, <1>14, <2>1, <2>3
  <2>4. CASE ~(u = n /\ i = slot) /\ ~(u = n /\ j = slot)
    <3>1. sessions'[u][i] = sessions[u][i] /\ sessions'[u][j] = sessions[u][j]
      BY <1>14, <2>4, Zenon
    <3> QED BY <1>1, <3>1, Zenon DEF InitAnsweredOnce
  <2> QED BY <2>2, <2>3, <2>4, Zenon
<1>27. OwnKeyOnly'
  <2> SUFFICES ASSUME NEW u \in Endpoints, NEW i \in Slots, sessions'[u][i] # None
               PROVE  OwnStatic(u, sessions'[u][i].key) = static[u]
    BY <1>2 DEF OwnKeyOnly, OwnStatic
  <2>1. CASE u = n /\ i = slot
    BY <1>13, <1>14, <2>1, Zenon DEF OwnStatic
  <2>2. CASE ~(u = n /\ i = slot)
    BY <1>1, <1>14, <2>2, Zenon DEF OwnKeyOnly
  <2> QED BY <2>1, <2>2, Zenon
<1> QED BY <1>18, <1>21, <1>22, <1>23, <1>24, <1>25, <1>26, <1>27, Zenon DEF TunnelInv

\* handle_handshake_response completes one outgoing handshake with a key that was
\* never installed here before.
LEMMA ResponseKeeps ==
  ASSUME TunnelInv, NEW n \in Endpoints, NEW m \in msgs, ReceiveResponse(n, m)
  PROVE  TunnelInv'
<1>1. TypeOK /\ KeysAre /\ MsgsAre /\ AwaitedAre /\ SessionsAre
      /\ NoncesFresh /\ InitAnsweredOnce /\ OwnKeyOnly
  BY Zenon DEF TunnelInv
<1> DEFINE k == m.key
           slot == Slot(k.ieph.idx)
           s == Session(k, 1)
           hs == Matched(n, m)
           ring == [sessions[n] EXCEPT ![slot] = s]
           times == [session_timers[n] EXCEPT ![slot] = now[n]]
<1>2. /\ m.type = "Resp" /\ m.from = Other(n)
      /\ Match(n, m) # "neither" /\ Opens(n, m) /\ Complete(n, m)
      /\ sessions' = [sessions EXCEPT ![n] = ring]
      /\ session_timers' = [session_timers EXCEPT ![n] = times]
      /\ current' = [current EXCEPT ![n] = SetCurrentSession(n, k.ieph.idx, ring, times)]
      /\ msgs' = msgs \cup {DataMsg(n, k, 0)}
      /\ installed' = [installed EXCEPT ![n] = @ \cup {k}]
      /\ next_index' = next_index /\ made' = made /\ stamp' = stamp /\ last_ts' = last_ts
      /\ now' = now /\ static' = static /\ known' = known /\ turns' = turns /\ Pq' = Pq
  BY Zenon DEF ReceiveResponse, config
<1>3. k \in Key /\ k.ini = n /\ k.ieph = hs.eph /\ k.istatic = static[n]
  BY <1>1, <1>2, MsgIs, Zenon DEF Opens
<1>4. /\ k.ieph.idx \in 0 .. IndexSpace - 1 /\ slot \in Slots
      /\ Local(n, k) = k.ieph.idx
  <2>1. k.ieph \in Eph
    BY <1>3, Zenon DEF Key
  <2>2. k.ieph.idx \in 0 .. IndexSpace - 1
    BY <2>1, Zenon DEF Eph
  <2>3. k.ieph.idx \in Nat
    BY <2>2, TunnelAssumption
  <2> QED BY <1>3, <2>2, <2>3, IndexIs, Zenon DEF Local
<1>5. s \in Sealed /\ s.key = k /\ s.sent = 1
  BY <1>3, NewSession
<1>6. current' \in [Endpoints -> 0 .. IndexSpace - 1]
  <2>1. SetCurrentSession(n, k.ieph.idx, ring, times) \in 0 .. IndexSpace - 1
    BY <1>1, <1>4, Zenon DEF TypeOK, SetCurrentSession
  <2> HIDE DEF ring, times
  <2> QED BY <1>1, <1>2, <2>1, Zenon DEF TypeOK
<1>7. session_timers' \in [Endpoints -> [Slots -> Nat]]
  BY <1>1, <1>2, <1>4, Zenon DEF TypeOK
<1>8. PICK d \in DataMsgs : /\ msgs' = msgs \cup {d}
                            /\ d.type = "Data" /\ d.from = n /\ d.key = k /\ d.ctr = 0
  <2>1. DataMsg(n, k, 0) \in DataMsgs
    BY <1>3, Zenon DEF DataMsg, DataMsgs
  <2>2. /\ DataMsg(n, k, 0).type = "Data" /\ DataMsg(n, k, 0).from = n
        /\ DataMsg(n, k, 0).key = k /\ DataMsg(n, k, 0).ctr = 0
    BY Zenon DEF DataMsg
  <2> QED BY <1>2, <2>1, <2>2, Zenon
<1>9. /\ hs \in {state[n], previous[n]} /\ hs.tag = "InitSent"
      /\ \/ /\ hs = state[n] /\ previous' = previous
            /\ state' = [state EXCEPT ![n] = NoHandshake]
         \/ /\ hs = previous[n] /\ state' = state
            /\ previous' = [previous EXCEPT ![n] = NoHandshake]
  <2>1. CASE Match(n, m) = "state"
    BY <1>2, <2>1, Zenon DEF Match, Matched, Awaits, Complete
  <2>2. CASE Match(n, m) = "previous"
    BY <1>2, <2>2, Zenon DEF Match, Matched, Awaits, Complete
  <2> QED BY <1>2, <2>1, <2>2, Zenon DEF Match
<1> HIDE DEF slot, s, hs, ring, times
<1>10. /\ sessions' \in [Endpoints -> [Slots -> Sealed \cup {None}]]
       /\ sessions'[n][slot] = s
       /\ \A u \in Endpoints, i \in Slots :
            ~(u = n /\ i = slot) => sessions'[u][i] = sessions[u][i]
  BY <1>1, <1>2, <1>4, <1>5, Zenon DEF TypeOK, ring
<1>11. /\ installed' \in [Endpoints -> SUBSET Key]
       /\ installed'[n] = installed[n] \cup {k}
       /\ \A u \in Endpoints : u # n => installed'[u] = installed[u]
  BY <1>1, <1>2, <1>3, Zenon DEF TypeOK
<1>12. \A l \in installed[n] : ~(l.ini = n /\ l.ieph = k.ieph)
  <2>1. Unanswered(n, hs)
    BY <1>1, <1>9, Zenon DEF AwaitedAre
  <2> QED BY <1>3, <1>9, <2>1, Zenon DEF Unanswered
<1>13. k \notin installed[n] /\ k \in installed[Other(n)] /\ Other(n) \in Endpoints
  BY <1>1, <1>2, <1>3, <1>12, OtherIs, Zenon DEF MsgsAre
<1>14. state' \in [Endpoints -> Handshakes] /\ previous' \in [Endpoints -> Handshakes]
  BY <1>1, <1>9, Quiet, Zenon DEF TypeOK
<1>15. \A u \in Endpoints :
         /\ state'[u].tag = "InitSent" =>
              state'[u] = state[u] /\ (u = n => state[u].eph # k.ieph)
         /\ previous'[u].tag = "InitSent" =>
              previous'[u] = previous[u] /\ (u = n => previous[u].eph # k.ieph)
  <2>1. state[n].tag = "InitSent" /\ previous[n].tag = "InitSent"
            => state[n].eph # previous[n].eph
    BY <1>1, Zenon DEF AwaitedAre
  <2>2. CASE /\ hs = state[n] /\ previous' = previous
             /\ state' = [state EXCEPT ![n] = NoHandshake]
    BY <1>1, <1>3, <1>9, <2>1, <2>2, Quiet, Zenon DEF TypeOK
  <2>3. CASE /\ hs = previous[n] /\ state' = state
             /\ previous' = [previous EXCEPT ![n] = NoHandshake]
    BY <1>1, <1>3, <1>9, <2>1, <2>3, Quiet, Zenon DEF TypeOK
  <2> QED BY <1>9, <2>2, <2>3, Zenon
<1>16. TypeOK'
  <2>1. msgs' \subseteq InitMsgs \cup RespMsgs \cup DataMsgs
    BY <1>1, <1>8, Zenon DEF TypeOK
  <2>2. /\ next_index' \in [Endpoints -> 0 .. IndexSpace - 1]
        /\ made' \in [Endpoints -> Nat] /\ Total(made') <= MaxMade
        /\ stamp' \in [Endpoints -> Nat] /\ now' \in [Endpoints -> Nat]
        /\ last_ts' \in [Endpoints -> Nat]
        /\ static' \in [Endpoints -> Nat] /\ Total(static') <= MaxRekeys
        /\ known' \in [Endpoints -> 0 .. MaxRekeys] /\ turns' \in Nat /\ Pq' \subseteq Endpoints
    BY <1>1, <1>2, Zenon DEF TypeOK
  <2> QED BY <1>6, <1>7, <1>10, <1>11, <1>14, <2>1, <2>2, Zenon DEF TypeOK
<1>17. KeysAre'
  <2> SUFFICES ASSUME NEW u \in Endpoints, NEW l \in installed'[u]
               PROVE  l.ieph.id <= made[l.ini] /\ l.reph.id <= made[Other(l.ini)]
    BY <1>2, Zenon DEF KeysAre
  <2>1. \E v \in Endpoints : l \in installed[v]
    BY <1>11, <1>13, Zenon
  <2> QED BY <1>1, <2>1, Zenon DEF KeysAre
<1>18. MsgsAre'
  <2>1. \A l \in msgs' : l.type = "Init" => l.eph.id <= made'[l.from]
    BY <1>1, <1>2, <1>8, Zenon DEF MsgsAre
  <2>2. \A l, h \in msgs' : l.type = "Init" /\ h.type = "Init" /\ l.from = h.from
                              /\ l.eph = h.eph => l.ts = h.ts
    BY <1>1, <1>8, Zenon DEF MsgsAre
  <2>3. \A l \in msgs' : l.type = "Resp" => l.key \in installed'[l.from] /\ l.key.ini # l.from
    BY <1>1, <1>8, <1>11, MsgIs, Zenon DEF MsgsAre
  <2>4. \A l \in msgs' : l.type = "Data" => l.key \in installed'[l.from]
    BY <1>1, <1>8, <1>11, MsgIs, Zenon DEF MsgsAre
  <2> QED BY <2>1, <2>2, <2>3, <2>4, Zenon DEF MsgsAre
<1>19. AwaitedAre'
  <2>1. ASSUME NEW u \in Endpoints, NEW h \in {state[u], previous[u]}, h.tag = "InitSent",
               u = n => h.eph # k.ieph
        PROVE  /\ h.eph.id <= made'[u]
               /\ \A l \in installed'[u] : l.ini = u => l.ieph # h.eph
    <3>1. Unanswered(u, h)
      BY <1>1, Zenon DEF AwaitedAre
    <3>2. \A l \in installed[u] : l.ini = u => l.ieph # h.eph
      BY <2>1, <3>1, Zenon DEF Unanswered
    <3>3. h.eph.id <= made'[u]
      BY <1>2, <2>1, <3>1, Zenon DEF Unanswered
    <3> QED BY <1>11, <2>1, <3>2, <3>3, Zenon
  <2>2. ASSUME NEW u \in Endpoints
        PROVE  Unanswered(u, state[u])' /\ Unanswered(u, previous[u])'
    BY <1>15, <2>1, Zenon DEF Unanswered
  <2>3. ASSUME NEW u \in Endpoints, state'[u].tag = "InitSent", previous'[u].tag = "InitSent"
        PROVE  state'[u].eph # previous'[u].eph
    BY <1>1, <1>15, <2>3, Zenon DEF AwaitedAre
  <2> QED BY <2>2, <2>3, Zenon DEF AwaitedAre
<1>20. SessionsAre'
  <2> SUFFICES ASSUME NEW u \in Endpoints, NEW i \in Slots, sessions'[u][i] # None
               PROVE  LET q == sessions'[u][i].key
                      IN  /\ q \in installed'[u]
                          /\ Slot(Local(u, q)) = i
                          /\ \A l \in msgs' : l.type = "Init" /\ l.from = q.ini
                                             /\ l.eph = q.ieph /\ q.ini # u => l.ts <= last_ts[u]
    BY <1>2, Zenon DEF SessionsAre
  <2>1. CASE u = n /\ i = slot
    <3>1. sessions'[u][i].key = k
      BY <1>5, <1>10, <2>1, Zenon
    <3>2. k \in installed'[u] /\ Slot(Local(u, k)) = i /\ k.ini = u
      BY <1>3, <1>4, <1>11, <2>1, Zenon DEF slot
    <3> QED BY <3>1, <3>2, Zenon
  <2>2. CASE ~(u = n /\ i = slot)
    <3> DEFINE q == sessions[u][i].key
    <3>1. sessions'[u][i] = sessions[u][i]
      BY <1>10, <2>2, Zenon
    <3>2. q \in installed[u] /\ Slot(Local(u, q)) = i
      BY <1>1, <3>1, Zenon DEF SessionsAre
    <3>3. q \in installed'[u]
      BY <1>11, <3>2, Zenon
    <3>4. \A l \in msgs : l.type = "Init" /\ l.from = q.ini /\ l.eph = q.ieph /\ q.ini # u
                            => l.ts <= last_ts[u]
      BY <1>1, <3>1, Zenon DEF SessionsAre
    <3> QED BY <1>8, <3>1, <3>2, <3>3, <3>4, Zenon
  <2> QED BY <2>1, <2>2, Zenon
<1>21. NoncesFresh'
  <2> SUFFICES ASSUME NEW u \in Endpoints, NEW i \in Slots, sessions'[u][i] # None,
                      NEW l \in msgs', l.type = "Data", l.from = u, l.key = sessions'[u][i].key
               PROVE  l.ctr < sessions'[u][i].sent
    BY Zenon DEF NoncesFresh
  <2>1. \A h \in msgs : h.type = "Data" /\ h.from = n => h.key # k
    BY <1>1, <1>13, Zenon DEF MsgsAre
  <2>2. CASE u = n /\ i = slot
    <3>1. l = d
      BY <1>5, <1>8, <1>10, <2>1, <2>2, Zenon
    <3> QED BY <1>5, <1>8, <1>10, <2>2, <3>1
  <2>3. CASE ~(u = n /\ i = slot)
    <3>1. sessions'[u][i] = sessions[u][i]
      BY <1>10, <2>3, Zenon
    <3>2. l # d
      <4> SUFFICES ASSUME l = d PROVE FALSE
        BY Zenon
      <4>1. u = n /\ sessions[n][i].key = k /\ sessions[n][i] # None
        BY <1>8, <3>1, Zenon
      <4>2. k \in installed[n]
        BY <1>1, <4>1, Zenon DEF SessionsAre
      <4> QED BY <1>13, <4>2, Zenon
    <3> QED BY <1>1, <1>8, <3>1, <3>2, Zenon DEF NoncesFresh
  <2> QED BY <2>2, <2>3, Zenon
<1>22. InitAnsweredOnce'
  <2>1. ASSUME NEW j \in Slots, sessions[n][j] # None
        PROVE  ~(sessions[n][j].key.ini = k.ini /\ sessions[n][j].key.ieph = k.ieph)
    <3>1. sessions[n][j].key \in installed[n]
      BY <1>1, <2>1, Zenon DEF SessionsAre
    <3> QED BY <1>3, <1>12, <3>1, Zenon
  <2> SUFFICES ASSUME NEW u \in Endpoints, NEW i \in Slots, NEW j \in Slots, i # j,
                      sessions'[u][i] # None, sessions'[u][j] # None,
                      sessions'[u][i].key.ini = sessions'[u][j].key.ini,
                      sessions'[u][i].key.ieph = sessions'[u][j].key.ieph
               PROVE  FALSE
    BY Zenon DEF InitAnsweredOnce
  <2>2. CASE u = n /\ i = slot
    BY <1>5, <1>10, <2>1, <2>2, Zenon
  <2>3. CASE u = n /\ j = slot
    BY <1>5, <1>10, <2>1, <2>3, Zenon
  <2>4. CASE ~(u = n /\ i = slot) /\ ~(u = n /\ j = slot)
    <3>1. sessions'[u][i] = sessions[u][i] /\ sessions'[u][j] = sessions[u][j]
      BY <1>10, <2>4, Zenon
    <3> QED BY <1>1, <3>1, Zenon DEF InitAnsweredOnce
  <2> QED BY <2>2, <2>3, <2>4, Zenon
<1>23. OwnKeyOnly'
  <2> SUFFICES ASSUME NEW u \in Endpoints, NEW i \in Slots, sessions'[u][i] # None
               PROVE  OwnStatic(u, sessions'[u][i].key) = static[u]
    BY <1>2 DEF OwnKeyOnly, OwnStatic
  <2>1. CASE u = n /\ i = slot
    BY <1>3, <1>5, <1>10, <2>1, Zenon DEF OwnStatic
  <2>2. CASE ~(u = n /\ i = slot)
    BY <1>1, <1>10, <2>2, Zenon DEF OwnKeyOnly
  <2> QED BY <2>1, <2>2, Zenon
<1> QED BY <1>16, <1>17, <1>18, <1>19, <1>20, <1>21, <1>22, <1>23, Zenon DEF TunnelInv

\* No session, no handshake and no message at first.
LEMMA InitTunnel == Init => TunnelInv
<1> SUFFICES ASSUME Init PROVE TunnelInv
  BY Zenon
<1>1. \A n \in Endpoints : /\ state[n] = NoHandshake /\ previous[n] = NoHandshake
                           /\ installed[n] = {} /\ \A i \in Slots : sessions[n][i] = None
  BY Zenon DEF Init
<1>2. msgs = {}
  BY Zenon DEF Init
<1>3. TypeOK
  <2>1. /\ NSessions \in Nat /\ IndexSpace \in Nat /\ 0 \in 0 .. IndexSpace - 1
        /\ MaxMade \in Nat /\ MaxRekeys \in Nat /\ 0 \in 0 .. MaxRekeys
    BY TunnelAssumption
  <2>2. /\ state \in [Endpoints -> Handshakes] /\ previous \in [Endpoints -> Handshakes]
        /\ next_index \in [Endpoints -> 0 .. IndexSpace - 1]
        /\ current \in [Endpoints -> 0 .. IndexSpace - 1]
        /\ made \in [Endpoints -> Nat] /\ static \in [Endpoints -> Nat]
        /\ known \in [Endpoints -> 0 .. MaxRekeys] /\ turns \in Nat
    BY <2>1, Quiet, Zenon DEF Init
  <2>3. /\ stamp \in [Endpoints -> Nat] /\ last_ts \in [Endpoints -> Nat]
        /\ now \in [Endpoints -> Nat]
        /\ sessions \in [Endpoints -> [Slots -> Sealed \cup {None}]]
        /\ session_timers \in [Endpoints -> [Slots -> Nat]]
        /\ installed \in [Endpoints -> SUBSET Key]
    BY Zenon DEF Init
  <2>4. Pq \subseteq Endpoints
    BY TunnelAssumption, Zenon DEF Init
  <2>5. Total(made) <= MaxMade /\ Total(static) <= MaxRekeys
    <3>1. PICK n \in Endpoints : TRUE
      BY TunnelAssumption, Zenon
    <3>2. Total(made) = made[n] + made[Other(n)] /\ Total(static) = static[n] + static[Other(n)]
      BY <2>2, TotalIs, Zenon
    <3>3. \A u \in Endpoints : made[u] = 0 /\ static[u] = 0
      BY Zenon DEF Init
    <3> QED BY <2>1, <3>2, <3>3, OtherIs
  <2> QED BY <1>2, <2>2, <2>3, <2>4, <2>5, Zenon DEF TypeOK
<1>4. KeysAre /\ MsgsAre
  BY <1>1, <1>2, Zenon DEF KeysAre, MsgsAre
<1>5. AwaitedAre
  BY <1>1, Quiet, Zenon DEF AwaitedAre, Unanswered
<1>6. SessionsAre /\ NoncesFresh /\ InitAnsweredOnce /\ OwnKeyOnly
  BY <1>1, Zenon DEF SessionsAre, NoncesFresh, InitAnsweredOnce, OwnKeyOnly
<1> QED BY <1>3, <1>4, <1>5, <1>6, Zenon DEF TunnelInv

\* Every call of Tunn keeps the invariant.
LEMMA StepTunnel == TunnelInv /\ [Next]_vars => TunnelInv'
<1> SUFFICES ASSUME TunnelInv, [Next]_vars PROVE TunnelInv'
  BY Zenon
<1>1. ASSUME NEW n \in Endpoints, ForceHandshake(n)
      PROVE  TunnelInv'
  BY <1>1, InitiateKeeps, Zenon DEF ForceHandshake
<1>2. ASSUME NEW n \in Endpoints, Encapsulate(n)
      PROVE  TunnelInv'
  <2>1. CASE sessions[n][Slot(current[n])] # None
    BY <1>2, <2>1, SealKeeps, Zenon
  <2>2. CASE sessions[n][Slot(current[n])] = None
    BY <1>2, <2>2, InitiateKeeps, Zenon DEF Encapsulate
  <2> QED BY <2>1, <2>2, Zenon
<1>3. ASSUME NEW n \in Endpoints, AdvanceTime(n)
      PROVE  TunnelInv'
  BY <1>3, AdvanceTimeKeeps, Zenon
<1>4. ASSUME NEW n \in Endpoints, Expire(n)
      PROVE  TunnelInv'
  BY <1>4, ExpireKeeps, Zenon
<1>5. ASSUME NEW n \in Endpoints, Restart(n)
      PROVE  TunnelInv'
  BY <1>5, RestartKeeps, Zenon
<1>6. ASSUME NEW n \in Endpoints, SetStaticPrivate(n)
      PROVE  TunnelInv'
  BY <1>6, SetStaticPrivateKeeps, Zenon
<1>7. ASSUME NEW n \in Endpoints, NEW m \in msgs, NEW outcome, ReceiveInit(n, m, outcome)
      PROVE  TunnelInv'
  BY <1>7, InitAnswered, InitNotAnswered, Zenon
<1>8. ASSUME NEW n \in Endpoints, NEW m \in msgs, ReceiveResponse(n, m)
      PROVE  TunnelInv'
  BY <1>8, ResponseKeeps, Zenon
<1>9. ASSUME NEW n \in Endpoints, NEW m \in msgs, ReceiveData(n, m)
      PROVE  TunnelInv'
  BY <1>9, ReceiveDataKeeps, Zenon
<1>10. CASE UNCHANGED vars
  <2>1. /\ state' = state /\ previous' = previous /\ next_index' = next_index /\ made' = made
        /\ stamp' = stamp /\ last_ts' = last_ts /\ sessions' = sessions
        /\ session_timers' = session_timers /\ current' = current /\ now' = now /\ msgs' = msgs
        /\ static' = static /\ known' = known /\ turns' = turns /\ Pq' = Pq
        /\ installed' = installed
    BY <1>10, Zenon DEF vars, config
  <2>2. TypeOK
    BY Zenon DEF TunnelInv
  <2>3. TypeOK'
    BY <2>1, <2>2, Zenon DEF TypeOK
  <2>4. \A u \in Endpoints : made'[u] >= made[u] /\ last_ts'[u] >= last_ts[u]
    BY <2>1, <2>2 DEF TypeOK
  <2> QED BY <2>1, <2>3, <2>4, Kept, Zenon
<1> QED BY <1>1, <1>2, <1>3, <1>4, <1>5, <1>6, <1>7, <1>8, <1>9, <1>10, Zenon DEF Next

(***************************************************************************)
(* Whatever the network does and however often a peer is made anew or gets *)
(* another private key: every secret is used in one handshake message,     *)
(* every session is in the slot of its index under a key its peer has      *)
(* installed, and a handshake that awaits a response has led to no key.    *)
(***************************************************************************)
THEOREM TunnelInvariant == Spec => []TunnelInv
BY InitTunnel, StepTunnel, PTL DEF Spec

\* sending_key_counter never gives a counter to a key a second time.
THEOREM NoncesAreFresh == Spec => []NoncesFresh
<1>1. TunnelInv => NoncesFresh
  BY Zenon DEF TunnelInv
<1> QED BY <1>1, TunnelInvariant, PTL

\* The timestamp check keeps a responder from a second session for an initiation.
THEOREM AnInitIsAnsweredOnce == Spec => []InitAnsweredOnce
<1>1. TunnelInv => InitAnsweredOnce
  BY Zenon DEF TunnelInv
<1> QED BY <1>1, TunnelInvariant, PTL

\* No session outlives, or comes back after, the private key it was made with.
THEOREM OwnKeysOnly == Spec => []OwnKeyOnly
<1>1. TunnelInv => OwnKeyOnly
  BY Zenon DEF TunnelInv
<1> QED BY <1>1, TunnelInvariant, PTL

-----------------------------------------------------------------------------
\* The handshakes implement the abstract key exchange

\* Membership in the two sets of keys that the refinement mapping shows.
LEMMA OfferedIs ==
  /\ \A k : k \in Offered <=> \E u \in Endpoints : k \in installed[u] /\ k.ini # u
  /\ \A k : k \in Agreed <=> \E u \in Endpoints : k \in installed[u] /\ k.ini = u
BY DEF Offered, Agreed

\* A call that installs no key changes neither set.
LEMMA NoKey ==
  ASSUME installed' = installed
  PROVE  UNCHANGED Exchange!vars
BY Zenon DEF Exchange!vars, Offered, Agreed

\* Answering an initiation offers a key that nobody has.
LEMMA AnswerOffers ==
  ASSUME TunnelInv, NEW n \in Endpoints, NEW m \in msgs, ReceiveInit(n, m, "sent")
  PROVE  Exchange!Offer
<1>1. TypeOK /\ KeysAre /\ MsgsAre
  BY Zenon DEF TunnelInv
<1> DEFINE K == [ini |-> m.from, ieph |-> m.eph, reph |-> Fresh(n),
                 istatic |-> m.istatic, rstatic |-> m.rstatic, pq |-> m.pq]
<1>2. /\ Accepts(n, m) /\ Draw(n)
      /\ installed' = [installed EXCEPT ![n] = @ \cup {K}]
  BY Zenon DEF ReceiveInit
<1>3. Fresh(n) \in Eph /\ Fresh(n).id = made[n] + 1 /\ made[n] \in Nat
  BY <1>1, <1>2, DrawIs, Zenon DEF TypeOK
<1>4. m.type = "Init" /\ m.from = Other(n) /\ m.from \in Endpoints /\ m.from # n
  BY <1>2, OtherIs, Zenon DEF Accepts
<1>5. m \in InitMsgs
  BY <1>1, <1>4, MsgIs, Zenon
<1>6. K \in Key
  BY <1>3, <1>4, <1>5, Zenon DEF InitMsgs, Key
<1>7. PICK k \in Key : k = K /\ k.ini = m.from /\ k.reph = Fresh(n)
  BY <1>6, Zenon
<1>8. /\ installed'[n] = installed[n] \cup {k}
      /\ \A u \in Endpoints : u # n => installed'[u] = installed[u]
      /\ k.ini = Other(n) /\ k.ini # n /\ Other(k.ini) = n
  BY <1>1, <1>2, <1>4, <1>7, OtherIs, SMTT(30) DEF TypeOK
<1>9. \A u \in Endpoints : k \notin installed[u]
  <2> SUFFICES ASSUME NEW u \in Endpoints, k \in installed[u] PROVE FALSE
    BY Zenon
  <2>1. k.reph.id \in Nat /\ k.reph.id <= made[n]
    BY <1>1, <1>8, KeyIs, ZenonT(30)
  <2> QED BY <1>3, <1>7, <2>1
<1> HIDE DEF K
<1>10. /\ \A l : l \in Offered' <=> \E u \in Endpoints : l \in installed'[u] /\ l.ini # u
       /\ \A l : l \in Agreed' <=> \E u \in Endpoints : l \in installed'[u] /\ l.ini = u
  BY SMTT(30) DEF Offered, Agreed
<1>11. \A l : l \in Offered' <=> l \in Offered \/ l = k
  BY <1>8, <1>10, OfferedIs, SMTT(30)
<1>12. \A l : l \in Agreed' <=> l \in Agreed
  BY <1>8, <1>10, OfferedIs
<1>13. k \notin Offered
  BY <1>9, OfferedIs, Zenon
<1>14. Offered' = Offered \cup {k} /\ Agreed' = Agreed /\ k \in Offered' \ Offered
  <2>1. Offered' = Offered \cup {k}
    BY <1>11, Zenon
  <2>2. Agreed' = Agreed
    BY <1>12, Zenon DEF Agreed
  <2> QED BY <1>11, <1>13, <2>1, <2>2, Zenon
<1> QED BY <1>7, <1>14, Zenon DEF Exchange!Offer

\* Taking a response agrees on a key that the responder offered, the first for its
\* initiation.
LEMMA ResponseAgrees ==
  ASSUME TunnelInv, NEW n \in Endpoints, NEW m \in msgs, ReceiveResponse(n, m)
  PROVE  Exchange!Agree
<1>1. TypeOK /\ MsgsAre /\ AwaitedAre
  BY Zenon DEF TunnelInv
<1> DEFINE k == m.key
           hs == Matched(n, m)
<1>2. /\ m.type = "Resp" /\ m.from = Other(n) /\ m.from \in Endpoints
      /\ Match(n, m) # "neither"
      /\ k.ini = n /\ k.ieph = hs.eph
      /\ installed' = [installed EXCEPT ![n] = @ \cup {k}]
  BY OtherIs, Zenon DEF ReceiveResponse, Opens
<1>3. hs \in {state[n], previous[n]} /\ hs.tag = "InitSent"
  BY <1>2, Zenon DEF Match, Matched, Awaits
<1> HIDE DEF hs
<1>4. \A l \in installed[n] : ~(l.ini = n /\ l.ieph = k.ieph)
  <2>1. Unanswered(n, hs)
    BY <1>1, <1>3, Zenon DEF AwaitedAre
  <2> QED BY <1>2, <1>3, <2>1, Zenon DEF Unanswered
<1>5. k \in installed[Other(n)] /\ k.ini # Other(n)
  BY <1>1, <1>2, Zenon DEF MsgsAre
<1>6. k \in Offered
  BY <1>2, <1>5, OfferedIs, Zenon
<1>7. /\ installed'[n] = installed[n] \cup {k}
      /\ \A u \in Endpoints : u # n => installed'[u] = installed[u]
  BY <1>1, <1>2, ZenonT(30) DEF TypeOK
<1>8. /\ \A l : l \in Offered' <=> \E u \in Endpoints : l \in installed'[u] /\ l.ini # u
      /\ \A l : l \in Agreed' <=> \E u \in Endpoints : l \in installed'[u] /\ l.ini = u
  BY SMTT(30) DEF Offered, Agreed
<1>9. \A l : l \in Offered' <=> l \in Offered
  BY <1>2, <1>7, <1>8, OfferedIs
<1>10. \A l : l \in Agreed' <=> l \in Agreed \/ l = k
  BY <1>2, <1>7, <1>8, OfferedIs
<1>11. Offered' = Offered /\ Agreed' = Agreed \cup {k}
  <2>1. Agreed' = Agreed \cup {k}
    BY <1>10, Zenon
  <2>2. Offered' = Offered
    BY <1>9, Zenon DEF Offered
  <2> QED BY <2>1, <2>2, Zenon
<1>12. \A l \in Agreed : ~ Exchange!SameInitiation(k, l)
  BY <1>2, <1>4, OfferedIs, Zenon DEF Exchange!SameInitiation
<1> QED BY <1>6, <1>11, <1>12, Zenon DEF Exchange!Agree

\* No key at first.
LEMMA InitExchange == Init => Exchange!Init
BY DEF Init, Exchange!Init, Offered, Agreed

\* Each call is a step of the key exchange or changes neither set of keys.
LEMMA StepExchange == TunnelInv /\ [Next]_vars => [Exchange!Next]_Exchange!vars
<1> SUFFICES ASSUME TunnelInv, [Next]_vars PROVE [Exchange!Next]_Exchange!vars
  BY Zenon
<1>1. ASSUME NEW n \in Endpoints,
             \/ ForceHandshake(n) \/ Encapsulate(n) \/ AdvanceTime(n) \/ Expire(n)
             \/ Restart(n) \/ SetStaticPrivate(n)
             \/ \E m \in msgs : ReceiveData(n, m)
      PROVE  UNCHANGED Exchange!vars
  <2>1. installed' = installed
    BY <1>1, Zenon DEF ForceHandshake, Initiate, Encapsulate, AdvanceTime, Expire, Restart,
                SetStaticPrivate, ReceiveData
  <2> QED BY <2>1, NoKey, Zenon
<1>2. ASSUME NEW n \in Endpoints, NEW m \in msgs, NEW outcome, ReceiveInit(n, m, outcome)
      PROVE  Exchange!Offer \/ UNCHANGED Exchange!vars
  <2>1. CASE outcome = "sent"
    BY <1>2, <2>1, AnswerOffers, Zenon
  <2>2. CASE outcome # "sent"
    <3>1. installed' = installed
      BY <1>2, <2>2, Zenon DEF ReceiveInit
    <3> QED BY <3>1, NoKey, Zenon
  <2> QED BY <2>1, <2>2, Zenon
<1>3. ASSUME NEW n \in Endpoints, NEW m \in msgs, ReceiveResponse(n, m)
      PROVE  Exchange!Agree
  BY <1>3, ResponseAgrees, Zenon
<1>4. CASE UNCHANGED vars
  <2>1. installed' = installed
    BY <1>4, Zenon DEF vars
  <2> QED BY <2>1, NoKey, Zenon
<1> QED BY <1>1, <1>2, <1>3, <1>4, Zenon DEF Next, Exchange!Next

(***************************************************************************)
(* The handshakes refine the abstract key exchange: an initiator installs  *)
(* only a key that its responder has installed, and at most one for each   *)
(* of its initiations, however the network repeats, delays or loses them.  *)
(***************************************************************************)
THEOREM KeysAreExchanged == Spec => KeyExchangeSpec
<1>1. Spec => []TunnelInv
  BY TunnelInvariant, Zenon
<1> QED BY <1>1, InitExchange, StepExchange, PTL DEF Spec, KeyExchangeSpec, Exchange!Spec

-----------------------------------------------------------------------------
\* The session in use

\* The session in a slot is known to work.
Works(n, i) ==
    sessions[n][i] # None /\ (sessions[n][i].key.ini = n \/ sessions[n][i].got # {})

\* No session known to work is newer than the one in use.
InUseNewest(n) ==
    \A i \in Slots : Works(n, i) =>
        /\ sessions[n][Slot(current[n])] # None
        /\ session_timers[n][i] <= session_timers[n][Slot(current[n])]

PeerAges(n) == \A i \in Slots : session_timers[n][i] <= now[n]

PeerUse(n) == PeerAges(n) /\ InUseNewest(n)

\* What SwitchConfirmed says of one peer.
Switches(n) == current'[n] # current[n] => ToConfirmed(n)

\* The properties speak of each peer for itself.
LEMMA UseIs == UseInv <=> \A n \in Endpoints : PeerUse(n)
<1>1. AgesAre <=> \A n \in Endpoints : PeerAges(n)
  BY Zenon DEF AgesAre, PeerAges
<1>2. NewestInUse <=> \A n \in Endpoints : InUseNewest(n)
  BY Zenon DEF NewestInUse, InUseNewest, Works
<1> QED BY <1>1, <1>2, Zenon DEF UseInv, PeerUse

\* The slot in use is one of the ring.
LEMMA InUseIs ==
  ASSUME TypeOK, NEW n \in Endpoints
  PROVE  Slot(current[n]) \in Slots
<1>1. current[n] \in Nat
  BY TunnelAssumption DEF TypeOK
<1> QED BY <1>1, IndexIs, Zenon

\* Calls that make no session and leave the times and the session in use as they are.
LEMMA PeerMoves ==
  ASSUME TypeOK, NEW n \in Endpoints, PeerUse(n),
         current'[n] = current[n], now'[n] = now[n], session_timers'[n] = session_timers[n],
         \A i \in Slots : sessions'[n][i] # None =>
            /\ sessions[n][i] # None
            /\ sessions'[n][i].key = sessions[n][i].key
            /\ sessions'[n][i].got = sessions[n][i].got,
         \/ \A i \in Slots : sessions'[n][i] = None
         \/ \A i \in Slots : sessions[n][i] # None => sessions'[n][i] # None
  PROVE  PeerUse(n)' /\ Switches(n)
<1>1. Slot(current[n]) \in Slots
  BY InUseIs, Zenon
<1>2. PeerAges(n)'
  BY Zenon DEF PeerUse, PeerAges
<1>3. InUseNewest(n)'
  <2> SUFFICES ASSUME NEW i \in Slots, Works(n, i)'
               PROVE  /\ sessions'[n][Slot(current[n])] # None
                      /\ session_timers[n][i] <= session_timers[n][Slot(current[n])]
    BY Zenon DEF InUseNewest
  <2>1. Works(n, i) /\ sessions'[n][i] # None
    BY Zenon DEF Works
  <2>2. /\ sessions[n][Slot(current[n])] # None
        /\ session_timers[n][i] <= session_timers[n][Slot(current[n])]
    BY <2>1, Zenon DEF PeerUse, InUseNewest
  <2> QED BY <1>1, <2>1, <2>2, Zenon
<1> QED BY <1>2, <1>3, Zenon DEF PeerUse, Switches

\* Sealing counts up in the session in use.
LEMMA SealUse ==
  ASSUME TypeOK, NEW n \in Endpoints, PeerUse(n), Encapsulate(n),
         sessions[n][Slot(current[n])] # None
  PROVE  PeerUse(n)' /\ Switches(n)
<1> DEFINE slot == Slot(current[n])
           o == sessions[n][slot]
<1>1. /\ sessions' = [sessions EXCEPT ![n][slot].sent = @ + 1]
      /\ session_timers' = session_timers /\ current' = current /\ now' = now
  BY Zenon DEF Encapsulate
<1>2. slot \in Slots /\ o # None
  BY InUseIs, Zenon
<1>3. o \in Sealed
  BY <1>2, SessionIs, Zenon
<1>4. PICK s \in Sealed : /\ s = [o EXCEPT !.sent = @ + 1]
                          /\ s.key = o.key /\ s.got = o.got
  <2>1. [o EXCEPT !.sent = @ + 1] \in Sealed
    BY <1>3 DEF Sealed
  <2>2. LET s == [o EXCEPT !.sent = @ + 1]
        IN  s.key = o.key /\ s.got = o.got
    BY <1>3, Zenon DEF Sealed
  <2> QED BY <2>1, <2>2, Zenon
<1>5. sessions' = [sessions EXCEPT ![n] = [sessions[n] EXCEPT ![slot] = s]]
  BY <1>1, <1>4, Zenon
<1>6. s.key = o.key /\ s.got = o.got
  BY <1>4, Zenon
<1> HIDE DEF slot
<1>7. /\ sessions'[n][slot] = s
      /\ \A i \in Slots : i # slot => sessions'[n][i] = sessions[n][i]
  BY <1>2, <1>5 DEF TypeOK
<1>8. \A i \in Slots : sessions[n][i] # None =>
        /\ sessions'[n][i] # None
        /\ sessions'[n][i].key = sessions[n][i].key /\ sessions'[n][i].got = sessions[n][i].got
  BY <1>2, <1>6, <1>7, NoneAssumption, Zenon
<1>9. \A i \in Slots : sessions'[n][i] # None => sessions[n][i] # None
  BY <1>2, <1>7, Zenon
<1> QED BY <1>1, <1>8, <1>9, PeerMoves, Zenon

\* Calls that send or take an initiation without a session, or drop all sessions of a peer.
LEMMA DropUse ==
  ASSUME TypeOK, NEW n \in Endpoints, PeerUse(n),
         \/ Initiate(n) \/ Expire(n) \/ SetStaticPrivate(n)
         \/ \E m, outcome : ReceiveInit(n, m, outcome) /\ outcome # "sent"
  PROVE  PeerUse(n)' /\ Switches(n)
<1>1. session_timers' = session_timers /\ current' = current /\ now' = now
  BY Zenon DEF Initiate, Expire, SetStaticPrivate, ReceiveInit
<1>2. \/ sessions' = sessions
      \/ sessions' = [sessions EXCEPT ![n] = [i \in Slots |-> None]]
  BY Zenon DEF Initiate, Expire, SetStaticPrivate, ForgetSessions, ReceiveInit
<1>3. CASE sessions' = sessions
  BY <1>1, <1>3, PeerMoves, Zenon
<1>4. CASE sessions' = [sessions EXCEPT ![n] = [i \in Slots |-> None]]
  <2>1. \A i \in Slots : sessions'[n][i] = None
    BY <1>4, ZenonT(30) DEF TypeOK
  <2> QED BY <1>1, <2>1, PeerMoves, Zenon
<1> QED BY <1>2, <1>3, <1>4, Zenon

\* A tunnel made anew has nothing.
LEMMA RestartUse ==
  ASSUME TypeOK, NEW n \in Endpoints, Restart(n)
  PROVE  PeerUse(n)' /\ Switches(n)
<1>1. /\ sessions' = [sessions EXCEPT ![n] = [i \in Slots |-> None]]
      /\ session_timers' = [session_timers EXCEPT ![n] = [i \in Slots |-> 0]]
      /\ now' = [now EXCEPT ![n] = 0]
  BY Zenon DEF Restart, ForgetSessions
<1>2. /\ now'[n] = 0
      /\ \A i \in Slots : sessions'[n][i] = None /\ session_timers'[n][i] = 0
  BY <1>1, ZenonT(30) DEF TypeOK
<1>3. PeerAges(n)'
  BY <1>2 DEF PeerAges
<1>4. InUseNewest(n)'
  BY <1>2, Zenon DEF InUseNewest, Works
<1>5. Switches(n)
  BY <1>2, Zenon DEF Switches, ToConfirmed
<1> QED BY <1>3, <1>4, <1>5, Zenon DEF PeerUse

\* update_session_timers drops the session in use only with all older ones.
LEMMA AdvanceTimeUse ==
  ASSUME TypeOK, NEW n \in Endpoints, PeerUse(n), AdvanceTime(n)
  PROVE  PeerUse(n)' /\ Switches(n)
<1> DEFINE old == { i \in Slots : now[n] + 1 - session_timers[n][i] > RejectAfter }
           c == Slot(current[n])
<1>1. /\ now' = [now EXCEPT ![n] = @ + 1]
      /\ sessions' = [sessions EXCEPT ![n] =
                        [i \in Slots |-> IF i \in old THEN None ELSE @[i]]]
      /\ session_timers' = [session_timers EXCEPT ![n] =
                        [i \in Slots |-> IF i \in old THEN now[n] + 1 ELSE @[i]]]
      /\ current' = current
  BY Zenon DEF AdvanceTime
<1>2. now'[n] = now[n] + 1 /\ now[n] \in Nat /\ RejectAfter \in Nat
  <2>1. now \in [Endpoints -> Nat]
    BY Zenon DEF TypeOK
  <2>2. now'[n] = now[n] + 1 /\ now[n] \in Nat
    BY <1>1, <2>1, Zenon
  <2>3. RejectAfter \in Nat
    BY TunnelAssumption, ZenonT(30)
  <2> QED BY <2>2, <2>3, Zenon
<1>3. \A i \in Slots : session_timers[n][i] \in Nat /\ session_timers[n][i] <= now[n]
  BY DEF TypeOK, PeerUse, PeerAges
<1>4. \A i \in Slots :
        i \in old <=> now[n] + 1 - session_timers[n][i] > RejectAfter
  BY Zenon
<1> HIDE DEF old
<1>5. \A i \in Slots :
        /\ i \in old => sessions'[n][i] = None /\ session_timers'[n][i] = now[n] + 1
        /\ i \notin old => /\ sessions'[n][i] = sessions[n][i]
                           /\ session_timers'[n][i] = session_timers[n][i]
  BY <1>1, Zenon DEF TypeOK
<1>6. c \in Slots
  BY InUseIs, Zenon
<1> HIDE DEF c
<1>7. PeerAges(n)'
  <2>1. \A i \in Slots : session_timers'[n][i] <= now'[n]
    BY <1>2, <1>3, <1>5
  <2> QED BY <2>1, Zenon DEF PeerAges
<1>8. InUseNewest(n)'
  <2> SUFFICES ASSUME NEW i \in Slots, Works(n, i)'
               PROVE  /\ sessions'[n][c] # None
                      /\ session_timers'[n][i] <= session_timers'[n][c]
    BY <1>1, Zenon DEF InUseNewest, c
  <2>1. i \notin old /\ Works(n, i) /\ session_timers'[n][i] = session_timers[n][i]
    BY <1>5, Zenon DEF Works
  <2>2. sessions[n][c] # None /\ session_timers[n][i] <= session_timers[n][c]
    BY <2>1, Zenon DEF PeerUse, InUseNewest, c
  <2>3. c \notin old
    BY <1>2, <1>3, <1>4, <1>6, <2>1, <2>2
  <2> QED BY <1>5, <1>6, <2>1, <2>2, <2>3, Zenon
<1> QED BY <1>1, <1>7, <1>8, Zenon DEF PeerUse, Switches

\* The session of an answer is the newest, but not known to work; it may take the slot in use.
LEMMA AnsweredUse ==
  ASSUME TypeOK, NEW n \in Endpoints, PeerUse(n), NEW m \in msgs, ReceiveInit(n, m, "sent")
  PROVE  PeerUse(n)' /\ Switches(n)
<1> DEFINE K == [ini |-> m.from, ieph |-> m.eph, reph |-> Fresh(n),
                 istatic |-> m.istatic, rstatic |-> m.rstatic, pq |-> m.pq]
           slot == Slot(Fresh(n).idx)
           c == Slot(current[n])
<1>1. /\ Draw(n) /\ Accepts(n, m)
      /\ sessions' = [sessions EXCEPT ![n][slot] = Session(K, 0)]
      /\ session_timers' = [session_timers EXCEPT ![n][slot] = now[n]]
      /\ current' = current /\ now' = now
  BY Zenon DEF ReceiveInit
<1>2. \A i \in Slots : /\ session_timers[n][i] \in Nat /\ now[n] \in Nat
                       /\ session_timers[n][i] <= now[n]
  BY Zenon DEF TypeOK, PeerUse, PeerAges
<1>3. slot \in Slots /\ c \in Slots /\ K \in Key
  <2>1. Fresh(n) \in Eph
    BY <1>1, DrawIs, Zenon
  <2>2. Fresh(n).idx \in Nat
    BY <2>1, TunnelAssumption DEF Eph
  <2>3. m \in InitMsgs
    BY <1>1, MsgIs, Zenon DEF Accepts
  <2>4. K \in Key
    BY <2>1, <2>3, Zenon DEF Key, InitMsgs
  <2> QED BY <2>2, <2>4, IndexIs, InUseIs, Zenon
<1>4. PICK s : s = Session(K, 0) /\ s # None /\ s.key.ini = m.from /\ s.got = {}
  <2>1. K.ini = m.from
    BY Zenon
  <2>2. Session(K, 0).key = K /\ Session(K, 0).got = {}
    BY Zenon DEF Session
  <2>3. Session(K, 0) # None
    BY <1>3, NewSession, NoneAssumption, Zenon
  <2> QED BY <2>1, <2>2, <2>3, Zenon
<1>5. s.key.ini # n /\ s.got = {} /\ s # None
  <2>1. m.from = Other(n) /\ Other(n) # n
    BY <1>1, OtherIs, Zenon DEF Accepts
  <2> HIDE DEF K
  <2> QED BY <1>4, <2>1, Zenon
<1>6. sessions' = [sessions EXCEPT ![n] = [sessions[n] EXCEPT ![slot] = s]]
  BY <1>1, <1>4, Zenon
<1> HIDE DEF K, slot, c
<1>7. /\ sessions'[n][slot] = s /\ session_timers'[n][slot] = now[n]
      /\ \A i \in Slots : i # slot => /\ sessions'[n][i] = sessions[n][i]
                                      /\ session_timers'[n][i] = session_timers[n][i]
  BY <1>1, <1>3, <1>6 DEF TypeOK
<1>8. PeerAges(n)'
  <2>1. \A i \in Slots : session_timers'[n][i] <= now[n]
    BY <1>2, <1>7
  <2> QED BY <1>1, <2>1, Zenon DEF PeerAges
<1>9. InUseNewest(n)'
  <2> SUFFICES ASSUME NEW i \in Slots, Works(n, i)'
               PROVE  /\ sessions'[n][c] # None
                      /\ session_timers'[n][i] <= session_timers'[n][c]
    BY <1>1, Zenon DEF InUseNewest, c
  <2>1. i # slot
    BY <1>5, <1>7, Zenon DEF Works
  <2>2. Works(n, i)
    BY <1>7, <2>1, Zenon DEF Works
  <2>3. sessions[n][c] # None /\ session_timers[n][i] <= session_timers[n][c]
    BY <2>2, Zenon DEF PeerUse, InUseNewest, c
  <2>4. CASE c = slot
    BY <1>2, <1>5, <1>7, <2>1, <2>4, Zenon
  <2>5. CASE c # slot
    BY <1>3, <1>7, <2>1, <2>3, <2>5, Zenon
  <2> QED BY <2>4, <2>5, Zenon
<1> QED BY <1>1, <1>8, <1>9, Zenon DEF PeerUse, Switches

\* set_current_session picks between the session in use and one of slot x that works and
\* that the other peer has too.
LEMMA PickedUse ==
  ASSUME TypeOK, TypeOK', NEW n \in Endpoints, PeerUse(n),
         NEW x \in 0 .. IndexSpace - 1,
         sessions'[n][Slot(x)] # None,
         sessions'[n][Slot(x)].key \in installed[Other(n)],
         Local(n, sessions'[n][Slot(x)].key) = x,
         session_timers'[n][Slot(x)] \in {session_timers[n][Slot(x)], now[n]},
         \A i \in Slots : i # Slot(x) => /\ sessions'[n][i] = sessions[n][i]
                                         /\ session_timers'[n][i] = session_timers[n][i],
         current'[n] = IF \/ sessions'[n][Slot(current[n])] = None
                          \/ session_timers'[n][Slot(x)] >= session_timers'[n][Slot(current[n])]
                       THEN x ELSE current[n],
         now'[n] = now[n]
  PROVE  PeerUse(n)' /\ Switches(n)
<1> DEFINE c == Slot(current[n])
           slot == Slot(x)
<1>1. slot \in Slots /\ c \in Slots
  <2>1. x \in Nat /\ current[n] \in Nat
    BY TunnelAssumption DEF TypeOK
  <2> QED BY <2>1, IndexIs, Zenon
<1>2. \A i \in Slots : /\ session_timers[n][i] \in Nat /\ session_timers'[n][i] \in Nat
                       /\ session_timers[n][i] <= now[n] /\ now[n] \in Nat
  <2>1. session_timers \in [Endpoints -> [Slots -> Nat]] /\ now \in [Endpoints -> Nat]
    BY Zenon DEF TypeOK
  <2>2. session_timers' \in [Endpoints -> [Slots -> Nat]]
    BY Zenon DEF TypeOK
  <2>3. \A i \in Slots : session_timers[n][i] <= now[n]
    BY Zenon DEF PeerUse, PeerAges
  <2> QED BY <2>1, <2>2, <2>3, Zenon
<1>3. \A i \in Slots : session_timers[n][i] <= session_timers'[n][i] /\ session_timers'[n][i] <= now[n]
  BY <1>1, <1>2
<1>4. \/ current'[n] = x /\ \/ sessions'[n][c] = None
                            \/ session_timers'[n][slot] >= session_timers'[n][c]
      \/ /\ current'[n] = current[n] /\ sessions'[n][c] # None
         /\ ~(session_timers'[n][slot] >= session_timers'[n][c])
  BY Zenon
<1>5. PeerAges(n)'
  BY <1>3, Zenon DEF PeerAges
<1>6. /\ sessions'[n][slot] # None /\ sessions'[n][slot].key \in installed[Other(n)]
      /\ \A i \in Slots : i # slot => sessions'[n][i] = sessions[n][i]
  BY Zenon
<1>7. Switches(n)
  <2>1. CASE current'[n] = x
    BY <1>6, <2>1, Zenon DEF Switches, ToConfirmed
  <2>2. CASE current'[n] = current[n]
    BY <2>2, Zenon DEF Switches
  <2> QED BY <1>4, <2>1, <2>2, Zenon
<1>8. InUseNewest(n)'
  <2> SUFFICES ASSUME NEW i \in Slots, Works(n, i)'
               PROVE  /\ sessions'[n][Slot(current'[n])] # None
                      /\ session_timers'[n][i] <= session_timers'[n][Slot(current'[n])]
    BY Zenon DEF InUseNewest
  <2>1. ASSUME i # slot
        PROVE  /\ sessions[n][c] # None
               /\ session_timers'[n][i] <= session_timers'[n][c]
    <3>1. Works(n, i) /\ session_timers'[n][i] = session_timers[n][i]
      BY <1>6, <2>1, Zenon DEF Works
    <3>2. sessions[n][c] # None /\ session_timers[n][i] <= session_timers[n][c]
      BY <3>1, ZenonT(30) DEF PeerUse, InUseNewest
    <3> QED BY <1>1, <1>2, <1>3, <3>1, <3>2, Zenon
  <2>2. CASE current'[n] = x /\ sessions'[n][c] = None
    <3>1. c # slot /\ sessions[n][c] = None
      BY <1>1, <1>6, <2>2, Zenon
    <3>2. i = slot
      BY <2>1, <3>1, Zenon
    <3> QED BY <1>1, <1>2, <1>6, <2>2, <3>2
  <2>3. CASE current'[n] = x /\ session_timers'[n][slot] >= session_timers'[n][c]
    <3>1. session_timers'[n][i] <= session_timers'[n][slot]
      BY <1>1, <1>2, <2>1, <2>3
    <3> QED BY <1>6, <2>3, <3>1, ZenonT(30)
  <2>4. CASE /\ current'[n] = current[n] /\ sessions'[n][c] # None
             /\ ~(session_timers'[n][slot] >= session_timers'[n][c])
    <3>1. session_timers'[n][i] <= session_timers'[n][c]
      BY <1>1, <1>2, <2>1, <2>4
    <3> QED BY <2>4, <3>1, ZenonT(30)
  <2> QED BY <1>4, <2>2, <2>3, <2>4, Zenon
<1> QED BY <1>5, <1>7, <1>8, Zenon DEF PeerUse

\* A data packet shows that its session works and that the other peer has it.
LEMMA DataUse ==
  ASSUME TunnelInv, TypeOK', NEW n \in Endpoints, PeerUse(n), NEW m \in msgs, ReceiveData(n, m)
  PROVE  PeerUse(n)' /\ Switches(n)
<1>1. TypeOK /\ MsgsAre
  BY Zenon DEF TunnelInv
<1> DEFINE x == Local(n, m.key)
           slot == Slot(x)
           o == sessions[n][slot]
<1>2. /\ m.type = "Data" /\ m.from = Other(n) /\ o # None /\ o.key = m.key
      /\ sessions' = [sessions EXCEPT ![n][slot].got = @ \cup {m.ctr}]
      /\ current' = [current EXCEPT ![n] = SetCurrentSession(n, x, sessions[n], session_timers[n])]
      /\ session_timers' = session_timers /\ now' = now
  BY Zenon DEF ReceiveData
<1>3. m.key \in Key
  BY <1>1, <1>2, Zenon DEF TypeOK, InitMsgs, RespMsgs, DataMsgs
<1>4. slot \in Slots /\ x \in 0 .. IndexSpace - 1
  BY <1>3, LocalIs, Zenon
<1>5. m.key \in installed[Other(n)]
  BY <1>1, <1>2, Zenon DEF MsgsAre
<1>6. o \in Sealed /\ o.key \in Key /\ o.sent \in Nat /\ o.got \in SUBSET Nat /\ m.ctr \in Nat
  <2>1. m.ctr \in Nat
    BY <1>1, <1>2, Zenon DEF TypeOK, InitMsgs, RespMsgs, DataMsgs
  <2> QED BY <1>1, <1>2, <1>4, <2>1, SessionIs, Zenon
<1>7. PICK s \in Sealed : s = [o EXCEPT !.got = @ \cup {m.ctr}] /\ s.key = m.key
  <2> HIDE DEF o
  <2>1. [o EXCEPT !.got = @ \cup {m.ctr}] \in Sealed
    BY <1>6, Zenon DEF Sealed
  <2>2. [o EXCEPT !.got = @ \cup {m.ctr}].key = o.key
    BY <1>6, Zenon DEF Sealed
  <2> QED BY <1>2, <2>1, <2>2, Zenon
<1>8. sessions' = [sessions EXCEPT ![n] = [sessions[n] EXCEPT ![slot] = s]]
  BY <1>2, <1>7, Zenon
<1>9. s.key = m.key /\ s # None
  BY <1>7, NoneAssumption, Zenon
<1> HIDE DEF slot, o
<1>10. /\ sessions'[n][slot] = s
       /\ \A i \in Slots : i # slot => sessions'[n][i] = sessions[n][i]
  BY <1>1, <1>4, <1>8 DEF TypeOK
<1>11. Slot(current[n]) \in Slots
  <2>1. current[n] \in Nat
    BY <1>1, TunnelAssumption DEF TypeOK
  <2> QED BY <2>1, IndexIs, Zenon
<1>12. sessions[n][Slot(current[n])] = None <=> sessions'[n][Slot(current[n])] = None
  BY <1>2, <1>9, <1>10, <1>11, Zenon DEF o
<1>13. current'[n] = IF \/ sessions[n][Slot(current[n])] = None
                        \/ session_timers[n][slot] >= session_timers[n][Slot(current[n])]
                     THEN x ELSE current[n]
  BY <1>1, <1>2, Zenon DEF TypeOK, SetCurrentSession, slot
<1>14. /\ sessions'[n][slot] # None /\ sessions'[n][slot].key \in installed[Other(n)]
       /\ Local(n, sessions'[n][slot].key) = x
  BY <1>2, <1>5, <1>9, <1>10, Zenon
<1> HIDE DEF x
<1> QED BY <1>1, <1>2, <1>4, <1>10, <1>12, <1>13, <1>14, PickedUse, Zenon DEF slot

\* A response shows that the other peer has the session.
LEMMA ResponseUse ==
  ASSUME TunnelInv, TypeOK', NEW n \in Endpoints, PeerUse(n), NEW m \in msgs, ReceiveResponse(n, m)
  PROVE  PeerUse(n)' /\ Switches(n)
<1>1. TypeOK /\ MsgsAre
  BY Zenon DEF TunnelInv
<1> DEFINE k == m.key
           x == k.ieph.idx
           slot == Slot(x)
           s == Session(k, 1)
           ring == [sessions[n] EXCEPT ![slot] = s]
           times == [session_timers[n] EXCEPT ![slot] = now[n]]
<1>2. /\ m.type = "Resp" /\ m.from = Other(n)
      /\ Opens(n, m)
      /\ sessions' = [sessions EXCEPT ![n] = ring]
      /\ session_timers' = [session_timers EXCEPT ![n] = times]
      /\ current' = [current EXCEPT ![n] = SetCurrentSession(n, x, ring, times)]
      /\ now' = now
  BY Zenon DEF ReceiveResponse
<1>3. k \in Key /\ k.ini = n
  BY <1>1, <1>2, MsgIs, Zenon DEF Opens
<1>4. x \in 0 .. IndexSpace - 1 /\ slot \in Slots /\ Local(n, k) = x
  <2>1. k.ieph \in Eph
    BY <1>3, Zenon DEF Key
  <2>2. x \in 0 .. IndexSpace - 1
    BY <2>1, Zenon DEF Eph
  <2>3. x \in Nat
    BY <2>2, TunnelAssumption
  <2> QED BY <1>3, <2>2, <2>3, IndexIs, Zenon DEF Local
<1>5. s \in Sealed /\ s.key = k
  BY <1>3, NewSession, Zenon
<1>6. s # None
  BY <1>5, NoneAssumption, Zenon
<1>7. k \in installed[Other(n)]
  BY <1>1, <1>2, Zenon DEF MsgsAre
<1>8. sessions'[n] = ring /\ session_timers'[n] = times
  BY <1>1, <1>2, Zenon DEF TypeOK
<1>9. current'[n] = IF \/ ring[Slot(current[n])] = None
                        \/ times[slot] >= times[Slot(current[n])]
                     THEN x ELSE current[n]
  BY <1>1, <1>2, Zenon DEF TypeOK, SetCurrentSession
<1> HIDE DEF slot, s
<1>10. /\ ring[slot] = s /\ times[slot] = now[n]
       /\ \A i \in Slots : i # slot => ring[i] = sessions[n][i] /\ times[i] = session_timers[n][i]
  BY <1>1, <1>4, Zenon DEF TypeOK
<1> HIDE DEF ring, times, x
<1>11. /\ sessions'[n][slot] # None /\ sessions'[n][slot].key \in installed[Other(n)]
       /\ Local(n, sessions'[n][slot].key) = x
  BY <1>4, <1>5, <1>6, <1>7, <1>8, <1>10, Zenon
<1>12. current'[n] = IF \/ sessions'[n][Slot(current[n])] = None
                        \/ session_timers'[n][slot] >= session_timers'[n][Slot(current[n])]
                     THEN x ELSE current[n]
  BY <1>8, <1>9, Zenon
<1>13. /\ session_timers'[n][slot] = now[n]
       /\ \A i \in Slots : i # slot => /\ sessions'[n][i] = sessions[n][i]
                                       /\ session_timers'[n][i] = session_timers[n][i]
  BY <1>8, <1>10, Zenon
<1> QED BY <1>1, <1>2, <1>4, <1>11, <1>12, <1>13, PickedUse, Zenon DEF slot

\* What a call on one Tunn never touches: the other one.
LEMMA OthersRest ==
  ASSUME TypeOK, NEW n \in Endpoints, NEW u \in Endpoints, u # n,
         \/ ForceHandshake(n) \/ Encapsulate(n) \/ AdvanceTime(n) \/ Expire(n) \/ Restart(n)
         \/ SetStaticPrivate(n)
         \/ \E m \in msgs : \/ \E outcome \in {"sent"} \cup Faults : ReceiveInit(n, m, outcome)
                            \/ ReceiveResponse(n, m) \/ ReceiveData(n, m)
  PROVE  /\ current'[u] = current[u] /\ now'[u] = now[u]
         /\ sessions'[u] = sessions[u] /\ session_timers'[u] = session_timers[u]
<1> DEFINE Rests ==
         /\ current'[u] = current[u] /\ now'[u] = now[u]
         /\ sessions'[u] = sessions[u] /\ session_timers'[u] = session_timers[u]
<1>1. CASE Initiate(n)
  BY <1>1, Zenon DEF Initiate
<1>2. CASE Encapsulate(n) /\ ~ Initiate(n)
  BY <1>2, Zenon DEF TypeOK, Encapsulate
<1>3. CASE AdvanceTime(n)
  BY <1>3, Zenon DEF TypeOK, AdvanceTime
<1>4. CASE Expire(n)
  BY <1>4, Zenon DEF TypeOK, Expire
<1>5. CASE Restart(n)
  BY <1>5, Zenon DEF TypeOK, Restart, ForgetSessions
<1>6. CASE SetStaticPrivate(n)
  BY <1>6, Zenon DEF TypeOK, SetStaticPrivate, ForgetSessions
<1>7. ASSUME NEW m \in msgs, NEW outcome, ReceiveInit(n, m, outcome)
      PROVE  Rests
  <2>1. CASE outcome = "sent"
    <3> DEFINE K == [ini |-> m.from, ieph |-> m.eph, reph |-> Fresh(n),
                     istatic |-> m.istatic, rstatic |-> m.rstatic, pq |-> m.pq]
               slot == Slot(Fresh(n).idx)
    <3>1. /\ sessions' = [sessions EXCEPT ![n][slot] = Session(K, 0)]
          /\ session_timers' = [session_timers EXCEPT ![n][slot] = now[n]]
          /\ current' = current /\ now' = now
      BY <1>7, <2>1, Zenon DEF ReceiveInit
    <3> HIDE DEF K, slot
    <3> QED BY <3>1, Zenon DEF TypeOK
  <2>2. CASE outcome # "sent"
    BY <1>7, <2>2, Zenon DEF ReceiveInit
  <2> QED BY <2>1, <2>2, Zenon
<1>8. ASSUME NEW m \in msgs, ReceiveResponse(n, m)
      PROVE  Rests
  BY <1>8, Zenon DEF TypeOK, ReceiveResponse
<1>9. ASSUME NEW m \in msgs, ReceiveData(n, m)
      PROVE  Rests
  BY <1>9, ZenonT(30) DEF TypeOK, ReceiveData
<1> QED BY <1>1, <1>2, <1>3, <1>4, <1>5, <1>6, <1>7, <1>8, <1>9, Zenon DEF ForceHandshake

\* A new tunnel has no session.
LEMMA InitUse == Init => UseInv
<1> SUFFICES ASSUME Init, NEW n \in Endpoints PROVE PeerUse(n)
  BY UseIs, Zenon
<1>1. now[n] = 0 /\ \A i \in Slots : sessions[n][i] = None /\ session_timers[n][i] = 0
  BY Zenon DEF Init
<1>2. PeerAges(n)
  BY <1>1 DEF PeerAges
<1> QED BY <1>1, <1>2, Zenon DEF PeerUse, InUseNewest, Works

\* Every call of Tunn keeps the newest session in use, and switches to a confirmed one.
LEMMA StepUse ==
  ASSUME TunnelInv, TypeOK', UseInv, [Next]_vars
  PROVE  UseInv' /\ [\A u \in Endpoints : current'[u] # current[u] => ToConfirmed(u)]_vars
<1> SUFFICES ASSUME NEW u \in Endpoints PROVE PeerUse(u)' /\ Switches(u)
  <2> SUFFICES ASSUME \A u \in Endpoints : PeerUse(u)' /\ Switches(u)
               PROVE  /\ (AgesAre /\ NewestInUse)'
                      /\ \A u \in Endpoints : current'[u] # current[u] => ToConfirmed(u)
    BY Zenon DEF UseInv
  <2>1. AgesAre'
    BY Zenon DEF AgesAre, PeerUse, PeerAges
  <2>2. NewestInUse'
    BY Zenon DEF NewestInUse, PeerUse, InUseNewest, Works
  <2>3. \A u \in Endpoints : current'[u] # current[u] => ToConfirmed(u)
    BY Zenon DEF Switches
  <2> QED BY <2>1, <2>2, <2>3, Zenon
<1>1. TypeOK /\ \A w \in Endpoints : PeerUse(w)
  BY UseIs, Zenon DEF TunnelInv
<1>2. CASE UNCHANGED vars
  <2>1. /\ sessions' = sessions /\ session_timers' = session_timers /\ current' = current
        /\ now' = now
    BY <1>2, Zenon DEF vars
  <2> QED BY <1>1, <2>1, PeerMoves, Zenon
<1>3. CASE Next
  <2>1. PICK n \in Endpoints :
          \/ ForceHandshake(n) \/ Encapsulate(n) \/ AdvanceTime(n) \/ Expire(n) \/ Restart(n)
          \/ SetStaticPrivate(n)
          \/ \E m \in msgs : \/ \E outcome \in {"sent"} \cup Faults : ReceiveInit(n, m, outcome)
                             \/ ReceiveResponse(n, m) \/ ReceiveData(n, m)
    BY <1>3, Zenon DEF Next
  <2>2. CASE u = n
    <3>1. CASE ForceHandshake(n) \/ Encapsulate(n)
      <4>1. CASE Initiate(n)
        BY <1>1, <2>2, <4>1, DropUse, Zenon
      <4>2. CASE Encapsulate(n) /\ sessions[n][Slot(current[n])] # None
        BY <1>1, <2>2, <4>2, SealUse, Zenon
      <4> QED BY <3>1, <4>1, <4>2, Zenon DEF ForceHandshake, Encapsulate
    <3>2. CASE AdvanceTime(n)
      BY <1>1, <2>2, <3>2, AdvanceTimeUse, Zenon
    <3>3. CASE Expire(n) \/ SetStaticPrivate(n)
      BY <1>1, <2>2, <3>3, DropUse, Zenon
    <3>4. CASE Restart(n)
      BY <1>1, <2>2, <3>4, RestartUse, Zenon
    <3>5. ASSUME NEW m \in msgs, NEW outcome, ReceiveInit(n, m, outcome)
          PROVE  PeerUse(u)' /\ Switches(u)
      <4>1. CASE outcome = "sent"
        BY <1>1, <2>2, <3>5, <4>1, AnsweredUse, Zenon
      <4>2. CASE outcome # "sent"
        <5>1. ReceiveInit(n, m, outcome) /\ outcome # "sent"
          BY <3>5, <4>2, Zenon
        <5>2. \E l, o : ReceiveInit(n, l, o) /\ o # "sent"
          <6> WITNESS m, outcome
          <6> QED BY <5>1, Zenon
        <5> QED BY <1>1, <2>2, <5>2, DropUse, Zenon
      <4> QED BY <4>1, <4>2, Zenon
    <3>6. ASSUME NEW m \in msgs, ReceiveResponse(n, m)
          PROVE  PeerUse(u)' /\ Switches(u)
      BY <1>1, <2>2, <3>6, ResponseUse, Zenon
    <3>7. ASSUME NEW m \in msgs, ReceiveData(n, m)
          PROVE  PeerUse(u)' /\ Switches(u)
      BY <1>1, <2>2, <3>7, DataUse, Zenon
    <3> QED BY <2>1, <3>1, <3>2, <3>3, <3>4, <3>5, <3>6, <3>7, Zenon
  <2>3. CASE u # n
    <3>1. /\ current'[u] = current[u] /\ now'[u] = now[u]
          /\ sessions'[u] = sessions[u] /\ session_timers'[u] = session_timers[u]
      BY <1>1, <2>1, <2>3, OthersRest, Zenon
    <3> QED BY <1>1, <3>1, PeerMoves, Zenon
  <2> QED BY <2>2, <2>3, Zenon
<1> QED BY <1>2, <1>3, Zenon

\* Whatever order old and new packets arrive in, and however often indices and slots have
\* wrapped around, set_current_session leaves in use a session no older than any that is
\* known to work.
THEOREM NewestIsInUse == Spec => []NewestInUse
<1>1. TunnelInv /\ TunnelInv' /\ UseInv /\ [Next]_vars => UseInv'
  BY StepUse, Zenon DEF TunnelInv
<1>2. UseInv => NewestInUse
  BY Zenon DEF UseInv
<1> QED BY <1>1, <1>2, InitUse, TunnelInvariant, PTL DEF Spec

\* set_current_session moves only to the session of the index that the packet or the response
\* named, and only after the other peer has installed its key.
THEOREM SwitchesAreConfirmed == Spec => SwitchConfirmed
<1>1. TunnelInv /\ TunnelInv' /\ UseInv /\ [Next]_vars
        => UseInv' /\ [\A n \in Endpoints : current'[n] # current[n] => ToConfirmed(n)]_vars
  BY StepUse, Zenon DEF TunnelInv
<1> QED BY <1>1, InitUse, TunnelInvariant, PTL DEF Spec, SwitchConfirmed
=============================================================================
