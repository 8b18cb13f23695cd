------------------------------- MODULE Cookies -------------------------------
(***************************************************************************)
(* The cookie exchange between a peer that wants a handshake (Cookies and  *)
(* append_mac1_and_mac2 of boringtun/src/noise/handshake.rs) and the rate  *)
(* limiter of the other (noise/rate_limiter.rs).                           *)
(*                                                                         *)
(* A cookie is a MAC over a counter that changes every COOKIE_REFRESH      *)
(* seconds, so all that matters of one is whether the counter has changed  *)
(* since: it is "valid" or "stale".  The peer keeps mac1 and index of its  *)
(* last handshake message only, so a reply to an earlier one is of no use  *)
(* to it and is gone as soon as the peer sends again.                      *)
(***************************************************************************)
EXTENDS Naturals

CONSTANTS
    Limit,      \* limit, of handshake messages between two resets of the count
    MaxTurns    \* bound: how often the secret changes or the peer's cookie expires

ASSUME CookiesAssumption == Limit \in Nat /\ MaxTurns \in Nat

VARIABLES
    write_cookie,  \* the peer's cookie
    msg,           \* the peer's last handshake message, in flight
    reply,         \* the cookie reply to it, in flight
    count,         \* of the rate limiter, up to limit
    admitted,      \* an initiation of the peer has passed verify_packet
    turns

vars == <<write_cookie, msg, reply, count, admitted, turns>>

NoMsg == [kind |-> "none", mac2 |-> "none"]

Init ==
    /\ write_cookie = "none" /\ msg = NoMsg /\ reply = "none"
    /\ count \in 0 .. Limit
    /\ admitted = FALSE
    /\ turns = 0

\* a fault: mac2 is left zero
MacsWithout == "none"

\* append_mac1_and_mac2
Macs == write_cookie

\* An initiation, or the answer to the other's: both take over last_mac1 and index.
Send(kind) ==
    /\ ~ admitted
    /\ msg' = [kind |-> kind, mac2 |-> Macs]
    /\ reply' = "none"
    /\ UNCHANGED <<write_cookie, count, admitted, turns>>

\* is_under_load counts the message it is asked about; above limit the count is not told apart
Counted == IF count < Limit THEN count + 1 ELSE count

UnderLoad == count >= Limit

Passes == UnderLoad => msg.mac2 = "valid"

\* verify_packet, for a message with a good mac1
Verify(kind) ==
    /\ msg.kind = kind
    /\ count' = Counted
    /\ IF Passes
       THEN admitted' = (admitted \/ kind = "init") /\ UNCHANGED reply
       ELSE reply' = "valid" /\ UNCHANGED admitted
    /\ UNCHANGED <<write_cookie, msg, turns>>

\* receive_cookie_reply
ReceiveCookieReply ==
    /\ reply # "none"
    /\ write_cookie' = reply
    /\ UNCHANGED <<msg, reply, count, admitted, turns>>

Aged(c) == IF c = "valid" THEN "stale" ELSE c

\* current_cookie: the counter has moved on
SecretChanges ==
    /\ turns < MaxTurns
    /\ turns' = turns + 1
    /\ write_cookie' = Aged(write_cookie)
    /\ reply' = Aged(reply)
    /\ msg' = [msg EXCEPT !.mac2 = Aged(@)]
    /\ UNCHANGED <<count, admitted>>

\* update_timers: COOKIE_EXPIRATION_TIME is over
ClearCookie ==
    /\ turns < MaxTurns
    /\ turns' = turns + 1
    /\ write_cookie # "none"
    /\ write_cookie' = "none"
    /\ UNCHANGED <<msg, reply, count, admitted>>

ResetCount == count' = 0 /\ UNCHANGED <<write_cookie, msg, reply, admitted, turns>>

\* handshake messages of others
Load == count' = Counted /\ UNCHANGED <<write_cookie, msg, reply, admitted, turns>>

\* the network, or a caller of decapsulate that gives no source address
Lose ==
    /\ \/ msg' = NoMsg /\ UNCHANGED reply
       \/ reply' = "none" /\ UNCHANGED msg
    /\ UNCHANGED <<write_cookie, count, admitted, turns>>

Next ==
    \/ \E kind \in {"init", "response"} : Send(kind) \/ Verify(kind)
    \/ ReceiveCookieReply
    \/ SecretChanges \/ ClearCookie
    \/ ResetCount \/ Load
    \/ Lose

(***************************************************************************)
(* Fairness: initiations keep being sent.  update_timers sends one again   *)
(* every REKEY_TIMEOUT, but only for REKEY_ATTEMPT_TIME; after that it is  *)
(* the peer's traffic that begins attempts, so the assumption is of a peer *)
(* that goes on having packets to send.  And the network lets through some *)
(* of what is sent again and again.                                        *)
(***************************************************************************)
Spec ==
    /\ Init /\ [][Next]_vars
    /\ WF_vars(Send("init"))
    /\ SF_vars(Verify("init"))
    /\ SF_vars(ReceiveCookieReply)

-----------------------------------------------------------------------------

(***************************************************************************)
(* However heavy the load, the peer is not locked out: some initiation of  *)
(* its retries is let through, though it may hold a cookie that has become *)
(* stale, replies get lost or come too late, and its own answers to the    *)
(* other's initiations supersede the message a reply was for.              *)
(***************************************************************************)
NotLockedOut == <>admitted
=============================================================================
