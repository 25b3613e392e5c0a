---------------------------- MODULE WsConnection ----------------------------
(***************************************************************************)
(* One websocket connection of Realtime: the authorised upgrade, the       *)
(* replay, the select loop of Connection::run with its heartbeat,          *)
(* revalidation, bounded sends and inbound rate limit, and the close.      *)
(*                                                                         *)
(* Every await is a step.  Time is relative: heartbeat and revalidate are  *)
(* the times until the next tick of the intervals, seen is                 *)
(* last_seen.elapsed(), waited the time spent in a bounded await.  The     *)
(* stream shows one inbound frame at a time; the token bucket counts in    *)
(* fractions of a token.  A prompt connection handles what is ready before *)
(* time passes and its sends and calls take no time.                       *)
(*                                                                         *)
(* silent, barred and admitted are kept for the properties of prompt       *)
(* connections.                                                            *)
(*                                                                         *)
(* The operators named Mut... are plausible defects of the definition that *)
(* follows them; they are not part of the specification.                   *)
(***************************************************************************)
EXTENDS Naturals, Sequences

CONSTANTS
  HeartbeatEvery, HeartbeatTimeout, RevalidateEvery, IoTimeout,  \* RealtimeConfig
  Rate,          \* max_inbound_frames_per_second
  Second,        \* ticks of the clock per second
  MaxReplay,     \* bound: messages of the backlog
  Window         \* ticks of the longest window FramesAdmitted looks at

ASSUME WsAssumption ==
  /\ {HeartbeatEvery, HeartbeatTimeout, RevalidateEvery, IoTimeout, Second, Window}
       \subseteq Nat \ {0}
  /\ Rate \in Nat /\ MaxReplay \in Nat
  /\ HeartbeatTimeout > HeartbeatEvery

VARIABLES
  pc,          \* the await the connection is in
  sending,     \* what it sends: "replay", "live", "reply", "ping" or "close"
  reason,      \* CloseReason, or "Open"
  waited,      \* time spent in a send, in on_message or in sink.close
  replay,      \* messages of the backlog still to send
  outbound,    \* the room's stream: "empty", "message" or "ended"
  frame,       \* the socket's stream: "none", "control", "data", "late" or "end"
  heartbeat,   \* time until the heartbeat tick
  revalidate,  \* time until the revalidation tick
  seen,        \* time since the last inbound frame was taken
  tokens,      \* InboundRateLimiter::tokens, times Second
  rights,      \* what the authenticator and the authoriser grant
  client,      \* "live", "mute" (sends nothing) or "stalled" (reads nothing)
  prompt,      \* never changes
  silent,      \* time since a frame last reached the socket
  barred,      \* time since the right to be connected was lost
  admitted     \* frames the limiter let through, per tick of the window

timers == <<heartbeat, revalidate, seen>>
env == <<outbound, rights, client, silent, barred>>
vars == <<pc, sending, reason, waited, replay, frame, timers, tokens, env, prompt, admitted>>

Capacity == Second * (IF Rate > 1 THEN Rate ELSE 1)
Refill == Capacity \div Second
AtMost(n, bound) == IF n < bound THEN n ELSE bound
Less(n) == IF n > 0 THEN n - 1 ELSE 0

Longest == HeartbeatTimeout + HeartbeatEvery + RevalidateEvery
Bounded == {"Send", "OnMessage", "SinkClose"}
Final == {"Closed", "Refused"}
AllRights == {"identity", "subscribe", "publish"}
Granted == {"identity", "subscribe"} \subseteq rights

Init ==
  /\ pc = "Authenticate" /\ sending = "close" /\ reason = "Open" /\ waited = 0 /\ replay = 0
  /\ outbound = "empty" /\ frame = "none"
  /\ heartbeat = HeartbeatEvery /\ revalidate = RevalidateEvery /\ seen = 0
  /\ tokens = Capacity
  /\ rights = AllRights /\ client = "live"
  /\ prompt \in BOOLEAN
  /\ silent = 0 /\ barred = 0 /\ admitted = [i \in 1..Window |-> 0]

-----------------------------------------------------------------------------
(* The environment *)

Open == pc \notin Final

\* A frame, or the end of the stream, reaches the socket.
Arrive(f) ==
  /\ Open /\ frame = "none" /\ client # "mute"
  /\ frame' = IF f = "data" /\ "publish" \notin rights THEN "late" ELSE f
  /\ silent' = 0
  /\ UNCHANGED <<pc, sending, reason, waited, replay, timers, tokens, outbound, rights, client,
                 prompt, barred, admitted>>

\* The hub publishes to the room, or its stream ends.
Outbound(o) ==
  /\ Open /\ outbound = "empty"
  /\ outbound' = o
  /\ UNCHANGED <<pc, sending, reason, waited, replay, frame, timers, tokens, rights, client,
                 prompt, silent, barred, admitted>>

\* A session ends, or a permission is withdrawn.  Bound: one of them.
Revoke(r) ==
  /\ Open /\ rights = AllRights
  /\ rights' = rights \ {r}
  /\ UNCHANGED <<pc, sending, reason, waited, replay, frame, timers, tokens, outbound, client,
                 prompt, silent, barred, admitted>>

Degrade(c) ==
  /\ Open /\ client = "live"
  /\ client' = c
  /\ UNCHANGED <<pc, sending, reason, waited, replay, frame, timers, tokens, outbound, rights,
                 prompt, silent, barred, admitted>>

-----------------------------------------------------------------------------
(* upgrade_since *)

Goto(l) == pc' = l /\ waited' = 0
Keep == UNCHANGED <<timers, tokens, env, prompt, admitted>>

Authenticate ==
  /\ pc = "Authenticate"
  /\ Goto(IF "identity" \in rights THEN "Authorize" ELSE "Refused")
  /\ UNCHANGED <<sending, reason, replay, frame>> /\ Keep

Authorize ==
  /\ pc = "Authorize"
  /\ Goto(IF "subscribe" \in rights THEN "Subscribe" ELSE "Refused")
  /\ UNCHANGED <<sending, reason, replay, frame>> /\ Keep

-----------------------------------------------------------------------------
(* run, up to the loop *)

\* The next await is a send_bounded.
Send(what) == Goto("Send") /\ sending' = what

\* The intervals are reset, so that their first tick is a whole period away.
EnterLoop ==
  /\ Goto("Select")
  /\ heartbeat' = HeartbeatEvery /\ revalidate' = RevalidateEvery /\ seen' = 0
  /\ UNCHANGED <<sending, reason, frame, tokens, env, prompt, admitted>>

\* subscribe_since answers with n messages to replay.
Subscribe(n) ==
  /\ pc = "Subscribe"
  /\ \/ /\ n > 0
        /\ replay' = n - 1
        /\ Send("replay")
        /\ UNCHANGED <<reason, frame>> /\ Keep
     \/ /\ n = 0
        /\ EnterLoop
        /\ UNCHANGED replay

SubscribeFails ==
  /\ pc = "Subscribe"
  /\ Send("close") /\ reason' = "SubscribeFailed"
  /\ UNCHANGED <<replay, frame>> /\ Keep

-----------------------------------------------------------------------------
(* send_bounded and sink.close *)

\* A Close frame was sent, or not: its result is ignored.
CloseSent ==
  /\ sending = "close"
  /\ Goto(IF reason = "SubscribeFailed" THEN "Closed" ELSE "SinkClose")
  /\ UNCHANGED <<sending, reason, replay, frame>> /\ Keep

\* What follows a send that did not fail: the rest of the replay, or the loop.
Sent ==
  \/ /\ sending = "replay" /\ replay > 0
     /\ replay' = replay - 1 /\ Send("replay")
     /\ UNCHANGED <<reason, frame>> /\ Keep
  \/ /\ sending = "replay" /\ replay = 0
     /\ EnterLoop
     /\ UNCHANGED replay
  \/ /\ sending \in {"live", "reply", "ping"}
     /\ Goto("Select")
     /\ UNCHANGED <<sending, reason, replay, frame>> /\ Keep

SendOk == pc = "Send" /\ client # "stalled" /\ (Sent \/ CloseSent)

\* The failure of a replay ends run at once.
Unsent(why) ==
  /\ sending # "close"
  /\ Goto(IF sending = "replay" THEN "Closed" ELSE "SinkClose")
  /\ reason' = why
  /\ UNCHANGED <<sending, replay, frame>> /\ Keep

SendErr == pc = "Send" /\ frame = "end" /\ (Unsent("ClientGone") \/ CloseSent)
SendTimeout == pc = "Send" /\ waited = IoTimeout /\ (Unsent("Unresponsive") \/ CloseSent)

SinkClose ==
  /\ pc = "SinkClose"
  /\ client # "stalled" \/ waited = IoTimeout
  /\ Goto("Closed")
  /\ UNCHANGED <<sending, reason, replay, frame>> /\ Keep

-----------------------------------------------------------------------------
(* The branches of select! *)

Break(why) == Goto("SinkClose") /\ reason' = why

TakeOutbound ==
  /\ pc = "Select" /\ outbound # "empty"
  /\ \/ outbound = "ended" /\ Break("RoomClosed") /\ UNCHANGED <<sending, outbound>>
     \/ outbound = "message" /\ Send("live") /\ outbound' = "empty" /\ UNCHANGED reason
  /\ UNCHANGED <<replay, frame, timers, tokens, rights, client, prompt, silent, barred, admitted>>

\* InboundRateLimiter::try_acquire
MayAcquire == tokens >= Second

\* Only frames of data go past the limiter; any frame refreshes last_seen.
TakeFrame ==
  /\ pc = "Select" /\ frame # "none"
  /\ seen' = 0
  /\ \/ /\ frame = "end"
        /\ Break("ClientGone")
        /\ UNCHANGED <<frame, tokens, admitted>>
     \/ /\ frame = "control" \/ (frame \in {"data", "late"} /\ ~MayAcquire)
        /\ Goto("Select")
        /\ frame' = "none"
        /\ UNCHANGED <<reason, tokens, admitted>>
     \/ /\ frame \in {"data", "late"} /\ MayAcquire
        /\ Goto("AuthorizePublish")
        /\ tokens' = tokens - Second
        /\ admitted' = IF prompt THEN [admitted EXCEPT ![1] = @ + 1] ELSE admitted
        /\ UNCHANGED <<reason, frame>>
  /\ UNCHANGED <<sending, replay, heartbeat, revalidate, env, prompt>>

\* The frame has gone to the handler, or is dropped.
PublishAllowed == "publish" \in rights

AuthorizePublish ==
  /\ pc = "AuthorizePublish"
  /\ \/ PublishAllowed /\ Goto("OnMessage") /\ UNCHANGED frame
     \/ ~PublishAllowed /\ Goto("Select") /\ frame' = "none"
  /\ UNCHANGED <<sending, reason, replay>> /\ Keep

\* on_message answers nothing or an error, or a reply for this client.
OnMessageDone ==
  /\ pc = "OnMessage"
  /\ frame' = "none"
  /\ \/ Goto("Select") /\ UNCHANGED sending
     \/ Send("reply")
  /\ UNCHANGED <<reason, replay>> /\ Keep

OnMessageTimeout ==
  /\ pc = "OnMessage" /\ waited = IoTimeout
  /\ Break("Unresponsive") /\ frame' = "none"
  /\ UNCHANGED <<sending, replay>> /\ Keep

\* An interval whose tick was late counts the next period from now.
RevalidateTick ==
  /\ pc = "Select" /\ revalidate = 0
  /\ revalidate' = RevalidateEvery
  /\ Goto("Reauthenticate")
  /\ UNCHANGED <<sending, reason, replay, frame, heartbeat, seen, tokens, env, prompt, admitted>>

\* still_authorized: authenticate and compare the identity, then authorise.
Reauthenticate ==
  /\ pc = "Reauthenticate"
  /\ \/ "identity" \in rights /\ Goto("Reauthorize") /\ UNCHANGED <<sending, reason>>
     \/ "identity" \notin rights /\ Send("close") /\ reason' = "Revoked"
  /\ UNCHANGED <<replay, frame>> /\ Keep

MutStillSubscribed == TRUE
StillSubscribed == "subscribe" \in rights

Reauthorize ==
  /\ pc = "Reauthorize"
  /\ \/ StillSubscribed /\ Goto("Select") /\ UNCHANGED <<sending, reason>>
     \/ ~StillSubscribed /\ Send("close") /\ reason' = "Revoked"
  /\ UNCHANGED <<replay, frame>> /\ Keep

\* The ping of a live connection does not count as traffic.
MutSeenAfterPing == 0
SeenAfterPing == seen

HeartbeatTick ==
  /\ pc = "Select" /\ heartbeat = 0
  /\ heartbeat' = HeartbeatEvery
  /\ \/ /\ seen >= HeartbeatTimeout
        /\ Send("close") /\ reason' = "Timeout"
        /\ UNCHANGED seen
     \/ /\ seen < HeartbeatTimeout
        /\ Send("ping")
        /\ seen' = SeenAfterPing
        /\ UNCHANGED reason
  /\ UNCHANGED <<replay, frame, revalidate, tokens, env, prompt, admitted>>
-----------------------------------------------------------------------------

\* Something the pump need not wait for.
Ready ==
  \/ pc = "Select" /\ (outbound # "empty" \/ frame # "none" \/ heartbeat = 0 \/ revalidate = 0)
  \/ pc \in {"Send", "SinkClose"} /\ client # "stalled"
  \/ pc \notin {"Send", "SinkClose"} \cup Final \cup {"Select"}

MutRefilled == tokens + Refill
Refilled == AtMost(tokens + Refill, Capacity)

Tick ==
  /\ Open
  /\ pc \in Bounded => waited < IoTimeout
  /\ prompt => ~Ready
  /\ waited' = IF pc \in Bounded THEN waited + 1 ELSE waited
  /\ heartbeat' = Less(heartbeat) /\ revalidate' = Less(revalidate)
  /\ seen' = AtMost(seen + 1, HeartbeatTimeout)
  /\ tokens' = Refilled
  /\ silent' = IF prompt THEN AtMost(silent + 1, Longest) ELSE 0
  /\ barred' = IF prompt /\ ~Granted THEN AtMost(barred + 1, Longest) ELSE 0
  /\ admitted' = [i \in 1..Window |-> IF i = 1 THEN 0 ELSE admitted[i - 1]]
  /\ UNCHANGED <<pc, sending, reason, replay, frame, outbound, rights, client, prompt>>

Environment ==
  \/ \E f \in {"control", "data", "end"} : Arrive(f)
  \/ \E o \in {"message", "ended"} : Outbound(o)
  \/ \E r \in rights : Revoke(r)
  \/ \E c \in {"mute", "stalled"} : Degrade(c)

Upgrade == Authenticate \/ Authorize \/ (\E n \in 0..MaxReplay : Subscribe(n)) \/ SubscribeFails
Pump ==
  \/ SendOk \/ SendErr \/ SendTimeout \/ SinkClose \/ TakeOutbound \/ TakeFrame
  \/ AuthorizePublish \/ OnMessageDone \/ OnMessageTimeout
  \/ RevalidateTick \/ Reauthenticate \/ Reauthorize \/ HeartbeatTick

Next == Environment \/ Upgrade \/ Pump \/ Tick

Spec == Init /\ [][Next]_vars

\* The connection's task is scheduled, calls of the authenticator and the
\* authoriser return, time passes, and select! polls its branches in random
\* order, so that a branch that is ready again and again is taken.
Fairness ==
  /\ WF_vars(Upgrade) /\ WF_vars(Pump) /\ WF_vars(Tick)
  /\ SF_vars(RevalidateTick) /\ SF_vars(HeartbeatTick) /\ SF_vars(TakeOutbound)

FairSpec == Spec /\ Fairness
-----------------------------------------------------------------------------
(* Properties *)

\* A prompt connection is held at most revalidate_every after its identity or
\* its right to the room is gone, and less than heartbeat_timeout plus
\* heartbeat_every after the last inbound frame, for any order in which the
\* branches of the loop are taken.
ReapedInTime ==
  prompt /\ pc = "Select" =>
    barred <= RevalidateEvery /\ silent <= HeartbeatTimeout + HeartbeatEvery

\* The frames admitted in the last j ticks.
InLast[j \in 0..Window] == IF j = 0 THEN 0 ELSE admitted[j] + InLast[j - 1]

\* What is admitted: in any window of j ticks no more frames reach the authoriser
\* than a full bucket and the refill of those j ticks pay for, and a frame sent
\* after the right to publish was withdrawn never reaches on_message, however
\* long the connection has been authorised before.
FramesAdmitted ==
  /\ \A j \in 1..Window : InLast[j] * Second <= Capacity + j * Refill
  /\ pc = "OnMessage" => frame # "late"

\* A connection does not outlive its client or its rights: once the client is
\* mute or stalled or the identity or the subscription is gone, it is closed,
\* although replays, slow sends, slow handlers and a busy room compete for the
\* one task that runs the guards.
DeadReaped == prompt \/ <>[]((client = "live" /\ Granted) \/ pc \in Final)
=============================================================================
