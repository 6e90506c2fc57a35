----------------------------- MODULE RateLimiter -----------------------------
(***************************************************************************)
(* The per-session rate limiter of internal/gateway/session.go: a window   *)
(* that opens with the first message after the previous one has expired,   *)
(* and a counter of the messages allowed since it opened.  The read loop   *)
(* of one connection is the only caller, so calls are serial; `now` is the *)
(* monotonic reading that time.Now() carries.                              *)
(***************************************************************************)
EXTENDS Integers, Sequences

CONSTANTS
  SessionRateLimit, (* the configured limit, any integer                   *)
  Window,           (* length of a window in clock units; one second there *)
  Horizon           (* bound: the clock stops here, so TLC terminates      *)

ASSUME LimiterAssumption ==
  /\ SessionRateLimit \in Int
  /\ Window \in Nat \ {0}
  /\ Horizon \in Nat

(* newRateLimiter replaces a limit that would block every message by 1.    *)
Limit == IF SessionRateLimit <= 0 THEN 1 ELSE SessionRateLimit

(* The zero time.Time of a limiter that has not seen a message.            *)
ZeroTime == -1

VARIABLES
  now,         (* the clock                                                *)
  windowStart, (* when the current window opened                           *)
  count,       (* messages allowed in the current window                   *)
  accepted,    (* history: <<[at, win]>>, the allowed messages in order,   *)
               (* each with the window it was charged to                   *)
  rejected     (* history: when the last message was refused               *)

vars == <<now, windowStart, count, accepted, rejected>>

Init ==
  /\ now = 0
  /\ windowStart = ZeroTime
  /\ count = 0
  /\ accepted = <<>>
  /\ rejected = ZeroTime

(* Mutated form: the comparison is off by one clock unit.                  *)
ExpiredEarly == windowStart = ZeroTime \/ now - windowStart >= Window - 1

Expired == windowStart = ZeroTime \/ now - windowStart >= Window

(* The window and the counter a message arriving now is charged to.        *)
OpenWindow == IF Expired THEN now ELSE windowStart
CountInWindow == IF Expired THEN 0 ELSE count

(* Mutated form: <= for < in the comparison with the limit.                *)
AcceptOneMore ==
  /\ CountInWindow <= Limit
  /\ windowStart' = OpenWindow
  /\ count' = CountInWindow + 1
  /\ accepted' = Append(accepted, [at |-> now, win |-> OpenWindow])
  /\ UNCHANGED <<now, rejected>>

(* Mutated form: the counter is reset and the window's start is not.       *)
AcceptStaleWindow ==
  /\ CountInWindow < Limit
  /\ windowStart' = IF windowStart = ZeroTime THEN now ELSE windowStart
  /\ count' = CountInWindow + 1
  /\ accepted' = Append(accepted, [at |-> now, win |-> OpenWindow])
  /\ UNCHANGED <<now, rejected>>

(* Allow returning true: the message goes on to handleMessage.             *)
Accept ==
  /\ CountInWindow < Limit
  /\ windowStart' = OpenWindow
  /\ count' = CountInWindow + 1
  /\ accepted' = Append(accepted, [at |-> now, win |-> OpenWindow])
  /\ UNCHANGED <<now, rejected>>

(* Mutated form: every message, a refused one too, restarts the window.    *)
RejectRestarts ==
  /\ CountInWindow >= Limit
  /\ windowStart' = now
  /\ count' = CountInWindow
  /\ rejected' = now
  /\ UNCHANGED <<now, accepted>>

(* Allow returning false: the client is told "rate limit exceeded".        *)
Reject ==
  /\ CountInWindow >= Limit
  /\ windowStart' = OpenWindow
  /\ count' = CountInWindow
  /\ rejected' = now
  /\ UNCHANGED <<now, accepted>>

Tick ==
  /\ now < Horizon
  /\ now' = now + 1
  /\ UNCHANGED <<windowStart, count, accepted, rejected>>

Next == Accept \/ Reject \/ Tick

Spec == Init /\ [][Next]_vars

-----------------------------------------------------------------------------
(* Properties *)

(* The limiter's fields and the histories have their types.                *)
TypeOK ==
  /\ now \in Nat
  /\ windowStart \in Nat \cup {ZeroTime}
  /\ count \in 0..Limit
  /\ accepted \in Seq([at : Nat, win : Nat])
  /\ rejected \in Nat \cup {ZeroTime}

(* What a fixed window really promises about bursts: any 2 * Limit + 1     *)
(* consecutive allowed messages span more than one window, whatever their  *)
(* alignment with the windows of Allow.                                    *)
BurstBounded ==
  \A i \in 1..Len(accepted) :
    i + 2 * Limit <= Len(accepted)
      => accepted[i + 2 * Limit].at - accepted[i].at > Window

(* The limiter never loses allowance to drift: over its whole life the     *)
(* number of allowed messages is at most Limit for each full or started    *)
(* Window since the first one.                                             *)
LongRunRate ==
  accepted # <<>> =>
    Len(accepted) <= Limit * (((now - accepted[1].at) \div Window) + 1)

(* A refusal is always earned: when Allow returns false, Limit messages    *)
(* were allowed within the Window that ends now, so a client that keeps to *)
(* the limit over every second is never refused, and refused messages do   *)
(* not postpone the next window.                                           *)
RefusalEarned ==
  rejected' # rejected =>
    LET n == Len(accepted) IN
      /\ n >= Limit
      /\ now - accepted[n - Limit + 1].at < Window

RefusalsEarned == [][RefusalEarned]_vars
=============================================================================
