-------------------------------- MODULE Waiting --------------------------------
(***************************************************************************)
(* The clocks of pollMatch (internal/gateway/server.go): a ticker that     *)
(* keeps at most one tick, a timer set to max_wait_ms plus five seconds,   *)
(* and calls of GetTicket, and for a match of GetResult, that take up to   *)
(* the timeout of the HTTP client each.                                    *)
(* Durations are computed as the code does, in integers that wrap.         *)
(*                                                                         *)
(* One ticket and its poller; the clock starts with the poller, which acts *)
(* at once when its select has a case that is ready.                       *)
(***************************************************************************)
EXTENDS Integers

CONSTANTS
  Half,           (* half of the int64 values, those below 0              *)
  PerMS,          (* time.Millisecond                                      *)
  Slack,          (* the five seconds                                      *)
  DefaultMaxWait, (* protocol.DefaultMaxWait, in milliseconds              *)
  DefaultPoll,    (* the default of MATCH_POLL_INTERVAL_MS                 *)
  PollEnv,        (* the values of that variable: {n} if it parses as the  *)
                  (* int64 n, {} if it is empty or does not parse          *)
  CallTime,       (* the timeout of the HTTP client                        *)
  Asked,          (* the max_wait_ms clients send                          *)
  Lag,            (* how late CoreRank may expire a ticket                 *)
  Fails           (* bound: polls that fail after the ticket is settled    *)

(* int64(x) *)
Signed(x) == ((x + Half) % (2 * Half)) - Half

(* Mutated form: a value that is not positive is taken as it is.           *)
GetenvAnyInt(raw, fallback) ==
  IF raw # {} THEN CHOOSE n \in raw : TRUE ELSE fallback

GetenvInt(raw, fallback) ==
  IF \E n \in raw : n > 0 THEN CHOOSE n \in raw : n > 0 ELSE fallback

(* cfg.MatchPollInterval *)
MatchPollInterval(raw) == Signed(GetenvInt(raw, DefaultPoll) * PerMS)

(* The interval is a Duration; for a larger setting the product wraps.     *)
IntervalFits(raw) == GetenvInt(raw, DefaultPoll) * PerMS < Half

(* NormalizeEnqueue; mode and score are only passed on.                    *)
NormalizeEnqueue(ms) == IF ms <= 0 THEN DefaultMaxWait ELSE ms

(* What CoreRank is asked to wait, and what the timer is set to.           *)
TicketWait(ms) == NormalizeEnqueue(ms) * PerMS

(* Mutated form: computed from the message as it came.                     *)
WaitAsSent(ms) == Signed(Signed(ms * PerMS) + Slack)

Wait(ms) == Signed(Signed(TicketWait(ms)) + Slack)

(* The wait is a Duration.                                                 *)
Fits(ms) == TicketWait(ms) + Slack < Half

ASSUME WaitingAssumption ==
  /\ Half \in Nat \ {0}
  /\ PerMS \in Nat \ {0} /\ Slack \in Nat /\ CallTime \in Nat
  /\ DefaultMaxWait \in Nat \ {0} /\ DefaultPoll \in Nat \ {0}
  /\ Asked \subseteq Int
  /\ Lag \in Nat /\ Fails \in Nat

ASSUME PollAssumption ==
  /\ DefaultPoll * PerMS < Half
  /\ \A raw \in PollEnv : raw \subseteq -Half..(Half - 1)

VARIABLES
  env,      (* what the environment holds for the polling interval           *)
  interval, (* the period of the ticker                                    *)
  asked,  (* max_wait_ms of the message                                    *)
  now,    (* the clock                                                     *)
  due,    (* when the timer fires                                          *)
  tickAt, (* when the ticker ticks next                                    *)
  tick,   (* a tick waits in the ticker's channel                          *)
  at,     (* where pollMatch is: "select", in GetTicket ("get"), in        *)
          (* GetResult ("result"), "ended", or "panicked" at its start     *)
  began,  (* when the present or last call began                           *)
  seen,   (* what CoreRank has answered to GetTicket, or "unread"          *)
  status, (* the ticket: "queued", "matched" with a match id, or "settled" *)
          (* in any other way                                              *)
  since,  (* history: when the ticket was settled                          *)
  fails,  (* history: polls that have failed since then                    *)
  polls,  (* history: polls so far                                         *)
  told    (* history: "nothing", "waiting" or "outcome"                    *)

settings == <<env, interval, asked, due>>
clock == <<now, tickAt, tick>>
call == <<at, began, seen>>
core == <<status, since>>
history == <<fails, polls, told>>
vars == <<settings, clock, call, core, history>>

(* NewTicker panics of an interval that is not positive, and that in a     *)
(* goroutine which nothing recovers: the process is gone.                  *)
Init ==
  /\ asked \in Asked /\ env \in PollEnv
  /\ now = 0 /\ due = Wait(asked)
  /\ interval = MatchPollInterval(env)
  /\ tickAt = interval /\ tick = FALSE
  /\ at = IF interval > 0 THEN "select" ELSE "panicked"
  /\ began = 0 /\ seen = "unread"
  /\ status \in {"queued", "matched", "settled"} /\ since = 0
  /\ fails = 0 /\ polls = 0 /\ told = "nothing"

-----------------------------------------------------------------------------
(* CoreRank and the clock *)

(* Matched, cancelled or expired.                                          *)
Settle ==
  /\ status = "queued"
  /\ status' \in {"matched", "settled"}
  /\ since' = now
  /\ UNCHANGED <<settings, clock, call, history>>

CoreReads ==
  /\ at = "get" /\ seen = "unread"
  /\ seen' = status
  /\ UNCHANGED <<settings, clock, at, began, core, history>>

(* The ticker drops a tick when the last one has not been taken.  Time     *)
(* waits for what is ready, for a call at its timeout, and for CoreRank to *)
(* expire the ticket.                                                      *)
TimePasses ==
  /\ at = "select" => ~tick /\ now < due
  /\ at \in {"get", "result"} => now < began + CallTime
  /\ at \notin {"ended", "panicked"}
  /\ status = "queued" => now < TicketWait(asked) + Lag
  /\ now' = now + 1
  /\ tick' = (tick \/ tickAt = now')
  /\ tickAt' = IF tickAt = now' THEN tickAt + interval ELSE tickAt
  /\ UNCHANGED <<settings, call, core, history>>

-----------------------------------------------------------------------------
(* pollMatch *)

(* case <-ticker.C *)
PollTick ==
  /\ at = "select" /\ tick
  /\ tick' = FALSE
  /\ at' = "get" /\ began' = now /\ seen' = "unread"
  /\ polls' = polls + 1
  /\ UNCHANGED <<settings, now, tickAt, core, fails, told>>

(* Mutated form: the loop sleeps between polls and has no ticker.          *)
PollSleeps ==
  /\ at = "get" /\ seen = "queued"
  /\ at' = "select"
  /\ tick' = FALSE /\ tickAt' = now + interval
  /\ UNCHANGED <<settings, now, began, seen, core, history>>

(* The answer is that the ticket still waits.                              *)
PollGoesOn ==
  /\ at = "get" /\ seen = "queued"
  /\ at' = "select"
  /\ UNCHANGED <<settings, clock, began, seen, core, history>>

(* Cancelled, expired, or matched without a match id: told at once.        *)
PollEnds ==
  /\ at = "get" /\ seen = "settled"
  /\ at' = "ended" /\ told' = "outcome"
  /\ UNCHANGED <<settings, clock, began, seen, core, fails, polls>>

(* Matched with a match id: pushMatch calls GetResult first.               *)
PollFetches ==
  /\ at = "get" /\ seen = "matched"
  /\ at' = "result" /\ began' = now
  /\ UNCHANGED <<settings, clock, seen, core, history>>

ResultReply ==
  /\ at = "result"
  /\ at' = "ended" /\ told' = "outcome"
  /\ UNCHANGED <<settings, clock, began, seen, core, fails, polls>>

(* The error of pushMatch is dropped: the poller ends without a word.      *)
ResultFails ==
  /\ at = "result"
  /\ at' = "ended"
  /\ UNCHANGED <<settings, clock, began, seen, core, history>>

(* Mutated form: after an error the next poll does not wait for the ticker.*)
PollRetries ==
  /\ at = "get"
  /\ status # "queued" => fails < Fails
  /\ at' = "select" /\ tick' = TRUE
  /\ fails' = IF status # "queued" THEN fails + 1 ELSE fails
  /\ UNCHANGED <<settings, now, tickAt, began, seen, core, polls, told>>

(* continue after an error, which may be a lost answer.                    *)
PollFails ==
  /\ at = "get"
  /\ status # "queued" => fails < Fails
  /\ at' = "select"
  /\ fails' = IF status # "queued" THEN fails + 1 ELSE fails
  /\ UNCHANGED <<settings, clock, began, seen, core, polls, told>>

(* case <-timer.C, which may win over a tick that is ready as well.        *)
PollTimesOut ==
  /\ at = "select" /\ now >= due
  /\ at' = "ended" /\ told' = "waiting"
  /\ UNCHANGED <<settings, clock, began, seen, core, fails, polls>>

(* Nothing is left to do.                                                 *)
Ended == at \in {"ended", "panicked"} /\ UNCHANGED vars

Next ==
  \/ Settle \/ CoreReads \/ TimePasses
  \/ PollTick \/ PollGoesOn \/ PollEnds \/ PollFails \/ PollTimesOut
  \/ PollFetches \/ ResultReply \/ ResultFails
  \/ Ended

Spec == Init /\ [][Next]_vars

-----------------------------------------------------------------------------
(* Properties *)

(* The longest time from the start of one poll to the start of the next.   *)
Beat == IF CallTime >= interval THEN CallTime ELSE interval

(* Types of the poller's clocks and of the ticket.  NewTicker gets a       *)
(* positive interval, or the process panics; that takes a setting whose    *)
(* milliseconds are no Duration: zero, a negative number or one that does  *)
(* not parse never does it.                                                *)
TypeOK ==
  /\ env \in PollEnv
  /\ interval \in Int
  /\ IF at = "panicked" THEN ~IntervalFits(env) ELSE interval > 0
  /\ asked \in Asked
  /\ now \in Nat /\ due \in Int /\ tickAt \in Int /\ tick \in BOOLEAN
  /\ at \in {"select", "get", "result", "ended", "panicked"}
  /\ began \in Nat /\ seen \in {"unread", "queued", "matched", "settled"}
  /\ status \in {"queued", "matched", "settled"} /\ since \in Nat
  /\ fails \in 0..Fails /\ polls \in Nat
  /\ told \in {"nothing", "waiting", "outcome"}

(* The calls an outcome takes: GetTicket, and for a match GetResult.       *)
Calls == IF status = "matched" THEN 2 ELSE 1

(* However slow the calls of pollMatch are and whichever fail, an outcome  *)
(* is told within one Beat and its Calls of being decided, and one more    *)
(* Beat for each GetTicket that fails; or by then the poller has ended,    *)
(* through its timer or a GetResult that failed.                           *)
PromptlyTold ==
  status # "queued" /\ at \notin {"ended", "panicked"}
    => now - since <= (fails + 1) * Beat + Calls * CallTime

(* The five seconds are enough: the timer never ends a poller whose ticket *)
(* has an outcome, nor before CoreRank has expired the ticket, as long as  *)
(* Lag and Fails + 1 Beats fit into them and the wait is a Duration.  (Of  *)
(* a max_wait_ms that is not, the timer may fire at once.)                 *)
OutcomeBeatsTimer ==
  Fits(asked) /\ Lag + (Fails + 1) * Beat < Slack => told # "waiting"

(* CoreRank is asked at most once per interval over the life of a poller,  *)
(* although a tick that came during a slow call is taken right after it.   *)
PollRate == polls * interval <= now
=============================================================================
