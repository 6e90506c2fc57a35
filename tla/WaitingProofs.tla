----------------------------- MODULE WaitingProofs -----------------------------
(***************************************************************************)
(* Proofs about Waiting, for every width of the integers, every length of  *)
(* interval, call and slack, and every number of failing polls.            *)
(***************************************************************************)
EXTENDS Waiting, TLAPS

(* Where the ticker stands: its next tick is ahead, by no more than the    *)
(* interval since the present call began, unless a tick came during it.    *)
TickerInv ==
  /\ at # "panicked" => now < tickAt /\ tickAt <= now + interval
  /\ began <= now
  /\ at \in {"get", "result"} => now <= began + CallTime
  /\ at = "get" /\ ~tick => tickAt <= began + interval

(* The time a settled ticket has been waiting at most when the next poll   *)
(* begins, after `fails` polls that have failed.                           *)
Reach == (fails + 1) * Beat

(* The next poll begins within Reach of the settlement; a poll that has    *)
(* read "queued" began before it, and one that has read something else     *)
(* has read what the ticket still is.                                      *)
SettledInv ==
  /\ since <= now
  /\ status = "queued" => now <= TicketWait(asked) + Lag
  /\ at = "result" => status = "matched"
  /\ at = "get" /\ seen \in {"matched", "settled"} => status = seen
  /\ status # "queued" =>
       /\ since <= TicketWait(asked) + Lag
       /\ at = "select" =>
            /\ tick => now <= since + Reach
            /\ ~tick => tickAt <= since + Reach
       /\ at = "get" =>
            /\ began <= since + Reach
            /\ seen = "queued" => began <= since
       /\ at = "result" => began <= since + Reach + CallTime

(* Every poll has had a tick of its own.                                   *)
PollInv ==
  IF at = "panicked" THEN polls = 0
  ELSE /\ tick => (polls + 1) * interval <= tickAt - interval
       /\ ~tick => polls * interval <= tickAt - interval

DueInv == due = Wait(asked)

IInv == TypeOK /\ TickerInv /\ SettledInv /\ PollInv /\ DueInv

-----------------------------------------------------------------------------
(* Numbers *)

LEMMA Settings ==
  /\ Half \in Nat \ {0} /\ PerMS \in Nat \ {0} /\ Slack \in Nat
  /\ CallTime \in Nat /\ Lag \in Nat /\ Fails \in Nat
  /\ DefaultMaxWait \in Nat \ {0} /\ DefaultPoll \in Nat \ {0}
  /\ Asked \subseteq Int
BY WaitingAssumption

LEMMA Remainder ==
  ASSUME NEW a \in Nat, NEW b \in Nat \ {0}, a < b
  PROVE  a % b = a
OBVIOUS

(* Values of the type are left as they are.                                *)
LEMMA SignedFits ==
  ASSUME NEW x \in Int, -Half <= x, x < Half
  PROVE  Signed(x) = x
<1>1. (x + Half) \in Nat /\ 2 * Half \in Nat \ {0} /\ x + Half < 2 * Half
  BY Settings
<1>2. (x + Half) % (2 * Half) = x + Half
  BY <1>1, Remainder
<1> QED
  BY <1>2, Settings DEF Signed

LEMMA SignedInt == \A x \in Int : Signed(x) \in Int
<1> SUFFICES ASSUME NEW x \in Int PROVE Signed(x) \in Int
  OBVIOUS
<1>1. x + Half \in Int /\ 2 * Half \in Nat \ {0}
  BY Settings
<1>2. (x + Half) % (2 * Half) \in Int
  BY <1>1
<1> QED
  BY <1>2, Settings DEF Signed

LEMMA TicketWaits ==
  ASSUME NEW ms \in Int
  PROVE  TicketWait(ms) \in Nat /\ Wait(ms) \in Int
<1>1. NormalizeEnqueue(ms) \in Nat
  BY Settings DEF NormalizeEnqueue
<1>2. TicketWait(ms) \in Nat
  BY <1>1, Settings DEF TicketWait
<1> QED
  BY <1>2, SignedInt, Settings DEF Wait

(* The timer is set to what was asked for and the slack, if that fits.     *)
LEMMA WaitFits ==
  ASSUME NEW ms \in Int, Fits(ms)
  PROVE  Wait(ms) = TicketWait(ms) + Slack
<1>1. TicketWait(ms) \in Nat /\ TicketWait(ms) + Slack < Half
  BY TicketWaits DEF Fits
<1>2. Signed(TicketWait(ms)) = TicketWait(ms)
  BY <1>1, SignedFits, Settings
<1>3. Signed(TicketWait(ms) + Slack) = TicketWait(ms) + Slack
  BY <1>1, SignedFits, Settings
<1> QED
  BY <1>2, <1>3 DEF Wait

LEMMA PollSettings ==
  ASSUME NEW raw \in PollEnv
  PROVE  /\ MatchPollInterval(raw) \in Int
         /\ IntervalFits(raw) => MatchPollInterval(raw) \in Nat \ {0}
<1> DEFINE ms == GetenvInt(raw, DefaultPoll)
<1>1. ms \in Nat \ {0}
  <2>1. CASE \E n \in raw : n > 0
    <3>1. PICK n \in raw : n > 0 /\ ms = n
      BY <2>1 DEF GetenvInt
    <3>2. n \in Int
      BY <3>1, PollAssumption, Settings
    <3> QED
      BY <3>1, <3>2
  <2>2. CASE ~ \E n \in raw : n > 0
    BY <2>2, Settings DEF GetenvInt
  <2> QED
    BY <2>1, <2>2
<1>2. IntervalFits(raw) <=> ms * PerMS < Half
  BY DEF IntervalFits
<1>3. MatchPollInterval(raw) = Signed(ms * PerMS)
  BY DEF MatchPollInterval
<1> HIDE DEF ms
<1>4. ms * PerMS \in Nat \ {0}
  BY <1>1, Settings
<1>5. ms * PerMS < Half => Signed(ms * PerMS) = ms * PerMS
  BY <1>4, SignedFits, Settings
<1> QED
  BY <1>2, <1>3, <1>4, <1>5, SignedInt

LEMMA Beats ==
  ASSUME TypeOK, at # "panicked"
  PROVE  /\ Beat \in Nat /\ CallTime <= Beat /\ interval <= Beat
         /\ Reach \in Nat /\ Beat <= Reach
         /\ (fails + 1 + 1) * Beat = Reach + Beat
<1>1. Beat \in Nat /\ CallTime <= Beat /\ interval <= Beat
  BY Settings DEF TypeOK, Beat
<1>2. fails \in Nat
  BY Settings DEF TypeOK
<1> HIDE DEF Beat
<1>3. \A k, b \in Nat : /\ (k + 1) * b \in Nat /\ b <= (k + 1) * b
                        /\ (k + 1 + 1) * b = (k + 1) * b + b
  OBVIOUS
<1> QED
  BY <1>1, <1>2, <1>3 DEF Reach

-----------------------------------------------------------------------------
(* Every step keeps the invariant.                                         *)

(* The clock and the ticker's channel.                                     *)
LEMMA ClockStep ==
  ASSUME TypeOK, TimePasses
  PROVE  /\ now' = now + 1 /\ tick' \in BOOLEAN
         /\ tick' <=> tick \/ tickAt = now + 1
         /\ tickAt = now + 1 => tickAt' = tickAt + interval
         /\ tickAt # now + 1 => tickAt' = tickAt
<1>1. now' = now + 1 /\ tick' = (tick \/ tickAt = now')
  BY DEF TimePasses
<1>2. tick' = (tick \/ tickAt = now + 1)
  BY <1>1
<1>3. tick' \in BOOLEAN /\ (tick' <=> tick \/ tickAt = now + 1)
  BY <1>2, Zenon
<1>4. tickAt' = IF tickAt = now' THEN tickAt + interval ELSE tickAt
  BY DEF TimePasses
<1> QED
  BY <1>1, <1>3, <1>4

LEMMA InitHolds == Init => IInv
<1> SUFFICES ASSUME Init PROVE IInv
  OBVIOUS
<1>1. /\ env \in PollEnv /\ interval \in Int /\ tickAt = interval
      /\ IF at = "panicked" THEN ~IntervalFits(env) ELSE interval > 0
  BY PollSettings DEF Init
<1>2. asked \in Int /\ due = Wait(asked) /\ due \in Int
      /\ TicketWait(asked) \in Nat
  BY TicketWaits, Settings DEF Init
<1>3. TypeOK
  <2>1. tick \in BOOLEAN
    BY DEF Init
  <2>2. 0 \in 0..Fails
    BY Settings
  <2>3. at \in {"select", "get", "result", "ended", "panicked"}
    BY DEF Init
  <2> QED
    BY <1>1, <1>2, <2>1, <2>2, <2>3 DEF Init, TypeOK
<1>4. TickerInv /\ PollInv /\ DueInv
  BY <1>1, <1>2 DEF Init, TickerInv, PollInv, DueInv
<1>5. SettledInv
  <2>1. at # "panicked" => Reach \in Nat /\ interval <= Reach
    <3> SUFFICES ASSUME at # "panicked" PROVE Reach \in Nat /\ interval <= Reach
      OBVIOUS
    <3> QED
      BY <1>1, <1>3, Beats DEF TypeOK
  <2> HIDE DEF Reach
  <2>2. now = 0 /\ since = 0 /\ tick = FALSE /\ at \in {"select", "panicked"}
    BY DEF Init
  <2> QED
    BY <1>1, <1>2, <2>1, <2>2, Settings DEF SettledInv
<1> QED
  BY <1>3, <1>4, <1>5 DEF IInv

LEMMA TypeStep ==
  ASSUME TypeOK, [Next]_vars
  PROVE  TypeOK'
<1> USE Settings DEF TypeOK, settings, clock, call, core, history
<1>1. CASE Settle \/ CoreReads
  BY <1>1 DEF Settle, CoreReads
<1>2. CASE TimePasses
  <2>1. /\ now' \in Nat /\ tick' \in BOOLEAN /\ tickAt' \in Int
    BY <1>2, ClockStep
  <2>2. UNCHANGED <<settings, call, core, history>>
    BY <1>2 DEF TimePasses
  <2> QED
    BY <2>1, <2>2
<1>3. CASE PollTick
  <2>1. tick' = FALSE /\ polls' \in Nat
    BY <1>3 DEF PollTick
  <2>2. tick' \in BOOLEAN
    BY <2>1
  <2>3. /\ UNCHANGED <<settings, now, tickAt, core, fails, told>>
        /\ at' = "get" /\ began' = now /\ seen' = "unread"
    BY <1>3 DEF PollTick
  <2>4. interval' > 0 /\ interval' \in Int
    BY <1>3, <2>3 DEF PollTick
  <2> QED
    BY <2>1, <2>2, <2>3, <2>4
<1>4. CASE PollGoesOn \/ PollEnds \/ PollFails
  BY <1>4 DEF PollGoesOn, PollEnds, PollFails
<1>5. CASE PollFetches \/ ResultReply \/ ResultFails
  BY <1>5 DEF PollFetches, ResultReply, ResultFails
<1>6. CASE PollTimesOut \/ Ended \/ UNCHANGED vars
  BY <1>6 DEF PollTimesOut, Ended, vars
<1> QED
  BY <1>1, <1>2, <1>3, <1>4, <1>5, <1>6 DEF Next

LEMMA TickerStep ==
  ASSUME IInv, [Next]_vars
  PROVE  TickerInv' /\ DueInv'
<1> USE Settings
    DEF IInv, TypeOK, TickerInv, DueInv, settings, clock, call, core, history
<1>1. CASE Settle \/ CoreReads
  BY <1>1 DEF Settle, CoreReads
<1>2. CASE TimePasses
  <2>1. /\ UNCHANGED <<settings, call>>
        /\ at \in {"get", "result"} => now < began + CallTime
        /\ at # "panicked"
    BY <1>2 DEF TimePasses
  <2>2. /\ now' = now + 1
        /\ tick' <=> tick \/ tickAt = now + 1
        /\ tickAt = now + 1 => tickAt' = tickAt + interval
        /\ tickAt # now + 1 => tickAt' = tickAt
    BY <1>2, ClockStep
  <2> QED
    BY <2>1, <2>2
<1>3. CASE PollTick \/ PollGoesOn \/ PollEnds \/ PollFails
  BY <1>3 DEF PollTick, PollGoesOn, PollEnds, PollFails
<1>4. CASE PollFetches \/ ResultReply \/ ResultFails
  BY <1>4 DEF PollFetches, ResultReply, ResultFails
<1>5. CASE PollTimesOut \/ Ended \/ UNCHANGED vars
  BY <1>5 DEF PollTimesOut, Ended, vars
<1> QED
  BY <1>1, <1>2, <1>3, <1>4, <1>5 DEF Next

LEMMA PollStep ==
  ASSUME IInv, [Next]_vars
  PROVE  PollInv'
<1> USE DEF settings, clock, call, core, history
<1>0. CASE at = "panicked"
  <2>1. polls = 0
    BY <1>0 DEF IInv, PollInv
  <2>2. at' = "panicked" /\ polls' = polls
    BY <1>0
    DEF Next, Settle, CoreReads, TimePasses, PollTick, PollGoesOn, PollEnds,
        PollFetches, ResultReply, ResultFails, PollFails, PollTimesOut, Ended,
        vars
  <2> QED
    BY <2>1, <2>2 DEF PollInv
<1> SUFFICES ASSUME at # "panicked" PROVE PollInv'
  BY <1>0
<1> DEFINE p == polls * interval
<1>1. /\ p \in Nat /\ (polls + 1) * interval = p + interval
      /\ polls \in Nat /\ interval \in Nat /\ tickAt \in Int
  BY DEF IInv, TypeOK
<1>2. /\ tick => p + interval <= tickAt - interval
      /\ ~tick => p <= tickAt - interval
  BY <1>1 DEF IInv, PollInv
<1>3. at' # "panicked"
  BY DEF Next, Settle, CoreReads, TimePasses, PollTick, PollGoesOn, PollEnds,
         PollFetches, ResultReply, ResultFails, PollFails, PollTimesOut, Ended,
         vars
<1>4. CASE UNCHANGED <<interval, polls, tick, tickAt>>
  BY <1>3, <1>4 DEF IInv, PollInv
<1>5. CASE TimePasses
  <2>1. UNCHANGED <<interval, polls>>
    BY <1>5 DEF TimePasses
  <2>2. /\ tick' => p + interval <= tickAt' - interval
        /\ ~tick' => p <= tickAt' - interval
    BY <1>1, <1>2, <1>5, ClockStep DEF IInv, TypeOK
  <2> QED
    BY <1>1, <1>3, <2>1, <2>2 DEF PollInv
<1>6. CASE PollTick
  <2>1. UNCHANGED <<interval, tickAt>> /\ tick /\ ~tick' /\ polls' = polls + 1
    BY <1>6 DEF PollTick
  <2> QED
    BY <1>1, <1>2, <1>3, <2>1 DEF PollInv
<1> QED
  BY <1>4, <1>5, <1>6
  DEF Next, Settle, CoreReads, PollGoesOn, PollEnds, PollFetches, ResultReply,
      ResultFails, PollFails, PollTimesOut, Ended, vars

LEMMA SettledStep ==
  ASSUME IInv, [Next]_vars
  PROVE  SettledInv'
<1> DEFINE expiry == TicketWait(asked) + Lag
<1>0. CASE at = "panicked"
  <2>1. /\ at' = at /\ UNCHANGED <<now, asked>>
        /\ UNCHANGED core \/ Settle
    BY <1>0
    DEF Next, Settle, CoreReads, TimePasses, PollTick, PollGoesOn, PollEnds,
        PollFetches, ResultReply, ResultFails, PollFails, PollTimesOut, Ended,
        vars, clock, call, settings
  <2>2. TicketWait(asked) \in Nat /\ now \in Nat
    BY TicketWaits, Settings DEF IInv, TypeOK
  <2> QED
    BY <1>0, <2>1, <2>2, Settings DEF IInv, SettledInv, Settle, core
<1> SUFFICES ASSUME at # "panicked" PROVE SettledInv'
  BY <1>0
<1>1. /\ Reach \in Nat /\ Beat \in Nat /\ CallTime <= Beat /\ interval <= Beat
      /\ Beat <= Reach /\ (fails + 1 + 1) * Beat = Reach + Beat
      /\ CallTime \in Nat
  BY Beats, Settings DEF IInv
<1>2. /\ now \in Nat /\ tickAt \in Int /\ began \in Nat /\ since \in Nat
      /\ interval \in Nat /\ expiry \in Nat /\ tick \in BOOLEAN
      /\ status \in {"queued", "matched", "settled"}
  BY TicketWaits, Settings DEF IInv, TypeOK
<1>3. TickerInv /\ SettledInv
  BY DEF IInv
<1>4. UNCHANGED <<interval, fails>> => Reach' = Reach
  BY DEF Reach, Beat
<1> HIDE DEF expiry
<1> USE DEF settings, clock, call, core, history, SettledInv, TickerInv
<1>5. CASE Settle
  <2>1. Reach' = Reach /\ UNCHANGED <<now, tickAt, tick, at, began, seen, asked>>
        /\ status' # "queued" /\ since' = now /\ status = "queued"
    BY <1>4, <1>5 DEF Settle
  <2> QED
    BY <1>1, <1>2, <1>3, <2>1
<1>6. CASE CoreReads
  <2>1. Reach' = Reach /\ UNCHANGED <<now, tickAt, tick, at, began, asked, core>>
        /\ at = "get" /\ seen' = status
    BY <1>4, <1>6 DEF CoreReads
  <2> QED
    BY <1>1, <1>2, <1>3, <2>1
<1>7. CASE TimePasses
  <2>1. Reach' = Reach /\ UNCHANGED <<at, began, seen, asked, core>>
    BY <1>4, <1>7 DEF TimePasses
  <2>2. /\ now' = now + 1
        /\ at = "select" => ~tick
        /\ tick' <=> tick \/ tickAt = now + 1
        /\ tickAt # now + 1 => tickAt' = tickAt
        /\ status = "queued" => now < TicketWait(asked) + Lag
    BY <1>7, ClockStep DEF TimePasses, IInv
  <2> QED
    BY <1>1, <1>2, <1>3, <2>1, <2>2 DEF expiry
<1>8. CASE PollTick
  <2>1. Reach' = Reach /\ UNCHANGED <<now, tickAt, asked, core>>
        /\ at = "select" /\ tick /\ at' = "get" /\ began' = now
        /\ seen' = "unread"
    BY <1>4, <1>8 DEF PollTick
  <2> QED
    BY <1>1, <1>2, <1>3, <2>1
<1>9. CASE PollGoesOn
  <2>1. Reach' = Reach /\ UNCHANGED <<now, tickAt, tick, asked, began, seen, core>>
        /\ at = "get" /\ seen = "queued" /\ at' = "select"
    BY <1>4, <1>9 DEF PollGoesOn
  <2> QED
    BY <1>1, <1>2, <1>3, <2>1
<1>10. CASE PollFails
  <2>1. /\ UNCHANGED <<now, tickAt, tick, asked, began, seen, core, interval>>
        /\ at = "get" /\ at' = "select"
        /\ fails' = IF status # "queued" THEN fails + 1 ELSE fails
    BY <1>10 DEF PollFails
  <2>2. status # "queued" => Reach' = Reach + Beat
    BY <1>1, <2>1 DEF Reach, Beat
  <2> QED
    BY <1>1, <1>2, <1>3, <2>1, <2>2
<1>11. CASE PollEnds \/ PollTimesOut \/ ResultReply \/ ResultFails
  <2>1. UNCHANGED <<now, asked, core>> /\ at' = "ended"
    BY <1>11 DEF PollEnds, PollTimesOut, ResultReply, ResultFails
  <2> QED
    BY <1>3, <2>1
<1>12. CASE PollFetches
  <2>1. Reach' = Reach /\ UNCHANGED <<now, tickAt, tick, asked, seen, core>>
        /\ at = "get" /\ seen = "matched" /\ at' = "result" /\ began' = now
    BY <1>4, <1>12 DEF PollFetches
  <2> QED
    BY <1>1, <1>2, <1>3, <2>1
<1>13. CASE Ended \/ UNCHANGED vars
  BY <1>3, <1>4, <1>13 DEF Ended, vars
<1> QED
  BY <1>5, <1>6, <1>7, <1>8, <1>9, <1>10, <1>11, <1>12, <1>13 DEF Next

THEOREM InductiveInvariant == Spec => []IInv
<1>1. IInv /\ [Next]_vars => IInv'
  BY TypeStep, TickerStep, PollStep, SettledStep DEF IInv
<1> QED
  BY <1>1, InitHolds, PTL DEF Spec

-----------------------------------------------------------------------------
(* What follows.                                                           *)

(* Types; NewTicker panics only of a setting that is no Duration.          *)
THEOREM TypeCorrect == Spec => []TypeOK
BY InductiveInvariant, PTL DEF IInv

(* An outcome is told within a Beat and its calls, GetTicket and for a     *)
(* match GetResult, and a Beat more for each GetTicket that fails.         *)
THEOREM OutcomesArePrompt == Spec => []PromptlyTold
<1>1. IInv => PromptlyTold
  <2> SUFFICES ASSUME IInv, status # "queued", at \notin {"ended", "panicked"}
               PROVE  now - since <= Reach + Calls * CallTime
    BY DEF PromptlyTold, Reach
  <2>1. Reach \in Nat /\ CallTime \in Nat
    BY Beats, Settings DEF IInv
  <2>2. /\ Calls * CallTime \in Nat /\ CallTime <= Calls * CallTime
        /\ status = "matched" => Calls * CallTime = CallTime + CallTime
    BY <2>1 DEF Calls
  <2> HIDE DEF Reach, Calls
  <2>3. CASE at = "select"
    BY <2>1, <2>2, <2>3 DEF IInv, TypeOK, TickerInv, SettledInv
  <2>4. CASE at = "get"
    BY <2>1, <2>2, <2>4 DEF IInv, TypeOK, TickerInv, SettledInv
  <2>5. CASE at = "result"
    BY <2>1, <2>2, <2>5 DEF IInv, TypeOK, TickerInv, SettledInv
  <2> QED
    BY <2>3, <2>4, <2>5 DEF IInv, TypeOK
<1> QED
  BY <1>1, InductiveInvariant, PTL

(* CoreRank is polled at most once per interval.                           *)
THEOREM PollsAreSpaced == Spec => []PollRate
<1>1. IInv => PollRate
  <2> SUFFICES ASSUME IInv PROVE polls * interval <= now
    BY DEF PollRate
  <2>1. CASE at = "panicked"
    BY <2>1 DEF IInv, TypeOK, PollInv
  <2>2. CASE at # "panicked"
    <3>1. /\ polls * interval \in Nat
          /\ (polls + 1) * interval = polls * interval + interval
          /\ interval \in Nat /\ tickAt \in Int /\ now \in Nat
      BY <2>2 DEF IInv, TypeOK
    <3>2. polls * interval <= tickAt - interval
      BY <2>2, <3>1 DEF IInv, PollInv
    <3> QED
      BY <2>2, <3>1, <3>2 DEF IInv, TickerInv
  <2> QED
    BY <2>1, <2>2
<1> QED
  BY <1>1, InductiveInvariant, PTL

(* The slack is enough for the outcome to come before the timer.           *)
THEOREM OutcomesBeatTheTimer == Spec => []OutcomeBeatsTimer
<1> DEFINE Enough == Fits(asked) /\ Lag + (Fails + 1) * Beat < Slack
<1>1. Init => OutcomeBeatsTimer
  BY DEF Init, OutcomeBeatsTimer
<1>2. ASSUME IInv, OutcomeBeatsTimer, [Next]_vars PROVE OutcomeBeatsTimer'
  <2>1. UNCHANGED <<asked, interval>>
    BY <1>2
    DEF Next, Settle, CoreReads, TimePasses, PollTick, PollGoesOn, PollEnds,
        PollFetches, ResultReply, ResultFails, PollFails, PollTimesOut, Ended,
        vars, settings
  <2>2. Enough' = Enough
    BY <2>1 DEF Beat
  <2>3. CASE told' = told
    BY <1>2, <2>2, <2>3 DEF OutcomeBeatsTimer
  <2>4. CASE PollTimesOut /\ Enough
    <3>1. /\ due = TicketWait(asked) + Slack /\ TicketWait(asked) \in Nat
          /\ asked \in Int
      BY <1>2, <2>4, WaitFits, TicketWaits, Settings DEF IInv, TypeOK, DueInv
    <3>2. /\ Reach \in Nat /\ Beat \in Nat /\ (Fails + 1) * Beat \in Nat
          /\ Reach <= (Fails + 1) * Beat
      <4>1. Reach \in Nat /\ Beat \in Nat /\ fails \in 0..Fails
        BY <1>2, <2>4, Beats DEF IInv, TypeOK, PollTimesOut
      <4>2. \A b \in Nat : /\ (Fails + 1) * b \in Nat
                           /\ (fails + 1) * b <= (Fails + 1) * b
        BY <4>1, Settings
      <4> QED
        BY <4>1, <4>2 DEF Reach
    <3>3. at = "select" /\ now >= due
      BY <2>4 DEF PollTimesOut
    <3>4. now <= TicketWait(asked) + Lag + (Fails + 1) * Beat
      <4>1. status = "queued" => now <= TicketWait(asked) + Lag
        BY <1>2 DEF IInv, SettledInv
      <4>2. status # "queued" =>
              now <= since + Reach /\ since <= TicketWait(asked) + Lag
        BY <1>2, <3>2, <3>3 DEF IInv, TypeOK, TickerInv, SettledInv
      <4>3. status \in {"queued", "matched", "settled"} /\ now \in Nat /\ since \in Nat
        BY <1>2 DEF IInv, TypeOK
      <4> QED
        BY <3>1, <3>2, <4>1, <4>2, <4>3, Settings
    <3> QED
      BY <1>2, <2>4, <3>1, <3>2, <3>3, <3>4, Settings DEF IInv, TypeOK
  <2>5. told' \in {told, "outcome"} \/ PollTimesOut
    BY <1>2
    DEF Next, Settle, CoreReads, TimePasses, PollTick, PollGoesOn, PollEnds,
        PollFetches, ResultReply, ResultFails, PollFails, Ended, vars, history
  <2>6. CASE told' = "outcome"
    BY <2>6 DEF OutcomeBeatsTimer
  <2> QED
    BY <2>2, <2>3, <2>4, <2>5, <2>6 DEF OutcomeBeatsTimer
<1> QED
  BY <1>1, <1>2, InductiveInvariant, PTL DEF Spec
=============================================================================
