-------------------------- MODULE RateLimiterProofs --------------------------
(***************************************************************************)
(* Proofs about RateLimiter, for every limit, window and horizon.          *)
(***************************************************************************)
EXTENDS RateLimiter, SequenceTheorems, TLAPS

Message == [at : Nat, win : Nat]

(* The window in force is the latest one, and the last `count` allowed     *)
(* messages are those charged to it.                                       *)
WindowInv ==
  LET n == Len(accepted) IN
  /\ windowStart <= now
  /\ count <= n
  /\ windowStart = ZeroTime => n = 0
  /\ \A i \in 1..n : accepted[i].win <= windowStart
  /\ \A i \in 1..n : n - count < i => accepted[i].win = windowStart
  /\ \A i \in 1..n : i <= n - count => accepted[i].win + Window <= windowStart

(* A message arrives inside the window it is charged to.                   *)
ChargedInv ==
  \A i \in 1..Len(accepted) :
    /\ accepted[i].win <= accepted[i].at
    /\ accepted[i].at < accepted[i].win + Window

(* Messages a full allowance apart are charged to different windows, whose *)
(* starts are at least a Window apart.                                     *)
SpacedInv ==
  \A i \in 1..Len(accepted) :
    i + Limit <= Len(accepted)
      => accepted[i].win + Window <= accepted[i + Limit].win

IInv == TypeOK /\ WindowInv /\ ChargedInv /\ SpacedInv

(* newRateLimiter never leaves a limit that blocks every message.          *)
LEMMA LimitPositive == Limit \in Nat /\ Limit >= 1
BY LimiterAssumption DEF Limit

(* The numbers the invariants compare.                                     *)
LEMMA Numbers ==
  ASSUME TypeOK
  PROVE  /\ now \in Nat /\ windowStart \in Int /\ count \in Nat
         /\ count <= Limit /\ Len(accepted) \in Nat
         /\ \A i \in 1..Len(accepted) :
              accepted[i].at \in Nat /\ accepted[i].win \in Nat
<1>1. accepted \in Seq(Message) /\ Len(accepted) \in Nat
  BY DEF TypeOK, Message
<1>2. \A i \in 1..Len(accepted) : accepted[i] \in Message
  BY <1>1
<1> QED
  BY <1>1, <1>2, LimitPositive DEF TypeOK, ZeroTime, Message

(* The limiter's fields and histories keep their types.                    *)
LEMMA TypeStep == TypeOK /\ [Next]_vars => TypeOK'
<1> SUFFICES ASSUME TypeOK, [Next]_vars PROVE TypeOK'
  OBVIOUS
<1> USE LimiterAssumption, LimitPositive DEF TypeOK, ZeroTime
<1>1. CASE Accept
  <2>1. OpenWindow \in Nat /\ CountInWindow \in Nat
    BY DEF OpenWindow, CountInWindow, Expired
  <2>2. [at |-> now, win |-> OpenWindow] \in [at : Nat, win : Nat]
    BY <2>1
  <2>3. accepted' \in Seq([at : Nat, win : Nat])
    BY <1>1, <2>2 DEF Accept
  <2> QED
    BY <1>1, <2>1, <2>3 DEF Accept
<1>2. CASE Reject
  BY <1>2 DEF Reject, OpenWindow, CountInWindow, Expired
<1>3. CASE Tick
  BY <1>3 DEF Tick
<1>4. CASE UNCHANGED vars
  BY <1>4 DEF vars
<1> QED
  BY <1>1, <1>2, <1>3, <1>4 DEF Next

(* Allow keeps the window and its counter in step with what was allowed.   *)
LEMMA WindowStep ==
  IInv /\ [Next]_vars => WindowInv' /\ ChargedInv' /\ SpacedInv'
<1> SUFFICES ASSUME IInv, [Next]_vars
             PROVE WindowInv' /\ ChargedInv' /\ SpacedInv'
  OBVIOUS
<1> USE LimiterAssumption, LimitPositive
<1> DEFINE n == Len(accepted)
<1>0. /\ now \in Nat /\ windowStart \in Int /\ count \in Nat
      /\ count <= Limit /\ n \in Nat
      /\ \A i \in 1..n : accepted[i].at \in Nat /\ accepted[i].win \in Nat
  BY Numbers DEF IInv
<1>a. WindowInv /\ ChargedInv /\ SpacedInv
  BY DEF IInv
<1>1. CASE Accept
  <2>1. /\ OpenWindow \in Int /\ CountInWindow \in Nat
        /\ OpenWindow <= now /\ now < OpenWindow + Window
        /\ OpenWindow # ZeroTime
    BY <1>0, <1>a DEF OpenWindow, CountInWindow, Expired, WindowInv, ZeroTime
  <2>2. /\ windowStart' = OpenWindow
        /\ count' = CountInWindow + 1
        /\ now' = now
    BY <1>1 DEF Accept
  <2>3. /\ Len(accepted') = n + 1
        /\ accepted'[n + 1] = [at |-> now, win |-> OpenWindow]
        /\ \A i \in 1..n : accepted'[i] = accepted[i]
    <3> DEFINE new == [at |-> now, win |-> OpenWindow]
    <3>1. accepted \in Seq(Message) /\ new \in Message
      BY DEF Message, IInv, TypeOK, OpenWindow, Expired
    <3>2. accepted' = Append(accepted, new)
      BY <1>1 DEF Accept
    <3> HIDE DEF new
    <3>3. /\ Len(accepted') = n + 1
          /\ accepted'[n + 1] = new
          /\ \A i \in 1..n : accepted'[i] = accepted[i]
      BY <3>1, <3>2, AppendProperties
    <3> QED
      BY <3>3 DEF new
  <2> HIDE DEF n
  <2>4. \A i \in 1..(n + 1) : i \in 1..n \/ i = n + 1
    BY <1>0
  <2>5. ChargedInv'
    <3>1. SUFFICES ASSUME NEW i \in 1..(n + 1)
                   PROVE  /\ accepted'[i].win <= accepted'[i].at
                          /\ accepted'[i].at < accepted'[i].win + Window
      BY <2>3 DEF ChargedInv
    <3>2. CASE i \in 1..n
      BY <1>a, <2>3, <3>2 DEF ChargedInv, n
    <3>3. CASE i = n + 1
      BY <2>1, <2>3, <3>3
    <3> QED
      BY <2>4, <3>2, <3>3
  <2>6. WindowInv'
    <3>1. \A i \in 1..n : /\ accepted[i].win <= OpenWindow
                          /\ ~Expired \/ accepted[i].win + Window <= OpenWindow
      BY <1>0, <1>a DEF WindowInv, OpenWindow, Expired, n, ZeroTime
    <3>2. CountInWindow <= n
      BY <1>0, <1>a DEF WindowInv, CountInWindow, n
    <3>3. ASSUME NEW i \in 1..(n + 1), n + 1 - count' < i
          PROVE  accepted'[i].win = OpenWindow
      <4>1. CASE i \in 1..n
        <5>1. ~Expired /\ n - count < i
          BY <1>0, <2>2, <3>3, <4>1 DEF CountInWindow
        <5> QED
          BY <1>a, <2>3, <4>1, <5>1 DEF WindowInv, OpenWindow, n
      <4>2. CASE i = n + 1
        BY <2>3, <4>2
      <4> QED
        BY <2>4, <4>1, <4>2
    <3>4. ASSUME NEW i \in 1..(n + 1), i <= n + 1 - count'
          PROVE  accepted'[i].win + Window <= OpenWindow
      <4>1. i \in 1..n /\ i <= n - CountInWindow
        BY <1>0, <2>1, <2>2, <3>4
      <4>2. CASE Expired
        BY <2>3, <3>1, <4>1, <4>2
      <4>3. CASE ~Expired
        BY <1>a, <2>3, <4>1, <4>3 DEF WindowInv, OpenWindow, CountInWindow, n
      <4> QED
        BY <4>2, <4>3
    <3>5. \A i \in 1..(n + 1) : accepted'[i].win <= OpenWindow
      BY <2>1, <2>3, <2>4, <3>1
    <3>6. count' <= n + 1
      BY <1>0, <2>1, <2>2, <3>2
    <3>7. /\ windowStart' <= now' /\ count' <= Len(accepted')
          /\ windowStart' # ZeroTime
      BY <2>1, <2>2, <2>3, <3>6
    <3>8. \A i \in 1..Len(accepted') : accepted'[i].win <= windowStart'
      BY <2>2, <2>3, <3>5
    <3>9. \A i \in 1..Len(accepted') :
            Len(accepted') - count' < i => accepted'[i].win = windowStart'
      BY <1>0, <2>1, <2>2, <2>3, <3>3
    <3>10. \A i \in 1..Len(accepted') :
             i <= Len(accepted') - count'
               => accepted'[i].win + Window <= windowStart'
      BY <1>0, <2>1, <2>2, <2>3, <3>4
    <3> QED
      BY <3>7, <3>8, <3>9, <3>10 DEF WindowInv, ZeroTime
  <2>7. SpacedInv'
    <3>1. SUFFICES ASSUME NEW i \in 1..(n + 1), i + Limit <= n + 1
                   PROVE  accepted'[i].win + Window <= accepted'[i + Limit].win
      BY <2>3 DEF SpacedInv
    <3>2. i \in 1..n
      BY <1>0, <3>1
    <3>3. CASE i + Limit <= n
      <4>1. i + Limit \in 1..n
        BY <1>0, <3>2, <3>3
      <4> QED
        BY <1>a, <2>3, <3>2, <3>3, <4>1 DEF SpacedInv, n
    <3>4. CASE i + Limit = n + 1
      <4>1. CASE Expired
        <5>1. accepted[i].win + Window <= OpenWindow
          BY <1>0, <1>a, <3>2, <4>1 DEF WindowInv, Expired, OpenWindow, n, ZeroTime
        <5> QED
          BY <2>3, <3>2, <3>4, <5>1
      <4>2. CASE ~Expired
        <5>1. count < Limit
          BY <1>1, <4>2 DEF Accept, CountInWindow
        <5>2. i <= n - count
          BY <1>0, <3>2, <3>4, <5>1
        <5> QED
          BY <1>a, <2>3, <3>2, <3>4, <4>2, <5>2 DEF WindowInv, OpenWindow, n
      <4> QED
        BY <4>1, <4>2
    <3> QED
      BY <1>0, <3>1, <3>3, <3>4
  <2> QED
    BY <2>5, <2>6, <2>7
<1>2. CASE Reject
  <2>1. ~Expired
    BY <1>2 DEF Reject, CountInWindow
  <2>2. UNCHANGED <<now, windowStart, count, accepted>>
    BY <1>2, <2>1 DEF Reject, OpenWindow, CountInWindow
  <2> QED
    BY <1>a, <2>2 DEF WindowInv, ChargedInv, SpacedInv
<1>3. CASE Tick
  BY <1>0, <1>a, <1>3 DEF Tick, WindowInv, ChargedInv, SpacedInv
<1>4. CASE UNCHANGED vars
  BY <1>a, <1>4 DEF vars, WindowInv, ChargedInv, SpacedInv
<1> QED
  BY <1>1, <1>2, <1>3, <1>4 DEF Next

(* The inductive invariant holds in every reachable state of the limiter.  *)
THEOREM InductiveInvariant == Spec => []IInv
<1>1. Init => IInv
  BY LimiterAssumption, LimitPositive
  DEF Init, IInv, TypeOK, WindowInv, ChargedInv, SpacedInv, ZeroTime
<1>2. IInv /\ [Next]_vars => IInv'
  BY TypeStep, WindowStep DEF IInv
<1> QED
  BY <1>1, <1>2, PTL DEF Spec

(* Type correctness of the limiter.                                        *)
THEOREM TypeCorrect == Spec => []TypeOK
BY InductiveInvariant, PTL DEF IInv

(* A message charged two windows after another comes more than one window  *)
(* after it.                                                               *)
LEMMA TwoWindows ==
  ASSUME NEW x \in Nat, NEW y \in Nat, NEW z \in Nat,
         NEW a \in Nat, NEW b \in Nat,
         x + Window <= y, y + Window <= z, a < x + Window, z <= b
  PROVE  b - a > Window
BY LimiterAssumption

(* Whatever the limit and the window, 2 * Limit + 1 allowed messages span  *)
(* more than a window: the bound on the bursts Allow lets through.         *)
THEOREM BurstsAreBounded == Spec => []BurstBounded
<1>1. IInv => BurstBounded
  <2> SUFFICES ASSUME IInv, NEW i \in 1..Len(accepted),
                      i + 2 * Limit <= Len(accepted)
               PROVE accepted[i + 2 * Limit].at - accepted[i].at > Window
    BY DEF BurstBounded
  <2> DEFINE j == i + Limit
             k == i + 2 * Limit
  <2>1. j \in 1..Len(accepted) /\ k \in 1..Len(accepted) /\ k = j + Limit
    BY LimitPositive DEF IInv, TypeOK
  <2>2. /\ accepted[i].at \in Nat /\ accepted[k].at \in Nat
        /\ accepted[i].win \in Nat /\ accepted[j].win \in Nat
        /\ accepted[k].win \in Nat /\ Window \in Nat
    BY <2>1, Numbers, LimiterAssumption DEF IInv
  <2>3. /\ accepted[i].win + Window <= accepted[j].win
        /\ accepted[j].win + Window <= accepted[k].win
    BY <2>1 DEF IInv, SpacedInv
  <2>4. /\ accepted[i].at < accepted[i].win + Window
        /\ accepted[k].win <= accepted[k].at
    BY <2>1 DEF IInv, ChargedInv
  <2> QED
    BY <2>2, <2>3, <2>4, TwoWindows
<1> QED
  BY <1>1, InductiveInvariant, PTL

(* A client is refused only after it has used its allowance within the     *)
(* window that ends now.                                                   *)
THEOREM RefusalsAreEarned == Spec => RefusalsEarned
<1>1. IInv /\ [Next]_vars => [RefusalEarned]_vars
  <2> SUFFICES ASSUME IInv, Next PROVE RefusalEarned
    OBVIOUS
  <2> USE LimiterAssumption, LimitPositive DEF IInv
  <2>0. /\ now \in Nat /\ windowStart \in Int /\ count \in Nat
        /\ count <= Limit /\ Len(accepted) \in Nat
        /\ \A i \in 1..Len(accepted) :
             accepted[i].at \in Nat /\ accepted[i].win \in Nat
    BY Numbers
  <2>1. CASE Reject
    <3> DEFINE n == Len(accepted)
               first == n - Limit + 1
    <3>1. ~Expired /\ count = Limit
      BY <2>0, <2>1 DEF Reject, CountInWindow
    <3>2. n \in Nat /\ n >= Limit /\ first \in 1..n /\ n - count < first
      BY <2>0, <3>1 DEF WindowInv
    <3> HIDE DEF n, first
    <3>3. accepted[first].win = windowStart
      BY <3>2 DEF WindowInv, n
    <3>4. windowStart <= accepted[first].at
      BY <3>2, <3>3 DEF ChargedInv, n
    <3>5. now - windowStart < Window
      BY <2>0, <3>1 DEF Expired
    <3>6. now - accepted[first].at < Window
      BY <2>0, <3>2, <3>4, <3>5 DEF n
    <3> QED
      BY <3>2, <3>6 DEF first, n, RefusalEarned
  <2>2. CASE Accept \/ Tick
    BY <2>2 DEF Accept, Tick, RefusalEarned
  <2> QED
    BY <2>1, <2>2 DEF Next
<1> QED
  BY <1>1, InductiveInvariant, PTL DEF Spec, RefusalsEarned

-----------------------------------------------------------------------------
(* The rate over the limiter's whole life.  Counted in windows, the ones   *)
(* before the window in force took Limit messages at most, and it opened   *)
(* at least as many window lengths after the first message.                *)
RateInv ==
  /\ accepted = <<>> => windowStart = ZeroTime
  /\ accepted # <<>> =>
       \E k \in Nat :
         /\ accepted[1].at + k * Window <= windowStart
         /\ Len(accepted) - count <= k * Limit

LEMMA Multiples ==
  ASSUME NEW k \in Nat, NEW w \in Nat \ {0}
  PROVE  /\ k * w \in Nat
         /\ (k + 1) * w = k * w + w
OBVIOUS

LEMMA WindowsFit ==
  ASSUME NEW k \in Nat, NEW w \in Nat \ {0}, NEW d \in Nat, k * w <= d
  PROVE  k <= d \div w
<1> DEFINE q == d \div w
<1>1. q \in Nat /\ d < (q + 1) * w
  OBVIOUS
<1> HIDE DEF q
<1>2. ASSUME q + 1 <= k PROVE FALSE
  <2>1. (q + 1) * w <= k * w
    BY <1>1, <1>2
  <2> QED
    BY <1>1, <2>1
<1> QED
  BY <1>1, <1>2 DEF q

LEMMA RateStep == IInv /\ RateInv /\ [Next]_vars => RateInv'
<1> SUFFICES ASSUME IInv, RateInv, [Next]_vars PROVE RateInv'
  OBVIOUS
<1> USE LimiterAssumption, LimitPositive
<1> DEFINE n == Len(accepted)
<1>0. /\ now \in Nat /\ windowStart \in Int /\ count \in Nat
      /\ count <= Limit /\ n \in Nat
      /\ \A i \in 1..n : accepted[i].at \in Nat /\ accepted[i].win \in Nat
      /\ accepted \in Seq(Message)
  BY Numbers DEF IInv, TypeOK, Message
<1>1. CASE Accept
  <2>1. /\ OpenWindow \in Nat /\ CountInWindow \in Nat
        /\ windowStart' = OpenWindow /\ count' = CountInWindow + 1
    BY <1>0, <1>1
    DEF Accept, OpenWindow, CountInWindow, Expired, IInv, TypeOK, ZeroTime
  <2>2. /\ Len(accepted') = n + 1
        /\ accepted'[n + 1] = [at |-> now, win |-> OpenWindow]
        /\ \A i \in 1..n : accepted'[i] = accepted[i]
    <3> DEFINE new == [at |-> now, win |-> OpenWindow]
    <3>1. new \in Message /\ accepted' = Append(accepted, new)
      BY <1>0, <1>1, <2>1 DEF Accept, Message
    <3> HIDE DEF new
    <3>2. /\ Len(accepted') = n + 1
          /\ accepted'[n + 1] = new
          /\ \A i \in 1..n : accepted'[i] = accepted[i]
      BY <1>0, <3>1, AppendProperties
    <3> QED
      BY <3>2 DEF new
  <2>5. accepted' # <<>>
    BY <1>0, <2>2
  <2>3. CASE accepted = <<>>
    <3>1. n = 0 /\ count = 0
      BY <1>0, <2>3 DEF IInv, WindowInv
    <3>2. OpenWindow = now /\ CountInWindow = 0
      BY <2>3 DEF RateInv, OpenWindow, CountInWindow, Expired
    <3>3. /\ accepted'[1].at + 0 * Window <= windowStart'
          /\ Len(accepted') - count' <= 0 * Limit
      BY <1>0, <2>1, <2>2, <3>1, <3>2
    <3> QED
      BY <2>5, <3>3 DEF RateInv
  <2>4. CASE accepted # <<>>
    <3>1. PICK k \in Nat : /\ accepted[1].at + k * Window <= windowStart
                           /\ n - count <= k * Limit
      BY <2>4 DEF RateInv
    <3>2. n >= 1 /\ accepted'[1].at = accepted[1].at /\ accepted[1].at \in Nat
      BY <1>0, <2>2, <2>4
    <3>3. CASE Expired
      <4>1. /\ (k + 1) * Window = k * Window + Window /\ k * Window \in Nat
            /\ (k + 1) * Limit = k * Limit + Limit /\ k * Limit \in Nat
        BY Multiples
      <4>2. windowStart + Window <= now /\ OpenWindow = now /\ CountInWindow = 0
        <5>1. windowStart # ZeroTime
          BY <3>2 DEF IInv, WindowInv
        <5> QED
          BY <1>0, <3>3, <5>1 DEF Expired, OpenWindow, CountInWindow
      <4>3. /\ accepted'[1].at + (k + 1) * Window <= windowStart'
            /\ Len(accepted') - count' <= (k + 1) * Limit
        BY <1>0, <2>1, <2>2, <3>1, <3>2, <4>1, <4>2
      <4> DEFINE m == k + 1
      <4>4. m \in Nat
        OBVIOUS
      <4>5. /\ accepted'[1].at + m * Window <= windowStart'
            /\ Len(accepted') - count' <= m * Limit
        BY <4>3
      <4> HIDE DEF m
      <4> QED
        BY <2>5, <4>4, <4>5 DEF RateInv
    <3>4. CASE ~Expired
      <4>1. /\ accepted'[1].at + k * Window <= windowStart'
            /\ Len(accepted') - count' <= k * Limit
        BY <1>0, <2>1, <2>2, <3>1, <3>2, <3>4 DEF OpenWindow, CountInWindow
      <4> QED
        BY <2>5, <4>1 DEF RateInv
    <3> QED
      BY <3>3, <3>4
  <2> QED
    BY <2>3, <2>4
<1>2. CASE Reject
  <2>1. ~Expired
    BY <1>2 DEF Reject, CountInWindow
  <2>2. UNCHANGED <<windowStart, count, accepted>>
    BY <1>2, <2>1 DEF Reject, OpenWindow, CountInWindow
  <2> QED
    BY <2>2 DEF RateInv
<1>3. CASE Tick \/ UNCHANGED vars
  BY <1>3 DEF Tick, vars, RateInv
<1> QED
  BY <1>1, <1>2, <1>3 DEF Next

(* Over its whole life the limiter allows at most Limit messages for each  *)
(* Window begun since the first one.                                       *)
THEOREM RateIsKept == Spec => []LongRunRate
<1>1. Init => RateInv
  BY DEF Init, RateInv
<1>2. IInv /\ RateInv => LongRunRate
  <2> SUFFICES ASSUME IInv, RateInv, accepted # <<>>
               PROVE  Len(accepted)
                        <= Limit * (((now - accepted[1].at) \div Window) + 1)
    BY DEF LongRunRate
  <2> DEFINE n == Len(accepted)
             d == now - accepted[1].at
             q == d \div Window
  <2> USE LimiterAssumption, LimitPositive
  <2>1. PICK k \in Nat : /\ accepted[1].at + k * Window <= windowStart
                         /\ n - count <= k * Limit
    BY DEF RateInv
  <2>2. /\ now \in Nat /\ windowStart \in Int /\ windowStart <= now
        /\ count \in Nat /\ count <= Limit /\ n \in Nat
        /\ accepted[1].at \in Nat
    BY Numbers DEF IInv, TypeOK, WindowInv
  <2>3. /\ k * Window \in Nat /\ k * Limit \in Nat
        /\ (k + 1) * Limit = k * Limit + Limit
    BY Multiples
  <2>4. d \in Nat /\ k * Window <= d
    BY <2>1, <2>2, <2>3
  <2> HIDE DEF d
  <2>5. k <= q /\ q \in Nat
    BY <2>4, WindowsFit
  <2> HIDE DEF q, n
  <2>6. (k + 1) * Limit <= Limit * (q + 1)
    BY <2>5
  <2>7. n <= (k + 1) * Limit
    BY <2>1, <2>2, <2>3
  <2>8. n <= Limit * (q + 1)
    BY <2>2, <2>3, <2>5, <2>6, <2>7
  <2> QED
    BY <2>8 DEF n, q, d
<1> QED
  BY <1>1, <1>2, RateStep, InductiveInvariant, PTL DEF Spec
=============================================================================
