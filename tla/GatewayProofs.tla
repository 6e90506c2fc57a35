---------------------------- MODULE GatewayProofs ----------------------------
(***************************************************************************)
(* Proofs about Gateway: it implements the registry, so that the theorems  *)
(* of SessionManagerProofs hold of it, and what /metrics shows is sound,   *)
(* for any finite set of sessions, any players and any bounds.             *)
(***************************************************************************)
EXTENDS Gateway, SessionManagerProofs, SequenceTheorems

(* Every step of the process is a step of the registry or leaves it alone. *)
THEOREM GatewayImplementsRegistry == GatewaySpec => Spec
<1>1. GatewayInit => Init
  BY DEF GatewayInit
<1>2. [GatewayNext]_gatewayVars => [Next]_vars
  <2> SUFFICES ASSUME [GatewayNext]_gatewayVars PROVE Next \/ UNCHANGED vars
    OBVIOUS
  <2>1. ASSUME NEW s \in Session, Register(s) \/ CountIn(s) \/ CountOut(s) \/ Leaves(s)
        PROVE Next
    BY <2>1 DEF Register, CountIn, CountOut, Leaves, Next
  <2>2. ASSUME NEW s \in Session, NEW p \in Player, Binds(s, p) PROVE Next
    BY <2>2 DEF Binds, Next
  <2>3. ASSUME NEW s \in Session, Accept(s) \/ Upgrade(s) \/ StartsPoller(s)
        PROVE UNCHANGED vars
    BY <2>3 DEF Accept, Upgrade, StartsPoller
  <2>4. ASSUME NEW g \in Goroutine,
               \/ TakeUp(g) \/ \E c \in Counter : Counts(g, c)
               \/ \E k \in {"found", "error", "other"} : Tells(g, k) \/ TellFails(g, k)
        PROVE UNCHANGED vars
    BY <2>4 DEF TakeUp, Counts, Tells, TellFails
  <2>5. CASE AskMetrics \/ Load \/ AnswerMetrics \/ Main
    BY <2>5 DEF AskMetrics, Load, AnswerMetrics, Main, ListenFails, Signal,
                Drained, GraceEnds, Ends
  <2>6. CASE UNCHANGED gatewayVars
    BY <2>6 DEF gatewayVars
  <2> QED
    BY <2>1, <2>2, <2>3, <2>4, <2>5, <2>6 DEF GatewayNext
<1> QED
  BY <1>1, <1>2, PTL DEF GatewaySpec, Spec

(* So the index, its one leak and the gauge are in the process, with its   *)
(* upgrades, ends and counters, as they are in the registry alone          *)
(* (SessionManager and Metrics.OpenSession, as server.go calls them).      *)
THEOREM RegistryHoldsInGateway ==
  GatewaySpec => [](TypeOK /\ NewestBinderKept /\ OnlyReauthLingers /\ GaugeFollowsRegistry)
BY GatewayImplementsRegistry, TypeCorrect, NewestStaysIndexed, OnlyReauthLeaks,
   GaugeIsRegistry, PTL

-----------------------------------------------------------------------------
(* What goroutines have to do *)

(* What must come just before: a counter before what is told of it, and a  *)
(* request before its failure.                                             *)
Before == [found |-> "match_found", error |-> "errors", core_errors |-> "core_requests"]

Dependent == DOMAIN Before

Shaped(t) ==
  /\ t \in Seq(Step)
  /\ \A i \in 1..Len(t) :
       /\ t[i] = "leave" => i = Len(t)
       /\ t[i] = "connections" => Len(t) = 1
  /\ \A i \in 1..Len(t) - 1 :
       /\ t[i + 1] \in Dependent => t[i] = Before[t[i + 1]]
       /\ t[i] = "error" => t[i + 1] = "leave"

(* What may follow anything, and what may also be followed by anything.    *)
Fresh(t) ==
  Shaped(t) /\ \A i \in 1..Len(t) :
    /\ t[i] # "connections"
    /\ i = 1 => t[i] \notin Dependent

Open(t) == Fresh(t) /\ \A i \in 1..Len(t) : t[i] \notin {"error", "leave"}

LEMMA Joined ==
  ASSUME NEW a, NEW b, Open(a), Fresh(b)
  PROVE  Fresh(a \o b) /\ (Open(b) => Open(a \o b))
<1> DEFINE c == a \o b
<1>1. /\ a \in Seq(Step) /\ b \in Seq(Step) /\ c \in Seq(Step)
      /\ Len(a) \in Nat /\ Len(b) \in Nat /\ Len(c) = Len(a) + Len(b)
      /\ \A i \in 1..Len(c) : c[i] = IF i <= Len(a) THEN a[i] ELSE b[i - Len(a)]
  BY ConcatProperties, LenProperties DEF Open, Fresh, Shaped
<1> HIDE DEF c
<1>2. \A i \in 1..Len(c) :
        /\ c[i] = "leave" => i = Len(c)
        /\ c[i] # "connections"
        /\ i = 1 => c[i] \notin Dependent
  <2> SUFFICES ASSUME NEW i \in 1..Len(c)
               PROVE /\ c[i] = "leave" => i = Len(c)
                     /\ c[i] # "connections"
                     /\ i = 1 => c[i] \notin Dependent
    OBVIOUS
  <2>1. CASE i <= Len(a)
    <3>1. i \in 1..Len(a) /\ c[i] = a[i]
      BY <1>1, <2>1
    <3> QED
      BY <3>1 DEF Open, Fresh
  <2>2. CASE i > Len(a)
    <3>1. i - Len(a) \in 1..Len(b) /\ c[i] = b[i - Len(a)]
      BY <1>1, <2>2
    <3>2. c[i] # "connections" /\ (c[i] = "leave" => i - Len(a) = Len(b))
      BY <3>1 DEF Fresh, Shaped
    <3>3. i = 1 => c[i] \notin Dependent
      BY <1>1, <2>2, <3>1 DEF Fresh
    <3> QED
      BY <1>1, <3>2, <3>3
  <2> QED
    BY <1>1, <2>1, <2>2
<1>3. ASSUME NEW i \in 1..Len(c) - 1
      PROVE /\ c[i + 1] \in Dependent => c[i] = Before[c[i + 1]]
            /\ c[i] = "error" => c[i + 1] = "leave"
  <2>1. CASE i + 1 <= Len(a)
    BY <1>1, <2>1 DEF Open, Fresh, Shaped
  <2>2. CASE i = Len(a)
    <3>1. i \in 1..Len(a) /\ i \in 1..Len(c) /\ i <= Len(a)
      BY <1>1, <2>2
    <3>2. i + 1 \in 1..Len(c) /\ ~(i + 1 <= Len(a)) /\ (i + 1) - Len(a) = 1
      BY <1>1, <2>2
    <3>3. 1 \in 1..Len(b)
      BY <1>1, <2>2
    <3>4. c[i] = a[i] /\ c[i + 1] = b[1]
      BY <1>1, <3>1, <3>2
    <3> QED
      BY <3>1, <3>3, <3>4 DEF Open, Fresh
  <2>3. CASE i > Len(a)
    <3>1. c[i] = b[i - Len(a)] /\ c[i + 1] = b[(i - Len(a)) + 1]
          /\ i - Len(a) \in 1..Len(b) - 1
      BY <1>1, <2>3
    <3> QED
      BY <3>1 DEF Fresh, Shaped
  <2> QED
    BY <1>1, <2>1, <2>2, <2>3
<1>4. Fresh(c)
  BY <1>1, <1>2, <1>3 DEF Fresh, Shaped
<1>5. Open(b) => Open(c)
  <2> SUFFICES ASSUME Open(b), NEW i \in 1..Len(c) PROVE c[i] \notin {"error", "leave"}
    BY <1>4 DEF Open
  <2>1. CASE i <= Len(a)
    <3>1. i \in 1..Len(a) /\ c[i] = a[i]
      BY <1>1, <2>1
    <3> QED
      BY <3>1 DEF Open
  <2>2. CASE i > Len(a)
    <3>1. i - Len(a) \in 1..Len(b) /\ c[i] = b[i - Len(a)]
      BY <1>1, <2>2
    <3> QED
      BY <3>1 DEF Open
  <2> QED
    BY <1>1, <2>1, <2>2
<1> QED
  BY <1>4, <1>5 DEF c

(* The parts of the runs. *)
LEMMA Parts ==
  /\ Open(CoreAnswered) /\ Open(CoreFailed) /\ Open(Found) /\ Fresh(Error)
  /\ \A x \in {"messages", "other", "bind", "poll", "off"} : Open(<<x>>)
  /\ Fresh(<<"leave">>)
  /\ Open(<<"bind", "other">>) /\ Open(<<"other", "poll">>)
  /\ Open(<<"other", "off">>)
  /\ Fresh(Error \o <<"leave">>)
<1> USE DEF Shaped, Fresh, Open, Dependent, Before, Step, Counter
<1>1. Open(CoreAnswered) /\ Open(CoreFailed) /\ Open(Found) /\ Fresh(Error)
  BY DEF CoreAnswered, CoreFailed, Found, Error
<1>2. \A x \in {"messages", "other", "bind", "poll", "off"} : Open(<<x>>)
  OBVIOUS
<1>3. Fresh(<<"leave">>)
  OBVIOUS
<1>4. Open(<<"bind", "other">>) /\ Open(<<"other", "poll">>) /\ Open(<<"other", "off">>)
  OBVIOUS
<1>5. Fresh(Error \o <<"leave">>)
  <2> DEFINE e == Error \o <<"leave">>
  <2>1. Error \in Seq(Step) /\ Len(Error) = 2 /\ Error[1] = "errors" /\ Error[2] = "error"
    BY DEF Error
  <2>2. <<"leave">> \in Seq(Step) /\ Len(<<"leave">>) = 1 /\ <<"leave">>[1] = "leave"
    OBVIOUS
  <2>3. /\ e \in Seq(Step) /\ Len(e) = Len(Error) + Len(<<"leave">>)
        /\ \A i \in 1..Len(Error) + Len(<<"leave">>) :
             e[i] = IF i <= Len(Error) THEN Error[i] ELSE <<"leave">>[i - Len(Error)]
    BY <2>1, <2>2, ConcatProperties
  <2>4. Len(e) = 3 /\ e[1] = "errors" /\ e[2] = "error" /\ e[3] = "leave"
    BY <2>1, <2>2, <2>3
  <2> HIDE DEF e
  <2>5. /\ \A i \in 1..Len(e) : i \in {1, 2, 3}
        /\ \A i \in 1..Len(e) - 1 : i \in {1, 2}
    BY <2>4
  <2>6. Shaped(e)
    BY <2>3, <2>4, <2>5
  <2>7. Fresh(e)
    BY <2>4, <2>5, <2>6
  <2> QED
    BY <2>7 DEF e
<1> QED
  BY <1>1, <1>2, <1>3, <1>4, <1>5

(* Whatever is taken up is well shaped. *)
LEMMA RunsFresh == \A r \in Role : \A run \in Run[r] : Fresh(run)
<1> USE Parts, Joined
<1>0. \A x : Open(x) => Fresh(x)
  BY DEF Open
<1>1. \A push \in PushMatch : Open(push) /\ Open(CoreAnswered \o push)
  <2>1. Open(CoreAnswered \o Found)
    BY <1>0
  <2>2. Open(CoreAnswered \o (CoreAnswered \o Found))
    BY <1>0, <2>1
  <2> QED
    BY <2>1, <2>2 DEF PushMatch
<1>2. /\ Fresh(CoreFailed \o Error) /\ Open(CoreAnswered \o CoreFailed)
      /\ Fresh(CoreAnswered \o CoreFailed \o Error)
  <2>1. Fresh(CoreFailed \o Error)
    OBVIOUS
  <2>2. Open(CoreAnswered \o CoreFailed)
    BY DEF Open
  <2>3. Fresh(CoreAnswered \o CoreFailed \o Error)
    BY <2>2
  <2> QED
    BY <2>1, <2>2, <2>3
<1>3. \A run \in Message : Fresh(run)
  <2>1. \A x : Fresh(x) => Fresh(<<"messages">> \o x)
    <3>1. Open(<<"messages">>)
      OBVIOUS
    <3> QED
      BY <3>1
  <2>2. /\ Fresh(<<"other">>) /\ Fresh(<<"bind", "other">>) /\ Fresh(Error)
        /\ Fresh(CoreAnswered \o <<"other">>)
        /\ Fresh(CoreAnswered \o <<"other", "poll">>)
    <3>1. Fresh(<<"other">>) /\ Fresh(<<"bind", "other">>) /\ Fresh(<<"other", "poll">>)
      BY DEF Open
    <3> QED
      BY <3>1
  <2>3. \A push \in PushMatch : Fresh(CoreAnswered \o push)
    BY <1>1 DEF Open
  <2> QED
    BY <1>2, <2>1, <2>2, <2>3 DEF Message
<1>4. \A run \in Leave : Fresh(run)
  BY DEF Leave
<1>5. \A run \in Poll : Fresh(run)
  <2>1. Open(<<"off">>) /\ Open(<<"other", "off">>) /\ Open(CoreAnswered)
    OBVIOUS
  <2>2. /\ Fresh(<<"off">>) /\ Fresh(<<"other", "off">>) /\ Fresh(CoreAnswered)
        /\ Fresh(CoreAnswered \o <<"other", "off">>)
        /\ Fresh(CoreAnswered \o CoreFailed \o <<"off">>)
    <3>1. Fresh(<<"off">>) /\ Fresh(<<"other", "off">>) /\ Fresh(CoreAnswered)
      BY <2>1 DEF Open
    <3> QED
      BY <1>2, <2>1, <3>1
  <2>3. \A push \in PushMatch : Fresh(CoreAnswered \o push \o <<"off">>)
    BY <1>1, <2>2
  <2> QED
    BY <1>2, <2>2, <2>3 DEF Poll
<1> QED
  BY <1>3, <1>4, <1>5 DEF Run, Role

-----------------------------------------------------------------------------
(* Types and shapes *)

LEMMA ShapedTail ==
  ASSUME NEW t, Shaped(t), t # <<>>
  PROVE  /\ Shaped(Tail(t)) /\ Head(t) = t[1]
         /\ Tail(t) # <<>> => Len(t) > 1 /\ Tail(t)[1] = t[2]
         /\ Tail(t) # <<>> => t[1] # "connections" /\ Tail(t)[1] # "connections"
         /\ t[1] = "leave" => Tail(t) = <<>>
<1> DEFINE u == Tail(t)
<1>1. /\ t \in Seq(Step) /\ u \in Seq(Step) /\ Len(t) \in Nat \ {0}
      /\ Len(u) = Len(t) - 1 /\ \A i \in 1..Len(u) : u[i] = t[i + 1]
  BY HeadTailProperties, EmptySeq DEF Shaped
<1>2. Head(t) = t[1]
  BY <1>1
<1> HIDE DEF u
<1>3. ASSUME NEW i \in 1..Len(u)
      PROVE  u[i] # "connections" /\ (u[i] = "leave" => i = Len(u)) /\ t[1] # "connections"
                /\ t[1] # "leave"
  <2>1. i + 1 \in 1..Len(t) /\ u[i] = t[i + 1] /\ Len(t) # 1 /\ 1 \in 1..Len(t)
    BY <1>1
  <2> QED
    BY <1>1, <2>1 DEF Shaped
<1>4. ASSUME NEW i \in 1..Len(u) - 1
      PROVE  /\ u[i + 1] \in Dependent => u[i] = Before[u[i + 1]]
             /\ u[i] = "error" => u[i + 1] = "leave"
  <2>1. i + 1 \in 1..Len(t) - 1 /\ u[i] = t[i + 1] /\ u[i + 1] = t[(i + 1) + 1]
    BY <1>1
  <2> QED
    BY <2>1 DEF Shaped
<1>5. Shaped(u)
  BY <1>1, <1>3, <1>4 DEF Shaped
<1>6. u # <<>> => Len(u) > 0 /\ 1 \in 1..Len(u)
  BY <1>1, EmptySeq
<1>7. u # <<>> => Len(t) > 1 /\ u[1] = t[2]
  BY <1>1, <1>6
<1> QED
  BY <1>2, <1>3, <1>5, <1>6, <1>7 DEF u

LEMMA Small == Shaped(<<>>) /\ Shaped(<<"off">>) /\ Shaped(<<"connections">>) /\ Shaped(Error)
<1>1. Shaped(<<>>)
  BY DEF Shaped
<1>2. Shaped(<<"off">>) /\ Shaped(Error)
  BY Parts DEF Open, Fresh
<1>3. Shaped(<<"connections">>)
  BY DEF Shaped, Step, Counter, Dependent, Before
<1> QED
  BY <1>1, <1>2, <1>3

(* A shaped list has the part of the type that is about lists.             *)
LEMMA ShapedTyped ==
  ASSUME NEW t, Shaped(t)
  PROVE  /\ t \in Seq(Step)
         /\ \A i \in 1..Len(t) - 1 : t[i] = "error" => t[i + 1] = "leave"
BY DEF Shaped

(* What a step makes of the lists, said once for all steps.                *)
Lists ==
  /\ todo \in [Goroutine -> Seq(Step)]
  /\ \A g \in Goroutine : Shaped(todo[g])
  /\ \A s \in Session :
       /\ at[s] # "loop" => todo[<<s, "reader">>] = <<>>
       /\ todo[<<s, "poller">>] # <<>> => todo[<<s, "poller">>][1] # "connections"

LEMMA ListsMove ==
  ASSUME Lists, NEW g \in Goroutine, NEW t, todo' = [todo EXCEPT ![g] = t],
         Shaped(t), UNCHANGED at,
         g[2] = "reader" => at[g[1]] = "loop",
         g[2] = "poller" /\ t # <<>> => t[1] # "connections"
  PROVE  Lists'
<1>1. t \in Seq(Step)
  BY ShapedTyped
<1>2. todo' \in [Goroutine -> Seq(Step)] /\ \A h \in Goroutine : Shaped(todo'[h])
  BY <1>1 DEF Lists
<1>3. ASSUME NEW s \in Session
      PROVE  /\ at'[s] # "loop" => todo'[<<s, "reader">>] = <<>>
             /\ todo'[<<s, "poller">>] # <<>> => todo'[<<s, "poller">>][1] # "connections"
  <2>1. <<s, "reader">> \in Goroutine /\ <<s, "poller">> \in Goroutine
    BY DEF Goroutine, Role
  <2> QED
    BY <2>1 DEF Lists
<1> QED
  BY <1>2, <1>3 DEF Lists

LEMMA ListsPop ==
  ASSUME Lists, NEW g \in Goroutine, todo[g] # <<>>, todo' = Rest(g), UNCHANGED at
  PROVE  Lists'
<1>1. Shaped(Tail(todo[g]))
      /\ (Tail(todo[g]) # <<>> => Tail(todo[g])[1] # "connections")
  BY ShapedTail DEF Lists
<1>2. g = <<g[1], g[2]>> /\ g[1] \in Session /\ g[2] \in Role
  BY DEF Goroutine
<1>3. g[2] = "reader" => at[g[1]] = "loop"
  BY <1>2 DEF Lists
<1> QED
  BY <1>1, <1>3, ListsMove DEF Rest

LEMMA GoroutineFinite == IsFiniteSet(Goroutine)
<1>1. IsFiniteSet({}) /\ Role = ({} \cup {"reader"}) \cup {"poller"}
  BY FS_EmptySet DEF Role
<1>2. IsFiniteSet({} \cup {"reader"})
  BY <1>1, FS_AddElement
<1>3. IsFiniteSet(Role)
  BY <1>1, <1>2, FS_AddElement
<1> QED
  BY <1>3, ManagerAssumption, FS_Product DEF Goroutine

LEMMA ListsKept == Lists /\ ShapeInv /\ [GatewayNext]_gatewayVars => Lists'
<1> SUFFICES ASSUME Lists, ShapeInv, [GatewayNext]_gatewayVars PROVE Lists'
  OBVIOUS
<1> USE DEF vars, talk, asked
<1>0. /\ \A s \in Session : <<s, "reader">> \in Goroutine /\ <<s, "poller">> \in Goroutine
      /\ at \in [Session -> Place]
  BY DEF Goroutine, Role, ShapeInv
<1>1. ASSUME NEW s \in Session, Accept(s) \/ Upgrade(s) \/ Register(s) \/ CountOut(s)
      PROVE  Lists'
  BY <1>0, <1>1 DEF Lists, Accept, Upgrade, Register, CountOut, Add, CloseSession
<1>2. ASSUME NEW s \in Session, CountIn(s) PROVE Lists'
  <2>1. /\ at' = [at EXCEPT ![s] = "loop"]
        /\ todo' = [todo EXCEPT ![<<s, "reader">>] = <<"connections">>]
    BY <1>2 DEF CountIn, OpenSession
  <2>2. Shaped(<<"connections">>) /\ <<"connections">> \in Seq(Step)
    BY Small, ShapedTyped
  <2>3. todo' \in [Goroutine -> Seq(Step)] /\ \A g \in Goroutine : Shaped(todo'[g])
    BY <1>0, <2>1, <2>2 DEF Lists
  <2>4. ASSUME NEW r \in Session
        PROVE  /\ at'[r] # "loop" => todo'[<<r, "reader">>] = <<>>
               /\ todo'[<<r, "poller">>] # <<>> => todo'[<<r, "poller">>][1] # "connections"
    BY <1>0, <2>1 DEF Lists
  <2> QED
    BY <2>3, <2>4 DEF Lists
<1>3. ASSUME NEW g \in Goroutine, TakeUp(g) PROVE Lists'
  <2>1. PICK run \in Run[g[2]] : todo' = [todo EXCEPT ![g] = run]
    BY <1>3 DEF TakeUp
  <2>2. Fresh(run)
    BY RunsFresh DEF Goroutine
  <2>3. Shaped(run) /\ (run # <<>> => run[1] # "connections")
    <3>1. run \in Seq(Step) /\ (run # <<>> => 1 \in 1..Len(run))
      BY <2>2, EmptySeq DEF Fresh, Shaped
    <3> QED
      BY <2>2, <3>1 DEF Fresh
  <2> QED
    BY <1>3, <2>1, <2>3, ListsMove DEF TakeUp
<1>4. ASSUME NEW g \in Goroutine, NEW x, Counts(g, x) \/ Tells(g, x) PROVE Lists'
  BY <1>4, ListsPop DEF Counts, Tells, Does
<1>5. ASSUME NEW g \in Goroutine, NEW x, TellFails(g, x) PROVE Lists'
  <2>1. CASE g[2] = "reader" /\ x # "error"
    <3>1. todo[g] # <<>> /\ UNCHANGED at /\ todo' = [todo EXCEPT ![g] = Error]
      BY <1>5, <2>1 DEF TellFails, Does
    <3>2. g = <<g[1], g[2]>> /\ g[1] \in Session
      BY DEF Goroutine
    <3>3. at[g[1]] = "loop"
      BY <2>1, <3>1, <3>2 DEF Lists
    <3> QED
      BY <2>1, <3>1, <3>3, Small, ListsMove
  <2>2. CASE ~(g[2] = "reader" /\ x # "error")
    <3>1. todo[g] # <<>> /\ UNCHANGED at /\ todo' = Rest(g)
      BY <1>5, <2>2 DEF TellFails, Does
    <3> QED
      BY <3>1, ListsPop
  <2> QED
    BY <2>1, <2>2
<1>6. ASSUME NEW s \in Session, NEW p \in Player, Binds(s, p) PROVE Lists'
  BY <1>0, <1>6, ListsPop DEF Binds, Does, BindPlayer
<1>7. ASSUME NEW s \in Session, StartsPoller(s) PROVE Lists'
  <2> DEFINE r == <<s, "reader">>
             p == <<s, "poller">>
  <2>1. /\ todo[r] # <<>> /\ UNCHANGED at
        /\ todo' = [[todo EXCEPT ![r] = Tail(todo[r])] EXCEPT ![p] = <<>>]
    BY <1>7 DEF StartsPoller, Does, Rest
  <2>2. Shaped(Tail(todo[r])) /\ Tail(todo[r]) \in Seq(Step) /\ Shaped(<<>>)
        /\ <<>> \in Seq(Step)
    BY <1>0, <2>1, ShapedTail, ShapedTyped, Small DEF Lists
  <2>3. todo' \in [Goroutine -> Seq(Step)] /\ \A g \in Goroutine : Shaped(todo'[g])
    BY <1>0, <2>1, <2>2 DEF Lists
  <2>4. ASSUME NEW q \in Session
        PROVE  /\ at'[q] # "loop" => todo'[<<q, "reader">>] = <<>>
               /\ todo'[<<q, "poller">>] # <<>> => todo'[<<q, "poller">>][1] # "connections"
    BY <1>0, <2>1 DEF Lists
  <2> QED
    BY <2>3, <2>4 DEF Lists
<1>8. ASSUME NEW s \in Session, Leaves(s) PROVE Lists'
  <2> DEFINE r == <<s, "reader">>
  <2>1. /\ todo[r] # <<>> /\ Head(todo[r]) = "leave"
        /\ at' = [at EXCEPT ![s] = "removed"]
        /\ todo' = [todo EXCEPT ![r] = Tail(todo[r])]
    BY <1>8 DEF Leaves, Does, Rest, Remove
  <2>2. Tail(todo[r]) = <<>> /\ Shaped(<<>>) /\ <<>> \in Seq(Step)
    BY <1>0, <2>1, ShapedTail, ShapedTyped, Small DEF Lists
  <2>3. todo' \in [Goroutine -> Seq(Step)] /\ \A g \in Goroutine : Shaped(todo'[g])
    BY <1>0, <2>1, <2>2 DEF Lists
  <2>4. ASSUME NEW q \in Session
        PROVE  /\ at'[q] # "loop" => todo'[<<q, "reader">>] = <<>>
               /\ todo'[<<q, "poller">>] # <<>> => todo'[<<q, "poller">>][1] # "connections"
    BY <1>0, <2>1, <2>2 DEF Lists
  <2> QED
    BY <2>3, <2>4 DEF Lists
<1>9. ASSUME NEW how, Ends(how) PROVE Lists'
  <2>1. todo' = [g \in Goroutine |-> <<>>] /\ Shaped(<<>>) /\ <<>> \in Seq(Step)
    BY <1>9, Small, ShapedTyped DEF Ends
  <2> QED
    BY <1>0, <2>1 DEF Lists
<1>10. CASE AskMetrics \/ Load \/ AnswerMetrics \/ Signal \/ UNCHANGED gatewayVars
  BY <1>10 DEF Lists, AskMetrics, Load, AnswerMetrics, Signal, gatewayVars
<1> QED
  BY <1>1, <1>2, <1>3, <1>4, <1>5, <1>6, <1>7, <1>8, <1>9, <1>10
     DEF GatewayNext, Main, ListenFails, Drained, GraceEnds

WorkInv == GatewayTypeOK /\ Lists

LEMMA WorkKept ==
  WorkInv /\ ShapeInv /\ active \in Nat /\ [GatewayNext]_gatewayVars => WorkInv'
<1> SUFFICES ASSUME WorkInv, ShapeInv, active \in Nat, [GatewayNext]_gatewayVars
             PROVE  GatewayTypeOK'
  BY ListsKept DEF WorkInv
<1> USE DEF vars, talk, asked
<1>1. Lists'
  BY ListsKept DEF WorkInv
<1>2. /\ todo' \in [Goroutine -> Seq(Step)]
      /\ \A s \in Session : at'[s] # "loop" => todo'[<<s, "reader">>] = <<>>
      /\ \A g \in Goroutine : \A i \in 1..Len(todo'[g]) - 1 :
           todo'[g][i] = "error" => todo'[g][i + 1] = "leave"
  BY <1>1 DEF Lists, Shaped
<1> DEFINE Data ==
      /\ server \in {"serving", "draining", "exited", "cut", "failed"}
      /\ upgrade \in [Session -> {"none", "accepted", "refused", "hijacked"}]
      /\ count \in [Counter -> Nat]
      /\ scrape \in {"none", "open", "answered", "broken"}
      /\ loaded \in 0..Len(Order) /\ sample \in [Kept -> Nat]
      /\ got \in [{"error", "found"} -> Nat] /\ shown \in [{"error", "found"} -> Nat]
      /\ \A r \in Role : runs[r] \in 0..MaxRuns[r]
<1>3. Data /\ Len(Order) = 7
  BY DEF WorkInv, GatewayTypeOK, Order
<1>4. Data'
  <2>1. ASSUME NEW s \in Session,
               \/ Accept(s) \/ Upgrade(s) \/ Register(s) \/ CountIn(s) \/ CountOut(s)
               \/ StartsPoller(s) \/ Leaves(s)
        PROVE  Data'
    BY <1>3, <2>1 DEF Accept, Upgrade, Register, CountIn, CountOut, StartsPoller, Leaves
  <2>2. ASSUME NEW s \in Session, NEW p \in Player, Binds(s, p) PROVE Data'
    BY <1>3, <2>2 DEF Binds
  <2>3. ASSUME NEW g \in Goroutine, TakeUp(g) PROVE Data'
    <3>1. /\ g[2] \in Role /\ runs[g[2]] < MaxRuns[g[2]]
          /\ runs' = [runs EXCEPT ![g[2]] = @ + 1]
          /\ UNCHANGED <<vars, server, upgrade, count, got, asked>>
      BY <2>3 DEF TakeUp, Goroutine
    <3>2. \A r \in Role : MaxRuns[r] \in Nat
      BY GatewayAssumption DEF MaxRuns, Role
    <3>3. \A r \in Role : runs'[r] \in 0..MaxRuns[r]
      <4> TAKE r \in Role
      <4>1. runs'[r] = runs[r] \/ (r = g[2] /\ runs'[r] = runs[r] + 1)
        BY <1>3, <3>1
      <4> QED
        BY <1>3, <3>1, <3>2, <4>1
    <3> QED
      BY <1>3, <3>1, <3>3
  <2>4. ASSUME NEW g \in Goroutine, NEW c \in Counter, Counts(g, c) PROVE Data'
    BY <1>3, <2>4 DEF Counts
  <2>5. ASSUME NEW g \in Goroutine, NEW k, Tells(g, k) PROVE Data'
    BY <1>3, <2>5 DEF Tells
  <2>6. ASSUME NEW g \in Goroutine, NEW k, TellFails(g, k) PROVE Data'
    BY <1>3, <2>6 DEF TellFails
  <2>7. CASE AskMetrics \/ AnswerMetrics \/ Signal \/ UNCHANGED gatewayVars
    BY <1>3, <2>7 DEF AskMetrics, AnswerMetrics, Signal, gatewayVars
  <2>8. CASE Load
    <3>1. \A c \in Kept : c # "active" => c \in Counter
      BY DEF Kept, Counter
    <3>2. \A c \in Kept : Value(c) \in Nat
      BY <1>3, <3>1 DEF Value
    <3> QED
      BY <1>3, <2>8, <3>2 DEF Load
  <2>9. ASSUME NEW how \in {"exited", "cut", "failed"}, Ends(how) PROVE Data'
    BY <1>3, <2>9 DEF Ends
  <2> QED
    BY <2>1, <2>2, <2>3, <2>4, <2>5, <2>6, <2>7, <2>8, <2>9
       DEF GatewayNext, Main, ListenFails, Drained, GraceEnds
<1> QED
  BY <1>2, <1>4 DEF GatewayTypeOK

(* The types of the process and of what its goroutines still do.           *)
THEOREM GatewayTypeCorrect == GatewaySpec => []WorkInv
<1>1. GatewayInit => WorkInv
  <2> SUFFICES ASSUME GatewayInit PROVE WorkInv
    OBVIOUS
  <2> USE DEF GatewayInit
  <2>1. \A g \in Goroutine : todo[g] = <<>> \/ todo[g] = <<"off">>
    OBVIOUS
  <2>2. Shaped(<<>>) /\ Shaped(<<"off">>) /\ <<>> \in Seq(Step) /\ <<"off">> \in Seq(Step)
    BY Small, ShapedTyped
  <2>3. todo \in [Goroutine -> Seq(Step)] /\ \A g \in Goroutine : Shaped(todo[g])
    BY <2>1, <2>2
  <2>4. \A s \in Session :
          todo[<<s, "reader">>] = <<>> /\ todo[<<s, "poller">>] = <<"off">>
    BY DEF Goroutine, Role
  <2>5. Lists
    BY <2>3, <2>4 DEF Lists
  <2>6. \A r \in Role : runs[r] \in 0..MaxRuns[r]
    BY GatewayAssumption DEF Role, MaxRuns
  <2>7. \A g \in Goroutine : \A i \in 1..Len(todo[g]) - 1 :
          todo[g][i] = "error" => todo[g][i + 1] = "leave"
    BY <2>3 DEF Shaped
  <2>8. loaded \in 0..Len(Order) /\ sample \in [Kept -> Nat]
    BY DEF Order
  <2>9. GatewayTypeOK
    BY <2>3, <2>4, <2>6, <2>7, <2>8 DEF GatewayTypeOK
  <2> QED
    BY <2>5, <2>9 DEF WorkInv
<1>2. IInv => ShapeInv /\ active \in Nat
  BY AtFinite DEF IInv, CountInv
<1> QED
  BY <1>1, <1>2, WorkKept, GatewayImplementsRegistry, InductiveInvariant, PTL
     DEF GatewaySpec

-----------------------------------------------------------------------------
(* Counting *)

(* Goroutines that have done what comes before k and are about to do k.    *)
Due(k) == {g \in Goroutine : todo[g] # <<>> /\ todo[g][1] = k}

LEMMA DueFinite ==
  ASSUME NEW k
  PROVE  IsFiniteSet(Due(k)) /\ Cardinality(Due(k)) \in Nat
BY GoroutineFinite, FS_Subset, FS_CardinalityType DEF Due

(* One goroutine's list changes to one that does not begin with k.         *)
LEMMA DueLess ==
  ASSUME NEW k, Lists, NEW g \in Goroutine, NEW t, todo' = [todo EXCEPT ![g] = t],
         t # <<>> => t[1] # k
  PROVE  /\ Cardinality(Due(k)') \in Nat
         /\ Cardinality(Due(k)') <= Cardinality(Due(k))
         /\ g \in Due(k) => Cardinality(Due(k)') = Cardinality(Due(k)) - 1
<1>1. Due(k)' = Due(k) \ {g}
  BY DEF Due, Lists
<1>2. IsFiniteSet(Due(k)) /\ Cardinality(Due(k)) \in Nat
  BY DueFinite
<1>3. CASE g \in Due(k)
  <2>1. /\ IsFiniteSet(Due(k) \ {g})
        /\ Cardinality(Due(k) \ {g}) = Cardinality(Due(k)) - 1
    BY <1>2, <1>3, FS_RemoveElement
  <2>2. Cardinality(Due(k) \ {g}) \in Nat
    BY <2>1, FS_CardinalityType
  <2> QED
    BY <1>1, <1>2, <2>1, <2>2
<1>4. CASE g \notin Due(k)
  <2>1. Due(k)' = Due(k)
    BY <1>1, <1>4
  <2> QED
    BY <1>2, <1>4, <2>1
<1> QED
  BY <1>3, <1>4

(* A goroutine does the head of its list: only one that comes before k     *)
(* can make k due.                                                         *)
LEMMA DuePop ==
  ASSUME Lists, NEW k \in Dependent, NEW g \in Goroutine,
         todo[g] # <<>>, todo' = Rest(g)
  PROVE  /\ Cardinality(Due(k)') \in Nat
         /\ Cardinality(Due(k)') <= Cardinality(Due(k)) + 1
         /\ todo[g][1] # Before[k] => Cardinality(Due(k)') <= Cardinality(Due(k))
         /\ todo[g][1] = k => Cardinality(Due(k)') = Cardinality(Due(k)) - 1
<1> DEFINE t == Tail(todo[g])
<1>1. todo' = [todo EXCEPT ![g] = t] /\ Shaped(todo[g])
  BY DEF Rest, Lists
<1>2. t # <<>> => (t[1] \in Dependent => todo[g][1] = Before[t[1]])
  <2> SUFFICES ASSUME t # <<>> PROVE t[1] \in Dependent => todo[g][1] = Before[t[1]]
    OBVIOUS
  <2>1. Len(todo[g]) > 1 /\ t[1] = todo[g][2] /\ Len(todo[g]) \in Nat
    BY <1>1, ShapedTail, LenProperties DEF Shaped
  <2>2. 1 \in 1..Len(todo[g]) - 1
    BY <2>1
  <2> QED
    BY <1>1, <2>1, <2>2 DEF Shaped
<1>3. Before[k] # k
  BY DEF Dependent, Before
<1>4. IsFiniteSet(Due(k)) /\ Cardinality(Due(k)) \in Nat
  BY DueFinite
<1> HIDE DEF t
<1>5. CASE t # <<>> /\ t[1] = k
  <2>1. todo[g][1] = Before[k] /\ todo[g][1] # k
    BY <1>2, <1>3, <1>5
  <2>2. Due(k)' = Due(k) \cup {g} /\ g \notin Due(k)
    BY <1>1, <1>5, <2>1 DEF Due, Lists
  <2>3. Cardinality(Due(k)') = Cardinality(Due(k)) + 1
    BY <1>4, <2>2, FS_AddElement
  <2> QED
    BY <1>4, <2>1, <2>3
<1>6. CASE ~(t # <<>> /\ t[1] = k)
  <2>1. /\ Cardinality(Due(k)') \in Nat
        /\ Cardinality(Due(k)') <= Cardinality(Due(k))
        /\ g \in Due(k) => Cardinality(Due(k)') = Cardinality(Due(k)) - 1
    BY <1>1, <1>6, DueLess
  <2> QED
    BY <1>4, <2>1 DEF Due
<1> QED
  BY <1>5, <1>6

(* Counters are ahead of what follows them by at least what is due.        *)
Ahead ==
  /\ count["errors"] >= got["error"] + Cardinality(Due("error"))
  /\ count["match_found"] >= got["found"] + Cardinality(Due("found"))
  /\ count["core_requests"] >= count["core_errors"] + Cardinality(Due("core_errors"))

LEMMA AheadKept == WorkInv /\ (Alive => Ahead) /\ [GatewayNext]_gatewayVars => (Alive' => Ahead')
<1> SUFFICES ASSUME WorkInv, Alive => Ahead, [GatewayNext]_gatewayVars, Alive'
             PROVE  Ahead'
  OBVIOUS
<1> USE DEF vars, talk, asked
<1> DEFINE n(k) == Cardinality(Due(k))
<1>0. /\ Lists /\ count \in [Counter -> Nat] /\ got \in [{"error", "found"} -> Nat]
      /\ \A k \in Dependent : n(k) \in Nat
      /\ Dependent = {"found", "error", "core_errors"}
      /\ \A s \in Session : <<s, "reader">> \in Goroutine /\ <<s, "poller">> \in Goroutine
  BY DueFinite DEF WorkInv, GatewayTypeOK, Dependent, Before, Goroutine, Role
<1>1. CASE UNCHANGED <<todo, count, got, server>>
  BY <1>0, <1>1 DEF Ahead, Due, Alive
<1>2. ASSUME NEW g \in Goroutine, NEW t, todo' = [todo EXCEPT ![g] = t], Alive,
             t # <<>> => t[1] \notin Dependent, UNCHANGED <<count, got>>
      PROVE  Ahead'
  <2>1. \A k \in Dependent : n(k)' \in Nat /\ n(k)' <= n(k)
    BY <1>0, <1>2, DueLess
  <2> HIDE DEF n
  <2>2. count' = count /\ got' = got
    BY <1>2
  <2>3. /\ count["errors"] >= got["error"] + n("error")
        /\ count["match_found"] >= got["found"] + n("found")
        /\ count["core_requests"] >= count["core_errors"] + n("core_errors")
    BY <1>2 DEF Ahead, n
  <2>4. /\ count["errors"] \in Nat /\ count["match_found"] \in Nat
        /\ count["core_requests"] \in Nat /\ count["core_errors"] \in Nat
        /\ got["error"] \in Nat /\ got["found"] \in Nat
    BY <1>0 DEF Counter
  <2>5. /\ count["errors"] >= got["error"] + n("error")'
        /\ count["match_found"] >= got["found"] + n("found")'
        /\ count["core_requests"] >= count["core_errors"] + n("core_errors")'
    BY <1>0, <2>1, <2>3, <2>4
  <2> QED
    BY <2>2, <2>5 DEF Ahead, n
<1>3. ASSUME NEW g \in Goroutine, todo[g] # <<>>, todo' = Rest(g), Alive,
             todo[g][1] \notin {"errors", "match_found", "core_requests"},
             UNCHANGED count,
             got' = [k \in DOMAIN got |-> IF k = todo[g][1] THEN got[k] + 1 ELSE got[k]]
             \/ got' = got
      PROVE  Ahead'
  <2>1. \A k \in Dependent : n(k)' \in Nat /\ n(k)' <= n(k)
                             /\ (todo[g][1] = k => n(k)' = n(k) - 1)
    <3>1. \A k \in Dependent : todo[g][1] # Before[k]
      BY <1>3 DEF Dependent, Before
    <3> QED
      BY <1>0, <1>3, <3>1, DuePop
  <2> HIDE DEF n
  <2>2. /\ count["errors"] >= got["error"] + n("error")
        /\ count["match_found"] >= got["found"] + n("found")
        /\ count["core_requests"] >= count["core_errors"] + n("core_errors")
    BY <1>3 DEF Ahead, n
  <2>3. /\ count["errors"] \in Nat /\ count["match_found"] \in Nat
        /\ count["core_requests"] \in Nat /\ count["core_errors"] \in Nat
        /\ got["error"] \in Nat /\ got["found"] \in Nat
    BY <1>0 DEF Counter
  <2>4. /\ got'["error"] = got["error"]
           \/ (todo[g][1] = "error" /\ got'["error"] = got["error"] + 1)
        /\ got'["found"] = got["found"]
           \/ (todo[g][1] = "found" /\ got'["found"] = got["found"] + 1)
    BY <1>0, <1>3
  <2>5. /\ count["errors"] >= got'["error"] + n("error")'
        /\ count["match_found"] >= got'["found"] + n("found")'
        /\ count["core_requests"] >= count["core_errors"] + n("core_errors")'
    BY <1>0, <2>1, <2>2, <2>3, <2>4
  <2> QED
    BY <1>3, <2>5 DEF Ahead, n
<1>4. ASSUME NEW g \in Goroutine, NEW c \in Counter, Counts(g, c) PROVE Ahead'
  <2>0. /\ todo[g] # <<>> /\ todo[g][1] = c /\ todo' = Rest(g) /\ Alive
        /\ count' = [count EXCEPT ![c] = @ + 1] /\ got' = got
    <3>1. todo[g] # <<>> /\ Head(todo[g]) = c
      BY <1>4 DEF Counts, Does
    <3>2. Head(todo[g]) = todo[g][1]
      BY <1>0, <3>1, ShapedTail DEF Lists
    <3> QED
      BY <1>4, <3>1, <3>2 DEF Counts, Does
  <2>1. \A k \in Dependent :
          /\ n(k)' \in Nat /\ n(k)' <= n(k) + 1
          /\ c # Before[k] => n(k)' <= n(k)
          /\ c = k => n(k)' = n(k) - 1
    BY <1>0, <2>0, DuePop
  <2> HIDE DEF n
  <2>2. /\ count["errors"] >= got["error"] + n("error")
        /\ count["match_found"] >= got["found"] + n("found")
        /\ count["core_requests"] >= count["core_errors"] + n("core_errors")
    BY <2>0 DEF Ahead, n
  <2>3. /\ count["errors"] \in Nat /\ count["match_found"] \in Nat
        /\ count["core_requests"] \in Nat /\ count["core_errors"] \in Nat
        /\ got["error"] \in Nat /\ got["found"] \in Nat
    BY <1>0 DEF Counter
  <2>4. \A d \in Counter : count'[d] = IF d = c THEN count[d] + 1 ELSE count[d]
    BY <1>0, <2>0
  <2>5. /\ n("error")' \in Nat /\ n("error")' <= n("error") + 1
        /\ c # "errors" => n("error")' <= n("error")
        /\ n("found")' \in Nat /\ n("found")' <= n("found") + 1
        /\ c # "match_found" => n("found")' <= n("found")
        /\ n("core_errors")' \in Nat /\ n("core_errors")' <= n("core_errors") + 1
        /\ c # "core_requests" => n("core_errors")' <= n("core_errors")
        /\ c = "core_errors" => n("core_errors")' = n("core_errors") - 1
    BY <1>0, <2>1 DEF Before
  <2>6. /\ count'["errors"] >= got["error"] + n("error")'
        /\ count'["match_found"] >= got["found"] + n("found")'
        /\ count'["core_requests"] >= count'["core_errors"] + n("core_errors")'
    <3>1. /\ count'["errors"] = IF c = "errors" THEN count["errors"] + 1 ELSE count["errors"]
          /\ count'["match_found"] = IF c = "match_found" THEN count["match_found"] + 1
                                     ELSE count["match_found"]
          /\ count'["core_requests"] = IF c = "core_requests" THEN count["core_requests"] + 1
                                       ELSE count["core_requests"]
          /\ count'["core_errors"] = IF c = "core_errors" THEN count["core_errors"] + 1
                                     ELSE count["core_errors"]
      BY <2>4 DEF Counter
    <3> QED
      BY <1>0, <2>2, <2>3, <2>5, <3>1
  <2> QED
    BY <2>0, <2>6 DEF Ahead, n
<1>5. ASSUME NEW g \in Goroutine, NEW x, Does(g, x)
      PROVE  todo[g] # <<>> /\ todo[g][1] = x /\ Alive
  BY <1>0, <1>5, ShapedTail DEF Does, Lists
<1>6. ASSUME NEW g \in Goroutine, NEW x \in {"found", "error", "other"},
             Tells(g, x) \/ TellFails(g, x)
      PROVE  Ahead'
  <2>1. todo[g] # <<>> /\ todo[g][1] = x /\ Alive
    BY <1>5, <1>6 DEF Tells, TellFails
  <2>2. CASE todo' = Rest(g)
    BY <1>3, <1>6, <2>1, <2>2 DEF Tells, TellFails
  <2>3. CASE todo' = [todo EXCEPT ![g] = Error] /\ TellFails(g, x)
    <3>1. Error[1] \notin Dependent
      BY <1>0 DEF Error
    <3> QED
      BY <1>2, <2>1, <2>3, <3>1 DEF TellFails
  <2> QED
    BY <1>6, <2>2, <2>3 DEF Tells, TellFails
<1>7. ASSUME NEW s \in Session, CountIn(s) PROVE Ahead'
  <2>1. <<"connections">>[1] \notin Dependent
    BY <1>0
  <2> QED
    BY <1>0, <1>2, <1>7, <2>1 DEF CountIn
<1>8. ASSUME NEW g \in Goroutine, TakeUp(g) PROVE Ahead'
  <2>1. PICK run \in Run[g[2]] : todo' = [todo EXCEPT ![g] = run]
    BY <1>8 DEF TakeUp
  <2>2. Fresh(run)
    BY RunsFresh DEF Goroutine
  <2>3. run # <<>> => 1 \in 1..Len(run)
    BY <2>2, EmptySeq DEF Fresh, Shaped
  <2>4. run # <<>> => run[1] \notin Dependent
    BY <2>2, <2>3 DEF Fresh
  <2> QED
    BY <1>2, <1>8, <2>1, <2>4 DEF TakeUp
<1>9. ASSUME NEW s \in Session, NEW x \in {"bind", "leave"}, Does(<<s, "reader">>, x),
             todo' = Rest(<<s, "reader">>), UNCHANGED <<count, got>>
      PROVE  Ahead'
  BY <1>0, <1>3, <1>5, <1>9
<1>10. ASSUME NEW s \in Session, StartsPoller(s) PROVE Ahead'
  <2> DEFINE r == <<s, "reader">>
             p == <<s, "poller">>
             t == Tail(todo[r])
  <2>1. /\ todo[r] # <<>> /\ todo[r][1] = "poll" /\ Alive
        /\ todo' = [[todo EXCEPT ![r] = t] EXCEPT ![p] = <<>>]
        /\ count' = count /\ got' = got /\ r # p
    BY <1>0, <1>5, <1>10 DEF StartsPoller, Rest
  <2>2. t # <<>> => t[1] \notin Dependent
    <3> SUFFICES ASSUME t # <<>>, t[1] \in Dependent PROVE FALSE
      OBVIOUS
    <3>1. Shaped(todo[r])
      BY <1>0 DEF Lists
    <3>2. Len(todo[r]) > 1 /\ t[1] = todo[r][2] /\ Len(todo[r]) \in Nat
      BY <2>1, <3>1, ShapedTail, LenProperties DEF Shaped
    <3>3. 1 \in 1..Len(todo[r]) - 1
      BY <3>2
    <3>4. todo[r][1 + 1] \in Dependent => todo[r][1] = Before[todo[r][1 + 1]]
      BY <3>1, <3>3 DEF Shaped
    <3>5. todo[r][1 + 1] = t[1]
      BY <3>2
    <3> QED
      BY <2>1, <3>4, <3>5 DEF Dependent, Before
  <2> HIDE DEF t
  <2>3. \A k \in Dependent : Due(k)' \subseteq Due(k)
    BY <1>0, <2>1, <2>2 DEF Due, Lists
  <2>4. \A k \in Dependent : n(k)' \in Nat /\ n(k)' <= n(k)
    <3> TAKE k \in Dependent
    <3>1. IsFiniteSet(Due(k)')
      BY <2>3, DueFinite, FS_Subset
    <3> QED
      BY <2>3, <3>1, DueFinite, FS_Subset, FS_CardinalityType
  <2> HIDE DEF n
  <2>5. /\ count["errors"] >= got["error"] + n("error")
        /\ count["match_found"] >= got["found"] + n("found")
        /\ count["core_requests"] >= count["core_errors"] + n("core_errors")
    BY <2>1 DEF Ahead, n
  <2>6. /\ count["errors"] \in Nat /\ count["match_found"] \in Nat
        /\ count["core_requests"] \in Nat /\ count["core_errors"] \in Nat
        /\ got["error"] \in Nat /\ got["found"] \in Nat
    BY <1>0 DEF Counter
  <2>7. /\ count["errors"] >= got["error"] + n("error")'
        /\ count["match_found"] >= got["found"] + n("found")'
        /\ count["core_requests"] >= count["core_errors"] + n("core_errors")'
    BY <1>0, <2>4, <2>5, <2>6
  <2> QED
    BY <2>1, <2>7 DEF Ahead, n
<1>11. ASSUME NEW how \in {"exited", "cut", "failed"}, Ends(how) PROVE FALSE
  BY <1>11 DEF Ends, Alive
<1>12. ASSUME NEW s \in Session, Accept(s) \/ Upgrade(s) \/ Register(s) \/ CountOut(s)
       PROVE  UNCHANGED <<todo, count, got, server>>
  BY <1>12 DEF Accept, Upgrade, Register, CountOut
<1>13. CASE AskMetrics \/ Load \/ AnswerMetrics \/ UNCHANGED gatewayVars
  BY <1>1, <1>13 DEF AskMetrics, Load, AnswerMetrics, gatewayVars
<1>14. CASE Signal
  BY <1>0, <1>14 DEF Signal, Ahead, Due, Alive
<1>15. CASE Main
  BY <1>11, <1>14, <1>15 DEF Main, ListenFails, Drained, GraceEnds
<1>16. CASE \E s \in Session :
              \/ Accept(s) \/ Upgrade(s) \/ Register(s) \/ CountIn(s) \/ CountOut(s)
              \/ StartsPoller(s) \/ Leaves(s) \/ \E p \in Player : Binds(s, p)
  <2> PICK s \in Session :
              \/ Accept(s) \/ Upgrade(s) \/ Register(s) \/ CountIn(s) \/ CountOut(s)
              \/ StartsPoller(s) \/ Leaves(s) \/ \E p \in Player : Binds(s, p)
    BY <1>16
  <2>1. CASE Accept(s) \/ Upgrade(s) \/ Register(s) \/ CountOut(s)
    BY <1>1, <1>12, <2>1
  <2>2. CASE CountIn(s) \/ StartsPoller(s)
    BY <1>7, <1>10, <2>2
  <2>3. CASE Leaves(s) \/ \E p \in Player : Binds(s, p)
    BY <1>9, <2>3 DEF Leaves, Binds
  <2> QED
    BY <2>1, <2>2, <2>3
<1>17. CASE \E g \in Goroutine :
              \/ TakeUp(g)
              \/ \E c \in Counter : Counts(g, c)
              \/ \E kind \in {"found", "error", "other"} :
                   Tells(g, kind) \/ TellFails(g, kind)
  BY <1>4, <1>6, <1>8, <1>17
<1> HIDE DEF vars, talk, asked
<1> QED
  BY <1>13, <1>15, <1>16, <1>17 DEF GatewayNext

-----------------------------------------------------------------------------
(* The scrape *)

Opened == At({"loop", "removed", "done"})

SampleInv ==
  /\ count["connections"] + Cardinality(Opening) = Cardinality(Opened)
  /\ sample["active"] <= Cardinality(Opened)
  /\ sample["core_errors"] <= count["core_errors"]
  /\ shown["error"] <= got["error"] /\ shown["found"] <= got["found"]
  /\ scrape = "none" => loaded = 0
  /\ scrape = "answered" => loaded = 7
  /\ loaded >= 4 => sample["errors"] >= shown["error"]
  /\ loaded >= 7 => sample["match_found"] >= shown["found"]

LEMMA NotAlone ==
  /\ \A t : Shaped(t) /\ t # <<>> => Tail(t) # <<"connections">>
  /\ <<>> # <<"connections">> /\ <<"connections">>[1] = "connections"
<1>1. <<>> # <<"connections">> /\ <<"connections">>[1] = "connections"
  OBVIOUS
<1>2. ASSUME NEW t, Shaped(t), t # <<>> PROVE Tail(t) # <<"connections">>
  <2> DEFINE u == Tail(t)
  <2>1. u # <<>> => u[1] # "connections"
    BY <1>2, ShapedTail
  <2> HIDE DEF u
  <2>2. u # <<"connections">>
    BY <1>1, <2>1
  <2> QED
    BY <2>2 DEF u
<1> QED
  BY <1>1, <1>2

(* OpenSession and the counter that follows it.                            *)
LEMMA OpenedMoves ==
  WorkInv /\ ShapeInv /\ Alive' /\ [GatewayNext]_gatewayVars =>
    /\ Cardinality(Opened) <= Cardinality(Opened')
    /\ count'["connections"] + Cardinality(Opening') - Cardinality(Opened')
         = count["connections"] + Cardinality(Opening) - Cardinality(Opened)
<1> DEFINE Goal ==
      /\ Cardinality(Opened) <= Cardinality(Opened')
      /\ count'["connections"] + Cardinality(Opening') - Cardinality(Opened')
           = count["connections"] + Cardinality(Opening) - Cardinality(Opened)
<1> SUFFICES ASSUME WorkInv, ShapeInv, Alive', [GatewayNext]_gatewayVars PROVE Goal
  OBVIOUS
<1> USE DEF vars, talk, asked
<1>0. /\ Lists /\ count["connections"] \in Nat /\ at \in [Session -> Place]
      /\ count \in [Counter -> Nat] /\ "connections" \in Counter
      /\ IsFiniteSet(Opened) /\ Cardinality(Opened) \in Nat
      /\ IsFiniteSet(Opening) /\ Cardinality(Opening) \in Nat
      /\ \A s \in Session : <<s, "reader">> \in Goroutine /\ <<s, "poller">> \in Goroutine
  <2>1. IsFiniteSet(Opening)
    BY ManagerAssumption, FS_Subset DEF Opening
  <2> QED
    BY <2>1, AtFinite, FS_CardinalityType
       DEF WorkInv, GatewayTypeOK, ShapeInv, Counter, Goroutine, Role, Opened
<1>1. ASSUME Opened' = Opened, Opening' = Opening, count'["connections"] = count["connections"]
      PROVE  Goal
  BY <1>0, <1>1
(* A reader's list changes from one that is not the counter alone to       *)
(* another such.                                                           *)
<1>2. ASSUME NEW s \in Session, todo[<<s, "reader">>] # <<"connections">>,
             todo'[<<s, "reader">>] # <<"connections">>,
             \A r \in Session \ {s} : todo'[<<r, "reader">>] = todo[<<r, "reader">>]
      PROVE  Opening' = Opening
  BY <1>2 DEF Opening
<1>3. ASSUME NEW g \in Goroutine, todo[g] # <<>>, todo' = Rest(g),
             todo[g][1] # "connections"
      PROVE  Opening' = Opening
  <2>1. PICK s \in Session, r \in Role : g = <<s, r>>
    BY DEF Goroutine
  <2>2. todo[g] # <<"connections">> /\ Shaped(todo[g])
    BY <1>0, <1>3 DEF Lists
  <2>3. Tail(todo[g]) # <<"connections">>
    BY <1>3, <2>2, NotAlone
  <2>4. todo' = [todo EXCEPT ![g] = Tail(todo[g])] /\ todo \in [Goroutine -> Seq(Step)]
    BY <1>0, <1>3 DEF Rest, Lists
  <2>5. CASE r = "reader"
    BY <1>0, <1>2, <2>1, <2>2, <2>3, <2>4, <2>5
  <2>6. CASE r = "poller"
    BY <1>0, <2>1, <2>4, <2>6 DEF Opening
  <2> QED
    BY <2>5, <2>6 DEF Role
<1>4. ASSUME NEW g \in Goroutine, NEW x, Does(g, x)
      PROVE  todo[g] # <<>> /\ todo[g][1] = x
  BY <1>0, <1>4, ShapedTail DEF Does, Lists
<1>5. ASSUME NEW s \in Session, CountIn(s) PROVE Goal
  <2>1. /\ at[s] = "added" /\ at' = [at EXCEPT ![s] = "loop"] /\ UNCHANGED count
        /\ todo' = [todo EXCEPT ![<<s, "reader">>] = <<"connections">>]
    BY <1>5 DEF CountIn, OpenSession
  <2>2. Opened' = Opened \cup {s} /\ s \notin Opened
    BY <1>0, <2>1 DEF Opened, At
  <2>3. todo[<<s, "reader">>] = <<>>
    BY <1>0, <2>1 DEF Lists
  <2>4. Opening' = Opening \cup {s} /\ s \notin Opening
    <3>1. s \notin Opening
      BY <2>3, NotAlone DEF Opening
    <3>2. todo'[<<s, "reader">>] = <<"connections">>
      BY <1>0, <2>1 DEF Lists
    <3>3. \A r \in Session \ {s} : todo'[<<r, "reader">>] = todo[<<r, "reader">>]
      BY <1>0, <2>1 DEF Lists
    <3> QED
      BY <3>1, <3>2, <3>3 DEF Opening
  <2>5. /\ Cardinality(Opened') = Cardinality(Opened) + 1
        /\ Cardinality(Opening') = Cardinality(Opening) + 1
    BY <1>0, <2>2, <2>4, FS_AddElement
  <2> QED
    BY <1>0, <2>1, <2>5
<1>6. ASSUME NEW g \in Goroutine, NEW c \in Counter, Counts(g, c) PROVE Goal
  <2>1. /\ todo[g] # <<>> /\ todo[g][1] = c /\ todo' = Rest(g) /\ at' = at
        /\ count' = [count EXCEPT ![c] = @ + 1]
    BY <1>4, <1>6 DEF Counts
  <2>2. Opened' = Opened
    BY <2>1 DEF Opened, At
  <2>3. CASE c # "connections"
    BY <1>0, <1>1, <1>3, <2>1, <2>2, <2>3
  <2>4. CASE c = "connections"
    <3>0. PICK s \in Session, r \in Role : g = <<s, r>>
      BY DEF Goroutine
    <3>1. g = <<s, "reader">>
      <4>1. r # "poller"
        BY <1>0, <2>1, <2>4, <3>0 DEF Lists
      <4> QED
        BY <3>0, <4>1 DEF Role
    <3>2. /\ Shaped(todo[g]) /\ todo[g] \in Seq(Step) /\ 1 \in 1..Len(todo[g])
          /\ Len(todo[g]) \in Nat
      BY <1>0, <2>1, EmptySeq DEF Lists, Shaped
    <3>3. Len(todo[g]) = 1
      BY <2>1, <2>4, <3>2 DEF Shaped
    <3>4. todo[g] = <<"connections">>
      BY <2>1, <2>4, <3>2, <3>3
    <3>5. Tail(todo[g]) = <<>>
      BY <3>4
    <3>6. Opening' = Opening \ {s} /\ s \in Opening
      BY <1>0, <2>1, <3>1, <3>4, <3>5 DEF Opening, Rest, Lists
    <3>7. Cardinality(Opening') = Cardinality(Opening) - 1
      BY <1>0, <3>6, FS_RemoveElement
    <3>8. count'["connections"] = count["connections"] + 1
      BY <1>0, <2>1, <2>4
    <3> QED
      BY <1>0, <2>2, <3>7, <3>8
  <2> QED
    BY <2>3, <2>4
<1>7. ASSUME NEW g \in Goroutine, NEW x \in {"found", "error", "other"},
             Tells(g, x) \/ TellFails(g, x)
      PROVE  Goal
  <2>1. todo[g] # <<>> /\ todo[g][1] = x /\ at' = at /\ count' = count
    BY <1>4, <1>7 DEF Tells, TellFails
  <2>2. Opened' = Opened
    BY <2>1 DEF Opened, At
  <2>3. CASE todo' = Rest(g)
    BY <1>1, <1>3, <2>1, <2>2, <2>3
  <2>4. CASE todo' = [todo EXCEPT ![g] = Error] /\ g[2] = "reader"
    <3>1. PICK s \in Session : g = <<s, "reader">>
      BY <2>4 DEF Goroutine
    <3>2. Error # <<"connections">> /\ todo[g] # <<"connections">>
      BY <2>1 DEF Error
    <3>3. Opening' = Opening
      BY <1>0, <1>2, <2>4, <3>1, <3>2 DEF Lists
    <3> QED
      BY <1>1, <2>1, <2>2, <3>3
  <2> QED
    BY <1>7, <2>3, <2>4 DEF Tells, TellFails
<1>8. ASSUME NEW g \in Goroutine, TakeUp(g) PROVE Goal
  <2>1. /\ todo[g] = <<>> /\ at' = at /\ count' = count
        /\ \E run \in Run[g[2]] : todo' = [todo EXCEPT ![g] = run]
    BY <1>8 DEF TakeUp
  <2>2. PICK run \in Run[g[2]] : todo' = [todo EXCEPT ![g] = run]
    BY <2>1
  <2>3. Fresh(run)
    BY RunsFresh DEF Goroutine
  <2>4. run # <<"connections">>
    BY <2>3 DEF Fresh
  <2>5. Opening' = Opening
    <3>1. PICK s \in Session, r \in Role : g = <<s, r>>
      BY DEF Goroutine
    <3>2. CASE r = "reader"
      <4>1. todo[<<s, "reader">>] # <<"connections">>
        BY <2>1, <3>1, <3>2, NotAlone
      <4>2. /\ todo'[<<s, "reader">>] = run
            /\ \A q \in Session \ {s} : todo'[<<q, "reader">>] = todo[<<q, "reader">>]
        BY <1>0, <2>2, <3>1, <3>2 DEF Lists
      <4> QED
        BY <1>2, <2>4, <4>1, <4>2
    <3>3. CASE r = "poller"
      BY <1>0, <2>2, <3>1, <3>3 DEF Opening, Lists
    <3> QED
      BY <3>2, <3>3 DEF Role
  <2>6. Opened' = Opened
    BY <2>1 DEF Opened, At
  <2> QED
    BY <1>1, <2>1, <2>5, <2>6
<1>9. ASSUME NEW s \in Session, StartsPoller(s) PROVE Goal
  <2> DEFINE r == <<s, "reader">>
  <2>1. /\ todo[r] # <<>> /\ todo[r][1] = "poll" /\ at' = at /\ count' = count
        /\ todo' = [Rest(r) EXCEPT ![<<s, "poller">>] = <<>>]
    BY <1>0, <1>4, <1>9 DEF StartsPoller
  <2>2. Tail(todo[r]) # <<"connections">> /\ todo[r] # <<"connections">>
    BY <1>0, <2>1, NotAlone DEF Lists
  <2>3. Opening' = Opening
    BY <1>0, <1>2, <2>1, <2>2 DEF Rest, Lists
  <2>4. Opened' = Opened
    BY <2>1 DEF Opened, At
  <2> QED
    BY <1>1, <2>1, <2>3, <2>4
<1>10. ASSUME NEW s \in Session, NEW x \in {"bind", "leave"}, Does(<<s, "reader">>, x),
              todo' = Rest(<<s, "reader">>), UNCHANGED count, Opened' = Opened
       PROVE  Goal
  <2>1. Opening' = Opening
    BY <1>0, <1>3, <1>4, <1>10
  <2> QED
    BY <1>1, <1>10, <2>1
<1>11. ASSUME NEW s \in Session, NEW p \in Player, Binds(s, p) PROVE Goal
  <2>1. Opened' = Opened
    BY <1>11 DEF Binds, BindPlayer, Opened, At
  <2> QED
    BY <1>10, <1>11, <2>1 DEF Binds
<1>12. ASSUME NEW s \in Session, Leaves(s) PROVE Goal
  <2>1. Opened' = Opened
    BY <1>0, <1>12 DEF Leaves, Remove, Opened, At
  <2> QED
    BY <1>10, <1>12, <2>1 DEF Leaves
<1>13. ASSUME NEW s \in Session, Accept(s) \/ Upgrade(s) \/ Register(s) \/ CountOut(s)
       PROVE  Goal
  <2>1. Opened' = Opened
    BY <1>0, <1>13 DEF Accept, Upgrade, Register, CountOut, Add, CloseSession, Opened, At
  <2> QED
    BY <1>1, <1>13, <2>1 DEF Accept, Upgrade, Register, CountOut, Opening
<1>14. CASE AskMetrics \/ Load \/ AnswerMetrics \/ Signal \/ UNCHANGED gatewayVars
  BY <1>1, <1>14 DEF AskMetrics, Load, AnswerMetrics, Signal, gatewayVars, Opened, At, Opening
<1>15. CASE Main
  BY <1>14, <1>15 DEF Main, ListenFails, Drained, GraceEnds, Ends, Alive
<1> HIDE DEF vars, talk, asked, Goal
<1> QED
  BY <1>5, <1>6, <1>7, <1>8, <1>9, <1>11, <1>12, <1>13, <1>14, <1>15 DEF GatewayNext

LEMMA SampleKept ==
  /\ WorkInv /\ IInv /\ (Alive => Ahead /\ SampleInv) /\ [GatewayNext]_gatewayVars
  /\ Alive'
  => SampleInv'
<1> SUFFICES ASSUME WorkInv, IInv, Alive => Ahead /\ SampleInv,
                    [GatewayNext]_gatewayVars, Alive'
             PROVE  SampleInv'
  OBVIOUS
<1> USE DEF vars, talk, asked
<1>0. Alive
  BY DEF GatewayNext, Main, ListenFails, Drained, GraceEnds, Ends, Alive, gatewayVars,
         Signal, Accept, Upgrade, Register, CountIn, CountOut, TakeUp, Does, Counts,
         Tells, TellFails, Binds, StartsPoller, Leaves, AskMetrics, Load, AnswerMetrics
<1> DEFINE o == Cardinality(Opened)
<1>1. /\ Ahead /\ SampleInv
      /\ count \in [Counter -> Nat] /\ got \in [{"error", "found"} -> Nat]
      /\ shown \in [{"error", "found"} -> Nat] /\ sample \in [Kept -> Nat]
      /\ loaded \in 0..7
  BY <1>0 DEF WorkInv, GatewayTypeOK, Order
<1>2. /\ o \in Nat /\ o' \in Nat /\ o <= o'
      /\ count'["connections"] + Cardinality(Opening') = o'
  <2>1. /\ Cardinality(Opened) \in Nat /\ o' \in Nat
        /\ Cardinality(Opening) \in Nat /\ Cardinality(Opening') \in Nat
    <3>1. IsFiniteSet(Opening) /\ IsFiniteSet(Opening')
      BY ManagerAssumption, FS_Subset DEF Opening
    <3>2. Opened' \subseteq Session
      BY DEF Opened, At
    <3> QED
      BY <3>1, <3>2, AtFinite, ManagerAssumption, FS_Subset, FS_CardinalityType DEF Opened
  <2>2. /\ o <= o'
        /\ count'["connections"] + Cardinality(Opening') - o'
             = count["connections"] + Cardinality(Opening) - o
    BY <1>0, OpenedMoves DEF IInv
  <2>3. count["connections"] \in Nat /\ count'["connections"] \in Nat
    <3>1. WorkInv'
      BY WorkKept, AtFinite DEF IInv, CountInv
    <3> QED
      BY <1>1, <3>1 DEF WorkInv, GatewayTypeOK, Counter
  <2> QED
    BY <1>1, <2>1, <2>2, <2>3 DEF SampleInv
<1> HIDE DEF o
<1>3. /\ sample["active"] \in Nat /\ sample["core_errors"] \in Nat
      /\ sample["errors"] \in Nat /\ sample["match_found"] \in Nat
      /\ \A c \in Counter : count[c] \in Nat
      /\ "core_errors" \in Counter /\ "errors" \in Counter /\ "match_found" \in Counter
      /\ got["error"] \in Nat /\ got["found"] \in Nat
      /\ sample["active"] <= o
  BY <1>1 DEF Kept, Counter, SampleInv, o
(* Steps that leave the scrape alone. *)
<1>4. ASSUME UNCHANGED asked, got'["error"] >= got["error"], got'["found"] >= got["found"],
             got'["error"] \in Nat, got'["found"] \in Nat,
             count'["core_errors"] >= count["core_errors"], count'["core_errors"] \in Nat
      PROVE  SampleInv'
  <2>1. sample'["active"] <= o'
    BY <1>2, <1>3, <1>4
  <2>2. sample'["core_errors"] <= count'["core_errors"]
    BY <1>1, <1>3, <1>4 DEF SampleInv
  <2>3. shown'["error"] <= got'["error"] /\ shown'["found"] <= got'["found"]
    BY <1>1, <1>3, <1>4 DEF SampleInv
  <2> QED
    BY <1>1, <1>2, <1>4, <2>1, <2>2, <2>3 DEF SampleInv, o
<1>5. CASE UNCHANGED <<asked, got, count>>
  BY <1>3, <1>4, <1>5
<1>6. ASSUME NEW g, NEW c \in Counter, Counts(g, c) PROVE SampleInv'
  <2>1. \A d \in Counter : count'[d] \in Nat /\ count'[d] >= count[d]
    BY <1>1, <1>3, <1>6 DEF Counts
  <2> QED
    BY <1>3, <1>4, <1>6, <2>1 DEF Counts
<1>7. ASSUME NEW g, NEW k, Tells(g, k) PROVE SampleInv'
  BY <1>1, <1>3, <1>4, <1>7 DEF Tells
<1>8. CASE AskMetrics
  BY <1>1, <1>2, <1>3, <1>8 DEF AskMetrics, SampleInv, o
<1>9. CASE AnswerMetrics
  BY <1>1, <1>2, <1>3, <1>9 DEF AnswerMetrics, SampleInv, o, Order
<1>10. CASE Load
  <2>1. /\ scrape = "open" /\ loaded' = loaded + 1 /\ loaded + 1 \in 1..7
        /\ sample' = [c \in Kept |-> IF c = Order[loaded + 1] THEN Value(c) ELSE sample[c]]
        /\ count' = count /\ got' = got /\ shown' = shown /\ scrape' = scrape
    BY <1>1, <1>10 DEF Load, Order
  <2>2. \A i \in 1..7 : /\ Order[i] = "active" <=> i = 1
                        /\ Order[i] = "errors" <=> i = 4
                        /\ Order[i] = "core_errors" <=> i = 6
                        /\ Order[i] = "match_found" <=> i = 7
    BY DEF Order
  <2>3. /\ sample'["active"] = IF loaded + 1 = 1 THEN active ELSE sample["active"]
        /\ sample'["errors"] = IF loaded + 1 = 4 THEN count["errors"] ELSE sample["errors"]
        /\ sample'["core_errors"]
             = IF loaded + 1 = 6 THEN count["core_errors"] ELSE sample["core_errors"]
        /\ sample'["match_found"]
             = IF loaded + 1 = 7 THEN count["match_found"] ELSE sample["match_found"]
    BY <2>1, <2>2 DEF Kept, Value
  <2>4. active <= o
    <3>1. /\ At({"loop", "removed"}) \subseteq Opened /\ IsFiniteSet(Opened)
          /\ active = Cardinality(At({"loop", "removed"}))
      BY AtFinite DEF At, Opened, IInv, CountInv
    <3> QED
      BY <3>1, FS_Subset DEF o
  <2>5. active \in Nat
    BY AtFinite DEF IInv, CountInv
  <2>6. /\ count["errors"] >= got["error"] /\ count["match_found"] >= got["found"]
    <3>1. Cardinality(Due("error")) \in Nat /\ Cardinality(Due("found")) \in Nat
      BY DueFinite
    <3> QED
      BY <1>1, <1>3, <3>1 DEF Ahead
  <2>7. sample'["active"] <= o'
    BY <1>2, <1>3, <2>3, <2>4, <2>5
  <2>8. sample'["core_errors"] <= count'["core_errors"]
    BY <1>1, <1>3, <2>1, <2>3 DEF SampleInv
  <2>9. loaded' >= 4 => sample'["errors"] >= shown'["error"]
    BY <1>1, <1>3, <2>1, <2>3, <2>6 DEF SampleInv
  <2>10. loaded' >= 7 => sample'["match_found"] >= shown'["found"]
    BY <1>1, <1>3, <2>1, <2>3, <2>6 DEF SampleInv
  <2> QED
    BY <1>1, <1>2, <2>1, <2>7, <2>8, <2>9, <2>10 DEF SampleInv, o
<1>11. CASE Main
  BY <1>5, <1>11 DEF Main, ListenFails, Drained, GraceEnds, Ends, Signal, Alive
<1>12. ASSUME NEW s \in Session,
              \/ Accept(s) \/ Upgrade(s) \/ Register(s) \/ CountIn(s) \/ CountOut(s)
              \/ StartsPoller(s) \/ Leaves(s) \/ \E p \in Player : Binds(s, p)
       PROVE  SampleInv'
  BY <1>5, <1>12 DEF Accept, Upgrade, Register, CountIn, CountOut, StartsPoller, Leaves, Binds
<1>13. ASSUME NEW g \in Goroutine,
              TakeUp(g) \/ \E k \in {"found", "error", "other"} : TellFails(g, k)
       PROVE  SampleInv'
  BY <1>5, <1>13 DEF TakeUp, TellFails
<1>14. CASE UNCHANGED gatewayVars
  BY <1>5, <1>14 DEF gatewayVars
<1> HIDE DEF vars, talk, asked
<1> QED
  BY <1>6, <1>7, <1>8, <1>9, <1>10, <1>11, <1>12, <1>13, <1>14 DEF GatewayNext

GatewayInv == WorkInv /\ IInv /\ (Alive => Ahead /\ SampleInv)

THEOREM GatewayInductive == GatewaySpec => []GatewayInv
<1>1. GatewayInit => (Alive => Ahead /\ SampleInv)
  <2> SUFFICES ASSUME GatewayInit PROVE Ahead /\ SampleInv
    OBVIOUS
  <2> USE DEF GatewayInit, Init
  <2>1. \A g \in Goroutine : todo[g] = <<>> \/ todo[g] = <<"off">>
    OBVIOUS
  <2>2. <<"off">>[1] = "off" /\ <<"off">> # <<"connections">> /\ <<>> # <<"connections">>
    OBVIOUS
  <2>3. \A k \in Dependent : Due(k) = {}
    BY <2>1, <2>2 DEF Due, Dependent, Before
  <2>4. Opening = {} /\ Opened = {}
    <3>1. \A s \in Session : <<s, "reader">> \in Goroutine
      BY DEF Goroutine, Role
    <3> QED
      BY <2>1, <2>2, <3>1 DEF Opening, Opened, At
  <2>5. Cardinality({}) = 0
    BY FS_EmptySet
  <2>6. /\ Due("error") = {} /\ Due("found") = {} /\ Due("core_errors") = {}
    BY <2>3 DEF Dependent, Before
  <2>7. /\ \A c \in Counter : count[c] = 0
        /\ \A c \in Kept : sample[c] = 0
        /\ got["error"] = 0 /\ got["found"] = 0
        /\ shown["error"] = 0 /\ shown["found"] = 0 /\ loaded = 0 /\ scrape = "none"
    OBVIOUS
  <2>8. Ahead
    <3>1. /\ Cardinality(Due("error")) = 0 /\ Cardinality(Due("found")) = 0
          /\ Cardinality(Due("core_errors")) = 0
      BY <2>5, <2>6
    <3>2. /\ count["errors"] = 0 /\ count["match_found"] = 0
          /\ count["core_requests"] = 0 /\ count["core_errors"] = 0
      BY <2>7 DEF Counter
    <3>3. 0 >= 0 + 0
      OBVIOUS
    <3> QED
      BY <2>7, <3>1, <3>2, <3>3 DEF Ahead
  <2>9. SampleInv
    BY <2>4, <2>5, <2>7 DEF SampleInv, Counter, Kept
  <2> QED
    BY <2>8, <2>9
<1>2. WorkInv /\ IInv /\ (Alive => Ahead /\ SampleInv) /\ [GatewayNext]_gatewayVars
        => (Alive' => Ahead' /\ SampleInv')
  BY AheadKept, SampleKept
<1>3. (Alive' => Ahead' /\ SampleInv') => (Alive => Ahead /\ SampleInv)'
  OBVIOUS
<1> QED
  BY <1>1, <1>2, <1>3, GatewayTypeCorrect, GatewayImplementsRegistry, InductiveInvariant, PTL
     DEF GatewaySpec, GatewayInv

(* Types of the process, and the shape of what goroutines still do.        *)
THEOREM GatewayTyped == GatewaySpec => []GatewayTypeOK
<1>1. WorkInv => GatewayTypeOK
  BY DEF WorkInv
<1> QED
  BY <1>1, GatewayTypeCorrect, PTL

(* /metrics is never behind what clients had received.                     *)
THEOREM ScrapesAreUpToDate == GatewaySpec => []SeenIsCounted
<1>1. GatewayInv => SeenIsCounted
  BY DEF GatewayInv, SampleInv, SeenIsCounted
<1> QED
  BY <1>1, GatewayInductive, PTL

(* Failures are never ahead of requests, in the counters or across a scrape*)
THEOREM FailuresAreRequests == GatewaySpec => []ErrorsAreRequests
<1>1. GatewayInv => ErrorsAreRequests
  <2> SUFFICES ASSUME GatewayInv, Alive PROVE ErrorsAreRequests
    BY DEF ErrorsAreRequests
  <2>1. /\ count["core_requests"] \in Nat /\ count["core_errors"] \in Nat
        /\ sample["core_errors"] \in Nat /\ Cardinality(Due("core_errors")) \in Nat
    BY DueFinite DEF GatewayInv, WorkInv, GatewayTypeOK, Counter, Kept
  <2> QED
    BY <2>1 DEF GatewayInv, Ahead, SampleInv, ErrorsAreRequests
<1> QED
  BY <1>1, GatewayInductive, PTL

(* The active sessions a scrape shows are among the connections accepted.  *)
THEOREM ActivesAreConnections == GatewaySpec => []ActiveWereAccepted
<1>1. GatewayInv => ActiveWereAccepted
  BY DEF GatewayInv, SampleInv, ActiveWereAccepted
<1> QED
  BY <1>1, GatewayInductive, PTL
=============================================================================
