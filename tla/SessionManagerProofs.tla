------------------------ MODULE SessionManagerProofs ------------------------
(***************************************************************************)
(* Proofs about SessionManager, for any finite set of sessions and any     *)
(* players.                                                                *)
(***************************************************************************)
EXTENDS SessionManager, FiniteSetTheorems, TLAPS

(* The sessions whose handler has reached, or has not left, a place.       *)
At(places) == {s \in Session : at[s] \in places}

(* The types, with the gauge an integer only.                              *)
ShapeInv ==
  /\ at \in [Session -> Place]
  /\ playerID \in [Session -> Player \cup {NoPlayer}]
  /\ byPlayer \in [Player -> Session \cup {NoSession}]
  /\ newest \in [Player -> Session \cup {NoSession}]

(* Registration and counting follow the place of the handler.              *)
CountInv ==
  /\ byID = At({"added", "loop"})
  /\ active = Cardinality(At({"loop", "removed"}))

(* An entry of the index names the newest session to bind the player, and  *)
(* an entry is empty only when that session has been removed or has gone   *)
(* over to another player.                                                 *)
IndexInv ==
  \A p \in Player :
    /\ byPlayer[p] = newest[p]
       \/ /\ byPlayer[p] = NoSession
          /\ newest[p] \in Session /\ at[newest[p]] \in {"removed", "done"}
    /\ byPlayer[p] # NoSession => at[byPlayer[p]] \notin {"new", "added"}
    /\ byPlayer[p] # NoSession /\ at[byPlayer[p]] \in {"removed", "done"}
         => playerID[byPlayer[p]] # p

IInv == ShapeInv /\ CountInv /\ IndexInv

LEMMA AtFinite ==
  ASSUME NEW places
  PROVE  IsFiniteSet(At(places)) /\ Cardinality(At(places)) \in Nat
BY ManagerAssumption, FS_Subset, FS_CardinalityType DEF At

(* The registry's index and the gauge, step by step.                       *)
LEMMA ShapeAndIndex == IInv /\ [Next]_vars => ShapeInv' /\ IndexInv'
<1> SUFFICES ASSUME IInv, [Next]_vars PROVE ShapeInv' /\ IndexInv'
  OBVIOUS
<1> USE ManagerAssumption DEF IInv, ShapeInv, IndexInv
<1>1. ASSUME NEW s \in Session, Add(s) PROVE ShapeInv' /\ IndexInv'
  BY <1>1 DEF Add, Place
<1>2. ASSUME NEW s \in Session, OpenSession(s) PROVE ShapeInv' /\ IndexInv'
  BY <1>2 DEF OpenSession, Place
<1>3. ASSUME NEW s \in Session, NEW p \in Player, BindPlayer(s, p)
      PROVE ShapeInv' /\ IndexInv'
  BY <1>3 DEF BindPlayer
<1>4. ASSUME NEW s \in Session, Remove(s) PROVE ShapeInv' /\ IndexInv'
  <2>1. ShapeInv'
    BY <1>4 DEF Remove, Place
  <2>2. IndexInv'
    BY <1>4 DEF Remove
  <2> QED
    BY <2>1, <2>2
<1>5. ASSUME NEW s \in Session, CloseSession(s) PROVE ShapeInv' /\ IndexInv'
  BY <1>5 DEF CloseSession, Place
<1>6. CASE UNCHANGED vars
  BY <1>6 DEF vars
<1> QED
  BY <1>1, <1>2, <1>3, <1>4, <1>5, <1>6 DEF Next

LEMMA Counting == IInv /\ [Next]_vars => CountInv'
<1> SUFFICES ASSUME IInv, [Next]_vars PROVE CountInv'
  OBVIOUS
<1> DEFINE counted == At({"loop", "removed"})
<1>0. /\ at \in [Session -> Place]
      /\ byID = At({"added", "loop"}) /\ active = Cardinality(counted)
      /\ IsFiniteSet(counted) /\ Cardinality(counted) \in Nat
  BY AtFinite DEF IInv, ShapeInv, CountInv
<1>1. ASSUME NEW s \in Session, Add(s) PROVE CountInv'
  <2>1. byID' = At({"added", "loop"})' /\ counted' = counted
    BY <1>0, <1>1 DEF Add, At
  <2> QED
    BY <1>0, <1>1, <2>1 DEF Add, CountInv
<1>2. ASSUME NEW s \in Session, OpenSession(s) PROVE CountInv'
  <2>1. /\ byID' = At({"added", "loop"})'
        /\ counted' = counted \cup {s} /\ s \notin counted
    BY <1>0, <1>2 DEF OpenSession, At
  <2>2. Cardinality(counted') = Cardinality(counted) + 1
    BY <1>0, <2>1, FS_AddElement
  <2> QED
    BY <1>0, <1>2, <2>1, <2>2 DEF OpenSession, CountInv
<1>3. ASSUME NEW s \in Session, NEW p \in Player, BindPlayer(s, p) PROVE CountInv'
  BY <1>0, <1>3 DEF BindPlayer, CountInv, At
<1>4. ASSUME NEW s \in Session, Remove(s) PROVE CountInv'
  <2>1. byID' = At({"added", "loop"})' /\ counted' = counted
    BY <1>0, <1>4 DEF Remove, At
  <2> QED
    BY <1>0, <1>4, <2>1 DEF Remove, CountInv
<1>5. ASSUME NEW s \in Session, CloseSession(s) PROVE CountInv'
  <2>1. /\ byID' = At({"added", "loop"})'
        /\ counted' = counted \ {s} /\ s \in counted
    BY <1>0, <1>5 DEF CloseSession, At
  <2>2. Cardinality(counted') = Cardinality(counted) - 1
    BY <1>0, <2>1, FS_RemoveElement
  <2> QED
    BY <1>0, <1>5, <2>1, <2>2 DEF CloseSession, CountInv
<1>6. CASE UNCHANGED vars
  BY <1>0, <1>6 DEF vars, CountInv, At
<1> QED
  BY <1>1, <1>2, <1>3, <1>4, <1>5, <1>6 DEF Next

(* The inductive invariant holds in every reachable state of the registry. *)
THEOREM InductiveInvariant == Spec => []IInv
<1>1. Init => IInv
  <2>1. ASSUME Init PROVE byID = At({"added", "loop"}) /\ At({"loop", "removed"}) = {}
    BY <2>1 DEF Init, At
  <2> QED
    BY <2>1, FS_EmptySet DEF Init, IInv, ShapeInv, CountInv, IndexInv, Place
<1>2. IInv /\ [Next]_vars => IInv'
  BY ShapeAndIndex, Counting DEF IInv
<1> QED
  BY <1>1, <1>2, PTL DEF Spec

(* Types; the gauge is never negative.                                     *)
THEOREM TypeCorrect == Spec => []TypeOK
<1>1. IInv => TypeOK
  BY AtFinite DEF IInv, ShapeInv, CountInv, TypeOK, At
<1> QED
  BY <1>1, InductiveInvariant, PTL

(* The newest session of a player stays in the index while it lives and    *)
(* is still that player's, whatever other sessions of the player do.       *)
THEOREM NewestStaysIndexed == Spec => []NewestBinderKept
<1>1. IInv => NewestBinderKept
  BY DEF IInv, CountInv, IndexInv, At, NewestBinderKept
<1> QED
  BY <1>1, InductiveInvariant, PTL

(* What the index leaks is exactly what re-authentication leaves behind.   *)
THEOREM OnlyReauthLeaks == Spec => []OnlyReauthLingers
<1>1. IInv => OnlyReauthLingers
  BY DEF IInv, ShapeInv, CountInv, IndexInv, At, Place, OnlyReauthLingers
<1> QED
  BY <1>1, InductiveInvariant, PTL

(* The gauge and the registry differ by the handlers in between only.      *)
THEOREM GaugeIsRegistry == Spec => []GaugeFollowsRegistry
<1>1. ASSUME NEW A \in SUBSET Session, NEW B \in SUBSET Session, A \cap B = {}
      PROVE  Cardinality(A \cup B) = Cardinality(A) + Cardinality(B)
  <2>1. IsFiniteSet(A) /\ IsFiniteSet(B)
    BY ManagerAssumption, FS_Subset
  <2>2. Cardinality(A) \in Nat /\ Cardinality(B) \in Nat
    BY <2>1, FS_CardinalityType
  <2>3. Cardinality(A \cup B)
          = Cardinality(A) + Cardinality(B) - Cardinality(A \cap B)
    BY <2>1, FS_Union
  <2>4. Cardinality(A \cap B) = 0
    BY <1>1, FS_EmptySet
  <2> QED
    BY <2>2, <2>3, <2>4
<1>2. IInv => GaugeFollowsRegistry
  <2> SUFFICES ASSUME IInv PROVE GaugeFollowsRegistry
    OBVIOUS
  <2> DEFINE added == At({"added"})
             loop == At({"loop"})
             removed == At({"removed"})
  <2>1. /\ byID = added \cup loop /\ added \cap loop = {}
        /\ At({"loop", "removed"}) = loop \cup removed /\ loop \cap removed = {}
        /\ {s \in Session : at[s] = "added"} = added
        /\ {s \in Session : at[s] = "removed"} = removed
        /\ added \subseteq Session /\ loop \subseteq Session
        /\ removed \subseteq Session
    BY DEF IInv, CountInv, At
  <2>2. /\ Cardinality(byID) = Cardinality(added) + Cardinality(loop)
        /\ active = Cardinality(loop) + Cardinality(removed)
    BY <1>1, <2>1 DEF IInv, CountInv
  <2>3. /\ Cardinality(added) \in Nat /\ Cardinality(loop) \in Nat
        /\ Cardinality(removed) \in Nat
    BY AtFinite
  <2>4. active + Cardinality(added) = Cardinality(byID) + Cardinality(removed)
    <3> HIDE DEF added, loop, removed
    <3> QED
      BY <2>2, <2>3
  <2> QED
    BY <2>4 DEF GaugeFollowsRegistry, At
<1> QED
  BY <1>2, InductiveInvariant, PTL
=============================================================================
