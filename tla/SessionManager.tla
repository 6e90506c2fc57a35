---------------------------- MODULE SessionManager ----------------------------
(***************************************************************************)
(* The registry of sessions (internal/gateway/session.go), its index by    *)
(* player, and the session gauge of metrics.go, as the goroutines of       *)
(* handleWebSocket use them.  Add, BindPlayer and Remove each hold the     *)
(* manager's mutex from start to end and are one step; the gauge is an     *)
(* atomic outside that mutex and moves in steps of its own.                *)
(***************************************************************************)
EXTENDS Integers, FiniteSets

CONSTANTS
  Session,   (* sessions, one per accepted connection: ids are not reused  *)
  Player,    (* player ids                                                 *)
  NoSession, (* no entry in the index                                      *)
  NoPlayer   (* the empty player_id                                        *)

ASSUME ManagerAssumption ==
  /\ IsFiniteSet(Session)
  /\ NoSession \notin Session
  /\ NoPlayer \notin Player

VARIABLES
  at,       (* [Session -> where its handleWebSocket is]                   *)
  playerID, (* [Session -> Session.PlayerID]                               *)
  byID,     (* the registered sessions                                     *)
  byPlayer, (* [Player -> the session the index holds for it]              *)
  active,   (* the gauge arenagate_active_sessions                         *)
  newest    (* history: [Player -> the last session to bind it]            *)

vars == <<at, playerID, byID, byPlayer, active, newest>>

Place == {"new", "added", "loop", "removed", "done"}

Init ==
  /\ at = [s \in Session |-> "new"]
  /\ playerID = [s \in Session |-> NoPlayer]
  /\ byID = {}
  /\ byPlayer = [p \in Player |-> NoSession]
  /\ active = 0
  /\ newest = [p \in Player |-> NoSession]

(* SessionManager.Add *)
Add(s) ==
  /\ at[s] = "new"
  /\ at' = [at EXCEPT ![s] = "added"]
  /\ byID' = byID \cup {s}
  /\ UNCHANGED <<playerID, byPlayer, active, newest>>

(* Mutated form: the session is not counted up.                            *)
OpenUncounted(s) ==
  /\ at[s] = "added"
  /\ at' = [at EXCEPT ![s] = "loop"]
  /\ UNCHANGED <<playerID, byID, byPlayer, active, newest>>

(* Metrics.OpenSession *)
OpenSession(s) ==
  /\ at[s] = "added"
  /\ at' = [at EXCEPT ![s] = "loop"]
  /\ active' = active + 1
  /\ UNCHANGED <<playerID, byID, byPlayer, newest>>

(* SessionManager.BindPlayer, called by handleAuth: a session may bind     *)
(* again, to the same or another player, and a player may be bound by      *)
(* several sessions.                                                       *)
BindPlayer(s, p) ==
  /\ at[s] = "loop"
  /\ playerID' = [playerID EXCEPT ![s] = p]
  /\ byPlayer' = [byPlayer EXCEPT ![p] = s]
  /\ newest' = [newest EXCEPT ![p] = s]
  /\ UNCHANGED <<at, byID, active>>

(* Mutated form: whatever session the index holds for the player goes.     *)
RemoveAnyHolder(s) ==
  LET p == playerID[s] IN
  /\ at[s] = "loop"
  /\ at' = [at EXCEPT ![s] = "removed"]
  /\ byID' = byID \ {s}
  /\ byPlayer' = IF p # NoPlayer THEN [byPlayer EXCEPT ![p] = NoSession]
                                 ELSE byPlayer
  /\ UNCHANGED <<playerID, active, newest>>

(* Mutated form: the index is forgotten.                                   *)
RemoveKeepsIndex(s) ==
  /\ at[s] = "loop"
  /\ at' = [at EXCEPT ![s] = "removed"]
  /\ byID' = byID \ {s}
  /\ UNCHANGED <<playerID, byPlayer, active, newest>>

(* SessionManager.Remove, deferred to the end of the read loop: it clears  *)
(* the entry of the session's present player, and only its own entry.      *)
Remove(s) ==
  LET p == playerID[s] IN
  /\ at[s] = "loop"
  /\ at' = [at EXCEPT ![s] = "removed"]
  /\ byID' = byID \ {s}
  /\ byPlayer' = IF p # NoPlayer /\ byPlayer[p] = s
                 THEN [byPlayer EXCEPT ![p] = NoSession] ELSE byPlayer
  /\ UNCHANGED <<playerID, active, newest>>

(* Mutated form: only a session that authenticated is counted down.        *)
CloseAuthedSession(s) ==
  /\ at[s] = "removed"
  /\ at' = [at EXCEPT ![s] = "done"]
  /\ active' = IF playerID[s] # NoPlayer THEN active - 1 ELSE active
  /\ UNCHANGED <<playerID, byID, byPlayer, newest>>

(* Metrics.CloseSession *)
CloseSession(s) ==
  /\ at[s] = "removed"
  /\ at' = [at EXCEPT ![s] = "done"]
  /\ active' = active - 1
  /\ UNCHANGED <<playerID, byID, byPlayer, newest>>

Next ==
  \E s \in Session :
    \/ Add(s) \/ OpenSession(s) \/ Remove(s) \/ CloseSession(s)
    \/ \E p \in Player : BindPlayer(s, p)

Spec == Init /\ [][Next]_vars

-----------------------------------------------------------------------------
(* Properties *)

(* Types of the registry, its index and the gauge, which is never negative *)
(* although it is counted outside the registry's mutex.                    *)
TypeOK ==
  /\ at \in [Session -> Place]
  /\ playerID \in [Session -> Player \cup {NoPlayer}]
  /\ byID \subseteq Session
  /\ byPlayer \in [Player -> Session \cup {NoSession}]
  /\ active \in Nat
  /\ newest \in [Player -> Session \cup {NoSession}]

(* The end of an old session never takes a reconnected player out of the   *)
(* index: while the newest session to bind a player is registered and      *)
(* still that player's, the index holds it, however the ends of other      *)
(* sessions of the player and re-authentications fall.                     *)
NewestBinderKept ==
  \A p \in Player :
    LET s == newest[p] IN
    s \in byID /\ playerID[s] = p => byPlayer[p] = s

(* A closed session lingers in the index only under a player it had left   *)
(* by authenticating as another one.  (So the index leaks an entry per     *)
(* such re-authentication; without them it holds registered sessions       *)
(* only.)                                                                  *)
OnlyReauthLingers ==
  \A p \in Player :
    LET s == byPlayer[p] IN
    s # NoSession /\ s \notin byID => playerID[s] # p

(* /metrics and /healthz agree whenever no handler stands between its      *)
(* update of the registry and its update of the gauge, and in between they *)
(* differ by those handlers.                                               *)
GaugeFollowsRegistry ==
  active + Cardinality({s \in Session : at[s] = "added"})
    = Cardinality(byID) + Cardinality({s \in Session : at[s] = "removed"})
=============================================================================
