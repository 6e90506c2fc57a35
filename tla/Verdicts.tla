------------------------------- MODULE Verdicts -------------------------------
(***************************************************************************)
(* What ArenaGate promises about match tickets, with no gateway in it:     *)
(* each ticket is decided once, save that a decision may be overturned by  *)
(* a cancellation where that is accepted, and whoever is told an outcome   *)
(* is told one that was given.  Matchmaking is shown to implement this.    *)
(***************************************************************************)
CONSTANTS
  Session, Ticket,
  MayOverturn (* cancellations of decided tickets are accepted             *)

VARIABLES
  issued, (* the tickets there are                                         *)
  given,  (* [Ticket -> the verdicts given on it]                          *)
  heard   (* {<<session, ticket, verdict>>} told to clients                *)

vars == <<issued, given, heard>>

Verdict == {"matched", "cancelled", "timeout"}

Init ==
  /\ issued = {}
  /\ given = [t \in Ticket |-> {}]
  /\ heard = {}

Issue(t) ==
  /\ issued' = issued \cup {t}
  /\ UNCHANGED <<given, heard>>

Decide(t, v) ==
  /\ t \in issued /\ given[t] = {}
  /\ given' = [given EXCEPT ![t] = {v}]
  /\ UNCHANGED <<issued, heard>>

Overturn(t) ==
  /\ MayOverturn
  /\ given[t] # {}
  /\ given' = [given EXCEPT ![t] = @ \cup {"cancelled"}]
  /\ UNCHANGED <<issued, heard>>

Hear(s, t, v) ==
  /\ v \in given[t]
  /\ heard' = heard \cup {<<s, t, v>>}
  /\ UNCHANGED <<issued, given>>

Next ==
  \E t \in Ticket :
    \/ Issue(t) \/ Overturn(t)
    \/ \E v \in Verdict : Decide(t, v)
    \/ \E s \in Session, v \in Verdict : Hear(s, t, v)

Spec == Init /\ [][Next]_vars
=============================================================================
