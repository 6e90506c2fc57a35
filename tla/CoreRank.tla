------------------------------- MODULE CoreRank -------------------------------
(***************************************************************************)
(* CoreRank, the matchmaking service behind ArenaGate, as the gateway uses *)
(* it through internal/coreclient and as the fake of the repository's demo *)
(* implements it.  A ticket is created queued, and then matched by         *)
(* CoreRank, expired by CoreRank, or cancelled on request.                 *)
(***************************************************************************)

CONSTANTS
  Ticket,       (* ticket ids; finite, so also the bound on tickets        *)
  Player,       (* player ids                                              *)
  NoPlayer,     (* the empty player_id                                     *)
  CancelSettled (* TRUE: DELETE succeeds on a ticket that is no longer     *)
                (* queued, as in the fakes; FALSE: it is refused           *)

ASSUME CoreRankAssumption ==
  /\ NoPlayer \notin Player
  /\ CancelSettled \in BOOLEAN

VARIABLES
  ticket, (* [Ticket -> TicketState], CoreRank's database                  *)
  given   (* history: [Ticket -> SUBSET Settled], the settled statuses the *)
          (* ticket has had                                                *)

(* The statuses after which the gateway expects no further change; with    *)
(* CancelSettled one of them may yet give way to "cancelled".              *)
Settled == {"matched", "cancelled", "timeout"}

Status == {"none", "queued"} \cup Settled

(* The fields of coreclient.Ticket the gateway's control depends on;       *)
(* matchID says that MatchID is not the empty string.                      *)
TicketState ==
  [status : Status, matchID : BOOLEAN, player : Player \cup {NoPlayer}]

(* The zero value of coreclient.Ticket, also an id not issued yet.         *)
Blank == [status |-> "none", matchID |-> FALSE, player |-> NoPlayer]

CoreRankInit ==
  /\ ticket = [t \in Ticket |-> Blank]
  /\ given = [t \in Ticket |-> {}]

Issued == {t \in Ticket : ticket[t].status # "none"}

(* POST /api/match/tickets *)
CreateTicket(t, p) ==
  /\ t \notin Issued
  /\ ticket' = [ticket EXCEPT ![t] =
       [status |-> "queued", matchID |-> FALSE, player |-> p]]
  /\ UNCHANGED given

Gives(t, status) == given' = [given EXCEPT ![t] = @ \cup {status}]

CanCancel(t) == CancelSettled \/ ticket[t].status = "queued"

(* DELETE /api/match/tickets/{id}: the match id, if any, stays.            *)
CancelTicket(t) ==
  /\ CanCancel(t)
  /\ ticket' = [ticket EXCEPT ![t].status = "cancelled"]
  /\ Gives(t, "cancelled")

(* CoreRank pairs a queued ticket with another one, which may have reached *)
(* it through another gateway.  A matched ticket may carry no match id:    *)
(* isMatched and pushMatch provide for that.                               *)
MatchTicket(t) ==
  /\ ticket[t].status = "queued"
  /\ \E id \in BOOLEAN :
       ticket' = [ticket EXCEPT ![t].status = "matched", ![t].matchID = id]
  /\ Gives(t, "matched")

(* The ticket's max_wait_ms runs out in CoreRank.                          *)
ExpireTicket(t) ==
  /\ ticket[t].status = "queued"
  /\ ticket' = [ticket EXCEPT ![t].status = "timeout"]
  /\ Gives(t, "timeout")
=============================================================================
