----------------------------- MODULE Matchmaking -----------------------------
(***************************************************************************)
(* The match flow of ArenaGate (internal/gateway/server.go): one reader    *)
(* goroutine per WebSocket session, which runs the message handlers one    *)
(* after the other, and one pollMatch goroutine per announced ticket.      *)
(* They share the session's PendingTicket, the connection they write to    *)
(* and CoreRank's tickets.                                                 *)
(*                                                                         *)
(* A step ends wherever another goroutine can come in between: at a call   *)
(* to CoreRank, at the lock of the session, at a write to the connection.  *)
(* A message that is answered with an error, a pong, a notice or the       *)
(* maintenance state changes nothing kept here and has no action.          *)
(***************************************************************************)
EXTENDS CoreRank

CONSTANTS
  Session,   (* sessions, one per accepted connection; not reused          *)
  NoSession, (* the session of a poller that has not been started          *)
  NoTicket,  (* the empty ticket_id                                        *)
  Faults,    (* which CoreRank calls may fail ("result" is GetResult), and *)
             (* "exit": the process may end                                *)
  Trouble,   (* tickets whose pollers' calls may fail, GetResult only if   *)
             (* "result" is among the Faults, or be so late that the timer *)
             (* fires on a settled ticket                                  *)
  Habits     (* how clients restrain themselves; {} is any client          *)

ASSUME MatchmakingAssumption ==
  /\ NoSession \notin Session
  /\ NoTicket \notin Ticket
  /\ Faults \subseteq {"create", "get", "cancel", "result", "exit"}
  /\ Trouble \subseteq Ticket
  /\ Habits \subseteq {"one_waiting", "one_poller", "current_ticket"}

VARIABLES
  sock,    (* [Session -> "none", "open", "gone" (peer left) or "closed"]  *)
  player,  (* [Session -> Session.PlayerID]; Authed iff not NoPlayer       *)
  claims,  (* history: <<session, ticket, "own">> when the session has     *)
           (*   enqueued it for the player it was bound to, and "asked"    *)
           (*   when a match_status named it and it was not pending        *)
  pending, (* [Session -> Session.PendingTicket]                           *)
  reader,  (* [Session -> where the reader is, its ticket and CoreRank's   *)
           (*   last answer about it]                                      *)
  poller,  (* [Ticket -> where pollMatch for it is, for which session, and *)
           (*   CoreRank's last answer]                                    *)
  told     (* history: <<session, ticket, news>> written to an open        *)
           (*   connection, news being the status or "waiting"             *)

vars ==
  <<ticket, given, sock, player, claims, pending, reader, poller, told>>

Handling == {"creating", "created", "announce", "fetch", "found", "cancel",
             "cancelled", "confirm", "status", "report"}
Enqueueing == {"creating", "created", "announce", "fetch", "found"}
Leaving == {"leave", "orphan", "closed"}
ReaderState ==
  [at : {"new", "read"} \cup Handling \cup Leaving,
   ticket : Ticket \cup {NoTicket}, seen : TicketState]

Running == {"select", "get", "fetch", "found", "settle", "report"}
PollerState ==
  [at : {"off"}, session : {NoSession}, seen : {Blank}]
    \cup [at : {"ended"} \cup Running, session : Session, seen : TicketState]

News == Settled \cup {"queued", "waiting"}

Init ==
  /\ CoreRankInit
  /\ sock = [s \in Session |-> "none"]
  /\ player = [s \in Session |-> NoPlayer]
  /\ claims = {}
  /\ pending = [s \in Session |-> NoTicket]
  /\ reader = [s \in Session |->
                [at |-> "new", ticket |-> NoTicket, seen |-> Blank]]
  /\ poller = [t \in Ticket |->
                [at |-> "off", session |-> NoSession, seen |-> Blank]]
  /\ told = {}

-----------------------------------------------------------------------------
(* Helpers *)

(* Mutated form: && for || in the test.                                    *)
IsMatchedBoth(answer) == answer.status = "matched" /\ answer.matchID

IsMatched(answer) == answer.status = "matched" \/ answer.matchID

(* The deferred cancel() has run: pollMatch sees ctx.Done().  Of a process *)
(* that has ended nothing is left but a request under way ("orphan").      *)
Cancelled(s) == reader[s].at \in Leaving

Polling(t, s) == poller[t].at \in Running /\ poller[t].session = s

ReaderGoes(s, place, t, answer) ==
  reader' = [reader EXCEPT ![s] =
               [at |-> place, ticket |-> t, seen |-> answer]]

BackToRead(s) == ReaderGoes(s, "read", NoTicket, Blank)

PollerGoes(t, place, answer) ==
  poller' = [poller EXCEPT ![t] =
               [at |-> place, session |-> @.session, seen |-> answer]]

(* A write to the connection: its news arrives only if it is still open.   *)
Tell(s, t, news) ==
  told' = IF sock[s] = "open" THEN told \cup {<<s, t, news>>} ELSE told

SetPending(s, t) == pending' = [pending EXCEPT ![s] = t]

(* The tickets a cancel_match or match_status message can be about: any    *)
(* ticket_id, or with none the pending ticket.                             *)
Named(s) ==
  (IF "current_ticket" \in Habits THEN {} ELSE Issued)
    \cup ({pending[s]} \ {NoTicket})

-----------------------------------------------------------------------------
(* The connection *)

Accept(s) ==
  /\ reader[s].at = "new"
  /\ sock' = [sock EXCEPT ![s] = "open"]
  /\ BackToRead(s)
  /\ UNCHANGED <<ticket, given, player, claims, pending, poller, told>>

(* The peer is gone; the gateway learns of it from a failed read or write. *)
PeerLeaves(s) ==
  /\ sock[s] = "open"
  /\ sock' = [sock EXCEPT ![s] = "gone"]
  /\ UNCHANGED <<ticket, given, player, claims, pending, reader, poller>>
  /\ UNCHANGED told

(* ReadJSON fails: close frame, EOF, idle timeout, bad frame or bad JSON.  *)
(* The first deferred call cancels the context of the pollers.             *)
ReadEnds(s) ==
  /\ reader[s].at = "read"
  /\ ReaderGoes(s, "leave", NoTicket, Blank)
  /\ UNCHANGED <<ticket, given, sock, player, claims, pending, poller, told>>

(* The last deferred call closes the connection.                           *)
CloseConn(s) ==
  /\ reader[s].at = "leave"
  /\ sock' = [sock EXCEPT ![s] = "closed"]
  /\ ReaderGoes(s, "closed", NoTicket, Blank)
  /\ UNCHANGED <<ticket, given, player, claims, pending, poller, told>>

(* auth with a valid token, and no ban: the session is bound to p, which   *)
(* may be another player than before.                                      *)
HandleAuth(s, p) ==
  /\ reader[s].at = "read"
  /\ player' = [player EXCEPT ![s] = p]
  /\ UNCHANGED <<ticket, given, sock, claims, pending, reader, poller, told>>

-----------------------------------------------------------------------------
(* enqueue_match *)

(* A careful client enqueues again only when it knows what became of every *)
(* ticket it was told of ("one_waiting"), a more careful one only when the *)
(* poller of the ticket has had its say as well ("one_poller").            *)
MayEnqueue(s) ==
  /\ "one_waiting" \in Habits =>
       \A t \in Ticket : <<s, t, "queued">> \in told
         => \E news \in Settled : <<s, t, news>> \in told
  /\ "one_poller" \in Habits => ~ \E t \in Ticket : Polling(t, s)

(* The new ticket is s's own if it is for the player s is bound to.        *)
OwnIfBound(s, t) ==
  claims' = IF ticket'[t].player = player[s]
            THEN claims \cup {<<s, t, "own">>} ELSE claims

(* Mutated form: the ticket is for the player_id of the message.           *)
HandleEnqueueNamed(s, t) ==
  /\ reader[s].at = "read"
  /\ player[s] # NoPlayer
  /\ MayEnqueue(s)
  /\ \E p \in Player : CreateTicket(t, p)
  /\ OwnIfBound(s, t)
  /\ ReaderGoes(s, "creating", t, Blank)
  /\ UNCHANGED <<sock, player, pending, poller, told>>

(* The checks pass and CoreRank creates the ticket.  Nothing keeps a       *)
(* session from having several tickets at once.                            *)
HandleEnqueue(s, t) ==
  /\ reader[s].at = "read"
  /\ player[s] # NoPlayer
  /\ MayEnqueue(s)
  /\ CreateTicket(t, player[s])
  /\ OwnIfBound(s, t)
  /\ ReaderGoes(s, "creating", t, Blank)
  /\ UNCHANGED <<sock, player, pending, poller, told>>

CreateReply(s) ==
  /\ reader[s].at = "creating"
  /\ ReaderGoes(s, "created", reader[s].ticket, ticket[reader[s].ticket])
  /\ UNCHANGED <<ticket, given, sock, player, claims, pending, poller, told>>

(* The reply is lost: the client gets an error, CoreRank keeps the ticket. *)
CreateFails(s) ==
  /\ reader[s].at = "creating"
  /\ "create" \in Faults
  /\ BackToRead(s)
  /\ UNCHANGED <<ticket, given, sock, player, claims, pending, poller, told>>

EnqueueSetsPending(s) ==
  LET answer == reader[s].seen IN
  /\ reader[s].at = "created"
  /\ SetPending(s, reader[s].ticket)
  /\ ReaderGoes(s, IF IsMatched(answer) THEN "fetch" ELSE "announce",
                reader[s].ticket, answer)
  /\ UNCHANGED <<ticket, given, sock, player, claims, poller, told>>

(* Mutated form: one poller for a session at a time.                       *)
AnnounceOnce(s) ==
  LET t == reader[s].ticket IN
  /\ reader[s].at = "announce"
  /\ Tell(s, t, "queued")
  /\ poller' = IF \E u \in Ticket : Polling(u, s) THEN poller
               ELSE [poller EXCEPT ![t] =
                       [at |-> "select", session |-> s, seen |-> Blank]]
  /\ BackToRead(s)
  /\ UNCHANGED <<ticket, given, sock, player, claims, pending>>

(* match_queued is written and pollMatch starts.                           *)
AnnounceQueued(s) ==
  LET t == reader[s].ticket IN
  /\ reader[s].at = "announce"
  /\ Tell(s, t, "queued")
  /\ poller' = [poller EXCEPT ![t] =
                  [at |-> "select", session |-> s, seen |-> Blank]]
  /\ BackToRead(s)
  /\ UNCHANGED <<ticket, given, sock, player, claims, pending>>

(* The write fails: the handler returns without starting pollMatch.        *)
AnnounceFails(s) ==
  /\ reader[s].at = "announce"
  /\ sock[s] # "open"
  /\ BackToRead(s)
  /\ UNCHANGED <<ticket, given, sock, player, claims, pending, poller, told>>

-----------------------------------------------------------------------------
(* pushMatch, called by the reader *)

(* GetResult succeeds, or there is no match id to ask it for.              *)
ReaderClearsMatched(s) ==
  /\ reader[s].at = "fetch"
  /\ SetPending(s, NoTicket)
  /\ ReaderGoes(s, "found", reader[s].ticket, reader[s].seen)
  /\ UNCHANGED <<ticket, given, sock, player, claims, poller, told>>

(* GetResult fails: the client gets the error in place of the match.       *)
ReaderResultFails(s) ==
  /\ reader[s].at = "fetch"
  /\ reader[s].seen.matchID
  /\ "result" \in Faults
  /\ BackToRead(s)
  /\ UNCHANGED <<ticket, given, sock, player, claims, pending, poller, told>>

ReaderTellsMatched(s) ==
  /\ reader[s].at = "found"
  /\ Tell(s, reader[s].ticket, "matched")
  /\ BackToRead(s)
  /\ UNCHANGED <<ticket, given, sock, player, claims, pending, poller>>

-----------------------------------------------------------------------------
(* cancel_match *)

HandleCancel(s, t) ==
  /\ reader[s].at = "read"
  /\ player[s] # NoPlayer
  /\ t \in Named(s)
  /\ ReaderGoes(s, "cancel", t, Blank)
  /\ UNCHANGED <<ticket, given, sock, player, claims, pending, poller, told>>

CancelReply(s) ==
  /\ reader[s].at = "cancel"
  /\ CancelTicket(reader[s].ticket)
  /\ ReaderGoes(s, "cancelled", reader[s].ticket, Blank)
  /\ UNCHANGED <<sock, player, claims, pending, poller, told>>

(* Mutated form: the error of CancelTicket is ignored.                     *)
CancelErrorIgnored(s) ==
  LET t == reader[s].ticket IN
  /\ reader[s].at = "cancel"
  /\ "cancel" \in Faults \/ ~CanCancel(t)
  /\ ReaderGoes(s, "cancelled", t, Blank)
  /\ UNCHANGED <<ticket, given, sock, player, claims, pending, poller, told>>

(* Mutated form: the pending ticket is cleared before the error is checked.*)
CancelFailsClears(s) ==
  LET t == reader[s].ticket IN
  /\ reader[s].at = "cancel"
  /\ \/ ("cancel" \in Faults \/ ~CanCancel(t)) /\ UNCHANGED <<ticket, given>>
     \/ "cancel" \in Faults /\ CancelTicket(t)
  /\ SetPending(s, NoTicket)
  /\ BackToRead(s)
  /\ UNCHANGED <<sock, player, claims, poller, told>>

(* CoreRank refuses, or the call fails before or after its effect: the     *)
(* client gets an error and the session keeps its pending ticket.          *)
CancelFails(s) ==
  LET t == reader[s].ticket IN
  /\ reader[s].at = "cancel"
  /\ \/ ("cancel" \in Faults \/ ~CanCancel(t)) /\ UNCHANGED <<ticket, given>>
     \/ "cancel" \in Faults /\ CancelTicket(t)
  /\ BackToRead(s)
  /\ UNCHANGED <<sock, player, claims, pending, poller, told>>

(* Whichever ticket was cancelled, PendingTicket is emptied.               *)
CancelClearsPending(s) ==
  /\ reader[s].at = "cancelled"
  /\ SetPending(s, NoTicket)
  /\ ReaderGoes(s, "confirm", reader[s].ticket, Blank)
  /\ UNCHANGED <<ticket, given, sock, player, claims, poller, told>>

TellCancelled(s) ==
  /\ reader[s].at = "confirm"
  /\ Tell(s, reader[s].ticket, "cancelled")
  /\ BackToRead(s)
  /\ UNCHANGED <<ticket, given, sock, player, claims, pending, poller>>

-----------------------------------------------------------------------------
(* match_status *)

HandleStatus(s, t) ==
  /\ reader[s].at = "read"
  /\ player[s] # NoPlayer
  /\ t \in Named(s)
  /\ claims' = IF t = pending[s] THEN claims
               ELSE claims \cup {<<s, t, "asked">>}
  /\ ReaderGoes(s, "status", t, Blank)
  /\ UNCHANGED <<ticket, given, sock, player, pending, poller, told>>

StatusReply(s) ==
  LET answer == ticket[reader[s].ticket] IN
  /\ reader[s].at = "status"
  /\ ReaderGoes(s, IF IsMatched(answer) THEN "fetch" ELSE "report",
                reader[s].ticket, answer)
  /\ UNCHANGED <<ticket, given, sock, player, claims, pending, poller, told>>

StatusFails(s) ==
  /\ reader[s].at = "status"
  /\ "get" \in Faults
  /\ BackToRead(s)
  /\ UNCHANGED <<ticket, given, sock, player, claims, pending, poller, told>>

TellStatus(s) ==
  /\ reader[s].at = "report"
  /\ Tell(s, reader[s].ticket, reader[s].seen.status)
  /\ BackToRead(s)
  /\ UNCHANGED <<ticket, given, sock, player, claims, pending, poller>>

-----------------------------------------------------------------------------
(* pollMatch *)

(* case <-ctx.Done() *)
PollStops(t) ==
  /\ poller[t].at = "select"
  /\ Cancelled(poller[t].session)
  /\ PollerGoes(t, "ended", Blank)
  /\ UNCHANGED <<ticket, given, sock, player, claims, pending, reader, told>>

(* Mutated form: the loop has no timer case.                               *)
PollNeverTimesOut(t) == FALSE

(* Mutated form: the timer case returns without a message.                 *)
PollTimesOutQuietly(t) ==
  /\ poller[t].at = "select"
  /\ ticket[t].status = "queued" \/ t \in Trouble
  /\ PollerGoes(t, "ended", Blank)
  /\ UNCHANGED <<ticket, given, sock, player, claims, pending, reader, told>>

(* Mutated form: the timer case reports the ticket as timed out.           *)
PollTimesOutSettled(t) ==
  /\ poller[t].at = "select"
  /\ ticket[t].status = "queued" \/ t \in Trouble
  /\ Tell(poller[t].session, t, "timeout")
  /\ PollerGoes(t, "ended", Blank)
  /\ UNCHANGED <<ticket, given, sock, player, claims, pending, reader>>

(* case <-timer.C: max_wait_ms plus five seconds have passed.  The timer   *)
(* wins over the polls of those five seconds, and so fires on a settled    *)
(* ticket, only when the polls are in trouble: module Waiting has the      *)
(* clocks that say so.                                                     *)
PollTimesOut(t) ==
  /\ poller[t].at = "select"
  /\ ticket[t].status = "queued" \/ t \in Trouble
  /\ Tell(poller[t].session, t, "waiting")
  /\ PollerGoes(t, "ended", Blank)
  /\ UNCHANGED <<ticket, given, sock, player, claims, pending, reader>>

(* case <-ticker.C *)
PollTick(t) ==
  /\ poller[t].at = "select"
  /\ PollerGoes(t, "get", Blank)
  /\ UNCHANGED <<ticket, given, sock, player, claims, pending, reader, told>>

PollReply(t) ==
  LET answer == ticket[t]
      place  == CASE IsMatched(answer) -> "fetch"
                  [] ~IsMatched(answer)
                     /\ answer.status \in {"cancelled", "timeout"} -> "settle"
                  [] OTHER -> "select"
  IN
  /\ poller[t].at = "get"
  /\ PollerGoes(t, place, IF place = "select" THEN Blank ELSE answer)
  /\ UNCHANGED <<ticket, given, sock, player, claims, pending, reader, told>>

(* Mutated form: return for continue after an error.                       *)
PollFailsEnds(t) ==
  /\ poller[t].at = "get"
  /\ t \in Trouble \/ Cancelled(poller[t].session)
  /\ PollerGoes(t, "ended", Blank)
  /\ UNCHANGED <<ticket, given, sock, player, claims, pending, reader, told>>

(* GetTicket fails, as it does once the context is cancelled: an error is  *)
(* written and polling goes on.                                            *)
PollFails(t) ==
  /\ poller[t].at = "get"
  /\ t \in Trouble \/ Cancelled(poller[t].session)
  /\ PollerGoes(t, "select", Blank)
  /\ UNCHANGED <<ticket, given, sock, player, claims, pending, reader, told>>

PollClearsMatched(t) ==
  /\ poller[t].at = "fetch"
  /\ SetPending(poller[t].session, NoTicket)
  /\ PollerGoes(t, "found", poller[t].seen)
  /\ UNCHANGED <<ticket, given, sock, player, claims, reader, told>>

(* GetResult fails: pollMatch drops the error of pushMatch and returns.    *)
PollResultFails(t) ==
  /\ poller[t].at = "fetch"
  /\ poller[t].seen.matchID
  /\ \/ "result" \in Faults /\ t \in Trouble
     \/ Cancelled(poller[t].session)
  /\ PollerGoes(t, "ended", Blank)
  /\ UNCHANGED <<ticket, given, sock, player, claims, pending, reader, told>>

PollTellsMatched(t) ==
  /\ poller[t].at = "found"
  /\ Tell(poller[t].session, t, "matched")
  /\ PollerGoes(t, "ended", Blank)
  /\ UNCHANGED <<ticket, given, sock, player, claims, pending, reader>>

(* Mutated form: the answer is dropped before it is written.               *)
PollForgetsSettled(t) ==
  /\ poller[t].at = "settle"
  /\ SetPending(poller[t].session, NoTicket)
  /\ PollerGoes(t, "report", Blank)
  /\ UNCHANGED <<ticket, given, sock, player, claims, reader, told>>

(* Cancelled or expired in CoreRank: whichever ticket is pending by now,   *)
(* PendingTicket is emptied.                                               *)
PollClearsSettled(t) ==
  /\ poller[t].at = "settle"
  /\ SetPending(poller[t].session, NoTicket)
  /\ PollerGoes(t, "report", poller[t].seen)
  /\ UNCHANGED <<ticket, given, sock, player, claims, reader, told>>

PollTellsSettled(t) ==
  /\ poller[t].at = "report"
  /\ Tell(poller[t].session, t, poller[t].seen.status)
  /\ PollerGoes(t, "ended", Blank)
  /\ UNCHANGED <<ticket, given, sock, player, claims, pending, reader>>
-----------------------------------------------------------------------------
(* The process *)

(* Shutdown does not wait for hijacked connections, and a crash for        *)
(* nothing: every reader and poller of the process is gone, while CoreRank *)
(* keeps its tickets, and a DELETE that was under way stays so.  The       *)
(* sessions that have not begun are those of the next process.             *)
ProcessEnds ==
  /\ "exit" \in Faults
  /\ sock' = [s \in Session |->
       IF reader[s].at = "new" THEN sock[s] ELSE "closed"]
  /\ reader' = [s \in Session |->
       CASE reader[s].at = "new" -> reader[s]
         [] reader[s].at \in {"cancel", "orphan"} ->
              [reader[s] EXCEPT !.at = "orphan"]
         [] OTHER -> [at |-> "closed", ticket |-> NoTicket, seen |-> Blank]]
  /\ poller' = [t \in Ticket |->
       IF poller[t].at \in Running
       THEN [poller[t] EXCEPT !.at = "ended", !.seen = Blank] ELSE poller[t]]
  /\ UNCHANGED <<ticket, given, player, claims, pending, told>>

(* The DELETE of a process that has ended reaches CoreRank, if it ever     *)
(* does, when the next process is already serving.                         *)
OrphanCancels(s) ==
  /\ reader[s].at = "orphan"
  /\ CancelTicket(reader[s].ticket)
  /\ ReaderGoes(s, "closed", NoTicket, Blank)
  /\ UNCHANGED <<sock, player, claims, pending, poller, told>>

-----------------------------------------------------------------------------
(* The specification *)

Client(s) ==
  \/ Accept(s) \/ PeerLeaves(s) \/ ReadEnds(s)
  \/ \E p \in Player : HandleAuth(s, p)
  \/ \E t \in Ticket :
       HandleEnqueue(s, t) \/ HandleCancel(s, t) \/ HandleStatus(s, t)

Reader(s) ==
  \/ CloseConn(s)
  \/ CreateReply(s) \/ CreateFails(s) \/ EnqueueSetsPending(s)
  \/ AnnounceQueued(s) \/ AnnounceFails(s)
  \/ ReaderClearsMatched(s) \/ ReaderResultFails(s) \/ ReaderTellsMatched(s)
  \/ CancelReply(s) \/ CancelFails(s) \/ CancelClearsPending(s)
  \/ TellCancelled(s)
  \/ StatusReply(s) \/ StatusFails(s) \/ TellStatus(s)

Poller(t) ==
  \/ PollStops(t) \/ PollTimesOut(t) \/ PollTick(t)
  \/ PollReply(t) \/ PollFails(t)
  \/ PollClearsMatched(t) \/ PollResultFails(t) \/ PollTellsMatched(t)
  \/ PollClearsSettled(t) \/ PollTellsSettled(t)

Matchmaker(t) ==
  /\ MatchTicket(t) \/ ExpireTicket(t)
  /\ UNCHANGED <<sock, player, claims, pending, reader, poller, told>>

Next ==
  \/ \E s \in Session : Client(s) \/ Reader(s)
  \/ \E t \in Ticket : Poller(t) \/ Matchmaker(t)
  \/ ProcessEnds
  \/ \E s \in Session : OrphanCancels(s)

Spec == Init /\ [][Next]_vars

(* Every goroutine that can run does, CoreRank calls return because the    *)
(* HTTP client has a timeout, and a select whose timer or ctx.Done() stays *)
(* ready cannot pick the ticker for ever.  Clients and CoreRank's matching *)
(* owe nothing.                                                            *)
Fairness ==
  /\ \A s \in Session : WF_vars(Reader(s))
  /\ \A t \in Ticket :
       /\ WF_vars(Poller(t))
       /\ SF_vars(PollStops(t))
       /\ SF_vars(PollTimesOut(t))

FairSpec == Spec /\ Fairness

-----------------------------------------------------------------------------
(* Properties *)

(* Types of the gateway's and CoreRank's state.                            *)
TypeOK ==
  /\ ticket \in [Ticket -> TicketState]
  /\ given \in [Ticket -> SUBSET Settled]
  /\ sock \in [Session -> {"none", "open", "gone", "closed"}]
  /\ player \in [Session -> Player \cup {NoPlayer}]
  /\ claims \subseteq Session \X Ticket \X {"own", "asked"}
  /\ pending \in [Session -> Ticket \cup {NoTicket}]
  /\ reader \in [Session -> ReaderState]
  /\ poller \in [Ticket -> PollerState]
  /\ told \subseteq Session \X Ticket \X News

(* Two outcomes for one ticket reach clients, on whatever sessions and     *)
(* through whatever goroutines they are told, before and after a restart   *)
(* of the gateway, only if CoreRank itself gave both, the second being a   *)
(* cancellation it accepted of a settled ticket, as the repository's fakes *)
(* do.  So a CoreRank that refuses those never makes clients disagree, and *)
(* no ticket is ever told both as matched and as timed out, although each  *)
(* outcome is read from CoreRank some steps before it is written.          *)
OutcomesAgree ==
  \A a, b \in told :
    a[2] = b[2] /\ a[3] \in Settled /\ b[3] \in Settled /\ a[3] # b[3]
      => given[a[2]] = {a[3], b[3]} /\ "cancelled" \in given[a[2]]

(* Matchmaking implements the abstract Verdicts: the statuses CoreRank     *)
(* gives are the verdicts, and what clients were told of settled tickets   *)
(* is what they heard.                                                     *)
V == INSTANCE Verdicts WITH
       MayOverturn <- CancelSettled,
       issued <- Issued,
       heard <- {h \in told : h[3] \in Settled}

ImplementsVerdicts == V!Spec

(* A poller never goes out in silence: when it has ended and its session   *)
(* still reads from an open connection, the client has been told what      *)
(* became of the ticket (docs/protocol.md: after a match ArenaGate pushes  *)
(* match_found).  Holds while GetResult does not fail.                     *)
NoSilentEnd ==
  \A t \in Ticket :
    LET s == poller[t].session IN
    poller[t].at = "ended" /\ sock[s] = "open" /\ ~Cancelled(s)
      => \E news \in Settled \cup {"waiting"} : <<s, t, news>> \in told

(* GetResult may fail, and then the silence of a poller means a match:     *)
(* nothing but a ticket with a match id goes untold, whatever fails, so a  *)
(* cancellation, an end of the wait or "still waiting" never does.         *)
OnlyMatchesGoUntold ==
  \A t \in Ticket :
    LET s == poller[t].session IN
    poller[t].at = "ended" /\ sock[s] = "open" /\ ~Cancelled(s)
      => \/ \E news \in Settled \cup {"waiting"} : <<s, t, news>> \in told
         \/ ticket[t].matchID

(* A ticket CoreRank has is being announced by the session that enqueued   *)
(* it, has had a poller, was matched and told to be, or that session has   *)
(* lost its connection, or GetResult has failed for its match and the      *)
(* client was told that: no session drops a ticket it has created.  Holds  *)
(* while the replies to CreateTicket arrive.                               *)
NoTicketDropped ==
  \A t \in Issued :
    \/ poller[t].at # "off"
    \/ "result" \in Faults /\ ticket[t].matchID
    \/ \E s \in Session :
         /\ <<s, t, "own">> \in claims
         /\ \/ reader[s].ticket = t /\ reader[s].at \in Enqueueing
            \/ <<s, t, "matched">> \in told
            \/ sock[s] \in {"gone", "closed"}

(* docs/protocol.md: with no ticket_id in the message ArenaGate uses the   *)
(* pending ticket of the session.  So while a session's ticket waits and   *)
(* is polled for, a request without ticket_id finds a ticket.  Fails even  *)
(* for "one_waiting" clients: the poller of a cancelled ticket empties the *)
(* PendingTicket of the next one.                                          *)
WaitingTicketPending ==
  \A s \in Session, t \in Ticket :
    /\ reader[s].at = "read" /\ sock[s] = "open"
    /\ Polling(t, s) /\ ticket[t].status = "queued"
    => pending[s] # NoTicket

(* For "one_poller" clients that send nothing about an old ticket, the     *)
(* pending ticket is the one that waits.                                   *)
PendingIsPolled ==
  \A s \in Session, t \in Ticket :
    reader[s].at = "read" /\ Polling(t, s) /\ ticket[t].status = "queued"
      => pending[s] = t

(* match_found reaches a connection that enqueued the ticket, for the      *)
(* player it was bound to then, whoever the session is by now and whatever *)
(* has become of PendingTicket, or one whose client has asked for the      *)
(* ticket by its id.  Nothing is assumed of clients.                       *)
FoundReachesOwner ==
  \A h \in told : h[3] = "matched"
    => \E claim \in {"own", "asked"} : <<h[1], h[2], claim>> \in claims

(* Polling never just goes on: the client is told an outcome, or that the  *)
(* ticket still waits, or the session ends, or GetResult has failed for    *)
(* the match (which silent_poller shows to end the poller without a word). *)
PollingIsAnswered ==
  \A s \in Session, t \in Ticket :
    Polling(t, s)
      ~> \/ \E news \in Settled \cup {"waiting"} : <<s, t, news>> \in told
         \/ sock[s] # "open" \/ Cancelled(s)
         \/ /\ "result" \in Faults /\ t \in Trouble
            /\ poller[t].at = "ended" /\ ticket[t].matchID

(* A match made while pollMatch runs is pushed, unless the session ends,   *)
(* the poller's calls are in trouble (a GetTicket that fails or is late, a *)
(* GetResult that fails), or CoreRank cancels the ticket after all, which  *)
(* has no match id to tell of it, and the client is told that.             *)
MatchIsPushed ==
  \A s \in Session, t \in Ticket \ Trouble :
    Polling(t, s) /\ ticket[t].status = "matched"
      ~> \/ <<s, t, "matched">> \in told
         \/ sock[s] # "open" \/ Cancelled(s)
         \/ /\ <<s, t, "cancelled">> \in told
            /\ ticket[t].status = "cancelled" /\ ~ticket[t].matchID
=============================================================================
