-------------------------- MODULE MatchmakingProofs --------------------------
(***************************************************************************)
(* Proofs about Matchmaking, for every set of sessions, tickets and        *)
(* players, every client and every fault.                                  *)
(***************************************************************************)
EXTENDS Matchmaking, TLAPS

-----------------------------------------------------------------------------
(* The typing invariant, one conjunct for each part of the state.  Beyond  *)
(* types it says that handlers work only on tickets CoreRank has issued,   *)
(* and that what a goroutine is about to report has been decided.          *)

TicketInv ==
  /\ ticket \in [Ticket -> TicketState]
  /\ given \in [Ticket -> SUBSET Settled]
  /\ \A t \in Ticket : ticket[t].matchID => t \in Issued

ConnInv ==
  /\ sock \in [Session -> {"none", "open", "gone", "closed"}]
  /\ player \in [Session -> Player \cup {NoPlayer}]
  /\ claims \subseteq Session \X Ticket \X {"own", "asked"}

PendingInv ==
  /\ pending \in [Session -> Ticket \cup {NoTicket}]
  /\ \A s \in Session : pending[s] # NoTicket => pending[s] \in Issued

ReaderInv ==
  /\ reader \in [Session -> ReaderState]
  /\ \A s \in Session :
       reader[s].at \in Handling \cup {"orphan"} => reader[s].ticket \in Issued
  /\ \A s \in Session : reader[s].at = "report" => reader[s].seen.status # "none"

PollerInv ==
  /\ poller \in [Ticket -> PollerState]
  /\ \A t \in Ticket : poller[t].at \in {"settle", "report"} =>
       poller[t].seen.status \in {"cancelled", "timeout"}

ToldInv == told \subseteq Session \X Ticket \X News

TypeInv ==
  TicketInv /\ ConnInv /\ PendingInv /\ ReaderInv /\ PollerInv /\ ToldInv

-----------------------------------------------------------------------------
(* What the parts of a step do to the parts of the invariant.              *)

LEMMA BlankTyped ==
  Blank \in TicketState /\ Blank.status = "none" /\ Blank.matchID = FALSE
BY DEF Blank, TicketState, Status

LEMMA Stays ==
  ASSUME TypeInv, Issued \subseteq Issued'
  PROVE  /\ UNCHANGED <<ticket, given>> => TicketInv'
         /\ UNCHANGED <<sock, player, claims>> => ConnInv'
         /\ UNCHANGED pending => PendingInv'
         /\ UNCHANGED reader => ReaderInv'
         /\ UNCHANGED poller => PollerInv'
         /\ UNCHANGED told => ToldInv'
<1> USE DEF TypeInv
<1>1. UNCHANGED <<ticket, given>> => TicketInv'
  BY DEF TicketInv
<1>2. UNCHANGED <<sock, player, claims>> => ConnInv'
  BY DEF ConnInv
<1>3. UNCHANGED pending => PendingInv'
  BY DEF PendingInv
<1>4. UNCHANGED reader => ReaderInv'
  BY DEF ReaderInv
<1>5. UNCHANGED poller => PollerInv'
  BY DEF PollerInv
<1>6. UNCHANGED told => ToldInv'
  BY DEF ToldInv
<1> QED
  BY <1>1, <1>2, <1>3, <1>4, <1>5, <1>6

(* CoreRank never withdraws a ticket id.                                   *)
LEMMA IssuedStays == UNCHANGED ticket => Issued \subseteq Issued'
BY DEF Issued

LEMMA Decided ==
  ASSUME TicketInv, NEW t \in Issued, NEW v \in Settled, NEW id \in BOOLEAN,
         \/ ticket' = [ticket EXCEPT ![t].status = v]
         \/ ticket' = [ticket EXCEPT ![t].status = v, ![t].matchID = id],
         Gives(t, v)
  PROVE  TicketInv' /\ Issued \subseteq Issued'
BY DEF TicketInv, TicketState, Status, Settled, Issued, Gives

LEMMA Created ==
  ASSUME TicketInv, NEW t \in Ticket, NEW p \in Player, CreateTicket(t, p)
  PROVE  TicketInv' /\ Issued \subseteq Issued' /\ t \in Issued'
BY DEF TicketInv, TicketState, Status, CreateTicket, Issued

LEMMA PendingSet ==
  ASSUME PendingInv, NEW s \in Session, NEW t \in Ticket \cup {NoTicket},
         t # NoTicket => t \in Issued, Issued \subseteq Issued', SetPending(s, t)
  PROVE  PendingInv'
BY DEF PendingInv, SetPending

LEMMA ReaderMoves ==
  ASSUME ReaderInv, NEW s \in Session,
         NEW place \in {"new", "read"} \cup Handling \cup Leaving,
         NEW t \in Ticket \cup {NoTicket}, NEW answer \in TicketState,
         place \in Handling \cup {"orphan"} => t \in Issued',
         place = "report" => answer.status # "none",
         Issued \subseteq Issued', ReaderGoes(s, place, t, answer)
  PROVE  ReaderInv'
<1>1. /\ reader' \in [Session -> ReaderState]
      /\ reader'[s] = [at |-> place, ticket |-> t, seen |-> answer]
      /\ \A r \in Session : r # s => reader'[r] = reader[r]
  BY DEF ReaderInv, ReaderGoes, ReaderState
<1> QED
  BY <1>1 DEF ReaderInv

LEMMA ReaderReturns ==
  ASSUME ReaderInv, NEW s \in Session, Issued \subseteq Issued', BackToRead(s)
  PROVE  ReaderInv'
BY ReaderMoves, BlankTyped DEF BackToRead, Handling

LEMMA PollerMoves ==
  ASSUME PollerInv, NEW t \in Ticket, poller[t].at \in Running,
         NEW place \in {"ended"} \cup Running, NEW answer \in TicketState,
         place \in {"settle", "report"}
           => answer.status \in {"cancelled", "timeout"},
         PollerGoes(t, place, answer)
  PROVE  PollerInv'
<1>1. poller[t].session \in Session
  BY DEF PollerInv, PollerState, Running
<1>2. /\ poller' \in [Ticket -> PollerState]
      /\ poller'[t] = [at |-> place, session |-> poller[t].session,
                       seen |-> answer]
      /\ \A u \in Ticket : u # t => poller'[u] = poller[u]
  BY <1>1 DEF PollerGoes, PollerInv, PollerState
<1> QED
  BY <1>2 DEF PollerInv

LEMMA Tells ==
  ASSUME ToldInv, NEW s \in Session, NEW t \in Ticket, NEW news \in News,
         Tell(s, t, news)
  PROVE  ToldInv'
BY DEF Tell, ToldInv

-----------------------------------------------------------------------------
(* Every step keeps the typing invariant.                                  *)

LEMMA ClientTypes ==
  ASSUME TypeInv, NEW s \in Session, Client(s)
  PROVE  TypeInv'
<1> USE IssuedStays, Stays DEF TypeInv
<1>1. CASE Accept(s)
  BY <1>1, ReaderReturns DEF Accept, ConnInv
<1>2. CASE PeerLeaves(s)
  BY <1>2 DEF PeerLeaves, ConnInv
<1>3. CASE ReadEnds(s)
  BY <1>3, ReaderMoves, BlankTyped DEF ReadEnds, Handling, Leaving
<1>4. ASSUME NEW p \in Player, HandleAuth(s, p) PROVE TypeInv'
  BY <1>4 DEF HandleAuth, ConnInv
<1>5. ASSUME NEW t \in Ticket, HandleEnqueue(s, t) PROVE TypeInv'
  <2>1. /\ TicketInv' /\ Issued \subseteq Issued' /\ t \in Issued'
        /\ player[s] \in Player
    BY <1>5, Created DEF HandleEnqueue, ConnInv
  <2>2. ConnInv'
    BY <1>5 DEF HandleEnqueue, OwnIfBound, ConnInv
  <2> QED
    BY <1>5, <2>1, <2>2, ReaderMoves, BlankTyped DEF HandleEnqueue, Handling
<1>6. ASSUME NEW t \in Ticket, HandleCancel(s, t) PROVE TypeInv'
  BY <1>6, ReaderMoves, BlankTyped DEF HandleCancel, Named, Handling, PendingInv
<1>7. ASSUME NEW t \in Ticket, HandleStatus(s, t) PROVE TypeInv'
  <2>1. ConnInv'
    BY <1>7 DEF HandleStatus, ConnInv
  <2> QED
    BY <1>7, <2>1, ReaderMoves, BlankTyped
    DEF HandleStatus, Named, Handling, PendingInv
<1> QED
  BY <1>1, <1>2, <1>3, <1>4, <1>5, <1>6, <1>7 DEF Client

LEMMA ReaderTypes ==
  ASSUME TypeInv, NEW s \in Session, Reader(s)
  PROVE  TypeInv'
<1> USE IssuedStays, Stays DEF TypeInv
<1> DEFINE t == reader[s].ticket
<1>0. /\ t \in Ticket \cup {NoTicket}
      /\ reader[s].seen \in TicketState
      /\ reader[s].at \in Handling => t \in Ticket /\ t \in Issued
  BY DEF ReaderInv, ReaderState, Issued
<1>1. CASE CloseConn(s)
  BY <1>1, ReaderMoves, BlankTyped DEF CloseConn, ConnInv, Handling, Leaving
<1>2. CASE CreateReply(s)
  BY <1>0, <1>2, ReaderMoves DEF CreateReply, Handling, TicketInv
<1>3. CASE CreateFails(s)
  BY <1>3, ReaderReturns DEF CreateFails
<1>4. CASE EnqueueSetsPending(s)
  BY <1>0, <1>4, ReaderMoves, PendingSet DEF EnqueueSetsPending, Handling
<1>5. CASE AnnounceQueued(s)
  <2>1. t \in Ticket
    BY <1>0, <1>5 DEF AnnounceQueued, Handling
  <2>2. PollerInv'
    BY <1>5, <2>1, BlankTyped DEF AnnounceQueued, PollerInv, PollerState, Running
  <2> QED
    BY <1>5, <2>1, <2>2, ReaderReturns, Tells DEF AnnounceQueued, News
<1>6. CASE AnnounceFails(s)
  BY <1>6, ReaderReturns DEF AnnounceFails
<1>7. CASE ReaderClearsMatched(s)
  BY <1>0, <1>7, ReaderMoves, PendingSet DEF ReaderClearsMatched, Handling
<1>8. CASE ReaderResultFails(s)
  BY <1>8, ReaderReturns DEF ReaderResultFails
<1>9. CASE ReaderTellsMatched(s)
  BY <1>0, <1>9, ReaderReturns, Tells
  DEF ReaderTellsMatched, Handling, News, Settled
<1>10. CASE CancelReply(s)
  BY <1>0, <1>10, ReaderMoves, BlankTyped, Decided
  DEF CancelReply, CancelTicket, Handling, Settled
<1>11. CASE CancelFails(s)
  BY <1>0, <1>11, ReaderReturns, Decided
  DEF CancelFails, CancelTicket, Handling, Settled
<1>12. CASE CancelClearsPending(s)
  BY <1>0, <1>12, ReaderMoves, BlankTyped, PendingSet
  DEF CancelClearsPending, Handling
<1>13. CASE TellCancelled(s)
  BY <1>0, <1>13, ReaderReturns, Tells DEF TellCancelled, Handling, News, Settled
<1>14. CASE StatusReply(s)
  BY <1>0, <1>14, ReaderMoves DEF StatusReply, Handling, TicketInv, Issued
<1>15. CASE StatusFails(s)
  BY <1>15, ReaderReturns DEF StatusFails
<1>16. CASE TellStatus(s)
  <2>1. reader[s].seen.status \in News /\ t \in Ticket
    BY <1>0, <1>16
    DEF TellStatus, Handling, ReaderInv, TicketState, Status, News, Settled
  <2> QED
    BY <1>16, <2>1, ReaderReturns, Tells DEF TellStatus
<1> QED
  BY <1>1, <1>2, <1>3, <1>4, <1>5, <1>6, <1>7, <1>8, <1>9, <1>10, <1>11,
     <1>12, <1>13, <1>14, <1>15, <1>16 DEF Reader

LEMMA PollerTypes ==
  ASSUME TypeInv, NEW t \in Ticket, Poller(t)
  PROVE  TypeInv'
<1> USE IssuedStays, Stays DEF TypeInv
<1> DEFINE s == poller[t].session
<1>0. /\ poller[t].seen \in TicketState
      /\ poller[t].at \in Running => s \in Session
  BY BlankTyped DEF PollerInv, PollerState, Running
<1>1. CASE PollStops(t)
  BY <1>1, PollerMoves, BlankTyped DEF PollStops, Running
<1>2. CASE PollTimesOut(t)
  BY <1>0, <1>2, PollerMoves, BlankTyped, Tells DEF PollTimesOut, Running, News
<1>3. CASE PollTick(t)
  BY <1>3, PollerMoves, BlankTyped DEF PollTick, Running
<1>4. CASE PollReply(t)
  <2>1. ticket[t] \in TicketState
    BY DEF TicketInv
  <2> QED
    BY <1>4, <2>1, PollerMoves, BlankTyped DEF PollReply, Running
<1>5. CASE PollFails(t)
  BY <1>5, PollerMoves, BlankTyped DEF PollFails, Running
<1>6. CASE PollClearsMatched(t)
  BY <1>0, <1>6, PollerMoves, PendingSet DEF PollClearsMatched, Running
<1>7. CASE PollResultFails(t)
  BY <1>7, PollerMoves, BlankTyped DEF PollResultFails, Running
<1>8. CASE PollTellsMatched(t)
  BY <1>0, <1>8, PollerMoves, BlankTyped, Tells
  DEF PollTellsMatched, Running, News, Settled
<1>9. CASE PollClearsSettled(t)
  BY <1>0, <1>9, PollerMoves, PendingSet DEF PollClearsSettled, Running, PollerInv
<1>10. CASE PollTellsSettled(t)
  <2>1. poller[t].seen.status \in News
    BY <1>10 DEF PollTellsSettled, PollerInv, News, Settled
  <2> QED
    BY <1>0, <1>10, <2>1, PollerMoves, BlankTyped, Tells
    DEF PollTellsSettled, Running
<1> QED
  BY <1>1, <1>2, <1>3, <1>4, <1>5, <1>6, <1>7, <1>8, <1>9, <1>10 DEF Poller

LEMMA MatchmakerTypes ==
  ASSUME TypeInv, NEW t \in Ticket, Matchmaker(t)
  PROVE  TypeInv'
<1>1. t \in Issued
  BY DEF Matchmaker, MatchTicket, ExpireTicket, Issued
<1>2. TicketInv' /\ Issued \subseteq Issued'
  BY <1>1, Decided
  DEF Matchmaker, MatchTicket, ExpireTicket, Settled, TypeInv
<1> QED
  BY <1>2, Stays DEF Matchmaker, TypeInv

LEMMA ExitTypes ==
  ASSUME TypeInv, ProcessEnds
  PROVE  TypeInv'
<1>1. \A s \in Session :
        /\ reader[s] \in ReaderState
        /\ reader[s].at = "cancel" \/ reader[s].at = "orphan"
             => reader[s].ticket \in Issued
  BY DEF TypeInv, ReaderInv, Handling
<1>2. reader' = [s \in Session |-> reader'[s]]
  BY DEF ProcessEnds
<1>3. ASSUME NEW s \in Session
      PROVE  /\ reader'[s] \in ReaderState
             /\ reader'[s].at \in Handling \cup {"orphan"} => reader'[s].ticket \in Issued
             /\ reader'[s].at # "report"
  BY <1>1, BlankTyped DEF ProcessEnds, ReaderState, Handling, Leaving
<1>4. ReaderInv'
  BY <1>2, <1>3 DEF ReaderInv, ProcessEnds, Issued
<1>5. PollerInv'
  BY BlankTyped DEF ProcessEnds, TypeInv, PollerInv, PollerState, Running
<1>6. ConnInv'
  BY DEF ProcessEnds, TypeInv, ConnInv
<1> QED
  BY <1>4, <1>5, <1>6, IssuedStays, Stays DEF ProcessEnds, TypeInv

LEMMA OrphanTypes ==
  ASSUME TypeInv, NEW s \in Session, OrphanCancels(s)
  PROVE  TypeInv'
<1>1. reader[s].ticket \in Issued
  BY DEF OrphanCancels, TypeInv, ReaderInv
<1> QED
  BY <1>1, Stays, ReaderMoves, BlankTyped, Decided
  DEF OrphanCancels, CancelTicket, Handling, Leaving, Settled, TypeInv

(* The typing invariant holds in every reachable state.                    *)
THEOREM TypeInvariant == Spec => []TypeInv
<1>1. Init => TypeInv
  BY BlankTyped
  DEF Init, CoreRankInit, TypeInv, TicketInv, ConnInv, PendingInv, ReaderInv,
      PollerInv, ToldInv, Issued, ReaderState, PollerState, Handling
<1>2. TypeInv /\ [Next]_vars => TypeInv'
  <2>1. TypeInv /\ UNCHANGED vars => TypeInv'
    BY IssuedStays, Stays DEF vars, TypeInv
  <2> QED
    BY <2>1, ClientTypes, ReaderTypes, PollerTypes, MatchmakerTypes, ExitTypes,
       OrphanTypes DEF Next
<1> QED
  BY <1>1, <1>2, PTL DEF Spec

(* Handlers and pollers keep the types of the shared state.                *)
THEOREM TypeCorrect == Spec => []TypeOK
<1>1. TypeInv => TypeOK
  BY DEF TypeInv, TicketInv, ConnInv, PendingInv, ReaderInv, PollerInv,
         ToldInv, TypeOK
<1> QED
  BY <1>1, TypeInvariant, PTL

-----------------------------------------------------------------------------
(* The truth of what the gateway says about a ticket.  An answer is read   *)
(* from CoreRank some steps before it is written, and by then CoreRank may *)
(* have cancelled the ticket, so the invariant is about what CoreRank has  *)
(* given: whoever holds a settled answer holds one of those.               *)

CoreTruth ==
  \A t \in Ticket :
    /\ ticket[t].matchID => "matched" \in given[t]
    /\ ticket[t].status \in Settled => ticket[t].status \in given[t]
    /\ ticket[t].status \notin Settled => given[t] = {}
    /\ \E v \in Settled : given[t] \subseteq {v, "cancelled"}
    /\ ~CancelSettled => given[t] \subseteq {ticket[t].status}

(* What a goroutine at `place`, working on ticket t with CoreRank's        *)
(* `answer`, knows of what CoreRank has given.                             *)
Knows(gifts, place, t, answer) ==
  /\ answer.matchID => t \in Ticket /\ "matched" \in gifts[t]
  /\ answer.status \in Settled => t \in Ticket /\ answer.status \in gifts[t]
  /\ place \in {"fetch", "found"} => IsMatched(answer)
  /\ place \in {"cancelled", "confirm"}
       => t \in Ticket /\ "cancelled" \in gifts[t]

ReaderTruth ==
  \A s \in Session : Knows(given, reader[s].at, reader[s].ticket, reader[s].seen)

PollerTruth == \A t \in Ticket : Knows(given, poller[t].at, t, poller[t].seen)

ToldTruth ==
  \A h \in told : h[3] \in Settled => h[3] \in given[h[2]]

TruthInv == CoreTruth /\ ReaderTruth /\ PollerTruth /\ ToldTruth

(* CoreRank cannot take back what it has given.                            *)
GivenGrows == \A t \in Ticket : given[t] \subseteq given'[t]

LEMMA KnowsBlank ==
  ASSUME NEW gifts, NEW place, NEW t,
         place \notin {"fetch", "found", "cancelled", "confirm"}
  PROVE  Knows(gifts, place, t, Blank)
BY DEF Knows, Blank, Settled, IsMatched

LEMMA KnowsStill ==
  ASSUME GivenGrows, NEW place, NEW t, NEW answer,
         Knows(given, place, t, answer)
  PROVE  Knows(given', place, t, answer)
BY DEF Knows, GivenGrows

LEMMA TruthStays ==
  ASSUME TypeInv, TruthInv, GivenGrows
  PROVE  /\ UNCHANGED <<ticket, given>> => CoreTruth'
         /\ UNCHANGED reader => ReaderTruth'
         /\ UNCHANGED poller => PollerTruth'
         /\ UNCHANGED told => ToldTruth'
<1> USE DEF TruthInv, GivenGrows
<1>1. UNCHANGED <<ticket, given>> => CoreTruth'
  BY DEF CoreTruth
<1>2. UNCHANGED reader => ReaderTruth'
  BY KnowsStill DEF ReaderTruth
<1>3. UNCHANGED poller => PollerTruth'
  BY KnowsStill DEF PollerTruth
<1>4. UNCHANGED told => ToldTruth'
  BY DEF ToldTruth, TypeInv, ToldInv
<1> QED
  BY <1>1, <1>2, <1>3, <1>4

LEMMA ReaderLearns ==
  ASSUME TypeInv, TruthInv, GivenGrows, NEW s \in Session,
         NEW place, NEW t, NEW answer,
         ReaderGoes(s, place, t, answer), Knows(given', place, t, answer)
  PROVE  ReaderTruth'
<1>1. \A r \in Session :
        reader'[r] = IF r = s THEN [at |-> place, ticket |-> t, seen |-> answer]
                              ELSE reader[r]
  BY DEF ReaderGoes, TypeInv, ReaderInv
<1>2. \A r \in Session : Knows(given, reader[r].at, reader[r].ticket, reader[r].seen)
  BY DEF TruthInv, ReaderTruth
<1>3. ASSUME NEW r \in Session
      PROVE  Knows(given', reader'[r].at, reader'[r].ticket, reader'[r].seen)
  <2>1. CASE r = s
    BY <1>1, <2>1
  <2>2. CASE r # s
    BY <1>1, <1>2, <2>2, KnowsStill
  <2> QED
    BY <2>1, <2>2
<1> QED
  BY <1>3 DEF ReaderTruth

LEMMA PollerLearns ==
  ASSUME TypeInv, TruthInv, GivenGrows, NEW t \in Ticket,
         NEW place, NEW answer,
         PollerGoes(t, place, answer), Knows(given', place, t, answer)
  PROVE  PollerTruth'
<1>1. \A u \in Ticket : u # t => poller'[u] = poller[u]
  BY DEF PollerGoes, TypeInv, PollerInv
<1>2. poller'[t].at = place /\ poller'[t].seen = answer
  BY DEF PollerGoes, TypeInv, PollerInv
<1>3. \A u \in Ticket : Knows(given, poller[u].at, u, poller[u].seen)
  BY DEF TruthInv, PollerTruth
<1>4. ASSUME NEW u \in Ticket
      PROVE  Knows(given', poller'[u].at, u, poller'[u].seen)
  <2>1. CASE u = t
    BY <1>2, <2>1
  <2>2. CASE u # t
    BY <1>1, <1>3, <2>2, KnowsStill
  <2> QED
    BY <2>1, <2>2
<1> QED
  BY <1>4 DEF PollerTruth

LEMMA TellsTruth ==
  ASSUME TypeInv, TruthInv, GivenGrows, NEW s \in Session, NEW t \in Ticket,
         NEW news, news \in Settled => news \in given[t], Tell(s, t, news)
  PROVE  ToldTruth'
BY DEF TruthInv, ToldTruth, TypeInv, ToldInv, GivenGrows, Tell

LEMMA UnchangedKeeps == UNCHANGED given => GivenGrows
BY DEF GivenGrows

LEMMA ClientTruth ==
  ASSUME TypeInv, TruthInv, NEW s \in Session, Client(s)
  PROVE  TruthInv' /\ GivenGrows
<1> USE UnchangedKeeps, TruthStays DEF TruthInv
<1>1. CASE Accept(s)
  BY <1>1, ReaderLearns, KnowsBlank DEF Accept, BackToRead
<1>2. CASE PeerLeaves(s)
  BY <1>2 DEF PeerLeaves
<1>3. CASE ReadEnds(s)
  BY <1>3, ReaderLearns, KnowsBlank DEF ReadEnds
<1>4. ASSUME NEW p \in Player, HandleAuth(s, p) PROVE TruthInv' /\ GivenGrows
  BY <1>4 DEF HandleAuth
<1>5. ASSUME NEW t \in Ticket, HandleEnqueue(s, t)
      PROVE TruthInv' /\ GivenGrows
  <2>1. GivenGrows /\ CoreTruth'
    BY <1>5, UnchangedKeeps
    DEF HandleEnqueue, CreateTicket, Issued, CoreTruth, Settled,
        TypeInv, TicketInv
  <2> QED
    BY <1>5, <2>1, ReaderLearns, KnowsBlank DEF HandleEnqueue
<1>6. ASSUME NEW t \in Ticket, HandleCancel(s, t) PROVE TruthInv' /\ GivenGrows
  BY <1>6, ReaderLearns, KnowsBlank DEF HandleCancel
<1>7. ASSUME NEW t \in Ticket, HandleStatus(s, t) PROVE TruthInv' /\ GivenGrows
  BY <1>7, ReaderLearns, KnowsBlank DEF HandleStatus
<1> QED
  BY <1>1, <1>2, <1>3, <1>4, <1>5, <1>6, <1>7 DEF Client

(* CoreRank settles a queued ticket, or cancels one that is settled.       *)
LEMMA SettlingKeeps ==
  ASSUME TypeInv, TruthInv, NEW t \in Ticket, NEW v \in Settled,
         NEW id \in BOOLEAN, id => v = "matched",
         \/ /\ ticket[t].status = "queued"
            /\ \/ ticket' = [ticket EXCEPT ![t].status = v, ![t].matchID = id]
               \/ ticket' = [ticket EXCEPT ![t].status = v]
         \/ /\ v = "cancelled" /\ CancelSettled
            /\ ticket' = [ticket EXCEPT ![t].status = v],
         Gives(t, v)
  PROVE  GivenGrows /\ CoreTruth' /\ v \in given'[t]
<1>1. /\ ticket \in [Ticket -> TicketState] /\ given \in [Ticket -> SUBSET Settled]
      /\ CoreTruth
  BY DEF TypeInv, TicketInv, TruthInv
<1>2. \A u \in Ticket : given'[u] = IF u = t THEN given[t] \cup {v} ELSE given[u]
  BY <1>1 DEF Gives
<1>3. \A u \in Ticket \ {t} : ticket'[u] = ticket[u]
  BY <1>1
<1>4. /\ ticket'[t].status = v
      /\ \/ ticket'[t].matchID = ticket[t].matchID
         \/ ticket'[t].matchID = id
  BY <1>1 DEF TicketState
<1>5. \/ ticket[t].status = "queued" /\ given[t] = {}
      \/ v = "cancelled" /\ CancelSettled
  BY <1>1 DEF CoreTruth, Settled
<1>6. \E w \in Settled : given'[t] \subseteq {w, "cancelled"}
  BY <1>1, <1>2, <1>5 DEF CoreTruth
<1>7. ticket'[t].matchID => "matched" \in given'[t]
  BY <1>1, <1>2, <1>4 DEF CoreTruth
<1>8. CoreTruth'
  BY <1>1, <1>2, <1>3, <1>4, <1>5, <1>6, <1>7 DEF CoreTruth
<1> QED
  BY <1>2, <1>8 DEF GivenGrows

LEMMA CancelKeeps ==
  ASSUME TypeInv, TruthInv, NEW t \in Ticket, CancelTicket(t)
  PROVE  GivenGrows /\ CoreTruth' /\ "cancelled" \in given'[t]
BY SettlingKeeps DEF CancelTicket, CanCancel, Settled

LEMMA ReaderTruthStep ==
  ASSUME TypeInv, TruthInv, NEW s \in Session, Reader(s)
  PROVE  TruthInv' /\ GivenGrows
<1> USE UnchangedKeeps, TruthStays DEF TruthInv
<1> DEFINE t == reader[s].ticket
<1>0. /\ reader[s].at \in Handling => t \in Ticket
      /\ Knows(given, reader[s].at, t, reader[s].seen)
  BY DEF TypeInv, ReaderInv, Issued, ReaderTruth
<1>a. ASSUME BackToRead(s), GivenGrows PROVE ReaderTruth'
  BY <1>a, ReaderLearns, KnowsBlank DEF BackToRead
<1>1. CASE CloseConn(s)
  BY <1>1, ReaderLearns, KnowsBlank DEF CloseConn
<1>2. CASE CreateReply(s)
  <2>1. Knows(given', "created", t, ticket[t])
    BY <1>0, <1>2 DEF CreateReply, Knows, Handling, CoreTruth
  <2> QED
    BY <1>2, <2>1, ReaderLearns DEF CreateReply
<1>3. CASE CreateFails(s)
  BY <1>a, <1>3 DEF CreateFails
<1>4. CASE EnqueueSetsPending(s)
  <2>1. Knows(given', IF IsMatched(reader[s].seen) THEN "fetch" ELSE "announce",
              t, reader[s].seen)
    BY <1>0, <1>4 DEF EnqueueSetsPending, Knows, IsMatched
  <2> QED
    BY <1>4, <2>1, ReaderLearns DEF EnqueueSetsPending
<1>5. CASE AnnounceQueued(s)
  <2>1. t \in Ticket /\ GivenGrows
    BY <1>0, <1>5 DEF AnnounceQueued, Handling
  <2>2. PollerTruth'
    <3>1. \A u \in Ticket :
            IF u = t THEN poller'[u].at = "select" /\ poller'[u].seen = Blank
                     ELSE poller'[u] = poller[u]
      BY <1>5, <2>1 DEF AnnounceQueued, TypeInv, PollerInv
    <3>2. ASSUME NEW u \in Ticket
          PROVE  Knows(given', poller'[u].at, u, poller'[u].seen)
      <4>1. CASE u = t
        BY <3>1, <4>1, KnowsBlank
      <4>2. CASE u # t
        BY <2>1, <3>1, <4>2, KnowsStill DEF PollerTruth
      <4> QED
        BY <4>1, <4>2
    <3> QED
      BY <3>2 DEF PollerTruth
  <2>3. ToldTruth'
    BY <1>5, <2>1, TellsTruth DEF AnnounceQueued, Settled
  <2> QED
    BY <1>a, <1>5, <2>1, <2>2, <2>3 DEF AnnounceQueued
<1>6. CASE AnnounceFails(s)
  BY <1>a, <1>6 DEF AnnounceFails
<1>7. CASE ReaderClearsMatched(s)
  <2>1. Knows(given', "found", t, reader[s].seen)
    BY <1>0, <1>7 DEF ReaderClearsMatched, Knows, IsMatched
  <2> QED
    BY <1>7, <2>1, ReaderLearns DEF ReaderClearsMatched
<1>8. CASE ReaderResultFails(s)
  BY <1>a, <1>8 DEF ReaderResultFails
<1>9. CASE ReaderTellsMatched(s)
  <2>1. t \in Ticket /\ "matched" \in given[t]
    BY <1>0, <1>9 DEF ReaderTellsMatched, Knows, IsMatched, Settled
  <2>2. ToldTruth'
    BY <1>9, <2>1, TellsTruth DEF ReaderTellsMatched
  <2> QED
    BY <1>a, <1>9, <2>2 DEF ReaderTellsMatched
<1>10. CASE CancelReply(s)
  <2>1. /\ t \in Ticket /\ GivenGrows /\ CoreTruth'
        /\ "cancelled" \in given'[t]
    BY <1>0, <1>10, CancelKeeps DEF CancelReply, Handling
  <2>2. Knows(given', "cancelled", t, Blank)
    BY <2>1 DEF Knows, Blank, Settled
  <2> QED
    BY <1>10, <2>1, <2>2, ReaderLearns DEF CancelReply
<1>11. CASE CancelFails(s)
  <2>1. t \in Ticket
    BY <1>0, <1>11 DEF CancelFails, Handling
  <2>2. GivenGrows /\ CoreTruth'
    BY <1>11, <2>1, CancelKeeps DEF CancelFails
  <2> QED
    BY <1>a, <1>11, <2>2 DEF CancelFails
<1>12. CASE CancelClearsPending(s)
  <2>1. Knows(given', "confirm", t, Blank)
    BY <1>0, <1>12 DEF CancelClearsPending, Knows, Blank, Settled
  <2> QED
    BY <1>12, <2>1, ReaderLearns DEF CancelClearsPending
<1>13. CASE TellCancelled(s)
  <2>1. t \in Ticket /\ "cancelled" \in given[t]
    BY <1>0, <1>13 DEF TellCancelled, Knows
  <2>2. ToldTruth'
    BY <1>13, <2>1, TellsTruth DEF TellCancelled
  <2> QED
    BY <1>a, <1>13, <2>2 DEF TellCancelled
<1>14. CASE StatusReply(s)
  <2>1. t \in Ticket
    BY <1>0, <1>14 DEF StatusReply, Handling
  <2>2. Knows(given', IF IsMatched(ticket[t]) THEN "fetch" ELSE "report", t, ticket[t])
    BY <1>14, <2>1 DEF StatusReply, Knows, IsMatched, CoreTruth
  <2> QED
    BY <1>14, <2>2, ReaderLearns DEF StatusReply
<1>15. CASE StatusFails(s)
  BY <1>a, <1>15 DEF StatusFails
<1>16. CASE TellStatus(s)
  <2>1. t \in Ticket
    BY <1>0, <1>16 DEF TellStatus, Handling
  <2>2. ToldTruth'
    BY <1>0, <1>16, <2>1, TellsTruth DEF TellStatus, Knows
  <2> QED
    BY <1>a, <1>16, <2>2 DEF TellStatus
<1> QED
  BY <1>1, <1>2, <1>3, <1>4, <1>5, <1>6, <1>7, <1>8, <1>9, <1>10, <1>11,
     <1>12, <1>13, <1>14, <1>15, <1>16 DEF Reader

LEMMA PollerTruthStep ==
  ASSUME TypeInv, TruthInv, NEW t \in Ticket, Poller(t)
  PROVE  TruthInv' /\ GivenGrows
<1> USE UnchangedKeeps, TruthStays DEF TruthInv
<1>0. /\ Knows(given, poller[t].at, t, poller[t].seen)
      /\ poller[t].at \in Running => poller[t].session \in Session
  BY DEF PollerTruth, TypeInv, PollerInv, PollerState, Running
<1>1. CASE PollStops(t)
  BY <1>1, PollerLearns, KnowsBlank DEF PollStops
<1>2. CASE PollTimesOut(t)
  BY <1>0, <1>2, PollerLearns, KnowsBlank, TellsTruth
  DEF PollTimesOut, Running, Settled
<1>3. CASE PollTick(t)
  BY <1>3, PollerLearns, KnowsBlank DEF PollTick
<1>4. CASE PollReply(t)
  <2> DEFINE place == CASE IsMatched(ticket[t]) -> "fetch"
                        [] ~IsMatched(ticket[t])
                           /\ ticket[t].status \in {"cancelled", "timeout"}
                             -> "settle"
                        [] OTHER -> "select"
             answer == IF place = "select" THEN Blank ELSE ticket[t]
  <2>1. PollerGoes(t, place, answer) /\ UNCHANGED <<ticket, given, reader, told>>
    BY <1>4 DEF PollReply
  <2>2. CASE place = "select"
    BY <2>1, <2>2, KnowsBlank, PollerLearns
  <2>3. CASE place # "select"
    <3>1. Knows(given', place, t, ticket[t])
      BY <2>1, <2>3 DEF Knows, IsMatched, CoreTruth
    <3> HIDE DEF place
    <3> QED
      BY <2>1, <2>3, <3>1, PollerLearns
  <2> QED
    BY <2>2, <2>3
<1>5. CASE PollFails(t)
  BY <1>5, PollerLearns, KnowsBlank DEF PollFails
<1>6. CASE PollClearsMatched(t)
  <2>1. Knows(given', "found", t, poller[t].seen)
    BY <1>0, <1>6 DEF PollClearsMatched, Knows, IsMatched
  <2> QED
    BY <1>6, <2>1, PollerLearns DEF PollClearsMatched
<1>7. CASE PollResultFails(t)
  BY <1>7, PollerLearns, KnowsBlank DEF PollResultFails
<1>8. CASE PollTellsMatched(t)
  <2>1. "matched" \in given[t] /\ poller[t].session \in Session
    BY <1>0, <1>8 DEF PollTellsMatched, Knows, IsMatched, Settled, Running
  <2> QED
    BY <1>8, <2>1, PollerLearns, KnowsBlank, TellsTruth DEF PollTellsMatched
<1>9. CASE PollClearsSettled(t)
  <2>1. Knows(given', "report", t, poller[t].seen)
    BY <1>0, <1>9 DEF PollClearsSettled, Knows
  <2> QED
    BY <1>9, <2>1, PollerLearns DEF PollClearsSettled
<1>10. CASE PollTellsSettled(t)
  <2>1. /\ poller[t].session \in Session
        /\ poller[t].seen.status \in Settled
             => poller[t].seen.status \in given[t]
    BY <1>0, <1>10 DEF PollTellsSettled, Knows, Running
  <2> QED
    BY <1>10, <2>1, PollerLearns, KnowsBlank, TellsTruth DEF PollTellsSettled
<1> QED
  BY <1>1, <1>2, <1>3, <1>4, <1>5, <1>6, <1>7, <1>8, <1>9, <1>10 DEF Poller

LEMMA MatchmakerTruth ==
  ASSUME TypeInv, TruthInv, NEW t \in Ticket, Matchmaker(t)
  PROVE  TruthInv' /\ GivenGrows
<1>1. GivenGrows /\ CoreTruth'
  BY SettlingKeeps DEF Matchmaker, MatchTicket, ExpireTicket, Settled
<1> QED
  BY <1>1, TruthStays DEF Matchmaker, TruthInv

(* What the end of the process does to one reader and one poller.          *)
LEMMA ExitStep ==
  ASSUME TypeInv, ProcessEnds
  PROVE  /\ \A s \in Session :
              \/ reader[s].at = "new" /\ reader'[s] = reader[s] /\ sock'[s] = sock[s]
              \/ /\ reader'[s].at = "orphan" /\ sock'[s] = "closed"
                 /\ reader'[s].ticket = reader[s].ticket
                 /\ reader'[s].seen = reader[s].seen
              \/ /\ reader'[s] = [at |-> "closed", ticket |-> NoTicket, seen |-> Blank]
                 /\ sock'[s] = "closed"
         /\ \A t \in Ticket :
              \/ poller'[t] = poller[t]
              \/ /\ poller'[t].at = "ended" /\ poller'[t].seen = Blank
                 /\ poller'[t].session = poller[t].session
<1>1. /\ \A s \in Session : reader[s] \in ReaderState
      /\ \A t \in Ticket : poller[t] \in PollerState
  BY DEF TypeInv, ReaderInv, PollerInv
<1> QED
  BY <1>1 DEF ProcessEnds, ReaderState, PollerState

(* What the goroutines of a process knew goes with it.                     *)
LEMMA ExitTruth ==
  ASSUME TypeInv, TruthInv, ProcessEnds
  PROVE  TruthInv' /\ GivenGrows
<1>1. GivenGrows /\ UNCHANGED <<ticket, given, told>>
  BY DEF ProcessEnds, GivenGrows
<1>2. ASSUME NEW s \in Session
      PROVE  Knows(given', reader'[s].at, reader'[s].ticket, reader'[s].seen)
  <2>1. Knows(given, reader[s].at, reader[s].ticket, reader[s].seen)
    BY DEF TruthInv, ReaderTruth
  <2>2. CASE reader'[s] = reader[s]
    BY <1>1, <2>1, <2>2
  <2>3. CASE /\ reader'[s].at = "orphan" /\ reader'[s].ticket = reader[s].ticket
             /\ reader'[s].seen = reader[s].seen
    BY <1>1, <2>1, <2>3 DEF Knows
  <2>4. CASE reader'[s] = [at |-> "closed", ticket |-> NoTicket, seen |-> Blank]
    BY <2>4, KnowsBlank
  <2> QED
    BY <2>2, <2>3, <2>4, ExitStep
<1>3. ASSUME NEW t \in Ticket
      PROVE  Knows(given', poller'[t].at, t, poller'[t].seen)
  BY <1>1, KnowsBlank, ExitStep DEF TruthInv, PollerTruth
<1> QED
  BY <1>1, <1>2, <1>3, TruthStays DEF TruthInv, ReaderTruth, PollerTruth

LEMMA OrphanTruth ==
  ASSUME TypeInv, TruthInv, NEW s \in Session, OrphanCancels(s)
  PROVE  TruthInv' /\ GivenGrows
<1>1. reader[s].ticket \in Ticket
  BY DEF OrphanCancels, TypeInv, ReaderInv, Issued
<1>2. GivenGrows /\ CoreTruth'
  BY <1>1, CancelKeeps DEF OrphanCancels
<1> QED
  BY <1>2, TruthStays, ReaderLearns, KnowsBlank DEF OrphanCancels, TruthInv

LEMMA TruthStep ==
  ASSUME TypeInv, TruthInv, Next
  PROVE  TruthInv' /\ GivenGrows
BY ClientTruth, ReaderTruthStep, PollerTruthStep, MatchmakerTruth, ExitTruth,
   OrphanTruth DEF Next

(* Nobody holds, and nobody is told, an outcome of a ticket that CoreRank  *)
(* has not given, whatever CoreRank cancels and whatever fails.            *)
THEOREM AnswersAreTrue == Spec => []TruthInv
<1>1. Init => TruthInv
  <2>1. Init => CoreTruth /\ ToldTruth
    BY DEF Init, CoreRankInit, CoreTruth, ToldTruth, Blank, Settled
  <2>2. Init => ReaderTruth /\ PollerTruth
    BY KnowsBlank DEF Init, ReaderTruth, PollerTruth
  <2> QED
    BY <2>1, <2>2 DEF TruthInv
<1>2. TypeInv /\ TruthInv /\ [Next]_vars => TruthInv'
  <2>1. TypeInv /\ TruthInv /\ UNCHANGED vars => TruthInv'
    BY UnchangedKeeps, TruthStays DEF vars, TruthInv
  <2> QED
    BY <2>1, TruthStep
<1> QED
  BY <1>1, <1>2, TypeInvariant, PTL DEF Spec

(* Clients are told two different outcomes of one ticket only where        *)
(* CoreRank itself gave both, the later one a cancellation: over every     *)
(* interleaving of readers and pollers, every lost reply and every         *)
(* restart, and with nothing assumed of CoreRank or of clients.            *)
THEOREM OutcomesAlwaysAgree == Spec => []OutcomesAgree
<1>1. TypeInv /\ TruthInv => OutcomesAgree
  <2> SUFFICES ASSUME TypeInv, TruthInv, NEW a \in told, NEW b \in told,
                      a[2] = b[2], a[3] \in Settled, b[3] \in Settled,
                      a[3] # b[3]
               PROVE  given[a[2]] = {a[3], b[3]} /\ "cancelled" \in given[a[2]]
    BY DEF OutcomesAgree
  <2>1. a[2] \in Ticket /\ a[3] \in given[a[2]] /\ b[3] \in given[a[2]]
    BY DEF TypeInv, ToldInv, TruthInv, ToldTruth
  <2>2. PICK v \in Settled : given[a[2]] \subseteq {v, "cancelled"}
    BY <2>1 DEF TruthInv, CoreTruth
  <2> QED
    BY <2>1, <2>2
<1> QED
  BY <1>1, TypeInvariant, AnswersAreTrue, PTL

(* So a CoreRank that refuses to cancel a settled ticket never makes two   *)
(* clients disagree about one.                                             *)
COROLLARY OneOutcomeEach ==
  ASSUME ~CancelSettled
  PROVE  Spec => [](\A a, b \in told :
           a[2] = b[2] /\ a[3] \in Settled /\ b[3] \in Settled => a[3] = b[3])
<1> DEFINE OneEach ==
      \A a, b \in told :
        a[2] = b[2] /\ a[3] \in Settled /\ b[3] \in Settled => a[3] = b[3]
<1>1. TypeInv /\ TruthInv => OneEach
  BY DEF TypeInv, ToldInv, TruthInv, CoreTruth, ToldTruth
<1> QED
  BY <1>1, TypeInvariant, AnswersAreTrue, PTL

-----------------------------------------------------------------------------
(* The refinement: the statuses CoreRank gives are the verdicts, and a     *)
(* write of a settled status to an open connection is a Hear.              *)

LEMMA SilentStutters ==
  ASSUME UNCHANGED <<ticket, given, told>>
  PROVE  UNCHANGED V!vars
BY DEF V!vars, Issued

LEMMA TellRefines ==
  ASSUME TypeInv, NEW s \in Session, NEW t \in Ticket, NEW news,
         news \in Settled => news \in given[t],
         Tell(s, t, news), UNCHANGED <<ticket, given>>
  PROVE  [V!Next]_V!vars
<1>1. CASE sock[s] = "open" /\ news \in Settled
  <2>1. {h \in told' : h[3] \in Settled}
          = {h \in told : h[3] \in Settled} \cup {<<s, t, news>>}
    BY <1>1 DEF Tell
  <2>2. V!Hear(s, t, news)
    BY <1>1, <2>1 DEF V!Hear, Issued
  <2> QED
    BY <1>1, <2>2 DEF V!Next, V!Verdict, Settled
<1>2. CASE ~(sock[s] = "open" /\ news \in Settled)
  <2>1. {h \in told' : h[3] \in Settled} = {h \in told : h[3] \in Settled}
    BY <1>2 DEF Tell
  <2> QED
    BY <2>1 DEF V!vars, Issued
<1> QED
  BY <1>1, <1>2

(* CoreRank gives v on ticket t, which stays issued.                       *)
LEMMA GiveRefines ==
  ASSUME TypeInv, TruthInv, NEW t \in Issued, NEW v \in Settled,
         \/ ticket[t].status = "queued"
         \/ v = "cancelled" /\ CancelSettled,
         \A u \in Ticket : ticket'[u].status = IF u = t THEN v ELSE ticket[u].status,
         Gives(t, v), UNCHANGED told
  PROVE  V!Next
<1>1. t \in Ticket /\ given \in [Ticket -> SUBSET Settled] /\ CoreTruth
  BY DEF Issued, TypeInv, TicketInv, TruthInv
<1>2. UNCHANGED <<Issued, {h \in told : h[3] \in Settled}>>
  BY DEF Issued, Settled
<1>3. CASE ticket[t].status \in Settled
  <2>1. given[t] # {}
    BY <1>1, <1>3 DEF CoreTruth
  <2>2. v = "cancelled" /\ CancelSettled
    BY <1>3 DEF Settled
  <2>3. V!Overturn(t)
    BY <1>2, <2>1, <2>2 DEF V!Overturn, Gives
  <2> QED
    BY <1>1, <2>3 DEF V!Next
<1>4. CASE ticket[t].status \notin Settled
  <2>1. given[t] = {}
    BY <1>1, <1>4 DEF CoreTruth
  <2>2. V!Decide(t, v)
    BY <1>1, <1>2, <2>1 DEF V!Decide, Gives
  <2> QED
    BY <1>1, <2>2 DEF V!Next, V!Verdict, Settled
<1> QED
  BY <1>3, <1>4

LEMMA CancelRefines ==
  ASSUME TypeInv, TruthInv, NEW t \in Issued, CancelTicket(t), UNCHANGED told
  PROVE  V!Next
<1>1. \A u \in Ticket : ticket'[u].status =
        IF u = t THEN "cancelled" ELSE ticket[u].status
  BY DEF CancelTicket, TypeInv, TicketInv, TicketState, Issued
<1> QED
  BY <1>1, GiveRefines DEF CancelTicket, CanCancel, Settled

LEMMA ClientRefines ==
  ASSUME TypeInv, NEW s \in Session, Client(s)
  PROVE  [V!Next]_V!vars
<1>1. CASE \E t \in Ticket : HandleEnqueue(s, t)
  <2>1. PICK t \in Ticket : HandleEnqueue(s, t)
    BY <1>1
  <2>2. V!Issue(t)
    BY <2>1 DEF HandleEnqueue, CreateTicket, Issued, V!Issue, TypeInv, TicketInv
  <2> QED
    BY <2>2 DEF V!Next
<1>2. CASE ~ \E t \in Ticket : HandleEnqueue(s, t)
  BY <1>2, SilentStutters
  DEF Client, Accept, PeerLeaves, ReadEnds, HandleAuth, HandleCancel,
      HandleStatus
<1> QED
  BY <1>1, <1>2

LEMMA ReaderRefines ==
  ASSUME TypeInv, TruthInv, NEW s \in Session, Reader(s)
  PROVE  [V!Next]_V!vars
<1> DEFINE t == reader[s].ticket
<1>0. /\ reader[s].at \in Handling => t \in Ticket /\ t \in Issued
      /\ Knows(given, reader[s].at, t, reader[s].seen)
  BY DEF TypeInv, ReaderInv, Issued, TruthInv, ReaderTruth
<1>1. CASE AnnounceQueued(s)
  BY <1>0, <1>1, TellRefines DEF AnnounceQueued, Handling, Settled
<1>2. CASE ReaderTellsMatched(s)
  BY <1>0, <1>2, TellRefines
  DEF ReaderTellsMatched, Handling, Knows, IsMatched, Settled
<1>3. CASE CancelReply(s)
  BY <1>0, <1>3, CancelRefines DEF CancelReply, Handling
<1>4. CASE CancelFails(s)
  BY <1>0, <1>4, CancelRefines, SilentStutters DEF CancelFails, Handling
<1>5. CASE TellCancelled(s)
  BY <1>0, <1>5, TellRefines DEF TellCancelled, Handling, Knows
<1>6. CASE TellStatus(s)
  BY <1>0, <1>6, TellRefines DEF TellStatus, Handling, Knows
<1>7. CASE UNCHANGED <<ticket, given, told>>
  BY <1>7, SilentStutters
<1> QED
  BY <1>1, <1>2, <1>3, <1>4, <1>5, <1>6, <1>7
  DEF Reader, CloseConn, CreateReply, CreateFails, EnqueueSetsPending,
      AnnounceFails, ReaderClearsMatched, ReaderResultFails,
      CancelClearsPending, StatusReply, StatusFails

LEMMA PollerRefines ==
  ASSUME TypeInv, TruthInv, NEW t \in Ticket, Poller(t)
  PROVE  [V!Next]_V!vars
<1> DEFINE s == poller[t].session
<1>0. /\ Knows(given, poller[t].at, t, poller[t].seen)
      /\ poller[t].at \in Running => s \in Session
  BY DEF TruthInv, PollerTruth, TypeInv, PollerInv, PollerState, Running
<1>1. CASE PollTimesOut(t)
  BY <1>0, <1>1, TellRefines DEF PollTimesOut, Running, Settled
<1>2. CASE PollTellsMatched(t)
  BY <1>0, <1>2, TellRefines
  DEF PollTellsMatched, Running, Knows, IsMatched, Settled
<1>3. CASE PollTellsSettled(t)
  BY <1>0, <1>3, TellRefines DEF PollTellsSettled, Running, Knows
<1>4. CASE UNCHANGED <<ticket, given, told>>
  BY <1>4, SilentStutters
<1> QED
  BY <1>1, <1>2, <1>3, <1>4
  DEF Poller, PollStops, PollTick, PollReply, PollFails, PollClearsMatched,
      PollResultFails, PollClearsSettled

LEMMA MatchmakerRefines ==
  ASSUME TypeInv, TruthInv, NEW t \in Ticket, Matchmaker(t)
  PROVE  V!Next
<1>1. CASE MatchTicket(t)
  <2>1. /\ ticket[t].status = "queued" /\ t \in Issued
        /\ \A u \in Ticket : ticket'[u].status =
             IF u = t THEN "matched" ELSE ticket[u].status
    BY <1>1 DEF MatchTicket, TypeInv, TicketInv, TicketState, Issued
  <2> QED
    BY <1>1, <2>1, GiveRefines DEF Matchmaker, MatchTicket, Settled
<1>2. CASE ExpireTicket(t)
  <2>1. /\ ticket[t].status = "queued" /\ t \in Issued
        /\ \A u \in Ticket : ticket'[u].status =
             IF u = t THEN "timeout" ELSE ticket[u].status
    BY <1>2 DEF ExpireTicket, TypeInv, TicketInv, TicketState, Issued
  <2> QED
    BY <1>2, <2>1, GiveRefines DEF Matchmaker, ExpireTicket, Settled
<1> QED
  BY <1>1, <1>2 DEF Matchmaker

LEMMA OrphanRefines ==
  ASSUME TypeInv, TruthInv, NEW s \in Session, OrphanCancels(s)
  PROVE  V!Next
BY CancelRefines DEF OrphanCancels, TypeInv, ReaderInv

(* Every behaviour of the gateway's readers and pollers is a behaviour of  *)
(* Verdicts: tickets are decided once, overturned only where CoreRank      *)
(* accepts the cancellation of a settled ticket, and clients are told what *)
(* was given.                                                              *)
THEOREM MatchmakingImplementsVerdicts == Spec => ImplementsVerdicts
<1>1. Init => V!Init
  BY DEF Init, CoreRankInit, V!Init, Blank, Issued
<1>2. TypeInv /\ TruthInv /\ [Next]_vars => [V!Next]_V!vars
  <2>1. UNCHANGED vars => UNCHANGED V!vars
    BY SilentStutters DEF vars
  <2> QED
    BY <2>1, ClientRefines, ReaderRefines, PollerRefines, MatchmakerRefines,
       OrphanRefines, SilentStutters DEF Next, ProcessEnds
<1> QED
  BY <1>1, <1>2, TypeInvariant, AnswersAreTrue, PTL
  DEF Spec, V!Spec, ImplementsVerdicts

-----------------------------------------------------------------------------
(* A poller that goes out in silence has lost a match, for want of         *)
(* GetResult's reply; none does while GetResult does not fail.             *)

Heard(s, t) == \E news \in Settled \cup {"waiting"} : <<s, t, news>> \in told

(* What the invariant says of one ticket.  A session that has not begun    *)
(* has no poller: what a poller tells before its connection opens would be *)
(* lost.  A match id that a poller has seen is CoreRank's, and stays.      *)
Spoken(t) ==
  LET s == poller[t].session IN
  /\ poller[t].at = "ended" /\ sock[s] = "open" /\ ~Cancelled(s)
       => Heard(s, t) \/ ("result" \in Faults /\ ticket[t].matchID)
  /\ s \in Session => reader[s].at # "new"
  /\ poller[t].seen.matchID => ticket[t].matchID

SpeakInv == \A t \in Ticket : Spoken(t)

(* What no step takes back.                                                *)
OneWay ==
  /\ told \subseteq told'
  /\ \A s \in Session :
       /\ reader'[s].at = "new" => reader[s].at = "new"
       /\ reader[s].at \in Leaving => reader'[s].at \in Leaving
       /\ sock'[s] = "open" => sock[s] = "open" \/ reader[s].at = "new"
  /\ \A t \in Ticket : ticket[t].matchID => ticket'[t].matchID

LEMMA ClientOneWay ==
  ASSUME TypeInv, NEW s \in Session, Client(s)
  PROVE  OneWay /\ UNCHANGED poller
<1> USE DEF OneWay, TypeInv, ReaderInv, ConnInv, Leaving, ReaderGoes, BackToRead
<1>1. CASE Accept(s)
  BY <1>1 DEF Accept
<1>2. CASE PeerLeaves(s)
  BY <1>2 DEF PeerLeaves
<1>3. CASE ReadEnds(s)
  BY <1>3 DEF ReadEnds
<1>4. ASSUME NEW p \in Player, HandleAuth(s, p) PROVE OneWay /\ UNCHANGED poller
  BY <1>4 DEF HandleAuth
<1>5. ASSUME NEW t \in Ticket, HandleEnqueue(s, t)
      PROVE OneWay /\ UNCHANGED poller
  BY <1>5 DEF HandleEnqueue, CreateTicket, TicketInv, TicketState
<1>6. ASSUME NEW t \in Ticket, HandleCancel(s, t)
      PROVE OneWay /\ UNCHANGED poller
  BY <1>6 DEF HandleCancel
<1>7. ASSUME NEW t \in Ticket, HandleStatus(s, t)
      PROVE OneWay /\ UNCHANGED poller
  BY <1>7 DEF HandleStatus
<1> QED
  BY <1>1, <1>2, <1>3, <1>4, <1>5, <1>6, <1>7 DEF Client

LEMMA ReaderOneWay ==
  ASSUME TypeInv, NEW s \in Session, Reader(s)
  PROVE  /\ OneWay
         /\ \/ UNCHANGED poller
            \/ AnnounceQueued(s)
<1> USE DEF OneWay, TypeInv, ReaderInv, ConnInv, Leaving, ReaderGoes, BackToRead,
            Tell
<1>1. CASE CloseConn(s)
  BY <1>1 DEF CloseConn
<1>2. CASE CreateReply(s) \/ CreateFails(s) \/ EnqueueSetsPending(s)
  BY <1>2 DEF CreateReply, CreateFails, EnqueueSetsPending
<1>3. CASE AnnounceQueued(s) \/ AnnounceFails(s)
  BY <1>3 DEF AnnounceQueued, AnnounceFails
<1>4. CASE ReaderClearsMatched(s) \/ ReaderResultFails(s) \/ ReaderTellsMatched(s)
  BY <1>4 DEF ReaderClearsMatched, ReaderResultFails, ReaderTellsMatched
<1>5. CASE CancelReply(s) \/ CancelFails(s)
  <2>1. \A t \in Ticket : ticket[t].matchID => ticket'[t].matchID
    BY <1>5 DEF CancelReply, CancelFails, CancelTicket, TicketInv, TicketState
  <2> QED
    BY <1>5, <2>1 DEF CancelReply, CancelFails
<1>6. CASE CancelClearsPending(s) \/ TellCancelled(s)
  BY <1>6 DEF CancelClearsPending, TellCancelled
<1>7. CASE StatusReply(s) \/ StatusFails(s) \/ TellStatus(s)
  BY <1>7 DEF StatusReply, StatusFails, TellStatus
<1> QED
  BY <1>1, <1>2, <1>3, <1>4, <1>5, <1>6, <1>7 DEF Reader

(* Where a poller ends, its client is told, or the session is being left,  *)
(* or GetResult has failed for a match.                                    *)
LEMMA PollerSpeaks ==
  ASSUME TypeInv, NEW t \in Ticket, Poller(t), Spoken(t)
  PROVE  /\ OneWay
         /\ poller'[t].session = poller[t].session
         /\ \A u \in Ticket : u # t => poller'[u] = poller[u]
         /\ poller'[t].at = "ended" =>
              \/ Cancelled(poller[t].session)
              \/ sock[poller[t].session] # "open"
              \/ Heard(poller[t].session, t)'
              \/ "result" \in Faults /\ ticket[t].matchID
         /\ poller'[t].seen.matchID => ticket[t].matchID
<1> USE DEF OneWay, TypeInv, PollerInv, PollerGoes, Blank, Spoken
<1>1. CASE PollStops(t)
  BY <1>1 DEF PollStops
<1>2. CASE PollTimesOut(t)
  BY <1>2 DEF PollTimesOut, Tell, Heard
<1>3. CASE PollTick(t)
  BY <1>3 DEF PollTick
<1>4. CASE PollReply(t)
  BY <1>4 DEF PollReply
<1>5. CASE PollFails(t)
  BY <1>5 DEF PollFails
<1>6. CASE PollClearsMatched(t) \/ PollClearsSettled(t)
  BY <1>6 DEF PollClearsMatched, PollClearsSettled
<1>7. CASE PollResultFails(t)
  BY <1>7 DEF PollResultFails
<1>8. CASE PollTellsMatched(t)
  BY <1>8 DEF PollTellsMatched, Tell, Heard, Settled
<1>9. CASE PollTellsSettled(t)
  <2>1. poller[t].seen.status \in Settled
    BY <1>9 DEF PollTellsSettled, Settled
  <2> QED
    BY <1>9, <2>1 DEF PollTellsSettled, Tell, Heard
<1> QED
  BY <1>1, <1>2, <1>3, <1>4, <1>5, <1>6, <1>7, <1>8, <1>9 DEF Poller

(* It carries over a step that does not move the ticket's poller.          *)
LEMMA StillSpoken ==
  ASSUME TypeInv, OneWay, NEW t \in Ticket, Spoken(t), poller'[t] = poller[t]
  PROVE  Spoken(t)'
<1> DEFINE s == poller[t].session
<1>1. poller[t].at = "ended" => s \in Session
  BY DEF TypeInv, PollerInv, PollerState
<1>2. Heard(s, t) => Heard(s, t)'
  BY DEF OneWay, Heard
<1> QED
  BY <1>1, <1>2 DEF Spoken, OneWay, Cancelled

(* The steps of readers keep it by OneWay, those of pollers by what they   *)
(* tell, and the end of the process by closing the connections.            *)
LEMMA SpeakInvariant == Spec => []SpeakInv
<1>1. Init => SpeakInv
  <2> SUFFICES ASSUME Init, NEW t \in Ticket PROVE Spoken(t)
    BY DEF SpeakInv
  <2>1. poller[t] = [at |-> "off", session |-> NoSession, seen |-> Blank]
    BY DEF Init
  <2> QED
    BY <2>1, BlankTyped, MatchmakingAssumption DEF Spoken
<1>2. TypeInv /\ SpeakInv /\ [Next]_vars => SpeakInv'
  <2> SUFFICES ASSUME TypeInv, SpeakInv, [Next]_vars, NEW t \in Ticket
               PROVE  Spoken(t)'
    BY DEF SpeakInv
  <2>0. Spoken(t)
    BY DEF SpeakInv
  <2>1. ASSUME NEW s \in Session, Client(s) PROVE Spoken(t)'
    BY <2>0, <2>1, ClientOneWay, StillSpoken
  <2>2. ASSUME NEW s \in Session, Reader(s) PROVE Spoken(t)'
    <3>1. OneWay
      BY <2>2, ReaderOneWay
    <3>2. CASE poller'[t] = poller[t]
      BY <2>0, <3>1, <3>2, StillSpoken
    <3>3. CASE poller'[t] # poller[t]
      <4>1. AnnounceQueued(s)
        BY <2>2, <3>3, ReaderOneWay
      <4>2. /\ poller'[t] = [at |-> "select", session |-> s, seen |-> Blank]
            /\ reader'[s].at = "read"
        BY <3>3, <4>1
        DEF AnnounceQueued, BackToRead, ReaderGoes, TypeInv, PollerInv, ReaderInv
      <4> QED
        BY <4>2, BlankTyped DEF Spoken
    <3> QED
      BY <3>2, <3>3
  <2>3. ASSUME NEW u \in Ticket, Poller(u) PROVE Spoken(t)'
    <3>0. Spoken(u)
      BY DEF SpeakInv
    <3>1. /\ OneWay
          /\ poller'[u].session = poller[u].session
          /\ \A v \in Ticket : v # u => poller'[v] = poller[v]
          /\ poller'[u].at = "ended" =>
               \/ Cancelled(poller[u].session)
               \/ sock[poller[u].session] # "open"
               \/ Heard(poller[u].session, u)'
               \/ "result" \in Faults /\ ticket[u].matchID
          /\ poller'[u].seen.matchID => ticket[u].matchID
      BY <2>3, <3>0, PollerSpeaks
    <3>2. CASE t # u
      BY <2>0, <3>1, <3>2, StillSpoken
    <3>3. CASE t = u
      <4>1. poller[t].session \in Session
        BY <2>3, <3>3
        DEF Poller, PollStops, PollTimesOut, PollTick, PollReply, PollFails,
            PollClearsMatched, PollResultFails, PollTellsMatched,
            PollClearsSettled, PollTellsSettled, TypeInv, PollerInv,
            PollerState, Running
      <4> QED
        BY <2>0, <3>1, <3>3, <4>1 DEF Spoken, OneWay, Cancelled
    <3> QED
      BY <3>2, <3>3
  <2>4. ASSUME NEW u \in Ticket, Matchmaker(u) PROVE Spoken(t)'
    <3>1. OneWay /\ UNCHANGED poller
      BY <2>4
      DEF Matchmaker, MatchTicket, ExpireTicket, OneWay, TypeInv, TicketInv, TicketState,
          Issued
    <3> QED
      BY <2>0, <3>1, StillSpoken
  <2>5. CASE UNCHANGED vars
    BY <2>0, <2>5, StillSpoken DEF vars, OneWay
  <2>6. CASE ProcessEnds
    <3>1. /\ poller'[t].session = poller[t].session
          /\ poller[t].session \notin Session => poller'[t].at = "off"
          /\ UNCHANGED ticket
      BY <2>6, ExitStep
      DEF ProcessEnds, TypeInv, PollerInv, PollerState, Running
    <3>2. poller'[t].seen.matchID => ticket[t].matchID
      BY <2>0, <2>6, ExitStep, BlankTyped DEF Spoken
    <3> QED
      BY <2>0, <2>6, <3>1, <3>2, ExitStep DEF Spoken
  <2>7. ASSUME NEW s \in Session, OrphanCancels(s) PROVE Spoken(t)'
    <3>1. \A u \in Ticket : ticket[u].matchID => ticket'[u].matchID
      BY <2>7 DEF OrphanCancels, CancelTicket, TypeInv, TicketInv, TicketState
    <3> QED
      BY <2>0, <2>7, <3>1, StillSpoken
      DEF OrphanCancels, ReaderGoes, OneWay, Leaving, TypeInv, ReaderInv
  <2> QED
    BY <2>1, <2>2, <2>3, <2>4, <2>5, <2>6, <2>7 DEF Next
<1> QED
  BY <1>1, <1>2, TypeInvariant, PTL DEF Spec

(* When a poller has ended and its session still reads from an open        *)
(* connection, the client has been told about the ticket, or there is a    *)
(* match, and pollMatch has dropped the error of pushMatch (whatever calls *)
(* fail, and also with a CoreRank that cancels settled tickets).           *)
THEOREM SilenceMeansMatched == Spec => []OnlyMatchesGoUntold
<1>1. SpeakInv => OnlyMatchesGoUntold
  BY DEF SpeakInv, Spoken, Heard, OnlyMatchesGoUntold
<1> QED
  BY <1>1, SpeakInvariant, PTL

(* When a poller has ended and its session still reads from an open        *)
(* connection, the client has been told about the ticket.                  *)
THEOREM NoPollerEndsSilently ==
  ASSUME "result" \notin Faults
  PROVE  Spec => []NoSilentEnd
<1>1. SpeakInv => NoSilentEnd
  BY DEF SpeakInv, Spoken, Heard, NoSilentEnd
<1> QED
  BY <1>1, SpeakInvariant, PTL

-----------------------------------------------------------------------------
(* Matches reach the connections that enqueued the tickets, or that asked  *)
(* for them.  What a session waits for, enqueues or has a poller for it    *)
(* has enqueued for the player it was then bound to; what it shows its     *)
(* client it has enqueued or been asked for.  A claim is never withdrawn,  *)
(* so it does not matter who the session is by now.                        *)

Mine(s, t) == <<s, t, "own">> \in claims
Claimed(s, t) == Mine(s, t) \/ <<s, t, "asked">> \in claims

Starting == {"creating", "created", "announce"}
Showing == {"status", "report", "fetch", "found"}

Entitled(s) ==
  /\ reader[s].at \in Starting => Mine(s, reader[s].ticket)
  /\ reader[s].at \in Showing => Claimed(s, reader[s].ticket)

OwnInv ==
  /\ \A s \in Session :
       Entitled(s) /\ (pending[s] # NoTicket => Mine(s, pending[s]))
  /\ \A t \in Ticket :
       poller[t].session \in Session => Mine(poller[t].session, t)
  /\ \A h \in told : h[3] = "matched" => Claimed(h[1], h[2])

(* What a step newly puts into PendingTicket, a handler, a poller or a     *)
(* client's knowledge of matches is the session's by a claim.              *)
OwnStep ==
  /\ claims \subseteq claims'
  /\ \A s \in Session :
       /\ pending'[s] \in {pending[s], NoTicket} \/ Mine(s, pending'[s])
       /\ reader'[s] = reader[s] \/ Entitled(s)'
  /\ \A t \in Ticket :
       poller'[t].session = poller[t].session \/ Mine(poller'[t].session, t)
  /\ \A h \in told' : h \in told \/ (h[3] = "matched" => Claimed(h[1], h[2]))

LEMMA OwnFrame ==
  ASSUME OwnInv, OwnStep
  PROVE  OwnInv'
<1>1. \A s, t : (Mine(s, t) => Mine(s, t)') /\ (Claimed(s, t) => Claimed(s, t)')
  BY DEF OwnStep, Mine, Claimed
<1>2. ASSUME NEW s \in Session
      PROVE  Entitled(s)' /\ (pending'[s] # NoTicket => Mine(s, pending[s])')
  <2>1. Entitled(s) /\ (pending[s] # NoTicket => Mine(s, pending[s]))
    BY DEF OwnInv
  <2>2. reader'[s] = reader[s] => Entitled(s)'
    BY <1>1, <2>1 DEF Entitled
  <2>3. pending'[s] # NoTicket => Mine(s, pending'[s])
    BY <2>1 DEF OwnStep
  <2> QED
    BY <1>1, <2>2, <2>3 DEF OwnStep, Mine
<1>3. ASSUME NEW t \in Ticket, poller'[t].session \in Session
      PROVE  Mine(poller[t].session, t)'
  BY <1>1, <1>3 DEF OwnInv, OwnStep, Mine
<1>4. ASSUME NEW h \in told', h[3] = "matched" PROVE Claimed(h[1], h[2])'
  BY <1>1, <1>4 DEF OwnInv, OwnStep
<1> QED
  BY <1>2, <1>3, <1>4 DEF OwnInv

LEMMA ClientOwns ==
  ASSUME TypeInv, OwnInv, NEW s \in Session, Client(s)
  PROVE  OwnInv'
<1> USE OwnFrame
    DEF OwnStep, ReaderGoes, BackToRead, Entitled, Starting, Showing, TypeInv, ReaderInv
<1>1. CASE Accept(s) \/ PeerLeaves(s) \/ ReadEnds(s)
  BY <1>1 DEF Accept, PeerLeaves, ReadEnds
<1>2. ASSUME NEW p \in Player, HandleAuth(s, p) PROVE OwnInv'
  BY <1>2 DEF HandleAuth
<1>3. ASSUME NEW t \in Ticket, HandleEnqueue(s, t) PROVE OwnInv'
  <2>1. claims \subseteq claims' /\ Mine(s, t)'
    BY <1>3 DEF HandleEnqueue, CreateTicket, OwnIfBound, Mine, TicketInv
  <2> QED
    BY <1>3, <2>1 DEF HandleEnqueue
<1>4. ASSUME NEW t \in Ticket, HandleCancel(s, t) PROVE OwnInv'
  BY <1>4 DEF HandleCancel
<1>5. ASSUME NEW t \in Ticket, HandleStatus(s, t) PROVE OwnInv'
  <2>1. claims \subseteq claims' /\ Claimed(s, t)'
    BY <1>5, MatchmakingAssumption DEF HandleStatus, OwnInv, Mine, Claimed
  <2> QED
    BY <1>5, <2>1 DEF HandleStatus
<1> QED
  BY <1>1, <1>2, <1>3, <1>4, <1>5 DEF Client

LEMMA ReaderOwns ==
  ASSUME TypeInv, OwnInv, NEW s \in Session, Reader(s)
  PROVE  OwnInv'
<1> USE OwnFrame
    DEF OwnStep, ReaderGoes, BackToRead, SetPending, Tell, Entitled, Starting,
        Showing, Claimed, Mine, TypeInv, ReaderInv, PendingInv
<1>0. Entitled(s)
  BY DEF OwnInv
<1>1. CASE CloseConn(s) \/ CreateReply(s) \/ CreateFails(s)
  BY <1>0, <1>1 DEF CloseConn, CreateReply, CreateFails
<1>2. CASE EnqueueSetsPending(s)
  BY <1>0, <1>2 DEF EnqueueSetsPending
<1>3. CASE AnnounceQueued(s)
  <2>1. Mine(s, reader[s].ticket)
    BY <1>0, <1>3 DEF AnnounceQueued
  <2>2. \A t \in Ticket : \/ poller'[t].session = poller[t].session
                          \/ t = reader[s].ticket /\ poller'[t].session = s
    <3> DEFINE started == [at |-> "select", session |-> s, seen |-> Blank]
    <3>1. poller' = [poller EXCEPT ![reader[s].ticket] = started]
      BY <1>3 DEF AnnounceQueued
    <3>2. poller \in [Ticket -> PollerState]
      BY DEF PollerInv
    <3>3. started.session = s
      OBVIOUS
    <3> HIDE DEF started
    <3> QED
      BY <3>1, <3>2, <3>3
  <2>3. \A r \in Session : reader'[r] = reader[r] \/ reader'[r].at = "read"
    BY <1>3 DEF AnnounceQueued
  <2>4. /\ \A h \in told' : h \in told \/ h[3] = "queued"
        /\ UNCHANGED <<claims, pending>>
    BY <1>3 DEF AnnounceQueued
  <2>5. OwnStep
    BY <2>1, <2>2, <2>3, <2>4
  <2> QED
    BY <2>5
<1>4. CASE AnnounceFails(s) \/ ReaderResultFails(s) \/ StatusFails(s)
  BY <1>4 DEF AnnounceFails, ReaderResultFails, StatusFails
<1>5. CASE ReaderClearsMatched(s) \/ CancelClearsPending(s)
  BY <1>0, <1>5 DEF ReaderClearsMatched, CancelClearsPending
<1>6. CASE ReaderTellsMatched(s) \/ TellCancelled(s) \/ TellStatus(s)
  BY <1>0, <1>6 DEF ReaderTellsMatched, TellCancelled, TellStatus
<1>7. CASE CancelReply(s) \/ CancelFails(s)
  BY <1>7 DEF CancelReply, CancelFails
<1>8. CASE StatusReply(s)
  BY <1>0, <1>8 DEF StatusReply
<1> QED
  BY <1>1, <1>2, <1>3, <1>4, <1>5, <1>6, <1>7, <1>8 DEF Reader

LEMMA PollerOwns ==
  ASSUME TypeInv, OwnInv, NEW t \in Ticket, Poller(t)
  PROVE  OwnInv'
<1>1. /\ UNCHANGED <<claims, reader>>
      /\ poller'[t].session = poller[t].session
      /\ \A u \in Ticket : u # t => poller'[u] = poller[u]
  BY DEF Poller, PollStops, PollTimesOut, PollTick, PollReply, PollFails,
         PollClearsMatched, PollResultFails, PollTellsMatched,
         PollClearsSettled, PollTellsSettled, PollerGoes, TypeInv, PollerInv
<1>2. \A s \in Session : pending'[s] \in {pending[s], NoTicket}
  <2>1. \/ pending' = pending
        \/ pending' = [pending EXCEPT ![poller[t].session] = NoTicket]
    BY DEF Poller, PollStops, PollTimesOut, PollTick, PollReply, PollFails,
           PollClearsMatched, PollResultFails, PollTellsMatched,
           PollClearsSettled, PollTellsSettled, SetPending
  <2> QED
    BY <2>1 DEF TypeInv, PendingInv
<1>3. \A h \in told' : h \in told \/ (h[1] = poller[t].session /\ h[2] = t)
  BY DEF Poller, PollStops, PollTimesOut, PollTick, PollReply, PollFails,
         PollClearsMatched, PollResultFails, PollTellsMatched,
         PollClearsSettled, PollTellsSettled, Tell
<1>4. poller[t].session \in Session
  BY DEF Poller, PollStops, PollTimesOut, PollTick, PollReply, PollFails,
         PollClearsMatched, PollResultFails, PollTellsMatched,
         PollClearsSettled, PollTellsSettled, TypeInv, PollerInv, PollerState,
         Running
<1>5. Mine(poller[t].session, t)
  BY <1>4 DEF OwnInv
<1>6. OwnStep
  BY <1>1, <1>2, <1>3, <1>5 DEF OwnStep, Claimed
<1> QED
  BY <1>6, OwnFrame

LEMMA OthersOwn ==
  ASSUME TypeInv, OwnInv
  PROVE  /\ \A t \in Ticket : Matchmaker(t) => OwnInv'
         /\ ProcessEnds => OwnInv'
         /\ \A s \in Session : OrphanCancels(s) => OwnInv'
         /\ UNCHANGED vars => OwnInv'
<1>1. ASSUME NEW t \in Ticket, Matchmaker(t) PROVE OwnInv'
  BY <1>1, OwnFrame DEF Matchmaker, OwnStep
<1>2. ASSUME ProcessEnds PROVE OwnInv'
  <2>1. UNCHANGED <<claims, pending, told>>
    BY <1>2 DEF ProcessEnds
  <2>2. /\ \A s \in Session : reader'[s] = reader[s]
                            \/ reader'[s].at \in {"orphan", "closed"}
        /\ \A t \in Ticket : poller'[t].session = poller[t].session
    BY <1>2, ExitStep
  <2>3. OwnStep
    BY <2>1, <2>2 DEF OwnStep, Entitled, Starting, Showing
  <2> QED
    BY <2>3, OwnFrame
<1>3. ASSUME NEW s \in Session, OrphanCancels(s) PROVE OwnInv'
  BY <1>3, OwnFrame
  DEF OrphanCancels, ReaderGoes, OwnStep, Entitled, Starting, Showing, TypeInv, ReaderInv
<1>4. ASSUME UNCHANGED vars PROVE OwnInv'
  BY <1>4, OwnFrame DEF vars, OwnStep
<1> QED
  BY <1>1, <1>2, <1>3, <1>4

LEMMA OwnInvariant == Spec => []OwnInv
<1>1. Init => OwnInv
  BY MatchmakingAssumption DEF Init, OwnInv, Entitled, Starting, Showing
<1>2. TypeInv /\ OwnInv /\ [Next]_vars => OwnInv'
  BY ClientOwns, ReaderOwns, PollerOwns, OthersOwn DEF Next
<1> QED
  BY <1>1, <1>2, TypeInvariant, PTL DEF Spec

(* match_found is told only on a connection that enqueued the ticket for   *)
(* the player it was bound to then, or whose client asked for the ticket:  *)
(* with any clients, re-authentication and foreign ticket ids included.    *)
THEOREM MatchesReachOwners == Spec => []FoundReachesOwner
<1>1. OwnInv => FoundReachesOwner
  BY DEF OwnInv, Claimed, Mine, FoundReachesOwner
<1> QED
  BY <1>1, OwnInvariant, PTL

-----------------------------------------------------------------------------
(* No session drops a ticket it has created, while the replies to          *)
(* CreateTicket arrive.  The reader carries the ticket from CreateTicket   *)
(* to the start of pollMatch, or to the match it tells; where it gives up  *)
(* on the way, the connection is lost, or GetResult has failed for a match *)
(* and the client has got that error.                                      *)

Lost(s) == sock[s] \in {"gone", "closed"}

Spared(t) == "result" \in Faults /\ ticket[t].matchID

SeesTo(s, t) ==
  \/ reader[s].ticket = t /\ reader[s].at \in Enqueueing
  \/ <<s, t, "matched">> \in told
  \/ Lost(s)

Kept(t) ==
  \/ poller[t].at # "off"
  \/ Spared(t)
  \/ \E s \in Session : Mine(s, t) /\ SeesTo(s, t)

(* A match id that a reader has seen is CoreRank's, and stays.             *)
Reads(s) ==
  LET t == reader[s].ticket IN
  reader[s].seen.matchID => t \in Ticket /\ ticket[t].matchID

ReadsInv == \A s \in Session : Reads(s)

LEMMA ReadsStep ==
  ASSUME TypeInv, ReadsInv, Next
  PROVE  ReadsInv'
<1> USE DEF ReadsInv, Reads, TypeInv, ReaderInv, ReaderGoes, BackToRead
<1>1. CASE \E s \in Session : Client(s)
  <2>1. PICK s \in Session : Client(s)
    BY <1>1
  <2>2. \A t \in Ticket : ticket[t].matchID => ticket'[t].matchID
    BY <2>1, ClientOneWay DEF OneWay
  <2>3. \A r \in Session : reader'[r] = reader[r] \/ reader'[r].seen = Blank
    BY <2>1
    DEF Client, Accept, PeerLeaves, ReadEnds, HandleAuth, HandleEnqueue,
        HandleCancel, HandleStatus
  <2> QED
    BY <2>2, <2>3, BlankTyped
<1>2. CASE \E s \in Session : Reader(s)
  <2>1. PICK s \in Session : Reader(s)
    BY <1>2
  <2>2. \A t \in Ticket : ticket[t].matchID => ticket'[t].matchID
    BY <2>1, ReaderOneWay DEF OneWay
  <2>3. /\ \A r \in Session : r # s => reader'[r] = reader[r]
        /\ \/ reader'[s].seen = Blank
           \/ /\ reader'[s].ticket = reader[s].ticket
              /\ reader'[s].seen = reader[s].seen
           \/ /\ reader'[s].ticket = reader[s].ticket /\ reader[s].ticket \in Ticket
              /\ reader'[s].seen = ticket[reader[s].ticket]
    BY <2>1
    DEF Reader, CloseConn, CreateReply, CreateFails, EnqueueSetsPending,
        AnnounceQueued, AnnounceFails, ReaderClearsMatched, ReaderResultFails,
        ReaderTellsMatched, CancelReply, CancelFails, CancelClearsPending,
        TellCancelled, StatusReply, StatusFails, TellStatus, Issued, Handling
  <2> QED
    BY <2>2, <2>3, BlankTyped
<1>3. CASE \E t \in Ticket : Poller(t)
  <2>1. UNCHANGED <<ticket, reader>>
    BY <1>3
    DEF Poller, PollStops, PollTimesOut, PollTick, PollReply, PollFails,
        PollClearsMatched, PollResultFails, PollTellsMatched,
        PollClearsSettled, PollTellsSettled
  <2> QED
    BY <2>1
<1>4. CASE \E t \in Ticket : Matchmaker(t)
  <2>1. /\ UNCHANGED reader
        /\ \A u \in Ticket : ticket[u].matchID => ticket'[u].matchID
    BY <1>4
    DEF Matchmaker, MatchTicket, ExpireTicket, TicketInv, TicketState, Issued
  <2> QED
    BY <2>1
<1>5. CASE ProcessEnds
  BY <1>5, ExitStep, BlankTyped DEF ProcessEnds
<1>6. CASE \E s \in Session : OrphanCancels(s)
  <2>1. /\ \A t \in Ticket : ticket[t].matchID => ticket'[t].matchID
        /\ \A r \in Session : reader'[r] = reader[r] \/ reader'[r].seen = Blank
    BY <1>6 DEF OrphanCancels, CancelTicket, TicketInv, TicketState
  <2> QED
    BY <2>1, BlankTyped
<1> QED
  BY <1>1, <1>2, <1>3, <1>4, <1>5, <1>6 DEF Next

LEMMA ReadsInvariant == Spec => []ReadsInv
<1>1. Init => ReadsInv
  BY BlankTyped DEF Init, ReadsInv, Reads
<1>2. TypeInv /\ ReadsInv /\ [Next]_vars => ReadsInv'
  BY ReadsStep DEF vars, ReadsInv, Reads
<1> QED
  BY <1>1, <1>2, TypeInvariant, PTL DEF Spec

Begun(s) == reader[s].at = "new" <=> sock[s] = "none"

KeepInv ==
  /\ \A s \in Session : Begun(s)
  /\ \A t \in Issued : Kept(t)

(* What a step leaves be, but for the one session s that moves in it: with *)
(* it goes a ticket it was seeing to.                                      *)
KeepStep(s) ==
  /\ claims \subseteq claims' /\ told \subseteq told'
  /\ \A t \in Ticket :
       /\ poller[t].at # "off" => poller'[t].at # "off"
       /\ ticket[t].matchID => ticket'[t].matchID
  /\ \A r \in Session : (Lost(r) => Lost(r)') /\ (r = s \/ reader'[r] = reader[r])
  /\ \A t \in Issued : SeesTo(s, t)
       => SeesTo(s, t)' \/ poller'[t].at # "off" \/ Spared(t)'

LEMMA KeptOn ==
  ASSUME TypeInv, KeepInv, NEW s \in Session, KeepStep(s), Issued' \subseteq Issued,
         \A r \in Session : Begun(r)'
  PROVE  KeepInv'
<1> SUFFICES ASSUME NEW t \in Issued PROVE Kept(t)'
  BY DEF KeepInv
<1>1. t \in Ticket /\ Kept(t)
  BY DEF KeepInv, Issued
<1>2. CASE poller[t].at # "off" \/ Spared(t)
  <2>1. poller'[t].at # "off" \/ ("result" \in Faults /\ ticket'[t].matchID)
    BY <1>1, <1>2 DEF KeepStep, Spared
  <2> QED
    BY <2>1 DEF Kept, Spared
<1>3. ASSUME NEW r \in Session, Mine(r, t), SeesTo(r, t)
      PROVE  Kept(t)'
  <2>1. Mine(r, t)'
    BY <1>3 DEF KeepStep, Mine
  <2>2. SeesTo(r, t)' \/ poller'[t].at # "off" \/ Spared(t)'
    <3>1. CASE r = s
      BY <1>3, <3>1 DEF KeepStep
    <3>2. CASE r # s
      BY <1>3, <3>2 DEF KeepStep, SeesTo
    <3> QED
      BY <3>1, <3>2
  <2> QED
    BY <2>1, <2>2 DEF Kept
<1> QED
  BY <1>1, <1>2, <1>3 DEF Kept

LEMMA ClientKeeps ==
  ASSUME TypeInv, KeepInv, NEW s \in Session, Client(s)
  PROVE  KeepInv'
<1> USE DEF KeepStep, ReaderGoes, BackToRead, SeesTo, Lost, Begun, TypeInv,
        ReaderInv, ConnInv, Enqueueing, Issued
<1>0. Begun(s) /\ \A r \in Session : Begun(r)
  BY DEF KeepInv
<1>1. CASE Accept(s)
  <2>1. KeepStep(s) /\ Issued' \subseteq Issued /\ \A r \in Session : Begun(r)'
    BY <1>0, <1>1 DEF Accept
  <2> QED
    BY <2>1, KeptOn
<1>2. CASE PeerLeaves(s)
  <2>1. KeepStep(s) /\ Issued' \subseteq Issued /\ \A r \in Session : Begun(r)'
    BY <1>0, <1>2 DEF PeerLeaves
  <2> QED
    BY <2>1, KeptOn
<1>3. CASE ReadEnds(s)
  <2>1. KeepStep(s) /\ Issued' \subseteq Issued /\ \A r \in Session : Begun(r)'
    BY <1>0, <1>3 DEF ReadEnds
  <2> QED
    BY <2>1, KeptOn
<1>4. ASSUME NEW p \in Player, HandleAuth(s, p) PROVE KeepInv'
  <2>1. KeepStep(s) /\ Issued' \subseteq Issued /\ \A r \in Session : Begun(r)'
    BY <1>0, <1>4 DEF HandleAuth
  <2> QED
    BY <2>1, KeptOn
<1>5. ASSUME NEW t \in Ticket, HandleEnqueue(s, t) PROVE KeepInv'
  <2>1. /\ claims \subseteq claims' /\ Mine(s, t)'
        /\ Issued' = Issued \cup {t} /\ t \notin Issued
        /\ \A u \in Issued : ticket'[u] = ticket[u]
    BY <1>5 DEF HandleEnqueue, CreateTicket, OwnIfBound, Mine, TicketInv, TicketState
  <2>2. reader[s].at = "read" /\ reader'[s].at = "creating" /\ reader'[s].ticket = t
    BY <1>5 DEF HandleEnqueue
  <2>3. SeesTo(s, t)' /\ \A r \in Session : Begun(r)'
    BY <1>0, <1>5, <2>2 DEF HandleEnqueue
  <2>4. Kept(t)'
    BY <2>1, <2>3 DEF Kept
  <2>5. ASSUME NEW u \in Issued PROVE Kept(u)'
    <3>1. Kept(u) /\ u # t /\ ticket'[u] = ticket[u]
      BY <2>1 DEF KeepInv
    <3>2. \A r \in Session :
            /\ SeesTo(r, u) => SeesTo(r, u)'
            /\ Mine(r, u) => Mine(r, u)'
      BY <1>5, <2>1, <2>2 DEF HandleEnqueue, Mine
    <3> QED
      BY <1>5, <3>1, <3>2 DEF Kept, Spared, HandleEnqueue
  <2> QED
    BY <2>1, <2>3, <2>4, <2>5 DEF KeepInv
<1>6. ASSUME NEW t \in Ticket, HandleCancel(s, t) \/ HandleStatus(s, t)
      PROVE  KeepInv'
  <2>1. KeepStep(s) /\ Issued' \subseteq Issued /\ \A r \in Session : Begun(r)'
    BY <1>0, <1>6 DEF HandleCancel, HandleStatus
  <2> QED
    BY <2>1, KeptOn
<1> QED
  BY <1>1, <1>2, <1>3, <1>4, <1>5, <1>6 DEF Client

LEMMA ReaderKeeps ==
  ASSUME TypeInv, ReadsInv, KeepInv, NEW s \in Session, Reader(s),
         "create" \notin Faults
  PROVE  KeepInv'
<1> SUFFICES KeepStep(s) /\ Issued' \subseteq Issued /\ \A r \in Session : Begun(r)'
  BY KeptOn
<1> USE DEF KeepStep, ReaderGoes, BackToRead, SeesTo, Lost, Begun, TypeInv,
        ReaderInv, ConnInv, Enqueueing, Issued, Tell
<1>0. Begun(s) /\ \A r \in Session : Begun(r)
  BY DEF KeepInv
<1>1. CASE CloseConn(s)
  BY <1>0, <1>1 DEF CloseConn
<1>2. CASE CreateReply(s) \/ CreateFails(s) \/ EnqueueSetsPending(s)
  BY <1>0, <1>2 DEF CreateReply, CreateFails, EnqueueSetsPending
<1>3. CASE AnnounceQueued(s)
  <2>1. \A t \in Ticket :
          \/ t # reader[s].ticket /\ poller'[t] = poller[t]
          \/ t = reader[s].ticket /\ poller'[t].at # "off"
    BY <1>3 DEF AnnounceQueued, PollerInv
  <2>2. /\ \A t \in Ticket : poller[t].at # "off" => poller'[t].at # "off"
        /\ poller'[reader[s].ticket].at # "off" \/ reader[s].ticket \notin Ticket
    BY <2>1
  <2>3. UNCHANGED <<ticket, claims>> /\ told \subseteq told'
    BY <1>3 DEF AnnounceQueued
  <2>4. \A r \in Session : (Lost(r) => Lost(r)') /\ (r = s \/ reader'[r] = reader[r])
    BY <1>3 DEF AnnounceQueued
  <2>5. \A t \in Issued : SeesTo(s, t) => SeesTo(s, t)' \/ poller'[t].at # "off"
    <3> SUFFICES ASSUME NEW t \in Issued, SeesTo(s, t), poller'[t].at = "off"
                 PROVE  <<s, t, "matched">> \in told \/ Lost(s)
      BY <2>3, <2>4
    <3>1. t # reader[s].ticket
      BY <2>2
    <3> QED
      BY <3>1
  <2>6. Issued' \subseteq Issued /\ \A r \in Session : Begun(r)'
    BY <1>0, <1>3 DEF AnnounceQueued
  <2>7. \A t \in Ticket : ticket[t].matchID => ticket'[t].matchID
    BY <2>3
  <2> HIDE DEF SeesTo, Lost, Begun, TypeInv, Issued
  <2> QED
    BY <2>2, <2>3, <2>4, <2>5, <2>6, <2>7
<1>4. CASE AnnounceFails(s)
  BY <1>0, <1>4 DEF AnnounceFails
<1>5. CASE ReaderClearsMatched(s)
  BY <1>0, <1>5 DEF ReaderClearsMatched
<1>6. CASE ReaderTellsMatched(s)
  BY <1>0, <1>6 DEF ReaderTellsMatched
<1>7. CASE CancelReply(s) \/ CancelFails(s)
  <2>1. /\ UNCHANGED <<sock, claims, poller, told>> /\ reader[s].at = "cancel"
        /\ \A r \in Session \ {s} : reader'[r] = reader[r]
        /\ reader'[s].at \in {"cancelled", "read"}
    BY <1>7 DEF CancelReply, CancelFails
  <2>2. /\ Issued' \subseteq Issued
        /\ \A t \in Ticket : ticket[t].matchID => ticket'[t].matchID
    <3>1. UNCHANGED ticket \/ CancelTicket(reader[s].ticket)
      BY <1>7 DEF CancelReply, CancelFails
    <3> QED
      BY <2>1, <3>1 DEF CancelTicket, TicketInv, TicketState, Handling
  <2> QED
    BY <1>0, <2>1, <2>2
<1>8. CASE CancelClearsPending(s) \/ TellCancelled(s)
  BY <1>0, <1>8 DEF CancelClearsPending, TellCancelled
<1>9. CASE StatusReply(s) \/ StatusFails(s) \/ TellStatus(s)
  BY <1>0, <1>9 DEF StatusReply, StatusFails, TellStatus
<1>10. CASE ReaderResultFails(s)
  <2>1. \A t \in Ticket : t = reader[s].ticket => Spared(t)'
    BY <1>10 DEF ReaderResultFails, ReadsInv, Reads, Spared
  <2>2. ASSUME NEW t \in Issued, SeesTo(s, t) PROVE SeesTo(s, t)' \/ Spared(t)'
    BY <1>10, <2>1, <2>2 DEF ReaderResultFails
  <2>3. UNCHANGED <<ticket, sock, claims, poller, told>>
    BY <1>10 DEF ReaderResultFails
  <2> QED
    BY <1>0, <1>10, <2>2, <2>3 DEF ReaderResultFails
<1> QED
  BY <1>1, <1>2, <1>3, <1>4, <1>5, <1>6, <1>7, <1>8, <1>9, <1>10 DEF Reader

LEMMA OthersKeep ==
  ASSUME TypeInv, KeepInv
  PROVE  /\ \A t \in Ticket : Poller(t) \/ Matchmaker(t) => KeepInv'
         /\ ProcessEnds => KeepInv'
         /\ \A s \in Session : OrphanCancels(s) => KeepInv'
         /\ UNCHANGED vars => KeepInv'
<1>0. \A s \in Session : Begun(s)
  BY DEF KeepInv
<1>1. ASSUME Issued' \subseteq Issued, told \subseteq told',
             UNCHANGED <<reader, sock, claims>>,
             \A t \in Ticket :
               /\ poller[t].at # "off" => poller'[t].at # "off"
               /\ ticket[t].matchID => ticket'[t].matchID
      PROVE  KeepInv'
  <2>1. \A r \in Session : Begun(r)'
    BY <1>0, <1>1 DEF Begun
  <2>2. CASE Session # {}
    <3>1. PICK s \in Session : TRUE
      BY <2>2
    <3>2. \A t : SeesTo(s, t) => SeesTo(s, t)'
      BY <1>1 DEF SeesTo, Lost
    <3>3. KeepStep(s)
      BY <1>1, <3>2 DEF KeepStep, Lost
    <3> QED
      BY <1>1, <2>1, <3>3, KeptOn
  <2>3. CASE Session = {}
    BY <1>1, <2>3 DEF KeepInv, Kept, Spared, Issued
  <2> QED
    BY <2>2, <2>3
<1>2. ASSUME NEW t \in Ticket, Poller(t) PROVE KeepInv'
  <2>1. UNCHANGED <<ticket, claims, reader, sock>> /\ told \subseteq told'
    BY <1>2 DEF Poller, PollStops, PollTimesOut, PollTick, PollReply, PollFails,
         PollClearsMatched, PollResultFails, PollTellsMatched,
         PollClearsSettled, PollTellsSettled, Tell
  <2>2. \A u \in Ticket : poller[u].at # "off" => poller'[u].at # "off"
    BY <1>2 DEF Poller, PollStops, PollTimesOut, PollTick, PollReply, PollFails,
         PollClearsMatched, PollResultFails, PollTellsMatched,
         PollClearsSettled, PollTellsSettled, PollerGoes, TypeInv, PollerInv
  <2> QED
    BY <1>1, <2>1, <2>2 DEF Issued
<1>3. ASSUME NEW t \in Ticket, Matchmaker(t) PROVE KeepInv'
  <2>1. /\ Issued' \subseteq Issued
        /\ \A u \in Ticket : ticket[u].matchID => ticket'[u].matchID
    BY <1>3
    DEF Matchmaker, MatchTicket, ExpireTicket, Issued, TypeInv, TicketInv, TicketState
  <2> QED
    BY <1>1, <1>3, <2>1 DEF Matchmaker
<1>4. ASSUME ProcessEnds PROVE KeepInv'
  <2>1. /\ UNCHANGED <<ticket, claims, told>>
        /\ \A t \in Ticket : poller[t].at # "off" => poller'[t].at # "off"
    BY <1>4, ExitStep DEF ProcessEnds
  <2>2. ASSUME NEW r \in Session
        PROVE  Begun(r)' /\ \A t \in Ticket : SeesTo(r, t) => SeesTo(r, t)'
    BY <1>0, <1>4, <2>1, ExitStep DEF Begun, SeesTo, Lost, Enqueueing
  <2> QED
    BY <2>1, <2>2 DEF KeepInv, Kept, Spared, Mine, Issued
<1>5. ASSUME NEW s \in Session, OrphanCancels(s) PROVE KeepInv'
  <2>1. /\ reader[s].at = "orphan" /\ reader[s].ticket \in Issued
        /\ UNCHANGED <<sock, claims, poller, told>>
        /\ \A r \in Session \ {s} : reader'[r] = reader[r]
        /\ reader'[s].at = "closed" /\ CancelTicket(reader[s].ticket)
    BY <1>5 DEF OrphanCancels, ReaderGoes, TypeInv, ReaderInv
  <2>2. /\ Issued' \subseteq Issued
        /\ \A t \in Ticket : ticket[t].matchID => ticket'[t].matchID
    BY <2>1 DEF CancelTicket, TypeInv, TicketInv, TicketState, Issued
  <2>3. \A r \in Session : Begun(r)'
    BY <1>0, <2>1 DEF Begun
  <2> QED
    BY <2>1, <2>2, <2>3, KeptOn DEF KeepStep, SeesTo, Lost, Enqueueing
<1>6. ASSUME UNCHANGED vars PROVE KeepInv'
  BY <1>1, <1>6 DEF vars, Issued
<1> QED
  BY <1>2, <1>3, <1>4, <1>5, <1>6

(* From HandleEnqueue's CreateTicket on, a session sees to its ticket until*)
(* pollMatch does, the match is told or the connection is lost, or its     *)
(* client has got the error of a GetResult that failed for the match       *)
(* (handlers return early only where a call or a write fails), provided    *)
(* the replies to CreateTicket arrive.                                     *)
THEOREM SessionsKeepTickets ==
  ASSUME "create" \notin Faults
  PROVE  Spec => []NoTicketDropped
<1>1. Init => KeepInv
  BY BlankTyped DEF Init, CoreRankInit, Issued, KeepInv, Begun
<1>2. TypeInv /\ ReadsInv /\ KeepInv /\ [Next]_vars => KeepInv'
  BY ClientKeeps, ReaderKeeps, OthersKeep DEF Next
<1>3. KeepInv => NoTicketDropped
  BY DEF KeepInv, Kept, Spared, Mine, SeesTo, Lost, NoTicketDropped
<1> QED
  BY <1>1, <1>2, <1>3, TypeInvariant, ReadsInvariant, PTL DEF Spec

-----------------------------------------------------------------------------
(* The pending ticket of a session is the one that waits, for clients that *)
(* wait for the poller before they enqueue again and name no old ticket.   *)
(* Such a session has one poller at most and none while it enqueues; what  *)
(* its reader or its poller clears PendingTicket for is the ticket in it.  *)

Waits(t, s) == Polling(t, s) /\ ticket[t].status = "queued"

Minds(s) ==
  /\ \A t, u \in Ticket : Polling(t, s) /\ Polling(u, s) => t = u
  /\ reader[s].at \in Starting => \A t \in Ticket : ~Polling(t, s)
  /\ reader[s].at = "announce" => pending[s] = reader[s].ticket
  /\ \A t \in Ticket : Waits(t, s) =>
       /\ pending[s] = t
       /\ reader[s].at \in Handling => reader[s].ticket = t

PolledInv ==
  /\ \A t \in Ticket : poller[t].session \in Session => t \in Issued
  /\ \A s \in Session : Minds(s)

(* No poller starts and no polled ticket goes back into the queue.         *)
FewerWait ==
  /\ \A s \in Session, t \in Ticket :
       /\ poller'[t].at \in Running /\ poller'[t].session = s
            => Polling(t, s)
       /\ Polling(t, s) /\ ticket'[t].status = "queued"
            => ticket[t].status = "queued"
  /\ \A t \in Ticket : poller'[t].session = poller[t].session
  /\ Issued \subseteq Issued'

LEMMA MindsStill ==
  ASSUME FewerWait, NEW s \in Session, Minds(s),
         reader'[s] = reader[s], pending'[s] = pending[s]
  PROVE  Minds(s)'
BY DEF FewerWait, Minds, Waits, Polling

(* A step in which one session alone moves.                                *)
LEMMA OneMinds ==
  ASSUME PolledInv, FewerWait, NEW s \in Session, Minds(s)',
         \A r \in Session : r # s =>
           reader'[r] = reader[r] /\ pending'[r] = pending[r]
  PROVE  PolledInv'
<1>1. \A r \in Session : Minds(r)'
  BY MindsStill DEF PolledInv
<1>2. \A t \in Ticket : poller'[t].session \in Session => t \in Issued'
  BY DEF PolledInv, FewerWait
<1> QED
  BY <1>1, <1>2 DEF PolledInv

LEMMA FewerByReader ==
  ASSUME UNCHANGED poller,
         \/ UNCHANGED ticket
         \/ TicketInv /\ \E t \in Ticket : CancelTicket(t)
         \/ PolledInv /\ TicketInv
              /\ \E t \in Ticket, p \in Player : CreateTicket(t, p)
  PROVE  FewerWait
<1>1. CASE UNCHANGED ticket
  BY <1>1 DEF FewerWait, Polling, Issued
<1>2. CASE TicketInv /\ \E t \in Ticket : CancelTicket(t)
  BY <1>2
  DEF FewerWait, Polling, CancelTicket, Issued, TicketInv, TicketState
<1>3. CASE PolledInv /\ TicketInv
             /\ \E t \in Ticket, p \in Player : CreateTicket(t, p)
  BY <1>3
  DEF FewerWait, Polling, PolledInv, CreateTicket, Issued, TicketInv,
      TicketState
<1> QED
  BY <1>1, <1>2, <1>3

LEMMA ClientMinds ==
  ASSUME TypeInv, PolledInv, NEW s \in Session, Client(s),
         "one_poller" \in Habits, "current_ticket" \in Habits
  PROVE  PolledInv'
<1>0. /\ Minds(s) /\ TicketInv
      /\ reader \in [Session -> ReaderState]
  BY DEF PolledInv, TypeInv, ReaderInv
<1>1. CASE Accept(s) \/ ReadEnds(s)
  <2>1. FewerWait /\ UNCHANGED <<poller, pending, ticket>>
    BY <1>1, FewerByReader DEF Accept, ReadEnds
  <2>2. /\ reader'[s].at \in {"read", "leave"}
        /\ \A r \in Session : r # s => reader'[r] = reader[r]
    BY <1>0, <1>1 DEF Accept, ReadEnds, BackToRead, ReaderGoes
  <2>3. /\ reader[s].at \in {"new", "read"}
        /\ UNCHANGED poller
    BY <1>1 DEF Accept, ReadEnds
  <2>4. Minds(s)'
    BY <1>0, <2>1, <2>2, <2>3 DEF Minds, Waits, Polling, Starting, Handling
  <2> QED
    BY <2>1, <2>2, <2>4, OneMinds
<1>2. CASE PeerLeaves(s) \/ \E p \in Player : HandleAuth(s, p)
  <2>1. FewerWait /\ UNCHANGED <<reader, pending>>
    BY <1>2, FewerByReader DEF PeerLeaves, HandleAuth
  <2>2. Minds(s)'
    BY <1>0, <2>1, MindsStill
  <2> QED
    BY <2>1, <2>2, OneMinds
<1>3. ASSUME NEW t \in Ticket, HandleEnqueue(s, t) PROVE PolledInv'
  <2>1. UNCHANGED <<poller, pending>> /\ \E p \in Player : CreateTicket(t, p)
    BY <1>3 DEF HandleEnqueue, TypeInv, ConnInv
  <2>2. FewerWait
    BY <1>0, <2>1, FewerByReader
  <2>3. /\ reader'[s].at = "creating" /\ \A u \in Ticket : ~Polling(u, s)
        /\ \A r \in Session : r # s => reader'[r] = reader[r]
    BY <1>0, <1>3 DEF HandleEnqueue, ReaderGoes, MayEnqueue
  <2>4. Minds(s)'
    BY <2>1, <2>3 DEF Minds, Waits, Polling
  <2> QED
    BY <2>1, <2>2, <2>3, <2>4, OneMinds
<1>4. ASSUME NEW t \in Ticket, HandleCancel(s, t) \/ HandleStatus(s, t)
      PROVE  PolledInv'
  <2>1. UNCHANGED <<poller, pending, ticket>> /\ t = pending[s]
    BY <1>4 DEF HandleCancel, HandleStatus, Named
  <2>2. FewerWait
    BY <2>1, FewerByReader
  <2>3. /\ reader'[s].at \in {"cancel", "status"} /\ reader'[s].ticket = t
        /\ \A r \in Session : r # s => reader'[r] = reader[r]
    BY <1>0, <1>4 DEF HandleCancel, HandleStatus, ReaderGoes
  <2>4. Minds(s)'
    BY <1>0, <2>1, <2>3 DEF Minds, Waits, Polling, Starting
  <2> QED
    BY <2>1, <2>2, <2>3, <2>4, OneMinds
<1> QED
  BY <1>1, <1>2, <1>3, <1>4 DEF Client

(* The reader goes to place with ticket u, and leaves PendingTicket be, or *)
(* empties it while no ticket of the session waits.                        *)
LEMMA ReaderMinds ==
  ASSUME TypeInv, PolledInv, FewerWait, NEW s \in Session, UNCHANGED poller,
         reader[s].at \in Handling \cup {"leave"},
         NEW place, NEW u, NEW answer, ReaderGoes(s, place, u, answer),
         place \in Starting => reader[s].at \in Starting,
         place # "announce",
         place \in Handling => u = reader[s].ticket /\ reader[s].at \in Handling,
         \/ UNCHANGED pending
         \/ /\ SetPending(s, NoTicket)
            /\ \A t \in Ticket : ~Waits(t, s)
  PROVE  PolledInv'
<1>1. /\ reader'[s].at = place /\ reader'[s].ticket = u
      /\ \A r \in Session : r # s =>
           reader'[r] = reader[r] /\ pending'[r] = pending[r]
      /\ pending'[s] = pending[s] \/ \A t \in Ticket : ~Waits(t, s)
  BY DEF ReaderGoes, SetPending, TypeInv, ReaderInv, PendingInv
<1>2. Minds(s)
  BY DEF PolledInv
<1>3. Minds(s)'
  BY <1>1, <1>2 DEF Minds, Waits, Polling, FewerWait, Starting, Handling
<1> QED
  BY <1>1, <1>3, OneMinds

LEMMA QueuedIsUndecided ==
  ASSUME TruthInv, NEW t \in Ticket, ticket[t].status = "queued"
  PROVE  given[t] = {}
BY DEF TruthInv, CoreTruth, Settled

LEMMA ReaderKeepsMinds ==
  ASSUME TypeInv, TruthInv, PolledInv, NEW s \in Session, Reader(s)
  PROVE  PolledInv'
<1>0. /\ Minds(s) /\ TicketInv
      /\ reader[s].at \in Handling => reader[s].ticket \in Ticket
      /\ Knows(given, reader[s].at, reader[s].ticket, reader[s].seen)
      /\ reader \in [Session -> ReaderState]
  BY DEF PolledInv, TypeInv, ReaderInv, TruthInv, ReaderTruth, Issued
<1>1. CASE CloseConn(s) \/ CreateReply(s) \/ CreateFails(s)
  <2>1. FewerWait /\ UNCHANGED <<poller, pending>>
    BY <1>1, FewerByReader DEF CloseConn, CreateReply, CreateFails
  <2> QED
    BY <1>1, <2>1, ReaderMinds
    DEF CloseConn, CreateReply, CreateFails, BackToRead, Handling, Starting
<1>2. CASE EnqueueSetsPending(s)
  <2>1. FewerWait
    BY <1>2, FewerByReader DEF EnqueueSetsPending
  <2>2. /\ pending'[s] = reader[s].ticket /\ reader'[s].ticket = reader[s].ticket
        /\ reader'[s].at \in {"fetch", "announce"}
        /\ \A r \in Session : r # s =>
             reader'[r] = reader[r] /\ pending'[r] = pending[r]
        /\ UNCHANGED poller /\ reader[s].at = "created"
    BY <1>0, <1>2
    DEF EnqueueSetsPending, SetPending, ReaderGoes, TypeInv, PendingInv
  <2>3. Minds(s)'
    BY <1>0, <2>2 DEF Minds, Waits, Polling, Starting
  <2> QED
    BY <2>1, <2>2, <2>3, OneMinds
<1>3. CASE AnnounceQueued(s)
  <2> DEFINE t == reader[s].ticket
             started == [at |-> "select", session |-> s, seen |-> Blank]
  <2>1. /\ reader[s].at = "announce" /\ t \in Ticket
        /\ poller' = [poller EXCEPT ![t] = started]
        /\ UNCHANGED <<ticket, pending>> /\ BackToRead(s)
    BY <1>0, <1>3 DEF AnnounceQueued, Handling
  <2>2. /\ poller'[t].at \in Running /\ poller'[t].session = s
        /\ \A u \in Ticket : u # t => poller'[u] = poller[u]
    <3>1. started.at \in Running /\ started.session = s
      BY DEF Running
    <3>2. poller \in [Ticket -> PollerState]
      BY DEF TypeInv, PollerInv
    <3> HIDE DEF started
    <3> QED
      BY <2>1, <3>1, <3>2
  <2>3. /\ reader'[s].at = "read"
        /\ \A r \in Session : r # s => reader'[r] = reader[r]
    BY <1>0, <2>1 DEF BackToRead, ReaderGoes
  <2>4. t \in Issued
    BY <2>1 DEF TypeInv, ReaderInv, Handling
  <2>5. \A u \in Ticket : poller'[u].session \in Session => u \in Issued'
    BY <2>1, <2>2, <2>4 DEF PolledInv, Issued
  <2>6. Minds(s)'
    BY <1>0, <2>1, <2>2, <2>3 DEF Minds, Waits, Polling, Starting, Handling
  <2>7. ASSUME NEW r \in Session, r # s PROVE Minds(r)'
    BY <2>1, <2>2, <2>3, <2>7 DEF PolledInv, Minds, Waits, Polling
  <2> QED
    BY <2>5, <2>6, <2>7 DEF PolledInv
<1>4. CASE AnnounceFails(s) \/ ReaderResultFails(s) \/ StatusFails(s)
  <2>1. FewerWait /\ UNCHANGED <<poller, pending>>
    BY <1>4, FewerByReader DEF AnnounceFails, ReaderResultFails, StatusFails
  <2> QED
    BY <1>4, <2>1, ReaderMinds
    DEF AnnounceFails, ReaderResultFails, StatusFails, BackToRead, Handling,
        Starting
<1>5. CASE ReaderClearsMatched(s) \/ CancelClearsPending(s)
  <2>1. FewerWait /\ UNCHANGED poller
    BY <1>5, FewerByReader DEF ReaderClearsMatched, CancelClearsPending
  <2>2. ticket[reader[s].ticket].status # "queued"
    BY <1>0, <1>5, QueuedIsUndecided
    DEF ReaderClearsMatched, CancelClearsPending, Knows, IsMatched, Settled
  <2>3. \A t \in Ticket : ~Waits(t, s)
    BY <1>0, <1>5, <2>2
    DEF ReaderClearsMatched, CancelClearsPending, Minds, Waits, Handling
  <2> QED
    BY <1>5, <2>1, <2>3, ReaderMinds
    DEF ReaderClearsMatched, CancelClearsPending, Handling, Starting
<1>6. CASE ReaderTellsMatched(s) \/ TellCancelled(s) \/ TellStatus(s)
  <2>1. FewerWait /\ UNCHANGED <<poller, pending>>
    BY <1>6, FewerByReader DEF ReaderTellsMatched, TellCancelled, TellStatus
  <2> QED
    BY <1>6, <2>1, ReaderMinds
    DEF ReaderTellsMatched, TellCancelled, TellStatus, BackToRead, Handling,
        Starting
<1>7. CASE CancelReply(s) \/ CancelFails(s)
  <2>1. UNCHANGED ticket \/ CancelTicket(reader[s].ticket)
    BY <1>7 DEF CancelReply, CancelFails
  <2>2. /\ UNCHANGED <<poller, pending>> /\ reader[s].at = "cancel"
        /\ \/ ReaderGoes(s, "cancelled", reader[s].ticket, Blank)
           \/ ReaderGoes(s, "read", NoTicket, Blank)
    BY <1>7 DEF CancelReply, CancelFails, BackToRead
  <2>3. FewerWait
    BY <1>0, <2>1, <2>2, FewerByReader DEF Handling
  <2> QED
    BY <2>2, <2>3, ReaderMinds DEF Handling, Starting
<1>8. CASE StatusReply(s)
  <2>1. FewerWait
    BY <1>8, FewerByReader DEF StatusReply
  <2> QED
    BY <1>8, <2>1, ReaderMinds DEF StatusReply, Handling, Starting
<1> QED
  BY <1>1, <1>2, <1>3, <1>4, <1>5, <1>6, <1>7, <1>8 DEF Reader

LEMMA PollerKeepsMinds ==
  ASSUME TypeInv, TruthInv, PolledInv, NEW t \in Ticket, Poller(t)
  PROVE  PolledInv'
<1> DEFINE s == poller[t].session
<1> USE DEF Poller
<1>1. /\ UNCHANGED <<ticket, reader>>
      /\ poller[t].at \in Running
      /\ poller'[t].session = s
      /\ \A u \in Ticket : u # t => poller'[u] = poller[u]
  BY DEF PollStops, PollTimesOut, PollTick, PollReply, PollFails,
         PollClearsMatched, PollResultFails, PollTellsMatched,
         PollClearsSettled, PollTellsSettled, PollerGoes, TypeInv, PollerInv,
         Running
<1>2. s \in Session
  BY <1>1 DEF TypeInv, PollerInv, PollerState, Running
<1>3. FewerWait
  BY <1>1 DEF FewerWait, Polling, Issued
<1>4. \/ UNCHANGED pending
      \/ SetPending(s, NoTicket) /\ poller[t].at \in {"fetch", "settle"}
  BY DEF PollStops, PollTimesOut, PollTick, PollReply, PollFails,
         PollClearsMatched, PollResultFails, PollTellsMatched,
         PollClearsSettled, PollTellsSettled
<1>5. CASE UNCHANGED pending
  BY <1>1, <1>2, <1>3, <1>5, MindsStill, OneMinds DEF PolledInv
<1>6. CASE SetPending(s, NoTicket) /\ poller[t].at \in {"fetch", "settle"}
  <2>1. ticket[t].status # "queued"
    <3>1. Knows(given, poller[t].at, t, poller[t].seen)
      BY DEF TruthInv, PollerTruth
    <3>2. poller[t].at = "settle"
            => poller[t].seen.status \in {"cancelled", "timeout"}
      BY DEF TypeInv, PollerInv
    <3> QED
      BY <1>6, <3>1, <3>2, QueuedIsUndecided DEF Knows, IsMatched, Settled
  <2>2. /\ Polling(t, s) /\ Minds(s)
        /\ \A u \in Ticket : ~Waits(u, s)
    BY <1>1, <1>2, <2>1 DEF PolledInv, Minds, Waits, Polling
  <2>3. \A r \in Session : r # s => pending'[r] = pending[r]
    BY <1>6 DEF SetPending, TypeInv, PendingInv
  <2>4. Minds(s)'
    BY <1>1, <1>2, <1>3, <2>2
    DEF Minds, Waits, Polling, FewerWait, Starting
  <2> QED
    BY <1>1, <1>2, <1>3, <2>3, <2>4, OneMinds
<1> QED
  BY <1>4, <1>5, <1>6

LEMMA OthersMind ==
  ASSUME TypeInv, PolledInv
  PROVE  /\ \A t \in Ticket : Matchmaker(t) => PolledInv'
         /\ ProcessEnds => PolledInv'
         /\ \A s \in Session : OrphanCancels(s) => PolledInv'
         /\ UNCHANGED vars => PolledInv'
<1>1. ASSUME NEW t \in Ticket, Matchmaker(t) PROVE PolledInv'
  <2>1. FewerWait /\ UNCHANGED <<reader, pending>>
    BY <1>1
    DEF Matchmaker, MatchTicket, ExpireTicket, FewerWait, Polling, Issued,
        TypeInv, TicketInv, TicketState
  <2>2. \A s \in Session : Minds(s)'
    BY <2>1, MindsStill DEF PolledInv
  <2> QED
    BY <2>1, <2>2 DEF PolledInv, FewerWait
<1>2. ASSUME ProcessEnds PROVE PolledInv'
  <2>1. \A s \in Session, t \in Ticket : ~Polling(t, s)'
    <3>1. \A t \in Ticket : poller'[t].at \notin Running
      BY <1>2 DEF ProcessEnds, Running, TypeInv, PollerInv, PollerState
    <3> QED
      BY <3>1 DEF Polling
  <2>2. \A s \in Session : reader'[s].at \in {"new", "orphan", "closed"}
    BY <1>2, ExitStep DEF TypeInv, ReaderInv
  <2>3. /\ UNCHANGED ticket
        /\ \A t \in Ticket : poller'[t].session = poller[t].session
    BY <1>2 DEF ProcessEnds, TypeInv, PollerInv, PollerState
  <2> QED
    BY <2>1, <2>2, <2>3 DEF PolledInv, Minds, Waits, Starting, Issued
<1>3. ASSUME NEW s \in Session, OrphanCancels(s) PROVE PolledInv'
  <2>1. /\ UNCHANGED <<pending, poller>> /\ reader'[s].at = "closed"
        /\ \A r \in Session : r # s => reader'[r] = reader[r]
        /\ CancelTicket(reader[s].ticket) /\ reader[s].ticket \in Ticket
    BY <1>3 DEF OrphanCancels, ReaderGoes, TypeInv, ReaderInv, Issued
  <2>2. FewerWait
    BY <2>1, FewerByReader DEF TypeInv
  <2>3. Minds(s)'
    BY <2>1, <2>2
    DEF PolledInv, Minds, Waits, Polling, FewerWait, Starting, Handling
  <2> QED
    BY <2>1, <2>2, <2>3, OneMinds
<1>4. ASSUME UNCHANGED vars PROVE PolledInv'
  BY <1>4 DEF vars, PolledInv, Minds, Waits, Polling, Issued
<1> QED
  BY <1>1, <1>2, <1>3, <1>4

(* While a session's ticket waits and is polled for, it is the session's   *)
(* pending ticket, for clients that wait for the poller before they        *)
(* enqueue again and name no old ticket.                                   *)
THEOREM PendingStaysPolled ==
  ASSUME "one_poller" \in Habits, "current_ticket" \in Habits
  PROVE  Spec => []PendingIsPolled
<1>1. Init => PolledInv
  BY MatchmakingAssumption
  DEF Init, PolledInv, Minds, Waits, Polling, Running, Starting
<1>2. TypeInv /\ TruthInv /\ PolledInv /\ [Next]_vars => PolledInv'
  BY ClientMinds, ReaderKeepsMinds, PollerKeepsMinds, OthersMind DEF Next
<1>3. PolledInv => PendingIsPolled
  BY DEF PolledInv, Minds, Waits, PendingIsPolled
<1> QED
  BY <1>1, <1>2, <1>3, TypeInvariant, AnswersAreTrue, PTL DEF Spec
=============================================================================
