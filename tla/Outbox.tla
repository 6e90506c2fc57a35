-------------------------------- MODULE Outbox --------------------------------
(***************************************************************************)
(* What a connection promises the goroutines that write to it, with no     *)
(* bytes and no mutex in it: a frame is sent in one step or not at all, it *)
(* is refused only when the connection is down, nothing is sent after that,*)
(* and the peer gets what was sent, each frame once, in order.  WsConn is  *)
(* shown to implement this module.                                         *)
(***************************************************************************)
EXTENDS Integers

CONSTANTS Writer, Size, Nothing

VARIABLES
  asked, (* [Writer -> the size of the frame it asks to send, or Nothing]  *)
  sent,  (* the frames sent, each with its place in their order            *)
  got,   (* those of them the peer has got                                 *)
  down   (* nothing can be sent any more                                   *)

vars == <<asked, sent, got, down>>

Init ==
  /\ asked = [w \in Writer |-> Nothing]
  /\ sent = {}
  /\ got = {}
  /\ down = FALSE

Ask(w) ==
  /\ asked[w] = Nothing
  /\ \E n \in Size : asked' = [asked EXCEPT ![w] = n]
  /\ UNCHANGED <<sent, got, down>>

Answered(w) == asked' = [asked EXCEPT ![w] = Nothing]

Send(w) ==
  /\ asked[w] # Nothing
  /\ ~down
  /\ \E f \in sent' :
       /\ sent' = sent \cup {f}
       /\ f.by = w /\ f.len = asked[w]
       /\ \A g \in sent : g.at < f.at
  /\ Answered(w)
  /\ UNCHANGED <<got, down>>

Refuse(w) ==
  /\ asked[w] # Nothing
  /\ down
  /\ Answered(w)
  /\ UNCHANGED <<sent, got, down>>

Deliver ==
  /\ \E f \in sent \ got :
       /\ got' = got \cup {f}
       /\ \A g \in got : g.at < f.at
       /\ \A g \in sent \ got' : f.at < g.at
  /\ UNCHANGED <<asked, sent, down>>

GoDown ==
  /\ down' = TRUE
  /\ UNCHANGED <<asked, sent, got>>

Next ==
  \/ \E w \in Writer : Ask(w) \/ Send(w) \/ Refuse(w)
  \/ Deliver
  \/ GoDown

Spec == Init /\ [][Next]_vars
=============================================================================
