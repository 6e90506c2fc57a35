-------------------------------- MODULE WsConn --------------------------------
(***************************************************************************)
(* One WebSocket connection (internal/gateway/websocket.go) and the        *)
(* goroutines that share it: the read loop of handleWebSocket, which reads *)
(* under an idle deadline, answers and finally closes, and pollers that    *)
(* push.  writeFrame holds the connection's mutex over two writes, header  *)
(* and payload, each of which waits until the kernel's buffer has room;    *)
(* there is no write deadline.  Frames has the lengths.                    *)
(***************************************************************************)
EXTENDS Frames, Sequences

CONSTANTS
  Poller,    (* the pollMatch goroutines of the session                    *)
  Loop,      (* the goroutine of handleWebSocket                           *)
  NoOne,     (* nobody holds the mutex                                     *)
  Room,      (* how many chunks the kernel keeps for a peer                *)
  JsonLength,(* bound: the lengths of JSON messages                        *)
  MaxFrames  (* bound: pushes and client messages in a run                 *)

ASSUME ConnAssumption ==
  /\ Loop \notin Poller
  /\ NoOne \notin Poller \cup {Loop}
  /\ Room \in Nat \ {0}
  /\ JsonLength \subseteq Length \ {0}
  /\ MaxFrames \in Nat

VARIABLES
  peer,       (* "reads", "stalls" (connected, never reads again), "gone"  *)
  stream,     (* the chunks written so far, in order                       *)
  taken,      (* how many of them the peer has read                        *)
  mu,         (* wsConn.mu: who holds it                                   *)
  out,        (* [Writer -> where its writeFrame is]                       *)
  size,       (* [Writer -> the length of its payload, 0 out of writeFrame]*)
  loop,       (* where handleWebSocket is                                  *)
  due,        (* the read deadline has passed                              *)
  registered, (* the session is in the manager and in the gauge            *)
  closed,     (* net.Conn is closed                                        *)
  frames      (* pushes and client messages so far                         *)

vars == <<peer, stream, taken, mu, out, size, loop, due, registered, closed, frames>>

Writer == Poller \cup {Loop}

(* "bare" is the header of a frame without payload.  len is the length a   *)
(* header announces, or that a payload has.                                *)
Chunk == [by : Writer, part : {"header", "payload", "bare"}, len : Nat]

Init ==
  /\ peer = "reads"
  /\ stream = <<>>
  /\ taken = 0
  /\ mu = NoOne
  /\ out = [w \in Writer |-> "idle"]
  /\ size = [w \in Writer |-> 0]
  /\ loop = "read"
  /\ due = FALSE
  /\ registered = TRUE
  /\ closed = FALSE
  /\ frames = 0

-----------------------------------------------------------------------------
(* The peer *)

PeerReads ==
  /\ peer = "reads" /\ taken < Len(stream)
  /\ taken' = taken + 1
  /\ UNCHANGED <<peer, stream, mu, out, size, loop, due, registered, closed, frames>>

PeerChanges ==
  /\ \/ peer = "reads" /\ peer' \in {"stalls", "gone"}
     \/ peer = "stalls" /\ peer' = "gone"
  /\ UNCHANGED <<stream, taken, mu, out, size, loop, due, registered, closed, frames>>

-----------------------------------------------------------------------------
(* writeFrame *)

(* Where the read loop is after a frame of its own, written or failed.  A  *)
(* handler whose answer fails goes back to reading; ReadJSON passes on the *)
(* error of a pong; writeError and Close ignore theirs.                    *)
LoopAfter(ok) ==
  CASE loop = "answer" -> "again"
    [] loop = "pong" /\ ok -> "read"
    [] loop = "pong" /\ ~ok -> "fail"
    [] loop = "error" -> "leave"
    [] loop = "closing" -> "shut"

Call(w, n) ==
  /\ out' = [out EXCEPT ![w] = "lock"]
  /\ size' = [size EXCEPT ![w] = n]

Return(w, ok) ==
  /\ out' = [out EXCEPT ![w] = "idle"]
  /\ size' = [size EXCEPT ![w] = 0]
  /\ mu' = NoOne
  /\ loop' = IF w = Loop THEN LoopAfter(ok) ELSE loop

(* Mutated form: nobody waits for the mutex.                               *)
LockShared(w) ==
  /\ out[w] = "lock"
  /\ mu' = w
  /\ out' = [out EXCEPT ![w] = "header"]
  /\ UNCHANGED <<peer, stream, taken, size, loop, due, registered, closed, frames>>

Lock(w) ==
  /\ out[w] = "lock"
  /\ mu = NoOne
  /\ mu' = w
  /\ out' = [out EXCEPT ![w] = "header"]
  /\ UNCHANGED <<peer, stream, taken, size, loop, due, registered, closed, frames>>

Broken == closed \/ peer = "gone"

CanWrite == ~Broken /\ Len(stream) - taken < Room

WriteHeader(w) ==
  /\ out[w] = "header" /\ size[w] # 0
  /\ CanWrite
  /\ stream' = Append(stream, [by |-> w, part |-> "header",
                               len |-> Announced(Header(size[w]))])
  /\ out' = [out EXCEPT ![w] = "payload"]
  /\ UNCHANGED <<peer, taken, mu, size, loop, due, registered, closed, frames>>

(* A frame without payload: that of Close, and the pong of an empty ping.  *)
WriteBare(w) ==
  /\ out[w] = "header" /\ size[w] = 0
  /\ CanWrite
  /\ stream' = Append(stream, [by |-> w, part |-> "bare",
                               len |-> Announced(Header(0))])
  /\ Return(w, TRUE)
  /\ UNCHANGED <<peer, taken, due, registered, closed, frames>>

WritePayload(w) ==
  /\ out[w] = "payload"
  /\ CanWrite
  /\ stream' = Append(stream, [by |-> w, part |-> "payload", len |-> size[w]])
  /\ Return(w, TRUE)
  /\ UNCHANGED <<peer, taken, due, registered, closed, frames>>

(* Mutated form: the mutex is not released when a write fails.             *)
WriteFailsLocked(w) ==
  /\ out[w] \in {"header", "payload"}
  /\ Broken
  /\ out' = [out EXCEPT ![w] = "idle"]
  /\ size' = [size EXCEPT ![w] = 0]
  /\ loop' = IF w = Loop THEN LoopAfter(FALSE) ELSE loop
  /\ UNCHANGED <<peer, stream, taken, mu, due, registered, closed, frames>>

(* Mutated form: a write gives up when there is no room, and its caller    *)
(* goes on with the connection.                                            *)
WriteGivesUp(w) ==
  /\ out[w] \in {"header", "payload"}
  /\ Broken \/ Len(stream) - taken >= Room
  /\ Return(w, FALSE)
  /\ UNCHANGED <<peer, stream, taken, due, registered, closed, frames>>

WriteFails(w) ==
  /\ out[w] \in {"header", "payload"}
  /\ Broken
  /\ Return(w, FALSE)
  /\ UNCHANGED <<peer, stream, taken, due, registered, closed, frames>>

(* pollMatch pushes, whatever has become of the connection meanwhile.      *)
Push(p) ==
  /\ out[p] = "idle"
  /\ frames < MaxFrames
  /\ frames' = frames + 1
  /\ \E n \in JsonLength : Call(p, n)
  /\ UNCHANGED <<peer, stream, taken, mu, loop, due, registered, closed>>

-----------------------------------------------------------------------------
(* handleWebSocket and ReadJSON *)

Reading == loop = "read" /\ peer # "gone" /\ ~due

Arrives == Reading /\ frames < MaxFrames

(* A text frame: handled and answered (one frame stands for them all).     *)
TextArrives ==
  /\ Arrives /\ Texts # {}
  /\ frames' = frames + 1
  /\ loop' = "answer"
  /\ \E n \in JsonLength : Call(Loop, n)
  /\ UNCHANGED <<peer, stream, taken, mu, due, registered, closed>>

(* A ping frame is answered inside ReadJSON, under the same deadline.      *)
PingArrives ==
  /\ Arrives
  /\ frames' = frames + 1
  /\ loop' = "pong"
  /\ \E n \in PingLengths : Call(Loop, n)
  /\ UNCHANGED <<peer, stream, taken, mu, due, registered, closed>>

(* A pong frame is passed over, under the same deadline.                   *)
PongArrives ==
  /\ Arrives /\ Pongs # {}
  /\ frames' = frames + 1
  /\ UNCHANGED <<peer, stream, taken, mu, out, size, loop, due, registered, closed>>

(* The loop comes round and sets a new deadline.                           *)
SetReadDeadline ==
  /\ loop = "again"
  /\ loop' = "read"
  /\ due' = FALSE
  /\ UNCHANGED <<peer, stream, taken, mu, out, size, registered, closed, frames>>

(* IdleTimeout after it was set; handlers run under the old deadline.      *)
DeadlinePasses ==
  /\ loop \in {"read", "pong", "answer"}
  /\ ~due
  /\ due' = TRUE
  /\ UNCHANGED <<peer, stream, taken, mu, out, size, loop, registered, closed, frames>>

(* Mutated form: continue for return when the deadline passes.             *)
ReadFailsRetried ==
  /\ loop = "read"
  /\ due \/ peer = "gone"
  /\ loop' = IF due THEN "again" ELSE "fail"
  /\ UNCHANGED <<peer, stream, taken, mu, out, size, due, registered, closed, frames>>

(* ReadJSON fails: timeout or reset.                                       *)
ReadFails ==
  /\ loop = "read"
  /\ due \/ peer = "gone"
  /\ loop' = "fail"
  /\ UNCHANGED <<peer, stream, taken, mu, out, size, due, registered, closed, frames>>

(* ReadJSON fails: a frame that is not accepted, an opcode it does not     *)
(* know, a text that is not JSON, a stream that ends inside a part.        *)
BadMessage ==
  /\ Reading
  /\ Refused \cup Unsupported \cup Texts # {}
  /\ loop' = "fail"
  /\ UNCHANGED <<peer, stream, taken, mu, out, size, due, registered, closed, frames>>

WriteError ==
  /\ loop = "fail"
  /\ loop' = "error"
  /\ \E n \in JsonLength : Call(Loop, n)
  /\ UNCHANGED <<peer, stream, taken, mu, due, registered, closed, frames>>

(* A close frame, or a stream that ends before a frame or between two of   *)
(* its parts: io.EOF, no error is written.                                 *)
ReadEnds ==
  /\ loop = "read" /\ ~due
  /\ loop' = "leave"
  /\ UNCHANGED <<peer, stream, taken, mu, out, size, due, registered, closed, frames>>

(* The panic runs what handleWebSocket deferred, and net/http recovers.    *)
Panics ==
  /\ Reading /\ Panicking # {}
  /\ loop' = "leave"
  /\ UNCHANGED <<peer, stream, taken, mu, out, size, due, registered, closed, frames>>

(* The deferred Remove and CloseSession, and then Close.                   *)
Remove ==
  /\ loop = "leave"
  /\ registered' = FALSE
  /\ loop' = "closing"
  /\ Call(Loop, 0)
  /\ UNCHANGED <<peer, stream, taken, mu, due, closed, frames>>

(* Close goes on to net.Conn.Close after its close frame.                  *)
Close ==
  /\ loop = "shut"
  /\ closed' = TRUE
  /\ loop' = "done"
  /\ UNCHANGED <<peer, stream, taken, mu, out, size, due, registered, frames>>

LoopSteps ==
  \/ SetReadDeadline \/ ReadFails \/ WriteError \/ Remove \/ Close

WriteSteps(w) ==
  WriteHeader(w) \/ WriteBare(w) \/ WritePayload(w) \/ WriteFails(w)

Next ==
  \/ PeerReads \/ PeerChanges
  \/ TextArrives \/ PingArrives \/ PongArrives
  \/ BadMessage \/ ReadEnds \/ Panics \/ DeadlinePasses
  \/ LoopSteps
  \/ \E w \in Writer : Lock(w) \/ WriteSteps(w)
  \/ \E p \in Poller : Push(p)

Spec == Init /\ [][Next]_vars

(* A sync.Mutex does not starve who waits for it, time passes, goroutines  *)
(* that can run do, and a peer that "reads" reads on.                      *)
Fairness ==
  /\ WF_vars(PeerReads)
  /\ WF_vars(DeadlinePasses)
  /\ WF_vars(LoopSteps)
  /\ \A w \in Writer : SF_vars(Lock(w)) /\ WF_vars(WriteSteps(w))

FairSpec == Spec /\ Fairness

-----------------------------------------------------------------------------
(* Properties *)

(* Types, and whose the mutex is: that of the writer between its lock and  *)
(* its return, on the error paths too.                                     *)
TypeOK ==
  /\ peer \in {"reads", "stalls", "gone"}
  /\ stream \in Seq(Chunk)
  /\ taken \in 0..Len(stream)
  /\ mu \in Writer \cup {NoOne}
  /\ out \in [Writer -> {"idle", "lock", "header", "payload"}]
  /\ size \in [Writer -> Length]
  /\ loop \in {"read", "answer", "again", "pong", "fail", "error", "leave",
               "closing", "shut", "done"}
  /\ due \in BOOLEAN /\ registered \in BOOLEAN /\ closed \in BOOLEAN
  /\ frames \in 0..MaxFrames
  /\ \A w \in Writer : mu = w <=> out[w] \in {"header", "payload"}

(* What the peer reads is whole frames of one writer after another: each   *)
(* header is followed by its own payload and by nothing else, although     *)
(* reader and pollers write at will and each frame takes two writes, any   *)
(* of which may fail.  Only the last header may be without its payload.    *)
FramesWhole ==
  \A i \in 1..Len(stream) :
    /\ stream[i].part = "header" /\ i < Len(stream)
         => stream[i + 1].part = "payload" /\ stream[i + 1].by = stream[i].by
    /\ stream[i].part = "payload"
         => i > 1 /\ stream[i - 1].part = "header" /\ stream[i - 1].by = stream[i].by

(* A peer that counts bytes finds the next frame: a header announces as    *)
(* much as the payload after it has, in each of its three forms and with   *)
(* several writers, and the header of a frame without payload announces    *)
(* none.                                                                   *)
PeerFindsFrames ==
  \A i \in 1..Len(stream) :
    /\ stream[i].part = "bare" => stream[i].len = 0
    /\ stream[i].part = "header" /\ i < Len(stream)
         => stream[i + 1].len = stream[i].len

(* The chunk that completes a frame, for a peer that takes a header and as *)
(* much as it announces.                                                   *)
Completes(q, i) ==
  \/ q[i].part = "bare" /\ q[i].len = 0
  \/ /\ i > 1 /\ q[i].part = "payload"
     /\ q[i - 1] = [by |-> q[i].by, part |-> "header", len |-> q[i].len]

FrameAt(q, i) == [at |-> i, by |-> q[i].by, len |-> q[i].len]

(* The frames in the first n chunks of q.                                  *)
FramesTo(q, n) == {FrameAt(q, i) : i \in {j \in 1..n : Completes(q, j)}}

(* The length that w has been called to write, -1 if it is not called.     *)
Asked(w) == IF out[w] = "idle" THEN -1 ELSE size[w]

(* WsConn implements the abstract Outbox: for who writes, a frame goes out *)
(* whole in one step, although it takes two writes that may wait and fail; *)
(* a write that returns an error means a connection that is down, on which *)
(* no frame follows the torn one; the peer gets the frames in that order.  *)
O == INSTANCE Outbox WITH
       Size <- Length,
       Nothing <- -1,
       asked <- [w \in Writer |-> Asked(w)],
       sent <- FramesTo(stream, Len(stream)),
       got <- FramesTo(stream, taken),
       down <- Broken

ImplementsOutbox == O!Spec

(* IDLE_TIMEOUT_MS: a connection that has sent nothing in time ends, out   *)
(* of the registry and closed, unless its peer neither reads nor goes.     *)
(* WebSocket pings do not keep it.                                         *)
IdleEnds ==
  due /\ loop = "read" ~> (closed /\ ~registered) \/ peer = "stalls"

(* Nobody waits for the mutex or for room in the buffer for ever, unless   *)
(* the peer neither reads nor goes.                                        *)
WritersReturn ==
  \A w \in Writer : out[w] # "idle" ~> out[w] = "idle" \/ peer = "stalls"

(* README.md: ArenaGate controls whether a player's connection is still    *)
(* alive.  Without a write deadline a peer that stops reading keeps its    *)
(* session for ever: the error of the timeout, or a push that holds the    *)
(* mutex, waits for room.                                                  *)
IdleAlwaysEnds == due /\ loop = "read" ~> closed /\ ~registered
=============================================================================
