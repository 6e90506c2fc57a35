----------------------------- MODULE WsConnProofs -----------------------------
(***************************************************************************)
(* Proofs about WsConn, for any pollers, any room in the kernel's buffer,  *)
(* any number of frames, any lengths and any limits of the length forms.   *)
(***************************************************************************)
EXTENDS WsConn, SequenceTheorems, TLAPS

(* The read loop is in writeFrame exactly at the places that call it.      *)
LoopWrites == out[Loop] # "idle" <=> loop \in {"answer", "pong", "error", "closing"}

(* A header without its payload is the last chunk, and its writer is still *)
(* at it, or nothing can be written any more.                              *)
OpenFrame ==
  /\ \A w \in Writer : out[w] = "payload" =>
       /\ stream # <<>>
       /\ stream[Len(stream)] = [by |-> w, part |-> "header", len |-> size[w]]
  /\ stream # <<>> /\ stream[Len(stream)].part = "header" =>
       /\ stream[Len(stream)].by \in Writer
       /\ Broken \/ out[stream[Len(stream)].by] = "payload"

(* FramesWhole and PeerFindsFrames, about any sequence of chunks.          *)
PayloadOf(c) == [by |-> c.by, part |-> "payload", len |-> c.len]
HeaderOf(c) == [by |-> c.by, part |-> "header", len |-> c.len]

Whole(q) ==
  \A i \in 1..Len(q) :
    /\ q[i].part = "bare" => q[i].len = 0
    /\ q[i].part = "header" /\ i < Len(q) => q[i + 1] = PayloadOf(q[i])
    /\ q[i].part = "payload" => i > 1 /\ q[i - 1] = HeaderOf(q[i])

IInv == TypeOK /\ LoopWrites /\ OpenFrame /\ Whole(stream)

(* What writeFrame announces, in whichever form, is what it writes.        *)
THEOREM HeadersAnnounce == \A n \in Length : Announced(Header(n)) = n
<1> SUFFICES ASSUME NEW n \in Length PROVE Announced(Header(n)) = n
  OBVIOUS
<1>1. /\ Short \in Nat /\ Wide \in Nat /\ Half \in Nat
      /\ Short + 1 < Wide /\ n \in Int /\ n >= 0
  BY FrameAssumption DEF Length
<1>2. CASE n <= Short
  BY <1>1, <1>2 DEF Announced, Header
<1>3. CASE n > Short /\ n <= Wide - 1
  <2>1. n % Wide = n
    BY <1>1, <1>3
  <2> QED
    BY <1>1, <1>3, <2>1 DEF Announced, Header
<1>4. CASE n > Wide - 1
  BY <1>1, <1>4 DEF Announced, Header
<1> QED
  BY <1>1, <1>2, <1>3, <1>4

(* What readFrame accepts has the length that its sender announced, within *)
(* MAX_MESSAGE_BYTES, although the eight bytes of the long form are read   *)
(* as a signed number; only there can it be negative.                      *)
THEOREM AcceptedFit ==
  /\ \A f \in Accepted : /\ PayloadLen(f) = Announced(f)
                        /\ PayloadLen(f) \in 0..MaxMessageBytes
  /\ \A f \in Panicking : f.code = Short + 2 /\ Announced(f) >= Half
<1>1. /\ Short \in Nat /\ Wide \in Nat /\ Half \in Nat
      /\ Wide <= Half /\ MaxMessageBytes \in Nat /\ MaxMessageBytes < Half
  BY FrameAssumption
<1>2. ASSUME NEW f \in ClientFrame
      PROVE  /\ f.code \in 0..(Short + 2) /\ f.ext \in 0..(2 * Half - 1)
             /\ f.code = Short + 1 => f.ext < Wide
  BY DEF ClientFrame, Code
<1>3. ASSUME NEW f \in Accepted
      PROVE  PayloadLen(f) = Announced(f) /\ PayloadLen(f) \in 0..MaxMessageBytes
  <2>1. f \in ClientFrame /\ Passes(f) /\ PayloadLen(f) >= 0
    BY DEF Accepted
  <2> QED
    BY <1>1, <1>2, <2>1 DEF Passes, PayloadLen, Announced, Signed
<1>4. ASSUME NEW f \in Panicking PROVE f.code = Short + 2 /\ Announced(f) >= Half
  <2>1. f \in ClientFrame /\ PayloadLen(f) < 0
    BY DEF Panicking
  <2> QED
    BY <1>1, <1>2, <2>1 DEF PayloadLen, Announced, Signed
<1> QED
  BY <1>3, <1>4

(* What a client can have the gateway write is a length like any other.    *)
LEMMA PingsFit == PingLengths \subseteq Length
<1>1. ASSUME NEW f \in Accepted PROVE PayloadLen(f) \in Length
  BY FrameAssumption, AcceptedFit DEF Length
<1> QED
  BY <1>1 DEF PingLengths

(* Appending keeps frames whole, if a payload comes after its own header   *)
(* and anything else only when no header waits for its payload.            *)
LEMMA AppendWhole ==
  ASSUME NEW old \in Seq(Chunk), NEW c \in Chunk, Whole(old),
         c.part = "bare" => c.len = 0,
         c.part = "payload" => old # <<>> /\ old[Len(old)] = HeaderOf(c),
         c.part # "payload" =>
           (old # <<>> => old[Len(old)].part # "header"),
         NEW new, new = Append(old, c)
  PROVE  /\ new \in Seq(Chunk) /\ Len(new) = Len(old) + 1
         /\ new # <<>> /\ new[Len(new)] = c
         /\ Whole(new)
<1> USE DEF Whole
<1> DEFINE n == Len(old)
<1>1. /\ n \in Nat /\ Len(new) = n + 1 /\ new \in Seq(Chunk)
      /\ \A i \in 1..n : new[i] = old[i]
      /\ new[n + 1] = c
  BY AppendProperties
<1>2. c.part \in {"header", "payload", "bare"} /\ c = [by |-> c.by, part |-> c.part, len |-> c.len]
  BY DEF Chunk
<1>3. old # <<>> <=> n > 0
  BY <1>1, EmptySeq
<1>4. new # <<>>
  BY <1>1, EmptySeq
<1>5. ASSUME NEW i \in 1..(n + 1), new[i].part = "header", i < n + 1
      PROVE  new[i + 1] = PayloadOf(new[i])
  <2>1. CASE i < n
    <3>1. i \in 1..n /\ i + 1 \in 1..n
      BY <1>1, <2>1
    <3>2. new[i] = old[i] /\ new[i + 1] = old[i + 1]
      BY <1>1, <3>1
    <3>3. old[i + 1] = PayloadOf(old[i])
      BY <1>5, <2>1, <3>1, <3>2
    <3> QED
      BY <3>2, <3>3
  <2>2. CASE i = n
    <3>1. old # <<>> /\ old[n].part = "header" /\ new[i] = old[n] /\ new[i + 1] = c
      BY <1>1, <1>3, <1>5, <2>2
    <3>2. c.part = "payload"
      BY <3>1
    <3>3. old[n] = HeaderOf(c)
      BY <3>2
    <3> QED
      BY <1>2, <3>1, <3>2, <3>3 DEF PayloadOf, HeaderOf
  <2> QED
    BY <1>1, <1>5, <2>1, <2>2
<1>6. ASSUME NEW i \in 1..(n + 1), new[i].part = "payload"
      PROVE  i > 1 /\ new[i - 1] = HeaderOf(new[i])
  <2>1. CASE i \in 1..n
    <3>1. new[i] = old[i]
      BY <1>1, <2>1
    <3>2. i > 1 /\ old[i - 1] = HeaderOf(old[i])
      BY <1>6, <2>1, <3>1
    <3>3. i - 1 \in 1..n
      BY <1>1, <2>1, <3>2
    <3>4. new[i - 1] = old[i - 1]
      BY <1>1, <3>3
    <3> QED
      BY <3>1, <3>2, <3>4
  <2>2. CASE i = n + 1
    <3>1. new[i] = c /\ old # <<>> /\ old[n] = HeaderOf(c)
      BY <1>1, <1>6, <2>2
    <3> QED
      BY <1>1, <1>3, <2>2, <3>1
  <2> QED
    BY <1>1, <1>6, <2>1, <2>2
<1>7. ASSUME NEW i \in 1..(n + 1), new[i].part = "bare" PROVE new[i].len = 0
  BY <1>1, <1>7
<1> QED
  BY <1>1, <1>4, <1>5, <1>6, <1>7

(* A chunk is written by whoever holds the mutex.                          *)
LEMMA Written ==
  ASSUME IInv, NEW w \in Writer, NEW part \in {"header", "payload", "bare"},
         part = "payload" => out[w] = "payload",
         part # "payload" => out[w] = "header",
         part = "bare" => size[w] = 0,
         CanWrite
  PROVE  LET c == [by |-> w, part |-> part, len |-> size[w]]
             new == Append(stream, c)
         IN  /\ new \in Seq(Chunk) /\ Len(new) = Len(stream) + 1
             /\ new # <<>> /\ new[Len(new)] = c
             /\ Whole(new)
<1> DEFINE c == [by |-> w, part |-> part, len |-> size[w]]
<1>1. /\ stream \in Seq(Chunk) /\ c \in Chunk
      /\ c.by = w /\ c.part = part /\ c.len = size[w]
  BY FrameAssumption DEF IInv, TypeOK, Chunk, Length
<1>2. Whole(stream)
  BY DEF IInv
<1>3. c.part = "payload" => stream # <<>> /\ stream[Len(stream)] = HeaderOf(c)
  BY <1>1 DEF IInv, OpenFrame, HeaderOf
<1>7. c.part = "bare" => c.len = 0
  BY <1>1
<1>4. ASSUME c.part # "payload", stream # <<>>, stream[Len(stream)].part = "header"
      PROVE  FALSE
  <2> DEFINE v == stream[Len(stream)].by
  <2>1. v \in Writer
    BY <1>4 DEF IInv, OpenFrame
  <2>2. out[v] = "payload"
    BY <1>4 DEF IInv, OpenFrame, CanWrite
  <2>3. mu = v /\ mu = w /\ out[w] = "header"
    BY <1>1, <1>4, <2>1, <2>2 DEF IInv, TypeOK
  <2> QED
    BY <2>2, <2>3
<1>5. c.part # "payload" => (stream # <<>> => stream[Len(stream)].part # "header")
  BY <1>4
<1> HIDE DEF c
<1>6. /\ Append(stream, c) \in Seq(Chunk)
      /\ Len(Append(stream, c)) = Len(stream) + 1
      /\ Append(stream, c) # <<>>
      /\ Append(stream, c)[Len(Append(stream, c))] = c
      /\ Whole(Append(stream, c))
  BY <1>1, <1>2, <1>3, <1>5, <1>7, AppendWhole
<1> QED
  BY <1>6 DEF c

(* Steps that write nothing.                                               *)
Quiet == stream' = stream /\ (Broken => Broken')

LEMMA QuietWhole == IInv /\ Quiet => Whole(stream)'
BY DEF IInv, Quiet, Whole

THEOREM InductiveInvariant == Spec => []IInv
<1>1. Init => IInv
  <2> SUFFICES ASSUME Init PROVE IInv
    OBVIOUS
  <2>1. stream = <<>> /\ stream \in Seq(Chunk) /\ Len(stream) = 0
    BY EmptySeq DEF Init
  <2>2. TypeOK
    <3>1. \A w \in Writer : mu # w /\ out[w] = "idle"
      BY ConnAssumption DEF Init, Writer
    <3>2. 0 \in 0..Len(stream) /\ 0 \in 0..MaxFrames /\ 0 \in Length
      BY <2>1, ConnAssumption, FrameAssumption DEF Length
    <3> QED
      BY <2>1, <3>1, <3>2 DEF Init, TypeOK
  <2>5. LoopWrites
    BY ConnAssumption DEF Init, LoopWrites, Writer
  <2>3. OpenFrame
    BY <2>1 DEF Init, OpenFrame
  <2>4. Whole(stream)
    BY <2>1 DEF Whole
  <2> QED
    BY <2>2, <2>5, <2>3, <2>4 DEF IInv
<1>2. IInv /\ [Next]_vars => IInv'
  <2> SUFFICES ASSUME IInv, [Next]_vars PROVE IInv'
    OBVIOUS
  <2>0. /\ TypeOK /\ LoopWrites /\ OpenFrame
        /\ Loop \in Writer /\ NoOne \notin Writer /\ Poller \subseteq Writer
        /\ Loop \notin Poller
        /\ Len(stream) \in Nat /\ MaxFrames \in Nat
        /\ 0 \in Length /\ JsonLength \subseteq Length
    BY ConnAssumption, FrameAssumption, LenProperties DEF IInv, Writer, TypeOK, Length
  <2>1. CASE PeerReads
    <3>1. Quiet /\ TypeOK' /\ LoopWrites' /\ OpenFrame'
      BY <2>0, <2>1 DEF PeerReads, TypeOK, LoopWrites, OpenFrame, Quiet, Broken
    <3> QED
      BY <3>1, QuietWhole DEF IInv
  <2>2. CASE PeerChanges
    <3>1. Quiet /\ TypeOK' /\ LoopWrites' /\ OpenFrame'
      BY <2>0, <2>2 DEF PeerChanges, TypeOK, LoopWrites, OpenFrame, Quiet, Broken
    <3> QED
      BY <3>1, QuietWhole DEF IInv
  <2>3. ASSUME NEW w \in Writer, Lock(w) PROVE IInv'
    <3>1. Quiet /\ TypeOK' /\ LoopWrites' /\ OpenFrame'
      BY <2>0, <2>3 DEF Lock, TypeOK, LoopWrites, OpenFrame, Quiet, Broken
    <3> QED
      BY <3>1, QuietWhole DEF IInv
  <2>4. ASSUME NEW w \in Writer, WriteHeader(w) PROVE IInv'
    <3> DEFINE c == [by |-> w, part |-> "header", len |-> size[w]]
    <3>1. /\ stream' \in Seq(Chunk) /\ Len(stream') = Len(stream) + 1
          /\ stream' # <<>> /\ stream'[Len(stream')] = c /\ Whole(stream')
      <4>1. out[w] = "header" /\ CanWrite /\ stream' = Append(stream, c)
        BY <2>0, <2>4, HeadersAnnounce DEF WriteHeader, TypeOK
      <4>2. /\ stream' \in Seq(Chunk) /\ Len(stream') = Len(stream) + 1
            /\ stream' # <<>> /\ stream'[Len(stream')] = c
            /\ Whole(stream')
        BY <4>1, Written
      <4> QED
        BY <4>2
    <3>2. TypeOK' /\ LoopWrites'
      BY <2>0, <2>4, <3>1 DEF WriteHeader, TypeOK, LoopWrites
    <3>3. OpenFrame'
      <4>1. \A v \in Writer : out'[v] = "payload" => v = w
        BY <2>0, <2>4 DEF WriteHeader, TypeOK
      <4> QED
        BY <2>0, <2>4, <3>1, <4>1 DEF WriteHeader, OpenFrame, TypeOK
    <3> QED
      BY <3>1, <3>2, <3>3 DEF IInv
  <2>5. ASSUME NEW w \in Writer, WriteBare(w) PROVE IInv'
    <3> DEFINE c == [by |-> w, part |-> "bare", len |-> size[w]]
    <3>1. /\ stream' \in Seq(Chunk) /\ Len(stream') = Len(stream) + 1
          /\ stream' # <<>> /\ stream'[Len(stream')] = c /\ Whole(stream')
      <4>1. /\ out[w] = "header" /\ CanWrite /\ size[w] = 0
            /\ stream' = Append(stream, c)
        BY <2>0, <2>5, HeadersAnnounce DEF WriteBare
      <4>2. /\ stream' \in Seq(Chunk) /\ Len(stream') = Len(stream) + 1
            /\ stream' # <<>> /\ stream'[Len(stream')] = c
            /\ Whole(stream')
        BY <4>1, Written
      <4> QED
        BY <4>2
    <3>2. TypeOK' /\ LoopWrites'
      BY <2>0, <2>5, <3>1 DEF WriteBare, Return, LoopAfter, TypeOK, LoopWrites
    <3>3. OpenFrame'
      <4>1. \A v \in Writer : out'[v] # "payload"
        BY <2>0, <2>5 DEF WriteBare, Return, TypeOK
      <4> QED
        BY <3>1, <4>1 DEF OpenFrame
    <3> QED
      BY <3>1, <3>2, <3>3 DEF IInv
  <2>6. ASSUME NEW w \in Writer, WritePayload(w) PROVE IInv'
    <3> DEFINE c == [by |-> w, part |-> "payload", len |-> size[w]]
    <3>1. /\ stream' \in Seq(Chunk) /\ Len(stream') = Len(stream) + 1
          /\ stream' # <<>> /\ stream'[Len(stream')] = c /\ Whole(stream')
      <4>1. out[w] = "payload" /\ CanWrite /\ stream' = Append(stream, c)
        BY <2>6 DEF WritePayload
      <4>2. /\ stream' \in Seq(Chunk) /\ Len(stream') = Len(stream) + 1
            /\ stream' # <<>> /\ stream'[Len(stream')] = c
            /\ Whole(stream')
        BY <4>1, Written
      <4> QED
        BY <4>2
    <3>2. TypeOK' /\ LoopWrites'
      BY <2>0, <2>6, <3>1 DEF WritePayload, Return, LoopAfter, TypeOK, LoopWrites
    <3>3. OpenFrame'
      <4>1. \A v \in Writer : out'[v] # "payload"
        BY <2>0, <2>6 DEF WritePayload, Return, TypeOK
      <4> QED
        BY <3>1, <4>1 DEF OpenFrame
    <3> QED
      BY <3>1, <3>2, <3>3 DEF IInv
  <2>7. ASSUME NEW w \in Writer, WriteFails(w) PROVE IInv'
    <3>1. Quiet /\ TypeOK' /\ LoopWrites' /\ Broken'
      BY <2>0, <2>7
         DEF WriteFails, Return, LoopAfter, TypeOK, LoopWrites, Quiet, Broken
    <3>2. OpenFrame'
      <4>1. \A v \in Writer : out'[v] # "payload"
        BY <2>0, <2>7 DEF WriteFails, Return, TypeOK
      <4> QED
        BY <2>0, <3>1, <4>1 DEF OpenFrame, Quiet
    <3> QED
      BY <3>1, <3>2, QuietWhole DEF IInv
  <2>8. ASSUME NEW p \in Poller, Push(p) PROVE IInv'
    <3>1. Quiet /\ TypeOK' /\ LoopWrites' /\ OpenFrame'
      BY <2>0, <2>8 DEF Push, Call, TypeOK, LoopWrites, OpenFrame, Quiet, Broken
    <3> QED
      BY <3>1, QuietWhole DEF IInv
  <2>9. CASE TextArrives \/ PingArrives \/ WriteError \/ Remove
    <3>1. /\ \E n \in Length : Call(Loop, n)
          /\ UNCHANGED <<peer, stream, mu, taken, due, closed>>
          /\ loop \in {"read", "fail", "leave"}
          /\ loop' \in {"answer", "pong", "error", "closing"}
      BY <2>0, <2>9, PingsFit
         DEF TextArrives, PingArrives, WriteError, Remove, Arrives, Reading
    <3>2. out[Loop] = "idle" /\ Quiet
      BY <2>0, <3>1 DEF LoopWrites, Quiet, Broken
    <3>3. frames' \in 0..MaxFrames /\ registered' \in BOOLEAN
      <4>1. CASE TextArrives \/ PingArrives
        BY <2>0, <4>1 DEF TextArrives, PingArrives, Arrives, TypeOK
      <4>2. CASE WriteError
        BY <2>0, <4>2 DEF WriteError, TypeOK
      <4>3. CASE Remove
        BY <2>0, <4>3 DEF Remove, TypeOK
      <4> QED
        BY <2>9, <4>1, <4>2, <4>3
    <3>4. TypeOK' /\ LoopWrites' /\ OpenFrame'
      BY <2>0, <3>1, <3>2, <3>3
         DEF Call, TypeOK, LoopWrites, OpenFrame, Quiet, Broken
    <3> QED
      BY <3>2, <3>4, QuietWhole DEF IInv
  <2>10. CASE \/ SetReadDeadline \/ DeadlinePasses \/ ReadFails \/ BadMessage
              \/ ReadEnds \/ Panics \/ PongArrives \/ Close
    <3>1. /\ UNCHANGED <<peer, stream, taken, mu, out, size, registered>>
          /\ due' \in BOOLEAN /\ closed' \in BOOLEAN /\ (closed => closed')
          /\ frames' \in 0..MaxFrames
          /\ \/ loop' = loop
             \/ /\ loop \in {"read", "again", "shut"}
                /\ loop' \in {"read", "fail", "leave", "done"}
      <4>1. CASE PongArrives
        BY <2>0, <4>1 DEF PongArrives, Arrives, TypeOK
      <4>2. CASE \/ SetReadDeadline \/ DeadlinePasses \/ ReadFails
                 \/ BadMessage \/ ReadEnds \/ Panics \/ Close
        BY <2>0, <4>2 DEF SetReadDeadline, DeadlinePasses, ReadFails, BadMessage,
           Reading, ReadEnds, Panics, Close, TypeOK
      <4> QED
        BY <2>10, <4>1, <4>2
    <3>2. Quiet /\ TypeOK' /\ LoopWrites' /\ OpenFrame'
      BY <2>0, <3>1 DEF TypeOK, LoopWrites, OpenFrame, Quiet, Broken
    <3> QED
      BY <3>2, QuietWhole DEF IInv
  <2>11. CASE UNCHANGED vars
    <3>1. Quiet /\ TypeOK' /\ LoopWrites' /\ OpenFrame'
      BY <2>0, <2>11 DEF vars, TypeOK, LoopWrites, OpenFrame, Quiet, Broken
    <3> QED
      BY <3>1, QuietWhole DEF IInv
  <2> QED
    BY <2>1, <2>2, <2>3, <2>4, <2>5, <2>6, <2>7, <2>8, <2>9, <2>10, <2>11
       DEF Next, LoopSteps, WriteSteps
<1> QED
  BY <1>1, <1>2, PTL DEF Spec

(* The mutex is its holder's, on every path of writeFrame.                 *)
THEOREM TypeCorrect == Spec => []TypeOK
<1>1. IInv => TypeOK
  BY DEF IInv
<1> QED
  BY <1>1, InductiveInvariant, PTL

(* What the peer reads is whole frames, however many goroutines write.     *)
THEOREM FramesAreWhole == Spec => []FramesWhole
<1>1. IInv => FramesWhole
  <2> SUFFICES ASSUME IInv, NEW i \in 1..Len(stream)
               PROVE  /\ stream[i].part = "header" /\ i < Len(stream)
                           => /\ stream[i + 1].part = "payload"
                              /\ stream[i + 1].by = stream[i].by
                      /\ stream[i].part = "payload"
                           => /\ i > 1 /\ stream[i - 1].part = "header"
                              /\ stream[i - 1].by = stream[i].by
    BY DEF FramesWhole
  <2>1. /\ stream[i].part = "header" /\ i < Len(stream)
             => stream[i + 1] = PayloadOf(stream[i])
        /\ stream[i].part = "payload"
             => i > 1 /\ stream[i - 1] = HeaderOf(stream[i])
    BY DEF IInv, Whole
  <2> QED
    BY <2>1 DEF PayloadOf, HeaderOf
<1> QED
  BY <1>1, InductiveInvariant, PTL

(* Every header announces what its payload has, in all three forms.        *)
THEOREM LengthsAgree == Spec => []PeerFindsFrames
<1>1. IInv => PeerFindsFrames
  <2> SUFFICES ASSUME IInv, NEW i \in 1..Len(stream)
               PROVE  /\ stream[i].part = "bare" => stream[i].len = 0
                      /\ stream[i].part = "header" /\ i < Len(stream)
                           => stream[i + 1].len = stream[i].len
    BY DEF PeerFindsFrames
  <2>1. /\ stream[i].part = "bare" => stream[i].len = 0
        /\ stream[i].part = "header" /\ i < Len(stream)
             => stream[i + 1] = PayloadOf(stream[i])
    BY DEF IInv, Whole
  <2> QED
    BY <2>1 DEF PayloadOf
<1> QED
  BY <1>1, InductiveInvariant, PTL

-----------------------------------------------------------------------------
(* The connection implements Outbox.                                       *)

(* One chunk more is one frame more if it completes one.                   *)
LEMMA NextFrame ==
  ASSUME NEW q, NEW n \in Nat
  PROVE  /\ Completes(q, n + 1) =>
              FramesTo(q, n + 1) = FramesTo(q, n) \cup {FrameAt(q, n + 1)}
         /\ ~Completes(q, n + 1) => FramesTo(q, n + 1) = FramesTo(q, n)
<1>1. \A i : i \in 1..(n + 1) <=> i \in 1..n \/ i = n + 1
  OBVIOUS
<1> QED
  BY <1>1 DEF FramesTo

(* Frames are numbered by their places.                                    *)
LEMMA FramesUpTo ==
  ASSUME NEW q, NEW n \in Nat
  PROVE  /\ \A f \in FramesTo(q, n) : f.at \in 1..n
         /\ \A m \in Nat : m <= n =>
              FramesTo(q, m) = {f \in FramesTo(q, n) : f.at <= m}
<1>1. \A m \in Nat : \A f \in FramesTo(q, m) :
        /\ f.at \in 1..m /\ Completes(q, f.at) /\ f = FrameAt(q, f.at)
  BY DEF FramesTo, FrameAt
<1>2. \A m \in Nat : \A i \in 1..m : Completes(q, i) => FrameAt(q, i) \in FramesTo(q, m)
  BY DEF FramesTo
<1>3. ASSUME NEW m \in Nat, m <= n
      PROVE  FramesTo(q, m) = {f \in FramesTo(q, n) : f.at <= m}
  <2>1. ASSUME NEW f \in FramesTo(q, m) PROVE f \in FramesTo(q, n) /\ f.at <= m
    <3>1. f.at \in 1..m /\ Completes(q, f.at) /\ f = FrameAt(q, f.at)
      BY <1>1
    <3>2. f.at \in 1..n
      BY <1>3, <3>1
    <3> QED
      BY <1>2, <3>1, <3>2
  <2>2. ASSUME NEW f \in FramesTo(q, n), f.at <= m PROVE f \in FramesTo(q, m)
    <3>1. f.at \in 1..n /\ Completes(q, f.at) /\ f = FrameAt(q, f.at)
      BY <1>1
    <3>2. f.at \in 1..m
      BY <1>3, <2>2, <3>1
    <3> QED
      BY <1>2, <3>1, <3>2
  <2> QED
    BY <2>1, <2>2
<1> QED
  BY <1>1, <1>3

(* What is appended changes no earlier frame.                              *)
LEMMA FramesStay ==
  ASSUME NEW old \in Seq(Chunk), NEW c \in Chunk, NEW new, new = Append(old, c),
         NEW n \in 0..Len(old)
  PROVE  FramesTo(new, n) = FramesTo(old, n)
<1>1. Len(old) \in Nat /\ \A i \in 1..Len(old) : new[i] = old[i]
  BY AppendProperties, LenProperties
<1>2. ASSUME NEW i \in 1..n
      PROVE  /\ Completes(new, i) <=> Completes(old, i)
             /\ FrameAt(new, i) = FrameAt(old, i)
  <2>1. i \in 1..Len(old) /\ (i > 1 => i - 1 \in 1..Len(old))
    BY <1>1
  <2>2. new[i] = old[i] /\ (i > 1 => new[i - 1] = old[i - 1])
    BY <1>1, <2>1
  <2> QED
    BY <2>2 DEF Completes, FrameAt
<1> QED
  BY <1>2 DEF FramesTo

(* A call of writeFrame asks for a frame; nothing else happens.            *)
LEMMA CallAsks ==
  ASSUME IInv, NEW w \in Writer, out[w] = "idle", NEW n \in Length, Call(w, n),
         UNCHANGED <<stream, taken, peer, closed>>
  PROVE  O!Ask(w)
<1>1. /\ out \in [Writer -> {"idle", "lock", "header", "payload"}]
      /\ size \in [Writer -> Length]
  BY DEF IInv, TypeOK
<1>2. /\ Asked(w) = -1 /\ Asked(w)' = n
      /\ \A v \in Writer \ {w} : Asked(v)' = Asked(v)
  BY <1>1 DEF Call, Asked
<1>3. [v \in Writer |-> Asked(v)]' = [[v \in Writer |-> Asked(v)] EXCEPT ![w] = n]
  BY <1>2
<1>4. UNCHANGED <<FramesTo(stream, Len(stream)), FramesTo(stream, taken), Broken>>
  BY DEF Broken
<1> QED
  BY <1>2, <1>3, <1>4 DEF O!Ask

(* writeFrame returns: whoever called it asks for nothing any more.        *)
LEMMA ReturnAnswers ==
  ASSUME IInv, NEW w \in Writer, out[w] \in {"header", "payload"},
         NEW ok \in BOOLEAN, Return(w, ok)
  PROVE  Asked(w) = size[w] /\ Asked(w) # -1 /\ O!Answered(w)
<1>1. /\ out \in [Writer -> {"idle", "lock", "header", "payload"}]
      /\ size \in [Writer -> Length] /\ -1 \notin Length
  BY DEF IInv, TypeOK, Length
<1>2. /\ Asked(w) = size[w] /\ Asked(w) # -1 /\ Asked(w)' = -1
      /\ \A v \in Writer \ {w} : Asked(v)' = Asked(v)
  BY <1>1 DEF Return, Asked
<1>3. [v \in Writer |-> Asked(v)]' = [[v \in Writer |-> Asked(v)] EXCEPT ![w] = -1]
  BY <1>2
<1> QED
  BY <1>2, <1>3 DEF O!Answered

(* The write that completes a frame sends it, and the places of the frames *)
(* before it are lower.                                                    *)
LEMMA CompletingSends ==
  ASSUME IInv, NEW w \in Writer, out[w] \in {"header", "payload"}, CanWrite,
         NEW c \in Chunk, c.by = w, c.len = size[w], stream' = Append(stream, c),
         Completes(stream', Len(stream) + 1),
         Return(w, TRUE), UNCHANGED <<peer, taken, closed>>
  PROVE  O!Send(w)
<1> DEFINE n == Len(stream)
           f == FrameAt(stream', n + 1)
<1>1. /\ stream \in Seq(Chunk) /\ n \in Nat /\ taken \in 0..n
      /\ Len(stream') = n + 1 /\ stream'[n + 1] = c
  BY AppendProperties, LenProperties DEF IInv, TypeOK
<1>2. /\ FramesTo(stream', n) = FramesTo(stream, n)
      /\ FramesTo(stream', taken) = FramesTo(stream, taken)
  <2>1. \A m \in 0..Len(stream) : FramesTo(stream', m) = FramesTo(stream, m)
    BY <1>1, FramesStay
  <2> QED
    BY <1>1, <2>1
<1>3. FramesTo(stream', n + 1) = FramesTo(stream, n) \cup {f}
  BY <1>1, <1>2, NextFrame
<1>4. f.at = n + 1 /\ f.by = w /\ f.len = size[w]
  BY <1>1 DEF FrameAt
<1>5. \A g \in FramesTo(stream, n) : g.at < f.at
  BY <1>1, <1>4, FramesUpTo
<1>6. Asked(w) = size[w] /\ Asked(w) # -1 /\ O!Answered(w)
  BY ReturnAnswers
<1>7. ~Broken /\ UNCHANGED Broken
  BY DEF CanWrite, Broken
<1>8. /\ FramesTo(stream', Len(stream')) = FramesTo(stream, n) \cup {f}
      /\ f \in FramesTo(stream', Len(stream'))
  BY <1>1, <1>3
<1>9. FramesTo(stream', taken') = FramesTo(stream, taken)
  BY <1>2
<1> HIDE DEF n, f
<1> QED
  BY <1>4, <1>5, <1>6, <1>7, <1>8, <1>9 DEF O!Send, n

(* The peer gets a frame with the chunk that completes it.                 *)
LEMMA ReadingDelivers ==
  ASSUME IInv, PeerReads
  PROVE  O!Deliver \/ UNCHANGED O!vars
<1> DEFINE n == Len(stream)
           m == taken + 1
           f == FrameAt(stream, m)
<1>1. /\ n \in Nat /\ taken \in 0..n /\ m \in 1..n /\ taken' = m
      /\ UNCHANGED <<peer, stream, out, size, closed>>
  BY LenProperties DEF IInv, TypeOK, PeerReads
<1>2. /\ UNCHANGED [v \in Writer |-> Asked(v)]
      /\ UNCHANGED FramesTo(stream, Len(stream))
      /\ UNCHANGED Broken
  BY <1>1 DEF Asked, Broken
<1>3. CASE ~Completes(stream, m)
  <2>1. FramesTo(stream', taken') = FramesTo(stream, taken)
    BY <1>1, <1>3, NextFrame
  <2> QED
    BY <1>2, <2>1 DEF O!vars
<1>4. CASE Completes(stream, m)
  <2>1. FramesTo(stream', taken') = FramesTo(stream, taken) \cup {f}
    BY <1>1, <1>4, NextFrame
  <2>2. f.at = m
    BY DEF FrameAt
  <2>3. /\ \A g \in FramesTo(stream, taken) : g.at < f.at
        /\ \A g \in FramesTo(stream, m) : g.at <= m
    BY <1>1, <2>2, FramesUpTo
  <2>4. \A g \in FramesTo(stream, n) : g.at \in Nat
    BY <1>1, FramesUpTo
  <2>5. FramesTo(stream, m) = {g \in FramesTo(stream, n) : g.at <= m}
    BY <1>1, FramesUpTo
  <2>6. FramesTo(stream, m) = FramesTo(stream, taken) \cup {f}
    BY <1>1, <2>1
  <2>7. f \in FramesTo(stream, n) /\ f \notin FramesTo(stream, taken)
    <3>1. f \in FramesTo(stream, n)
      BY <2>5, <2>6
    <3>2. f \notin FramesTo(stream, taken)
      BY <1>1, <2>2, <2>3
    <3> QED
      BY <3>1, <3>2
  <2>8. \A g \in FramesTo(stream, n) \ FramesTo(stream', taken') : f.at < g.at
    BY <1>1, <2>2, <2>4, <2>5
  <2> HIDE DEF f, m
  <2>9. /\ f \in FramesTo(stream, Len(stream)) \ FramesTo(stream, taken)
        /\ FramesTo(stream', taken') = FramesTo(stream, taken) \cup {f}
        /\ \A g \in FramesTo(stream, taken) : g.at < f.at
        /\ \A g \in FramesTo(stream, Len(stream)) \ FramesTo(stream', taken') :
              f.at < g.at
    BY <2>1, <2>3, <2>7, <2>8
  <2> QED
    BY <1>2, <2>9 DEF O!Deliver
<1> QED
  BY <1>3, <1>4

(* Steps that neither call writeFrame nor return from it, and write no     *)
(* chunk that completes a frame, stutter or take the connection down.      *)
LEMMA QuietStutters ==
  ASSUME UNCHANGED <<[v \in Writer |-> Asked(v)], stream, taken>>,
         Broken => Broken'
  PROVE  O!GoDown \/ UNCHANGED O!vars
BY DEF O!GoDown, O!vars, Broken

(* For who writes to it, a connection sends frames whole, one at a time    *)
(* and in order, and refuses them only when it is down (writeFrame and     *)
(* Close, with a mutex, two writes for a frame and a buffer of any size).  *)
THEOREM ConnImplementsOutbox == Spec => ImplementsOutbox
<1>1. Init => O!Init
  <2> SUFFICES ASSUME Init PROVE O!Init
    OBVIOUS
  <2>1. stream = <<>> /\ Len(stream) = 0 /\ taken = 0
    BY DEF Init
  <2>2. FramesTo(stream, 0) = {}
    BY DEF FramesTo
  <2>3. [v \in Writer |-> Asked(v)] = [v \in Writer |-> -1]
    BY DEF Init, Asked
  <2>4. ~Broken
    BY DEF Init, Broken
  <2> QED
    BY <2>1, <2>2, <2>3, <2>4 DEF O!Init
<1>2. IInv /\ [Next]_vars => [O!Next]_O!vars
  <2> SUFFICES ASSUME IInv, [Next]_vars PROVE O!Next \/ UNCHANGED O!vars
    OBVIOUS
  <2>0. /\ TypeOK /\ LoopWrites /\ OpenFrame
        /\ Loop \in Writer /\ Poller \subseteq Writer
        /\ 0 \in Length /\ JsonLength \subseteq Length
        /\ out \in [Writer -> {"idle", "lock", "header", "payload"}]
        /\ size \in [Writer -> Length]
    BY ConnAssumption, FrameAssumption DEF IInv, Writer, TypeOK, Length
  <2>1. CASE PeerReads
    BY <2>1, ReadingDelivers DEF O!Next
  <2>2. ASSUME NEW w \in Writer, Lock(w) PROVE O!Next \/ UNCHANGED O!vars
    <3>1. UNCHANGED <<stream, taken, peer, closed>>
      BY <2>2 DEF Lock
    <3>2. \A v \in Writer : Asked(v)' = Asked(v)
      BY <2>0, <2>2 DEF Lock, Asked
    <3> QED
      BY <3>1, <3>2, QuietStutters DEF Broken, O!Next
  <2>3. ASSUME NEW w \in Writer, WriteHeader(w) PROVE UNCHANGED O!vars
    <3> DEFINE c == [by |-> w, part |-> "header", len |-> size[w]]
               n == Len(stream)
    <3>1. /\ stream \in Seq(Chunk) /\ n \in Nat /\ taken \in 0..n
          /\ c \in Chunk /\ stream' = Append(stream, c)
          /\ Len(stream') = n + 1 /\ stream'[n + 1].part = "header"
      <4>1. c \in Chunk /\ stream' = Append(stream, c)
        BY <2>0, <2>3, HeadersAnnounce DEF WriteHeader, Chunk, Length
      <4>2. stream \in Seq(Chunk) /\ n \in Nat /\ taken \in 0..n
        BY <2>0, LenProperties DEF TypeOK
      <4> QED
        BY <4>1, <4>2, AppendProperties
    <3>2. ~Completes(stream', n + 1)
      BY <3>1 DEF Completes
    <3>3. \A m \in 0..Len(stream) : FramesTo(stream', m) = FramesTo(stream, m)
      BY <3>1, FramesStay
    <3>4. FramesTo(stream', n + 1) = FramesTo(stream', n)
      BY <3>1, <3>2, NextFrame
    <3>5. /\ FramesTo(stream', Len(stream')) = FramesTo(stream, Len(stream))
          /\ FramesTo(stream', taken') = FramesTo(stream, taken)
      BY <2>3, <3>1, <3>3, <3>4 DEF WriteHeader
    <3>6. \A v \in Writer : Asked(v)' = Asked(v)
      BY <2>0, <2>3 DEF WriteHeader, Asked
    <3>7. UNCHANGED Broken
      BY <2>3 DEF WriteHeader, Broken
    <3> QED
      BY <3>5, <3>6, <3>7 DEF O!vars
  <2>4. ASSUME NEW w \in Writer, WriteBare(w) PROVE O!Send(w)
    <3> DEFINE c == [by |-> w, part |-> "bare", len |-> size[w]]
    <3>1. /\ c \in Chunk /\ stream' = Append(stream, c) /\ c.len = 0
          /\ c.by = w /\ c.len = size[w] /\ c.part = "bare"
          /\ out[w] = "header" /\ CanWrite
          /\ Return(w, TRUE) /\ UNCHANGED <<peer, taken, closed>>
      <4>1. c \in Chunk
        BY <2>0, FrameAssumption DEF Chunk, Length
      <4>2. size[w] = 0 /\ Announced(Header(0)) = size[w]
        BY <2>0, <2>4, HeadersAnnounce DEF WriteBare
      <4> QED
        BY <2>4, <4>1, <4>2 DEF WriteBare
    <3> HIDE DEF c
    <3>2. Completes(stream', Len(stream) + 1)
      <4>1. stream'[Len(stream) + 1] = c
        BY <2>0, <3>1, AppendProperties DEF TypeOK
      <4> QED
        BY <3>1, <4>1 DEF Completes
    <3> QED
      BY <3>1, <3>2, CompletingSends
  <2>5. ASSUME NEW w \in Writer, WritePayload(w) PROVE O!Send(w)
    <3> DEFINE c == [by |-> w, part |-> "payload", len |-> size[w]]
               n == Len(stream)
    <3>1. /\ c \in Chunk /\ stream' = Append(stream, c)
          /\ c.by = w /\ c.len = size[w] /\ c.part = "payload"
          /\ out[w] = "payload" /\ CanWrite
          /\ Return(w, TRUE) /\ UNCHANGED <<peer, taken, closed>>
      <4>1. c \in Chunk
        BY <2>0, FrameAssumption DEF Chunk, Length
      <4> QED
        BY <2>5, <4>1 DEF WritePayload
    <3>2. /\ stream # <<>>
          /\ stream[n] = [by |-> c.by, part |-> "header", len |-> c.len]
      BY <2>0, <3>1 DEF OpenFrame
    <3> HIDE DEF c
    <3>3. Completes(stream', n + 1)
      <4>1. stream \in Seq(Chunk) /\ n \in Nat /\ n > 0
        BY <2>0, <3>2, EmptySeq, LenProperties DEF TypeOK
      <4>2. stream'[n + 1] = c /\ stream'[n] = stream[n]
        BY <3>1, <4>1, AppendProperties
      <4>3. n + 1 > 1 /\ (n + 1) - 1 = n
        BY <4>1
      <4> QED
        BY <3>1, <3>2, <4>2, <4>3 DEF Completes
    <3> QED
      BY <3>1, <3>3, CompletingSends
  <2>6. ASSUME NEW w \in Writer, WriteFails(w) PROVE O!Refuse(w)
    <3>1. /\ out[w] \in {"header", "payload"} /\ Broken /\ Return(w, FALSE)
          /\ UNCHANGED <<stream, taken, peer, closed>>
      BY <2>6 DEF WriteFails
    <3>2. Asked(w) # -1 /\ O!Answered(w)
      BY <3>1, ReturnAnswers
    <3> QED
      BY <3>1, <3>2 DEF O!Refuse, Broken
  <2>7. ASSUME NEW p \in Poller, Push(p) PROVE O!Ask(p)
    <3>1. /\ p \in Writer /\ out[p] = "idle" /\ \E n \in Length : Call(p, n)
          /\ UNCHANGED <<stream, taken, peer, closed>>
      BY <2>0, <2>7 DEF Push
    <3> QED
      BY <3>1, CallAsks
  <2>8. CASE TextArrives \/ PingArrives \/ WriteError \/ Remove
    <3>1. /\ \E n \in Length : Call(Loop, n)
          /\ UNCHANGED <<stream, taken, peer, closed>>
          /\ loop \in {"read", "fail", "leave"}
      BY <2>0, <2>8, PingsFit
         DEF TextArrives, PingArrives, WriteError, Remove, Arrives, Reading
    <3>2. out[Loop] = "idle"
      BY <2>0, <3>1 DEF LoopWrites
    <3> QED
      BY <2>0, <3>1, <3>2, CallAsks DEF O!Next
  <2>9. CASE \/ PeerChanges \/ SetReadDeadline \/ DeadlinePasses \/ ReadFails
             \/ BadMessage \/ ReadEnds \/ Panics \/ PongArrives \/ Close
             \/ UNCHANGED vars
    <3>1. UNCHANGED <<stream, taken, out, size>> /\ (Broken => Broken')
      BY <2>9 DEF PeerChanges, SetReadDeadline, DeadlinePasses, ReadFails, BadMessage,
         ReadEnds, Panics, PongArrives, Close, vars, Broken
    <3>2. UNCHANGED [v \in Writer |-> Asked(v)]
      BY <3>1 DEF Asked
    <3> QED
      BY <3>1, <3>2, QuietStutters DEF O!Next
  <2> QED
    BY <2>0, <2>1, <2>2, <2>3, <2>4, <2>5, <2>6, <2>7, <2>8, <2>9
       DEF Next, LoopSteps, WriteSteps, O!Next
<1> QED
  BY <1>1, <1>2, InductiveInvariant, PTL DEF Spec, O!Spec, ImplementsOutbox

=============================================================================
