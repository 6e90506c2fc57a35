-------------------------------- MODULE Frames --------------------------------
(***************************************************************************)
(* The three forms in which a WebSocket frame gives the length of its      *)
(* payload, as writeFrame makes them and readFrame takes them              *)
(* (internal/gateway/websocket.go).  Payloads are lengths.                 *)
(***************************************************************************)
EXTENDS Integers

CONSTANTS
  Short,          (* 125: the longest length the second byte holds itself  *)
  Wide,           (* 2^16: the first that two bytes do not hold            *)
  Half,           (* 2^63: the first length that is negative as an int64   *)
  MaxMessageBytes (* MAX_MESSAGE_BYTES, which getenvInt makes positive     *)

ASSUME FrameAssumption ==
  /\ Short \in Nat /\ Wide \in Nat /\ Half \in Nat
  /\ Short + 1 < Wide /\ Wide <= Half
  /\ MaxMessageBytes \in 1..(Half - 1)

(* A length of writeFrame, an int, and one of the second byte's codes.     *)
Length == 0..(Half - 1)
Code == 0..(Short + 2)

(* Mutated form: the first comparison is <= 126.                           *)
HeaderOffByOne(n) ==
  CASE n <= Short + 1                 -> [code |-> n, ext |-> 0]
    [] n > Short + 1 /\ n <= Wide - 1 -> [code |-> Short + 1, ext |-> n % Wide]
    [] OTHER                          -> [code |-> Short + 2, ext |-> n]

(* writeFrame's header: the second byte, and the bytes after it.           *)
Header(n) ==
  CASE n <= Short                 -> [code |-> n, ext |-> 0]
    [] n > Short /\ n <= Wide - 1 -> [code |-> Short + 1, ext |-> n % Wide]
    [] OTHER                      -> [code |-> Short + 2, ext |-> n]

(* What a peer that follows RFC 6455 takes a header to announce.           *)
Announced(h) == IF h.code <= Short THEN h.code ELSE h.ext

-----------------------------------------------------------------------------
(* readFrame *)

Opcode == {"text", "close", "ping", "pong", "other"}

ClientFrame ==
  {f \in [fin : BOOLEAN, masked : BOOLEAN, opcode : Opcode,
          code : Code, ext : 0..(2 * Half - 1)] :
     /\ f.code <= Short => f.ext = 0
     /\ f.code = Short + 1 => f.ext < Wide}

(* int64(binary.BigEndian.Uint64(...)).                                    *)
Signed(n) == IF n < Half THEN n ELSE n - 2 * Half

PayloadLen(f) == IF f.code <= Short THEN f.code ELSE Signed(f.ext)

(* Fragments, unmasked frames and long ones are errors.                    *)
Passes(f) == f.fin /\ f.masked /\ PayloadLen(f) <= MaxMessageBytes

(* The slice of the payload cannot be made: the handler panics.            *)
Panicking == {f \in ClientFrame : Passes(f) /\ PayloadLen(f) < 0}

Accepted == {f \in ClientFrame : Passes(f) /\ PayloadLen(f) >= 0}

Refused == {f \in ClientFrame : ~Passes(f)}

(* The cases of ReadJSON; one for close frames would be the stream's end.   *)
Texts == {f \in Accepted : f.opcode = "text"}
Pongs == {f \in Accepted : f.opcode = "pong"}
Unsupported == {f \in Accepted : f.opcode = "other"}

(* The payloads of pings, each of which is the payload of a pong.          *)
PingLengths == {PayloadLen(f) : f \in {g \in Accepted : g.opcode = "ping"}}
=============================================================================
