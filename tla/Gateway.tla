------------------------------- MODULE Gateway -------------------------------
(***************************************************************************)
(* The gateway process: the HTTP server of cmd/gateway/main.go from its    *)
(* start to its end, the upgrades that become sessions of SessionManager,  *)
(* and the counters of metrics.go as the goroutines of the sessions move   *)
(* them while /metrics loads one after the other.                          *)
(*                                                                         *)
(* Each goroutine has a list of what it still does for the message or poll *)
(* at hand: names of counters it adds to, "found", "error" and "other" for *)
(* answers it writes, "bind", "poll" (start pollMatch) and, at the end,    *)
(* "leave" (the reader returns) or "off" (no poller).  Every entry is one  *)
(* atomic step.                                                            *)
(***************************************************************************)
EXTENDS SessionManager, Sequences

CONSTANTS
  MaxMessages, (* bound: messages and ends of read loops in a run          *)
  MaxPolls     (* bound: rounds of pollers in a run                        *)

ASSUME GatewayAssumption == MaxMessages \in Nat /\ MaxPolls \in Nat

VARIABLES
  server,  (* "serving"; "draining" from the signal to the end of main;    *)
           (* "exited" when drained, "cut" after 5 s, "failed" by Fatalf   *)
  upgrade, (* [Session -> what became of its request for /ws]              *)
  todo,    (* [Goroutine -> what it still does, in order]                  *)
  count,   (* [Counter -> the counters other than the gauge]               *)
  scrape,  (* a request for /metrics: "none", "open", "answered"           *)
  loaded,  (* how many of the numbers in Order it has loaded               *)
  sample,  (* [Kept -> the number it loaded, 0 before that]                *)
  got,     (* history: how many answers of each kind clients received      *)
  shown,   (* history: got when the scrape was asked for                   *)
  runs     (* [Role -> the messages and the polls so far]                  *)

talk == <<todo, count, got, runs>>
asked == <<scrape, loaded, sample, shown>>
gatewayVars == <<vars, server, upgrade, talk, asked>>

Role == {"reader", "poller"}   (* at most one poller of a session at a time *)
Goroutine == Session \X Role
Counter == {"connections", "messages", "errors", "core_requests",
            "core_errors", "match_found"}

(* The order of ServeHTTP. *)
Order == <<"active", "connections", "messages", "errors", "core_requests",
           "core_errors", "match_found">>

(* The numbers of a scrape that properties are about.                      *)
Kept == {"active", "errors", "core_errors", "match_found"}

-----------------------------------------------------------------------------
(* What a goroutine does for a message or a poll *)

Error == <<"errors", "error">>   (* writeError *)

(* Mutated form: the match is counted once it is written.                  *)
FoundFirst == <<"found", "match_found">>

Found == <<"match_found", "found">>   (* the end of pushMatch *)

CoreAnswered == <<"core_requests">>   (* CoreRequest(nil) *)

(* Mutated form: the failure is counted first.                             *)
ErrorBeforeRequest == <<"core_errors", "core_requests">>

CoreFailed == <<"core_requests", "core_errors">>   (* CoreRequest(err) *)

(* pushMatch: with or without a GetResult, which may fail.                 *)
PushMatch == {Found, CoreAnswered \o Found}

(* handleMessage for each type, its error told by handleWebSocket.         *)
Message == {<<"messages">> \o run : run \in
     { Error,                                  (* limit, or refused        *)
       <<"other">>,                            (* pong, maintenance        *)
       <<"bind", "other">>,                    (* auth                     *)
       CoreFailed \o Error,
       CoreAnswered \o <<"other">>,            (* cancel, status           *)
       CoreAnswered \o <<"other", "poll">>,    (* enqueue                  *)
       CoreAnswered \o CoreFailed \o Error }   (* GetResult fails          *)
     \cup {CoreAnswered \o push : push \in PushMatch} }

(* The read loop ends in silence at io.EOF, else with an error.            *)
Leave == {<<"leave">>, Error \o <<"leave">>}

(* One round of pollMatch. *)
Poll ==
  { <<"off">>,                                 (* ctx.Done                 *)
    <<"other", "off">>,                        (* its timer                *)
    CoreAnswered,                              (* still queued             *)
    CoreFailed \o Error,
    CoreAnswered \o <<"other", "off">>,        (* cancelled, timeout       *)
    CoreAnswered \o CoreFailed \o <<"off">> }  (* the error is dropped     *)
  \cup {CoreAnswered \o push \o <<"off">> : push \in PushMatch}

MaxRuns == [reader |-> MaxMessages, poller |-> MaxPolls]

Run == [reader |-> Message \cup Leave, poller |-> Poll]

Alive == server \in {"serving", "draining"}

GatewayInit ==
  /\ Init
  /\ server = "serving"
  /\ upgrade = [s \in Session |-> "none"]
  /\ todo = [g \in Goroutine |-> IF g[2] = "reader" THEN <<>> ELSE <<"off">>]
  /\ count = [c \in Counter |-> 0]
  /\ scrape = "none"
  /\ loaded = 0
  /\ sample = [c \in Kept |-> 0]
  /\ got = [k \in {"error", "found"} |-> 0]
  /\ shown = got
  /\ runs = [r \in Role |-> 0]

-----------------------------------------------------------------------------
(* Connections *)

Accept(s) ==
  /\ server = "serving" /\ upgrade[s] = "none"
  /\ upgrade' = [upgrade EXCEPT ![s] = "accepted"]
  /\ UNCHANGED <<vars, server, talk, asked>>

(* acceptWebSocket: hijacked, or refused (for want of headers; or the      *)
(* answer cannot be written).  Shutdown does not prevent it.               *)
Upgrade(s) ==
  /\ Alive /\ upgrade[s] = "accepted"
  /\ \E u \in {"refused", "hijacked"} : upgrade' = [upgrade EXCEPT ![s] = u]
  /\ UNCHANGED <<vars, server, talk, asked>>

Register(s) ==
  /\ Alive /\ upgrade[s] = "hijacked"
  /\ Add(s)
  /\ UNCHANGED <<server, upgrade, talk, asked>>

(* Mutated form: the connection is not counted.                            *)
CountInUncounted(s) ==
  /\ Alive
  /\ OpenSession(s)
  /\ UNCHANGED <<server, upgrade, talk, asked>>

(* Metrics.OpenSession: the gauge, and then connectionsTotal.              *)
CountIn(s) ==
  /\ Alive
  /\ OpenSession(s)
  /\ todo' = [todo EXCEPT ![<<s, "reader">>] = <<"connections">>]
  /\ UNCHANGED <<server, upgrade, count, got, runs, asked>>

CountOut(s) ==
  /\ Alive
  /\ CloseSession(s)
  /\ UNCHANGED <<server, upgrade, talk, asked>>

-----------------------------------------------------------------------------
(* Readers and pollers *)

(* handleWebSocket has returned from its loop and cancelled its context.   *)
Cancelled(s) == at[s] # "loop" \/ todo[<<s, "reader">>] = <<"leave">>

TakeUp(g) ==
  /\ Alive /\ runs[g[2]] < MaxRuns[g[2]]
  /\ todo[g] = <<>>
  /\ g[2] = "reader" => at[g[1]] = "loop"
  /\ \E run \in Run[g[2]] :
       /\ run = <<"off">> => Cancelled(g[1])
       /\ todo' = [todo EXCEPT ![g] = run]
  /\ runs' = [runs EXCEPT ![g[2]] = @ + 1]
  /\ UNCHANGED <<vars, server, upgrade, count, got, asked>>

Does(g, step) == Alive /\ todo[g] # <<>> /\ Head(todo[g]) = step
Rest(g) == [todo EXCEPT ![g] = Tail(todo[g])]

Counts(g, c) ==
  /\ Does(g, c)
  /\ count' = [count EXCEPT ![c] = @ + 1]
  /\ todo' = Rest(g)
  /\ UNCHANGED <<vars, server, upgrade, got, runs, asked>>

Tells(g, kind) ==
  /\ Does(g, kind)
  /\ got' = [k \in DOMAIN got |-> IF k = kind THEN got[k] + 1 ELSE got[k]]
  /\ todo' = Rest(g)
  /\ UNCHANGED <<vars, server, upgrade, count, runs, asked>>

(* Mutated form: the error is told and the handler goes on.                *)
TellFailsGoesOn(g, kind) ==
  /\ Does(g, kind)
  /\ todo' = IF g[2] = "reader" /\ kind # "error"
             THEN [todo EXCEPT ![g] = Error \o Tail(@)] ELSE Rest(g)
  /\ UNCHANGED <<vars, server, upgrade, count, got, runs, asked>>

(* The write fails.  A handler returns the error and the reader tries to   *)
(* tell it; writeError and pollMatch drop it.                              *)
TellFails(g, kind) ==
  /\ Does(g, kind)
  /\ todo' = IF g[2] = "reader" /\ kind # "error"
             THEN [todo EXCEPT ![g] = Error] ELSE Rest(g)
  /\ UNCHANGED <<vars, server, upgrade, count, got, runs, asked>>

Binds(s, p) ==
  /\ Does(<<s, "reader">>, "bind")
  /\ BindPlayer(s, p)
  /\ todo' = Rest(<<s, "reader">>)
  /\ UNCHANGED <<server, upgrade, count, got, runs, asked>>

StartsPoller(s) ==
  /\ Does(<<s, "reader">>, "poll") /\ todo[<<s, "poller">>] = <<"off">>
  /\ todo' = [Rest(<<s, "reader">>) EXCEPT ![<<s, "poller">>] = <<>>]
  /\ UNCHANGED <<vars, server, upgrade, count, got, runs, asked>>

Leaves(s) ==
  /\ Does(<<s, "reader">>, "leave")
  /\ Remove(s)
  /\ todo' = Rest(<<s, "reader">>)
  /\ UNCHANGED <<server, upgrade, count, got, runs, asked>>

-----------------------------------------------------------------------------
(* /metrics *)

AskMetrics ==
  /\ server = "serving" /\ scrape = "none"
  /\ scrape' = "open"
  /\ shown' = got
  /\ UNCHANGED <<vars, server, upgrade, talk, loaded, sample>>

Value(c) == IF c = "active" THEN active ELSE count[c]

Load ==
  /\ Alive /\ scrape = "open" /\ loaded < Len(Order)
  /\ loaded' = loaded + 1
  /\ sample' = [c \in Kept |-> IF c = Order[loaded + 1] THEN Value(c) ELSE sample[c]]
  /\ UNCHANGED <<vars, server, upgrade, talk, scrape, shown>>

AnswerMetrics ==
  /\ Alive /\ scrape = "open" /\ loaded = Len(Order)
  /\ scrape' = "answered"
  /\ UNCHANGED <<vars, server, upgrade, talk, loaded, sample, shown>>

-----------------------------------------------------------------------------
(* main *)

(* The process ends and its goroutines with it, whatever they were at.     *)
Ends(how) ==
  /\ server' = how
  /\ todo' = [g \in Goroutine |-> <<>>]
  /\ count' = [c \in Counter |-> 0]
  /\ loaded' = 0
  /\ sample' = [c \in Kept |-> 0]
  /\ scrape' = IF scrape = "open" THEN "broken" ELSE scrape
  /\ UNCHANGED <<vars, upgrade, got, shown, runs>>

(* ListenAndServe returns an error of its own: log.Fatalf.                 *)
ListenFails == server = "serving" /\ Ends("failed")

(* SIGINT or SIGTERM; Shutdown closes the listener, and ListenAndServe     *)
(* returns ErrServerClosed, which is passed over.                          *)
Signal ==
  /\ server = "serving" /\ server' = "draining"
  /\ UNCHANGED <<vars, upgrade, talk, asked>>

(* Mutated form: Shutdown waits for hijacked connections too.              *)
DrainedOfSessions ==
  /\ server = "draining"
  /\ scrape # "open"
  /\ \A s \in Session :
       /\ upgrade[s] # "accepted"
       /\ upgrade[s] = "hijacked" => at[s] = "done"
  /\ Ends("exited")

(* Shutdown waits for the requests in flight, not for hijacked connections.*)
Drained ==
  /\ server = "draining"
  /\ scrape # "open" /\ \A s \in Session : upgrade[s] # "accepted"
  /\ Ends("exited")

(* The context of Shutdown expires after 5 s. *)
GraceEnds == server = "draining" /\ Ends("cut")

Main == ListenFails \/ Signal \/ Drained \/ GraceEnds

GatewayNext ==
  \/ \E s \in Session :
       \/ Accept(s) \/ Upgrade(s) \/ Register(s) \/ CountIn(s) \/ CountOut(s)
       \/ StartsPoller(s) \/ Leaves(s) \/ \E p \in Player : Binds(s, p)
  \/ \E g \in Goroutine :
       \/ TakeUp(g)
       \/ \E c \in Counter : Counts(g, c)
       \/ \E kind \in {"found", "error", "other"} :
            Tells(g, kind) \/ TellFails(g, kind)
  \/ AskMetrics \/ Load \/ AnswerMetrics
  \/ Main

GatewaySpec == GatewayInit /\ [][GatewayNext]_gatewayVars

(* The handlers of HTTP requests run, and main does; nothing is assumed of *)
(* sessions, pollers and clients, nor is the expiry of Shutdown's context. *)
Requests ==
  (\E s \in Session : Upgrade(s)) \/ Load \/ AnswerMetrics \/ Drained

FairGateway == GatewaySpec /\ WF_gatewayVars(Requests)

-----------------------------------------------------------------------------
(* Properties *)

Step == Counter \cup {"found", "error", "other", "bind", "poll", "leave", "off"}

(* Types, and the shape of what goroutines still do: readers only work     *)
(* between OpenSession and Remove, and nothing but their end follows an    *)
(* error, whichever writes fail.                                           *)
GatewayTypeOK ==
  /\ server \in {"serving", "draining", "exited", "cut", "failed"}
  /\ upgrade \in [Session -> {"none", "accepted", "refused", "hijacked"}]
  /\ todo \in [Goroutine -> Seq(Step)]
  /\ count \in [Counter -> Nat]
  /\ scrape \in {"none", "open", "answered", "broken"}
  /\ loaded \in 0..Len(Order) /\ sample \in [Kept -> Nat]
  /\ got \in [{"error", "found"} -> Nat] /\ shown \in [{"error", "found"} -> Nat]
  /\ \A r \in Role : runs[r] \in 0..MaxRuns[r]
  /\ \A s \in Session : at[s] # "loop" => todo[<<s, "reader">>] = <<>>
  /\ \A g \in Goroutine : \A i \in 1..Len(todo[g]) - 1 :
       todo[g][i] = "error" => todo[g][i + 1] = "leave"

(* Handlers standing between the two additions of OpenSession.             *)
Opening == {s \in Session : todo[<<s, "reader">>] = <<"connections">>}

(* /metrics is never behind what clients know: when a scrape is answered,  *)
(* the errors and matches that any client had received before it was asked *)
(* for are in its numbers, although counters and connections share no lock *)
(* and the scrape loads the counters one after the other.                  *)
SeenIsCounted ==
  Alive /\ scrape = "answered" =>
    /\ sample["errors"] >= shown["error"]
    /\ sample["match_found"] >= shown["found"]

(* A failed request to CoreRank is a request before it is a failure: the   *)
(* failures are never ahead of the requests, and the failures a scrape has *)
(* loaded are among the requests counted by then.  (The requests it loaded *)
(* one step earlier may be fewer.)                                         *)
ErrorsAreRequests ==
  Alive =>
    /\ count["core_errors"] <= count["core_requests"]
    /\ sample["core_errors"] <= count["core_requests"]

(* The active sessions a scrape has loaded are among the connections       *)
(* accepted, but for handlers that stand between gauge and counter.        *)
ActiveWereAccepted ==
  Alive => sample["active"] <= count["connections"] + Cardinality(Opening)

(* After SIGINT or SIGTERM the process ends without the help of Shutdown's *)
(* five seconds, while sessions and pollers are still there and may never  *)
(* end: hijacked connections do not hold it up, and a /metrics or /ws      *)
(* request in flight is finished first.                                    *)
StopEnds == server = "draining" ~> ~Alive
=============================================================================
