------------------------------ MODULE Admission ------------------------------
(***************************************************************************)
(* Who may authenticate and enqueue (internal/gateway/server.go): the ban  *)
(* and maintenance checks of handleAuth and handleEnqueue against GameOps, *)
(* whose administrators change bans and switches at any time.  The checks  *)
(* are two HTTP calls, one after the other, and act on answers that may be *)
(* out of date; a call that fails counts as "no ban" and "local settings". *)
(* A gateway without GameOps is one all of whose calls fail.               *)
(*                                                                         *)
(* Sessions meet only through GameOps here.  Time is the gateway's clock,  *)
(* which decides whether a ban has run out.                                *)
(***************************************************************************)
EXTENDS Integers

CONSTANTS
  Session,  (* sessions                                                    *)
  Player,   (* player ids                                                  *)
  NoPlayer, (* the empty player_id                                         *)
  Horizon,  (* bound: the clock stops here                                 *)
  MaxEdits  (* bound: changes made in GameOps                              *)

ASSUME AdmissionAssumption ==
  /\ NoPlayer \notin Player
  /\ Horizon \in Nat
  /\ MaxEdits \in Nat

VARIABLES
  now,    (* the gateway's clock                                           *)
  edits,  (* changes made in GameOps so far                                *)
  ban,    (* GameOps: [Player -> Ban]                                      *)
  switch, (* GameOps: Switches, the maintenance keys of its ops-state      *)
  local,  (* cfg.MaintenanceEnabled                                        *)
  player, (* [Session -> Session.PlayerID]                                 *)
  at,     (* [Session -> what its reader does]                             *)
  read,   (* [Session -> PlayerState's answer while it is judged]           *)
  failed, (* history: [Session -> calls that failed in this handling]      *)
  began,  (* history: [Session -> when this handling began]                *)
  bans,   (* history: [Session -> bans of its player in force since then]  *)
  modes   (* history: [Session -> switches in force since then]            *)

gameops == <<now, edits, ban, switch, local>>
history == <<failed, began, bans, modes>>
vars == <<gameops, player, at, read, history>>

(* Until 0 is a ban without end.                                           *)
NoBan == [banned |-> FALSE, until |-> 0]
Ban == {NoBan} \cup [banned : {TRUE}, until : 0..Horizon]

(* A key of ops-state: absent, or the value parseBool makes of it, which   *)
(* is false for whatever strconv.ParseBool does not take.                  *)
Value == {"absent", "true", "false"}
Switches == [login : Value, ranked : Value]

Handling == [handler : {"auth", "enqueue"},
             step : {"ban", "judge", "refuse", "bind", "state", "tell", "end"},
             player : Player]
Reading == [handler |-> "none"]

Init ==
  /\ now = 0
  /\ edits = 0
  /\ ban \in [Player -> Ban]
  /\ switch \in Switches
  /\ local \in BOOLEAN
  /\ player = [s \in Session |-> NoPlayer]
  /\ at = [s \in Session |-> Reading]
  /\ read = [s \in Session |-> NoBan]
  /\ failed = [s \in Session |-> {}]
  /\ began = [s \in Session |-> 0]
  /\ bans = [s \in Session |-> {}]
  /\ modes = [s \in Session |-> {}]

-----------------------------------------------------------------------------
(* GameOps and the clock *)

(* What is in force changes under the handlers that run.                   *)
Witness ==
  /\ bans' = [s \in Session |->
       IF at[s] = Reading THEN {} ELSE bans[s] \cup {ban'[at[s].player]}]
  /\ modes' = [s \in Session |->
       IF at[s] = Reading THEN {} ELSE modes[s] \cup {switch'}]

SetBan(p, b) ==
  /\ edits < MaxEdits
  /\ edits' = edits + 1
  /\ ban' = [ban EXCEPT ![p] = b]
  /\ UNCHANGED <<now, switch, local, player, at, read, failed, began>>
  /\ Witness

SetSwitches(m) ==
  /\ edits < MaxEdits
  /\ edits' = edits + 1
  /\ switch' = m
  /\ UNCHANGED <<now, ban, local, player, at, read, failed, began>>
  /\ Witness

Tick ==
  /\ now < Horizon
  /\ now' = now + 1
  /\ UNCHANGED <<edits, ban, switch, local, player, at, read, history>>

-----------------------------------------------------------------------------
(* The handlers *)

Begin(s, handler, p) ==
  /\ at[s] = Reading
  /\ at' = [at EXCEPT ![s] = [handler |-> handler, step |-> "ban", player |-> p]]
  /\ failed' = [failed EXCEPT ![s] = {}]
  /\ began' = [began EXCEPT ![s] = now]
  /\ bans' = [bans EXCEPT ![s] = {ban[p]}]
  /\ modes' = [modes EXCEPT ![s] = {switch}]
  /\ UNCHANGED <<gameops, player, read>>

(* handleAuth, once player_id and token are found right; with a wrong one  *)
(* nothing is asked and nothing changes.                                   *)
HandleAuth(s, p) == Begin(s, "auth", p)

(* Mutated form: the player is the one the message names.                  *)
HandleEnqueueNamed(s) ==
  player[s] # NoPlayer /\ \E p \in Player : Begin(s, "enqueue", p)

(* handleEnqueue of an authenticated session, for the session's player.    *)
HandleEnqueue(s) == player[s] # NoPlayer /\ Begin(s, "enqueue", player[s])

GoOn(s, step) == at' = [at EXCEPT ![s].step = step]

(* Back to the read loop; the histories are over with the handling.        *)
Finish(s) ==
  /\ at' = [at EXCEPT ![s] = Reading]
  /\ failed' = [failed EXCEPT ![s] = {}]
  /\ began' = [began EXCEPT ![s] = 0]
  /\ bans' = [bans EXCEPT ![s] = {}]
  /\ modes' = [modes EXCEPT ![s] = {}]
  /\ UNCHANGED <<gameops, player, read>>

Passed(s) == IF at[s].handler = "auth" THEN "bind" ELSE "state"

At(s, step) == at[s] # Reading /\ at[s].step = step

(* PlayerState answers.                                                    *)
BanAnswered(s) ==
  /\ At(s, "ban")
  /\ read' = [read EXCEPT ![s] = ban[at[s].player]]
  /\ GoOn(s, "judge")
  /\ UNCHANGED <<gameops, player, history>>

(* Mutated form: a player whose state is unknown is refused.               *)
BanUnknownRefused(s) ==
  /\ At(s, "ban")
  /\ GoOn(s, "refuse")
  /\ failed' = [failed EXCEPT ![s] = @ \cup {"PlayerState"}]
  /\ UNCHANGED <<gameops, player, read, began, bans, modes>>

(* PlayerState fails: nobody is banned.                                    *)
BanUnknown(s) ==
  /\ At(s, "ban")
  /\ GoOn(s, Passed(s))
  /\ failed' = [failed EXCEPT ![s] = @ \cup {"PlayerState"}]
  /\ UNCHANGED <<gameops, player, read, began, bans, modes>>

(* Mutated form: bans are checked when a player authenticates only.        *)
JudgeAuthOnly(s) ==
  LET lapsed == read[s].until > 0 /\ read[s].until < now
      banned == read[s].banned /\ ~lapsed IN
  /\ At(s, "judge")
  /\ GoOn(s, IF banned /\ at[s].handler = "auth" THEN "refuse" ELSE Passed(s))
  /\ read' = [read EXCEPT ![s] = NoBan]
  /\ UNCHANGED <<gameops, player, history>>

(* playerBanMessage judges the answer by the clock it reads now.           *)
Judge(s) ==
  LET lapsed == read[s].until > 0 /\ read[s].until < now
      banned == read[s].banned /\ ~lapsed IN
  /\ At(s, "judge")
  /\ GoOn(s, IF banned THEN "refuse" ELSE Passed(s))
  /\ read' = [read EXCEPT ![s] = NoBan]
  /\ UNCHANGED <<gameops, player, history>>

(* "player is banned": the session stays as it was.                        *)
Refuse(s) == At(s, "refuse") /\ Finish(s)

(* BindPlayer, and the authed message.                                     *)
Bind(s) ==
  /\ At(s, "bind")
  /\ player' = [player EXCEPT ![s] = at[s].player]
  /\ GoOn(s, "state")
  /\ UNCHANGED <<gameops, read, history>>

(* The key of ops-state that is for the handler.                           *)
Key(s) == IF at[s].handler = "auth" THEN switch.login ELSE switch.ranked

(* Mutated form: GameOps can switch maintenance on, not off.               *)
MergedOr(value) == local \/ value = "true"

(* currentOperationalState: a key that is present overrides the local      *)
(* setting, and is false if ParseBool does not take its value.             *)
Merged(value) == IF value = "absent" THEN local ELSE value = "true"

(* "tell": maintenance is reported, and an enqueue ends with that; "end":  *)
(* auth is done, and enqueue goes on to CreateTicket.                      *)
StateAnswered(s) ==
  /\ At(s, "state")
  /\ GoOn(s, IF Merged(Key(s)) THEN "tell" ELSE "end")
  /\ UNCHANGED <<gameops, player, read, history>>

(* Mutated form: without GameOps there is no maintenance.                  *)
StateUnknownOpen(s) ==
  /\ At(s, "state")
  /\ GoOn(s, "end")
  /\ failed' = [failed EXCEPT ![s] = @ \cup {"OpsState"}]
  /\ UNCHANGED <<gameops, player, read, began, bans, modes>>

(* OpsState fails: the local setting decides.                              *)
StateUnknown(s) ==
  /\ At(s, "state")
  /\ GoOn(s, IF local THEN "tell" ELSE "end")
  /\ failed' = [failed EXCEPT ![s] = @ \cup {"OpsState"}]
  /\ UNCHANGED <<gameops, player, read, began, bans, modes>>

Return(s) == (At(s, "tell") \/ At(s, "end")) /\ Finish(s)

Reader(s) ==
  \/ \E p \in Player : HandleAuth(s, p)
  \/ HandleEnqueue(s)
  \/ BanAnswered(s) \/ BanUnknown(s) \/ Judge(s) \/ Refuse(s)
  \/ Bind(s) \/ StateAnswered(s) \/ StateUnknown(s) \/ Return(s)

Next ==
  \/ \E s \in Session : Reader(s)
  \/ \E p \in Player, b \in Ban : SetBan(p, b)
  \/ \E m \in Switches : SetSwitches(m)
  \/ Tick

Spec == Init /\ [][Next]_vars

-----------------------------------------------------------------------------
(* Properties *)

(* Types of the clock, of GameOps and of the sessions; what is checked and *)
(* enqueued is the session's own player.                                   *)
TypeOK ==
  /\ now \in 0..Horizon
  /\ edits \in 0..MaxEdits
  /\ ban \in [Player -> Ban]
  /\ switch \in Switches
  /\ local \in BOOLEAN
  /\ player \in [Session -> Player \cup {NoPlayer}]
  /\ at \in [Session -> Handling \cup {Reading}]
  /\ read \in [Session -> Ban]
  /\ failed \in [Session -> SUBSET {"PlayerState", "OpsState"}]
  /\ began \in [Session -> 0..Horizon]
  /\ bans \in [Session -> SUBSET Ban]
  /\ modes \in [Session -> SUBSET Switches]
  /\ \A s \in Session :
       at[s].handler = "enqueue" => at[s].player = player[s]

Bans(b, time) == b.banned /\ (b.until = 0 \/ b.until >= time)

(* README.md: a banned player cannot enter matching.  What the two reads   *)
(* can promise: a player is let in, at auth and again at every enqueue,    *)
(* only if some ban record in force since the message was taken up does    *)
(* not ban now, or GameOps did not answer.                                 *)
BannedStayOut ==
  \A s \in Session :
    At(s, "bind") \/ At(s, "state") \/ At(s, "tell") \/ At(s, "end")
      => "PlayerState" \in failed[s] \/ \E b \in bans[s] : ~Bans(b, now)

(* Nobody is turned away as banned who was not, by a record in force       *)
(* since then: a lifted or lapsed ban, another player's ban and an outage  *)
(* of GameOps never refuse anyone.                                         *)
OnlyBannedRefused ==
  \A s \in Session :
    At(s, "refuse") => \E b \in bans[s] : Bans(b, began[s])

(* docs/protocol.md and docs/verification.md: ranked maintenance keeps     *)
(* enqueues from CoreRank, and GameOps overrides the local setting, which  *)
(* decides when GameOps says nothing.  So CreateTicket is called, and an   *)
(* authenticated client is spared the maintenance message, only if at some *)
(* moment of the handling there was no maintenance.                        *)
MaintenanceIsKept ==
  \A s \in Session :
    At(s, "end") =>
      \/ "OpsState" \in failed[s] /\ ~local
      \/ \E m \in modes[s] :
           LET value == IF at[s].handler = "auth" THEN m.login ELSE m.ranked IN
           \/ value = "false"
           \/ value = "absent" /\ ~local

(* Nobody is told of a maintenance that was not on at any moment of the    *)
(* handling: in particular GameOps can end what the local setting began.   *)
MaintenanceIsReal ==
  \A s \in Session :
    At(s, "tell") =>
      \/ "OpsState" \in failed[s] /\ local
      \/ \E m \in modes[s] :
           LET value == IF at[s].handler = "auth" THEN m.login ELSE m.ranked IN
           value = "true" \/ (value = "absent" /\ local)
=============================================================================
