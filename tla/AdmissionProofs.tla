--------------------------- MODULE AdmissionProofs ---------------------------
(***************************************************************************)
(* Proofs about Admission, for any sessions, players, length of time and   *)
(* number of changes in GameOps.                                           *)
(***************************************************************************)
EXTENDS Admission, TLAPS

(* What one session's handler may rely on: what is in force now is among   *)
(* what was in force since it began, and so is the answer it judges.       *)
Witnessed(s) ==
  at[s] # Reading =>
    /\ ban[at[s].player] \in bans[s]
    /\ switch \in modes[s]
    /\ began[s] <= now
    /\ At(s, "judge") => read[s] \in bans[s]
    /\ At(s, "bind") => at[s].handler = "auth"

(* The four properties, for one session.                                   *)
AdmittedOK(s) ==
  At(s, "bind") \/ At(s, "state") \/ At(s, "tell") \/ At(s, "end")
    => "PlayerState" \in failed[s] \/ \E b \in bans[s] : ~Bans(b, now)

RefusedOK(s) == At(s, "refuse") => \E b \in bans[s] : Bans(b, began[s])

Wanted(s, m) == IF at[s].handler = "auth" THEN m.login ELSE m.ranked

ToldOK(s) ==
  /\ At(s, "end") =>
       \/ "OpsState" \in failed[s] /\ ~local
       \/ \E m \in modes[s] : Wanted(s, m) = "false" \/ (Wanted(s, m) = "absent" /\ ~local)
  /\ At(s, "tell") =>
       \/ "OpsState" \in failed[s] /\ local
       \/ \E m \in modes[s] : Wanted(s, m) = "true" \/ (Wanted(s, m) = "absent" /\ local)

Good(s) == Witnessed(s) /\ AdmittedOK(s) /\ RefusedOK(s) /\ ToldOK(s)

IInv == TypeOK /\ \A s \in Session : Good(s)

(* A session that no step touches, while bans and switches are at most     *)
(* added to its histories and time does not go back.                       *)
Stays(s) ==
  /\ at'[s] = at[s] /\ read'[s] = read[s] /\ failed'[s] = failed[s]
  /\ began'[s] = began[s] /\ local' = local
  /\ now' \in Int /\ now <= now'
  /\ at[s] # Reading =>
       /\ bans[s] \subseteq bans'[s] /\ ban'[at[s].player] \in bans'[s]
       /\ modes[s] \subseteq modes'[s] /\ switch' \in modes'[s]

LEMMA BanFields == \A b \in Ban : b.until \in Int /\ b.until >= 0
<1> SUFFICES ASSUME NEW b \in Ban PROVE b.until \in Int /\ b.until >= 0
  OBVIOUS
<1>1. CASE b = NoBan
  BY <1>1 DEF NoBan
<1>2. CASE b \in [banned : {TRUE}, until : 0..Horizon]
  <2>1. b.until \in 0..Horizon
    BY <1>2
  <2> QED
    BY <2>1, AdmissionAssumption
<1> QED
  BY <1>1, <1>2 DEF Ban

(* A ban that is over stays over.                                          *)
LEMMA BansRunOut ==
  ASSUME NEW b \in Ban, NEW i \in Int, NEW j \in Int, i <= j, ~Bans(b, i)
  PROVE  ~Bans(b, j)
BY BanFields DEF Bans

LEMMA StaysGood ==
  ASSUME IInv, NEW s \in Session, Stays(s)
  PROVE  Good(s)'
<1>0. TypeOK /\ Good(s)
  BY DEF IInv
<1>1. CASE at[s] = Reading
  BY <1>1 DEF Stays, Good, Witnessed, AdmittedOK, RefusedOK, ToldOK, At
<1>2. CASE at[s] # Reading
  <2>1. /\ now \in Int /\ began[s] \in Int /\ bans[s] \subseteq Ban
    BY <1>0, AdmissionAssumption DEF TypeOK
  <2>2. Witnessed(s)'
    BY <1>0, <1>2, <2>1 DEF Stays, Good, Witnessed, At
  <2>3. AdmittedOK(s)'
    <3>1. ASSUME NEW b \in bans[s], ~Bans(b, now)
          PROVE  b \in bans'[s] /\ ~Bans(b, now')
      BY <1>2, <2>1, <3>1, BansRunOut DEF Stays
    <3> QED
      BY <1>0, <3>1 DEF Stays, Good, AdmittedOK, At
  <2>4. RefusedOK(s)'
    BY <1>0, <1>2 DEF Stays, Good, RefusedOK, At
  <2>5. ToldOK(s)'
    BY <1>0, <1>2 DEF Stays, Good, ToldOK, At, Wanted
  <2> QED
    BY <2>2, <2>3, <2>4, <2>5 DEF Good
<1> QED
  BY <1>1, <1>2

(* A reader's step leaves GameOps and every other session alone.           *)
Alone(s) ==
  /\ UNCHANGED gameops
  /\ \A v \in Session \ {s} :
       /\ at'[v] = at[v] /\ read'[v] = read[v] /\ failed'[v] = failed[v]
       /\ began'[v] = began[v] /\ bans'[v] = bans[v] /\ modes'[v] = modes[v]

LEMMA OthersStay ==
  ASSUME IInv, NEW s \in Session, Alone(s), NEW v \in Session \ {s}
  PROVE  Good(v)'
<1>1. Stays(v)
  BY AdmissionAssumption
     DEF IInv, TypeOK, Good, Witnessed, Stays, Alone, gameops
<1> QED
  BY <1>1, StaysGood

(* The steps of a reader, one after the other.                             *)
LEMMA BeginStep ==
  ASSUME IInv, NEW s \in Session, NEW handler \in {"auth", "enqueue"},
         NEW p \in Player, Begin(s, handler, p),
         handler = "enqueue" => p = player[s]
  PROVE  TypeOK' /\ Alone(s) /\ Good(s)'
<1>0. TypeOK /\ now \in 0..Horizon /\ ban[p] \in Ban /\ Horizon \in Nat
  BY AdmissionAssumption DEF IInv, TypeOK
<1> DEFINE msg == [handler |-> handler, step |-> "ban", player |-> p]
<1>1. msg \in Handling /\ msg # Reading /\ at' = [at EXCEPT ![s] = msg]
  BY DEF Begin, Handling, Reading
<1>2. TypeOK'
  BY <1>0, <1>1 DEF Begin, TypeOK, gameops
<1>3. Alone(s)
  BY <1>0, <1>1 DEF Begin, TypeOK, Alone, gameops
<1>4. at'[s] = msg /\ bans'[s] = {ban[p]} /\ modes'[s] = {switch} /\ began'[s] = now
  BY <1>0, <1>1 DEF Begin, TypeOK
<1>5. ban' = ban /\ switch' = switch /\ now' = now
  BY DEF Begin, gameops
<1> QED
  BY <1>0, <1>1, <1>2, <1>3, <1>4, <1>5
     DEF Good, Witnessed, AdmittedOK, RefusedOK, ToldOK, At

LEMMA FinishStep ==
  ASSUME IInv, NEW s \in Session, Finish(s)
  PROVE  TypeOK' /\ Alone(s) /\ Good(s)'
<1>0. TypeOK /\ 0 \in 0..Horizon
  BY AdmissionAssumption DEF IInv, TypeOK
<1>1. TypeOK'
  BY <1>0 DEF Finish, TypeOK, gameops, Reading
<1>2. Alone(s)
  BY <1>0 DEF Finish, TypeOK, Alone, gameops
<1>3. at'[s] = Reading
  BY <1>0 DEF Finish, TypeOK
<1> QED
  BY <1>1, <1>2, <1>3 DEF Good, Witnessed, AdmittedOK, RefusedOK, ToldOK, At

(* A step within a handling: only the place changes, and perhaps the       *)
(* answer to judge, the player bound or the calls that failed.             *)
Steps == {"ban", "judge", "refuse", "bind", "state", "tell", "end"}

Within(s, step) ==
  /\ at[s] # Reading /\ step \in Steps /\ GoOn(s, step)
  /\ UNCHANGED <<gameops, began, bans, modes>>
  /\ \E f \in SUBSET {"PlayerState", "OpsState"} :
       failed' = [failed EXCEPT ![s] = f]
  /\ \E b \in Ban : read' = [read EXCEPT ![s] = b]
  /\ \/ player' = player
     \/ at[s].handler = "auth" /\ player' = [player EXCEPT ![s] = at[s].player]

(* What such a step leaves as it was.                                      *)
Moved(s, step) ==
  /\ at[s] \in Handling /\ at'[s] = [at[s] EXCEPT !.step = step]
  /\ at'[s] # Reading
  /\ at'[s].player = at[s].player /\ at'[s].handler = at[s].handler
  /\ at'[s].step = step
  /\ bans'[s] = bans[s] /\ modes'[s] = modes[s] /\ began'[s] = began[s]
  /\ ban' = ban /\ switch' = switch /\ now' = now /\ local' = local

LEMMA GoOnStep ==
  ASSUME IInv, NEW s \in Session, NEW step, Within(s, step)
  PROVE  TypeOK' /\ Alone(s) /\ Moved(s, step)
<1>0. TypeOK
  BY DEF IInv
<1>1. at[s] \in Handling /\ step \in Steps
  BY <1>0 DEF TypeOK, Within
<1>w. PICK f \in SUBSET {"PlayerState", "OpsState"}, b \in Ban :
        /\ failed' = [failed EXCEPT ![s] = f] /\ read' = [read EXCEPT ![s] = b]
        /\ UNCHANGED <<gameops, began, bans, modes>>
        /\ \/ player' = player
           \/ at[s].handler = "auth" /\ player' = [player EXCEPT ![s] = at[s].player]
  BY DEF Within
<1> DEFINE new == [at[s] EXCEPT !.step = step]
<1>2. /\ new \in Handling /\ new # Reading
      /\ new.player = at[s].player /\ new.handler = at[s].handler
      /\ new.step = step
  BY <1>1 DEF Handling, Reading, Steps
<1>3. at' = [at EXCEPT ![s] = new]
  BY DEF GoOn, Within
<1> HIDE DEF new
<1>4. /\ at'[s] = new
      /\ bans'[s] = bans[s] /\ modes'[s] = modes[s] /\ began'[s] = began[s]
      /\ ban' = ban /\ switch' = switch /\ now' = now /\ local' = local
  BY <1>0, <1>3, <1>w DEF TypeOK, gameops
<1>5. Alone(s)
  BY <1>0, <1>3, <1>w DEF TypeOK, Alone
<1>6. TypeOK'
  <2>1. at[s].player \in Player
    BY <1>1 DEF Handling
  <2>2. player' \in [Session -> Player \cup {NoPlayer}]
    BY <1>0, <1>w, <2>1 DEF TypeOK
  <2>3. ASSUME NEW v \in Session, at'[v].handler = "enqueue"
        PROVE  at'[v].player = player'[v]
    <3>1. CASE v = s
      BY <1>0, <1>2, <1>4, <1>w, <2>3, <3>1 DEF TypeOK
    <3>2. CASE v # s
      BY <1>0, <1>3, <1>w, <2>3, <3>2 DEF TypeOK
    <3> QED
      BY <3>1, <3>2
  <2>4. /\ at' \in [Session -> Handling \cup {Reading}]
        /\ read' \in [Session -> Ban]
        /\ failed' \in [Session -> SUBSET {"PlayerState", "OpsState"}]
    BY <1>0, <1>2, <1>3, <1>w DEF TypeOK
  <2> QED
    BY <1>0, <1>w, <2>2, <2>3, <2>4 DEF TypeOK, gameops
<1> QED
  BY <1>1, <1>2, <1>4, <1>5, <1>6 DEF new, Moved

LEMMA ReaderStep ==
  ASSUME IInv, NEW s \in Session, Reader(s)
  PROVE  TypeOK' /\ Alone(s) /\ Good(s)'
<1>0. /\ TypeOK /\ Good(s) /\ NoPlayer \notin Player /\ NoBan \in Ban
      /\ failed[s] \in SUBSET {"PlayerState", "OpsState"} /\ read[s] \in Ban
      /\ failed = [failed EXCEPT ![s] = failed[s]]
      /\ read = [read EXCEPT ![s] = read[s]]
      /\ now \in Int /\ began[s] \in Int
      /\ at[s] # Reading => at[s] \in Handling
  <2>1. TypeOK /\ Good(s) /\ NoPlayer \notin Player /\ NoBan \in Ban
    BY AdmissionAssumption DEF IInv, Ban
  <2>2. /\ failed[s] \in SUBSET {"PlayerState", "OpsState"} /\ read[s] \in Ban
        /\ failed = [failed EXCEPT ![s] = failed[s]]
        /\ read = [read EXCEPT ![s] = read[s]]
    BY <2>1 DEF TypeOK
  <2>3. /\ now \in Int /\ began[s] \in Int
        /\ at[s] # Reading => at[s] \in Handling
    BY <2>1, AdmissionAssumption DEF TypeOK
  <2> QED
    BY <2>1, <2>2, <2>3
<1>1. ASSUME NEW p \in Player, HandleAuth(s, p)
      PROVE  TypeOK' /\ Alone(s) /\ Good(s)'
  BY <1>1, BeginStep DEF HandleAuth
<1>2. CASE HandleEnqueue(s)
  <2>1. player[s] \in Player
    BY <1>0, <1>2 DEF HandleEnqueue, TypeOK
  <2> QED
    BY <1>2, <2>1, BeginStep DEF HandleEnqueue
<1>3. CASE BanAnswered(s)
  <2> DEFINE b == ban[at[s].player]
  <2>1. b \in Ban
    BY <1>0, <1>3 DEF BanAnswered, At, TypeOK, Handling
  <2>2. read'[s] = b /\ Within(s, "judge")
    BY <1>0, <1>3, <2>1 DEF BanAnswered, At, Steps, history, Within, TypeOK
  <2>3. TypeOK' /\ Alone(s) /\ Moved(s, "judge")
    BY <2>2, GoOnStep
  <2> QED
    BY <1>0, <1>3, <2>2, <2>3
       DEF BanAnswered, Good, Witnessed, AdmittedOK, RefusedOK, ToldOK, At, Moved
<1>4. CASE BanUnknown(s)
  <2> DEFINE step == Passed(s)
  <2>1. /\ step \in {"bind", "state"} /\ at[s] # Reading
        /\ step = "bind" => at[s].handler = "auth"
        /\ "PlayerState" \in failed'[s]
    BY <1>0, <1>4 DEF Passed, BanUnknown, At, TypeOK
  <2>2. Within(s, step)
    <3>1. failed[s] \cup {"PlayerState"} \in SUBSET {"PlayerState", "OpsState"}
      BY <1>0
    <3>2. step \in Steps
      BY <2>1 DEF Steps
    <3> HIDE DEF step
    <3> QED
      BY <1>0, <1>4, <3>1, <3>2 DEF BanUnknown, At, Within, step
  <2> HIDE DEF step
  <2>3. TypeOK' /\ Alone(s) /\ Moved(s, step)
    BY <2>2, GoOnStep
  <2> QED
    BY <1>0, <2>1, <2>3
       DEF Good, Witnessed, AdmittedOK, RefusedOK, ToldOK, At, Moved
<1>5. CASE Judge(s)
  <2> DEFINE banned == read[s].banned /\ ~(read[s].until > 0 /\ read[s].until < now)
             step == IF banned THEN "refuse" ELSE Passed(s)
  <2>1. /\ step \in {"refuse", "bind", "state"}
        /\ step = "bind" => at[s].handler = "auth"
    BY DEF Passed
  <2>2. read[s] \in bans[s] /\ began[s] <= now /\ At(s, "judge")
    BY <1>0, <1>5 DEF Judge, Good, Witnessed, At
  <2>3. step = "refuse" => Bans(read[s], began[s])
    BY <1>0, <2>1, <2>2, BanFields DEF Bans, Passed
  <2>4. step # "refuse" => ~Bans(read[s], now)
    BY <1>0, BanFields DEF Bans
  <2>5. Within(s, step)
    <3>1. step \in Steps
      BY <2>1 DEF Steps
    <3>2. GoOn(s, step) /\ failed' = failed /\ read' = [read EXCEPT ![s] = NoBan]
          /\ UNCHANGED <<gameops, began, bans, modes, player>>
      BY <1>5 DEF Judge, history
    <3> HIDE DEF step
    <3> QED
      BY <1>0, <2>2, <3>1, <3>2 DEF At, Within
  <2> HIDE DEF step
  <2>6. TypeOK' /\ Alone(s) /\ Moved(s, step)
    BY <2>5, GoOnStep
  <2> QED
    BY <1>0, <2>1, <2>2, <2>3, <2>4, <2>6
       DEF Good, Witnessed, AdmittedOK, RefusedOK, ToldOK, At, Moved
<1>6. CASE Refuse(s) \/ Return(s)
  BY <1>6, FinishStep DEF Refuse, Return
<1>7. CASE Bind(s)
  <2>1. at[s].handler = "auth" /\ failed' = failed /\ read' = read
    BY <1>0, <1>7 DEF Bind, Good, Witnessed, At, history
  <2>2. Within(s, "state")
    BY <1>0, <1>7, <2>1 DEF Bind, At, Steps, history, Within
  <2>3. TypeOK' /\ Alone(s) /\ Moved(s, "state")
    BY <2>2, GoOnStep
  <2> QED
    BY <1>0, <1>7, <2>1, <2>3
       DEF Bind, Good, Witnessed, AdmittedOK, RefusedOK, ToldOK, At, Moved
<1>8. CASE StateAnswered(s)
  <2> DEFINE step == IF Merged(Key(s)) THEN "tell" ELSE "end"
  <2>1. /\ At(s, "state") /\ switch \in modes[s] /\ failed' = failed
        /\ Key(s) = Wanted(s, switch) /\ Key(s) \in Value /\ local \in BOOLEAN
    BY <1>0, <1>8
       DEF StateAnswered, At, Good, Witnessed, Key, Wanted, TypeOK, Switches,
           history
  <2>2. /\ step \in {"tell", "end"}
        /\ step = "tell" =>
             Wanted(s, switch) = "true" \/ (Wanted(s, switch) = "absent" /\ local)
        /\ step = "end" =>
             Wanted(s, switch) = "false" \/ (Wanted(s, switch) = "absent" /\ ~local)
    BY <2>1 DEF Merged, Value
  <2>3. Within(s, step)
    <3>1. step \in Steps
      BY <2>2 DEF Steps
    <3>2. GoOn(s, step) /\ read' = read
          /\ UNCHANGED <<gameops, began, bans, modes, player>>
      BY <1>8 DEF StateAnswered, history
    <3> HIDE DEF step
    <3> QED
      BY <1>0, <2>1, <3>1, <3>2 DEF At, Within
  <2> HIDE DEF step
  <2>4. TypeOK' /\ Alone(s) /\ Moved(s, step)
    BY <2>3, GoOnStep
  <2>5. Witnessed(s)' /\ AdmittedOK(s)' /\ RefusedOK(s)'
    BY <1>0, <2>1, <2>2, <2>4 DEF Good, Witnessed, AdmittedOK, RefusedOK, At, Moved
  <2>6. ToldOK(s)'
    BY <2>1, <2>2, <2>4 DEF ToldOK, Wanted, At, Moved
  <2> QED
    BY <2>4, <2>5, <2>6 DEF Good
<1>9. CASE StateUnknown(s)
  <2> DEFINE step == IF local THEN "tell" ELSE "end"
  <2>1. /\ At(s, "state") /\ failed[s] \subseteq failed'[s]
        /\ "OpsState" \in failed'[s]
    BY <1>0, <1>9 DEF StateUnknown, At, TypeOK
  <2>2. /\ step \in {"tell", "end"}
        /\ step = "tell" => local
        /\ step = "end" => ~local
    OBVIOUS
  <2>3. Within(s, step)
    <3>1. failed[s] \cup {"OpsState"} \in SUBSET {"PlayerState", "OpsState"}
      BY <1>0
    <3>2. step \in Steps
      BY <2>2 DEF Steps
    <3>3. GoOn(s, step) /\ read' = read
          /\ failed' = [failed EXCEPT ![s] = failed[s] \cup {"OpsState"}]
          /\ UNCHANGED <<gameops, began, bans, modes, player>>
      BY <1>9 DEF StateUnknown
    <3> HIDE DEF step
    <3> QED
      BY <1>0, <2>1, <3>1, <3>2, <3>3 DEF At, Within
  <2> HIDE DEF step
  <2>4. TypeOK' /\ Alone(s) /\ Moved(s, step)
    BY <2>3, GoOnStep
  <2> QED
    BY <1>0, <2>1, <2>2, <2>4
       DEF Good, Witnessed, AdmittedOK, RefusedOK, ToldOK, At, Moved
<1> QED
  BY <1>1, <1>2, <1>3, <1>4, <1>5, <1>6, <1>7, <1>8, <1>9 DEF Reader

(* The inductive invariant holds in every reachable state.                 *)
THEOREM InductiveInvariant == Spec => []IInv
<1>1. Init => IInv
  <2> SUFFICES ASSUME Init PROVE IInv
    OBVIOUS
  <2>1. TypeOK
    <3>1. 0 \in 0..Horizon /\ 0 \in 0..MaxEdits /\ NoBan \in Ban
      BY AdmissionAssumption DEF Ban
    <3> QED
      BY <3>1 DEF Init, TypeOK, Reading
  <2>2. \A s \in Session : Good(s)
    BY DEF Init, Good, Witnessed, AdmittedOK, RefusedOK, ToldOK, At
  <2> QED
    BY <2>1, <2>2 DEF IInv
<1>2. IInv /\ [Next]_vars => IInv'
  <2> SUFFICES ASSUME IInv, [Next]_vars PROVE IInv'
    OBVIOUS
  <2>0. TypeOK /\ Horizon \in Nat /\ MaxEdits \in Nat
    BY AdmissionAssumption DEF IInv
  <2>1. ASSUME NEW s \in Session, Reader(s) PROVE IInv'
    <3>1. TypeOK' /\ Alone(s) /\ Good(s)'
      BY <2>1, ReaderStep
    <3>2. \A v \in Session \ {s} : Good(v)'
      BY <3>1, OthersStay
    <3> QED
      BY <3>1, <3>2 DEF IInv
  <2>2. ASSUME NEW p \in Player, NEW b \in Ban, SetBan(p, b) PROVE IInv'
    <3>1. TypeOK'
      BY <2>0, <2>2 DEF SetBan, Witness, TypeOK, Handling
    <3>2. \A s \in Session : Stays(s)
      BY <2>0, <2>2 DEF SetBan, Witness, TypeOK, Stays, IInv, Good, Witnessed
    <3> QED
      BY <3>1, <3>2, StaysGood DEF IInv
  <2>3. ASSUME NEW m \in Switches, SetSwitches(m) PROVE IInv'
    <3>1. TypeOK'
      BY <2>0, <2>3 DEF SetSwitches, Witness, TypeOK, Handling
    <3>2. \A s \in Session : Stays(s)
      BY <2>0, <2>3 DEF SetSwitches, Witness, TypeOK, Stays, IInv, Good, Witnessed
    <3> QED
      BY <3>1, <3>2, StaysGood DEF IInv
  <2>4. CASE Tick
    <3>1. TypeOK'
      BY <2>0, <2>4 DEF Tick, TypeOK, history
    <3>2. \A s \in Session : Stays(s)
      BY <2>0, <2>4 DEF Tick, TypeOK, history, Stays, IInv, Good, Witnessed
    <3> QED
      BY <3>1, <3>2, StaysGood DEF IInv
  <2>5. CASE UNCHANGED vars
    <3>1. TypeOK'
      BY <2>0, <2>5 DEF vars, gameops, TypeOK, history
    <3>2. \A s \in Session : Stays(s)
      BY <2>0, <2>5 DEF vars, gameops, TypeOK, history, Stays, IInv, Good, Witnessed
    <3> QED
      BY <3>1, <3>2, StaysGood DEF IInv
  <2> QED
    BY <2>1, <2>2, <2>3, <2>4, <2>5 DEF Next
<1> QED
  BY <1>1, <1>2, PTL DEF Spec

(* Types, and every enqueue is for the session's own player.               *)
THEOREM TypeCorrect == Spec => []TypeOK
<1>1. IInv => TypeOK
  BY DEF IInv
<1> QED
  BY <1>1, InductiveInvariant, PTL

(* A banned player is let in only on a ban record that had run out or      *)
(* changed since the message was taken up, or when GameOps did not answer. *)
THEOREM BannedAreKeptOut == Spec => []BannedStayOut
<1>1. IInv => BannedStayOut
  BY DEF IInv, Good, AdmittedOK, BannedStayOut
<1> QED
  BY <1>1, InductiveInvariant, PTL

(* Nobody is refused who was not banned.                                   *)
THEOREM RefusedWereBanned == Spec => []OnlyBannedRefused
<1>1. IInv => OnlyBannedRefused
  BY DEF IInv, Good, RefusedOK, OnlyBannedRefused
<1> QED
  BY <1>1, InductiveInvariant, PTL

(* No enqueue gets past a maintenance that was on all the time.            *)
THEOREM MaintenanceKept == Spec => []MaintenanceIsKept
<1>1. IInv => MaintenanceIsKept
  BY DEF IInv, Good, ToldOK, Wanted, MaintenanceIsKept
<1> QED
  BY <1>1, InductiveInvariant, PTL

(* No client is told of a maintenance that was never on.                   *)
THEOREM MaintenanceReal == Spec => []MaintenanceIsReal
<1>1. IInv => MaintenanceIsReal
  BY DEF IInv, Good, ToldOK, Wanted, MaintenanceIsReal
<1> QED
  BY <1>1, InductiveInvariant, PTL
=============================================================================
