--------------------------- MODULE SessionHostProofs ---------------------------
(***************************************************************************)
(* Proofs about SessionHost: the rooms, the channels and the tabs agree on *)
(* who is where, no question is lost between the turn, the bridge and the  *)
(* tab, and a log is taken over by one agent that continues it once, for   *)
(* every number of sockets, sessions, flows, questions and failures.       *)
(***************************************************************************)
EXTENDS SessionHost, FiniteSetTheorems, TLAPS

-----------------------------------------------------------------------------
(* The invariant.                                                          *)

(* What is not live does nothing, asks nothing and has nobody in its room.   *)
DeadIsIdle(s) == live[s] = "no" => turn[s] = "idle" /\ pend[s] = "none"
DeadIsEmpty(s) ==
  live[s] = "no" => count[s] = 0 /\ strays[s] = 0 /\ \A w \in Sockets : act[w] # On(s)

(* An adoption builds an agent only while there is none.                    *)
BuildsAlone(s) == adopt[s] = "build" => live[s] = "no"

(* A fresh id has no calls, and questions are held only of a log that is in *)
(* the agent, each of them for a call without a result.                    *)
HeldOfLog(s) ==
  /\ dangling[s] > 0 => s \in logged
  /\ held[s] <= dangling[s] /\ (pend[s] = "held" => held[s] > 0)
  /\ live[s] # "ready" => held[s] = 0

(* While questions are held the turn was not yet continued.                *)
ContinuesLater(s) == cont[s] < 2 /\ (live[s] # "ready" \/ held[s] > 0 => cont[s] = 0)

(* Unless a prompt went past it, nothing runs before the log is in the       *)
(* agent, or while a question of the log is held.                          *)
WaitsForLog(s) ==
  s \notin early =>
    /\ live[s] = "raw" => turn[s] = "idle" /\ queue[s] = 0 /\ pend[s] = "none"
    /\ live[s] = "ready" =>
         /\ held[s] = dangling[s] /\ (held[s] > 0 <=> pend[s] = "held")
         /\ held[s] > 0 => turn[s] = "idle" /\ queue[s] = 0

TurnOf(s) ==
  DeadIsIdle(s) /\ BuildsAlone(s) /\ HeldOfLog(s) /\ ContinuesLater(s) /\ WaitsForLog(s)

TurnInv == \A s \in Sessions : TurnOf(s)

(* A channel in a set is in that of a session, and unless one was removed    *)
(* from it twice the counter of a session is the size of its room.          *)
ActIsLive == \A w \in Sockets : act[w].on => act[w].s \in Sessions
RoomOf(s) == (s \notin twice => count[s] = Room(s)) /\ DeadIsEmpty(s)
RoomInv == ActIsLive /\ \A s \in Sessions : RoomOf(s)

(* The flows of a session name one.                                        *)
FlowsNamed == \A f \in flows : f.kind \in {"look", "adopt", "join", "burst", "fork"} => f.s \in Sessions

(* Only a socket that is open has a session in view, and one that was never *)
(* opened has no flow.                                                     *)
Unseen(w) ==
  /\ sock[w] # "open" => view[w] = None
  /\ sock[w] = "off" => \A f \in flows : f.w # w

(* One handler at a time, while the socket is open; its burst is of the     *)
(* session it is subscribed to.                                            *)
OneHandler(w) ==
  w \notin slipped =>
    /\ \A f, g \in flows : f.w = w /\ g.w = w => f = g
    /\ \A f \in flows : f.w = w => sock[w] = "open"
    /\ \A f \in flows : f.w = w /\ f.kind = "burst" => act[w] = On(f.s) /\ live[f.s] # "no"

(* No handler that will show another session is under way.                 *)
Shown(w) == \A f \in flows : f.w = w => f.kind \notin {"burst", "new"}

ViewAgrees(w) ==
  w \notin slipped \cup yanked /\ Shown(w) /\ view[w] # None =>
    /\ act[w] = On(view[w]) /\ view[w] \in Live
    /\ pend[view[w]] = "live" => card[w]

TabOf(w) == Unseen(w) /\ OneHandler(w) /\ ViewAgrees(w)
TabInv == \A w \in Sockets : TabOf(w)

IInv == TypeOK /\ TurnInv /\ RoomInv /\ FlowsNamed /\ TabInv

-----------------------------------------------------------------------------
(* Types.                                                                  *)

SockTypes ==
  /\ sock \in [Sockets -> {"off", "open", "closed"}]
  /\ act \in [Sockets -> [s : Sessions \cup {None}, on : BOOLEAN]]
  /\ view \in [Sockets -> Sessions \cup {None}] /\ card \in [Sockets -> BOOLEAN]
FlowTypes == flows \subseteq [w : Sockets, kind : Kinds, s : Sessions \cup {None}, up : BOOLEAN]
HostTypes ==
  /\ live \in [Sessions -> {"no", "raw", "ready"}] /\ adopt \in [Sessions -> {"no", "build", "restore"}]
  /\ count \in [Sessions -> Nat] /\ strays \in [Sessions -> Nat] /\ logged \subseteq Sessions
TurnTypes ==
  /\ turn \in [Sessions -> {"idle", "run", "ask"}] /\ queue \in [Sessions -> 0 .. MaxQueue + 1]
  /\ held \in [Sessions -> 0 .. Holds] /\ dangling \in [Sessions -> 0 .. Holds]
  /\ pend \in [Sessions -> {"none", "held", "live"}] /\ cont \in [Sessions -> 0 .. 2]
HistTypes ==
  /\ early \subseteq Sessions /\ twice \subseteq Sessions
  /\ slipped \subseteq Sockets /\ yanked \subseteq Sockets /\ troubles \in 0 .. MaxTroubles

LEMMA TypeParts ==
  /\ TypeOK <=> SockTypes /\ FlowTypes /\ HostTypes /\ TurnTypes /\ HistTypes
  /\ TypeOK' <=> SockTypes' /\ FlowTypes' /\ HostTypes' /\ TurnTypes' /\ HistTypes'
  BY DEF TypeOK, SockTypes, FlowTypes, HostTypes, TurnTypes, HistTypes

(* The sets of sockets are finite.                                         *)
LEMMA FiniteSockets ==
  ASSUME NEW S \in SUBSET Sockets
  PROVE  IsFiniteSet(S) /\ Cardinality(S) \in Nat
  BY HostAssumption, FS_Subset, FS_CardinalityType DEF HostAssumption

LEMMA Frame ==
  /\ SockTypes /\ UNCHANGED <<sock, act, view, card>> => SockTypes'
  /\ FlowTypes /\ UNCHANGED flows => FlowTypes'
  /\ HostTypes /\ UNCHANGED hostVars => HostTypes'
  /\ TurnTypes /\ UNCHANGED turnVars => TurnTypes'
  BY DEF SockTypes, FlowTypes, HostTypes, TurnTypes, hostVars, turnVars

LEMMA CountAfterType ==
  ASSUME TypeOK, NEW ws \in SUBSET Sockets, NEW s \in Sessions \cup {None}
  PROVE  CountAfter(ws, s) \in [Sessions -> Nat] /\ GoneTwice(ws) \subseteq Sessions
<1>1. GoneTwice(ws) \subseteq Sessions
  BY DEF GoneTwice, Live
<1>2. ASSUME NEW t \in Sessions PROVE Leavers(ws, t) \in Nat
  BY FiniteSockets, {w \in ws : act[w].s = t} \in SUBSET Sockets DEF Leavers
<1>3. Cardinality(ws) \in Nat /\ \A t \in Sessions : count[t] \in Nat
  BY FiniteSockets DEF TypeOK
<1>4. ASSUME NEW t \in Sessions
      PROVE CountDown(count[t], Leavers(ws, t)) + (IF t = s THEN Cardinality(ws) ELSE 0) \in Nat
  BY <1>2, <1>3 DEF CountDown
<1> QED
  BY <1>1, <1>4 DEF CountAfter

LEMMA JoinTypes ==
  ASSUME TypeOK, NEW ws \in SUBSET Sockets, NEW s \in Sessions, Join(ws, s)
  PROVE  /\ act' \in [Sockets -> [s : Sessions \cup {None}, on : BOOLEAN]]
         /\ count' \in [Sessions -> Nat] /\ strays' \in [Sessions -> Nat]
         /\ twice' \subseteq Sessions
<1>1. On(s) \in [s : Sessions \cup {None}, on : BOOLEAN]
  BY DEF On
<1>2. act' \in [Sockets -> [s : Sessions \cup {None}, on : BOOLEAN]]
  BY <1>1 DEF Join, TypeOK
<1> QED
  BY <1>2, CountAfterType DEF Join, TypeOK

LEMMA LeaveTypes ==
  ASSUME TypeOK, NEW w \in Sockets, Leave(w)
  PROVE  /\ act' \in [Sockets -> [s : Sessions \cup {None}, on : BOOLEAN]]
         /\ count' \in [Sessions -> Nat] /\ strays' \in [Sessions -> Nat]
         /\ twice' \subseteq Sessions
<1>1. {w} \in SUBSET Sockets /\ None \in Sessions \cup {None}
  OBVIOUS
<1>2. act[w] \in [s : Sessions \cup {None}, on : BOOLEAN]
  BY DEF TypeOK
<1>3. [act[w] EXCEPT !.on = FALSE] \in [s : Sessions \cup {None}, on : BOOLEAN]
  BY <1>2
<1>4. act' \in [Sockets -> [s : Sessions \cup {None}, on : BOOLEAN]]
  BY <1>3 DEF Leave, TypeOK
<1> QED
  BY <1>1, <1>4, CountAfterType DEF Leave, TypeOK

LEMMA OverwriteTypes ==
  ASSUME TypeOK, ActIsLive, NEW w \in Sockets, NEW s \in Sessions, Overwrite(w, s)
  PROVE  /\ act' \in [Sockets -> [s : Sessions \cup {None}, on : BOOLEAN]]
         /\ count' \in [Sessions -> Nat] /\ strays' \in [Sessions -> Nat]
         /\ twice' \subseteq Sessions
<1>1. On(s) \in [s : Sessions \cup {None}, on : BOOLEAN]
  BY DEF On
<1>2. act' \in [Sockets -> [s : Sessions \cup {None}, on : BOOLEAN]]
  BY <1>1 DEF Overwrite, TypeOK
<1>3. strays' \in [Sessions -> Nat]
  BY DEF Overwrite, TypeOK, ActIsLive
<1> QED
  BY <1>2, <1>3 DEF Overwrite, TypeOK

LEMMA ShowsTypes ==
  ASSUME TypeOK, NEW ws \in SUBSET Sockets, NEW s \in Sessions, NEW asked \in BOOLEAN, Shows(ws, s, asked)
  PROVE  view' \in [Sockets -> Sessions \cup {None}] /\ card' \in [Sockets -> BOOLEAN]
  BY DEF Shows, TypeOK

LEMMA BeginsTypes ==
  ASSUME TypeOK, NEW w \in Sockets, NEW kind \in Kinds, NEW s \in Sessions \cup {None},
         NEW up \in BOOLEAN, Begins(w, kind, s, up)
  PROVE  FlowTypes' /\ slipped' \subseteq Sockets
<1>1. Flow(w, kind, s, up) \in [w : Sockets, kind : Kinds, s : Sessions \cup {None}, up : BOOLEAN]
  BY DEF Flow
<1> QED
  BY <1>1 DEF Begins, FlowTypes, TypeOK

LEMMA BecomesTypes ==
  ASSUME TypeOK, NEW f \in flows, NEW kind \in Kinds, NEW s \in Sessions \cup {None}, Becomes(f, kind, s)
  PROVE  FlowTypes'
<1>1. f \in [w : Sockets, kind : Kinds, s : Sessions \cup {None}, up : BOOLEAN]
  BY DEF TypeOK
<1>2. [f EXCEPT !.kind = kind, !.s = s] \in [w : Sockets, kind : Kinds, s : Sessions \cup {None}, up : BOOLEAN]
  BY <1>1
<1> QED
  BY <1>2 DEF Becomes, FlowTypes, TypeOK

LEMMA AttachTypes ==
  ASSUME TypeOK, NEW w \in Sockets, NEW s \in Sessions, NEW up \in BOOLEAN, Attach(w, s, up)
  PROVE  /\ act' \in [Sockets -> [s : Sessions \cup {None}, on : BOOLEAN]]
         /\ view' = view /\ card' = card /\ FlowTypes' /\ HostTypes' /\ TurnTypes'
         /\ early' \subseteq Sessions /\ twice' \subseteq Sessions /\ slipped' \subseteq Sockets
         /\ yanked' \subseteq Sockets
<1>1. Join({w}, s) /\ Begins(w, "burst", s, up) /\ "burst" \in Kinds /\ {w} \in SUBSET Sockets
  BY DEF Attach, Kinds
<1>2. FlowTypes' /\ slipped' \subseteq Sockets
  BY <1>1, BeginsTypes, s \in Sessions \cup {None}
<1>3. TurnTypes'
  BY TypeParts, Frame DEF Attach, NoTurnChange
<1> QED
  BY <1>1, <1>2, <1>3, JoinTypes DEF Attach, NoTurnChange, TypeOK, HostTypes

LEMMA ResumeTypes ==
  ASSUME TypeOK, NEW w \in Sockets, NEW s \in Sessions, NEW up \in BOOLEAN, Resume(w, s, up)
  PROVE  /\ act' \in [Sockets -> [s : Sessions \cup {None}, on : BOOLEAN]]
         /\ view' = view /\ card' = card /\ FlowTypes' /\ HostTypes' /\ TurnTypes'
         /\ early' \subseteq Sessions /\ twice' \subseteq Sessions /\ slipped' \subseteq Sockets
         /\ yanked' \subseteq Sockets
<1>1. CASE Attach(w, s, up)
  BY <1>1, AttachTypes
<1>2. CASE live[s] = "no" /\ Begins(w, "look", s, up)
           /\ UNCHANGED <<act, view, card, hostVars, yanked, twice>> /\ NoTurnChange
  <2>1. FlowTypes' /\ slipped' \subseteq Sockets
    BY <1>2, BeginsTypes, s \in Sessions \cup {None}, "look" \in Kinds DEF Kinds
  <2>2. TurnTypes' /\ HostTypes'
    BY <1>2, TypeParts, Frame DEF NoTurnChange
  <2> QED
    BY <1>2, <2>1, <2>2 DEF NoTurnChange, TypeOK
<1> QED
  BY <1>1, <1>2 DEF Resume

LEMMA TroubleTypes ==
  ASSUME TypeOK, Strike \/ UNCHANGED troubles
  PROVE  troubles' \in 0 .. MaxTroubles
  BY HostAssumption DEF HostAssumption, Strike, TypeOK

(* The steps by which a handler starts.                                    *)
LEMMA StartTypes ==
  ASSUME TypeOK, ActIsLive, NEW w \in Sockets,
         Connect(w) \/ SwitchSession(w) \/ LoadLog(w) \/ CreateSession(w) \/ Fork(w) \/ Close(w)
  PROVE  TypeOK'
<1>0. None \in Sessions \cup {None} /\ Kinds = {"look", "adopt", "join", "burst", "fresh", "new", "fork", "fall"}
  BY DEF Kinds
<1>1. CASE Connect(w)
  <2>1. sock' \in [Sockets -> {"off", "open", "closed"}] /\ UNCHANGED troubles
    BY <1>1 DEF Connect, TypeOK
  <2>2. CASE \E s \in logged : Resume(w, s, TRUE)
    BY <2>1, <2>2, ResumeTypes, TypeParts, TroubleTypes DEF SockTypes, HistTypes, TypeOK
  <2>3. CASE \E s \in Live : Attach(w, s, TRUE)
    BY <2>1, <2>3, AttachTypes, TypeParts, TroubleTypes DEF SockTypes, HistTypes, TypeOK, Live
  <2>4. CASE Begins(w, "fresh", None, TRUE)
             /\ UNCHANGED <<act, view, card, hostVars, yanked, twice>> /\ NoTurnChange
    <3>1. FlowTypes' /\ slipped' \subseteq Sockets
      BY <1>0, <2>4, BeginsTypes
    <3>2. HostTypes' /\ TurnTypes'
      BY <2>4, TypeParts, Frame DEF NoTurnChange
    <3> QED
      BY <2>1, <2>4, <3>1, <3>2, TypeParts, TroubleTypes DEF SockTypes, HistTypes, TypeOK, NoTurnChange
  <2> QED
    BY <1>1, <2>2, <2>3, <2>4 DEF Connect
<1>2. CASE SwitchSession(w)
  <2>1. PICK s \in Sessions : Attach(w, s, FALSE)
    BY <1>2 DEF SwitchSession
  <2>2. UNCHANGED sock /\ Strike
    BY <1>2 DEF SwitchSession
  <2> QED
    BY <2>1, <2>2, AttachTypes, TypeParts, TroubleTypes DEF SockTypes, HistTypes, TypeOK
<1>3. CASE LoadLog(w)
  <2>1. PICK s \in Sessions : Resume(w, s, FALSE)
    BY <1>3 DEF LoadLog, TypeOK
  <2>2. UNCHANGED sock /\ Strike
    BY <1>3 DEF LoadLog
  <2> QED
    BY <2>1, <2>2, ResumeTypes, TypeParts, TroubleTypes DEF SockTypes, HistTypes, TypeOK
<1>4. CASE CreateSession(w)
  <2>1. Begins(w, "new", None, FALSE) /\ Leave(w) /\ Strike
    BY <1>4 DEF CreateSession
  <2>2. FlowTypes' /\ slipped' \subseteq Sockets
    BY <1>0, <2>1, BeginsTypes
  <2>3. TurnTypes'
    BY <1>4, TypeParts, Frame DEF CreateSession
  <2> QED
    BY <1>4, <2>1, <2>2, <2>3, LeaveTypes, TypeParts, TroubleTypes
    DEF CreateSession, SockTypes, HistTypes, HostTypes, TypeOK
<1>5. CASE Fork(w)
  <2>1. Begins(w, "fork", view[w], FALSE) /\ Strike /\ view[w] \in Sessions \cup {None}
    BY <1>5 DEF Fork, TypeOK
  <2>2. FlowTypes' /\ slipped' \subseteq Sockets
    BY <1>0, <2>1, BeginsTypes
  <2>3. TurnTypes' /\ HostTypes'
    BY <1>5, TypeParts, Frame DEF Fork
  <2> QED
    BY <1>5, <2>1, <2>2, <2>3, TypeParts, TroubleTypes DEF Fork, SockTypes, HistTypes, TypeOK
<1>6. CASE Close(w)
  <2>1. Leave(w) /\ Strike
    BY <1>6 DEF Close
  <2>2. FlowTypes' /\ TurnTypes'
    BY <1>6, TypeParts, Frame DEF Close
  <2> QED
    BY <1>6, <2>1, <2>2, LeaveTypes, TypeParts, TroubleTypes
    DEF Close, SockTypes, HistTypes, HostTypes, TypeOK
<1> QED
  BY <1>1, <1>2, <1>3, <1>4, <1>5, <1>6

(* The steps of a flow.                                                    *)
LEMMA FlowStepTypes ==
  ASSUME TypeOK, ActIsLive, FlowsNamed, NEW f \in flows,
         \/ Burst(f) \/ Looked(f) \/ Refused(f) \/ Fall(f) \/ CreateFails(f)
         \/ \E s \in Sessions : FreshDone(f, s) \/ NewDone(f, s)
  PROVE  TypeOK'
<1>0. /\ None \in Sessions \cup {None} /\ f.w \in Sockets /\ {f.w} \in SUBSET Sockets
      /\ f.s \in Sessions \cup {None}
      /\ Kinds = {"look", "adopt", "join", "burst", "fresh", "new", "fork", "fall"}
      /\ flows \ {f} \subseteq [w : Sockets, kind : Kinds, s : Sessions \cup {None}, up : BOOLEAN]
  BY DEF Kinds, TypeOK
<1>a. f.kind \in {"look", "adopt", "join", "burst", "fork"} => f.s \in Sessions /\ Asked(f.s) \in BOOLEAN
  BY DEF FlowsNamed, Asked
<1>1. CASE Burst(f)
  <2>1. f.s \in Sessions /\ Asked(f.s) \in BOOLEAN /\ Shows({f.w}, f.s, Asked(f.s))
    BY <1>a, <1>1 DEF Burst
  <2>2. HostTypes' /\ TurnTypes'
    BY <1>1, TypeParts, Frame DEF Burst
  <2>3. view' \in [Sockets -> Sessions \cup {None}] /\ card' \in [Sockets -> BOOLEAN]
    BY <1>0, <2>1, ShowsTypes
  <2>4. flows' = flows \ {f} /\ UNCHANGED <<sock, act, historyVars, troubles>>
    BY <1>1 DEF Burst
  <2> QED
    BY <1>0, <2>2, <2>3, <2>4, TypeParts DEF SockTypes, FlowTypes, HistTypes, TypeOK, historyVars
<1>2. CASE Looked(f)
  <2>0. f.s \in Sessions /\ Asked(f.s) \in BOOLEAN
    BY <1>a, <1>2 DEF Looked
  <2>t. /\ TurnTypes' /\ UNCHANGED <<sock, early, slipped, yanked, troubles>>
    BY <1>2, TypeParts, Frame DEF Looked
  <2>1. CASE Becomes(f, "join", f.s) /\ UNCHANGED <<act, view, card, hostVars, twice>>
    <3>1. FlowTypes' /\ HostTypes'
      BY <1>0, <2>1, BecomesTypes, TypeParts, Frame
    <3> QED
      BY <2>1, <3>1, <2>t, TypeParts DEF SockTypes, HistTypes, TypeOK
  <2>2. CASE /\ flows' = flows \ {f} /\ Join({f.w}, f.s) /\ Shows({f.w}, f.s, Asked(f.s))
             /\ UNCHANGED <<live, adopt, logged>>
    <3>1. view' \in [Sockets -> Sessions \cup {None}] /\ card' \in [Sockets -> BOOLEAN]
      BY <1>0, <2>0, <2>2, ShowsTypes
    <3>2. /\ act' \in [Sockets -> [s : Sessions \cup {None}, on : BOOLEAN]] /\ HostTypes'
          /\ twice' \subseteq Sessions
      BY <1>0, <2>0, <2>2, JoinTypes DEF HostTypes, TypeOK
    <3> QED
      BY <1>0, <2>2, <3>1, <3>2, <2>t, TypeParts DEF SockTypes, FlowTypes, HistTypes, TypeOK
  <2>3. CASE /\ Becomes(f, "adopt", f.s) /\ adopt' = [adopt EXCEPT ![f.s] = "build"]
             /\ UNCHANGED <<act, view, card, live, count, strays, logged, twice>>
    <3>1. FlowTypes'
      BY <1>0, <2>3, BecomesTypes
    <3> QED
      BY <2>3, <3>1, <2>t, TypeParts DEF SockTypes, HistTypes, HostTypes, TypeOK
  <2> QED
    BY <1>2, <2>1, <2>2, <2>3 DEF Looked
<1>3. CASE Refused(f)
  <2>1. FlowTypes' /\ HostTypes' /\ TurnTypes' /\ troubles' \in 0 .. MaxTroubles
    BY <1>0, <1>3, BecomesTypes, TypeParts, Frame, TroubleTypes DEF Refused
  <2> QED
    BY <1>3, <2>1, TypeParts DEF Refused, SockTypes, HistTypes, TypeOK, historyVars
<1>4. CASE Fall(f)
  <2>t. /\ TurnTypes' /\ UNCHANGED <<sock, early, slipped, yanked, troubles, view, card, live, adopt, logged>>
    BY <1>4, TypeParts, Frame DEF Fall
  <2>1. CASE \E s \in Live : Join({f.w}, s) /\ Becomes(f, "burst", s)
    <3>1. PICK s \in Sessions : Join({f.w}, s) /\ Becomes(f, "burst", s)
      BY <2>1 DEF Live
    <3>2. FlowTypes'
      BY <1>0, <3>1, BecomesTypes
    <3> QED
      BY <1>0, <2>t, <3>1, <3>2, JoinTypes, TypeParts DEF SockTypes, HistTypes, HostTypes, TypeOK
  <2>2. CASE Becomes(f, "fresh", None) /\ UNCHANGED <<act, count, strays, twice>>
    <3>2. FlowTypes'
      BY <1>0, <2>2, BecomesTypes
    <3> QED
      BY <2>t, <2>2, <3>2, TypeParts DEF SockTypes, HistTypes, HostTypes, TypeOK
  <2> QED
    BY <1>4, <2>1, <2>2 DEF Fall
<1>5. CASE CreateFails(f)
  <2>t. /\ TurnTypes' /\ UNCHANGED <<live, adopt, logged, early, yanked>> /\ flows' = flows \ {f}
        /\ troubles' \in 0 .. MaxTroubles /\ slipped' \subseteq Sockets
    BY <1>0, <1>5, TypeParts, Frame, TroubleTypes DEF CreateFails, TypeOK
  <2>1. CASE /\ sock' = [sock EXCEPT ![f.w] = "closed"] /\ Leave(f.w)
             /\ view' = [view EXCEPT ![f.w] = None] /\ card' = [card EXCEPT ![f.w] = FALSE]
    BY <1>0, <2>t, <2>1, LeaveTypes, TypeParts DEF SockTypes, FlowTypes, HistTypes, HostTypes, TypeOK
  <2>2. CASE UNCHANGED <<sock, act, count, strays, twice, view, card>>
    BY <1>0, <2>t, <2>2, TypeParts DEF SockTypes, FlowTypes, HistTypes, HostTypes, TypeOK
  <2> QED
    BY <1>5, <2>1, <2>2 DEF CreateFails
<1>6. ASSUME NEW s \in Sessions, FreshDone(f, s) PROVE TypeOK'
  <2>1. /\ Overwrite(f.w, s) /\ Shows({f.w}, s, FALSE) /\ Registers(s) /\ flows' = flows \ {f}
        /\ UNCHANGED <<sock, dangling, early, slipped, yanked, troubles>>
    BY <1>6 DEF FreshDone
  <2>2. TurnTypes' /\ live' \in [Sessions -> {"no", "raw", "ready"}] /\ logged' \subseteq Sessions /\ UNCHANGED adopt
    BY <2>1, HostAssumption DEF TurnTypes, Registers, TypeOK, HostAssumption
  <2> QED
    BY <1>0, <2>1, <2>2, OverwriteTypes, ShowsTypes, TypeParts DEF SockTypes, FlowTypes, HistTypes, HostTypes, TypeOK
<1>7. ASSUME NEW s \in Sessions, NewDone(f, s) PROVE TypeOK'
  <2>1. /\ Shows(Open, s, FALSE) /\ Registers(s) /\ flows' = flows \ {f} /\ UNCHANGED <<sock, slipped, troubles>>
        /\ Open \in SUBSET Sockets /\ (Overwrite(f.w, s) \/ Join({f.w}, s))
        /\ early' \subseteq Sessions /\ yanked' \subseteq Sockets
    BY <1>7 DEF NewDone, Open, TypeOK
  <2>2. dangling' \in [Sessions -> 0 .. Holds]
    BY <1>a, <1>7 DEF NewDone, TypeOK
  <2>3. /\ live' \in [Sessions -> {"no", "raw", "ready"}] /\ logged' \subseteq Sessions /\ UNCHANGED adopt
        /\ turn' \in [Sessions -> {"idle", "run", "ask"}] /\ queue' \in [Sessions -> 0 .. MaxQueue + 1]
        /\ cont' \in [Sessions -> 0 .. 2] /\ UNCHANGED <<held, pend>>
    BY <2>1, HostAssumption DEF Registers, TypeOK, HostAssumption
  <2>4. TurnTypes'
    BY <2>2, <2>3 DEF TurnTypes, TypeOK
  <2>5. view' \in [Sockets -> Sessions \cup {None}] /\ card' \in [Sockets -> BOOLEAN]
    BY <2>1 DEF Shows, TypeOK
  <2>6. /\ act' \in [Sockets -> [s : Sessions \cup {None}, on : BOOLEAN]]
        /\ count' \in [Sessions -> Nat] /\ strays' \in [Sessions -> Nat] /\ twice' \subseteq Sessions
    BY <1>0, <2>1, OverwriteTypes, JoinTypes
  <2> QED
    BY <1>0, <2>1, <2>3, <2>4, <2>5, <2>6, TypeParts
    DEF SockTypes, FlowTypes, HistTypes, HostTypes, TypeOK
<1> QED
  BY <1>1, <1>2, <1>3, <1>4, <1>5, <1>6, <1>7

LEMMA ContinuesTypes ==
  ASSUME TypeOK, NEW s \in Sessions, queue[s] < MaxQueue, Continues(s, 1)
  PROVE  queue' \in [Sessions -> 0 .. MaxQueue + 1] /\ cont' \in [Sessions -> 0 .. 2]
<1>1. queue[s] \in 0 .. MaxQueue + 1 /\ cont[s] \in 0 .. 2 /\ MaxQueue \in Nat
  BY HostAssumption DEF TypeOK, HostAssumption
<1>2. queue[s] + 1 \in 0 .. MaxQueue + 1 /\ (IF cont[s] + 1 > 2 THEN 2 ELSE cont[s] + 1) \in 0 .. 2
  BY <1>1
<1> QED
  BY <1>2 DEF Continues, TypeOK

(* The steps of an adoption.                                               *)
LEMMA AdoptionTypes ==
  ASSUME TypeOK, NEW s \in Sessions, Built(s) \/ AdoptFails(s) \/ Restored(s) \/ RestoredGone(s)
  PROVE  TypeOK'
<1>0. ASSUME NEW g \in flows PROVE g.w \in Sockets
  BY DEF TypeOK
<1>a. Kinds = {"look", "adopt", "join", "burst", "fresh", "new", "fork", "fall"} /\ Adopters(s) \subseteq flows
  BY DEF Kinds, Adopters
<1>b. ASSUME NEW G \in SUBSET flows, flows' = (flows \ Adopters(s)) \cup {Flow(g.w, "fall", None, TRUE) : g \in G}
      PROVE FlowTypes'
  <2>1. \A g \in G : Flow(g.w, "fall", None, TRUE) \in [w : Sockets, kind : Kinds, s : Sessions \cup {None}, up : BOOLEAN]
    BY <1>0, <1>a DEF Flow
  <2>2. flows \subseteq [w : Sockets, kind : Kinds, s : Sessions \cup {None}, up : BOOLEAN]
    BY DEF TypeOK
  <2> QED
    BY <1>b, <2>1, <2>2 DEF FlowTypes
<1>1. CASE Built(s)
  <2>1. HostTypes'
    BY <1>1 DEF Built, HostTypes, TypeOK
  <2>2. TurnTypes'
    BY <1>1, HostAssumption DEF Built, TurnTypes, TypeOK, HostAssumption
  <2> QED
    BY <1>1, <2>1, <2>2, TypeParts DEF Built, SockTypes, FlowTypes, HistTypes, TypeOK, socketVars, historyVars
<1>2. CASE AdoptFails(s)
  <2>1. {g \in Adopters(s) : g.up} \in SUBSET flows
    BY <1>a
  <2>2. FlowTypes'
    BY <1>2, <2>1, <1>b DEF AdoptFails
  <2>3. TurnTypes' /\ troubles' \in 0 .. MaxTroubles
    BY <1>2, TypeParts, Frame, TroubleTypes DEF AdoptFails
  <2> QED
    BY <1>2, <2>2, <2>3, TypeParts DEF AdoptFails, SockTypes, HistTypes, HostTypes, TypeOK, historyVars
<1>3. CASE Restored(s)
  <2> DEFINE ws == {g.w : g \in Adopters(s)}
             first == {g.w : g \in {h \in Adopters(s) : h.kind = "adopt"}}
  <2>1. /\ Join(ws, s) /\ flows' = flows \ Adopters(s) /\ ws \in SUBSET Sockets
        /\ adopt' = [adopt EXCEPT ![s] = "no"] /\ live' = [live EXCEPT ![s] = "ready"]
        /\ UNCHANGED <<sock, logged, dangling, early, slipped, yanked, troubles>>
    BY <1>0, <1>3, <1>a DEF Restored
  <2>2. view' = [w \in Sockets |-> IF w \in ws \cap Open THEN s ELSE view[w]]
    BY <1>3 DEF Restored
  <2>3. card' = [w \in Sockets |->
                  IF w \in ws \cap Open THEN Asked(s) \/ (w \in first /\ dangling[s] > 0) ELSE card[w]]
    BY <1>3 DEF Restored
  <2>4. view' \in [Sockets -> Sessions \cup {None}] /\ card' \in [Sockets -> BOOLEAN]
    BY <2>2, <2>3 DEF TypeOK, Asked
  <2>5. HostTypes' /\ act' \in [Sockets -> [s : Sessions \cup {None}, on : BOOLEAN]] /\ twice' \subseteq Sessions
    BY <2>1, JoinTypes DEF HostTypes, TypeOK
  <2>6. TurnTypes'
    <3>1. CASE Injects(s) /\ UNCHANGED <<queue, cont>>
      BY <2>1, <3>1 DEF Injects, TurnTypes, TypeOK
    <3>2. CASE queue[s] < MaxQueue /\ Continues(s, Continuations(s)) /\ UNCHANGED <<turn, held, pend>>
      BY <2>1, <3>2, ContinuesTypes DEF Continuations, TurnTypes, TypeOK
    <3>3. CASE UNCHANGED <<turn, queue, cont, held, pend>>
      BY <2>1, <3>3 DEF TurnTypes, TypeOK
    <3> QED
      BY <1>3, <3>1, <3>2, <3>3 DEF Restored
  <2>7. FlowTypes'
    BY <2>1 DEF FlowTypes, TypeOK
  <2> QED
    BY <2>1, <2>4, <2>5, <2>6, <2>7, TypeParts DEF SockTypes, HistTypes, TypeOK
<1>4. CASE RestoredGone(s)
  <2>1. Adopters(s) \in SUBSET flows
    BY <1>a
  <2>2. FlowTypes'
    BY <1>4, <2>1, <1>b DEF RestoredGone
  <2>3. TurnTypes'
    BY <1>4, TypeParts, Frame DEF RestoredGone
  <2> QED
    BY <1>4, <2>2, <2>3, TypeParts DEF RestoredGone, SockTypes, HistTypes, HostTypes, TypeOK, historyVars
<1> QED
  BY <1>1, <1>2, <1>3, <1>4

(* The end of a session.                                                   *)
LEMMA EndTypes ==
  ASSUME TypeOK, NEW s \in Sessions, (\E w \in Sockets : Delete(w, s)) \/ Reap(s)
  PROVE  TypeOK'
<1>1. Gone(s) /\ Strike
  BY DEF Delete, Reap
<1>2. HostTypes'
  BY <1>1 DEF Gone, RoomAfter, HostTypes, TypeOK
<1>3. TurnTypes'
  BY <1>1, HostAssumption DEF Gone, TurnTypes, TypeOK, HostAssumption
<1>4. ASSUME NEW w \in Sockets PROVE [act[w] EXCEPT !.on = FALSE] \in [s : Sessions \cup {None}, on : BOOLEAN]
  <2>1. act[w] \in [s : Sessions \cup {None}, on : BOOLEAN]
    BY DEF TypeOK
  <2> QED
    BY <2>1
<1>5. act' \in [Sockets -> [s : Sessions \cup {None}, on : BOOLEAN]]
  BY <1>1, <1>4 DEF Gone, TypeOK
<1>6. Bursting(s) \subseteq Sockets
  BY DEF Bursting, TypeOK
<1>7. /\ view' \in [Sockets -> Sessions \cup {None}] /\ card' \in [Sockets -> BOOLEAN]
      /\ slipped' \subseteq Sockets
  BY <1>6 DEF Delete, Reap, Told, TypeOK
<1>8. FlowTypes' /\ troubles' \in 0 .. MaxTroubles
  BY <1>1, TypeParts, Frame, TroubleTypes DEF Gone
<1> QED
  BY <1>1, <1>2, <1>3, <1>5, <1>7, <1>8, TypeParts DEF Gone, SockTypes, HistTypes, TypeOK

(* The steps of turns and questions touch neither sockets nor rooms.        *)
TurnTouches ==
  /\ UNCHANGED <<sock, act, flows, view, live, adopt, count, strays, logged>>
  /\ UNCHANGED <<twice, slipped, yanked, troubles>>

LEMMA TurnStepTypes ==
  ASSUME TypeOK, TurnTouches, TurnTypes', card' \in [Sockets -> BOOLEAN], early' \subseteq Sessions
  PROVE  TypeOK'
  BY TypeParts DEF TurnTouches, SockTypes, FlowTypes, HostTypes, HistTypes, TypeOK

LEMMA CardTypes ==
  ASSUME TypeOK, NEW s, NEW shown \in BOOLEAN, Cards(s, shown) \/ UNCHANGED card
  PROVE  card' \in [Sockets -> BOOLEAN]
  BY DEF Cards, TypeOK

(* The held calls are calls of the log.                                    *)
HeldFits == \A s \in Sessions : held[s] <= dangling[s] /\ (pend[s] = "held" => held[s] > 0)

LEMMA TurnActionTypes ==
  ASSUME TypeOK, HeldFits,
         \/ \E w \in Sockets : Send(w) \/ Command(w) \/ Answer(w) \/ Cancel(w)
         \/ \E s \in Sessions : TurnStarts(s) \/ TurnEnds(s) \/ Ask(s) \/ Expire(s)
  PROVE  TypeOK' /\ TurnTouches
<1>0. \A s \in Live : s \in Sessions
  BY DEF Live
<1>1. ASSUME NEW w \in Sockets, Send(w) PROVE TypeOK' /\ TurnTouches
  <2> DEFINE s == view[w]
  <2>1. s \in Sessions /\ Dismisses(s) /\ Enqueues(s) /\ TurnTouches /\ early' \subseteq Sessions
    BY <1>0, <1>1 DEF Send, NoSocketChange, TurnTouches, Enqueues, TypeOK
  <2> HIDE DEF s
  <2>2. TurnTypes'
    <3>1. queue[s] + 1 \in 0 .. MaxQueue + 1 /\ dangling[s] - held[s] \in 0 .. Holds /\ 0 \in 0 .. Holds
      <4>1. /\ queue[s] \in 0 .. MaxQueue + 1 /\ queue[s] < MaxQueue /\ MaxQueue \in Nat /\ Holds \in Nat
            /\ dangling[s] \in 0 .. Holds /\ held[s] \in 0 .. Holds /\ held[s] <= dangling[s]
        BY <2>1, HostAssumption DEF Enqueues, TypeOK, HeldFits, HostAssumption
      <4> QED
        BY <4>1
    <3>2. queue' \in [Sessions -> 0 .. MaxQueue + 1] /\ UNCHANGED <<turn, cont>>
      BY <2>1, <3>1 DEF Enqueues, TypeOK
    <3>3. /\ held' \in [Sessions -> 0 .. Holds] /\ dangling' \in [Sessions -> 0 .. Holds]
          /\ pend' \in [Sessions -> {"none", "held", "live"}]
      <4>1. CASE held[s] = 0
        BY <2>1, <4>1 DEF Dismisses, TypeOK
      <4>2. CASE held[s] # 0
        <5>1. /\ held' = [held EXCEPT ![s] = 0] /\ pend' = [pend EXCEPT ![s] = "none"]
              /\ dangling' = [dangling EXCEPT ![s] = dangling[s] - held[s]]
          BY <2>1, <4>2 DEF Dismisses
        <5>2. /\ held \in [Sessions -> 0 .. Holds] /\ dangling \in [Sessions -> 0 .. Holds]
              /\ pend \in [Sessions -> {"none", "held", "live"}]
          BY DEF TypeOK
        <5> QED
          BY <3>1, <5>1, <5>2
      <4> QED
        BY <4>1, <4>2
    <3> QED
      BY <3>2, <3>3 DEF TurnTypes, TypeOK
  <2>3. card' \in [Sockets -> BOOLEAN]
    BY <2>1, CardTypes DEF Dismisses
  <2> QED
    BY <2>1, <2>2, <2>3, TurnStepTypes
<1>2. ASSUME NEW w \in Sockets, Command(w) PROVE TypeOK' /\ TurnTouches
  <2> DEFINE s == view[w]
  <2>1. /\ s \in Sessions /\ UNCHANGED <<held, pend, dangling, card>> /\ Enqueues(s) /\ TurnTouches
        /\ early' \subseteq Sessions
    BY <1>0, <1>2 DEF Command, NoSocketChange, TurnTouches, Enqueues, TypeOK
  <2> HIDE DEF s
  <2>2. TurnTypes'
    BY <2>1, HostAssumption DEF Enqueues, TurnTypes, TypeOK, HostAssumption
  <2>3. card' \in [Sockets -> BOOLEAN]
    BY <2>1 DEF TypeOK
  <2> QED
    BY <2>1, <2>2, <2>3, TurnStepTypes
<1>a. ASSUME NEW s \in Sessions, ResultLands(s), pend[s] = "held"
      PROVE /\ held' \in [Sessions -> 0 .. Holds] /\ dangling' \in [Sessions -> 0 .. Holds]
            /\ queue' \in [Sessions -> 0 .. MaxQueue + 1] /\ cont' \in [Sessions -> 0 .. 2]
  <2>1. /\ held[s] \in 0 .. Holds /\ dangling[s] \in 0 .. Holds /\ Holds \in Nat
        /\ held[s] > 0 /\ held[s] <= dangling[s]
    BY <1>a, HostAssumption DEF HeldFits, TypeOK, HostAssumption
  <2>2. held[s] - 1 \in 0 .. Holds /\ dangling[s] - 1 \in 0 .. Holds
    BY <2>1
  <2>3. held' \in [Sessions -> 0 .. Holds] /\ dangling' \in [Sessions -> 0 .. Holds]
    BY <1>a, <2>2 DEF ResultLands, TypeOK
  <2>4. CASE UNCHANGED <<queue, cont>>
    BY <2>3, <2>4 DEF TypeOK
  <2>5. CASE queue[s] < MaxQueue /\ Continues(s, 1)
    BY <2>3, <2>5, ContinuesTypes
  <2> QED
    BY <1>a, <2>4, <2>5 DEF ResultLands
<1>b. ASSUME NEW s \in Sessions, HeldResolves(s) \/ LiveResolves(s)
      PROVE /\ held' \in [Sessions -> 0 .. Holds] /\ dangling' \in [Sessions -> 0 .. Holds]
            /\ queue' \in [Sessions -> 0 .. MaxQueue + 1] /\ cont' \in [Sessions -> 0 .. 2]
            /\ pend' \in [Sessions -> {"none", "held", "live"}]
  BY <1>a, <1>b DEF HeldResolves, LiveResolves, TypeOK
<1>c. ASSUME NEW s \in Sessions, NEW next \in {"run", "idle"}, Turns(s, next)
      PROVE turn' \in [Sessions -> {"idle", "run", "ask"}]
  BY <1>c DEF Turns, TypeOK
<1>3. ASSUME NEW w \in Sockets, Answer(w) PROVE TypeOK' /\ TurnTouches
  <2> DEFINE s == view[w]
  <2>1. /\ s \in Sessions /\ (HeldResolves(s) \/ LiveResolves(s))
        /\ Turns(s, "run") /\ Cards(s, FALSE) /\ TurnTouches /\ UNCHANGED early
    BY <1>0, <1>3 DEF Answer, NoSocketChange, TurnTouches
  <2> HIDE DEF s
  <2>2. TurnTypes'
    BY <2>1, <1>b, <1>c DEF TurnTypes
  <2> QED
    BY <2>1, <2>2, CardTypes, TurnStepTypes DEF TypeOK
<1>4. ASSUME NEW w \in Sockets, Cancel(w) PROVE TypeOK' /\ TurnTouches
  <2> DEFINE s == view[w]
  <2>1. /\ s \in Sessions /\ turn' = [turn EXCEPT ![s] = "idle"] /\ TurnTouches /\ UNCHANGED early
        /\ \/ HeldResolves(s) \/ LiveResolves(s)
           \/ UNCHANGED <<pend, queue, held, dangling, cont>>
        /\ Cards(s, TRUE) \/ UNCHANGED card
    BY <1>0, <1>4 DEF Cancel, NoSocketChange, TurnTouches
  <2> HIDE DEF s
  <2>2. TurnTypes'
    BY <2>1, <1>b DEF TurnTypes, TypeOK
  <2> QED
    BY <2>1, <2>2, CardTypes, TurnStepTypes DEF TypeOK
<1>5. ASSUME NEW s \in Sessions, TurnStarts(s) PROVE TypeOK' /\ TurnTouches
  <2>1. TurnTypes' /\ TurnTouches
    BY <1>5, HostAssumption DEF TurnStarts, TurnTypes, TypeOK, NoSocketChange, TurnTouches, HostAssumption
  <2> QED
    BY <1>5, <2>1, TurnStepTypes DEF TurnStarts, TypeOK
<1>6. ASSUME NEW s \in Sessions, TurnEnds(s) PROVE TypeOK' /\ TurnTouches
  <2>1. TurnTypes' /\ TurnTouches
    BY <1>6 DEF TurnEnds, TurnTypes, TypeOK, NoSocketChange, TurnTouches
  <2> QED
    BY <1>6, <2>1, TurnStepTypes DEF TurnEnds, TypeOK
<1>7. ASSUME NEW s \in Sessions, Ask(s) PROVE TypeOK' /\ TurnTouches
  <2>1. /\ turn' = [turn EXCEPT ![s] = "ask"] /\ pend' = [pend EXCEPT ![s] = "live"]
        /\ TurnTouches /\ UNCHANGED early
        /\ \/ pend[s] = "held" /\ ResultLands(s)
           \/ UNCHANGED <<held, dangling, queue, cont>>
        /\ card' = [w \in Sockets |-> IF w \in Viewers(s) /\ act[w] = On(s) THEN TRUE ELSE card[w]]
    BY <1>7 DEF Ask, NoSocketChange, TurnTouches
  <2>2. TurnTypes'
    BY <2>1, <1>a DEF TurnTypes, TypeOK
  <2>3. card' \in [Sockets -> BOOLEAN]
    BY <2>1 DEF TypeOK
  <2> QED
    BY <2>1, <2>2, <2>3, TurnStepTypes DEF TypeOK
<1>8. ASSUME NEW s \in Sessions, Expire(s) PROVE TypeOK' /\ TurnTouches
  <2>1. LiveResolves(s) /\ TurnTouches /\ UNCHANGED <<card, early>> /\ \E next \in {"run", "idle"} : Turns(s, next)
    BY <1>8 DEF Expire, NoSocketChange, TurnTouches
  <2>2. TurnTypes'
    BY <2>1, <1>b, <1>c DEF TurnTypes
  <2> QED
    BY <2>1, <2>2, TurnStepTypes DEF TypeOK
<1> QED
  BY <1>1, <1>2, <1>3, <1>4, <1>5, <1>6, <1>7, <1>8

-----------------------------------------------------------------------------
(* Turns, questions and adoptions.                                         *)

(* The state of the turn of s, as numbers and states.                      *)
LEMMA TurnFields ==
  ASSUME TypeOK, NEW s \in Sessions
  PROVE  /\ held[s] \in Nat /\ dangling[s] \in Nat /\ queue[s] \in Nat /\ cont[s] \in Nat
         /\ live[s] \in {"no", "raw", "ready"} /\ pend[s] \in {"none", "held", "live"}
         /\ turn[s] \in {"idle", "run", "ask"} /\ adopt[s] \in {"no", "build", "restore"}
  BY HostAssumption DEF TypeOK, HostAssumption

SameTurn(s) ==
  /\ live'[s] = live[s] /\ turn'[s] = turn[s] /\ queue'[s] = queue[s] /\ held'[s] = held[s]
  /\ pend'[s] = pend[s] /\ dangling'[s] = dangling[s] /\ cont'[s] = cont[s]
  /\ adopt'[s] = adopt[s] \/ adopt'[s] # "build"
  /\ s \in logged => s \in logged'
  /\ s \in early => s \in early'

LEMMA TurnStays ==
  ASSUME NEW s \in Sessions, TurnOf(s), SameTurn(s)
  PROVE  TurnOf(s)'
  BY DEF TurnOf, SameTurn, DeadIsIdle, BuildsAlone, HeldOfLog, ContinuesLater, WaitsForLog

LEMMA TurnsStay ==
  ASSUME TurnInv, UNCHANGED <<live, adopt, logged, turnVars, early>>
  PROVE  TurnInv'
  BY TurnStays DEF TurnInv, SameTurn, turnVars

LEMMA StartTurns ==
  ASSUME TypeOK, TurnInv, NEW w \in Sockets,
         Connect(w) \/ SwitchSession(w) \/ LoadLog(w) \/ CreateSession(w) \/ Fork(w) \/ Close(w)
  PROVE  UNCHANGED <<live, adopt, logged, turnVars, early>>
<1>1. ASSUME NEW s, NEW up, Attach(w, s, up) \/ Resume(w, s, up)
      PROVE UNCHANGED <<live, adopt, logged, turnVars, early>>
  BY <1>1 DEF Resume, Attach, NoTurnChange, hostVars
<1>2. CASE Connect(w)
  BY <1>1, <1>2 DEF Connect, NoTurnChange, hostVars
<1>3. CASE SwitchSession(w) \/ LoadLog(w)
  BY <1>1, <1>3 DEF SwitchSession, LoadLog
<1>4. CASE CreateSession(w) \/ Fork(w) \/ Close(w)
  BY <1>4 DEF CreateSession, Fork, Close, hostVars
<1> QED
  BY <1>2, <1>3, <1>4

(* A session that is registered is live, and has nothing to do.            *)
LEMMA RegistersTurns ==
  ASSUME TypeOK, TurnInv, NEW s \in Sessions, Fresh(s), Registers(s),
         \A x \in Sessions \ {s} : dangling'[x] = dangling[x] /\ (x \in early => x \in early'),
         dangling' \in [Sessions -> 0 .. Holds],
         dangling'[s] > 0 => s \in early'
  PROVE  TurnInv'
<1>1. ASSUME NEW x \in Sessions, x # s PROVE TurnOf(x)'
  <2>1. SameTurn(x)
    BY <1>1 DEF SameTurn, Registers, TypeOK
  <2> QED
    BY <2>1, TurnStays DEF TurnInv
<1>2. TurnOf(s)'
  <2>1. /\ live'[s] = "ready" /\ turn'[s] = "idle" /\ queue'[s] = 0 /\ cont'[s] = 0 /\ s \in logged'
        /\ adopt'[s] = "no" /\ held'[s] = held[s] /\ pend'[s] = pend[s]
    BY DEF Registers, Fresh, TypeOK
  <2>2. held[s] = 0 /\ pend[s] = "none"
    BY DEF TurnInv, TurnOf, DeadIsIdle, HeldOfLog, Fresh
  <2>3. dangling'[s] \in Nat
    BY HostAssumption DEF HostAssumption
  <2> QED
    BY <2>1, <2>2, <2>3 DEF TurnOf, DeadIsIdle, BuildsAlone, HeldOfLog, ContinuesLater, WaitsForLog
<1> QED
  BY <1>1, <1>2 DEF TurnInv

LEMMA FlowTurns ==
  ASSUME TypeOK, TypeOK', TurnInv, FlowsNamed, NEW f \in flows,
         \/ Burst(f) \/ Looked(f) \/ Refused(f) \/ Fall(f) \/ CreateFails(f)
         \/ \E s \in Sessions : FreshDone(f, s) \/ NewDone(f, s)
  PROVE  TurnInv'
<1>1. CASE Burst(f) \/ Refused(f) \/ Fall(f) \/ CreateFails(f)
  <2>1. UNCHANGED <<live, adopt, logged, turnVars, early>>
    BY <1>1 DEF Burst, Refused, Fall, CreateFails, hostVars, historyVars
  <2> QED
    BY <2>1, TurnsStay
<1>2. CASE Looked(f)
  <2>1. CASE UNCHANGED <<live, adopt, logged>>
    BY <1>2, <2>1, TurnsStay DEF Looked
  <2>2. CASE /\ adopt[f.s] = "no" /\ ~LateJoiner(f.s)
             /\ adopt' = [adopt EXCEPT ![f.s] = "build"] /\ UNCHANGED <<live, logged>>
    <3>0. f.s \in Sessions /\ live[f.s] = "no"
      BY <1>2, <2>2 DEF Looked, FlowsNamed, LateJoiner
    <3>1. ASSUME NEW x \in Sessions, x # f.s PROVE TurnOf(x)'
      <4>1. SameTurn(x)
        BY <1>2, <2>2, <3>0, <3>1 DEF Looked, SameTurn, turnVars, TypeOK
      <4> QED
        BY <4>1, TurnStays DEF TurnInv
    <3>2. TurnOf(f.s)'
      BY <1>2, <2>2, <3>0 DEF Looked, turnVars, TurnInv, TurnOf, DeadIsIdle, BuildsAlone, HeldOfLog, ContinuesLater, WaitsForLog
    <3> QED
      BY <3>1, <3>2 DEF TurnInv
  <2> QED
    BY <1>2, <2>1, <2>2 DEF Looked, hostVars
<1>3. ASSUME NEW s \in Sessions, FreshDone(f, s) PROVE TurnInv'
  <2>1. Fresh(s) /\ Registers(s) /\ UNCHANGED <<dangling, early>>
    BY <1>3 DEF FreshDone
  <2>2. dangling[s] \in Nat /\ s \notin logged /\ TurnOf(s)
    BY <2>1, TurnFields DEF Fresh, TurnInv
  <2>3. dangling[s] = 0
    BY <2>2 DEF TurnOf, HeldOfLog
  <2> QED
    BY <2>1, <2>3, RegistersTurns DEF TypeOK
<1>4. ASSUME NEW s \in Sessions, NewDone(f, s) PROVE TurnInv'
  <2>1. /\ Fresh(s) /\ Registers(s) /\ early' = IF dangling'[s] > 0 THEN early \cup {s} ELSE early
        /\ dangling' = dangling \/ dangling' = [dangling EXCEPT ![s] = dangling[f.s]]
    BY <1>4 DEF NewDone
  <2>2. \A x \in Sessions \ {s} : dangling'[x] = dangling[x] /\ (x \in early => x \in early')
    BY <2>1 DEF TypeOK
  <2>3. dangling' \in [Sessions -> 0 .. Holds] /\ (dangling'[s] > 0 => s \in early')
    BY <2>1 DEF TypeOK
  <2> QED
    BY <2>1, <2>2, <2>3, RegistersTurns
<1> QED
  BY <1>1, <1>2, <1>3, <1>4

LEMMA AdoptionTurns ==
  ASSUME TypeOK, TurnInv, NEW s \in Sessions, Built(s) \/ AdoptFails(s) \/ Restored(s) \/ RestoredGone(s)
  PROVE  TurnInv'
<1>0. TurnOf(s)
  BY DEF TurnInv
<1>1. CASE Built(s)
  <2>1. ASSUME NEW x \in Sessions, x # s PROVE TurnOf(x)'
    <3>1. SameTurn(x)
      BY <1>1, <2>1 DEF SameTurn, Built, historyVars, TypeOK
    <3> QED
      BY <3>1, TurnStays DEF TurnInv
  <2>2. /\ live'[s] = "raw" /\ adopt'[s] = "restore" /\ turn'[s] = "idle" /\ queue'[s] = 0 /\ cont'[s] = 0
        /\ UNCHANGED <<held, pend, dangling, logged, early>>
    BY <1>1 DEF Built, historyVars, TypeOK
  <2>3. live[s] = "no"
    BY <1>0, <1>1 DEF Built, TurnOf, BuildsAlone
  <2>4. TurnOf(s)'
    BY <1>0, <2>2, <2>3 DEF TurnOf, DeadIsIdle, BuildsAlone, HeldOfLog, ContinuesLater, WaitsForLog
  <2> QED
    BY <2>1, <2>4 DEF TurnInv
<1>2. CASE AdoptFails(s) \/ RestoredGone(s)
  <2>1. \A x \in Sessions : SameTurn(x)
    BY <1>2 DEF SameTurn, AdoptFails, RestoredGone, turnVars, historyVars, TypeOK
  <2> QED
    BY <2>1, TurnStays DEF TurnInv
<1>3. CASE Restored(s)
  <2>1. /\ live[s] = "raw" /\ adopt' = [adopt EXCEPT ![s] = "no"] /\ live' = [live EXCEPT ![s] = "ready"]
        /\ UNCHANGED <<logged, dangling, early>>
        /\ \/ dangling[s] > 0 /\ Injects(s) /\ UNCHANGED <<queue, cont>>
           \/ dangling[s] = 0 /\ queue[s] < MaxQueue /\ Continues(s, 1) /\ UNCHANGED <<turn, held, pend>>
           \/ dangling[s] = 0 /\ UNCHANGED <<turn, queue, cont, held, pend>>
    BY <1>3 DEF Restored, Continuations
  <2>2. ASSUME NEW x \in Sessions, x # s PROVE TurnOf(x)'
    <3>1. SameTurn(x)
      BY <2>1, <2>2 DEF SameTurn, Injects, Continues, TypeOK
    <3> QED
      BY <3>1, TurnStays DEF TurnInv
  <2>3. live'[s] = "ready" /\ adopt'[s] = "no" /\ dangling'[s] = dangling[s]
    BY <2>1 DEF TypeOK
  <2>4. /\ held[s] = 0 /\ cont[s] = 0 /\ pend[s] # "held" /\ (dangling[s] > 0 => s \in logged)
        /\ s \notin early => turn[s] = "idle" /\ queue[s] = 0 /\ pend[s] = "none"
    BY <1>0, <2>1 DEF TurnOf, HeldOfLog, ContinuesLater, WaitsForLog
  <2>5. CASE dangling[s] > 0 /\ Injects(s) /\ UNCHANGED <<queue, cont>>
    <3>1. held'[s] = dangling[s] /\ pend'[s] = "held" /\ (turn[s] = "idle" => turn'[s] = "idle") /\ queue'[s] = queue[s] /\ cont'[s] = cont[s]
      BY <2>5 DEF Injects, TypeOK
    <3>2. TurnOf(s)'
      BY <2>1, <2>3, <2>4, <2>5, <3>1, TurnFields
      DEF TurnOf, DeadIsIdle, BuildsAlone, HeldOfLog, ContinuesLater, WaitsForLog
    <3> QED
      BY <2>2, <3>2 DEF TurnInv
  <2>6. CASE dangling[s] = 0 /\ Continues(s, 1) /\ UNCHANGED <<turn, held, pend>>
    <3>1. cont'[s] = 1
      BY <2>4, <2>6 DEF Continues, TypeOK
    <3>2. TurnOf(s)'
      BY <2>1, <2>3, <2>4, <2>6, <3>1, TurnFields
      DEF TurnOf, DeadIsIdle, BuildsAlone, HeldOfLog, ContinuesLater, WaitsForLog
    <3> QED
      BY <2>2, <3>2 DEF TurnInv
  <2>7. CASE dangling[s] = 0 /\ UNCHANGED <<turn, queue, cont, held, pend>>
    <3>1. TurnOf(s)'
      BY <2>1, <2>3, <2>4, <2>7, TurnFields
      DEF TurnOf, DeadIsIdle, BuildsAlone, HeldOfLog, ContinuesLater, WaitsForLog
    <3> QED
      BY <2>2, <3>1 DEF TurnInv
  <2> QED
    BY <2>1, <2>5, <2>6, <2>7
<1> QED
  BY <1>1, <1>2, <1>3

LEMMA EndTurns ==
  ASSUME TypeOK, TurnInv, NEW s \in Sessions, Gone(s)
  PROVE  TurnInv'
<1>1. ASSUME NEW x \in Sessions, x # s PROVE TurnOf(x)'
  <2>1. SameTurn(x)
    BY <1>1 DEF SameTurn, Gone, TypeOK
  <2> QED
    BY <2>1, TurnStays DEF TurnInv
<1>2. /\ live'[s] = "no" /\ held'[s] = 0 /\ pend'[s] = "none" /\ turn'[s] = "idle" /\ cont'[s] = 0
      /\ UNCHANGED <<adopt, logged, dangling>>
  BY DEF Gone, TypeOK
<1>3. TurnOf(s) /\ dangling[s] \in Nat
  BY TurnFields DEF TurnInv
<1>4. TurnOf(s)'
  BY <1>2, <1>3 DEF TurnOf, DeadIsIdle, BuildsAlone, HeldOfLog, ContinuesLater, WaitsForLog
<1> QED
  BY <1>1, <1>4 DEF TurnInv

(* Only the turn of s changes.                                             *)
OnlyTurn(s) == \A x \in Sessions \ {s} : SameTurn(x)

LEMMA OneTurnChanges ==
  ASSUME TurnInv, NEW s \in Sessions, OnlyTurn(s), TurnOf(s)'
  PROVE  TurnInv'
  BY TurnStays DEF TurnInv, OnlyTurn

(* A result of a held call lands: one call less is held, and after the last *)
(* one the turn is continued.                                              *)
LEMMA ResultTurns ==
  ASSUME TypeOK, NEW s \in Sessions, TurnOf(s), pend[s] = "held", ResultLands(s)
  PROVE  /\ held[s] > 0 /\ held[s] <= dangling[s] /\ cont[s] = 0 /\ live[s] = "ready"
         /\ held'[s] = held[s] - 1 /\ dangling'[s] = dangling[s] - 1
         /\ held[s] > 1 => queue'[s] = queue[s] /\ cont'[s] = 0
         /\ held[s] = 1 => cont'[s] = 1
         /\ \A x \in Sessions \ {s} : /\ held'[x] = held[x] /\ dangling'[x] = dangling[x]
                                      /\ queue'[x] = queue[x] /\ cont'[x] = cont[x]
<1>1. held[s] > 0 /\ held[s] <= dangling[s] /\ held[s] \in Nat
  BY TurnFields DEF TurnOf, HeldOfLog
<1>2. cont[s] = 0 /\ live[s] = "ready"
  BY <1>1 DEF TurnOf, ContinuesLater, HeldOfLog
<1>3. /\ held'[s] = held[s] - 1 /\ dangling'[s] = dangling[s] - 1
      /\ \A x \in Sessions \ {s} : held'[x] = held[x] /\ dangling'[x] = dangling[x]
  BY DEF ResultLands, TypeOK
<1>4. CASE held[s] > 1
  BY <1>1, <1>2, <1>3, <1>4 DEF ResultLands
<1>5. CASE held[s] = 1
  <2>1. Continues(s, 1)
    BY <1>5 DEF ResultLands
  <2>2. cont'[s] = 1 /\ \A x \in Sessions \ {s} : queue'[x] = queue[x] /\ cont'[x] = cont[x]
    BY <2>1, <1>2 DEF Continues, TypeOK
  <2> QED
    BY <1>1, <1>2, <1>3, <1>5, <2>2
<1> QED
  BY <1>1, <1>4, <1>5

(* A question that is resolved: held ones one by one.                       *)
LEMMA ResolvesTurns ==
  ASSUME TypeOK, TurnInv, TurnTouches, NEW s \in Sessions, UNCHANGED early,
         HeldResolves(s) \/ LiveResolves(s),
         \A x \in Sessions \ {s} : turn'[x] = turn[x],
         turn'[s] = turn[s] \/ turn'[s] = "idle" \/ (turn[s] = "ask" /\ turn'[s] = "run")
  PROVE  TurnInv'
<1>0. TurnOf(s) /\ live' = live /\ adopt' = adopt /\ logged' = logged
  BY DEF TurnInv, TurnTouches
<1>1. CASE HeldResolves(s)
  <2>1. pend[s] = "held" /\ ResultLands(s) /\ pend' = [pend EXCEPT ![s] = IF held[s] > 1 THEN pend[s] ELSE "none"]
    BY <1>1 DEF HeldResolves
  <2>2. /\ held[s] > 0 /\ held[s] <= dangling[s] /\ cont[s] = 0 /\ live[s] = "ready"
        /\ held'[s] = held[s] - 1 /\ dangling'[s] = dangling[s] - 1
        /\ held[s] > 1 => queue'[s] = queue[s] /\ cont'[s] = 0
        /\ held[s] = 1 => cont'[s] = 1
    BY <2>1, <1>0, ResultTurns
  <2>3. pend'[s] = IF held[s] > 1 THEN "held" ELSE "none"
    BY <2>1 DEF TypeOK
  <2>4. OnlyTurn(s)
    <3>1. \A x \in Sessions \ {s} : /\ held'[x] = held[x] /\ dangling'[x] = dangling[x]
                                    /\ queue'[x] = queue[x] /\ cont'[x] = cont[x]
      BY <2>1, <1>0, ResultTurns
    <3>2. \A x \in Sessions \ {s} : pend'[x] = pend[x]
      BY <2>1 DEF TypeOK
    <3> QED
      BY <1>0, <3>1, <3>2 DEF OnlyTurn, SameTurn
  <2>5. held[s] \in Nat /\ dangling[s] \in Nat
    BY TurnFields
  <2>6. DeadIsIdle(s)' /\ BuildsAlone(s)' /\ HeldOfLog(s)' /\ ContinuesLater(s)'
    BY <1>0, <2>2, <2>3, <2>5 DEF TurnOf, DeadIsIdle, BuildsAlone, HeldOfLog, ContinuesLater
  <2>7. ASSUME s \notin early
        PROVE held[s] = dangling[s] /\ turn[s] = "idle" /\ queue[s] = 0
    BY <1>0, <2>2, <2>7 DEF TurnOf, WaitsForLog
  <2>8. WaitsForLog(s)'
    BY <1>0, <2>2, <2>3, <2>5, <2>7 DEF WaitsForLog
  <2> QED
    BY <2>4, <2>6, <2>8, OneTurnChanges DEF TurnOf
<1>2. CASE LiveResolves(s)
  <2>1. pend[s] = "live" /\ pend' = [pend EXCEPT ![s] = "none"] /\ UNCHANGED <<queue, held, dangling, cont>>
    BY <1>2 DEF LiveResolves
  <2>2. pend'[s] = "none" /\ \A x \in Sessions \ {s} : pend'[x] = pend[x]
    BY <2>1 DEF TypeOK
  <2>3. OnlyTurn(s)
    BY <1>0, <2>1, <2>2 DEF OnlyTurn, SameTurn
  <2>4. held[s] \in Nat
    BY TurnFields
  <2>5. TurnOf(s)'
    BY <1>0, <2>1, <2>2, <2>4 DEF TurnOf, DeadIsIdle, BuildsAlone, HeldOfLog, ContinuesLater, WaitsForLog
  <2> QED
    BY <2>3, <2>5, OneTurnChanges
<1> QED
  BY <1>1, <1>2

LEMMA EnqueuesFields ==
  ASSUME TypeOK, NEW s \in Sessions, Enqueues(s)
  PROVE  /\ UNCHANGED <<turn, cont>> /\ \A x \in Sessions \ {s} : queue'[x] = queue[x]
         /\ logged' = logged
  BY DEF Enqueues, TypeOK

LEMMA TurnActionTurns ==
  ASSUME TypeOK, TurnInv, TurnTouches,
         \/ \E w \in Sockets : Send(w) \/ Command(w) \/ Answer(w) \/ Cancel(w)
         \/ \E s \in Sessions : TurnStarts(s) \/ TurnEnds(s) \/ Ask(s) \/ Expire(s)
  PROVE  TurnInv'
<1>0. live' = live /\ adopt' = adopt /\ logged' = logged /\ \A s \in Live : s \in Sessions /\ live[s] # "no"
  BY DEF TurnTouches, Live
<1>1. ASSUME NEW w \in Sockets, Send(w) PROVE TurnInv'
  <2>1. PICK s \in Sessions :
           /\ live[s] # "no" /\ Dismisses(s) /\ Enqueues(s)
           /\ early' = IF live[s] = "raw" THEN early \cup {s} ELSE early
    BY <1>0, <1>1 DEF Send, Dismisses, Enqueues, Cards
  <2>2. TurnOf(s) /\ held[s] \in Nat /\ dangling[s] \in Nat /\ live[s] \in {"raw", "ready"}
    BY <2>1, TurnFields DEF TurnInv
  <2>3. /\ held'[s] = 0 /\ dangling'[s] = dangling[s] - held[s]
        /\ pend'[s] = IF held[s] = 0 THEN pend[s] ELSE "none"
        /\ \A x \in Sessions \ {s} : held'[x] = held[x] /\ dangling'[x] = dangling[x] /\ pend'[x] = pend[x]
    <3>1. CASE held[s] = 0
      BY <2>1, <2>2, <3>1 DEF Dismisses
    <3>2. CASE held[s] # 0
      BY <2>1, <3>2 DEF Dismisses, TypeOK
    <3> QED
      BY <3>1, <3>2
  <2>4. OnlyTurn(s)
    BY <1>0, <2>1, <2>3, EnqueuesFields DEF OnlyTurn, SameTurn
  <2>5. TurnOf(s)'
    BY <1>0, <2>1, <2>2, <2>3, EnqueuesFields
    DEF TurnOf, DeadIsIdle, BuildsAlone, HeldOfLog, ContinuesLater, WaitsForLog
  <2> QED
    BY <2>1, <2>4, <2>5, OneTurnChanges
<1>2. ASSUME NEW w \in Sockets, Command(w) PROVE TurnInv'
  <2>1. PICK s \in Sessions :
           /\ live[s] # "no" /\ Enqueues(s) /\ UNCHANGED <<held, pend, dangling>>
           /\ early' = IF live[s] = "raw" \/ held[s] > 0 THEN early \cup {s} ELSE early
    BY <1>0, <1>2 DEF Command, Enqueues
  <2>2. TurnOf(s) /\ held[s] \in Nat /\ live[s] \in {"raw", "ready"}
    BY <2>1, TurnFields DEF TurnInv
  <2>4. OnlyTurn(s)
    BY <1>0, <2>1, EnqueuesFields DEF OnlyTurn, SameTurn
  <2>5. TurnOf(s)'
    BY <1>0, <2>1, <2>2, EnqueuesFields
    DEF TurnOf, DeadIsIdle, BuildsAlone, HeldOfLog, ContinuesLater, WaitsForLog
  <2> QED
    BY <2>1, <2>4, <2>5, OneTurnChanges
<1>3. ASSUME NEW w \in Sockets, Answer(w) PROVE TurnInv'
  <2>1. PICK s \in Sessions : (HeldResolves(s) \/ LiveResolves(s)) /\ Turns(s, "run") /\ UNCHANGED early
    BY <1>0, <1>3 DEF Answer, HeldResolves, LiveResolves, ResultLands, Continues, Turns
  <2>2. /\ \A x \in Sessions \ {s} : turn'[x] = turn[x]
        /\ turn'[s] = turn[s] \/ (turn[s] = "ask" /\ turn'[s] = "run")
    BY <2>1 DEF Turns, TypeOK
  <2> QED
    BY <2>1, <2>2, ResolvesTurns
<1>4. ASSUME NEW w \in Sockets, Cancel(w) PROVE TurnInv'
  <2>1. PICK s \in Sessions :
        /\ turn' = [turn EXCEPT ![s] = "idle"] /\ UNCHANGED early
        /\ \/ HeldResolves(s) \/ LiveResolves(s)
           \/ UNCHANGED <<pend, queue, held, dangling, cont>>
    BY <1>0, <1>4 DEF Cancel, HeldResolves, LiveResolves, ResultLands, Continues
  <2>2. turn'[s] = "idle" /\ \A x \in Sessions \ {s} : turn'[x] = turn[x]
    BY <2>1 DEF TypeOK
  <2>3. CASE UNCHANGED <<pend, queue, held, dangling, cont>>
    <3>1. OnlyTurn(s)
      BY <1>0, <2>1, <2>2, <2>3 DEF OnlyTurn, SameTurn
    <3>2. TurnOf(s)'
      BY <1>0, <2>1, <2>2, <2>3 DEF TurnInv, TurnOf, DeadIsIdle, BuildsAlone, HeldOfLog, ContinuesLater, WaitsForLog
    <3> QED
      BY <2>1, <3>1, <3>2, OneTurnChanges
  <2> QED
    BY <2>1, <2>2, <2>3, ResolvesTurns
<1>5. ASSUME NEW s \in Sessions, TurnStarts(s) PROVE TurnInv'
  <2>1. /\ live[s] # "no" /\ queue[s] > 0 /\ turn' = [turn EXCEPT ![s] = "run"]
        /\ queue' = [queue EXCEPT ![s] = queue[s] - 1] /\ UNCHANGED <<held, pend, dangling, cont, early>>
    BY <1>5 DEF TurnStarts
  <2>2. \A x \in Sessions \ {s} : turn'[x] = turn[x] /\ queue'[x] = queue[x]
    BY <2>1 DEF TypeOK
  <2>3. OnlyTurn(s)
    BY <1>0, <2>1, <2>2 DEF OnlyTurn, SameTurn
  <2>4. TurnOf(s)'
    BY <1>0, <2>1, TurnFields DEF TurnInv, TurnOf, DeadIsIdle, BuildsAlone, HeldOfLog, ContinuesLater, WaitsForLog
  <2> QED
    BY <2>3, <2>4, OneTurnChanges
<1>6. ASSUME NEW s \in Sessions, TurnEnds(s) PROVE TurnInv'
  <2>1. turn' = [turn EXCEPT ![s] = "idle"] /\ UNCHANGED <<queue, held, pend, dangling, cont, early>>
    BY <1>6 DEF TurnEnds
  <2>2. turn'[s] = "idle" /\ \A x \in Sessions \ {s} : turn'[x] = turn[x]
    BY <2>1 DEF TypeOK
  <2>3. OnlyTurn(s)
    BY <1>0, <2>1, <2>2 DEF OnlyTurn, SameTurn
  <2>4. TurnOf(s)'
    BY <1>0, <2>1, <2>2 DEF TurnInv, TurnOf, DeadIsIdle, BuildsAlone, HeldOfLog, ContinuesLater, WaitsForLog
  <2> QED
    BY <2>3, <2>4, OneTurnChanges
<1>7. ASSUME NEW s \in Sessions, Ask(s) PROVE TurnInv'
  <2>1. /\ turn[s] = "run" /\ turn' = [turn EXCEPT ![s] = "ask"] /\ pend' = [pend EXCEPT ![s] = "live"]
        /\ IF pend[s] = "held" THEN ResultLands(s) ELSE UNCHANGED <<held, dangling, queue, cont>>
        /\ UNCHANGED early
    BY <1>7 DEF Ask
  <2>2. TurnOf(s) /\ held[s] \in Nat /\ dangling[s] \in Nat /\ live[s] \in {"no", "raw", "ready"}
    BY TurnFields DEF TurnInv
  <2>3. turn'[s] = "ask" /\ pend'[s] = "live" /\ \A x \in Sessions \ {s} : turn'[x] = turn[x] /\ pend'[x] = pend[x]
    BY <2>1 DEF TypeOK
  <2>4. live[s] # "no" /\ (s \notin early => held[s] = 0 /\ live[s] = "ready" /\ pend[s] # "held")
    BY <2>1, <2>2 DEF TurnOf, DeadIsIdle, WaitsForLog
  <2>5. CASE pend[s] = "held"
    <3>1. s \in early /\ ResultLands(s)
      BY <2>1, <2>4, <2>5
    <3>2. /\ held[s] > 0 /\ held[s] <= dangling[s] /\ cont[s] = 0 /\ live[s] = "ready"
          /\ held'[s] = held[s] - 1 /\ dangling'[s] = dangling[s] - 1
          /\ held[s] > 1 => queue'[s] = queue[s] /\ cont'[s] = 0
          /\ held[s] = 1 => cont'[s] = 1
      BY <2>2, <2>5, <3>1, ResultTurns
    <3>3. \A x \in Sessions \ {s} : /\ held'[x] = held[x] /\ dangling'[x] = dangling[x]
                                    /\ queue'[x] = queue[x] /\ cont'[x] = cont[x]
      BY <2>2, <2>5, <3>1, ResultTurns
    <3>4. OnlyTurn(s)
      BY <1>0, <2>1, <2>3, <3>3 DEF OnlyTurn, SameTurn
    <3>5. TurnOf(s)'
      BY <1>0, <2>1, <2>2, <2>3, <3>1, <3>2
      DEF TurnOf, DeadIsIdle, BuildsAlone, HeldOfLog, ContinuesLater, WaitsForLog
    <3> QED
      BY <3>4, <3>5, OneTurnChanges
  <2>6. CASE pend[s] # "held"
    <3>1. UNCHANGED <<held, dangling, queue, cont>>
      BY <2>1, <2>6
    <3>2. OnlyTurn(s)
      BY <1>0, <2>1, <2>3, <3>1 DEF OnlyTurn, SameTurn
    <3>3. TurnOf(s)'
      BY <1>0, <2>1, <2>2, <2>3, <2>4, <3>1
      DEF TurnOf, DeadIsIdle, BuildsAlone, HeldOfLog, ContinuesLater, WaitsForLog
    <3> QED
      BY <3>2, <3>3, OneTurnChanges
  <2> QED
    BY <2>5, <2>6
<1>8. ASSUME NEW s \in Sessions, Expire(s) PROVE TurnInv'
  <2>1. PICK next \in {"run", "idle"} : LiveResolves(s) /\ Turns(s, next) /\ UNCHANGED early
    BY <1>8 DEF Expire
  <2>2. /\ \A x \in Sessions \ {s} : turn'[x] = turn[x]
        /\ turn'[s] = turn[s] \/ turn'[s] = "idle" \/ (turn[s] = "ask" /\ turn'[s] = "run")
    BY <2>1 DEF Turns, TypeOK
  <2> QED
    BY <2>1, <2>2, ResolvesTurns
<1> QED
  BY <1>1, <1>2, <1>3, <1>4, <1>5, <1>6, <1>7, <1>8

-----------------------------------------------------------------------------
(* Rooms.                                                                  *)

In(s) == {w \in Sockets : act[w] = On(s)}

LEMMA RoomsStay ==
  ASSUME TypeOK, TypeOK', RoomInv, UNCHANGED <<act, strays>>,
         \A s \in Sessions : count'[s] = count[s] /\ (live'[s] = "no" => live[s] = "no"),
         twice \subseteq twice'
  PROVE  RoomInv'
<1>1. ASSUME NEW s \in Sessions PROVE RoomOf(s)'
  BY DEF RoomInv, RoomOf, Room, DeadIsEmpty
<1>2. ActIsLive'
  BY DEF RoomInv, ActIsLive
<1> QED
  BY <1>1, <1>2 DEF RoomInv

LEMMA OnIsOn ==
  ASSUME NEW s, NEW t
  PROVE  On(s).on = TRUE /\ On(s).s = s /\ (On(s) = On(t) => s = t)
  BY DEF On

LEMMA OnIsRecord ==
  ASSUME NEW c \in [s : Sessions \cup {None}, on : BOOLEAN], c.on
  PROVE  c = On(c.s)
<1>1. c = [s |-> c.s, on |-> c.on]
  OBVIOUS
<1>2. c.on = TRUE
  OBVIOUS
<1> QED
  BY <1>1, <1>2 DEF On

(* Those who leave a session are counted down: each is in its set.          *)
LEMMA CountRooms ==
  ASSUME TypeOK, RoomInv, NEW ws \in SUBSET Sockets, NEW s \in Sessions \cup {None},
         count' = CountAfter(ws, s), twice' = twice \cup GoneTwice(ws), UNCHANGED strays,
         NEW t \in Sessions, t \notin twice',
         In(t)' = (In(t) \ ws) \cup (IF t = s THEN ws ELSE {})
  PROVE  count'[t] = Room(t)'
<1> DEFINE I == In(t)  J == I \cap ws  L == {w \in ws : act[w].s = t}  A == IF t = s THEN ws ELSE {}
           K == In(t)'
<1>1. I \in SUBSET Sockets /\ J \in SUBSET Sockets /\ L \in SUBSET Sockets /\ A \in SUBSET Sockets /\ I \ ws \in SUBSET Sockets
  BY DEF In
<1>2. count[t] = Cardinality(I) + strays[t]
  BY DEF RoomInv, RoomOf, Room, In
<1>3. /\ IsFiniteSet(I) /\ IsFiniteSet(J) /\ IsFiniteSet(A) /\ IsFiniteSet(I \ ws)
      /\ Cardinality(I) \in Nat /\ Cardinality(J) \in Nat /\ Cardinality(A) \in Nat
      /\ Cardinality(I \ ws) \in Nat /\ strays[t] \in Nat
  <2> HIDE DEF I, J, A
  <2> QED
    BY <1>1, FiniteSockets DEF TypeOK
<1>4. Leavers(ws, t) = Cardinality(J)
  <2>1. CASE live[t] = "no"
    <3>1. I = {}
      BY <2>1 DEF RoomInv, RoomOf, DeadIsEmpty, In
    <3>2. J = {}
      BY <3>1
    <3> QED
      BY <2>1, <3>2, FS_EmptySet DEF Leavers
  <2>2. CASE live[t] # "no"
    <3>1. \A w \in ws : act[w].s = t => act[w].on
      BY <2>2 DEF GoneTwice, Live
    <3>2. ASSUME NEW w \in ws PROVE act[w].s = t <=> act[w] = On(t)
      <4>1. act[w] \in [s : Sessions \cup {None}, on : BOOLEAN]
        BY DEF TypeOK
      <4> QED
        BY <3>1, <4>1, OnIsRecord, OnIsOn
    <3>3. L = J
      BY <3>2 DEF In
    <3> QED
      BY <2>2, <3>3 DEF Leavers
  <2> QED
    BY <2>1, <2>2
<1>5. Cardinality(I \ ws) = Cardinality(I) - Cardinality(J) /\ Cardinality(J) <= Cardinality(I)
  <2>1. Cardinality(I \ ws) = Cardinality(I) - Cardinality(J)
    <3> HIDE DEF I
    <3> QED
      BY <1>3, FS_Difference
  <2> HIDE DEF I, J
  <2> QED
    BY <1>3, <2>1
<1>6. Cardinality(K) = Cardinality(I \ ws) + Cardinality(A)
  <2>1. Cardinality(K) = Cardinality((I \ ws) \cup A)
    BY Zenon
  <2>2. Cardinality((I \ ws) \cap A) = 0
    <3>1. (I \ ws) \cap A = {}
      OBVIOUS
    <3> HIDE DEF I, A
    <3> QED
      BY <3>1, FS_EmptySet, Zenon
  <2> DEFINE B == I \ ws
  <2>3. IsFiniteSet(B) /\ IsFiniteSet(A)
    BY <1>3
  <2>4. Cardinality(B \cup A) = Cardinality(B) + Cardinality(A) - Cardinality(B \cap A)
    <3> HIDE DEF B, A
    <3> QED
      BY <2>3, FS_Union
  <2> HIDE DEF I, A, K
  <2> QED
    BY <1>3, <2>1, <2>2, <2>4
<1>7. Cardinality(A) = IF t = s THEN Cardinality(ws) ELSE 0
  BY FS_EmptySet
<1>8. count'[t] = CountDown(count[t], Leavers(ws, t)) + Cardinality(A)
  BY <1>7 DEF CountAfter
<1>9. Room(t)' = Cardinality(K) + strays[t]
  BY DEF Room, In
<1> HIDE DEF I, J, A, L, K
<1> QED
  BY <1>2, <1>3, <1>4, <1>5, <1>6, <1>8, <1>9 DEF CountDown

LEMMA JoinRooms ==
  ASSUME TypeOK, RoomInv, NEW ws \in SUBSET Sockets, NEW s \in Sessions, Join(ws, s), live'[s] # "no",
         \A t \in Sessions \ {s} : live'[t] = live[t]
  PROVE  RoomInv'
<1>1. ActIsLive'
  BY OnIsOn DEF Join, ActIsLive, RoomInv, TypeOK
<1>2. ASSUME NEW t \in Sessions PROVE DeadIsEmpty(t)'
  <2>0. SUFFICES ASSUME live'[t] = "no" PROVE count'[t] = 0 /\ strays'[t] = 0 /\ \A w \in Sockets : act'[w] # On(t)
    BY DEF DeadIsEmpty
  <2>1. t # s /\ live[t] = "no"
    BY <2>0
  <2>2. count[t] = 0 /\ strays[t] = 0 /\ \A w \in Sockets : act[w] # On(t)
    BY <2>1 DEF RoomInv, RoomOf, DeadIsEmpty
  <2>3. count'[t] = 0
    BY <2>1, <2>2 DEF Join, CountAfter, Leavers, CountDown
  <2> QED
    BY <2>1, <2>2, <2>3, OnIsOn DEF Join
<1>3. ASSUME NEW t \in Sessions, t \notin twice' PROVE count'[t] = Room(t)'
  <2>1. In(t)' = (In(t) \ ws) \cup (IF t = s THEN ws ELSE {})
    BY OnIsOn DEF Join, In
  <2> QED
    BY <1>3, <2>1, CountRooms DEF Join
<1> QED
  BY <1>1, <1>2, <1>3 DEF RoomInv, RoomOf

LEMMA LeaveRooms ==
  ASSUME TypeOK, RoomInv, NEW w \in Sockets, Leave(w), UNCHANGED live
  PROVE  RoomInv'
<1>0. /\ act[w] \in [s : Sessions \cup {None}, on : BOOLEAN] /\ act \in [Sockets -> [s : Sessions \cup {None}, on : BOOLEAN]]
      /\ act' = [act EXCEPT ![w].on = FALSE]
  BY DEF Leave, TypeOK
<1>1. act'[w] = [act[w] EXCEPT !.on = FALSE] /\ act'[w].on = FALSE /\ \A x \in Sockets \ {w} : act'[x] = act[x]
  BY <1>0
<1>2. ActIsLive'
  BY <1>1 DEF ActIsLive, RoomInv
<1>3. \A t : act'[w] # On(t)
  BY <1>1, OnIsOn
<1>4. ASSUME NEW t \in Sessions PROVE DeadIsEmpty(t)'
  <2>0. SUFFICES ASSUME live'[t] = "no" PROVE count'[t] = 0 /\ strays'[t] = 0 /\ \A x \in Sockets : act'[x] # On(t)
    BY DEF DeadIsEmpty
  <2>2. live[t] = "no" /\ count[t] = 0 /\ strays[t] = 0 /\ \A x \in Sockets : act[x] # On(t)
    BY <2>0 DEF RoomInv, RoomOf, DeadIsEmpty
  <2>3. t # None
    BY HostAssumption DEF HostAssumption
  <2>4. count'[t] = 0 /\ strays'[t] = 0
    BY <2>2, <2>3 DEF Leave, CountAfter, Leavers, CountDown
  <2>5. ASSUME NEW x \in Sockets PROVE act'[x] # On(t)
    <3>1. CASE x = w
      BY <3>1, <1>3
    <3>2. CASE x # w
      BY <3>2, <1>1, <2>2
    <3> QED
      BY <3>1, <3>2
  <2> QED
    BY <2>4, <2>5
<1>5. ASSUME NEW t \in Sessions, t \notin twice' PROVE count'[t] = Room(t)'
  <2>1. t # None
    BY HostAssumption DEF HostAssumption
  <2>2. In(t)' = (In(t) \ {w}) \cup (IF t = None THEN {w} ELSE {})
    BY <1>1, <1>3, <2>1 DEF In
  <2> QED
    BY <1>5, <2>2, CountRooms, {w} \in SUBSET Sockets, None \in Sessions \cup {None} DEF Leave
<1> QED
  BY <1>2, <1>4, <1>5 DEF RoomInv, RoomOf

LEMMA OverwriteRooms ==
  ASSUME TypeOK, RoomInv, NEW w \in Sockets, NEW s \in Sessions, Overwrite(w, s), live[s] = "no",
         live'[s] # "no", \A t \in Sessions \ {s} : live'[t] = live[t]
  PROVE  RoomInv'
<1>0. /\ act' = [act EXCEPT ![w] = On(s)] /\ count' = [count EXCEPT ![s] = 1] /\ twice' = twice
      /\ strays' = IF act[w].on THEN [strays EXCEPT ![act[w].s] = @ + 1] ELSE strays
      /\ act[w] \in [s : Sessions \cup {None}, on : BOOLEAN]
  BY DEF Overwrite, TypeOK
<1>1. act'[w] = On(s) /\ \A x \in Sockets \ {w} : act'[x] = act[x]
  BY <1>0 DEF TypeOK
<1>2. ActIsLive'
  <2>1. ASSUME NEW x \in Sockets, act'[x].on PROVE act'[x].s \in Sessions
    <3>1. CASE x = w
      BY <1>1, <3>1, OnIsOn
    <3>2. CASE x # w
      BY <1>1, <2>1, <3>2 DEF ActIsLive, RoomInv
    <3> QED
      BY <3>1, <3>2
  <2> QED
    BY <2>1 DEF ActIsLive
<1>3. act[w].on => act[w].s \in Sessions \ {s} /\ act[w] = On(act[w].s)
  BY <1>0, OnIsRecord DEF ActIsLive, RoomInv, RoomOf, DeadIsEmpty
<1>x. ASSUME NEW t \in Sessions, t # s, NEW x \in Sockets PROVE act'[x] = On(t) <=> x # w /\ act[x] = On(t)
  <2>1. CASE x = w
    BY <1>1, <1>x, <2>1, OnIsOn
  <2>2. CASE x # w
    BY <1>1, <2>2
  <2> QED
    BY <2>1, <2>2
<1>4. ASSUME NEW t \in Sessions PROVE DeadIsEmpty(t)'
  <2>0. SUFFICES ASSUME live'[t] = "no" PROVE count'[t] = 0 /\ strays'[t] = 0 /\ \A x \in Sockets : act'[x] # On(t)
    BY DEF DeadIsEmpty
  <2>1. t # s /\ live[t] = "no"
    BY <2>0
  <2>2. count[t] = 0 /\ strays[t] = 0 /\ \A x \in Sockets : act[x] # On(t)
    BY <2>1 DEF RoomInv, RoomOf, DeadIsEmpty
  <2>3. act[w].on => act[w].s # t
    BY <1>3, <2>2
  <2>4. strays'[t] = strays[t] /\ count'[t] = count[t]
    BY <1>0, <2>1, <2>3 DEF TypeOK
  <2> QED
    BY <1>1, <2>1, <2>2, <2>4, OnIsOn
<1>5. ASSUME NEW t \in Sessions, t \notin twice' PROVE count'[t] = Room(t)'
  <2> DEFINE I == In(t)  K == In(t)'
  <2>0. I \in SUBSET Sockets /\ IsFiniteSet(I) /\ Cardinality(I) \in Nat /\ strays[t] \in Nat
        /\ count[t] = Cardinality(I) + strays[t]
    <3>1. I \in SUBSET Sockets
      BY DEF In
    <3>2. count[t] = Cardinality(I) + strays[t]
      BY <1>0, <1>5 DEF RoomInv, RoomOf, Room, In
    <3> HIDE DEF I
    <3> QED
      BY <3>1, <3>2, FiniteSockets DEF TypeOK
  <2>1. Room(t)' = Cardinality(K) + strays'[t]
    BY DEF Room, In
  <2>2. CASE t = s
    <3>1. K = {w} /\ strays[t] = 0 /\ strays'[t] = strays[t] /\ count'[t] = 1
      BY <1>0, <1>1, <1>3, <2>2, OnIsOn DEF In, RoomInv, RoomOf, DeadIsEmpty, TypeOK
    <3> HIDE DEF K
    <3> QED
      BY <2>1, <3>1, FS_Singleton
  <2>3. CASE t # s /\ act[w] = On(t)
    <3>1. w \in I /\ K = I \ {w}
      BY <1>x, <2>3 DEF In
    <3>2. strays'[t] = strays[t] + 1 /\ count'[t] = count[t]
      BY <1>0, <2>3, OnIsOn DEF TypeOK
    <3> HIDE DEF I, K
    <3>3. Cardinality(K) = Cardinality(I) - 1
      BY <2>0, <3>1, FS_RemoveElement
    <3> QED
      BY <2>0, <2>1, <3>2, <3>3, FiniteSockets
  <2>4. CASE t # s /\ act[w] # On(t)
    <3>1. K = I
      BY <1>x, <2>4 DEF In
    <3>2. strays'[t] = strays[t] /\ count'[t] = count[t]
      BY <1>0, <1>3, <2>4 DEF TypeOK
    <3> HIDE DEF I, K
    <3> QED
      BY <2>0, <2>1, <3>1, <3>2
  <2> QED
    BY <2>2, <2>3, <2>4
<1> QED
  BY <1>2, <1>4, <1>5 DEF RoomInv, RoomOf

LEMMA GoneRooms ==
  ASSUME TypeOK, RoomInv, NEW s \in Sessions, Gone(s)
  PROVE  RoomInv'
<1>0. /\ act' = [w \in Sockets |-> IF act[w].s = s THEN [act[w] EXCEPT !.on = FALSE] ELSE act[w]]
      /\ count' = [count EXCEPT ![s] = 0] /\ strays' = [strays EXCEPT ![s] = 0]
      /\ live' = [live EXCEPT ![s] = "no"] /\ twice' = twice \ {s}
  BY DEF Gone, RoomAfter
<1>1. ASSUME NEW w \in Sockets
      PROVE /\ act[w].s = s => act'[w].on = FALSE
            /\ act[w].s # s => act'[w] = act[w]
  <2>1. act[w] \in [s : Sessions \cup {None}, on : BOOLEAN]
    BY DEF TypeOK
  <2> QED
    BY <1>0, <2>1
<1>2. ActIsLive'
  BY <1>1 DEF ActIsLive, RoomInv
<1>x. ASSUME NEW t \in Sessions, NEW w \in Sockets PROVE act'[w] = On(t) <=> t # s /\ act[w] = On(t)
  <2>1. CASE act[w].s = s
    BY <1>1, <2>1, OnIsOn
  <2>2. CASE act[w].s # s
    BY <1>1, <2>2, OnIsOn
  <2> QED
    BY <2>1, <2>2
<1>3. In(s)' = {}
  BY <1>x DEF In
<1>4. ASSUME NEW t \in Sessions, t # s PROVE In(t)' = In(t)
  BY <1>x, <1>4 DEF In
<1>5. count'[s] = 0 /\ strays'[s] = 0 /\ \A t \in Sessions \ {s} : count'[t] = count[t] /\ strays'[t] = strays[t] /\ live'[t] = live[t]
  BY <1>0 DEF TypeOK
<1>6. RoomOf(s)'
  <2>1. Cardinality({w \in Sockets : act'[w] = On(s)}) = 0
    BY <1>3, FS_EmptySet DEF In
  <2> QED
    BY <1>3, <1>5, <2>1 DEF RoomOf, Room, DeadIsEmpty, In
<1>7. ASSUME NEW t \in Sessions, t # s PROVE RoomOf(t)'
  <2>1. {w \in Sockets : act'[w] = On(t)} = {w \in Sockets : act[w] = On(t)}
    BY <1>4, <1>7 DEF In
  <2>2. RoomOf(t)
    BY DEF RoomInv
  <2> QED
    BY <1>0, <1>5, <1>7, <2>1, <2>2 DEF RoomOf, Room, DeadIsEmpty
<1> QED
  BY <1>2, <1>6, <1>7 DEF RoomInv

-----------------------------------------------------------------------------
(* Flows and tabs.                                                         *)

LEMMA FlowFields ==
  ASSUME NEW w, NEW kind, NEW s, NEW up
  PROVE  LET f == Flow(w, kind, s, up) IN f.w = w /\ f.kind = kind /\ f.s = s /\ f.up = up
  BY DEF Flow

LEMMA NextFields ==
  ASSUME TypeOK, NEW f \in flows, NEW kind \in Kinds, NEW s \in Sessions \cup {None}
  PROVE  LET g == [f EXCEPT !.kind = kind, !.s = s] IN g.w = f.w /\ g.kind = kind /\ g.s = s
<1>1. f \in [w : Sockets, kind : Kinds, s : Sessions \cup {None}, up : BOOLEAN]
  BY DEF TypeOK
<1> QED
  BY <1>1

LEMMA FlowTyped ==
  ASSUME TypeOK, NEW f \in flows
  PROVE  f.w \in Sockets /\ f.kind \in Kinds /\ f.s \in Sessions \cup {None}
  BY DEF TypeOK

SameFlows(w) ==
  /\ \A f \in flows : f.w = w => f \in flows'
  /\ \A f \in flows' : f.w = w => f \in flows

SameTab(w) ==
  /\ sock'[w] = sock[w] /\ act'[w] = act[w] /\ view'[w] = view[w] /\ (card[w] => card'[w])
  /\ SameFlows(w)
  /\ w \in slipped => w \in slipped'
  /\ w \in yanked => w \in yanked'

(* No session ends, and no turn starts to wait.                            *)
Onwards ==
  \A s \in Sessions : /\ live[s] # "no" => live'[s] # "no"
                      /\ pend'[s] = "live" => pend[s] = "live"

LEMMA TabStays ==
  ASSUME FlowsNamed, NEW w \in Sockets, TabOf(w), SameTab(w), Onwards
  PROVE  TabOf(w)'
<1>1. Unseen(w)'
  BY DEF TabOf, Unseen, SameTab, SameFlows
<1>2. OneHandler(w)'
  <2>0. SUFFICES ASSUME w \notin slipped' PROVE OneHandler(w)'
    BY DEF OneHandler
  <2>1. w \notin slipped /\ \A f \in flows' : f.w = w => f \in flows
    BY <2>0 DEF SameTab, SameFlows
  <2>2. \A f, g \in flows' : f.w = w /\ g.w = w => f = g
    BY <2>1 DEF TabOf, OneHandler
  <2>3. \A f \in flows' : f.w = w => sock'[w] = "open"
    BY <2>1 DEF TabOf, OneHandler, SameTab
  <2>4. ASSUME NEW f \in flows', f.w = w, f.kind = "burst" PROVE act'[w] = On(f.s) /\ live'[f.s] # "no"
    <3>1. f \in flows /\ f.s \in Sessions
      BY <2>1, <2>4 DEF FlowsNamed
    <3>2. act[w] = On(f.s) /\ live[f.s] # "no"
      BY <2>1, <2>4, <3>1 DEF TabOf, OneHandler
    <3> QED
      BY <3>1, <3>2 DEF SameTab, Onwards
  <2> QED
    BY <2>2, <2>3, <2>4 DEF OneHandler
<1>3. ViewAgrees(w)'
  <2>0. SUFFICES ASSUME w \notin slipped' \cup yanked', Shown(w)', view'[w] # None
                 PROVE act'[w] = On(view'[w]) /\ view'[w] \in Live' /\ (pend'[view'[w]] = "live" => card'[w])
    BY DEF ViewAgrees
  <2>1. w \notin slipped \cup yanked /\ Shown(w) /\ view[w] # None /\ view'[w] = view[w]
    BY <2>0 DEF SameTab, SameFlows, Shown
  <2>2. act[w] = On(view[w]) /\ view[w] \in Live /\ (pend[view[w]] = "live" => card[w])
    BY <2>1 DEF TabOf, ViewAgrees
  <2>3. view[w] \in Sessions /\ live[view[w]] # "no"
    BY <2>2 DEF Live
  <2> QED
    BY <2>1, <2>2, <2>3 DEF SameTab, Onwards, Live
<1> QED
  BY <1>1, <1>2, <1>3 DEF TabOf

(* A socket without a flow, or with one.                                   *)
LEMMA QuietTab ==
  ASSUME NEW w \in Sockets, Unseen(w)',
         w \notin slipped' => \A f \in flows' : f.w # w,
         w \notin slipped' \cup yanked' /\ view'[w] # None =>
           act'[w] = On(view'[w]) /\ view'[w] \in Live' /\ (pend'[view'[w]] = "live" => card'[w])
  PROVE  TabOf(w)'
  BY DEF TabOf, OneHandler, ViewAgrees

LEMMA BusyTab ==
  ASSUME NEW w \in Sockets, Unseen(w)', NEW f,
         w \notin slipped' =>
           /\ f \in flows' /\ f.w = w /\ (\A g \in flows' : g.w = w => g = f) /\ sock'[w] = "open"
           /\ f.kind = "burst" => act'[w] = On(f.s) /\ live'[f.s] # "no",
         w \notin slipped' \cup yanked' /\ f.kind \notin {"burst", "new"} /\ view'[w] # None =>
           act'[w] = On(view'[w]) /\ view'[w] \in Live' /\ (pend'[view'[w]] = "live" => card'[w])
  PROVE  TabOf(w)'
<1>1. OneHandler(w)'
  BY DEF OneHandler
<1>2. ViewAgrees(w)'
  <2>0. SUFFICES ASSUME w \notin slipped' \cup yanked', Shown(w)', view'[w] # None
                 PROVE act'[w] = On(view'[w]) /\ view'[w] \in Live' /\ (pend'[view'[w]] = "live" => card'[w])
    BY DEF ViewAgrees
  <2>1. f.kind \notin {"burst", "new"}
    BY <2>0 DEF Shown
  <2> QED
    BY <2>0, <2>1
<1> QED
  BY <1>1, <1>2 DEF TabOf

LEMMA BeginsFlows ==
  ASSUME TypeOK, TabInv, NEW w \in Sockets, NEW kind, NEW s, NEW up, Begins(w, kind, s, up)
  PROVE  /\ \A x \in Sockets \ {w} : SameFlows(x) /\ (x \in slipped => x \in slipped')
         /\ w \notin slipped' => /\ w \notin slipped /\ sock[w] # "closed"
                                 /\ \A f \in flows : f.w # w
                                 /\ \A g \in flows' : g.w = w => g = Flow(w, kind, s, up)
         /\ Flow(w, kind, s, up) \in flows'
<1>1. /\ flows' = flows \cup {Flow(w, kind, s, up)} /\ Flow(w, kind, s, up).w = w
      /\ slipped' = IF Quiet(w) \/ sock[w] = "off" THEN slipped ELSE slipped \cup {w}
  BY FlowFields DEF Begins
<1>2. \A x \in Sockets \ {w} : SameFlows(x) /\ (x \in slipped => x \in slipped')
  BY <1>1 DEF SameFlows
<1>3. ASSUME w \notin slipped'
      PROVE w \notin slipped /\ sock[w] # "closed" /\ \A f \in flows : f.w # w
  <2>1. w \notin slipped /\ (Quiet(w) \/ sock[w] = "off")
    BY <1>1, <1>3
  <2>2. CASE Quiet(w)
    BY <2>1, <2>2 DEF Quiet, Open
  <2>3. CASE sock[w] = "off"
    BY <2>1, <2>3 DEF TabInv, TabOf, Unseen
  <2> QED
    BY <2>1, <2>2, <2>3
<1> QED
  BY <1>1, <1>2, <1>3

(* The socket w alone moves.                                               *)
LEMMA OneTabChanges ==
  ASSUME FlowsNamed, TabInv, Onwards, NEW w \in Sockets, TabOf(w)', \A x \in Sockets \ {w} : SameTab(x)
  PROVE  TabInv'
  BY TabStays DEF TabInv

LEMMA BeginsTab ==
  ASSUME TypeOK, FlowsNamed, TabInv, Onwards, NEW w \in Sockets, NEW kind \in Kinds, NEW s, NEW up, Begins(w, kind, s, up),
         \A x \in Sockets \ {w} : act'[x] = act[x] /\ sock'[x] = sock[x],
         sock'[w] = "open", UNCHANGED <<view, card, yanked>>,
         kind \in {"burst", "new"} \/ act'[w] = act[w],
         kind = "burst" => act'[w] = On(s) /\ live'[s] # "no"
  PROVE  TabInv'
<1> DEFINE f == Flow(w, kind, s, up)
<1>1. f.w = w /\ f.kind = kind /\ f.s = s
  BY FlowFields
<1> HIDE DEF f
<1>2. /\ \A x \in Sockets \ {w} : SameFlows(x) /\ (x \in slipped => x \in slipped')
      /\ w \notin slipped' => /\ w \notin slipped
                              /\ \A g \in flows : g.w # w
                              /\ \A g \in flows' : g.w = w => g = f
      /\ f \in flows'
  BY BeginsFlows DEF f
<1>3. \A x \in Sockets \ {w} : SameTab(x)
  BY <1>2 DEF SameTab
<1>4. Unseen(w)'
  BY DEF Unseen
<1>5. ASSUME w \notin slipped' \cup yanked', kind \notin {"burst", "new"}, view'[w] # None
      PROVE act'[w] = On(view'[w]) /\ view'[w] \in Live' /\ (pend'[view'[w]] = "live" => card'[w])
  <2>1. Shown(w) /\ w \notin slipped \cup yanked /\ act'[w] = act[w] /\ view'[w] = view[w] /\ card'[w] = card[w]
    BY <1>2, <1>5 DEF Shown
  <2>2. act[w] = On(view[w]) /\ view[w] \in Live /\ (pend[view[w]] = "live" => card[w])
    BY <1>5, <2>1 DEF TabInv, TabOf, ViewAgrees
  <2> QED
    BY <2>1, <2>2 DEF Onwards, Live
<1>6. TabOf(w)'
  BY <1>1, <1>2, <1>4, <1>5, BusyTab
<1> QED
  BY <1>3, <1>6, OneTabChanges

LEMMA OnwardsStay ==
  ASSUME UNCHANGED <<live, pend>>
  PROVE  Onwards
  BY DEF Onwards

LEMMA AttachTabs ==
  ASSUME TypeOK, FlowsNamed, TabInv, NEW w \in Sockets, NEW s \in Sessions, NEW up, Attach(w, s, up),
         \A x \in Sockets \ {w} : sock'[x] = sock[x], sock'[w] = "open"
  PROVE  TabInv'
<1>1. /\ live[s] # "no" /\ Join({w}, s) /\ Begins(w, "burst", s, up) /\ "burst" \in Kinds
      /\ UNCHANGED <<view, card, yanked, live, pend>>
  BY DEF Attach, NoTurnChange, turnVars, Kinds
<1>2. act'[w] = On(s) /\ \A x \in Sockets \ {w} : act'[x] = act[x]
  BY <1>1 DEF Join, TypeOK
<1>3. Onwards
  BY <1>1, OnwardsStay
<1>4. live'[s] # "no"
  BY <1>1
<1> QED
  BY <1>1, <1>2, <1>3, <1>4, BeginsTab

LEMMA WaitTabs ==
  ASSUME TypeOK, FlowsNamed, TabInv, NEW w \in Sockets, NEW kind \in Kinds, NEW s, NEW up,
         Begins(w, kind, s, up), kind \notin {"burst", "new"},
         UNCHANGED <<act, view, card, yanked, live, pend>>,
         \A x \in Sockets \ {w} : sock'[x] = sock[x], sock'[w] = "open"
  PROVE  TabInv'
  BY BeginsTab, OnwardsStay

LEMMA ResumeTabs ==
  ASSUME TypeOK, FlowsNamed, TabInv, NEW w \in Sockets, NEW s \in Sessions, NEW up, Resume(w, s, up),
         \A x \in Sockets \ {w} : sock'[x] = sock[x], sock'[w] = "open"
  PROVE  TabInv'
<1>1. CASE Attach(w, s, up)
  BY <1>1, AttachTabs
<1>2. CASE Begins(w, "look", s, up) /\ UNCHANGED <<act, view, card, hostVars, yanked, twice>> /\ NoTurnChange
  <2>1. UNCHANGED <<act, view, card, yanked, live, pend>> /\ "look" \in Kinds
    BY <1>2 DEF hostVars, NoTurnChange, turnVars, Kinds
  <2> QED
    BY <1>2, <2>1, WaitTabs
<1> QED
  BY <1>1, <1>2 DEF Resume

LEMMA StartTabs ==
  ASSUME TypeOK, FlowsNamed, TabInv, NEW w \in Sockets,
         Connect(w) \/ SwitchSession(w) \/ LoadLog(w) \/ CreateSession(w) \/ Fork(w) \/ Close(w)
  PROVE  TabInv'
<1>0. "fresh" \in Kinds /\ "new" \in Kinds /\ "fork" \in Kinds
  BY DEF Kinds
<1>1. CASE Connect(w)
  <2>1. sock'[w] = "open" /\ \A x \in Sockets \ {w} : sock'[x] = sock[x]
    BY <1>1 DEF Connect, TypeOK
  <2>2. ASSUME NEW s \in Sessions, Resume(w, s, TRUE) PROVE TabInv'
    BY <2>1, <2>2, ResumeTabs
  <2>3. ASSUME NEW s \in Sessions, Attach(w, s, TRUE) PROVE TabInv'
    BY <2>1, <2>3, AttachTabs
  <2>4. CASE Begins(w, "fresh", None, TRUE)
             /\ UNCHANGED <<act, view, card, hostVars, yanked, twice>> /\ NoTurnChange
    <3>1. UNCHANGED <<act, view, card, yanked, live, pend>>
      BY <2>4 DEF hostVars, NoTurnChange, turnVars
    <3> QED
      BY <1>0, <2>1, <2>4, <3>1, WaitTabs
  <2> QED
    BY <1>1, <2>2, <2>3, <2>4 DEF Connect, Live, TypeOK
<1>2. CASE SwitchSession(w) \/ LoadLog(w)
  <2>1. sock'[w] = "open" /\ \A x \in Sockets \ {w} : sock'[x] = sock[x]
    BY <1>2 DEF SwitchSession, LoadLog, Open
  <2>2. ASSUME NEW s \in Sessions, Resume(w, s, FALSE) PROVE TabInv'
    BY <2>1, <2>2, ResumeTabs
  <2>3. ASSUME NEW s \in Sessions, Attach(w, s, FALSE) PROVE TabInv'
    BY <2>1, <2>3, AttachTabs
  <2> QED
    BY <1>2, <2>2, <2>3 DEF SwitchSession, LoadLog, TypeOK
<1>3. CASE CreateSession(w)
  <2>1. /\ sock'[w] = "open" /\ \A x \in Sockets \ {w} : sock'[x] = sock[x]
        /\ UNCHANGED <<view, card, yanked, live, pend>> /\ Begins(w, "new", None, FALSE)
    BY <1>3 DEF CreateSession, Open, turnVars
  <2>2. \A x \in Sockets \ {w} : act'[x] = act[x]
    BY <1>3 DEF CreateSession, Leave, TypeOK
  <2>3. Onwards
    BY <2>1, OnwardsStay
  <2> QED
    BY <1>0, <2>1, <2>2, <2>3, BeginsTab
<1>4. CASE Fork(w)
  <2>1. /\ sock'[w] = "open" /\ \A x \in Sockets \ {w} : sock'[x] = sock[x]
        /\ UNCHANGED <<act, view, card, yanked, live, pend>>
    BY <1>4 DEF Fork, Open, turnVars, hostVars
  <2>2. PICK s \in Sessions : Begins(w, "fork", s, FALSE)
    BY <1>4 DEF Fork, Begins, Live
  <2> QED
    BY <1>0, <2>1, <2>2, WaitTabs
<1>5. CASE Close(w)
  <2>1. /\ sock'[w] = "closed" /\ \A x \in Sockets \ {w} : sock'[x] = sock[x]
        /\ view'[w] = None /\ \A x \in Sockets \ {w} : view'[x] = view[x] /\ card'[x] = card[x]
        /\ UNCHANGED <<flows, yanked, live, pend>>
        /\ slipped' = IF Quiet(w) THEN slipped ELSE slipped \cup {w}
    BY <1>5 DEF Close, TypeOK, turnVars
  <2>2. \A x \in Sockets \ {w} : act'[x] = act[x]
    BY <1>5 DEF Close, Leave, TypeOK
  <2>3. Onwards /\ \A x \in Sockets \ {w} : SameTab(x)
    BY <2>1, <2>2, OnwardsStay DEF SameTab, SameFlows
  <2>4. w \notin slipped' => \A f \in flows' : f.w # w
    BY <2>1 DEF Quiet
  <2>5. TabOf(w)'
    BY <2>1, <2>4, QuietTab DEF Unseen
  <2> QED
    BY <2>3, <2>5, OneTabChanges
<1> QED
  BY <1>1, <1>2, <1>3, <1>4, <1>5

(* A flow that goes on: the socket has the next one instead.               *)
NextOf(f, kind, s) == [f EXCEPT !.kind = kind, !.s = s]

LEMMA BecomesFlows ==
  ASSUME TypeOK, TabInv, NEW f \in flows, NEW kind \in Kinds, NEW s \in Sessions \cup {None},
         Becomes(f, kind, s), UNCHANGED slipped
  PROVE  /\ \A x \in Sockets \ {f.w} : SameFlows(x)
         /\ NextOf(f, kind, s).w = f.w /\ NextOf(f, kind, s).kind = kind /\ NextOf(f, kind, s).s = s
         /\ f.w \notin slipped => /\ NextOf(f, kind, s) \in flows'
                                 /\ \A h \in flows' : h.w = f.w => h = NextOf(f, kind, s)
<1> DEFINE g == NextOf(f, kind, s)
<1>1. g.w = f.w /\ g.kind = kind /\ g.s = s
  BY NextFields DEF NextOf
<1>2. flows' = (flows \ {f}) \cup {g}
  BY DEF Becomes, NextOf
<1> HIDE DEF g
<1>3. \A x \in Sockets \ {f.w} : SameFlows(x)
  BY <1>1, <1>2 DEF SameFlows
<1>4. ASSUME f.w \notin slipped PROVE g \in flows' /\ \A h \in flows' : h.w = f.w => h = g
  <2>1. \A h \in flows : h.w = f.w => h = f
    BY <1>4, FlowTyped DEF TabInv, TabOf, OneHandler
  <2> QED
    BY <1>2, <2>1
<1> QED
  BY <1>1, <1>3, <1>4 DEF g

(* A flow that goes on without showing anything.                           *)
LEMMA BecomesTabs ==
  ASSUME TypeOK, FlowsNamed, TabInv, NEW f \in flows, f.kind \notin {"burst", "new"},
         NEW kind \in Kinds \ {"burst", "new"}, NEW s \in Sessions \cup {None}, Becomes(f, kind, s),
         UNCHANGED <<sock, act, view, card, slipped, yanked, live, pend>>
  PROVE  TabInv'
<1>0. kind \in Kinds
  OBVIOUS
<1>1. PICK g : /\ g = NextOf(f, kind, s) /\ \A x \in Sockets \ {f.w} : SameFlows(x)
               /\ g.w = f.w /\ g.kind = kind
               /\ f.w \notin slipped => g \in flows' /\ \A h \in flows' : h.w = f.w => h = g
  BY <1>0, BecomesFlows
<1>2. Onwards /\ f.w \in Sockets /\ \A x \in Sockets \ {f.w} : SameTab(x)
  BY <1>1, OnwardsStay, FlowTyped DEF SameTab
<1>3. f.w \notin slipped => sock[f.w] = "open" /\ Shown(f.w)
  BY <1>2 DEF TabInv, TabOf, OneHandler, Shown
<1>4. Unseen(f.w)'
  <2>1. sock[f.w] # "off"
    BY <1>2 DEF TabInv, TabOf, Unseen
  <2> QED
    BY <1>2, <2>1 DEF TabInv, TabOf, Unseen
<1>5. ASSUME f.w \notin slipped' \cup yanked', view'[f.w] # None
      PROVE act'[f.w] = On(view'[f.w]) /\ view'[f.w] \in Live' /\ (pend'[view'[f.w]] = "live" => card'[f.w])
  BY <1>2, <1>3, <1>5 DEF TabInv, TabOf, ViewAgrees, Live
<1>6. TabOf(f.w)'
  <2>1. f.w \notin slipped' => /\ g \in flows' /\ g.w = f.w /\ (\A h \in flows' : h.w = f.w => h = g) /\ sock'[f.w] = "open"
                               /\ g.kind = "burst" => act'[f.w] = On(g.s) /\ live'[g.s] # "no"
    BY <1>1, <1>3
  <2> QED
    BY <1>2, <1>4, <1>5, <2>1, BusyTab
<1> QED
  BY <1>2, <1>6, OneTabChanges

(* A flow that ends: its socket shows the session s it is subscribed to.     *)
LEMMA ShowsTab ==
  ASSUME TypeOK, TabInv, NEW f \in flows, flows' = flows \ {f}, NEW s \in Sessions, NEW asked,
         sock' = sock, f.w \in slipped => f.w \in slipped',
         view'[f.w] = IF f.w \in Open THEN s ELSE view[f.w],
         card'[f.w] = IF f.w \in Open THEN asked ELSE card[f.w],
         act'[f.w] = On(s), live'[s] # "no", pend'[s] = "live" => asked
  PROVE  TabOf(f.w)'
<1>1. f.w \in Sockets /\ s \in Live'
  BY FlowTyped DEF Live
<1>2. sock[f.w] # "off"
  BY <1>1 DEF TabInv, TabOf, Unseen
<1>3. Unseen(f.w)'
  BY <1>1, <1>2 DEF TabInv, TabOf, Unseen, Open
<1>4. ASSUME f.w \notin slipped' PROVE f.w \in Open /\ \A g \in flows' : g.w # f.w
  BY <1>1, <1>4 DEF TabInv, TabOf, OneHandler, Open
<1> QED
  BY <1>1, <1>3, <1>4, QuietTab

LEMMA EndedFlows ==
  ASSUME NEW f \in flows, flows' = flows \ {f}
  PROVE  \A x \in Sockets \ {f.w} : SameFlows(x)
  BY DEF SameFlows

LEMMA FallTabs ==
  ASSUME TypeOK, FlowsNamed, TabInv, NEW f \in flows, f.kind = "fall", NEW s \in Live,
         Join({f.w}, s), Becomes(f, "burst", s), UNCHANGED <<sock, view, card, live, pend, slipped, yanked>>
  PROVE  TabInv'
<1>0. s \in Sessions /\ s \in Sessions \cup {None} /\ live[s] # "no" /\ "burst" \in Kinds
  BY DEF Live, Kinds
<1>1. PICK g : /\ g = NextOf(f, "burst", s) /\ \A x \in Sockets \ {f.w} : SameFlows(x)
               /\ g.w = f.w /\ g.kind = "burst" /\ g.s = s
               /\ f.w \notin slipped => g \in flows' /\ \A h \in flows' : h.w = f.w => h = g
  BY <1>0, BecomesFlows
<1>2. act'[f.w] = On(s) /\ f.w \in Sockets /\ \A x \in Sockets \ {f.w} : act'[x] = act[x]
  BY FlowTyped DEF Join, TypeOK
<1>3. Onwards /\ \A x \in Sockets \ {f.w} : SameTab(x)
  BY <1>1, <1>2, OnwardsStay DEF SameTab
<1>4. Unseen(f.w)' /\ (f.w \notin slipped => sock[f.w] = "open")
  BY <1>2 DEF TabInv, TabOf, Unseen, OneHandler
<1>5. TabOf(f.w)'
  <2>1. f.w \notin slipped' => /\ g \in flows' /\ g.w = f.w /\ (\A h \in flows' : h.w = f.w => h = g) /\ sock'[f.w] = "open"
                               /\ g.kind = "burst" => act'[f.w] = On(g.s) /\ live'[g.s] # "no"
    BY <1>0, <1>1, <1>2, <1>4
  <2>2. g.kind \in {"burst", "new"}
    BY <1>1
  <2> QED
    BY <1>2, <1>4, <2>1, <2>2, BusyTab
<1> QED
  BY <1>2, <1>3, <1>5, OneTabChanges

LEMMA FlowTabs ==
  ASSUME TypeOK, FlowsNamed, TabInv, NEW f \in flows,
         Burst(f) \/ Looked(f) \/ Refused(f) \/ Fall(f) \/ CreateFails(f)
  PROVE  TabInv'
<1>0. f.w \in Sockets /\ f.s \in Sessions \cup {None} /\ None \in Sessions \cup {None}
      /\ {"join", "adopt", "fall", "fresh"} \subseteq Kinds \ {"burst", "new"}
  BY FlowTyped DEF Kinds
<1>1. CASE Burst(f)
  <2>1. /\ f.kind = "burst" /\ flows' = flows \ {f} /\ Shows({f.w}, f.s, Asked(f.s)) /\ f.s \in Sessions
        /\ UNCHANGED <<sock, act, live, pend, slipped, yanked>>
    BY <1>1 DEF Burst, FlowsNamed, hostVars, turnVars, historyVars
  <2>2. Onwards /\ \A x \in Sockets \ {f.w} : SameTab(x)
    BY <2>1, OnwardsStay, EndedFlows DEF SameTab, Shows, TypeOK
  <2>3. CASE f.w \in slipped
    <3>1. TabOf(f.w)'
      BY <1>0, <2>1, <2>3 DEF TabInv, TabOf, Unseen, OneHandler, ViewAgrees, Shows, Open
    <3> QED
      BY <1>0, <2>2, <3>1, OneTabChanges
  <2>4. CASE f.w \notin slipped
    <3>1. act'[f.w] = On(f.s) /\ live'[f.s] # "no"
      BY <1>0, <2>1, <2>4 DEF TabInv, TabOf, OneHandler
    <3>2. /\ view'[f.w] = IF f.w \in Open THEN f.s ELSE view[f.w]
          /\ card'[f.w] = IF f.w \in Open THEN pend[f.s] # "none" ELSE card[f.w]
      BY <1>0, <2>1 DEF Shows, Asked
    <3>3. pend'[f.s] = "live" => pend[f.s] # "none"
      BY <2>1
    <3>4. TabOf(f.w)'
      BY <2>1, <3>1, <3>2, <3>3, ShowsTab
    <3> QED
      BY <1>0, <2>2, <3>4, OneTabChanges
  <2> QED
    BY <2>3, <2>4
<1>2. CASE Looked(f)
  <2>0. f.kind = "look" /\ f.s \in Sessions /\ UNCHANGED <<sock, pend, slipped, yanked>>
    BY <1>2 DEF Looked, FlowsNamed, turnVars
  <2>1. CASE Becomes(f, "join", f.s) /\ UNCHANGED <<act, view, card, live>>
    BY <1>0, <2>0, <2>1, BecomesTabs
  <2>2. CASE /\ live[f.s] # "no" /\ flows' = flows \ {f} /\ Join({f.w}, f.s)
             /\ Shows({f.w}, f.s, Asked(f.s)) /\ UNCHANGED live
    <3>1. act'[f.w] = On(f.s) /\ \A x \in Sockets \ {f.w} : act'[x] = act[x]
      BY <1>0, <2>2 DEF Join, TypeOK
    <3>2. Onwards /\ \A x \in Sockets \ {f.w} : SameTab(x)
      BY <2>0, <2>2, <3>1, OnwardsStay, EndedFlows DEF SameTab, Shows, TypeOK
    <3>3. /\ view'[f.w] = IF f.w \in Open THEN f.s ELSE view[f.w]
          /\ card'[f.w] = IF f.w \in Open THEN pend[f.s] # "none" ELSE card[f.w]
      BY <1>0, <2>2 DEF Shows, Asked
    <3>4. TabOf(f.w)'
      <4>1. (pend'[f.s] = "live" => pend[f.s] # "none") /\ live'[f.s] # "no"
        BY <2>0, <2>2
      <4> QED
        BY <2>0, <2>2, <3>1, <3>3, <4>1, ShowsTab
    <3> QED
      BY <1>0, <3>2, <3>4, OneTabChanges
  <2>3. CASE Becomes(f, "adopt", f.s) /\ UNCHANGED <<act, view, card, live>>
    BY <1>0, <2>0, <2>3, BecomesTabs
  <2> QED
    BY <1>2, <2>1, <2>2, <2>3 DEF Looked, LateJoiner, hostVars
<1>3. CASE Refused(f)
  <2>1. f.kind = "look" /\ Becomes(f, "fall", None) /\ UNCHANGED <<sock, act, view, card, slipped, yanked, live, pend>>
    BY <1>3 DEF Refused, hostVars, turnVars, historyVars
  <2> QED
    BY <1>0, <2>1, BecomesTabs
<1>4. CASE Fall(f)
  <2>0. f.kind = "fall" /\ UNCHANGED <<sock, view, card, live, pend, slipped, yanked>>
    BY <1>4 DEF Fall, turnVars
  <2>1. ASSUME NEW s \in Live, Join({f.w}, s), Becomes(f, "burst", s) PROVE TabInv'
    BY <2>0, <2>1, FallTabs
  <2>2. CASE Becomes(f, "fresh", None) /\ UNCHANGED act
    BY <1>0, <2>0, <2>2, BecomesTabs
  <2> QED
    BY <1>4, <2>1, <2>2 DEF Fall
<1>5. CASE CreateFails(f)
  <2>1. /\ f.kind \in {"fresh", "new", "fork"} /\ flows' = flows \ {f} /\ UNCHANGED <<live, pend, yanked>>
        /\ slipped' = IF f.kind = "fork" THEN slipped ELSE slipped \cup {f.w}
        /\ \A x \in Sockets \ {f.w} : x \in slipped => x \in slipped'
    BY <1>5 DEF CreateFails, turnVars
  <2>2. CASE /\ f.kind = "fresh"
             /\ sock' = [sock EXCEPT ![f.w] = "closed"] /\ Leave(f.w)
             /\ view' = [view EXCEPT ![f.w] = None] /\ card' = [card EXCEPT ![f.w] = FALSE]
    <3>1. \A x \in Sockets \ {f.w} : /\ act'[x] = act[x] /\ sock'[x] = sock[x] /\ view'[x] = view[x]
                                     /\ card'[x] = card[x]
      BY <2>2 DEF Leave, TypeOK
    <3>2. Onwards /\ \A x \in Sockets \ {f.w} : SameTab(x)
      BY <2>1, <3>1, OnwardsStay, EndedFlows DEF SameTab
    <3>3. f.w \in slipped' /\ view'[f.w] = None /\ sock'[f.w] = "closed"
      BY <1>0, <2>1, <2>2 DEF TypeOK
    <3>4. TabOf(f.w)'
      BY <1>0, <3>3, QuietTab DEF Unseen
    <3> QED
      BY <1>0, <3>2, <3>4, OneTabChanges
  <2>3. CASE UNCHANGED <<sock, act, view, card>>
    <3>1. Onwards /\ \A x \in Sockets \ {f.w} : SameTab(x)
      BY <2>1, <2>3, OnwardsStay, EndedFlows DEF SameTab
    <3>2. Unseen(f.w)'
      BY <1>0, <2>1, <2>3 DEF TabInv, TabOf, Unseen
    <3>3. ASSUME f.w \notin slipped' PROVE f.w \notin slipped /\ Shown(f.w) /\ \A g \in flows' : g.w # f.w
      <4>1. f.kind = "fork" /\ f.w \notin slipped
        BY <2>1, <3>3
      <4>2. \A g \in flows : g.w = f.w => g = f
        BY <1>0, <4>1 DEF TabInv, TabOf, OneHandler
      <4> QED
        BY <2>1, <4>1, <4>2 DEF Shown
    <3>4. ASSUME f.w \notin slipped' \cup yanked', view'[f.w] # None
          PROVE act'[f.w] = On(view'[f.w]) /\ view'[f.w] \in Live' /\ (pend'[view'[f.w]] = "live" => card'[f.w])
      BY <1>0, <2>1, <2>3, <3>3, <3>4 DEF TabInv, TabOf, ViewAgrees, Live
    <3>5. TabOf(f.w)'
      BY <1>0, <3>2, <3>3, <3>4, QuietTab
    <3> QED
      BY <1>0, <3>1, <3>5, OneTabChanges
  <2> QED
    BY <1>5, <2>2, <2>3 DEF CreateFails
<1> QED
  BY <1>1, <1>2, <1>3, <1>4, <1>5

(* A fresh session: whoever asked for it is shown it.                       *)
LEMMA CreatedTabs ==
  ASSUME TypeOK, FlowsNamed, TurnInv, TabInv, NEW f \in flows, NEW s \in Sessions, FreshDone(f, s) \/ NewDone(f, s)
  PROVE  TabInv'
<1>0. f.w \in Sockets
  BY FlowTyped
<1>1. /\ flows' = flows \ {f} /\ UNCHANGED <<sock, pend, slipped>> /\ Fresh(s) /\ live' = [live EXCEPT ![s] = "ready"]
      /\ Overwrite(f.w, s) \/ Join({f.w}, s)
  BY DEF FreshDone, NewDone, Registers
<1>2. act'[f.w] = On(s) /\ \A x \in Sockets \ {f.w} : act'[x] = act[x]
  BY <1>0, <1>1 DEF Overwrite, Join, TypeOK
<1>3. pend'[s] = "none" /\ live'[s] = "ready" /\ Onwards
  <2>1. pend[s] = "none"
    BY <1>1 DEF Fresh, TurnInv, TurnOf, DeadIsIdle
  <2>2. live'[s] = "ready" /\ \A x \in Sessions \ {s} : live'[x] = live[x]
    BY <1>1 DEF TypeOK
  <2> QED
    BY <1>1, <2>1, <2>2 DEF Onwards
<1>4. /\ view'[f.w] = IF f.w \in Open THEN s ELSE view[f.w]
      /\ card'[f.w] = IF f.w \in Open THEN FALSE ELSE card[f.w]
  BY <1>0 DEF FreshDone, NewDone, Shows
<1>5. TabOf(f.w)'
  BY <1>1, <1>2, <1>3, <1>4, ShowsTab
<1>6. ASSUME NEW x \in Sockets, x # f.w PROVE TabOf(x)'
  <2>1. SameFlows(x) /\ act'[x] = act[x] /\ sock'[x] = sock[x] /\ slipped' = slipped /\ TabOf(x)
    BY <1>1, <1>2, <1>6, EndedFlows DEF TabInv
  <2>2. CASE view'[x] = view[x] /\ card'[x] = card[x] /\ (x \in yanked => x \in yanked')
    <3>1. SameTab(x)
      BY <2>1, <2>2 DEF SameTab
    <3> QED
      BY <1>3, <2>1, <3>1, TabStays
  <2>3. CASE x \in Open /\ x \in yanked'
    <3>1. Unseen(x)' /\ ViewAgrees(x)'
      BY <2>1, <2>3 DEF Unseen, ViewAgrees, Open
    <3>2. OneHandler(x)'
      <4>0. SUFFICES ASSUME x \notin slipped' PROVE OneHandler(x)'
        BY DEF OneHandler
      <4>1. \A g \in flows' : g.w = x => g \in flows
        BY <2>1 DEF SameFlows
      <4>2. \A g, h \in flows' : g.w = x /\ h.w = x => g = h
        BY <2>1, <4>0, <4>1 DEF TabOf, OneHandler
      <4>3. ASSUME NEW g \in flows', g.w = x, g.kind = "burst" PROVE act'[x] = On(g.s) /\ live'[g.s] # "no"
        <5>1. g \in flows /\ g.s \in Sessions
          BY <4>1, <4>3 DEF FlowsNamed
        <5>2. act[x] = On(g.s) /\ live[g.s] # "no"
          BY <2>1, <4>0, <4>3, <5>1 DEF TabOf, OneHandler
        <5> QED
          BY <1>3, <2>1, <5>1, <5>2 DEF Onwards
      <4> QED
        BY <2>1, <2>3, <4>2, <4>3 DEF OneHandler, Open
    <3> QED
      BY <3>1, <3>2 DEF TabOf
  <2>4. CASE FreshDone(f, s)
    BY <1>6, <2>2, <2>4 DEF FreshDone, Shows, TypeOK
  <2>5. CASE NewDone(f, s)
    BY <1>6, <2>2, <2>3, <2>5 DEF NewDone, Shows, TypeOK, Open
  <2> QED
    BY <2>4, <2>5
<1> QED
  BY <1>5, <1>6 DEF TabInv

(* Those who waited for an adoption fall back: no one is shown anything.     *)
LEMMA FallsTabs ==
  ASSUME TypeOK, FlowsNamed, TabInv, NEW s \in Sessions, NEW gs, gs \subseteq Adopters(s),
         flows' = (flows \ Adopters(s)) \cup {Flow(f.w, "fall", None, TRUE) : f \in gs},
         UNCHANGED <<sock, act, view, card, slipped, yanked, live, pend>>
  PROVE  TabInv'
<1> DEFINE falls == {Flow(f.w, "fall", None, TRUE) : f \in gs}
<1>1. ASSUME NEW g \in falls PROVE g.kind = "fall" /\ g = Flow(g.w, "fall", None, TRUE) /\ \E f \in Adopters(s) : f.w = g.w
  <2>1. PICK f \in gs : g = Flow(f.w, "fall", None, TRUE)
    OBVIOUS
  <2>2. g.kind = "fall" /\ g.w = f.w
    BY <2>1 DEF Flow
  <2> QED
    BY <2>1, <2>2
<1>2. /\ \A g \in flows' : g \in flows \ Adopters(s) \/ g \in falls
      /\ \A g \in flows : g \notin Adopters(s) => g \in flows'
  OBVIOUS
<1> HIDE DEF falls
<1>3. Adopters(s) \subseteq flows /\ \A f \in Adopters(s) : f.kind \notin {"burst", "new"}
  BY DEF Adopters
<1>4. ASSUME NEW x \in Sockets, \A f \in Adopters(s) : f.w # x PROVE TabOf(x)'
  <2>1. SameTab(x)
    BY <1>1, <1>2, <1>4 DEF SameTab, SameFlows
  <2> QED
    BY <2>1, TabStays, OnwardsStay DEF TabInv
<1>5. ASSUME NEW x \in Sockets, NEW f \in Adopters(s), f.w = x PROVE TabOf(x)'
  <2>1. TabOf(x) /\ f \in flows
    BY <1>3 DEF TabInv
  <2>2. sock[x] # "off" /\ Unseen(x)'
    BY <1>5, <2>1 DEF TabOf, Unseen
  <2>3. ASSUME x \notin slipped PROVE /\ \A g \in flows : g.w = x => g = f
                                      /\ sock[x] = "open" /\ Shown(x)
    BY <1>3, <1>5, <2>1, <2>3 DEF TabOf, OneHandler, Shown
  <2>4. ASSUME x \notin slipped, NEW g \in flows', g.w = x PROVE g = Flow(x, "fall", None, TRUE) /\ g.kind = "fall"
    BY <1>1, <1>2, <2>3, <2>4
  <2>5. OneHandler(x)'
    BY <2>3, <2>4 DEF OneHandler
  <2>6. ViewAgrees(x)'
    BY <2>1, <2>3 DEF TabOf, ViewAgrees, Live
  <2> QED
    BY <2>2, <2>5, <2>6 DEF TabOf
<1> QED
  BY <1>4, <1>5 DEF TabInv

(* A log that is in its agent: its adopters show the session, each in its    *)
(* room, and with the question the bridge asks by now.                      *)
LEMMA RestoredTabs ==
  ASSUME TypeOK, FlowsNamed, TabInv, NEW s \in Sessions, Restored(s)
  PROVE  TabInv'
<1> DEFINE ws == {f.w : f \in Adopters(s)}
<1>1. /\ flows' = flows \ Adopters(s) /\ Join(ws, s) /\ UNCHANGED <<sock, slipped, yanked>>
      /\ live' = [live EXCEPT ![s] = "ready"]
      /\ view' = [w \in Sockets |-> IF w \in ws \cap Open THEN s ELSE view[w]]
      /\ \A w \in Sockets : IF w \in ws \cap Open THEN Asked(s) => card'[w] ELSE card'[w] = card[w]
      /\ Injects(s) \/ UNCHANGED pend
  BY DEF Restored
<1>2. /\ live'[s] = "ready" /\ \A t \in Sessions \ {s} : live'[t] = live[t]
      /\ \A t \in Sessions : pend'[t] = "live" => pend[t] = "live"
  BY <1>1 DEF TypeOK, Injects
<1>3. Onwards
  BY <1>2 DEF Onwards
<1>4. Adopters(s) \subseteq flows /\ \A x \in Sockets : x \in ws <=> \E f \in Adopters(s) : f.w = x
  BY DEF Adopters
<1>5. \A x \in Sockets : /\ x \in ws => act'[x] = On(s)
                         /\ x \notin ws => act'[x] = act[x]
  BY <1>1 DEF Join
<1> HIDE DEF ws
<1>6. ASSUME NEW x \in Sockets, x \notin ws PROVE TabOf(x)'
  <2>1. SameTab(x)
    BY <1>1, <1>4, <1>5, <1>6 DEF SameTab, SameFlows
  <2> QED
    BY <1>3, <2>1, TabStays DEF TabInv
<1>7. ASSUME NEW x \in Sockets, x \in ws PROVE TabOf(x)'
  <2>1. PICK f \in Adopters(s) : f.w = x
    BY <1>4, <1>7
  <2>2. TabOf(x) /\ f \in flows
    BY <1>4, <2>1 DEF TabInv
  <2>3. view'[x] = IF x \in Open THEN s ELSE view[x]
    BY <1>1, <1>7
  <2>4. Unseen(x)'
    BY <1>1, <2>1, <2>2, <2>3 DEF TabOf, Unseen, Open
  <2>5. ASSUME x \notin slipped' PROVE x \in Open /\ \A g \in flows' : g.w # x
    BY <1>1, <2>1, <2>2, <2>5 DEF TabOf, OneHandler, Open
  <2>6. ASSUME x \notin slipped' PROVE view'[x] = s /\ (pend'[s] = "live" => card'[x])
    BY <1>1, <1>2, <1>7, <2>3, <2>5, <2>6 DEF Asked
  <2>7. s \in Live' /\ act'[x] = On(s)
    BY <1>2, <1>5, <1>7 DEF Live
  <2> QED
    BY <2>4, <2>5, <2>6, <2>7, QuietTab
<1> QED
  BY <1>6, <1>7 DEF TabInv

LEMMA AdoptionTabs ==
  ASSUME TypeOK, FlowsNamed, TabInv, NEW s \in Sessions, Built(s) \/ AdoptFails(s) \/ Restored(s) \/ RestoredGone(s)
  PROVE  TabInv'
<1>1. CASE Built(s)
  <2>1. /\ UNCHANGED <<sock, act, flows, view, card, slipped, yanked, pend>>
        /\ live' = [live EXCEPT ![s] = "raw"]
    BY <1>1 DEF Built, socketVars, historyVars
  <2>2. Onwards /\ \A x \in Sockets : SameTab(x)
    BY <2>1 DEF Onwards, SameTab, SameFlows, TypeOK
  <2> QED
    BY <2>2, TabStays DEF TabInv
<1>2. CASE AdoptFails(s)
  <2>1. PICK gs : /\ gs \subseteq Adopters(s)
                  /\ flows' = (flows \ Adopters(s)) \cup {Flow(f.w, "fall", None, TRUE) : f \in gs}
    BY <1>2, {g \in Adopters(s) : g.up} \subseteq Adopters(s) DEF AdoptFails
  <2>2. UNCHANGED <<sock, act, view, card, slipped, yanked, live, pend>>
    BY <1>2 DEF AdoptFails, turnVars, historyVars
  <2> QED
    BY <2>1, <2>2, FallsTabs
<1>3. CASE Restored(s)
  BY <1>3, RestoredTabs
<1>4. CASE RestoredGone(s)
  <2>1. PICK gs : /\ gs \subseteq Adopters(s)
                  /\ flows' = (flows \ Adopters(s)) \cup {Flow(f.w, "fall", None, TRUE) : f \in gs}
    BY <1>4 DEF RestoredGone
  <2>2. UNCHANGED <<sock, act, view, card, slipped, yanked, live, pend>>
    BY <1>4 DEF RestoredGone, turnVars, historyVars
  <2> QED
    BY <2>1, <2>2, FallsTabs
<1> QED
  BY <1>1, <1>2, <1>3, <1>4

(* The end of a session: those who saw it are told, or no one saw it.        *)
LEMMA GoneFlows ==
  ASSUME TypeOK, FlowsNamed, TabInv, NEW s \in Sessions, Gone(s), NEW x \in Sockets, x \in slipped => x \in slipped',
         x \in Bursting(s) => x \in slipped'
  PROVE  OneHandler(x)'
<1>0. SUFFICES ASSUME x \notin slipped' PROVE OneHandler(x)'
  BY DEF OneHandler
<1>1. OneHandler(x) /\ x \notin slipped /\ UNCHANGED <<sock, flows>> /\ live' = [live EXCEPT ![s] = "no"]
  BY <1>0 DEF TabInv, TabOf, Gone
<1>2. ASSUME NEW g \in flows', g.w = x, g.kind = "burst" PROVE act'[x] = On(g.s) /\ live'[g.s] # "no"
  <2>1. g \in flows /\ g.s \in Sessions /\ act[x] = On(g.s) /\ live[g.s] # "no"
    BY <1>1, <1>2 DEF OneHandler, FlowsNamed
  <2>2. g.s # s
    BY <1>0, <1>2, <2>1 DEF Bursting
  <2>3. act'[x] = act[x]
    BY <2>1, <2>2, OnIsOn DEF Gone
  <2> QED
    BY <1>1, <2>1, <2>2, <2>3 DEF TypeOK
<1> QED
  BY <1>1, <1>2 DEF OneHandler

LEMMA GoneTabs ==
  ASSUME TypeOK, FlowsNamed, TabInv, NEW s \in Sessions, Gone(s), NEW x \in Sockets,
         x \in slipped => x \in slipped', x \in Bursting(s) => x \in slipped',
         view'[x] = None \/ (view'[x] = view[x] /\ card'[x] = card[x]),
         x \notin slipped' \cup yanked' /\ view[x] = s /\ act[x] = On(s) => view'[x] = None
  PROVE  TabOf(x)'
<1>1. OneHandler(x)'
  BY GoneFlows
<1>2. UNCHANGED <<sock, flows, yanked>> /\ TabOf(x)
  BY DEF Gone, TabInv
<1>3. Unseen(x)'
  BY <1>2 DEF TabOf, Unseen
<1>4. ViewAgrees(x)'
  <2>0. SUFFICES ASSUME x \notin slipped' \cup yanked', Shown(x)', view'[x] # None
                 PROVE  /\ act'[x] = On(view'[x]) /\ view'[x] \in Live'
                        /\ pend'[view'[x]] = "live" => card'[x]
    BY DEF ViewAgrees
  <2>1. Shown(x) /\ x \notin slipped \cup yanked /\ view'[x] = view[x] /\ card'[x] = card[x]
    BY <1>2, <2>0 DEF Shown
  <2>2. act[x] = On(view[x]) /\ view[x] \in Live /\ (pend[view[x]] = "live" => card[x])
    BY <1>2, <2>0, <2>1 DEF TabOf, ViewAgrees
  <2>3. PICK t \in Sessions : t = view[x] /\ t # s
    BY <2>0, <2>1, <2>2 DEF Live
  <2>4. act'[x] = act[x]
    BY <2>2, <2>3, OnIsOn DEF Gone
  <2>5. live'[t] = live[t] /\ pend'[t] = pend[t]
    BY <2>3 DEF Gone, TypeOK
  <2> QED
    BY <2>1, <2>2, <2>3, <2>4, <2>5 DEF Live
<1> QED
  BY <1>1, <1>3, <1>4 DEF TabOf

(* A counter of zero that is that of the room: nobody is in it.             *)
LEMMA EmptyRoom ==
  ASSUME TypeOK, RoomInv, NEW s \in Sessions, s \notin twice, count[s] = 0, NEW x \in Sockets
  PROVE  act[x] # On(s)
<1>1. Room(s) = 0
  BY DEF RoomInv, RoomOf
<1>2. IsFiniteSet(In(s)) /\ Cardinality(In(s)) \in Nat
  <2>1. In(s) \in SUBSET Sockets
    BY DEF In
  <2> QED
    BY <2>1, FiniteSockets
<1>3. Cardinality(In(s)) + strays[s] = 0 /\ strays[s] \in Nat
  BY <1>1 DEF Room, In, TypeOK
<1>4. Cardinality(In(s)) = 0
  BY <1>2, <1>3
<1>5. In(s) = {}
  BY <1>2, <1>4, FS_EmptySet
<1> QED
  BY <1>5 DEF In

LEMMA EndTabs ==
  ASSUME TypeOK, FlowsNamed, RoomInv, TabInv, NEW s \in Sessions, (\E w \in Sockets : Delete(w, s)) \/ Reap(s)
  PROVE  TabInv'
<1>1. Gone(s)
  BY DEF Delete, Reap
<1>2. CASE \E w \in Sockets : Delete(w, s)
  <2>1. /\ view' = [w \in Sockets |-> IF view[w] = s THEN None ELSE view[w]]
        /\ card' = [w \in Sockets |-> IF view[w] = s THEN FALSE ELSE card[w]]
        /\ slipped' = slipped \cup Bursting(s)
    BY <1>2 DEF Delete, Told
  <2>2. ASSUME NEW x \in Sockets PROVE TabOf(x)'
    <3>1. /\ x \in slipped => x \in slipped'
          /\ x \in Bursting(s) => x \in slipped'
      BY <2>1
    <3>2. /\ view'[x] = IF view[x] = s THEN None ELSE view[x]
          /\ card'[x] = IF view[x] = s THEN FALSE ELSE card[x]
      BY <2>1
    <3> QED
      BY <1>1, <3>1, <3>2, GoneTabs
  <2> QED
    BY <2>2 DEF TabInv
<1>3. CASE Reap(s)
  <2>1. /\ UNCHANGED <<view, card>> /\ count[s] = 0
        /\ slipped' = slipped \cup (IF s \in twice THEN {w \in Sockets : act[w] = On(s) \/ view[w] = s} ELSE {})
                              \cup Bursting(s)
    BY <1>3 DEF Reap
  <2>2. ASSUME NEW x \in Sockets PROVE TabOf(x)'
    <3>1. /\ x \in slipped => x \in slipped'
          /\ x \in Bursting(s) => x \in slipped'
      BY <2>1
    <3>2. x \in slipped' \/ act[x] # On(s)
      <4>1. CASE s \in twice
        BY <2>1, <4>1
      <4>2. CASE s \notin twice
        BY <2>1, <4>2, EmptyRoom
      <4> QED
        BY <4>1, <4>2
    <3>3. view'[x] = view[x] /\ card'[x] = card[x]
      BY <2>1
    <3> QED
      BY <1>1, <3>1, <3>2, <3>3, GoneTabs
  <2> QED
    BY <2>2 DEF TabInv
<1> QED
  BY <1>2, <1>3

(* Turns and questions: a tab keeps its card while its question waits.       *)
LEMMA CardTabs ==
  ASSUME TypeOK, TabInv, TurnTouches, UNCHANGED yanked,
         \A x \in Sockets, t \in Sessions :
           t = view[x] /\ x \in Open /\ act[x] = On(t) /\ pend'[t] = "live" =>
             card'[x] \/ (pend[t] = "live" /\ card'[x] = card[x])
  PROVE  TabInv'
<1>1. ASSUME NEW x \in Sockets PROVE TabOf(x)'
  <2>1. TabOf(x) /\ UNCHANGED <<sock, act, flows, view, live, slipped, yanked>>
    BY DEF TabInv, TurnTouches
  <2>2. Unseen(x)' /\ OneHandler(x)'
    BY <2>1 DEF TabOf, Unseen, OneHandler
  <2>3. ViewAgrees(x)'
    <3>0. SUFFICES ASSUME x \notin slipped' \cup yanked', Shown(x)', view'[x] # None
                   PROVE  /\ act'[x] = On(view'[x]) /\ view'[x] \in Live'
                          /\ pend'[view'[x]] = "live" => card'[x]
      BY DEF ViewAgrees
    <3>1. x \notin slipped \cup yanked /\ Shown(x) /\ view[x] # None
      BY <2>1, <3>0 DEF Shown
    <3>2. act[x] = On(view[x]) /\ view[x] \in Live /\ (pend[view[x]] = "live" => card[x])
      BY <2>1, <3>1 DEF TabOf, ViewAgrees
    <3>3. x \in Open
      BY <2>1, <3>1 DEF TabOf, Unseen, Open
    <3>4. PICK t \in Sessions : t = view[x]
      BY <3>2 DEF Live
    <3>5. pend'[t] = "live" => card'[x]
      BY <3>2, <3>3, <3>4
    <3> QED
      BY <2>1, <3>2, <3>4, <3>5 DEF Live
  <2> QED
    BY <2>2, <2>3 DEF TabOf
<1> QED
  BY <1>1 DEF TabInv

(* A step that leaves the session s without a live question, and the cards   *)
(* of the tabs that show another session alone.                            *)
LEMMA SettlesTabs ==
  ASSUME TypeOK, TabInv, TurnTouches, UNCHANGED yanked, NEW s \in Sessions, pend'[s] # "live",
         \A t \in Sessions \ {s} : pend'[t] = pend[t],
         \A x \in Sockets : view[x] # s => card'[x] = card[x]
  PROVE  TabInv'
<1>1. ASSUME NEW x \in Sockets, NEW t \in Sessions, t = view[x], pend'[t] = "live"
      PROVE pend[t] = "live" /\ card'[x] = card[x]
  BY <1>1
<1> QED
  BY <1>1, CardTabs

LEMMA CardsElsewhere ==
  ASSUME TypeOK, NEW s \in Sessions, Cards(s, TRUE) \/ Cards(s, FALSE) \/ UNCHANGED card
  PROVE  \A x \in Sockets : view[x] # s => card'[x] = card[x]
  BY DEF Cards, Viewers, TypeOK

LEMMA ResolvesPend ==
  ASSUME TypeOK, NEW s \in Sessions, HeldResolves(s) \/ LiveResolves(s)
  PROVE  pend'[s] # "live" /\ \A t \in Sessions \ {s} : pend'[t] = pend[t]
  BY DEF HeldResolves, LiveResolves, TypeOK

LEMMA TurnActionTabs ==
  ASSUME TypeOK, TurnInv, TabInv, TurnTouches,
         \/ \E w \in Sockets : Send(w) \/ Command(w) \/ Answer(w) \/ Cancel(w)
         \/ \E s \in Sessions : TurnStarts(s) \/ TurnEnds(s) \/ Ask(s) \/ Expire(s)
  PROVE  TabInv'
<1>0. UNCHANGED yanked
  BY DEF Send, Command, Answer, Cancel, TurnStarts, TurnEnds, Ask, Expire, NoSocketChange
<1>1. ASSUME UNCHANGED <<pend, card>> PROVE TabInv'
  BY <1>0, <1>1, CardTabs
<1>2. ASSUME NEW w \in Sockets, Send(w) PROVE TabInv'
  <2>1. PICK s \in Sessions : s = view[w] /\ Dismisses(s)
    BY <1>2 DEF Send, Live
  <2>2. CASE UNCHANGED <<pend, card>>
    BY <1>1, <2>2
  <2>3. CASE pend' = [pend EXCEPT ![s] = "none"] /\ Cards(s, FALSE)
    <3>1. pend'[s] # "live" /\ \A t \in Sessions \ {s} : pend'[t] = pend[t]
      BY <2>3 DEF TypeOK
    <3> QED
      BY <1>0, <2>3, <3>1, CardsElsewhere, SettlesTabs
  <2> QED
    BY <2>1, <2>2, <2>3 DEF Dismisses
<1>3. ASSUME NEW w \in Sockets, Command(w) PROVE TabInv'
  BY <1>1, <1>3 DEF Command
<1>4. ASSUME NEW w \in Sockets, Answer(w) PROVE TabInv'
  <2>1. PICK s \in Sessions : s = view[w] /\ (HeldResolves(s) \/ LiveResolves(s)) /\ Cards(s, FALSE)
    BY <1>4 DEF Answer, Live
  <2> QED
    BY <1>0, <2>1, ResolvesPend, CardsElsewhere, SettlesTabs
<1>5. ASSUME NEW w \in Sockets, Cancel(w) PROVE TabInv'
  <2>1. PICK s \in Sessions : /\ s = view[w] /\ (Cards(s, TRUE) \/ UNCHANGED card)
                              /\ HeldResolves(s) \/ LiveResolves(s) \/ (pend[s] = "none" /\ UNCHANGED pend)
    BY <1>5 DEF Cancel, Live
  <2>2. pend'[s] # "live" /\ \A t \in Sessions \ {s} : pend'[t] = pend[t]
    BY <2>1, ResolvesPend
  <2> QED
    BY <1>0, <2>1, <2>2, CardsElsewhere, SettlesTabs
<1>6. ASSUME NEW s \in Sessions, TurnStarts(s) \/ TurnEnds(s) PROVE TabInv'
  BY <1>1, <1>6 DEF TurnStarts, TurnEnds
<1>7. ASSUME NEW s \in Sessions, Ask(s) PROVE TabInv'
  <2>1. /\ pend' = [pend EXCEPT ![s] = "live"]
        /\ card' = [w \in Sockets |-> IF w \in Viewers(s) /\ act[w] = On(s) THEN TRUE ELSE card[w]]
    BY <1>7 DEF Ask
  <2>2. ASSUME NEW x \in Sockets, NEW t \in Sessions, t = view[x], x \in Open, act[x] = On(t), pend'[t] = "live"
        PROVE card'[x] \/ (pend[t] = "live" /\ card'[x] = card[x])
    <3>1. CASE t = s
      BY <2>1, <2>2, <3>1 DEF Viewers
    <3>2. CASE t # s
      BY <2>1, <2>2, <3>2 DEF Viewers, TypeOK
    <3> QED
      BY <3>1, <3>2
  <2> QED
    BY <1>0, <2>2, CardTabs
<1>8. ASSUME NEW s \in Sessions, Expire(s) PROVE TabInv'
  <2>1. pend'[s] # "live" /\ \A t \in Sessions \ {s} : pend'[t] = pend[t]
    BY <1>8, ResolvesPend DEF Expire
  <2> QED
    BY <1>0, <1>8, <2>1, CardsElsewhere, SettlesTabs DEF Expire
<1> QED
  BY <1>2, <1>3, <1>4, <1>5, <1>6, <1>7, <1>8

-----------------------------------------------------------------------------
(* Each step keeps the flows named and the rooms counted.                   *)

LEMMA BeginsNamed ==
  ASSUME FlowsNamed, NEW w, NEW kind, NEW s, NEW up, Begins(w, kind, s, up),
         kind \in {"fresh", "new"} \/ s \in Sessions
  PROVE  FlowsNamed'
<1>1. \A f \in flows' : f \in flows \/ (f.kind = kind /\ f.s = s)
  BY DEF Begins, Flow
<1> QED
  BY <1>1 DEF FlowsNamed

LEMMA BecomesNamed ==
  ASSUME TypeOK, FlowsNamed, NEW f \in flows, NEW kind \in Kinds, NEW s \in Sessions \cup {None}, Becomes(f, kind, s),
         kind \in {"fresh", "new", "fall"} \/ s \in Sessions
  PROVE  FlowsNamed'
<1>1. NextOf(f, kind, s).kind = kind /\ NextOf(f, kind, s).s = s
  BY NextFields DEF NextOf
<1>2. \A g \in flows' : g \in flows \/ g = NextOf(f, kind, s)
  BY DEF Becomes, NextOf
<1> QED
  BY <1>1, <1>2 DEF FlowsNamed

LEMMA FewerNamed ==
  ASSUME FlowsNamed, \A f \in flows' : f \in flows \/ f.kind = "fall"
  PROVE  FlowsNamed'
  BY DEF FlowsNamed

LEMMA ResumeNamed ==
  ASSUME FlowsNamed, NEW w, NEW s \in Sessions, NEW up, Resume(w, s, up)
  PROVE  FlowsNamed'
<1>1. CASE Begins(w, "look", s, up)
  BY <1>1, BeginsNamed
<1>2. CASE Begins(w, "burst", s, up)
  BY <1>2, BeginsNamed
<1> QED
  BY <1>1, <1>2 DEF Resume, Attach

LEMMA StartNamed ==
  ASSUME TypeOK, FlowsNamed, NEW w \in Sockets,
         Connect(w) \/ SwitchSession(w) \/ LoadLog(w) \/ CreateSession(w) \/ Fork(w) \/ Close(w)
  PROVE  FlowsNamed'
<1>1. ASSUME NEW s \in Sessions, NEW up, Attach(w, s, up) PROVE FlowsNamed'
  BY <1>1, ResumeNamed DEF Resume
<1>2. ASSUME NEW s \in Sessions, NEW up, Resume(w, s, up) PROVE FlowsNamed'
  BY <1>2, ResumeNamed
<1>3. logged \subseteq Sessions /\ Live \subseteq Sessions
  BY DEF TypeOK, Live
<1>4. CASE Connect(w)
  <2>1. CASE Begins(w, "fresh", None, TRUE)
    BY <2>1, BeginsNamed
  <2> QED
    BY <1>1, <1>2, <1>3, <1>4, <2>1 DEF Connect
<1>5. CASE SwitchSession(w)
  BY <1>1, <1>5 DEF SwitchSession
<1>6. CASE LoadLog(w)
  BY <1>2, <1>3, <1>6 DEF LoadLog
<1>7. CASE CreateSession(w)
  BY <1>7, BeginsNamed DEF CreateSession
<1>8. CASE Fork(w)
  <2>1. PICK s \in Sessions : Begins(w, "fork", s, FALSE)
    BY <1>8 DEF Fork, Live
  <2> QED
    BY <2>1, BeginsNamed
<1>9. CASE Close(w)
  BY <1>9, FewerNamed DEF Close
<1> QED
  BY <1>4, <1>5, <1>6, <1>7, <1>8, <1>9

LEMMA FlowNamed ==
  ASSUME TypeOK, FlowsNamed, NEW f \in flows,
         \/ Burst(f) \/ Looked(f) \/ Refused(f) \/ Fall(f) \/ CreateFails(f)
         \/ \E s \in Sessions : FreshDone(f, s) \/ NewDone(f, s)
  PROVE  FlowsNamed'
<1>0. None \in Sessions \cup {None} /\ {"join", "adopt", "fall", "burst", "fresh"} \subseteq Kinds
  BY DEF Kinds
<1>1. CASE flows' = flows \ {f}
  BY <1>1, FewerNamed
<1>2. CASE Looked(f)
  <2>1. f.s \in Sessions /\ f.s \in Sessions \cup {None}
    BY <1>2 DEF Looked, FlowsNamed
  <2>2. CASE Becomes(f, "join", f.s)
    BY <1>0, <2>1, <2>2, BecomesNamed
  <2>3. CASE Becomes(f, "adopt", f.s)
    BY <1>0, <2>1, <2>3, BecomesNamed
  <2> QED
    BY <1>1, <1>2, <2>2, <2>3 DEF Looked
<1>3. CASE Refused(f)
  BY <1>0, <1>3, BecomesNamed DEF Refused
<1>4. CASE Fall(f)
  <2>1. CASE Becomes(f, "fresh", None)
    BY <1>0, <2>1, BecomesNamed
  <2>2. ASSUME NEW s \in Live, Becomes(f, "burst", s) PROVE FlowsNamed'
    <3>1. s \in Sessions /\ s \in Sessions \cup {None}
      BY DEF Live
    <3> QED
      BY <1>0, <2>2, <3>1, BecomesNamed
  <2> QED
    BY <1>4, <2>1, <2>2 DEF Fall
<1> QED
  BY <1>1, <1>2, <1>3, <1>4 DEF Burst, CreateFails, FreshDone, NewDone

LEMMA AdoptionNamed ==
  ASSUME FlowsNamed, NEW s \in Sessions, Built(s) \/ AdoptFails(s) \/ Restored(s) \/ RestoredGone(s)
  PROVE  FlowsNamed'
<1>1. \A f \in flows' : f \in flows \/ f.kind = "fall"
  <2>1. ASSUME NEW g, NEW gs, g \in {Flow(f.w, "fall", None, TRUE) : f \in gs} PROVE g.kind = "fall"
    BY <2>1 DEF Flow
  <2> QED
    BY <2>1 DEF Built, AdoptFails, Restored, RestoredGone, socketVars
<1> QED
  BY <1>1, FewerNamed

LEMMA StartRooms ==
  ASSUME TypeOK, TypeOK', TurnInv, RoomInv, NEW w \in Sockets,
         Connect(w) \/ SwitchSession(w) \/ LoadLog(w) \/ CreateSession(w) \/ Fork(w) \/ Close(w)
  PROVE  RoomInv'
<1>0. UNCHANGED live
  BY StartTurns
<1>1. ASSUME UNCHANGED <<act, strays, count, twice>> PROVE RoomInv'
  BY <1>0, <1>1, RoomsStay
<1>2. ASSUME NEW s \in Sessions, NEW up, Attach(w, s, up) PROVE RoomInv'
  <2>1. Join({w}, s) /\ live'[s] # "no" /\ {w} \in SUBSET Sockets
    BY <1>0, <1>2 DEF Attach
  <2> QED
    BY <1>0, <2>1, JoinRooms
<1>3. ASSUME NEW s \in Sessions, NEW up, Resume(w, s, up) PROVE RoomInv'
  BY <1>1, <1>2, <1>3 DEF Resume, hostVars
<1>4. logged \subseteq Sessions /\ Live \subseteq Sessions
  BY DEF TypeOK, Live
<1>5. CASE Connect(w)
  BY <1>1, <1>2, <1>3, <1>4, <1>5 DEF Connect, hostVars
<1>6. CASE SwitchSession(w)
  BY <1>2, <1>6 DEF SwitchSession
<1>7. CASE LoadLog(w)
  BY <1>3, <1>4, <1>7 DEF LoadLog
<1>8. CASE CreateSession(w) \/ Close(w)
  BY <1>0, <1>8, LeaveRooms DEF CreateSession, Close
<1>9. CASE Fork(w)
  BY <1>1, <1>9 DEF Fork, hostVars
<1> QED
  BY <1>5, <1>6, <1>7, <1>8, <1>9

LEMMA FlowRooms ==
  ASSUME TypeOK, TypeOK', RoomInv, FlowsNamed, NEW f \in flows,
         \/ Burst(f) \/ Looked(f) \/ Refused(f) \/ Fall(f) \/ CreateFails(f)
         \/ \E s \in Sessions : FreshDone(f, s) \/ NewDone(f, s)
  PROVE  RoomInv'
<1>0. f.w \in Sockets /\ {f.w} \in SUBSET Sockets
  BY FlowTyped
<1>1. ASSUME UNCHANGED <<act, strays, count, twice, live>> PROVE RoomInv'
  BY <1>1, RoomsStay
<1>2. ASSUME NEW s \in Sessions, live[s] # "no", Join({f.w}, s), UNCHANGED live PROVE RoomInv'
  BY <1>0, <1>2, JoinRooms
<1>3. CASE Burst(f) \/ Refused(f)
  BY <1>1, <1>3 DEF Burst, Refused, hostVars, historyVars
<1>4. CASE Looked(f)
  <2>1. f.s \in Sessions
    BY <1>4 DEF Looked, FlowsNamed
  <2> QED
    BY <1>1, <1>2, <1>4, <2>1 DEF Looked, hostVars, LateJoiner
<1>5. CASE Fall(f)
  BY <1>1, <1>2, <1>5 DEF Fall, Live
<1>6. CASE CreateFails(f)
  <2>1. UNCHANGED live /\ (Leave(f.w) \/ UNCHANGED <<act, strays, count, twice>>)
    BY <1>6 DEF CreateFails
  <2> QED
    BY <1>0, <1>1, <2>1, LeaveRooms
<1>7. ASSUME NEW s \in Sessions, FreshDone(f, s) \/ NewDone(f, s) PROVE RoomInv'
  <2>1. /\ live[s] = "no" /\ live' = [live EXCEPT ![s] = "ready"]
        /\ Overwrite(f.w, s) \/ Join({f.w}, s)
    BY <1>7 DEF FreshDone, NewDone, Registers, Fresh
  <2>2. live'[s] # "no" /\ \A t \in Sessions \ {s} : live'[t] = live[t]
    BY <2>1 DEF TypeOK
  <2> QED
    BY <1>0, <2>1, <2>2, JoinRooms, OverwriteRooms
<1> QED
  BY <1>3, <1>4, <1>5, <1>6, <1>7

LEMMA AdoptionRooms ==
  ASSUME TypeOK, TypeOK', TurnInv, RoomInv, NEW s \in Sessions, Built(s) \/ AdoptFails(s) \/ Restored(s) \/ RestoredGone(s)
  PROVE  RoomInv'
<1>1. CASE Built(s)
  <2>1. /\ UNCHANGED <<act, strays, twice>> /\ count' = [count EXCEPT ![s] = 0] /\ live' = [live EXCEPT ![s] = "raw"]
    BY <1>1 DEF Built, socketVars, historyVars
  <2>2. count[s] = 0
    BY <1>1 DEF Built, TurnInv, TurnOf, BuildsAlone, RoomInv, RoomOf, DeadIsEmpty
  <2>3. \A t \in Sessions : count'[t] = count[t] /\ (live'[t] = "no" => live[t] = "no")
    BY <2>1, <2>2 DEF TypeOK
  <2> QED
    BY <2>1, <2>3, RoomsStay
<1>2. CASE AdoptFails(s) \/ RestoredGone(s)
  <2>1. UNCHANGED <<act, strays, count, twice, live>>
    BY <1>2 DEF AdoptFails, RestoredGone, historyVars
  <2> QED
    BY <2>1, RoomsStay
<1>3. CASE Restored(s)
  <2>1. PICK ws \in SUBSET Sockets : Join(ws, s)
    <3>1. {f.w : f \in Adopters(s)} \in SUBSET Sockets
      BY FlowTyped DEF Adopters
    <3> QED
      BY <1>3, <3>1 DEF Restored
  <2>2. live'[s] # "no" /\ \A t \in Sessions \ {s} : live'[t] = live[t]
    BY <1>3 DEF Restored, TypeOK
  <2> QED
    BY <2>1, <2>2, JoinRooms
<1> QED
  BY <1>1, <1>2, <1>3

-----------------------------------------------------------------------------
(* The invariant holds, and what it says.                                   *)

LEMMA InitIInv == Init => IInv
<1> SUFFICES ASSUME Init PROVE IInv
  OBVIOUS
<1>1. TypeOK
  BY HostAssumption DEF HostAssumption, Init, TypeOK
<1>2. TurnInv
  <2>1. ASSUME NEW s \in Sessions PROVE TurnOf(s)
    <3>1. dangling[s] \in Nat /\ (s \notin Cold => dangling[s] = 0) /\ logged = Cold
      BY HostAssumption DEF HostAssumption, Init
    <3> QED
      BY <3>1 DEF Init, TurnOf, DeadIsIdle, BuildsAlone, HeldOfLog, ContinuesLater, WaitsForLog
  <2> QED
    BY <2>1 DEF TurnInv
<1>3. RoomInv
  <2>1. \A w \in Sockets : act[w].on = FALSE /\ \A s \in Sessions : act[w] # On(s)
    BY DEF Init, On
  <2>2. ASSUME NEW s \in Sessions PROVE RoomOf(s)
    <3>1. Cardinality({w \in Sockets : act[w] = On(s)}) = 0
      BY <2>1, FS_EmptySet, {w \in Sockets : act[w] = On(s)} = {}
    <3> QED
      BY <2>1, <3>1 DEF Init, RoomOf, Room, DeadIsEmpty
  <2> QED
    BY <2>1, <2>2 DEF RoomInv, ActIsLive
<1>4. FlowsNamed /\ TabInv
  BY DEF Init, FlowsNamed, TabInv, TabOf, Unseen, OneHandler, ViewAgrees
<1> QED
  BY <1>1, <1>2, <1>3, <1>4 DEF IInv

LEMMA NextIInv == IInv /\ [Next]_vars => IInv'
<1> SUFFICES ASSUME IInv, [Next]_vars PROVE IInv'
  OBVIOUS
<1>0. TypeOK /\ TurnInv /\ RoomInv /\ ActIsLive /\ FlowsNamed /\ TabInv
  BY DEF IInv, RoomInv
<1>1. HeldFits
  BY <1>0 DEF HeldFits, TurnInv, TurnOf, HeldOfLog
<1>2. ASSUME NEW w \in Sockets,
             Connect(w) \/ SwitchSession(w) \/ LoadLog(w) \/ CreateSession(w) \/ Fork(w) \/ Close(w)
      PROVE IInv'
  <2>1. TypeOK'
    BY <1>0, <1>2, StartTypes
  <2>2. TurnInv'
    BY <1>0, <1>2, StartTurns, TurnsStay
  <2>3. RoomInv' /\ FlowsNamed' /\ TabInv'
    BY <1>0, <1>2, <2>1, StartRooms, StartNamed, StartTabs
  <2> QED
    BY <2>1, <2>2, <2>3 DEF IInv
<1>3. ASSUME NEW f \in flows,
             \/ Burst(f) \/ Looked(f) \/ Refused(f) \/ Fall(f) \/ CreateFails(f)
             \/ \E s \in Sessions : FreshDone(f, s) \/ NewDone(f, s)
      PROVE IInv'
  <2>1. TypeOK'
    BY <1>0, <1>3, FlowStepTypes
  <2>2. TurnInv' /\ RoomInv' /\ FlowsNamed'
    BY <1>0, <1>3, <2>1, FlowTurns, FlowRooms, FlowNamed
  <2>3. TabInv'
    BY <1>0, <1>3, FlowTabs, CreatedTabs
  <2> QED
    BY <2>1, <2>2, <2>3 DEF IInv
<1>4. ASSUME NEW s \in Sessions, Built(s) \/ AdoptFails(s) \/ Restored(s) \/ RestoredGone(s) PROVE IInv'
  <2>1. TypeOK'
    BY <1>0, <1>4, AdoptionTypes
  <2>2. TurnInv' /\ RoomInv' /\ FlowsNamed' /\ TabInv'
    BY <1>0, <1>4, <2>1, AdoptionTurns, AdoptionRooms, AdoptionNamed, AdoptionTabs
  <2> QED
    BY <2>1, <2>2 DEF IInv
<1>5. ASSUME NEW s \in Sessions, (\E w \in Sockets : Delete(w, s)) \/ Reap(s) PROVE IInv'
  <2>1. TypeOK' /\ Gone(s)
    BY <1>0, <1>5, EndTypes DEF Delete, Reap
  <2>2. TurnInv' /\ RoomInv' /\ TabInv'
    BY <1>0, <1>5, <2>1, EndTurns, GoneRooms, EndTabs
  <2>3. FlowsNamed'
    BY <1>0, <2>1, FewerNamed DEF Gone
  <2> QED
    BY <2>1, <2>2, <2>3 DEF IInv
<1>6. ASSUME \/ \E w \in Sockets : Send(w) \/ Command(w) \/ Answer(w) \/ Cancel(w)
             \/ \E s \in Sessions : TurnStarts(s) \/ TurnEnds(s) \/ Ask(s) \/ Expire(s)
      PROVE IInv'
  <2>1. TypeOK' /\ TurnTouches
    BY <1>0, <1>1, <1>6, TurnActionTypes
  <2>2. TurnInv' /\ TabInv'
    BY <1>0, <1>6, <2>1, TurnActionTurns, TurnActionTabs
  <2>3. RoomInv'
    BY <1>0, <2>1, RoomsStay DEF TurnTouches
  <2>4. FlowsNamed'
    BY <1>0, <2>1, FewerNamed DEF TurnTouches
  <2> QED
    BY <2>1, <2>2, <2>3, <2>4 DEF IInv
<1>7. CASE UNCHANGED vars
  <2>1. /\ UNCHANGED <<sock, act, flows, view, card, live, adopt, count, strays, logged>>
        /\ UNCHANGED <<turn, queue, held, pend, dangling, cont, early, twice, slipped, yanked, troubles>>
    BY <1>7 DEF vars, socketVars, hostVars, turnVars, historyVars
  <2>2. TypeOK' /\ FlowsNamed'
    BY <1>0, <2>1 DEF TypeOK, FlowsNamed
  <2>3. TurnInv'
    BY <1>0, <2>1, TurnsStay DEF turnVars
  <2>4. RoomInv'
    BY <1>0, <2>1, <2>2, RoomsStay
  <2>5. TabInv'
    BY <1>0, <2>1, TabStays, OnwardsStay DEF TabInv, SameTab, SameFlows
  <2> QED
    BY <2>2, <2>3, <2>4, <2>5 DEF IInv
<1> QED
  BY <1>2, <1>3, <1>4, <1>5, <1>6, <1>7 DEF Next

THEOREM Invariant == Spec => []IInv
  BY InitIInv, NextIInv, PTL DEF Spec

(* connectedClients is the number of channels of a live session, and a tab   *)
(* whose handlers are over shows the live session it is subscribed to.      *)
THEOREM RoomsHold == Spec => []RoomsAgree
<1>1. ASSUME IInv PROVE RoomsAgree
  <2>1. TypeOK /\ CountIsRoom
    BY <1>1 DEF IInv, RoomInv, RoomOf, CountIsRoom, Live
  <2>2. ViewIsSubscribed
    BY <1>1 DEF IInv, TabInv, TabOf, ViewAgrees, Shown, ViewIsSubscribed, Quiet
  <2> QED
    BY <2>1, <2>2 DEF RoomsAgree
<1> QED
  BY <1>1, Invariant, PTL

(* No question is lost between the turn that waits on it, the bridge that    *)
(* holds it and the tab that shows it.                                      *)
THEOREM QuestionsHold == Spec => []QuestionsReach
<1>1. ASSUME IInv PROVE QuestionsReach
  <2>1. HeldIsAsked
    BY <1>1 DEF IInv, TurnInv, TurnOf, WaitsForLog, HeldIsAsked
  <2>2. LiveQuestionHasCard
    <3>1. SUFFICES ASSUME NEW w \in Sockets \ (slipped \cup yanked), Quiet(w), view[w] \in Live, pend[view[w]] = "live"
                   PROVE card[w]
      BY DEF LiveQuestionHasCard
    <3>2. view[w] # None
      BY <3>1, HostAssumption DEF HostAssumption, Live
    <3> QED
      BY <1>1, <3>1, <3>2 DEF IInv, TabInv, TabOf, ViewAgrees, Shown, Quiet
  <2> QED
    BY <2>1, <2>2 DEF QuestionsReach
<1> QED
  BY <1>1, Invariant, PTL

(* The interrupted turn of a log is continued at most once.                 *)
THEOREM ContinuedAtMostOnce == Spec => []ContinuedOnce
<1>1. ASSUME IInv PROVE ContinuedOnce
  BY <1>1 DEF IInv, TurnInv, TurnOf, ContinuesLater, ContinuedOnce
<1> QED
  BY <1>1, Invariant, PTL

(* A turn that runs was idle: only TurnStarts begins one.                   *)
LEMMA OnlyStarts ==
  ASSUME TypeOK, TurnInv, Next, NEW s \in Sessions, turn[s] = "idle", turn'[s] = "run"
  PROVE  TurnStarts(s)
<1>1. ASSUME UNCHANGED turn PROVE FALSE
  BY <1>1
<1>2. ASSUME NEW t \in Sessions, turn' = [turn EXCEPT ![t] = "idle"] PROVE FALSE
  BY <1>2 DEF TypeOK
<1>3. ASSUME NEW t \in Sessions, NEW next, turn' = [turn EXCEPT ![t] = IF @ = "ask" THEN next ELSE @] PROVE FALSE
  BY <1>3 DEF TypeOK
<1>4. ASSUME NEW w \in Sockets,
             Connect(w) \/ SwitchSession(w) \/ LoadLog(w) \/ CreateSession(w) \/ Fork(w) \/ Close(w)
      PROVE FALSE
  BY <1>1, <1>4, StartTurns DEF turnVars
<1>5. ASSUME NEW w \in Sockets, Send(w) \/ Command(w) \/ Answer(w) \/ Cancel(w) PROVE FALSE
  <2>1. CASE Send(w) \/ Command(w)
    BY <1>1, <2>1 DEF Send, Command, Enqueues
  <2>2. CASE Answer(w)
    <3>1. PICK t \in Sessions : Turns(t, "run")
      BY <2>2 DEF Answer, Live
    <3> QED
      BY <1>3, <3>1 DEF Turns
  <2>3. CASE Cancel(w)
    <3>1. PICK t \in Sessions : turn' = [turn EXCEPT ![t] = "idle"]
      BY <2>3 DEF Cancel, Live
    <3> QED
      BY <1>2, <3>1
  <2> QED
    BY <1>5, <2>1, <2>2, <2>3
<1>6. ASSUME NEW f \in flows,
             \/ Burst(f) \/ Looked(f) \/ Refused(f) \/ Fall(f) \/ CreateFails(f)
             \/ \E t \in Sessions : FreshDone(f, t) \/ NewDone(f, t)
      PROVE FALSE
  <2>1. CASE Burst(f) \/ Looked(f) \/ Refused(f) \/ Fall(f) \/ CreateFails(f)
    BY <1>1, <2>1 DEF Burst, Looked, Refused, Fall, CreateFails, turnVars
  <2>2. ASSUME NEW t \in Sessions, FreshDone(f, t) \/ NewDone(f, t) PROVE FALSE
    BY <1>2, <2>2 DEF FreshDone, NewDone, Registers
  <2> QED
    BY <1>6, <2>1, <2>2
<1>7. ASSUME NEW t \in Sessions,
             \/ Built(t) \/ AdoptFails(t) \/ Restored(t) \/ RestoredGone(t) \/ Reap(t)
             \/ TurnEnds(t) \/ Ask(t) \/ Expire(t) \/ (\E w \in Sockets : Delete(w, t))
      PROVE FALSE
  <2>1. CASE Built(t) \/ Reap(t) \/ TurnEnds(t) \/ \E w \in Sockets : Delete(w, t)
    BY <1>2, <2>1 DEF Built, Reap, Delete, Gone, TurnEnds
  <2>2. CASE AdoptFails(t) \/ RestoredGone(t)
    BY <1>1, <2>2 DEF AdoptFails, RestoredGone, turnVars
  <2>3. CASE Restored(t)
    <3>1. Injects(t) \/ UNCHANGED turn
      BY <2>3 DEF Restored
    <3> QED
      BY <1>1, <1>3, <3>1 DEF Injects
  <2>4. CASE Ask(t)
    BY <2>4 DEF Ask, TypeOK
  <2>5. CASE Expire(t)
    BY <1>3, <2>5 DEF Expire, Turns
  <2> QED
    BY <1>7, <2>1, <2>2, <2>3, <2>4, <2>5
<1>8. PICK t \in Sessions : TurnStarts(t)
  BY <1>4, <1>5, <1>6, <1>7 DEF Next
<1> QED
  BY <1>8 DEF TurnStarts, TypeOK

(* Whoever takes a log over writes it alone, and no turn starts on a call    *)
(* without a result, nor before the log is in the agent.                    *)
THEOREM LogHasOneOwner == Spec => LogIsTakenOver
<1>1. ASSUME IInv, [Next]_vars
      PROVE [\A s \in Sessions :
               /\ adopt[s] = "build" /\ adopt'[s] = "restore" => live[s] = "no"
               /\ s \notin early /\ turn[s] = "idle" /\ turn'[s] = "run" =>
                    live[s] = "ready" /\ dangling[s] = 0]_vars
  <2>0. TypeOK /\ TurnInv
    BY <1>1 DEF IInv
  <2>1. ASSUME NEW s \in Sessions, adopt[s] = "build" PROVE live[s] = "no"
    BY <2>0, <2>1 DEF TurnInv, TurnOf, BuildsAlone
  <2>2. ASSUME Next, NEW s \in Sessions, s \notin early, turn[s] = "idle", turn'[s] = "run"
        PROVE live[s] = "ready" /\ dangling[s] = 0
    <3>1. live[s] # "no" /\ queue[s] > 0
      BY <2>0, <2>2, OnlyStarts DEF TurnStarts
    <3>2. WaitsForLog(s) /\ live[s] \in {"no", "raw", "ready"} /\ held[s] \in 0 .. Holds /\ queue[s] \in 0 .. MaxQueue + 1
      BY <2>0 DEF TurnInv, TurnOf, TypeOK
    <3>3. live[s] = "ready" /\ held[s] = dangling[s] /\ ~(held[s] > 0)
      BY <2>2, <3>1, <3>2 DEF WaitsForLog
    <3> QED
      BY <3>2, <3>3, HostAssumption DEF HostAssumption
  <2> QED
    BY <1>1, <2>1, <2>2
<1> QED
  BY <1>1, Invariant, PTL DEF Spec, LogIsTakenOver
=============================================================================
