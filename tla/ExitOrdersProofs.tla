-------------------------- MODULE ExitOrdersProofs --------------------------
(***************************************************************************)
(* Theorems about ExitOrders, for any number of orders, lanes, contracts   *)
(* and attempts: cancels that are confirmed, fills that find a poller,     *)
(* rows stamped dead, sales that do not race, re-pegs that replace only    *)
(* the dead, and fills booked once.                                        *)
(***************************************************************************)
EXTENDS ExitOrders, FiniteSetTheorems, TLAPS

(* A lane record is well formed by itself, wherever it is stored. *)
Shaped(l) ==
  /\ l \in Lane
  /\ l.pc \in {"call", "ready"} => l.old \in Oids /\ (l.by = "watch" => l.cur \in Oids)
  /\ l.pc \in {"post", "watch", "quote"} => l.cur \in Oids
  /\ l.pc = "watch" => l.tries < MaxAttempts

LEMMA ShapedLanes ==
  TypeOK => \A e \in Exits : Shaped(lane[e])
BY DEF TypeOK, LaneShape, Shaped

(* A step that gives one lane a well-formed record keeps the lanes typed. *)
LEMMA GoesType ==
  ASSUME TypeOK, NEW e \in Exits, NEW l, Shaped(l), Goes(e, l)
  PROVE  lane' \in [Exits -> Lane] /\ LaneShape'
BY DEF Goes, TypeOK, LaneShape, Shaped

LEMMA RestTypes == DoneLane \in Lane /\ IdleLane \in Lane /\ Shaped(DoneLane)
<1>1. IdleLane \in Lane
  BY LaneAssumption, LotAssumption DEF Lane, IdleLane, RowStatus
<1>2. DoneLane \in Lane /\ DoneLane.pc = "done"
  BY <1>1 DEF DoneLane, Lane
<1> QED BY <1>1, <1>2 DEF Shaped

LEMMA ResumedType ==
  ASSUME NEW l \in Lane, l.cur \in Oids
  PROVE  Shaped(Resumed(l))
<1>1. CASE l.tries < MaxAttempts
  BY <1>1, OidAssumption DEF Resumed, Lane, Shaped
<1>2. CASE ~(l.tries < MaxAttempts)
  BY <1>2, RestTypes DEF Resumed
<1> QED BY <1>1, <1>2

LEMMA EndsType ==
  ASSUME TypeOK, NEW e \in Exits, Ends(e)
  PROVE  lane' \in [Exits -> Lane] /\ LaneShape'
BY RestTypes, GoesType DEF Ends

(* Inserting a row, beginning a cancel, and deciding between them, keep the *)
(* types of the variables they write.                                       *)
PlaceTypes == /\ row' \in [Oids -> Row]
              /\ broker' \in [Oids -> BrokerOrder]
              /\ lane' \in [Exits -> Lane]
              /\ raced' \in BOOLEAN
              /\ LaneShape'

LEMMA InsertType ==
  ASSUME TypeOK, NEW e \in Exits, NEW l \in Lane, Insert(e, l)
  PROVE  PlaceTypes
<1>1. PICK o \in Oids :
        /\ row' = [row EXCEPT ![o] = [status |-> "PENDING", trigger |-> TriggerOf[e],
                                      qty |-> MinOf(l.want, remaining), filled |-> 0]]
        /\ broker' = [broker EXCEPT ![o].state = "SENT"]
        /\ raced' = (raced \/ Pending # {})
        /\ Goes(e, [l EXCEPT !.pc = "post", !.cur = o, !.old = NoOid])
  BY DEF Insert
<1>2. MinOf(l.want, remaining) \in 0..Lot
  BY LotAssumption DEF TypeOK, Lane, MinOf
<1>3. row' \in [Oids -> Row]
  BY <1>1, <1>2, LaneAssumption, LotAssumption DEF TypeOK, Row, RowStatus, Triggers
<1>4. broker' \in [Oids -> BrokerOrder]
  BY <1>1 DEF TypeOK, BrokerOrder
<1>5. Shaped([l EXCEPT !.pc = "post", !.cur = o, !.old = NoOid])
  BY DEF Shaped, Lane
<1>6. raced' \in BOOLEAN
  BY <1>1
<1> QED BY <1>1, <1>3, <1>4, <1>5, <1>6, GoesType DEF PlaceTypes

LEMMA BeginCancelType ==
  ASSUME TypeOK, NEW e \in Exits, NEW l \in Lane, NEW o \in Oids,
         NEW by \in {"place", "watch", "user"}, by = "watch" => l.cur \in Oids,
         BeginCancel(e, l, o, by)
  PROVE  PlaceTypes
<1>1. Shaped([l EXCEPT !.pc = "call", !.old = o, !.by = by])
  BY DEF Shaped, Lane
<1> QED BY <1>1, GoesType DEF BeginCancel, PlaceTypes, TypeOK

LEMMA PlaceSellType ==
  ASSUME TypeOK, NEW e \in Exits, NEW l \in Lane, PlaceSell(e, l)
  PROVE  PlaceTypes
<1>1. CASE Ends(e) /\ UNCHANGED <<row, broker, raced>>
  BY <1>1, EndsType DEF PlaceTypes, TypeOK
<1>2. CASE Insert(e, l)
  BY <1>2, InsertType
<1>3. CASE \E o \in Pending : BeginCancel(e, l, o, "place")
  BY <1>3, BeginCancelType DEF Pending
<1> QED BY <1>1, <1>2, <1>3 DEF PlaceSell

LEMMA StampType ==
  ASSUME TypeOK, NEW e \in Exits, lane[e].pc = "call", Stamp(e)
  PROVE  TypeOK'
<1> DEFINE o == lane[e].old
<1>0. o \in Oids /\ lane[e] \in Lane /\ Shaped(lane[e])
  BY ShapedLanes DEF TypeOK, LaneShape
<1>1. CASE row[o].status = "FILLED"
  BY <1>1, EndsType DEF Stamp, TypeOK
<1>2. CASE row[o].status # "FILLED"
  <2>1. row' = [row EXCEPT ![o].status = "DEAD"]
    BY <1>2 DEF Stamp
  <2>2. row' \in [Oids -> Row]
    BY <2>1 DEF TypeOK, Row, RowStatus
  <2>3. Shaped([lane[e] EXCEPT !.pc = "ready"])
    BY <1>0 DEF Shaped, Lane
  <2>4. lane' \in [Exits -> Lane] /\ LaneShape'
    BY <1>2, <2>3, GoesType, EndsType DEF Stamp
  <2> QED BY <2>2, <2>4 DEF Stamp, TypeOK
<1> QED BY <1>1, <1>2

-----------------------------------------------------------------------------
(* Type correctness *)

LEMMA LaneStepType ==
  ASSUME TypeOK, NEW e \in Exits, LaneStep(e)
  PROVE  TypeOK'
<1>0. lane[e] \in Lane /\ Shaped(lane[e])
  BY ShapedLanes DEF TypeOK
<1>1. ASSUME NEW q \in 1..Lot, Request(e, q) PROVE TypeOK'
  <2>1. [lane[e] EXCEPT !.want = q] \in Lane
    BY <1>0, LotAssumption DEF Lane
  <2>2. PlaceTypes
    BY <1>1, <2>1, PlaceSellType DEF Request
  <2> QED BY <1>1, <2>2 DEF Request, PlaceTypes, TypeOK
<1>2. ASSUME NEW o \in Oids, UserCancels(e, o) PROVE TypeOK'
  <2>1. PlaceTypes
    BY <1>0, <1>2, BeginCancelType DEF UserCancels
  <2> QED BY <1>2, <2>1 DEF UserCancels, PlaceTypes, TypeOK
<1>3. CASE Replace(e)
  <2>1. PlaceTypes
    BY <1>0, <1>3, PlaceSellType, InsertType, EndsType DEF Replace, PlaceTypes, TypeOK
  <2> QED BY <1>3, <2>1 DEF Replace, PlaceTypes, TypeOK
<1>4. CASE PostReturns(e)
  <2> DEFINE whole == IF lane[e].tries > 0 THEN lane[e].all
                      ELSE TriggerOf[e] = "STOP" \/ lane[e].want >= remaining
             l == [lane[e] EXCEPT !.all = whole]
  <2>1. whole \in BOOLEAN
    BY <1>0 DEF Lane
  <2>2. lane[e].cur \in Oids
    BY <1>4 DEF PostReturns, TypeOK, LaneShape
  <2>3. l \in Lane /\ l.cur \in Oids
    BY <1>0, <2>1, <2>2 DEF Lane
  <2>4. Shaped(Resumed(l))
    BY <2>3, ResumedType
  <2>5. lane' \in [Exits -> Lane] /\ LaneShape'
    BY <1>4, <2>4, GoesType, EndsType DEF PostReturns
  <2> QED BY <1>4, <2>2, <2>5 DEF PostReturns, TypeOK
<1>5. CASE PostFails(e)
  <2>1. lane[e].cur \in Oids
    BY <1>5 DEF PostFails, TypeOK, LaneShape
  <2>2. row' \in [Oids -> Row]
    BY <1>5, <2>1 DEF PostFails, TypeOK, Row, RowStatus
  <2>3. broker' \in [Oids -> BrokerOrder]
    BY <1>5, <2>1 DEF PostFails, TypeOK, BrokerOrder
  <2> QED BY <1>5, <2>2, <2>3, EndsType DEF PostFails, TypeOK
<1>6. CASE JobTimesOut(e)
  BY <1>6, EndsType DEF JobTimesOut, TypeOK
<1>7. CASE CancelSeesFill(e)
  BY <1>7, EndsType DEF CancelSeesFill, TypeOK
<1>8. CASE CancelConfirmed(e) \/ CancelRaises(e)
  BY <1>8, StampType DEF CancelConfirmed, CancelRaises
<1>9. CASE CancelUnconfirmed(e)
  <2>1. CASE Stamp(e)
    BY <1>9, <2>1, StampType DEF CancelUnconfirmed
  <2>2. CASE Ends(e) /\ UNCHANGED <<row, remaining, broker, held, polling, raced>>
    BY <2>2, EndsType DEF TypeOK
  <2>3. CASE /\ Goes(e, Resumed(lane[e]))
             /\ lane[e].by = "watch"
             /\ UNCHANGED <<row, remaining, broker, held, polling, raced>>
    <3>1. Shaped(Resumed(lane[e]))
      BY <1>0, <1>9, <2>3, ResumedType DEF CancelUnconfirmed, Shaped
    <3> QED BY <2>3, <3>1, GoesType DEF TypeOK
  <2> QED BY <1>9, <2>1, <2>2, <2>3 DEF CancelUnconfirmed
<1>10. CASE Wakes(e)
  <2> DEFINE l == lane[e]
             w == [l EXCEPT !.pc = "quote", !.tries = @ + 1, !.seen = row[l.cur].status]
  <2>1. l.cur \in Oids /\ l.tries + 1 \in 0..MaxAttempts
    BY <1>0, <1>10, LaneAssumption DEF Wakes, Shaped, Lane
  <2>2. row[l.cur].status \in RowStatus
    BY <2>1 DEF TypeOK, Row
  <2>3. Shaped(w)
    BY <1>0, <2>1, <2>2 DEF Shaped, Lane
  <2> QED BY <1>10, <2>3, GoesType, EndsType DEF Wakes, TypeOK
<1>11. CASE Quoted(e)
  <2>1. lane[e].cur \in Oids
    BY <1>0, <1>11 DEF Quoted, Shaped
  <2>2. Shaped(Resumed(lane[e]))
    BY <1>0, <2>1, ResumedType
  <2>3. PlaceTypes
    BY <1>0, <1>11, <2>1, <2>2, PlaceSellType, BeginCancelType, GoesType
    DEF Quoted, PlaceTypes, TypeOK
  <2> QED BY <1>11, <2>3 DEF Quoted, PlaceTypes, TypeOK
<1>12. CASE QuoteFails(e)
  <2>1. Shaped(Resumed(lane[e]))
    BY <1>0, <1>12, ResumedType DEF QuoteFails, Shaped
  <2> QED BY <1>12, <2>1, GoesType DEF QuoteFails, TypeOK
<1> QED BY <1>1, <1>2, <1>3, <1>4, <1>5, <1>6, <1>7, <1>8, <1>9, <1>10, <1>11, <1>12
    DEF LaneStep

LEMMA OrderStepType ==
  ASSUME TypeOK, NEW o \in Oids, PollerStep(o) \/ BrokerStep(o)
  PROVE  TypeOK'
<1>1. CASE PollFilled(o)
  <2>1. row' \in [Oids -> Row]
    BY <1>1 DEF PollFilled, TypeOK, Row, RowStatus, BrokerOrder
  <2>2. row[o].filled \in 0..Lot /\ broker[o].filled \in 0..Lot /\ remaining \in 0..Lot
    BY DEF TypeOK, Row, BrokerOrder
  <2>3. remaining' \in 0..Lot
    BY <1>1, <2>2, LotAssumption DEF PollFilled
  <2> QED BY <1>1, <2>1, <2>3 DEF PollFilled, TypeOK, LaneShape
<1>2. CASE PollDead(o)
  BY <1>2 DEF PollDead, TypeOK, LaneShape, Row, RowStatus
<1>3. CASE PollGivesUp(o)
  BY <1>3 DEF PollGivesUp, TypeOK, LaneShape, Row, RowStatus
<1>4. CASE Accepts(o) \/ Kills(o)
  BY <1>4 DEF Accepts, Kills, TypeOK, LaneShape, BrokerOrder
<1>5. CASE Fills(o)
  BY <1>5, LotAssumption DEF Fills, TypeOK, LaneShape, BrokerOrder, Row
<1>6. CASE FillsOne(o)
  BY <1>6, LotAssumption DEF FillsOne, TypeOK, LaneShape, BrokerOrder, Row
<1> QED BY <1>1, <1>2, <1>3, <1>4, <1>5, <1>6 DEF PollerStep, BrokerStep

LEMMA TypeInit == Init => TypeOK
<1> SUFFICES ASSUME Init PROVE TypeOK
  OBVIOUS
<1>1. row \in [Oids -> Row]
  BY LotAssumption DEF Init, Row, RowStatus, Triggers, NoRow
<1>2. broker \in [Oids -> BrokerOrder]
  BY LotAssumption DEF Init, BrokerOrder, NoBrokerOrder
<1>3. IdleLane \in Lane /\ lane = [e \in Exits |-> IdleLane]
  BY RestTypes DEF Init
<1>4. lane \in [Exits -> Lane]
  BY <1>3
<1>5. \A e \in Exits : lane[e].pc = "idle"
  BY <1>3 DEF IdleLane
<1>6. LaneShape
  BY <1>5 DEF LaneShape
<1>7. remaining = Lot /\ held = Lot
  BY DEF Init
<1>8. remaining \in 0..Lot /\ held \in Int
  BY <1>7, LotAssumption
<1>9. polling \subseteq Oids /\ raced \in BOOLEAN
  BY DEF Init
<1> QED BY <1>1, <1>2, <1>4, <1>6, <1>8, <1>9 DEF TypeOK

LEMMA TypeStep == TypeOK /\ [Next]_vars => TypeOK'
<1> SUFFICES ASSUME TypeOK, [Next]_vars PROVE TypeOK'
  OBVIOUS
<1>1. CASE \E e \in Exits : LaneStep(e)
  BY <1>1, LaneStepType
<1>2. CASE \E o \in Oids : PollerStep(o) \/ BrokerStep(o)
  BY <1>2, OrderStepType
<1>3. CASE Quiet \/ UNCHANGED vars
  BY <1>3 DEF Quiet, vars, TypeOK, LaneShape
<1> QED BY <1>1, <1>2, <1>3 DEF Next

(* Every variable of the exit component keeps its type, under every fault. *)
THEOREM TypeCorrect == Spec => []TypeOK
BY TypeInit, TypeStep, PTL DEF Spec

-----------------------------------------------------------------------------
(* The confirmed-cancel contract *)

(* A row exists exactly when its order was handed to the broker. *)
RowsHanded ==
  \A o \in Oids : row[o].status = "NONE" <=> broker[o].state = "NONE"

OverUnsold == [state |-> "DEAD", filled |-> 0]

(* A lane's orders exist, and what it is ready to replace is over. *)
LaneFits(l, r, b) ==
  /\ l.pc \in {"call", "ready"} => /\ r[l.old].status # "NONE"
                                   /\ l.by = "watch" => r[l.cur].status # "NONE"
  /\ l.pc \in {"post", "watch", "quote"} => r[l.cur].status # "NONE"
  /\ l.pc = "ready" => "cancelRaises" \in Faults \/ b[l.old] = OverUnsold

CancelInv == TypeOK /\ RowsHanded /\ \A e \in Exits : LaneFits(lane[e], row, broker)

(* Rows do not vanish, and an order that is over stays as it is. *)
Kept ==
  \A o \in Oids : /\ row[o].status # "NONE" => row'[o].status # "NONE"
                  /\ broker[o] = OverUnsold => broker'[o] = OverUnsold

CancelNext == RowsHanded' /\ Kept /\ \A e \in Exits : LaneFits(lane'[e], row', broker')

(* The lanes that do not move still fit; the one that moves must. *)
LEMMA LaneMoves ==
  ASSUME CancelInv, RowsHanded', Kept, NEW e \in Exits, NEW l,
         Goes(e, l), LaneFits(l, row', broker')
  PROVE  CancelNext
<1> SUFFICES ASSUME NEW f \in Exits PROVE LaneFits(lane'[f], row', broker')
  BY DEF CancelNext
<1>1. CASE f = e
  BY <1>1 DEF Goes, CancelInv, TypeOK
<1>2. CASE f # e
  <2>1. lane'[f] = lane[f] /\ Shaped(lane[f]) /\ LaneFits(lane[f], row, broker)
    BY <1>2, ShapedLanes DEF Goes, CancelInv, TypeOK
  <2> QED BY <2>1 DEF LaneFits, Shaped, Kept
<1> QED BY <1>1, <1>2

LEMMA LaneRests ==
  ASSUME CancelInv, NEW e \in Exits, Ends(e), RowsHanded', Kept
  PROVE  CancelNext
<1>1. LaneFits(DoneLane, row', broker')
  BY DEF LaneFits, DoneLane, IdleLane
<1> QED BY <1>1, LaneMoves DEF Ends

LEMMA LaneResumes ==
  ASSUME CancelInv, NEW e \in Exits, NEW l \in Lane, row'[l.cur].status # "NONE",
         Goes(e, Resumed(l)), RowsHanded', Kept
  PROVE  CancelNext
<1>1. LaneFits(Resumed(l), row', broker')
  BY DEF LaneFits, Resumed, DoneLane, IdleLane, Lane
<1> QED BY <1>1, LaneMoves

LEMMA InsertFits ==
  ASSUME CancelInv, NEW e \in Exits, NEW l \in Lane, Insert(e, l)
  PROVE  CancelNext
<1>1. PICK o \in Oids :
        /\ row[o].status = "NONE"
        /\ row' = [row EXCEPT ![o] = [status |-> "PENDING", trigger |-> TriggerOf[e],
                                      qty |-> MinOf(l.want, remaining), filled |-> 0]]
        /\ broker' = [broker EXCEPT ![o].state = "SENT"]
        /\ Goes(e, [l EXCEPT !.pc = "post", !.cur = o, !.old = NoOid])
  BY DEF Insert
<1>2. RowsHanded'
  BY <1>1 DEF CancelInv, RowsHanded, TypeOK, Row, BrokerOrder
<1>3. Kept
  BY <1>1 DEF Kept, CancelInv, RowsHanded, TypeOK, OverUnsold
<1>4. LaneFits([l EXCEPT !.pc = "post", !.cur = o, !.old = NoOid], row', broker')
  BY <1>1 DEF LaneFits, Lane, CancelInv, TypeOK, Row
<1> QED BY <1>1, <1>2, <1>3, <1>4, LaneMoves

LEMMA BeginCancelFits ==
  ASSUME CancelInv, NEW e \in Exits, NEW l \in Lane, NEW o \in Oids,
         NEW by \in {"place", "watch", "user"}, by = "watch" => l.cur = o,
         BeginCancel(e, l, o, by)
  PROVE  CancelNext
<1>1. LaneFits([l EXCEPT !.pc = "call", !.old = o, !.by = by], row', broker')
  BY DEF LaneFits, Lane, BeginCancel
<1> QED BY <1>1, LaneMoves DEF BeginCancel, CancelInv, RowsHanded, Kept

LEMMA PlaceSellFits ==
  ASSUME CancelInv, NEW e \in Exits, NEW l \in Lane, PlaceSell(e, l)
  PROVE  CancelNext
<1>1. CASE Ends(e) /\ UNCHANGED <<row, broker>>
  BY <1>1, LaneRests DEF CancelInv, RowsHanded, Kept
<1>2. CASE Insert(e, l)
  BY <1>2, InsertFits
<1>3. CASE \E o \in Pending : BeginCancel(e, l, o, "place")
  BY <1>3, BeginCancelFits DEF Pending
<1> QED BY <1>1, <1>2, <1>3 DEF PlaceSell

LEMMA StampFits ==
  ASSUME CancelInv, NEW e \in Exits, lane[e].pc = "call", Stamp(e),
         lane[e].by = "user" \/ "cancelRaises" \in Faults \/ broker[lane[e].old] = OverUnsold
  PROVE  CancelNext
<1> DEFINE o == lane[e].old
<1>0. /\ o \in Oids /\ lane[e] \in Lane /\ row[o].status # "NONE"
      /\ lane[e].by = "watch" => lane[e].cur \in Oids /\ row[lane[e].cur].status # "NONE"
  BY DEF CancelInv, TypeOK, LaneShape, LaneFits
<1>1. CASE row[o].status = "FILLED"
  BY <1>1, LaneRests DEF Stamp, CancelInv, RowsHanded, Kept
<1>2. CASE row[o].status # "FILLED"
  <2>1. row' = [row EXCEPT ![o].status = "DEAD"] /\ UNCHANGED broker
    BY <1>2 DEF Stamp
  <2>2. RowsHanded' /\ Kept
    BY <1>0, <2>1 DEF CancelInv, RowsHanded, Kept, TypeOK, Row
  <2>3. CASE lane[e].by = "user"
    BY <1>2, <2>2, <2>3, LaneRests DEF Stamp
  <2>4. CASE lane[e].by # "user"
    <3>1. LaneFits([lane[e] EXCEPT !.pc = "ready"], row', broker')
      BY <1>0, <2>1, <2>2, <2>4 DEF LaneFits, Lane, Kept
    <3> QED BY <1>2, <2>2, <2>4, <3>1, LaneMoves DEF Stamp
  <2> QED BY <2>3, <2>4
<1> QED BY <1>1, <1>2

LEMMA LaneStepFits ==
  ASSUME CancelInv, NEW e \in Exits, LaneStep(e)
  PROVE  CancelNext
<1>0. /\ lane[e] \in Lane /\ Shaped(lane[e]) /\ LaneFits(lane[e], row, broker)
      /\ TypeOK
  BY ShapedLanes DEF CancelInv, TypeOK
<1>s. UNCHANGED <<row, broker>> => RowsHanded' /\ Kept
  BY DEF CancelInv, RowsHanded, Kept
<1>1. ASSUME NEW q \in 1..Lot, Request(e, q) PROVE CancelNext
  <2>1. [lane[e] EXCEPT !.want = q] \in Lane
    BY <1>0, LotAssumption DEF Lane
  <2> QED BY <1>1, <2>1, PlaceSellFits DEF Request
<1>2. ASSUME NEW o \in Oids, UserCancels(e, o) PROVE CancelNext
  BY <1>0, <1>2, BeginCancelFits DEF UserCancels
<1>3. CASE Replace(e)
  BY <1>0, <1>3, <1>s, PlaceSellFits, InsertFits, LaneRests DEF Replace
<1>4. CASE PostReturns(e)
  <2> DEFINE whole == IF lane[e].tries > 0 THEN lane[e].all
                      ELSE TriggerOf[e] = "STOP" \/ lane[e].want >= remaining
             l == [lane[e] EXCEPT !.all = whole]
  <2>1. whole \in BOOLEAN
    BY <1>0 DEF Lane
  <2>2. l \in Lane /\ row'[l.cur].status # "NONE"
    BY <1>0, <1>4, <2>1 DEF Lane, PostReturns, LaneFits
  <2> QED BY <1>4, <2>2, <1>s, LaneResumes, LaneRests DEF PostReturns
<1>5. CASE PostFails(e)
  <2> DEFINE o == lane[e].cur
  <2>1. o \in Oids /\ row[o].status # "NONE"
    BY <1>0, <1>5 DEF PostFails, Shaped, LaneFits
  <2>2. row' = [row EXCEPT ![o].status = "DEAD"]
    BY <1>5 DEF PostFails
  <2>3. \/ UNCHANGED broker
        \/ broker[o].state = "SENT" /\ broker' = [broker EXCEPT ![o].state = "DEAD"]
    BY <1>5 DEF PostFails
  <2>4. RowsHanded'
    BY <1>0, <2>1, <2>2, <2>3 DEF CancelInv, RowsHanded, TypeOK, Row, BrokerOrder
  <2>5. Kept
    BY <1>0, <2>1, <2>2, <2>3 DEF Kept, OverUnsold, TypeOK, Row, BrokerOrder
  <2> QED BY <1>5, <2>4, <2>5, LaneRests DEF PostFails
<1>6. CASE JobTimesOut(e) \/ CancelSeesFill(e)
  BY <1>6, <1>s, LaneRests DEF JobTimesOut, CancelSeesFill
<1>7. CASE CancelConfirmed(e)
  BY <1>7, StampFits DEF CancelConfirmed, OverUnsold
<1>8. CASE CancelUnconfirmed(e)
  <2>1. CASE lane[e].by = "watch" /\ Goes(e, Resumed(lane[e])) /\ UNCHANGED <<row, broker>>
    <3>1. row'[lane[e].cur].status # "NONE"
      BY <1>0, <1>8, <2>1 DEF LaneFits, CancelUnconfirmed
    <3> QED BY <1>0, <1>s, <2>1, <3>1, LaneResumes
  <2> QED BY <1>8, <1>s, <2>1, LaneRests, StampFits DEF CancelUnconfirmed
<1>9. CASE Wakes(e)
  <2> DEFINE l == lane[e]
             w == [l EXCEPT !.pc = "quote", !.tries = @ + 1, !.seen = row[l.cur].status]
  <2>1. LaneFits(w, row', broker')
    BY <1>0, <1>9 DEF LaneFits, Lane, Wakes
  <2> QED BY <1>9, <1>s, <2>1, LaneMoves, LaneRests DEF Wakes
<1>10. CASE Quoted(e)
  <2>1. lane[e].cur \in Oids /\ row[lane[e].cur].status # "NONE"
    BY <1>0, <1>10 DEF Quoted, Shaped, LaneFits
  <2>2. CASE BeginCancel(e, lane[e], lane[e].cur, "watch")
    BY <1>0, <2>1, <2>2, BeginCancelFits
  <2>3. CASE Goes(e, Resumed(lane[e])) /\ UNCHANGED <<row, broker>>
    BY <1>0, <1>s, <2>1, <2>3, LaneResumes
  <2>4. CASE PlaceSell(e, lane[e])
    BY <1>0, <2>4, PlaceSellFits
  <2> QED BY <1>10, <2>2, <2>3, <2>4 DEF Quoted
<1>11. CASE QuoteFails(e)
  BY <1>0, <1>s, <1>11, LaneResumes DEF QuoteFails, LaneFits
<1>12. CASE CancelRaises(e)
  BY <1>12, StampFits DEF CancelRaises
<1> QED BY <1>1, <1>2, <1>3, <1>4, <1>5, <1>6, <1>7, <1>8, <1>9, <1>10, <1>11, <1>12
    DEF LaneStep

LEMMA OrderStepFits ==
  ASSUME CancelInv, NEW o \in Oids, PollerStep(o) \/ BrokerStep(o)
  PROVE  CancelNext
<1>0. TypeOK
  BY DEF CancelInv
<1>1. RowsHanded' /\ Kept
  <2>1. CASE PollFilled(o)
    <3>1. /\ broker[o].state # "NONE" /\ UNCHANGED broker
          /\ row' = [row EXCEPT ![o].status = "FILLED", ![o].filled = broker[o].filled]
      BY <2>1 DEF PollFilled
    <3>2. /\ row'[o].status = "FILLED"
          /\ \A p \in Oids : p # o => row'[p] = row[p]
      BY <1>0, <3>1 DEF TypeOK, Row
    <3> QED BY <3>1, <3>2 DEF CancelInv, RowsHanded, Kept
  <2>2. CASE PollDead(o) \/ PollGivesUp(o)
    <3>1. /\ UNCHANGED broker
          /\ \/ row' = row
             \/ /\ row' = [row EXCEPT ![o].status = "DEAD"]
                /\ row[o].status = "PENDING" \/ broker[o].state = "DEAD"
      BY <2>2, Zenon DEF PollDead, PollGivesUp
    <3>2. CASE row' = row
      BY <3>1, <3>2 DEF CancelInv, RowsHanded, Kept
    <3>3. CASE row' # row
      <4>1. /\ row'[o].status = "DEAD"
            /\ \A p \in Oids : p # o => row'[p] = row[p]
        BY <1>0, <3>1, <3>3 DEF TypeOK, Row
      <4>2. row[o].status # "NONE"
        BY <3>1, <3>3 DEF CancelInv, RowsHanded
      <4> QED BY <3>1, <4>1, <4>2 DEF CancelInv, RowsHanded, Kept
    <3> QED BY <3>2, <3>3
  <2>3. CASE Accepts(o) \/ Fills(o) \/ FillsOne(o) \/ Kills(o)
    <3>1. /\ UNCHANGED row
          /\ broker[o].state \in {"SENT", "LIVE"} /\ broker'[o].state # "NONE"
          /\ \A p \in Oids : p # o => broker'[p] = broker[p]
      BY <1>0, <2>3 DEF Accepts, Fills, FillsOne, Kills, TypeOK, BrokerOrder
    <3> QED BY <3>1 DEF CancelInv, RowsHanded, Kept, OverUnsold
  <2> QED BY <2>1, <2>2, <2>3 DEF PollerStep, BrokerStep
<1>2. lane' = lane
  BY DEF PollerStep, BrokerStep, PollFilled, PollDead, PollGivesUp, Accepts, Fills, FillsOne, Kills
<1>3. ASSUME NEW e \in Exits PROVE LaneFits(lane'[e], row', broker')
  <2>1. Shaped(lane[e]) /\ LaneFits(lane[e], row, broker)
    BY <1>0, ShapedLanes DEF CancelInv
  <2> QED BY <1>1, <1>2, <2>1 DEF LaneFits, Shaped, Kept
<1> QED BY <1>1, <1>3 DEF CancelNext

LEMMA CancelInit == Init => CancelInv
BY TypeInit DEF Init, CancelInv, RowsHanded, NoRow, NoBrokerOrder, LaneFits, IdleLane

LEMMA CancelStep == CancelInv /\ [Next]_vars => CancelInv'
<1> SUFFICES ASSUME CancelInv, [Next]_vars PROVE CancelInv'
  OBVIOUS
<1>1. TypeOK'
  BY TypeStep DEF CancelInv
<1>2. CASE \E e \in Exits : LaneStep(e)
  <2>1. CancelNext
    BY <1>2, LaneStepFits
  <2> QED BY <1>1, <2>1 DEF CancelNext, CancelInv
<1>3. CASE \E o \in Oids : PollerStep(o) \/ BrokerStep(o)
  <2>1. CancelNext
    BY <1>3, OrderStepFits
  <2> QED BY <1>1, <2>1 DEF CancelNext, CancelInv
<1>4. CASE Quiet \/ UNCHANGED vars
  BY <1>1, <1>4 DEF Quiet, vars, CancelInv, RowsHanded
<1> QED BY <1>2, <1>3, <1>4 DEF Next

(* Unless the broker's cancel call raises, what cancel_order lets a lane    *)
(* replace is over at the broker and sold nothing: with every lane, every   *)
(* interleaving and every other fault.                                      *)
THEOREM ConfirmedCancel ==
  ASSUME "cancelRaises" \notin Faults
  PROVE  Spec => []ReplacesOnlyTheDead
<1>1. CancelInv => ReplacesOnlyTheDead
  BY DEF CancelInv, ReplacesOnlyTheDead, LaneFits, OverUnsold
<1> QED BY <1>1, CancelInit, CancelStep, PTL DEF Spec

-----------------------------------------------------------------------------
(* No fill is lost *)

Posted(o) == o \in polling \/ \E e \in Exits : lane[e].pc = "post" /\ lane[e].cur = o

(* An order that may fill, or has, unbeknown to its row. *)
Owed(r, b) == b.state \in {"SENT", "LIVE"} \/ b.filled > r.filled

(* Every such order is followed, and only an order FILLED in whole sold. *)
Followed ==
  \A o \in Oids : /\ Owed(row[o], broker[o]) => Posted(o)
                  /\ broker[o].state # "FILLED" => broker[o].filled = 0

FollowInv == TypeOK /\ RowsHanded /\ Followed

(* A lane that is not at its POST may move without losing sight of orders. *)
LEMMA StillPosted ==
  ASSUME TypeOK, NEW e \in Exits, NEW l, lane[e].pc # "post", Goes(e, l),
         polling' = polling, NEW o \in Oids, Posted(o)
  PROVE  Posted(o)'
BY DEF Posted, Goes, TypeOK

LEMMA SameOwed ==
  ASSUME FollowInv, NEW e \in Exits, NEW l, lane[e].pc # "post", Goes(e, l),
         UNCHANGED <<row, broker, polling>>
  PROVE  Followed'
BY StillPosted DEF FollowInv, Followed, Owed

LEMMA InsertFollowed ==
  ASSUME FollowInv, NEW e \in Exits, NEW l \in Lane, lane[e].pc # "post", Insert(e, l),
         polling' = polling
  PROVE  Followed'
<1>0. TypeOK
  BY DEF FollowInv
<1> DEFINE m(o) == [l EXCEPT !.pc = "post", !.cur = o, !.old = NoOid]
<1>1. PICK o \in Oids :
        /\ row[o].status = "NONE"
        /\ row' = [row EXCEPT ![o] = [status |-> "PENDING", trigger |-> TriggerOf[e],
                                      qty |-> MinOf(l.want, remaining), filled |-> 0]]
        /\ broker' = [broker EXCEPT ![o].state = "SENT"]
        /\ Goes(e, m(o))
  BY Zenon DEF Insert
<1>2. lane'[e] = m(o) /\ m(o).pc = "post" /\ m(o).cur = o
  BY <1>0, <1>1 DEF Goes, TypeOK, Lane
<1>3. Posted(o)'
  BY <1>2 DEF Posted
<1>4. broker[o].filled = 0 /\ broker'[o].filled = 0
  BY <1>0, <1>1 DEF FollowInv, RowsHanded, Followed, TypeOK, BrokerOrder
<1>5. \A p \in Oids : p # o => row'[p] = row[p] /\ broker'[p] = broker[p]
  BY <1>0, <1>1 DEF TypeOK
<1>6. ASSUME NEW p \in Oids, p # o
      PROVE  /\ Owed(row'[p], broker'[p]) => Posted(p)'
             /\ broker'[p].state # "FILLED" => broker'[p].filled = 0
  BY <1>0, <1>1, <1>5, <1>6, StillPosted DEF FollowInv, Followed
<1> QED BY <1>3, <1>4, <1>6 DEF Followed, Owed

LEMMA PlaceSellFollowed ==
  ASSUME FollowInv, NEW e \in Exits, NEW l \in Lane, lane[e].pc # "post", PlaceSell(e, l),
         polling' = polling
  PROVE  Followed'
<1>1. CASE Ends(e) /\ UNCHANGED <<row, broker>>
  BY <1>1, SameOwed DEF Ends
<1>2. CASE Insert(e, l)
  BY <1>2, InsertFollowed
<1>3. CASE \E o \in Pending : BeginCancel(e, l, o, "place")
  BY <1>3, SameOwed DEF BeginCancel
<1> QED BY <1>1, <1>2, <1>3 DEF PlaceSell

LEMMA StampFollowed ==
  ASSUME FollowInv, NEW e \in Exits, lane[e].pc = "call", Stamp(e)
  PROVE  Followed'
<1> DEFINE o == lane[e].old
<1>1. CASE Ends(e) /\ UNCHANGED row
  BY <1>1, SameOwed DEF Stamp, Ends
<1>2. CASE row' = [row EXCEPT ![o].status = "DEAD"]
  <2>1. PICK l : Goes(e, l)
    BY DEF Stamp, Ends
  <2>2. broker' = broker /\ \A p \in Oids : row'[p].filled = row[p].filled
    BY <1>2 DEF Stamp, FollowInv, TypeOK, Row
  <2>3. \A p \in Oids : Posted(p) => Posted(p)'
    BY <2>1, StillPosted DEF Stamp, FollowInv
  <2> QED BY <2>2, <2>3 DEF FollowInv, Followed, Owed
<1> QED BY <1>1, <1>2 DEF Stamp

LEMMA LaneStepFollowed ==
  ASSUME FollowInv, Faults \subseteq {"cancelRaises"}, NEW e \in Exits, LaneStep(e)
  PROVE  Followed'
<1>0. lane[e] \in Lane /\ Shaped(lane[e]) /\ TypeOK
  BY ShapedLanes DEF FollowInv, TypeOK
<1>1. ASSUME NEW q \in 1..Lot, Request(e, q) PROVE Followed'
  <2>1. [lane[e] EXCEPT !.want = q] \in Lane
    BY <1>0, LotAssumption DEF Lane
  <2> QED BY <1>1, <2>1, PlaceSellFollowed DEF Request
<1>2. ASSUME NEW o \in Oids, UserCancels(e, o) PROVE Followed'
  BY <1>2, SameOwed DEF UserCancels, BeginCancel
<1>3. CASE Replace(e)
  BY <1>0, <1>3, PlaceSellFollowed, InsertFollowed, SameOwed DEF Replace, Ends
<1>4. CASE PostReturns(e)
  <2>1. PICK l : Goes(e, l)
    BY <1>4 DEF PostReturns, Ends
  <2>2. polling' = polling \cup {lane[e].cur} /\ UNCHANGED <<row, broker>>
    BY <1>4 DEF PostReturns
  <2>3. \A o \in Oids : Posted(o) => Posted(o)'
    BY <1>0, <2>1, <2>2 DEF Posted, Goes, TypeOK
  <2> QED BY <2>2, <2>3 DEF FollowInv, Followed, Owed
<1>5. CASE PostFails(e)
  <2> DEFINE o == lane[e].cur
  <2>1. /\ o \in Oids /\ lane[e].pc = "post" /\ polling' = polling /\ Ends(e)
        /\ broker[o].state = "SENT" /\ broker' = [broker EXCEPT ![o].state = "DEAD"]
        /\ row' = [row EXCEPT ![o].status = "DEAD"]
    BY <1>0, <1>5 DEF PostFails, Shaped
  <2>2. /\ broker'[o].state = "DEAD" /\ broker'[o].filled = 0 /\ row'[o].filled \in Nat
        /\ \A p \in Oids : p # o => row'[p] = row[p] /\ broker'[p] = broker[p]
    BY <1>0, <2>1, LotAssumption DEF FollowInv, Followed, TypeOK, BrokerOrder, Row
  <2>3. \A p \in Oids : p # o /\ Posted(p) => Posted(p)'
    BY <1>0, <2>1 DEF Posted, Ends, Goes, TypeOK
  <2>4. ~Owed(row'[o], broker'[o])
    BY <2>2 DEF Owed
  <2> QED BY <2>2, <2>3, <2>4 DEF FollowInv, Followed
<1>6. CASE CancelSeesFill(e)
  BY <1>6, SameOwed DEF CancelSeesFill, Ends
<1>7. CASE CancelConfirmed(e) \/ CancelRaises(e)
  BY <1>7, StampFollowed DEF CancelConfirmed, CancelRaises
<1>8. CASE CancelUnconfirmed(e)
  BY <1>8, StampFollowed, SameOwed DEF CancelUnconfirmed, Ends
<1>9. CASE Wakes(e)
  BY <1>9, SameOwed DEF Wakes, Ends
<1>10. CASE Quoted(e)
  BY <1>0, <1>10, PlaceSellFollowed, SameOwed DEF Quoted, BeginCancel
<1>11. CASE QuoteFails(e)
  BY <1>11, SameOwed DEF QuoteFails
<1>12. ~JobTimesOut(e)
  BY DEF JobTimesOut
<1> QED BY <1>1, <1>2, <1>3, <1>4, <1>5, <1>6, <1>7, <1>8, <1>9, <1>10, <1>11, <1>12
    DEF LaneStep

LEMMA OrderStepFollowed ==
  ASSUME FollowInv, Faults \subseteq {"cancelRaises"}, NEW o \in Oids,
         PollerStep(o) \/ BrokerStep(o)
  PROVE  Followed'
<1>0. TypeOK /\ row[o] \in Row /\ broker[o] \in BrokerOrder
  BY DEF FollowInv, TypeOK
<1>1. lane' = lane /\ \A p \in Oids : p # o => (Posted(p) => Posted(p)')
  BY DEF PollerStep, BrokerStep, PollFilled, PollDead, PollGivesUp, Accepts, Fills, FillsOne,
     Kills, Posted
<1>2. \A p \in Oids : p # o => row'[p] = row[p] /\ broker'[p] = broker[p]
  <2>1. \/ UNCHANGED broker
        \/ UNCHANGED row
    BY DEF PollerStep, BrokerStep, PollFilled, PollDead, PollGivesUp, Accepts, Fills, FillsOne,
       Kills
  <2> QED BY <1>0, <2>1 DEF PollerStep, BrokerStep, PollFilled, PollDead, PollGivesUp, Accepts,
             Fills, FillsOne, Kills, TypeOK
<1>3. /\ Owed(row'[o], broker'[o]) => Posted(o)'
      /\ broker'[o].state # "FILLED" => broker'[o].filled = 0
  <2>1. CASE PollFilled(o)
    <3>1. broker' = broker /\ broker[o].state = "FILLED" /\ row'[o].filled = broker[o].filled
      BY <1>0, <2>1 DEF PollFilled, TypeOK, Row
    <3> QED BY <1>0, <3>1 DEF Owed, BrokerOrder
  <2>2. CASE PollDead(o)
    <3>1. broker' = broker /\ broker[o].state = "DEAD" /\ row'[o].filled = row[o].filled
      BY <1>0, <2>2 DEF PollDead, TypeOK, Row
    <3>2. broker[o].filled = 0 /\ row[o].filled \in Nat
      BY <1>0, <3>1, LotAssumption DEF FollowInv, Followed, Row
    <3> QED BY <3>1, <3>2 DEF Owed
  <2>3. CASE Accepts(o) \/ Fills(o) \/ Kills(o)
    <3>1. /\ UNCHANGED <<row, lane, polling>> /\ broker[o].state \in {"SENT", "LIVE"}
          /\ broker'[o].state # "FILLED" => broker'[o].filled = broker[o].filled
      BY <1>0, <2>3 DEF Accepts, Fills, Kills, TypeOK, BrokerOrder
    <3>2. Posted(o)' /\ broker[o].filled = 0
      BY <3>1 DEF FollowInv, Followed, Owed, Posted
    <3> QED BY <3>1, <3>2
  <2>4. ~PollGivesUp(o) /\ ~FillsOne(o)
    BY DEF PollGivesUp, FillsOne
  <2> QED BY <2>1, <2>2, <2>3, <2>4 DEF PollerStep, BrokerStep
<1> QED BY <1>1, <1>2, <1>3 DEF FollowInv, Followed

(* Whatever the interleaving of exits, re-pegs and cancels, and even when   *)
(* cancel calls raise, no fill is ever without a poller to book it, as long *)
(* as orders fill in whole, pollers do not give up, and POSTs and queue     *)
(* jobs fail cleanly.                                                       *)
THEOREM NoFillLost ==
  ASSUME Faults \subseteq {"cancelRaises"}
  PROVE  Spec => []FillWillBeBooked
<1>1. Init => CancelInv /\ Followed
  BY CancelInit DEF Init, Followed, Owed, NoRow, NoBrokerOrder
<1>2. CancelInv /\ Followed /\ [Next]_vars => CancelInv' /\ Followed'
  <2> SUFFICES ASSUME CancelInv, Followed, [Next]_vars PROVE Followed'
    BY CancelStep
  <2>1. FollowInv
    BY DEF FollowInv, CancelInv
  <2>2. CASE \E e \in Exits : LaneStep(e)
    BY <2>1, <2>2, LaneStepFollowed
  <2>3. CASE \E o \in Oids : PollerStep(o) \/ BrokerStep(o)
    BY <2>1, <2>3, OrderStepFollowed
  <2>4. CASE Quiet \/ UNCHANGED vars
    BY <2>4 DEF Quiet, vars, Followed, Posted
  <2> QED BY <2>2, <2>3, <2>4 DEF Next
<1>3. Followed => FillWillBeBooked
  BY DEF Followed, Owed, Posted, FillWillBeBooked
<1> QED BY <1>1, <1>2, <1>3, PTL DEF Spec

-----------------------------------------------------------------------------
(* Dead rows are dead *)

NobodyCancels == \A e \in Exits : lane[e].by # "user"
DeadInv == CancelInv /\ DeadRowsAreDead /\ NobodyCancels

(* A dead row's order stays over, and rows die only with their order.       *)
Dies(o) == row'[o].status = "DEAD" => broker'[o].state \in {"DEAD", "FILLED"}
DeadNext == (\A o \in Oids : Dies(o)) /\ NobodyCancels'

LEMMA GoesUncancelled ==
  ASSUME DeadInv, NEW e \in Exits, NEW l, l.by # "user", Goes(e, l)
  PROVE  NobodyCancels'
BY DEF DeadInv, CancelInv, TypeOK, NobodyCancels, Goes

LEMMA EndsUncancelled ==
  ASSUME DeadInv, NEW e \in Exits, Ends(e)
  PROVE  NobodyCancels'
BY GoesUncancelled DEF Ends, DoneLane, IdleLane

LEMMA ResumesUncancelled ==
  ASSUME DeadInv, NEW e \in Exits, NEW l \in Lane, l.by # "user", Goes(e, Resumed(l))
  PROVE  NobodyCancels'
<1>1. Resumed(l).by # "user"
  BY DEF Resumed, DoneLane, IdleLane, Lane
<1> QED BY <1>1, GoesUncancelled

LEMMA SameDead ==
  ASSUME DeadInv, UNCHANGED <<row, broker>>
  PROVE  \A o \in Oids : Dies(o)
BY DEF DeadInv, DeadRowsAreDead, Dies

LEMMA InsertDead ==
  ASSUME DeadInv, NEW e \in Exits, NEW l \in Lane, l.by # "user", Insert(e, l)
  PROVE  DeadNext
<1>1. PICK o \in Oids :
        /\ row[o].status = "NONE"
        /\ row' = [row EXCEPT ![o] = [status |-> "PENDING", trigger |-> TriggerOf[e],
                                      qty |-> MinOf(l.want, remaining), filled |-> 0]]
        /\ broker' = [broker EXCEPT ![o].state = "SENT"]
        /\ Goes(e, [l EXCEPT !.pc = "post", !.cur = o, !.old = NoOid])
  BY DEF Insert
<1>2. [l EXCEPT !.pc = "post", !.cur = o, !.old = NoOid].by # "user"
  BY DEF Lane
<1>3. row'[o].status = "PENDING" /\ \A p \in Oids : p # o => row'[p] = row[p] /\ broker'[p] = broker[p]
  BY <1>1 DEF DeadInv, CancelInv, TypeOK
<1>4. \A p \in Oids : Dies(p)
  BY <1>3 DEF DeadInv, DeadRowsAreDead, Dies
<1> QED BY <1>1, <1>2, <1>4, GoesUncancelled DEF DeadNext

LEMMA BeginCancelDead ==
  ASSUME DeadInv, NEW e \in Exits, NEW l \in Lane, NEW o \in Oids, NEW by \in {"place", "watch"},
         BeginCancel(e, l, o, by)
  PROVE  DeadNext
<1>1. [l EXCEPT !.pc = "call", !.old = o, !.by = by].by # "user"
  BY DEF Lane
<1> QED BY <1>1, GoesUncancelled, SameDead DEF BeginCancel, DeadNext

LEMMA PlaceSellDead ==
  ASSUME DeadInv, NEW e \in Exits, NEW l \in Lane, l.by # "user", PlaceSell(e, l)
  PROVE  DeadNext
<1>1. CASE Ends(e) /\ UNCHANGED <<row, broker>>
  BY <1>1, EndsUncancelled, SameDead DEF DeadNext
<1>2. CASE Insert(e, l)
  BY <1>2, InsertDead
<1>3. CASE \E o \in Pending : BeginCancel(e, l, o, "place")
  BY <1>3, BeginCancelDead DEF Pending
<1> QED BY <1>1, <1>2, <1>3 DEF PlaceSell

(* Stamping an order that is over. *)
LEMMA StampDead ==
  ASSUME DeadInv, NEW e \in Exits, lane[e].pc = "call", Stamp(e), broker[lane[e].old] = OverUnsold
  PROVE  DeadNext
<1> DEFINE o == lane[e].old
<1>0. /\ o \in Oids /\ lane[e] \in Lane /\ lane[e].by # "user"
      /\ UNCHANGED broker
  BY DEF DeadInv, NobodyCancels, CancelInv, TypeOK, LaneShape, Stamp
<1>1. CASE row[o].status = "FILLED"
  BY <1>0, <1>1, EndsUncancelled, SameDead DEF Stamp, DeadNext
<1>2. CASE row[o].status # "FILLED"
  <2>1. row' = [row EXCEPT ![o].status = "DEAD"] /\ Goes(e, [lane[e] EXCEPT !.pc = "ready"])
    BY <1>0, <1>2 DEF Stamp
  <2>2. [lane[e] EXCEPT !.pc = "ready"].by # "user"
    BY <1>0 DEF Lane
  <2>3. \A p \in Oids : p # o => row'[p] = row[p]
    BY <2>1 DEF DeadInv, CancelInv, TypeOK
  <2>4. \A p \in Oids : Dies(p)
    BY <1>0, <2>3 DEF DeadInv, DeadRowsAreDead, Dies, OverUnsold
  <2> QED BY <2>1, <2>2, <2>4, GoesUncancelled DEF DeadNext
<1> QED BY <1>1, <1>2

LEMMA PostFailsDead ==
  ASSUME DeadInv, "postAmbiguous" \notin Faults, NEW e \in Exits, PostFails(e)
  PROVE  DeadNext
<1> DEFINE o == lane[e].cur
<1>1. /\ o \in Oids
      /\ row' = [row EXCEPT ![o].status = "DEAD"]
      /\ broker' = [broker EXCEPT ![o].state = "DEAD"]
      /\ Ends(e)
  BY DEF DeadInv, CancelInv, TypeOK, LaneShape, PostFails
<1>2. /\ broker'[o].state = "DEAD"
      /\ \A p \in Oids : p # o => row'[p] = row[p] /\ broker'[p] = broker[p]
  BY <1>1 DEF DeadInv, CancelInv, TypeOK, BrokerOrder
<1>3. \A p \in Oids : Dies(p)
  BY <1>2 DEF DeadInv, DeadRowsAreDead, Dies
<1> QED BY <1>1, <1>3, EndsUncancelled DEF DeadNext

(* Every fault that leaves the code to guess is off. *)
Guessless ==
  /\ Faults \subseteq {"partialFills", "jobTimeout"}
  /\ \A e \in Exits : TriggerOf[e] # "CANCEL"

LEMMA LaneStepDead ==
  ASSUME Guessless, DeadInv, NEW e \in Exits, LaneStep(e)
  PROVE  DeadNext
<1>0. /\ lane[e] \in Lane /\ Shaped(lane[e]) /\ lane[e].by # "user"
      /\ TypeOK
  BY ShapedLanes DEF DeadInv, CancelInv, TypeOK, NobodyCancels
<1>1. ASSUME NEW q \in 1..Lot, Request(e, q) PROVE DeadNext
  <2>1. [lane[e] EXCEPT !.want = q] \in Lane /\ [lane[e] EXCEPT !.want = q].by # "user"
    BY <1>0, LotAssumption DEF Lane
  <2> QED BY <1>1, <2>1, PlaceSellDead DEF Request
<1>2. ASSUME NEW o \in Oids, UserCancels(e, o) PROVE DeadNext
  BY <1>2 DEF Guessless, UserCancels
<1>3. CASE Replace(e)
  BY <1>0, <1>3, PlaceSellDead, InsertDead, EndsUncancelled, SameDead DEF Replace, DeadNext
<1>4. CASE PostReturns(e)
  <2>1. UNCHANGED <<row, broker>>
    BY <1>4 DEF PostReturns
  <2>2. PICK w \in BOOLEAN : Ends(e) \/ Goes(e, Resumed([lane[e] EXCEPT !.all = w]))
    <3> DEFINE w == IF lane[e].tries > 0 THEN lane[e].all
                    ELSE TriggerOf[e] = "STOP" \/ lane[e].want >= remaining
    <3>1. w \in BOOLEAN
      BY <1>0, Zenon DEF Lane
    <3>2. Ends(e) \/ Goes(e, Resumed([lane[e] EXCEPT !.all = w]))
      BY <1>4 DEF PostReturns
    <3> QED BY <3>1, <3>2
  <2>3. [lane[e] EXCEPT !.all = w] \in Lane /\ [lane[e] EXCEPT !.all = w].by # "user"
    BY <1>0 DEF Lane
  <2> QED BY <2>1, <2>2, <2>3, EndsUncancelled, ResumesUncancelled, SameDead DEF DeadNext
<1>5. CASE PostFails(e)
  BY <1>5, PostFailsDead DEF Guessless
<1>6. CASE JobTimesOut(e) \/ CancelSeesFill(e)
  BY <1>6, EndsUncancelled, SameDead DEF JobTimesOut, CancelSeesFill, DeadNext
<1>7. CASE CancelConfirmed(e)
  BY <1>7, StampDead DEF CancelConfirmed, OverUnsold
<1>8. CASE CancelUnconfirmed(e)
  BY <1>0, <1>8, EndsUncancelled, ResumesUncancelled, SameDead DEF CancelUnconfirmed, DeadNext
<1>9. ~CancelRaises(e)
  BY DEF Guessless, CancelRaises
<1>10. CASE Wakes(e)
  <2>1. [lane[e] EXCEPT !.pc = "quote", !.tries = @ + 1, !.seen = row[lane[e].cur].status].by # "user"
    BY <1>0 DEF Lane
  <2> QED BY <1>10, <2>1, EndsUncancelled, GoesUncancelled, SameDead DEF Wakes, DeadNext
<1>11. CASE Quoted(e)
  <2>1. lane[e].cur \in Oids
    BY <1>0, <1>11 DEF Shaped, Quoted
  <2> QED BY <1>0, <1>11, <2>1, BeginCancelDead, PlaceSellDead, ResumesUncancelled, SameDead
          DEF Quoted, DeadNext
<1>12. CASE QuoteFails(e)
  BY <1>0, <1>12, ResumesUncancelled, SameDead DEF QuoteFails, DeadNext
<1> QED BY <1>1, <1>2, <1>3, <1>4, <1>5, <1>6, <1>7, <1>8, <1>9, <1>10, <1>11, <1>12 DEF LaneStep

LEMMA OrderStepDead ==
  ASSUME Guessless, DeadInv, NEW o \in Oids, PollerStep(o) \/ BrokerStep(o)
  PROVE  DeadNext
<1>0. TypeOK
  BY DEF DeadInv, CancelInv
<1>1. lane' = lane
  BY DEF PollerStep, BrokerStep, PollFilled, PollDead, PollGivesUp, Accepts, Fills, FillsOne, Kills
<1>2. \A p \in Oids : Dies(p)
  <2>1. CASE PollFilled(o)
    <3>1. /\ UNCHANGED broker
          /\ row' = [row EXCEPT ![o].status = "FILLED", ![o].filled = broker[o].filled]
      BY <2>1 DEF PollFilled
    <3>2. /\ row'[o].status = "FILLED"
          /\ \A p \in Oids : p # o => row'[p] = row[p]
      BY <1>0, <3>1 DEF TypeOK, Row
    <3> QED BY <3>1, <3>2 DEF DeadInv, DeadRowsAreDead, Dies
  <2>2. CASE PollDead(o)
    <3>1. /\ UNCHANGED broker /\ broker[o].state = "DEAD"
          /\ \A p \in Oids : p # o => row'[p] = row[p]
      BY <1>0, <2>2 DEF PollDead, TypeOK
    <3> QED BY <3>1 DEF DeadInv, DeadRowsAreDead, Dies
  <2>3. CASE Accepts(o) \/ Fills(o) \/ FillsOne(o) \/ Kills(o)
    <3>1. /\ UNCHANGED row
          /\ broker[o].state \in {"SENT", "LIVE"}
          /\ \A p \in Oids : p # o => broker'[p] = broker[p]
      BY <1>0, <2>3 DEF Accepts, Fills, FillsOne, Kills, TypeOK, BrokerOrder
    <3> QED BY <3>1 DEF DeadInv, DeadRowsAreDead, Dies
  <2>4. ~PollGivesUp(o)
    BY DEF Guessless, PollGivesUp
  <2> QED BY <2>1, <2>2, <2>3, <2>4 DEF PollerStep, BrokerStep
<1> QED BY <1>1, <1>2 DEF DeadNext, DeadInv, NobodyCancels

LEMMA DeadInit == Init => DeadInv
BY CancelInit DEF Init, DeadInv, DeadRowsAreDead, NobodyCancels, NoRow, IdleLane

LEMMA DeadStep ==
  ASSUME Guessless, DeadInv, [Next]_vars
  PROVE  DeadInv'
<1>1. CancelInv'
  BY CancelStep DEF DeadInv
<1>2. CASE \E e \in Exits : LaneStep(e)
  <2>1. DeadNext
    BY <1>2, LaneStepDead
  <2> QED BY <1>1, <2>1 DEF DeadNext, Dies, DeadInv, DeadRowsAreDead
<1>3. CASE \E o \in Oids : PollerStep(o) \/ BrokerStep(o)
  <2>1. DeadNext
    BY <1>3, OrderStepDead
  <2> QED BY <1>1, <2>1 DEF DeadNext, Dies, DeadInv, DeadRowsAreDead
<1>4. CASE Quiet \/ UNCHANGED vars
  BY <1>1, <1>4 DEF Quiet, vars, DeadInv, DeadRowsAreDead, NobodyCancels
<1> QED BY <1>2, <1>3, <1>4 DEF Next

(* A row the code takes for dead has no live order behind it: with every    *)
(* lane and interleaving, partial fills and jobs that time out, as long as  *)
(* cancels answer, POSTs fail cleanly, pollers stay and nobody strikes an   *)
(* order by hand.                                                           *)
THEOREM DeadStayDead ==
  ASSUME Guessless
  PROVE  Spec => []DeadRowsAreDead
<1>1. Init => DeadInv
  BY DeadInit
<1>2. DeadInv /\ [Next]_vars => DeadInv'
  BY DeadStep
<1>3. DeadInv => DeadRowsAreDead
  BY DEF DeadInv
<1> QED BY <1>1, <1>2, <1>3, PTL DEF Spec

-----------------------------------------------------------------------------
(* No double-sell *)

(* What a step does to the rows, the broker and the books. *)
BooksNext == RowsFollowBroker' /\ (~raced' => OnePending' /\ Accounts')

CleanInv == DeadInv /\ ExitInv

LEMMA GoesWanting ==
  ASSUME CleanInv, NEW e \in Exits, NEW l, Goes(e, l),
         l.pc \notin {"idle", "done"} => l.want > 0
  PROVE  Wanting'
BY DEF CleanInv, ExitInv, TypeOK, Wanting, Goes

LEMMA EndsWanting ==
  ASSUME CleanInv, NEW e \in Exits, Ends(e)
  PROVE  Wanting'
BY GoesWanting DEF Ends, DoneLane, IdleLane

LEMMA ResumesWanting ==
  ASSUME CleanInv, NEW e \in Exits, NEW l \in Lane, l.want > 0, Goes(e, Resumed(l))
  PROVE  Wanting'
<1>1. Resumed(l).pc \notin {"idle", "done"} => Resumed(l).want > 0
  BY DEF Resumed, DoneLane, IdleLane, Lane
<1> QED BY <1>1, GoesWanting

LEMMA SameBooks ==
  ASSUME CleanInv, UNCHANGED <<row, remaining, broker, held, raced>>
  PROVE  BooksNext
BY DEF CleanInv, ExitInv, BooksNext, OnePending, Pending, RowsFollowBroker, Accounts

(* An exit inserted while none is pending accounts for what it will sell. *)
LEMMA InsertKeeps ==
  ASSUME CleanInv, NEW e \in Exits, NEW l \in Lane, l.want > 0, remaining > 0,
         Insert(e, l), UNCHANGED <<remaining, held>>
  PROVE  BooksNext /\ Wanting'
<1> DEFINE q == MinOf(l.want, remaining)
<1>1. PICK o \in Oids :
        /\ row[o].status = "NONE"
        /\ row' = [row EXCEPT ![o] = [status |-> "PENDING", trigger |-> TriggerOf[e],
                                      qty |-> q, filled |-> 0]]
        /\ broker' = [broker EXCEPT ![o].state = "SENT"]
        /\ raced' = (raced \/ Pending # {})
        /\ Goes(e, [l EXCEPT !.pc = "post", !.cur = o, !.old = NoOid])
  BY DEF Insert
<1>2. q \in 1..remaining /\ remaining \in Nat
  BY LotAssumption DEF CleanInv, ExitInv, TypeOK, Lane, MinOf
<1>3. /\ row'[o].status = "PENDING" /\ row'[o].qty = q /\ row'[o].filled = 0
      /\ broker'[o].state = "SENT" /\ broker'[o].filled = 0
      /\ \A p \in Oids : p # o => row'[p] = row[p] /\ broker'[p] = broker[p]
  BY <1>1 DEF CleanInv, ExitInv, TypeOK, RowsFollowBroker, BrokerOrder, Row
<1>4. RowsFollowBroker'
  BY <1>2, <1>3 DEF RowsFollowBroker, CleanInv, ExitInv
<1>5. ASSUME ~raced' PROVE OnePending' /\ Accounts'
  <2>1. ~raced /\ Pending = {}
    BY <1>1, <1>5
  <2>2. Pending' = {o}
    BY <1>3, <2>1 DEF Pending
  <2>3. remaining = held /\ held >= 0
    BY <2>1 DEF CleanInv, ExitInv, Accounts
  <2>4. OnePending'
    BY <2>2 DEF OnePending
  <2>5. Accounts'
    BY <1>2, <1>3, <2>2, <2>3 DEF Accounts
  <2> QED BY <2>4, <2>5
<1>6. Wanting'
  <2>1. [l EXCEPT !.pc = "post", !.cur = o, !.old = NoOid].want > 0
    BY DEF Lane
  <2> QED BY <1>1, <2>1, GoesWanting
<1> QED BY <1>4, <1>5, <1>6 DEF BooksNext

LEMMA BeginCancelKeeps ==
  ASSUME CleanInv, NEW e \in Exits, NEW l \in Lane, l.want > 0, NEW o \in Oids, NEW by,
         BeginCancel(e, l, o, by), UNCHANGED <<remaining, held>>
  PROVE  BooksNext /\ Wanting'
<1>1. [l EXCEPT !.pc = "call", !.old = o, !.by = by].want > 0
  BY DEF Lane
<1> QED BY <1>1, GoesWanting, SameBooks DEF BeginCancel

LEMMA PlaceSellKeeps ==
  ASSUME CleanInv, NEW e \in Exits, NEW l \in Lane, l.want > 0, PlaceSell(e, l),
         UNCHANGED <<remaining, held>>
  PROVE  BooksNext /\ Wanting'
<1>1. CASE Ends(e) /\ UNCHANGED <<row, broker, raced>>
  BY <1>1, EndsWanting, SameBooks
<1>2. CASE remaining > 0 /\ Insert(e, l)
  BY <1>2, InsertKeeps
<1>3. CASE \E o \in Pending : BeginCancel(e, l, o, "place")
  BY <1>3, BeginCancelKeeps DEF Pending
<1> QED BY <1>1, <1>2, <1>3 DEF PlaceSell

(* Closing a row whose order is over changes no book. *)
LEMMA CloseRow ==
  ASSUME CleanInv, NEW o \in Oids, row[o].status \in {"PENDING", "DEAD"},
         broker[o] = OverUnsold, row' = [row EXCEPT ![o].status = "DEAD"],
         UNCHANGED <<remaining, broker, held, raced>>
  PROVE  BooksNext
<1>1. /\ row'[o].status = "DEAD" /\ row'[o].qty = row[o].qty /\ row'[o].filled = row[o].filled
      /\ \A p \in Oids : p # o => row'[p] = row[p]
  BY DEF CleanInv, ExitInv, TypeOK, Row
<1>2. Pending' = Pending \ {o}
  BY <1>1 DEF Pending
<1>3. RowsFollowBroker'
  BY <1>1 DEF CleanInv, ExitInv, RowsFollowBroker, OverUnsold
<1>4. ASSUME ~raced PROVE OnePending' /\ Accounts'
  <2>0. OnePending /\ Accounts
    BY <1>4 DEF CleanInv, ExitInv
  <2>1. OnePending'
    BY <1>2, <2>0 DEF OnePending
  <2>2. CASE Pending' = {}
    <3>1. remaining = held
      BY <1>2, <2>0, <2>2 DEF Accounts, OverUnsold, Pending
    <3> QED BY <2>0, <2>1, <2>2, <3>1 DEF Accounts
  <2>3. CASE Pending' # {}
    <3>1. Pending' = Pending
      BY <1>2, <2>0, <2>3 DEF OnePending
    <3>2. \A p \in Pending : p # o /\ row'[p] = row[p]
      BY <1>1, <1>2, <3>1
    <3> QED BY <2>0, <2>1, <2>3, <3>1, <3>2 DEF Accounts
  <2> QED BY <2>2, <2>3
<1> QED BY <1>3, <1>4 DEF BooksNext

LEMMA StampKeeps ==
  ASSUME CleanInv, NEW e \in Exits, lane[e].pc = "call",
         broker[lane[e].old] = OverUnsold, Stamp(e)
  PROVE  BooksNext /\ Wanting'
<1> DEFINE o == lane[e].old
<1>0. /\ o \in Oids /\ lane[e] \in Lane /\ lane[e].by # "user" /\ lane[e].want > 0
      /\ row[o].status # "NONE"
  BY DEF CleanInv, DeadInv, CancelInv, NobodyCancels, ExitInv, TypeOK, LaneShape, LaneFits, Wanting
<1>1. row[o].status \in {"PENDING", "DEAD"}
  BY <1>0 DEF CleanInv, ExitInv, TypeOK, Row, RowStatus, RowsFollowBroker, OverUnsold
<1>2. /\ row' = [row EXCEPT ![o].status = "DEAD"] /\ UNCHANGED <<remaining, broker, held, raced>>
      /\ Goes(e, [lane[e] EXCEPT !.pc = "ready"])
  BY <1>0, <1>1 DEF Stamp
<1>3. BooksNext
  BY <1>0, <1>1, <1>2, CloseRow
<1>4. [lane[e] EXCEPT !.pc = "ready"].want > 0
  BY <1>0 DEF Lane
<1> QED BY <1>2, <1>3, <1>4, GoesWanting

LEMMA PostFailsKeeps ==
  ASSUME Clean, CleanInv, NEW e \in Exits, PostFails(e)
  PROVE  BooksNext /\ Wanting'
<1> DEFINE o == lane[e].cur
<1>0. o \in Oids /\ Ends(e) /\ UNCHANGED <<remaining, held, raced>>
  BY DEF PostFails, CleanInv, ExitInv, TypeOK, LaneShape
<1>1. /\ broker[o].state = "SENT" /\ broker' = [broker EXCEPT ![o].state = "DEAD"]
      /\ row' = [row EXCEPT ![o].status = "DEAD"]
  BY DEF PostFails, Clean
<1>2. row[o].status = "PENDING" /\ row[o].filled = 0 /\ broker[o].filled = 0
  BY <1>0, <1>1 DEF CleanInv, ExitInv, RowsFollowBroker, TypeOK, Row, RowStatus
<1>3. /\ row'[o].status = "DEAD" /\ row'[o].qty = row[o].qty /\ row'[o].filled = 0
      /\ broker'[o].state = "DEAD" /\ broker'[o].filled = 0
      /\ \A p \in Oids : p # o => row'[p] = row[p] /\ broker'[p] = broker[p]
  BY <1>0, <1>1, <1>2 DEF CleanInv, ExitInv, TypeOK, Row, BrokerOrder
<1>4. RowsFollowBroker'
  BY <1>2, <1>3 DEF RowsFollowBroker, CleanInv, ExitInv
<1>5. ASSUME ~raced PROVE OnePending' /\ Accounts'
  <2>0. OnePending /\ Accounts
    BY <1>5 DEF CleanInv, ExitInv
  <2>1. o \in Pending /\ Pending' = Pending \ {o}
    BY <1>0, <1>2, <1>3 DEF Pending
  <2>2. Pending' = {}
    BY <2>0, <2>1 DEF OnePending
  <2>3. remaining = held /\ held >= 0
    BY <1>1, <2>0, <2>1 DEF Accounts
  <2> QED BY <1>0, <2>2, <2>3 DEF OnePending, Accounts
<1> QED BY <1>0, <1>4, <1>5, EndsWanting DEF BooksNext

LEMMA LaneStepKeeps ==
  ASSUME Clean, CleanInv, NEW e \in Exits, LaneStep(e)
  PROVE  BooksNext /\ Wanting'
<1>0. lane[e] \in Lane /\ Shaped(lane[e]) /\ TypeOK /\ lane[e].by # "user"
  BY ShapedLanes DEF CleanInv, DeadInv, NobodyCancels, ExitInv, TypeOK
<1>a. lane[e].pc \notin {"idle", "done"} => lane[e].want > 0
  BY DEF CleanInv, ExitInv, Wanting
<1>1. ASSUME NEW q \in 1..Lot, Request(e, q) PROVE BooksNext /\ Wanting'
  <2>1. [lane[e] EXCEPT !.want = q] \in Lane /\ [lane[e] EXCEPT !.want = q].want > 0
    BY <1>0, LotAssumption DEF Lane
  <2> QED BY <1>1, <2>1, PlaceSellKeeps DEF Request
<1>2. ASSUME NEW o \in Oids, UserCancels(e, o) PROVE FALSE
  BY <1>2 DEF UserCancels, Clean
<1>3. CASE Replace(e)
  <2>1. lane[e].want > 0 /\ UNCHANGED <<remaining, held>>
    BY <1>3, <1>a DEF Replace
  <2>2. CASE PlaceSell(e, lane[e])
    BY <1>0, <2>1, <2>2, PlaceSellKeeps
  <2>3. CASE Ends(e) /\ UNCHANGED <<row, broker, raced>>
    BY <2>1, <2>3, EndsWanting, SameBooks
  <2>4. CASE remaining > 0 /\ Insert(e, lane[e])
    BY <1>0, <2>1, <2>4, InsertKeeps
  <2> QED BY <1>3, <2>2, <2>3, <2>4 DEF Replace
<1>4. CASE PostReturns(e)
  <2>1. lane[e].want > 0 /\ UNCHANGED <<row, remaining, broker, held, raced>>
    BY <1>4, <1>a DEF PostReturns
  <2>2. PICK w \in BOOLEAN : Ends(e) \/ Goes(e, Resumed([lane[e] EXCEPT !.all = w]))
    <3> DEFINE w == IF lane[e].tries > 0 THEN lane[e].all
                    ELSE TriggerOf[e] = "STOP" \/ lane[e].want >= remaining
    <3>1. w \in BOOLEAN
      BY <1>0, Zenon DEF Lane
    <3>2. Ends(e) \/ Goes(e, Resumed([lane[e] EXCEPT !.all = w]))
      BY <1>4 DEF PostReturns
    <3> QED BY <3>1, <3>2
  <2>3. [lane[e] EXCEPT !.all = w] \in Lane /\ [lane[e] EXCEPT !.all = w].want > 0
    BY <1>0, <2>1 DEF Lane
  <2> QED BY <2>1, <2>2, <2>3, EndsWanting, ResumesWanting, SameBooks
<1>5. CASE PostFails(e)
  BY <1>5, PostFailsKeeps
<1>6. CASE JobTimesOut(e) \/ CancelSeesFill(e)
  BY <1>6, EndsWanting, SameBooks DEF JobTimesOut, CancelSeesFill
<1>7. CASE CancelConfirmed(e)
  BY <1>7, StampKeeps DEF CancelConfirmed, OverUnsold
<1>8. CASE CancelUnconfirmed(e)
  <2>1. lane[e].want > 0 /\ UNCHANGED <<row, remaining, broker, held, raced>>
    BY <1>0, <1>8, <1>a DEF CancelUnconfirmed
  <2>2. Ends(e) \/ Goes(e, Resumed(lane[e]))
    BY <1>0, <1>8 DEF CancelUnconfirmed
  <2> QED BY <1>0, <2>1, <2>2, EndsWanting, ResumesWanting, SameBooks
<1>9. ~CancelRaises(e)
  BY DEF CancelRaises, Clean
<1>10. CASE Wakes(e)
  <2>1. /\ lane[e].want > 0
        /\ UNCHANGED <<row, remaining, broker, held, raced>>
    BY <1>10, <1>a DEF Wakes
  <2>2. [lane[e] EXCEPT !.pc = "quote", !.tries = @ + 1, !.seen = row[lane[e].cur].status].want > 0
    BY <1>0, <2>1 DEF Lane
  <2> QED BY <1>10, <2>1, <2>2, EndsWanting, GoesWanting, SameBooks DEF Wakes
<1>11. CASE Quoted(e)
  <2>1. lane[e].cur \in Oids /\ lane[e].want > 0 /\ UNCHANGED <<remaining, held>>
    BY <1>0, <1>11, <1>a DEF Quoted, Shaped
  <2>2. CASE BeginCancel(e, lane[e], lane[e].cur, "watch")
    BY <1>0, <2>1, <2>2, BeginCancelKeeps
  <2>3. CASE Goes(e, Resumed(lane[e])) /\ UNCHANGED <<row, broker, raced>>
    BY <1>0, <2>1, <2>3, ResumesWanting, SameBooks
  <2>4. CASE PlaceSell(e, lane[e])
    BY <1>0, <2>1, <2>4, PlaceSellKeeps
  <2> QED BY <1>11, <2>2, <2>3, <2>4 DEF Quoted
<1>12. CASE QuoteFails(e)
  <2>1. /\ lane[e].want > 0 /\ Goes(e, Resumed(lane[e]))
        /\ UNCHANGED <<row, remaining, broker, held, raced>>
    BY <1>12, <1>a DEF QuoteFails
  <2> QED BY <1>0, <2>1, ResumesWanting, SameBooks
<1> QED BY <1>1, <1>2, <1>3, <1>4, <1>5, <1>6, <1>7, <1>8, <1>9, <1>10, <1>11, <1>12
    DEF LaneStep

LEMMA PollFilledKeeps ==
  ASSUME CleanInv, NEW o \in Oids, PollFilled(o)
  PROVE  BooksNext
<1>0. TypeOK /\ row[o] \in Row /\ broker[o] \in BrokerOrder
  BY DEF CleanInv, ExitInv, TypeOK
<1> DEFINE newly == IF broker[o].filled >= row[o].filled
                      THEN broker[o].filled - row[o].filled ELSE 0
<1>1. /\ broker[o].state = "FILLED" /\ UNCHANGED <<broker, held, raced>>
      /\ row' = [row EXCEPT ![o].status = "FILLED", ![o].filled = broker[o].filled]
      /\ remaining' = IF newly <= remaining THEN remaining - newly ELSE 0
  BY DEF PollFilled
<1>2. /\ broker[o].filled = row[o].qty /\ row[o].qty > 0
      /\ row[o].status \in {"PENDING", "FILLED"}
      /\ row[o].filled = IF row[o].status = "FILLED" THEN row[o].qty ELSE 0
  BY <1>0, <1>1 DEF CleanInv, ExitInv, RowsFollowBroker, Row, RowStatus
<1>3. /\ row'[o].status = "FILLED" /\ row'[o].filled = row[o].qty /\ row'[o].qty = row[o].qty
      /\ \A p \in Oids : p # o => row'[p] = row[p]
  BY <1>0, <1>1, <1>2 DEF TypeOK, Row
<1>4. RowsFollowBroker'
  <2> DEFINE Fits(r, b) ==
               /\ r.status = "NONE" <=> b.state = "NONE"
               /\ r.status = "FILLED" => b.state = "FILLED"
               /\ r.status = "DEAD" => b.state = "DEAD"
               /\ r.status # "NONE" => r.qty > 0
               /\ r.filled = IF r.status = "FILLED" THEN r.qty ELSE 0
               /\ b.filled = IF b.state = "FILLED" THEN r.qty ELSE 0
  <2>1. \A p \in Oids : Fits(row[p], broker[p])
    BY DEF CleanInv, ExitInv, RowsFollowBroker
  <2>2. Fits(row'[o], broker[o])
    BY <1>1, <1>2, <1>3
  <2>3. broker' = broker /\ \A p \in Oids : p # o => row'[p] = row[p]
    BY <1>1, <1>3
  <2> HIDE DEF Fits
  <2>4. \A p \in Oids : Fits(row'[p], broker'[p])
    BY <2>1, <2>2, <2>3
  <2> QED BY <2>4 DEF RowsFollowBroker, Fits
<1>5. Pending' = Pending \ {o}
  BY <1>3 DEF Pending
<1>6. remaining \in Nat /\ held \in Int /\ row[o].qty \in 0..Lot
  BY <1>0, LotAssumption DEF TypeOK, Row
<1>7. ASSUME ~raced PROVE OnePending' /\ Accounts'
  <2>0. OnePending /\ Accounts
    BY <1>7 DEF CleanInv, ExitInv
  <2>1. CASE row[o].status = "FILLED"
    <3>1. newly = 0 /\ Pending' = Pending
      BY <1>2, <1>5, <1>6, <2>1 DEF Pending
    <3>2. remaining' = remaining
      BY <1>1, <1>6, <3>1
    <3>3. \A p \in Pending : p # o /\ row'[p] = row[p]
      BY <1>3, <2>1 DEF Pending
    <3> QED BY <1>1, <2>0, <3>1, <3>2, <3>3 DEF OnePending, Accounts
  <2>2. CASE row[o].status = "PENDING"
    <3>1. remaining = held + row[o].qty /\ held >= 0 /\ Pending' = {}
      BY <1>1, <1>5, <2>0, <2>2 DEF Accounts, OnePending, Pending
    <3>2. newly = row[o].qty
      BY <1>2, <1>6, <2>2
    <3>3. remaining' = held
      BY <1>1, <1>6, <3>1, <3>2
    <3> QED BY <1>1, <3>1, <3>3 DEF OnePending, Accounts
  <2> QED BY <1>2, <2>1, <2>2
<1> QED BY <1>1, <1>4, <1>7 DEF BooksNext

LEMMA FillsKeeps ==
  ASSUME CleanInv, NEW o \in Oids, Fills(o)
  PROVE  /\ BooksNext /\ UNCHANGED <<remaining, raced>>
         /\ row[o].qty \in 1..Lot /\ held' = held - row[o].qty
         /\ raced \/ row[o].qty <= held
<1>0. TypeOK /\ row[o] \in Row /\ broker[o] \in BrokerOrder /\ remaining \in Nat /\ held \in Int
  BY LotAssumption DEF CleanInv, ExitInv, TypeOK
<1>1. /\ UNCHANGED <<row, remaining, raced>> /\ broker[o].state = "LIVE"
      /\ broker'[o].state = "FILLED" /\ broker'[o].filled = row[o].qty
      /\ \A p \in Oids : p # o => broker'[p] = broker[p]
      /\ held' = held - (row[o].qty - broker[o].filled)
  BY <1>0 DEF Fills, TypeOK
<1>2. row[o].status = "PENDING" /\ broker[o].filled = 0 /\ row[o].qty > 0
  BY <1>0, <1>1 DEF CleanInv, ExitInv, RowsFollowBroker, Row, RowStatus
<1>3. row[o].qty \in 1..Lot /\ held' = held - row[o].qty
  BY <1>0, <1>1, <1>2, LotAssumption DEF Row
<1>4. RowsFollowBroker'
  BY <1>1, <1>2 DEF CleanInv, ExitInv, RowsFollowBroker
<1>5. ASSUME ~raced PROVE OnePending' /\ Accounts' /\ row[o].qty <= held
  <2>0. OnePending /\ Accounts /\ Pending = {o}
    BY <1>2, <1>5 DEF CleanInv, ExitInv, OnePending, Pending
  <2>1. remaining = held /\ row[o].qty <= held
    BY <1>1, <2>0 DEF Accounts
  <2>2. Pending' = {o} /\ held' >= 0 /\ remaining' = held' + row'[o].qty
    BY <1>0, <1>1, <1>3, <2>0, <2>1 DEF Pending
  <2> QED BY <1>1, <2>1, <2>2 DEF OnePending, Accounts
<1> QED BY <1>1, <1>3, <1>4, <1>5 DEF BooksNext

LEMMA OrderStepKeeps ==
  ASSUME Clean, CleanInv, NEW o \in Oids, PollerStep(o) \/ BrokerStep(o)
  PROVE  BooksNext /\ Wanting'
<1>0. TypeOK /\ row[o] \in Row /\ broker[o] \in BrokerOrder
  BY DEF CleanInv, ExitInv, TypeOK
<1>1. Wanting'
  BY DEF PollerStep, BrokerStep, PollFilled, PollDead, PollGivesUp, Accepts, Fills, FillsOne, Kills,
     CleanInv, ExitInv, Wanting
<1>2. CASE PollDead(o)
  <2>1. /\ broker[o].state = "DEAD" /\ UNCHANGED <<remaining, broker, held, raced>>
        /\ row' = [row EXCEPT ![o].status = "DEAD"]
    BY <1>2 DEF PollDead
  <2>2. row[o].status \in {"PENDING", "DEAD"} /\ broker[o] = OverUnsold
    BY <1>0, <2>1 DEF CleanInv, ExitInv, RowsFollowBroker, Row, RowStatus, BrokerOrder, OverUnsold
  <2> QED BY <1>1, <2>1, <2>2, CloseRow
<1>3. CASE Accepts(o) \/ Kills(o)
  <2>1. /\ UNCHANGED <<row, remaining, held, raced>>
        /\ broker[o].state \in {"SENT", "LIVE"} /\ broker'[o].filled = broker[o].filled
        /\ \/ broker[o].state = "SENT" /\ broker'[o].state = "LIVE"
           \/ broker'[o].state = "DEAD"
        /\ \A p \in Oids : p # o => broker'[p] = broker[p]
    BY <1>0, <1>3 DEF Accepts, Kills, TypeOK, BrokerOrder
  <2>2. RowsFollowBroker'
    BY <2>1 DEF CleanInv, ExitInv, RowsFollowBroker
  <2>3. ~raced => OnePending' /\ Accounts'
    BY <2>1 DEF CleanInv, ExitInv, OnePending, Pending, Accounts
  <2> QED BY <1>1, <2>1, <2>2, <2>3 DEF BooksNext
<1>4. ~PollGivesUp(o) /\ ~FillsOne(o)
  BY DEF PollGivesUp, FillsOne, Clean
<1>5. CASE PollFilled(o)
  BY <1>1, <1>5, PollFilledKeeps
<1>6. CASE Fills(o)
  BY <1>1, <1>6, FillsKeeps
<1> QED BY <1>2, <1>3, <1>4, <1>5, <1>6 DEF PollerStep, BrokerStep

LEMMA CleanInit == Init => CleanInv
<1> SUFFICES ASSUME Init PROVE CleanInv
  OBVIOUS
<1>1. DeadInv /\ TypeOK
  BY DeadInit, TypeInit
<1>2. \A o \in Oids : row[o] = NoRow /\ broker[o] = NoBrokerOrder
  BY DEF Init
<1>3. Wanting
  BY DEF Init, Wanting, IdleLane
<1>4. Pending = {} /\ OnePending
  BY <1>2 DEF Pending, OnePending, NoRow
<1>5. RowsFollowBroker
  BY <1>2 DEF RowsFollowBroker, NoRow, NoBrokerOrder
<1>6. Accounts
  BY <1>4, LotAssumption DEF Init, Accounts
<1> QED BY <1>1, <1>3, <1>4, <1>5, <1>6 DEF CleanInv, ExitInv

LEMMA CleanStep ==
  ASSUME Clean, CleanInv, [Next]_vars
  PROVE  CleanInv'
<1>1. TypeOK' /\ DeadInv'
  <2>1. Guessless
    BY DEF Clean, Guessless
  <2> QED BY <2>1, TypeStep, DeadStep DEF CleanInv, ExitInv
<1>2. CASE \E e \in Exits : LaneStep(e)
  BY <1>1, <1>2, LaneStepKeeps DEF CleanInv, ExitInv, BooksNext
<1>3. CASE \E o \in Oids : PollerStep(o) \/ BrokerStep(o)
  BY <1>1, <1>3, OrderStepKeeps DEF CleanInv, ExitInv, BooksNext
<1>4. CASE Quiet \/ UNCHANGED vars
  BY <1>1, <1>4, SameBooks DEF Quiet, vars, CleanInv, ExitInv, BooksNext, Wanting
<1> QED BY <1>2, <1>3, <1>4 DEF Next

(* Until an exit is inserted while another is pending, the account is never *)
(* sold past what it holds: with any lanes, watchers and displacements, as  *)
(* long as no order outlives its row.                                       *)
THEOREM NoDoubleSell ==
  ASSUME Clean
  PROVE  Spec => []NoOversell
<1>1. Init => CleanInv
  BY CleanInit
<1>2. CleanInv /\ [Next]_vars => CleanInv'
  BY CleanStep
<1>3. CleanInv => NoOversell
  BY DEF CleanInv, ExitInv, Accounts, NoOversell
<1> QED BY <1>1, <1>2, <1>3, PTL DEF Spec

-----------------------------------------------------------------------------
(* A watcher replaces what is over *)

(* Without partial fills an order has sold nothing or all of its row.       *)
AllOrNothing ==
  \A o \in Oids :
    /\ broker[o].filled = IF broker[o].state = "FILLED" THEN row[o].qty ELSE 0
    /\ IF row[o].status = "FILLED" THEN broker[o].state = "FILLED" ELSE row[o].filled = 0

(* No two lanes have the same order.                                        *)
OwnOrders ==
  \A e, f \in Exits : e # f => lane[e].cur = NoOid \/ lane[e].cur # lane[f].cur

PolledHanded == \A o \in polling : row[o].status # "NONE"

(* What a lane l knows of its own order, with the rows r, the broker's      *)
(* orders b, m contracts left and the orders p polled.  The last two say    *)
(* why _repeg_close_all_sell, which looks for FILLED only on waking, sends  *)
(* nothing after a fill: the order was for all that was left.               *)
Chases(l, r, b, m, p) ==
  /\ l.pc = "idle" => l.cur = NoOid /\ ~l.all
  /\ l.pc = "post" => l.cur \notin p /\ r[l.cur].status # "FILLED"
  /\ l.pc = "quote" => \/ l.seen = "PENDING"
                       \/ l.seen = "DEAD" /\ b[l.cur] = OverUnsold
  /\ l.pc \in {"call", "ready"} =>
       \/ l.by = "watch" /\ l.old = l.cur
       \/ l.by = "place" /\ (l.cur # NoOid => b[l.cur] = OverUnsold)
  /\ l.all => l.want >= m
  /\ l.cur # NoOid => /\ r[l.cur].status # "NONE"
                      /\ r[l.cur].status = "DEAD" => b[l.cur] = OverUnsold
                      /\ r[l.cur].qty >= l.want \/ r[l.cur].qty >= m
                      /\ l.all => (r[l.cur].status = "FILLED" => m = 0)

ChaseInv ==
  /\ CancelInv
  /\ AllOrNothing
  /\ OwnOrders
  /\ PolledHanded
  /\ \A e \in Exits : Chases(lane[e], row, broker, remaining, polling)

(* What a step may do to an order that is not the moving lane's.            *)
FairChange(o) ==
  row[o].status # "NONE" =>
    /\ row'[o].status # "NONE"
    /\ row'[o].qty = row[o].qty
    /\ broker[o] = OverUnsold => broker'[o] = OverUnsold
    /\ row'[o].status = "DEAD" => row[o].status = "DEAD" \/ broker'[o] = OverUnsold
    /\ row'[o].status = "FILLED" =>
         \/ row[o].status = "FILLED"
         \/ o \in polling /\ (row[o].qty >= remaining => remaining' = 0)
    /\ o \in polling' => o \in polling

(* What a lane that moves on to another order leaves behind.                *)
LeavesDead(e) ==
  lane[e].cur # NoOid /\ lane'[e].cur \notin {NoOid, lane[e].cur}
    => broker[lane[e].cur] = OverUnsold

ChaseNext ==
  /\ AllOrNothing'
  /\ OwnOrders'
  /\ PolledHanded'
  /\ \A e \in Exits : Chases(lane'[e], row', broker', remaining', polling')
  /\ \A e \in Exits : LeavesDead(e)

(* The faults and callers under which a watcher knows what it replaces: the *)
(* ones left out leave a row dead whose order may have sold, and a STOP of  *)
(* a part is chased by the watcher made for the whole.                      *)
Certain ==
  /\ Faults \subseteq {"postAmbiguous", "jobTimeout"}
  /\ \A e \in Exits : TriggerOf[e] # "CANCEL"
  /\ AutoRepeg => \A e \in Exits : TriggerOf[e] # "STOP"

LEMMA StillChases ==
  ASSUME ChaseInv, NEW e \in Exits, remaining' \in 0..remaining,
         lane[e].cur # NoOid => FairChange(lane[e].cur)
  PROVE  Chases(lane[e], row', broker', remaining', polling')
<1> DEFINE l == lane[e]
<1>0. /\ l \in Lane /\ Shaped(l) /\ Chases(l, row, broker, remaining, polling)
      /\ remaining \in Nat /\ remaining' \in Nat /\ remaining' <= remaining
  BY ShapedLanes, LotAssumption DEF ChaseInv, CancelInv, TypeOK
<1>1. l.want \in Nat /\ l.cur \in Oids \cup {NoOid}
  BY <1>0, LotAssumption DEF Lane
<1>2. l.all => l.want >= remaining'
  BY <1>0, <1>1 DEF Chases
<1>3. CASE l.cur = NoOid
  BY <1>0, <1>2, <1>3, OidAssumption DEF Chases, Shaped
<1>4. CASE l.cur # NoOid
  <2>1. /\ row[l.cur].qty \in Nat /\ row[l.cur].status # "NONE"
        /\ FairChange(l.cur)
    BY <1>0, <1>1, <1>4, LotAssumption DEF Chases, ChaseInv, CancelInv, TypeOK, Row
  <2>2. row'[l.cur].qty >= l.want \/ row'[l.cur].qty >= remaining'
    BY <1>0, <1>1, <1>4, <2>1 DEF Chases, FairChange
  <2>3. l.all => (row'[l.cur].status = "FILLED" => remaining' = 0)
    <3> SUFFICES ASSUME l.all, row'[l.cur].status = "FILLED" PROVE remaining' = 0
      OBVIOUS
    <3>1. row[l.cur].qty >= remaining
      BY <1>0, <1>1, <1>4, <2>1 DEF Chases
    <3>2. CASE row[l.cur].status = "FILLED"
      BY <1>0, <1>4, <3>2 DEF Chases
    <3> QED BY <2>1, <3>1, <3>2 DEF FairChange
  <2> QED BY <1>0, <1>2, <1>4, <2>1, <2>2, <2>3 DEF Chases, FairChange
<1> QED BY <1>3, <1>4

(* The lane that moves, with its own order or a new one.                    *)
LEMMA LaneChases ==
  ASSUME ChaseInv, NEW e \in Exits, NEW l, Goes(e, l), l.cur \in Oids \cup {NoOid},
         \/ l.cur \in {NoOid, lane[e].cur}
         \/ row[l.cur].status = "NONE" /\ (lane[e].cur # NoOid => broker[lane[e].cur] = OverUnsold),
         AllOrNothing', PolledHanded', remaining' \in 0..remaining,
         \A o \in Oids : o # lane[e].cur => FairChange(o),
         Chases(l, row', broker', remaining', polling')
  PROVE  ChaseNext
<1>0. lane \in [Exits -> Lane]
  BY DEF ChaseInv, CancelInv, TypeOK
<1>1. /\ lane'[e] = l
      /\ \A f \in Exits : f # e => lane'[f] = lane[f]
  BY <1>0 DEF Goes
<1>2. \A f \in Exits : /\ lane[f].cur \in Oids \cup {NoOid}
                       /\ lane[f].cur # NoOid => row[lane[f].cur].status # "NONE"
  BY <1>0 DEF Lane, ChaseInv, Chases
<1>3. OwnOrders'
  <2> SUFFICES ASSUME NEW f \in Exits, NEW g \in Exits, f # g
               PROVE  lane'[f].cur = NoOid \/ lane'[f].cur # lane'[g].cur
    BY DEF OwnOrders
  <2>1. CASE f # e /\ g # e
    BY <1>1, <2>1 DEF ChaseInv, OwnOrders
  <2>2. CASE f = e
    BY <1>1, <1>2, <2>2 DEF ChaseInv, OwnOrders
  <2>3. CASE g = e
    BY <1>1, <1>2, <2>3 DEF ChaseInv, OwnOrders
  <2> QED BY <2>1, <2>2, <2>3
<1>4. ASSUME NEW f \in Exits PROVE Chases(lane'[f], row', broker', remaining', polling')
  <2>1. CASE f = e
    BY <1>1, <2>1
  <2>2. CASE f # e
    <3>1. lane[f].cur # NoOid => lane[f].cur # lane[e].cur
      BY <2>2 DEF ChaseInv, OwnOrders
    <3>2. lane[f].cur # NoOid => FairChange(lane[f].cur)
      BY <1>2, <3>1
    <3> QED BY <1>1, <2>2, <3>2, StillChases
  <2> QED BY <2>1, <2>2
<1>5. ASSUME NEW f \in Exits PROVE LeavesDead(f)
  BY <1>1 DEF LeavesDead
<1> QED BY <1>3, <1>4, <1>5 DEF ChaseNext

LEMMA StandsStill ==
  ASSUME ChaseInv, UNCHANGED <<row, broker, remaining>>
  PROVE  /\ AllOrNothing' /\ remaining' \in 0..remaining
         /\ polling' \subseteq polling => PolledHanded' /\ \A o \in Oids : FairChange(o)
BY LotAssumption DEF ChaseInv, CancelInv, TypeOK, AllOrNothing, PolledHanded, FairChange

LEMMA EndsChase ==
  ASSUME ChaseInv, NEW e \in Exits, Ends(e), UNCHANGED <<row, broker, remaining, polling>>
  PROVE  ChaseNext
<1>1. Chases(DoneLane, row', broker', remaining', polling') /\ DoneLane.cur = NoOid
  BY DEF Chases, DoneLane, IdleLane
<1> QED BY <1>1, StandsStill, LaneChases DEF Ends

(* A lane goes on with its own order, about which nothing has changed.      *)
LEMMA GoesOnChasing ==
  ASSUME ChaseInv, NEW e \in Exits, NEW l, Goes(e, l), l.cur = lane[e].cur,
         UNCHANGED <<row, broker, remaining, polling>>,
         Chases(l, row, broker, remaining, polling)
  PROVE  ChaseNext
<1>1. l.cur \in Oids \cup {NoOid}
  BY DEF ChaseInv, CancelInv, TypeOK, Lane
<1>2. Chases(l, row', broker', remaining', polling')
  OBVIOUS
<1> QED BY <1>1, <1>2, StandsStill, LaneChases

LEMMA ResumesChase ==
  ASSUME ChaseInv, NEW e \in Exits, lane[e].cur \in Oids, lane[e].pc # "post",
         Goes(e, Resumed(lane[e])), UNCHANGED <<row, broker, remaining, polling>>
  PROVE  ChaseNext
<1>1. CASE Ends(e)
  BY <1>1, EndsChase
<1>2. CASE Goes(e, [lane[e] EXCEPT !.pc = "watch", !.old = NoOid])
  <2> DEFINE l == [lane[e] EXCEPT !.pc = "watch", !.old = NoOid]
  <2>1. lane[e] \in Lane /\ Chases(lane[e], row, broker, remaining, polling)
    BY DEF ChaseInv, CancelInv, TypeOK
  <2>2. l.cur = lane[e].cur /\ Chases(l, row, broker, remaining, polling)
    BY <2>1 DEF Chases, Lane
  <2> QED BY <1>2, <2>2, GoesOnChasing
<1> QED BY <1>1, <1>2 DEF Resumed, Ends

LEMMA InsertChases ==
  ASSUME ChaseInv, NEW e \in Exits, NEW l \in Lane, Insert(e, l), UNCHANGED <<remaining, polling>>,
         lane[e].cur # NoOid => broker[lane[e].cur] = OverUnsold,
         l.all => l.want >= remaining
  PROVE  ChaseNext
<1>1. PICK o \in Oids :
        /\ row[o].status = "NONE"
        /\ row' = [row EXCEPT ![o] = [status |-> "PENDING", trigger |-> TriggerOf[e],
                                      qty |-> MinOf(l.want, remaining), filled |-> 0]]
        /\ broker' = [broker EXCEPT ![o].state = "SENT"]
        /\ Goes(e, [l EXCEPT !.pc = "post", !.cur = o, !.old = NoOid])
  BY DEF Insert
<1> DEFINE n == [l EXCEPT !.pc = "post", !.cur = o, !.old = NoOid]
<1>2. TypeOK /\ remaining \in Nat /\ l.want \in Nat /\ o # NoOid
  BY LotAssumption, OidAssumption DEF ChaseInv, CancelInv, TypeOK, Lane
<1>3. /\ row'[o] = [status |-> "PENDING", trigger |-> TriggerOf[e],
                    qty |-> MinOf(l.want, remaining), filled |-> 0]
      /\ broker'[o].state = "SENT" /\ broker'[o].filled = broker[o].filled
      /\ \A q \in Oids : q # o => row'[q] = row[q] /\ broker'[q] = broker[q]
  BY <1>1, <1>2 DEF TypeOK, BrokerOrder
<1>4. broker[o].state = "NONE" /\ broker[o].filled = 0
  BY <1>1 DEF ChaseInv, CancelInv, RowsHanded, AllOrNothing
<1>5. AllOrNothing'
  BY <1>3, <1>4 DEF ChaseInv, AllOrNothing
<1>6. PolledHanded' /\ \A q \in Oids : FairChange(q)
  BY <1>1, <1>2, <1>3 DEF ChaseInv, PolledHanded, FairChange, TypeOK
<1>7. /\ n.pc = "post" /\ n.cur = o /\ n.all = l.all /\ n.want = l.want
  BY DEF Lane
<1>8. MinOf(l.want, remaining) >= l.want \/ MinOf(l.want, remaining) >= remaining
  BY <1>2 DEF MinOf
<1>9. o \notin polling'
  BY <1>1 DEF ChaseInv, PolledHanded
<1>10. Chases(n, row', broker', remaining', polling')
  BY <1>3, <1>7, <1>8, <1>9 DEF Chases
<1> HIDE DEF n
<1>11. remaining' \in 0..remaining
  BY <1>2
<1>12. Goes(e, n)
  BY <1>1 DEF n
<1> QED BY <1>1, <1>5, <1>6, <1>7, <1>10, <1>11, <1>12, LaneChases

LEMMA BeginCancelChases ==
  ASSUME ChaseInv, NEW e \in Exits, NEW l \in Lane, NEW o \in Oids, NEW by \in {"place", "watch"},
         BeginCancel(e, l, o, by), UNCHANGED <<remaining, polling>>,
         l.cur = lane[e].cur, l.all => l.want >= remaining,
         l.cur # NoOid => lane[e].all = l.all /\ lane[e].want = l.want,
         by = "watch" => o = l.cur,
         by = "place" => (l.cur # NoOid => broker[l.cur] = OverUnsold)
  PROVE  ChaseNext
<1> DEFINE n == [l EXCEPT !.pc = "call", !.old = o, !.by = by]
<1>1. /\ n.pc = "call" /\ n.cur = l.cur /\ n.old = o /\ n.by = by
      /\ n.all = l.all /\ n.want = l.want
  BY DEF Lane
<1>2. Chases(lane[e], row, broker, remaining, polling)
  BY DEF ChaseInv
<1>3. Chases(n, row, broker, remaining, polling)
  BY <1>1, <1>2 DEF Chases
<1> HIDE DEF n
<1>4. Goes(e, n) /\ UNCHANGED <<row, broker>>
  BY DEF BeginCancel, n
<1> QED BY <1>1, <1>3, <1>4, GoesOnChasing

LEMMA PlaceSellChases ==
  ASSUME ChaseInv, NEW e \in Exits, NEW l \in Lane, PlaceSell(e, l), UNCHANGED <<remaining, polling>>,
         l.cur = lane[e].cur, l.all => l.want >= remaining,
         l.cur # NoOid => lane[e].all = l.all /\ lane[e].want = l.want,
         remaining = 0 \/ (l.cur # NoOid => broker[l.cur] = OverUnsold)
  PROVE  ChaseNext
<1>1. CASE Ends(e) /\ UNCHANGED <<row, broker>>
  BY <1>1, EndsChase
<1>2. CASE remaining # 0 /\ Insert(e, l)
  BY <1>2, InsertChases
<1>3. CASE remaining # 0 /\ \E o \in Pending : BeginCancel(e, l, o, "place")
  BY <1>3, BeginCancelChases DEF Pending
<1>4. remaining \in Nat
  BY LotAssumption DEF ChaseInv, CancelInv, TypeOK
<1> QED BY <1>1, <1>2, <1>3, <1>4 DEF PlaceSell

LEMMA StampChases ==
  ASSUME ChaseInv, NEW e \in Exits, lane[e].pc = "call", Stamp(e), broker[lane[e].old] = OverUnsold
  PROVE  ChaseNext
<1> DEFINE l == lane[e]
           o == lane[e].old
           n == [l EXCEPT !.pc = "ready"]
<1>0. /\ TypeOK /\ o \in Oids /\ l \in Lane /\ row[o].status # "NONE"
      /\ Chases(l, row, broker, remaining, polling)
      /\ UNCHANGED <<remaining, broker, polling>>
  BY DEF ChaseInv, CancelInv, TypeOK, LaneShape, LaneFits, Stamp
<1>1. CASE row[o].status = "FILLED"
  BY <1>0, <1>1, EndsChase DEF Stamp
<1>2. CASE row[o].status # "FILLED"
  <2>1. row' = [row EXCEPT ![o].status = "DEAD"] /\ Goes(e, n)
    BY <1>0, <1>2 DEF Stamp, Chases
  <2>2. /\ row'[o].status = "DEAD" /\ row'[o].qty = row[o].qty /\ row'[o].filled = row[o].filled
        /\ \A q \in Oids : q # o => row'[q] = row[q]
    BY <1>0, <2>1 DEF TypeOK, Row
  <2>3. AllOrNothing'
    BY <1>0, <1>2, <2>2 DEF ChaseInv, AllOrNothing, OverUnsold
  <2>4. PolledHanded' /\ \A q \in Oids : FairChange(q)
    BY <1>0, <2>2 DEF ChaseInv, PolledHanded, FairChange, TypeOK
  <2>5. remaining' \in 0..remaining
    BY <1>0, LotAssumption DEF TypeOK
  <2>6. Chases(l, row', broker', remaining', polling')
    BY <2>4, <2>5, <1>0, StillChases DEF Lane
  <2>7. n.cur = l.cur /\ n.cur \in Oids \cup {NoOid} /\ Chases(n, row', broker', remaining', polling')
    BY <1>0, <2>6 DEF Chases, Lane
  <2> HIDE DEF n
  <2> QED BY <2>1, <2>3, <2>4, <2>5, <2>7, LaneChases
<1> QED BY <1>1, <1>2

LEMMA PostReturnsChases ==
  ASSUME Certain, ChaseInv, NEW e \in Exits, PostReturns(e)
  PROVE  ChaseNext
<1> DEFINE l == lane[e]
           whole == IF l.tries > 0 THEN l.all
                    ELSE TriggerOf[e] = "STOP" \/ l.want >= remaining
           n == [l EXCEPT !.all = whole]
<1>0. /\ TypeOK /\ l \in Lane /\ l.pc = "post" /\ l.cur \in Oids /\ whole \in BOOLEAN
      /\ Chases(l, row, broker, remaining, polling)
      /\ UNCHANGED <<row, remaining, broker>> /\ polling' = polling \cup {l.cur}
      /\ remaining \in Nat /\ l.cur # NoOid
  <2>1. TypeOK /\ l \in Lane /\ l.pc = "post" /\ l.cur \in Oids
    BY DEF ChaseInv, CancelInv, TypeOK, LaneShape, PostReturns
  <2>2. whole \in BOOLEAN
    BY <2>1, Zenon DEF Lane
  <2> QED BY <2>1, <2>2, LotAssumption, OidAssumption DEF ChaseInv, TypeOK, PostReturns
<1>1. AllOrNothing' /\ remaining' \in 0..remaining
  BY <1>0, StandsStill
<1>2. PolledHanded'
  BY <1>0 DEF ChaseInv, PolledHanded, Chases
<1>3. \A o \in Oids : o # l.cur => FairChange(o)
  BY <1>0 DEF FairChange
<1>4. CASE Ends(e)
  <2>1. Chases(DoneLane, row', broker', remaining', polling') /\ DoneLane.cur = NoOid
    BY DEF Chases, DoneLane, IdleLane
  <2> QED BY <1>1, <1>2, <1>3, <1>4, <2>1, LaneChases DEF Ends
<1>5. CASE Chased(e) /\ Goes(e, [n EXCEPT !.pc = "watch", !.old = NoOid])
  <2> DEFINE m == [n EXCEPT !.pc = "watch", !.old = NoOid]
  <2>1. TriggerOf[e] # "STOP"
    BY <1>5 DEF Certain, Chased
  <2>2. whole => l.want >= remaining
    BY <1>0, <2>1 DEF Chases
  <2>3. /\ m.pc = "watch" /\ m.cur = l.cur /\ m.want = l.want /\ m.all = whole
    BY <1>0 DEF Lane
  <2>4. Chases(m, row', broker', remaining', polling')
    BY <1>0, <2>2, <2>3 DEF Chases
  <2>5. m.cur \in Oids \cup {NoOid} /\ m.cur \in {NoOid, lane[e].cur}
    BY <1>0, <2>3
  <2> HIDE DEF m
  <2>6. Goes(e, m)
    BY <1>5 DEF m
  <2> QED BY <1>1, <1>2, <1>3, <2>4, <2>5, <2>6, LaneChases
<1>6. Ends(e) \/ (Chased(e) /\ Goes(e, Resumed(n)))
  BY DEF PostReturns
<1> QED BY <1>4, <1>5, <1>6 DEF Resumed, Ends

LEMMA PostFailsChases ==
  ASSUME ChaseInv, NEW e \in Exits, PostFails(e)
  PROVE  ChaseNext
<1> DEFINE o == lane[e].cur
<1>0. /\ TypeOK /\ o \in Oids /\ row[o].status # "NONE" /\ row[o].status # "FILLED"
      /\ UNCHANGED <<remaining, polling>> /\ Ends(e)
      /\ row' = [row EXCEPT ![o].status = "DEAD"]
      /\ \/ UNCHANGED broker
         \/ broker[o].state = "SENT" /\ broker' = [broker EXCEPT ![o].state = "DEAD"]
  BY OidAssumption DEF ChaseInv, CancelInv, TypeOK, LaneShape, PostFails, Chases
<1>1. /\ row'[o].status = "DEAD" /\ row'[o].qty = row[o].qty /\ row'[o].filled = row[o].filled
      /\ \A q \in Oids : q # o => row'[q] = row[q] /\ broker'[q] = broker[q]
      /\ broker'[o] = broker[o] \/ (/\ broker[o].state = "SENT" /\ broker'[o].state = "DEAD"
                                    /\ broker'[o].filled = broker[o].filled)
  BY <1>0 DEF TypeOK, Row, BrokerOrder
<1>2. AllOrNothing'
  BY <1>0, <1>1 DEF ChaseInv, AllOrNothing
<1>3. PolledHanded' /\ remaining' \in 0..remaining
  BY <1>0, <1>1, LotAssumption DEF ChaseInv, PolledHanded, TypeOK
<1>4. \A q \in Oids : q # o => FairChange(q)
  BY <1>0, <1>1 DEF FairChange
<1>5. Chases(DoneLane, row', broker', remaining', polling') /\ DoneLane.cur = NoOid
  BY DEF Chases, DoneLane, IdleLane
<1> QED BY <1>0, <1>2, <1>3, <1>4, <1>5, LaneChases DEF Ends

LEMMA QuotedChases ==
  ASSUME ChaseInv, NEW e \in Exits, Quoted(e)
  PROVE  ChaseNext
<1> DEFINE l == lane[e]
           status == IF l.all THEN row[l.cur].status ELSE l.seen
<1>0. /\ l \in Lane /\ l.pc = "quote" /\ l.cur \in Oids /\ l.cur # NoOid
      /\ Chases(l, row, broker, remaining, polling) /\ UNCHANGED <<remaining, polling>>
      /\ row[l.cur].status \in RowStatus
  BY OidAssumption DEF ChaseInv, CancelInv, TypeOK, LaneShape, Quoted, Row
<1>1. CASE BeginCancel(e, l, l.cur, "watch")
  BY <1>0, <1>1, BeginCancelChases DEF Chases
<1>2. CASE Goes(e, Resumed(l)) /\ UNCHANGED <<row, broker>>
  BY <1>0, <1>2, ResumesChase
<1>3. CASE status # "PENDING" /\ PlaceSell(e, l)
  <2>1. remaining = 0 \/ broker[l.cur] = OverUnsold
    <3>1. CASE l.all
      BY <1>0, <1>3, <3>1 DEF Chases, RowStatus
    <3>2. CASE ~l.all
      BY <1>0, <1>3, <3>2 DEF Chases
    <3> QED BY <3>1, <3>2
  <2> QED BY <1>0, <1>3, <2>1, PlaceSellChases DEF Chases
<1> QED BY <1>1, <1>2, <1>3 DEF Quoted

LEMMA LaneStepChases ==
  ASSUME Certain, ChaseInv, NEW e \in Exits, LaneStep(e)
  PROVE  ChaseNext
<1> DEFINE l == lane[e]
<1>0. /\ TypeOK /\ l \in Lane /\ Shaped(l) /\ LaneFits(l, row, broker)
      /\ Chases(l, row, broker, remaining, polling)
      /\ "cancelRaises" \notin Faults
  BY ShapedLanes DEF ChaseInv, CancelInv, TypeOK, Certain
<1>1. ASSUME NEW q \in 1..Lot, Request(e, q) PROVE ChaseNext
  <2> DEFINE n == [l EXCEPT !.want = q]
  <2>1. n \in Lane /\ n.cur = NoOid /\ l.cur = NoOid /\ ~n.all
    BY <1>0, <1>1, LotAssumption DEF Lane, Chases, Request
  <2>2. PlaceSell(e, n) /\ UNCHANGED <<remaining, polling>>
    BY <1>1 DEF Request
  <2> HIDE DEF n
  <2> QED BY <2>1, <2>2, PlaceSellChases
<1>2. ASSUME NEW o \in Oids, UserCancels(e, o) PROVE ChaseNext
  BY <1>2 DEF Certain, UserCancels
<1>3. CASE Replace(e)
  <2>1. l.pc = "ready" /\ l.old \in Oids /\ broker[l.old] = OverUnsold /\ UNCHANGED <<remaining, polling>>
    BY <1>0, <1>3 DEF Replace, LaneFits, Shaped
  <2>2. l.cur # NoOid => broker[l.cur] = OverUnsold
    BY <1>0, <2>1 DEF Chases
  <2>3. l.all => l.want >= remaining
    BY <1>0 DEF Chases
  <2> QED BY <1>0, <1>3, <2>1, <2>2, <2>3, PlaceSellChases, InsertChases, EndsChase DEF Replace
<1>4. CASE PostReturns(e)
  BY <1>4, PostReturnsChases
<1>5. CASE PostFails(e)
  BY <1>5, PostFailsChases
<1>6. CASE JobTimesOut(e) \/ CancelSeesFill(e)
  BY <1>6, EndsChase DEF JobTimesOut, CancelSeesFill
<1>7. CASE CancelConfirmed(e)
  BY <1>7, StampChases DEF CancelConfirmed, OverUnsold
<1>8. CASE CancelUnconfirmed(e)
  <2>1. l.pc = "call" /\ l.by # "user"
    BY <1>0, <1>8 DEF Chases, CancelUnconfirmed
  <2>2. CASE l.by = "place"
    BY <1>8, <2>1, <2>2, EndsChase DEF CancelUnconfirmed
  <2>3. CASE l.by = "watch"
    <3>1. l.cur \in Oids
      BY <1>0, <2>1, <2>3 DEF Chases, Shaped
    <3> QED BY <1>8, <2>1, <2>3, <3>1, ResumesChase DEF CancelUnconfirmed
  <2> QED BY <1>8, <2>1, <2>2, <2>3 DEF CancelUnconfirmed
<1>9. CASE Wakes(e)
  <2> DEFINE n == [l EXCEPT !.pc = "quote", !.tries = @ + 1, !.seen = row[l.cur].status]
  <2>1. /\ l.pc = "watch" /\ l.cur \in Oids /\ l.cur # NoOid
        /\ UNCHANGED <<row, broker, remaining, polling>>
        /\ row[l.cur].status \in RowStatus
    BY <1>0, <1>9, OidAssumption DEF Wakes, Shaped, TypeOK, Row
  <2>2. CASE Ends(e)
    BY <2>1, <2>2, EndsChase
  <2>3. CASE row[l.cur].status # "FILLED" /\ Goes(e, n)
    <3>1. /\ n.pc = "quote" /\ n.cur = l.cur /\ n.want = l.want /\ n.all = l.all
          /\ n.seen = row[l.cur].status
      BY <1>0 DEF Lane
    <3>2. Chases(n, row, broker, remaining, polling)
      BY <1>0, <2>1, <2>3, <3>1 DEF Chases, RowStatus
    <3> HIDE DEF n
    <3>3. Goes(e, n)
      BY <2>3
    <3> QED BY <2>1, <3>1, <3>2, <3>3, GoesOnChasing
  <2> QED BY <1>9, <2>2, <2>3 DEF Wakes
<1>10. CASE Quoted(e)
  BY <1>10, QuotedChases
<1>11. CASE QuoteFails(e)
  BY <1>0, <1>11, ResumesChase DEF QuoteFails, Shaped
<1>12. ~CancelRaises(e)
  BY <1>0 DEF CancelRaises
<1> QED BY <1>1, <1>2, <1>3, <1>4, <1>5, <1>6, <1>7, <1>8, <1>9, <1>10, <1>11, <1>12
    DEF LaneStep

LEMMA OrderStepChases ==
  ASSUME Certain, ChaseInv, NEW o \in Oids, PollerStep(o) \/ BrokerStep(o)
  PROVE  ChaseNext
<1>0. TypeOK /\ remaining \in Nat
  BY LotAssumption DEF ChaseInv, CancelInv, TypeOK
<1>1. lane' = lane /\ polling' \subseteq polling
  BY DEF PollerStep, BrokerStep, PollFilled, PollDead, PollGivesUp, Accepts, Fills, FillsOne, Kills
<1>2. /\ AllOrNothing' /\ remaining' \in 0..remaining
      /\ \A p \in Oids : FairChange(p)
      /\ \A p \in Oids : row[p].status # "NONE" => row'[p].status # "NONE"
  <2>1. CASE PollFilled(o)
    <3> DEFINE newly == IF broker[o].filled >= row[o].filled
                          THEN broker[o].filled - row[o].filled ELSE 0
    <3>1. /\ UNCHANGED broker /\ o \in polling
          /\ broker[o].state = "FILLED" /\ broker[o].filled = row[o].qty
          /\ row' = [row EXCEPT ![o].status = "FILLED", ![o].filled = broker[o].filled]
          /\ remaining' = IF newly <= remaining THEN remaining - newly ELSE 0
      BY <2>1 DEF PollFilled, ChaseInv, AllOrNothing
    <3>2. /\ row'[o].status = "FILLED" /\ row'[o].qty = row[o].qty
          /\ \A p \in Oids : p # o => row'[p] = row[p]
      BY <1>0, <3>1 DEF TypeOK, Row
    <3>3. row[o].qty \in Nat /\ row[o].filled \in Nat /\ newly \in Nat
      BY <1>0, <3>1, LotAssumption DEF TypeOK, Row
    <3>4. row[o].status # "FILLED" => newly = row[o].qty
      BY <3>1, <3>3 DEF ChaseInv, AllOrNothing
    <3> HIDE DEF newly
    <3>5. remaining' \in 0..remaining /\ (newly >= remaining => remaining' = 0)
      BY <1>0, <3>1, <3>3
    <3>6. AllOrNothing'
      BY <3>1, <3>2 DEF ChaseInv, AllOrNothing
    <3>7. \A p \in Oids : FairChange(p)
      BY <1>1, <3>1, <3>2, <3>4, <3>5 DEF FairChange
    <3> QED BY <3>2, <3>5, <3>6, <3>7
  <2>2. CASE PollDead(o)
    <3>1. /\ UNCHANGED <<broker, remaining>> /\ broker[o] = OverUnsold
          /\ row' = [row EXCEPT ![o].status = "DEAD"]
      BY <1>0, <2>2 DEF PollDead, ChaseInv, AllOrNothing, TypeOK, BrokerOrder, OverUnsold
    <3>2. row[o].status # "FILLED" => row'[o].filled = 0
      BY <1>0, <3>1 DEF ChaseInv, AllOrNothing, TypeOK, Row
    <3>3. /\ row'[o].status = "DEAD" /\ row'[o].qty = row[o].qty /\ row'[o].filled = row[o].filled
          /\ \A p \in Oids : p # o => row'[p] = row[p]
      BY <1>0, <3>1 DEF TypeOK, Row
    <3>4. row[o].status # "FILLED"
      BY <3>1 DEF ChaseInv, AllOrNothing, OverUnsold
    <3>5. AllOrNothing'
      BY <3>1, <3>2, <3>3, <3>4 DEF ChaseInv, AllOrNothing
    <3>6. \A p \in Oids : FairChange(p)
      BY <1>1, <3>1, <3>3 DEF FairChange
    <3> QED BY <1>0, <3>1, <3>3, <3>5, <3>6
  <2>3. CASE Accepts(o) \/ Fills(o) \/ Kills(o)
    <3>1. /\ UNCHANGED <<row, remaining>>
          /\ broker[o].state \in {"SENT", "LIVE"}
          /\ broker'[o].filled = IF broker'[o].state = "FILLED" THEN row[o].qty ELSE 0
          /\ \A p \in Oids : p # o => broker'[p] = broker[p]
      BY <1>0, <2>3 DEF Accepts, Fills, Kills, TypeOK, BrokerOrder, ChaseInv, AllOrNothing
    <3>2. AllOrNothing' /\ \A p \in Oids : FairChange(p)
      BY <1>1, <3>1 DEF ChaseInv, AllOrNothing, FairChange, OverUnsold
    <3> QED BY <1>0, <3>1, <3>2
  <2>4. ~PollGivesUp(o) /\ ~FillsOne(o)
    BY DEF Certain, PollGivesUp, FillsOne
  <2> QED BY <2>1, <2>2, <2>3, <2>4 DEF PollerStep, BrokerStep
<1>3. OwnOrders' /\ PolledHanded'
  BY <1>0, <1>1, <1>2 DEF ChaseInv, OwnOrders, PolledHanded, TypeOK
<1>4. ASSUME NEW e \in Exits PROVE Chases(lane'[e], row', broker', remaining', polling')
  <2>1. lane[e].cur \in Oids \cup {NoOid}
    BY <1>0 DEF TypeOK, Lane
  <2> QED BY <1>1, <1>2, <2>1, StillChases
<1>5. \A e \in Exits : LeavesDead(e)
  BY <1>1 DEF LeavesDead
<1> QED BY <1>2, <1>3, <1>4, <1>5 DEF ChaseNext

(* A watcher never sends a second SELL while its first can still sell, or   *)
(* after it sold: with any number of lanes and attempts, jobs that time out *)
(* and POSTs that fail without anyone knowing, where cancels answer, orders *)
(* fill whole, pollers stay, nobody strikes an order by hand and only       *)
(* analyst SELLs are chased.                                                *)
THEOREM RepegsAreSafe ==
  ASSUME Certain
  PROVE  Spec => RepegsOnlyTheDead
<1>1. Init => ChaseInv
  <2> SUFFICES ASSUME Init PROVE ChaseInv
    OBVIOUS
  <2>1. \A e \in Exits : lane[e] = IdleLane
    BY DEF Init
  <2>2. \A e \in Exits : Chases(lane[e], row, broker, remaining, polling)
    BY <2>1 DEF Chases, IdleLane
  <2>3. OwnOrders
    BY <2>1 DEF OwnOrders, IdleLane
  <2>4. AllOrNothing /\ PolledHanded
    BY DEF Init, AllOrNothing, PolledHanded, NoRow, NoBrokerOrder
  <2> QED BY <2>2, <2>3, <2>4, CancelInit DEF ChaseInv
<1>2. ChaseInv /\ [Next]_vars => ChaseInv' /\ \A e \in Exits : LeavesDead(e)
  <2> SUFFICES ASSUME ChaseInv, [Next]_vars
               PROVE  ChaseInv' /\ \A e \in Exits : LeavesDead(e)
    OBVIOUS
  <2>1. CancelInv'
    BY CancelStep DEF ChaseInv
  <2>2. CASE \E e \in Exits : LaneStep(e)
    BY <2>1, <2>2, LaneStepChases DEF ChaseNext, ChaseInv
  <2>3. CASE \E o \in Oids : PollerStep(o) \/ BrokerStep(o)
    BY <2>1, <2>3, OrderStepChases DEF ChaseNext, ChaseInv
  <2>4. CASE Quiet \/ UNCHANGED vars
    <3>1. UNCHANGED vars
      BY <2>4 DEF Quiet
    <3>2. AllOrNothing' /\ OwnOrders' /\ PolledHanded'
      BY <3>1 DEF vars, ChaseInv, AllOrNothing, OwnOrders, PolledHanded
    <3>3. \A e \in Exits : Chases(lane'[e], row', broker', remaining', polling')
      BY <3>1 DEF vars, ChaseInv
    <3>4. \A e \in Exits : LeavesDead(e)
      BY <3>1 DEF vars, LeavesDead
    <3> QED BY <2>1, <3>2, <3>3, <3>4 DEF ChaseInv
  <2> QED BY <2>2, <2>3, <2>4 DEF Next
<1>3. (\A e \in Exits : LeavesDead(e)) =>
        \A e \in Exits :
          (lane[e].cur # NoOid /\ lane'[e].cur \notin {NoOid, lane[e].cur}) =>
            broker[lane[e].cur] = [state |-> "DEAD", filled |-> 0]
  BY DEF LeavesDead, OverUnsold
<1> QED BY <1>1, <1>2, <1>3, PTL DEF Spec, RepegsOnlyTheDead

-----------------------------------------------------------------------------
(* No fill is booked twice *)

(* The contracts the broker has sold and the rows do not record, one by     *)
(* one: <<o, i>> is the i-th contract of order o.                           *)
Unrecorded(r, b) ==
  {u \in Oids \X (1..Lot) : r[u[1]].filled < u[2] /\ u[2] <= b[u[1]].filled}
Elsewhere(o, r, b) == {u \in Unrecorded(r, b) : u[1] # o}

(* The position row says what the account holds and will hold again in the  *)
(* rows: of an account sold short, nothing.                                 *)
UnbookedInv ==
  /\ CancelInv
  /\ IsFiniteSet(Unrecorded(row, broker))
  /\ remaining = AtLeast0(held + Cardinality(Unrecorded(row, broker)))
  /\ \A o \in Oids : /\ row[o].filled <= broker[o].filled
                     /\ broker[o].state # "FILLED" => row[o].filled = 0

LEMMA ColumnSize ==
  ASSUME NEW o, NEW m \in Nat, NEW n \in Nat, m <= n
  PROVE  /\ IsFiniteSet({o} \X ((m + 1)..n))
         /\ Cardinality({o} \X ((m + 1)..n)) = n - m
<1>1. /\ IsFiniteSet({o}) /\ Cardinality({o}) = 1
  BY FS_Singleton
<1>2. /\ IsFiniteSet((m + 1)..n)
      /\ Cardinality((m + 1)..n) = IF m + 1 > n THEN 0 ELSE n - (m + 1) + 1
  BY FS_Interval
<1>3. Cardinality((m + 1)..n) = n - m
  BY <1>2
<1>4. /\ IsFiniteSet({o} \X ((m + 1)..n))
      /\ Cardinality({o} \X ((m + 1)..n)) = Cardinality({o}) * Cardinality((m + 1)..n)
  BY <1>1, <1>2, FS_Product
<1> QED BY <1>1, <1>3, <1>4

LEMMA WithColumn ==
  ASSUME NEW o \in Oids, NEW r \in [Oids -> Row], NEW b \in [Oids -> BrokerOrder]
  PROVE  Unrecorded(r, b) = Elsewhere(o, r, b) \cup ({o} \X ((r[o].filled + 1)..b[o].filled))
<1>1. r[o].filled \in Nat /\ b[o].filled \in 0..Lot
  BY LotAssumption DEF Row, BrokerOrder
<1>2. ASSUME NEW i \in Int
      PROVE  i \in 1..Lot /\ r[o].filled < i /\ i <= b[o].filled <=> i \in (r[o].filled + 1)..b[o].filled
  BY <1>1, LotAssumption
<1>3. ASSUME NEW u \in Unrecorded(r, b)
      PROVE  u \in Elsewhere(o, r, b) \cup ({o} \X ((r[o].filled + 1)..b[o].filled))
  BY <1>2, LotAssumption DEF Unrecorded, Elsewhere
<1>4. ASSUME NEW u \in {o} \X ((r[o].filled + 1)..b[o].filled)
      PROVE  u \in Unrecorded(r, b)
  BY <1>2 DEF Unrecorded
<1> QED BY <1>3, <1>4 DEF Elsewhere

(* The number of what is unrecorded, order by order.                        *)
LEMMA Recount ==
  ASSUME NEW o \in Oids,
         NEW r \in [Oids -> Row], NEW b \in [Oids -> BrokerOrder],
         r[o].filled <= b[o].filled
  PROVE  /\ IsFiniteSet(Elsewhere(o, r, b)) <=> IsFiniteSet(Unrecorded(r, b))
         /\ IsFiniteSet(Unrecorded(r, b)) =>
              /\ Cardinality(Unrecorded(r, b)) = Cardinality(Elsewhere(o, r, b)) + (b[o].filled - r[o].filled)
              /\ Cardinality(Elsewhere(o, r, b)) \in Nat
<1> DEFINE E == Elsewhere(o, r, b)
           C == {o} \X ((r[o].filled + 1)..b[o].filled)
<1>1. r[o].filled \in Nat /\ b[o].filled \in Nat
  BY LotAssumption DEF Row, BrokerOrder
<1>2. IsFiniteSet(C) /\ Cardinality(C) = b[o].filled - r[o].filled
  BY <1>1, ColumnSize
<1>3. Unrecorded(r, b) = E \cup C
  BY WithColumn
<1>4. E \cap C = {}
  BY DEF Elsewhere
<1>5. E \in SUBSET Unrecorded(r, b)
  BY DEF Elsewhere
<1> HIDE DEF E, C
<1>6. IsFiniteSet(Unrecorded(r, b)) => IsFiniteSet(E)
  BY <1>5, FS_Subset
<1>7. ASSUME IsFiniteSet(E)
      PROVE  /\ IsFiniteSet(Unrecorded(r, b))
             /\ Cardinality(Unrecorded(r, b)) = Cardinality(E) + Cardinality(C)
             /\ Cardinality(E) \in Nat
  <2>1. /\ IsFiniteSet(E \cup C)
        /\ Cardinality(E \cup C) = Cardinality(E) + Cardinality(C) - Cardinality(E \cap C)
    BY <1>2, <1>7, FS_Union
  <2>2. Cardinality(E \cap C) = 0
    BY <1>4, FS_EmptySet
  <2>3. Cardinality(E) \in Nat /\ Cardinality(C) \in Nat
    BY <1>2, <1>7, FS_CardinalityType
  <2> QED BY <1>3, <2>1, <2>2, <2>3
<1> QED BY <1>2, <1>6, <1>7 DEF E

(* One order changes: the count follows it.                                 *)
LEMMA CountChanges ==
  ASSUME NEW o \in Oids,
         NEW r \in [Oids -> Row], NEW b \in [Oids -> BrokerOrder],
         NEW s \in [Oids -> Row], NEW c \in [Oids -> BrokerOrder],
         IsFiniteSet(Unrecorded(r, b)),
         r[o].filled <= b[o].filled, s[o].filled <= c[o].filled,
         \A p \in Oids : p # o => s[p].filled = r[p].filled /\ c[p].filled = b[p].filled
  PROVE  /\ IsFiniteSet(Unrecorded(s, c))
         /\ Cardinality(Unrecorded(s, c)) \in Nat
         /\ Cardinality(Unrecorded(s, c)) - (c[o].filled - s[o].filled)
              = Cardinality(Unrecorded(r, b)) - (b[o].filled - r[o].filled)
<1>1. Elsewhere(o, s, c) = Elsewhere(o, r, b)
  BY DEF Elsewhere, Unrecorded
<1>2. /\ r[o].filled \in Nat /\ b[o].filled \in Nat
      /\ s[o].filled \in Nat /\ c[o].filled \in Nat
  BY LotAssumption DEF Row, BrokerOrder
<1>3. IsFiniteSet(Elsewhere(o, r, b)) /\ IsFiniteSet(Unrecorded(s, c))
  BY <1>1, Recount
<1>4. /\ Cardinality(Unrecorded(r, b)) = Cardinality(Elsewhere(o, r, b)) + (b[o].filled - r[o].filled)
      /\ Cardinality(Elsewhere(o, r, b)) \in Nat
  BY Recount
<1>5. Cardinality(Unrecorded(s, c)) = Cardinality(Elsewhere(o, s, c)) + (c[o].filled - s[o].filled)
  BY <1>3, Recount
<1> HIDE DEF Unrecorded, Elsewhere
<1> QED BY <1>1, <1>2, <1>3, <1>4, <1>5

(* What is sold and what is recorded stays, and the books with it.          *)
Unsold ==
  /\ UNCHANGED <<remaining, held>>
  /\ \A o \in Oids :
       /\ row'[o].filled = row[o].filled
       /\ broker'[o].filled = broker[o].filled
       /\ broker'[o].state # "FILLED" => broker[o].state # "FILLED"

LEMMA InsertUnsold ==
  ASSUME UnbookedInv, NEW e \in Exits, NEW l, Insert(e, l), UNCHANGED <<remaining, held>>
  PROVE  Unsold
<1>1. PICK o \in Oids :
        /\ row[o].status = "NONE"
        /\ row' = [row EXCEPT ![o] = [status |-> "PENDING", trigger |-> TriggerOf[e],
                                      qty |-> MinOf(l.want, remaining), filled |-> 0]]
        /\ broker' = [broker EXCEPT ![o].state = "SENT"]
  BY DEF Insert
<1>2. broker[o].state = "NONE" /\ row[o].filled = 0
  BY <1>1 DEF UnbookedInv, CancelInv, RowsHanded
<1>3. row \in [Oids -> Row] /\ broker \in [Oids -> BrokerOrder]
  BY DEF UnbookedInv, CancelInv, TypeOK
<1>4. /\ row'[o].filled = 0 /\ broker'[o].state = "SENT" /\ broker'[o].filled = broker[o].filled
      /\ \A p \in Oids : p # o => row'[p] = row[p] /\ broker'[p] = broker[p]
  BY <1>1, <1>3 DEF BrokerOrder
<1> QED BY <1>2, <1>4 DEF Unsold

LEMMA StampUnsold ==
  ASSUME UnbookedInv, NEW e \in Exits, Stamp(e)
  PROVE  Unsold
BY DEF UnbookedInv, CancelInv, TypeOK, Row, Stamp, Unsold

LEMMA PlaceSellUnsold ==
  ASSUME UnbookedInv, NEW e \in Exits, NEW l, PlaceSell(e, l), UNCHANGED <<remaining, held>>
  PROVE  Unsold
<1>1. CASE Insert(e, l)
  BY <1>1, InsertUnsold
<1>2. CASE UNCHANGED <<row, broker>>
  BY <1>2 DEF Unsold
<1> QED BY <1>1, <1>2 DEF PlaceSell, BeginCancel

LEMMA LaneStepUnsold ==
  ASSUME UnbookedInv, NEW e \in Exits, LaneStep(e)
  PROVE  Unsold
<1>0. UNCHANGED <<row, broker, remaining, held>> => Unsold
  BY DEF Unsold
<1>1. ASSUME NEW q \in 1..Lot, Request(e, q) PROVE Unsold
  BY <1>1, PlaceSellUnsold DEF Request
<1>2. CASE Replace(e)
  BY <1>0, <1>2, PlaceSellUnsold, InsertUnsold DEF Replace
<1>3. CASE PostFails(e)
  BY <1>3 DEF PostFails, UnbookedInv, CancelInv, TypeOK, Row, BrokerOrder, Unsold
<1>4. CASE CancelConfirmed(e) \/ CancelRaises(e)
  BY <1>4, StampUnsold DEF CancelConfirmed, CancelRaises
<1>5. CASE CancelUnconfirmed(e)
  BY <1>0, <1>5, StampUnsold DEF CancelUnconfirmed
<1>6. CASE Quoted(e)
  BY <1>0, <1>6, PlaceSellUnsold DEF Quoted, BeginCancel
<1>7. CASE \/ \E o \in Oids : UserCancels(e, o)
           \/ PostReturns(e) \/ JobTimesOut(e) \/ CancelSeesFill(e) \/ Wakes(e) \/ QuoteFails(e)
  BY <1>0, <1>7 DEF UserCancels, BeginCancel, PostReturns, JobTimesOut, CancelSeesFill, Wakes, QuoteFails
<1> QED BY <1>1, <1>2, <1>3, <1>4, <1>5, <1>6, <1>7 DEF LaneStep

LEMMA UnsoldBooks ==
  ASSUME UnbookedInv, CancelInv', Unsold
  PROVE  UnbookedInv'
<1>1. Unrecorded(row', broker') = Unrecorded(row, broker)
  BY DEF Unsold, Unrecorded
<1>2. /\ IsFiniteSet(Unrecorded(row', broker'))
      /\ remaining' = AtLeast0(held' + Cardinality(Unrecorded(row', broker')))
  BY <1>1 DEF UnbookedInv, Unsold
<1>3. \A o \in Oids : /\ row'[o].filled <= broker'[o].filled
                      /\ broker'[o].state # "FILLED" => row'[o].filled = 0
  BY DEF UnbookedInv, Unsold
<1> QED BY <1>2, <1>3 DEF UnbookedInv

(* The broker sells, or a poll books, g of order o: the account loses s     *)
(* contracts and the position row takes off t, or all it has.               *)
LEMMA SaleBooks ==
  ASSUME UnbookedInv, CancelInv', NEW o \in Oids,
         row'[o].filled <= broker'[o].filled,
         broker'[o].state # "FILLED" => row'[o].filled = 0,
         \A p \in Oids : p # o => row'[p] = row[p] /\ broker'[p] = broker[p],
         held' = held - (broker'[o].filled - broker[o].filled),
         row[o].filled <= row'[o].filled,
         remaining' = AtLeast0(remaining - (row'[o].filled - row[o].filled))
  PROVE  UnbookedInv'
<1>1. /\ row \in [Oids -> Row] /\ broker \in [Oids -> BrokerOrder]
      /\ row' \in [Oids -> Row] /\ broker' \in [Oids -> BrokerOrder]
      /\ remaining \in Int /\ remaining' \in Int /\ held \in Int
  BY LotAssumption DEF UnbookedInv, CancelInv, TypeOK
<1>2. /\ row[o].filled \in Int /\ row'[o].filled \in Int
      /\ broker[o].filled \in Int /\ broker'[o].filled \in Int
  BY <1>1, LotAssumption DEF Row, BrokerOrder
<1>3. /\ IsFiniteSet(Unrecorded(row, broker))
      /\ row[o].filled <= broker[o].filled
      /\ remaining = AtLeast0(held + Cardinality(Unrecorded(row, broker)))
  BY DEF UnbookedInv
<1>4. Cardinality(Unrecorded(row, broker)) \in Nat
  BY <1>3, FS_CardinalityType
<1>5. /\ IsFiniteSet(Unrecorded(row', broker'))
      /\ Cardinality(Unrecorded(row', broker')) \in Nat
      /\ Cardinality(Unrecorded(row', broker')) - (broker'[o].filled - row'[o].filled)
           = Cardinality(Unrecorded(row, broker)) - (broker[o].filled - row[o].filled)
  BY <1>1, <1>3, CountChanges
<1>6. remaining' = AtLeast0(held' + Cardinality(Unrecorded(row', broker')))
  BY <1>1, <1>2, <1>3, <1>4, <1>5 DEF AtLeast0
<1> QED BY <1>5, <1>6 DEF UnbookedInv

LEMMA OrderStepBooks ==
  ASSUME UnbookedInv, CancelInv', NEW o \in Oids, PollerStep(o) \/ BrokerStep(o)
  PROVE  UnbookedInv'
<1>0. /\ row \in [Oids -> Row] /\ broker \in [Oids -> BrokerOrder]
      /\ remaining \in Nat /\ held \in Int
      /\ row[o].filled \in Nat /\ broker[o].filled \in Nat /\ row[o].qty \in Nat
      /\ row[o].filled <= broker[o].filled
      /\ broker[o].state # "FILLED" => row[o].filled = 0
  BY LotAssumption DEF UnbookedInv, CancelInv, TypeOK, Row, BrokerOrder
<1>1. CASE PollFilled(o)
  <2> DEFINE newly == IF broker[o].filled >= row[o].filled
                        THEN broker[o].filled - row[o].filled ELSE 0
  <2>1. newly = broker[o].filled - row[o].filled
    BY <1>0
  <2>2. remaining' = IF newly <= remaining THEN remaining - newly ELSE 0
    BY <1>1 DEF PollFilled
  <2> HIDE DEF newly
  <2>3. /\ row' = [row EXCEPT ![o].status = "FILLED", ![o].filled = broker[o].filled]
        /\ UNCHANGED <<broker, held>> /\ broker[o].state = "FILLED"
    BY <1>1 DEF PollFilled
  <2>4. /\ row'[o].filled = broker[o].filled
        /\ \A p \in Oids : p # o => row'[p] = row[p] /\ broker'[p] = broker[p]
    BY <1>0, <2>3 DEF Row
  <2>5. /\ row[o].filled <= row'[o].filled
        /\ remaining' = AtLeast0(remaining - (row'[o].filled - row[o].filled))
    BY <1>0, <2>1, <2>2, <2>4 DEF AtLeast0
  <2>6. held' = held - (broker'[o].filled - broker[o].filled)
    BY <1>0, <2>3
  <2>7. row'[o].filled <= broker'[o].filled
    BY <1>0, <2>3, <2>4
  <2> QED BY <2>3, <2>4, <2>5, <2>6, <2>7, SaleBooks
<1>2. CASE Fills(o) \/ FillsOne(o)
  <2>1. /\ UNCHANGED <<row, remaining>> /\ broker[o].state = "LIVE"
        /\ broker'[o].filled \in Nat
        /\ held' = held - (broker'[o].filled - broker[o].filled)
        /\ \A p \in Oids : p # o => broker'[p] = broker[p]
    BY <1>0, <1>2 DEF Fills, FillsOne, BrokerOrder
  <2>2. row'[o].filled = 0 /\ row[o].filled = 0
    BY <1>0, <2>1
  <2>3. /\ row'[o].filled <= broker'[o].filled /\ row[o].filled <= row'[o].filled
        /\ remaining' = AtLeast0(remaining - (row'[o].filled - row[o].filled))
    BY <1>0, <2>1, <2>2 DEF AtLeast0
  <2> QED BY <2>1, <2>2, <2>3, SaleBooks
<1>3. CASE PollDead(o) \/ PollGivesUp(o) \/ Accepts(o) \/ Kills(o)
  <2>1. Unsold
    <3>1. CASE PollDead(o) \/ PollGivesUp(o)
      BY <1>0, <3>1 DEF PollDead, PollGivesUp, Row, Unsold
    <3>2. CASE Accepts(o) \/ Kills(o)
      BY <1>0, <3>2 DEF Accepts, Kills, BrokerOrder, Unsold
    <3> QED BY <1>3, <3>1, <3>2
  <2> QED BY <2>1, UnsoldBooks
<1> QED BY <1>1, <1>2, <1>3 DEF PollerStep, BrokerStep

LEMMA UnbookedInit == Init => UnbookedInv
<1> SUFFICES ASSUME Init PROVE UnbookedInv
  OBVIOUS
<1>1. \A o \in Oids : row[o].filled = 0 /\ broker[o].filled = 0
  BY DEF Init, NoRow, NoBrokerOrder
<1>2. Unrecorded(row, broker) = {}
  BY <1>1 DEF Unrecorded
<1>3. remaining = AtLeast0(held + Cardinality(Unrecorded(row, broker)))
  BY <1>2, FS_EmptySet, LotAssumption DEF Init, AtLeast0
<1> QED BY <1>1, <1>2, <1>3, FS_EmptySet, CancelInit DEF UnbookedInv

LEMMA UnbookedStep == UnbookedInv /\ [Next]_vars => UnbookedInv'
<1> SUFFICES ASSUME UnbookedInv, [Next]_vars PROVE UnbookedInv'
  OBVIOUS
<1>1. CancelInv'
  BY CancelStep DEF UnbookedInv
<1>2. CASE \E e \in Exits : LaneStep(e)
  BY <1>1, <1>2, LaneStepUnsold, UnsoldBooks
<1>3. CASE \E o \in Oids : PollerStep(o) \/ BrokerStep(o)
  BY <1>1, <1>3, OrderStepBooks
<1>4. CASE Quiet \/ UNCHANGED vars
  BY <1>1, <1>4, UnsoldBooks DEF Quiet, vars, Unsold
<1> QED BY <1>2, <1>3, <1>4 DEF Next

LEMMA UnbookedNever ==
  ASSUME UnbookedInv
  PROVE  NeverOverbooks
<1>1. Cardinality(Unrecorded(row, broker)) \in Nat
  BY FS_CardinalityType DEF UnbookedInv
<1>2. held \in Int /\ remaining = AtLeast0(held + Cardinality(Unrecorded(row, broker)))
  BY DEF UnbookedInv, CancelInv, TypeOK
<1> QED BY <1>1, <1>2 DEF AtLeast0, NeverOverbooks

(* No fill is booked twice, so the position row never claims fewer          *)
(* contracts than the account has: under every fault, with every caller and *)
(* interleaving.                                                            *)
THEOREM FillsBookedOnce == Spec => []NeverOverbooks
BY UnbookedInit, UnbookedStep, UnbookedNever, PTL DEF Spec

(* Once nothing is in flight the position row says what the account holds:  *)
(* with any lanes, the operator's cancels among them, however the exits     *)
(* raced and even when cancel calls raise, as long as orders fill in whole, *)
(* pollers do not give up, and POSTs and queue jobs fail cleanly.           *)
THEOREM BooksSettle ==
  ASSUME Faults \subseteq {"cancelRaises"}
  PROVE  Spec => []BooksAgree
<1>1. Spec => []UnbookedInv
  BY UnbookedInit, UnbookedStep, PTL DEF Spec
<1>2. Spec => []FillWillBeBooked
  BY NoFillLost
<1>3. UnbookedInv /\ FillWillBeBooked => BooksAgree
  <2> SUFFICES ASSUME UnbookedInv, FillWillBeBooked,
                      \A o \in Oids : o \notin polling,
                      \A e \in Exits : lane[e].pc # "post"
               PROVE  remaining = AtLeast0(held)
    BY DEF BooksAgree
  <2>1. \A o \in Oids : ~(broker[o].filled > row[o].filled)
    BY DEF FillWillBeBooked
  <2>2. \A o \in Oids : broker[o].filled \in Int /\ row[o].filled \in Int
    BY LotAssumption DEF UnbookedInv, CancelInv, TypeOK, Row, BrokerOrder
  <2>3. Unrecorded(row, broker) = {}
    BY <2>1, <2>2, LotAssumption DEF Unrecorded
  <2>4. held \in Int /\ remaining = AtLeast0(held + Cardinality(Unrecorded(row, broker)))
    BY DEF UnbookedInv, CancelInv, TypeOK
  <2>5. held + Cardinality(Unrecorded(row, broker)) = held
    BY <2>3, <2>4, FS_EmptySet
  <2> QED BY <2>4, <2>5
<1> QED BY <1>1, <1>2, <1>3, PTL

-----------------------------------------------------------------------------
(* The orders implement the ledger *)

LEMMA OrderStepLedger ==
  ASSUME Clean, CleanInv, NeverOverbooks', NEW o \in Oids, PollerStep(o) \/ BrokerStep(o)
  PROVE  [Ledger!Next]_(Ledger!vars)
<1>0. /\ remaining \in 0..Lot /\ held \in Int
      /\ row[o].filled \in Int /\ broker[o].filled \in Int
  BY LotAssumption DEF CleanInv, ExitInv, TypeOK, Row, BrokerOrder
<1>1. CASE Fills(o)
  <2>1. /\ UNCHANGED <<remaining, raced>> /\ row[o].qty \in 1..Lot
        /\ held' = held - row[o].qty /\ (raced \/ row[o].qty <= held)
    BY <1>1, FillsKeeps
  <2>2. Ledger!Sold(row[o].qty)
    BY <2>1, Zenon DEF Ledger!Sold
  <2> QED BY <2>1, <2>2, Zenon DEF Ledger!Next
<1>2. CASE PollFilled(o)
  <2> DEFINE newly == IF broker[o].filled >= row[o].filled
                        THEN broker[o].filled - row[o].filled ELSE 0
             n == IF newly <= remaining THEN newly ELSE remaining
  <2>1. newly \in Nat
    BY <1>0
  <2>2. /\ remaining' = IF newly <= remaining THEN remaining - newly ELSE 0
        /\ UNCHANGED <<held, raced>>
    BY <1>2 DEF PollFilled
  <2> HIDE DEF newly
  <2>3. n \in 0..Lot /\ n <= remaining /\ remaining' = remaining - n
    BY <1>0, <2>1, <2>2, LotAssumption
  <2> HIDE DEF n
  <2>4. remaining' >= held'
    BY DEF NeverOverbooks
  <2>5. n <= remaining - held
    BY <1>0, <2>2, <2>3, <2>4, LotAssumption
  <2>6. CASE n = 0
    BY <1>0, <2>2, <2>3, <2>6 DEF Ledger!vars
  <2>7. CASE n # 0
    <3>1. n \in 1..Lot /\ Ledger!Booked(n)
      BY <2>2, <2>3, <2>5, <2>7, LotAssumption DEF Ledger!Booked
    <3> QED BY <3>1, Zenon DEF Ledger!Next
  <2> QED BY <2>6, <2>7
<1>3. CASE PollDead(o) \/ Accepts(o) \/ Kills(o)
  BY <1>3 DEF PollDead, Accepts, Kills, Ledger!vars
<1>4. ~PollGivesUp(o) /\ ~FillsOne(o)
  BY DEF PollGivesUp, FillsOne, Clean
<1> QED BY <1>1, <1>2, <1>3, <1>4 DEF PollerStep, BrokerStep

LEMMA LaneStepLedger ==
  ASSUME TypeOK, NEW e \in Exits, LaneStep(e)
  PROVE  [Ledger!Next]_(Ledger!vars)
<1>1. UNCHANGED <<remaining, held>>
  BY DEF LaneStep, Request, UserCancels, Replace, PostReturns, PostFails, JobTimesOut,
     CancelSeesFill, CancelConfirmed, CancelUnconfirmed, CancelRaises, Stamp, Wakes, Quoted,
     QuoteFails
<1>2. raced' = raced \/ raced' = TRUE
  BY DEF LaneStep, Request, UserCancels, Replace, PostReturns, PostFails, JobTimesOut,
     CancelSeesFill, CancelConfirmed, CancelUnconfirmed, CancelRaises, Stamp, Wakes, Quoted,
     QuoteFails, PlaceSell, BeginCancel, Insert, TypeOK
<1> QED BY <1>1, <1>2 DEF Ledger!Next, Ledger!Races, Ledger!vars

(* As long as no order outlives its row, every step of the orders and their *)
(* rows is a sale, a booking or a race of the ledger, or invisible to it:   *)
(* with any lanes and any interleaving, races included.                     *)
THEOREM LedgerKept ==
  ASSUME Clean
  PROVE  Spec => KeepsLedger
<1>1. Init => CleanInv /\ Ledger!Init
  BY CleanInit DEF Init, Ledger!Init
<1>2. CleanInv /\ NeverOverbooks' /\ [Next]_vars
        => CleanInv' /\ [Ledger!Next]_(Ledger!vars)
  <2> SUFFICES ASSUME CleanInv, NeverOverbooks', [Next]_vars
               PROVE  CleanInv' /\ [Ledger!Next]_(Ledger!vars)
    OBVIOUS
  <2>1. CleanInv'
    BY CleanStep
  <2>2. CASE \E e \in Exits : LaneStep(e)
    BY <2>1, <2>2, LaneStepLedger DEF CleanInv, ExitInv
  <2>3. CASE \E o \in Oids : PollerStep(o) \/ BrokerStep(o)
    BY <2>1, <2>3, OrderStepLedger
  <2>4. CASE Quiet \/ UNCHANGED vars
    BY <2>1, <2>4 DEF Quiet, vars, Ledger!vars
  <2> QED BY <2>2, <2>3, <2>4 DEF Next
<1>3. Spec => []NeverOverbooks
  BY FillsBookedOnce
<1> QED BY <1>1, <1>2, <1>3, PTL DEF Spec, KeepsLedger, Ledger!Spec
=============================================================================
