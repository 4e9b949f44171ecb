----------------------- MODULE DeliveryGatewayProofs -----------------------
(***************************************************************************)
(* Theorems about DeliveryGateway, for any sockets, users and requests.    *)
(***************************************************************************)
EXTENDS DeliveryGateway, TLAPS

\* The token of an attached socket has been verified.
AttachedVerified == \A c \in Sockets : conn[c] = "attached" => token[c] \in Users

\* What SeenWasStored says of the report that a client was shown.
IsStored(m) ==
  /\ ~missedRow => (\E p \in wasStored : p.lat = Lat[m]) /\ (\E p \in wasStored : p.lng = Lng[m])
  /\ ~staleSave => At(m) \in wasStored

\* A report gets past the first check only with a user; a save that is going
\* to update has selected a row that was there; and a report is sent only when
\* it has been stored.
Phase(m) ==
  /\ m \in Reports /\ pc[m] \in {"checking", "saving", "updating", "inserting", "emitting"} =>
       token[SocketOf[m]] \in Users
  /\ m \in Handlers /\ pc[m] = "updating" => reloaded[m] \in wasStored
  /\ pc[m] = "emitting" => m \in Reports /\ IsStored(m)

ReportsByPhase == \A m \in Requests : Phase(m)

PositionWasStored == position # Nothing => position \in wasStored

GatewayInv ==
  /\ TypeOK
  /\ AttachedVerified
  /\ WatchersMayWatch
  /\ PositionWasStored
  /\ ReportsByPhase
  /\ EventsAddressed
  /\ SeenWasStored

\* What the assumption and the definition of the requests say.
LEMMA Shapes ==
  /\ SocketOf \in [Messages -> Sockets]
  /\ RoomRequests \subseteq Messages /\ Reports \subseteq Messages /\ Messages \subseteq Requests
  /\ Handlers = Reports \union Assignments /\ Handlers \subseteq Requests
  /\ Subscribes \subseteq RoomRequests /\ Unsubscribes \subseteq RoomRequests
  /\ RoomRequests \intersect Reports = {}
  /\ Messages \intersect Assignments = {}
  /\ Nothing \notin Reports /\ Nothing \notin RoomRequests /\ Nothing \notin Positions
BY GatewayAssumption DEF Requests, Messages, RoomRequests, Handlers

\* Positions are positions.
LEMMA PositionsTyped ==
  /\ Origin \in Positions
  /\ \A m \in Reports : At(m) \in Positions /\ At(m).lat = Lat[m] /\ At(m).lng = Lng[m]
BY GatewayAssumption DEF Origin, Positions, At

\* What an update makes of a row: the columns that did not differ are the
\* row's, and if the row is the one selected, they are the entity's too.
LEMMA MergedRow ==
  ASSUME NEW e \in Positions, NEW b \in Positions, NEW r \in Positions
  PROVE  /\ Merged(e, b, r) \in Positions
         /\ e.lat = Merged(e, b, r).lat \/ e.lat = b.lat
         /\ e.lng = Merged(e, b, r).lng \/ e.lng = b.lng
         /\ r = b => Merged(e, b, r) = e
         /\ e = b => Merged(e, b, r) = r
<1>1. /\ e = [lat |-> e.lat, lng |-> e.lng] /\ r = [lat |-> r.lat, lng |-> r.lng]
      /\ e.lat \in Int /\ e.lng \in Int /\ b.lat \in Int /\ b.lng \in Int /\ r.lat \in Int /\ r.lng \in Int
  BY DEF Positions
<1> QED BY <1>1 DEF Merged, Positions

\* The invariant holds when nobody is connected yet.
LEMMA InvAtStart == Init => GatewayInv
<1> SUFFICES ASSUME Init PROVE GatewayInv
  OBVIOUS
<1>1. TypeOK
  BY DEF Init, TypeOK, Labels
<1>2. AttachedVerified /\ WatchersMayWatch /\ PositionWasStored /\ ReportsByPhase
      /\ EventsAddressed /\ SeenWasStored
  BY DEF Init, AttachedVerified, WatchersMayWatch, PositionWasStored, ReportsByPhase,
         Phase, EventsAddressed, SeenWasStored
<1> QED BY <1>1, <1>2 DEF GatewayInv

\* A step that changes neither sockets nor tokens leaves the first parts be.
LEMMA SocketsUnchanged ==
  ASSUME GatewayInv, UNCHANGED sockets
  PROVE  AttachedVerified' /\ WatchersMayWatch'
BY DEF GatewayInv, sockets, AttachedVerified, WatchersMayWatch, MayWatch

\* The history of the store only grows.
StoresGrow ==
  /\ wasStored \subseteq wasStored'
  /\ staleSave => staleSave'
  /\ missedRow => missedRow'

\* What was stored stays so.
LEMMA StoredForGood ==
  ASSUME NEW m, IsStored(m), StoresGrow
  PROVE  IsStored(m)'
BY DEF IsStored, StoresGrow, At

\* What was sent stays properly addressed and stored while nothing is sent.
LEMMA EventsUnchanged ==
  ASSUME GatewayInv, last' = last, token' = token, StoresGrow
  PROVE  EventsAddressed' /\ SeenWasStored'
<1>1. EventsAddressed'
  BY DEF GatewayInv, EventsAddressed, MayWatch
<1>2. ASSUME NEW c \in Sockets, last'[c] # Nothing PROVE IsStored(last[c])'
  BY <1>2, StoredForGood DEF GatewayInv, SeenWasStored, IsStored
<1>3. SeenWasStored'
  BY <1>2 DEF SeenWasStored, IsStored
<1> QED BY <1>1, <1>3

\* A step of one request leaves the phases of the others be.
LEMMA OthersUnchanged ==
  ASSUME GatewayInv, token' = token, StoresGrow, NEW m, Phase(m)',
         \A n \in Requests : n # m => pc'[n] = pc[n],
         \A h \in Handlers : h # m => reloaded'[h] = reloaded[h]
  PROVE  ReportsByPhase'
<1> SUFFICES ASSUME NEW n \in Requests, n # m PROVE Phase(n)'
  BY DEF ReportsByPhase
<1>1. Phase(n)
  BY DEF GatewayInv, ReportsByPhase
<1>2. wasStored \subseteq wasStored'
  BY DEF StoresGrow
<1> QED BY <1>1, <1>2, StoredForGood DEF Phase

\* The invariant survives what happens to connections.
LEMMA ConnectionStep ==
  ASSUME GatewayInv, NEW c \in Sockets, Connect(c) \/ Verify(c) \/ Disconnect(c)
  PROVE  GatewayInv'
<1>0. TypeOK
  BY DEF GatewayInv
<1>1. UNCHANGED <<token, position, pc, reloaded, last, wasStored, staleSave, missedRow>>
  BY DEF Connect, Verify, Disconnect, history, stores, rows, copies
<1>2. TypeOK'
  BY <1>0 DEF TypeOK, Connect, Verify, Disconnect, Close, history, stores, clients, rows, copies
<1>3. AttachedVerified' /\ WatchersMayWatch'
  <2>1. CASE Connect(c)
    BY <1>0, <2>1 DEF GatewayInv, AttachedVerified, WatchersMayWatch, MayWatch, Connect, TypeOK
  <2>2. CASE Verify(c)
    BY <1>0, <2>2 DEF GatewayInv, AttachedVerified, WatchersMayWatch, MayWatch, Verify, Close, TypeOK
  <2>3. CASE Disconnect(c)
    BY <1>0, <2>3
       DEF GatewayInv, AttachedVerified, WatchersMayWatch, MayWatch, Disconnect, Close, TypeOK
  <2> QED BY <2>1, <2>2, <2>3
<1>4. ReportsByPhase' /\ PositionWasStored'
  BY <1>1 DEF GatewayInv, ReportsByPhase, Phase, IsStored, At, PositionWasStored
<1>5. EventsAddressed' /\ SeenWasStored'
  BY <1>1, EventsUnchanged DEF StoresGrow
<1> QED BY <1>2, <1>3, <1>4, <1>5 DEF GatewayInv

\* The invariant survives requests about the room.
LEMMA RoomStep ==
  ASSUME GatewayInv, NEW m \in Messages, Subscribe(m) \/ Join(m) \/ Unsubscribe(m)
  PROVE  GatewayInv'
<1>0. TypeOK /\ m \in Requests /\ m \in RoomRequests /\ m \notin Handlers /\ SocketOf[m] \in Sockets
  BY Shapes DEF GatewayInv, Subscribe, Join, Unsubscribe
<1>1. UNCHANGED <<token, conn, position, reloaded, last, wasStored, staleSave, missedRow>>
  BY DEF Subscribe, Join, Unsubscribe, sockets, stores, rows, copies
<1>2. \E label \in {"anonymous", "checking", "done", "refused"} : Goto(m, label)
  BY DEF Subscribe, Join, Unsubscribe
<1>3. TypeOK'
  <2>1. pc' \in [Requests -> Labels]
    BY <1>0, <1>2 DEF TypeOK, Goto, Labels
  <2>2. CASE Subscribe(m) \/ Unsubscribe(m)
    BY <1>0, <1>1, <2>1, <2>2
       DEF TypeOK, Subscribe, Unsubscribe, Asks, sockets, rows, copies, stores
  <2>3. CASE Join(m)
    BY <1>0, <1>1, <2>1, <2>3 DEF TypeOK, Join, rows, copies, stores, clients
  <2> QED BY <2>2, <2>3
<1>4. AttachedVerified' /\ WatchersMayWatch'
  <2>1. CASE Subscribe(m) \/ Unsubscribe(m)
    BY <1>1, <2>1 DEF GatewayInv, AttachedVerified, WatchersMayWatch, MayWatch, Subscribe, Unsubscribe,
                      sockets
  <2>2. CASE Join(m)
    BY <1>0, <1>1, <2>2 DEF GatewayInv, AttachedVerified, WatchersMayWatch, MayWatch, Join
  <2> QED BY <2>1, <2>2
<1>5. ReportsByPhase' /\ PositionWasStored'
  <2>1. \A n \in Requests : n # m => pc'[n] = pc[n]
    BY <1>0, <1>2 DEF TypeOK, Goto
  <2>2. pc'[m] \in {"anonymous", "checking", "done", "refused"}
    BY <1>0, <1>2 DEF TypeOK, Goto
  <2>3. Phase(m)'
    BY <1>0, <2>2, Shapes DEF Phase
  <2> QED BY <1>1, <2>1, <2>3, OthersUnchanged DEF GatewayInv, PositionWasStored, StoresGrow
<1>6. EventsAddressed' /\ SeenWasStored'
  BY <1>1, EventsUnchanged DEF StoresGrow
<1> QED BY <1>3, <1>4, <1>5, <1>6 DEF GatewayInv

\* The invariant survives the checks of a report.
LEMMA ReportStep ==
  ASSUME GatewayInv, NEW m \in Messages, Report(m) \/ CheckReport(m)
  PROVE  GatewayInv'
<1>0. TypeOK /\ m \in Requests /\ m \in Reports /\ SocketOf[m] \in Sockets
  BY Shapes DEF GatewayInv, Report, CheckReport
<1>1. UNCHANGED <<token, conn, room, position, reloaded, last, wasStored, staleSave, missedRow>>
  BY DEF Report, CheckReport, sockets, history, stores, rows, copies
<1>2. TypeOK'
  BY <1>0 DEF TypeOK, Report, CheckReport, Goto, Labels, sockets, rows, copies, stores, clients, history
<1>3. \A n \in Requests : n # m => pc'[n] = pc[n]
  BY <1>0 DEF TypeOK, Report, CheckReport, Goto
<1>4. Phase(m)'
  <2>1. CASE Report(m)
    BY <1>0, <1>1, <2>1 DEF GatewayInv, AttachedVerified, Phase, TypeOK, Report, Goto
  <2>2. CASE CheckReport(m)
    BY <1>0, <1>1, <2>2 DEF GatewayInv, ReportsByPhase, Phase, TypeOK, CheckReport, Goto
  <2> QED BY <2>1, <2>2
<1>5. ReportsByPhase' /\ PositionWasStored'
  BY <1>1, <1>3, <1>4, OthersUnchanged DEF GatewayInv, PositionWasStored, StoresGrow
<1>6. AttachedVerified' /\ WatchersMayWatch' /\ EventsAddressed' /\ SeenWasStored'
  BY <1>1, SocketsUnchanged, EventsUnchanged DEF sockets, StoresGrow
<1> QED BY <1>2, <1>5, <1>6 DEF GatewayInv

\* The invariant survives an assignment up to its save of the tracking row.
LEMMA AssignStep ==
  ASSUME GatewayInv, NEW a \in Assignments, Assign(a)
  PROVE  GatewayInv'
<1> USE DEF Assign, ReadOrder, ReloadOrder, UpdateOrder, InsertOrder, FindTracking
<1>0. TypeOK /\ a \in Requests /\ a \in Handlers /\ a \notin Reports /\ CourierOf[a] \in CourierUsers
  BY Shapes, GatewayAssumption DEF GatewayInv
<1>1. UNCHANGED <<token, conn, room, position, reloaded, last, wasStored, staleSave, missedRow>>
  BY DEF sockets, history, stores, rows, copies
<1>2. /\ \A n \in Requests : n # a => pc'[n] = pc[n]
      /\ pc'[a] \in {"refused", "read", "insertingOrder", "finding", "updatingOrder", "saving"}
      /\ pc' \in [Requests -> Labels]
  BY <1>0 DEF Goto, TypeOK, Labels
<1>3. TypeOK'
  <2>1. order' \in {"there", "withdrawn", "restored"} /\ courier' \in CourierUsers \union {Nobody}
    BY <1>0 DEF TypeOK, rows
  <2>2. found' \in [Assignments -> Positions \union {Nothing}]
    BY <1>0 DEF TypeOK, copies
  <2>3. UNCHANGED <<latest, clients, joinedSince, overlapped, faults>>
    BY DEF history, stores
  <2> QED BY <1>0, <1>1, <1>2, <2>1, <2>2, <2>3 DEF TypeOK, clients
<1>4. Phase(a)'
  BY <1>0, <1>2 DEF Phase
<1>5. ReportsByPhase' /\ PositionWasStored'
  BY <1>1, <1>2, <1>4, OthersUnchanged DEF GatewayInv, PositionWasStored, StoresGrow
<1>6. AttachedVerified' /\ WatchersMayWatch' /\ EventsAddressed' /\ SeenWasStored'
  BY <1>1, SocketsUnchanged, EventsUnchanged DEF sockets, StoresGrow
<1> QED BY <1>3, <1>5, <1>6 DEF GatewayInv

\* The position in the entity of a save.
LEMMA EntityTyped ==
  ASSUME TypeOK, NEW h \in Handlers
  PROVE  Entity(h) \in Positions /\ (h \in Reports => Entity(h) = At(h))
BY PositionsTyped, Shapes DEF TypeOK, Entity

\* The invariant survives the reading of the row by save.
LEMMA ReloadStep ==
  ASSUME GatewayInv, NEW h \in Handlers, Reload(h)
  PROVE  GatewayInv'
<1>0. TypeOK /\ h \in Requests
  BY Shapes DEF GatewayInv
<1>1. /\ UNCHANGED <<token, conn, room, position, last, wasStored, missedRow>>
      /\ StoresGrow
  BY DEF Reload, sockets, rows, StoresGrow
<1>2. TypeOK'
  BY <1>0 DEF TypeOK, Reload, Goto, Labels, sockets, rows, clients
<1>3. /\ \A n \in Requests : n # h => pc'[n] = pc[n]
      /\ \A g \in Handlers : g # h => reloaded'[g] = reloaded[g]
      /\ reloaded'[h] = position /\ pc[h] = "saving"
      /\ pc'[h] = IF position = Nothing THEN "inserting" ELSE "updating"
  BY <1>0 DEF TypeOK, Reload, Goto
<1>4. Phase(h)'
  BY <1>0, <1>1, <1>3 DEF GatewayInv, ReportsByPhase, Phase, PositionWasStored
<1>5. ReportsByPhase' /\ PositionWasStored'
  BY <1>1, <1>3, <1>4, OthersUnchanged DEF GatewayInv, PositionWasStored
<1>6. AttachedVerified' /\ WatchersMayWatch' /\ EventsAddressed' /\ SeenWasStored'
  BY <1>1, SocketsUnchanged, EventsUnchanged DEF sockets
<1> QED BY <1>2, <1>5, <1>6 DEF GatewayInv

\* What an update and an insert do to the row, and that a report is stored by either: a column
\* that is not written was the same in the row that the save has selected.
LEMMA Written ==
  ASSUME GatewayInv, NEW h \in Handlers, Update(h) \/ Insert(h)
  PROVE  /\ StoresGrow /\ position' \in Positions \union {Nothing}
         /\ wasStored' \in SUBSET Positions /\ PositionWasStored'
         /\ h \in Reports /\ pc'[h] = "emitting" => IsStored(h)'
<1>0. TypeOK /\ h \in Requests /\ Entity(h) \in Positions /\ (h \in Reports => Entity(h) = At(h))
  BY Shapes, EntityTyped DEF GatewayInv
<1>1. StoresGrow
  <2>1. CASE Update(h)
    BY <1>0, <2>1 DEF Update, Store, StoresGrow, TypeOK
  <2>2. CASE Insert(h)
    BY <1>0, <2>2 DEF Insert, Store, StoresGrow, TypeOK
  <2> QED BY <2>1, <2>2
<1>2. CASE Update(h) /\ position = Nothing
  <2>1. staleSave' /\ missedRow' /\ UNCHANGED <<position, wasStored>>
    BY <1>0, <1>2, Shapes DEF GatewayInv, ReportsByPhase, Phase, Update, TypeOK
  <2> QED BY <1>0, <1>1, <1>2, <2>1 DEF IsStored, PositionWasStored, TypeOK
<1>3. CASE Update(h) /\ position # Nothing
  <2>1. /\ position \in Positions /\ reloaded[h] \in Positions /\ reloaded[h] \in wasStored
        /\ position' = Merged(Entity(h), reloaded[h], position)
        /\ wasStored' = wasStored \union {position'}
        /\ staleSave' = (staleSave \/ position # reloaded[h])
    BY <1>0, <1>3 DEF GatewayInv, ReportsByPhase, Phase, Update, Store, TypeOK
  <2>2. /\ position' \in Positions
        /\ Entity(h).lat = position'.lat \/ Entity(h).lat = reloaded[h].lat
        /\ Entity(h).lng = position'.lng \/ Entity(h).lng = reloaded[h].lng
        /\ position = reloaded[h] => position' = Entity(h)
    BY <1>0, <2>1, MergedRow
  <2>3. h \in Reports => IsStored(h)'
    BY <1>0, <2>1, <2>2, PositionsTyped DEF IsStored, At
  <2> QED BY <1>0, <1>1, <2>1, <2>2, <2>3 DEF PositionWasStored, TypeOK
<1>4. CASE Insert(h) /\ position = Nothing /\ order # "withdrawn"
  <2>1. position' = Entity(h) /\ wasStored' = wasStored \union {Entity(h)}
    BY <1>4 DEF Insert, Store
  <2>2. h \in Reports => IsStored(h)'
    BY <1>0, <2>1, PositionsTyped DEF IsStored, At
  <2> QED BY <1>0, <1>1, <2>1, <2>2 DEF PositionWasStored, TypeOK
<1>5. CASE Insert(h) /\ ~(position = Nothing /\ order # "withdrawn")
  <2>1. UNCHANGED <<position, wasStored>> /\ pc'[h] = "refused"
    BY <1>0, <1>5 DEF Insert, Goto, TypeOK
  <2> QED BY <1>0, <1>1, <2>1 DEF GatewayInv, PositionWasStored, TypeOK
<1> QED BY <1>2, <1>3, <1>4, <1>5

\* The invariant survives the writing of the row.
LEMMA WriteStep ==
  ASSUME GatewayInv, NEW h \in Handlers, Update(h) \/ Insert(h)
  PROVE  GatewayInv'
<1>0. TypeOK /\ h \in Requests
  BY Shapes DEF GatewayInv
<1>1. UNCHANGED <<token, conn, room, order, courier, last, asked, pipelined, joinedSince, overlapped,
                  faults>>
  BY DEF Update, Insert, sockets, clients
<1>2. /\ \A n \in Requests : n # h => pc'[n] = pc[n]
      /\ \A g \in Handlers : g # h => reloaded'[g] = reloaded[g]
      /\ pc'[h] \in {"emitting", "done", "refused"}
      /\ pc'[h] = "emitting" => h \in Reports
      /\ pc[h] \in {"updating", "inserting"}
      /\ pc' \in [Requests -> Labels]
  BY <1>0 DEF TypeOK, Update, Insert, AfterSave, Goto, Drop, Labels
<1>3. TypeOK'
  <2>1. latest' \in Reports \union {Nothing} /\ staleSave' \in BOOLEAN /\ missedRow' \in BOOLEAN
    BY <1>0 DEF TypeOK, Update, Insert, Store
  <2>2. /\ found' \in [Assignments -> Positions \union {Nothing}]
        /\ reloaded' \in [Handlers -> Positions \union {Nothing}]
    BY <1>0 DEF TypeOK, Update, Insert, Drop
  <2> QED BY <1>0, <1>1, <1>2, <2>1, <2>2, Written DEF TypeOK
<1>4. Phase(h)'
  BY <1>0, <1>1, <1>2, Written DEF GatewayInv, ReportsByPhase, Phase
<1>5. ReportsByPhase' /\ PositionWasStored'
  BY <1>1, <1>2, <1>4, Written, OthersUnchanged
<1>6. AttachedVerified' /\ WatchersMayWatch' /\ EventsAddressed' /\ SeenWasStored'
  BY <1>1, Written, SocketsUnchanged, EventsUnchanged DEF sockets
<1> QED BY <1>3, <1>5, <1>6 DEF GatewayInv

\* The invariant survives an event: its recipients are the room and the
\* sender, and its position was stored.
LEMMA EventStep ==
  ASSUME GatewayInv, NEW m \in Messages, Emit(m)
  PROVE  GatewayInv'
<1>0. TypeOK /\ m \in Requests
  BY Shapes DEF GatewayInv
<1>1. /\ m \in Reports /\ IsStored(m) /\ SocketOf[m] \in Sockets /\ token[SocketOf[m]] \in Users
      /\ pc[m] = "emitting" /\ pc'[m] = "done"
      /\ \A n \in Requests : n # m => pc'[n] = pc[n]
  BY <1>0, Shapes DEF GatewayInv, ReportsByPhase, Phase, Emit, Goto, TypeOK
<1>2. UNCHANGED <<token, conn, room, rows, copies, stores>> /\ StoresGrow
  BY DEF Emit, sockets, stores, StoresGrow
<1>3. TypeOK'
  BY <1>0, <1>1 DEF TypeOK, Emit, Goto, Labels, sockets, rows, copies, stores, clients
<1>4. AttachedVerified' /\ WatchersMayWatch'
  BY <1>2, SocketsUnchanged DEF sockets
<1>5. ReportsByPhase' /\ PositionWasStored'
  BY <1>1, <1>2, OthersUnchanged DEF GatewayInv, Phase, PositionWasStored, rows, copies, stores
<1>6. ASSUME NEW c \in Sockets
      PROVE  last'[c] = last[c] \/ (last'[c] = m /\ c \in room \union {SocketOf[m]})
  BY DEF Emit, Recipients
<1>7. EventsAddressed'
  BY <1>1, <1>2, <1>6 DEF GatewayInv, EventsAddressed, WatchersMayWatch, MayWatch
<1>8. SeenWasStored'
  <2>1. \A c \in Sockets : last'[c] # Nothing => IsStored(last'[c])
    BY <1>1, <1>6 DEF GatewayInv, SeenWasStored, IsStored
  <2> QED BY <1>2, <2>1 DEF SeenWasStored, IsStored, stores, At
<1> QED BY <1>3, <1>4, <1>5, <1>7, <1>8 DEF GatewayInv

\* The invariant survives what others do to the order.
LEMMA OrderStep ==
  ASSUME GatewayInv, Withdraw \/ \E u \in CourierUsers \union {Nobody} : WorkerSaves(u)
  PROVE  GatewayInv'
<1>1. UNCHANGED <<token, conn, room, pc, reloaded, last, wasStored, staleSave, missedRow>>
  BY DEF Withdraw, WorkerSaves, sockets, history, stores, copies
<1>2. TypeOK'
  BY DEF GatewayInv, TypeOK, Withdraw, WorkerSaves, sockets, copies, history, stores, clients
<1>3. AttachedVerified' /\ WatchersMayWatch' /\ EventsAddressed' /\ SeenWasStored'
  BY <1>1, SocketsUnchanged, EventsUnchanged DEF sockets, StoresGrow
<1>4. ReportsByPhase'
  BY <1>1 DEF GatewayInv, ReportsByPhase, Phase, IsStored, At
<1>5. PositionWasStored'
  BY <1>1 DEF GatewayInv, PositionWasStored, Withdraw, WorkerSaves
<1> QED BY <1>2, <1>3, <1>4, <1>5 DEF GatewayInv

\* The invariant survives failures.
LEMMA FailureStep ==
  ASSUME GatewayInv, Crash \/ \E m \in Requests : StatementFails(m)
  PROVE  GatewayInv'
<1>0. TypeOK
  BY DEF GatewayInv
<1>1. UNCHANGED <<token, position, reloaded, last, wasStored, staleSave, missedRow>>
  BY DEF Crash, StatementFails, sockets, history, stores, rows, copies
<1>2. /\ pc' \in [Requests -> Labels]
      /\ \A n \in Requests : pc'[n] = pc[n] \/ pc'[n] = "refused"
  BY <1>0 DEF TypeOK, Crash, StatementFails, Goto, Labels
<1>3. /\ conn' \in [Sockets -> {"new", "verifying", "attached", "closed"}]
      /\ \A c \in Sockets : conn'[c] = "attached" => conn[c] = "attached"
      /\ room' = {} \/ UNCHANGED sockets
  BY <1>0 DEF TypeOK, Crash, StatementFails, sockets
<1>4. TypeOK'
  <2>1. room' \in SUBSET Sockets /\ faults' \in Nat
    BY <1>0, <1>3 DEF TypeOK, sockets, Crash, StatementFails, Fault
  <2>2. UNCHANGED <<order, courier, found, latest, asked, pipelined, joinedSince, overlapped>>
    BY DEF Crash, StatementFails, rows, copies, history, stores, clients
  <2> QED BY <1>0, <1>1, <1>2, <1>3, <2>1, <2>2 DEF TypeOK
<1>5. AttachedVerified' /\ WatchersMayWatch'
  BY <1>1, <1>3 DEF GatewayInv, AttachedVerified, WatchersMayWatch, MayWatch, sockets
<1>6. ReportsByPhase' /\ PositionWasStored'
  BY <1>1, <1>2 DEF GatewayInv, ReportsByPhase, Phase, IsStored, At, PositionWasStored
<1>7. EventsAddressed' /\ SeenWasStored'
  BY <1>1, EventsUnchanged DEF StoresGrow
<1> QED BY <1>4, <1>5, <1>6, <1>7 DEF GatewayInv

\* GatewayInv is inductive.
LEMMA InvStep == GatewayInv /\ [Next]_vars => GatewayInv'
<1> SUFFICES ASSUME GatewayInv, [Next]_vars PROVE GatewayInv'
  OBVIOUS
<1>1. CASE \E c \in Sockets : Connect(c) \/ Verify(c) \/ Disconnect(c)
  BY <1>1, ConnectionStep
<1>2. CASE \E m \in Messages : Tell(m)
  BY <1>2, RoomStep, ReportStep, EventStep DEF Tell
<1>3. CASE \E a \in Assignments : Assign(a)
  BY <1>3, AssignStep
<1>4. CASE \E h \in Handlers : Save(h)
  BY <1>4, ReloadStep, WriteStep DEF Save
<1>5. CASE Crash \/ \E m \in Requests : StatementFails(m)
  BY <1>5, FailureStep
<1>6. CASE Withdraw \/ \E u \in CourierUsers \union {Nobody} : WorkerSaves(u)
  BY <1>6, OrderStep
<1>7. CASE UNCHANGED vars
  <2>1. TypeOK' /\ AttachedVerified' /\ WatchersMayWatch' /\ PositionWasStored'
    BY <1>7 DEF GatewayInv, vars, TypeOK, AttachedVerified, WatchersMayWatch, MayWatch,
                PositionWasStored
  <2>2. ReportsByPhase' /\ EventsAddressed' /\ SeenWasStored'
    BY <1>7 DEF GatewayInv, vars, ReportsByPhase, Phase, IsStored, At, EventsAddressed, MayWatch,
                SeenWasStored
  <2> QED BY <2>1, <2>2 DEF GatewayInv
<1> QED BY <1>1, <1>2, <1>3, <1>4, <1>5, <1>6, <1>7 DEF Next, Done

\* GatewayInv holds throughout.
LEMMA InvAlways == Spec => []GatewayInv
BY InvAtStart, InvStep, PTL DEF Spec

\* Type correctness of the gateway.
THEOREM GatewayTypeCorrect == Spec => []TypeOK
<1>1. GatewayInv => TypeOK
  BY DEF GatewayInv
<1> QED BY <1>1, InvAlways, PTL

\* Whatever overtakes what, the room holds only sockets whose verified user is
\* of the staff or the order's customer.
THEOREM WatchersAllowed == Spec => []WatchersMayWatch
<1>1. GatewayInv => WatchersMayWatch
  BY DEF GatewayInv
<1> QED BY <1>1, InvAlways, PTL

\* A position reaches only those who may watch and the courier who reported it.
THEOREM EventsToWatchers == Spec => []EventsAddressed
<1>1. GatewayInv => EventsAddressed
  BY DEF GatewayInv
<1> QED BY <1>1, InvAlways, PTL

\* Both coordinates that a client is shown were in the row before, unless an update found the row
\* gone, and they were there together, unless a save was stale.
THEOREM SeenStored == Spec => []SeenWasStored
<1>1. GatewayInv => SeenWasStored
  BY DEF GatewayInv
<1> QED BY <1>1, InvAlways, PTL
-----------------------------------------------------------------------------
(***************************************************************************)
(* The members of the room are sent what is stored.                        *)
(***************************************************************************)

\* While no save was stale, an assignment that is going to update holds what it has selected, and
\* so the row keeps the position of the report that wrote it last.
RowOfLatest ==
  /\ latest # Nothing => position # Nothing
  /\ ~staleSave =>
       /\ \A a \in Assignments : pc[a] = "updating" => reloaded[a] = found[a]
       /\ latest # Nothing => position = At(latest)

\* While reports do not overlap, the one that is being sent wrote the row last, and that one is
\* either being sent, or has been, or its handler has failed.
EventPending ==
  ~overlapped =>
    /\ \A m, n \in Reports : InProgress(m) /\ InProgress(n) => m = n
    /\ \A m \in Reports : pc[m] = "emitting" => latest \in {m, Nothing}
    /\ latest # Nothing => \/ pc[latest] \in {"emitting", "refused"}
                           \/ pc[latest] = "done" /\ \A c \in room \ joinedSince : last[c] = latest

LEMMA RowOfLatestStep == GatewayInv /\ RowOfLatest /\ [Next]_vars => RowOfLatest'
<1> SUFFICES ASSUME GatewayInv, RowOfLatest, [Next]_vars PROVE RowOfLatest'
  OBVIOUS
<1> USE DEF RowOfLatest
<1>0. TypeOK
  BY DEF GatewayInv
<1>1. ASSUME UNCHANGED <<position, found, reloaded, latest, staleSave>>,
             \A a \in Assignments : pc'[a] = "updating" => pc[a] = "updating"
      PROVE  RowOfLatest'
  BY <1>1 DEF At
<1>2. CASE \E c \in Sockets : Connect(c) \/ Verify(c) \/ Disconnect(c)
  BY <1>1, <1>2 DEF Connect, Verify, Disconnect, rows, copies, history, stores
<1>3. ASSUME NEW m \in Messages, Tell(m) PROVE RowOfLatest'
  <2>1. \A a \in Assignments : pc'[a] = pc[a]
    BY <1>0, <1>3, Shapes DEF Tell, Subscribe, Join, Unsubscribe, Report, CheckReport, Emit, Goto, TypeOK
  <2>2. UNCHANGED <<position, found, reloaded, latest, staleSave>>
    BY <1>3 DEF Tell, Subscribe, Join, Unsubscribe, Report, CheckReport, Emit, rows, copies, history,
                stores
  <2> QED BY <1>1, <2>1, <2>2
<1>4. ASSUME NEW a \in Assignments, Assign(a) PROVE RowOfLatest'
  <2> USE <1>4 DEF Assign, ReadOrder, ReloadOrder, UpdateOrder, InsertOrder, FindTracking
  <2>1. pc'[a] # "updating" /\ \A b \in Assignments : b # a => pc'[b] = pc[b]
    BY <1>0, Shapes DEF Goto, TypeOK
  <2>2. UNCHANGED <<position, reloaded, latest, staleSave>>
        /\ \A b \in Assignments : b # a => found'[b] = found[b]
    BY <1>0 DEF rows, copies, history, stores, TypeOK
  <2> QED BY <2>1, <2>2 DEF At
<1>5. ASSUME NEW h \in Handlers, Reload(h) PROVE RowOfLatest'
  <2>1. /\ UNCHANGED <<position, found, latest>>
        /\ \A a \in Assignments : a # h => pc'[a] = pc[a] /\ reloaded'[a] = reloaded[a]
        /\ reloaded'[h] = position
        /\ staleSave' = (staleSave \/ (h \in Assignments /\ position # found[h]))
    BY <1>0, <1>5, Shapes DEF Reload, rows, Goto, TypeOK
  <2> QED BY <2>1 DEF At
<1>6. ASSUME NEW h \in Handlers, Update(h) PROVE RowOfLatest'
  <2>1. /\ \A a \in Assignments : a # h => /\ pc'[a] = pc[a] /\ reloaded'[a] = reloaded[a]
                                           /\ found'[a] = found[a]
        /\ pc'[h] # "updating" /\ pc[h] = "updating"
        /\ staleSave' = (staleSave \/ position # reloaded[h])
        /\ IF position = Nothing THEN UNCHANGED <<position, latest>>
           ELSE /\ position' = Merged(Entity(h), reloaded[h], position)
                /\ latest' = IF h \in Reports THEN h ELSE latest
    BY <1>0, <1>6, Shapes DEF Update, Store, Drop, AfterSave, Goto, TypeOK
  <2>2. Entity(h) \in Positions /\ (h \in Reports => Entity(h) = At(h))
    BY <1>0, EntityTyped
  <2>3. position' # Nothing \/ latest' = Nothing
    <3>1. ASSUME position # Nothing PROVE position' \in Positions
      <4>1. position \in Positions /\ reloaded[h] \in Positions
        BY <1>0, <2>1, <3>1, Shapes DEF GatewayInv, ReportsByPhase, Phase, TypeOK
      <4> QED BY <2>1, <2>2, <3>1, <4>1, MergedRow
    <3> QED BY <2>1, <3>1, Shapes
  <2>4. ASSUME ~staleSave', latest' # Nothing PROVE position' = At(latest)'
    <3>1. ~staleSave /\ position = reloaded[h] /\ position # Nothing
      BY <1>0, <2>1, <2>4 DEF TypeOK
    <3>2. position \in Positions /\ position' = Merged(Entity(h), position, position)
      BY <1>0, <2>1, <3>1 DEF TypeOK
    <3>3. position' = Entity(h)
      BY <2>2, <3>2, MergedRow
    <3>4. CASE h \in Reports
      BY <2>1, <2>2, <3>1, <3>3, <3>4 DEF At
    <3>5. CASE h \notin Reports
      <4>1. h \in Assignments /\ found[h] = position /\ latest' = latest
        BY <2>1, <3>1, <3>5, Shapes
      <4>2. position' = position
        BY <3>1, <3>3, <3>5, <4>1 DEF Entity
      <4> QED BY <2>4, <3>1, <4>1, <4>2 DEF At
    <3> QED BY <3>4, <3>5
  <2>5. ~staleSave' => \A a \in Assignments : pc'[a] = "updating" => reloaded'[a] = found'[a]
    BY <1>0, <2>1 DEF TypeOK
  <2> QED BY <2>3, <2>4, <2>5
<1>7. ASSUME NEW h \in Handlers, Insert(h) PROVE RowOfLatest'
  <2>1. /\ \A a \in Assignments : a # h => /\ pc'[a] = pc[a] /\ reloaded'[a] = reloaded[a]
                                           /\ found'[a] = found[a]
        /\ pc'[h] # "updating"
        /\ staleSave' = (staleSave \/ position # Nothing)
        /\ \/ position = Nothing /\ position' = Entity(h) /\ latest' = IF h \in Reports THEN h ELSE latest
           \/ UNCHANGED <<position, latest>>
    BY <1>0, <1>7, Shapes DEF Insert, Store, Drop, AfterSave, Goto, TypeOK
  <2>2. Entity(h) # Nothing /\ (h \in Reports => Entity(h) = At(h))
    BY <1>0, EntityTyped, Shapes
  <2>3. (latest' # Nothing => position' # Nothing) /\ (~staleSave' => ~staleSave)
    BY <1>0, <2>1, <2>2 DEF TypeOK
  <2>4. ~staleSave' /\ latest' # Nothing => position' = At(latest)'
    BY <2>1, <2>2, <2>3 DEF At
  <2> QED BY <2>1, <2>3, <2>4
<1>8. CASE Withdraw
  BY <1>8 DEF Withdraw, copies
<1>9. CASE Crash \/ (\E m \in Requests : StatementFails(m))
           \/ \E u \in CourierUsers \union {Nobody} : WorkerSaves(u)
  <2>1. UNCHANGED <<position, found, reloaded, latest, staleSave>>
    BY <1>9 DEF Crash, StatementFails, WorkerSaves, rows, copies, history, stores
  <2>2. \A a \in Assignments : pc'[a] = "updating" => pc[a] = "updating"
    BY <1>0, <1>9, Shapes DEF Crash, StatementFails, WorkerSaves, Goto, TypeOK
  <2> QED BY <1>1, <2>1, <2>2
<1>10. CASE UNCHANGED vars
  BY <1>1, <1>10 DEF vars
<1> QED BY <1>2, <1>3, <1>4, <1>5, <1>6, <1>7, <1>8, <1>9, <1>10 DEF Next, Save, Done

LEMMA EventPendingStep == GatewayInv /\ RowOfLatest /\ EventPending /\ [Next]_vars => EventPending'
<1> SUFFICES ASSUME GatewayInv, RowOfLatest, EventPending, [Next]_vars PROVE EventPending'
  OBVIOUS
<1> USE DEF EventPending, InProgress
<1>0. TypeOK /\ ReportsByPhase
  BY DEF GatewayInv
<1>1. ASSUME NEW c \in Sockets, Connect(c) \/ Verify(c) \/ Disconnect(c) PROVE EventPending'
  <2>1. UNCHANGED <<overlapped, latest, pc, last, joinedSince>> /\ room' \subseteq room
    BY <1>1 DEF Connect, Verify, Disconnect, Close, history, stores
  <2> QED BY <2>1
<1>2. ASSUME NEW m \in Messages, Subscribe(m) \/ Join(m) \/ Unsubscribe(m) PROVE EventPending'
  <2>1. /\ UNCHANGED <<overlapped, latest, last>>
        /\ room' \ joinedSince' \subseteq room \ joinedSince
    BY <1>2 DEF Subscribe, Join, Unsubscribe, sockets, stores
  <2>2. m \notin Reports /\ \A n \in Reports : pc'[n] = pc[n]
    BY <1>0, <1>2, Shapes DEF Subscribe, Join, Unsubscribe, Goto, TypeOK
  <2>3. latest # Nothing => latest \in Reports
    BY <1>0 DEF TypeOK
  <2> QED BY <2>1, <2>2, <2>3
<1>3. ASSUME NEW m \in Messages, Report(m) PROVE EventPending'
  <2>1. /\ m \in Reports /\ UNCHANGED <<room, latest, last, joinedSince>>
        /\ overlapped' = (overlapped \/ \E n \in Reports : InProgress(n))
    BY <1>3 DEF Report, sockets, stores
  <2>2. /\ pc[m] = "start" /\ pc'[m] # "emitting"
        /\ \A n \in Reports : n # m => pc'[n] = pc[n]
    BY <1>0, <1>3, Shapes DEF Report, Goto, TypeOK
  <2>3. latest # Nothing => latest \in Reports
    BY <1>0 DEF TypeOK
  <2> QED BY <2>1, <2>2, <2>3
<1>4. ASSUME NEW m \in Messages, CheckReport(m) PROVE EventPending'
  <2>1. m \in Reports /\ pc[m] = "checking" /\ UNCHANGED <<overlapped, room, latest, last, joinedSince>>
    BY <1>4 DEF CheckReport, sockets, history, stores
  <2>2. pc'[m] \in {"saving", "refused"} /\ \A n \in Reports : n # m => pc'[n] = pc[n]
    BY <1>0, <1>4, Shapes DEF CheckReport, Goto, TypeOK
  <2>3. latest # Nothing => latest \in Reports
    BY <1>0 DEF TypeOK
  <2> QED BY <2>1, <2>2, <2>3
<1>5. ASSUME NEW a \in Assignments, Assign(a) PROVE EventPending'
  <2> USE <1>5 DEF Assign, ReadOrder, ReloadOrder, UpdateOrder, InsertOrder, FindTracking
  <2>1. UNCHANGED <<overlapped, room, latest, last, joinedSince>>
    BY DEF sockets, history, stores
  <2>2. \A n \in Reports : pc'[n] = pc[n]
    BY <1>0, Shapes DEF Goto, TypeOK
  <2>3. latest # Nothing => latest \in Reports
    BY <1>0 DEF TypeOK
  <2> QED BY <2>1, <2>2, <2>3
<1>6. ASSUME NEW h \in Handlers, Save(h) PROVE EventPending'
  <2> USE <1>6 DEF Save
  <2>1. UNCHANGED <<overlapped, room, last, joinedSince>>
    BY DEF Reload, Update, Insert, sockets
  <2>2. \A n \in Reports : n # h => pc'[n] = pc[n]
    BY <1>0, Shapes DEF Reload, Update, Insert, AfterSave, Goto, TypeOK
  <2>3. latest # Nothing => latest \in Reports
    BY <1>0 DEF TypeOK
  <2>4. CASE h \notin Reports
    <3>1. latest' = latest
      BY <2>4 DEF Reload, Update, Insert, Store
    <3> QED BY <2>1, <2>2, <2>3, <2>4, <3>1
  <2>5. CASE h \in Reports
    <3>1. pc[h] \in {"saving", "updating", "inserting"}
      BY DEF Reload, Update, Insert
    <3>2. \/ pc'[h] \in {"updating", "inserting", "refused"} /\ latest' = latest
          \/ pc'[h] = "emitting" /\ latest' = h
          \/ pc'[h] = "emitting" /\ latest' = latest /\ position = Nothing
      BY <1>0, <2>5, Shapes DEF Reload, Update, Insert, Store, AfterSave, Goto, TypeOK
    <3>3. position = Nothing => latest = Nothing
      BY DEF RowOfLatest
    <3> QED BY <2>1, <2>2, <2>3, <2>5, <3>1, <3>2, <3>3
  <2> QED BY <2>4, <2>5
<1>7. ASSUME NEW m \in Messages, Emit(m) PROVE EventPending'
  <2>1. /\ m \in Reports /\ pc[m] = "emitting" /\ pc'[m] = "done"
        /\ UNCHANGED <<overlapped, room, latest>>
        /\ \A n \in Reports : n # m => pc'[n] = pc[n]
    BY <1>0, <1>7, Shapes DEF Emit, sockets, stores, Goto, TypeOK, ReportsByPhase, Phase
  <2>2. \A c \in room : last'[c] = m
    BY <1>0, <1>7 DEF Emit, Recipients, TypeOK
  <2> QED BY <2>1, <2>2
<1>8. CASE Withdraw \/ \E u \in CourierUsers \union {Nobody} : WorkerSaves(u)
  <2>1. UNCHANGED <<overlapped, room, pc, last, joinedSince>>
          /\ (latest' = latest \/ latest' = Nothing)
    BY <1>8 DEF Withdraw, WorkerSaves, sockets, history, stores
  <2> QED BY <2>1
<1>9. ASSUME NEW m \in Requests, StatementFails(m) PROVE EventPending'
  <2>1. /\ UNCHANGED <<overlapped, room, latest, last, joinedSince>>
        /\ InProgress(m) /\ pc'[m] = "refused"
        /\ \A n \in Requests : n # m => pc'[n] = pc[n]
    BY <1>0, <1>9 DEF StatementFails, sockets, history, stores, Goto, TypeOK
  <2>2. /\ Reports \subseteq Requests
        /\ latest # Nothing => latest \in Reports
    BY <1>0, Shapes DEF TypeOK
  <2> QED BY <2>1, <2>2
<1>10. CASE Crash
  <2>1. /\ UNCHANGED <<overlapped, latest, last, joinedSince>> /\ room' = {}
        /\ \A n \in Reports : pc'[n] = IF InProgress(n) THEN "refused" ELSE pc[n]
    BY <1>0, <1>10, Shapes DEF Crash, history, stores, TypeOK
  <2>2. latest # Nothing => latest \in Reports
    BY <1>0 DEF TypeOK
  <2> QED BY <2>1, <2>2
<1>11. CASE UNCHANGED vars
  BY <1>11 DEF vars
<1> QED BY <1>1, <1>2, <1>3, <1>4, <1>5, <1>6, <1>7, <1>8, <1>9, <1>10, <1>11 DEF Next, Tell, Done

\* The row has the position of the report that wrote it last, unless a save was stale; and while
\* reports do not overlap, whoever has been in the room since before the last event was sent that
\* report, once it is handled and no other is.
THEOREM WatchersInformed == Spec => []WatchersUpToDate
<1>1. Init => RowOfLatest /\ EventPending
  BY Shapes DEF Init, RowOfLatest, EventPending, InProgress
<1>2. RowOfLatest /\ EventPending => WatchersUpToDate
  BY DEF RowOfLatest, EventPending, WatchersUpToDate
<1> QED BY <1>1, <1>2, RowOfLatestStep, EventPendingStep, InvAlways, PTL DEF Spec
-----------------------------------------------------------------------------
(***************************************************************************)
(* Members of the room have asked to be there.                             *)
(***************************************************************************)

\* A request that is in progress is the last of its socket, unless another was sent before its
\* answer; and a subscription is only checked for a socket that is attached.
LastAsked ==
  /\ \A c \in Sockets : asked[c] # Nothing => SocketOf[asked[c]] = c
  /\ \A n \in RoomRequests :
       /\ InProgress(n) /\ SocketOf[n] \notin pipelined => asked[SocketOf[n]] = n
       /\ n \in Subscribes /\ pc[n] \in {"checking", "done"} =>
            conn[SocketOf[n]] \in {"attached", "closed"}
       /\ n \in Unsubscribes => ~InProgress(n)

RoomInv == LastAsked /\ RoomFollowsRequests

LEMMA RoomInvStep == GatewayInv /\ RoomInv /\ [Next]_vars => RoomInv'
<1> SUFFICES ASSUME GatewayInv, RoomInv, [Next]_vars PROVE RoomInv'
  OBVIOUS
<1> USE DEF RoomInv, LastAsked, RoomFollowsRequests, InProgress
<1>0. TypeOK /\ ReportsByPhase /\ WatchersMayWatch
  BY DEF GatewayInv
<1>1. ASSUME NEW c \in Sockets, Connect(c) \/ Verify(c) \/ Disconnect(c) PROVE RoomInv'
  <2>1. UNCHANGED <<asked, pipelined, pc>> /\ \A d \in Sockets \ {c} :
          conn'[d] = conn[d] /\ (d \in room' <=> d \in room)
    BY <1>0, <1>1 DEF Connect, Verify, Disconnect, Close, rows, history, clients, TypeOK
  <2>2. \/ conn[c] \notin {"attached", "closed"} /\ room' \subseteq room
        \/ conn'[c] = "closed"
    BY <1>0, <1>1 DEF Connect, Verify, Disconnect, Close, Open, TypeOK
  <2>3. conn[c] \in {"attached", "closed"} => conn'[c] \in {"attached", "closed"}
    BY <1>0, <1>1 DEF Connect, Verify, Disconnect, Close, TypeOK
  <2>4. conn[c] # "attached" => c \notin room
    BY <1>0 DEF WatchersMayWatch
  <2>5. LastAsked'
    BY <2>1, <2>3, Shapes DEF LastAsked
  <2>6. ASSUME conn'[c] = "attached", asked[c] # Nothing, pc[asked[c]] = "done", c \notin pipelined
        PROVE  c \in room' <=> asked[c] \in Subscribes
    <3>1. SocketOf[asked[c]] = c /\ asked[c] \in RoomRequests
      BY <1>0, <2>6 DEF TypeOK
    <3>2. c \notin room' /\ conn[c] \notin {"attached", "closed"}
      BY <2>2, <2>4, <2>6
    <3> QED BY <2>6, <3>1, <3>2
  <2> QED BY <2>1, <2>5, <2>6
<1>2. ASSUME NEW m \in Messages, Subscribe(m) PROVE RoomInv'
  <2> DEFINE c == SocketOf[m]
  <2>1. /\ m \in Subscribes /\ m \notin Unsubscribes /\ m \in RoomRequests /\ c \in Sockets
        /\ UNCHANGED <<conn, room>> /\ pc[m] = "start"
        /\ asked' = [asked EXCEPT ![c] = m]
        /\ pipelined' = IF \E n \in RoomRequests : SocketOf[n] = c /\ InProgress(n)
                          THEN pipelined \union {c} ELSE pipelined
        /\ pc' = [pc EXCEPT ![m] = IF conn[c] = "attached" THEN "checking" ELSE "anonymous"]
    BY <1>2, Shapes, GatewayAssumption DEF Subscribe, Asks, sockets, Goto
  <2>2. /\ m \in Requests /\ \A n \in Requests \ {m} : pc'[n] = pc[n]
        /\ pc'[m] = IF conn[c] = "attached" THEN "checking" ELSE "anonymous"
        /\ \A d \in Sockets \ {c} : asked'[d] = asked[d]
        /\ asked'[c] = m
    BY <1>0, <2>1, Shapes DEF TypeOK
  <2> HIDE DEF c
  <2>3. LastAsked'
    <3>1. \A n \in RoomRequests : InProgress(n)' /\ SocketOf[n] \notin pipelined' =>
            asked'[SocketOf[n]] = n
      BY <1>0, <2>1, <2>2, Shapes DEF c, TypeOK
    <3>2. \A n \in RoomRequests : n \in Unsubscribes => ~InProgress(n)'
      BY <2>1, <2>2, Shapes
    <3>3. \A n \in RoomRequests : n \in Subscribes /\ pc'[n] \in {"checking", "done"} =>
            conn'[SocketOf[n]] \in {"attached", "closed"}
      BY <2>1, <2>2, Shapes DEF c
    <3>4. \A d \in Sockets : asked'[d] # Nothing => SocketOf[asked'[d]] = d
      BY <2>1, <2>2 DEF c
    <3> QED BY <3>1, <3>2, <3>3, <3>4
  <2>4. \A d \in Sockets \ {c} : asked[d] # Nothing => asked[d] # m
    BY <2>1 DEF c
  <2>5. \A d \in Sockets : asked[d] # Nothing => asked[d] \in Requests
    BY <1>0, Shapes DEF TypeOK
  <2> QED BY <2>1, <2>2, <2>3, <2>4, <2>5
<1>3. ASSUME NEW m \in Messages, Unsubscribe(m) PROVE RoomInv'
  <2> DEFINE c == SocketOf[m]
  <2>1. /\ m \in Unsubscribes /\ m \notin Subscribes /\ m \in RoomRequests /\ c \in Sockets
        /\ conn' = conn /\ room' = room \ {c} /\ pc[m] = "start"
        /\ asked' = [asked EXCEPT ![c] = m]
        /\ pipelined' = IF \E n \in RoomRequests : SocketOf[n] = c /\ InProgress(n)
                          THEN pipelined \union {c} ELSE pipelined
        /\ pc' = [pc EXCEPT ![m] = "done"]
    BY <1>3, Shapes, GatewayAssumption DEF Unsubscribe, Asks, Goto
  <2>2. /\ \A n \in Requests \ {m} : pc'[n] = pc[n]
        /\ pc'[m] = "done"
        /\ \A d \in Sockets \ {c} : asked'[d] = asked[d]
        /\ asked'[c] = m
    BY <1>0, <2>1, Shapes DEF TypeOK
  <2> HIDE DEF c
  <2>3. LastAsked'
    <3>1. \A n \in RoomRequests : InProgress(n)' /\ SocketOf[n] \notin pipelined' =>
            asked'[SocketOf[n]] = n
      BY <1>0, <2>1, <2>2, Shapes DEF c, TypeOK
    <3>2. \A n \in RoomRequests : n \in Unsubscribes => ~InProgress(n)'
      BY <2>1, <2>2, Shapes
    <3>3. \A n \in RoomRequests : n \in Subscribes /\ pc'[n] \in {"checking", "done"} =>
            conn'[SocketOf[n]] \in {"attached", "closed"}
      BY <2>1, <2>2, Shapes DEF c
    <3>4. \A d \in Sockets : asked'[d] # Nothing => SocketOf[asked'[d]] = d
      BY <2>1, <2>2 DEF c
    <3> QED BY <3>1, <3>2, <3>3, <3>4
  <2>4. \A d \in Sockets \ {c} : asked[d] # Nothing => asked[d] # m
    BY <2>1 DEF c
  <2>5. \A d \in Sockets : asked[d] # Nothing => asked[d] \in Requests
    BY <1>0, Shapes DEF TypeOK
  <2> QED BY <2>1, <2>2, <2>3, <2>4, <2>5
<1>4. ASSUME NEW m \in Messages, Join(m) PROVE RoomInv'
  <2> DEFINE c == SocketOf[m]
  <2>1. /\ m \in Subscribes /\ m \notin Unsubscribes /\ m \in RoomRequests /\ c \in Sockets
        /\ UNCHANGED <<conn, asked, pipelined>> /\ InProgress(m)
        /\ \/ /\ pc[m] = "checking" /\ pc' = [pc EXCEPT ![m] = "done"]
              /\ room' = IF conn[c] = "attached" THEN room \union {c} ELSE room
           \/ pc' = [pc EXCEPT ![m] = "refused"] /\ room' = room
    BY <1>4, Shapes, GatewayAssumption DEF Join, clients, Goto
  <2>2. /\ \A n \in Requests \ {m} : pc'[n] = pc[n]
        /\ pc'[m] = "done" \/ pc'[m] = "refused"
        /\ pc'[m] = "done" => pc[m] = "checking" /\ (conn[c] = "attached" => c \in room')
        /\ \A d \in Sockets \ {c} : d \in room' <=> d \in room
    BY <1>0, <2>1, Shapes DEF TypeOK
  <2> HIDE DEF c
  <2>3. LastAsked'
    BY <2>1, <2>2, Shapes DEF c
  <2>4. c \notin pipelined => asked[c] = m
    BY <2>1 DEF c
  <2>5. \A d \in Sockets : asked[d] # Nothing => asked[d] \in Requests /\ SocketOf[asked[d]] = d
    BY <1>0, Shapes DEF TypeOK
  <2> QED BY <2>1, <2>2, <2>3, <2>4, <2>5 DEF c
<1>5. ASSUME \/ \E m \in Messages : Report(m) \/ CheckReport(m) \/ Emit(m)
             \/ \E a \in Assignments : Assign(a)
             \/ \E h \in Handlers : Save(h)
      PROVE  RoomInv'
  <2> USE DEF Assign, ReadOrder, ReloadOrder, UpdateOrder, InsertOrder, FindTracking, Save
  <2>1. UNCHANGED <<conn, room, asked, pipelined>>
    BY <1>5 DEF Report, CheckReport, Emit, Reload, Update, Insert, sockets, clients, history
  <2>2. \E m \in Handlers : \A n \in Requests : n # m => pc'[n] = pc[n]
    BY <1>0, <1>5, Shapes DEF Report, CheckReport, Emit, Reload, Update, Insert, AfterSave, Goto, TypeOK,
                              ReportsByPhase, Phase
  <2>3. \A n \in RoomRequests : pc'[n] = pc[n]
    BY <2>2, Shapes
  <2>4. \A d \in Sockets : asked[d] # Nothing => asked[d] \in RoomRequests
    BY <1>0 DEF TypeOK
  <2> QED BY <2>1, <2>3, <2>4
<1>6. ASSUME NEW m \in Requests, StatementFails(m) PROVE RoomInv'
  <2>1. /\ UNCHANGED <<conn, room, asked, pipelined>> /\ pc'[m] = "refused"
        /\ \A n \in Requests \ {m} : pc'[n] = pc[n]
    BY <1>0, <1>6 DEF StatementFails, sockets, history, clients, Goto, TypeOK
  <2>2. \A d \in Sockets : asked[d] # Nothing => asked[d] \in Requests
    BY <1>0, Shapes DEF TypeOK
  <2> QED BY <2>1, <2>2, Shapes
<1>7. CASE Withdraw \/ \E u \in CourierUsers \union {Nobody} : WorkerSaves(u)
  BY <1>7 DEF Withdraw, WorkerSaves, sockets, history, clients
<1>8. CASE Crash
  <2>1. /\ UNCHANGED <<asked, pipelined>>
        /\ \A c \in Sockets : conn'[c] # "attached"
        /\ \A c \in Sockets : conn[c] \in {"attached", "closed"} => conn'[c] = "closed"
        /\ \A n \in Requests : ~InProgress(n)' /\ (pc'[n] \in {"checking", "done"} => pc[n] = "done")
    BY <1>0, <1>8 DEF Crash, Open, history, clients, TypeOK
  <2> QED BY <2>1, Shapes
<1>9. CASE UNCHANGED vars
  BY <1>9 DEF vars
<1> QED BY <1>1, <1>2, <1>3, <1>4, <1>5, <1>6, <1>7, <1>8, <1>9 DEF Next, Tell, Done

\* Whose requests about the room were answered one by one is in it exactly if the last was a
\* subscription that was granted.
THEOREM RoomAsRequested == Spec => []RoomFollowsRequests
<1>1. Init => RoomInv
  BY Shapes DEF Init, RoomInv, LastAsked, RoomFollowsRequests, InProgress
<1>2. RoomInv => RoomFollowsRequests
  BY DEF RoomInv
<1> QED BY <1>1, <1>2, RoomInvStep, InvAlways, PTL DEF Spec
=============================================================================
