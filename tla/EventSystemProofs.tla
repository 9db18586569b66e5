-------------------------- MODULE EventSystemProofs --------------------------
(***************************************************************************)
(* Theorems about the event system, for any posters and registrars, types, *)
(* handlers and sizes of the queue and the table.                          *)
(***************************************************************************)
EXTENDS EventSystemProps, TLAPS

-----------------------------------------------------------------------------
(* The handler table.                                                      *)

\* In a table without duplicates the search finds the handler or tells that it is
\* not there.
LEMMA FindHandler ==
  ASSUME TypeOK, TableSound, NEW type, NEW handler
  PROVE  LET i == FindHandlerIndex(type, handler)
         IN  \/ i \in 1..Len(table)
             \/ i = 0 /\ \A j \in 1..Len(table) :
                           ~(table[j].type = type /\ table[j].handler = handler)
<1> DEFINE places == {j \in 1..Len(table) : table[j].type = type /\ table[j].handler = handler}
<1>1. CASE places = {}
  BY <1>1 DEF FindHandlerIndex
<1>2. CASE places # {}
  <2>1. PICK i \in places : TRUE
    BY <1>2
  <2>2. \A j \in places : i <= j
    BY <2>1 DEF TableSound, TypeOK
  <2>3. FindHandlerIndex(type, handler) \in places
    BY <1>2, <2>1, <2>2 DEF FindHandlerIndex
  <2>4. QED
    BY <2>3
<1>3. QED
  BY <1>1, <1>2

\* A registration keeps the table typed, bounded and free of duplicates.
LEMMA RegisterSound ==
  ASSUME TypeOK, TableSound, NEW type \in Types, NEW handler \in Handlers,
         Register(type, handler)
  PROVE  table' \in Seq(Entries) /\ TableSound'
<1> DEFINE entry == Enabled(type, handler)
<1>1. CASE table' = table
  BY <1>1 DEF TypeOK, TableSound
<1>2. CASE table' # table
  <2>1. /\ ~(FindHandlerIndex(type, handler) > 0)
        /\ Len(table) < MaxHandlers /\ table' = Append(table, entry)
    BY <1>2, EventAssumption DEF Register, TypeOK
  <2>2. \A j \in 1..Len(table) : ~(table[j].type = type /\ table[j].handler = handler)
    BY <2>1, FindHandler DEF TypeOK
  <2>3. entry \in Entries
    BY DEF Enabled, Entries
  <2>4. /\ table' \in Seq(Entries) /\ Len(table') = Len(table) + 1
        /\ \A j \in 1..Len(table) : table'[j] = table[j]
        /\ table'[Len(table) + 1] = entry
    BY <2>1, <2>3 DEF TypeOK
  <2>5. Len(table') <= MaxHandlers
    BY <2>1, <2>4, EventAssumption DEF TypeOK
  <2>6. \A i, j \in 1..Len(table') :
          table'[i].type = table'[j].type /\ table'[i].handler = table'[j].handler => i = j
    <3> SUFFICES ASSUME NEW i \in 1..Len(table'), NEW j \in 1..Len(table'),
                        table'[i].type = table'[j].type, table'[i].handler = table'[j].handler
                 PROVE  i = j
      OBVIOUS
    <3>1. Len(table) \in Nat
      BY DEF TypeOK
    <3>2. entry.type = type /\ entry.handler = handler
      BY DEF Enabled
    <3>3. CASE i \in 1..Len(table) /\ j \in 1..Len(table)
      BY <2>4, <3>3 DEF TableSound
    <3>4. CASE i = Len(table) + 1 \/ j = Len(table) + 1
      <4> HIDE DEF entry
      <4>1. QED
        BY <2>2, <2>4, <3>1, <3>2, <3>4
    <3>5. QED
      BY <2>4, <3>1, <3>3, <3>4
  <2>7. QED
    BY <2>4, <2>5, <2>6 DEF TableSound
<1>3. QED
  BY <1>1, <1>2

\* Removing an element moves those behind it down by one place.
LEMMA RemoveAtMoves ==
  ASSUME NEW S, NEW s \in Seq(S), NEW i \in 1..Len(s)
  PROVE  /\ RemoveAt(s, i) \in Seq(S) /\ Len(RemoveAt(s, i)) = Len(s) - 1
         /\ \A j \in 1..(Len(s) - 1) : RemoveAt(s, i)[j] = s[IF j < i THEN j ELSE j + 1]
<1> DEFINE front == SubSeq(s, 1, i - 1)
           back  == SubSeq(s, i + 1, Len(s))
<1>1. /\ front \in Seq(S) /\ Len(front) = i - 1
      /\ \A j \in 1..(i - 1) : front[j] = s[j]
  OBVIOUS
<1>2. /\ back \in Seq(S) /\ Len(back) = Len(s) - i
      /\ \A j \in 1..(Len(s) - i) : back[j] = s[i + j]
  OBVIOUS
<1>3. RemoveAt(s, i) = front \o back
  BY DEF RemoveAt
<1>4. Len(s) \in Nat /\ Len(front) = i - 1 /\ Len(back) = Len(s) - i
  BY <1>1, <1>2
<1> HIDE DEF front, back
<1>5. RemoveAt(s, i) \in Seq(S) /\ Len(RemoveAt(s, i)) = Len(s) - 1
  <2>1. front \in Seq(S) /\ back \in Seq(S)
    BY <1>1, <1>2
  <2>2. front \o back \in Seq(S) /\ Len(front \o back) = Len(front) + Len(back)
    BY <2>1
  <2>3. QED
    BY <1>3, <1>4, <2>2
<1>6. ASSUME NEW j \in 1..(Len(s) - 1)
      PROVE  RemoveAt(s, i)[j] = s[IF j < i THEN j ELSE j + 1]
  <2>1. CASE j < i
    BY <1>1, <1>2, <1>3, <1>4, <2>1
  <2>2. CASE j >= i
    <3>1. j - (i - 1) \in 1..(Len(s) - i) /\ i + (j - (i - 1)) = j + 1
      BY <1>4, <2>2
    <3>2. RemoveAt(s, i)[j] = back[j - (i - 1)]
      BY <1>1, <1>2, <1>3, <1>4, <2>2
    <3>3. back[j - (i - 1)] = s[j + 1]
      BY <1>2, <3>1
    <3>4. QED
      BY <2>2, <3>2, <3>3
  <2>3. QED
    BY <1>4, <2>1, <2>2
<1>7. QED
  BY <1>5, <1>6

\* So does an unregistration.
LEMMA UnregisterSound ==
  ASSUME TypeOK, TableSound, NEW type, NEW handler, Unregister(type, handler)
  PROVE  table' \in Seq(Entries) /\ TableSound'
<1> DEFINE i == FindHandlerIndex(type, handler)
           moved(j) == IF j < i THEN j ELSE j + 1
<1>1. CASE i = 0
  BY <1>1 DEF Unregister, TypeOK, TableSound
<1>2. CASE i \in 1..Len(table)
  <2> HIDE DEF i
  <2>1. table' = RemoveAt(table, i)
    BY <1>2 DEF Unregister, TypeOK, i
  <2>2. /\ table' \in Seq(Entries) /\ Len(table') = Len(table) - 1
        /\ \A j \in 1..Len(table') : table'[j] = table[moved(j)]
    BY <1>2, <2>1, RemoveAtMoves DEF TypeOK
  <2>3. Len(table') <= MaxHandlers
    BY <2>2, EventAssumption DEF TypeOK, TableSound
  <2>4. Len(table) \in Nat
    BY DEF TypeOK
  <2>5. \A j \in 1..Len(table') : moved(j) \in 1..Len(table)
    BY <1>2, <2>2, <2>4
  <2>6. \A j, k \in 1..Len(table') : moved(j) = moved(k) => j = k
    BY <1>2, <2>2, <2>4
  <2>7. \A j, k \in 1..Len(table') :
          table'[j].type = table'[k].type /\ table'[j].handler = table'[k].handler => j = k
    <3> SUFFICES ASSUME NEW j \in 1..Len(table'), NEW k \in 1..Len(table'),
                        table'[j].type = table'[k].type, table'[j].handler = table'[k].handler
                 PROVE  j = k
      OBVIOUS
    <3> HIDE DEF moved
    <3>1. table'[j] = table[moved(j)] /\ table'[k] = table[moved(k)]
      BY <2>2
    <3>2. moved(j) = moved(k)
      BY <2>5, <3>1 DEF TableSound
    <3>3. QED
      BY <2>6, <3>2
  <2>8. QED
    BY <2>2, <2>3, <2>7 DEF TableSound
<1>3. QED
  BY <1>1, <1>2, FindHandler

\* Enabling and disabling changes one flag.
LEMMA EnableSound ==
  ASSUME TypeOK, TableSound, NEW type, NEW handler, NEW on \in BOOLEAN,
         Enable(type, handler, on)
  PROVE  table' \in Seq(Entries) /\ TableSound'
<1> DEFINE i == FindHandlerIndex(type, handler)
<1>1. CASE i = 0
  BY <1>1 DEF Enable, TypeOK, TableSound
<1>2. CASE i \in 1..Len(table)
  <2>1. table' = [table EXCEPT ![i] = [table[i] EXCEPT !.enabled = on]]
    BY <1>2 DEF Enable
  <2>2. \A j \in 1..Len(table) : table[j] \in Entries
    BY DEF TypeOK
  <2>3. [table[i] EXCEPT !.enabled = on] \in Entries
    BY <1>2, <2>2 DEF Entries
  <2>4. /\ table' \in Seq(Entries) /\ Len(table') = Len(table)
        /\ \A j \in 1..Len(table) : table'[j].type = table[j].type
                                    /\ table'[j].handler = table[j].handler
    BY <1>2, <2>1, <2>2, <2>3 DEF TypeOK, Entries
  <2>5. QED
    BY <2>4 DEF TableSound
<1>3. QED
  BY <1>1, <1>2, FindHandler

\* Whatever a registrar does to the table keeps it sound.
LEMMA ChangeSound ==
  ASSUME TypeOK, TableSound, NEW c \in Registrars, ChangeEnd(c)
  PROVE  table' \in Seq(Entries) /\ TableSound'
<1>1. request[c] \in Changes
  BY DEF ChangeEnd, TypeOK
<1>2. request[c].type \in Types /\ request[c].handler \in Handlers
  BY <1>1 DEF Changes
<1>3. \/ Register(request[c].type, request[c].handler)
      \/ Unregister(request[c].type, request[c].handler)
      \/ \E on \in BOOLEAN : Enable(request[c].type, request[c].handler, on)
  BY DEF ChangeEnd
<1>4. QED
  BY <1>2, <1>3, RegisterSound, UnregisterSound, EnableSound

-----------------------------------------------------------------------------
(* Types.                                                                  *)

LEMMA CallTyped ==
  ASSUME TypeOK, NEW k \in 1..Len(table)
  PROVE  <<k, table[k].handler>> \in Calls
<1>1. table[k] \in Entries /\ Len(table) \in Nat
  BY DEF TypeOK
<1>2. table[k].handler \in Handlers /\ k \in Nat
  BY <1>1 DEF Entries
<1>3. QED
  BY <1>2 DEF Calls

LEMMA HandlersFromTyped ==
  ASSUME TypeOK, NEW type
  PROVE  HandlersFrom(1, type) \subseteq Calls
BY CallTyped DEF HandlersFrom

LEMMA StepKeepsTypes ==
  ASSUME IndInv, [Next]_vars
  PROVE  TypeOK'
<1> USE DEF IndInv, system, posters, registrars, dispatch
<1>1. CASE InitCreate
  BY <1>1 DEF InitCreate, TypeOK
<1>2. CASE InitRegister
  <2>1. PICK d \in Types \X Handlers : Register(d[1], d[2])
    BY <1>2, EventAssumption DEF InitRegister, TypeOK
  <2>2. table' \in Seq(Entries)
    BY <2>1, RegisterSound
  <2>3. QED
    BY <1>2, <2>2 DEF InitRegister, TypeOK
<1>3. CASE InitRun \/ MainNormal \/ RequestShutdown \/ CleanupStop
  BY <1>3 DEF InitRun, MainNormal, RequestShutdown, CleanupStop, TypeOK
<1>4. CASE CleanupDelete
  BY <1>4 DEF CleanupDelete, TypeOK
<1>5. CASE MainPostsBoot
  <2>1. [type |-> "BOOT", id |-> posts] \in EventsOf
    BY EventAssumption DEF TypeOK, EventsOf
  <2>2. queue' \in Seq(EventsOf) /\ Len(queue') <= QueueSize
    BY <1>5, <2>1, EventAssumption DEF MainPostsBoot, TypeOK
  <2>3. QED
    BY <1>5, <2>2 DEF MainPostsBoot, TypeOK
<1>6. ASSUME NEW p \in Posters, NEW type \in Types, Post(p, type)
      PROVE  TypeOK'
  BY <1>6 DEF Post, TypeOK, EventsOf
<1>7. ASSUME NEW p \in Posters, PostSend(p)
      PROVE  TypeOK'
  <2>1. posting[p] \in EventsOf
    BY <1>7 DEF PostSend, TypeOK
  <2>2. queue' \in Seq(EventsOf) /\ Len(queue') <= QueueSize
    BY <1>7, <2>1, EventAssumption DEF PostSend, TypeOK
  <2>3. QED
    BY <1>7, <2>2 DEF PostSend, TypeOK
<1>8. ASSUME NEW p \in Posters, PostDrop(p)
      PROVE  TypeOK'
  BY <1>8 DEF PostDrop, TypeOK
<1>9. ASSUME NEW c \in Registrars, NEW change \in Changes, ChangeBegin(c, change)
      PROVE  TypeOK'
  BY <1>9 DEF ChangeBegin, TypeOK
<1>10. ASSUME NEW c \in Registrars, ChangeEnd(c)
      PROVE  TypeOK'
  <2>1. table' \in Seq(Entries)
    BY <1>10, ChangeSound
  <2>2. QED
    BY <1>10, <2>1 DEF ChangeEnd, TypeOK
<1>11. CASE TaskLoop \/ TaskReceiveNothing \/ TaskSkip \/ TaskDone \/ TaskCheck
  BY <1>11 DEF TaskLoop, TaskReceiveNothing, TaskSkip, TaskDone, TaskCheck, TypeOK
<1>12. CASE TaskReceive
  <2>1. /\ Head(queue) \in EventsOf /\ Tail(queue) \in Seq(EventsOf)
        /\ Len(Tail(queue)) <= QueueSize
    BY <1>12, EventAssumption DEF TaskReceive, TypeOK
  <2>2. QED
    BY <1>12, <2>1 DEF TaskReceive, TypeOK
<1>13. CASE TaskLock
  <2>1. HandlersFrom(1, event.type) \subseteq Calls
    BY HandlersFromTyped
  <2>2. QED
    BY <1>13, <2>1 DEF TaskLock, TypeOK
<1>14. CASE TaskCall
  <2>1. <<index, table[index].handler>> \in Calls
    <3>1. index \in 1..Len(table)
      BY <1>14 DEF TaskCall, TypeOK
    <3>2. QED
      BY <3>1, CallTyped
  <2>2. called' \subseteq Calls /\ index' \in Nat \ {0}
    <3>1. called' = called \/ called' = called \union {<<index, table[index].handler>>}
      BY <1>14 DEF TaskCall
    <3>2. index' = index + 1
      BY <1>14 DEF TaskCall
    <3>3. called' \subseteq Calls
      BY <2>1, <3>1 DEF TypeOK
    <3>4. index' \in Nat \ {0}
      BY <3>2 DEF TypeOK
    <3>5. QED
      BY <3>3, <3>4
  <2>3. sysState' \in {"BOOT", "INITIALIZING", "NORMAL"}
    BY <1>14 DEF TaskCall, TypeOK
  <2>4. QED
    BY <1>14, <2>2, <2>3 DEF TaskCall, TypeOK
<1>15. CASE UNCHANGED vars
  BY <1>15 DEF vars, TypeOK
<1>16. QED
  BY <1>1, <1>2, <1>3, <1>4, <1>5, <1>6, <1>7, <1>8, <1>9, <1>10, <1>11, <1>12, <1>13,
     <1>14, <1>15 DEF Next, MainStep, TaskStep

-----------------------------------------------------------------------------
(* The mutex, the table and the dispatch.                                  *)

LEMMA StepKeepsLock ==
  ASSUME IndInv, [Next]_vars
  PROVE  Locked' /\ InitAlone'
<1> USE EventAssumption DEF IndInv, Locked, InitAlone, TypeOK, system, posters, registrars
<1>1. CASE InitCreate \/ InitRegister
  BY <1>1 DEF InitCreate, InitRegister
<1>2. CASE InitRun \/ MainNormal \/ MainPostsBoot \/ RequestShutdown \/ CleanupStop
  BY <1>2 DEF InitRun, MainNormal, MainPostsBoot, RequestShutdown, CleanupStop
<1>3. CASE CleanupDelete
  BY <1>3 DEF CleanupDelete
<1>4. ASSUME NEW p \in Posters, PostSend(p) \/ PostDrop(p) \/ \E type \in Types : Post(p, type)
      PROVE  Locked' /\ InitAlone'
  BY <1>4 DEF PostSend, PostDrop, Post
<1>5. ASSUME NEW c \in Registrars, NEW change \in Changes, ChangeBegin(c, change)
      PROVE  Locked' /\ InitAlone'
  <2>1. change # NoChange
    BY DEF Changes, NoChange
  <2>2. /\ owner = NoOne /\ owner' = c /\ main = "loop" /\ main' = main /\ task' = task
        /\ request' = [request EXCEPT ![c] = change]
    BY <1>5 DEF ChangeBegin
  <2>3. \A d \in Registrars : request'[d] # NoChange <=> owner' = d
    BY <2>1, <2>2
  <2>4. QED
    BY <2>2, <2>3
<1>6. ASSUME NEW c \in Registrars, ChangeEnd(c)
      PROVE  Locked' /\ InitAlone'
  <2>1. /\ owner = c /\ owner' = NoOne /\ main' = main /\ task' = task /\ running' = running
        /\ request' = [request EXCEPT ![c] = NoChange]
    BY <1>6 DEF ChangeEnd
  <2>2. \A d \in Registrars : request'[d] # NoChange <=> owner' = d
    BY <2>1
  <2>3. QED
    BY <2>1, <2>2
<1>7. CASE TaskLoop \/ TaskReceive \/ TaskReceiveNothing \/ TaskSkip \/ TaskCheck
  BY <1>7 DEF TaskLoop, TaskReceive, TaskReceiveNothing, TaskSkip, TaskCheck
<1>8. CASE TaskLock \/ TaskCall \/ TaskDone
  BY <1>8 DEF TaskLock, TaskCall, TaskDone
<1>9. CASE UNCHANGED vars
  BY <1>9 DEF vars
<1>10. QED
  BY <1>1, <1>2, <1>3, <1>4, <1>5, <1>6, <1>7, <1>8, <1>9 DEF Next, MainStep, TaskStep

LEMMA StepKeepsTable ==
  ASSUME IndInv, [Next]_vars
  PROVE  TableSound'
<1> USE DEF IndInv
<1>1. CASE InitCreate \/ CleanupDelete
  <2>1. table' = << >>
    BY <1>1 DEF InitCreate, CleanupDelete
  <2>2. QED
    BY <2>1, EventAssumption DEF TableSound
<1>2. CASE InitRegister
  <2>1. PICK d \in Types \X Handlers : Register(d[1], d[2])
    BY <1>2, EventAssumption DEF InitRegister, TypeOK
  <2>2. QED
    BY <2>1, RegisterSound
<1>3. ASSUME NEW c \in Registrars, ChangeEnd(c)
      PROVE  TableSound'
  BY <1>3, ChangeSound
<1>4. CASE UNCHANGED table
  BY <1>4 DEF TableSound
<1>5. QED
  BY <1>1, <1>2, <1>3, <1>4
     DEF Next, MainStep, TaskStep, InitRun, MainNormal, MainPostsBoot, RequestShutdown,
         CleanupStop, PostSend, PostDrop, Post, ChangeBegin, TaskLoop, TaskReceive,
         TaskReceiveNothing, TaskLock, TaskSkip, TaskCall, TaskDone, TaskCheck, vars

\* One place further, the handlers still to be called are those left but the one that
\* was called.
LEMMA HandlersFromNext ==
  ASSUME TypeOK, index \in 1..Len(table), NEW type
  PROVE  HandlersFrom(index, type) =
           HandlersFrom(index + 1, type) \union
             (IF table[index].type = type /\ table[index].enabled
              THEN {<<index, table[index].handler>>} ELSE {})
<1>1. index..Len(table) = {index} \union (index + 1)..Len(table)
  BY DEF TypeOK
<1>2. QED
  BY <1>1 DEF HandlersFrom

LEMMA StepKeepsDispatch ==
  ASSUME IndInv, [Next]_vars
  PROVE  DispatchExact'
<1> USE DEF IndInv
<1>1. CASE TaskLock
  <2>1. called' = {} /\ index' = 1 /\ due' = HandlersFrom(1, event.type)
        /\ table' = table /\ event' = event
    BY <1>1 DEF TaskLock
  <2>2. HandlersFrom(1, event.type)' = HandlersFrom(1, event.type)
    BY <2>1 DEF HandlersFrom
  <2>3. QED
    BY <2>1, <2>2 DEF DispatchExact, HandlersFrom
<1>2. CASE TaskCall
  <2>1. /\ task = "call" /\ index \in 1..Len(table) /\ index' = index + 1
        /\ table' = table /\ event' = event /\ due' = due
    BY <1>2 DEF TaskCall, TypeOK
  <2>2. called' = called \union
                    (IF table[index].type = event.type /\ table[index].enabled
                     THEN {<<index, table[index].handler>>} ELSE {})
    BY <1>2 DEF TaskCall
  <2>3. HandlersFrom(index, event.type)' = HandlersFrom(index + 1, event.type)
    BY <2>1 DEF HandlersFrom
  <2>4. called \union HandlersFrom(index, event.type) = due
    BY <2>1 DEF DispatchExact
  <2>5. called' \union HandlersFrom(index + 1, event.type) = due'
    BY <2>1, <2>2, <2>4, HandlersFromNext
  <2>6. QED
    BY <2>3, <2>5 DEF DispatchExact
<1>3. CASE UNCHANGED <<task, table, event, index, called, due>>
  BY <1>3 DEF DispatchExact, HandlersFrom
<1>4. CASE task' # "call"
  BY <1>4 DEF DispatchExact
<1>5. ASSUME NEW c \in Registrars, ChangeEnd(c)
      PROVE  task' # "call"
  <2>1. owner = c /\ task' = task
    BY <1>5 DEF ChangeEnd, Locked
  <2>2. QED
    BY <2>1, EventAssumption DEF Locked
<1>6. ASSUME InitCreate \/ InitRegister
      PROVE  task' # "call"
  BY <1>6 DEF InitCreate, InitRegister, InitAlone
<1>7. ASSUME CleanupDelete \/ TaskLoop \/ TaskReceive \/ TaskReceiveNothing \/ TaskSkip
             \/ TaskDone \/ TaskCheck
      PROVE  task' # "call"
  BY <1>7 DEF CleanupDelete, TaskLoop, TaskReceive, TaskReceiveNothing, TaskSkip,
              TaskDone, TaskCheck
<1>8. QED
  BY <1>1, <1>2, <1>3, <1>4, <1>5, <1>6, <1>7
     DEF Next, MainStep, TaskStep, InitRun, MainNormal, MainPostsBoot, RequestShutdown,
         CleanupStop, PostSend, PostDrop, Post, ChangeBegin, vars, dispatch

-----------------------------------------------------------------------------
(* The theorems.                                                           *)

LEMMA InitHolds == Init => IndInv
<1> SUFFICES ASSUME Init PROVE IndInv
  OBVIOUS
<1>1. TypeOK
  <2>1. table \in Seq(Entries) /\ queue \in Seq(EventsOf) /\ Len(queue) <= QueueSize
    BY EventAssumption DEF Init
  <2>2. event \in EventsOf
    BY EventAssumption DEF Init, EventsOf
  <2>3. /\ posting \in [Posters -> EventsOf \union {NoEvent}]
        /\ request \in [Registrars -> Changes \union {NoChange}]
    BY DEF Init
  <2>4. called \subseteq Calls /\ due \subseteq Calls /\ index \in Nat \ {0} /\ posts \in Nat
        /\ changes \in Nat
    BY DEF Init
  <2>5. owner \in Registrars \union {NoOne, Task}
    BY DEF Init
  <2>6. QED
    BY <2>1, <2>2, <2>3, <2>4, <2>5 DEF Init, TypeOK
<1>2. Locked /\ InitAlone
  BY EventAssumption DEF Init, Locked, InitAlone
<1>3. TableSound /\ DispatchExact
  BY EventAssumption DEF Init, TableSound, DispatchExact
<1>4. QED
  BY <1>1, <1>2, <1>3 DEF IndInv

\* The inductive invariant holds in every reachable state: the table changes only in
\* the hands of the one that has handler_mutex.
THEOREM EventInvariance == Spec => []IndInv
<1>1. IndInv /\ [Next]_vars => IndInv'
  BY StepKeepsTypes, StepKeepsLock, StepKeepsTable, StepKeepsDispatch DEF IndInv
<1>2. QED
  BY <1>1, InitHolds, PTL DEF Spec

\* Every variable stays in its type, and the queue within its length.
THEOREM EventTypeCorrect == Spec => []TypeOK
<1>1. IndInv => TypeOK
  BY DEF IndInv
<1>2. QED
  BY <1>1, EventInvariance, PTL

\* The table never overflows and never holds a handler twice for a type.
THEOREM TableIsSound == Spec => []TableSound
<1>1. IndInv => TableSound
  BY DEF IndInv
<1>2. QED
  BY <1>1, EventInvariance, PTL

\* An event is given to exactly the handlers registered for it when its turn came,
\* each from the place it had then.
THEOREM DispatchIsExact == Spec => []DispatchExact
<1>1. IndInv => DispatchExact
  BY DEF IndInv
<1>2. QED
  BY <1>1, EventInvariance, PTL
=============================================================================
