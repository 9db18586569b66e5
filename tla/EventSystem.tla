----------------------------- MODULE EventSystem -----------------------------
(***************************************************************************)
(* The event system of main/utils/event_system.c with the parts of         *)
(* main/main.c that bring it up, use it and take it down.                  *)
(*                                                                         *)
(* Events go through a queue to one handler task, which calls the handlers *)
(* registered for them, in the order of the table, with handler_mutex      *)
(* held.  The main task runs on core 0 and the handler task on core 1, so  *)
(* the first look of the task at event_system_running interleaves with the *)
(* initialisation that has created it.                                     *)
(*                                                                         *)
(* A wait may time out whenever what it waits for is not there; times are  *)
(* otherwise left out.  An event is its type and its number in the order   *)
(* of the calls.  Handlers are functions; the one for the boot event sets  *)
(* the system state and the others keep statistics, which are left out, as *)
(* are the call counts of the table.                                       *)
(***************************************************************************)
EXTENDS Naturals, Sequences, SequencesExt

CONSTANTS
  Posters,      \* tasks that call event_system_post
  Registrars,   \* tasks that register, unregister, enable and disable handlers
  Types,        \* event types, "BOOT" among them
  Handlers,     \* handler functions, "handle_system_boot" among them
  Defaults,     \* the registrations that event_system_init makes, in order
  QueueSize,    \* the length of event_queue
  MaxHandlers,  \* MAX_EVENT_HANDLERS
  MaxPosts,     \* how many events are posted (bounds the model)
  MaxChanges,   \* how often the table is changed (bounds the model)
  NoOne,        \* the owner of a free mutex
  Task          \* the event handler task

Entries == [type : Types, handler : Handlers, enabled : BOOLEAN]
EventsOf == [type : Types, id : Nat]
Calls == Nat \X Handlers   \* a place in the table and the handler called from it

Enabled(type, handler) == [type |-> type, handler |-> handler, enabled |-> TRUE]

ASSUME EventAssumption ==
  /\ "BOOT" \in Types /\ "handle_system_boot" \in Handlers
  /\ Defaults \in Seq(Types \X Handlers) /\ Len(Defaults) <= MaxHandlers
  /\ QueueSize \in Nat \ {0} /\ MaxHandlers \in Nat
  /\ MaxPosts \in Nat /\ MaxChanges \in Nat
  /\ NoOne \notin Registrars \union {Task} /\ Task \notin Registrars

VARIABLES
  running,   \* event_system_running
  shutdown,  \* g_smartjet.shutdown_requested
  main,      \* where app_main is
  sysState,  \* g_smartjet.system.current_state
  table,     \* event_handlers[0 .. handler_count - 1]
  owner,     \* who holds handler_mutex
  queue,     \* event_queue
  posting,   \* the event that each poster is about to send, or none
  posts,     \* events posted so far
  changes,   \* changes of the table so far
  request,   \* what each registrar is about to do to the table
  task,      \* where the handler task is
  event,     \* the event it has taken from the queue
  index,     \* its place in the table, from 1
  called,    \* history: the handlers called for this event
  due        \* history: those that were registered for it when its turn came

system     == <<shutdown, main, sysState>>
posters    == <<posting, posts>>
registrars == <<changes, request>>
dispatch   == <<event, index, called, due>>
vars == <<running, system, table, owner, queue, posters, registrars, task, dispatch>>

Changes == [op : {"register", "unregister", "enable", "disable"}, type : Types, handler : Handlers]

\* What an idle poster posts and an idle registrar changes.
NoEvent  == [type |-> "none", id |-> 0]
NoChange == [op |-> "none", type |-> "none", handler |-> "none"]

TypeOK ==
  /\ running \in BOOLEAN /\ shutdown \in BOOLEAN
  /\ main \in {"off", "register", "up", "boot", "loop", "stopped", "down"}
  /\ sysState \in {"BOOT", "INITIALIZING", "NORMAL"}
  /\ table \in Seq(Entries)
  /\ owner \in Registrars \union {NoOne, Task}
  /\ queue \in Seq(EventsOf) /\ Len(queue) <= QueueSize
  /\ posting \in [Posters -> EventsOf \union {NoEvent}]
  /\ posts \in Nat /\ changes \in Nat
  /\ request \in [Registrars -> Changes \union {NoChange}]
  /\ task \in {"none", "loop", "wait", "lock", "call", "check", "exited", "deleted"}
  /\ event \in EventsOf
  /\ index \in Nat \ {0}
  /\ called \subseteq Calls /\ due \subseteq Calls

Init ==
  /\ running = FALSE /\ shutdown = FALSE /\ main = "off" /\ sysState = "BOOT"
  /\ table = <<>> /\ owner = NoOne /\ queue = <<>>
  /\ posting = [p \in Posters |-> NoEvent] /\ posts = 0
  /\ changes = 0 /\ request = [c \in Registrars |-> NoChange]
  /\ task = "none"
  /\ event = [type |-> "BOOT", id |-> 0] /\ index = 1 /\ called = {} /\ due = {}

-----------------------------------------------------------------------------
(* The handler table.                                                      *)

\* find_handler_index: a place in the table, or 0.
FindHandlerIndex(type, handler) ==
  LET places == {i \in 1..Len(table) : table[i].type = type /\ table[i].handler = handler}
  IN  IF places = {} THEN 0 ELSE CHOOSE i \in places : \A j \in places : i <= j

\* A faulty variant of the next definition (see Faulty variants below): it does not
\* look for the handler first.
RegisterTwice(type, handler) ==
  table' = IF Len(table) >= MaxHandlers THEN table
           ELSE Append(table, Enabled(type, handler))

Register(type, handler) ==
  table' = IF FindHandlerIndex(type, handler) > 0 \/ Len(table) >= MaxHandlers THEN table
           ELSE Append(table, Enabled(type, handler))

Unregister(type, handler) ==
  LET i == FindHandlerIndex(type, handler)
  IN  table' = IF i = 0 THEN table ELSE RemoveAt(table, i)

Enable(type, handler, on) ==
  LET i == FindHandlerIndex(type, handler)
  IN  table' = IF i = 0 THEN table ELSE [table EXCEPT ![i].enabled = on]

\* The handlers registered for a type from place i on, each with its place.
HandlersFrom(i, type) ==
  {<<k, table[k].handler>> :
     k \in {j \in i..Len(table) : table[j].type = type /\ table[j].enabled}}

-----------------------------------------------------------------------------
(* The main task.                                                          *)

\* event_system_init up to the creation of the handler task.
InitCreate ==
  /\ main = "off"
  /\ table' = <<>> /\ task' = "loop"
  /\ main' = "register"
  /\ UNCHANGED <<running, shutdown, sysState, owner, queue, posters, registrars, dispatch>>

InitRegister ==
  /\ main = "register" /\ Len(table) < Len(Defaults)
  /\ LET d == Defaults[Len(table) + 1] IN Register(d[1], d[2])
  /\ UNCHANGED <<running, system, owner, queue, posters, registrars, task, dispatch>>

InitRun ==
  /\ main = "register" /\ Len(table) = Len(Defaults)
  /\ running' = TRUE /\ main' = "up"
  /\ UNCHANGED <<shutdown, sysState, table, owner, queue, posters, registrars, task, dispatch>>

\* app_main, the other modules up: the state is set, then the boot event posted.
MainNormal ==
  /\ main = "up"
  /\ sysState' = "NORMAL" /\ main' = "boot"
  /\ UNCHANGED <<running, shutdown, table, owner, queue, posters, registrars, task, dispatch>>

MainPostsBoot ==
  /\ main = "boot"
  /\ queue' = IF Len(queue) < QueueSize THEN Append(queue, [type |-> "BOOT", id |-> posts])
              ELSE queue
  /\ posts' = posts + 1 /\ main' = "loop"
  /\ UNCHANGED <<running, shutdown, sysState, table, owner, posting, registrars, task, dispatch>>

\* A request for shutdown, which the code leaves to others: the only assignment is in
\* task_manager_stop, after the fact.
RequestShutdown ==
  /\ main = "loop" /\ ~shutdown
  /\ shutdown' = TRUE
  /\ UNCHANGED <<running, main, sysState, table, owner, queue, posters, registrars, task, dispatch>>

\* event_system_cleanup up to vTaskDelete.
CleanupStop ==
  /\ main = "loop" /\ shutdown
  /\ running' = FALSE /\ main' = "stopped"
  /\ UNCHANGED <<shutdown, sysState, table, owner, queue, posters, registrars, task, dispatch>>

\* The rest: the task is deleted wherever it is, and the mutex with it.  A task in
\* the middle of a change would lose the mutex it holds; that is left out.
CleanupDelete ==
  /\ main = "stopped" /\ \A c \in Registrars : request[c] = NoChange
  /\ task' = "deleted" /\ owner' = NoOne /\ table' = <<>>
  /\ main' = "down"
  /\ UNCHANGED <<running, shutdown, sysState, queue, posters, registrars, dispatch>>

-----------------------------------------------------------------------------
(* Faulty variants.  Each is an action or helper with one plausible        *)
(* mistake; none is part of Next.  Put in the place of the original, each  *)
(* breaks a property of EventSystemProps, which shows what it guards.      *)

\* A change of the table that does not take the mutex.
ChangeBeginUnlocked(c, change) ==
  /\ running /\ main = "loop" /\ changes < MaxChanges
  /\ request[c] = NoChange
  /\ request' = [request EXCEPT ![c] = change]
  /\ changes' = changes + 1
  /\ UNCHANGED <<running, system, table, owner, queue, posters, task, dispatch>>

\* A receive that leaves the event in the queue.
TaskPeek ==
  /\ task = "wait" /\ queue # <<>>
  /\ event' = Head(queue)
  /\ task' = "lock"
  /\ UNCHANGED <<running, system, table, owner, queue, posters, registrars, index, called, due>>

-----------------------------------------------------------------------------
(* Posters and registrars.                                                 *)

\* event_system_post: refused unless the system runs; then it waits for a place.  (From
\* an interrupt, event_system_post_from_isr does not wait for one.)
Post(p, type) ==
  /\ running /\ posting[p] = NoEvent /\ posts < MaxPosts
  /\ posting' = [posting EXCEPT ![p] = [type |-> type, id |-> posts]]
  /\ posts' = posts + 1
  /\ UNCHANGED <<running, system, table, owner, queue, registrars, task, dispatch>>

PostSend(p) ==
  /\ posting[p] # NoEvent /\ Len(queue) < QueueSize
  /\ queue' = Append(queue, posting[p])
  /\ posting' = [posting EXCEPT ![p] = NoEvent]
  /\ UNCHANGED <<running, system, table, owner, posts, registrars, task, dispatch>>

\* The queue has been full for 100 ms: the event is dropped.
PostDrop(p) ==
  /\ posting[p] # NoEvent /\ Len(queue) = QueueSize
  /\ posting' = [posting EXCEPT ![p] = NoEvent]
  /\ UNCHANGED <<running, system, table, owner, queue, posts, registrars, task, dispatch>>

\* The mutex is taken; a call that cannot take it in a second changes nothing.
ChangeBegin(c, change) ==
  /\ running /\ main = "loop" /\ changes < MaxChanges
  /\ owner = NoOne /\ owner' = c
  /\ request' = [request EXCEPT ![c] = change]
  /\ changes' = changes + 1
  /\ UNCHANGED <<running, system, table, queue, posters, task, dispatch>>

ChangeEnd(c) ==
  /\ request[c] # NoChange
  /\ LET r == request[c]
     IN  \/ r.op = "register" /\ Register(r.type, r.handler)
         \/ r.op = "unregister" /\ Unregister(r.type, r.handler)
         \/ r.op \in {"enable", "disable"} /\ Enable(r.type, r.handler, r.op = "enable")
  /\ owner' = NoOne
  /\ request' = [request EXCEPT ![c] = NoChange]
  /\ UNCHANGED <<running, system, queue, posters, changes, task, dispatch>>

-----------------------------------------------------------------------------
(* The handler task: event_handler_task_func and handle_event.             *)

TaskLoop ==
  /\ task = "loop"
  /\ task' = IF running THEN "wait" ELSE "exited"
  /\ UNCHANGED <<running, system, table, owner, queue, posters, registrars, dispatch>>

TaskReceive ==
  /\ task = "wait" /\ queue # <<>>
  /\ event' = Head(queue) /\ queue' = Tail(queue)
  /\ task' = "lock"
  /\ UNCHANGED <<running, system, table, owner, posters, registrars, index, called, due>>

\* Nothing for a second.
TaskReceiveNothing ==
  /\ task = "wait" /\ queue = <<>>
  /\ task' = "check"
  /\ UNCHANGED <<running, system, table, owner, queue, posters, registrars, dispatch>>

TaskLock ==
  /\ task = "lock" /\ owner = NoOne
  /\ owner' = Task /\ task' = "call"
  /\ index' = 1 /\ called' = {} /\ due' = HandlersFrom(1, event.type)
  /\ UNCHANGED <<running, system, table, queue, posters, registrars, event>>

\* The mutex has not been free for 100 ms: the event is skipped.
TaskSkip ==
  /\ task = "lock" /\ owner # NoOne
  /\ task' = "check"
  /\ UNCHANGED <<running, system, table, owner, queue, posters, registrars, dispatch>>

\* One round of the loop over the table.
TaskCall ==
  /\ task = "call" /\ index <= Len(table)
  /\ LET entry == table[index] IN
     \/ /\ entry.type = event.type /\ entry.enabled
        /\ called' = called \union {<<index, entry.handler>>}
        /\ \/ entry.handler = "handle_system_boot" /\ sysState' = "INITIALIZING"
           \/ UNCHANGED sysState   \* another handler, or no system_mutex in a second
     \/ /\ entry.type # event.type \/ ~entry.enabled
        /\ UNCHANGED <<called, sysState>>
  /\ index' = index + 1
  /\ UNCHANGED <<running, shutdown, main, table, owner, queue, posters, registrars, task,
                 event, due>>

TaskDone ==
  /\ task = "call" /\ index > Len(table)
  /\ owner' = NoOne /\ task' = "check"
  /\ UNCHANGED <<running, system, table, queue, posters, registrars, dispatch>>

TaskCheck ==
  /\ task = "check"
  /\ task' = IF shutdown THEN "exited" ELSE "loop"
  /\ UNCHANGED <<running, system, table, owner, queue, posters, registrars, dispatch>>

TaskStep ==
  \/ TaskLoop \/ TaskReceive \/ TaskReceiveNothing \/ TaskLock \/ TaskSkip \/ TaskCall
  \/ TaskDone \/ TaskCheck

MainStep ==
  \/ InitCreate \/ InitRegister \/ InitRun \/ MainNormal \/ MainPostsBoot
  \/ CleanupStop \/ CleanupDelete

Next ==
  \/ MainStep \/ RequestShutdown \/ TaskStep
  \/ \E p \in Posters : PostSend(p) \/ PostDrop(p) \/ \E type \in Types : Post(p, type)
  \/ \E c \in Registrars : ChangeEnd(c) \/ \E change \in Changes : ChangeBegin(c, change)

Spec == Init /\ [][Next]_vars

\* Every task that is not waiting goes on; nobody has to post, to change the table
\* or to ask for a shutdown.
Fairness ==
  /\ WF_vars(MainStep) /\ WF_vars(TaskStep)
  /\ \A p \in Posters : WF_vars(PostSend(p) \/ PostDrop(p))
  /\ \A c \in Registrars : WF_vars(ChangeEnd(c))

FairSpec == Spec /\ Fairness
=============================================================================
