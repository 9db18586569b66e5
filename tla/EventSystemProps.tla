--------------------------- MODULE EventSystemProps ---------------------------
(***************************************************************************)
(* What the event system must guarantee, stated over EventSystem.          *)
(***************************************************************************)
EXTENDS EventSystem

\* An event is given to exactly the handlers that were registered for it and enabled
\* when its turn came, each once and in the order of the table, although other tasks
\* unregister handlers and so shift the table that is being walked.
DispatchExact == task = "call" => called \union HandlersFrom(index, event.type) = due

\* The table has room for what is in it, and no handler twice for the same type:
\* none would be called twice for one event or live on after its unregistration.
TableSound ==
  /\ Len(table) <= MaxHandlers
  /\ \A i, j \in 1..Len(table) :
       table[i].type = table[j].type /\ table[i].handler = table[j].handler => i = j

Queued(n) == \E i \in 1..Len(queue) : queue[i].id = n

\* A handler task that has found the system running serves the queue to its end:
\* skipped events, full queues and busy mutexes do not stop it.
QueueServed ==
  \A n \in 0..MaxPosts :
    running /\ task \in {"wait", "lock", "call", "check"} /\ Queued(n)
      ~> ~Queued(n) \/ shutdown

-----------------------------------------------------------------------------
(* The inductive invariant behind the safety properties.                   *)

\* handler_mutex belongs to the registrar that is changing the table or to the task
\* that is walking it.
Locked ==
  /\ \A c \in Registrars : request[c] # NoChange <=> owner = c
  /\ task = "call" <=> owner = Task

\* During the initialisation nobody else uses the table.
InitAlone ==
  main \in {"off", "register"} =>
    ~running /\ owner = NoOne /\ task \in {"none", "loop", "exited"}

IndInv == TypeOK /\ Locked /\ InitAlone /\ TableSound /\ DispatchExact

=============================================================================
