-------------------------- MODULE AbstractLifecycle -------------------------
(***************************************************************************)
(* What the lifecycle of an actor promises, without the events, prompts    *)
(* and transactions that bring it about: an actor is started once, becomes *)
(* ready or stops, serves chats only while ready, and stays stopped.       *)
(***************************************************************************)
CONSTANT Actor

VARIABLES
    life,    \* "absent", "starting", "ready" or "over"
    served   \* actors a chat of which was processed since the process started

Init == life = [a \in Actor |-> "absent"] /\ served = {}

Begin(a) ==
    /\ life[a] = "absent"
    /\ life' = [life EXCEPT ![a] = "starting"]
    /\ UNCHANGED served

\* Stateless (singleton) actors need no start.
BeginReady(a) ==
    /\ life[a] = "absent"
    /\ life' = [life EXCEPT ![a] = "ready"]
    /\ UNCHANGED served

BecomeReady(a) ==
    /\ life[a] = "starting"
    /\ life' = [life EXCEPT ![a] = "ready"]
    /\ UNCHANGED served

Stop(a) ==
    /\ life[a] = "starting"
    /\ life' = [life EXCEPT ![a] = "over"]
    /\ UNCHANGED served

Serve(a) ==
    /\ life[a] = "ready"
    /\ served' = served \cup {a}
    /\ UNCHANGED life

\* The process ends with every life in it.
Crash ==
    /\ life' = [a \in Actor |-> IF life[a] = "absent" THEN "absent" ELSE "over"]
    /\ served' = {}

Next ==
    \/ \E a \in Actor : Begin(a) \/ BeginReady(a) \/ BecomeReady(a) \/ Stop(a) \/ Serve(a)
    \/ Crash

Spec == Init /\ [][Next]_<<life, served>>
=============================================================================
