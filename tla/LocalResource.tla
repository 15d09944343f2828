---------------------------- MODULE LocalResource ----------------------------
(***************************************************************************)
(* A resource that runs at the user's own client: server-sent events       *)
(* (src/src/sses/sses.service.ts, sses.controller.ts) and the driver that  *)
(* sends a prompt over them and waits for the answer                       *)
(* (toolbox/plugins/builtin/llms/local.resource.driver.ts).                *)
(*                                                                         *)
(* A subscription first removes the listeners of the user's event name and *)
(* gives an Observable back; the framework subscribes to that, and thereby *)
(* adds the listener, later.  A removed listener leaves its connection     *)
(* open.  The driver emits, registers a listener for the one answer in the *)
(* same turn of the event loop, and waits for it with a timeout.           *)
(***************************************************************************)
EXTENDS Naturals, FiniteSets

CONSTANTS
    Connection,     \* connections of one user's clients
    Call,           \* prompts sent to the user's client
    MaxSubscribes   \* bound on the subscriptions made

ASSUME LocalAssumption == MaxSubscribes \in Nat

VARIABLES
    conn,       \* a connection: closed, opening (listeners removed, none added), open
    listeners,  \* connections whose Observable listens to `sse.event.<user>`
    turn,       \* history: when a connection subscribed last
    turns,      \* history: subscriptions so far
    call,       \* a call: idle, waiting, answered, timeout (504), offline (404)
    copies,     \* connections that got a call's event and have not answered it
    ignored     \* calls an answer of which found nobody waiting (respond gives false)

vars == <<conn, listeners, turn, turns, call, copies, ignored>>

TypeOK ==
    /\ conn \in [Connection -> {"closed", "opening", "open"}]
    /\ listeners \subseteq Connection
    /\ turn \in [Connection -> Nat] /\ turns \in Nat
    /\ call \in [Call -> {"idle", "waiting", "answered", "timeout", "offline"}]
    /\ copies \in [Call -> SUBSET Connection]
    /\ ignored \subseteq Call

Init ==
    /\ conn = [c \in Connection |-> "closed"]
    /\ listeners = {}
    /\ turn = [c \in Connection |-> 0] /\ turns = 0
    /\ call = [k \in Call |-> "idle"]
    /\ copies = [k \in Call |-> {}]
    /\ ignored = {}

-----------------------------------------------------------------------------
\* subscribe: removeAllListeners(eventName), then the Observable is returned.
Subscribe(c) ==
    /\ conn[c] = "closed"
    /\ turns < MaxSubscribes
    /\ conn' = [conn EXCEPT ![c] = "opening"]
    /\ listeners' = {}
    /\ turns' = turns + 1
    /\ turn' = [turn EXCEPT ![c] = turns']
    /\ UNCHANGED <<call, copies, ignored>>

\* Faulty variant: the other listeners are removed when the listener is added.
AttachAlone(c) ==
    /\ conn[c] = "opening"
    /\ conn' = [conn EXCEPT ![c] = "open"]
    /\ listeners' = {c}
    /\ UNCHANGED <<turn, turns, call, copies, ignored>>

\* The framework subscribes to the Observable: fromEvent adds its listener.
Attach(c) ==
    /\ conn[c] = "opening"
    /\ conn' = [conn EXCEPT ![c] = "open"]
    /\ listeners' = listeners \cup {c}
    /\ UNCHANGED <<turn, turns, call, copies, ignored>>

\* The client goes away; the Observable is unsubscribed, its own listener removed.
Disconnect(c) ==
    /\ conn[c] = "open"
    /\ conn' = [conn EXCEPT ![c] = "closed"]
    /\ listeners' = listeners \ {c}
    /\ UNCHANGED <<turn, turns, call, copies, ignored>>

-----------------------------------------------------------------------------
\* emit, and onResponse in the same turn: the answer cannot come before its listener.
Invoke(k) ==
    /\ call[k] = "idle"
    /\ call' = [call EXCEPT ![k] = IF listeners = {} THEN "offline" ELSE "waiting"]
    /\ copies' = [copies EXCEPT ![k] = listeners]
    /\ UNCHANGED <<conn, listeners, turn, turns, ignored>>

\* POST respond/:eventId, on a connection of its own, whatever became of the stream.
Respond(c, k) ==
    /\ c \in copies[k]
    /\ copies' = [copies EXCEPT ![k] = @ \ {c}]
    /\ IF call[k] = "waiting"
         THEN call' = [call EXCEPT ![k] = "answered"] /\ UNCHANGED ignored
         ELSE ignored' = ignored \cup {k} /\ UNCHANGED call
    /\ UNCHANGED <<conn, listeners, turn, turns>>

\* The event is lost on the wire, or the client never answers it.
Lose(c, k) ==
    /\ c \in copies[k]
    /\ copies' = [copies EXCEPT ![k] = @ \ {c}]
    /\ UNCHANGED <<conn, listeners, turn, turns, call, ignored>>

\* Faulty variant: the driver does not know the error for a timeout and throws.
TimeoutThrows(k) ==
    /\ call[k] = "waiting"
    /\ call' = [call EXCEPT ![k] = "threw"]
    /\ UNCHANGED <<conn, listeners, turn, turns, copies, ignored>>

\* waitFor gives up after LOCAL_LLM_RESPONSE_TIMEOUT and removes its listener; the
\* driver answers 504.  (Without that setting there would be no timer.)
Timeout(k) ==
    /\ call[k] = "waiting"
    /\ call' = [call EXCEPT ![k] = "timeout"]
    /\ UNCHANGED <<conn, listeners, turn, turns, copies, ignored>>

Next ==
    \/ \E c \in Connection : Subscribe(c) \/ Attach(c) \/ Disconnect(c)
    \/ \E k \in Call : Invoke(k) \/ Timeout(k)
    \/ \E c \in Connection, k \in Call : Respond(c, k) \/ Lose(c, k)

Spec == Init /\ [][Next]_vars

-----------------------------------------------------------------------------
(***************************************************************************)
(* Properties                                                              *)
(***************************************************************************)

\* The connection that subscribed last is listened on as long as it is open, however
\* subscriptions, their delayed listeners and disconnections overlap.  (Others may be
\* listened on as well: two subscriptions may both remove before either adds.)
NewestListens ==
    \A c \in Connection :
        conn[c] = "open" /\ turn[c] = turns => c \in listeners
=============================================================================
