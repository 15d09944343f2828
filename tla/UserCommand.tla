----------------------------- MODULE UserCommand -----------------------------
(***************************************************************************)
(* Command mode (src/src/toolbox/plugins/builtin/user-command.tool.ts).    *)
(*                                                                         *)
(* A prompt calls `user-command:start`: its request is pushed on a list,   *)
(* its caller is answered "still processing", and its rules wait on a      *)
(* promise.  `user-command:end`, another HTTP request, pops a session,     *)
(* resolves that promise and waits until the chain behind it ends in a     *)
(* chat (the `_response` of chats.service.ts) or starts the next session,  *)
(* each of which calls the `resolve` left in the options of the session's  *)
(* request.  A chain that ends elsewhere calls nothing.                    *)
(* The list belongs to the process: all actors of all users share it.      *)
(***************************************************************************)
EXTENDS Naturals, Sequences, SequencesExt

CONSTANTS
    Session,    \* requests put into command mode
    EndCall,    \* calls of user-command:end
    ActorOf     \* the actor a session or call is addressed to

None == "none"
ASSUME NoneAssumption == None \notin EndCall /\ None \notin Session

VARIABLES
    list,       \* _SESSION_LIST
    chain,      \* the rules behind a session: idle, waiting, running, over, unheard
                \* (they ended where no chat listens), lost
    resolver,   \* cmdChatDto.options.resolve: the end call it answers
    call,       \* an end call: idle, waiting, answered, error, dropped
    took,       \* history: the session an end call popped
    got         \* history: the session whose request an end call was answered with

vars == <<list, chain, resolver, call, took, got>>

TypeOK ==
    /\ list \in Seq(Session)
    /\ chain \in [Session -> {"idle", "waiting", "running", "over", "unheard", "lost"}]
    /\ resolver \in [Session -> EndCall \cup {None}]
    /\ call \in [EndCall -> {"idle", "waiting", "answered", "error", "dropped"}]
    /\ took \in [EndCall -> Session \cup {None}]
    /\ got \in [EndCall -> Session \cup {None}]

Init ==
    /\ list = <<>>
    /\ chain = [s \in Session |-> "idle"]
    /\ resolver = [s \in Session |-> None]
    /\ call = [e \in EndCall |-> "idle"]
    /\ took = [e \in EndCall |-> None]
    /\ got = [e \in EndCall |-> None]

-----------------------------------------------------------------------------
\* Faulty variants: `resolve` is shared by all end calls; it is deleted uncalled.
AnswerAll(s) ==
    /\ resolver' = [resolver EXCEPT ![s] = None]
    /\ call' = [e \in EndCall |-> IF call[e] = "waiting" THEN "answered" ELSE call[e]]
    /\ got' = [e \in EndCall |-> IF call[e] = "waiting" THEN s ELSE got[e]]

AnswerNobody(s) ==
    /\ resolver' = [resolver EXCEPT ![s] = None]
    /\ UNCHANGED <<call, got>>

\* chatDto.options.resolve(chatDto), then delete it.
Answer(s) ==
    /\ resolver' = [resolver EXCEPT ![s] = None]
    /\ call' = [e \in EndCall |-> IF e = resolver[s] THEN "answered" ELSE call[e]]
    /\ got' = [e \in EndCall |-> IF e = resolver[s] THEN s ELSE got[e]]

\* `start`, from a chat or, once more, from the rules an earlier end resumed, or from
\* what went on beside them with the same request.
Start(s) ==
    /\ chain[s] \in {"idle", "running", "unheard"}
    /\ Answer(s)
    /\ list' = Append(list, s)
    /\ chain' = [chain EXCEPT ![s] = "waiting"]
    /\ UNCHANGED took

\* The session `run` works on and `end` takes.
Current == Last(list)

Rest == Front(list)

End(e) ==
    /\ call[e] = "idle"
    /\ list # <<>>
    /\ LET s == Current
       IN  /\ list' = Rest
           /\ chain' = [chain EXCEPT ![s] = "running"]
           /\ resolver' = [resolver EXCEPT ![s] = e]
           /\ took' = [took EXCEPT ![e] = s]
    /\ call' = [call EXCEPT ![e] = "waiting"]
    /\ UNCHANGED got

\* Faulty variant: ending without a session takes undefined and waits for it.
EndNothingWaits(e) ==
    /\ call[e] = "idle"
    /\ list = <<>>
    /\ call' = [call EXCEPT ![e] = "waiting"]
    /\ took' = [took EXCEPT ![e] = "undefined"]
    /\ UNCHANGED <<list, chain, resolver, got>>

\* Destructuring undefined throws; the tool answers 400.
EndNothing(e) ==
    /\ call[e] = "idle"
    /\ list = <<>>
    /\ call' = [call EXCEPT ![e] = "error"]
    /\ UNCHANGED <<list, chain, resolver, took, got>>

\* The last rule of the chain ends; the chat that was answered "still processing"
\* listens to it, and answers whoever ended the session.
ChainEnds(s) ==
    /\ chain[s] = "running"
    /\ Answer(s)
    /\ chain' = [chain EXCEPT ![s] = "over"]
    /\ UNCHANGED <<list, took>>

\* The chain ends where no chat listens to it: it is that of a lifecycle prompt, of a
\* script without a callback, of an item of an iterator, or of a when clause, which
\* runs on a copy of the request; or an answer brought options of its own.
ChainEndsUnheard(s) ==
    /\ chain[s] = "running"
    /\ chain' = [chain EXCEPT ![s] = "unheard"]
    /\ UNCHANGED <<list, resolver, call, took, got>>

\* A rejected chain ends the process: the list and all waiting requests are gone.
ChainThrows(s) ==
    /\ chain[s] = "running"
    /\ list' = <<>>
    /\ chain' = [t \in Session |-> IF chain[t] \in {"waiting", "running"} THEN "lost" ELSE chain[t]]
    /\ resolver' = [t \in Session |-> None]
    /\ call' = [e \in EndCall |-> IF call[e] = "waiting" THEN "dropped" ELSE call[e]]
    /\ UNCHANGED <<took, got>>

Next ==
    \/ \E s \in Session : Start(s) \/ ChainEnds(s) \/ ChainEndsUnheard(s) \/ ChainThrows(s)
    \/ \E e \in EndCall : End(e) \/ EndNothing(e)

Spec == Init /\ [][Next]_vars

\* A resumed chain runs on until it ends, wherever that is, or starts the next session.
FairSpec ==
    /\ Spec
    /\ \A s \in Session : WF_vars(ChainEnds(s) \/ ChainEndsUnheard(s))

-----------------------------------------------------------------------------
(***************************************************************************)
(* Properties                                                              *)
(***************************************************************************)

\* An end call is answered with the request of the session it popped, also when that
\* request goes into command mode again.
EndAnsweredByItsSession ==
    \A e \in EndCall : call[e] = "answered" => got[e] = took[e]

\* Every end call is answered, unless a chain throws and takes the process, and the call,
\* with it, or the rules of the very session it ended came to an end unheard: nothing
\* that happens to the other sessions and calls keeps it waiting.
EndIsAnswered ==
    \A e \in EndCall :
        call[e] = "waiting" ~>
            \/ call[e] \in {"answered", "dropped"}
            \/ \E s \in Session : took[e] = s /\ chain[s] = "unheard"

\* Two things the code says of itself that do not hold, README 6.
\* "get/return final result of the promise chain here" (user-command.tool.ts:85): where
\* the chain ends unheard, the call waits for ever.
EndReturnsResult ==
    \A e \in EndCall : call[e] = "waiting" ~> call[e] \in {"answered", "dropped"}

\* "prepare req:chatDto into an **actor's** ctx": an end call ends a session of the
\* actor it is addressed to (user-command.tool.ts:19); the list of sessions is the
\* process's.
EndsOwnSession ==
    \A e \in EndCall : took[e] # None => ActorOf[took[e]] = ActorOf[e]
=============================================================================
