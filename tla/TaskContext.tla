----------------------------- MODULE TaskContext -----------------------------
(***************************************************************************)
(* The task context of one HTTP request (prompts.service.ts initContext    *)
(* and getContext, chats.service.ts chatEntry, actor.tool.ts).             *)
(*                                                                         *)
(* A prompt runs in the longrun scope of its actor tree, which every later *)
(* chat sees, or in a scope of the request, which nobody sees again.       *)
(* Which one is kept in a single slot of the request's continuation-local  *)
(* store, next to a second slot where a request scope is parked while a    *)
(* longrun one is current.  Whatever the request starts shares both slots: *)
(* the tools its prompts call, the chats those start, the listeners of the *)
(* actors it creates, the chains of answers that come later.  A prompt     *)
(* reads the slot once, when it begins.                                    *)
(*                                                                         *)
(* The tree has one longrun scope, and all request scopes of a request     *)
(* share their variables, so a scope is its kind.  A fiber is a stack of   *)
(* frames, one per prompt being processed.  Between two awaits that reach  *)
(* the outside (database, tool, user) code runs without interleaving, so   *)
(* initContext and the start of a chat are single steps.                   *)
(***************************************************************************)
EXTENDS Naturals, Sequences

CONSTANTS
    Fiber,          \* fibers of the request, Main included
    Main,           \* the fiber that serves the request
    Requests,       \* `contextual` of the HTTP routes: PATCH "long", PUT "short"
    Overrides,      \* entry.contextual of the role's entries; "none" is undefined
    MaxDepth,       \* bound on the frames of a fiber
    MaxEvents       \* bound on the lifecycle events emitted

Kind == {"long", "short"}

ASSUME FiberAssumption == Main \in Fiber
ASSUME KindAssumption == Requests \subseteq Kind /\ Overrides \subseteq Kind \cup {"none"}
ASSUME DepthAssumption == MaxDepth \in Nat /\ MaxEvents \in Nat

VARIABLES
    scope,      \* the current scope of the request; "none" before the first chat
    parked,     \* a request scope is parked in OVERRIDDEN_STORAGE
    stack,      \* the prompts being processed by each fiber
    asked,      \* history: `contextual` of the request, "none" before it
    queued,     \* lifecycle events emitted and not yet delivered
    events,     \* number of lifecycle events emitted
    seen        \* history: which of "override", "late" and "create" the request met

vars == <<scope, parked, stack, asked, queued, events, seen>>

(***************************************************************************)
(* ctx is the scope the prompt captured, want (history) the one it was     *)
(* meant to run in.  A "when" frame with restore set ends with             *)
(* initContext(true).                                                      *)
(***************************************************************************)
Frame == [kind : {"entry", "nested", "when", "event"}, ctx : Kind, want : Kind,
          restore : BOOLEAN]

TypeOK ==
    /\ scope \in Kind \cup {"none"}
    /\ parked \in BOOLEAN
    /\ stack \in [Fiber -> Seq(Frame)]
    /\ asked \in Kind \cup {"none"}
    /\ queued \in Nat /\ events \in Nat
    /\ seen \subseteq {"override", "late", "create"}

Init ==
    /\ scope = "none"
    /\ parked = FALSE
    /\ stack = [f \in Fiber |-> <<>>]
    /\ asked = "none"
    /\ queued = 0
    /\ events = 0
    /\ seen = {}

-----------------------------------------------------------------------------
\* Faulty variant: a current scope is kept whatever its kind.
InitContextKeeps(k, s) == IF s[1] = "none" THEN <<k, s[2]>> ELSE s

(***************************************************************************)
(* initContext(k): a current scope of kind k is kept; leaving a request    *)
(* scope parks it, leaving the longrun scope takes the parked one or       *)
(* creates one.  The effect on <<scope, parked>>.                          *)
(***************************************************************************)
InitContext(k, s) ==
    IF s[1] \in {k, "none"} THEN <<k, s[2]>> ELSE <<k, k = "long">>

\* Faulty variant: an entry that says nothing overrides its caller too.
EffectiveIsOverride(contextual, override) == override

\* chatEntry: the kind the chat runs in, and what its `finally` leaves in the slots.
Effective(contextual, override) == IF override = "none" THEN contextual ELSE override

AfterChat(contextual, override) ==
    LET entered == InitContext(Effective(contextual, override), <<scope, parked>>)
    IN  IF override = "none" THEN entered ELSE InitContext(contextual, entered)

Push(f, k, ctx, want, restore) ==
    stack' = [stack EXCEPT ![f] =
                Append(@, [kind |-> k, ctx |-> ctx, want |-> want, restore |-> restore])]

Busy(f) == stack[f] # <<>>
Top(f) == stack[f][Len(stack[f])]
CanPush(f) == Busy(f) /\ Len(stack[f]) < MaxDepth

Slots(s) == scope' = s[1] /\ parked' = s[2]

Saw(what) == seen' = seen \cup {what}
SawOverride(override) == IF override = "none" THEN UNCHANGED seen ELSE Saw("override")

-----------------------------------------------------------------------------
(***************************************************************************)
(* A chat with an entry of a ready actor: PreChatEvent sets the context,   *)
(* process captures it, and the `finally` of chatEntry, which does not     *)
(* wait for process, gives the caller its own kind back.                   *)
(***************************************************************************)
Chat(f, contextual, override) ==
    LET k == Effective(contextual, override)
    IN  /\ Push(f, "entry", InitContext(k, <<scope, parked>>)[1], k, FALSE)
        /\ Slots(AfterChat(contextual, override))
        /\ SawOverride(override)

Request ==
    /\ asked = "none"
    /\ \E contextual \in Requests, override \in Overrides :
          asked' = contextual /\ Chat(Main, contextual, override)
    /\ UNCHANGED <<queued, events>>

\* The actor tool chats with a member, as contextual as the prompt that calls it.
ChatMember(f) ==
    /\ CanPush(f)
    /\ \E override \in Overrides : Chat(f, Top(f).ctx, override)
    /\ UNCHANGED <<asked, queued, events>>

\* ... and is answered "not ready" after the context was set and given back.
MemberNotReady(f) ==
    /\ Busy(f)
    /\ \E override \in Overrides :
          Slots(AfterChat(Top(f).ctx, override)) /\ SawOverride(override)
    /\ UNCHANGED <<stack, asked, queued, events>>

\* A then or else clause, an iterated item, a prompt of a script.
Nested(f) ==
    /\ CanPush(f)
    /\ Push(f, "nested", scope, Top(f).want, FALSE)
    /\ UNCHANGED <<scope, parked, asked, queued, events, seen>>

\* Faulty variant: the `finally` restores the longrun context even if it was not left.
WhenRestoresLong(f) ==
    LET s == IF Top(f).ctx = "long" THEN InitContext("short", <<scope, parked>>)
                                    ELSE <<scope, parked>>
    IN  /\ CanPush(f)
        /\ Push(f, "when", s[1], "short", TRUE)
        /\ Slots(s)
        /\ UNCHANGED <<asked, queued, events, seen>>

\* A when clause is evaluated "always contextless".
When(f) ==
    LET contextual == Top(f).ctx = "long"
        s == IF contextual THEN InitContext("short", <<scope, parked>>) ELSE <<scope, parked>>
    IN  /\ CanPush(f)
        /\ Push(f, "when", s[1], "short", contextual)
        /\ Slots(s)
        /\ UNCHANGED <<asked, queued, events, seen>>

Pop(f) == [stack EXCEPT ![f] = SubSeq(@, 1, Len(@) - 1)]

\* A prompt ends, with an answer or an error.
Return(f) ==
    /\ Busy(f)
    /\ stack' = Pop(f)
    /\ Slots(IF Top(f).restore THEN InitContext("long", <<scope, parked>>)
                               ELSE <<scope, parked>>)
    /\ UNCHANGED <<asked, queued, events, seen>>

(***************************************************************************)
(* A tool answers later.  Its QuickResponse goes up through the prompts to *)
(* the chat or listener they belong to, or to the script or iteration that *)
(* called the prompt i; these give the caller a stand-in and let it go on, *)
(* while the prompts from i on wait on a chain of their own, here fiber g  *)
(* (f itself if nobody is left below).  The when clauses among them run    *)
(* their `finally` at once, without waiting for the chain.                 *)
(***************************************************************************)
Restored(s) == [n \in DOMAIN s |-> [s[n] EXCEPT !.restore = FALSE]]

Detach(f, i, g) ==
    LET later == Restored(SubSeq(stack[f], i, Len(stack[f])))
    IN  IF i = 1 THEN [stack EXCEPT ![f] = later]
                 ELSE [stack EXCEPT ![f] = SubSeq(@, 1, i - 1), ![g] = later]

Pend(f, g) ==
    /\ \E i \in DOMAIN stack[f] :
          /\ stack[f][i].kind # "when"
          /\ \A n \in (i + 1)..Len(stack[f]) : stack[f][n].kind \notin {"entry", "event"}
          /\ IF i = 1 THEN g = f ELSE ~Busy(g) /\ g # Main
          /\ stack' = Detach(f, i, g)
          /\ Slots(IF \E n \in i..Len(stack[f]) : stack[f][n].restore
                     THEN InitContext("long", <<scope, parked>>) ELSE <<scope, parked>>)
    /\ Saw("late")
    /\ UNCHANGED <<asked, queued, events>>

\* A listener of the lifecycle makes the longrun context current and runs its prompt.
LongContext == InitContext("long", <<scope, parked>>)
PushEvent(f) == Push(f, "event", LongContext[1], "long", FALSE)

(***************************************************************************)
(* The actor tool creates the member it did not find; the create listener, *)
(* awaited, makes the longrun context current and runs onCreate in it, if  *)
(* there is one; a member with a lifecycle has its init event emitted.     *)
(* The chat that follows may end before it sets the context of the request *)
(* again (the member has no host, or no entry of that name).               *)
(***************************************************************************)
CreateMember(f) ==
    /\ Busy(f)
    /\ Slots(LongContext)
    /\ \E n \in {0, 1} :
          /\ events + n <= MaxEvents
          /\ queued' = queued + n /\ events' = events + n
    /\ \/ UNCHANGED stack
       \/ CanPush(f) /\ PushEvent(f)
    /\ Saw("create")
    /\ UNCHANGED asked

\* An init or created event reaches its listener, on a fiber of its own.
Deliver(g) ==
    /\ queued > 0
    /\ ~Busy(g) /\ g # Main
    /\ Slots(LongContext)
    /\ PushEvent(g)
    /\ queued' = queued - 1
    /\ UNCHANGED <<asked, events, seen>>

\* The last prompt of a listener ends and it emits the next event.
EmitNext(g) ==
    /\ Len(stack[g]) = 1 /\ Top(g).kind = "event"
    /\ events < MaxEvents
    /\ stack' = Pop(g)
    /\ queued' = queued + 1 /\ events' = events + 1
    /\ UNCHANGED <<scope, parked, asked, seen>>

Next ==
    \/ Request
    \/ \E f \in Fiber :
          \/ ChatMember(f) \/ MemberNotReady(f) \/ Nested(f) \/ When(f) \/ Return(f)
          \/ CreateMember(f) \/ Deliver(f) \/ EmitNext(f)
    \/ \E f, g \in Fiber : Pend(f, g)

Spec == Init /\ [][Next]_vars

-----------------------------------------------------------------------------
(***************************************************************************)
(* Properties                                                              *)
(***************************************************************************)
Frames == UNION {{stack[f][i] : i \in DOMAIN stack[f]} : f \in Fiber}

\* Every prompt runs in the scope it was meant to: nested prompts in the one of
\* their chat, when clauses in a request scope.  Holds as long as nothing answers
\* late, overrides or creates: the shared slot then acts as a stack.
ContextIsLexical == seen = {} => \A fr \in Frames : fr.ctx = fr.want

\* "Actor forgets what just chatted": nothing a contextless request processes runs
\* in the longrun scope, however late it is answered, if it neither creates members
\* nor meets entries that override.
ContextlessForgets ==
    asked = "short" /\ seen \subseteq {"late"} => \A fr \in Frames : fr.ctx = "short"

\* "when clause always contextless" (prompts.service.ts:198).  It does not hold, README 6:
\* the clause of an entry that overrides its chat runs in the longrun scope.
WhenIsContextless == \A fr \in Frames : fr.kind = "when" => fr.ctx = "short"
=============================================================================
