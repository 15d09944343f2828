---------------------------- MODULE PromptProofs ----------------------------
(***************************************************************************)
(* Proofs about what a prompt goes through: the task context it runs in    *)
(* (TaskContext), its rules (RuleEngine), command mode (UserCommand) and   *)
(* the user's own client (LocalResource), for every value of their         *)
(* constants.                                                              *)
(***************************************************************************)
EXTENDS TaskContext, TLAPS

CONSTANTS Session, EndCall, ActorOf
VARIABLES list, chain, resolver, call, took, got
Commands == INSTANCE UserCommand

CONSTANTS RuleLists, End
VARIABLES rules, at, waiting, via, pos, ok, begun, last, late
Rules == INSTANCE RuleEngine

CONSTANTS Connection, Call, MaxSubscribes
VARIABLES conn, listeners, turn, turns, sent, copies, ignored
Clients == INSTANCE LocalResource WITH call <- sent

-----------------------------------------------------------------------------
(***************************************************************************)
(* The user's own client.  A connection that is open and not listened on   *)
(* was removed by a later subscription.                                    *)
(***************************************************************************)
EachTurnOnce ==
    /\ \A c \in Connection : turn[c] <= turns
    /\ \A c, d \in Connection : turn[c] = turn[d] /\ turn[c] # 0 => c = d
    /\ \A c \in Connection : conn[c] # "closed" => turn[c] # 0

(* sses.service.ts, local.resource.driver.ts: every state has its types. *)
THEOREM ClientTypeCorrect == Clients!Spec => []Clients!TypeOK
<1>1. Clients!Init => Clients!TypeOK
  BY DEF Clients!Init, Clients!TypeOK
<1>2. Clients!TypeOK /\ [Clients!Next]_Clients!vars => Clients!TypeOK'
  <2> SUFFICES ASSUME Clients!TypeOK, [Clients!Next]_Clients!vars PROVE Clients!TypeOK'
    OBVIOUS
  <2> USE DEF Clients!TypeOK
  <2>1. ASSUME NEW c \in Connection, Clients!Subscribe(c) PROVE Clients!TypeOK'
    BY <2>1 DEF Clients!Subscribe
  <2>2. ASSUME NEW c \in Connection, Clients!Attach(c) \/ Clients!Disconnect(c)
        PROVE  Clients!TypeOK'
    BY <2>2 DEF Clients!Attach, Clients!Disconnect
  <2>3. ASSUME NEW k \in Call, Clients!Invoke(k) \/ Clients!Timeout(k) PROVE Clients!TypeOK'
    BY <2>3 DEF Clients!Invoke, Clients!Timeout
  <2>4. ASSUME NEW c \in Connection, NEW k \in Call, Clients!Respond(c, k) \/ Clients!Lose(c, k)
        PROVE  Clients!TypeOK'
    BY <2>4 DEF Clients!Respond, Clients!Lose
  <2>5. CASE UNCHANGED Clients!vars
    BY <2>5 DEF Clients!vars
  <2> QED
    BY <2>1, <2>2, <2>3, <2>4, <2>5 DEF Clients!Next
<1> QED
  BY <1>1, <1>2, PTL DEF Clients!Spec

(* sses.service.ts: the connection that subscribed last is listened on as long as it is *)
(* open, in whatever order subscriptions, their delayed listeners and disconnections    *)
(* come.                                                                                *)
THEOREM NewestListensHolds == Clients!Spec => []Clients!NewestListens
<1> DEFINE Inv == Clients!TypeOK /\ EachTurnOnce /\ Clients!NewestListens
<1>1. Clients!Init => Inv
  BY DEF Clients!Init, Clients!TypeOK, EachTurnOnce, Clients!NewestListens
<1>2. Inv /\ Clients!TypeOK' /\ [Clients!Next]_Clients!vars => Inv'
  <2> SUFFICES ASSUME Inv, Clients!TypeOK', [Clients!Next]_Clients!vars PROVE Inv'
    OBVIOUS
  <2>1. ASSUME NEW c \in Connection, Clients!Subscribe(c) PROVE Inv'
    BY <2>1 DEF Clients!Subscribe, Clients!TypeOK, EachTurnOnce, Clients!NewestListens
  <2>2. ASSUME NEW c \in Connection, Clients!Attach(c) \/ Clients!Disconnect(c) PROVE Inv'
    BY <2>2 DEF Clients!Attach, Clients!Disconnect, Clients!TypeOK, EachTurnOnce, Clients!NewestListens
  <2>3. ASSUME UNCHANGED <<conn, listeners, turn, turns>> PROVE Inv'
    BY <2>3 DEF EachTurnOnce, Clients!NewestListens
  <2> QED
    BY <2>1, <2>2, <2>3 DEF Clients!Next, Clients!vars, Clients!Invoke, Clients!Timeout,
       Clients!Respond, Clients!Lose
<1> QED
  BY <1>1, <1>2, ClientTypeCorrect, PTL DEF Clients!Spec

-----------------------------------------------------------------------------
(***************************************************************************)
(* Command mode.  Who a session resolves waits, for that session.          *)
(***************************************************************************)
ResolvesItsCall ==
    \A s \in Session : resolver[s] # Commands!None =>
        call[resolver[s]] = "waiting" /\ took[resolver[s]] = s

(* user-command.tool.ts: every state has its types. *)
THEOREM CommandTypeCorrect == Commands!Spec => []Commands!TypeOK
<1>1. Commands!Init => Commands!TypeOK
  BY DEF Commands!Init, Commands!TypeOK
<1>2. Commands!TypeOK /\ [Commands!Next]_Commands!vars => Commands!TypeOK'
  <2> SUFFICES ASSUME Commands!TypeOK, [Commands!Next]_Commands!vars PROVE Commands!TypeOK'
    OBVIOUS
  <2>0. list \in Seq(Session)
    BY DEF Commands!TypeOK
  <2>1. ASSUME NEW s \in Session,
               Commands!Start(s) \/ Commands!ChainEnds(s) \/ Commands!ChainEndsUnheard(s)
        PROVE  Commands!TypeOK'
    <3>1. CASE Commands!Start(s) \/ Commands!ChainEnds(s)
      <4>1. Commands!Answer(s) /\ took' = took
        BY <3>1 DEF Commands!Start, Commands!ChainEnds
      <4>2. /\ resolver' \in [Session -> EndCall \cup {Commands!None}]
            /\ call' \in [EndCall -> {"idle", "waiting", "answered", "error", "dropped"}]
            /\ got' \in [EndCall -> Session \cup {Commands!None}]
        BY <4>1 DEF Commands!Answer, Commands!TypeOK
      <4>3. list' \in Seq(Session)
        BY <2>0, <3>1 DEF Commands!Start, Commands!ChainEnds
      <4>4. chain' \in [Session -> {"idle", "waiting", "running", "over", "unheard", "lost"}]
        BY <3>1 DEF Commands!Start, Commands!ChainEnds, Commands!TypeOK
      <4> QED
        BY <4>1, <4>2, <4>3, <4>4 DEF Commands!TypeOK
    <3>2. CASE Commands!ChainEndsUnheard(s)
      BY <3>2 DEF Commands!ChainEndsUnheard, Commands!TypeOK
    <3> QED
      BY <2>1, <3>1, <3>2
  <2>2. ASSUME NEW s \in Session, Commands!ChainThrows(s) PROVE Commands!TypeOK'
    BY <2>2 DEF Commands!ChainThrows, Commands!TypeOK
  <2>3. ASSUME NEW e \in EndCall, Commands!End(e) PROVE Commands!TypeOK'
    <3>1. Len(list) \in Nat \ {0} /\ list[Len(list)] \in Session
      BY <2>0, <2>3 DEF Commands!End
    <3>2. Commands!Current \in Session /\ Commands!Rest \in Seq(Session)
      BY <2>0, <3>1 DEF Commands!Current, Commands!Rest, Commands!Last, Commands!Front
    <3> QED
      BY <2>3, <3>2 DEF Commands!End, Commands!TypeOK
  <2>4. ASSUME NEW e \in EndCall, Commands!EndNothing(e) PROVE Commands!TypeOK'
    BY <2>4 DEF Commands!EndNothing, Commands!TypeOK
  <2>5. CASE UNCHANGED Commands!vars
    BY <2>5 DEF Commands!vars, Commands!TypeOK
  <2> QED
    BY <2>1, <2>2, <2>3, <2>4, <2>5 DEF Commands!Next
<1> QED
  BY <1>1, <1>2, PTL DEF Commands!Spec

(* user-command.tool.ts: an end call is answered with the request of the session it *)
(* popped, also when that request goes into command mode again.                     *)
THEOREM EndAnsweredByItsSessionHolds ==
  ASSUME Commands!NoneAssumption
  PROVE  Commands!Spec => []Commands!EndAnsweredByItsSession
<1> DEFINE Inv == Commands!TypeOK /\ ResolvesItsCall /\ Commands!EndAnsweredByItsSession
<1>1. Commands!Init => Inv
  BY DEF Commands!Init, Commands!TypeOK, ResolvesItsCall, Commands!EndAnsweredByItsSession
<1>2. Inv /\ Commands!TypeOK' /\ [Commands!Next]_Commands!vars => Inv'
  <2> SUFFICES ASSUME Inv, Commands!TypeOK', [Commands!Next]_Commands!vars PROVE Inv'
    OBVIOUS
  <2>0. Commands!None \notin EndCall
    BY DEF Commands!NoneAssumption
  <2>1. ASSUME NEW s \in Session, Commands!Start(s) \/ Commands!ChainEnds(s) PROVE Inv'
    <3>1. Commands!Answer(s) /\ took' = took
      BY <2>1 DEF Commands!Start, Commands!ChainEnds
    <3> QED
      BY <2>0, <3>1 DEF Commands!Answer, Commands!TypeOK, ResolvesItsCall,
         Commands!EndAnsweredByItsSession
  <2>2. ASSUME NEW s \in Session, Commands!ChainThrows(s) PROVE Inv'
    BY <2>0, <2>2 DEF Commands!ChainThrows, Commands!TypeOK, ResolvesItsCall,
       Commands!EndAnsweredByItsSession
  <2>3. ASSUME NEW e \in EndCall, Commands!End(e) PROVE Inv'
    <3>1. PICK s : /\ resolver' = [resolver EXCEPT ![s] = e]
                   /\ took' = [took EXCEPT ![e] = s]
      BY <2>3 DEF Commands!End
    <3> QED
      BY <2>0, <2>3, <3>1 DEF Commands!End, Commands!TypeOK, ResolvesItsCall,
         Commands!EndAnsweredByItsSession
  <2>4. ASSUME NEW e \in EndCall, Commands!EndNothing(e) PROVE Inv'
    BY <2>0, <2>4 DEF Commands!EndNothing, Commands!TypeOK, ResolvesItsCall,
       Commands!EndAnsweredByItsSession
  <2>5. ASSUME UNCHANGED <<resolver, call, took, got>> PROVE Inv'
    BY <2>5 DEF ResolvesItsCall, Commands!EndAnsweredByItsSession
  <2> QED
    BY <2>1, <2>2, <2>3, <2>4, <2>5 DEF Commands!Next, Commands!vars, Commands!ChainEndsUnheard
<1> QED
  BY <1>1, <1>2, CommandTypeCorrect, PTL DEF Commands!Spec

\* A session is listed once, and its rules wait while it is.
ListedOnce ==
    /\ \A i, j \in 1..Len(list) : list[i] = list[j] => i = j
    /\ \A i \in 1..Len(list) : chain[list[i]] = "waiting"

\* An end call that waits is the one the session it took resolves, should it resolve any,
\* and the session's rules are running or ended unheard.
Held(e) == /\ took[e] \in Session
           /\ chain[took[e]] \in {"running", "unheard"}
           /\ resolver[took[e]] = e

WaitingIsHeld == \A e \in EndCall : call[e] = "waiting" => Held(e)

LEMMA Ended ==
  ASSUME Commands!TypeOK, NEW e \in EndCall, Commands!End(e)
  PROVE  /\ Len(list) \in Nat \ {0} /\ Commands!Current = list[Len(list)]
         /\ Commands!Current \in Session
         /\ Len(list') = Len(list) - 1
         /\ \A i \in 1..Len(list') : list'[i] = list[i]
<1>1. list \in Seq(Session) /\ list # <<>>
  BY DEF Commands!TypeOK, Commands!End
<1>2. Len(list) \in Nat \ {0} /\ list[Len(list)] \in Session
  BY <1>1
<1>3. list' = SubSeq(list, 1, Len(list) - 1)
  BY DEF Commands!End, Commands!Rest, Commands!Front
<1>4. Len(list') = Len(list) - 1 /\ \A i \in 1..Len(list') : list'[i] = list[i]
  <2>1. PICK n \in Nat : n = Len(list) - 1
    BY <1>2
  <2>2. list' = SubSeq(list, 1, n) /\ 1..n \subseteq 1..Len(list)
    BY <1>2, <1>3, <2>1
  <2>3. Len(SubSeq(list, 1, n)) = n
    BY <1>1, <1>2, <2>1
  <2>4. \A i \in 1..n : SubSeq(list, 1, n)[i] = list[i]
    BY <1>1, <1>2, <2>1
  <2> QED
    BY <2>1, <2>2, <2>3, <2>4
<1> QED
  BY <1>2, <1>4 DEF Commands!Current, Commands!Last

LEMMA ListedOnceStep ==
  ASSUME Commands!TypeOK, ListedOnce, [Commands!Next]_Commands!vars
  PROVE  ListedOnce'
<1>0. list \in Seq(Session) /\ Len(list) \in Nat
  BY DEF Commands!TypeOK
<1>1. ASSUME NEW s \in Session, Commands!Start(s) PROVE ListedOnce'
  <2>1. /\ list' = Append(list, s) /\ chain[s] # "waiting"
        /\ chain' = [chain EXCEPT ![s] = "waiting"]
    BY <1>1 DEF Commands!Start
  <2>2. /\ Len(list') = Len(list) + 1 /\ list'[Len(list) + 1] = s
        /\ \A i \in 1..Len(list) : list'[i] = list[i] /\ list[i] # s
    BY <1>0, <2>1 DEF ListedOnce
  <2>3. \A i \in 1..Len(list') : i \in 1..Len(list) \/ i = Len(list) + 1
    BY <1>0, <2>2
  <2>4. \A i \in 1..Len(list') : chain'[list'[i]] = "waiting"
    BY <2>1, <2>2, <2>3 DEF ListedOnce, Commands!TypeOK
  <2>5. \A i, j \in 1..Len(list') : list'[i] = list'[j] => i = j
    BY <2>2, <2>3 DEF ListedOnce
  <2> QED
    BY <2>4, <2>5 DEF ListedOnce
<1>2. ASSUME NEW e \in EndCall, Commands!End(e) PROVE ListedOnce'
  <2>1. PICK s \in Session : s = Commands!Current
    BY <1>2, Ended
  <2>2. /\ Len(list) \in Nat \ {0} /\ s = list[Len(list)]
        /\ Len(list') = Len(list) - 1
        /\ \A i \in 1..Len(list') : list'[i] = list[i]
    BY <1>2, <2>1, Ended
  <2>3. chain' = [chain EXCEPT ![s] = "running"]
    BY <1>2, <2>1 DEF Commands!End
  <2>4. \A i \in 1..Len(list') : i \in 1..Len(list) /\ list[i] # s /\ list[i] \in Session
    BY <1>0, <2>2 DEF ListedOnce
  <2>5. \A i \in 1..Len(list') : chain'[list'[i]] = "waiting"
    BY <2>2, <2>3, <2>4 DEF ListedOnce, Commands!TypeOK
  <2> QED
    BY <2>2, <2>4, <2>5 DEF ListedOnce
<1>3. ASSUME NEW s \in Session, Commands!ChainEnds(s) \/ Commands!ChainEndsUnheard(s)
      PROVE  ListedOnce'
  <2>1. /\ chain[s] = "running" /\ list' = list
        /\ chain' = [chain EXCEPT ![s] = "over"] \/ chain' = [chain EXCEPT ![s] = "unheard"]
    BY <1>3 DEF Commands!ChainEnds, Commands!ChainEndsUnheard
  <2> QED
    BY <2>1 DEF ListedOnce, Commands!TypeOK
<1>4. ASSUME NEW s \in Session, Commands!ChainThrows(s) PROVE ListedOnce'
  BY <1>4 DEF Commands!ChainThrows, ListedOnce
<1>5. ASSUME UNCHANGED <<list, chain>> PROVE ListedOnce'
  BY <1>5 DEF ListedOnce
<1> QED
  BY <1>1, <1>2, <1>3, <1>4, <1>5 DEF Commands!Next, Commands!vars, Commands!EndNothing

LEMMA WaitingIsHeldStep ==
  ASSUME Commands!NoneAssumption, Commands!TypeOK, ListedOnce, WaitingIsHeld,
         [Commands!Next]_Commands!vars
  PROVE  WaitingIsHeld'
<1>0. Commands!None \notin EndCall
  BY DEF Commands!NoneAssumption
<1>1. ASSUME NEW s \in Session, Commands!Answer(s), took' = took,
             \A t \in Session \ {s} : chain'[t] = chain[t]
      PROVE  WaitingIsHeld'
  <2> SUFFICES ASSUME NEW e \in EndCall, call'[e] = "waiting" PROVE Held(e)'
    BY <1>1 DEF WaitingIsHeld
  <2>1. e # resolver[s] /\ call[e] = "waiting"
    BY <1>1 DEF Commands!Answer
  <2>2. Held(e)
    BY <2>1 DEF WaitingIsHeld
  <2>3. took[e] # s /\ resolver'[took[e]] = resolver[took[e]]
    BY <1>1, <2>1, <2>2 DEF Held, Commands!Answer, Commands!TypeOK
  <2> QED
    BY <1>1, <2>2, <2>3 DEF Held
<1>2. ASSUME NEW s \in Session, Commands!Start(s) \/ Commands!ChainEnds(s)
      PROVE  WaitingIsHeld'
  <2>1. Commands!Answer(s) /\ took' = took
    BY <1>2 DEF Commands!Start, Commands!ChainEnds
  <2>2. \A t \in Session \ {s} : chain'[t] = chain[t]
    BY <1>2 DEF Commands!Start, Commands!ChainEnds, Commands!TypeOK
  <2> QED
    BY <1>1, <2>1, <2>2
<1>3. ASSUME NEW s \in Session, Commands!ChainEndsUnheard(s) PROVE WaitingIsHeld'
  BY <1>3 DEF Commands!ChainEndsUnheard, Commands!TypeOK, WaitingIsHeld, Held
<1>4. ASSUME NEW s \in Session, Commands!ChainThrows(s) PROVE WaitingIsHeld'
  BY <1>4 DEF Commands!ChainThrows, WaitingIsHeld
<1>5. ASSUME NEW e \in EndCall, Commands!End(e) PROVE WaitingIsHeld'
  <2>1. PICK s \in Session : s = Commands!Current
    BY <1>5, Ended
  <2>2. chain[s] = "waiting"
    BY <1>5, <2>1, Ended DEF ListedOnce
  <2>3. /\ chain' = [chain EXCEPT ![s] = "running"]
        /\ resolver' = [resolver EXCEPT ![s] = e]
        /\ took' = [took EXCEPT ![e] = s]
        /\ call' = [call EXCEPT ![e] = "waiting"]
    BY <1>5, <2>1 DEF Commands!End
  <2>4. Held(e)'
    BY <2>3 DEF Held, Commands!TypeOK
  <2>5. ASSUME NEW d \in EndCall \ {e}, call'[d] = "waiting" PROVE Held(d)'
    <3>1. took'[d] = took[d] /\ call[d] = "waiting"
      BY <2>3, <2>5 DEF Commands!TypeOK
    <3>2. Held(d)
      BY <3>1 DEF WaitingIsHeld
    <3>3. took[d] # s
      BY <2>2, <3>2 DEF Held
    <3> QED
      BY <2>3, <3>1, <3>2, <3>3 DEF Held, Commands!TypeOK
  <2> QED
    BY <2>4, <2>5 DEF WaitingIsHeld
<1>6. ASSUME NEW e \in EndCall, Commands!EndNothing(e) PROVE WaitingIsHeld'
  BY <1>6 DEF Commands!EndNothing, Commands!TypeOK, WaitingIsHeld, Held
<1>7. ASSUME UNCHANGED Commands!vars PROVE WaitingIsHeld'
  BY <1>7 DEF Commands!vars, WaitingIsHeld, Held
<1> QED
  BY <1>2, <1>3, <1>4, <1>5, <1>6, <1>7 DEF Commands!Next

(* user-command.tool.ts: what EndIsAnswered rests on.  No session is listed twice, so no   *)
(* other end call can take the place of one that waits: the session it took, still running *)
(* or ended unheard, resolves this call or none.                                           *)
THEOREM WaitingIsHeldHolds ==
  ASSUME Commands!NoneAssumption
  PROVE  Commands!Spec => []WaitingIsHeld
<1> DEFINE Inv == ListedOnce /\ WaitingIsHeld
<1>1. Commands!Init => Inv
  BY DEF Commands!Init, ListedOnce, WaitingIsHeld
<1>2. Inv /\ Commands!TypeOK /\ [Commands!Next]_Commands!vars => Inv'
  BY ListedOnceStep, WaitingIsHeldStep
<1>3. Inv => WaitingIsHeld
  OBVIOUS
<1> QED
  BY <1>1, <1>2, <1>3, CommandTypeCorrect, PTL DEF Commands!Spec

-----------------------------------------------------------------------------
(***************************************************************************)
(* The rules of a prompt.  The rules that were begun are the first ones of *)
(* the list, and the next one is no further than the one after them; the   *)
(* branch that is taken is that of the rule handled last.                  *)
(***************************************************************************)
RuleTypes == Rules!RuleAssumption /\ Rules!EndAssumption

InRule == at \in {"when", "then", "else"}

TakesItsBranch ==
    /\ InRule => Rules!InList
    /\ at = "to" => pos = 1 /\ begun = {} /\ last.rule = 0
    /\ ~late => ~via
    /\ at \in {"then", "else"} => last.rule = pos
    /\ at = "then" => last.matched
    /\ at = "else" => ~last.matched

BegunUpTo(n) ==
    /\ begun = 1..n
    /\ at = "for" /\ Rules!InList => pos <= n + 1
    /\ InRule => pos <= n

EndsWhole == at = "for" /\ pos > Len(rules) => begun = 1..Len(rules) \/ Rules!Broken(last)

RInv ==
    /\ Rules!TypeOK
    /\ TakesItsBranch
    /\ \E n \in 0..Len(rules) : BegunUpTo(n)
    /\ EndsWhole
    /\ Rules!RulesInOrder

LEMMA RuleFields ==
  ASSUME RuleTypes, Rules!TypeOK
  PROVE  /\ Len(rules) \in Nat /\ End \in Nat /\ Len(rules) < End
         /\ \A i \in 1..Len(rules) : rules[i] \in Rules!Rule
BY DEF RuleTypes, Rules!RuleAssumption, Rules!EndAssumption, Rules!TypeOK

LEMMA RuleLeft ==
  ASSUME RuleTypes, Rules!TypeOK, NEW i \in 1..Len(rules), NEW matched \in BOOLEAN,
         NEW chained \in BOOLEAN
  PROVE  LET over == Rules!RuleOver(i, matched, chained)
             breaks == matched /\ ~rules[i].loop /\ rules[i].break # "no"
         IN  /\ over \in 0..(Len(rules) + 1) \cup {End, End + 1}
             /\ breaks => over \in {End, End + 1}
             /\ ~breaks => over \in {i - 1, i, i + 1}
             /\ ~breaks /\ ~chained => over = IF matched /\ rules[i].loop THEN i ELSE i + 1
<1>1. Len(rules) \in Nat /\ End \in Nat /\ rules[i] \in Rules!Rule
  BY RuleFields
<1>2. rules[i].loop \in BOOLEAN
  BY <1>1 DEF Rules!Rule
<1>3. CASE matched /\ rules[i].loop
  BY <1>1, <1>3 DEF Rules!RuleOver
<1>4. CASE matched /\ ~rules[i].loop /\ rules[i].break # "no"
  BY <1>1, <1>4 DEF Rules!RuleOver
<1>5. CASE ~(matched /\ rules[i].loop) /\ ~(matched /\ ~rules[i].loop /\ rules[i].break # "no")
  BY <1>1, <1>5 DEF Rules!RuleOver
<1> QED
  BY <1>2, <1>3, <1>4, <1>5

LEMMA InitRInv == RuleTypes /\ Rules!Init => RInv
<1> SUFFICES ASSUME RuleTypes, Rules!Init PROVE RInv
  OBVIOUS
<1>1. Len(rules) \in Nat /\ Len(rules) < End /\ End \in Nat
  BY DEF RuleTypes, Rules!RuleAssumption, Rules!EndAssumption, Rules!Init
<1>2. Rules!TypeOK
  <2>1. last \in [rule : 0..Len(rules), matched : BOOLEAN, word : Rules!Words,
                 evalOk : BOOLEAN, ok : BOOLEAN]
    BY <1>1 DEF Rules!Init, Rules!NoRule, Rules!Words
  <2>2. pos \in 0..(Len(rules) + 1) /\ begun \subseteq 1..Len(rules)
    BY <1>1 DEF Rules!Init
  <2> QED
    BY <2>1, <2>2 DEF Rules!Init, Rules!TypeOK
<1>3. last.rule = 0
  BY DEF Rules!Init, Rules!NoRule
<1>4. BegunUpTo(0)
  BY <1>1 DEF Rules!Init, BegunUpTo, InRule
<1>5. TakesItsBranch /\ EndsWhole /\ Rules!RulesInOrder
  BY <1>3 DEF Rules!Init, TakesItsBranch, InRule, EndsWhole, Rules!RulesInOrder
<1> QED
  BY <1>1, <1>2, <1>4, <1>5 DEF RInv

\* The rule in hand ends without a branch, or its branch answers: the run looks at the next.
LEMMA RuleEnds ==
  ASSUME RuleTypes, RInv, NEW i \in 1..Len(rules), NEW n \in 0..Len(rules),
         i <= n, begun' = 1..n, NEW matched \in BOOLEAN, NEW chained \in BOOLEAN,
         matched => rules[i].loop \/ rules[i].break # "tag",
         at' = "for", pos' = Rules!RuleOver(i, matched, chained), UNCHANGED rules,
         last'.rule = i, last'.matched = matched, late' = late, chained => late
  PROVE  /\ (\E m \in 0..Len(rules) : BegunUpTo(m))'
         /\ EndsWhole' /\ Rules!RulesInOrder'
         /\ pos' \in 0..(Len(rules) + 1) \cup {End, End + 1}
<1>0. /\ Len(rules) \in Nat /\ End \in Nat /\ Len(rules) < End
      /\ rules[i].loop \in BOOLEAN /\ rules[i].break \in {"no", "yes", "tag"}
  BY RuleFields DEF RInv, Rules!Rule, Rules!Breaks
<1> DEFINE breaks == matched /\ ~rules[i].loop /\ rules[i].break # "no"
<1>1. /\ pos' \in 0..(Len(rules) + 1) \cup {End, End + 1}
      /\ breaks => pos' \in {End, End + 1}
      /\ ~breaks => pos' \in {i - 1, i, i + 1}
      /\ ~breaks /\ ~chained => pos' = IF matched /\ rules[i].loop THEN i ELSE i + 1
  BY RuleLeft DEF RInv
<1>2. BegunUpTo(n)'
  BY <1>0, <1>1 DEF BegunUpTo, Rules!InList, InRule
<1>3. breaks => Rules!Broken(last)'
  BY <1>0 DEF Rules!Broken
<1>4. EndsWhole'
  <2>1. CASE breaks
    BY <1>3, <2>1 DEF EndsWhole
  <2>2. CASE ~breaks
    <3>1. pos' > Len(rules) => n = Len(rules)
      BY <1>0, <1>1, <2>2
    <3> QED
      BY <3>1 DEF EndsWhole
  <2> QED
    BY <2>1, <2>2
<1>5. ~late => \/ pos' = Rules!RuleAfter(last)'
               \/ pos' > Len(rules) /\ Rules!RuleAfter(last)' > Len(rules)
  <2>1. Rules!RuleAfter(last)' = IF matched /\ rules[i].loop THEN i
                                 ELSE IF matched /\ rules[i].break = "yes" THEN Len(rules) + 1
                                 ELSE i + 1
    BY DEF Rules!RuleAfter
  <2> QED
    BY <1>0, <1>1, <2>1
<1>6. \A j \in begun' : j = 1 \/ j - 1 \in begun'
  OBVIOUS
<1>7. Rules!RulesInOrder'
  BY <1>5, <1>6 DEF Rules!RulesInOrder
<1> QED
  BY <1>1, <1>2, <1>4, <1>7

\* A rule in hand, or a run that is over: the order of the rules is not at stake.
LEMMA RuleGoesOn ==
  ASSUME RuleTypes, RInv, NEW n \in 0..Len(rules), begun' = 1..n, UNCHANGED rules,
         InRule' => pos' <= n, at' # "for",
         at' = "done" => begun' = 1..Len(rules) \/ Rules!Broken(last)'
  PROVE  /\ (\E m \in 0..Len(rules) : BegunUpTo(m))'
         /\ EndsWhole' /\ Rules!RulesInOrder'
<1>0. Len(rules) \in Nat
  BY RuleFields DEF RInv
<1>1. BegunUpTo(n)'
  BY DEF BegunUpTo
<1>2. \A j \in begun' : j = 1 \/ j - 1 \in begun'
  BY <1>0
<1> QED
  BY <1>1, <1>2 DEF EndsWhole, Rules!RulesInOrder

LEMMA StepRInv == RuleTypes /\ RInv /\ [Rules!Next]_Rules!vars => RInv'
<1> SUFFICES ASSUME RuleTypes, RInv, [Rules!Next]_Rules!vars PROVE RInv'
  OBVIOUS
<1>0. /\ Len(rules) \in Nat /\ End \in Nat /\ Len(rules) < End /\ Rules!TypeOK
      /\ \A i \in 1..Len(rules) : rules[i] \in Rules!Rule
  BY RuleFields DEF RInv
<1>1. PICK n \in 0..Len(rules) : BegunUpTo(n)
  BY DEF RInv
<1>2. /\ begun = 1..n
      /\ InRule => pos \in 1..Len(rules) /\ pos <= n
  BY <1>1 DEF BegunUpTo, RInv, TakesItsBranch, Rules!InList
<1>3. CASE UNCHANGED Rules!vars
  BY <1>3 DEF RInv, TakesItsBranch, BegunUpTo, EndsWhole, InRule, Rules!vars, Rules!TypeOK, Rules!InList,
     Rules!RulesInOrder, Rules!RuleAfter, Rules!Broken
<1>4. ASSUME NEW prompt \in {"to", "when", "then", "else"}, Rules!Pend(prompt),
             UNCHANGED <<rules, at, pos, ok, begun, last>>
      PROVE  RInv'
  <2>1. Rules!TypeOK' /\ TakesItsBranch'
    BY <1>0, <1>4 DEF Rules!Pend, RInv, Rules!TypeOK, TakesItsBranch, InRule, Rules!InList
  <2>2. at # "for" /\ at # "done"
    BY <1>4 DEF Rules!Pend
  <2> QED
    BY <1>2, <1>4, <2>1, <2>2, RuleGoesOn DEF RInv, InRule
<1>5. CASE Rules!ToAnswers
  <2>1. Rules!TypeOK' /\ TakesItsBranch'
    BY <1>0, <1>5 DEF Rules!ToAnswers, RInv, Rules!TypeOK, TakesItsBranch, InRule
  <2>2. pos' = 1 /\ begun' = {} /\ last'.rule = 0 /\ rules' = rules /\ at' = "for"
    BY <1>5 DEF Rules!ToAnswers, RInv, TakesItsBranch
  <2>3. BegunUpTo(0)'
    BY <1>0, <2>2 DEF BegunUpTo, InRule, Rules!InList
  <2>4. EndsWhole' /\ Rules!RulesInOrder'
    BY <1>0, <2>2 DEF EndsWhole, Rules!RulesInOrder
  <2> QED
    BY <1>0, <2>1, <2>2, <2>3, <2>4 DEF RInv
<1>6. CASE Rules!BeginRule
  <2> DEFINE m == IF pos <= n THEN n ELSE pos
  <2>1. pos \in 1..Len(rules) /\ pos <= n + 1 /\ rules[pos] \in Rules!Rule /\ rules[pos].orElse \in BOOLEAN
    BY <1>0, <1>1, <1>6 DEF Rules!BeginRule, Rules!InList, BegunUpTo, Rules!Rule
  <2>2. begun' = 1..m /\ m \in 0..Len(rules) /\ pos <= m /\ begun' \subseteq 1..Len(rules)
    BY <1>0, <1>2, <2>1, <1>6 DEF Rules!BeginRule
  <2> HIDE DEF m
  <2>3. CASE rules[pos].when = "prompt"
    <3>1. at' = "when" /\ pos' = pos /\ last' = last /\ rules' = rules /\ via' = FALSE /\ late' = late
          /\ waiting' = waiting /\ ok' = ok
      BY <1>6, <2>3 DEF Rules!BeginRule
    <3>2. Rules!TypeOK'
      BY <1>0, <2>2, <3>1 DEF Rules!TypeOK
    <3>3. TakesItsBranch'
      BY <2>1, <3>1 DEF TakesItsBranch, InRule, Rules!InList
    <3> QED
      BY <2>2, <3>1, <3>2, <3>3, RuleGoesOn DEF RInv
  <2>4. CASE rules[pos].when # "prompt"
    <3>1. /\ Rules!Decide(ok, FALSE) /\ rules' = rules /\ via' = FALSE /\ late' = late
          /\ waiting' = waiting /\ ok' = ok
          /\ last' = [Rules!NoRule EXCEPT !.rule = pos, !.matched = ok, !.ok = ok]
      BY <1>6, <2>4 DEF Rules!BeginRule
    <3>2. /\ last'.rule = pos /\ last'.matched = ok
          /\ last' \in [rule : 0..Len(rules), matched : BOOLEAN, word : Rules!Words,
                        evalOk : BOOLEAN, ok : BOOLEAN]
      <4>1. last' = [rule |-> pos, matched |-> ok, word |-> "no", evalOk |-> TRUE, ok |-> ok]
        BY <3>1 DEF Rules!NoRule
      <4> QED
        BY <1>0, <2>1, <4>1 DEF Rules!TypeOK, Rules!Words
    <3>3. CASE at' = "for"
      <4>1. ~ok /\ pos' = Rules!RuleOver(pos, FALSE, FALSE) /\ ok \in BOOLEAN
        BY <1>0, <3>1, <3>3 DEF Rules!Decide, Rules!TypeOK
      <4>2. last'.matched = FALSE
        BY <3>2, <4>1
      <4>3. /\ (\E k \in 0..Len(rules) : BegunUpTo(k))' /\ EndsWhole' /\ Rules!RulesInOrder'
            /\ pos' \in 0..(Len(rules) + 1) \cup {End, End + 1}
        BY <2>1, <2>2, <3>1, <3>2, <3>3, <4>1, <4>2, RuleEnds
      <4>4. Rules!TypeOK'
        BY <1>0, <2>2, <3>1, <3>2, <3>3, <4>3 DEF Rules!TypeOK
      <4>5. TakesItsBranch'
        BY <3>1, <3>3 DEF TakesItsBranch, InRule
      <4> QED
        BY <4>3, <4>4, <4>5 DEF RInv
    <3>4. CASE at' # "for"
      <4>1. pos' = pos /\ ok \in BOOLEAN /\ at' = IF ok THEN "then" ELSE "else"
        BY <1>0, <3>1, <3>4 DEF Rules!Decide, Rules!TypeOK
      <4>2. Rules!TypeOK'
        BY <1>0, <2>2, <3>1, <3>2, <4>1 DEF Rules!TypeOK
      <4>3. TakesItsBranch'
        BY <2>1, <3>1, <3>2, <4>1 DEF TakesItsBranch, InRule, Rules!InList
      <4> QED
        BY <2>2, <3>1, <3>4, <4>1, <4>2, <4>3, RuleGoesOn DEF RInv
    <3> QED
      BY <3>3, <3>4
  <2> QED
    BY <2>3, <2>4
<1>7. CASE Rules!WhenAnswers
  <2>1. PICK word \in Rules!Words, evalOk \in BOOLEAN :
          /\ Rules!Decide(Rules!SemanticMatch(word, evalOk), via)
          /\ last' = [rule |-> pos, matched |-> Rules!SemanticMatch(word, evalOk),
                      word |-> word, evalOk |-> evalOk, ok |-> ok]
    BY <1>7 DEF Rules!WhenAnswers
  <2> DEFINE matched == Rules!SemanticMatch(word, evalOk)
  <2>2. /\ at = "when" /\ rules' = rules /\ via' = via /\ late' = late /\ begun' = begun
        /\ waiting' = FALSE /\ ok' = ok
    BY <1>7 DEF Rules!WhenAnswers
  <2>3. pos \in 1..Len(rules) /\ pos <= n /\ rules[pos].orElse \in BOOLEAN /\ via \in BOOLEAN
    BY <1>0, <1>2, <2>2 DEF InRule, Rules!Rule, Rules!TypeOK
  <2>4. matched \in BOOLEAN
    BY DEF Rules!SemanticMatch
  <2>5. /\ last'.rule = pos /\ last'.matched = matched
        /\ last' \in [rule : 0..Len(rules), matched : BOOLEAN, word : Rules!Words,
                      evalOk : BOOLEAN, ok : BOOLEAN]
    BY <1>0, <2>1, <2>3, <2>4 DEF Rules!TypeOK
  <2>6. Rules!Decide(matched, via)
    BY <2>1
  <2> HIDE DEF matched
  <2>7. CASE at' = "for"
    <3>1. ~matched /\ pos' = Rules!RuleOver(pos, FALSE, via)
      BY <2>6, <2>7 DEF Rules!Decide
    <3>2. last'.matched = FALSE
      BY <2>4, <2>5, <3>1
    <3>3. via => late
      BY <2>3 DEF RInv, TakesItsBranch
    <3>4. /\ (\E k \in 0..Len(rules) : BegunUpTo(k))' /\ EndsWhole' /\ Rules!RulesInOrder'
          /\ pos' \in 0..(Len(rules) + 1) \cup {End, End + 1}
      BY <1>2, <2>2, <2>3, <2>5, <2>7, <3>1, <3>2, <3>3, RuleEnds
    <3>5. Rules!TypeOK'
      BY <1>0, <2>2, <2>5, <2>7, <3>4 DEF Rules!TypeOK
    <3>6. TakesItsBranch'
      BY <2>2, <2>7, <3>3 DEF TakesItsBranch, InRule
    <3> QED
      BY <3>4, <3>5, <3>6 DEF RInv
  <2>8. CASE at' # "for"
    <3>1. pos' = pos /\ at' = IF matched THEN "then" ELSE "else"
      BY <2>6, <2>8 DEF Rules!Decide
    <3>2. Rules!TypeOK'
      BY <1>0, <2>2, <2>5, <3>1 DEF Rules!TypeOK
    <3>3. ~late' => ~via'
      BY <2>2 DEF RInv, TakesItsBranch
    <3>4. TakesItsBranch'
      BY <2>2, <2>3, <2>4, <2>5, <3>1, <3>3 DEF TakesItsBranch, InRule, Rules!InList
    <3> QED
      BY <1>2, <2>2, <2>3, <2>8, <3>1, <3>2, <3>4, RuleGoesOn DEF RInv
  <2> QED
    BY <2>7, <2>8
<1>8. ASSUME NEW matched \in BOOLEAN, at = IF matched THEN "then" ELSE "else",
             matched => ~Rules!BreaksToTag, ok' \in BOOLEAN, at' = "for", waiting' = FALSE,
             pos' = Rules!RuleOver(pos, matched, via),
             UNCHANGED <<rules, via, begun, last, late>>
      PROVE  RInv'
  <2>1. /\ pos \in 1..Len(rules) /\ pos <= n /\ via \in BOOLEAN
        /\ last.rule = pos /\ last.matched = matched
        /\ last.matched \in BOOLEAN
    BY <1>0, <1>2, <1>8 DEF InRule, RInv, TakesItsBranch, Rules!TypeOK
  <2>2. via => late
    BY DEF RInv, TakesItsBranch
  <2>3. matched => rules[pos].loop \/ rules[pos].break # "tag"
    BY <1>8 DEF Rules!BreaksToTag
  <2>4. /\ (\E k \in 0..Len(rules) : BegunUpTo(k))' /\ EndsWhole' /\ Rules!RulesInOrder'
        /\ pos' \in 0..(Len(rules) + 1) \cup {End, End + 1}
    BY <1>2, <1>8, <2>1, <2>2, <2>3, RuleEnds
  <2>5. Rules!TypeOK'
    BY <1>0, <1>8, <2>4 DEF Rules!TypeOK
  <2>6. TakesItsBranch'
    BY <1>8, <2>2 DEF TakesItsBranch, InRule
  <2> QED
    BY <2>4, <2>5, <2>6 DEF RInv
<1>9. CASE Rules!ThenThrows \/ Rules!NoWhenThrows \/ Rules!Finish
  <2>1. /\ UNCHANGED <<rules, waiting, via, pos, ok, begun, last, late>>
        /\ at' = "threw" \/ (at' = "done" /\ Rules!Finish)
    BY <1>9 DEF Rules!ThenThrows, Rules!NoWhenThrows, Rules!Finish
  <2>2. Rules!TypeOK' /\ TakesItsBranch'
    BY <1>0, <2>1 DEF RInv, Rules!TypeOK, TakesItsBranch, InRule
  <2>3. at' = "done" => begun' = 1..Len(rules) \/ Rules!Broken(last)'
    BY <2>1 DEF Rules!Finish, RInv, EndsWhole, Rules!Broken
  <2> QED
    BY <1>2, <2>1, <2>2, <2>3, RuleGoesOn DEF RInv, InRule
<1>10. CASE Rules!ThenAnswers
  BY <1>8, <1>10 DEF Rules!ThenAnswers
<1>11. CASE Rules!ElseAnswers
  BY <1>8, <1>11 DEF Rules!ElseAnswers
<1> QED
  BY <1>3, <1>4, <1>5, <1>6, <1>7, <1>9, <1>10, <1>11 DEF Rules!Next, Rules!ToPends, Rules!WhenPends,
     Rules!ThenPends, Rules!ElsePends

(* prompts.service.ts: every state has its types; the index stays in the list, next to it, *)
(* or at the end a break jumps to.                                                         *)
THEOREM RuleTypeCorrect ==
  ASSUME Rules!RuleAssumption, Rules!EndAssumption
  PROVE  Rules!Spec => []Rules!TypeOK
<1>1. RuleTypes
  BY DEF RuleTypes
<1>2. Rules!Init => RInv
  BY <1>1, InitRInv
<1>3. RInv /\ [Rules!Next]_Rules!vars => RInv'
  BY <1>1, StepRInv
<1>4. RInv => Rules!TypeOK
  BY DEF RInv
<1> QED
  BY <1>2, <1>3, <1>4, PTL DEF Rules!Spec

(* chat-prompt.ts "following rules will be went through": after each rule comes the      *)
(* documented one unless a clause answered late, none is passed over whoever answers     *)
(* late, and a run that is done began them all or was broken off.                        *)
THEOREM RulesInOrderHolds ==
  ASSUME Rules!RuleAssumption, Rules!EndAssumption
  PROVE  Rules!Spec => []Rules!RulesInOrder
<1>1. RuleTypes
  BY DEF RuleTypes
<1>2. Rules!Init => RInv
  BY <1>1, InitRInv
<1>3. RInv /\ [Rules!Next]_Rules!vars => RInv'
  BY <1>1, StepRInv
<1>4. RInv => Rules!RulesInOrder
  BY DEF RInv
<1> QED
  BY <1>2, <1>3, <1>4, PTL DEF Rules!Spec

\* How far a run without loops is from its end: three stages for every rule that is still
\* to come, and in each of them a prompt that has not yet said it will answer later.
Loopless == \A i \in 1..Len(rules) : ~rules[i].loop

StagesLeft ==
    IF at \in {"done", "threw"} THEN 0
    ELSE IF at = "to" THEN 3 * Len(rules) + 2
    ELSE IF ~Rules!InList THEN 1
    ELSE 3 * (Len(rules) - pos) + (IF at = "for" THEN 4 ELSE IF at = "when" THEN 3 ELSE 2)

StepsLeft == 2 * StagesLeft + (IF waiting THEN 0 ELSE 1)

LEMMA StagesOf ==
  ASSUME RuleTypes, RInv
  PROVE  /\ StagesLeft \in Nat /\ StepsLeft \in Nat
         /\ at = "to" => StagesLeft = 3 * Len(rules) + 2
         /\ at = "for" /\ Rules!InList => StagesLeft = 3 * (Len(rules) - pos) + 4
         /\ at = "when" => StagesLeft = 3 * (Len(rules) - pos) + 3
         /\ at \in {"then", "else"} => StagesLeft = 3 * (Len(rules) - pos) + 2
         /\ at \in {"for", "when", "then", "else"} => StagesLeft >= 1
<1>1. Len(rules) \in Nat /\ (InRule => Rules!InList)
  BY RuleFields DEF RInv, TakesItsBranch
<1>2. Rules!InList => pos \in 1..Len(rules)
  BY DEF Rules!InList
<1>3. at \in {"to", "for", "when", "then", "else", "done", "threw"}
  BY DEF RInv, Rules!TypeOK
<1>4. CASE Rules!InList
  BY <1>1, <1>2, <1>3, <1>4 DEF StagesLeft, StepsLeft, InRule
<1>5. CASE ~Rules!InList
  <2>1. at \in {"to", "for", "done", "threw"}
    BY <1>1, <1>3, <1>5 DEF InRule
  <2>2. CASE at = "to"
    BY <1>1, <2>2 DEF StagesLeft, StepsLeft
  <2>3. CASE at # "to"
    <3>1. StagesLeft = IF at = "for" THEN 1 ELSE 0
      BY <1>5, <2>1, <2>3 DEF StagesLeft
    <3>2. StepsLeft \in Nat
      BY <3>1 DEF StepsLeft
    <3> QED
      BY <1>5, <2>1, <2>3, <3>1, <3>2
  <2> QED
    BY <2>2, <2>3
<1> QED
  BY <1>4, <1>5

\* A step that goes a stage on is nearer to the end, whether or not a prompt is awaited.
LEMMA StageIsStep ==
  ASSUME StagesLeft \in Nat, StagesLeft' \in Nat, StagesLeft' < StagesLeft
  PROVE  StepsLeft' < StepsLeft
<1>1. PICK m \in Nat, n \in Nat : m = StagesLeft' /\ n = StagesLeft
  OBVIOUS
<1>2. StepsLeft' \in {2 * m, 2 * m + 1} /\ StepsLeft \in {2 * n, 2 * n + 1}
  BY <1>1 DEF StepsLeft
<1>3. m < n
  BY <1>1
<1> QED
  BY <1>2, <1>3

LEMMA OneRuleLess ==
  ASSUME NEW l \in Nat, NEW i \in 1..l, NEW p \in 1..l, NEW e \in Nat, l < e,
         p = i + 1 \/ p \in {e, e + 1}
  PROVE  3 * (l - p) + 4 \in Nat /\ 3 * (l - p) + 4 < 3 * (l - i) + 2
OBVIOUS

\* A rule is over and none is repeated: the one after it, or the end, is next.
LEMMA StagesAfter ==
  ASSUME RuleTypes, RInv, NEW i \in 1..Len(rules), NEW matched \in BOOLEAN, Loopless,
         at' = "for", pos' = Rules!RuleOver(i, matched, FALSE), UNCHANGED rules
  PROVE  StagesLeft' \in Nat /\ StagesLeft' < 3 * (Len(rules) - i) + 2
<1>0. Len(rules) \in Nat /\ End \in Nat /\ Len(rules) < End
  BY RuleFields DEF RInv
<1>1. pos' = i + 1 \/ pos' \in {End, End + 1}
  <2>1. ~rules[i].loop
    BY DEF Loopless
  <2> QED
    BY <2>1, RuleLeft DEF RInv
<1>2. StagesLeft' = IF pos' \in 1..Len(rules) THEN 3 * (Len(rules) - pos') + 4 ELSE 1
  BY DEF StagesLeft, Rules!InList
<1>3. PICK l \in Nat : l = Len(rules) /\ i \in 1..l
  BY <1>0
<1>4. CASE pos' \notin 1..Len(rules)
  <2>1. StagesLeft' = 1
    BY <1>2, <1>4
  <2>2. 1 < 3 * (l - i) + 2
    BY <1>3
  <2> QED
    BY <1>3, <2>1, <2>2
<1>5. CASE pos' \in 1..Len(rules)
  <2>1. PICK p \in 1..l : p = pos'
    BY <1>3, <1>5
  <2>2. l < End /\ (p = i + 1 \/ p \in {End, End + 1})
    BY <1>0, <1>1, <1>3, <2>1
  <2>3. StagesLeft' = 3 * (l - p) + 4
    BY <1>2, <1>3, <1>5, <2>1
  <2>4. 3 * (l - p) + 4 \in Nat /\ 3 * (l - p) + 4 < 3 * (l - i) + 2
    BY <1>0, <1>3, <2>1, <2>2, OneRuleLess
  <2> QED
    BY <1>3, <2>3, <2>4
<1> QED
  BY <1>4, <1>5

(* chat-prompt.ts "following rules will be went through": what RunEnds rests on.  As long  *)
(* as no clause answers later, every step of a run without loops is a step towards its     *)
(* end, which is 6 * Len(rules) + 5 steps away at most.                                    *)
THEOREM RunShortens ==
  ASSUME Rules!RuleAssumption, Rules!EndAssumption
  PROVE  Rules!Spec => [][Loopless /\ ~late' => StepsLeft' \in Nat /\ StepsLeft' < StepsLeft]_Rules!vars
<1>0. RuleTypes
  BY DEF RuleTypes
<1>1. ASSUME RInv, RInv', Rules!Next, Loopless, ~late'
      PROVE  StepsLeft' \in Nat /\ StepsLeft' < StepsLeft
  <2>0. /\ Len(rules) \in Nat /\ StagesLeft \in Nat
        /\ at = "to" => StagesLeft = 3 * Len(rules) + 2
        /\ at = "for" /\ Rules!InList => StagesLeft = 3 * (Len(rules) - pos) + 4
        /\ at = "when" => StagesLeft = 3 * (Len(rules) - pos) + 3
        /\ at \in {"then", "else"} => StagesLeft = 3 * (Len(rules) - pos) + 2
        /\ at \in {"for", "when", "then", "else"} => StagesLeft >= 1
        /\ waiting \in BOOLEAN /\ late \in BOOLEAN /\ ok \in BOOLEAN
    BY <1>0, <1>1, StagesOf, RuleFields DEF RInv, Rules!TypeOK
  <2>1. StepsLeft' \in Nat /\ StagesLeft' \in Nat
    <3>1. /\ RuleTypes /\ Rules!TypeOK'
          /\ (InRule' => Rules!InList') /\ UNCHANGED rules
      BY <1>0, <1>1 DEF RInv, TakesItsBranch, Rules!Next, Rules!ToPends, Rules!WhenPends, Rules!ThenPends,
         Rules!ElsePends, Rules!ToAnswers, Rules!BeginRule, Rules!WhenAnswers, Rules!ThenAnswers,
         Rules!ThenThrows, Rules!ElseAnswers, Rules!Finish, Rules!NoWhenThrows
    <3>2. Rules!InList' => pos' \in 1..Len(rules)
      BY <3>1 DEF Rules!InList
    <3> QED
      BY <2>0, <3>1, <3>2 DEF StagesLeft, StepsLeft
  <2>2. \A i \in 1..Len(rules), matched \in BOOLEAN :
            at' = "for" /\ pos' = Rules!RuleOver(i, matched, FALSE) /\ UNCHANGED rules =>
                StagesLeft' < 3 * (Len(rules) - i) + 2
    BY <1>0, <1>1, StagesAfter
  <2>3. ASSUME NEW matched \in BOOLEAN, Rules!Decide(matched, FALSE), UNCHANGED rules,
               Rules!InList
        PROVE  StagesLeft' < 3 * (Len(rules) - pos) + 3
    <3>1. pos \in 1..Len(rules)
      BY <2>3 DEF Rules!InList
    <3>2. CASE at' \in {"then", "else"} /\ pos' = pos
      <4>1. StagesLeft' = 3 * (Len(rules) - pos) + 2
        BY <2>3, <3>1, <3>2 DEF StagesLeft, Rules!InList
      <4> QED
        BY <2>0, <3>1, <4>1
    <3>3. CASE at' = "for" /\ pos' = Rules!RuleOver(pos, FALSE, FALSE)
      <4>1. StagesLeft' < 3 * (Len(rules) - pos) + 2
        BY <2>2, <2>3, <3>1, <3>3
      <4> QED
        BY <2>0, <2>1, <3>1, <4>1
    <3> QED
      BY <2>3, <3>2, <3>3 DEF Rules!Decide
  <2>4. CASE Rules!ToPends
    <3>1. /\ UNCHANGED <<rules, at, pos>> /\ ~waiting /\ waiting'
      BY <2>4 DEF Rules!ToPends, Rules!Pend
    <3>2. StagesLeft' = StagesLeft
      BY <3>1 DEF StagesLeft, Rules!InList
    <3> QED
      BY <2>0, <2>1, <3>1, <3>2 DEF StepsLeft
  <2>5. CASE Rules!WhenPends \/ Rules!ThenPends \/ Rules!ElsePends
    BY <1>1, <2>5 DEF Rules!WhenPends, Rules!ThenPends, Rules!ElsePends, Rules!Pend
  <2>6. CASE Rules!ToAnswers
    <3>1. at = "to" /\ at' = "for" /\ UNCHANGED rules /\ pos' = 1
      BY <1>1, <2>6 DEF Rules!ToAnswers, RInv, TakesItsBranch
    <3>2. StagesLeft' < StagesLeft
      BY <2>0, <3>1 DEF StagesLeft, Rules!InList
    <3> QED
      BY <2>0, <2>1, <3>2, StageIsStep
  <2>7. ASSUME StagesLeft' < StagesLeft PROVE StepsLeft' \in Nat /\ StepsLeft' < StepsLeft
    BY <2>0, <2>1, <2>7, StageIsStep
  <2>8. CASE Rules!BeginRule
    <3>1. at = "for" /\ Rules!InList /\ UNCHANGED rules
      BY <2>8 DEF Rules!BeginRule
    <3>2. pos \in 1..Len(rules)
      BY <3>1 DEF Rules!InList
    <3>3. CASE at' = "when" /\ pos' = pos
      <4>1. StagesLeft' = 3 * (Len(rules) - pos) + 3
        BY <3>1, <3>2, <3>3 DEF StagesLeft, Rules!InList
      <4> QED
        BY <2>0, <2>7, <3>1, <3>2, <4>1
    <3>4. CASE Rules!Decide(ok, FALSE)
      <4>1. StagesLeft' < 3 * (Len(rules) - pos) + 3
        BY <2>0, <2>3, <3>1, <3>4
      <4> QED
        BY <2>0, <2>1, <2>7, <3>1, <3>2, <4>1
    <3> QED
      BY <2>8, <3>3, <3>4 DEF Rules!BeginRule
  <2>9. CASE Rules!WhenAnswers
    <3>1. at = "when" /\ UNCHANGED rules /\ late' = late
      BY <2>9 DEF Rules!WhenAnswers
    <3>2. Rules!InList /\ via = FALSE
      BY <1>1, <3>1 DEF RInv, TakesItsBranch, InRule, Rules!TypeOK
    <3>3. PICK matched \in BOOLEAN : Rules!Decide(matched, FALSE)
      BY <2>9, <3>2 DEF Rules!WhenAnswers, Rules!SemanticMatch
    <3>4. StagesLeft' < 3 * (Len(rules) - pos) + 3
      BY <2>3, <3>1, <3>2, <3>3
    <3> QED
      BY <2>0, <2>1, <2>7, <3>1, <3>4
  <2>10. CASE Rules!ThenAnswers \/ Rules!ElseAnswers
    <3>1. at \in {"then", "else"} /\ at' = "for" /\ UNCHANGED <<rules, late>>
      BY <2>10 DEF Rules!ThenAnswers, Rules!ElseAnswers
    <3>2. pos \in 1..Len(rules) /\ via = FALSE
      BY <1>1, <3>1 DEF RInv, TakesItsBranch, InRule, Rules!TypeOK, Rules!InList
    <3>3. \E matched \in BOOLEAN : pos' = Rules!RuleOver(pos, matched, FALSE)
      BY <2>10, <3>2 DEF Rules!ThenAnswers, Rules!ElseAnswers
    <3>4. StagesLeft' < 3 * (Len(rules) - pos) + 2
      BY <2>2, <3>1, <3>2, <3>3
    <3> QED
      BY <2>0, <2>1, <2>7, <3>1, <3>4
  <2>11. CASE Rules!ThenThrows \/ Rules!Finish \/ Rules!NoWhenThrows
    <3>1. at \in {"for", "then"} /\ at' \in {"done", "threw"}
      BY <2>11 DEF Rules!ThenThrows, Rules!BreaksToTag, Rules!Finish, Rules!NoWhenThrows
    <3>2. StagesLeft' = 0
      BY <3>1 DEF StagesLeft
    <3> QED
      BY <2>0, <2>7, <3>1, <3>2
  <2> QED
    BY <1>1, <2>4, <2>5, <2>6, <2>7, <2>8, <2>9, <2>10, <2>11, <2>1, <2>0 DEF Rules!Next
<1>2. Rules!Init => RInv
  BY <1>0, InitRInv
<1>3. RInv /\ [Rules!Next]_Rules!vars => RInv'
  BY <1>0, StepRInv
<1>4. RInv /\ RInv' /\ [Rules!Next]_Rules!vars =>
        [Loopless /\ ~late' => StepsLeft' \in Nat /\ StepsLeft' < StepsLeft]_Rules!vars
  BY <1>1
<1> QED
  BY <1>2, <1>3, <1>4, PTL DEF Rules!Spec

-----------------------------------------------------------------------------
(***************************************************************************)
(* The task context.  A request that has begun has a scope; what is        *)
(* processed in it was captured there.                                     *)
(***************************************************************************)
HasScope ==
    /\ asked = "none" => queued = 0 /\ seen = {} /\ \A f \in Fiber : stack[f] = <<>>
    /\ asked # "none" => scope \in Kind

TInv == TypeOK /\ HasScope

LEMMA Parts ==
  ASSUME NEW st \in Seq(Frame), NEW m \in 1..(Len(st) + 1), NEW n \in 0..Len(st)
  PROVE  /\ SubSeq(st, m, n) \in Seq(Frame)
         /\ Len(SubSeq(st, m, n)) = IF m <= n THEN n - m + 1 ELSE 0
         /\ \A k \in DOMAIN SubSeq(st, m, n) :
               k + m - 1 \in DOMAIN st /\ SubSeq(st, m, n)[k] = st[k + m - 1]
OBVIOUS

LEMMA Appended ==
  ASSUME NEW st \in Seq(Frame), NEW fr \in Frame
  PROVE  /\ Append(st, fr) \in Seq(Frame) /\ Append(st, fr) # <<>>
         /\ Len(Append(st, fr)) = Len(st) + 1 /\ Append(st, fr)[Len(st) + 1] = fr
         /\ \A i \in DOMAIN st : Append(st, fr)[i] = st[i]
OBVIOUS

LEMMA RestoredFrames ==
  ASSUME NEW st \in Seq(Frame)
  PROVE  /\ Restored(st) \in Seq(Frame) /\ Len(Restored(st)) = Len(st)
         /\ \A i \in DOMAIN st : /\ Restored(st)[i].ctx = st[i].ctx
                                 /\ Restored(st)[i].kind = st[i].kind
                                 /\ Restored(st)[i].restore = FALSE
<1>1. ASSUME NEW i \in DOMAIN st
      PROVE  /\ Restored(st)[i] \in Frame /\ Restored(st)[i].ctx = st[i].ctx
             /\ Restored(st)[i].kind = st[i].kind /\ Restored(st)[i].restore = FALSE
  <2>1. st[i] \in Frame /\ Restored(st)[i] = [st[i] EXCEPT !.restore = FALSE]
    BY DEF Restored
  <2> QED
    BY <2>1 DEF Frame
<1>2. Restored(st) = [i \in 1..Len(st) |-> Restored(st)[i]] /\ Len(st) \in Nat
  BY DEF Restored
<1>3. DOMAIN st = 1..Len(st)
  OBVIOUS
<1> DEFINE new == Restored(st)
<1>4. new \in Seq(Frame) /\ Len(new) = Len(st)
  <2>1. \A i \in 1..Len(st) : new[i] \in Frame
    BY <1>1, <1>3
  <2>2. new = [i \in 1..Len(st) |-> new[i]]
    BY <1>2
  <2> HIDE DEF new
  <2> QED
    BY <1>2, <2>1, <2>2
<1> QED
  BY <1>1, <1>4

LEMMA Entered ==
  ASSUME NEW k, NEW s
  PROVE  InitContext(k, s)[1] = k
BY DEF InitContext

LEMMA EnteredTypes ==
  ASSUME NEW k \in Kind, NEW s \in (Kind \cup {"none"}) \X BOOLEAN
  PROVE  InitContext(k, s) \in Kind \X BOOLEAN
BY DEF InitContext

LEMMA ChatTypes ==
  ASSUME TypeOK, KindAssumption, NEW contextual \in Kind, NEW override \in Overrides
  PROVE  /\ Effective(contextual, override) \in Kind
         /\ AfterChat(contextual, override) \in Kind \X BOOLEAN
         /\ AfterChat(contextual, override)[1] = contextual
<1>1. Effective(contextual, override) \in Kind
  BY DEF Effective
<1>2. <<scope, parked>> \in (Kind \cup {"none"}) \X BOOLEAN
  BY DEF TypeOK
<1> DEFINE entered == InitContext(Effective(contextual, override), <<scope, parked>>)
<1>3. entered \in Kind \X BOOLEAN /\ entered[1] = Effective(contextual, override)
  BY <1>1, <1>2, Entered, EnteredTypes
<1>4. AfterChat(contextual, override) = IF override = "none" THEN entered ELSE InitContext(contextual, entered)
  BY DEF AfterChat
<1> HIDE DEF entered
<1>5. InitContext(contextual, entered) \in Kind \X BOOLEAN
  BY <1>3, EnteredTypes
<1> QED
  BY <1>1, <1>3, <1>4, <1>5, Entered DEF Effective

\* What is on top of a stack.
LEMMA TopTypes ==
  ASSUME TypeOK, NEW f \in Fiber, Busy(f)
  PROVE  Len(stack[f]) \in Nat \ {0} /\ Len(stack[f]) \in DOMAIN stack[f] /\ Top(f) \in Frame
BY DEF TypeOK, Busy, Top

Pushed(f, fr) == stack' = [stack EXCEPT ![f] = Append(stack[f], fr)]

LEMMA PushTypes ==
  ASSUME TypeOK, NEW f \in Fiber, NEW fr \in Frame, Pushed(f, fr)
  PROVE  /\ stack' \in [Fiber -> Seq(Frame)] /\ stack'[f] = Append(stack[f], fr)
         /\ \A g \in Fiber \ {f} : stack'[g] = stack[g]
BY Appended DEF TypeOK, Pushed

Popped(f) == stack' = Pop(f)

LEMMA PopTypes ==
  ASSUME TypeOK, NEW f \in Fiber, Busy(f), Popped(f)
  PROVE  /\ stack' \in [Fiber -> Seq(Frame)] /\ stack'[f] = SubSeq(stack[f], 1, Len(stack[f]) - 1)
         /\ \A g \in Fiber \ {f} : stack'[g] = stack[g]
<1>1. stack[f] \in Seq(Frame) /\ Len(stack[f]) - 1 \in 0..Len(stack[f]) /\ 1 \in 1..(Len(stack[f]) + 1)
  BY TopTypes DEF TypeOK
<1>2. SubSeq(stack[f], 1, Len(stack[f]) - 1) \in Seq(Frame)
  BY <1>1, Parts
<1> QED
  BY <1>2 DEF TypeOK, Pop, Popped

\* What a chain that waits on its own leaves and takes.
LEMMA PendTypes ==
  ASSUME TypeOK, NEW f \in Fiber, NEW g \in Fiber, NEW i \in DOMAIN stack[f],
         i # 1 => ~Busy(g), stack' = Detach(f, i, g)
  PROVE  /\ stack' \in [Fiber -> Seq(Frame)]
         /\ \A h \in Fiber : \A n \in DOMAIN stack'[h] :
              \E o \in Fiber : \E m \in DOMAIN stack[o] :
                 /\ stack'[h][n].ctx = stack[o][m].ctx /\ stack'[h][n].kind = stack[o][m].kind
                 /\ stack'[h][n].restore => stack[o][m].restore
<1>0. stack[f] \in Seq(Frame) /\ i \in 1..Len(stack[f]) /\ Len(stack[f]) \in Nat
  BY DEF TypeOK
<1> DEFINE tail == SubSeq(stack[f], i, Len(stack[f]))
           later == Restored(tail)
           below == SubSeq(stack[f], 1, i - 1)
<1>1. /\ tail \in Seq(Frame)
      /\ \A k \in DOMAIN tail : k + i - 1 \in DOMAIN stack[f] /\ tail[k] = stack[f][k + i - 1]
  <2>1. i \in 1..(Len(stack[f]) + 1) /\ Len(stack[f]) \in 0..Len(stack[f])
    BY <1>0
  <2> QED
    BY <1>0, <2>1, Parts
<1>2. /\ below \in Seq(Frame)
      /\ \A k \in DOMAIN below : k \in DOMAIN stack[f] /\ below[k] = stack[f][k]
  <2>1. 1 \in 1..(Len(stack[f]) + 1) /\ i - 1 \in 0..Len(stack[f])
    BY <1>0
  <2>2. \A k \in DOMAIN below : k + 1 - 1 \in DOMAIN stack[f] /\ below[k] = stack[f][k + 1 - 1]
    BY <1>0, <2>1, Parts
  <2>3. below \in Seq(Frame)
    BY <1>0, <2>1, Parts
  <2>4. \A k \in DOMAIN below : k + 1 - 1 = k
    BY <2>3
  <2> QED
    BY <2>2, <2>3, <2>4
<1>3. /\ later \in Seq(Frame) /\ DOMAIN later = DOMAIN tail
      /\ \A k \in DOMAIN tail : /\ later[k].ctx = tail[k].ctx /\ later[k].kind = tail[k].kind
                                /\ later[k].restore = FALSE
  <2>1. DOMAIN later = DOMAIN tail
    BY DEF Restored
  <2> QED
    BY <1>1, <2>1, RestoredFrames
<1>4. stack' = IF i = 1 THEN [stack EXCEPT ![f] = later]
                        ELSE [stack EXCEPT ![f] = below, ![g] = later]
  BY DEF Detach
<1> HIDE DEF tail, later, below
<1>5. f = g => i = 1
  BY <1>0 DEF Busy
<1>6. stack' \in [Fiber -> Seq(Frame)]
  BY <1>2, <1>3, <1>4 DEF TypeOK
<1>7. \A h \in Fiber : \/ stack'[h] = stack[h]
                       \/ stack'[h] = later
                       \/ h = f /\ stack'[h] = below
  BY <1>4, <1>5 DEF TypeOK
<1>8. ASSUME NEW h \in Fiber, NEW n \in DOMAIN stack'[h]
      PROVE  \E o \in Fiber : \E m \in DOMAIN stack[o] :
                 /\ stack'[h][n].ctx = stack[o][m].ctx /\ stack'[h][n].kind = stack[o][m].kind
                 /\ stack'[h][n].restore => stack[o][m].restore
  <2>1. CASE stack'[h] = stack[h]
    BY <1>8, <2>1
  <2>2. CASE stack'[h] = later
    BY <1>1, <1>3, <1>8, <2>2
  <2>3. CASE h = f /\ stack'[h] = below
    BY <1>2, <1>8, <2>3
  <2> QED
    BY <1>7, <2>1, <2>2, <2>3
<1> QED
  BY <1>6, <1>8

LEMMA InitTInv == Init => TInv
<1> SUFFICES ASSUME Init PROVE TInv
  OBVIOUS
<1>1. <<>> \in Seq(Frame)
  OBVIOUS
<1>2. stack \in [Fiber -> Seq(Frame)]
  BY <1>1 DEF Init
<1>3. /\ scope = "none" /\ parked = FALSE /\ asked = "none"
      /\ queued = 0 /\ events = 0 /\ seen = {}
  BY DEF Init
<1>4. TypeOK
  BY <1>2, <1>3 DEF TypeOK
<1>5. HasScope
  BY DEF Init, HasScope
<1> QED
  BY <1>4, <1>5 DEF TInv

\* The frame a chat pushes, and what it leaves in the slots.
ChatFrame(contextual, override) ==
    [kind |-> "entry", ctx |-> Effective(contextual, override),
     want |-> Effective(contextual, override), restore |-> FALSE]

LEMMA ChatEffect ==
  ASSUME TypeOK, NEW f \in Fiber, NEW contextual \in Kind, NEW override \in Overrides,
         Chat(f, contextual, override)
  PROVE  /\ ChatFrame(contextual, override) \in Frame
         /\ Pushed(f, ChatFrame(contextual, override))
         /\ scope' = contextual /\ parked' \in BOOLEAN
         /\ seen' = IF override = "none" THEN seen ELSE seen \cup {"override"}
<1>1. Effective(contextual, override) \in Kind
  BY ChatTypes, KindAssumption
<1>2. AfterChat(contextual, override) \in Kind \X BOOLEAN /\ AfterChat(contextual, override)[1] = contextual
  BY ChatTypes, KindAssumption
<1>3. ChatFrame(contextual, override) \in Frame
  BY <1>1 DEF ChatFrame, Frame
<1>4. Pushed(f, ChatFrame(contextual, override))
  <2>1. InitContext(Effective(contextual, override), <<scope, parked>>)[1] = Effective(contextual, override)
    BY Entered
  <2> QED
    BY <2>1 DEF Chat, Push, Pushed, ChatFrame
<1>5. scope' = AfterChat(contextual, override)[1] /\ parked' = AfterChat(contextual, override)[2]
  BY DEF Chat, Slots
<1> QED
  BY <1>2, <1>3, <1>4, <1>5 DEF Chat, SawOverride, Saw

\* The slots when a longrun context is made current.
LEMMA LongTypes ==
  ASSUME TypeOK, NEW k \in Kind
  PROVE  InitContext(k, <<scope, parked>>) \in Kind \X BOOLEAN /\ InitContext(k, <<scope, parked>>)[1] = k
<1>1. <<scope, parked>> \in (Kind \cup {"none"}) \X BOOLEAN
  BY DEF TypeOK
<1> QED
  BY <1>1, Entered, EnteredTypes

NestedFrame(f) == [kind |-> "nested", ctx |-> scope, want |-> Top(f).want, restore |-> FALSE]
WhenFrame(f) == [kind |-> "when", ctx |-> IF Top(f).ctx = "long" THEN "short" ELSE scope,
                 want |-> "short", restore |-> Top(f).ctx = "long"]
EventFrame == [kind |-> "event", ctx |-> "long", want |-> "long", restore |-> FALSE]

LEMMA NestedEffect ==
  ASSUME TInv, NEW f \in Fiber, Nested(f)
  PROVE  /\ Busy(f) /\ NestedFrame(f) \in Frame /\ Pushed(f, NestedFrame(f))
         /\ UNCHANGED <<scope, parked, asked, queued, events, seen>>
<1>1. Busy(f)
  BY DEF Nested, CanPush
<1>2. scope \in Kind
  BY <1>1 DEF TInv, HasScope, Busy
<1>3. Top(f).want \in Kind
  BY <1>1, TopTypes DEF TInv, Frame
<1> QED
  BY <1>1, <1>2, <1>3 DEF Nested, Push, Pushed, NestedFrame, Frame

LEMMA WhenEffect ==
  ASSUME TInv, NEW f \in Fiber, When(f)
  PROVE  /\ Busy(f) /\ WhenFrame(f) \in Frame /\ Pushed(f, WhenFrame(f))
         /\ scope' = (IF Top(f).ctx = "long" THEN "short" ELSE scope) /\ parked' \in BOOLEAN
         /\ UNCHANGED <<asked, queued, events, seen>>
<1>1. Busy(f)
  BY DEF When, CanPush
<1>2. scope \in Kind /\ parked \in BOOLEAN
  BY <1>1 DEF TInv, HasScope, TypeOK, Busy
<1>3. InitContext("short", <<scope, parked>>) \in Kind \X BOOLEAN
      /\ InitContext("short", <<scope, parked>>)[1] = "short"
  BY LongTypes DEF TInv, Kind
<1>4. CASE Top(f).ctx = "long"
  BY <1>1, <1>3, <1>4 DEF When, Push, Pushed, WhenFrame, Slots, Frame, Kind
<1>5. CASE Top(f).ctx # "long"
  BY <1>1, <1>2, <1>5 DEF When, Push, Pushed, WhenFrame, Slots, Frame, Kind
<1> QED
  BY <1>4, <1>5

LEMMA ReturnEffect ==
  ASSUME TInv, NEW f \in Fiber, Return(f)
  PROVE  /\ Busy(f) /\ Popped(f)
         /\ scope' = (IF Top(f).restore THEN "long" ELSE scope) /\ parked' \in BOOLEAN
         /\ UNCHANGED <<asked, queued, events, seen>>
<1>1. Busy(f) /\ Popped(f)
  BY DEF Return, Popped
<1>2. InitContext("long", <<scope, parked>>) \in Kind \X BOOLEAN
      /\ InitContext("long", <<scope, parked>>)[1] = "long"
  BY LongTypes DEF TInv, Kind
<1>3. parked \in BOOLEAN
  BY DEF TInv, TypeOK
<1> QED
  BY <1>1, <1>2, <1>3 DEF Return, Slots

LEMMA EventEffect ==
  ASSUME TypeOK, NEW f \in Fiber
  PROVE  /\ EventFrame \in Frame
         /\ PushEvent(f) <=> Pushed(f, EventFrame)
         /\ Slots(LongContext) => scope' = "long" /\ parked' \in BOOLEAN
<1>1. LongContext \in Kind \X BOOLEAN /\ LongContext[1] = "long"
  BY LongTypes DEF Kind, LongContext
<1> QED
  BY <1>1 DEF EventFrame, Frame, Kind, PushEvent, Push, Pushed, Slots

\* What a member's chat that comes to nothing leaves in the slots: nothing.
LEMMA NotReadyEffect ==
  ASSUME TInv, NEW f \in Fiber, MemberNotReady(f)
  PROVE  /\ Busy(f) /\ scope' = Top(f).ctx /\ scope' \in Kind /\ parked' \in BOOLEAN
         /\ seen' = seen \/ seen' = seen \cup {"override"}
         /\ UNCHANGED <<stack, asked, queued, events>>
<1>1. PICK override \in Overrides :
        Slots(AfterChat(Top(f).ctx, override)) /\ SawOverride(override)
  BY DEF MemberNotReady
<1>2. Busy(f)
  BY DEF MemberNotReady
<1>3. Top(f).ctx \in Kind
  BY <1>2, TopTypes DEF TInv, Frame
<1>4. AfterChat(Top(f).ctx, override) \in Kind \X BOOLEAN /\ AfterChat(Top(f).ctx, override)[1] = Top(f).ctx
  BY <1>3, ChatTypes, KindAssumption DEF TInv
<1> QED
  BY <1>1, <1>2, <1>3, <1>4 DEF MemberNotReady, Slots, SawOverride, Saw

LEMMA PendEffect ==
  ASSUME TInv, NEW f \in Fiber, NEW g \in Fiber, Pend(f, g)
  PROVE  /\ asked # "none" /\ stack' \in [Fiber -> Seq(Frame)]
         /\ \A h \in Fiber : \A n \in DOMAIN stack'[h] :
              \E o \in Fiber : \E m \in DOMAIN stack[o] :
                 /\ stack'[h][n].ctx = stack[o][m].ctx /\ stack'[h][n].kind = stack[o][m].kind
                 /\ stack'[h][n].restore => stack[o][m].restore
         /\ \/ scope' = scope
            \/ /\ scope' = "long"
               /\ \E o \in Fiber : \E m \in DOMAIN stack[o] : stack[o][m].restore
         /\ parked' \in BOOLEAN /\ seen' = seen \cup {"late"}
         /\ UNCHANGED <<asked, queued, events>>
<1>1. PICK i \in DOMAIN stack[f] :
        /\ IF i = 1 THEN g = f ELSE ~Busy(g) /\ g # Main
        /\ stack' = Detach(f, i, g)
        /\ Slots(IF \E n \in i..Len(stack[f]) : stack[f][n].restore
                   THEN InitContext("long", <<scope, parked>>) ELSE <<scope, parked>>)
  BY DEF Pend
<1>2. /\ stack' \in [Fiber -> Seq(Frame)]
      /\ \A h \in Fiber : \A n \in DOMAIN stack'[h] :
              \E o \in Fiber : \E m \in DOMAIN stack[o] :
                 /\ stack'[h][n].ctx = stack[o][m].ctx /\ stack'[h][n].kind = stack[o][m].kind
                 /\ stack'[h][n].restore => stack[o][m].restore
  BY <1>1, PendTypes DEF TInv
<1>3. InitContext("long", <<scope, parked>>) \in Kind \X BOOLEAN
      /\ InitContext("long", <<scope, parked>>)[1] = "long"
  BY LongTypes DEF TInv, Kind
<1>4. i \in 1..Len(stack[f]) /\ DOMAIN stack[f] = 1..Len(stack[f]) /\ Len(stack[f]) \in Nat
  BY DEF TInv, TypeOK
<1>5. \/ scope' = scope /\ parked' = parked
      \/ /\ scope' = "long" /\ parked' \in BOOLEAN
         /\ \E n \in DOMAIN stack[f] : stack[f][n].restore
  BY <1>1, <1>3, <1>4 DEF Slots
<1>6. asked # "none"
  BY <1>4 DEF TInv, HasScope
<1> QED
  BY <1>2, <1>5, <1>6 DEF Pend, Saw, TInv, TypeOK

-----------------------------------------------------------------------------
(***************************************************************************)
(* As long as nothing answers late, overrides or creates, one fiber runs   *)
(* and the slot is a stack: it holds the scope of the prompt on top, and a *)
(* when clause that is to restore the longrun scope was begun in it.       *)
(***************************************************************************)
Lexical(st, sc) ==
    /\ \A i \in DOMAIN st :
          /\ st[i].ctx = st[i].want /\ st[i].kind # "event"
          /\ st[i].restore => i > 1 /\ st[i - 1].ctx = "long"
          /\ ~st[i].restore /\ i > 1 => st[i].ctx = st[i - 1].ctx
    /\ st # <<>> => sc = st[Len(st)].ctx

OnlyMain ==
    /\ queued = 0
    /\ \A f \in Fiber \ {Main} : stack[f] = <<>>
    /\ Lexical(stack[Main], scope)

LInv == TInv /\ (seen = {} => OnlyMain)

(***************************************************************************)
(* A request that is to be forgotten never makes the longrun scope current *)
(* by itself, and leaves nothing to restore.                               *)
(***************************************************************************)
Forgets ==
    /\ scope = "short" /\ queued = 0
    /\ \A f \in Fiber : \A i \in DOMAIN stack[f] :
          stack[f][i].ctx = "short" /\ ~stack[f][i].restore /\ stack[f][i].kind # "event"

FInv == TInv /\ (asked = "short" /\ seen \subseteq {"late"} => Forgets)

LEMMA LexicalPush ==
  ASSUME NEW st \in Seq(Frame), NEW sc, Lexical(st, sc), NEW fr \in Frame,
         fr.ctx = fr.want, fr.kind # "event",
         fr.restore => st # <<>> /\ sc = "long",
         ~fr.restore /\ st # <<>> => fr.ctx = sc
  PROVE  Lexical(Append(st, fr), fr.ctx)
<1> DEFINE new == Append(st, fr)
<1>1. Len(st) \in Nat /\ DOMAIN st = 1..Len(st)
  OBVIOUS
<1>2. /\ new # <<>> /\ Len(new) = Len(st) + 1 /\ DOMAIN new = 1..(Len(st) + 1)
      /\ new[Len(st) + 1] = fr /\ \A i \in DOMAIN st : new[i] = st[i]
  BY Appended
<1> HIDE DEF new
<1>3. ASSUME NEW i \in DOMAIN new
      PROVE  /\ new[i].ctx = new[i].want /\ new[i].kind # "event"
             /\ new[i].restore => i > 1 /\ new[i - 1].ctx = "long"
             /\ ~new[i].restore /\ i > 1 => new[i].ctx = new[i - 1].ctx
  <2>1. CASE i \in DOMAIN st
    <3>1. new[i] = st[i] /\ (i > 1 => new[i - 1] = st[i - 1])
      BY <1>1, <1>2, <2>1
    <3> QED
      BY <2>1, <3>1 DEF Lexical
  <2>2. CASE i = Len(st) + 1
    <3>1. i > 1 <=> st # <<>>
      BY <1>1, <2>2
    <3>2. i > 1 => new[i - 1] = st[Len(st)] /\ sc = st[Len(st)].ctx
      BY <1>1, <1>2, <2>2, <3>1 DEF Lexical
    <3> QED
      BY <1>2, <2>2, <3>1, <3>2
  <2> QED
    BY <1>1, <1>2, <2>1, <2>2
<1> QED
  BY <1>2, <1>3 DEF Lexical, new

LEMMA LexicalPop ==
  ASSUME NEW st \in Seq(Frame), st # <<>>, NEW sc, Lexical(st, sc)
  PROVE  Lexical(SubSeq(st, 1, Len(st) - 1), IF st[Len(st)].restore THEN "long" ELSE sc)
<1> DEFINE new == SubSeq(st, 1, Len(st) - 1)
<1>1. Len(st) \in Nat \ {0} /\ DOMAIN st = 1..Len(st)
  OBVIOUS
<1>2. /\ new \in Seq(Frame) /\ Len(new) = Len(st) - 1 /\ DOMAIN new = 1..(Len(st) - 1)
      /\ \A i \in DOMAIN new : new[i] = st[i]
  BY <1>1
<1> HIDE DEF new
<1>3. \A i \in DOMAIN new :
        /\ new[i].ctx = new[i].want /\ new[i].kind # "event"
        /\ new[i].restore => i > 1 /\ new[i - 1].ctx = "long"
        /\ ~new[i].restore /\ i > 1 => new[i].ctx = new[i - 1].ctx
  BY <1>1, <1>2 DEF Lexical
<1>4. new # <<>> => new[Len(new)].ctx = IF st[Len(st)].restore THEN "long" ELSE sc
  <2>1. new # <<>> => Len(st) > 1 /\ new[Len(new)] = st[Len(st) - 1]
    BY <1>1, <1>2
  <2>2. Len(st) \in DOMAIN st
    BY <1>1
  <2>3. sc = st[Len(st)].ctx
    BY DEF Lexical
  <2> QED
    BY <2>1, <2>2, <2>3 DEF Lexical
<1> QED
  BY <1>3, <1>4 DEF Lexical, new

LEMMA InitInvs == Init => LInv /\ FInv
<1> SUFFICES ASSUME Init PROVE LInv /\ FInv
  OBVIOUS
<1>1. stack[Main] = <<>> /\ \A f \in Fiber : stack[f] = <<>>
  BY FiberAssumption DEF Init
<1>2. OnlyMain
  BY <1>1 DEF Init, OnlyMain, Lexical
<1>3. asked # "short"
  BY DEF Init
<1> QED
  BY <1>2, <1>3, InitTInv DEF LInv, FInv


\* A push is in its place when the slot is a stack, and forgotten with the rest.
LEMMA PushKeeps ==
  ASSUME TInv, asked' # "none", NEW f \in Fiber, NEW fr \in Frame, Pushed(f, fr),
         scope' \in Kind, parked' \in BOOLEAN, seen \subseteq seen', seen' \subseteq {"override", "late", "create"},
         asked' \in Kind, queued' \in Nat, events' \in Nat,
         LInv /\ seen' = {} => /\ f = Main /\ queued' = 0 /\ scope' = fr.ctx /\ fr.ctx = fr.want
                               /\ fr.kind # "event"
                               /\ fr.restore => stack[f] # <<>> /\ scope = "long"
                               /\ ~fr.restore /\ stack[f] # <<>> => fr.ctx = scope,
         FInv /\ asked' = "short" /\ seen' \subseteq {"late"} =>
            /\ asked = "none" \/ asked = "short"
            /\ scope' = "short" /\ queued' = 0
            /\ fr.ctx = "short" /\ ~fr.restore /\ fr.kind # "event"
  PROVE  TInv' /\ (LInv => LInv') /\ (FInv => FInv')
<1>1. /\ stack' \in [Fiber -> Seq(Frame)] /\ stack'[f] = Append(stack[f], fr)
      /\ \A g \in Fiber \ {f} : stack'[g] = stack[g]
  BY PushTypes DEF TInv
<1>2. TInv'
  BY <1>1 DEF TInv, TypeOK, HasScope
<1>3. LInv => LInv'
  <2> SUFFICES ASSUME LInv, seen' = {} PROVE OnlyMain'
    BY <1>2 DEF LInv
  <2>1. OnlyMain /\ seen = {}
    BY DEF LInv
  <2>2. stack[f] \in Seq(Frame) /\ Main \in Fiber
    BY FiberAssumption DEF TInv, TypeOK
  <2>3. Lexical(stack[f], scope)
    BY <2>1 DEF OnlyMain
  <2>4. Lexical(Append(stack[f], fr), fr.ctx)
    BY <2>2, <2>3, LexicalPush
  <2> QED
    BY <1>1, <2>1, <2>4 DEF OnlyMain
<1>4. FInv => FInv'
  <2> SUFFICES ASSUME FInv, asked' = "short", seen' \subseteq {"late"} PROVE Forgets'
    BY <1>2 DEF FInv
  <2>1. \A g \in Fiber : \A i \in DOMAIN stack[g] :
          stack[g][i].ctx = "short" /\ ~stack[g][i].restore /\ stack[g][i].kind # "event"
    BY DEF FInv, Forgets, TInv, HasScope
  <2>2. stack[f] \in Seq(Frame)
    BY DEF TInv, TypeOK
  <2>3. \A i \in DOMAIN stack'[f] : (i \in DOMAIN stack[f] /\ stack'[f][i] = stack[f][i]) \/ stack'[f][i] = fr
    BY <1>1, <2>2, Appended
  <2>4. \A g \in Fiber : \A i \in DOMAIN stack'[g] :
          stack'[g][i].ctx = "short" /\ ~stack'[g][i].restore /\ stack'[g][i].kind # "event"
    <3>1. fr.ctx = "short" /\ ~fr.restore /\ fr.kind # "event"
      OBVIOUS
    <3>2. ASSUME NEW g \in Fiber, g # f, NEW i \in DOMAIN stack'[g]
          PROVE  i \in DOMAIN stack[g] /\ stack'[g][i] = stack[g][i]
      BY <1>1, <3>2
    <3>3. ASSUME NEW i \in DOMAIN stack'[f]
          PROVE  stack'[f][i].ctx = "short" /\ ~stack'[f][i].restore /\ stack'[f][i].kind # "event"
      BY <2>1, <2>3, <3>1, <3>3
    <3> QED
      BY <2>1, <3>2, <3>3
  <2> QED
    BY <2>4 DEF Forgets
<1> QED
  BY <1>2, <1>3, <1>4

LEMMA RequestKeeps ==
  ASSUME TInv, Request
  PROVE  TInv' /\ (LInv => LInv') /\ (FInv => FInv')
<1>1. PICK contextual \in Requests, override \in Overrides :
        asked' = contextual /\ Chat(Main, contextual, override)
  BY DEF Request
<1>2. contextual \in Kind /\ Main \in Fiber
  BY KindAssumption, FiberAssumption
<1> DEFINE fr == ChatFrame(contextual, override)
<1>3. /\ fr \in Frame /\ Pushed(Main, fr) /\ scope' = contextual /\ parked' \in BOOLEAN
      /\ seen' = IF override = "none" THEN seen ELSE seen \cup {"override"}
  BY <1>1, <1>2, ChatEffect DEF TInv
<1>4. /\ asked = "none" /\ queued = 0 /\ seen = {} /\ stack[Main] = <<>>
      /\ queued' = queued /\ events' = events /\ events \in Nat
  BY <1>2 DEF Request, TInv, HasScope, TypeOK
<1>5. override = "none" => fr.ctx = contextual
  BY DEF ChatFrame, Effective
<1>6. fr.ctx = fr.want /\ fr.kind = "entry" /\ fr.restore = FALSE
  BY DEF ChatFrame
<1> HIDE DEF fr
<1>7. seen' = {} => override = "none"
  BY <1>3
<1>8. seen' \subseteq {"late"} => override = "none"
  BY <1>3
<1>9. /\ asked' # "none" /\ asked' \in Kind /\ scope' \in Kind /\ seen \subseteq seen'
      /\ seen' \subseteq {"override", "late", "create"} /\ queued' \in Nat /\ events' \in Nat
  BY <1>1, <1>2, <1>3, <1>4 DEF Kind
<1>10. seen' = {} => scope' = fr.ctx
  BY <1>3, <1>5, <1>7
<1>11. asked' = "short" /\ seen' \subseteq {"late"} => scope' = "short" /\ fr.ctx = "short"
  BY <1>1, <1>3, <1>5, <1>8
<1> QED
  BY <1>2, <1>3, <1>4, <1>6, <1>9, <1>10, <1>11, PushKeeps

\* The prompt on top, when the slot is a stack and when the request is to be forgotten.
LEMMA TopOfStack ==
  ASSUME TInv, NEW f \in Fiber, Busy(f)
  PROVE  /\ asked \in Kind /\ scope \in Kind /\ Top(f).ctx \in Kind
         /\ LInv /\ seen = {} =>
              /\ f = Main /\ queued = 0 /\ stack[f] # <<>>
              /\ Top(f).ctx = scope /\ Top(f).want = scope /\ Top(f).kind # "event"
         /\ FInv /\ asked = "short" /\ seen \subseteq {"late"} =>
              /\ scope = "short" /\ queued = 0
              /\ Top(f).ctx = "short" /\ ~Top(f).restore /\ Top(f).kind # "event"
<1>1. Len(stack[f]) \in DOMAIN stack[f] /\ Top(f) = stack[f][Len(stack[f])] /\ Top(f).ctx \in Kind
      /\ stack[f] # <<>>
  BY TopTypes DEF TInv, Frame, Top, Busy
<1>2. asked \in Kind /\ scope \in Kind
  BY DEF TInv, HasScope, TypeOK, Busy
<1>3. LInv /\ seen = {} =>
        /\ f = Main /\ queued = 0
        /\ Top(f).ctx = scope /\ Top(f).want = scope /\ Top(f).kind # "event"
  <2> SUFFICES ASSUME LInv, seen = {}
               PROVE  /\ f = Main /\ queued = 0
                      /\ Top(f).ctx = scope /\ Top(f).want = scope /\ Top(f).kind # "event"
    OBVIOUS
  <2>1. f = Main /\ queued = 0 /\ Lexical(stack[f], scope)
    BY <1>1 DEF LInv, OnlyMain
  <2> QED
    BY <1>1, <2>1 DEF Lexical
<1>4. FInv /\ asked = "short" /\ seen \subseteq {"late"} =>
        /\ scope = "short" /\ queued = 0
        /\ Top(f).ctx = "short" /\ ~Top(f).restore /\ Top(f).kind # "event"
  BY <1>1 DEF FInv, Forgets
<1> QED
  BY <1>1, <1>2, <1>3, <1>4

LEMMA ChatMemberKeeps ==
  ASSUME TInv, NEW f \in Fiber, ChatMember(f)
  PROVE  TInv' /\ (LInv => LInv') /\ (FInv => FInv')
<1>1. PICK override \in Overrides : Chat(f, Top(f).ctx, override)
  BY DEF ChatMember
<1>2. Busy(f) /\ UNCHANGED <<asked, queued, events>>
  BY DEF ChatMember, CanPush
<1> DEFINE contextual == Top(f).ctx
           fr == ChatFrame(contextual, override)
<1>3. contextual \in Kind
  BY <1>2, TopOfStack
<1>4. /\ fr \in Frame /\ Pushed(f, fr) /\ scope' = contextual /\ parked' \in BOOLEAN
      /\ seen' = IF override = "none" THEN seen ELSE seen \cup {"override"}
  BY <1>1, <1>3, ChatEffect DEF TInv
<1>5. override = "none" => fr.ctx = contextual
  BY DEF ChatFrame, Effective
<1>6. fr.ctx = fr.want /\ fr.kind = "entry" /\ fr.restore = FALSE
  BY DEF ChatFrame
<1> HIDE DEF fr
<1>7. /\ asked' # "none" /\ asked' \in Kind /\ scope' \in Kind /\ seen \subseteq seen'
      /\ seen' \subseteq {"override", "late", "create"} /\ queued' \in Nat /\ events' \in Nat
  BY <1>2, <1>3, <1>4, TopOfStack DEF Kind, TInv, TypeOK
<1>8. LInv /\ seen' = {} => /\ f = Main /\ queued' = 0 /\ scope' = fr.ctx /\ fr.ctx = scope
  BY <1>2, <1>4, <1>5, TopOfStack
<1>9. FInv /\ asked' = "short" /\ seen' \subseteq {"late"} =>
        asked = "short" /\ scope' = "short" /\ queued' = 0 /\ fr.ctx = "short"
  BY <1>2, <1>4, <1>5, TopOfStack
<1> QED
  BY <1>4, <1>6, <1>7, <1>8, <1>9, PushKeeps

LEMMA NestedKeeps ==
  ASSUME TInv, NEW f \in Fiber, Nested(f)
  PROVE  TInv' /\ (LInv => LInv') /\ (FInv => FInv')
<1> DEFINE fr == NestedFrame(f)
<1>1. /\ Busy(f) /\ fr \in Frame /\ Pushed(f, fr)
      /\ UNCHANGED <<scope, parked, asked, queued, events, seen>>
  BY NestedEffect
<1>2. fr.ctx = scope /\ fr.want = Top(f).want /\ fr.kind = "nested" /\ fr.restore = FALSE
  BY DEF NestedFrame
<1> HIDE DEF fr
<1>3. /\ asked' # "none" /\ asked' \in Kind /\ scope' \in Kind /\ parked' \in BOOLEAN
      /\ seen' \subseteq {"override", "late", "create"} /\ queued' \in Nat /\ events' \in Nat
  BY <1>1, TopOfStack DEF Kind, TInv, TypeOK
<1>4. LInv /\ seen' = {} => f = Main /\ queued' = 0 /\ scope' = fr.ctx /\ fr.ctx = fr.want
  BY <1>1, <1>2, TopOfStack
<1>5. FInv /\ asked' = "short" /\ seen' \subseteq {"late"} =>
        asked = "short" /\ scope' = "short" /\ queued' = 0 /\ fr.ctx = "short"
  BY <1>1, <1>2, TopOfStack
<1> QED
  BY <1>1, <1>2, <1>3, <1>4, <1>5, PushKeeps

LEMMA WhenKeeps ==
  ASSUME TInv, NEW f \in Fiber, When(f)
  PROVE  TInv' /\ (LInv => LInv') /\ (FInv => FInv')
<1> DEFINE fr == WhenFrame(f)
<1>1. /\ Busy(f) /\ fr \in Frame /\ Pushed(f, fr)
      /\ scope' = (IF Top(f).ctx = "long" THEN "short" ELSE scope) /\ parked' \in BOOLEAN
      /\ UNCHANGED <<asked, queued, events, seen>>
  BY WhenEffect
<1>2. /\ fr.ctx = scope' /\ fr.want = "short" /\ fr.kind = "when"
      /\ fr.restore = (Top(f).ctx = "long")
  BY <1>1 DEF WhenFrame
<1> HIDE DEF fr
<1>3. /\ asked' # "none" /\ asked' \in Kind /\ scope' \in Kind
      /\ seen' \subseteq {"override", "late", "create"} /\ queued' \in Nat /\ events' \in Nat
  BY <1>1, TopOfStack DEF Kind, TInv, TypeOK
<1>4. LInv /\ seen' = {} =>
        /\ f = Main /\ queued' = 0 /\ fr.ctx = fr.want
        /\ fr.restore => stack[f] # <<>> /\ scope = "long"
        /\ ~fr.restore => fr.ctx = scope
  BY <1>1, <1>2, TopOfStack DEF Kind
<1>5. FInv /\ asked' = "short" /\ seen' \subseteq {"late"} =>
        asked = "short" /\ scope' = "short" /\ queued' = 0 /\ ~fr.restore
  BY <1>1, <1>2, TopOfStack
<1> QED
  BY <1>1, <1>2, <1>3, <1>4, <1>5, PushKeeps

\* A prompt ends: by Return, or with the event of a listener emitted.
LEMMA ReturnKeeps ==
  ASSUME TInv, NEW f \in Fiber, Return(f)
  PROVE  TInv' /\ (LInv => LInv') /\ (FInv => FInv')
<1>1. /\ Busy(f) /\ Popped(f)
      /\ scope' = (IF Top(f).restore THEN "long" ELSE scope) /\ parked' \in BOOLEAN
      /\ UNCHANGED <<asked, queued, events, seen>>
  BY ReturnEffect
<1>2. /\ stack' \in [Fiber -> Seq(Frame)] /\ stack'[f] = SubSeq(stack[f], 1, Len(stack[f]) - 1)
      /\ \A g \in Fiber \ {f} : stack'[g] = stack[g]
  BY <1>1, PopTypes DEF TInv
<1>3. asked \in Kind /\ scope \in Kind /\ stack[f] \in Seq(Frame) /\ stack[f] # <<>>
  BY <1>1, TopOfStack DEF TInv, TypeOK, Busy
<1>4. TInv'
  BY <1>1, <1>2, <1>3 DEF TInv, TypeOK, HasScope, Kind
<1>5. LInv => LInv'
  <2> SUFFICES ASSUME LInv, seen' = {} PROVE OnlyMain'
    BY <1>4 DEF LInv
  <2>1. OnlyMain /\ f = Main
    BY <1>1, TopOfStack DEF LInv
  <2>2. Lexical(stack[f], scope)
    BY <2>1 DEF OnlyMain
  <2>3. Lexical(SubSeq(stack[f], 1, Len(stack[f]) - 1), scope')
    BY <1>1, <1>3, <2>2, LexicalPop DEF Top
  <2> QED
    BY <1>1, <1>2, <2>1, <2>3 DEF OnlyMain
<1>6. FInv => FInv'
  <2> SUFFICES ASSUME FInv, asked' = "short", seen' \subseteq {"late"} PROVE Forgets'
    BY <1>4 DEF FInv
  <2>1. Forgets /\ ~Top(f).restore
    BY <1>1, TopOfStack DEF FInv
  <2>2. 1 \in 1..(Len(stack[f]) + 1) /\ Len(stack[f]) - 1 \in 0..Len(stack[f])
    BY <1>3
  <2>3. \A i \in DOMAIN stack'[f] : i \in DOMAIN stack[f] /\ stack'[f][i] = stack[f][i]
    BY <1>2, <1>3, <2>2
  <2> QED
    BY <1>1, <1>2, <2>1, <2>3 DEF Forgets
<1> QED
  BY <1>4, <1>5, <1>6

LEMMA EmitNextKeeps ==
  ASSUME TInv, NEW f \in Fiber, EmitNext(f)
  PROVE  TInv' /\ (LInv => LInv') /\ (FInv => FInv')
<1>1. /\ Len(stack[f]) = 1 /\ Top(f).kind = "event" /\ Popped(f)
      /\ queued' = queued + 1 /\ events' = events + 1 /\ UNCHANGED <<scope, parked, asked, seen>>
  BY DEF EmitNext, Popped
<1>2. Busy(f)
  <2>1. ASSUME stack[f] = <<>> PROVE Len(stack[f]) = 0
    BY <2>1
  <2> QED
    BY <1>1, <2>1 DEF Busy
<1>3. stack' \in [Fiber -> Seq(Frame)]
  BY <1>1, <1>2, PopTypes DEF TInv
<1>4. TInv'
  BY <1>1, <1>2, <1>3, TopOfStack DEF TInv, TypeOK, HasScope, Kind
<1> QED
  BY <1>1, <1>2, <1>4, TopOfStack DEF LInv, FInv

LEMMA MemberNotReadyKeeps ==
  ASSUME TInv, NEW f \in Fiber, MemberNotReady(f)
  PROVE  TInv' /\ (LInv => LInv') /\ (FInv => FInv')
<1>1. /\ Busy(f) /\ scope' = Top(f).ctx /\ scope' \in Kind /\ parked' \in BOOLEAN
      /\ seen' = seen \/ seen' = seen \cup {"override"}
      /\ UNCHANGED <<stack, asked, queued, events>>
  BY NotReadyEffect
<1>2. TInv'
  BY <1>1, TopOfStack DEF TInv, TypeOK, HasScope, Kind
<1>3. LInv /\ seen' = {} => scope' = scope /\ seen = {}
  BY <1>1, TopOfStack
<1>4. FInv /\ asked' = "short" /\ seen' \subseteq {"late"} =>
        asked = "short" /\ seen \subseteq {"late"} /\ scope' = scope
  BY <1>1, TopOfStack
<1> QED
  BY <1>1, <1>2, <1>3, <1>4 DEF LInv, FInv, OnlyMain, Forgets

LEMMA PendKeeps ==
  ASSUME TInv, NEW f \in Fiber, NEW g \in Fiber, Pend(f, g)
  PROVE  TInv' /\ (LInv => LInv') /\ (FInv => FInv')
<1>1. /\ asked # "none" /\ stack' \in [Fiber -> Seq(Frame)]
      /\ \/ scope' = scope
         \/ /\ scope' = "long"
            /\ \E o \in Fiber : \E m \in DOMAIN stack[o] : stack[o][m].restore
      /\ parked' \in BOOLEAN /\ seen' = seen \cup {"late"}
      /\ UNCHANGED <<asked, queued, events>>
  BY PendEffect
<1>2. \A h \in Fiber : \A n \in DOMAIN stack'[h] :
         \E o \in Fiber : \E m \in DOMAIN stack[o] :
            /\ stack'[h][n].ctx = stack[o][m].ctx /\ stack'[h][n].kind = stack[o][m].kind
            /\ stack'[h][n].restore => stack[o][m].restore
  BY PendEffect
<1>3. TInv'
  BY <1>1 DEF TInv, TypeOK, HasScope, Kind
<1>4. seen' # {}
  BY <1>1
<1>5. FInv => FInv'
  <2> SUFFICES ASSUME FInv, asked' = "short", seen' \subseteq {"late"} PROVE Forgets'
    BY <1>3 DEF FInv
  <2>1. Forgets
    BY <1>1 DEF FInv
  <2>2. scope' = scope /\ queued' = queued
    BY <1>1, <2>1 DEF Forgets
  <2> QED
    BY <1>2, <2>1, <2>2 DEF Forgets
<1> QED
  BY <1>3, <1>4, <1>5 DEF LInv

LEMMA CreateMemberKeeps ==
  ASSUME TInv, NEW f \in Fiber, CreateMember(f)
  PROVE  TInv' /\ (LInv => LInv') /\ (FInv => FInv')
<1>1. /\ Busy(f) /\ scope' = "long" /\ parked' \in BOOLEAN /\ seen' = seen \cup {"create"}
      /\ asked' = asked /\ queued' \in Nat /\ events' \in Nat
  BY EventEffect DEF CreateMember, Saw, TInv, TypeOK
<1>2. stack' = stack \/ Pushed(f, EventFrame)
  BY EventEffect DEF CreateMember, TInv
<1>3. stack' \in [Fiber -> Seq(Frame)]
  BY <1>2, PushTypes, EventEffect DEF TInv, TypeOK
<1>4. TInv'
  BY <1>1, <1>3, TopOfStack DEF TInv, TypeOK, HasScope, Kind
<1>5. seen' # {} /\ ~(seen' \subseteq {"late"})
  BY <1>1
<1> QED
  BY <1>4, <1>5 DEF LInv, FInv

LEMMA DeliverKeeps ==
  ASSUME TInv, NEW f \in Fiber, Deliver(f)
  PROVE  TInv' /\ (LInv => LInv') /\ (FInv => FInv')
<1>1. /\ queued > 0 /\ scope' = "long" /\ parked' \in BOOLEAN /\ Pushed(f, EventFrame)
      /\ queued' = queued - 1 /\ UNCHANGED <<asked, events, seen>>
  BY EventEffect DEF Deliver, TInv
<1>2. stack' \in [Fiber -> Seq(Frame)]
  BY <1>1, PushTypes, EventEffect DEF TInv
<1>3. asked # "none"
  BY <1>1 DEF TInv, HasScope
<1>4. TInv'
  BY <1>1, <1>2, <1>3 DEF TInv, TypeOK, HasScope, Kind
<1>5. (LInv => seen # {}) /\ (FInv => ~(asked = "short" /\ seen \subseteq {"late"}))
  BY <1>1 DEF LInv, OnlyMain, FInv, Forgets
<1> QED
  BY <1>1, <1>4, <1>5 DEF LInv, FInv

LEMMA StepKeeps == TInv /\ [Next]_vars => TInv' /\ (LInv => LInv') /\ (FInv => FInv')
<1> SUFFICES ASSUME TInv, [Next]_vars PROVE TInv' /\ (LInv => LInv') /\ (FInv => FInv')
  OBVIOUS
<1>1. CASE UNCHANGED vars
  BY <1>1 DEF vars, TInv, TypeOK, HasScope, LInv, OnlyMain, FInv, Forgets
<1> QED
  BY <1>1, RequestKeeps, ChatMemberKeeps, MemberNotReadyKeeps, NestedKeeps, WhenKeeps, ReturnKeeps,
     CreateMemberKeeps, DeliverKeeps, EmitNextKeeps, PendKeeps DEF Next

(* prompts.service.ts, chats.service.ts: every state has its types; in particular a prompt *)
(* never captures a scope before there is one.                                             *)
THEOREM TypeCorrect == Spec => []TypeOK
<1>1. TInv => TypeOK
  BY DEF TInv
<1>2. TInv /\ [Next]_vars => TInv'
  BY StepKeeps
<1> QED
  BY <1>1, <1>2, InitTInv, PTL DEF Spec

(* prompts.service.ts initContext, getContext: as long as nothing answers late, overrides *)
(* or creates, every prompt runs in the scope it was meant to, however deep they nest.    *)
THEOREM ContextIsLexicalHolds == Spec => []ContextIsLexical
<1>1. LInv => ContextIsLexical
  <2> SUFFICES ASSUME LInv, seen = {}, NEW fr \in Frames PROVE fr.ctx = fr.want
    BY DEF ContextIsLexical
  <2>1. PICK f \in Fiber : \E i \in DOMAIN stack[f] : fr = stack[f][i]
    BY DEF Frames
  <2>2. f = Main /\ Lexical(stack[f], scope)
    BY <2>1 DEF LInv, OnlyMain
  <2> QED
    BY <2>1, <2>2 DEF Lexical
<1>2. LInv /\ [Next]_vars => LInv'
  BY StepKeeps DEF LInv
<1> QED
  BY <1>1, <1>2, InitInvs, PTL DEF Spec

(* prompts.service.ts:198, actor.tool.ts "Actor forgets what just chatted": nothing that a *)
(* contextless request processes runs in the longrun scope, however late it is answered,   *)
(* unless it creates members or meets entries that override.                               *)
THEOREM ContextlessForgetsHolds == Spec => []ContextlessForgets
<1>1. FInv => ContextlessForgets
  BY DEF FInv, Forgets, ContextlessForgets, Frames
<1>2. FInv /\ [Next]_vars => FInv'
  BY StepKeeps DEF FInv
<1> QED
  BY <1>1, <1>2, InitInvs, PTL DEF Spec
=============================================================================
