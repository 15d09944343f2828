------------------------------ MODULE RuleEngine ------------------------------
(***************************************************************************)
(* One run of the response rules of a prompt: process, handleResponseRules,*)
(* handleResponseRule, doRuleWhenMatches, _semanticMatch and               *)
(* doRuleThenAction of src/src/actors/prompts/prompts.service.ts.          *)
(*                                                                         *)
(* The tool of the prompt answers, then the rules are gone through: the    *)
(* when clause decides between then and else, loop and break steer.  Any   *)
(* of these prompts may answer later (a QuickResponse); the run returns    *)
(* and a promise chain takes it up again with the index the rule left.     *)
(* Positions count from 1: pos is the program's dto.idx plus one.          *)
(***************************************************************************)
EXTENDS Naturals, Sequences

CONSTANTS
    RuleLists,  \* the `responses` a prompt may have
    End         \* Number.MAX_SAFE_INTEGER

Breaks == {"no", "yes", "tag"}
Whens == {"none", "empty", "prompt"}
Rule == [when : Whens, orElse : BOOLEAN, loop : BOOLEAN, break : Breaks]

ASSUME RuleAssumption == RuleLists \subseteq Seq(Rule)
ASSUME EndAssumption == End \in Nat /\ \A l \in RuleLists : Len(l) < End

VARIABLES
    rules,      \* chatPrompt.responses
    at,         \* the prompt being processed, "for" between rules, or how the run ended
    waiting,    \* that prompt answers later
    via,        \* the rule is being handled by a promise chain
    pos,        \* the rule to handle
    ok,         \* the current response has statusCode 0
    begun,      \* history: the rules begun so far
    last,       \* history: the rule handled last and how it was decided
    late        \* history: a clause of a rule answered later

vars == <<rules, at, waiting, via, pos, ok, begun, last, late>>

Words == {"yes", "no", "ErrorHandle"}
NoRule == [rule |-> 0, matched |-> FALSE, word |-> "no", evalOk |-> TRUE, ok |-> TRUE]

TypeOK ==
    /\ rules \in RuleLists
    /\ at \in {"to", "for", "when", "then", "else", "done", "threw"}
    /\ waiting \in BOOLEAN /\ via \in BOOLEAN /\ ok \in BOOLEAN
    /\ pos \in 0..(Len(rules) + 1) \cup {End, End + 1}
    /\ begun \subseteq 1..Len(rules)
    /\ last \in [rule : 0..Len(rules), matched : BOOLEAN, word : Words,
                 evalOk : BOOLEAN, ok : BOOLEAN]
    /\ late \in BOOLEAN

Init ==
    /\ rules \in RuleLists
    /\ at = "to" /\ waiting = FALSE /\ via = FALSE
    /\ pos = 1 /\ ok = TRUE
    /\ begun = {} /\ last = NoRule /\ late = FALSE

-----------------------------------------------------------------------------
\* A prompt answers later.  If it is the prompt's own tool, the run resumes at the
\* first rule; if it is a clause, its rule is handled on the chain.
Pend(prompt) ==
    /\ at = prompt /\ ~waiting
    /\ waiting' = TRUE
    /\ via' = (prompt # "to")
    /\ late' = (late \/ prompt # "to")

ToPends == Pend("to") /\ UNCHANGED <<rules, at, pos, ok, begun, last>>

ToAnswers ==
    /\ at = "to"
    /\ at' = "for" /\ waiting' = FALSE
    /\ ok' \in BOOLEAN
    /\ UNCHANGED <<rules, via, pos, begun, last, late>>

InList == pos \in 1..Len(rules)

\* Whether word and status of the evaluated when clause match (_semanticMatch).
SemanticMatch(word, evalOk) ==
    /\ evalOk
    /\ \/ word = "yes"
       \/ word = "ErrorHandle" /\ ~evalOk

\* Faulty variants: `idx += MAX`; the loop's idx++ is missing.
RuleOverAddsEnd(i, matched, chained) ==
    (IF matched /\ rules[i].break # "no" THEN i + End ELSE i) + 1
RuleOverStays(i, matched, chained) ==
    IF matched /\ rules[i].break # "no" /\ ~rules[i].loop THEN End ELSE i

\* The branch of doRuleThenAction.  Without a branch the rule is over at once.
RuleOver(i, matched, chained) ==
    LET r == rules[i]
        left == IF matched /\ r.loop THEN i - 1
                ELSE IF matched /\ r.break # "no" THEN End ELSE i
    IN  IF chained THEN left ELSE left + 1

Decide(matched, chained) ==
    IF matched THEN at' = "then" /\ UNCHANGED pos
    ELSE IF rules[pos].orElse THEN at' = "else" /\ UNCHANGED pos
    ELSE at' = "for" /\ pos' = RuleOver(pos, FALSE, chained)

\* Without a when clause a rule matches every response that is no error.
BeginRule ==
    /\ at = "for" /\ InList
    /\ rules[pos].when # "empty"
    /\ begun' = begun \cup {pos}
    /\ via' = FALSE
    /\ IF rules[pos].when = "prompt"
         THEN at' = "when" /\ UNCHANGED <<pos, last>>
         ELSE Decide(ok, FALSE) /\ last' = [NoRule EXCEPT !.rule = pos, !.matched = ok, !.ok = ok]
    /\ UNCHANGED <<rules, waiting, ok, late>>

WhenPends == Pend("when") /\ UNCHANGED <<rules, at, pos, ok, begun, last>>

\* The when clause is evaluated on a copy of the response.
WhenAnswers ==
    /\ at = "when"
    /\ waiting' = FALSE
    /\ UNCHANGED via
    /\ \E word \in Words, evalOk \in BOOLEAN :
          /\ Decide(SemanticMatch(word, evalOk), via)
          /\ last' = [rule |-> pos, matched |-> SemanticMatch(word, evalOk),
                      word |-> word, evalOk |-> evalOk, ok |-> ok]
    /\ UNCHANGED <<rules, ok, begun, late>>

\* `break: tag` is not implemented: it throws as soon as then is under way.
BreaksToTag == at = "then" /\ rules[pos].break = "tag" /\ ~rules[pos].loop

ThenPends ==
    /\ ~BreaksToTag
    /\ Pend("then")
    /\ UNCHANGED <<rules, at, pos, ok, begun, last>>

ThenAnswers ==
    /\ at = "then" /\ ~BreaksToTag
    /\ ok' \in BOOLEAN
    /\ at' = "for" /\ waiting' = FALSE
    /\ pos' = RuleOver(pos, TRUE, via)
    /\ UNCHANGED <<rules, via, begun, last, late>>

ThenThrows ==
    /\ BreaksToTag
    /\ at' = "threw"
    /\ UNCHANGED <<rules, waiting, via, pos, ok, begun, last, late>>

ElsePends == Pend("else") /\ UNCHANGED <<rules, at, pos, ok, begun, last>>

\* "else will not activate flow control"
ElseAnswers ==
    /\ at = "else"
    /\ ok' \in BOOLEAN
    /\ at' = "for" /\ waiting' = FALSE
    /\ pos' = RuleOver(pos, FALSE, via)
    /\ UNCHANGED <<rules, via, begun, last, late>>

Finish ==
    /\ at = "for"
    /\ pos > Len(rules)
    /\ at' = "done"
    /\ UNCHANGED <<rules, waiting, via, pos, ok, begun, last, late>>

\* An empty or null when clause is neither undefined nor evaluated, and matching the
\* undefined outcome throws; so does reading the when clause of responses[-1].
NoWhenThrows ==
    /\ at = "for"
    /\ pos = 0 \/ (InList /\ rules[pos].when = "empty")
    /\ at' = "threw"
    /\ UNCHANGED <<rules, waiting, via, pos, ok, begun, last, late>>

Next ==
    \/ ToPends \/ ToAnswers \/ BeginRule
    \/ WhenPends \/ WhenAnswers
    \/ ThenPends \/ ThenAnswers \/ ThenThrows
    \/ ElsePends \/ ElseAnswers
    \/ Finish \/ NoWhenThrows

Spec == Init /\ [][Next]_vars

\* Every prompt answers in the end, and the run goes on when it does.
Fairness ==
    /\ WF_vars(ToAnswers) /\ WF_vars(WhenAnswers) /\ WF_vars(ThenAnswers)
    /\ WF_vars(ElseAnswers) /\ WF_vars(BeginRule) /\ WF_vars(Finish)
    /\ WF_vars(ThenThrows) /\ WF_vars(NoWhenThrows)

FairSpec == Spec /\ Fairness

-----------------------------------------------------------------------------
(***************************************************************************)
(* Properties                                                              *)
(***************************************************************************)
Over == at \in {"done", "threw"}

\* The rule to come after the last one, as the documentation of `loop` and `break`
\* has it (src/src/hosts/vo/chat-prompt.ts).
RuleAfter(l) ==
    LET r == rules[l.rule]
    IN  IF l.matched /\ r.loop THEN l.rule
        ELSE IF l.matched /\ r.break = "yes" THEN Len(rules) + 1
        ELSE l.rule + 1

\* A break was taken.
Broken(l) == l.matched /\ rules[l.rule].break = "yes" /\ ~rules[l.rule].loop

\* "following rules will be went through": after each rule comes the documented one,
\* whatever the clauses answer, as long as only the prompt's own tool answers later.  And
\* whoever answers late, none is passed over: before a rule is begun every rule above it
\* was, and a run that is done began them all unless a break ended it.
RulesInOrder ==
    /\ at = "for" /\ last.rule > 0 /\ ~late =>
         \/ pos = RuleAfter(last)
         \/ pos > Len(rules) /\ RuleAfter(last) > Len(rules)
    /\ \A i \in begun : i = 1 \/ i - 1 \in begun
    /\ at = "done" => begun = 1..Len(rules) \/ Broken(last)

\* A run whose rules do not loop ends, unless a clause answers later: its chain leaves
\* the index at the rule it handled, which is then begun again.
RunEnds == (\A i \in DOMAIN rules : ~rules[i].loop) ~> Over \/ late
=============================================================================
