----------------------------- MODULE Derivations -----------------------------
(***************************************************************************)
(* What a call of the evaluator comes to, as rules.  A judgment says how an *)
(* application ends, or how it ends from some keyword or step of it on; a  *)
(* derivation is a list of judgments, each following from earlier ones by  *)
(* a rule.  The rules know of no evaluation state, runner or pool: of what *)
(* surrounds an application they see the dynamic scope, the applications   *)
(* open around it and the depth, and nothing that ran before.              *)
(*                                                                         *)
(* Evaluation does the same one step at a time on states it reuses; that   *)
(* every call of it ends as the rules say is proved in DerivationProofs.   *)
(***************************************************************************)
EXTENDS Evaluation

\* What an application, or a part of one, adds to its surroundings.
Nothing == [errors |-> << >>, deps |-> << >>, notes |-> << >>]
Joined(a, b) == [errors |-> a.errors \o b.errors, deps |-> a.deps \o b.deps,
                 notes |-> a.notes \o b.notes]

\* How an application ends: who throws leaves nothing that counts.
Thrown(name) == [thrown |-> name, ok |-> FALSE, left |-> Nothing]
Gives(ok, left) == [thrown |-> "", ok |-> ok, left |-> left]

\* What surrounds an application: of a call, and of what it applies in turn.
FirstEnv(call) == [scope |-> call.scope, active |-> << >>, depth |-> call.depth]
FirstAsk(call) == [to |-> call.to, at |-> call.at, path |-> << >>]
Pushes(env, ask) == env.scope = << >> \/ Top(env.scope) # SchemaBase(ask.to)
Inside(env, ask) ==
  [scope  |-> IF Pushes(env, ask) THEN Append(env.scope, SchemaBase(ask.to)) ELSE env.scope,
   active |-> Append(env.active, [on |-> ask.to, at |-> ask.at]),
   depth  |-> env.depth + 1]

\* A place: an application about to come to its keyword next, with the verdict
\* and what is left so far.
Place(env, ask, next, valid, left) ==
  [env |-> env, ask |-> ask, next |-> next, valid |-> valid, left |-> left]
Begun(env, ask) == Place(env, ask, 1, TRUE, Nothing)
Past(p, valid, left) == Place(p.env, p.ask, p.next + 1, valid, left)

TableAt(p) == SchemaTable(p.ask.to)
KeywordOf(p) == TableAt(p)[p.next]
SeenAt(p, deps) == Visible(deps, KeywordOf(p), p.ask.at, p.ask.path)
NoteOf(p) == [kw |-> KeywordOf(p).kw, on |-> KeywordOf(p).on,
              loc |-> p.ask.at.loc, path |-> p.ask.path]

\* Some steps of the keyword have answered.
Mid(verdicts, left) == [verdicts |-> verdicts, left |-> left]
NoAnswer == Mid(<< >>, Nothing)

StepsOf(p) == KeywordSteps(KeywordOf(p), p.ask.at, SeenAt(p, p.left.deps))
StepOf(p, m) == StepsOf(p)[Len(m.verdicts) + 1]
AskOf(p, m) ==
  [to   |-> KeywordTarget(StepOf(p, m), KeywordOf(p), Inside(p.env, p.ask).scope),
   at   |-> StepOf(p, m).at,
   path |-> p.ask.path \o StepOf(p, m).segs]
CallOf(step) == [to |-> step.to, at |-> step.at, scope |-> << >>, depth |-> 0]

OutcomeOf(p, m) ==
  KeywordOutcome(KeywordOf(p), p.ask.at, SeenAt(p, p.left.deps \o m.left.deps), m.verdicts)
ReportsOf(p, m) ==
  [i \in DOMAIN OutcomeOf(p, m).reports |->
     ErrorOf(KeywordOf(p).kw, KeywordOf(p).on, p.ask.at, p.ask.path, OutcomeOf(p, m).reports[i])]
RecordsOf(p, m) ==
  [i \in DOMAIN OutcomeOf(p, m).data |->
     [id |-> KeywordOf(p).id, loc |-> p.ask.at.loc, path |-> p.ask.path,
      data |-> OutcomeOf(p, m).data[i]]]

\* What is left once the keyword has decided: the errors of its steps count
\* only if it rejects.
LeftBy(e, p, m) ==
  [errors |-> IF OutcomeOf(p, m).ok THEN p.left.errors
              ELSE p.left.errors \o m.left.errors \o ReportsOf(p, m),
   deps   |-> p.left.deps \o m.left.deps
              \o IF e /\ KeywordOf(p).id \notin Consumed THEN << >> ELSE RecordsOf(p, m),
   notes  |-> IF Annotation(KeywordOf(p)) /\ ~e
              THEN Append(p.left.notes \o m.left.notes, NoteOf(p))
              ELSE p.left.notes \o m.left.notes]

-----------------------------------------------------------------------------
(* Judgments.                                                              *)

Applies(env, ask, out) == [kind |-> "application", of |-> [env |-> env, ask |-> ask], out |-> out]
Continues(p, out) == [kind |-> "keywords", of |-> p, out |-> out]
Steps(p, m, out) == [kind |-> "steps", of |-> [place |-> p, mid |-> m], out |-> out]
AppliesCall(call, out) == Applies(FirstEnv(call), FirstAsk(call), out)

(***************************************************************************)
(* The rules, for an evaluator that elides or not (e), from judgments D.   *)
(***************************************************************************)
ApplicationRule(env, ask, out, D) ==
  IF env.depth < MaxDepth
  THEN \/ SchemaKind(ask.to) = "true" /\ out = Gives(TRUE, Nothing)
       \/ /\ SchemaKind(ask.to) = "false"
          /\ out = Gives(FALSE, [Nothing EXCEPT !.errors =
                     <<ErrorOf("", ask.to, ask.at, ask.path, << >>)>>])
       \/ SchemaKind(ask.to) = "junk" /\ out = Thrown("InvalidSchema")
       \/ /\ SchemaKind(ask.to) = "object"
          /\ IF Loops(env.active, ask) THEN out = Thrown("InfiniteLoop")
             ELSE Continues(Begun(env, ask), out) \in D
  ELSE out = Thrown("MaxDepth")

\* A schema that rejects leaves its errors and nothing else.
FinishedWith(p) ==
  Gives(p.valid, IF p.valid THEN p.left ELSE [Nothing EXCEPT !.errors = p.left.errors])

Skipped(e, p) ==
  Past(p, p.valid, IF e THEN p.left ELSE [p.left EXCEPT !.notes = Append(@, NoteOf(p))])

KeywordRule(e, p, out, D) ==
  IF p.next <= Len(TableAt(p))
  THEN \/ /\ IsUnknown(KeywordOf(p))
          /\ IF AllowsUnknownAt(p.ask.to) THEN Continues(Skipped(e, p), out) \in D
             ELSE out = Thrown("UnknownKeyword")
       \/ /\ ~IsUnknown(KeywordOf(p))
          /\ IF e /\ ~(KeywordReads(KeywordOf(p), p.ask.at) \subseteq Consumed)
             THEN out = Thrown("UndeclaredConsumption")
             ELSE Steps(p, NoAnswer, out) \in D
  ELSE out = FinishedWith(p)

Answered(m, ok, left) == Mid(Append(m.verdicts, ok), Joined(m.left, left))
\* A call leaves its verdict alone.
Heard(m, ok) == Mid(Append(m.verdicts, ok), m.left)

Unanswered(p, m) == Len(m.verdicts) < Len(StepsOf(p))

ApplyRule(p, m, out, D) ==
  /\ Unanswered(p, m)
  /\ StepOf(p, m).how # "call"
  /\ IF SchemaKind(AskOf(p, m).to) = "missing" THEN out = Thrown("Unresolvable")
     ELSE \E inner :
            /\ Applies(Inside(p.env, p.ask), AskOf(p, m), inner) \in D
            /\ IF inner.thrown # "" THEN out = Thrown(inner.thrown)
               ELSE Steps(p, Answered(m, inner.ok, inner.left), out) \in D

\* What user code makes of a call that threw is its own affair.
CallRule(p, m, out, D) ==
  /\ Unanswered(p, m)
  /\ StepOf(p, m).how = "call"
  /\ \E inner :
       /\ AppliesCall(CallOf(StepOf(p, m)), inner) \in D
       /\ IF inner.thrown # ""
          THEN \/ out = Thrown(inner.thrown)
               \/ \E ok \in BOOLEAN : Steps(p, Heard(m, ok), out) \in D
          ELSE Steps(p, Heard(m, inner.ok), out) \in D

\* A keyword may produce only what some schema declares, and may not report an
\* error and accept.
EndRule(e, p, m, out, D) ==
  /\ ~Unanswered(p, m)
  /\ IF OutcomeOf(p, m).data # << >> /\ KeywordOf(p).id \notin Produced
     THEN out = Thrown("UndeclaredProduction")
     ELSE IF OutcomeOf(p, m).ok /\ OutcomeOf(p, m).reports # << >>
     THEN out = Thrown("KeywordContract")
     ELSE Continues(Past(p, p.valid /\ OutcomeOf(p, m).ok, LeftBy(e, p, m)), out) \in D

StepRule(e, p, m, out, D) ==
  ApplyRule(p, m, out, D) \/ CallRule(p, m, out, D) \/ EndRule(e, p, m, out, D)

Follows(e, j, D) ==
  \/ j.kind = "application" /\ ApplicationRule(j.of.env, j.of.ask, j.out, D)
  \/ j.kind = "keywords" /\ KeywordRule(e, j.of, j.out, D)
  \/ j.kind = "steps" /\ StepRule(e, j.of.place, j.of.mid, j.out, D)

Derivation(e, d) ==
  IsSeq(d) /\ \A i \in DOMAIN d : Follows(e, d[i], {d[h] : h \in 1..(i - 1)})
Derived(e, j) == \E d : Derivation(e, d) /\ \E i \in DOMAIN d : d[i] = j
=============================================================================
