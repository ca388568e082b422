--------------------------- MODULE DerivationProofs ---------------------------
(***************************************************************************)
(* Proofs about Derivations: that every call the evaluator ends, ends as   *)
(* the rules say, whatever state it ran on and whatever ran before it or   *)
(* inside it; and that the rules give a call one result.  From the         *)
(* invariant they need follows when the cycle guard is exact.              *)
(***************************************************************************)
EXTENDS Derivations, EvaluationProofs, InductionLemmas

-----------------------------------------------------------------------------
(* Lists end to end.                                                       *)

LEMMA JoinEntries ==
  ASSUME NEW s, IsSeq(s), NEW t, IsSeq(t)
  PROVE  /\ IsSeq(s \o t)
         /\ Len(s \o t) = Len(s) + Len(t)
         /\ DOMAIN (s \o t) = 1..(Len(s) + Len(t))
         /\ \A i \in 1..Len(s) : (s \o t)[i] = s[i]
         /\ \A i \in 1..Len(t) : (s \o t)[Len(s) + i] = t[i]
  <1> DEFINE S == {s[i] : i \in DOMAIN s} \union {t[i] : i \in DOMAIN t}
  <1>1. s \in Seq(S) /\ t \in Seq(S)
    BY DEF IsSeq
  <1>2. IsSeq(s \o t) /\ Len(s \o t) = Len(s) + Len(t)
    BY JoinFacts
  <1> HIDE DEF S
  <1>3. /\ \A i \in 1..Len(s) : (s \o t)[i] = s[i]
        /\ \A i \in 1..Len(t) : (s \o t)[Len(s) + i] = t[i]
    BY <1>1
  <1>4. DOMAIN (s \o t) = 1..(Len(s) + Len(t))
    BY <1>2, ListFacts
  <1>5. QED  BY <1>2, <1>3, <1>4

LEMMA JoinAgain ==
  ASSUME NEW s, IsSeq(s), NEW t, IsSeq(t), NEW u, IsSeq(u)
  PROVE  (s \o t) \o u = s \o (t \o u)
  <1> DEFINE S == {s[i] : i \in DOMAIN s} \union {t[i] : i \in DOMAIN t} \union {u[i] : i \in DOMAIN u}
  <1>1. s \in Seq(S) /\ t \in Seq(S) /\ u \in Seq(S)
    BY DEF IsSeq
  <1> HIDE DEF S
  <1>2. QED  BY <1>1

LEMMA JoinNothing ==
  ASSUME NEW s, IsSeq(s)
  PROVE  s \o << >> = s /\ << >> \o s = s
  <1> DEFINE S == {s[i] : i \in DOMAIN s}
  <1>1. s \in Seq(S)
    BY DEF IsSeq
  <1> HIDE DEF S
  <1>2. QED  BY <1>1

LEMMA JoinOne ==
  ASSUME NEW s, IsSeq(s), NEW t, IsSeq(t), NEW x
  PROVE  Append(s \o t, x) = s \o Append(t, x)
  <1> DEFINE S == {s[i] : i \in DOMAIN s} \union {t[i] : i \in DOMAIN t} \union {x}
  <1>1. s \in Seq(S) /\ t \in Seq(S) /\ x \in S
    BY DEF IsSeq
  <1> HIDE DEF S
  <1>2. QED  BY <1>1

LEMMA DropJoined ==
  ASSUME NEW s, IsSeq(s), NEW t, IsSeq(t)
  PROVE  Drop(s \o t, Len(s)) = s
  <1> DEFINE S == {s[i] : i \in DOMAIN s} \union {t[i] : i \in DOMAIN t}
  <1>1. s \in Seq(S) /\ t \in Seq(S)
    BY DEF IsSeq
  <1> HIDE DEF S
  <1>2. QED  BY <1>1 DEF Drop

LEMMA ButLastAppended ==
  ASSUME NEW s, IsSeq(s), NEW x
  PROVE  ButLast(Append(s, x)) = s /\ Top(Append(s, x)) = x
  <1> DEFINE S == {s[i] : i \in DOMAIN s} \union {x}
  <1>1. s \in Seq(S) /\ x \in S
    BY DEF IsSeq
  <1> HIDE DEF S
  <1>2. QED  BY <1>1 DEF ButLast, Top

-----------------------------------------------------------------------------
(* Derivations.                                                            *)

LEMMA FollowsFromMore ==
  ASSUME NEW e, NEW j, NEW D, NEW E, D \subseteq E, Follows(e, j, D)
  PROVE  Follows(e, j, E)
  <1>1. ASSUME NEW env, NEW ask, NEW out, ApplicationRule(env, ask, out, D)
        PROVE  ApplicationRule(env, ask, out, E)
    BY <1>1 DEF ApplicationRule
  <1>2. ASSUME NEW p, NEW out, KeywordRule(e, p, out, D)
        PROVE  KeywordRule(e, p, out, E)
    BY <1>2 DEF KeywordRule
  <1>3. ASSUME NEW p, NEW m, NEW out, StepRule(e, p, m, out, D)
        PROVE  StepRule(e, p, m, out, E)
    BY <1>3 DEF StepRule, ApplyRule, CallRule, EndRule
  <1>4. QED  BY <1>1, <1>2, <1>3 DEF Follows

\* Every judgment of c is in b.
Includes(b, c) == \A i \in DOMAIN c : \E k \in DOMAIN b : b[k] = c[i]

\* Two derivations, one after the other, are one.
LEMMA DerivationsJoin ==
  ASSUME NEW e, NEW c, NEW d, Derivation(e, c), Derivation(e, d)
  PROVE  Derivation(e, c \o d) /\ Includes(c \o d, c) /\ Includes(c \o d, d)
  <1> DEFINE n == Len(c)
             m == Len(d)
             b == c \o d
  <1>1. /\ n \in Nat /\ m \in Nat /\ DOMAIN c = 1..n /\ DOMAIN d = 1..m
        /\ IsSeq(c) /\ IsSeq(d)
    BY ListFacts DEF Derivation
  <1>2. /\ IsSeq(b) /\ DOMAIN b = 1..(n + m)
        /\ \A i \in 1..n : b[i] = c[i]
        /\ \A i \in 1..m : b[n + i] = d[i]
    BY <1>1, JoinEntries
  <1> HIDE DEF b, n, m
  <1>3. ASSUME NEW i \in 1..(n + m)  PROVE Follows(e, b[i], {b[h] : h \in 1..(i - 1)})
    <2>1. CASE i \in 1..n
      <3>1. Follows(e, c[i], {c[h] : h \in 1..(i - 1)})
        BY <1>1, <2>1 DEF Derivation
      <3>2. {c[h] : h \in 1..(i - 1)} \subseteq {b[h] : h \in 1..(i - 1)}
        <4>1. \A h \in 1..(i - 1) : h \in 1..n
          BY <1>1, <2>1
        <4>2. QED  BY <1>2, <4>1
      <3>3. b[i] = c[i]
        BY <1>2, <2>1
      <3>4. Follows(e, c[i], {b[h] : h \in 1..(i - 1)})
        BY <3>1, <3>2, FollowsFromMore
      <3>5. QED  BY <3>3, <3>4
    <2>2. CASE i \notin 1..n
      <3> DEFINE k == i - n
      <3>1. k \in 1..m /\ i = n + k
        BY <1>1, <2>2
      <3> HIDE DEF k
      <3>2. Follows(e, d[k], {d[h] : h \in 1..(k - 1)})
        BY <1>1, <3>1 DEF Derivation
      <3>3. {d[h] : h \in 1..(k - 1)} \subseteq {b[h] : h \in 1..(i - 1)}
        <4>1. \A h \in 1..(k - 1) : h \in 1..m /\ n + h \in 1..(i - 1)
          BY <1>1, <3>1
        <4>2. QED  BY <1>2, <4>1
      <3>4. b[i] = d[k]
        BY <1>2, <3>1
      <3>5. Follows(e, d[k], {b[h] : h \in 1..(i - 1)})
        BY <3>2, <3>3, FollowsFromMore
      <3>6. QED  BY <3>4, <3>5
    <2>3. QED  BY <2>1, <2>2
  <1>4. Derivation(e, b)
    BY <1>2, <1>3 DEF Derivation
  <1>5. \A i \in 1..n : i \in 1..(n + m) /\ b[i] = c[i]
    BY <1>1, <1>2
  <1>6. \A i \in 1..m : n + i \in 1..(n + m) /\ b[n + i] = d[i]
    BY <1>1, <1>2
  <1>7. QED  BY <1>1, <1>2, <1>4, <1>5, <1>6 DEF b, Includes

\* What follows from the judgments of a derivation extends it.
LEMMA DerivationGrows ==
  ASSUME NEW e, NEW d, Derivation(e, d), NEW j, Follows(e, j, {d[i] : i \in DOMAIN d})
  PROVE  Derived(e, j)
  <1> DEFINE n == Len(d)
             b == Append(d, j)
  <1>1. /\ IsSeq(d) /\ n \in Nat /\ DOMAIN d = 1..n
    BY ListFacts DEF Derivation
  <1>2. /\ IsSeq(b) /\ Len(b) = n + 1
        /\ \A i \in 1..n : b[i] = d[i]
        /\ b[n + 1] = j
    BY <1>1, AppendFacts
  <1>3. DOMAIN b = 1..(n + 1)
    BY <1>2, ListFacts
  <1> HIDE DEF b, n
  <1>4. ASSUME NEW i \in 1..(n + 1)  PROVE Follows(e, b[i], {b[h] : h \in 1..(i - 1)})
    <2>1. \A h \in 1..(i - 1) : h \in 1..n
      BY <1>1
    <2>2. {b[h] : h \in 1..(i - 1)} = {d[h] : h \in 1..(i - 1)}
      BY <1>2, <2>1
    <2>3. CASE i \in 1..n
      BY <1>1, <1>2, <2>2, <2>3 DEF Derivation
    <2>4. CASE i \notin 1..n
      <3>1. i = n + 1 /\ 1..(i - 1) = 1..n
        BY <1>1, <2>4
      <3>2. QED  BY <1>1, <1>2, <2>2, <3>1
    <2>5. QED  BY <2>3, <2>4
  <1>5. Derivation(e, b)
    BY <1>2, <1>3, <1>4 DEF Derivation
  <1>6. n + 1 \in DOMAIN b
    BY <1>1, <1>3
  <1>7. QED  BY <1>2, <1>5, <1>6 DEF Derived

LEMMA DerivedFrom ==
  ASSUME NEW e, NEW a, NEW b, Derived(e, a), Derived(e, b), NEW j, Follows(e, j, {a, b})
  PROVE  Derived(e, j)
  <1>1. PICK c : Derivation(e, c) /\ \E i \in DOMAIN c : c[i] = a
    BY DEF Derived
  <1>2. PICK d : Derivation(e, d) /\ \E i \in DOMAIN d : d[i] = b
    BY DEF Derived
  <1> DEFINE both == c \o d
  <1>3. Derivation(e, both) /\ Includes(both, c) /\ Includes(both, d)
    BY <1>1, <1>2, DerivationsJoin
  <1> HIDE DEF both
  <1>4. {a, b} \subseteq {both[k] : k \in DOMAIN both}
    BY <1>1, <1>2, <1>3 DEF Includes
  <1>5. Follows(e, j, {both[k] : k \in DOMAIN both})
    BY <1>4, FollowsFromMore
  <1>6. QED  BY <1>3, <1>5, DerivationGrows

LEMMA DerivedAtOnce ==
  ASSUME NEW e, NEW j, Follows(e, j, {})
  PROVE  Derived(e, j)
  <1>1. Derivation(e, << >>)
    BY EmptyList DEF Derivation
  <1>2. Follows(e, j, {<< >>[i] : i \in DOMAIN << >>})
    BY FollowsFromMore
  <1>3. QED  BY <1>1, <1>2, DerivationGrows

-----------------------------------------------------------------------------
(* The rules, read forwards: how far an application is known to come.      *)

Comes(e, env, ask, out) == Derived(e, Applies(env, ask, out))
\* The application comes to this place, to this step: however it ends from
\* there, it ends.
Reaches(e, p) == \A out : Derived(e, Continues(p, out)) => Comes(e, p.env, p.ask, out)
ReachesStep(e, p, m) == \A out : Derived(e, Steps(p, m, out)) => Comes(e, p.env, p.ask, out)

LEMMA RuleForms ==
  ASSUME NEW e, NEW D
  PROVE  /\ \A env, ask, out :
              ApplicationRule(env, ask, out, D) => Follows(e, Applies(env, ask, out), D)
         /\ \A p, out : KeywordRule(e, p, out, D) => Follows(e, Continues(p, out), D)
         /\ \A p, m, out : StepRule(e, p, m, out, D) => Follows(e, Steps(p, m, out), D)
  <1>1. ASSUME NEW env, NEW ask, NEW out, ApplicationRule(env, ask, out, D)
        PROVE  Follows(e, Applies(env, ask, out), D)
    BY <1>1 DEF Follows, Applies
  <1>2. ASSUME NEW p, NEW out, KeywordRule(e, p, out, D)
        PROVE  Follows(e, Continues(p, out), D)
    BY <1>2 DEF Follows, Continues
  <1>3. ASSUME NEW p, NEW m, NEW out, StepRule(e, p, m, out, D)
        PROVE  Follows(e, Steps(p, m, out), D)
    BY <1>3 DEF Follows, Steps
  <1>4. QED  BY <1>1, <1>2, <1>3

\* From a place on, what follows from one or two judgments.
LEMMA FromPlace ==
  ASSUME NEW e, NEW p, Reaches(e, p)
  PROVE  /\ \A out : KeywordRule(e, p, out, {}) => Comes(e, p.env, p.ask, out)
         /\ \A out, a : KeywordRule(e, p, out, {a}) /\ Derived(e, a) => Comes(e, p.env, p.ask, out)
  <1>1. ASSUME NEW out, KeywordRule(e, p, out, {})  PROVE Comes(e, p.env, p.ask, out)
    <2>1. Follows(e, Continues(p, out), {})
      BY <1>1, RuleForms
    <2>2. QED  BY <2>1, DerivedAtOnce DEF Reaches
  <1>2. ASSUME NEW out, NEW a, KeywordRule(e, p, out, {a}), Derived(e, a)
        PROVE  Comes(e, p.env, p.ask, out)
    <2>1. {a} = {a, a}
      OBVIOUS
    <2>2. Follows(e, Continues(p, out), {a, a})
      BY <1>2, <2>1, RuleForms
    <2>3. QED  BY <1>2, <2>2, DerivedFrom DEF Reaches
  <1>3. QED  BY <1>1, <1>2

LEMMA FromStep ==
  ASSUME NEW e, NEW p, NEW m, ReachesStep(e, p, m)
  PROVE  /\ \A out : StepRule(e, p, m, out, {}) => Comes(e, p.env, p.ask, out)
         /\ \A out, a, b : StepRule(e, p, m, out, {a, b}) /\ Derived(e, a) /\ Derived(e, b)
                             => Comes(e, p.env, p.ask, out)
  <1>1. ASSUME NEW out, StepRule(e, p, m, out, {})  PROVE Comes(e, p.env, p.ask, out)
    <2>1. Follows(e, Steps(p, m, out), {})
      BY <1>1, RuleForms
    <2>2. QED  BY <2>1, DerivedAtOnce DEF ReachesStep
  <1>2. ASSUME NEW out, NEW a, NEW b, StepRule(e, p, m, out, {a, b}), Derived(e, a), Derived(e, b)
        PROVE  Comes(e, p.env, p.ask, out)
    <2>1. Follows(e, Steps(p, m, out), {a, b})
      BY <1>2, RuleForms
    <2>2. QED  BY <1>2, <2>1, DerivedFrom DEF ReachesStep
  <1>3. QED  BY <1>1, <1>2

\* An application that ends at once, and one that begins.
LEMMA EndsAtOnce ==
  ASSUME NEW e, NEW env, NEW ask, NEW out, ApplicationRule(env, ask, out, {})
  PROVE  Comes(e, env, ask, out)
  BY RuleForms, DerivedAtOnce DEF Comes

Opens(env, ask) ==
  env.depth < MaxDepth /\ SchemaKind(ask.to) = "object" /\ ~Loops(env.active, ask)

LEMMA BeginReaches ==
  ASSUME NEW e, NEW env, NEW ask, Opens(env, ask)
  PROVE  Reaches(e, Begun(env, ask))
  <1> DEFINE p == Begun(env, ask)
  <1>1. p.env = env /\ p.ask = ask
    BY DEF Begun, Place
  <1> HIDE DEF p
  <1>2. SUFFICES ASSUME NEW out, Derived(e, Continues(p, out))
                 PROVE  Comes(e, env, ask, out)
    BY <1>1 DEF Reaches, p
  <1> DEFINE a == Continues(p, out)
  <1>3. ApplicationRule(env, ask, out, {a, a})
    BY DEF ApplicationRule, Opens, p
  <1> HIDE DEF a
  <1>4. Follows(e, Applies(env, ask, out), {a, a})
    BY <1>3, RuleForms
  <1>5. Derived(e, a)
    BY <1>2 DEF a
  <1>6. QED  BY <1>4, <1>5, DerivedFrom DEF Comes

\* A keyword: unknown, refused, or begun.
LEMMA UnknownReaches ==
  ASSUME NEW e, NEW p, Reaches(e, p), p.next <= Len(TableAt(p)), IsUnknown(KeywordOf(p))
  PROVE  /\ AllowsUnknownAt(p.ask.to) => Reaches(e, Skipped(e, p))
         /\ ~AllowsUnknownAt(p.ask.to) => Comes(e, p.env, p.ask, Thrown("UnknownKeyword"))
  <1>1. ASSUME ~AllowsUnknownAt(p.ask.to)
        PROVE  Comes(e, p.env, p.ask, Thrown("UnknownKeyword"))
    <2>1. KeywordRule(e, p, Thrown("UnknownKeyword"), {})
      BY <1>1 DEF KeywordRule
    <2>2. QED  BY <2>1, FromPlace
  <1>2. ASSUME AllowsUnknownAt(p.ask.to), NEW out, Derived(e, Continues(Skipped(e, p), out))
        PROVE  Comes(e, p.env, p.ask, out)
    <2>1. KeywordRule(e, p, out, {Continues(Skipped(e, p), out)})
      BY <1>2 DEF KeywordRule
    <2>2. QED  BY <1>2, <2>1, FromPlace
  <1>3. Skipped(e, p).env = p.env /\ Skipped(e, p).ask = p.ask
    BY DEF Skipped, Past, Place
  <1>4. QED  BY <1>1, <1>2, <1>3 DEF Reaches

LEMMA KeywordReaches ==
  ASSUME NEW e, NEW p, Reaches(e, p), p.next <= Len(TableAt(p)), ~IsUnknown(KeywordOf(p))
  PROVE  IF e /\ ~(KeywordReads(KeywordOf(p), p.ask.at) \subseteq Consumed)
         THEN Comes(e, p.env, p.ask, Thrown("UndeclaredConsumption"))
         ELSE ReachesStep(e, p, NoAnswer)
  <1> DEFINE refused == e /\ ~(KeywordReads(KeywordOf(p), p.ask.at) \subseteq Consumed)
  <1>1. ASSUME refused  PROVE Comes(e, p.env, p.ask, Thrown("UndeclaredConsumption"))
    <2>1. KeywordRule(e, p, Thrown("UndeclaredConsumption"), {})
      BY <1>1 DEF KeywordRule
    <2>2. QED  BY <2>1, FromPlace
  <1>2. ASSUME ~refused, NEW out, Derived(e, Steps(p, NoAnswer, out))
        PROVE  Comes(e, p.env, p.ask, out)
    <2>1. KeywordRule(e, p, out, {Steps(p, NoAnswer, out)})
      BY <1>2 DEF KeywordRule
    <2>2. QED  BY <1>2, <2>1, FromPlace
  <1>3. QED  BY <1>1, <1>2 DEF ReachesStep

LEMMA LastReaches ==
  ASSUME NEW e, NEW p, Reaches(e, p), ~(p.next <= Len(TableAt(p)))
  PROVE  Comes(e, p.env, p.ask, FinishedWith(p))
  <1>1. KeywordRule(e, p, FinishedWith(p), {})
    BY DEF KeywordRule
  <1>2. QED  BY <1>1, FromPlace

\* A step: of an application that is missing, answered or broken off.
Applying(p, m) == Unanswered(p, m) /\ StepOf(p, m).how # "call"
Calls(p, m) == Unanswered(p, m) /\ StepOf(p, m).how = "call"

LEMMA MissingReaches ==
  ASSUME NEW e, NEW p, NEW m, ReachesStep(e, p, m), Applying(p, m),
         SchemaKind(AskOf(p, m).to) = "missing"
  PROVE  Comes(e, p.env, p.ask, Thrown("Unresolvable"))
  <1>1. StepRule(e, p, m, Thrown("Unresolvable"), {})
    BY DEF StepRule, ApplyRule, Applying
  <1>2. QED  BY <1>1, FromStep

LEMMA AnswerReaches ==
  ASSUME NEW e, NEW p, NEW m, ReachesStep(e, p, m), Applying(p, m),
         SchemaKind(AskOf(p, m).to) # "missing",
         NEW inner, Comes(e, Inside(p.env, p.ask), AskOf(p, m), inner)
  PROVE  /\ inner.thrown = "" => ReachesStep(e, p, Answered(m, inner.ok, inner.left))
         /\ inner.thrown # "" => Comes(e, p.env, p.ask, Thrown(inner.thrown))
  <1> DEFINE a == Applies(Inside(p.env, p.ask), AskOf(p, m), inner)
  <1>1. Derived(e, a)
    BY DEF Comes
  <1>2. ASSUME inner.thrown # ""  PROVE Comes(e, p.env, p.ask, Thrown(inner.thrown))
    <2> DEFINE D == {a, a}
    <2>1. Applies(Inside(p.env, p.ask), AskOf(p, m), inner) \in D
      OBVIOUS
    <2> HIDE DEF D
    <2>2. StepRule(e, p, m, Thrown(inner.thrown), D)
      BY <1>2, <2>1 DEF StepRule, ApplyRule, Applying
    <2> HIDE DEF a
    <2>3. QED  BY <1>1, <2>2, FromStep DEF D
  <1>3. ASSUME inner.thrown = "", NEW out,
               Derived(e, Steps(p, Answered(m, inner.ok, inner.left), out))
        PROVE  Comes(e, p.env, p.ask, out)
    <2> DEFINE b == Steps(p, Answered(m, inner.ok, inner.left), out)
    <2> DEFINE D == {a, b}
    <2>1. /\ Applies(Inside(p.env, p.ask), AskOf(p, m), inner) \in D
          /\ Steps(p, Answered(m, inner.ok, inner.left), out) \in D
      OBVIOUS
    <2> HIDE DEF D
    <2>2. StepRule(e, p, m, out, D)
      BY <1>3, <2>1 DEF StepRule, ApplyRule, Applying
    <2>3. Derived(e, b)
      BY <1>3
    <2> HIDE DEF a, b
    <2>4. QED  BY <1>1, <2>2, <2>3, FromStep DEF D
  <1>4. QED  BY <1>2, <1>3 DEF ReachesStep

\* A call: heard, or thrown and caught, or thrown on.
LEMMA CallReaches ==
  ASSUME NEW e, NEW p, NEW m, ReachesStep(e, p, m), Calls(p, m),
         NEW inner, Derived(e, AppliesCall(CallOf(StepOf(p, m)), inner))
  PROVE  /\ inner.thrown = "" => ReachesStep(e, p, Heard(m, inner.ok))
         /\ inner.thrown # "" => Comes(e, p.env, p.ask, Thrown(inner.thrown))
         /\ inner.thrown # "" => \A ok \in BOOLEAN : ReachesStep(e, p, Heard(m, ok))
  <1> DEFINE a == AppliesCall(CallOf(StepOf(p, m)), inner)
  <1>1. Derived(e, a)
    OBVIOUS
  <1>2. ASSUME inner.thrown # ""  PROVE Comes(e, p.env, p.ask, Thrown(inner.thrown))
    <2> DEFINE D == {a, a}
    <2>1. AppliesCall(CallOf(StepOf(p, m)), inner) \in D
      OBVIOUS
    <2> HIDE DEF D
    <2>2. StepRule(e, p, m, Thrown(inner.thrown), D)
      BY <1>2, <2>1 DEF StepRule, CallRule, Calls
    <2> HIDE DEF a
    <2>3. QED  BY <1>1, <2>2, FromStep DEF D
  <1>3. ASSUME inner.thrown = "" , NEW out, Derived(e, Steps(p, Heard(m, inner.ok), out))
        PROVE  Comes(e, p.env, p.ask, out)
    <2> DEFINE b == Steps(p, Heard(m, inner.ok), out)
    <2> DEFINE D == {a, b}
    <2>1. /\ AppliesCall(CallOf(StepOf(p, m)), inner) \in D
          /\ Steps(p, Heard(m, inner.ok), out) \in D
      OBVIOUS
    <2> HIDE DEF D
    <2>2. StepRule(e, p, m, out, D)
      BY <1>3, <2>1 DEF StepRule, CallRule, Calls
    <2>3. Derived(e, b)
      BY <1>3
    <2> HIDE DEF a, b
    <2>4. QED  BY <1>1, <2>2, <2>3, FromStep DEF D
  <1>4. ASSUME inner.thrown # "", NEW ok \in BOOLEAN, NEW out, Derived(e, Steps(p, Heard(m, ok), out))
        PROVE  Comes(e, p.env, p.ask, out)
    <2> DEFINE b == Steps(p, Heard(m, ok), out)
    <2> DEFINE D == {a, b}
    <2>1. /\ AppliesCall(CallOf(StepOf(p, m)), inner) \in D
          /\ Steps(p, Heard(m, ok), out) \in D
      OBVIOUS
    <2> HIDE DEF D
    <2>2. StepRule(e, p, m, out, D)
      BY <1>4, <2>1 DEF StepRule, CallRule, Calls
    <2>3. Derived(e, b)
      BY <1>4
    <2> HIDE DEF a, b
    <2>4. QED  BY <1>1, <2>2, <2>3, FromStep DEF D
  <1>5. QED  BY <1>2, <1>3, <1>4 DEF ReachesStep

\* The end of a keyword.
Undeclared(p, m) == OutcomeOf(p, m).data # << >> /\ KeywordOf(p).id \notin Produced
Contradicts(p, m) == OutcomeOf(p, m).ok /\ OutcomeOf(p, m).reports # << >>
PastKeyword(e, p, m) == Past(p, p.valid /\ OutcomeOf(p, m).ok, LeftBy(e, p, m))

LEMMA EndReaches ==
  ASSUME NEW e, NEW p, NEW m, ReachesStep(e, p, m), ~Unanswered(p, m)
  PROVE  /\ Undeclared(p, m) => Comes(e, p.env, p.ask, Thrown("UndeclaredProduction"))
         /\ ~Undeclared(p, m) /\ Contradicts(p, m) =>
              Comes(e, p.env, p.ask, Thrown("KeywordContract"))
         /\ ~Undeclared(p, m) /\ ~Contradicts(p, m) => Reaches(e, PastKeyword(e, p, m))
  <1>1. ASSUME Undeclared(p, m)  PROVE Comes(e, p.env, p.ask, Thrown("UndeclaredProduction"))
    <2>1. StepRule(e, p, m, Thrown("UndeclaredProduction"), {})
      BY <1>1 DEF StepRule, EndRule, Undeclared
    <2>2. QED  BY <2>1, FromStep
  <1>2. ASSUME ~Undeclared(p, m), Contradicts(p, m)
        PROVE  Comes(e, p.env, p.ask, Thrown("KeywordContract"))
    <2>1. StepRule(e, p, m, Thrown("KeywordContract"), {})
      BY <1>2 DEF StepRule, EndRule, Undeclared, Contradicts
    <2>2. QED  BY <2>1, FromStep
  <1>3. ASSUME ~Undeclared(p, m), ~Contradicts(p, m), NEW out,
               Derived(e, Continues(PastKeyword(e, p, m), out))
        PROVE  Comes(e, p.env, p.ask, out)
    <2> DEFINE a == Continues(PastKeyword(e, p, m), out)
    <2>1. StepRule(e, p, m, out, {a, a})
      BY <1>3 DEF StepRule, EndRule, Undeclared, Contradicts, PastKeyword
    <2>2. Derived(e, a)
      BY <1>3
    <2> HIDE DEF a
    <2>3. QED  BY <2>1, <2>2, FromStep
  <1>4. PastKeyword(e, p, m).env = p.env /\ PastKeyword(e, p, m).ask = p.ask
    BY DEF PastKeyword, Past, Place
  <1>5. QED  BY <1>1, <1>2, <1>3, <1>4 DEF Reaches

-----------------------------------------------------------------------------
(* The evaluator keeps to the rules.  A run stands on levels, one for each *)
(* application it has open and one for the application it is about to make *)
(* or has made: where the application stands, what was asked, the errors   *)
(* reported before it and the frame under its own.  Each open application  *)
(* is at a place and, while its keyword waits for answers, amid its steps. *)

\* The schemas and the cursors evaluation is about.  Keywords answer in lists and
\* keep to them, whatever records they see and whatever their steps answered.
CONSTANTS Schemas, Cursors

Addressed(x) == x.to \in Schemas /\ x.at \in Cursors

\* A dynamic scope is made of the bases of schemas and of those calls bring along.
CallBases == UNION {UNION {{script[i].scope[j] : j \in DOMAIN script[i].scope} :
                           i \in DOMAIN script} : script \in Scripts}
Bases == {SchemaBase(n) : n \in Schemas} \union CallBases
Based(scope) == IsSeq(scope) /\ \A j \in DOMAIN scope : scope[j] \in Bases
ProperCall(call) == Addressed(call) /\ Based(call.scope)
Verdicts(vs) == IsSeq(vs) /\ \A i \in DOMAIN vs : vs[i] \in BOOLEAN

ProperStep(step, k) ==
  IF step.how = "call" THEN Addressed(step)
  ELSE step.at \in Cursors /\ \A scope : Based(scope) =>
         KeywordTarget(step, k, scope) \in Schemas
         \/ SchemaKind(KeywordTarget(step, k, scope)) = "missing"
ProperSteps(k, c, seen) ==
  /\ IsSeq(KeywordSteps(k, c, seen))
  /\ \A i \in DOMAIN KeywordSteps(k, c, seen) : ProperStep(KeywordSteps(k, c, seen)[i], k)
ProperOutcome(k, c, seen, vs) ==
  IsSeq(KeywordOutcome(k, c, seen, vs).reports) /\ IsSeq(KeywordOutcome(k, c, seen, vs).data)
ProperKeyword(k, c) ==
  \A deps, path : IsSeq(deps) =>
    /\ ProperSteps(k, c, Visible(deps, k, c, path))
    /\ \A vs : Verdicts(vs) => ProperOutcome(k, c, Visible(deps, k, c, path), vs)
KeywordsAreProper ==
  \A n \in Schemas : SchemaKind(n) = "object" =>
    /\ IsSeq(SchemaTable(n))
    /\ \A i \in DOMAIN SchemaTable(n) : \A c \in Cursors : ProperKeyword(SchemaTable(n)[i], c)
ScriptsAreProper == \A script \in Scripts : \A i \in DOMAIN script : Addressed(script[i])

LeftShape(left) ==
  /\ DOMAIN left = {"errors", "deps", "notes"}
  /\ left = [errors |-> left.errors, deps |-> left.deps, notes |-> left.notes]
  /\ IsSeq(left.errors) /\ IsSeq(left.deps) /\ IsSeq(left.notes)
EnvShape(env) ==
  /\ env = [scope |-> env.scope, active |-> env.active, depth |-> env.depth]
  /\ Based(env.scope) /\ IsSeq(env.active) /\ env.depth \in Nat
FrameShape(f) ==
  f = [deps |-> f.deps, notes |-> f.notes] /\ IsSeq(f.deps) /\ IsSeq(f.notes)
LevelShape(l) ==
  /\ EnvShape(l.env) /\ Addressed(l.ask)
  /\ IsSeq(l.errors) /\ FrameShape(l.base)

FrameOver(base, left) == [deps |-> base.deps \o left.deps, notes |-> base.notes \o left.notes]
FirstLevel(call) ==
  [env |-> FirstEnv(call), ask |-> FirstAsk(call), errors |-> << >>, base |-> EmptyFrame]
NextLevel(l, p, m) ==
  [env |-> Inside(p.env, p.ask), ask |-> AskOf(p, m),
   errors |-> (l.errors \o p.left.errors) \o m.left.errors, base |-> FrameOver(p.left, m.left)]

EnvIn(st) == [scope |-> st.scope, active |-> st.active, depth |-> st.depth]

\* The open application act is at place p of level l.
ActAt(act, l, p) ==
  /\ LevelShape(l) /\ Opens(l.env, l.ask)
  /\ p.env = l.env /\ p.ask = l.ask /\ LeftShape(p.left)
  /\ act.on = l.ask.to /\ act.at = l.ask.at /\ act.path = l.ask.path
  /\ act.pushed <=> Pushes(l.env, l.ask)
  /\ act.next = p.next /\ p.next \in Nat /\ p.next > 0
  /\ act.valid = p.valid /\ p.valid \in BOOLEAN

\* Its keyword is amid its steps; or waits for the application of the next level.
Working(e, act, l, p, m) ==
  /\ p.next <= Len(TableAt(p)) /\ ~IsUnknown(KeywordOf(p))
  /\ act.steps = StepsOf(p) /\ act.verdicts = m.verdicts /\ Verdicts(m.verdicts)
  /\ act.mark = Len(l.errors \o p.left.errors)
  /\ LeftShape(m.left)
  /\ ReachesStep(e, p, m)
Waits(e, act, l, p, m, next) ==
  /\ Working(e, act, l, p, m)
  /\ Applying(p, m) /\ SchemaKind(AskOf(p, m).to) # "missing"
  /\ next = NextLevel(l, p, m)

AtApply(run, st, n, l) ==
  /\ ~Threw(run) /\ run.ask = l.ask /\ LevelShape(l)
  /\ st.errors = l.errors /\ st.frames[n + 1] = l.base
AtReturn(e, run, st, n, l) ==
  /\ ~Threw(run) /\ LevelShape(l)
  /\ \E left : /\ LeftShape(left)
               /\ Comes(e, l.env, l.ask, Gives(run.ok, left))
               /\ st.errors = l.errors \o left.errors
               /\ st.frames[n + 1] = FrameOver(l.base, left)
AtKeyword(e, run, st, n, l, p) ==
  /\ ~Threw(run) /\ Reaches(e, p)
  /\ st.errors = l.errors \o p.left.errors
  /\ st.frames[n + 1] = [deps |-> p.left.deps, notes |-> p.left.notes]
AtStep(e, run, st, n, act, l, p, m) ==
  /\ ~Threw(run) /\ Working(e, act, l, p, m)
  /\ st.errors = (l.errors \o p.left.errors) \o m.left.errors
  /\ st.frames[n + 1] = FrameOver(p.left, m.left)
AtThrow(e, run, l) == Threw(run) /\ Comes(e, l.env, l.ask, Thrown(run.thrown))

Position(e, run, st, L, P, M) ==
  LET n == Len(run.acts)
  IN /\ run.pc \in {"apply", "return"} /\ n > 0 =>
          Waits(e, run.acts[n], L[n], P[n], M[n], L[n + 1])
     /\ run.pc = "apply" => AtApply(run, st, n, L[n + 1])
     /\ run.pc = "return" => AtReturn(e, run, st, n, L[n + 1])
     /\ run.pc = "keyword" => AtKeyword(e, run, st, n, L[n], P[n])
     /\ run.pc = "step" => AtStep(e, run, st, n, run.acts[n], L[n], P[n], M[n])
     /\ run.pc = "throw" => AtThrow(e, run, L[IF n = 0 THEN 1 ELSE n])
     /\ run.pc = "done" => IF Threw(run) THEN AtThrow(e, run, L[1])
                           ELSE AtReturn(e, run, st, 0, L[1])

Stack(e, run, st, L, P, M) ==
  LET n == Len(run.acts)
  IN /\ DOMAIN L = Nat /\ DOMAIN P = Nat /\ DOMAIN M = Nat
     /\ L[1] = FirstLevel(run.call)
     /\ \A j \in 1..n : ActAt(run.acts[j], L[j], P[j]) /\ st.frames[j] = L[j].base
     /\ \A j \in 1..n : j < n => Waits(e, run.acts[j], L[j], P[j], M[j], L[j + 1])
     /\ EnvIn(st) = IF n = 0 THEN L[1].env ELSE Inside(L[n].env, L[n].ask)

Tracks(e, run, st, L, P, M) ==
  Stack(e, run, st, L, P, M) /\ Position(e, run, st, L, P, M) /\ run.ok \in BOOLEAN
Tracked(e, run, st) == \E L, P, M : Tracks(e, run, st, L, P, M)

\* The call a run waits for is the one its keyword made.
AwaitsCall(act, call) ==
  /\ Len(act.verdicts) < Len(act.steps)
  /\ act.steps[Len(act.verdicts) + 1].how = "call"
  /\ call = CallOf(act.steps[Len(act.verdicts) + 1])
CallersAwait == \A i \in DOMAIN runs : i < Len(runs) => AwaitsCall(Top(runs[i].acts), runs[i + 1].call)

\* What a call came to, as the rules say it.
Result(made) ==
  IF made.thrown # "" THEN Thrown(made.thrown)
  ELSE Gives(made.ok, [errors |-> made.errors, deps |-> made.root.deps, notes |-> made.root.notes])
CallsAreDerived ==
  \A i \in DOMAIN last : Derived(eliding, AppliesCall(last[i].call, Result(last[i])))

TInv ==
  /\ IInv
  /\ \A i \in DOMAIN runs : Tracked(eliding, runs[i], heap[runs[i].st])
  /\ CallersAwait
  /\ CallsAreDerived
  /\ \A i \in DOMAIN due : ProperCall(due[i])

-----------------------------------------------------------------------------
(* Shapes.                                                                 *)

LEMMA NothingShape == LeftShape(Nothing)
  BY EmptyList DEF LeftShape, Nothing

LEMMA JoinedShape ==
  ASSUME NEW a, NEW b, LeftShape(a), LeftShape(b)
  PROVE  LeftShape(Joined(a, b))
  <1>1. /\ IsSeq(a.errors \o b.errors) /\ IsSeq(a.deps \o b.deps) /\ IsSeq(a.notes \o b.notes)
    BY JoinFacts DEF LeftShape
  <1>2. QED  BY <1>1 DEF LeftShape, Joined

LEMMA InsideShape ==
  ASSUME NEW env, NEW ask, EnvShape(env), Addressed(ask)
  PROVE  EnvShape(Inside(env, ask))
  <1>1. Based(Append(env.scope, SchemaBase(ask.to)))
    BY AppendFacts, ListFacts DEF EnvShape, Based, Bases, Addressed
  <1>2. IsSeq(Append(env.active, [on |-> ask.to, at |-> ask.at]))
    BY AppendFacts DEF EnvShape
  <1>3. QED  BY <1>1, <1>2 DEF EnvShape, Inside

LEMMA FrameOverShape ==
  ASSUME NEW a, NEW b, IsSeq(a.deps), IsSeq(a.notes), IsSeq(b.deps), IsSeq(b.notes)
  PROVE  FrameShape(FrameOver(a, b))
  <1>1. /\ FrameOver(a, b).deps = a.deps \o b.deps /\ FrameOver(a, b).notes = a.notes \o b.notes
        /\ FrameOver(a, b) = [deps |-> FrameOver(a, b).deps, notes |-> FrameOver(a, b).notes]
    BY DEF FrameOver
  <1>2. IsSeq(a.deps \o b.deps) /\ IsSeq(a.notes \o b.notes)
    BY JoinFacts
  <1>3. QED  BY <1>1, <1>2 DEF FrameShape

LEMMA NextLevelShape ==
  ASSUME NEW l, NEW p, NEW m, LevelShape(l), p.env = l.env, p.ask = l.ask,
         LeftShape(p.left), LeftShape(m.left), Addressed(AskOf(p, m))
  PROVE  LevelShape(NextLevel(l, p, m))
  <1> DEFINE next == NextLevel(l, p, m)
  <1>1. /\ next.env = Inside(p.env, p.ask) /\ next.ask = AskOf(p, m)
        /\ next.errors = (l.errors \o p.left.errors) \o m.left.errors
        /\ next.base = FrameOver(p.left, m.left)
    BY DEF NextLevel
  <1> HIDE DEF next
  <1>2. IsSeq(l.errors \o p.left.errors)
    BY JoinFacts DEF LevelShape, LeftShape
  <1>3. IsSeq(next.errors) /\ FrameShape(next.base)
    BY <1>1, <1>2, JoinFacts, FrameOverShape DEF LeftShape
  <1>4. EnvShape(next.env)
    BY <1>1, InsideShape DEF LevelShape
  <1>5. LevelShape(next)
    BY <1>1, <1>3, <1>4 DEF LevelShape
  <1>6. QED  BY <1>5 DEF next

\* A keyword amid its steps is one of a table, and keeps to schemas and cursors.
LEMMA WorkingKeyword ==
  ASSUME KeywordsAreProper, NEW act, NEW l, NEW p, ActAt(act, l, p),
         p.next <= Len(TableAt(p)), NEW deps, IsSeq(deps)
  PROVE  /\ ProperSteps(KeywordOf(p), p.ask.at, SeenAt(p, deps))
         /\ \A vs : Verdicts(vs) => ProperOutcome(KeywordOf(p), p.ask.at, SeenAt(p, deps), vs)
  <1>1. SchemaKind(p.ask.to) = "object" /\ p.ask.at \in Cursors /\ p.ask.to \in Schemas
    BY DEF ActAt, Opens, LevelShape, Addressed
  <1>2. IsSeq(TableAt(p))
    BY <1>1 DEF KeywordsAreProper, TableAt
  <1>3. p.next \in DOMAIN TableAt(p)
    BY <1>2, ListFacts DEF ActAt
  <1>4. ProperKeyword(KeywordOf(p), p.ask.at)
    BY <1>1, <1>3 DEF KeywordsAreProper, TableAt, KeywordOf
  <1>5. QED  BY <1>4 DEF ProperKeyword, SeenAt

LEMMA StepKeeps ==
  ASSUME KeywordsAreProper, NEW e, NEW act, NEW l, NEW p, NEW m, ActAt(act, l, p),
         Working(e, act, l, p, m), Unanswered(p, m)
  PROVE  IF StepOf(p, m).how = "call" THEN Addressed(CallOf(StepOf(p, m)))
         ELSE SchemaKind(AskOf(p, m).to) # "missing" => LevelShape(NextLevel(l, p, m))
  <1>1. ProperSteps(KeywordOf(p), p.ask.at, SeenAt(p, p.left.deps))
    <2>1. IsSeq(p.left.deps) /\ p.next <= Len(TableAt(p))
      BY DEF ActAt, LeftShape, Working
    <2>2. QED  BY <2>1, WorkingKeyword
  <1>2. IsSeq(StepsOf(p)) /\ \A i \in DOMAIN StepsOf(p) : ProperStep(StepsOf(p)[i], KeywordOf(p))
    BY <1>1 DEF ProperSteps, StepsOf
  <1>3. Len(m.verdicts) + 1 \in DOMAIN StepsOf(p)
    <2>1. IsSeq(m.verdicts)
      BY DEF Working, Verdicts
    <2>2. QED  BY <1>2, <2>1, ListFacts DEF Unanswered
  <1>4. ProperStep(StepOf(p, m), KeywordOf(p))
    BY <1>2, <1>3 DEF StepOf
  <1>5. CASE StepOf(p, m).how = "call"
    <2>1. Addressed(StepOf(p, m))
      BY <1>4, <1>5 DEF ProperStep
    <2>2. QED  BY <1>5, <2>1 DEF Addressed, CallOf
  <1>6. CASE StepOf(p, m).how # "call" /\ SchemaKind(AskOf(p, m).to) # "missing"
    <2> DEFINE scope == Inside(p.env, p.ask).scope
    <2>1. EnvShape(p.env) /\ Addressed(p.ask)
      BY DEF ActAt, LevelShape
    <2>2. Based(scope)
      BY <2>1, InsideShape DEF EnvShape
    <2>3. AskOf(p, m).to = KeywordTarget(StepOf(p, m), KeywordOf(p), scope)
          /\ AskOf(p, m).at = StepOf(p, m).at
      BY DEF AskOf
    <2> HIDE DEF scope
    <2>4. Addressed(AskOf(p, m))
      BY <1>4, <1>6, <2>2, <2>3 DEF ProperStep, Addressed
    <2>5. LevelShape(l) /\ p.env = l.env /\ p.ask = l.ask /\ LeftShape(p.left) /\ LeftShape(m.left)
      BY DEF ActAt, Working
    <2>6. LevelShape(NextLevel(l, p, m))
      BY <2>4, <2>5, NextLevelShape
    <2>7. QED  BY <1>6, <2>6
  <1>7. QED  BY <1>5, <1>6

LEMMA VerdictsGrow ==
  ASSUME NEW vs, Verdicts(vs), NEW ok \in BOOLEAN
  PROVE  Verdicts(Append(vs, ok))
  <1>1. /\ IsSeq(Append(vs, ok)) /\ Len(Append(vs, ok)) = Len(vs) + 1
        /\ \A i \in 1..Len(vs) : Append(vs, ok)[i] = vs[i]
        /\ Append(vs, ok)[Len(vs) + 1] = ok
    BY AppendFacts DEF Verdicts
  <1>2. DOMAIN Append(vs, ok) = 1..(Len(vs) + 1) /\ DOMAIN vs = 1..Len(vs) /\ Len(vs) \in Nat
    BY <1>1, ListFacts DEF Verdicts
  <1>3. \A i \in 1..(Len(vs) + 1) : i \in 1..Len(vs) \/ i = Len(vs) + 1
    BY <1>2
  <1>4. QED  BY <1>1, <1>2, <1>3 DEF Verdicts

-----------------------------------------------------------------------------
(* Moves of a stack of levels: its top changes, it grows, it shrinks.      *)

Agree(F, G, n) == \A j \in 1..n : F[j] = G[j]
Mapped(L, P, M) == DOMAIN L = Nat /\ DOMAIN P = Nat /\ DOMAIN M = Nat

LEMMA StackTop ==
  ASSUME NEW e, NEW run, NEW st, NEW L, NEW P, NEW M, Stack(e, run, st, L, P, M),
         NEW n, n = Len(run.acts), n \in Nat, n > 0,
         NEW run2, run2.call = run.call, Len(run2.acts) = n, Agree(run2.acts, run.acts, n - 1),
         NEW L2, NEW P2, NEW M2, Mapped(L2, P2, M2),
         Agree(L2, L, n), Agree(P2, P, n - 1), Agree(M2, M, n - 1),
         ActAt(run2.acts[n], L[n], P2[n]),
         NEW st2, Agree(st2.frames, st.frames, n), EnvIn(st2) = EnvIn(st)
  PROVE  Stack(e, run2, st2, L2, P2, M2)
  <1>1. /\ L[1] = FirstLevel(run.call)
        /\ \A j \in 1..n : ActAt(run.acts[j], L[j], P[j]) /\ st.frames[j] = L[j].base
        /\ \A j \in 1..n : j < n => Waits(e, run.acts[j], L[j], P[j], M[j], L[j + 1])
        /\ EnvIn(st) = Inside(L[n].env, L[n].ask)
    BY DEF Stack
  <1>2. \A j \in 1..n : j < n => j \in 1..(n - 1) /\ j + 1 \in 1..n
    OBVIOUS
  <1>3. \A j \in 1..n : j \in 1..(n - 1) \/ j = n
    OBVIOUS
  <1>4. ASSUME NEW j \in 1..n
        PROVE  ActAt(run2.acts[j], L2[j], P2[j]) /\ st2.frames[j] = L2[j].base
    <2>1. L2[j] = L[j] /\ st2.frames[j] = st.frames[j]
      BY DEF Agree
    <2>2. CASE j = n
      BY <1>1, <2>1, <2>2
    <2>3. CASE j \in 1..(n - 1)
      <3>1. run2.acts[j] = run.acts[j] /\ P2[j] = P[j]
        BY <2>3 DEF Agree
      <3>2. QED  BY <1>1, <2>1, <3>1
    <2>4. QED  BY <1>3, <2>2, <2>3
  <1>5. ASSUME NEW j \in 1..n, j < n
        PROVE  Waits(e, run2.acts[j], L2[j], P2[j], M2[j], L2[j + 1])
    <2>1. L2[j] = L[j] /\ L2[j + 1] = L[j + 1]
      BY <1>2, <1>5 DEF Agree
    <2>2. run2.acts[j] = run.acts[j] /\ P2[j] = P[j] /\ M2[j] = M[j]
      BY <1>2, <1>5 DEF Agree
    <2>3. QED  BY <1>1, <1>5, <2>1, <2>2
  <1>6. 1 \in 1..n /\ n \in 1..n
    OBVIOUS
  <1>7. L2[1] = FirstLevel(run2.call)
    BY <1>1, <1>6 DEF Agree
  <1>8. EnvIn(st2) = IF n = 0 THEN L2[1].env ELSE Inside(L2[n].env, L2[n].ask)
    BY <1>1, <1>6 DEF Agree
  <1>9. QED  BY <1>4, <1>5, <1>7, <1>8 DEF Stack, Mapped

\* The applications stay as they are.
LEMMA StackStays ==
  ASSUME NEW e, NEW run, NEW st, NEW L, NEW P, NEW M, Stack(e, run, st, L, P, M),
         NEW n, n = Len(run.acts), n \in Nat,
         NEW run2, run2.call = run.call, run2.acts = run.acts,
         NEW L2, DOMAIN L2 = Nat, Agree(L2, L, n), n = 0 => L2[1] = L[1],
         NEW st2, Agree(st2.frames, st.frames, n), EnvIn(st2) = EnvIn(st)
  PROVE  Stack(e, run2, st2, L2, P, M)
  <1>1. CASE n = 0
    <2>1. 1..n = {}
      BY <1>1
    <2>2. QED  BY <1>1, <2>1 DEF Stack
  <1>2. CASE n > 0
    <2>1. Mapped(L2, P, M) /\ Agree(run2.acts, run.acts, n - 1)
          /\ Agree(P, P, n - 1) /\ Agree(M, M, n - 1)
      BY DEF Mapped, Agree, Stack
    <2>2. ActAt(run2.acts[n], L[n], P[n])
      BY <1>2 DEF Stack
    <2>3. QED  BY <1>2, <2>1, <2>2, StackTop
  <1>3. QED  BY <1>1, <1>2

LEMMA StackGrows ==
  ASSUME NEW e, NEW run, NEW st, NEW L, NEW P, NEW M, Stack(e, run, st, L, P, M),
         NEW n, n = Len(run.acts), n \in Nat,
         NEW run2, run2.call = run.call, Len(run2.acts) = n + 1, Agree(run2.acts, run.acts, n),
         n > 0 => Waits(e, run.acts[n], L[n], P[n], M[n], L[n + 1]),
         NEW P2, DOMAIN P2 = Nat, Agree(P2, P, n),
         ActAt(run2.acts[n + 1], L[n + 1], P2[n + 1]),
         NEW st2, Agree(st2.frames, st.frames, n), st2.frames[n + 1] = L[n + 1].base,
         EnvIn(st2) = Inside(L[n + 1].env, L[n + 1].ask)
  PROVE  Stack(e, run2, st2, L, P2, M)
  <1>1. /\ L[1] = FirstLevel(run.call)
        /\ \A j \in 1..n : ActAt(run.acts[j], L[j], P[j]) /\ st.frames[j] = L[j].base
        /\ \A j \in 1..n : j < n => Waits(e, run.acts[j], L[j], P[j], M[j], L[j + 1])
        /\ DOMAIN L = Nat /\ DOMAIN M = Nat
    BY DEF Stack
  <1>2. \A j \in 1..(n + 1) : j \in 1..n \/ j = n + 1
    OBVIOUS
  <1>3. ASSUME NEW j \in 1..(n + 1)
        PROVE  ActAt(run2.acts[j], L[j], P2[j]) /\ st2.frames[j] = L[j].base
    <2>1. CASE j = n + 1
      BY <2>1
    <2>2. CASE j \in 1..n
      <3>1. run2.acts[j] = run.acts[j] /\ P2[j] = P[j] /\ st2.frames[j] = st.frames[j]
        BY <2>2 DEF Agree
      <3>2. QED  BY <1>1, <2>2, <3>1
    <2>3. QED  BY <1>2, <2>1, <2>2
  <1>4. ASSUME NEW j \in 1..(n + 1), j < n + 1
        PROVE  Waits(e, run2.acts[j], L[j], P2[j], M[j], L[j + 1])
    <2>1. j \in 1..n
      BY <1>4
    <2>2. run2.acts[j] = run.acts[j] /\ P2[j] = P[j]
      BY <2>1 DEF Agree
    <2>3. CASE j = n
      <3>1. n > 0
        BY <2>1
      <3>2. QED  BY <2>2, <2>3, <3>1
    <2>4. CASE j < n
      BY <1>1, <2>1, <2>2, <2>4
    <2>5. QED  BY <2>1, <2>3, <2>4
  <1>5. n + 1 # 0
    OBVIOUS
  <1>6. QED  BY <1>1, <1>3, <1>4, <1>5 DEF Stack

LEMMA StackShrinks ==
  ASSUME NEW e, NEW run, NEW st, NEW L, NEW P, NEW M, Stack(e, run, st, L, P, M),
         NEW n, n = Len(run.acts), n \in Nat, n > 0,
         NEW run2, run2.call = run.call, Len(run2.acts) = n - 1, Agree(run2.acts, run.acts, n - 1),
         NEW st2, Agree(st2.frames, st.frames, n - 1), EnvIn(st2) = L[n].env
  PROVE  /\ Stack(e, run2, st2, L, P, M)
         /\ n - 1 > 0 => Waits(e, run2.acts[n - 1], L[n - 1], P[n - 1], M[n - 1], L[n])
  <1>1. /\ L[1] = FirstLevel(run.call)
        /\ \A j \in 1..n : ActAt(run.acts[j], L[j], P[j]) /\ st.frames[j] = L[j].base
        /\ \A j \in 1..n : j < n => Waits(e, run.acts[j], L[j], P[j], M[j], L[j + 1])
        /\ DOMAIN L = Nat /\ DOMAIN P = Nat /\ DOMAIN M = Nat
    BY DEF Stack
  <1>2. \A j \in 1..(n - 1) : j \in 1..n /\ j < n /\ run2.acts[j] = run.acts[j]
                            /\ st2.frames[j] = st.frames[j]
    BY DEF Agree
  <1>3. /\ \A j \in 1..(n - 1) : ActAt(run2.acts[j], L[j], P[j]) /\ st2.frames[j] = L[j].base
        /\ \A j \in 1..(n - 1) : Waits(e, run2.acts[j], L[j], P[j], M[j], L[j + 1])
    BY <1>1, <1>2
  <1>4. ASSUME n - 1 > 0
        PROVE  /\ Waits(e, run2.acts[n - 1], L[n - 1], P[n - 1], M[n - 1], L[n])
               /\ EnvIn(st2) = Inside(L[n - 1].env, L[n - 1].ask)
    <2>1. n - 1 \in 1..(n - 1) /\ (n - 1) + 1 = n
      BY <1>4
    <2>2. Waits(e, run2.acts[n - 1], L[n - 1], P[n - 1], M[n - 1], L[n])
      BY <1>3, <2>1
    <2>3. L[n] = NextLevel(L[n - 1], P[n - 1], M[n - 1])
      BY <2>2 DEF Waits
    <2>4. L[n].env = Inside(P[n - 1].env, P[n - 1].ask)
      BY <2>3 DEF NextLevel
    <2>5. P[n - 1].env = L[n - 1].env /\ P[n - 1].ask = L[n - 1].ask
      BY <1>3, <2>1 DEF ActAt
    <2>6. QED  BY <2>2, <2>4, <2>5
  <1>5. EnvIn(st2) = IF n - 1 = 0 THEN L[1].env ELSE Inside(L[n - 1].env, L[n - 1].ask)
    <2>1. CASE n - 1 = 0
      <3>1. n = 1
        BY <2>1
      <3>2. QED  BY <2>1, <3>1
    <2>2. CASE n - 1 # 0
      <3>0. n \in Nat /\ n > 0
        OBVIOUS
      <3>1. n - 1 > 0
        BY ONLY <2>2, <3>0
      <3>2. EnvIn(st2) = Inside(L[n - 1].env, L[n - 1].ask)
        BY <1>4, <3>1
      <3>3. QED  BY <2>2, <3>2
    <2>3. QED  BY <2>1, <2>2
  <1>6. QED  BY <1>1, <1>3, <1>4, <1>5 DEF Stack

-----------------------------------------------------------------------------
(* Moves of the evaluator.                                                 *)

LEMMA TrackedInnermost ==
  ASSUME TInv, runs # << >>
  PROVE  /\ Len(runs) \in Nat /\ Len(runs) > 0 /\ DOMAIN runs = 1..Len(runs)
         /\ Run = runs[Len(runs)] /\ Run.st \in StateIds
         /\ St = heap[Run.st]
         /\ Local(Run, St)
         /\ Tracked(eliding, Run, St)
  <1>1. /\ Len(runs) \in Nat /\ Len(runs) > 0 /\ DOMAIN runs = 1..Len(runs)
        /\ Run = runs[Len(runs)] /\ Run.st \in StateIds /\ Local(Run, St)
    BY Innermost DEF TInv
  <1>2. St = heap[Run.st]
    BY DEF St
  <1>3. Tracked(eliding, runs[Len(runs)], heap[runs[Len(runs)].st])
    BY <1>1 DEF TInv
  <1>4. QED  BY <1>1, <1>2, <1>3

LEMMA TrackMove ==
  ASSUME TInv, runs # << >>, NEW run, NEW st,
         run.st = Run.st, run.call = Run.call, Tracked(eliding, run, st),
         runs' = Continue(run), DOMAIN heap' = StateIds, heap'[Run.st] = st,
         \A s \in StateIds : s # Run.st => heap'[s] = heap[s],
         UNCHANGED <<eliding, due, last>>, IInv'
  PROVE  TInv'
  <1> DEFINE n == Len(runs)
  <1>1. /\ n \in Nat /\ n > 0 /\ DOMAIN runs = 1..n
        /\ Run = runs[n] /\ Run.st \in StateIds
    BY TrackedInnermost
  <1>2. runs' = [runs EXCEPT ![n] = run]
    BY DEF Continue
  <1>3. IsSeq(runs) /\ DOMAIN heap = StateIds
    BY DEF TInv, IInv, TypeOK
  <1>4. IsSeq(runs') /\ Len(runs') = n
    <2>1. IsSeq(runs) /\ n \in DOMAIN runs
      BY <1>1, <1>3
    <2>2. IsSeq([runs EXCEPT ![n] = run]) /\ Len([runs EXCEPT ![n] = run]) = Len(runs)
      BY <2>1, ReplaceFacts
    <2>3. QED  BY <1>2, <2>2
  <1>5. DOMAIN runs' = 1..n
    BY <1>4, ListFacts
  <1> HIDE DEF n
  <1>6. runs'[n] = run /\ \A i \in 1..n : i # n => runs'[i] = runs[i]
    BY <1>1, <1>2
  <1>7. \A i \in 1..n : i # n => runs[i].st # Run.st
    BY <1>1 DEF TInv, IInv, StatesAreApart
  <1>8. heap'[Run.st] = st /\ \A s \in StateIds : s # Run.st => heap'[s] = heap[s]
    OBVIOUS
  <1>9. ASSUME NEW i \in 1..n  PROVE Tracked(eliding', runs'[i], heap'[runs'[i].st])
    <2>1. CASE i = n
      BY <1>6, <1>8, <2>1
    <2>2. CASE i # n
      <3>1. runs[i].st \in StateIds
        BY <1>1 DEF TInv, IInv, TypeOK, RunShape
      <3>2. Tracked(eliding, runs[i], heap[runs[i].st])
        BY <1>1 DEF TInv
      <3>3. QED  BY <1>6, <1>7, <1>8, <2>2, <3>1, <3>2
    <2>3. QED  BY <2>1, <2>2
  <1>10. CallersAwait'
    <2>1. SUFFICES ASSUME NEW i \in 1..n, i < n
                   PROVE  AwaitsCall(Top(runs'[i].acts), runs'[i + 1].call)
      BY <1>4, <1>5 DEF CallersAwait
    <2>2. AwaitsCall(Top(runs[i].acts), runs[i + 1].call)
      BY <1>1, <2>1 DEF TInv, CallersAwait, n
    <2>3. runs'[i] = runs[i]
      BY <1>1, <1>6, <2>1
    <2>4. runs'[i + 1].call = runs[i + 1].call
      <3>1. i + 1 \in 1..n
        BY <1>1, <2>1
      <3>2. QED  BY <1>1, <1>6, <3>1
    <2>5. QED  BY <2>2, <2>3, <2>4
  <1>11. CallsAreDerived' /\ \A i \in DOMAIN due' : ProperCall(due'[i])
    BY DEF TInv, CallsAreDerived
  <1>12. QED  BY <1>5, <1>9, <1>10, <1>11 DEF TInv

LEMMA TrackSame ==
  ASSUME TInv, runs # << >>, NEW run,
         run.st = Run.st, run.call = Run.call, Tracked(eliding, run, St),
         runs' = Continue(run), UNCHANGED <<heap, eliding, due, last>>, IInv'
  PROVE  TInv'
  <1>1. DOMAIN heap = StateIds /\ St = heap[Run.st]
    BY TrackedInnermost DEF TInv, IInv, TypeOK
  <1>2. QED  BY <1>1, TrackMove

LEMMA TrackState ==
  ASSUME TInv, runs # << >>, NEW run, NEW st,
         run.st = Run.st, run.call = Run.call, Tracked(eliding, run, st),
         runs' = Continue(run), heap' = [heap EXCEPT ![Run.st] = st],
         UNCHANGED <<eliding, due, last>>, IInv'
  PROVE  TInv'
  <1>1. DOMAIN heap = StateIds /\ Run.st \in StateIds
    BY TrackedInnermost DEF TInv, IInv, TypeOK
  <1>2. /\ DOMAIN heap' = StateIds /\ heap'[Run.st] = st
        /\ \A s \in StateIds : s # Run.st => heap'[s] = heap[s]
    BY <1>1
  <1>3. QED  BY <1>2, TrackMove

\* A call gets a run of its own.
LEMMA TrackCall ==
  ASSUME TInv, NEW call, CallShape(call), ProperCall(call), Valid(call),
         runs # << >> => Run.pc = "step" /\ AwaitsCall(Act, call),
         \A i \in DOMAIN due' : ProperCall(due'[i]),
         UNCHANGED <<eliding, last>>, IInv'
  PROVE  TInv'
  <1> DEFINE n == Len(runs)
  <1>1. IsSeq(runs) /\ n \in Nat /\ DOMAIN runs = 1..n
    BY ListFacts DEF TInv, IInv, TypeOK
  <1>2. PICK s \in StateIds \ InRuns, reuse \in BOOLEAN : Begin(call, s, reuse)
    BY ValidFacts DEF TInv
  <1> DEFINE new == [st |-> s, call |-> call, reuse |-> reuse, pc |-> "apply",
                     acts |-> << >>, ok |-> FALSE, thrown |-> "",
                     ask |-> [to |-> call.to, at |-> call.at, path |-> << >>]]
             left == Seed(Reset(heap[s], call.depth), call.scope)
  <1>3. runs' = Append(runs, new) /\ heap' = [heap EXCEPT ![s] = left]
    BY <1>2 DEF Begin
  <1>4. /\ new.st = s /\ new.call = call /\ new.pc = "apply" /\ new.acts = << >>
        /\ ~Threw(new) /\ new.ask = FirstAsk(call) /\ new.ok \in BOOLEAN
    BY DEF FirstAsk, Threw
  <1> HIDE DEF new
  <1>5. /\ Len(runs') = n + 1 /\ IsSeq(runs')
        /\ \A i \in 1..n : runs'[i] = runs[i]
        /\ runs'[n + 1] = new
    BY <1>1, <1>3, AppendFacts
  <1>6. DOMAIN runs' = 1..(n + 1)
    BY <1>5, ListFacts
  <1>7. IsSeq(call.scope) /\ call.depth \in Nat /\ << >> \o call.scope = call.scope
    BY JoinNothing DEF CallShape
  <1>8. EnvIn(left) = FirstEnv(call) /\ left.errors = << >> /\ left.frames[1] = EmptyFrame
    BY <1>7 DEF EnvIn, FirstEnv, Seed, Reset, Fresh
  <1> HIDE DEF left
  <1>9. Tracked(eliding, new, left)
    <2> DEFINE L == [j \in Nat |-> FirstLevel(call)]
               P == [j \in Nat |-> 0]
    <2>1. Len(new.acts) = 0
      BY <1>4, EmptyList
    <2>2. LevelShape(L[1])
      <3>1. EnvShape(FirstEnv(call))
        BY <1>7, EmptyList DEF EnvShape, FirstEnv, ProperCall
      <3>2. FrameShape(EmptyFrame)
        BY EmptyList DEF EmptyFrame, FrameShape
      <3>3. QED  BY <3>1, <3>2, EmptyList DEF LevelShape, FirstLevel, FirstAsk, Addressed, ProperCall
    <2>3. /\ L[1] = FirstLevel(call) /\ L[1].env = FirstEnv(call)
          /\ L[1].ask = FirstAsk(call) /\ L[1].errors = << >> /\ L[1].base = EmptyFrame
      BY DEF FirstLevel
    <2>4. DOMAIN L = Nat /\ DOMAIN P = Nat
      OBVIOUS
    <2> HIDE DEF L, P
    <2>5. Stack(eliding, new, left, L, P, P)
      <3>1. 1..Len(new.acts) = {}
        BY <2>1
      <3>2. L[1] = FirstLevel(new.call) /\ EnvIn(left) = L[1].env
        BY <1>4, <1>8, <2>3
      <3>3. QED  BY <2>1, <2>4, <3>1, <3>2 DEF Stack
    <2>6. AtApply(new, left, 0, L[1])
      <3>1. left.frames[0 + 1] = L[1].base
        BY <1>8, <2>3
      <3>2. ~Threw(new) /\ new.ask = L[1].ask /\ left.errors = L[1].errors
        BY <1>4, <1>8, <2>3
      <3>3. QED  BY <2>2, <3>1, <3>2 DEF AtApply
    <2>7. Position(eliding, new, left, L, P, P)
      <3>1. Len(new.acts) + 1 = 1 /\ ~(Len(new.acts) > 0)
        BY <2>1
      <3>2. AtApply(new, left, Len(new.acts), L[Len(new.acts) + 1])
        BY <2>1, <2>6, <3>1
      <3>3. new.pc = "apply"
        BY <1>4
      <3>4. QED  BY <3>1, <3>2, <3>3 DEF Position
    <2>8. QED  BY <1>4, <2>5, <2>7 DEF Tracked, Tracks
  <1>10. heap'[s] = left /\ \A x \in StateIds : x # s => heap'[x] = heap[x]
    BY <1>2, <1>3 DEF TInv, IInv, TypeOK
  <1> HIDE DEF n
  <1>11. ASSUME NEW i \in 1..(n + 1)  PROVE Tracked(eliding', runs'[i], heap'[runs'[i].st])
    <2>1. CASE i = n + 1
      BY <1>4, <1>5, <1>9, <1>10, <2>1
    <2>2. CASE i # n + 1
      <3>1. i \in 1..n
        BY <1>1, <2>2
      <3>2. runs[i].st \in StateIds /\ runs[i].st # s
        BY <1>1, <1>2, <3>1 DEF TInv, IInv, TypeOK, RunShape, InRuns
      <3>3. Tracked(eliding, runs[i], heap[runs[i].st])
        BY <1>1, <3>1 DEF TInv
      <3>4. runs'[i] = runs[i]
        BY <1>5, <3>1
      <3>5. heap'[runs[i].st] = heap[runs[i].st]
        BY <1>10, <3>2
      <3>6. QED  BY <3>3, <3>4, <3>5
    <2>3. QED  BY <2>1, <2>2
  <1>12. CallersAwait'
    <2>1. SUFFICES ASSUME NEW i \in 1..(n + 1), i < n + 1
                   PROVE  AwaitsCall(Top(runs'[i].acts), runs'[i + 1].call)
      BY <1>5, <1>6 DEF CallersAwait
    <2>2. i \in 1..n /\ runs'[i] = runs[i]
      BY <1>1, <1>5, <2>1
    <2>3. CASE i = n
      <3>1. runs # << >> /\ Run = runs[n]
        BY <1>1, <2>2, EmptyList DEF Run, Top, n
      <3>2. AwaitsCall(Top(runs[n].acts), call)
        BY <3>1 DEF Act
      <3>3. QED  BY <1>4, <1>5, <2>2, <2>3, <3>2
    <2>4. CASE i # n
      <3>1. i < n /\ i + 1 \in 1..n
        BY <1>1, <2>2, <2>4
      <3>2. AwaitsCall(Top(runs[i].acts), runs[i + 1].call)
        BY <1>1, <2>2, <3>1 DEF TInv, CallersAwait, n
      <3>3. QED  BY <1>5, <2>2, <3>1, <3>2
    <2>5. QED  BY <2>3, <2>4
  <1>13. CallsAreDerived'
    BY DEF TInv, CallsAreDerived
  <1>14. QED  BY <1>6, <1>11, <1>12, <1>13 DEF TInv

\* The innermost application open in a run, and the step its keyword is at.
LEMMA OpenTop ==
  ASSUME NEW e, NEW run, NEW st, NEW L, NEW P, NEW M, Stack(e, run, st, L, P, M),
         IsSeq(run.acts), run.acts # << >>, NEW n, n = Len(run.acts)
  PROVE  /\ n \in Nat /\ n > 0 /\ Top(run.acts) = run.acts[n]
         /\ ActAt(Top(run.acts), L[n], P[n]) /\ st.frames[n] = L[n].base
         /\ EnvIn(st) = Inside(L[n].env, L[n].ask)
         /\ EnvIn(st) = Inside(P[n].env, P[n].ask)
  <1>1. n \in Nat /\ n > 0
    BY ListFacts
  <1>2. Top(run.acts) = run.acts[n] /\ n \in 1..n
    BY <1>1 DEF Top
  <1>3. ActAt(Top(run.acts), L[n], P[n]) /\ st.frames[n] = L[n].base
    BY <1>2 DEF Stack
  <1>4. EnvIn(st) = Inside(L[n].env, L[n].ask)
    BY <1>1 DEF Stack
  <1>5. P[n].env = L[n].env /\ P[n].ask = L[n].ask
    BY <1>3 DEF ActAt
  <1>6. QED  BY <1>1, <1>2, <1>3, <1>4, <1>5

LEMMA AtPosition ==
  ASSUME NEW e, NEW run, NEW st, NEW L, NEW P, NEW M, Position(e, run, st, L, P, M),
         NEW n, n = Len(run.acts)
  PROVE  /\ run.pc = "apply" => AtApply(run, st, n, L[n + 1])
         /\ run.pc = "return" => AtReturn(e, run, st, n, L[n + 1])
         /\ run.pc = "keyword" => AtKeyword(e, run, st, n, L[n], P[n])
         /\ run.pc = "step" => AtStep(e, run, st, n, run.acts[n], L[n], P[n], M[n])
         /\ run.pc = "throw" => AtThrow(e, run, L[IF n = 0 THEN 1 ELSE n])
         /\ run.pc \in {"apply", "return"} /\ n > 0 =>
              Waits(e, run.acts[n], L[n], P[n], M[n], L[n + 1])
  BY DEF Position

\* What is known of the innermost run, on its levels.
LEMMA Standing ==
  ASSUME TInv, runs # << >>, NEW n, n = Len(Run.acts)
  PROVE  /\ RunShape(Run) /\ IsSeq(Run.acts) /\ n \in Nat /\ DOMAIN Run.acts = 1..n
         /\ StateShape(St) /\ Len(St.frames) = n + 1 /\ DOMAIN St.frames = 1..(n + 1)
         /\ \E L, P, M : Tracks(eliding, Run, St, L, P, M)
  <1>1. Local(Run, St) /\ Tracked(eliding, Run, St) /\ Run.st \in StateIds /\ St = heap[Run.st]
    BY TrackedInnermost
  <1>2. RunShape(Run) /\ IsSeq(Run.acts)
    BY <1>1 DEF Local, RunShape
  <1>3. StateShape(St)
    BY <1>1 DEF TInv, IInv, TypeOK
  <1>4. Balanced(Run, St)
    BY <1>1 DEF Local
  <1>5. n \in Nat /\ DOMAIN Run.acts = 1..n
    BY <1>2, ListFacts
  <1>6. Len(St.frames) = n + 1 /\ DOMAIN St.frames = 1..(n + 1)
    BY <1>3, <1>4, <1>5, ListFacts DEF Balanced, StateShape
  <1>7. QED  BY <1>1, <1>2, <1>3, <1>5, <1>6 DEF Tracked

-----------------------------------------------------------------------------
(* The actions.                                                            *)

LEMMA HostCallsTracks ==
  ASSUME TInv, HostCalls, IInv'
  PROVE  TInv'
  <1> DEFINE call == due[1]
  <1>1. IsSeq(due) /\ due # << >> /\ Head(due) = call /\ 1 \in DOMAIN due
        /\ \A i \in DOMAIN Tail(due) : i + 1 \in DOMAIN due /\ Tail(due)[i] = due[i + 1]
    BY TailFacts DEF HostCalls, TInv, IInv, TypeOK, ScriptShape
  <1>2. CallShape(call) /\ ProperCall(call)
    BY <1>1 DEF TInv, IInv, TypeOK, ScriptShape
  <1> HIDE DEF call
  <1>3. Valid(call) /\ due' = Tail(due) /\ UNCHANGED <<eliding, last>> /\ runs = << >>
    BY <1>1 DEF HostCalls
  <1>4. \A i \in DOMAIN due' : ProperCall(due'[i])
    BY <1>1, <1>3 DEF TInv
  <1>5. QED  BY <1>2, <1>3, <1>4, TrackCall

LEMMA CallBackTracks ==
  ASSUME TInv, KeywordsAreProper, CallBack, IInv'
  PROVE  TInv'
  <1> DEFINE n == Len(Run.acts)
             call == CallOf(Step)
  <1>1. /\ runs # << >> /\ Run.pc = "step" /\ Len(Act.verdicts) < Len(Act.steps)
        /\ Step.how = "call" /\ Valid(call) /\ UNCHANGED <<eliding, due, last>>
    BY DEF CallBack, Stepping, Running, Run, CallOf
  <1>2. PICK L, P, M : Tracks(eliding, Run, St, L, P, M)
    BY <1>1, Standing
  <1>3. IsSeq(Run.acts) /\ Run.acts # << >>
    BY <1>1, Standing DEF RunShape
  <1>4. /\ n \in Nat /\ n > 0 /\ Act = Run.acts[n]
        /\ ActAt(Act, L[n], P[n])
    BY <1>2, <1>3, OpenTop DEF Act, Tracks
  <1>5. AtStep(eliding, Run, St, n, Run.acts[n], L[n], P[n], M[n])
    BY <1>1, <1>2, AtPosition DEF Tracks
  <1>6. Working(eliding, Act, L[n], P[n], M[n])
    BY <1>4, <1>5 DEF AtStep
  <1> HIDE DEF n
  <1>7. Act.verdicts = M[n].verdicts /\ Act.steps = StepsOf(P[n])
    BY <1>6 DEF Working
  <1>8. Unanswered(P[n], M[n]) /\ Step = StepOf(P[n], M[n])
    BY <1>1, <1>7 DEF Unanswered, Step, StepOf
  <1>9. Addressed(call)
    BY <1>1, <1>4, <1>6, <1>8, StepKeeps
  <1>10. AwaitsCall(Act, call)
    BY <1>1 DEF AwaitsCall, Step
  <1>11. CallShape(call) /\ ProperCall(call)
    BY <1>9, EmptyList DEF CallShape, CallOf, ProperCall, Based
  <1> HIDE DEF call
  <1>12. \A i \in DOMAIN due' : ProperCall(due'[i])
    BY <1>1 DEF TInv
  <1>13. QED  BY <1>1, <1>10, <1>11, <1>12, TrackCall

Named(name) == name # ""

\* What is thrown at the next level is thrown at the level that waits for it.
LEMMA ThrownOn ==
  ASSUME NEW e, NEW act, NEW l, NEW p, NEW m, NEW next, Waits(e, act, l, p, m, next),
         p.env = l.env, p.ask = l.ask,
         NEW name, Named(name), Comes(e, next.env, next.ask, Thrown(name))
  PROVE  Comes(e, l.env, l.ask, Thrown(name))
  <1> DEFINE inner == Thrown(name)
  <1>1. inner.thrown = name
    BY DEF Thrown
  <1>2. Comes(e, next.env, next.ask, inner)
    OBVIOUS
  <1> HIDE DEF inner
  <1>3. /\ ReachesStep(e, p, m) /\ Applying(p, m) /\ SchemaKind(AskOf(p, m).to) # "missing"
        /\ next.env = Inside(p.env, p.ask) /\ next.ask = AskOf(p, m)
    BY DEF Waits, Working, NextLevel
  <1>4. Comes(e, p.env, p.ask, Thrown(inner.thrown))
    BY <1>1, <1>2, <1>3, AnswerReaches DEF Named
  <1>5. QED  BY <1>1, <1>4

\* The innermost application throws; its frame and the errors do not count then.
LEMMA ThrowTracks ==
  ASSUME TInv, runs # << >>, NEW n, n = Len(Run.acts),
         NEW L, NEW P, NEW M, Tracks(eliding, Run, St, L, P, M),
         NEW name, Named(name), runs' = Continue(Throw(name)),
         Comes(eliding, L[IF n = 0 THEN 1 ELSE n].env, L[IF n = 0 THEN 1 ELSE n].ask, Thrown(name)),
         NEW st, Agree(st.frames, St.frames, n), EnvIn(st) = EnvIn(St),
         DOMAIN heap' = StateIds, heap'[Run.st] = st,
         \A s \in StateIds : s # Run.st => heap'[s] = heap[s],
         UNCHANGED <<eliding, due, last>>, IInv'
  PROVE  TInv'
  <1> DEFINE run == Throw(name)
  <1>1. /\ run.pc = "throw" /\ run.thrown = name /\ run.acts = Run.acts /\ run.call = Run.call
        /\ run.st = Run.st /\ run.ok = Run.ok
    BY Standing DEF Throw, RunShape
  <1>2. runs' = Continue(run)
    OBVIOUS
  <1> HIDE DEF run
  <1>3. n \in Nat /\ IsSeq(Run.acts)
    BY Standing
  <1>4. Stack(eliding, Run, St, L, P, M) /\ Run.ok \in BOOLEAN
    BY DEF Tracks
  <1>5. DOMAIN L = Nat /\ Agree(L, L, n)
    BY <1>4 DEF Stack, Agree
  <1>6. Stack(eliding, run, st, L, P, M)
    BY <1>1, <1>3, <1>4, <1>5, StackStays
  <1>7. AtThrow(eliding, run, L[IF n = 0 THEN 1 ELSE n])
    BY <1>1 DEF AtThrow, Named, Threw
  <1>8. Position(eliding, run, st, L, P, M)
    <2>1. Len(run.acts) = n
      BY <1>1
    <2>2. QED  BY <1>1, <1>7, <2>1 DEF Position
  <1>9. Tracked(eliding, run, st)
    BY <1>1, <1>4, <1>6, <1>8 DEF Tracked, Tracks
  <1>10. QED  BY <1>1, <1>2, <1>9, TrackMove

LEMMA ThrowTracksSame ==
  ASSUME TInv, runs # << >>, NEW n, n = Len(Run.acts),
         NEW L, NEW P, NEW M, Tracks(eliding, Run, St, L, P, M),
         NEW name, Named(name), runs' = Continue(Throw(name)),
         Comes(eliding, L[IF n = 0 THEN 1 ELSE n].env, L[IF n = 0 THEN 1 ELSE n].ask, Thrown(name)),
         UNCHANGED <<heap, eliding, due, last>>, IInv'
  PROVE  TInv'
  <1>1. DOMAIN heap' = StateIds /\ heap'[Run.st] = St
    BY TrackedInnermost DEF TInv, IInv, TypeOK
  <1>2. Agree(St.frames, St.frames, n)
    BY DEF Agree
  <1>3. QED  BY <1>1, <1>2, ThrowTracks

\* The level of the application about to be made.
LEMMA ApplyLevel ==
  ASSUME TInv, runs # << >>, Run.pc = "apply", NEW n, n = Len(Run.acts),
         NEW L, NEW P, NEW M, Tracks(eliding, Run, St, L, P, M)
  PROVE  /\ L[n + 1].ask = Ask /\ L[n + 1].env = EnvIn(St)
         /\ LevelShape(L[n + 1]) /\ ~Threw(Run)
         /\ St.errors = L[n + 1].errors /\ St.frames[n + 1] = L[n + 1].base
         /\ n > 0 => /\ Waits(eliding, Run.acts[n], L[n], P[n], M[n], L[n + 1])
                     /\ P[n].env = L[n].env /\ P[n].ask = L[n].ask
  <1>1. AtApply(Run, St, n, L[n + 1])
    BY AtPosition DEF Tracks
  <1>2. Stack(eliding, Run, St, L, P, M)
    BY DEF Tracks
  <1>3. n \in Nat /\ IsSeq(Run.acts)
    BY Standing
  <1>4. CASE n = 0
    <2>1. EnvIn(St) = L[1].env
      BY <1>2, <1>4 DEF Stack
    <2>2. n + 1 = 1 /\ ~(n > 0)
      BY ONLY <1>4
    <2>3. QED  BY <1>1, <2>1, <2>2 DEF AtApply, Ask
  <1>5. CASE n > 0
    <2>1. Waits(eliding, Run.acts[n], L[n], P[n], M[n], L[n + 1])
      BY <1>5, AtPosition DEF Tracks
    <2>2. Run.acts # << >>
      BY <1>3, <1>5, ListFacts
    <2>3. EnvIn(St) = Inside(P[n].env, P[n].ask) /\ ActAt(Top(Run.acts), L[n], P[n])
      BY <1>2, <1>3, <2>2, OpenTop
    <2>4. L[n + 1].env = EnvIn(St)
      BY <2>1, <2>3 DEF Waits, NextLevel
    <2>5. QED  BY <1>1, <2>1, <2>3, <2>4 DEF AtApply, Ask, ActAt
  <1>6. n = 0 \/ n > 0
    BY ONLY <1>3
  <1>7. QED  BY <1>4, <1>5, <1>6

\* An application that throws before it begins.
LEMMA RefusalTracks ==
  ASSUME TInv, runs # << >>, Run.pc = "apply", NEW name, Named(name),
         runs' = Continue(Throw(name)), UNCHANGED <<heap, eliding, due, last>>, IInv',
         ApplicationRule(EnvIn(St), Ask, Thrown(name), {})
  PROVE  TInv'
  <1> DEFINE n == Len(Run.acts)
  <1>1. PICK L, P, M : Tracks(eliding, Run, St, L, P, M)
    BY Standing
  <1>2. /\ L[n + 1].ask = Ask /\ L[n + 1].env = EnvIn(St)
        /\ n > 0 => /\ Waits(eliding, Run.acts[n], L[n], P[n], M[n], L[n + 1])
                    /\ P[n].env = L[n].env /\ P[n].ask = L[n].ask
    BY <1>1, ApplyLevel
  <1>3. n \in Nat
    BY Standing
  <1> HIDE DEF n
  <1>4. Comes(eliding, L[n + 1].env, L[n + 1].ask, Thrown(name))
    BY <1>2, EndsAtOnce
  <1>5. Comes(eliding, L[IF n = 0 THEN 1 ELSE n].env, L[IF n = 0 THEN 1 ELSE n].ask, Thrown(name))
    <2>1. CASE n = 0
      <3>1. n + 1 = 1
        BY ONLY <2>1
      <3>2. QED  BY <1>4, <2>1, <3>1
    <2>2. CASE n > 0
      <3>1. /\ Waits(eliding, Run.acts[n], L[n], P[n], M[n], L[n + 1])
            /\ P[n].env = L[n].env /\ P[n].ask = L[n].ask
        BY <1>2, <2>2
      <3>2. Comes(eliding, L[n].env, L[n].ask, Thrown(name))
        BY ONLY <3>1, <1>4, ThrownOn, Named(name)
      <3>3. n # 0
        BY ONLY <1>3, <2>2
      <3>4. QED  BY <3>2, <3>3
    <2>3. n = 0 \/ n > 0
      BY ONLY <1>3
    <2>4. QED  BY <2>1, <2>2, <2>3
  <1>6. QED  BY <1>1, <1>5, ThrowTracksSame DEF n

LEMMA TooDeepTracks ==
  ASSUME TInv, TooDeep, IInv'
  PROVE  TInv'
  <1>1. /\ runs # << >> /\ Run.pc = "apply" /\ St.depth >= MaxDepth
        /\ runs' = Continue(Throw("MaxDepth")) /\ UNCHANGED <<heap, eliding, due, last>>
    BY DEF TooDeep, Running, Run
  <1>2. EnvIn(St).depth = St.depth
    BY DEF EnvIn
  <1>3. ~(St.depth < MaxDepth)
    <2>1. St.depth \in Nat
      BY <1>1, Standing DEF StateShape
    <2>2. QED  BY <1>1, <2>1, MaxDepthAssumption
  <1>4. ApplicationRule(EnvIn(St), Ask, Thrown("MaxDepth"), {})
    BY <1>2, <1>3 DEF ApplicationRule
  <1>5. QED  BY <1>1, <1>4, RefusalTracks DEF Named

LEMMA RefuseTracks ==
  ASSUME TInv, Refuse, IInv'
  PROVE  TInv'
  <1>1. /\ runs # << >> /\ Run.pc = "apply" /\ St.depth < MaxDepth
        /\ UNCHANGED <<heap, eliding, due, last>>
    BY DEF Refuse, Admitted, Running, Run
  <1>2. EnvIn(St).depth = St.depth /\ EnvIn(St).active = St.active
    BY DEF EnvIn
  <1>3. CASE SchemaKind(Ask.to) = "junk" /\ runs' = Continue(Throw("InvalidSchema"))
    <2>1. ApplicationRule(EnvIn(St), Ask, Thrown("InvalidSchema"), {})
      BY <1>1, <1>2, <1>3 DEF ApplicationRule
    <2>2. QED  BY <1>1, <1>3, <2>1, RefusalTracks DEF Named
  <1>4. CASE /\ SchemaKind(Ask.to) = "object" /\ Loops(St.active, Ask)
             /\ runs' = Continue(Throw("InfiniteLoop"))
    <2>1. ApplicationRule(EnvIn(St), Ask, Thrown("InfiniteLoop"), {})
      BY <1>1, <1>2, <1>4 DEF ApplicationRule
    <2>2. QED  BY <1>1, <1>4, <2>1, RefusalTracks DEF Named
  <1>5. QED  BY <1>3, <1>4 DEF Refuse

LEMMA AppendIsJoin ==
  ASSUME NEW s, IsSeq(s), NEW x
  PROVE  Append(s, x) = s \o <<x>>
  <1>1. Append(s \o << >>, x) = s \o Append(<< >>, x)
    BY EmptyList, JoinOne
  <1>2. Append(<< >>, x) = <<x>> /\ s \o << >> = s
    BY JoinNothing
  <1>3. QED  BY <1>1, <1>2

LEMMA SingleList ==
  ASSUME NEW x
  PROVE  IsSeq(<<x>>)
  <1>1. <<x>> \in Seq({x})
    OBVIOUS
  <1>2. QED  BY <1>1, Lists

LEMMA FrameOverNothing ==
  ASSUME NEW f, FrameShape(f), NEW left, left.deps = << >>, left.notes = << >>
  PROVE  FrameOver(f, left) = f
  BY JoinNothing DEF FrameShape, FrameOver

\* An application answers where it was asked for, on top of the same ones.
LEMMA AnswerTracked ==
  ASSUME NEW e, NEW run, NEW st, NEW L, NEW P, NEW M, Stack(e, run, st, L, P, M),
         NEW n, n = Len(run.acts), run.pc = "return", run.ok \in BOOLEAN,
         AtReturn(e, run, st, n, L[n + 1]),
         n > 0 => Waits(e, run.acts[n], L[n], P[n], M[n], L[n + 1])
  PROVE  Tracked(e, run, st)
  <1>1. Position(e, run, st, L, P, M)
    BY DEF Position
  <1>2. QED  BY <1>1 DEF Tracked, Tracks

LEMMA ApplyBooleanTracks ==
  ASSUME TInv, ApplyBoolean, IInv'
  PROVE  TInv'
  <1> DEFINE n == Len(Run.acts)
             ok == SchemaKind(Ask.to) = "true"
             E == ErrorOf("", Ask.to, Ask.at, Ask.path, << >>)
             run == Answer(ok)
             left == IF ok THEN Nothing ELSE [Nothing EXCEPT !.errors = <<E>>]
             st == IF ok THEN St ELSE [St EXCEPT !.errors = Append(@, E)]
  <1>1. /\ runs # << >> /\ Run.pc = "apply" /\ St.depth < MaxDepth
        /\ SchemaKind(Ask.to) \in {"true", "false"}
        /\ runs' = Continue(run)
        /\ heap' = IF ok THEN heap ELSE [heap EXCEPT ![Run.st].errors = Append(@, E)]
        /\ UNCHANGED <<eliding, due, last>>
    BY DEF ApplyBoolean, Admitted, Running, Run
  <1> HIDE DEF E
  <1>2. PICK L, P, M : Tracks(eliding, Run, St, L, P, M)
    BY <1>1, Standing
  <1>3. /\ L[n + 1].ask = Ask /\ L[n + 1].env = EnvIn(St)
        /\ LevelShape(L[n + 1]) /\ ~Threw(Run)
        /\ St.errors = L[n + 1].errors /\ St.frames[n + 1] = L[n + 1].base
        /\ n > 0 => Waits(eliding, Run.acts[n], L[n], P[n], M[n], L[n + 1])
    BY <1>1, <1>2, ApplyLevel
  <1>4. /\ run.pc = "return" /\ ~Threw(run) /\ run.acts = Run.acts /\ run.call = Run.call
        /\ run.st = Run.st /\ run.ok = ok /\ ok \in BOOLEAN
    BY <1>1, <1>3, Standing DEF Answer, RunShape, Threw
  <1>5. StateShape(St) /\ n \in Nat
    BY <1>1, Standing
  <1>6. /\ st.frames = St.frames /\ EnvIn(st) = EnvIn(St)
        /\ st.errors = IF ok THEN St.errors ELSE Append(St.errors, E)
    BY <1>5 DEF StateShape, EnvIn
  <1>7. /\ left.errors = IF ok THEN << >> ELSE <<E>>
        /\ left.deps = << >> /\ left.notes = << >>
        /\ LeftShape(left)
    <2>1. IsSeq(<<E>>)
      BY SingleList
    <2>2. QED  BY <2>1, EmptyList DEF Nothing, LeftShape
  <1>8. ApplicationRule(EnvIn(St), Ask, Gives(ok, left), {})
    <2>1. EnvIn(St).depth < MaxDepth
      BY <1>1 DEF EnvIn
    <2>2. ok => SchemaKind(Ask.to) = "true"
      OBVIOUS
    <2>0. ~ok => SchemaKind(Ask.to) = "false"
      BY <1>1
    <2>3. CASE ok
      BY <2>1, <2>3 DEF ApplicationRule
    <2>4. CASE ~ok
      <3>1. ok = FALSE /\ SchemaKind(Ask.to) = "false"
        BY <2>0, <2>4
      <3>2. QED  BY <2>1, <3>1 DEF ApplicationRule, E
    <2>5. QED  BY <2>3, <2>4
  <1>9. IF ok THEN heap' = heap ELSE heap' = [heap EXCEPT ![Run.st] = st]
    <2>1. [heap EXCEPT ![Run.st].errors = Append(@, E)]
            = [heap EXCEPT ![Run.st] = [St EXCEPT !.errors = Append(@, E)]]
      BY DEF St
    <2>2. QED  BY <1>1, <2>1
  <1>10. st.errors = L[n + 1].errors \o left.errors
    <2>1. IsSeq(L[n + 1].errors)
      BY <1>3 DEF LevelShape
    <2>2. CASE ok
      BY <1>3, <1>6, <1>7, <2>1, <2>2, JoinNothing
    <2>3. CASE ~ok
      <3>1. Append(L[n + 1].errors, E) = L[n + 1].errors \o <<E>>
        BY ONLY <2>1, AppendIsJoin
      <3>2. st.errors = Append(L[n + 1].errors, E) /\ left.errors = <<E>>
        BY <1>3, <1>6, <1>7, <2>3
      <3>3. QED  BY <3>1, <3>2
    <2>4. QED  BY <2>2, <2>3
  <1>11. st.frames[n + 1] = FrameOver(L[n + 1].base, left)
    BY <1>3, <1>6, <1>7, FrameOverNothing DEF LevelShape
  <1>12. ok => st = St
    OBVIOUS
  <1> HIDE DEF run, left, st, n, ok
  <1>13. Comes(eliding, L[n + 1].env, L[n + 1].ask, Gives(run.ok, left))
    BY <1>3, <1>4, <1>8, EndsAtOnce
  <1>14. AtReturn(eliding, run, st, n, L[n + 1])
    BY <1>3, <1>4, <1>7, <1>10, <1>11, <1>13 DEF AtReturn
  <1>15. Stack(eliding, run, st, L, P, M)
    <2>1. Stack(eliding, Run, St, L, P, M)
      BY <1>2 DEF Tracks
    <2>2. DOMAIN L = Nat /\ Agree(L, L, n) /\ Agree(st.frames, St.frames, n)
      BY <1>6, <2>1 DEF Stack, Agree
    <2>3. n = Len(Run.acts)
      BY DEF n
    <2>4. QED  BY <1>4, <1>5, <1>6, <2>1, <2>2, <2>3, StackStays
  <1>16. Tracked(eliding, run, st)
    <2>1. n = Len(run.acts) /\ (n > 0 => Waits(eliding, run.acts[n], L[n], P[n], M[n], L[n + 1]))
      BY <1>3, <1>4 DEF n
    <2>2. QED  BY <1>4, <1>14, <1>15, <2>1, AnswerTracked
  <1>17. CASE ok
    BY <1>1, <1>4, <1>9, <1>12, <1>16, <1>17, TrackSame
  <1>18. CASE ~ok
    BY <1>1, <1>4, <1>9, <1>16, <1>18, TrackState
  <1>19. QED  BY <1>17, <1>18

LEMMA EnterObjectTracks ==
  ASSUME TInv, EnterObject, IInv'
  PROVE  TInv'
  <1> DEFINE n == Len(Run.acts)
             pushed == St.scope = << >> \/ Top(St.scope) # SchemaBase(Ask.to)
             act == [on |-> Ask.to, at |-> Ask.at, path |-> Ask.path,
                     next |-> 1, valid |-> TRUE, pushed |-> pushed,
                     mark |-> 0, steps |-> << >>, verdicts |-> << >>]
             run == [Run EXCEPT !.acts = Append(@, act), !.pc = "keyword"]
             st == Open(St, Ask, pushed)
  <1>1. /\ runs # << >> /\ Run.pc = "apply" /\ St.depth < MaxDepth
        /\ SchemaKind(Ask.to) = "object" /\ ~Loops(St.active, Ask)
        /\ runs' = Continue(run)
        /\ heap' = [heap EXCEPT ![Run.st] = st]
        /\ UNCHANGED <<eliding, due, last>>
    BY DEF EnterObject, Admitted, Running, Run, St
  <1>2. PICK L, P, M : Tracks(eliding, Run, St, L, P, M)
    BY <1>1, Standing
  <1>3. /\ L[n + 1].ask = Ask /\ L[n + 1].env = EnvIn(St)
        /\ LevelShape(L[n + 1]) /\ ~Threw(Run)
        /\ St.errors = L[n + 1].errors /\ St.frames[n + 1] = L[n + 1].base
        /\ n > 0 => Waits(eliding, Run.acts[n], L[n], P[n], M[n], L[n + 1])
    BY <1>1, <1>2, ApplyLevel
  <1>4. /\ IsSeq(Run.acts) /\ n \in Nat /\ StateShape(St) /\ Len(St.frames) = n + 1
        /\ DOMAIN St.frames = 1..(n + 1) /\ RunShape(Run)
    BY <1>1, Standing
  <1>5. /\ run.pc = "keyword" /\ ~Threw(run) /\ run.acts = Append(Run.acts, act)
        /\ run.call = Run.call /\ run.st = Run.st /\ run.ok = Run.ok
    BY <1>3, <1>4 DEF RunShape, Threw
  <1>6. /\ act.on = Ask.to /\ act.at = Ask.at /\ act.path = Ask.path
        /\ act.next = 1 /\ act.valid = TRUE /\ act.pushed = pushed
    OBVIOUS
  <1>7. /\ st.frames = Append(St.frames, EmptyFrame) /\ st.errors = St.errors
        /\ st.depth = St.depth + 1
        /\ st.active = Append(St.active, [on |-> Ask.to, at |-> Ask.at])
        /\ st.scope = IF pushed THEN Append(St.scope, SchemaBase(Ask.to)) ELSE St.scope
    BY <1>4 DEF StateShape, Open
  <1>8. pushed <=> Pushes(EnvIn(St), Ask)
    BY DEF Pushes, EnvIn
  <1> HIDE DEF pushed, act, run, st
  <1>9. EnvIn(st) = Inside(L[n + 1].env, L[n + 1].ask)
    <2>1. EnvIn(st) = Inside(EnvIn(St), Ask)
      BY <1>7, <1>8 DEF EnvIn, Inside
    <2>2. QED  BY <1>3, <2>1
  <1>10. Opens(L[n + 1].env, L[n + 1].ask)
    <2>1. L[n + 1].env.depth = St.depth /\ L[n + 1].env.active = St.active
      BY <1>3 DEF EnvIn
    <2>2. QED  BY <1>1, <1>3, <2>1 DEF Opens
  <1> DEFINE p == Begun(L[n + 1].env, L[n + 1].ask)
             P2 == [P EXCEPT ![n + 1] = p]
  <1>11. /\ p.env = L[n + 1].env /\ p.ask = L[n + 1].ask /\ p.next = 1 /\ p.valid = TRUE
         /\ p.left = Nothing
    BY DEF Begun, Place
  <1>12. Reaches(eliding, p)
    BY <1>10, BeginReaches
  <1>13. Stack(eliding, Run, St, L, P, M) /\ Run.ok \in BOOLEAN
    BY <1>2 DEF Tracks
  <1>14. DOMAIN P2 = Nat /\ P2[n + 1] = p /\ Agree(P2, P, n)
    <2>1. DOMAIN P = Nat /\ n + 1 \in Nat /\ \A j \in 1..n : j # n + 1 /\ j \in Nat
      BY <1>4, <1>13 DEF Stack
    <2>2. QED  BY <2>1 DEF Agree
  <1> HIDE DEF p, P2
  <1>15. ActAt(act, L[n + 1], P2[n + 1])
    <2>1. act.pushed <=> Pushes(L[n + 1].env, L[n + 1].ask)
      BY <1>3, <1>6, <1>8
    <2>2. act.on = L[n + 1].ask.to /\ act.at = L[n + 1].ask.at /\ act.path = L[n + 1].ask.path
      BY <1>3, <1>6
    <2>3. /\ p.env = L[n + 1].env /\ p.ask = L[n + 1].ask /\ LeftShape(p.left)
          /\ act.next = p.next /\ p.next \in Nat /\ p.next > 0
          /\ act.valid = p.valid /\ p.valid \in BOOLEAN
      <3>1. LeftShape(p.left)
        BY <1>11, NothingShape
      <3>2. act.next = p.next /\ p.next \in Nat /\ p.next > 0
        BY <1>6, <1>11
      <3>3. act.valid = p.valid /\ p.valid \in BOOLEAN
        BY <1>6, <1>11
      <3>4. QED  BY <1>11, <3>1, <3>2, <3>3
    <2>4. ActAt(act, L[n + 1], p)
      BY <1>3, <1>10, <2>1, <2>2, <2>3 DEF ActAt
    <2>5. QED  BY <1>14, <2>4
  <1>16. /\ Len(run.acts) = n + 1 /\ Agree(run.acts, Run.acts, n)
         /\ run.acts[n + 1] = act
    BY <1>4, <1>5, AppendFacts DEF Agree
  <1>17. /\ Agree(st.frames, St.frames, n) /\ st.frames[n + 1] = L[n + 1].base
         /\ st.frames[(n + 1) + 1] = EmptyFrame
    <2>1. IsSeq(St.frames)
      BY <1>4 DEF StateShape
    <2>2. /\ \A i \in 1..(n + 1) : st.frames[i] = St.frames[i]
          /\ st.frames[(n + 1) + 1] = EmptyFrame
      BY <1>4, <1>7, <2>1, AppendFacts
    <2>3. n + 1 \in 1..(n + 1) /\ \A j \in 1..n : j \in 1..(n + 1)
      BY <1>4
    <2>4. QED  BY <1>3, <2>2, <2>3 DEF Agree
  <1>18. Stack(eliding, run, st, L, P2, M)
    <2>1. n = Len(Run.acts)
      OBVIOUS
    <2> HIDE DEF n
    <2>2. ActAt(run.acts[n + 1], L[n + 1], P2[n + 1])
      BY <1>15, <1>16
    <2>3. QED  BY <1>3, <1>4, <1>5, <1>9, <1>13, <1>14, <1>16, <1>17, <2>1, <2>2, StackGrows
  <1>19. AtKeyword(eliding, run, st, n + 1, L[n + 1], P2[n + 1])
    <2>1. st.errors = L[n + 1].errors \o p.left.errors
      <3>1. p.left.errors = << >> /\ IsSeq(L[n + 1].errors)
        BY <1>3, <1>11 DEF LevelShape, Nothing
      <3>2. QED  BY <1>3, <1>7, <3>1, JoinNothing
    <2>2. EmptyFrame = [deps |-> p.left.deps, notes |-> p.left.notes]
      BY <1>11 DEF Nothing, EmptyFrame
    <2>3. QED  BY <1>5, <1>12, <1>14, <1>17, <2>1, <2>2 DEF AtKeyword
  <1> HIDE DEF n
  <1>20. Position(eliding, run, st, L, P2, M)
    BY <1>5, <1>16, <1>19 DEF Position
  <1>21. Tracked(eliding, run, st)
    BY <1>5, <1>13, <1>18, <1>20 DEF Tracked, Tracks
  <1>22. QED  BY <1>1, <1>5, <1>21, TrackState

-----------------------------------------------------------------------------
(* The keywords of the innermost application.                              *)

LEMMA OpenStanding ==
  ASSUME TInv, runs # << >>, Run.acts # << >>, NEW n, n = Len(Run.acts),
         NEW L, NEW P, NEW M, Tracks(eliding, Run, St, L, P, M)
  PROVE  /\ n \in Nat /\ n > 0 /\ IsSeq(Run.acts) /\ Act = Run.acts[n] /\ ActShape(Act)
         /\ ActAt(Act, L[n], P[n]) /\ St.frames[n] = L[n].base
         /\ EnvIn(St) = Inside(P[n].env, P[n].ask)
         /\ StateShape(St) /\ IsSeq(St.frames) /\ Len(St.frames) = n + 1
         /\ n + 1 \in DOMAIN St.frames /\ Top(St.frames) = St.frames[n + 1]
         /\ Stack(eliding, Run, St, L, P, M) /\ Run.ok \in BOOLEAN
  <1>1. /\ RunShape(Run) /\ IsSeq(Run.acts) /\ n \in Nat /\ DOMAIN Run.acts = 1..n
        /\ StateShape(St) /\ Len(St.frames) = n + 1 /\ DOMAIN St.frames = 1..(n + 1)
    BY Standing
  <1>2. Stack(eliding, Run, St, L, P, M) /\ Run.ok \in BOOLEAN
    BY DEF Tracks
  <1>3. /\ n > 0 /\ Act = Run.acts[n] /\ ActAt(Act, L[n], P[n]) /\ St.frames[n] = L[n].base
        /\ EnvIn(St) = Inside(P[n].env, P[n].ask)
    BY <1>1, <1>2, OpenTop DEF Act
  <1>4. n \in DOMAIN Run.acts /\ n + 1 \in DOMAIN St.frames
    BY <1>1, <1>3
  <1>5. ActShape(Act)
    BY <1>1, <1>3, <1>4 DEF RunShape
  <1>6. IsSeq(St.frames) /\ Top(St.frames) = St.frames[n + 1]
    BY <1>1 DEF StateShape, Top
  <1>7. QED  BY <1>1, <1>2, <1>3, <1>4, <1>5, <1>6

\* The keyword the evaluator is at is the one of the place.
LEMMA SameKeyword ==
  ASSUME NEW l, NEW p, ActAt(Act, l, p)
  PROVE  /\ Keyword = KeywordOf(p) /\ SchemaTable(Act.on) = TableAt(p)
         /\ Act.on = p.ask.to /\ Act.at = p.ask.at /\ Act.path = p.ask.path /\ Act.next = p.next
         /\ \A deps : Top(St.frames).deps = deps => Seen(Keyword) = SeenAt(p, deps)
  <1>1. Act.on = p.ask.to /\ Act.at = p.ask.at /\ Act.path = p.ask.path /\ Act.next = p.next
    BY DEF ActAt
  <1>2. Keyword = KeywordOf(p) /\ SchemaTable(Act.on) = TableAt(p)
    BY <1>1 DEF Keyword, KeywordOf, TableAt
  <1>3. ASSUME NEW deps, Top(St.frames).deps = deps  PROVE Seen(Keyword) = SeenAt(p, deps)
    BY <1>1, <1>2, <1>3 DEF Seen, SeenAt
  <1>4. QED  BY <1>1, <1>2, <1>3

\* The innermost application moves to another place or gets other answers.
Put(F, n, x) == [F EXCEPT ![n] = x]
Retops(run, act, st, n, L, P, M, p) ==
  /\ TInv /\ runs # << >> /\ Run.acts # << >> /\ n = Len(Run.acts)
  /\ Tracks(eliding, Run, St, L, P, M)
  /\ run.acts = Append(ButLast(Run.acts), act) /\ run.call = Run.call
  /\ ActAt(act, L[n], p)
  /\ Agree(st.frames, St.frames, n) /\ EnvIn(st) = EnvIn(St)

LEMMA TopTracked ==
  ASSUME NEW run, NEW act, NEW st, NEW n, NEW L, NEW P, NEW M, NEW p,
         Retops(run, act, st, n, L, P, M, p), NEW m
  PROVE  /\ Stack(eliding, run, st, L, Put(P, n, p), Put(M, n, m))
         /\ Len(run.acts) = n /\ run.acts[n] = act
         /\ Put(P, n, p)[n] = p /\ Put(M, n, m)[n] = m
  <1> DEFINE P2 == Put(P, n, p)
             M2 == Put(M, n, m)
  <1>0. /\ TInv /\ runs # << >> /\ Run.acts # << >> /\ n = Len(Run.acts)
        /\ Tracks(eliding, Run, St, L, P, M)
        /\ run.acts = Append(ButLast(Run.acts), act) /\ run.call = Run.call
        /\ ActAt(act, L[n], p)
        /\ Agree(st.frames, St.frames, n) /\ EnvIn(st) = EnvIn(St)
    BY DEF Retops
  <1>1. /\ n \in Nat /\ n > 0 /\ IsSeq(Run.acts)
        /\ Stack(eliding, Run, St, L, P, M)
    BY <1>0, OpenStanding
  <1>2. IsSeq(ButLast(Run.acts)) /\ Len(ButLast(Run.acts)) = n - 1
        /\ \A i \in 1..(n - 1) : ButLast(Run.acts)[i] = Run.acts[i]
    BY <1>0, <1>1, ButLastFacts
  <1>3. (n - 1) + 1 = n
    BY ONLY <1>1
  <1>4. /\ Len(run.acts) = n /\ run.acts[n] = act
        /\ Agree(run.acts, Run.acts, n - 1)
    BY <1>0, <1>2, <1>3, AppendFacts DEF Agree
  <1>5. DOMAIN L = Nat /\ DOMAIN P = Nat /\ DOMAIN M = Nat
    BY <1>1 DEF Stack
  <1>6. \A j \in 1..(n - 1) : j # n /\ j \in Nat
    BY ONLY <1>1
  <1>7. /\ P2[n] = p /\ M2[n] = m /\ Mapped(L, P2, M2)
        /\ Agree(L, L, n) /\ Agree(P2, P, n - 1) /\ Agree(M2, M, n - 1)
    BY <1>1, <1>5, <1>6 DEF Mapped, Agree, Put
  <1> HIDE DEF P2, M2
  <1>8. ActAt(run.acts[n], L[n], P2[n])
    BY <1>0, <1>4, <1>7
  <1>9. Stack(eliding, run, st, L, P2, M2)
    BY <1>0, <1>1, <1>4, <1>7, <1>8, StackTop
  <1>10. QED  BY <1>4, <1>7, <1>9 DEF P2, M2

\* The same, as the fields of the run a step makes of it.
LEMMA WithActRun ==
  ASSUME TInv, runs # << >>, NEW act
  PROVE  LET run == WithAct(act)
         IN /\ run.acts = Append(ButLast(Run.acts), act) /\ run.call = Run.call
            /\ run.st = Run.st /\ run.ok = Run.ok /\ run.thrown = Run.thrown /\ run.pc = Run.pc
  BY Standing DEF WithAct, RunShape

LEMMA WithActAt ==
  ASSUME TInv, runs # << >>, NEW act, NEW pc
  PROVE  LET run == [WithAct(act) EXCEPT !.pc = pc]
         IN /\ run.acts = Append(ButLast(Run.acts), act) /\ run.call = Run.call
            /\ run.st = Run.st /\ run.ok = Run.ok /\ run.thrown = Run.thrown /\ run.pc = pc
  BY Standing DEF WithAct, RunShape

LEMMA SkipUnknownTracks ==
  ASSUME TInv, SkipUnknown, IInv'
  PROVE  TInv'
  <1> DEFINE n == Len(Run.acts)
             act == [Act EXCEPT !.next = @ + 1]
             run == WithAct(act)
             st == IF eliding THEN St ELSE AddNote(St, Keyword)
  <1>1. /\ runs # << >> /\ Run.pc = "keyword" /\ Act.next <= Len(SchemaTable(Act.on))
        /\ IsUnknown(Keyword) /\ UNCHANGED <<eliding, due, last>>
        /\ IF AllowsUnknownAt(Act.on)
           THEN /\ heap' = IF eliding THEN heap ELSE [heap EXCEPT ![Run.st] = st]
                /\ runs' = Continue(run)
           ELSE runs' = Continue(Throw("UnknownKeyword")) /\ heap' = heap
    BY DEF SkipUnknown, More, Running, Run, St
  <1>2. Run.acts # << >>
    BY <1>1, Standing DEF RunShape
  <1>3. PICK L, P, M : Tracks(eliding, Run, St, L, P, M)
    BY <1>1, Standing
  <1>4. /\ n \in Nat /\ n > 0 /\ Act = Run.acts[n] /\ ActShape(Act) /\ ActAt(Act, L[n], P[n])
        /\ StateShape(St) /\ Len(St.frames) = n + 1 /\ n + 1 \in DOMAIN St.frames
        /\ Run.ok \in BOOLEAN
    BY <1>1, <1>2, <1>3, OpenStanding
  <1>5. AtKeyword(eliding, Run, St, n, L[n], P[n])
    BY <1>1, <1>3, AtPosition DEF Tracks
  <1> DEFINE p == P[n]
             p2 == Skipped(eliding, p)
  <1>6. /\ Keyword = KeywordOf(p) /\ SchemaTable(Act.on) = TableAt(p)
        /\ Act.on = p.ask.to /\ Act.at = p.ask.at /\ Act.path = p.ask.path /\ Act.next = p.next
    BY <1>4, SameKeyword
  <1>7. Reaches(eliding, p) /\ p.next <= Len(TableAt(p)) /\ IsUnknown(KeywordOf(p))
    BY <1>1, <1>5, <1>6 DEF AtKeyword
  <1> HIDE DEF n, act, run, st, p
  <1>8. n = Len(Run.acts) /\ p = P[n]
    BY DEF n, p
  <1>9. CASE ~AllowsUnknownAt(Act.on)
    <2>1. Comes(eliding, p.env, p.ask, Thrown("UnknownKeyword"))
      BY <1>6, <1>7, <1>9, UnknownReaches
    <2>2. n # 0 /\ p.env = L[n].env /\ p.ask = L[n].ask
      BY <1>4, <1>8 DEF ActAt
    <2>3. Comes(eliding, L[IF n = 0 THEN 1 ELSE n].env, L[IF n = 0 THEN 1 ELSE n].ask,
                Thrown("UnknownKeyword"))
      BY <2>1, <2>2
    <2>4. Named("UnknownKeyword")
      BY DEF Named
    <2>5. QED  BY <1>1, <1>3, <1>8, <1>9, <2>3, <2>4, ThrowTracksSame
  <1>10. CASE AllowsUnknownAt(Act.on)
    <2>1. Reaches(eliding, p2)
      BY <1>6, <1>7, <1>10, UnknownReaches
    <2>2. /\ LeftShape(p.left) /\ p.next \in Nat /\ p.next > 0
          /\ p.env = L[n].env /\ p.ask = L[n].ask /\ Act.valid = p.valid /\ p.valid \in BOOLEAN
      BY <1>4, <1>8 DEF ActAt
    <2>3. /\ p2.env = p.env /\ p2.ask = p.ask /\ p2.next = p.next + 1 /\ p2.valid = p.valid
          /\ p2.left.errors = p.left.errors /\ p2.left.deps = p.left.deps
          /\ p2.left.notes = IF eliding THEN p.left.notes ELSE Append(p.left.notes, NoteOf(p))
          /\ DOMAIN p2.left = DOMAIN p.left
          /\ p2.left = [errors |-> p2.left.errors, deps |-> p2.left.deps, notes |-> p2.left.notes]
      BY <2>2 DEF Skipped, Past, Place, LeftShape
    <2> HIDE DEF p2
    <2>4. LeftShape(p2.left)
      BY <2>2, <2>3, AppendFacts DEF LeftShape
    <2>5. /\ act.on = Act.on /\ act.at = Act.at /\ act.path = Act.path /\ act.pushed = Act.pushed
          /\ act.next = Act.next + 1 /\ act.valid = Act.valid
      BY <1>4 DEF act, ActShape
    <2>6. ActAt(act, L[n], p2)
      <3>1. p2.next \in Nat /\ p2.next > 0 /\ act.next = p2.next
        BY <1>6, <2>2, <2>3, <2>5
      <3>2. QED  BY <1>4, <1>8, <2>3, <2>4, <2>5, <3>1 DEF ActAt
    <2>7. /\ run.acts = Append(ButLast(Run.acts), act) /\ run.call = Run.call
          /\ run.st = Run.st /\ run.ok = Run.ok /\ run.thrown = Run.thrown /\ run.pc = Run.pc
      BY <1>1, WithActRun DEF run
    <2>8. /\ Agree(st.frames, St.frames, n) /\ EnvIn(st) = EnvIn(St) /\ st.errors = St.errors
          /\ st.frames[n + 1] = IF eliding THEN St.frames[n + 1]
                                ELSE [St.frames[n + 1] EXCEPT !.notes = Append(@, NoteOf(p))]
      <3>1. CASE eliding
        BY <3>1 DEF st, Agree
      <3>2. CASE ~eliding
        <4>1. st = AddNote(St, Keyword)
          BY <3>2 DEF st
        <4>2. /\ st.scope = St.scope /\ st.active = St.active /\ st.depth = St.depth
              /\ st.errors = St.errors
          BY <1>4, <4>1, AddNoteFacts
        <4>3. NoteOf(p) = [kw |-> Keyword.kw, on |-> Keyword.on, loc |-> Act.at.loc, path |-> Act.path]
          BY <1>6 DEF NoteOf
        <4>4. st.frames = [St.frames EXCEPT ![n + 1].notes = Append(@, NoteOf(p))]
          BY <1>4, <4>1, <4>3 DEF AddNote, StateShape
        <4>5. \A j \in 1..n : j # n + 1
          BY ONLY <1>4
        <4>6. QED  BY <1>4, <3>2, <4>2, <4>4, <4>5 DEF Agree, EnvIn
      <3>3. QED  BY <3>1, <3>2
    <2>9. AtKeyword(eliding, run, st, n, L[n], p2)
      <3>1. ~Threw(run)
        BY <1>5, <2>7 DEF AtKeyword, Threw
      <3>2. St.frames[n + 1] = [deps |-> p.left.deps, notes |-> p.left.notes]
        BY <1>5, <1>8 DEF AtKeyword
      <3>3. st.frames[n + 1] = [deps |-> p2.left.deps, notes |-> p2.left.notes]
        <4>1. CASE eliding
          BY <2>3, <2>8, <3>2, <4>1
        <4>2. CASE ~eliding
          <5>1. st.frames[n + 1] = [St.frames[n + 1] EXCEPT !.notes = Append(@, NoteOf(p))]
            BY <2>8, <4>2
          <5>2. p2.left.notes = Append(p.left.notes, NoteOf(p)) /\ p2.left.deps = p.left.deps
            BY <2>3, <4>2
          <5> DEFINE f == St.frames[n + 1]
                     d == p.left.deps
                     s == p.left.notes
                     x == NoteOf(p)
          <5>3. f = [deps |-> d, notes |-> s]
            BY <3>2
          <5> HIDE DEF f, d, s, x
          <5>4. [f EXCEPT !.notes = Append(@, x)] = [deps |-> d, notes |-> Append(s, x)]
            BY <5>3
          <5>5. QED  BY <5>1, <5>2, <5>4 DEF f, d, s, x
        <4>3. QED  BY <4>1, <4>2
      <3>4. st.errors = L[n].errors \o p2.left.errors
        BY <1>5, <1>8, <2>3, <2>8 DEF AtKeyword
      <3>5. QED  BY <2>1, <3>1, <3>3, <3>4 DEF AtKeyword
    <2> DEFINE P2 == Put(P, n, p2)
               M2 == Put(M, n, M[n])
    <2>10. /\ Stack(eliding, run, st, L, P2, M2)
           /\ Len(run.acts) = n /\ P2[n] = p2
      <3>1. Retops(run, act, st, n, L, P, M, p2)
        BY <1>1, <1>2, <1>3, <1>8, <2>6, <2>7, <2>8 DEF Retops
      <3>2. QED  BY ONLY <3>1, TopTracked
    <2> HIDE DEF P2, M2
    <2>11. Position(eliding, run, st, L, P2, M2)
      BY <1>1, <2>7, <2>9, <2>10 DEF Position
    <2>12. Tracked(eliding, run, st)
      BY <1>4, <2>7, <2>10, <2>11 DEF Tracked, Tracks
    <2>13. CASE eliding
      <3>1. heap' = heap /\ st = St
        BY <1>1, <1>10, <2>13 DEF st
      <3>2. QED  BY <1>1, <1>10, <2>7, <2>12, <3>1, TrackSame
    <2>14. CASE ~eliding
      BY <1>1, <1>10, <2>7, <2>12, <2>14, TrackState
    <2>15. QED  BY <2>13, <2>14
  <1>11. QED  BY <1>9, <1>10

\* What is known where a keyword is about to be evaluated, and amid its steps.
KeywordFacts(n, L, P, M) ==
  /\ Run.acts # << >> /\ n \in Nat /\ n > 0 /\ ActShape(Act) /\ ActAt(Act, L[n], P[n])
  /\ P[n].env = L[n].env /\ P[n].ask = L[n].ask /\ LeftShape(P[n].left)
  /\ Act.next = P[n].next /\ SchemaTable(Act.on) = TableAt(P[n])
  /\ Act.valid = P[n].valid
  /\ Keyword = KeywordOf(P[n]) /\ Act.at = P[n].ask.at
  /\ Seen(Keyword) = SeenAt(P[n], P[n].left.deps)
  /\ ~Threw(Run) /\ Reaches(eliding, P[n])
  /\ St.errors = L[n].errors \o P[n].left.errors
  /\ St.frames[n + 1] = [deps |-> P[n].left.deps, notes |-> P[n].left.notes]
StepFacts(n, L, P, M) ==
  /\ Run.acts # << >> /\ n \in Nat /\ n > 0 /\ Act = Run.acts[n]
  /\ ActShape(Act) /\ ActAt(Act, L[n], P[n])
  /\ P[n].env = L[n].env /\ P[n].ask = L[n].ask /\ LeftShape(P[n].left)
  /\ Working(eliding, Act, L[n], P[n], M[n])
  /\ Keyword = KeywordOf(P[n]) /\ Act.at = P[n].ask.at /\ Act.path = P[n].ask.path
  /\ Seen(Keyword) = SeenAt(P[n], P[n].left.deps \o M[n].left.deps)
  /\ ~Threw(Run)
  /\ St.errors = (L[n].errors \o P[n].left.errors) \o M[n].left.errors
  /\ St.frames[n + 1] = FrameOver(P[n].left, M[n].left)
  /\ EnvIn(St) = Inside(P[n].env, P[n].ask)

LEMMA KeywordStanding ==
  ASSUME TInv, runs # << >>, Run.pc = "keyword", NEW n, n = Len(Run.acts),
         NEW L, NEW P, NEW M, Tracks(eliding, Run, St, L, P, M)
  PROVE  KeywordFacts(n, L, P, M)
  <1>1. Run.acts # << >>
    BY Standing DEF RunShape
  <1>2. /\ n \in Nat /\ n > 0 /\ Act = Run.acts[n] /\ ActShape(Act) /\ ActAt(Act, L[n], P[n])
        /\ Top(St.frames) = St.frames[n + 1]
    BY <1>1, OpenStanding
  <1>3. AtKeyword(eliding, Run, St, n, L[n], P[n])
    BY AtPosition DEF Tracks
  <1>4. /\ Keyword = KeywordOf(P[n]) /\ SchemaTable(Act.on) = TableAt(P[n])
        /\ Act.at = P[n].ask.at
        /\ \A deps : Top(St.frames).deps = deps => Seen(Keyword) = SeenAt(P[n], deps)
    BY <1>2, SameKeyword
  <1>5. Top(St.frames).deps = P[n].left.deps
    BY <1>2, <1>3 DEF AtKeyword
  <1>6. /\ P[n].env = L[n].env /\ P[n].ask = L[n].ask /\ LeftShape(P[n].left)
        /\ Act.next = P[n].next /\ Act.valid = P[n].valid
    BY <1>2 DEF ActAt
  <1>7. QED  BY <1>1, <1>2, <1>3, <1>4, <1>5, <1>6 DEF AtKeyword, KeywordFacts

LEMMA StepStanding ==
  ASSUME TInv, runs # << >>, Run.pc = "step", NEW n, n = Len(Run.acts),
         NEW L, NEW P, NEW M, Tracks(eliding, Run, St, L, P, M)
  PROVE  StepFacts(n, L, P, M)
  <1>1. Run.acts # << >>
    BY Standing DEF RunShape
  <1>2. /\ n \in Nat /\ n > 0 /\ Act = Run.acts[n] /\ ActShape(Act) /\ ActAt(Act, L[n], P[n])
        /\ Top(St.frames) = St.frames[n + 1] /\ EnvIn(St) = Inside(P[n].env, P[n].ask)
    BY <1>1, OpenStanding
  <1>3. AtStep(eliding, Run, St, n, Run.acts[n], L[n], P[n], M[n])
    BY AtPosition DEF Tracks
  <1>4. /\ Keyword = KeywordOf(P[n]) /\ Act.at = P[n].ask.at /\ Act.path = P[n].ask.path
        /\ \A deps : Top(St.frames).deps = deps => Seen(Keyword) = SeenAt(P[n], deps)
    BY <1>2, SameKeyword
  <1>5. Top(St.frames).deps = P[n].left.deps \o M[n].left.deps
    <2>1. St.frames[n + 1] = FrameOver(P[n].left, M[n].left)
      BY <1>3 DEF AtStep
    <2>2. FrameOver(P[n].left, M[n].left).deps = P[n].left.deps \o M[n].left.deps
      BY DEF FrameOver
    <2>3. Top(St.frames) = FrameOver(P[n].left, M[n].left)
      BY <1>2, <2>1
    <2>4. QED  BY <2>2, <2>3
  <1>6. P[n].env = L[n].env /\ P[n].ask = L[n].ask /\ LeftShape(P[n].left)
    BY <1>2 DEF ActAt
  <1>7. QED  BY <1>1, <1>2, <1>3, <1>4, <1>5, <1>6 DEF AtStep, StepFacts

\* A keyword throws: its application comes to that.
LEMMA KeywordThrows ==
  ASSUME TInv, runs # << >>, NEW n, n = Len(Run.acts), n \in Nat, n > 0,
         NEW L, NEW P, NEW M, Tracks(eliding, Run, St, L, P, M),
         P[n].env = L[n].env, P[n].ask = L[n].ask,
         NEW name, Named(name), runs' = Continue(Throw(name)),
         Comes(eliding, P[n].env, P[n].ask, Thrown(name)),
         UNCHANGED <<heap, eliding, due, last>>, IInv'
  PROVE  TInv'
  <1>1. n # 0
    OBVIOUS
  <1>2. Comes(eliding, L[IF n = 0 THEN 1 ELSE n].env, L[IF n = 0 THEN 1 ELSE n].ask, Thrown(name))
    BY <1>1
  <1>3. QED  BY <1>2, ThrowTracksSame

LEMMA BeginKeywordTracks ==
  ASSUME TInv, BeginKeyword, IInv'
  PROVE  TInv'
  <1> DEFINE n == Len(Run.acts)
             refused == eliding /\ ~(KeywordReads(Keyword, Act.at) \subseteq Consumed)
             act == [Act EXCEPT !.mark = Len(St.errors),
                                !.steps = KeywordSteps(Keyword, Act.at, Seen(Keyword)),
                                !.verdicts = << >>]
             run == [WithAct(act) EXCEPT !.pc = "step"]
  <1>1. /\ runs # << >> /\ Run.pc = "keyword" /\ Act.next <= Len(SchemaTable(Act.on))
        /\ ~IsUnknown(Keyword) /\ UNCHANGED <<heap, eliding, due, last>>
        /\ IF refused THEN runs' = Continue(Throw("UndeclaredConsumption"))
           ELSE runs' = Continue(run)
    BY DEF BeginKeyword, More, Running, Run
  <1>2. PICK L, P, M : Tracks(eliding, Run, St, L, P, M)
    BY <1>1, Standing
  <1> DEFINE p == P[n]
  <1>3. /\ Run.acts # << >> /\ n \in Nat /\ n > 0 /\ ActShape(Act) /\ ActAt(Act, L[n], p)
        /\ p.env = L[n].env /\ p.ask = L[n].ask /\ LeftShape(p.left)
        /\ Act.next = p.next /\ SchemaTable(Act.on) = TableAt(p)
        /\ Keyword = KeywordOf(p) /\ Act.at = p.ask.at
        /\ Seen(Keyword) = SeenAt(p, p.left.deps)
        /\ ~Threw(Run) /\ Reaches(eliding, p)
        /\ St.errors = L[n].errors \o p.left.errors
        /\ St.frames[n + 1] = [deps |-> p.left.deps, notes |-> p.left.notes]
    <2>1. KeywordFacts(n, L, P, M)
      BY <1>1, <1>2, KeywordStanding
    <2>2. QED  BY <2>1 DEF KeywordFacts
  <1>4. n = Len(Run.acts) /\ p = P[n]
    OBVIOUS
  <1>5. /\ act.on = Act.on /\ act.at = Act.at /\ act.path = Act.path /\ act.pushed = Act.pushed
        /\ act.next = Act.next /\ act.valid = Act.valid
        /\ act.mark = Len(St.errors) /\ act.verdicts = << >>
        /\ act.steps = KeywordSteps(Keyword, Act.at, Seen(Keyword))
    BY <1>3 DEF ActShape
  <1>6. IF eliding /\ ~(KeywordReads(KeywordOf(p), p.ask.at) \subseteq Consumed)
        THEN Comes(eliding, p.env, p.ask, Thrown("UndeclaredConsumption"))
        ELSE ReachesStep(eliding, p, NoAnswer)
    BY <1>1, <1>3, KeywordReaches
  <1>7. refused <=> eliding /\ ~(KeywordReads(KeywordOf(p), p.ask.at) \subseteq Consumed)
    BY <1>3
  <1> HIDE DEF n, p, act, refused
  <1>8. CASE refused
    <2>1. Comes(eliding, P[n].env, P[n].ask, Thrown("UndeclaredConsumption"))
      BY <1>4, <1>6, <1>7, <1>8
    <2>2. Named("UndeclaredConsumption")
      BY DEF Named
    <2>3. QED  BY <1>1, <1>2, <1>3, <1>4, <1>8, <2>1, <2>2, KeywordThrows
  <1>9. CASE ~refused
    <2>0. run = [WithAct(act) EXCEPT !.pc = "step"]
      OBVIOUS
    <2> HIDE DEF run
    <2>1. /\ run.acts = Append(ButLast(Run.acts), act) /\ run.call = Run.call
          /\ run.st = Run.st /\ run.ok = Run.ok /\ run.thrown = Run.thrown /\ run.pc = "step"
      BY <1>1, <2>0, WithActAt
    <2>2. ActAt(act, L[n], p)
      BY <1>3, <1>5 DEF ActAt
    <2>3. Retops(run, act, St, n, L, P, M, p)
      BY <1>1, <1>2, <1>3, <1>4, <2>1, <2>2 DEF Retops, Agree
    <2> DEFINE P2 == Put(P, n, p)
               M2 == Put(M, n, NoAnswer)
    <2>4. /\ Stack(eliding, run, St, L, P2, M2)
          /\ Len(run.acts) = n /\ run.acts[n] = act /\ P2[n] = p /\ M2[n] = NoAnswer
      BY <2>3, TopTracked
    <2> HIDE DEF P2, M2
    <2>5. NoAnswer.verdicts = << >> /\ NoAnswer.left = Nothing
      BY DEF NoAnswer, Mid
    <2>6. Working(eliding, act, L[n], p, NoAnswer)
      <3>1. ReachesStep(eliding, p, NoAnswer)
        BY <1>6, <1>7, <1>9
      <3>2. p.next <= Len(TableAt(p)) /\ ~IsUnknown(KeywordOf(p))
        BY <1>1, <1>3
      <3>3. act.steps = StepsOf(p)
        BY <1>3, <1>5 DEF StepsOf
      <3>4. act.verdicts = NoAnswer.verdicts /\ Verdicts(NoAnswer.verdicts)
        BY <1>5, <2>5, EmptyList DEF Verdicts
      <3>5. act.mark = Len(L[n].errors \o p.left.errors) /\ LeftShape(NoAnswer.left)
        BY <1>3, <1>5, <2>5, NothingShape
      <3>6. QED  BY <3>1, <3>2, <3>3, <3>4, <3>5 DEF Working
    <2>7. IsSeq(L[n].errors) /\ IsSeq(p.left.errors) /\ IsSeq(p.left.deps) /\ IsSeq(p.left.notes)
      BY <1>3 DEF ActAt, LevelShape, LeftShape
    <2>8. St.errors = (L[n].errors \o p.left.errors) \o NoAnswer.left.errors
      <3>1. IsSeq(L[n].errors \o p.left.errors) /\ NoAnswer.left.errors = << >>
        BY <2>5, <2>7, JoinFacts DEF Nothing
      <3>2. QED  BY <1>3, <3>1, JoinNothing
    <2>9. St.frames[n + 1] = FrameOver(p.left, NoAnswer.left)
      <3>1. /\ p.left.deps \o NoAnswer.left.deps = p.left.deps
            /\ p.left.notes \o NoAnswer.left.notes = p.left.notes
        BY <2>5, <2>7, JoinNothing DEF Nothing
      <3>2. QED  BY <1>3, <3>1 DEF FrameOver
    <2>10. ~Threw(run)
      BY <1>3, <2>1 DEF Threw
    <2>11. AtStep(eliding, run, St, n, run.acts[n], L[n], P2[n], M2[n])
      BY <2>4, <2>6, <2>8, <2>9, <2>10 DEF AtStep
    <2>12. Position(eliding, run, St, L, P2, M2)
      BY <2>1, <2>4, <2>11 DEF Position
    <2>13. Run.ok \in BOOLEAN
      BY <1>2 DEF Tracks
    <2>14. Tracked(eliding, run, St)
      BY <2>1, <2>4, <2>12, <2>13 DEF Tracked, Tracks
    <2>15. runs' = Continue(run)
      BY <1>1, <1>9, <2>0
    <2>16. QED  BY <1>1, <2>1, <2>14, <2>15, TrackSame
  <1>10. QED  BY <1>8, <1>9

LEMMA ApplyStepTracks ==
  ASSUME TInv, KeywordsAreProper, ApplyStep, IInv'
  PROVE  TInv'
  <1> DEFINE n == Len(Run.acts)
             to == KeywordTarget(Step, Keyword, St.scope)
             run == [Run EXCEPT !.pc = "apply",
                       !.ask = [to |-> to, at |-> Step.at, path |-> Act.path \o Step.segs]]
  <1>1. /\ runs # << >> /\ Run.pc = "step" /\ Len(Act.verdicts) < Len(Act.steps)
        /\ Step.how # "call" /\ UNCHANGED <<heap, eliding, due, last>>
        /\ runs' = IF SchemaKind(to) = "missing" THEN Continue(Throw("Unresolvable"))
                   ELSE Continue(run)
    BY DEF ApplyStep, Stepping, Running, Run
  <1>2. PICK L, P, M : Tracks(eliding, Run, St, L, P, M)
    BY <1>1, Standing
  <1>0. n = Len(Run.acts)
    OBVIOUS
  <1> HIDE DEF n
  <1> DEFINE p == P[n]
             m == M[n]
             ask == AskOf(p, m)
  <1>3. /\ n \in Nat /\ n > 0 /\ Act = Run.acts[n]
        /\ ActAt(Act, L[n], p) /\ p.env = L[n].env /\ p.ask = L[n].ask
        /\ Working(eliding, Act, L[n], p, m)
        /\ Keyword = KeywordOf(p) /\ Act.path = p.ask.path
        /\ ~Threw(Run)
        /\ St.errors = (L[n].errors \o p.left.errors) \o m.left.errors
        /\ St.frames[n + 1] = FrameOver(p.left, m.left)
        /\ EnvIn(St) = Inside(p.env, p.ask)
    <2>1. runs # << >> /\ Run.pc = "step"
      BY <1>1
    <2>2. StepFacts(n, L, P, M)
      BY <1>0, <1>2, <2>1, StepStanding
    <2>3. QED  BY <2>2 DEF StepFacts
  <1>4. n = Len(Run.acts) /\ p = P[n] /\ m = M[n]
    BY <1>0
  <1> HIDE DEF p, m
  <1>5. Unanswered(p, m) /\ Step = StepOf(p, m)
    BY <1>1, <1>3 DEF Working, Unanswered, Step, StepOf
  <1>6. Applying(p, m) /\ ReachesStep(eliding, p, m)
    BY <1>1, <1>3, <1>5 DEF Applying, Working
  <1>7. /\ ask.to = to /\ ask.at = Step.at /\ ask.path = Act.path \o Step.segs
        /\ ask = [to |-> to, at |-> Step.at, path |-> Act.path \o Step.segs]
    <2>1. Inside(p.env, p.ask).scope = St.scope
      BY <1>3 DEF EnvIn
    <2>2. QED  BY <1>3, <1>5, <2>1 DEF AskOf
  <1>8. RunShape(Run) /\ Run.ok \in BOOLEAN /\ Stack(eliding, Run, St, L, P, M)
    BY <1>1, <1>2, Standing DEF Tracks
  <1>9. /\ run.acts = Run.acts /\ run.call = Run.call /\ run.st = Run.st /\ run.ok = Run.ok
        /\ run.thrown = Run.thrown /\ run.pc = "apply" /\ run.ask = ask
    BY <1>7, <1>8 DEF RunShape
  <1> HIDE DEF to, run, ask
  <1>10. CASE SchemaKind(to) = "missing"
    <2>1. SchemaKind(AskOf(p, m).to) = "missing"
      BY <1>7, <1>10 DEF ask
    <2>2. Comes(eliding, P[n].env, P[n].ask, Thrown("Unresolvable"))
      BY <1>4, <1>6, <2>1, MissingReaches
    <2>3. Named("Unresolvable")
      BY DEF Named
    <2>4. runs' = Continue(Throw("Unresolvable"))
      BY <1>1, <1>10
    <2>5. QED  BY <1>1, <1>2, <1>3, <1>4, <2>2, <2>3, <2>4, KeywordThrows
  <1>11. CASE SchemaKind(to) # "missing"
    <2> DEFINE next == NextLevel(L[n], p, m)
               L2 == Put(L, n + 1, next)
    <2>1. LevelShape(next)
      <3>1. SchemaKind(AskOf(p, m).to) # "missing" /\ StepOf(p, m).how # "call"
        BY <1>6, <1>7, <1>11 DEF ask, Applying
      <3>2. QED  BY <1>3, <1>5, <3>1, StepKeeps
    <2>2. /\ next.ask = ask /\ next.errors = (L[n].errors \o p.left.errors) \o m.left.errors
          /\ next.base = FrameOver(p.left, m.left)
      BY DEF NextLevel, ask
    <2>3. DOMAIN L2 = Nat /\ L2[n + 1] = next /\ Agree(L2, L, n)
      <3>1. DOMAIN L = Nat
        BY <1>8 DEF Stack
      <3>2. n + 1 \in Nat /\ \A j \in 1..n : j # n + 1 /\ j \in Nat
        BY ONLY <1>3
      <3>3. QED  BY <3>1, <3>2 DEF Agree, Put
    <2> HIDE DEF L2
    <2>4. AtApply(run, St, n, L2[n + 1])
      <3>1. ~Threw(run) /\ run.ask = next.ask
        BY <1>3, <1>9, <2>2 DEF Threw
      <3>2. QED  BY <1>3, <2>1, <2>2, <2>3, <3>1 DEF AtApply
    <2>5. Waits(eliding, run.acts[n], L2[n], P[n], M[n], L2[n + 1])
      <3>1. L2[n] = L[n] /\ run.acts[n] = Act
        BY <1>3, <1>9, <2>3 DEF Agree
      <3>2. SchemaKind(AskOf(p, m).to) # "missing"
        BY <1>7, <1>11 DEF ask
      <3>3. QED  BY <1>3, <1>4, <1>6, <2>3, <3>1, <3>2 DEF Waits
    <2> HIDE DEF next
    <2>6. Stack(eliding, run, St, L2, P, M)
      <3>1. Agree(St.frames, St.frames, n) /\ n # 0
        BY <1>3 DEF Agree
      <3>2. QED  BY <1>3, <1>4, <1>8, <1>9, <2>3, <3>1, StackStays
    <2>7. Position(eliding, run, St, L2, P, M)
      <3>1. Len(run.acts) = n
        BY <1>4, <1>9
      <3>2. QED  BY <1>9, <2>4, <2>5, <3>1 DEF Position
    <2>8. Tracked(eliding, run, St)
      BY <1>8, <1>9, <2>6, <2>7 DEF Tracked, Tracks
    <2>9. runs' = Continue(run)
      BY <1>1, <1>11
    <2>10. QED  BY <1>1, <1>9, <2>8, <2>9, TrackSame
  <1>12. QED  BY <1>10, <1>11

\* What an application leaves, put together with what the steps before it left.
LeftsMeet(l, p, m, left) ==
  /\ LeftShape(Joined(m.left, left))
  /\ NextLevel(l, p, m).errors \o left.errors
       = (l.errors \o p.left.errors) \o Joined(m.left, left).errors
  /\ FrameOver(NextLevel(l, p, m).base, left) = FrameOver(p.left, Joined(m.left, left))
LEMMA LeftsJoin ==
  ASSUME NEW l, NEW p, NEW m, NEW left, LevelShape(l), LeftShape(p.left), LeftShape(m.left),
         LeftShape(left)
  PROVE  LeftsMeet(l, p, m, left)
  <1> DEFINE both == Joined(m.left, left)
             next == NextLevel(l, p, m)
  <1>1. /\ both.errors = m.left.errors \o left.errors
        /\ both.deps = m.left.deps \o left.deps /\ both.notes = m.left.notes \o left.notes
    BY DEF Joined
  <1>2. /\ next.errors = (l.errors \o p.left.errors) \o m.left.errors
        /\ next.base.deps = p.left.deps \o m.left.deps
        /\ next.base.notes = p.left.notes \o m.left.notes
    BY DEF NextLevel, FrameOver
  <1>3. LeftShape(both)
    BY JoinedShape
  <1> HIDE DEF both, next
  <1>4. /\ IsSeq(l.errors \o p.left.errors) /\ IsSeq(m.left.errors) /\ IsSeq(left.errors)
        /\ IsSeq(p.left.deps) /\ IsSeq(m.left.deps) /\ IsSeq(left.deps)
        /\ IsSeq(p.left.notes) /\ IsSeq(m.left.notes) /\ IsSeq(left.notes)
    BY JoinFacts DEF LevelShape, LeftShape
  <1>5. next.errors \o left.errors = (l.errors \o p.left.errors) \o both.errors
    <2>1. ((l.errors \o p.left.errors) \o m.left.errors) \o left.errors
            = (l.errors \o p.left.errors) \o (m.left.errors \o left.errors)
      <3> DEFINE a == l.errors \o p.left.errors
                 b == m.left.errors
                 c == left.errors
      <3>1. IsSeq(a) /\ IsSeq(b) /\ IsSeq(c)
        BY <1>4
      <3> HIDE DEF a, b, c
      <3>2. (a \o b) \o c = a \o (b \o c)
        BY <3>1, JoinAgain
      <3>3. QED  BY <3>2 DEF a, b, c
    <2>2. QED  BY ONLY <1>1, <1>2, <2>1
  <1>6. /\ next.base.deps \o left.deps = p.left.deps \o both.deps
        /\ next.base.notes \o left.notes = p.left.notes \o both.notes
    <2>1. /\ (p.left.deps \o m.left.deps) \o left.deps = p.left.deps \o (m.left.deps \o left.deps)
          /\ (p.left.notes \o m.left.notes) \o left.notes
               = p.left.notes \o (m.left.notes \o left.notes)
      <3> DEFINE a == p.left.deps
                 b == m.left.deps
                 c == left.deps
                 f == p.left.notes
                 g == m.left.notes
                 h == left.notes
      <3>1. IsSeq(a) /\ IsSeq(b) /\ IsSeq(c)
        BY <1>4
      <3>2. IsSeq(f) /\ IsSeq(g) /\ IsSeq(h)
        BY <1>4
      <3> HIDE DEF a, b, c, f, g, h
      <3>3. (a \o b) \o c = a \o (b \o c)
        BY ONLY <3>1, JoinAgain
      <3>4. (f \o g) \o h = f \o (g \o h)
        BY ONLY <3>2, JoinAgain
      <3>5. QED  BY <3>3, <3>4 DEF a, b, c, f, g, h
    <2>2. QED  BY ONLY <1>1, <1>2, <2>1
  <1>7. FrameOver(next.base, left) = FrameOver(p.left, both)
    BY <1>6 DEF FrameOver
  <1>8. QED  BY <1>3, <1>5, <1>7 DEF both, next, LeftsMeet

LEMMA AnsweredReaches ==
  ASSUME NEW e, NEW p, NEW m, ReachesStep(e, p, m), Applying(p, m),
         SchemaKind(AskOf(p, m).to) # "missing", NEW ok, NEW left,
         Comes(e, Inside(p.env, p.ask), AskOf(p, m), Gives(ok, left))
  PROVE  ReachesStep(e, p, Answered(m, ok, left))
  <1> DEFINE inner == Gives(ok, left)
  <1>1. inner.ok = ok /\ inner.left = left
    BY DEF Gives
  <1>2. inner.thrown = ""
    BY DEF Gives
  <1> HIDE DEF inner
  <1>3. Comes(e, Inside(p.env, p.ask), AskOf(p, m), inner)
    BY DEF inner
  <1>4. ReachesStep(e, p, Answered(m, inner.ok, inner.left))
    BY <1>2, <1>3, AnswerReaches
  <1>5. QED  BY <1>1, <1>4

LEMMA ResumeTracks ==
  ASSUME TInv, Resume, IInv'
  PROVE  TInv'
  <1> DEFINE n == Len(Run.acts)
             act == [Act EXCEPT !.verdicts = Append(@, Run.ok)]
             run == [WithAct(act) EXCEPT !.pc = "step"]
  <1>1. /\ runs # << >> /\ Run.pc = "return" /\ Run.acts # << >>
        /\ UNCHANGED <<heap, eliding, due, last>> /\ runs' = Continue(run)
    BY DEF Resume, Running, Run
  <1>2. PICK L, P, M : Tracks(eliding, Run, St, L, P, M)
    BY <1>1, Standing
  <1>3. /\ n \in Nat /\ n > 0 /\ Act = Run.acts[n] /\ ActShape(Act) /\ ActAt(Act, L[n], P[n])
        /\ Run.ok \in BOOLEAN
    BY <1>1, <1>2, OpenStanding
  <1>4. /\ AtReturn(eliding, Run, St, n, L[n + 1])
        /\ n > 0 => Waits(eliding, Run.acts[n], L[n], P[n], M[n], L[n + 1])
    BY <1>1, <1>2, AtPosition DEF Tracks
  <1>5. PICK left : /\ LeftShape(left)
                    /\ Comes(eliding, L[n + 1].env, L[n + 1].ask, Gives(Run.ok, left))
                    /\ St.errors = L[n + 1].errors \o left.errors
                    /\ St.frames[n + 1] = FrameOver(L[n + 1].base, left)
    BY <1>4 DEF AtReturn
  <1>6. n = Len(Run.acts) /\ ~Threw(Run)
    BY <1>4 DEF AtReturn
  <1> DEFINE p == P[n]
             m == M[n]
             m2 == Answered(m, Run.ok, left)
  <1>7. Waits(eliding, Act, L[n], p, m, L[n + 1])
    BY <1>3, <1>4
  <1>8. /\ act.on = Act.on /\ act.at = Act.at /\ act.path = Act.path /\ act.pushed = Act.pushed
        /\ act.next = Act.next /\ act.valid = Act.valid /\ act.mark = Act.mark
        /\ act.steps = Act.steps /\ act.verdicts = Append(Act.verdicts, Run.ok)
    BY <1>3 DEF ActShape
  <1>9. /\ run.acts = Append(ButLast(Run.acts), act) /\ run.call = Run.call
        /\ run.st = Run.st /\ run.ok = Run.ok /\ run.thrown = Run.thrown /\ run.pc = "step"
    BY <1>1, WithActAt
  <1>10. m2.verdicts = Append(m.verdicts, Run.ok) /\ m2.left = Joined(m.left, left)
    BY DEF Answered, Mid
  <1>11. p = P[n] /\ m = M[n] /\ runs' = Continue(run)
    BY <1>1
  <1> HIDE DEF n, act, run, p, m
  <1>12. /\ Working(eliding, Act, L[n], p, m) /\ Applying(p, m)
         /\ SchemaKind(AskOf(p, m).to) # "missing" /\ L[n + 1] = NextLevel(L[n], p, m)
    BY <1>7 DEF Waits
  <1>13. ReachesStep(eliding, p, m2)
    <2>1. L[n + 1].env = Inside(p.env, p.ask) /\ L[n + 1].ask = AskOf(p, m)
      BY <1>12 DEF NextLevel
    <2>2. ReachesStep(eliding, p, m)
      BY <1>12 DEF Working
    <2>3. QED  BY <1>5, <1>12, <2>1, <2>2, AnsweredReaches
  <1> HIDE DEF m2
  <1>14. LevelShape(L[n]) /\ LeftShape(p.left) /\ LeftShape(m.left)
    BY <1>3, <1>11, <1>12 DEF ActAt, Working
  <1>15. /\ LeftShape(m2.left)
         /\ St.errors = (L[n].errors \o p.left.errors) \o m2.left.errors
         /\ St.frames[n + 1] = FrameOver(p.left, m2.left)
    <2>1. LeftsMeet(L[n], p, m, left)
      BY <1>5, <1>14, LeftsJoin
    <2>2. L[n + 1] = NextLevel(L[n], p, m)
      BY <1>12
    <2>3. QED  BY <1>5, <1>10, <2>1, <2>2 DEF LeftsMeet
  <1>16. Working(eliding, act, L[n], p, m2)
    <2>1. Verdicts(m.verdicts) /\ Act.verdicts = m.verdicts
      BY <1>12 DEF Working
    <2>2. act.verdicts = m2.verdicts /\ Verdicts(m2.verdicts)
      BY <1>3, <1>8, <1>10, <2>1, VerdictsGrow
    <2>3. QED  BY <1>8, <1>12, <1>13, <1>15, <2>2 DEF Working
  <1>17. ActAt(act, L[n], p)
    BY <1>3, <1>8, <1>11 DEF ActAt
  <1>18. Retops(run, act, St, n, L, P, M, p)
    BY <1>1, <1>2, <1>6, <1>9, <1>17 DEF Retops, Agree
  <1> DEFINE P2 == Put(P, n, p)
             M2 == Put(M, n, m2)
  <1>19. /\ Stack(eliding, run, St, L, P2, M2)
         /\ Len(run.acts) = n /\ run.acts[n] = act /\ P2[n] = p /\ M2[n] = m2
    BY <1>18, TopTracked
  <1> HIDE DEF P2, M2
  <1>20. AtStep(eliding, run, St, n, run.acts[n], L[n], P2[n], M2[n])
    <2>1. ~Threw(run)
      BY <1>6, <1>9 DEF Threw
    <2>2. QED  BY <1>15, <1>16, <1>19, <2>1 DEF AtStep
  <1>21. Position(eliding, run, St, L, P2, M2)
    BY <1>9, <1>19, <1>20 DEF Position
  <1>22. Tracked(eliding, run, St)
    BY <1>3, <1>9, <1>19, <1>21 DEF Tracked, Tracks
  <1>23. QED  BY <1>1, <1>9, <1>11, <1>22, TrackSame

LEMMA ListOver ==
  ASSUME NEW s, IsSeq(s), NEW f, DOMAIN f = DOMAIN s, f = [i \in DOMAIN f |-> f[i]]
  PROVE  IsSeq(f)
  <1> DEFINE S == {f[i] : i \in DOMAIN f}
             n == Len(s)
  <1>1. n \in Nat /\ DOMAIN f = 1..n
    BY ListFacts
  <1>2. \A i \in 1..n : f[i] \in S
    BY <1>1
  <1> HIDE DEF S, n
  <1>3. f = [i \in 1..n |-> f[i]]
    BY <1>1
  <1>4. f \in [1..n -> S]
    BY <1>2, <1>3
  <1>5. f \in Seq(S)
    BY <1>1, <1>4
  <1>6. QED  BY <1>5, Lists

\* What a keyword tells, in the words of the rules.
NotedIn(notes, p) == IF Annotation(KeywordOf(p)) /\ ~eliding THEN Append(notes, NoteOf(p)) ELSE notes
KeptOf(p, m) == IF eliding /\ KeywordOf(p).id \notin Consumed THEN << >> ELSE RecordsOf(p, m)
ToldAs(n, p, m) ==
  /\ Told(St).errors = St.errors \o ReportsOf(p, m)
  /\ Agree(Told(St).frames, St.frames, n) /\ EnvIn(Told(St)) = EnvIn(St)
  /\ Told(St).frames[n + 1] = [deps  |-> (p.left.deps \o m.left.deps) \o KeptOf(p, m),
                               notes |-> NotedIn(p.left.notes \o m.left.notes, p)]
  /\ StateShape(Told(St))

LEMMA OutcomeSame ==
  ASSUME NEW n, NEW L, NEW P, NEW M, StepFacts(n, L, P, M)
  PROVE  /\ Outcome = OutcomeOf(P[n], M[n])
         /\ Reports = ReportsOf(P[n], M[n]) /\ Records = RecordsOf(P[n], M[n])
         /\ Kept = KeptOf(P[n], M[n])
         /\ [kw |-> Keyword.kw, on |-> Keyword.on, loc |-> Act.at.loc, path |-> Act.path]
              = NoteOf(P[n])
  <1>1. /\ Keyword = KeywordOf(P[n]) /\ Act.at = P[n].ask.at /\ Act.path = P[n].ask.path
        /\ Seen(Keyword) = SeenAt(P[n], P[n].left.deps \o M[n].left.deps)
        /\ Act.verdicts = M[n].verdicts
    BY DEF StepFacts, Working
  <1>2. Outcome = OutcomeOf(P[n], M[n])
    BY <1>1 DEF Outcome, OutcomeOf
  <1>3. Reports = ReportsOf(P[n], M[n]) /\ Records = RecordsOf(P[n], M[n])
    BY <1>1, <1>2 DEF Reports, ReportsOf, Records, RecordsOf
  <1>4. Kept = KeptOf(P[n], M[n])
    BY <1>1, <1>3 DEF Kept, KeptOf
  <1>5. QED  BY <1>1, <1>2, <1>3, <1>4 DEF NoteOf

LEMMA ToldStanding ==
  ASSUME TInv, runs # << >>, NEW n, n = Len(Run.acts), NEW L, NEW P, NEW M,
         StepFacts(n, L, P, M)
  PROVE  ToldAs(n, P[n], M[n])
  <1> DEFINE p == P[n]
             m == M[n]
             noted == IF Annotation(Keyword) /\ ~eliding THEN AddNote(St, Keyword) ELSE St
             frame == [deps |-> p.left.deps \o m.left.deps,
                       notes |-> NotedIn(p.left.notes \o m.left.notes, p)]
             told == Told(St)
  <1>1. /\ StateShape(St) /\ Len(St.frames) = n + 1 /\ n \in Nat /\ n + 1 \in DOMAIN St.frames
    <2>1. /\ StateShape(St) /\ Len(St.frames) = n + 1 /\ n \in Nat
          /\ DOMAIN St.frames = 1..(n + 1)
      BY Standing
    <2>2. QED  BY <2>1
  <1>2. /\ Outcome = OutcomeOf(p, m)
        /\ Reports = ReportsOf(p, m) /\ Kept = KeptOf(p, m) /\ Keyword = KeywordOf(p)
        /\ [kw |-> Keyword.kw, on |-> Keyword.on, loc |-> Act.at.loc, path |-> Act.path] = NoteOf(p)
    BY OutcomeSame DEF StepFacts
  <1>3. St.frames[n + 1] = [deps |-> p.left.deps \o m.left.deps,
                            notes |-> p.left.notes \o m.left.notes]
    BY DEF StepFacts, FrameOver
  <1>4. \A j \in 1..n : j # n + 1
    BY ONLY <1>1
  <1> HIDE DEF p, m
  <1>5. /\ StateShape(noted) /\ Len(noted.frames) = n + 1
        /\ noted.scope = St.scope /\ noted.active = St.active /\ noted.depth = St.depth
        /\ noted.errors = St.errors
        /\ DOMAIN noted.frames = DOMAIN St.frames
        /\ Agree(noted.frames, St.frames, n) /\ noted.frames[n + 1] = frame
    <2>1. CASE Annotation(Keyword) /\ ~eliding
      <3>1. noted = AddNote(St, Keyword)
        BY <2>1
      <3>2. /\ StateShape(noted) /\ Len(noted.frames) = n + 1
            /\ noted.scope = St.scope /\ noted.active = St.active /\ noted.depth = St.depth
            /\ noted.errors = St.errors
        BY <1>1, <3>1, AddNoteFacts
      <3>3. noted.frames = [St.frames EXCEPT ![n + 1].notes = Append(@, NoteOf(p))]
        BY <1>1, <1>2, <3>1 DEF AddNote, StateShape
      <3>4. /\ DOMAIN noted.frames = DOMAIN St.frames /\ Agree(noted.frames, St.frames, n)
            /\ noted.frames[n + 1] = [St.frames[n + 1] EXCEPT !.notes = Append(@, NoteOf(p))]
        <4> DEFINE F == St.frames
                   N == NoteOf(p)
                   G == noted.frames
        <4>1. n + 1 \in DOMAIN F /\ G = [F EXCEPT ![n + 1].notes = Append(@, N)]
          BY <1>1, <3>3
        <4> HIDE DEF F, N, G
        <4>2. DOMAIN G = DOMAIN F /\ \A j \in 1..n : G[j] = F[j]
          BY <1>4, <4>1
        <4>3. G[n + 1] = [F[n + 1] EXCEPT !.notes = Append(@, N)]
          BY <4>1
        <4>4. QED  BY <4>2, <4>3 DEF F, N, G, Agree
      <3>5. noted.frames[n + 1] = [deps |-> p.left.deps \o m.left.deps,
                                   notes |-> Append(p.left.notes \o m.left.notes, NoteOf(p))]
        <4> DEFINE f == St.frames[n + 1]
                   d == p.left.deps \o m.left.deps
                   s == p.left.notes \o m.left.notes
                   x == NoteOf(p)
        <4>1. f = [deps |-> d, notes |-> s]
          BY <1>3
        <4> HIDE DEF f, d, s, x
        <4>2. [f EXCEPT !.notes = Append(@, x)] = [deps |-> d, notes |-> Append(s, x)]
          BY ONLY <4>1
        <4>3. QED  BY <3>4, <4>2 DEF f, d, s, x
      <3>6. NotedIn(p.left.notes \o m.left.notes, p)
              = Append(p.left.notes \o m.left.notes, NoteOf(p))
        BY <1>2, <2>1 DEF NotedIn
      <3>7. QED  BY <3>2, <3>4, <3>5, <3>6
    <2>2. CASE ~(Annotation(Keyword) /\ ~eliding)
      <3>1. noted = St
        BY <2>2
      <3>2. NotedIn(p.left.notes \o m.left.notes, p) = p.left.notes \o m.left.notes
        BY <1>2, <2>2 DEF NotedIn
      <3>3. QED  BY <1>1, <1>3, <3>1, <3>2 DEF Agree
    <2>3. QED  BY <2>1, <2>2
  <1>6. told = [noted EXCEPT !.frames[n + 1].deps = @ \o KeptOf(p, m),
                             !.errors = @ \o ReportsOf(p, m)]
    BY <1>1, <1>2 DEF Told
  <1>7. StateShape(told)
    BY ToldFacts DEF TInv
  <1> HIDE DEF noted, told
  <1>8. /\ told.scope = noted.scope /\ told.active = noted.active /\ told.depth = noted.depth
        /\ told.errors = noted.errors \o ReportsOf(p, m)
        /\ told.frames = [noted.frames EXCEPT ![n + 1].deps = @ \o KeptOf(p, m)]
    BY <1>5, <1>6 DEF StateShape
  <1>9. /\ Agree(told.frames, St.frames, n)
        /\ told.frames[n + 1] = [noted.frames[n + 1] EXCEPT !.deps = @ \o KeptOf(p, m)]
    BY <1>1, <1>4, <1>5, <1>8 DEF Agree
  <1>10. told.frames[n + 1] = [deps  |-> (p.left.deps \o m.left.deps) \o KeptOf(p, m),
                               notes |-> NotedIn(p.left.notes \o m.left.notes, p)]
    <2> DEFINE f == noted.frames[n + 1]
               d == p.left.deps \o m.left.deps
               s == NotedIn(p.left.notes \o m.left.notes, p)
               x == KeptOf(p, m)
    <2>1. f = [deps |-> d, notes |-> s]
      BY <1>5
    <2> HIDE DEF f, d, s, x
    <2>2. [f EXCEPT !.deps = @ \o x] = [deps |-> d \o x, notes |-> s]
      <3> DEFINE y == f.deps \o x
      <3>1. y = d \o x
        BY ONLY <2>1
      <3> HIDE DEF y
      <3>2. [f EXCEPT !.deps = y] = [deps |-> y, notes |-> s]
        BY ONLY <2>1
      <3>3. [f EXCEPT !.deps = y] = [deps |-> d \o x, notes |-> s]
        BY ONLY <3>1, <3>2
      <3>4. QED  BY <3>3 DEF y
    <2>3. QED  BY <1>9, <2>2 DEF f, d, s, x
  <1>11. EnvIn(told) = EnvIn(St) /\ told.errors = St.errors \o ReportsOf(p, m)
    BY <1>5, <1>8 DEF EnvIn
  <1>12. QED  BY <1>7, <1>9, <1>10, <1>11 DEF ToldAs, told, p, m

\* The errors a keyword leaves, on top of those of its level.
ErrorsAre(l, p, m, r) ==
  /\ ((l \o p) \o m) \o r = l \o ((p \o m) \o r)
  /\ Drop(((l \o p) \o m) \o r, Len(l \o p)) = l \o p
LEMMA ErrorsLeft ==
  ASSUME NEW l, IsSeq(l), NEW p, IsSeq(p), NEW m, IsSeq(m), NEW r, IsSeq(r)
  PROVE  ErrorsAre(l, p, m, r)
  <1>1. IsSeq(l \o p) /\ IsSeq(p \o m) /\ IsSeq(m \o r)
    BY JoinFacts
  <1>2. (l \o p) \o m = l \o (p \o m)
    BY ONLY JoinAgain, IsSeq(l), IsSeq(p), IsSeq(m)
  <1>3. (l \o (p \o m)) \o r = l \o ((p \o m) \o r)
    <2> DEFINE a == p \o m
    <2>1. IsSeq(a)
      BY <1>1
    <2> HIDE DEF a
    <2>2. (l \o a) \o r = l \o (a \o r)
      BY ONLY JoinAgain, IsSeq(l), IsSeq(r), <2>1
    <2>3. QED  BY <2>2 DEF a
  <1>4. Drop(((l \o p) \o m) \o r, Len(l \o p)) = l \o p
    <2> DEFINE a == l \o p
    <2>1. IsSeq(a)
      BY <1>1
    <2> HIDE DEF a
    <2>2. (a \o m) \o r = a \o (m \o r)
      BY ONLY JoinAgain, IsSeq(m), IsSeq(r), <2>1
    <2>3. Drop(a \o (m \o r), Len(a)) = a
      BY ONLY DropJoined, <1>1, <2>1
    <2>4. Drop((a \o m) \o r, Len(a)) = a
      BY ONLY <2>2, <2>3
    <2>5. QED  BY <2>4 DEF a
  <1>5. QED  BY <1>2, <1>3, <1>4 DEF ErrorsAre

\* Where a keyword has decided, the evaluator is past it.
DecidedAs(n, l, p, m) ==
  /\ Decided(St).errors = l.errors \o LeftBy(eliding, p, m).errors
  /\ Agree(Decided(St).frames, St.frames, n) /\ EnvIn(Decided(St)) = EnvIn(St)
  /\ Decided(St).frames[n + 1] = [deps  |-> LeftBy(eliding, p, m).deps,
                                  notes |-> LeftBy(eliding, p, m).notes]
  /\ LeftShape(LeftBy(eliding, p, m))

LEMMA DecidedStanding ==
  ASSUME TInv, KeywordsAreProper, runs # << >>, NEW n, n = Len(Run.acts), NEW L, NEW P, NEW M,
         StepFacts(n, L, P, M)
  PROVE  DecidedAs(n, L[n], P[n], M[n])
  <1> DEFINE l == L[n]
             p == P[n]
             m == M[n]
             told == Told(St)
             left == LeftBy(eliding, p, m)
             R == ReportsOf(p, m)
  <1>1. ToldAs(n, p, m)
    BY ToldStanding
  <1>2. /\ Outcome = OutcomeOf(p, m) /\ Act.mark = Len(l.errors \o p.left.errors)
        /\ St.errors = (l.errors \o p.left.errors) \o m.left.errors
        /\ ActAt(Act, l, p) /\ p.next <= Len(TableAt(p))
        /\ LeftShape(p.left) /\ LeftShape(m.left) /\ Verdicts(m.verdicts)
    BY OutcomeSame DEF StepFacts, Working
  <1> HIDE DEF l, p, m
  <1>3. IsSeq(OutcomeOf(p, m).reports) /\ IsSeq(OutcomeOf(p, m).data)
    <2>1. IsSeq(p.left.deps \o m.left.deps) /\ Verdicts(m.verdicts)
      BY <1>2, JoinFacts DEF LeftShape
    <2> DEFINE seen == SeenAt(p, p.left.deps \o m.left.deps)
    <2>2. ProperOutcome(KeywordOf(p), p.ask.at, seen, m.verdicts)
      BY <1>2, <2>1, WorkingKeyword
    <2>3. QED  BY <2>2 DEF ProperOutcome, OutcomeOf
  <1>4. IsSeq(R) /\ IsSeq(KeptOf(p, m))
    <2>1. IsSeq(R)
      <3>1. DOMAIN R = DOMAIN OutcomeOf(p, m).reports /\ R = [i \in DOMAIN R |-> R[i]]
        BY DEF ReportsOf
      <3> HIDE DEF R
      <3>2. QED  BY <1>3, <3>1, ListOver
    <2>2. IsSeq(RecordsOf(p, m))
      <3> DEFINE D == RecordsOf(p, m)
      <3>1. DOMAIN D = DOMAIN OutcomeOf(p, m).data /\ D = [i \in DOMAIN D |-> D[i]]
        BY DEF RecordsOf
      <3> HIDE DEF D
      <3>2. IsSeq(D)
        BY <1>3, <3>1, ListOver
      <3>3. QED  BY <3>2 DEF D
    <2>3. QED  BY <2>1, <2>2, EmptyList DEF KeptOf
  <1>5. /\ IsSeq(l.errors) /\ IsSeq(p.left.errors) /\ IsSeq(m.left.errors)
        /\ IsSeq(p.left.deps) /\ IsSeq(m.left.deps) /\ IsSeq(p.left.notes) /\ IsSeq(m.left.notes)
    BY <1>2 DEF ActAt, LevelShape, LeftShape
  <1>6. /\ left.errors = IF OutcomeOf(p, m).ok THEN p.left.errors
                         ELSE (p.left.errors \o m.left.errors) \o R
        /\ left.deps = (p.left.deps \o m.left.deps) \o KeptOf(p, m)
        /\ left.notes = NotedIn(p.left.notes \o m.left.notes, p)
        /\ DOMAIN left = {"errors", "deps", "notes"}
        /\ left = [errors |-> left.errors, deps |-> left.deps, notes |-> left.notes]
    BY DEF LeftBy, KeptOf, NotedIn
  <1>7. /\ told.errors = St.errors \o R /\ StateShape(told)
        /\ Agree(told.frames, St.frames, n) /\ EnvIn(told) = EnvIn(St)
        /\ told.frames[n + 1] = [deps |-> left.deps, notes |-> left.notes]
    BY <1>1, <1>6 DEF ToldAs
  <1> HIDE DEF left, R, told
  <1>8. /\ ((l.errors \o p.left.errors) \o m.left.errors) \o R
             = l.errors \o ((p.left.errors \o m.left.errors) \o R)
        /\ Drop(((l.errors \o p.left.errors) \o m.left.errors) \o R, Len(l.errors \o p.left.errors))
             = l.errors \o p.left.errors
    <2>1. ErrorsAre(l.errors, p.left.errors, m.left.errors, R)
      BY <1>4, <1>5, ErrorsLeft
    <2>2. QED  BY ONLY <2>1 DEF ErrorsAre
  <1> DEFINE st == Decided(St)
  <1>9. /\ st.frames = told.frames /\ EnvIn(st) = EnvIn(told)
        /\ st.errors = IF Outcome.ok THEN Drop(told.errors, Act.mark) ELSE told.errors
    BY <1>7 DEF Decided, told, StateShape, EnvIn
  <1> HIDE DEF st
  <1>10. st.errors = l.errors \o left.errors
    <2>1. told.errors = ((l.errors \o p.left.errors) \o m.left.errors) \o R
      BY ONLY <1>2, <1>7
    <2>2. CASE OutcomeOf(p, m).ok
      <3>1. st.errors = Drop(told.errors, Len(l.errors \o p.left.errors))
        BY <1>2, <1>9, <2>2
      <3>2. left.errors = p.left.errors
        BY <1>6, <2>2
      <3>3. QED  BY ONLY <1>8, <2>1, <3>1, <3>2
    <2>3. CASE ~OutcomeOf(p, m).ok
      <3>1. st.errors = told.errors
        BY <1>2, <1>9, <2>3
      <3>2. left.errors = (p.left.errors \o m.left.errors) \o R
        BY <1>6, <2>3
      <3>3. QED  BY ONLY <1>8, <2>1, <3>1, <3>2
    <2>4. QED  BY <2>2, <2>3
  <1>11. LeftShape(left)
    <2>1. IsSeq(p.left.errors \o m.left.errors) /\ IsSeq(p.left.deps \o m.left.deps)
          /\ IsSeq(p.left.notes \o m.left.notes)
      BY <1>5, JoinFacts
    <2>2. IsSeq((p.left.errors \o m.left.errors) \o R)
      BY <1>4, <2>1, JoinFacts
    <2>3. IsSeq(left.deps)
      BY <1>4, <1>6, <2>1, JoinFacts
    <2>4. IsSeq(left.notes)
      BY <1>6, <2>1, AppendFacts DEF NotedIn
    <2>5. IsSeq(left.errors)
      BY <1>5, <1>6, <2>2
    <2>6. QED  BY <1>6, <2>3, <2>4, <2>5 DEF LeftShape
  <1>12. /\ st.errors = l.errors \o left.errors
         /\ Agree(st.frames, St.frames, n) /\ EnvIn(st) = EnvIn(St)
         /\ st.frames[n + 1] = [deps |-> left.deps, notes |-> left.notes]
    BY <1>7, <1>9, <1>10
  <1>13. QED  BY <1>11, <1>12 DEF DecidedAs, st, left, l, p, m

LEMMA EndKeywordTracks ==
  ASSUME TInv, KeywordsAreProper, EndKeyword, IInv'
  PROVE  TInv'
  <1> DEFINE act == [Act EXCEPT !.valid = @ /\ Outcome.ok, !.next = @ + 1]
             run == [WithAct(act) EXCEPT !.pc = "keyword"]
             undeclared == Outcome.data # << >> /\ Keyword.id \notin Produced
             contradicts == Outcome.ok /\ Outcome.reports # << >>
  <1>1. /\ runs # << >> /\ Run.pc = "step" /\ Len(Act.verdicts) = Len(Act.steps)
        /\ UNCHANGED <<eliding, due, last>>
        /\ \/ /\ undeclared
              /\ runs' = Continue(Throw("UndeclaredProduction")) /\ heap' = heap
           \/ /\ ~undeclared /\ contradicts
              /\ runs' = Continue(Throw("KeywordContract"))
              /\ heap' = [heap EXCEPT ![Run.st] = Told(St)]
           \/ /\ ~undeclared /\ ~contradicts
              /\ heap' = [heap EXCEPT ![Run.st] = Decided(St)] /\ runs' = Continue(run)
    BY DEF EndKeyword, Running, Run, St
  <1>2. PICK L, P, M : Tracks(eliding, Run, St, L, P, M)
    BY <1>1, Standing
  <1> DEFINE n == Len(Run.acts)
  <1>3. n = Len(Run.acts)
    OBVIOUS
  <1> HIDE DEF n
  <1>4. StepFacts(n, L, P, M)
    BY <1>1, <1>2, <1>3, StepStanding
  <1> DEFINE p == P[n]
             m == M[n]
             p2 == PastKeyword(eliding, p, m)
  <1>5. /\ n \in Nat /\ n > 0 /\ Run.acts # << >> /\ ActShape(Act) /\ ActAt(Act, L[n], p)
        /\ p.env = L[n].env /\ p.ask = L[n].ask
        /\ Working(eliding, Act, L[n], p, m) /\ Keyword = KeywordOf(p) /\ ~Threw(Run)
    BY <1>4 DEF StepFacts
  <1>6. Outcome = OutcomeOf(p, m)
    BY <1>4, OutcomeSame
  <1>7. p = P[n] /\ m = M[n]
    OBVIOUS
  <1>8. /\ act.on = Act.on /\ act.at = Act.at /\ act.path = Act.path /\ act.pushed = Act.pushed
        /\ act.next = Act.next + 1 /\ act.valid = (Act.valid /\ Outcome.ok)
    BY <1>5 DEF ActShape
  <1> HIDE DEF p, m, act
  <1>9. /\ undeclared <=> Undeclared(p, m)
        /\ contradicts <=> Contradicts(p, m)
    BY <1>5, <1>6 DEF Undeclared, Contradicts
  <1>10. ReachesStep(eliding, p, m) /\ ~Unanswered(p, m)
    <2>1. /\ ReachesStep(eliding, p, m) /\ Len(m.verdicts) = Len(StepsOf(p))
          /\ IsSeq(m.verdicts)
      BY <1>1, <1>5 DEF Working, Verdicts
    <2>2. ~(Len(m.verdicts) < Len(StepsOf(p)))
      <3>1. Len(m.verdicts) \in Nat
        BY <2>1, ListFacts
      <3>2. QED  BY ONLY <2>1, <3>1
    <2>3. QED  BY <2>1, <2>2 DEF Unanswered
  <1>11. Tracks(eliding, Run, St, L, P, M) /\ n # 0
    BY <1>2, <1>5
  <1> HIDE DEF undeclared, contradicts, p2, run
  <1>12. CASE undeclared /\ runs' = Continue(Throw("UndeclaredProduction")) /\ heap' = heap
    <2>1. Comes(eliding, P[n].env, P[n].ask, Thrown("UndeclaredProduction"))
      BY <1>7, <1>9, <1>10, <1>12, EndReaches
    <2>2. Named("UndeclaredProduction")
      BY DEF Named
    <2>3. P[n].env = L[n].env /\ P[n].ask = L[n].ask
      BY <1>5, <1>7
    <2>4. QED  BY <1>1, <1>2, <1>3, <1>5, <1>12, <2>1, <2>2, <2>3, KeywordThrows
  <1>13. CASE /\ ~undeclared /\ contradicts /\ runs' = Continue(Throw("KeywordContract"))
              /\ heap' = [heap EXCEPT ![Run.st] = Told(St)]
    <2>1. Comes(eliding, p.env, p.ask, Thrown("KeywordContract"))
      BY <1>9, <1>10, <1>13, EndReaches
    <2>2. Named("KeywordContract")
      BY DEF Named
    <2>3. Comes(eliding, L[IF n = 0 THEN 1 ELSE n].env, L[IF n = 0 THEN 1 ELSE n].ask,
                Thrown("KeywordContract"))
      BY <1>5, <1>11, <2>1
    <2>4. ToldAs(n, P[n], M[n])
      BY <1>1, <1>3, <1>4, ToldStanding
    <2>5. Agree(Told(St).frames, St.frames, n) /\ EnvIn(Told(St)) = EnvIn(St)
      BY <2>4 DEF ToldAs
    <2>6. /\ DOMAIN heap' = StateIds /\ heap'[Run.st] = Told(St)
          /\ \A s \in StateIds : s # Run.st => heap'[s] = heap[s]
      <3>1. DOMAIN heap = StateIds /\ Run.st \in StateIds
        BY <1>1, TrackedInnermost DEF TInv, IInv, TypeOK
      <3>2. QED  BY <1>13, <3>1
    <2>7. QED  BY <1>1, <1>3, <1>11, <1>13, <2>2, <2>3, <2>5, <2>6, ThrowTracks
  <1>14. CASE /\ ~undeclared /\ ~contradicts
              /\ heap' = [heap EXCEPT ![Run.st] = Decided(St)] /\ runs' = Continue(run)
    <2> DEFINE st == Decided(St)
               left == LeftBy(eliding, p, m)
    <2>1. DecidedAs(n, L[n], P[n], M[n])
      BY <1>1, <1>3, <1>4, DecidedStanding
    <2>2. /\ st.errors = L[n].errors \o left.errors
          /\ Agree(st.frames, St.frames, n) /\ EnvIn(st) = EnvIn(St)
          /\ st.frames[n + 1] = [deps |-> left.deps, notes |-> left.notes]
          /\ LeftShape(left)
      BY <1>7, <2>1 DEF DecidedAs
    <2>3. /\ p2.env = p.env /\ p2.ask = p.ask /\ p2.next = p.next + 1 /\ p2.left = left
          /\ p2.valid = (p.valid /\ OutcomeOf(p, m).ok)
      BY DEF p2, PastKeyword, Past, Place
    <2>4. Reaches(eliding, p2)
      BY <1>9, <1>10, <1>14, EndReaches DEF p2
    <2> HIDE DEF st, left
    <2>5. /\ Act.next = p.next /\ p.next \in Nat /\ p.next > 0 /\ Act.valid = p.valid
          /\ p.valid \in BOOLEAN
      BY <1>5 DEF ActAt
    <2>6. p2.valid \in BOOLEAN /\ act.valid = p2.valid
      <3>1. p2.valid \in BOOLEAN
        BY <2>3
      <3>2. act.valid = p2.valid
        BY <1>6, <1>8, <2>3, <2>5
      <3>3. QED  BY <3>1, <3>2
    <2>7. act.next = p2.next /\ p2.next \in Nat /\ p2.next > 0
      BY <1>8, <2>3, <2>5
    <2>8. ActAt(act, L[n], p2)
      BY <1>5, <1>8, <2>2, <2>3, <2>6, <2>7 DEF ActAt
    <2>9. /\ run.acts = Append(ButLast(Run.acts), act) /\ run.call = Run.call
          /\ run.st = Run.st /\ run.ok = Run.ok /\ run.thrown = Run.thrown /\ run.pc = "keyword"
      BY <1>1, WithActAt DEF run
    <2>10. Retops(run, act, st, n, L, P, M, p2)
      BY <1>1, <1>3, <1>5, <1>11, <2>2, <2>8, <2>9 DEF Retops
    <2> DEFINE P2 == Put(P, n, p2)
               M2 == Put(M, n, m)
    <2>11. /\ Stack(eliding, run, st, L, P2, M2)
           /\ Len(run.acts) = n /\ run.acts[n] = act /\ P2[n] = p2
      BY <2>10, TopTracked
    <2> HIDE DEF P2, M2
    <2>12. AtKeyword(eliding, run, st, n, L[n], P2[n])
      <3>1. ~Threw(run)
        BY <1>5, <2>9 DEF Threw
      <3>2. QED  BY <2>2, <2>3, <2>4, <2>11, <3>1 DEF AtKeyword
    <2>13. Position(eliding, run, st, L, P2, M2)
      BY <2>9, <2>11, <2>12 DEF Position
    <2>14. Run.ok \in BOOLEAN
      BY <1>11 DEF Tracks
    <2>15. Tracked(eliding, run, st)
      BY <2>9, <2>11, <2>13, <2>14 DEF Tracked, Tracks
    <2>16. heap' = [heap EXCEPT ![Run.st] = st] /\ runs' = Continue(run)
      BY <1>14 DEF st
    <2>17. QED  BY <1>1, <2>9, <2>15, <2>16, TrackState
  <1>15. QED  BY <1>1, <1>12, <1>13, <1>14

-----------------------------------------------------------------------------
(* The ways out of an application.                                         *)

\* Closing an application leaves its level as it was found, under what the
\* application adds to the frame if it accepts.
ClosesAs(n, l) ==
  /\ EnvIn(Close(St, Act)) = l.env
  /\ Agree(Close(St, Act).frames, St.frames, n - 1)
  /\ Close(St, Act).errors = St.errors
  /\ Act.valid => Close(St, Act).frames[n] = FrameOver(l.base, St.frames[n + 1])
  /\ ~Act.valid => Close(St, Act).frames[n] = l.base

LEMMA CloseStanding ==
  ASSUME TInv, runs # << >>, Run.acts # << >>, NEW n, n = Len(Run.acts),
         NEW L, NEW P, NEW M, Tracks(eliding, Run, St, L, P, M)
  PROVE  ClosesAs(n, L[n])
  <1> DEFINE st == Close(St, Act)
             l == L[n]
             rest == ButLast(St.frames)
  <1>1. /\ n \in Nat /\ n > 0 /\ ActAt(Act, l, P[n]) /\ St.frames[n] = l.base
        /\ EnvIn(St) = Inside(P[n].env, P[n].ask)
        /\ StateShape(St) /\ IsSeq(St.frames) /\ Len(St.frames) = n + 1
        /\ n + 1 \in DOMAIN St.frames /\ Top(St.frames) = St.frames[n + 1]
    BY OpenStanding
  <1>2. /\ P[n].env = l.env /\ P[n].ask = l.ask /\ EnvShape(l.env)
        /\ Act.pushed <=> Pushes(l.env, l.ask)
    BY <1>1 DEF ActAt, LevelShape
  <1> HIDE DEF l
  <1>3. /\ st.frames = Merge(St.frames, Act.valid) /\ st.errors = St.errors
        /\ st.scope = (IF Act.pushed THEN ButLast(St.scope) ELSE St.scope)
        /\ st.active = ButLast(St.active) /\ st.depth = St.depth - 1
    BY <1>1 DEF Close, StateShape
  <1> HIDE DEF st
  <1>4. EnvIn(st) = l.env
    <2>1. /\ St.scope = Inside(l.env, l.ask).scope /\ St.active = Inside(l.env, l.ask).active
          /\ St.depth = Inside(l.env, l.ask).depth
      BY <1>1, <1>2 DEF EnvIn
    <2>2. /\ St.scope = (IF Pushes(l.env, l.ask) THEN Append(l.env.scope, SchemaBase(l.ask.to))
                         ELSE l.env.scope)
          /\ St.active = Append(l.env.active, [on |-> l.ask.to, at |-> l.ask.at])
          /\ St.depth = l.env.depth + 1
      BY <2>1 DEF Inside
    <2>3. IsSeq(l.env.scope) /\ IsSeq(l.env.active) /\ l.env.depth \in Nat
      BY <1>2 DEF EnvShape, Based
    <2>4. st.scope = l.env.scope
      BY <1>2, <1>3, <2>2, <2>3, ButLastAppended
    <2>5. st.active = l.env.active
      BY <1>3, <2>2, <2>3, ButLastAppended
    <2>6. st.depth = l.env.depth
      BY <1>3, <2>2, <2>3
    <2>7. l.env = [scope |-> l.env.scope, active |-> l.env.active, depth |-> l.env.depth]
      BY <1>2 DEF EnvShape
    <2>8. QED  BY <2>4, <2>5, <2>6, <2>7 DEF EnvIn
  <1>5. /\ IsSeq(rest) /\ Len(rest) = n /\ DOMAIN rest = 1..n
        /\ \A i \in 1..n : rest[i] = St.frames[i]
    <2>1. St.frames # << >> /\ (n + 1) - 1 = n
      BY <1>1, EmptyList
    <2>2. IsSeq(rest) /\ Len(rest) = n /\ \A i \in 1..n : rest[i] = St.frames[i]
      BY <1>1, <2>1, ButLastFacts
    <2>3. QED  BY <2>2, ListFacts
  <1> DEFINE own == St.frames[n + 1]
             f == [deps |-> rest[n].deps \o own.deps, notes |-> rest[n].notes \o own.notes]
  <1>6. st.frames = IF Act.valid THEN [rest EXCEPT ![n] = f] ELSE rest
    BY <1>1, <1>3, <1>5 DEF Merge
  <1>7. n \in 1..n /\ \A j \in 1..(n - 1) : j \in 1..n /\ j # n
    BY ONLY <1>1
  <1>8. rest[n] = l.base
    BY <1>1, <1>5, <1>7
  <1>9. f = FrameOver(l.base, own)
    BY <1>8 DEF FrameOver
  <1> HIDE DEF rest, own, f
  <1>10. Agree(st.frames, St.frames, n - 1)
    BY <1>5, <1>6, <1>7 DEF Agree
  <1>11. Act.valid => st.frames[n] = FrameOver(l.base, own)
    BY <1>5, <1>6, <1>7, <1>9
  <1>12. ~Act.valid => st.frames[n] = l.base
    BY <1>6, <1>8
  <1>13. QED  BY <1>3, <1>4, <1>10, <1>11, <1>12 DEF ClosesAs, st, l, own

\* The applications left open once the innermost one is closed.
LEMMA Outside ==
  ASSUME TInv, runs # << >>, Run.acts # << >>, NEW n, n = Len(Run.acts),
         NEW L, NEW P, NEW M, Tracks(eliding, Run, St, L, P, M),
         NEW run, run.call = Run.call, run.acts = ButLast(Run.acts)
  PROVE  /\ Len(run.acts) = n - 1
         /\ Stack(eliding, run, Close(St, Act), L, P, M)
         /\ n - 1 > 0 => Waits(eliding, run.acts[n - 1], L[n - 1], P[n - 1], M[n - 1], L[n])
         /\ n - 1 > 0 => P[n - 1].env = L[n - 1].env /\ P[n - 1].ask = L[n - 1].ask
  <1>1. n \in Nat /\ n > 0 /\ IsSeq(Run.acts) /\ Stack(eliding, Run, St, L, P, M)
    BY OpenStanding
  <1>2. Len(run.acts) = n - 1 /\ Agree(run.acts, Run.acts, n - 1)
    BY <1>1, ButLastFacts DEF Agree
  <1> DEFINE st == Close(St, Act)
  <1>3. Agree(st.frames, St.frames, n - 1) /\ EnvIn(st) = L[n].env
    BY CloseStanding DEF ClosesAs
  <1> HIDE DEF st
  <1>4. /\ Stack(eliding, run, st, L, P, M)
        /\ n - 1 > 0 => Waits(eliding, run.acts[n - 1], L[n - 1], P[n - 1], M[n - 1], L[n])
    BY <1>1, <1>2, <1>3, StackShrinks
  <1>5. ASSUME n - 1 > 0  PROVE P[n - 1].env = L[n - 1].env /\ P[n - 1].ask = L[n - 1].ask
    <2>1. n - 1 \in 1..n
      BY <1>1, <1>5
    <2>2. ActAt(Run.acts[n - 1], L[n - 1], P[n - 1])
      BY <1>1, <2>1 DEF Stack
    <2>3. QED  BY <2>2 DEF ActAt
  <1>6. QED  BY <1>2, <1>4, <1>5 DEF st

LEMMA LeaveTracks ==
  ASSUME TInv, KeywordsAreProper, Leave, IInv'
  PROVE  TInv'
  <1> DEFINE run == [Run EXCEPT !.acts = ButLast(@), !.ok = Act.valid, !.pc = "return"]
             st == Close(St, Act)
  <1>1. /\ runs # << >> /\ Run.pc = "keyword" /\ Act.next > Len(SchemaTable(Act.on))
        /\ heap' = [heap EXCEPT ![Run.st] = st] /\ runs' = Continue(run)
        /\ UNCHANGED <<eliding, due, last>>
    BY DEF Leave, Running, Run, St
  <1>2. PICK L, P, M : Tracks(eliding, Run, St, L, P, M)
    BY <1>1, Standing
  <1> DEFINE n == Len(Run.acts)
  <1>3. n = Len(Run.acts)
    OBVIOUS
  <1> HIDE DEF n
  <1>4. KeywordFacts(n, L, P, M)
    BY <1>1, <1>2, <1>3, KeywordStanding
  <1> DEFINE p == P[n]
             l == L[n]
             left == IF p.valid THEN p.left ELSE [Nothing EXCEPT !.errors = p.left.errors]
  <1>5. /\ Run.acts # << >> /\ n \in Nat /\ n > 0 /\ ActAt(Act, l, p)
        /\ p.env = l.env /\ p.ask = l.ask /\ LeftShape(p.left)
        /\ Act.valid = p.valid /\ ~Threw(Run) /\ Reaches(eliding, p)
        /\ St.errors = l.errors \o p.left.errors
        /\ St.frames[n + 1] = [deps |-> p.left.deps, notes |-> p.left.notes]
        /\ p.next > Len(TableAt(p))
    BY <1>1, <1>4 DEF KeywordFacts
  <1>6. /\ run.acts = ButLast(Run.acts) /\ run.ok = Act.valid /\ run.pc = "return"
        /\ run.call = Run.call /\ run.st = Run.st /\ run.thrown = Run.thrown
    BY <1>1, Standing DEF RunShape
  <1>7. ClosesAs(n, l)
    BY <1>1, <1>2, <1>3, <1>5, CloseStanding
  <1>8. st.errors = St.errors
        /\ (Act.valid => st.frames[n] = FrameOver(l.base, St.frames[n + 1]))
        /\ (~Act.valid => st.frames[n] = l.base)
    BY <1>7 DEF ClosesAs
  <1> HIDE DEF run
  <1>9. /\ Len(run.acts) = n - 1
        /\ Stack(eliding, run, st, L, P, M)
        /\ n - 1 > 0 => Waits(eliding, run.acts[n - 1], L[n - 1], P[n - 1], M[n - 1], L[n])
    BY <1>1, <1>2, <1>3, <1>5, <1>6, Outside
  <1>10. l = L[n]
    OBVIOUS
  <1> HIDE DEF st, p, l
  <1>11. FinishedWith(p) = Gives(p.valid, left)
    BY DEF FinishedWith
  <1>12. /\ left.errors = p.left.errors /\ LeftShape(left)
         /\ left.deps = (IF p.valid THEN p.left.deps ELSE << >>)
         /\ left.notes = (IF p.valid THEN p.left.notes ELSE << >>)
    <2>1. CASE p.valid
      BY <1>5, <2>1
    <2>2. CASE ~p.valid
      <3>1. left = [Nothing EXCEPT !.errors = p.left.errors]
        BY <2>2
      <3> HIDE DEF left
      <3>2. left.errors = p.left.errors /\ left.deps = << >> /\ left.notes = << >>
            /\ DOMAIN left = {"errors", "deps", "notes"}
            /\ left = [errors |-> left.errors, deps |-> left.deps, notes |-> left.notes]
        BY <3>1 DEF Nothing
      <3>3. IsSeq(left.errors) /\ IsSeq(left.deps) /\ IsSeq(left.notes)
        BY <1>5, <3>2, EmptyList DEF LeftShape
      <3>4. QED  BY <2>2, <3>2, <3>3 DEF LeftShape
    <2>3. QED  BY <2>1, <2>2
  <1> HIDE DEF left
  <1>13. Comes(eliding, l.env, l.ask, Gives(run.ok, left))
    <2>1. IsSeq(TableAt(p))
      BY <1>5 DEF KeywordsAreProper, ActAt, LevelShape, Opens, Addressed, TableAt
    <2>2. ~(p.next <= Len(TableAt(p)))
      <3>1. Len(TableAt(p)) \in Nat /\ p.next \in Nat
        BY <1>5, <2>1, ListFacts DEF ActAt
      <3>2. QED  BY <1>5, <3>1
    <2>3. Comes(eliding, p.env, p.ask, FinishedWith(p))
      BY <1>5, <2>2, LastReaches
    <2>4. QED  BY <1>5, <1>6, <1>11, <2>3
  <1>14. st.frames[n] = FrameOver(l.base, left)
    <2>1. LevelShape(l) /\ FrameShape(l.base)
      BY <1>5 DEF ActAt, LevelShape
    <2>2. CASE p.valid
      <3>1. st.frames[n] = FrameOver(l.base, [deps |-> p.left.deps, notes |-> p.left.notes])
        BY <1>5, <1>8, <2>2
      <3>2. FrameOver(l.base, [deps |-> p.left.deps, notes |-> p.left.notes])
              = FrameOver(l.base, left)
        BY <1>12, <2>2 DEF FrameOver
      <3>3. QED  BY <3>1, <3>2
    <2>3. CASE ~p.valid
      <3>1. left.deps = << >> /\ left.notes = << >>
        BY <1>12, <2>3
      <3>2. FrameOver(l.base, left) = l.base
        BY <2>1, <3>1, FrameOverNothing
      <3>3. QED  BY <1>5, <1>8, <2>3, <3>2
    <2>4. QED  BY <2>2, <2>3
  <1>15. (n - 1) + 1 = n
    BY ONLY <1>5
  <1>16. AtReturn(eliding, run, st, n - 1, L[(n - 1) + 1])
    <2>1. LevelShape(l) /\ ~Threw(run)
      BY <1>5, <1>6 DEF ActAt, Threw
    <2>2. st.errors = l.errors \o left.errors
      BY <1>5, <1>8, <1>12
    <2>3. st.frames[(n - 1) + 1] = FrameOver(l.base, left)
      BY <1>14, <1>15
    <2>4. AtReturn(eliding, run, st, n - 1, l)
      BY <1>12, <1>13, <2>1, <2>2, <2>3 DEF AtReturn
    <2>5. QED  BY <1>10, <1>15, <2>4
  <1>17. run.ok \in BOOLEAN
    BY <1>5, <1>6 DEF ActAt
  <1> DEFINE k == n - 1
  <1>18. k = Len(run.acts) /\ AtReturn(eliding, run, st, k, L[k + 1])
         /\ (k > 0 => Waits(eliding, run.acts[k], L[k], P[k], M[k], L[k + 1]))
    BY <1>9, <1>15, <1>16
  <1> HIDE DEF k
  <1>19. Tracked(eliding, run, st)
    BY <1>6, <1>9, <1>17, <1>18, AnswerTracked
  <1>20. QED  BY <1>1, <1>6, <1>19, TrackState DEF st

LEMMA UnwindTracks ==
  ASSUME TInv, Unwind, IInv'
  PROVE  TInv'
  <1> DEFINE run == [Run EXCEPT !.acts = ButLast(@)]
             st == Close(St, Act)
  <1>1. /\ runs # << >> /\ Run.pc = "throw" /\ Run.acts # << >>
        /\ heap' = [heap EXCEPT ![Run.st] = st] /\ runs' = Continue(run)
        /\ UNCHANGED <<eliding, due, last>>
    BY DEF Unwind, Running, Run, St
  <1>2. PICK L, P, M : Tracks(eliding, Run, St, L, P, M)
    BY <1>1, Standing
  <1> DEFINE n == Len(Run.acts)
             k == n - 1
  <1>3. n = Len(Run.acts)
    OBVIOUS
  <1> HIDE DEF n
  <1>4. n \in Nat /\ n > 0 /\ Run.ok \in BOOLEAN
    BY <1>1, <1>2, <1>3, OpenStanding
  <1>5. /\ run.acts = ButLast(Run.acts) /\ run.ok = Run.ok /\ run.pc = "throw"
        /\ run.call = Run.call /\ run.st = Run.st /\ run.thrown = Run.thrown
    BY <1>1, Standing DEF RunShape
  <1> HIDE DEF run
  <1>6. /\ Len(run.acts) = k
        /\ Stack(eliding, run, st, L, P, M)
        /\ k > 0 => Waits(eliding, run.acts[k], L[k], P[k], M[k], L[n])
        /\ k > 0 => P[k].env = L[k].env /\ P[k].ask = L[k].ask
    BY <1>1, <1>2, <1>3, <1>5, Outside
  <1> HIDE DEF st
  <1>7. AtThrow(eliding, Run, L[n])
    <2>1. AtThrow(eliding, Run, L[IF n = 0 THEN 1 ELSE n])
      BY <1>1, <1>2, <1>3, AtPosition DEF Tracks
    <2>2. n # 0
      BY ONLY <1>4
    <2>3. QED  BY <2>1, <2>2
  <1>8. /\ Threw(run) /\ Named(run.thrown)
        /\ Comes(eliding, L[n].env, L[n].ask, Thrown(run.thrown))
    BY <1>5, <1>7 DEF AtThrow, Threw, Named
  <1>9. k \in Nat /\ (k = 0 => n = 1) /\ (k = 0 \/ k > 0)
    BY ONLY <1>4
  <1> HIDE DEF k
  <1>10. AtThrow(eliding, run, L[IF k = 0 THEN 1 ELSE k])
    <2>1. CASE k = 0
      BY <1>8, <1>9, <2>1 DEF AtThrow
    <2>2. CASE k > 0
      <3>1. Comes(eliding, L[k].env, L[k].ask, Thrown(run.thrown))
        BY <1>6, <1>8, <2>2, ThrownOn
      <3>2. k # 0
        BY ONLY <2>2
      <3>3. QED  BY <1>8, <3>1, <3>2 DEF AtThrow
    <2>3. QED  BY <1>9, <2>1, <2>2
  <1>11. Position(eliding, run, st, L, P, M)
    BY <1>5, <1>6, <1>10 DEF Position
  <1>12. Tracked(eliding, run, st)
    BY <1>4, <1>5, <1>6, <1>11 DEF Tracked, Tracks
  <1>13. QED  BY <1>1, <1>5, <1>12, TrackState DEF st

LEMMA FinishTracks ==
  ASSUME TInv, Finish, IInv'
  PROVE  TInv'
  <1> DEFINE run == [Run EXCEPT !.pc = "done"]
  <1>1. /\ runs # << >> /\ Run.pc \in {"return", "throw"} /\ Run.acts = << >>
        /\ runs' = Continue(run) /\ UNCHANGED <<heap, eliding, due, last>>
    BY DEF Finish, Running, Run
  <1>2. PICK L, P, M : Tracks(eliding, Run, St, L, P, M)
    BY <1>1, Standing
  <1>3. Len(Run.acts) = 0 /\ 0 + 1 = 1
    BY <1>1, EmptyList
  <1>4. /\ run.acts = Run.acts /\ run.ok = Run.ok /\ run.pc = "done"
        /\ run.call = Run.call /\ run.st = Run.st /\ run.thrown = Run.thrown
    BY <1>1, Standing DEF RunShape
  <1> HIDE DEF run
  <1>5. Stack(eliding, Run, St, L, P, M) /\ Run.ok \in BOOLEAN
    BY <1>2 DEF Tracks
  <1>6. Stack(eliding, run, St, L, P, M)
    BY <1>4, <1>5 DEF Stack
  <1>7. IF Threw(run) THEN AtThrow(eliding, run, L[1]) ELSE AtReturn(eliding, run, St, 0, L[1])
    <2>1. CASE Run.pc = "return"
      <3>1. AtReturn(eliding, Run, St, 0, L[1])
        BY <1>2, <1>3, <2>1, AtPosition DEF Tracks
      <3>2. ~Threw(run)
        BY <1>4, <3>1 DEF AtReturn, Threw
      <3>3. AtReturn(eliding, run, St, 0, L[1])
        BY <1>4, <3>1, <3>2 DEF AtReturn
      <3>4. QED  BY <3>2, <3>3
    <2>2. CASE Run.pc = "throw"
      <3>1. AtThrow(eliding, Run, L[1])
        BY <1>2, <1>3, <2>2, AtPosition DEF Tracks
      <3>2. Threw(run) /\ AtThrow(eliding, run, L[1])
        BY <1>4, <3>1 DEF AtThrow, Threw
      <3>3. QED  BY <3>2
    <2>3. QED  BY <1>1, <2>1, <2>2
  <1>8. Position(eliding, run, St, L, P, M)
    BY <1>4, <1>7 DEF Position
  <1>9. Tracked(eliding, run, St)
    BY <1>4, <1>5, <1>6, <1>8 DEF Tracked, Tracks
  <1>10. QED  BY <1>1, <1>4, <1>9, TrackSame

-----------------------------------------------------------------------------
(* The end of a call.                                                      *)

LEMMA ResultForms ==
  ASSUME NEW made
  PROVE  /\ Threw(made) => Result(made) = Thrown(made.thrown)
         /\ ~Threw(made) => Result(made) = Gives(made.ok, [errors |-> made.errors,
                              deps |-> made.root.deps, notes |-> made.root.notes])
  BY DEF Result, Threw

\* The call that ended came to what the rules say.
LEMMA EndedDerived ==
  ASSUME TInv, Ended
  PROVE  Derived(eliding, AppliesCall(Run.call, Result(Ends(Run.call, Run))))
  <1> DEFINE made == Ends(Run.call, Run)
  <1>1. runs # << >> /\ Run.pc = "done" /\ Run.acts = << >>
    BY DEF Ended, Running, Run
  <1>2. PICK L, P, M : Tracks(eliding, Run, St, L, P, M)
    BY <1>1, Standing
  <1>3. IF Threw(Run) THEN AtThrow(eliding, Run, L[1]) ELSE AtReturn(eliding, Run, St, 0, L[1])
    BY <1>1, <1>2 DEF Tracks, Position
  <1>4. L[1] = FirstLevel(Run.call)
    BY <1>2 DEF Tracks, Stack
  <1>5. /\ L[1].env = FirstEnv(Run.call) /\ L[1].ask = FirstAsk(Run.call)
        /\ L[1].errors = << >> /\ L[1].base = EmptyFrame
    BY <1>4 DEF FirstLevel
  <1>6. /\ made.thrown = Run.thrown /\ made.ok = Run.ok /\ made.errors = St.errors
        /\ made.root = St.frames[1]
    BY DEF Ends, St
  <1> HIDE DEF made
  <1>7. Threw(made) <=> Threw(Run)
    BY <1>6 DEF Threw
  <1>8. CASE Threw(Run)
    <2>1. Comes(eliding, L[1].env, L[1].ask, Thrown(Run.thrown))
      BY <1>3, <1>8 DEF AtThrow
    <2>2. Result(made) = Thrown(Run.thrown)
      BY <1>6, <1>7, <1>8, ResultForms
    <2>3. QED  BY <1>5, <2>1, <2>2 DEF Comes, AppliesCall, made
  <1>9. CASE ~Threw(Run)
    <2>1. AtReturn(eliding, Run, St, 0, L[1])
      BY <1>3, <1>9
    <2>2. PICK left : /\ LeftShape(left)
                      /\ Comes(eliding, L[1].env, L[1].ask, Gives(Run.ok, left))
                      /\ St.errors = L[1].errors \o left.errors
                      /\ St.frames[0 + 1] = FrameOver(L[1].base, left)
      BY <2>1 DEF AtReturn
    <2>3. St.errors = left.errors
      BY <1>5, <2>2, JoinNothing DEF LeftShape
    <2>4. St.frames[1] = FrameOver(EmptyFrame, left)
      <3>1. 0 + 1 = 1
        OBVIOUS
      <3>2. QED  BY <1>5, <2>2, <3>1
    <2>5. St.frames[1].deps = left.deps /\ St.frames[1].notes = left.notes
      BY <2>2, <2>4, JoinNothing DEF FrameOver, EmptyFrame, LeftShape
    <2>6. left = [errors |-> made.errors, deps |-> made.root.deps, notes |-> made.root.notes]
      <3>1. left = [errors |-> left.errors, deps |-> left.deps, notes |-> left.notes]
        BY <2>2 DEF LeftShape
      <3>2. QED  BY <1>6, <2>3, <2>5, <3>1
    <2>7. Result(made) = Gives(Run.ok, left)
      BY <1>6, <1>7, <1>9, <2>6, ResultForms
    <2>8. QED  BY <1>5, <2>2, <2>7 DEF Comes, AppliesCall, made
  <1>10. QED  BY <1>8, <1>9

\* A list of one.
LEMMA LastDerived ==
  ASSUME TInv, Ended, last' = <<Ends(Run.call, Run)>>, eliding' = eliding
  PROVE  CallsAreDerived'
  <1> DEFINE made == Ends(Run.call, Run)
  <1>1. Derived(eliding, AppliesCall(Run.call, Result(made)))
    BY EndedDerived
  <1>2. made.call = Run.call
    BY DEF Ends
  <1> HIDE DEF made
  <1>3. \A i \in DOMAIN last' : last'[i] = made
    BY DEF made
  <1>4. \A i \in DOMAIN last' : Derived(eliding', AppliesCall(last'[i].call, Result(last'[i])))
    BY <1>1, <1>2, <1>3
  <1>5. QED  BY <1>4 DEF CallsAreDerived

LEMMA HostResumesTracks ==
  ASSUME TInv, HostResumes, IInv'
  PROVE  TInv'
  <1>1. /\ Ended /\ last' = <<Ends(Run.call, Run)>> /\ runs' = << >>
        /\ UNCHANGED <<heap, eliding, due>>
    BY DEF HostResumes
  <1>2. CallsAreDerived'
    BY <1>1, LastDerived
  <1>3. DOMAIN runs' = {}
    BY <1>1
  <1>4. CallersAwait'
    BY <1>3 DEF CallersAwait
  <1>5. \A i \in DOMAIN due' : ProperCall(due'[i])
    BY <1>1 DEF TInv
  <1>6. QED  BY <1>2, <1>3, <1>4, <1>5 DEF TInv

\* A keyword hears of its call, or throws what the call threw.
LEMMA HeardReaches ==
  ASSUME NEW e, NEW p, NEW m, ReachesStep(e, p, m), Calls(p, m), NEW made, made.ok \in BOOLEAN,
         Derived(e, AppliesCall(CallOf(StepOf(p, m)), Result(made)))
  PROVE  /\ ReachesStep(e, p, Heard(m, made.ok))
         /\ Threw(made) => Comes(e, p.env, p.ask, Thrown(made.thrown))
  <1> DEFINE inner == Result(made)
  <1>1. Derived(e, AppliesCall(CallOf(StepOf(p, m)), inner))
    OBVIOUS
  <1>2. Threw(made) => inner = Thrown(made.thrown)
    BY ResultForms
  <1>3. ~Threw(made) => inner = Gives(made.ok, [errors |-> made.errors,
                              deps |-> made.root.deps, notes |-> made.root.notes])
    BY ResultForms
  <1> HIDE DEF inner
  <1>4. CASE Threw(made)
    <2>1. inner.thrown = made.thrown
      BY <1>2, <1>4 DEF Thrown
    <2>2. inner.thrown # ""
      BY <1>4, <2>1 DEF Threw
    <2>3. /\ Comes(e, p.env, p.ask, Thrown(inner.thrown))
          /\ \A ok \in BOOLEAN : ReachesStep(e, p, Heard(m, ok))
      BY <1>1, <2>2, CallReaches
    <2>4. QED  BY <2>1, <2>3
  <1>5. CASE ~Threw(made)
    <2> DEFINE left == [errors |-> made.errors, deps |-> made.root.deps, notes |-> made.root.notes]
    <2>1. inner = Gives(made.ok, left)
      BY <1>3, <1>5
    <2> HIDE DEF left
    <2>2. Gives(made.ok, left).thrown = ""
      BY DEF Gives
    <2>3. Gives(made.ok, left).ok = made.ok
      BY DEF Gives
    <2>4. inner.thrown = ""
      BY <2>1, <2>2
    <2>5. ReachesStep(e, p, Heard(m, inner.ok))
      BY <1>1, <2>4, CallReaches
    <2>6. inner.ok = made.ok
      BY <2>1, <2>3
    <2>7. QED  BY <1>5, <2>5, <2>6
  <1>6. QED  BY <1>4, <1>5

\* The keyword that waits for a call: where it stands and what it comes to.
CallerFacts(e, run, st, n, L, P, M, made) ==
  /\ Stack(e, run, st, L, P, M) /\ run.ok \in BOOLEAN
  /\ n = Len(run.acts) /\ n \in Nat /\ n > 0 /\ IsSeq(run.acts) /\ run.acts # << >>
  /\ Top(run.acts) = run.acts[n] /\ ActShape(Top(run.acts))
  /\ ActAt(Top(run.acts), L[n], P[n]) /\ AtStep(e, run, st, n, Top(run.acts), L[n], P[n], M[n])
  /\ ReachesStep(e, P[n], Heard(M[n], made.ok))
  /\ Threw(made) => Comes(e, L[n].env, L[n].ask, Thrown(made.thrown))

LEMMA CallerStanding ==
  ASSUME NEW e, NEW run, NEW st, RunShape(run), run.pc = "step", Tracked(e, run, st),
         NEW made, made.ok \in BOOLEAN, AwaitsCall(Top(run.acts), made.call),
         Derived(e, AppliesCall(made.call, Result(made)))
  PROVE  \E n, L, P, M : CallerFacts(e, run, st, n, L, P, M, made)
  <1>1. PICK L, P, M : Tracks(e, run, st, L, P, M)
    BY DEF Tracked
  <1> DEFINE n == Len(run.acts)
  <1>2. IsSeq(run.acts) /\ run.acts # << >> /\ n = Len(run.acts)
    BY DEF RunShape
  <1> HIDE DEF n
  <1>3. Stack(e, run, st, L, P, M) /\ run.ok \in BOOLEAN
    BY <1>1 DEF Tracks
  <1>4. n \in Nat /\ n > 0 /\ Top(run.acts) = run.acts[n] /\ ActAt(Top(run.acts), L[n], P[n])
    BY <1>2, <1>3, OpenTop
  <1>5. AtStep(e, run, st, n, Top(run.acts), L[n], P[n], M[n])
    BY <1>1, <1>2, <1>4, AtPosition DEF Tracks
  <1>6. ActShape(Top(run.acts))
    <2>1. n \in DOMAIN run.acts
      BY <1>2, <1>4, ListFacts
    <2>2. QED  BY <1>4, <2>1 DEF RunShape
  <1> DEFINE p == P[n]
             m == M[n]
             act == Top(run.acts)
  <1>7. Working(e, act, L[n], p, m)
    BY <1>5 DEF AtStep
  <1>8. /\ act.verdicts = m.verdicts /\ act.steps = StepsOf(p) /\ ReachesStep(e, p, m)
        /\ p.env = L[n].env /\ p.ask = L[n].ask
    BY <1>4, <1>7 DEF Working, ActAt
  <1>9. Calls(p, m) /\ made.call = CallOf(StepOf(p, m))
    BY <1>8 DEF AwaitsCall, Calls, Unanswered, StepOf
  <1>10. /\ ReachesStep(e, p, Heard(m, made.ok))
         /\ Threw(made) => Comes(e, p.env, p.ask, Thrown(made.thrown))
    BY <1>8, <1>9, HeardReaches
  <1>11. CallerFacts(e, run, st, n, L, P, M, made)
    BY <1>2, <1>3, <1>4, <1>5, <1>6, <1>8, <1>10 DEF CallerFacts
  <1>12. QED  BY <1>11

LEMMA HeardTracked ==
  ASSUME NEW e, NEW run, NEW st, NEW n, NEW L, NEW P, NEW M, NEW made,
         CallerFacts(e, run, st, n, L, P, M, made), made.ok \in BOOLEAN,
         NEW act, act = [Top(run.acts) EXCEPT !.verdicts = Append(@, made.ok)],
         NEW next, next.acts = Append(ButLast(run.acts), act), next.pc = "step",
         next.call = run.call, next.ok = run.ok, next.thrown = run.thrown
  PROVE  Tracked(e, next, st)
  <1> DEFINE p == P[n]
             m == M[n]
             l == L[n]
             was == Top(run.acts)
             m2 == Heard(m, made.ok)
             M2 == [M EXCEPT ![n] = m2]
  <1>0. made.ok \in BOOLEAN
    OBVIOUS
  <1>1. /\ Stack(e, run, st, L, P, M) /\ run.ok \in BOOLEAN
        /\ n = Len(run.acts) /\ n \in Nat /\ n > 0 /\ IsSeq(run.acts) /\ run.acts # << >>
        /\ ActShape(was) /\ ActAt(was, l, p) /\ AtStep(e, run, st, n, was, l, p, m)
        /\ ReachesStep(e, p, m2)
    BY DEF CallerFacts
  <1>2. /\ act.on = was.on /\ act.at = was.at /\ act.path = was.path /\ act.pushed = was.pushed
        /\ act.next = was.next /\ act.valid = was.valid /\ act.mark = was.mark
        /\ act.steps = was.steps /\ act.verdicts = Append(was.verdicts, made.ok)
    BY <1>1 DEF ActShape
  <1>3. m2.verdicts = Append(m.verdicts, made.ok) /\ m2.left = m.left
    BY DEF Heard, Mid
  <1>4. DOMAIN L = Nat /\ DOMAIN P = Nat /\ DOMAIN M = Nat
    BY <1>1 DEF Stack
  <1>5. \A j \in 1..(n - 1) : j # n /\ j \in Nat
    BY ONLY <1>1
  <1>6. /\ M2[n] = m2 /\ Mapped(L, P, M2) /\ Agree(M2, M, n - 1)
    BY <1>1, <1>4, <1>5 DEF Mapped, Agree
  <1>7. Agree(L, L, n) /\ Agree(P, P, n - 1) /\ Agree(st.frames, st.frames, n)
    BY DEF Agree
  <1>8. p = P[n] /\ l = L[n]
    OBVIOUS
  <1> HIDE DEF p, m, l, was, m2, M2
  <1>9. ActAt(act, l, p)
    BY <1>1, <1>2 DEF ActAt
  <1>10. Working(e, act, l, p, m2)
    <2>1. Working(e, was, l, p, m)
      BY <1>1 DEF AtStep
    <2>2. Verdicts(m.verdicts) /\ was.verdicts = m.verdicts
      BY <2>1 DEF Working
    <2>3. act.verdicts = m2.verdicts /\ Verdicts(m2.verdicts)
      BY <1>0, <1>2, <1>3, <2>2, VerdictsGrow
    <2>4. QED  BY <1>1, <1>2, <1>3, <2>1, <2>3 DEF Working
  <1>11. /\ Len(next.acts) = n /\ next.acts[n] = act /\ Agree(next.acts, run.acts, n - 1)
    <2>1. /\ IsSeq(ButLast(run.acts)) /\ Len(ButLast(run.acts)) = n - 1
          /\ \A i \in 1..(n - 1) : ButLast(run.acts)[i] = run.acts[i]
      BY <1>1, ButLastFacts
    <2>2. (n - 1) + 1 = n
      BY ONLY <1>1
    <2>3. QED  BY <2>1, <2>2, AppendFacts DEF Agree
  <1>12. Stack(e, next, st, L, P, M2)
    <2>1. ActAt(next.acts[n], L[n], P[n])
      BY <1>8, <1>9, <1>11
    <2>2. QED  BY <1>1, <1>6, <1>7, <1>11, <2>1, StackTop
  <1>13. AtStep(e, next, st, n, next.acts[n], L[n], P[n], M2[n])
    <2>1. ~Threw(next)
      BY <1>1 DEF AtStep, Threw
    <2>2. st.errors = (l.errors \o p.left.errors) \o m2.left.errors
      BY <1>1, <1>3 DEF AtStep
    <2>3. st.frames[n + 1] = FrameOver(p.left, m2.left)
      BY <1>1, <1>3 DEF AtStep
    <2>4. AtStep(e, next, st, n, act, l, p, m2)
      BY <1>10, <2>1, <2>2, <2>3 DEF AtStep
    <2>5. QED  BY <1>6, <1>8, <1>11, <2>4
  <1>14. Position(e, next, st, L, P, M2)
    BY <1>11, <1>13 DEF Position
  <1>15. QED  BY <1>1, <1>12, <1>14 DEF Tracked, Tracks

LEMMA FailedTracked ==
  ASSUME NEW e, NEW run, NEW st, NEW n, NEW L, NEW P, NEW M, NEW made,
         CallerFacts(e, run, st, n, L, P, M, made), Threw(made),
         NEW next, next.acts = run.acts, next.pc = "throw",
         next.call = run.call, next.ok = run.ok, next.thrown = made.thrown
  PROVE  Tracked(e, next, st)
  <1>1. /\ Stack(e, run, st, L, P, M) /\ run.ok \in BOOLEAN
        /\ n = Len(run.acts) /\ n \in Nat /\ n > 0
        /\ Comes(e, L[n].env, L[n].ask, Thrown(made.thrown))
    BY DEF CallerFacts
  <1>2. Stack(e, next, st, L, P, M)
    BY <1>1 DEF Stack
  <1>3. n # 0
    BY ONLY <1>1
  <1>4. AtThrow(e, next, L[IF n = 0 THEN 1 ELSE n])
    BY <1>1, <1>3 DEF AtThrow, Threw
  <1>5. Position(e, next, st, L, P, M)
    BY <1>1, <1>4 DEF Position
  <1>6. QED  BY <1>1, <1>2, <1>5 DEF Tracked, Tracks

LEMMA CallerResumesTracks ==
  ASSUME TInv, CallerResumes, IInv'
  PROVE  TInv'
  <1> DEFINE n == Len(runs)
             k == n - 1
             outer == ButLast(runs)
             caller == Top(outer)
             cst == heap[caller.st]
             act == Top(caller.acts)
             made == Ends(Run.call, Run)
             told == [act EXCEPT !.verdicts = Append(@, Run.ok)]
             answered == [caller EXCEPT !.acts = Append(ButLast(@), told), !.pc = "step"]
             failed == [caller EXCEPT !.pc = "throw", !.thrown = Run.thrown]
  <1>1. /\ Ended /\ n > 1 /\ last' = <<made>>
        /\ heap' = heap /\ due' = due /\ eliding' = eliding
    BY DEF CallerResumes
  <1>2. \/ runs' = [outer EXCEPT ![Len(outer)] = answered]
        \/ Threw(Run) /\ runs' = [outer EXCEPT ![Len(outer)] = failed]
    BY DEF CallerResumes, Threw
  <1>3. /\ runs # << >> /\ IsSeq(runs) /\ n \in Nat
        /\ DOMAIN runs = 1..n /\ Run = runs[n] /\ Tracked(eliding, Run, St)
    BY <1>1, TrackedInnermost DEF TInv, IInv, TypeOK, Ended, Running
  <1>4. /\ IsSeq(outer) /\ Len(outer) = k
        /\ \A i \in 1..k : outer[i] = runs[i]
    BY <1>3, ButLastFacts
  <1>5. caller = runs[k]
    BY <1>1, <1>3, <1>4 DEF Top
  <1>6. k \in 1..n /\ k \in Nat /\ k < n /\ k > 0 /\ k + 1 = n
    BY <1>1, <1>3
  <1>7. RunShape(caller) /\ caller.pc = "step" /\ caller.acts # << >>
    BY <1>3, <1>5, <1>6 DEF TInv, IInv, CallersWait, Local, RunShape
  <1>8. Tracked(eliding, caller, cst)
    BY <1>3, <1>5, <1>6 DEF TInv
  <1>9. AwaitsCall(act, Run.call)
    <2>1. AwaitsCall(Top(runs[k].acts), runs[k + 1].call)
      BY <1>3, <1>6 DEF TInv, CallersAwait, n
    <2>2. QED  BY <1>3, <1>5, <1>6, <2>1
  <1>10. /\ made.call = Run.call /\ made.ok = Run.ok /\ made.thrown = Run.thrown
         /\ Run.ok \in BOOLEAN
    BY <1>3 DEF Ends, Tracked, Tracks
  <1>11. Derived(eliding, AppliesCall(Run.call, Result(made)))
    BY <1>1, EndedDerived
  <1>12. /\ answered.acts = Append(ButLast(caller.acts), told) /\ answered.pc = "step"
         /\ answered.call = caller.call /\ answered.ok = caller.ok
         /\ answered.thrown = caller.thrown /\ answered.st = caller.st
    BY <1>7 DEF RunShape
  <1>13. /\ failed.acts = caller.acts /\ failed.pc = "throw"
         /\ failed.call = caller.call /\ failed.ok = caller.ok
         /\ failed.thrown = Run.thrown /\ failed.st = caller.st
    BY <1>7 DEF RunShape
  <1>14. told = [act EXCEPT !.verdicts = Append(@, made.ok)]
    BY <1>10
  <1> HIDE DEF n, k, outer, caller, cst, made, told, answered, failed
  <1>15. PICK d, L, P, M : CallerFacts(eliding, caller, cst, d, L, P, M, made)
    BY <1>7, <1>8, <1>9, <1>10, <1>11, CallerStanding
  <1>16. PICK next : /\ runs' = [outer EXCEPT ![k] = next]
                     /\ Tracked(eliding, next, cst)
                     /\ next.st = caller.st /\ next.call = caller.call
    <2>1. CASE runs' = [outer EXCEPT ![Len(outer)] = answered]
      <3>1. made.ok \in BOOLEAN
        BY <1>10
      <3>2. Tracked(eliding, answered, cst)
        BY <1>12, <1>14, <1>15, <3>1, HeardTracked
      <3>3. QED  BY <1>4, <1>12, <2>1, <3>2
    <2>2. CASE Threw(Run) /\ runs' = [outer EXCEPT ![Len(outer)] = failed]
      <3>1. Threw(made) /\ failed.thrown = made.thrown
        BY <1>10, <1>13, <2>2 DEF Threw
      <3>2. Tracked(eliding, failed, cst)
        BY <1>13, <1>15, <3>1, FailedTracked
      <3>3. QED  BY <1>4, <1>13, <2>2, <3>2
    <2>3. QED  BY <1>2, <2>1, <2>2
  <1>17. IsSeq(runs') /\ Len(runs') = k /\ DOMAIN runs' = 1..k
    <2>1. k \in DOMAIN outer
      BY <1>4, <1>6, ListFacts
    <2>2. IsSeq([outer EXCEPT ![k] = next]) /\ Len([outer EXCEPT ![k] = next]) = Len(outer)
      BY <1>4, <2>1, ReplaceFacts
    <2>3. IsSeq(runs') /\ Len(runs') = k
      BY <1>4, <1>16, <2>2
    <2>4. QED  BY <2>3, ListFacts
  <1>18. runs'[k] = next /\ \A i \in 1..k : i # k => runs'[i] = runs[i]
    <2>1. DOMAIN outer = 1..k /\ k \in 1..k
      BY <1>4, <1>6, ListFacts
    <2>2. QED  BY <1>4, <1>16, <2>1
  <1>19. \A i \in 1..k : /\ i \in DOMAIN runs /\ i < n
                         /\ runs'[i].st = runs[i].st /\ runs'[i].call = runs[i].call
    <2>1. \A i \in 1..k : i \in 1..n /\ i < n
      BY <1>3, <1>6
    <2>2. QED  BY <1>3, <1>5, <1>16, <1>18, <2>1
  <1>20. ASSUME NEW i \in 1..k  PROVE Tracked(eliding', runs'[i], heap'[runs'[i].st])
    <2>1. CASE i = k
      BY <1>1, <1>16, <1>18, <2>1 DEF cst
    <2>2. CASE i # k
      BY <1>1, <1>18, <1>19, <2>2 DEF TInv
    <2>3. QED  BY <2>1, <2>2
  <1>21. CallersAwait'
    <2>1. SUFFICES ASSUME NEW i \in 1..k, i < k
                   PROVE  AwaitsCall(Top(runs'[i].acts), runs'[i + 1].call)
      BY <1>17 DEF CallersAwait
    <2>2. i + 1 \in 1..k /\ i # k
      BY <1>6, <2>1
    <2>3. AwaitsCall(Top(runs[i].acts), runs[i + 1].call)
      BY <1>19 DEF TInv, CallersAwait, n
    <2>4. QED  BY <1>18, <1>19, <2>2, <2>3
  <1>22. CallsAreDerived'
    BY <1>1, LastDerived DEF made
  <1>23. \A i \in DOMAIN due' : ProperCall(due'[i])
    BY <1>1 DEF TInv
  <1>24. QED  BY <1>17, <1>20, <1>21, <1>22, <1>23 DEF TInv

-----------------------------------------------------------------------------
(* The theorem.                                                            *)

LEMMA InitTracks ==
  ASSUME Init, ScriptsAreProper
  PROVE  TInv
  <1>1. IInv
    BY InitInv
  <1>2. runs = << >> /\ last = << >> /\ due \in Scripts
    BY DEF Init
  <1>3. DOMAIN runs = {} /\ DOMAIN last = {}
    BY <1>2
  <1>4. CallersAwait /\ CallsAreDerived
    BY <1>3 DEF CallersAwait, CallsAreDerived
  <1>5. \A i \in DOMAIN due : ProperCall(due[i])
    <2>1. SUFFICES ASSUME NEW i \in DOMAIN due  PROVE ProperCall(due[i])
      OBVIOUS
    <2>2. Addressed(due[i])
      BY <1>2 DEF ScriptsAreProper
    <2>3. IsSeq(due[i].scope)
      BY <1>1 DEF IInv, TypeOK, ScriptShape, CallShape
    <2>4. \A j \in DOMAIN due[i].scope : due[i].scope[j] \in Bases
      BY <1>2 DEF Bases, CallBases
    <2>5. QED  BY <2>2, <2>3, <2>4 DEF ProperCall, Based
  <1>6. QED  BY <1>1, <1>3, <1>4, <1>5 DEF TInv

LEMMA NextTracks ==
  ASSUME KeywordsAreProper, TInv, [Next]_vars
  PROVE  TInv'
  <1>0. IInv'
    BY NextInv DEF TInv
  <1>1. CASE HostCalls      BY <1>0, <1>1, HostCallsTracks
  <1>2. CASE TooDeep        BY <1>0, <1>2, TooDeepTracks
  <1>3. CASE ApplyBoolean   BY <1>0, <1>3, ApplyBooleanTracks
  <1>4. CASE Refuse         BY <1>0, <1>4, RefuseTracks
  <1>5. CASE EnterObject    BY <1>0, <1>5, EnterObjectTracks
  <1>6. CASE SkipUnknown    BY <1>0, <1>6, SkipUnknownTracks
  <1>7. CASE BeginKeyword   BY <1>0, <1>7, BeginKeywordTracks
  <1>8. CASE ApplyStep      BY <1>0, <1>8, ApplyStepTracks
  <1>9. CASE CallBack       BY <1>0, <1>9, CallBackTracks
  <1>10. CASE Resume        BY <1>0, <1>10, ResumeTracks
  <1>11. CASE EndKeyword    BY <1>0, <1>11, EndKeywordTracks
  <1>12. CASE Leave         BY <1>0, <1>12, LeaveTracks
  <1>13. CASE Unwind        BY <1>0, <1>13, UnwindTracks
  <1>14. CASE Finish        BY <1>0, <1>14, FinishTracks
  <1>15. CASE CallerResumes BY <1>0, <1>15, CallerResumesTracks
  <1>16. CASE HostResumes   BY <1>0, <1>16, HostResumesTracks
  <1>17. CASE UNCHANGED vars
    BY <1>0, <1>17 DEF vars, TInv, CallersAwait, CallsAreDerived
  <1>18. QED
    BY <1>1, <1>2, <1>3, <1>4, <1>5, <1>6, <1>7, <1>8, <1>9, <1>10, <1>11, <1>12,
       <1>13, <1>14, <1>15, <1>16, <1>17 DEF Next, Works

\* Every call the evaluator ends, it ends as the rules say: with the verdict,
\* the errors, the records and the annotations they give its schema and
\* instance, or with what they say it throws.  What else ran on its state
\* before it, how earlier calls ended, and the calls its keywords made while it
\* ran do not show in it (applySchema, evaluateKeyword, createFragmentRunner).
THEOREM CallsFollowTheRules ==
  ASSUME KeywordsAreProper, ScriptsAreProper
  PROVE  Spec => []CallsAreDerived
  <1>1. Init => TInv
    BY InitTracks
  <1>2. TInv /\ [Next]_vars => TInv'
    BY NextTracks
  <1>3. TInv => CallsAreDerived
    BY DEF TInv
  <1>4. QED  BY <1>1, <1>2, <1>3, PTL DEF Spec

-----------------------------------------------------------------------------
(* The rules give a call one result, if the calls made on the way succeed: *)
(* what user code makes of a call that threw is its own affair.            *)

Agreeing(C, D) == \A x \in C, y \in D : x.kind = y.kind /\ x.of = y.of => x.out = y.out
\* Of the judgments in C, those of the call this step makes do not throw.
Succeeds(p, m, C) ==
  Calls(p, m) => \A out : AppliesCall(CallOf(StepOf(p, m)), out) \in C => ~Threw(out)

LEMMA SameOut ==
  ASSUME NEW C, NEW D, Agreeing(C, D)
  PROVE  /\ \A env, ask, a, b :
              Applies(env, ask, a) \in C /\ Applies(env, ask, b) \in D => a = b
         /\ \A p, a, b : Continues(p, a) \in C /\ Continues(p, b) \in D => a = b
         /\ \A p, m, a, b : Steps(p, m, a) \in C /\ Steps(p, m, b) \in D => a = b
  BY DEF Agreeing, Applies, Continues, Steps

LEMMA ApplicationOnce ==
  ASSUME NEW C, NEW D, Agreeing(C, D), NEW env, NEW ask, NEW a, NEW b,
         ApplicationRule(env, ask, a, C), ApplicationRule(env, ask, b, D)
  PROVE  a = b
  <1>1. \A p, x, y : Continues(p, x) \in C /\ Continues(p, y) \in D => x = y
    BY SameOut
  <1>2. /\ "true" # "false" /\ "true" # "junk" /\ "true" # "object"
        /\ "false" # "junk" /\ "false" # "object" /\ "junk" # "object"
    OBVIOUS
  <1>3. CASE env.depth < MaxDepth
    <2>1. CASE SchemaKind(ask.to) = "object"
      BY <1>1, <1>2, <1>3, <2>1, Zenon DEF ApplicationRule
    <2>2. CASE SchemaKind(ask.to) = "true"
      BY <1>2, <1>3, <2>2, Zenon DEF ApplicationRule
    <2>3. CASE SchemaKind(ask.to) = "false"
      BY <1>2, <1>3, <2>3, Zenon DEF ApplicationRule
    <2>4. CASE SchemaKind(ask.to) = "junk"
      BY <1>2, <1>3, <2>4, Zenon DEF ApplicationRule
    <2>5. \/ SchemaKind(ask.to) = "object" \/ SchemaKind(ask.to) = "true"
          \/ SchemaKind(ask.to) = "false" \/ SchemaKind(ask.to) = "junk"
      BY <1>3, Zenon DEF ApplicationRule
    <2>6. QED  BY <2>1, <2>2, <2>3, <2>4, <2>5
  <1>4. CASE ~(env.depth < MaxDepth)
    BY <1>4, Zenon DEF ApplicationRule
  <1>5. QED  BY <1>3, <1>4

LEMMA KeywordOnce ==
  ASSUME NEW C, NEW D, Agreeing(C, D), NEW e, NEW p, NEW a, NEW b,
         KeywordRule(e, p, a, C), KeywordRule(e, p, b, D)
  PROVE  a = b
  <1>1. /\ \A q, x, y : Continues(q, x) \in C /\ Continues(q, y) \in D => x = y
        /\ \A q, m, x, y : Steps(q, m, x) \in C /\ Steps(q, m, y) \in D => x = y
    BY SameOut
  <1>2. QED  BY <1>1 DEF KeywordRule

LEMMA ApplyRuleSays ==
  ASSUME NEW p, NEW m, NEW out, NEW D, ApplyRule(p, m, out, D)
  PROVE  /\ Applying(p, m)
         /\ \/ SchemaKind(AskOf(p, m).to) = "missing" /\ out = Thrown("Unresolvable")
            \/ /\ SchemaKind(AskOf(p, m).to) # "missing"
               /\ \E inner : /\ Applies(Inside(p.env, p.ask), AskOf(p, m), inner) \in D
                             /\ Threw(inner) => out = Thrown(inner.thrown)
                             /\ ~Threw(inner) =>
                                  Steps(p, Answered(m, inner.ok, inner.left), out) \in D
  BY Zenon DEF ApplyRule, Applying, Threw

LEMMA CallRuleSays ==
  ASSUME NEW p, NEW m, NEW out, NEW D, CallRule(p, m, out, D)
  PROVE  /\ Calls(p, m)
         /\ \E inner : /\ AppliesCall(CallOf(StepOf(p, m)), inner) \in D
                       /\ ~Threw(inner) => Steps(p, Heard(m, inner.ok), out) \in D
  BY Zenon DEF CallRule, Calls, Threw

LEMMA StepOnce ==
  ASSUME NEW C, NEW D, Agreeing(C, D), NEW e, NEW p, NEW m, NEW a, NEW b, Succeeds(p, m, C),
         StepRule(e, p, m, a, C), StepRule(e, p, m, b, D)
  PROVE  a = b
  <1>1. /\ \A env, ask, x, y : Applies(env, ask, x) \in C /\ Applies(env, ask, y) \in D => x = y
        /\ \A q, x, y : Continues(q, x) \in C /\ Continues(q, y) \in D => x = y
        /\ \A q, k, x, y : Steps(q, k, x) \in C /\ Steps(q, k, y) \in D => x = y
    BY SameOut
  <1>2. CASE Applying(p, m)
    <2>1. ApplyRule(p, m, a, C) /\ ApplyRule(p, m, b, D)
      BY <1>2, Zenon DEF StepRule, Applying, CallRule, EndRule
    <2>2. CASE SchemaKind(AskOf(p, m).to) = "missing"
      BY <2>1, <2>2, ApplyRuleSays
    <2>3. CASE SchemaKind(AskOf(p, m).to) # "missing"
      <3> DEFINE Inner(x, out, E) ==
                   /\ Applies(Inside(p.env, p.ask), AskOf(p, m), x) \in E
                   /\ Threw(x) => out = Thrown(x.thrown)
                   /\ ~Threw(x) => Steps(p, Answered(m, x.ok, x.left), out) \in E
      <3>1. (\E x : Inner(x, a, C)) /\ (\E y : Inner(y, b, D))
        BY <2>1, <2>3, ApplyRuleSays
      <3>2. PICK x : Inner(x, a, C)
        BY <3>1
      <3>3. PICK y : Inner(y, b, D)
        BY <3>1
      <3>4. x = y
        BY <1>1, <3>2, <3>3
      <3>5. CASE Threw(x)
        BY <3>2, <3>3, <3>4, <3>5
      <3>6. CASE ~Threw(x)
        BY <1>1, <3>2, <3>3, <3>4, <3>6
      <3>7. QED  BY <3>5, <3>6
    <2>4. QED  BY <2>2, <2>3
  <1>3. CASE Calls(p, m)
    <2>1. CallRule(p, m, a, C) /\ CallRule(p, m, b, D)
      BY <1>3, Zenon DEF StepRule, Calls, ApplyRule, EndRule
    <2>2. PICK x : /\ AppliesCall(CallOf(StepOf(p, m)), x) \in C
                   /\ ~Threw(x) => Steps(p, Heard(m, x.ok), a) \in C
      BY <2>1, CallRuleSays
    <2>3. PICK y : /\ AppliesCall(CallOf(StepOf(p, m)), y) \in D
                   /\ ~Threw(y) => Steps(p, Heard(m, y.ok), b) \in D
      BY <2>1, CallRuleSays
    <2>4. x = y
      BY <1>1, <2>2, <2>3 DEF AppliesCall
    <2>5. ~Threw(x)
      BY <1>3, <2>2 DEF Succeeds
    <2>6. QED  BY <1>1, <2>2, <2>3, <2>4, <2>5
  <1>4. CASE ~Unanswered(p, m)
    <2>1. EndRule(e, p, m, a, C) /\ EndRule(e, p, m, b, D)
      BY <1>4, Zenon DEF StepRule, CallRule, ApplyRule
    <2>2. QED  BY <1>1, <2>1 DEF EndRule
  <1>5. QED  BY <1>2, <1>3, <1>4, Zenon DEF Applying, Calls

\* Two judgments of one thing, each from judgments that agree, agree.
LEMMA JudgedOnce ==
  ASSUME NEW C, NEW D, Agreeing(C, D), NEW e, NEW x, NEW y,
         x.kind = y.kind, x.of = y.of, Follows(e, x, C), Follows(e, y, D),
         x.kind = "steps" => Succeeds(x.of.place, x.of.mid, C)
  PROVE  x.out = y.out
  <1>1. "application" # "keywords" /\ "application" # "steps" /\ "keywords" # "steps"
    OBVIOUS
  <1>2. CASE x.kind = "application"
    <2>1. ApplicationRule(x.of.env, x.of.ask, x.out, C)
          /\ ApplicationRule(x.of.env, x.of.ask, y.out, D)
      BY <1>1, <1>2, Zenon DEF Follows
    <2>2. QED  BY <2>1, ApplicationOnce
  <1>3. CASE x.kind = "keywords"
    <2>1. KeywordRule(e, x.of, x.out, C) /\ KeywordRule(e, x.of, y.out, D)
      BY <1>1, <1>3, Zenon DEF Follows
    <2>2. QED  BY <2>1, KeywordOnce
  <1>4. CASE x.kind = "steps"
    <2>1. /\ StepRule(e, x.of.place, x.of.mid, x.out, C)
          /\ StepRule(e, x.of.place, x.of.mid, y.out, D)
          /\ Succeeds(x.of.place, x.of.mid, C)
      BY <1>1, <1>4, Zenon DEF Follows
    <2>2. QED  BY <2>1, StepOnce
  <1>5. QED  BY <1>2, <1>3, <1>4, Zenon DEF Follows

-----------------------------------------------------------------------------
Among(d) == {d[i] : i \in DOMAIN d}
\* No call that a keyword makes on the way throws.
CallsSucceed(d) ==
  \A i \in DOMAIN d : d[i].kind = "steps" => Succeeds(d[i].of.place, d[i].of.mid, Among(d))
Settles(e, j) == \E d : Derivation(e, d) /\ CallsSucceed(d) /\ j \in Among(d)

LEMMA DerivationsAgree ==
  ASSUME NEW e, NEW c, NEW d, Derivation(e, c), Derivation(e, d), CallsSucceed(c)
  PROVE  Agreeing(Among(c), Among(d))
  <1> DEFINE Same(i) == \A j \in DOMAIN d :
                          c[i].kind = d[j].kind /\ c[i].of = d[j].of => c[i].out = d[j].out
             T == {i \in DOMAIN c : ~Same(i)}
  <1>1. /\ DOMAIN c = 1..Len(c) /\ Len(c) \in Nat
        /\ DOMAIN d = 1..Len(d) /\ Len(d) \in Nat
    BY ListFacts DEF Derivation
  <1>2. ASSUME T # {}  PROVE FALSE
    <2>1. T \subseteq Nat
      BY <1>1
    <2> HIDE DEF T, Same
    <2>2. PICK i \in T : \A k \in T : i <= k
      BY <1>2, <2>1, LeastNumber
    <2>3. i \in DOMAIN c /\ ~Same(i)
      BY <2>2 DEF T
    <2>4. PICK j \in DOMAIN d :
            c[i].kind = d[j].kind /\ c[i].of = d[j].of /\ c[i].out # d[j].out
      BY <2>3 DEF Same
    <2> DEFINE C == {c[h] : h \in 1..(i - 1)}
               D == {d[h] : h \in 1..(j - 1)}
    <2>5. Follows(e, c[i], C) /\ Follows(e, d[j], D)
      BY <2>3, <2>4 DEF Derivation
    <2>6. \A h \in 1..(i - 1) : h \in DOMAIN c /\ Same(h)
      <3>1. SUFFICES ASSUME NEW h \in 1..(i - 1)  PROVE h \in DOMAIN c /\ Same(h)
        OBVIOUS
      <3>2. i \in Nat /\ h \in DOMAIN c /\ h \in Nat /\ ~(i <= h)
        BY <1>1, <2>3, <3>1
      <3>3. QED  BY <2>2, <3>2 DEF T
    <2>7. \A h \in 1..(j - 1) : h \in DOMAIN d
      BY <1>1, <2>4
    <2>8. Agreeing(C, D)
      BY <2>6, <2>7 DEF Agreeing, Same
    <2>9. C \subseteq Among(c)
      BY <2>6 DEF Among
    <2> HIDE DEF C, D
    <2>10. c[i].kind = "steps" => Succeeds(c[i].of.place, c[i].of.mid, C)
      BY <2>3, <2>9 DEF CallsSucceed, Succeeds
    <2>11. QED  BY <2>4, <2>5, <2>8, <2>10, JudgedOnce
  <1>3. QED  BY <1>2 DEF Agreeing, Among

\* The rules give a call, an application, or what is left of one, one result:
\* if no call that a keyword makes of the evaluator throws, there is no other.
THEOREM RulesGiveOneResult ==
  ASSUME NEW e, NEW x, NEW y, Settles(e, x), Derived(e, y), x.kind = y.kind, x.of = y.of
  PROVE  x.out = y.out
  <1>1. PICK c : Derivation(e, c) /\ CallsSucceed(c) /\ x \in Among(c)
    BY DEF Settles
  <1>2. PICK d : Derivation(e, d) /\ y \in Among(d)
    BY DEF Derived, Among
  <1>3. QED  BY <1>1, <1>2, DerivationsAgree DEF Agreeing

SettledCallsAgree ==
  \A i \in DOMAIN last : \A out :
    Settles(eliding, AppliesCall(last[i].call, out)) => Result(last[i]) = out

\* So a call of the evaluator has one result: if the rules settle it, every run
\* of it, on any state and after any others, ends with what they settle it to.
THEOREM CallsHaveOneResult ==
  ASSUME KeywordsAreProper, ScriptsAreProper
  PROVE  Spec => []SettledCallsAgree
  <1>1. CallsAreDerived => SettledCallsAgree
    <2>1. SUFFICES ASSUME CallsAreDerived, NEW i \in DOMAIN last, NEW out,
                          Settles(eliding, AppliesCall(last[i].call, out))
                   PROVE  Result(last[i]) = out
      BY DEF SettledCallsAgree
    <2> DEFINE x == AppliesCall(last[i].call, out)
               y == AppliesCall(last[i].call, Result(last[i]))
    <2>2. x.kind = y.kind /\ x.of = y.of /\ x.out = out /\ y.out = Result(last[i])
      BY DEF AppliesCall, Applies
    <2>3. Settles(eliding, x) /\ Derived(eliding, y)
      BY <2>1 DEF CallsAreDerived
    <2> HIDE DEF x, y
    <2>4. QED  BY <2>2, <2>3, RulesGiveOneResult
  <1>2. Spec => []CallsAreDerived
    BY CallsFollowTheRules
  <1>3. QED  BY <1>1, <1>2, PTL

-----------------------------------------------------------------------------
(* The cycle guard, where keywords only go down in the instance.           *)

\* A location is a list of segments, and no keyword applies a schema above the
\* location it is evaluated at.
CursorsAreListed == \A c \in Cursors : IsSeq(c.loc)
GoesDown(k, c, seen) ==
  \A i \in DOMAIN KeywordSteps(k, c, seen) :
    \/ KeywordSteps(k, c, seen)[i].how = "call"
    \/ Len(c.loc) <= Len(KeywordSteps(k, c, seen)[i].at.loc)
KeywordsGoDown ==
  \A n \in Schemas : SchemaKind(n) = "object" =>
    \A i \in DOMAIN SchemaTable(n) : \A c \in Cursors : \A deps, path : IsSeq(deps) =>
      GoesDown(SchemaTable(n)[i], c, Visible(deps, SchemaTable(n)[i], c, path))

Descends(active) ==
  /\ \A i \in DOMAIN active : active[i].at \in Cursors
  /\ \A i, j \in DOMAIN active : i < j => Len(active[i].at.loc) <= Len(active[j].at.loc)
Descending == \A s \in StateIds : Descends(heap[s].active)

DInv == TInv /\ Repeated /\ Descending

LEMMA AskGoesDown ==
  ASSUME KeywordsAreProper, KeywordsGoDown, TInv, runs # << >>, Run.pc = "apply"
  PROVE  /\ Ask.at \in Cursors
         /\ St.active # << >> => Len(Top(St.active).at.loc) <= Len(Ask.at.loc)
  <1> DEFINE n == Len(Run.acts)
  <1>1. PICK L, P, M : Tracks(eliding, Run, St, L, P, M)
    BY Standing
  <1>2. /\ L[n + 1].ask = Ask /\ LevelShape(L[n + 1])
        /\ n > 0 => /\ Waits(eliding, Run.acts[n], L[n], P[n], M[n], L[n + 1])
                    /\ P[n].env = L[n].env /\ P[n].ask = L[n].ask
    BY <1>1, ApplyLevel
  <1>3. n \in Nat /\ IsSeq(Run.acts) /\ Len(St.active) = n /\ IsSeq(St.active)
    <2>1. Local(Run, St) /\ StateShape(St)
      BY TrackedInnermost, Standing
    <2>2. QED  BY <2>1, Standing DEF Local, Balanced, StateShape
  <1>4. Ask.at \in Cursors
    BY <1>2 DEF LevelShape, Addressed
  <1>5. ASSUME St.active # << >>  PROVE Len(Top(St.active).at.loc) <= Len(Ask.at.loc)
    <2>1. n > 0 /\ Run.acts # << >>
      BY <1>3, <1>5, ListFacts
    <2> DEFINE p == P[n]
               m == M[n]
    <2>2. Stack(eliding, Run, St, L, P, M)
      BY <1>1 DEF Tracks
    <2>3. ActAt(Top(Run.acts), L[n], p) /\ EnvIn(St) = Inside(p.env, p.ask)
          /\ Top(Run.acts) = Run.acts[n]
      BY <1>3, <2>1, <2>2, OpenTop
    <2>4. Waits(eliding, Top(Run.acts), L[n], p, m, L[n + 1])
      BY <1>2, <2>1, <2>3
    <2>5. Ask = AskOf(p, m) /\ Applying(p, m) /\ Working(eliding, Top(Run.acts), L[n], p, m)
      BY <1>2, <2>4 DEF Waits, NextLevel
    <2>6. /\ SchemaKind(p.ask.to) = "object" /\ p.ask.at \in Cursors /\ p.ask.to \in Schemas
          /\ p.next \in Nat /\ p.next > 0 /\ IsSeq(p.env.active) /\ IsSeq(p.left.deps)
      BY <2>3 DEF ActAt, Opens, LevelShape, Addressed, EnvShape, LeftShape
    <2> HIDE DEF p, m, n
    <2>7. Top(St.active).at = p.ask.at
      <3>1. St.active = Append(p.env.active, [on |-> p.ask.to, at |-> p.ask.at])
        BY <2>3 DEF EnvIn, Inside
      <3>2. Top(St.active) = [on |-> p.ask.to, at |-> p.ask.at]
        BY <2>6, <3>1, ButLastAppended
      <3>3. QED  BY <3>2
    <2>8. IsSeq(TableAt(p)) /\ p.next \in DOMAIN TableAt(p)
      <3>1. IsSeq(TableAt(p))
        BY <2>6 DEF KeywordsAreProper, TableAt
      <3>2. QED  BY <2>5, <2>6, <3>1, ListFacts DEF Working
    <2>9. GoesDown(KeywordOf(p), p.ask.at, SeenAt(p, p.left.deps))
      BY <2>6, <2>8 DEF KeywordsGoDown, TableAt, KeywordOf, SeenAt
    <2>10. Len(m.verdicts) + 1 \in DOMAIN StepsOf(p)
      <3>1. IsSeq(StepsOf(p))
        BY <2>3, <2>5, <2>6, WorkingKeyword DEF Working, ProperSteps, StepsOf
      <3>2. IsSeq(m.verdicts) /\ Len(m.verdicts) < Len(StepsOf(p))
        BY <2>5 DEF Working, Verdicts, Applying, Unanswered
      <3>3. QED  BY <3>1, <3>2, ListFacts
    <2>11. Len(p.ask.at.loc) <= Len(StepOf(p, m).at.loc)
      BY <2>5, <2>9, <2>10 DEF GoesDown, StepsOf, StepOf, Applying
    <2>12. QED  BY <2>5, <2>7, <2>11 DEF AskOf
  <1>6. QED  BY <1>4, <1>5

LEMMA OpenDescends ==
  ASSUME CursorsAreListed, NEW active, IsSeq(active), Descends(active), NEW e, e.at \in Cursors,
         active # << >> => Len(Top(active).at.loc) <= Len(e.at.loc)
  PROVE  Descends(Append(active, e))
  <1> DEFINE n == Len(active)
             t == Append(active, e)
             Deep(i) == Len(t[i].at.loc)
  <1>1. /\ n \in Nat /\ DOMAIN active = 1..n /\ (active # << >> <=> n > 0)
        /\ IsSeq(t) /\ Len(t) = n + 1
        /\ \A i \in 1..n : t[i] = active[i]
        /\ t[n + 1] = e
    BY ListFacts, AppendFacts
  <1>2. DOMAIN t = 1..(n + 1)
    BY <1>1, ListFacts
  <1> HIDE DEF n, t
  <1>3. \A i \in 1..(n + 1) : t[i].at \in Cursors
    <2>1. \A i \in 1..(n + 1) : i \in 1..n \/ i = n + 1
      BY <1>1
    <2>2. QED  BY <1>1, <2>1 DEF Descends
  <1>4. \A i \in 1..(n + 1) : Deep(i) \in Nat
    BY <1>3, ListFacts DEF CursorsAreListed
  <1>5. \A i, j \in 1..n : i < j => Deep(i) <= Deep(j)
    BY <1>1 DEF Descends
  <1>6. n > 0 => Deep(n) <= Deep(n + 1)
    <2>1. Top(active) = active[n]
      BY DEF Top, n
    <2>2. n > 0 => n \in 1..n
      BY <1>1
    <2>3. QED  BY <1>1, <2>1, <2>2
  <1> HIDE DEF Deep
  <1>7. ASSUME NEW i \in 1..(n + 1), NEW j \in 1..(n + 1), i < j  PROVE Deep(i) <= Deep(j)
    <2>1. CASE j \in 1..n
      <3>1. i \in 1..n
        BY <1>1, <1>7, <2>1
      <3>2. QED  BY <1>5, <1>7, <2>1, <3>1
    <2>2. CASE j = n + 1 /\ i < n
      <3>1. n > 0 /\ i \in 1..n /\ n \in 1..n /\ n \in 1..(n + 1)
        BY <1>1, <1>7, <2>2
      <3>2. Deep(i) <= Deep(n) /\ Deep(n) <= Deep(n + 1)
        BY <1>5, <1>6, <2>2, <3>1
      <3>3. Deep(i) \in Nat /\ Deep(n) \in Nat /\ Deep(j) \in Nat
        BY <1>4, <1>7, <3>1
      <3>4. QED  BY <2>2, <3>2, <3>3
    <2>3. CASE j = n + 1 /\ i = n
      <3>1. n > 0
        BY <1>7, <2>3
      <3>2. QED  BY <1>6, <2>3, <3>1
    <2>4. QED  BY <1>1, <1>7, <2>1, <2>2, <2>3
  <1>8. QED  BY <1>2, <1>3, <1>7 DEF Descends, Deep, t

LEMMA CloseDescends ==
  ASSUME NEW active, IsSeq(active), active # << >>, Descends(active)
  PROVE  Descends(ButLast(active))
  <1> DEFINE n == Len(active)
             t == ButLast(active)
  <1>1. /\ n \in Nat /\ DOMAIN active = 1..n
        /\ DOMAIN t = 1..(n - 1)
        /\ \A i \in 1..(n - 1) : t[i] = active[i]
    BY ListFacts, ButLastFacts
  <1> HIDE DEF n, t
  <1>2. \A i \in 1..(n - 1) : i \in DOMAIN active
    BY <1>1
  <1>3. QED  BY <1>1, <1>2 DEF Descends, t

LEMMA DescendingNext ==
  ASSUME KeywordsAreProper, CursorsAreListed, KeywordsGoDown, DInv, [Next]_vars
  PROVE  DInv'
  <1>1. TInv' /\ Repeated'
    BY NextTracks, RepeatsNext DEF DInv, TInv, CInv
  <1>2. GuardsMove
    BY GuardsNext DEF DInv, TInv
  <1>3. SUFFICES ASSUME NEW s \in StateIds  PROVE Descends(heap'[s].active)
    BY <1>1 DEF DInv, Descending, Descends
  <1>4. GuardMove(s) /\ IsSeq(heap[s].active) /\ Descends(heap[s].active)
    BY <1>2 DEF GuardsMove, DInv, Descending, TInv, IInv, TypeOK, StateShape
  <1>5. CASE heap'[s].active = heap[s].active
    BY <1>4, <1>5
  <1>6. CASE heap'[s].active = << >>
    BY <1>6, EmptyList DEF Descends
  <1>7. CASE heap[s].active # << >> /\ heap'[s].active = ButLast(heap[s].active)
    BY <1>4, <1>7, CloseDescends
  <1>8. CASE /\ EnterObject /\ s = Run.st
             /\ heap'[s].active = Append(heap[s].active, [on |-> Ask.to, at |-> Ask.at])
    <2> DEFINE e == [on |-> Ask.to, at |-> Ask.at]
    <2>1. e.at = Ask.at
      OBVIOUS
    <2> HIDE DEF e
    <2>2. runs # << >> /\ Run.pc = "apply" /\ St = heap[s]
      BY <1>8 DEF EnterObject, Admitted, Running, Run, St
    <2>3. /\ e.at \in Cursors
          /\ heap[s].active # << >> => Len(Top(heap[s].active).at.loc) <= Len(e.at.loc)
      BY <2>1, <2>2, AskGoesDown DEF DInv
    <2>4. Descends(Append(heap[s].active, e))
      BY <1>4, <2>3, OpenDescends
    <2>5. QED  BY <1>8, <2>4 DEF e
  <1>9. QED  BY <1>4, <1>5, <1>6, <1>7, <1>8 DEF GuardMove

NothingRepeats ==
  \A s \in StateIds : \A i, j \in DOMAIN heap[s].active :
    i < j => heap[s].active[i] # heap[s].active[j]

\* Where no keyword applies a schema above the location it is evaluated at, the
\* guard is exact: no application is ever open twice on one state, though the
\* scan stops at the first shallower entry (activeKeys, the loop in applySchema).
THEOREM CyclesAreCaughtBelow ==
  ASSUME KeywordsAreProper, ScriptsAreProper, CursorsAreListed, KeywordsGoDown
  PROVE  Spec => [](CyclesAreCaught /\ NothingRepeats)
  <1>1. Init => DInv
    <2>1. SUFFICES ASSUME Init  PROVE DInv
      OBVIOUS
    <2>2. \A s \in StateIds : heap[s].active = << >>
      <3>1. Fresh.active = << >>
        BY DEF Fresh
      <3>2. QED  BY <2>1, <3>1 DEF Init
    <2>3. Repeated /\ Descending
      BY <2>2, EmptyList DEF Repeated, RepeatsComeFromShallower, Descending, Descends
    <2>4. TInv
      BY <2>1, InitTracks
    <2>5. QED  BY <2>3, <2>4 DEF DInv
  <1>2. DInv /\ [Next]_vars => DInv'
    BY DescendingNext
  <1>3. DInv => CyclesAreCaught /\ NothingRepeats
    <2>1. SUFFICES ASSUME DInv, NEW s \in StateIds
                   PROVE  /\ RepeatsComeFromShallower(heap[s].active)
                          /\ RepeatsComeOnce(heap[s].active)
                          /\ \A i, j \in DOMAIN heap[s].active :
                               i < j => heap[s].active[i] # heap[s].active[j]
      BY DEF CyclesAreCaught, NothingRepeats
    <2> DEFINE active == heap[s].active
               n == Len(active)
    <2>2. RepeatsComeFromShallower(active) /\ Descends(active) /\ IsSeq(active)
      BY <2>1 DEF DInv, Repeated, Descending, TInv, IInv, TypeOK, StateShape
    <2>3. n \in Nat /\ DOMAIN active = 1..n
      BY <2>2, ListFacts
    <2> HIDE DEF active, n
    <2>4. ASSUME NEW i \in 1..n, NEW j \in 1..n, i < j, active[i] = active[j]  PROVE FALSE
      <3>1. PICK k \in i..j : Shallower(active[k], active[i].at)
        BY <2>2, <2>3, <2>4 DEF RepeatsComeFromShallower
      <3>2. k \in 1..n /\ (k = i \/ i < k)
        BY <2>3, <2>4, <3>1
      <3>3. Len(active[k].at.loc) \in Nat /\ Len(active[i].at.loc) \in Nat
        BY <2>2, <2>3, <3>2, ListFacts DEF Descends, CursorsAreListed
      <3>4. Len(active[k].at.loc) < Len(active[i].at.loc)
        BY <3>1 DEF Shallower
      <3>5. i < k => Len(active[i].at.loc) <= Len(active[k].at.loc)
        BY <2>2, <2>3, <3>2 DEF Descends
      <3>6. QED  BY <3>2, <3>3, <3>4, <3>5
    <2>5. RepeatsComeOnce(active)
      BY <2>3, <2>4 DEF RepeatsComeOnce
    <2>6. QED  BY <2>2, <2>3, <2>4, <2>5 DEF active
  <1>4. QED  BY <1>1, <1>2, <1>3, PTL DEF Spec
=============================================================================
